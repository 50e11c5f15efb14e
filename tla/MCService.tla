----------------------------- MODULE MCService -----------------------------
(* The parts around the kernel side by side; a behaviour is about one of     *)
(* them, and the variables of the others are not used.                       *)
EXTENDS Console, RunnerClients, Session, Registry

CONSTANTS
  Parts,    \* which of them are checked
  Trees, Root, Outside, InitHooks, IdleHooks, ClientCommands, MaxComings

VARIABLES
  part,
  tree, loader, phase, callers, mailbox, kernel, outcome, idle

Boot == INSTANCE Startup WITH inbox <- mailbox

\* Start-up: the tasks of a sound project are all registered, of no other any.
ConfigTaken == part = "startup" => Boot!ConfigTaken
\* Commands: a batch takes effect as a prefix of itself.
BatchIsPrefix == part = "startup" => Boot!BatchIsPrefix

startupPart == <<tree, loader, phase, callers, mailbox, kernel, outcome, idle>>

-----------------------------------------------------------------------------
\* Names: a directory and a task in it.
MCPaths == {<<"a">>, <<"a", "b">>}
MCPatterns == {<<"a", "*">>, <<"**", "b">>}
MCConsole == <<"c">>

\* The console: three tasks, a few keys in every group of the keymap.
MCTaskIds == <<1, 2, 3>>
MCTermSizes == {<<40, 9>>, <<44, 12>>}
MCFirstSize == <<80, 24>>
MCKeyConfig ==
  [tasks |-> <<[reset |-> FALSE, keys |-> << <<"q", <<"quit-or-ask">>>>, <<"X", <<"null">>>>, <<"Q", <<"zoom">>>>,
                                             <<"s", <<"batch", <<"start">>, <<"duplicate">>>>>> >>]>>,
   term |-> <<>>, copy |-> <<[reset |-> TRUE, keys |-> << <<"Esc", <<"copy-mode-leave">>>> >>]>>]
MCMenuItems == [q \in {"", "x"} |-> IF q = "" THEN << <<"next-task">>, <<"copy-mode-enter">>>> ELSE << <<"add-task">>>>]
MCClicks == {[on |-> "list", row |-> 1, kind |-> "down"], [on |-> "list", row |-> 0, kind |-> "wheel-down"]}

\* Start-up: a root file and two fragments, one file outside of the project.
Task(name, deps, auto) == [name |-> <<name>>, deps |-> deps, auto |-> auto]
Dep(path) == [root |-> FALSE, path |-> path]
RootDep(path) == [root |-> TRUE, path |-> path]
Entry(loaded, at) == [files |-> loaded, at |-> at]
File(tasks, load) == [tasks |-> tasks, load |-> load]
RootLoads == { <<>>, <<Entry(<<"a">>, <<>>)>>, <<Entry(<<"a", "b">>, <<"m">>)>>, <<Entry(<<"a">>, <<"m">>), Entry(<<"a">>, <<"n">>)>>,
  <<Entry(<<"b">>, <<>>), Entry(<<"a">>, <<"m">>)>>, <<Entry(<<>>, <<>>)>>, <<Entry(<<"root">>, <<>>)>> }
ALoads == { <<>>, <<Entry(<<"b">>, <<>>)>>, <<Entry(<<"a", "b">>, <<"k">>)>>, <<Entry(<<"out">>, <<>>)>> }
BLoads == { <<>>, <<Entry(<<"a">>, <<>>)>>, <<Entry(<<"root">>, <<>>)>> }
RootTasks == { <<>>, <<Task("x", <<>>, TRUE), Task("y", <<Dep(<<"x">>), Dep(<<"x">>)>>, FALSE)>>,
  <<Task("y", <<Dep(<<"x">>), Dep(<<"m", "w">>)>>, TRUE), Task("x", <<>>, FALSE)>>,
  <<Task("x", <<Dep(<<"x">>)>>, FALSE)>> }
ATasks == { <<Task("w", <<RootDep(<<"x">>)>>, TRUE)>>, <<Task("w", <<Dep(<<"x">>)>>, FALSE), Task("x", <<>>, FALSE)>> }
BTasks == { <<Task("v", <<Dep(<<"w">>)>>, FALSE)>> }
AllTrees ==
  {[f \in {"root", "a", "b"} |-> CASE f = "root" -> File(rt, rl) [] f = "a" -> File(at, al) [] f = "b" -> File(bt, bl)]
     : rt \in RootTasks, rl \in RootLoads, at \in ATasks, al \in ALoads, bt \in BTasks, bl \in BLoads}
\* What is never loaded is left empty.
Reached(t, f) ==
  LET loads(g) == UNION {ToSet(t[g].load[k].files) : k \in DOMAIN t[g].load}
      first == loads("root") \cap {"a", "b"}
  IN  f = "root" \/ f \in first \/ \E g \in first : f \in loads(g)
MCTrees == {[f \in DOMAIN t |-> IF Reached(t, f) THEN t[f] ELSE File(<<>>, <<>>)] : t \in AllTrees} \cup {<<>>}
Adds(path, deps) == [verb |-> "add", path |-> path, deps |-> deps, pinned |-> TRUE, valid |-> TRUE]
On(verb, sel) == [verb |-> verb, sel |-> sel, valid |-> TRUE]
Quits == [verb |-> "quit", valid |-> TRUE]
Batch(s) == [verb |-> "batch", commands |-> s]
BadStart == [verb |-> "start", sel |-> <<"all">>, valid |-> FALSE]
MCInitHooks ==
  {<<>>, Batch(<<Adds(<<"z">>, {}), Batch(<<Adds(<<"q">>, {<<"path", <<"z">>>>})>>),
                 On("start", <<"all">>)>>)}
MCIdleHooks == {<<>>, Quits, On("remove", <<"path", <<"x">>>>)}
MCClientCommands ==
  {Batch(<<Adds(<<"u">>, {}), BadStart, Quits>>),
   Batch(<<On("remove", <<"all">>), Adds(<<"x">>, {}), Adds(<<"x">>, {}), Quits>>)}
-----------------------------------------------------------------------------
BootUnused ==
  /\ tree = 0 /\ loader = 0 /\ phase = 0 /\ callers = 0 /\ mailbox = 0 /\ kernel = 0
  /\ outcome = 0 /\ idle = 0

RegistryUnused ==
  /\ entries = <<>> /\ names = [s \in Spaces |-> NoTrie(NoTask)] /\ tagged = [t \in Tags |-> {}]
  /\ subs = 0 /\ bySub = 0 /\ watches = <<>> /\ changed = FALSE /\ seen = 0 /\ messages = 0

ServiceInit ==
  /\ part \in Parts
  /\ IF part = "registry" THEN RegistryInit ELSE RegistryUnused
  /\ ConsoleInit
  /\ ClientsInit
  /\ SessionInit
  /\ IF part = "startup" THEN Boot!StartupInit ELSE BootUnused
(* What is left out of a part: states that are like others there.            *)

\* Instances of processes differ in nothing but their number, and pids neither.
InTurn ==
  /\ \A i \in Processes \ {1} : process'[i] # NotBorn => process'[i - 1] # NotBorn
  /\ process'[1].pid \in {0, 1}
\* The stop is followed to its end.  While it kills, processes come and go and
\* runners do nothing else; before, only runners come.  The clients that connect
\* end only while the stop has not begun, and the second starts a runner after
\* the first did.
Killing == Stop.pc \in {"open", "verify", "signal", "list", "see"}
ComesNow(i) == process[i] = NotBorn /\ process'[i] # NotBorn
FirstStarter == CHOOSE c \in Starters : TRUE
HasEnded(c) == client[c].pc \in {"connected", "refused"}
Matters ==
  /\ \A c \in Connectors \cup {Stopper} : ~HasEnded(c)
  /\ Stop.pc # "stopped" /\ (client'[Stopper].clock = 2 => Stop.owner # NoProcess)
  /\ \A i \in Processes : IF ComesNow(i) THEN Killing = (process'[i].is # "spawned")
                          ELSE Killing => process'[i].is \in {process[i].is, "gone"}
  /\ \A c \in Connectors : client'[c] # client[c] =>
       /\ ~Killing /\ (HasEnded(c)' => IsAt(Stopper, "look"))
       /\ c \in Starters \ {FirstStarter} => client[FirstStarter].spawned
\* Nor do attachments: the second one comes while the first is known.
Known ==
  outside.attached \cup DOMAIN view.viewers
    \cup {a \in Attachments : \E k \in DOMAIN inbox : inbox[k].is = "detach" /\ inbox[k].who = a}
FirstComes == \A a \in outside'.attached \ (Known \cup {1}) : a - 1 \in Known
\* At most two frames are unread, and none is sent to a connection that is closed.
InReach == Len(up') <= 2 /\ (sent' # sent => ~At("closed"))
\* Subscriptions and watches have nothing to do with each other.
Apart == watches' = <<>> \/ \A s \in DOMAIN bySub' : bySub'[s] = {}

ServiceNext ==
  \/ part = "registry" /\ RegistryNext /\ Apart /\ UNCHANGED <<part, consoleVars, clientVars, sessionVars, startupPart>>
  \/ part = "console" /\ ConsoleNext /\ FirstComes /\ UNCHANGED <<part, registryVars, clientVars, sessionVars, startupPart>>
  \/ part = "clients" /\ ClientsNext /\ InTurn /\ Matters /\ UNCHANGED <<part, registryVars, consoleVars, sessionVars, startupPart>>
  \/ part = "session" /\ SessionNext /\ InReach /\ UNCHANGED <<part, registryVars, consoleVars, clientVars, startupPart>>
  \/ part = "startup" /\ Boot!StartupNext /\ UNCHANGED <<part, registryVars, consoleVars, clientVars, sessionVars>>
=============================================================================
