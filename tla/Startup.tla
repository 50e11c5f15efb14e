------------------------------- MODULE Startup -------------------------------
(* From the files of a project to a runner that serves: loading and mounting *)
(* fragments, resolving and ordering dependencies, registering the tasks, the *)
(* hooks, and the commands they and the clients issue, message by message    *)
(* (src/src/config/config.rs, task/config_tasks.rs, command.rs, dekit/server.rs). *)
(* A task path is the sequence of its components.                            *)
EXTENDS Integers, Sequences, FiniteSets, SequencesExt

CONSTANTS
  Trees,            \* what the files may say: file -> its tasks and what it loads
  Root,             \* dekit.yaml
  Outside,          \* files that are not below the project root
  InitHooks, IdleHooks, ClientCommands,   \* commands; <<>> is no hook
  MaxComings        \* how often a task comes up

VARIABLES
  tree,     \* the files, and the hooks
  loader,   \* the files being loaded, outermost first, and the tasks found
  phase,
  callers,  \* who sends commands: what is left, from which ticket on, the answer
  inbox,    \* of the kernel
  kernel,   \* its tasks, those that are up, whether it quits, whether it has left
  outcome,  \* ticket -> what the kernel made of it, in the order it was handled
  idle      \* the watch behind on_idle: was anything up, how often that ended
startupVars == <<tree, loader, phase, callers, inbox, kernel, outcome, idle>>

Client == "client"
Callers == {"config", "init", "idle", Client}
-----------------------------------------------------------------------------
(* Loading.                                                                  *)

Nowhere == "nowhere"    \* an entry that matches no file, or mounts at no path
Join(parent, child) == parent \o child
\* What a file loads, in order: never itself, though its own pattern may match it.
Loads(file, mount) ==
  FlattenSeq([k \in 1..Len(tree.files[file].load) |->
    LET entry == tree.files[file].load[k]
        others == SelectSeq(entry.files, LAMBDA f : f # file)
        named == IF entry.files = <<>> THEN <<Nowhere>> ELSE others
    IN  [j \in 1..Len(named) |-> [file |-> named[j], mount |-> Join(mount, entry.at)]]])
\* A dependency with a leading slash is of the root, any other of the mount.
DepPath(dep, mount) == IF dep.root THEN dep.path ELSE Join(mount, dep.path)
TasksOf(file, mount) ==
  [k \in 1..Len(tree.files[file].tasks) |->
    LET t == tree.files[file].tasks[k]
    IN  [path |-> Join(mount, t.name), auto |-> t.auto,
         deps |-> [j \in 1..Len(t.deps) |-> DepPath(t.deps[j], mount)]]]
PathsOf(tasks) == {tasks[k].path : k \in 1..Len(tasks)}

Frame(file, todo) == [file |-> file, todo |-> todo]
Top == Last(loader.frames)
Refuses(item) ==
  \/ item.file = Nowhere \/ item.file \in Outside
  \/ item.file = Root /\ Len(loader.frames) > 1
  \/ \E k \in 1..Len(loader.frames) : loader.frames[k].file = item.file
LoadsFile ==
  /\ phase = "load" /\ Top.todo # <<>>
  /\ LET item == Head(Top.todo)
         found == TasksOf(item.file, item.mount)
         twice == PathsOf(found) \cap PathsOf(loader.tasks) # {}
         rest == [loader.frames EXCEPT ![Len(loader.frames)].todo = Tail(@)]
     IN  IF Refuses(item) THEN phase' = "refused" /\ UNCHANGED loader
         ELSE IF twice THEN phase' = "refused" /\ UNCHANGED loader
         ELSE /\ loader' = [frames |-> Append(rest, Frame(item.file, Loads(item.file, item.mount))),
                            tasks |-> loader.tasks \o found]
              /\ UNCHANGED phase
  /\ UNCHANGED <<tree, callers, inbox, kernel, outcome, idle>>
EndsFile ==
  /\ phase = "load" /\ Top.todo = <<>>
  /\ IF Len(loader.frames) = 1
     THEN phase' = "boot" /\ UNCHANGED loader
     ELSE loader' = [loader EXCEPT !.frames = Front(@)] /\ UNCHANGED phase
  /\ UNCHANGED <<tree, callers, inbox, kernel, outcome, idle>>
-----------------------------------------------------------------------------
(* Dependencies, by index.                                                   *)

IndexOf(tasks, path) == CHOOSE i \in 1..Len(tasks) : tasks[i].path = path
DepsByTask(tasks) ==
  [i \in 1..Len(tasks) |-> [j \in 1..Len(tasks[i].deps) |-> IndexOf(tasks, tasks[i].deps[j])]]
UnknownDep(tasks) == \E i \in 1..Len(tasks) : ~(ToSet(tasks[i].deps) \subseteq PathsOf(tasks))

\* Depth first; a task met while it is being visited closes a cycle.
RECURSIVE VisitAll(_, _, _)
Left(st, i) == [st EXCEPT !.colour[i] = IF st.cycle THEN @ ELSE "visited"]
Visit(deps, st, i) ==
  CASE st.cycle \/ st.colour[i] = "visited" -> st
    [] st.colour[i] = "visiting" -> [st EXCEPT !.cycle = TRUE]
    [] OTHER -> Left(VisitAll(deps, [st EXCEPT !.colour[i] = "visiting"], deps[i]), i)
VisitAll(deps, st, todo) ==
  IF todo = <<>> THEN st ELSE VisitAll(deps, Visit(deps, st, Head(todo)), Tail(todo))
HasCycle(deps) ==
  VisitAll(deps, [colour |-> [i \in 1..Len(deps) |-> "unvisited"], cycle |-> FALSE], [i \in 1..Len(deps) |-> i]).cycle

\* A dependency that is named twice counts twice, and is counted down twice.
Occurrences(s, x) == Cardinality({j \in 1..Len(s) : s[j] = x})
\* Mutant: a task comes as soon as one of its dependencies has come.
Mutant_FirstDep(deps, missing, i) == [k \in 1..Len(deps) |-> IF Occurrences(deps[k], i) > 0 THEN 0 ELSE missing[k]]
CountedDown(deps, missing, i) == [k \in 1..Len(deps) |-> missing[k] - Occurrences(deps[k], i)]
RECURSIVE Ordered(_, _, _, _)
Ordered(deps, missing, queue, order) ==
  IF queue = <<>> THEN order
  ELSE LET i == Head(queue)
           left == CountedDown(deps, missing, i)
           freed == SelectSeq([k \in 1..Len(deps) |-> k], LAMBDA k : left[k] = 0 /\ missing[k] > 0)
       IN  Ordered(deps, left, Tail(queue) \o freed, Append(order, i))
DepOrder(deps) ==
  LET missing == [i \in 1..Len(deps) |-> Len(deps[i])]
  IN  Ordered(deps, missing, SelectSeq([k \in 1..Len(deps) |-> k], LAMBDA k : missing[k] = 0), <<>>)
-----------------------------------------------------------------------------
(* Commands: a batch is done in order; whatever is sent is sent at once, and *)
(* then the outcomes are awaited in order, up to the first failure.          *)

RECURSIVE Flat(_)
Flat(command) ==
  IF command.verb = "batch"
  THEN FlattenSeq([k \in 1..Len(command.commands) |-> Flat(command.commands[k])])
  ELSE <<command>>
Add(path, deps, pinned) == [verb |-> "add", path |-> path, deps |-> deps, pinned |-> pinned, valid |-> TRUE]
On(verb, sel) == [verb |-> verb, sel |-> sel, valid |-> TRUE]
QuitCommand == [verb |-> "quit", valid |-> TRUE]
Registrations(tasks) ==
  LET deps == DepsByTask(tasks)
      order == DepOrder(deps)
      reg(i) == Add(tasks[i].path, {<<"path", tasks[j].path>> : j \in ToSet(deps[i])}, tasks[i].auto)
  IN  [k \in 1..Len(order) |-> reg(order[k])]

Nobody == [state |-> "free", todo |-> <<>>, tickets |-> <<>>, next |-> 1, acks |-> TRUE, answer |-> "none"]
Call(c, todo, acks) ==
  callers' = [callers EXCEPT ![c] =
    [@ EXCEPT !.state = "sends", !.todo = todo, !.tickets = <<>>, !.acks = acks, !.answer = "none"]]
Finish(c, answer) == [callers EXCEPT ![c] = [@ EXCEPT !.state = "free", !.todo = <<>>, !.answer = answer]]

\* Only registrations are acknowledged to a hook; a quit never is.
Acked(c, command) == command.verb = "add" \/ (command.verb # "quit" /\ callers[c].acks)
\* Mutant: a command that cannot be sent is left out.
Mutant_SkipsInvalid(c) ==
  callers' = [callers EXCEPT ![c].todo = Tail(@)]
StopsSending(c) == callers' = Finish(c, "invalid")
SendsOne(c) ==
  /\ callers[c].state = "sends" /\ callers[c].todo # <<>>
  /\ LET command == Head(callers[c].todo)
         ticket == <<c, callers[c].next>>
     IN  IF command.valid
         THEN /\ inbox' = IF kernel.left THEN inbox ELSE Append(inbox, [ticket |-> ticket, command |-> command])
              /\ callers' = [callers EXCEPT ![c] = [@ EXCEPT !.todo = Tail(@), !.next = @ + 1,
                               !.tickets = IF Acked(c, command) THEN Append(@, ticket) ELSE @]]
         ELSE StopsSending(c) /\ UNCHANGED inbox
  /\ UNCHANGED <<tree, loader, phase, kernel, outcome, idle>>

OutcomeOf(ticket) ==
  IF \E k \in 1..Len(outcome) : outcome[k].ticket = ticket
  THEN outcome[CHOOSE k \in 1..Len(outcome) : outcome[k].ticket = ticket].made
  ELSE IF kernel.left THEN "closed" ELSE "none"
Failures == {"missing", "taken", "closed"}
\* Where the wait ends: at the first failure, or after the last outcome; the
\* runner itself waits for all of them.
WaitEnds(c) ==
  LET made == [k \in 1..Len(callers[c].tickets) |-> OutcomeOf(callers[c].tickets[k])]
      failed == {k \in 1..Len(made) : made[k] \in Failures}
      none == {k \in 1..Len(made) : made[k] = "none"}
  IN  IF none # {} /\ c = "config" THEN "none"
      ELSE IF \E k \in failed : \A j \in none : k < j THEN "failed"
      ELSE IF none = {} THEN "ok" ELSE "none"
AwaitsAll(c) ==
  /\ callers[c].state = "sends" /\ callers[c].todo = <<>>
  /\ WaitEnds(c) # "none"
  /\ callers' = Finish(c, WaitEnds(c))
  /\ UNCHANGED <<tree, loader, phase, inbox, kernel, outcome, idle>>
-----------------------------------------------------------------------------
(* The kernel.                                                               *)

Matches(sel) ==
  {id \in DOMAIN kernel.tasks : sel = <<"all">> \/ sel = <<"path", kernel.tasks[id].path>>}
\* Its watch hears that the last task went down.
Watched(up) ==
  idle' = IF (up # {}) = idle.active THEN idle
          ELSE [active |-> up # {}, ended |-> IF up = {} THEN idle.ended + 1 ELSE idle.ended]
Became(tasks, up) ==
  /\ kernel' = [kernel EXCEPT !.tasks = tasks, !.up = up]
  /\ Watched(up)
Registered(ticket, command) ==
  [id \in DOMAIN kernel.tasks \cup {ticket} |->
    IF id = ticket THEN [path |-> command.path, wanted |-> command.pinned] ELSE kernel.tasks[id]]
Refusal(command) ==
  CASE \E sel \in command.deps : Matches(sel) = {} -> "missing"
    [] Matches(<<"path", command.path>>) # {} -> "taken"
    [] OTHER -> "done"
Obeys(ticket, command) ==
  CASE command.verb = "add" ->
         IF Refusal(command) = "done" THEN Became(Registered(ticket, command), kernel.up)
                                      ELSE UNCHANGED <<kernel, idle>>
    [] command.verb = "start" ->
         Became([id \in DOMAIN kernel.tasks |->
                  [kernel.tasks[id] EXCEPT !.wanted = @ \/ id \in Matches(command.sel)]], kernel.up)
    [] command.verb = "remove" ->
         LET gone == Matches(command.sel)
         IN  Became([id \in DOMAIN kernel.tasks \ gone |-> kernel.tasks[id]], kernel.up \ gone)
    [] command.verb = "quit" ->
         /\ kernel' = [kernel EXCEPT !.quits = TRUE, !.left = @ \/ kernel.quits \/ kernel.up = {}]
         /\ UNCHANGED idle
KernelHandles ==
  /\ inbox # <<>> /\ ~kernel.left
  /\ LET m == Head(inbox)
         made == IF m.command.verb = "add" THEN Refusal(m.command) ELSE "done"
     IN  Obeys(m.ticket, m.command)
         /\ outcome' = Append(outcome, [ticket |-> m.ticket, command |-> m.command, made |-> made])
  /\ inbox' = Tail(inbox)
  /\ UNCHANGED <<tree, loader, phase, callers>>
TaskComes ==
  /\ ~kernel.quits /\ kernel.came < MaxComings
  /\ \E id \in DOMAIN kernel.tasks \ kernel.up :
       /\ kernel.tasks[id].wanted
       /\ kernel' = [kernel EXCEPT !.up = @ \cup {id}, !.came = @ + 1]
       /\ Watched(kernel.up \cup {id})
  /\ UNCHANGED <<tree, loader, phase, callers, inbox, outcome>>
TaskGoes ==
  /\ ~kernel.left
  /\ \E id \in kernel.up :
       /\ kernel' = [kernel EXCEPT !.up = @ \ {id}, !.tasks[id].wanted = FALSE,
                                   !.left = kernel.quits /\ kernel.up = {id}]
       /\ Watched(kernel.up \ {id})
  /\ UNCHANGED <<tree, loader, phase, callers, inbox, outcome>>
-----------------------------------------------------------------------------
(* The runner's own course.                                                  *)

StartupInit ==
  /\ \E files \in Trees, init \in InitHooks, idling \in IdleHooks :
       tree = [files |-> files, init |-> init, idle |-> idling]
  /\ loader = [frames |-> <<Frame(Nowhere, IF Root \in DOMAIN tree.files
                                           THEN <<[file |-> Root, mount |-> <<>>]>> ELSE <<>>)>>,
               tasks |-> <<>>]
  /\ phase = "load"
  /\ callers = [c \in Callers |-> Nobody]
  /\ inbox = <<>> /\ outcome = <<>>
  /\ kernel = [tasks |-> <<>>, up |-> {}, quits |-> FALSE, left |-> FALSE, came |-> 0]
  /\ idle = [active |-> FALSE, ended |-> 0]

\* The names, then the cycles, then the order; all registrations are sent at once.
RegistersTasks ==
  /\ phase = "boot"
  /\ LET tasks == loader.tasks
     IN  IF UnknownDep(tasks) \/ HasCycle(DepsByTask(tasks)) \/ Len(DepOrder(DepsByTask(tasks))) # Len(tasks)
         THEN phase' = "fails" /\ UNCHANGED callers
         ELSE phase' = "config" /\ Call("config", Registrations(tasks), TRUE)
  /\ UNCHANGED <<tree, loader, inbox, kernel, outcome, idle>>
Answered(c) == callers[c].state = "free" /\ callers[c].answer # "none"
RunsInitHook ==
  /\ phase = "config" /\ Answered("config")
  /\ IF callers["config"].answer # "ok" THEN phase' = "fails" /\ UNCHANGED callers
     ELSE IF tree.init = <<>> THEN phase' = "binds" /\ UNCHANGED callers
     ELSE phase' = "init" /\ Call("init", Flat(tree.init), TRUE)
  /\ UNCHANGED <<tree, loader, inbox, kernel, outcome, idle>>
EndsInitHook ==
  /\ phase = "init" /\ Answered("init")
  /\ phase' = IF callers["init"].answer = "ok" THEN "binds" ELSE "fails"
  /\ UNCHANGED <<tree, loader, callers, inbox, kernel, outcome, idle>>
Binds == /\ phase = "binds"
         /\ phase' \in {"serves", "fails"}
         /\ UNCHANGED <<tree, loader, callers, inbox, kernel, outcome, idle>>
\* A bootstrap that fails quits the kernel and waits for it.
QuitsKernel ==
  /\ phase = "fails"
  /\ phase' = "quits"
  /\ inbox' = IF kernel.left THEN inbox ELSE Append(inbox, [ticket |-> <<"runner", 1>>, command |-> QuitCommand])
  /\ UNCHANGED <<tree, loader, callers, kernel, outcome, idle>>
Ends == /\ phase \in {"quits", "serves"} /\ kernel.left
        /\ phase' = IF phase = "quits" THEN "failed" ELSE "ended"
        /\ UNCHANGED <<tree, loader, callers, inbox, kernel, outcome, idle>>
RunsIdleHook ==
  /\ idle.ended > 0 /\ tree.idle # <<>> /\ callers["idle"].todo = <<>>
  /\ idle' = [idle EXCEPT !.ended = @ - 1]
  /\ Call("idle", Flat(tree.idle), FALSE)
  /\ UNCHANGED <<tree, loader, phase, inbox, kernel, outcome>>
ClientAsks ==
  /\ phase = "serves" /\ callers[Client] = Nobody
  /\ \E command \in ClientCommands : Call(Client, Flat(command), TRUE)
  /\ UNCHANGED <<tree, loader, phase, inbox, kernel, outcome, idle>>

StartupNext ==
  \/ LoadsFile \/ EndsFile \/ RegistersTasks \/ RunsInitHook \/ EndsInitHook \/ Binds \/ QuitsKernel \/ Ends
  \/ RunsIdleHook \/ ClientAsks \/ KernelHandles \/ TaskComes \/ TaskGoes
  \/ \E c \in Callers : SendsOne(c) \/ AwaitsAll(c)
-----------------------------------------------------------------------------
(* Reference: a file counts once for every way down to it from the root.     *)
RECURSIVE Ways(_)
Ways(chain) ==
  IF Last(chain).file \in {Nowhere} \cup Outside \/ Len(chain) > Cardinality(DOMAIN tree.files) THEN {chain}
  ELSE {chain} \cup UNION {Ways(Append(chain, item)) : item \in ToSet(Loads(Last(chain).file, Last(chain).mount))}
AllWays == IF Root \in DOMAIN tree.files THEN Ways(<<[file |-> Root, mount |-> <<>>]>>) ELSE {}
Sound ==
  /\ \A w \in AllWays : /\ Last(w).file \notin {Nowhere} \cup Outside
                        /\ \A j, k \in 1..Len(w) : j # k => w[j].file # w[k].file
  /\ LET named == {<<w, k>> : w \in AllWays, k \in 1..3}
         real == {n \in named : /\ Last(n[1]).file \in DOMAIN tree.files
                                /\ n[2] <= Len(tree.files[Last(n[1]).file].tasks)}
         pathOf(n) == TasksOf(Last(n[1]).file, Last(n[1]).mount)[n[2]].path
     IN  \A m, n \in real : m # n => pathOf(m) # pathOf(n)
Depended(tasks, p, q) ==
  LET edges == {<<tasks[i].path, d>> : i \in 1..Len(tasks), d \in PathsOf(tasks)}
      real == {e \in edges : \E i \in 1..Len(tasks) : tasks[i].path = e[1] /\ e[2] \in ToSet(tasks[i].deps)}
      grow(s) == s \cup {e[2] : e \in {x \in real : x[1] \in s}}
      from == {e[2] : e \in {x \in real : x[1] = p}}
  IN  q \in FoldLeft(LAMBDA s, k : grow(s), from, [k \in 1..Len(tasks) |-> k])
Meddles(command) == command.verb \in {"remove", "add"}

\* The tasks of a project are those of every file it loads, once for every mount;
\* a tree that comes back to a file, names a path twice or leaves the project is
\* refused, and so is a dependency on no task or around a circle.  Otherwise every
\* task is registered after all it depends on, and the kernel takes it, unless the
\* hook of an idle moment removed or added tasks meanwhile.
ConfigTaken ==
  /\ phase = "refused" => ~Sound
  /\ phase = "boot" => Sound /\ PathsOf(loader.tasks) =
       UNION {PathsOf(TasksOf(Last(w).file, Last(w).mount)) : w \in AllWays}
  /\ phase = "fails" /\ Len(callers["config"].tickets) = 0 /\ callers["config"].answer = "none" =>
       \/ UnknownDep(loader.tasks)
       \/ \E p \in PathsOf(loader.tasks) : Depended(loader.tasks, p, p)
  /\ \A k \in 1..Len(outcome) : outcome[k].ticket[1] = "config" /\ outcome[k].made # "done" =>
       \E j \in 1..k-1 : outcome[j].ticket[1] = "idle" /\ Meddles(outcome[j].command)

\* A batch of commands reaches the kernel as a prefix of itself, in order: the kernel
\* never does a command after one that could not be sent, whoever else is sending;
\* and who is told that it went well has had every part of it done.
BatchIsPrefix ==
  \A c \in {"init", Client} :
    LET asked == IF c = "init" THEN {Flat(h) : h \in {tree.init} \ {<<>>}}
                 ELSE {Flat(h) : h \in ClientCommands}
        mine == SelectSeq(outcome, LAMBDA o : o.ticket[1] = c)
        done == [k \in 1..Len(mine) |-> mine[k].command]
    IN  /\ mine # <<>> => \E all \in asked : IsPrefix(done, all)
        /\ callers[c].answer = "ok" /\ ~kernel.left /\ inbox = <<>> =>
             \E all \in asked : done = all /\ \A k \in 1..Len(mine) : mine[k].made = "done"
=============================================================================
