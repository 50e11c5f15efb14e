------------------------------ MODULE Session ------------------------------
(* One connection to the runner and the attach session it may become          *)
(* (src/src/dekit/server.rs, attach.rs, src/src/protocol/conn.rs), with one    *)
(* task and the kernel's queue behind it.  Everything that is sent to the      *)
(* kernel goes through that queue, also a command for the screen of the task.  *)
EXTENDS Integers, Sequences, FiniteSets, SequencesExt

CONSTANTS
  MaxFrames,      \* frames that a client sends
  MaxOutput,      \* how often the task writes
  MaxEvents       \* what other clients do

VARIABLES
  up, sent, clientOpen,   \* frames not yet read, their number, is the client there
  down,                   \* frames written to the client
  conn,                   \* the connection, and the session
  queue, kernelUp,        \* the kernel
  watch,                  \* its watch: is there one, what it saw, what it told
  target,                 \* the task
  news, sink,            \* what the screen told the session, and its end of that
  events
sessionVars == <<up, sent, clientOpen, down, conn, queue, kernelUp, watch, target, news, sink, events>>

At(pc) == conn.pc = pc
Goto(c, pc) == [c EXCEPT !.pc = pc]
\* What a frame may be; a request has the number of the frame as its id.
Kinds == {"hello", "hello-other", "call", "bad-call", "attach", "run", "input", "copy",
          "other", "out", "novel", "broken"}
Reply(id, ok) == [is |-> "response", id |-> id, ok |-> ok]
Bye(code, state, screen) == [is |-> "bye", code |-> code, state |-> state, screen |-> screen]

-----------------------------------------------------------------------------
(* The kernel and the task.                                                  *)

Post(messages) == queue' = IF kernelUp THEN queue \o messages ELSE queue
\* A query that the kernel can no longer answer has no answer.
Asking(c) == [c EXCEPT !.reply = IF kernelUp THEN "none" ELSE "gone"]
Deliver(m) == [target EXCEPT !.mail = IF target.there THEN Append(@, m) ELSE @]
StateOf(x) == IF ~x.there THEN "gone" ELSE IF x.active THEN "active" ELSE "idle"
\* After each message a watch that is no longer right is told.
Looked(w, x) ==
  IF w.on /\ w.saw # x.active THEN [w EXCEPT !.saw = x.active, !.told = Append(@, x.active)] ELSE w

Handles ==
  /\ kernelUp /\ queue # <<>> /\ queue' = Tail(queue)
  /\ LET m == Head(queue)
         x == CASE m = "stopped" -> [target EXCEPT !.active = FALSE]
                [] m = "start" -> IF target.there /\ ~target.active
                                  THEN [target EXCEPT !.active = TRUE, !.runs = TRUE] ELSE target
                [] m = "remove" -> [target EXCEPT !.there = FALSE, !.active = FALSE]
                [] m \in {"attach", "detach", "input", "copy"} -> Deliver(m)
                [] OTHER -> target
     IN  /\ target' = x
         /\ watch' = Looked(IF m = "watch" THEN [watch EXCEPT !.on = TRUE, !.saw = x.active] ELSE watch, x)
         /\ sink' = IF m = "attach" /\ ~target.there THEN "dropped" ELSE sink
         /\ conn' = IF m = "query" THEN [conn EXCEPT !.reply = StateOf(x)] ELSE conn
         /\ events' = IF m = "quit" THEN [events EXCEPT !.quit = TRUE] ELSE events
  /\ UNCHANGED <<up, sent, clientOpen, down, kernelUp, news>>
\* After a quit, once no task is active, the loop ends and everything is dropped.
KernelEnds ==
  /\ kernelUp /\ events.quit /\ ~target.active
  /\ kernelUp' = FALSE /\ queue' = <<>>
  /\ target' = [target EXCEPT !.there = FALSE, !.active = FALSE]
  /\ conn' = IF conn.reply = "none" THEN [conn EXCEPT !.reply = "gone"] ELSE conn
  /\ sink' = IF "attach" \in ToSet(queue) THEN "dropped" ELSE sink
  /\ UNCHANGED <<up, sent, clientOpen, down, watch, news, events>>

Told(n) == news' = IF sink = "held" /\ conn.pc \notin {"detach", "final", "closed"}
                    THEN Append(news, n) ELSE news
Writes ==
  /\ target.runs /\ target.wrote < MaxOutput
  /\ target' = [target EXCEPT !.wrote = @ + 1]
  /\ IF target.observed THEN Told("render") ELSE UNCHANGED news
  /\ UNCHANGED <<up, sent, clientOpen, down, conn, queue, kernelUp, watch, sink, events>>
\* Its output is on the screen before it reports that it has stopped.
Stops ==
  /\ target.runs /\ target' = [target EXCEPT !.runs = FALSE]
  /\ Post(<<"stopped">>)
  /\ UNCHANGED <<up, sent, clientOpen, down, conn, kernelUp, watch, news, sink, events>>
HearsMail ==
  /\ target.mail # <<>>
  /\ LET m == Head(target.mail)
         x == [target EXCEPT !.mail = Tail(@)]
     IN  CASE m = "attach" -> target' = [x EXCEPT !.observed = TRUE] /\ sink' = "held"
                              /\ news' = IF At("closed") THEN news
                                          ELSE news \o <<"render">> \o (IF x.copy THEN <<"copy">> ELSE <<>>)
           [] m = "detach" -> target' = [x EXCEPT !.observed = FALSE] /\ sink' = "dropped" /\ UNCHANGED news
           [] m = "copy" -> /\ target' = [x EXCEPT !.copy = ~@] /\ UNCHANGED sink
                            /\ IF x.observed THEN Told(IF x.copy THEN "plain" ELSE "copy") ELSE UNCHANGED news
           [] m = "input" -> target' = x /\ UNCHANGED <<sink, news>>
  /\ UNCHANGED <<up, sent, clientOpen, down, conn, queue, kernelUp, watch, events>>
\* A task that was removed ends after what it was sent before.
TaskEnds ==
  /\ ~target.there /\ target.mail = <<>> /\ (target.runs \/ target.observed)
  /\ target' = [target EXCEPT !.runs = FALSE, !.observed = FALSE]
  /\ sink' = IF target.observed THEN "dropped" ELSE sink
  /\ UNCHANGED <<up, sent, clientOpen, down, conn, queue, kernelUp, watch, news, events>>
\* Other clients start the task again, remove it or end the runner.
OthersAct ==
  /\ events.n < MaxEvents /\ kernelUp /\ events' = [events EXCEPT !.n = @ + 1]
  /\ \E m \in {"start", "remove", "quit"} : Post(<<m>>)
  /\ UNCHANGED <<up, sent, clientOpen, down, conn, kernelUp, watch, target, news, sink>>

-----------------------------------------------------------------------------
(* The client sends frames, and may go at any time.                          *)

ClientSends(kind) ==
  /\ clientOpen /\ sent < MaxFrames /\ sent' = sent + 1
  /\ up' = Append(up, [is |-> kind, id |-> sent + 1])
  /\ UNCHANGED <<clientOpen, down, conn, queue, kernelUp, watch, target, news, sink, events>>
Leaves ==
  /\ clientOpen /\ clientOpen' = FALSE
  /\ UNCHANGED <<up, sent, down, conn, queue, kernelUp, watch, target, news, sink, events>>

-----------------------------------------------------------------------------
(* The connection: a handshake, then requests, each answered when it is done. *)

\* What comes next: a frame, or the end.  Frames of kinds and messages of types
\* that are not known are passed over.
First == {k \in DOMAIN up : \A j \in 1..k : up[j].is = "novel" <=> j # k}
Incoming ==
  {[is |-> up[k].is, id |-> up[k].id, rest |-> SubSeq(up, k + 1, Len(up))] : k \in First}
    \cup {f \in {[is |-> "end", id |-> 0, rest |-> <<>>]} : ~clientOpen /\ First = {}}
\* A frame sent to a client that has gone may be lost, which the sender notices.
Says(frame, ok, lost) ==
  \/ down' = Append(down, frame) /\ conn' = ok
  \/ ~clientOpen /\ conn' = lost /\ UNCHANGED down
Closed(c) == [Goto(c, "closed") EXCEPT !.replies = {}]
NoneElse == UNCHANGED <<sent, clientOpen, queue, kernelUp, watch, target, news, sink, events>>

Greets == \E f \in Incoming :
  /\ At("hello") /\ up' = f.rest /\ NoneElse
  /\ CASE f.is = "hello" -> Says([is |-> "hello"], Goto(conn, "serving"), Closed(conn))
       [] f.is = "hello-other" ->
            Says(Bye("unsupported_protocol", "none", 0), Closed(conn), Closed(conn))
       [] OTHER -> conn' = Closed(conn) /\ UNCHANGED down
Serves == \E f \in Incoming :
  /\ At("serving") /\ up' = f.rest /\ NoneElse
  /\ CASE f.is = "call" ->
            conn' = [conn EXCEPT !.replies = @ \cup {f.id}, !.calls = @ \cup {f.id}] /\ UNCHANGED down
       [] f.is = "bad-call" -> Says(Reply(f.id, FALSE), [conn EXCEPT !.calls = @ \cup {f.id}], Closed(conn))
       [] f.is \in {"attach", "run"} ->
            conn' = [Goto(conn, "flush") EXCEPT !.id = f.id, !.until = (f.is = "run")] /\ UNCHANGED down
       [] f.is \in {"out", "broken", "end"} -> conn' = Goto(conn, "drain") /\ UNCHANGED down
       [] OTHER -> UNCHANGED <<conn, down>>
Answers(id) ==
  /\ conn.pc \in {"serving", "flush", "drain"} /\ id \in conn.replies
  /\ Says(Reply(id, TRUE), [conn EXCEPT !.replies = @ \ {id}], Closed(conn))
  /\ UNCHANGED up /\ NoneElse
\* Mutant: an attach does not wait for the requests before it.
Mutant_Hasty == TRUE
Flushed == conn.replies = {}
Drained ==
  /\ At("drain") /\ Flushed /\ conn' = Closed(conn)
  /\ UNCHANGED <<up, down>> /\ NoneElse

-----------------------------------------------------------------------------
(* An attach takes the connection over.                                      *)

Resolves ==
  /\ At("flush") /\ Flushed
  /\ Post(<<"query">>) /\ conn' = Asking(Goto(conn, "resolve"))
  /\ UNCHANGED <<up, sent, clientOpen, down, kernelUp, watch, target, news, sink, events>>
Resolved ==
  /\ At("resolve") /\ conn.reply # "none"
  /\ IF conn.reply = "gone"
     THEN Says(Reply(conn.id, FALSE), Closed(conn), Closed(conn)) /\ UNCHANGED <<queue, sink>>
     ELSE /\ Post(<<"attach">>) /\ sink' = IF kernelUp THEN sink ELSE "dropped"
          /\ conn' = Goto(conn, "confirm") /\ UNCHANGED down
  /\ UNCHANGED <<up, sent, clientOpen, kernelUp, watch, target, news, events>>
Confirms ==
  /\ At("confirm")
  /\ LET ok == [conn EXCEPT !.confirmed = TRUE, !.pc = IF conn.until THEN "until" ELSE "session"]
     IN  Says(Reply(conn.id, TRUE), ok, Goto(conn, "detach"))
  /\ UNCHANGED up /\ NoneElse
\* Mutant: the state is asked for first.
Mutant_AsksFirst == <<"query", "watch">>
\* A session until the exit watches the task, and then asks whether it is active.
UntilSteps == <<"watch", "query">>
StepsUntil ==
  /\ At("until") /\ conn.step <= 2 /\ conn.reply # "none"
  /\ LET step == UntilSteps[conn.step]
     IN  /\ Post(<<step>>)
         /\ conn' = [IF step = "query" THEN Asking(conn) ELSE conn EXCEPT !.step = @ + 1]
  /\ UNCHANGED <<up, sent, clientOpen, down, kernelUp, watch, target, news, sink, events>>
Learns ==
  /\ At("until") /\ conn.step = 3 /\ conn.reply # "none"
  /\ conn' = [Goto(conn, "session") EXCEPT !.ended = conn.reply # "active", !.atEnd = target.wrote]
  /\ UNCHANGED <<up, down>> /\ NoneElse

\* What the client is to see: the screen, or the surface of copy mode; it is
\* sent what changed.
Picture(c) == IF c.present THEN -1 ELSE target.wrote
Over(c, how) == [Goto(c, "detach") EXCEPT !.exited = (how = "exited")]
Paints(c, lost) ==
  IF Picture(c) = c.drawn THEN conn' = c /\ UNCHANGED down
  ELSE Says([is |-> "out", shows |-> Picture(c)], [c EXCEPT !.drawn = Picture(c)], lost)
InSession == At("session") /\ ~conn.ended

HearsNotes ==
  /\ InSession /\ news # <<>> /\ news' = <<>>
  /\ LET shown == SelectSeq(news, LAMBDA n : n # "render")
         c == IF shown = <<>> THEN conn ELSE [conn EXCEPT !.present = (Last(shown) = "copy")]
     IN  Paints(c, Over(c, "closed"))
  /\ UNCHANGED <<up, sent, clientOpen, queue, kernelUp, watch, target, sink, events>>
ScreenGone ==
  /\ InSession /\ news = <<>> /\ sink = "dropped" /\ conn' = Over(conn, "closed")
  /\ UNCHANGED <<up, down>> /\ NoneElse
HearsWatch ==
  /\ InSession /\ watch.on /\ watch.told # <<>>
  /\ watch' = [watch EXCEPT !.told = Tail(@)]
  /\ conn' = IF Head(watch.told) THEN conn ELSE [conn EXCEPT !.ended = TRUE, !.atEnd = target.wrote]
  /\ UNCHANGED <<up, down, sent, clientOpen, queue, kernelUp, target, news, sink, events>>
WatchGone ==
  /\ InSession /\ conn.until /\ watch.told = <<>> /\ ~kernelUp /\ conn' = Over(conn, "closed")
  /\ UNCHANGED <<up, down>> /\ NoneElse
HearsClient == \E f \in Incoming :
  /\ InSession /\ up' = f.rest
  /\ CASE f.is \in {"input", "copy"} -> Post(<<f.is>>) /\ UNCHANGED conn
       [] f.is \in {"broken", "end"} -> conn' = Over(conn, "closed") /\ UNCHANGED queue
       [] OTHER -> UNCHANGED <<queue, conn>>
  /\ UNCHANGED <<down, sent, clientOpen, kernelUp, watch, target, news, sink, events>>
LastPaint(c) == Paints(c, c)
SessionEnds ==
  /\ At("session") /\ conn.ended
  /\ LastPaint(Over(conn, "exited"))
  /\ UNCHANGED up /\ NoneElse

\* Mutant: a session that was not confirmed leaves its size behind.
Mutant_OnlyConfirmed == IF conn.confirmed THEN <<"detach">> ELSE <<>>
Farewell == <<"detach">>
Detaches ==
  /\ At("detach")
  /\ IF conn.confirmed /\ conn.exited
     THEN Post(Farewell \o <<"query">>) /\ conn' = Asking(Goto(conn, "final")) /\ UNCHANGED down
     ELSE /\ Post(Farewell)
          /\ IF conn.confirmed THEN Says(Bye("quit", "none", 0), Closed(conn), Closed(conn))
             ELSE conn' = Closed(conn) /\ UNCHANGED down
  /\ news' = <<>>
  /\ UNCHANGED <<up, sent, clientOpen, kernelUp, watch, target, sink, events>>
\* The state and the screen are taken, and then the task is removed.
Reports ==
  /\ At("final") /\ conn.reply # "none"
  /\ Post(<<"remove">>)
  /\ Says(Bye("task_exited", conn.reply, target.wrote), Closed(conn), Closed(conn))
  /\ UNCHANGED <<up, sent, clientOpen, kernelUp, watch, target, news, sink, events>>

-----------------------------------------------------------------------------
SessionInit ==
  /\ up = <<>> /\ sent = 0 /\ clientOpen = TRUE /\ down = <<>>
  /\ conn = [pc |-> "hello", replies |-> {}, calls |-> {}, id |-> 0, until |-> FALSE, confirmed |-> FALSE,
             step |-> 1, reply |-> "nothing", ended |-> FALSE, exited |-> FALSE, atEnd |-> 0,
             present |-> FALSE, drawn |-> -2]
  /\ queue = <<>> /\ kernelUp = TRUE
  /\ watch = [on |-> FALSE, saw |-> FALSE, told |-> <<>>]
  /\ target = [there |-> TRUE, active |-> TRUE, runs |-> TRUE, wrote |-> 0,
               mail |-> <<>>, observed |-> FALSE, copy |-> FALSE]
  /\ news = <<>> /\ sink = "sent" /\ events = [n |-> 0, quit |-> FALSE]

SessionNext ==
  \/ Handles \/ KernelEnds \/ Writes \/ Stops \/ HearsMail \/ TaskEnds \/ OthersAct
  \/ (\E kind \in Kinds : ClientSends(kind)) \/ Leaves
  \/ Greets \/ Serves \/ (\E id \in conn.replies : Answers(id)) \/ Drained
  \/ Resolves \/ Resolved \/ Confirms \/ StepsUntil \/ Learns
  \/ HearsNotes \/ ScreenGone \/ HearsWatch \/ WatchGone \/ HearsClient \/ SessionEnds
  \/ Detaches \/ Reports

SessionSpec == SessionInit /\ [][SessionNext]_sessionVars

-----------------------------------------------------------------------------
(* Properties.                                                               *)

AnswersTo(id) == {i \in DOMAIN down : down[i].is = "response" /\ down[i].id = id}
\* Where the session starts, and every request before it.
Starts == IF conn.confirmed THEN AnswersTo(conn.id) ELSE {}
\* Every request is answered at most once, and once the server is done with a
\* client that is still there, exactly once.  The answers to what was asked
\* before an attach come before its confirmation; the screen comes only after,
\* and nothing but the screen until one goodbye, which is the last frame.
AnsweredInOrder ==
  /\ \A id \in 1..MaxFrames : Cardinality(AnswersTo(id)) <= 1
  /\ At("closed") /\ clientOpen => \A id \in conn.calls : AnswersTo(id) # {}
  /\ \A k \in Starts : \A id \in conn.calls : \E i \in AnswersTo(id) : i < k
  /\ \A i \in DOMAIN down :
       /\ down[i].is = "out" => \E k \in Starts : k < i
       /\ \A k \in Starts : k < i => down[i].is \in {"out", "bye"}
       /\ down[i].is = "bye" => i = Len(down)

\* A session until the exit does not miss the exit: when nothing is under way
\* the task it waits for is active.  And what the task wrote before is on the
\* client's terminal, unless that shows copy mode, and in the goodbye.
ExitReported ==
  /\ InSession /\ conn.until /\ kernelUp /\ queue = <<>> /\ watch.told = <<>> => target.active
  /\ down # <<>> /\ Last(down).is = "bye" /\ Last(down).code = "task_exited" =>
       /\ Last(down).screen >= conn.atEnd
       /\ clientOpen /\ ~conn.present => conn.drawn >= conn.atEnd

\* However a session ended, the screen of the task no longer keeps its size.
SizeReleased ==
  At("closed") /\ queue = <<>> /\ target.mail = <<>> /\ target.there => ~target.observed

\* "The runner reaps the task itself on exit (it is until_exit), so a client
\* that dies mid-run never leaks it" (src/src/dekit/main.rs:663).
NeverLeaked ==
  At("closed") /\ conn.until /\ conn.confirmed /\ queue = <<>> /\ kernelUp /\ ~target.active
    => ~target.there
=============================================================================
