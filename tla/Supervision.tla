---------------------------- MODULE Supervision -----------------------------
(***************************************************************************)
(* What a task that runs programs promises the kernel: the reports of its  *)
(* instances alternate, one stop for each start, whatever exits, ends of   *)
(* output and commands come in between; and, when exits are delivered      *)
(* Exact, the stop is that of an instance that is over, with its own exit. *)
(* The same channel takes the exits of children to the task itself.        *)
(***************************************************************************)
EXTENDS Sequences

CONSTANTS Tasks, Instances, None, Exact

VARIABLES
  held,     \* the instance each task is up with
  ready,    \* tasks that have said so of their instance
  over,     \* instances that have exited and whose terminal is closed
  channel,  \* what of each task is on its way to the kernel
  open      \* tasks the kernel still has

vars == <<held, ready, over, channel, open>>

Say(t, what, i, x) ==
  channel' = [channel EXCEPT ![t] = Append(@, [cmd |-> what, inst |-> i, exit |-> x])]

Init ==
  /\ held = [t \in Tasks |-> None]
  /\ ready = {} /\ over = {}
  /\ channel = [t \in Tasks |-> <<>>]
  /\ open = Tasks

Begin(t, i) ==
  /\ held[t] = None
  /\ held' = [held EXCEPT ![t] = i]
  /\ Say(t, "Started", i, None)
  /\ UNCHANGED <<ready, over, open>>

BeReady(t) ==
  /\ held[t] # None /\ t \notin ready
  /\ ready' = ready \cup {t}
  /\ Say(t, "Ready", held[t], None)
  /\ UNCHANGED <<held, over, open>>

Finish(t, x) ==
  /\ held[t] # None
  /\ Exact => held[t] \in over /\ x = held[t]
  /\ held' = [held EXCEPT ![t] = None]
  /\ ready' = ready \ {t}
  /\ Say(t, "Stopped", held[t], x)
  /\ UNCHANGED <<over, open>>

(* There was nothing to stop: a spawn has failed. *)
Fail(t) ==
  /\ held[t] = None
  /\ Say(t, "Stopped", None, None)
  /\ UNCHANGED <<held, ready, over, open>>

(* The exit of a child: no report, and the kernel only passes it on.       *)
Notice(t, i) == Say(t, "Exited", i, i) /\ UNCHANGED <<held, ready, over, open>>

Heard(t) ==
  /\ channel[t] # <<>>
  /\ channel' = [channel EXCEPT ![t] = Tail(@)]
  /\ UNCHANGED <<held, ready, over, open>>

(* Without the kernel a task says nothing more of what it held. *)
Close(t) == t \in open /\ open' = open \ {t} /\ UNCHANGED <<held, ready, over, channel>>
Abandon(t) ==
  /\ t \notin open
  /\ held' = [held EXCEPT ![t] = None]
  /\ ready' = ready \ {t}
  /\ UNCHANGED <<over, channel, open>>

(* An instance that is over stays so. *)
Passes == over \subseteq over' /\ UNCHANGED <<held, ready, channel, open>>

Next ==
  \/ \E t \in Tasks :
       \/ \E i \in Instances : Begin(t, i) \/ Finish(t, i) \/ Notice(t, i)
       \/ BeReady(t) \/ Fail(t) \/ Heard(t) \/ Close(t) \/ Abandon(t)
  \/ Passes

Spec == Init /\ [][Next]_vars
=============================================================================
