------------------------------- MODULE MCLive -------------------------------
(***************************************************************************)
(* What must eventually happen.  A behaviour runs one of two parts, and    *)
(* the other stays as it starts:                                           *)
(*   kernel   the kernel under a bounded number of messages of clients and *)
(*            tasks: from then on only the loop and its timers act;        *)
(*   process  a task and two children, as the runner's threads are         *)
(*            scheduled, whatever programs and clients do.                 *)
(***************************************************************************)
EXTENDS MCKernel

CONSTANTS
  Inputs,     \* bound on the messages of clients and tasks
  prog, None, p1, p2

VARIABLES
  part,
  left,       \* how many of the messages are still to come
  pc, fresh, process, exitInfo, eof, readySent, mailbox, open, inbox,
  leader, kin, pid, sigchld, waiter, hand, listeners, unclaimed, mishap

processVars ==
  <<pc, fresh, process, exitInfo, eof, readySent, mailbox, open, inbox,
    leader, kin, pid, sigchld, waiter, hand, listeners, unclaimed, mishap>>
liveVars == <<part, vars, left, processVars>>

Owners == (1 :> prog) @@ (2 :> prog)
P == INSTANCE ProcessTask WITH
  Tasks <- {prog}, Instances <- 1..2, Owner <- Owners, Pids <- {p1, p2},
  Reuse <- FALSE, LateFailure <- FALSE,
  ReadyLog <- {}, StopKeys <- {prog}, KillGroup <- {}, QueueMax <- 1

LiveInit == part \in {"kernel", "process"} /\ Init /\ left = Inputs /\ P!Init

Heard == left > 0 /\ Input /\ left' = left - 1
Alone == (Timeout \/ Work \/ Exited) /\ UNCHANGED left
LiveNext ==
  \/ part = "kernel" /\ (Heard \/ Alone) /\ UNCHANGED <<part, processVars>>
  \/ part = "process" /\ P!Next /\ UNCHANGED <<part, vars, left>>

(* In the part that stands still none of these actions is enabled. *)
LiveSpec == LiveInit /\ [][LiveNext]_liveVars /\ Fairness /\ P!Fairness

(* The end of an instance is noticed: a task does not stay up with a       *)
(* program that has exited and closed its terminal (process_task.rs:203).  *)
EndIsNoticed == P!EndIsNoticed

(* A kill that waits for its turn ends the program, unless the task is     *)
(* caught in a write (process_task.rs:438).                                *)
KillOrWrite == P!KillOrWrite
=============================================================================
