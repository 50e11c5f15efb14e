--------------------------- MODULE ProcessSystem ----------------------------
(***************************************************************************)
(* The kernel together with the tasks that run programs.  What the kernel  *)
(* sends a task is put into that task's mailbox at once (ChannelTask), and *)
(* the loops of the tasks run beside it; what they report waits in the     *)
(* kernel's channel until the kernel takes its next message.               *)
(***************************************************************************)
EXTENDS ProcessTask

CONSTANTS
  Kind, ReadyMode, Restart,   \* see module Kernel
  MaxRequests   \* bound on what clients send, and on programs that cannot be spawned

VARIABLES
  phase, steps, quitting, registered, issued, edges, pins, epoch, vetoed, killed,
  running,      \* the state the kernel has each task in
  wanted, supported, wantedParents, activeDependents, dirty, toDrive, effects, timers,
  givenUp,      \* tasks whose kill the kernel has stopped waiting for
  requests

(* The tasks require nothing of each other, and answer nothing at once. *)
K == INSTANCE Kernel WITH
  state <- running,
  DepChoices <- [t \in Tasks |-> {{}}], Selections <- {{t} : t \in Tasks},
  Listeners <- [t \in Tasks |-> {}], Replies <- [s \in {"Start", "Stop", "Kill", "Msg"} |-> {<<>>}],
  SettlePerTask <- 16, SettleBase <- 64

kernelVars ==
  <<phase, steps, quitting, registered, issued, edges, pins, running, epoch, vetoed, killed,
    wanted, supported, wantedParents, activeDependents, dirty, toDrive, effects, timers>>
systemVars == <<kernelVars, vars, givenUp, requests>>
-----------------------------------------------------------------------------
(* What a step of the kernel sends to t, by the state it leaves t in. *)
Sent(t) ==
  CASE running[t] # "Starting" /\ running'[t] = "Starting" -> <<Cmd("Start")>>
    [] running'[t] = "Stopping" /\ epoch'[t] # epoch[t] -> <<Cmd(IF t \in killed' THEN "Kill" ELSE "Stop")>>
    [] OTHER -> <<>>

Sends ==
  /\ mailbox' = [t \in Tasks |-> mailbox[t] \o Sent(t)]
  /\ UNCHANGED <<pc, fresh, state, readySent, open, inbox, child, sigchld, reaper, mishap>>

Request == requests < MaxRequests /\ requests' = requests + 1
ClientAsks(t) ==
  /\ Request
  /\ \/ K!Register(t, {}, TRUE)
     \/ K!ClientCommand({t})
  /\ Sends
  /\ UNCHANGED givenUp

(* An active task is sent a last Kill before its mailbox closes. *)
ClientRemoves(t) ==
  /\ Request
  /\ t \in registered
  /\ K!Remove({t}) /\ Remove(t)
  /\ (mailbox'[t] = mailbox[t]) = (running[t] \notin K!Active)
  /\ UNCHANGED givenUp

(* Keys typed into the program. *)
ClientTypes(t) ==
  /\ Request
  /\ K!TaskMsg(t)
  /\ mailbox' = [mailbox EXCEPT ![t] = Append(@, Cmd("Input"))]
  /\ UNCHANGED <<pc, fresh, state, readySent, open, inbox, child, sigchld, reaper, mishap, givenUp>>

(* A report as the kernel takes it: the status of an exit is anything, and *)
(* a program that could not be spawned has failed.                         *)
ReportsOf(m) ==
  CASE m.cmd \in {"Started", "Ready"} -> {m.cmd}
    [] m.cmd = "Stopped" /\ m.exit = None -> {"StoppedErr"}
    [] m.cmd = "Stopped" /\ m.exit # None -> {"StoppedOk", "StoppedErr"}
    [] OTHER -> {}
KernelHears(t) ==
  /\ phase = "recv"
  /\ Deliver(t)
  /\ \/ t \in registered /\ \E r \in ReportsOf(Head(inbox[t])) : K!TaskReport(t, r)
     \/ (t \notin registered \/ Head(inbox[t]).cmd = "Exited") /\ UNCHANGED kernelVars
  /\ UNCHANGED <<givenUp, requests>>

(* A kill that was not answered in time is not waited for any more. *)
TimerRuns ==
  /\ K!Timeout
  /\ Sends
  /\ givenUp' = givenUp \cup {t \in registered : running[t] = "Stopping" /\ running'[t] = "Idle"}
  /\ UNCHANGED requests

KernelWorks == K!Work /\ Sends /\ UNCHANGED <<givenUp, requests>>

(* The loops of the tasks, the reaper, the programs. *)
TaskRuns(t) ==
  /\ \/ TaskStep(t) \/ Output(t) \/ Accepted(t)
  /\ IF ForkFails(t) THEN Request ELSE UNCHANGED requests
  /\ UNCHANGED <<kernelVars, givenUp>>
OthersRun ==
  /\ Reaper \/ \E i \in Instances : Program(i)
  /\ UNCHANGED <<kernelVars, givenUp, requests>>

SystemInit == K!Init /\ Init /\ givenUp = {} /\ requests = 0
SystemNext ==
  \/ \E t \in Tasks : \/ ClientAsks(t) \/ ClientRemoves(t) \/ ClientTypes(t)
                      \/ KernelHears(t) \/ TaskRuns(t)
  \/ TimerRuns \/ KernelWorks \/ OthersRun
SystemSpec == SystemInit /\ [][SystemNext]_systemVars
-----------------------------------------------------------------------------
(* Properties *)

Sending(t, c) == \E k \in DOMAIN mailbox[t] : mailbox[t][k].cmd = c
Said(t, c) == \E k \in DOMAIN inbox[t] : inbox[t][k].cmd = c
Coming(t) == Sending(t, "Start") \/ pc[t] \in {"forked", "listening"}

(* The kernel and the task agree, up to what is under way between them: a  *)
(* task that is starting is about to be started or has said how that went, *)
(* one that runs has a process, and one the kernel holds down has none and *)
(* none coming.  Only a stop that was given up may leave them apart, and   *)
(* even then the kernel never waits for a start nobody will answer.        *)
AgreesWithProcess ==
  \A t \in registered :
    /\ running[t] = "Starting" =>
         Coming(t) \/ Said(t, "Started") \/ Said(t, "Stopped") \/ (t \in givenUp /\ process[t] # None)
    /\ running[t] \in {"Running", "Ready"} => process[t] # None \/ Said(t, "Stopped")
    /\ running[t] \notin K!Active /\ t \notin givenUp =>
         process[t] = None /\ ~Coming(t) /\ ~Said(t, "Started")

(* "the reconciler restarts the task if it is still wanted (a Start during *)
(* the grace must not be lost)" (kernel.rs:893): no Start reaches a task   *)
(* that ignores it.                                                        *)
StartNotLost ==
  \A t \in Tasks :
    pc[t] = "select" /\ mailbox[t] # <<>> /\ Head(mailbox[t]).cmd = "Start" => process[t] = None
=============================================================================
