----------------------------- MODULE MCProcess ------------------------------
(***************************************************************************)
(* A task, two instances and a child of a hook, in one of three parts:     *)
(*   calm     what module ProcessTask says with the values of the          *)
(*            configuration;                                               *)
(*   mishap   one pid is given again and again, so exits reach the wrong   *)
(*            instance, and spawns fail after the child exists;            *)
(*   system   the task under the kernel (module ProcessSystem).            *)
(***************************************************************************)
EXTENDS MCProcessTask, ProcessSystem

CONSTANT Parts   \* those that are checked

VARIABLE part

kernelPart == <<kernelVars, givenUp, requests>>

(* In the system tasks are stopped by signals. *)
Calm == INSTANCE ProcessTask WITH StopKeys <- Tasks
Mishap == INSTANCE ProcessTask WITH
  Reuse <- TRUE, LateFailure <- TRUE, ReadyLog <- {}, KillGroup <- {}

AService == prog :> "Service"
Reported == prog :> "Reported"
OnFailure == prog :> "OnFailure"

(* Descendants and other children are left to the other parts, and the last *)
(* request is a command to the kernel.                                      *)
Alone ==
  /\ UNCHANGED kin /\ leader'[3] = "unborn"
  /\ requests' # requests /\ requests' = MaxRequests => UNCHANGED pc /\ (UNCHANGED mailbox \/ open' # open)

(* No signal is sent to a group here, so its descendants are as good.      *)
Together == \A i \in Instances : kin'[i] # "stray"
OnePid == Cardinality({pid'[i] : i \in Instances} \ {None}) <= 1

ProcessInit ==
  /\ part \in Parts
  /\ CASE part = "calm" -> Calm!Init
       [] part = "mishap" -> Mishap!Init
       [] part = "system" -> SystemInit
  /\ part # "system" =>
       /\ phase = 0 /\ steps = 0 /\ quitting = 0 /\ registered = {} /\ issued = 0 /\ edges = 0
       /\ pins = 0 /\ running = 0 /\ epoch = 0 /\ vetoed = 0 /\ killed = 0 /\ wanted = 0
       /\ supported = 0 /\ wantedParents = 0 /\ activeDependents = 0 /\ dirty = 0
       /\ toDrive = 0 /\ effects = 0 /\ timers = 0 /\ givenUp = 0 /\ requests = 0
ProcessNext ==
  /\ UNCHANGED part
  /\ \/ part = "calm" /\ Calm!Next /\ UNCHANGED kernelPart
     \/ part = "mishap" /\ Mishap!Next /\ Together /\ OnePid /\ UNCHANGED kernelPart
     \/ part = "system" /\ SystemNext /\ Alone
ProcessSpec == ProcessInit /\ [][ProcessNext]_<<part, vars, kernelPart>>

(* Epochs count only as those of timers. *)
InEpoch(tm) == tm.task \in registered /\ epoch[tm.task] = tm.epoch
ProcessView ==
  <<part, vars,
    IF part # "system" THEN 0
    ELSE <<phase, steps, quitting, registered, issued, pins, running, vetoed, killed, wanted,
           supported, wantedParents, activeDependents, dirty, toDrive, effects, givenUp, requests,
           Cardinality({tm \in timers : InEpoch(tm)}), \E tm \in timers : ~InEpoch(tm)>>>>
=============================================================================
