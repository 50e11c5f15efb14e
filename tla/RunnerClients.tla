--------------------------- MODULE RunnerClients ---------------------------
(* The programs that start, find and stop the runner of one directory         *)
(* (src/src/runner/socket.rs, spawn.rs, kill.rs, src/src/dekit/main.rs), on    *)
(* top of the files of RunnerLock.  A runner takes the two locks, sweeps what  *)
(* its predecessor left, writes itself into `.lock`, publishes its record, and *)
(* in the end removes its files one by one; it may fail, hang, be told to quit *)
(* or killed at any of these steps.  Abstracted from RunnerLock: a file is     *)
(* opened and locked in one step, so that a lock lost to a new file shows as   *)
(* one not yet won, and a cleanup is one step; so is the look of a client that *)
(* connects, while that of `dekit runner stop` is two.                         *)
(* A process is an instance of a pid; the pid of a process that has gone is    *)
(* given out again.                                                           *)
EXTENDS Integers, Sequences, FiniteSets

CONSTANTS
  Processes,      \* instances of processes
  Pids,
  Starters,       \* clients that start a runner if there is none
  Finders,        \* clients that need one
  MaxPasses,      \* over the session of a killed runner: 8 in the code
  NoProcess

Stopper == "stopper"    \* the client of `dekit runner stop`
Connectors == Starters \cup Finders

ASSUME ClientsAssumption == NoProcess \notin Processes /\ Stopper \notin Connectors

VARIABLES
  process,   \* instance -> its pid, what it is and the session it is in
  lock,      \* the runner that has the lock on the `.lock` that is there
  named,     \* the runner that is written in it
  record,    \* the runner whose record is there
  failed,    \* there is a file with the error of a runner
  client,    \* client -> where it is and what it knows
  hit        \* instances that were sent a SIGKILL and are not dead yet
files == <<lock, named, record, failed>>
clientVars == <<process, files, client, hit>>

\* A runner from its start to its end: until it has both locks, with its
\* predecessor's files, without them, with its record published, when it
\* serves no more, without its record, without `.live`, without `.lock`.
Holders == {"won", "starting", "serving", "ending", "unlisted"}
RunnerKinds == Holders \cup {"spawned", "unlocked", "leaving"}

Running(i) == process[i].is \notin {"unborn", "gone"}
InUse == {process[i].pid : i \in {j \in Processes : Running(j)}}
AtPid(pid) == {i \in Processes : Running(i) /\ process[i].pid = pid}
NotBorn == [is |-> "unborn", pid |-> 0, session |-> NoProcess]

\* What the files say: a record, and a `.live` that is locked.
LiveHeld == \E i \in Processes : process[i].is \in Holders
StateFrom(seen, alive) ==
  IF seen # NoProcess THEN IF alive THEN "ready" ELSE "stale"
  ELSE IF alive THEN "starting" ELSE IF failed THEN "failed" ELSE "absent"
RunnerState == StateFrom(record, LiveHeld)
\* Only without a runner; `.lock` goes with the rest.  A runner that came since
\* the look keeps its files, as does `.live` locked by another client for a moment.
CleanUp ==
  \/ UNCHANGED files
  \/ ~LiveHeld /\ lock' = NoProcess /\ named' = NoProcess /\ record' = NoProcess /\ failed' = FALSE

-----------------------------------------------------------------------------
(* Processes.                                                                *)

\* A process comes, with a pid that no other has.
Born(i, pid, is, session) ==
  /\ process[i] = NotBorn /\ pid \in Pids \ InUse
  /\ process' = [process EXCEPT ![i] = [is |-> is, pid |-> pid, session |-> session]]
\* A runner leads a session of its own.
SpawnedRunner(i, pid) == Born(i, pid, "spawned", i)
Advances(i, from, to) ==
  /\ process[i].is = from /\ process' = [process EXCEPT ![i].is = to]
  /\ UNCHANGED <<client, hit>>

\* `.lock` is tried, `.live` waited for.
WinsLock(i) ==
  /\ Advances(i, "spawned", "spawned") /\ lock = NoProcess /\ lock' = i
  /\ UNCHANGED <<named, record, failed>>
WinsLive(i) ==
  /\ Advances(i, "spawned", "won") /\ lock = i /\ ~LiveHeld /\ UNCHANGED files
Sweeps(i) ==
  /\ Advances(i, "won", "starting") /\ record' = NoProcess /\ failed' = FALSE
  /\ UNCHANGED <<lock, named>>
\* The file is emptied, then written, if both succeed.
WritesOwner(i) ==
  /\ Advances(i, "starting", "starting") /\ named # i /\ named' \in {NoProcess, i}
  /\ UNCHANGED <<lock, record, failed>>
Publishes(i) ==
  /\ Advances(i, "starting", "serving") /\ record' = i /\ UNCHANGED <<lock, named, failed>>
\* It ends with an error or without.
StopsServing(i) ==
  /\ Advances(i, "starting", "ending") \/ Advances(i, "serving", "ending")
  /\ failed' \in {failed, TRUE} /\ UNCHANGED <<lock, named, record>>
RemovesRecord(i) ==
  /\ Advances(i, "ending", "unlisted") /\ record' = NoProcess /\ UNCHANGED <<lock, named, failed>>
RemovesLive(i) ==
  /\ Advances(i, "unlisted", "unlocked") /\ UNCHANGED files
\* By its path: it may be another runner's by then.
RemovesLock(i) ==
  /\ Advances(i, "unlocked", "leaving") /\ lock' = NoProcess /\ named' = NoProcess
  /\ UNCHANGED <<record, failed>>
RunnerSteps(i) ==
  \/ WinsLock(i) \/ WinsLive(i) \/ Sweeps(i) \/ WritesOwner(i) \/ Publishes(i)
  \/ StopsServing(i) \/ RemovesRecord(i) \/ RemovesLive(i) \/ RemovesLock(i)

\* A runner, or a task of it, starts a process in its session.
Forks(i, j, pid) ==
  /\ process[i].is \in {"starting", "serving", "ending", "task"} /\ i \notin hit
  /\ Born(j, pid, "task", process[i].session)
  /\ UNCHANGED <<files, client, hit>>
StrangerComes(i, pid) ==
  /\ Born(i, pid, "stranger", NoProcess)
  /\ UNCHANGED <<files, client, hit>>
\* A process ends as it likes, crashes, or dies of a SIGKILL some time after
\* it; the files stay, a lock on one does not.
Dies(i) ==
  /\ Running(i) /\ process' = [process EXCEPT ![i].is = "gone"]
  /\ lock' = (IF lock = i THEN NoProcess ELSE lock) /\ hit' = hit \ {i}
  /\ UNCHANGED <<named, record, failed, client>>

-----------------------------------------------------------------------------
(* A client that connects: it looks, starts a runner at most once, and gives  *)
(* up in the end.                                                             *)

IsAt(c, pc) == client[c].pc = pc
Become(c, pc) == client' = [client EXCEPT ![c].pc = pc]

\* A dead runner's record may be there with a lock that is held: nobody
\* answers then.
Connects(c) ==
  /\ IsAt(c, "look") /\ RunnerState = "ready" /\ process[record].is \in {"serving", "ending"}
  /\ Become(c, "connected")
  /\ UNCHANGED <<process, files, hit>>
\* It cleans up and looks again before it starts one.
WantsToStart(c) ==
  /\ IsAt(c, "look") /\ c \in Starters /\ ~client[c].spawned
  /\ RunnerState \in {"absent", "stale", "failed"}
  /\ CleanUp /\ Become(c, "again") /\ UNCHANGED <<process, hit>>
Again(c) ==
  /\ IsAt(c, "again")
  /\ Become(c, IF RunnerState \in {"ready", "starting"} THEN "look" ELSE "spawn")
  /\ UNCHANGED <<process, files, hit>>
Spawns(c, i, pid) ==
  /\ IsAt(c, "spawn") /\ SpawnedRunner(i, pid)
  /\ client' = [client EXCEPT ![c].pc = "look", ![c].spawned = TRUE] /\ UNCHANGED <<files, hit>>
\* The runner failed, died, or there is none and none is to be started.
Refused(c) ==
  /\ IsAt(c, "look") /\ (c \in Finders \/ client[c].spawned)
  /\ \/ RunnerState = "failed" /\ UNCHANGED files
     \/ RunnerState = "absent" /\ c \in Finders /\ UNCHANGED files
     \/ RunnerState = "stale" /\ IF c \in Finders THEN UNCHANGED files ELSE CleanUp
  /\ Become(c, "refused") /\ UNCHANGED <<process, hit>>
GivesUp(c) ==
  /\ IsAt(c, "look")
  /\ RunnerState \in {"ready", "starting"} \/ (RunnerState = "absent" /\ client[c].spawned)
  /\ Become(c, "refused")
  /\ UNCHANGED <<process, files, hit>>

-----------------------------------------------------------------------------
(* `dekit runner stop`.  Its clock has three parts: up to 21 seconds, up to    *)
(* 26, and beyond.                                                            *)

Stop == client[Stopper]
StopBecomes(new) == client' = [client EXCEPT ![Stopper] = new]
Ticks == /\ IsAt(Stopper, "loop") /\ Stop.clock < 2
         /\ StopBecomes([Stop EXCEPT !.clock = @ + 1])
         /\ UNCHANGED <<process, files, hit>>

\* Another client that looks or cleans up has `.live` locked for a moment, and
\* so it may seem held when it is not.
Seemings == {LiveHeld, TRUE}
NoRunner == {"absent", "stale", "failed"}

\* (History: `held`, the runner that serves now, if one does.)
ServesNow(i) ==
  IF i = NoProcess THEN \A j \in Processes : process[j].is # "serving" ELSE process[i].is = "serving"
StopLooksFirst ==
  /\ IsAt(Stopper, "look")
  /\ \E alive \in Seemings :
       LET state == StateFrom(record, alive)
       IN  IF state \in NoRunner
           THEN Become(Stopper, "refused") /\ IF state = "absent" THEN UNCHANGED files ELSE CleanUp
           ELSE /\ \E i \in Processes \cup {NoProcess} :
                     ServesNow(i) /\ StopBecomes([Stop EXCEPT !.pc = "loop", !.held = i])
                /\ UNCHANGED files
  /\ UNCHANGED <<process, hit>>

\* The loop: the record is read, then `.live` is tried.
ReadsRecord ==
  /\ IsAt(Stopper, "loop") /\ StopBecomes([Stop EXCEPT !.pc = "try", !.seen = record])
  /\ UNCHANGED <<process, files, hit>>
Tells(state) == IsAt(Stopper, "try") /\ \E alive \in Seemings : StateFrom(Stop.seen, alive) = state

\* The record that is there is not the one of the first that was ready.
\* Mutant: also when none was ready before.
Mutant_NotTheTarget == Stop.seen # Stop.target
AnotherRunner == Stop.target \notin {NoProcess, Stop.seen}
\* There is no runner any more, or another one.
StopDone ==
  /\ \E state \in NoRunner \cup {"ready"} :
       /\ Tells(state) /\ (state = "ready" => AnotherRunner)
       /\ IF state \in {"stale", "failed"} THEN CleanUp ELSE UNCHANGED files
  /\ Become(Stopper, "stopped") /\ UNCHANGED <<process, hit>>

StillThere == Tells("starting") \/ (Tells("ready") /\ ~AnotherRunner)
\* The first that is ready is the target; whoever serves then is told to quit.
TargetNow == IF Stop.target = NoProcess THEN Stop.seen ELSE Stop.target
KillIsDue == Stop.clock >= 1 /\ Stop.owner = NoProcess
StopWaits ==
  /\ StillThere /\ ~KillIsDue /\ Stop.clock < 2
  /\ StopBecomes([Stop EXCEPT !.pc = "loop", !.target = TargetNow, !.seen = NoProcess])
  /\ UNCHANGED <<process, files, hit>>
\* It takes too long: the owner that the record or the lock names is killed.
OwnerNow == IF Stop.seen # NoProcess THEN Stop.seen ELSE named
StopKills ==
  /\ StillThere /\ KillIsDue
  /\ IF OwnerNow = NoProcess THEN Become(Stopper, "refused")
     ELSE StopBecomes([Stop EXCEPT !.pc = "open", !.target = TargetNow, !.owner = OwnerNow, !.seen = NoProcess])
  /\ UNCHANGED <<process, files, hit>>
StopGivesUp ==
  /\ StillThere /\ ~KillIsDue /\ Stop.clock = 2
  /\ Become(Stopper, "refused")
  /\ UNCHANGED <<process, files, hit>>
\* The kill is over; so is all when its time is.
Resumes ==
  \E pc \in {"loop", "refused"} :
    /\ pc = "loop" => Stop.clock < 2
    /\ StopBecomes([Stop EXCEPT !.pc = pc, !.fd = NoProcess, !.passes = 0, !.new = FALSE, !.signaled = {}])

\* kill_verified: a descriptor of whatever has the pid; is it the owner, by its
\* start time; the signal goes to the descriptor.
Owner == Stop.owner
Opens ==
  LET there == AtPid(process[Owner].pid)
  IN  /\ IsAt(Stopper, "open")
      /\ IF there = {} THEN Resumes
         ELSE StopBecomes([Stop EXCEPT !.pc = "verify", !.fd = CHOOSE i \in there : TRUE])
      /\ UNCHANGED <<process, files, hit>>
\* Mutant: what the record says is believed.
Mutant_Believed == TRUE
Verified == AtPid(process[Owner].pid) = {Owner}
Verifies ==
  /\ IsAt(Stopper, "verify")
  /\ IF Verified THEN Become(Stopper, "signal") ELSE Resumes
  /\ UNCHANGED <<process, files, hit>>
Signals ==
  /\ IsAt(Stopper, "signal")
  /\ hit' = IF Running(Stop.fd) THEN hit \cup {Stop.fd} ELSE hit
  /\ StopBecomes([Stop EXCEPT !.pc = "list"])
  /\ UNCHANGED <<process, files>>

\* kill_session: a pass lists the pids, looks at each, and then sends a signal
\* to those in the session that had none; it is over when that is nobody.
Lists ==
  /\ IsAt(Stopper, "list")
  /\ StopBecomes([Stop EXCEPT !.pc = "see", !.listed = InUse, !.members = {}])
  /\ UNCHANGED <<process, files, hit>>
Member(pid) == \E i \in AtPid(pid) : process[i].session = Owner
Sees(pid) ==
  /\ IsAt(Stopper, "see") /\ pid \in Stop.listed
  /\ StopBecomes([Stop EXCEPT !.listed = @ \ {pid},
                    !.members = IF Member(pid) /\ pid \notin Stop.signaled THEN @ \cup {pid} ELSE @])
  /\ UNCHANGED <<process, files, hit>>
Reaps(pid) ==
  /\ IsAt(Stopper, "see") /\ Stop.listed = {} /\ pid \in Stop.members
  /\ StopBecomes([Stop EXCEPT !.members = @ \ {pid}, !.signaled = @ \cup {pid}, !.new = TRUE])
  /\ hit' = hit \cup AtPid(pid)
  /\ UNCHANGED <<process, files>>
PassEnds ==
  /\ IsAt(Stopper, "see") /\ Stop.listed = {} /\ Stop.members = {}
  /\ IF ~Stop.new \/ Stop.passes + 1 = MaxPasses THEN Resumes
     ELSE StopBecomes([Stop EXCEPT !.pc = "list", !.passes = @ + 1, !.new = FALSE])
  /\ UNCHANGED <<process, files, hit>>

-----------------------------------------------------------------------------
ClientsInit ==
  /\ process = [i \in Processes |-> NotBorn]
  /\ lock = NoProcess /\ named = NoProcess /\ record = NoProcess /\ failed = FALSE
  /\ client = [c \in Connectors \cup {Stopper} |->
       IF c = Stopper
       THEN [pc |-> "look", clock |-> 0, held |-> NoProcess, seen |-> NoProcess, target |-> NoProcess,
             owner |-> NoProcess, fd |-> NoProcess, passes |-> 0, new |-> FALSE,
             listed |-> {}, members |-> {}, signaled |-> {}]
       ELSE [pc |-> "look", spawned |-> FALSE]]
  /\ hit = {}

ClientsNext ==
  \/ \E i \in Processes : RunnerSteps(i) \/ Dies(i)
  \/ \E pid \in Pids : Sees(pid) \/ Reaps(pid)
  \/ \E i, j \in Processes, pid \in Pids : Forks(i, j, pid)
  \/ \E i \in Processes, pid \in Pids : StrangerComes(i, pid)
  \/ \E c \in Connectors :
       \/ Connects(c) \/ WantsToStart(c) \/ Again(c) \/ Refused(c) \/ GivesUp(c)
       \/ \E i \in Processes, pid \in Pids : Spawns(c, i, pid)
  \/ Ticks \/ StopLooksFirst \/ ReadsRecord \/ StopDone \/ StopWaits \/ StopKills \/ StopGivesUp
  \/ Opens \/ Verifies \/ Signals \/ Lists \/ PassEnds

ClientsSpec == ClientsInit /\ [][ClientsNext]_clientVars

-----------------------------------------------------------------------------
(* Properties.                                                               *)

\* The descriptor that a SIGKILL goes to is that of the runner the record or
\* the lock named, also when that one has gone and its pid is another's.
KillsTheRecorded ==
  IsAt(Stopper, "signal") => Stop.fd = Owner /\ process[Owner].is \in RunnerKinds \cup {"gone"}

\* When `dekit runner stop` says that the runner stopped, neither the runner
\* that served when it was called nor the one it took for its target serves
\* any more, whoever starts, sweeps, ends or cleans up between its looks
\* (main.rs:149).  Not that their locks are free: a runner removes its files
\* before it ends.
StopMeansOver ==
  IsAt(Stopper, "stopped") =>
    \A i \in {Stop.held, Stop.target} \ {NoProcess} : process[i].is # "serving"
=============================================================================
