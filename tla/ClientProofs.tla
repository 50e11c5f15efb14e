---------------------------- MODULE ClientProofs -----------------------------
(* For any number of processes, pids and clients: `dekit runner stop` sends   *)
(* its SIGKILL to the runner that the record or the lock named and to nothing *)
(* that has its pid since, and when it says "stopped" neither the runner that *)
(* served when it was called nor its target serves any more.                  *)
(* For any number of frames, outputs and events: every request of a           *)
(* connection is answered once and in order around the session it becomes; a  *)
(* session until the exit does not miss the exit; and however a session ends,  *)
(* the screen of the task gives up the size it had for it.                    *)
EXTENDS RunnerClients, Session, SequenceTheorems, FiniteSetTheorems, TLAPS
Lives == {"unborn", "task", "stranger", "gone"} \cup RunnerKinds
Maybe == Processes \cup {NoProcess}
StopSteps == {"look", "refused", "loop", "try", "stopped", "open", "verify", "signal", "list", "see"}

\* Processes that run have pids of their own, and one at most has `.live`.
World ==
  /\ process \in [Processes -> [is : Lives, pid : Pids \cup {0}, session : Maybe]]
  /\ \A i, j \in Processes : Running(i) /\ Running(j) /\ process[i].pid = process[j].pid => i = j
  /\ \A i, j \in Processes : process[i].is \in Holders /\ process[j].is \in Holders => i = j

\* What runs as a runner stays one until it is gone; once its record was
\* published, it serves until it does so no more.
WasRunner(i) == i \in Processes /\ process[i].is \in RunnerKinds \cup {"gone"}
Listed == {"serving", "ending", "gone"}
Published == Listed \cup {"unlisted", "unlocked", "leaving"}
WasPublished(i) == i \in Processes /\ process[i].is \in Published

\* The record of a runner that serves is there, whoever ends, starts or cleans
\* up; a record that is there was published, and a name in `.lock` written.
Files ==
  /\ \A i \in Processes : process[i].is = "serving" => record = i
  /\ record # NoProcess => record \in Processes /\ process[record].is \in Listed
  /\ named # NoProcess => WasRunner(named)

StopRecords ==
  [pc : StopSteps, clock : Int, held : Maybe, seen : Maybe, target : Maybe, owner : Maybe, fd : Maybe,
   passes : Int, new : BOOLEAN, listed : SUBSET (Pids \cup {0}), members : SUBSET (Pids \cup {0}),
   signaled : SUBSET (Pids \cup {0})]
StopTypes ==
  /\ DOMAIN client = Connectors \cup {Stopper} /\ client = [c \in DOMAIN client |-> client[c]]
  /\ Stop \in StopRecords

\* What the stop knows of was published.  As long as the runner it found
\* serves, that one is its target, and the record it has read is that one's.
Memory ==
  /\ \A i \in {Stop.held, Stop.seen, Stop.target} : i # NoProcess => WasPublished(i)
  /\ Stop.owner # NoProcess => WasRunner(Stop.owner)
  /\ Stop.pc = "look" => Stop.target = NoProcess
  /\ Stop.held # NoProcess /\ Stop.target # NoProcess /\ process[Stop.held].is = "serving"
       => Stop.target = Stop.held
  /\ Stop.pc = "try" => \A i \in {Stop.held, Stop.target} :
       i # NoProcess /\ process[i].is = "serving" => Stop.seen = i
  /\ Stop.pc = "stopped" => \A i \in {Stop.held, Stop.target} :
       i # NoProcess => process[i].is # "serving"
\* A descriptor that was opened of another process than the owner was opened
\* after the owner's end.
Descriptor ==
  /\ Stop.pc \in {"open", "verify", "signal"} => Stop.owner # NoProcess
  /\ Stop.pc = "verify" => Stop.fd = Stop.owner \/ process[Stop.owner].is = "gone"
  /\ Stop.pc = "signal" => Stop.fd = Stop.owner
StopInv == World /\ Files /\ StopTypes /\ Memory /\ Descriptor

LEMMA InitStop == ClientsInit => StopInv
<1> SUFFICES ASSUME ClientsInit PROVE StopInv
  OBVIOUS
<1>1. World /\ Files
  BY DEF ClientsInit, World, Files, NotBorn, Lives, Maybe, Running, Holders
<1>2. /\ Stop = [pc |-> "look", clock |-> 0, held |-> NoProcess, seen |-> NoProcess, target |-> NoProcess,
                 owner |-> NoProcess, fd |-> NoProcess, passes |-> 0, new |-> FALSE,
                 listed |-> {}, members |-> {}, signaled |-> {}]
      /\ DOMAIN client = Connectors \cup {Stopper} /\ client = [c \in DOMAIN client |-> client[c]]
  BY DEF ClientsInit, Stop
<1>3. StopTypes
  BY <1>2 DEF StopTypes, StopRecords, StopSteps, Maybe
<1> QED  BY <1>1, <1>2, <1>3 DEF StopInv, Memory, Descriptor

-----------------------------------------------------------------------------
(* Processes.  They only get older.                                          *)
Older ==
  \A i \in Processes :
    /\ process[i].is = "gone" => process'[i].is = "gone"
    /\ process[i].is \in RunnerKinds \cup {"gone"} => process'[i].is \in RunnerKinds \cup {"gone"}
    /\ process[i].is \in Published =>
         process'[i].is \in Published /\ (process'[i].is = "serving" => process[i].is = "serving")

LEMMA StopUnmoved ==
  ASSUME StopInv, World', Files', Older, Stop' = Stop,
         DOMAIN client' = DOMAIN client, client' = [c \in DOMAIN client' |-> client'[c]]
  PROVE  StopInv'
<1>1. StopTypes'
  BY DEF StopInv, StopTypes
<1>2. Memory'
  <2>1. \A i : WasRunner(i) => WasRunner(i)'
    BY DEF WasRunner, Older
  <2>2. \A i : WasPublished(i) => WasPublished(i)' /\ (process'[i].is = "serving" => process[i].is = "serving")
    BY DEF WasPublished, Older
  <2> QED  BY <2>1, <2>2 DEF StopInv, Memory
<1>3. Descriptor'
  BY DEF StopInv, Descriptor, Memory, WasRunner, Older
<1> QED  BY <1>1, <1>2, <1>3 DEF StopInv

LEMMA Births ==
  ASSUME World, Files, NEW i \in Processes, NEW pid \in Pids, NEW is \in {"spawned", "task", "stranger"},
         NEW session \in Maybe, Born(i, pid, is, session), UNCHANGED files
  PROVE  World' /\ Files' /\ Older
<1>1. process' = [process EXCEPT ![i] = [is |-> is, pid |-> pid, session |-> session]]
      /\ process[i] = NotBorn /\ pid \notin InUse
  BY DEF Born
<1>2. process'[i] = [is |-> is, pid |-> pid, session |-> session] /\ process[i].is = "unborn"
      /\ \A j \in Processes : j # i => process'[j] = process[j]
  BY <1>1 DEF World, NotBorn
<1>3. \A j \in Processes : Running(j) => process[j].pid # pid
  BY <1>1 DEF InUse
<1>4. process' \in [Processes -> [is : Lives, pid : Pids \cup {0}, session : Maybe]]
  BY <1>1 DEF World, Lives, RunnerKinds
<1>5. \A j, k \in Processes :
        Running(j)' /\ Running(k)' /\ process'[j].pid = process'[k].pid => j = k
  BY <1>2, <1>3 DEF World, Running
<1>6. World'
  BY <1>2, <1>4, <1>5 DEF World, Holders
<1>7. Files' /\ Older
  BY <1>2 DEF Files, files, Older, WasRunner, Listed, Published, RunnerKinds, Holders
<1> QED  BY <1>6, <1>7

\* One process goes on.
LEMMA GoesOn ==
  ASSUME World, NEW i \in Processes, Running(i), NEW to \in RunnerKinds \cup {"gone"},
         process' = [process EXCEPT ![i].is = to],
         to \in Holders => process[i].is \in Holders \/ ~LiveHeld
  PROVE  /\ World' /\ process'[i].is = to
         /\ \A j \in Processes : j # i => process'[j] = process[j]
<1>1. /\ process' \in [Processes -> [is : Lives, pid : Pids \cup {0}, session : Maybe]]
      /\ process'[i].is = to /\ process'[i].pid = process[i].pid
      /\ \A j \in Processes : j # i => process'[j] = process[j]
  BY DEF World, Lives
<1>2. \A j, k \in Processes :
        Running(j)' /\ Running(k)' /\ process'[j].pid = process'[k].pid => j = k
  <2>1. \A j \in Processes : Running(j)' => Running(j) /\ process'[j].pid = process[j].pid
    BY <1>1 DEF Running
  <2> QED  BY <2>1 DEF World
<1>3. \A j, k \in Processes : process'[j].is \in Holders /\ process'[k].is \in Holders => j = k
  BY <1>1 DEF World, LiveHeld
<1> QED  BY <1>1, <1>2, <1>3 DEF World

LEMMA RunnerStep ==
  ASSUME World, Files, NEW i \in Processes, RunnerSteps(i)
  PROVE  World' /\ Files' /\ Older
<1> USE DEF Advances, Running, Holders, RunnerKinds, Listed, Published
<1>1. CASE WinsLock(i)
  <2>1. process' = process /\ UNCHANGED <<named, record>>
    BY <1>1 DEF WinsLock, World
  <2> QED  BY <2>1 DEF World, Files, WasRunner, Older
<1>2. CASE WinsLive(i)
  <2>1. World' /\ process'[i].is = "won" /\ \A j \in Processes : j # i => process'[j] = process[j]
    BY <1>2, GoesOn DEF WinsLive
  <2> QED  BY <1>2, <2>1 DEF WinsLive, Files, files, WasRunner, Older
<1>3. CASE Sweeps(i)
  <2>1. World' /\ process'[i].is = "starting" /\ \A j \in Processes : j # i => process'[j] = process[j]
    BY <1>3, GoesOn DEF Sweeps
  <2> QED  BY <1>3, <2>1 DEF Sweeps, World, Files, WasRunner, Older
<1>4. CASE WritesOwner(i)
  <2>1. process' = process /\ record' = record /\ named' \in {NoProcess, i} /\ process[i].is = "starting"
    BY <1>4 DEF WritesOwner, World
  <2> QED  BY <2>1 DEF World, Files, WasRunner, Older
<1>5. CASE Publishes(i)
  <2>1. World' /\ process'[i].is = "serving" /\ \A j \in Processes : j # i => process'[j] = process[j]
    BY <1>5, GoesOn DEF Publishes
  <2> QED  BY <1>5, <2>1 DEF Publishes, World, Files, WasRunner, Older
<1>6. CASE StopsServing(i)
  <2>1. World' /\ process'[i].is = "ending" /\ \A j \in Processes : j # i => process'[j] = process[j]
    BY <1>6, GoesOn DEF StopsServing
  <2> QED  BY <1>6, <2>1 DEF StopsServing, Files, WasRunner, Older
<1>7. CASE RemovesRecord(i)
  <2>1. World' /\ process'[i].is = "unlisted" /\ \A j \in Processes : j # i => process'[j] = process[j]
    BY <1>7, GoesOn DEF RemovesRecord
  <2> QED  BY <1>7, <2>1 DEF RemovesRecord, World, Files, WasRunner, Older
<1>8. CASE RemovesLive(i)
  <2>1. World' /\ process'[i].is = "unlocked" /\ \A j \in Processes : j # i => process'[j] = process[j]
    BY <1>8, GoesOn DEF RemovesLive
  <2> QED  BY <1>8, <2>1 DEF RemovesLive, Files, files, WasRunner, Older
<1>9. CASE RemovesLock(i)
  <2>1. World' /\ process'[i].is = "leaving" /\ \A j \in Processes : j # i => process'[j] = process[j]
    BY <1>9, GoesOn DEF RemovesLock
  <2> QED  BY <1>9, <2>1 DEF RemovesLock, Files, WasRunner, Older
<1> QED  BY <1>1, <1>2, <1>3, <1>4, <1>5, <1>6, <1>7, <1>8, <1>9 DEF RunnerSteps

LEMMA Deaths ==
  ASSUME World, Files, NEW i \in Processes, Dies(i)
  PROVE  World' /\ Files' /\ Older
<1>1. Running(i) /\ process' = [process EXCEPT ![i].is = "gone"] /\ UNCHANGED <<named, record>>
  BY DEF Dies
<1>2. World' /\ process'[i].is = "gone" /\ \A j \in Processes : j # i => process'[j] = process[j]
  BY <1>1, GoesOn DEF Holders
<1> QED  BY <1>1, <1>2 DEF Files, WasRunner, Listed, Published, Older

\* A cleanup changes nothing of a runner's.
LEMMA CleanedUp ==
  ASSUME World, Files, process' = process, CleanUp
  PROVE  World' /\ Files' /\ Older
<1>1. World' /\ Older
  BY DEF World, Running, Older
<1>2. Files'
  BY DEF Files, CleanUp, files, WasRunner, LiveHeld, Holders
<1> QED  BY <1>1, <1>2
LEMMA Untouched ==
  ASSUME World, Files, UNCHANGED <<process, files>>
  PROVE  World' /\ Files' /\ Older
  BY DEF World, Running, Files, files, WasRunner, Older

LEMMA ProcessesStep ==
  ASSUME StopInv,
         \/ \E i \in Processes : RunnerSteps(i) \/ Dies(i)
         \/ \E i, j \in Processes, pid \in Pids : Forks(i, j, pid)
         \/ \E i \in Processes, pid \in Pids : StrangerComes(i, pid)
  PROVE  StopInv'
<1>1. client' = client
  BY DEF RunnerSteps, WinsLock, WinsLive, Sweeps, WritesOwner, Publishes, StopsServing, RemovesRecord,
         RemovesLive, RemovesLock, Advances, Dies, Forks, StrangerComes
<1>2. World' /\ Files' /\ Older
  <2>1. ASSUME NEW i \in Processes, RunnerSteps(i) \/ Dies(i) PROVE World' /\ Files' /\ Older
    BY <2>1, RunnerStep, Deaths DEF StopInv
  <2>2. ASSUME NEW j \in Processes, NEW pid \in Pids,
               (\E i \in Processes : Forks(i, j, pid)) \/ StrangerComes(j, pid)
        PROVE  World' /\ Files' /\ Older
    <3>1. PICK is \in {"task", "stranger"}, session \in Maybe : Born(j, pid, is, session)
      BY <2>2 DEF Forks, StrangerComes, StopInv, World, Maybe
    <3>2. UNCHANGED files
      BY <2>2 DEF Forks, StrangerComes
    <3> QED  BY <3>1, <3>2, Births DEF StopInv
  <2> QED  BY <2>1, <2>2
<1> QED  BY <1>1, <1>2, StopUnmoved DEF Stop, StopInv, StopTypes

-----------------------------------------------------------------------------
(* Clients that connect.                                                     *)
LEMMA ConnectorsStep ==
  ASSUME StopInv, NEW c \in Connectors,
         \/ Connects(c) \/ WantsToStart(c) \/ Again(c) \/ Refused(c) \/ GivesUp(c)
         \/ \E i \in Processes, pid \in Pids : Spawns(c, i, pid)
  PROVE  StopInv'
<1>1. /\ Stop' = Stop /\ DOMAIN client' = DOMAIN client
      /\ client' = [d \in DOMAIN client' |-> client'[d]]
  BY ClientsAssumption
  DEF Connects, WantsToStart, Again, Refused, GivesUp, Spawns, Become, Stop, StopInv, StopTypes
<1>2. CASE Connects(c) \/ WantsToStart(c) \/ Again(c) \/ Refused(c) \/ GivesUp(c)
  <2>1. process' = process /\ (CleanUp \/ UNCHANGED files)
    BY <1>2 DEF Connects, WantsToStart, Again, Refused, GivesUp
  <2>2. World' /\ Files' /\ Older
    BY <2>1, CleanedUp, Untouched DEF StopInv
  <2> QED  BY <1>1, <2>2, StopUnmoved
<1>3. ASSUME NEW i \in Processes, NEW pid \in Pids, Spawns(c, i, pid) PROVE StopInv'
  <2>1. Born(i, pid, "spawned", i) /\ UNCHANGED files
    BY <1>3 DEF Spawns, SpawnedRunner
  <2>2. World' /\ Files' /\ Older
    BY <2>1, Births DEF StopInv, Maybe
  <2> QED  BY <1>1, <2>2, StopUnmoved
<1> QED  BY <1>2, <1>3

-----------------------------------------------------------------------------
(* `dekit runner stop`.                                                      *)
LEMMA StopMoves ==
  ASSUME StopInv, NEW new \in StopRecords, StopBecomes(new)
  PROVE  Stop' = new /\ StopTypes'
<1>1. /\ Stop' = new /\ DOMAIN client' = DOMAIN client
      /\ client' = [c \in DOMAIN client' |-> client'[c]]
  BY DEF StopBecomes, Stop, StopInv, StopTypes
<1> QED  BY <1>1 DEF StopInv, StopTypes

LEMMA StopBecomesAt ==
  ASSUME StopInv, NEW pc, Become(Stopper, pc)
  PROVE  StopBecomes([Stop EXCEPT !.pc = pc])
  BY DEF StopBecomes, Become, Stop

LEMMA StopSame ==
  ASSUME StopInv, process' = process, CleanUp \/ UNCHANGED files
  PROVE  /\ World' /\ Files' /\ \A i : (WasRunner(i)' <=> WasRunner(i)) /\ (WasPublished(i)' <=> WasPublished(i))
  BY CleanedUp, Untouched DEF StopInv, WasRunner, WasPublished

\* Whatever is there, one process at most has a pid.
LEMMA Alone ==
  ASSUME World, NEW i \in Processes, NEW j \in AtPid(process[i].pid)
  PROVE  /\ Running(i) => j = i
         /\ AtPid(process[i].pid) = {j}
  BY DEF World, AtPid

\* Steps that leave all but the place, the clock and the locals of the kill.
LEMMA StopRefused ==
  ASSUME StopInv, process' = process, CleanUp \/ UNCHANGED files, Become(Stopper, "refused")
  PROVE  StopInv'
<1>1. [Stop EXCEPT !.pc = "refused"] \in StopRecords
  BY DEF StopInv, StopTypes, StopRecords, StopSteps
<1>2. Stop' = [Stop EXCEPT !.pc = "refused"] /\ StopTypes'
  BY <1>1, StopBecomesAt, StopMoves
<1> QED  BY <1>2, StopSame DEF StopInv, StopTypes, StopRecords, Memory, Descriptor

LEMMA StopResumes ==
  ASSUME StopInv, UNCHANGED <<process, files>>, Resumes, Stop.pc \notin {"look", "try", "stopped"}
  PROVE  StopInv'
<1>1. PICK pc \in {"loop", "refused"} :
        StopBecomes([Stop EXCEPT !.pc = pc, !.fd = NoProcess, !.passes = 0, !.new = FALSE, !.signaled = {}])
  BY DEF Resumes
<1>2. [Stop EXCEPT !.pc = pc, !.fd = NoProcess, !.passes = 0, !.new = FALSE, !.signaled = {}] \in StopRecords
  <2>1. \A b \in BOOLEAN, n \in Int, p \in StopSteps, i \in Maybe, S \in SUBSET (Pids \cup {0}) :
          [Stop EXCEPT !.pc = p, !.fd = i, !.passes = n, !.new = b, !.signaled = S] \in StopRecords
    BY DEF StopInv, StopTypes, StopRecords
  <2>2. FALSE \in BOOLEAN /\ 0 \in Int /\ pc \in StopSteps /\ NoProcess \in Maybe /\ {} \in SUBSET (Pids \cup {0})
    BY DEF StopSteps, Maybe
  <2> QED  BY <2>1, <2>2, Zenon
<1>3. /\ Stop' = [Stop EXCEPT !.pc = pc, !.fd = NoProcess, !.passes = 0, !.new = FALSE, !.signaled = {}]
      /\ StopTypes'
  BY <1>1, <1>2, StopMoves
<1> QED  BY <1>3, StopSame DEF StopInv, StopTypes, StopRecords, Memory, Descriptor

\* What is not alive has nobody that serves.
LEMMA NoneServes ==
  ASSUME StopInv, NEW state \in NoRunner, Tells(state)
  PROVE  \A i \in Processes : process[i].is # "serving"
  BY DEF Tells, Seemings, StateFrom, NoRunner, LiveHeld, Holders

LEMMA StopLoops ==
  ASSUME StopInv, Ticks \/ StopLooksFirst \/ ReadsRecord \/ StopDone \/ StopWaits \/ StopKills \/ StopGivesUp
  PROVE  StopInv'
<1> USE DEF StopSteps, IsAt
<1>1. process' = process /\ (CleanUp \/ UNCHANGED files)
  BY DEF Ticks, StopLooksFirst, ReadsRecord, StopDone, StopWaits, StopKills, StopGivesUp
<1>2. /\ World' /\ Files'
      /\ \A i : (WasRunner(i)' <=> WasRunner(i)) /\ (WasPublished(i)' <=> WasPublished(i))
  BY <1>1, StopSame
<1>3. CASE Ticks
  <2>1. [Stop EXCEPT !.clock = @ + 1] \in StopRecords
    BY DEF StopInv, StopTypes, StopRecords
  <2>2. StopBecomes([Stop EXCEPT !.clock = @ + 1])
    BY <1>3 DEF Ticks
  <2>3. Stop' = [Stop EXCEPT !.clock = @ + 1] /\ StopTypes'
    BY <2>1, <2>2, StopMoves
  <2> QED  BY <1>1, <1>2, <2>3 DEF StopInv, StopTypes, StopRecords, Memory, Descriptor
<1>4. CASE StopLooksFirst
  <2>1. CASE Become(Stopper, "refused")
    BY <1>1, <2>1, StopRefused
  <2>2. CASE ~Become(Stopper, "refused")
    <3>1. PICK i \in Processes \cup {NoProcess} :
            ServesNow(i) /\ StopBecomes([Stop EXCEPT !.pc = "loop", !.held = i])
      BY <1>4, <2>2 DEF StopLooksFirst
    <3>2. [Stop EXCEPT !.pc = "loop", !.held = i] \in StopRecords
      BY DEF StopInv, StopTypes, StopRecords, Maybe
    <3>3. Stop' = [Stop EXCEPT !.pc = "loop", !.held = i] /\ StopTypes'
      BY <3>1, <3>2, StopMoves
    <3>4. Stop.pc = "look" /\ (i # NoProcess => WasPublished(i))
      BY <1>4, <3>1 DEF StopLooksFirst, Stop, ServesNow, WasPublished, Published, Listed
    <3> QED  BY <1>1, <1>2, <3>3, <3>4 DEF StopInv, StopTypes, StopRecords, Memory, Descriptor
  <2> QED  BY <2>1, <2>2
<1>5. CASE ReadsRecord
  <2>1. record \in Maybe /\ (record # NoProcess => WasPublished(record))
    BY DEF StopInv, Files, Maybe, WasPublished, Published
  <2>2. [Stop EXCEPT !.pc = "try", !.seen = record] \in StopRecords
    BY <2>1 DEF StopInv, StopTypes, StopRecords
  <2>3. StopBecomes([Stop EXCEPT !.pc = "try", !.seen = record])
    BY <1>5 DEF ReadsRecord
  <2>4. Stop' = [Stop EXCEPT !.pc = "try", !.seen = record] /\ StopTypes'
    BY <2>2, <2>3, StopMoves
  <2>5. Stop'.pc = "try" /\ Stop'.seen = record /\ Stop'.held = Stop.held /\ Stop'.target = Stop.target
        /\ Stop'.owner = Stop.owner
    BY <2>4 DEF StopInv, StopTypes, StopRecords
  <2>6. \A i \in {Stop.held, Stop.target} : i # NoProcess /\ process[i].is = "serving" => record = i
    BY DEF StopInv, Memory, Files, WasPublished
  <2>7. Memory'
    BY <1>1, <1>2, <2>1, <2>5, <2>6 DEF StopInv, Memory
  <2> QED  BY <1>2, <2>4, <2>5, <2>7 DEF StopInv, Descriptor
<1>6. CASE StopDone
  <2>1. PICK state \in NoRunner \cup {"ready"} : Tells(state) /\ (state = "ready" => AnotherRunner)
    BY <1>6 DEF StopDone
  <2>2. Stop.pc = "try"
    BY <2>1 DEF Tells, Stop
  <2>3. [Stop EXCEPT !.pc = "stopped"] \in StopRecords
    BY DEF StopInv, StopTypes, StopRecords
  <2>4. StopBecomes([Stop EXCEPT !.pc = "stopped"])
    BY <1>6, StopBecomesAt DEF StopDone
  <2>5. Stop' = [Stop EXCEPT !.pc = "stopped"] /\ StopTypes'
    BY <2>3, <2>4, StopMoves
  <2>6. \A i \in {Stop.held, Stop.target} : i # NoProcess => process[i].is # "serving"
    <3>1. CASE state \in NoRunner
      BY <2>1, <3>1, NoneServes DEF StopInv, Memory, WasPublished
    <3>2. CASE state = "ready"
      <4>1. Stop.target # NoProcess /\ Stop.target # Stop.seen
        BY <2>1, <3>2 DEF AnotherRunner
      <4> QED  BY <2>2, <4>1 DEF StopInv, Memory
    <3> QED  BY <2>1, <3>1, <3>2
  <2> QED  BY <1>1, <1>2, <2>2, <2>5, <2>6 DEF StopInv, StopTypes, StopRecords, Memory, Descriptor
<1>7. CASE StopWaits
  <2>1. Stop.pc = "try"
    BY <1>7 DEF StopWaits, StillThere, Tells, Stop
  <2>2. TargetNow \in {Stop.target, Stop.seen} /\ TargetNow \in Maybe
    BY DEF TargetNow, StopInv, StopTypes, StopRecords
  <2>3. [Stop EXCEPT !.pc = "loop", !.target = TargetNow, !.seen = NoProcess] \in StopRecords
    BY <2>2 DEF StopInv, StopTypes, StopRecords, Maybe
  <2>4. StopBecomes([Stop EXCEPT !.pc = "loop", !.target = TargetNow, !.seen = NoProcess])
    BY <1>7 DEF StopWaits
  <2>5. Stop' = [Stop EXCEPT !.pc = "loop", !.target = TargetNow, !.seen = NoProcess] /\ StopTypes'
    BY <2>3, <2>4, StopMoves
  <2>6. Stop'.pc = "loop" /\ Stop'.seen = NoProcess /\ Stop'.held = Stop.held /\ Stop'.target = TargetNow
        /\ Stop'.owner = Stop.owner
    BY <2>5 DEF StopInv, StopTypes, StopRecords
  <2>7. Memory'
    BY <1>1, <1>2, <2>1, <2>2, <2>6 DEF StopInv, Memory, TargetNow
  <2> QED  BY <1>2, <2>5, <2>6, <2>7 DEF StopInv, Descriptor
<1>8. CASE StopKills
  <2>1. Stop.pc = "try"
    BY <1>8 DEF StopKills, StillThere, Tells, Stop
  <2>2. CASE OwnerNow = NoProcess
    BY <1>1, <1>8, <2>2, StopRefused DEF StopKills
  <2>3. CASE OwnerNow # NoProcess
    <3> DEFINE new == [Stop EXCEPT !.pc = "open", !.target = TargetNow, !.owner = OwnerNow, !.seen = NoProcess]
    <3>1. TargetNow \in {Stop.target, Stop.seen} /\ TargetNow \in Maybe
      BY DEF TargetNow, StopInv, StopTypes, StopRecords
    <3>2. OwnerNow \in Maybe /\ WasRunner(OwnerNow)
      <4>1. \A i : WasPublished(i) => WasRunner(i)
        BY DEF WasPublished, WasRunner, Published, Listed, RunnerKinds, Holders
      <4> QED  BY <2>3, <4>1 DEF OwnerNow, StopInv, Memory, Files, Maybe, WasRunner
    <3>3. new \in StopRecords
      BY <3>1, <3>2 DEF StopInv, StopTypes, StopRecords, Maybe
    <3>4. StopBecomes(new)
      BY <1>8, <2>3 DEF StopKills
    <3>5. Stop' = new /\ StopTypes'
      BY <3>3, <3>4, StopMoves
    <3>6. Stop'.pc = "open" /\ Stop'.seen = NoProcess /\ Stop'.held = Stop.held /\ Stop'.target = TargetNow
          /\ Stop'.owner = OwnerNow
      BY <3>5 DEF StopInv, StopTypes, StopRecords
    <3> HIDE DEF new
    <3>7. Memory'
      BY <1>1, <1>2, <2>1, <3>1, <3>2, <3>6 DEF StopInv, Memory, TargetNow
    <3> QED  BY <1>2, <2>3, <3>5, <3>6, <3>7 DEF StopInv, Descriptor
  <2> QED  BY <2>2, <2>3
<1>9. CASE StopGivesUp
  BY <1>1, <1>9, StopRefused DEF StopGivesUp
<1> QED  BY <1>3, <1>4, <1>5, <1>6, <1>7, <1>8, <1>9

\* kill_verified: a descriptor that is the owner's stays it.
LEMMA KillSteps ==
  ASSUME StopInv, Opens \/ Verifies \/ Signals
  PROVE  StopInv'
<1> USE DEF StopSteps, IsAt
<1>1. /\ UNCHANGED <<process, files>> /\ World' /\ Files'
      /\ \A i : (WasRunner(i)' <=> WasRunner(i)) /\ (WasPublished(i)' <=> WasPublished(i))
  BY StopSame DEF Opens, Verifies, Signals
<1>2. Stop.pc \in {"open", "verify", "signal"} => Stop.owner # NoProcess /\ WasRunner(Stop.owner)
  BY DEF StopInv, Memory, Descriptor
<1>3. CASE Opens
  <2> DEFINE there == AtPid(process[Owner].pid)
  <2>1. Stop.pc = "open" /\ WasRunner(Owner)
    BY <1>2, <1>3 DEF Opens, Stop, Owner
  <2>2. CASE there = {}
    <3>1. Resumes
      BY <1>3, <2>2 DEF Opens
    <3> QED  BY <1>1, <2>1, <3>1, StopResumes
  <2>3. CASE there # {}
    <3>1. PICK i \in there : i = CHOOSE j \in there : TRUE
      BY <2>3
    <3>2. i \in Processes /\ (Running(Owner) => i = Owner)
      BY <2>1, Alone DEF StopInv, AtPid, WasRunner
    <3>3. i = Owner \/ process[Owner].is = "gone"
      BY <2>1, <3>2 DEF WasRunner, Running, RunnerKinds, Holders
    <3>4. Stop' = [Stop EXCEPT !.pc = "verify", !.fd = i] /\ StopTypes'
      <4>1. [Stop EXCEPT !.pc = "verify", !.fd = i] \in StopRecords
        BY <2>3, <3>1, <3>2 DEF StopInv, StopTypes, StopRecords, Maybe
      <4>2. StopBecomes([Stop EXCEPT !.pc = "verify", !.fd = i])
        BY <1>3, <2>3, <3>1, <3>2 DEF Opens
      <4> QED  BY <4>1, <4>2, StopMoves
    <3> QED  BY <1>1, <2>1, <3>3, <3>4 DEF StopInv, StopTypes, StopRecords, Memory, Descriptor, Owner
  <2> QED  BY <2>2, <2>3
<1>4. CASE Verifies
  <2>1. Stop.pc = "verify" /\ WasRunner(Owner)
    BY <1>2, <1>4 DEF Verifies, Stop, Owner
  <2>2. CASE Verified
    <3>1. Running(Owner)
      BY <2>2 DEF Verified, AtPid
    <3>2. Stop.fd = Stop.owner
      BY <2>1, <3>1 DEF StopInv, Descriptor, Running, Owner
    <3>3. Stop' = [Stop EXCEPT !.pc = "signal"] /\ StopTypes'
      <4>1. [Stop EXCEPT !.pc = "signal"] \in StopRecords
        BY <2>2 DEF StopInv, StopTypes, StopRecords
      <4>2. StopBecomes([Stop EXCEPT !.pc = "signal"])
        BY <1>4, <2>2, StopBecomesAt DEF Verifies
      <4> QED  BY <4>1, <4>2, StopMoves
    <3> QED  BY <1>1, <2>1, <3>2, <3>3 DEF StopInv, StopTypes, StopRecords, Memory, Descriptor
  <2>3. CASE ~Verified
    <3>1. Resumes
      BY <1>4, <2>3 DEF Verifies
    <3> QED  BY <1>1, <2>1, <3>1, StopResumes
  <2> QED  BY <2>2, <2>3
<1>5. CASE Signals
  <2>0. Stop.pc = "signal"
    BY <1>5 DEF Signals, Stop
  <2>1. Stop' = [Stop EXCEPT !.pc = "list"] /\ StopTypes'
    <3>1. [Stop EXCEPT !.pc = "list"] \in StopRecords
      BY DEF StopInv, StopTypes, StopRecords
    <3>2. StopBecomes([Stop EXCEPT !.pc = "list"])
      BY <1>5 DEF Signals
    <3> QED  BY <3>1, <3>2, StopMoves
  <2> QED  BY <1>1, <2>0, <2>1 DEF StopInv, StopTypes, StopRecords, Memory, Descriptor
<1> QED  BY <1>3, <1>4, <1>5

\* kill_session: it knows only pids.
LEMMA SessionSteps ==
  ASSUME StopInv, Lists \/ PassEnds \/ \E pid \in Pids : Sees(pid) \/ Reaps(pid)
  PROVE  StopInv'
<1> USE DEF StopSteps, IsAt
<1>1. /\ UNCHANGED <<process, files>> /\ World' /\ Files'
      /\ \A i : (WasRunner(i)' <=> WasRunner(i)) /\ (WasPublished(i)' <=> WasPublished(i))
  BY StopSame DEF Lists, PassEnds, Sees, Reaps
<1>2. CASE Lists
  <2>1. InUse \subseteq Pids \cup {0}
    BY DEF InUse, StopInv, World
  <2>0. Stop.pc = "list"
    BY <1>2 DEF Lists, Stop
  <2>2. Stop' = [Stop EXCEPT !.pc = "see", !.listed = InUse, !.members = {}] /\ StopTypes'
    <3>1. [Stop EXCEPT !.pc = "see", !.listed = InUse, !.members = {}] \in StopRecords
      BY <2>1 DEF StopInv, StopTypes, StopRecords
    <3>2. StopBecomes([Stop EXCEPT !.pc = "see", !.listed = InUse, !.members = {}])
      BY <1>2, <2>1 DEF Lists
    <3> QED  BY <3>1, <3>2, StopMoves
  <2> QED  BY <1>1, <2>0, <2>2 DEF StopInv, StopTypes, StopRecords, Memory, Descriptor
<1>3. ASSUME NEW pid \in Pids, Sees(pid) PROVE StopInv'
  <2> DEFINE m == IF Member(pid) /\ pid \notin Stop.signaled THEN Stop.members \cup {pid} ELSE Stop.members
  <2>1. m \in SUBSET (Pids \cup {0})
    BY DEF StopInv, StopTypes, StopRecords
  <2>2. StopBecomes([Stop EXCEPT !.listed = @ \ {pid}, !.members = m])
    BY <1>3 DEF Sees
  <2> HIDE DEF m
  <2>3. Stop' = [Stop EXCEPT !.listed = @ \ {pid}, !.members = m] /\ StopTypes'
    <3>1. [Stop EXCEPT !.listed = @ \ {pid}, !.members = m] \in StopRecords
      BY <2>1 DEF StopInv, StopTypes, StopRecords
    <3> QED  BY <2>2, <3>1, StopMoves
  <2> QED  BY <1>1, <2>3 DEF StopInv, StopTypes, StopRecords, Memory, Descriptor
<1>4. ASSUME NEW pid \in Pids, Reaps(pid) PROVE StopInv'
  <2>1. Stop' = [Stop EXCEPT !.members = @ \ {pid}, !.signaled = @ \cup {pid}, !.new = TRUE] /\ StopTypes'
    <3>1. [Stop EXCEPT !.members = @ \ {pid}, !.signaled = @ \cup {pid}, !.new = TRUE] \in StopRecords
      BY DEF StopInv, StopTypes, StopRecords
    <3>2. StopBecomes([Stop EXCEPT !.members = @ \ {pid}, !.signaled = @ \cup {pid}, !.new = TRUE])
      BY <1>4 DEF Reaps
    <3> QED  BY <3>1, <3>2, StopMoves
  <2> QED  BY <1>1, <2>1 DEF StopInv, StopTypes, StopRecords, Memory, Descriptor
<1>5. CASE PassEnds
  <2>1. Stop.pc = "see"
    BY <1>5 DEF PassEnds, Stop
  <2>2. CASE ~Stop.new \/ Stop.passes + 1 = MaxPasses
    <3>1. Resumes
      BY <1>5, <2>2 DEF PassEnds
    <3> QED  BY <1>1, <2>1, <3>1, StopResumes
  <2>3. CASE ~(~Stop.new \/ Stop.passes + 1 = MaxPasses)
    <3>1. Stop' = [Stop EXCEPT !.pc = "list", !.passes = @ + 1, !.new = FALSE] /\ StopTypes'
      <4>0. \A n \in Int : [Stop EXCEPT !.pc = "list", !.passes = n, !.new = FALSE] \in StopRecords
        BY DEF StopInv, StopTypes, StopRecords
      <4>1. [Stop EXCEPT !.pc = "list", !.passes = @ + 1, !.new = FALSE] \in StopRecords
        <5>1. Stop.passes + 1 \in Int
          BY DEF StopInv, StopTypes, StopRecords
        <5> QED  BY <4>0, <5>1
      <4>2. StopBecomes([Stop EXCEPT !.pc = "list", !.passes = @ + 1, !.new = FALSE])
        BY <1>5, <2>3 DEF PassEnds
      <4> QED  BY <4>1, <4>2, StopMoves
    <3> QED  BY <1>1, <2>1, <3>1 DEF StopInv, StopTypes, StopRecords, Memory, Descriptor
  <2> QED  BY <2>2, <2>3
<1> QED  BY <1>2, <1>3, <1>4, <1>5

LEMMA StopStep == StopInv /\ [ClientsNext]_clientVars => StopInv'
<1> SUFFICES ASSUME StopInv, [ClientsNext]_clientVars PROVE StopInv'
  OBVIOUS
<1>1. CASE UNCHANGED clientVars
  <2>1. UNCHANGED <<process, files, client>> /\ Stop' = Stop
    BY <1>1 DEF clientVars, Stop
  <2>2. World' /\ Files' /\ Older
    BY <2>1, Untouched DEF StopInv
  <2> QED  BY <2>1, <2>2, StopUnmoved DEF StopInv, StopTypes
<1> QED  BY <1>1, ProcessesStep, ConnectorsStep, StopLoops, KillSteps, SessionSteps DEF ClientsNext

LEMMA StopInvHolds == ClientsSpec => []StopInv
<1> QED  BY InitStop, StopStep, PTL DEF ClientsSpec

(* `dekit runner stop` kills the runner that the record or the lock named, or  *)
(* nothing: not whatever has its pid by then (kill_verified, runner/kill.rs).  *)
THEOREM TheRecordedIsKilled == ClientsSpec => []KillsTheRecorded
<1>1. StopInv => KillsTheRecorded
  BY DEF StopInv, Memory, Descriptor, WasRunner, KillsTheRecorded, IsAt, Stop, Owner
<1> QED  BY <1>1, StopInvHolds, PTL

(* And when it says that the runner stopped, the one that served when it was  *)
(* called and its target serve no more, whichever runners start, sweep and     *)
(* end meanwhile (shutdown_runner, dekit/main.rs).                             *)
THEOREM TheStopIsOver == ClientsSpec => []StopMeansOver
<1>1. StopInv => StopMeansOver
  BY DEF StopInv, Memory, StopMeansOver, IsAt, Stop
<1> QED  BY <1>1, StopInvHolds, PTL

-----------------------------------------------------------------------------
Messages == {"query", "attach", "watch", "detach", "input", "copy", "stopped", "remove", "start", "quit"}
Mail == {"attach", "detach", "input", "copy"}
Notices == {"render", "copy", "plain"}
Steps == {"hello", "serving", "flush", "drain", "resolve", "confirm", "until", "session",
          "detach", "final", "closed"}
Codes == {"unsupported_protocol", "quit", "task_exited"}
States == {"nothing", "none", "gone", "active", "idle"}
Frames == [is : Kinds, id : Nat]
Written ==
  [is : {"hello"}] \cup [is : {"response"}, id : Nat, ok : BOOLEAN] \cup [is : {"out"}, shows : Int]
    \cup [is : {"bye"}, code : Codes, state : States, screen : Nat]
Connections ==
  [pc : Steps, replies : SUBSET Nat, calls : SUBSET Nat, id : Nat, until : BOOLEAN,
   confirmed : BOOLEAN, step : 1..3, reply : States,
   ended : BOOLEAN, exited : BOOLEAN, atEnd : Nat, present : BOOLEAN, drawn : Int]
Targets ==
  [there : BOOLEAN, active : BOOLEAN, runs : BOOLEAN, wrote : Nat, mail : Seq(Mail),
   observed : BOOLEAN, copy : BOOLEAN]
SessionTypes ==
  /\ up \in Seq(Frames) /\ sent \in Nat /\ clientOpen \in BOOLEAN /\ down \in Seq(Written)
  /\ conn \in Connections /\ target \in Targets
  /\ queue \in Seq(Messages) /\ kernelUp \in BOOLEAN
  /\ watch \in [on : BOOLEAN, saw : BOOLEAN, told : Seq(BOOLEAN)]
  /\ news \in Seq(Notices) /\ sink \in {"sent", "held", "dropped"}
  /\ events \in [n : Int, quit : BOOLEAN]

Has(q, m) == \E k \in DOMAIN q : q[k] = m
\* Every attach in a queue has a detachment behind it.
Undone(q) == \A k \in DOMAIN q : q[k] = "attach" => \E j \in DOMAIN q : k < j /\ q[j] = "detach"
OneQuery(q) == \A j, k \in DOMAIN q : q[j] = "query" /\ q[k] = "query" => j = k
WatchFirst(q) == \E j, k \in DOMAIN q : j < k /\ q[j] = "watch" /\ q[k] = "query"

\* The kernel that has ended has no messages and no tasks.
KernelGone == ~kernelUp => queue = <<>> /\ ~target.there /\ conn.reply # "none"

\* Before the screen is asked for, nobody asks for it; when the session has
\* ended, the detachment is behind what it is to undo.
Unattached == ~target.observed /\ ~Has(target.mail, "attach") /\ ~Has(queue, "attach")
Released ==
  /\ Undone(queue) /\ (Undone(target.mail) \/ Has(queue, "detach"))
  /\ target.observed => Has(target.mail, "detach") \/ Has(queue, "detach")
Sizes ==
  /\ conn.pc \in {"hello", "serving", "flush", "drain", "resolve"} => Unattached
  /\ conn.pc \in {"final", "closed"} /\ target.there => Released

\* A question is on its way, once, while there is no answer.
Question ==
  /\ conn.reply = "none" /\ kernelUp <=> Has(queue, "query")
  /\ OneQuery(queue)
  /\ conn.pc \notin {"resolve", "until", "final"} => conn.reply # "none"
  /\ conn.pc = "until" /\ conn.step < 3 => conn.reply # "none"
\* A session until the exit has its watch before its answer; what it was told
\* last is how it is, and if it was told nothing the task is active.
Unwatched == ~watch.on /\ ~Has(queue, "watch")
Asked == conn.pc = "until" /\ conn.step = 3
Watching ==
  /\ conn.pc \in {"hello", "serving", "flush", "drain", "resolve", "confirm"} => conn.step = 1
  /\ conn.step = 1 \/ ~conn.until => Unwatched
  /\ conn.pc = "session" /\ conn.until => conn.step = 3
  /\ conn.pc = "until" => conn.until
  /\ kernelUp /\ conn.pc = "until" /\ conn.step = 2 => watch.on \/ Has(queue, "watch")
  /\ kernelUp /\ Asked /\ ~watch.on => WatchFirst(queue)
  /\ kernelUp /\ InSession /\ conn.until => watch.on
  /\ watch.on /\ kernelUp => watch.saw = target.active
  /\ ~watch.on => watch.told = <<>>
  /\ watch.told # <<>> => watch.told[Len(watch.told)] = watch.saw
  /\ kernelUp /\ watch.on /\ watch.told = <<>> /\ ((InSession /\ conn.until) \/ (Asked /\ conn.reply = "active"))
       => watch.saw
\* What the task had written when it ended is painted, and in the goodbye.
ReportsExit(frame) == frame.is = "bye" /\ frame.code = "task_exited"
Painted ==
  /\ conn.atEnd <= target.wrote
  /\ conn.exited => conn.pc \in {"detach", "final", "closed"}
  /\ conn.pc = "final" => conn.exited
  /\ conn.exited /\ clientOpen /\ ~conn.present => conn.drawn >= conn.atEnd
  /\ conn.pc # "closed" => \A i \in DOMAIN down : ~ReportsExit(down[i])
  /\ \A i \in DOMAIN down : ReportsExit(down[i]) => conn.exited /\ down[i].screen >= conn.atEnd

-----------------------------------------------------------------------------
(* Queues.                                                                   *)
LEMMA Appended ==
  ASSUME NEW S, NEW q \in Seq(S), NEW m \in S
  PROVE  /\ Append(q, m) \in Seq(S) /\ q \o <<m>> = Append(q, m)
         /\ Len(q) \in Nat /\ DOMAIN q = 1..Len(q) /\ DOMAIN Append(q, m) = 1..(Len(q) + 1)
         /\ Len(Append(q, m)) = Len(q) + 1
         /\ \A k \in DOMAIN q : Append(q, m)[k] = q[k]
         /\ Append(q, m)[Len(q) + 1] = m
<1> QED  BY AppendProperties, LenProperties, AppendIsConcat

LEMMA Popped ==
  ASSUME NEW S, NEW q \in Seq(S), q # <<>>
  PROVE  /\ Tail(q) \in Seq(S) /\ Head(q) = q[1] /\ Head(q) \in S
         /\ Len(q) \in Nat \ {0} /\ DOMAIN q = 1..Len(q) /\ DOMAIN Tail(q) = 1..(Len(q) - 1)
         /\ \A k \in 1..(Len(q) - 1) : Tail(q)[k] = q[k + 1]
         /\ \A k \in DOMAIN q : k = 1 \/ (k - 1 \in DOMAIN Tail(q) /\ Tail(q)[k - 1] = q[k])
<1> QED  BY HeadTailProperties, LenProperties, EmptySeq

LEMMA QueueEmpty ==
  /\ \A m : ~Has(<<>>, m)
  /\ Undone(<<>>) /\ OneQuery(<<>>)
  BY DEF Has, Undone, OneQuery

LEMMA QueueGrows ==
  ASSUME NEW S, NEW q \in Seq(S), NEW m \in S
  PROVE  /\ \A x : Has(Append(q, m), x) <=> Has(q, x) \/ x = m
         /\ m = "detach" \/ (Undone(q) /\ m # "attach") => Undone(Append(q, m))
         /\ OneQuery(q) /\ (m # "query" \/ ~Has(q, "query")) => OneQuery(Append(q, m))
         /\ WatchFirst(q) \/ (Has(q, "watch") /\ m = "query") => WatchFirst(Append(q, m))
<1> DEFINE r == Append(q, m)
<1>1. /\ DOMAIN q = 1..Len(q) /\ DOMAIN r = 1..(Len(q) + 1) /\ Len(q) \in Nat
      /\ \A k \in DOMAIN q : r[k] = q[k]
      /\ r[Len(q) + 1] = m
  BY Appended
<1> HIDE DEF r
<1>2. /\ \A k \in DOMAIN r : k = Len(q) + 1 \/ (k \in DOMAIN q /\ r[k] = q[k] /\ k < Len(q) + 1)
      /\ \A k \in DOMAIN q : k \in DOMAIN r /\ r[k] = q[k] /\ k < Len(q) + 1
      /\ Len(q) + 1 \in DOMAIN r
  BY <1>1
<1>3. \A x : Has(r, x) <=> Has(q, x) \/ x = m
  BY <1>1, <1>2 DEF Has
<1>4. m = "detach" \/ (Undone(q) /\ m # "attach") => Undone(r)
  BY <1>1, <1>2 DEF Undone
<1>5. OneQuery(q) /\ (m # "query" \/ ~Has(q, "query")) => OneQuery(r)
  BY <1>1, <1>2 DEF OneQuery, Has
<1>6. WatchFirst(q) \/ (Has(q, "watch") /\ m = "query") => WatchFirst(r)
  BY <1>1, <1>2 DEF WatchFirst, Has
<1> QED  BY <1>3, <1>4, <1>5, <1>6 DEF r

LEMMA QueueShrinks ==
  ASSUME NEW S, NEW q \in Seq(S), q # <<>>, NEW h, h = Head(q), NEW t, t = Tail(q)
  PROVE  /\ \A x : Has(q, x) <=> h = x \/ Has(t, x)
         /\ Undone(q) => Undone(t) /\ (h = "attach" => Has(t, "detach"))
         /\ OneQuery(q) => OneQuery(t) /\ ~(h = "query" /\ Has(t, "query"))
         /\ WatchFirst(q) => Has(t, "query") /\ (h = "watch" \/ WatchFirst(t))
<1>1. /\ h = q[1] /\ Len(q) \in Nat \ {0} /\ DOMAIN q = 1..Len(q) /\ DOMAIN t = 1..(Len(q) - 1)
      /\ \A k \in 1..(Len(q) - 1) : t[k] = q[k + 1]
      /\ \A k \in DOMAIN q : k = 1 \/ (k - 1 \in DOMAIN t /\ t[k - 1] = q[k])
  BY Popped
<1>2. /\ \A k \in DOMAIN t : k \in Nat /\ k # 0 /\ k + 1 \in DOMAIN q /\ t[k] = q[k + 1]
      /\ 1 \in DOMAIN q
  BY <1>1
<1>3. \A x : Has(q, x) <=> h = x \/ Has(t, x)
  BY <1>1, <1>2 DEF Has
<1>4. Undone(q) => Undone(t) /\ (h = "attach" => Has(t, "detach"))
  <2> SUFFICES ASSUME Undone(q) PROVE Undone(t) /\ (h = "attach" => Has(t, "detach"))
    OBVIOUS
  <2>1. ASSUME NEW k \in DOMAIN q, q[k] = "attach"
        PROVE  \E j \in DOMAIN t : k < j + 1 /\ t[j] = "detach"
    <3>1. PICK j \in DOMAIN q : k < j /\ q[j] = "detach"
      BY <2>1 DEF Undone
    <3>2. j - 1 \in DOMAIN t /\ t[j - 1] = "detach" /\ k < (j - 1) + 1
      BY <1>1, <3>1
    <3> QED  BY <3>2
  <2>2. Undone(t)
    BY <1>2, <2>1 DEF Undone
  <2> QED  BY <1>1, <1>2, <2>1, <2>2 DEF Has
<1>5. OneQuery(q) => OneQuery(t) /\ ~(h = "query" /\ Has(t, "query"))
  BY <1>1, <1>2 DEF OneQuery, Has
<1>6. WatchFirst(q) => Has(t, "query") /\ (h = "watch" \/ WatchFirst(t))
  <2> SUFFICES ASSUME WatchFirst(q) PROVE Has(t, "query") /\ (h = "watch" \/ WatchFirst(t))
    OBVIOUS
  <2>1. PICK j \in DOMAIN q, k \in DOMAIN q : j < k /\ q[j] = "watch" /\ q[k] = "query"
    BY DEF WatchFirst
  <2>2. k - 1 \in DOMAIN t /\ t[k - 1] = "query"
    BY <1>1, <2>1
  <2>3. j = 1 \/ (j - 1 \in DOMAIN t /\ t[j - 1] = "watch" /\ j - 1 < k - 1)
    BY <1>1, <2>1
  <2> QED  BY <1>1, <2>1, <2>2, <2>3 DEF Has, WatchFirst
<1> QED  BY <1>3, <1>4, <1>5, <1>6

-----------------------------------------------------------------------------
(* Types.                                                                    *)
LEMMA PostTypes ==
  ASSUME queue \in Seq(Messages), NEW ms \in Seq(Messages), Post(ms)
  PROVE  queue' \in Seq(Messages)
  BY ConcatProperties DEF Post

LEMMA SaysTypes ==
  ASSUME down \in Seq(Written), NEW frame \in Written, NEW ok \in Connections, NEW lost \in Connections,
         Says(frame, ok, lost)
  PROVE  conn' \in Connections /\ down' \in Seq(Written)
  BY Appended DEF Says

LEMMA ConnectionTypes ==
  ASSUME NEW c \in Connections
  PROVE  /\ \A pc \in Steps : Goto(c, pc) \in Connections
         /\ Closed(c) \in Connections /\ Asking(c) \in Connections
         /\ \A how \in {"closed", "exited"} : Over(c, how) \in Connections
<1>1. \A pc \in Steps : Goto(c, pc) \in Connections
  BY DEF Goto, Connections
<1>2. Closed(c) \in Connections
  BY DEF Closed, Goto, Connections, Steps
<1>3. Asking(c) \in Connections
  BY DEF Asking, Connections, States
<1>4. \A how \in {"closed", "exited"} : Over(c, how) \in Connections
  BY DEF Over, Goto, Connections, Steps
<1> QED  BY <1>1, <1>2, <1>3, <1>4

LEMMA PaintsTypes ==
  ASSUME SessionTypes, NEW c \in Connections, NEW lost \in Connections, Paints(c, lost)
  PROVE  conn' \in Connections /\ down' \in Seq(Written)
<1>1. Picture(c) \in Int
  BY DEF Picture, SessionTypes, Targets
<1>2. CASE Picture(c) = c.drawn
  BY <1>2 DEF Paints, SessionTypes
<1>3. CASE Picture(c) # c.drawn
  <2> DEFINE p == Picture(c)
  <2> HIDE DEF p
  <2>1. [is |-> "out", shows |-> p] \in Written /\ [c EXCEPT !.drawn = p] \in Connections
    BY <1>1 DEF Written, Connections, p
  <2> QED  BY <1>3, <2>1, SaysTypes DEF Paints, SessionTypes, p
<1> QED  BY <1>2, <1>3

LEMMA RestOf ==
  ASSUME NEW S, NEW q \in Seq(S), NEW k \in DOMAIN q
  PROVE  LET r == SubSeq(q, k + 1, Len(q))
         IN  /\ r \in Seq(S) /\ DOMAIN r = 1..(Len(q) - k) /\ Len(q) \in Nat
             /\ \A j \in DOMAIN r : r[j] = q[j + k] /\ j + k \in DOMAIN q
<1> DEFINE n == Len(q)
<1>1. n \in Nat /\ DOMAIN q = 1..n /\ k \in 1..n
  BY LenProperties
<1>2. SubSeq(q, k + 1, n) \in Seq(S) /\ Len(SubSeq(q, k + 1, n)) = IF k + 1 <= n THEN n - (k + 1) + 1 ELSE 0
  BY <1>1, SubSeqProperties
<1>3. \A j \in 1 .. n - (k + 1) + 1 : SubSeq(q, k + 1, n)[j] = q[k + 1 + j - 1]
  BY <1>1, SubSeqProperties
<1>4. DOMAIN SubSeq(q, k + 1, n) = 1..(n - k)
  BY <1>1, <1>2, LenProperties
<1> HIDE DEF n
<1>5. \A j \in 1..(n - k) : k + 1 + j - 1 = j + k /\ j + k \in 1..n /\ j \in 1 .. n - (k + 1) + 1
  BY <1>1
<1> QED  BY <1>1, <1>2, <1>3, <1>4, <1>5 DEF n

\* A frame that comes in, and what is left.
LEMMA IncomingIs ==
  ASSUME up \in Seq(Frames), NEW f \in Incoming
  PROVE  /\ f.rest \in Seq(Frames) /\ f.id \in Nat
         /\ \/ f.is = "end" /\ f.id = 0 /\ f.rest = <<>>
            \/ \E k \in DOMAIN up :
                 /\ f.is = up[k].is /\ f.id = up[k].id /\ k \in Nat
                 /\ \A j \in DOMAIN f.rest : f.rest[j] = up[j + k] /\ j + k \in DOMAIN up /\ j \in Nat \ {0}
<1>1. CASE \E k \in First : f = [is |-> up[k].is, id |-> up[k].id, rest |-> SubSeq(up, k + 1, Len(up))]
  <2>1. PICK k \in First : f = [is |-> up[k].is, id |-> up[k].id, rest |-> SubSeq(up, k + 1, Len(up))]
    BY <1>1
  <2>2. k \in DOMAIN up
    BY <2>1 DEF First
  <2>3. up[k] \in Frames /\ k \in Nat
    BY <2>2, ElementOfSeq, LenProperties
  <2> DEFINE r == SubSeq(up, k + 1, Len(up))
  <2>4. /\ r \in Seq(Frames) /\ \A j \in DOMAIN r : r[j] = up[j + k] /\ j + k \in DOMAIN up
        /\ DOMAIN r = 1..(Len(up) - k)
    BY <2>2, RestOf
  <2> HIDE DEF r
  <2>5. f.rest = r /\ f.is = up[k].is /\ f.id = up[k].id
    BY <2>1 DEF r
  <2>6. \A j \in DOMAIN f.rest : f.rest[j] = up[j + k] /\ j + k \in DOMAIN up /\ j \in Nat \ {0}
    <3>1. \A j \in DOMAIN r : j \in Nat \ {0}
      BY <2>3, <2>4, LenProperties
    <3> QED  BY <2>4, <2>5, <3>1
  <2>7. f.rest \in Seq(Frames) /\ f.id \in Nat
    BY <2>3, <2>4, <2>5 DEF Frames
  <2> QED  BY <2>2, <2>3, <2>5, <2>6, <2>7
<1>2. CASE f = [is |-> "end", id |-> 0, rest |-> <<>>]
  BY <1>2
<1> QED  BY <1>1, <1>2 DEF Incoming

LEMMA TypesOfKernel ==
  ASSUME SessionTypes,
         Handles \/ KernelEnds \/ Writes \/ Stops \/ HearsMail \/ TaskEnds \/ OthersAct
  PROVE  SessionTypes'
<1>1. CASE Handles
  <2>1. queue # <<>> /\ queue' = Tail(queue) /\ Head(queue) \in Messages /\ queue' \in Seq(Messages)
    BY <1>1, Popped DEF Handles, SessionTypes
  <2>2. \A m \in Mail : Deliver(m) \in Targets
    BY Appended DEF Deliver, SessionTypes, Targets
  <2>3. target' \in Targets
    <3>1. /\ [target EXCEPT !.active = FALSE] \in Targets
          /\ [target EXCEPT !.active = TRUE, !.runs = TRUE] \in Targets
          /\ [target EXCEPT !.there = FALSE, !.active = FALSE] \in Targets
          /\ target \in Targets
      BY DEF SessionTypes, Targets
    <3> QED  BY <1>1, <2>2, <3>1 DEF Handles, Mail
  <2>4. ASSUME NEW w \in [on : BOOLEAN, saw : BOOLEAN, told : Seq(BOOLEAN)], NEW x \in Targets
        PROVE  Looked(w, x) \in [on : BOOLEAN, saw : BOOLEAN, told : Seq(BOOLEAN)]
    <3>1. x.active \in BOOLEAN /\ Append(w.told, x.active) \in Seq(BOOLEAN)
      BY Appended DEF Targets
    <3> QED  BY <3>1 DEF Looked
  <2>5. watch' \in [on : BOOLEAN, saw : BOOLEAN, told : Seq(BOOLEAN)]
    <3>1. \E w \in [on : BOOLEAN, saw : BOOLEAN, told : Seq(BOOLEAN)] : watch' = Looked(w, target')
      BY <1>1, <2>3 DEF Handles, SessionTypes, Targets
    <3> QED  BY <2>3, <2>4, <3>1
  <2>6. conn' \in Connections
    BY <1>1 DEF Handles, SessionTypes, StateOf, Connections, States
  <2>7. sink' \in {"sent", "held", "dropped"} /\ events' \in [n : Int, quit : BOOLEAN]
    BY <1>1 DEF Handles, SessionTypes
  <2> QED  BY <1>1, <2>1, <2>3, <2>5, <2>6, <2>7 DEF Handles, SessionTypes
<1>2. CASE KernelEnds
  <2>1. target' \in Targets /\ conn' \in Connections /\ queue' \in Seq(Messages)
    BY <1>2, EmptySeq DEF KernelEnds, SessionTypes, Targets, Connections, States
  <2> QED  BY <1>2, <2>1 DEF KernelEnds, SessionTypes
<1>3. ASSUME NEW n \in Notices, Told(n)
      PROVE  news' \in Seq(Notices)
  BY <1>3, Appended DEF Told, SessionTypes
<1>4. CASE Writes
  <2>1. target' \in Targets
    <3>1. target.wrote + 1 \in Nat
      BY DEF SessionTypes, Targets
    <3>2. \A n \in Nat : [target EXCEPT !.wrote = n] \in Targets
      BY DEF SessionTypes, Targets
    <3> QED  BY <1>4, <3>1, <3>2 DEF Writes
  <2>2. news' \in Seq(Notices)
    BY <1>3, <1>4 DEF Writes, SessionTypes, Notices
  <2> QED  BY <1>4, <2>1, <2>2 DEF Writes, SessionTypes
<1>5. CASE Stops
  <2>1. target' \in Targets
    BY <1>5 DEF Stops, SessionTypes, Targets
  <2>2. <<"stopped">> \in Seq(Messages)
    BY DEF Messages
  <2>3. queue' \in Seq(Messages)
    BY <1>5, <2>2, PostTypes DEF Stops, SessionTypes
  <2> QED  BY <1>5, <2>1, <2>3 DEF Stops, SessionTypes
<1>6. CASE HearsMail
  <2>1. /\ target.mail \in Seq(Mail) /\ target.mail # <<>>
        /\ Head(target.mail) \in Mail /\ Tail(target.mail) \in Seq(Mail)
    BY <1>6, Popped DEF HearsMail, SessionTypes, Targets
  <2>2. target' \in Targets /\ sink' \in {"sent", "held", "dropped"}
    BY <1>6, <2>1 DEF HearsMail, SessionTypes, Targets, Mail
  <2>3. news' \in Seq(Notices)
    <3>1. /\ <<"render">> \in Seq(Notices) /\ <<"copy">> \in Seq(Notices) /\ <<>> \in Seq(Notices)
          /\ \A s, t \in Seq(Notices) : s \o t \in Seq(Notices)
      BY ConcatProperties, EmptySeq DEF Notices
    <3>2. CASE Head(target.mail) = "attach"
      <4>1. news' = news \/ \E t \in {<<>>, <<"copy">>} : news' = (news \o <<"render">>) \o t
        BY <1>6, <3>2 DEF HearsMail
      <4>2. news \o <<"render">> \in Seq(Notices)
        BY <3>1 DEF SessionTypes
      <4>3. ASSUME NEW t \in {<<>>, <<"copy">>} PROVE (news \o <<"render">>) \o t \in Seq(Notices)
        <5> DEFINE n == news \o <<"render">>
        <5>1. t \in Seq(Notices) /\ n \in Seq(Notices)
          BY <3>1, <4>2
        <5> HIDE DEF n
        <5>2. n \o t \in Seq(Notices)
          BY <3>1, <5>1
        <5> QED  BY <5>2 DEF n
      <4> QED  BY <4>1, <4>3 DEF SessionTypes
    <3>3. CASE Head(target.mail) # "attach"
      <4>1. news' = news \/ Told("plain") \/ Told("copy")
        BY <1>6, <2>1, <3>3 DEF HearsMail, Mail
      <4> QED  BY <1>3, <4>1 DEF SessionTypes, Notices
    <3> QED  BY <3>2, <3>3
  <2> QED  BY <1>6, <2>2, <2>3 DEF HearsMail, SessionTypes
<1>7. CASE TaskEnds
  <2>1. target' \in Targets
    BY <1>7 DEF TaskEnds, SessionTypes, Targets
  <2> QED  BY <1>7, <2>1 DEF TaskEnds, SessionTypes
<1>8. CASE OthersAct
  <2>1. PICK m \in {"start", "remove", "quit"} : Post(<<m>>)
    BY <1>8 DEF OthersAct
  <2>2. <<m>> \in Seq(Messages)
    BY DEF Messages
  <2>3. queue' \in Seq(Messages) /\ events' \in [n : Int, quit : BOOLEAN]
    <3>1. events.n + 1 \in Int /\ \A n \in Int : [events EXCEPT !.n = n] \in [n : Int, quit : BOOLEAN]
      BY DEF SessionTypes
    <3> QED  BY <1>8, <2>1, <2>2, <3>1, PostTypes DEF OthersAct, SessionTypes
  <2> QED  BY <1>8, <2>3 DEF OthersAct, SessionTypes
<1> QED  BY <1>1, <1>2, <1>4, <1>5, <1>6, <1>7, <1>8

LEMMA WrittenTypes ==
  /\ [is |-> "hello"] \in Written
  /\ \A id \in Nat, ok \in BOOLEAN : Reply(id, ok) \in Written
  /\ \A code \in Codes, state \in States, screen \in Nat : Bye(code, state, screen) \in Written
<1>1. [is |-> "hello"] \in Written
  BY DEF Written
<1>2. \A id \in Nat, ok \in BOOLEAN : Reply(id, ok) \in Written
  BY DEF Reply, Written
<1>3. \A code \in Codes, state \in States, screen \in Nat : Bye(code, state, screen) \in Written
  BY DEF Bye, Written
<1> QED  BY <1>1, <1>2, <1>3

LEMMA OneMessage == \A m \in Messages : <<m>> \in Seq(Messages)
  OBVIOUS

LEMMA TypesOfFrames ==
  ASSUME SessionTypes,
         (\E kind \in Kinds : ClientSends(kind)) \/ Leaves \/ Greets \/ Serves
           \/ (\E id \in conn.replies : Answers(id)) \/ Drained
  PROVE  SessionTypes'
<1>0. \A id \in Nat, ok \in BOOLEAN : Reply(id, ok) \in Written
  BY WrittenTypes
<1>1. ASSUME NEW kind \in Kinds, ClientSends(kind) PROVE SessionTypes'
  <2>1. sent + 1 \in Nat
    BY DEF SessionTypes
  <2>2. [is |-> kind, id |-> sent + 1] \in Frames
    BY <2>1 DEF Frames
  <2>3. up' \in Seq(Frames)
    BY <1>1, <2>2, Appended DEF ClientSends, SessionTypes
  <2> QED  BY <1>1, <2>1, <2>3 DEF ClientSends, SessionTypes
<1>2. CASE Leaves
  BY <1>2 DEF Leaves, SessionTypes
<1>3. CASE Greets
  <2>1. PICK f \in Incoming : /\ up' = f.rest /\ NoneElse
                             /\ CASE f.is = "hello" -> Says([is |-> "hello"], Goto(conn, "serving"), Closed(conn))
                                  [] f.is = "hello-other" ->
                                       Says(Bye("unsupported_protocol", "none", 0), Closed(conn), Closed(conn))
                                  [] OTHER -> conn' = Closed(conn) /\ UNCHANGED down
    BY <1>3 DEF Greets
  <2>2. /\ [is |-> "hello"] \in Written /\ Bye("unsupported_protocol", "none", 0) \in Written
        /\ Goto(conn, "serving") \in Connections /\ Closed(conn) \in Connections
    <3>1. [is |-> "hello"] \in Written /\ Bye("unsupported_protocol", "none", 0) \in Written
      BY WrittenTypes DEF Codes, States
    <3>2. Goto(conn, "serving") \in Connections /\ Closed(conn) \in Connections
      BY ConnectionTypes DEF SessionTypes, Steps
    <3> QED  BY <3>1, <3>2
  <2>3. conn' \in Connections /\ down' \in Seq(Written)
    BY <2>1, <2>2, SaysTypes DEF SessionTypes
  <2>4. up' \in Seq(Frames)
    BY <2>1, IncomingIs DEF SessionTypes
  <2> QED  BY <2>1, <2>3, <2>4 DEF NoneElse, SessionTypes
<1>4. CASE Serves
  <2>1. PICK f \in Incoming :
          /\ up' = f.rest /\ NoneElse
          /\ CASE f.is = "call" ->
                    conn' = [conn EXCEPT !.replies = @ \cup {f.id}, !.calls = @ \cup {f.id}] /\ UNCHANGED down
               [] f.is = "bad-call" -> Says(Reply(f.id, FALSE), [conn EXCEPT !.calls = @ \cup {f.id}], Closed(conn))
               [] f.is \in {"attach", "run"} ->
                    conn' = [Goto(conn, "flush") EXCEPT !.id = f.id, !.until = (f.is = "run")] /\ UNCHANGED down
               [] f.is \in {"out", "broken", "end"} -> conn' = Goto(conn, "drain") /\ UNCHANGED down
               [] OTHER -> UNCHANGED <<conn, down>>
    BY <1>4 DEF Serves
  <2>2. f.id \in Nat /\ f.rest \in Seq(Frames) /\ conn \in Connections
    BY IncomingIs DEF SessionTypes
  <2>3. /\ [conn EXCEPT !.replies = @ \cup {f.id}, !.calls = @ \cup {f.id}] \in Connections
        /\ [conn EXCEPT !.calls = @ \cup {f.id}] \in Connections
    BY <2>2 DEF Connections
  <2>4. \A b \in BOOLEAN : [Goto(conn, "flush") EXCEPT !.id = f.id, !.until = b] \in Connections
    BY <2>2 DEF Connections, Goto, Steps
  <2>5. Goto(conn, "drain") \in Connections /\ Closed(conn) \in Connections
    BY <2>2, ConnectionTypes DEF Steps
  <2>6. conn' \in Connections /\ down' \in Seq(Written)
    <3>1. CASE f.is = "bad-call"
      BY <1>0, <2>1, <2>2, <2>3, <2>5, <3>1, SaysTypes DEF SessionTypes
    <3>2. CASE f.is # "bad-call"
      BY <2>1, <2>2, <2>3, <2>4, <2>5, <3>2 DEF SessionTypes
    <3> QED  BY <3>1, <3>2
  <2> QED  BY <2>1, <2>2, <2>6 DEF NoneElse, SessionTypes
<1>5. ASSUME NEW id \in conn.replies, Answers(id) PROVE SessionTypes'
  <2>1. id \in Nat /\ [conn EXCEPT !.replies = @ \ {id}] \in Connections /\ Closed(conn) \in Connections
    BY ConnectionTypes DEF SessionTypes, Connections
  <2>2. conn' \in Connections /\ down' \in Seq(Written)
    BY <1>0, <1>5, <2>1, SaysTypes DEF Answers, SessionTypes
  <2> QED  BY <1>5, <2>2 DEF Answers, NoneElse, SessionTypes
<1>6. CASE Drained
  <2>1. Closed(conn) \in Connections
    BY ConnectionTypes DEF SessionTypes
  <2> QED  BY <1>6, <2>1 DEF Drained, NoneElse, SessionTypes
<1> QED  BY <1>1, <1>2, <1>3, <1>4, <1>5, <1>6

LEMMA TypesOfAttaching ==
  ASSUME SessionTypes, Resolves \/ Resolved \/ Confirms \/ StepsUntil \/ Learns
  PROVE  SessionTypes'
<1>0. /\ \A id \in Nat, ok \in BOOLEAN : Reply(id, ok) \in Written
      /\ conn \in Connections /\ conn.id \in Nat /\ Closed(conn) \in Connections
      /\ \A m \in {"query", "attach", "watch"} : <<m>> \in Seq(Messages)
  <2>1. conn \in Connections /\ conn.id \in Nat
    BY DEF SessionTypes, Connections
  <2>2. {"query", "attach", "watch"} \subseteq Messages
    BY DEF Messages
  <2> QED  BY <2>1, <2>2, ConnectionTypes, WrittenTypes, OneMessage
<1>1. CASE Resolves
  <2>1. Goto(conn, "resolve") \in Connections
    BY <1>0, ConnectionTypes DEF Steps
  <2>2. conn' \in Connections
    BY <1>1, <2>1, ConnectionTypes DEF Resolves
  <2>3. queue' \in Seq(Messages)
    BY <1>0, <1>1, PostTypes DEF Resolves, SessionTypes
  <2> QED  BY <1>1, <2>2, <2>3 DEF Resolves, SessionTypes
<1>2. CASE Resolved
  <2>1. CASE conn.reply = "gone"
    <3>1. conn' \in Connections /\ down' \in Seq(Written)
      BY <1>0, <1>2, <2>1, SaysTypes DEF Resolved, SessionTypes
    <3> QED  BY <1>2, <2>1, <3>1 DEF Resolved, SessionTypes
  <2>2. CASE conn.reply # "gone"
    <3>1. conn' \in Connections
      BY <1>0, <1>2, <2>2, ConnectionTypes DEF Resolved, Steps
    <3>2. queue' \in Seq(Messages)
      BY <1>0, <1>2, <2>2, PostTypes DEF Resolved, SessionTypes
    <3> QED  BY <1>2, <2>2, <3>1, <3>2 DEF Resolved, SessionTypes
  <2> QED  BY <2>1, <2>2
<1>3. CASE Confirms
  <2> DEFINE ok == [conn EXCEPT !.confirmed = TRUE, !.pc = IF conn.until THEN "until" ELSE "session"]
  <2>1. ok \in Connections
    BY <1>0 DEF Connections, Steps
  <2>1a. Goto(conn, "detach") \in Connections
    BY <1>0, ConnectionTypes DEF Steps
  <2>2. Says(Reply(conn.id, TRUE), ok, Goto(conn, "detach"))
    BY <1>3 DEF Confirms
  <2> HIDE DEF ok
  <2>3. conn' \in Connections /\ down' \in Seq(Written)
    BY <1>0, <2>1, <2>1a, <2>2, SaysTypes DEF SessionTypes
  <2> QED  BY <1>3, <2>3 DEF Confirms, NoneElse, SessionTypes
<1>4. CASE StepsUntil
  <2>1. conn.step \in {1, 2}
    BY <1>4 DEF StepsUntil, SessionTypes, Connections
  <2>2. UntilSteps[conn.step] \in {"watch", "query"}
    BY <2>1 DEF UntilSteps
  <2>3. conn' \in Connections
    <3> DEFINE asked == IF UntilSteps[conn.step] = "query" THEN Asking(conn) ELSE conn
    <3>0. conn' = [asked EXCEPT !.step = asked.step + 1]
      BY <1>4 DEF StepsUntil
    <3>1. asked \in Connections /\ asked.step = conn.step
      BY <1>0, ConnectionTypes DEF Asking, Connections
    <3> HIDE DEF asked
    <3>2. conn.step + 1 \in 1..3
      BY <2>1
    <3>3. \A c \in Connections, n \in 1..3 : [c EXCEPT !.step = n] \in Connections
      BY DEF Connections
    <3> QED  BY <3>0, <3>1, <3>2, <3>3
  <2>4. queue' \in Seq(Messages)
    BY <1>0, <1>4, <2>2, PostTypes DEF StepsUntil, SessionTypes
  <2> QED  BY <1>4, <2>3, <2>4 DEF StepsUntil, SessionTypes
<1>5. CASE Learns
  <2>1. conn' \in Connections
    <3>1. Goto(conn, "session") \in Connections
      BY <1>0, ConnectionTypes DEF Steps
    <3>2. target.wrote \in Nat
      BY DEF SessionTypes, Targets
    <3>3. \A c \in Connections, b \in BOOLEAN, n \in Nat :
            [c EXCEPT !.ended = b, !.atEnd = n] \in Connections
      BY DEF Connections
    <3>4. \E b \in BOOLEAN : conn' = [Goto(conn, "session") EXCEPT !.ended = b, !.atEnd = target.wrote]
      BY <1>5 DEF Learns
    <3> QED  BY <3>1, <3>2, <3>3, <3>4
  <2> QED  BY <1>5, <2>1 DEF Learns, NoneElse, SessionTypes
<1> QED  BY <1>1, <1>2, <1>3, <1>4, <1>5

LEMMA TypesOfTheSession ==
  ASSUME SessionTypes,
         \/ HearsNotes \/ ScreenGone \/ HearsWatch \/ WatchGone \/ HearsClient \/ SessionEnds
         \/ Detaches \/ Reports
  PROVE  SessionTypes'
<1>0. conn \in Connections /\ Closed(conn) \in Connections
      /\ Over(conn, "closed") \in Connections /\ Over(conn, "exited") \in Connections
  BY ConnectionTypes DEF SessionTypes
<1>1. CASE HearsNotes
  <2> DEFINE shown == SelectSeq(news, LAMBDA n : n # "render")
             c == IF shown = <<>> THEN conn ELSE [conn EXCEPT !.present = (Last(shown) = "copy")]
  <2>1. c \in Connections
    BY <1>0 DEF Connections
  <2>2. Paints(c, Over(c, "closed")) /\ news' = <<>>
    BY <1>1 DEF HearsNotes
  <2> HIDE DEF c
  <2>3. conn' \in Connections /\ down' \in Seq(Written) /\ news' \in Seq(Notices)
    BY <2>1, <2>2, PaintsTypes, ConnectionTypes
  <2> QED  BY <1>1, <2>3 DEF HearsNotes, SessionTypes
<1>2. CASE ScreenGone \/ WatchGone
  BY <1>0, <1>2 DEF ScreenGone, WatchGone, NoneElse, SessionTypes
<1>3. CASE HearsWatch
  <2>1. watch' \in [on : BOOLEAN, saw : BOOLEAN, told : Seq(BOOLEAN)]
    <3>1. Tail(watch.told) \in Seq(BOOLEAN)
      BY <1>3, Popped DEF HearsWatch, SessionTypes
    <3> QED  BY <1>3, <3>1 DEF HearsWatch, SessionTypes
  <2>2. conn' \in Connections
    BY <1>0, <1>3 DEF HearsWatch, Connections, SessionTypes, Targets
  <2> QED  BY <1>3, <2>1, <2>2 DEF HearsWatch, SessionTypes
<1>4. CASE HearsClient
  <2>1. PICK f \in Incoming :
          /\ up' = f.rest
          /\ \/ f.is \in {"input", "copy"} /\ Post(<<f.is>>) /\ UNCHANGED conn
             \/ conn' = Over(conn, "closed") /\ UNCHANGED queue
             \/ UNCHANGED <<queue, conn>>
    BY <1>4 DEF HearsClient
  <2>2. up' \in Seq(Frames)
    BY <2>1, IncomingIs DEF SessionTypes
  <2>3. conn' \in Connections
    BY <1>0, <2>1
  <2>4. queue' \in Seq(Messages)
    <3>1. {"input", "copy"} \subseteq Messages
      BY DEF Messages
    <3> QED  BY <2>1, <3>1, OneMessage, PostTypes DEF SessionTypes
  <2> QED  BY <1>4, <2>2, <2>3, <2>4 DEF HearsClient, SessionTypes
<1>5. CASE SessionEnds
  <2>1. conn' \in Connections /\ down' \in Seq(Written)
    BY <1>0, <1>5, PaintsTypes DEF SessionEnds, LastPaint
  <2> QED  BY <1>5, <2>1 DEF SessionEnds, NoneElse, SessionTypes
<1>6. CASE Detaches
  <2>0. /\ <<"detach">> \in Seq(Messages) /\ <<"detach">> \o <<"query">> \in Seq(Messages)
        /\ Bye("quit", "none", 0) \in Written
    <3>1. <<"detach">> \in Seq(Messages) /\ <<"query">> \in Seq(Messages)
      BY OneMessage DEF Messages
    <3>2. <<"detach">> \o <<"query">> \in Seq(Messages)
      BY <3>1, ConcatProperties
    <3>3. Bye("quit", "none", 0) \in Written
      BY WrittenTypes DEF Codes, States
    <3> QED  BY <3>1, <3>2, <3>3
  <2>1. queue' \in Seq(Messages)
    BY <1>6, <2>0, PostTypes DEF Detaches, Farewell, SessionTypes
  <2>2. conn' \in Connections /\ down' \in Seq(Written)
    <3>1. Goto(conn, "final") \in Connections
      BY <1>0, ConnectionTypes DEF Steps
    <3>2. Asking(Goto(conn, "final")) \in Connections
      BY <3>1, ConnectionTypes
    <3> QED  BY <1>0, <1>6, <2>0, <3>2, SaysTypes DEF Detaches, SessionTypes
  <2> QED  BY <1>6, <2>1, <2>2, EmptySeq DEF Detaches, SessionTypes
<1>7. CASE Reports
  <2>1. target.wrote \in Nat /\ conn.reply \in States
    BY <1>0 DEF SessionTypes, Targets, Connections
  <2>2. Bye("task_exited", conn.reply, target.wrote) \in Written
    BY <2>1, WrittenTypes DEF Codes
  <2>3. <<"remove">> \in Seq(Messages)
    BY DEF Messages
  <2>4. queue' \in Seq(Messages)
    BY <1>7, <2>3, PostTypes DEF Reports, SessionTypes
  <2>5. conn' \in Connections /\ down' \in Seq(Written)
    BY <1>0, <1>7, <2>2, SaysTypes DEF Reports, SessionTypes
  <2> QED  BY <1>7, <2>4, <2>5 DEF Reports, SessionTypes
<1> QED  BY <1>1, <1>2, <1>3, <1>4, <1>5, <1>6, <1>7

LEMMA InitTypes == SessionInit => SessionTypes
<1> SUFFICES ASSUME SessionInit PROVE SessionTypes
  OBVIOUS
<1>1. conn \in Connections
  BY DEF SessionInit, Connections, Steps, States
<1>2. target \in Targets
  BY EmptySeq DEF SessionInit, Targets
<1>3. watch \in [on : BOOLEAN, saw : BOOLEAN, told : Seq(BOOLEAN)]
  BY EmptySeq DEF SessionInit
<1> QED  BY <1>1, <1>2, <1>3, EmptySeq DEF SessionInit, SessionTypes

LEMMA TypesStep == SessionTypes /\ [SessionNext]_sessionVars => SessionTypes'
<1> SUFFICES ASSUME SessionTypes, [SessionNext]_sessionVars PROVE SessionTypes'
  OBVIOUS
<1>1. CASE UNCHANGED sessionVars
  BY <1>1 DEF sessionVars, SessionTypes
<1> QED  BY <1>1, TypesOfKernel, TypesOfFrames, TypesOfAttaching, TypesOfTheSession DEF SessionNext

-----------------------------------------------------------------------------
(* The size, the exit and the last screen.                                   *)
Fate == KernelGone /\ Sizes /\ Question /\ Watching /\ Painted

LEMMA PostOne ==
  ASSUME SessionTypes, NEW m \in Messages, Post(<<m>>)
  PROVE  /\ ~kernelUp => queue' = queue
         /\ \A x : Has(queue', x) <=> Has(queue, x) \/ (kernelUp /\ x = m)
         /\ Undone(queue) /\ m # "attach" => Undone(queue')
         /\ kernelUp /\ m = "detach" => Undone(queue')
         /\ OneQuery(queue) /\ (m # "query" \/ ~Has(queue, "query")) => OneQuery(queue')
         /\ WatchFirst(queue) => WatchFirst(queue')
         /\ kernelUp /\ Has(queue, "watch") /\ m = "query" => WatchFirst(queue')
<1>1. queue \in Seq(Messages)
  BY DEF SessionTypes
<1>2. queue' = IF kernelUp THEN Append(queue, m) ELSE queue
  <2>1. queue \o <<m>> = Append(queue, m)
    BY <1>1, Appended
  <2> QED  BY <2>1 DEF Post
<1> QED  BY <1>1, <1>2, QueueGrows

LEMMA SaysNoExit ==
  ASSUME SessionTypes, NEW f \in Written, NEW ok, NEW lost, Says(f, ok, lost), ~ReportsExit(f),
         \A i \in DOMAIN down : ~ReportsExit(down[i])
  PROVE  \A i \in DOMAIN down' : ~ReportsExit(down'[i])
<1>1. CASE down' = down
  BY <1>1
<1>2. CASE down' = Append(down, f)
  <2>1. /\ DOMAIN down = 1..Len(down) /\ DOMAIN down' = 1..(Len(down) + 1) /\ Len(down) \in Nat
        /\ \A k \in DOMAIN down : down'[k] = down[k]
        /\ down'[Len(down) + 1] = f
    BY <1>2, Appended DEF SessionTypes
  <2> QED  BY <2>1
<1> QED  BY <1>1, <1>2 DEF Says

LEMMA FateOfHandles ==
  ASSUME SessionTypes, Fate, Handles
  PROVE  Fate'
<1> DEFINE m == Head(queue)
<1>1. /\ kernelUp /\ kernelUp' /\ queue # <<>> /\ queue' = Tail(queue) /\ m \in Messages
      /\ down' = down /\ clientOpen' = clientOpen
  BY Popped DEF Handles, SessionTypes
<1>2. /\ \A x : Has(queue, x) <=> m = x \/ Has(queue', x)
      /\ Undone(queue) => Undone(queue') /\ (m = "attach" => Has(queue', "detach"))
      /\ OneQuery(queue) => OneQuery(queue') /\ ~(m = "query" /\ Has(queue', "query"))
      /\ WatchFirst(queue) => Has(queue', "query") /\ (m = "watch" \/ WatchFirst(queue'))
  <2>1. queue \in Seq(Messages) /\ queue # <<>> /\ queue' = Tail(queue)
    BY <1>1 DEF SessionTypes
  <2> QED  BY <2>1, QueueShrinks, Zenon
<1>3. /\ target'.there => target.there
      /\ target'.observed = target.observed /\ target'.wrote = target.wrote
      /\ target'.mail = (IF m \in Mail /\ target.there THEN Append(target.mail, m) ELSE target.mail)
      /\ m \in {"watch", "query"} => target'.active = target.active
      /\ target'.active \in BOOLEAN
  BY <1>1 DEF Handles, Deliver, SessionTypes, Targets, Messages, Mail
<1>4. conn' = (IF m = "query" THEN [conn EXCEPT !.reply = StateOf(target')] ELSE conn)
      /\ StateOf(target') \in {"gone", "active", "idle"} /\ (StateOf(target') = "active" => target'.active)
  <2>1. conn' = (IF m = "query" THEN [conn EXCEPT !.reply = StateOf(target')] ELSE conn)
    BY DEF Handles
  <2> QED  BY <2>1 DEF StateOf
<1>5. watch' = Looked(IF m = "watch" THEN [watch EXCEPT !.on = TRUE, !.saw = target'.active] ELSE watch, target')
  BY DEF Handles
<1>6. /\ watch'.on <=> watch.on \/ m = "watch"
      /\ watch'.on => watch'.saw = target'.active
      /\ \/ watch'.told = watch.told /\ (watch.on => watch'.saw = watch.saw)
         \/ watch.on /\ m \notin {"watch", "query"} /\ watch'.told = Append(watch.told, target'.active)
  BY <1>1, <1>3, <1>5 DEF Looked, SessionTypes, Fate, Watching
<1>7. KernelGone'
  BY <1>1 DEF KernelGone
<1>8. Sizes'
  <2>1. target.mail \in Seq(Mail)
    BY DEF SessionTypes, Targets
  <2>2. ASSUME m \in Mail, target.there
        PROVE  /\ \A x : Has(target'.mail, x) <=> Has(target.mail, x) \/ x = m
               /\ m = "detach" \/ (Undone(target.mail) /\ m # "attach") => Undone(target'.mail)
    BY <1>3, <2>1, <2>2, QueueGrows
  <2>3. m \notin Mail \/ ~target.there => target'.mail = target.mail
    BY <1>3
  <2>4. conn'.pc = conn.pc
    BY <1>4 DEF SessionTypes, Connections
  <2>5. Unattached => Unattached'
    BY <1>2, <1>3, <2>2, <2>3 DEF Unattached
  <2>6. Released /\ target'.there => Released'
    BY <1>2, <1>3, <2>2, <2>3 DEF Released, Mail
  <2> QED  BY <1>3, <2>4, <2>5, <2>6 DEF Fate, Sizes
<1>9. Question'
  BY <1>1, <1>2, <1>4 DEF Fate, Question, SessionTypes, Connections
<1>10. Watching'
  <2> USE DEF Fate, Watching
  <2>0. /\ conn'.pc = conn.pc /\ conn'.step = conn.step /\ conn'.until = conn.until /\ conn'.ended = conn.ended
        /\ conn'.reply = IF m = "query" THEN StateOf(target') ELSE conn.reply
    BY <1>4 DEF SessionTypes, Connections
  <2>1. (Unwatched => Unwatched') /\ (InSession' <=> InSession) /\ (Asked' <=> Asked)
    BY <1>2, <1>6, <2>0 DEF Unwatched, InSession, Asked, At
  <2>2. watch'.told # <<>> => watch'.told[Len(watch'.told)] = watch'.saw
    <3>1. CASE watch'.told = watch.told /\ (watch.on => watch'.saw = watch.saw)
      BY <3>1
    <3>2. CASE watch.on /\ watch'.told = Append(watch.told, target'.active)
      <4>1. watch.told \in Seq(BOOLEAN)
        BY DEF SessionTypes
      <4>2. watch'.told[Len(watch'.told)] = target'.active
        BY <1>3, <3>2, <4>1, Appended
      <4> QED  BY <1>6, <3>2, <4>2
    <3> QED  BY <1>6, <3>1, <3>2
  <2>3. watch'.told = <<>> => watch.told = <<>> /\ (watch.on => watch'.saw = watch.saw)
    <3>1. Append(watch.told, target'.active) # <<>>
      <4>1. watch.told \in Seq(BOOLEAN)
        BY DEF SessionTypes
      <4> QED  BY <1>3, <4>1, AppendProperties
    <3> QED  BY <1>6, <3>1
  <2>4. kernelUp /\ Asked /\ ~watch'.on => WatchFirst(queue')
    BY <1>2, <1>6
  <2>5. ASSUME watch'.on, watch'.told = <<>>, InSession /\ conn.until  PROVE watch'.saw
    BY <1>1, <2>3, <2>5
  <2>6. ASSUME watch'.on, watch'.told = <<>>, Asked, conn'.reply = "active"  PROVE watch'.saw
    <3>1. CASE m = "query"
      BY <1>4, <1>6, <2>0, <2>6, <3>1
    <3>2. CASE m # "query"
      <4>1. conn.reply = "active" /\ ~Has(queue, "query")
        BY <1>1, <2>0, <2>6, <3>2 DEF Question
      <4>2. watch.on
        BY <1>1, <1>2, <2>6, <4>1
      <4> QED  BY <1>1, <2>3, <2>6, <4>1, <4>2
    <3> QED  BY <3>1, <3>2
  <2>7. ~watch'.on => watch'.told = <<>>
    BY <1>6
  <2> QED  BY <1>1, <1>2, <1>6, <2>0, <2>1, <2>2, <2>4, <2>5, <2>6, <2>7
<1>11. Painted'
  BY <1>1, <1>3, <1>4 DEF Fate, Painted, SessionTypes, Connections
<1> QED  BY <1>7, <1>8, <1>9, <1>10, <1>11 DEF Fate

\* Posts what asks for nothing, or nothing.
Indifferent == {"stopped", "start", "remove", "quit", "input", "copy"}
PostsOther == queue' = queue \/ \E m \in Indifferent : Post(<<m>>)

LEMMA OtherPosted ==
  ASSUME SessionTypes, PostsOther
  PROVE  /\ ~kernelUp => queue' = queue
         /\ \A x \in {"attach", "query", "watch"} : Has(queue', x) <=> Has(queue, x)
         /\ Has(queue, "detach") => Has(queue', "detach")
         /\ Undone(queue) => Undone(queue')
         /\ OneQuery(queue) => OneQuery(queue')
         /\ WatchFirst(queue) => WatchFirst(queue')
<1>1. CASE queue' = queue
  BY <1>1
<1>2. ASSUME NEW m \in Indifferent, Post(<<m>>)
      PROVE  /\ ~kernelUp => queue' = queue
             /\ \A x \in {"attach", "query", "watch"} : Has(queue', x) <=> Has(queue, x)
             /\ Has(queue, "detach") => Has(queue', "detach")
             /\ Undone(queue) => Undone(queue')
             /\ OneQuery(queue) => OneQuery(queue')
             /\ WatchFirst(queue) => WatchFirst(queue')
  <2>1. m \in Messages /\ m \notin {"attach", "query", "watch"}
    BY DEF Indifferent, Messages
  <2> QED  BY <1>2, <2>1, PostOne
<1> QED  BY <1>1, <1>2 DEF PostsOther

LEMMA FateKept ==
  ASSUME SessionTypes, Fate, PostsOther, UNCHANGED <<conn, kernelUp, watch, down>>, clientOpen' \in {clientOpen, FALSE},
         target'.there = target.there, target'.active = target.active, target'.mail = target.mail,
         target'.observed => target.observed, target'.wrote \in Nat, target'.wrote >= target.wrote
  PROVE  Fate'
<1>1. KernelGone'
  BY OtherPosted DEF Fate, KernelGone
<1>2. Sizes'
  BY OtherPosted DEF Fate, Sizes, Unattached, Released
<1>3. Question'
  BY OtherPosted DEF Fate, Question
<1>4. Watching'
  BY OtherPosted DEF Fate, Watching, Unwatched, InSession, Asked, At
<1>5. Painted'
  <2>1. clientOpen' => clientOpen
    BY DEF SessionTypes
  <2>2. conn.atEnd <= target'.wrote
    BY DEF Fate, Painted, SessionTypes, Connections, Targets
  <2> QED  BY <2>1, <2>2 DEF Fate, Painted
<1> QED  BY <1>1, <1>2, <1>3, <1>4, <1>5 DEF Fate

LEMMA FateOfOthers ==
  ASSUME SessionTypes, Fate,
         \/ Writes \/ Stops \/ TaskEnds \/ OthersAct \/ Leaves
         \/ \E kind \in Kinds : ClientSends(kind)
  PROVE  Fate'
<1>1. PostsOther
  BY DEF PostsOther, Indifferent, Writes, Stops, TaskEnds, OthersAct, Leaves, ClientSends
<1>2. UNCHANGED <<conn, kernelUp, watch, down>> /\ clientOpen' \in {clientOpen, FALSE}
  <2>1. ASSUME Leaves PROVE UNCHANGED <<conn, kernelUp, watch, down>> /\ clientOpen' = FALSE
    BY <2>1 DEF Leaves
  <2>2. ASSUME ~Leaves PROVE UNCHANGED <<conn, kernelUp, watch, down, clientOpen>>
    BY <2>2 DEF Writes, Stops, TaskEnds, OthersAct, ClientSends
  <2> QED  BY <2>1, <2>2
<1>3. \/ \E n \in {target.wrote + 1} : target' = [target EXCEPT !.wrote = n]
      \/ target' = [target EXCEPT !.runs = FALSE]
      \/ target' = [target EXCEPT !.runs = FALSE, !.observed = FALSE]
      \/ target' = target
  <2>1. ASSUME Writes PROVE \E n \in {target.wrote + 1} : target' = [target EXCEPT !.wrote = n]
    BY <2>1, Zenon DEF Writes
  <2>2. ASSUME ~Writes
        PROVE  \/ target' = [target EXCEPT !.runs = FALSE]
               \/ target' = [target EXCEPT !.runs = FALSE, !.observed = FALSE]
               \/ target' = target
    BY <2>2 DEF Stops, TaskEnds, OthersAct, Leaves, ClientSends
  <2> QED  BY <2>1, <2>2
<1>4. /\ target'.there = target.there /\ target'.active = target.active /\ target'.mail = target.mail
      /\ target'.observed => target.observed
      /\ target'.wrote = target.wrote \/ target'.wrote \in {target.wrote + 1}
  <2> DEFINE more == {target.wrote + 1}
  <2>1. \/ \E n \in more : target' = [target EXCEPT !.wrote = n]
        \/ target' = [target EXCEPT !.runs = FALSE]
        \/ target' = [target EXCEPT !.runs = FALSE, !.observed = FALSE]
        \/ target' = target
    BY <1>3
  <2> HIDE DEF more
  <2>2. /\ target'.there = target.there /\ target'.active = target.active /\ target'.mail = target.mail
        /\ target'.observed => target.observed
        /\ target'.wrote = target.wrote \/ target'.wrote \in more
    BY <2>1 DEF SessionTypes, Targets
  <2> QED  BY <2>2 DEF more
<1>5. target.wrote \in Nat
  BY DEF SessionTypes, Targets
<1>6. target'.wrote \in Nat /\ target'.wrote >= target.wrote
  BY <1>4, <1>5
<1> QED  BY <1>1, <1>2, <1>4, <1>6, FateKept

LEMMA FateOfTheEnd ==
  ASSUME SessionTypes, Fate, KernelEnds
  PROVE  Fate'
<1>1. /\ ~kernelUp' /\ queue' = <<>> /\ ~target'.there /\ target'.observed = target.observed
      /\ target'.mail = target.mail /\ target'.wrote = target.wrote
      /\ UNCHANGED <<watch, down, clientOpen>>
      /\ conn' = [conn EXCEPT !.reply = IF conn.reply = "none" THEN "gone" ELSE @]
  BY DEF KernelEnds, SessionTypes, Targets, Connections
<1>2. KernelGone' /\ Sizes'
  BY <1>1, QueueEmpty DEF Fate, KernelGone, Sizes, Unattached, SessionTypes, Connections
<1>3. Question'
  BY <1>1, QueueEmpty DEF Fate, Question, SessionTypes, Connections
<1>4. Watching'
  BY <1>1, QueueEmpty DEF Fate, Watching, Unwatched, InSession, Asked, At, SessionTypes, Connections
<1>5. Painted'
  BY <1>1 DEF Fate, Painted, SessionTypes, Connections
<1> QED  BY <1>2, <1>3, <1>4, <1>5 DEF Fate

LEMMA FateOfMail ==
  ASSUME SessionTypes, Fate, HearsMail
  PROVE  Fate'
<1> DEFINE m == Head(target.mail)
<1>1. /\ target.mail \in Seq(Mail) /\ target.mail # <<>> /\ m \in Mail
      /\ UNCHANGED <<conn, kernelUp, watch, down, clientOpen, queue>>
  BY Popped DEF HearsMail, SessionTypes, Targets
<1>2. /\ target'.there = target.there /\ target'.active = target.active /\ target'.wrote = target.wrote
      /\ target'.observed = (m = "attach" \/ (m # "detach" /\ target.observed))
  BY <1>1 DEF HearsMail, SessionTypes, Targets, Mail
<1>3. target'.mail = Tail(target.mail)
  BY <1>1 DEF HearsMail, SessionTypes, Targets, Mail
<1>4. /\ \A x : Has(target.mail, x) <=> m = x \/ Has(target'.mail, x)
      /\ Undone(target.mail) => Undone(target'.mail) /\ (m = "attach" => Has(target'.mail, "detach"))
  BY <1>1, <1>3, QueueShrinks, Zenon
<1>5. Sizes'
  <2>1. Unattached => Unattached'
    BY <1>1, <1>2, <1>4 DEF Unattached
  <2>2. Released => Released'
    BY <1>1, <1>2, <1>4 DEF Released
  <2> QED  BY <1>1, <1>2, <2>1, <2>2 DEF Fate, Sizes
<1>6. KernelGone' /\ Question' /\ Watching' /\ Painted'
  BY <1>1, <1>2 DEF Fate, KernelGone, Question, Watching, Unwatched, InSession, Asked, At, Painted
<1> QED  BY <1>5, <1>6 DEF Fate

\* What the sender of a frame does next.
LEMMA SaysNext ==
  ASSUME NEW f, NEW ok, NEW lost, Says(f, ok, lost)
  PROVE  conn' = ok \/ (conn' = lost /\ ~clientOpen)
  BY DEF Says

LEMMA ReplyIsNoExit ==
  /\ \A id, ok : ~ReportsExit(Reply(id, ok))
  /\ ~ReportsExit([is |-> "hello"]) /\ \A n : ~ReportsExit([is |-> "out", shows |-> n])
  /\ \A code, state, screen : code # "task_exited" => ~ReportsExit(Bye(code, state, screen))
  BY DEF ReportsExit, Reply, Bye

\* The parts of a connection that requests do not touch.
SameFate(c) ==
  /\ c.reply = conn.reply /\ c.step = conn.step /\ c.ended = conn.ended /\ c.exited = conn.exited
  /\ c.atEnd = conn.atEnd /\ c.present = conn.present /\ c.drawn = conn.drawn
Early == {"hello", "serving", "flush", "drain"}

LEMMA EarlyFate ==
  ASSUME SessionTypes, Fate, UNCHANGED <<clientOpen, queue, kernelUp, watch, target>>,
         conn.pc \in Early, conn'.pc \in Early \cup {"closed"}, SameFate(conn'),
         \A i \in DOMAIN down' : ~ReportsExit(down'[i])
  PROVE  Fate'
<1>1. KernelGone'
  BY DEF Fate, KernelGone, SameFate
<1>2. Sizes'
  BY DEF Fate, Sizes, Unattached, Released, Early, Undone, Has
<1>3. Question'
  BY DEF Fate, Question, SameFate, Early
<1>4. Watching'
  BY DEF Fate, Watching, Unwatched, InSession, Asked, At, SameFate, Early
<1>5. Painted'
  BY DEF Fate, Painted, SameFate, Early
<1> QED  BY <1>1, <1>2, <1>3, <1>4, <1>5 DEF Fate

LEMMA FateOfFrames ==
  ASSUME SessionTypes, Fate, Greets \/ Serves \/ (\E id \in conn.replies : Answers(id)) \/ Drained
  PROVE  Fate'
<1> DEFINE Fine(c) == c.pc \in Early \cup {"closed"} /\ SameFate(c)
<1>1. /\ conn.pc \in Early /\ UNCHANGED <<clientOpen, queue, kernelUp, watch, target>>
      /\ \A i \in DOMAIN down : ~ReportsExit(down[i])
  BY DEF Greets, Serves, Answers, Drained, NoneElse, At, Early, Fate, Painted
<1>2. /\ Fine(conn) /\ Fine(Closed(conn))
      /\ \A pc \in Early : Fine(Goto(conn, pc))
      /\ \A r : Fine([conn EXCEPT !.replies = r])
      /\ \A r : Fine([conn EXCEPT !.calls = r])
      /\ \A r, c : Fine([conn EXCEPT !.replies = r, !.calls = c])
      /\ \A id, b : Fine([Goto(conn, "flush") EXCEPT !.id = id, !.until = b])
  BY <1>1 DEF Closed, Goto, SameFate, Early, SessionTypes, Connections
<1> HIDE DEF Fine
<1>3. ASSUME NEW f \in Written, ~ReportsExit(f), NEW ok, Fine(ok), Says(f, ok, Closed(conn))
      PROVE  Fine(conn') /\ \A i \in DOMAIN down' : ~ReportsExit(down'[i])
  <2>1. conn' = ok \/ conn' = Closed(conn)
    BY <1>3, SaysNext
  <2>2. \A i \in DOMAIN down' : ~ReportsExit(down'[i])
    BY <1>1, <1>3, SaysNoExit
  <2> QED  BY <1>2, <1>3, <2>1, <2>2
<1>4. /\ \A id \in Nat, ok \in BOOLEAN : Reply(id, ok) \in Written /\ ~ReportsExit(Reply(id, ok))
      /\ [is |-> "hello"] \in Written /\ ~ReportsExit([is |-> "hello"])
      /\ Bye("unsupported_protocol", "none", 0) \in Written
      /\ ~ReportsExit(Bye("unsupported_protocol", "none", 0))
  <2>1. Bye("unsupported_protocol", "none", 0) \in Written
    BY WrittenTypes DEF Codes, States
  <2> QED  BY <2>1, WrittenTypes, ReplyIsNoExit
<1>5. Fine(conn') /\ \A i \in DOMAIN down' : ~ReportsExit(down'[i])
  <2>1. CASE Greets
    <3>1. \/ Says([is |-> "hello"], Goto(conn, "serving"), Closed(conn))
          \/ Says(Bye("unsupported_protocol", "none", 0), Closed(conn), Closed(conn))
          \/ conn' = Closed(conn) /\ down' = down
      BY <2>1 DEF Greets
    <3> QED  BY <1>1, <1>2, <1>3, <1>4, <3>1 DEF Early
  <2>2. CASE Serves
    <3>1. PICK f \in Incoming :
            \/ conn' = [conn EXCEPT !.replies = @ \cup {f.id}, !.calls = @ \cup {f.id}] /\ down' = down
            \/ Says(Reply(f.id, FALSE), [conn EXCEPT !.calls = @ \cup {f.id}], Closed(conn))
            \/ conn' = [Goto(conn, "flush") EXCEPT !.id = f.id, !.until = (f.is = "run")] /\ down' = down
            \/ conn' = Goto(conn, "drain") /\ down' = down
            \/ conn' = conn /\ down' = down
      BY <2>2 DEF Serves
    <3>2. f.id \in Nat
      BY IncomingIs DEF SessionTypes
    <3>3. CASE Says(Reply(f.id, FALSE), [conn EXCEPT !.calls = @ \cup {f.id}], Closed(conn))
      BY <1>2, <1>3, <1>4, <3>2, <3>3
    <3>4. CASE ~Says(Reply(f.id, FALSE), [conn EXCEPT !.calls = @ \cup {f.id}], Closed(conn))
      <4>1. down' = down
        BY <3>1, <3>4
      <4>2. Fine(conn')
        <5>1. Fine([conn EXCEPT !.replies = @ \cup {f.id}, !.calls = @ \cup {f.id}])
          BY <1>2
        <5>2. Fine([Goto(conn, "flush") EXCEPT !.id = f.id, !.until = (f.is = "run")])
          BY <1>2
        <5>3. Fine(Goto(conn, "drain")) /\ Fine(conn)
          BY <1>2 DEF Early
        <5> QED  BY <3>1, <3>4, <5>1, <5>2, <5>3
      <4> QED  BY <1>1, <4>1, <4>2
    <3> QED  BY <3>3, <3>4
  <2>3. ASSUME NEW id \in conn.replies, Answers(id)
        PROVE  Fine(conn') /\ \A i \in DOMAIN down' : ~ReportsExit(down'[i])
    <3>1. id \in Nat
      BY DEF SessionTypes, Connections
    <3> QED  BY <1>1, <1>2, <1>3, <1>4, <2>3, <3>1 DEF Answers
  <2>4. CASE Drained
    BY <1>1, <1>2, <2>4 DEF Drained
  <2> QED  BY <2>1, <2>2, <2>3, <2>4
<1> QED  BY <1>1, <1>5, EarlyFate DEF Fine

\* All but the place of a connection and its answer stay.
Moved(pc, reply) ==
  /\ conn'.pc = pc /\ conn'.reply = reply /\ conn'.step = conn.step /\ conn'.until = conn.until
  /\ conn'.ended = conn.ended /\ conn'.exited = conn.exited /\ conn'.atEnd = conn.atEnd
  /\ conn'.present = conn.present /\ conn'.drawn = conn.drawn

LEMMA FateOfResolves ==
  ASSUME SessionTypes, Fate, Resolves
  PROVE  Fate'
<1>1. /\ conn.pc = "flush" /\ Moved("resolve", IF kernelUp THEN "none" ELSE "gone")
      /\ UNCHANGED <<kernelUp, watch, target, clientOpen, down>>
  BY DEF Resolves, At, Asking, Goto, Moved, SessionTypes, Connections
<1>2. /\ ~kernelUp => queue' = queue
      /\ \A x : Has(queue', x) <=> Has(queue, x) \/ (kernelUp /\ x = "query")
      /\ OneQuery(queue) /\ ~Has(queue, "query") => OneQuery(queue')
  BY PostOne DEF Resolves, Messages
<1>3. KernelGone' /\ Sizes'
  BY <1>1, <1>2 DEF Moved, Fate, KernelGone, Sizes, Unattached
<1>4. Question'
  BY <1>1, <1>2, QueueEmpty DEF Moved, Fate, Question, KernelGone
<1>5. Watching'
  BY <1>1, <1>2 DEF Moved, Fate, Watching, Unwatched, InSession, Asked, At
<1>6. Painted'
  BY <1>1 DEF Moved, Fate, Painted
<1> QED  BY <1>3, <1>4, <1>5, <1>6 DEF Fate

LEMMA FateOfResolved ==
  ASSUME SessionTypes, Fate, Resolved
  PROVE  Fate'
<1>1. conn.pc = "resolve" /\ conn.reply # "none" /\ UNCHANGED <<kernelUp, watch, target, clientOpen>>
      /\ \A i \in DOMAIN down : ~ReportsExit(down[i])
  BY DEF Resolved, At, Fate, Painted
<1>2. CASE conn.reply = "gone"
  <2>1. Moved("closed", conn.reply) /\ queue' = queue
    <3>1. conn' = Closed(conn) /\ queue' = queue
      BY <1>2, SaysNext DEF Resolved
    <3> QED  BY <3>1 DEF Closed, Goto, Moved, SessionTypes, Connections
  <2>2. \A i \in DOMAIN down' : ~ReportsExit(down'[i])
    <3>1. Reply(conn.id, FALSE) \in Written
      BY WrittenTypes DEF SessionTypes, Connections
    <3> QED  BY <1>1, <1>2, <3>1, SaysNoExit, ReplyIsNoExit DEF Resolved
  <2>3. Unattached => Released'
    BY <1>1, <2>1 DEF Unattached, Released, Undone, Has
  <2>4. KernelGone' /\ Sizes' /\ Question'
    BY <1>1, <2>1, <2>3 DEF Moved, Fate, KernelGone, Sizes, Question
  <2>5. Watching'
    BY <1>1, <2>1 DEF Moved, Fate, Watching, Unwatched, InSession, Asked, At
  <2>6. Painted'
    BY <1>1, <2>1, <2>2 DEF Moved, Fate, Painted
  <2> QED  BY <2>4, <2>5, <2>6 DEF Fate
<1>3. CASE conn.reply # "gone"
  <2>1. Moved("confirm", conn.reply) /\ down' = down
    BY <1>3 DEF Resolved, Goto, Moved, SessionTypes, Connections
  <2>2. /\ ~kernelUp => queue' = queue
        /\ \A x \in {"query", "watch"} : Has(queue', x) <=> Has(queue, x)
        /\ OneQuery(queue) => OneQuery(queue')
    BY <1>3, PostOne DEF Resolved, Messages
  <2>3. KernelGone' /\ Sizes' /\ Question'
    BY <1>1, <2>1, <2>2 DEF Moved, Fate, KernelGone, Sizes, Question
  <2>4. Watching'
    BY <1>1, <2>1, <2>2 DEF Moved, Fate, Watching, Unwatched, InSession, Asked, At
  <2>5. Painted'
    BY <1>1, <2>1 DEF Moved, Fate, Painted
  <2> QED  BY <2>3, <2>4, <2>5 DEF Fate
<1> QED  BY <1>2, <1>3

LEMMA FateOfConfirms ==
  ASSUME SessionTypes, Fate, Confirms
  PROVE  Fate'
<1>1. conn.pc = "confirm" /\ UNCHANGED <<kernelUp, watch, target, clientOpen, queue>>
      /\ \A i \in DOMAIN down : ~ReportsExit(down[i])
  BY DEF Confirms, NoneElse, At, Fate, Painted
<1>2. /\ \/ Moved("detach", conn.reply)
         \/ conn.until /\ Moved("until", conn.reply)
         \/ ~conn.until /\ Moved("session", conn.reply)
  <2> DEFINE ok == [conn EXCEPT !.confirmed = TRUE, !.pc = IF conn.until THEN "until" ELSE "session"]
  <2>1. conn' = ok \/ conn' = Goto(conn, "detach")
    BY SaysNext DEF Confirms
  <2> QED  BY <2>1 DEF Goto, Moved, SessionTypes, Connections
<1>3. \A i \in DOMAIN down' : ~ReportsExit(down'[i])
  <2>1. Reply(conn.id, TRUE) \in Written
    BY WrittenTypes DEF SessionTypes, Connections
  <2> QED  BY <1>1, <2>1, SaysNoExit, ReplyIsNoExit DEF Confirms
<1>4. KernelGone' /\ Sizes' /\ Question'
  BY <1>1, <1>2 DEF Moved, Fate, KernelGone, Sizes, Question
<1>5. Watching'
  BY <1>1, <1>2 DEF Moved, Fate, Watching, Unwatched, InSession, Asked, At
<1>6. Painted'
  BY <1>1, <1>2, <1>3 DEF Moved, Fate, Painted
<1> QED  BY <1>4, <1>5, <1>6 DEF Fate

LEMMA FateOfStepsUntil ==
  ASSUME SessionTypes, Fate, StepsUntil
  PROVE  Fate'
<1> DEFINE m == UntilSteps[conn.step]
<1>1. /\ conn.pc = "until" /\ conn.reply # "none" /\ Post(<<m>>)
      /\ (conn.step = 1 /\ m = "watch") \/ (conn.step = 2 /\ m = "query")
      /\ UNCHANGED <<kernelUp, watch, target, clientOpen, down>>
  <2>1. conn.pc = "until" /\ conn.step <= 2 /\ conn.reply # "none" /\ Post(<<m>>)
    BY DEF StepsUntil, At
  <2>2. conn.step \in 1..3
    BY DEF SessionTypes, Connections
  <2>3. conn.step = 1 \/ conn.step = 2
    BY <2>1, <2>2
  <2>4. UntilSteps[1] = "watch" /\ UntilSteps[2] = "query"
    BY DEF UntilSteps
  <2>5. UNCHANGED <<kernelUp, watch, target, clientOpen, down>>
    BY DEF StepsUntil
  <2> QED  BY <2>1, <2>3, <2>4, <2>5
<1>2. /\ conn'.pc = "until" /\ conn'.step = conn.step + 1 /\ conn'.until = conn.until
      /\ conn'.reply = IF m = "query" THEN (IF kernelUp THEN "none" ELSE "gone") ELSE conn.reply
      /\ conn'.ended = conn.ended /\ conn'.exited = conn.exited /\ conn'.atEnd = conn.atEnd
      /\ conn'.present = conn.present /\ conn'.drawn = conn.drawn
  BY <1>1 DEF StepsUntil, Asking, SessionTypes, Connections
<1>3. m \in Messages /\ m \in {"watch", "query"}
  BY <1>1 DEF Messages
<1> HIDE DEF m
<1>4. /\ ~kernelUp => queue' = queue
      /\ \A x : Has(queue', x) <=> Has(queue, x) \/ (kernelUp /\ x = m)
      /\ OneQuery(queue) /\ (m # "query" \/ ~Has(queue, "query")) => OneQuery(queue')
      /\ kernelUp /\ Has(queue, "watch") /\ m = "query" => WatchFirst(queue')
  BY <1>1, <1>3, PostOne
<1>5. KernelGone' /\ Sizes'
  BY <1>1, <1>2, <1>3, <1>4 DEF Fate, KernelGone, Sizes
<1>6. Question'
  BY <1>1, <1>2, <1>3, <1>4, QueueEmpty DEF Fate, Question, KernelGone
<1>7. Watching'
  <2>1. (conn'.step = 2 /\ m = "watch") \/ (conn'.step = 3 /\ m = "query")
    BY <1>1, <1>2
  <2> QED  BY <1>1, <1>2, <1>4, <2>1 DEF Fate, Watching, Unwatched, InSession, Asked, At
<1>8. Painted'
  BY <1>1, <1>2 DEF Fate, Painted
<1> QED  BY <1>5, <1>6, <1>7, <1>8 DEF Fate

LEMMA FateOfLearns ==
  ASSUME SessionTypes, Fate, Learns
  PROVE  Fate'
<1>1. /\ conn.pc = "until" /\ conn.step = 3 /\ conn.reply # "none"
      /\ conn'.pc = "session" /\ conn'.ended = (conn.reply # "active") /\ conn'.atEnd = target.wrote
      /\ conn'.step = 3 /\ conn'.until = conn.until /\ conn'.reply = conn.reply /\ conn'.exited = conn.exited
      /\ UNCHANGED <<kernelUp, watch, target, clientOpen, down, queue>>
  BY DEF Learns, NoneElse, At, Goto, SessionTypes, Connections
<1>2. KernelGone' /\ Sizes' /\ Question'
  BY <1>1 DEF Fate, KernelGone, Sizes, Question
<1>3. Watching'
  <2>1. kernelUp => watch.on
    <3>1. kernelUp => ~Has(queue, "query")
      BY <1>1 DEF Fate, Question
    <3>2. WatchFirst(queue) => Has(queue, "query")
      BY DEF WatchFirst, Has
    <3> QED  BY <1>1, <3>1, <3>2 DEF Fate, Watching, Asked
  <2> QED  BY <1>1, <2>1 DEF Fate, Watching, Unwatched, InSession, Asked, At
<1>4. Painted'
  <2>1. target.wrote <= target.wrote
    BY DEF SessionTypes, Targets
  <2> QED  BY <1>1, <2>1 DEF Fate, Painted
<1> QED  BY <1>2, <1>3, <1>4 DEF Fate

LEMMA PaintsNext ==
  ASSUME SessionTypes, NEW c \in Connections, NEW lost, Paints(c, lost),
         \A i \in DOMAIN down : ~ReportsExit(down[i])
  PROVE  /\ \/ conn' = [c EXCEPT !.drawn = Picture(c)]
            \/ conn' = lost /\ ~clientOpen
         /\ \A i \in DOMAIN down' : ~ReportsExit(down'[i])
<1>1. Picture(c) \in Int
  BY DEF Picture, SessionTypes, Targets
<1>2. CASE Picture(c) = c.drawn
  <2>1. c = [c EXCEPT !.drawn = Picture(c)]
    BY <1>2 DEF Connections
  <2> QED  BY <1>2, <2>1 DEF Paints
<1>3. CASE Picture(c) # c.drawn
  <2>1. Says([is |-> "out", shows |-> Picture(c)], [c EXCEPT !.drawn = Picture(c)], lost)
    BY <1>3 DEF Paints
  <2>2. [is |-> "out", shows |-> Picture(c)] \in Written
    BY <1>1 DEF Written
  <2>3. conn' = [c EXCEPT !.drawn = Picture(c)] \/ (conn' = lost /\ ~clientOpen)
    BY <2>1, SaysNext
  <2>4. \A i \in DOMAIN down' : ~ReportsExit(down'[i])
    BY <2>1, <2>2, SaysNoExit, ReplyIsNoExit
  <2> QED  BY <2>3, <2>4
<1> QED  BY <1>2, <1>3

\* A step of a session that goes on, or that ends without an exit.
LEMMA FateInSession ==
  ASSUME SessionTypes, Fate, conn.pc = "session", PostsOther, UNCHANGED <<kernelUp, target, watch, clientOpen>>,
         conn'.step = conn.step, conn'.until = conn.until, conn'.reply = conn.reply, conn'.exited = FALSE,
         conn'.ended = conn.ended, conn'.atEnd = conn.atEnd, conn'.pc \in {"session", "detach"},
         \A i \in DOMAIN down' : ~ReportsExit(down'[i])
  PROVE  Fate'
<1>1. KernelGone' /\ Sizes' /\ Question'
  BY OtherPosted DEF Fate, KernelGone, Sizes, Question
<1>2. Watching'
  BY OtherPosted DEF Fate, Watching, Unwatched, InSession, Asked, At
<1>3. Painted'
  BY DEF Fate, Painted
<1> QED  BY <1>1, <1>2, <1>3 DEF Fate

LEMMA FateOfTheSession ==
  ASSUME SessionTypes, Fate, HearsNotes \/ ScreenGone \/ WatchGone \/ HearsClient
  PROVE  Fate'
<1>1. /\ conn \in Connections /\ conn.pc = "session" /\ UNCHANGED <<kernelUp, target, watch, clientOpen>>
      /\ \A i \in DOMAIN down : ~ReportsExit(down[i])
      /\ conn.exited = FALSE
  BY DEF HearsNotes, ScreenGone, WatchGone, HearsClient, NoneElse, InSession, At, Fate, Painted,
         SessionTypes, Connections
<1> DEFINE Fine(x) ==
      /\ x.step = conn.step /\ x.until = conn.until /\ x.reply = conn.reply /\ x.exited = FALSE
      /\ x.ended = conn.ended /\ x.atEnd = conn.atEnd /\ x.pc \in {"session", "detach"}
<1>2. /\ Fine(conn) /\ Fine(Over(conn, "closed"))
      /\ \A b, n : /\ Fine([conn EXCEPT !.drawn = n])
                  /\ Fine([[conn EXCEPT !.present = b] EXCEPT !.drawn = n])
                  /\ Fine(Over([conn EXCEPT !.present = b], "closed"))
  BY <1>1 DEF Over, Goto, Connections
<1> HIDE DEF Fine
<1>3. CASE HearsNotes
  <2>1. PICK x \in Connections : /\ x = conn \/ \E b : x = [conn EXCEPT !.present = b]
                                /\ Paints(x, Over(x, "closed"))
    <3> DEFINE shown == SelectSeq(news, LAMBDA n : n # "render")
               c == IF shown = <<>> THEN conn ELSE [conn EXCEPT !.present = (Last(shown) = "copy")]
    <3>1. c \in Connections
      BY <1>1 DEF Connections
    <3>2. Paints(c, Over(c, "closed"))
      BY <1>3 DEF HearsNotes
    <3>3. c = conn \/ \E b : c = [conn EXCEPT !.present = b]
      OBVIOUS
    <3> HIDE DEF c
    <3> QED  BY <3>1, <3>2, <3>3
  <2>2. /\ conn' = [x EXCEPT !.drawn = Picture(x)] \/ conn' = Over(x, "closed")
        /\ \A i \in DOMAIN down' : ~ReportsExit(down'[i])
    BY <1>1, <2>1, PaintsNext
  <2>3. Fine(conn') /\ PostsOther
    <3>1. PostsOther
      BY <1>3 DEF HearsNotes, PostsOther
    <3>2. CASE x = conn
      BY <1>2, <2>2, <3>1, <3>2
    <3>3. ASSUME NEW b, x = [conn EXCEPT !.present = b]  PROVE Fine(conn')
      <4>1. CASE conn' = [x EXCEPT !.drawn = Picture(x)]
        <5>1. \A n : Fine([x EXCEPT !.drawn = n])
          BY <1>2, <3>3
        <5> QED  BY <4>1, <5>1
      <4>2. CASE conn' = Over(x, "closed")
        <5>1. Fine(Over(x, "closed"))
          BY <1>2, <3>3
        <5> QED  BY <4>2, <5>1
      <4> QED  BY <2>2, <4>1, <4>2
    <3> QED  BY <2>1, <3>1, <3>2, <3>3
  <2> QED  BY <1>1, <2>2, <2>3, FateInSession DEF Fine
<1>4. CASE ScreenGone \/ WatchGone
  <2>1. conn' = Over(conn, "closed") /\ down' = down /\ PostsOther
    BY <1>4 DEF ScreenGone, WatchGone, NoneElse, PostsOther
  <2> QED  BY <1>1, <1>2, <2>1, FateInSession DEF Fine
<1>5. CASE HearsClient
  <2>1. /\ conn' = Over(conn, "closed") \/ conn' = conn
        /\ down' = down /\ PostsOther
    BY <1>5 DEF HearsClient, PostsOther, Indifferent
  <2> QED  BY <1>1, <1>2, <2>1, FateInSession DEF Fine
<1> QED  BY <1>3, <1>4, <1>5

LEMMA FateOfHearsWatch ==
  ASSUME SessionTypes, Fate, HearsWatch
  PROVE  Fate'
<1>1. /\ conn.pc = "session" /\ ~conn.ended /\ watch.on /\ watch.told # <<>>
      /\ watch.told \in Seq(BOOLEAN)
      /\ UNCHANGED <<down, clientOpen, queue, kernelUp, target>>
  BY DEF HearsWatch, InSession, At, SessionTypes
<1>2. /\ watch'.on /\ watch'.saw = watch.saw /\ watch'.told = Tail(watch.told)
  BY <1>1 DEF HearsWatch, SessionTypes
<1>3. /\ conn'.pc = "session" /\ conn'.step = conn.step /\ conn'.until = conn.until
      /\ conn'.reply = conn.reply /\ conn'.exited = conn.exited
      /\ conn'.ended = ~Head(watch.told) /\ conn'.atEnd \in {conn.atEnd, target.wrote}
  <2>1. Head(watch.told) \in BOOLEAN
    BY <1>1, Popped
  <2> QED  BY <1>1, <2>1 DEF HearsWatch, SessionTypes, Connections
<1>4. /\ watch'.told # <<>> => watch'.told[Len(watch'.told)] = watch.saw
      /\ watch'.told = <<>> /\ Head(watch.told) => watch.saw
  <2> DEFINE t == Tail(watch.told)
             n == Len(watch.told)
  <2>1. /\ t \in Seq(BOOLEAN) /\ n \in Nat \ {0} /\ DOMAIN t = 1..(n - 1) /\ Head(watch.told) = watch.told[1]
        /\ \A k \in 1..(n - 1) : t[k] = watch.told[k + 1]
    BY <1>1, Popped
  <2>2. Len(t) = n - 1
    BY <1>1, HeadTailProperties
  <2>3. watch.told[n] = watch.saw
    BY <1>1 DEF Fate, Watching
  <2> HIDE DEF t, n
  <2>4. ASSUME t # <<>>  PROVE t[Len(t)] = watch.saw
    <3>1. n - 1 \in 1..(n - 1)
      <4>1. Len(t) # 0
        BY <2>1, <2>4, EmptySeq
      <4> QED  BY <2>1, <2>2, <4>1
    <3>2. (n - 1) + 1 = n
      BY <2>1
    <3> QED  BY <2>1, <2>2, <2>3, <3>1, <3>2
  <2>5. ASSUME t = <<>>, Head(watch.told)  PROVE watch.saw
    <3>1. Len(t) = 0
      BY <2>5
    <3>2. n = 1
      BY <2>1, <2>2, <3>1
    <3> QED  BY <2>1, <2>3, <2>5, <3>2
  <2> QED  BY <1>2, <2>4, <2>5 DEF t
<1>5. KernelGone' /\ Sizes' /\ Question'
  BY <1>1, <1>3 DEF Fate, KernelGone, Sizes, Question
<1>6. Watching'
  BY <1>1, <1>2, <1>3, <1>4 DEF Fate, Watching, Unwatched, InSession, Asked, At
<1>7. Painted'
  <2>1. target.wrote <= target.wrote
    BY DEF SessionTypes, Targets
  <2> QED  BY <1>1, <1>3, <2>1 DEF Fate, Painted
<1> QED  BY <1>5, <1>6, <1>7 DEF Fate

LEMMA FateOfSessionEnds ==
  ASSUME SessionTypes, Fate, SessionEnds
  PROVE  Fate'
<1>1. /\ conn \in Connections /\ conn.pc = "session"
      /\ UNCHANGED <<clientOpen, queue, kernelUp, target, watch>>
      /\ \A i \in DOMAIN down : ~ReportsExit(down[i])
  BY DEF SessionEnds, NoneElse, At, Fate, Painted, SessionTypes
<1> DEFINE over == Over(conn, "exited")
<1>2. /\ over \in Connections /\ over = [conn EXCEPT !.pc = "detach", !.exited = TRUE]
  BY <1>1, ConnectionTypes DEF Over, Goto, Connections
<1>3. Paints(over, over)
  BY DEF SessionEnds, LastPaint
<1> HIDE DEF over
<1>4. /\ conn' = [over EXCEPT !.drawn = Picture(over)] \/ (conn' = over /\ ~clientOpen)
      /\ \A i \in DOMAIN down' : ~ReportsExit(down'[i])
  BY <1>1, <1>2, <1>3, PaintsNext
<1>5. /\ conn'.pc = "detach" /\ conn'.exited /\ conn'.step = conn.step /\ conn'.until = conn.until
      /\ conn'.reply = conn.reply /\ conn'.ended = conn.ended /\ conn'.atEnd = conn.atEnd
      /\ conn'.present = conn.present /\ (conn'.drawn = Picture(over) \/ ~clientOpen)
  BY <1>1, <1>2, <1>4 DEF Connections
<1>6. conn'.drawn = target.wrote \/ ~clientOpen \/ conn'.present
  BY <1>2, <1>5, <1>1 DEF Picture, Connections
<1>7. KernelGone' /\ Sizes' /\ Question'
  BY <1>1, <1>5 DEF Fate, KernelGone, Sizes, Question
<1>8. Watching'
  BY <1>1, <1>5 DEF Fate, Watching, Unwatched, InSession, Asked, At
<1>9. Painted'
  <2>1. target.wrote >= conn.atEnd
    BY <1>1 DEF Fate, Painted, SessionTypes, Targets, Connections
  <2> QED  BY <1>1, <1>4, <1>5, <1>6, <2>1 DEF Fate, Painted
<1> QED  BY <1>7, <1>8, <1>9 DEF Fate

LEMMA PostFarewell ==
  ASSUME SessionTypes, Post(<<"detach">> \o <<"query">>)
  PROVE  /\ ~kernelUp => queue' = queue
         /\ \A x : Has(queue', x) <=> Has(queue, x) \/ (kernelUp /\ x \in {"detach", "query"})
         /\ kernelUp => Undone(queue')
         /\ OneQuery(queue) /\ ~Has(queue, "query") => OneQuery(queue')
<1> DEFINE q == Append(queue, "detach")
<1>1. queue \in Seq(Messages) /\ "detach" \in Messages /\ "query" \in Messages
  BY DEF SessionTypes, Messages
<1>2. q \in Seq(Messages)
  BY <1>1, Appended
<1>3. queue' = IF kernelUp THEN Append(q, "query") ELSE queue
  <2>1. queue \o (<<"detach">> \o <<"query">>) = Append(q, "query")
    BY <1>1
  <2> QED  BY <2>1 DEF Post
<1>4. /\ \A x : Has(q, x) <=> Has(queue, x) \/ x = "detach"
      /\ Undone(q) /\ (OneQuery(queue) => OneQuery(q))
  BY <1>1, QueueGrows
<1> HIDE DEF q
<1>5. /\ \A x : Has(Append(q, "query"), x) <=> Has(q, x) \/ x = "query"
      /\ Undone(q) => Undone(Append(q, "query"))
      /\ OneQuery(q) /\ ~Has(q, "query") => OneQuery(Append(q, "query"))
  BY <1>1, <1>2, QueueGrows
<1> QED  BY <1>3, <1>4, <1>5

LEMMA FateOfDetaches ==
  ASSUME SessionTypes, Fate, Detaches
  PROVE  Fate'
<1>1. conn.pc = "detach" /\ conn.reply # "none" /\ UNCHANGED <<kernelUp, watch, target, clientOpen>>
      /\ (\A i \in DOMAIN down : ~ReportsExit(down[i])) /\ (target.there => kernelUp)
  BY DEF Detaches, At, Fate, Painted, Question, KernelGone
<1>2. CASE conn.confirmed /\ conn.exited
  <2>1. Moved("final", IF kernelUp THEN "none" ELSE "gone") /\ down' = down
    BY <1>2 DEF Detaches, Asking, Goto, Moved, SessionTypes, Connections
  <2>2. Post(<<"detach">> \o <<"query">>)
    BY <1>2 DEF Detaches, Farewell
  <2>3. /\ ~kernelUp => queue' = queue
        /\ \A x : Has(queue', x) <=> Has(queue, x) \/ (kernelUp /\ x \in {"detach", "query"})
        /\ kernelUp => Undone(queue')
        /\ OneQuery(queue) /\ ~Has(queue, "query") => OneQuery(queue')
    BY <2>2, PostFarewell
  <2>4. KernelGone' /\ Sizes'
    BY <1>1, <2>1, <2>3 DEF Moved, Fate, KernelGone, Sizes, Released
  <2>5. Question'
    BY <1>1, <2>1, <2>3, QueueEmpty DEF Moved, Fate, Question, KernelGone
  <2>6. Watching'
    BY <1>1, <2>1, <2>3 DEF Moved, Fate, Watching, Unwatched, InSession, Asked, At
  <2>7. Painted'
    BY <1>1, <1>2, <2>1 DEF Moved, Fate, Painted
  <2> QED  BY <2>4, <2>5, <2>6, <2>7 DEF Fate
<1>3. CASE ~(conn.confirmed /\ conn.exited)
  <2>1. Moved("closed", conn.reply)
    <3>1. conn' = Closed(conn)
      BY <1>3, SaysNext DEF Detaches
    <3> QED  BY <3>1 DEF Closed, Goto, Moved, SessionTypes, Connections
  <2>2. /\ ~kernelUp => queue' = queue
        /\ \A x : Has(queue', x) <=> Has(queue, x) \/ (kernelUp /\ x = "detach")
        /\ kernelUp => Undone(queue')
        /\ OneQuery(queue) => OneQuery(queue')
    BY <1>3, PostOne DEF Detaches, Farewell, Messages
  <2>3. \A i \in DOMAIN down' : ~ReportsExit(down'[i])
    <3>1. CASE conn.confirmed
      <4>1. Says(Bye("quit", "none", 0), Closed(conn), Closed(conn))
        BY <1>3, <3>1 DEF Detaches
      <4>2. Bye("quit", "none", 0) \in Written /\ ~ReportsExit(Bye("quit", "none", 0))
        BY ReplyIsNoExit DEF Bye, Written, Codes, States
      <4> QED  BY <1>1, <4>1, <4>2, SaysNoExit
    <3>2. CASE ~conn.confirmed
      BY <1>1, <3>2 DEF Detaches
    <3> QED  BY <3>1, <3>2
  <2>4. KernelGone' /\ Sizes' /\ Question'
    BY <1>1, <2>1, <2>2 DEF Moved, Fate, KernelGone, Sizes, Question, Released
  <2>5. Watching'
    BY <1>1, <2>1, <2>2 DEF Moved, Fate, Watching, Unwatched, InSession, Asked, At
  <2>6. Painted'
    BY <1>1, <2>1, <2>3 DEF Moved, Fate, Painted
  <2> QED  BY <2>4, <2>5, <2>6 DEF Fate
<1> QED  BY <1>2, <1>3

LEMMA FateOfReports ==
  ASSUME SessionTypes, Fate, Reports
  PROVE  Fate'
<1>1. conn.pc = "final" /\ conn.reply # "none" /\ conn.exited /\ UNCHANGED <<kernelUp, watch, target, clientOpen>>
      /\ (\A i \in DOMAIN down : ~ReportsExit(down[i])) /\ PostsOther
  BY DEF Reports, At, Fate, Painted, PostsOther, Indifferent
<1>2. Moved("closed", conn.reply)
  <2>1. conn' = Closed(conn)
    BY SaysNext DEF Reports
  <2> QED  BY <2>1 DEF Closed, Goto, Moved, SessionTypes, Connections
<1>3. KernelGone' /\ Sizes' /\ Question'
  BY <1>1, <1>2, OtherPosted DEF Moved, Fate, KernelGone, Sizes, Released, Question
<1>4. Watching'
  BY <1>1, <1>2, OtherPosted DEF Moved, Fate, Watching, Unwatched, InSession, Asked, At
<1>5. Painted'
  <2> DEFINE bye == Bye("task_exited", conn.reply, target.wrote)
  <2>1. \A i \in DOMAIN down' : ReportsExit(down'[i]) => down'[i] = bye
    <3>1. down' = down \/ down' = Append(down, bye)
      BY DEF Reports, Says
    <3>2. bye \in Written
      BY DEF Bye, Written, Codes, SessionTypes, Connections, Targets
    <3> HIDE DEF bye
    <3>3. /\ DOMAIN down = 1..Len(down) /\ DOMAIN Append(down, bye) = 1..(Len(down) + 1) /\ Len(down) \in Nat
          /\ \A k \in DOMAIN down : Append(down, bye)[k] = down[k]
          /\ Append(down, bye)[Len(down) + 1] = bye
      BY <3>2, Appended DEF SessionTypes
    <3> QED  BY <1>1, <3>1, <3>3
  <2>2. bye.screen = target.wrote /\ conn.atEnd \in Nat /\ target.wrote \in Nat
    BY DEF Bye, SessionTypes, Connections, Targets
  <2>3. \A i \in DOMAIN down' : ReportsExit(down'[i]) => conn.exited /\ down'[i].screen >= conn.atEnd
    BY <1>1, <2>1, <2>2 DEF Fate, Painted
  <2> QED  BY <1>1, <1>2, <2>3 DEF Moved, Fate, Painted
<1> QED  BY <1>3, <1>4, <1>5 DEF Fate

LEMMA InitFate == SessionInit => Fate
<1> SUFFICES ASSUME SessionInit PROVE Fate
  OBVIOUS
<1>1. KernelGone /\ Sizes /\ Question
  BY QueueEmpty DEF SessionInit, KernelGone, Sizes, Unattached, Released, Question
<1>2. Watching /\ Painted
  BY QueueEmpty DEF SessionInit, Watching, Unwatched, InSession, Asked, At, Painted
<1> QED  BY <1>1, <1>2 DEF Fate

LEMMA FateStep == SessionTypes /\ Fate /\ [SessionNext]_sessionVars => Fate'
<1> SUFFICES ASSUME SessionTypes, Fate, [SessionNext]_sessionVars PROVE Fate'
  OBVIOUS
<1>1. CASE UNCHANGED sessionVars
  BY <1>1 DEF sessionVars, Fate, KernelGone, Sizes, Unattached, Released, Question, Watching, Unwatched,
              InSession, Asked, At, Painted
<1>2. CASE SessionNext
  BY <1>2, FateOfHandles, FateOfOthers, FateOfTheEnd, FateOfMail, FateOfFrames, FateOfResolves, FateOfResolved,
     FateOfConfirms, FateOfStepsUntil, FateOfLearns, FateOfTheSession, FateOfHearsWatch, FateOfSessionEnds,
     FateOfDetaches, FateOfReports DEF SessionNext
<1> QED  BY <1>1, <1>2

\* However a session ended (the runner's detachment, a client that went, a
\* refused attach), once the kernel has nothing more for it the screen of the
\* task no longer keeps the size it had for the session.
THEOREM SizesAreReleased == SessionSpec => []SizeReleased
<1>1. SessionTypes /\ Fate => SizeReleased
  BY QueueEmpty DEF Fate, Sizes, Released, SizeReleased, At, Undone, Has
<1> QED  BY <1>1, InitTypes, TypesStep, InitFate, FateStep, PTL DEF SessionSpec

\* A session until the exit does not miss the exit, whichever came first, its
\* watch or the end; and what was written before is painted and in the goodbye.
THEOREM ExitsAreReported == SessionSpec => []ExitReported
<1>1. ASSUME SessionTypes, Fate  PROVE ExitReported
  <2>1. InSession /\ conn.until /\ kernelUp /\ queue = <<>> /\ watch.told = <<>> => target.active
    BY <1>1 DEF Fate, Watching
  <2>2. ASSUME down # <<>>, Last(down).is = "bye", Last(down).code = "task_exited"
        PROVE  Last(down).screen >= conn.atEnd /\ conn.exited
    <3>1. Len(down) \in DOMAIN down /\ Last(down) = down[Len(down)]
      BY <1>1, <2>2, LenProperties, EmptySeq DEF SessionTypes, Last
    <3> QED  BY <1>1, <2>2, <3>1 DEF Fate, Painted, ReportsExit
  <2> QED  BY <1>1, <2>1, <2>2 DEF ExitReported, Fate, Painted
<1> QED  BY <1>1, InitTypes, TypesStep, InitFate, FateStep, PTL DEF SessionSpec

-----------------------------------------------------------------------------
(* The line: what was asked, and what is written to the client.              *)
Serving == {"serving", "flush", "drain"}
Late == {"until", "session", "detach", "final", "closed"}
\* Requests have numbers of their own, higher with each frame.
Numbers(u, s, c) ==
  /\ \A j, k \in DOMAIN u : j < k => u[j].id < u[k].id
  /\ \A k \in DOMAIN u : 0 < u[k].id /\ u[k].id <= s /\ c.id < u[k].id
  /\ \A k \in DOMAIN u, id \in c.calls : id < u[k].id
  /\ c.id \notin c.calls /\ 0 \notin c.calls /\ c.replies \subseteq c.calls
  /\ c.id <= s /\ \A id \in c.calls : id <= s
Replied(d, id) == {i \in DOMAIN d : d[i].is = "response" /\ d[i].id = id}
Start(d, c) == IF c.confirmed THEN Replied(d, c.id) ELSE {}
\* A call waits for its answer or has it; the answer to an attach is its
\* confirmation or its refusal.
Answering(d, c, open) ==
  /\ \A i \in DOMAIN d : d[i].is = "response" =>
       d[i].id \in c.calls \ c.replies \/ (d[i].id = c.id /\ c.pc \in Late)
  /\ \A i, j \in DOMAIN d : d[i].is = "response" /\ d[j].is = "response" /\ d[i].id = d[j].id => i = j
  /\ c.pc \notin Serving => c.replies = {}
  /\ c.pc # "closed" \/ open => \A id \in c.calls : id \in c.replies \/ Replied(d, id) # {}
Ordered(d, c) ==
  /\ c.confirmed => /\ c.pc \in Late /\ Replied(d, c.id) # {}
                    /\ \A id \in c.calls : Replied(d, id) # {}
  /\ c.pc \in {"until", "session"} => c.confirmed
  /\ \A i \in DOMAIN d : d[i].is = "out" => \E k \in Start(d, c) : k < i
  /\ \A k \in Start(d, c), i \in DOMAIN d : k < i => d[i].is \in {"out", "bye"}
  /\ \A i \in DOMAIN d : d[i].is = "bye" => c.pc = "closed" /\ i = Len(d)
LineOf(u, s, d, c, open) == Numbers(u, s, c) /\ Answering(d, c, open) /\ Ordered(d, c)
Line == LineOf(up, sent, down, conn, clientOpen)

\* A connection that moves on without a request or an answer.
Passes(c, e, open) ==
  /\ e.calls = c.calls /\ e.id = c.id /\ e.confirmed = c.confirmed
  /\ c.pc \in Late => e.pc \in Late
  /\ c.pc = "closed" => e.pc = "closed"
  /\ e.pc \in {"until", "session"} => c.confirmed
  /\ e.replies \subseteq c.replies
  /\ e.pc \notin Serving => e.replies = {}
  /\ c.replies = {} \/ e.replies = c.replies \/ (e.pc = "closed" /\ ~open)

LEMMA LinePasses ==
  ASSUME NEW u, NEW s, NEW d, NEW c, NEW e, NEW open \in BOOLEAN, NEW still \in BOOLEAN,
         still => open,
         LineOf(u, s, d, c, open), Passes(c, e, still)
  PROVE  LineOf(u, s, d, e, still)
<1>1. Numbers(u, s, e)
  BY DEF LineOf, Numbers, Passes
<1>2. Answering(d, e, still)
  BY DEF LineOf, Answering, Passes
<1>3. Ordered(d, e)
  BY DEF LineOf, Ordered, Start, Passes
<1> QED  BY <1>1, <1>2, <1>3 DEF LineOf

\* Where the answers are when a frame was written.
LEMMA RepliedGrows ==
  ASSUME NEW d \in Seq(Written), NEW f \in Written
  PROVE  LET n == Len(d) + 1
             g == Append(d, f)
         IN  /\ DOMAIN g = DOMAIN d \cup {n} /\ (\A i \in DOMAIN d : i < n /\ i \in Nat /\ g[i] = d[i])
             /\ n \in Nat /\ n \notin DOMAIN d /\ g[n] = f /\ Len(g) = n
             /\ \A id : Replied(g, id) = Replied(d, id) \cup {i \in {n} : f.is = "response" /\ f.id = id}
<1> DEFINE n == Len(d) + 1
           g == Append(d, f)
<1>1. /\ DOMAIN d = 1..Len(d) /\ DOMAIN g = 1..n /\ Len(d) \in Nat /\ Len(g) = n
      /\ (\A i \in DOMAIN d : g[i] = d[i]) /\ g[n] = f
  BY Appended
<1>2. /\ DOMAIN g = DOMAIN d \cup {n} /\ (\A i \in DOMAIN d : i < n /\ i \in Nat /\ g[i] = d[i])
      /\ n \in Nat /\ n \notin DOMAIN d /\ g[n] = f /\ Len(g) = n
  BY <1>1
<1> HIDE DEF n, g
<1>3. \A id : Replied(g, id) = Replied(d, id) \cup {i \in {n} : f.is = "response" /\ f.id = id}
  BY <1>2 DEF Replied
<1> QED  BY <1>2, <1>3 DEF n, g

\* A frame that answers nothing.
LEMMA LineTells ==
  ASSUME NEW u, NEW s, NEW d \in Seq(Written), NEW c, NEW e, NEW open \in BOOLEAN, NEW f \in Written,
         LineOf(u, s, d, c, open), Passes(c, e, open), c.pc # "closed",
         f.is # "response", f.is = "out" => c.confirmed, c.confirmed => f.is \in {"out", "bye"},
         f.is = "bye" => e.pc = "closed"
  PROVE  LineOf(u, s, Append(d, f), e, open)
<1> DEFINE n == Len(d) + 1
           g == Append(d, f)
<1>1. /\ DOMAIN g = DOMAIN d \cup {n} /\ (\A i \in DOMAIN d : i < n /\ i \in Nat /\ g[i] = d[i])
      /\ n \in Nat /\ n \notin DOMAIN d /\ g[n] = f /\ Len(g) = n
      /\ \A id : Replied(g, id) = Replied(d, id) \cup {i \in {n} : f.is = "response" /\ f.id = id}
  BY RepliedGrows
<1> HIDE DEF n, g
<1>0. \A id : Replied(g, id) = Replied(d, id)
  <2>1. TAKE id
  <2>2. {i \in {n} : f.is = "response" /\ f.id = id} = {}
    OBVIOUS
  <2>3. Replied(g, id) = Replied(d, id) \cup {i \in {n} : f.is = "response" /\ f.id = id}
    BY ONLY <1>1
  <2> QED  BY ONLY <2>2, <2>3
<1>2. LineOf(u, s, d, e, open)
  BY LinePasses
<1>3. Numbers(u, s, e)
  BY <1>2 DEF LineOf
<1>4. Answering(g, e, open)
  BY <1>0, <1>1, <1>2 DEF LineOf, Answering
<1>5. Ordered(g, e)
  <2>1. Start(g, e) = Start(d, e) /\ Start(d, e) \subseteq DOMAIN d
    BY <1>0 DEF Start, Replied
  <2>2. \A i \in DOMAIN d : d[i].is # "bye"
    BY DEF LineOf, Ordered
  <2>3. \A i \in DOMAIN g : g[i].is = "out" => \E k \in Start(g, e) : k < i
    <3>1. f.is = "out" => \E k \in Start(g, e) : k < n
      BY <1>1, <2>1 DEF LineOf, Ordered, Start, Passes
    <3> QED  BY <1>1, <1>2, <2>1, <3>1 DEF LineOf, Ordered
  <2>4. \A k \in Start(g, e), i \in DOMAIN g : k < i => g[i].is \in {"out", "bye"}
    <3>1. Start(g, e) # {} => f.is \in {"out", "bye"}
      BY DEF Start, Passes
    <3> QED  BY <1>1, <1>2, <2>1, <3>1 DEF LineOf, Ordered
  <2>5. \A i \in DOMAIN g : g[i].is = "bye" => e.pc = "closed" /\ i = Len(g)
    BY <1>1, <2>2
  <2> QED  BY <1>0, <1>2, <2>3, <2>4, <2>5 DEF LineOf, Ordered
<1> QED  BY <1>3, <1>4, <1>5 DEF LineOf, g

\* A connection that gives an answer, to what was not answered.
Gives(id, u, s, d, c, e, open) ==
  /\ LineOf(u, s, d, c, open) /\ Numbers(u, s, e) /\ ~c.confirmed /\ c.pc \notin Late
  /\ \A i \in DOMAIN d : d[i].is = "response" => d[i].id # id
  /\ e.id = c.id /\ e.calls \in {c.calls, c.calls \cup {id}} /\ e.replies \in {c.replies, c.replies \ {id}}
  /\ id \in e.calls \ e.replies \/ (id = e.id /\ e.pc \in Late)
  /\ e.pc \notin Serving => e.replies = {}
  /\ e.confirmed => e.pc \in Late /\ id = c.id /\ e.calls = c.calls
  /\ e.pc \in {"until", "session"} => e.confirmed

LEMMA LineAnswers ==
  ASSUME NEW u, NEW s, NEW d \in Seq(Written), NEW c, NEW e, NEW open \in BOOLEAN,
         NEW id \in Nat, NEW ok \in BOOLEAN, Gives(id, u, s, d, c, e, open)
  PROVE  LineOf(u, s, Append(d, Reply(id, ok)), e, open)
<1> USE DEF Gives
<1> DEFINE n == Len(d) + 1
           f == Reply(id, ok)
           g == Append(d, f)
<1>0. f.is = "response" /\ f.id = id /\ f \in Written
  BY DEF Reply, Written
<1> HIDE DEF f
<1>1. /\ DOMAIN g = DOMAIN d \cup {n} /\ (\A i \in DOMAIN d : i < n /\ i \in Nat /\ g[i] = d[i])
      /\ n \in Nat /\ n \notin DOMAIN d /\ g[n] = f /\ Len(g) = n
      /\ \A x : Replied(g, x) = Replied(d, x) \cup {i \in {n} : x = id}
  BY <1>0, RepliedGrows
<1> HIDE DEF n, g
<1>2. \A i \in DOMAIN d : d[i].is \notin {"out", "bye"}
  BY DEF LineOf, Ordered, Late, Start
<1>3. \A x \in e.calls : x \in e.replies \/ Replied(g, x) # {}
  <2>1. \A x \in c.calls : x \in c.replies \/ Replied(d, x) # {}
    BY DEF LineOf, Answering, Late
  <2>2. \A x \in c.replies : x = id \/ x \in e.replies
    OBVIOUS
  <2>3. Replied(g, id) # {}
    <3>1. Replied(g, id) = Replied(d, id) \cup {i \in {n} : id = id}
      BY ONLY <1>1
    <3> QED  BY ONLY <3>1
  <2>4. ASSUME NEW x \in e.calls  PROVE x = id \/ x \in e.replies \/ Replied(d, x) # {}
    BY <2>1, <2>2
  <2> QED  BY <1>1, <2>3, <2>4
<1>4. Answering(g, e, open)
  <2>1. \A i \in DOMAIN g : g[i].is = "response" =>
          g[i].id \in e.calls \ e.replies \/ (g[i].id = e.id /\ e.pc \in Late)
    BY <1>0, <1>1 DEF LineOf, Answering
  <2>2. \A i, j \in DOMAIN g : g[i].is = "response" /\ g[j].is = "response" /\ g[i].id = g[j].id => i = j
    BY <1>0, <1>1 DEF LineOf, Answering
  <2> QED  BY <1>3, <2>1, <2>2 DEF Answering
<1>5. Ordered(g, e)
  <2>1. e.confirmed => e.pc \in Late /\ Replied(g, e.id) # {} /\ \A x \in e.calls : Replied(g, x) # {}
    <3>1. e.confirmed => e.replies = {}
      BY DEF LineOf, Answering, Late, Serving
    <3> QED  BY <1>1, <1>3, <3>1
  <2>2. Start(g, e) \subseteq {n}
    BY <1>1 DEF Start, Replied
  <2>3. \A i \in DOMAIN g : g[i].is \notin {"out", "bye"}
    BY <1>0, <1>1, <1>2
  <2>4. \A k \in Start(g, e), i \in DOMAIN g : ~(k < i)
    BY <1>1, <2>2
  <2> QED  BY <2>1, <2>3, <2>4 DEF Ordered
<1> QED  BY <1>4, <1>5 DEF LineOf, g, f

\* A connection as it was for the line, but for its place.
SameLine(e) ==
  e.calls = conn.calls /\ e.replies = conn.replies /\ e.id = conn.id /\ e.confirmed = conn.confirmed
Onwards(pc) ==
  /\ conn.replies = {} /\ conn.pc # "closed" /\ (conn.pc \in Late => pc \in Late)
  /\ pc \in {"until", "session"} => conn.confirmed

LEMMA Going ==
  ASSUME Line, NEW e, NEW open, SameLine(e), e.pc = conn.pc \/ Onwards(e.pc)
  PROVE  Passes(conn, e, open)
<1>1. /\ conn.pc \in {"until", "session"} => conn.confirmed
      /\ conn.pc \notin Serving => conn.replies = {}
  BY DEF Line, LineOf, Ordered, Answering
<1> QED  BY <1>1 DEF SameLine, Onwards, Passes, Late

LEMMA Losing ==
  ASSUME SessionTypes, NEW open, conn.replies = {} \/ ~open
  PROVE  Passes(conn, Closed(conn), open)
<1>1. /\ Closed(conn).calls = conn.calls /\ Closed(conn).replies = {} /\ Closed(conn).id = conn.id
      /\ Closed(conn).confirmed = conn.confirmed /\ Closed(conn).pc = "closed"
  BY DEF Closed, Goto, SessionTypes, Connections
<1> QED  BY <1>1 DEF Passes, Late

LEMMA LineOfOthers ==
  ASSUME SessionTypes, Line,
         \/ Handles \/ KernelEnds \/ Writes \/ Stops \/ HearsMail \/ TaskEnds \/ OthersAct \/ Leaves
         \/ Resolves \/ StepsUntil \/ Learns \/ ScreenGone \/ HearsWatch \/ WatchGone
  PROVE  Line'
<1>1. UNCHANGED <<up, sent, down>> /\ clientOpen' \in BOOLEAN /\ (clientOpen' => clientOpen)
  <2> DEFINE Same == UNCHANGED <<up, sent, down, clientOpen>>
  <2>1. (Handles => Same) /\ (KernelEnds => Same) /\ (Writes => Same) /\ (Stops => Same)
    BY DEF Handles, KernelEnds, Writes, Stops
  <2>2. (HearsMail => Same) /\ (TaskEnds => Same) /\ (OthersAct => Same)
    BY Zenon DEF HearsMail, TaskEnds, OthersAct
  <2>3. (Resolves => Same) /\ (StepsUntil => Same)
    BY DEF Resolves, StepsUntil
  <2>4. (Learns => Same) /\ (ScreenGone => Same) /\ (HearsWatch => Same) /\ (WatchGone => Same)
    BY DEF Learns, ScreenGone, HearsWatch, WatchGone, NoneElse
  <2>5. Leaves => UNCHANGED <<up, sent, down>> /\ clientOpen' = FALSE
    BY DEF Leaves
  <2>6. Same \/ (UNCHANGED <<up, sent, down>> /\ clientOpen' = FALSE)
    BY <2>1, <2>2, <2>3, <2>4, <2>5, Zenon
  <2>7. clientOpen \in BOOLEAN
    BY DEF SessionTypes
  <2>8. clientOpen' \in BOOLEAN /\ (clientOpen' => clientOpen)
    <3>1. clientOpen' = clientOpen \/ clientOpen' = FALSE
      BY <2>6, Zenon
    <3>2. CASE clientOpen' = FALSE
      BY <3>2
    <3>3. CASE clientOpen' = clientOpen
      BY <2>7, <3>3, Zenon
    <3> QED  BY <3>1, <3>2, <3>3
  <2>9. UNCHANGED <<up, sent, down>>
    BY <2>6
  <2> QED  BY <2>8, <2>9
<1>2. conn.pc \in {"until", "session"} => conn.confirmed /\ conn.replies = {}
  BY DEF Line, LineOf, Ordered, Answering, Serving
<1>3. SameLine(conn') /\ (conn'.pc = conn.pc \/ Onwards(conn'.pc))
  <2>0. \A a : SameLine([conn EXCEPT !.reply = a]) /\ [conn EXCEPT !.reply = a].pc = conn.pc
    BY DEF SameLine, SessionTypes, Connections
  <2>1. CASE Handles \/ KernelEnds
    <3>1. \E a : conn' = conn \/ conn' = [conn EXCEPT !.reply = a]
      BY ONLY <2>1, Zenon DEF Handles, KernelEnds
    <3> QED  BY ONLY <2>0, <3>1 DEF SameLine
  <2>6. CASE StepsUntil
    <3>1. \/ conn' = [Asking(conn) EXCEPT !.step = @ + 1]
          \/ conn' = [conn EXCEPT !.step = @ + 1]
      BY ONLY <2>6 DEF StepsUntil
    <3>2. CASE conn' = [conn EXCEPT !.step = @ + 1]
      BY <3>2 DEF SameLine, SessionTypes, Connections
    <3>3. CASE conn' = [Asking(conn) EXCEPT !.step = @ + 1]
      <4>1. \A a : LET c == [conn EXCEPT !.reply = a]
                 IN  SameLine(c) /\ c.pc = conn.pc /\ DOMAIN c = DOMAIN conn
        BY DEF SameLine, SessionTypes, Connections
      <4>2. SameLine(Asking(conn)) /\ Asking(conn).pc = conn.pc /\ DOMAIN Asking(conn) = DOMAIN conn
        BY ONLY <4>1 DEF Asking
      <4>3. {"calls", "replies", "id", "confirmed", "pc"} \subseteq DOMAIN conn
        BY DEF SessionTypes, Connections
      <4>4. SameLine(conn') /\ conn'.pc = conn.pc
        BY ONLY <3>3, <4>2, <4>3 DEF SameLine
      <4> QED  BY <4>4
    <3> QED  BY ONLY <3>1, <3>2, <3>3
  <2>7. CASE HearsWatch
    <3>1. conn' = conn \/ conn' = [conn EXCEPT !.ended = TRUE, !.atEnd = target.wrote]
      BY ONLY <2>7 DEF HearsWatch
    <3> QED  BY <3>1 DEF SameLine, SessionTypes, Connections
  <2>2. CASE Writes \/ Stops \/ HearsMail \/ TaskEnds \/ OthersAct \/ Leaves
    BY <2>2 DEF Writes, Stops, HearsMail, TaskEnds, OthersAct, Leaves, SameLine
  <2>3. CASE Resolves
    BY <2>3 DEF Resolves, Flushed, At, Asking, Goto, SameLine, Onwards, Late, SessionTypes, Connections
  <2>4. CASE Learns
    BY <1>2, <2>4 DEF Learns, At, Goto, SameLine, Onwards, Late, SessionTypes, Connections
  <2>5. CASE ScreenGone \/ WatchGone
    BY <1>2, <2>5 DEF ScreenGone, WatchGone, InSession, At, Over, Goto, SameLine, Onwards, Late, SessionTypes, Connections
  <2> QED  BY <2>1, <2>2, <2>3, <2>4, <2>5, <2>6, <2>7
<1>4. Passes(conn, conn', clientOpen')
  BY <1>3, Going
<1>5. LineOf(up, sent, down, conn', clientOpen')
  BY <1>1, <1>4, LinePasses DEF Line, SessionTypes
<1> QED  BY <1>1, <1>5 DEF Line

LEMMA LineOfClient ==
  ASSUME SessionTypes, Line, NEW kind \in Kinds, ClientSends(kind)
  PROVE  Line'
<1> DEFINE f == [is |-> kind, id |-> sent + 1]
<1>1. up' = Append(up, f) /\ sent' = sent + 1 /\ UNCHANGED <<down, conn, clientOpen>>
  BY DEF ClientSends
<1>2. f \in Frames /\ f.id = sent + 1 /\ sent \in Nat
  BY DEF Frames, SessionTypes
<1> HIDE DEF f
<1>3. /\ DOMAIN up = 1..Len(up) /\ DOMAIN up' = 1..(Len(up) + 1) /\ Len(up) \in Nat
      /\ \A k \in DOMAIN up : up'[k] = up[k]
      /\ up'[Len(up) + 1] = f
  BY <1>1, <1>2, Appended DEF SessionTypes
<1>4. \A k \in DOMAIN up' : (k \in DOMAIN up /\ k < Len(up) + 1 /\ up'[k] = up[k]) \/ (k = Len(up) + 1 /\ up'[k].id = sent + 1)
  BY <1>2, <1>3
<1>5. (\A k \in DOMAIN up : up[k].id \in Nat) /\ conn.id \in Nat /\ \A id \in conn.calls : id \in Nat
  <2>1. ASSUME NEW k \in DOMAIN up  PROVE up[k].id \in Nat
    <3>1. up[k] \in Frames
      BY ElementOfSeq, LenProperties DEF SessionTypes
    <3> QED  BY <3>1 DEF Frames
  <2> QED  BY <2>1 DEF SessionTypes, Connections
<1>6. Numbers(up', sent', conn)
  <2>1. /\ \A j, k \in DOMAIN up : j < k => up[j].id < up[k].id
        /\ \A k \in DOMAIN up : 0 < up[k].id /\ up[k].id <= sent /\ conn.id < up[k].id
        /\ \A k \in DOMAIN up, id \in conn.calls : id < up[k].id
        /\ conn.id \notin conn.calls /\ 0 \notin conn.calls /\ conn.replies \subseteq conn.calls
        /\ conn.id <= sent /\ \A id \in conn.calls : id <= sent
    BY DEF Line, LineOf, Numbers
  <2>2. \A j, k \in DOMAIN up' : j < k => up'[j].id < up'[k].id
    <3> SUFFICES ASSUME NEW j \in DOMAIN up', NEW k \in DOMAIN up', j < k PROVE up'[j].id < up'[k].id
      OBVIOUS
    <3>1. j \in DOMAIN up /\ up'[j] = up[j]
      BY <1>3, <1>4
    <3>2. CASE k \in DOMAIN up /\ up'[k] = up[k]
      BY <2>1, <3>1, <3>2
    <3>3. CASE up'[k].id = sent + 1
      BY <1>2, <1>5, <2>1, <3>1, <3>3
    <3> QED  BY <1>4, <3>2, <3>3
  <2>3. \A k \in DOMAIN up' : 0 < up'[k].id /\ up'[k].id <= sent' /\ conn.id < up'[k].id
    BY <1>1, <1>2, <1>4, <1>5, <2>1
  <2>4. \A k \in DOMAIN up', id \in conn.calls : id < up'[k].id
    BY <1>2, <1>4, <1>5, <2>1
  <2>5. conn.id <= sent' /\ \A id \in conn.calls : id <= sent'
    BY <1>1, <1>2, <1>5, <2>1
  <2> QED  BY <2>1, <2>2, <2>3, <2>4, <2>5 DEF Numbers
<1> QED  BY <1>1, <1>6 DEF Line, LineOf

\* A frame is read: its number is new, and below those behind it.
LEMMA LineRead ==
  ASSUME SessionTypes, Line, NEW f \in Incoming
  PROVE  /\ LineOf(f.rest, sent, down, conn, clientOpen)
         /\ f.is # "end" =>
              /\ 0 < f.id /\ f.id <= sent /\ conn.id < f.id /\ \A id \in conn.calls : id < f.id
              /\ \A k \in DOMAIN f.rest : f.id < f.rest[k].id
<1>1. Numbers(up, sent, conn)
  BY DEF Line, LineOf
<1>2. CASE f.is = "end" /\ f.id = 0 /\ f.rest = <<>>
  BY <1>1, <1>2 DEF Line, LineOf, Numbers
<1>3. ASSUME NEW k \in DOMAIN up, f.is = up[k].is, f.id = up[k].id, k \in Nat,
             \A j \in DOMAIN f.rest : f.rest[j] = up[j + k] /\ j + k \in DOMAIN up /\ j \in Nat \ {0}
      PROVE  /\ LineOf(f.rest, sent, down, conn, clientOpen)
             /\ 0 < f.id /\ f.id <= sent /\ conn.id < f.id /\ \A id \in conn.calls : id < f.id
             /\ \A j \in DOMAIN f.rest : f.id < f.rest[j].id
  <2>1. /\ 0 < f.id /\ f.id <= sent /\ conn.id < f.id /\ \A id \in conn.calls : id < f.id
    BY <1>1, <1>3 DEF Numbers
  <2>2. \A j \in DOMAIN f.rest : f.id < f.rest[j].id
    <3>1. \A j \in DOMAIN f.rest : k < j + k
      BY <1>3
    <3> QED  BY <1>1, <1>3, <3>1 DEF Numbers
  <2>3. \A i, j \in DOMAIN f.rest : i < j => i + k < j + k
    BY <1>3
  <2>4. Numbers(f.rest, sent, conn)
    BY <1>1, <1>3, <2>3 DEF Numbers
  <2> QED  BY <2>1, <2>2, <2>4 DEF Line, LineOf
<1> QED  BY <1>2, <1>3, IncomingIs DEF SessionTypes

LEMMA LineOfGreets ==
  ASSUME SessionTypes, Line, Greets
  PROVE  Line'
<1>1. PICK f \in Incoming :
        /\ conn.pc = "hello" /\ up' = f.rest /\ UNCHANGED <<sent, clientOpen>>
        /\ CASE f.is = "hello" -> Says([is |-> "hello"], Goto(conn, "serving"), Closed(conn))
             [] f.is = "hello-other" ->
                  Says(Bye("unsupported_protocol", "none", 0), Closed(conn), Closed(conn))
             [] OTHER -> conn' = Closed(conn) /\ UNCHANGED down
  BY DEF Greets, NoneElse, At
<1>2. LineOf(f.rest, sent, down, conn, clientOpen)
  BY LineRead
<1>3. conn.replies = {} /\ ~conn.confirmed
  BY <1>1 DEF Line, LineOf, Ordered, Answering, Serving, Late, SessionTypes, Connections
<1>4. Passes(conn, Closed(conn), clientOpen)
  BY <1>3, Losing
<1>5. Passes(conn, Goto(conn, "serving"), clientOpen)
  <2>1. SameLine(Goto(conn, "serving")) /\ Goto(conn, "serving").pc = "serving"
    BY DEF Goto, SameLine, SessionTypes, Connections
  <2>2. Onwards("serving")
    BY <1>1, <1>3 DEF Onwards, Late
  <2> QED  BY <2>1, <2>2, Going
<1>6. CASE down' = down /\ conn' = Closed(conn)
  <2>1. LineOf(f.rest, sent, down, Closed(conn), clientOpen)
    BY <1>2, <1>4, LinePasses DEF SessionTypes
  <2> QED  BY <1>1, <1>6, <2>1 DEF Line
<1>7. CASE down' = Append(down, [is |-> "hello"]) /\ conn' = Goto(conn, "serving")
  <2> DEFINE hello == [is |-> "hello"]
  <2>1. hello \in Written /\ hello.is = "hello"
    BY DEF Written
  <2> HIDE DEF hello
  <2>2. LineOf(f.rest, sent, Append(down, hello), Goto(conn, "serving"), clientOpen)
    <3>1. down \in Seq(Written) /\ clientOpen \in BOOLEAN /\ conn.pc # "closed"
      BY <1>1 DEF SessionTypes
    <3>2. hello.is # "response" /\ hello.is # "out" /\ hello.is # "bye"
      BY <2>1
    <3> QED  BY <1>2, <1>3, <1>5, <2>1, <3>1, <3>2, LineTells
  <2> QED  BY <1>1, <1>7, <2>2 DEF Line, hello
<1>8. CASE down' = Append(down, Bye("unsupported_protocol", "none", 0)) /\ conn' = Closed(conn)
  <2> DEFINE bye == Bye("unsupported_protocol", "none", 0)
  <2>1. bye \in Written /\ bye.is = "bye" /\ Closed(conn).pc = "closed"
    BY DEF Bye, Written, Codes, States, Closed, Goto, SessionTypes, Connections
  <2> HIDE DEF bye
  <2>2. LineOf(f.rest, sent, Append(down, bye), Closed(conn), clientOpen)
    BY <1>1, <1>2, <1>3, <1>4, <2>1, LineTells DEF SessionTypes
  <2> QED  BY <1>1, <1>8, <2>2 DEF Line, bye
<1> QED  BY <1>1, <1>6, <1>7, <1>8 DEF Says

\* Until an attach takes it over, a connection has no confirmation, and each
\* answer is to a request that no longer waits.
LEMMA WhileServing ==
  ASSUME SessionTypes, Line, conn.pc \in Serving
  PROVE  /\ ~conn.confirmed /\ conn.pc \notin Late
         /\ \A i \in DOMAIN down : down[i].is = "response" => down[i].id \in conn.calls \ conn.replies
<1>1. conn.pc \notin Late
  BY DEF Serving, Late
<1> QED  BY <1>1 DEF Line, LineOf, Ordered, Answering, SessionTypes, Connections

LEMMA LineOfServes ==
  ASSUME SessionTypes, Line, Serves
  PROVE  Line'
<1>1. PICK f \in Incoming :
        /\ conn.pc = "serving" /\ up' = f.rest /\ UNCHANGED <<sent, clientOpen>>
        /\ CASE f.is = "call" ->
                  conn' = [conn EXCEPT !.replies = @ \cup {f.id}, !.calls = @ \cup {f.id}] /\ UNCHANGED down
             [] f.is = "bad-call" -> Says(Reply(f.id, FALSE), [conn EXCEPT !.calls = @ \cup {f.id}], Closed(conn))
             [] f.is \in {"attach", "run"} ->
                  conn' = [Goto(conn, "flush") EXCEPT !.id = f.id, !.until = (f.is = "run")] /\ UNCHANGED down
             [] f.is \in {"out", "broken", "end"} -> conn' = Goto(conn, "drain") /\ UNCHANGED down
             [] OTHER -> UNCHANGED <<conn, down>>
  BY DEF Serves, NoneElse, At
<1>2. LineOf(f.rest, sent, down, conn, clientOpen)
  BY LineRead
<1>3. f.is # "end" => /\ 0 < f.id /\ f.id <= sent /\ conn.id < f.id /\ \A id \in conn.calls : id < f.id
                      /\ \A k \in DOMAIN f.rest : f.id < f.rest[k].id
  BY LineRead
<1>4. /\ f.rest \in Seq(Frames) /\ f.id \in Nat /\ conn.id \in Nat /\ conn.calls \subseteq Nat
      /\ sent \in Nat /\ \A k \in DOMAIN f.rest : f.rest[k].id \in Nat
  <2>1. f.rest \in Seq(Frames) /\ f.id \in Nat
    BY IncomingIs DEF SessionTypes
  <2>2. ASSUME NEW k \in DOMAIN f.rest  PROVE f.rest[k].id \in Nat
    <3>1. f.rest[k] \in Frames
      BY <2>1, ElementOfSeq, LenProperties
    <3> QED  BY <3>1 DEF Frames
  <2> QED  BY <2>1, <2>2 DEF SessionTypes, Connections
<1>5. f.is # "end" => f.id \notin conn.calls /\ f.id # conn.id /\ f.id # 0
  BY <1>3, <1>4
<1>6. /\ ~conn.confirmed /\ conn.pc \notin Late
      /\ \A i \in DOMAIN down : down[i].is = "response" => down[i].id \in conn.calls \ conn.replies
  BY <1>1, WhileServing DEF Serving
<1>7. ASSUME NEW e, e.id = conn.id, e.calls = conn.calls \cup {f.id}, e.replies \subseteq e.calls, f.is # "end"
      PROVE  Numbers(f.rest, sent, e)
  <2>1. \A k \in DOMAIN f.rest, id \in e.calls : id < f.rest[k].id
    BY <1>2, <1>3, <1>7 DEF LineOf, Numbers
  <2> QED  BY <1>2, <1>3, <1>5, <1>7, <2>1 DEF LineOf, Numbers
<1>8. CASE f.is = "call"
  <2>1. /\ conn'.pc = "serving" /\ conn'.id = conn.id /\ conn'.calls = conn.calls \cup {f.id}
        /\ conn'.replies = conn.replies \cup {f.id} /\ conn'.confirmed = conn.confirmed /\ down' = down
    BY <1>1, <1>8 DEF SessionTypes, Connections
  <2>2. Numbers(f.rest, sent, conn')
    <3>1. conn'.replies \subseteq conn'.calls
      BY <1>2, <2>1 DEF LineOf, Numbers
    <3> QED  BY <1>7, <1>8, <2>1, <3>1
  <2>3. Answering(down, conn', clientOpen)
    <3>1. \A i \in DOMAIN down : down[i].is = "response" => down[i].id \in conn'.calls \ conn'.replies
      BY <1>5, <1>6, <1>8, <2>1
    <3> QED  BY <1>1, <1>2, <2>1, <3>1 DEF LineOf, Answering, Serving
  <2>4. Ordered(down, conn')
    BY <1>1, <1>2, <1>6, <2>1 DEF LineOf, Ordered, Start
  <2> QED  BY <1>1, <2>1, <2>2, <2>3, <2>4 DEF Line, LineOf
<1>9. CASE f.is = "bad-call"
  <2> DEFINE e == [conn EXCEPT !.calls = @ \cup {f.id}]
  <2>1. /\ e.pc = "serving" /\ e.id = conn.id /\ e.calls = conn.calls \cup {f.id}
        /\ e.replies = conn.replies /\ e.confirmed = conn.confirmed
    BY <1>1 DEF SessionTypes, Connections
  <2>2. Says(Reply(f.id, FALSE), e, Closed(conn))
    BY <1>1, <1>9
  <2> HIDE DEF e
  <2>3. LineOf(f.rest, sent, Append(down, Reply(f.id, FALSE)), e, clientOpen)
    <3>1. Numbers(f.rest, sent, e)
      <4>1. e.replies \subseteq e.calls
        BY <1>2, <2>1 DEF LineOf, Numbers
      <4> QED  BY <1>7, <1>9, <2>1, <4>1
    <3>2. \A i \in DOMAIN down : down[i].is = "response" => down[i].id # f.id
      BY <1>5, <1>6, <1>9
    <3>3. f.id \in e.calls \ e.replies
      BY <1>2, <1>5, <1>9, <2>1 DEF LineOf, Numbers
    <3>4. down \in Seq(Written) /\ clientOpen \in BOOLEAN /\ e.pc \in Serving /\ ~e.confirmed
          /\ e.pc \notin {"until", "session"}
      BY <1>6, <2>1 DEF SessionTypes, Serving
    <3>5. Gives(f.id, f.rest, sent, down, conn, e, clientOpen)
      BY <1>2, <1>6, <2>1, <3>1, <3>2, <3>3, <3>4 DEF Gives
    <3> QED  BY <1>4, <3>4, <3>5, LineAnswers
  <2>4. CASE down' = Append(down, Reply(f.id, FALSE)) /\ conn' = e
    BY <1>1, <2>3, <2>4 DEF Line
  <2>5. CASE ~clientOpen /\ conn' = Closed(conn) /\ down' = down
    <3>1. LineOf(f.rest, sent, down, Closed(conn), clientOpen)
      BY <1>2, <2>5, Losing, LinePasses DEF SessionTypes
    <3> QED  BY <1>1, <2>5, <3>1 DEF Line
  <2> QED  BY <2>2, <2>4, <2>5 DEF Says
<1>10. CASE f.is \in {"attach", "run"}
  <2>1. /\ conn'.pc = "flush" /\ conn'.id = f.id /\ conn'.calls = conn.calls
        /\ conn'.replies = conn.replies /\ conn'.confirmed = conn.confirmed /\ down' = down
    BY <1>1, <1>10 DEF Goto, SessionTypes, Connections
  <2>2. Numbers(f.rest, sent, conn')
    BY <1>2, <1>3, <1>5, <1>10, <2>1 DEF LineOf, Numbers
  <2>3. Answering(down, conn', clientOpen)
    BY <1>1, <1>2, <1>6, <2>1 DEF LineOf, Answering, Serving
  <2>4. Ordered(down, conn')
    BY <1>1, <1>2, <1>6, <2>1 DEF LineOf, Ordered, Start
  <2> QED  BY <1>1, <2>1, <2>2, <2>3, <2>4 DEF Line, LineOf
<1>11. CASE f.is \in {"out", "broken", "end"}
  <2>1. /\ conn'.pc = "drain" /\ conn'.id = conn.id /\ conn'.calls = conn.calls
        /\ conn'.replies = conn.replies /\ conn'.confirmed = conn.confirmed /\ down' = down
    BY <1>1, <1>11 DEF Goto, SessionTypes, Connections
  <2>2. Numbers(f.rest, sent, conn')
    BY <1>2, <2>1 DEF LineOf, Numbers
  <2>3. Answering(down, conn', clientOpen)
    BY <1>1, <1>2, <1>6, <2>1 DEF LineOf, Answering, Serving
  <2>4. Ordered(down, conn')
    BY <1>1, <1>2, <1>6, <2>1 DEF LineOf, Ordered, Start
  <2> QED  BY <1>1, <2>1, <2>2, <2>3, <2>4 DEF Line, LineOf
<1>12. CASE UNCHANGED <<conn, down>>
  BY <1>1, <1>2, <1>12 DEF Line
<1> QED  BY <1>1, <1>8, <1>9, <1>10, <1>11, <1>12

LEMMA LineOfAnswers ==
  ASSUME SessionTypes, Line, NEW id \in conn.replies, Answers(id)
  PROVE  Line'
<1> DEFINE e == [conn EXCEPT !.replies = @ \ {id}]
<1>1. /\ conn.pc \in Serving /\ UNCHANGED <<up, sent, clientOpen>>
      /\ Says(Reply(id, TRUE), e, Closed(conn))
  BY DEF Answers, NoneElse, Serving
<1>2. /\ e.pc = conn.pc /\ e.id = conn.id /\ e.calls = conn.calls /\ e.replies = conn.replies \ {id}
      /\ e.confirmed = conn.confirmed
  BY DEF SessionTypes, Connections
<1> HIDE DEF e
<1>3. /\ ~conn.confirmed /\ conn.pc \notin Late
      /\ \A i \in DOMAIN down : down[i].is = "response" => down[i].id # id
  BY <1>1, WhileServing
<1>4. LineOf(up, sent, down, conn, clientOpen) /\ id \in Nat /\ id \in conn.calls
  BY DEF Line, LineOf, Numbers, SessionTypes, Connections
<1>5. CASE down' = Append(down, Reply(id, TRUE)) /\ conn' = e
  <2>1. Numbers(up, sent, e)
    BY <1>2, <1>4 DEF LineOf, Numbers
  <2>2. e.pc \notin {"until", "session"} /\ e.pc \in Serving
    BY <1>1, <1>2 DEF Serving
  <2>3. Gives(id, up, sent, down, conn, e, clientOpen)
    BY <1>2, <1>3, <1>4, <2>1, <2>2 DEF Gives
  <2>4. LineOf(up, sent, Append(down, Reply(id, TRUE)), e, clientOpen)
    <3>1. down \in Seq(Written) /\ clientOpen \in BOOLEAN
      BY DEF SessionTypes
    <3> QED  BY <1>4, <2>3, <3>1, LineAnswers
  <2> QED  BY <1>1, <1>5, <2>4 DEF Line
<1>6. CASE ~clientOpen /\ conn' = Closed(conn) /\ down' = down
  <2>1. LineOf(up, sent, down, Closed(conn), clientOpen)
    BY <1>4, <1>6, Losing, LinePasses DEF SessionTypes
  <2> QED  BY <1>1, <1>6, <2>1 DEF Line
<1> QED  BY <1>1, <1>5, <1>6 DEF Says

LEMMA LineOfDrained ==
  ASSUME SessionTypes, Line, Drained
  PROVE  Line'
<1>1. conn.replies = {} /\ conn' = Closed(conn) /\ UNCHANGED <<up, down, sent, clientOpen>>
  BY DEF Drained, Flushed, NoneElse
<1>2. LineOf(up, sent, down, Closed(conn), clientOpen)
  BY <1>1, Losing, LinePasses DEF SessionTypes, Line
<1> QED  BY <1>1, <1>2 DEF Line

\* The answer to an attach: a refusal, or the confirmation.
LEMMA AttachAnswered ==
  ASSUME SessionTypes, Line, conn.pc \in {"resolve", "confirm"}, NEW ok \in BOOLEAN, NEW e,
         e.calls = conn.calls, e.replies = {}, e.id = conn.id, e.pc \in Late,
         e.confirmed = conn.confirmed \/ e.confirmed = TRUE, e.pc \in {"until", "session"} => e.confirmed,
         down' = Append(down, Reply(conn.id, ok)), conn' = e, UNCHANGED <<up, sent, clientOpen>>
  PROVE  Line'
<1>1. LineOf(up, sent, down, conn, clientOpen) /\ conn.replies = {} /\ conn.pc \notin Late /\ conn.id \in Nat
  BY DEF Line, LineOf, Answering, Serving, Late, SessionTypes, Connections
<1>2. ~conn.confirmed /\ \A i \in DOMAIN down : down[i].is = "response" => down[i].id # conn.id
  BY <1>1 DEF LineOf, Ordered, Answering, Numbers, SessionTypes, Connections
<1>3. Numbers(up, sent, e)
  BY <1>1 DEF LineOf, Numbers
<1>4. Gives(conn.id, up, sent, down, conn, e, clientOpen)
  BY <1>1, <1>2, <1>3 DEF Gives
<1>5. LineOf(up, sent, Append(down, Reply(conn.id, ok)), e, clientOpen)
  BY <1>1, <1>4, LineAnswers DEF SessionTypes
<1> QED  BY <1>5 DEF Line

LEMMA LineOfAttach ==
  ASSUME SessionTypes, Line, Resolved \/ Confirms
  PROVE  Line'
<1>1. /\ conn.pc \in {"resolve", "confirm"} /\ UNCHANGED <<up, sent, clientOpen>>
      /\ conn.replies = {} /\ conn.pc \notin Late
      /\ LineOf(up, sent, down, conn, clientOpen)
  BY DEF Resolved, Confirms, NoneElse, At, Line, LineOf, Answering, Serving, Late
<1>2. ASSUME Says(Reply(conn.id, FALSE), Closed(conn), Closed(conn))  PROVE Line'
  <2>1. /\ Closed(conn).calls = conn.calls /\ Closed(conn).replies = {} /\ Closed(conn).id = conn.id
        /\ Closed(conn).confirmed = conn.confirmed /\ Closed(conn).pc = "closed"
    BY DEF Closed, Goto, SessionTypes, Connections
  <2>2. CASE down' = Append(down, Reply(conn.id, FALSE)) /\ conn' = Closed(conn)
    <3>1. Closed(conn).pc \in Late /\ Closed(conn).pc \notin {"until", "session"}
      BY <2>1 DEF Late
    <3> QED  BY <1>1, <2>1, <2>2, <3>1, AttachAnswered
  <2>3. CASE down' = down /\ conn' = Closed(conn)
    <3>1. LineOf(up, sent, down, Closed(conn), clientOpen)
      BY <1>1, Losing, LinePasses DEF SessionTypes
    <3> QED  BY <1>1, <2>3, <3>1 DEF Line
  <2> QED  BY <1>2, <2>2, <2>3 DEF Says
<1>3. ASSUME NEW pc \in {"confirm", "detach"}, conn' = Goto(conn, pc), down' = down  PROVE Line'
  <2>1. SameLine(conn') /\ conn'.pc = pc
    BY <1>3 DEF Goto, SameLine, SessionTypes, Connections
  <2>2. Onwards(pc)
    BY <1>1, <1>3 DEF Onwards
  <2>3. LineOf(up, sent, down, conn', clientOpen)
    BY <1>1, <2>1, <2>2, Going, LinePasses DEF SessionTypes
  <2> QED  BY <1>1, <1>3, <2>3 DEF Line
<1>4. CASE Resolved
  BY <1>2, <1>3, <1>4 DEF Resolved
<1>5. CASE Confirms
  <2> DEFINE ok == [conn EXCEPT !.confirmed = TRUE, !.pc = IF conn.until THEN "until" ELSE "session"]
  <2>1. Says(Reply(conn.id, TRUE), ok, Goto(conn, "detach"))
    BY <1>5 DEF Confirms
  <2>2. /\ ok.calls = conn.calls /\ ok.replies = {} /\ ok.id = conn.id /\ ok.confirmed = TRUE
        /\ ok.pc \in Late
    BY <1>1 DEF Late, SessionTypes, Connections
  <2> HIDE DEF ok
  <2>3. CASE down' = Append(down, Reply(conn.id, TRUE)) /\ conn' = ok
    BY <1>1, <2>2, <2>3, AttachAnswered
  <2> QED  BY <1>3, <2>1, <2>3 DEF Says
<1> QED  BY <1>4, <1>5

\* What is painted comes after the confirmation.
LEMMA LineOfPaints ==
  ASSUME SessionTypes, Line, conn.pc = "session", NEW c \in Connections, NEW lost,
         SameLine(c), c.pc \in {"session", "detach"}, SameLine(lost), lost.pc = "detach",
         Paints(c, lost), UNCHANGED <<up, sent, clientOpen>>
  PROVE  Line'
<1>1. LineOf(up, sent, down, conn, clientOpen) /\ conn.confirmed /\ conn.replies = {}
  BY DEF Line, LineOf, Ordered, Answering, Serving
<1>2. Onwards("detach") /\ Onwards("session")
  BY <1>1 DEF Onwards, Late
<1>3. ASSUME NEW e, SameLine(e), e.pc \in {"session", "detach"}  PROVE Passes(conn, e, clientOpen)
  BY <1>2, <1>3, Going
<1>4. ASSUME NEW e, SameLine(e), e.pc \in {"session", "detach"}, down' = down, conn' = e  PROVE Line'
  <2>1. LineOf(up, sent, down, e, clientOpen)
    BY <1>1, <1>3, <1>4, LinePasses DEF SessionTypes
  <2> QED  BY <1>4, <2>1 DEF Line
<1>5. CASE Picture(c) = c.drawn
  BY <1>4, <1>5 DEF Paints
<1>6. CASE Picture(c) # c.drawn
  <2> DEFINE p == Picture(c)
             f == [is |-> "out", shows |-> p]
             e == [c EXCEPT !.drawn = p]
  <2>1. Says(f, e, lost)
    BY <1>6 DEF Paints
  <2>2. p \in Int
    BY DEF Picture, SessionTypes, Targets
  <2> HIDE DEF p
  <2>3. f \in Written /\ f.is = "out" /\ SameLine(e) /\ e.pc = c.pc
    BY <2>2 DEF Written, SameLine, Connections
  <2> HIDE DEF e, f
  <2>4. CASE down' = Append(down, f) /\ conn' = e
    <3>1. LineOf(up, sent, Append(down, f), e, clientOpen)
      <4>1. down \in Seq(Written) /\ clientOpen \in BOOLEAN /\ conn.pc # "closed" /\ Passes(conn, e, clientOpen)
        BY <1>3, <2>3 DEF SessionTypes
      <4>2. f.is # "response" /\ f.is # "bye" /\ f.is \in {"out", "bye"}
        BY <2>3
      <4> QED  BY <1>1, <2>3, <4>1, <4>2, LineTells
    <3> QED  BY <2>4, <3>1 DEF Line
  <2> QED  BY <1>4, <2>1, <2>4 DEF Says
<1> QED  BY <1>5, <1>6

LEMMA LineOfTheSession ==
  ASSUME SessionTypes, Line, HearsNotes \/ HearsClient \/ SessionEnds
  PROVE  Line'
<1>1. conn \in Connections /\ conn.pc = "session" /\ LineOf(up, sent, down, conn, clientOpen)
      /\ conn.confirmed /\ conn.replies = {}
  BY DEF HearsNotes, HearsClient, SessionEnds, InSession, At, SessionTypes, Line, LineOf, Ordered, Answering, Serving
<1>2. \A b : [conn EXCEPT !.present = b].pc = "session" /\ SameLine([conn EXCEPT !.present = b])
  BY <1>1 DEF SameLine, Connections
<1>3. ASSUME NEW c \in Connections, SameLine(c), NEW how
      PROVE  SameLine(Over(c, how)) /\ Over(c, how).pc = "detach"
  BY <1>3 DEF SameLine, Over, Goto, Connections
<1>4. SameLine(conn)
  BY DEF SameLine
<1>5. CASE HearsNotes
  <2>1. PICK x \in Connections : /\ x = conn \/ \E b : x = [conn EXCEPT !.present = b]
                                /\ Paints(x, Over(x, "closed"))
    <3> DEFINE shown == SelectSeq(news, LAMBDA n : n # "render")
               c == IF shown = <<>> THEN conn ELSE [conn EXCEPT !.present = (Last(shown) = "copy")]
    <3>1. c \in Connections
      BY <1>1 DEF Connections
    <3>2. Paints(c, Over(c, "closed"))
      BY <1>5 DEF HearsNotes
    <3>3. c = conn \/ \E b : c = [conn EXCEPT !.present = b]
      OBVIOUS
    <3> HIDE DEF c
    <3> QED  BY <3>1, <3>2, <3>3
  <2>2. SameLine(x) /\ x.pc = "session"
    BY <1>1, <1>2, <1>4, <2>1
  <2>3. UNCHANGED <<up, sent, clientOpen>>
    BY <1>5 DEF HearsNotes
  <2>4. SameLine(Over(x, "closed")) /\ Over(x, "closed").pc = "detach"
    BY <1>3, <2>2
  <2> QED  BY <1>1, <2>1, <2>2, <2>3, <2>4, LineOfPaints
<1>6. CASE SessionEnds
  <2>1. Paints(Over(conn, "exited"), Over(conn, "exited")) /\ UNCHANGED <<up, sent, clientOpen>>
    BY <1>6 DEF SessionEnds, LastPaint, NoneElse
  <2>2. Over(conn, "exited") \in Connections
    BY <1>1, ConnectionTypes
  <2>3. SameLine(Over(conn, "exited")) /\ Over(conn, "exited").pc = "detach"
    BY <1>1, <1>3, <1>4
  <2> QED  BY <1>1, <2>1, <2>2, <2>3, LineOfPaints
<1>7. CASE HearsClient
  <2>1. PICK f \in Incoming : /\ up' = f.rest /\ UNCHANGED <<down, sent, clientOpen>>
                              /\ conn' = conn \/ conn' = Over(conn, "closed")
    BY <1>7 DEF HearsClient
  <2>2. LineOf(f.rest, sent, down, conn, clientOpen)
    BY LineRead
  <2>3. CASE conn' = conn
    BY <2>1, <2>2, <2>3 DEF Line
  <2>4. CASE conn' = Over(conn, "closed")
    <3>1. Onwards("detach")
      BY <1>1 DEF Onwards, Late
    <3>2. Passes(conn, conn', clientOpen)
      BY <1>1, <1>3, <1>4, <2>4, <3>1, Going
    <3>3. LineOf(f.rest, sent, down, conn', clientOpen)
      BY <2>2, <3>2, LinePasses DEF SessionTypes
    <3> QED  BY <2>1, <3>3 DEF Line
  <2> QED  BY <2>1, <2>3, <2>4
<1> QED  BY <1>5, <1>6, <1>7

\* The goodbye closes the connection.
LEMMA LineOfTheEnd ==
  ASSUME SessionTypes, Line, Detaches \/ Reports
  PROVE  Line'
<1>1. /\ conn.pc \in {"detach", "final"} /\ UNCHANGED <<up, sent, clientOpen>>
      /\ conn.replies = {} /\ LineOf(up, sent, down, conn, clientOpen)
      /\ Passes(conn, Closed(conn), clientOpen)
  <2>1. conn.pc \in {"detach", "final"} /\ UNCHANGED <<up, sent, clientOpen>>
    BY DEF Detaches, Reports, At
  <2>2. conn.replies = {} /\ LineOf(up, sent, down, conn, clientOpen)
    BY <2>1 DEF Line, LineOf, Answering, Serving
  <2> QED  BY <2>1, <2>2, Losing
<1>2. ASSUME conn' = Closed(conn), down' = down  PROVE Line'
  <2>1. LineOf(up, sent, down, Closed(conn), clientOpen)
    BY <1>1, LinePasses DEF SessionTypes
  <2> QED  BY <1>1, <1>2, <2>1 DEF Line
<1>3. ASSUME NEW code \in Codes, NEW state \in States, NEW screen \in Nat,
             Says(Bye(code, state, screen), Closed(conn), Closed(conn))
      PROVE  Line'
  <2> DEFINE bye == Bye(code, state, screen)
  <2>1. bye \in Written /\ bye.is = "bye" /\ Closed(conn).pc = "closed"
    BY DEF Bye, Written, Closed, Goto, SessionTypes, Connections
  <2>2. (down' = Append(down, bye) \/ down' = down) /\ conn' = Closed(conn)
    BY <1>3 DEF Says
  <2> HIDE DEF bye
  <2>3. CASE down' = Append(down, bye)
    <3>1. down \in Seq(Written) /\ clientOpen \in BOOLEAN /\ conn.pc # "closed"
      BY <1>1 DEF SessionTypes
    <3>2. bye.is # "response" /\ bye.is # "out" /\ bye.is \in {"out", "bye"}
      BY <2>1
    <3>3. LineOf(up, sent, Append(down, bye), Closed(conn), clientOpen)
      BY <1>1, <2>1, <3>1, <3>2, LineTells
    <3> QED  BY <1>1, <2>2, <2>3, <3>3 DEF Line
  <2> QED  BY <1>2, <2>2, <2>3
<1>4. CASE Reports
  <2>1. Says(Bye("task_exited", conn.reply, target.wrote), Closed(conn), Closed(conn))
    BY <1>4 DEF Reports
  <2>2. conn.reply \in States /\ target.wrote \in Nat /\ "task_exited" \in Codes
    BY DEF SessionTypes, Connections, Targets, Codes
  <2> QED  BY <1>3, <2>1, <2>2
<1>5. CASE Detaches /\ conn.confirmed /\ conn.exited
  <2>1. down' = down /\ conn' = Asking(Goto(conn, "final"))
    BY <1>5 DEF Detaches
  <2>2. SameLine(conn') /\ conn'.pc = "final"
    BY <2>1 DEF Asking, Goto, SameLine, SessionTypes, Connections
  <2>3. Passes(conn, conn', clientOpen)
    <3>1. Onwards("final")
      BY <1>1 DEF Onwards, Late
    <3> QED  BY <2>2, <3>1, Going
  <2>4. LineOf(up, sent, down, conn', clientOpen)
    BY <1>1, <2>3, LinePasses DEF SessionTypes
  <2> QED  BY <1>1, <2>1, <2>4 DEF Line
<1>6. CASE Detaches /\ ~(conn.confirmed /\ conn.exited)
  <2>1. Says(Bye("quit", "none", 0), Closed(conn), Closed(conn)) \/ (conn' = Closed(conn) /\ down' = down)
    BY <1>6 DEF Detaches
  <2>2. "quit" \in Codes /\ "none" \in States /\ 0 \in Nat
    BY DEF Codes, States
  <2> QED  BY <1>2, <1>3, <2>1, <2>2
<1> QED  BY <1>4, <1>5, <1>6

LEMMA InitLine == SessionInit => Line
<1> SUFFICES ASSUME SessionInit PROVE Line
  OBVIOUS
<1>1. /\ up = <<>> /\ down = <<>> /\ sent = 0 /\ conn.id = 0 /\ conn.calls = {} /\ conn.replies = {}
      /\ ~conn.confirmed /\ conn.pc = "hello"
  BY DEF SessionInit
<1> QED  BY <1>1 DEF Line, LineOf, Numbers, Answering, Ordered, Start

LEMMA LineStep == SessionTypes /\ Line /\ [SessionNext]_sessionVars => Line'
<1> SUFFICES ASSUME SessionTypes, Line, [SessionNext]_sessionVars PROVE Line'
  OBVIOUS
<1>1. CASE UNCHANGED sessionVars
  BY <1>1 DEF sessionVars, Line
<1>2. CASE SessionNext
  BY <1>2, LineOfOthers, LineOfClient, LineOfGreets, LineOfServes, LineOfAnswers, LineOfDrained, LineOfAttach,
     LineOfTheSession, LineOfTheEnd DEF SessionNext
<1> QED  BY <1>1, <1>2

\* However frames, answers, the screen and the end of the client fall together,
\* every request is answered at most once, the answers to what was asked before
\* an attach precede its confirmation, the screen comes after, and one goodbye
\* is the last frame.
THEOREM AnswersAreInOrder == SessionSpec => []AnsweredInOrder
<1>1. ASSUME SessionTypes, Line  PROVE AnsweredInOrder
  <2>1. /\ Answering(down, conn, clientOpen) /\ Ordered(down, conn) /\ Numbers(up, sent, conn)
        /\ Starts = Start(down, conn) /\ \A id : AnswersTo(id) = Replied(down, id)
    BY <1>1 DEF Line, LineOf, Starts, Start, AnswersTo, Replied
  <2>2. ASSUME NEW id  PROVE Cardinality(AnswersTo(id)) <= 1
    <3>1. \A i, j \in AnswersTo(id) : i = j
      BY <2>1 DEF Answering, Replied
    <3>2. CASE AnswersTo(id) = {}
      BY <3>2, FS_EmptySet
    <3>3. CASE AnswersTo(id) # {}
      <4>1. PICK i : AnswersTo(id) = {i}
        BY <3>1, <3>3
      <4>2. Cardinality({i}) = 1
        BY FS_Singleton
      <4> QED  BY <4>1, <4>2
    <3> QED  BY <3>2, <3>3
  <2>3. At("closed") /\ clientOpen => \A id \in conn.calls : AnswersTo(id) # {}
    BY <2>1 DEF Answering, At, Serving
  <2>4. ASSUME NEW k \in Starts, NEW id \in conn.calls  PROVE \E i \in AnswersTo(id) : i < k
    <3>1. PICK i \in AnswersTo(id) : TRUE
      BY <2>1, <2>4 DEF Ordered, Start
    <3>2. /\ i \in DOMAIN down /\ down[i].is = "response" /\ down[i].id = id
          /\ k \in DOMAIN down /\ down[k].id = conn.id
      BY <2>1, <2>4, <3>1 DEF Start, Replied
    <3>3. i # k /\ ~(k < i)
      BY <2>1, <2>4, <3>2 DEF Ordered, Numbers
    <3>4. i \in Nat /\ k \in Nat
      BY <1>1, <3>2, LenProperties DEF SessionTypes
    <3> QED  BY <3>1, <3>3, <3>4
  <2>5. \A i \in DOMAIN down :
          /\ down[i].is = "out" => \E k \in Starts : k < i
          /\ \A k \in Starts : k < i => down[i].is \in {"out", "bye"}
          /\ down[i].is = "bye" => i = Len(down)
    BY <2>1 DEF Ordered
  <2> QED  BY <2>2, <2>3, <2>4, <2>5 DEF AnsweredInOrder
<1> QED  BY <1>1, InitTypes, TypesStep, InitLine, LineStep, PTL DEF SessionSpec
=============================================================================
