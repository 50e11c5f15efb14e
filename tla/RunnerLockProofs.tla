-------------------------- MODULE RunnerLockProofs --------------------------
(***************************************************************************)
(* For any number of runners and clients: at most one of them owns the     *)
(* files of a runner, a runner that serves keeps its files, and a client   *)
(* that asks while it serves is told so.                                   *)
(*                                                                         *)
(* The argument: whoever owns the files holds the flock of the inode that  *)
(* `.live` names, and an inode's flock has one holder; so nobody but the   *)
(* owner makes the path name another inode.                                *)
(***************************************************************************)
EXTENDS RunnerLock, TLAPS

Phases == {"idle", "ended"} \cup RunnerPhases \cup ClientPhases
Answers == {"unknown", "Ready", "Stale", "Starting", "Failed", "Absent"}

Shape ==
  /\ path \in [Names -> Inodes \cup Runners \cup {None}]
  /\ \A f \in Locks : path[f] \in Inodes \cup {None}
  /\ pc \in [Procs -> Phases]
  /\ at \in [Procs -> Nat \ {0}]
  /\ fd \in [Procs -> [Locks -> Inodes \cup {None}]]
  /\ record \in [Clients -> Inodes \cup Runners \cup {None}]
  /\ answer \in [Clients -> Answers]
  /\ steady \in [Clients -> Runners \cup {None}]

HasLive(p) == <<p, "live">> \in holds
OneHolder ==
  \A p, q \in Procs : HasLive(p) /\ HasLive(q) /\ fd[p]["live"] = fd[q]["live"] => p = q

(* Where a process that has the flock of `.live` can be, where it must     *)
(* have it, and where it has the file open.                                *)
HolderPhases ==
  {"check", "check2", "sweep", "boot", "bound", "published", "serve", "drop",
   "ended", "release", "match", "clean"}
Held ==
  \A p \in Procs :
    /\ HasLive(p) => pc[p] \in HolderPhases
    /\ pc[p] \in {"check", "check2", "match"} => HasLive(p)
    /\ pc[p] \in {"wait", "check", "check2", "try", "match"} => fd[p]["live"] # None

Owned ==
  \A p \in Procs : Owns(p) =>
    HasLive(p) /\ fd[p]["live"] # None /\ path["live"] = fd[p]["live"]

Kept ==
  \A r \in Runners :
    /\ pc[r] \in {"bound", "published", "serve"} => path["socket"] = r
    /\ pc[r] \in {"published", "serve"} => path["record"] = r

Asking(c) == pc[c] \in {"probe", "test", "release", "error", "answered"}
Asked ==
  \A c \in Clients : Asking(c) /\ steady[c] # None =>
    /\ pc[c] \notin {"release", "error"}
    /\ pc[steady[c]] = "serve"
    /\ record[c] = steady[c]
    /\ pc[c] = "test" => fd[c]["live"] = fd[steady[c]]["live"]
    /\ pc[c] = "answered" => answer[c] = "Ready"

LockInv == Shape /\ OneHolder /\ Held /\ Owned /\ Kept /\ Asked
-----------------------------------------------------------------------------
(* Two owners would hold the flock of one inode. *)
LEMMA OneOwner == LockInv => Exclusive
  BY DEF LockInv, OneHolder, Owned, Exclusive

LEMMA InitLock == Init => LockInv
  BY RunnerLockAssumption
  DEF Init, LockInv, Shape, OneHolder, HasLive, Held, HolderPhases, Owned, Owns,
      Kept, Asked, Asking, Phases, Answers, RunnerPhases, ClientPhases, Names,
      Locks, Procs

LEMMA NewIsFree ==
  ASSUME NEW f, Free(f) # {}
  PROVE  NewInode(f) \in Free(f)
  BY DEF NewInode
-----------------------------------------------------------------------------
(* What the parts of a step do, without how they do it. *)

Opened(p, f) ==
  /\ path' \in [Names -> Inodes \cup Runners \cup {None}]
  /\ \A g \in Locks : path'[g] \in Inodes \cup {None}
  /\ fd' \in [Procs -> [Locks -> Inodes \cup {None}]]
  /\ fd'[p][f] = path'[f] /\ path'[f] # None
  /\ \A q \in Procs, g \in Locks : q # p \/ g # f => fd'[q][g] = fd[q][g]
  /\ \A g \in Names : g # f => path'[g] = path[g]
  /\ path[f] # None => path'[f] = path[f]
  /\ path[f] = None => \A q \in Procs : fd[q][f] # path'[f]

LEMMA OpenEffect ==
  ASSUME Shape, NEW p \in Procs, NEW f \in Locks, Open(p, f)
  PROVE  Opened(p, f)
<1>1. CASE path[f] = None
  <2>1. NewInode(f) \in Free(f)
    BY <1>1, NewIsFree DEF Open
  <2>2. NewInode(f) \in Inodes /\ \A q \in Procs : fd[q][f] # NewInode(f)
    BY <2>1 DEF Free
  <2>3. path' = [path EXCEPT ![f] = NewInode(f)]
    BY <1>1 DEF Open
  <2>4. fd' = [fd EXCEPT ![p][f] = NewInode(f)]
    BY <2>3 DEF Open, Shape, Names
  <2> QED
    BY <1>1, <2>2, <2>3, <2>4, RunnerLockAssumption DEF Opened, Shape, Names
<1>2. CASE path[f] # None
  BY <1>2, RunnerLockAssumption DEF Open, Opened, Shape, Names
<1> QED  BY <1>1, <1>2

Shut(p) ==
  /\ fd' \in [Procs -> [Locks -> Inodes \cup {None}]]
  /\ \A q \in Procs : q # p => fd'[q] = fd[q]
  /\ \A q \in Procs, g \in Locks :
       <<q, g>> \in holds' <=> (q # p /\ <<q, g>> \in holds)

LEMMA CloseEffect ==
  ASSUME Shape, NEW p \in Procs, Close(p)
  PROVE  Shut(p)
  BY DEF Close, Shape, Shut

Moved(p, phase) ==
  /\ pc' \in [Procs -> Phases]
  /\ pc'[p] = phase
  /\ \A q \in Procs : q # p => pc'[q] = pc[q]
  /\ steady' \in [Clients -> Runners \cup {None}]
  /\ \A c \in Clients : steady'[c] # None =>
       /\ steady'[c] = steady[c] /\ c # p
       /\ steady[c] = p => phase = "serve"

Locking(p, f) ==
  \A q \in Procs, g \in Locks :
    <<q, g>> \in holds' <=> (q = p /\ g = f) \/ <<q, g>> \in holds

LEMMA AcquireEffect ==
  ASSUME NEW p \in Procs, NEW f \in Locks, Acquire(p, f)
  PROVE  Locking(p, f)
  BY DEF Acquire, Locking

LEMMA GoEffect ==
  ASSUME Shape, NEW p \in Procs, NEW phase \in Phases, Go(p, phase)
  PROVE  Moved(p, phase)
  BY DEF Go, Shape, Moved

LEMMA RetryEffect ==
  ASSUME Shape, NEW p \in Procs, NEW phase \in Phases, Retry(p, phase)
  PROVE  Shut(p) /\ (Moved(p, phase) \/ Moved(p, "idle"))
<1>1. Shut(p)
  BY CloseEffect DEF Retry
<1>2. "idle" \in Phases
  BY DEF Phases
<1> QED  BY <1>1, <1>2, GoEffect DEF Retry

Left(p) ==
  /\ Shut(p) /\ Moved(p, "idle")
  /\ at' \in [Procs -> Nat \ {0}]
  /\ \A q \in Procs : q # p => at'[q] = at[q]

LEMMA LeaveEffect ==
  ASSUME Shape, NEW p \in Procs, Leave(p)
  PROVE  Left(p)
<1>1. Shut(p)
  BY CloseEffect DEF Leave
<1>2. "idle" \in Phases
  BY DEF Phases
<1> QED  BY <1>1, <1>2, GoEffect DEF Leave, Left, Shape

Unlinked(p, phase, next) ==
  /\ pc[p] = phase
  /\ at[p] \in 1..Len(Script(phase))
  /\ path' = [path EXCEPT ![Script(phase)[at[p]]] = None]
  /\ at' \in [Procs -> Nat \ {0}]
  /\ \A q \in Procs : q # p => at'[q] = at[q]
  /\ at[p] < Len(Script(phase)) => at'[p] = at[p] + 1
  /\ IF at[p] = Len(Script(phase)) THEN Moved(p, next) ELSE UNCHANGED <<pc, steady>>
  /\ UNCHANGED <<fd, holds, record, answer>>

LEMMA UnlinkEffect ==
  ASSUME Shape, NEW p \in Procs, NEW phase \in {"sweep", "drop", "clean"},
         NEW next \in Phases, Unlink(p, phase, next)
  PROVE  Unlinked(p, phase, next)
<1>1. Script(phase)[at[p]] \in Names /\ Len(Script(phase)) \in Nat
  BY DEF Shape, Unlink, Script, Names, Locks
<1>2. at[p] \in Nat \ {0}
  BY DEF Shape
<1>3. /\ at' \in [Procs -> Nat \ {0}]
      /\ \A q \in Procs : q # p => at'[q] = at[q]
      /\ at[p] < Len(Script(phase)) => at'[p] = at[p] + 1
  BY <1>1, <1>2 DEF Shape, Unlink
<1>4. IF at[p] = Len(Script(phase)) THEN Moved(p, next) ELSE UNCHANGED <<pc, steady>>
  BY GoEffect DEF Unlink
<1> QED  BY <1>1, <1>2, <1>3, <1>4 DEF Unlink, Unlinked

(* A query's step leaves what it has read as it is. *)
Queried(c, S) ==
  /\ pc' \in [Procs -> Phases]
  /\ pc'[c] \in S
  /\ \A q \in Procs : q # c => pc'[q] = pc[q]
  /\ answer' \in [Clients -> Answers]
  /\ \A d \in Clients : d # c => answer'[d] = answer[d]
  /\ UNCHANGED <<record, steady>>

LEMMA AnswerEffect ==
  ASSUME Shape, NEW c \in Clients, NEW alive \in BOOLEAN, Answer(c, alive)
  PROVE  /\ Queried(c, {"error", "answered"})
         /\ pc'[c] = "error" => record[c] = None /\ ~alive
         /\ record[c] # None /\ alive => answer'[c] = "Ready"
  BY DEF Answer, Shape, Queried, Answers, Phases, ClientPhases, Procs

LEMMA OpenLockKeeps ==
  ASSUME LockInv, NEW r \in Runners, OpenLock(r)
  PROVE  LockInv'
<1>1. Opened(r, "lock") /\ Moved(r, "lock")
  BY OpenEffect, GoEffect
  DEF LockInv, Phases, RunnerPhases, ClientPhases, Procs, Locks, OpenLock
<1>2. Shape'
  BY RunnerLockAssumption, <1>1
  DEF LockInv, Shape, Procs, Locks, Names, OpenLock, Opened, Moved
<1>3. OneHolder'
  BY RunnerLockAssumption, <1>1
  DEF LockInv, Shape, OneHolder, HasLive, Held, HolderPhases, Procs, Locks,
      OpenLock, Opened, Moved
<1>4. Held'
  BY RunnerLockAssumption, <1>1
  DEF LockInv, Shape, Held, HasLive, HolderPhases, Procs, Locks, OpenLock,
      Opened, Moved
<1>5. Owned'
  BY RunnerLockAssumption, <1>1
  DEF LockInv, Shape, Owned, Owns, OneHolder, Held, HasLive, HolderPhases,
      Procs, Locks, Names, OpenLock, Opened, Moved
<1>6. Kept'
  BY RunnerLockAssumption, <1>1
  DEF LockInv, Shape, Kept, Procs, Locks, Names, OpenLock, Opened, Moved
<1>7. Asked'
  BY RunnerLockAssumption, <1>1
  DEF LockInv, Shape, Asked, Asking, Procs, Locks, OpenLock, Opened, Moved
<1> QED  BY <1>2, <1>3, <1>4, <1>5, <1>6, <1>7 DEF LockInv

LEMMA TryLockKeeps ==
  ASSUME LockInv, NEW r \in Runners, TryLock(r)
  PROVE  LockInv'
<1>1. \/ Left(r)
      \/ Locking(r, "lock") /\ Moved(r, "live") /\ UNCHANGED <<fd, at>>
  <2>1. r \in Procs /\ "lock" \in Locks /\ "live" \in Locks
    BY DEF Procs, Locks
  <2>2. "live" \in Phases
    BY DEF Phases, RunnerPhases, ClientPhases
  <2>3. CASE Locked("lock", fd[r]["lock"])
    BY <2>1, <2>2, <2>3, LeaveEffect DEF LockInv, TryLock
  <2>4. CASE ~(Locked("lock", fd[r]["lock"]))
    BY <2>1, <2>2, <2>4, AcquireEffect, GoEffect DEF LockInv, TryLock
  <2> QED  BY <2>3, <2>4
<1>2. Shape'
  BY RunnerLockAssumption, <1>1
  DEF LockInv, Shape, Procs, Locks, Names, TryLock, Left, Shut, Locking, Moved
<1>3. OneHolder'
  BY RunnerLockAssumption, <1>1
  DEF LockInv, Shape, OneHolder, HasLive, Held, HolderPhases, Procs, Locks,
      TryLock, Left, Shut, Locking, Moved
<1>4. Held'
  BY RunnerLockAssumption, <1>1
  DEF LockInv, Shape, Held, HasLive, HolderPhases, Procs, Locks, TryLock,
      Left, Shut, Locking, Moved
<1>5. Owned'
  BY RunnerLockAssumption, <1>1
  DEF LockInv, Shape, Owned, Owns, OneHolder, Held, HasLive, HolderPhases,
      Procs, Locks, Names, TryLock, Left, Shut, Locking, Moved
<1>6. Kept'
  BY RunnerLockAssumption, <1>1
  DEF LockInv, Shape, Kept, Procs, Locks, Names, TryLock, Left, Shut, Locking,
      Moved
<1>7. Asked'
  BY RunnerLockAssumption, <1>1
  DEF LockInv, Shape, Asked, Asking, Procs, Locks, TryLock, Left, Shut,
      Locking, Moved
<1> QED  BY <1>2, <1>3, <1>4, <1>5, <1>6, <1>7 DEF LockInv

LEMMA OpenLiveKeeps ==
  ASSUME LockInv, NEW r \in Runners, OpenLive(r)
  PROVE  LockInv'
<1>1. Opened(r, "live") /\ Moved(r, "wait")
  BY OpenEffect, GoEffect
  DEF LockInv, Phases, RunnerPhases, ClientPhases, Procs, Locks, OpenLive
<1>2. Shape'
  BY RunnerLockAssumption, <1>1
  DEF LockInv, Shape, Procs, Locks, Names, OpenLive, Opened, Moved
<1>3. OneHolder'
  BY RunnerLockAssumption, <1>1
  DEF LockInv, Shape, OneHolder, HasLive, Held, HolderPhases, Procs, Locks,
      OpenLive, Opened, Moved
<1>4. Held'
  BY RunnerLockAssumption, <1>1
  DEF LockInv, Shape, Held, HasLive, HolderPhases, Procs, Locks, OpenLive,
      Opened, Moved
<1>5. Owned'
  <2>1. ASSUME NEW q \in Procs, Owns(q)'
        PROVE  HasLive(q)' /\ fd'[q]["live"] # None /\ path'["live"] = fd'[q]["live"]
    <3>1. q # r /\ Owns(q)
      BY <1>1, <2>1 DEF Moved, Owns, OpenLive
    <3>2. HasLive(q) /\ fd[q]["live"] # None /\ path["live"] = fd[q]["live"]
      BY <3>1 DEF LockInv, Owned
    <3>3. path'["live"] = path["live"] /\ fd'[q]["live"] = fd[q]["live"] /\ HasLive(q)'
      BY <1>1, <3>1, <3>2 DEF Opened, Locks, HasLive, OpenLive
    <3> QED  BY <3>2, <3>3
  <2> QED  BY <2>1 DEF Owned
<1>6. Kept'
  BY RunnerLockAssumption, <1>1
  DEF LockInv, Shape, Kept, Procs, Locks, Names, OpenLive, Opened, Moved
<1>7. Asked'
  BY RunnerLockAssumption, <1>1
  DEF LockInv, Shape, Asked, Asking, Procs, Locks, OpenLive, Opened, Moved
<1> QED  BY <1>2, <1>3, <1>4, <1>5, <1>6, <1>7 DEF LockInv

LEMMA WaitLiveKeeps ==
  ASSUME LockInv, NEW r \in Runners, WaitLive(r)
  PROVE  LockInv'
<1>1. Moved(r, "check")
  BY GoEffect
  DEF LockInv, Phases, RunnerPhases, ClientPhases, Procs, Locks, WaitLive
<1>2. Shape'
  BY RunnerLockAssumption, <1>1
  DEF LockInv, Shape, Procs, Locks, Names, WaitLive, Locked, Acquire, Moved
<1>3. OneHolder'
  BY RunnerLockAssumption, <1>1
  DEF LockInv, Shape, OneHolder, HasLive, Held, HolderPhases, Procs, Locks,
      WaitLive, Locked, Acquire, Moved
<1>4. Held'
  BY RunnerLockAssumption, <1>1
  DEF LockInv, Shape, Held, HasLive, HolderPhases, Procs, Locks, WaitLive,
      Locked, Acquire, Moved
<1>5. Owned'
  BY RunnerLockAssumption, <1>1
  DEF LockInv, Shape, Owned, Owns, OneHolder, Held, HasLive, HolderPhases,
      Procs, Locks, Names, WaitLive, Locked, Acquire, Moved
<1>6. Kept'
  BY RunnerLockAssumption, <1>1
  DEF LockInv, Shape, Kept, Procs, Locks, Names, WaitLive, Locked, Acquire,
      Moved
<1>7. Asked'
  BY RunnerLockAssumption, <1>1
  DEF LockInv, Shape, Asked, Asking, Procs, Locks, WaitLive, Locked, Acquire,
      Moved
<1> QED  BY <1>2, <1>3, <1>4, <1>5, <1>6, <1>7 DEF LockInv

LEMMA CheckLockKeeps ==
  ASSUME LockInv, NEW r \in Runners, CheckLock(r)
  PROVE  LockInv'
<1>1. \/ Moved(r, "check2") /\ UNCHANGED <<fd, holds>>
      \/ Shut(r) /\ (Moved(r, "again") \/ Moved(r, "idle"))
  <2>1. r \in Procs /\ "lock" \in Locks /\ "live" \in Locks
    BY DEF Procs, Locks
  <2>2. "check2" \in Phases /\ "again" \in Phases
    BY DEF Phases, RunnerPhases, ClientPhases
  <2>3. CASE Matches(r, "lock")
    BY <2>1, <2>2, <2>3, GoEffect DEF LockInv, CheckLock
  <2>4. CASE ~(Matches(r, "lock"))
    BY <2>1, <2>2, <2>4, RetryEffect DEF LockInv, CheckLock
  <2> QED  BY <2>3, <2>4
<1>2. Shape'
  BY RunnerLockAssumption, <1>1
  DEF LockInv, Shape, Procs, Locks, Names, CheckLock, Shut, Moved
<1>3. OneHolder'
  BY RunnerLockAssumption, <1>1
  DEF LockInv, Shape, OneHolder, HasLive, Held, HolderPhases, Procs, Locks,
      CheckLock, Shut, Moved
<1>4. Held'
  BY RunnerLockAssumption, <1>1
  DEF LockInv, Shape, Held, HasLive, HolderPhases, Procs, Locks, CheckLock,
      Shut, Moved
<1>5. Owned'
  BY RunnerLockAssumption, <1>1
  DEF LockInv, Shape, Owned, Owns, OneHolder, Held, HasLive, HolderPhases,
      Procs, Locks, Names, CheckLock, Shut, Moved
<1>6. Kept'
  BY RunnerLockAssumption, <1>1
  DEF LockInv, Shape, Kept, Procs, Locks, Names, CheckLock, Shut, Moved
<1>7. Asked'
  BY RunnerLockAssumption, <1>1
  DEF LockInv, Shape, Asked, Asking, Procs, Locks, CheckLock, Shut, Moved
<1> QED  BY <1>2, <1>3, <1>4, <1>5, <1>6, <1>7 DEF LockInv

LEMMA CheckLiveKeeps ==
  ASSUME LockInv, NEW r \in Runners, CheckLive(r)
  PROVE  LockInv'
<1>1. \/ Matches(r, "live") /\ Moved(r, "sweep") /\ UNCHANGED <<fd, holds>>
      \/ Shut(r) /\ (Moved(r, "again") \/ Moved(r, "idle"))
  <2>1. r \in Procs /\ "lock" \in Locks /\ "live" \in Locks
    BY DEF Procs, Locks
  <2>2. "sweep" \in Phases /\ "again" \in Phases
    BY DEF Phases, RunnerPhases, ClientPhases
  <2>3. CASE Matches(r, "live")
    BY <2>1, <2>2, <2>3, GoEffect DEF LockInv, CheckLive
  <2>4. CASE ~(Matches(r, "live"))
    BY <2>1, <2>2, <2>4, RetryEffect DEF LockInv, CheckLive
  <2> QED  BY <2>3, <2>4
<1>2. Shape'
  BY RunnerLockAssumption, <1>1
  DEF LockInv, Shape, Procs, Locks, Names, CheckLive, Matches, Shut, Moved
<1>3. OneHolder'
  BY RunnerLockAssumption, <1>1
  DEF LockInv, Shape, OneHolder, HasLive, Held, HolderPhases, Procs, Locks,
      CheckLive, Matches, Shut, Moved
<1>4. Held'
  BY RunnerLockAssumption, <1>1
  DEF LockInv, Shape, Held, HasLive, HolderPhases, Procs, Locks, CheckLive,
      Matches, Shut, Moved
<1>5. Owned'
  BY RunnerLockAssumption, <1>1
  DEF LockInv, Shape, Owned, Owns, OneHolder, Held, HasLive, HolderPhases,
      Procs, Locks, Names, CheckLive, Matches, Shut, Moved
<1>6. Kept'
  BY RunnerLockAssumption, <1>1
  DEF LockInv, Shape, Kept, Procs, Locks, Names, CheckLive, Matches, Shut,
      Moved
<1>7. Asked'
  BY RunnerLockAssumption, <1>1
  DEF LockInv, Shape, Asked, Asking, Procs, Locks, CheckLive, Matches, Shut,
      Moved
<1> QED  BY <1>2, <1>3, <1>4, <1>5, <1>6, <1>7 DEF LockInv

LEMMA BindKeeps ==
  ASSUME LockInv, NEW r \in Runners, Bind(r)
  PROVE  LockInv'
<1>1. Moved(r, "bound")
  BY GoEffect
  DEF LockInv, Phases, RunnerPhases, ClientPhases, Procs, Locks, Bind, Write
<1>2. Shape'
  BY RunnerLockAssumption, <1>1
  DEF LockInv, Shape, Procs, Locks, Names, Bind, Write, Moved
<1>3. OneHolder'
  BY RunnerLockAssumption, <1>1
  DEF LockInv, Shape, OneHolder, HasLive, Held, HolderPhases, Procs, Locks,
      Bind, Write, Moved
<1>4. Held'
  BY RunnerLockAssumption, <1>1
  DEF LockInv, Shape, Held, HasLive, HolderPhases, Procs, Locks, Bind, Write,
      Moved
<1>5. Owned'
  BY RunnerLockAssumption, <1>1
  DEF LockInv, Shape, Owned, Owns, OneHolder, Held, HasLive, HolderPhases,
      Procs, Locks, Names, Bind, Write, Moved
<1>6. Kept'
  BY RunnerLockAssumption, <1>1, OneOwner
  DEF LockInv, Shape, Kept, Procs, Locks, Names, Exclusive, Owns, Bind, Write,
      Moved
<1>7. Asked'
  BY RunnerLockAssumption, <1>1
  DEF LockInv, Shape, Asked, Asking, Procs, Locks, Bind, Write, Moved
<1> QED  BY <1>2, <1>3, <1>4, <1>5, <1>6, <1>7 DEF LockInv

LEMMA PublishKeeps ==
  ASSUME LockInv, NEW r \in Runners, Publish(r)
  PROVE  LockInv'
<1>1. Moved(r, "published")
  BY GoEffect
  DEF LockInv, Phases, RunnerPhases, ClientPhases, Procs, Locks, Publish,
      Write
<1>2. Shape'
  BY RunnerLockAssumption, <1>1
  DEF LockInv, Shape, Procs, Locks, Names, Publish, Write, Moved
<1>3. OneHolder'
  BY RunnerLockAssumption, <1>1
  DEF LockInv, Shape, OneHolder, HasLive, Held, HolderPhases, Procs, Locks,
      Publish, Write, Moved
<1>4. Held'
  BY RunnerLockAssumption, <1>1
  DEF LockInv, Shape, Held, HasLive, HolderPhases, Procs, Locks, Publish,
      Write, Moved
<1>5. Owned'
  BY RunnerLockAssumption, <1>1
  DEF LockInv, Shape, Owned, Owns, OneHolder, Held, HasLive, HolderPhases,
      Procs, Locks, Names, Publish, Write, Moved
<1>6. Kept'
  BY RunnerLockAssumption, <1>1
  DEF LockInv, Shape, Kept, Procs, Locks, Names, Publish, Write, Moved
<1>7. Asked'
  BY RunnerLockAssumption, <1>1
  DEF LockInv, Shape, Asked, Asking, Procs, Locks, Publish, Write, Moved
<1> QED  BY <1>2, <1>3, <1>4, <1>5, <1>6, <1>7 DEF LockInv

LEMMA ClearErrorKeeps ==
  ASSUME LockInv, NEW r \in Runners, ClearError(r)
  PROVE  LockInv'
<1>1. Shape'
  BY RunnerLockAssumption
  DEF LockInv, Shape, Procs, Locks, Names, ClearError, query, Phases,
      RunnerPhases
<1>2. OneHolder'
  BY RunnerLockAssumption
  DEF LockInv, Shape, OneHolder, HasLive, Held, HolderPhases, Procs, Locks,
      ClearError, query, Phases, RunnerPhases
<1>3. Held'
  BY RunnerLockAssumption
  DEF LockInv, Shape, Held, HasLive, HolderPhases, Procs, Locks, ClearError,
      query, Phases, RunnerPhases
<1>4. Owned'
  BY RunnerLockAssumption
  DEF LockInv, Shape, Owned, Owns, OneHolder, Held, HasLive, HolderPhases,
      Procs, Locks, Names, ClearError, query, Phases, RunnerPhases
<1>5. Kept'
  BY RunnerLockAssumption
  DEF LockInv, Shape, Kept, Procs, Locks, Names, ClearError, query, Phases,
      RunnerPhases
<1>6. Asked'
  BY RunnerLockAssumption
  DEF LockInv, Shape, Asked, Asking, Procs, Locks, ClearError, query, Phases,
      RunnerPhases
<1> QED  BY <1>1, <1>2, <1>3, <1>4, <1>5, <1>6 DEF LockInv

LEMMA FailKeeps ==
  ASSUME LockInv, NEW r \in Runners, Fail(r)
  PROVE  LockInv'
<1>1. Moved(r, "drop")
  BY GoEffect
  DEF LockInv, Phases, RunnerPhases, ClientPhases, Procs, Locks, Fail, Write
<1>2. Shape'
  BY RunnerLockAssumption, <1>1
  DEF LockInv, Shape, Procs, Locks, Names, Fail, Write, Moved
<1>3. OneHolder'
  BY RunnerLockAssumption, <1>1
  DEF LockInv, Shape, OneHolder, HasLive, Held, HolderPhases, Procs, Locks,
      Fail, Write, Moved
<1>4. Held'
  BY RunnerLockAssumption, <1>1
  DEF LockInv, Shape, Held, HasLive, HolderPhases, Procs, Locks, Fail, Write,
      Moved
<1>5. Owned'
  BY RunnerLockAssumption, <1>1
  DEF LockInv, Shape, Owned, Owns, OneHolder, Held, HasLive, HolderPhases,
      Procs, Locks, Names, Fail, Write, Moved
<1>6. Kept'
  BY RunnerLockAssumption, <1>1
  DEF LockInv, Shape, Kept, Procs, Locks, Names, Fail, Write, Moved
<1>7. Asked'
  BY RunnerLockAssumption, <1>1
  DEF LockInv, Shape, Asked, Asking, Procs, Locks, Fail, Write, Moved
<1> QED  BY <1>2, <1>3, <1>4, <1>5, <1>6, <1>7 DEF LockInv

LEMMA EndKeeps ==
  ASSUME LockInv, NEW r \in Runners, End(r)
  PROVE  LockInv'
<1>1. Moved(r, "drop")
  BY GoEffect DEF LockInv, Phases, RunnerPhases, ClientPhases, Procs, Locks, End
<1>2. Shape'
  BY RunnerLockAssumption, <1>1
  DEF LockInv, Shape, Procs, Locks, Names, End, files, Moved
<1>3. OneHolder'
  BY RunnerLockAssumption, <1>1
  DEF LockInv, Shape, OneHolder, HasLive, Held, HolderPhases, Procs, Locks,
      End, files, Moved
<1>4. Held'
  BY RunnerLockAssumption, <1>1
  DEF LockInv, Shape, Held, HasLive, HolderPhases, Procs, Locks, End, files,
      Moved
<1>5. Owned'
  BY RunnerLockAssumption, <1>1
  DEF LockInv, Shape, Owned, Owns, OneHolder, Held, HasLive, HolderPhases,
      Procs, Locks, Names, End, files, Moved
<1>6. Kept'
  BY RunnerLockAssumption, <1>1
  DEF LockInv, Shape, Kept, Procs, Locks, Names, End, files, Moved
<1>7. Asked'
  BY RunnerLockAssumption, <1>1
  DEF LockInv, Shape, Asked, Asking, Procs, Locks, End, files, Moved
<1> QED  BY <1>2, <1>3, <1>4, <1>5, <1>6, <1>7 DEF LockInv

LEMMA ClosedKeeps ==
  ASSUME LockInv, NEW p \in Procs, Closed(p)
  PROVE  LockInv'
<1>1. Shut(p) /\ Moved(p, "idle")
  BY CloseEffect, GoEffect
  DEF LockInv, Phases, RunnerPhases, ClientPhases, Procs, Locks, Closed, Leave
<1>2. Shape'
  BY RunnerLockAssumption, <1>1
  DEF LockInv, Shape, Procs, Locks, Names, Closed, Leave, Shut, Moved
<1>3. OneHolder'
  BY RunnerLockAssumption, <1>1
  DEF LockInv, Shape, OneHolder, HasLive, Held, HolderPhases, Procs, Locks,
      Closed, Leave, Shut, Moved
<1>4. Held'
  BY RunnerLockAssumption, <1>1
  DEF LockInv, Shape, Held, HasLive, HolderPhases, Procs, Locks, Closed,
      Leave, Shut, Moved
<1>5. Owned'
  BY RunnerLockAssumption, <1>1
  DEF LockInv, Shape, Owned, Owns, OneHolder, Held, HasLive, HolderPhases,
      Procs, Locks, Names, Closed, Leave, Shut, Moved
<1>6. Kept'
  BY RunnerLockAssumption, <1>1
  DEF LockInv, Shape, Kept, Procs, Locks, Names, Closed, Leave, Shut, Moved
<1>7. Asked'
  BY RunnerLockAssumption, <1>1
  DEF LockInv, Shape, Asked, Asking, Procs, Locks, Closed, Leave, Shut, Moved
<1> QED  BY <1>2, <1>3, <1>4, <1>5, <1>6, <1>7 DEF LockInv

LEMMA DieKeeps ==
  ASSUME LockInv, NEW p \in Procs, Die(p)
  PROVE  LockInv'
<1>1. Shut(p) /\ Moved(p, "idle")
  BY CloseEffect, GoEffect
  DEF LockInv, Phases, RunnerPhases, ClientPhases, Procs, Locks, Die, Leave
<1>2. Shape'
  BY RunnerLockAssumption, <1>1
  DEF LockInv, Shape, Procs, Locks, Names, Die, Leave, Forget, Answers, Shut,
      Moved
<1>3. OneHolder'
  BY RunnerLockAssumption, <1>1
  DEF LockInv, Shape, OneHolder, HasLive, Held, HolderPhases, Procs, Locks,
      Die, Leave, Forget, Answers, Shut, Moved
<1>4. Held'
  BY RunnerLockAssumption, <1>1
  DEF LockInv, Shape, Held, HasLive, HolderPhases, Procs, Locks, Die, Leave,
      Forget, Answers, Shut, Moved
<1>5. Owned'
  BY RunnerLockAssumption, <1>1
  DEF LockInv, Shape, Owned, Owns, OneHolder, Held, HasLive, HolderPhases,
      Procs, Locks, Names, Die, Leave, Forget, Answers, Shut, Moved
<1>6. Kept'
  BY RunnerLockAssumption, <1>1
  DEF LockInv, Shape, Kept, Procs, Locks, Names, Die, Leave, Forget, Answers,
      Shut, Moved
<1>7. Asked'
  BY RunnerLockAssumption, <1>1
  DEF LockInv, Shape, Asked, Asking, Procs, Locks, Die, Leave, Forget,
      Answers, Shut, Moved
<1> QED  BY <1>2, <1>3, <1>4, <1>5, <1>6, <1>7 DEF LockInv

LEMMA ReadRecordKeeps ==
  ASSUME LockInv, NEW c \in Clients, ReadRecord(c)
  PROVE  LockInv'
<1>1. Shape'
  BY RunnerLockAssumption
  DEF LockInv, Shape, Procs, Locks, Names, ReadRecord, files, Phases,
      ClientPhases
<1>2. OneHolder'
  BY RunnerLockAssumption
  DEF LockInv, Shape, OneHolder, HasLive, Held, HolderPhases, Procs, Locks,
      ReadRecord, files, Phases, ClientPhases
<1>3. Held'
  BY RunnerLockAssumption
  DEF LockInv, Shape, Held, HasLive, HolderPhases, Procs, Locks, ReadRecord,
      files, Phases, ClientPhases
<1>4. Owned'
  BY RunnerLockAssumption
  DEF LockInv, Shape, Owned, Owns, OneHolder, Held, HasLive, HolderPhases,
      Procs, Locks, Names, ReadRecord, files, Phases, ClientPhases
<1>5. Kept'
  BY RunnerLockAssumption
  DEF LockInv, Shape, Kept, Procs, Locks, Names, ReadRecord, files, Phases,
      ClientPhases
<1>6. Asked'
  BY RunnerLockAssumption
  DEF LockInv, Shape, Asked, Asking, Procs, Locks, Kept, Names, ReadRecord,
      files, Phases, ClientPhases
<1> QED  BY <1>1, <1>2, <1>3, <1>4, <1>5, <1>6 DEF LockInv

LEMMA OpenProbeKeeps ==
  ASSUME LockInv, NEW c \in Clients, OpenProbe(c)
  PROVE  LockInv'
<1>1. Queried(c, {"test", "error", "answered"})
  BY AnswerEffect
  DEF LockInv, Phases, RunnerPhases, ClientPhases, Procs, Locks, OpenProbe,
      Queried, Shape, query
<1>2. /\ fd' \in [Procs -> [Locks -> Inodes \cup {None}]]
      /\ \A q \in Procs : q # c => fd'[q] = fd[q]
      /\ UNCHANGED <<path, holds, at>>
  <2>1. CASE path["live"] = None
    BY <2>1 DEF LockInv, Shape, OpenProbe
  <2>2. CASE path["live"] # None
    <3>1. fd' = [fd EXCEPT ![c]["live"] = path["live"]]
      BY <2>2 DEF OpenProbe
    <3>2. UNCHANGED <<path, holds, at>>
      BY DEF OpenProbe
    <3> QED
      BY <3>1, <3>2 DEF LockInv, Shape, Procs, Locks
  <2> QED  BY <2>1, <2>2
<1>3. IF path["live"] = None THEN pc'[c] # "test"
      ELSE pc'[c] = "test" /\ fd'[c]["live"] = path["live"]
  <2>1. CASE path["live"] = None
    <3>1. Answer(c, FALSE)
      BY <2>1 DEF OpenProbe
    <3> QED
      BY <2>1, <3>1, AnswerEffect DEF LockInv, Queried
  <2>2. CASE path["live"] # None
    BY <2>2 DEF LockInv, Shape, OpenProbe, Procs, Locks
  <2> QED  BY <2>1, <2>2
<1>4. Shape'
  BY RunnerLockAssumption, <1>1, <1>2, <1>3
  DEF LockInv, Shape, Procs, Locks, Names, OpenProbe, Queried
<1>5. OneHolder'
  BY RunnerLockAssumption, <1>1, <1>2, <1>3
  DEF LockInv, Shape, OneHolder, HasLive, Held, HolderPhases, Procs, Locks,
      OpenProbe, Queried
<1>6. Held'
  BY RunnerLockAssumption, <1>1, <1>2, <1>3
  DEF LockInv, Shape, Held, HasLive, HolderPhases, Procs, Locks, OpenProbe,
      Queried
<1>7. Owned'
  BY RunnerLockAssumption, <1>1, <1>2, <1>3
  DEF LockInv, Shape, Owned, Owns, OneHolder, Held, HasLive, HolderPhases,
      Procs, Locks, Names, OpenProbe, Queried
<1>8. Kept'
  BY RunnerLockAssumption, <1>1, <1>2, <1>3
  DEF LockInv, Shape, Kept, Procs, Locks, Names, OpenProbe, Queried
<1>9. Asked'
  BY RunnerLockAssumption, <1>1, <1>2, <1>3
  DEF LockInv, Shape, Asked, Asking, Procs, Locks, Owned, Owns, OpenProbe,
      Queried
<1> QED  BY <1>4, <1>5, <1>6, <1>7, <1>8, <1>9 DEF LockInv

LEMMA TestLiveKeeps ==
  ASSUME LockInv, NEW c \in Clients, TestLive(c)
  PROVE  LockInv'
<1>1. \/ /\ Locked("live", fd[c]["live"]) /\ Shut(c)
         /\ Queried(c, {"error", "answered"})
         /\ record[c] # None => pc'[c] = "answered" /\ answer'[c] = "Ready"
      \/ /\ ~Locked("live", fd[c]["live"]) /\ Locking(c, "live")
         /\ Queried(c, {"release"}) /\ UNCHANGED fd
  <2>1. c \in Procs /\ "lock" \in Locks /\ "live" \in Locks
    BY DEF Procs, Locks
  <2>2. "release" \in Phases
    BY DEF Phases, RunnerPhases, ClientPhases
  <2>3. CASE Locked("live", fd[c]["live"])
    BY <2>1, <2>2, <2>3, CloseEffect, AnswerEffect DEF LockInv, TestLive, Queried
  <2>4. CASE ~(Locked("live", fd[c]["live"]))
    BY <2>1, <2>2, <2>4, AcquireEffect DEF LockInv, Shape, TestLive, Queried, query
  <2> QED  BY <2>3, <2>4
<1>2. Shape'
  BY RunnerLockAssumption, <1>1
  DEF LockInv, Shape, Procs, Locks, Names, TestLive, Locked, Shut, Locking,
      Queried
<1>3. OneHolder'
  BY RunnerLockAssumption, <1>1
  DEF LockInv, Shape, OneHolder, HasLive, Held, HolderPhases, Procs, Locks,
      TestLive, Locked, Shut, Locking, Queried
<1>4. Held'
  BY RunnerLockAssumption, <1>1
  DEF LockInv, Shape, Held, HasLive, HolderPhases, Procs, Locks, TestLive,
      Locked, Shut, Locking, Queried
<1>5. Owned'
  BY RunnerLockAssumption, <1>1
  DEF LockInv, Shape, Owned, Owns, OneHolder, Held, HasLive, HolderPhases,
      Procs, Locks, Names, TestLive, Locked, Shut, Locking, Queried
<1>6. Kept'
  BY RunnerLockAssumption, <1>1
  DEF LockInv, Shape, Kept, Procs, Locks, Names, TestLive, Locked, Shut,
      Locking, Queried
<1>7. Asked'
  <2>1. ASSUME NEW d \in Clients, Asking(d)', steady'[d] # None
        PROVE  /\ pc'[d] \notin {"release", "error"}
               /\ pc'[steady'[d]] = "serve"
               /\ record'[d] = steady'[d]
               /\ pc'[d] = "test" => fd'[d]["live"] = fd'[steady'[d]]["live"]
               /\ pc'[d] = "answered" => answer'[d] = "Ready"
    <3>1. pc[c] = "test" /\ Asking(c) /\ UNCHANGED <<record, steady>>
      BY <1>1 DEF TestLive, Asking, Queried
    <3>2. Asking(d) /\ steady[d] \in Procs /\ pc[steady[d]] = "serve" /\ record[d] = steady[d]
      BY <1>1, <2>1, <3>1 DEF LockInv, Shape, Asked, Asking, Queried, Procs
    <3>3. HasLive(steady[d])
      BY <3>2 DEF LockInv, Owned, Owns
    <3>4. CASE d = c
      <4>1. fd[c]["live"] = fd[steady[c]]["live"]
        BY <2>1, <3>1, <3>2, <3>4 DEF LockInv, Asked
      <4>2. Locked("live", fd[c]["live"])
        BY <3>2, <3>3, <3>4, <4>1 DEF Locked, HasLive
      <4>3. pc'[c] = "answered" /\ answer'[c] = "Ready"
        BY <1>1, <2>1, <3>1, <3>2, <3>4, <4>2 DEF Queried
      <4> QED
        BY <1>1, <3>1, <3>2, <3>4, <4>3 DEF Queried
    <3>5. CASE d # c
      <4>1. pc'[d] = pc[d] /\ answer'[d] = answer[d] /\ pc'[steady[d]] = "serve"
        BY <1>1, <3>1, <3>2, <3>5 DEF Queried, Procs
      <4>2. fd'[d] = fd[d] /\ fd'[steady[d]] = fd[steady[d]]
        BY <1>1, <3>1, <3>2, <3>5 DEF Shut, Procs
      <4> QED
        BY <2>1, <3>1, <3>2, <4>1, <4>2 DEF LockInv, Asked
    <3> QED  BY <3>4, <3>5
  <2> QED  BY <2>1 DEF Asked, Asking
<1> QED  BY <1>2, <1>3, <1>4, <1>5, <1>6, <1>7 DEF LockInv

LEMMA ReleaseProbeKeeps ==
  ASSUME LockInv, NEW c \in Clients, ReleaseProbe(c)
  PROVE  LockInv'
<1>1. Shut(c)
  BY CloseEffect
  DEF LockInv, Phases, RunnerPhases, ClientPhases, Procs, Locks, ReleaseProbe
<1>2. Shape'
  BY RunnerLockAssumption, <1>1
  DEF LockInv, Shape, Procs, Locks, Names, ReleaseProbe, Answer, Answers,
      Shut, Phases, ClientPhases
<1>3. OneHolder'
  BY RunnerLockAssumption, <1>1
  DEF LockInv, Shape, OneHolder, HasLive, Held, HolderPhases, Procs, Locks,
      ReleaseProbe, Answer, Answers, Shut, Phases, ClientPhases
<1>4. Held'
  BY RunnerLockAssumption, <1>1
  DEF LockInv, Shape, Held, HasLive, HolderPhases, Procs, Locks, ReleaseProbe,
      Answer, Answers, Shut, Phases, ClientPhases
<1>5. Owned'
  BY RunnerLockAssumption, <1>1
  DEF LockInv, Shape, Owned, Owns, OneHolder, Held, HasLive, HolderPhases,
      Procs, Locks, Names, ReleaseProbe, Answer, Answers, Shut, Phases,
      ClientPhases
<1>6. Kept'
  BY RunnerLockAssumption, <1>1
  DEF LockInv, Shape, Kept, Procs, Locks, Names, ReleaseProbe, Answer,
      Answers, Shut, Phases, ClientPhases
<1>7. Asked'
  BY RunnerLockAssumption, <1>1
  DEF LockInv, Shape, Asked, Asking, Procs, Locks, ReleaseProbe, Answer,
      Answers, Shut, Phases, ClientPhases
<1> QED  BY <1>2, <1>3, <1>4, <1>5, <1>6, <1>7 DEF LockInv

LEMMA ReadErrorKeeps ==
  ASSUME LockInv, NEW c \in Clients, ReadError(c)
  PROVE  LockInv'
<1>1. Shape'
  BY RunnerLockAssumption
  DEF LockInv, Shape, Procs, Locks, Names, ReadError, files, Answers, Phases,
      ClientPhases
<1>2. OneHolder'
  BY RunnerLockAssumption
  DEF LockInv, Shape, OneHolder, HasLive, Held, HolderPhases, Procs, Locks,
      ReadError, files, Answers, Phases, ClientPhases
<1>3. Held'
  BY RunnerLockAssumption
  DEF LockInv, Shape, Held, HasLive, HolderPhases, Procs, Locks, ReadError,
      files, Answers, Phases, ClientPhases
<1>4. Owned'
  BY RunnerLockAssumption
  DEF LockInv, Shape, Owned, Owns, OneHolder, Held, HasLive, HolderPhases,
      Procs, Locks, Names, ReadError, files, Answers, Phases, ClientPhases
<1>5. Kept'
  BY RunnerLockAssumption
  DEF LockInv, Shape, Kept, Procs, Locks, Names, ReadError, files, Answers,
      Phases, ClientPhases
<1>6. Asked'
  BY RunnerLockAssumption
  DEF LockInv, Shape, Asked, Asking, Procs, Locks, ReadError, files, Answers,
      Phases, ClientPhases
<1> QED  BY <1>1, <1>2, <1>3, <1>4, <1>5, <1>6 DEF LockInv

LEMMA AnsweredKeeps ==
  ASSUME LockInv, NEW c \in Clients, Answered(c)
  PROVE  LockInv'
<1>1. Moved(c, "idle")
  BY GoEffect
  DEF LockInv, Phases, RunnerPhases, ClientPhases, Procs, Locks, Answered
<1>2. Shape'
  BY RunnerLockAssumption, <1>1
  DEF LockInv, Shape, Procs, Locks, Names, Answered, Forget, files, Answers,
      Moved
<1>3. OneHolder'
  BY RunnerLockAssumption, <1>1
  DEF LockInv, Shape, OneHolder, HasLive, Held, HolderPhases, Procs, Locks,
      Answered, Forget, files, Answers, Moved
<1>4. Held'
  BY RunnerLockAssumption, <1>1
  DEF LockInv, Shape, Held, HasLive, HolderPhases, Procs, Locks, Answered,
      Forget, files, Answers, Moved
<1>5. Owned'
  BY RunnerLockAssumption, <1>1
  DEF LockInv, Shape, Owned, Owns, OneHolder, Held, HasLive, HolderPhases,
      Procs, Locks, Names, Answered, Forget, files, Answers, Moved
<1>6. Kept'
  BY RunnerLockAssumption, <1>1
  DEF LockInv, Shape, Kept, Procs, Locks, Names, Answered, Forget, files,
      Answers, Moved
<1>7. Asked'
  BY RunnerLockAssumption, <1>1
  DEF LockInv, Shape, Asked, Asking, Procs, Locks, Answered, Forget, files,
      Answers, Moved
<1> QED  BY <1>2, <1>3, <1>4, <1>5, <1>6, <1>7 DEF LockInv

LEMMA OpenCleanupKeeps ==
  ASSUME LockInv, NEW c \in Clients, OpenCleanup(c)
  PROVE  LockInv'
<1>1. Opened(c, "live") /\ Moved(c, "try")
  BY OpenEffect, GoEffect
  DEF LockInv, Phases, RunnerPhases, ClientPhases, Procs, Locks, OpenCleanup
<1>2. Shape'
  BY RunnerLockAssumption, <1>1
  DEF LockInv, Shape, Procs, Locks, Names, OpenCleanup, Opened, Moved
<1>3. OneHolder'
  BY RunnerLockAssumption, <1>1
  DEF LockInv, Shape, OneHolder, HasLive, Held, HolderPhases, Procs, Locks,
      OpenCleanup, Opened, Moved
<1>4. Held'
  BY RunnerLockAssumption, <1>1
  DEF LockInv, Shape, Held, HasLive, HolderPhases, Procs, Locks, OpenCleanup,
      Opened, Moved
<1>5. Owned'
  <2>1. ASSUME NEW q \in Procs, Owns(q)'
        PROVE  HasLive(q)' /\ fd'[q]["live"] # None /\ path'["live"] = fd'[q]["live"]
    <3>1. q # c /\ Owns(q)
      BY <1>1, <2>1 DEF Moved, Owns, OpenCleanup
    <3>2. HasLive(q) /\ fd[q]["live"] # None /\ path["live"] = fd[q]["live"]
      BY <3>1 DEF LockInv, Owned
    <3>3. path'["live"] = path["live"] /\ fd'[q]["live"] = fd[q]["live"] /\ HasLive(q)'
      BY <1>1, <3>1, <3>2 DEF Opened, Locks, HasLive, OpenCleanup
    <3> QED  BY <3>2, <3>3
  <2> QED  BY <2>1 DEF Owned
<1>6. Kept'
  BY RunnerLockAssumption, <1>1
  DEF LockInv, Shape, Kept, Procs, Locks, Names, OpenCleanup, Opened, Moved
<1>7. Asked'
  BY RunnerLockAssumption, <1>1
  DEF LockInv, Shape, Asked, Asking, Procs, Locks, OpenCleanup, Opened, Moved
<1> QED  BY <1>2, <1>3, <1>4, <1>5, <1>6, <1>7 DEF LockInv

LEMMA TryCleanupKeeps ==
  ASSUME LockInv, NEW c \in Clients, TryCleanup(c)
  PROVE  LockInv'
<1>1. \/ Left(c)
      \/ /\ ~Locked("live", fd[c]["live"]) /\ Locking(c, "live")
         /\ Moved(c, "match") /\ UNCHANGED <<fd, at>>
  <2>1. c \in Procs /\ "lock" \in Locks /\ "live" \in Locks
    BY DEF Procs, Locks
  <2>2. "match" \in Phases
    BY DEF Phases, RunnerPhases, ClientPhases
  <2>3. CASE Locked("live", fd[c]["live"])
    BY <2>1, <2>2, <2>3, LeaveEffect DEF LockInv, TryCleanup
  <2>4. CASE ~(Locked("live", fd[c]["live"]))
    BY <2>1, <2>2, <2>4, AcquireEffect, GoEffect DEF LockInv, TryCleanup
  <2> QED  BY <2>3, <2>4
<1>2. Shape'
  BY RunnerLockAssumption, <1>1
  DEF LockInv, Shape, Procs, Locks, Names, TryCleanup, Locked, Left, Shut,
      Locking, Moved
<1>3. OneHolder'
  BY RunnerLockAssumption, <1>1
  DEF LockInv, Shape, OneHolder, HasLive, Held, HolderPhases, Procs, Locks,
      TryCleanup, Locked, Left, Shut, Locking, Moved
<1>4. Held'
  BY RunnerLockAssumption, <1>1
  DEF LockInv, Shape, Held, HasLive, HolderPhases, Procs, Locks, TryCleanup,
      Locked, Left, Shut, Locking, Moved
<1>5. Owned'
  BY RunnerLockAssumption, <1>1
  DEF LockInv, Shape, Owned, Owns, OneHolder, Held, HasLive, HolderPhases,
      Procs, Locks, Names, TryCleanup, Locked, Left, Shut, Locking, Moved
<1>6. Kept'
  BY RunnerLockAssumption, <1>1
  DEF LockInv, Shape, Kept, Procs, Locks, Names, TryCleanup, Locked, Left,
      Shut, Locking, Moved
<1>7. Asked'
  BY RunnerLockAssumption, <1>1
  DEF LockInv, Shape, Asked, Asking, Procs, Locks, TryCleanup, Locked, Left,
      Shut, Locking, Moved
<1> QED  BY <1>2, <1>3, <1>4, <1>5, <1>6, <1>7 DEF LockInv

LEMMA MatchCleanupKeeps ==
  ASSUME LockInv, NEW c \in Clients, MatchCleanup(c)
  PROVE  LockInv'
<1>1. \/ Matches(c, "live") /\ Moved(c, "clean") /\ UNCHANGED <<fd, holds>>
      \/ Shut(c) /\ (Moved(c, "open") \/ Moved(c, "idle"))
  <2>1. c \in Procs /\ "lock" \in Locks /\ "live" \in Locks
    BY DEF Procs, Locks
  <2>2. "clean" \in Phases /\ "open" \in Phases
    BY DEF Phases, RunnerPhases, ClientPhases
  <2>3. CASE Matches(c, "live")
    BY <2>1, <2>2, <2>3, GoEffect DEF LockInv, MatchCleanup
  <2>4. CASE ~(Matches(c, "live"))
    BY <2>1, <2>2, <2>4, RetryEffect DEF LockInv, MatchCleanup
  <2> QED  BY <2>3, <2>4
<1>2. Shape'
  BY RunnerLockAssumption, <1>1
  DEF LockInv, Shape, Procs, Locks, Names, MatchCleanup, Matches, Shut, Moved
<1>3. OneHolder'
  BY RunnerLockAssumption, <1>1
  DEF LockInv, Shape, OneHolder, HasLive, Held, HolderPhases, Procs, Locks,
      MatchCleanup, Matches, Shut, Moved
<1>4. Held'
  BY RunnerLockAssumption, <1>1
  DEF LockInv, Shape, Held, HasLive, HolderPhases, Procs, Locks, MatchCleanup,
      Matches, Shut, Moved
<1>5. Owned'
  BY RunnerLockAssumption, <1>1
  DEF LockInv, Shape, Owned, Owns, OneHolder, Held, HasLive, HolderPhases,
      Procs, Locks, Names, MatchCleanup, Matches, Shut, Moved
<1>6. Kept'
  BY RunnerLockAssumption, <1>1
  DEF LockInv, Shape, Kept, Procs, Locks, Names, MatchCleanup, Matches, Shut,
      Moved
<1>7. Asked'
  BY RunnerLockAssumption, <1>1
  DEF LockInv, Shape, Asked, Asking, Procs, Locks, MatchCleanup, Matches,
      Shut, Moved
<1> QED  BY <1>2, <1>3, <1>4, <1>5, <1>6, <1>7 DEF LockInv

LEMMA SweepKeeps ==
  ASSUME LockInv, NEW r \in Runners, Unlink(r, "sweep", "boot")
  PROVE  LockInv'
<1> DEFINE f == Script("sweep")[at[r]]
<1>1. Unlinked(r, "sweep", "boot")
  BY UnlinkEffect DEF LockInv, Phases, RunnerPhases, Procs
<1>2. /\ r \in Procs /\ pc[r] = "sweep" /\ at[r] \in 1..3
      /\ path' = [path EXCEPT ![f] = None]
      /\ UNCHANGED <<fd, holds, record, answer>>
  BY <1>1 DEF Unlinked, Script, Procs
<1>3. IF at[r] = 3 THEN Moved(r, "boot")
      ELSE UNCHANGED <<pc, steady>> /\ at'[r] = at[r] + 1
  BY <1>1, <1>2 DEF Unlinked, Script
<1>4. at' \in [Procs -> Nat \ {0}] /\ \A q \in Procs : q # r => at'[q] = at[q]
  BY <1>1 DEF Unlinked
<1>5. f \in {"record", "socket", "error"}
  BY <1>2 DEF Script
<1>6. \A q \in Procs : Owns(q) => q = r
  BY <1>2, OneOwner DEF Exclusive, Owns
<1>7. Shape'
  BY <1>2, <1>3, <1>4, <1>5, RunnerLockAssumption
  DEF LockInv, Shape, Moved, Names, Locks
<1>8. OneHolder'
  BY <1>2 DEF LockInv, OneHolder, HasLive
<1>9. Held'
  BY <1>2, <1>3 DEF LockInv, Shape, Held, HasLive, HolderPhases, Moved
<1>10. Owned'
  <2>1. ASSUME NEW q \in Procs, Owns(q)'
        PROVE  HasLive(q) /\ fd[q]["live"] # None /\ path'["live"] = fd[q]["live"]
    <3>1. Owns(q)
      BY <1>2, <1>3, <1>4, <2>1 DEF LockInv, Shape, Owns, Moved
    <3>2. f # "live"
      BY <1>2, <1>3, <1>4, <1>5, <1>6, <2>1, <3>1 DEF LockInv, Shape, Owns, Moved
    <3>3. path'["live"] = path["live"]
      BY <1>2, <3>2 DEF LockInv, Shape, Names, Locks
    <3> QED  BY <3>1, <3>3 DEF LockInv, Owned
  <2> QED  BY <1>2, <2>1 DEF Owned, HasLive
<1>11. Kept'
  <2>1. ASSUME NEW s \in Runners, pc'[s] \in {"bound", "published", "serve"}
        PROVE  s # r /\ pc[s] = pc'[s] /\ s \in Procs /\ Owns(s)
    BY <1>2, <1>3, <2>1 DEF LockInv, Shape, Moved, Procs, Owns
  <2>2. ASSUME NEW s \in Runners, pc'[s] \in {"bound", "published", "serve"}
        PROVE  path'["socket"] = path["socket"] /\ path'["record"] = path["record"]
    BY <1>2, <1>5, <1>6, <2>1, <2>2 DEF LockInv, Shape, Names, Locks
  <2> QED  BY <2>1, <2>2 DEF LockInv, Kept
<1>12. Asked'
  BY <1>2, <1>3, RunnerLockAssumption
  DEF LockInv, Shape, Asked, Asking, Moved, Procs
<1> QED  BY <1>7, <1>8, <1>9, <1>10, <1>11, <1>12 DEF LockInv

LEMMA DropKeeps ==
  ASSUME LockInv, NEW r \in Runners, Unlink(r, "drop", "ended")
  PROVE  LockInv'
<1> DEFINE f == Script("drop")[at[r]]
<1>1. Unlinked(r, "drop", "ended")
  BY UnlinkEffect DEF LockInv, Phases, RunnerPhases, Procs
<1>2. /\ r \in Procs /\ pc[r] = "drop" /\ at[r] \in 1..4
      /\ path' = [path EXCEPT ![f] = None]
      /\ UNCHANGED <<fd, holds, record, answer>>
  BY <1>1 DEF Unlinked, Script, Procs
<1>3. IF at[r] = 4 THEN Moved(r, "ended")
      ELSE UNCHANGED <<pc, steady>> /\ at'[r] = at[r] + 1
  BY <1>1, <1>2 DEF Unlinked, Script
<1>4. at' \in [Procs -> Nat \ {0}] /\ \A q \in Procs : q # r => at'[q] = at[q]
  BY <1>1 DEF Unlinked
<1>5. /\ f \in {"record", "socket", "live", "lock"}
      /\ f = "live" <=> at[r] = 3
      /\ f \in {"record", "socket"} => at[r] <= 2
  BY <1>2 DEF Script
<1>6. at[r] <= 3 => \A q \in Procs : Owns(q) => q = r
  BY <1>2, OneOwner DEF Exclusive, Owns
<1>7. Shape'
  BY <1>2, <1>3, <1>4, <1>5, RunnerLockAssumption
  DEF LockInv, Shape, Moved, Names, Locks
<1>8. OneHolder'
  BY <1>2 DEF LockInv, OneHolder, HasLive
<1>9. Held'
  BY <1>2, <1>3 DEF LockInv, Shape, Held, HasLive, HolderPhases, Moved
<1>10. Owned'
  <2>1. ASSUME NEW q \in Procs, Owns(q)'
        PROVE  HasLive(q) /\ fd[q]["live"] # None /\ path'["live"] = fd[q]["live"]
    <3>1. Owns(q)
      BY <1>2, <1>3, <1>4, <2>1 DEF LockInv, Shape, Owns, Moved
    <3>2. f # "live"
      BY <1>2, <1>3, <1>4, <1>5, <1>6, <2>1, <3>1 DEF LockInv, Shape, Owns, Moved
    <3>3. path'["live"] = path["live"]
      BY <1>2, <3>2 DEF LockInv, Shape, Names, Locks
    <3> QED  BY <3>1, <3>3 DEF LockInv, Owned
  <2> QED  BY <1>2, <2>1 DEF Owned, HasLive
<1>11. Kept'
  <2>1. ASSUME NEW s \in Runners, pc'[s] \in {"bound", "published", "serve"}
        PROVE  s # r /\ pc[s] = pc'[s] /\ s \in Procs /\ Owns(s)
    BY <1>2, <1>3, <2>1 DEF LockInv, Shape, Moved, Procs, Owns
  <2>2. ASSUME NEW s \in Runners, pc'[s] \in {"bound", "published", "serve"}
        PROVE  path'["socket"] = path["socket"] /\ path'["record"] = path["record"]
    BY <1>2, <1>5, <1>6, <2>1, <2>2 DEF LockInv, Shape, Names, Locks
  <2> QED  BY <2>1, <2>2 DEF LockInv, Kept
<1>12. Asked'
  BY <1>2, <1>3, RunnerLockAssumption
  DEF LockInv, Shape, Asked, Asking, Moved, Procs
<1> QED  BY <1>7, <1>8, <1>9, <1>10, <1>11, <1>12 DEF LockInv

LEMMA CleanKeeps ==
  ASSUME LockInv, NEW c \in Clients, Unlink(c, "clean", "ended")
  PROVE  LockInv'
<1> DEFINE f == Script("clean")[at[c]]
<1>1. Unlinked(c, "clean", "ended")
  BY UnlinkEffect DEF LockInv, Phases, RunnerPhases, Procs
<1>2. /\ c \in Procs /\ pc[c] = "clean" /\ at[c] \in 1..5
      /\ path' = [path EXCEPT ![f] = None]
      /\ UNCHANGED <<fd, holds, record, answer>>
  BY <1>1 DEF Unlinked, Script, Procs
<1>3. IF at[c] = 5 THEN Moved(c, "ended")
      ELSE UNCHANGED <<pc, steady>> /\ at'[c] = at[c] + 1
  BY <1>1, <1>2 DEF Unlinked, Script
<1>4. at' \in [Procs -> Nat \ {0}] /\ \A q \in Procs : q # c => at'[q] = at[q]
  BY <1>1 DEF Unlinked
<1>5. f \in Names /\ (f = "live" <=> at[c] = 5)
  BY <1>2 DEF Script, Names, Locks
<1>6. \A q \in Procs : Owns(q) => q = c
  BY <1>2, OneOwner DEF Exclusive, Owns
<1>7. Shape'
  BY <1>2, <1>3, <1>4, <1>5, RunnerLockAssumption
  DEF LockInv, Shape, Moved, Names, Locks
<1>8. OneHolder'
  BY <1>2 DEF LockInv, OneHolder, HasLive
<1>9. Held'
  BY <1>2, <1>3 DEF LockInv, Shape, Held, HasLive, HolderPhases, Moved
<1>10. Owned'
  <2>1. ASSUME NEW q \in Procs, Owns(q)'
        PROVE  HasLive(q) /\ fd[q]["live"] # None /\ path'["live"] = fd[q]["live"]
    <3>1. Owns(q)
      BY <1>2, <1>3, <1>4, <2>1 DEF LockInv, Shape, Owns, Moved
    <3>2. f # "live"
      BY <1>2, <1>3, <1>4, <1>5, <1>6, <2>1, <3>1 DEF LockInv, Shape, Owns, Moved
    <3>3. path'["live"] = path["live"]
      BY <1>2, <3>2 DEF LockInv, Shape, Names, Locks
    <3> QED  BY <3>1, <3>3 DEF LockInv, Owned
  <2> QED  BY <1>2, <2>1 DEF Owned, HasLive
<1>11. Kept'
  <2>1. ASSUME NEW s \in Runners, pc'[s] \in {"bound", "published", "serve"}
        PROVE  s # c /\ pc[s] = pc'[s] /\ s \in Procs /\ Owns(s)
    BY <1>2, <1>3, <2>1 DEF LockInv, Shape, Moved, Procs, Owns
  <2>2. ASSUME NEW s \in Runners, pc'[s] \in {"bound", "published", "serve"}
        PROVE  path'["socket"] = path["socket"] /\ path'["record"] = path["record"]
    BY <1>2, <1>5, <1>6, <2>1, <2>2 DEF LockInv, Shape, Names, Locks
  <2> QED  BY <2>1, <2>2 DEF LockInv, Kept
<1>12. Asked'
  BY <1>2, <1>3, RunnerLockAssumption
  DEF LockInv, Shape, Asked, Asking, Moved, Procs
<1> QED  BY <1>7, <1>8, <1>9, <1>10, <1>11, <1>12 DEF LockInv
-----------------------------------------------------------------------------
LEMMA NextKeeps == LockInv /\ [Next]_vars => LockInv'
<1> SUFFICES ASSUME LockInv, [Next]_vars
             PROVE  LockInv'
  OBVIOUS
<1>1. ASSUME NEW r \in Runners, Runner(r)
      PROVE  LockInv'
  <2>1. r \in Procs
    BY DEF Procs
  <2>2. CASE OpenLock(r) \/ TryLock(r) \/ OpenLive(r) \/ WaitLive(r)
    BY <2>2, OpenLockKeeps, TryLockKeeps, OpenLiveKeeps, WaitLiveKeeps
  <2>3. CASE CheckLock(r) \/ CheckLive(r)
    BY <2>3, CheckLockKeeps, CheckLiveKeeps
  <2>4. CASE Unlink(r, "sweep", "boot")
    BY <2>4, SweepKeeps
  <2>5. CASE Bind(r) \/ Publish(r) \/ ClearError(r)
    BY <2>5, BindKeeps, PublishKeeps, ClearErrorKeeps
  <2>6. CASE Fail(r) \/ End(r)
    BY <2>6, FailKeeps, EndKeeps
  <2>7. CASE Unlink(r, "drop", "ended")
    BY <2>7, DropKeeps
  <2>8. CASE Closed(r)
    BY <2>1, <2>8, ClosedKeeps
  <2> QED  BY <1>1, <2>2, <2>3, <2>4, <2>5, <2>6, <2>7, <2>8 DEF Runner
<1>2. ASSUME NEW c \in Clients, Client(c)
      PROVE  LockInv'
  <2>1. c \in Procs
    BY DEF Procs
  <2>2. CASE ReadRecord(c) \/ OpenProbe(c) \/ TestLive(c) \/ ReleaseProbe(c)
    BY <2>2, ReadRecordKeeps, OpenProbeKeeps, TestLiveKeeps, ReleaseProbeKeeps
  <2>3. CASE ReadError(c) \/ Answered(c)
    BY <2>3, ReadErrorKeeps, AnsweredKeeps
  <2>4. CASE OpenCleanup(c) \/ TryCleanup(c) \/ MatchCleanup(c)
    BY <2>4, OpenCleanupKeeps, TryCleanupKeeps, MatchCleanupKeeps
  <2>5. CASE Unlink(c, "clean", "ended")
    BY <2>5, CleanKeeps
  <2>6. CASE Closed(c)
    BY <2>1, <2>6, ClosedKeeps
  <2> QED  BY <1>2, <2>2, <2>3, <2>4, <2>5, <2>6 DEF Client
<1>3. ASSUME NEW p \in Mortal, Die(p)
      PROVE  LockInv'
  BY <1>3, DieKeeps, RunnerLockAssumption
<1>4. CASE UNCHANGED vars
  <2>1. Shape' /\ OneHolder' /\ Held'
    BY <1>4 DEF LockInv, Shape, OneHolder, Held, HasLive, vars, files, query
  <2>2. Owned' /\ Kept' /\ Asked'
    BY <1>4
    DEF LockInv, Owned, Owns, HasLive, Kept, Asked, Asking, vars, files,
        query
  <2> QED  BY <2>1, <2>2 DEF LockInv
<1> QED  BY <1>1, <1>2, <1>3, <1>4 DEF Next

THEOREM LockHolds == Spec => []LockInv
<1>1. Init => LockInv
  BY InitLock
<1>2. LockInv /\ [Next]_vars => LockInv'
  BY NextKeeps
<1> QED  BY <1>1, <1>2, PTL DEF Spec

(* However many runners of an identity start, end and die and however many *)
(* clients clean up, at most one of them may touch its files at a time     *)
(* (lock_runner_paths, cleanup_paths).                                     *)
THEOREM RunnersExclude == Spec => []Exclusive
  BY LockHolds, OneOwner, PTL

(* Nobody deletes or replaces the record, the socket or the `.live` of a   *)
(* runner that serves.                                                     *)
THEOREM ServingKeepsFiles == Spec => []FilesKept
<1>1. LockInv => FilesKept
  BY DEF LockInv, Owned, Owns, Kept, FilesKept, Matches, Procs
<1> QED  BY <1>1, LockHolds, PTL

(* runner_state never denies a runner that serves all the while it asks. *)
THEOREM AnswersAreRight == Spec => []AnswerRight
<1>1. LockInv => AnswerRight
  BY DEF LockInv, Asked, Asking, AnswerRight
<1> QED  BY <1>1, LockHolds, PTL
=============================================================================
