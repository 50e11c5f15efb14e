----------------------------- MODULE RunnerLock -----------------------------
(***************************************************************************)
(* The files of one runner identity (runner/lockfile.rs) under every       *)
(* interleaving of the system calls of the processes that use them:        *)
(* runners that start, serve, end or die, and clients that ask for the     *)
(* state of the runner or clean up after it.                               *)
(*                                                                         *)
(* `.lock` and `.live` hold nothing but an inode and its flock, which the  *)
(* kernel drops with the file descriptor.  The record, the socket and the  *)
(* error file are known by the runner that wrote them.                     *)
(***************************************************************************)
EXTENDS Integers, Sequences, FiniteSets

CONSTANTS
  Runners,    \* processes started as a runner of this identity
  Clients,    \* processes that query its state or clean up
  Inodes,     \* enough for every open file: the file system never runs out
  MaxTries,   \* attempts at locking, 8 in the code
  Mortal,     \* processes that may be killed
  None

Procs == Runners \cup Clients
Locks == {"lock", "live"}
Names == Locks \cup {"record", "socket", "error"}

ASSUME RunnerLockAssumption ==
  /\ Runners \cap Clients = {}
  /\ None \notin Inodes \cup Runners
  /\ Mortal \subseteq Procs
  /\ MaxTries \in Nat

VARIABLES
  path,    \* what each name stands for: an inode, the writer of the file, None
  pc, at,  \* where each process is; `at`: in its list of files to unlink
  fd,      \* the lock files each process has open
  holds,   \* <<p, f>>: p has the flock of its open file f
  tries,   \* rounds of locking that found the files swept away
  record,  \* what a client's query read
  answer,  \* what it came to
  steady   \* history: the runner that has been serving during the whole query

files == <<path, fd, holds>>
query == <<record, answer, steady>>
vars == <<files, pc, at, tries, query>>

(* The files unlinked one after another by a runner that has just won, by  *)
(* one that ends (the guard's drop), and by a cleanup.                     *)
Mutant_LockFirst(phase) ==
  CASE phase = "sweep" -> <<"record", "socket", "error">>
    [] phase = "drop"  -> <<"live", "socket", "record", "lock">>
    [] phase = "clean" -> <<"socket", "record", "error", "lock", "live">>
Script(phase) ==
  CASE phase = "sweep" -> <<"record", "socket", "error">>
    [] phase = "drop"  -> <<"socket", "record", "live", "lock">>
    [] phase = "clean" -> <<"socket", "record", "error", "lock", "live">>

RunnerPhases == {"again", "lock", "live", "wait", "check", "check2", "sweep", "boot",
                 "bound", "published", "serve", "drop"}
ClientPhases == {"probe", "test", "release", "error", "answered",
                 "open", "try", "match", "clean"}
-----------------------------------------------------------------------------
(* The file system *)

(* An inode is free again once nothing names it or has it open.  Those of  *)
(* `.lock` and of `.live` are counted apart: nothing compares the two.     *)
Free(f) == {i \in Inodes : path[f] # i /\ \A p \in Procs : fd[p][f] # i}
NewInode(f) == CHOOSE i \in Free(f) : TRUE

Open(p, f) ==
  /\ path[f] = None => Free(f) # {}
  /\ path' = IF path[f] = None THEN [path EXCEPT ![f] = NewInode(f)] ELSE path
  /\ fd' = [fd EXCEPT ![p][f] = path'[f]]

Locked(f, i) == \E p \in Procs : <<p, f>> \in holds /\ fd[p][f] = i
Acquire(p, f) == holds' = holds \cup {<<p, f>>}

(* Closing its files releases their locks; a process that dies closes all. *)
Close(p) ==
  /\ fd' = [fd EXCEPT ![p] = [f \in Locks |-> None]]
  /\ holds' = {h \in holds : h[1] # p}

Matches(p, f) == path[f] = fd[p][f]

(* A runner that serves no more is no longer what a query may report. *)
Go(p, phase) ==
  /\ pc' = [pc EXCEPT ![p] = phase]
  /\ steady' = [c \in Clients |->
       IF c = p \/ (steady[c] = p /\ phase # "serve") THEN None ELSE steady[c]]
Leave(p) == /\ Go(p, "idle") /\ Close(p)
            /\ at' = [at EXCEPT ![p] = 1] /\ tries' = [tries EXCEPT ![p] = 0]

Forget(p) ==
  /\ record' = [c \in Clients |-> IF c = p THEN None ELSE record[c]]
  /\ answer' = [c \in Clients |-> IF c = p THEN "unknown" ELSE answer[c]]

Unlink(p, phase, next) ==
  /\ pc[p] = phase
  /\ at[p] <= Len(Script(phase))
  /\ path' = [path EXCEPT ![Script(phase)[at[p]]] = None]
  /\ at' = [at EXCEPT ![p] = IF at[p] = Len(Script(phase)) THEN 1 ELSE at[p] + 1]
  /\ IF at[p] = Len(Script(phase)) THEN Go(p, next) ELSE UNCHANGED <<pc, steady>>
  /\ UNCHANGED <<fd, holds, tries, record, answer>>
-----------------------------------------------------------------------------
(* A runner *)

OpenLock(r) ==
  /\ pc[r] \in {"idle", "again"}
  /\ Open(r, "lock")
  /\ Go(r, "lock")
  /\ UNCHANGED <<holds, at, tries, record, answer>>

(* `.lock` is tried, never waited for. *)
TryLock(r) ==
  /\ pc[r] = "lock"
  /\ UNCHANGED <<path, record, answer>>
  /\ IF Locked("lock", fd[r]["lock"])
     THEN Leave(r)
     ELSE Acquire(r, "lock") /\ Go(r, "live") /\ UNCHANGED <<fd, at, tries>>

OpenLive(r) ==
  /\ pc[r] = "live"
  /\ Open(r, "live")
  /\ Go(r, "wait")
  /\ UNCHANGED <<holds, at, tries, record, answer>>

WaitLive(r) ==
  /\ pc[r] = "wait"
  /\ ~Locked("live", fd[r]["live"])
  /\ Acquire(r, "live")
  /\ Go(r, "check")
  /\ UNCHANGED <<path, fd, at, tries, record, answer>>

(* Both files must still be the ones the paths name; else all over again. *)
Retry(p, phase) ==
  /\ Close(p)
  /\ IF tries[p] + 1 < MaxTries
     THEN Go(p, phase) /\ tries' = [tries EXCEPT ![p] = @ + 1]
     ELSE Go(p, "idle") /\ tries' = [tries EXCEPT ![p] = 0]

CheckLock(r) ==
  /\ pc[r] = "check"
  /\ UNCHANGED <<path, at, record, answer>>
  /\ IF Matches(r, "lock") THEN Go(r, "check2") /\ UNCHANGED <<fd, holds, tries>>
                           ELSE Retry(r, "again")

Mutant_NoRecheck(r) ==
  /\ pc[r] = "check2"
  /\ Go(r, "sweep")
  /\ UNCHANGED <<files, at, tries, record, answer>>
CheckLive(r) ==
  /\ pc[r] = "check2"
  /\ UNCHANGED <<path, at, record, answer>>
  /\ IF Matches(r, "live") THEN Go(r, "sweep") /\ UNCHANGED <<fd, holds, tries>>
                           ELSE Retry(r, "again")

(* Bootstrap: bind the socket, publish the record, forget an old error. *)
Write(r, f, from, to) ==
  /\ pc[r] = from
  /\ path' = [path EXCEPT ![f] = r]
  /\ Go(r, to)
  /\ UNCHANGED <<fd, holds, at, tries, record, answer>>
Bind(r) == Write(r, "socket", "boot", "bound")
Publish(r) == Write(r, "record", "bound", "published")
ClearError(r) ==
  /\ pc[r] = "published"
  /\ path' = [path EXCEPT !["error"] = None]
  /\ pc' = [pc EXCEPT ![r] = "serve"]
  /\ UNCHANGED <<fd, holds, at, tries, query>>

(* A failure, in bootstrap or later, is published before the guard drops. *)
Fail(r) == \E from \in {"boot", "bound", "serve"} : Write(r, "error", from, "drop")
End(r) ==
  /\ pc[r] = "serve"
  /\ Go(r, "drop")
  /\ UNCHANGED <<files, at, tries, record, answer>>

Closed(p) ==
  /\ pc[p] = "ended"
  /\ Leave(p)
  /\ UNCHANGED <<path, record, answer>>

Die(p) ==
  /\ pc[p] # "idle"
  /\ Leave(p) /\ Forget(p)
  /\ UNCHANGED path

Runner(r) ==
  \/ OpenLock(r) \/ TryLock(r) \/ OpenLive(r) \/ WaitLive(r)
  \/ CheckLock(r) \/ CheckLive(r)
  \/ Unlink(r, "sweep", "boot")
  \/ Bind(r) \/ Publish(r) \/ ClearError(r) \/ Fail(r) \/ End(r)
  \/ Unlink(r, "drop", "ended") \/ Closed(r)
-----------------------------------------------------------------------------
(* A client: the state of the runner is read in up to four steps.          *)

ReadRecord(c) ==
  /\ pc[c] = "idle"
  /\ record' = [record EXCEPT ![c] = path["record"]]
  /\ \E s \in IF \E r \in Runners : pc[r] = "serve"
              THEN {r \in Runners : pc[r] = "serve"} ELSE {None} :
       steady' = [steady EXCEPT ![c] = s]
  /\ pc' = [pc EXCEPT ![c] = "probe"]
  /\ UNCHANGED <<files, at, tries, answer>>

Answer(c, alive) ==
  /\ answer' = [answer EXCEPT ![c] =
       CASE record[c] # None /\ alive -> "Ready"
         [] record[c] # None /\ ~alive -> "Stale"
         [] record[c] = None /\ alive -> "Starting"
         [] OTHER -> "unknown"]
  /\ pc' = [pc EXCEPT ![c] = IF record[c] = None /\ ~alive THEN "error" ELSE "answered"]
  /\ UNCHANGED <<record, steady>>

OpenProbe(c) ==
  /\ pc[c] = "probe"
  /\ UNCHANGED <<path, holds, at, tries>>
  /\ IF path["live"] = None
     THEN Answer(c, FALSE) /\ UNCHANGED fd
     ELSE /\ fd' = [fd EXCEPT ![c]["live"] = path["live"]]
          /\ pc' = [pc EXCEPT ![c] = "test"]
          /\ UNCHANGED query

(* A lock that is granted is a runner that is not alive; it is given back  *)
(* when the file is closed.                                                *)
TestLive(c) ==
  /\ pc[c] = "test"
  /\ UNCHANGED <<path, at, tries>>
  /\ IF Locked("live", fd[c]["live"])
     THEN Answer(c, TRUE) /\ Close(c)
     ELSE /\ Acquire(c, "live")
          /\ pc' = [pc EXCEPT ![c] = "release"]
          /\ UNCHANGED <<fd, query>>
ReleaseProbe(c) ==
  /\ pc[c] = "release"
  /\ Answer(c, FALSE) /\ Close(c)
  /\ UNCHANGED <<path, at, tries>>

ReadError(c) ==
  /\ pc[c] = "error"
  /\ answer' = [answer EXCEPT ![c] = IF path["error"] # None THEN "Failed" ELSE "Absent"]
  /\ pc' = [pc EXCEPT ![c] = "answered"]
  /\ UNCHANGED <<files, at, tries, record, steady>>

Answered(c) ==
  /\ pc[c] = "answered"
  /\ Go(c, "idle") /\ Forget(c)
  /\ UNCHANGED <<files, at, tries>>

(* A cleanup: nothing is deleted unless `.live` is won. *)
OpenCleanup(c) ==
  /\ pc[c] \in {"idle", "open"}
  /\ Open(c, "live")
  /\ Go(c, "try")
  /\ UNCHANGED <<holds, at, tries, record, answer>>

TryCleanup(c) ==
  /\ pc[c] = "try"
  /\ UNCHANGED <<path, record, answer>>
  /\ IF Locked("live", fd[c]["live"])
     THEN Leave(c)
     ELSE Acquire(c, "live") /\ Go(c, "match") /\ UNCHANGED <<fd, at, tries>>

Mutant_CleanAnyway(c) ==
  /\ pc[c] = "match"
  /\ Go(c, "clean")
  /\ UNCHANGED <<files, at, tries, record, answer>>
MatchCleanup(c) ==
  /\ pc[c] = "match"
  /\ UNCHANGED <<path, at, record, answer>>
  /\ IF Matches(c, "live") THEN Go(c, "clean") /\ UNCHANGED <<fd, holds, tries>>
                           ELSE Retry(c, "open")

Client(c) ==
  \/ ReadRecord(c) \/ OpenProbe(c) \/ TestLive(c) \/ ReleaseProbe(c)
  \/ ReadError(c) \/ Answered(c)
  \/ OpenCleanup(c) \/ TryCleanup(c) \/ MatchCleanup(c)
  \/ Unlink(c, "clean", "ended") \/ Closed(c)
-----------------------------------------------------------------------------
Init ==
  /\ path = [f \in Names |-> None]
  /\ pc = [p \in Procs |-> "idle"] /\ at = [p \in Procs |-> 1]
  /\ fd = [p \in Procs |-> [f \in Locks |-> None]]
  /\ holds = {}
  /\ tries = [p \in Procs |-> 0]
  /\ record = [c \in Clients |-> None] /\ answer = [c \in Clients |-> "unknown"]
  /\ steady = [c \in Clients |-> None]

Next ==
  \/ \E r \in Runners : Runner(r)
  \/ \E c \in Clients : Client(c)
  \/ \E p \in Mortal : Die(p)

Spec == Init /\ [][Next]_vars
-----------------------------------------------------------------------------
(* Properties *)

(* Those who may change the files: a runner from its checks, a cleanup     *)
(* from its own, until each has unlinked `.live`.                          *)
Owns(p) ==
  \/ pc[p] \in {"sweep", "boot", "bound", "published", "serve"}
  \/ pc[p] = "drop" /\ at[p] <= 3
  \/ pc[p] = "clean"

(* At most one runner of an identity is up, and nobody cleans up under it, *)
(* whoever starts, ends or dies in between.                                *)
Exclusive == \A p, q \in Procs : Owns(p) /\ Owns(q) => p = q

(* While a runner serves, its files stay as it left them. *)
FilesKept ==
  \A r \in Runners : pc[r] = "serve" =>
    /\ Matches(r, "live")
    /\ path["record"] = r /\ path["socket"] = r

(* A client is told of the runner that serves all the while it asks: it is *)
(* never called stale, absent, starting or failed.                         *)
AnswerRight ==
  \A c \in Clients : pc[c] = "answered" /\ steady[c] # None =>
    answer[c] = "Ready" /\ record[c] = steady[c]

(* "every other holder releases it promptly" (lockfile.rs, on `.live`): a  *)
(* runner that has won `.lock` never waits for a runner that serves.       *)
WaitsBriefly ==
  \A r, s \in Runners : ~(pc[r] = "wait" /\ pc[s] = "serve" /\ fd[r]["live"] = fd[s]["live"])
=============================================================================
