---------------------------- MODULE MCRunnerLock ----------------------------
EXTENDS RunnerLock, TLC

Symmetry == Permutations(Runners) \cup Permutations(Clients)

(* The number an inode got does not matter, only who has it open and       *)
(* whether the path names it.                                              *)
Shared(f) == {<<path[f] = i, {p \in Procs : fd[p][f] = i}>> : i \in Inodes}
View ==
  <<Shared("lock"), Shared("live"), [f \in Names \ Locks |-> path[f]],
    pc, at, holds, tries, query>>

(* A second attempt is made as the first one was, so at most one runner is *)
(* seen to make it; a cleanup that gives up may be started anew.           *)
OneRetries ==
  /\ \A c \in Clients : tries[c] = 0
  /\ \A r, s \in Runners : tries[r] > 0 /\ tries[s] > 0 => r = s
=============================================================================
