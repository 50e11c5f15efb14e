------------------------- MODULE ProcessTaskProofs --------------------------
(***************************************************************************)
(* For any number of tasks, children and pids: no exited child is left to  *)
(* a signal that has been used up; the tasks keep the promise of module    *)
(* Supervision; and until a pid is given again or a spawn fails late, the  *)
(* exit of every instance is in exactly one place on its way to its task,  *)
(* so that each stop is reported of an instance that is over.  Then for    *)
(* any number of requests, whatever mishaps there are: what the kernel     *)
(* believes of a task and what the task does agree, up to what is under    *)
(* way between them.                                                       *)
(***************************************************************************)
EXTENDS ProcessSystem, SequenceTheorems, FiniteSetTheorems, TLAPS

(* An exit of i in a queue, and no second one.                             *)
IsExit(m, i) == m.cmd = "Exited" /\ m.inst = i
In(q, i) == InQueue(q, i) # {}
Single(q, i) == \A j, k \in InQueue(q, i) : j = k

LEMMA InAppend ==
  ASSUME NEW S, NEW q \in Seq(S), NEW m \in S, NEW i
  PROVE  /\ In(Append(q, m), i) <=> In(q, i) \/ IsExit(m, i)
         /\ Single(q, i) /\ ~(In(q, i) /\ IsExit(m, i)) => Single(Append(q, m), i)
<1>1. InQueue(Append(q, m), i) = InQueue(q, i) \cup {k \in {Len(q) + 1} : IsExit(m, i)}
  <2>1. /\ DOMAIN q = 1..Len(q) /\ Len(q) \in Nat
        /\ DOMAIN Append(q, m) = 1..(Len(q) + 1)
    BY LenProperties, AppendProperties
  <2>2. /\ \A k \in 1..Len(q) : Append(q, m)[k] = q[k]
        /\ Append(q, m)[Len(q) + 1] = m
    BY AppendProperties
  <2> QED  BY <2>1, <2>2 DEF InQueue, IsExit
<1> QED  BY <1>1 DEF In, Single

LEMMA InTail ==
  ASSUME NEW S, NEW q \in Seq(S), q # <<>>, NEW i
  PROVE  /\ In(q, i) <=> In(Tail(q), i) \/ IsExit(Head(q), i)
         /\ Single(q, i) => Single(Tail(q), i) /\ ~(IsExit(Head(q), i) /\ In(Tail(q), i))
<1>1. /\ DOMAIN q = 1..Len(q) /\ Len(q) \in Nat \ {0}
      /\ DOMAIN Tail(q) = 1..(Len(q) - 1)
  BY LenProperties, HeadTailProperties, EmptySeq
<1>2. \A k \in 1..(Len(q) - 1) : Tail(q)[k] = q[k + 1]
  BY <1>1, HeadTailProperties
<1>3. Head(q) = q[1]
  BY <1>1
<1>4. \A k \in InQueue(Tail(q), i) : k \in Nat /\ k # 0 /\ k + 1 \in InQueue(q, i)
  BY <1>1, <1>2 DEF InQueue
<1>5. \A k \in InQueue(q, i) : k = 1 \/ k - 1 \in InQueue(Tail(q), i)
  BY <1>1, <1>2 DEF InQueue
<1>6. 1 \in InQueue(q, i) <=> IsExit(Head(q), i)
  BY <1>1, <1>3 DEF InQueue, IsExit
<1>7. In(q, i) <=> In(Tail(q), i) \/ IsExit(Head(q), i)
  BY <1>4, <1>5, <1>6 DEF In
<1>8. ASSUME Single(q, i)
      PROVE  Single(Tail(q), i) /\ ~(IsExit(Head(q), i) /\ In(Tail(q), i))
  <2>1. ASSUME NEW j \in InQueue(Tail(q), i), NEW k \in InQueue(Tail(q), i)  PROVE j = k
    BY <1>4, <1>8 DEF Single
  <2>2. ASSUME IsExit(Head(q), i), NEW k \in InQueue(Tail(q), i)  PROVE FALSE
    BY <1>4, <1>6, <1>8, <2>2 DEF Single
  <2> QED  BY <2>1, <2>2 DEF Single, In
<1> QED  BY <1>7, <1>8

LEMMA InEmpty == ASSUME NEW i PROVE ~In(<<>>, i) /\ Single(<<>>, i)
  BY DEF In, Single, InQueue
-----------------------------------------------------------------------------
(* What holds whatever the mishaps.                                        *)

Nobody == Instances \cup {None}
Steps == {"select", "forked", "listening", "write", "ended"}

TypesOK ==
  /\ pc \in [Tasks -> Steps]
  /\ fresh \in [Tasks -> Nobody] /\ process \in [Tasks -> Nobody]
  /\ exitInfo \in [Tasks -> Nobody]
  /\ eof \in [Tasks -> BOOLEAN] /\ readySent \in [Tasks -> BOOLEAN]
  /\ mailbox \in [Tasks -> Seq(Msgs)] /\ inbox \in [Tasks -> Seq(Reports)]
  /\ open \subseteq Tasks
  /\ leader \in [Instances -> {"unborn", "alive", "zombie", "gone"}]
  /\ kin \in [Instances -> {"none", "group", "stray"}]
  /\ pid \in [Instances -> Pids \cup {None}]
  /\ sigchld \in BOOLEAN
  /\ waiter \in {"idle", "reaping", "holding"} /\ hand \in Nobody
  /\ listeners \in [Pids -> Nobody] /\ unclaimed \in [Pids -> Nobody]
  /\ mishap \in BOOLEAN

(* A task has the child it is spawning, or a process, of its own.          *)
Of(i, t) == i \in Instances /\ Owner[i] = t /\ leader[i] # "unborn"
Holding(t) ==
  /\ fresh[t] # None <=> pc[t] \in {"forked", "listening"}
  /\ fresh[t] # None => Of(fresh[t], t) /\ process[t] = None /\ exitInfo[t] # fresh[t]
  /\ process[t] # None => Of(process[t], t) /\ (eof[t] => ~TtyOpen(process[t]))
  /\ pc[t] = "write" => process[t] # None
  /\ pc[t] = "ended" => process[t] = None

Bearing(i) ==
  IF leader[i] = "unborn" THEN pid[i] = None /\ kin[i] = "none" ELSE pid[i] \in Pids

(* Only exits of reaped children are passed on, under their own pids.      *)
IsGone(i) == i \in Instances /\ leader[i] = "gone"
Reaped ==
  /\ hand # None <=> waiter = "holding"
  /\ hand # None => IsGone(hand)
  /\ \A p \in Pids :
       /\ unclaimed[p] # None => IsGone(unclaimed[p]) /\ pid[unclaimed[p]] = p
       /\ listeners[p] # None =>
            /\ listeners[p] \in Instances /\ leader[listeners[p]] # "unborn"
            /\ Owner[listeners[p]] \in Tasks /\ pid[listeners[p]] = p
Passed(t) ==
  /\ exitInfo[t] # None => IsGone(exitInfo[t])
  /\ \A i : In(inbox[t], i) \/ In(mailbox[t], i) => IsGone(i)

Shape ==
  /\ TypesOK
  /\ \A t \in Tasks : Holding(t) /\ Passed(t)
  /\ \A i \in Instances : Bearing(i)
  /\ Reaped

LEMMA ShapeTypes == Shape => TypeOK
  BY DEF Shape, TypesOK, TypeOK, Holding, Steps, Nobody

LEMMA InitShape == Init => Shape /\ ZombiesReaped
<1> SUFFICES ASSUME Init PROVE Shape /\ ZombiesReaped
  OBVIOUS
<1>1. TypesOK
  BY ProcessTaskAssumption, EmptySeq DEF Init, TypesOK, Nobody, Steps
<1>2. \A t \in Tasks : Holding(t) /\ Passed(t)
  BY InEmpty DEF Init, Holding, Passed
<1>3. (\A i \in Instances : Bearing(i)) /\ Reaped /\ ZombiesReaped
  BY DEF Init, Bearing, Reaped, ZombiesReaped
<1> QED  BY <1>1, <1>2, <1>3 DEF Shape
-----------------------------------------------------------------------------
(* Children only get older.                                                *)
Aging ==
  \A i \in Instances :
    /\ leader[i] # "unborn" =>
         leader'[i] # "unborn" /\ pid'[i] = pid[i] /\ (TtyOpen(i)' => TtyOpen(i))
    /\ leader[i] = "gone" => leader'[i] = "gone"
    /\ Bearing(i)'

LEMMA HoldingKept ==
  ASSUME Aging, NEW t \in Tasks, Holding(t), pc'[t] = pc[t], fresh'[t] = fresh[t],
         process'[t] = process[t], exitInfo'[t] = exitInfo[t], eof'[t] = eof[t]
  PROVE  Holding(t)'
  BY DEF Aging, Holding, Of, TtyOpen

LEMMA PassedKept ==
  ASSUME Aging, NEW t \in Tasks, Passed(t), exitInfo'[t] = exitInfo[t],
         \A i : In(inbox'[t], i) => In(inbox[t], i) \/ IsGone(i)',
         \A i : In(mailbox'[t], i) => In(mailbox[t], i) \/ IsGone(i)'
  PROVE  Passed(t)'
  BY DEF Aging, Passed, IsGone

LEMMA ReapedKept ==
  ASSUME TypesOK, Aging, Reaped, UNCHANGED reaper
  PROVE  Reaped'
  BY DEF TypesOK, Nobody, Aging, Reaped, reaper, IsGone

(* A step of the operating system alone.                                   *)
LEMMA ChildrenShape ==
  ASSUME Shape, Aging, TypesOK',
         UNCHANGED <<pc, fresh, state, mailbox, inbox, reaper>>
  PROVE  Shape'
<1>1. ASSUME NEW t \in Tasks PROVE Holding(t)' /\ Passed(t)'
  BY HoldingKept, PassedKept DEF Shape, state
<1> QED  BY <1>1, ReapedKept DEF Shape, Aging

LEMMA BornAges ==
  ASSUME Shape, NEW i \in Instances, NEW p \in Pids, Born(i, p)
  PROVE  /\ Aging
         /\ leader' \in [Instances -> {"unborn", "alive", "zombie", "gone"}]
         /\ kin' = kin
         /\ pid' \in [Instances -> Pids \cup {None}]
         /\ mishap' \in BOOLEAN
         /\ leader[i] = "unborn" /\ leader'[i] = "alive" /\ pid'[i] = p
         /\ \A j \in Instances : j # i => leader'[j] = leader[j] /\ pid'[j] = pid[j]
         /\ mishap' = (mishap \/ \E j \in Instances : pid[j] = p)
  BY ProcessTaskAssumption DEF Born, Shape, TypesOK, Aging, Bearing, TtyOpen

LEMMA KilledAges ==
  ASSUME Shape, NEW i \in Instances, NEW g, Killed(i, g)
  PROVE  /\ Aging
         /\ leader' \in [Instances -> {"unborn", "alive", "zombie", "gone"}]
         /\ kin' \in [Instances -> {"none", "group", "stray"}]
         /\ pid' = pid /\ sigchld' \in BOOLEAN
  BY DEF Killed, Shape, TypesOK, Aging, Bearing, TtyOpen

LEMMA ProgramShape ==
  ASSUME Shape, NEW i \in Instances, Program(i)
  PROVE  Shape'
<1>1. CASE Exit(i)
  <2>1. TypesOK' /\ Aging
    BY <1>1 DEF Exit, Shape, TypesOK, Aging, Bearing, TtyOpen, state, reaper
  <2> QED  BY <1>1, <2>1, ChildrenShape DEF Exit
<1>2. CASE KinExit(i)
  <2>1. TypesOK' /\ Aging
    BY <1>2 DEF KinExit, Shape, TypesOK, Aging, Bearing, TtyOpen, state, reaper
  <2> QED  BY <1>2, <2>1, ChildrenShape DEF KinExit
<1>3. CASE ForeignReaped(i)
  <2>1. TypesOK' /\ Aging
    BY <1>3 DEF ForeignReaped, Shape, TypesOK, Aging, Bearing, TtyOpen, state, reaper
  <2> QED  BY <1>3, <2>1, ChildrenShape DEF ForeignReaped
<1>4. CASE \E k \in {"group", "stray"} : Bear(i, k)
  <2>1. TypesOK' /\ Aging
    BY <1>4 DEF Bear, Shape, TypesOK, Aging, Bearing, TtyOpen, state, reaper
  <2> QED  BY <1>4, <2>1, ChildrenShape DEF Bear
<1>5. CASE Foreign(i)
  <2>1. TypesOK' /\ Aging
    BY <1>5, BornAges DEF Foreign, Shape, TypesOK, state, reaper
  <2> QED  BY <1>5, <2>1, ChildrenShape DEF Foreign
<1> QED  BY <1>1, <1>2, <1>3, <1>4, <1>5 DEF Program
-----------------------------------------------------------------------------
(* The reaper *)
LEMMA ReaperShape ==
  ASSUME Shape, Reaper
  PROVE  Shape'
<1> USE DEF Shape
<1>1. CASE Wake \/ Rest
  <2>1. TypesOK' /\ Aging
    BY <1>1 DEF Wake, Rest, TypesOK, Aging, Bearing, TtyOpen, state, child
  <2>2. Reaped'
    BY <1>1 DEF Wake, Rest, Reaped, IsGone, child
  <2>3. ASSUME NEW t \in Tasks PROVE Holding(t)' /\ Passed(t)'
    BY <1>1, <2>1, HoldingKept, PassedKept DEF Wake, Rest, state
  <2> QED  BY <2>1, <2>2, <2>3 DEF Aging
<1>2. ASSUME NEW i \in Instances, Collect(i) PROVE Shape'
  <2>1. TypesOK' /\ Aging
    BY <1>2 DEF Collect, TypesOK, Nobody, Aging, Bearing, TtyOpen, state
  <2>2. Reaped'
    BY <1>2, <2>1, ProcessTaskAssumption DEF Collect, Reaped, IsGone, Aging, TypesOK, Nobody
  <2>3. ASSUME NEW t \in Tasks PROVE Holding(t)' /\ Passed(t)'
    BY <1>2, <2>1, HoldingKept, PassedKept DEF Collect, state
  <2> QED  BY <2>1, <2>2, <2>3 DEF Aging
<1>3. CASE Dispatch
  <2> DEFINE p == pid[hand]
             i == listeners[p]
  <2>1. hand \in Instances /\ leader[hand] = "gone" /\ p \in Pids
    BY <1>3 DEF Dispatch, Reaped, IsGone, Bearing
  <2>2. Aging
    BY <1>3 DEF Dispatch, Aging, Bearing, TtyOpen, child
  <2>3. Exited(hand) \in Reports
    BY <2>1 DEF Exited, Report, Reports
  <2>4. CASE i # None
    <3>1. Owner[i] \in Tasks
      BY <2>1, <2>4 DEF Reaped
    <3>2. inbox' = [inbox EXCEPT ![Owner[i]] = Append(@, Exited(hand))]
      BY <1>3, <2>4 DEF Dispatch
    <3>3. inbox' \in [Tasks -> Seq(Reports)]
      BY <2>3, <3>1, <3>2, AppendProperties DEF TypesOK
    <3>4. TypesOK'
      BY <1>3, <2>1, <2>4, <3>3 DEF Dispatch, AfterOne, TypesOK, Nobody, state, child
    <3>5. Reaped'
      <4>1. /\ hand' = None /\ waiter' = "reaping" /\ unclaimed' = unclaimed
            /\ leader' = leader /\ pid' = pid
            /\ listeners' = [listeners EXCEPT ![p] = None]
        BY <1>3, <2>4 DEF Dispatch, AfterOne, child
      <4>2. \A q \in Pids : listeners'[q] = None \/ listeners'[q] = listeners[q]
        BY <2>1, <4>1 DEF TypesOK
      <4> QED  BY <4>1, <4>2 DEF Reaped, IsGone
    <3>6. ASSUME NEW t \in Tasks PROVE Holding(t)' /\ Passed(t)'
      <4>1. Holding(t)'
        BY <1>3, <2>2, HoldingKept DEF Dispatch, state
      <4>2. ASSUME NEW j, In(inbox'[t], j) PROVE In(inbox[t], j) \/ IsGone(j)'
        <5>1. CASE t = Owner[i]
          <6>1. inbox'[t] = Append(inbox[t], Exited(hand)) /\ inbox[t] \in Seq(Reports)
            BY <3>1, <3>2, <5>1 DEF TypesOK
          <6>2. In(inbox[t], j) \/ IsExit(Exited(hand), j)
            BY <2>3, <4>2, <6>1, InAppend
          <6> QED  BY <1>3, <2>1, <6>2 DEF Dispatch, IsExit, Exited, Report, IsGone, child
        <5>2. CASE t # Owner[i]
          BY <3>1, <3>2, <4>2, <5>2 DEF TypesOK
        <5> QED  BY <5>1, <5>2
      <4> QED  BY <1>3, <2>2, <4>1, <4>2, PassedKept DEF Dispatch, state
    <3> QED  BY <2>2, <3>4, <3>5, <3>6 DEF Aging
  <2>5. CASE i = None
    <3>1. TypesOK'
      BY <1>3, <2>1, <2>5 DEF Dispatch, AfterOne, TypesOK, Nobody, state, child
    <3>2. Reaped'
      <4>1. /\ hand' = None /\ waiter' = "reaping" /\ listeners' = listeners
            /\ leader' = leader /\ pid' = pid
            /\ unclaimed' = [unclaimed EXCEPT ![p] = hand]
        BY <1>3, <2>5 DEF Dispatch, AfterOne, child
      <4>2. \A q \in Pids : unclaimed'[q] = unclaimed[q] \/ (q = p /\ unclaimed'[q] = hand)
        BY <2>1, <4>1 DEF TypesOK
      <4> QED  BY <2>1, <4>1, <4>2 DEF Reaped, IsGone
    <3>3. ASSUME NEW t \in Tasks PROVE Holding(t)' /\ Passed(t)'
      BY <1>3, <2>2, <2>5, HoldingKept, PassedKept DEF Dispatch, state
    <3> QED  BY <2>2, <3>1, <3>2, <3>3 DEF Aging
  <2> QED  BY <2>4, <2>5
<1> QED  BY <1>1, <1>2, <1>3 DEF Reaper
-----------------------------------------------------------------------------
(* The parts of a task's step *)
LEMMA TakeEffect ==
  ASSUME Shape, NEW t \in Tasks, NEW c, Take(t, c)
  PROVE  /\ mailbox' \in [Tasks -> Seq(Msgs)]
         /\ \A u \in Tasks : \A i : In(mailbox'[u], i) => In(mailbox[u], i)
         /\ pc[t] = "select" /\ mailbox[t] # <<>>
         /\ Head(mailbox[t]) \in Msgs /\ Head(mailbox[t]).cmd = c
         /\ IsExit(Head(mailbox[t]), Head(mailbox[t]).inst) =>
              In(mailbox[t], Head(mailbox[t]).inst)
<1>1. mailbox[t] \in Seq(Msgs) /\ mailbox[t] # <<>>
  BY DEF Take, Shape, TypesOK
<1>2. mailbox' = [mailbox EXCEPT ![t] = Tail(mailbox[t])]
  BY DEF Take
<1>3. Tail(mailbox[t]) \in Seq(Msgs) /\ Head(mailbox[t]) \in Msgs
  BY <1>1, HeadTailProperties
<1>4. mailbox' \in [Tasks -> Seq(Msgs)]
  BY <1>2, <1>3 DEF Shape, TypesOK
<1>5. \A i : In(Tail(mailbox[t]), i) \/ IsExit(Head(mailbox[t]), i) => In(mailbox[t], i)
  BY <1>1, InTail
<1>6. \A u \in Tasks : \A i : In(mailbox'[u], i) => In(mailbox[u], i)
  BY <1>2, <1>5 DEF Shape, TypesOK
<1> QED  BY <1>1, <1>3, <1>4, <1>5, <1>6 DEF Take

Telling(t, m) == inbox' = [inbox EXCEPT ![t] = Append(@, m)]
LEMMA TellEffect ==
  ASSUME Shape, NEW t \in Tasks, NEW m \in Reports, Telling(t, m)
  PROVE  /\ inbox' \in [Tasks -> Seq(Reports)]
         /\ \A u \in Tasks : \A i : In(inbox'[u], i) <=> In(inbox[u], i) \/ (u = t /\ IsExit(m, i))
         /\ \A u \in Tasks : \A i :
              Single(inbox[u], i) /\ ~(u = t /\ IsExit(m, i) /\ In(inbox[u], i)) => Single(inbox'[u], i)
<1>1. inbox[t] \in Seq(Reports)
  BY DEF Shape, TypesOK
<1>2. inbox' = [inbox EXCEPT ![t] = Append(inbox[t], m)]
  BY DEF Telling
<1>3. inbox' \in [Tasks -> Seq(Reports)]
  BY <1>1, <1>2, AppendProperties DEF Shape, TypesOK
<1>4. \A i : /\ In(Append(inbox[t], m), i) <=> In(inbox[t], i) \/ IsExit(m, i)
             /\ Single(inbox[t], i) /\ ~(In(inbox[t], i) /\ IsExit(m, i)) => Single(Append(inbox[t], m), i)
  BY <1>1, InAppend
<1>5. inbox'[t] = Append(inbox[t], m) /\ \A u \in Tasks : u # t => inbox'[u] = inbox[u]
  BY <1>2 DEF Shape, TypesOK
<1> QED  BY <1>3, <1>4, <1>5

Held(t, held, info, ended) ==
  /\ process' = [process EXCEPT ![t] = held]
  /\ exitInfo' = [exitInfo EXCEPT ![t] = info]
  /\ eof' = [eof EXCEPT ![t] = ended]

LEMMA LoopQuiet ==
  ASSUME Shape, NEW t \in Tasks, NEW held, NEW info, NEW ended,
         Loop(t, held, info, ended, <<>>)
  PROVE  IF Over(held, info, ended)
         THEN Held(t, None, info, ended) /\ Telling(t, Report("Stopped", held, info))
         ELSE Held(t, held, info, ended) /\ inbox' = inbox
<1>1. inbox \in [Tasks -> Seq(Reports)]
  BY DEF Shape, TypesOK
<1>2. CASE Over(held, info, ended)
  <2>1. inbox' = [inbox EXCEPT ![t] = inbox[t] \o <<>> \o <<Report("Stopped", held, info)>>]
    BY <1>2 DEF Loop
  <2>2. inbox[t] \o <<>> = inbox[t]
    BY <1>1, ConcatEmptySeq
  <2>3. inbox[t] \o <<Report("Stopped", held, info)>> = Append(inbox[t], Report("Stopped", held, info))
    BY <1>1
  <2> QED  BY <1>2, <2>1, <2>2, <2>3 DEF Loop, Held, Telling
<1>3. CASE ~Over(held, info, ended)
  <2>1. inbox' = [inbox EXCEPT ![t] = inbox[t] \o <<>> \o <<>>]
    BY <1>3 DEF Loop
  <2>2. inbox[t] \o <<>> = inbox[t]
    BY <1>1, ConcatEmptySeq
  <2> QED  BY <1>1, <1>3, <2>1, <2>2 DEF Loop, Held
<1> QED  BY <1>2, <1>3

LEMMA LoopSays ==
  ASSUME Shape, NEW t \in Tasks, NEW held, NEW info, NEW ended, NEW m \in Reports,
         ~Over(held, info, ended), Loop(t, held, info, ended, <<m>>)
  PROVE  Held(t, held, info, ended) /\ Telling(t, m)
<1>1. inbox \in [Tasks -> Seq(Reports)]
  BY DEF Shape, TypesOK
<1>2. inbox' = [inbox EXCEPT ![t] = inbox[t] \o <<m>> \o <<>>]
  BY DEF Loop
<1>3. inbox[t] \o <<m>> = Append(inbox[t], m) /\ inbox[t] \o <<m>> \in Seq(Reports)
  BY <1>1
<1>4. inbox[t] \o <<m>> \o <<>> = Append(inbox[t], m)
  BY <1>3, ConcatEmptySeq
<1> QED  BY <1>2, <1>4 DEF Loop, Held, Telling
-----------------------------------------------------------------------------
(* The task's loop *)
LEMMA SameAge == ASSUME Shape, UNCHANGED child PROVE Aging
  BY DEF Shape, Aging, Bearing, TtyOpen, child

(* A step of t that leaves the children and the reaper alone.              *)
LEMMA LoopShape ==
  ASSUME Shape, UNCHANGED <<child, reaper>>, TypesOK', NEW t \in Tasks, Holding(t)',
         \A u \in Tasks : u # t =>
           /\ pc'[u] = pc[u] /\ fresh'[u] = fresh[u]
           /\ process'[u] = process[u] /\ eof'[u] = eof[u],
         \A u \in Tasks : exitInfo'[u] # exitInfo[u] =>
           u = t /\ (exitInfo'[u] # None => IsGone(exitInfo'[u])),
         \A u \in Tasks : \A i : In(inbox'[u], i) => In(inbox[u], i) \/ IsGone(i),
         \A u \in Tasks : \A i : In(mailbox'[u], i) => In(mailbox[u], i) \/ IsGone(i)
  PROVE  Shape'
<1>1. Aging
  BY SameAge DEF child
<1>2. Reaped'
  BY <1>1, ReapedKept DEF Shape
<1>3. ASSUME NEW u \in Tasks PROVE Holding(u)'
  <2>1. CASE u = t
    BY <2>1
  <2>2. CASE u # t
    BY <1>1, <2>2, HoldingKept DEF Shape
  <2> QED  BY <2>1, <2>2
<1>4. ASSUME NEW u \in Tasks PROVE Passed(u)'
  BY DEF Shape, Passed, IsGone, child
<1> QED  BY <1>1, <1>2, <1>3, <1>4 DEF Shape, Aging

LEMMA NoExitReports ==
  /\ \A i \in Nobody, x \in Nobody, what \in {"Started", "Ready", "Stopped"} :
       Report(what, i, x) \in Reports /\ \A j : ~IsExit(Report(what, i, x), j)
  /\ \A i \in Instances : Exited(i) \in Reports /\ \A j : IsExit(Exited(i), j) <=> j = i
  BY DEF Nobody, Reports, Report, Exited, IsExit

(* Steps that only take a command or a turn.                               *)
LEMMA TurnShape ==
  ASSUME Shape, NEW t \in Tasks,
         \/ \E c \in Commands : Ignore(t, c)
         \/ Stop(t) \/ Input(t) \/ Resume(t)
  PROVE  Shape'
<1>1. UNCHANGED <<fresh, process, exitInfo, eof, readySent, open, inbox, child, sigchld, reaper, mishap>>
  BY DEF Ignore, Stop, Input, Resume, state
<1>2. /\ mailbox' \in [Tasks -> Seq(Msgs)]
      /\ \A u \in Tasks : \A i : In(mailbox'[u], i) => In(mailbox[u], i)
  BY TakeEffect DEF Ignore, Stop, Input, Resume, Shape, TypesOK
<1>3. /\ pc' \in [Tasks -> Steps] /\ \A u \in Tasks : u # t => pc'[u] = pc[u]
      /\ pc[t] \in {"select", "write"} /\ pc'[t] \in {"select", "write"}
      /\ pc'[t] = "write" => process[t] # None
  BY DEF Ignore, Take, Stop, Input, Resume, Goto, Shape, TypesOK, Steps, Holding
<1>4. TypesOK'
  BY <1>1, <1>2, <1>3 DEF Shape, TypesOK, child, reaper
<1>5. Holding(t)'
  BY <1>1, <1>3 DEF Shape, Holding, Of, TtyOpen, child
<1> QED  BY <1>1, <1>2, <1>3, <1>4, <1>5, LoopShape

LEMMA KillShape ==
  ASSUME Shape, NEW t \in Tasks, Kill(t)
  PROVE  Shape'
<1>1. process[t] \in Instances /\ Killed(process[t], t \in KillGroup)
  BY DEF Kill, Shape, TypesOK, Nobody
<1>2. /\ mailbox' \in [Tasks -> Seq(Msgs)]
      /\ \A u \in Tasks : \A i : In(mailbox'[u], i) => In(mailbox[u], i)
  BY TakeEffect DEF Kill
<1>3. Aging /\ TypesOK'
  BY <1>1, <1>2, KilledAges DEF Kill, Shape, TypesOK, state, reaper
<1>4. ASSUME NEW u \in Tasks PROVE Holding(u)' /\ Passed(u)'
  BY <1>2, <1>3, HoldingKept, PassedKept DEF Kill, Shape, state
<1> QED  BY <1>3, <1>4, ReapedKept DEF Kill, Shape, Aging

LEMMA ForkShape ==
  ASSUME Shape, NEW t \in Tasks, Fork(t)
  PROVE  Shape'
<1>1. PICK i \in Instances, p \in Pids :
        Owner[i] = t /\ Born(i, p) /\ fresh' = [fresh EXCEPT ![t] = i]
  BY DEF Fork
<1>2. /\ mailbox' \in [Tasks -> Seq(Msgs)] /\ pc[t] = "select"
      /\ \A u \in Tasks : \A j : In(mailbox'[u], j) => In(mailbox[u], j)
  BY TakeEffect DEF Fork
<1>3. Aging /\ TypesOK'
  BY <1>1, <1>2, BornAges DEF Fork, Goto, Shape, TypesOK, Nobody, Steps, state, reaper
<1>4. ASSUME NEW u \in Tasks, u # t PROVE Holding(u)'
  BY <1>1, <1>3, <1>4, HoldingKept DEF Fork, Goto, Shape, TypesOK, state
<1>5. Holding(t)'
  <2>1. /\ fresh'[t] = i /\ i # None /\ pc'[t] = "forked"
        /\ process'[t] = None /\ exitInfo'[t] = exitInfo[t]
    BY <1>1, ProcessTaskAssumption DEF Fork, Goto, Shape, TypesOK, state
  <2>2. leader[i] = "unborn" /\ leader'[i] = "alive"
    BY <1>1, BornAges
  <2>3. exitInfo[t] # i
    BY <2>1, <2>2 DEF Shape, Passed, IsGone
  <2> QED  BY <1>1, <2>1, <2>2, <2>3 DEF Holding, Of
<1>6. ASSUME NEW u \in Tasks PROVE Passed(u)'
  BY <1>2, <1>3, PassedKept DEF Fork, Shape, state
<1> QED  BY <1>3, <1>4, <1>5, <1>6, ReapedKept DEF Fork, Shape, Aging

LEMMA ForkFailsShape ==
  ASSUME Shape, NEW t \in Tasks, ForkFails(t)
  PROVE  Shape'
<1>1. Telling(t, Report("Stopped", None, None))
  BY DEF ForkFails, Telling
<1>2. /\ inbox' \in [Tasks -> Seq(Reports)]
      /\ \A u \in Tasks : \A i : In(inbox'[u], i) => In(inbox[u], i)
  <2>1. /\ Report("Stopped", None, None) \in Reports
        /\ \A i : ~IsExit(Report("Stopped", None, None), i)
    BY NoExitReports DEF Nobody
  <2> QED  BY <1>1, <2>1, TellEffect
<1>3. /\ mailbox' \in [Tasks -> Seq(Msgs)]
      /\ \A u \in Tasks : \A i : In(mailbox'[u], i) => In(mailbox[u], i)
  BY TakeEffect DEF ForkFails
<1>4. TypesOK' /\ UNCHANGED <<pc, fresh, process, exitInfo, eof, child, reaper>>
  BY <1>2, <1>3 DEF ForkFails, Shape, TypesOK, state, child, reaper
<1>5. Holding(t)'
  BY <1>4 DEF Shape, Holding, Of, TtyOpen, child
<1> QED  BY <1>2, <1>3, <1>4, <1>5, LoopShape

LEMMA ListenShape ==
  ASSUME Shape, NEW t \in Tasks, Listen(t)
  PROVE  Shape'
<1> DEFINE i == fresh[t]
           p == pid[i]
           j == unclaimed[p]
<1>1. /\ pc[t] = "forked" /\ i \in Instances /\ Owner[i] = t /\ leader[i] # "unborn"
      /\ i # None /\ process[t] = None /\ exitInfo[t] # i /\ p \in Pids
  BY DEF Listen, Shape, Holding, Of, Bearing
<1>2. /\ UNCHANGED <<fresh, process, exitInfo, eof, readySent, mailbox, open, child, sigchld, waiter, hand, mishap>>
      /\ pc' = [pc EXCEPT ![t] = "listening"]
  BY DEF Listen, Goto, state
<1>3. Aging
  BY <1>2, SameAge
<1>4. CASE j # None
  <2>1. /\ Telling(t, Exited(j)) /\ IsGone(j)
        /\ unclaimed' = [unclaimed EXCEPT ![p] = None] /\ listeners' = listeners
    BY <1>1, <1>4 DEF Listen, Telling, Shape, Reaped
  <2>2. /\ inbox' \in [Tasks -> Seq(Reports)]
        /\ \A u \in Tasks : \A k : In(inbox'[u], k) => In(inbox[u], k) \/ k = j
    <3>1. Exited(j) \in Reports /\ \A k : IsExit(Exited(j), k) <=> k = j
      BY <2>1, NoExitReports DEF IsGone
    <3> QED  BY <2>1, <3>1, TellEffect
  <2>3. Reaped'
    <3>1. \A q \in Pids : unclaimed'[q] = None \/ unclaimed'[q] = unclaimed[q]
      BY <1>1, <2>1 DEF Shape, TypesOK
    <3> QED  BY <1>2, <2>1, <3>1 DEF Shape, Reaped, IsGone, child
  <2>4. TypesOK'
    BY <1>1, <1>2, <2>1, <2>2 DEF Shape, TypesOK, Nobody, Steps, child
  <2>5. ASSUME NEW u \in Tasks PROVE Passed(u)'
    BY <1>2, <1>3, <2>1, <2>2, PassedKept DEF Shape, IsGone, child
  <2>6. ASSUME NEW u \in Tasks PROVE Holding(u)'
    BY <1>1, <1>2 DEF Shape, TypesOK, Holding, Of, TtyOpen, child
  <2> QED  BY <1>3, <2>3, <2>4, <2>5, <2>6 DEF Shape, Aging
<1>5. CASE j = None
  <2>1. UNCHANGED <<inbox, unclaimed>> /\ listeners' = [listeners EXCEPT ![p] = i]
    BY <1>5 DEF Listen
  <2>2. Reaped'
    <3>1. \A q \in Pids : listeners'[q] = listeners[q] \/ (q = p /\ listeners'[q] = i)
      BY <1>1, <2>1 DEF Shape, TypesOK
    <3> QED  BY <1>1, <1>2, <2>1, <3>1 DEF Shape, Reaped, IsGone, child
  <2>3. TypesOK'
    BY <1>1, <1>2, <2>1 DEF Shape, TypesOK, Nobody, Steps, child
  <2>4. ASSUME NEW u \in Tasks PROVE Passed(u)'
    BY <1>2, <1>3, <2>1, PassedKept DEF Shape
  <2>5. ASSUME NEW u \in Tasks PROVE Holding(u)'
    BY <1>1, <1>2 DEF Shape, TypesOK, Holding, Of, TtyOpen, child
  <2> QED  BY <1>3, <2>2, <2>3, <2>4, <2>5 DEF Shape, Aging
<1> QED  BY <1>4, <1>5

(* The spawn has failed after its child existed: Abandons, and one end of  *)
(* Launch.                                                                 *)
GivesUp(t) ==
  /\ pc[t] \in {"forked", "listening"} /\ pc' = [pc EXCEPT ![t] = "select"]
  /\ fresh' = [fresh EXCEPT ![t] = None]
  /\ Loop(t, None, exitInfo[t], eof[t], <<Report("Stopped", None, None)>>)
  /\ mishap' = TRUE
  /\ UNCHANGED <<readySent, mailbox, open, child, sigchld, reaper>>
LEMMA GivesUpEffect ==
  ASSUME Shape, NEW t \in Tasks, GivesUp(t)
  PROVE  UNCHANGED <<process, exitInfo, eof>> /\ Telling(t, Report("Stopped", None, None))
<1>1. Report("Stopped", None, None) \in Reports
  BY NoExitReports DEF Nobody
<1>2. /\ Held(t, None, exitInfo[t], eof[t]) /\ Telling(t, Report("Stopped", None, None))
  BY <1>1, LoopSays DEF GivesUp, Over
<1>3. process[t] = None
  BY DEF GivesUp, Shape, Holding
<1> QED  BY <1>2, <1>3 DEF Held, Shape, TypesOK

LEMMA GivesUpShape ==
  ASSUME Shape, NEW t \in Tasks, GivesUp(t)
  PROVE  Shape'
<1>1. UNCHANGED <<process, exitInfo, eof>> /\ Telling(t, Report("Stopped", None, None))
  BY GivesUpEffect
<1>2. /\ inbox' \in [Tasks -> Seq(Reports)]
      /\ \A u \in Tasks : \A i : In(inbox'[u], i) => In(inbox[u], i)
  <2>1. /\ Report("Stopped", None, None) \in Reports
        /\ \A i : ~IsExit(Report("Stopped", None, None), i)
    BY NoExitReports DEF Nobody
  <2> QED  BY <1>1, <2>1, TellEffect
<1>3. TypesOK'
  BY <1>1, <1>2 DEF GivesUp, Shape, TypesOK, Nobody, Steps, child, reaper
<1>4. Holding(t)'
  BY <1>1 DEF GivesUp, Shape, TypesOK, Holding, Of, TtyOpen, child
<1> QED  BY <1>1, <1>2, <1>3, <1>4, LoopShape DEF GivesUp, Shape, TypesOK

Started(t) ==
  /\ pc[t] = "listening" /\ pc' = [pc EXCEPT ![t] = "select"]
  /\ fresh' = [fresh EXCEPT ![t] = None]
  /\ Loop(t, fresh[t], None, FALSE, <<Report("Started", fresh[t], None)>>)
  /\ readySent' = [readySent EXCEPT ![t] = FALSE]
  /\ UNCHANGED <<mailbox, open, child, sigchld, reaper, mishap>>
LEMMA Spawning ==
  ASSUME NEW t
  PROVE  /\ Abandons(t) => GivesUp(t)
         /\ Launch(t) => Started(t) \/ GivesUp(t)
  BY DEF Abandons, Launch, Goto, GivesUp, Started

LEMMA StartedEffect ==
  ASSUME Shape, NEW t \in Tasks, Started(t)
  PROVE  /\ Held(t, fresh[t], None, FALSE) /\ Telling(t, Report("Started", fresh[t], None))
         /\ Of(fresh[t], t) /\ fresh[t] # None /\ process[t] = None
<1>1. Of(fresh[t], t) /\ fresh[t] # None /\ process[t] = None
  BY DEF Started, Shape, Holding
<1>2. Report("Started", fresh[t], None) \in Reports
  BY <1>1, NoExitReports DEF Nobody, Of
<1> QED  BY <1>1, <1>2, LoopSays DEF Started, Over

LEMMA StartedShape ==
  ASSUME Shape, NEW t \in Tasks, Started(t)
  PROVE  Shape'
<1>1. /\ Held(t, fresh[t], None, FALSE) /\ Telling(t, Report("Started", fresh[t], None))
      /\ Of(fresh[t], t) /\ fresh[t] # None /\ process[t] = None
  BY StartedEffect
<1>2. /\ inbox' \in [Tasks -> Seq(Reports)]
      /\ \A u \in Tasks : \A i : In(inbox'[u], i) => In(inbox[u], i)
  <2>1. /\ Report("Started", fresh[t], None) \in Reports
        /\ \A i : ~IsExit(Report("Started", fresh[t], None), i)
    BY <1>1, NoExitReports DEF Nobody, Of
  <2> QED  BY <1>1, <2>1, TellEffect
<1>3. TypesOK'
  BY <1>1, <1>2 DEF Started, Held, Of, Shape, TypesOK, Nobody, Steps, child, reaper
<1>4. Holding(t)'
  BY <1>1 DEF Started, Held, Shape, TypesOK, Holding, Of, TtyOpen, child
<1> QED  BY <1>1, <1>2, <1>3, <1>4, LoopShape DEF Started, Held, Shape, TypesOK

(* The loop learns of the exit, or of the end of the output; the stop may  *)
(* be due.                                                                 *)
LEMMA QuietEffect ==
  ASSUME Shape, NEW t \in Tasks, NEW info \in Nobody, NEW ended \in BOOLEAN,
         Loop(t, process[t], info, ended, <<>>)
  PROVE  /\ \A u \in Tasks : u # t =>
               process'[u] = process[u] /\ exitInfo'[u] = exitInfo[u] /\ eof'[u] = eof[u]
         /\ exitInfo'[t] = info /\ eof'[t] = ended
         /\ process'[t] = None \/ process'[t] = process[t]
         /\ process' \in [Tasks -> Nobody] /\ exitInfo' \in [Tasks -> Nobody]
         /\ eof' \in [Tasks -> BOOLEAN]
         /\ inbox' \in [Tasks -> Seq(Reports)]
         /\ \A u \in Tasks : \A i : In(inbox'[u], i) <=> In(inbox[u], i)
         /\ \A u \in Tasks : \A i : Single(inbox[u], i) => Single(inbox'[u], i)
<1>1. process \in [Tasks -> Nobody] /\ exitInfo \in [Tasks -> Nobody] /\ eof \in [Tasks -> BOOLEAN]
  BY DEF Shape, TypesOK
<1>2. CASE Over(process[t], info, ended)
  <2>1. Held(t, None, info, ended) /\ Telling(t, Report("Stopped", process[t], info))
    BY <1>2, LoopQuiet
  <2>2. /\ Report("Stopped", process[t], info) \in Reports
        /\ \A i : ~IsExit(Report("Stopped", process[t], info), i)
    BY <1>1, NoExitReports
  <2>3. /\ inbox' \in [Tasks -> Seq(Reports)]
        /\ \A u \in Tasks : \A i : In(inbox'[u], i) <=> In(inbox[u], i)
        /\ \A u \in Tasks : \A i : Single(inbox[u], i) => Single(inbox'[u], i)
    BY <2>1, <2>2, TellEffect
  <2> QED  BY <1>1, <2>1, <2>3 DEF Held, Nobody
<1>3. CASE ~Over(process[t], info, ended)
  <2>1. Held(t, process[t], info, ended) /\ inbox' = inbox
    BY <1>3, LoopQuiet
  <2> QED  BY <1>1, <2>1 DEF Held, Nobody, Shape, TypesOK
<1> QED  BY <1>2, <1>3

LEMMA ExitKnownShape ==
  ASSUME Shape, NEW t \in Tasks, ExitKnown(t)
  PROVE  Shape'
<1> DEFINE i == Head(mailbox[t]).inst
<1>1. /\ mailbox' \in [Tasks -> Seq(Msgs)] /\ pc[t] = "select"
      /\ \A u \in Tasks : \A j : In(mailbox'[u], j) => In(mailbox[u], j)
      /\ In(mailbox[t], i)
  BY TakeEffect DEF ExitKnown, IsExit
<1>2. IsGone(i) /\ i \in Nobody /\ eof[t] \in BOOLEAN
  BY <1>1 DEF Shape, TypesOK, Passed, IsGone, Nobody
<1>3. Loop(t, process[t], i, eof[t], <<>>)
  BY DEF ExitKnown
<1>4. /\ process' \in [Tasks -> Nobody] /\ exitInfo' \in [Tasks -> Nobody]
      /\ eof' \in [Tasks -> BOOLEAN] /\ inbox' \in [Tasks -> Seq(Reports)]
      /\ process'[t] \in {None, process[t]} /\ eof'[t] = eof[t]
  BY <1>2, <1>3, QuietEffect
<1>8. TypesOK'
  BY <1>1, <1>4 DEF ExitKnown, Shape, TypesOK, child, reaper
<1>9. Holding(t)'
  BY <1>1, <1>4 DEF ExitKnown, Shape, Holding, Of, TtyOpen, child
<1>5. \A u \in Tasks : exitInfo'[u] # exitInfo[u] => u = t /\ exitInfo'[u] = i
  BY <1>2, <1>3, QuietEffect
<1>6. \A u \in Tasks : u # t => process'[u] = process[u] /\ eof'[u] = eof[u]
  BY <1>2, <1>3, QuietEffect
<1>7. \A u \in Tasks : \A j : In(inbox'[u], j) <=> In(inbox[u], j)
  BY <1>2, <1>3, QuietEffect
<1> QED  BY <1>1, <1>2, <1>5, <1>6, <1>7, <1>8, <1>9, LoopShape DEF ExitKnown

LEMMA OutputEndsShape ==
  ASSUME Shape, NEW t \in Tasks, OutputEnds(t)
  PROVE  Shape'
<1>1. Loop(t, process[t], exitInfo[t], TRUE, <<>>) /\ exitInfo[t] \in Nobody
  BY DEF OutputEnds, Shape, TypesOK
<1>2. TypesOK' /\ Holding(t)'
  <2>1. /\ process' \in [Tasks -> Nobody] /\ exitInfo' \in [Tasks -> Nobody]
        /\ eof' \in [Tasks -> BOOLEAN] /\ inbox' \in [Tasks -> Seq(Reports)]
        /\ process'[t] \in {None, process[t]}
    BY <1>1, QuietEffect
  <2>2. TypesOK'
    BY <2>1 DEF OutputEnds, Shape, TypesOK, child, reaper
  <2>3. Holding(t)'
    BY <2>1 DEF OutputEnds, Reading, Shape, Holding, Of, TtyOpen, child
  <2> QED  BY <2>2, <2>3
<1>3. \A u \in Tasks : exitInfo'[u] = exitInfo[u]
  BY <1>1, QuietEffect
<1>4. \A u \in Tasks : u # t => process'[u] = process[u] /\ eof'[u] = eof[u]
  BY <1>1, QuietEffect
<1>5. \A u \in Tasks : \A j : In(inbox'[u], j) <=> In(inbox[u], j)
  BY <1>1, QuietEffect
<1> QED  BY <1>2, <1>3, <1>4, <1>5, LoopShape DEF OutputEnds

LEMMA OutputEffect ==
  ASSUME Shape, NEW t \in Tasks, Output(t)
  PROVE  /\ pc' \in [Tasks -> Steps] /\ \A u \in Tasks : u # t => pc'[u] = pc[u]
         /\ pc[t] = "select" /\ pc'[t] \in {"select", "write"}
         /\ process[t] # None
         /\ readySent' \in [Tasks -> BOOLEAN]
         /\ \/ inbox' = inbox /\ readySent' = readySent
            \/ /\ ~readySent[t] /\ readySent' = [readySent EXCEPT ![t] = TRUE]
               /\ Telling(t, Report("Ready", process[t], None))
<1>1. PICK ready \in BOOLEAN, answer \in BOOLEAN :
        /\ ready => ~readySent[t]
        /\ readySent' = [readySent EXCEPT ![t] = @ \/ ready]
        /\ IF ready THEN Telling(t, Report("Ready", process[t], None)) ELSE UNCHANGED inbox
        /\ IF answer THEN Goto(t, "write") ELSE UNCHANGED pc
  BY DEF Output, Telling
<1>2. pc[t] = "select" /\ process[t] # None
  BY DEF Output, Reading
<1>3. /\ pc' \in [Tasks -> Steps] /\ \A u \in Tasks : u # t => pc'[u] = pc[u]
      /\ pc'[t] \in {"select", "write"}
  BY <1>1, <1>2 DEF Goto, Shape, TypesOK, Steps
<1>4. CASE ready
  BY <1>1, <1>2, <1>3, <1>4 DEF Shape, TypesOK
<1>5. CASE ~ready
  <2>1. readySent' = readySent
    BY <1>1, <1>5 DEF Shape, TypesOK
  <2> QED  BY <1>1, <1>2, <1>3, <1>5, <2>1 DEF Shape, TypesOK
<1> QED  BY <1>4, <1>5

LEMMA OutputShape ==
  ASSUME Shape, NEW t \in Tasks, Output(t)
  PROVE  Shape'
<1>1. /\ inbox' \in [Tasks -> Seq(Reports)]
      /\ \A u \in Tasks : \A i : In(inbox'[u], i) => In(inbox[u], i)
  <2>1. CASE inbox' = inbox
    BY <2>1 DEF Shape, TypesOK
  <2>2. CASE Telling(t, Report("Ready", process[t], None))
    <3>1. /\ Report("Ready", process[t], None) \in Reports
          /\ \A i : ~IsExit(Report("Ready", process[t], None), i)
      BY NoExitReports DEF Shape, TypesOK, Nobody
    <3> QED  BY <2>2, <3>1, TellEffect
  <2> QED  BY <2>1, <2>2, OutputEffect
<1>2. TypesOK'
  BY <1>1, OutputEffect DEF Output, Shape, TypesOK, state, child, reaper
<1>3. Holding(t)'
  BY OutputEffect DEF Output, Shape, Holding, Of, TtyOpen, state, child
<1> QED  BY <1>1, <1>2, <1>3, OutputEffect, LoopShape DEF Output, state

LEMMA EndsShape ==
  ASSUME Shape, NEW t \in Tasks, Ends(t)
  PROVE  Shape'
<1>1. TypesOK' /\ Holding(t)'
  BY DEF Ends, Goto, Shape, TypesOK, Nobody, Steps, Holding, child, reaper
<1> QED  BY <1>1, LoopShape DEF Ends, Goto, Shape, TypesOK
-----------------------------------------------------------------------------
(* The kernel's side *)
LEMMA PutEffect ==
  ASSUME Shape, NEW t \in Tasks, NEW m \in Msgs,
         mailbox' = [mailbox EXCEPT ![t] = Append(@, m)]
  PROVE  /\ mailbox' \in [Tasks -> Seq(Msgs)]
         /\ \A u \in Tasks : \A i : In(mailbox'[u], i) <=> In(mailbox[u], i) \/ (u = t /\ IsExit(m, i))
         /\ \A u \in Tasks : \A i :
              Single(mailbox[u], i) /\ ~(u = t /\ IsExit(m, i) /\ In(mailbox[u], i)) => Single(mailbox'[u], i)
<1>1. mailbox[t] \in Seq(Msgs)
  BY DEF Shape, TypesOK
<1>2. mailbox' \in [Tasks -> Seq(Msgs)]
  BY <1>1, AppendProperties DEF Shape, TypesOK
<1>3. \A i : /\ In(Append(mailbox[t], m), i) <=> In(mailbox[t], i) \/ IsExit(m, i)
             /\ Single(mailbox[t], i) /\ ~(In(mailbox[t], i) /\ IsExit(m, i)) => Single(Append(mailbox[t], m), i)
  BY <1>1, InAppend
<1>4. mailbox'[t] = Append(mailbox[t], m) /\ \A u \in Tasks : u # t => mailbox'[u] = mailbox[u]
  BY DEF Shape, TypesOK
<1> QED  BY <1>2, <1>3, <1>4

LEMMA CommandsAreNoExits ==
  \A c \in Commands : Cmd(c) \in Msgs /\ \A i : ~IsExit(Cmd(c), i)
  BY DEF Commands, Cmd, Msgs, IsExit

LEMMA CommandShape ==
  ASSUME Shape, NEW t \in Tasks, \E c \in Commands : Command(t, c)
  PROVE  Shape'
<1>1. PICK c \in Commands : Command(t, c)
  OBVIOUS
<1>2. Cmd(c) \in Msgs /\ \A i : ~IsExit(Cmd(c), i)
  BY CommandsAreNoExits
<1>3. /\ mailbox' \in [Tasks -> Seq(Msgs)]
      /\ \A u \in Tasks : \A i : In(mailbox'[u], i) => In(mailbox[u], i)
  BY <1>1, <1>2, PutEffect DEF Command
<1>4. TypesOK' /\ Holding(t)'
  BY <1>1, <1>3 DEF Command, Shape, TypesOK, Holding, Of, TtyOpen, state, child, reaper
<1> QED  BY <1>1, <1>3, <1>4, LoopShape DEF Command, state

(* A removed task may be sent a last command.                              *)
LEMMA RemoveEffect ==
  ASSUME Shape, NEW t \in Tasks, Remove(t)
  PROVE  mailbox' = mailbox \/ mailbox' = [mailbox EXCEPT ![t] = Append(@, Cmd("Kill"))]
<1>1. mailbox \in [Tasks -> Seq(Msgs)]
  BY DEF Shape, TypesOK
<1>2. CASE mailbox' = [mailbox EXCEPT ![t] = mailbox[t] \o <<>>]
  <2>1. mailbox[t] \o <<>> = mailbox[t]
    BY <1>1, ConcatEmptySeq
  <2> QED  BY <1>1, <1>2, <2>1
<1>3. CASE mailbox' = [mailbox EXCEPT ![t] = mailbox[t] \o <<Cmd("Kill")>>]
  <2>1. mailbox[t] \o <<Cmd("Kill")>> = Append(mailbox[t], Cmd("Kill"))
    BY <1>1
  <2> QED  BY <1>3, <2>1
<1> QED  BY <1>2, <1>3 DEF Remove

LEMMA RemoveMail ==
  ASSUME Shape, NEW t \in Tasks, Remove(t)
  PROVE  /\ mailbox' \in [Tasks -> Seq(Msgs)]
         /\ \A u \in Tasks : \A i : In(mailbox'[u], i) <=> In(mailbox[u], i)
         /\ \A u \in Tasks : \A i : Single(mailbox[u], i) => Single(mailbox'[u], i)
<1>1. CASE mailbox' = mailbox
  BY <1>1 DEF Shape, TypesOK
<1>2. CASE mailbox' = [mailbox EXCEPT ![t] = Append(@, Cmd("Kill"))]
  <2>1. Cmd("Kill") \in Msgs /\ \A i : ~IsExit(Cmd("Kill"), i)
    BY CommandsAreNoExits DEF Commands
  <2> QED  BY <1>2, <2>1, PutEffect
<1> QED  BY <1>1, <1>2, RemoveEffect

LEMMA RemoveShape ==
  ASSUME Shape, NEW t \in Tasks, Remove(t)
  PROVE  Shape'
<1>1. TypesOK' /\ Holding(t)'
  BY RemoveMail DEF Remove, Shape, TypesOK, Holding, Of, TtyOpen, state, child, reaper
<1> QED  BY <1>1, RemoveMail, LoopShape DEF Remove, state

LEMMA DeliverEffect ==
  ASSUME Shape, NEW t \in Tasks, Deliver(t)
  PROVE  LET m == Head(inbox[t]) IN
         /\ inbox' \in [Tasks -> Seq(Reports)] /\ mailbox' \in [Tasks -> Seq(Msgs)]
         /\ \A i : In(inbox[t], i) <=> In(inbox'[t], i) \/ IsExit(m, i)
         /\ \A i : Single(inbox[t], i) => Single(inbox'[t], i) /\ ~(IsExit(m, i) /\ In(inbox'[t], i))
         /\ \A u \in Tasks : u # t => inbox'[u] = inbox[u] /\ mailbox'[u] = mailbox[u]
         /\ \A i : In(mailbox'[t], i) <=> In(mailbox[t], i) \/ (t \in open /\ IsExit(m, i))
         /\ \A i : Single(mailbox[t], i) /\ ~(IsExit(m, i) /\ In(mailbox[t], i)) => Single(mailbox'[t], i)
<1> DEFINE m == Head(inbox[t])
<1>1. inbox[t] \in Seq(Reports) /\ inbox[t] # <<>> /\ inbox' = [inbox EXCEPT ![t] = Tail(inbox[t])]
  BY DEF Deliver, Shape, TypesOK
<1>2. Tail(inbox[t]) \in Seq(Reports) /\ m \in Reports
  BY <1>1, HeadTailProperties
<1>3. /\ inbox'[t] = Tail(inbox[t]) /\ \A u \in Tasks : u # t => inbox'[u] = inbox[u]
      /\ inbox' \in [Tasks -> Seq(Reports)]
  BY <1>1, <1>2 DEF Shape, TypesOK
<1>4. \A i : /\ In(inbox[t], i) <=> In(inbox'[t], i) \/ IsExit(m, i)
             /\ Single(inbox[t], i) => Single(inbox'[t], i) /\ ~(IsExit(m, i) /\ In(inbox'[t], i))
  BY <1>1, <1>3, InTail
<1>5. CASE m.cmd = "Exited" /\ t \in open
  <2>1. mailbox' = [mailbox EXCEPT ![t] = Append(@, ExitMsg(m.inst))]
    BY <1>5 DEF Deliver
  <2>2. m.inst \in Instances
    <3>1. In(inbox[t], m.inst)
      BY <1>4, <1>5 DEF IsExit
    <3> QED  BY <3>1 DEF Shape, Passed, IsGone
  <2>3. ExitMsg(m.inst) \in Msgs /\ \A i : IsExit(ExitMsg(m.inst), i) <=> IsExit(m, i)
    BY <1>5, <2>2 DEF ExitMsg, Msgs, IsExit
  <2>4. /\ mailbox' \in [Tasks -> Seq(Msgs)]
        /\ \A u \in Tasks : \A i : In(mailbox'[u], i) <=> In(mailbox[u], i) \/ (u = t /\ IsExit(m, i))
        /\ \A u \in Tasks : \A i :
             Single(mailbox[u], i) /\ ~(u = t /\ IsExit(m, i) /\ In(mailbox[u], i)) => Single(mailbox'[u], i)
    BY <2>1, <2>3, PutEffect
  <2>5. \A u \in Tasks : u # t => mailbox'[u] = mailbox[u]
    BY <2>1 DEF Shape, TypesOK
  <2> QED  BY <1>3, <1>4, <1>5, <2>4, <2>5
<1>6. CASE ~(m.cmd = "Exited" /\ t \in open)
  <2>1. mailbox' = mailbox
    BY <1>6 DEF Deliver
  <2>2. \A i : ~(t \in open /\ IsExit(m, i))
    BY <1>6 DEF IsExit
  <2> QED  BY <1>3, <1>4, <2>1, <2>2 DEF Shape, TypesOK
<1> QED  BY <1>5, <1>6

LEMMA DeliverShape ==
  ASSUME Shape, NEW t \in Tasks, Deliver(t)
  PROVE  Shape'
<1>1. TypesOK' /\ Holding(t)'
  BY DeliverEffect DEF Deliver, Shape, TypesOK, Holding, Of, TtyOpen, state, child, reaper
<1>2. \A u \in Tasks : \A i : In(inbox'[u], i) => In(inbox[u], i)
  BY DeliverEffect
<1>3. \A u \in Tasks : \A i : In(mailbox'[u], i) => In(mailbox[u], i) \/ IsGone(i)
  <2>1. \A i : IsExit(Head(inbox[t]), i) => IsGone(i)
    BY DeliverEffect DEF Shape, Passed
  <2> QED  BY <2>1, DeliverEffect
<1> QED  BY <1>1, <1>2, <1>3, LoopShape DEF Deliver, state

LEMMA ShapeStep == Shape /\ [Next]_vars => Shape'
<1> SUFFICES ASSUME Shape, [Next]_vars PROVE Shape'
  OBVIOUS
<1>1. CASE UNCHANGED vars
  BY <1>1, ChildrenShape, SameAge DEF vars, Shape, TypesOK, state, child, reaper
<1>2. ASSUME NEW t \in Tasks, TaskStep(t) \/ Output(t) \/ Accepted(t) PROVE Shape'
  BY <1>2, TurnShape, KillShape, ForkShape, ForkFailsShape, ListenShape, GivesUpShape, StartedShape,
     Spawning, ExitKnownShape, OutputEndsShape, OutputShape, EndsShape
  DEF TaskStep, Accepted, WriteFails
<1>3. ASSUME NEW t \in Tasks, Deliver(t) \/ Remove(t) \/ \E c \in Commands : Command(t, c)
      PROVE  Shape'
  BY <1>3, DeliverShape, RemoveShape, CommandShape
<1> QED  BY <1>1, <1>2, <1>3, ProgramShape, ReaperShape DEF Next, Outside
-----------------------------------------------------------------------------
(* An exit raises a signal, and the reaper rests only when none is left.   *)
LEMMA ZombiesStep == Shape /\ ZombiesReaped /\ [Next]_vars => ZombiesReaped'
<1> SUFFICES ASSUME Shape, ZombiesReaped, [Next]_vars PROVE ZombiesReaped'
  OBVIOUS
<1> DEFINE NoNew == \A i \in Instances : leader'[i] = "zombie" => leader[i] = "zombie"
<1>1. ASSUME NoNew, sigchld' = sigchld, waiter' = waiter  PROVE ZombiesReaped'
  BY <1>1 DEF ZombiesReaped
<1>2. CASE UNCHANGED vars
  BY <1>1, <1>2 DEF vars, child, reaper
<1>3. ASSUME NEW i \in Instances, Program(i)  PROVE ZombiesReaped'
  <2>1. CASE Exit(i)
    BY <2>1 DEF Exit, ZombiesReaped
  <2>2. CASE Foreign(i)
    <3>1. NoNew
      BY <2>2, BornAges DEF Foreign
    <3> QED  BY <1>1, <2>2, <3>1 DEF Foreign, reaper
  <2>3. CASE ForeignReaped(i) \/ KinExit(i) \/ \E k \in {"group", "stray"} : Bear(i, k)
    <3>1. NoNew
      BY <2>3 DEF ForeignReaped, KinExit, Bear, Shape, TypesOK
    <3> QED  BY <1>1, <2>3, <3>1 DEF ForeignReaped, KinExit, Bear, reaper
  <2> QED  BY <1>3, <2>1, <2>2, <2>3 DEF Program
<1>4. CASE Reaper
  BY <1>4 DEF Reaper, Wake, Collect, Dispatch, AfterOne, Rest, ZombiesReaped, child
<1>5. ASSUME NEW t \in Tasks, TaskStep(t) \/ Output(t) \/ Accepted(t)  PROVE ZombiesReaped'
  <2>1. CASE Kill(t)
    <3>1. Killed(process[t], t \in KillGroup) /\ waiter' = waiter
      BY <2>1 DEF Kill, reaper
    <3>2. CASE sigchld'
      BY <3>2 DEF ZombiesReaped
    <3>3. CASE ~sigchld'
      <4>1. {j \in Instances : pid[j] = pid[process[t]] /\ leader[j] = "alive"} = {} /\ ~sigchld
        BY <3>1, <3>3 DEF Killed
      <4>2. NoNew
        BY <3>1, <4>1 DEF Killed
      <4> QED  BY <3>1, <4>1, <4>2 DEF ZombiesReaped
    <3> QED  BY <3>2, <3>3
  <2>2. CASE Fork(t)
    <3>1. NoNew
      BY <2>2, BornAges DEF Fork
    <3> QED  BY <1>1, <2>2, <3>1 DEF Fork, reaper
  <2>3. CASE ~Kill(t) /\ ~Fork(t)
    <3>1. UNCHANGED <<child, sigchld, waiter>>
      BY <1>5, <2>3
      DEF TaskStep, Output, Accepted, Resume, Ignore, ForkFails, Listen, Abandons, Launch,
          Stop, Input, WriteFails, ExitKnown, OutputEnds, Ends, reaper
    <3> QED  BY <1>1, <3>1 DEF child
  <2> QED  BY <2>1, <2>2, <2>3
<1>6. ASSUME NEW t \in Tasks, Deliver(t) \/ Remove(t) \/ \E c \in Commands : Command(t, c)
      PROVE  ZombiesReaped'
  BY <1>1, <1>6 DEF Deliver, Remove, Command, child, reaper
<1> QED  BY <1>2, <1>3, <1>4, <1>5, <1>6 DEF Next, Outside

LEMMA ShapeHolds == Spec => [](Shape /\ ZombiesReaped)
<1> QED  BY InitShape, ShapeStep, ZombiesStep, PTL DEF Spec
-----------------------------------------------------------------------------
(* What holds until a mishap: an exit is on its way once, forward from the *)
(* system to the reaper, to a spawn or to the channel, to the mailbox and  *)
(* to exit_info; only the current instance of a task has one under way.    *)
InOS(i) == leader[i] \in {"alive", "zombie"}
Waits(i) == unclaimed[pid[i]] = i
Once(t, i) ==
  /\ Single(inbox[t], i) /\ Single(mailbox[t], i)
  /\ hand = i => ~Waits(i)
  /\ hand = i \/ Waits(i) => ~In(inbox[t], i)
  /\ hand = i \/ Waits(i) \/ In(inbox[t], i) => ~In(mailbox[t], i)
  /\ hand = i \/ Waits(i) \/ In(inbox[t], i) \/ In(mailbox[t], i) => exitInfo[t] # i
Somewhere(t, i) ==
  InOS(i) \/ hand = i \/ Waits(i) \/ In(inbox[t], i) \/ In(mailbox[t], i) \/ exitInfo[t] = i
Spent(t, i) ==
  ~InOS(i) /\ hand # i /\ ~Waits(i) /\ ~In(inbox[t], i) /\ ~In(mailbox[t], i)
Routed(t, i) ==
  /\ InOS(i) \/ hand = i => pc[t] = "forked" \/ listeners[pid[i]] = i
  /\ pc[t] = "forked" => listeners[pid[i]] # i
  /\ Waits(i) => pc[t] = "forked"
Book(t, i) ==
  Of(i, t) /\ pc[t] # "ended" =>
    /\ Once(t, i)
    /\ i = Current(t) => Routed(t, i) /\ (t \in open => Somewhere(t, i))
    /\ i # Current(t) => Spent(t, i)

OwnPids == \A i, j \in Instances : leader[i] # "unborn" /\ pid[i] = pid[j] => i = j
OwnMail == \A t \in Tasks : \A i : In(inbox[t], i) \/ In(mailbox[t], i) => Owner[i] = t
Known == \A t \in Tasks : process[t] # None /\ exitInfo[t] # None => exitInfo[t] = process[t]
Books ==
  /\ OwnPids /\ OwnMail /\ Known
  /\ \A t \in Tasks, i \in Instances : Book(t, i)

LEMMA InitBooks == Init => Books
<1> SUFFICES ASSUME Init PROVE Books
  OBVIOUS
<1>1. \A t \in Tasks : \A i : ~In(inbox[t], i) /\ ~In(mailbox[t], i)
  BY InEmpty DEF Init
<1> QED  BY <1>1 DEF Init, Books, OwnPids, OwnMail, Known, Book, Of

(* What a step that is not about the exit of i leaves as it is.            *)
Untouched(t, i) ==
  /\ leader'[i] # "unborn" => leader[i] # "unborn" /\ pid'[i] = pid[i]
  /\ InOS(i)' <=> InOS(i)
  /\ hand' = i <=> hand = i
  /\ Waits(i)' <=> Waits(i)
  /\ In(inbox'[t], i) <=> In(inbox[t], i)
  /\ In(mailbox'[t], i) <=> In(mailbox[t], i)
  /\ Single(inbox[t], i) => Single(inbox'[t], i)
  /\ Single(mailbox[t], i) => Single(mailbox'[t], i)
  /\ pc[t] = "ended" => pc'[t] = "ended"
  /\ exitInfo'[t] = i => exitInfo[t] = i
  /\ i = Current(t)' =>
       /\ i = Current(t) /\ (t \in open' => t \in open)
       /\ pc'[t] = "forked" <=> pc[t] = "forked"
       /\ listeners'[pid[i]] = i <=> listeners[pid[i]] = i
       /\ exitInfo[t] = i => exitInfo'[t] = i
  /\ i # Current(t)' => i # Current(t)
LEMMA BookKept ==
  ASSUME NEW t \in Tasks, NEW i \in Instances, Book(t, i), Untouched(t, i)
  PROVE  Book(t, i)'
  BY DEF Untouched, Book, Of, Once, Routed, Somewhere, Spent, Waits

LEMMA BooksKept ==
  ASSUME Books, OwnPids', OwnMail', Known',
         \A t \in Tasks, i \in Instances : Of(i, t)' => Untouched(t, i) \/ Book(t, i)'
  PROVE  Books'
<1>1. ASSUME NEW t \in Tasks, NEW i \in Instances PROVE Book(t, i)'
  <2>1. CASE Untouched(t, i)
    BY <2>1, BookKept DEF Books
  <2>2. CASE ~Of(i, t)'
    BY <2>2 DEF Book
  <2> QED  BY <2>1, <2>2
<1> QED  BY <1>1 DEF Books

(* Nothing but children change.                                            *)
LEMMA ChildrenBooks ==
  ASSUME Shape, Books, UNCHANGED <<pc, fresh, state, mailbox, open, inbox, reaper>>,
         OwnPids',
         \A i \in Instances : Owner[i] \in Tasks =>
           /\ leader'[i] # "unborn" => leader[i] # "unborn"
           /\ pid'[i] = pid[i] /\ (InOS(i)' <=> InOS(i))
  PROVE  Books'
<1>1. OwnMail' /\ Known'
  BY DEF Books, OwnMail, Known, state
<1>2. \A t \in Tasks, i \in Instances : Of(i, t)' => Untouched(t, i)
  BY DEF Untouched, Of, Waits, Current, state, reaper
<1> QED  BY <1>1, <1>2, BooksKept

LEMMA ProgramBooks ==
  ASSUME Shape, Books, NEW i \in Instances, Program(i), ~mishap'
  PROVE  Books'
<1>1. CASE Exit(i) \/ KinExit(i) \/ \E k \in {"group", "stray"} : Bear(i, k)
  <2>1. /\ UNCHANGED <<pid, pc, fresh, state, mailbox, open, inbox, reaper>>
        /\ \A j \in Instances : (leader'[j] # "unborn" <=> leader[j] # "unborn") /\ (InOS(j)' <=> InOS(j))
    BY <1>1 DEF Exit, KinExit, Bear, InOS, Shape, TypesOK, child
  <2>2. OwnPids'
    BY <2>1 DEF Books, OwnPids
  <2> QED  BY <2>1, <2>2, ChildrenBooks
<1>2. CASE ForeignReaped(i)
  <2>1. /\ UNCHANGED <<pid, pc, fresh, state, mailbox, open, inbox, reaper>> /\ Owner[i] = None
        /\ \A j \in Instances : j # i => leader'[j] = leader[j]
        /\ leader[i] = "zombie" /\ leader'[i] = "gone"
    BY <1>2 DEF ForeignReaped, Shape, TypesOK
  <2>2. OwnPids'
    BY <2>1 DEF Books, OwnPids
  <2>3. \A j \in Instances : Owner[j] \in Tasks => leader'[j] = leader[j]
    BY <2>1, ProcessTaskAssumption
  <2> QED  BY <2>1, <2>2, <2>3, ChildrenBooks DEF InOS
<1>3. CASE Foreign(i)
  <2>1. PICK p \in Pids : Born(i, p) /\ Owner[i] = None
    BY <1>3 DEF Foreign
  <2>2. \A j \in Instances : pid[j] # p
    BY <2>1, BornAges DEF Shape, TypesOK
  <2>3. OwnPids'
    BY <2>1, <2>2, BornAges, ProcessTaskAssumption DEF Books, OwnPids, Shape, Bearing
  <2>4. \A j \in Instances : Owner[j] \in Tasks => leader'[j] = leader[j] /\ pid'[j] = pid[j]
    BY <2>1, BornAges, ProcessTaskAssumption
  <2> QED  BY <1>3, <2>3, <2>4, ChildrenBooks DEF Foreign, InOS
<1> QED  BY <1>1, <1>2, <1>3 DEF Program

LEMMA ReaperBooks ==
  ASSUME Shape, Books, Reaper
  PROVE  Books'
<1>1. CASE Wake \/ Rest
  <2>1. UNCHANGED <<pc, fresh, state, mailbox, open, inbox, child, hand, listeners, unclaimed>>
    BY <1>1 DEF Wake, Rest
  <2>2. OwnMail' /\ Known' /\ OwnPids'
    BY <2>1 DEF Books, OwnMail, Known, OwnPids, state, child
  <2>3. \A t \in Tasks, i \in Instances : Untouched(t, i)
    BY <2>1 DEF Untouched, Waits, InOS, Current, state, child
  <2> QED  BY <2>2, <2>3, BooksKept
<1>2. ASSUME NEW j \in Instances, Collect(j) PROVE Books'
  <2>1. /\ UNCHANGED <<pc, fresh, state, mailbox, open, inbox, pid, listeners, unclaimed>>
        /\ leader[j] = "zombie" /\ leader'[j] = "gone" /\ hand = None /\ hand' = j
        /\ \A i \in Instances : i # j => leader'[i] = leader[i]
    BY <1>2 DEF Collect, Shape, TypesOK, Reaped
  <2>2. OwnMail' /\ Known' /\ OwnPids'
    BY <2>1 DEF Books, OwnMail, Known, OwnPids, state
  <2>3. ASSUME NEW t \in Tasks, NEW i \in Instances, i # j PROVE Untouched(t, i)
    <3>1. i # None
      BY ProcessTaskAssumption
    <3> QED  BY <2>1, <2>3, <3>1 DEF Untouched, Waits, InOS, Current, state
  <2>4. ASSUME NEW t \in Tasks, Of(j, t)' PROVE Book(t, j)'
    <3>1. Book(t, j) /\ Of(j, t) /\ InOS(j)
      BY <2>1, <2>4 DEF Books, Of, InOS
    <3>2. ~In(inbox[t], j) /\ ~In(mailbox[t], j) /\ exitInfo[t] # j /\ ~Waits(j)
      <4>1. pid[j] \in Pids /\ ~IsGone(j)
        BY <2>1, <3>1 DEF Shape, Bearing, Of, IsGone
      <4> QED  BY <4>1, ProcessTaskAssumption DEF Shape, Passed, Reaped, Waits
    <3> QED  BY <2>1, <3>1, <3>2 DEF Book, Of, Once, Routed, Somewhere, Spent, Waits, Current, InOS, state
  <2> QED  BY <2>2, <2>3, <2>4, BooksKept DEF Of
<1>3. CASE Dispatch
  <2>0. PICK j \in Instances, p \in Pids : j = hand /\ p = pid[j]
    BY <1>3 DEF Dispatch, Shape, Reaped, IsGone, Bearing
  <2>1. /\ j = hand /\ p = pid[j] /\ j # None /\ leader[j] = "gone" /\ hand' = None
        /\ UNCHANGED <<pc, fresh, process, exitInfo, eof, mailbox, open, leader, kin, pid>>
    BY <1>3, <2>0 DEF Dispatch, Shape, Reaped, IsGone, state, child
  <2>2. Known' /\ OwnPids'
    BY <2>1 DEF Books, Known, OwnPids
  <2>3. Exited(j) \in Reports /\ \A k : IsExit(Exited(j), k) <=> k = j
    BY <2>1, NoExitReports
  <2>4. \A i \in Instances : i # j /\ leader[i] # "unborn" => pid[i] # p
    BY <2>1 DEF Books, OwnPids
  <2>5. CASE listeners[p] # None
    <3>1. listeners[p] = j /\ Owner[j] \in Tasks
      BY <2>1, <2>4, <2>5 DEF Shape, Reaped
    <3>0. PICK t \in Tasks : t = Owner[j]
      BY <3>1
    <3>2. /\ Telling(t, Exited(j)) /\ unclaimed' = unclaimed
          /\ listeners' = [listeners EXCEPT ![p] = None]
      BY <1>3, <2>1, <3>1, <3>0 DEF Dispatch, Telling
    <3>3. /\ \A u \in Tasks : \A k : In(inbox'[u], k) <=> In(inbox[u], k) \/ (u = t /\ k = j)
          /\ \A u \in Tasks : \A k :
               Single(inbox[u], k) /\ ~(u = t /\ k = j /\ In(inbox[u], k)) => Single(inbox'[u], k)
      BY <2>3, <3>2, TellEffect
    <3>4. OwnMail'
      BY <2>1, <3>3, <3>0 DEF Books, OwnMail
    <3>5. \A q \in Pids : q # p => listeners'[q] = listeners[q]
      BY <3>2 DEF Shape, TypesOK
    <3>6. ASSUME NEW u \in Tasks, NEW i \in Instances, Of(i, u)', i # j PROVE Untouched(u, i)
      <4>1. pid[i] \in Pids /\ pid[i] # p /\ i # None
        BY <2>1, <2>4, <3>6, ProcessTaskAssumption DEF Of, Shape, Bearing
      <4> QED  BY <2>1, <3>2, <3>3, <3>5, <3>6, <4>1 DEF Untouched, Waits, InOS, Current
    <3>7. ASSUME NEW u \in Tasks, Of(j, u)' PROVE Book(u, j)'
      <4>1. u = t /\ Of(j, t) /\ Book(t, j)
        BY <2>1, <3>0, <3>7 DEF Of, Books
      <4>2. In(inbox'[t], j) /\ listeners'[p] # j
        BY <2>1, <3>1, <3>2, <3>3 DEF Shape, TypesOK
      <4>3. ~InOS(j) /\ ~InOS(j)'
        BY <2>1 DEF InOS
      <4> QED  BY <2>1, <3>1, <3>2, <3>3, <4>1, <4>2, <4>3
               DEF Book, Of, Once, Routed, Somewhere, Spent, Waits, Current
    <3> QED  BY <2>2, <3>4, <3>6, <3>7, BooksKept
  <2>6. CASE listeners[p] = None
    <3>1. UNCHANGED <<inbox, listeners>> /\ unclaimed' = [unclaimed EXCEPT ![p] = j]
      BY <1>3, <2>1, <2>6 DEF Dispatch
    <3>2. OwnMail'
      BY <2>1, <3>1 DEF Books, OwnMail
    <3>3. unclaimed'[p] = j /\ \A q \in Pids : q # p => unclaimed'[q] = unclaimed[q]
      BY <2>1, <3>1 DEF Shape, TypesOK
    <3>4. ASSUME NEW u \in Tasks, NEW i \in Instances, Of(i, u)', i # j PROVE Untouched(u, i)
      <4>1. pid[i] \in Pids /\ pid[i] # p /\ i # None
        BY <2>1, <2>4, <3>4, ProcessTaskAssumption DEF Of, Shape, Bearing
      <4> QED  BY <2>1, <3>1, <3>3, <3>4, <4>1 DEF Untouched, Waits, InOS, Current
    <3>5. ASSUME NEW u \in Tasks, Of(j, u)' PROVE Book(u, j)'
      <4>1. Of(j, u) /\ Book(u, j)
        BY <2>1, <3>5 DEF Of, Books
      <4>2. ~InOS(j) /\ ~InOS(j)' /\ Waits(j)'
        BY <2>1, <3>3 DEF InOS, Waits
      <4> QED  BY <2>1, <2>6, <3>1, <4>1, <4>2
               DEF Book, Of, Once, Routed, Somewhere, Spent, Waits, Current
    <3> QED  BY <2>2, <3>2, <3>4, <3>5, BooksKept
  <2> QED  BY <2>5, <2>6
<1> QED  BY <1>1, <1>2, <1>3 DEF Reaper
-----------------------------------------------------------------------------
(* A command that is taken is no exit.                                     *)
LEMMA TakeOther ==
  ASSUME Shape, NEW t \in Tasks, NEW c \in Commands, Take(t, c)
  PROVE  \A u \in Tasks : \A i : /\ In(mailbox'[u], i) <=> In(mailbox[u], i)
                                 /\ Single(mailbox[u], i) => Single(mailbox'[u], i)
<1>1. mailbox[t] \in Seq(Msgs) /\ mailbox[t] # <<>> /\ Head(mailbox[t]).cmd = c
  BY DEF Take, Shape, TypesOK
<1>2. \A i : ~IsExit(Head(mailbox[t]), i)
  BY <1>1 DEF Commands, IsExit
<1>3. \A i : /\ In(Tail(mailbox[t]), i) <=> In(mailbox[t], i)
             /\ Single(mailbox[t], i) => Single(Tail(mailbox[t]), i)
  BY <1>1, <1>2, InTail
<1>4. mailbox'[t] = Tail(mailbox[t]) /\ \A u \in Tasks : u # t => mailbox'[u] = mailbox[u]
  BY DEF Take, Shape, TypesOK
<1> QED  BY <1>3, <1>4

(* A step of t that leaves the children and the reaper alone.              *)
LEMMA LoopBooks ==
  ASSUME Shape, Books, UNCHANGED <<child, reaper>>, NEW t \in Tasks, OwnMail', Known',
         open' \subseteq open,
         \A u \in Tasks : u # t =>
           /\ pc'[u] = pc[u] /\ fresh'[u] = fresh[u]
           /\ process'[u] = process[u] /\ exitInfo'[u] = exitInfo[u]
           /\ inbox'[u] = inbox[u] /\ mailbox'[u] = mailbox[u],
         \A i \in Instances : Of(i, t) => Untouched(t, i) \/ Book(t, i)'
  PROVE  Books'
<1>1. OwnPids'
  BY DEF Books, OwnPids, child
<1>2. ASSUME NEW u \in Tasks, NEW i \in Instances, Of(i, u)'
      PROVE  Untouched(u, i) \/ Book(u, i)'
  <2>1. CASE u = t
    BY <1>2, <2>1 DEF Of, child
  <2>2. CASE u # t
    BY <2>2 DEF Untouched, Waits, InOS, Current, child, reaper
  <2> QED  BY <2>1, <2>2
<1> QED  BY <1>1, <1>2, BooksKept

(* And that is not about an exit or another instance.                      *)
LEMMA QuietBooks ==
  ASSUME Shape, Books, UNCHANGED <<child, reaper>>, NEW t \in Tasks,
         open' \subseteq open,
         \A u \in Tasks : u # t =>
           /\ pc'[u] = pc[u] /\ fresh'[u] = fresh[u]
           /\ process'[u] = process[u] /\ exitInfo'[u] = exitInfo[u]
           /\ inbox'[u] = inbox[u] /\ mailbox'[u] = mailbox[u],
         \A i : /\ In(inbox'[t], i) <=> In(inbox[t], i)
                /\ In(mailbox'[t], i) <=> In(mailbox[t], i)
                /\ Single(inbox[t], i) => Single(inbox'[t], i)
                /\ Single(mailbox[t], i) => Single(mailbox'[t], i),
         Current(t)' = Current(t),
         pc[t] = "ended" <=> pc'[t] = "ended", pc'[t] = "forked" <=> pc[t] = "forked",
         exitInfo'[t] = None \/ (exitInfo'[t] = exitInfo[t] /\ process'[t] = process[t]),
         exitInfo'[t] = None => exitInfo[t] = None \/ exitInfo[t] # Current(t)
  PROVE  Books'
<1>1. OwnMail'
  BY DEF Books, OwnMail
<1>2. Known'
  BY DEF Books, Known
<1>3. ASSUME NEW i \in Instances, Of(i, t) PROVE Untouched(t, i)
  <2>1. i # None
    BY ProcessTaskAssumption
  <2> QED  BY <2>1 DEF Untouched, Waits, InOS, child, reaper
<1> QED  BY <1>1, <1>2, <1>3, LoopBooks

LEMMA TurnBooks ==
  ASSUME Shape, Books, NEW t \in Tasks,
         \/ \E c \in Commands : Ignore(t, c)
         \/ Stop(t) \/ Input(t) \/ Resume(t)
  PROVE  Books'
<1>1. /\ UNCHANGED <<fresh, process, exitInfo, open, inbox, child, reaper>>
      /\ \A u \in Tasks : u # t => mailbox'[u] = mailbox[u] /\ pc'[u] = pc[u]
      /\ pc[t] \in {"select", "write"} /\ pc'[t] \in {"select", "write"}
  BY DEF Ignore, Take, Stop, Input, Resume, Goto, Shape, TypesOK, Steps, state
<1>2. \A i : /\ In(mailbox'[t], i) <=> In(mailbox[t], i)
             /\ Single(mailbox[t], i) => Single(mailbox'[t], i)
  BY TakeOther DEF Ignore, Stop, Input, Resume, Commands
<1>3. Current(t)' = Current(t)
  BY <1>1 DEF Current
<1> QED  BY <1>1, <1>2, <1>3, QuietBooks

LEMMA ForkFailsBooks ==
  ASSUME Shape, Books, NEW t \in Tasks, ForkFails(t)
  PROVE  Books'
<1>1. /\ UNCHANGED <<pc, fresh, process, exitInfo, open, child, reaper>>
      /\ \A u \in Tasks : u # t => mailbox'[u] = mailbox[u] /\ inbox'[u] = inbox[u]
      /\ Telling(t, Report("Stopped", None, None))
  BY DEF ForkFails, Take, Telling, Shape, TypesOK, state
<1>2. \A i : /\ In(mailbox'[t], i) <=> In(mailbox[t], i)
             /\ Single(mailbox[t], i) => Single(mailbox'[t], i)
  BY TakeOther DEF ForkFails, Commands
<1>3. \A i : /\ In(inbox'[t], i) <=> In(inbox[t], i)
             /\ Single(inbox[t], i) => Single(inbox'[t], i)
  <2>1. /\ Report("Stopped", None, None) \in Reports
        /\ \A i : ~IsExit(Report("Stopped", None, None), i)
    BY NoExitReports DEF Nobody
  <2> QED  BY <1>1, <2>1, TellEffect
<1>4. Current(t)' = Current(t)
  BY <1>1 DEF Current
<1> QED  BY <1>1, <1>2, <1>3, <1>4, QuietBooks

LEMMA OutputBooks ==
  ASSUME Shape, Books, NEW t \in Tasks, Output(t)
  PROVE  Books'
<1>1. /\ UNCHANGED <<fresh, process, exitInfo, open, mailbox, child, reaper>>
      /\ \A u \in Tasks : u # t => pc'[u] = pc[u]
      /\ pc[t] = "select" /\ pc'[t] \in {"select", "write"}
      /\ inbox' = inbox \/ Telling(t, Report("Ready", process[t], None))
  BY OutputEffect DEF Output, state
<1>2. /\ \A i : /\ In(inbox'[t], i) <=> In(inbox[t], i)
                /\ Single(inbox[t], i) => Single(inbox'[t], i)
      /\ \A u \in Tasks : u # t => inbox'[u] = inbox[u]
  <2>1. CASE inbox' = inbox
    BY <2>1
  <2>2. CASE Telling(t, Report("Ready", process[t], None))
    <3>1. /\ Report("Ready", process[t], None) \in Reports
          /\ \A i : ~IsExit(Report("Ready", process[t], None), i)
      BY NoExitReports DEF Shape, TypesOK, Nobody
    <3>2. \A u \in Tasks : u # t => inbox'[u] = inbox[u]
      BY <2>2 DEF Telling, Shape, TypesOK
    <3> QED  BY <2>2, <3>1, <3>2, TellEffect
  <2> QED  BY <1>1, <2>1, <2>2
<1>3. Current(t)' = Current(t)
  BY <1>1 DEF Current
<1> QED  BY <1>1, <1>2, <1>3, QuietBooks

LEMMA StartedBooks ==
  ASSUME Shape, Books, NEW t \in Tasks, Started(t)
  PROVE  Books'
<1>1. /\ Held(t, fresh[t], None, FALSE) /\ Telling(t, Report("Started", fresh[t], None))
      /\ Of(fresh[t], t) /\ fresh[t] # None /\ exitInfo[t] # fresh[t]
  BY StartedEffect DEF Started, Shape, Holding
<1>2. /\ UNCHANGED <<open, mailbox, child, reaper>>
      /\ \A u \in Tasks : u # t =>
           /\ pc'[u] = pc[u] /\ fresh'[u] = fresh[u] /\ process'[u] = process[u]
           /\ exitInfo'[u] = exitInfo[u] /\ inbox'[u] = inbox[u]
      /\ pc[t] = "listening" /\ pc'[t] = "select"
      /\ process'[t] = fresh[t] /\ exitInfo'[t] = None
  BY <1>1 DEF Started, Held, Telling, Shape, TypesOK
<1>3. \A i : /\ In(inbox'[t], i) <=> In(inbox[t], i)
             /\ Single(inbox[t], i) => Single(inbox'[t], i)
  <2>1. /\ Report("Started", fresh[t], None) \in Reports
        /\ \A i : ~IsExit(Report("Started", fresh[t], None), i)
    BY <1>1, NoExitReports DEF Nobody, Of
  <2> QED  BY <1>1, <2>1, TellEffect
<1>4. Current(t)' = Current(t) /\ Current(t) = fresh[t]
  BY <1>2 DEF Current
<1> QED  BY <1>1, <1>2, <1>3, <1>4, QuietBooks

LEMMA CommandBooks ==
  ASSUME Shape, Books, NEW t \in Tasks, \E c \in Commands : Command(t, c)
  PROVE  Books'
<1>1. PICK c \in Commands : Command(t, c)
  OBVIOUS
<1>2. Cmd(c) \in Msgs /\ \A i : ~IsExit(Cmd(c), i)
  BY CommandsAreNoExits
<1>3. /\ UNCHANGED <<pc, fresh, process, exitInfo, open, inbox, child, reaper>>
      /\ mailbox' = [mailbox EXCEPT ![t] = Append(@, Cmd(c))]
      /\ \A u \in Tasks : u # t => mailbox'[u] = mailbox[u]
  BY <1>1 DEF Command, Shape, TypesOK, state
<1>4. \A i : /\ In(mailbox'[t], i) <=> In(mailbox[t], i)
             /\ Single(mailbox[t], i) => Single(mailbox'[t], i)
  BY <1>2, <1>3, PutEffect
<1>5. Current(t)' = Current(t)
  BY <1>3 DEF Current
<1> QED  BY <1>3, <1>4, <1>5, QuietBooks

LEMMA RemoveBooks ==
  ASSUME Shape, Books, NEW t \in Tasks, Remove(t)
  PROVE  Books'
<1>1. /\ UNCHANGED <<pc, fresh, process, exitInfo, inbox, child, reaper>>
      /\ open' \subseteq open
      /\ \A u \in Tasks : u # t => mailbox'[u] = mailbox[u]
  BY RemoveEffect DEF Remove, Shape, TypesOK, state
<1>2. \A i : /\ In(mailbox'[t], i) <=> In(mailbox[t], i)
             /\ Single(mailbox[t], i) => Single(mailbox'[t], i)
  BY RemoveMail
<1>3. Current(t)' = Current(t)
  BY <1>1 DEF Current
<1> QED  BY <1>1, <1>2, <1>3, QuietBooks

LEMMA EndsBooks ==
  ASSUME Shape, Books, NEW t \in Tasks, Ends(t)
  PROVE  Books'
<1>1. /\ UNCHANGED <<fresh, exitInfo, open, mailbox, inbox, child, reaper>>
      /\ pc' = [pc EXCEPT ![t] = "ended"] /\ process' = [process EXCEPT ![t] = None]
  BY DEF Ends, Goto
<1>2. OwnMail' /\ Known'
  BY <1>1 DEF Books, OwnMail, Known, Shape, TypesOK
<1>3. \A i \in Instances : Book(t, i)'
  BY <1>1 DEF Book, Shape, TypesOK
<1> QED  BY <1>1, <1>2, <1>3, LoopBooks DEF Shape, TypesOK

LEMMA KillBooks ==
  ASSUME Shape, Books, NEW t \in Tasks, Kill(t)
  PROVE  Books'
<1>1. /\ UNCHANGED <<pc, fresh, process, exitInfo, open, inbox, reaper, pid>>
      /\ \A i \in Instances : InOS(i)' <=> InOS(i)
      /\ \A i \in Instances : leader'[i] # "unborn" => leader[i] # "unborn"
  BY DEF Kill, Killed, InOS, Shape, TypesOK, state
<1>2. \A u \in Tasks : \A i : /\ In(mailbox'[u], i) <=> In(mailbox[u], i)
                              /\ Single(mailbox[u], i) => Single(mailbox'[u], i)
  BY TakeOther DEF Kill, Commands
<1>3. OwnMail' /\ Known' /\ OwnPids'
  BY <1>1, <1>2 DEF Books, OwnMail, Known, OwnPids
<1>4. ASSUME NEW u \in Tasks, NEW i \in Instances PROVE Untouched(u, i)
  BY <1>1, <1>2 DEF Untouched, Waits, Current, reaper
<1> QED  BY <1>3, <1>4, BooksKept

(* A new instance has no exit yet, and those before it are done with.      *)
LEMMA ForkBooks ==
  ASSUME Shape, Books, NEW t \in Tasks, Fork(t), ~mishap'
  PROVE  Books'
<1>1. PICK i \in Instances, p \in Pids :
        Owner[i] = t /\ Born(i, p) /\ fresh' = [fresh EXCEPT ![t] = i]
  BY DEF Fork
<1>2. /\ UNCHANGED <<process, exitInfo, open, inbox, reaper>>
      /\ pc[t] = "select" /\ process[t] = None
      /\ pc' = [pc EXCEPT ![t] = "forked"]
  BY DEF Fork, Take, Goto, state
<1>3. \A u \in Tasks : \A j : /\ In(mailbox'[u], j) <=> In(mailbox[u], j)
                              /\ Single(mailbox[u], j) => Single(mailbox'[u], j)
  BY TakeOther DEF Fork, Commands
<1>4. /\ leader[i] = "unborn" /\ leader'[i] = "alive" /\ pid'[i] = p
      /\ \A j \in Instances : j # i => leader'[j] = leader[j] /\ pid'[j] = pid[j]
      /\ \A j \in Instances : pid[j] # p
  BY <1>1, BornAges DEF Shape, TypesOK
<1>5. OwnMail' /\ Known'
  BY <1>2, <1>3 DEF Books, OwnMail, Known
<1>6. OwnPids'
  BY <1>4 DEF Books, OwnPids
<1>7. /\ Current(t) = None /\ Current(t)' = i
      /\ \A u \in Tasks : u # t => Current(u)' = Current(u) /\ pc'[u] = pc[u]
  BY <1>1, <1>2 DEF Current, Shape, TypesOK
<1>8. ASSUME NEW u \in Tasks, NEW j \in Instances, Of(j, u)', j # i
      PROVE  Untouched(u, j)
  <2>1. j # None
    BY ProcessTaskAssumption
  <2>2. CASE u = t
    BY <1>2, <1>3, <1>4, <1>7, <1>8, <2>1, <2>2 DEF Untouched, Waits, InOS, reaper
  <2>3. CASE u # t
    BY <1>2, <1>3, <1>4, <1>7, <1>8, <2>1, <2>3 DEF Untouched, Waits, InOS, reaper
  <2> QED  BY <2>2, <2>3
<1>9. ASSUME NEW u \in Tasks, Of(i, u)'
      PROVE  Book(u, i)'
  <2>1. u = t
    BY <1>1, <1>9 DEF Of
  <2>2. /\ ~In(inbox[t], i) /\ ~In(mailbox[t], i) /\ exitInfo[t] # i /\ hand # i
        /\ i # None /\ unclaimed[p] # i /\ listeners[p] # i
    BY <1>4, ProcessTaskAssumption DEF Shape, Passed, Reaped, IsGone
  <2>3. Single(inbox'[t], i) /\ Single(mailbox'[t], i)
    BY <1>2, <1>3, <2>2 DEF In, Single
  <2>4. Once(t, i)'
    BY <1>2, <1>3, <1>4, <2>2, <2>3 DEF Once, Waits, reaper
  <2>5. Routed(t, i)' /\ Somewhere(t, i)'
    BY <1>2, <1>4, <2>2 DEF Routed, Somewhere, InOS, Waits, Shape, TypesOK, reaper
  <2> QED  BY <1>7, <2>1, <2>4, <2>5 DEF Book
<1> QED  BY <1>5, <1>6, <1>8, <1>9, BooksKept

(* A spawn takes the exit that was there before it, or will be told.       *)
LEMMA ListenBooks ==
  ASSUME Shape, Books, NEW t \in Tasks, Listen(t)
  PROVE  Books'
<1>1. PICK i \in Instances, p \in Pids : i = fresh[t] /\ p = pid[i]
  BY DEF Listen, Shape, Holding, Of, Bearing
<1>2. /\ pc[t] = "forked" /\ pc' = [pc EXCEPT ![t] = "listening"] /\ Of(i, t) /\ i # None
      /\ UNCHANGED <<fresh, process, exitInfo, mailbox, open, leader, pid, hand>>
  BY <1>1 DEF Listen, Goto, Shape, Holding, state, child
<1>3. Current(t) = i /\ \A u \in Tasks : Current(u)' = Current(u)
  BY <1>1, <1>2 DEF Current, Shape, TypesOK
<1>4. Known' /\ OwnPids'
  BY <1>2 DEF Books, Known, OwnPids
<1>5. ASSUME NEW u \in Tasks, NEW j \in Instances, Of(j, u)', j # i
      PROVE  pid[j] \in Pids /\ pid[j] # p /\ j # None
  BY <1>1, <1>2, <1>5, ProcessTaskAssumption DEF Of, Shape, Bearing, Books, OwnPids
<1>6. Book(t, i)
  BY DEF Books
<1>7. CASE unclaimed[p] # None
  <2>1. unclaimed[p] = i /\ IsGone(i)
    BY <1>1, <1>2, <1>7 DEF Shape, Reaped, IsGone, Books, OwnPids
  <2>2. /\ Telling(t, Exited(i)) /\ listeners' = listeners
        /\ unclaimed' = [unclaimed EXCEPT ![p] = None]
    BY <1>1, <2>1, <1>7 DEF Listen, Telling
  <2>3. /\ \A u \in Tasks : \A k : In(inbox'[u], k) <=> In(inbox[u], k) \/ (u = t /\ k = i)
        /\ \A u \in Tasks : \A k :
             Single(inbox[u], k) /\ ~(u = t /\ k = i /\ In(inbox[u], k)) => Single(inbox'[u], k)
    <3>1. Exited(i) \in Reports /\ \A k : IsExit(Exited(i), k) <=> k = i
      BY NoExitReports
    <3> QED  BY <2>2, <3>1, TellEffect
  <2>4. OwnMail'
    BY <1>2, <2>3 DEF Books, OwnMail, Of
  <2>5. ASSUME NEW u \in Tasks, NEW j \in Instances, Of(j, u)', j # i PROVE Untouched(u, j)
    <3>1. pid[j] \in Pids /\ pid[j] # p /\ j # None
      BY <1>5, <2>5
    <3>2. unclaimed'[pid[j]] = unclaimed[pid[j]]
      BY <2>2, <3>1 DEF Shape, TypesOK
    <3>3. pc[u] = "ended" => pc'[u] = "ended"
      BY <1>2 DEF Shape, TypesOK
    <3>4. j = Current(u)' => u # t /\ pc'[u] = pc[u]
      BY <1>2, <1>3, <2>5 DEF Shape, TypesOK
    <3> QED  BY <1>2, <1>3, <2>2, <2>3, <2>5, <3>1, <3>2, <3>3, <3>4 DEF Untouched, Waits, InOS
  <2>6. ASSUME NEW u \in Tasks, Of(i, u)' PROVE Book(u, i)'
    <3>1. u = t
      BY <1>2, <2>6 DEF Of
    <3>2. Once(t, i) /\ Waits(i) /\ ~InOS(i)
      BY <1>1, <1>2, <1>6, <2>1 DEF Book, Waits, InOS, IsGone
    <3>3. unclaimed'[p] # i /\ pc'[t] = "listening" /\ In(inbox'[t], i)
      BY <1>2, <2>2, <2>3 DEF Shape, TypesOK
    <3> QED  BY <1>1, <1>2, <1>3, <2>3, <3>1, <3>2, <3>3
             DEF Book, Once, Routed, Somewhere, Waits, InOS
  <2> QED  BY <1>4, <2>4, <2>5, <2>6, BooksKept
<1>8. CASE unclaimed[p] = None
  <2>1. UNCHANGED <<inbox, unclaimed>> /\ listeners' = [listeners EXCEPT ![p] = i]
    BY <1>1, <1>8 DEF Listen
  <2>2. OwnMail'
    BY <1>2, <2>1 DEF Books, OwnMail
  <2>3. ASSUME NEW u \in Tasks, NEW j \in Instances, Of(j, u)', j # i PROVE Untouched(u, j)
    <3>1. pid[j] \in Pids /\ pid[j] # p /\ j # None
      BY <1>5, <2>3
    <3>2. listeners'[pid[j]] = listeners[pid[j]]
      BY <2>1, <3>1 DEF Shape, TypesOK
    <3>3. pc[u] = "ended" => pc'[u] = "ended"
      BY <1>2 DEF Shape, TypesOK
    <3>4. j = Current(u)' => u # t /\ pc'[u] = pc[u]
      BY <1>2, <1>3, <2>3 DEF Shape, TypesOK
    <3> QED  BY <1>2, <1>3, <2>1, <2>3, <3>1, <3>2, <3>3, <3>4 DEF Untouched, Waits, InOS
  <2>4. ASSUME NEW u \in Tasks, Of(i, u)' PROVE Book(u, i)'
    <3>1. u = t
      BY <1>2, <2>4 DEF Of
    <3>2. Once(t, i) /\ (t \in open => Somewhere(t, i)) /\ ~Waits(i)
      BY <1>1, <1>2, <1>3, <1>6, <1>8 DEF Book, Waits
    <3>3. listeners'[p] = i /\ pc'[t] = "listening"
      BY <1>2, <2>1 DEF Shape, TypesOK
    <3> QED  BY <1>1, <1>2, <1>3, <2>1, <3>1, <3>2, <3>3
             DEF Book, Once, Routed, Somewhere, Waits, InOS
  <2> QED  BY <1>4, <2>2, <2>3, <2>4, BooksKept
<1> QED  BY <1>7, <1>8

LEMMA ExitKnownBooks ==
  ASSUME Shape, Books, NEW t \in Tasks, ExitKnown(t)
  PROVE  Books'
<1>1. PICK i : i = Head(mailbox[t]).inst
  OBVIOUS
<1>2. /\ mailbox[t] \in Seq(Msgs) /\ mailbox[t] # <<>> /\ IsExit(Head(mailbox[t]), i)
      /\ \A k : IsExit(Head(mailbox[t]), k) => k = i
      /\ \A u \in Tasks : u # t => mailbox'[u] = mailbox[u]
      /\ mailbox'[t] = Tail(mailbox[t])
      /\ pc[t] = "select" /\ UNCHANGED <<pc, fresh, open, child, reaper>>
  BY <1>1 DEF ExitKnown, Take, IsExit, Shape, TypesOK
<1>3. /\ \A k : In(mailbox[t], k) <=> In(mailbox'[t], k) \/ k = i
      /\ \A k : Single(mailbox[t], k) => Single(mailbox'[t], k) /\ ~(k = i /\ In(mailbox'[t], k))
  BY <1>2, InTail
<1>4. IsGone(i) /\ Owner[i] = t /\ i # None
  BY <1>3, ProcessTaskAssumption DEF Shape, Passed, Books, OwnMail, IsGone
<1>5. i = process[t] /\ Once(t, i)
  BY <1>2, <1>3, <1>4 DEF Books, Book, Of, IsGone, Spent, Current
<1>6. Loop(t, process[t], i, eof[t], <<>>) /\ eof[t] \in BOOLEAN /\ i \in Nobody
  BY <1>1, <1>4 DEF ExitKnown, Shape, TypesOK, IsGone, Nobody
<1>7. /\ exitInfo'[t] = i /\ process'[t] \in {None, i}
      /\ \A u \in Tasks : u # t => process'[u] = process[u] /\ exitInfo'[u] = exitInfo[u]
  BY <1>5, <1>6, QuietEffect
<1>8. /\ \A u \in Tasks : \A k : In(inbox'[u], k) <=> In(inbox[u], k)
      /\ \A u \in Tasks : \A k : Single(inbox[u], k) => Single(inbox'[u], k)
      /\ \A u \in Tasks : u # t => inbox'[u] = inbox[u]
  BY <1>6, QuietEffect DEF Loop, Shape, TypesOK
<1>9. OwnMail' /\ Known'
  BY <1>2, <1>3, <1>7, <1>8 DEF Books, OwnMail, Known
<1>10. ASSUME NEW k \in Instances, Of(k, t), k # i PROVE Untouched(t, k)
  <2>1. k # None
    BY ProcessTaskAssumption
  <2>2. Current(t) = i /\ Current(t)' \in {None, i}
    BY <1>2, <1>5, <1>7 DEF Current
  <2> QED  BY <1>2, <1>3, <1>7, <1>8, <1>10, <2>1, <2>2 DEF Untouched, Waits, InOS, child, reaper
<1>11. Book(t, i)'
  <2>1. ~InOS(i) /\ hand # i /\ ~Waits(i) /\ ~In(inbox[t], i) /\ ~In(mailbox'[t], i)
    BY <1>3, <1>4, <1>5 DEF Once, IsGone, InOS
  <2>2. (~InOS(i))' /\ hand' # i /\ (~Waits(i))' /\ ~In(inbox'[t], i)
    BY <1>2, <1>8, <2>1 DEF InOS, Waits, child, reaper
  <2>3. Once(t, i)' /\ Spent(t, i)'
    BY <1>3, <1>5, <1>8, <2>1, <2>2 DEF Once, Spent
  <2>4. Routed(t, i)' /\ Somewhere(t, i)'
    BY <1>2, <1>7, <2>2 DEF Routed, Somewhere
  <2> QED  BY <2>3, <2>4 DEF Book
<1> QED  BY <1>2, <1>7, <1>8, <1>9, <1>10, <1>11, LoopBooks

LEMMA OutputEndsBooks ==
  ASSUME Shape, Books, NEW t \in Tasks, OutputEnds(t)
  PROVE  Books'
<1>1. Loop(t, process[t], exitInfo[t], TRUE, <<>>) /\ exitInfo[t] \in Nobody
  BY DEF OutputEnds, Shape, TypesOK
<1>2. /\ UNCHANGED <<pc, fresh, mailbox, open, child, reaper>> /\ pc[t] = "select"
      /\ process[t] # None
  BY DEF OutputEnds, Reading
<1>3. /\ exitInfo'[t] = exitInfo[t] /\ process'[t] \in {None, process[t]}
      /\ \A u \in Tasks : u # t => process'[u] = process[u] /\ exitInfo'[u] = exitInfo[u]
      /\ process'[t] = None => exitInfo[t] # None
  <2>1. process'[t] = None => exitInfo[t] # None
    BY <1>1, <1>2 DEF Loop, Over, Shape, TypesOK
  <2> QED  BY <1>1, <2>1, QuietEffect
<1>4. /\ \A u \in Tasks : \A k : In(inbox'[u], k) <=> In(inbox[u], k)
      /\ \A u \in Tasks : \A k : Single(inbox[u], k) => Single(inbox'[u], k)
      /\ \A u \in Tasks : u # t => inbox'[u] = inbox[u]
  BY <1>1, QuietEffect DEF Loop, Shape, TypesOK
<1>5. OwnMail' /\ Known'
  BY <1>2, <1>3, <1>4 DEF Books, OwnMail, Known
<1>6. ASSUME NEW k \in Instances, Of(k, t) PROVE Untouched(t, k) \/ Book(t, k)'
  <2>1. k # None
    BY ProcessTaskAssumption
  <2>2. Current(t) = process[t] /\ Current(t)' = process'[t]
    BY <1>2 DEF Current
  <2>3. CASE k = process[t] /\ process'[t] = None
    <3>1. exitInfo[t] = k /\ ~InOS(k)
      BY <1>3, <2>1, <2>3 DEF Books, Known, Shape, Passed, IsGone, InOS
    <3>2. Once(t, k)
      BY <1>2, <1>6 DEF Books, Book
    <3>3. Once(t, k)' /\ Spent(t, k)'
      BY <1>2, <1>3, <1>4, <3>1, <3>2 DEF Once, Spent, Waits, InOS, child, reaper
    <3> QED  BY <2>1, <2>2, <2>3, <3>3 DEF Book
  <2>4. CASE ~(k = process[t] /\ process'[t] = None)
    BY <1>2, <1>3, <1>4, <2>1, <2>2, <2>4 DEF Untouched, Waits, InOS, child, reaper
  <2> QED  BY <2>3, <2>4
<1> QED  BY <1>2, <1>3, <1>4, <1>5, <1>6, LoopBooks

LEMMA DeliverBooks ==
  ASSUME Shape, Books, NEW t \in Tasks, Deliver(t)
  PROVE  Books'
<1>1. PICK m : m = Head(inbox[t])
  OBVIOUS
<1>2. /\ \A i : In(inbox[t], i) <=> In(inbox'[t], i) \/ IsExit(m, i)
      /\ \A i : Single(inbox[t], i) => Single(inbox'[t], i) /\ ~(IsExit(m, i) /\ In(inbox'[t], i))
      /\ \A u \in Tasks : u # t => inbox'[u] = inbox[u] /\ mailbox'[u] = mailbox[u]
      /\ \A i : In(mailbox'[t], i) <=> In(mailbox[t], i) \/ (t \in open /\ IsExit(m, i))
      /\ \A i : Single(mailbox[t], i) /\ ~(IsExit(m, i) /\ In(mailbox[t], i)) => Single(mailbox'[t], i)
  BY <1>1, DeliverEffect
<1>3. UNCHANGED <<pc, fresh, process, exitInfo, open, child, reaper>>
  BY DEF Deliver, state
<1>4. OwnMail' /\ Known'
  BY <1>2, <1>3 DEF Books, OwnMail, Known
<1>5. Current(t)' = Current(t)
  BY <1>3 DEF Current
<1>6. ASSUME NEW i \in Instances, Of(i, t) PROVE Untouched(t, i) \/ Book(t, i)'
  <2>1. CASE ~IsExit(m, i)
    BY <1>2, <1>3, <1>5, <2>1 DEF Untouched, Waits, InOS, child, reaper
  <2>2. CASE IsExit(m, i)
    <3>1. CASE pc[t] = "ended"
      BY <1>3, <3>1 DEF Book
    <3>2. CASE pc[t] # "ended"
      <4>1. Once(t, i) /\ In(inbox[t], i) /\ i = Current(t) /\ Routed(t, i)
        BY <1>2, <1>6, <2>2, <3>2 DEF Books, Book, Spent
      <4>2. /\ hand # i /\ ~Waits(i) /\ ~In(mailbox[t], i) /\ exitInfo[t] # i
            /\ ~In(inbox'[t], i) /\ Single(inbox'[t], i) /\ Single(mailbox'[t], i)
            /\ In(mailbox'[t], i) <=> t \in open
        BY <1>2, <2>2, <4>1 DEF Once
      <4>3. Once(t, i)' /\ Routed(t, i)' /\ (t \in open' => Somewhere(t, i)')
        BY <1>3, <4>1, <4>2 DEF Once, Routed, Somewhere, Waits, InOS, child, reaper
      <4> QED  BY <1>5, <4>1, <4>3 DEF Book
    <3> QED  BY <3>1, <3>2
  <2> QED  BY <2>1, <2>2
<1> QED  BY <1>2, <1>3, <1>4, <1>6, LoopBooks

(* A mishap is not undone.                                                 *)
LEMMA MishapStays == Shape /\ [Next]_vars /\ ~mishap' => ~mishap
<1> SUFFICES ASSUME Shape, [Next]_vars PROVE mishap => mishap'
  OBVIOUS
<1>1. ASSUME NEW i \in Instances, NEW p \in Pids, Born(i, p) PROVE mishap => mishap'
  BY <1>1 DEF Born
<1>2. CASE UNCHANGED vars
  BY <1>2 DEF vars
<1>3. ASSUME NEW i \in Instances, Program(i) PROVE mishap => mishap'
  BY <1>1, <1>3 DEF Program, Exit, KinExit, Foreign, ForeignReaped, Bear
<1>4. CASE Reaper
  BY <1>4 DEF Reaper, Wake, Dispatch, Rest, Collect
<1>5. ASSUME NEW t \in Tasks,
             TaskStep(t) \/ Output(t) \/ Accepted(t) \/ Deliver(t) \/ Remove(t)
               \/ \E c \in Commands : Command(t, c)
      PROVE  mishap => mishap'
  BY <1>1, <1>5
  DEF TaskStep, Output, Accepted, Resume, Ignore, Fork, ForkFails, Listen, Abandons, Launch, Stop,
      Kill, Input, WriteFails, ExitKnown, OutputEnds, Ends, Deliver, Remove, Command
<1> QED  BY <1>2, <1>3, <1>4, <1>5 DEF Next, Outside

LEMMA BooksStep == Shape /\ Books /\ [Next]_vars /\ ~mishap' => Books'
<1> SUFFICES ASSUME Shape, Books, [Next]_vars, ~mishap' PROVE Books'
  OBVIOUS
<1>1. CASE UNCHANGED vars
  <2>1. UNCHANGED <<pc, fresh, state, mailbox, open, inbox, child, reaper>>
    BY <1>1 DEF vars
  <2>2. OwnPids'
    BY <2>1 DEF Books, OwnPids, child
  <2> QED  BY <2>1, <2>2, ChildrenBooks DEF child, InOS
<1>2. ASSUME NEW t \in Tasks, TaskStep(t) \/ Output(t) \/ Accepted(t) PROVE Books'
  <2>1. ~GivesUp(t)
    BY DEF GivesUp
  <2> QED  BY <1>2, <2>1, TurnBooks, KillBooks, ForkBooks, ForkFailsBooks, ListenBooks, StartedBooks,
              Spawning, ExitKnownBooks, OutputEndsBooks, OutputBooks, EndsBooks
           DEF TaskStep, Accepted, WriteFails
<1>3. ASSUME NEW t \in Tasks, Deliver(t) \/ Remove(t) \/ \E c \in Commands : Command(t, c)
      PROVE  Books'
  BY <1>3, DeliverBooks, RemoveBooks, CommandBooks
<1> QED  BY <1>1, <1>2, <1>3, ProgramBooks, ReaperBooks DEF Next, Outside

(* In one place: the places of an instance are a set of one.               *)
LEMMA BooksPlaced == Shape /\ Books => ExitInOnePlace
<1> SUFFICES ASSUME Shape, Books, NEW t \in open, NEW i, i = Current(t), i # None
             PROVE  /\ Cardinality(Places(t, i)) = 1
                    /\ leader[i] \in {"alive", "zombie"} \/ hand = i =>
                         pc[t] = "forked" \/ listeners[pid[i]] = i
                    /\ unclaimed[pid[i]] = i => pc[t] = "forked"
  BY DEF ExitInOnePlace
<1>1. t \in Tasks /\ Of(i, t) /\ pc[t] # "ended"
  BY DEF Shape, TypesOK, Holding, Current
<1>2. Once(t, i) /\ Routed(t, i) /\ Somewhere(t, i)
  BY <1>1 DEF Books, Book, Of
<1>3. /\ InOS(i) => hand # i /\ ~Waits(i) /\ ~In(inbox[t], i) /\ ~In(mailbox[t], i) /\ exitInfo[t] # i
      /\ pid[i] \in Pids /\ \A p \in Pids : unclaimed[p] = i => p = pid[i]
  BY <1>1, ProcessTaskAssumption DEF InOS, Waits, Of, Shape, Bearing, Passed, Reaped, IsGone
<1>4. \E x : Places(t, i) = {x}
  <2>1. CASE InOS(i)
    <3>1. Places(t, i) = {<<"os", i>>}
      BY <1>3, <2>1 DEF Places, InOS, Waits, In
    <3> QED  BY <3>1
  <2>2. CASE hand = i
    <3>1. Places(t, i) = {<<"hand", i>>}
      BY <1>2, <1>3, <2>2 DEF Places, InOS, Waits, In, Once
    <3> QED  BY <3>1
  <2>3. CASE Waits(i)
    <3>1. Places(t, i) = {<<"unclaimed", pid[i]>>}
      BY <1>2, <1>3, <2>3 DEF Places, InOS, Waits, In, Once
    <3> QED  BY <3>1
  <2>4. CASE In(inbox[t], i)
    <3>1. PICK k : InQueue(inbox[t], i) = {k}
      BY <1>2, <2>4 DEF Once, Single, In
    <3>2. Places(t, i) = {<<"inbox", k>>}
      BY <1>2, <1>3, <2>4, <3>1 DEF Places, InOS, Waits, In, Once
    <3> QED  BY <3>2
  <2>5. CASE In(mailbox[t], i)
    <3>1. PICK k : InQueue(mailbox[t], i) = {k}
      BY <1>2, <2>5 DEF Once, Single, In
    <3>2. Places(t, i) = {<<"mailbox", k>>}
      BY <1>2, <1>3, <2>5, <3>1 DEF Places, InOS, Waits, In, Once
    <3> QED  BY <3>2
  <2>6. CASE exitInfo[t] = i
    <3>1. Places(t, i) = {<<"known", i>>}
      BY <1>2, <1>3, <2>6 DEF Places, InOS, Waits, In, Once
    <3> QED  BY <3>1
  <2> QED  BY <1>2, <2>1, <2>2, <2>3, <2>4, <2>5, <2>6 DEF Somewhere
<1> QED  BY <1>2, <1>4, FS_Singleton DEF Routed, InOS, Waits

(* Without a mishap the exit of a task's instance is in one place, and     *)
(* whoever has it can pass it on; with one or without, no exited child is  *)
(* left unreaped: unix_processes_waiter.rs and process_task.rs, whatever   *)
(* the tasks, children, pids and commands.                                 *)
THEOREM ExitsAreKept == Spec => []ExitsKept
<1>1. Init => (~mishap => Books)
  BY InitBooks
<1>2. Shape /\ (~mishap => Books) /\ [Next]_vars => (~mishap => Books)'
  BY BooksStep, MishapStays
<1>3. Spec => []((~mishap => Books) /\ Shape /\ ZombiesReaped)
  BY <1>1, <1>2, ShapeHolds, PTL DEF Spec
<1>4. (~mishap => Books) /\ Shape /\ ZombiesReaped => ExitsKept
  BY ShapeTypes, BooksPlaced DEF ExitsKept
<1> QED  BY <1>3, <1>4, PTL
-----------------------------------------------------------------------------
(* Each step is one of what the tasks promise, or none.  A child that gets *)
(* older is a step of its own.                                             *)
LEMMA Passing ==
  ASSUME Shape, Shape', Aging, UNCHANGED <<process, readySent, inbox, open>>
  PROVE  Exactly!Next
<1>1. Finished \subseteq Finished'
  <2> SUFFICES ASSUME NEW i \in Finished PROVE i \in Finished'
    OBVIOUS
  <2>1. i \in Instances /\ leader[i] # "unborn" /\ ~TtyOpen(i)
    BY DEF Finished
  <2>2. ~TtyOpen(i)' /\ leader'[i] # "unborn"
    BY <2>1 DEF Aging
  <2> QED  BY <2>1, <2>2 DEF Finished, TtyOpen, Shape, TypesOK
<1>2. Ready' = Ready
  BY DEF Ready
<1> QED  BY <1>1, <1>2 DEF Exactly!Next, Exactly!Passes

LEMMA ProgramPasses ==
  ASSUME Shape, NEW i \in Instances, Program(i)
  PROVE  Exactly!Next
<1>1. Aging
  <2>1. CASE Foreign(i)
    BY <2>1, BornAges DEF Foreign
  <2>2. CASE Exit(i) \/ KinExit(i) \/ ForeignReaped(i) \/ \E k \in {"group", "stray"} : Bear(i, k)
    BY <2>2 DEF Exit, KinExit, ForeignReaped, Bear, Shape, TypesOK, Aging, Bearing, TtyOpen
  <2> QED  BY <2>1, <2>2 DEF Program
<1>2. UNCHANGED <<process, readySent, inbox, open>>
  BY DEF Program, Exit, KinExit, Foreign, ForeignReaped, Bear, state
<1> QED  BY <1>1, <1>2, ProgramShape, Passing

LEMMA Noticing ==
  ASSUME Shape, NEW t \in Tasks, NEW i \in Instances, Telling(t, Exited(i)),
         UNCHANGED <<process, readySent, open, child>>
  PROVE  Exactly!Next
<1>1. Ready' = Ready /\ Finished' = Finished
  BY DEF Ready, Finished, TtyOpen, child
<1> QED  BY <1>1
         DEF Exactly!Next, Exactly!Notice, Exactly!Say, Telling, Exited, Report

LEMMA ReaperPasses ==
  ASSUME Shape, Reaper
  PROVE  Exactly!Next
<1>1. Shape'
  BY ReaperShape
<1>2. CASE Wake \/ Rest \/ \E i \in Instances : Collect(i)
  <2>1. Aging /\ UNCHANGED <<process, readySent, inbox, open>>
    BY <1>2 DEF Wake, Rest, Collect, Shape, TypesOK, Aging, Bearing, TtyOpen, state, child
  <2> QED  BY <1>1, <2>1, Passing
<1>3. CASE Dispatch
  <2>1. PICK j \in Instances, p \in Pids : j = hand /\ p = pid[j]
    BY <1>3 DEF Dispatch, Shape, Reaped, IsGone, Bearing
  <2>2. UNCHANGED <<process, readySent, open, child>>
    BY <1>3 DEF Dispatch, state
  <2>3. CASE listeners[p] = None
    BY <1>1, <1>3, <2>1, <2>2, <2>3, SameAge, Passing DEF Dispatch
  <2>4. CASE listeners[p] # None
    <3>1. PICK t \in Tasks : t = Owner[listeners[p]]
      BY <2>4 DEF Shape, Reaped
    <3>2. Telling(t, Exited(j))
      BY <1>3, <2>1, <2>4, <3>1 DEF Dispatch, Telling
    <3> QED  BY <2>2, <3>2, Noticing
  <2> QED  BY <2>3, <2>4
<1> QED  BY <1>2, <1>3 DEF Reaper

LEMMA ListenPasses ==
  ASSUME Shape, NEW t \in Tasks, Listen(t)
  PROVE  Exactly!Next
<1>1. PICK p \in Pids : p = pid[fresh[t]]
  BY DEF Listen, Shape, Holding, Of, Bearing
<1>2. UNCHANGED <<process, readySent, open, child>>
  BY DEF Listen, state
<1>3. CASE unclaimed[p] = None
  BY <1>1, <1>2, <1>3, ListenShape, SameAge, Passing DEF Listen
<1>4. CASE unclaimed[p] # None
  <2>1. unclaimed[p] \in Instances /\ Telling(t, Exited(unclaimed[p]))
    BY <1>1, <1>4 DEF Listen, Telling, Shape, Reaped, IsGone
  <2> QED  BY <1>2, <2>1, Noticing
<1> QED  BY <1>3, <1>4

LEMMA TurnPasses ==
  ASSUME Shape, NEW t \in Tasks,
         \/ \E c \in Commands : Ignore(t, c) \/ Command(t, c)
         \/ Stop(t) \/ Input(t) \/ Resume(t) \/ Kill(t) \/ Fork(t)
  PROVE  Exactly!Next
<1>1. Shape' /\ UNCHANGED <<process, readySent, inbox, open>>
  BY TurnShape, CommandShape, KillShape, ForkShape
  DEF Ignore, Command, Stop, Input, Resume, Kill, Fork, state
<1>2. Aging
  <2>1. CASE Kill(t)
    <3>1. process[t] \in Instances
      BY <2>1 DEF Kill, Shape, TypesOK, Nobody
    <3> QED  BY <2>1, <3>1, KilledAges DEF Kill
  <2>2. CASE Fork(t)
    BY <2>2, BornAges DEF Fork
  <2>3. CASE ~Kill(t) /\ ~Fork(t)
    BY <2>3, SameAge DEF Ignore, Command, Stop, Input, Resume
  <2> QED  BY <2>1, <2>2, <2>3
<1> QED  BY <1>1, <1>2, Passing

LEMMA Failing ==
  ASSUME Shape, NEW t \in Tasks, ForkFails(t) \/ GivesUp(t)
  PROVE  Exactly!Next
<1>1. /\ UNCHANGED <<process, readySent, open, child>> /\ process[t] = None
      /\ Telling(t, Report("Stopped", None, None))
  BY GivesUpEffect DEF ForkFails, GivesUp, Telling, state, Shape, Holding
<1>2. Ready' = Ready /\ Finished' = Finished
  BY <1>1 DEF Ready, Finished, TtyOpen, child
<1> QED  BY <1>1, <1>2 DEF Exactly!Next, Exactly!Fail, Exactly!Say, Telling, Report

LEMMA Beginning ==
  ASSUME Shape, NEW t \in Tasks, Started(t)
  PROVE  Exactly!Next
<1>1. /\ process[t] = None /\ fresh[t] \in Instances
      /\ process' = [process EXCEPT ![t] = fresh[t]]
      /\ Telling(t, Report("Started", fresh[t], None))
  BY StartedEffect DEF Held, Of
<1>2. readySent' = [readySent EXCEPT ![t] = FALSE] /\ UNCHANGED <<open, child>>
  BY DEF Started
<1>3. Ready' = Ready /\ Finished' = Finished
  BY <1>1, <1>2 DEF Ready, Finished, TtyOpen, child, Shape, TypesOK
<1> QED  BY <1>1, <1>2, <1>3 DEF Exactly!Next, Exactly!Begin, Exactly!Say, Telling, Report

LEMMA Speaking ==
  ASSUME Shape, NEW t \in Tasks, Output(t)
  PROVE  Exactly!Next
<1>1. UNCHANGED <<process, open, child>> /\ process[t] # None /\ Finished' = Finished
  BY DEF Output, Reading, state, Finished, TtyOpen, child
<1>2. CASE inbox' = inbox /\ readySent' = readySent
  BY <1>1, <1>2, SameAge, OutputShape, Passing
<1>3. CASE /\ ~readySent[t] /\ readySent' = [readySent EXCEPT ![t] = TRUE]
           /\ Telling(t, Report("Ready", process[t], None))
  <2>1. t \notin Ready /\ Ready' = Ready \cup {t}
    BY <1>1, <1>3 DEF Ready, Shape, TypesOK
  <2> QED  BY <1>1, <1>3, <2>1 DEF Exactly!Next, Exactly!BeReady, Exactly!Say, Telling, Report
<1> QED  BY <1>2, <1>3, OutputEffect

LEMMA Leaving ==
  ASSUME Shape, NEW t \in Tasks, Ends(t)
  PROVE  Exactly!Next
<1>1. /\ UNCHANGED <<readySent, inbox, open, child>> /\ t \notin open
      /\ process' = [process EXCEPT ![t] = None]
  BY DEF Ends
<1>2. Ready' = Ready \ {t} /\ Finished' = Finished
  BY <1>1 DEF Ready, Finished, TtyOpen, child, Shape, TypesOK
<1> QED  BY <1>1, <1>2 DEF Exactly!Next, Exactly!Abandon

LEMMA Hearing ==
  ASSUME Shape, NEW t \in Tasks, Deliver(t) \/ Remove(t)
  PROVE  Exactly!Next
<1>1. UNCHANGED <<process, readySent, child>>
  BY DEF Deliver, Remove, state
<1>2. Ready' = Ready /\ Finished' = Finished
  BY <1>1 DEF Ready, Finished, TtyOpen, child
<1>3. CASE Deliver(t)
  BY <1>1, <1>2, <1>3 DEF Deliver, Exactly!Next, Exactly!Heard
<1>4. CASE Remove(t)
  BY <1>1, <1>2, <1>4 DEF Remove, Exactly!Next, Exactly!Close
<1> QED  BY <1>3, <1>4

(* The loop learns something of an instance it has: it goes on with it, or *)
(* reports its stop.                                                       *)
Stopping(t, x) ==
  /\ process[t] # None /\ process' = [process EXCEPT ![t] = None]
  /\ Telling(t, Report("Stopped", process[t], x))
  /\ UNCHANGED <<readySent, open, child>>
LEMMA Learning ==
  ASSUME Shape, Shape', NEW t \in Tasks, NEW info \in Nobody, NEW ended \in BOOLEAN,
         Loop(t, process[t], info, ended, <<>>), UNCHANGED <<readySent, open, child>>
  PROVE  Exactly!Next \/ (ended /\ info \in Instances /\ Stopping(t, info))
<1>1. CASE Over(process[t], info, ended)
  <2>1. Held(t, None, info, ended) /\ Telling(t, Report("Stopped", process[t], info))
    BY <1>1, LoopQuiet
  <2>2. ended /\ info \in Instances /\ process[t] # None
    BY <1>1 DEF Over, Nobody
  <2> QED  BY <2>1, <2>2 DEF Held, Stopping
<1>2. CASE ~Over(process[t], info, ended)
  <2>1. UNCHANGED <<process, inbox>>
    BY <1>2, LoopQuiet DEF Held, Shape, TypesOK
  <2> QED  BY <2>1, SameAge, Passing
<1> QED  BY <1>1, <1>2

LEMMA Stopped ==
  ASSUME Shape, NEW t \in Tasks, NEW x \in Instances, Stopping(t, x)
  PROVE  /\ Promise!Next
         /\ ~TtyOpen(process[t]) /\ IsGone(x) /\ x = process[t] => Exactly!Next
<1>1. Ready' = Ready \ {t} /\ Finished' = Finished
  BY DEF Stopping, Ready, Finished, TtyOpen, child, Shape, TypesOK
<1>2. Promise!Finish(t, x)
  BY <1>1 DEF Stopping, Promise!Finish, Promise!Say, Telling, Report
<1>3. ~TtyOpen(process[t]) /\ IsGone(x) /\ x = process[t] => Exactly!Finish(t, x)
  BY <1>1 DEF Stopping, Exactly!Finish, Exactly!Say, Telling, Report, Finished, IsGone
<1> QED  BY <1>2, <1>3 DEF Promise!Next, Exactly!Next

(* But for its stops, what the exact one does any one may do.              *)
LEMMA Weaker == Exactly!Next => Promise!Next
  BY DEF Exactly!Next, Promise!Next, Exactly!Begin, Promise!Begin, Exactly!Finish, Promise!Finish,
     Exactly!Notice, Promise!Notice, Exactly!BeReady, Promise!BeReady, Exactly!Fail, Promise!Fail,
     Exactly!Heard, Promise!Heard, Exactly!Close, Promise!Close, Exactly!Abandon, Promise!Abandon,
     Exactly!Passes, Promise!Passes, Exactly!Say, Promise!Say

LEMMA EndingPromised ==
  ASSUME Shape, NEW t \in Tasks, ExitKnown(t) \/ OutputEnds(t)
  PROVE  /\ Promise!Next
         /\ Books => Exactly!Next
<1>1. UNCHANGED <<readySent, open, child>> /\ Shape'
  BY ExitKnownShape, OutputEndsShape DEF ExitKnown, OutputEnds
<1>2. CASE ExitKnown(t)
  <2>1. PICK i : i = Head(mailbox[t]).inst
    OBVIOUS
  <2>2. In(mailbox[t], i) /\ pc[t] = "select"
    BY <1>2, <2>1, TakeEffect DEF ExitKnown, IsExit
  <2>3. IsGone(i) /\ eof[t] \in BOOLEAN /\ i \in Nobody
    BY <2>2 DEF Shape, Passed, TypesOK, IsGone, Nobody
  <2>4. Exactly!Next \/ (eof[t] /\ i \in Instances /\ Stopping(t, i))
    BY <1>1, <1>2, <2>1, <2>3, Learning DEF ExitKnown
  <2>5. ASSUME Books PROVE i = process[t]
    <3>1. Of(i, t)
      BY <2>2, <2>3, <2>5 DEF Books, OwnMail, Of, IsGone
    <3> QED  BY <2>2, <2>5, <3>1 DEF Books, Book, Of, Spent, Current
  <2>6. eof[t] /\ process[t] # None => ~TtyOpen(process[t])
    BY DEF Shape, Holding
  <2> QED  BY <2>3, <2>4, <2>5, <2>6, Weaker, Stopped DEF Stopping
<1>3. CASE OutputEnds(t)
  <2>1. exitInfo[t] \in Nobody /\ ~TtyOpen(process[t])
    BY <1>3 DEF OutputEnds, Shape, TypesOK
  <2>2. Exactly!Next \/ (exitInfo[t] \in Instances /\ Stopping(t, exitInfo[t]))
    BY <1>1, <1>3, <2>1, Learning DEF OutputEnds
  <2>3. exitInfo[t] \in Instances => IsGone(exitInfo[t])
    BY ProcessTaskAssumption DEF Shape, Passed
  <2>4. Books /\ process[t] # None /\ exitInfo[t] \in Instances => exitInfo[t] = process[t]
    BY ProcessTaskAssumption DEF Books, Known
  <2> QED  BY <2>1, <2>2, <2>3, <2>4, Weaker, Stopped DEF Stopping
<1> QED  BY <1>2, <1>3

LEMMA NextPromised ==
  ASSUME Shape, [Next]_vars
  PROVE  /\ Promise!Next \/ UNCHANGED Promise!vars
         /\ Books => Exactly!Next \/ UNCHANGED Exactly!vars
<1>1. CASE UNCHANGED vars
  BY <1>1 DEF vars, Promise!vars, Exactly!vars, Ready, Finished, TtyOpen, state, child
<1>2. ASSUME NEW t \in Tasks, ExitKnown(t) \/ OutputEnds(t)
      PROVE  Promise!Next /\ (Books => Exactly!Next)
  BY <1>2, EndingPromised
<1>3. ASSUME NEW t \in Tasks, TaskStep(t) \/ Output(t) \/ Accepted(t), ~ExitKnown(t), ~OutputEnds(t)
      PROVE  Exactly!Next
  BY <1>3, TurnPasses, Failing, ListenPasses, Beginning, Spawning, Speaking, Leaving
  DEF TaskStep, Accepted, WriteFails
<1>4. ASSUME NEW t \in Tasks, Deliver(t) \/ Remove(t) \/ \E c \in Commands : Command(t, c)
      PROVE  Exactly!Next
  BY <1>4, Hearing, TurnPasses
<1> QED  BY <1>1, <1>2, <1>3, <1>4, ProgramPasses, ReaperPasses, Weaker DEF Next, Outside

(* Whatever the mishaps, the task's reports to the kernel alternate: one   *)
(* stop for each start, and a stop of nothing for a spawn that fails       *)
(* (process_task.rs:203).                                                  *)
THEOREM KeepsItsPromise == Spec => Supervises
<1>1. Init => Promise!Init
  BY ProcessTaskAssumption DEF Init, Promise!Init, Ready, Finished
<1>2. Shape /\ [Next]_vars => [Promise!Next]_(Promise!vars)
  BY NextPromised
<1> QED  BY <1>1, <1>2, ShapeHolds, PTL DEF Spec, Supervises, Promise!Spec

(* And but for mishaps a stop is reported of an instance that has exited,  *)
(* whose terminal is closed, with the exit that is its own.                *)
THEOREM StopsAreExact == Spec => StopsExact
<1>1. Shape /\ (~mishap => Books) /\ [Next]_vars
        => [~mishap' => Exactly!Next \/ UNCHANGED Exactly!vars]_vars
  BY NextPromised, MishapStays
<1>2. Spec => []((~mishap => Books) /\ Shape)
  <2>1. Init => (~mishap => Books)
    BY InitBooks
  <2>2. Shape /\ (~mishap => Books) /\ [Next]_vars => (~mishap => Books)'
    BY BooksStep, MishapStays
  <2> QED  BY <2>1, <2>2, ShapeHolds, PTL DEF Spec
<1> QED  BY <1>1, <1>2, PTL DEF Spec, StopsExact

-----------------------------------------------------------------------------
(* Queues, of whatever.                                                    *)
IsList(q) == \E S : q \in Seq(S)

LEMMA Listed ==
  ASSUME NEW q, IsList(q)
  PROVE  Len(q) \in Nat /\ DOMAIN q = 1..Len(q) /\ (q = <<>> <=> Len(q) = 0)
<1>1. PICK S : q \in Seq(S)
  BY DEF IsList
<1> QED  BY <1>1, LenProperties, EmptySeq

LEMMA Adding ==
  ASSUME NEW q, IsList(q), NEW m
  PROVE  /\ IsList(Append(q, m)) /\ q \o <<m>> = Append(q, m)
         /\ DOMAIN Append(q, m) = 1..(Len(q) + 1)
         /\ \A k \in DOMAIN q : Append(q, m)[k] = q[k]
         /\ Append(q, m)[Len(q) + 1] = m
<1>1. PICK S : q \in Seq(S)
  BY DEF IsList
<1> DEFINE R == S \cup {m}
<1>2. q \in Seq(R) /\ m \in R /\ S \subseteq R
  BY <1>1, SeqMonotonic
<1> HIDE DEF R
<1>3. Append(q, m) \in Seq(R)
  BY <1>2, AppendProperties
<1> QED  BY <1>2, <1>3, AppendProperties, LenProperties, AppendIsConcat DEF IsList

LEMMA AddingNothing ==
  ASSUME NEW q, IsList(q) PROVE q \o <<>> = q
<1>1. PICK S : q \in Seq(S)
  BY DEF IsList
<1> QED  BY <1>1, ConcatEmptySeq

LEMMA Removing ==
  ASSUME NEW q, IsList(q), q # <<>>
  PROVE  /\ IsList(Tail(q)) /\ Head(q) = q[1] /\ Len(q) \in Nat \ {0}
         /\ DOMAIN Tail(q) = 1..(Len(q) - 1)
         /\ \A k \in 1..(Len(q) - 1) : Tail(q)[k] = q[k + 1]
<1>1. PICK S : q \in Seq(S)
  BY DEF IsList
<1>2. Tail(q) \in Seq(S) /\ Len(Tail(q)) = Len(q) - 1 /\ Len(q) \in Nat \ {0}
  BY <1>1, HeadTailProperties, LenProperties, EmptySeq
<1> QED  BY <1>1, <1>2, HeadTailProperties, LenProperties DEF IsList
-----------------------------------------------------------------------------
(* Where the two sides stand: the kernel's state s of a task, where the    *)
(* task's loop is (at), the process it holds, what is in its mailbox (box) *)
(* and what it has in the kernel's channel (said).                         *)
BeingBorn == {"forked", "listening"}
Has(q, c) == \E k \in DOMAIN q : q[k].cmd = c
SaidOnce(q, c) == \A j, k \in DOMAIN q : q[j].cmd = c /\ q[k].cmd = c => j = k
Silent(said) == ~Has(said, "Started") /\ ~Has(said, "Stopped")

(* Given up or not: a start is followed by its stop or by a process, and   *)
(* the kernel does not wait for nothing.                                   *)
Loose(s, at, held, box, said) ==
  /\ at \in BeingBorn => held = None
  /\ \A k \in DOMAIN said : said[k].cmd = "Started" =>
       held # None \/ \E j \in DOMAIN said : k < j /\ said[j].cmd = "Stopped"
  /\ s = "Starting" => Has(box, "Start") \/ at \in BeingBorn \/ ~Silent(said) \/ held # None
  /\ s \in {"Running", "Ready"} => held # None \/ Has(said, "Stopped")

(* Of a task that was not given up there is one run at a time: to be       *)
(* started, spawning, running, or over.                                    *)
OneRun(at, held, box, said) ==
  /\ SaidOnce(box, "Start") /\ SaidOnce(said, "Started")
  /\ Has(box, "Start") => at \notin BeingBorn /\ held = None /\ Silent(said)
  /\ at \in BeingBorn => Silent(said)
  /\ \A k \in DOMAIN said : said[k].cmd = "Stopped" =>
       held = None /\ \A j \in DOMAIN said : said[j].cmd \in {"Started", "Stopped"} => j <= k
Close(s, at, held, box, said) ==
  /\ OneRun(at, held, box, said)
  /\ s \notin K!Active => held = None /\ ~Has(box, "Start") /\ at \notin BeingBorn /\ Silent(said)
  /\ s = "Starting" /\ held # None => Has(said, "Started")
  /\ s \in {"Running", "Ready"} => ~Has(box, "Start") /\ at \notin BeingBorn /\ ~Has(said, "Started")

Stands(t) ==
  t \in open =>
    /\ Loose(running[t], pc[t], process[t], mailbox[t], inbox[t])
    /\ t \notin givenUp => Close(running[t], pc[t], process[t], mailbox[t], inbox[t])
-----------------------------------------------------------------------------
(* What each step does to where they stand.                                *)

(* Nothing that starts or ends a run.                                      *)
SameCalls(box, box2) ==
  (Has(box2, "Start") <=> Has(box, "Start")) /\ (SaidOnce(box, "Start") => SaidOnce(box2, "Start"))
Turns == {"Started", "Stopped"}
SameTurns(said, said2) ==
  /\ \A k \in DOMAIN said2 : said2[k].cmd \in Turns => k \in DOMAIN said /\ said2[k].cmd = said[k].cmd
  /\ \A k \in DOMAIN said : said[k].cmd \in Turns => k \in DOMAIN said2 /\ said2[k].cmd = said[k].cmd

LEMMA Added ==
  ASSUME NEW q, IsList(q), NEW m
  PROVE  /\ m.cmd # "Start" => SameCalls(q, Append(q, m))
         /\ m.cmd \notin Turns => SameTurns(q, Append(q, m))
         /\ \A c : Has(Append(q, m), c) <=> Has(q, c) \/ m.cmd = c
         /\ \A c : SaidOnce(q, c) /\ (m.cmd = c => ~Has(q, c)) => SaidOnce(Append(q, m), c)
<1>1. Len(q) \in Nat /\ DOMAIN q = 1..Len(q)
  BY Listed
<1>2. /\ DOMAIN Append(q, m) = 1..(Len(q) + 1) /\ Append(q, m)[Len(q) + 1] = m
      /\ \A k \in DOMAIN q : Append(q, m)[k] = q[k]
  BY Adding
<1>3. \A c : Has(Append(q, m), c) <=> Has(q, c) \/ m.cmd = c
  BY <1>1, <1>2 DEF Has
<1>4. \A c : SaidOnce(q, c) /\ (m.cmd = c => ~Has(q, c)) => SaidOnce(Append(q, m), c)
  BY <1>1, <1>2 DEF Has, SaidOnce
<1>5. m.cmd \notin Turns => SameTurns(q, Append(q, m))
  BY <1>1, <1>2 DEF SameTurns
<1> QED  BY <1>3, <1>4, <1>5 DEF SameCalls

LEMMA Taken ==
  ASSUME NEW q, IsList(q), q # <<>>
  PROVE  /\ Head(q).cmd # "Start" => SameCalls(q, Tail(q))
         /\ \A c : Has(q, c) <=> Has(Tail(q), c) \/ Head(q).cmd = c
         /\ \A c : SaidOnce(q, c) => SaidOnce(Tail(q), c) /\ (Head(q).cmd = c => ~Has(Tail(q), c))
<1>1. Len(q) \in Nat /\ DOMAIN q = 1..Len(q)
  BY Listed
<1>2. /\ Head(q) = q[1] /\ Len(q) \in Nat \ {0}
      /\ DOMAIN Tail(q) = 1..(Len(q) - 1)
      /\ \A k \in 1..(Len(q) - 1) : Tail(q)[k] = q[k + 1]
  BY Removing
<1>3. ASSUME NEW c PROVE Has(q, c) <=> Has(Tail(q), c) \/ Head(q).cmd = c
  <2>1. ASSUME NEW k \in DOMAIN q, q[k].cmd = c PROVE Has(Tail(q), c) \/ Head(q).cmd = c
    <3>1. CASE k = 1
      BY <1>2, <2>1, <3>1
    <3>2. CASE k # 1
      <4>1. k - 1 \in DOMAIN Tail(q) /\ Tail(q)[k - 1] = q[k]
        BY <1>1, <1>2, <3>2
      <4> QED  BY <2>1, <4>1 DEF Has
    <3> QED  BY <3>1, <3>2
  <2>2. ASSUME NEW k \in DOMAIN Tail(q), Tail(q)[k].cmd = c PROVE Has(q, c)
    BY <1>1, <1>2, <2>2 DEF Has
  <2> QED  BY <1>1, <1>2, <2>1, <2>2 DEF Has
<1>4. ASSUME NEW c, SaidOnce(q, c) PROVE SaidOnce(Tail(q), c) /\ (Head(q).cmd = c => ~Has(Tail(q), c))
  <2>1. ASSUME NEW k \in DOMAIN Tail(q)
        PROVE  k + 1 \in DOMAIN q /\ k + 1 # 1 /\ 1 \in DOMAIN q /\ Tail(q)[k] = q[k + 1] /\ k \in Nat
    BY <1>1, <1>2
  <2>2. \A j, k \in DOMAIN Tail(q) : j + 1 = k + 1 => j = k
    BY <2>1
  <2>3. SaidOnce(Tail(q), c)
    <3> SUFFICES ASSUME NEW j \in DOMAIN Tail(q), NEW k \in DOMAIN Tail(q), Tail(q)[j].cmd = c, Tail(q)[k].cmd = c
                 PROVE  j = k
      BY DEF SaidOnce
    <3>1. j + 1 = k + 1
      BY <1>4, <2>1 DEF SaidOnce
    <3> QED  BY <2>2, <3>1
  <2>4. ASSUME Head(q).cmd = c, NEW k \in DOMAIN Tail(q), Tail(q)[k].cmd = c PROVE FALSE
    <3>1. k + 1 = 1
      BY <1>2, <1>4, <2>1, <2>4 DEF SaidOnce
    <3> QED  BY <2>1, <3>1
  <2> QED  BY <2>3, <2>4 DEF Has
<1> QED  BY <1>3, <1>4 DEF SameCalls

LEMMA CalmStands ==
  ASSUME NEW s, NEW at, NEW held, NEW box, NEW said, NEW at2, NEW box2, NEW said2,
         at \in BeingBorn <=> at2 \in BeingBorn, SameCalls(box, box2), SameTurns(said, said2)
  PROVE  /\ Loose(s, at, held, box, said) => Loose(s, at2, held, box2, said2)
         /\ Close(s, at, held, box, said) => Close(s, at2, held, box2, said2)
<1>1. Has(box2, "Start") <=> Has(box, "Start")
  BY DEF SameCalls
<1>2. \A c \in Turns : Has(said2, c) <=> Has(said, c)
  BY DEF SameTurns, Has
<1>3. Silent(said2) <=> Silent(said)
  BY <1>2 DEF Silent, Turns
<1>4. ASSUME Loose(s, at, held, box, said) PROVE Loose(s, at2, held, box2, said2)
  <2>1. ASSUME NEW k \in DOMAIN said2, said2[k].cmd = "Started", held = None
        PROVE  \E j \in DOMAIN said2 : k < j /\ said2[j].cmd = "Stopped"
    <3>1. k \in DOMAIN said /\ said[k].cmd = "Started"
      BY <2>1 DEF SameTurns, Turns
    <3>2. PICK j \in DOMAIN said : k < j /\ said[j].cmd = "Stopped"
      BY <1>4, <2>1, <3>1 DEF Loose
    <3> QED  BY <3>2 DEF SameTurns, Turns
  <2> QED  BY <1>1, <1>2, <1>3, <1>4, <2>1 DEF Loose, Turns
<1>5. ASSUME Close(s, at, held, box, said) PROVE Close(s, at2, held, box2, said2)
  <2>1. OneRun(at2, held, box2, said2)
    <3>1. SaidOnce(box2, "Start")
      BY <1>5 DEF SameCalls, Close, OneRun
    <3>2. SaidOnce(said2, "Started")
      BY <1>5 DEF SameTurns, Turns, Close, OneRun, SaidOnce
    <3>3. ASSUME NEW k \in DOMAIN said2, said2[k].cmd = "Stopped"
          PROVE  held = None /\ \A j \in DOMAIN said2 : said2[j].cmd \in {"Started", "Stopped"} => j <= k
      BY <1>5, <3>3 DEF SameTurns, Turns, Close, OneRun
    <3> QED  BY <1>1, <1>3, <1>5, <3>1, <3>2, <3>3 DEF Close, OneRun
  <2> QED  BY <1>1, <1>2, <1>3, <1>5, <2>1 DEF Close, Turns
<1> QED  BY <1>4, <1>5

LEMMA Unchanged == ASSUME NEW q PROVE SameCalls(q, q) /\ SameTurns(q, q)
  BY DEF SameCalls, SameTurns
-----------------------------------------------------------------------------
(* A start that is taken, and what comes of it.                            *)
LEMMA StartIgnored ==
  ASSUME NEW s, NEW at, NEW held, NEW box, NEW said, IsList(box), box # <<>>,
         Head(box).cmd = "Start", held # None
  PROVE  /\ Loose(s, at, held, box, said) => Loose(s, at, held, Tail(box), said)
         /\ ~Close(s, at, held, box, said)
<1>1. Has(box, "Start")
  BY Taken
<1> QED  BY <1>1 DEF Loose, Close, OneRun

LEMMA Spawned ==
  ASSUME NEW s, NEW at, NEW box, NEW said, NEW at2 \in BeingBorn, IsList(box), box # <<>>,
         Head(box).cmd = "Start"
  PROVE  /\ Loose(s, at, None, box, said) => Loose(s, at2, None, Tail(box), said)
         /\ Close(s, at, None, box, said) => Close(s, at2, None, Tail(box), said)
<1>1. Has(box, "Start") /\ (SaidOnce(box, "Start") => ~Has(Tail(box), "Start") /\ SaidOnce(Tail(box), "Start"))
  BY Taken
<1> QED  BY <1>1 DEF Loose, Close, OneRun

LEMMA NotSpawned ==
  ASSUME NEW s, NEW at, NEW box, NEW said, NEW m, IsList(box), box # <<>>, IsList(said),
         Head(box).cmd = "Start", m.cmd = "Stopped"
  PROVE  /\ Loose(s, at, None, box, said) => Loose(s, at, None, Tail(box), Append(said, m))
         /\ Close(s, at, None, box, said) => Close(s, at, None, Tail(box), Append(said, m))
<1>1. Has(box, "Start") /\ (SaidOnce(box, "Start") => ~Has(Tail(box), "Start") /\ SaidOnce(Tail(box), "Start"))
  BY Taken
<1>2. /\ Has(Append(said, m), "Stopped") /\ (Has(Append(said, m), "Started") <=> Has(said, "Started"))
      /\ (SaidOnce(said, "Started") => SaidOnce(Append(said, m), "Started"))
  BY Added
<1>3. /\ Len(said) \in Nat /\ DOMAIN said = 1..Len(said)
      /\ DOMAIN Append(said, m) = 1..(Len(said) + 1) /\ Append(said, m)[Len(said) + 1] = m
      /\ \A k \in DOMAIN said : Append(said, m)[k] = said[k]
  BY Adding, Listed
<1>4. ASSUME Loose(s, at, None, box, said) PROVE Loose(s, at, None, Tail(box), Append(said, m))
  <2>1. ASSUME NEW k \in DOMAIN Append(said, m), Append(said, m)[k].cmd = "Started"
        PROVE  \E j \in DOMAIN Append(said, m) : k < j /\ Append(said, m)[j].cmd = "Stopped"
    <3>1. k # Len(said) + 1 /\ k < Len(said) + 1 /\ Len(said) + 1 \in DOMAIN Append(said, m)
      BY <1>3, <2>1
    <3> QED  BY <1>3, <3>1
  <2> QED  BY <1>2, <1>4, <2>1 DEF Loose, Silent
<1>5. ASSUME Close(s, at, None, box, said) PROVE Close(s, at, None, Tail(box), Append(said, m))
  <2>1. Silent(said) /\ at \notin BeingBorn /\ s \in {"Starting", "Stopping"}
    BY <1>1, <1>5 DEF Close, OneRun, K!Active, K!Up
  <2>2. \A k \in DOMAIN said : said[k].cmd \notin {"Started", "Stopped"}
    BY <2>1 DEF Silent, Has
  <2>3. \A k \in DOMAIN Append(said, m) : Append(said, m)[k].cmd \in {"Started", "Stopped"} => k = Len(said) + 1
    BY <1>3, <2>2
  <2>4. OneRun(at, None, Tail(box), Append(said, m))
    BY <1>1, <1>2, <1>3, <1>5, <2>1, <2>3 DEF Close, OneRun
  <2> QED  BY <2>1, <2>4 DEF Close, K!Active, K!Up
<1> QED  BY <1>4, <1>5

LEMMA Launched ==
  ASSUME NEW s, NEW at \in BeingBorn, NEW at2, at2 \notin BeingBorn, NEW held, held # None,
         NEW box, NEW said, IsList(said), NEW m, m.cmd = "Started"
  PROVE  /\ Loose(s, at, None, box, said) => Loose(s, at2, held, box, Append(said, m))
         /\ Close(s, at, None, box, said) => Close(s, at2, held, box, Append(said, m))
<1>1. /\ Has(Append(said, m), "Started") /\ (Has(Append(said, m), "Stopped") <=> Has(said, "Stopped"))
      /\ (SaidOnce(said, "Started") /\ ~Has(said, "Started") => SaidOnce(Append(said, m), "Started"))
  BY Added
<1>2. ASSUME Loose(s, at, None, box, said) PROVE Loose(s, at2, held, box, Append(said, m))
  BY <1>1, <1>2 DEF Loose, Silent
<1>3. ASSUME Close(s, at, None, box, said) PROVE Close(s, at2, held, box, Append(said, m))
  <2>1. Silent(said) /\ ~Has(box, "Start") /\ s \in K!Active \ {"Running", "Ready"}
    BY <1>3 DEF Close, OneRun
  <2>2. OneRun(at2, held, box, Append(said, m))
    BY <1>1, <1>3, <2>1 DEF Close, OneRun, Silent, Has
  <2> QED  BY <1>1, <1>3, <2>1, <2>2 DEF Close, K!Active, K!Up
<1> QED  BY <1>2, <1>3

LEMMA SpawnFailed ==
  ASSUME NEW s, NEW at \in BeingBorn, NEW at2, at2 \notin BeingBorn,
         NEW box, NEW said, IsList(said), NEW m, m.cmd = "Stopped"
  PROVE  /\ Loose(s, at, None, box, said) => Loose(s, at2, None, box, Append(said, m))
         /\ Close(s, at, None, box, said) => Close(s, at2, None, box, Append(said, m))
<1>1. /\ Has(Append(said, m), "Stopped") /\ (Has(Append(said, m), "Started") <=> Has(said, "Started"))
      /\ (SaidOnce(said, "Started") => SaidOnce(Append(said, m), "Started"))
  BY Added
<1>2. /\ Len(said) \in Nat /\ DOMAIN said = 1..Len(said)
      /\ DOMAIN Append(said, m) = 1..(Len(said) + 1) /\ Append(said, m)[Len(said) + 1] = m
      /\ \A k \in DOMAIN said : Append(said, m)[k] = said[k]
  BY Adding, Listed
<1>3. ASSUME Loose(s, at, None, box, said) PROVE Loose(s, at2, None, box, Append(said, m))
  <2>1. ASSUME NEW k \in DOMAIN Append(said, m), Append(said, m)[k].cmd = "Started"
        PROVE  \E j \in DOMAIN Append(said, m) : k < j /\ Append(said, m)[j].cmd = "Stopped"
    <3>1. k # Len(said) + 1 /\ k < Len(said) + 1 /\ Len(said) + 1 \in DOMAIN Append(said, m)
      BY <1>2, <2>1
    <3> QED  BY <1>2, <3>1
  <2> QED  BY <1>1, <1>3, <2>1 DEF Loose, Silent
<1>4. ASSUME Close(s, at, None, box, said) PROVE Close(s, at2, None, box, Append(said, m))
  <2>1. Silent(said) /\ ~Has(box, "Start") /\ s \in K!Active \ {"Running", "Ready"}
    BY <1>4 DEF Close, OneRun
  <2>2. \A k \in DOMAIN said : said[k].cmd \notin {"Started", "Stopped"}
    BY <2>1 DEF Silent, Has
  <2>3. \A k \in DOMAIN Append(said, m) : Append(said, m)[k].cmd \in {"Started", "Stopped"} => k = Len(said) + 1
    BY <1>2, <2>2
  <2>4. OneRun(at2, None, box, Append(said, m))
    BY <1>1, <1>2, <1>4, <2>1, <2>3 DEF Close, OneRun
  <2> QED  BY <2>1, <2>4 DEF Close, K!Active, K!Up
<1> QED  BY <1>3, <1>4

LEMMA RunOver ==
  ASSUME NEW s, NEW at, at \notin BeingBorn, NEW held, held # None, NEW box,
         NEW said, IsList(said), NEW m, m.cmd = "Stopped"
  PROVE  /\ Loose(s, at, held, box, said) => Loose(s, at, None, box, Append(said, m))
         /\ Close(s, at, held, box, said) => Close(s, at, None, box, Append(said, m))
<1>2. /\ Has(Append(said, m), "Stopped") /\ (Has(Append(said, m), "Started") <=> Has(said, "Started"))
      /\ (SaidOnce(said, "Started") => SaidOnce(Append(said, m), "Started"))
  BY Added
<1>3. /\ Len(said) \in Nat /\ DOMAIN said = 1..Len(said)
      /\ DOMAIN Append(said, m) = 1..(Len(said) + 1) /\ Append(said, m)[Len(said) + 1] = m
      /\ \A k \in DOMAIN said : Append(said, m)[k] = said[k]
  BY Adding, Listed
<1>4. ASSUME Loose(s, at, held, box, said) PROVE Loose(s, at, None, box, Append(said, m))
  <2>1. ASSUME NEW k \in DOMAIN Append(said, m), Append(said, m)[k].cmd = "Started"
        PROVE  \E j \in DOMAIN Append(said, m) : k < j /\ Append(said, m)[j].cmd = "Stopped"
    <3>1. k # Len(said) + 1 /\ k < Len(said) + 1 /\ Len(said) + 1 \in DOMAIN Append(said, m)
      BY <1>3, <2>1
    <3> QED  BY <1>3, <3>1
  <2> QED  BY <1>2, <1>4, <2>1 DEF Loose, Silent
<1>5. ASSUME Close(s, at, held, box, said) PROVE Close(s, at, None, box, Append(said, m))
  <2>1. ~Has(box, "Start")
    BY <1>5 DEF Close, OneRun
  <2>2. \A k \in DOMAIN said : said[k].cmd # "Stopped"
    BY <1>5 DEF Close, OneRun
  <2>3. \A k \in DOMAIN Append(said, m) : Append(said, m)[k].cmd = "Stopped" => k = Len(said) + 1
    BY <1>3, <2>2
  <2>4. \A j \in DOMAIN Append(said, m) : j <= Len(said) + 1
    BY <1>3
  <2>5. OneRun(at, None, box, Append(said, m))
    BY <1>2, <1>5, <2>1, <2>3, <2>4 DEF Close, OneRun
  <2>6. s \in K!Active
    BY <1>5 DEF Close
  <2> QED  BY <1>2, <1>5, <2>1, <2>5, <2>6 DEF Close
<1> QED  BY <1>4, <1>5

(* What the kernel hears.                                                  *)
Heard(s, c, s2) ==
  CASE c = "Started" /\ s = "Starting" -> s2 \in {"Running", "Ready"}
    [] c = "Ready" /\ s = "Running" -> s2 = "Ready"
    [] c = "Stopped" /\ s \in K!Active -> s2 \notin K!Active
    [] OTHER -> s2 = s
LEMMA KernelHearing ==
  ASSUME NEW s, NEW at, NEW held, NEW box, NEW said, IsList(said), said # <<>>,
         NEW s2, Heard(s, Head(said).cmd, s2)
  PROVE  /\ Loose(s, at, held, box, said) => Loose(s2, at, held, box, Tail(said))
         /\ Close(s, at, held, box, said) => Close(s2, at, held, box, Tail(said))
<1>1. /\ \A c : Has(said, c) <=> Has(Tail(said), c) \/ Head(said).cmd = c
      /\ \A c : SaidOnce(said, c) => SaidOnce(Tail(said), c) /\ (Head(said).cmd = c => ~Has(Tail(said), c))
  BY Taken
<1>2. /\ Head(said) = said[1] /\ Len(said) \in Nat \ {0} /\ DOMAIN said = 1..Len(said)
      /\ DOMAIN Tail(said) = 1..(Len(said) - 1)
      /\ \A k \in 1..(Len(said) - 1) : Tail(said)[k] = said[k + 1]
  BY Removing, Listed
<1>3. \A k \in DOMAIN Tail(said) :
        k + 1 \in DOMAIN said /\ k + 1 # 1 /\ Tail(said)[k] = said[k + 1] /\ k \in Nat
  BY <1>2
<1>4. \A k \in DOMAIN said : k = 1 \/ (k - 1 \in DOMAIN Tail(said) /\ Tail(said)[k - 1] = said[k] /\ k \in Nat)
  BY <1>2
<1>5. ASSUME Loose(s, at, held, box, said) PROVE Loose(s2, at, held, box, Tail(said))
  <2>1. ASSUME NEW k \in DOMAIN Tail(said), Tail(said)[k].cmd = "Started", held = None
        PROVE  \E j \in DOMAIN Tail(said) : k < j /\ Tail(said)[j].cmd = "Stopped"
    <3>1. PICK j \in DOMAIN said : k + 1 < j /\ said[j].cmd = "Stopped"
      BY <1>3, <1>5, <2>1 DEF Loose
    <3>2. j - 1 \in DOMAIN Tail(said) /\ Tail(said)[j - 1] = said[j] /\ k < j - 1
      BY <1>2, <1>3, <1>4, <3>1
    <3> QED  BY <3>1, <3>2
  <2>2. Head(said).cmd = "Started" /\ held = None => Has(Tail(said), "Stopped")
    <3> SUFFICES ASSUME Head(said).cmd = "Started", held = None PROVE Has(Tail(said), "Stopped")
      OBVIOUS
    <3>1. 1 \in DOMAIN said
      BY <1>2
    <3>2. PICK j \in DOMAIN said : 1 < j /\ said[j].cmd = "Stopped"
      BY <1>2, <1>5, <3>1 DEF Loose
    <3> QED  BY <1>4, <3>2 DEF Has
  <2>3. s2 = "Starting" =>
          Has(box, "Start") \/ at \in BeingBorn \/ ~Silent(Tail(said)) \/ held # None
    <3> SUFFICES ASSUME s2 = "Starting"
                 PROVE  Has(box, "Start") \/ at \in BeingBorn \/ ~Silent(Tail(said)) \/ held # None
      OBVIOUS
    <3>1. s = "Starting" /\ Head(said).cmd \notin {"Started", "Stopped"}
      BY DEF Heard, K!Active, K!Up
    <3> QED  BY <1>1, <1>5, <3>1 DEF Loose, Silent
  <2>4. s2 \in {"Running", "Ready"} => held # None \/ Has(Tail(said), "Stopped")
    <3> SUFFICES ASSUME s2 \in {"Running", "Ready"} PROVE held # None \/ Has(Tail(said), "Stopped")
      OBVIOUS
    <3>1. CASE Head(said).cmd = "Started"
      BY <2>2, <3>1
    <3>2. CASE Head(said).cmd # "Started"
      <4>1. s \in {"Running", "Ready"} /\ Head(said).cmd # "Stopped"
        BY <3>2 DEF Heard, K!Active, K!Up
      <4> QED  BY <1>1, <1>5, <4>1 DEF Loose
    <3> QED  BY <3>1, <3>2
  <2> QED  BY <1>5, <2>1, <2>3, <2>4 DEF Loose
<1>6. ASSUME Close(s, at, held, box, said) PROVE Close(s2, at, held, box, Tail(said))
  <2>1. ASSUME NEW k \in DOMAIN Tail(said), Tail(said)[k].cmd = "Stopped"
        PROVE  held = None /\ \A j \in DOMAIN Tail(said) : Tail(said)[j].cmd \in {"Started", "Stopped"} => j <= k
    <3>1. said[k + 1].cmd = "Stopped" /\ k + 1 \in DOMAIN said
      BY <1>3, <2>1
    <3>2. held = None /\ \A j \in DOMAIN said : said[j].cmd \in {"Started", "Stopped"} => j <= k + 1
      BY <1>6, <3>1 DEF Close, OneRun
    <3> QED  BY <1>3, <3>2
  <2>2. Silent(said) => Silent(Tail(said))
    BY <1>1 DEF Silent
  <2>3. OneRun(at, held, box, Tail(said))
    BY <1>1, <1>6, <2>1, <2>2 DEF Close, OneRun
  <2>4. Head(said).cmd = "Stopped" =>
          held = None /\ ~Has(box, "Start") /\ at \notin BeingBorn /\ Silent(Tail(said))
    <3> SUFFICES ASSUME Head(said).cmd = "Stopped"
                 PROVE  held = None /\ ~Has(box, "Start") /\ at \notin BeingBorn /\ Silent(Tail(said))
      OBVIOUS
    <3>1. ~Silent(said)
      BY <1>1 DEF Silent
    <3>2. held = None /\ \A j \in DOMAIN said : said[j].cmd \in {"Started", "Stopped"} => j <= 1
      BY <1>2, <1>6 DEF Close, OneRun
    <3>3. Silent(Tail(said))
      BY <1>3, <3>2 DEF Silent, Has
    <3> QED  BY <1>6, <3>1, <3>2, <3>3 DEF Close, OneRun
  <2>5. CASE Head(said).cmd = "Stopped"
    <3>1. s2 \notin K!Active
      BY <2>5 DEF Heard
    <3> QED  BY <2>3, <2>4, <2>5, <3>1 DEF Close, K!Active, K!Up
  <2>6. CASE Head(said).cmd = "Started"
    <3>1. ~Has(Tail(said), "Started") /\ ~Has(box, "Start") /\ at \notin BeingBorn
      BY <1>1, <1>6, <2>6 DEF Close, OneRun, Silent
    <3>2. ~Silent(said)
      BY <1>1, <2>6 DEF Silent
    <3>3. s \in K!Active
      BY <1>6, <3>2 DEF Close
    <3>4. s2 \in K!Active \ {"Starting"}
      BY <2>6, <3>3 DEF Heard, K!Active, K!Up
    <3> QED  BY <2>3, <3>1, <3>4 DEF Close
  <2>7. CASE Head(said).cmd \notin {"Started", "Stopped"}
    <3>1. s2 = s \/ (s = "Running" /\ s2 = "Ready")
      BY <2>7 DEF Heard
    <3>2. \A c \in {"Started", "Stopped"} : Has(Tail(said), c) <=> Has(said, c)
      BY <1>1, <2>7
    <3> QED  BY <1>6, <2>2, <2>3, <3>1, <3>2 DEF Close, K!Active, K!Up
  <2> QED  BY <2>5, <2>6, <2>7
<1> QED  BY <1>5, <1>6

(* What the kernel does by itself, and what it sends for that.             *)
Moves(s, s2, given) ==
  \/ s2 = s
  \/ s = "Idle" /\ s2 = "Starting"
  \/ s \in K!Up /\ s2 = "Stopping"
  \/ s \notin K!Active /\ s2 \notin K!Active
  \/ s = "Stopping" /\ s2 = "Idle" /\ given
LEMMA Moving ==
  ASSUME NEW s, NEW s2, NEW given \in BOOLEAN, Moves(s, s2, given),
         NEW at, NEW held, NEW box, NEW said, NEW box2,
         (s # "Starting" /\ s2 = "Starting") =>
            Has(box2, "Start") /\ (SaidOnce(box, "Start") /\ ~Has(box, "Start") => SaidOnce(box2, "Start")),
         ~(s # "Starting" /\ s2 = "Starting") => SameCalls(box, box2)
  PROVE  /\ Loose(s, at, held, box, said) => Loose(s2, at, held, box2, said)
         /\ Close(s, at, held, box, said) /\ ~given => Close(s2, at, held, box2, said)
<1>1. CASE s = "Idle" /\ s2 = "Starting"
  <2>1. Has(box2, "Start") /\ (SaidOnce(box, "Start") /\ ~Has(box, "Start") => SaidOnce(box2, "Start"))
    BY <1>1
  <2> QED  BY <1>1, <2>1 DEF Loose, Close, OneRun, Silent, K!Active, K!Up, Has
<1>2. CASE s2 = s
  <2>1. SameCalls(box, box2)
    BY <1>2
  <2> QED  BY <1>2, <2>1, CalmStands, Unchanged
<1>3. CASE s \in K!Up /\ s2 = "Stopping"
  <2>1. SameCalls(box, box2)
    BY <1>3
  <2>2. /\ Loose(s, at, held, box, said) => Loose(s, at, held, box2, said)
        /\ Close(s, at, held, box, said) => Close(s, at, held, box2, said)
    BY <2>1, CalmStands, Unchanged
  <2> QED  BY <1>3, <2>2 DEF Loose, Close, K!Active, K!Up
<1>4. CASE s \notin K!Active /\ s2 \notin K!Active
  <2>1. SameCalls(box, box2)
    BY <1>4 DEF K!Active, K!Up
  <2>2. /\ Loose(s, at, held, box, said) => Loose(s, at, held, box2, said)
        /\ Close(s, at, held, box, said) => Close(s, at, held, box2, said)
    BY <2>1, CalmStands, Unchanged
  <2> QED  BY <1>4, <2>2 DEF Loose, Close, K!Active, K!Up
<1>5. CASE s = "Stopping" /\ s2 = "Idle" /\ given
  <2>1. SameCalls(box, box2)
    BY <1>5
  <2>2. Loose(s, at, held, box, said) => Loose(s, at, held, box2, said)
    BY <2>1, CalmStands, Unchanged
  <2> QED  BY <1>5, <2>2 DEF Loose
<1> QED  BY <1>1, <1>2, <1>3, <1>4, <1>5 DEF Moves
-----------------------------------------------------------------------------
(* The kernel's steps.                                                     *)
Quiet == [t \in Tasks |-> <<>>]
LEMMA NoAnswers ==
  ASSUME NEW heard, NEW commanded, NEW cmd \in {"Start", "Stop", "Kill", "Msg", "none"},
         cmd = "none" => commanded = {}, K!Queue(Quiet, heard, commanded, cmd)
  PROVE  effects' = Quiet
<1>1. PICK fx \in K!Answers(heard, commanded, cmd) : effects' = [x \in Tasks |-> Quiet[x] \o fx[x]]
  BY DEF K!Queue
<1>2. \A x \in Tasks : fx[x] = <<>>
  BY <1>1 DEF K!Answers
<1>3. \A x \in Tasks : Quiet[x] \o fx[x] = <<>>
  <2>1. <<>> \o <<>> = <<>>
    BY EmptySeq, ConcatEmptySeq
  <2> QED  BY <1>2, <2>1 DEF Quiet
<1> QED  BY <1>1, <1>3 DEF Quiet

KernelTypes ==
  /\ running \in [Tasks -> K!States]
  /\ effects = Quiet
  /\ registered \subseteq issued /\ issued \subseteq Tasks
  /\ open = registered \cup (Tasks \ issued)
  /\ dirty \cup toDrive \subseteq registered
  /\ phase \in {"recv", "settle", "exited"} => toDrive = {}
  /\ \A t \in Tasks \ issued : running[t] = "Idle" /\ t \notin givenUp
AllMove(given) ==
  \A t \in Tasks : Moves(running[t], running'[t], given[t]) /\ (t \notin registered => running'[t] = running[t])
Given == [t \in Tasks |-> t \in givenUp']
\* What of the kernel's types a step that moves tasks leaves to be shown.
Keeps ==
  /\ UNCHANGED <<registered, issued, open>>
  /\ dirty' \cup toDrive' \subseteq registered
  /\ phase' \in {"recv", "settle", "exited"} => toDrive' = {}
  /\ givenUp' \subseteq givenUp \cup registered

LEMMA MovedTypes ==
  ASSUME KernelTypes, NEW given, running' \in [Tasks -> K!States], effects' = Quiet, AllMove(given), Keeps
  PROVE  KernelTypes'
  BY DEF KernelTypes, AllMove, Keeps

LEMMA StateSet ==
  ASSUME KernelTypes, NEW t \in registered, NEW s \in K!States, K!SetState(t, s), NEW given,
         Moves(running[t], s, given[t])
  PROVE  running' \in [Tasks -> K!States] /\ AllMove(given) /\ dirty' \subseteq registered
<1>1. running' = [running EXCEPT ![t] = s] \/ running' = running
  BY DEF K!SetState, K!task
<1>2. \A x \in Tasks : x # t => running'[x] = running[x]
  BY <1>1 DEF KernelTypes
<1>3. t \in Tasks /\ running'[t] \in {running[t], s} /\ (running'[t] = s \/ running'[t] = running[t])
  BY <1>1 DEF KernelTypes
<1>4. running' \in [Tasks -> K!States]
  BY <1>1 DEF KernelTypes
<1>5. dirty' \subseteq registered
  BY DEF K!SetState, K!Concerns, K!ParentsOf, K!DepsOf, KernelTypes
<1>6. AllMove(given)
  BY <1>2, <1>3 DEF AllMove, Moves
<1> QED  BY <1>4, <1>5, <1>6

LEMMA CommandMoves ==
  ASSUME KernelTypes, NEW I, NEW newPins, NEW newVetoed, NEW revived, NEW stopped, NEW hardKilled,
         NEW given,
         K!Command(I, newPins, newVetoed, revived, stopped, hardKilled),
         I \subseteq registered, revived \subseteq registered,
         \A t \in revived : running[t] \in {"Backoff", "Exited", "Done"},
         stopped \subseteq K!UpTasks, UNCHANGED <<open, givenUp>>
  PROVE  KernelTypes' /\ AllMove(given)
<1>1. \A t \in Tasks : running'[t] = IF t \in revived THEN "Idle"
                        ELSE IF t \in stopped \cup (hardKilled \cap K!UpTasks) THEN "Stopping" ELSE running[t]
  BY DEF K!Command
<1>2. \A t \in K!UpTasks : running[t] \in K!Up /\ t \in registered
  BY DEF K!UpTasks
<1>3. running' \in [Tasks -> K!States]
  BY DEF K!Command, KernelTypes, K!States
<1>4. AllMove(given)
  <2> SUFFICES ASSUME NEW t \in Tasks
               PROVE  Moves(running[t], running'[t], given[t]) /\ (t \notin registered => running'[t] = running[t])
    BY DEF AllMove
  <2>1. CASE t \in revived
    BY <1>1, <2>1 DEF Moves, K!Active, K!Up
  <2>2. CASE t \notin revived /\ t \in stopped \cup (hardKilled \cap K!UpTasks)
    BY <1>1, <1>2, <2>2 DEF Moves
  <2>3. CASE t \notin revived \cup stopped \cup (hardKilled \cap K!UpTasks)
    BY <1>1, <2>3 DEF Moves
  <2> QED  BY <2>1, <2>2, <2>3
<1>5. effects' = Quiet
  <2>1. \E c, h : K!Queue(Quiet, h, c, "Stop") \/ K!Queue(Quiet, h, c, "Kill")
    BY DEF K!Command, KernelTypes
  <2> QED  BY <2>1, NoAnswers
<1>6. Keeps
  <2>1. UNCHANGED <<registered, issued>> /\ UNCHANGED toDrive /\ phase = "recv"
    BY DEF K!Command, K!graph, K!Receive
  <2>2. dirty' \subseteq registered
    BY <1>2 DEF K!Command, K!ParentsOf, KernelTypes
  <2> QED  BY <2>1, <2>2 DEF Keeps, KernelTypes
<1> QED  BY <1>3, <1>4, <1>5, <1>6, MovedTypes

LEMMA AskingMoves ==
  ASSUME KernelTypes, NEW t \in Tasks, ClientAsks(t), NEW given
  PROVE  KernelTypes' /\ AllMove(given)
<1>0. UNCHANGED <<open, givenUp>>
  BY DEF ClientAsks, Sends, state
<1>1. CASE K!Register(t, {}, TRUE)
  <2>1. /\ UNCHANGED running /\ t \notin issued /\ issued' = issued \cup {t} /\ registered' = registered \cup {t}
        /\ phase = "recv" /\ UNCHANGED toDrive /\ dirty' = dirty \cup {t}
    BY <1>1 DEF K!Register, K!task, K!Receive
  <2>2. effects' = Quiet
    <3>1. K!Queue(effects, {t}, {}, "none")
      BY <1>1 DEF K!Register
    <3> QED  BY <3>1, NoAnswers DEF KernelTypes
  <2>3. KernelTypes'
    BY <1>0, <2>1, <2>2 DEF KernelTypes
  <2> QED  BY <2>1, <2>3 DEF AllMove, Moves
<1>2. CASE K!ClientCommand({t})
  <2> DEFINE I == {t}
  <2>1. \A x \in K!Revived(I) : running[x] \in {"Backoff", "Exited", "Done"} /\ x \in registered
    BY DEF K!Revived, K!Demanded
  <2>2. I \cap K!UpTasks \subseteq K!UpTasks
    OBVIOUS
  <2>3. \E newPins, newVetoed, revived, stopped, hardKilled :
          /\ K!Command(I, newPins, newVetoed, revived, stopped, hardKilled)
          /\ \A x \in revived : running[x] \in {"Backoff", "Exited", "Done"} /\ x \in registered
          /\ stopped \subseteq K!UpTasks
    <3> HIDE DEF I
    <3>1. I = {t}
      BY DEF I
    <3>2. CASE K!Start(I)
      BY <2>1, <3>2 DEF K!Start
    <3>3. CASE K!Stop(I)
      BY <2>2, <3>3 DEF K!Stop
    <3>4. CASE K!Kill(I)
      BY <3>4 DEF K!Kill
    <3>5. CASE K!Down(I)
      BY <3>5 DEF K!Down
    <3>6. CASE K!Veto(I)
      BY <3>6 DEF K!Veto
    <3>7. CASE K!RestartTasks(I)
      BY <2>1, <2>2, <3>7 DEF K!RestartTasks
    <3>8. CASE K!ForceRestart(I)
      BY <2>1, <3>8 DEF K!ForceRestart
    <3> QED  BY <1>2, <3>1, <3>2, <3>3, <3>4, <3>5, <3>6, <3>7, <3>8 DEF K!ClientCommand
  <2>4. I \subseteq registered
    BY <1>2 DEF K!ClientCommand
  <2> HIDE DEF I
  <2> QED  BY <1>0, <2>3, <2>4, CommandMoves
<1> QED  BY <1>1, <1>2 DEF ClientAsks

LEMMA TimerMoves ==
  ASSUME KernelTypes, TimerRuns
  PROVE  KernelTypes' /\ AllMove(Given)
<1>1. PICK tm \in timers : K!StateTimeout(tm)
  BY DEF TimerRuns, K!Timeout
<1> DEFINE t == tm.task
<1>2. /\ UNCHANGED <<registered, issued, open, toDrive>> /\ phase = "recv"
      /\ givenUp' \subseteq givenUp \cup registered
  BY <1>1 DEF K!StateTimeout, K!Receive, K!graph, TimerRuns, Sends
<1>3. CASE UNCHANGED <<running, effects, dirty>>
  BY <1>2, <1>3 DEF KernelTypes, AllMove, Moves
<1>4. CASE UNCHANGED <<running, dirty>> /\ K!Queue(effects, {}, {t}, "Kill")
  <2>1. effects' = Quiet
    BY <1>4, NoAnswers DEF KernelTypes
  <2> QED  BY <1>2, <1>4, <2>1 DEF KernelTypes, AllMove, Moves
<1>5. CASE /\ t \in registered /\ running[t] \in {"Stopping", "Backoff"}
           /\ K!SetState(t, "Idle") /\ K!Queue(effects, {t}, {}, "none")
  <2>1. effects' = Quiet
    BY <1>5, NoAnswers DEF KernelTypes
  <2>2. t \in Tasks /\ "Idle" \in K!States
    BY <1>5 DEF KernelTypes, K!States
  <2>3. running'[t] = "Idle"
    BY <1>5, <2>2 DEF KernelTypes, K!SetState
  <2>4. running[t] = "Stopping" => Given[t]
    BY <1>5, <2>2, <2>3 DEF TimerRuns, Given
  <2>5. Moves(running[t], "Idle", Given[t])
    BY <1>5, <2>4 DEF Moves, K!Active, K!Up
  <2>6. running' \in [Tasks -> K!States] /\ AllMove(Given) /\ dirty' \subseteq registered
    BY <1>5, <2>2, <2>5, StateSet
  <2>7. Keeps
    BY <1>2, <2>6 DEF Keeps, KernelTypes
  <2> QED  BY <2>1, <2>6, <2>7, MovedTypes
<1> QED  BY <1>1, <1>3, <1>4, <1>5 DEF K!StateTimeout, K!task

LEMMA WorkMoves ==
  ASSUME KernelTypes, KernelWorks, NEW given
  PROVE  KernelTypes' /\ AllMove(given)
<1>1. UNCHANGED <<open, givenUp>> /\ K!Work
  BY DEF KernelWorks, Sends
<1>2. ASSUME NEW t \in Tasks, K!ApplyEffect(t) PROVE FALSE
  BY <1>2 DEF K!ApplyEffect, KernelTypes, Quiet
<1>3. ASSUME NEW t \in Tasks, K!Recompute(t) PROVE KernelTypes' /\ AllMove(given)
  <2>1. UNCHANGED <<registered, issued, running, effects>> /\ t \in dirty
    BY <1>3 DEF K!Recompute, K!graph, K!task
  <2>2. dirty' \subseteq registered
    BY <1>3 DEF K!Recompute, K!Told, K!DepsOf, K!ParentsOf, KernelTypes
  <2>3. toDrive' = toDrive \cup {t} /\ phase' \in {"drive", "drain"}
    BY <1>3 DEF K!Recompute
  <2>4. KernelTypes'
    BY <1>1, <2>1, <2>2, <2>3 DEF KernelTypes
  <2> QED  BY <2>1, <2>4 DEF AllMove, Moves
<1>4. CASE K!Settled
  <2>1. UNCHANGED <<registered, issued, running, effects, dirty, toDrive>> /\ phase = "settle"
    BY <1>4 DEF K!Settled, K!graph, K!task, K!queues
  <2>2. KernelTypes'
    BY <1>1, <2>1 DEF KernelTypes
  <2> QED  BY <2>1, <2>2 DEF AllMove, Moves
<1>5. ASSUME NEW t \in Tasks, K!Drive(t) PROVE KernelTypes' /\ AllMove(given)
  <2>1. /\ UNCHANGED <<registered, issued>> /\ t \in registered /\ phase = "drive"
        /\ toDrive' = toDrive \ {t} /\ (toDrive' # {} => phase' = "drive")
    BY <1>5 DEF K!Drive, K!graph, KernelTypes
  <2>2. \/ K!MustStart(t) /\ K!SetState(t, "Starting") /\ K!Queue(effects, {t}, {t}, "Start")
        \/ K!MustStop(t) /\ K!SetState(t, "Stopping") /\ K!Queue(effects, {t}, {t}, "Stop")
        \/ K!MustCancel(t) /\ K!SetState(t, "Idle") /\ K!Queue(effects, {t}, {}, "none")
        \/ UNCHANGED <<running, effects, dirty>>
    BY <1>5 DEF K!Drive, K!task, K!queues
  <2>3. ASSUME dirty' \subseteq registered PROVE Keeps
    BY <1>1, <2>1, <2>3 DEF Keeps, KernelTypes
  <2>4. CASE K!MustStart(t) /\ K!SetState(t, "Starting") /\ K!Queue(effects, {t}, {t}, "Start")
    <3>1. effects' = Quiet
      BY <2>4, NoAnswers DEF KernelTypes
    <3>2. "Starting" \in K!States /\ Moves(running[t], "Starting", given[t])
      BY <2>4 DEF K!MustStart, Moves, K!States
    <3> QED  BY <2>1, <2>3, <2>4, <3>1, <3>2, StateSet, MovedTypes
  <2>5. CASE K!MustStop(t) /\ K!SetState(t, "Stopping") /\ K!Queue(effects, {t}, {t}, "Stop")
    <3>1. effects' = Quiet
      BY <2>5, NoAnswers DEF KernelTypes
    <3>2. "Stopping" \in K!States /\ Moves(running[t], "Stopping", given[t])
      BY <2>5 DEF K!MustStop, Moves, K!States
    <3> QED  BY <2>1, <2>3, <2>5, <3>1, <3>2, StateSet, MovedTypes
  <2>6. CASE K!MustCancel(t) /\ K!SetState(t, "Idle") /\ K!Queue(effects, {t}, {}, "none")
    <3>1. effects' = Quiet
      BY <2>6, NoAnswers DEF KernelTypes
    <3>2. "Idle" \in K!States /\ Moves(running[t], "Idle", given[t])
      BY <2>6 DEF K!MustCancel, Moves, K!States, K!Active, K!Up
    <3> QED  BY <2>1, <2>3, <2>6, <3>1, <3>2, StateSet, MovedTypes
  <2>7. CASE UNCHANGED <<running, effects, dirty>>
    <3>1. AllMove(given) /\ running' \in [Tasks -> K!States] /\ effects' = Quiet
      BY <2>7 DEF AllMove, Moves, KernelTypes
    <3>2. Keeps
      BY <2>3, <2>7 DEF KernelTypes
    <3> QED  BY <3>1, <3>2, MovedTypes
  <2> QED  BY <2>2, <2>4, <2>5, <2>6, <2>7
<1> QED  BY <1>1, <1>2, <1>3, <1>4, <1>5 DEF K!Work
-----------------------------------------------------------------------------
(* The invariant, and what keeps it.                                       *)
TaskTypes ==
  /\ pc = [t \in Tasks |-> pc[t]] /\ fresh = [t \in Tasks |-> fresh[t]]
  /\ process = [t \in Tasks |-> process[t]]
  /\ mailbox = [t \in Tasks |-> mailbox[t]] /\ inbox = [t \in Tasks |-> inbox[t]]
  /\ \A t \in Tasks : IsList(mailbox[t]) /\ IsList(inbox[t])
  /\ \A t \in Tasks : pc[t] \in BeingBorn => fresh[t] # None
Sides == KernelTypes /\ TaskTypes /\ \A t \in Tasks : Stands(t)

LEMMA SentOn ==
  ASSUME NEW q, IsList(q), NEW m
  PROVE  /\ IsList(q \o <<m>>)
         /\ m.cmd = "Start" =>
              /\ Has(q \o <<m>>, "Start")
              /\ SaidOnce(q, "Start") /\ ~Has(q, "Start") => SaidOnce(q \o <<m>>, "Start")
         /\ m.cmd # "Start" => SameCalls(q, q \o <<m>>)
<1>1. q \o <<m>> = Append(q, m) /\ IsList(Append(q, m))
  BY Adding
<1> QED  BY <1>1, Added

(* The kernel sends what its moves call for. *)
LEMMA SendingKeeps ==
  ASSUME Sides, Sends, KernelTypes', AllMove(Given), givenUp \subseteq givenUp'
  PROVE  Sides'
<1>1. /\ UNCHANGED <<pc, fresh, process, open, inbox>>
      /\ mailbox' = [t \in Tasks |-> mailbox[t] \o Sent(t)]
  BY DEF Sends, state
<1>2. ASSUME NEW t \in Tasks
      PROVE  /\ IsList(mailbox'[t])
             /\ (running[t] # "Starting" /\ running'[t] = "Starting") =>
                  /\ Has(mailbox'[t], "Start")
                  /\ SaidOnce(mailbox[t], "Start") /\ ~Has(mailbox[t], "Start") => SaidOnce(mailbox'[t], "Start")
             /\ ~(running[t] # "Starting" /\ running'[t] = "Starting") => SameCalls(mailbox[t], mailbox'[t])
  <2>1. IsList(mailbox[t]) /\ mailbox'[t] = mailbox[t] \o Sent(t)
    BY <1>1 DEF Sides, TaskTypes
  <2>2. CASE running[t] # "Starting" /\ running'[t] = "Starting"
    <3>1. Sent(t) = <<Cmd("Start")>> /\ Cmd("Start").cmd = "Start"
      BY <2>2 DEF Sent, Cmd
    <3>2. mailbox'[t] = mailbox[t] \o <<Cmd("Start")>>
      BY <2>1, <3>1
    <3> QED  BY <2>1, <2>2, <3>1, <3>2, SentOn
  <2>3. CASE ~(running[t] # "Starting" /\ running'[t] = "Starting")
    <3>1. Sent(t) = <<>> \/ \E c \in {"Stop", "Kill"} : Sent(t) = <<Cmd(c)>>
      BY <2>3 DEF Sent
    <3>2. CASE Sent(t) = <<>>
      BY <2>1, <2>3, <3>2, AddingNothing, Unchanged
    <3>3. ASSUME NEW c \in {"Stop", "Kill"}, Sent(t) = <<Cmd(c)>>
          PROVE  IsList(mailbox'[t]) /\ SameCalls(mailbox[t], mailbox'[t])
      <4>1. Cmd(c).cmd # "Start"
        BY DEF Cmd
      <4>2. mailbox'[t] = mailbox[t] \o <<Cmd(c)>>
        BY <2>1, <3>3
      <4> QED  BY <2>1, <4>1, <4>2, SentOn
    <3> QED  BY <2>3, <3>1, <3>2, <3>3
  <2> QED  BY <2>2, <2>3
<1>3. TaskTypes'
  <2>1. mailbox' = [t \in Tasks |-> mailbox'[t]]
    BY <1>1
  <2> QED  BY <1>1, <1>2, <2>1 DEF Sides, TaskTypes
<1>4. ASSUME NEW t \in Tasks PROVE Stands(t)'
  <2> SUFFICES ASSUME t \in open
               PROVE  /\ Loose(running'[t], pc[t], process[t], mailbox'[t], inbox[t])
                      /\ t \notin givenUp' => Close(running'[t], pc[t], process[t], mailbox'[t], inbox[t])
    BY <1>1 DEF Stands
  <2>1. /\ Loose(running[t], pc[t], process[t], mailbox[t], inbox[t])
        /\ t \notin givenUp => Close(running[t], pc[t], process[t], mailbox[t], inbox[t])
    BY DEF Sides, Stands
  <2>2. Moves(running[t], running'[t], Given[t]) /\ Given[t] \in BOOLEAN /\ Given[t] = (t \in givenUp')
    BY DEF AllMove, Given
  <2>3. /\ Loose(running[t], pc[t], process[t], mailbox[t], inbox[t]) =>
             Loose(running'[t], pc[t], process[t], mailbox'[t], inbox[t])
        /\ Close(running[t], pc[t], process[t], mailbox[t], inbox[t]) /\ ~Given[t] =>
             Close(running'[t], pc[t], process[t], mailbox'[t], inbox[t])
    BY <1>2, <2>2, Moving
  <2> QED  BY <2>1, <2>2, <2>3
<1> QED  BY <1>3, <1>4 DEF Sides

LEMMA KernelKeeps ==
  ASSUME Sides, \/ \E t \in Tasks : ClientAsks(t)
                \/ TimerRuns \/ KernelWorks
  PROVE  Sides'
<1>1. Sends /\ givenUp \subseteq givenUp'
  BY DEF ClientAsks, TimerRuns, KernelWorks
<1>2. KernelTypes' /\ AllMove(Given)
  BY AskingMoves, TimerMoves, WorkMoves DEF Sides
<1> QED  BY <1>1, <1>2, SendingKeeps

(* A turn of the loop of t. *)
Turn(t, at, new, held, box, said) ==
  /\ pc' = [pc EXCEPT ![t] = at] /\ fresh' = [fresh EXCEPT ![t] = new]
  /\ process' = [process EXCEPT ![t] = held]
  /\ mailbox' = [mailbox EXCEPT ![t] = box] /\ inbox' = [inbox EXCEPT ![t] = said]
Becomes(t, at, held, box, said) ==
  /\ Loose(running[t], pc[t], process[t], mailbox[t], inbox[t]) => Loose(running[t], at, held, box, said)
  /\ Close(running[t], pc[t], process[t], mailbox[t], inbox[t]) => Close(running[t], at, held, box, said)
LEMMA TurnKeeps ==
  ASSUME Sides, UNCHANGED <<kernelVars, givenUp, open>>, NEW t \in Tasks,
         NEW at, NEW new, NEW held, NEW box, NEW said, Turn(t, at, new, held, box, said),
         at \in BeingBorn => new # None, IsList(box), IsList(said),
         t \in open => Becomes(t, at, held, box, said)
  PROVE  Sides'
<1>1. KernelTypes'
  BY DEF Sides, KernelTypes, kernelVars
<1>2. /\ pc'[t] = at /\ fresh'[t] = new /\ process'[t] = held /\ mailbox'[t] = box /\ inbox'[t] = said
      /\ \A x \in Tasks \ {t} : /\ pc'[x] = pc[x] /\ fresh'[x] = fresh[x] /\ process'[x] = process[x]
                                /\ mailbox'[x] = mailbox[x] /\ inbox'[x] = inbox[x]
  BY DEF Turn, Sides, TaskTypes
<1>3. /\ pc' = [x \in Tasks |-> pc'[x]] /\ fresh' = [x \in Tasks |-> fresh'[x]]
      /\ process' = [x \in Tasks |-> process'[x]]
      /\ mailbox' = [x \in Tasks |-> mailbox'[x]] /\ inbox' = [x \in Tasks |-> inbox'[x]]
  BY DEF Turn, Sides, TaskTypes
<1>4. TaskTypes'
  <2>1. \A x \in Tasks : IsList(mailbox'[x]) /\ IsList(inbox'[x])
    BY <1>2 DEF Sides, TaskTypes
  <2>2. \A x \in Tasks : pc'[x] \in BeingBorn => fresh'[x] # None
    BY <1>2 DEF Sides, TaskTypes
  <2> QED  BY <1>3, <2>1, <2>2 DEF TaskTypes
<1>5. ASSUME NEW x \in Tasks PROVE Stands(x)'
  <2>1. UNCHANGED <<running, givenUp, open>>
    BY DEF kernelVars
  <2>2. CASE x = t
    BY <1>2, <2>1, <2>2 DEF Becomes, Sides, Stands
  <2>3. CASE x # t
    BY <1>2, <2>1, <2>3 DEF Sides, Stands
  <2> QED  BY <2>2, <2>3
<1> QED  BY <1>1, <1>4, <1>5 DEF Sides

(* The head of the loop: the run may be over. *)
LEMMA LoopTurns ==
  ASSUME Sides, NEW t \in Tasks, pc[t] \notin BeingBorn, NEW info, NEW ended,
         Loop(t, process[t], info, ended, <<>>), UNCHANGED <<pc, fresh>>,
         NEW box, mailbox' = [mailbox EXCEPT ![t] = box], SameCalls(mailbox[t], box)
  PROVE  \E held, said : /\ Turn(t, pc[t], fresh[t], held, box, said) /\ IsList(said)
                         /\ Becomes(t, pc[t], held, box, said)
<1> DEFINE m == Report("Stopped", process[t], info)
           q == inbox[t]
           over == Over(process[t], info, ended)
<1>1. IsList(q) /\ q \o <<>> = q /\ q \o <<m>> = Append(q, m) /\ IsList(Append(q, m))
  BY Adding, AddingNothing DEF Sides, TaskTypes
<1>2. m.cmd = "Stopped"
  BY DEF Report
<1>3. /\ process' = [process EXCEPT ![t] = IF over THEN None ELSE process[t]]
      /\ inbox' = [inbox EXCEPT ![t] = q \o <<>> \o IF over THEN <<m>> ELSE <<>>]
  BY DEF Loop, Sides, TaskTypes
<1>4. over => process[t] # None
  BY DEF Over
<1>5. pc' = [pc EXCEPT ![t] = pc[t]] /\ fresh' = [fresh EXCEPT ![t] = fresh[t]]
  BY DEF Sides, TaskTypes
<1>6. /\ Loose(running[t], pc[t], process[t], mailbox[t], q) => Loose(running[t], pc[t], process[t], box, q)
      /\ Close(running[t], pc[t], process[t], mailbox[t], q) => Close(running[t], pc[t], process[t], box, q)
  BY CalmStands, Unchanged
<1> HIDE DEF m, q, over
<1>7. CASE over
  <2>1. Turn(t, pc[t], fresh[t], None, box, Append(q, m))
    BY <1>1, <1>3, <1>5, <1>7 DEF Turn
  <2>2. Becomes(t, pc[t], None, box, Append(q, m))
    BY <1>1, <1>2, <1>4, <1>6, <1>7, RunOver DEF Becomes, q
  <2> QED  BY <1>1, <2>1, <2>2
<1>8. CASE ~over
  <2>1. Turn(t, pc[t], fresh[t], process[t], box, q)
    BY <1>1, <1>3, <1>5, <1>8 DEF Turn
  <2>2. Becomes(t, pc[t], process[t], box, q)
    BY <1>6 DEF Becomes, q
  <2> QED  BY <1>1, <2>1, <2>2
<1> QED  BY <1>7, <1>8

(* A turn that starts and ends nothing. *)
LEMMA CalmTurn ==
  ASSUME Sides, UNCHANGED <<kernelVars, givenUp, open>>, NEW t \in Tasks,
         NEW at, NEW box, NEW said, Turn(t, at, fresh[t], process[t], box, said),
         at \in BeingBorn <=> pc[t] \in BeingBorn, IsList(box), IsList(said),
         SameCalls(mailbox[t], box), SameTurns(inbox[t], said)
  PROVE  Sides'
<1>1. Becomes(t, at, process[t], box, said)
  BY CalmStands DEF Becomes
<1>2. at \in BeingBorn => fresh[t] # None
  BY DEF Sides, TaskTypes
<1> QED  BY <1>1, <1>2, TurnKeeps

LEMMA TakenTurn ==
  ASSUME Sides, NEW t \in Tasks, NEW c, Take(t, c)
  PROVE  /\ mailbox' = [mailbox EXCEPT ![t] = Tail(mailbox[t])] /\ IsList(Tail(mailbox[t]))
         /\ mailbox[t] # <<>> /\ Head(mailbox[t]).cmd = c /\ pc[t] = "select"
         /\ c # "Start" => SameCalls(mailbox[t], Tail(mailbox[t]))
<1>1. IsList(mailbox[t]) /\ mailbox[t] # <<>> /\ Head(mailbox[t]).cmd = c
  BY DEF Sides, TaskTypes, Take
<1>2. mailbox' = [mailbox EXCEPT ![t] = Tail(mailbox[t])] /\ pc[t] = "select"
  BY DEF Take, Sides, TaskTypes
<1> QED  BY <1>1, <1>2, Removing, Taken

LEMMA StartsKeep ==
  ASSUME Sides, UNCHANGED <<kernelVars, givenUp>>, NEW t \in Tasks,
         Fork(t) \/ ForkFails(t) \/ Listen(t) \/ Launch(t) \/ Abandons(t)
  PROVE  Sides'
<1>0. IsList(mailbox[t]) /\ IsList(inbox[t])
  BY DEF Sides, TaskTypes
<1>1. CASE Fork(t)
  <2>1. PICK i \in Instances : fresh' = [fresh EXCEPT ![t] = i]
    BY <1>1 DEF Fork
  <2>2. /\ Take(t, "Start") /\ process[t] = None /\ pc' = [pc EXCEPT ![t] = "forked"]
        /\ UNCHANGED <<process, open, inbox>>
    BY <1>1 DEF Fork, Goto, state
  <2>3. Turn(t, "forked", i, process[t], Tail(mailbox[t]), inbox[t])
    BY <2>1, <2>2, TakenTurn DEF Turn, Sides, TaskTypes
  <2>4. Becomes(t, "forked", None, Tail(mailbox[t]), inbox[t])
    BY <1>0, <2>2, TakenTurn, Spawned DEF Becomes, BeingBorn
  <2>5. i # None
    BY ProcessTaskAssumption
  <2> QED  BY <1>0, <2>2, <2>3, <2>4, <2>5, TakenTurn, TurnKeeps
<1>2. CASE ForkFails(t)
  <2> DEFINE m == Report("Stopped", None, None)
             said == Append(inbox[t], m)
  <2>1. /\ Take(t, "Start") /\ process[t] = None
        /\ inbox' = [inbox EXCEPT ![t] = said] /\ UNCHANGED <<pc, fresh, process, open>>
    BY <1>2 DEF ForkFails, state, Sides, TaskTypes
  <2>2. m.cmd = "Stopped" /\ IsList(said)
    BY <1>0, Adding DEF Report
  <2>3. Turn(t, pc[t], fresh[t], process[t], Tail(mailbox[t]), said)
    BY <2>1, TakenTurn DEF Turn, Sides, TaskTypes
  <2> HIDE DEF m
  <2>4. Becomes(t, pc[t], None, Tail(mailbox[t]), said)
    BY <1>0, <2>1, <2>2, TakenTurn, NotSpawned DEF Becomes
  <2>5. pc[t] \notin BeingBorn
    BY <2>1, TakenTurn DEF BeingBorn
  <2> HIDE DEF said
  <2> QED  BY <1>0, <2>1, <2>2, <2>3, <2>4, <2>5, TakenTurn, TurnKeeps
<1>3. CASE Listen(t)
  <2>1. /\ pc[t] = "forked" /\ pc' = [pc EXCEPT ![t] = "listening"]
        /\ UNCHANGED <<fresh, process, open, mailbox>>
        /\ \/ UNCHANGED inbox
           \/ \E i : inbox' = [inbox EXCEPT ![t] = Append(inbox[t], Exited(i))]
    BY <1>3 DEF Listen, Goto, state, Sides, TaskTypes
  <2>2. PICK said : /\ inbox' = [inbox EXCEPT ![t] = said] /\ IsList(said) /\ SameTurns(inbox[t], said)
    <3>1. CASE UNCHANGED inbox
      BY <1>0, <3>1, Unchanged DEF Sides, TaskTypes
    <3>2. ASSUME NEW i, inbox' = [inbox EXCEPT ![t] = Append(inbox[t], Exited(i))]
          PROVE  \E s : /\ inbox' = [inbox EXCEPT ![t] = s] /\ IsList(s) /\ SameTurns(inbox[t], s)
      <4>1. Exited(i).cmd \notin Turns
        BY DEF Exited, Report, Turns
      <4>2. IsList(Append(inbox[t], Exited(i))) /\ SameTurns(inbox[t], Append(inbox[t], Exited(i)))
        BY <1>0, <4>1, Adding, Added
      <4> QED  BY <3>2, <4>2
    <3> QED  BY <2>1, <3>1, <3>2
  <2>3. Turn(t, "listening", fresh[t], process[t], mailbox[t], said)
    BY <2>1, <2>2 DEF Turn, Sides, TaskTypes
  <2>4. "listening" \in BeingBorn /\ pc[t] \in BeingBorn
    BY <2>1 DEF BeingBorn
  <2> QED  BY <1>0, <2>1, <2>2, <2>3, <2>4, Unchanged, CalmTurn
<1>4. CASE /\ pc[t] = "listening" /\ Goto(t, "select") /\ fresh' = [fresh EXCEPT ![t] = None]
           /\ Loop(t, fresh[t], None, FALSE, <<Report("Started", fresh[t], None)>>)
           /\ UNCHANGED <<mailbox, open>>
  <2> DEFINE m == Report("Started", fresh[t], None)
             said == Append(inbox[t], m)
  <2>1. /\ pc[t] = "listening" /\ pc' = [pc EXCEPT ![t] = "select"]
        /\ fresh' = [fresh EXCEPT ![t] = None] /\ UNCHANGED <<mailbox, open>>
        /\ Loop(t, fresh[t], None, FALSE, <<m>>)
    BY <1>4 DEF Goto
  <2>2. /\ process' = [process EXCEPT ![t] = fresh[t]]
        /\ inbox' = [inbox EXCEPT ![t] = inbox[t] \o <<m>> \o <<>>]
    BY <2>1 DEF Loop, Over, Sides, TaskTypes
  <2>3. m.cmd = "Started" /\ IsList(said) /\ inbox[t] \o <<m>> = said /\ said \o <<>> = said
    BY <1>0, Adding, AddingNothing DEF Report
  <2>4. fresh[t] # None /\ pc[t] \in BeingBorn /\ "select" \notin BeingBorn
    BY <2>1 DEF BeingBorn, Sides, TaskTypes
  <2> HIDE DEF m
  <2>5. Turn(t, "select", None, fresh[t], mailbox[t], said)
    BY <2>1, <2>2, <2>3 DEF Turn, Sides, TaskTypes
  <2>6. t \in open => Becomes(t, "select", fresh[t], mailbox[t], said)
    <3>1. t \in open => process[t] = None
      BY <2>4 DEF Sides, Stands, Loose
    <3> QED  BY <1>0, <2>3, <2>4, <3>1, Launched DEF Becomes
  <2> HIDE DEF said
  <2> QED  BY <1>0, <2>1, <2>3, <2>4, <2>5, <2>6, TurnKeeps
<1>5. CASE /\ pc[t] \in BeingBorn /\ Goto(t, "select") /\ fresh' = [fresh EXCEPT ![t] = None]
           /\ Loop(t, None, exitInfo[t], eof[t], <<Report("Stopped", None, None)>>)
           /\ UNCHANGED <<mailbox, open>>
  <2> DEFINE m == Report("Stopped", None, None)
             said == Append(inbox[t], m)
  <2>1. /\ pc' = [pc EXCEPT ![t] = "select"] /\ process' = [process EXCEPT ![t] = None]
        /\ inbox' = [inbox EXCEPT ![t] = inbox[t] \o <<m>> \o <<>>]
    BY <1>5 DEF Goto, Loop, Over, Sides, TaskTypes
  <2>2. m.cmd = "Stopped" /\ IsList(said) /\ inbox[t] \o <<m>> = said /\ said \o <<>> = said
    BY <1>0, Adding, AddingNothing DEF Report
  <2>3. "select" \notin BeingBorn
    BY DEF BeingBorn
  <2> HIDE DEF m
  <2>4. Turn(t, "select", None, None, mailbox[t], said)
    BY <1>5, <2>1, <2>2 DEF Turn, Sides, TaskTypes
  <2>5. t \in open => Becomes(t, "select", None, mailbox[t], said)
    <3>1. t \in open => process[t] = None
      BY <1>5 DEF Sides, Stands, Loose
    <3> QED  BY <1>0, <1>5, <2>2, <2>3, <3>1, SpawnFailed DEF Becomes
  <2> HIDE DEF said
  <2> QED  BY <1>0, <1>5, <2>2, <2>3, <2>4, <2>5, TurnKeeps
<1>6. CASE Launch(t) \/ Abandons(t)
  BY <1>4, <1>5, <1>6 DEF Launch, Abandons, BeingBorn
<1> QED  BY <1>1, <1>2, <1>3, <1>6

LEMMA CommandsKeep ==
  ASSUME Sides, UNCHANGED <<kernelVars, givenUp>>, NEW t \in Tasks,
         \/ \E c \in Commands : Ignore(t, c)
         \/ Stop(t) \/ Kill(t) \/ Input(t) \/ ExitKnown(t)
  PROVE  Sides'
<1>0. IsList(mailbox[t]) /\ IsList(inbox[t])
  BY DEF Sides, TaskTypes
<1>1. ASSUME NEW c \in Commands, Ignore(t, c) PROVE Sides'
  <2>1. Take(t, c) /\ UNCHANGED <<pc, fresh, process, open, inbox>>
        /\ (c = "Start" => process[t] # None)
    BY <1>1 DEF Ignore, state
  <2>2. Turn(t, pc[t], fresh[t], process[t], Tail(mailbox[t]), inbox[t])
    BY <2>1, TakenTurn DEF Turn, Sides, TaskTypes
  <2>3. CASE c = "Start"
    <3>1. Becomes(t, pc[t], process[t], Tail(mailbox[t]), inbox[t])
      BY <1>0, <2>1, <2>3, TakenTurn, StartIgnored DEF Becomes
    <3>2. pc[t] \in BeingBorn => fresh[t] # None
      BY DEF Sides, TaskTypes
    <3> QED  BY <1>0, <2>1, <2>2, <3>1, <3>2, TakenTurn, TurnKeeps
  <2>4. CASE c # "Start"
    BY <1>0, <2>1, <2>2, <2>4, TakenTurn, Unchanged, CalmTurn
  <2> QED  BY <2>3, <2>4
<1>2. CASE Stop(t) \/ Kill(t) \/ Input(t)
  <2>1. PICK c \in {"Stop", "Kill", "Input"}, at \in {"select", "write"} :
          Take(t, c) /\ pc' = [pc EXCEPT ![t] = at] /\ UNCHANGED <<fresh, process, open, inbox>>
    <3>1. pc[t] = "select" /\ pc = [pc EXCEPT ![t] = pc[t]]
      BY <1>2 DEF Stop, Kill, Input, Take, Sides, TaskTypes
    <3>2. CASE Stop(t)
      BY <3>1, <3>2 DEF Stop, Goto, state
    <3>3. CASE Kill(t)
      BY <3>1, <3>3 DEF Kill, state
    <3>4. CASE Input(t)
      BY <3>4 DEF Input, Goto, state
    <3> QED  BY <1>2, <3>2, <3>3, <3>4
  <2>2. Turn(t, at, fresh[t], process[t], Tail(mailbox[t]), inbox[t])
    BY <2>1, TakenTurn DEF Turn, Sides, TaskTypes
  <2>3. at \notin BeingBorn /\ pc[t] \notin BeingBorn
    BY <2>1, TakenTurn DEF BeingBorn
  <2> QED  BY <1>0, <2>1, <2>2, <2>3, TakenTurn, Unchanged, CalmTurn
<1>3. CASE ExitKnown(t)
  <2>1. /\ Take(t, "Exited") /\ UNCHANGED <<pc, fresh, open>>
        /\ Loop(t, process[t], Head(mailbox[t]).inst, eof[t], <<>>)
    BY <1>3 DEF ExitKnown
  <2>2. pc[t] \notin BeingBorn
    BY <2>1, TakenTurn DEF BeingBorn
  <2>3. PICK held, said : /\ Turn(t, pc[t], fresh[t], held, Tail(mailbox[t]), said) /\ IsList(said)
                          /\ Becomes(t, pc[t], held, Tail(mailbox[t]), said)
    BY <2>1, <2>2, TakenTurn, LoopTurns
  <2> QED  BY <2>1, <2>2, <2>3, TakenTurn, TurnKeeps
<1> QED  BY <1>1, <1>2, <1>3

LEMMA OutputKeeps ==
  ASSUME Sides, UNCHANGED <<kernelVars, givenUp>>, NEW t \in Tasks,
         Output(t) \/ OutputEnds(t) \/ Resume(t) \/ Ends(t)
  PROVE  Sides'
<1>0. IsList(mailbox[t]) /\ IsList(inbox[t])
  BY DEF Sides, TaskTypes
<1>1. CASE Output(t)
  <2>1. /\ pc[t] = "select" /\ UNCHANGED <<fresh, process, open, mailbox>>
        /\ \/ UNCHANGED inbox
           \/ inbox' = [inbox EXCEPT ![t] = Append(inbox[t], Report("Ready", process[t], None))]
        /\ \/ UNCHANGED pc
           \/ pc' = [pc EXCEPT ![t] = "write"]
    BY <1>1 DEF Output, Reading, Goto, state, Sides, TaskTypes
  <2>2. PICK at \in {"select", "write"} : pc' = [pc EXCEPT ![t] = at]
    BY <2>1 DEF Sides, TaskTypes
  <2>3. PICK said : /\ inbox' = [inbox EXCEPT ![t] = said] /\ IsList(said) /\ SameTurns(inbox[t], said)
    <3>1. CASE UNCHANGED inbox
      BY <1>0, <3>1, Unchanged DEF Sides, TaskTypes
    <3>2. CASE inbox' = [inbox EXCEPT ![t] = Append(inbox[t], Report("Ready", process[t], None))]
      <4> DEFINE m == Report("Ready", process[t], None)
      <4>1. m.cmd \notin Turns
        BY DEF Report, Turns
      <4> HIDE DEF m
      <4>2. IsList(Append(inbox[t], m)) /\ SameTurns(inbox[t], Append(inbox[t], m))
        BY <1>0, <4>1, Adding, Added
      <4> QED  BY <3>2, <4>2 DEF m
    <3> QED  BY <2>1, <3>1, <3>2
  <2>4. Turn(t, at, fresh[t], process[t], mailbox[t], said)
    BY <2>1, <2>2, <2>3 DEF Turn, Sides, TaskTypes
  <2>5. at \notin BeingBorn /\ pc[t] \notin BeingBorn
    BY <2>1 DEF BeingBorn
  <2> QED  BY <1>0, <2>1, <2>3, <2>4, <2>5, Unchanged, CalmTurn
<1>2. CASE OutputEnds(t)
  <2>1. /\ pc[t] \notin BeingBorn /\ UNCHANGED <<pc, fresh, open>>
        /\ mailbox' = [mailbox EXCEPT ![t] = mailbox[t]]
        /\ Loop(t, process[t], exitInfo[t], TRUE, <<>>)
    BY <1>2 DEF OutputEnds, Reading, BeingBorn, Sides, TaskTypes
  <2>2. PICK held, said : /\ Turn(t, pc[t], fresh[t], held, mailbox[t], said) /\ IsList(said)
                          /\ Becomes(t, pc[t], held, mailbox[t], said)
    BY <2>1, Unchanged, LoopTurns
  <2> QED  BY <1>0, <2>1, <2>2, TurnKeeps
<1>3. CASE Resume(t)
  <2>1. pc[t] = "write" /\ pc' = [pc EXCEPT ![t] = "select"]
        /\ UNCHANGED <<fresh, process, open, mailbox, inbox>>
    BY <1>3 DEF Resume, Goto, state
  <2>2. Turn(t, "select", fresh[t], process[t], mailbox[t], inbox[t])
    BY <2>1 DEF Turn, Sides, TaskTypes
  <2>3. "select" \notin BeingBorn /\ pc[t] \notin BeingBorn
    BY <2>1 DEF BeingBorn
  <2> QED  BY <1>0, <2>1, <2>2, <2>3, Unchanged, CalmTurn
<1>4. CASE Ends(t)
  <2>1. /\ pc' = [pc EXCEPT ![t] = "ended"] /\ process' = [process EXCEPT ![t] = None]
        /\ t \notin open /\ UNCHANGED <<fresh, open, mailbox, inbox>>
    BY <1>4 DEF Ends, Goto
  <2>2. Turn(t, "ended", fresh[t], None, mailbox[t], inbox[t])
    BY <2>1 DEF Turn, Sides, TaskTypes
  <2>3. "ended" \notin BeingBorn
    BY DEF BeingBorn
  <2> QED  BY <1>0, <2>1, <2>2, <2>3, TurnKeeps
<1> QED  BY <1>1, <1>2, <1>3, <1>4

LEMMA OthersKeep ==
  ASSUME Sides, OthersRun
  PROVE  Sides'
<1>0. UNCHANGED <<kernelVars, givenUp>>
  BY DEF OthersRun
<1>1. CASE UNCHANGED <<pc, fresh, process, mailbox, inbox, open>>
  BY <1>0, <1>1 DEF Sides, KernelTypes, TaskTypes, Stands, kernelVars
<1>2. CASE Dispatch
  <2>1. PICK i : /\ UNCHANGED <<pc, fresh, process, mailbox, open>>
                 /\ \/ UNCHANGED inbox
                    \/ inbox' = [inbox EXCEPT ![Owner[i]] = Append(@, Exited(hand))]
    BY <1>2 DEF Dispatch, state
  <2>2. CASE UNCHANGED inbox
    BY <1>1, <2>1, <2>2
  <2>3. CASE inbox' = [inbox EXCEPT ![Owner[i]] = Append(@, Exited(hand))]
    <3> DEFINE t == Owner[i]
               m == Exited(hand)
    <3>1. CASE t \notin Tasks
      <4>1. inbox' = inbox
        BY <2>3, <3>1 DEF Sides, TaskTypes
      <4> QED  BY <1>1, <2>1, <4>1
    <3>2. CASE t \in Tasks
      <4>0. inbox' = [inbox EXCEPT ![t] = Append(inbox[t], m)]
        BY <2>3, <3>2 DEF Sides, TaskTypes
      <4>1. m.cmd \notin Turns
        BY DEF Exited, Report, Turns
      <4> HIDE DEF m, t
      <4>2. IsList(mailbox[t]) /\ IsList(inbox[t])
        BY <3>2 DEF Sides, TaskTypes
      <4>3. IsList(Append(inbox[t], m)) /\ SameTurns(inbox[t], Append(inbox[t], m))
        BY <4>1, <4>2, Adding, Added
      <4>4. Turn(t, pc[t], fresh[t], process[t], mailbox[t], Append(inbox[t], m))
        BY <2>1, <3>2, <4>0 DEF Turn, Sides, TaskTypes
      <4> QED  BY <1>0, <2>1, <3>2, <4>2, <4>3, <4>4, Unchanged, CalmTurn
    <3> QED  BY <3>1, <3>2
  <2> QED  BY <2>1, <2>2, <2>3
<1>3. CASE Wake \/ Rest \/ \E i \in Instances : Collect(i)
  <2>1. UNCHANGED <<pc, fresh, process, mailbox, inbox, open>>
    BY <1>3 DEF Wake, Rest, Collect, state
  <2> QED  BY <1>1, <2>1
<1>4. ASSUME NEW i \in Instances, Program(i) PROVE Sides'
  <2>1. UNCHANGED <<pc, fresh, process, mailbox, inbox, open>>
    BY <1>4 DEF Program, Exit, KinExit, Foreign, ForeignReaped, Bear, state
  <2> QED  BY <1>1, <2>1
<1> QED  BY <1>2, <1>3, <1>4 DEF OthersRun, Reaper
-----------------------------------------------------------------------------
(* What goes between the two. *)
LEMMA TypingKeeps ==
  ASSUME Sides, NEW t \in Tasks, ClientTypes(t)
  PROVE  Sides'
<1> DEFINE m == Cmd("Input")
<1>1. /\ UNCHANGED <<registered, issued, running, dirty, toDrive, givenUp, open, pc, fresh, process, inbox>>
      /\ phase = "recv" /\ K!Queue(effects, {}, {t}, "Msg")
      /\ mailbox' = [mailbox EXCEPT ![t] = Append(mailbox[t], m)]
  BY DEF ClientTypes, state, K!TaskMsg, K!Receive, K!graph, K!task, Sides, TaskTypes
<1>2. effects' = Quiet
  BY <1>1, NoAnswers DEF Sides, KernelTypes
<1>3. KernelTypes'
  BY <1>1, <1>2 DEF Sides, KernelTypes
<1>4. m.cmd # "Start"
  BY DEF Cmd
<1> HIDE DEF m
<1>5. IsList(mailbox[t]) /\ IsList(Append(mailbox[t], m)) /\ SameCalls(mailbox[t], Append(mailbox[t], m))
  <2>1. IsList(mailbox[t])
    BY DEF Sides, TaskTypes
  <2> QED  BY <1>4, <2>1, Adding, Added
<1>6. \A x \in Tasks : IsList(mailbox'[x]) /\ SameCalls(mailbox[x], mailbox'[x])
  BY <1>1, <1>5, Unchanged DEF Sides, TaskTypes
<1>7. TaskTypes'
  BY <1>1, <1>6 DEF Sides, TaskTypes
<1>8. ASSUME NEW x \in Tasks PROVE Stands(x)'
  BY <1>1, <1>6, CalmStands, Unchanged DEF Sides, Stands
<1> QED  BY <1>3, <1>7, <1>8 DEF Sides

LEMMA RemovingKeeps ==
  ASSUME Sides, NEW t \in Tasks, ClientRemoves(t)
  PROVE  Sides'
<1>1. /\ t \in registered /\ registered' = registered \ {t} /\ UNCHANGED <<issued, toDrive, givenUp>>
      /\ phase = "recv"
      /\ open' = open \ {t} /\ UNCHANGED <<pc, fresh, process, inbox>>
  BY DEF ClientRemoves, Remove, K!Remove, K!Receive, state
<1>2. running' = [x \in Tasks |-> IF x = t THEN "Idle" ELSE running[x]]
  BY DEF ClientRemoves, K!Remove
<1>3. PICK last \in {<<>>, <<Cmd("Kill")>>} : mailbox' = [mailbox EXCEPT ![t] = mailbox[t] \o last]
  BY DEF ClientRemoves, Remove, Sides, TaskTypes
<1>4. effects' = Quiet
  <2>1. PICK fx \in K!Answers({t}, {}, "none") :
          effects' = [x \in Tasks |-> IF x \in {t} THEN <<>> ELSE effects[x] \o fx[x]]
    BY DEF ClientRemoves, K!Remove
  <2>2. \A x \in Tasks : fx[x] = <<>>
    BY <2>1 DEF K!Answers
  <2>3. <<>> \o <<>> = <<>>
    BY EmptySeq, ConcatEmptySeq
  <2> QED  BY <2>1, <2>2, <2>3 DEF Sides, KernelTypes, Quiet
<1>5. dirty' \subseteq registered'
  BY <1>1 DEF ClientRemoves, K!Remove, K!QueueWithout, K!ParentsOf, Sides, KernelTypes
<1>6. KernelTypes'
  <2>1. toDrive = {} /\ t \in issued
    BY <1>1 DEF Sides, KernelTypes
  <2>2. running' \in [Tasks -> K!States]
    BY <1>2 DEF Sides, KernelTypes, K!States
  <2> QED  BY <1>1, <1>2, <1>4, <1>5, <2>1, <2>2 DEF Sides, KernelTypes
<1>7. IsList(mailbox[t] \o last)
  <2>1. IsList(mailbox[t])
    BY DEF Sides, TaskTypes
  <2> QED  BY <2>1, AddingNothing, SentOn
<1>8. TaskTypes'
  BY <1>1, <1>3, <1>7 DEF Sides, TaskTypes
<1>9. ASSUME NEW x \in Tasks PROVE Stands(x)'
  <2>1. CASE x = t
    BY <1>1, <2>1 DEF Stands
  <2>2. CASE x # t
    <3>1. running'[x] = running[x] /\ mailbox'[x] = mailbox[x]
      BY <1>2, <1>3, <2>2 DEF Sides, TaskTypes
    <3> QED  BY <1>1, <3>1 DEF Sides, Stands
  <2> QED  BY <2>1, <2>2
<1> QED  BY <1>6, <1>8, <1>9 DEF Sides

(* A report is heard as it was said. *)
LEMMA ReportHeard ==
  ASSUME KernelTypes, NEW t \in registered, NEW m, NEW r \in ReportsOf(m), K!TaskReport(t, r),
         UNCHANGED <<open, givenUp>>
  PROVE  /\ KernelTypes' /\ Heard(running[t], m.cmd, running'[t])
         /\ \A x \in Tasks \ {t} : running'[x] = running[x]
<1> DEFINE s == K!AfterReport(t, r)
<1>1. /\ UNCHANGED <<registered, issued, toDrive>> /\ phase = "recv"
      /\ K!SetState(t, s) /\ K!Queue(effects, {x \in {t} : running[x] # s}, {}, "none")
  BY DEF K!TaskReport, K!OnReport, K!Receive, K!graph
<1>2. t \in Tasks /\ running[t] \in K!States
  BY DEF KernelTypes
<1>3. r \in {"Started", "Ready", "StoppedOk", "StoppedErr"} /\ (r \in {"Started", "Ready"} <=> m.cmd = r)
      /\ (m.cmd = "Stopped" <=> r \in {"StoppedOk", "StoppedErr"})
  BY DEF ReportsOf
<1>4. s \in K!States /\ Heard(running[t], m.cmd, s)
  BY <1>2, <1>3 DEF K!AfterReport, Heard, K!States, K!Exits, K!Active, K!Up
<1> HIDE DEF s
<1>5. running' = [running EXCEPT ![t] = s]
  BY <1>1, <1>2 DEF K!SetState, K!task, KernelTypes
<1>6. dirty' \subseteq registered
  BY <1>1 DEF K!SetState, K!Concerns, K!ParentsOf, K!DepsOf, KernelTypes
<1>7. effects' = Quiet
  BY <1>1, NoAnswers DEF KernelTypes
<1>8. KernelTypes'
  BY <1>1, <1>4, <1>5, <1>6, <1>7 DEF KernelTypes
<1> QED  BY <1>2, <1>4, <1>5, <1>8 DEF KernelTypes

LEMMA HearingKeeps ==
  ASSUME Sides, NEW t \in Tasks, KernelHears(t)
  PROVE  Sides'
<1> DEFINE m == Head(inbox[t])
<1>1. /\ UNCHANGED <<pc, fresh, process, open, givenUp>> /\ inbox[t] # <<>>
      /\ inbox' = [inbox EXCEPT ![t] = Tail(inbox[t])]
      /\ \/ UNCHANGED mailbox
         \/ mailbox' = [mailbox EXCEPT ![t] = Append(mailbox[t], ExitMsg(m.inst))]
  BY DEF KernelHears, Deliver, state, Sides, TaskTypes
<1>2. IsList(mailbox[t]) /\ IsList(inbox[t]) /\ IsList(Tail(inbox[t]))
  BY <1>1, Removing DEF Sides, TaskTypes
<1>3. \A x \in Tasks : IsList(mailbox'[x]) /\ SameCalls(mailbox[x], mailbox'[x])
  <2>1. CASE UNCHANGED mailbox
    BY <2>1, Unchanged DEF Sides, TaskTypes
  <2>2. CASE mailbox' = [mailbox EXCEPT ![t] = Append(mailbox[t], ExitMsg(m.inst))]
    <3> DEFINE e == ExitMsg(m.inst)
    <3>1. e.cmd # "Start"
      BY DEF ExitMsg
    <3> HIDE DEF e
    <3>2. IsList(Append(mailbox[t], e)) /\ SameCalls(mailbox[t], Append(mailbox[t], e))
      BY <1>2, <3>1, Adding, Added
    <3>3. mailbox' = [mailbox EXCEPT ![t] = Append(mailbox[t], e)]
      BY <2>2 DEF e
    <3> QED  BY <3>2, <3>3, Unchanged DEF Sides, TaskTypes
  <2> QED  BY <1>1, <2>1, <2>2
<1>4. /\ KernelTypes' /\ \A x \in Tasks \ {t} : running'[x] = running[x]
      /\ t \in open => Heard(running[t], m.cmd, running'[t])
  <2>1. CASE t \in registered /\ \E r \in ReportsOf(m) : K!TaskReport(t, r)
    BY <1>1, <2>1, ReportHeard DEF Sides
  <2>2. CASE (t \notin registered \/ m.cmd = "Exited") /\ UNCHANGED kernelVars
    <3>1. KernelTypes' /\ UNCHANGED running
      BY <1>1, <2>2 DEF kernelVars, Sides, KernelTypes
    <3>2. t \in open /\ m.cmd # "Exited" => running[t] = "Idle"
      BY <2>2 DEF Sides, KernelTypes
    <3>3. Heard("Idle", m.cmd, "Idle") /\ (m.cmd = "Exited" => Heard(running[t], m.cmd, running[t]))
      BY DEF Heard, K!Active, K!Up
    <3> QED  BY <3>1, <3>2, <3>3
  <2> QED  BY <2>1, <2>2 DEF KernelHears
<1>5. TaskTypes'
  BY <1>1, <1>2, <1>3 DEF Sides, TaskTypes
<1>6. ASSUME NEW x \in Tasks PROVE Stands(x)'
  <2>1. CASE x = t
    <3> SUFFICES ASSUME t \in open
                 PROVE  /\ Loose(running'[t], pc[t], process[t], mailbox'[t], Tail(inbox[t]))
                        /\ t \notin givenUp => Close(running'[t], pc[t], process[t], mailbox'[t], Tail(inbox[t]))
      <4>1. inbox'[t] = Tail(inbox[t])
        BY <1>1 DEF Sides, TaskTypes
      <4> QED  BY <1>1, <2>1, <4>1 DEF Stands
    <3>1. /\ Loose(running[t], pc[t], process[t], mailbox[t], inbox[t])
          /\ t \notin givenUp => Close(running[t], pc[t], process[t], mailbox[t], inbox[t])
      BY DEF Sides, Stands
    <3>2. /\ Loose(running'[t], pc[t], process[t], mailbox[t], Tail(inbox[t]))
          /\ t \notin givenUp => Close(running'[t], pc[t], process[t], mailbox[t], Tail(inbox[t]))
      BY <1>1, <1>2, <1>4, <3>1, KernelHearing
    <3> QED  BY <1>3, <3>2, CalmStands, Unchanged
  <2>2. CASE x # t
    <3>1. inbox'[x] = inbox[x] /\ running'[x] = running[x]
      BY <1>1, <1>4, <2>2 DEF Sides, TaskTypes
    <3>2. /\ x \in open => Loose(running[x], pc[x], process[x], mailbox[x], inbox[x])
          /\ x \in open /\ x \notin givenUp => Close(running[x], pc[x], process[x], mailbox[x], inbox[x])
      BY DEF Sides, Stands
    <3>3. /\ x \in open => Loose(running[x], pc[x], process[x], mailbox'[x], inbox[x])
          /\ x \in open /\ x \notin givenUp => Close(running[x], pc[x], process[x], mailbox'[x], inbox[x])
      BY <1>3, <3>2, CalmStands, Unchanged
    <3> QED  BY <1>1, <3>1, <3>3 DEF Stands
  <2> QED  BY <2>1, <2>2
<1> QED  BY <1>4, <1>5, <1>6 DEF Sides
-----------------------------------------------------------------------------
LEMMA AtFirst == ASSUME SystemInit PROVE Sides
<1>1. /\ pc = [t \in Tasks |-> "select"] /\ fresh = [t \in Tasks |-> None] /\ process = [t \in Tasks |-> None]
      /\ mailbox = [t \in Tasks |-> <<>>] /\ inbox = [t \in Tasks |-> <<>>] /\ open = Tasks /\ givenUp = {}
  BY DEF SystemInit, Init
<1>2. IsList(<<>>) /\ DOMAIN <<>> = {} /\ "select" \notin BeingBorn
  <2>1. <<>> \in Seq({}) /\ Len(<<>>) = 0
    BY EmptySeq
  <2>2. IsList(<<>>)
    BY <2>1 DEF IsList
  <2>3. DOMAIN <<>> = 1..Len(<<>>)
    BY <2>2, Listed
  <2> QED  BY <2>1, <2>2, <2>3 DEF BeingBorn
<1>3. KernelTypes
  BY <1>1 DEF SystemInit, K!Init, KernelTypes, K!States, Quiet
<1>4. TaskTypes
  BY <1>1, <1>2 DEF TaskTypes
<1>5. \A t \in Tasks : running[t] = "Idle"
  BY DEF SystemInit, K!Init
<1>6. Loose("Idle", "select", None, <<>>, <<>>) /\ Close("Idle", "select", None, <<>>, <<>>)
  BY <1>2 DEF Loose, Close, OneRun, SaidOnce, Has, Silent, K!Active, K!Up
<1>7. ASSUME NEW t \in Tasks PROVE Stands(t)
  BY <1>1, <1>5, <1>6 DEF Stands
<1> QED  BY <1>3, <1>4, <1>7 DEF Sides

LEMMA SidesKept ==
  ASSUME Sides, [SystemNext]_systemVars
  PROVE  Sides'
<1>1. CASE UNCHANGED systemVars
  BY <1>1 DEF systemVars, kernelVars, vars, state, Sides, KernelTypes, TaskTypes, Stands
<1>2. ASSUME NEW t \in Tasks, TaskRuns(t) PROVE Sides'
  <2>1. UNCHANGED <<kernelVars, givenUp>> /\ (TaskStep(t) \/ Output(t) \/ Accepted(t))
    BY <1>2 DEF TaskRuns
  <2>2. \/ Fork(t) \/ ForkFails(t) \/ Listen(t) \/ Launch(t) \/ Abandons(t)
        \/ \E c \in Commands : Ignore(t, c)
        \/ Stop(t) \/ Kill(t) \/ Input(t) \/ ExitKnown(t)
        \/ Output(t) \/ OutputEnds(t) \/ Resume(t) \/ Ends(t)
    BY <2>1 DEF TaskStep, Accepted, WriteFails
  <2> QED  BY <2>1, <2>2, StartsKeep, CommandsKeep, OutputKeeps
<1> QED  BY <1>1, <1>2, KernelKeeps, RemovingKeeps, TypingKeeps, HearingKeeps, OthersKeep DEF SystemNext

(* Whatever is said, sent and given up, and however the loops of the tasks *)
(* and the kernel take turns, the kernel and the programs agree up to what *)
(* is under way (kernel.rs:890, process_task.rs:203).                      *)
THEOREM SidesAgree == SystemSpec => []AgreesWithProcess
<1>1. Sides => AgreesWithProcess
  <2> SUFFICES ASSUME Sides, NEW t \in registered
               PROVE  /\ running[t] = "Starting" =>
                           \/ Coming(t) \/ Said(t, "Started") \/ Said(t, "Stopped")
                           \/ (t \in givenUp /\ process[t] # None)
                      /\ running[t] \in {"Running", "Ready"} => process[t] # None \/ Said(t, "Stopped")
                      /\ running[t] \notin K!Active /\ t \notin givenUp =>
                           process[t] = None /\ ~Coming(t) /\ ~Said(t, "Started")
    BY DEF AgreesWithProcess
  <2>1. /\ Loose(running[t], pc[t], process[t], mailbox[t], inbox[t])
        /\ t \notin givenUp => Close(running[t], pc[t], process[t], mailbox[t], inbox[t])
    BY DEF Sides, KernelTypes, Stands
  <2>2. /\ \A c : Said(t, c) <=> Has(inbox[t], c)
        /\ Coming(t) <=> Has(mailbox[t], "Start") \/ pc[t] \in BeingBorn
    BY DEF Said, Coming, Sending, Has, BeingBorn
  <2> QED  BY <2>1, <2>2 DEF Loose, Close, Silent
<1>2. SystemInit => Sides
  BY AtFirst
<1>3. Sides /\ [SystemNext]_systemVars => Sides'
  BY SidesKept
<1> QED  BY <1>1, <1>2, <1>3, PTL DEF SystemSpec
=============================================================================
