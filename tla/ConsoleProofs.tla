---------------------------- MODULE ConsoleProofs ----------------------------
(* For any tasks, attachments, keys and sizes of terminals: whatever order the *)
(* notices of the kernel, of screens and of attachments come in, the console   *)
(* shows what there is once it has handled them (ShowsWhatIs, and with it that *)
(* a hint's key does what the hint says), and news of tasks leaves the         *)
(* selection on the task it is on (SelectionSticks).                          *)
EXTENDS Console, SequenceTheorems, FiniteSetTheorems, TLAPS

-----------------------------------------------------------------------------
(* Numbers and lists.                                                        *)
Lists == [selected : Nat, top : Nat, count : Nat, height : Nat]

LEMMA Lesser ==
  ASSUME NEW a \in Nat, NEW b \in Nat
  PROVE  Min({a, b}) = IF a <= b THEN a ELSE b
<1> DEFINE m == IF a <= b THEN a ELSE b
<1>1. m \in {a, b} /\ \A y \in {a, b} : m <= y
  OBVIOUS
<1>2. \A n \in {a, b} : (\A y \in {a, b} : n <= y) => n = m
  OBVIOUS
<1> HIDE DEF m
<1>3. Min({a, b}) = m
  BY <1>1, <1>2 DEF Min
<1> QED  BY <1>3 DEF m

LEMMA Greater ==
  ASSUME NEW a \in Nat, NEW b \in Nat
  PROVE  Max({a, b}) = IF a >= b THEN a ELSE b
<1> DEFINE m == IF a >= b THEN a ELSE b
<1>1. m \in {a, b} /\ \A y \in {a, b} : m >= y
  OBVIOUS
<1>2. \A n \in {a, b} : (\A y \in {a, b} : n >= y) => n = m
  OBVIOUS
<1> HIDE DEF m
<1>3. Max({a, b}) = m
  BY <1>1, <1>2 DEF Max
<1> QED  BY <1>3 DEF m

\* What is selected stays so while it is there, and is in sight.
LEMMA Clamping ==
  ASSUME NEW l \in Lists
  PROVE  /\ Clamp(l) \in Lists /\ Clamp(l).count = l.count /\ Clamp(l).height = l.height
         /\ Clamp(l).selected = IF l.selected < l.count THEN l.selected ELSE Sub(l.count, 1)
         /\ l.count > 0 /\ l.height > 0 => Clamp(l).selected - Clamp(l).top \in 0..l.height - 1
<1> DEFINE sel == Min({l.selected, Sub(l.count, 1)})
           least == Min({l.top, sel})
           top == Max({least, Sub(sel + 1, l.height)})
           last == Min({top, Sub(l.count, l.height)})
<1>1. l.selected \in Nat /\ l.top \in Nat /\ l.count \in Nat /\ l.height \in Nat
  BY DEF Lists
<1>2. Sub(l.count, 1) \in Nat /\ Sub(l.count, l.height) \in Nat
  BY <1>1 DEF Sub
<1>3. sel = IF l.selected <= Sub(l.count, 1) THEN l.selected ELSE Sub(l.count, 1)
  BY <1>1, <1>2, Lesser
<1>4. sel \in Nat
  BY <1>1, <1>2, <1>3
<1>5. Sub(sel + 1, l.height) \in Nat
  BY <1>1, <1>4 DEF Sub
<1>6. least = IF l.top <= sel THEN l.top ELSE sel
  BY <1>1, <1>4, Lesser
<1>7. least \in Nat
  BY <1>1, <1>4, <1>6
<1>8. top = IF least >= Sub(sel + 1, l.height) THEN least ELSE Sub(sel + 1, l.height)
  BY <1>5, <1>7, Greater
<1>9. top \in Nat
  BY <1>5, <1>7, <1>8
<1>10. last = IF top <= Sub(l.count, l.height) THEN top ELSE Sub(l.count, l.height)
  BY <1>2, <1>9, Lesser
<1>11. last \in Nat
  BY <1>2, <1>9, <1>10
<1>12. Clamp(l) = [[l EXCEPT !.selected = sel] EXCEPT !.top = last]
  BY DEF Clamp
<1> HIDE DEF sel, least, top, last
<1>13. Clamp(l) \in Lists /\ Clamp(l).count = l.count /\ Clamp(l).height = l.height
       /\ Clamp(l).selected = sel /\ Clamp(l).top = last
  BY <1>4, <1>11, <1>12 DEF Lists
<1>14. sel = IF l.selected < l.count THEN l.selected ELSE Sub(l.count, 1)
  BY <1>1, <1>3 DEF Sub
<1>15. ASSUME l.count > 0, l.height > 0 PROVE sel - last \in 0..l.height - 1
  <2>1. sel <= l.count - 1
    BY <1>1, <1>3, <1>15 DEF Sub
  <2>2. Sub(sel + 1, l.height) <= sel /\ Sub(sel + 1, l.height) >= sel + 1 - l.height
    BY <1>1, <1>4, <1>15 DEF Sub
  <2>3. top <= sel /\ top >= sel + 1 - l.height
    BY <1>1, <1>4, <1>5, <1>6, <1>7, <1>8, <2>2
  <2>4. Sub(l.count, l.height) >= l.count - l.height
    BY <1>1 DEF Sub
  <2>5. last <= sel /\ last >= sel + 1 - l.height
    BY <1>1, <1>2, <1>4, <1>9, <1>10, <2>1, <2>3, <2>4
  <2> QED  BY <1>1, <1>4, <1>11, <2>5
<1> QED  BY <1>13, <1>14, <1>15

-----------------------------------------------------------------------------
(* Sequences of tasks, in the order they came.                               *)
Ids == ToSet(TaskIds)
Rank(id) == CHOOSE i \in 1..Len(TaskIds) : TaskIds[i] = id
Sorted(s) == \A i, j \in DOMAIN s : i < j => Rank(s[i].id) < Rank(s[j].id)
IdsIn(s) == {s[i].id : i \in DOMAIN s}

LEMMA Ranks ==
  /\ \A id \in Ids : Rank(id) \in 1..Len(TaskIds) /\ TaskIds[Rank(id)] = id
  /\ \A i \in 1..Len(TaskIds) : TaskIds[i] \in Ids /\ Rank(TaskIds[i]) = i
  /\ Len(TaskIds) \in Nat /\ TaskIds \in Seq(Ids)
<1>1. TaskIds \in Seq(Ids) /\ IsInjective(TaskIds)
  BY ConsoleAssumption DEF Ids
<1>2. Len(TaskIds) \in Nat /\ DOMAIN TaskIds = 1..Len(TaskIds)
  BY <1>1
<1>3. \A id \in Ids : \E i \in 1..Len(TaskIds) : TaskIds[i] = id
  BY <1>2 DEF Ids, ToSet
<1>4. \A id \in Ids : Rank(id) \in 1..Len(TaskIds) /\ TaskIds[Rank(id)] = id
  BY <1>3 DEF Rank
<1>5. \A i, j \in 1..Len(TaskIds) : TaskIds[i] = TaskIds[j] => i = j
  BY <1>1, <1>2 DEF IsInjective
<1>6. ASSUME NEW i \in 1..Len(TaskIds) PROVE TaskIds[i] \in Ids /\ Rank(TaskIds[i]) = i
  <2>1. TaskIds[i] \in Ids
    BY <1>1
  <2> QED  BY <1>4, <1>5, <2>1
<1> QED  BY <1>1, <1>2, <1>4, <1>6

LEMMA SameRank ==
  ASSUME NEW a \in Ids, NEW b \in Ids, Rank(a) = Rank(b)
  PROVE  a = b
BY Ranks

\* In order each is there once.
LEMMA SortedOnce ==
  ASSUME NEW S, \A t \in S : t.id \in Ids, NEW s \in Seq(S), Sorted(s)
  PROVE  \A i, j \in 1..Len(s) : s[i].id = s[j].id => i = j
<1>1. \A i \in 1..Len(s) : Rank(s[i].id) \in Nat
  <2>1. \A i \in 1..Len(s) : s[i].id \in Ids
    OBVIOUS
  <2> QED  BY <2>1, Ranks
<1>2. DOMAIN s = 1..Len(s) /\ Len(s) \in Nat
  OBVIOUS
<1>3. ASSUME NEW i \in 1..Len(s), NEW j \in 1..Len(s), s[i].id = s[j].id, i # j PROVE FALSE
  <2>1. i < j \/ j < i
    BY <1>3
  <2>2. Rank(s[i].id) < Rank(s[j].id) \/ Rank(s[j].id) < Rank(s[i].id)
    BY <1>2, <2>1 DEF Sorted
  <2> QED  BY <1>1, <1>3, <2>2
<1> QED  BY <1>3

WithoutStep(p, kept, t) == IF t.id = p.id THEN kept ELSE Append(kept, t)
WithoutKept(p, j, x) ==
  /\ x \in Seq(p.S) /\ Len(x) = IF p.k <= j THEN j - 1 ELSE j
  /\ \A i \in 1..Len(x) : x[i] = IF i < p.k THEN p.s[i] ELSE p.s[i + 1]
Removal == INSTANCE Folding WITH Step <- WithoutStep, Keeps <- WithoutKept

LEMMA RemovalFolds ==
  ASSUME NEW s, NEW id, NEW p, p.id = id
  PROVE  Without(s, id) = Removal!Folded(p, <<>>, s)
BY DEF Without, WithoutStep, Removal!Folded, FoldLeft, MapThenFoldSet, Removal!FoldLeft,
       Removal!MapThenFoldSet, Max, Removal!Max

\* The others move up one by one.
LEMMA OneLess ==
  ASSUME NEW S, NEW s \in Seq(S), NEW id, NEW k \in 1..Len(s) + 1,
         \A i \in 1..Len(s) : s[i].id = id <=> i = k
  PROVE  /\ Without(s, id) \in Seq(S)
         /\ Len(Without(s, id)) = IF k <= Len(s) THEN Len(s) - 1 ELSE Len(s)
         /\ \A i \in 1..Len(Without(s, id)) : Without(s, id)[i] = IF i < k THEN s[i] ELSE s[i + 1]
<1> DEFINE p == [S |-> S, s |-> s, id |-> id, k |-> k]
           n == Len(s)
<1>1. n \in Nat /\ DOMAIN s = 1..n
  OBVIOUS
<1>2. WithoutKept(p, 0, <<>>)
  BY DEF WithoutKept
<1>3. ASSUME NEW j \in 1..n, NEW x, WithoutKept(p, j - 1, x)
      PROVE  WithoutKept(p, j, WithoutStep(p, x, s[j]))
  <2>1. /\ x \in Seq(S) /\ Len(x) = IF k <= j - 1 THEN j - 2 ELSE j - 1
        /\ \A i \in 1..Len(x) : x[i] = IF i < k THEN s[i] ELSE s[i + 1]
    BY <1>3 DEF WithoutKept
  <2>2. CASE j = k
    <3>1. WithoutStep(p, x, s[j]) = x
      BY <2>2, <1>1 DEF WithoutStep
    <3> QED  BY <2>1, <2>2, <3>1 DEF WithoutKept
  <2>3. CASE j # k
    <3>1. WithoutStep(p, x, s[j]) = Append(x, s[j]) /\ s[j] \in S
      BY <2>3, <1>1 DEF WithoutStep
    <3> DEFINE y == Append(x, s[j])
    <3>2. y \in Seq(S) /\ Len(y) = Len(x) + 1 /\ y[Len(x) + 1] = s[j] /\ \A i \in 1..Len(x) : y[i] = x[i]
      BY <2>1, <3>1
    <3> HIDE DEF y
    <3>3. Len(y) = IF k <= j THEN j - 1 ELSE j
      BY <2>1, <2>3, <3>2
    <3>4. \A i \in 1..Len(y) : y[i] = IF i < k THEN s[i] ELSE s[i + 1]
      <4>1. TAKE i \in 1..Len(y)
      <4>2. CASE i <= Len(x)
        BY <2>1, <3>2, <4>2
      <4>3. CASE i = Len(x) + 1
        BY <2>1, <2>3, <3>2, <4>3
      <4> QED  BY <2>1, <3>2, <4>2, <4>3
    <3>5. WithoutKept(p, j, y)
      BY <3>2, <3>3, <3>4 DEF WithoutKept
    <3> QED  BY <3>1, <3>5 DEF y
  <2> QED  BY <2>2, <2>3
<1>4. Without(s, id) = Removal!Folded(p, <<>>, s)
  <2>1. p.id = id
    OBVIOUS
  <2> HIDE DEF p
  <2> QED  BY <2>1, RemovalFolds
<1> HIDE DEF p, n
<1>5. WithoutKept(p, n, Removal!Folded(p, <<>>, s))
  BY ONLY <1>1, <1>2, <1>3, Removal!FoldKeeps
<1> QED  BY <1>4, <1>5 DEF WithoutKept, p, n

LEMMA Unchanged ==
  ASSUME NEW S, NEW s \in Seq(S), NEW id, \A i \in 1..Len(s) : s[i].id # id
  PROVE  Without(s, id) = s
<1>1. PICK k \in 1..Len(s) + 1 : k = Len(s) + 1
  OBVIOUS
<1>2. /\ Without(s, id) \in Seq(S) /\ Len(Without(s, id)) = Len(s)
      /\ \A i \in 1..Len(s) : Without(s, id)[i] = s[i]
  <2>1. \A i \in 1..Len(s) : s[i].id = id <=> i = k
    BY <1>1
  <2>2. /\ Without(s, id) \in Seq(S) /\ Len(Without(s, id)) = IF k <= Len(s) THEN Len(s) - 1 ELSE Len(s)
        /\ \A i \in 1..Len(Without(s, id)) : Without(s, id)[i] = IF i < k THEN s[i] ELSE s[i + 1]
    BY <2>1, OneLess
  <2> QED  BY <1>1, <2>2
<1> QED  BY <1>2, SeqEqual

\* Of a sequence in order the rest is in order, and has all the others.
LEMMA Leaving ==
  ASSUME NEW S, \A t \in S : t.id \in Ids, NEW s \in Seq(S), Sorted(s), NEW id
  PROVE  /\ Without(s, id) \in Seq(S) /\ Sorted(Without(s, id))
         /\ \A i \in 1..Len(Without(s, id)) : \E j \in 1..Len(s) : Without(s, id)[i] = s[j] /\ s[j].id # id
         /\ \A j \in 1..Len(s) : s[j].id # id => \E i \in 1..Len(Without(s, id)) : Without(s, id)[i] = s[j]
<1>1. Len(s) \in Nat /\ DOMAIN s = 1..Len(s)
  OBVIOUS
<1>2. CASE \A i \in 1..Len(s) : s[i].id # id
  <2>1. Without(s, id) = s
    BY <1>2, Unchanged
  <2> QED  BY <1>2, <2>1
<1>3. ASSUME NEW k \in 1..Len(s), s[k].id = id
      PROVE  /\ Without(s, id) \in Seq(S) /\ Sorted(Without(s, id))
             /\ \A i \in 1..Len(Without(s, id)) : \E j \in 1..Len(s) : Without(s, id)[i] = s[j] /\ s[j].id # id
             /\ \A j \in 1..Len(s) : s[j].id # id => \E i \in 1..Len(Without(s, id)) : Without(s, id)[i] = s[j]
  <2>1. \A i \in 1..Len(s) : s[i].id = id <=> i = k
    BY <1>3, SortedOnce
  <2>2. /\ Without(s, id) \in Seq(S) /\ Len(Without(s, id)) = Len(s) - 1
        /\ \A i \in 1..Len(Without(s, id)) : Without(s, id)[i] = IF i < k THEN s[i] ELSE s[i + 1]
    <3>1. k \in 1..Len(s) + 1 /\ k <= Len(s)
      BY <1>1
    <3> QED  BY <2>1, <3>1, OneLess
  <2> DEFINE r == Without(s, id)
  <2> HIDE DEF r
  <2>3. r \in Seq(S) /\ Len(r) = Len(s) - 1 /\ DOMAIN r = 1..Len(r)
        /\ \A i \in 1..Len(r) : r[i] = IF i < k THEN s[i] ELSE s[i + 1]
    BY <2>2 DEF r
  <2>4. Sorted(r)
    <3>1. SUFFICES ASSUME NEW i \in 1..Len(r), NEW j \in 1..Len(r), i < j
                   PROVE  Rank(r[i].id) < Rank(r[j].id)
      BY <2>3 DEF Sorted
    <3> DEFINE i1 == IF i < k THEN i ELSE i + 1
               j1 == IF j < k THEN j ELSE j + 1
    <3>2. i1 \in 1..Len(s) /\ j1 \in 1..Len(s) /\ i1 < j1
      BY <1>1, <2>3, <3>1
    <3>3. r[i] = s[i1] /\ r[j] = s[j1]
      BY <2>3
    <3> QED  BY <1>1, <3>2, <3>3 DEF Sorted
  <2>5. ASSUME NEW i \in 1..Len(r) PROVE \E j \in 1..Len(s) : r[i] = s[j] /\ s[j].id # id
    <3>1. r[i] = s[IF i < k THEN i ELSE i + 1]
      BY <2>3
    <3>2. (IF i < k THEN i ELSE i + 1) \in 1..Len(s) /\ (IF i < k THEN i ELSE i + 1) # k
      BY <1>1, <2>3
    <3> QED  BY <2>1, <3>1, <3>2
  <2>6. ASSUME NEW j \in 1..Len(s), s[j].id # id PROVE \E i \in 1..Len(r) : r[i] = s[j]
    <3> DEFINE i == IF j < k THEN j ELSE j - 1
    <3>1. j # k
      BY <2>1, <2>6
    <3>2. i \in 1..Len(r)
      BY <1>1, <2>3, <3>1
    <3>3. r[i] = s[j]
      BY <1>1, <2>3, <3>1, <3>2
    <3> QED  BY <3>2, <3>3
  <2> QED  BY <2>3, <2>4, <2>5, <2>6 DEF r
<1> QED  BY <1>2, <1>3

-----------------------------------------------------------------------------
TerminalStep(p, kept, t) == IF t.vt THEN Append(kept, t) ELSE kept
TerminalKept(p, j, x) ==
  /\ x \in Seq(p.S) /\ Sorted(x)
  /\ \A i \in 1..Len(x) : x[i].vt /\ \E m \in 1..j : x[i] = p.s[m]
  /\ \A m \in 1..j : p.s[m].vt => \E i \in 1..Len(x) : x[i] = p.s[m]
Terminals == INSTANCE Folding WITH Step <- TerminalStep, Keeps <- TerminalKept

LEMMA TerminalsFold ==
  ASSUME NEW s, NEW p
  PROVE  WithTerminal(s) = Terminals!Folded(p, <<>>, s)
BY DEF WithTerminal, TerminalStep, Terminals!Folded, FoldLeft, MapThenFoldSet, Terminals!FoldLeft,
       Terminals!MapThenFoldSet, Max, Terminals!Max

\* Those with a terminal, in the same order.
LEMMA TerminalsIn ==
  ASSUME NEW S, \A t \in S : t.id \in Ids, NEW s \in Seq(S), Sorted(s)
  PROVE  /\ WithTerminal(s) \in Seq(S) /\ Sorted(WithTerminal(s))
         /\ \A i \in 1..Len(WithTerminal(s)) :
              WithTerminal(s)[i].vt /\ \E m \in 1..Len(s) : WithTerminal(s)[i] = s[m]
         /\ \A m \in 1..Len(s) : s[m].vt => \E i \in 1..Len(WithTerminal(s)) : WithTerminal(s)[i] = s[m]
<1> DEFINE p == [S |-> S, s |-> s]
           n == Len(s)
<1>1. n \in Nat /\ DOMAIN s = 1..n /\ p.S = S /\ p.s = s
  OBVIOUS
<1>2. TerminalKept(p, 0, <<>>)
  BY DEF TerminalKept, Sorted
<1> HIDE DEF p, n
<1>3. ASSUME NEW j \in 1..n, NEW x, TerminalKept(p, j - 1, x)
      PROVE  TerminalKept(p, j, TerminalStep(p, x, s[j]))
  <2>1. /\ x \in Seq(S) /\ Sorted(x)
        /\ \A i \in 1..Len(x) : x[i].vt /\ \E m \in 1..(j - 1) : x[i] = s[m]
        /\ \A m \in 1..(j - 1) : s[m].vt => \E i \in 1..Len(x) : x[i] = s[m]
    BY <1>1, <1>3 DEF TerminalKept
  <2>2. CASE ~s[j].vt
    <3>1. TerminalStep(p, x, s[j]) = x
      BY <2>2 DEF TerminalStep
    <3>2. \A i \in 1..Len(x) : x[i].vt /\ \E m \in 1..j : x[i] = s[m]
      BY <2>1, <1>1
    <3>3. \A m \in 1..j : s[m].vt => \E i \in 1..Len(x) : x[i] = s[m]
      <4>1. TAKE m \in 1..j
      <4>2. CASE m = j
        BY <2>2, <4>2
      <4>3. CASE m # j
        BY <2>1, <4>3, <1>1
      <4> QED  BY <4>2, <4>3
    <3> QED  BY <1>1, <2>1, <3>1, <3>2, <3>3 DEF TerminalKept
  <2>3. CASE s[j].vt
    <3> DEFINE y == Append(x, s[j])
    <3>1. TerminalStep(p, x, s[j]) = y
      BY <2>3 DEF TerminalStep
    <3>2. s[j] \in S
      BY <1>1
    <3>3. y \in Seq(S) /\ Len(y) = Len(x) + 1 /\ y[Len(x) + 1] = s[j] /\ \A i \in 1..Len(x) : y[i] = x[i]
      BY <2>1, <3>2
    <3>4. Len(x) \in Nat /\ DOMAIN y = 1..Len(y)
      BY <2>1, <3>3
    <3> HIDE DEF y
    <3>5. Sorted(y)
      <4>1. SUFFICES ASSUME NEW i \in 1..Len(y), NEW m \in 1..Len(y), i < m
                     PROVE  Rank(y[i].id) < Rank(y[m].id)
        BY <3>4 DEF Sorted
      <4>2. CASE m <= Len(x)
        <5>1. i \in DOMAIN x /\ m \in DOMAIN x
          BY <2>1, <3>3, <3>4, <4>1, <4>2
        <5>2. y[i] = x[i] /\ y[m] = x[m]
          BY ONLY <2>1, <3>3, <5>1
        <5>3. Rank(x[i].id) < Rank(x[m].id)
          BY <2>1, <4>1, <5>1 DEF Sorted
        <5> QED  BY ONLY <5>2, <5>3
      <4>3. CASE m = Len(x) + 1
        <5>1. i \in 1..Len(x)
          BY <3>4, <4>1, <4>3
        <5>2. PICK q \in 1..(j - 1) : x[i] = s[q]
          BY <2>1, <5>1
        <5>3. q \in DOMAIN s /\ j \in DOMAIN s /\ q < j
          BY <1>1, <5>2
        <5> QED  BY <3>3, <4>3, <5>1, <5>2, <5>3 DEF Sorted
      <4> QED  BY <3>3, <3>4, <4>2, <4>3
    <3>6. \A i \in 1..Len(y) : y[i].vt /\ \E m \in 1..j : y[i] = s[m]
      <4>1. TAKE i \in 1..Len(y)
      <4>2. CASE i \in 1..Len(x)
        <5>1. PICK m \in 1..(j - 1) : x[i] = s[m] /\ x[i].vt
          BY <2>1, <4>2
        <5>2. m \in 1..j
          BY <1>1
        <5> QED  BY <3>3, <4>2, <5>1, <5>2
      <4>3. CASE i = Len(x) + 1
        <5>1. j \in 1..j
          BY <1>1
        <5> QED  BY <2>3, <3>3, <4>3, <5>1
      <4> QED  BY <3>3, <3>4, <4>2, <4>3
    <3>7. \A m \in 1..j : s[m].vt => \E i \in 1..Len(y) : y[i] = s[m]
      <4>1. TAKE m \in 1..j
      <4>2. CASE m = j
        BY <3>3, <3>4, <4>2
      <4>3. CASE m # j
        <5>1. m \in 1..(j - 1)
          BY <1>1, <4>3
        <5>2. ASSUME s[m].vt PROVE \E i \in 1..Len(y) : y[i] = s[m]
          <6>1. PICK i \in 1..Len(x) : x[i] = s[m]
            BY <2>1, <5>1, <5>2
          <6> QED  BY <3>3, <3>4, <6>1
        <5> QED  BY <5>2
      <4> QED  BY <4>2, <4>3
    <3> QED  BY <1>1, <3>1, <3>3, <3>5, <3>6, <3>7 DEF TerminalKept
  <2> QED  BY <2>2, <2>3
<1>4. WithTerminal(s) = Terminals!Folded(p, <<>>, s)
  BY TerminalsFold
<1>5. TerminalKept(p, n, Terminals!Folded(p, <<>>, s))
  BY ONLY <1>1, <1>2, <1>3, Terminals!FoldKeeps
<1> QED  BY <1>1, <1>4, <1>5 DEF TerminalKept, n

-----------------------------------------------------------------------------
(* Two sequences in order with the same ids are the same ids.                *)
LEMMA SameOrder ==
  ASSUME NEW S, \A t \in S : t.id \in Ids, NEW T, \A t \in T : t.id \in Ids,
         NEW r \in Seq(S), Sorted(r), NEW s \in Seq(T), Sorted(s), IdsIn(r) = IdsIn(s)
  PROVE  Len(r) = Len(s) /\ \A i \in 1..Len(r) : r[i].id = s[i].id
<1>1. /\ Len(r) \in Nat /\ DOMAIN r = 1..Len(r) /\ Len(s) \in Nat /\ DOMAIN s = 1..Len(s)
      /\ \A i \in 1..Len(r) : r[i].id \in Ids /\ Rank(r[i].id) \in Nat
      /\ \A i \in 1..Len(s) : s[i].id \in Ids /\ Rank(s[i].id) \in Nat
  <2>1. \A i \in 1..Len(r) : r[i] \in S
    OBVIOUS
  <2>2. \A i \in 1..Len(s) : s[i] \in T
    OBVIOUS
  <2> QED  BY <2>1, <2>2, Ranks
<1>6. /\ \A i \in 1..Len(r) : \E j \in 1..Len(s) : s[j].id = r[i].id
      /\ \A j \in 1..Len(s) : \E i \in 1..Len(r) : r[i].id = s[j].id
  <2>1. \A i \in 1..Len(r) : r[i].id \in IdsIn(r)
    BY <1>1 DEF IdsIn
  <2>2. \A j \in 1..Len(s) : s[j].id \in IdsIn(s)
    BY <1>1 DEF IdsIn
  <2>3. \A x \in IdsIn(s) : \E j \in 1..Len(s) : s[j].id = x
    BY <1>1 DEF IdsIn
  <2>4. \A x \in IdsIn(r) : \E j \in 1..Len(r) : r[j].id = x
    BY <1>1 DEF IdsIn
  <2> QED  BY <2>1, <2>2, <2>3, <2>4
<1> DEFINE D == {n \in Nat : n >= 1 /\ n <= Len(r) /\ ~(n <= Len(s) /\ r[n].id = s[n].id)}
<1>2. D = {}
  <2>1. SUFFICES ASSUME D # {} PROVE FALSE
    OBVIOUS
  <2>2. PICK n \in D : \A m \in D : n <= m
    <3>1. D \in SUBSET Nat
      OBVIOUS
    <3> QED  BY <2>1, <3>1, Removal!Least
  <2>3. \A m \in 1..(n - 1) : m <= Len(s) /\ r[m].id = s[m].id
    BY <1>1, <2>2
  <2>4. PICK j \in 1..Len(s) : s[j].id = r[n].id
    BY <1>1, <1>6, <2>2
  <2>5. j >= n
    <3>1. ASSUME j < n PROVE FALSE
      <4>1. r[j].id = r[n].id /\ j \in 1..Len(r) /\ n \in 1..Len(r)
        BY <1>1, <2>2, <2>3, <2>4, <3>1
      <4> QED  BY <3>1, <4>1, SortedOnce
    <3> QED  BY <1>1, <2>2, <3>1
  <2>6. j # n
    BY <2>2, <2>4
  <2>7. n \in 1..Len(s) /\ n < j /\ Rank(s[n].id) < Rank(r[n].id)
    <3>1. n \in Nat /\ n >= 1 /\ j \in Nat
      BY <2>2, <2>4
    <3>2. n < j /\ n \in 1..Len(s)
      BY <2>4, <2>5, <2>6, <3>1
    <3>3. Rank(s[n].id) < Rank(s[j].id)
      BY <1>1, <3>2 DEF Sorted
    <3> QED  BY <2>4, <3>2, <3>3
  <2>8. PICK i \in 1..Len(r) : r[i].id = s[n].id
    BY <1>1, <1>6, <2>7
  <2>9. i < n
    <3>1. ASSUME i >= n PROVE FALSE
      <4>1. i = n \/ n < i
        BY <1>1, <2>2, <3>1
      <4>2. Rank(r[n].id) <= Rank(r[i].id)
        <5>1. CASE i = n
          BY <1>1, <2>2, <5>1
        <5>2. CASE n < i
          <6>1. n \in DOMAIN r /\ i \in DOMAIN r /\ Rank(r[n].id) \in Nat /\ Rank(r[i].id) \in Nat
            BY <1>1, <2>2
          <6>2. Rank(r[n].id) < Rank(r[i].id)
            BY <5>2, <6>1 DEF Sorted
          <6> QED  BY <6>1, <6>2
        <5> QED  BY <4>1, <5>1, <5>2
      <4> QED  BY <1>1, <2>2, <2>7, <2>8, <4>2
    <3> QED  BY <1>1, <2>2, <3>1
  <2>10. s[i].id = s[n].id /\ i \in 1..Len(s)
    BY <1>1, <2>2, <2>3, <2>8, <2>9
  <2> QED  BY <2>7, <2>9, <2>10, SortedOnce
<1>3. \A i \in 1..Len(r) : i <= Len(s) /\ r[i].id = s[i].id
  BY <1>1, <1>2
<1>4. Len(s) <= Len(r)
  <2>1. SUFFICES ASSUME Len(r) < Len(s) PROVE FALSE
    BY <1>1
  <2>2. PICK i \in 1..Len(r) : r[i].id = s[Len(r) + 1].id
    <3>1. Len(r) + 1 \in 1..Len(s)
      BY <1>1, <2>1
    <3> QED  BY <1>6, <3>1
  <2>3. s[i].id = s[Len(r) + 1].id /\ i \in 1..Len(s) /\ Len(r) + 1 \in 1..Len(s) /\ i # Len(r) + 1
    BY <1>1, <1>3, <2>1, <2>2
  <2> QED  BY <2>3, SortedOnce
<1>5. Len(r) <= Len(s)
  <2>1. CASE Len(r) = 0
    BY <1>1, <2>1
  <2>2. CASE Len(r) # 0
    BY <1>1, <1>3, <2>2
  <2> QED  BY <2>1, <2>2
<1>7. Len(r) = Len(s)
  <2>1. Len(r) \in Nat /\ Len(s) \in Nat
    BY <1>1
  <2> QED  BY ONLY <1>4, <1>5, <2>1
<1> QED  BY <1>3, <1>7

-----------------------------------------------------------------------------
(* What the console, the tasks outside and the notes are.                    *)
Rows == [id : Ids, up : BOOLEAN, surface : BOOLEAN]
Jobs == [id : Ids, up : BOOLEAN, vt : BOOLEAN]
Notes == [id : Ids, on : BOOLEAN, stale : BOOLEAN]
Sizes == Nat \X Nat
Modals == [kind : {"none", "quit", "add", "rename"}] \cup [kind : {"remove"}, id : Ids]
          \cup [kind : {"menu"}, query : DOMAIN MenuItems, list : Lists]
Viewers == UNION {[S -> Sizes] : S \in SUBSET Attachments}
Views ==
  [tasks : Seq(Rows), list : Lists, scope : {"tasks", "term", "zoom"}, hide : BOOLEAN, modal : Modals,
   quitting : BOOLEAN, stop : BOOLEAN, viewers : Viewers, size : Sizes, term : Sizes,
   from : {"inbox", "notes"}, left : Nat, wavered : BOOLEAN, missed : BOOLEAN, misled : SUBSET Ids]
Outsides ==
  [tasks : Seq(Jobs), coming : Seq(Ids), copying : SUBSET Ids, attached : SUBSET Attachments,
   watched : [Ids -> Sizes \cup {NotObserved}]]
Whole(x) ==
  /\ x = [v |-> x.v, o |-> x.o, n |-> x.n, a |-> x.a]
  /\ x.v \in Views /\ x.o \in Outsides /\ x.n \in Seq(Notes)

\* What is observed is what is shown, while somebody looks.
Watching(x) ==
  \A id \in Ids : x.o.watched[id] # NotObserved
                    <=> HasViewers(x.v) /\ id \in Shown(x.v) /\ id \in Alive(x.o)
\* A row shows whether its task is in copy mode, one of `copying`, when the last
\* note of it has been heard.
Fits(t, n, misled, copying) ==
  /\ \A k \in 1..Len(n) :
       n[k].id = t.id /\ (\A j \in k + 1..Len(n) : n[j].id # t.id) /\ ~(n[k].stale /\ n[k].on)
         => (n[k].on <=> t.id \in copying)
  /\ (\A k \in 1..Len(n) : n[k].id # t.id) /\ t.id \notin misled => (t.surface <=> t.id \in copying)
InCopyMode(v, o) == IF HasViewers(v) THEN o.copying ELSE {}
Copied(x) ==
  \A i \in 1..Len(x.v.tasks) :
    x.v.tasks[i].id \in Alive(x.o) =>
      Fits(x.v.tasks[i], x.n, x.v.misled, InCopyMode(x.v, x.o))
Sound(x) == Whole(x) /\ Watching(x) /\ Copied(x)

\* What a key or a click leaves alone.
SameRows(v, w) ==
  /\ Len(w.tasks) = Len(v.tasks)
  /\ \A i \in 1..Len(v.tasks) : w.tasks[i].id = v.tasks[i].id /\ w.tasks[i].up = v.tasks[i].up
SameOutside(o, p) == p.tasks = o.tasks /\ p.coming = o.coming /\ p.attached = o.attached
SameTurn(v, w) ==
  w.term = v.term /\ w.wavered = v.wavered /\ w.missed = v.missed /\ w.from = v.from /\ w.left = v.left
NotesOf(x, y) ==
  \A k \in 1..Len(y.n) :
    y.n[k].id \in Shown(x.v) \/ \E j \in 1..Len(x.n) : x.n[j].id = y.n[k].id
Quiet(x, y) ==
  /\ SameRows(x.v, y.v) /\ SameOutside(x.o, y.o) /\ SameTurn(x.v, y.v) /\ NotesOf(x, y)
  /\ \A id \in Ids : y.o.watched[id] \in {x.o.watched[id], NotObserved}

LEMMA SameShown ==
  ASSUME NEW v \in Views, NEW w \in Views, SameRows(v, w)
  PROVE  Shown(w) = Shown(v)
<1>1. v.tasks \in Seq(Rows) /\ w.tasks \in Seq(Rows)
  BY DEF Views
<1>2. DOMAIN v.tasks = 1..Len(v.tasks) /\ DOMAIN w.tasks = 1..Len(v.tasks)
  BY <1>1 DEF SameRows
<1> QED  BY <1>2 DEF Shown, SameRows

LEMMA QuietSelf ==
  ASSUME NEW x, Whole(x)
  PROVE  Quiet(x, x)
<1>1. x.n \in Seq(Notes)
  BY DEF Whole
<1> QED  BY <1>1 DEF Quiet, SameRows, SameOutside, SameTurn, NotesOf

LEMMA QuietTwice ==
  ASSUME NEW x, NEW y, NEW z, Whole(x), Whole(y), Whole(z), Quiet(x, y), Quiet(y, z)
  PROVE  Quiet(x, z)
<1>1. Shown(y.v) = Shown(x.v)
  BY SameShown DEF Whole, Quiet
<1>2. NotesOf(x, z)
  BY <1>1 DEF Quiet, NotesOf
<1>3. SameRows(x.v, z.v)
  BY DEF Quiet, SameRows
<1>4. SameOutside(x.o, z.o) /\ SameTurn(x.v, z.v)
  BY DEF Quiet, SameOutside, SameTurn
<1>5. ASSUME NEW id \in Ids PROVE z.o.watched[id] \in {x.o.watched[id], NotObserved}
  <2>1. z.o.watched[id] \in {y.o.watched[id], NotObserved} /\ y.o.watched[id] \in {x.o.watched[id], NotObserved}
    BY DEF Quiet
  <2> QED  BY <2>1
<1> QED  BY <1>2, <1>3, <1>4, <1>5 DEF Quiet

\* A change of focus, of the selection, of a dialog, a command.
Plainly(x, y) ==
  /\ Whole(y) /\ y.o = x.o /\ y.n = x.n
  /\ y.v.tasks = x.v.tasks /\ y.v.viewers = x.v.viewers /\ y.v.misled = x.v.misled /\ SameTurn(x.v, y.v)
LEMMA Plain ==
  ASSUME NEW x, Sound(x), NEW y, Plainly(x, y)
  PROVE  Sound(y) /\ Quiet(x, y)
<1>1. HasViewers(y.v) = HasViewers(x.v) /\ Shown(y.v) = Shown(x.v)
  BY DEF Plainly, HasViewers, Shown
<1>2. Watching(y)
  BY <1>1 DEF Sound, Watching, Plainly
<1>3. Copied(y)
  BY <1>1 DEF Sound, Copied, Plainly, InCopyMode
<1>4. Quiet(x, y)
  BY DEF Plainly, Quiet, SameRows, SameOutside, NotesOf, Whole
<1> QED  BY <1>2, <1>3, <1>4 DEF Sound, Plainly

-----------------------------------------------------------------------------
(* Sizes.                                                                    *)
LEMMA Subs == \A a \in Nat, b \in Nat : Sub(a, b) \in Nat
BY DEF Sub

LEMMA Areas ==
  ASSUME NEW v \in Views
  PROVE  TermArea(v) \in Sizes /\ ListHeight(v) \in Nat
<1>1. v.size \in Nat \X Nat
  BY DEF Views, Sizes
<1>2. v.size[1] \in Nat /\ v.size[2] \in Nat /\ SidebarWidth \in Nat
  BY <1>1, ConsoleAssumption
<1>3. TopHeight(v) \in Nat
  BY <1>2, Subs DEF TopHeight
<1>4. ListHeight(v) \in Nat
  BY <1>3, Subs DEF ListHeight
<1> DEFINE c == v.size[1] - (IF v.scope = "zoom" THEN 0 ELSE Min({SidebarWidth, v.size[1]}))
           r == TopHeight(v) - (IF v.scope = "zoom" THEN Min({1, TopHeight(v)}) ELSE 0)
<1>5. c \in Nat /\ r \in Nat
  <2>1. /\ Min({SidebarWidth, v.size[1]}) \in Nat /\ Min({SidebarWidth, v.size[1]}) <= v.size[1]
        /\ Min({1, TopHeight(v)}) \in Nat /\ Min({1, TopHeight(v)}) <= TopHeight(v)
    BY <1>2, <1>3, Lesser
  <2> QED  BY <1>2, <1>3, <2>1
<1>6. TermArea(v) = <<Sub(c, 2), Sub(r, 2)>>
  BY DEF TermArea
<1> HIDE DEF c, r
<1> QED  BY <1>4, <1>5, <1>6, Subs DEF Sizes

LEMMA SizeIsOne ==
  ASSUME NEW size \in Sizes
  PROVE  size # NotObserved
BY DEF Sizes, NotObserved

LEMMA LeastSize ==
  ASSUME NEW S \in SUBSET Nat, S # {}
  PROVE  Max({1, Min(S)}) \in Nat
<1>1. PICK n \in S : \A m \in S : n <= m
  BY Removal!Least
<1>2. Min(S) \in Nat
  BY <1>1 DEF Min
<1> QED  BY <1>2, Greater

LEMMA SmallestSize ==
  ASSUME NEW v \in Views, NEW viewers \in Viewers
  PROVE  Smallest(v, viewers) \in Sizes
<1>1. PICK T \in SUBSET Attachments : viewers \in [T -> Nat \X Nat]
  BY DEF Viewers, Sizes
<1>2. CASE T = {}
  BY <1>1, <1>2 DEF Smallest, Views
<1>3. CASE T # {}
  <2>1. {viewers[a][1] : a \in DOMAIN viewers} \in SUBSET Nat /\ {viewers[a][1] : a \in DOMAIN viewers} # {}
    BY <1>1, <1>3
  <2>2. {viewers[a][2] : a \in DOMAIN viewers} \in SUBSET Nat /\ {viewers[a][2] : a \in DOMAIN viewers} # {}
    BY <1>1, <1>3
  <2>3. Smallest(v, viewers) = <<Max({1, Min({viewers[a][1] : a \in DOMAIN viewers})}),
                                 Max({1, Min({viewers[a][2] : a \in DOMAIN viewers})})>>
    BY <1>1, <1>3 DEF Smallest
  <2>4. Max({1, Min({viewers[a][1] : a \in DOMAIN viewers})}) \in Nat
    BY <2>1, LeastSize
  <2>5. Max({1, Min({viewers[a][2] : a \in DOMAIN viewers})}) \in Nat
    BY <2>2, LeastSize
  <2> QED  BY <2>3, <2>4, <2>5 DEF Sizes
<1> QED  BY <1>2, <1>3

LEMMA ViewerSets ==
  ASSUME NEW viewers \in Viewers, NEW a \in Attachments, NEW size \in Sizes
  PROVE  /\ With(viewers, a, size) \in Viewers
         /\ [b \in DOMAIN viewers \ {a} |-> viewers[b]] \in Viewers
         /\ [b \in DOMAIN viewers |-> IF b = a THEN size ELSE viewers[b]] \in Viewers
<1>1. PICK T \in SUBSET Attachments : viewers \in [T -> Sizes]
  BY DEF Viewers
<1>2. With(viewers, a, size) \in [T \cup {a} -> Sizes] /\ T \cup {a} \in SUBSET Attachments
  BY <1>1 DEF With
<1>3. [b \in DOMAIN viewers \ {a} |-> viewers[b]] \in [T \ {a} -> Sizes] /\ T \ {a} \in SUBSET Attachments
  BY <1>1
<1>4. [b \in DOMAIN viewers |-> IF b = a THEN size ELSE viewers[b]] \in [T -> Sizes]
  BY <1>1
<1> QED  BY <1>1, <1>2, <1>3, <1>4 DEF Viewers

-----------------------------------------------------------------------------
(* Notes.                                                                    *)
\* A note that is added is the last of its task, and of no other.
LEMMA NoteAdded ==
  ASSUME NEW t \in Rows, NEW n \in Seq(Notes), NEW misled, NEW nt \in Notes, ~nt.stale
  PROVE  /\ Append(n, nt) \in Seq(Notes)
         /\ \A c : t.id = nt.id /\ (nt.on <=> t.id \in c) => Fits(t, Append(n, nt), misled, c)
         /\ \A c : t.id # nt.id /\ Fits(t, n, misled, c) => Fits(t, Append(n, nt), misled, c)
<1> DEFINE m == Append(n, nt)
<1>2. /\ m \in Seq(Notes) /\ Len(n) \in Nat /\ Len(m) = Len(n) + 1 /\ m[Len(n) + 1] = nt
      /\ \A k \in 1..Len(n) : m[k] = n[k]
  OBVIOUS
<1> HIDE DEF m
<1>3. ASSUME NEW c, t.id = nt.id, nt.on <=> t.id \in c PROVE Fits(t, m, misled, c)
  <2>1. ASSUME NEW k \in 1..Len(m), m[k].id = t.id, \A j \in k + 1..Len(m) : m[j].id # t.id
        PROVE  m[k].on <=> t.id \in c
    <3>1. k = Len(n) + 1
      <4>1. ASSUME k # Len(n) + 1 PROVE FALSE
        <5>1. Len(n) + 1 \in k + 1..Len(m)
          BY <1>2, <4>1
        <5> QED  BY <1>2, <1>3, <2>1, <5>1
      <4> QED  BY <4>1
    <3> QED  BY <1>2, <1>3, <3>1
  <2>2. Len(n) + 1 \in 1..Len(m) /\ m[Len(n) + 1].id = t.id
    BY <1>2, <1>3
  <2> QED  BY <2>1, <2>2 DEF Fits
<1>4. ASSUME NEW c, t.id # nt.id, Fits(t, n, misled, c) PROVE Fits(t, m, misled, c)
  <2>1. ASSUME NEW k \in 1..Len(m), m[k].id = t.id, \A j \in k + 1..Len(m) : m[j].id # t.id,
               ~(m[k].stale /\ m[k].on)
        PROVE  m[k].on <=> t.id \in c
    <3>1. k \in 1..Len(n)
      <4>1. k # Len(n) + 1
        BY <1>2, <1>4, <2>1
      <4> QED  BY <1>2, <4>1
    <3>2. m[k] = n[k] /\ \A j \in k + 1..Len(n) : n[j].id # t.id
      <4>1. ASSUME NEW j \in k + 1..Len(n) PROVE n[j].id # t.id
        <5>1. j \in k + 1..Len(m) /\ j \in 1..Len(n)
          BY <1>2, <3>1
        <5> QED  BY <1>2, <2>1, <5>1
      <4> QED  BY <1>2, <3>1, <4>1
    <3> QED  BY <1>4, <2>1, <3>1, <3>2 DEF Fits
  <2>2. ASSUME \A k \in 1..Len(m) : m[k].id # t.id, t.id \notin misled PROVE t.surface <=> t.id \in c
    <3>1. \A k \in 1..Len(n) : n[k].id # t.id
      BY <1>2, <2>2
    <3> QED  BY <1>4, <2>2, <3>1 DEF Fits
  <2> QED  BY <2>1, <2>2 DEF Fits
<1> QED  BY <1>2, <1>3, <1>4 DEF m

\* A note that is heard is forgotten; its task's row then shows it.
LEMMA NoteHeard ==
  ASSUME NEW t \in Rows, NEW u \in Rows, NEW n \in Seq(Notes), n # <<>>, NEW misled, NEW c,
         Fits(t, n, misled, c), u.id = t.id,
         t.id = Head(n).id => u.surface = Head(n).on, t.id # Head(n).id => u.surface = t.surface,
         NEW lost, lost = IF Head(n).stale /\ Head(n).on THEN misled \cup {Head(n).id} ELSE misled \ {Head(n).id}
  PROVE  Fits(u, Tail(n), lost, c)
<1> DEFINE m == Tail(n)
<1>1. /\ Len(n) \in Nat /\ Len(n) >= 1 /\ m \in Seq(Notes) /\ Len(m) = Len(n) - 1 /\ Head(n) = n[1]
      /\ \A k \in 1..Len(m) : m[k] = n[k + 1]
  OBVIOUS
<1> HIDE DEF m
<1>2. ASSUME NEW k \in 1..Len(m), m[k].id = u.id, \A j \in k + 1..Len(m) : m[j].id # u.id,
             ~(m[k].stale /\ m[k].on)
      PROVE  m[k].on <=> u.id \in c
  <2>1. k + 1 \in 1..Len(n) /\ m[k] = n[k + 1]
    BY <1>1
  <2>2. ASSUME NEW j \in (k + 1) + 1..Len(n) PROVE n[j].id # t.id
    <3>1. j - 1 \in k + 1..Len(m) /\ j - 1 \in 1..Len(m) /\ m[j - 1] = n[(j - 1) + 1] /\ (j - 1) + 1 = j
      BY <1>1
    <3> QED  BY <1>2, <3>1
  <2> QED  BY <1>2, <2>1, <2>2 DEF Fits
<1>3. ASSUME \A k \in 1..Len(m) : m[k].id # u.id, u.id \notin lost PROVE u.surface <=> u.id \in c
  <2>1. \A j \in 2..Len(n) : n[j].id # t.id
    <3>1. TAKE j \in 2..Len(n)
    <3>2. j - 1 \in 1..Len(m) /\ m[j - 1] = n[(j - 1) + 1] /\ (j - 1) + 1 = j
      BY <1>1
    <3> QED  BY <1>3, <3>2
  <2>2. CASE t.id = n[1].id
    <3>1. ~(n[1].stale /\ n[1].on) /\ u.surface = n[1].on
      BY <1>1, <1>3, <2>2
    <3>2. 1 \in 1..Len(n) /\ 1 + 1 = 2
      BY <1>1
    <3> QED  BY <2>1, <2>2, <3>1, <3>2 DEF Fits
  <2>3. CASE t.id # n[1].id
    <3>1. \A k \in 1..Len(n) : n[k].id # t.id
      BY <1>1, <2>1, <2>3
    <3>2. t.id \notin misled /\ u.surface = t.surface
      BY <1>1, <1>3, <2>3
    <3> QED  BY <3>1, <3>2 DEF Fits
  <2> QED  BY <2>2, <2>3
<1> QED  BY <1>2, <1>3 DEF Fits, m

-----------------------------------------------------------------------------
(* Observing the tasks, and no longer.                                       *)
Enters(id) == [id |-> id, on |-> TRUE, stale |-> FALSE]
LEMMA ObserveIs ==
  ASSUME NEW y, Whole(y), NEW id \in Ids
  PROVE  LET z == Observe(y, id)
         IN  /\ Whole(z) /\ z.v = y.v /\ SameOutside(y.o, z.o) /\ z.o.copying = y.o.copying
             /\ \A i \in Ids : z.o.watched[i] = IF i = id /\ id \in Alive(y.o) THEN TermArea(y.v) ELSE y.o.watched[i]
             /\ z.n = IF id \in Alive(y.o) /\ id \in y.o.copying THEN Append(y.n, Enters(id)) ELSE y.n
<1> DEFINE z == Observe(y, id)
<1>1. y.v \in Views /\ y.o \in Outsides /\ y.n \in Seq(Notes) /\ TermArea(y.v) \in Sizes
      /\ y = [v |-> y.v, o |-> y.o, n |-> y.n, a |-> y.a]
  BY Areas DEF Whole
<1>2. CASE id \notin Alive(y.o)
  <2>1. z = y
    BY <1>2 DEF Observe
  <2> HIDE DEF z
  <2> QED  BY <1>2, <2>1 DEF SameOutside, z
<1>3. CASE id \in Alive(y.o)
  <2> DEFINE o == [y.o EXCEPT !.watched[id] = TermArea(y.v)]
             n == IF id \in y.o.copying THEN Append(y.n, Enters(id)) ELSE y.n
  <2>1. Tell(y, id, TermArea(y.v)) = [v |-> y.v, o |-> o, n |-> y.n, a |-> y.a]
    BY <1>1 DEF Tell
  <2>2. z = [v |-> y.v, o |-> o, n |-> n, a |-> y.a]
    <3> DEFINE T == Tell(y, id, TermArea(y.v))
    <3>1. z = [T EXCEPT !.n = IF id \in y.o.copying THEN Append(@, Enters(id)) ELSE @]
      BY <1>3 DEF Observe, Note, Enters
    <3> HIDE DEF z, o, T
    <3>2. T = [v |-> y.v, o |-> o, n |-> y.n, a |-> y.a]
      BY <2>1 DEF T
    <3> QED  BY <3>1, <3>2
  <2>3. o \in Outsides /\ o.tasks = y.o.tasks /\ o.coming = y.o.coming /\ o.attached = y.o.attached
        /\ o.copying = y.o.copying
        /\ \A i \in Ids : o.watched[i] = IF i = id THEN TermArea(y.v) ELSE y.o.watched[i]
    BY <1>1 DEF Outsides
  <2>4. n \in Seq(Notes)
    <3>1. Enters(id) \in Notes
      BY DEF Enters, Notes
    <3> QED  BY <1>1, <3>1
  <2> HIDE DEF z, o
  <2>5. z.v = y.v /\ z.o = o /\ z.n = n /\ z.a = y.a
    BY <2>2
  <2>6. Whole(z)
    BY <1>1, <2>2, <2>3, <2>4, <2>5 DEF Whole
  <2> QED  BY <1>3, <2>3, <2>5, <2>6 DEF SameOutside, z
<1> QED  BY <1>2, <1>3

ObserveStep(p, y, t) == Observe(y, t.id)
ObserveKept(p, k, y) ==
  /\ Whole(y) /\ y.v = p.x.v /\ SameOutside(p.x.o, y.o) /\ y.o.copying = p.x.o.copying
  /\ \A id \in Ids : y.o.watched[id] =
       IF id \in Alive(p.x.o) /\ \E i \in 1..k : p.x.v.tasks[i].id = id THEN TermArea(p.x.v)
       ELSE p.x.o.watched[id]
  /\ NotesOf(p.x, y)
  /\ \A i \in 1..Len(p.x.v.tasks) :
       p.x.v.tasks[i].id \in Alive(p.x.o) =>
         \/ Fits(p.x.v.tasks[i], y.n, p.x.v.misled, p.x.o.copying)
         \/ i > k /\ Fits(p.x.v.tasks[i], y.n, p.x.v.misled, {})
Observing == INSTANCE Folding WITH Step <- ObserveStep, Keeps <- ObserveKept

LEMMA ObservingFolds ==
  ASSUME NEW x, NEW p
  PROVE  ObserveAll(x) = Observing!Folded(p, x, x.v.tasks)
BY DEF ObserveAll, ObserveStep, Observing!Folded, FoldLeft, MapThenFoldSet, Observing!FoldLeft,
       Observing!MapThenFoldSet, Max, Observing!Max

LEMMA ObservedOneMore ==
  ASSUME NEW x, Whole(x), NEW p, p.x = x, NEW k \in 1..Len(x.v.tasks), NEW y, ObserveKept(p, k - 1, y)
  PROVE  ObserveKept(p, k, Observe(y, x.v.tasks[k].id))
<1> DEFINE id == x.v.tasks[k].id
           z == Observe(y, id)
<1>1. x.v.tasks \in Seq(Rows) /\ x.v.tasks[k] \in Rows /\ id \in Ids /\ Len(x.v.tasks) \in Nat
  <2>1. x.v.tasks \in Seq(Rows)
    BY DEF Whole, Views
  <2>2. x.v.tasks[k] \in Rows /\ Len(x.v.tasks) \in Nat
    BY <2>1
  <2> QED  BY <2>1, <2>2 DEF Rows
<1>2. /\ Whole(y) /\ y.v = x.v /\ SameOutside(x.o, y.o) /\ y.o.copying = x.o.copying
      /\ \A i \in Ids : y.o.watched[i] =
           IF i \in Alive(x.o) /\ \E j \in 1..(k - 1) : x.v.tasks[j].id = i THEN TermArea(x.v)
           ELSE x.o.watched[i]
      /\ NotesOf(x, y)
      /\ \A i \in 1..Len(x.v.tasks) :
           x.v.tasks[i].id \in Alive(x.o) =>
             \/ Fits(x.v.tasks[i], y.n, x.v.misled, x.o.copying)
             \/ i > k - 1 /\ Fits(x.v.tasks[i], y.n, x.v.misled, {})
  BY DEF ObserveKept
<1>3. Alive(y.o) = Alive(x.o) /\ y.n \in Seq(Notes)
  BY <1>2 DEF SameOutside, Alive, Whole
<1> HIDE DEF id, z
<1>4. /\ Whole(z) /\ z.v = x.v /\ SameOutside(y.o, z.o) /\ z.o.copying = x.o.copying
      /\ \A i \in Ids : z.o.watched[i] = IF i = id /\ id \in Alive(x.o) THEN TermArea(x.v) ELSE y.o.watched[i]
      /\ z.n = IF id \in Alive(x.o) /\ id \in x.o.copying THEN Append(y.n, Enters(id)) ELSE y.n
  <2>1. /\ Whole(z) /\ z.v = y.v /\ SameOutside(y.o, z.o) /\ z.o.copying = y.o.copying
        /\ \A i \in Ids : z.o.watched[i] = IF i = id /\ id \in Alive(y.o) THEN TermArea(y.v) ELSE y.o.watched[i]
        /\ z.n = IF id \in Alive(y.o) /\ id \in y.o.copying THEN Append(y.n, Enters(id)) ELSE y.n
    BY <1>1, <1>2, ObserveIs DEF z
  <2> QED  BY <1>2, <1>3, <2>1
<1>5. SameOutside(x.o, z.o)
  BY <1>2, <1>4 DEF SameOutside
<1>6. ASSUME NEW i \in Ids
      PROVE  z.o.watched[i] =
               IF i \in Alive(x.o) /\ \E j \in 1..k : x.v.tasks[j].id = i THEN TermArea(x.v) ELSE x.o.watched[i]
  <2>1. CASE i = id
    <3>1. \E j \in 1..k : x.v.tasks[j].id = i
      BY <2>1 DEF id
    <3>2. CASE i \in Alive(x.o)
      BY <1>4, <2>1, <3>1, <3>2
    <3>3. CASE i \notin Alive(x.o)
      BY <1>2, <1>4, <2>1, <3>3
    <3> QED  BY <3>2, <3>3
  <2>2. CASE i # id
    <3>1. (\E j \in 1..k : x.v.tasks[j].id = i) <=> \E j \in 1..(k - 1) : x.v.tasks[j].id = i
      <4>1. ASSUME NEW j \in 1..k, x.v.tasks[j].id = i PROVE j \in 1..(k - 1)
        BY <1>1, <2>2, <4>1 DEF id
      <4>2. \A j \in 1..(k - 1) : j \in 1..k
        BY <1>1
      <4> QED  BY <4>1, <4>2
    <3>2. z.o.watched[i] = y.o.watched[i]
      BY <1>4, <2>2
    <3> QED  BY <1>2, <3>1, <3>2
  <2> QED  BY <2>1, <2>2
<1>7. NotesOf(x, z)
  <2>1. CASE z.n = y.n
    BY <1>2, <2>1 DEF NotesOf
  <2>2. CASE z.n = Append(y.n, Enters(id))
    <3>1. Enters(id) \in Notes /\ Enters(id).id = id
      BY <1>1 DEF Enters, Notes
    <3>2. id \in Shown(x.v)
      BY <1>1 DEF Shown, id
    <3> QED  BY <1>2, <1>3, <2>2, <3>1, <3>2 DEF NotesOf
  <2> QED  BY <1>4, <2>1, <2>2
<1>8. ASSUME NEW i \in 1..Len(x.v.tasks), x.v.tasks[i].id \in Alive(x.o)
      PROVE  \/ Fits(x.v.tasks[i], z.n, x.v.misled, x.o.copying)
             \/ i > k /\ Fits(x.v.tasks[i], z.n, x.v.misled, {})
  <2> DEFINE t == x.v.tasks[i]
  <2>1. t \in Rows
    BY <1>1
  <2>2. \/ Fits(t, y.n, x.v.misled, x.o.copying)
        \/ i > k - 1 /\ Fits(t, y.n, x.v.misled, {})
    BY <1>2, <1>8
  <2>3. i = k => t.id = id
    BY DEF id
  <2> HIDE DEF t
  <2>4. CASE id \in Alive(x.o) /\ id \in x.o.copying
    <3>1. z.n = Append(y.n, Enters(id))
      BY <1>4, <2>4
    <3>0. Enters(id) \in Notes /\ Enters(id).id = id /\ Enters(id).on /\ ~Enters(id).stale
      BY <1>1 DEF Enters, Notes
    <3>2. CASE t.id = id
      <4>1. Fits(t, z.n, x.v.misled, x.o.copying)
        BY <1>3, <2>1, <2>4, <3>0, <3>1, <3>2, NoteAdded
      <4> QED  BY <4>1 DEF t
    <3>3. CASE t.id # id
      <4>1. \A c : Fits(t, y.n, x.v.misled, c) => Fits(t, z.n, x.v.misled, c)
        BY <1>3, <2>1, <3>0, <3>1, <3>3, NoteAdded
      <4>2. i > k - 1 => i > k
        BY <1>1, <2>3, <3>3
      <4> QED  BY <2>2, <4>1, <4>2 DEF t
    <3> QED  BY <3>2, <3>3
  <2>5. CASE ~(id \in Alive(x.o) /\ id \in x.o.copying)
    <3>1. z.n = y.n
      BY <1>4, <2>5
    <3>2. CASE i = k
      <4>1. t.id \notin x.o.copying
        BY <1>8, <2>3, <2>5, <3>2 DEF t
      <4>2. Fits(t, y.n, x.v.misled, {}) => Fits(t, y.n, x.v.misled, x.o.copying)
        BY <4>1 DEF Fits
      <4> QED  BY <2>2, <3>1, <4>2 DEF t
    <3>3. CASE i # k
      <4>1. i > k - 1 => i > k
        BY <1>1, <3>3
      <4> QED  BY <2>2, <3>1, <4>1 DEF t
    <3> QED  BY <3>2, <3>3
  <2> QED  BY <2>4, <2>5
<1> QED  BY <1>4, <1>5, <1>6, <1>7, <1>8 DEF ObserveKept, z, id

\* When somebody comes, everything that is shown is observed.
LEMMA ObservingAll ==
  ASSUME NEW x, Whole(x), HasViewers(x.v),
         \A id \in Ids : x.o.watched[id] = NotObserved,
         \A i \in 1..Len(x.v.tasks) :
           x.v.tasks[i].id \in Alive(x.o) => Fits(x.v.tasks[i], x.n, x.v.misled, {})
  PROVE  LET y == ObserveAll(x)
         IN  /\ Sound(y) /\ y.v = x.v /\ SameOutside(x.o, y.o) /\ NotesOf(x, y)
             /\ \A id \in Ids : y.o.watched[id] \in {TermArea(x.v), NotObserved}
<1> DEFINE p == [x |-> x]
           n == Len(x.v.tasks)
           y == ObserveAll(x)
<1>1. p.x = x /\ x.v.tasks \in Seq(Rows)
  BY DEF Whole, Views
<1>2. n \in Nat /\ DOMAIN x.v.tasks = 1..n
  BY <1>1
<1> HIDE DEF p, n, y
<1>3. ObserveKept(p, 0, x)
  <2>1. NotesOf(x, x)
    BY DEF NotesOf, Whole
  <2>2. \A i \in 1..Len(x.v.tasks) : i > 0
    BY <1>2 DEF n
  <2> QED  BY <1>1, <2>1, <2>2 DEF ObserveKept, SameOutside
<1>4. ASSUME NEW k \in 1..n, NEW z, ObserveKept(p, k - 1, z)
      PROVE  ObserveKept(p, k, ObserveStep(p, z, x.v.tasks[k]))
  BY <1>1, <1>4, ObservedOneMore DEF ObserveStep, n
<1>5. y = Observing!Folded(p, x, x.v.tasks)
  BY ObservingFolds DEF y
<1>6. ObserveKept(p, n, Observing!Folded(p, x, x.v.tasks))
  BY ONLY <1>2, <1>3, <1>4, Observing!FoldKeeps
<1>7. /\ Whole(y) /\ y.v = x.v /\ SameOutside(x.o, y.o) /\ y.o.copying = x.o.copying
      /\ \A id \in Ids : y.o.watched[id] =
           IF id \in Alive(x.o) /\ \E i \in 1..n : x.v.tasks[i].id = id THEN TermArea(x.v) ELSE NotObserved
      /\ NotesOf(x, y)
      /\ \A i \in 1..n :
           x.v.tasks[i].id \in Alive(x.o) =>
             Fits(x.v.tasks[i], y.n, x.v.misled, x.o.copying)
  BY <1>1, <1>2, <1>5, <1>6 DEF ObserveKept, n
<1>8. Alive(y.o) = Alive(x.o) /\ \A id : id \in Shown(x.v) <=> \E i \in 1..n : x.v.tasks[i].id = id
  BY <1>2, <1>7 DEF Alive, SameOutside, Shown
<1>9. TermArea(x.v) # NotObserved
  BY Areas, SizeIsOne DEF Whole
<1>10. Watching(y)
  BY <1>7, <1>8, <1>9 DEF Watching
<1>11. Copied(y)
  BY <1>7, <1>8 DEF Copied, n, InCopyMode
<1>12. \A id \in Ids : y.o.watched[id] \in {TermArea(x.v), NotObserved}
  BY <1>7
<1> QED  BY <1>7, <1>10, <1>11, <1>12 DEF Sound, y

-----------------------------------------------------------------------------
(* Attachments come, go and change size.                                     *)
\* As Quiet, but that tasks may be observed at the size there is in the end.
Loud(x, y) ==
  /\ SameRows(x.v, y.v) /\ SameOutside(x.o, y.o) /\ SameTurn(x.v, y.v) /\ NotesOf(x, y)
  /\ \A id \in Ids : y.o.watched[id] \in {x.o.watched[id], NotObserved, TermArea(y.v)}

LEMMA QuietIsLoud ==
  ASSUME NEW x, NEW y, Quiet(x, y)
  PROVE  Loud(x, y)
<1>1. ASSUME NEW id \in Ids PROVE y.o.watched[id] \in {x.o.watched[id], NotObserved, TermArea(y.v)}
  <2>1. y.o.watched[id] \in {x.o.watched[id], NotObserved}
    BY DEF Quiet
  <2> QED  BY <2>1
<1> QED  BY <1>1 DEF Quiet, Loud

\* When the last one goes, nothing is observed and no copy is shown.
LEMMA Unobserving ==
  ASSUME NEW x, Whole(x), ~HasViewers(x.v),
         \A id \in Ids : x.o.watched[id] # NotObserved => id \in Shown(x.v)
  PROVE  LET y == UnobserveAll(x)
         IN  Sound(y) /\ Quiet(x, y) /\ y.v.viewers = x.v.viewers
<1> DEFINE y == UnobserveAll(x)
           rows == [i \in DOMAIN x.v.tasks |-> [x.v.tasks[i] EXCEPT !.surface = FALSE]]
           n == [i \in DOMAIN x.n |-> [x.n[i] EXCEPT !.stale = TRUE]]
           watched == [id \in DOMAIN x.o.watched |-> IF id \in Shown(x.v) THEN NotObserved ELSE x.o.watched[id]]
           v == [[x.v EXCEPT !.tasks = rows] EXCEPT !.misled = {}]
           o == [x.o EXCEPT !.watched = watched]
<1>1. x.v \in Views /\ x.o \in Outsides /\ x.n \in Seq(Notes) /\ x = [v |-> x.v, o |-> x.o, n |-> x.n, a |-> x.a]
  BY DEF Whole
<1>2. x.v.tasks \in Seq(Rows) /\ x.o.watched \in [Ids -> Sizes \cup {NotObserved}]
  BY <1>1 DEF Views, Outsides
<1>3. /\ rows \in Seq(Rows) /\ Len(rows) = Len(x.v.tasks)
      /\ \A i \in 1..Len(rows) : rows[i].id = x.v.tasks[i].id /\ rows[i].up = x.v.tasks[i].up /\ ~rows[i].surface
  <2> DEFINE l == Len(x.v.tasks)
  <2>1. l \in Nat /\ DOMAIN x.v.tasks = 1..l /\ \A i \in 1..l : x.v.tasks[i] \in Rows
    BY <1>2
  <2> HIDE DEF l
  <2>2. ASSUME NEW t \in Rows
        PROVE  LET u == [t EXCEPT !.surface = FALSE] IN u \in Rows /\ u.id = t.id /\ u.up = t.up /\ ~u.surface
    BY DEF Rows
  <2>3. rows = [i \in 1..l |-> [x.v.tasks[i] EXCEPT !.surface = FALSE]]
    BY <2>1
  <2>4. \A i \in 1..l : /\ rows[i] \in Rows /\ rows[i].id = x.v.tasks[i].id
                        /\ rows[i].up = x.v.tasks[i].up /\ ~rows[i].surface
    BY <2>1, <2>2, <2>3
  <2>5. DOMAIN rows = 1..l /\ rows = [i \in 1..l |-> rows[i]]
    BY <2>3
  <2> HIDE DEF rows
  <2>6. rows \in Seq(Rows) /\ Len(rows) = l
    BY <2>1, <2>4, <2>5
  <2> QED  BY <2>4, <2>6 DEF l
<1>4. /\ n \in Seq(Notes) /\ Len(n) = Len(x.n)
      /\ \A i \in 1..Len(n) : n[i].id = x.n[i].id /\ n[i].on = x.n[i].on /\ n[i].stale
  <2> DEFINE l == Len(x.n)
  <2>1. l \in Nat /\ DOMAIN x.n = 1..l /\ \A i \in 1..l : x.n[i] \in Notes
    BY <1>1
  <2> HIDE DEF l
  <2>2. ASSUME NEW t \in Notes
        PROVE  LET u == [t EXCEPT !.stale = TRUE] IN u \in Notes /\ u.id = t.id /\ u.on = t.on /\ u.stale
    BY DEF Notes
  <2>3. n = [i \in 1..l |-> [x.n[i] EXCEPT !.stale = TRUE]]
    BY <2>1
  <2>4. \A i \in 1..l : n[i] \in Notes /\ n[i].id = x.n[i].id /\ n[i].on = x.n[i].on /\ n[i].stale
    BY <2>1, <2>2, <2>3
  <2>5. DOMAIN n = 1..l /\ n = [i \in 1..l |-> n[i]]
    BY <2>3
  <2> HIDE DEF n
  <2>6. n \in Seq(Notes) /\ Len(n) = l
    BY <2>1, <2>4, <2>5
  <2> QED  BY <2>4, <2>6 DEF l
<1>5. /\ watched \in [Ids -> Sizes \cup {NotObserved}]
      /\ \A id \in Ids : watched[id] = NotObserved
  <2>1. \A id \in Ids : watched[id] = NotObserved
    BY <1>2
  <2> QED  BY <1>2, <2>1
<1> HIDE DEF rows, n, watched
<1>6. /\ v \in Views /\ v.tasks = rows /\ v.misled = {} /\ v.viewers = x.v.viewers /\ SameTurn(x.v, v)
  BY <1>1, <1>3 DEF Views, SameTurn
<1>7. o \in Outsides /\ SameOutside(x.o, o) /\ o.watched = watched
  BY <1>1, <1>5 DEF Outsides, SameOutside
<1>8. y = [v |-> v, o |-> o, n |-> n, a |-> x.a]
  <2>1. y = [x EXCEPT !.v.tasks = rows, !.v.misled = {}, !.n = n, !.o.watched = watched]
    BY DEF UnobserveAll, rows, n, watched
  <2> HIDE DEF y
  <2> QED  BY <1>1, <2>1
<1> HIDE DEF v, o, y
<1>9. y.v = v /\ y.o = o /\ y.n = n /\ Whole(y)
  BY <1>4, <1>6, <1>7, <1>8 DEF Whole
<1>10. ~HasViewers(y.v)
  BY <1>6, <1>9 DEF HasViewers
<1>11. Watching(y)
  BY <1>5, <1>7, <1>9, <1>10 DEF Watching
<1>12. Copied(y)
  <2>1. \A i \in 1..Len(rows) : Fits(rows[i], n, {}, {})
    BY <1>3, <1>4 DEF Fits
  <2> QED  BY <1>6, <1>9, <1>10, <2>1 DEF Copied, InCopyMode
<1>13. SameRows(x.v, y.v) /\ SameTurn(x.v, y.v) /\ SameOutside(x.o, y.o)
  BY <1>3, <1>6, <1>7, <1>9 DEF SameRows
<1>14. NotesOf(x, y)
  <2>1. \A k \in 1..Len(n) : k \in 1..Len(x.n) /\ x.n[k].id = n[k].id
    BY <1>4
  <2> QED  BY <1>9, <2>1 DEF NotesOf
<1>15. \A id \in Ids : y.o.watched[id] \in {x.o.watched[id], NotObserved}
  BY <1>5, <1>7, <1>9
<1> QED  BY <1>6, <1>9, <1>11, <1>12, <1>13, <1>14, <1>15 DEF Sound, Quiet, y

LEMMA Viewing ==
  ASSUME NEW x, Sound(x), NEW viewers \in Viewers
  PROVE  LET y == WithViewers(x, viewers)
         IN  /\ Sound(y) /\ Loud(x, y)
             /\ HasViewers(x.v) \/ DOMAIN viewers = {} => Quiet(x, y)
<1> DEFINE z == [x EXCEPT !.v.viewers = viewers, !.v.size = Smallest(x.v, viewers)]
           v == [[x.v EXCEPT !.viewers = viewers] EXCEPT !.size = Smallest(x.v, viewers)]
           y == WithViewers(x, viewers)
<1>1. x.v \in Views /\ x.o \in Outsides /\ x.n \in Seq(Notes) /\ x = [v |-> x.v, o |-> x.o, n |-> x.n, a |-> x.a]
  BY DEF Sound, Whole
<1>2. Smallest(x.v, viewers) \in Sizes
  BY <1>1, SmallestSize
<1>3. /\ v \in Views /\ v.viewers = viewers /\ v.tasks = x.v.tasks /\ v.misled = x.v.misled /\ SameTurn(x.v, v)
  BY <1>1, <1>2 DEF Views, SameTurn
<1> HIDE DEF v
<1>4. z = [v |-> v, o |-> x.o, n |-> x.n, a |-> x.a]
  <2> DEFINE s == Smallest(x.v, viewers)
  <2>1. z = [x EXCEPT !.v.viewers = viewers, !.v.size = s]
    OBVIOUS
  <2>2. v = [[x.v EXCEPT !.viewers = viewers] EXCEPT !.size = s]
    BY DEF v
  <2> HIDE DEF z, s
  <2>3. [x EXCEPT !.v.viewers = viewers] = [v |-> [x.v EXCEPT !.viewers = viewers], o |-> x.o, n |-> x.n, a |-> x.a]
    BY <1>1
  <2>4. z = [[x EXCEPT !.v.viewers = viewers] EXCEPT !.v.size = s]
    BY <2>1
  <2> DEFINE w == [x EXCEPT !.v.viewers = viewers]
  <2>5. z = [w EXCEPT !.v.size = s]
    BY <2>4
  <2> HIDE DEF w
  <2>6. w = [v |-> [x.v EXCEPT !.viewers = viewers], o |-> x.o, n |-> x.n, a |-> x.a]
    BY <2>3 DEF w
  <2> QED  BY <2>2, <2>5, <2>6
<1> HIDE DEF z
<1>5. z.v = v /\ z.o = x.o /\ z.n = x.n /\ Whole(z)
  BY <1>1, <1>3, <1>4 DEF Whole
<1>6. /\ Shown(z.v) = Shown(x.v) /\ (HasViewers(z.v) <=> DOMAIN viewers # {})
      /\ SameRows(x.v, z.v) /\ SameOutside(x.o, z.o) /\ NotesOf(x, z) /\ SameTurn(x.v, z.v)
      /\ \A id \in Ids : z.o.watched[id] = x.o.watched[id]
  BY <1>1, <1>3, <1>5 DEF Shown, HasViewers, SameRows, SameOutside, NotesOf
<1>7. Quiet(x, z)
  BY <1>6 DEF Quiet
<1>8. y = IF ~HasViewers(x.v) /\ HasViewers(z.v) THEN ObserveAll(z)
          ELSE IF HasViewers(x.v) /\ ~HasViewers(z.v) THEN UnobserveAll(z) ELSE z
  BY DEF WithViewers, ApplyScreen, z
<1> HIDE DEF y
<1>9. CASE ~HasViewers(x.v) /\ HasViewers(z.v)
  <2>1. \A id \in Ids : z.o.watched[id] = NotObserved
    BY <1>6, <1>9 DEF Sound, Watching
  <2>2. \A i \in 1..Len(z.v.tasks) :
          z.v.tasks[i].id \in Alive(z.o) => Fits(z.v.tasks[i], z.n, z.v.misled, {})
    BY <1>3, <1>5, <1>9 DEF Sound, Copied, InCopyMode
  <2>3. y = ObserveAll(z)
    BY <1>8, <1>9
  <2>4. /\ Sound(y) /\ y.v = z.v /\ SameOutside(z.o, y.o) /\ NotesOf(z, y)
        /\ \A id \in Ids : y.o.watched[id] \in {TermArea(z.v), NotObserved}
    BY <1>5, <1>9, <2>1, <2>2, <2>3, ObservingAll
  <2>5. NotesOf(x, y)
    BY <1>5, <1>6, <2>4 DEF NotesOf
  <2>6. SameOutside(x.o, y.o)
    BY <1>6, <2>4 DEF SameOutside
  <2>7. Loud(x, y)
    BY <1>6, <2>4, <2>5, <2>6 DEF Loud
  <2> QED  BY <1>6, <1>9, <2>4, <2>7 DEF y
<1>10. CASE HasViewers(x.v) /\ ~HasViewers(z.v)
  <2>1. \A id \in Ids : z.o.watched[id] # NotObserved => id \in Shown(z.v)
    BY <1>6 DEF Sound, Watching
  <2>2. y = UnobserveAll(z)
    BY <1>8, <1>10
  <2>3. Sound(y) /\ Quiet(z, y)
    BY <1>5, <1>10, <2>1, <2>2, Unobserving
  <2>4. Whole(x) /\ Whole(y)
    BY <2>3 DEF Sound
  <2>5. Quiet(x, y)
    BY ONLY <1>5, <1>7, <2>3, <2>4, QuietTwice
  <2> QED  BY <2>3, <2>5, QuietIsLoud DEF y
<1>11. CASE HasViewers(x.v) <=> HasViewers(z.v)
  <2>1. y = z
    BY <1>8, <1>11
  <2>2. Watching(z)
    BY <1>5, <1>6, <1>11 DEF Sound, Watching
  <2>3. Copied(z)
    BY <1>3, <1>5, <1>11 DEF Sound, Copied, InCopyMode
  <2> QED  BY <1>5, <1>7, <2>1, <2>2, <2>3, QuietIsLoud DEF Sound, y
<1> QED  BY <1>9, <1>10, <1>11

LEMMA Detaching ==
  ASSUME NEW x, Sound(x), NEW who \in Attachments
  PROVE  Sound(Detach(x, who)) /\ Quiet(x, Detach(x, who))
<1> DEFINE viewers == [a \in DOMAIN x.v.viewers \ {who} |-> x.v.viewers[a]]
<1>1. x.v.viewers \in Viewers
  BY DEF Sound, Whole, Views
<1>2. viewers \in Viewers
  <2>1. PICK T \in SUBSET Attachments : x.v.viewers \in [T -> Sizes]
    BY <1>1 DEF Viewers
  <2>2. viewers \in [T \ {who} -> Sizes] /\ T \ {who} \in SUBSET Attachments
    BY <2>1
  <2> HIDE DEF viewers
  <2> QED  BY <2>2 DEF Viewers
<1>3. HasViewers(x.v) \/ DOMAIN viewers = {}
  BY DEF HasViewers
<1>4. Detach(x, who) = WithViewers(x, viewers)
  BY DEF Detach
<1> HIDE DEF viewers
<1> QED  BY <1>2, <1>3, <1>4, Viewing

LEMMA Attaching ==
  ASSUME NEW x, Sound(x), NEW who \in Attachments, NEW size \in Sizes
  PROVE  Sound(Attach(x, who, size)) /\ Loud(x, Attach(x, who, size))
<1>1. x.v.viewers \in Viewers
  BY DEF Sound, Whole, Views
<1>2. With(x.v.viewers, who, size) \in Viewers
  BY <1>1, ViewerSets
<1> QED  BY <1>2, Viewing DEF Attach

LEMMA Resizing ==
  ASSUME NEW x, Sound(x), NEW who \in Attachments, NEW size \in Sizes
  PROVE  Sound(Resized(x, who, size)) /\ Loud(x, Resized(x, who, size))
<1>1. x.v.viewers \in Viewers
  BY DEF Sound, Whole, Views
<1>2. [a \in DOMAIN x.v.viewers |-> IF a = who THEN size ELSE x.v.viewers[a]] \in Viewers
  BY <1>1, ViewerSets
<1> QED  BY <1>2, Viewing DEF Resized

-----------------------------------------------------------------------------
(* Copy mode.                                                                *)
\* Only its own task matters to a row.
LEMMA FitsOwn ==
  ASSUME NEW t, NEW n, NEW misled, NEW c, NEW d, t.id \in c <=> t.id \in d, Fits(t, n, misled, c)
  PROVE  Fits(t, n, misled, d)
BY DEF Fits

LEMMA Copying ==
  ASSUME NEW x, Sound(x), NEW id \in Ids, NEW on \in BOOLEAN
  PROVE  LET y == CopyMode(x, id, on)
         IN  Sound(y) /\ Quiet(x, y) /\ y.v = x.v /\ y.a = x.a /\ y.o.watched = x.o.watched
<1> DEFINE y == CopyMode(x, id, on)
           watched == x.o.watched[id]
           nt == [id |-> id, on |-> on, stale |-> FALSE]
           copying == IF on THEN x.o.copying \cup {id} ELSE x.o.copying \ {id}
           o == [x.o EXCEPT !.copying = copying]
           n == IF watched = NotObserved THEN x.n ELSE Append(x.n, nt)
<1>1. x.v \in Views /\ x.o \in Outsides /\ x.n \in Seq(Notes) /\ x = [v |-> x.v, o |-> x.o, n |-> x.n, a |-> x.a]
      /\ Whole(x)
  BY DEF Sound, Whole
<1>2. CASE id \notin Alive(x.o) \/ (id \in x.o.copying) = on
  <2>1. y = x
    BY <1>2 DEF CopyMode
  <2> HIDE DEF y
  <2> QED  BY <1>1, <2>1, QuietSelf DEF y
<1>3. CASE ~(id \notin Alive(x.o) \/ (id \in x.o.copying) = on)
  <2>1. y = [v |-> x.v, o |-> o, n |-> n, a |-> x.a]
    <3>1. y = [x EXCEPT !.o.copying = copying, !.n = n]
      BY <1>3 DEF CopyMode, Note
    <3> HIDE DEF y, copying, n
    <3> QED  BY <1>1, <3>1
  <2>2. copying \in SUBSET Ids /\ (id \in copying <=> on) /\ \A i : i # id => (i \in copying <=> i \in x.o.copying)
    BY <1>1 DEF Outsides
  <2>3. nt \in Notes /\ nt.id = id /\ nt.on = on /\ ~nt.stale
    BY DEF Notes
  <2> HIDE DEF nt, copying
  <2>4. o \in Outsides /\ SameOutside(x.o, o) /\ o.watched = x.o.watched /\ o.copying = copying
    BY <1>1, <2>2 DEF Outsides, SameOutside
  <2>5. n \in Seq(Notes)
    BY <1>1, <2>3
  <2> HIDE DEF y, o, n
  <2>6. y.v = x.v /\ y.o = o /\ y.n = n /\ y.a = x.a /\ Whole(y)
    BY <1>1, <2>1, <2>4, <2>5 DEF Whole
  <2>7. Alive(y.o) = Alive(x.o)
    BY <2>4, <2>6 DEF Alive, SameOutside
  <2>8. Watching(y)
    BY <2>4, <2>6, <2>7 DEF Watching, Sound
  <2>9. watched # NotObserved <=> HasViewers(x.v) /\ id \in Shown(x.v) /\ id \in Alive(x.o)
    BY DEF Sound, Watching
  <2>10. Copied(y)
    <3>1. SUFFICES ASSUME NEW i \in 1..Len(x.v.tasks), x.v.tasks[i].id \in Alive(x.o)
                   PROVE  Fits(x.v.tasks[i], n, x.v.misled, InCopyMode(x.v, o))
      BY <2>6, <2>7 DEF Copied
    <3> DEFINE t == x.v.tasks[i]
    <3>2. t \in Rows /\ t.id \in Shown(x.v) /\ t.id \in Alive(x.o)
      BY <1>1, <3>1 DEF Views, Shown
    <3>3. Fits(t, x.n, x.v.misled, InCopyMode(x.v, x.o))
      BY <3>1 DEF Sound, Copied
    <3> HIDE DEF t
    <3>4. CASE ~HasViewers(x.v)
      <4>1. n = x.n /\ InCopyMode(x.v, o) = InCopyMode(x.v, x.o)
        BY <2>9, <3>4 DEF n, InCopyMode
      <4> QED  BY <3>3, <4>1 DEF t
    <3>5. CASE HasViewers(x.v) /\ t.id = id
      <4>1. n = Append(x.n, nt) /\ InCopyMode(x.v, o) = copying
        BY <2>4, <2>9, <3>2, <3>5 DEF n, InCopyMode
      <4>2. nt.on <=> t.id \in copying
        BY <2>2, <2>3, <3>5
      <4>3. Fits(t, Append(x.n, nt), x.v.misled, copying)
        BY <1>1, <2>3, <3>2, <3>5, <4>2, NoteAdded
      <4> QED  BY <4>1, <4>3 DEF t
    <3>6. CASE HasViewers(x.v) /\ t.id # id
      <4>1. InCopyMode(x.v, o) = copying /\ InCopyMode(x.v, x.o) = x.o.copying
        BY <2>4, <3>6 DEF InCopyMode
      <4>2. Fits(t, x.n, x.v.misled, copying)
        BY <2>2, <3>3, <3>6, <4>1, FitsOwn
      <4>3. Fits(t, Append(x.n, nt), x.v.misled, copying)
        BY <1>1, <2>3, <3>2, <3>6, <4>2, NoteAdded
      <4> QED  BY <4>1, <4>2, <4>3 DEF t, n
    <3> QED  BY <3>4, <3>5, <3>6
  <2>11. NotesOf(x, y)
    <3>1. CASE watched = NotObserved
      BY <1>1, <2>6, <3>1 DEF n, NotesOf
    <3>2. CASE watched # NotObserved
      <4>1. n = Append(x.n, nt) /\ id \in Shown(x.v)
        BY <2>9, <3>2 DEF n
      <4> QED  BY <1>1, <2>3, <2>6, <4>1 DEF NotesOf
    <3> QED  BY <3>1, <3>2
  <2>12. SameRows(x.v, y.v) /\ SameTurn(x.v, y.v)
    BY <2>6 DEF SameRows, SameTurn
  <2>13. Quiet(x, y)
    BY <2>4, <2>6, <2>11, <2>12 DEF Quiet
  <2> QED  BY <2>4, <2>6, <2>8, <2>10, <2>13 DEF Sound, y
<1> QED  BY <1>2, <1>3

LEMMA CurrentIs ==
  ASSUME NEW v \in Views, HasCurrent(v)
  PROVE  CurrentId(v) \in Ids /\ v.tasks[v.list.selected + 1] \in Rows /\ v.list.selected + 1 \in 1..Len(v.tasks)
<1>1. v.tasks \in Seq(Rows) /\ v.list.selected \in Nat
  BY DEF Views, Lists
<1>2. v.list.selected + 1 \in 1..Len(v.tasks)
  BY <1>1 DEF HasCurrent
<1>3. v.tasks[v.list.selected + 1] \in Rows
  BY <1>1, <1>2
<1> QED  BY <1>2, <1>3 DEF CurrentId, Rows

LEMMA CopyingCurrent ==
  ASSUME NEW x, Sound(x), NEW on \in BOOLEAN
  PROVE  Sound(CopyCurrent(x, on)) /\ Quiet(x, CopyCurrent(x, on))
<1>1. Whole(x) /\ x.v \in Views
  BY DEF Sound, Whole
<1>2. CASE HasCurrent(x.v)
  <2>1. CopyCurrent(x, on) = CopyMode(x, CurrentId(x.v), on)
    BY <1>2 DEF CopyCurrent
  <2>2. CurrentId(x.v) \in Ids
    BY <1>1, <1>2, CurrentIs
  <2> QED  BY <2>1, <2>2, Copying
<1>3. CASE ~HasCurrent(x.v)
  <2>1. CopyCurrent(x, on) = x
    BY <1>3 DEF CopyCurrent
  <2> QED  BY <1>1, <2>1, QuietSelf
<1> QED  BY <1>2, <1>3

-----------------------------------------------------------------------------
(* Actions.                                                                  *)
\* A step after which the console is as sound, and which a key or a click is.
Still(x, y) == Sound(y) /\ Quiet(x, y)

LEMMA StillSelf ==
  ASSUME NEW x, Sound(x)
  PROVE  Still(x, x)
BY QuietSelf DEF Still, Sound

LEMMA StillTwice ==
  ASSUME NEW x, NEW y, NEW z, Sound(x), Still(x, y), Still(y, z)
  PROVE  Still(x, z)
<1>1. Whole(x) /\ Whole(y) /\ Whole(z) /\ Quiet(x, y) /\ Quiet(y, z) /\ Sound(z)
  BY DEF Still, Sound
<1>2. Quiet(x, z)
  BY ONLY <1>1, QuietTwice
<1> QED  BY <1>1, <1>2 DEF Still

LEMMA ViewChanged ==
  ASSUME NEW x, Sound(x), NEW v \in Views, v.tasks = x.v.tasks, v.viewers = x.v.viewers,
         v.misled = x.v.misled, SameTurn(x.v, v), NEW a, NEW y, y = [v |-> v, o |-> x.o, n |-> x.n, a |-> a]
  PROVE  Still(x, y)
<1>1. Whole(x)
  BY DEF Sound
<1>2. y.v = v /\ y.o = x.o /\ y.n = x.n /\ y.a = a
  OBVIOUS
<1>3. Whole(y)
  BY <1>1, <1>2 DEF Whole
<1>4. Plainly(x, y)
  BY <1>2, <1>3 DEF Plainly
<1> QED  BY <1>4, Plain DEF Still

LEMMA Asking ==
  ASSUME NEW x, Sound(x), NEW command
  PROVE  Still(x, Ask(x, command))
<1>1. x = [v |-> x.v, o |-> x.o, n |-> x.n, a |-> x.a] /\ x.v \in Views
  BY DEF Sound, Whole
<1> DEFINE b == Append(x.a, command)
<1>2. Ask(x, command) = [x EXCEPT !.a = b]
  BY DEF Ask
<1> HIDE DEF b
<1>3. Ask(x, command) = [v |-> x.v, o |-> x.o, n |-> x.n, a |-> b]
  BY <1>1, <1>2
<1>4. SameTurn(x.v, x.v)
  BY DEF SameTurn
<1> QED  BY <1>1, <1>3, <1>4, ViewChanged

LEMMA Scoping ==
  ASSUME NEW x, Sound(x), NEW s \in {"tasks", "term", "zoom"}
  PROVE  Still(x, [x EXCEPT !.v.scope = s])
<1> DEFINE v == [x.v EXCEPT !.scope = s]
           y == [x EXCEPT !.v.scope = s]
<1>1. x = [v |-> x.v, o |-> x.o, n |-> x.n, a |-> x.a] /\ x.v \in Views
  BY DEF Sound, Whole
<1>2. v \in Views /\ v.tasks = x.v.tasks /\ v.viewers = x.v.viewers /\ v.misled = x.v.misled /\ SameTurn(x.v, v)
  BY <1>1 DEF Views, SameTurn
<1>3. y = [v |-> v, o |-> x.o, n |-> x.n, a |-> x.a]
  BY <1>1
<1> HIDE DEF v, y
<1>4. Still(x, y)
  BY <1>2, <1>3, ViewChanged
<1> QED  BY <1>4 DEF y

LEMMA Opening ==
  ASSUME NEW x, Sound(x), NEW m \in Modals
  PROVE  Still(x, Open(x, m)) /\ Open(x, m).v = [x.v EXCEPT !.modal = m]
<1> DEFINE v == [x.v EXCEPT !.modal = m]
           y == Open(x, m)
<1>1. x = [v |-> x.v, o |-> x.o, n |-> x.n, a |-> x.a] /\ x.v \in Views
  BY DEF Sound, Whole
<1>2. v \in Views /\ v.tasks = x.v.tasks /\ v.viewers = x.v.viewers /\ v.misled = x.v.misled /\ SameTurn(x.v, v)
  BY <1>1 DEF Views, SameTurn
<1>3. y = [v |-> v, o |-> x.o, n |-> x.n, a |-> x.a]
  BY <1>1 DEF Open
<1> HIDE DEF v, y
<1>4. Still(x, y)
  BY <1>2, <1>3, ViewChanged
<1>5. y.v = v
  BY <1>3
<1> QED  BY <1>4, <1>5 DEF y, v

LEMMA NoModal == [kind |-> "none"] \in Modals
BY DEF Modals

LEMMA Closing ==
  ASSUME NEW x, Sound(x)
  PROVE  Still(x, Close(x))
BY Opening, NoModal DEF Close

LEMMA Hiding ==
  ASSUME NEW x, Sound(x)
  PROVE  Still(x, [x EXCEPT !.v.hide = ~@])
<1> DEFINE v == [x.v EXCEPT !.hide = ~x.v.hide]
           y == [x EXCEPT !.v.hide = ~@]
<1>1. x = [v |-> x.v, o |-> x.o, n |-> x.n, a |-> x.a] /\ x.v \in Views
  BY DEF Sound, Whole
<1>2. v \in Views /\ v.tasks = x.v.tasks /\ v.viewers = x.v.viewers /\ v.misled = x.v.misled /\ SameTurn(x.v, v)
  BY <1>1 DEF Views, SameTurn
<1>3. y = [v |-> v, o |-> x.o, n |-> x.n, a |-> x.a]
  BY <1>1
<1> HIDE DEF v, y
<1>4. Still(x, y)
  BY <1>2, <1>3, ViewChanged
<1> QED  BY <1>4 DEF y

LEMMA Quitting ==
  ASSUME NEW x, Sound(x)
  PROVE  Still(x, [x EXCEPT !.v.quitting = TRUE])
<1> DEFINE v == [x.v EXCEPT !.quitting = TRUE]
           y == [x EXCEPT !.v.quitting = TRUE]
<1>1. x = [v |-> x.v, o |-> x.o, n |-> x.n, a |-> x.a] /\ x.v \in Views
  BY DEF Sound, Whole
<1>2. v \in Views /\ v.tasks = x.v.tasks /\ v.viewers = x.v.viewers /\ v.misled = x.v.misled /\ SameTurn(x.v, v)
  BY <1>1 DEF Views, SameTurn
<1>3. y = [v |-> v, o |-> x.o, n |-> x.n, a |-> x.a]
  <2> DEFINE b == TRUE
  <2>1. v = [x.v EXCEPT !.quitting = b] /\ y = [x EXCEPT !.v.quitting = b]
    OBVIOUS
  <2> HIDE DEF v, y, b
  <2> QED  BY <1>1, <2>1
<1> HIDE DEF v, y
<1>4. Still(x, y)
  BY <1>2, <1>3, ViewChanged
<1> QED  BY <1>4 DEF y

\* What is selected, and what shows of the list.
LEMMA SelectAtIs ==
  ASSUME NEW l \in Lists, NEW index \in Nat, NEW count \in Nat
  PROVE  /\ SelectAt(l, index, count) \in Lists
         /\ SelectAt(l, index, count).selected = IF index < count THEN index ELSE Sub(count, 1)
         /\ SelectAt(l, index, count).height = l.height
<1> DEFINE m == [[l EXCEPT !.selected = index] EXCEPT !.count = count]
<1>1. m \in Lists /\ m.selected = index /\ m.count = count /\ m.height = l.height
  BY DEF Lists
<1>2. SelectAt(l, index, count) = Clamp(m)
  BY DEF SelectAt
<1> HIDE DEF m
<1> QED  BY <1>1, <1>2, Clamping

LEMMA SelectIs ==
  ASSUME NEW v \in Views, NEW index \in Nat
  PROVE  /\ Select(v, index) \in Views /\ SameTurn(v, Select(v, index))
         /\ Select(v, index) = [v EXCEPT !.list = SelectAt(v.list, index, Len(v.tasks))]
         /\ Select(v, index).list.selected = IF index < Len(v.tasks) THEN index ELSE Sub(Len(v.tasks), 1)
<1> DEFINE l == SelectAt(v.list, index, Len(v.tasks))
<1>1. v.list \in Lists /\ Len(v.tasks) \in Nat
  BY DEF Views
<1>2. l \in Lists /\ l.selected = IF index < Len(v.tasks) THEN index ELSE Sub(Len(v.tasks), 1)
  BY <1>1, SelectAtIs
<1>3. Select(v, index) = [v EXCEPT !.list = l]
  BY DEF Select
<1> HIDE DEF l
<1>4. [v EXCEPT !.list = l] \in Views /\ SameTurn(v, [v EXCEPT !.list = l]) /\ [v EXCEPT !.list = l].list = l
  BY <1>2 DEF Views, SameTurn
<1> QED  BY <1>2, <1>3, <1>4 DEF l

LEMMA Selecting ==
  ASSUME NEW x, Sound(x), NEW index \in Nat
  PROVE  Still(x, [x EXCEPT !.v = Select(x.v, index)])
<1> DEFINE v == Select(x.v, index)
           y == [x EXCEPT !.v = v]
<1>1. x = [v |-> x.v, o |-> x.o, n |-> x.n, a |-> x.a] /\ x.v \in Views
  BY DEF Sound, Whole
<1>2. v \in Views /\ SameTurn(x.v, v)
  BY <1>1, SelectIs
<1>3. v.tasks = x.v.tasks /\ v.viewers = x.v.viewers /\ v.misled = x.v.misled
  BY <1>1, SelectIs DEF Views
<1> HIDE DEF v
<1>4. y = [v |-> v, o |-> x.o, n |-> x.n, a |-> x.a]
  BY <1>1
<1> HIDE DEF y
<1>5. Still(x, y)
  BY <1>2, <1>3, <1>4, ViewChanged
<1> QED  BY <1>5 DEF y, v

\* A command for every task.
AskStep(p, y, t) == Ask(y, <<p.verb, t.id>>)
AskKept(p, k, y) == Still(p.x, y)
Commands == INSTANCE Folding WITH Step <- AskStep, Keeps <- AskKept
LEMMA AskAllFolds ==
  ASSUME NEW x, NEW verb, NEW p, p.verb = verb
  PROVE  AskAll(x, verb) = Commands!Folded(p, x, x.v.tasks)
BY DEF AskAll, AskStep, Commands!Folded, FoldLeft, MapThenFoldSet, Commands!FoldLeft,
       Commands!MapThenFoldSet, Max, Commands!Max

LEMMA AskingAll ==
  ASSUME NEW x, Sound(x), NEW verb
  PROVE  Still(x, AskAll(x, verb))
<1> DEFINE p == [x |-> x, verb |-> verb]
           n == Len(x.v.tasks)
<1>1. n \in Nat /\ DOMAIN x.v.tasks = 1..n /\ p.verb = verb /\ p.x = x
  BY DEF Sound, Whole, Views
<1> HIDE DEF p, n
<1>2. AskKept(p, 0, x)
  BY <1>1, StillSelf DEF AskKept
<1>3. ASSUME NEW k \in 1..n, NEW y, AskKept(p, k - 1, y) PROVE AskKept(p, k, AskStep(p, y, x.v.tasks[k]))
  <2>1. Still(x, y) /\ Sound(y)
    BY <1>1, <1>3 DEF AskKept, Still
  <2>2. Still(y, AskStep(p, y, x.v.tasks[k]))
    BY <2>1, Asking DEF AskStep
  <2> QED  BY <1>1, <2>1, <2>2, StillTwice DEF AskKept
<1>4. AskKept(p, n, Commands!Folded(p, x, x.v.tasks))
  BY ONLY <1>1, <1>2, <1>3, Commands!FoldKeeps
<1> QED  BY <1>1, <1>4, AskAllFolds DEF AskKept

-----------------------------------------------------------------------------
(* What an action does.                                                      *)
Typist(who) == who = <<>> \/ \E a \in Attachments : who = <<a>>

LEMMA RestOf == \A a \in Nat, n \in Nat \ {0} : a % n \in Nat
OBVIOUS

LEMMA Neighbours ==
  \A a \in Nat, n \in Nat \ {0} : (a + 1) % n \in Nat /\ (a + n - 1) % n \in Nat
<1>1. \A a \in Nat, n \in Nat \ {0} : a + 1 \in Nat /\ a + n - 1 \in Nat
  OBVIOUS
<1> QED  BY <1>1, RestOf

LEMMA NoList == NewList \in Lists
BY DEF NewList, Lists

LEMMA Acting ==
  ASSUME NEW x, Sound(x), NEW who, Typist(who), NEW action, IsSimple(action)
  PROVE  Still(x, Simple(x, who, action))
<1> DEFINE v == x.v
           n == Len(v.tasks)
           to == action[1]
           y == Simple(x, who, action)
<1>1. x.v \in Views /\ n \in Nat /\ v.list.selected \in Nat /\ v.scope \in {"tasks", "term", "zoom"}
  BY DEF Sound, Whole, Views, Lists
<1>2. CASE to = "quit-or-ask"
  <2> DEFINE m == [kind |-> "quit"]
  <2>1. y = Open(x, m)
    BY <1>2 DEF Simple, TaskVerbs
  <2>2. m \in Modals
    BY DEF Modals
  <2> HIDE DEF m
  <2> QED  BY <2>1, <2>2, Opening
<1>3. CASE to = "quit" /\ who # <<>>
  <2>1. y = Detach(x, who[1])
    BY <1>3 DEF Simple, TaskVerbs
  <2>2. who[1] \in Attachments
    BY <1>3 DEF Typist
  <2> QED  BY <2>1, <2>2, Detaching DEF Still
<1>4. CASE to = "quit" /\ who = <<>>
  <2>1. y = [Ask(x, <<"quit">>) EXCEPT !.v.quitting = TRUE]
    BY <1>4 DEF Simple, TaskVerbs
  <2>2. Still(x, Ask(x, <<"quit">>))
    BY Asking
  <2>3. Still(Ask(x, <<"quit">>), y)
    BY <2>1, <2>2, Quitting DEF Still
  <2> QED  BY <2>2, <2>3, StillTwice
<1>5. CASE to = "force-quit"
  <2> DEFINE z == Ask(x, <<"kill-all">>)
  <2>1. y = [Ask(z, <<"quit">>) EXCEPT !.v.quitting = TRUE]
    BY <1>5 DEF Simple, TaskVerbs
  <2>2. Still(x, z)
    BY Asking
  <2> HIDE DEF z
  <2>3. Still(x, Ask(z, <<"quit">>))
    BY <2>2, Asking, StillTwice DEF Still
  <2>4. Still(Ask(z, <<"quit">>), y)
    BY <2>1, <2>3, Quitting DEF Still
  <2> QED  BY <2>3, <2>4, StillTwice
<1>6. CASE to = "command"
  <2>1. y = Ask(x, Tail(action))
    BY <1>6 DEF Simple, TaskVerbs
  <2> QED  BY <2>1, Asking
<1>7. CASE to \in {"toggle-focus", "focus-tasks", "focus-term", "zoom"}
  <2> DEFINE s == CASE to = "toggle-focus" -> (IF x.v.scope = "tasks" THEN "term" ELSE "tasks")
                    [] to = "focus-tasks" -> "tasks" [] to = "focus-term" -> "term" [] to = "zoom" -> "zoom"
  <2>1. s \in {"tasks", "term", "zoom"}
    BY <1>7
  <2>2. y = [x EXCEPT !.v.scope = s]
    BY <1>7 DEF Simple, TaskVerbs
  <2> HIDE DEF s
  <2> QED  BY <2>1, <2>2, Scoping
<1>8. CASE to = "show-commands-menu"
  <2> DEFINE m == [kind |-> "menu", query |-> "", list |-> NewList]
  <2>1. y = Open(x, m)
    BY <1>8 DEF Simple, TaskVerbs
  <2>2. "" \in DOMAIN MenuItems
    BY ConsoleAssumption
  <2>3. m \in Modals
    BY <2>2, NoList DEF Modals
  <2> HIDE DEF m
  <2> QED  BY <2>1, <2>3, Opening
<1>9. CASE to = "close-current-modal"
  <2>1. y = Close(x)
    BY <1>9 DEF Simple, TaskVerbs
  <2> QED  BY <2>1, Closing
<1>10. CASE to = "toggle-keymap-window"
  <2>1. y = [x EXCEPT !.v.hide = ~@]
    BY <1>10 DEF Simple, TaskVerbs
  <2> QED  BY <2>1, Hiding
<1>11. CASE to \in {"next-task", "prev-task"} /\ n = 0
  <2>1. y = x
    BY <1>11 DEF Simple, TaskVerbs
  <2> QED  BY <2>1, StillSelf
<1>12. CASE to \in {"next-task", "prev-task"} /\ n # 0
  <2> DEFINE index == IF to = "next-task" THEN (v.list.selected + 1) % n ELSE (v.list.selected + n - 1) % n
  <2>1. y = [x EXCEPT !.v = Select(x.v, index)]
    BY <1>12 DEF Simple, TaskVerbs
  <2>2. index \in Nat
    <3>1. v.list.selected \in Nat /\ n \in Nat \ {0}
      BY <1>1, <1>12
    <3> QED  BY <3>1, Neighbours
  <2> HIDE DEF index
  <2> QED  BY <2>1, <2>2, Selecting
<1>13. CASE to = "select-task"
  <2>1. y = [x EXCEPT !.v = Select(x.v, action[2])]
    BY <1>13 DEF Simple, TaskVerbs
  <2>2. action[2] \in Nat
    BY <1>13 DEF IsSimple
  <2> QED  BY <2>1, <2>2, Selecting
<1>14. CASE to \in TaskVerbs
  <2>1. y = AskCurrent(x, to)
    BY <1>14 DEF Simple, TaskVerbs
  <2>2. CASE HasCurrent(x.v)
    BY <2>1, <2>2, Asking DEF AskCurrent
  <2>3. CASE ~HasCurrent(x.v)
    BY <2>1, <2>3, StillSelf DEF AskCurrent
  <2> QED  BY <2>2, <2>3
<1>15. CASE to \in {"restart-all", "force-restart-all"}
  <2>1. y = AskAll(x, to)
    BY <1>15 DEF Simple, TaskVerbs
  <2> QED  BY <2>1, AskingAll
<1>16. CASE to \in {"show-add-task", "show-rename-task"}
  <2> DEFINE m == IF to = "show-add-task" THEN [kind |-> "add"] ELSE [kind |-> "rename"]
  <2>1. y = Open(x, m)
    BY <1>16 DEF Simple, TaskVerbs
  <2>2. m \in Modals
    BY DEF Modals
  <2> HIDE DEF m
  <2> QED  BY <2>1, <2>2, Opening
<1>17. CASE to = "add-task"
  <2>1. y = Ask(x, <<"add">>)
    BY <1>17 DEF Simple, TaskVerbs
  <2> QED  BY <2>1, Asking
<1>18. CASE to = "show-remove-task"
  <2>1. CASE HasCurrent(v) /\ ~v.tasks[v.list.selected + 1].up
    <3> DEFINE m == [kind |-> "remove", id |-> CurrentId(v)]
    <3>1. y = Open(x, m)
      BY <1>18, <2>1 DEF Simple, TaskVerbs
    <3>2. CurrentId(v) \in Ids
      BY <1>1, <2>1, CurrentIs
    <3>3. m \in Modals
      BY <3>2 DEF Modals
    <3> HIDE DEF m
    <3> QED  BY <3>1, <3>3, Opening
  <2>2. CASE ~(HasCurrent(v) /\ ~v.tasks[v.list.selected + 1].up)
    <3>1. y = x
      BY <1>18, <2>2 DEF Simple, TaskVerbs
    <3> QED  BY <3>1, StillSelf
  <2> QED  BY <2>1, <2>2
<1>19. CASE to = "copy-mode-enter"
  <2> DEFINE z == IF HasCurrent(v) THEN [x EXCEPT !.v.scope = "term"] ELSE x
             b == TRUE
  <2>1. y = CopyCurrent(z, b)
    BY <1>19 DEF Simple, TaskVerbs
  <2>2. Still(x, z)
    BY Scoping, StillSelf
  <2>3. b \in BOOLEAN
    OBVIOUS
  <2> HIDE DEF z, b
  <2>4. Sound(z)
    BY <2>2 DEF Still
  <2>5. Still(z, y)
    BY <2>1, <2>3, <2>4, CopyingCurrent DEF Still
  <2> QED  BY <2>2, <2>5, StillTwice
<1>20. CASE to \in {"copy-mode-leave", "copy-mode-copy"}
  <2> DEFINE b == FALSE
  <2>1. y = CopyCurrent(x, b)
    BY <1>20 DEF Simple, TaskVerbs
  <2>2. b \in BOOLEAN
    OBVIOUS
  <2> HIDE DEF b
  <2> QED  BY <2>1, <2>2, CopyingCurrent DEF Still
<1>21. CASE to \notin {"quit-or-ask", "quit", "force-quit", "command", "toggle-focus", "focus-tasks", "focus-term",
                       "zoom", "show-commands-menu", "close-current-modal", "toggle-keymap-window", "next-task",
                       "prev-task", "select-task", "restart-all", "force-restart-all", "show-add-task", "add-task",
                       "show-rename-task", "show-remove-task", "copy-mode-enter", "copy-mode-leave",
                       "copy-mode-copy"} /\ to \notin TaskVerbs
  <2>1. y = x
    BY <1>21 DEF Simple, TaskVerbs
  <2> QED  BY <2>1, StillSelf
<1> QED  BY <1>2, <1>3, <1>4, <1>5, <1>6, <1>7, <1>8, <1>9, <1>10, <1>11, <1>12, <1>13, <1>14, <1>15, <1>16, <1>17,
            <1>18, <1>19, <1>20, <1>21

ActStep(p, y, action) == Simple(y, p.who, action)
ActKept(p, k, y) == Still(p.x, y)
Batch == INSTANCE Folding WITH Step <- ActStep, Keeps <- ActKept
Steps(action) == IF action[1] = "batch" THEN Tail(action) ELSE <<action>>
LEMMA ActFolds ==
  ASSUME NEW x, NEW who, NEW action, NEW p, p.who = who
  PROVE  Act(x, who, action) = Batch!Folded(p, x, Steps(action))
BY DEF Act, Steps, ActStep, Batch!Folded, FoldLeft, MapThenFoldSet, Batch!FoldLeft,
       Batch!MapThenFoldSet, Max, Batch!Max

\* Whoever does whatever, a task stays where it is.
LEMMA ActingOn ==
  ASSUME NEW x, Sound(x), NEW who, Typist(who), NEW action, IsAction(action)
  PROVE  Still(x, Act(x, who, action))
<1> DEFINE p == [x |-> x, who |-> who]
           steps == Steps(action)
           n == IF action[1] = "batch" THEN Len(action) - 1 ELSE 1
           S == {action[i] : i \in 1..Len(action)}
<1>1. /\ n \in Nat /\ DOMAIN steps = 1..n /\ p.who = who /\ p.x = x
      /\ \A k \in 1..n : IsSimple(steps[k])
  <2>1. action \in Seq(S)
    BY DEF IsAction
  <2> HIDE DEF S
  <2>2. CASE action[1] = "batch"
    <3>1. steps = Tail(action) /\ n = Len(action) - 1 /\ Len(action) \in Nat \ {0}
      BY <2>2 DEF Steps, IsAction
    <3>2. Tail(action) \in Seq(S) /\ Len(Tail(action)) = n /\ \A k \in 1..n : Tail(action)[k] = action[k + 1]
      BY <2>1, <3>1
    <3>3. \A k \in 1..n : k + 1 \in 2..Len(action)
      BY <3>1
    <3> HIDE DEF steps, n
    <3>4. DOMAIN steps = 1..n
      BY <3>1, <3>2
    <3> QED  BY <2>2, <3>1, <3>2, <3>3, <3>4 DEF IsAction
  <2>3. CASE action[1] # "batch"
    <3>1. steps = <<action>> /\ n = 1
      BY <2>3 DEF Steps
    <3> HIDE DEF steps, n
    <3> QED  BY <3>1 DEF IsAction
  <2> QED  BY <2>2, <2>3
<1>4. Act(x, who, action) = Batch!Folded(p, x, steps)
  BY <1>1, ActFolds
<1> HIDE DEF p, n, steps
<1>2. ActKept(p, 0, x)
  BY <1>1, StillSelf DEF ActKept
<1>3. ASSUME NEW k \in 1..n, NEW y, ActKept(p, k - 1, y) PROVE ActKept(p, k, ActStep(p, y, steps[k]))
  <2>1. Still(x, y) /\ Sound(y)
    BY <1>1, <1>3 DEF ActKept, Still
  <2>2. Still(y, ActStep(p, y, steps[k]))
    BY <1>1, <2>1, Acting DEF ActStep
  <2> QED  BY <1>1, <2>1, <2>2, StillTwice DEF ActKept
<1>5. ActKept(p, n, Batch!Folded(p, x, steps))
  BY ONLY <1>1, <1>2, <1>3, Batch!FoldKeeps
<1> QED  BY <1>1, <1>4, <1>5 DEF ActKept

-----------------------------------------------------------------------------
(* The keymap: every key is bound once, and to an action.                    *)
Binds(m, K) ==
  /\ Len(m) \in Nat /\ m = [i \in 1..Len(m) |-> m[i]]
  /\ \A i \in 1..Len(m) : m[i][1] \in K /\ IsAction(m[i][2])
  /\ \A i, j \in 1..Len(m) : m[i][1] = m[j][1] => i = j
Bindings(m) == \E K : Binds(m, K)

LEMMA InSeq ==
  ASSUME NEW m, NEW K, Binds(m, K)
  PROVE  m \in Seq({m[i] : i \in 1..Len(m)}) /\ DOMAIN m = 1..Len(m)
BY DEF Binds

LEMMA NoBinding == \A K : Binds(<<>>, K)
BY DEF Binds

LEMMA AppendIs ==
  ASSUME NEW m, Len(m) \in Nat, m = [i \in 1..Len(m) |-> m[i]], NEW e
  PROVE  /\ Len(Append(m, e)) = Len(m) + 1
         /\ Append(m, e) = [i \in 1..Len(Append(m, e)) |-> Append(m, e)[i]]
         /\ Append(m, e)[Len(m) + 1] = e /\ \A i \in 1..Len(m) : Append(m, e)[i] = m[i]
<1> DEFINE S == {m[i] : i \in 1..Len(m)} \cup {e}
<1>1. m \in Seq(S) /\ e \in S
  OBVIOUS
<1> HIDE DEF S
<1> DEFINE a == Append(m, e)
<1>2. a \in Seq(S) /\ Len(a) = Len(m) + 1 /\ a[Len(m) + 1] = e /\ \A i \in 1..Len(m) : a[i] = m[i]
  BY <1>1
<1> HIDE DEF a
<1>3. a = [i \in 1..Len(a) |-> a[i]]
  BY <1>2
<1> QED  BY <1>2, <1>3 DEF a

LEMMA OneMoreBound ==
  ASSUME NEW m, NEW K, Binds(m, K), NEW L, K \subseteq L, NEW e, e[1] \in L, IsAction(e[2]),
         \A i \in 1..Len(m) : m[i][1] # e[1]
  PROVE  Binds(Append(m, e), L)
<1> DEFINE a == Append(m, e)
<1>1. /\ Len(m) \in Nat /\ m = [i \in 1..Len(m) |-> m[i]]
      /\ \A i \in 1..Len(m) : m[i][1] \in K /\ IsAction(m[i][2])
      /\ \A i, j \in 1..Len(m) : m[i][1] = m[j][1] => i = j
  BY DEF Binds
<1>2. /\ Len(a) = Len(m) + 1 /\ a = [i \in 1..Len(a) |-> a[i]]
      /\ a[Len(m) + 1] = e /\ \A i \in 1..Len(m) : a[i] = m[i]
  BY <1>1, AppendIs
<1> HIDE DEF a
<1>3. \A i \in 1..Len(a) : i \in 1..Len(m) \/ i = Len(m) + 1
  BY <1>1, <1>2
<1>4. \A i \in 1..Len(a) : a[i][1] \in L /\ IsAction(a[i][2])
  BY <1>1, <1>2, <1>3
<1>5. \A i, j \in 1..Len(a) : a[i][1] = a[j][1] => i = j
  BY <1>1, <1>2, <1>3
<1> QED  BY <1>1, <1>2, <1>4, <1>5 DEF Binds, a

LEMMA Putting ==
  ASSUME NEW m, Bindings(m), NEW key, NEW action, IsAction(action)
  PROVE  Bindings(Put(m, key, action))
<1>1. PICK K : Binds(m, K)
  BY DEF Bindings
<1> DEFINE at == {i \in DOMAIN m : m[i][1] = key}
           e == <<key, action>>
<1>2. DOMAIN m = 1..Len(m) /\ Len(m) \in Nat
  BY <1>1, InSeq DEF Binds
<1>3. e[1] = key /\ e[2] = action
  OBVIOUS
<1>4. Put(m, key, action) = IF at = {} THEN Append(m, e) ELSE [m EXCEPT ![Min(at)] = e]
  BY DEF Put
<1> HIDE DEF e
<1>5. CASE at = {}
  <2>1. \A i \in 1..Len(m) : m[i][1] # e[1]
    BY <1>2, <1>3, <1>5
  <2>2. K \subseteq K \cup {key} /\ e[1] \in K \cup {key}
    BY <1>3
  <2>3. Binds(Append(m, e), K \cup {key})
    BY <1>1, <1>3, <2>1, <2>2, OneMoreBound
  <2> QED  BY <1>4, <1>5, <2>3 DEF Bindings
<1>6. CASE at # {}
  <2>1. at \in SUBSET Nat
    BY <1>2
  <2>2. PICK q \in at : \A r \in at : q <= r
    BY <1>6, <2>1, Removal!Least
  <2>3. Min(at) \in at
    BY <2>2 DEF Min
  <2> DEFINE j == Min(at)
             a == [m EXCEPT ![j] = e]
  <2>4. j \in 1..Len(m) /\ m[j][1] = key
    BY <1>2, <2>3
  <2> HIDE DEF j
  <2>5. m = [i \in 1..Len(m) |-> m[i]]
    BY <1>1 DEF Binds
  <2>6. DOMAIN a = 1..Len(m) /\ a = [i \in 1..Len(m) |-> a[i]] /\ a[j] = e /\ \A i \in 1..Len(m) : i # j => a[i] = m[i]
    BY <1>2, <2>4, <2>5
  <2> HIDE DEF a
  <2>7. Len(a) = Len(m)
    BY <1>2, <2>6
  <2>8. \A i \in 1..Len(m) : a[i][1] = m[i][1] /\ IsAction(a[i][2])
    BY <1>1, <1>3, <2>4, <2>6 DEF Binds
  <2>9. Binds(a, K)
    BY <1>1, <1>2, <2>6, <2>7, <2>8 DEF Binds
  <2> QED  BY <1>4, <1>6, <2>9 DEF Bindings, a, j
<1> QED  BY <1>5, <1>6

UnbindStep(p, kept, x) == IF x[1] = p.key THEN kept ELSE Append(kept, x)
UnbindKept(p, k, y) == Binds(y, {p.m[i][1] : i \in 1..k})
Unbinding == INSTANCE Folding WITH Step <- UnbindStep, Keeps <- UnbindKept
LEMMA UnbindFolds ==
  ASSUME NEW m, NEW key, NEW p, p.key = key
  PROVE  Unbind(m, key) = Unbinding!Folded(p, <<>>, m)
BY DEF Unbind, UnbindStep, Unbinding!Folded, FoldLeft, MapThenFoldSet, Unbinding!FoldLeft,
       Unbinding!MapThenFoldSet, Max, Unbinding!Max
LEMMA Unbindings ==
  ASSUME NEW m, Bindings(m), NEW key
  PROVE  Bindings(Unbind(m, key))
<1> DEFINE p == [m |-> m, key |-> key]
           n == Len(m)
<1>1. PICK K : Binds(m, K)
  BY DEF Bindings
<1>2. n \in Nat /\ DOMAIN m = 1..n /\ p.m = m /\ p.key = key
  BY <1>1, InSeq DEF Binds
<1> HIDE DEF p, n
<1>3. UnbindKept(p, 0, <<>>)
  BY NoBinding DEF UnbindKept
<1>4. ASSUME NEW k \in 1..n, NEW y, UnbindKept(p, k - 1, y) PROVE UnbindKept(p, k, UnbindStep(p, y, m[k]))
  <2> DEFINE J == {m[i][1] : i \in 1..(k - 1)}
             L == {m[i][1] : i \in 1..k}
  <2>1. Binds(y, J)
    BY <1>2, <1>4 DEF UnbindKept
  <2>2. J \subseteq L /\ m[k][1] \in L
    BY <1>2
  <2>3. m[k][1] \notin J /\ IsAction(m[k][2])
    BY <1>1, <1>2 DEF Binds, n
  <2> HIDE DEF J, L
  <2>4. Binds(y, L)
    BY <2>1, <2>2 DEF Binds
  <2>5. \A i \in 1..Len(y) : y[i][1] # m[k][1]
    BY <2>1, <2>3 DEF Binds
  <2>6. Binds(Append(y, m[k]), L)
    BY <2>1, <2>2, <2>3, <2>5, OneMoreBound
  <2> QED  BY <1>2, <2>4, <2>6 DEF UnbindKept, UnbindStep, L
<1>5. UnbindKept(p, n, Unbinding!Folded(p, <<>>, m))
  BY ONLY <1>2, <1>3, <1>4, Unbinding!FoldKeeps
<1> QED  BY <1>2, <1>5, UnbindFolds DEF UnbindKept, Bindings

LayerStep(p, map, x) == IF x[2] = <<"null">> THEN Unbind(map, x[1]) ELSE Put(map, x[1], x[2])
LayerKept(p, k, map) == Bindings(map)
Layering == INSTANCE Folding WITH Step <- LayerStep, Keeps <- LayerKept
LEMMA LayerFolds ==
  ASSUME NEW bound, NEW layer, NEW p
  PROVE  Layered(bound, layer) = Layering!Folded(p, IF layer.reset THEN <<>> ELSE bound, layer.keys)
BY DEF Layered, LayerStep, Layering!Folded, FoldLeft, MapThenFoldSet, Layering!FoldLeft,
       Layering!MapThenFoldSet, Max, Layering!Max
LEMMA OneLayer ==
  ASSUME NEW bound, Bindings(bound), NEW layer, NEW n \in Nat, DOMAIN layer.keys = 1..n,
         \A k \in 1..n : IsAction(layer.keys[k][2])
  PROVE  Bindings(Layered(bound, layer))
<1> DEFINE base == IF layer.reset THEN <<>> ELSE bound
           keys == layer.keys
<1>1. Bindings(base)
  BY NoBinding DEF Bindings
<1> HIDE DEF base
<1>2. PICK p : p = <<>>
  OBVIOUS
<1>3. LayerKept(p, 0, base)
  BY <1>1 DEF LayerKept
<1>4. ASSUME NEW k \in 1..n, NEW y, LayerKept(p, k - 1, y) PROVE LayerKept(p, k, LayerStep(p, y, keys[k]))
  BY <1>4, Putting, Unbindings DEF LayerKept, LayerStep
<1>5. DOMAIN keys = 1..n
  OBVIOUS
<1>6. Layered(bound, layer) = Layering!Folded(p, base, keys)
  BY LayerFolds DEF base
<1> HIDE DEF keys
<1>7. LayerKept(p, n, Layering!Folded(p, base, keys))
  BY ONLY <1>3, <1>4, <1>5, n \in Nat, Layering!FoldKeeps
<1> QED  BY <1>6, <1>7 DEF LayerKept

LayersStep(p, map, layer) == Layered(map, layer)
LayersKept(p, k, map) == Bindings(map)
AllLayers == INSTANCE Folding WITH Step <- LayersStep, Keeps <- LayersKept
LEMMA LayersFold ==
  ASSUME NEW g, NEW p
  PROVE  BoundIn(g) = AllLayers!Folded(p, DefaultKeys[g], KeyConfig[g])
BY DEF BoundIn, LayersStep, AllLayers!Folded, FoldLeft, MapThenFoldSet, AllLayers!FoldLeft,
       AllLayers!MapThenFoldSet, Max, AllLayers!Max
LEMMA BoundOnce ==
  ASSUME NEW g \in Groups, Bindings(DefaultKeys[g])
  PROVE  Bindings(BoundIn(g))
<1> DEFINE config == KeyConfig[g]
           n == Len(config)
<1>1. \A i \in DOMAIN KeyConfig[g] :
        /\ DOMAIN KeyConfig[g] = 1..Len(KeyConfig[g]) /\ Len(KeyConfig[g]) \in Nat
        /\ DOMAIN KeyConfig[g][i].keys = 1..Len(KeyConfig[g][i].keys) /\ Len(KeyConfig[g][i].keys) \in Nat
        /\ \A k \in DOMAIN KeyConfig[g][i].keys : IsAction(KeyConfig[g][i].keys[k][2])
  BY ConsoleAssumption
<1>2. PICK p : p = <<>>
  OBVIOUS
<1>3. CASE DOMAIN config = {}
  <2> DEFINE base == DefaultKeys[g]
  <2>0. BoundIn(g) = AllLayers!Folded(p, base, config)
    BY LayersFold
  <2> HIDE DEF base, config
  <2>1. BoundIn(g) = base
    BY <1>3, <2>0, AllLayers!FoldOfNone
  <2> QED  BY <2>1 DEF base
<1>4. CASE DOMAIN config # {}
  <2>1. n \in Nat /\ DOMAIN config = 1..n
    BY <1>1, <1>4
  <2>2. \A i \in 1..n : /\ Len(config[i].keys) \in Nat /\ DOMAIN config[i].keys = 1..Len(config[i].keys)
                        /\ \A k \in 1..Len(config[i].keys) : IsAction(config[i].keys[k][2])
    BY <1>1, <2>1
  <2> HIDE DEF n, config
  <2> DEFINE base == DefaultKeys[g]
  <2>3. LayersKept(p, 0, base)
    BY DEF LayersKept
  <2>4. ASSUME NEW k \in 1..n, NEW y, LayersKept(p, k - 1, y) PROVE LayersKept(p, k, LayersStep(p, y, config[k]))
    BY <2>2, <2>4, OneLayer DEF LayersKept, LayersStep
  <2> HIDE DEF base
  <2>5. LayersKept(p, n, AllLayers!Folded(p, base, config))
    BY ONLY <2>1, <2>3, <2>4, AllLayers!FoldKeeps
  <2> QED  BY <2>5, LayersFold DEF LayersKept, base, config
<1> QED  BY <1>3, <1>4

-----------------------------------------------------------------------------
(* The built-in keys.                                                        *)
LEMMA Joined ==
  ASSUME NEW a, NEW K, Binds(a, K), NEW b, NEW L, Binds(b, L), K \cap L = {}
  PROVE  Binds(a \o b, K \cup L)
<1> DEFINE S == {a[i] : i \in 1..Len(a)} \cup {b[i] : i \in 1..Len(b)}
           c == a \o b
<1>1. Len(a) \in Nat /\ Len(b) \in Nat /\ a = [i \in 1..Len(a) |-> a[i]] /\ b = [i \in 1..Len(b) |-> b[i]]
  BY DEF Binds
<1>2. a \in Seq(S) /\ b \in Seq(S)
  BY <1>1
<1> HIDE DEF S
<1>3. /\ c \in Seq(S) /\ Len(c) = Len(a) + Len(b)
      /\ \A i \in 1..Len(c) : c[i] = IF i <= Len(a) THEN a[i] ELSE b[i - Len(a)]
  BY <1>2
<1> HIDE DEF c
<1>4. c = [i \in 1..Len(c) |-> c[i]] /\ Len(c) \in Nat
  BY <1>3
<1>5. \A i \in 1..Len(c) : (i <= Len(a) /\ i \in 1..Len(a) /\ c[i] = a[i])
                           \/ (i > Len(a) /\ i - Len(a) \in 1..Len(b) /\ c[i] = b[i - Len(a)])
  BY <1>1, <1>3
<1>6. \A i \in 1..Len(c) : c[i][1] \in K \cup L /\ IsAction(c[i][2])
  BY <1>5 DEF Binds
<1>7. ASSUME NEW i \in 1..Len(c), NEW j \in 1..Len(c), c[i][1] = c[j][1] PROVE i = j
  <2>1. CASE i <= Len(a) /\ j <= Len(a)
    BY <1>5, <1>7, <2>1 DEF Binds
  <2>2. CASE i > Len(a) /\ j > Len(a)
    <3>1. i - Len(a) = j - Len(a)
      BY <1>5, <1>7, <2>2 DEF Binds
    <3> QED  BY <1>1, <3>1
  <2>3. CASE i <= Len(a) /\ j > Len(a)
    BY <1>5, <1>7, <2>3 DEF Binds
  <2>4. CASE i > Len(a) /\ j <= Len(a)
    BY <1>5, <1>7, <2>4 DEF Binds
  <2> QED  BY <1>1, <2>1, <2>2, <2>3, <2>4
<1> QED  BY <1>4, <1>6, <1>7 DEF Binds, c

LEMMA Verbs ==
  ASSUME NEW verb, verb \notin {"batch", "select-task"}
  PROVE  IsAction(<<verb>>) /\ \A object : IsAction(<<verb, object>>)
BY DEF IsAction, IsSimple

LEMMA FocusKeys == Binds(<< <<"C-a", <<"toggle-focus">>>> >>, {"C-a"})
<1> DEFINE a == <<"toggle-focus">>
           e == <<"C-a", a>>
           m == <<e>>
<1>1. IsAction(a)
  BY Verbs
<1> HIDE DEF a
<1>2. e[1] = "C-a" /\ e[2] = a
  OBVIOUS
<1> HIDE DEF e
<1>3. Len(m) = 1 /\ m[1] = e /\ m = [i \in 1..1 |-> m[i]]
  OBVIOUS
<1> HIDE DEF m
<1>4. Binds(m, {"C-a"})
  BY <1>1, <1>2, <1>3 DEF Binds
<1> QED  BY <1>4 DEF m, e, a

Pair(k, a) == <<k, a>>
LEMMA Pairs ==
  ASSUME NEW k, NEW a
  PROVE  Pair(k, a)[1] = k /\ Pair(k, a)[2] = a /\ <<k, a>> = Pair(k, a)
BY DEF Pair

LEMMA KeysBind ==
  ASSUME NEW k, NEW l, k # l, NEW action, IsAction(action)
  PROVE  Binds(Keys(<<k, l>>, action), {k, l})
<1> DEFINE m == Keys(<<k, l>>, action)
<1>1. m = [i \in 1..2 |-> <<(<<k, l>>)[i], action>>]
  BY DEF Keys
<1>2. m[1][1] = k /\ m[2][1] = l /\ m[1][2] = action /\ m[2][2] = action
  BY <1>1
<1>3. m = [i \in 1..2 |-> m[i]] /\ DOMAIN m = 1..2
  BY <1>1
<1> HIDE DEF m
<1>4. Len(m) = 2
  BY <1>3
<1>5. \A i \in 1..2 : i = 1 \/ i = 2
  OBVIOUS
<1>6. Binds(m, {k, l})
  BY <1>2, <1>3, <1>4, <1>5 DEF Binds
<1> QED  BY <1>6 DEF m

LEMMA ScrollKeys ==
  Binds(<< <<"C-y", <<"scroll-up", "3 lines">>>>, <<"C-e", <<"scroll-down", "3 lines">>>>,
           <<"C-u", <<"scroll-up", "half">>>>, <<"C-d", <<"scroll-down", "half">>>>,
           <<"PageUp", <<"scroll-up", "screen">>>>, <<"PageDown", <<"scroll-down", "screen">>>> >>,
        {"C-y", "C-e", "C-u", "C-d", "PageUp", "PageDown"})
<1> DEFINE m == << <<"C-y", <<"scroll-up", "3 lines">>>>, <<"C-e", <<"scroll-down", "3 lines">>>>,
           <<"C-u", <<"scroll-up", "half">>>>, <<"C-d", <<"scroll-down", "half">>>>,
           <<"PageUp", <<"scroll-up", "screen">>>>, <<"PageDown", <<"scroll-down", "screen">>>> >>
           keys == <<"C-y", "C-e", "C-u", "C-d", "PageUp", "PageDown">>
<1>1. Len(m) = 6 /\ m = [i \in 1..6 |-> m[i]]
  OBVIOUS
<1>0. \A i \in 1..6 : i = 1 \/ i = 2 \/ i = 3 \/ i = 4 \/ i = 5 \/ i = 6
  OBVIOUS
<1>2. \A i \in 1..6 : m[i][1] = keys[i]
  <2>1. /\ m[1][1] = keys[1] /\ m[2][1] = keys[2] /\ m[3][1] = keys[3]
        /\ m[4][1] = keys[4] /\ m[5][1] = keys[5] /\ m[6][1] = keys[6]
    OBVIOUS
  <2> HIDE DEF m, keys
  <2> QED  BY <1>0, <2>1
<1>3. \A i \in 1..6 : IsAction(m[i][2])
  <2>1. /\ m[1][2] = <<"scroll-up", "3 lines">> /\ m[2][2] = <<"scroll-down", "3 lines">>
        /\ m[3][2] = <<"scroll-up", "half">> /\ m[4][2] = <<"scroll-down", "half">>
        /\ m[5][2] = <<"scroll-up", "screen">> /\ m[6][2] = <<"scroll-down", "screen">>
    OBVIOUS
  <2> HIDE DEF m, keys
  <2>2. /\ IsAction(m[1][2]) /\ IsAction(m[2][2]) /\ IsAction(m[3][2])
        /\ IsAction(m[4][2]) /\ IsAction(m[5][2]) /\ IsAction(m[6][2])
    BY <2>1, Verbs
  <2> QED  BY <1>0, <2>2
<1>4. \A i \in 1..6 : keys[i] \in {"C-y", "C-e", "C-u", "C-d", "PageUp", "PageDown"}
  OBVIOUS
<1>5. \A i, j \in 1..6 : keys[i] = keys[j] => i = j
  OBVIOUS
<1> HIDE DEF m, keys
<1>6. Binds(m, {"C-y", "C-e", "C-u", "C-d", "PageUp", "PageDown"})
  BY <1>1, <1>2, <1>3, <1>4, <1>5 DEF Binds
<1> QED  BY <1>6 DEF m

-----------------------------------------------------------------------------
LEMMA QuitKeys ==
  Binds(<< <<"q", <<"quit">>>>, <<"Q", <<"force-quit">>>>, <<"p", <<"show-commands-menu">>>> >>,
        {"q", "Q", "p"})
<1> DEFINE m == << <<"q", <<"quit">>>>, <<"Q", <<"force-quit">>>>, <<"p", <<"show-commands-menu">>>> >>
           keys == <<"q", "Q", "p">>
<1>1. Len(m) = 3 /\ m = [i \in 1..3 |-> m[i]]
  OBVIOUS
<1>0. \A i \in 1..3 : i = 1 \/ i = 2 \/ i = 3
  OBVIOUS
<1>2. \A i \in 1..3 : m[i][1] = keys[i]
  <2>1. /\ m[1][1] = keys[1] /\ m[2][1] = keys[2] /\ m[3][1] = keys[3]
    OBVIOUS
  <2> HIDE DEF m, keys
  <2> QED  BY <1>0, <2>1
<1>3. \A i \in 1..3 : IsAction(m[i][2])
  <2>1. /\ m[1][2] = <<"quit">> /\ m[2][2] = <<"force-quit">> /\ m[3][2] = <<"show-commands-menu">>
    OBVIOUS
  <2> HIDE DEF m, keys
  <2>2. /\ IsAction(m[1][2]) /\ IsAction(m[2][2]) /\ IsAction(m[3][2])
    BY <2>1, Verbs
  <2> QED  BY <1>0, <2>2
<1>4. \A i \in 1..3 : keys[i] \in {"q", "Q", "p"}
  OBVIOUS
<1>5. \A i, j \in 1..3 : keys[i] = keys[j] => i = j
  OBVIOUS
<1> HIDE DEF m, keys
<1>6. Binds(m, {"q", "Q", "p"})
  BY <1>1, <1>2, <1>3, <1>4, <1>5 DEF Binds
<1> QED  BY <1>6 DEF m

LEMMA TaskKeys ==
  Binds(<< <<"s", <<"start">>>>, <<"x", <<"stop">>>>, <<"X", <<"kill">>>>, <<"r", <<"restart">>>>,
           <<"R", <<"force-restart">>>>, <<"e", <<"show-rename-task">>>>,
           <<"C-c", <<"send-key", "C-c">>>>, <<"a", <<"show-add-task">>>>, <<"C", <<"duplicate">>>>,
           <<"d", <<"show-remove-task">>>> >>,
        {"s", "x", "X", "r", "R", "e", "C-c", "a", "C", "d"})
<1> DEFINE m == << <<"s", <<"start">>>>, <<"x", <<"stop">>>>, <<"X", <<"kill">>>>, <<"r", <<"restart">>>>,
                  <<"R", <<"force-restart">>>>, <<"e", <<"show-rename-task">>>>,
                  <<"C-c", <<"send-key", "C-c">>>>, <<"a", <<"show-add-task">>>>, <<"C", <<"duplicate">>>>,
                  <<"d", <<"show-remove-task">>>> >>
           keys == <<"s", "x", "X", "r", "R", "e", "C-c", "a", "C", "d">>
<1>1. Len(m) = 10 /\ m = [i \in 1..10 |-> m[i]]
  OBVIOUS
<1>0. \A i \in 1..10 : i = 1 \/ i = 2 \/ i = 3 \/ i = 4 \/ i = 5 \/ i = 6 \/ i = 7 \/ i = 8 \/ i = 9 \/ i = 10
  OBVIOUS
<1>2. \A i \in 1..10 : m[i][1] = keys[i]
  <2>1. /\ m[1][1] = keys[1] /\ m[2][1] = keys[2] /\ m[3][1] = keys[3] /\ m[4][1] = keys[4]
        /\ m[5][1] = keys[5] /\ m[6][1] = keys[6] /\ m[7][1] = keys[7] /\ m[8][1] = keys[8]
        /\ m[9][1] = keys[9] /\ m[10][1] = keys[10]
    OBVIOUS
  <2> HIDE DEF m, keys
  <2> QED  BY <1>0, <2>1
<1>3. \A i \in 1..10 : IsAction(m[i][2])
  <2>1. /\ m[1][2] = <<"start">> /\ m[2][2] = <<"stop">> /\ m[3][2] = <<"kill">>
        /\ m[4][2] = <<"restart">> /\ m[5][2] = <<"force-restart">>
        /\ m[6][2] = <<"show-rename-task">> /\ m[7][2] = <<"send-key", "C-c">>
        /\ m[8][2] = <<"show-add-task">> /\ m[9][2] = <<"duplicate">>
        /\ m[10][2] = <<"show-remove-task">>
    OBVIOUS
  <2> HIDE DEF m, keys
  <2>2. /\ IsAction(m[1][2]) /\ IsAction(m[2][2]) /\ IsAction(m[3][2]) /\ IsAction(m[4][2])
        /\ IsAction(m[5][2]) /\ IsAction(m[6][2]) /\ IsAction(m[7][2]) /\ IsAction(m[8][2])
        /\ IsAction(m[9][2]) /\ IsAction(m[10][2])
    BY <2>1, Verbs
  <2> QED  BY <1>0, <2>2
<1>4. \A i \in 1..10 : keys[i] \in {"s", "x", "X", "r", "R", "e", "C-c", "a", "C", "d"}
  OBVIOUS
<1>5. \A i, j \in 1..10 : keys[i] = keys[j] => i = j
  OBVIOUS
<1> HIDE DEF m, keys
<1>6. Binds(m, {"s", "x", "X", "r", "R", "e", "C-c", "a", "C", "d"})
  BY <1>1, <1>2, <1>3, <1>4, <1>5 DEF Binds
<1> QED  BY <1>6 DEF m

LEMMA ViewKeys ==
  Binds(<< <<"z", <<"zoom">>>>, <<"?", <<"toggle-keymap-window">>>>, <<"v", <<"copy-mode-enter">>>> >>,
        {"z", "?", "v"})
<1> DEFINE m == << <<"z", <<"zoom">>>>, <<"?", <<"toggle-keymap-window">>>>, <<"v", <<"copy-mode-enter">>>> >>
           keys == <<"z", "?", "v">>
<1>1. Len(m) = 3 /\ m = [i \in 1..3 |-> m[i]]
  OBVIOUS
<1>0. \A i \in 1..3 : i = 1 \/ i = 2 \/ i = 3
  OBVIOUS
<1>2. \A i \in 1..3 : m[i][1] = keys[i]
  <2>1. /\ m[1][1] = keys[1] /\ m[2][1] = keys[2] /\ m[3][1] = keys[3]
    OBVIOUS
  <2> HIDE DEF m, keys
  <2> QED  BY <1>0, <2>1
<1>3. \A i \in 1..3 : IsAction(m[i][2])
  <2>1. /\ m[1][2] = <<"zoom">> /\ m[2][2] = <<"toggle-keymap-window">>
        /\ m[3][2] = <<"copy-mode-enter">>
    OBVIOUS
  <2> HIDE DEF m, keys
  <2>2. /\ IsAction(m[1][2]) /\ IsAction(m[2][2]) /\ IsAction(m[3][2])
    BY <2>1, Verbs
  <2> QED  BY <1>0, <2>2
<1>4. \A i \in 1..3 : keys[i] \in {"z", "?", "v"}
  OBVIOUS
<1>5. \A i, j \in 1..3 : keys[i] = keys[j] => i = j
  OBVIOUS
<1> HIDE DEF m, keys
<1>6. Binds(m, {"z", "?", "v"})
  BY <1>1, <1>2, <1>3, <1>4, <1>5 DEF Binds
<1> QED  BY <1>6 DEF m

LEMMA CopyKeys ==
  Binds(<< <<"Esc", <<"copy-mode-leave">>>>, <<"v", <<"copy-mode-end">>>>,
           <<"c", <<"copy-mode-copy">>>> >>,
        {"Esc", "v", "c"})
<1> DEFINE m == << <<"Esc", <<"copy-mode-leave">>>>, <<"v", <<"copy-mode-end">>>>,
                  <<"c", <<"copy-mode-copy">>>> >>
           keys == <<"Esc", "v", "c">>
<1>1. Len(m) = 3 /\ m = [i \in 1..3 |-> m[i]]
  OBVIOUS
<1>0. \A i \in 1..3 : i = 1 \/ i = 2 \/ i = 3
  OBVIOUS
<1>2. \A i \in 1..3 : m[i][1] = keys[i]
  <2>1. /\ m[1][1] = keys[1] /\ m[2][1] = keys[2] /\ m[3][1] = keys[3]
    OBVIOUS
  <2> HIDE DEF m, keys
  <2> QED  BY <1>0, <2>1
<1>3. \A i \in 1..3 : IsAction(m[i][2])
  <2>1. /\ m[1][2] = <<"copy-mode-leave">> /\ m[2][2] = <<"copy-mode-end">>
        /\ m[3][2] = <<"copy-mode-copy">>
    OBVIOUS
  <2> HIDE DEF m, keys
  <2>2. /\ IsAction(m[1][2]) /\ IsAction(m[2][2]) /\ IsAction(m[3][2])
    BY <2>1, Verbs
  <2> QED  BY <1>0, <2>2
<1>4. \A i \in 1..3 : keys[i] \in {"Esc", "v", "c"}
  OBVIOUS
<1>5. \A i, j \in 1..3 : keys[i] = keys[j] => i = j
  OBVIOUS
<1> HIDE DEF m, keys
<1>6. Binds(m, {"Esc", "v", "c"})
  BY <1>1, <1>2, <1>3, <1>4, <1>5 DEF Binds
<1> QED  BY <1>6 DEF m

DigitKeys == {"M-1", "M-2", "M-3", "M-4", "M-5", "M-6", "M-7", "M-8"}
LEMMA DigitsBind ==
  LET digits == <<"M-1", "M-2", "M-3", "M-4", "M-5", "M-6", "M-7", "M-8">>
  IN  Binds([i \in DOMAIN digits |-> <<digits[i], <<"select-task", i - 1>>>>], DigitKeys)
<1> DEFINE digits == <<"M-1", "M-2", "M-3", "M-4", "M-5", "M-6", "M-7", "M-8">>
           m == [i \in DOMAIN digits |-> <<digits[i], <<"select-task", i - 1>>>>]
<1>1. DOMAIN digits = 1..8 /\ \A i \in 1..8 : digits[i] \in DigitKeys
  BY DEF DigitKeys
<1>2. \A i, j \in 1..8 : digits[i] = digits[j] => i = j
  OBVIOUS
<1> HIDE DEF digits
<1>3. \A i \in 1..8 : m[i][1] = digits[i] /\ m[i][2] = <<"select-task", i - 1>>
  BY <1>1
<1>4. DOMAIN m = 1..8 /\ m = [i \in 1..8 |-> m[i]]
  BY <1>1
<1> HIDE DEF m
<1>5. Len(m) = 8
  BY <1>4
<1>6. \A i \in 1..8 : IsAction(m[i][2])
  <2>1. TAKE i \in 1..8
  <2>2. IsAction(<<"select-task", i - 1>>)
    BY DEF IsAction, IsSimple
  <2> QED  BY <1>3, <2>2
<1>7. Binds(m, DigitKeys)
  BY <1>1, <1>2, <1>3, <1>4, <1>5, <1>6 DEF Binds
<1> QED  BY <1>7 DEF m, digits

-----------------------------------------------------------------------------
LEMMA TasksBound == Bindings(DefaultKeys["tasks"])
<1> DEFINE focus == << <<"C-a", <<"toggle-focus">>>> >>
           quit == << <<"q", <<"quit">>>>, <<"Q", <<"force-quit">>>>, <<"p", <<"show-commands-menu">>>> >>
           down == Keys(<<"Down", "j">>, <<"next-task">>)
           up == Keys(<<"Up", "k">>, <<"prev-task">>)
           task ==
             << <<"s", <<"start">>>>, <<"x", <<"stop">>>>, <<"X", <<"kill">>>>, <<"r", <<"restart">>>>,
                <<"R", <<"force-restart">>>>, <<"e", <<"show-rename-task">>>>, <<"C-c", <<"send-key", "C-c">>>>,
                <<"a", <<"show-add-task">>>>, <<"C", <<"duplicate">>>>, <<"d", <<"show-remove-task">>>> >>
           scroll ==
             << <<"C-y", <<"scroll-up", "3 lines">>>>, <<"C-e", <<"scroll-down", "3 lines">>>>,
                <<"C-u", <<"scroll-up", "half">>>>, <<"C-d", <<"scroll-down", "half">>>>,
                <<"PageUp", <<"scroll-up", "screen">>>>, <<"PageDown", <<"scroll-down", "screen">>>> >>
           sight == << <<"z", <<"zoom">>>>, <<"?", <<"toggle-keymap-window">>>>, <<"v", <<"copy-mode-enter">>>> >>
           digits == <<"M-1", "M-2", "M-3", "M-4", "M-5", "M-6", "M-7", "M-8">>
           digit == [i \in DOMAIN digits |-> <<digits[i], <<"select-task", i - 1>>>>]
           K1 == {"C-a"} \cup {"q", "Q", "p"}
           K2 == K1 \cup {"Down", "j"}
           K3 == K2 \cup {"Up", "k"}
           K4 == K3 \cup {"s", "x", "X", "r", "R", "e", "C-c", "a", "C", "d"}
           K5 == K4 \cup {"C-y", "C-e", "C-u", "C-d", "PageUp", "PageDown"}
           K6 == K5 \cup {"z", "?", "v"}
<1>1. DefaultKeys["tasks"] = focus \o quit \o down \o up \o task \o scroll \o sight \o digit
  BY DEF DefaultKeys
<1>2. /\ Binds(focus, {"C-a"}) /\ Binds(quit, {"q", "Q", "p"})
      /\ Binds(task, {"s", "x", "X", "r", "R", "e", "C-c", "a", "C", "d"})
      /\ Binds(scroll, {"C-y", "C-e", "C-u", "C-d", "PageUp", "PageDown"})
      /\ Binds(sight, {"z", "?", "v"}) /\ Binds(digit, DigitKeys)
  BY FocusKeys, QuitKeys, TaskKeys, ScrollKeys, ViewKeys, DigitsBind
<1>3. Binds(down, {"Down", "j"}) /\ Binds(up, {"Up", "k"})
  <2> DEFINE a == <<"next-task">>
             b == <<"prev-task">>
  <2>1. IsAction(a) /\ IsAction(b)
    BY Verbs
  <2>2. down = Keys(<<"Down", "j">>, a) /\ up = Keys(<<"Up", "k">>, b)
    OBVIOUS
  <2> HIDE DEF a, b, down, up
  <2> QED  BY <2>1, <2>2, KeysBind
<1> HIDE DEF focus, quit, down, up, task, scroll, sight, digit
<1>4. Binds(focus \o quit, K1)
  BY <1>2, Joined
<1>5. Binds(focus \o quit \o down, K2)
  BY <1>3, <1>4, Joined
<1>6. Binds(focus \o quit \o down \o up, K3)
  BY <1>3, <1>5, Joined
<1>7. Binds(focus \o quit \o down \o up \o task, K4)
  BY <1>2, <1>6, Joined
<1>8. Binds(focus \o quit \o down \o up \o task \o scroll, K5)
  BY <1>2, <1>7, Joined
<1>9. Binds(focus \o quit \o down \o up \o task \o scroll \o sight, K6)
  BY <1>2, <1>8, Joined
<1>10. K6 \cap DigitKeys = {}
  BY DEF DigitKeys
<1> HIDE DEF K6
<1>11. Binds(focus \o quit \o down \o up \o task \o scroll \o sight \o digit, K6 \cup DigitKeys)
  BY <1>2, <1>9, <1>10, Joined
<1> QED  BY <1>1, <1>11 DEF Bindings

LEMMA CopyBound == Bindings(DefaultKeys["copy"])
<1> DEFINE focus == << <<"C-a", <<"toggle-focus">>>> >>
           scroll ==
             << <<"C-y", <<"scroll-up", "3 lines">>>>, <<"C-e", <<"scroll-down", "3 lines">>>>,
                <<"C-u", <<"scroll-up", "half">>>>, <<"C-d", <<"scroll-down", "half">>>>,
                <<"PageUp", <<"scroll-up", "screen">>>>, <<"PageDown", <<"scroll-down", "screen">>>> >>
           copy == << <<"Esc", <<"copy-mode-leave">>>>, <<"v", <<"copy-mode-end">>>>, <<"c", <<"copy-mode-copy">>>> >>
           up == Keys(<<"Up", "k">>, <<"copy-mode-move", "up">>)
           right == Keys(<<"Right", "l">>, <<"copy-mode-move", "right">>)
           down == Keys(<<"Down", "j">>, <<"copy-mode-move", "down">>)
           left == Keys(<<"Left", "h">>, <<"copy-mode-move", "left">>)
           K1 == {"C-a"} \cup {"C-y", "C-e", "C-u", "C-d", "PageUp", "PageDown"}
           K2 == K1 \cup {"Esc", "v", "c"}
           K3 == K2 \cup {"Up", "k"}
           K4 == K3 \cup {"Right", "l"}
           K5 == K4 \cup {"Down", "j"}
<1>1. DefaultKeys["copy"] = focus \o scroll \o copy \o up \o right \o down \o left
  BY DEF DefaultKeys
<1>2. /\ Binds(focus, {"C-a"}) /\ Binds(copy, {"Esc", "v", "c"})
      /\ Binds(scroll, {"C-y", "C-e", "C-u", "C-d", "PageUp", "PageDown"})
  BY FocusKeys, CopyKeys, ScrollKeys
<1>3. /\ Binds(up, {"Up", "k"}) /\ Binds(right, {"Right", "l"})
      /\ Binds(down, {"Down", "j"}) /\ Binds(left, {"Left", "h"})
  <2> DEFINE move(to) == <<"copy-mode-move", to>>
             a == move("up")
             b == move("right")
             c == move("down")
             d == move("left")
  <2>1. IsAction(a) /\ IsAction(b) /\ IsAction(c) /\ IsAction(d)
    BY Verbs
  <2>2. /\ up = Keys(<<"Up", "k">>, a) /\ right = Keys(<<"Right", "l">>, b)
        /\ down = Keys(<<"Down", "j">>, c) /\ left = Keys(<<"Left", "h">>, d)
    OBVIOUS
  <2> HIDE DEF a, b, c, d, up, right, down, left
  <2> QED  BY <2>1, <2>2, KeysBind
<1> HIDE DEF focus, scroll, copy, up, right, down, left
<1>4. Binds(focus \o scroll, K1)
  BY <1>2, Joined
<1>5. Binds(focus \o scroll \o copy, K2)
  BY <1>2, <1>4, Joined
<1>6. Binds(focus \o scroll \o copy \o up, K3)
  BY <1>3, <1>5, Joined
<1>7. Binds(focus \o scroll \o copy \o up \o right, K4)
  BY <1>3, <1>6, Joined
<1>8. Binds(focus \o scroll \o copy \o up \o right \o down, K5)
  BY <1>3, <1>7, Joined
<1>9. K5 \cap {"Left", "h"} = {}
  OBVIOUS
<1> HIDE DEF K5
<1>10. Binds(focus \o scroll \o copy \o up \o right \o down \o left, K5 \cup {"Left", "h"})
  BY <1>3, <1>8, <1>9, Joined
<1> QED  BY <1>1, <1>10 DEF Bindings

LEMMA DefaultsBound ==
  ASSUME NEW g \in Groups
  PROVE  Bindings(DefaultKeys[g])
<1>1. DefaultKeys["term"] = << <<"C-a", <<"toggle-focus">>>> >>
  BY DEF DefaultKeys
<1>2. Bindings(DefaultKeys["term"])
  BY <1>1, FocusKeys DEF Bindings
<1> QED  BY <1>2, TasksBound, CopyBound DEF Groups

-----------------------------------------------------------------------------
(* What is bound to a key, and what a hint names for an action.              *)
KeymapStep(p, map, x) == Bind(map, x)
KeymapKept(p, k, map) ==
  /\ DOMAIN map.by_key = {p.m[i][1] : i \in 1..k}
  /\ \A i \in 1..k : map.by_key[p.m[i][1]] = p.m[i][2]
  /\ \A a \in DOMAIN map.by_action : \E i \in 1..k : p.m[i][2] = a /\ map.by_action[a] = p.m[i][1]
Mapping == INSTANCE Folding WITH Step <- KeymapStep, Keeps <- KeymapKept
LEMMA KeymapFolds ==
  ASSUME NEW g, NEW p
  PROVE  KeymapFrom(g) = Mapping!Folded(p, Unbound, BoundIn(g))
BY DEF KeymapFrom, KeymapStep, Mapping!Folded, FoldLeft, MapThenFoldSet, Mapping!FoldLeft,
       Mapping!MapThenFoldSet, Max, Mapping!Max

LEMMA KeymapIs ==
  ASSUME NEW g \in Groups
  PROVE  /\ \A key \in DOMAIN Keymap[g].by_key : IsAction(Keymap[g].by_key[key])
         /\ \A a \in DOMAIN Keymap[g].by_action : Keymap[g].by_key[Keymap[g].by_action[a]] = a
<1> DEFINE m == BoundIn(g)
           n == Len(m)
           p == [m |-> m]
<1>1. PICK K : Binds(m, K)
  BY DefaultsBound, BoundOnce DEF Bindings
<1>2. n \in Nat /\ DOMAIN m = 1..n /\ p.m = m
  BY <1>1, InSeq DEF Binds
<1>3. /\ \A i \in 1..n : IsAction(m[i][2])
      /\ \A i, j \in 1..n : m[i][1] = m[j][1] => i = j
  BY <1>1 DEF Binds
<1>4. Keymap[g] = Mapping!Folded(p, Unbound, m)
  BY KeymapFolds DEF Keymap
<1> HIDE DEF m, n, p
<1>5. KeymapKept(p, 0, Unbound)
  BY DEF KeymapKept, Unbound
<1>6. ASSUME NEW k \in 1..n, NEW y, KeymapKept(p, k - 1, y) PROVE KeymapKept(p, k, KeymapStep(p, y, m[k]))
  <2> DEFINE z == KeymapStep(p, y, m[k])
             key == m[k][1]
             action == m[k][2]
  <2>1. /\ DOMAIN y.by_key = {m[i][1] : i \in 1..(k - 1)}
        /\ \A i \in 1..(k - 1) : y.by_key[m[i][1]] = m[i][2]
        /\ \A a \in DOMAIN y.by_action : \E i \in 1..(k - 1) : m[i][2] = a /\ y.by_action[a] = m[i][1]
    BY <1>2, <1>6 DEF KeymapKept
  <2>2. \A i \in 1..k : i = k \/ i \in 1..(k - 1)
    BY <1>2
  <2>3. z.by_key = With(y.by_key, key, action) /\ z.by_action = With(y.by_action, action, key)
    BY DEF KeymapStep, Bind
  <2>4. \A i \in 1..(k - 1) : m[i][1] # key
    BY <1>2, <1>3
  <2>5. DOMAIN z.by_key = {m[i][1] : i \in 1..k}
    <3>1. DOMAIN z.by_key = DOMAIN y.by_key \cup {key}
      BY <2>3 DEF With
    <3>2. {m[i][1] : i \in 1..k} = {m[i][1] : i \in 1..(k - 1)} \cup {m[k][1]}
      BY <1>2, <2>2
    <3> QED  BY <2>1, <3>1, <3>2
  <2> HIDE DEF z, key, action
  <2>6. \A i \in 1..k : z.by_key[m[i][1]] = m[i][2]
    <3>1. TAKE i \in 1..k
    <3>2. CASE i = k
      BY <2>3, <3>2 DEF With, key, action
    <3>3. CASE i \in 1..(k - 1)
      BY <2>1, <2>3, <2>4, <3>3 DEF With
    <3> QED  BY <2>2, <3>2, <3>3
  <2>7. \A a \in DOMAIN z.by_action : \E i \in 1..k : m[i][2] = a /\ z.by_action[a] = m[i][1]
    <3>1. TAKE a \in DOMAIN z.by_action
    <3>2. CASE a = action
      BY <1>2, <2>3, <3>2 DEF With, key, action
    <3>3. CASE a # action
      <4>1. a \in DOMAIN y.by_action /\ z.by_action[a] = y.by_action[a]
        BY <2>3, <3>1, <3>3 DEF With
      <4>2. PICK i \in 1..(k - 1) : m[i][2] = a /\ y.by_action[a] = m[i][1]
        BY <2>1, <4>1
      <4>3. i \in 1..k
        BY <1>2
      <4> QED  BY <4>1, <4>2, <4>3
    <3> QED  BY <3>2, <3>3
  <2> QED  BY <1>2, <2>5, <2>6, <2>7 DEF KeymapKept, z
<1>7. KeymapKept(p, n, Mapping!Folded(p, Unbound, m))
  BY ONLY <1>2, <1>5, <1>6, Mapping!FoldKeeps
<1>8. /\ DOMAIN Keymap[g].by_key = {m[i][1] : i \in 1..n}
      /\ \A i \in 1..n : Keymap[g].by_key[m[i][1]] = m[i][2]
      /\ \A a \in DOMAIN Keymap[g].by_action : \E i \in 1..n : m[i][2] = a /\ Keymap[g].by_action[a] = m[i][1]
  BY <1>2, <1>4, <1>7 DEF KeymapKept
<1> QED  BY <1>3, <1>8

\* The key that a hint gives for an action does that action.
THEOREM HintsDoWork == HintsWork
<1>1. DOMAIN Keymap = Groups
  BY DEF Keymap
<1> QED  BY <1>1, KeymapIs DEF HintsWork

-----------------------------------------------------------------------------
(* Keys and clicks.                                                          *)
LEMMA ClosingAndActing ==
  ASSUME NEW x, Sound(x), NEW who \in Attachments, NEW action, IsAction(action)
  PROVE  Still(x, Act(Close(x), <<who>>, action))
<1>1. Still(x, Close(x)) /\ Sound(Close(x))
  BY Closing DEF Still
<1>2. Typist(<<who>>)
  BY DEF Typist
<1>3. Still(Close(x), Act(Close(x), <<who>>, action))
  BY <1>1, <1>2, ActingOn
<1> QED  BY <1>1, <1>3, StillTwice

LEMMA ModalKinds ==
  ASSUME NEW m \in Modals
  PROVE  /\ m.kind \in {"none", "quit", "add", "rename", "remove", "menu"}
         /\ m.kind = "menu" => m \in [kind : {"menu"}, query : DOMAIN MenuItems, list : Lists]
BY DEF Modals

LEMMA MenuStep ==
  ASSUME NEW x, Sound(x), NEW m, m = x.v.modal, m.kind = "menu",
         NEW items, items = MenuItems[m.query], NEW n, n = Len(items)
  PROVE  /\ n \in Nat /\ \A i \in 1..n : IsAction(items[i])
         /\ m.list.selected \in Nat /\ (m.list.selected < n => m.list.selected + 1 \in 1..n)
         /\ \A index \in Nat : Still(x, Open(x, [m EXCEPT !.list = SelectAt(m.list, index, n)]))
         /\ \A key \in DOMAIN MenuItems : Still(x, Open(x, [m EXCEPT !.query = key]))
<1>1. m \in [kind : {"menu"}, query : DOMAIN MenuItems, list : Lists]
  BY ModalKinds DEF Sound, Whole, Views
<1>2. n \in Nat /\ DOMAIN items = 1..n /\ \A i \in 1..n : IsAction(items[i])
  BY <1>1, ConsoleAssumption
<1>3. m.list.selected \in Nat
  BY <1>1 DEF Lists
<1>4. ASSUME NEW index \in Nat PROVE Still(x, Open(x, [m EXCEPT !.list = SelectAt(m.list, index, n)]))
  <2> DEFINE l == SelectAt(m.list, index, n)
  <2>1. l \in Lists
    BY <1>1, <1>2, SelectAtIs
  <2> HIDE DEF l
  <2> DEFINE o == [m EXCEPT !.list = l]
  <2>2. o \in Modals
    BY <1>1, <2>1 DEF Modals
  <2> HIDE DEF o
  <2>3. Still(x, Open(x, o))
    BY <2>2, Opening
  <2> QED  BY <2>3 DEF o, l
<1>5. ASSUME NEW key \in DOMAIN MenuItems PROVE Still(x, Open(x, [m EXCEPT !.query = key]))
  <2> DEFINE o == [m EXCEPT !.query = key]
  <2>1. o \in Modals
    BY <1>1 DEF Modals
  <2> HIDE DEF o
  <2>2. Still(x, Open(x, o))
    BY <2>1, Opening
  <2> QED  BY <2>2 DEF o
<1>6. m.list.selected < n => m.list.selected + 1 \in 1..n
  BY ONLY <1>2, <1>3
<1> QED  BY ONLY <1>2, <1>3, <1>4, <1>5, <1>6

LEMMA MenuKeys ==
  ASSUME NEW x, Sound(x), NEW who \in Attachments, NEW key, x.v.modal.kind = "menu"
  PROVE  Still(x, MenuKey(x, who, key))
<1> DEFINE m == x.v.modal
           list == m.list
           items == MenuItems[m.query]
           n == Len(items)
           y == MenuKey(x, who, key)
<1>1. /\ n \in Nat /\ \A i \in 1..n : IsAction(items[i])
      /\ list.selected \in Nat /\ (list.selected < n => list.selected + 1 \in 1..n)
      /\ \A index \in Nat : Still(x, Open(x, [m EXCEPT !.list = SelectAt(m.list, index, n)]))
      /\ \A k \in DOMAIN MenuItems : Still(x, Open(x, [m EXCEPT !.query = k]))
  BY MenuStep
<1> DEFINE moved(by) == IF n = 0 THEN x
                        ELSE [x EXCEPT !.v.modal.list = SelectAt(@, (list.selected + n + by) % n, n)]
<1>2. \A k \in {"esc", "enter", "down", "up"} : k \notin DOMAIN MenuItems
  BY ConsoleAssumption
<1>3. ASSUME NEW by \in {1, -1} PROVE Still(x, moved(by))
  <2>1. CASE n = 0
    BY <2>1, StillSelf
  <2>2. CASE n # 0
    <3> DEFINE index == (list.selected + n + by) % n
               l == SelectAt(m.list, index, n)
    <3>1. index \in Nat
      <4>1. list.selected + n + by \in Nat /\ n \in Nat \ {0}
        BY <1>1, <2>2
      <4> QED  BY <4>1, RestOf
    <3>2. Still(x, Open(x, [m EXCEPT !.list = l]))
      BY <1>1, <3>1
    <3>3. moved(by) = [x EXCEPT !.v.modal.list = l]
      BY <2>2
    <3> HIDE DEF l
    <3>4. Open(x, [m EXCEPT !.list = l]) = [x EXCEPT !.v.modal.list = l]
      BY DEF Open
    <3> QED  BY <3>2, <3>3, <3>4
  <2> QED  BY <2>1, <2>2
<1>4. CASE key = "esc"
  BY <1>2, <1>4, Closing DEF MenuKey
<1>5. CASE key = "enter" /\ list.selected < n
  <2>1. y = Act(Close(x), <<who>>, items[list.selected + 1])
    BY <1>2, <1>5 DEF MenuKey
  <2>2. IsAction(items[list.selected + 1])
    BY <1>1, <1>5
  <2> QED  BY <2>1, <2>2, ClosingAndActing
<1>6. CASE key = "enter" /\ ~(list.selected < n)
  <2>1. y = Close(x)
    BY <1>2, <1>6 DEF MenuKey
  <2> QED  BY <2>1, Closing
<1>7. CASE key = "down"
  <2>1. y = moved(1)
    BY <1>2, <1>7 DEF MenuKey
  <2> QED  BY <1>3, <2>1
<1>8. CASE key = "up"
  <2>1. y = moved(-1)
    BY <1>2, <1>8 DEF MenuKey
  <2> QED  BY <1>3, <2>1
<1>9. CASE key \notin {"esc", "enter", "down", "up"} /\ key \in DOMAIN MenuItems
  <2>1. y = [x EXCEPT !.v.modal.query = key]
    BY <1>9 DEF MenuKey
  <2>2. Open(x, [m EXCEPT !.query = key]) = [x EXCEPT !.v.modal.query = key]
    BY DEF Open
  <2> QED  BY <1>1, <1>9, <2>1, <2>2
<1>10. CASE key \notin {"esc", "enter", "down", "up"} /\ key \notin DOMAIN MenuItems
  <2>1. y = x
    BY <1>10 DEF MenuKey
  <2> QED  BY <2>1, StillSelf
<1> QED  BY <1>4, <1>5, <1>6, <1>7, <1>8, <1>9, <1>10

LEMMA Commanding == \A object : IsAction(<<"command", object>>) /\ \A verb : IsAction(<<"command", verb, object>>)
BY DEF IsAction, IsSimple

LEMMA Answering ==
  ASSUME NEW x, Sound(x), NEW who \in Attachments, NEW key
  PROVE  /\ Still(x, QuitKey(x, who, key)) /\ Still(x, RemoveKey(x, who, key))
         /\ Still(x, AddKey(x, who, key)) /\ Still(x, RenameKey(x, who, key))
<1>1. Still(x, Close(x)) /\ Sound(Close(x)) /\ Still(x, x)
  BY Closing, StillSelf DEF Still
<1>2. IsAction(<<"command", "quit">>) /\ IsAction(<<"command", "remove", x.v.modal.id>>)
      /\ IsAction(<<"add-task">>) /\ IsAction(<<"rename">>)
  BY Commanding, Verbs
<1>3. Still(x, QuitKey(x, who, key))
  <2>1. Still(Close(x), Detach(Close(x), who))
    BY <1>1, Detaching DEF Still
  <2>2. Still(x, Detach(Close(x), who))
    BY <1>1, <2>1, StillTwice
  <2>3. Still(x, Act(Close(x), <<who>>, <<"command", "quit">>))
    BY <1>2, ClosingAndActing
  <2> QED  BY <1>1, <2>2, <2>3 DEF QuitKey
<1>4. Still(x, RemoveKey(x, who, key))
  <2>1. Still(x, Act(Close(x), <<who>>, <<"command", "remove", x.v.modal.id>>))
    BY <1>2, ClosingAndActing
  <2> QED  BY <1>1, <2>1 DEF RemoveKey
<1>5. Still(x, AddKey(x, who, key))
  <2>1. Still(x, Act(Close(x), <<who>>, <<"add-task">>))
    BY <1>2, ClosingAndActing
  <2> QED  BY <1>1, <2>1 DEF AddKey
<1>6. Still(x, RenameKey(x, who, key))
  <2>1. Still(x, Act(Close(x), <<who>>, <<"rename">>))
    BY <1>2, ClosingAndActing
  <2> QED  BY <1>1, <2>1 DEF RenameKey
<1> QED  BY <1>3, <1>4, <1>5, <1>6

LEMMA Typing ==
  ASSUME NEW x, Sound(x), NEW who \in Attachments, NEW key
  PROVE  Still(x, Typed(x, who, key))
<1> DEFINE g == KeymapGroup(x.v)
<1>1. x.v.modal.kind \in {"none", "quit", "add", "rename", "remove", "menu"}
  BY ModalKinds DEF Sound, Whole, Views
<1>2. CASE x.v.modal.kind # "none"
  <2>1. Still(x, Dialog(x, who, key))
    <3>1. CASE x.v.modal.kind = "menu"
      BY <3>1, MenuKeys DEF Dialog
    <3>2. CASE x.v.modal.kind # "menu"
      BY <1>1, <1>2, <3>2, Answering DEF Dialog
    <3> QED  BY <3>1, <3>2
  <2> QED  BY <1>2, <2>1 DEF Typed
<1>3. CASE x.v.modal.kind = "none"
  <2>1. g \in Groups
    BY DEF KeymapGroup, Groups
  <2> HIDE DEF g
  <2>2. CASE key \in DOMAIN Keymap[g].by_key
    <3>1. Typed(x, who, key) = Act(x, <<who>>, Keymap[g].by_key[key])
      BY <1>3, <2>2 DEF Typed, g
    <3>2. IsAction(Keymap[g].by_key[key])
      BY <2>1, <2>2, KeymapIs
    <3>3. Typist(<<who>>)
      BY DEF Typist
    <3> QED  BY <3>1, <3>2, <3>3, ActingOn
  <2>3. CASE key \notin DOMAIN Keymap[g].by_key
    <3>1. Typed(x, who, key) = x
      BY <1>3, <2>3 DEF Typed, g
    <3> QED  BY <3>1, StillSelf
  <2> QED  BY <2>2, <2>3
<1> QED  BY <1>2, <1>3

-----------------------------------------------------------------------------
LEMMA Clicking ==
  ASSUME NEW x, Sound(x), NEW click, click.row \in Nat
  PROVE  Still(x, Clicked(x, click))
<1> DEFINE v == x.v
           row == click.row
           there == row < ListHeight(v) /\ v.scope # "zoom"
           w == IF click.kind = "down" /\ v.scope = "term" THEN [v EXCEPT !.scope = "tasks"] ELSE v
           y == Clicked(x, click)
<1>1. x = [v |-> x.v, o |-> x.o, n |-> x.n, a |-> x.a] /\ x.v \in Views
  BY DEF Sound, Whole
<1>2. v.list \in Lists /\ v.list.selected \in Nat
  BY <1>1 DEF Views, Lists
<1>3. CASE v.modal.kind # "none"
  <2>1. y = x
    BY <1>3 DEF Clicked
  <2> QED  BY <2>1, StillSelf
<1>4. CASE v.modal.kind = "none" /\ click.on = "term"
  <2>1. CASE click.kind = "down" /\ v.scope = "tasks"
    <3>1. y = [x EXCEPT !.v.scope = "term"]
      BY <1>4, <2>1 DEF Clicked
    <3> QED  BY <3>1, Scoping
  <2>2. CASE ~(click.kind = "down" /\ v.scope = "tasks")
    <3>1. y = x
      BY <1>4, <2>2 DEF Clicked
    <3> QED  BY <3>1, StillSelf
  <2> QED  BY <2>1, <2>2
<1>5. CASE v.modal.kind = "none" /\ click.on # "term" /\ ~there
  <2>1. y = x
    BY <1>5 DEF Clicked
  <2> QED  BY <2>1, StillSelf
<1>6. CASE v.modal.kind = "none" /\ click.on # "term" /\ there /\ click.kind = "down"
  <2> DEFINE z == IF v.scope = "term" THEN [x EXCEPT !.v.scope = "tasks"] ELSE x
             at == IndexAt(w.list, row)
  <2>1. Still(x, z)
    BY Scoping, StillSelf
  <2>2. z.v = w /\ z = [x EXCEPT !.v = w] /\ w.list = v.list
    BY <1>1, <1>6 DEF Views
  <2>3. y = [x EXCEPT !.v = IF at = {} THEN w ELSE Select(w, Min(at))]
    BY <1>6 DEF Clicked
  <2> HIDE DEF z, w
  <2>4. CASE at = {}
    BY <2>1, <2>2, <2>3, <2>4
  <2>5. CASE at # {}
    <3>1. at = {v.list.top + row} /\ v.list.top + row \in Nat
      BY <1>2, <2>2, <2>5 DEF IndexAt, Lists
    <3> HIDE DEF at
    <3> DEFINE index == Min(at)
    <3>2. index \in Nat
      <4> DEFINE t == v.list.top + row
      <4>1. at = {t, t} /\ t \in Nat
        BY <3>1
      <4> HIDE DEF t
      <4>2. Min({t, t}) = t
        BY <4>1, Lesser
      <4> QED  BY <4>1, <4>2
    <3> HIDE DEF index
    <3>3. y = [x EXCEPT !.v = Select(w, index)]
      BY <2>3, <2>5 DEF index
    <3>4. y = [z EXCEPT !.v = Select(z.v, index)]
      BY <1>1, <2>2, <3>3
    <3>5. Still(z, y)
      BY <2>1, <3>2, <3>4, Selecting DEF Still
    <3> QED  BY <2>1, <3>5, StillTwice
  <2> QED  BY <2>4, <2>5
<1>7. CASE v.modal.kind = "none" /\ click.on # "term" /\ there /\ click.kind = "wheel-down"
  <2>1. y = [x EXCEPT !.v = Select(x.v, v.list.selected + 1)]
    BY <1>7 DEF Clicked
  <2> QED  BY <1>2, <2>1, Selecting
<1>8. CASE v.modal.kind = "none" /\ click.on # "term" /\ there /\ click.kind = "wheel-up"
  <2>1. y = [x EXCEPT !.v = Select(x.v, Sub(v.list.selected, 1))]
    BY <1>8 DEF Clicked
  <2>2. Sub(v.list.selected, 1) \in Nat
    BY <1>2, Subs
  <2> QED  BY <2>1, <2>2, Selecting
<1>9. CASE v.modal.kind = "none" /\ click.on # "term" /\ there /\ click.kind \notin {"down", "wheel-down", "wheel-up"}
  <2>1. y = x
    BY <1>9 DEF Clicked
  <2> QED  BY <2>1, StillSelf
<1> QED  BY <1>3, <1>4, <1>5, <1>6, <1>7, <1>8, <1>9

-----------------------------------------------------------------------------
(* What the console receives.                                                *)
News == {"added", "removed", "state"}
Messages ==
  [is : {"added"}, id : Ids, up : BOOLEAN, vt : BOOLEAN] \cup [is : {"removed"}, id : Ids]
  \cup [is : {"state"}, id : Ids, up : BOOLEAN]
  \cup [is : {"attach", "resize"}, who : Attachments, size : Sizes] \cup [is : {"detach"}, who : Attachments]
  \cup [is : {"key"}, who : Attachments, key : KeysTyped] \cup [is : {"mouse"}, click : Clicks]
  \cup [is : {"action"}, action : {<<"quit">>}] \cup [is : {"stop"}]

LEMMA MessageKinds ==
  ASSUME NEW m \in Messages
  PROVE  /\ m.is \in {"added", "removed", "state", "attach", "resize", "detach", "key", "mouse", "action", "stop"}
         /\ m.is \in News => m.id \in Ids
         /\ m.is \in {"added", "state"} => m.up \in BOOLEAN
         /\ m.is = "added" => m.vt \in BOOLEAN
         /\ m.is \in {"attach", "resize", "detach", "key"} => m.who \in Attachments
         /\ m.is \in {"attach", "resize"} => m.size \in Sizes
         /\ m.is = "mouse" => m.click \in Clicks
         /\ m.is = "action" => m.action = <<"quit">>
BY DEF Messages, News

LEMMA Stopping ==
  ASSUME NEW x, Sound(x)
  PROVE  Still(x, [x EXCEPT !.v.stop = TRUE])
<1> DEFINE v == [x.v EXCEPT !.stop = TRUE]
           y == [x EXCEPT !.v.stop = TRUE]
<1>1. x = [v |-> x.v, o |-> x.o, n |-> x.n, a |-> x.a] /\ x.v \in Views
  BY DEF Sound, Whole
<1>2. v \in Views /\ v.tasks = x.v.tasks /\ v.viewers = x.v.viewers /\ v.misled = x.v.misled /\ SameTurn(x.v, v)
  BY <1>1 DEF Views, SameTurn
<1>3. y = [v |-> v, o |-> x.o, n |-> x.n, a |-> x.a]
  <2> DEFINE b == TRUE
  <2>1. v = [x.v EXCEPT !.stop = b] /\ y = [x EXCEPT !.v.stop = b]
    OBVIOUS
  <2> HIDE DEF v, y, b
  <2> QED  BY <1>1, <2>1
<1> HIDE DEF v, y
<1>4. Still(x, y)
  BY <1>2, <1>3, ViewChanged
<1> QED  BY <1>4 DEF y

\* Whatever attachments send, the tasks stay as they are.
LEMMA Heeding ==
  ASSUME NEW x, Sound(x), NEW m \in Messages, m.is \notin News
  PROVE  Sound(HandleTaskCmd(x, m)) /\ Loud(x, HandleTaskCmd(x, m))
<1> DEFINE y == HandleTaskCmd(x, m)
<1>1. CASE m.is = "attach"
  <2>1. y = Attach(x, m.who, m.size)
    BY <1>1 DEF HandleTaskCmd
  <2> QED  BY <1>1, <2>1, MessageKinds, Attaching
<1>2. CASE m.is = "detach"
  <2>1. y = Detach(x, m.who)
    BY <1>2 DEF HandleTaskCmd
  <2> QED  BY <1>2, <2>1, MessageKinds, Detaching, QuietIsLoud
<1>3. CASE m.is = "resize"
  <2>1. y = Resized(x, m.who, m.size)
    BY <1>3 DEF HandleTaskCmd
  <2> QED  BY <1>3, <2>1, MessageKinds, Resizing
<1>4. CASE m.is = "key"
  <2>1. y = Typed(x, m.who, m.key)
    BY <1>4 DEF HandleTaskCmd
  <2> QED  BY <1>4, <2>1, MessageKinds, Typing, QuietIsLoud DEF Still
<1>5. CASE m.is = "mouse"
  <2>1. y = Clicked(x, m.click)
    BY <1>5 DEF HandleTaskCmd
  <2>2. m.click.row \in Nat
    BY <1>5, MessageKinds, ConsoleAssumption
  <2> QED  BY <2>1, <2>2, Clicking, QuietIsLoud DEF Still
<1>6. CASE m.is = "action"
  <2> DEFINE action == <<"quit">>
  <2>1. y = Act(x, <<>>, action)
    BY <1>6, MessageKinds DEF HandleTaskCmd
  <2>2. IsAction(action)
    BY Verbs
  <2>3. Typist(<<>>)
    BY DEF Typist
  <2> HIDE DEF action
  <2> QED  BY <2>1, <2>2, <2>3, ActingOn, QuietIsLoud DEF Still
<1>7. CASE m.is = "stop"
  <2>1. y = [x EXCEPT !.v.stop = TRUE]
    BY <1>7 DEF HandleTaskCmd
  <2> QED  BY <2>1, Stopping, QuietIsLoud DEF Still
<1> QED  BY <1>1, <1>2, <1>3, <1>4, <1>5, <1>6, <1>7, MessageKinds DEF News

-----------------------------------------------------------------------------
(* How what is shown, what there is and what is on its way agree: x is the    *)
(* console and the tasks outside, q the news of tasks it has not handled yet. *)
Come(o) == Len(TaskIds) - Len(o.coming)
\* Whatever is known of has come, and the rest comes in the order of TaskIds.
Coming(x, q) ==
  /\ Len(x.o.coming) <= Len(TaskIds)
  /\ \A k \in 1..Len(x.o.coming) : x.o.coming[k] = TaskIds[Come(x.o) + k]
  /\ \A i \in 1..Len(x.o.tasks) : Rank(x.o.tasks[i].id) <= Come(x.o)
  /\ \A i \in 1..Len(x.v.tasks) : Rank(x.v.tasks[i].id) <= Come(x.o)
  /\ \A k \in 1..Len(x.n) : Rank(x.n[k].id) <= Come(x.o)
  /\ \A j \in 1..Len(q) : q[j].is \in News => Rank(q[j].id) <= Come(x.o)
\* Tasks are heard of in the order they came, and before their copy mode.
InOrder(x, q) ==
  /\ Sorted(x.v.tasks) /\ Sorted(x.o.tasks)
  /\ \A i, j \in 1..Len(q) : i < j /\ q[i].is = "added" /\ q[j].is = "added" => Rank(q[i].id) < Rank(q[j].id)
  /\ \A j \in 1..Len(q), i \in 1..Len(x.v.tasks) : q[j].is = "added" => Rank(x.v.tasks[i].id) < Rank(q[j].id)
  /\ \A j \in 1..Len(q), k \in 1..Len(x.n) : q[j].is = "added" => x.n[k].id # q[j].id
\* A task that is said to be gone is gone, and has been said to come.
Going(x, q) ==
  \A i \in 1..Len(q) :
    q[i].is = "removed" =>
      q[i].id \notin Alive(x.o) /\ \A j \in i + 1..Len(q) : ~(q[j].is = "added" /\ q[j].id = q[i].id)
\* There is what is shown or about to be, and not about to go.
InTime(v, q, id) ==
  /\ id \in Shown(v) \/ \E j \in 1..Len(q) : q[j].is = "added" /\ q[j].id = id /\ q[j].vt
  /\ \A j \in 1..Len(q) : ~(q[j].is = "removed" /\ q[j].id = id)
HasTerminal(o, id) == \E i \in 1..Len(o.tasks) : o.tasks[i].id = id /\ o.tasks[i].vt
There(x, q) == \A id \in Ids : HasTerminal(x.o, id) <=> InTime(x.v, q, id)
\* The last that is said of a task is how it is.
Says(m, id) == m.is \in {"added", "state"} /\ m.id = id
TellsOf(t, rows, q) ==
  /\ \A k \in 1..Len(q) :
       Says(q[k], t.id) /\ (\A j \in k + 1..Len(q) : ~Says(q[j], t.id)) => (q[k].up <=> t.up)
  /\ (\A k \in 1..Len(q) : ~Says(q[k], t.id))
       => \A r \in 1..Len(rows) : rows[r].id = t.id => (rows[r].up <=> t.up)
Told(x, q) == \A i \in 1..Len(x.o.tasks) : TellsOf(x.o.tasks[i], x.v.tasks, q)
Agrees(x, q) == Coming(x, q) /\ InOrder(x, q) /\ Going(x, q) /\ There(x, q) /\ Told(x, q)

LEMMA TailIs ==
  ASSUME NEW S, NEW q \in Seq(S), q # <<>>
  PROVE  /\ Tail(q) \in Seq(S) /\ Head(q) \in S /\ Head(q) = q[1] /\ Len(q) \in Nat /\ Len(q) >= 1
         /\ Len(Tail(q)) = Len(q) - 1 /\ \A k \in 1..Len(Tail(q)) : Tail(q)[k] = q[k + 1] /\ k + 1 \in 1..Len(q)
OBVIOUS

LEMMA EndIs ==
  ASSUME NEW S, NEW q \in Seq(S), NEW m \in S
  PROVE  /\ Append(q, m) \in Seq(S) /\ Len(q) \in Nat /\ Len(Append(q, m)) = Len(q) + 1
         /\ Append(q, m)[Len(q) + 1] = m
         /\ \A k \in 1..Len(q) : Append(q, m)[k] = q[k] /\ k \in 1..Len(Append(q, m))
         /\ \A k \in 1..Len(Append(q, m)) : k \in 1..Len(q) \/ k = Len(q) + 1
OBVIOUS

LEMMA Typed1 ==
  ASSUME NEW x, Whole(x)
  PROVE  /\ x.v.tasks \in Seq(Rows) /\ x.o.tasks \in Seq(Jobs) /\ x.n \in Seq(Notes) /\ x.o.coming \in Seq(Ids)
         /\ \A i \in 1..Len(x.v.tasks) : x.v.tasks[i].id \in Ids /\ Rank(x.v.tasks[i].id) \in Nat
         /\ \A i \in 1..Len(x.o.tasks) : x.o.tasks[i].id \in Ids /\ Rank(x.o.tasks[i].id) \in Nat
         /\ \A i \in 1..Len(x.n) : x.n[i].id \in Ids /\ Rank(x.n[i].id) \in Nat
         /\ \A id : id \in Shown(x.v) <=> \E i \in 1..Len(x.v.tasks) : x.v.tasks[i].id = id
         /\ \A id : id \in Alive(x.o) <=> \E i \in 1..Len(x.o.tasks) : x.o.tasks[i].id = id
         /\ Come(x.o) \in Int
<1>1. x.v.tasks \in Seq(Rows) /\ x.o.tasks \in Seq(Jobs) /\ x.n \in Seq(Notes) /\ x.o.coming \in Seq(Ids)
  BY DEF Whole, Views, Outsides
<1>2. /\ \A t \in Rows : t.id \in Ids
      /\ \A t \in Jobs : t.id \in Ids
      /\ \A t \in Notes : t.id \in Ids
      /\ \A id \in Ids : Rank(id) \in Nat
  BY Ranks DEF Rows, Jobs, Notes
<1>3. \A i \in 1..Len(x.v.tasks) : x.v.tasks[i] \in Rows
  BY <1>1
<1>4. \A i \in 1..Len(x.o.tasks) : x.o.tasks[i] \in Jobs
  BY <1>1
<1>5. \A i \in 1..Len(x.n) : x.n[i] \in Notes
  BY <1>1
<1>6. \A id : id \in Shown(x.v) <=> \E i \in 1..Len(x.v.tasks) : x.v.tasks[i].id = id
  BY <1>1 DEF Shown
<1>7. \A id : id \in Alive(x.o) <=> \E i \in 1..Len(x.o.tasks) : x.o.tasks[i].id = id
  BY <1>1 DEF Alive
<1>8. Come(x.o) \in Int
  BY <1>1, Ranks DEF Come
<1> QED  BY <1>1, <1>2, <1>3, <1>4, <1>5, <1>6, <1>7, <1>8

LEMMA NewsRanks ==
  ASSUME NEW q \in Seq(Messages)
  PROVE  /\ \A j \in 1..Len(q) : q[j] \in Messages
         /\ \A j \in 1..Len(q) : q[j].is \in News => q[j].id \in Ids /\ Rank(q[j].id) \in Nat
<1>1. \A j \in 1..Len(q) : q[j] \in Messages
  OBVIOUS
<1> QED  BY <1>1, MessageKinds, Ranks

\* What leaves the tasks and the rows as they are leaves the agreement.
SameIds(v, w) == Len(w.tasks) = Len(v.tasks) /\ \A i \in 1..Len(v.tasks) : w.tasks[i].id = v.tasks[i].id
LEMMA Following ==
  ASSUME NEW x, Whole(x), NEW y, Whole(y), SameIds(x.v, y.v), y.o.tasks = x.o.tasks, y.o.coming = x.o.coming,
         NotesOf(x, y), NEW q \in Seq(Messages), Coming(x, q), InOrder(x, q), Going(x, q), There(x, q)
  PROVE  Coming(y, q) /\ InOrder(y, q) /\ Going(y, q) /\ There(y, q)
<1>0. \A id : id \in Shown(x.v) => \E i \in 1..Len(x.v.tasks) : x.v.tasks[i].id = id
  BY Typed1
<1> USE Typed1
<1>1. /\ Len(y.v.tasks) = Len(x.v.tasks)
      /\ \A i \in 1..Len(x.v.tasks) : y.v.tasks[i].id = x.v.tasks[i].id
      /\ Shown(y.v) = Shown(x.v) /\ Alive(y.o) = Alive(x.o) /\ Come(y.o) = Come(x.o)
  <2>1. /\ Len(y.v.tasks) = Len(x.v.tasks)
        /\ \A i \in 1..Len(x.v.tasks) : y.v.tasks[i].id = x.v.tasks[i].id
    BY DEF SameIds
  <2>2. \A id : id \in Shown(y.v) <=> \E i \in 1..Len(y.v.tasks) : y.v.tasks[i].id = id
    BY Typed1
  <2>3. Shown(y.v) = Shown(x.v)
    <3>1. \A id : id \in Shown(x.v) <=> \E i \in 1..Len(x.v.tasks) : x.v.tasks[i].id = id
      BY Typed1
    <3>2. \A id : id \in Shown(x.v) <=> id \in Shown(y.v)
      BY ONLY <2>1, <2>2, <3>1
    <3> QED  BY <3>2
  <2> QED  BY <2>1, <2>3 DEF Alive, Come
<1>2. Coming(y, q)
  <2>1. \A k \in 1..Len(y.n) : Rank(y.n[k].id) <= Come(x.o)
    <3>1. TAKE k \in 1..Len(y.n)
    <3>2. CASE y.n[k].id \in Shown(x.v)
      <4>1. PICK i \in 1..Len(x.v.tasks) : x.v.tasks[i].id = y.n[k].id
        BY ONLY <1>0, <3>2
      <4> QED  BY <4>1 DEF Coming
    <3>3. CASE \E j \in 1..Len(x.n) : x.n[j].id = y.n[k].id
      BY <3>3 DEF Coming
    <3> QED  BY <3>2, <3>3 DEF NotesOf
  <2> QED  BY <1>1, <2>1 DEF Coming
<1>3. InOrder(y, q)
  <2>1. Sorted(y.v.tasks)
    <3>1. DOMAIN y.v.tasks = 1..Len(x.v.tasks) /\ DOMAIN x.v.tasks = 1..Len(x.v.tasks)
      BY <1>1
    <3> QED  BY <1>1, <3>1 DEF InOrder, Sorted
  <2>2. ASSUME NEW j \in 1..Len(q), NEW k \in 1..Len(y.n), q[j].is = "added" PROVE y.n[k].id # q[j].id
    <3>1. CASE y.n[k].id \in Shown(x.v)
      <4>1. PICK i \in 1..Len(x.v.tasks) : x.v.tasks[i].id = y.n[k].id
        BY ONLY <1>0, <3>1
      <4>2. Rank(x.v.tasks[i].id) < Rank(q[j].id) /\ Rank(x.v.tasks[i].id) \in Nat
        BY <2>2 DEF InOrder
      <4> QED  BY <4>1, <4>2
    <3>2. CASE \E i \in 1..Len(x.n) : x.n[i].id = y.n[k].id
      BY <2>2, <3>2 DEF InOrder
    <3> QED  BY <3>1, <3>2 DEF NotesOf
  <2> QED  BY <1>1, <2>1, <2>2 DEF InOrder
<1>4. Going(y, q)
  BY <1>1 DEF Going
<1>5. There(y, q)
  <2>1. \A id : HasTerminal(y.o, id) <=> HasTerminal(x.o, id)
    BY DEF HasTerminal
  <2>2. \A id : InTime(y.v, q, id) <=> InTime(x.v, q, id)
    BY <1>1 DEF InTime
  <2> QED  BY <2>1, <2>2 DEF There
<1> QED  BY <1>2, <1>3, <1>4, <1>5

LEMMA Staying ==
  ASSUME NEW x, Whole(x), NEW y, Whole(y), SameRows(x.v, y.v), y.o.tasks = x.o.tasks, y.o.coming = x.o.coming,
         NotesOf(x, y), NEW q \in Seq(Messages), Agrees(x, q)
  PROVE  Agrees(y, q)
<1>1. SameIds(x.v, y.v)
  BY DEF SameIds, SameRows
<1>2. Coming(y, q) /\ InOrder(y, q) /\ Going(y, q) /\ There(y, q)
  BY <1>1, Following DEF Agrees
<1>3. Told(y, q)
  BY DEF Agrees, Told, TellsOf, SameRows
<1> QED  BY <1>2, <1>3 DEF Agrees

\* A message that is no news of tasks, handled.
LEMMA Handled ==
  ASSUME NEW x, Whole(x), NEW q \in Seq(Messages), q # <<>>, Coming(x, q), InOrder(x, q), Going(x, q)
  PROVE  Coming(x, Tail(q)) /\ InOrder(x, Tail(q)) /\ Going(x, Tail(q))
<1> DEFINE r == Tail(q)
<1>1. /\ r \in Seq(Messages) /\ Len(q) \in Nat /\ Len(q) >= 1 /\ Len(r) = Len(q) - 1
      /\ \A k \in 1..Len(r) : r[k] = q[k + 1] /\ k + 1 \in 1..Len(q)
  BY TailIs
<1> HIDE DEF r
<1>2. Coming(x, r)
  BY <1>1 DEF Coming
<1>3. InOrder(x, r)
  <2>1. ASSUME NEW i \in 1..Len(r), NEW j \in 1..Len(r), i < j, r[i].is = "added", r[j].is = "added"
        PROVE  Rank(r[i].id) < Rank(r[j].id)
    <3>1. i + 1 < j + 1 /\ i + 1 \in 1..Len(q) /\ j + 1 \in 1..Len(q) /\ r[i] = q[i + 1] /\ r[j] = q[j + 1]
      BY <1>1, <2>1
    <3> QED  BY <2>1, <3>1 DEF InOrder
  <2> QED  BY <1>1, <2>1 DEF InOrder
<1>4. Going(x, r)
  <2>1. SUFFICES ASSUME NEW i \in 1..Len(r), r[i].is = "removed"
                 PROVE  r[i].id \notin Alive(x.o) /\ \A j \in i + 1..Len(r) : ~(r[j].is = "added" /\ r[j].id = r[i].id)
    BY DEF Going
  <2>2. i + 1 \in 1..Len(q) /\ r[i] = q[i + 1]
    BY <1>1
  <2>3. r[i].id \notin Alive(x.o) /\ \A j \in (i + 1) + 1..Len(q) : ~(q[j].is = "added" /\ q[j].id = r[i].id)
    BY <2>1, <2>2 DEF Going
  <2>4. \A j \in i + 1..Len(r) : j + 1 \in (i + 1) + 1..Len(q) /\ r[j] = q[j + 1]
    BY <1>1
  <2> QED  BY <2>3, <2>4
<1> QED  BY <1>2, <1>3, <1>4 DEF r

\* What a message says of a task is shown; if it says nothing, what was shown is.
LEMMA TellsHeard ==
  ASSUME NEW t, NEW rows, NEW q \in Seq(Messages), q # <<>>, TellsOf(t, rows, q), NEW now,
         Says(q[1], t.id) => \A i \in 1..Len(now) : now[i].id = t.id => (now[i].up <=> q[1].up),
         ~Says(q[1], t.id) => \A i \in 1..Len(now) :
           now[i].id = t.id => \E j \in 1..Len(rows) : rows[j].id = t.id /\ (now[i].up <=> rows[j].up)
  PROVE  TellsOf(t, now, Tail(q))
<1> DEFINE r == Tail(q)
<1>1. /\ r \in Seq(Messages) /\ Len(q) \in Nat /\ Len(q) >= 1 /\ Len(r) = Len(q) - 1
      /\ \A k \in 1..Len(r) : r[k] = q[k + 1] /\ k + 1 \in 1..Len(q)
  BY TailIs
<1> HIDE DEF r
<1>2. ASSUME NEW k \in 1..Len(r), Says(r[k], t.id), \A j \in k + 1..Len(r) : ~Says(r[j], t.id)
      PROVE  r[k].up <=> t.up
  <2>1. k + 1 \in 1..Len(q) /\ r[k] = q[k + 1]
    BY <1>1
  <2>2. ASSUME NEW j \in (k + 1) + 1..Len(q) PROVE ~Says(q[j], t.id)
    <3>1. j - 1 \in k + 1..Len(r) /\ j - 1 \in 1..Len(r) /\ r[j - 1] = q[(j - 1) + 1] /\ (j - 1) + 1 = j
      BY <1>1
    <3> QED  BY <1>2, <3>1
  <2> QED  BY <1>2, <2>1, <2>2 DEF TellsOf
<1>3. ASSUME \A k \in 1..Len(r) : ~Says(r[k], t.id), NEW i \in 1..Len(now), now[i].id = t.id
      PROVE  now[i].up <=> t.up
  <2>1. \A k \in 2..Len(q) : ~Says(q[k], t.id)
    <3>1. TAKE k \in 2..Len(q)
    <3>2. k - 1 \in 1..Len(r) /\ r[k - 1] = q[(k - 1) + 1] /\ (k - 1) + 1 = k
      BY <1>1
    <3> QED  BY <1>3, <3>2
  <2>2. CASE Says(q[1], t.id)
    <3>1. 1 \in 1..Len(q) /\ 1 + 1 = 2
      BY <1>1
    <3>2. q[1].up <=> t.up
      BY <2>1, <2>2, <3>1 DEF TellsOf
    <3> QED  BY <1>3, <2>2, <3>2
  <2>3. CASE ~Says(q[1], t.id)
    <3>1. \A k \in 1..Len(q) : k = 1 \/ k \in 2..Len(q)
      BY <1>1
    <3>2. \A k \in 1..Len(q) : ~Says(q[k], t.id)
      BY <2>1, <2>3, <3>1
    <3>3. PICK j \in 1..Len(rows) : rows[j].id = t.id /\ (now[i].up <=> rows[j].up)
      BY <1>3, <2>3
    <3>4. rows[j].up <=> t.up
      BY <3>2, <3>3 DEF TellsOf
    <3> QED  BY <3>3, <3>4
  <2> QED  BY <2>2, <2>3
<1> QED  BY <1>2, <1>3 DEF TellsOf, r

\* A message that no task comes or goes by.
LEMMA ThereStill ==
  ASSUME NEW x, NEW q \in Seq(Messages), q # <<>>, There(x, q), q[1].is # "removed", ~(q[1].is = "added" /\ q[1].vt)
  PROVE  There(x, Tail(q))
<1> DEFINE r == Tail(q)
<1>0. /\ Len(q) \in Nat /\ Len(q) >= 1 /\ Len(r) = Len(q) - 1
      /\ \A k \in 1..Len(r) : r[k] = q[k + 1] /\ k + 1 \in 1..Len(q)
  BY TailIs
<1> HIDE DEF r
<1>1. \A k \in 1..Len(q) : k = 1 \/ \E j \in 1..Len(r) : r[j] = q[k]
  <2>1. TAKE k \in 1..Len(q)
  <2>2. CASE k # 1
    <3>1. k - 1 \in 1..Len(r) /\ r[k - 1] = q[(k - 1) + 1] /\ (k - 1) + 1 = k
      BY <1>0, <2>2
    <3> QED  BY <3>1
  <2> QED  BY <2>2
<1>2. ASSUME NEW id \in Ids PROVE InTime(x.v, q, id) <=> InTime(x.v, r, id)
  <2>1. q[1].is # "removed" /\ ~(q[1].is = "added" /\ q[1].vt)
    OBVIOUS
  <2>2. (\E j \in 1..Len(q) : q[j].is = "added" /\ q[j].id = id /\ q[j].vt)
        <=> \E j \in 1..Len(r) : r[j].is = "added" /\ r[j].id = id /\ r[j].vt
    <3>1. ASSUME NEW j \in 1..Len(q), q[j].is = "added", q[j].id = id, q[j].vt
          PROVE  \E k \in 1..Len(r) : r[k].is = "added" /\ r[k].id = id /\ r[k].vt
      <4>1. PICK k \in 1..Len(r) : r[k] = q[j]
        BY <1>1, <2>1, <3>1
      <4> QED  BY <3>1, <4>1
    <3>2. ASSUME NEW j \in 1..Len(r), r[j].is = "added", r[j].id = id, r[j].vt
          PROVE  \E k \in 1..Len(q) : q[k].is = "added" /\ q[k].id = id /\ q[k].vt
      BY <1>0, <3>2
    <3> QED  BY <3>1, <3>2
  <2>3. (\E j \in 1..Len(q) : q[j].is = "removed" /\ q[j].id = id)
        <=> \E j \in 1..Len(r) : r[j].is = "removed" /\ r[j].id = id
    <3>1. ASSUME NEW j \in 1..Len(q), q[j].is = "removed", q[j].id = id
          PROVE  \E k \in 1..Len(r) : r[k].is = "removed" /\ r[k].id = id
      <4>1. PICK k \in 1..Len(r) : r[k] = q[j]
        BY <1>1, <2>1, <3>1
      <4> QED  BY <3>1, <4>1
    <3>2. ASSUME NEW j \in 1..Len(r), r[j].is = "removed", r[j].id = id
          PROVE  \E k \in 1..Len(q) : q[k].is = "removed" /\ q[k].id = id
      BY <1>0, <3>2
    <3> QED  BY <3>1, <3>2
  <2> QED  BY <2>2, <2>3 DEF InTime
<1> QED  BY <1>2 DEF There, r
LEMMA Dropping ==
  ASSUME NEW x, Whole(x), NEW q \in Seq(Messages), q # <<>>, Head(q).is \notin News, Agrees(x, q)
  PROVE  Agrees(x, Tail(q))
<1> DEFINE r == Tail(q)
<1>1. /\ r \in Seq(Messages) /\ Head(q) = q[1] /\ Len(q) \in Nat /\ Len(q) >= 1 /\ Len(r) = Len(q) - 1
      /\ \A k \in 1..Len(r) : r[k] = q[k + 1] /\ k + 1 \in 1..Len(q)
  BY TailIs
<1>2. Coming(x, r) /\ InOrder(x, r) /\ Going(x, r)
  BY Handled DEF Agrees
<1>3. \A i \in 1..Len(x.o.tasks) : ~Says(q[1], x.o.tasks[i].id)
  BY <1>1 DEF Says, News
<1>4. Told(x, r)
  <2>1. ASSUME NEW i \in 1..Len(x.o.tasks) PROVE TellsOf(x.o.tasks[i], x.v.tasks, r)
    BY <1>3, TellsHeard DEF Told, Agrees
  <2> QED  BY <2>1 DEF Told
<1> HIDE DEF r
<1>5. There(x, r)
  <2>1. q[1].is # "added" /\ q[1].is # "removed"
    BY <1>1 DEF News
  <2> QED  BY <1>1, <2>1, ThereStill DEF Agrees, r
<1> QED  BY <1>2, <1>4, <1>5 DEF Agrees, r

\* A message that is no news of tasks, sent.
LEMMA TellsMore ==
  ASSUME NEW t, NEW rows, NEW q \in Seq(Messages), NEW m \in Messages, ~Says(m, t.id), TellsOf(t, rows, q)
  PROVE  TellsOf(t, rows, Append(q, m))
<1> DEFINE r == Append(q, m)
<1>1. /\ r \in Seq(Messages) /\ Len(q) \in Nat /\ Len(r) = Len(q) + 1 /\ r[Len(q) + 1] = m
      /\ \A k \in 1..Len(q) : r[k] = q[k] /\ k \in 1..Len(r)
      /\ \A k \in 1..Len(r) : k \in 1..Len(q) \/ k = Len(q) + 1
  BY EndIs
<1> HIDE DEF r
<1>2. ASSUME NEW k \in 1..Len(r), Says(r[k], t.id), \A j \in k + 1..Len(r) : ~Says(r[j], t.id)
      PROVE  r[k].up <=> t.up
  <2>1. k \in 1..Len(q) /\ r[k] = q[k]
    BY <1>1, <1>2
  <2>2. \A j \in k + 1..Len(q) : j \in k + 1..Len(r) /\ r[j] = q[j]
    BY <1>1
  <2> QED  BY <1>2, <2>1, <2>2 DEF TellsOf
<1>3. ASSUME \A k \in 1..Len(r) : ~Says(r[k], t.id) PROVE \A k \in 1..Len(q) : ~Says(q[k], t.id)
  BY <1>1, <1>3
<1> QED  BY <1>2, <1>3 DEF TellsOf, r

LEMMA Adding ==
  ASSUME NEW x, Whole(x), NEW q \in Seq(Messages), NEW m \in Messages, m.is \notin News, Agrees(x, q)
  PROVE  Agrees(x, Append(q, m))
<1> DEFINE r == Append(q, m)
<1>1. /\ r \in Seq(Messages) /\ Len(q) \in Nat /\ Len(r) = Len(q) + 1 /\ r[Len(q) + 1] = m
      /\ \A k \in 1..Len(q) : r[k] = q[k] /\ k \in 1..Len(r)
      /\ \A k \in 1..Len(r) : k \in 1..Len(q) \/ k = Len(q) + 1
  BY EndIs
<1>2. Told(x, r)
  <2>1. \A i \in 1..Len(x.o.tasks) : ~Says(m, x.o.tasks[i].id)
    BY DEF Says, News
  <2> QED  BY <2>1, TellsMore DEF Told, Agrees
<1> HIDE DEF r
<1>3. \A k \in 1..Len(r) : r[k].is \in News => k \in 1..Len(q) /\ r[k] = q[k]
  BY <1>1
<1>4. Coming(x, r)
  BY <1>1, <1>3 DEF Agrees, Coming
<1>5. InOrder(x, r)
  BY <1>1, <1>3 DEF Agrees, InOrder, News
<1>6. Going(x, r)
  <2>1. SUFFICES ASSUME NEW i \in 1..Len(r), r[i].is = "removed"
                 PROVE  r[i].id \notin Alive(x.o) /\ \A j \in i + 1..Len(r) : ~(r[j].is = "added" /\ r[j].id = r[i].id)
    BY DEF Going
  <2>2. i \in 1..Len(q) /\ r[i] = q[i]
    BY <1>3, <2>1 DEF News
  <2>3. ASSUME NEW j \in i + 1..Len(r), r[j].is = "added" PROVE r[j].id # r[i].id
    <3>1. j \in 1..Len(r)
      BY <1>1
    <3>2. j \in 1..Len(q) /\ r[j] = q[j]
      BY <1>3, <2>3, <3>1 DEF News
    <3>3. j \in i + 1..Len(q)
      BY <1>1, <3>2
    <3> QED  BY <2>1, <2>2, <2>3, <3>2, <3>3 DEF Agrees, Going
  <2>4. r[i].id \notin Alive(x.o)
    BY <2>1, <2>2 DEF Agrees, Going
  <2> QED  BY <2>3, <2>4
<1>7. There(x, r)
  <2>1. \A id \in Ids : InTime(x.v, q, id) <=> InTime(x.v, r, id)
    BY <1>1, <1>3 DEF InTime, News
  <2> QED  BY <2>1 DEF Agrees, There
<1> QED  BY <1>2, <1>4, <1>5, <1>6, <1>7 DEF Agrees, r

-----------------------------------------------------------------------------
(* What the kernel says of the tasks.                                        *)
\* A row fits whatever is said of its task's state.
LEMMA FitsSame ==
  ASSUME NEW t, NEW u, u.id = t.id, u.surface = t.surface, NEW n, NEW misled, NEW c, Fits(t, n, misled, c)
  PROVE  Fits(u, n, misled, c)
BY DEF Fits

\* A change of the rows alone.
RowsOf(x, rows) == [v |-> [x.v EXCEPT !.tasks = rows], o |-> x.o, n |-> x.n, a |-> x.a]
SameFrame(v, w) ==
  /\ SameTurn(v, w) /\ w.viewers = v.viewers /\ w.misled = v.misled
  /\ w.size = v.size /\ w.scope = v.scope /\ w.hide = v.hide /\ w.stop = v.stop
LEMMA RowsChange ==
  ASSUME NEW x, Whole(x), NEW rows \in Seq(Rows)
  PROVE  LET y == RowsOf(x, rows)
         IN  /\ Whole(y) /\ y.v.tasks = rows /\ y.v.list = x.v.list /\ y.o = x.o /\ y.n = x.n /\ y.a = x.a
             /\ SameFrame(x.v, y.v)
<1> DEFINE v == [x.v EXCEPT !.tasks = rows]
<1>1. v \in Views /\ v.tasks = rows /\ v.list = x.v.list /\ SameFrame(x.v, v)
  BY DEF Whole, Views, SameFrame, SameTurn
<1>2. RowsOf(x, rows) = [v |-> v, o |-> x.o, n |-> x.n, a |-> x.a]
  BY DEF RowsOf
<1> HIDE DEF v
<1> QED  BY <1>1, <1>2 DEF Whole

LEMMA FrameIs ==
  ASSUME NEW v, NEW w, SameFrame(v, w)
  PROVE  TermArea(w) = TermArea(v) /\ HasViewers(w) = HasViewers(v) /\ ListHeight(w) = ListHeight(v)
<1>1. TopHeight(w) = TopHeight(v)
  BY DEF SameFrame, TopHeight
<1> QED  BY <1>1 DEF SameFrame, TermArea, HasViewers, ListHeight

LEMMA TurnedRows ==
  ASSUME NEW x, Whole(x), NEW id \in Ids, NEW up \in BOOLEAN
  PROVE  \E rows \in Seq(Rows) :
           /\ StateChanged(x, id, up) = RowsOf(x, rows) /\ Len(rows) = Len(x.v.tasks)
           /\ \A i \in 1..Len(rows) :
                /\ rows[i].id = x.v.tasks[i].id /\ rows[i].surface = x.v.tasks[i].surface
                /\ rows[i].up = IF x.v.tasks[i].id = id THEN up ELSE x.v.tasks[i].up
<1> DEFINE s == x.v.tasks
           l == Len(s)
           rows == [i \in DOMAIN s |-> IF s[i].id = id THEN [s[i] EXCEPT !.up = up] ELSE s[i]]
<1>1. x = [v |-> x.v, o |-> x.o, n |-> x.n, a |-> x.a] /\ x.v \in Views /\ s \in Seq(Rows)
  BY DEF Whole, Views
<1>2. l \in Nat /\ DOMAIN s = 1..l /\ \A i \in 1..l : s[i] \in Rows
  BY <1>1
<1>3. StateChanged(x, id, up) = [x EXCEPT !.v = [x.v EXCEPT !.tasks = rows]]
  BY DEF StateChanged, WithTask
<1> HIDE DEF s, l
<1>4. ASSUME NEW t \in Rows
      PROVE  LET u == [t EXCEPT !.up = up] IN u \in Rows /\ u.id = t.id /\ u.surface = t.surface /\ u.up = up
  BY DEF Rows
<1>5. \A i \in 1..l : /\ rows[i] \in Rows /\ rows[i].id = s[i].id /\ rows[i].surface = s[i].surface
                      /\ rows[i].up = IF s[i].id = id THEN up ELSE s[i].up
  BY <1>2, <1>4
<1>6. DOMAIN rows = 1..l /\ rows = [i \in 1..l |-> rows[i]]
  BY <1>2
<1> HIDE DEF rows
<1>7. rows \in Seq(Rows) /\ Len(rows) = l
  BY <1>2, <1>5, <1>6
<1>8. [x EXCEPT !.v = [x.v EXCEPT !.tasks = rows]] = RowsOf(x, rows)
  <2> DEFINE w == [x.v EXCEPT !.tasks = rows]
  <2>1. RowsOf(x, rows) = [v |-> w, o |-> x.o, n |-> x.n, a |-> x.a]
    BY DEF RowsOf
  <2> HIDE DEF w
  <2>2. [x EXCEPT !.v = w] = [v |-> w, o |-> x.o, n |-> x.n, a |-> x.a]
    BY <1>1
  <2> QED  BY <2>1, <2>2 DEF w
<1>9. StateChanged(x, id, up) = RowsOf(x, rows)
  BY <1>3, <1>8
<1> QED  BY <1>5, <1>7, <1>9 DEF s, l

\* What is said of a task's state is shown.
Heard(x, q, y) ==
  /\ Sound(y) /\ Agrees(y, Tail(q)) /\ SameFrame(x.v, y.v) /\ SameOutside(x.o, y.o) /\ y.o.copying = x.o.copying
  /\ \A id \in Ids : y.o.watched[id] \in {x.o.watched[id], TermArea(y.v)}

LEMMA TurningHeard ==
  ASSUME NEW x, Sound(x), NEW q \in Seq(Messages), q # <<>>, Agrees(x, q), q[1].is = "state"
  PROVE  Heard(x, q, StateChanged(x, q[1].id, q[1].up))
<1> DEFINE id == q[1].id
           up == q[1].up
           y == StateChanged(x, id, up)
<1>0. Whole(x)
  BY DEF Sound
<1>1. id \in Ids /\ up \in BOOLEAN /\ Tail(q) \in Seq(Messages)
  <2>1. q[1] \in Messages
    OBVIOUS
  <2> QED  BY <2>1, MessageKinds DEF News
<1> HIDE DEF id, up
<1>2. PICK rows \in Seq(Rows) :
        /\ y = RowsOf(x, rows) /\ Len(rows) = Len(x.v.tasks)
        /\ \A i \in 1..Len(rows) :
             /\ rows[i].id = x.v.tasks[i].id /\ rows[i].surface = x.v.tasks[i].surface
             /\ rows[i].up = IF x.v.tasks[i].id = id THEN up ELSE x.v.tasks[i].up
  BY <1>0, <1>1, TurnedRows
<1> HIDE DEF y
<1>3. /\ Whole(y) /\ y.v.tasks = rows /\ y.o = x.o /\ y.n = x.n /\ SameFrame(x.v, y.v)
  BY <1>0, <1>2, RowsChange
<1>4. HasViewers(y.v) = HasViewers(x.v) /\ SameIds(x.v, y.v) /\ Shown(y.v) = Shown(x.v)
  <2>1. HasViewers(y.v) = HasViewers(x.v)
    BY <1>3, FrameIs
  <2>2. SameIds(x.v, y.v)
    BY <1>2, <1>3 DEF SameIds
  <2>3. DOMAIN x.v.tasks = 1..Len(x.v.tasks) /\ DOMAIN y.v.tasks = 1..Len(x.v.tasks)
    BY <1>0, <1>2, <1>3 DEF Whole, Views
  <2>4. Shown(y.v) = Shown(x.v)
    BY <2>2, <2>3 DEF Shown, SameIds
  <2> QED  BY <2>1, <2>2, <2>4
<1>5. Watching(y)
  BY <1>3, <1>4 DEF Sound, Watching
<1>6. Copied(y)
  <2>1. ASSUME NEW i \in 1..Len(y.v.tasks), y.v.tasks[i].id \in Alive(y.o)
        PROVE  Fits(y.v.tasks[i], y.n, y.v.misled, InCopyMode(y.v, y.o))
    <3>1. i \in 1..Len(x.v.tasks) /\ rows[i].id = x.v.tasks[i].id /\ rows[i].surface = x.v.tasks[i].surface
      BY <1>2, <1>3
    <3>2. Fits(x.v.tasks[i], x.n, x.v.misled, InCopyMode(x.v, x.o))
      BY <1>3, <2>1, <3>1 DEF Sound, Copied
    <3>3. InCopyMode(y.v, y.o) = InCopyMode(x.v, x.o) /\ y.v.misled = x.v.misled
      BY <1>3, <1>4 DEF InCopyMode, SameFrame
    <3> QED  BY <1>3, <3>1, <3>2, <3>3, FitsSame
  <2> QED  BY <2>1 DEF Copied
<1>7. NotesOf(x, y) /\ SameOutside(x.o, y.o)
  BY <1>3 DEF NotesOf, SameOutside
<1>8. Coming(x, Tail(q)) /\ InOrder(x, Tail(q)) /\ Going(x, Tail(q)) /\ There(x, Tail(q))
  <2>1. Coming(x, q) /\ InOrder(x, q) /\ Going(x, q) /\ There(x, q)
    BY DEF Agrees
  <2>2. q[1].is # "removed" /\ ~(q[1].is = "added" /\ q[1].vt)
    OBVIOUS
  <2> QED  BY ONLY <1>0, <2>1, <2>2, Handled, ThereStill, q \in Seq(Messages), q # <<>>
<1>9. Coming(y, Tail(q)) /\ InOrder(y, Tail(q)) /\ Going(y, Tail(q)) /\ There(y, Tail(q))
  BY <1>0, <1>1, <1>3, <1>4, <1>7, <1>8, Following
<1>10. Told(y, Tail(q))
  <2>1. ASSUME NEW i \in 1..Len(x.o.tasks) PROVE TellsOf(x.o.tasks[i], rows, Tail(q))
    <3> DEFINE t == x.o.tasks[i]
    <3>1. TellsOf(t, x.v.tasks, q)
      BY DEF Agrees, Told
    <3>2. Says(q[1], t.id) <=> t.id = id
      BY DEF Says, id
    <3> HIDE DEF t
    <3>3. Says(q[1], t.id) => \A j \in 1..Len(rows) : rows[j].id = t.id => (rows[j].up <=> q[1].up)
      BY <1>2, <3>2 DEF up
    <3>4. ~Says(q[1], t.id) => \A j \in 1..Len(rows) :
            rows[j].id = t.id => \E k \in 1..Len(x.v.tasks) : x.v.tasks[k].id = t.id /\ (rows[j].up <=> x.v.tasks[k].up)
      <4>1. ASSUME ~Says(q[1], t.id), NEW j \in 1..Len(rows), rows[j].id = t.id
            PROVE  j \in 1..Len(x.v.tasks) /\ x.v.tasks[j].id = t.id /\ (rows[j].up <=> x.v.tasks[j].up)
        BY <1>2, <3>2, <4>1
      <4> QED  BY <4>1
    <3>5. TellsOf(t, rows, Tail(q))
      BY <3>1, <3>3, <3>4, TellsHeard
    <3> QED  BY <3>5 DEF t
  <2> QED  BY <1>3, <2>1 DEF Told
<1>11. \A i \in Ids : y.o.watched[i] \in {x.o.watched[i], TermArea(y.v)}
  BY <1>3
<1> QED  BY <1>3, <1>5, <1>6, <1>7, <1>9, <1>10, <1>11 DEF Heard, Sound, Agrees, y, id, up

-----------------------------------------------------------------------------
\* A task that goes: its row goes, and the selection stays on the task it is on.
LEMMA RemovedIs ==
  ASSUME NEW x, Sound(x), Sorted(x.v.tasks), NEW id \in Ids
  PROVE  LET y == Removed(x, id)
             s == x.v.tasks
             r == Without(s, id)
             sel == x.v.list.selected
         IN  /\ Whole(y) /\ y.v.tasks = r /\ y.o = x.o /\ y.n = x.n /\ SameFrame(x.v, y.v)
             /\ r \in Seq(Rows) /\ Len(r) \in Nat /\ Sorted(r)
             /\ \A k \in 1..Len(s) : s[k].id = id =>
                  y.v.list.selected = LET l == IF k - 1 < sel THEN sel - 1 ELSE sel
                                      IN  IF l < Len(r) THEN l ELSE Sub(Len(r), 1)
             /\ (\A k \in 1..Len(s) : s[k].id # id) =>
                  y.v.list.selected = IF sel < Len(r) THEN sel ELSE Sub(Len(r), 1)
<1> DEFINE s == x.v.tasks
           r == Without(s, id)
           sel == x.v.list.selected
           at == {i \in DOMAIN s : s[i].id = id}
           index == IF at = {} THEN sel ELSE RemovedAt(Min(at) - 1, sel)
           list == SelectAt(x.v.list, index, Len(r))
           y == Removed(x, id)
<1>1. x = [v |-> x.v, o |-> x.o, n |-> x.n, a |-> x.a] /\ x.v \in Views /\ s \in Seq(Rows) /\ x.v.list \in Lists
      /\ x.o \in Outsides /\ x.n \in Seq(Notes)
  BY DEF Sound, Whole, Views
<1>2. sel \in Nat /\ Len(s) \in Nat /\ DOMAIN s = 1..Len(s)
  BY <1>1 DEF Lists
<1>3. r \in Seq(Rows) /\ Sorted(r) /\ Len(r) \in Nat
  <2>1. \A t \in Rows : t.id \in Ids
    BY DEF Rows
  <2>2. r \in Seq(Rows) /\ Sorted(r)
    BY <1>1, <2>1, Leaving
  <2> HIDE DEF r
  <2> QED  BY <2>2
<1>4. ASSUME NEW k \in 1..Len(s), s[k].id = id
      PROVE  index = IF k - 1 < sel THEN sel - 1 ELSE sel
  <2>1. at = {k, k}
    <3>1. \A t \in Rows : t.id \in Ids
      BY DEF Rows
    <3>2. \A i \in 1..Len(s) : s[i].id = id => i = k
      BY <1>1, <1>4, <3>1, SortedOnce
    <3> QED  BY <1>2, <1>4, <3>2
  <2>2. Min({k, k}) = k
    BY <1>2, Lesser
  <2> HIDE DEF at
  <2>3. Min(at) = k
    BY <2>1, <2>2
  <2>4. at # {}
    BY <2>1
  <2>5. index = RemovedAt(k - 1, sel)
    BY <2>3, <2>4
  <2> QED  BY <2>5 DEF RemovedAt
<1>5. ASSUME \A k \in 1..Len(s) : s[k].id # id
      PROVE  index = sel
  BY <1>2, <1>5
<1>6. index \in Nat
  <2>1. CASE \E k \in 1..Len(s) : s[k].id = id
    <3>1. PICK k \in 1..Len(s) : s[k].id = id
      BY <2>1
    <3>2. index = IF k - 1 < sel THEN sel - 1 ELSE sel
      BY <1>4, <3>1
    <3> HIDE DEF index
    <3> QED  BY <1>2, <3>2
  <2>2. CASE \A k \in 1..Len(s) : s[k].id # id
    BY <1>2, <1>5, <2>2
  <2> QED  BY <2>1, <2>2
<1> HIDE DEF index
<1>7. list \in Lists /\ list.selected = IF index < Len(r) THEN index ELSE Sub(Len(r), 1)
  BY <1>1, <1>3, <1>6, SelectAtIs
<1>8. y = [x EXCEPT !.v = [[x.v EXCEPT !.tasks = r] EXCEPT !.list = SelectAt(@, index, Len(r))]]
  <2> DEFINE rest == [x.v EXCEPT !.tasks = r]
  <2>1. y = [x EXCEPT !.v = Select(rest, index)]
    BY DEF Removed, index
  <2>2. rest.tasks = r
    BY <1>1 DEF Views
  <2> HIDE DEF rest, r
  <2>3. Select(rest, index) = [rest EXCEPT !.list = SelectAt(@, index, Len(r))]
    BY <2>2 DEF Select
  <2> QED  BY <2>1, <2>3 DEF rest
<1> HIDE DEF r
<1> DEFINE v == [[x.v EXCEPT !.tasks = r] EXCEPT !.list = list]
<1>9. v \in Views /\ v.tasks = r /\ v.list = list /\ SameFrame(x.v, v)
  <2> HIDE DEF list
  <2> QED  BY <1>1, <1>3, <1>7 DEF Views, SameFrame, SameTurn
<1>10. y = [v |-> v, o |-> x.o, n |-> x.n, a |-> x.a]
  <2>1. v = [[x.v EXCEPT !.tasks = r] EXCEPT !.list = SelectAt(@, index, Len(r))]
    BY <1>1 DEF Views
  <2> HIDE DEF v
  <2>2. y = [x EXCEPT !.v = v]
    BY <1>8, <2>1
  <2> QED  BY <1>1, <2>2
<1> HIDE DEF v, y, list
<1>11. y.v = v /\ y.o = x.o /\ y.n = x.n /\ Whole(y)
  BY <1>1, <1>9, <1>10 DEF Whole
<1>12. ASSUME NEW k \in 1..Len(s), s[k].id = id
       PROVE  y.v.list.selected = LET l == IF k - 1 < sel THEN sel - 1 ELSE sel
                                  IN  IF l < Len(r) THEN l ELSE Sub(Len(r), 1)
  BY <1>4, <1>7, <1>9, <1>11, <1>12
<1>13. (\A k \in 1..Len(s) : s[k].id # id) =>
         y.v.list.selected = IF sel < Len(r) THEN sel ELSE Sub(Len(r), 1)
  BY <1>5, <1>7, <1>9, <1>11
<1> QED  BY <1>3, <1>9, <1>11, <1>12, <1>13 DEF y, r

LEMMA RemovalHeard ==
  ASSUME NEW x, Sound(x), NEW q \in Seq(Messages), q # <<>>, Agrees(x, q), q[1].is = "removed"
  PROVE  Heard(x, q, Removed(x, q[1].id))
<1> DEFINE id == q[1].id
           y == Removed(x, id)
           s == x.v.tasks
           r == Without(s, id)
           p == Tail(q)
<1>0. Whole(x) /\ Coming(x, q) /\ InOrder(x, q) /\ Going(x, q) /\ There(x, q) /\ Told(x, q) /\ Sorted(s)
  BY DEF Sound, Agrees, InOrder
<1>1. id \in Ids /\ p \in Seq(Messages)
  <2>1. q[1] \in Messages
    OBVIOUS
  <2> QED  BY <2>1, MessageKinds DEF News
<1>2. /\ Len(q) \in Nat /\ Len(q) >= 1 /\ Len(p) = Len(q) - 1
      /\ \A k \in 1..Len(p) : p[k] = q[k + 1] /\ k + 1 \in 1..Len(q)
  BY TailIs
<1>3. id \notin Alive(x.o) /\ \A j \in 2..Len(q) : ~(q[j].is = "added" /\ q[j].id = id)
  <2>1. 1 \in 1..Len(q) /\ 1 + 1 = 2
    BY <1>2
  <2> QED  BY <1>0, <2>1 DEF Going
<1>4. Coming(x, p) /\ InOrder(x, p) /\ Going(x, p)
  BY <1>0, Handled
<1>5. /\ Whole(y) /\ y.v.tasks = r /\ y.o = x.o /\ y.n = x.n /\ SameFrame(x.v, y.v)
      /\ r \in Seq(Rows) /\ Len(r) \in Nat /\ Sorted(r)
  BY <1>0, <1>1, RemovedIs
<1>6. /\ \A i \in 1..Len(r) : \E j \in 1..Len(s) : r[i] = s[j] /\ s[j].id # id
      /\ \A j \in 1..Len(s) : s[j].id # id => \E i \in 1..Len(r) : r[i] = s[j]
  <2>1. \A t \in Rows : t.id \in Ids
    BY DEF Rows
  <2>2. s \in Seq(Rows)
    BY <1>0 DEF Whole, Views
  <2> HIDE DEF s, id
  <2>3. Sorted(s)
    BY <1>0
  <2>4. /\ \A i \in 1..Len(Without(s, id)) : \E j \in 1..Len(s) : Without(s, id)[i] = s[j] /\ s[j].id # id
        /\ \A j \in 1..Len(s) : s[j].id # id => \E i \in 1..Len(Without(s, id)) : Without(s, id)[i] = s[j]
    BY ONLY <2>1, <2>2, <2>3, Leaving
  <2> QED  BY ONLY <2>4
<1>7. HasViewers(y.v) = HasViewers(x.v)
  BY <1>5, FrameIs
<1>8. \A i \in Ids : i \in Shown(y.v) <=> i \in Shown(x.v) /\ i # id
  <2>1. \A i : i \in Shown(x.v) <=> \E j \in 1..Len(s) : s[j].id = i
    BY <1>0, Typed1
  <2>2. \A i : i \in Shown(y.v) <=> \E j \in 1..Len(r) : r[j].id = i
    <3> HIDE DEF y, r, s, p, id
    <3>1. Whole(y) /\ y.v.tasks = r
      BY <1>5
    <3>2. \A i : i \in Shown(y.v) <=> \E j \in 1..Len(y.v.tasks) : y.v.tasks[j].id = i
      BY ONLY <3>1, Typed1
    <3> QED  BY ONLY <3>1, <3>2
  <2> HIDE DEF r, s, id, y
  <2>3. ASSUME NEW i \in Ids, i \in Shown(y.v) PROVE i \in Shown(x.v) /\ i # id
    <3>1. PICK k \in 1..Len(r) : r[k].id = i
      BY ONLY <2>2, <2>3
    <3>2. PICK j \in 1..Len(s) : r[k] = s[j] /\ s[j].id # id
      BY ONLY <1>6, k \in 1..Len(r)
    <3> QED  BY <2>1, <3>1, <3>2
  <2>4. ASSUME NEW i \in Ids, i \in Shown(x.v), i # id PROVE i \in Shown(y.v)
    <3>1. PICK j \in 1..Len(s) : s[j].id = i
      BY ONLY <2>1, <2>4
    <3>2. PICK k \in 1..Len(r) : r[k] = s[j]
      BY ONLY <1>6, <3>1, <2>4, j \in 1..Len(s)
    <3> QED  BY <2>2, <3>1, <3>2
  <2> QED  BY <2>3, <2>4
<1> HIDE DEF p, y, r, id
<1>9. Watching(y)
  <2>1. \A i \in Ids : i \in Alive(x.o) => i # id
    BY <1>3
  <2> QED  BY <1>5, <1>7, <1>8, <2>1 DEF Sound, Watching
<1>10. Copied(y)
  <2>1. ASSUME NEW i \in 1..Len(r), r[i].id \in Alive(x.o)
        PROVE  Fits(r[i], x.n, x.v.misled, InCopyMode(x.v, x.o))
    <3>1. PICK j \in 1..Len(s) : r[i] = s[j]
      BY <1>6
    <3> QED  BY <2>1, <3>1 DEF Sound, Copied
  <2>2. InCopyMode(y.v, y.o) = InCopyMode(x.v, x.o) /\ y.v.misled = x.v.misled
    BY <1>5, <1>7 DEF InCopyMode, SameFrame
  <2> QED  BY <1>5, <2>1, <2>2 DEF Copied
<1>11. Coming(y, p)
  <2>1. ASSUME NEW i \in 1..Len(y.v.tasks) PROVE Rank(y.v.tasks[i].id) <= Come(y.o)
    <3>1. PICK j \in 1..Len(s) : r[i] = s[j]
      BY <1>5, <1>6
    <3> QED  BY <1>4, <1>5, <3>1 DEF Coming
  <2> QED  BY <1>4, <1>5, <2>1 DEF Coming
<1>12. InOrder(y, p)
  <2>1. ASSUME NEW j \in 1..Len(p), NEW i \in 1..Len(r), p[j].is = "added" PROVE Rank(r[i].id) < Rank(p[j].id)
    <3>1. PICK k \in 1..Len(s) : r[i] = s[k]
      BY <1>6
    <3> QED  BY <1>4, <2>1, <3>1 DEF InOrder
  <2>2. /\ Sorted(y.v.tasks) /\ Sorted(y.o.tasks)
        /\ \A j \in 1..Len(p), k \in 1..Len(y.n) : p[j].is = "added" => y.n[k].id # p[j].id
    BY <1>4, <1>5 DEF InOrder
  <2>3. \A i, j \in 1..Len(p) : i < j /\ p[i].is = "added" /\ p[j].is = "added" => Rank(p[i].id) < Rank(p[j].id)
    BY <1>4 DEF InOrder
  <2> QED  BY <1>5, <2>1, <2>2, <2>3 DEF InOrder
<1>13. Going(y, p)
  BY <1>4, <1>5 DEF Going
<1>14. There(y, p)
  <2>1. SUFFICES ASSUME NEW i \in Ids PROVE InTime(x.v, q, i) <=> InTime(y.v, p, i)
    BY <1>0, <1>5 DEF There
  <2>2. \A k \in 1..Len(q) : k = 1 \/ \E j \in 1..Len(p) : p[j] = q[k]
    <3>1. TAKE k \in 1..Len(q)
    <3>2. CASE k # 1
      <4>1. k - 1 \in 1..Len(p) /\ p[k - 1] = q[(k - 1) + 1] /\ (k - 1) + 1 = k
        BY <1>2, <3>2
      <4> QED  BY <4>1
    <3> QED  BY <3>2
  <2>3. \A j \in 1..Len(p) : \E k \in 1..Len(q) : p[j] = q[k] /\ k \in 2..Len(q)
    <3>1. TAKE j \in 1..Len(p)
    <3>2. j + 1 \in 1..Len(q) /\ j + 1 \in 2..Len(q) /\ p[j] = q[j + 1]
      BY <1>2
    <3> QED  BY <3>2
  <2>4. CASE i = id
    <3>1. 1 \in 1..Len(q) /\ q[1].is = "removed" /\ q[1].id = i
      BY <1>2, <2>4 DEF id
    <3>2. ~InTime(x.v, q, i)
      BY <3>1 DEF InTime
    <3>3. i \notin Shown(y.v)
      BY <1>8, <2>4
    <3>4. ~\E j \in 1..Len(p) : p[j].is = "added" /\ p[j].id = i /\ p[j].vt
      BY <1>3, <2>3, <2>4
    <3> QED  BY <3>2, <3>3, <3>4 DEF InTime
  <2>5. CASE i # id
    <3>1. i \in Shown(y.v) <=> i \in Shown(x.v)
      BY <1>8, <2>5
    <3>2. (\E j \in 1..Len(q) : q[j].is = "added" /\ q[j].id = i /\ q[j].vt)
          <=> \E j \in 1..Len(p) : p[j].is = "added" /\ p[j].id = i /\ p[j].vt
      <4>1. ASSUME NEW j \in 1..Len(q), q[j].is = "added", q[j].id = i, q[j].vt
            PROVE  \E k \in 1..Len(p) : p[k].is = "added" /\ p[k].id = i /\ p[k].vt
        <5>1. PICK k \in 1..Len(p) : p[k] = q[j]
          BY <2>2, <4>1
        <5> QED  BY <4>1, <5>1
      <4>2. ASSUME NEW j \in 1..Len(p), p[j].is = "added", p[j].id = i, p[j].vt
            PROVE  \E k \in 1..Len(q) : q[k].is = "added" /\ q[k].id = i /\ q[k].vt
        BY <2>3, <4>2
      <4> QED  BY <4>1, <4>2
    <3>3. (\E j \in 1..Len(q) : q[j].is = "removed" /\ q[j].id = i)
          <=> \E j \in 1..Len(p) : p[j].is = "removed" /\ p[j].id = i
      <4>1. ASSUME NEW j \in 1..Len(q), q[j].is = "removed", q[j].id = i
            PROVE  \E k \in 1..Len(p) : p[k].is = "removed" /\ p[k].id = i
        <5>1. j # 1
          BY <2>5, <4>1 DEF id
        <5>2. PICK k \in 1..Len(p) : p[k] = q[j]
          BY <2>2, <5>1
        <5> QED  BY <4>1, <5>2
      <4>2. ASSUME NEW j \in 1..Len(p), p[j].is = "removed", p[j].id = i
            PROVE  \E k \in 1..Len(q) : q[k].is = "removed" /\ q[k].id = i
        BY <2>3, <4>2
      <4> QED  BY <4>1, <4>2
    <3> QED  BY <3>1, <3>2, <3>3 DEF InTime
  <2> QED  BY <2>4, <2>5
<1>15. Told(y, p)
  <2>1. ASSUME NEW i \in 1..Len(x.o.tasks) PROVE TellsOf(x.o.tasks[i], r, p)
    <3> DEFINE t == x.o.tasks[i]
    <3>1. TellsOf(t, s, q) /\ ~Says(q[1], t.id)
      BY <1>0 DEF Told, Says
    <3> HIDE DEF t, s
    <3>2. \A j \in 1..Len(r) :
            r[j].id = t.id => \E k \in 1..Len(s) : s[k].id = t.id /\ (r[j].up <=> s[k].up)
      BY <1>6
    <3>3. TellsOf(t, r, p)
      BY <3>1, <3>2, TellsHeard DEF p
    <3> QED  BY <3>3 DEF t
  <2> QED  BY <1>5, <2>1 DEF Told
<1>16. SameOutside(x.o, y.o) /\ y.o.copying = x.o.copying
       /\ \A i \in Ids : y.o.watched[i] \in {x.o.watched[i], TermArea(y.v)}
  BY <1>5 DEF SameOutside
<1>17. Heard(x, q, y)
  BY <1>5, <1>9, <1>10, <1>11, <1>12, <1>13, <1>14, <1>15, <1>16 DEF Heard, Sound, Agrees, p
<1> QED  BY <1>17 DEF y, id

-----------------------------------------------------------------------------
\* A task that comes without a terminal is not shown.
LEMMA UnshownHeard ==
  ASSUME NEW x, Sound(x), NEW q \in Seq(Messages), q # <<>>, Agrees(x, q), q[1].is = "added", ~q[1].vt
  PROVE  Heard(x, q, x)
<1> DEFINE p == Tail(q)
<1>0. Whole(x) /\ Coming(x, q) /\ InOrder(x, q) /\ Going(x, q) /\ There(x, q) /\ Told(x, q)
  BY DEF Sound, Agrees
<1>1. /\ q[1].id \in Ids /\ p \in Seq(Messages) /\ 1 \in 1..Len(q)
  <2>1. q[1] \in Messages /\ 1 \in 1..Len(q)
    OBVIOUS
  <2> QED  BY <2>1, MessageKinds DEF News
<1>2. Coming(x, p) /\ InOrder(x, p) /\ Going(x, p)
  BY <1>0, Handled
<1>3. There(x, p)
  BY <1>0, ThereStill
<1>4. \A i \in 1..Len(x.v.tasks) : x.v.tasks[i].id # q[1].id
  <2>1. \A i \in 1..Len(x.v.tasks) : Rank(x.v.tasks[i].id) < Rank(q[1].id) /\ Rank(x.v.tasks[i].id) \in Nat
    BY <1>0, <1>1, Typed1 DEF InOrder
  <2>2. Rank(q[1].id) \in Nat
    BY <1>1, Ranks
  <2> QED  BY <2>1, <2>2
<1>5. Told(x, p)
  <2>1. ASSUME NEW i \in 1..Len(x.o.tasks) PROVE TellsOf(x.o.tasks[i], x.v.tasks, p)
    <3> DEFINE t == x.o.tasks[i]
               s == x.v.tasks
    <3>1. TellsOf(t, s, q)
      BY <1>0 DEF Told
    <3>2. Says(q[1], t.id) => q[1].id = t.id
      BY DEF Says
    <3>3. \A j \in 1..Len(s) : s[j].id # q[1].id
      BY <1>4
    <3> HIDE DEF t, s
    <3>4. TellsOf(t, s, p)
      BY <3>1, <3>2, <3>3, TellsHeard
    <3> QED  BY <3>4 DEF t, s
  <2> QED  BY <2>1 DEF Told
<1>6. SameFrame(x.v, x.v) /\ SameOutside(x.o, x.o)
  BY DEF SameFrame, SameTurn, SameOutside
<1> QED  BY <1>2, <1>3, <1>5, <1>6 DEF Heard, Agrees

\* A task that comes with one has a row, and is observed while somebody looks.
NewRow(id, up) == [id |-> id, up |-> up, surface |-> FALSE]
AddedSo(x, y, id, up) ==
  LET rows == Append(x.v.tasks, NewRow(id, up))
      heard == HasViewers(x.v) /\ id \in Alive(x.o)
  IN  /\ Whole(y) /\ y.v.tasks = rows /\ rows \in Seq(Rows) /\ y.v.list = x.v.list
      /\ SameOutside(x.o, y.o) /\ y.o.copying = x.o.copying /\ SameFrame(x.v, y.v)
      /\ \A i \in Ids : y.o.watched[i] = IF i = id /\ heard THEN TermArea(y.v) ELSE x.o.watched[i]
      /\ y.n = IF heard /\ id \in x.o.copying THEN Append(x.n, Enters(id)) ELSE x.n
LEMMA AddedIs ==
  ASSUME NEW x, Whole(x), NEW id \in Ids, NEW up \in BOOLEAN
  PROVE  AddedSo(x, Added(x, id, up, TRUE), id, up)
<1> DEFINE rows == Append(x.v.tasks, NewRow(id, up))
           z == RowsOf(x, rows)
           y == Added(x, id, up, TRUE)
<1>1. x = [v |-> x.v, o |-> x.o, n |-> x.n, a |-> x.a] /\ x.v \in Views /\ x.v.tasks \in Seq(Rows)
  BY DEF Whole, Views
<1>2. NewRow(id, up) \in Rows
  BY DEF NewRow, Rows
<1>3. rows \in Seq(Rows)
  BY <1>1, <1>2
<1> HIDE DEF rows
<1>4. /\ Whole(z) /\ z.v.tasks = rows /\ z.v.list = x.v.list /\ z.o = x.o /\ z.n = x.n
      /\ SameFrame(x.v, z.v)
  BY <1>3, RowsChange
<1>5. y = IF HasViewers(x.v) THEN Observe(z, id) ELSE z
  <2> DEFINE r == [id |-> id, up |-> up, surface |-> FALSE]
  <2>1. r = NewRow(id, up)
    BY DEF NewRow
  <2>2. y = LET w == [x EXCEPT !.v.tasks = Append(@, r)] IN IF HasViewers(x.v) THEN Observe(w, id) ELSE w
    BY DEF Added
  <2> HIDE DEF r, y
  <2>3. [x EXCEPT !.v.tasks = Append(@, r)] = RowsOf(x, Append(x.v.tasks, r))
    BY <1>1 DEF RowsOf
  <2> QED  BY <2>1, <2>2, <2>3 DEF rows
<1> HIDE DEF y, z
<1>6. /\ Whole(y) /\ y.v = z.v /\ SameOutside(z.o, y.o) /\ y.o.copying = z.o.copying
      /\ \A i \in Ids : y.o.watched[i] =
           IF i = id /\ HasViewers(x.v) /\ id \in Alive(z.o) THEN TermArea(z.v) ELSE z.o.watched[i]
      /\ y.n = IF HasViewers(x.v) /\ id \in Alive(z.o) /\ id \in z.o.copying THEN Append(z.n, Enters(id)) ELSE z.n
  <2>1. CASE HasViewers(x.v)
    <3>1. y = Observe(z, id)
      BY <1>5, <2>1
    <3> HIDE DEF y
    <3> QED  BY <1>4, <2>1, <3>1, ObserveIs
  <2>2. CASE ~HasViewers(x.v)
    <3>1. y = z
      BY <1>5, <2>2
    <3> QED  BY <1>4, <2>2, <3>1 DEF SameOutside
  <2> QED  BY <2>1, <2>2
<1> QED  BY <1>3, <1>4, <1>6 DEF y, rows, AddedSo

LEMMA AdditionHeard ==
  ASSUME NEW x, Sound(x), NEW q \in Seq(Messages), q # <<>>, Agrees(x, q), q[1].is = "added", q[1].vt = TRUE
  PROVE  Heard(x, q, Added(x, q[1].id, q[1].up, TRUE))
<1> DEFINE id == q[1].id
           up == q[1].up
           y == Added(x, id, up, TRUE)
           s == x.v.tasks
           row == NewRow(id, up)
           rows == Append(s, row)
           p == Tail(q)
           heard == HasViewers(x.v) /\ id \in Alive(x.o)
<1>0. Whole(x) /\ Coming(x, q) /\ InOrder(x, q) /\ Going(x, q) /\ There(x, q) /\ Told(x, q) /\ Sorted(s)
      /\ s \in Seq(Rows) /\ x.n \in Seq(Notes)
  BY DEF Sound, Agrees, InOrder, Whole, Views
<1>1. id \in Ids /\ up \in BOOLEAN /\ p \in Seq(Messages) /\ 1 \in 1..Len(q)
  <2>1. q[1] \in Messages /\ 1 \in 1..Len(q)
    OBVIOUS
  <2> QED  BY <2>1, MessageKinds DEF News
<1>2. /\ Len(q) \in Nat /\ Len(q) >= 1 /\ Len(p) = Len(q) - 1
      /\ \A k \in 1..Len(p) : p[k] = q[k + 1] /\ k + 1 \in 1..Len(q)
  BY TailIs
<1>3. /\ \A i \in 1..Len(s) : Rank(s[i].id) < Rank(id) /\ Rank(s[i].id) \in Nat
      /\ Rank(id) \in Nat /\ Rank(id) <= Come(x.o) /\ \A i \in 1..Len(s) : s[i].id # id
      /\ \A k \in 1..Len(x.n) : x.n[k].id # id
      /\ \A j \in 2..Len(q) : q[j].is = "added" => Rank(id) < Rank(q[j].id)
  <2>1. \A i \in 1..Len(s) : Rank(s[i].id) < Rank(id) /\ Rank(s[i].id) \in Nat
    BY <1>0, <1>1, Typed1 DEF InOrder
  <2>2. Rank(id) \in Nat
    BY <1>1, Ranks
  <2>3. Rank(id) <= Come(x.o)
    BY <1>0, <1>1 DEF Coming, News
  <2>4. \A k \in 1..Len(x.n) : x.n[k].id # id
    BY <1>0, <1>1 DEF InOrder
  <2>5. \A j \in 2..Len(q) : j \in 1..Len(q) /\ 1 < j
    BY <1>2
  <2>6. \A j \in 2..Len(q) : q[j].is = "added" => Rank(id) < Rank(q[j].id)
    BY <1>0, <1>1, <2>5 DEF InOrder
  <2>7. \A i \in 1..Len(s) : s[i].id # id
    BY <2>1, <2>2
  <2> QED  BY <2>1, <2>2, <2>3, <2>4, <2>6, <2>7
<1>4. Coming(x, p) /\ InOrder(x, p) /\ Going(x, p)
  BY <1>0, Handled
<1>5. /\ Whole(y) /\ y.v.tasks = rows /\ rows \in Seq(Rows) /\ y.v.list = x.v.list
      /\ SameOutside(x.o, y.o) /\ y.o.copying = x.o.copying /\ SameFrame(x.v, y.v)
      /\ \A i \in Ids : y.o.watched[i] = IF i = id /\ heard THEN TermArea(y.v) ELSE x.o.watched[i]
      /\ y.n = IF heard /\ id \in x.o.copying THEN Append(x.n, Enters(id)) ELSE x.n
  <2>1. Whole(x) /\ id \in Ids /\ up \in BOOLEAN
    BY <1>0, <1>1
  <2>2. AddedSo(x, y, id, up)
    <3> HIDE DEF id, up
    <3> QED  BY ONLY <2>1, AddedIs
  <2> QED  BY ONLY <2>2 DEF AddedSo
<1>6. HasViewers(y.v) = HasViewers(x.v) /\ Alive(y.o) = Alive(x.o) /\ TermArea(y.v) = TermArea(x.v)
  <2>1. SameFrame(x.v, y.v) /\ x.o.tasks = y.o.tasks
    BY <1>5 DEF SameOutside
  <2>2. Alive(y.o) = Alive(x.o)
    BY <2>1 DEF Alive
  <2> QED  BY <2>1, <2>2, FrameIs
<1>7. row \in Rows /\ row.id = id /\ row.up = up /\ row.surface = FALSE
  BY <1>1 DEF NewRow, Rows
<1> HIDE DEF row
<1>8. /\ Len(s) \in Nat /\ Len(rows) = Len(s) + 1 /\ rows[Len(s) + 1] = row
      /\ \A i \in 1..Len(s) : rows[i] = s[i] /\ i \in 1..Len(rows)
      /\ \A i \in 1..Len(rows) : i \in 1..Len(s) \/ i = Len(s) + 1
  BY <1>0, <1>7, EndIs
<1> HIDE DEF p, y, rows, id, up, s
<1>9. \A i \in Ids : i \in Shown(y.v) <=> i \in Shown(x.v) \/ i = id
  <2>1. \A i : i \in Shown(x.v) <=> \E j \in 1..Len(s) : s[j].id = i
    BY <1>0, Typed1 DEF s
  <2>2. \A i : i \in Shown(y.v) <=> \E j \in 1..Len(rows) : rows[j].id = i
    <3>1. \A i : i \in Shown(y.v) <=> \E j \in 1..Len(y.v.tasks) : y.v.tasks[j].id = i
      <4>1. Whole(y)
        BY <1>5
      <4> QED  BY ONLY <4>1, Typed1
    <3> QED  BY ONLY <1>5, <3>1
  <2>3. \A i : (\E j \in 1..Len(rows) : rows[j].id = i) <=> (\E j \in 1..Len(s) : s[j].id = i) \/ i = id
    <3>1. ASSUME NEW i, NEW j \in 1..Len(rows), rows[j].id = i PROVE (\E k \in 1..Len(s) : s[k].id = i) \/ i = id
      BY <1>7, <1>8, <3>1
    <3>2. ASSUME NEW i, NEW j \in 1..Len(s), s[j].id = i PROVE \E k \in 1..Len(rows) : rows[k].id = i
      BY <1>8, <3>2
    <3>3. Len(s) + 1 \in 1..Len(rows) /\ rows[Len(s) + 1].id = id
      BY <1>7, <1>8
    <3> QED  BY <3>1, <3>2, <3>3
  <2> QED  BY ONLY <2>1, <2>2, <2>3
<1>10. Watching(y)
  <2>1. ASSUME NEW i \in Ids
        PROVE  y.o.watched[i] # NotObserved <=> HasViewers(y.v) /\ i \in Shown(y.v) /\ i \in Alive(y.o)
    <3>1. x.o.watched[i] # NotObserved <=> HasViewers(x.v) /\ i \in Shown(x.v) /\ i \in Alive(x.o)
      BY DEF Sound, Watching
    <3>2. TermArea(y.v) # NotObserved
      <4>1. TermArea(y.v) \in Sizes
        BY <1>5, Areas DEF Whole
      <4> QED  BY <4>1, SizeIsOne
    <3>3. y.o.watched[i] = IF i = id /\ heard THEN TermArea(y.v) ELSE x.o.watched[i]
      BY <1>5
    <3> QED  BY <1>6, <1>9, <3>1, <3>2, <3>3
  <2> QED  BY <2>1 DEF Watching
<1>11. Copied(y)
  <2>1. InCopyMode(y.v, y.o) = InCopyMode(x.v, x.o) /\ y.v.misled = x.v.misled
    BY <1>5, <1>6 DEF InCopyMode, SameFrame
  <2> DEFINE c == InCopyMode(x.v, x.o)
             misled == x.v.misled
  <2>2. Enters(id) \in Notes /\ Enters(id).id = id /\ Enters(id).on = TRUE /\ Enters(id).stale = FALSE
    BY <1>1 DEF Enters, Notes
  <2>3. \A i \in 1..Len(s) : s[i].id \in Alive(x.o) => Fits(s[i], x.n, misled, c)
    BY DEF Sound, Copied, s
  <2>4. heard /\ id \in x.o.copying => id \in c
    BY DEF InCopyMode
  <2>5. id \in Alive(x.o) /\ ~(heard /\ id \in x.o.copying) => id \notin c
    BY DEF InCopyMode
  <2> HIDE DEF c, misled
  <2>6. ASSUME NEW i \in 1..Len(rows), rows[i].id \in Alive(x.o)
        PROVE  Fits(rows[i], y.n, misled, c)
    <3>1. CASE heard /\ id \in x.o.copying
      <4>1. y.n = Append(x.n, Enters(id))
        BY <1>5, <3>1
      <4>2. CASE i \in 1..Len(s)
        <5>1. rows[i] = s[i] /\ s[i] \in Rows /\ s[i].id # id /\ Fits(s[i], x.n, misled, c)
          BY <1>0, <1>3, <1>8, <2>3, <2>6, <4>2
        <5> QED  BY <1>0, <2>2, <4>1, <5>1, NoteAdded
      <4>3. CASE i = Len(s) + 1
        <5>1. rows[i] = row /\ id \in c
          BY <1>8, <2>4, <3>1, <4>3
        <5>2. ~Enters(id).stale /\ (Enters(id).on <=> row.id \in c)
          BY <1>7, <2>2, <5>1
        <5>3. Fits(row, Append(x.n, Enters(id)), misled, c)
          BY <1>0, <1>7, <2>2, <5>2, NoteAdded
        <5> QED  BY <4>1, <5>1, <5>3
      <4> QED  BY <1>8, <4>2, <4>3
    <3>2. CASE ~(heard /\ id \in x.o.copying)
      <4>1. y.n = x.n
        BY <1>5, <3>2
      <4>2. CASE i \in 1..Len(s)
        BY <1>8, <2>3, <2>6, <4>1, <4>2
      <4>3. CASE i = Len(s) + 1
        <5>1. rows[i] = row /\ id \notin c
          BY <1>7, <1>8, <2>5, <2>6, <3>2, <4>3
        <5> QED  BY <1>3, <1>7, <4>1, <5>1 DEF Fits
      <4> QED  BY <1>8, <4>2, <4>3
    <3> QED  BY <3>1, <3>2
  <2> QED  BY <1>5, <1>6, <2>1, <2>6 DEF Copied, c, misled
<1>12. \A k \in 1..Len(y.n) : y.n[k].id = id \/ \E j \in 1..Len(x.n) : x.n[j].id = y.n[k].id
  <2>1. CASE y.n = x.n
    BY <2>1
  <2>2. CASE y.n = Append(x.n, Enters(id))
    <3>1. Enters(id) \in Notes /\ Enters(id).id = id
      BY <1>1 DEF Enters, Notes
    <3> QED  BY <1>0, <2>2, <3>1
  <2> QED  BY <1>5, <2>1, <2>2
<1>13. Coming(y, p)
  <2>1. Come(y.o) = Come(x.o) /\ y.o.coming = x.o.coming /\ y.o.tasks = x.o.tasks
    BY <1>5 DEF SameOutside, Come
  <2>2. \A i \in 1..Len(rows) : Rank(rows[i].id) <= Come(x.o)
    BY <1>3, <1>4, <1>7, <1>8 DEF Coming, s
  <2>3. \A k \in 1..Len(y.n) : Rank(y.n[k].id) <= Come(x.o)
    BY <1>3, <1>4, <1>12 DEF Coming
  <2> QED  BY <1>4, <1>5, <2>1, <2>2, <2>3 DEF Coming
<1>14. \A j \in 1..Len(p) : p[j].is = "added" => Rank(id) < Rank(p[j].id) /\ p[j].id # id
  <2>1. TAKE j \in 1..Len(p)
  <2>2. j + 1 \in 2..Len(q) /\ p[j] = q[j + 1]
    BY <1>2
  <2>3. p[j].is = "added" => Rank(id) < Rank(p[j].id)
    BY <1>3, <2>2
  <2> QED  BY <1>3, <2>3
<1>15. InOrder(y, p)
  <2>1. Sorted(rows)
    <3>1. SUFFICES ASSUME NEW i \in 1..Len(rows), NEW m \in 1..Len(rows), i < m
                   PROVE  Rank(rows[i].id) < Rank(rows[m].id)
      BY <1>5 DEF Sorted
    <3>2. i \in 1..Len(s)
      BY <1>8, <3>1
    <3>3. CASE m \in 1..Len(s)
      <4>1. i \in DOMAIN s /\ m \in DOMAIN s
        BY <1>0, <3>2, <3>3
      <4> QED  BY <1>0, <1>8, <3>1, <3>2, <3>3, <4>1 DEF Sorted
    <3>4. CASE m = Len(s) + 1
      BY <1>3, <1>7, <1>8, <3>2, <3>4
    <3> QED  BY <1>8, <3>3, <3>4
  <2>2. \A j \in 1..Len(p), i \in 1..Len(rows) : p[j].is = "added" => Rank(rows[i].id) < Rank(p[j].id)
    <3>1. TAKE j \in 1..Len(p), i \in 1..Len(rows)
    <3>2. CASE i \in 1..Len(s)
      BY <1>4, <1>8, <3>2 DEF InOrder, s
    <3>3. CASE i = Len(s) + 1
      BY <1>7, <1>8, <1>14, <3>3
    <3> QED  BY <1>8, <3>2, <3>3
  <2>3. \A j \in 1..Len(p), k \in 1..Len(y.n) : p[j].is = "added" => y.n[k].id # p[j].id
    <3>1. \A j \in 1..Len(p), k \in 1..Len(x.n) : p[j].is = "added" => x.n[k].id # p[j].id
      BY <1>4 DEF InOrder
    <3> QED  BY <1>12, <1>14, <3>1
  <2>4. Sorted(y.o.tasks)
    BY <1>4, <1>5 DEF InOrder, SameOutside
  <2>5. \A i, j \in 1..Len(p) : i < j /\ p[i].is = "added" /\ p[j].is = "added" => Rank(p[i].id) < Rank(p[j].id)
    BY <1>4 DEF InOrder
  <2> QED  BY <1>5, <2>1, <2>2, <2>3, <2>4, <2>5 DEF InOrder
<1>16. Going(y, p)
  BY <1>4, <1>6 DEF Going
<1>17. There(y, p)
  <2>1. SUFFICES ASSUME NEW i \in Ids PROVE InTime(x.v, q, i) <=> InTime(y.v, p, i)
    <3>1. \A i : HasTerminal(y.o, i) <=> HasTerminal(x.o, i)
      BY <1>5 DEF SameOutside, HasTerminal
    <3> QED  BY <1>0, <2>1, <3>1 DEF There
  <2>2. \A k \in 1..Len(q) : k = 1 \/ \E j \in 1..Len(p) : p[j] = q[k]
    <3>1. TAKE k \in 1..Len(q)
    <3>2. CASE k # 1
      <4>1. k - 1 \in 1..Len(p) /\ p[k - 1] = q[(k - 1) + 1] /\ (k - 1) + 1 = k
        BY <1>2, <3>2
      <4> QED  BY <4>1
    <3> QED  BY <3>2
  <2>3. \A j \in 1..Len(p) : \E k \in 1..Len(q) : p[j] = q[k]
    BY <1>2
  <2>4. (\E j \in 1..Len(q) : q[j].is = "removed" /\ q[j].id = i)
        <=> \E j \in 1..Len(p) : p[j].is = "removed" /\ p[j].id = i
    <3>1. ASSUME NEW j \in 1..Len(q), q[j].is = "removed", q[j].id = i
          PROVE  \E k \in 1..Len(p) : p[k].is = "removed" /\ p[k].id = i
      <4>1. PICK k \in 1..Len(p) : p[k] = q[j]
        BY <2>2, <3>1
      <4> QED  BY <3>1, <4>1
    <3>2. ASSUME NEW j \in 1..Len(p), p[j].is = "removed", p[j].id = i
          PROVE  \E k \in 1..Len(q) : q[k].is = "removed" /\ q[k].id = i
      BY <2>3, <3>2
    <3> QED  BY <3>1, <3>2
  <2>5. CASE i = id
    <3>1. i \in Shown(y.v)
      BY <1>9, <2>5
    <3>2. 1 \in 1..Len(q) /\ q[1].is = "added" /\ q[1].id = i /\ q[1].vt
      BY <1>1, <2>5 DEF id
    <3> QED  BY <2>4, <3>1, <3>2 DEF InTime
  <2>6. CASE i # id
    <3>1. i \in Shown(y.v) <=> i \in Shown(x.v)
      BY <1>9, <2>6
    <3>2. ASSUME NEW j \in 1..Len(q), q[j].is = "added", q[j].id = i, q[j].vt
          PROVE  \E k \in 1..Len(p) : p[k].is = "added" /\ p[k].id = i /\ p[k].vt
      <4>1. j # 1
        BY <2>6, <3>2 DEF id
      <4>2. PICK k \in 1..Len(p) : p[k] = q[j]
        BY <2>2, <4>1
      <4> QED  BY <3>2, <4>2
    <3>3. ASSUME NEW j \in 1..Len(p), p[j].is = "added", p[j].id = i, p[j].vt
          PROVE  \E k \in 1..Len(q) : q[k].is = "added" /\ q[k].id = i /\ q[k].vt
      BY <2>3, <3>3
    <3>4. (\E j \in 1..Len(q) : q[j].is = "added" /\ q[j].id = i /\ q[j].vt)
          <=> \E j \in 1..Len(p) : p[j].is = "added" /\ p[j].id = i /\ p[j].vt
      BY <3>2, <3>3
    <3> QED  BY <2>4, <3>1, <3>4 DEF InTime
  <2> QED  BY <2>5, <2>6
<1>18. Told(y, p)
  <2>1. ASSUME NEW i \in 1..Len(x.o.tasks) PROVE TellsOf(x.o.tasks[i], rows, p)
    <3> DEFINE t == x.o.tasks[i]
    <3>1. TellsOf(t, s, q)
      BY <1>0 DEF Told, s
    <3>2. Says(q[1], t.id) <=> t.id = id
      BY DEF Says, id
    <3> HIDE DEF t
    <3>3. Says(q[1], t.id) => \A j \in 1..Len(rows) : rows[j].id = t.id => (rows[j].up <=> q[1].up)
      <4>1. ASSUME t.id = id, NEW j \in 1..Len(rows), rows[j].id = t.id PROVE rows[j].up <=> q[1].up
        <5>1. j = Len(s) + 1
          BY <1>3, <1>8, <4>1
        <5> QED  BY <1>7, <1>8, <5>1 DEF up
      <4> QED  BY <3>2, <4>1
    <3>4. ~Says(q[1], t.id) => \A j \in 1..Len(rows) :
            rows[j].id = t.id => \E k \in 1..Len(s) : s[k].id = t.id /\ (rows[j].up <=> s[k].up)
      <4>1. ASSUME t.id # id, NEW j \in 1..Len(rows), rows[j].id = t.id
            PROVE  j \in 1..Len(s) /\ s[j].id = t.id /\ (rows[j].up <=> s[j].up)
        BY <1>7, <1>8, <4>1
      <4> QED  BY <3>2, <4>1
    <3>5. TellsOf(t, rows, p)
      BY <3>1, <3>3, <3>4, TellsHeard DEF p
    <3> QED  BY <3>5 DEF t
  <2> QED  BY <1>5, <2>1 DEF Told, SameOutside
<1>19. \A i \in Ids : y.o.watched[i] \in {x.o.watched[i], TermArea(y.v)}
  BY <1>5
<1>20. Heard(x, q, y)
  BY <1>5, <1>10, <1>11, <1>13, <1>15, <1>16, <1>17, <1>18, <1>19 DEF Heard, Sound, Agrees, p
<1> QED  BY <1>20 DEF y, id, up

-----------------------------------------------------------------------------
(* What the screens tell of copy mode, and the end of a turn.                *)
LEMMA NoteHandled ==
  ASSUME NEW x, Sound(x), x.n # <<>>
  PROVE  LET y == HandleNote([x EXCEPT !.n = Tail(@)], Head(x.n))
         IN  /\ Sound(y) /\ SameRows(x.v, y.v) /\ y.o = x.o /\ SameTurn(x.v, y.v) /\ NotesOf(x, y)
             /\ y.v.list = x.v.list /\ y.a = x.a
<1> DEFINE s == x.v.tasks
           l == Len(s)
           note == Head(x.n)
           id == note.id
           on == note.on
           rows == [i \in DOMAIN s |-> IF s[i].id = id THEN [s[i] EXCEPT !.surface = on] ELSE s[i]]
           lost == IF note.stale /\ on THEN x.v.misled \cup {id} ELSE x.v.misled \ {id}
           v == [[x.v EXCEPT !.tasks = rows] EXCEPT !.misled = lost]
           n == Tail(x.n)
           z == [x EXCEPT !.n = Tail(@)]
           y == HandleNote(z, note)
<1>1. x = [v |-> x.v, o |-> x.o, n |-> x.n, a |-> x.a] /\ x.v \in Views /\ s \in Seq(Rows) /\ x.o \in Outsides
      /\ x.n \in Seq(Notes)
  BY DEF Sound, Whole, Views
<1>2. l \in Nat /\ DOMAIN s = 1..l /\ \A i \in 1..l : s[i] \in Rows
  BY <1>1
<1>3. /\ n \in Seq(Notes) /\ note \in Notes /\ Len(n) = Len(x.n) - 1 /\ Len(x.n) \in Nat
      /\ \A k \in 1..Len(n) : n[k] = x.n[k + 1] /\ k + 1 \in 1..Len(x.n)
  BY <1>1
<1>4. id \in Ids /\ on \in BOOLEAN
  <2> HIDE DEF note
  <2> QED  BY <1>3 DEF Notes
<1>5. z.v = x.v /\ z = [v |-> x.v, o |-> x.o, n |-> n, a |-> x.a]
  BY <1>1
<1>6. y = [z EXCEPT !.v = [[z.v EXCEPT !.tasks = rows] EXCEPT !.misled = lost]]
  <2> HIDE DEF z, note
  <2> DEFINE rows0 == [i \in DOMAIN z.v.tasks |->
                         IF z.v.tasks[i].id = note.id THEN [z.v.tasks[i] EXCEPT !.surface = note.on] ELSE z.v.tasks[i]]
             w == [z.v EXCEPT !.tasks = rows0]
  <2> DEFINE misled == IF note.stale /\ note.on THEN z.v.misled \cup {note.id} ELSE z.v.misled \ {note.id}
  <2>1. y = [z EXCEPT !.v = [w EXCEPT !.misled = misled]]
    BY DEF HandleNote, WithTask
  <2>2. rows0 = rows /\ misled = lost
    BY <1>5
  <2> HIDE DEF y, rows0, lost, rows, misled
  <2> QED  BY <2>1, <2>2
<1> HIDE DEF z
<1>7. y = [v |-> v, o |-> x.o, n |-> n, a |-> x.a]
  <2> HIDE DEF y, n
  <2> QED  BY <1>5, <1>6
<1> HIDE DEF s, l, note, y
<1>8. ASSUME NEW t \in Rows
      PROVE  LET u == [t EXCEPT !.surface = on] IN u \in Rows /\ u.id = t.id /\ u.up = t.up /\ u.surface = on
  BY <1>4 DEF Rows
<1>9. \A i \in 1..l : /\ rows[i] \in Rows /\ rows[i].id = s[i].id /\ rows[i].up = s[i].up
                      /\ rows[i].surface = IF s[i].id = id THEN on ELSE s[i].surface
  BY <1>2, <1>8
<1>10. DOMAIN rows = 1..l /\ rows = [i \in 1..l |-> rows[i]]
  BY <1>2
<1> HIDE DEF rows
<1>11. rows \in Seq(Rows) /\ Len(rows) = l
  BY <1>2, <1>9, <1>10
<1>12. lost \in SUBSET Ids
  BY <1>1, <1>4 DEF Views
<1> HIDE DEF lost
<1>13. /\ v \in Views /\ v.tasks = rows /\ v.misled = lost /\ v.list = x.v.list /\ v.viewers = x.v.viewers
       /\ SameTurn(x.v, v)
  BY <1>1, <1>11, <1>12 DEF Views, SameTurn
<1> HIDE DEF v, n
<1>14. y.v = v /\ y.o = x.o /\ y.n = n /\ y.a = x.a /\ Whole(y)
  BY <1>1, <1>3, <1>7, <1>13 DEF Whole
<1>15. HasViewers(y.v) = HasViewers(x.v) /\ SameRows(x.v, y.v)
  BY <1>9, <1>11, <1>13, <1>14 DEF HasViewers, SameRows, s, l
<1>16. Shown(y.v) = Shown(x.v)
  BY <1>1, <1>13, <1>14, <1>15, SameShown
<1>17. Watching(y)
  BY <1>14, <1>15, <1>16 DEF Sound, Watching
<1>18. Copied(y)
  <2>1. ASSUME NEW i \in 1..Len(rows), rows[i].id \in Alive(x.o)
        PROVE  Fits(rows[i], n, lost, InCopyMode(x.v, x.o))
    <3> DEFINE c == InCopyMode(x.v, x.o)
               t == s[i]
               u == rows[i]
    <3>1. t \in Rows /\ u \in Rows /\ u.id = t.id /\ u.surface = IF t.id = id THEN on ELSE t.surface
      BY <1>2, <1>9, <1>11
    <3>2. Fits(t, x.n, x.v.misled, c)
      BY <1>11, <2>1, <3>1 DEF Sound, Copied, s, l
    <3>3. lost = IF Head(x.n).stale /\ Head(x.n).on THEN x.v.misled \cup {Head(x.n).id}
                 ELSE x.v.misled \ {Head(x.n).id}
      BY DEF lost, note
    <3>4. (t.id = Head(x.n).id => u.surface = Head(x.n).on) /\ (t.id # Head(x.n).id => u.surface = t.surface)
      BY <3>1 DEF note
    <3> HIDE DEF c, t, u
    <3> DEFINE misled == x.v.misled
    <3> HIDE DEF misled
    <3>5. Fits(t, x.n, misled, c)
      BY <3>2 DEF misled
    <3>6. lost = IF Head(x.n).stale /\ Head(x.n).on THEN misled \cup {Head(x.n).id}
                 ELSE misled \ {Head(x.n).id}
      BY <3>3 DEF misled
    <3>7. Fits(u, Tail(x.n), lost, c)
      BY <1>1, <3>1, <3>4, <3>5, <3>6, NoteHeard
    <3> QED  BY <3>7 DEF u, n, c
  <2>2. InCopyMode(y.v, y.o) = InCopyMode(x.v, x.o)
    BY <1>14, <1>15 DEF InCopyMode
  <2> QED  BY <1>13, <1>14, <2>1, <2>2 DEF Copied
<1>19. NotesOf(x, y)
  BY <1>3, <1>14 DEF NotesOf
<1>20. z = [x EXCEPT !.n = Tail(@)]
  BY DEF z
<1> QED  BY <1>13, <1>14, <1>15, <1>17, <1>18, <1>19 DEF Sound, y, z, note

-----------------------------------------------------------------------------
\* What is observed has the size the console shows it with, but for what it has
\* missed; and what is selected is in sight.
Tidy(v, o) ==
  /\ ~v.missed /\ ~v.wavered =>
       v.term = TermArea(v) /\ \A id \in Ids : o.watched[id] \in {NotObserved, v.term}
  /\ v.left = 0 /\ ~v.stop => ~v.wavered
  /\ v.left = 0 /\ HasViewers(v) /\ v.tasks # <<>> /\ v.list.height > 0 =>
       v.list.selected - v.list.top \in 0..v.list.height - 1

\* The end of a turn leaves the tasks as they are, and the selection in them.
Settled(x, y) ==
  /\ Sound(y) /\ y.v.tasks = x.v.tasks /\ y.n = x.n /\ SameOutside(x.o, y.o)
  /\ y.v.viewers = x.v.viewers /\ y.v.stop = x.v.stop
  /\ x.v.list.selected < Len(x.v.tasks) => y.v.list.selected = x.v.list.selected
  /\ Len(x.v.tasks) = 0 => Len(y.v.tasks) = 0

LEMMA DoneIs ==
  ASSUME NEW x, Sound(x), NEW from \in {"inbox", "notes"}, NEW left \in Nat
  PROVE  LET y == Done(x, from, left)
         IN  /\ Settled(x, y) /\ y.v.list = x.v.list /\ y.o = x.o /\ y.v.left = left
             /\ TermArea(y.v) = TermArea(x.v) /\ ListHeight(y.v) = ListHeight(x.v)
             /\ y.v.term = x.v.term /\ y.v.missed = x.v.missed
             /\ (y.v.wavered <=> x.v.wavered \/ TermArea(x.v) # TermArea(view))
<1> DEFINE w == x.v.wavered \/ TermArea(x.v) # TermArea(view)
           v == [[[x.v EXCEPT !.from = from] EXCEPT !.left = left] EXCEPT !.wavered = w]
           y == Done(x, from, left)
<1>1. x = [v |-> x.v, o |-> x.o, n |-> x.n, a |-> x.a] /\ x.v \in Views /\ x.o \in Outsides
      /\ x.n \in Seq(Notes) /\ x.v.wavered \in BOOLEAN
  BY DEF Sound, Whole, Views
<1>2. w \in BOOLEAN
  BY <1>1
<1>3. y = [v |-> v, o |-> x.o, n |-> x.n, a |-> x.a]
  <2>1. y = [x EXCEPT !.v.from = from, !.v.left = left, !.v.wavered = w]
    BY DEF Done
  <2> DEFINE x1 == [x EXCEPT !.v.from = from]
             x2 == [x1 EXCEPT !.v.left = left]
             x3 == [x2 EXCEPT !.v.wavered = w]
             v1 == [x.v EXCEPT !.from = from]
             v2 == [v1 EXCEPT !.left = left]
  <2> HIDE DEF w, y
  <2>2. y = x3
    BY <2>1
  <2>3. x1 = [v |-> v1, o |-> x.o, n |-> x.n, a |-> x.a]
    BY <1>1
  <2> HIDE DEF x1, v1
  <2>4. x2 = [v |-> v2, o |-> x.o, n |-> x.n, a |-> x.a]
    BY <2>3
  <2> HIDE DEF x2, v2
  <2>5. x3 = [v |-> [v2 EXCEPT !.wavered = w], o |-> x.o, n |-> x.n, a |-> x.a]
    BY <2>4
  <2> HIDE DEF x3
  <2> QED  BY <2>2, <2>5 DEF v1, v2
<1> HIDE DEF w
<1>4. /\ v \in Views /\ v.tasks = x.v.tasks /\ v.list = x.v.list /\ v.viewers = x.v.viewers /\ v.stop = x.v.stop
      /\ v.misled = x.v.misled /\ v.size = x.v.size /\ v.scope = x.v.scope /\ v.hide = x.v.hide
      /\ v.term = x.v.term /\ v.missed = x.v.missed /\ v.left = left /\ v.wavered = w
  BY <1>1, <1>2 DEF Views
<1> HIDE DEF v, y
<1>5. y.v = v /\ y.o = x.o /\ y.n = x.n /\ Whole(y)
  BY <1>1, <1>3, <1>4 DEF Whole
<1>6. TermArea(v) = TermArea(x.v) /\ ListHeight(v) = ListHeight(x.v) /\ HasViewers(v) = HasViewers(x.v)
      /\ Shown(v) = Shown(x.v)
  BY <1>4 DEF TermArea, ListHeight, TopHeight, HasViewers, Shown
<1>7. Watching(y) /\ Copied(y)
  BY <1>4, <1>5, <1>6 DEF Sound, Watching, Copied, InCopyMode
<1> QED  BY <1>4, <1>5, <1>6, <1>7 DEF Settled, Sound, SameOutside, y, w

\* What is selected is brought into sight.
LEMMA RenderIs ==
  ASSUME NEW x, Sound(x)
  PROVE  LET y == Render(x)
         IN  /\ Settled(x, y) /\ y.o = x.o /\ y.v.left = x.v.left
             /\ TermArea(y.v) = TermArea(x.v)
             /\ y.v.term = x.v.term /\ y.v.missed = x.v.missed /\ y.v.wavered = x.v.wavered
             /\ HasViewers(y.v) /\ y.v.tasks # <<>> /\ y.v.list.height > 0 =>
                  y.v.list.selected - y.v.list.top \in 0..y.v.list.height - 1
<1> DEFINE y == Render(x)
<1>1. x = [v |-> x.v, o |-> x.o, n |-> x.n, a |-> x.a] /\ x.v \in Views /\ x.o \in Outsides
      /\ x.n \in Seq(Notes) /\ x.v.list \in Lists /\ x.v.modal \in Modals /\ Len(x.v.tasks) \in Nat
      /\ x.v.size[2] \in Nat /\ x.v.tasks \in Seq(Rows)
  BY DEF Sound, Whole, Views, Sizes
<1>2. CASE ~HasViewers(x.v)
  <2>1. y = x
    BY <1>2 DEF Render
  <2> HIDE DEF y
  <2> QED  BY <1>2, <2>1 DEF Settled, SameOutside, y
<1>3. CASE HasViewers(x.v)
  <2> DEFINE count == Len(x.v.tasks)
             height == ListHeight(x.v)
             l == [[x.v.list EXCEPT !.height = height] EXCEPT !.count = count]
             list == Fit(x.v.list, height, count)
             rows == Sub(Min({30, x.v.size[2]}), 4)
             m == x.v.modal
             modal == IF m.kind = "menu" THEN [m EXCEPT !.list = Fit(@, rows, Len(MenuItems[m.query]))] ELSE m
             v == [[x.v EXCEPT !.list = list] EXCEPT !.modal = modal]
  <2>1. height \in Nat /\ count \in Nat
    BY <1>1, Areas
  <2>2. /\ l \in Lists /\ l.selected = x.v.list.selected /\ l.count = count /\ l.height = height
    <3> HIDE DEF height, count
    <3> QED  BY <1>1, <2>1 DEF Lists
  <2>3. list = Clamp(l)
    BY DEF Fit
  <2> HIDE DEF l, list, height, count
  <2>4. /\ list \in Lists /\ list.height = height
        /\ list.selected = IF l.selected < count THEN l.selected ELSE Sub(count, 1)
        /\ count > 0 /\ height > 0 => list.selected - list.top \in 0..height - 1
    BY <2>2, <2>3, Clamping
  <2>5. modal \in Modals
    <3>1. CASE m.kind = "menu"
      <4>1. m \in [kind : {"menu"}, query : DOMAIN MenuItems, list : Lists]
        BY <1>1, <3>1 DEF Modals
      <4>2. Len(MenuItems[m.query]) \in Nat /\ m.list \in Lists
        BY <4>1, ConsoleAssumption
      <4>3. rows \in Nat
        BY <1>1, Lesser, Subs
      <4> DEFINE k == Len(MenuItems[m.query])
                 e == [[m.list EXCEPT !.height = rows] EXCEPT !.count = k]
                 f == Fit(m.list, rows, k)
      <4> HIDE DEF rows
      <4>4. f = Clamp(e)
        BY DEF Fit
      <4>5. e \in Lists
        <5> HIDE DEF k, m
        <5> QED  BY <4>2, <4>3 DEF Lists, k
      <4> HIDE DEF e, f
      <4>6. f \in Lists
        BY <4>4, <4>5, Clamping
      <4>7. modal = [m EXCEPT !.list = f]
        BY <3>1 DEF f
      <4>8. [m EXCEPT !.list = f] \in [kind : {"menu"}, query : DOMAIN MenuItems, list : Lists]
        <5> HIDE DEF m
        <5> QED  BY <4>1, <4>6
      <4> HIDE DEF modal
      <4> QED  BY <4>7, <4>8 DEF Modals
    <3>2. CASE m.kind # "menu"
      BY <1>1, <3>2
    <3> QED  BY <3>1, <3>2
  <2>6. y = [x EXCEPT !.v.list = list, !.v.modal = modal]
    BY <1>3 DEF Render, list, height, count
  <2> HIDE DEF modal
  <2>7. y = [v |-> v, o |-> x.o, n |-> x.n, a |-> x.a]
    <3> DEFINE x1 == [x EXCEPT !.v.list = list]
               v1 == [x.v EXCEPT !.list = list]
    <3>1. y = [x1 EXCEPT !.v.modal = modal]
      BY <2>6
    <3>2. x1 = [v |-> v1, o |-> x.o, n |-> x.n, a |-> x.a]
      BY <1>1
    <3> HIDE DEF x1, v1, y
    <3>3. y = [v |-> [v1 EXCEPT !.modal = modal], o |-> x.o, n |-> x.n, a |-> x.a]
      BY <3>1, <3>2
    <3> QED  BY <3>3 DEF v1
  <2>8. /\ v \in Views /\ v.tasks = x.v.tasks /\ v.list = list /\ v.viewers = x.v.viewers /\ v.stop = x.v.stop
        /\ v.misled = x.v.misled /\ v.size = x.v.size /\ v.scope = x.v.scope /\ v.hide = x.v.hide
        /\ v.term = x.v.term /\ v.missed = x.v.missed /\ v.left = x.v.left /\ v.wavered = x.v.wavered
    BY <1>1, <2>4, <2>5 DEF Views
  <2> HIDE DEF v, y
  <2>9. y.v = v /\ y.o = x.o /\ y.n = x.n /\ Whole(y)
    BY <1>1, <2>7, <2>8 DEF Whole
  <2>10. TermArea(v) = TermArea(x.v) /\ HasViewers(v) = HasViewers(x.v) /\ Shown(v) = Shown(x.v)
    BY <2>8 DEF TermArea, TopHeight, HasViewers, Shown
  <2>11. Watching(y) /\ Copied(y)
    BY <2>8, <2>9, <2>10 DEF Sound, Watching, Copied, InCopyMode
  <2>12. x.v.tasks # <<>> => count > 0
    BY <1>1 DEF count
  <2>13. v.tasks # <<>> /\ v.list.height > 0 => v.list.selected - v.list.top \in 0..v.list.height - 1
    BY <2>4, <2>8, <2>12
  <2>14. x.v.list.selected < Len(x.v.tasks) => list.selected = x.v.list.selected
    BY <2>2, <2>4 DEF count
  <2> QED  BY <2>8, <2>9, <2>10, <2>11, <2>13, <2>14 DEF Settled, Sound, SameOutside, y
<1> QED  BY <1>2, <1>3

-----------------------------------------------------------------------------
\* What is observed is observed at the size there is, if it was, or it changed.
InSize(v, o) ==
  ~v.missed /\ ~v.wavered => v.term = TermArea(v) /\ \A id \in Ids : o.watched[id] \in {NotObserved, v.term}
LEMMA SizeSentIs ==
  ASSUME NEW x, Sound(x), InSize(x.v, x.o)
  PROVE  LET y == SizeSent(x)
         IN  /\ Settled(x, y) /\ y.v.list = x.v.list /\ y.v.left = x.v.left
             /\ InSize(y.v, y.o) /\ ~y.v.wavered
<1> DEFINE y == SizeSent(x)
           area == TermArea(x.v)
<1>1. x = [v |-> x.v, o |-> x.o, n |-> x.n, a |-> x.a] /\ x.v \in Views /\ x.o \in Outsides
      /\ x.n \in Seq(Notes) /\ x.v.wavered \in BOOLEAN /\ x.v.missed \in BOOLEAN
  BY DEF Sound, Whole, Views
<1>2. area \in Sizes /\ area # NotObserved
  BY <1>1, Areas, SizeIsOne
<1>3. CASE area = x.v.term
  <2> DEFINE m == x.v.missed \/ x.v.wavered
             b == FALSE
             v == [[x.v EXCEPT !.missed = m] EXCEPT !.wavered = b]
  <2>1. m \in BOOLEAN /\ b \in BOOLEAN /\ ~b /\ (m <=> x.v.missed \/ x.v.wavered)
    BY <1>1
  <2>2. y = [x EXCEPT !.v.missed = m, !.v.wavered = b]
    BY <1>3 DEF SizeSent
  <2> HIDE DEF m, b, y
  <2>3. y = [v |-> v, o |-> x.o, n |-> x.n, a |-> x.a]
    <3> DEFINE x1 == [x EXCEPT !.v.missed = m]
               x2 == [x1 EXCEPT !.v.wavered = b]
               v1 == [x.v EXCEPT !.missed = m]
    <3>1. y = x2
      BY <2>2
    <3>2. x1 = [v |-> v1, o |-> x.o, n |-> x.n, a |-> x.a]
      BY <1>1
    <3> HIDE DEF x1, v1
    <3>3. x2 = [v |-> [v1 EXCEPT !.wavered = b], o |-> x.o, n |-> x.n, a |-> x.a]
      BY <3>2
    <3> HIDE DEF x2
    <3> QED  BY <3>1, <3>3 DEF v1
  <2>4. /\ v \in Views /\ v.tasks = x.v.tasks /\ v.list = x.v.list /\ v.viewers = x.v.viewers /\ v.stop = x.v.stop
        /\ v.misled = x.v.misled /\ v.size = x.v.size /\ v.scope = x.v.scope /\ v.hide = x.v.hide
        /\ v.term = x.v.term /\ v.left = x.v.left /\ v.missed = m /\ v.wavered = b
    BY <1>1, <2>1 DEF Views
  <2> HIDE DEF v
  <2>5. y.v = v /\ y.o = x.o /\ y.n = x.n /\ Whole(y)
    BY <1>1, <2>3, <2>4 DEF Whole
  <2>6. TermArea(v) = TermArea(x.v) /\ HasViewers(v) = HasViewers(x.v) /\ Shown(v) = Shown(x.v)
    BY <2>4 DEF TermArea, TopHeight, HasViewers, Shown
  <2>7. Watching(y) /\ Copied(y)
    BY <2>4, <2>5, <2>6 DEF Sound, Watching, Copied, InCopyMode
  <2>8. InSize(y.v, y.o)
    BY <2>1, <2>4, <2>5, <2>6 DEF InSize
  <2> QED  BY <2>1, <2>4, <2>5, <2>7, <2>8 DEF Settled, Sound, SameOutside, y
<1>4. CASE area # x.v.term
  <2> DEFINE b == FALSE
             v == [[[x.v EXCEPT !.term = area] EXCEPT !.missed = b] EXCEPT !.wavered = b]
             watched == [id \in DOMAIN x.o.watched |->
                           IF id \in Shown(x.v) /\ x.o.watched[id] # NotObserved THEN area ELSE x.o.watched[id]]
             o == [x.o EXCEPT !.watched = watched]
  <2>1. y = [x EXCEPT !.v.term = area, !.v.missed = b, !.v.wavered = b, !.o.watched = watched]
    BY <1>4 DEF SizeSent
  <2>2. b \in BOOLEAN /\ ~b
    OBVIOUS
  <2>3. /\ watched \in [Ids -> Sizes \cup {NotObserved}]
        /\ \A id \in Ids : watched[id] =
             IF id \in Shown(x.v) /\ x.o.watched[id] # NotObserved THEN area ELSE x.o.watched[id]
    <3>1. x.o.watched \in [Ids -> Sizes \cup {NotObserved}]
      BY <1>1 DEF Outsides
    <3> HIDE DEF area
    <3> QED  BY <1>2, <3>1
  <2> HIDE DEF b, watched, y, area
  <2>4. y = [v |-> v, o |-> o, n |-> x.n, a |-> x.a]
    <3> DEFINE x1 == [x EXCEPT !.v.term = area]
               x2 == [x1 EXCEPT !.v.missed = b]
               x3 == [x2 EXCEPT !.v.wavered = b]
               x4 == [x3 EXCEPT !.o.watched = watched]
               v1 == [x.v EXCEPT !.term = area]
               v2 == [v1 EXCEPT !.missed = b]
               v3 == [v2 EXCEPT !.wavered = b]
    <3>1. y = x4
      BY <2>1
    <3>0. x = [v |-> x.v, o |-> x.o, n |-> x.n, a |-> x.a]
      BY <1>1
    <3>2. x1 = [v |-> v1, o |-> x.o, n |-> x.n, a |-> x.a]
      BY ONLY <3>0
    <3> HIDE DEF x1, v1
    <3>3. x2 = [v |-> v2, o |-> x.o, n |-> x.n, a |-> x.a]
      BY <3>2
    <3> HIDE DEF x2, v2
    <3>4. x3 = [v |-> v3, o |-> x.o, n |-> x.n, a |-> x.a]
      BY <3>3
    <3> HIDE DEF x3, v3
    <3>5. x4 = [v |-> v3, o |-> o, n |-> x.n, a |-> x.a]
      BY <3>4
    <3> HIDE DEF x4, o
    <3> QED  BY <3>1, <3>5 DEF v1, v2, v3
  <2>5. /\ v \in Views /\ v.tasks = x.v.tasks /\ v.list = x.v.list /\ v.viewers = x.v.viewers /\ v.stop = x.v.stop
        /\ v.misled = x.v.misled /\ v.size = x.v.size /\ v.scope = x.v.scope /\ v.hide = x.v.hide
        /\ v.term = area /\ v.left = x.v.left /\ v.missed = b /\ v.wavered = b
    BY <1>1, <1>2, <2>2 DEF Views
  <2>6. o \in Outsides /\ SameOutside(x.o, o) /\ o.copying = x.o.copying /\ o.watched = watched
    BY <1>1, <2>3 DEF Outsides, SameOutside
  <2> HIDE DEF v, o
  <2>7. y.v = v /\ y.o = o /\ y.n = x.n /\ Whole(y)
    BY <1>1, <2>4, <2>5, <2>6 DEF Whole
  <2>8. TermArea(v) = area /\ HasViewers(v) = HasViewers(x.v) /\ Shown(v) = Shown(x.v) /\ Alive(o) = Alive(x.o)
    BY <2>5, <2>6 DEF TermArea, TopHeight, HasViewers, Shown, area, Alive, SameOutside
  <2>9. \A id \in Ids : watched[id] # NotObserved <=> x.o.watched[id] # NotObserved
    BY <1>2, <2>3
  <2>10. Watching(y)
    BY <2>6, <2>7, <2>8, <2>9 DEF Sound, Watching
  <2>11. Copied(y)
    BY <2>5, <2>6, <2>7, <2>8 DEF Sound, Copied, InCopyMode
  <2>12. \A id \in Ids : watched[id] \in {NotObserved, area}
    <3>1. TAKE id \in Ids
    <3>2. x.o.watched[id] # NotObserved => id \in Shown(x.v)
      BY DEF Sound, Watching
    <3> QED  BY <2>3, <3>2
  <2>13. InSize(y.v, y.o)
    BY <2>5, <2>6, <2>7, <2>8, <2>12 DEF InSize
  <2> QED  BY <2>2, <2>5, <2>6, <2>7, <2>10, <2>11, <2>13 DEF Settled, Sound, y
<1> QED  BY <1>3, <1>4

LEMMA SettledTwice ==
  ASSUME NEW x, NEW y, NEW z, Settled(x, y), Settled(y, z)
  PROVE  Settled(x, z)
BY DEF Settled, SameOutside

LEMMA SettledAgrees ==
  ASSUME NEW x, Sound(x), NEW y, Settled(x, y), NEW q \in Seq(Messages), Agrees(x, q)
  PROVE  Agrees(y, q)
<1>1. Whole(x) /\ Whole(y) /\ y.o.tasks = x.o.tasks /\ y.o.coming = x.o.coming
  BY DEF Sound, Settled, SameOutside
<1>2. SameRows(x.v, y.v)
  BY DEF Settled, SameRows
<1>3. NotesOf(x, y)
  BY <1>1 DEF Settled, NotesOf, Whole
<1> QED  BY <1>1, <1>2, <1>3, Staying

\* The next look at the layout, and what is drawn.
LEMMA Ending ==
  ASSUME NEW x, Sound(x), NEW o, InSize(view, o), SameTurn(view, x.v),
         \A id \in Ids : x.o.watched[id] \in {o.watched[id], NotObserved, TermArea(x.v)},
         NEW from \in {"inbox", "notes"}, NEW left \in Nat
  PROVE  LET y == Done(x, from, left)
             z == IF y.v.left > 0 THEN y ELSE Drawn(Render(y))
         IN  Settled(x, z) /\ Tidy(z.v, z.o)
<1> DEFINE y == Done(x, from, left)
           w == Render(y)
           z == IF y.v.left > 0 THEN y ELSE Drawn(w)
<1>1. /\ Settled(x, y) /\ y.v.list = x.v.list /\ y.o = x.o /\ y.v.left = left
      /\ TermArea(y.v) = TermArea(x.v) /\ y.v.term = x.v.term /\ y.v.missed = x.v.missed
      /\ (y.v.wavered <=> x.v.wavered \/ TermArea(x.v) # TermArea(view))
  BY DoneIs
<1> HIDE DEF y
<1>2. InSize(y.v, y.o)
  <2>1. SUFFICES ASSUME ~y.v.missed, ~y.v.wavered
                 PROVE  y.v.term = TermArea(y.v) /\ \A id \in Ids : y.o.watched[id] \in {NotObserved, y.v.term}
    BY DEF InSize
  <2>2. ~view.missed /\ ~view.wavered /\ TermArea(x.v) = TermArea(view) /\ y.v.term = view.term
    BY <1>1, <2>1 DEF SameTurn
  <2>3. view.term = TermArea(view) /\ \A id \in Ids : o.watched[id] \in {NotObserved, view.term}
    BY <2>2 DEF InSize
  <2>4. \A id \in Ids : x.o.watched[id] \in {NotObserved, view.term}
    <3>1. TAKE id \in Ids
    <3>2. x.o.watched[id] \in {o.watched[id], NotObserved, TermArea(x.v)} /\ o.watched[id] \in {NotObserved, view.term}
      BY <2>3
    <3> QED  BY <2>2, <2>3, <3>2
  <2> QED  BY <1>1, <2>2, <2>3, <2>4
<1>3. CASE left > 0
  <2>1. z = y
    BY <1>1, <1>3
  <2>2. Tidy(y.v, y.o)
    BY <1>1, <1>2, <1>3 DEF Tidy, InSize
  <2> QED  BY <1>1, <2>1, <2>2 DEF y
<1>4. CASE left = 0
  <2>1. /\ Settled(y, w) /\ w.o = y.o /\ w.v.left = y.v.left
        /\ TermArea(w.v) = TermArea(y.v)
        /\ w.v.term = y.v.term /\ w.v.missed = y.v.missed /\ w.v.wavered = y.v.wavered
        /\ HasViewers(w.v) /\ w.v.tasks # <<>> /\ w.v.list.height > 0 =>
             w.v.list.selected - w.v.list.top \in 0..w.v.list.height - 1
    <3>1. Sound(y)
      BY <1>1 DEF Settled
    <3> QED  BY <3>1, RenderIs
  <2> HIDE DEF w
  <2>2. InSize(w.v, w.o)
    BY <1>2, <2>1 DEF InSize
  <2>3. z = Drawn(w)
    BY <1>1, <1>4
  <2> HIDE DEF z
  <2>4. CASE w.v.stop
    <3>1. z = w
      BY <2>3, <2>4 DEF Drawn
    <3>2. Tidy(w.v, w.o)
      BY <2>1, <2>2, <2>4 DEF Tidy, InSize
    <3> QED  BY <1>1, <2>1, <3>1, <3>2, SettledTwice DEF z, w, y
  <2>5. CASE ~w.v.stop
    <3>1. z = SizeSent(w)
      BY <2>3, <2>5 DEF Drawn
    <3>2. Settled(w, z) /\ z.v.list = w.v.list /\ z.v.left = w.v.left /\ InSize(z.v, z.o) /\ ~z.v.wavered
      <4>1. Sound(w)
        BY <2>1 DEF Settled
      <4> QED  BY <2>2, <3>1, <4>1, SizeSentIs
    <3>3. HasViewers(z.v) = HasViewers(w.v) /\ z.v.tasks = w.v.tasks
      BY <3>2 DEF Settled, HasViewers
    <3>4. Tidy(z.v, z.o)
      BY <2>1, <3>2, <3>3 DEF Tidy, InSize
    <3>5. Settled(x, z)
      BY <1>1, <2>1, <3>2, SettledTwice
    <3> QED  BY <3>4, <3>5 DEF z, w, y
  <2> QED  BY <2>4, <2>5
<1>5. left > 0 \/ left = 0
  OBVIOUS
<1> QED  BY <1>3, <1>4, <1>5

-----------------------------------------------------------------------------
(* News of tasks leaves the selection on the task it is on.                  *)
Sticks(v, w) ==
  HasCurrent(v) =>
    IF CurrentId(v) \in Shown(w) THEN HasCurrent(w) /\ CurrentId(w) = CurrentId(v)
    ELSE w.tasks # <<>> => HasCurrent(w) /\ w.list.selected = Min({v.list.selected, Len(w.tasks) - 1})

LEMMA SameSticks ==
  ASSUME NEW v \in Views, NEW w \in Views, Len(v.tasks) <= Len(w.tasks),
         \A i \in 1..Len(v.tasks) : w.tasks[i].id = v.tasks[i].id, w.list.selected = v.list.selected
  PROVE  Sticks(v, w)
<1>1. v.tasks \in Seq(Rows) /\ w.tasks \in Seq(Rows) /\ v.list.selected \in Nat
  BY DEF Views, Lists
<1>2. ASSUME HasCurrent(v) PROVE HasCurrent(w) /\ CurrentId(w) = CurrentId(v) /\ CurrentId(v) \in Shown(w)
  <2>1. v.list.selected + 1 \in 1..Len(v.tasks) /\ v.list.selected + 1 \in DOMAIN w.tasks
    BY <1>1, <1>2 DEF HasCurrent
  <2>2. HasCurrent(w)
    BY <1>1, <1>2 DEF HasCurrent
  <2>3. CurrentId(w) = CurrentId(v)
    BY <2>1 DEF CurrentId
  <2> QED  BY <2>1, <2>2, <2>3 DEF CurrentId, Shown
<1> QED  BY <1>2 DEF Sticks

LEMMA RemovedSticks ==
  ASSUME NEW x, Sound(x), Sorted(x.v.tasks), NEW id \in Ids
  PROVE  Sticks(x.v, Removed(x, id).v)
<1> DEFINE y == Removed(x, id)
           s == x.v.tasks
           r == Without(s, id)
           sel == x.v.list.selected
<1>1. x.v \in Views /\ s \in Seq(Rows) /\ sel \in Nat /\ Len(s) \in Nat /\ DOMAIN s = 1..Len(s)
  <2>1. x.v \in Views
    BY DEF Sound, Whole
  <2>2. s \in Seq(Rows) /\ sel \in Nat
    BY <2>1 DEF Views, Lists
  <2> QED  BY <2>1, <2>2
<1>2. /\ Whole(y) /\ y.v.tasks = r /\ r \in Seq(Rows) /\ Len(r) \in Nat
      /\ \A k \in 1..Len(s) : s[k].id = id =>
           y.v.list.selected = LET l == IF k - 1 < sel THEN sel - 1 ELSE sel
                               IN  IF l < Len(r) THEN l ELSE Sub(Len(r), 1)
      /\ (\A k \in 1..Len(s) : s[k].id # id) =>
           y.v.list.selected = IF sel < Len(r) THEN sel ELSE Sub(Len(r), 1)
  BY RemovedIs
<1>3. \A t \in Rows : t.id \in Ids
  BY DEF Rows
<1> HIDE DEF y
<1>4. SUFFICES ASSUME HasCurrent(x.v) PROVE Sticks(x.v, y.v)
  BY DEF Sticks, y
<1>5. sel < Len(s) /\ sel + 1 \in 1..Len(s) /\ CurrentId(x.v) = s[sel + 1].id
  BY <1>1, <1>4 DEF HasCurrent, CurrentId
<1>6. y.v \in Views
  BY <1>2 DEF Whole
<1>7. CASE \A k \in 1..Len(s) : s[k].id # id
  <2>1. r = s
    BY <1>1, <1>7, Unchanged
  <2>2. y.v.list.selected = sel
    BY <1>1, <1>2, <1>5, <1>7, <2>1
  <2> QED  BY <1>1, <1>2, <1>6, <2>1, <2>2, SameSticks
<1>8. CASE \E k \in 1..Len(s) : s[k].id = id
  <2>1. PICK k \in 1..Len(s) : s[k].id = id
    BY <1>8
  <2>2. \A i \in 1..Len(s) : s[i].id = id <=> i = k
    BY <1>1, <1>3, <2>1, SortedOnce
  <2>3. /\ Len(r) = Len(s) - 1
        /\ \A i \in 1..Len(r) : r[i] = IF i < k THEN s[i] ELSE s[i + 1]
    <3>1. k \in 1..Len(s) + 1 /\ k <= Len(s)
      BY <1>1
    <3> QED  BY <1>1, <2>2, <3>1, OneLess
  <2>4. y.v.list.selected = LET l == IF k - 1 < sel THEN sel - 1 ELSE sel
                            IN  IF l < Len(r) THEN l ELSE Sub(Len(r), 1)
    BY <1>2, <2>1
  <2> HIDE DEF r, s
  <2>5. \A i : i \in Shown(y.v) <=> \E j \in 1..Len(r) : r[j].id = i
    <3>1. \A i : i \in Shown(y.v) <=> \E j \in 1..Len(y.v.tasks) : y.v.tasks[j].id = i
      <4>1. Whole(y)
        BY <1>2
      <4> QED  BY ONLY <4>1, Typed1
    <3> QED  BY ONLY <1>2, <3>1
  <2>6. CASE k = sel + 1
    <3>1. CurrentId(x.v) \notin Shown(y.v)
      <4>1. \A j \in 1..Len(r) : r[j].id # id
        <5>1. TAKE j \in 1..Len(r)
        <5>2. CASE j < k
          BY <1>1, <2>2, <2>3, <5>2
        <5>3. CASE j >= k
          <6>1. j + 1 \in 1..Len(s) /\ j + 1 # k /\ r[j] = s[j + 1]
            BY <1>1, <2>3, <5>3
          <6> QED  BY <2>2, <6>1
        <5> QED  BY <1>1, <1>2, <5>2, <5>3
      <4> QED  BY <1>5, <2>1, <2>5, <2>6, <4>1
    <3>2. y.v.list.selected = IF sel < Len(r) THEN sel ELSE Sub(Len(r), 1)
      BY <1>1, <2>4, <2>6
    <3>3. ASSUME y.v.tasks # <<>>
          PROVE  HasCurrent(y.v) /\ y.v.list.selected = Min({sel, Len(y.v.tasks) - 1})
      <4>1. Len(r) \in Nat /\ Len(r) > 0 /\ Len(r) - 1 \in Nat
        BY <1>2, <3>3
      <4>2. Min({sel, Len(r) - 1}) = IF sel <= Len(r) - 1 THEN sel ELSE Len(r) - 1
        BY <1>1, <4>1, Lesser
      <4>3. Sub(Len(r), 1) = Len(r) - 1
        <5> DEFINE n == Len(r)
        <5>1. n \in Nat /\ n > 0
          BY <4>1
        <5> HIDE DEF n
        <5>2. Sub(n, 1) = n - 1
          BY ONLY <5>1 DEF Sub
        <5> QED  BY <5>2 DEF n
      <4>4. y.v.list.selected = Min({sel, Len(r) - 1}) /\ y.v.list.selected < Len(r)
        BY <1>1, <1>2, <3>2, <4>1, <4>2, <4>3
      <4> QED  BY <1>2, <4>4 DEF HasCurrent
    <3> QED  BY <3>1, <3>3 DEF Sticks
  <2>7. CASE k # sel + 1
    <3> DEFINE l == IF k - 1 < sel THEN sel - 1 ELSE sel
    <3>1. l \in Nat /\ l < Len(r) /\ l + 1 \in 1..Len(r) /\ (l + 1 < k <=> sel + 1 < k)
          /\ (l + 1 < k => l = sel) /\ (~(l + 1 < k) => l + 1 = sel)
      <4>1. k \in 1..Len(s) /\ Len(r) = Len(s) - 1
        BY ONLY <2>1, <2>3
      <4> DEFINE h == Len(s)
                 w == Len(r)
      <4>2. /\ sel \in Nat /\ h \in Nat /\ sel < h /\ sel + 1 \in 1..h
            /\ k \in 1..h /\ w = h - 1 /\ k # sel + 1
        BY ONLY <1>1, <1>5, <2>7, <4>1
      <4> HIDE DEF h, w, sel
      <4>3. l \in Nat /\ l < w /\ l + 1 \in 1..w /\ (l + 1 < k <=> sel + 1 < k)
            /\ (l + 1 < k => l = sel) /\ (~(l + 1 < k) => l + 1 = sel)
        <5>1. CASE k - 1 < sel
          <6>1. l = sel - 1
            BY <5>1
          <6> HIDE DEF l
          <6> QED  BY ONLY <4>2, <5>1, <6>1
        <5>2. CASE ~(k - 1 < sel)
          <6>1. l = sel
            BY <5>2
          <6> HIDE DEF l
          <6> QED  BY ONLY <4>2, <5>2, <6>1
        <5> QED  BY ONLY <5>1, <5>2
      <4> QED  BY ONLY <4>3 DEF w, sel
    <3>2. y.v.list.selected = l
      BY <2>4, <3>1
    <3>3. r[l + 1] = s[sel + 1]
      <4>1. r[l + 1] = IF l + 1 < k THEN s[l + 1] ELSE s[(l + 1) + 1]
        BY <2>3, <3>1
      <4> HIDE DEF l
      <4> QED  BY <3>1, <4>1
    <3> HIDE DEF l
    <3>4. HasCurrent(y.v) /\ CurrentId(y.v) = CurrentId(x.v)
      BY <1>2, <1>5, <3>1, <3>2, <3>3 DEF HasCurrent, CurrentId
    <3>5. CurrentId(x.v) \in Shown(y.v)
      BY <1>5, <2>5, <3>1, <3>3
    <3> QED  BY <3>4, <3>5 DEF Sticks
  <2> QED  BY <2>6, <2>7
<1> QED  BY <1>7, <1>8 DEF y

\* A message, whatever it is.
LEMMA MessageHandled ==
  ASSUME NEW x, Sound(x), NEW q \in Seq(Messages), q # <<>>, Agrees(x, q)
  PROVE  LET y == HandleTaskCmd(x, Head(q))
         IN  /\ Sound(y) /\ Agrees(y, Tail(q)) /\ SameTurn(x.v, y.v)
             /\ \A id \in Ids : y.o.watched[id] \in {x.o.watched[id], NotObserved, TermArea(y.v)}
             /\ Head(q).is \in News => Sticks(x.v, y.v)
<1> DEFINE m == Head(q)
           y == HandleTaskCmd(x, m)
<1>1. m \in Messages /\ m = q[1] /\ Tail(q) \in Seq(Messages)
  OBVIOUS
<1>2. x.v \in Views /\ Sorted(x.v.tasks) /\ Whole(x)
  BY DEF Sound, Whole, Agrees, InOrder
<1>3. ASSUME Heard(x, q, y), Sticks(x.v, y.v)
      PROVE  /\ Sound(y) /\ Agrees(y, Tail(q)) /\ SameTurn(x.v, y.v) /\ Sticks(x.v, y.v)
             /\ \A id \in Ids : y.o.watched[id] \in {x.o.watched[id], NotObserved, TermArea(y.v)}
  <2> HIDE DEF y, m
  <2>1. \A id \in Ids : y.o.watched[id] \in {x.o.watched[id], TermArea(y.v)}
    BY <1>3 DEF Heard
  <2>2. \A id \in Ids : y.o.watched[id] \in {x.o.watched[id], NotObserved, TermArea(y.v)}
    BY <2>1
  <2> QED  BY <1>3, <2>2 DEF Heard, SameFrame
<1>4. CASE m.is = "state"
  <2>1. y = StateChanged(x, m.id, m.up)
    BY <1>4 DEF HandleTaskCmd
  <2>2. Heard(x, q, y)
    <3> HIDE DEF y
    <3> QED  BY <1>1, <1>4, <2>1, TurningHeard
  <2>3. m.id \in Ids /\ m.up \in BOOLEAN
    BY <1>1, <1>4, MessageKinds DEF News
  <2>4. Sticks(x.v, y.v)
    <3> HIDE DEF y, m
    <3>1. PICK rows \in Seq(Rows) :
            /\ StateChanged(x, m.id, m.up) = RowsOf(x, rows) /\ Len(rows) = Len(x.v.tasks)
            /\ \A i \in 1..Len(rows) : rows[i].id = x.v.tasks[i].id
      BY <1>2, <2>3, TurnedRows
    <3>2. /\ Whole(y) /\ y.v.tasks = rows /\ y.v.list = x.v.list
      BY <1>2, <2>1, <3>1, RowsChange
    <3>3. Len(x.v.tasks) \in Nat /\ y.v \in Views
      BY <1>2, <3>2 DEF Views, Whole
    <3>4. /\ x.v \in Views /\ Len(x.v.tasks) <= Len(y.v.tasks) /\ y.v.list.selected = x.v.list.selected
          /\ \A i \in 1..Len(x.v.tasks) : y.v.tasks[i].id = x.v.tasks[i].id
      BY <1>2, <3>1, <3>2, <3>3 DEF Whole
    <3> QED  BY ONLY <3>3, <3>4, SameSticks
  <2> QED  BY <1>3, <2>2, <2>4
<1>5. CASE m.is = "removed"
  <2>1. y = Removed(x, m.id)
    BY <1>5 DEF HandleTaskCmd
  <2>2. Heard(x, q, y)
    <3> HIDE DEF y
    <3> QED  BY <1>1, <1>5, <2>1, RemovalHeard
  <2>3. m.id \in Ids
    BY <1>1, <1>5, MessageKinds DEF News
  <2>4. Sticks(x.v, y.v)
    <3> HIDE DEF y
    <3> QED  BY <1>2, <2>1, <2>3, RemovedSticks
  <2> QED  BY <1>3, <2>2, <2>4
<1>6. CASE m.is = "added"
  <2>1. y = Added(x, m.id, m.up, m.vt)
    BY <1>6 DEF HandleTaskCmd
  <2>2. m.id \in Ids /\ m.up \in BOOLEAN /\ m.vt \in BOOLEAN
    BY <1>1, <1>6, MessageKinds DEF News
  <2>3. CASE ~m.vt
    <3>1. y = x
      BY <2>1, <2>3 DEF Added
    <3> HIDE DEF y
    <3>2. Heard(x, q, y)
      BY <1>1, <1>6, <2>3, <3>1, UnshownHeard
    <3>3. Sticks(x.v, y.v)
      <4>1. Len(x.v.tasks) \in Nat
        BY <1>2 DEF Views
      <4> QED  BY <1>2, <3>1, <4>1, SameSticks
    <3> QED  BY <1>3, <3>2, <3>3 DEF y
  <2>4. CASE m.vt
    <3>0. m.vt = TRUE
      BY <2>2, <2>4
    <3>1. y = Added(x, m.id, m.up, TRUE)
      BY <2>1, <3>0
    <3> HIDE DEF y
    <3>2. Heard(x, q, y)
      BY <1>1, <1>6, <3>0, <3>1, AdditionHeard
    <3>3. Sticks(x.v, y.v)
      <4> HIDE DEF m
      <4> DEFINE rows == Append(x.v.tasks, NewRow(m.id, m.up))
      <4>1. Whole(y) /\ y.v.tasks = rows /\ rows \in Seq(Rows) /\ y.v.list = x.v.list
        BY <1>2, <2>2, <3>1, AddedIs DEF AddedSo
      <4>2. x.v.tasks \in Seq(Rows) /\ NewRow(m.id, m.up) \in Rows
        BY <1>2, <2>2 DEF Views, NewRow, Rows
      <4>3. Len(x.v.tasks) <= Len(rows) /\ \A i \in 1..Len(x.v.tasks) : rows[i].id = x.v.tasks[i].id
        BY <4>2
      <4> HIDE DEF rows
      <4>4. y.v \in Views
        BY <4>1 DEF Whole
      <4> QED  BY <1>2, <4>1, <4>3, <4>4, SameSticks
    <3> QED  BY <1>3, <3>2, <3>3 DEF y
  <2> QED  BY <2>3, <2>4
<1>7. CASE m.is \notin News
  <2>1. Sound(y) /\ Loud(x, y)
    BY <1>1, <1>7, Heeding
  <2> HIDE DEF y
  <2>2. Agrees(x, Tail(q))
    BY <1>2, <1>7, Dropping
  <2>3. Whole(y) /\ SameRows(x.v, y.v) /\ y.o.tasks = x.o.tasks /\ y.o.coming = x.o.coming /\ NotesOf(x, y)
    BY <2>1 DEF Sound, Loud, SameOutside
  <2>4. Agrees(y, Tail(q))
    BY <1>1, <1>2, <2>2, <2>3, Staying
  <2> QED  BY <1>7, <2>1, <2>4 DEF Loud, y
<1> QED  BY <1>4, <1>5, <1>6, <1>7 DEF News

-----------------------------------------------------------------------------
(* The console, step by step.                                                *)
Kept == inbox \in Seq(Messages) /\ Sound(Now) /\ Agrees(Now, inbox) /\ Tidy(view, outside)

LEMMA NowIs ==
  /\ Now.v = view /\ Now.o = outside /\ Now.n = notes /\ Now.a = asked
  /\ Now' = [v |-> view', o |-> outside', n |-> notes', a |-> asked']
BY DEF Now

LEMMA Became ==
  ASSUME NEW z, Sound(z), NEW q \in Seq(Messages), Agrees(z, q), Tidy(z.v, z.o),
         view' = z.v, outside' = z.o, notes' = z.n, asked' = z.a, inbox' = q
  PROVE  Kept'
<1>1. z = [v |-> z.v, o |-> z.o, n |-> z.n, a |-> z.a]
  BY DEF Sound, Whole
<1>2. Now' = z
  BY <1>1, NowIs
<1>3. Sound(Now)' /\ Agrees(Now, inbox)' /\ Tidy(view, outside)'
  <2>1. Sound(Now') /\ Agrees(Now', inbox') /\ Tidy(view', outside')
    BY <1>2
  <2>2. Sound(Now)' <=> Sound(Now')
    BY DEF Sound, Whole, Watching, Copied, Fits, InCopyMode
  <2>3. Agrees(Now, inbox)' <=> Agrees(Now', inbox')
    BY DEF Agrees, Coming, InOrder, Going, There, Told
  <2>4. Tidy(view, outside)' <=> Tidy(view', outside')
    BY DEF Tidy
  <2> QED  BY <2>1, <2>2, <2>3, <2>4
<1> QED  BY <1>3 DEF Kept

LEMMA SticksOn ==
  ASSUME NEW v, NEW w, NEW u, Sticks(v, w), u.tasks = w.tasks,
         w.list.selected < Len(w.tasks) => u.list.selected = w.list.selected
  PROVE  Sticks(v, u)
<1>1. HasCurrent(w) => HasCurrent(u) /\ CurrentId(u) = CurrentId(w)
  BY DEF HasCurrent, CurrentId
<1>2. Shown(u) = Shown(w)
  BY DEF Shown
<1>3. HasCurrent(w) => u.list.selected = w.list.selected
  BY DEF HasCurrent
<1> QED  BY <1>1, <1>2, <1>3 DEF Sticks

LEMMA SticksIsKept ==
  ASSUME Sticks(view, view')
  PROVE  SelectionKept
<1>1. CurrentId(view') = CurrentId(view)' /\ Shown(view') = Shown(view)' /\ HasCurrent(view') = HasCurrent(view)'
  BY DEF CurrentId, Shown, HasCurrent
<1> QED  BY <1>1 DEF Sticks, SelectionKept

LEMMA LeftIs ==
  ASSUME Kept, NEW q, NEW S, q \in Seq(S), NEW from, Turn(from, q)
  PROVE  q # <<>> /\ Left(q) \in Nat
<1>1. view.left \in Nat
  BY NowIs DEF Kept, Sound, Whole, Views
<1>2. q # <<>> /\ Len(q) \in Nat /\ Len(q) >= 1
  BY DEF Turn
<1> QED  BY <1>1, <1>2 DEF Left

LEMMA Ended ==
  ASSUME Kept, NEW x, Sound(x), SameTurn(view, x.v), NEW q \in Seq(Messages), Agrees(x, q),
         \A id \in Ids : x.o.watched[id] \in {outside.watched[id], NotObserved, TermArea(x.v)},
         NEW from \in {"inbox", "notes"}, NEW queue, Left(queue) \in Nat,
         Ends(x, from, queue), inbox' = q
  PROVE  Kept' /\ (Sticks(view, x.v) => SelectionKept)
<1> DEFINE y == Done(x, from, Left(queue))
           z == IF y.v.left > 0 THEN y ELSE Drawn(Render(y))
<1>1. Becomes(z)
  BY DEF Ends
<1>2. InSize(view, outside)
  BY DEF Kept, Tidy, InSize
<1>3. Settled(x, z) /\ Tidy(z.v, z.o)
  BY <1>2, Ending
<1> HIDE DEF z
<1>4. Sound(z) /\ Agrees(z, q)
  BY <1>3, SettledAgrees DEF Settled
<1>5. Kept'
  BY <1>1, <1>3, <1>4, Became DEF Becomes
<1>6. ASSUME Sticks(view, x.v) PROVE SelectionKept
  <2>1. Sticks(view, z.v)
    BY <1>3, <1>6, SticksOn DEF Settled
  <2> QED  BY <1>1, <2>1, SticksIsKept DEF Becomes
<1> QED  BY <1>5, <1>6

LEMMA TaskCmdKept ==
  ASSUME Kept, HandlesTaskCmd
  PROVE  Kept' /\ SelectionKept
<1> DEFINE x == HandleTaskCmd(Now, Head(inbox))
<1>1. Turn("inbox", inbox) /\ Ends(x, "inbox", inbox) /\ inbox' = Tail(inbox)
  BY DEF HandlesTaskCmd
<1>2. inbox \in Seq(Messages) /\ inbox # <<>> /\ Left(inbox) \in Nat
  BY <1>1, LeftIs DEF Kept
<1>3. Tail(inbox) \in Seq(Messages)
  BY <1>2
<1>4. /\ Sound(x) /\ Agrees(x, Tail(inbox)) /\ SameTurn(Now.v, x.v)
      /\ \A id \in Ids : x.o.watched[id] \in {Now.o.watched[id], NotObserved, TermArea(x.v)}
      /\ Head(inbox).is \in News => Sticks(Now.v, x.v)
  BY <1>2, MessageHandled DEF Kept
<1> HIDE DEF x
<1>5. SameTurn(view, x.v) /\ (\A id \in Ids : x.o.watched[id] \in {outside.watched[id], NotObserved, TermArea(x.v)})
      /\ (Head(inbox).is \in News => Sticks(view, x.v))
  BY <1>4, NowIs
<1>6. Kept' /\ (Sticks(view, x.v) => SelectionKept)
  BY <1>1, <1>2, <1>3, <1>4, <1>5, Ended
<1>7. Head(inbox).is \notin News => SelectionKept
  BY DEF SelectionKept, News
<1> QED  BY <1>5, <1>6, <1>7

LEMMA NoteKept ==
  ASSUME Kept, HandlesNote
  PROVE  Kept' /\ SelectionKept
<1> DEFINE x == HandleNote([Now EXCEPT !.n = Tail(@)], Head(notes))
<1>1. Turn("notes", notes) /\ Ends(x, "notes", notes) /\ inbox' = inbox
  BY DEF HandlesNote
<1>2. notes \in Seq(Notes) /\ notes # <<>> /\ Left(notes) \in Nat /\ inbox \in Seq(Messages)
  <2>1. notes \in Seq(Notes)
    BY NowIs DEF Kept, Sound, Whole
  <2> QED  BY <1>1, <2>1, LeftIs DEF Kept
<1>3. /\ Sound(x) /\ SameRows(Now.v, x.v) /\ x.o = Now.o /\ SameTurn(Now.v, x.v) /\ NotesOf(Now, x)
      /\ x.v.list = Now.v.list
  <2>1. x = HandleNote([Now EXCEPT !.n = Tail(@)], Head(Now.n)) /\ Now.n # <<>> /\ Sound(Now)
    BY <1>2, NowIs DEF Kept
  <2> HIDE DEF x
  <2> QED  BY <2>1, NoteHandled
<1> HIDE DEF x
<1>4. Agrees(x, inbox)
  <2>1. Whole(Now) /\ Whole(x) /\ Agrees(Now, inbox)
    BY <1>3 DEF Kept, Sound
  <2> QED  BY <1>2, <1>3, <2>1, Staying
<1>5. SameTurn(view, x.v) /\ \A id \in Ids : x.o.watched[id] \in {outside.watched[id], NotObserved, TermArea(x.v)}
  BY <1>3, NowIs
<1>6. Kept' /\ (Sticks(view, x.v) => SelectionKept)
  BY <1>1, <1>2, <1>3, <1>4, <1>5, Ended
<1>7. Sticks(view, x.v)
  <2>1. view \in Views /\ x.v \in Views
    BY <1>3, NowIs DEF Kept, Sound, Whole
  <2>2. Len(view.tasks) \in Nat
    BY <2>1 DEF Views
  <2> QED  BY <1>3, <2>1, <2>2, NowIs, SameSticks DEF SameRows
<1> QED  BY <1>6, <1>7

-----------------------------------------------------------------------------
(* What happens outside.                                                     *)
LEMMA Happened ==
  ASSUME Kept, UNCHANGED view, NEW o, NEW n, NEW q \in Seq(Messages), outside' = o, notes' = n, inbox' = q,
         Sound([v |-> view, o |-> o, n |-> n, a |-> asked]),
         Agrees([v |-> view, o |-> o, n |-> n, a |-> asked], q),
         \A id \in Ids : o.watched[id] \in {outside.watched[id], NotObserved}
  PROVE  Kept' /\ SelectionKept
<1> DEFINE x == [v |-> view, o |-> o, n |-> n, a |-> asked]
           z == [v |-> view, o |-> o, n |-> n, a |-> asked']
<1>1. Whole(x) /\ Watching(x) /\ Copied(x)
  BY DEF Sound
<1>2. z.v = x.v /\ z.o = x.o /\ z.n = x.n /\ z = [v |-> z.v, o |-> z.o, n |-> z.n, a |-> z.a]
      /\ z.v = view /\ z.o = o /\ z.n = n /\ z.a = asked'
  OBVIOUS
<1> HIDE DEF x, z
<1>3. Sound(z)
  BY <1>1, <1>2 DEF Sound, Whole, Watching, Copied
<1>4. Agrees(z, q)
  <2>1. Agrees(x, q)
    BY DEF x
  <2> QED  BY <1>2, <2>1 DEF Agrees, Coming, InOrder, Going, There, Told
<1>5. Tidy(view, o)
  <2>1. Tidy(view, outside)
    BY DEF Kept
  <2>2. ASSUME \A id \in Ids : outside.watched[id] \in {NotObserved, view.term}
        PROVE  \A id \in Ids : o.watched[id] \in {NotObserved, view.term}
    <3>1. TAKE id \in Ids
    <3>2. outside.watched[id] \in {NotObserved, view.term} /\ o.watched[id] \in {outside.watched[id], NotObserved}
      BY <2>2
    <3> QED  BY <3>2
  <2> QED  BY <2>1, <2>2 DEF Tidy
<1>6. Kept'
  BY <1>2, <1>3, <1>4, <1>5, Became
<1>7. SelectionKept
  <2>1. view \in Views
    BY NowIs DEF Kept, Sound, Whole
  <2>2. Len(view.tasks) \in Nat
    BY <2>1 DEF Views
  <2>3. Sticks(view, view)
    BY <2>1, <2>2, SameSticks
  <2> QED  BY <2>3, SticksIsKept
<1> QED  BY <1>6, <1>7

\* A task comes: its id comes after those there were.
LEMMA ComesKept ==
  ASSUME Kept, UNCHANGED view, NEW vt \in BOOLEAN, Comes(vt)
  PROVE  Kept' /\ SelectionKept
<1> DEFINE id == Head(outside.coming)
           job == [id |-> id, up |-> FALSE, vt |-> vt]
           tasks == Append(outside.tasks, job)
           o == [[outside EXCEPT !.coming = Tail(outside.coming)] EXCEPT !.tasks = tasks]
           m == [is |-> "added", id |-> id, up |-> FALSE, vt |-> vt]
           q == Append(inbox, m)
           x == [v |-> view, o |-> outside, n |-> notes, a |-> asked]
           y == [v |-> view, o |-> o, n |-> notes, a |-> asked]
           old == Come(outside)
           s == outside.tasks
<1>1. /\ x = Now /\ Whole(x) /\ Watching(x) /\ Copied(x) /\ inbox \in Seq(Messages)
      /\ Coming(x, inbox) /\ InOrder(x, inbox) /\ Going(x, inbox) /\ There(x, inbox) /\ Told(x, inbox)
  BY DEF Kept, Sound, Agrees, Now
<1>2. /\ x.v = view /\ x.o = outside /\ x.n = notes
      /\ y.v = view /\ y.o = o /\ y.n = notes /\ y = [v |-> y.v, o |-> y.o, n |-> y.n, a |-> y.a]
  OBVIOUS
<1>3. outside' = o /\ notes' = notes /\ inbox' = q
  BY DEF Comes
<1>4. /\ view \in Views /\ outside \in Outsides /\ notes \in Seq(Notes) /\ s \in Seq(Jobs)
      /\ outside.coming \in Seq(Ids) /\ outside.coming # <<>>
      /\ outside.watched \in [Ids -> Sizes \cup {NotObserved}]
  <2>1. view \in Views /\ outside \in Outsides /\ notes \in Seq(Notes)
    BY <1>1, <1>2 DEF Whole
  <2> QED  BY <2>1 DEF Outsides, Comes
<1>5. /\ id \in Ids /\ id = outside.coming[1] /\ Tail(outside.coming) \in Seq(Ids)
      /\ Len(outside.coming) \in Nat /\ Len(outside.coming) >= 1
      /\ Len(Tail(outside.coming)) = Len(outside.coming) - 1
      /\ \A k \in 1..Len(Tail(outside.coming)) :
           Tail(outside.coming)[k] = outside.coming[k + 1] /\ k + 1 \in 1..Len(outside.coming)
  BY <1>4, TailIs
<1> HIDE DEF id, x
<1>6. job \in Jobs /\ job.id = id /\ job.up = FALSE /\ job.vt = vt
      /\ m \in Messages /\ m.is = "added" /\ m.id = id /\ m.up = FALSE /\ m.vt = vt
  BY <1>5 DEF Jobs, Messages
<1> HIDE DEF job, m
<1>7. /\ tasks \in Seq(Jobs) /\ Len(s) \in Nat /\ Len(tasks) = Len(s) + 1 /\ tasks[Len(s) + 1] = job
      /\ \A i \in 1..Len(s) : tasks[i] = s[i] /\ i \in 1..Len(tasks)
      /\ \A i \in 1..Len(tasks) : i \in 1..Len(s) \/ i = Len(s) + 1
  BY <1>4, <1>6, EndIs
<1>8. /\ q \in Seq(Messages) /\ Len(inbox) \in Nat /\ Len(q) = Len(inbox) + 1 /\ q[Len(inbox) + 1] = m
      /\ \A i \in 1..Len(inbox) : q[i] = inbox[i] /\ i \in 1..Len(q)
      /\ \A i \in 1..Len(q) : i \in 1..Len(inbox) \/ i = Len(inbox) + 1
  BY <1>1, <1>6, EndIs
<1> HIDE DEF tasks, q
<1>9. o \in Outsides /\ o.tasks = tasks /\ o.coming = Tail(outside.coming) /\ o.copying = outside.copying
      /\ o.attached = outside.attached /\ o.watched = outside.watched
  BY <1>4, <1>5, <1>7 DEF Outsides
<1> HIDE DEF o, y, s
<1>10. Whole(y)
  BY <1>2, <1>4, <1>9 DEF Whole
<1>23. /\ \A i \in 1..Len(view.tasks) : view.tasks[i].id \in Ids /\ Rank(view.tasks[i].id) \in Nat
       /\ \A i \in 1..Len(s) : s[i].id \in Ids /\ Rank(s[i].id) \in Nat
       /\ \A i \in 1..Len(notes) : notes[i].id \in Ids /\ Rank(notes[i].id) \in Nat
       /\ \A i : i \in Shown(view) <=> \E j \in 1..Len(view.tasks) : view.tasks[j].id = i
       /\ \A i : i \in Alive(outside) <=> \E j \in 1..Len(s) : s[j].id = i
       /\ \A i : i \in Alive(o) <=> \E j \in 1..Len(tasks) : tasks[j].id = i
  <2>1. /\ \A i \in 1..Len(x.v.tasks) : x.v.tasks[i].id \in Ids /\ Rank(x.v.tasks[i].id) \in Nat
        /\ \A i \in 1..Len(x.o.tasks) : x.o.tasks[i].id \in Ids /\ Rank(x.o.tasks[i].id) \in Nat
        /\ \A i \in 1..Len(x.n) : x.n[i].id \in Ids /\ Rank(x.n[i].id) \in Nat
        /\ \A i : i \in Shown(x.v) <=> \E j \in 1..Len(x.v.tasks) : x.v.tasks[j].id = i
        /\ \A i : i \in Alive(x.o) <=> \E j \in 1..Len(x.o.tasks) : x.o.tasks[j].id = i
    <3>1. Whole(x)
      BY <1>1
    <3> QED  BY ONLY <3>1, Typed1
  <2>2. \A i : i \in Alive(y.o) <=> \E j \in 1..Len(y.o.tasks) : y.o.tasks[j].id = i
    BY <1>10, Typed1
  <2>3. s = x.o.tasks
    BY <1>2 DEF s
  <2>4. \A i : i \in Alive(o) <=> \E j \in 1..Len(tasks) : tasks[j].id = i
    BY ONLY <1>2, <1>9, <2>2
  <2>5. x.v = view /\ x.o = outside /\ x.n = notes
    BY <1>2
  <2> QED  BY ONLY <2>1, <2>3, <2>4, <2>5
<1>11. /\ old \in Int /\ Rank(id) = old + 1 /\ Come(o) = old + 1 /\ Len(TaskIds) \in Nat
       /\ Len(outside.coming) <= Len(TaskIds)
  <2> DEFINE n == Len(outside.coming)
             all == Len(TaskIds)
             left == Len(o.coming)
  <2>1. n <= all /\ \A k \in 1..n : outside.coming[k] = TaskIds[old + k]
    BY <1>1, <1>2 DEF Coming
  <2>2. all \in Nat /\ \A i \in 1..all : Rank(TaskIds[i]) = i
    BY Ranks
  <2>3. old = all - n /\ Come(o) = all - left
    BY DEF Come
  <2>4. n \in Nat /\ n >= 1 /\ left = n - 1 /\ id = outside.coming[1]
    BY <1>5, <1>9
  <2> HIDE DEF n, all, left, old
  <2>5. old \in Int /\ Come(o) = old + 1 /\ old + 1 \in 1..all /\ 1 \in 1..n
    BY ONLY <2>1, <2>2, <2>3, <2>4
  <2>6. id = TaskIds[old + 1]
    BY <2>1, <2>4, <2>5
  <2>7. Rank(id) = old + 1
    BY <2>2, <2>5, <2>6
  <2> QED  BY <2>1, <2>2, <2>5, <2>7 DEF n, all
<1> HIDE DEF old
<1>12. /\ \A i \in 1..Len(s) : Rank(s[i].id) <= old /\ Rank(s[i].id) \in Nat /\ s[i].id # id
       /\ \A i \in 1..Len(view.tasks) : /\ Rank(view.tasks[i].id) <= old /\ Rank(view.tasks[i].id) \in Nat
                                        /\ view.tasks[i].id # id
       /\ \A k \in 1..Len(notes) : Rank(notes[k].id) <= old /\ Rank(notes[k].id) \in Nat /\ notes[k].id # id
       /\ \A j \in 1..Len(inbox) : inbox[j].is \in News =>
            Rank(inbox[j].id) <= old /\ Rank(inbox[j].id) \in Nat /\ inbox[j].id # id
  <2>1. \A c \in Ids : Rank(c) <= old => c # id
    BY <1>11, Ranks
  <2>2. \A i \in 1..Len(s) : Rank(s[i].id) <= old /\ Rank(s[i].id) \in Nat /\ s[i].id \in Ids
    BY <1>1, <1>2, <1>23 DEF Coming, s, old
  <2>3. \A i \in 1..Len(view.tasks) :
          Rank(view.tasks[i].id) <= old /\ Rank(view.tasks[i].id) \in Nat /\ view.tasks[i].id \in Ids
    BY <1>1, <1>2, <1>23 DEF Coming, old
  <2>4. \A k \in 1..Len(notes) : Rank(notes[k].id) <= old /\ Rank(notes[k].id) \in Nat /\ notes[k].id \in Ids
    BY <1>1, <1>2, <1>23 DEF Coming, old
  <2>5. \A j \in 1..Len(inbox) : inbox[j].is \in News =>
          Rank(inbox[j].id) <= old /\ Rank(inbox[j].id) \in Nat /\ inbox[j].id \in Ids
    BY <1>1, <1>2, NewsRanks DEF Coming, old
  <2> QED  BY <2>1, <2>2, <2>3, <2>4, <2>5
<1>13. \A i : i \in Alive(o) <=> i \in Alive(outside) \/ i = id
  <2>1. \A i : i \in Alive(outside) <=> \E j \in 1..Len(s) : s[j].id = i
    BY <1>23
  <2>2. \A i : i \in Alive(o) <=> \E j \in 1..Len(tasks) : tasks[j].id = i
    BY <1>23
  <2>3. \A i : (\E j \in 1..Len(tasks) : tasks[j].id = i) <=> (\E j \in 1..Len(s) : s[j].id = i) \/ i = id
    <3>1. ASSUME NEW i, NEW j \in 1..Len(tasks), tasks[j].id = i PROVE (\E k \in 1..Len(s) : s[k].id = i) \/ i = id
      BY <1>6, <1>7, <3>1
    <3>2. ASSUME NEW i, NEW j \in 1..Len(s), s[j].id = i PROVE \E k \in 1..Len(tasks) : tasks[k].id = i
      BY <1>7, <3>2
    <3>3. Len(s) + 1 \in 1..Len(tasks) /\ tasks[Len(s) + 1].id = id
      BY <1>6, <1>7
    <3> QED  BY <3>1, <3>2, <3>3
  <2> QED  BY ONLY <2>1, <2>2, <2>3
<1>14. id \notin Shown(view)
  <2>1. \A i : i \in Shown(view) <=> \E j \in 1..Len(view.tasks) : view.tasks[j].id = i
    BY <1>23
  <2> QED  BY <1>12, <2>1
<1>15. Sound(y)
  <2>1. Watching(y)
    <3>1. \A i \in Ids : outside.watched[i] # NotObserved <=> HasViewers(view) /\ i \in Shown(view) /\ i \in Alive(outside)
      BY <1>1, <1>2 DEF Watching
    <3>2. \A i \in Ids : i \in Shown(view) => (i \in Alive(o) <=> i \in Alive(outside))
      BY <1>13, <1>14
    <3> QED  BY <1>2, <1>9, <3>1, <3>2 DEF Watching
  <2>2. Copied(y)
    <3>1. \A i \in 1..Len(view.tasks) : view.tasks[i].id \in Alive(o) => view.tasks[i].id \in Alive(outside)
      BY <1>12, <1>13
    <3>2. InCopyMode(view, o) = InCopyMode(view, outside)
      BY <1>9 DEF InCopyMode
    <3> QED  BY <1>1, <1>2, <3>1, <3>2 DEF Copied
  <2> QED  BY <1>10, <2>1, <2>2 DEF Sound
<1>16. Coming(y, q)
  <2>1. Len(o.coming) <= Len(TaskIds) /\ \A k \in 1..Len(o.coming) : o.coming[k] = TaskIds[Come(o) + k]
    <3>1. \A k \in 1..Len(outside.coming) : outside.coming[k] = TaskIds[old + k]
      BY <1>1, <1>2 DEF Coming, old
    <3>2. ASSUME NEW k \in 1..Len(o.coming) PROVE o.coming[k] = TaskIds[Come(o) + k]
      <4>1. k + 1 \in 1..Len(outside.coming) /\ o.coming[k] = outside.coming[k + 1]
        BY <1>5, <1>9
      <4>2. Come(o) + k = old + (k + 1)
        BY <1>5, <1>9, <1>11
      <4> QED  BY <3>1, <4>1, <4>2
    <3> QED  BY <1>5, <1>9, <1>11, <3>2
  <2>2. \A i \in 1..Len(tasks) : Rank(tasks[i].id) <= Come(o)
    <3>1. ASSUME NEW i \in 1..Len(tasks) PROVE Rank(tasks[i].id) <= old + 1
      <4>1. CASE i = Len(s) + 1
        <5>1. tasks[i].id = id /\ Rank(id) = old + 1 /\ old \in Int
          BY ONLY <1>6, <1>7, <1>11, <1>12, <4>1
        <5> QED  BY ONLY <5>1
      <4>2. CASE i # Len(s) + 1
        <5>1. i \in 1..Len(s) /\ tasks[i] = s[i]
          BY ONLY <1>7, <4>2, i \in 1..Len(tasks)
        <5>2. Rank(s[i].id) \in Nat /\ Rank(s[i].id) <= old /\ old \in Int
          BY ONLY <1>11, <1>12, <5>1
        <5> QED  BY ONLY <5>1, <5>2
      <4> QED  BY ONLY <4>1, <4>2
    <3> QED  BY ONLY <1>11, <3>1
  <2>3. \A i \in 1..Len(view.tasks) : Rank(view.tasks[i].id) <= Come(o)
    BY <1>11, <1>12
  <2>4. \A k \in 1..Len(notes) : Rank(notes[k].id) <= Come(o)
    BY <1>11, <1>12
  <2>5. \A j \in 1..Len(q) : q[j].is \in News => Rank(q[j].id) <= Come(o)
    BY <1>6, <1>8, <1>11, <1>12
  <2> QED  BY <1>2, <1>9, <2>1, <2>2, <2>3, <2>4, <2>5 DEF Coming
<1>17. InOrder(y, q)
  <2>1. Sorted(view.tasks)
    BY <1>1, <1>2 DEF InOrder
  <2>2. Sorted(tasks)
    <3>0. Sorted(s) /\ DOMAIN s = 1..Len(s) /\ DOMAIN tasks = 1..Len(tasks)
      BY <1>1, <1>2, <1>4, <1>7 DEF InOrder, s
    <3>1. SUFFICES ASSUME NEW i \in 1..Len(tasks), NEW j \in 1..Len(tasks), i < j
                   PROVE  Rank(tasks[i].id) < Rank(tasks[j].id)
      BY <3>0 DEF Sorted
    <3>2. i \in 1..Len(s)
      BY <1>7, <3>1
    <3>3. CASE j \in 1..Len(s)
      BY <1>7, <3>0, <3>1, <3>2, <3>3 DEF Sorted
    <3>4. CASE j = Len(s) + 1
      BY <1>6, <1>7, <1>11, <1>12, <3>2, <3>4
    <3> QED  BY <1>7, <3>3, <3>4
  <2>3. \A i, j \in 1..Len(q) : i < j /\ q[i].is = "added" /\ q[j].is = "added" => Rank(q[i].id) < Rank(q[j].id)
    <3>1. TAKE i, j \in 1..Len(q)
    <3>2. HAVE i < j /\ q[i].is = "added" /\ q[j].is = "added"
    <3>3. i \in 1..Len(inbox) /\ q[i] = inbox[i]
      BY <1>8, <3>2
    <3>4. CASE j \in 1..Len(inbox)
      BY <1>1, <1>8, <3>2, <3>3, <3>4 DEF InOrder
    <3>5. CASE j = Len(inbox) + 1
      BY <1>6, <1>8, <1>11, <1>12, <3>2, <3>3, <3>5 DEF News
    <3> QED  BY <1>8, <3>4, <3>5
  <2>4. \A j \in 1..Len(q), i \in 1..Len(view.tasks) : q[j].is = "added" => Rank(view.tasks[i].id) < Rank(q[j].id)
    <3>1. TAKE j \in 1..Len(q), i \in 1..Len(view.tasks)
    <3>2. CASE j \in 1..Len(inbox)
      BY <1>1, <1>2, <1>8, <3>2 DEF InOrder
    <3>3. CASE j = Len(inbox) + 1
      BY <1>6, <1>8, <1>11, <1>12, <3>3
    <3> QED  BY <1>8, <3>2, <3>3
  <2>5. \A j \in 1..Len(q), k \in 1..Len(notes) : q[j].is = "added" => notes[k].id # q[j].id
    <3>1. TAKE j \in 1..Len(q), k \in 1..Len(notes)
    <3>2. CASE j \in 1..Len(inbox)
      BY <1>1, <1>2, <1>8, <3>2 DEF InOrder
    <3>3. CASE j = Len(inbox) + 1
      BY <1>6, <1>8, <1>12, <3>3
    <3> QED  BY <1>8, <3>2, <3>3
  <2> QED  BY <1>2, <1>9, <2>1, <2>2, <2>3, <2>4, <2>5 DEF InOrder
<1>18. Going(y, q)
  <2>1. SUFFICES ASSUME NEW i \in 1..Len(q), q[i].is = "removed"
                 PROVE  q[i].id \notin Alive(o) /\ \A j \in i + 1..Len(q) : ~(q[j].is = "added" /\ q[j].id = q[i].id)
    BY <1>2 DEF Going
  <2>2. i \in 1..Len(inbox) /\ q[i] = inbox[i]
    BY <1>6, <1>8, <2>1
  <2>3. q[i].id # id
    BY <1>12, <2>1, <2>2 DEF News
  <2>4. q[i].id \notin Alive(outside) /\ \A j \in i + 1..Len(inbox) : ~(inbox[j].is = "added" /\ inbox[j].id = q[i].id)
    BY <1>1, <1>2, <2>1, <2>2 DEF Going
  <2>5. ASSUME NEW j \in i + 1..Len(q) PROVE ~(q[j].is = "added" /\ q[j].id = q[i].id)
    <3>1. (j \in i + 1..Len(inbox) /\ j \in 1..Len(inbox)) \/ j = Len(inbox) + 1
      BY <1>8, <2>2
    <3> QED  BY <1>6, <1>8, <2>3, <2>4, <3>1
  <2> QED  BY <1>13, <2>3, <2>4, <2>5
<1>19. There(y, q)
  <2>1. SUFFICES ASSUME NEW i \in Ids PROVE HasTerminal(o, i) <=> InTime(view, q, i)
    BY <1>2 DEF There
  <2>2. (\E j \in 1..Len(q) : q[j].is = "removed" /\ q[j].id = i)
        <=> \E j \in 1..Len(inbox) : inbox[j].is = "removed" /\ inbox[j].id = i
    <3>1. ASSUME NEW j \in 1..Len(q), q[j].is = "removed", q[j].id = i
          PROVE  j \in 1..Len(inbox) /\ inbox[j].is = "removed" /\ inbox[j].id = i
      BY <1>6, <1>8, <3>1
    <3>2. ASSUME NEW j \in 1..Len(inbox), inbox[j].is = "removed", inbox[j].id = i
          PROVE  j \in 1..Len(q) /\ q[j].is = "removed" /\ q[j].id = i
      BY <1>8, <3>2
    <3> QED  BY <3>1, <3>2
  <2>3. CASE i = id
    <3>1. HasTerminal(o, i) <=> vt
      <4>1. \A j \in 1..Len(tasks) : tasks[j].id = id <=> j = Len(s) + 1
        BY <1>6, <1>7, <1>12
      <4>2. Len(s) + 1 \in 1..Len(tasks)
        BY <1>7
      <4> QED  BY <1>6, <1>7, <1>9, <2>3, <4>1, <4>2 DEF HasTerminal
    <3>2. ~\E j \in 1..Len(q) : q[j].is = "removed" /\ q[j].id = i
      BY <1>12, <2>2, <2>3 DEF News
    <3>3. (\E j \in 1..Len(q) : q[j].is = "added" /\ q[j].id = i /\ q[j].vt) <=> vt
      <4>1. ASSUME NEW j \in 1..Len(q), q[j].is = "added", q[j].id = i, q[j].vt PROVE vt
        <5>1. j = Len(inbox) + 1
          BY <1>8, <1>12, <2>3, <4>1 DEF News
        <5> QED  BY <1>6, <1>8, <4>1, <5>1
      <4>2. ASSUME vt PROVE \E j \in 1..Len(q) : q[j].is = "added" /\ q[j].id = i /\ q[j].vt
        <5>1. Len(inbox) + 1 \in 1..Len(q)
          BY <1>8
        <5> QED  BY <1>6, <1>8, <2>3, <4>2, <5>1
      <4> QED  BY <4>1, <4>2
    <3> QED  BY <1>14, <2>3, <3>1, <3>2, <3>3 DEF InTime
  <2>4. CASE i # id
    <3>1. HasTerminal(o, i) <=> HasTerminal(outside, i)
      <4>1. ASSUME NEW j \in 1..Len(tasks), tasks[j].id = i, tasks[j].vt PROVE j \in 1..Len(s) /\ s[j].id = i /\ s[j].vt
        BY <1>6, <1>7, <2>4, <4>1
      <4>2. ASSUME NEW j \in 1..Len(s), s[j].id = i, s[j].vt PROVE j \in 1..Len(tasks) /\ tasks[j].id = i /\ tasks[j].vt
        BY <1>7, <4>2
      <4> QED  BY <1>9, <4>1, <4>2 DEF HasTerminal, s
    <3>2. (\E j \in 1..Len(q) : q[j].is = "added" /\ q[j].id = i /\ q[j].vt)
          <=> \E j \in 1..Len(inbox) : inbox[j].is = "added" /\ inbox[j].id = i /\ inbox[j].vt
      <4>1. ASSUME NEW j \in 1..Len(q), q[j].is = "added", q[j].id = i, q[j].vt
            PROVE  j \in 1..Len(inbox) /\ inbox[j].is = "added" /\ inbox[j].id = i /\ inbox[j].vt
        BY <1>6, <1>8, <2>4, <4>1
      <4>2. ASSUME NEW j \in 1..Len(inbox), inbox[j].is = "added", inbox[j].id = i, inbox[j].vt
            PROVE  j \in 1..Len(q) /\ q[j].is = "added" /\ q[j].id = i /\ q[j].vt
        BY <1>8, <4>2
      <4> QED  BY <4>1, <4>2
    <3>3. HasTerminal(outside, i) <=> InTime(view, inbox, i)
      BY <1>1, <1>2 DEF There
    <3> QED  BY <2>2, <3>1, <3>2, <3>3 DEF InTime
  <2> QED  BY <2>3, <2>4
<1>20. Told(y, q)
  <2>1. ASSUME NEW i \in 1..Len(tasks) PROVE TellsOf(tasks[i], view.tasks, q)
    <3>1. CASE i \in 1..Len(s)
      <4> DEFINE t == s[i]
                 rows == view.tasks
      <4>1. TellsOf(t, rows, inbox)
        BY <1>1, <1>2, <3>1 DEF Told, s
      <4>2. ~Says(m, t.id)
        BY <1>6, <1>12, <3>1 DEF Says
      <4>3. tasks[i] = t
        BY <1>7, <3>1
      <4> HIDE DEF t, rows
      <4>4. TellsOf(t, rows, q)
        BY <1>1, <1>6, <4>1, <4>2, TellsMore DEF q
      <4> QED  BY <4>3, <4>4 DEF rows
    <3>2. CASE i = Len(s) + 1
      <4>1. tasks[i] = job
        BY <1>7, <3>2
      <4>2. ASSUME NEW k \in 1..Len(q), Says(q[k], id), \A j \in k + 1..Len(q) : ~Says(q[j], id)
            PROVE  q[k].up <=> job.up
        <5>1. Says(m, id)
          BY <1>6 DEF Says
        <5>2. k = Len(inbox) + 1
          <6>1. ASSUME k # Len(inbox) + 1 PROVE FALSE
            <7>1. Len(inbox) + 1 \in k + 1..Len(q)
              BY <1>8, <6>1
            <7> QED  BY <1>8, <4>2, <5>1, <7>1
          <6> QED  BY <6>1
        <5> QED  BY <1>6, <1>8, <5>2
      <4>3. ASSUME \A k \in 1..Len(q) : ~Says(q[k], id) PROVE FALSE
        <5>1. Len(inbox) + 1 \in 1..Len(q)
          BY <1>8
        <5> QED  BY <1>6, <1>8, <4>3, <5>1 DEF Says
      <4> QED  BY <1>6, <4>1, <4>2, <4>3 DEF TellsOf
    <3> QED  BY <1>7, <3>1, <3>2
  <2> QED  BY <1>2, <1>9, <2>1 DEF Told
<1>21. Agrees(y, q)
  BY <1>16, <1>17, <1>18, <1>19, <1>20 DEF Agrees
<1>22. \A i \in Ids : o.watched[i] \in {outside.watched[i], NotObserved}
  BY <1>9
<1> QED  BY <1>3, <1>8, <1>15, <1>21, <1>22, Happened DEF y

-----------------------------------------------------------------------------
\* A task goes: nothing that says it came is still to be heard after the word of it.
LEMMA GoesKept ==
  ASSUME Kept, UNCHANGED view, NEW id, Goes(id)
  PROVE  Kept' /\ SelectionKept
<1> DEFINE s == outside.tasks
           r == Without(s, id)
           copying == outside.copying \ {id}
           watched == [outside.watched EXCEPT ![id] = NotObserved]
           o1 == [outside EXCEPT !.tasks = r]
           o2 == [o1 EXCEPT !.copying = copying]
           o == [o2 EXCEPT !.watched = watched]
           m == [is |-> "removed", id |-> id]
           q == Append(inbox, m)
           x == [v |-> view, o |-> outside, n |-> notes, a |-> asked]
           y == [v |-> view, o |-> o, n |-> notes, a |-> asked]
<1>1. /\ x = Now /\ Whole(x) /\ Watching(x) /\ Copied(x) /\ inbox \in Seq(Messages)
      /\ Coming(x, inbox) /\ InOrder(x, inbox) /\ Going(x, inbox) /\ There(x, inbox) /\ Told(x, inbox)
  BY DEF Kept, Sound, Agrees, Now
<1>2. /\ x.v = view /\ x.o = outside /\ x.n = notes
      /\ y.v = view /\ y.o = o /\ y.n = notes /\ y = [v |-> y.v, o |-> y.o, n |-> y.n, a |-> y.a]
  OBVIOUS
<1>3. outside' = o /\ notes' = notes /\ inbox' = q /\ id \in Alive(outside)
  <2>1. outside' = [outside EXCEPT !.tasks = r, !.copying = copying, !.watched = watched]
    BY DEF Goes
  <2> HIDE DEF r, copying, watched
  <2> QED  BY <2>1 DEF Goes
<1>4. /\ view \in Views /\ outside \in Outsides /\ notes \in Seq(Notes) /\ s \in Seq(Jobs)
      /\ outside.watched \in [Ids -> Sizes \cup {NotObserved}]
  <2>1. view \in Views /\ outside \in Outsides /\ notes \in Seq(Notes)
    BY <1>1, <1>2 DEF Whole
  <2> QED  BY <2>1 DEF Outsides
<1> HIDE DEF x
<1>5. /\ \A i \in 1..Len(s) : s[i].id \in Ids /\ Rank(s[i].id) \in Nat
      /\ \A i : i \in Alive(outside) <=> \E j \in 1..Len(s) : s[j].id = i
  <2>1. /\ \A i \in 1..Len(x.o.tasks) : x.o.tasks[i].id \in Ids /\ Rank(x.o.tasks[i].id) \in Nat
        /\ \A i : i \in Alive(x.o) <=> \E j \in 1..Len(x.o.tasks) : x.o.tasks[j].id = i
    <3>1. Whole(x)
      BY <1>1
    <3> QED  BY ONLY <3>1, Typed1
  <2> QED  BY <1>2, <2>1
<1>6. id \in Ids
  BY <1>3, <1>5
<1>7. m \in Messages /\ m.is = "removed" /\ m.id = id
  BY <1>6 DEF Messages
<1> HIDE DEF m, s
<1>8. /\ r \in Seq(Jobs) /\ Sorted(r) /\ Sorted(s)
      /\ \A i \in 1..Len(r) : \E j \in 1..Len(s) : r[i] = s[j] /\ s[j].id # id
      /\ \A j \in 1..Len(s) : s[j].id # id => \E i \in 1..Len(r) : r[i] = s[j]
  <2>1. \A t \in Jobs : t.id \in Ids
    BY DEF Jobs
  <2>2. s \in Seq(Jobs) /\ Sorted(s)
    BY <1>1, <1>2, <1>4 DEF InOrder, s
  <2>3. /\ Without(s, id) \in Seq(Jobs) /\ Sorted(Without(s, id))
        /\ \A i \in 1..Len(Without(s, id)) : \E j \in 1..Len(s) : Without(s, id)[i] = s[j] /\ s[j].id # id
        /\ \A j \in 1..Len(s) : s[j].id # id => \E i \in 1..Len(Without(s, id)) : Without(s, id)[i] = s[j]
    BY ONLY <2>1, <2>2, Leaving
  <2> QED  BY ONLY <2>2, <2>3
<1>9. copying \in SUBSET Ids /\ \A i : i \in copying <=> i \in outside.copying /\ i # id
  BY <1>4 DEF Outsides
<1>10. watched \in [Ids -> Sizes \cup {NotObserved}]
       /\ \A i \in Ids : watched[i] = IF i = id THEN NotObserved ELSE outside.watched[i]
  BY <1>4
<1> HIDE DEF r, copying, watched
<1>11. o \in Outsides /\ o.tasks = r /\ o.coming = outside.coming /\ o.copying = copying /\ o.watched = watched
  <2>1. o1 \in Outsides /\ o1.tasks = r /\ o1.coming = outside.coming /\ o1.copying = outside.copying
        /\ o1.watched = outside.watched
    BY <1>4, <1>8 DEF Outsides
  <2> HIDE DEF o1
  <2>2. o2 \in Outsides /\ o2.tasks = r /\ o2.coming = outside.coming /\ o2.copying = copying
        /\ o2.watched = outside.watched
    BY <1>9, <2>1 DEF Outsides
  <2> HIDE DEF o2
  <2> QED  BY <1>10, <2>2 DEF Outsides
<1>12. /\ q \in Seq(Messages) /\ Len(inbox) \in Nat /\ Len(q) = Len(inbox) + 1 /\ q[Len(inbox) + 1] = m
       /\ \A i \in 1..Len(inbox) : q[i] = inbox[i] /\ i \in 1..Len(q)
       /\ \A i \in 1..Len(q) : i \in 1..Len(inbox) \/ i = Len(inbox) + 1
  <2>1. inbox \in Seq(Messages) /\ m \in Messages
    BY <1>1, <1>7
  <2> QED  BY ONLY <2>1, EndIs
<1> HIDE DEF o, y, q
<1>13. Whole(y)
  BY <1>2, <1>4, <1>11 DEF Whole
<1>14. \A i : i \in Alive(o) <=> i \in Alive(outside) /\ i # id
  <2>1. \A i : i \in Alive(o) <=> \E j \in 1..Len(r) : r[j].id = i
    <3>1. \A i : i \in Alive(y.o) <=> \E j \in 1..Len(y.o.tasks) : y.o.tasks[j].id = i
      BY ONLY <1>13, Typed1
    <3> QED  BY ONLY <1>2, <1>11, <3>1
  <2>2. \A i : (\E j \in 1..Len(r) : r[j].id = i) <=> (\E j \in 1..Len(s) : s[j].id = i) /\ i # id
    <3>1. ASSUME NEW i, NEW j \in 1..Len(r), r[j].id = i PROVE (\E k \in 1..Len(s) : s[k].id = i) /\ i # id
      <4>1. PICK k \in 1..Len(s) : r[j] = s[k] /\ s[k].id # id
        BY ONLY <1>8, j \in 1..Len(r)
      <4> QED  BY ONLY <3>1, <4>1
    <3>2. ASSUME NEW i, NEW j \in 1..Len(s), s[j].id = i, i # id PROVE \E k \in 1..Len(r) : r[k].id = i
      <4>1. PICK k \in 1..Len(r) : r[k] = s[j]
        BY ONLY <1>8, <3>2, j \in 1..Len(s)
      <4> QED  BY ONLY <3>2, <4>1
    <3> QED  BY ONLY <3>1, <3>2
  <2>3. \A i : i \in Alive(outside) <=> \E j \in 1..Len(s) : s[j].id = i
    BY <1>5
  <2> QED  BY ONLY <2>1, <2>2, <2>3
<1>15. Sound(y)
  <2>1. Watching(y)
    <3>1. \A i \in Ids : outside.watched[i] # NotObserved <=> HasViewers(view) /\ i \in Shown(view) /\ i \in Alive(outside)
      BY <1>1, <1>2 DEF Watching
    <3>2. ASSUME NEW i \in Ids
          PROVE  watched[i] # NotObserved <=> HasViewers(view) /\ i \in Shown(view) /\ i \in Alive(o)
      BY <1>10, <1>14, <3>1
    <3> QED  BY ONLY <1>2, <1>11, <3>2 DEF Watching
  <2>2. Copied(y)
    <3>1. SUFFICES ASSUME NEW i \in 1..Len(view.tasks), view.tasks[i].id \in Alive(o)
                   PROVE  Fits(view.tasks[i], notes, view.misled, InCopyMode(view, o))
      BY ONLY <1>2, <3>1 DEF Copied
    <3> DEFINE t == view.tasks[i]
               c == InCopyMode(view, outside)
               d == InCopyMode(view, o)
    <3>2. t.id # id /\ t.id \in Alive(outside)
      BY <1>14, <3>1
    <3>3. Fits(t, notes, view.misled, c)
      BY <1>1, <1>2, <3>2 DEF Copied
    <3>4. t.id \in c <=> t.id \in d
      BY <1>9, <1>11, <3>2 DEF InCopyMode
    <3> HIDE DEF t, c, d
    <3>5. Fits(t, notes, view.misled, d)
      BY ONLY <3>3, <3>4, FitsOwn
    <3> QED  BY <3>5 DEF t, d
  <2> QED  BY <1>13, <2>1, <2>2 DEF Sound
<1>16. Coming(y, q)
  <2>0. Come(o) = Come(outside)
    BY <1>11 DEF Come
  <2>1. Len(o.coming) <= Len(TaskIds) /\ \A k \in 1..Len(o.coming) : o.coming[k] = TaskIds[Come(o) + k]
    BY <1>1, <1>2, <1>11, <2>0 DEF Coming
  <2>2. \A i \in 1..Len(r) : Rank(r[i].id) <= Come(o)
    <3>1. TAKE i \in 1..Len(r)
    <3>2. PICK j \in 1..Len(s) : r[i] = s[j]
      BY <1>8
    <3>3. Rank(s[j].id) <= Come(outside)
      BY <1>1, <1>2 DEF Coming, s
    <3> QED  BY <2>0, <3>2, <3>3
  <2>3. \A i \in 1..Len(view.tasks) : Rank(view.tasks[i].id) <= Come(o)
    BY <1>1, <1>2, <2>0 DEF Coming
  <2>4. \A k \in 1..Len(notes) : Rank(notes[k].id) <= Come(o)
    BY <1>1, <1>2, <2>0 DEF Coming
  <2>5. \A j \in 1..Len(q) : q[j].is \in News => Rank(q[j].id) <= Come(o)
    <3>1. TAKE j \in 1..Len(q)
    <3>2. CASE j \in 1..Len(inbox)
      BY <1>1, <1>2, <1>12, <2>0, <3>2 DEF Coming
    <3>3. CASE j = Len(inbox) + 1
      <4>1. PICK k \in 1..Len(s) : s[k].id = id
        BY <1>3, <1>5
      <4>2. Rank(s[k].id) <= Come(outside)
        BY <1>1, <1>2, <4>1 DEF Coming, s
      <4> QED  BY <1>7, <1>12, <2>0, <3>3, <4>1, <4>2
    <3> QED  BY <1>12, <3>2, <3>3
  <2> QED  BY ONLY <1>2, <1>11, <2>1, <2>2, <2>3, <2>4, <2>5 DEF Coming
<1>17. InOrder(y, q)
  <2>1. Sorted(view.tasks) /\ Sorted(r)
    BY <1>1, <1>2, <1>8 DEF InOrder
  <2>2. \A j \in 1..Len(q) : q[j].is = "added" => j \in 1..Len(inbox) /\ q[j] = inbox[j]
    BY <1>7, <1>12
  <2>3. \A i, j \in 1..Len(q) : i < j /\ q[i].is = "added" /\ q[j].is = "added" => Rank(q[i].id) < Rank(q[j].id)
    BY <1>1, <2>2 DEF InOrder
  <2>4. \A j \in 1..Len(q), i \in 1..Len(view.tasks) : q[j].is = "added" => Rank(view.tasks[i].id) < Rank(q[j].id)
    BY <1>1, <1>2, <2>2 DEF InOrder
  <2>5. \A j \in 1..Len(q), k \in 1..Len(notes) : q[j].is = "added" => notes[k].id # q[j].id
    BY <1>1, <1>2, <2>2 DEF InOrder
  <2> QED  BY ONLY <1>2, <1>11, <2>1, <2>3, <2>4, <2>5 DEF InOrder
<1>18. Going(y, q)
  <2>1. SUFFICES ASSUME NEW i \in 1..Len(q), q[i].is = "removed"
                 PROVE  q[i].id \notin Alive(o) /\ \A j \in i + 1..Len(q) : ~(q[j].is = "added" /\ q[j].id = q[i].id)
    BY ONLY <1>2, <2>1 DEF Going
  <2>2. CASE i \in 1..Len(inbox)
    <3>1. q[i] = inbox[i]
      BY <1>12, <2>2
    <3>2. inbox[i].id \notin Alive(outside)
          /\ \A j \in i + 1..Len(inbox) : ~(inbox[j].is = "added" /\ inbox[j].id = inbox[i].id)
      BY <1>1, <1>2, <2>1, <2>2, <3>1 DEF Going
    <3>3. ASSUME NEW j \in i + 1..Len(q) PROVE ~(q[j].is = "added" /\ q[j].id = q[i].id)
      <4>1. (j \in i + 1..Len(inbox) /\ j \in 1..Len(inbox)) \/ j = Len(inbox) + 1
        BY <1>12, <2>2
      <4> QED  BY <1>7, <1>12, <3>1, <3>2, <4>1
    <3> QED  BY <1>14, <3>1, <3>2, <3>3
  <2>3. CASE i = Len(inbox) + 1
    <3>1. i + 1..Len(q) = {}
      BY <1>12, <2>3
    <3> QED  BY <1>7, <1>12, <1>14, <2>3, <3>1
  <2> QED  BY <1>12, <2>2, <2>3
<1>19. There(y, q)
  <2>1. SUFFICES ASSUME NEW i \in Ids PROVE HasTerminal(o, i) <=> InTime(view, q, i)
    BY ONLY <1>2, <2>1 DEF There
  <2>2. CASE i = id
    <3>1. ~HasTerminal(o, i)
      <4>1. \A j \in 1..Len(r) : r[j].id # id
        BY <1>8
      <4> QED  BY <1>11, <2>2, <4>1 DEF HasTerminal
    <3>2. Len(inbox) + 1 \in 1..Len(q) /\ q[Len(inbox) + 1].is = "removed" /\ q[Len(inbox) + 1].id = i
      BY <1>7, <1>12, <2>2
    <3> QED  BY <3>1, <3>2 DEF InTime
  <2>3. CASE i # id
    <3>1. HasTerminal(o, i) <=> HasTerminal(outside, i)
      <4>1. ASSUME NEW j \in 1..Len(r), r[j].id = i, r[j].vt PROVE \E k \in 1..Len(s) : s[k].id = i /\ s[k].vt
        <5>1. PICK k \in 1..Len(s) : r[j] = s[k]
          BY <1>8
        <5> QED  BY <4>1, <5>1
      <4>2. ASSUME NEW j \in 1..Len(s), s[j].id = i, s[j].vt PROVE \E k \in 1..Len(r) : r[k].id = i /\ r[k].vt
        <5>1. PICK k \in 1..Len(r) : r[k] = s[j]
          BY <1>8, <2>3, <4>2
        <5> QED  BY <4>2, <5>1
      <4> QED  BY <1>11, <4>1, <4>2 DEF HasTerminal, s
    <3>2. (\E j \in 1..Len(q) : q[j].is = "added" /\ q[j].id = i /\ q[j].vt)
          <=> \E j \in 1..Len(inbox) : inbox[j].is = "added" /\ inbox[j].id = i /\ inbox[j].vt
      <4>1. ASSUME NEW j \in 1..Len(q), q[j].is = "added", q[j].id = i, q[j].vt
            PROVE  j \in 1..Len(inbox) /\ inbox[j].is = "added" /\ inbox[j].id = i /\ inbox[j].vt
        BY <1>7, <1>12, <4>1
      <4>2. ASSUME NEW j \in 1..Len(inbox), inbox[j].is = "added", inbox[j].id = i, inbox[j].vt
            PROVE  j \in 1..Len(q) /\ q[j].is = "added" /\ q[j].id = i /\ q[j].vt
        BY <1>12, <4>2
      <4> QED  BY <4>1, <4>2
    <3>3. (\E j \in 1..Len(q) : q[j].is = "removed" /\ q[j].id = i)
          <=> \E j \in 1..Len(inbox) : inbox[j].is = "removed" /\ inbox[j].id = i
      <4>1. ASSUME NEW j \in 1..Len(q), q[j].is = "removed", q[j].id = i
            PROVE  j \in 1..Len(inbox) /\ inbox[j].is = "removed" /\ inbox[j].id = i
        BY <1>7, <1>12, <2>3, <4>1
      <4>2. ASSUME NEW j \in 1..Len(inbox), inbox[j].is = "removed", inbox[j].id = i
            PROVE  j \in 1..Len(q) /\ q[j].is = "removed" /\ q[j].id = i
        BY <1>12, <4>2
      <4> QED  BY <4>1, <4>2
    <3>4. HasTerminal(outside, i) <=> InTime(view, inbox, i)
      BY <1>1, <1>2 DEF There
    <3> QED  BY <3>1, <3>2, <3>3, <3>4 DEF InTime
  <2> QED  BY <2>2, <2>3
<1>20. Told(y, q)
  <2>1. ASSUME NEW i \in 1..Len(r) PROVE TellsOf(r[i], view.tasks, q)
    <3>1. PICK j \in 1..Len(s) : r[i] = s[j]
      BY <1>8
    <3> DEFINE t == s[j]
               rows == view.tasks
    <3>2. TellsOf(t, rows, inbox)
      BY <1>1, <1>2, <3>1 DEF Told, s
    <3>3. ~Says(m, t.id)
      BY <1>7 DEF Says
    <3> HIDE DEF t, rows
    <3>4. inbox \in Seq(Messages) /\ m \in Messages
      BY <1>1, <1>7
    <3>5. TellsOf(t, rows, q)
      BY ONLY <3>2, <3>3, <3>4, TellsMore DEF q
    <3> QED  BY <3>1, <3>5 DEF t, rows
  <2> QED  BY ONLY <1>2, <1>11, <2>1 DEF Told
<1>21. Agrees(y, q)
  BY <1>16, <1>17, <1>18, <1>19, <1>20 DEF Agrees
<1>22. \A i \in Ids : o.watched[i] \in {outside.watched[i], NotObserved}
  BY <1>10, <1>11
<1> QED  BY <1>3, <1>12, <1>15, <1>21, <1>22, Happened DEF y

-----------------------------------------------------------------------------
\* A task starts or ends: that is the last that is said of it.
LEMMA TurnsKept ==
  ASSUME Kept, UNCHANGED view, NEW id, NEW up \in BOOLEAN, Turns(id, up)
  PROVE  Kept' /\ SelectionKept
<1> DEFINE s == outside.tasks
           x == [v |-> view, o |-> outside, n |-> notes, a |-> asked]
           m == [is |-> "state", id |-> id, up |-> up]
           q == Append(inbox, m)
<1>0. /\ x = Now /\ Whole(x) /\ Watching(x) /\ Copied(x) /\ inbox \in Seq(Messages)
      /\ Coming(x, inbox) /\ InOrder(x, inbox) /\ Going(x, inbox) /\ There(x, inbox) /\ Told(x, inbox)
  BY DEF Kept, Sound, Agrees, Now
<1>1. PICK n \in DOMAIN s : s[n].id = id /\ outside' = [outside EXCEPT !.tasks[n].up = up]
  BY DEF Turns
<1> DEFINE job == [s[n] EXCEPT !.up = up]
           r == [s EXCEPT ![n] = job]
           o == [outside EXCEPT !.tasks = r]
           y == [v |-> view, o |-> o, n |-> notes, a |-> asked]
<1>2. /\ x.v = view /\ x.o = outside /\ x.n = notes
      /\ y.v = view /\ y.o = o /\ y.n = notes /\ y = [v |-> y.v, o |-> y.o, n |-> y.n, a |-> y.a]
  OBVIOUS
<1>3. outside' = o /\ notes' = notes /\ inbox' = q
  <2>1. outside' = o
    BY <1>1
  <2> QED  BY <2>1 DEF Turns
<1>4. /\ view \in Views /\ outside \in Outsides /\ notes \in Seq(Notes) /\ s \in Seq(Jobs)
  <2>1. view \in Views /\ outside \in Outsides /\ notes \in Seq(Notes)
    BY <1>0, <1>2 DEF Whole
  <2> QED  BY <2>1 DEF Outsides
<1> HIDE DEF x
<1>5. n \in 1..Len(s) /\ s[n] \in Jobs /\ Len(s) \in Nat /\ id \in Ids
  <2>1. n \in 1..Len(s) /\ s[n] \in Jobs /\ Len(s) \in Nat
    BY <1>1, <1>4
  <2> QED  BY <1>1, <2>1 DEF Jobs
<1>6. job \in Jobs /\ job.id = id /\ job.up = up /\ job.vt = s[n].vt
  BY <1>1, <1>5 DEF Jobs
<1>7. m \in Messages /\ m.is = "state" /\ m.id = id /\ m.up = up
  BY <1>5 DEF Messages
<1> HIDE DEF m, s, job
<1>8. /\ r \in Seq(Jobs) /\ Len(r) = Len(s) /\ r[n] = job
      /\ \A i \in 1..Len(s) : i # n => r[i] = s[i]
      /\ \A i \in 1..Len(s) : r[i].id = s[i].id /\ r[i].vt = s[i].vt
  <2>1. s \in Seq(Jobs)
    BY <1>4 DEF s
  <2>2. r \in Seq(Jobs) /\ Len(r) = Len(s) /\ r[n] = job /\ \A i \in 1..Len(s) : i # n => r[i] = s[i]
    BY <1>5, <1>6, <2>1
  <2> HIDE DEF r
  <2> QED  BY <1>1, <1>6, <2>2
<1> HIDE DEF r
<1>9. o \in Outsides /\ o.tasks = r /\ o.coming = outside.coming /\ o.copying = outside.copying
      /\ o.watched = outside.watched
  BY <1>4, <1>8 DEF Outsides
<1>10. /\ q \in Seq(Messages) /\ Len(inbox) \in Nat /\ Len(q) = Len(inbox) + 1 /\ q[Len(inbox) + 1] = m
       /\ \A i \in 1..Len(inbox) : q[i] = inbox[i] /\ i \in 1..Len(q)
       /\ \A i \in 1..Len(q) : i \in 1..Len(inbox) \/ i = Len(inbox) + 1
  <2>1. inbox \in Seq(Messages) /\ m \in Messages
    BY <1>0, <1>7
  <2> QED  BY ONLY <2>1, EndIs
<1> HIDE DEF o, y, q
<1>11. Whole(y)
  BY <1>2, <1>4, <1>9 DEF Whole
<1>12. \A i \in 1..Len(s) : s[i].id \in Ids /\ Rank(s[i].id) \in Nat
  <2>1. \A i \in 1..Len(x.o.tasks) : x.o.tasks[i].id \in Ids /\ Rank(x.o.tasks[i].id) \in Nat
    <3>1. Whole(x)
      BY <1>0
    <3> QED  BY ONLY <3>1, Typed1
  <2> QED  BY <1>2, <2>1 DEF s
<1>13. Alive(o) = Alive(outside)
  <2>1. DOMAIN r = 1..Len(s) /\ DOMAIN s = 1..Len(s)
    BY <1>4, <1>8 DEF s
  <2>2. Alive(o) = {r[i].id : i \in 1..Len(s)} /\ Alive(outside) = {s[i].id : i \in 1..Len(s)}
    BY <1>9, <2>1 DEF Alive, s
  <2> QED  BY <1>8, <2>2
<1>14. Sound(y)
  <2>1. Watching(y)
    BY <1>0, <1>2, <1>9, <1>13 DEF Watching
  <2>2. Copied(y)
    <3>1. InCopyMode(view, o) = InCopyMode(view, outside)
      BY <1>9 DEF InCopyMode
    <3> QED  BY <1>0, <1>2, <1>13, <3>1 DEF Copied
  <2> QED  BY <1>11, <2>1, <2>2 DEF Sound
<1>15. Coming(y, q)
  <2>0. Come(o) = Come(outside)
    BY <1>9 DEF Come
  <2>1. Len(o.coming) <= Len(TaskIds) /\ \A k \in 1..Len(o.coming) : o.coming[k] = TaskIds[Come(o) + k]
    BY <1>0, <1>2, <1>9, <2>0 DEF Coming
  <2>2. \A i \in 1..Len(s) : Rank(s[i].id) <= Come(o)
    BY <1>0, <1>2, <2>0 DEF Coming, s
  <2>3. \A i \in 1..Len(r) : Rank(r[i].id) <= Come(o)
    BY <1>8, <2>2
  <2>4. \A i \in 1..Len(view.tasks) : Rank(view.tasks[i].id) <= Come(o)
    BY <1>0, <1>2, <2>0 DEF Coming
  <2>5. \A k \in 1..Len(notes) : Rank(notes[k].id) <= Come(o)
    BY <1>0, <1>2, <2>0 DEF Coming
  <2>6. \A j \in 1..Len(q) : q[j].is \in News => Rank(q[j].id) <= Come(o)
    <3>1. TAKE j \in 1..Len(q)
    <3>2. CASE j \in 1..Len(inbox)
      BY <1>0, <1>2, <1>10, <2>0, <3>2 DEF Coming
    <3>3. CASE j = Len(inbox) + 1
      BY <1>1, <1>5, <1>7, <1>10, <2>2, <3>3 DEF s
    <3> QED  BY <1>10, <3>2, <3>3
  <2> QED  BY ONLY <1>2, <1>9, <2>1, <2>3, <2>4, <2>5, <2>6 DEF Coming
<1>16. InOrder(y, q)
  <2>1. Sorted(view.tasks) /\ Sorted(s)
    BY <1>0, <1>2 DEF InOrder, s
  <2>2. Sorted(r)
    <3>1. DOMAIN r = 1..Len(s) /\ DOMAIN s = 1..Len(s)
      BY <1>4, <1>8 DEF s
    <3> QED  BY <1>8, <2>1, <3>1 DEF Sorted
  <2>3. \A j \in 1..Len(q) : q[j].is = "added" => j \in 1..Len(inbox) /\ q[j] = inbox[j]
    BY <1>7, <1>10
  <2>4. \A i, j \in 1..Len(q) : i < j /\ q[i].is = "added" /\ q[j].is = "added" => Rank(q[i].id) < Rank(q[j].id)
    BY <1>0, <2>3 DEF InOrder
  <2>5. \A j \in 1..Len(q), i \in 1..Len(view.tasks) : q[j].is = "added" => Rank(view.tasks[i].id) < Rank(q[j].id)
    BY <1>0, <1>2, <2>3 DEF InOrder
  <2>6. \A j \in 1..Len(q), k \in 1..Len(notes) : q[j].is = "added" => notes[k].id # q[j].id
    BY <1>0, <1>2, <2>3 DEF InOrder
  <2> QED  BY ONLY <1>2, <1>9, <2>1, <2>2, <2>4, <2>5, <2>6 DEF InOrder
<1>17. Going(y, q)
  <2>1. SUFFICES ASSUME NEW i \in 1..Len(q), q[i].is = "removed"
                 PROVE  q[i].id \notin Alive(o) /\ \A j \in i + 1..Len(q) : ~(q[j].is = "added" /\ q[j].id = q[i].id)
    BY ONLY <1>2, <2>1 DEF Going
  <2>2. i \in 1..Len(inbox) /\ q[i] = inbox[i]
    BY <1>7, <1>10, <2>1
  <2>3. inbox[i].id \notin Alive(outside)
        /\ \A j \in i + 1..Len(inbox) : ~(inbox[j].is = "added" /\ inbox[j].id = inbox[i].id)
    BY <1>0, <1>2, <2>1, <2>2 DEF Going
  <2>4. ASSUME NEW j \in i + 1..Len(q) PROVE ~(q[j].is = "added" /\ q[j].id = q[i].id)
    <3>1. (j \in i + 1..Len(inbox) /\ j \in 1..Len(inbox)) \/ j = Len(inbox) + 1
      BY <1>10, <2>2
    <3> QED  BY <1>7, <1>10, <2>2, <2>3, <3>1
  <2> QED  BY <1>13, <2>2, <2>3, <2>4
<1>18. There(y, q)
  <2>1. SUFFICES ASSUME NEW i \in Ids PROVE HasTerminal(o, i) <=> InTime(view, q, i)
    BY ONLY <1>2, <2>1 DEF There
  <2>2. HasTerminal(o, i) <=> HasTerminal(outside, i)
    BY <1>8, <1>9 DEF HasTerminal, s
  <2>3. \A j \in 1..Len(q) : q[j].is \in {"added", "removed"} => j \in 1..Len(inbox) /\ q[j] = inbox[j]
    BY <1>7, <1>10
  <2>4. InTime(view, q, i) <=> InTime(view, inbox, i)
    BY <1>10, <2>3 DEF InTime
  <2>5. HasTerminal(outside, i) <=> InTime(view, inbox, i)
    BY <1>0, <1>2 DEF There
  <2> QED  BY <2>2, <2>4, <2>5
<1>19. Told(y, q)
  <2>0. \A i \in 1..Len(s) : s[i].id = id => i = n
    <3>1. \A t \in Jobs : t.id \in Ids
      BY DEF Jobs
    <3>2. s \in Seq(Jobs) /\ Sorted(s)
      BY <1>0, <1>2, <1>4 DEF InOrder, s
    <3>3. \A i, j \in 1..Len(s) : s[i].id = s[j].id => i = j
      BY ONLY <3>1, <3>2, SortedOnce
    <3> QED  BY <1>1, <1>5, <3>3 DEF s
  <2>1. ASSUME NEW i \in 1..Len(r) PROVE TellsOf(r[i], view.tasks, q)
    <3>1. CASE i # n
      <4> DEFINE t == s[i]
                 rows == view.tasks
      <4>1. TellsOf(t, rows, inbox) /\ r[i] = t
        BY <1>0, <1>2, <1>8, <3>1 DEF Told, s
      <4>2. ~Says(m, t.id)
        BY <1>7, <1>8, <2>0, <3>1 DEF Says
      <4> HIDE DEF t, rows
      <4>3. inbox \in Seq(Messages) /\ m \in Messages
        BY <1>0, <1>7
      <4>4. TellsOf(t, rows, q)
        BY ONLY <4>1, <4>2, <4>3, TellsMore DEF q
      <4> QED  BY <4>1, <4>4 DEF rows
    <3>2. CASE i = n
      <4>1. r[i] = job
        BY <1>8, <3>2
      <4>2. Says(m, id) /\ Len(inbox) + 1 \in 1..Len(q)
        BY <1>7, <1>10 DEF Says
      <4>3. ASSUME NEW k \in 1..Len(q), Says(q[k], id), \A j \in k + 1..Len(q) : ~Says(q[j], id)
            PROVE  q[k].up <=> job.up
        <5>1. k = Len(inbox) + 1
          <6>1. ASSUME k # Len(inbox) + 1 PROVE FALSE
            <7>1. Len(inbox) + 1 \in k + 1..Len(q)
              BY <1>10, <6>1
            <7> QED  BY <1>10, <4>2, <4>3, <7>1
          <6> QED  BY <6>1
        <5> QED  BY <1>6, <1>7, <1>10, <5>1
      <4>4. ASSUME \A k \in 1..Len(q) : ~Says(q[k], id) PROVE FALSE
        BY <1>10, <4>2, <4>4
      <4> QED  BY <1>6, <4>1, <4>3, <4>4 DEF TellsOf
    <3> QED  BY <3>1, <3>2
  <2> QED  BY ONLY <1>2, <1>9, <2>1 DEF Told
<1>20. Agrees(y, q)
  BY <1>15, <1>16, <1>17, <1>18, <1>19 DEF Agrees
<1>21. \A i \in Ids : o.watched[i] \in {outside.watched[i], NotObserved}
  BY <1>9
<1> QED  BY <1>3, <1>10, <1>14, <1>20, <1>21, Happened DEF y

-----------------------------------------------------------------------------
\* What changes neither what there is nor what is said of it.
LEMMA SentKept ==
  ASSUME Kept, UNCHANGED <<view, notes>>, NEW m \in Messages, m.is \notin News, inbox' = Append(inbox, m),
         NEW attached \in SUBSET Attachments, outside' = [outside EXCEPT !.attached = attached]
  PROVE  Kept' /\ SelectionKept
<1> DEFINE o == [outside EXCEPT !.attached = attached]
           q == Append(inbox, m)
           x == [v |-> view, o |-> outside, n |-> notes, a |-> asked]
           y == [v |-> view, o |-> o, n |-> notes, a |-> asked]
<1>1. x = Now /\ Sound(x) /\ Agrees(x, inbox) /\ inbox \in Seq(Messages)
  BY DEF Kept, Now
<1>2. /\ x.v = view /\ x.o = outside /\ x.n = notes
      /\ y.v = view /\ y.o = o /\ y.n = notes /\ y = [v |-> y.v, o |-> y.o, n |-> y.n, a |-> y.a]
  OBVIOUS
<1> HIDE DEF x
<1>3. view \in Views /\ outside \in Outsides /\ notes \in Seq(Notes)
  BY <1>1, <1>2 DEF Sound, Whole
<1>4. o \in Outsides /\ o.tasks = outside.tasks /\ o.coming = outside.coming /\ o.copying = outside.copying
      /\ o.watched = outside.watched
  BY <1>3 DEF Outsides
<1>5. q \in Seq(Messages)
  BY <1>1
<1>6. outside' = o /\ inbox' = q /\ notes' = notes
  OBVIOUS
<1> HIDE DEF o, y, q
<1>7. Whole(y)
  BY <1>2, <1>3, <1>4 DEF Whole
<1>8. Sound(y)
  <2>1. Watching(x) /\ Copied(x)
    BY <1>1 DEF Sound
  <2>2. Alive(o) = Alive(outside) /\ InCopyMode(view, o) = InCopyMode(view, outside)
    BY <1>4 DEF Alive, InCopyMode
  <2>3. Watching(y)
    BY ONLY <1>2, <1>4, <2>1, <2>2 DEF Watching
  <2>4. Copied(y)
    BY ONLY <1>2, <1>4, <2>1, <2>2 DEF Copied
  <2> QED  BY <1>7, <2>3, <2>4 DEF Sound
<1>9. Agrees(x, q)
  <2>1. Whole(x)
    BY <1>1 DEF Sound
  <2> QED  BY <1>1, <2>1, Adding DEF q
<1>10. Agrees(y, q)
  <2>1. Come(o) = Come(outside) /\ Alive(o) = Alive(outside)
    BY <1>4 DEF Come, Alive
  <2>2. \A id : HasTerminal(o, id) <=> HasTerminal(outside, id)
    BY <1>4 DEF HasTerminal
  <2>3. Coming(y, q) /\ InOrder(y, q)
    BY ONLY <1>2, <1>4, <1>9, <2>1 DEF Agrees, Coming, InOrder
  <2>4. Going(y, q)
    BY ONLY <1>2, <1>9, <2>1 DEF Agrees, Going
  <2>5. There(y, q)
    BY ONLY <1>2, <1>9, <2>2 DEF Agrees, There
  <2>6. Told(y, q)
    BY ONLY <1>2, <1>4, <1>9 DEF Agrees, Told
  <2> QED  BY <2>3, <2>4, <2>5, <2>6 DEF Agrees
<1>11. \A i \in Ids : o.watched[i] \in {outside.watched[i], NotObserved}
  BY <1>4
<1> QED  BY <1>5, <1>6, <1>8, <1>10, <1>11, Happened DEF y

LEMMA NothingKept ==
  ASSUME Kept, UNCHANGED <<view, notes, inbox, outside>>
  PROVE  Kept' /\ SelectionKept
<1> DEFINE y == [v |-> view, o |-> outside, n |-> notes, a |-> asked]
<1>1. inbox \in Seq(Messages) /\ Sound(y) /\ Agrees(y, inbox)
  BY DEF Kept, Now
<1>2. outside' = outside /\ notes' = notes /\ inbox' = inbox /\ UNCHANGED view
  OBVIOUS
<1> QED  BY <1>1, <1>2, Happened

LEMMA CopiesKept ==
  ASSUME Kept, UNCHANGED view, NEW id, NEW on \in BOOLEAN, Copies(id, on)
  PROVE  Kept' /\ SelectionKept
<1> DEFINE x == [v |-> view, o |-> outside, n |-> notes, a |-> asked]
           y == CopyMode(x, id, on)
<1>1. x = Now /\ Sound(x) /\ Agrees(x, inbox) /\ inbox \in Seq(Messages)
  BY DEF Kept, Now
<1>2. outside' = y.o /\ notes' = y.n /\ inbox' = inbox /\ id \in Alive(outside)
  BY DEF Copies
<1>3. x.v = view /\ x.o = outside /\ x.n = notes /\ x.a = asked
  OBVIOUS
<1> HIDE DEF x, y
<1>4. Whole(x)
  BY <1>1 DEF Sound
<1>5. id \in Ids
  <2>1. /\ \A i \in 1..Len(x.o.tasks) : x.o.tasks[i].id \in Ids
        /\ \A i : i \in Alive(x.o) <=> \E j \in 1..Len(x.o.tasks) : x.o.tasks[j].id = i
    BY ONLY <1>4, Typed1
  <2> QED  BY <1>2, <1>3, <2>1
<1>6. Sound(y) /\ Quiet(x, y) /\ y.v = x.v /\ y.a = x.a /\ y.o.watched = x.o.watched
  <2>1. Sound(CopyMode(x, id, on)) /\ Quiet(x, CopyMode(x, id, on)) /\ CopyMode(x, id, on).v = x.v
        /\ CopyMode(x, id, on).a = x.a /\ CopyMode(x, id, on).o.watched = x.o.watched
    BY <1>1, <1>5, Copying
  <2> QED  BY <2>1 DEF y
<1>7. Whole(y)
  BY <1>6 DEF Sound
<1>8. Agrees(y, inbox)
  <2>1. SameRows(x.v, y.v) /\ y.o.tasks = x.o.tasks /\ y.o.coming = x.o.coming /\ NotesOf(x, y)
    BY <1>6 DEF Quiet, SameOutside
  <2> QED  BY ONLY <1>1, <1>4, <1>7, <2>1, Staying
<1>9. y = [v |-> view, o |-> y.o, n |-> y.n, a |-> asked]
  BY <1>3, <1>6, <1>7 DEF Whole
<1> DEFINE o == y.o
           n == y.n
<1>10. Sound([v |-> view, o |-> o, n |-> n, a |-> asked]) /\ Agrees([v |-> view, o |-> o, n |-> n, a |-> asked], inbox)
  BY <1>6, <1>8, <1>9
<1>11. \A i \in Ids : o.watched[i] \in {outside.watched[i], NotObserved}
  BY <1>3, <1>6
<1>12. outside' = o /\ notes' = n /\ inbox' = inbox /\ inbox \in Seq(Messages)
  BY <1>1, <1>2
<1> HIDE DEF o, n
<1> QED  BY <1>10, <1>11, <1>12, Happened

LEMMA OutsideIs ==
  ASSUME Kept
  PROVE  outside \in Outsides /\ outside.attached \in SUBSET Attachments
         /\ outside = [outside EXCEPT !.attached = outside.attached]
<1>1. outside \in Outsides
  BY NowIs DEF Kept, Sound, Whole
<1> QED  BY <1>1 DEF Outsides

LEMMA AttachmentKept ==
  ASSUME Kept, UNCHANGED view, NEW a \in Attachments, AttachmentActs(a)
  PROVE  Kept' /\ SelectionKept
<1>0. TermSizes \subseteq Sizes
  BY ConsoleAssumption DEF Sizes
<1>1. ASSUME NEW size \in TermSizes, outside' = [outside EXCEPT !.attached = @ \cup {a}],
             Sends([is |-> "attach", who |-> a, size |-> size])
      PROVE  Kept' /\ SelectionKept
  <2> DEFINE m == [is |-> "attach", who |-> a, size |-> size]
             attached == outside.attached \cup {a}
  <2>1. m \in Messages /\ m.is \notin News
    BY <1>0 DEF Messages, News
  <2>2. attached \in SUBSET Attachments /\ outside' = [outside EXCEPT !.attached = attached]
    BY <1>1, OutsideIs
  <2>3. inbox' = Append(inbox, m) /\ UNCHANGED <<view, notes>>
    BY <1>1 DEF Sends
  <2> HIDE DEF m, attached
  <2> QED  BY ONLY Kept, <2>1, <2>2, <2>3, SentKept
<1>2. ASSUME outside' = [outside EXCEPT !.attached = @ \ {a}], Sends([is |-> "detach", who |-> a])
      PROVE  Kept' /\ SelectionKept
  <2> DEFINE m == [is |-> "detach", who |-> a]
             attached == outside.attached \ {a}
  <2>1. m \in Messages /\ m.is \notin News
    BY DEF Messages, News
  <2>2. attached \in SUBSET Attachments /\ outside' = [outside EXCEPT !.attached = attached]
    BY <1>2, OutsideIs
  <2>3. inbox' = Append(inbox, m) /\ UNCHANGED <<view, notes>>
    BY <1>2 DEF Sends
  <2> HIDE DEF m, attached
  <2> QED  BY ONLY Kept, <2>1, <2>2, <2>3, SentKept
<1>3. ASSUME NEW m \in Messages, m.is \notin News, UNCHANGED outside, Sends(m)
      PROVE  Kept' /\ SelectionKept
  <2> DEFINE attached == outside.attached
  <2>1. attached \in SUBSET Attachments /\ outside' = [outside EXCEPT !.attached = attached]
    BY <1>3, OutsideIs
  <2>2. inbox' = Append(inbox, m) /\ UNCHANGED <<view, notes>>
    BY <1>3 DEF Sends
  <2> HIDE DEF attached
  <2> QED  BY ONLY Kept, <1>3, <2>1, <2>2, SentKept
<1>4. ASSUME NEW size \in TermSizes, UNCHANGED outside, Sends([is |-> "resize", who |-> a, size |-> size])
      PROVE  Kept' /\ SelectionKept
  <2> DEFINE m == [is |-> "resize", who |-> a, size |-> size]
  <2>1. m \in Messages /\ m.is \notin News /\ Sends(m) /\ UNCHANGED outside
    BY <1>0, <1>4 DEF Messages, News
  <2> HIDE DEF m
  <2> QED  BY <2>1, <1>3
<1>5. ASSUME NEW key \in KeysTyped, UNCHANGED outside, Sends([is |-> "key", who |-> a, key |-> key])
      PROVE  Kept' /\ SelectionKept
  <2> DEFINE m == [is |-> "key", who |-> a, key |-> key]
  <2>1. m \in Messages /\ m.is \notin News /\ Sends(m) /\ UNCHANGED outside
    BY <1>5 DEF Messages, News
  <2> HIDE DEF m
  <2> QED  BY <2>1, <1>3
<1>6. ASSUME NEW click \in Clicks, UNCHANGED outside, Sends([is |-> "mouse", click |-> click])
      PROVE  Kept' /\ SelectionKept
  <2> DEFINE m == [is |-> "mouse", click |-> click]
  <2>1. m \in Messages /\ m.is \notin News /\ Sends(m) /\ UNCHANGED outside
    BY <1>6 DEF Messages, News
  <2> HIDE DEF m
  <2> QED  BY <2>1, <1>3
<1> QED  BY <1>1, <1>2, <1>4, <1>5, <1>6 DEF AttachmentActs

LEMMA KernelKept ==
  ASSUME Kept, KernelDoes
  PROVE  Kept' /\ SelectionKept
<1>0. UNCHANGED view
  BY DEF KernelDoes
<1>1. ASSUME Comes(TRUE) PROVE Kept' /\ SelectionKept
  <2>1. TRUE \in BOOLEAN
    OBVIOUS
  <2> QED  BY <1>0, <1>1, <2>1, ComesKept
<1>2. ASSUME NEW id, Goes(id) PROVE Kept' /\ SelectionKept
  BY <1>0, <1>2, GoesKept
<1>3. ASSUME NEW id, NEW up \in BOOLEAN, Turns(id, up) PROVE Kept' /\ SelectionKept
  BY <1>0, <1>3, TurnsKept
<1>4. ASSUME UNCHANGED <<outside, inbox, notes>> PROVE Kept' /\ SelectionKept
  BY <1>0, <1>4, NothingKept
<1> DEFINE verb == asked[1][1]
           ups == CASE verb \in {"start", "restart", "force-restart", "restart-all"} -> {TRUE}
                    [] verb \in {"stop", "kill", "veto"} -> {FALSE}
                    [] OTHER -> {}
<1>5. ups \subseteq BOOLEAN
  OBVIOUS
<1>6. \/ Comes(TRUE)
      \/ Goes(asked[1][2])
      \/ \E up \in ups : Turns(asked[1][2], up)
      \/ UNCHANGED <<outside, inbox, notes>>
  BY DEF KernelDoes
<1> HIDE DEF ups
<1> QED  BY <1>1, <1>2, <1>3, <1>4, <1>5, <1>6

LEMMA HappensKept ==
  ASSUME Kept, Happens
  PROVE  Kept' /\ SelectionKept
<1>0. UNCHANGED view
  BY DEF Happens
<1>1. ASSUME NEW vt \in BOOLEAN, Comes(vt) PROVE Kept' /\ SelectionKept
  BY <1>0, <1>1, ComesKept
<1>2. ASSUME NEW id, Goes(id) PROVE Kept' /\ SelectionKept
  BY <1>0, <1>2, GoesKept
<1>3. ASSUME NEW id, NEW up \in BOOLEAN, Turns(id, up) PROVE Kept' /\ SelectionKept
  BY <1>0, <1>3, TurnsKept
<1>4. ASSUME NEW id, NEW on \in BOOLEAN, Copies(id, on) PROVE Kept' /\ SelectionKept
  BY <1>0, <1>4, CopiesKept
<1>5. ASSUME NEW a \in Attachments, AttachmentActs(a) PROVE Kept' /\ SelectionKept
  BY <1>0, <1>5, AttachmentKept
<1>6. ASSUME NEW m \in Messages, m.is \notin News, Sends(m), UNCHANGED outside PROVE Kept' /\ SelectionKept
  <2> DEFINE attached == outside.attached
  <2>1. attached \in SUBSET Attachments /\ outside' = [outside EXCEPT !.attached = attached]
    BY <1>6, OutsideIs
  <2>2. inbox' = Append(inbox, m) /\ UNCHANGED <<view, notes>>
    BY <1>0, <1>6 DEF Sends
  <2> HIDE DEF attached
  <2> QED  BY ONLY Kept, <1>6, <2>1, <2>2, SentKept
<1>7. ASSUME Sends([is |-> "stop"]), UNCHANGED outside PROVE Kept' /\ SelectionKept
  <2> DEFINE m == [is |-> "stop"]
  <2>1. m \in Messages /\ m.is \notin News
    BY DEF Messages, News
  <2>2. Sends(m) /\ UNCHANGED outside
    BY <1>7
  <2> HIDE DEF m
  <2> QED  BY <1>6, <2>1, <2>2
<1>8. ASSUME Sends([is |-> "action", action |-> <<"quit">>]), UNCHANGED outside PROVE Kept' /\ SelectionKept
  <2> DEFINE m == [is |-> "action", action |-> <<"quit">>]
  <2>1. m \in Messages /\ m.is \notin News
    BY DEF Messages, News
  <2>2. Sends(m) /\ UNCHANGED outside
    BY <1>8
  <2> HIDE DEF m
  <2> QED  BY <1>6, <2>1, <2>2
<1> QED  BY <1>1, <1>2, <1>3, <1>4, <1>5, <1>7, <1>8 DEF Happens

LEMMA StepKept ==
  ASSUME Kept, [ConsoleNext]_consoleVars
  PROVE  Kept' /\ SelectionKept
<1>1. CASE HandlesTaskCmd
  BY <1>1, TaskCmdKept
<1>2. CASE HandlesNote
  BY <1>2, NoteKept
<1>3. CASE KernelDoes
  BY <1>3, KernelKept
<1>4. CASE Happens
  BY <1>4, HappensKept
<1>5. CASE UNCHANGED consoleVars
  <2>1. UNCHANGED <<view, notes, inbox, outside>>
    BY <1>5 DEF consoleVars
  <2> QED  BY <2>1, NothingKept
<1> QED  BY <1>1, <1>2, <1>3, <1>4, <1>5 DEF ConsoleNext

-----------------------------------------------------------------------------
\* How the console starts: it shows the tasks that are there, observing none.
LEMMA AtFirst ==
  ASSUME ConsoleInit
  PROVE  Kept
<1> DEFINE ids == SubSeq(TaskIds, 1, AtStart)
           rows == [i \in DOMAIN ids |-> [id |-> ids[i], up |-> FALSE, surface |-> FALSE]]
           jobs == [i \in DOMAIN ids |-> [id |-> ids[i], up |-> FALSE, vt |-> TRUE]]
           coming == SubSeq(TaskIds, AtStart + 1, Len(TaskIds))
           start == [tasks |-> rows,
                     list |-> NewList, scope |-> "tasks", hide |-> FALSE,
                     modal |-> [kind |-> "none"], quitting |-> FALSE, stop |-> FALSE,
                     viewers |-> [a \in {} |-> FirstSize], size |-> FirstSize, term |-> <<0, 0>>,
                     from |-> "inbox", left |-> 0,
                     wavered |-> FALSE, missed |-> FALSE, misled |-> {}]
           area == TermArea(start)
           all == Len(TaskIds)
<1>1. /\ view = [start EXCEPT !.term = area] /\ inbox = <<>> /\ notes = <<>>
      /\ outside = [tasks |-> jobs, coming |-> coming, copying |-> {}, attached |-> {},
                    watched |-> [id \in Ids |-> NotObserved]]
  BY DEF ConsoleInit, Ids
<1>2. all \in Nat /\ AtStart \in 0..all /\ TaskIds \in Seq(Ids) /\ \A i \in 1..all : TaskIds[i] \in Ids /\ Rank(TaskIds[i]) = i
  BY Ranks, ConsoleAssumption
<1>3. /\ DOMAIN ids = 1..AtStart /\ \A i \in 1..AtStart : ids[i] = TaskIds[i] /\ ids[i] \in Ids /\ Rank(ids[i]) = i
  BY <1>2
<1>4. coming \in Seq(Ids) /\ Len(coming) = all - AtStart /\ \A k \in 1..Len(coming) : coming[k] = TaskIds[AtStart + k]
  BY <1>2
<1> HIDE DEF ids
<1>5. /\ rows \in Seq(Rows) /\ Len(rows) = AtStart
      /\ \A i \in 1..AtStart : rows[i].id = ids[i] /\ rows[i].up = FALSE /\ rows[i].surface = FALSE
  <2>1. rows = [i \in 1..AtStart |-> [id |-> ids[i], up |-> FALSE, surface |-> FALSE]]
    BY <1>3
  <2>2. \A i \in 1..AtStart : [id |-> ids[i], up |-> FALSE, surface |-> FALSE] \in Rows
    BY <1>3 DEF Rows
  <2> HIDE DEF rows
  <2> QED  BY <1>2, <2>1, <2>2
<1>6. /\ jobs \in Seq(Jobs) /\ Len(jobs) = AtStart
      /\ \A i \in 1..AtStart : jobs[i].id = ids[i] /\ jobs[i].up = FALSE /\ jobs[i].vt = TRUE
  <2>1. jobs = [i \in 1..AtStart |-> [id |-> ids[i], up |-> FALSE, vt |-> TRUE]]
    BY <1>3
  <2>2. \A i \in 1..AtStart : [id |-> ids[i], up |-> FALSE, vt |-> TRUE] \in Jobs
    BY <1>3 DEF Jobs
  <2> HIDE DEF jobs
  <2> QED  BY <1>2, <2>1, <2>2
<1> HIDE DEF rows, jobs, coming
<1>7. start \in Views
  <2>1. FirstSize \in Sizes /\ <<0, 0>> \in Sizes
    BY ConsoleAssumption DEF Sizes
  <2>2. [a \in {} |-> FirstSize] \in Viewers
    BY <2>1 DEF Viewers
  <2> DEFINE viewers == [a \in {} |-> FirstSize]
             modal == [kind |-> "none"]
  <2>3. viewers \in Viewers /\ modal \in Modals /\ NewList \in Lists
    BY <2>2, NoModal, NoList
  <2> HIDE DEF viewers, modal
  <2>4. [tasks |-> rows, list |-> NewList, scope |-> "tasks", hide |-> FALSE,
         modal |-> modal, quitting |-> FALSE, stop |-> FALSE, viewers |-> viewers, size |-> FirstSize,
         term |-> <<0, 0>>, from |-> "inbox", left |-> 0,
         wavered |-> FALSE, missed |-> FALSE, misled |-> {}] \in Views
    BY <1>5, <2>1, <2>3 DEF Views
  <2> QED  BY <2>4 DEF viewers, modal
<1>8. start.tasks = rows /\ ~HasViewers(start) /\ start.left = 0 /\ start.misled = {} /\ ~start.wavered /\ ~start.missed
  BY DEF HasViewers
<1>9. area \in Sizes
  BY <1>7, Areas
<1> HIDE DEF start
<1>10. view \in Views /\ view.tasks = rows /\ view.viewers = start.viewers /\ view.left = 0 /\ view.misled = {}
       /\ ~view.wavered /\ ~view.missed /\ view.term = area /\ view.size = start.size /\ view.scope = start.scope
       /\ view.hide = start.hide
  <2> HIDE DEF area
  <2> QED  BY <1>1, <1>7, <1>8, <1>9 DEF Views
<1>11. ~HasViewers(view) /\ TermArea(view) = view.term
  BY <1>8, <1>10 DEF HasViewers, TermArea, TopHeight
<1>12. outside \in Outsides /\ outside.tasks = jobs /\ outside.coming = coming /\ outside.copying = {}
       /\ \A id \in Ids : outside.watched[id] = NotObserved
  BY <1>1, <1>4, <1>6 DEF Outsides
<1> DEFINE x == [v |-> view, o |-> outside, n |-> notes, a |-> asked]
<1>13. x = Now /\ x.v = view /\ x.o = outside /\ x.n = <<>> /\ x = [v |-> x.v, o |-> x.o, n |-> x.n, a |-> x.a]
  BY <1>1 DEF Now
<1> HIDE DEF x
<1>14. Whole(x)
  BY <1>10, <1>12, <1>13 DEF Whole
<1>15. Sound(x)
  <2>1. Watching(x)
    BY <1>11, <1>12, <1>13 DEF Watching
  <2>2. Copied(x)
    <3>1. SUFFICES ASSUME NEW i \in 1..Len(rows) PROVE Fits(rows[i], <<>>, {}, {})
      <4>1. InCopyMode(view, outside) = {}
        BY <1>11 DEF InCopyMode
      <4> QED  BY ONLY <1>10, <1>13, <3>1, <4>1 DEF Copied
    <3>2. rows[i].surface = FALSE
      BY <1>5
    <3> QED  BY <3>2 DEF Fits
  <2> QED  BY <1>14, <2>1, <2>2 DEF Sound
<1>16. Come(outside) = AtStart
  <2> DEFINE n == Len(coming)
  <2>1. n = all - AtStart /\ Come(outside) = all - n
    BY <1>4, <1>12 DEF Come
  <2> HIDE DEF n, all
  <2>2. all \in Nat /\ AtStart \in 0..all
    BY <1>2 DEF all
  <2> QED  BY ONLY <2>1, <2>2
<1> DEFINE q == <<>>
<1>17. Len(q) = 0 /\ inbox = q /\ q \in Seq(Messages)
  BY <1>1
<1> HIDE DEF q
<1>18. 1..Len(q) = {} /\ Len(x.n) = 0
  BY <1>13, <1>17
<1>19. Coming(x, q)
  <2>1. Len(coming) <= all /\ \A k \in 1..Len(coming) : coming[k] = TaskIds[AtStart + k]
    BY <1>2, <1>4
  <2>2. \A i \in 1..AtStart : Rank(jobs[i].id) <= AtStart /\ Rank(rows[i].id) <= AtStart
    BY <1>2, <1>3, <1>5, <1>6
  <2> QED  BY <1>5, <1>6, <1>10, <1>12, <1>13, <1>16, <1>18, <2>1, <2>2 DEF Coming
<1>20. InOrder(x, q)
  <2>1. Sorted(rows)
    <3>1. DOMAIN rows = 1..AtStart
      BY <1>5
    <3> QED  BY <1>2, <1>3, <1>5, <3>1 DEF Sorted
  <2>2. Sorted(jobs)
    <3>1. DOMAIN jobs = 1..AtStart
      BY <1>6
    <3> QED  BY <1>2, <1>3, <1>6, <3>1 DEF Sorted
  <2> QED  BY <1>10, <1>12, <1>13, <1>18, <2>1, <2>2 DEF InOrder
<1>21. Going(x, q)
  BY <1>18 DEF Going
<1>22. There(x, q)
  <2>1. \A id : id \in Shown(x.v) <=> \E i \in 1..Len(x.v.tasks) : x.v.tasks[i].id = id
    BY ONLY <1>14, Typed1
  <2>2. SUFFICES ASSUME NEW id \in Ids PROVE HasTerminal(outside, id) <=> InTime(view, q, id)
    BY <1>13 DEF There
  <2>3. HasTerminal(outside, id) <=> \E i \in 1..AtStart : ids[i] = id
    BY <1>6, <1>12 DEF HasTerminal
  <2>4. id \in Shown(view) <=> \E i \in 1..AtStart : ids[i] = id
    BY <1>5, <1>10, <1>13, <2>1
  <2> QED  BY <1>18, <2>3, <2>4 DEF InTime
<1>23. Told(x, q)
  <2>1. SUFFICES ASSUME NEW i \in 1..Len(jobs) PROVE TellsOf(jobs[i], rows, q)
    BY ONLY <1>10, <1>12, <1>13, <2>1 DEF Told
  <2>2. jobs[i].up = FALSE /\ \A r \in 1..Len(rows) : rows[r].up = FALSE
    BY <1>5, <1>6
  <2> QED  BY <1>18, <2>2 DEF TellsOf
<1>24. Agrees(x, q)
  BY <1>19, <1>20, <1>21, <1>22, <1>23 DEF Agrees
<1>25. Tidy(view, outside)
  BY <1>10, <1>11, <1>12 DEF Tidy
<1> QED  BY <1>13, <1>15, <1>17, <1>24, <1>25 DEF Kept

-----------------------------------------------------------------------------
\* Tasks of the kernel and rows of the console, when they are the same.
LEMMA SameJobs ==
  ASSUME NEW r \in Seq(Jobs), Sorted(r), NEW s \in Seq(Rows), Sorted(s), IdsIn(r) = IdsIn(s)
  PROVE  Len(r) = Len(s) /\ \A i \in 1..Len(r) : r[i].id = s[i].id
<1>1. (\A t \in Jobs : t.id \in Ids) /\ \A t \in Rows : t.id \in Ids
  BY DEF Jobs, Rows
<1> QED  BY <1>1, SameOrder

\* When all has been heard of, what is shown is what there is.
LEMMA ShownIs ==
  ASSUME Kept, inbox = <<>>
  PROVE  LET there == WithTerminal(outside.tasks)
         IN  /\ Len(view.tasks) = Len(there)
             /\ \A i \in DOMAIN there : there[i].id = view.tasks[i].id /\ there[i].up = view.tasks[i].up
             /\ \A id \in Shown(view) : id \in Ids /\ id \in Alive(outside)
<1> DEFINE s == outside.tasks
           there == WithTerminal(s)
           rows == view.tasks
           x == [v |-> view, o |-> outside, n |-> notes, a |-> asked]
<1>1. /\ x = Now /\ Whole(x)
      /\ InOrder(x, inbox) /\ There(x, inbox) /\ Told(x, inbox)
  BY DEF Kept, Sound, Agrees, Now
<1>2. x.v = view /\ x.o = outside
  OBVIOUS
<1> HIDE DEF x
<1>3. s \in Seq(Jobs) /\ rows \in Seq(Rows) /\ Sorted(s) /\ Sorted(rows)
  BY <1>1, <1>2 DEF Whole, Views, Outsides, InOrder
<1>4. /\ \A i \in 1..Len(rows) : rows[i].id \in Ids
      /\ \A i : i \in Shown(view) <=> \E j \in 1..Len(rows) : rows[j].id = i
      /\ \A i : i \in Alive(outside) <=> \E j \in 1..Len(s) : s[j].id = i
  <2>1. /\ \A i \in 1..Len(x.v.tasks) : x.v.tasks[i].id \in Ids
        /\ \A i : i \in Shown(x.v) <=> \E j \in 1..Len(x.v.tasks) : x.v.tasks[j].id = i
        /\ \A i : i \in Alive(x.o) <=> \E j \in 1..Len(x.o.tasks) : x.o.tasks[j].id = i
    <3>1. Whole(x)
      BY <1>1
    <3> QED  BY ONLY <3>1, Typed1
  <2> QED  BY ONLY <1>2, <2>1
<1>5. \A id \in Ids : (\E j \in 1..Len(s) : s[j].id = id /\ s[j].vt) <=> id \in Shown(view)
  <2>1. 1..Len(inbox) = {}
    OBVIOUS
  <2> QED  BY <1>1, <1>2, <2>1 DEF There, HasTerminal, InTime
<1> HIDE DEF s, rows, there
<1>6. (\A t \in Jobs : t.id \in Ids /\ t.up \in BOOLEAN) /\ (\A t \in Rows : t.id \in Ids /\ t.up \in BOOLEAN)
  BY DEF Jobs, Rows
<1>7. /\ there \in Seq(Jobs) /\ Sorted(there)
      /\ \A i \in 1..Len(there) : there[i].vt /\ \E m \in 1..Len(s) : there[i] = s[m]
      /\ \A m \in 1..Len(s) : s[m].vt => \E i \in 1..Len(there) : there[i] = s[m]
  <2>1. \A t \in Jobs : t.id \in Ids
    BY <1>6
  <2> QED  BY ONLY <1>3, <2>1, TerminalsIn DEF there
<1>8. Len(there) = Len(rows) /\ \A i \in 1..Len(there) : there[i].id = rows[i].id
  <2>1. \A i : i \in IdsIn(there) <=> \E j \in 1..Len(there) : there[j].id = i
    BY <1>7 DEF IdsIn
  <2>2. \A i : i \in IdsIn(rows) <=> \E j \in 1..Len(rows) : rows[j].id = i
    BY <1>3 DEF IdsIn
  <2>3. ASSUME NEW i, i \in IdsIn(there) PROVE i \in IdsIn(rows)
    <3>1. PICK j \in 1..Len(there) : there[j].id = i
      BY ONLY <2>1, <2>3
    <3>2. PICK m \in 1..Len(s) : there[j] = s[m] /\ s[m].vt
      BY ONLY <1>7, j \in 1..Len(there)
    <3>3. s[m].id \in Ids
      BY <1>3, <1>6
    <3> QED  BY <1>4, <1>5, <2>2, <3>1, <3>2, <3>3
  <2>4. ASSUME NEW i, i \in IdsIn(rows) PROVE i \in IdsIn(there)
    <3>1. i \in Shown(view) /\ i \in Ids
      BY <1>4, <2>2, <2>4
    <3>2. PICK m \in 1..Len(s) : s[m].id = i /\ s[m].vt
      BY ONLY <1>5, <3>1
    <3>3. PICK j \in 1..Len(there) : there[j] = s[m]
      BY ONLY <1>7, <3>2, m \in 1..Len(s)
    <3> QED  BY ONLY <2>1, <3>2, <3>3, j \in 1..Len(there)
  <2>5. IdsIn(there) = IdsIn(rows)
    BY <2>3, <2>4
  <2>6. there \in Seq(Jobs) /\ Sorted(there) /\ rows \in Seq(Rows) /\ Sorted(rows)
    BY ONLY <1>3, <1>7
  <2> QED  BY ONLY <2>5, <2>6, SameJobs
<1>9. ASSUME NEW i \in 1..Len(there) PROVE there[i].up = rows[i].up
  <2>1. PICK m \in 1..Len(s) : there[i] = s[m]
    BY <1>7
  <2>2. TellsOf(s[m], rows, inbox)
    BY <1>1, <1>2 DEF Told, s, rows
  <2>3. 1..Len(inbox) = {}
    OBVIOUS
  <2>4. i \in 1..Len(rows) /\ rows[i].id = s[m].id
    BY <1>8, <2>1
  <2>5. rows[i].up <=> s[m].up
    BY <2>2, <2>3, <2>4 DEF TellsOf
  <2>6. rows[i].up \in BOOLEAN /\ s[m].up \in BOOLEAN
    <3>1. rows[i] \in Rows /\ s[m] \in Jobs
      BY <1>3, <2>4
    <3> QED  BY <1>6, <3>1
  <2> QED  BY <2>1, <2>5, <2>6
<1>10. ASSUME NEW id \in Shown(view) PROVE id \in Ids /\ id \in Alive(outside)
  <2>1. id \in Ids
    BY <1>4
  <2> QED  BY <1>4, <1>5, <2>1
<1>11. DOMAIN there = 1..Len(there)
  BY <1>7
<1> QED  BY <1>8, <1>9, <1>10, <1>11 DEF there, s, rows

LEMMA KeptShows ==
  ASSUME Kept
  PROVE  ShowsWhatIs
<1> SUFFICES ASSUME inbox = <<>>, notes = <<>>, view.left = 0, ~view.stop
    PROVE
      /\ LET there == WithTerminal(outside.tasks)
         IN  /\ Len(view.tasks) = Len(there)
             /\ \A i \in DOMAIN there : there[i].id = view.tasks[i].id /\ there[i].up = view.tasks[i].up
      /\ \A id \in Shown(view) :
           /\ (outside.watched[id] # NotObserved) = HasViewers(view)
           /\ HasViewers(view) /\ ~view.missed => outside.watched[id] = TermArea(view)
      /\ \A i \in DOMAIN view.tasks :
           view.tasks[i].id \notin view.misled =>
             view.tasks[i].surface = (HasViewers(view) /\ view.tasks[i].id \in outside.copying)
      /\ HasViewers(view) /\ view.tasks # <<>> /\ view.list.height > 0 =>
           view.list.selected - view.list.top \in 0..view.list.height - 1
      /\ HintsWork
  BY DEF ShowsWhatIs
<1> DEFINE x == [v |-> view, o |-> outside, n |-> notes, a |-> asked]
<1>1. x = Now /\ Whole(x) /\ Watching(x) /\ Copied(x) /\ Tidy(view, outside)
  BY DEF Kept, Sound, Now
<1>2. x.v = view /\ x.o = outside /\ x.n = notes
  OBVIOUS
<1> HIDE DEF x
<1>3. ASSUME NEW id \in Shown(view)
      PROVE  /\ (outside.watched[id] # NotObserved) = HasViewers(view)
             /\ HasViewers(view) /\ ~view.missed => outside.watched[id] = TermArea(view)
  <2>1. id \in Ids /\ id \in Alive(outside)
    BY ShownIs
  <2>2. outside.watched[id] # NotObserved <=> HasViewers(view)
    BY <1>1, <1>2, <1>3, <2>1 DEF Watching
  <2>3. ~view.wavered
    BY <1>1 DEF Tidy
  <2>4. ~view.missed => view.term = TermArea(view) /\ outside.watched[id] \in {NotObserved, view.term}
    BY <1>1, <2>1, <2>3 DEF Tidy
  <2>5. (outside.watched[id] # NotObserved) = HasViewers(view)
    BY <2>2 DEF HasViewers
  <2> QED  BY <2>2, <2>4, <2>5
<1>4. ASSUME NEW i \in DOMAIN view.tasks, view.tasks[i].id \notin view.misled
      PROVE  view.tasks[i].surface = (HasViewers(view) /\ view.tasks[i].id \in outside.copying)
  <2>1. view.tasks \in Seq(Rows)
    BY <1>1, <1>2 DEF Whole, Views
  <2>2. i \in 1..Len(view.tasks) /\ view.tasks[i] \in Rows /\ view.tasks[i].id \in Shown(view)
    BY <2>1, <1>4 DEF Shown
  <2>3. view.tasks[i].id \in Alive(outside)
    BY <2>2, ShownIs
  <2>4. Fits(view.tasks[i], notes, view.misled, InCopyMode(view, outside))
    BY <1>1, <1>2, <2>2, <2>3 DEF Copied
  <2>5. 1..Len(notes) = {}
    OBVIOUS
  <2>6. view.tasks[i].surface <=> view.tasks[i].id \in InCopyMode(view, outside)
    BY <1>4, <2>4, <2>5 DEF Fits
  <2>7. view.tasks[i].id \in InCopyMode(view, outside) <=> HasViewers(view) /\ view.tasks[i].id \in outside.copying
    BY DEF InCopyMode
  <2>8. view.tasks[i].surface \in BOOLEAN
    BY <2>2 DEF Rows
  <2> QED  BY <2>6, <2>7, <2>8 DEF HasViewers
<1>5. HasViewers(view) /\ view.tasks # <<>> /\ view.list.height > 0 =>
        view.list.selected - view.list.top \in 0..view.list.height - 1
  BY <1>1 DEF Tidy
<1> QED  BY <1>3, <1>4, <1>5, ShownIs, HintsDoWork

\* However the console, the kernel and the attachments take turns, news of tasks
\* leaves the selection on the task it is on (console/app.rs handle_task_notify).
THEOREM TheSelectionSticks ==
  ConsoleInit /\ [][ConsoleNext]_consoleVars => SelectionSticks
<1>1. Kept /\ [ConsoleNext]_consoleVars => Kept' /\ [SelectionKept]_consoleVars
  BY StepKept
<1>2. ConsoleInit => Kept
  BY AtFirst
<1> QED  BY <1>1, <1>2, PTL DEF SelectionSticks

\* Whenever it has handled what it received, the console shows what there is.
THEOREM WhatIsIsShown ==
  ConsoleInit /\ [][ConsoleNext]_consoleVars => []ShowsWhatIs
<1>1. Kept /\ [ConsoleNext]_consoleVars => Kept'
  BY StepKept
<1>2. ConsoleInit => Kept
  BY AtFirst
<1>3. Kept => ShowsWhatIs
  BY KeptShows
<1> QED  BY <1>1, <1>2, <1>3, PTL
=============================================================================
