------------------------------ MODULE Folding ------------------------------
(* What holds along a fold from the left over a sequence: where a step keeps  *)
(* something, the fold does.  The step and what it keeps are the constants of  *)
(* this module, so that each fold of the emulator is an instance of it.       *)
EXTENDS Integers, Sequences, SequencesExt, WellFoundedInduction, TLAPS

CONSTANTS
  Step(_, _, _),   \* of a fold with parameters: the value so far, an element
  Keeps(_, _, _)   \* with the same parameters, of the value after k elements

Folded(p, base, seq) == FoldLeft(LAMBDA x, e : Step(p, x, e), base, seq)

-----------------------------------------------------------------------------
LEMMA Least ==
  ASSUME NEW S \in SUBSET Nat, S # {}
  PROVE  \E n \in S : \A m \in S : n <= m
<1>1. PICK n \in S : \A m \in S : <<m, n>> \notin OpToRel(<, Nat)
  BY NatLessThanWellFounded, WFMin
<1>2. ASSUME NEW m \in S, m < n PROVE FALSE
  BY <1>1, <1>2 DEF OpToRel
<1> QED  BY <1>2

LEMMA Greatest ==
  ASSUME NEW n \in Nat, NEW s \in SUBSET (1..n), s # {}
  PROVE  Max(s) \in s /\ \A y \in s : Max(s) >= y
<1> DEFINE U == {m \in Nat : \A y \in s : m >= y}
<1>1. n \in U
  OBVIOUS
<1>2. PICK m \in U : \A k \in U : m <= k
  BY <1>1, Least
<1>3. m \in s
  <2>1. PICK y \in s : TRUE
    OBVIOUS
  <2>2. m >= 1 /\ m - 1 \in Nat
    BY <2>1
  <2>3. m - 1 \notin U
    BY <1>2, <2>2
  <2>4. PICK z \in s : ~(m - 1 >= z)
    BY <2>2, <2>3
  <2>5. m = z
    BY <1>2, <2>2, <2>4
  <2> QED  BY <2>5
<1> QED  BY <1>2, <1>3 DEF Max

-----------------------------------------------------------------------------
(* The fold looks its parts up in a function with this recursion; there is    *)
(* such a function, by a least length for which there were none.              *)
Rec(p, base, seq, n, f) ==
  f = [s \in SUBSET (1..n) |-> IF s = {} THEN base ELSE Step(p, f[s \ {Max(s)}], seq[Max(s)])]

LEMMA RecExists ==
  ASSUME NEW p, NEW base, NEW seq, NEW n \in Nat
  PROVE  \E f : Rec(p, base, seq, n, f)
<1> DEFINE S == {m \in Nat : ~\E f : Rec(p, base, seq, m, f)}
<1>1. SUFFICES ASSUME S # {} PROVE FALSE
  OBVIOUS
<1>2. PICK m \in S : \A k \in S : m <= k
  BY <1>1, Least
<1>3. CASE m = 0
  <2> DEFINE f == [s \in SUBSET (1..0) |-> base]
  <2>1. SUBSET (1..0) = {{}}
    OBVIOUS
  <2>2. Rec(p, base, seq, 0, f)
    BY <2>1 DEF Rec
  <2> QED  BY <1>2, <1>3, <2>2
<1>4. CASE m # 0
  <2>1. m - 1 \in Nat /\ m - 1 \notin S
    BY <1>2, <1>4
  <2>2. PICK g : Rec(p, base, seq, m - 1, g)
    BY <2>1
  <2> DEFINE f == [s \in SUBSET (1..m) |->
                     IF s = {} THEN base ELSE Step(p, g[s \ {Max(s)}], seq[Max(s)])]
  <2>3. \A t \in SUBSET (1..(m - 1)) :
           g[t] = IF t = {} THEN base ELSE Step(p, g[t \ {Max(t)}], seq[Max(t)])
    BY <2>2, Zenon DEF Rec
  <2>4. \A t \in SUBSET (1..(m - 1)) : t \in SUBSET (1..m)
    BY <2>1
  <2>5. \A t \in SUBSET (1..(m - 1)) : f[t] = g[t]
    BY <2>3, <2>4, Zenon
  <2>6. ASSUME NEW s \in SUBSET (1..m), s # {} PROVE f[s \ {Max(s)}] = g[s \ {Max(s)}]
    <3>1. Max(s) \in s /\ \A y \in s : Max(s) >= y
      BY <2>6, Greatest
    <3>2. s \ {Max(s)} \in SUBSET (1..(m - 1))
      <4> SUFFICES ASSUME NEW y \in s, y # Max(s) PROVE y \in 1..(m - 1)
        BY Zenon
      <4>1. m \in Nat /\ y \in 1..m /\ Max(s) \in 1..m /\ Max(s) >= y /\ y # Max(s)
        BY <3>1
      <4> QED  BY ONLY <4>1
    <3> QED  BY <3>2, <2>5
  <2>7. f = [s \in SUBSET (1..m) |-> IF s = {} THEN base ELSE Step(p, f[s \ {Max(s)}], seq[Max(s)])]
    <3>1. \A s \in SUBSET (1..m) : f[s] = IF s = {} THEN base ELSE Step(p, f[s \ {Max(s)}], seq[Max(s)])
      BY <2>6, Zenon
    <3> QED  BY <3>1, Zenon
  <2>8. Rec(p, base, seq, m, f)
    BY <2>7, Zenon DEF Rec
  <2> QED  BY <2>8, <1>2
<1> QED  BY <1>3, <1>4

LEMMA FoldedIs ==
  ASSUME NEW p, NEW base, NEW seq, NEW n \in Nat, DOMAIN seq = 1..n
  PROVE  \E f : Rec(p, base, seq, n, f) /\ Folded(p, base, seq) = f[1..n]
<1> DEFINE f == CHOOSE f : Rec(p, base, seq, n, f)
<1>1. Folded(p, base, seq) = f[1..n]
  BY DEF Folded, FoldLeft, MapThenFoldSet, Rec
<1>2. Rec(p, base, seq, n, f)
  BY RecExists
<1> QED  BY <1>1, <1>2

LEMMA Unfolded ==
  ASSUME NEW p, NEW base, NEW seq, NEW n \in Nat, NEW f, Rec(p, base, seq, n, f)
  PROVE  /\ f[1..0] = base
         /\ \A k \in 1..n : f[1..k] = Step(p, f[1..(k - 1)], seq[k])
<1>1. \A s \in SUBSET (1..n) : f[s] = IF s = {} THEN base ELSE Step(p, f[s \ {Max(s)}], seq[Max(s)])
  BY Zenon DEF Rec
<1>2. f[1..0] = base
  <2>1. 1..0 = {} /\ {} \in SUBSET (1..n)
    OBVIOUS
  <2> QED  BY <1>1, <2>1
<1>3. ASSUME NEW k \in 1..n PROVE f[1..k] = Step(p, f[1..(k - 1)], seq[k])
  <2>1. 1..k \in SUBSET (1..n) /\ 1..k # {} /\ (1..k) \ {k} = 1..(k - 1)
    OBVIOUS
  <2>2. Max(1..k) = k
    <3>1. Max(1..k) \in 1..k /\ \A y \in 1..k : Max(1..k) >= y
      BY <2>1, Greatest
    <3> QED  BY <3>1
  <2> QED  BY <1>1, <2>1, <2>2
<1> QED  BY <1>2, <1>3

LEMMA FoldWithin ==
  ASSUME NEW p, NEW base, NEW seq, NEW n \in Nat, DOMAIN seq = 1..n
  PROVE  \E f : /\ Folded(p, base, seq) = f[1..n] /\ f[1..0] = base
                /\ \A k \in 1..n : f[1..k] = Step(p, f[1..(k - 1)], seq[k])
<1>1. PICK f : Rec(p, base, seq, n, f) /\ Folded(p, base, seq) = f[1..n]
  BY FoldedIs
<1>2. /\ f[1..0] = base
      /\ \A k \in 1..n : f[1..k] = Step(p, f[1..(k - 1)], seq[k])
  <2>1. Rec(p, base, seq, n, f) /\ n \in Nat
    BY <1>1
  <2> QED  BY ONLY <2>1, Unfolded
<1> QED  BY <1>1, <1>2

Traced(p, base, seq, n, f) == f[1..0] = base /\ \A k \in 1..n : f[1..k] = Step(p, f[1..(k - 1)], seq[k])
LEMMA FoldTraced ==
  ASSUME NEW p, NEW base, NEW seq, NEW n \in Nat, DOMAIN seq = 1..n
  PROVE  \E f : Folded(p, base, seq) = f[1..n] /\ Traced(p, base, seq, n, f)
<1>1. PICK f : Rec(p, base, seq, n, f) /\ Folded(p, base, seq) = f[1..n]
  BY FoldedIs
<1>2. Traced(p, base, seq, n, f)
  <2>1. Rec(p, base, seq, n, f) /\ n \in Nat
    BY <1>1
  <2>2. f[1..0] = base /\ \A k \in 1..n : f[1..k] = Step(p, f[1..(k - 1)], seq[k])
    BY ONLY <2>1, Unfolded
  <2> QED  BY <2>2 DEF Traced
<1> QED  BY <1>1, <1>2

(* What is so of the beginning and kept by every step is so of the end.       *)
THEOREM FoldKeeps ==
  ASSUME NEW p, NEW base, NEW seq, NEW n \in Nat, DOMAIN seq = 1..n,
         Keeps(p, 0, base),
         \A k \in 1..n : \A x : Keeps(p, k - 1, x) => Keeps(p, k, Step(p, x, seq[k]))
  PROVE  Keeps(p, n, Folded(p, base, seq))
<1>1. PICK f : Rec(p, base, seq, n, f) /\ Folded(p, base, seq) = f[1..n]
  BY FoldedIs
<1>2. /\ f[1..0] = base
      /\ \A k \in 1..n : f[1..k] = Step(p, f[1..(k - 1)], seq[k])
  <2>1. Rec(p, base, seq, n, f) /\ n \in Nat
    BY <1>1
  <2> QED  BY ONLY <2>1, Unfolded
<1> DEFINE S == {k \in 0..n : ~Keeps(p, k, f[1..k])}
<1>3. SUFFICES ASSUME S # {} PROVE FALSE
  BY <1>1
<1>4. PICK k \in S : \A j \in S : k <= j
  <2> S \in SUBSET Nat
    OBVIOUS
  <2> QED  BY <1>3, Least
<1>5. k # 0
  BY <1>2, <1>4
<1>6. k \in 1..n /\ k - 1 \in 0..n /\ k - 1 \notin S
  BY <1>4, <1>5
<1>7. Keeps(p, k - 1, f[1..(k - 1)])
  BY <1>6
<1>8. Keeps(p, k, f[1..k])
  BY <1>2, <1>6, <1>7
<1> QED  BY <1>8, <1>4

THEOREM FoldOfNone ==
  ASSUME NEW p, NEW base, NEW seq, DOMAIN seq = {}
  PROVE  Folded(p, base, seq) = base
<1>1. PICK n \in Nat : n = 0
  OBVIOUS
<1>2. DOMAIN seq = 1..n
  BY <1>1
<1>3. PICK f : Folded(p, base, seq) = f[1..n] /\ f[1..0] = base
  BY <1>2, FoldWithin
<1> QED  BY <1>1, <1>3

THEOREM FoldOfOne ==
  ASSUME NEW p, NEW base, NEW seq, DOMAIN seq = {1}
  PROVE  Folded(p, base, seq) = Step(p, base, seq[1])
<1>1. PICK n \in Nat : n = 1
  OBVIOUS
<1>2. DOMAIN seq = 1..n
  BY <1>1
<1>3. PICK f : /\ Folded(p, base, seq) = f[1..n] /\ f[1..0] = base
               /\ \A k \in 1..n : f[1..k] = Step(p, f[1..(k - 1)], seq[k])
  BY <1>2, FoldWithin
<1>4. f[1..1] = Step(p, f[1..(1 - 1)], seq[1])
  BY <1>1, <1>3
<1> QED  BY <1>1, <1>3, <1>4
=============================================================================
