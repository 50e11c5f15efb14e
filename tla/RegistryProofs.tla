--------------------------- MODULE RegistryProofs ---------------------------
(* For any spaces, paths, globs, tags, and any number of tasks, watches and   *)
(* messages: who watches a selection knows whether any of it is active; names *)
(* name what is registered; and subscribers know the tasks they subscribed to.*)
EXTENDS Registry, SequenceTheorems, FiniteSetTheorems, WellFoundedInduction, TLAPS

(* Paths, as sequences of whatever occurs in one.                            *)
Components == UNION {ToSet(p) : p \in Paths \cup {Console}}
Places == Paths \cup {Console, <<>>}

LEMMA PlacesAreSequences == Places \subseteq Seq(Components)
<1>1. ASSUME NEW p \in Paths \cup {Console} PROVE p \in Seq(Components)
  <2>1. p \in Seq(ToSet(p)) /\ ToSet(p) \subseteq Components
    BY RegistryAssumption DEF Components
  <2> QED  BY <2>1, SeqMonotonic
<1> QED  BY <1>1, EmptySeq DEF Places

LEMMA PrefixMeans ==
  ASSUME NEW S, NEW a \in Seq(S), NEW b \in Seq(S)
  PROVE  IsPrefix(a, b) <=> Len(a) <= Len(b) /\ \A i \in 1..Len(a) : a[i] = b[i]
<1>1. /\ Len(a) \in Nat /\ Len(b) \in Nat
      /\ \A i \in 1..Len(a) : a[i] \in S
      /\ \A i \in 1..Len(b) : b[i] \in S
  BY LenProperties
<1>2. SubSeq(a, 1, Len(a)) = a
  BY SubSeqFull
<1>3. ASSUME Len(a) <= Len(b)
      PROVE  /\ SubSeq(b, 1, Len(a)) \in Seq(S) /\ Len(SubSeq(b, 1, Len(a))) = Len(a)
             /\ \A i \in 1..Len(a) : SubSeq(b, 1, Len(a))[i] = b[i]
  BY <1>1, <1>3, SubSeqProperties
<1>4. ASSUME Len(a) <= Len(b), \A i \in 1..Len(a) : a[i] = b[i]
      PROVE  a = SubSeq(b, 1, Len(a))
  BY <1>3, <1>4, SeqEqual
<1>5. ASSUME Len(a) <= Len(b), a = SubSeq(b, 1, Len(a)), NEW i \in 1..Len(a)
      PROVE  a[i] = b[i]
  BY <1>3, <1>5
<1> QED  BY <1>2, <1>4, <1>5 DEF IsPrefix

LEMMA PrefixOrder ==
  ASSUME NEW S
  PROVE  /\ \A a \in Seq(S) : IsPrefix(a, a) /\ IsPrefix(<<>>, a)
         /\ \A a, b, c \in Seq(S) : IsPrefix(a, b) /\ IsPrefix(b, c) => IsPrefix(a, c)
         /\ \A a, b \in Seq(S) : IsPrefix(a, b) /\ IsPrefix(b, a) => a = b
         /\ \A a \in Seq(S) : IsPrefix(a, <<>>) => a = <<>>
         /\ \A a, b, c \in Seq(S) : IsPrefix(a, c) /\ IsPrefix(b, c) /\ Len(a) <= Len(b) => IsPrefix(a, b)
<1>1. \A a \in Seq(S) : Len(a) \in Nat /\ (Len(a) = 0 => a = <<>>)
  BY LenProperties, EmptySeq
<1>2. <<>> \in Seq(S) /\ Len(<<>>) = 0
  BY EmptySeq
<1>3. ASSUME NEW a \in Seq(S) PROVE IsPrefix(a, a) /\ IsPrefix(<<>>, a) /\ (IsPrefix(a, <<>>) => a = <<>>)
  <2>1. IsPrefix(a, a)
    BY <1>1, PrefixMeans
  <2>2. IsPrefix(<<>>, a)
    <3>1. 0 <= Len(a) /\ \A i \in 1..0 : <<>>[i] = a[i]
      BY <1>1
    <3> QED  BY <1>2, <3>1, PrefixMeans, Zenon
  <2>3. IsPrefix(a, <<>>) => Len(a) <= Len(<<>>)
    BY DEF IsPrefix
  <2> QED  BY <1>1, <1>2, <2>1, <2>2, <2>3
<1>4. ASSUME NEW a \in Seq(S), NEW b \in Seq(S), NEW c \in Seq(S), IsPrefix(a, b), IsPrefix(b, c)
      PROVE  IsPrefix(a, c)
  BY <1>1, <1>4, PrefixMeans
<1>5. ASSUME NEW a \in Seq(S), NEW b \in Seq(S), IsPrefix(a, b), IsPrefix(b, a)
      PROVE  a = b
  <2>1. Len(a) = Len(b) /\ \A i \in 1..Len(a) : a[i] = b[i]
    BY <1>1, <1>5, PrefixMeans
  <2> QED  BY <2>1, SeqEqual
<1>6. ASSUME NEW a \in Seq(S), NEW b \in Seq(S), NEW c \in Seq(S),
             IsPrefix(a, c), IsPrefix(b, c), Len(a) <= Len(b)
      PROVE  IsPrefix(a, b)
  BY <1>1, <1>6, PrefixMeans
<1> QED  BY <1>3, <1>4, <1>5, <1>6

LEMMA AboveIsPrefixes ==
  ASSUME NEW S, NEW path \in Seq(S)
  PROVE  Above(path) = {n \in Seq(S) : IsPrefix(n, path)}
<1>1. Len(path) \in Nat /\ \A i \in 1..Len(path) : path[i] \in S
  BY LenProperties
<1>2. ASSUME NEW k \in 0..Len(path)
      PROVE  SubSeq(path, 1, k) \in Seq(S) /\ IsPrefix(SubSeq(path, 1, k), path)
  <2>1. /\ SubSeq(path, 1, k) \in Seq(S) /\ Len(SubSeq(path, 1, k)) = k
        /\ \A i \in 1..k : SubSeq(path, 1, k)[i] = path[i]
    BY <1>1, SubSeqProperties
  <2>2. Len(SubSeq(path, 1, k)) <= Len(path)
    BY <1>1, <2>1
  <2>3. \A i \in 1..Len(SubSeq(path, 1, k)) : SubSeq(path, 1, k)[i] = path[i]
    BY <2>1
  <2> QED  BY <2>1, <2>2, <2>3, PrefixMeans
<1>3. ASSUME NEW n \in Seq(S), IsPrefix(n, path) PROVE n \in Above(path)
  <2>1. Len(n) \in 0..Len(path)
    BY <1>1, <1>3, PrefixMeans, LenProperties
  <2>2. n = SubSeq(path, 1, Len(n))
    BY <1>3, SubSeqFull DEF IsPrefix
  <2> QED  BY <2>1, <2>2 DEF Above
<1> QED  BY <1>2, <1>3 DEF Above

-----------------------------------------------------------------------------
(* Watches.  Each that is open was told what it saw last; once a message is  *)
(* settled that is how it is.                                                *)
Sight == [sel : Selectors, active : BOOLEAN, told : BOOLEAN, open : BOOLEAN]
Sees(w) == w.open => w.told = w.active
ActiveNow == {sel \in Selectors : AnyActive(sel, entries)}
UpToDate(w, now) == w.open => (w.active <=> w.sel \in now)
Watching ==
  /\ changed \in BOOLEAN /\ watches \in [DOMAIN watches -> Sight]
  /\ \A k \in DOMAIN watches : Sees(watches[k]) /\ (changed \/ UpToDate(watches[k], ActiveNow))

LEMMA SameSelection ==
  ASSUME UNCHANGED <<names, tagged, entries>>
  PROVE  ActiveNow' = ActiveNow
<1>1. Live' = Live
  BY DEF Live
<1> SUFFICES ASSUME NEW sel \in Selectors
             PROVE  AnyActive(sel, entries)' <=> AnyActive(sel, entries)
  BY DEF ActiveNow
<1>2. Matching(sel)' = Matching(sel)
  BY <1>1 DEF Matching, InSpaces
<1> QED  BY <1>2 DEF AnyActive

LEMMA SameWatches ==
  ASSUME Watching, UNCHANGED watches, changed' = TRUE \/ UNCHANGED <<names, tagged, entries, changed>>
  PROVE  Watching'
<1>1. CASE changed' = TRUE
  BY <1>1 DEF Watching
<1>2. CASE UNCHANGED <<names, tagged, entries, changed>>
  BY <1>2, SameSelection DEF Watching
<1> QED  BY <1>1, <1>2

LEMMA WatchKept ==
  ASSUME Watching, NEW sel \in Selectors, Watch(sel)
  PROVE  Watching'
<1> DEFINE active == AnyActive(sel, entries)
           new == [sel |-> sel, active |-> active, told |-> active, open |-> TRUE]
<1>1. active \in BOOLEAN /\ (active <=> sel \in ActiveNow)
  BY DEF AnyActive, ActiveNow
<1>2. UNCHANGED <<names, tagged, entries, changed>> /\ ActiveNow' = ActiveNow
  BY SameSelection DEF Watch
<1> HIDE DEF active
<1>3. PICK k \in 1..MaxWatches \ DOMAIN watches :
        watches' = [j \in DOMAIN watches \cup {k} |-> IF j = k THEN new ELSE watches[j]]
  BY DEF Watch, active
<1>4. new \in Sight /\ Sees(new) /\ UpToDate(new, ActiveNow)
  BY <1>1 DEF Sight, Sees, UpToDate
<1>5. /\ DOMAIN watches' = DOMAIN watches \cup {k}
      /\ watches'[k] = new
      /\ \A j \in DOMAIN watches : j # k /\ watches'[j] = watches[j]
  BY <1>3
<1> HIDE DEF new
<1>6. watches' \in [DOMAIN watches' -> Sight]
  BY <1>3, <1>4 DEF Watching
<1> QED  BY <1>2, <1>4, <1>5, <1>6 DEF Watching

LEMMA WatchEnds ==
  ASSUME Watching, NEW k \in DOMAIN watches, StopsWatching(k)
  PROVE  Watching'
<1>1. UNCHANGED <<names, tagged, entries, changed>> /\ ActiveNow' = ActiveNow
  BY SameSelection DEF StopsWatching
<1> DEFINE new == [watches[k] EXCEPT !.open = FALSE]
<1>2. watches' = [watches EXCEPT ![k] = new]
  BY DEF StopsWatching
<1>3. new \in Sight /\ ~new.open
  BY DEF Watching, Sight
<1> HIDE DEF new
<1>4. /\ watches' \in [DOMAIN watches -> Sight] /\ DOMAIN watches' = DOMAIN watches
      /\ watches'[k] = new /\ \A j \in DOMAIN watches : j # k => watches'[j] = watches[j]
  BY <1>2, <1>3 DEF Watching
<1>5. Sees(new) /\ UpToDate(new, ActiveNow)
  BY <1>3 DEF Sees, UpToDate
<1> QED  BY <1>1, <1>4, <1>5 DEF Watching

LEMMA WatchesChecked ==
  ASSUME Watching, ChecksWatches
  PROVE  Watching'
<1>1. UNCHANGED <<names, tagged, entries>> /\ changed' = FALSE /\ ActiveNow' = ActiveNow
  BY SameSelection DEF ChecksWatches
<1>2. /\ DOMAIN watches' \subseteq DOMAIN watches
      /\ \A k \in DOMAIN watches' : watches'[k] = Checked(watches[k], entries)
      /\ watches' = [k \in DOMAIN watches' |-> watches'[k]]
  BY DEF ChecksWatches
<1>3. ASSUME NEW w \in Sight, Sees(w)
      PROVE  Checked(w, entries) \in Sight /\ Sees(Checked(w, entries))
             /\ UpToDate(Checked(w, entries), ActiveNow)
  <2> DEFINE now == AnyActive(w.sel, entries)
  <2>1. now \in BOOLEAN /\ w.sel \in Selectors /\ (now <=> w.sel \in ActiveNow)
    BY DEF AnyActive, ActiveNow, Sight
  <2>2. Checked(w, entries) = IF now = w.active THEN w
          ELSE [w EXCEPT !.active = now, !.told = IF w.open THEN now ELSE @]
    BY DEF Checked
  <2> HIDE DEF now
  <2>3. CASE now = w.active
    BY <1>3, <2>1, <2>2, <2>3 DEF UpToDate
  <2>4. CASE now # w.active
    <3> DEFINE told == IF w.open THEN now ELSE w.told
               new == [w EXCEPT !.active = now, !.told = told]
    <3>1. told \in BOOLEAN /\ (w.open => told = now)
      BY <2>1 DEF Sight
    <3>2. Checked(w, entries) = new
      BY <2>2, <2>4
    <3> HIDE DEF told
    <3>3. new \in Sight /\ new.active = now /\ new.told = told /\ new.open = w.open /\ new.sel = w.sel
      BY <2>1, <3>1 DEF Sight
    <3> HIDE DEF new
    <3> QED  BY <2>1, <3>1, <3>2, <3>3 DEF Sees, UpToDate
  <2> QED  BY <2>3, <2>4
<1>4. ASSUME NEW k \in DOMAIN watches'
      PROVE  watches'[k] \in Sight /\ Sees(watches'[k]) /\ UpToDate(watches'[k], ActiveNow)
  BY <1>2, <1>3 DEF Watching
<1>5. watches' \in [DOMAIN watches' -> Sight]
  BY <1>2, <1>4
<1> QED  BY <1>1, <1>4, <1>5 DEF Watching

(* Looking at the watches only when a task came, went or changed state is    *)
(* often enough (state_changed, kernel.rs:318), for any number of watches on *)
(* whatever ids, globs and tags.                                             *)
THEOREM WatchersAreTold == RegistrySpec => []WatchersTold
<1>1. RegistryInit => Watching
  BY DEF RegistryInit, Watching
<1>2. ASSUME Watching, [RegistryNext]_registryVars PROVE Watching'
  <2>1. CASE UNCHANGED registryVars
    BY <1>2, <2>1, SameWatches DEF registryVars
  <2>2. CASE ChecksWatches
    BY <1>2, <2>2, WatchesChecked
  <2>3. ASSUME NEW sender, NEW space, NEW path, NEW tags, Register1(sender, space, path, tags)
        PROVE  Watching'
    <3>1. changed' = TRUE /\ UNCHANGED watches
      BY <2>3 DEF Register1
    <3> QED  BY <1>2, <3>1, SameWatches
  <2>4. ASSUME NEW id, ChangesState(id) PROVE Watching'
    BY <1>2, <2>4, SameWatches DEF ChangesState
  <2>5. ASSUME NEW sender, NEW id, Removes(sender, id) PROVE Watching'
    <3>1. changed' = TRUE /\ UNCHANGED watches
      BY <2>5 DEF Removes
    <3> QED  BY <1>2, <3>1, SameWatches
  <2>6. ASSUME NEW s, NEW space, NEW path, NEW mode,
               Subscribes(s, space, path, mode) \/ Unsubscribes(s, space, path, mode)
        PROVE  Watching'
    <3>1. UNCHANGED <<watches, names, tagged, entries, changed>>
      BY <2>6 DEF Subscribes, Unsubscribes
    <3> QED  BY <1>2, <3>1, SameWatches
  <2>7. ASSUME NEW sel \in Selectors, Watch(sel) PROVE Watching'
    BY <1>2, <2>7, WatchKept
  <2>8. ASSUME NEW k \in DOMAIN watches, StopsWatching(k) PROVE Watching'
    BY <1>2, <2>8, WatchEnds
  <2> QED  BY <1>2, <2>1, <2>2, <2>3, <2>4, <2>5, <2>6, <2>7, <2>8 DEF RegistryNext
<1>3. ASSUME Watching PROVE WatchersTold
  <2> SUFFICES ASSUME ~changed, NEW k \in DOMAIN watches, watches[k].open
               PROVE  watches[k].told = AnyActive(watches[k].sel, entries)
    BY DEF WatchersTold, Due
  <2>1. watches[k].sel \in Selectors /\ watches[k].told \in BOOLEAN /\ watches[k].active \in BOOLEAN
    BY <1>3 DEF Watching, Sight
  <2>2. watches[k].told = watches[k].active
        /\ (watches[k].active <=> watches[k].sel \in ActiveNow)
    BY <1>3 DEF Watching, Sees, UpToDate
  <2>3. watches[k].sel \in ActiveNow <=> AnyActive(watches[k].sel, entries)
    BY <2>1 DEF ActiveNow
  <2>4. AnyActive(watches[k].sel, entries) \in BOOLEAN
    BY DEF AnyActive
  <2> QED  BY <2>1, <2>2, <2>3, <2>4
<1> QED  BY <1>1, <1>2, <1>3, PTL DEF RegistrySpec

-----------------------------------------------------------------------------
(* Tries of subscriptions, by what is found at a node.                       *)
IsSubTrie(t) ==
  /\ DOMAIN t \subseteq Seq(Components)
  /\ \A n \in DOMAIN t : t[n] = [m \in Modes |-> t[n][m]]
At(t, n, mode) == IF n \in DOMAIN t THEN t[n][mode] ELSE {}

LEMMA Subscribing ==
  ASSUME NEW t, IsSubTrie(t), NEW path \in Seq(Components), NEW mode \in Modes, NEW s
  PROVE  /\ IsSubTrie(Subscribed(t, path, mode, s))
         /\ \A n : \A m \in Modes : At(Subscribed(t, path, mode, s), n, m) =
              IF n = path /\ m = mode THEN At(t, n, m) \cup {s} ELSE At(t, n, m)
<1> DEFINE g == Grown(t, path, NoSubs)
           new == [g[path] EXCEPT ![mode] = @ \cup {s}]
           u == Subscribed(t, path, mode, s)
<1>1. path \in Above(path) /\ Above(path) \subseteq Seq(Components)
  BY AboveIsPrefixes, PrefixOrder
<1>2. /\ DOMAIN g = DOMAIN t \cup Above(path)
      /\ \A n \in DOMAIN g : g[n] = IF n \in DOMAIN t THEN t[n] ELSE NoSubs
      /\ g = [n \in DOMAIN g |-> g[n]]
  BY DEF Grown
<1>3. \A n \in DOMAIN g : g[n] = [m \in Modes |-> g[n][m]]
  BY <1>2 DEF IsSubTrie, NoSubs
<1>4. u = [g EXCEPT ![path] = new]
  BY DEF Subscribed
<1> HIDE DEF g, u
<1>5. /\ DOMAIN u = DOMAIN g /\ u[path] = new
      /\ \A n \in DOMAIN g : n # path => u[n] = g[n]
  BY <1>1, <1>2, <1>4
<1>6. /\ new = [m \in Modes |-> new[m]]
      /\ new[mode] = g[path][mode] \cup {s}
      /\ \A m \in Modes : m # mode => new[m] = g[path][m]
  BY <1>1, <1>2, <1>3
<1> HIDE DEF new
<1>7. \A n : \A m \in Modes : At(g, n, m) = At(t, n, m)
  BY <1>2 DEF At, NoSubs
<1>8. ASSUME NEW n, NEW m \in Modes
      PROVE  At(u, n, m) = IF n = path /\ m = mode THEN At(t, n, m) \cup {s} ELSE At(t, n, m)
  <2>1. CASE n = path
    <3>1. At(u, n, m) = new[m] /\ At(g, n, m) = g[path][m]
      BY <1>1, <1>2, <1>5, <2>1 DEF At
    <3> QED  BY <1>6, <1>7, <2>1, <3>1
  <2>2. CASE n # path
    BY <1>5, <1>7, <2>2 DEF At
  <2> QED  BY <2>1, <2>2
<1>9. IsSubTrie(u)
  BY <1>1, <1>2, <1>3, <1>5, <1>6 DEF IsSubTrie
<1> QED  BY <1>8, <1>9 DEF u

LEMMA Pruning ==
  ASSUME NEW t, DOMAIN t \subseteq Seq(Components), NEW paths, NEW blank
  PROVE  /\ DOMAIN Pruned(t, paths, blank) \subseteq DOMAIN t
         /\ \A n \in DOMAIN Pruned(t, paths, blank) : Pruned(t, paths, blank)[n] = t[n]
         /\ \A n \in DOMAIN t \ DOMAIN Pruned(t, paths, blank) : t[n] = blank
<1> DEFINE empty(n) == \A m \in DOMAIN t : IsPrefix(n, m) =>
                         t[m] = blank /\ \E path \in paths : IsPrefix(m, path)
<1>1. Pruned(t, paths, blank) = [n \in {m \in DOMAIN t : m = <<>> \/ ~empty(m)} |-> t[n]]
  BY DEF Pruned
<1>2. ASSUME NEW n \in DOMAIN t, empty(n) PROVE t[n] = blank
  <2>1. IsPrefix(n, n)
    BY PrefixOrder
  <2> QED  BY <1>2, <2>1
<1> HIDE DEF empty
<1> QED  BY <1>1, <1>2

LEMMA Unsubscribing ==
  ASSUME NEW t, IsSubTrie(t), NEW held, NEW s
  PROVE  /\ IsSubTrie(Unsubscribed(t, held, s))
         /\ \A n : \A m \in Modes : At(Unsubscribed(t, held, s), n, m) =
              IF <<n, m>> \in held THEN At(t, n, m) \ {s} ELSE At(t, n, m)
<1> DEFINE g == [n \in DOMAIN t |-> [m \in Modes |-> IF <<n, m>> \in held THEN t[n][m] \ {s} ELSE t[n][m]]]
           u == Unsubscribed(t, held, s)
<1>1. u = Pruned(g, {x[1] : x \in held}, NoSubs) /\ DOMAIN g = DOMAIN t /\ DOMAIN t \subseteq Seq(Components)
  BY DEF Unsubscribed, IsSubTrie
<1>2. /\ \A n \in DOMAIN g : g[n] = [m \in Modes |-> g[n][m]]
      /\ \A n \in DOMAIN g : \A m \in Modes : g[n][m] = IF <<n, m>> \in held THEN t[n][m] \ {s} ELSE t[n][m]
  OBVIOUS
<1> HIDE DEF g
<1> DEFINE paths == {x[1] : x \in held}
<1> HIDE DEF paths
<1>3. /\ DOMAIN u \subseteq DOMAIN g /\ \A n \in DOMAIN u : u[n] = g[n]
      /\ \A n \in DOMAIN g \ DOMAIN u : g[n] = NoSubs
  BY <1>1, Pruning DEF paths
<1> HIDE DEF u
<1>4. IsSubTrie(u)
  BY <1>1, <1>2, <1>3 DEF IsSubTrie
<1>5. ASSUME NEW n, NEW m \in Modes
      PROVE  At(u, n, m) = IF <<n, m>> \in held THEN At(t, n, m) \ {s} ELSE At(t, n, m)
  <2>1. CASE n \in DOMAIN u
    BY <1>1, <1>2, <1>3, <2>1 DEF At
  <2>2. CASE n \in DOMAIN g /\ n \notin DOMAIN u
    <3>1. g[n][m] = {}
      BY <1>3, <2>2 DEF NoSubs
    <3>2. At(u, n, m) = {} /\ At(t, n, m) = t[n][m]
      BY <1>1, <2>2 DEF At
    <3>3. g[n][m] = IF <<n, m>> \in held THEN t[n][m] \ {s} ELSE t[n][m]
      BY <1>2, <2>2
    <3> QED  BY <3>1, <3>2, <3>3
  <2>3. CASE n \notin DOMAIN g
    BY <1>1, <1>3, <2>3 DEF At
  <2> QED  BY <2>1, <2>2, <2>3
<1> QED  BY <1>4, <1>5 DEF u

-----------------------------------------------------------------------------
(* Types.  Ids are given out one after another.                              *)
Views == [1..MaxTasks -> [came : Int, up : BOOLEAN]]
Rows == [space : Spaces, path : Places, tags : SUBSET Tags, up : BOOLEAN]
Holdings == Spaces \X Places \X Modes
RegistryTypes ==
  /\ \E n \in 1..MaxTasks : DOMAIN seen = 1..n
  /\ seen \in [DOMAIN seen -> Views]
  /\ DOMAIN entries \subseteq DOMAIN seen
  /\ entries \in [DOMAIN entries -> Rows]
  /\ bySub \in [DOMAIN seen -> SUBSET Holdings]
  /\ subs = [s \in Spaces |-> subs[s]] /\ names = [s \in Spaces |-> names[s]]
  /\ tagged = [t \in Tags |-> tagged[t]]

LEMMA LiveIs ==
  ASSUME RegistryTypes, NEW id \in Live
  PROVE  id \in 1..MaxTasks /\ id \in DOMAIN seen /\ Live \subseteq DOMAIN seen /\ entries[id] \in Rows
<1>1. PICK n \in 1..MaxTasks : DOMAIN seen = 1..n
  BY DEF RegistryTypes
<1>2. id \in DOMAIN seen /\ Live \subseteq DOMAIN seen /\ entries[id] \in Rows
  BY DEF RegistryTypes, Live
<1> QED  BY <1>1, <1>2, RegistryAssumption

LEMMA NextId ==
  ASSUME RegistryTypes, NEW id, id = Cardinality(DOMAIN seen) + 1, id <= MaxTasks
  PROVE  /\ id \in 1..MaxTasks /\ id \notin DOMAIN seen
         /\ DOMAIN seen \cup {id} = 1..id
<1>1. PICK n \in 1..MaxTasks : DOMAIN seen = 1..n
  BY DEF RegistryTypes
<1>2. MaxTasks \in Nat /\ Cardinality(1..n) = n
  BY RegistryAssumption, FS_Interval
<1> QED  BY <1>1, <1>2

LEMMA HoldingIs ==
  ASSUME NEW x \in Holdings
  PROVE  /\ x = <<x[1], x[2], x[3]>> /\ x[1] \in Spaces /\ x[2] \in Places /\ x[3] \in Modes
         /\ x[2] \in Seq(Components)
  BY PlacesAreSequences DEF Holdings

(* The tries hold what the subscribers hold.                                 *)
SubsAre(tries, by) ==
  \A space \in Spaces :
    /\ IsSubTrie(tries[space])
    /\ \A n : \A mode \in Modes :
         At(tries[space], n, mode) = {s \in DOMAIN by : <<space, n, mode>> \in by[s]}
SubsExact == SubsAre(subs, bySub)

(* A subscription reaches a path, and with it the task there.                *)
Reaches(x, space, path) == x[1] = space /\ (x[2] = path \/ (x[3] = "subtree" /\ IsPrefix(x[2], path)))

LEMMA Collected ==
  ASSUME NEW tries, NEW by, SubsAre(tries, by), \A s \in DOMAIN by : by[s] \subseteq Holdings,
         NEW space \in Spaces, NEW path \in Seq(Components), NEW s
  PROVE  s \in Collect(tries[space], path) <=> s \in DOMAIN by /\ \E x \in by[s] : Reaches(x, space, path)
<1> DEFINE t == tries[space]
<1>1. s \in Collect(t, path) <=>
        s \in At(t, path, "exact") \/ \E n \in Above(path) : s \in At(t, n, "subtree")
  BY DEF Collect, At
<1>2. Above(path) = {n \in Seq(Components) : IsPrefix(n, path)} /\ IsPrefix(path, path)
  BY AboveIsPrefixes, PrefixOrder
<1>3. \A n : \A mode \in Modes : s \in At(t, n, mode) <=> s \in DOMAIN by /\ <<space, n, mode>> \in by[s]
  BY DEF SubsAre
<1> HIDE DEF t
<1>4. "exact" \in Modes /\ "subtree" \in Modes /\ \A m \in Modes : m = "exact" \/ m = "subtree"
  BY DEF Modes
<1>5. ASSUME s \in At(t, path, "exact") \/ \E n \in Above(path) : s \in At(t, n, "subtree")
      PROVE  s \in DOMAIN by /\ \E x \in by[s] : Reaches(x, space, path)
  <2>1. CASE s \in At(t, path, "exact")
    <3>1. s \in DOMAIN by /\ <<space, path, "exact">> \in by[s]
      BY <1>3, <1>4, <2>1
    <3>2. Reaches(<<space, path, "exact">>, space, path)
      BY DEF Reaches
    <3> QED  BY <3>1, <3>2
  <2>2. ASSUME NEW n \in Above(path), s \in At(t, n, "subtree")
        PROVE  s \in DOMAIN by /\ \E x \in by[s] : Reaches(x, space, path)
    <3>1. s \in DOMAIN by /\ <<space, n, "subtree">> \in by[s]
      BY <1>3, <1>4, <2>2
    <3>2. Reaches(<<space, n, "subtree">>, space, path)
      BY <1>2 DEF Reaches
    <3> QED  BY <3>1, <3>2
  <2> QED  BY <1>5, <2>1, <2>2
<1>6. ASSUME s \in DOMAIN by, NEW x \in by[s], Reaches(x, space, path)
      PROVE  s \in At(t, path, "exact") \/ \E n \in Above(path) : s \in At(t, n, "subtree")
  <2>1. x \in Holdings
    BY <1>6
  <2>2. x = <<x[1], x[2], x[3]>> /\ x[3] \in Modes /\ x[2] \in Seq(Components)
    BY <2>1, HoldingIs
  <2>3. x[1] = space /\ (x[2] = path \/ (x[3] = "subtree" /\ IsPrefix(x[2], path)))
    BY <1>6 DEF Reaches
  <2>4. s \in At(t, x[2], x[3])
    BY <1>3, <1>6, <2>2, <2>3
  <2> QED  BY <1>2, <1>4, <2>2, <2>3, <2>4
<1> QED  BY <1>1, <1>5, <1>6 DEF t

LEMMA SubsSame ==
  ASSUME SubsExact, subs' = subs,
         \/ bySub' = bySub
         \/ \E id : id \notin DOMAIN bySub
              /\ bySub' = [i \in DOMAIN bySub \cup {id} |-> IF i = id THEN {} ELSE bySub[i]]
  PROVE  SubsExact'
<1>1. CASE bySub' = bySub
  BY <1>1 DEF SubsExact, SubsAre
<1>2. ASSUME NEW id, id \notin DOMAIN bySub,
             bySub' = [i \in DOMAIN bySub \cup {id} |-> IF i = id THEN {} ELSE bySub[i]]
      PROVE  SubsExact'
  <2>1. DOMAIN bySub' = DOMAIN bySub \cup {id} /\ bySub'[id] = {}
        /\ \A i \in DOMAIN bySub : bySub'[i] = bySub[i]
    BY <1>2
  <2>2. \A x : {s \in DOMAIN bySub' : x \in bySub'[s]} = {s \in DOMAIN bySub : x \in bySub[s]}
    BY <2>1
  <2> QED  BY <2>2 DEF SubsExact, SubsAre
<1> QED  BY <1>1, <1>2

LEMMA SubsMore ==
  ASSUME RegistryTypes, SubsExact,
         NEW s \in DOMAIN seen, NEW space \in Spaces, NEW path \in Places, NEW mode \in Modes,
         subs' = [subs EXCEPT ![space] = Subscribed(@, path, mode, s)],
         bySub' = [bySub EXCEPT ![s] = @ \cup {<<space, path, mode>>}]
  PROVE  SubsExact'
<1>1. /\ DOMAIN bySub' = DOMAIN bySub /\ s \in DOMAIN bySub
      /\ \A i \in DOMAIN bySub : bySub'[i] = IF i = s THEN bySub[i] \cup {<<space, path, mode>>} ELSE bySub[i]
  BY DEF RegistryTypes
<1>2. /\ subs'[space] = Subscribed(subs[space], path, mode, s)
      /\ \A other \in Spaces : other # space => subs'[other] = subs[other]
  BY DEF RegistryTypes
<1>3. path \in Seq(Components) /\ IsSubTrie(subs[space])
  BY PlacesAreSequences DEF SubsExact, SubsAre
<1>4. /\ IsSubTrie(subs'[space])
      /\ \A n : \A m \in Modes : At(subs'[space], n, m) =
           IF n = path /\ m = mode THEN At(subs[space], n, m) \cup {s} ELSE At(subs[space], n, m)
  <2> DEFINE t == subs[space]
  <2>1. IsSubTrie(t) /\ path \in Seq(Components)
    BY <1>3
  <2>2. subs'[space] = Subscribed(t, path, mode, s)
    BY <1>2
  <2> HIDE DEF t
  <2>3. /\ IsSubTrie(Subscribed(t, path, mode, s))
        /\ \A n : \A m \in Modes : At(Subscribed(t, path, mode, s), n, m) =
             IF n = path /\ m = mode THEN At(t, n, m) \cup {s} ELSE At(t, n, m)
    BY <2>1, Subscribing
  <2> DEFINE u == Subscribed(t, path, mode, s)
  <2> HIDE DEF u
  <2> QED  BY <2>2, <2>3 DEF t, u
<1>5. ASSUME NEW other \in Spaces, NEW n, NEW m \in Modes
      PROVE  At(subs'[other], n, m) = {i \in DOMAIN bySub' : <<other, n, m>> \in bySub'[i]}
  <2>1. At(subs[other], n, m) = {i \in DOMAIN bySub : <<other, n, m>> \in bySub[i]}
    BY DEF SubsExact, SubsAre
  <2>2. CASE other = space /\ n = path /\ m = mode
    <3>1. At(subs'[other], n, m) = At(subs[other], n, m) \cup {s}
      BY <1>4, <2>2
    <3>2. \A i \in DOMAIN bySub : <<other, n, m>> \in bySub'[i] <=> i = s \/ <<other, n, m>> \in bySub[i]
      BY <1>1, <2>2
    <3> QED  BY <1>1, <2>1, <3>1, <3>2
  <2>3. CASE ~(other = space /\ n = path /\ m = mode)
    <3>1. At(subs'[other], n, m) = At(subs[other], n, m)
      BY <1>2, <1>4, <2>3
    <3>2. <<other, n, m>> # <<space, path, mode>>
      BY <2>3
    <3> QED  BY <1>1, <2>1, <3>1, <3>2
  <2> QED  BY <2>2, <2>3
<1>6. \A other \in Spaces : IsSubTrie(subs'[other])
  BY <1>2, <1>4 DEF SubsExact, SubsAre
<1> QED  BY <1>5, <1>6 DEF SubsExact, SubsAre

(* What goes of s in a space is what was held there.                         *)
LEMMA SubsLess ==
  ASSUME RegistryTypes, SubsExact, NEW s \in DOMAIN seen, NEW gone \in SUBSET bySub[s],
         \A space \in Spaces : \E held :
           /\ subs'[space] = Unsubscribed(subs[space], held, s) \/ (subs'[space] = subs[space] /\ held = {})
           /\ \A n : \A m \in Modes : <<space, n, m>> \in bySub[s] => (<<n, m>> \in held <=> <<space, n, m>> \in gone),
         bySub' = [bySub EXCEPT ![s] = @ \ gone]
  PROVE  SubsExact'
<1>1. /\ DOMAIN bySub' = DOMAIN bySub /\ s \in DOMAIN bySub
      /\ \A i \in DOMAIN bySub : bySub'[i] = IF i = s THEN bySub[i] \ gone ELSE bySub[i]
  BY DEF RegistryTypes
<1>2. ASSUME NEW space \in Spaces
      PROVE  /\ IsSubTrie(subs'[space])
             /\ \A n : \A m \in Modes :
                  At(subs'[space], n, m) = {i \in DOMAIN bySub' : <<space, n, m>> \in bySub'[i]}
  <2>1. /\ IsSubTrie(subs[space])
        /\ \A n : \A m \in Modes : At(subs[space], n, m) = {i \in DOMAIN bySub : <<space, n, m>> \in bySub[i]}
    BY DEF SubsExact, SubsAre
  <2>2. PICK held :
          /\ subs'[space] = Unsubscribed(subs[space], held, s) \/ (subs'[space] = subs[space] /\ held = {})
          /\ \A n : \A m \in Modes : <<space, n, m>> \in bySub[s] => (<<n, m>> \in held <=> <<space, n, m>> \in gone)
    OBVIOUS
  <2>3. /\ IsSubTrie(subs'[space])
        /\ \A n : \A m \in Modes : At(subs'[space], n, m) =
             IF <<n, m>> \in held THEN At(subs[space], n, m) \ {s} ELSE At(subs[space], n, m)
    <3> DEFINE t == subs[space]
    <3>1. IsSubTrie(t)
      BY <2>1
    <3>2. CASE subs'[space] = Unsubscribed(t, held, s)
      <4> HIDE DEF t
      <4>1. /\ IsSubTrie(Unsubscribed(t, held, s))
            /\ \A n : \A m \in Modes : At(Unsubscribed(t, held, s), n, m) =
                 IF <<n, m>> \in held THEN At(t, n, m) \ {s} ELSE At(t, n, m)
        BY <3>1, Unsubscribing
      <4> DEFINE u == Unsubscribed(t, held, s)
      <4> HIDE DEF u
      <4> QED  BY <3>2, <4>1 DEF t, u
    <3>3. CASE subs'[space] = subs[space] /\ held = {}
      BY <2>1, <3>3
    <3> QED  BY <2>2, <3>2, <3>3
  <2>4. ASSUME NEW n, NEW m \in Modes
        PROVE  At(subs'[space], n, m) = {i \in DOMAIN bySub' : <<space, n, m>> \in bySub'[i]}
    <3>1. At(subs[space], n, m) = {i \in DOMAIN bySub : <<space, n, m>> \in bySub[i]}
      BY <2>1
    <3>2. CASE <<space, n, m>> \in bySub[s] /\ <<n, m>> \in held
      <4>1. <<space, n, m>> \in gone /\ At(subs'[space], n, m) = At(subs[space], n, m) \ {s}
        BY <2>2, <2>3, <3>2
      <4> QED  BY <1>1, <3>1, <4>1
    <3>3. CASE <<space, n, m>> \in bySub[s] /\ <<n, m>> \notin held
      <4>1. <<space, n, m>> \notin gone /\ At(subs'[space], n, m) = At(subs[space], n, m)
        BY <2>2, <2>3, <3>3
      <4> QED  BY <1>1, <3>1, <4>1
    <3>4. CASE <<space, n, m>> \notin bySub[s]
      <4>1. s \notin At(subs[space], n, m) /\ At(subs'[space], n, m) = At(subs[space], n, m)
        BY <2>3, <3>1, <3>4
      <4> QED  BY <1>1, <3>1, <3>4, <4>1
    <3> QED  BY <3>2, <3>3, <3>4
  <2> QED  BY <2>3, <2>4
<1> QED  BY <1>2 DEF SubsExact, SubsAre
-----------------------------------------------------------------------------
(* Types are kept.                                                           *)
LEMMA PlacesHold == <<>> \in Places /\ Console \in Places /\ Paths \subseteq Places
  BY DEF Places

Notes == [kind : {"removed"}] \cup [kind : {"added", "state"}, up : BOOLEAN]
Noted(old, new, note) ==
  /\ note.kind = "added" => new = [came |-> old.came + 1, up |-> note.up]
  /\ note.kind = "state" => new = [came |-> old.came, up |-> note.up]
  /\ note.kind = "removed" => new.came = old.came - 1

LEMMA HearingIs ==
  ASSUME NEW view \in Views, NEW id \in 1..MaxTasks, NEW note \in Notes
  PROVE  /\ Hear(view, id, note) \in Views
         /\ \A i \in 1..MaxTasks : i # id => Hear(view, id, note)[i] = view[i]
         /\ Noted(view[id], Hear(view, id, note)[id], note)
<1> DEFINE row == [came : Int, up : BOOLEAN]
<1>0. \/ note = [kind |-> "removed"]
      \/ \E up \in BOOLEAN : note = [kind |-> "added", up |-> up] \/ note = [kind |-> "state", up |-> up]
  BY DEF Notes
<1>1. view \in [1..MaxTasks -> row] /\ view[id] \in row
  BY DEF Views
<1>2. ASSUME NEW r \in row, Hear(view, id, note) = [view EXCEPT ![id] = r]
      PROVE  /\ Hear(view, id, note) \in Views /\ Hear(view, id, note)[id] = r
             /\ \A i \in 1..MaxTasks : i # id => Hear(view, id, note)[i] = view[i]
  <2> HIDE DEF row
  <2> QED  BY <1>1, <1>2 DEF Views, row
<1>3. ASSUME NEW up \in BOOLEAN, note = [kind |-> "added", up |-> up]
      PROVE  /\ [came |-> view[id].came + 1, up |-> up] \in row /\ note.kind = "added" /\ note.up = up
             /\ Hear(view, id, note) = [view EXCEPT ![id] = [came |-> view[id].came + 1, up |-> up]]
  BY <1>1, <1>3 DEF Hear
<1>4. ASSUME NEW up \in BOOLEAN, note = [kind |-> "state", up |-> up]
      PROVE  /\ [came |-> view[id].came, up |-> up] \in row /\ note.kind = "state" /\ note.up = up
             /\ Hear(view, id, note) = [view EXCEPT ![id] = [came |-> view[id].came, up |-> up]]
  <2>1. [view[id] EXCEPT !.up = up] = [came |-> view[id].came, up |-> up]
    BY <1>1
  <2>2. Hear(view, id, note) = [view EXCEPT ![id] = [view[id] EXCEPT !.up = up]]
    BY <1>4 DEF Hear
  <2> QED  BY <1>1, <1>4, <2>1, <2>2
<1>5. ASSUME note = [kind |-> "removed"]
      PROVE  /\ [came |-> view[id].came - 1, up |-> view[id].up] \in row /\ note.kind = "removed"
             /\ Hear(view, id, note) = [view EXCEPT ![id] = [came |-> view[id].came - 1, up |-> view[id].up]]
  <2>1. [view[id] EXCEPT !.came = view[id].came - 1] = [came |-> view[id].came - 1, up |-> view[id].up]
    BY <1>1
  <2>2. note.kind = "removed"
    BY <1>5
  <2>3. Hear(view, id, note) = [view EXCEPT ![id] = [view[id] EXCEPT !.came = view[id].came - 1]]
    BY <2>2 DEF Hear
  <2>4. [came |-> view[id].came - 1, up |-> view[id].up] \in row
    BY <1>1
  <2> HIDE DEF row
  <2> QED  BY <2>1, <2>2, <2>3, <2>4
<1> HIDE DEF row
<1>7. CASE \E up \in BOOLEAN : note = [kind |-> "added", up |-> up]
  BY <1>2, <1>3, <1>7 DEF Noted
<1>8. CASE \E up \in BOOLEAN : note = [kind |-> "state", up |-> up]
  BY <1>2, <1>4, <1>8 DEF Noted
<1>9. CASE note = [kind |-> "removed"]
  BY <1>2, <1>5, <1>9 DEF Noted
<1> QED  BY <1>0, <1>7, <1>8, <1>9

(* What is held reaches a task, and a view knows what it then should.         *)
HearsIn(table, held, id) ==
  /\ id \in DOMAIN table /\ table[id].path # <<>>
  /\ \E x \in held : Reaches(x, table[id].space, table[id].path)
KnowsOf(view, table, held, id) ==
  /\ HearsIn(table, held, id) => view[id] = [came |-> 1, up |-> table[id].up]
  /\ ~HearsIn(table, held, id) => view[id].came = 0
Hearing == \A s \in Live : \A id \in 1..MaxTasks : KnowsOf(seen[s], entries, bySub[s], id)

LEMMA HearingMeans == Hearing <=> SubscribersHear
<1>1. \A s : \A id : HearsOf(s, id) <=> HearsIn(entries, bySub[s], id)
  BY DEF HearsOf, Covers, HearsIn, Reaches, Live
<1>2. ASSUME NEW s, NEW id
      PROVE  KnowsOf(seen[s], entries, bySub[s], id)
               <=> IF HearsOf(s, id) THEN seen[s][id] = [came |-> 1, up |-> entries[id].up]
                   ELSE seen[s][id].came = 0
  <2>1. CASE HearsOf(s, id)
    BY <1>1, <2>1 DEF KnowsOf
  <2>2. CASE ~HearsOf(s, id)
    BY <1>1, <2>2 DEF KnowsOf
  <2> QED  BY <2>1, <2>2
<1> QED  BY <1>2 DEF Hearing, SubscribersHear

LEMMA HearsSame ==
  ASSUME NEW table, NEW table2, NEW held, NEW id, id \in DOMAIN table <=> id \in DOMAIN table2,
         id \in DOMAIN table => table2[id].space = table[id].space /\ table2[id].path = table[id].path
  PROVE  HearsIn(table2, held, id) <=> HearsIn(table, held, id)
  BY DEF HearsIn

LEMMA ReachMeansHear ==
  ASSUME RegistryTypes, SubsExact, NEW id \in Live, NEW s \in DOMAIN seen
  PROVE  s \in Listeners(entries[id].space, entries[id].path) <=> HearsIn(entries, bySub[s], id)
<1>1. entries[id].space \in Spaces /\ entries[id].path \in Seq(Components)
  BY PlacesAreSequences DEF RegistryTypes, Rows, Live
<1>2. DOMAIN bySub = DOMAIN seen /\ \A i \in DOMAIN bySub : bySub[i] \subseteq Holdings
  BY DEF RegistryTypes
<1>3. s \in Collect(subs[entries[id].space], entries[id].path)
        <=> s \in DOMAIN bySub /\ \E x \in bySub[s] : Reaches(x, entries[id].space, entries[id].path)
  BY <1>1, <1>2, Collected DEF SubsExact
<1> QED  BY <1>2, <1>3 DEF HearsIn, Listeners, Live

LEMMA Notifying ==
  ASSUME RegistryTypes, NEW id \in 1..MaxTasks, NEW targets, NEW note \in Notes
  PROVE  /\ Notified(id, note, targets) \in [DOMAIN seen -> Views]
         /\ \A s \in DOMAIN seen : s \notin targets => Notified(id, note, targets)[s] = seen[s]
         /\ \A s \in DOMAIN seen : \A i \in 1..MaxTasks :
              i # id => Notified(id, note, targets)[s][i] = seen[s][i]
         /\ \A s \in DOMAIN seen \cap targets : Noted(seen[s][id], Notified(id, note, targets)[s][id], note)
<1> DEFINE told == Notified(id, note, targets)
<1>1. \A s \in DOMAIN seen : seen[s] \in Views
  BY DEF RegistryTypes
<1>2. ASSUME NEW s \in DOMAIN seen
      PROVE  /\ Hear(seen[s], id, note) \in Views
             /\ \A i \in 1..MaxTasks : i # id => Hear(seen[s], id, note)[i] = seen[s][i]
             /\ Noted(seen[s][id], Hear(seen[s], id, note)[id], note)
  <2> DEFINE view == seen[s]
  <2>1. view \in Views
    BY <1>1
  <2> HIDE DEF view
  <2>2. /\ Hear(view, id, note) \in Views
        /\ \A i \in 1..MaxTasks : i # id => Hear(view, id, note)[i] = view[i]
        /\ Noted(view[id], Hear(view, id, note)[id], note)
    BY <2>1, HearingIs
  <2> QED  BY <2>2 DEF view
<1>3. told = [s \in DOMAIN seen |-> IF s \in targets THEN Hear(seen[s], id, note) ELSE seen[s]]
  BY DEF Notified
<1> HIDE DEF told
<1>4. told \in [DOMAIN seen -> Views]
  BY <1>1, <1>2, <1>3
<1>5. ASSUME NEW s \in DOMAIN seen, s \notin targets PROVE told[s] = seen[s]
  BY <1>3, <1>5
<1>6. ASSUME NEW s \in DOMAIN seen, s \in targets PROVE told[s] = Hear(seen[s], id, note)
  BY <1>3, <1>6
<1>7. ASSUME NEW s \in DOMAIN seen, NEW i \in 1..MaxTasks, i # id PROVE told[s][i] = seen[s][i]
  BY <1>2, <1>5, <1>6, <1>7
<1>8. ASSUME NEW s \in DOMAIN seen \cap targets PROVE Noted(seen[s][id], told[s][id], note)
  BY <1>2, <1>6
<1> QED  BY <1>4, <1>5, <1>7, <1>8 DEF told

-----------------------------------------------------------------------------
(* Names.  The trie of a space has a node for every prefix of a path where a *)
(* task is, and no other but its root; where a task is, it has its id.       *)
NameTrie(t, at) ==
  /\ t = [n \in DOMAIN t |-> t[n]]
  /\ DOMAIN t = {<<>>} \cup UNION {Above(at[i]) : i \in DOMAIN at}
  /\ \A n \in DOMAIN t : t[n] = NoTask \/ (t[n] \in DOMAIN at /\ at[t[n]] = n)
  /\ \A i \in DOMAIN at : t[at[i]] = i
Named == UNION {[ids -> Seq(Components) \ {<<>>}] : ids \in SUBSET (Nat \ {NoTask})}

LEMMA NodesAre ==
  ASSUME NEW t, NEW at \in Named, NameTrie(t, at)
  PROVE  /\ DOMAIN t \subseteq Seq(Components) /\ <<>> \in DOMAIN t
         /\ \A n \in DOMAIN t : n # <<>> => \E i \in DOMAIN at : IsPrefix(n, at[i])
         /\ \A i \in DOMAIN at : \A n \in Seq(Components) : IsPrefix(n, at[i]) => n \in DOMAIN t
         /\ \A i \in DOMAIN at : at[i] \in Seq(Components) \ {<<>>} /\ at[i] \in DOMAIN t /\ i # NoTask
         /\ \A i \in DOMAIN at : \A j \in DOMAIN at : at[i] = at[j] => i = j
<1>1. \A i \in DOMAIN at : at[i] \in Seq(Components) \ {<<>>} /\ i # NoTask
  BY DEF Named
<1>2. \A i \in DOMAIN at : Above(at[i]) = {n \in Seq(Components) : IsPrefix(n, at[i])} /\ at[i] \in Above(at[i])
  BY <1>1, AboveIsPrefixes, PrefixOrder
<1>3. \A i \in DOMAIN at : \A n : n \in Above(at[i]) => n \in DOMAIN t
  BY DEF NameTrie
<1>4. \A n \in DOMAIN t : n = <<>> \/ \E i \in DOMAIN at : n \in Above(at[i])
  BY DEF NameTrie
<1>5. <<>> \in Seq(Components) /\ <<>> \in DOMAIN t
  BY EmptySeq DEF NameTrie
<1>6. \A i \in DOMAIN at : \A j \in DOMAIN at : at[i] = at[j] => i = j
  BY DEF NameTrie
<1> QED  BY <1>1, <1>2, <1>3, <1>4, <1>5, <1>6

LEMMA Inserting ==
  ASSUME NEW t, NEW at \in Named, NameTrie(t, at), NEW path \in Seq(Components) \ {<<>>},
         NEW id \in Nat \ {NoTask}, id \notin DOMAIN at, Resolve(t, path) = NoTask,
         NEW to, to = [i \in DOMAIN at \cup {id} |-> IF i = id THEN path ELSE at[i]]
  PROVE  to \in Named /\ NameTrie(Inserted(t, path, id), to)
<1> DEFINE g == Grown(t, path, NoTask)
           u == Inserted(t, path, id)
<1>1. /\ DOMAIN to = DOMAIN at \cup {id} /\ to[id] = path
      /\ \A i \in DOMAIN at : to[i] = at[i] /\ i # id
  OBVIOUS
<1>2. to \in Named
  <2>1. DOMAIN at \in SUBSET (Nat \ {NoTask}) /\ at \in [DOMAIN at -> Seq(Components) \ {<<>>}]
    BY DEF Named
  <2>2. (DOMAIN at \cup {id}) \in SUBSET (Nat \ {NoTask}) /\ to \in [DOMAIN at \cup {id} -> Seq(Components) \ {<<>>}]
    BY <2>1
  <2> QED  BY <2>2 DEF Named
<1>3. path \in Above(path)
  BY AboveIsPrefixes, PrefixOrder
<1>4. /\ DOMAIN g = DOMAIN t \cup Above(path)
      /\ \A n \in DOMAIN g : g[n] = IF n \in DOMAIN t THEN t[n] ELSE NoTask
  BY DEF Grown
<1>5. u = [g EXCEPT ![path] = id]
  BY DEF Inserted
<1> HIDE DEF u
<1>6. /\ u = [n \in DOMAIN u |-> u[n]] /\ DOMAIN u = DOMAIN t \cup Above(path)
      /\ u[path] = id
      /\ \A n \in DOMAIN u : n # path => u[n] = IF n \in DOMAIN t THEN t[n] ELSE NoTask
  BY <1>3, <1>4, <1>5
<1> HIDE DEF g
<1>7. DOMAIN u = {<<>>} \cup UNION {Above(to[i]) : i \in DOMAIN to}
  <2>1. \A n : n \in UNION {Above(to[i]) : i \in DOMAIN to}
               <=> n \in UNION {Above(at[i]) : i \in DOMAIN at} \/ n \in Above(path)
    BY <1>1
  <2> QED  BY <1>6, <2>1 DEF NameTrie
<1>8. ASSUME NEW i \in DOMAIN at PROVE at[i] # path /\ u[at[i]] = i
  <2>1. at[i] \in DOMAIN t /\ t[at[i]] = i /\ i # NoTask
    BY NodesAre DEF NameTrie
  <2>2. at[i] # path
    BY <2>1 DEF Resolve
  <2> QED  BY <1>6, <2>1, <2>2
<1>9. ASSUME NEW n \in DOMAIN u PROVE u[n] = NoTask \/ (u[n] \in DOMAIN to /\ to[u[n]] = n)
  <2>1. CASE n = path
    BY <1>1, <1>6, <2>1
  <2>2. CASE n # path
    BY <1>1, <1>6, <2>2 DEF NameTrie
  <2> QED  BY <2>1, <2>2
<1>10. NameTrie(u, to)
  BY <1>1, <1>6, <1>7, <1>8, <1>9 DEF NameTrie
<1> QED  BY <1>2, <1>10 DEF u

LEMMA Taking ==
  ASSUME NEW t, NEW at \in Named, NameTrie(t, at), NEW id \in DOMAIN at,
         NEW to, to = [i \in DOMAIN at \ {id} |-> at[i]]
  PROVE  to \in Named /\ NameTrie(Taken(t, at[id]), to)
<1> DEFINE path == at[id]
           g == [n \in DOMAIN t |-> IF n = path THEN NoTask ELSE t[n]]
           u == Taken(t, path)
           empty(n) == \A m \in DOMAIN g : IsPrefix(n, m) =>
                         g[m] = NoTask /\ \E p \in {path} : IsPrefix(m, p)
<1>1. /\ DOMAIN to = DOMAIN at \ {id}
      /\ \A i \in DOMAIN to : to[i] = at[i] /\ i # id /\ i \in DOMAIN at
  OBVIOUS
<1>2. to \in Named
  <2>1. DOMAIN at \in SUBSET (Nat \ {NoTask}) /\ at \in [DOMAIN at -> Seq(Components) \ {<<>>}]
    BY DEF Named
  <2>2. (DOMAIN at \ {id}) \in SUBSET (Nat \ {NoTask}) /\ to \in [DOMAIN at \ {id} -> Seq(Components) \ {<<>>}]
    BY <2>1
  <2> QED  BY <2>2 DEF Named
<1>3. u = [n \in {m \in DOMAIN g : m = <<>> \/ ~empty(m)} |-> g[n]]
  BY DEF Taken, Pruned
<1>4. DOMAIN g = DOMAIN t /\ g[path] = NoTask /\ \A n \in DOMAIN t : n # path => g[n] = t[n]
  BY NodesAre
<1>5. \A n \in DOMAIN t : empty(n) <=>
        \A m \in DOMAIN t : IsPrefix(n, m) => g[m] = NoTask /\ IsPrefix(m, path)
  BY <1>4
<1> HIDE DEF empty, g, u
<1>6. /\ u = [n \in DOMAIN u |-> u[n]]
      /\ DOMAIN u = {m \in DOMAIN t : m = <<>> \/ ~empty(m)}
      /\ \A n \in DOMAIN u : u[n] = g[n]
  BY <1>3, <1>4
<1>7. /\ DOMAIN t \subseteq Seq(Components) /\ <<>> \in DOMAIN t
      /\ \A n \in DOMAIN t : n # <<>> => \E i \in DOMAIN at : IsPrefix(n, at[i])
      /\ \A i \in DOMAIN at : \A n \in Seq(Components) : IsPrefix(n, at[i]) => n \in DOMAIN t
      /\ \A i \in DOMAIN at : at[i] \in Seq(Components) \ {<<>>} /\ at[i] \in DOMAIN t /\ i # NoTask
      /\ \A i \in DOMAIN at : \A j \in DOMAIN at : at[i] = at[j] => i = j
  BY NodesAre
<1>8. ASSUME NEW i \in DOMAIN to PROVE at[i] # path /\ g[at[i]] = i /\ i # NoTask
  BY <1>1, <1>4, <1>7 DEF NameTrie
<1>9. ASSUME NEW i \in DOMAIN to, NEW n \in Seq(Components), IsPrefix(n, at[i]) PROVE n \in DOMAIN u
  <2>1. n \in DOMAIN t /\ at[i] \in DOMAIN t
    BY <1>1, <1>7, <1>9
  <2>2. ~empty(n)
    BY <1>5, <1>8, <1>9, <2>1
  <2> QED  BY <1>6, <2>1, <2>2
<1>10. ASSUME NEW n \in DOMAIN u, n # <<>> PROVE \E i \in DOMAIN to : IsPrefix(n, at[i])
  <2>1. PICK m \in DOMAIN t : IsPrefix(n, m) /\ (g[m] # NoTask \/ ~IsPrefix(m, path))
    BY <1>5, <1>6, <1>10
  <2>2. CASE g[m] # NoTask
    <3>1. m # path /\ t[m] # NoTask
      BY <1>4, <2>2
    <3>2. t[m] \in DOMAIN at /\ at[t[m]] = m
      BY <3>1 DEF NameTrie
    <3>3. t[m] \in DOMAIN to
      BY <1>1, <3>1, <3>2
    <3> QED  BY <2>1, <3>2, <3>3
  <2>3. CASE ~IsPrefix(m, path)
    <3>1. m # <<>> /\ m \in Seq(Components) /\ n \in Seq(Components)
      BY <1>6, <1>7, <2>3, PrefixOrder
    <3>2. PICK i \in DOMAIN at : IsPrefix(m, at[i])
      BY <1>7, <3>1
    <3>3. i \in DOMAIN to
      BY <1>1, <2>3, <3>2
    <3>4. at[i] \in Seq(Components)
      BY <1>7
    <3>5. IsPrefix(n, at[i])
      BY <2>1, <3>1, <3>2, <3>4, PrefixOrder
    <3> QED  BY <3>3, <3>5
  <2> QED  BY <2>1, <2>2, <2>3
<1>11. \A i \in DOMAIN to : to[i] = at[i] /\ at[i] \in Seq(Components)
                            /\ Above(to[i]) = {n \in Seq(Components) : IsPrefix(n, at[i])}
  BY <1>1, <1>7, AboveIsPrefixes
<1>12. DOMAIN u = {<<>>} \cup UNION {Above(to[i]) : i \in DOMAIN to}
  <2>1. ASSUME NEW n \in DOMAIN u, n # <<>> PROVE n \in UNION {Above(to[i]) : i \in DOMAIN to}
    <3>1. PICK i \in DOMAIN to : IsPrefix(n, at[i])
      BY <1>10, <2>1
    <3>2. n \in Above(to[i])
      BY <1>6, <1>7, <1>11, <3>1
    <3> QED  BY <3>2
  <2>2. ASSUME NEW i \in DOMAIN to, NEW n \in Above(to[i]) PROVE n \in DOMAIN u
    BY <1>9, <1>11
  <2>3. <<>> \in DOMAIN u
    BY <1>6, <1>7
  <2> QED  BY <2>1, <2>2, <2>3
<1>13. ASSUME NEW i \in DOMAIN to PROVE u[to[i]] = i
  <2>1. at[i] \in Seq(Components) /\ IsPrefix(at[i], at[i]) /\ to[i] = at[i]
    BY <1>11, PrefixOrder
  <2>2. at[i] \in DOMAIN u
    BY <1>9, <2>1
  <2> QED  BY <1>6, <1>8, <2>1, <2>2
<1>14. ASSUME NEW n \in DOMAIN u PROVE u[n] = NoTask \/ (u[n] \in DOMAIN to /\ to[u[n]] = n)
  <2>1. CASE n = path
    BY <1>4, <1>6, <2>1
  <2>2. CASE n # path
    <3>1. u[n] = t[n] /\ n \in DOMAIN t
      BY <1>4, <1>6, <2>2
    <3>2. t[n] = NoTask \/ (t[n] \in DOMAIN at /\ at[t[n]] = n)
      BY <3>1 DEF NameTrie
    <3>3. t[n] \in DOMAIN at /\ at[t[n]] = n => t[n] # id
      BY <2>2
    <3> QED  BY <1>1, <3>1, <3>2, <3>3
  <2> QED  BY <2>1, <2>2
<1>15. NameTrie(u, to)
  BY <1>6, <1>12, <1>13, <1>14 DEF NameTrie
<1> QED  BY <1>2, <1>15 DEF u

(* Every space, and where its tasks are.                                     *)
Where(table, space) ==
  [id \in {i \in DOMAIN table : table[i].space = space /\ table[i].path # <<>>} |-> table[id].path]
NamesAre(tries, table) == \A space \in Spaces : NameTrie(tries[space], Where(table, space))
NamesExact == NamesAre(names, entries)
TagsExact == \A tag \in Tags : tagged[tag] = {id \in Live : tag \in entries[id].tags}
Registered == RegistryTypes /\ SubsExact /\ NamesExact /\ TagsExact /\ Hearing

LEMMA WhereIs ==
  ASSUME RegistryTypes, NEW space
  PROVE  /\ Where(entries, space) \in Named
         /\ DOMAIN Where(entries, space) = Placed(space)
         /\ \A id \in Placed(space) : Where(entries, space)[id] = entries[id].path
<1>1. ASSUME NEW i \in DOMAIN entries, entries[i].path # <<>>
      PROVE  i \in Nat \ {NoTask} /\ entries[i].path \in Seq(Components) \ {<<>>}
  <2>1. i \in Nat \ {NoTask}
    BY RegistryAssumption DEF RegistryTypes, NoTask
  <2>2. entries[i].path \in Places
    BY DEF RegistryTypes, Rows
  <2> QED  BY <1>1, <2>1, <2>2, PlacesAreSequences
<1> DEFINE ids == {i \in DOMAIN entries : entries[i].space = space /\ entries[i].path # <<>>}
<1>2. ids \in SUBSET (Nat \ {NoTask}) /\ \A id \in ids : entries[id].path \in Seq(Components) \ {<<>>}
  BY <1>1
<1>3. Where(entries, space) = [id \in ids |-> entries[id].path]
  BY DEF Where
<1>4. ids = Placed(space)
  BY DEF Placed, Live
<1> HIDE DEF ids
<1>5. Where(entries, space) \in [ids -> Seq(Components) \ {<<>>}]
  BY <1>2, <1>3
<1> QED  BY <1>2, <1>3, <1>4, <1>5 DEF Named

LEMMA SameWhere ==
  ASSUME NEW space, NEW table, NEW table2, DOMAIN table2 = DOMAIN table,
         \A i \in DOMAIN table : table2[i].space = table[i].space /\ table2[i].path = table[i].path
  PROVE  Where(table2, space) = Where(table, space)
  BY DEF Where

(* A task that registers.                                                    *)
LEMMA Registers ==
  ASSUME Registered, NEW sender, NEW space \in Spaces, NEW path \in Paths \cup {<<>>},
         NEW tags \in SUBSET Tags, Register1(sender, space, path, tags)
  PROVE  Registered'
<1> DEFINE id == Cardinality(DOMAIN seen) + 1
           row == [space |-> space, path |-> path, tags |-> tags, up |-> FALSE]
           note == [kind |-> "added", up |-> FALSE]
           targets == Listeners(space, path) \cap Live
           told == Notified(id, note, targets)
<1>1. id <= MaxTasks /\ (path # <<>> => Resolve(names[space], path) = NoTask)
  BY DEF Register1
<1>2. /\ entries' = [i \in Live \cup {id} |-> IF i = id THEN row ELSE entries[i]]
      /\ names' = IF path = <<>> THEN names ELSE [names EXCEPT ![space] = Inserted(@, path, id)]
      /\ tagged' = [t \in Tags |-> IF t \in tags THEN tagged[t] \cup {id} ELSE tagged[t]]
      /\ bySub' = [i \in DOMAIN bySub \cup {id} |-> IF i = id THEN {} ELSE bySub[i]]
      /\ seen' = [i \in DOMAIN seen \cup {id} |-> IF i = id THEN Nothing ELSE told[i]]
      /\ subs' = subs
  BY DEF Register1
<1>3. id \in 1..MaxTasks /\ id \notin DOMAIN seen /\ DOMAIN seen \cup {id} = 1..id
  BY <1>1, NextId DEF Registered
<1>4. /\ told \in [DOMAIN seen -> Views]
      /\ \A s \in DOMAIN seen : s \notin targets => told[s] = seen[s]
      /\ \A s \in DOMAIN seen : \A i \in 1..MaxTasks : i # id => told[s][i] = seen[s][i]
      /\ \A s \in DOMAIN seen \cap targets : Noted(seen[s][id], told[s][id], note)
      /\ note \in Notes /\ note.kind = "added" /\ note.up = FALSE
  <2>1. note \in Notes /\ note.kind = "added" /\ note.up = FALSE
    BY DEF Notes
  <2> HIDE DEF id, note, targets
  <2> QED  BY <1>3, <2>1, Notifying DEF Registered
<1>5. row \in Rows /\ path \in Places /\ row.space = space /\ row.path = path /\ row.tags = tags /\ row.up = FALSE
  BY PlacesHold DEF Rows
<1>6. Nothing \in Views /\ Nothing[id].came = 0 /\ \A i \in 1..MaxTasks : Nothing[i].came = 0
  BY <1>3 DEF Views, Nothing
<1>7. Live \subseteq DOMAIN seen /\ id \notin Live /\ DOMAIN bySub = DOMAIN seen
  BY <1>3 DEF Registered, RegistryTypes, Live
<1> HIDE DEF id, row, note, targets, told
<1>8. /\ DOMAIN entries' = Live \cup {id} /\ entries'[id] = row
      /\ \A i \in Live : entries'[i] = entries[i] /\ i # id
      /\ Live' = Live \cup {id}
  BY <1>2, <1>7 DEF Live
<1>9. /\ DOMAIN seen' = DOMAIN seen \cup {id} /\ seen'[id] = Nothing
      /\ \A i \in DOMAIN seen : seen'[i] = told[i] /\ i # id
  BY <1>2, <1>3
<1>10. /\ DOMAIN bySub' = DOMAIN seen \cup {id} /\ bySub'[id] = {}
       /\ \A i \in DOMAIN seen : bySub'[i] = bySub[i]
  BY <1>2, <1>3, <1>7 DEF Noted
<1>11. RegistryTypes'
  <2>1. seen' \in [DOMAIN seen' -> Views]
    BY <1>2, <1>4, <1>6, <1>9
  <2>2. entries' \in [DOMAIN entries' -> Rows]
    BY <1>2, <1>5, <1>8 DEF Registered, RegistryTypes, Live
  <2>3. bySub' \in [DOMAIN seen' -> SUBSET Holdings]
    <3>1. \A i \in DOMAIN seen : bySub[i] \in SUBSET Holdings
      BY DEF Registered, RegistryTypes
    <3> QED  BY <1>2, <1>7, <1>9, <3>1
  <2>4. DOMAIN seen' = 1..id
    BY <1>3, <1>9
  <2>5. /\ subs' = [s \in Spaces |-> subs'[s]] /\ tagged' = [t \in Tags |-> tagged'[t]]
    BY <1>2 DEF Registered, RegistryTypes
  <2>6. names' = [s \in Spaces |-> names'[s]]
    BY <1>2 DEF Registered, RegistryTypes
  <2>7. DOMAIN entries' \subseteq DOMAIN seen'
    BY <1>7, <1>8, <1>9
  <2> QED  BY <1>3, <2>1, <2>2, <2>3, <2>4, <2>5, <2>6, <2>7 DEF RegistryTypes
<1>12. SubsExact'
  <2>1. id \notin DOMAIN bySub
    BY <1>3, <1>7
  <2> QED  BY <1>2, <2>1, SubsSame DEF Registered
<1>13. NamesExact'
  <2> SUFFICES ASSUME NEW other \in Spaces PROVE NameTrie(names'[other], Where(entries', other))
    BY DEF NamesExact, NamesAre
  <2>1. NameTrie(names[other], Where(entries, other)) /\ Where(entries, other) \in Named
    BY WhereIs DEF Registered, NamesExact, NamesAre
  <2>2. CASE path = <<>> \/ other # space
    <3>1. names'[other] = names[other]
      BY <1>2, <2>2 DEF Registered, RegistryTypes
    <3>2. ~(row.space = other /\ row.path # <<>>)
      BY <1>5, <2>2
    <3>3. {i \in DOMAIN entries' : entries'[i].space = other /\ entries'[i].path # <<>>}
            = {i \in DOMAIN entries : entries[i].space = other /\ entries[i].path # <<>>}
      BY <1>8, <3>2 DEF Live
    <3>4. Where(entries', other) = Where(entries, other)
      BY <1>8, <3>3 DEF Where, Live
    <3> QED  BY <2>1, <3>1, <3>4
  <2>3. CASE path # <<>> /\ other = space
    <3> DEFINE at == Where(entries, space)
               to == [i \in DOMAIN at \cup {id} |-> IF i = id THEN path ELSE at[i]]
    <3>1. names'[other] = Inserted(names[space], path, id)
      BY <1>2, <2>3 DEF Registered, RegistryTypes
    <3>2. DOMAIN at = Placed(space) /\ \A i \in Placed(space) : at[i] = entries[i].path
      BY WhereIs DEF Registered
    <3>3. {i \in DOMAIN entries' : entries'[i].space = other /\ entries'[i].path # <<>>} = Placed(space) \cup {id}
      BY <1>5, <1>8, <2>3 DEF Placed, Live
    <3>4. Where(entries', other) = [i \in Placed(space) \cup {id} |-> entries'[i].path]
      BY <3>3 DEF Where
    <3>5. \A i \in Placed(space) : i # id /\ entries'[i].path = entries[i].path
      BY <1>8 DEF Placed
    <3>6. Where(entries', other) = to
      BY <1>5, <1>8, <3>2, <3>4, <3>5
    <3>7. path \in Seq(Components) \ {<<>>} /\ id \in Nat \ {NoTask} /\ id \notin DOMAIN at
      BY <1>3, <1>5, <1>7, <2>3, <3>2, PlacesAreSequences, RegistryAssumption DEF NoTask, Placed
    <3>8. Resolve(names[space], path) = NoTask
      BY <1>1, <2>3
    <3>9. at \in Named /\ NameTrie(names[space], at)
      BY <2>1, <2>3
    <3> DEFINE t == names[space]
    <3> HIDE DEF at, t, to
    <3>10. t = names[space]
      BY DEF t
    <3>11. NameTrie(Inserted(t, path, id), to)
      BY <3>7, <3>8, <3>9, <3>10, Inserting DEF to
    <3> QED  BY <3>1, <3>6, <3>10, <3>11
  <2> QED  BY <2>2, <2>3
<1>14. TagsExact'
  <2> SUFFICES ASSUME NEW tag \in Tags
               PROVE  tagged'[tag] = {i \in Live' : tag \in entries'[i].tags}
    BY DEF TagsExact
  <2>1. tagged[tag] = {i \in Live : tag \in entries[i].tags}
    BY DEF Registered, TagsExact
  <2>2. {i \in Live' : tag \in entries'[i].tags}
          = {i \in Live : tag \in entries[i].tags} \cup (IF tag \in tags THEN {id} ELSE {})
    BY <1>5, <1>8
  <2> QED  BY <1>2, <2>1, <2>2
<1>15. Hearing'
  <2> SUFFICES ASSUME NEW s \in Live', NEW i \in 1..MaxTasks
               PROVE  KnowsOf(seen'[s], entries', bySub'[s], i)
    BY DEF Hearing
  <2>1. CASE s = id
    <3>1. seen'[s][i].came = 0 /\ bySub'[s] = {}
      BY <1>6, <1>9, <1>10, <2>1
    <3> QED  BY <3>1 DEF KnowsOf, HearsIn
  <2>2. ASSUME s \in Live
        PROVE  /\ KnowsOf(seen[s], entries, bySub[s], i) /\ s \in DOMAIN seen
               /\ bySub'[s] = bySub[s] /\ seen'[s] = told[s]
    BY <1>7, <1>9, <1>10, <2>2 DEF Registered, Hearing
  <2>3. CASE s \in Live /\ i # id
    <3>1. seen'[s][i] = seen[s][i]
      BY <1>4, <2>2, <2>3
    <3>2. i \in DOMAIN entries' <=> i \in DOMAIN entries
      BY <1>8, <2>3 DEF Live
    <3>3. i \in DOMAIN entries => entries'[i] = entries[i]
      BY <1>8 DEF Live
    <3>4. HearsIn(entries', bySub[s], i) <=> HearsIn(entries, bySub[s], i)
      BY <3>2, <3>3, HearsSame
    <3>5. HearsIn(entries, bySub[s], i) => i \in DOMAIN entries
      BY DEF HearsIn
    <3> QED  BY <2>2, <2>3, <3>1, <3>3, <3>4, <3>5 DEF KnowsOf
  <2>4. CASE s \in Live /\ i = id
    <3>1. ~HearsIn(entries, bySub[s], id)
      BY <1>7 DEF HearsIn, Live
    <3>2. seen[s][id].came = 0
      BY <2>2, <2>4, <3>1 DEF KnowsOf
    <3>3. HearsIn(entries', bySub'[s], id) <=> path # <<>> /\ \E x \in bySub[s] : Reaches(x, space, path)
      <4>1. id \in DOMAIN entries' /\ entries'[id].path = path /\ entries'[id].space = space
        BY <1>5, <1>8
      <4> QED  BY <2>2, <2>4, <4>1 DEF HearsIn
    <3>4. s \in targets <=> path # <<>> /\ \E x \in bySub[s] : Reaches(x, space, path)
      <4>1. CASE path = <<>>
        BY <4>1 DEF targets, Listeners
      <4>2. CASE path # <<>>
        <5>1. path \in Seq(Components)
          BY <1>5, PlacesAreSequences
        <5>2. s \in Collect(subs[space], path) <=> s \in DOMAIN bySub /\ \E x \in bySub[s] : Reaches(x, space, path)
          BY <5>1, Collected DEF Registered, SubsExact, RegistryTypes
        <5> QED  BY <1>7, <2>4, <4>2, <5>2 DEF targets, Listeners
      <4> QED  BY <4>1, <4>2
    <3>5. entries'[id].up = FALSE
      BY <1>5, <1>8
    <3>6. s \in targets => seen'[s][id] = [came |-> 1, up |-> FALSE]
      <4>1. s \in targets => Noted(seen[s][id], seen'[s][id], note)
        BY <1>4, <2>2, <2>4
      <4>2. s \in targets => seen'[s][id] = [came |-> seen[s][id].came + 1, up |-> FALSE]
        BY <1>4, <4>1 DEF Noted
      <4>3. seen[s][id].came + 1 = 1
        BY <3>2
      <4> QED  BY <4>2, <4>3
    <3>7. s \notin targets => seen'[s][id].came = 0
      BY <1>4, <2>2, <2>4, <3>2
    <3> QED  BY <2>4, <3>3, <3>4, <3>5, <3>6, <3>7 DEF KnowsOf
  <2> QED  BY <1>8, <2>1, <2>3, <2>4
<1> QED  BY <1>11, <1>12, <1>13, <1>14, <1>15 DEF Registered

(* A task that comes up or goes down.                                        *)
LEMMA Changes ==
  ASSUME Registered, NEW id \in Live, ChangesState(id)
  PROVE  Registered'
<1> DEFINE up == ~entries[id].up
           note == [kind |-> "state", up |-> up]
           targets == Listeners(entries[id].space, entries[id].path) \cap Live
           told == Notified(id, note, targets)
           row == [entries[id] EXCEPT !.up = up]
<1>1. /\ entries' = [entries EXCEPT ![id] = row]
      /\ UNCHANGED <<names, tagged, subs, bySub>>
      /\ seen' = told
  BY DEF ChangesState
<1>2. id \in 1..MaxTasks /\ id \in DOMAIN seen /\ Live \subseteq DOMAIN seen /\ entries[id] \in Rows
  BY LiveIs DEF Registered
<1>3. up \in BOOLEAN /\ note \in Notes /\ note.kind = "state" /\ note.up = up
  BY DEF Notes
<1>4. /\ row \in Rows /\ row.space = entries[id].space /\ row.path = entries[id].path
      /\ row.tags = entries[id].tags /\ row.up = up
  BY <1>2, <1>3 DEF Rows
<1> HIDE DEF note, targets, row, up
<1>5. /\ told \in [DOMAIN seen -> Views]
      /\ \A s \in DOMAIN seen : s \notin targets => told[s] = seen[s]
      /\ \A s \in DOMAIN seen : \A i \in 1..MaxTasks : i # id => told[s][i] = seen[s][i]
      /\ \A s \in DOMAIN seen \cap targets : Noted(seen[s][id], told[s][id], note)
  BY <1>2, <1>3, Notifying DEF Registered
<1> HIDE DEF told
<1>6. /\ DOMAIN entries' = DOMAIN entries /\ entries' \in [DOMAIN entries -> Rows] /\ Live' = Live
      /\ entries'[id] = row /\ \A i \in Live : i # id => entries'[i] = entries[i]
  BY <1>1, <1>4 DEF Registered, RegistryTypes, Live
<1>7. \A i \in DOMAIN entries : /\ entries'[i].space = entries[i].space /\ entries'[i].path = entries[i].path
                                /\ entries'[i].tags = entries[i].tags
  BY <1>4, <1>6 DEF Live
<1>8. RegistryTypes'
  BY <1>1, <1>5, <1>6 DEF Registered, RegistryTypes
<1>9. SubsExact'
  BY <1>1, SubsSame DEF Registered
<1>10. NamesExact'
  <2>1. \A space : Where(entries', space) = Where(entries, space)
    BY <1>6, <1>7 DEF Where
  <2> QED  BY <1>1, <2>1 DEF Registered, NamesExact, NamesAre
<1>11. TagsExact'
  BY <1>1, <1>6, <1>7 DEF Registered, TagsExact, Live
<1>12. Hearing'
  <2> SUFFICES ASSUME NEW s \in Live, NEW i \in 1..MaxTasks
               PROVE  KnowsOf(seen'[s], entries', bySub'[s], i)
    BY <1>6 DEF Hearing
  <2>1. /\ KnowsOf(seen[s], entries, bySub[s], i) /\ s \in DOMAIN seen
        /\ bySub'[s] = bySub[s] /\ seen'[s] = told[s]
    BY <1>1, <1>2 DEF Registered, Hearing
  <2>2. HearsIn(entries', bySub[s], i) <=> HearsIn(entries, bySub[s], i)
    BY <1>6, <1>7, HearsSame
  <2>3. CASE i # id
    <3>1. seen'[s][i] = seen[s][i]
      BY <1>5, <2>1, <2>3
    <3>2. HearsIn(entries, bySub[s], i) => entries'[i] = entries[i]
      BY <1>6, <2>3 DEF HearsIn, Live
    <3> QED  BY <2>1, <2>2, <3>1, <3>2 DEF KnowsOf
  <2>4. CASE i = id
    <3>1. s \in targets <=> HearsIn(entries, bySub[s], id)
      BY <2>1, ReachMeansHear DEF Registered, targets
    <3>2. CASE s \in targets
      <4>1. seen[s][id] = [came |-> 1, up |-> entries[id].up]
        BY <2>1, <2>4, <3>1, <3>2 DEF KnowsOf
      <4>2. seen[s][id].came = 1
        BY <4>1
      <4>3. seen'[s][id] = [came |-> seen[s][id].came, up |-> up]
        BY <1>3, <1>5, <2>1, <3>2 DEF Noted
      <4>4. seen'[s][id] = [came |-> 1, up |-> up]
        BY <4>2, <4>3
      <4> QED  BY <1>4, <1>6, <2>1, <2>2, <2>4, <3>1, <3>2, <4>4 DEF KnowsOf
    <3>3. CASE s \notin targets
      <4>1. seen'[s][id].came = 0
        BY <1>5, <2>1, <2>4, <3>1, <3>3 DEF KnowsOf
      <4> QED  BY <2>1, <2>2, <2>4, <3>1, <3>3, <4>1 DEF KnowsOf
    <3> QED  BY <3>2, <3>3
  <2> QED  BY <2>3, <2>4
<1> QED  BY <1>8, <1>9, <1>10, <1>11, <1>12 DEF Registered

(* A task that goes.                                                         *)
LEMMA Goes ==
  ASSUME Registered, NEW sender, NEW id \in Live, Removes(sender, id)
  PROVE  Registered'
<1> DEFINE space == entries[id].space
           path == entries[id].path
           cut == [s \in Spaces |-> SubsWithout(s, id)]
           heard == IF path = <<>> THEN {} ELSE Collect(cut[space], path)
           note == [kind |-> "removed"]
           targets == heard \cap (Live \ {id})
           told == Notified(id, note, targets)
<1>1. /\ entries' = [i \in Live \ {id} |-> entries[i]]
      /\ names' = IF path = <<>> THEN names ELSE [names EXCEPT ![space] = Taken(@, path)]
      /\ tagged' = [t \in Tags |-> tagged[t] \ {id}]
      /\ subs' = cut /\ bySub' = [bySub EXCEPT ![id] = {}]
      /\ seen' = told
  BY DEF Removes
<1>2. id \in 1..MaxTasks /\ id \in DOMAIN seen /\ Live \subseteq DOMAIN seen /\ entries[id] \in Rows
  BY LiveIs DEF Registered
<1>3. note \in Notes /\ note.kind = "removed"
  BY DEF Notes
<1>4. space \in Spaces /\ path \in Places /\ path \in Seq(Components)
  BY <1>2, PlacesAreSequences DEF Rows
<1> HIDE DEF note, targets, heard, space, path
<1>5. /\ told \in [DOMAIN seen -> Views]
      /\ \A s \in DOMAIN seen : s \notin targets => told[s] = seen[s]
      /\ \A s \in DOMAIN seen : \A i \in 1..MaxTasks : i # id => told[s][i] = seen[s][i]
      /\ \A s \in DOMAIN seen \cap targets : Noted(seen[s][id], told[s][id], note)
  BY <1>2, <1>3, Notifying DEF Registered
<1> HIDE DEF told, cut
<1>6. /\ DOMAIN entries' = DOMAIN entries \ {id} /\ Live' = Live \ {id}
      /\ \A i \in DOMAIN entries' : entries'[i] = entries[i]
      /\ entries' \in [DOMAIN entries' -> Rows]
  BY <1>1 DEF Registered, RegistryTypes, Live
<1>7. /\ DOMAIN bySub' = DOMAIN bySub /\ DOMAIN bySub = DOMAIN seen /\ bySub'[id] = {}
      /\ \A s \in DOMAIN bySub : s # id => bySub'[s] = bySub[s]
  BY <1>1, <1>2 DEF Registered, RegistryTypes
<1>8. RegistryTypes'
  <2>1. bySub' \in [DOMAIN seen -> SUBSET Holdings]
    BY <1>1 DEF Registered, RegistryTypes
  <2>2. DOMAIN seen' = DOMAIN seen /\ seen' \in [DOMAIN seen -> Views]
    BY <1>1, <1>5
  <2>3. subs' = [s \in Spaces |-> subs'[s]] /\ tagged' = [t \in Tags |-> tagged'[t]]
    BY <1>1 DEF cut
  <2>4. names' = [s \in Spaces |-> names'[s]]
    BY <1>1 DEF Registered, RegistryTypes
  <2> QED  BY <1>2, <1>6, <2>1, <2>2, <2>3, <2>4 DEF Registered, RegistryTypes, Live
<1>9. SubsExact'
  <2> DEFINE gone == bySub[id]
  <2>1. gone \in SUBSET bySub[id] /\ bySub' = [bySub EXCEPT ![id] = @ \ gone]
    BY <1>1
  <2>2. ASSUME NEW s \in Spaces
        PROVE  \E held :
                 /\ subs'[s] = Unsubscribed(subs[s], held, id) \/ (subs'[s] = subs[s] /\ held = {})
                 /\ \A n : \A m \in Modes : <<s, n, m>> \in bySub[id] => (<<n, m>> \in held <=> <<s, n, m>> \in gone)
    <3> DEFINE held == {<<x[2], x[3]>> : x \in {y \in bySub[id] : y[1] = s}}
    <3>1. subs'[s] = Unsubscribed(subs[s], held, id)
      BY <1>1 DEF cut, SubsWithout
    <3>2. ASSUME NEW n, NEW m \in Modes, <<s, n, m>> \in bySub[id] PROVE <<n, m>> \in held
      BY <3>2
    <3> HIDE DEF held
    <3> QED  BY <3>1, <3>2
  <2> HIDE DEF gone
  <2>3. id \in DOMAIN seen /\ RegistryTypes /\ SubsExact
    BY <1>2 DEF Registered
  <2> QED  BY <2>1, <2>2, <2>3, SubsLess
<1>10. NamesExact'
  <2> SUFFICES ASSUME NEW other \in Spaces PROVE NameTrie(names'[other], Where(entries', other))
    BY DEF NamesExact, NamesAre
  <2>1. NameTrie(names[other], Where(entries, other)) /\ Where(entries, other) \in Named
    BY WhereIs DEF Registered, NamesExact, NamesAre
  <2>2. CASE path = <<>> \/ other # space
    <3>1. names'[other] = names[other]
      BY <1>1, <2>2 DEF Registered, RegistryTypes
    <3>2. {i \in DOMAIN entries' : entries'[i].space = other /\ entries'[i].path # <<>>}
            = {i \in DOMAIN entries : entries[i].space = other /\ entries[i].path # <<>>}
      BY <1>6, <2>2 DEF space, path
    <3>3. Where(entries', other) = Where(entries, other)
      BY <1>6, <3>2 DEF Where
    <3> QED  BY <2>1, <3>1, <3>3
  <2>3. CASE path # <<>> /\ other = space
    <3> DEFINE at == Where(entries, space)
               to == [i \in DOMAIN at \ {id} |-> at[i]]
               t == names[space]
    <3>1. names'[other] = Taken(t, path)
      BY <1>1, <1>4, <2>3 DEF Registered, RegistryTypes
    <3>2. DOMAIN at = Placed(space) /\ \A i \in Placed(space) : at[i] = entries[i].path
      BY WhereIs DEF Registered
    <3>3. {i \in DOMAIN entries' : entries'[i].space = other /\ entries'[i].path # <<>>} = Placed(space) \ {id}
      BY <1>6, <2>3 DEF Placed, Live
    <3>4. Where(entries', other) = [i \in Placed(space) \ {id} |-> entries'[i].path]
      BY <3>3 DEF Where
    <3>5. \A i \in Placed(space) \ {id} : entries'[i].path = entries[i].path
      BY <1>6 DEF Placed, Live
    <3>6. Where(entries', other) = to
      BY <3>2, <3>4, <3>5
    <3>7. id \in Placed(space)
      BY <2>3 DEF Placed, space, path
    <3>8. at[id] = path /\ id \in DOMAIN at
      BY <3>2, <3>7 DEF path
    <3>9. at \in Named /\ NameTrie(t, at)
      BY <2>1, <2>3
    <3> HIDE DEF at, t, to
    <3>10. NameTrie(Taken(t, at[id]), to)
      BY <3>8, <3>9, Taking DEF to
    <3> QED  BY <3>1, <3>6, <3>8, <3>10
  <2> QED  BY <2>2, <2>3
<1>11. TagsExact'
  <2> SUFFICES ASSUME NEW tag \in Tags
               PROVE  tagged'[tag] = {i \in Live' : tag \in entries'[i].tags}
    BY DEF TagsExact
  <2>1. tagged[tag] = {i \in Live : tag \in entries[i].tags}
    BY DEF Registered, TagsExact
  <2>2. {i \in Live' : tag \in entries'[i].tags} = {i \in Live : tag \in entries[i].tags} \ {id}
    BY <1>6 DEF Live
  <2> QED  BY <1>1, <2>1, <2>2
<1>12. Hearing'
  <2> SUFFICES ASSUME NEW s \in Live \ {id}, NEW i \in 1..MaxTasks
               PROVE  KnowsOf(seen'[s], entries', bySub'[s], i)
    BY <1>6 DEF Hearing
  <2>1. /\ KnowsOf(seen[s], entries, bySub[s], i) /\ s \in DOMAIN seen
        /\ bySub'[s] = bySub[s] /\ seen'[s] = told[s]
    BY <1>1, <1>2, <1>7 DEF Registered, Hearing
  <2>2. CASE i # id
    <3>1. seen'[s][i] = seen[s][i]
      BY <1>5, <2>1, <2>2
    <3>2. i \in DOMAIN entries' <=> i \in DOMAIN entries
      BY <1>6, <2>2
    <3>3. i \in DOMAIN entries => entries'[i] = entries[i]
      BY <1>6, <3>2
    <3>4. HearsIn(entries', bySub[s], i) <=> HearsIn(entries, bySub[s], i)
      BY <3>2, <3>3, HearsSame
    <3>5. HearsIn(entries, bySub[s], i) => i \in DOMAIN entries
      BY DEF HearsIn
    <3> QED  BY <2>1, <3>1, <3>3, <3>4, <3>5 DEF KnowsOf
  <2>3. CASE i = id
    <3>1. ~HearsIn(entries', bySub'[s], id)
      BY <1>6 DEF HearsIn
    <3>2. s \in targets <=> HearsIn(entries, bySub[s], id)
      <4>1. CASE path = <<>>
        BY <4>1 DEF targets, heard, HearsIn, path
      <4>2. CASE path # <<>>
        <5>1. s \in Collect(cut[space], path) <=> s \in DOMAIN bySub' /\ \E x \in bySub'[s] : Reaches(x, space, path)
          <6>1. SubsAre(cut, bySub') /\ \A j \in DOMAIN bySub' : bySub'[j] \subseteq Holdings
            BY <1>1, <1>8, <1>9 DEF SubsExact, RegistryTypes
          <6> QED  BY <1>4, <6>1, Collected
        <5>2. HearsIn(entries, bySub[s], id) <=> \E x \in bySub[s] : Reaches(x, space, path)
          BY <4>2 DEF HearsIn, space, path, Live
        <5> QED  BY <1>7, <2>1, <4>2, <5>1, <5>2 DEF targets, heard
      <4> QED  BY <4>1, <4>2
    <3>3. CASE s \in targets
      <4>1. seen[s][id] = [came |-> 1, up |-> entries[id].up]
        BY <2>1, <2>3, <3>2, <3>3 DEF KnowsOf
      <4>2. seen[s][id].came = 1
        BY <4>1
      <4>3. seen'[s][id].came = seen[s][id].came - 1
        BY <1>3, <1>5, <2>1, <3>3 DEF Noted
      <4>4. seen'[s][id].came = 0
        BY <4>2, <4>3
      <4> QED  BY <2>3, <3>1, <4>4 DEF KnowsOf
    <3>4. CASE s \notin targets
      <4>1. seen'[s][id].came = 0
        BY <1>5, <2>1, <2>3, <3>2, <3>4 DEF KnowsOf
      <4> QED  BY <2>3, <3>1, <4>1 DEF KnowsOf
    <3> QED  BY <3>3, <3>4
  <2> QED  BY <2>2, <2>3
<1> QED  BY <1>8, <1>9, <1>10, <1>11, <1>12 DEF Registered

(* Who subscribes is told of what it did not hear of.                        *)
LEMMA Joins ==
  ASSUME Registered, NEW s \in DOMAIN seen, NEW space \in Spaces, NEW path \in Paths \cup {<<>>},
         NEW mode \in Modes, Subscribes(s, space, path, mode)
  PROVE  Registered'
<1> DEFINE replay == {names[space][n] : n \in Replayed(s, space, path, mode)}
           view == [id \in 1..MaxTasks |->
                     IF id \in replay /\ s \in Live
                     THEN Hear(seen[s], id, [kind |-> "added", up |-> entries[id].up])[id] ELSE seen[s][id]]
           new == <<space, path, mode>>
<1>1. /\ subs' = [subs EXCEPT ![space] = Subscribed(@, path, mode, s)]
      /\ bySub' = [bySub EXCEPT ![s] = @ \cup {new}]
      /\ seen' = [seen EXCEPT ![s] = view]
      /\ UNCHANGED <<entries, names, tagged>>
  BY DEF Subscribes
<1>2. path \in Places /\ path \in Seq(Components) /\ new \in Holdings
      /\ new[1] = space /\ new[2] = path /\ new[3] = mode
  BY PlacesHold, PlacesAreSequences DEF Holdings
<1>3. /\ seen[s] \in Views /\ Live \subseteq DOMAIN seen /\ DOMAIN bySub = DOMAIN seen
      /\ \A j \in DOMAIN bySub : bySub[j] \subseteq Holdings
  BY DEF Registered, RegistryTypes, Live
<1>4. ASSUME NEW id \in replay
      PROVE  /\ id \in Live /\ id \in 1..MaxTasks /\ entries[id].space = space /\ entries[id].path # <<>>
             /\ s \notin Collect(subs[space], entries[id].path) /\ Reaches(new, space, entries[id].path)
  <2> DEFINE t == names[space]
             at == Where(entries, space)
  <2>1. PICK n \in Replayed(s, space, path, mode) : id = t[n]
    BY <1>4
  <2>2. n \in DOMAIN t /\ t[n] # NoTask /\ s \notin Collect(subs[space], n) /\ (n = path \/ (mode = "subtree" /\ IsPrefix(path, n)))
    BY <2>1 DEF Replayed, InScope, Descendants
  <2>3. NameTrie(t, at) /\ DOMAIN at = Placed(space) /\ \A i \in Placed(space) : at[i] = entries[i].path
    BY WhereIs DEF Registered, NamesExact, NamesAre
  <2> HIDE DEF t, at
  <2>4. id \in Placed(space) /\ entries[id].path = n
    BY <2>1, <2>2, <2>3 DEF NameTrie
  <2>5. id \in 1..MaxTasks
    BY <2>4, LiveIs DEF Registered, Placed
  <2> QED  BY <1>2, <2>2, <2>4, <2>5 DEF Placed, Reaches
<1>5. ASSUME NEW id \in Placed(space), Reaches(new, space, entries[id].path),
             s \notin Collect(subs[space], entries[id].path)
      PROVE  id \in replay
  <2> DEFINE t == names[space]
             at == Where(entries, space)
             n == entries[id].path
  <2>1. NameTrie(t, at) /\ at \in Named /\ DOMAIN at = Placed(space) /\ at[id] = n
    BY WhereIs DEF Registered, NamesExact, NamesAre
  <2>2. n \in DOMAIN t /\ t[n] = id /\ id # NoTask
    <3> HIDE DEF t, at, n
    <3> QED  BY <2>1, NodesAre DEF NameTrie
  <2>3. n = path \/ (mode = "subtree" /\ IsPrefix(path, n))
    BY <1>2, <1>5 DEF Reaches
  <2>4. n \in Replayed(s, space, path, mode)
    BY <1>5, <2>2, <2>3 DEF Replayed, InScope, Descendants
  <2> QED  BY <2>2, <2>4
<1>6. ASSUME NEW id \in 1..MaxTasks
      PROVE  /\ id \in replay /\ s \in Live => view[id] = [came |-> seen[s][id].came + 1, up |-> entries[id].up]
             /\ ~(id \in replay /\ s \in Live) => view[id] = seen[s][id]
             /\ view[id] \in [came : Int, up : BOOLEAN]
  <2>1. seen[s][id] \in [came : Int, up : BOOLEAN]
    BY <1>3 DEF Views
  <2>2. ~(id \in replay /\ s \in Live) => view[id] = seen[s][id]
    OBVIOUS
  <2>3. ASSUME id \in replay, s \in Live
        PROVE  /\ view[id] = [came |-> seen[s][id].came + 1, up |-> entries[id].up]
               /\ view[id] \in [came : Int, up : BOOLEAN]
    <3> DEFINE note == [kind |-> "added", up |-> entries[id].up]
               old == seen[s]
    <3>1. entries[id].up \in BOOLEAN
      BY <1>4, <2>3, LiveIs DEF Registered, Rows
    <3>2. note \in Notes /\ note.kind = "added" /\ note.up = entries[id].up
      BY <3>1 DEF Notes
    <3>3. view[id] = Hear(old, id, note)[id]
      BY <2>3
    <3>4. old \in Views
      BY <1>3
    <3> HIDE DEF note, old, view
    <3>5. Noted(old[id], Hear(old, id, note)[id], note)
      BY <3>2, <3>4, HearingIs
    <3>6. view[id] = [came |-> old[id].came + 1, up |-> entries[id].up]
      BY <3>2, <3>3, <3>5 DEF Noted
    <3>7. old[id] = seen[s][id]
      BY DEF old
    <3> HIDE DEF replay
    <3> QED  BY <2>1, <3>1, <3>6, <3>7
  <2> HIDE DEF view, replay
  <2> QED  BY <2>1, <2>2, <2>3
<1>7. view \in Views
  <2>1. view = [id \in 1..MaxTasks |-> view[id]]
    OBVIOUS
  <2> HIDE DEF view
  <2> QED  BY <1>6, <2>1 DEF Views
<1> HIDE DEF view, replay, new
<1>8. /\ DOMAIN bySub' = DOMAIN bySub
      /\ bySub'[s] = bySub[s] \cup {new}
      /\ \A j \in DOMAIN bySub : j # s => bySub'[j] = bySub[j]
      /\ bySub' \in [DOMAIN seen -> SUBSET Holdings]
  BY <1>1, <1>2, <1>3 DEF Registered, RegistryTypes
<1>9. /\ DOMAIN seen' = DOMAIN seen /\ seen'[s] = view
      /\ \A j \in DOMAIN seen : j # s => seen'[j] = seen[j]
      /\ seen' \in [DOMAIN seen -> Views]
  BY <1>1, <1>7 DEF Registered, RegistryTypes
<1>10. RegistryTypes'
  <2>1. subs' = [j \in Spaces |-> subs'[j]]
    BY <1>1 DEF Registered, RegistryTypes
  <2> QED  BY <1>1, <1>8, <1>9, <2>1 DEF Registered, RegistryTypes
<1>11. SubsExact'
  <2>1. RegistryTypes /\ SubsExact
    BY DEF Registered
  <2> QED  BY <1>1, <1>2, <2>1, SubsMore DEF new
<1>12. NamesExact'
  BY <1>1 DEF Registered, NamesExact
<1>13. TagsExact'
  BY <1>1 DEF Registered, TagsExact, Live
<1>14. Hearing'
  <2>1. Live' = Live /\ entries' = entries
    BY <1>1 DEF Live
  <2> SUFFICES ASSUME NEW j \in Live, NEW id \in 1..MaxTasks
               PROVE  KnowsOf(seen'[j], entries, bySub'[j], id)
    BY <2>1 DEF Hearing
  <2>2. KnowsOf(seen[j], entries, bySub[j], id) /\ j \in DOMAIN seen
    BY <1>3 DEF Registered, Hearing
  <2>3. CASE j # s
    BY <1>3, <1>8, <1>9, <2>2, <2>3
  <2>4. CASE j = s /\ id \in replay
    <3>1. id \in Live /\ entries[id].space = space /\ entries[id].path # <<>>
          /\ s \notin Collect(subs[space], entries[id].path) /\ Reaches(new, space, entries[id].path)
      BY <1>4, <2>4
    <3>2. ~HearsIn(entries, bySub[s], id)
      BY <1>3, <2>4, <3>1, ReachMeansHear DEF Registered, Listeners
    <3>3. HearsIn(entries, bySub'[s], id)
      BY <1>8, <3>1 DEF HearsIn, Live
    <3>4. seen[s][id].came = 0
      BY <2>2, <2>4, <3>2 DEF KnowsOf
    <3>5. seen'[s][id] = [came |-> seen[s][id].came + 1, up |-> entries[id].up]
      BY <1>6, <1>9, <2>4
    <3>6. seen[s][id].came + 1 = 1
      BY <3>4
    <3> QED  BY <2>4, <3>3, <3>5, <3>6 DEF KnowsOf
  <2>5. CASE j = s /\ id \notin replay
    <3>1. seen'[s][id] = seen[s][id]
      BY <1>6, <1>9, <2>5
    <3>2. HearsIn(entries, bySub'[s], id) <=> HearsIn(entries, bySub[s], id)
      <4>1. ASSUME HearsIn(entries, bySub'[s], id), ~HearsIn(entries, bySub[s], id) PROVE FALSE
        <5>1. /\ id \in Live /\ entries[id].path # <<>>
              /\ Reaches(new, entries[id].space, entries[id].path)
          BY <1>8, <4>1 DEF HearsIn, Live
        <5>2. entries[id].space = space
          BY <1>2, <5>1 DEF Reaches
        <5>3. s \notin Collect(subs[space], entries[id].path)
          BY <1>3, <2>5, <4>1, <5>1, <5>2, ReachMeansHear DEF Registered, Listeners
        <5>4. id \in replay
          BY <1>5, <5>1, <5>2, <5>3 DEF Placed
        <5> QED  BY <2>5, <5>4
      <4>2. HearsIn(entries, bySub[s], id) => HearsIn(entries, bySub'[s], id)
        BY <1>8 DEF HearsIn
      <4> QED  BY <4>1, <4>2
    <3> QED  BY <2>2, <2>5, <3>1, <3>2 DEF KnowsOf
  <2> QED  BY <2>3, <2>4, <2>5
<1> QED  BY <1>10, <1>11, <1>12, <1>13, <1>14 DEF Registered

(* Who gives a subscription up forgets what it will not hear of.             *)
LEMMA Leaves ==
  ASSUME Registered, NEW s \in DOMAIN seen, NEW space \in Spaces, NEW path \in Paths \cup {<<>>},
         NEW mode \in Modes, Unsubscribes(s, space, path, mode)
  PROVE  Registered'
<1> DEFINE t == Unsubscribed(subs[space], {<<path, mode>>}, s)
           still(id) == id \in Live /\ entries[id].path # <<>>
                        /\ (entries[id].space = space => s \in Collect(t, entries[id].path))
           view == [id \in 1..MaxTasks |-> IF still(id) THEN seen[s][id] ELSE Nothing[id]]
           old == <<space, path, mode>>
<1>1. /\ subs' = [subs EXCEPT ![space] = t]
      /\ bySub' = [bySub EXCEPT ![s] = @ \ {old}]
      /\ seen' = [seen EXCEPT ![s] = view]
      /\ UNCHANGED <<entries, names, tagged>>
  BY DEF Unsubscribes
<1>2. path \in Places /\ old[1] = space
  BY PlacesHold
<1>3. /\ seen[s] \in Views /\ Live \subseteq DOMAIN seen /\ DOMAIN bySub = DOMAIN seen
      /\ \A j \in DOMAIN bySub : bySub[j] \subseteq Holdings
  BY DEF Registered, RegistryTypes, Live
<1>4. \A id \in 1..MaxTasks : view[id] = IF still(id) THEN seen[s][id] ELSE Nothing[id]
  OBVIOUS
<1>5. view \in Views
  <2>1. \A id \in 1..MaxTasks : seen[s][id] \in [came : Int, up : BOOLEAN] /\ Nothing[id] \in [came : Int, up : BOOLEAN]
    BY <1>3 DEF Views, Nothing
  <2>2. \A id \in 1..MaxTasks : view[id] \in [came : Int, up : BOOLEAN]
    <3> HIDE DEF still, view
    <3> QED  BY <1>4, <2>1
  <2>3. view = [id \in 1..MaxTasks |-> view[id]]
    OBVIOUS
  <2> HIDE DEF view
  <2> QED  BY <2>2, <2>3 DEF Views
<1>6. \A id : still(id) <=> id \in Live /\ entries[id].path # <<>>
                             /\ (entries[id].space = space => s \in Collect(t, entries[id].path))
  OBVIOUS
<1> HIDE DEF t, still, view, old
<1>7. /\ DOMAIN bySub' = DOMAIN bySub
      /\ bySub'[s] = bySub[s] \ {old}
      /\ \A j \in DOMAIN bySub : j # s => bySub'[j] = bySub[j]
      /\ bySub' \in [DOMAIN seen -> SUBSET Holdings]
  BY <1>1, <1>3 DEF Registered, RegistryTypes
<1>8. /\ DOMAIN seen' = DOMAIN seen /\ seen'[s] = view
      /\ \A j \in DOMAIN seen : j # s => seen'[j] = seen[j]
      /\ seen' \in [DOMAIN seen -> Views]
  BY <1>1, <1>5 DEF Registered, RegistryTypes
<1>9. RegistryTypes'
  <2>1. subs' = [j \in Spaces |-> subs'[j]]
    BY <1>1 DEF Registered, RegistryTypes
  <2> QED  BY <1>1, <1>7, <1>8, <2>1 DEF Registered, RegistryTypes
<1>10. subs'[space] = t
  BY <1>1 DEF Registered, RegistryTypes
<1>11. SubsExact'
  <2> DEFINE gone == bySub[s] \cap {old}
  <2>1. gone \in SUBSET bySub[s] /\ bySub' = [bySub EXCEPT ![s] = @ \ gone]
    BY <1>1
  <2>2. ASSUME NEW other \in Spaces
        PROVE  \E held :
                 /\ subs'[other] = Unsubscribed(subs[other], held, s) \/ (subs'[other] = subs[other] /\ held = {})
                 /\ \A n : \A m \in Modes : <<other, n, m>> \in bySub[s] => (<<n, m>> \in held <=> <<other, n, m>> \in gone)
    <3>1. CASE other = space
      <4>1. subs'[other] = Unsubscribed(subs[other], {<<path, mode>>}, s)
        BY <1>10, <3>1 DEF t
      <4>2. \A n : \A m \in Modes : <<other, n, m>> \in bySub[s] => (<<n, m>> \in {<<path, mode>>} <=> <<other, n, m>> \in gone)
        BY <3>1 DEF old
      <4> QED  BY <4>1, <4>2
    <3>2. CASE other # space
      <4> DEFINE none == {n \in {} : TRUE}
      <4>1. subs'[other] = subs[other] /\ none = {}
        BY <1>1, <3>2 DEF Registered, RegistryTypes
      <4>2. \A n : \A m \in Modes : <<n, m>> \notin none /\ <<other, n, m>> \notin gone
        BY <3>2 DEF old
      <4> HIDE DEF gone, none
      <4> QED  BY <4>1, <4>2
    <3> QED  BY <3>1, <3>2
  <2> HIDE DEF gone
  <2>3. RegistryTypes /\ SubsExact
    BY DEF Registered
  <2> QED  BY <2>1, <2>2, <2>3, SubsLess
<1>12. NamesExact'
  BY <1>1 DEF Registered, NamesExact
<1>13. TagsExact'
  BY <1>1 DEF Registered, TagsExact, Live
<1>14. Hearing'
  <2>1. Live' = Live /\ entries' = entries
    BY <1>1 DEF Live
  <2> SUFFICES ASSUME NEW j \in Live, NEW id \in 1..MaxTasks
               PROVE  KnowsOf(seen'[j], entries, bySub'[j], id)
    BY <2>1 DEF Hearing
  <2>2. KnowsOf(seen[j], entries, bySub[j], id) /\ j \in DOMAIN seen
    BY <1>3 DEF Registered, Hearing
  <2>3. CASE j # s
    BY <1>3, <1>7, <1>8, <2>2, <2>3
  <2>4. ASSUME id \in Live
        PROVE  s \in Collect(t, entries[id].path) /\ entries[id].space = space
                 <=> entries[id].space = space /\ \E x \in bySub'[s] : Reaches(x, entries[id].space, entries[id].path)
    <3>1. entries[id].path \in Seq(Components)
      BY <2>4, PlacesAreSequences, LiveIs DEF Registered, Rows
    <3>2. SubsAre(subs', bySub') /\ \A i \in DOMAIN bySub' : bySub'[i] \subseteq Holdings
      BY <1>7, <1>11 DEF SubsExact
    <3>3. s \in Collect(subs'[space], entries[id].path)
            <=> s \in DOMAIN bySub' /\ \E x \in bySub'[s] : Reaches(x, space, entries[id].path)
      BY <3>1, <3>2, Collected
    <3> QED  BY <1>3, <1>7, <1>10, <3>3
  <2>5. CASE j = s /\ HearsIn(entries, bySub'[s], id)
    <3>1. id \in Live /\ entries[id].path # <<>> /\ \E x \in bySub'[s] : Reaches(x, entries[id].space, entries[id].path)
      BY <2>5 DEF HearsIn, Live
    <3>2. still(id)
      BY <1>6, <2>4, <3>1
    <3>3. HearsIn(entries, bySub[s], id)
      BY <1>7, <2>5 DEF HearsIn
    <3>4. seen'[s][id] = seen[s][id]
      BY <1>4, <1>8, <3>2
    <3> QED  BY <2>2, <2>5, <3>3, <3>4 DEF KnowsOf
  <2>6. CASE j = s /\ ~HearsIn(entries, bySub'[s], id) /\ still(id)
    <3>1. id \in Live /\ entries[id].path # <<>> /\ (entries[id].space = space => s \in Collect(t, entries[id].path))
      BY <1>6, <2>6
    <3>2. entries[id].space # space
      BY <2>4, <2>6, <3>1 DEF HearsIn, Live
    <3>3. ~Reaches(old, entries[id].space, entries[id].path)
      BY <1>2, <3>2 DEF Reaches
    <3>4. ~HearsIn(entries, bySub[s], id)
      BY <1>7, <2>6, <3>3 DEF HearsIn
    <3>5. seen'[s][id] = seen[s][id]
      BY <1>4, <1>8, <2>6
    <3> QED  BY <2>2, <2>6, <3>4, <3>5 DEF KnowsOf
  <2>7. CASE j = s /\ ~HearsIn(entries, bySub'[s], id) /\ ~still(id)
    <3>1. seen'[s][id] = Nothing[id]
      BY <1>4, <1>8, <2>7
    <3>2. Nothing[id].came = 0
      BY DEF Nothing
    <3> QED  BY <2>7, <3>1, <3>2 DEF KnowsOf
  <2> QED  BY <2>3, <2>5, <2>6, <2>7
<1> QED  BY <1>9, <1>11, <1>12, <1>13, <1>14 DEF Registered

LEMMA RegisteredSame ==
  ASSUME Registered, UNCHANGED <<entries, names, tagged, subs, bySub, seen>>
  PROVE  Registered'
<1>1. RegistryTypes'
  BY DEF Registered, RegistryTypes
<1>2. SubsExact' /\ NamesExact'
  BY DEF Registered, SubsExact, NamesExact
<1>3. TagsExact' /\ Hearing'
  BY DEF Registered, TagsExact, Hearing, Live
<1> QED  BY <1>1, <1>2, <1>3 DEF Registered

(* The runner registers the first task under the console's path.             *)
LEMMA StartsRegistered ==
  ASSUME RegistryInit
  PROVE  Registered
<1> DEFINE row == [space |-> Reserved, path |-> Console, tags |-> {}, up |-> FALSE]
<1>1. /\ entries = [id \in {1} |-> row]
      /\ names = [s \in Spaces |-> IF s = Reserved THEN Inserted(NoTrie(NoTask), Console, 1) ELSE NoTrie(NoTask)]
      /\ tagged = [t \in Tags |-> {}]
      /\ subs = [s \in Spaces |-> NoTrie(NoSubs)]
      /\ bySub = [s \in {1} |-> {}]
      /\ seen = [s \in {1} |-> Nothing]
  BY DEF RegistryInit
<1>2. row \in Rows /\ row.space = Reserved /\ row.path = Console /\ row.tags = {} /\ row.up = FALSE
  BY RegistryAssumption, PlacesHold DEF Rows
<1>3. Console \in Seq(Components) \ {<<>>} /\ MaxTasks \in Nat \ {0}
  BY RegistryAssumption, PlacesHold, PlacesAreSequences
<1> HIDE DEF row
<1>4. Live = {1} /\ DOMAIN seen = {1} /\ DOMAIN bySub = {1} /\ entries[1] = row /\ bySub[1] = {} /\ seen[1] = Nothing
  BY <1>1 DEF Live
<1>5. Nothing \in Views /\ \A id \in 1..MaxTasks : Nothing[id].came = 0
  BY DEF Nothing, Views
<1>6. RegistryTypes
  <2>1. 1 \in 1..MaxTasks /\ DOMAIN seen = 1..1
    BY <1>3, <1>4
  <2>2. entries \in [DOMAIN entries -> Rows] /\ DOMAIN entries \subseteq DOMAIN seen
    BY <1>1, <1>2
  <2>3. seen \in [DOMAIN seen -> Views]
    BY <1>1, <1>5
  <2>4. bySub \in [DOMAIN seen -> SUBSET Holdings]
    BY <1>1
  <2>5. subs = [s \in Spaces |-> subs[s]] /\ names = [s \in Spaces |-> names[s]] /\ tagged = [t \in Tags |-> tagged[t]]
    BY <1>1
  <2> QED  BY <2>1, <2>2, <2>3, <2>4, <2>5 DEF RegistryTypes
<1>7. SubsExact
  <2> SUFFICES ASSUME NEW space \in Spaces
               PROVE  /\ IsSubTrie(subs[space])
                      /\ \A n : \A mode \in Modes :
                           At(subs[space], n, mode) = {s \in DOMAIN bySub : <<space, n, mode>> \in bySub[s]}
    BY DEF SubsExact, SubsAre
  <2> DEFINE t == subs[space]
  <2>1. DOMAIN t = {<<>>} /\ \A n \in DOMAIN t : t[n] = NoSubs
    BY <1>1 DEF NoTrie
  <2> HIDE DEF t
  <2>2. IsSubTrie(t)
    BY <2>1, EmptySeq DEF IsSubTrie, NoSubs
  <2>3. \A n : \A mode \in Modes : At(t, n, mode) = {}
    BY <2>1 DEF At, NoSubs
  <2>4. \A x : {s \in DOMAIN bySub : x \in bySub[s]} = {}
    BY <1>4
  <2> QED  BY <2>2, <2>3, <2>4 DEF t
<1>8. NamesExact
  <2> SUFFICES ASSUME NEW space \in Spaces PROVE NameTrie(names[space], Where(entries, space))
    BY DEF NamesExact, NamesAre
  <2> DEFINE none == [i \in {} |-> Console]
             t == NoTrie(NoTask)
  <2>1. DOMAIN t = {<<>>} /\ t[<<>>] = NoTask /\ t = [n \in DOMAIN t |-> t[n]]
    BY DEF NoTrie
  <2>2. DOMAIN none = {} /\ none \in Named
    <3>1. none \in [{} -> Seq(Components) \ {<<>>}] /\ {} \in SUBSET (Nat \ {NoTask}) /\ DOMAIN none = {}
      OBVIOUS
    <3> HIDE DEF none
    <3> QED  BY <3>1 DEF Named
  <2>3. NameTrie(t, none)
    <3> HIDE DEF t, none
    <3>1. UNION {Above(none[i]) : i \in DOMAIN none} = {}
      BY <2>2
    <3> QED  BY <2>1, <2>2, <3>1 DEF NameTrie
  <2>4. CASE space # Reserved
    <3>1. names[space] = t
      BY <1>1, <2>4
    <3>2. {i \in DOMAIN entries : entries[i].space = space /\ entries[i].path # <<>>} = {}
      BY <1>1, <1>2, <2>4
    <3>3. Where(entries, space) = none
      BY <3>2 DEF Where
    <3> HIDE DEF t, none
    <3> QED  BY <2>3, <3>1, <3>3
  <2>5. CASE space = Reserved
    <3> DEFINE to == [i \in DOMAIN none \cup {1} |-> IF i = 1 THEN Console ELSE none[i]]
    <3>1. names[space] = Inserted(t, Console, 1)
      BY <1>1, <2>5
    <3>2. {i \in DOMAIN entries : entries[i].space = space /\ entries[i].path # <<>>} = {1}
      BY <1>1, <1>2, <1>3, <2>5
    <3>3. Where(entries, space) = [i \in {1} |-> Console]
      BY <1>2, <1>4, <3>2 DEF Where
    <3>4. to = [i \in {1} |-> Console]
      OBVIOUS
    <3>5. Resolve(t, Console) = NoTask
      BY <2>1 DEF Resolve
    <3>6. 1 \in Nat \ {NoTask} /\ 1 \notin DOMAIN none
      BY <2>2 DEF NoTask
    <3> HIDE DEF t, none, to
    <3>7. NameTrie(Inserted(t, Console, 1), to)
      BY <1>3, <2>2, <2>3, <3>5, <3>6, Inserting DEF to
    <3> QED  BY <3>1, <3>3, <3>4, <3>7
  <2> QED  BY <2>4, <2>5
<1>9. TagsExact
  BY <1>1, <1>2, <1>4 DEF TagsExact
<1>10. Hearing
  <2> SUFFICES ASSUME NEW id \in 1..MaxTasks PROVE KnowsOf(seen[1], entries, bySub[1], id)
    BY <1>4 DEF Hearing
  <2> QED  BY <1>4, <1>5 DEF KnowsOf, HearsIn
<1> QED  BY <1>6, <1>7, <1>8, <1>9, <1>10 DEF Registered

LEMMA AlwaysRegistered == RegistrySpec => []Registered
<1>1. RegistryInit => Registered
  BY StartsRegistered
<1>2. ASSUME Registered, [RegistryNext]_registryVars PROVE Registered'
  <2>1. CASE UNCHANGED registryVars
    BY <1>2, <2>1, RegisteredSame DEF registryVars
  <2>2. CASE ChecksWatches
    BY <1>2, <2>2, RegisteredSame DEF ChecksWatches
  <2>3. ASSUME NEW sender \in Live, NEW space \in Spaces, NEW path \in Paths \cup {<<>>},
               NEW tags \in SUBSET Tags, Register1(sender, space, path, tags)
        PROVE  Registered'
    BY <1>2, <2>3, Registers
  <2>4. ASSUME NEW id \in Live, ChangesState(id) PROVE Registered'
    BY <1>2, <2>4, Changes
  <2>5. ASSUME NEW sender \in DOMAIN seen, NEW id \in Live, Removes(sender, id) PROVE Registered'
    BY <1>2, <2>5, Goes
  <2>6. ASSUME NEW s \in DOMAIN seen, NEW space \in Spaces, NEW path \in Paths \cup {<<>>},
               NEW mode \in Modes, Subscribes(s, space, path, mode)
        PROVE  Registered'
    BY <1>2, <2>6, Joins
  <2>7. ASSUME NEW s \in DOMAIN seen, NEW space \in Spaces, NEW path \in Paths \cup {<<>>},
               NEW mode \in Modes, Unsubscribes(s, space, path, mode)
        PROVE  Registered'
    BY <1>2, <2>7, Leaves
  <2>8. ASSUME NEW sel \in Selectors, Watch(sel) PROVE Registered'
    BY <1>2, <2>8, RegisteredSame DEF Watch
  <2>9. ASSUME NEW k \in DOMAIN watches, StopsWatching(k) PROVE Registered'
    BY <1>2, <2>9, RegisteredSame DEF StopsWatching
  <2> QED  BY <1>2, <2>1, <2>2, <2>3, <2>4, <2>5, <2>6, <2>7, <2>8, <2>9 DEF RegistryNext
<1> QED  BY <1>1, <1>2, PTL DEF RegistrySpec

(* A subscriber knows each task it subscribed to once, in the state it is in, *)
(* and no other, whatever came, went and was subscribed to in whatever order  *)
(* (Graph::subscribe and notify_subscribers, kernel.rs:252 and 1260).           *)
THEOREM SubscribersAreTold == RegistrySpec => []SubscribersHear
<1>1. Registered => SubscribersHear
  BY HearingMeans DEF Registered
<1> QED  BY <1>1, AlwaysRegistered, PTL

-----------------------------------------------------------------------------
(* Globs.  From a node of depth k, and the ith component of the pattern on,   *)
(* the rest of a path fits.                                                  *)
FitsAt(pattern, i, k, path) ==
  \E cut \in [0..Len(pattern) -> 0..Len(path)] :
    /\ cut[i-1] = k /\ cut[Len(pattern)] = Len(path)
    /\ \A j \in i..Len(pattern) : Stands(pattern[j], path, cut[j-1], cut[j])

LEMMA FitsSteps ==
  ASSUME NEW pattern, Len(pattern) \in Nat, NEW path, Len(path) \in Nat,
         NEW k \in 0..Len(path), NEW i \in 1..Len(pattern)
  PROVE  /\ pattern[i] = "**" => (FitsAt(pattern, i, k, path)
              <=> FitsAt(pattern, i + 1, k, path) \/ (k < Len(path) /\ FitsAt(pattern, i, k + 1, path)))
         /\ pattern[i] # "**" => (FitsAt(pattern, i, k, path)
              <=> /\ k < Len(path) /\ (pattern[i] = "*" \/ pattern[i] = path[k + 1])
                  /\ FitsAt(pattern, i + 1, k + 1, path))
<1> DEFINE L == Len(pattern)
           N == Len(path)
           Cuts == [0..L -> 0..N]
           From(c, a, d) == c[a-1] = d /\ c[L] = N /\ \A j \in a..L : Stands(pattern[j], path, c[j-1], c[j])
<1>1. L \in Nat /\ N \in Nat
  OBVIOUS
<1>2. \A a : \A d : FitsAt(pattern, a, d, path) <=> \E c \in Cuts : From(c, a, d)
  BY DEF FitsAt
<1>3. ASSUME NEW d, NEW c \in Cuts, From(c, i, d)
      PROVE  /\ c[i] \in 0..N /\ Stands(pattern[i], path, d, c[i]) /\ From(c, i + 1, c[i])
  <2>1. \A j \in (i+1)..L : j \in i..L
    BY <1>1
  <2>2. i \in i..L /\ i \in 0..L /\ (i + 1) - 1 = i
    BY <1>1
  <2> QED  BY <1>3, <2>1, <2>2
\* What is put before a cut is a cut.
<1>4. ASSUME NEW c \in Cuts, NEW e \in 0..N, From(c, i + 1, e), NEW d \in 0..N, Stands(pattern[i], path, d, e)
      PROVE  FitsAt(pattern, i, d, path)
  <2> DEFINE b == [c EXCEPT ![i-1] = d]
  <2>1. i - 1 \in 0..L /\ (i + 1) - 1 = i /\ i # i - 1 /\ L # i - 1 /\ i \in 0..L /\ L \in 0..L
    BY <1>1
  <2>2. b \in Cuts /\ b[i-1] = d /\ \A j \in 0..L : j # i - 1 => b[j] = c[j]
    BY <2>1
  <2> HIDE DEF b
  <2>3. b[L] = N /\ b[i] = e
    BY <1>4, <2>1, <2>2
  <2>4. ASSUME NEW j \in i..L PROVE Stands(pattern[j], path, b[j-1], b[j])
    <3>1. CASE j = i
      BY <1>4, <2>2, <2>3, <3>1
    <3>2. CASE j # i
      <4>1. j \in (i+1)..L /\ j \in 0..L /\ j - 1 \in 0..L /\ j # i - 1 /\ j - 1 # i - 1
        BY <1>1, <3>2
      <4>2. b[j] = c[j] /\ b[j-1] = c[j-1]
        BY <2>2, <4>1
      <4> QED  BY <1>4, <4>1, <4>2
    <3> QED  BY <3>1, <3>2
  <2> QED  BY <1>2, <2>2, <2>3, <2>4
<1> HIDE DEF From, Cuts, L, N
<1>5. k \in 0..N /\ N = Len(path)
  BY DEF N
<1>6. ASSUME pattern[i] = "**"
      PROVE  FitsAt(pattern, i, k, path)
               <=> FitsAt(pattern, i + 1, k, path) \/ (k < N /\ FitsAt(pattern, i, k + 1, path))
  <2>1. \A a : \A b : Stands(pattern[i], path, a, b) <=> a <= b
    BY <1>6 DEF Stands
  <2>2. ASSUME FitsAt(pattern, i, k, path)
        PROVE  FitsAt(pattern, i + 1, k, path) \/ (k < N /\ FitsAt(pattern, i, k + 1, path))
    <3>1. PICK c \in Cuts : From(c, i, k)
      BY <1>2, <2>2
    <3>2. c[i] \in 0..N /\ k <= c[i] /\ From(c, i + 1, c[i])
      BY <1>3, <2>1, <3>1
    <3>3. CASE c[i] = k
      BY <1>2, <3>2, <3>3
    <3>4. CASE c[i] # k
      <4>1. k + 1 \in 0..N /\ k + 1 <= c[i] /\ k < N
        BY <1>1, <1>5, <3>2, <3>4
      <4>2. FitsAt(pattern, i, k + 1, path)
        BY <1>4, <2>1, <3>2, <4>1
      <4> QED  BY <4>1, <4>2
    <3> QED  BY <3>3, <3>4
  <2>3. ASSUME FitsAt(pattern, i + 1, k, path) PROVE FitsAt(pattern, i, k, path)
    <3>1. PICK c \in Cuts : From(c, i + 1, k)
      BY <1>2, <2>3
    <3>2. k <= k
      BY <1>1, <1>5
    <3> QED  BY <1>4, <1>5, <2>1, <3>1, <3>2
  <2>4. ASSUME k < N, FitsAt(pattern, i, k + 1, path) PROVE FitsAt(pattern, i, k, path)
    <3>1. PICK c \in Cuts : From(c, i, k + 1)
      BY <1>2, <2>4
    <3>2. c[i] \in 0..N /\ From(c, i + 1, c[i]) /\ k + 1 <= c[i]
      BY <1>3, <2>1, <3>1
    <3>3. k <= c[i]
      BY <1>1, <1>5, <3>2
    <3> QED  BY <1>4, <1>5, <2>1, <3>2, <3>3
  <2> QED  BY <2>2, <2>3, <2>4
<1>7. ASSUME pattern[i] # "**"
      PROVE  FitsAt(pattern, i, k, path)
               <=> /\ k < N /\ (pattern[i] = "*" \/ pattern[i] = path[k + 1])
                   /\ FitsAt(pattern, i + 1, k + 1, path)
  <2>1. \A a : \A b : Stands(pattern[i], path, a, b) <=> b = a + 1 /\ (pattern[i] = "*" \/ pattern[i] = path[b])
    BY <1>7 DEF Stands
  <2>2. ASSUME FitsAt(pattern, i, k, path)
        PROVE  /\ k < N /\ (pattern[i] = "*" \/ pattern[i] = path[k + 1])
               /\ FitsAt(pattern, i + 1, k + 1, path)
    <3>1. PICK c \in Cuts : From(c, i, k)
      BY <1>2, <2>2
    <3>2. c[i] \in 0..N /\ c[i] = k + 1 /\ (pattern[i] = "*" \/ pattern[i] = path[c[i]]) /\ From(c, i + 1, c[i])
      BY <1>3, <2>1, <3>1
    <3>3. k < N
      BY <1>1, <1>5, <3>2
    <3> QED  BY <1>2, <3>2, <3>3
  <2>3. ASSUME k < N, pattern[i] = "*" \/ pattern[i] = path[k + 1], FitsAt(pattern, i + 1, k + 1, path)
        PROVE  FitsAt(pattern, i, k, path)
    <3>1. PICK c \in Cuts : From(c, i + 1, k + 1)
      BY <1>2, <2>3
    <3>2. k + 1 \in 0..N /\ Stands(pattern[i], path, k, k + 1)
      BY <1>1, <1>5, <2>1, <2>3
    <3> QED  BY <1>4, <1>5, <3>1, <3>2
  <2> QED  BY <2>2, <2>3
<1> QED  BY <1>6, <1>7 DEF N

LEMMA FitsLast ==
  ASSUME NEW pattern, Len(pattern) \in Nat, NEW path, Len(path) \in Nat, NEW k \in 0..Len(path)
  PROVE  FitsAt(pattern, Len(pattern) + 1, k, path) <=> k = Len(path)
<1> DEFINE L == Len(pattern)
           N == Len(path)
           c == [j \in 0..L |-> N]
<1>1. (L + 1) - 1 = L /\ L \in 0..L /\ N \in 0..N /\ ~\E j \in (L + 1)..L : TRUE
  OBVIOUS
<1>2. c \in [0..L -> 0..N] /\ c[L] = N
  BY <1>1
<1> HIDE DEF c
<1>3. FitsAt(pattern, L + 1, k, path) => k = N
  BY <1>1 DEF FitsAt
<1>4. k = N => FitsAt(pattern, L + 1, k, path)
  BY <1>1, <1>2 DEF FitsAt
<1> QED  BY <1>3, <1>4

(* Below a node, towards a node.                                             *)
LEMMA Child ==
  ASSUME NEW t, NEW at \in Named, NameTrie(t, at), NEW n \in DOMAIN t, NEW m \in DOMAIN t
  PROVE  /\ IsPrefix(n, m) /\ Len(n) < Len(m) =>
              \E c \in Children(t, n) : IsPrefix(c, m)
         /\ \A c \in Children(t, n) : IsPrefix(c, m) =>
              /\ IsPrefix(n, m) /\ Len(n) < Len(m) /\ Len(c) = Len(n) + 1
              /\ \A p : c = Append(n, p) <=> p = m[Len(n) + 1]
<1>1. /\ DOMAIN t \subseteq Seq(Components) /\ n \in Seq(Components) /\ m \in Seq(Components)
      /\ \A a \in DOMAIN t : a # <<>> => \E i \in DOMAIN at : IsPrefix(a, at[i])
      /\ \A i \in DOMAIN at : \A a \in Seq(Components) : IsPrefix(a, at[i]) => a \in DOMAIN t
      /\ \A i \in DOMAIN at : at[i] \in Seq(Components)
  BY NodesAre
<1>2. Len(n) \in Nat /\ Len(m) \in Nat
  BY <1>1, LenProperties
<1>3. ASSUME NEW c \in Children(t, n)
      PROVE  c \in DOMAIN t /\ c \in Seq(Components) /\ Len(c) = Len(n) + 1 /\ IsPrefix(n, c)
  BY <1>1 DEF Children
<1>4. ASSUME IsPrefix(n, m), Len(n) < Len(m) PROVE \E c \in Children(t, n) : IsPrefix(c, m)
  <2> DEFINE c == SubSeq(m, 1, Len(n) + 1)
  <2>1. Len(n) + 1 \in 0..Len(m)
    BY <1>2, <1>4
  <2>2. /\ c \in Seq(Components) /\ Len(c) = Len(n) + 1
        /\ \A i \in 1..Len(n) + 1 : c[i] = m[i]
    <3>1. \A i \in 1..Len(m) : m[i] \in Components
      BY <1>1, LenProperties
    <3> QED  BY <1>2, <2>1, <3>1, SubSeqProperties
  <2> HIDE DEF c
  <2>3. IsPrefix(c, m)
    BY <1>1, <1>2, <2>1, <2>2, PrefixMeans
  <2>4. IsPrefix(n, c)
    <3>1. Len(n) <= Len(c)
      BY <1>2, <2>2
    <3> QED  BY <1>1, <1>4, <2>2, <2>3, <3>1, PrefixOrder
  <2>5. m # <<>>
    BY <1>2, <1>4, EmptySeq
  <2>6. PICK i \in DOMAIN at : IsPrefix(m, at[i])
    BY <1>1, <2>5
  <2>7. IsPrefix(c, at[i])
    BY <1>1, <2>2, <2>3, <2>6, PrefixOrder
  <2>8. c \in DOMAIN t
    BY <1>1, <2>2, <2>7
  <2> QED  BY <2>2, <2>3, <2>4, <2>8 DEF Children
<1>5. ASSUME NEW c \in Children(t, n), IsPrefix(c, m)
      PROVE  /\ IsPrefix(n, m) /\ Len(n) < Len(m) /\ Len(c) = Len(n) + 1
             /\ \A p : c = Append(n, p) <=> p = m[Len(n) + 1]
  <2>1. c \in Seq(Components) /\ Len(c) = Len(n) + 1 /\ IsPrefix(n, c)
    BY <1>3
  <2>2. IsPrefix(n, m)
    BY <1>1, <1>5, <2>1, PrefixOrder
  <2>3. Len(c) <= Len(m) /\ \A i \in 1..Len(c) : c[i] = m[i]
    BY <1>1, <1>5, <2>1, PrefixMeans
  <2>4. \A i \in 1..Len(n) : c[i] = n[i]
    BY <1>1, <2>1, PrefixMeans
  <2>5. ASSUME NEW p PROVE c = Append(n, p) <=> p = m[Len(n) + 1]
    <3> DEFINE S == Components \cup {p}
               a == Append(n, p)
    <3>1. n \in Seq(S) /\ c \in Seq(S)
      BY <1>1, <2>1, SeqMonotonic
    <3>2. /\ a \in Seq(S) /\ Len(a) = Len(n) + 1
          /\ \A i \in 1..Len(n) : a[i] = n[i]
          /\ a[Len(n) + 1] = p
      BY <3>1, AppendProperties
    <3> HIDE DEF a
    <3>3. c[Len(n) + 1] = m[Len(n) + 1]
      BY <1>2, <2>1, <2>3
    <3>4. c = a => p = m[Len(n) + 1]
      BY <3>2, <3>3
    <3>5. ASSUME p = m[Len(n) + 1] PROVE c = a
      <4>1. \A i \in 1..Len(c) : c[i] = a[i]
        BY <1>2, <2>1, <2>4, <3>2, <3>3, <3>5
      <4> HIDE DEF S
      <4> QED  BY <2>1, <3>1, <3>2, <4>1, SeqEqual
    <3> QED  BY <3>4, <3>5 DEF a
  <2> QED  BY <1>2, <2>1, <2>2, <2>3, <2>5
<1> QED  BY <1>4, <1>5

(* What a walk finds from a node: what is below it that the rest fits.       *)
Found(t, pattern, n, i) ==
  {t[m] : m \in {a \in DOMAIN t : t[a] # NoTask /\ IsPrefix(n, a) /\ FitsAt(pattern, i, Len(n), a)}}
Walked(t, pattern, w, n, i) ==
  IF i > Len(pattern) THEN {t[n]} \ {NoTask}
  ELSE CASE pattern[i] = "**" -> w[<<n, i + 1>>] \cup (UNION {w[<<m, i>>] : m \in Children(t, n)})
         [] pattern[i] = "*" -> UNION {w[<<m, i + 1>>] : m \in Children(t, n)}
         [] OTHER -> UNION {w[<<m, i + 1>>] : m \in Children(t, n) \cap {Append(n, pattern[i])}}

LEMMA FoundIs ==
  ASSUME NEW t, NEW at \in Named, NameTrie(t, at), NEW pattern, Len(pattern) \in Nat,
         NEW n \in DOMAIN t, NEW i \in 1..Len(pattern) + 1, NEW w,
         i <= Len(pattern) => w[<<n, i + 1>>] = Found(t, pattern, n, i + 1),
         i <= Len(pattern) => \A c \in Children(t, n) : /\ w[<<c, i>>] = Found(t, pattern, c, i)
                                                        /\ w[<<c, i + 1>>] = Found(t, pattern, c, i + 1)
  PROVE  Walked(t, pattern, w, n, i) = Found(t, pattern, n, i)
<1>1. /\ DOMAIN t \subseteq Seq(Components)
      /\ \A a \in DOMAIN t : Len(a) \in Nat /\ (IsPrefix(n, a) => Len(n) \in 0..Len(a))
  <2>1. DOMAIN t \subseteq Seq(Components)
    BY NodesAre
  <2>2. \A a \in DOMAIN t : Len(a) \in Nat /\ (IsPrefix(n, a) => Len(n) <= Len(a))
    BY <2>1, LenProperties, PrefixMeans
  <2> QED  BY <2>1, <2>2
<1>2. \A k : \A a : \A x : x \in Found(t, pattern, a, k) <=>
        \E m \in DOMAIN t : x = t[m] /\ t[m] # NoTask /\ IsPrefix(a, m) /\ FitsAt(pattern, k, Len(a), m)
  BY DEF Found
<1>3. CASE i > Len(pattern)
  <2>1. i = Len(pattern) + 1
    BY <1>3
  <2>2. ASSUME NEW m \in DOMAIN t
        PROVE  IsPrefix(n, m) /\ FitsAt(pattern, i, Len(n), m) <=> m = n
    <3>1. IsPrefix(n, n) /\ Len(n) \in 0..Len(n)
      BY <1>1, PrefixOrder
    <3>2. FitsAt(pattern, i, Len(n), n)
      BY <1>1, <2>1, <3>1, FitsLast
    <3>3. ASSUME IsPrefix(n, m), FitsAt(pattern, i, Len(n), m) PROVE m = n
      <4>1. Len(n) = Len(m)
        BY <1>1, <2>1, <3>3, FitsLast
      <4>2. \A j \in 1..Len(n) : n[j] = m[j]
        BY <1>1, <3>3, PrefixMeans
      <4>3. n \in Seq(Components) /\ m \in Seq(Components)
        BY <1>1
      <4> QED  BY <4>1, <4>2, <4>3, SeqEqual
    <3> QED  BY <3>1, <3>2, <3>3
  <2>3. \A x : x \in Found(t, pattern, n, i) <=> x = t[n] /\ t[n] # NoTask
    BY <1>2, <2>2
  <2>4. Walked(t, pattern, w, n, i) = {t[n]} \ {NoTask}
    BY <1>3 DEF Walked
  <2> QED  BY <2>3, <2>4
<1>4. CASE i <= Len(pattern)
  <2>1. i \in 1..Len(pattern) /\ ~(i > Len(pattern))
    BY <1>4
  <2>2. ASSUME NEW m \in DOMAIN t, IsPrefix(n, m)
        PROVE  /\ pattern[i] = "**" => (FitsAt(pattern, i, Len(n), m)
                    <=> FitsAt(pattern, i + 1, Len(n), m) \/ (Len(n) < Len(m) /\ FitsAt(pattern, i, Len(n) + 1, m)))
               /\ pattern[i] # "**" => (FitsAt(pattern, i, Len(n), m)
                    <=> /\ Len(n) < Len(m) /\ (pattern[i] = "*" \/ pattern[i] = m[Len(n) + 1])
                        /\ FitsAt(pattern, i + 1, Len(n) + 1, m))
    <3>1. Len(m) \in Nat /\ Len(n) \in 0..Len(m)
      BY <1>1, <2>2
    <3> QED  BY <2>1, <3>1, FitsSteps
  \* What is found through a child.
  <2>3. ASSUME NEW m \in DOMAIN t, NEW k
        PROVE  IsPrefix(n, m) /\ Len(n) < Len(m) /\ FitsAt(pattern, k, Len(n) + 1, m)
                 <=> \E c \in Children(t, n) : IsPrefix(c, m) /\ FitsAt(pattern, k, Len(c), m)
    <3>1. ASSUME IsPrefix(n, m), Len(n) < Len(m), FitsAt(pattern, k, Len(n) + 1, m)
          PROVE  \E c \in Children(t, n) : IsPrefix(c, m) /\ FitsAt(pattern, k, Len(c), m)
      <4>1. PICK c \in Children(t, n) : IsPrefix(c, m)
        BY <3>1, Child
      <4>2. Len(c) = Len(n) + 1
        BY <4>1, Child
      <4> QED  BY <3>1, <4>1, <4>2
    <3>2. ASSUME NEW c \in Children(t, n), IsPrefix(c, m), FitsAt(pattern, k, Len(c), m)
          PROVE  IsPrefix(n, m) /\ Len(n) < Len(m) /\ FitsAt(pattern, k, Len(n) + 1, m)
      <4>1. IsPrefix(n, m) /\ Len(n) < Len(m) /\ Len(c) = Len(n) + 1
        BY <3>2, Child
      <4> QED  BY <3>2, <4>1
    <3> QED  BY <3>1, <3>2
  <2>4. CASE pattern[i] = "**"
    <3>1. Walked(t, pattern, w, n, i) = w[<<n, i + 1>>] \cup (UNION {w[<<m, i>>] : m \in Children(t, n)})
      BY <2>1, <2>4 DEF Walked
    <3>2. \A x : x \in Walked(t, pattern, w, n, i) <=>
            x \in Found(t, pattern, n, i + 1) \/ \E c \in Children(t, n) : x \in Found(t, pattern, c, i)
      BY <1>4, <3>1
    <3>3. ASSUME NEW x
          PROVE  x \in Found(t, pattern, n, i) <=>
                   x \in Found(t, pattern, n, i + 1) \/ \E c \in Children(t, n) : x \in Found(t, pattern, c, i)
      <4>1. ASSUME NEW m \in DOMAIN t
            PROVE  IsPrefix(n, m) /\ FitsAt(pattern, i, Len(n), m)
                     <=> \/ IsPrefix(n, m) /\ FitsAt(pattern, i + 1, Len(n), m)
                         \/ \E c \in Children(t, n) : IsPrefix(c, m) /\ FitsAt(pattern, i, Len(c), m)
        BY <2>2, <2>3, <2>4
      <4> QED  BY <1>2, <4>1
    <3> QED  BY <3>2, <3>3
  <2>5. CASE pattern[i] = "*"
    <3>0. pattern[i] # "**"
      BY <2>5
    <3>1. Walked(t, pattern, w, n, i) = UNION {w[<<m, i + 1>>] : m \in Children(t, n)}
      BY <2>1, <2>5, <3>0 DEF Walked
    <3>2. \A x : x \in Walked(t, pattern, w, n, i) <=> \E c \in Children(t, n) : x \in Found(t, pattern, c, i + 1)
      BY <1>4, <3>1
    <3>3. ASSUME NEW x
          PROVE  x \in Found(t, pattern, n, i) <=> \E c \in Children(t, n) : x \in Found(t, pattern, c, i + 1)
      <4>1. ASSUME NEW m \in DOMAIN t
            PROVE  IsPrefix(n, m) /\ FitsAt(pattern, i, Len(n), m)
                     <=> \E c \in Children(t, n) : IsPrefix(c, m) /\ FitsAt(pattern, i + 1, Len(c), m)
        BY <2>2, <2>3, <2>5, <3>0
      <4> QED  BY <1>2, <4>1
    <3> QED  BY <3>2, <3>3
  <2>6. CASE pattern[i] # "**" /\ pattern[i] # "*"
    <3>1. Walked(t, pattern, w, n, i) = UNION {w[<<m, i + 1>>] : m \in Children(t, n) \cap {Append(n, pattern[i])}}
      BY <2>1, <2>6 DEF Walked
    <3>2. \A x : x \in Walked(t, pattern, w, n, i) <=>
            \E c \in Children(t, n) : c = Append(n, pattern[i]) /\ x \in Found(t, pattern, c, i + 1)
      BY <1>4, <3>1
    <3>3. ASSUME NEW x
          PROVE  x \in Found(t, pattern, n, i) <=>
                   \E c \in Children(t, n) : c = Append(n, pattern[i]) /\ x \in Found(t, pattern, c, i + 1)
      <4>1. ASSUME NEW m \in DOMAIN t
            PROVE  IsPrefix(n, m) /\ FitsAt(pattern, i, Len(n), m)
                     <=> \E c \in Children(t, n) : /\ c = Append(n, pattern[i])
                                                   /\ IsPrefix(c, m) /\ FitsAt(pattern, i + 1, Len(c), m)
        <5>1. \A c \in Children(t, n) : IsPrefix(c, m) => (c = Append(n, pattern[i]) <=> pattern[i] = m[Len(n) + 1])
          BY Child
        <5> QED  BY <2>2, <2>3, <2>6, <5>1
      <4> QED  BY <1>2, <4>1
    <3> QED  BY <3>2, <3>3
  <2> QED  BY <2>4, <2>5, <2>6
<1> QED  BY <1>3, <1>4

LEMMA Least ==
  ASSUME NEW S \in SUBSET Nat, S # {}
  PROVE  \E n \in S : \A m \in S : n <= m
<1>1. PICK n \in S : \A m \in S : <<m, n>> \notin OpToRel(<, Nat)
  BY NatLessThanWellFounded, WFMin
<1>2. ASSUME NEW m \in S, m < n PROVE FALSE
  BY <1>1, <1>2 DEF OpToRel
<1> QED  BY <1>2

(* No path of finitely many is longer than some number.                      *)
Within(at, k, depth) == \A i \in DOMAIN at : i <= k => Len(at[i]) <= depth
LEMMA Deepest ==
  ASSUME NEW at \in Named, NEW N \in Nat, DOMAIN at \subseteq 1..N
  PROVE  \E depth \in Nat : \A i \in DOMAIN at : Len(at[i]) <= depth
<1>1. \A i \in DOMAIN at : Len(at[i]) \in Nat
  BY LenProperties DEF Named
<1> DEFINE S == {k \in 0..N : ~\E depth \in Nat : Within(at, k, depth)}
<1>2. S \in SUBSET Nat /\ \A k \in 0..N : k \notin S => \E depth \in Nat : Within(at, k, depth)
  OBVIOUS
<1>3. \A k \in S : k \in 0..N /\ \A depth \in Nat : ~Within(at, k, depth)
  OBVIOUS
<1> HIDE DEF S
<1>4. ASSUME S # {} PROVE FALSE
  <2>1. PICK k \in S : \A m \in S : k <= m
    BY <1>2, <1>4, Least
  <2>2. k \in 0..N /\ \A depth \in Nat : ~Within(at, k, depth)
    BY <1>3, <2>1
  <2>3. k # 0
    <3>1. Within(at, 0, 0)
      BY DEF Within
    <3> QED  BY <2>2, <3>1
  <2>4. k - 1 \in 0..N /\ k - 1 \notin S
    BY <2>1, <2>2, <2>3
  <2>5. PICK depth \in Nat : Within(at, k - 1, depth)
    BY <1>2, <2>4
  <2>6. \A i \in DOMAIN at : i <= k => i <= k - 1 \/ i = k
    BY <2>2
  <2>7. CASE k \in DOMAIN at /\ Len(at[k]) > depth
    <3>1. Len(at[k]) \in Nat
      BY <1>1, <2>7
    <3>2. ASSUME NEW i \in DOMAIN at, i <= k PROVE Len(at[i]) <= Len(at[k])
      <4>1. CASE i = k
        BY <3>1, <4>1
      <4>2. CASE i <= k - 1
        <5>1. Len(at[i]) <= depth /\ Len(at[i]) \in Nat
          BY <1>1, <2>5, <4>2 DEF Within
        <5> QED  BY <2>7, <3>1, <5>1
      <4> QED  BY <2>6, <3>2, <4>1, <4>2
    <3>3. Within(at, k, Len(at[k]))
      BY <3>2 DEF Within
    <3> QED  BY <2>2, <3>1, <3>3
  <2>8. CASE k \notin DOMAIN at \/ Len(at[k]) <= depth
    <3>1. Within(at, k, depth)
      BY <2>5, <2>6, <2>8 DEF Within
    <3> QED  BY <2>2, <3>1
  <2> QED  BY <1>1, <2>7, <2>8
<1>5. N \in 0..N
  OBVIOUS
<1>6. PICK depth \in Nat : Within(at, N, depth)
  BY <1>2, <1>4, <1>5
<1> QED  BY <1>6 DEF Within

(* A walk is what its recursion says, and so finds what fits.                *)
LEMMA WalkFinds ==
  ASSUME NEW t, NEW at \in Named, NameTrie(t, at), NEW N \in Nat, DOMAIN at \subseteq 1..N,
         NEW pattern, Len(pattern) \in Nat
  PROVE  GlobWalk(t, pattern) = {i \in DOMAIN at : Fits(pattern, at[i])}
<1> DEFINE D == DOMAIN t
           L == Len(pattern)
           X == D \X (1..L + 1)
           IsWalk(w) == w = [x \in X |-> Walked(t, pattern, w, x[1], x[2])]
           walk == CHOOSE w : IsWalk(w)
           found == [x \in X |-> Found(t, pattern, x[1], x[2])]
<1>1. GlobWalk(t, pattern) = walk[<< <<>>, 1 >>]
  BY DEF GlobWalk, Walked
<1>2. D \subseteq Seq(Components) /\ <<>> \in D /\ \A n \in D : n # <<>> => \E i \in DOMAIN at : IsPrefix(n, at[i])
  BY NodesAre
<1>3. \A n \in D : Children(t, n) \subseteq D /\ \A c \in Children(t, n) : Len(c) = Len(n) + 1
  BY DEF Children
<1>4. IsWalk(found)
  <2>1. ASSUME NEW n \in D, NEW i \in 1..L + 1
        PROVE  Walked(t, pattern, found, n, i) = Found(t, pattern, n, i)
    <3>1. i <= L => found[<<n, i + 1>>] = Found(t, pattern, n, i + 1)
      <4>1. i <= L => <<n, i + 1>> \in X
        OBVIOUS
      <4> QED  BY <4>1
    <3>2. i <= L => \A c \in Children(t, n) : /\ found[<<c, i>>] = Found(t, pattern, c, i)
                                              /\ found[<<c, i + 1>>] = Found(t, pattern, c, i + 1)
      <4>1. i <= L => \A c \in Children(t, n) : <<c, i>> \in X /\ <<c, i + 1>> \in X
        BY <1>3
      <4> QED  BY <4>1
    <3> HIDE DEF found
    <3> QED  BY <3>1, <3>2, FoundIs
  <2>2. \A x \in X : Walked(t, pattern, found, x[1], x[2]) = Found(t, pattern, x[1], x[2])
    BY <2>1
  <2> QED  BY <2>2
<1>5. IsWalk(walk)
  BY <1>4
<1> HIDE DEF walk, found
<1>6. \A n \in D : \A i \in 1..L + 1 : walk[<<n, i>>] = Walked(t, pattern, walk, n, i)
  <2>1. \A n \in D : \A i \in 1..L + 1 : <<n, i>> \in X
    OBVIOUS
  <2> HIDE DEF X
  <2>2. \A x \in X : walk[x] = Walked(t, pattern, walk, x[1], x[2])
    BY <1>5
  <2> QED  BY <2>1, <2>2
<1>7. PICK depth \in Nat : \A n \in D : Len(n) \in 0..depth
  <2>1. PICK depth \in Nat : \A i \in DOMAIN at : Len(at[i]) <= depth
    BY Deepest
  <2>2. ASSUME NEW n \in D PROVE Len(n) \in 0..depth
    <3>1. Len(n) \in Nat /\ (n = <<>> => Len(n) = 0)
      BY <1>2, LenProperties, EmptySeq
    <3>2. CASE n # <<>>
      <4>1. PICK i \in DOMAIN at : IsPrefix(n, at[i])
        BY <1>2, <3>2
      <4>2. at[i] \in Seq(Components)
        BY NodesAre
      <4>3. Len(n) <= Len(at[i]) /\ Len(at[i]) \in Nat
        BY <1>2, <4>1, <4>2, PrefixMeans, LenProperties
      <4> QED  BY <2>1, <3>1, <4>3
    <3> QED  BY <3>1, <3>2
  <2> QED  BY <2>2
\* No pair is a first one to differ, by what is left below and of the pattern.
<1> DEFINE left(n, i) == (depth - Len(n)) + (L + 1 - i)
           S == {d \in Nat : \E n \in D : \E i \in 1..L + 1 :
                   d = left(n, i) /\ walk[<<n, i>>] # Found(t, pattern, n, i)}
<1>8. \A n \in D : \A i \in 1..L + 1 : left(n, i) \in Nat
  BY <1>7
<1>9. ASSUME S # {} PROVE FALSE
  <2>1. PICK d \in S : \A e \in S : d <= e
    BY <1>9, Least
  <2>2. PICK n \in D, i \in 1..L + 1 : d = left(n, i) /\ walk[<<n, i>>] # Found(t, pattern, n, i)
    BY <2>1
  <2>3. \A m \in D : \A k \in 1..L + 1 : left(m, k) < left(n, i) => walk[<<m, k>>] = Found(t, pattern, m, k)
    <3> SUFFICES ASSUME NEW m \in D, NEW k \in 1..L + 1, left(m, k) < left(n, i),
                        walk[<<m, k>>] # Found(t, pattern, m, k)
                 PROVE  FALSE
      OBVIOUS
    <3>1. left(m, k) \in S
      BY <1>8
    <3>2. left(m, k) \in Nat /\ left(n, i) \in Nat
      BY <1>8
    <3> HIDE DEF left, S
    <3>3. left(n, i) <= left(m, k)
      BY <2>1, <2>2, <3>1
    <3> QED  BY <3>2, <3>3
  <2>4. i <= L => walk[<<n, i + 1>>] = Found(t, pattern, n, i + 1)
    <3>1. i <= L => i + 1 \in 1..L + 1 /\ left(n, i + 1) < left(n, i)
      BY <1>7
    <3> HIDE DEF left
    <3> QED  BY <2>3, <3>1
  <2>5. i <= L => \A c \in Children(t, n) : /\ walk[<<c, i>>] = Found(t, pattern, c, i)
                                            /\ walk[<<c, i + 1>>] = Found(t, pattern, c, i + 1)
    <3>1. \A c \in Children(t, n) : c \in D /\ left(c, i) < left(n, i)
      BY <1>3, <1>7
    <3>2. i <= L => i + 1 \in 1..L + 1 /\ \A c \in Children(t, n) : left(c, i + 1) < left(n, i)
      BY <1>3, <1>7
    <3> HIDE DEF left
    <3> QED  BY <2>3, <3>1, <3>2
  <2>6. Walked(t, pattern, walk, n, i) = Found(t, pattern, n, i)
    BY <2>4, <2>5, FoundIs
  <2> QED  BY <1>6, <2>2, <2>6
<1>10. walk[<< <<>>, 1 >>] = Found(t, pattern, <<>>, 1)
  <2>1. 1 \in 1..L + 1 /\ left(<<>>, 1) \in Nat
    BY <1>2, <1>8
  <2>2. walk[<< <<>>, 1 >>] # Found(t, pattern, <<>>, 1) => left(<<>>, 1) \in S
    BY <1>2, <2>1
  <2> HIDE DEF S
  <2> QED  BY <1>9, <2>2
<1>11. ASSUME NEW x
       PROVE  x \in Found(t, pattern, <<>>, 1) <=> x \in DOMAIN at /\ Fits(pattern, at[x])
  <2>1. \A m : FitsAt(pattern, 1, 0, m) <=> Fits(pattern, m)
    BY DEF FitsAt, Fits
  <2>2. Len(<<>>) = 0 /\ \A m \in D : IsPrefix(<<>>, m)
    BY <1>2, EmptySeq, PrefixOrder
  <2>3. x \in Found(t, pattern, <<>>, 1) <=>
          \E m \in DOMAIN t : x = t[m] /\ t[m] # NoTask /\ Fits(pattern, m)
    BY <2>1, <2>2 DEF Found
  <2>4. \A i \in DOMAIN at : at[i] \in DOMAIN t /\ t[at[i]] = i /\ i # NoTask
    BY NodesAre DEF NameTrie
  <2>5. \A m \in DOMAIN t : t[m] = NoTask \/ (t[m] \in DOMAIN at /\ at[t[m]] = m)
    BY DEF NameTrie
  <2> QED  BY <2>3, <2>4, <2>5
<1>12. Found(t, pattern, <<>>, 1) = {i \in DOMAIN at : Fits(pattern, at[i])}
  BY <1>11
<1> QED  BY <1>1, <1>10, <1>12

(* Paths, globs and tags name the tasks that are registered under them, and   *)
(* the tries keep no other node, whatever came and went in whatever order     *)
(* (PathTrie::insert, remove and glob, path_trie.rs).                         *)
THEOREM NamesAreFound == RegistrySpec => []NamesFound
<1>1. ASSUME Registered PROVE NamesFound
  <2>1. ASSUME NEW space \in Spaces
        PROVE  /\ DOMAIN names[space] = {<<>>} \cup UNION {Above(entries[id].path) : id \in Placed(space)}
               /\ \A id \in Placed(space) : Resolve(names[space], entries[id].path) = id
               /\ \A pattern \in Patterns :
                    GlobWalk(names[space], pattern) = {id \in Placed(space) : Fits(pattern, entries[id].path)}
    <3> DEFINE t == names[space]
               at == Where(entries, space)
    <3>1. /\ at \in Named /\ DOMAIN at = Placed(space)
          /\ \A id \in Placed(space) : at[id] = entries[id].path
          /\ NameTrie(t, at)
      BY <1>1, WhereIs DEF Registered, NamesExact, NamesAre
    <3>2. MaxTasks \in Nat /\ Placed(space) \subseteq 1..MaxTasks
      BY <1>1, RegistryAssumption, LiveIs DEF Registered, Placed
    <3> HIDE DEF t, at
    <3>3. {Above(at[i]) : i \in DOMAIN at} = {Above(entries[id].path) : id \in Placed(space)}
      BY <3>1
    <3>4. DOMAIN t = {<<>>} \cup UNION {Above(entries[id].path) : id \in Placed(space)}
      BY <3>1, <3>3 DEF NameTrie
    <3>5. \A id \in Placed(space) : Resolve(t, entries[id].path) = id
      BY <3>1, NodesAre DEF NameTrie, Resolve
    <3>6. ASSUME NEW pattern \in Patterns
          PROVE  GlobWalk(t, pattern) = {id \in Placed(space) : Fits(pattern, entries[id].path)}
      <4>1. Len(pattern) \in Nat
        BY RegistryAssumption, LenProperties
      <4>2. GlobWalk(t, pattern) = {i \in DOMAIN at : Fits(pattern, at[i])}
        BY <3>1, <3>2, <4>1, WalkFinds
      <4> QED  BY <3>1, <4>2
    <3> QED  BY <3>4, <3>5, <3>6 DEF t
  <2>2. \A tag \in Tags : tagged[tag] = {id \in Live : tag \in entries[id].tags}
    BY <1>1 DEF Registered, TagsExact
  <2> QED  BY <2>1, <2>2 DEF NamesFound
<1> QED  BY <1>1, AlwaysRegistered, PTL

=============================================================================
