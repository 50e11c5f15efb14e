------------------------------ MODULE Registry ------------------------------
(* The names of the kernel: spaces of task paths kept in tries, tags,        *)
(* subscriptions to parts of a space, and watches on what is active          *)
(* (src/src/kernel/namespace.rs, path_trie.rs, sub_trie.rs and the registry   *)
(* side of kernel.rs).  One action is one message, settled.  A path is the    *)
(* sequence of its components; <<>> is the root, where no task is.            *)
EXTENDS Integers, Sequences, FiniteSets, SequencesExt

CONSTANTS
  Spaces, Reserved,     \* the spaces of tasks, and the one of the runner itself
  Default,              \* the space of a task that has gone
  Console,              \* the path of the first task, which the runner registers
  Paths, Patterns,      \* the paths and the globs that are used
  Tags,
  MaxTasks,             \* how many ids are given out
  MaxWatches,           \* how many watches there are
  MaxMessages           \* how many messages are handled

VARIABLES
  entries,   \* the registered tasks: id -> where it is, its tags, whether it is up
  names,     \* space -> trie of paths: node -> id, 0 where there is no task
  tagged,    \* tag -> ids
  subs,      \* space -> trie of subscriptions: node -> subscribers by mode
  bySub,     \* subscriber -> what it subscribed to
  watches,   \* the watches, by numbers of theirs
  changed,   \* a task came, went or changed state since the watches were looked at
  seen,      \* subscriber -> id -> how often it came and how it is, as it was told
  messages
registryVars == <<entries, names, tagged, subs, bySub, watches, changed, seen, messages>>

ASSUME RegistryAssumption ==
  /\ Reserved \in Spaces /\ Default \in Spaces
  /\ \A path \in Paths \cup {Console} : path \in Seq(ToSet(path)) /\ path # <<>>
  /\ \A pattern \in Patterns : pattern \in Seq(ToSet(pattern))
  /\ MaxTasks \in Nat \ {0}

NoTask == 0
Modes == {"exact", "subtree"}     \* of a subscription
NoSubs == [m \in Modes |-> {}]
NoTrie(blank) == [n \in {<<>>} |-> blank]
Live == DOMAIN entries

-----------------------------------------------------------------------------
(* Tries: a function of nodes.                                               *)

Children(t, n) == {m \in DOMAIN t : Len(m) = Len(n) + 1 /\ IsPrefix(n, m)}
Above(path) == {SubSeq(path, 1, k) : k \in 0..Len(path)}
Grown(t, path, blank) ==
  [n \in DOMAIN t \cup Above(path) |-> IF n \in DOMAIN t THEN t[n] ELSE blank]
\* Nodes of the paths go, from the ends towards the root, that nothing is left in
\* nor below.
Pruned(t, paths, blank) ==
  LET empty(n) == \A m \in DOMAIN t : IsPrefix(n, m) =>
                    t[m] = blank /\ \E path \in paths : IsPrefix(m, path)
  IN  [n \in {m \in DOMAIN t : m = <<>> \/ ~empty(m)} |-> t[n]]

Resolve(t, path) == IF path \in DOMAIN t THEN t[path] ELSE NoTask
Inserted(t, path, id) == [Grown(t, path, NoTask) EXCEPT ![path] = id]
\* Mutant: the node goes with everything below it.
Mutant_CutsBranch(t, path) == [n \in {m \in DOMAIN t : ~IsPrefix(path, m)} |-> t[n]]
Taken(t, path) ==
  Pruned([n \in DOMAIN t |-> IF n = path THEN NoTask ELSE t[n]], {path}, NoTask)
Descendants(t, path) == {n \in DOMAIN t : path # n /\ IsPrefix(path, n) /\ t[n] # NoTask}

\* "**" stands for any number of components, "*" for one.
GlobWalk(t, pattern) ==
  LET walk[x \in (DOMAIN t) \X (1..Len(pattern) + 1)] ==
        LET n == x[1]  i == x[2]
        IN  IF i > Len(pattern) THEN {t[n]} \ {NoTask}
            ELSE CASE pattern[i] = "**" -> walk[<<n, i + 1>>] \cup (UNION {walk[<<m, i>>] : m \in Children(t, n)})
                   [] pattern[i] = "*" -> UNION {walk[<<m, i + 1>>] : m \in Children(t, n)}
                   [] OTHER -> UNION {walk[<<m, i + 1>>] : m \in Children(t, n) \cap {Append(n, pattern[i])}}
  IN  walk[<< <<>>, 1 >>]

Subscribed(t, path, mode, s) ==
  [Grown(t, path, NoSubs) EXCEPT ![path][mode] = @ \cup {s}]
\* What s holds, by path and mode, is given up.
Unsubscribed(t, held, s) ==
  Pruned([n \in DOMAIN t |-> [m \in Modes |-> IF <<n, m>> \in held THEN t[n][m] \ {s} ELSE t[n][m]]],
         {x[1] : x \in held}, NoSubs)
\* Mutant: a subscription to a subtree is not one to its root.
Mutant_BelowOnly(t, path) ==
  (UNION {t[n]["subtree"] : n \in (Above(path) \cap DOMAIN t) \ {path}})
    \cup (IF path \in DOMAIN t THEN t[path]["exact"] ELSE {})
Collect(t, path) ==
  (UNION {t[n]["subtree"] : n \in Above(path) \cap DOMAIN t})
    \cup (IF path \in DOMAIN t THEN t[path]["exact"] ELSE {})

-----------------------------------------------------------------------------
(* Selectors: an id, a glob or a tag, in one space or in any.                *)

InSpaces(space) == IF space = "any" THEN Spaces ELSE {space}
Matching(sel) ==
  CASE sel.by = "id" -> {sel.id} \cap Live
    [] sel.by = "glob" -> UNION {GlobWalk(names[s], sel.pattern) : s \in InSpaces(sel.space)}
    [] sel.by = "tag" -> {id \in tagged[sel.tag] : entries[id].space \in InSpaces(sel.space)}
SpaceOf(sender) == IF sender \in Live THEN entries[sender].space ELSE Default
CanRegister(sender, space) == space = Reserved => SpaceOf(sender) = space
CanMutate(sender, id) == entries[id].space = Reserved => SpaceOf(sender) = Reserved
AnyActive(sel, table) == \E id \in Matching(sel) : table[id].up

Selectors ==
  [by : {"id"}, id : 1..MaxTasks] \cup [by : {"tag"}, space : Spaces, tag : Tags]
    \cup [by : {"glob"}, space : {Default, "any"}, pattern : Patterns]

-----------------------------------------------------------------------------
(* What a subscriber is told, and what it makes of it.                       *)

Nothing == [id \in 1..MaxTasks |-> [came |-> 0, up |-> FALSE]]
Hear(view, id, note) ==
  CASE note.kind = "added" -> [view EXCEPT ![id] = [came |-> @.came + 1, up |-> note.up]]
    [] note.kind = "removed" -> [view EXCEPT ![id].came = @ - 1]
    [] note.kind = "state" -> [view EXCEPT ![id].up = note.up]
Notified(id, note, targets) ==
  [s \in DOMAIN seen |-> IF s \in targets THEN Hear(seen[s], id, note) ELSE seen[s]]
Listeners(space, path) == IF path = <<>> THEN {} ELSE Collect(subs[space], path)

\* The watches are looked at once the message is settled, if a task changed.
Checked(watch, table) ==
  LET now == AnyActive(watch.sel, table)
  IN  IF now = watch.active THEN watch
      ELSE [watch EXCEPT !.active = now, !.told = IF watch.open THEN now ELSE @]
Kept(watch, table) == watch.open \/ AnyActive(watch.sel, table) = watch.active
-----------------------------------------------------------------------------
RegistryInit ==
  /\ entries = [id \in {1} |-> [space |-> Reserved, path |-> Console, tags |-> {}, up |-> FALSE]]
  /\ names = [s \in Spaces |-> IF s = Reserved THEN Inserted(NoTrie(NoTask), Console, 1) ELSE NoTrie(NoTask)]
  /\ tagged = [t \in Tags |-> {}]
  /\ subs = [s \in Spaces |-> NoTrie(NoSubs)]
  /\ bySub = [s \in {1} |-> {}]
  /\ watches = [k \in {} |-> 0] /\ changed = FALSE
  /\ seen = [s \in {1} |-> Nothing]
  /\ messages = 0

Message == messages < MaxMessages /\ messages' = messages + 1
\* A task registers under the next id.
Register1(sender, space, path, tags) ==
  LET id == Cardinality(DOMAIN seen) + 1
      row == [space |-> space, path |-> path, tags |-> tags, up |-> FALSE]
  IN  /\ Message /\ id <= MaxTasks
      /\ CanRegister(sender, space)
      /\ path # <<>> => Resolve(names[space], path) = NoTask
      /\ entries' = [i \in Live \cup {id} |-> IF i = id THEN row ELSE entries[i]]
      /\ names' = IF path = <<>> THEN names ELSE [names EXCEPT ![space] = Inserted(@, path, id)]
      /\ tagged' = [t \in Tags |-> IF t \in tags THEN tagged[t] \cup {id} ELSE tagged[t]]
      /\ changed' = TRUE
      /\ bySub' = [i \in DOMAIN bySub \cup {id} |-> IF i = id THEN {} ELSE bySub[i]]
      /\ seen' = LET told == Notified(id, [kind |-> "added", up |-> FALSE],
                                     Listeners(space, path) \cap Live)
                 IN  [i \in DOMAIN seen \cup {id} |-> IF i = id THEN Nothing ELSE told[i]]
      /\ UNCHANGED <<subs, watches>>

ChangesState(id) ==
  /\ Message /\ id \in Live
  /\ entries' = [entries EXCEPT ![id].up = ~@]
  /\ changed' = TRUE
  /\ seen' = Notified(id, [kind |-> "state", up |-> ~entries[id].up],
                     Listeners(entries[id].space, entries[id].path) \cap Live)
  /\ UNCHANGED <<names, tagged, subs, bySub, watches>>

SubsWithout(space, id) ==
  Unsubscribed(subs[space], {<<x[2], x[3]>> : x \in {y \in bySub[id] : y[1] = space}}, id)
\* A task that goes hears nothing of it; those that hear of it are asked last.
Removes(sender, id) ==
  LET gone == entries[id]
      cut == [s \in Spaces |-> SubsWithout(s, id)]
      heard == IF gone.path = <<>> THEN {} ELSE Collect(cut[gone.space], gone.path)
  IN  /\ Message /\ id \in Live /\ CanMutate(sender, id)
      /\ entries' = [i \in Live \ {id} |-> entries[i]]
      /\ names' = IF gone.path = <<>> THEN names
                  ELSE [names EXCEPT ![gone.space] = Taken(@, gone.path)]
      /\ tagged' = [t \in Tags |-> tagged[t] \ {id}]
      /\ subs' = cut /\ bySub' = [bySub EXCEPT ![id] = {}]
      /\ changed' = TRUE
      /\ seen' = Notified(id, [kind |-> "removed"], heard \cap (Live \ {id}))
      /\ UNCHANGED watches

\* What is there already is told, but for what the subscriber hears of anyway.
InScope(space, path, mode) ==
  {n \in DOMAIN names[space] : names[space][n] # NoTask
     /\ (n = path \/ (mode = "subtree" /\ n \in Descendants(names[space], path)))}
Replayed(s, space, path, mode) ==
  {n \in InScope(space, path, mode) : s \notin Collect(subs[space], n)}
Subscribes(s, space, path, mode) ==
  LET replay == {names[space][n] : n \in Replayed(s, space, path, mode)}
  IN  /\ Message /\ s \in DOMAIN seen
      /\ subs' = [subs EXCEPT ![space] = Subscribed(@, path, mode, s)]
      /\ bySub' = [bySub EXCEPT ![s] = @ \cup {<<space, path, mode>>}]
      /\ seen' = [seen EXCEPT ![s] = [id \in 1..MaxTasks |->
                    IF id \in replay /\ s \in Live THEN Hear(@, id, [kind |-> "added", up |-> entries[id].up])[id] ELSE @[id]]]
      /\ UNCHANGED <<entries, names, tagged, watches, changed>>

\* A subscriber forgets what it will no longer hear of.
Unsubscribes(s, space, path, mode) ==
  LET t == Unsubscribed(subs[space], {<<path, mode>>}, s)
      still(id) == id \in Live /\ entries[id].path # <<>>
                   /\ (entries[id].space = space => s \in Collect(t, entries[id].path))
  IN  /\ Message /\ s \in DOMAIN seen
      /\ subs' = [subs EXCEPT ![space] = t]
      /\ bySub' = [bySub EXCEPT ![s] = @ \ {<<space, path, mode>>}]
      /\ seen' = [seen EXCEPT ![s] = [id \in 1..MaxTasks |-> IF still(id) THEN @[id] ELSE Nothing[id]]]
      /\ UNCHANGED <<entries, names, tagged, watches, changed>>

\* Who watches asked first: what it believes is what was so when it came.
Watch(sel) ==
  LET active == AnyActive(sel, entries)
      new == [sel |-> sel, active |-> active, told |-> active, open |-> TRUE]
  IN  /\ Message
      /\ \E k \in 1..MaxWatches \ DOMAIN watches :
           watches' = [j \in DOMAIN watches \cup {k} |-> IF j = k THEN new ELSE watches[j]]
      /\ UNCHANGED <<entries, names, tagged, subs, bySub, changed, seen>>
\* The one who watches goes away, which the kernel is not told.
StopsWatching(k) ==
  /\ Message /\ k \in DOMAIN watches /\ watches[k].open
  /\ watches' = [watches EXCEPT ![k].open = FALSE]
  /\ UNCHANGED <<entries, names, tagged, subs, bySub, changed, seen>>

\* After every message that changed a task.
Mutant_AddedOnly == changed /\ Cardinality(Live) = Cardinality(DOMAIN seen)
Due == changed
ChecksWatches ==
  /\ Due
  /\ changed' = FALSE
  /\ watches' = [k \in {j \in DOMAIN watches : Kept(watches[j], entries)} |-> Checked(watches[k], entries)]
  /\ UNCHANGED <<entries, names, tagged, subs, bySub, seen, messages>>

RegistryNext ==
  \/ ChecksWatches
  \/ /\ ~Due
     /\ \/ \E sender \in Live, space \in Spaces, path \in Paths \cup {<<>>}, tags \in SUBSET Tags :
             Register1(sender, space, path, tags)
        \/ \E id \in Live : ChangesState(id)
        \/ \E sender \in DOMAIN seen, id \in Live : Removes(sender, id)
        \/ \E s \in DOMAIN seen, space \in Spaces, path \in Paths \cup {<<>>}, mode \in Modes :
             Subscribes(s, space, path, mode) \/ Unsubscribes(s, space, path, mode)
        \/ \E sel \in Selectors : Watch(sel)
        \/ \E k \in DOMAIN watches : StopsWatching(k)

RegistrySpec == RegistryInit /\ [][RegistryNext]_registryVars

-----------------------------------------------------------------------------
(* Properties.                                                               *)

\* Reference: the path can be cut into as many parts as the pattern has, each as
\* its component of the pattern says.
Stands(component, path, from, to) ==
  IF component = "**" THEN from <= to ELSE to = from + 1 /\ component \in {"*", path[to]}
Fits(pattern, path) ==
  \E cut \in [0..Len(pattern) -> 0..Len(path)] :
    /\ cut[0] = 0 /\ cut[Len(pattern)] = Len(path)
    /\ \A i \in 1..Len(pattern) : Stands(pattern[i], path, cut[i-1], cut[i])

Placed(space) == {id \in Live : entries[id].space = space /\ entries[id].path # <<>>}
\* Paths, globs and tags name exactly the tasks that are registered under them,
\* and the trie of a space keeps nothing else, whatever came and went.
NamesFound ==
  /\ \A space \in Spaces :
       /\ DOMAIN names[space] = {<<>>} \cup UNION {Above(entries[id].path) : id \in Placed(space)}
       /\ \A id \in Placed(space) : Resolve(names[space], entries[id].path) = id
       /\ \A pattern \in Patterns :
            GlobWalk(names[space], pattern) = {id \in Placed(space) : Fits(pattern, entries[id].path)}
  /\ \A tag \in Tags : tagged[tag] = {id \in Live : tag \in entries[id].tags}

Covers(x, id) == x[1] = entries[id].space
  /\ \/ x[2] = entries[id].path
     \/ x[3] = "subtree" /\ IsPrefix(x[2], entries[id].path)
HearsOf(s, id) == id \in Live /\ entries[id].path # <<>> /\ \E x \in bySub[s] : Covers(x, id)
\* A subscriber has been told once of each task in what it subscribed to, knows
\* the state it is in, and knows no other, however its subscriptions overlap.
SubscribersHear ==
  \A s \in Live : \A id \in 1..MaxTasks :
    IF HearsOf(s, id) THEN seen[s][id] = [came |-> 1, up |-> entries[id].up]
    ELSE seen[s][id].came = 0

\* Once a message is settled, who watches a selection knows whether any task of
\* it is active, though watches are looked at only after some changes.
WatchersTold ==
  ~Due => \A k \in DOMAIN watches :
            watches[k].open => watches[k].told = AnyActive(watches[k].sel, entries)
=============================================================================
