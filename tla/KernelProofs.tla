---------------------------- MODULE KernelProofs ----------------------------
(***************************************************************************)
(* What holds of the kernel for any tasks, dependencies, answers and       *)
(* budget: types, counters and timers; then what it decides: no decision   *)
(* is forgotten, the moves it makes are those of an orchestrator (module   *)
(* Orchestrator), and what it has cached task by task is what the whole    *)
(* graph says.                                                             *)
(***************************************************************************)
EXTENDS Kernel, FiniteSetTheorems, WellFoundedInduction, TLAPS

(* What the other proofs rest on: the types, with counters that might be   *)
(* negative as far as this invariant knows, and what is true of ids that   *)
(* name no task.                                                           *)
Types ==
  /\ phase \in {"recv", "settle", "drain", "drive", "exited"}
  /\ steps \in Nat /\ quitting \in BOOLEAN
  /\ registered \subseteq issued /\ issued \subseteq Tasks
  /\ edges \subseteq registered \X registered
  /\ pins \subseteq registered /\ vetoed \subseteq registered /\ killed \subseteq registered
  /\ wanted \subseteq registered /\ supported \subseteq registered
  /\ state \in [Tasks -> States]
  /\ epoch \in [Tasks -> Nat]
  /\ wantedParents \in [Tasks -> Int] /\ activeDependents \in [Tasks -> Int]
  /\ dirty \subseteq registered /\ toDrive \subseteq registered
  /\ effects \in [Tasks -> Seq(Effects)]
  /\ timers \subseteq [task: Tasks, epoch: Nat, purpose: Purposes]

Gone ==
  \A t \in Tasks \ registered :
    /\ state[t] = "Idle" /\ effects[t] = <<>>
    /\ wantedParents[t] = 0 /\ activeDependents[t] = 0

(* Queued effects: none of an id that names no task. *)
EffectsFit(fx) ==
  /\ fx \in [Tasks -> Seq(Effects)]
  /\ \A x \in Tasks \ registered : fx[x] = <<>>

Resting == phase \in {"recv", "settle", "exited"} => toDrive = {}

Shape == Types /\ Gone /\ Resting
-----------------------------------------------------------------------------
(* Operators *)

LEMMA OneType == ASSUME NEW b \in BOOLEAN PROVE One(b) \in {0, 1}
BY DEF One

(* Queueing answers keeps the queue well typed, and empty for ids that     *)
(* name no task.                                                           *)
LEMMA AnswersFit ==
  ASSUME NEW reported, EffectsFit(reported),
         NEW heard, NEW commanded \in SUBSET registered, NEW cmd,
         commanded = {} \/ cmd \in Sent,
         NEW fx \in Answers(heard, commanded, cmd)
  PROVE  EffectsFit([x \in Tasks |-> reported[x] \o fx[x]])
<1> DEFINE May(x) ==
        {<<>>} \cup (IF x \in registered /\ \E t \in heard : x \in Listeners[t]
                     THEN Replies["Msg"] ELSE {})
               \cup (IF x \in commanded THEN Replies[cmd] ELSE {})
<1>1. ASSUME NEW x \in Tasks PROVE May(x) \subseteq Seq(Effects)
  <2>1. Replies["Msg"] \subseteq Seq(Effects)
    BY KernelAssumption DEF KernelAssumption, Sent
  <2>2. x \in commanded => Replies[cmd] \subseteq Seq(Effects)
    BY KernelAssumption DEF KernelAssumption, Sent
  <2>3. <<>> \in Seq(Effects)
    OBVIOUS
  <2> QED BY <2>1, <2>2, <2>3
<1>2. ASSUME NEW x \in Tasks \ registered PROVE May(x) = {<<>>}
  OBVIOUS
<1>3. \A x \in Tasks : fx[x] \in May(x)
  BY DEF Answers
<1> HIDE DEF May
<1>4. ASSUME NEW x \in Tasks PROVE reported[x] \o fx[x] \in Seq(Effects)
  <2>1. fx[x] \in Seq(Effects) /\ reported[x] \in Seq(Effects)
    BY <1>1, <1>3 DEF EffectsFit
  <2> QED BY <2>1
<1>5. ASSUME NEW x \in Tasks \ registered PROVE reported[x] \o fx[x] = <<>>
  <2>1. fx[x] = <<>> /\ reported[x] = <<>>
    BY <1>2, <1>3 DEF EffectsFit
  <2> QED BY <2>1
<1> QED BY <1>4, <1>5 DEF EffectsFit

LEMMA QueueShape ==
  ASSUME NEW reported, EffectsFit(reported),
         NEW heard, NEW commanded \in SUBSET registered, NEW cmd,
         commanded = {} \/ cmd \in Sent,
         Queue(reported, heard, commanded, cmd)
  PROVE  EffectsFit(effects')
<1>1. PICK fx \in Answers(heard, commanded, cmd) :
        effects' = [x \in Tasks |-> reported[x] \o fx[x]]
  BY DEF Queue
<1> QED BY <1>1, AnswersFit

LEMMA ShapeEffects == ASSUME Shape PROVE EffectsFit(effects)
BY DEF Shape, Types, Gone, EffectsFit

(* What an action that moves no task must leave of the queue. *)
LEMMA EffectsShape ==
  ASSUME Shape, UNCHANGED <<graph, task, intent, cache, counters, dirty, timers>>,
         EffectsFit(effects'), phase' = "settle", steps' \in Nat, toDrive' = {}
  PROVE  Shape'
<1>1. Types'
  BY DEF Shape, Types, EffectsFit, graph, task, intent, cache, counters
<1>2. Gone'
  BY DEF Shape, Gone, EffectsFit, graph, task, counters
<1> QED BY <1>1, <1>2 DEF Shape, Resting

(* A change of state keeps the shape of what it touches. *)
LEMMA SetStateShape ==
  ASSUME Types, NEW t \in registered, NEW s \in States, SetState(t, s)
  PROVE  /\ state' \in [Tasks -> States]
         /\ epoch' \in [Tasks -> Nat]
         /\ killed' \subseteq registered
         /\ activeDependents' \in [Tasks -> Int]
         /\ dirty' \subseteq registered
         /\ \A x \in Tasks \ registered :
              state'[x] = state[x] /\ activeDependents'[x] = activeDependents[x]
<1>1. CASE state[t] = s
  BY <1>1 DEF SetState, Types, task
<1>2. CASE state[t] # s
  <2>1. state' = [state EXCEPT ![t] = s] /\ epoch' = Bumped({t}, {})
        /\ killed' = killed \ {t} /\ activeDependents' = ActiveAfter(t, s)
        /\ dirty' = dirty \cup Concerns(t, s)
    BY <1>2 DEF SetState
  <2>2. t \in Tasks
    BY DEF Types
  <2>3. \A d \in Tasks : ActiveAfter(t, s)[d] \in Int
    BY DEF ActiveAfter, Types, One
  <2>4. activeDependents' \in [Tasks -> Int]
    BY <2>1, <2>3 DEF ActiveAfter
  <2>5. Bumped({t}, {}) \in [Tasks -> Nat]
    BY DEF Bumped, Types, One
  <2>6. Concerns(t, s) \subseteq registered
    BY DEF Concerns, ParentsOf, DepsOf
  <2>7. \A x \in Tasks \ registered : activeDependents'[x] = activeDependents[x]
    BY <2>1 DEF ActiveAfter, DepsOf
  <2>8. state' \in [Tasks -> States] /\ \A x \in Tasks \ registered : state'[x] = state[x]
    BY <2>1, <2>2 DEF Types
  <2> QED BY <2>1, <2>4, <2>5, <2>6, <2>7, <2>8 DEF Types
<1> QED BY <1>1, <1>2

LEMMA AfterReportType ==
  ASSUME Types, NEW t \in Tasks, NEW r PROVE AfterReport(t, r) \in States
BY DEF AfterReport, Types, States

LEMMA OnReportShape ==
  ASSUME Types, NEW t \in registered, NEW r,
         NEW reported, EffectsFit(reported),
         OnReport(t, r, reported)
  PROVE  /\ SetState(t, AfterReport(t, r))
         /\ EffectsFit(effects')
         /\ timers' \subseteq [task: Tasks, epoch: Nat, purpose: Purposes]
         /\ timers \subseteq timers'
<1> DEFINE s == AfterReport(t, r)
           moved == {x \in {t} : state[x] # s}
<1>1. SetState(t, s) /\ Queue(reported, moved, {}, "none")
      /\ timers' = timers \cup {Timer(x, epoch'[x], "retry") :
                                  x \in {y \in moved : s = "Backoff"}}
  BY DEF OnReport
<1>2. t \in Tasks /\ s \in States
  BY AfterReportType DEF Types
<1>3. epoch' \in [Tasks -> Nat]
  BY <1>1, <1>2, SetStateShape
<1>4. EffectsFit(effects')
  BY <1>1, QueueShape
<1>5. timers' \subseteq [task: Tasks, epoch: Nat, purpose: Purposes]
  BY <1>1, <1>2, <1>3 DEF Timer, Types, Purposes
<1> QED BY <1>1, <1>4, <1>5

LEMMA GracesType ==
  ASSUME NEW S \in SUBSET Tasks, NEW K \in SUBSET Tasks, NEW e \in [Tasks -> Nat]
  PROVE  Graces(S, K, e) \subseteq [task: Tasks, epoch: Nat, purpose: Purposes]
BY DEF Graces, Timer, Purposes

LEMMA BumpedType ==
  ASSUME Types, NEW C, NEW K PROVE Bumped(C, K) \in [Tasks -> Nat]
BY DEF Types, Bumped, One
-----------------------------------------------------------------------------
(* Shape is inductive: one lemma per action. *)

LEMMA ReceivePhase ==
  ASSUME Receive, Shape
  PROVE  phase = "recv" /\ phase' = "settle" /\ steps' = steps
         /\ toDrive = {} /\ toDrive' = {}
BY DEF Receive, Shape, Resting

LEMMA InitShape == Init => Shape
<1> SUFFICES ASSUME Init PROVE Shape
  OBVIOUS
<1>1. effects \in [Tasks -> Seq(Effects)] /\ state \in [Tasks -> States]
      /\ epoch \in [Tasks -> Nat]
      /\ wantedParents \in [Tasks -> Int] /\ activeDependents \in [Tasks -> Int]
  BY DEF Init, States
<1>2. Types
  BY <1>1 DEF Init, Types
<1>3. Gone /\ Resting
  BY DEF Init, Gone, Resting
<1> QED BY <1>2, <1>3 DEF Shape

LEMMA TaskReportShape ==
  ASSUME Shape, NEW t \in Tasks, NEW r \in Effects, TaskReport(t, r)
  PROVE  Shape'
<1>1. phase' = "settle" /\ steps' = steps /\ toDrive' = {}
  BY ReceivePhase DEF TaskReport
<1>2. t \in registered /\ OnReport(t, r, effects)
      /\ UNCHANGED <<graph, intent, cache, wantedParents>>
  BY DEF TaskReport
<1>3. Types
  BY DEF Shape
<1>4. /\ SetState(t, AfterReport(t, r))
      /\ EffectsFit(effects')
      /\ timers' \subseteq [task: Tasks, epoch: Nat, purpose: Purposes]
  BY <1>2, <1>3, OnReportShape, ShapeEffects
<1>5. AfterReport(t, r) \in States
  BY <1>3, AfterReportType
<1>6. /\ state' \in [Tasks -> States] /\ epoch' \in [Tasks -> Nat]
      /\ killed' \subseteq registered
      /\ activeDependents' \in [Tasks -> Int]
      /\ dirty' \subseteq registered
      /\ \A x \in Tasks \ registered :
           state'[x] = state[x] /\ activeDependents'[x] = activeDependents[x]
  BY <1>2, <1>3, <1>4, <1>5, SetStateShape
<1>7. Types'
  BY <1>1, <1>2, <1>3, <1>4, <1>6 DEF Types, EffectsFit, graph, intent, cache
<1>8. Gone'
  BY <1>2, <1>4, <1>6 DEF Shape, Gone, EffectsFit, graph
<1> QED BY <1>1, <1>7, <1>8 DEF Shape, Resting

LEMMA TaskMsgShape ==
  ASSUME Shape, NEW t \in Tasks, TaskMsg(t) PROVE Shape'
<1>1. phase' = "settle" /\ steps' = steps /\ toDrive' = {}
  BY ReceivePhase DEF TaskMsg
<1>2. EffectsFit(effects')
  BY ShapeEffects, QueueShape DEF TaskMsg, Sent
<1> QED BY <1>1, <1>2, EffectsShape DEF TaskMsg, Shape, Types

LEMMA SetLabelShape ==
  ASSUME Shape, NEW I, SetLabel(I) PROVE Shape'
<1>1. phase' = "settle" /\ steps' = steps /\ toDrive' = {}
  BY ReceivePhase DEF SetLabel
<1>2. EffectsFit(effects')
  BY ShapeEffects, QueueShape DEF SetLabel
<1> QED BY <1>1, <1>2, EffectsShape DEF SetLabel, Shape, Types

LEMMA CommandShape ==
  ASSUME Shape, NEW I \in SUBSET registered,
         NEW newPins \in SUBSET registered, NEW newVetoed \in SUBSET registered,
         NEW revived \in SUBSET registered, NEW stopped \in SUBSET registered,
         NEW hardKilled \in SUBSET registered,
         Command(I, newPins, newVetoed, revived, stopped, hardKilled)
  PROVE  Shape'
<1> DEFINE ended == stopped \cup (hardKilled \cap UpTasks)
           changed == revived \cup ended
<1>1. phase' = "settle" /\ steps' = steps /\ toDrive' = {}
  BY ReceivePhase DEF Command
<1>2. Types
  BY DEF Shape
<1>3. /\ pins' = newPins /\ wantedParents' = PinCounts(newPins)
      /\ vetoed' = newVetoed
      /\ state' = [t \in Tasks |-> IF t \in revived THEN "Idle"
                                   ELSE IF t \in ended THEN "Stopping" ELSE state[t]]
      /\ epoch' = Bumped(changed, hardKilled)
      /\ killed' = (killed \ changed) \cup hardKilled
      /\ timers' = timers \cup Graces(stopped, hardKilled, epoch')
      /\ dirty' = dirty \cup I \cup changed
           \cup {t \in registered : (t \in vetoed) # (t \in newVetoed)}
           \cup ParentsOf({t \in changed : Satisfied(t)})
      /\ UNCHANGED <<graph, quitting, cache, activeDependents>>
  BY DEF Command
<1>4. changed \subseteq registered /\ registered \subseteq Tasks
  BY <1>2 DEF Types
<1>5. EffectsFit(effects')
  <2>1. CASE hardKilled = {}
    BY <2>1, ShapeEffects, QueueShape DEF Command, Sent
  <2>2. CASE hardKilled # {}
    BY <2>2, ShapeEffects, QueueShape DEF Command, Sent
  <2> QED BY <2>1, <2>2
<1>6. epoch' \in [Tasks -> Nat]
  BY <1>2, <1>3, BumpedType
<1>7. timers' \subseteq [task: Tasks, epoch: Nat, purpose: Purposes]
  <2>1. Graces(stopped, hardKilled, epoch') \subseteq [task: Tasks, epoch: Nat, purpose: Purposes]
    BY <1>4, <1>6, GracesType
  <2> QED BY <1>2, <1>3, <2>1 DEF Types
<1>8. wantedParents' \in [Tasks -> Int]
      /\ \A t \in Tasks \ registered : wantedParents'[t] = wantedParents[t]
  BY <1>2, <1>3 DEF Types, PinCounts, One
<1>9. state' \in [Tasks -> States]
      /\ \A t \in Tasks \ registered : state'[t] = state[t]
  BY <1>2, <1>3, <1>4 DEF Types, States
<1>10. dirty' \subseteq registered
  BY <1>2, <1>3, <1>4 DEF Types, ParentsOf
<1>11. Types'
  BY <1>1, <1>2, <1>3, <1>4, <1>5, <1>6, <1>7, <1>8, <1>9, <1>10
  DEF Types, EffectsFit, graph, cache
<1>12. Gone'
  BY <1>3, <1>5, <1>8, <1>9 DEF Shape, Gone, EffectsFit, graph
<1> QED BY <1>1, <1>11, <1>12 DEF Shape, Resting

(* The seven commands are Command with arguments of this kind. *)
Legal(I, newPins, newVetoed, revived, stopped, hardKilled) ==
  /\ I \subseteq registered
  /\ newPins \in {pins \cup I, pins \ I}
  /\ newVetoed \subseteq registered
  /\ revived \subseteq {t \in registered : state[t] \in {"Backoff", "Done", "Exited"}}
  /\ stopped \subseteq UpTasks
  /\ hardKilled \subseteq Killable
  /\ stopped = {} \/ hardKilled = {}

LEMMA CommandLegal ==
  ASSUME Shape, NEW I, ClientCommand(I)
  PROVE  \E newPins, newVetoed, revived, stopped, hardKilled :
           /\ Legal(I, newPins, newVetoed, revived, stopped, hardKilled)
           /\ Command(I, newPins, newVetoed, revived, stopped, hardKilled)
<1>1. /\ I \subseteq registered /\ vetoed \subseteq registered
      /\ Revived(I) \subseteq {t \in registered : state[t] \in {"Backoff", "Done", "Exited"}}
  BY DEF ClientCommand, Shape, Types, Revived, Demanded
<1>2. CASE Start(I)
  <2>1. Legal(I, pins \cup I, vetoed \ Demanded(I), Revived(I), {}, {})
    BY <1>1 DEF Legal
  <2> QED BY <1>2, <2>1 DEF Start
<1>3. CASE Stop(I)
  <2>1. Legal(I, pins \ I, vetoed, {}, I \cap UpTasks, {})
    BY <1>1 DEF Legal
  <2> QED BY <1>3, <2>1 DEF Stop
<1>4. CASE Kill(I)
  <2>1. Legal(I, pins \ I, vetoed, {}, {}, I \cap Killable)
    BY <1>1 DEF Legal
  <2> QED BY <1>4, <2>1 DEF Kill
<1>5. CASE Down(I)
  <2>1. Legal(I, pins \ I, vetoed, {}, {}, {})
    BY <1>1 DEF Legal
  <2> QED BY <1>5, <2>1 DEF Down
<1>6. CASE Veto(I)
  <2>1. Legal(I, pins \ I, vetoed \cup I, {}, {}, {})
    BY <1>1 DEF Legal
  <2> QED BY <1>6, <2>1 DEF Veto
<1>7. CASE RestartTasks(I)
  <2>1. Legal(I, pins \cup I, vetoed \ Demanded(I), Revived(I), I \cap UpTasks, {})
    BY <1>1 DEF Legal
  <2> QED BY <1>7, <2>1 DEF RestartTasks
<1>8. CASE ForceRestart(I)
  <2>1. Legal(I, pins \cup I, vetoed \ Demanded(I), Revived(I), {}, I \cap Killable)
    BY <1>1 DEF Legal
  <2> QED BY <1>8, <2>1 DEF ForceRestart
<1> QED BY <1>2, <1>3, <1>4, <1>5, <1>6, <1>7, <1>8 DEF ClientCommand

LEMMA ClientCommandShape ==
  ASSUME Shape, NEW I, ClientCommand(I) PROVE Shape'
<1>1. PICK newPins, newVetoed, revived, stopped, hardKilled :
        /\ Legal(I, newPins, newVetoed, revived, stopped, hardKilled)
        /\ Command(I, newPins, newVetoed, revived, stopped, hardKilled)
  BY CommandLegal
<1>2. newPins \subseteq registered /\ newVetoed \subseteq registered
  BY <1>1 DEF Legal, Shape, Types
<1>3. revived \subseteq registered /\ stopped \subseteq registered
      /\ hardKilled \subseteq registered /\ I \subseteq registered
  BY <1>1 DEF Legal, UpTasks, Killable
<1> QED BY <1>1, <1>2, <1>3, CommandShape

LEMMA RegisterShape ==
  ASSUME Shape, NEW t \in Tasks, NEW D \in SUBSET Tasks, NEW pinned \in BOOLEAN,
         Register(t, D, pinned)
  PROVE  Shape'
<1>1. phase' = "settle" /\ steps' = steps /\ toDrive' = {}
  BY ReceivePhase DEF Register
<1>2. /\ t \notin issued /\ issued' = issued \cup {t}
      /\ UNCHANGED <<task, vetoed, quitting, cache, activeDependents, timers>>
  BY DEF Register
<1>3. CASE D \subseteq registered
  <2>1. /\ registered' = registered \cup {t}
        /\ edges' = edges \cup {<<t, d>> : d \in D}
        /\ pins' = IF pinned THEN pins \cup {t} ELSE pins
        /\ wantedParents' = [wantedParents EXCEPT ![t] = One(pinned)]
        /\ dirty' = dirty \cup {t} \cup D
        /\ Queue(effects, {t}, {}, "none")
    BY <1>3 DEF Register
  <2>2. EffectsFit(effects')
    BY <2>1, ShapeEffects, QueueShape
  <2>3. /\ registered' \subseteq issued' /\ issued' \subseteq Tasks
        /\ edges' \subseteq registered' \X registered'
        /\ pins' \subseteq registered' /\ dirty' \subseteq registered'
        /\ wantedParents' \in [Tasks -> Int]
    BY <1>2, <1>3, <2>1, OneType DEF Shape, Types
  <2>5. Types'
    BY <1>1, <1>2, <2>1, <2>2, <2>3 DEF Shape, Types, EffectsFit, task, cache
  <2>4. Gone'
    BY <1>2, <2>1, <2>2 DEF Shape, Types, Gone, EffectsFit, task
  <2> QED BY <1>1, <2>5, <2>4 DEF Shape, Resting
<1>4. CASE ~(D \subseteq registered)
  <2>1. UNCHANGED <<registered, edges, pins, wantedParents, dirty, effects>>
    BY <1>4 DEF Register
  <2>2. Types'
    BY <1>1, <1>2, <2>1 DEF Shape, Types, task, cache
  <2>3. Gone'
    BY <1>2, <2>1 DEF Shape, Types, Gone, task
  <2> QED BY <1>1, <2>2, <2>3 DEF Shape, Resting
<1> QED BY <1>3, <1>4

LEMMA QuitShape == ASSUME Shape, Quit PROVE Shape'
BY DEF Quit, Shape, Types, Gone, Resting, graph, task, cache, counters

LEMMA FiniteSets ==
  ASSUME Types
  PROVE  /\ IsFiniteSet(Tasks) /\ IsFiniteSet(registered)
         /\ \A S \in SUBSET registered : IsFiniteSet(S) /\ Cardinality(S) \in Nat
<1>1. IsFiniteSet(Tasks) /\ registered \subseteq Tasks
  BY KernelAssumption DEF KernelAssumption, Types
<1>2. \A S \in SUBSET registered : IsFiniteSet(S)
  BY <1>1, FS_Subset
<1> QED BY <1>1, <1>2, FS_CardinalityType

LEMMA RemoveShape ==
  ASSUME Shape, NEW I, Remove(I) PROVE Shape'
<1> DEFINE Lost(P, d) == Cardinality({p \in P : <<p, d>> \in edges})
           Without(f, x) == [t \in Tasks |-> IF t \in I THEN x ELSE f[t]]
<1>1. phase' = "settle" /\ steps' = steps /\ toDrive' = {}
  BY ReceivePhase DEF Remove
<1>2. Types
  BY DEF Shape
<1>3. /\ I \subseteq registered
      /\ registered' = registered \ I
      /\ edges' = {e \in edges : e[1] \notin I /\ e[2] \notin I}
      /\ pins' = pins \ I
      /\ vetoed' = vetoed \ I /\ killed' = killed \ I
      /\ wanted' = wanted \ I /\ supported' = supported \ I
      /\ wantedParents' = [d \in Tasks |->
           IF d \in I THEN 0 ELSE wantedParents[d] - Lost(I \cap wanted, d)]
      /\ activeDependents' = [d \in Tasks |->
           IF d \in I THEN 0
           ELSE activeDependents[d] - Lost({t \in I : state[t] \in Active}, d)]
      /\ state' = Without(state, "Idle")
      /\ epoch' = Without(epoch, 0)
      /\ dirty' = QueueWithout(I)
      /\ \E fx \in Answers(I, {}, "none") :
           effects' = [x \in Tasks |-> IF x \in I THEN <<>> ELSE effects[x] \o fx[x]]
      /\ UNCHANGED <<issued, quitting, timers>>
  BY DEF Remove
<1>4. \A P \in SUBSET registered : \A d \in Tasks :
        /\ Lost(P, d) \in Nat
        /\ d \notin registered => Lost(P, d) = 0
  <2> SUFFICES ASSUME NEW P \in SUBSET registered, NEW d \in Tasks
               PROVE  Lost(P, d) \in Nat /\ (d \notin registered => Lost(P, d) = 0)
    OBVIOUS
  <2>1. Lost(P, d) \in Nat
    BY <1>2, FiniteSets
  <2>2. d \notin registered => {p \in P : <<p, d>> \in edges} = {}
    BY <1>2 DEF Types
  <2> QED BY <2>1, <2>2, FS_EmptySet
<1> HIDE DEF Lost
<1>5. I \cap wanted \subseteq registered /\ {t \in I : state[t] \in Active} \subseteq registered
  BY <1>3
<1>6. /\ wantedParents' \in [Tasks -> Int] /\ activeDependents' \in [Tasks -> Int]
      /\ \A d \in Tasks \ registered' : wantedParents'[d] = 0 /\ activeDependents'[d] = 0
  <2> DEFINE W == I \cap wanted
             A == {t \in I : state[t] \in Active}
  <2>1. \A d \in Tasks : /\ Lost(W, d) \in Int /\ Lost(A, d) \in Int
                         /\ d \notin registered => Lost(W, d) = 0 /\ Lost(A, d) = 0
    BY <1>4, <1>5
  <2>2. /\ wantedParents' = [d \in Tasks |->
             IF d \in I THEN 0 ELSE wantedParents[d] - Lost(W, d)]
        /\ activeDependents' = [d \in Tasks |->
             IF d \in I THEN 0 ELSE activeDependents[d] - Lost(A, d)]
    BY <1>3
  <2>3. registered' = registered \ I
    BY <1>3
  <2> HIDE DEF W, A
  <2> QED BY <1>2, <2>1, <2>2, <2>3 DEF Shape, Types, Gone
<1>7. EffectsFit(effects)'
  <2>1. PICK fx \in Answers(I, {}, "none") :
          effects' = [x \in Tasks |-> IF x \in I THEN <<>> ELSE effects[x] \o fx[x]]
    BY <1>3
  <2> DEFINE fits == [x \in Tasks |-> effects[x] \o fx[x]]
  <2>2. EffectsFit(fits)
    BY <2>1, ShapeEffects, AnswersFit
  <2>3. effects' = [x \in Tasks |-> IF x \in I THEN <<>> ELSE fits[x]]
    BY <2>1
  <2>4. <<>> \in Seq(Effects)
    OBVIOUS
  <2> HIDE DEF fits
  <2> QED BY <1>3, <2>2, <2>3, <2>4 DEF EffectsFit
<1>8. dirty' \subseteq registered' /\ toDrive' \subseteq registered'
  BY <1>1, <1>2, <1>3 DEF QueueWithout, ParentsOf, Types
<1>9. /\ state' \in [Tasks -> States] /\ epoch' \in [Tasks -> Nat]
      /\ \A t \in Tasks \ registered' : state'[t] = "Idle"
  BY <1>2, <1>3 DEF Shape, Types, States, Gone
<1>10. /\ edges' \subseteq registered' \X registered'
       /\ registered' \subseteq issued' /\ issued' \subseteq Tasks
  BY <1>2, <1>3 DEF Types
<1>11. Types'
  BY <1>1, <1>2, <1>3, <1>6, <1>7, <1>8, <1>9, <1>10 DEF Types, EffectsFit
<1>12. Gone'
  BY <1>3, <1>6, <1>7, <1>9 DEF Gone, EffectsFit
<1> QED BY <1>1, <1>11, <1>12 DEF Shape, Resting

LEMMA StateTimeoutShape ==
  ASSUME Shape, NEW tm \in timers, StateTimeout(tm) PROVE Shape'
<1> DEFINE t == tm.task
           left == timers \ {tm}
           current == t \in registered /\ epoch[t] = tm.epoch
<1>1. phase' = "settle" /\ steps' = steps /\ toDrive' = {}
  BY ReceivePhase DEF StateTimeout
<1>2. Types
  BY DEF Shape
<1>3. UNCHANGED <<graph, intent, cache, wantedParents>>
  BY DEF StateTimeout
<1>4. CASE ~current \/ state[t] \notin {"Stopping", "Backoff"}
  <2>1. timers' = left /\ UNCHANGED <<task, activeDependents, dirty, effects>>
    BY <1>4 DEF StateTimeout
  <2>2. Types'
    BY <1>1, <1>2, <1>3, <2>1 DEF Types, graph, task, intent, cache
  <2>3. Gone'
    BY <1>3, <2>1 DEF Shape, Gone, graph, task
  <2> QED BY <1>1, <2>2, <2>3 DEF Shape, Resting
<1>5. CASE current /\ state[t] = "Stopping" /\ t \notin killed
  <2>1. /\ killed' = killed \cup {t}
        /\ epoch' = Bumped({}, {t})
        /\ timers' = left \cup Graces({}, {t}, epoch')
        /\ Queue(effects, {}, {t}, "Kill")
        /\ UNCHANGED <<state, activeDependents, dirty>>
    BY <1>5 DEF StateTimeout
  <2>2. EffectsFit(effects')
    BY <1>5, <2>1, ShapeEffects, QueueShape DEF Sent
  <2>3. epoch' \in [Tasks -> Nat]
    BY <1>2, <2>1, BumpedType
  <2>4. Graces({}, {t}, epoch') \subseteq [task: Tasks, epoch: Nat, purpose: Purposes]
    BY <1>2, <1>5, <2>3, GracesType DEF Types
  <2>5. Types'
    BY <1>1, <1>2, <1>3, <1>5, <2>1, <2>2, <2>3, <2>4
    DEF Types, EffectsFit, graph, intent, cache
  <2>6. Gone'
    BY <1>3, <2>1, <2>2 DEF Shape, Gone, EffectsFit, graph
  <2> QED BY <1>1, <2>5, <2>6 DEF Shape, Resting
<1>6. CASE /\ current /\ state[t] \in {"Stopping", "Backoff"}
           /\ ~(state[t] = "Stopping" /\ t \notin killed)
  <2>1. /\ SetState(t, "Idle") /\ timers' = left
        /\ Queue(effects, {t}, {}, "none")
    BY <1>6 DEF StateTimeout
  <2>2. EffectsFit(effects')
    BY <2>1, ShapeEffects, QueueShape
  <2>3. /\ state' \in [Tasks -> States] /\ epoch' \in [Tasks -> Nat]
        /\ killed' \subseteq registered
        /\ activeDependents' \in [Tasks -> Int]
        /\ dirty' \subseteq registered
        /\ \A x \in Tasks \ registered :
             state'[x] = state[x] /\ activeDependents'[x] = activeDependents[x]
    BY <1>2, <1>6, <2>1, SetStateShape DEF States
  <2>4. Types'
    BY <1>1, <1>2, <1>3, <2>1, <2>2, <2>3 DEF Types, EffectsFit, graph, intent, cache
  <2>5. Gone'
    BY <1>3, <2>2, <2>3 DEF Shape, Gone, EffectsFit, graph
  <2> QED BY <1>1, <2>4, <2>5 DEF Shape, Resting
<1> QED BY <1>4, <1>5, <1>6

LEMMA LeavePhase ==
  ASSUME Leave PROVE phase' \in {"recv", "exited"} /\ steps' = 0
BY DEF Leave

LEMMA EndTurnPhase ==
  ASSUME EndTurn, steps \in Nat
  PROVE  phase' \in {"settle", "recv", "exited"} /\ steps' \in Nat
BY LeavePhase DEF EndTurn

LEMMA ApplyEffectShape ==
  ASSUME Shape, NEW t \in Tasks, ApplyEffect(t) PROVE Shape'
<1> DEFINE r == Head(effects[t])
           rest == [effects EXCEPT ![t] = Tail(@)]
<1>1. /\ phase = "settle" /\ effects[t] # <<>>
      /\ UNCHANGED <<graph, intent, cache, wantedParents, toDrive>>
      /\ OnReport(t, r, rest)
      /\ EndTurn
  BY DEF ApplyEffect
<1>2. Types
  BY DEF Shape
<1>3. t \in registered /\ toDrive = {}
  BY <1>1 DEF Shape, Gone, Resting
<1>4. EffectsFit(rest)
  <2>1. Tail(effects[t]) \in Seq(Effects)
    BY <1>1, <1>2 DEF Types
  <2> QED BY <1>3, <2>1, ShapeEffects DEF EffectsFit
<1> HIDE DEF rest, r
<1>5. /\ SetState(t, AfterReport(t, r))
      /\ EffectsFit(effects')
      /\ timers' \subseteq [task: Tasks, epoch: Nat, purpose: Purposes]
  BY <1>1, <1>2, <1>3, <1>4, OnReportShape
<1>6. AfterReport(t, r) \in States
  BY <1>2, AfterReportType
<1>7. /\ state' \in [Tasks -> States] /\ epoch' \in [Tasks -> Nat]
      /\ killed' \subseteq registered
      /\ activeDependents' \in [Tasks -> Int]
      /\ dirty' \subseteq registered
      /\ \A x \in Tasks \ registered :
           state'[x] = state[x] /\ activeDependents'[x] = activeDependents[x]
  BY <1>2, <1>3, <1>5, <1>6, SetStateShape
<1>8. phase' \in {"settle", "recv", "exited"} /\ steps' \in Nat
  BY <1>1, <1>2, EndTurnPhase DEF Types
<1>9. Types'
  BY <1>1, <1>2, <1>5, <1>7, <1>8 DEF Types, EffectsFit, graph, intent, cache
<1>10. Gone'
  BY <1>1, <1>5, <1>7 DEF Shape, Gone, EffectsFit, graph
<1> QED BY <1>1, <1>3, <1>9, <1>10 DEF Shape, Resting

LEMMA RecomputeShape ==
  ASSUME Shape, NEW t \in Tasks, Recompute(t) PROVE Shape'
<1> DEFINE isWanted == ComputeWanted(t)
           isSupported == ComputeSupported(t, isWanted)
           children == Told(t, isWanted)
           parents == IF isSupported # (t \in supported) THEN ParentsOf({t}) ELSE {}
<1>1. /\ t \in dirty
      /\ wanted' = IF isWanted THEN wanted \cup {t} ELSE wanted \ {t}
      /\ supported' = IF isSupported THEN supported \cup {t} ELSE supported \ {t}
      /\ wantedParents' = [d \in Tasks |->
           IF d \in children THEN wantedParents[d] + One(isWanted) - One(~isWanted)
                             ELSE wantedParents[d]]
      /\ dirty' = (dirty \ {t}) \cup children \cup parents
      /\ toDrive' = toDrive \cup {t}
      /\ phase' = IF dirty' = {} THEN "drive" ELSE "drain"
      /\ UNCHANGED <<graph, task, intent, activeDependents, steps, effects, timers>>
  BY DEF Recompute
<1>2. Types
  BY DEF Shape
<1>3. children \subseteq registered /\ parents \subseteq registered
  BY DEF Told, DepsOf, ParentsOf
<1> HIDE DEF isWanted, isSupported, children, parents
<1>4. /\ wantedParents' \in [Tasks -> Int]
      /\ \A d \in Tasks \ registered : wantedParents'[d] = wantedParents[d]
  BY <1>1, <1>2, <1>3 DEF Types, One
<1>5. wanted' \subseteq registered /\ supported' \subseteq registered
  BY <1>1, <1>2 DEF Types
<1>6. Types'
  BY <1>1, <1>2, <1>3, <1>4, <1>5 DEF Types, graph, task, intent
<1>7. Gone'
  BY <1>1, <1>4 DEF Shape, Gone, graph, task
<1> QED BY <1>1, <1>6, <1>7 DEF Shape, Resting

(* What driving a task comes to: one of three moves, or nothing. *)
LEMMA DriveCases ==
  ASSUME NEW t, Drive(t)
  PROVE  \/ /\ MustStart(t) /\ SetState(t, "Starting") /\ UNCHANGED timers
            /\ Queue(effects, {t}, {t}, "Start")
         \/ /\ MustStop(t) /\ SetState(t, "Stopping")
            /\ timers' = timers \cup Graces({t}, {}, epoch')
            /\ Queue(effects, {t}, {t}, "Stop")
         \/ /\ MustCancel(t) /\ SetState(t, "Idle") /\ UNCHANGED timers
            /\ Queue(effects, {t}, {}, "none")
         \/ /\ ~MustStart(t) /\ ~MustStop(t) /\ ~MustCancel(t)
            /\ UNCHANGED <<task, activeDependents, queues>>
<1>1. CASE MustStart(t)
  BY <1>1 DEF Drive
<1>2. CASE MustStop(t)
  <2>1. ~MustStart(t)
    BY <1>2 DEF MustStart, MustStop
  <2> QED BY <1>2, <2>1 DEF Drive
<1>3. CASE MustCancel(t)
  <2>1. ~MustStart(t) /\ ~MustStop(t)
    BY <1>3 DEF MustStart, MustStop, MustCancel, Up
  <2> QED BY <1>3, <2>1 DEF Drive
<1>4. CASE ~MustStart(t) /\ ~MustStop(t) /\ ~MustCancel(t)
  BY <1>4 DEF Drive
<1> QED BY <1>1, <1>2, <1>3, <1>4

(* A move made by driving keeps the shape of what it touches. *)
LEMMA DriveMoveShape ==
  ASSUME Shape, NEW t \in registered, NEW s \in States, NEW commanded \in SUBSET {t},
         NEW cmd \in Sent \cup {"none"}, commanded = {} \/ cmd \in Sent,
         SetState(t, s), Queue(effects, {t}, commanded, cmd),
         timers' = timers \/ timers' = timers \cup Graces({t}, {}, epoch'),
         UNCHANGED <<graph, intent, cache, wantedParents>>,
         toDrive' = toDrive \ {t},
         phase' \in {"settle", "recv", "exited", "drive"}, steps' \in Nat
  PROVE  Types' /\ Gone'
<1>1. Types
  BY DEF Shape
<1>2. EffectsFit(effects')
  BY ShapeEffects, QueueShape
<1>3. /\ state' \in [Tasks -> States] /\ epoch' \in [Tasks -> Nat]
      /\ killed' \subseteq registered
      /\ activeDependents' \in [Tasks -> Int]
      /\ dirty' \subseteq registered
      /\ \A x \in Tasks \ registered :
           state'[x] = state[x] /\ activeDependents'[x] = activeDependents[x]
  BY <1>1, SetStateShape
<1>4. timers' \subseteq [task: Tasks, epoch: Nat, purpose: Purposes]
  <2>1. Graces({t}, {}, epoch') \subseteq [task: Tasks, epoch: Nat, purpose: Purposes]
    BY <1>1, <1>3, GracesType DEF Types
  <2> QED BY <1>1, <2>1 DEF Types
<1>5. Types'
  BY <1>1, <1>2, <1>3, <1>4 DEF Types, EffectsFit, graph, intent, cache
<1>6. Gone'
  BY <1>2, <1>3 DEF Shape, Gone, EffectsFit, graph
<1> QED BY <1>5, <1>6

LEMMA DriveShape ==
  ASSUME Shape, NEW t \in Tasks, Drive(t) PROVE Shape'
<1>1. /\ phase = "drive" /\ t \in toDrive /\ toDrive' = toDrive \ {t}
      /\ UNCHANGED <<graph, intent, cache, wantedParents>>
      /\ IF toDrive' = {} THEN EndTurn ELSE UNCHANGED <<phase, steps>>
  BY DEF Drive
<1>2. t \in registered /\ Types
  BY <1>1 DEF Shape, Types
<1>3. phase' \in {"settle", "recv", "exited", "drive"} /\ steps' \in Nat
      /\ (phase' # "drive" => toDrive' = {})
  BY <1>1, <1>2, EndTurnPhase DEF Types
<1>4. Types' /\ Gone'
  <2>1. CASE /\ SetState(t, "Starting") /\ UNCHANGED timers
             /\ Queue(effects, {t}, {t}, "Start")
    BY <1>1, <1>2, <1>3, <2>1, DriveMoveShape DEF States, Sent
  <2>2. CASE /\ SetState(t, "Stopping")
             /\ timers' = timers \cup Graces({t}, {}, epoch')
             /\ Queue(effects, {t}, {t}, "Stop")
    BY <1>1, <1>2, <1>3, <2>2, DriveMoveShape DEF States, Sent
  <2>3. CASE /\ SetState(t, "Idle") /\ UNCHANGED timers
             /\ Queue(effects, {t}, {}, "none")
    BY <1>1, <1>2, <1>3, <2>3, DriveMoveShape DEF States
  <2>4. CASE UNCHANGED <<task, activeDependents, queues>>
    <3>1. Types'
      BY <1>1, <1>2, <1>3, <2>4 DEF Types, graph, task, intent, cache, queues
    <3>2. Gone'
      BY <1>1, <2>4 DEF Shape, Gone, graph, task, queues
    <3> QED BY <3>1, <3>2
  <2> QED BY <2>1, <2>2, <2>3, <2>4, DriveCases
<1> QED BY <1>3, <1>4 DEF Shape, Resting

LEMMA SettledShape == ASSUME Shape, Settled PROVE Shape'
<1>1. phase = "settle" /\ toDrive = {} /\ phase' \in {"recv", "exited"} /\ steps' = 0
  BY LeavePhase DEF Settled, Shape, Resting
<1>2. UNCHANGED <<graph, task, intent, cache, counters, toDrive, queues>>
  BY DEF Settled
<1>3. Types'
  BY <1>1, <1>2 DEF Shape, Types, graph, task, intent, cache, counters, queues
<1>4. Gone'
  BY <1>2 DEF Shape, Gone, graph, task, counters, queues
<1> QED BY <1>1, <1>2, <1>3, <1>4 DEF Shape, Resting

LEMMA StutterShape == ASSUME Shape, UNCHANGED vars PROVE Shape'
<1>1. UNCHANGED <<graph, task, intent, cache, counters, loop, queues>>
  BY DEF vars
<1>2. Types'
  BY <1>1 DEF Shape, Types, graph, task, intent, cache, counters, loop, queues
<1>3. Gone'
  BY <1>1 DEF Shape, Gone, graph, task, counters, queues
<1> QED BY <1>1, <1>2, <1>3 DEF Shape, Resting, loop

LEMMA NextShape == ASSUME Shape, [Next]_vars PROVE Shape'
<1>1. CASE Input
  <2>1. ASSUME NEW t \in Tasks, NEW D \in DepChoices[t], NEW pinned \in BOOLEAN,
               Register(t, D, pinned)
        PROVE  Shape'
    <3>1. D \in SUBSET Tasks
      BY KernelAssumption DEF KernelAssumption
    <3> QED BY <2>1, <3>1, RegisterShape
  <2>2. ASSUME NEW I \in Selections, ClientCommand(I) \/ Remove(I) \/ SetLabel(I)
        PROVE  Shape'
    BY <2>2, ClientCommandShape, RemoveShape, SetLabelShape
  <2>3. ASSUME NEW t \in Tasks, TaskMsg(t) \/ \E r \in Effects : TaskReport(t, r)
        PROVE  Shape'
    BY <2>3, TaskMsgShape, TaskReportShape
  <2> QED BY <1>1, <2>1, <2>2, <2>3, QuitShape DEF Input
<1>2. CASE Timeout
  BY <1>2, StateTimeoutShape DEF Timeout
<1>3. CASE Work
  BY <1>3, ApplyEffectShape, RecomputeShape, DriveShape, SettledShape DEF Work
<1>4. CASE Exited \/ UNCHANGED vars
  BY <1>4, StutterShape DEF Exited
<1> QED BY <1>1, <1>2, <1>3, <1>4 DEF Next

THEOREM ShapeHolds == Spec => []Shape
BY InitShape, NextShape, PTL DEF Spec

(* Every queued id names a live task, whatever is removed and whenever:    *)
(* drive_task can rely on its expect("queued id live").                    *)
THEOREM QueuedStayLive == Spec => []QueuedAreLive
<1>1. Shape => QueuedAreLive
  BY DEF Shape, Types, QueuedAreLive
<1> QED BY <1>1, ShapeHolds, PTL
-----------------------------------------------------------------------------
(* Timers.  What makes TimerMatchesState inductive: a timer was armed for  *)
(* an id that was handed out, in an epoch that task has reached.           *)
TimersKnown ==
  \A tm \in timers :
    /\ tm.task \in issued
    /\ tm.task \in registered => tm.epoch <= epoch[tm.task]

TimersInv == TimersKnown /\ TimerMatchesState

(* What TimerMatchesState says of one task. *)
TimerFits(t) ==
  /\ t \in killed => state[t] = "Stopping"
  /\ {tm.purpose : tm \in CurrentTimers(t)} = Awaited(state[t], t \in killed)

LEMMA TimerFitsAll == TimerMatchesState <=> \A t \in registered : TimerFits(t)
BY DEF TimerMatchesState, TimerFits

(* A task that nothing happens to keeps its timers. *)
LEMMA TimerKept ==
  ASSUME NEW t, TimerFits(t), epoch'[t] = epoch[t], state'[t] = state[t],
         t \in killed <=> t \in killed',
         {tm \in timers' : tm.task = t /\ tm.epoch = epoch[t]} = CurrentTimers(t)
  PROVE  TimerFits(t)'
<1>1. CurrentTimers(t)' = CurrentTimers(t)
  BY DEF CurrentTimers
<1>2. (t \in killed') = (t \in killed)
  OBVIOUS
<1> QED BY <1>1, <1>2 DEF TimerFits

(* A task that enters an epoch has the timers armed in it, and no others. *)
LEMMA TimerArmed ==
  ASSUME Types, TimersKnown, NEW t \in registered,
         epoch'[t] \in Nat, epoch'[t] > epoch[t],
         NEW armed, \A tm \in armed : tm.task = t => tm.epoch = epoch'[t],
         armed \subseteq timers', timers' \subseteq timers \cup armed,
         {tm.purpose : tm \in {x \in armed : x.task = t}} = Awaited(state'[t], t \in killed'),
         t \in killed' => state'[t] = "Stopping"
  PROVE  TimerFits(t)'
<1>1. \A tm \in timers : tm.task = t => tm.epoch # epoch'[t]
  <2> SUFFICES ASSUME NEW tm \in timers, tm.task = t PROVE tm.epoch # epoch'[t]
    OBVIOUS
  <2>1. tm.epoch <= epoch[t] /\ tm.epoch \in Nat /\ epoch[t] \in Nat
    BY DEF Types, TimersKnown
  <2> QED BY <2>1
<1>2. CurrentTimers(t)' = {x \in armed : x.task = t}
  BY <1>1 DEF CurrentTimers
<1> QED BY <1>2 DEF TimerFits

(* A move of one task: its old timers are outdated, `armed` are its new ones. *)
LEMMA MoveTimers ==
  ASSUME Types, TimersInv, NEW t \in registered, NEW s \in States,
         state[t] # s, SetState(t, s),
         registered' = registered, issued' = issued,
         NEW gone, \A tm \in gone : tm.task = t,
         NEW armed, \A tm \in armed : tm.task = t /\ tm.epoch = epoch'[t],
         timers' = (timers \ gone) \cup armed,
         {tm.purpose : tm \in armed} = Awaited(s, FALSE)
  PROVE  TimersInv'
<1>1. state' = [state EXCEPT ![t] = s] /\ epoch' = Bumped({t}, {}) /\ killed' = killed \ {t}
  BY DEF SetState
<1>2. t \in Tasks /\ registered \subseteq Tasks
  BY DEF Types
<1>3. epoch'[t] = epoch[t] + 1 /\ epoch[t] \in Nat
      /\ \A x \in Tasks : x # t => epoch'[x] = epoch[x]
  BY <1>1, <1>2 DEF Bumped, One, Types
<1>4. TimersKnown'
  <2> SUFFICES ASSUME NEW tm \in timers'
               PROVE  /\ tm.task \in issued
                      /\ tm.task \in registered => tm.epoch <= epoch'[tm.task]
    BY DEF TimersKnown
  <2>1. CASE tm \in armed
    BY <1>3, <2>1 DEF Types
  <2>2. CASE tm \in timers
    <3>1. tm.task \in issued /\ tm.epoch \in Nat
          /\ (tm.task \in registered => tm.epoch <= epoch[tm.task])
      BY <2>2 DEF TimersInv, TimersKnown, Types
    <3> QED BY <1>2, <1>3, <3>1
  <2> QED BY <2>1, <2>2
<1>5. TimerFits(t)'
  <2>1. t \notin killed' /\ state'[t] = s
    BY <1>1, <1>2 DEF Types
  <2>2. {x \in armed : x.task = t} = armed
    OBVIOUS
  <2>3. {tm.purpose : tm \in {x \in armed : x.task = t}} = Awaited(state'[t], t \in killed')
    <3>1. (t \in killed') = FALSE
      BY <2>1
    <3> QED BY <2>1, <2>2, <3>1
  <2>4. epoch'[t] \in Nat /\ epoch'[t] > epoch[t]
    BY <1>3
  <2> QED BY <2>1, <2>3, <2>4, TimerArmed DEF TimersInv
<1>6. ASSUME NEW x \in registered, x # t PROVE TimerFits(x)'
  <2>1. TimerFits(x)
    BY TimerFitsAll DEF TimersInv
  <2>2. epoch'[x] = epoch[x] /\ state'[x] = state[x] /\ (x \in killed <=> x \in killed')
    BY <1>1, <1>2, <1>3, <1>6 DEF Types
  <2>3. {tm \in timers' : tm.task = x /\ tm.epoch = epoch[x]} = CurrentTimers(x)
    BY <1>6 DEF CurrentTimers
  <2> QED BY <2>1, <2>2, <2>3, TimerKept
<1>7. TimerMatchesState'
  BY <1>5, <1>6 DEF TimerMatchesState, TimerFits
<1> QED BY <1>4, <1>7 DEF TimersInv

LEMMA MoveUntimed ==
  ASSUME Types, TimersInv, NEW t \in registered,
         NEW s \in States \ {"Stopping", "Backoff"},
         state[t] # s, SetState(t, s),
         registered' = registered, issued' = issued,
         timers' \subseteq timers, \A tm \in timers : tm \in timers' \/ tm.task = t
  PROVE  TimersInv'
<1> DEFINE gone == timers \ timers'
           armed == {tm \in {} : TRUE}
<1>1. armed = {} /\ {tm.purpose : tm \in armed} = {}
  OBVIOUS
<1>2. Awaited(s, FALSE) = {}
  BY DEF Awaited
<1>3. /\ timers' = (timers \ gone) \cup armed /\ \A tm \in gone : tm.task = t
      /\ \A tm \in armed : tm.task = t /\ tm.epoch = epoch'[t]
  BY <1>1
<1> HIDE DEF armed, gone
<1> QED BY <1>1, <1>2, <1>3, MoveTimers

(* When no task moves and no timer is armed or lost, nothing changes. *)
LEMMA SameTimers ==
  ASSUME TimersInv, UNCHANGED <<task, timers, registered, issued>> PROVE TimersInv'
BY DEF TimersInv, TimersKnown, TimerMatchesState, CurrentTimers, task

LEMMA ReportTimers ==
  ASSUME Types, TimersInv, NEW t \in registered, NEW r, NEW reported,
         OnReport(t, r, reported), UNCHANGED graph
  PROVE  TimersInv'
<1> DEFINE s == AfterReport(t, r)
           moved == {x \in {t} : state[x] # s}
           armed == {Timer(x, epoch'[x], "retry") : x \in {y \in moved : s = "Backoff"}}
<1>1. SetState(t, s) /\ timers' = timers \cup armed
  BY DEF OnReport
<1>2. CASE state[t] = s
  <2>1. UNCHANGED <<task, timers, registered, issued>>
    BY <1>1, <1>2 DEF SetState, graph
  <2> QED BY <2>1, SameTimers
<1>3. CASE state[t] # s
  <2>1. s # "Stopping"
    BY <1>3 DEF AfterReport
  <2>2. {tm.purpose : tm \in armed} = Awaited(s, FALSE)
        /\ \A tm \in armed : tm.task = t /\ tm.epoch = epoch'[t]
    <3>1. CASE s = "Backoff"
      <4>1. armed = {Timer(t, epoch'[t], "retry")}
        BY <1>3, <3>1
      <4>2. Timer(t, epoch'[t], "retry").purpose = "retry"
            /\ Timer(t, epoch'[t], "retry").task = t
            /\ Timer(t, epoch'[t], "retry").epoch = epoch'[t]
        BY DEF Timer
      <4>3. Awaited(s, FALSE) = {"retry"}
        BY <3>1 DEF Awaited
      <4> HIDE DEF armed, s
      <4> QED BY <4>1, <4>2, <4>3
    <3>2. CASE s # "Backoff"
      <4>1. armed = {}
        BY <3>2
      <4>2. Awaited(s, FALSE) = {}
        BY <2>1, <3>2 DEF Awaited
      <4> QED BY <4>1, <4>2
    <3> QED BY <3>1, <3>2
  <2>3. timers' = (timers \ {}) \cup armed
    BY <1>1
  <2>4. s \in States /\ registered' = registered /\ issued' = issued
    BY AfterReportType DEF Types, graph
  <2> HIDE DEF s, armed
  <2> QED BY <1>1, <1>3, <2>2, <2>3, <2>4, MoveTimers
<1> QED BY <1>2, <1>3

LEMMA GracesOne ==
  ASSUME NEW t, NEW e
  PROVE  /\ Graces({t}, {}, e) = {Timer(t, e[t], "stop")}
         /\ Graces({}, {t}, e) = {Timer(t, e[t], "kill")}
BY DEF Graces

LEMMA TimerFields ==
  ASSUME NEW t, NEW e, NEW p
  PROVE  /\ Timer(t, e, p).task = t /\ Timer(t, e, p).epoch = e
         /\ Timer(t, e, p).purpose = p
         /\ {tm.purpose : tm \in {Timer(t, e, p)}} = {p}
BY DEF Timer

LEMMA StateTimeoutTimers ==
  ASSUME Shape, TimersInv, NEW tm \in timers, StateTimeout(tm) PROVE TimersInv'
<1> DEFINE t == tm.task
           left == timers \ {tm}
           current == t \in registered /\ epoch[t] = tm.epoch
<1>1. Types /\ registered' = registered /\ issued' = issued
  BY DEF StateTimeout, Shape, graph
<1>2. current => tm \in CurrentTimers(t) /\ TimerFits(t)
  BY TimerFitsAll DEF CurrentTimers, TimersInv
<1>3. CASE ~current \/ state[t] \notin {"Stopping", "Backoff"}
  <2>1. timers' = left /\ UNCHANGED task
    BY <1>3 DEF StateTimeout
  <2>2. ~current
    BY <1>2, <1>3 DEF TimerFits, Awaited
  <2>3. TimersKnown'
    BY <1>1, <2>1 DEF TimersInv, TimersKnown, task
  <2>4. ASSUME NEW x \in registered PROVE TimerFits(x)'
    <3>1. TimerFits(x)
      BY TimerFitsAll DEF TimersInv
    <3>2. {y \in timers' : y.task = x /\ y.epoch = epoch[x]} = CurrentTimers(x)
      BY <2>1, <2>2 DEF CurrentTimers
    <3> QED BY <2>1, <3>1, <3>2, TimerKept DEF task
  <2> QED BY <1>1, <2>3, <2>4 DEF TimersInv, TimerMatchesState, TimerFits
<1>4. CASE current /\ state[t] = "Stopping" /\ t \notin killed
  <2>1. /\ killed' = killed \cup {t}
        /\ epoch' = Bumped({}, {t})
        /\ timers' = left \cup {Timer(t, epoch'[t], "kill")}
        /\ UNCHANGED state
    BY <1>4, GracesOne DEF StateTimeout
  <2>2. epoch'[t] = epoch[t] + 1 /\ epoch[t] \in Nat
        /\ \A x \in Tasks : x # t => epoch'[x] = epoch[x]
    BY <1>1, <1>4, <2>1 DEF Bumped, One, Types
  <2>3. TimersKnown'
    <3> SUFFICES ASSUME NEW y \in timers'
                 PROVE  /\ y.task \in issued
                        /\ y.task \in registered => y.epoch <= epoch'[y.task]
      BY <1>1 DEF TimersKnown
    <3>1. CASE y = Timer(t, epoch'[t], "kill")
      BY <1>1, <1>4, <2>2, <3>1, TimerFields DEF Types
    <3>2. CASE y \in timers
      <4>1. y.task \in issued /\ y.epoch \in Nat
            /\ (y.task \in registered => y.epoch <= epoch[y.task])
        BY <1>1, <3>2 DEF TimersInv, TimersKnown, Types
      <4>2. CASE y.task = t
        BY <1>4, <2>2, <4>1, <4>2
      <4>3. CASE y.task # t
        BY <1>1, <2>2, <4>1, <4>3 DEF Types
      <4> QED BY <4>2, <4>3
    <3> QED BY <2>1, <3>1, <3>2
  <2>4. TimerFits(t)'
    <3> DEFINE armed == {Timer(t, epoch'[t], "kill")}
    <3>a. epoch'[t] \in Nat /\ epoch'[t] > epoch[t]
      BY <2>2
    <3>b. armed \subseteq timers' /\ timers' \subseteq timers \cup armed
      BY <2>1
    <3>1. \A y \in armed : y.task = t => y.epoch = epoch'[t]
      BY TimerFields
    <3>2. t \in killed' /\ state'[t] = "Stopping" /\ (t \in killed') = TRUE
      BY <1>4, <2>1
    <3>3. {y \in armed : y.task = t} = armed /\ {y.purpose : y \in armed} = {"kill"}
      BY TimerFields
    <3>4. Awaited(state'[t], t \in killed') = {"kill"}
      BY <3>2 DEF Awaited
    <3> HIDE DEF armed
    <3> QED BY <1>1, <1>4, <3>a, <3>b, <3>1, <3>2, <3>3, <3>4, TimerArmed DEF TimersInv
  <2>5. ASSUME NEW x \in registered, x # t PROVE TimerFits(x)'
    <3>1. TimerFits(x)
      BY TimerFitsAll DEF TimersInv
    <3>2. {y \in timers' : y.task = x /\ y.epoch = epoch[x]} = CurrentTimers(x)
      BY <2>1, <2>5, TimerFields DEF CurrentTimers
    <3>3. epoch'[x] = epoch[x] /\ state'[x] = state[x] /\ (x \in killed <=> x \in killed')
      BY <1>1, <2>1, <2>2, <2>5 DEF Types
    <3> QED BY <3>1, <3>2, <3>3, TimerKept
  <2> QED BY <1>1, <2>3, <2>4, <2>5 DEF TimersInv, TimerMatchesState, TimerFits
<1>5. CASE /\ current /\ state[t] \in {"Stopping", "Backoff"}
           /\ ~(state[t] = "Stopping" /\ t \notin killed)
  <2>1. SetState(t, "Idle") /\ timers' = timers \ {tm}
    BY <1>5 DEF StateTimeout
  <2>2. timers' \subseteq timers /\ \A y \in timers : y \in timers' \/ y.task = t
    BY <2>1
  <2>3. t \in registered /\ state[t] # "Idle" /\ "Idle" \in States \ {"Stopping", "Backoff"}
    BY <1>5 DEF States
  <2> QED BY <1>1, <2>1, <2>2, <2>3, MoveUntimed
<1> QED BY <1>3, <1>4, <1>5

LEMMA DriveTimers ==
  ASSUME Shape, TimersInv, NEW t \in Tasks, Drive(t) PROVE TimersInv'
<1>1. Types /\ registered' = registered /\ issued' = issued /\ t \in registered
  BY DEF Drive, Shape, Types, graph
<1>2. CASE MustStart(t) /\ SetState(t, "Starting") /\ UNCHANGED timers
  <2>1. timers' \subseteq timers /\ \A y \in timers : y \in timers' \/ y.task = t
    BY <1>2
  <2>2. state[t] # "Starting" /\ "Starting" \in States \ {"Stopping", "Backoff"}
    BY <1>2 DEF MustStart, States
  <2> QED BY <1>1, <1>2, <2>1, <2>2, MoveUntimed
<1>3. CASE /\ MustStop(t) /\ SetState(t, "Stopping")
           /\ timers' = timers \cup Graces({t}, {}, epoch')
  <2> DEFINE armed == {Timer(t, epoch'[t], "stop")}
  <2>1. timers' = (timers \ {}) \cup armed
    BY <1>3, GracesOne
  <2>2. {y.purpose : y \in armed} = Awaited("Stopping", FALSE)
    BY TimerFields DEF Awaited
  <2>3. \A y \in armed : y.task = t /\ y.epoch = epoch'[t]
    BY TimerFields
  <2>4. state[t] # "Stopping"
    BY <1>3 DEF MustStop, Up
  <2> HIDE DEF armed
  <2> QED BY <1>1, <1>3, <2>1, <2>2, <2>3, <2>4, MoveTimers DEF States
<1>4. CASE MustCancel(t) /\ SetState(t, "Idle") /\ UNCHANGED timers
  <2>1. timers' \subseteq timers /\ \A y \in timers : y \in timers' \/ y.task = t
    BY <1>4
  <2>2. state[t] # "Idle" /\ "Idle" \in States \ {"Stopping", "Backoff"}
    BY <1>4 DEF MustCancel, States
  <2> QED BY <1>1, <1>4, <2>1, <2>2, MoveUntimed
<1>5. CASE UNCHANGED <<task, activeDependents, queues>>
  BY <1>1, <1>5, SameTimers DEF queues
<1> QED BY <1>2, <1>3, <1>4, <1>5, DriveCases

LEMMA RegisterTimers ==
  ASSUME Shape, TimersInv, NEW t \in Tasks, NEW D, NEW pinned, Register(t, D, pinned)
  PROVE  TimersInv'
<1>1. /\ Types /\ t \notin issued /\ t \notin registered /\ issued' = issued \cup {t}
      /\ registered' = registered \/ registered' = registered \cup {t}
      /\ UNCHANGED <<task, timers>>
  BY DEF Register, Shape, Types
<1>2. \A tm \in timers : tm.task # t
  BY <1>1 DEF TimersInv, TimersKnown
<1>3. TimersKnown'
  BY <1>1, <1>2 DEF TimersInv, TimersKnown, task
<1>4. TimerFits(t)'
  <2>1. CurrentTimers(t) = {} /\ t \notin killed /\ state[t] = "Idle"
    BY <1>1, <1>2 DEF CurrentTimers, Shape, Types, Gone
  <2>2. Awaited("Idle", t \in killed) = {}
    BY DEF Awaited
  <2>3. TimerFits(t)
    BY <2>1, <2>2 DEF TimerFits
  <2> QED BY <1>1, <2>3 DEF TimerFits, CurrentTimers, task
<1>5. \A x \in registered : TimerFits(x)'
  <2>1. \A x \in registered : TimerFits(x)
    BY TimerFitsAll DEF TimersInv
  <2> QED BY <1>1, <2>1 DEF TimerFits, CurrentTimers, task
<1> QED BY <1>1, <1>3, <1>4, <1>5 DEF TimersInv, TimerMatchesState, TimerFits

LEMMA RemoveTimers ==
  ASSUME Shape, TimersInv, NEW I, Remove(I) PROVE TimersInv'
<1>1. /\ Types /\ I \subseteq registered /\ registered' = registered \ I
      /\ UNCHANGED <<issued, timers>> /\ killed' = killed \ I
      /\ \A x \in Tasks \ I : state'[x] = state[x] /\ epoch'[x] = epoch[x]
  BY DEF Remove, Shape
<1>2. TimersKnown'
  BY <1>1 DEF TimersInv, TimersKnown, Types
<1>3. ASSUME NEW x \in registered \ I PROVE TimerFits(x)'
  <2>1. TimerFits(x)
    BY TimerFitsAll DEF TimersInv
  <2> QED BY <1>1, <2>1, TimerKept DEF CurrentTimers, Types
<1> QED BY <1>1, <1>2, <1>3 DEF TimersInv, TimerMatchesState, TimerFits

LEMMA CommandTimers ==
  ASSUME Shape, TimersInv, NEW I, NEW newPins, NEW newVetoed,
         NEW revived, NEW stopped, NEW hardKilled,
         Legal(I, newPins, newVetoed, revived, stopped, hardKilled),
         Command(I, newPins, newVetoed, revived, stopped, hardKilled)
  PROVE  TimersInv'
<1> DEFINE ended == stopped \cup (hardKilled \cap UpTasks)
           changed == revived \cup ended
           armed == Graces(stopped, hardKilled, epoch')
<1>1. /\ Types /\ registered' = registered /\ issued' = issued
      /\ state' = [t \in Tasks |-> IF t \in revived THEN "Idle"
                                   ELSE IF t \in ended THEN "Stopping" ELSE state[t]]
      /\ epoch' = Bumped(changed, hardKilled)
      /\ killed' = (killed \ changed) \cup hardKilled
      /\ timers' = timers \cup armed
  BY DEF Command, Shape, graph
<1>2. /\ revived \subseteq {t \in registered : state[t] \in {"Backoff", "Done", "Exited"}}
      /\ stopped \subseteq {t \in registered : state[t] \in Up}
      /\ hardKilled \subseteq {t \in registered : state[t] \in Active}
      /\ stopped = {} \/ hardKilled = {}
  BY DEF Legal, UpTasks, Killable
<1>3. \A t \in Tasks :
        /\ epoch'[t] \in Nat /\ epoch[t] \in Nat /\ epoch'[t] >= epoch[t]
        /\ t \in changed \cup hardKilled => epoch'[t] > epoch[t]
        /\ t \notin changed \cup hardKilled => epoch'[t] = epoch[t]
  BY <1>1 DEF Bumped, One, Types
<1>4. \A tm \in armed : /\ tm.task \in stopped \cup hardKilled
                        /\ tm.epoch = epoch'[tm.task]
  BY TimerFields DEF Graces
<1>5. TimersKnown'
  <2> SUFFICES ASSUME NEW tm \in timers'
               PROVE  /\ tm.task \in issued
                      /\ tm.task \in registered => tm.epoch <= epoch'[tm.task]
    BY <1>1 DEF TimersKnown
  <2>1. CASE tm \in armed
    <3>1. tm.task \in registered /\ tm.epoch = epoch'[tm.task]
      BY <1>2, <1>4, <2>1
    <3>2. tm.task \in issued /\ epoch'[tm.task] \in Nat
      BY <1>1, <1>3, <3>1 DEF Types
    <3> QED BY <3>1, <3>2
  <2>2. CASE tm \in timers
    <3>1. tm.task \in issued /\ tm.epoch \in Nat
          /\ (tm.task \in registered => tm.epoch <= epoch[tm.task])
      BY <1>1, <2>2 DEF TimersInv, TimersKnown, Types
    <3>2. tm.task \in registered =>
            epoch'[tm.task] >= epoch[tm.task] /\ epoch'[tm.task] \in Nat /\ epoch[tm.task] \in Nat
      BY <1>1, <1>3 DEF Types
    <3> QED BY <3>1, <3>2
  <2> QED BY <1>1, <2>1, <2>2
<1>6. ASSUME NEW t \in registered PROVE TimerFits(t)'
  <2>1. TimerFits(t) /\ t \in Tasks
    BY <1>1, TimerFitsAll DEF TimersInv, Types
  <2>2. CASE t \notin changed \cup hardKilled
    <3>1. epoch'[t] = epoch[t] /\ state'[t] = state[t] /\ (t \in killed <=> t \in killed')
      BY <1>1, <1>3, <2>1, <2>2
    <3>2. {tm \in timers' : tm.task = t /\ tm.epoch = epoch[t]} = CurrentTimers(t)
      BY <1>1, <1>4, <2>2 DEF CurrentTimers
    <3> QED BY <2>1, <3>1, <3>2, TimerKept
  <2>3. CASE t \in changed \cup hardKilled
    <3> DEFINE mine == {x \in armed : x.task = t}
    <3>1. epoch'[t] \in Nat /\ epoch'[t] > epoch[t]
      BY <1>3, <2>1, <2>3
    <3>2. /\ \A tm \in armed : tm.task = t => tm.epoch = epoch'[t]
          /\ armed \subseteq timers' /\ timers' \subseteq timers \cup armed
      BY <1>1, <1>4
    <3>3. /\ {tm.purpose : tm \in mine} = Awaited(state'[t], t \in killed')
          /\ t \in killed' => state'[t] = "Stopping"
      <4>1. CASE t \in revived
        <5>1. t \notin stopped \cup hardKilled
          BY <1>2, <4>1 DEF Up, Active
        <5>2. t \notin killed' /\ state'[t] = "Idle" /\ (t \in killed') = FALSE
          BY <1>1, <2>1, <4>1, <5>1
        <5>3. mine = {}
          BY <1>4, <5>1
        <5>4. Awaited(state'[t], t \in killed') = {}
          BY <5>2 DEF Awaited
        <5> HIDE DEF mine
        <5> QED BY <5>2, <5>3, <5>4
      <4>2. CASE t \in stopped
        <5>1. t \notin revived /\ hardKilled = {}
          BY <1>2, <4>2 DEF Up
        <5>2. t \notin killed' /\ state'[t] = "Stopping" /\ (t \in killed') = FALSE
          BY <1>1, <2>1, <4>2, <5>1
        <5>3. mine = {Timer(t, epoch'[t], "stop")}
          BY <4>2, <5>1, TimerFields DEF Graces
        <5>4. Awaited(state'[t], t \in killed') = {"stop"}
          BY <5>2 DEF Awaited
        <5> HIDE DEF mine
        <5> QED BY <5>2, <5>3, <5>4, TimerFields
      <4>3. CASE t \in hardKilled
        <5>1. t \notin revived /\ stopped = {} /\ state[t] \in Active
          BY <1>2, <4>3 DEF Active, Up
        <5>2. t \in killed' /\ state'[t] = "Stopping" /\ (t \in killed') = TRUE
          BY <1>1, <2>1, <4>3, <5>1 DEF Active, UpTasks
        <5>3. mine = {Timer(t, epoch'[t], "kill")}
          BY <4>3, <5>1, TimerFields DEF Graces
        <5>4. Awaited(state'[t], t \in killed') = {"kill"}
          BY <5>2 DEF Awaited
        <5> HIDE DEF mine
        <5> QED BY <5>2, <5>3, <5>4, TimerFields
      <4> QED BY <2>3, <4>1, <4>2, <4>3
    <3> HIDE DEF armed
    <3> QED BY <1>1, <3>1, <3>2, <3>3, TimerArmed DEF TimersInv
  <2> QED BY <2>2, <2>3
<1> QED BY <1>1, <1>5, <1>6 DEF TimersInv, TimerMatchesState, TimerFits

LEMMA NextTimers == ASSUME Shape, TimersInv, [Next]_vars PROVE TimersInv'
<1>1. CASE Input
  <2>1. ASSUME NEW t \in Tasks, NEW D, NEW pinned, Register(t, D, pinned)
        PROVE  TimersInv'
    BY <2>1, RegisterTimers
  <2>2. ASSUME NEW I, ClientCommand(I) PROVE TimersInv'
    BY <2>2, CommandLegal, CommandTimers
  <2>3. ASSUME NEW I, Remove(I) PROVE TimersInv'
    BY <2>3, RemoveTimers
  <2>4. ASSUME NEW I, SetLabel(I) PROVE TimersInv'
    BY <2>4, SameTimers DEF SetLabel, graph
  <2>5. ASSUME NEW t \in Tasks, TaskMsg(t) PROVE TimersInv'
    BY <2>5, SameTimers DEF TaskMsg, graph
  <2>6. ASSUME NEW t \in Tasks, NEW r \in Effects, TaskReport(t, r) PROVE TimersInv'
    <3>1. Types /\ t \in registered /\ OnReport(t, r, effects) /\ UNCHANGED graph
      BY <2>6 DEF TaskReport, Shape
    <3> QED BY <3>1, ReportTimers
  <2>7. ASSUME Quit PROVE TimersInv'
    BY <2>7, SameTimers DEF Quit, graph
  <2> QED BY <1>1, <2>1, <2>2, <2>3, <2>4, <2>5, <2>6, <2>7 DEF Input
<1>2. CASE Timeout
  BY <1>2, StateTimeoutTimers DEF Timeout
<1>3. CASE Work
  <2>1. ASSUME NEW t \in Tasks, ApplyEffect(t) PROVE TimersInv'
    <3>1. Types /\ t \in registered /\ UNCHANGED graph
          /\ OnReport(t, Head(effects[t]), [effects EXCEPT ![t] = Tail(@)])
      BY <2>1 DEF ApplyEffect, Shape, Gone
    <3> QED BY <3>1, ReportTimers
  <2>2. ASSUME NEW t \in Tasks, Recompute(t) PROVE TimersInv'
    BY <2>2, SameTimers DEF Recompute, graph
  <2>3. ASSUME NEW t \in Tasks, Drive(t) PROVE TimersInv'
    BY <2>3, DriveTimers
  <2>4. ASSUME Settled PROVE TimersInv'
    BY <2>4, SameTimers DEF Settled, graph, queues
  <2> QED BY <1>3, <2>1, <2>2, <2>3, <2>4 DEF Work
<1>4. CASE Exited \/ UNCHANGED vars
  BY <1>4, SameTimers DEF Exited, vars, graph, queues
<1> QED BY <1>1, <1>2, <1>3, <1>4 DEF Next

(* A task waits for exactly the timer of its state and epoch: however      *)
(* commands, reports and stale timeouts interleave, the timeout of a stop  *)
(* never gives up a later kill and a retry's never ends a later stop       *)
(* (on_state_timeout's epoch check and hard_kill's manual bump).           *)
THEOREM TimersMatch == Spec => []TimerMatchesState
<1>1. Init => TimersInv
  BY DEF Init, TimersInv, TimersKnown, TimerMatchesState
<1>2. Shape /\ TimersInv /\ [Next]_vars => TimersInv'
  BY NextTimers
<1>3. TimersInv => TimerMatchesState
  BY DEF TimersInv
<1> QED BY <1>1, <1>2, <1>3, ShapeHolds, PTL DEF Spec
-----------------------------------------------------------------------------
(* The counters the kernel keeps by increments and decrements are exact in *)
(* every state, so they never go below zero and their types hold.          *)
WP(d) == {p \in wanted : <<p, d>> \in edges}
AD(d) == {p \in registered : state[p] \in Active /\ <<p, d>> \in edges}

WantedExact == \A d \in registered : wantedParents[d] = Cardinality(WP(d)) + One(d \in pins)
ActiveExact == \A d \in registered : activeDependents[d] = Cardinality(AD(d))
CountersInv == WantedExact /\ ActiveExact

LEMMA ExactCounters == CountersInv <=> CountersExact
BY DEF CountersInv, WantedExact, ActiveExact, WP, AD, CountersExact, WantedParentsOf,
       ActiveDependentsOf

LEMMA Counted ==
  ASSUME Types, NEW d
  PROVE  /\ IsFiniteSet(WP(d)) /\ Cardinality(WP(d)) \in Nat
         /\ IsFiniteSet(AD(d)) /\ Cardinality(AD(d)) \in Nat
BY FiniteSets DEF WP, AD, Types

LEMMA CardAdd ==
  ASSUME NEW S, IsFiniteSet(S), NEW x, x \notin S
  PROVE  Cardinality(S \cup {x}) = Cardinality(S) + 1
BY FS_AddElement

LEMMA CardRemove ==
  ASSUME NEW S, IsFiniteSet(S), NEW x \in S
  PROVE  Cardinality(S \ {x}) = Cardinality(S) - 1
BY FS_RemoveElement

LEMMA SameWanted ==
  ASSUME WantedExact, UNCHANGED <<wanted, edges, registered, pins, wantedParents>>
  PROVE  WantedExact'
BY DEF WantedExact, WP

LEMMA SameActive ==
  ASSUME ActiveExact, UNCHANGED <<state, edges, registered, activeDependents>>
  PROVE  ActiveExact'
BY DEF ActiveExact, AD

(* The one step that moves a task keeps the count of its dependencies. *)
LEMMA SetStateActive ==
  ASSUME Types, ActiveExact, NEW t \in registered, NEW s, SetState(t, s),
         UNCHANGED <<edges, registered>>
  PROVE  ActiveExact'
<1>1. CASE state[t] = s
  BY <1>1, SameActive DEF SetState, task
<1>2. CASE state[t] # s
  <2> DEFINE was == state[t] \in Active
             now == s \in Active
  <2>1. state' = [state EXCEPT ![t] = s] /\ activeDependents' = ActiveAfter(t, s)
    BY <1>2 DEF SetState
  <2>2. t \in Tasks /\ registered \subseteq Tasks
    BY DEF Types
  <2>3. ASSUME NEW d \in registered
        PROVE  activeDependents'[d] = Cardinality(AD(d)')
    <3>1. /\ activeDependents[d] = Cardinality(AD(d))
          /\ IsFiniteSet(AD(d)) /\ Cardinality(AD(d)) \in Nat
      BY Counted DEF ActiveExact
    <3>2. state'[t] = s /\ \A p \in registered : p # t => state'[p] = state[p]
      BY <2>1, <2>2 DEF Types
    <3>3. AD(d)' = {p \in registered : state'[p] \in Active /\ <<p, d>> \in edges}
      BY DEF AD
    <3>4. CASE <<t, d>> \notin edges
      <4>1. AD(d)' = AD(d)
        BY <3>2, <3>3, <3>4 DEF AD
      <4>2. activeDependents'[d] = activeDependents[d]
        BY <2>1, <2>2, <3>4 DEF ActiveAfter, DepsOf
      <4> QED BY <3>1, <4>1, <4>2
    <3>5. CASE <<t, d>> \in edges
      <4>1. activeDependents'[d] = activeDependents[d] + One(now /\ ~was) - One(was /\ ~now)
        BY <2>1, <2>2, <3>5 DEF ActiveAfter, DepsOf
      <4>2. CASE now /\ ~was
        <5>1. AD(d)' = AD(d) \cup {t} /\ t \notin AD(d)
          BY <3>2, <3>3, <3>5, <4>2 DEF AD
        <5> QED BY <3>1, <4>1, <4>2, <5>1, CardAdd DEF One
      <4>3. CASE was /\ ~now
        <5>1. AD(d)' = AD(d) \ {t} /\ t \in AD(d)
          BY <3>2, <3>3, <3>5, <4>3 DEF AD
        <5> QED BY <3>1, <4>1, <4>3, <5>1, CardRemove DEF One
      <4>4. CASE was <=> now
        <5>1. AD(d)' = AD(d)
          BY <3>2, <3>3, <4>4 DEF AD
        <5>2. One(now /\ ~was) = 0 /\ One(was /\ ~now) = 0
          BY <4>4 DEF One
        <5> QED BY <3>1, <4>1, <5>1, <5>2
      <4> QED BY <4>2, <4>3, <4>4
    <3> QED BY <3>4, <3>5
  <2> QED BY <2>3 DEF ActiveExact
<1> QED BY <1>1, <1>2

LEMMA RecomputeWanted ==
  ASSUME Shape, WantedExact, NEW t \in Tasks, Recompute(t) PROVE WantedExact'
<1> DEFINE isWanted == ComputeWanted(t)
           children == Told(t, isWanted)
<1>1. /\ t \in dirty
      /\ wanted' = IF isWanted THEN wanted \cup {t} ELSE wanted \ {t}
      /\ wantedParents' = [d \in Tasks |->
           IF d \in children THEN wantedParents[d] + One(isWanted) - One(~isWanted)
                             ELSE wantedParents[d]]
      /\ UNCHANGED <<registered, edges, pins>>
  BY DEF Recompute, graph, intent
<1>2. Types /\ registered \subseteq Tasks
  BY DEF Shape, Types
<1>3. ASSUME NEW d \in registered
      PROVE  wantedParents'[d] = Cardinality(WP(d)') + One(d \in pins)
  <2>1. /\ wantedParents[d] = Cardinality(WP(d)) + One(d \in pins)
        /\ IsFiniteSet(WP(d)) /\ Cardinality(WP(d)) \in Nat /\ One(d \in pins) \in Int
    BY <1>2, Counted DEF WantedExact, One
  <2>2. WP(d)' = {p \in wanted' : <<p, d>> \in edges}
    BY <1>1 DEF WP
  <2>3. CASE d \notin children
    <3>1. WP(d)' = WP(d)
      BY <1>1, <2>2, <2>3 DEF WP, Told, DepsOf
    <3>2. wantedParents'[d] = wantedParents[d]
      BY <1>1, <1>2, <2>3
    <3> QED BY <2>1, <3>1, <3>2
  <2>4. CASE d \in children
    <3>1. <<t, d>> \in edges /\ isWanted # (t \in wanted)
      BY <2>4 DEF Told, DepsOf
    <3>2. wantedParents'[d] = wantedParents[d] + One(isWanted) - One(~isWanted)
      BY <1>1, <1>2, <2>4
    <3> HIDE DEF children
    <3>3. CASE isWanted
      <4>1. WP(d)' = WP(d) \cup {t} /\ t \notin WP(d)
        BY <1>1, <2>2, <3>1, <3>3 DEF WP
      <4>2. Cardinality(WP(d)') = Cardinality(WP(d)) + 1
        BY <2>1, <4>1, CardAdd
      <4>3. wantedParents'[d] = wantedParents[d] + 1
        BY <1>2, <3>2, <3>3 DEF One, Types
      <4> QED BY <2>1, <4>2, <4>3
    <3>4. CASE ~isWanted
      <4>1. WP(d)' = WP(d) \ {t} /\ t \in WP(d)
        BY <1>1, <2>2, <3>1, <3>4 DEF WP, ComputeWanted
      <4>2. Cardinality(WP(d)') = Cardinality(WP(d)) - 1
        BY <2>1, <4>1, CardRemove
      <4>3. wantedParents'[d] = wantedParents[d] - 1
        BY <1>2, <3>2, <3>4 DEF One, Types
      <4> QED BY <2>1, <4>2, <4>3
    <3> QED BY <3>3, <3>4
  <2> QED BY <2>3, <2>4
<1> QED BY <1>1, <1>3 DEF WantedExact

LEMMA CommandCounters ==
  ASSUME Shape, CountersInv, NEW I, NEW newPins, NEW newVetoed,
         NEW revived, NEW stopped, NEW hardKilled,
         Legal(I, newPins, newVetoed, revived, stopped, hardKilled),
         Command(I, newPins, newVetoed, revived, stopped, hardKilled)
  PROVE  CountersInv'
<1> DEFINE ended == stopped \cup (hardKilled \cap UpTasks)
<1>1. /\ Types /\ registered \subseteq Tasks
      /\ UNCHANGED <<registered, edges, wanted, activeDependents>>
      /\ pins' = newPins /\ wantedParents' = PinCounts(newPins)
      /\ state' = [t \in Tasks |-> IF t \in revived THEN "Idle"
                                   ELSE IF t \in ended THEN "Stopping" ELSE state[t]]
  BY DEF Command, Shape, Types, graph, cache
<1>2. WantedExact'
  <2>1. ASSUME NEW d \in registered
        PROVE  wantedParents'[d] = Cardinality(WP(d)) + One(d \in newPins)
    <3>1. /\ wantedParents[d] = Cardinality(WP(d)) + One(d \in pins)
          /\ Cardinality(WP(d)) \in Nat
      BY <1>1, Counted DEF WantedExact, CountersInv
    <3>2. wantedParents'[d] =
            wantedParents[d] + One(d \in newPins \ pins) - One(d \in pins \ newPins)
      BY <1>1 DEF PinCounts
    <3> QED BY <3>1, <3>2 DEF One
  <2>2. \A d : WP(d)' = WP(d)
    BY <1>1 DEF WP
  <2> QED BY <1>1, <2>1, <2>2 DEF WantedExact
<1>3. ActiveExact'
  <2>1. \A p \in registered : state'[p] \in Active <=> state[p] \in Active
    BY <1>1 DEF Legal, UpTasks, Active, Up
  <2>2. \A d : AD(d)' = AD(d)
    BY <1>1, <2>1 DEF AD
  <2> QED BY <1>1, <2>2 DEF ActiveExact, CountersInv
<1> QED BY <1>2, <1>3 DEF CountersInv

LEMMA RegisterCounters ==
  ASSUME Shape, CountersInv, NEW t \in Tasks, NEW D \in SUBSET Tasks,
         NEW pinned \in BOOLEAN, Register(t, D, pinned)
  PROVE  CountersInv'
<1>1. /\ Types /\ t \notin registered /\ registered \subseteq Tasks
      /\ UNCHANGED <<state, wanted, activeDependents>>
  BY DEF Register, Shape, Types, task, cache
<1>2. CASE ~(D \subseteq registered)
  <2>1. UNCHANGED <<registered, edges, pins, wantedParents>>
    BY <1>2 DEF Register
  <2> QED BY <1>1, <2>1, SameWanted, SameActive DEF CountersInv
<1>3. CASE D \subseteq registered
  <2>1. /\ registered' = registered \cup {t}
        /\ edges' = edges \cup {<<t, d>> : d \in D}
        /\ pins' = IF pinned THEN pins \cup {t} ELSE pins
        /\ wantedParents' = [wantedParents EXCEPT ![t] = One(pinned)]
    BY <1>3 DEF Register
  <2>2. \A p \in registered, d \in registered' : <<p, d>> \in edges' <=> <<p, d>> \in edges
    BY <1>1, <2>1
  <2>3. state[t] = "Idle" /\ t \notin wanted
    BY <1>1 DEF Shape, Gone, Types
  <2>4. \A d \in registered' : WP(d)' = WP(d) /\ AD(d)' = AD(d)
    BY <1>1, <2>1, <2>2, <2>3 DEF WP, AD, Types, Active, Up
  <2>5. WP(t) = {} /\ AD(t) = {}
    BY <1>1 DEF WP, AD, Types
  <2>6. ASSUME NEW d \in registered'
        PROVE  /\ wantedParents'[d] = Cardinality(WP(d)) + One(d \in pins')
               /\ activeDependents'[d] = Cardinality(AD(d))
    <3>1. CASE d = t
      <4>1. wantedParents'[d] = One(pinned) /\ activeDependents'[d] = 0
        BY <1>1, <2>1, <3>1 DEF Shape, Gone, Types
      <4>2. Cardinality(WP(d)) = 0 /\ Cardinality(AD(d)) = 0
        BY <2>5, <3>1, FS_EmptySet
      <4>3. (d \in pins') = pinned
        BY <1>1, <2>1, <3>1 DEF Types
      <4> QED BY <4>1, <4>2, <4>3 DEF One
    <3>2. CASE d # t
      <4>1. wantedParents'[d] = wantedParents[d] /\ (d \in pins') = (d \in pins)
        BY <1>1, <2>1, <3>2 DEF Types
      <4> QED BY <1>1, <2>1, <3>2, <4>1 DEF CountersInv, WantedExact, ActiveExact
    <3> QED BY <3>1, <3>2
  <2> QED BY <2>4, <2>6 DEF CountersInv, WantedExact, ActiveExact
<1> QED BY <1>2, <1>3

LEMMA RemoveCounters ==
  ASSUME Shape, CountersInv, NEW I, Remove(I) PROVE CountersInv'
<1> DEFINE Lost(P, d) == Cardinality({p \in P : <<p, d>> \in edges})
<1>1. /\ Types /\ I \subseteq registered
      /\ registered' = registered \ I
      /\ edges' = {e \in edges : e[1] \notin I /\ e[2] \notin I}
      /\ pins' = pins \ I /\ wanted' = wanted \ I
      /\ wantedParents' = [d \in Tasks |->
           IF d \in I THEN 0 ELSE wantedParents[d] - Lost(I \cap wanted, d)]
      /\ activeDependents' = [d \in Tasks |->
           IF d \in I THEN 0
           ELSE activeDependents[d] - Lost({t \in I : state[t] \in Active}, d)]
      /\ \A p \in registered \ I : state'[p] = state[p]
  BY DEF Remove, Shape, Types
<1>2. \A p, d \in registered \ I : <<p, d>> \in edges' <=> <<p, d>> \in edges
  BY <1>1
<1>3. ASSUME NEW d \in registered'
      PROVE  /\ wantedParents'[d] = Cardinality(WP(d)') + One(d \in pins')
             /\ activeDependents'[d] = Cardinality(AD(d)')
  <2>1. d \in registered \ I /\ d \in Tasks
    BY <1>1 DEF Types
  <2>2. WP(d)' = WP(d) \ I /\ AD(d)' = AD(d) \ I
    BY <1>1, <1>2, <2>1 DEF WP, AD, Types
  <2>3. /\ {p \in I \cap wanted : <<p, d>> \in edges} = WP(d) \cap I
        /\ {p \in {t \in I : state[t] \in Active} : <<p, d>> \in edges} = AD(d) \cap I
    BY <1>1 DEF WP, AD
  <2>4. /\ Cardinality(WP(d)') = Cardinality(WP(d)) - Cardinality(WP(d) \cap I)
        /\ Cardinality(AD(d)') = Cardinality(AD(d)) - Cardinality(AD(d) \cap I)
    BY <1>1, <2>2, Counted, FS_Difference
  <2>5. /\ wantedParents'[d] = wantedParents[d] - Cardinality(WP(d) \cap I)
        /\ activeDependents'[d] = activeDependents[d] - Cardinality(AD(d) \cap I)
    BY <1>1, <2>1, <2>3
  <2>6. /\ wantedParents[d] = Cardinality(WP(d)) + One(d \in pins)
        /\ activeDependents[d] = Cardinality(AD(d))
    BY <2>1 DEF CountersInv, WantedExact, ActiveExact
  <2>7. (d \in pins') = (d \in pins)
    BY <1>1, <2>1
  <2>8. /\ Cardinality(WP(d)) \in Nat /\ Cardinality(WP(d) \cap I) \in Nat
        /\ One(d \in pins) \in Int
    <3>1. IsFiniteSet(WP(d) \cap I)
      BY <1>1, Counted, FS_Subset
    <3> QED BY <1>1, <3>1, Counted, FS_CardinalityType DEF One
  <2> HIDE DEF Lost
  <2> QED BY <2>4, <2>5, <2>6, <2>7, <2>8
<1> QED BY <1>3 DEF CountersInv, WantedExact, ActiveExact

(* A report, a timeout or a drive moves at most one task. *)
LEMMA MoveCounters ==
  ASSUME Types, CountersInv, NEW t \in registered, NEW s, SetState(t, s),
         UNCHANGED <<graph, intent, cache, wantedParents>>
  PROVE  CountersInv'
BY SetStateActive, SameWanted DEF CountersInv, graph, intent, cache

LEMMA KeepCounters ==
  ASSUME CountersInv, UNCHANGED <<state, registered, edges, pins, wanted, counters>>
  PROVE  CountersInv'
BY SameWanted, SameActive DEF CountersInv, counters

LEMMA NextCounters == ASSUME Shape, CountersInv, [Next]_vars PROVE CountersInv'
<1>1. Types
  BY DEF Shape
<1>2. CASE Input
  <2>1. ASSUME NEW t \in Tasks, NEW D \in DepChoices[t], NEW pinned \in BOOLEAN,
               Register(t, D, pinned)
        PROVE  CountersInv'
    <3>1. D \in SUBSET Tasks
      BY KernelAssumption DEF KernelAssumption
    <3> QED BY <2>1, <3>1, RegisterCounters
  <2>2. ASSUME NEW I, ClientCommand(I) PROVE CountersInv'
    BY <2>2, CommandLegal, CommandCounters
  <2>3. ASSUME NEW I, Remove(I) PROVE CountersInv'
    BY <2>3, RemoveCounters
  <2>4. ASSUME NEW I, SetLabel(I) PROVE CountersInv'
    BY <2>4, KeepCounters DEF SetLabel, graph, task, intent, cache
  <2>5. ASSUME NEW t \in Tasks, TaskMsg(t) PROVE CountersInv'
    BY <2>5, KeepCounters DEF TaskMsg, graph, task, intent, cache
  <2>6. ASSUME NEW t \in Tasks, NEW r \in Effects, TaskReport(t, r) PROVE CountersInv'
    BY <1>1, <2>6, MoveCounters DEF TaskReport, OnReport
  <2>7. ASSUME Quit PROVE CountersInv'
    BY <2>7, KeepCounters DEF Quit, graph, task, cache
  <2> QED BY <1>2, <2>1, <2>2, <2>3, <2>4, <2>5, <2>6, <2>7 DEF Input
<1>3. CASE Timeout
  <2>1. PICK tm \in timers : StateTimeout(tm)
    BY <1>3 DEF Timeout
  <2>2. UNCHANGED <<graph, intent, cache, wantedParents>>
    BY <2>1 DEF StateTimeout
  <2>3. CASE UNCHANGED <<state, activeDependents>>
    BY <2>2, <2>3, KeepCounters DEF graph, intent, cache, counters
  <2>4. CASE tm.task \in registered /\ SetState(tm.task, "Idle")
    BY <1>1, <2>2, <2>4, MoveCounters
  <2> QED BY <2>1, <2>3, <2>4 DEF StateTimeout, task
<1>4. CASE Work
  <2>1. ASSUME NEW t \in Tasks, ApplyEffect(t) PROVE CountersInv'
    <3>1. t \in registered
      BY <2>1 DEF ApplyEffect, Shape, Gone
    <3> QED BY <1>1, <2>1, <3>1, MoveCounters DEF ApplyEffect, OnReport
  <2>2. ASSUME NEW t \in Tasks, Recompute(t) PROVE CountersInv'
    <3>1. ActiveExact'
      BY <2>2, SameActive DEF CountersInv, Recompute, graph, task
    <3> QED BY <2>2, <3>1, RecomputeWanted DEF CountersInv
  <2>3. ASSUME NEW t \in Tasks, Drive(t) PROVE CountersInv'
    <3>1. t \in registered /\ UNCHANGED <<graph, intent, cache, wantedParents>>
      BY <1>1, <2>3 DEF Drive, Types
    <3>2. CASE \E s : SetState(t, s)
      BY <1>1, <3>1, <3>2, MoveCounters
    <3>3. CASE UNCHANGED <<task, activeDependents>>
      BY <3>1, <3>3, KeepCounters DEF graph, task, intent, cache, counters
    <3> QED BY <2>3, <3>2, <3>3, DriveCases
  <2>4. ASSUME Settled PROVE CountersInv'
    BY <2>4, KeepCounters DEF Settled, graph, task, intent, cache
  <2> QED BY <1>4, <2>1, <2>2, <2>3, <2>4 DEF Work
<1>5. CASE Exited \/ UNCHANGED vars
  BY <1>5, KeepCounters DEF Exited, vars, graph, task, intent, cache
<1> QED BY <1>2, <1>3, <1>4, <1>5 DEF Next

THEOREM CountersHold == Spec => []CountersInv
<1>1. Init => CountersInv
  BY DEF Init, CountersInv, WantedExact, ActiveExact
<1>2. Shape /\ CountersInv /\ [Next]_vars => CountersInv'
  BY NextCounters
<1> QED BY <1>1, <1>2, ShapeHolds, PTL DEF Spec

(* wanted_parents and active_dependents always equal what they count: no   *)
(* order of commands, reports, removals and rounds makes one drift, which  *)
(* would leave a task up for ever or stop it under its dependents.         *)
THEOREM CountersStayExact == Spec => []CountersExact
BY CountersHold, ExactCounters, PTL

(* All of the kernel's state keeps its type; in particular neither counter *)
(* (a u32 that is decremented) ever underflows.                            *)
THEOREM TypesHold == Spec => []TypeOK
<1>1. Shape /\ CountersInv => TypeOK
  <2> SUFFICES ASSUME Shape, CountersInv PROVE TypeOK
    OBVIOUS
  <2>1. Types
    BY DEF Shape
  <2>2. \A d \in Tasks : wantedParents[d] \in Nat /\ activeDependents[d] \in Nat
    <3>1. ASSUME NEW d \in registered
          PROVE  wantedParents[d] \in Nat /\ activeDependents[d] \in Nat
      BY <2>1, Counted DEF CountersInv, WantedExact, ActiveExact, One
    <3> QED BY <3>1 DEF Shape, Gone
  <2>3. wantedParents \in [Tasks -> Nat] /\ activeDependents \in [Tasks -> Nat]
    BY <2>1, <2>2 DEF Types
  <2> QED BY <2>1, <2>3 DEF Types, TypeOK
<1> QED BY <1>1, ShapeHolds, CountersHold, PTL

-----------------------------------------------------------------------------
(* The caches of a task that is not queued agree with its neighbours'; the *)
(* decisions a round acts on agree all over, and stay so while it acts.    *)
NoSelfEdge == \A t \in Tasks : <<t, t>> \notin edges
Local(t) ==
  /\ t \in wanted <=> ComputeWanted(t)
  /\ t \in supported <=> ComputeSupported(t, t \in wanted)
LocalCaches == \A t \in registered \ dirty : Local(t)
Backed(t) == ~quitting /\ \A d \in DepsOf(t) : d \in supported /\ Satisfied(d)
DriveSnapshot == phase = "drive" => \A t \in supported : Backed(t)
CachesInv == NoSelfEdge /\ LocalCaches /\ DriveSnapshot
-----------------------------------------------------------------------------
(* A task whose neighbourhood does not change stays in agreement with it. *)
LEMMA LocalKept ==
  ASSUME NEW t, Local(t), quitting' = quitting,
         t \in vetoed' <=> t \in vetoed, t \in wanted' <=> t \in wanted,
         t \in supported' <=> t \in supported,
         wantedParents'[t] = wantedParents[t],
         DepsOf(t)' = DepsOf(t),
         \A d \in DepsOf(t) : /\ d \in supported' <=> d \in supported
                              /\ Satisfied(d)' <=> Satisfied(d)
  PROVE  Local(t)'
<1>1. ComputeWanted(t)' <=> ComputeWanted(t)
  BY DEF ComputeWanted
<1>2. ComputeSupported(t, t \in wanted)' <=> ComputeSupported(t, t \in wanted)
  BY DEF ComputeSupported
<1> QED BY <1>1, <1>2 DEF Local

LEMMA SameDeps == ASSUME UNCHANGED graph, NEW t PROVE DepsOf(t)' = DepsOf(t)
BY DEF graph, DepsOf

LEMMA SameSatisfied ==
  ASSUME NEW d, state'[d] = state[d] PROVE Satisfied(d)' <=> Satisfied(d)
BY DEF Satisfied, IsSatisfied

LEMMA SetStateLocal ==
  ASSUME Types, LocalCaches, NEW t \in registered, NEW s, SetState(t, s),
         UNCHANGED <<graph, intent, cache, wantedParents>>
  PROVE  LocalCaches'
<1>1. CASE state[t] = s
  <2>1. UNCHANGED <<state, dirty>>
    BY <1>1 DEF SetState, task
  <2> QED
    BY <2>1 DEF LocalCaches, Local, ComputeWanted, ComputeSupported, DepsOf, Satisfied,
                IsSatisfied, graph, intent, cache
<1>2. CASE state[t] # s
  <2>1. state' = [state EXCEPT ![t] = s] /\ dirty' = dirty \cup Concerns(t, s)
    BY <1>2 DEF SetState
  <2>2. t \in Tasks /\ registered \subseteq Tasks /\ registered' = registered
    BY DEF Types, graph
  <2>3. ASSUME NEW x \in registered \ dirty' PROVE Local(x)'
    <3>1. x \in registered \ dirty /\ x \notin Concerns(t, s)
      BY <2>1, <2>3
    <3>2. ASSUME NEW d \in DepsOf(x) PROVE Satisfied(d)' <=> Satisfied(d)
      <4>1. d \in registered /\ <<x, d>> \in edges
        BY <3>2 DEF DepsOf
      <4>2. CASE d = t
        <5>1. x \in ParentsOf({t})
          BY <3>1, <4>1, <4>2 DEF ParentsOf
        <5>2. Satisfied(t) <=> IsSatisfied(t, s)
          BY <3>1, <5>1 DEF Concerns, Satisfied, IsSatisfied
        <5>3. state'[t] = s
          BY <2>1, <2>2 DEF Types
        <5> QED BY <4>2, <5>2, <5>3 DEF Satisfied, IsSatisfied
      <4>3. CASE d # t
        BY <2>1, <4>3, SameSatisfied DEF Types
      <4> QED BY <4>2, <4>3
    <3>3. Local(x) /\ DepsOf(x)' = DepsOf(x)
      BY <3>1, SameDeps DEF LocalCaches
    <3> QED BY <3>2, <3>3, LocalKept DEF intent, cache
  <2> QED BY <2>2, <2>3 DEF LocalCaches
<1> QED BY <1>1, <1>2

LEMMA SameLocal ==
  ASSUME LocalCaches, UNCHANGED <<graph, state, intent, cache, wantedParents, dirty>>
  PROVE  LocalCaches'
BY DEF LocalCaches, Local, ComputeWanted, ComputeSupported, DepsOf, Satisfied,
       IsSatisfied, graph, intent, cache

LEMMA CommandLocal ==
  ASSUME Shape, LocalCaches, NEW I, NEW newPins, NEW newVetoed,
         NEW revived, NEW stopped, NEW hardKilled,
         Legal(I, newPins, newVetoed, revived, stopped, hardKilled),
         Command(I, newPins, newVetoed, revived, stopped, hardKilled)
  PROVE  LocalCaches'
<1> DEFINE ended == stopped \cup (hardKilled \cap UpTasks)
           changed == revived \cup ended
<1>1. /\ Types /\ registered \subseteq Tasks
      /\ wantedParents' = PinCounts(newPins) /\ vetoed' = newVetoed
      /\ state' = [t \in Tasks |-> IF t \in revived THEN "Idle"
                                   ELSE IF t \in ended THEN "Stopping" ELSE state[t]]
      /\ dirty' = dirty \cup I \cup changed
           \cup {t \in registered : (t \in vetoed) # (t \in newVetoed)}
           \cup ParentsOf({t \in changed : Satisfied(t)})
      /\ UNCHANGED <<graph, quitting, cache>>
  BY DEF Command, Shape, Types
<1>2. registered' = registered
  BY <1>1 DEF graph
<1>3. ASSUME NEW x \in registered \ dirty' PROVE Local(x)'
  <2>1. Local(x) /\ x \notin I /\ (x \in vetoed <=> x \in newVetoed)
        /\ x \notin ParentsOf({t \in changed : Satisfied(t)})
    BY <1>1, <1>3 DEF LocalCaches
  <2>2. wantedParents'[x] = wantedParents[x]
    BY <1>1, <2>1 DEF Legal, PinCounts, One, Types
  <2>3. ASSUME NEW d \in DepsOf(x) PROVE Satisfied(d)' <=> Satisfied(d)
    <3>1. d \in registered /\ d \in Tasks /\ <<x, d>> \in edges
      BY <1>1, <2>3 DEF DepsOf
    <3>2. CASE d \in changed
      <4>1. ~Satisfied(d)
        BY <1>3, <2>1, <3>1, <3>2 DEF ParentsOf
      <4>2. state'[d] \in {"Idle", "Stopping"}
        BY <1>1, <3>1, <3>2
      <4> QED BY <4>1, <4>2 DEF Satisfied, IsSatisfied
    <3>3. CASE d \notin changed
      <4>1. state'[d] = state[d]
        BY <1>1, <3>1, <3>3
      <4> QED BY <4>1, SameSatisfied
    <3> QED BY <3>2, <3>3
  <2> QED BY <1>1, <2>1, <2>2, <2>3, LocalKept, SameDeps DEF cache
<1> QED BY <1>2, <1>3 DEF LocalCaches

LEMMA RegisterLocal ==
  ASSUME Shape, NoSelfEdge, LocalCaches, NEW t \in Tasks, NEW D, NEW pinned,
         Register(t, D, pinned)
  PROVE  NoSelfEdge' /\ LocalCaches'
<1>1. /\ Types /\ t \notin registered
      /\ UNCHANGED <<state, vetoed, quitting, cache>>
  BY DEF Register, Shape, Types, task
<1>2. CASE ~(D \subseteq registered)
  <2>1. UNCHANGED <<registered, edges, wantedParents, dirty>>
    BY <1>2 DEF Register
  <2> QED
    BY <1>1, <2>1 DEF NoSelfEdge, LocalCaches, Local, ComputeWanted, ComputeSupported,
                      DepsOf, Satisfied, IsSatisfied, cache
<1>3. CASE D \subseteq registered
  <2>1. /\ registered' = registered \cup {t}
        /\ edges' = edges \cup {<<t, d>> : d \in D}
        /\ wantedParents' = [wantedParents EXCEPT ![t] = One(pinned)]
        /\ dirty' = dirty \cup {t} \cup D
    BY <1>3 DEF Register
  <2>2. NoSelfEdge'
    BY <1>1, <1>3, <2>1 DEF NoSelfEdge
  <2>3. ASSUME NEW x \in registered' \ dirty' PROVE Local(x)'
    <3>1. x \in registered \ dirty /\ x # t /\ Local(x)
      BY <2>1, <2>3 DEF LocalCaches
    <3>2. DepsOf(x)' = DepsOf(x)
      BY <1>1, <2>1, <3>1 DEF DepsOf, Types
    <3>3. wantedParents'[x] = wantedParents[x]
      BY <1>1, <2>1, <3>1 DEF Types
    <3> QED BY <1>1, <3>1, <3>2, <3>3, LocalKept, SameSatisfied DEF cache
  <2> QED BY <2>2, <2>3 DEF LocalCaches
<1> QED BY <1>2, <1>3

LEMMA RemoveLocal ==
  ASSUME Shape, NoSelfEdge, LocalCaches, NEW I, Remove(I)
  PROVE  NoSelfEdge' /\ LocalCaches'
<1> DEFINE Lost(P, d) == Cardinality({p \in P : <<p, d>> \in edges})
<1>1. /\ Types /\ I \subseteq registered /\ registered' = registered \ I
      /\ edges' = {e \in edges : e[1] \notin I /\ e[2] \notin I}
      /\ vetoed' = vetoed \ I /\ wanted' = wanted \ I /\ supported' = supported \ I
      /\ wantedParents' = [d \in Tasks |->
           IF d \in I THEN 0 ELSE wantedParents[d] - Lost(I \cap wanted, d)]
      /\ dirty' = QueueWithout(I) /\ quitting' = quitting
      /\ \A p \in registered \ I : state'[p] = state[p]
  BY DEF Remove, Shape, Types
<1>2. NoSelfEdge'
  BY <1>1 DEF NoSelfEdge
<1>3. ASSUME NEW x \in registered' \ dirty' PROVE Local(x)'
  <2>1. /\ x \in registered \ dirty /\ x \notin I /\ Local(x) /\ x \in Tasks
        /\ \A t \in I : <<t, x>> \notin edges
        /\ x \notin ParentsOf(I)
    BY <1>1, <1>3 DEF QueueWithout, LocalCaches, Types
  <2>2. DepsOf(x)' = DepsOf(x) /\ \A d \in DepsOf(x) : d \in registered \ I
    BY <1>1, <2>1 DEF DepsOf, ParentsOf, Types
  <2>3. wantedParents'[x] = wantedParents[x]
    <3>1. {p \in I \cap wanted : <<p, x>> \in edges} = {}
      BY <2>1
    <3>2. Lost(I \cap wanted, x) = 0
      BY <3>1, FS_EmptySet
    <3> HIDE DEF Lost
    <3> QED BY <1>1, <2>1, <3>2 DEF Types
  <2>4. \A d \in DepsOf(x) : (d \in supported' <=> d \in supported)
                             /\ (Satisfied(d)' <=> Satisfied(d))
    BY <1>1, <2>2, SameSatisfied
  <2> QED BY <1>1, <2>1, <2>2, <2>3, <2>4, LocalKept
<1> QED BY <1>2, <1>3 DEF LocalCaches

LEMMA RecomputeLocal ==
  ASSUME Shape, NoSelfEdge, LocalCaches, NEW t \in Tasks, Recompute(t)
  PROVE  LocalCaches'
<1> DEFINE isWanted == ComputeWanted(t)
           isSupported == ComputeSupported(t, isWanted)
           children == Told(t, isWanted)
           parents == IF isSupported # (t \in supported) THEN ParentsOf({t}) ELSE {}
<1>1. /\ t \in dirty
      /\ wanted' = IF isWanted THEN wanted \cup {t} ELSE wanted \ {t}
      /\ supported' = IF isSupported THEN supported \cup {t} ELSE supported \ {t}
      /\ wantedParents' = [d \in Tasks |->
           IF d \in children THEN wantedParents[d] + One(isWanted) - One(~isWanted)
                             ELSE wantedParents[d]]
      /\ dirty' = (dirty \ {t}) \cup children \cup parents
      /\ UNCHANGED <<graph, task, intent>>
  BY DEF Recompute
<1>2. Types /\ registered' = registered /\ registered \subseteq Tasks
  BY <1>1 DEF Shape, Types, graph
<1>3. children \subseteq DepsOf(t) /\ t \notin children /\ t \notin DepsOf(t)
  BY DEF Told, DepsOf, NoSelfEdge
<1>4. \A d : (Satisfied(d)' <=> Satisfied(d)) /\ DepsOf(d)' = DepsOf(d)
  BY <1>1, SameSatisfied, SameDeps DEF task
<1>5. ASSUME NEW x \in registered \ dirty' PROVE Local(x)'
  <2>1. CASE x = t
    <3>1. (t \in wanted') <=> isWanted
      BY <1>1
    <3>2. (t \in supported') <=> isSupported
      BY <1>1
    <3>3. ComputeWanted(t)' <=> isWanted
      BY <1>1, <1>2, <1>3 DEF ComputeWanted, intent
    <3>4. \A d \in DepsOf(t) : d \in supported' <=> d \in supported
      BY <1>1, <1>3
    <3>5. ComputeSupported(t, t \in wanted)' <=> isSupported
      BY <1>4, <3>1, <3>4 DEF ComputeSupported
    <3> QED BY <2>1, <3>1, <3>2, <3>3, <3>5 DEF Local
  <2>2. CASE x # t
    <3>1. x \in registered \ dirty /\ x \notin children /\ x \notin parents /\ Local(x)
      BY <1>1, <1>5, <2>2 DEF LocalCaches
    <3>2. \A d \in DepsOf(x) : d \in supported' <=> d \in supported
      <4> SUFFICES ASSUME NEW d \in DepsOf(x) PROVE d \in supported' <=> d \in supported
        OBVIOUS
      <4>1. CASE d # t
        BY <1>1, <4>1
      <4>2. CASE d = t
        <5>1. x \in ParentsOf({t})
          BY <3>1, <4>2 DEF DepsOf, ParentsOf
        <5>2. isSupported <=> t \in supported
          BY <3>1, <5>1 DEF ComputeSupported
        <5> QED BY <1>1, <4>2, <5>2
      <4> QED BY <4>1, <4>2
    <3>3. wantedParents'[x] = wantedParents[x]
      BY <1>1, <1>2, <3>1
    <3>4. (x \in wanted' <=> x \in wanted) /\ (x \in supported' <=> x \in supported)
      BY <1>1, <2>2
    <3> QED BY <1>1, <1>4, <3>1, <3>2, <3>3, <3>4, LocalKept DEF intent
  <2> QED BY <2>1, <2>2
<1> QED BY <1>2, <1>5 DEF LocalCaches
-----------------------------------------------------------------------------
(* Once no task is queued every task is in agreement: this is what a round *)
(* starts driving with, and driving does not undo it.                      *)
LEMMA SnapshotTaken ==
  ASSUME Types, LocalCaches, dirty = {} PROVE \A t \in supported : Backed(t)
<1> SUFFICES ASSUME NEW t \in supported PROVE Backed(t)
  OBVIOUS
<1>1. Local(t)
  BY DEF LocalCaches, Types
<1> QED BY <1>1 DEF Local, Backed, ComputeSupported, ComputeWanted

LEMMA SnapshotTakenNext ==
  (Types /\ LocalCaches /\ dirty = {} => \A t \in supported : Backed(t))'
BY SnapshotTaken, PTL

LEMMA DriveSnapshotKept ==
  ASSUME Shape, DriveSnapshot, NEW t \in Tasks, Drive(t) PROVE DriveSnapshot'
<1>1. /\ Types /\ phase = "drive" /\ t \in registered
      /\ UNCHANGED <<graph, intent, cache>>
  BY DEF Drive, Shape, Types
<1>2. ASSUME NEW d \in supported, Satisfied(d) PROVE Satisfied(d)'
  <2>1. CASE d # t
    <3>1. state'[d] = state[d]
      BY <1>1, <2>1, DriveCases DEF SetState, task, Types
    <3> QED BY <1>2, <3>1, SameSatisfied
  <2>2. CASE d = t
    <3>1. ~MustStart(t) /\ ~MustStop(t) /\ ~MustCancel(t)
      BY <1>2, <2>2 DEF MustStart, MustStop, MustCancel, Satisfied, IsSatisfied
    <3>2. state' = state
      BY <3>1, DriveCases DEF task
    <3> QED BY <1>2, <3>2, SameSatisfied
  <2> QED BY <2>1, <2>2
<1>3. ASSUME NEW x \in supported, phase = "drive" PROVE Backed(x)'
  <2>1. Backed(x) /\ DepsOf(x)' = DepsOf(x)
    BY <1>1, <1>3, SameDeps DEF DriveSnapshot
  <2> QED BY <1>1, <1>2, <2>1 DEF Backed, intent, cache
<1> QED BY <1>1, <1>3 DEF DriveSnapshot, cache

LEMMA NotDriving == ASSUME phase' # "drive" PROVE DriveSnapshot'
BY DEF DriveSnapshot

LEMMA EndTurnNotDriving ==
  ASSUME EndTurn \/ Leave, steps \in Nat PROVE phase' # "drive"
BY EndTurnPhase, LeavePhase

LEMMA InputCaches == ASSUME Shape, CachesInv, Input PROVE CachesInv'
<1>1. DriveSnapshot'
  BY NotDriving DEF Input, Register, ClientCommand, Start, Stop, Kill, Down, Veto,
     RestartTasks, ForceRestart, Command, Remove, SetLabel, TaskMsg, TaskReport, Quit, Receive
<1>2. NoSelfEdge' /\ LocalCaches'
  <2>1. ASSUME NEW t \in Tasks, NEW D, NEW pinned, Register(t, D, pinned)
        PROVE  NoSelfEdge' /\ LocalCaches'
    BY <2>1, RegisterLocal DEF CachesInv
  <2>2. ASSUME NEW I, ClientCommand(I) PROVE NoSelfEdge' /\ LocalCaches'
    <3>1. PICK newPins, newVetoed, revived, stopped, hardKilled :
            /\ Legal(I, newPins, newVetoed, revived, stopped, hardKilled)
            /\ Command(I, newPins, newVetoed, revived, stopped, hardKilled)
      BY <2>2, CommandLegal
    <3>2. NoSelfEdge'
      BY <3>1 DEF Command, graph, NoSelfEdge, CachesInv
    <3> QED BY <3>1, <3>2, CommandLocal DEF CachesInv
  <2>3. ASSUME NEW I, Remove(I) PROVE NoSelfEdge' /\ LocalCaches'
    BY <2>3, RemoveLocal DEF CachesInv
  <2>4. ASSUME NEW I, SetLabel(I) PROVE NoSelfEdge' /\ LocalCaches'
    BY <2>4, SameLocal DEF SetLabel, graph, task, counters, NoSelfEdge, CachesInv
  <2>5. ASSUME NEW t \in Tasks, TaskMsg(t) PROVE NoSelfEdge' /\ LocalCaches'
    BY <2>5, SameLocal DEF TaskMsg, graph, task, counters, NoSelfEdge, CachesInv
  <2>6. ASSUME NEW t \in Tasks, NEW r \in Effects, TaskReport(t, r)
        PROVE  NoSelfEdge' /\ LocalCaches'
    <3>1. /\ Types /\ t \in registered /\ SetState(t, AfterReport(t, r))
          /\ UNCHANGED <<graph, intent, cache, wantedParents>>
      BY <2>6 DEF TaskReport, OnReport, Shape
    <3>2. LocalCaches'
      BY <3>1, SetStateLocal DEF CachesInv
    <3> QED BY <3>1, <3>2 DEF graph, NoSelfEdge, CachesInv
  <2>7. ASSUME Quit PROVE NoSelfEdge' /\ LocalCaches'
    <3>1. CASE quitting
      BY <2>7, <3>1, SameLocal DEF Quit, graph, task, intent, counters, NoSelfEdge, CachesInv
    <3>2. CASE ~quitting
      BY <2>7, <3>2 DEF Quit, graph, NoSelfEdge, LocalCaches, CachesInv
    <3> QED BY <3>1, <3>2
  <2> QED BY <2>1, <2>2, <2>3, <2>4, <2>5, <2>6, <2>7 DEF Input
<1> QED BY <1>1, <1>2 DEF CachesInv

LEMMA NextCaches == ASSUME Shape, CachesInv, [Next]_vars PROVE CachesInv'
<1>1. Types /\ NoSelfEdge /\ LocalCaches /\ DriveSnapshot
  BY DEF Shape, CachesInv
<1>2. CASE Timeout
  <2>1. PICK tm \in timers : StateTimeout(tm)
    BY <1>2 DEF Timeout
  <2>2. UNCHANGED <<graph, intent, cache, wantedParents>> /\ phase' # "drive"
    BY <2>1 DEF StateTimeout, Receive
  <2>3. LocalCaches'
    <3>1. CASE UNCHANGED <<state, dirty>>
      BY <1>1, <2>2, <3>1, SameLocal
    <3>2. CASE tm.task \in registered /\ SetState(tm.task, "Idle")
      BY <1>1, <2>2, <3>2, SetStateLocal
    <3> QED BY <2>1, <3>1, <3>2 DEF StateTimeout, task
  <2> QED BY <1>1, <2>2, <2>3, NotDriving DEF CachesInv, NoSelfEdge, graph
<1>3. ASSUME NEW t \in Tasks, ApplyEffect(t) PROVE CachesInv'
  <2>1. /\ t \in registered /\ SetState(t, AfterReport(t, Head(effects[t])))
        /\ UNCHANGED <<graph, intent, cache, wantedParents>> /\ EndTurn
    BY <1>3 DEF ApplyEffect, OnReport, Shape, Gone
  <2>2. LocalCaches'
    BY <1>1, <2>1, SetStateLocal
  <2>3. phase' # "drive"
    BY <1>1, <2>1, EndTurnNotDriving DEF Types
  <2> QED BY <1>1, <2>1, <2>2, <2>3, NotDriving DEF CachesInv, NoSelfEdge, graph
<1>4. ASSUME NEW t \in Tasks, Recompute(t) PROVE CachesInv'
  <2>1. LocalCaches'
    BY <1>1, <1>4, RecomputeLocal
  <2>2. Types' /\ NoSelfEdge'
    BY <1>1, <1>4, RecomputeShape DEF Recompute, graph, NoSelfEdge, Shape
  <2>3. DriveSnapshot'
    <3>1. phase' = "drive" => dirty' = {}
      BY <1>4 DEF Recompute
    <3> QED BY <2>1, <2>2, <3>1, SnapshotTakenNext DEF DriveSnapshot
  <2> QED BY <2>1, <2>2, <2>3 DEF CachesInv
<1>5. ASSUME NEW t \in Tasks, Drive(t) PROVE CachesInv'
  <2>1. t \in registered /\ UNCHANGED <<graph, intent, cache, wantedParents>>
    BY <1>1, <1>5 DEF Drive, Types
  <2>2. LocalCaches'
    <3>1. CASE \E s : SetState(t, s)
      BY <1>1, <2>1, <3>1, SetStateLocal
    <3>2. CASE UNCHANGED <<task, queues>>
      BY <1>1, <2>1, <3>2, SameLocal DEF task, queues
    <3> QED BY <1>5, <3>1, <3>2, DriveCases
  <2>3. DriveSnapshot'
    BY <1>1, <1>5, DriveSnapshotKept
  <2> QED BY <1>1, <2>1, <2>2, <2>3 DEF CachesInv, NoSelfEdge, graph
<1>6. ASSUME Settled PROVE CachesInv'
  <2>1. phase' # "drive"
    BY <1>1, <1>6, EndTurnNotDriving DEF Settled, Types
  <2>2. LocalCaches' /\ NoSelfEdge'
    BY <1>1, <1>6, SameLocal DEF Settled, graph, task, counters, queues, NoSelfEdge
  <2> QED BY <2>1, <2>2, NotDriving DEF CachesInv
<1>7. CASE Exited \/ UNCHANGED vars
  <2>1. UNCHANGED <<graph, task, intent, cache, counters, loop, queues>>
    BY <1>7 DEF Exited, vars
  <2>2. LocalCaches' /\ NoSelfEdge'
    BY <1>1, <2>1, SameLocal DEF graph, task, counters, queues, NoSelfEdge
  <2>3. DriveSnapshot'
    BY <1>1, <2>1 DEF DriveSnapshot, Backed, DepsOf, Satisfied, IsSatisfied, graph, task,
                      intent, cache, loop
  <2> QED BY <2>2, <2>3 DEF CachesInv
<1> QED BY <1>2, <1>3, <1>4, <1>5, <1>6, <1>7, InputCaches DEF Next, Work

THEOREM CachesHold == Spec => []CachesInv
<1>1. Init => CachesInv
  BY DEF Init, CachesInv, NoSelfEdge, LocalCaches, DriveSnapshot
<1>2. Shape /\ CachesInv /\ [Next]_vars => CachesInv'
  BY NextCaches
<1> QED BY <1>1, <1>2, ShapeHolds, PTL DEF Spec
-----------------------------------------------------------------------------
(* A task that is neither queued nor still to be driven needs no driving.  *)
Decided(x) == ~MustStart(x) /\ ~MustStop(x) /\ ~MustCancel(x)

LEMMA DecidedKept ==
  ASSUME NEW x, Decided(x), x \in supported' <=> x \in supported,
         state'[x] = state[x], activeDependents'[x] = activeDependents[x]
  PROVE  Decided(x)'
BY DEF Decided, MustStart, MustStop, MustCancel

LEMMA SameDecided ==
  ASSUME NothingLeftToDrive, UNCHANGED <<registered, supported, state, activeDependents>>,
         dirty \subseteq dirty', toDrive' = toDrive
  PROVE  NothingLeftToDrive'
BY DEF NothingLeftToDrive, MustStart, MustStop, MustCancel

LEMMA SetStateDecided ==
  ASSUME Types, NEW t \in registered, NEW s, SetState(t, s), UNCHANGED <<graph, cache>>,
         NEW x \in registered \ dirty', Decided(x)
  PROVE  Decided(x)' /\ (x = t => state[t] = s) /\ dirty \subseteq dirty'
<1>1. CASE state[t] = s
  BY <1>1, DecidedKept DEF SetState, task, cache
<1>2. CASE state[t] # s
  <2>1. /\ state' = [state EXCEPT ![t] = s] /\ activeDependents' = ActiveAfter(t, s)
        /\ dirty' = dirty \cup Concerns(t, s)
    BY <1>2 DEF SetState
  <2>2. x # t /\ x \in Tasks
    BY <2>1 DEF Concerns, Types
  <2>3. state'[x] = state[x]
    BY <2>1, <2>2 DEF Types
  <2>4. activeDependents'[x] = activeDependents[x]
    <3>1. CASE x \notin DepsOf(t)
      BY <2>1, <2>2, <3>1 DEF ActiveAfter
    <3>2. CASE x \in DepsOf(t)
      <4>1. state[t] \in Active <=> s \in Active
        BY <2>1, <3>2 DEF Concerns
      <4>2. activeDependents[x] \in Int
        BY <2>2 DEF Types
      <4> QED BY <2>1, <2>2, <3>2, <4>1, <4>2 DEF ActiveAfter, One
    <3> QED BY <3>1, <3>2
  <2> QED BY <2>1, <2>2, <2>3, <2>4, DecidedKept DEF cache
<1> QED BY <1>1, <1>2

LEMMA MoveDecided ==
  ASSUME Types, NothingLeftToDrive, NEW t \in registered, NEW s, SetState(t, s),
         UNCHANGED <<graph, cache, toDrive>>
  PROVE  NothingLeftToDrive'
<1>1. dirty \subseteq dirty'
  BY DEF SetState
<1>2. ASSUME NEW x \in registered' \ (dirty \cup toDrive)', x \notin dirty' PROVE Decided(x)'
  <2>1. Decided(x) /\ x \in registered \ dirty'
    BY <1>1, <1>2 DEF NothingLeftToDrive, Decided, graph
  <2> QED BY <2>1, SetStateDecided
<1> QED BY <1>2 DEF NothingLeftToDrive, Decided

LEMMA CommandDecided ==
  ASSUME Shape, NothingLeftToDrive, NEW I, NEW newPins, NEW newVetoed,
         NEW revived, NEW stopped, NEW hardKilled,
         Command(I, newPins, newVetoed, revived, stopped, hardKilled)
  PROVE  NothingLeftToDrive'
<1> DEFINE ended == stopped \cup (hardKilled \cap UpTasks)
           changed == revived \cup ended
<1>1. /\ state' = [t \in Tasks |-> IF t \in revived THEN "Idle"
                                   ELSE IF t \in ended THEN "Stopping" ELSE state[t]]
      /\ dirty \cup changed \subseteq dirty'
      /\ UNCHANGED <<graph, cache, activeDependents, toDrive>>
  BY DEF Command, Receive
<1>2. ASSUME NEW x \in registered' \ (dirty' \cup toDrive') PROVE Decided(x)'
  <2>1. x \in registered \ (dirty \cup toDrive) /\ x \in Tasks /\ x \notin changed
    BY <1>1, <1>2 DEF graph, Shape, Types
  <2>2. Decided(x) /\ state'[x] = state[x]
    BY <1>1, <2>1 DEF NothingLeftToDrive, Decided
  <2> QED BY <1>1, <2>2, DecidedKept DEF cache
<1> QED BY <1>2 DEF NothingLeftToDrive, Decided

LEMMA RegisterDecided ==
  ASSUME NothingLeftToDrive, NEW t \in Tasks, NEW D, NEW pinned, Register(t, D, pinned)
  PROVE  NothingLeftToDrive'
<1>1. UNCHANGED <<supported, state, activeDependents, toDrive>>
  BY DEF Register, Receive, task, cache
<1>2. CASE ~(D \subseteq registered)
  <2>1. registered' = registered /\ dirty' = dirty
    BY <1>2 DEF Register
  <2> QED BY <1>1, <2>1, SameDecided
<1>3. CASE D \subseteq registered
  <2>1. registered' = registered \cup {t} /\ dirty' = dirty \cup {t} \cup D
    BY <1>3 DEF Register
  <2> QED BY <1>1, <2>1 DEF NothingLeftToDrive, MustStart, MustStop, MustCancel
<1> QED BY <1>2, <1>3

LEMMA RemoveDecided ==
  ASSUME Shape, NothingLeftToDrive, NEW I, Remove(I) PROVE NothingLeftToDrive'
<1> DEFINE Lost(P, d) == Cardinality({p \in P : <<p, d>> \in edges})
           stopped == {t \in I : state[t] \in Active}
<1>1. /\ Types /\ I \subseteq registered /\ registered' = registered \ I
      /\ supported' = supported \ I /\ toDrive' = toDrive
      /\ activeDependents' = [d \in Tasks |->
           IF d \in I THEN 0 ELSE activeDependents[d] - Lost(stopped, d)]
      /\ dirty' = QueueWithout(I)
      /\ \A p \in registered \ I : state'[p] = state[p]
  BY DEF Remove, Receive, Shape, Types
<1>2. ASSUME NEW x \in registered' \ (dirty' \cup toDrive') PROVE Decided(x)'
  <2>1. /\ x \in registered \ (dirty \cup toDrive) /\ x \notin I /\ x \in Tasks
        /\ \A t \in I : <<t, x>> \notin edges
    BY <1>1, <1>2 DEF QueueWithout, Types
  <2>2. activeDependents'[x] = activeDependents[x]
    <3>1. {p \in stopped : <<p, x>> \in edges} = {}
      BY <2>1
    <3>2. Lost(stopped, x) = 0
      BY <3>1, FS_EmptySet
    <3> HIDE DEF Lost
    <3> QED BY <1>1, <2>1, <3>2 DEF Types
  <2>3. Decided(x)
    BY <2>1 DEF NothingLeftToDrive, Decided
  <2> QED BY <1>1, <2>1, <2>2, <2>3, DecidedKept
<1> QED BY <1>2 DEF NothingLeftToDrive, Decided

LEMMA DriveDecided ==
  ASSUME Shape, NothingLeftToDrive, NEW t \in Tasks, Drive(t) PROVE NothingLeftToDrive'
<1>1. /\ Types /\ t \in registered /\ toDrive' = toDrive \ {t}
      /\ UNCHANGED <<graph, cache>>
  BY DEF Drive, Shape, Types
<1>2. ASSUME NEW x \in registered \ (dirty' \cup toDrive') PROVE Decided(x)'
  <2>1. CASE Decided(t) /\ UNCHANGED <<task, activeDependents, queues>>
    <3>1. Decided(x)
      BY <1>1, <1>2, <2>1 DEF NothingLeftToDrive, Decided, queues
    <3> QED BY <1>1, <2>1, <3>1, DecidedKept DEF task, cache
  <2>2. ASSUME NEW s, SetState(t, s), state[t] # s PROVE Decided(x)'
    <3>1. x # t /\ dirty \subseteq dirty'
      BY <1>2, <2>2 DEF SetState, Concerns
    <3>2. Decided(x)
      BY <1>1, <1>2, <3>1 DEF NothingLeftToDrive, Decided
    <3> QED BY <1>1, <1>2, <2>2, <3>2, SetStateDecided
  <2>3. /\ MustStart(t) => state[t] # "Starting"
        /\ MustStop(t) => state[t] # "Stopping"
        /\ MustCancel(t) => state[t] # "Idle"
    BY DEF MustStart, MustStop, MustCancel, Up
  <2> QED BY <2>1, <2>2, <2>3, DriveCases DEF Decided
<1> QED BY <1>1, <1>2 DEF NothingLeftToDrive, Decided, graph

LEMMA NextDecided == ASSUME Shape, NothingLeftToDrive, [Next]_vars PROVE NothingLeftToDrive'
<1>1. Types
  BY DEF Shape
<1>2. CASE Input
  <2>1. ASSUME NEW I, ClientCommand(I) PROVE NothingLeftToDrive'
    BY <2>1, CommandLegal, CommandDecided
  <2>2. ASSUME NEW I, SetLabel(I) PROVE NothingLeftToDrive'
    BY <2>2, SameDecided DEF SetLabel, Receive, graph, task, cache, counters
  <2>3. ASSUME NEW t \in Tasks, TaskMsg(t) PROVE NothingLeftToDrive'
    BY <2>3, SameDecided DEF TaskMsg, Receive, graph, task, cache, counters
  <2>4. ASSUME NEW t \in Tasks, NEW r \in Effects, TaskReport(t, r)
        PROVE  NothingLeftToDrive'
    BY <1>1, <2>4, MoveDecided DEF TaskReport, OnReport, Receive
  <2>5. ASSUME Quit PROVE NothingLeftToDrive'
    BY <2>5, SameDecided DEF Quit, graph, task, cache, counters
  <2> QED BY <1>2, <2>1, <2>2, <2>3, <2>4, <2>5, RegisterDecided, RemoveDecided DEF Input
<1>3. CASE Timeout
  <2>1. PICK tm \in timers : StateTimeout(tm)
    BY <1>3 DEF Timeout
  <2>2. UNCHANGED <<graph, cache, toDrive>>
    BY <2>1 DEF StateTimeout, Receive
  <2>3. CASE UNCHANGED <<state, activeDependents, dirty>>
    BY <2>2, <2>3, SameDecided DEF graph, cache
  <2>4. CASE tm.task \in registered /\ SetState(tm.task, "Idle")
    BY <1>1, <2>2, <2>4, MoveDecided
  <2> QED BY <2>1, <2>3, <2>4 DEF StateTimeout, task
<1>4. CASE Work
  <2>1. ASSUME NEW t \in Tasks, ApplyEffect(t) PROVE NothingLeftToDrive'
    <3>1. t \in registered
      BY <2>1 DEF ApplyEffect, Shape, Gone
    <3> QED BY <1>1, <2>1, <3>1, MoveDecided DEF ApplyEffect, OnReport
  <2>2. ASSUME NEW t \in Tasks, Recompute(t) PROVE NothingLeftToDrive'
    <3>1. /\ supported' \in {supported \cup {t}, supported \ {t}}
          /\ dirty \ {t} \subseteq dirty' /\ toDrive' = toDrive \cup {t}
          /\ UNCHANGED <<registered, state, activeDependents>>
      BY <2>2 DEF Recompute, graph, task
    <3> QED BY <3>1 DEF NothingLeftToDrive, MustStart, MustStop, MustCancel
  <2>3. ASSUME Settled PROVE NothingLeftToDrive'
    BY <2>3, SameDecided DEF Settled, graph, task, cache, counters, queues
  <2> QED BY <1>4, <2>1, <2>2, <2>3, DriveDecided DEF Work
<1>5. CASE Exited \/ UNCHANGED vars
  BY <1>5, SameDecided DEF Exited, vars, graph, task, cache, counters, queues, loop
<1> QED BY <1>2, <1>3, <1>4, <1>5 DEF Next

(* However messages, reports and rounds follow each other, and even when a *)
(* settle is cut short by its budget, a task that should be started,       *)
(* stopped or taken out of its retry delay is queued for it                *)
(* (set_state, enqueue_parents, remove_task, drive_task).                  *)
THEOREM NothingForgotten == Spec => []NothingLeftToDrive
<1>1. Init => NothingLeftToDrive
  BY DEF Init, NothingLeftToDrive
<1>2. Shape /\ NothingLeftToDrive /\ [Next]_vars => NothingLeftToDrive'
  BY NextDecided
<1> QED BY <1>1, <1>2, ShapeHolds, PTL DEF Spec

(* With that, drive_task always finds the task it is asked to drive, and    *)
(* nothing that must be driven is missing from the queue.                   *)
THEOREM QueueStaysRight == Spec => []QueueRight
BY QueuedStayLive, NothingForgotten, PTL DEF QueueRight
-----------------------------------------------------------------------------
(* The kernel implements Orchestrator: every step is one of its moves, or  *)
(* moves nothing.                                                          *)
LEMMA Moves ==
  ASSUME Types, NEW t \in registered, NEW s, SetState(t, s), state[t] # s,
         UNCHANGED <<graph, intent>>
  PROVE  Promise!Move(t, s)
BY DEF SetState, Promise!Move, graph, intent

LEMMA Rests ==
  ASSUME UNCHANGED <<graph, state, quitting>> PROVE Promise!Next
BY DEF Promise!Next, Promise!Turn, graph

LEMMA SetStateTo ==
  ASSUME Types, NEW t \in registered, NEW s, SetState(t, s), UNCHANGED <<graph, intent>>
  PROVE  \/ UNCHANGED <<graph, state, quitting>>
         \/ state[t] # s /\ Promise!Move(t, s)
<1>1. CASE state[t] = s
  BY <1>1 DEF SetState, task, intent
<1>2. CASE state[t] # s
  BY <1>2, Moves
<1> QED BY <1>1, <1>2

(* A report moves a task as its lifecycle allows, wherever it arrives. *)
LEMMA ReportPromised ==
  ASSUME Types, NEW t \in registered, NEW r, phase # "drive",
         SetState(t, AfterReport(t, r)), UNCHANGED <<graph, intent>>
  PROVE  Promise!Next
<1> DEFINE s == AfterReport(t, r)
<1>1. t \in Tasks
  BY DEF Types
<1>2. CASE UNCHANGED <<graph, state, quitting>>
  BY <1>2, Rests
<1>3. CASE state[t] # s /\ Promise!Move(t, s)
  <2>1. CASE r = "Started" /\ state[t] = "Starting"
    <3>1. s \in {"Ready", "Running"}
      BY <2>1 DEF AfterReport, Exits
    <3>2. Promise!Advance(t)
      BY <1>3, <2>1, <3>1 DEF Promise!Advance
    <3> QED BY <1>1, <3>2 DEF Promise!Next
  <2>2. CASE r = "Ready" /\ state[t] = "Running"
    <3>1. s = "Ready"
      BY <2>2 DEF AfterReport, Exits
    <3>2. Promise!Advance(t)
      BY <1>3, <2>2, <3>1 DEF Promise!Advance
    <3> QED BY <1>1, <3>2 DEF Promise!Next
  <2>3. CASE r \in Exits /\ state[t] = "Stopping"
    <3>1. s = "Idle"
      BY <2>3 DEF AfterReport, Exits, Up
    <3>2. Promise!Settle(t)
      BY <1>3, <2>3, <3>1 DEF Promise!Settle
    <3> QED BY <1>1, <3>2 DEF Promise!Next
  <2>4. CASE r \in Exits /\ state[t] \in Up
    <3>1. \/ s = "Done" /\ Kind[t] = "Job"
          \/ s = "Backoff" \/ s = "Exited"
      BY <2>4 DEF AfterReport, Exits, Up
    <3>2. Promise!Exit(t)
      BY <1>3, <2>4, <3>1 DEF Promise!Exit, Promise!Up, Up
    <3> QED BY <1>1, <3>2 DEF Promise!Next
  <2>5. CASE /\ ~(r = "Started" /\ state[t] = "Starting")
             /\ ~(r = "Ready" /\ state[t] = "Running")
             /\ ~(r \in Exits /\ state[t] = "Stopping")
             /\ ~(r \in Exits /\ state[t] \in Up)
    BY <1>3, <2>5 DEF AfterReport
  <2> QED BY <2>1, <2>2, <2>3, <2>4, <2>5
<1> QED BY <1>2, <1>3, SetStateTo

LEMMA CommandPromised ==
  ASSUME Shape, NEW I, NEW newPins, NEW newVetoed,
         NEW revived, NEW stopped, NEW hardKilled,
         Legal(I, newPins, newVetoed, revived, stopped, hardKilled),
         Command(I, newPins, newVetoed, revived, stopped, hardKilled)
  PROVE  Promise!Next
<1> DEFINE ended == stopped \cup (hardKilled \cap UpTasks)
<1>1. /\ phase = "recv" /\ UNCHANGED <<graph, quitting>>
      /\ state' = [t \in Tasks |-> IF t \in revived THEN "Idle"
                                   ELSE IF t \in ended THEN "Stopping" ELSE state[t]]
  BY DEF Command, Receive
<1>2. /\ revived \subseteq {t \in registered : state[t] \in {"Backoff", "Done", "Exited"}}
      /\ ended \subseteq {t \in registered : state[t] \in Up}
  BY DEF Legal, UpTasks
<1>3. state' = [t \in Tasks |-> IF t \in ended THEN "Stopping"
                                ELSE IF t \in revived THEN "Idle" ELSE state[t]]
  BY <1>1, <1>2 DEF Up
<1> HIDE DEF ended
<1>4. Promise!Command
  BY <1>1, <1>2, <1>3 DEF Promise!Command, Promise!Up, Up, graph
<1> QED BY <1>4 DEF Promise!Next

(* The one place where the kernel acts on its own: what it starts is       *)
(* supported, and what it stops has no active dependent left.              *)
LEMMA DrivePromised ==
  ASSUME Shape, CountersInv, CachesInv, NEW t \in Tasks, Drive(t) PROVE Promise!Next
<1>1. /\ Types /\ t \in registered /\ phase = "drive"
      /\ UNCHANGED <<graph, intent>>
  BY DEF Drive, Shape, Types
<1>2. CASE MustStart(t) /\ SetState(t, "Starting")
  <2>1. Promise!Move(t, "Starting") /\ state[t] = "Idle"
    BY <1>1, <1>2, Moves DEF MustStart
  <2>2. Backed(t)
    BY <1>1, <1>2 DEF MustStart, CachesInv, DriveSnapshot
  <2>3. Promise!BringUp(t)
    BY <1>1, <2>1, <2>2
    DEF Backed, Promise!BringUp, Promise!DepsOf, DepsOf, Promise!Satisfied, Satisfied, IsSatisfied
  <2> QED BY <2>3 DEF Promise!Next
<1>3. CASE MustStop(t) /\ SetState(t, "Stopping")
  <2>1. Promise!Move(t, "Stopping") /\ state[t] \in Up
    BY <1>1, <1>3, Moves DEF MustStop, Up
  <2>2. AD(t) = {}
    <3>1. Cardinality(AD(t)) = 0
      BY <1>1, <1>3 DEF MustStop, CountersInv, ActiveExact
    <3>2. IsFiniteSet(AD(t))
      BY <1>1, Counted
    <3> QED BY <3>1, <3>2, FS_EmptySet
  <2>3. Promise!TakeDown(t)
    BY <1>1, <2>1, <2>2
    DEF AD, Promise!TakeDown, Promise!DependentsOf, Promise!Active, Promise!Up, Active, Up
  <2> QED BY <2>3 DEF Promise!Next
<1>4. CASE MustCancel(t) /\ SetState(t, "Idle")
  <2>1. Promise!Move(t, "Idle") /\ state[t] = "Backoff"
    BY <1>1, <1>4, Moves DEF MustCancel
  <2>2. Promise!CancelRetry(t)
    BY <1>1, <2>1 DEF Promise!CancelRetry
  <2> QED BY <2>2 DEF Promise!Next
<1>5. CASE UNCHANGED task
  BY <1>1, <1>5, Rests DEF task, intent
<1> QED BY <1>2, <1>3, <1>4, <1>5, DriveCases

LEMMA NextPromised ==
  ASSUME Shape, CountersInv, CachesInv, [Next]_vars
  PROVE  [Promise!Next]_(Promise!vars)
<1>1. Types
  BY DEF Shape
<1>2. CASE Input
  <2>1. ASSUME NEW t \in Tasks, NEW D, NEW pinned, Register(t, D, pinned)
        PROVE  Promise!Next
    <3>1. /\ phase = "recv" /\ t \notin registered /\ UNCHANGED <<state, quitting>>
      BY <1>1, <2>1 DEF Register, Receive, Types, task
    <3>2. CASE D \subseteq registered
      <4>1. Promise!Register(t)
        BY <2>1, <3>1, <3>2 DEF Register, Promise!Register
      <4> QED BY <4>1 DEF Promise!Next
    <3>3. CASE ~(D \subseteq registered)
      <4>1. Promise!Turn
        BY <2>1, <3>1, <3>3 DEF Register, Promise!Turn
      <4> QED BY <4>1 DEF Promise!Next
    <3> QED BY <3>2, <3>3
  <2>2. ASSUME NEW I, ClientCommand(I) PROVE Promise!Next
    BY <2>2, CommandLegal, CommandPromised
  <2>3. ASSUME NEW I, Remove(I) PROVE Promise!Next
    <3>1. Promise!Remove(I) /\ I \subseteq registered
      BY <2>3 DEF Remove, Receive, Promise!Remove
    <3> QED BY <3>1 DEF Promise!Next
  <2>4. ASSUME NEW I, SetLabel(I) PROVE Promise!Next
    BY <2>4, Rests DEF SetLabel, task, intent
  <2>5. ASSUME NEW t \in Tasks, TaskMsg(t) PROVE Promise!Next
    BY <2>5, Rests DEF TaskMsg, task, intent
  <2>6. ASSUME NEW t \in Tasks, NEW r \in Effects, TaskReport(t, r) PROVE Promise!Next
    BY <1>1, <2>6, ReportPromised DEF TaskReport, OnReport, Receive
  <2>7. ASSUME Quit PROVE Promise!Next
    <3>1. Promise!Quit
      BY <2>7 DEF Quit, Promise!Quit, graph, task
    <3> QED BY <3>1 DEF Promise!Next
  <2> QED BY <1>2, <2>1, <2>2, <2>3, <2>4, <2>5, <2>6, <2>7 DEF Input
<1>3. CASE Timeout
  <2>1. PICK tm \in timers : StateTimeout(tm)
    BY <1>3 DEF Timeout
  <2>2. phase = "recv" /\ UNCHANGED <<graph, intent>>
    BY <2>1 DEF StateTimeout, Receive
  <2>3. CASE UNCHANGED state
    BY <2>2, <2>3, Rests DEF intent
  <2>4. CASE /\ tm.task \in registered /\ state[tm.task] \in {"Stopping", "Backoff"}
             /\ SetState(tm.task, "Idle")
    <3>1. Promise!Move(tm.task, "Idle")
      BY <1>1, <2>2, <2>4, Moves
    <3>2. Promise!Settle(tm.task)
      BY <2>2, <2>4, <3>1 DEF Promise!Settle
    <3> QED BY <1>1, <2>4, <3>2 DEF Promise!Next, Types
  <2> QED BY <2>1, <2>3, <2>4 DEF StateTimeout, task
<1>4. CASE Work
  <2>1. ASSUME NEW t \in Tasks, ApplyEffect(t) PROVE Promise!Next
    <3>1. t \in registered
      BY <2>1 DEF ApplyEffect, Shape, Gone
    <3> QED BY <1>1, <2>1, <3>1, ReportPromised DEF ApplyEffect, OnReport
  <2>2. ASSUME NEW t \in Tasks, Recompute(t) PROVE Promise!Next
    BY <2>2, Rests DEF Recompute, task, intent
  <2>3. ASSUME Settled PROVE Promise!Next
    BY <2>3, Rests DEF Settled, task, intent
  <2> QED BY <1>4, <2>1, <2>2, <2>3, DrivePromised DEF Work
<1>5. CASE Exited \/ UNCHANGED vars
  BY <1>5, Rests DEF Exited, vars, task, intent
<1> QED BY <1>2, <1>3, <1>4, <1>5 DEF Next

(* The kernel's own starts are over satisfied dependencies, its own stops  *)
(* after every active dependent, nothing starts once a quit has begun, and *)
(* no report, timeout or command moves a task otherwise than its lifecycle *)
(* allows (drive_task, the on_task_* handlers, on_state_timeout).          *)
THEOREM KernelOrchestrates == Spec => Orchestrates
<1>1. Init => Promise!Init
  BY DEF Init, Promise!Init
<1>2. Shape /\ CountersInv /\ CachesInv /\ [Next]_vars => [Promise!Next]_(Promise!vars)
  BY NextPromised
<1> QED
  BY <1>1, <1>2, ShapeHolds, CountersHold, CachesHold, PTL DEF Spec, Orchestrates, Promise!Spec
-----------------------------------------------------------------------------
(* Induction.  The library's principles take a predicate as a parameter;   *)
(* these take a set.                                                       *)
LEMMA Minimal ==
  ASSUME NEW S, IsFiniteSet(S), NEW F, F \subseteq SUBSET S, F # {}
  PROVE  \E T : T \in F /\ (\A U \in F : U \subseteq T => U = T)
<1>1. IsWellFoundedOn(StrictSubsetOrdering(S), SUBSET S)
  BY FS_StrictSubsetOrderingWellFounded, FS_FiniteSubsetsOfFinite
<1>2. PICK T \in F : \A U \in F : ~(<<U, T>> \in StrictSubsetOrdering(S))
  BY <1>1, WFMin
<1>3. ASSUME NEW U \in F, U \subseteq T PROVE U = T
  BY <1>2, <1>3 DEF StrictSubsetOrdering
<1> QED BY <1>2, <1>3

LEMMA Least ==
  ASSUME NEW S \in SUBSET Nat, S # {}
  PROVE  \E n \in S : \A m \in S : n <= m
<1>1. PICK n \in S : TRUE
  OBVIOUS
<1> DEFINE N == 0..n
           F == {0..m : m \in {m \in S : m <= n}}
<1>2. IsFiniteSet(N)
  BY FS_Interval
<1>8. F \subseteq SUBSET N /\ F # {}
  BY <1>1
<1>3. \A T \in F : \E k \in S : k <= n /\ T = 0..k
  OBVIOUS
<1>4. \A k \in S : k <= n => 0..k \in F
  OBVIOUS
<1> HIDE DEF F, N
<1>5. PICK T : T \in F /\ (\A U \in F : U \subseteq T => U = T)
  BY <1>2, <1>8, Minimal
<1>6. PICK k \in S : k <= n /\ T = 0..k
  BY <1>3, <1>5
<1>7. ASSUME NEW m \in S, m < k PROVE FALSE
  <2>1. 0..m \in F
    BY <1>4, <1>6, <1>7
  <2>2. 0..m \subseteq 0..k /\ k \in 0..k /\ k \notin 0..m
    BY <1>6, <1>7
  <2> QED BY <1>5, <1>6, <2>1, <2>2
<1> QED BY <1>7

LEMMA ByInduction ==
  ASSUME NEW S, 0 \in S, \A n \in Nat : n \in S => n + 1 \in S
  PROVE  Nat \subseteq S
<1> SUFFICES ASSUME Nat \ S # {} PROVE FALSE
  OBVIOUS
<1>1. PICK n \in Nat \ S : \A m \in Nat \ S : n <= m
  BY Least
<1>2. n - 1 \in Nat /\ n - 1 \in S
  BY <1>1
<1> QED BY <1>1, <1>2

(* The iterates of a function on sets, from A: they exist, ...             *)
Iterated(f, X, A, G, N) ==
  /\ f \in [0..N -> SUBSET X] /\ f[0] = A
  /\ \A i \in 1..N : f[i] = G[f[i-1]]

LEMMA Iterates ==
  ASSUME NEW X, NEW A \in SUBSET X, NEW G \in [SUBSET X -> SUBSET X], NEW N \in Nat
  PROVE  \E f : Iterated(f, X, A, G, N)
<1> DEFINE S == {n \in Nat : \E f : Iterated(f, X, A, G, n)}
<1>1. 0 \in S
  <2>1. Iterated([i \in 0..0 |-> A], X, A, G, 0)
    BY DEF Iterated
  <2> QED BY <2>1
<1>2. ASSUME NEW n \in Nat, n \in S PROVE n + 1 \in S
  <2>1. PICK f : Iterated(f, X, A, G, n)
    BY <1>2
  <2> DEFINE g == [i \in 0..(n+1) |-> IF i <= n THEN f[i] ELSE G[f[n]]]
  <2>2. f \in [0..n -> SUBSET X] /\ f[0] = A /\ \A i \in 1..n : f[i] = G[f[i-1]]
    BY <2>1 DEF Iterated
  <2>3. g \in [0..(n+1) -> SUBSET X] /\ g[0] = A
    BY <2>2
  <2>4. ASSUME NEW i \in 1..(n+1) PROVE g[i] = G[g[i-1]]
    <3>1. CASE i <= n
      BY <2>2, <3>1
    <3>2. CASE i = n + 1
      BY <2>2, <3>2
    <3> QED BY <3>1, <3>2
  <2> HIDE DEF g
  <2>5. Iterated(g, X, A, G, n + 1)
    BY <2>3, <2>4 DEF Iterated
  <2> QED BY <2>5
<1> HIDE DEF S
<1>3. N \in S
  BY <1>1, <1>2, ByInduction
<1> QED BY <1>3 DEF S

LEMMA IteratedIf ==
  ASSUME NEW X, NEW A \in SUBSET X, NEW G \in [SUBSET X -> SUBSET X], NEW N \in Nat,
         NEW f, f = [i \in 0..N |-> f[i]], f[0] = A,
         \A i \in 1..N : f[i-1] \in SUBSET X => f[i] = G[f[i-1]]
  PROVE  Iterated(f, X, A, G, N)
<1> DEFINE S == {n \in Nat : n <= N => f[n] \in SUBSET X}
<1>1. 0 \in S
  OBVIOUS
<1>2. ASSUME NEW n \in Nat, n \in S PROVE n + 1 \in S
  <2> SUFFICES ASSUME n + 1 <= N PROVE f[n+1] \in SUBSET X
    OBVIOUS
  <2>1. f[n] \in SUBSET X /\ n + 1 \in 1..N /\ (n + 1) - 1 = n
    BY <1>2
  <2>2. f[n+1] = G[f[n]]
    BY <2>1
  <2> QED BY <2>1, <2>2
<1> HIDE DEF S
<1>3. Nat \subseteq S
  BY <1>1, <1>2, ByInduction
<1>4. \A i \in 0..N : f[i] \in SUBSET X
  BY <1>3 DEF S
<1>5. f \in [0..N -> SUBSET X]
  BY <1>4
<1>6. ASSUME NEW i \in 1..N PROVE f[i] = G[f[i-1]]
  <2>1. i - 1 \in 0..N
    OBVIOUS
  <2> QED BY <1>4, <2>1
<1> QED BY <1>5, <1>6 DEF Iterated

(* ... and have all come to rest when each that has not is followed by one *)
(* of a lower rank, and no rank is above N.                                *)
Ranks(rank, X, G, N) ==
  /\ rank \in [SUBSET X -> Nat] /\ \A S \in SUBSET X : rank[S] <= N
  /\ \A S \in SUBSET X : G[S] = S \/ rank[G[S]] < rank[S]
LEMMA ComesToRest ==
  ASSUME NEW X, NEW A \in SUBSET X, NEW G \in [SUBSET X -> SUBSET X], NEW N \in Nat,
         NEW f, Iterated(f, X, A, G, N),
         NEW rank, Ranks(rank, X, G, N)
  PROVE  f[N] \in SUBSET X /\ G[f[N]] = f[N]
<1>1. f \in [0..N -> SUBSET X] /\ \A i \in 1..N : f[i] = G[f[i-1]]
  BY DEF Iterated
<1>8. /\ rank \in [SUBSET X -> Nat] /\ \A S \in SUBSET X : rank[S] <= N
      /\ \A S \in SUBSET X : G[S] = S \/ rank[G[S]] < rank[S]
  BY DEF Ranks
<1> DEFINE S == {n \in Nat : n <= N => G[f[n]] = f[n] \/ rank[f[n]] <= N - n}
<1>2. 0 \in S
  BY <1>1, <1>8
<1>3. ASSUME NEW n \in Nat, n \in S PROVE n + 1 \in S
  <2> SUFFICES ASSUME n + 1 <= N
               PROVE  G[f[n+1]] = f[n+1] \/ rank[f[n+1]] <= N - (n+1)
    OBVIOUS
  <2>1. f[n] \in SUBSET X /\ f[n+1] = G[f[n]] /\ f[n+1] \in SUBSET X
    BY <1>1
  <2>2. CASE G[f[n]] = f[n]
    BY <2>1, <2>2
  <2>3. CASE rank[f[n]] <= N - n /\ G[f[n]] # f[n]
    <3>1. rank[f[n+1]] < rank[f[n]] /\ rank[f[n]] \in Nat /\ rank[f[n+1]] \in Nat
      BY <1>8, <2>1, <2>3
    <3> QED BY <2>3, <3>1
  <2> QED BY <1>3, <2>2, <2>3
<1> HIDE DEF S
<1>4. N \in S
  BY <1>2, <1>3, ByInduction
<1>5. G[f[N]] = f[N] \/ rank[f[N]] <= 0
  BY <1>4 DEF S
<1>6. f[N] \in SUBSET X
  BY <1>1
<1>7. rank[f[N]] \in Nat /\ rank[G[f[N]]] \in Nat
  BY <1>6, <1>8
<1> QED BY <1>5, <1>6, <1>7, <1>8

(* What holds of A, and of G[S] where it holds of S, holds of the last.    *)
Carried(Q, X, A, G) == A \in Q /\ \A S \in SUBSET X : S \in Q => G[S] \in Q
LEMMA HoldsOfIterates ==
  ASSUME NEW X, NEW A \in SUBSET X, NEW G \in [SUBSET X -> SUBSET X], NEW N \in Nat,
         NEW f, Iterated(f, X, A, G, N),
         NEW Q, Carried(Q, X, A, G)
  PROVE  f[N] \in Q
<1>1. f \in [0..N -> SUBSET X] /\ f[0] = A /\ \A i \in 1..N : f[i] = G[f[i-1]]
  BY DEF Iterated
<1>5. A \in Q /\ \A S \in SUBSET X : S \in Q => G[S] \in Q
  BY DEF Carried
<1> DEFINE S == {n \in Nat : n <= N => f[n] \in Q}
<1>2. 0 \in S
  BY <1>1, <1>5
<1>3. ASSUME NEW n \in Nat, n \in S PROVE n + 1 \in S
  <2> SUFFICES ASSUME n + 1 <= N PROVE f[n+1] \in Q
    OBVIOUS
  <2>1. f[n] \in SUBSET X /\ f[n+1] = G[f[n]] /\ f[n] \in Q
    BY <1>1, <1>3
  <2> QED BY <1>5, <2>1
<1> HIDE DEF S
<1>4. N \in S
  BY <1>2, <1>3, ByInduction
<1> QED BY <1>4 DEF S

-----------------------------------------------------------------------------
(* Requirements never form a cycle: a task requires only tasks that were   *)
(* there before it, and an id is never given again.  Whatever tasks one    *)
(* takes, one of them is required by none of them and one requires none.   *)
FirstOf(S, t) == \A p \in S : <<p, t>> \notin edges
LastOf(S, t) == \A d \in S : <<t, d>> \notin edges
HasEnds(S) == (\E t \in S : FirstOf(S, t)) /\ (\E t \in S : LastOf(S, t))
Acyclic == \A S \in SUBSET registered : S # {} => HasEnds(S)

LEMMA RegisterAcyclic ==
  ASSUME Shape, NoSelfEdge, Acyclic, NEW t \in Tasks, NEW D, NEW pinned,
         Register(t, D, pinned)
  PROVE  Acyclic'
<1>1. Types /\ t \notin registered
  BY DEF Register, Shape, Types
<1>2. CASE ~(D \subseteq registered)
  <2>1. UNCHANGED <<registered, edges>>
    BY <1>2 DEF Register
  <2> QED BY <2>1 DEF Acyclic, HasEnds, FirstOf, LastOf
<1>3. CASE D \subseteq registered
  <2>1. /\ registered' = registered \cup {t}
        /\ edges' = edges \cup {<<t, d>> : d \in D}
    BY <1>3 DEF Register
  <2>2. /\ \A p \in registered' : <<p, t>> \notin edges'
        /\ \A p, d \in registered : <<p, d>> \in edges' <=> <<p, d>> \in edges
    BY <1>1, <1>3, <2>1 DEF Types
  <2>3. ASSUME NEW S \in SUBSET registered, S # {}, NEW s \in S, FirstOf(S, s)
        PROVE  FirstOf(S, s)'
    BY <2>2, <2>3 DEF FirstOf
  <2>4. ASSUME NEW S \in SUBSET registered, S # {}, NEW s \in S, LastOf(S, s)
        PROVE  LastOf(S, s)' /\ LastOf(S \cup {t}, s)'
    BY <2>1, <2>2, <2>4 DEF LastOf
  <2>5. ASSUME NEW S \in SUBSET registered', S # {} PROVE HasEnds(S)'
    <3>1. CASE t \notin S
      <4>1. S \in SUBSET registered /\ HasEnds(S)
        BY <2>1, <2>5, <3>1 DEF Acyclic
      <4> QED BY <2>3, <2>4, <2>5, <4>1 DEF HasEnds
    <3>2. CASE t \in S
      <4> DEFINE R == S \ {t}
      <4>1. FirstOf(S, t)'
        BY <2>2 DEF FirstOf
      <4>2. R \in SUBSET registered /\ S = R \cup {t}
        BY <2>1, <3>2
      <4>3. CASE R = {}
        <5>1. LastOf(S, t)'
          BY <2>1, <2>2, <4>2, <4>3 DEF LastOf
        <5> QED BY <3>2, <4>1, <5>1 DEF HasEnds
      <4>4. CASE R # {}
        <5> HIDE DEF R
        <5>1. PICK s \in R : LastOf(R, s)
          BY <4>2, <4>4 DEF Acyclic, HasEnds
        <5>2. LastOf(S, s)' /\ s \in S
          BY <2>4, <4>2, <4>4, <5>1
        <5> QED BY <3>2, <4>1, <5>2 DEF HasEnds
      <4> QED BY <4>3, <4>4
    <3> QED BY <3>1, <3>2
  <2> QED BY <2>5 DEF Acyclic
<1> QED BY <1>2, <1>3

LEMMA FewerAcyclic ==
  ASSUME Acyclic, registered' \subseteq registered, edges' \subseteq edges
  PROVE  Acyclic'
<1> SUFFICES ASSUME NEW S \in SUBSET registered', S # {} PROVE HasEnds(S)'
  BY DEF Acyclic
<1>1. S \in SUBSET registered /\ HasEnds(S)
  BY DEF Acyclic
<1> QED BY <1>1 DEF HasEnds, FirstOf, LastOf

LEMMA NextAcyclic ==
  ASSUME Shape, NoSelfEdge, Acyclic, [Next]_vars PROVE Acyclic'
<1>1. ASSUME NEW t \in Tasks, NEW D, NEW pinned, Register(t, D, pinned) PROVE Acyclic'
  BY <1>1, RegisterAcyclic
<1>2. ASSUME NEW I, Remove(I) PROVE Acyclic'
  BY <1>2, FewerAcyclic DEF Remove
<1>3. CASE UNCHANGED graph
  BY <1>3, FewerAcyclic DEF graph
<1>4. ASSUME NEW I, ClientCommand(I) PROVE UNCHANGED graph
  BY <1>4 DEF ClientCommand, Start, Stop, Kill, Down, Veto, RestartTasks, ForceRestart, Command
<1>5. CASE Timeout
  BY <1>3, <1>5 DEF Timeout, StateTimeout
<1>6. CASE Work
  <2>1. ASSUME NEW t \in Tasks, ApplyEffect(t) \/ Recompute(t) PROVE UNCHANGED graph
    BY <2>1 DEF ApplyEffect, OnReport, Recompute
  <2>2. ASSUME NEW t \in Tasks, Drive(t) PROVE UNCHANGED graph
    BY <2>2 DEF Drive
  <2>3. CASE Settled
    BY <2>3, <1>3 DEF Settled
  <2> QED BY <1>3, <1>6, <2>1, <2>2, <2>3 DEF Work
<1>7. CASE Input
  <2>1. ASSUME NEW I, SetLabel(I) PROVE UNCHANGED graph
    BY <2>1 DEF SetLabel
  <2>2. ASSUME NEW t \in Tasks, TaskMsg(t) PROVE UNCHANGED graph
    BY <2>2 DEF TaskMsg
  <2>3. ASSUME NEW t \in Tasks, NEW r \in Effects, TaskReport(t, r) PROVE UNCHANGED graph
    BY <2>3 DEF TaskReport, OnReport
  <2>4. Quit => UNCHANGED graph
    BY DEF Quit
  <2> QED BY <1>1, <1>2, <1>3, <1>4, <1>7, <2>1, <2>2, <2>3, <2>4 DEF Input
<1> QED BY <1>3, <1>5, <1>6, <1>7 DEF Next, Exited, vars

THEOREM NeverCyclic == Spec => []Acyclic
<1>1. Init => Acyclic
  BY DEF Init, Acyclic
<1>2. Shape /\ CachesInv /\ Acyclic /\ [Next]_vars => Acyclic'
  BY NextAcyclic DEF CachesInv
<1> QED BY <1>1, <1>2, ShapeHolds, CachesHold, PTL DEF Spec
-----------------------------------------------------------------------------
(* The oracle *)
Wave == [S \in SUBSET Tasks |->
          S \cup {d \in registered \ vetoed : \E t \in S : <<t, d>> \in edges}]
Sieve == [S \in SUBSET Tasks |->
           {t \in S : \A d \in DepsOf(t) : d \in S /\ Satisfied(d)}]

LEMMA WantedIterated ==
  ASSUME Types, ~quitting
  PROVE  \E f : /\ Iterated(f, Tasks, pins \ vetoed, Wave, Cardinality(Tasks))
                /\ OracleWanted = f[Cardinality(Tasks)]
<1> DEFINE N == Cardinality(Tasks)
           Eq(f) == f = [n \in 0..Cardinality(Tasks) |->
             IF n = 0 THEN pins \ vetoed
             ELSE f[n-1] \cup {d \in registered \ vetoed : \E t \in f[n-1] : <<t, d>> \in edges}]
           g == CHOOSE f : Eq(f)
<1>1. N \in Nat
  BY FS_CardinalityType, KernelAssumption DEF KernelAssumption
<1>2. Wave \in [SUBSET Tasks -> SUBSET Tasks] /\ pins \ vetoed \in SUBSET Tasks
  BY DEF Wave, Types
<1>3. \E f : Iterated(f, Tasks, pins \ vetoed, Wave, N)
  <2> HIDE DEF N
  <2> QED BY <1>1, <1>2, Iterates
<1>4. \A f : Iterated(f, Tasks, pins \ vetoed, Wave, N) => Eq(f)
  <2> SUFFICES ASSUME NEW f, Iterated(f, Tasks, pins \ vetoed, Wave, N) PROVE Eq(f)
    OBVIOUS
  <2> HIDE DEF N
  <2>1. /\ f \in [0..N -> SUBSET Tasks] /\ f[0] = pins \ vetoed
        /\ \A i \in 1..N : f[i] = Wave[f[i-1]]
    BY DEF Iterated
  <2>2. ASSUME NEW i \in 0..N, i # 0
        PROVE  f[i] = f[i-1] \cup {d \in registered \ vetoed : \E t \in f[i-1] : <<t, d>> \in edges}
    <3>1. f[i] = Wave[f[i-1]] /\ f[i-1] \in SUBSET Tasks
      BY <1>1, <2>1, <2>2
    <3> QED BY <3>1 DEF Wave
  <2>3. f = [n \in 0..N |->
             IF n = 0 THEN pins \ vetoed
             ELSE f[n-1] \cup {d \in registered \ vetoed : \E t \in f[n-1] : <<t, d>> \in edges}]
    BY <2>1, <2>2
  <2> QED BY <2>3 DEF N
<1>5. Eq(g)
  BY <1>3, <1>4
<1>6. OracleWanted = g[Cardinality(Tasks)]
  BY DEF OracleWanted
<1> HIDE DEF g
<1>7. Iterated(g, Tasks, pins \ vetoed, Wave, N)
  <2> HIDE DEF N
  <2>1. g = [n \in 0..N |->
             IF n = 0 THEN pins \ vetoed
             ELSE g[n-1] \cup {d \in registered \ vetoed : \E t \in g[n-1] : <<t, d>> \in edges}]
    BY <1>5 DEF N
  <2>2. g = [n \in 0..N |-> g[n]] /\ g[0] = pins \ vetoed
    BY <1>1, <2>1
  <2>3. ASSUME NEW i \in 1..N, g[i-1] \in SUBSET Tasks PROVE g[i] = Wave[g[i-1]]
    <3>1. g[i] = g[i-1] \cup {d \in registered \ vetoed : \E t \in g[i-1] : <<t, d>> \in edges}
      <4>1. i \in 0..N /\ i # 0
        BY <1>1
      <4> QED BY <2>1, <4>1, Zenon
    <3> QED BY <2>3, <3>1 DEF Wave
  <2> QED BY <1>1, <1>2, <2>2, <2>3, IteratedIf
<1> QED BY <1>6, <1>7

LEMMA SupportedIterated ==
  ASSUME Types, NEW W \in SUBSET Tasks, W = OracleWanted
  PROVE  \E f : /\ Iterated(f, Tasks, W, Sieve, Cardinality(Tasks))
                /\ OracleSupported = f[Cardinality(Tasks)]
<1> DEFINE N == Cardinality(Tasks)
           Eq(f) == f = [n \in 0..Cardinality(Tasks) |->
             IF n = 0 THEN OracleWanted
             ELSE {t \in f[n-1] : \A d \in DepsOf(t) : d \in f[n-1] /\ Satisfied(d)}]
           g == CHOOSE f : Eq(f)
<1>1. N \in Nat
  BY FS_CardinalityType, KernelAssumption DEF KernelAssumption
<1>2. Sieve \in [SUBSET Tasks -> SUBSET Tasks]
  BY DEF Sieve
<1>3. \E f : Iterated(f, Tasks, W, Sieve, N)
  <2> HIDE DEF N
  <2> QED BY <1>1, <1>2, Iterates
<1>4. \A f : Iterated(f, Tasks, W, Sieve, N) => Eq(f)
  <2> SUFFICES ASSUME NEW f, Iterated(f, Tasks, W, Sieve, N) PROVE Eq(f)
    OBVIOUS
  <2> HIDE DEF N
  <2>1. /\ f \in [0..N -> SUBSET Tasks] /\ f[0] = W
        /\ \A i \in 1..N : f[i] = Sieve[f[i-1]]
    BY DEF Iterated
  <2>2. ASSUME NEW i \in 0..N, i # 0
        PROVE  f[i] = {t \in f[i-1] : \A d \in DepsOf(t) : d \in f[i-1] /\ Satisfied(d)}
    <3>1. f[i] = Sieve[f[i-1]] /\ f[i-1] \in SUBSET Tasks
      BY <1>1, <2>1, <2>2
    <3> QED BY <3>1 DEF Sieve
  <2>3. f = [n \in 0..N |->
             IF n = 0 THEN OracleWanted
             ELSE {t \in f[n-1] : \A d \in DepsOf(t) : d \in f[n-1] /\ Satisfied(d)}]
    BY <2>1, <2>2
  <2> QED BY <2>3 DEF N
<1>5. Eq(g)
  BY <1>3, <1>4
<1>6. OracleSupported = g[Cardinality(Tasks)]
  BY DEF OracleSupported
<1> HIDE DEF g
<1>7. Iterated(g, Tasks, W, Sieve, N)
  <2> HIDE DEF N
  <2>1. g = [n \in 0..N |->
             IF n = 0 THEN OracleWanted
             ELSE {t \in g[n-1] : \A d \in DepsOf(t) : d \in g[n-1] /\ Satisfied(d)}]
    BY <1>5 DEF N
  <2>2. g = [n \in 0..N |-> g[n]] /\ g[0] = W
    BY <1>1, <2>1
  <2>3. ASSUME NEW i \in 1..N, g[i-1] \in SUBSET Tasks PROVE g[i] = Sieve[g[i-1]]
    <3>1. g[i] = {t \in g[i-1] : \A d \in DepsOf(t) : d \in g[i-1] /\ Satisfied(d)}
      <4>1. i \in 0..N /\ i # 0
        BY <1>1
      <4> QED BY <2>1, <4>1, Zenon
    <3> QED BY <2>3, <3>1 DEF Sieve
  <2> QED BY <1>1, <1>2, <2>2, <2>3, IteratedIf
<1> QED BY <1>6, <1>7

(* The wave comes to rest: where it has not, a task has been added.  So    *)
(* does the sieve: a task has been taken.                                  *)
LEMMA WaveRests ==
  ASSUME Types, NEW A \in SUBSET Tasks, NEW f,
         Iterated(f, Tasks, A, Wave, Cardinality(Tasks))
  PROVE  /\ f[Cardinality(Tasks)] \in SUBSET Tasks
         /\ Wave[f[Cardinality(Tasks)]] = f[Cardinality(Tasks)]
<1> DEFINE N == Cardinality(Tasks)
           rank == [S \in SUBSET Tasks |-> N - Cardinality(S)]
<1>1. N \in Nat /\ IsFiniteSet(Tasks)
  BY FS_CardinalityType, KernelAssumption DEF KernelAssumption
<1>2. ASSUME NEW S \in SUBSET Tasks
      PROVE  IsFiniteSet(S) /\ Cardinality(S) \in Nat /\ Cardinality(S) <= N
  BY <1>1, FS_Subset, FS_CardinalityType
<1>3. Wave \in [SUBSET Tasks -> SUBSET Tasks]
  BY DEF Wave, Types
<1>4. rank \in [SUBSET Tasks -> Nat] /\ \A S \in SUBSET Tasks : rank[S] <= N
  <2> HIDE DEF N
  <2> QED BY <1>1, <1>2
<1>5. ASSUME NEW S \in SUBSET Tasks, Wave[S] # S PROVE rank[Wave[S]] < rank[S]
  <2>1. S \subseteq Wave[S] /\ Wave[S] \in SUBSET Tasks
    BY <1>3 DEF Wave
  <2>2. /\ Cardinality(S) <= Cardinality(Wave[S])
        /\ Cardinality(Wave[S]) = Cardinality(S) => Wave[S] = S
    BY <1>2, <2>1, FS_Subset
  <2>3. Cardinality(S) < Cardinality(Wave[S])
    BY <1>2, <1>5, <2>1, <2>2
  <2> HIDE DEF N
  <2> QED BY <1>1, <1>2, <2>1, <2>3
<1> HIDE DEF N, rank
<1>6. Ranks(rank, Tasks, Wave, N)
  BY <1>4, <1>5 DEF Ranks
<1>7. Iterated(f, Tasks, A, Wave, N)
  BY DEF N
<1>8. f[N] \in SUBSET Tasks /\ Wave[f[N]] = f[N]
  BY <1>1, <1>3, <1>6, <1>7, ComesToRest
<1> QED BY <1>8 DEF N

LEMMA SieveRests ==
  ASSUME Types, NEW A \in SUBSET Tasks, NEW f,
         Iterated(f, Tasks, A, Sieve, Cardinality(Tasks))
  PROVE  /\ f[Cardinality(Tasks)] \in SUBSET Tasks
         /\ Sieve[f[Cardinality(Tasks)]] = f[Cardinality(Tasks)]
<1> DEFINE N == Cardinality(Tasks)
           rank == [S \in SUBSET Tasks |-> Cardinality(S)]
<1>1. N \in Nat /\ IsFiniteSet(Tasks)
  BY FS_CardinalityType, KernelAssumption DEF KernelAssumption
<1>2. ASSUME NEW S \in SUBSET Tasks
      PROVE  IsFiniteSet(S) /\ Cardinality(S) \in Nat /\ Cardinality(S) <= N
  BY <1>1, FS_Subset, FS_CardinalityType
<1>3. Sieve \in [SUBSET Tasks -> SUBSET Tasks]
  BY DEF Sieve
<1>4. rank \in [SUBSET Tasks -> Nat] /\ \A S \in SUBSET Tasks : rank[S] <= N
  BY <1>2
<1>5. ASSUME NEW S \in SUBSET Tasks, Sieve[S] # S PROVE rank[Sieve[S]] < rank[S]
  <2>1. Sieve[S] \subseteq S /\ Sieve[S] \in SUBSET Tasks
    BY <1>3 DEF Sieve
  <2>2. /\ Cardinality(Sieve[S]) <= Cardinality(S)
        /\ Cardinality(S) = Cardinality(Sieve[S]) => S = Sieve[S]
    BY <1>2, <2>1, FS_Subset
  <2>3. Cardinality(Sieve[S]) < Cardinality(S)
    BY <1>2, <1>5, <2>1, <2>2
  <2> QED BY <2>1, <2>3
<1> HIDE DEF N, rank
<1>6. Ranks(rank, Tasks, Sieve, N)
  BY <1>4, <1>5 DEF Ranks
<1>7. Iterated(f, Tasks, A, Sieve, N)
  BY DEF N
<1>8. f[N] \in SUBSET Tasks /\ Sieve[f[N]] = f[N]
  BY <1>1, <1>3, <1>6, <1>7, ComesToRest
<1> QED BY <1>8 DEF N

(* A task is wanted when it is pinned or a wanted task requires it.        *)
LEMMA WantedFrom ==
  ASSUME Types, CountersInv, LocalCaches, dirty = {}, ~quitting, NEW d \in registered
  PROVE  d \in wanted <=>
           d \notin vetoed /\ (d \in pins \/ \E p \in wanted : <<p, d>> \in edges)
<1>1. d \in wanted <=> d \notin vetoed /\ wantedParents[d] > 0
  BY DEF LocalCaches, Local, ComputeWanted
<1>2. wantedParents[d] = Cardinality(WP(d)) + One(d \in pins)
  BY DEF CountersInv, WantedExact
<1>3. Cardinality(WP(d)) \in Nat /\ (Cardinality(WP(d)) = 0 <=> WP(d) = {})
  BY Counted, FS_EmptySet
<1>4. WP(d) = {} <=> ~\E p \in wanted : <<p, d>> \in edges
  BY DEF WP
<1>5. CASE d \in pins
  BY <1>1, <1>2, <1>3, <1>5 DEF One
<1>6. CASE d \notin pins
  <2>1. wantedParents[d] = Cardinality(WP(d))
    BY <1>2, <1>3, <1>6 DEF One
  <2>2. wantedParents[d] > 0 <=> WP(d) # {}
    BY <1>3, <2>1
  <2> QED BY <1>1, <1>4, <1>6, <2>2
<1> QED BY <1>5, <1>6

LEMMA WantedIsOracle ==
  ASSUME Types, CountersInv, LocalCaches, Acyclic, dirty = {}
  PROVE  wanted = OracleWanted
<1>1. CASE quitting
  <2>1. wanted = {}
    BY <1>1 DEF Types, LocalCaches, Local, ComputeWanted
  <2>2. OracleWanted = {}
    BY <1>1 DEF OracleWanted
  <2> QED BY <2>1, <2>2
<1>2. CASE ~quitting
  <2> DEFINE N == Cardinality(Tasks)
             A == pins \ vetoed
             O == OracleWanted
             Above == {S \in SUBSET Tasks : A \subseteq S}
             Below == SUBSET wanted
  <2>1. /\ N \in Nat /\ A \in SUBSET Tasks /\ Wave \in [SUBSET Tasks -> SUBSET Tasks]
        /\ wanted \subseteq registered /\ registered \subseteq Tasks /\ pins \subseteq registered
    BY FS_CardinalityType, KernelAssumption DEF KernelAssumption, Wave, Types
  <2>2. PICK f : Iterated(f, Tasks, A, Wave, N) /\ O = f[N]
    BY <1>2, WantedIterated
  <2>3. O \in SUBSET Tasks /\ Wave[O] = O
    <3>1. f[N] \in SUBSET Tasks /\ Wave[f[N]] = f[N]
      BY <2>1, <2>2, WaveRests
    <3> QED BY <2>2, <3>1
  <2>4. \A d \in registered : d \in wanted <=>
          d \notin vetoed /\ (d \in pins \/ \E p \in wanted : <<p, d>> \in edges)
    BY <1>2, WantedFrom
  <2>5. Carried(Above, Tasks, A, Wave)
    BY <2>1 DEF Wave, Carried
  <2>6. Carried(Below, Tasks, A, Wave)
    BY <2>1, <2>4 DEF Wave, Carried
  <2> HIDE DEF N, O, A, Above, Below
  <2>7. f[N] \in Above
    BY <2>1, <2>2, <2>5, HoldsOfIterates
  <2>8. f[N] \in Below
    BY <2>1, <2>2, <2>6, HoldsOfIterates
  <2>9. A \subseteq O /\ O \subseteq wanted
    BY <2>2, <2>7, <2>8 DEF Above, Below
  <2>10. wanted \ O = {}
    <3> SUFFICES ASSUME wanted \ O # {} PROVE FALSE
      OBVIOUS
    <3>1. PICK t \in wanted \ O : FirstOf(wanted \ O, t)
      BY <2>1 DEF Acyclic, HasEnds
    <3>2. t \in registered /\ t \notin vetoed /\ t \notin pins
      BY <2>1, <2>4, <2>9, <3>1 DEF A
    <3>3. PICK p \in wanted : <<p, t>> \in edges
      BY <2>4, <3>1, <3>2
    <3>4. p \in O
      BY <3>1, <3>3 DEF FirstOf
    <3>5. t \in Wave[O]
      BY <2>3, <3>2, <3>3, <3>4 DEF Wave
    <3> QED BY <2>3, <3>1, <3>5
  <2> QED BY <2>9, <2>10 DEF O
<1> QED BY <1>1, <1>2

LEMMA SupportedIsOracle ==
  ASSUME Types, LocalCaches, Acyclic, dirty = {}, wanted = OracleWanted
  PROVE  supported = OracleSupported
<1> DEFINE N == Cardinality(Tasks)
           O == OracleSupported
           Between == {S \in SUBSET wanted : supported \subseteq S}
<1>1. /\ N \in Nat /\ wanted \in SUBSET Tasks /\ Sieve \in [SUBSET Tasks -> SUBSET Tasks]
      /\ wanted \subseteq registered /\ registered \subseteq Tasks
      /\ supported \subseteq registered
  BY FS_CardinalityType, KernelAssumption DEF KernelAssumption, Sieve, Types
<1>2. PICK f : Iterated(f, Tasks, wanted, Sieve, N) /\ O = f[N]
  BY <1>1, SupportedIterated
<1>3. O \in SUBSET Tasks /\ Sieve[O] = O
  <2>1. f[N] \in SUBSET Tasks /\ Sieve[f[N]] = f[N]
    BY <1>1, <1>2, SieveRests
  <2> QED BY <1>2, <2>1
<1>4. \A t \in registered : t \in supported <=>
        t \in wanted /\ \A d \in DepsOf(t) : d \in supported /\ Satisfied(d)
  BY DEF LocalCaches, Local, ComputeSupported
<1>5. wanted \in Between
  BY <1>1, <1>4
<1>6. ASSUME NEW S \in SUBSET Tasks, S \in Between PROVE Sieve[S] \in Between
  BY <1>1, <1>4, <1>6 DEF Sieve
<1>10. Carried(Between, Tasks, wanted, Sieve)
  BY <1>5, <1>6 DEF Carried
<1> HIDE DEF N, O, Between
<1>7. f[N] \in Between
  BY <1>1, <1>2, <1>10, HoldsOfIterates
<1>8. supported \subseteq O /\ O \subseteq wanted
  BY <1>2, <1>7 DEF Between
<1>9. O \ supported = {}
  <2> SUFFICES ASSUME O \ supported # {} PROVE FALSE
    OBVIOUS
  <2>1. PICK t \in O \ supported : LastOf(O \ supported, t)
    BY <1>1, <1>8 DEF Acyclic, HasEnds
  <2>2. \A d \in DepsOf(t) : d \in O /\ Satisfied(d)
    BY <1>3, <2>1 DEF Sieve
  <2>3. \A d \in DepsOf(t) : d \in supported
    BY <2>1, <2>2 DEF LastOf, DepsOf
  <2> QED BY <1>1, <1>4, <1>8, <2>1, <2>2, <2>3
<1> QED BY <1>8, <1>9 DEF O

(* Whenever the kernel waits for a message, the decisions it has cached    *)
(* from neighbour to neighbour are those one would compute from the pins   *)
(* over the whole graph, whatever the graph and the order of the updates   *)
(* (recompute_caches against oracle_wanted_set and oracle_supported_set).  *)
THEOREM CachesAreExact == Spec => []CachesExact
<1>1. Shape /\ CountersInv /\ CachesInv /\ Acyclic => CachesExact
  BY WantedIsOracle, SupportedIsOracle DEF Shape, CachesInv, CachesExact
<1> QED BY <1>1, ShapeHolds, CountersHold, CachesHold, NeverCyclic, PTL
=============================================================================
