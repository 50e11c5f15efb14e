------------------------------- MODULE Kernel -------------------------------
(***************************************************************************)
(* The kernel of the runner: one loop that owns the task graph, receives a *)
(* message, applies it, and settles (kernel/kernel.rs).                    *)
(*                                                                         *)
(* A behaviour is cut at the points where the loop's order is not fixed by *)
(* the code: the handling of one message, of one queued effect, of one     *)
(* dirty task and the driving of one task are each an action.  The order   *)
(* in which queued tasks are taken follows hash-map iteration in the code, *)
(* so the queues of task ids are sets here, and effects are queued per     *)
(* task.                                                                   *)
(***************************************************************************)
EXTENDS Integers, Sequences, FiniteSets

CONSTANTS
  Tasks,        \* the ids a task may get, INIT_TASK_ID excluded
  Kind,         \* TaskKind of each task
  ReadyMode,    \* "Immediate" | "Reported"
  Restart,      \* "Never" | "OnFailure" | "Always"
  DepChoices,   \* what a task's selectors may resolve to: a set of task sets
  Selections,   \* the task sets a command's selector may match
  Listeners,    \* who has subscribed to a task's notifications
  Replies,      \* what handle_cmd may report at once, by what it was sent
  SettlePerTask, SettleBase   \* the budget of one settle: tasks * 16 + 64

States == {"Idle", "Starting", "Running", "Ready", "Stopping",
           "Backoff", "Done", "Exited"}
Up == {"Starting", "Running", "Ready"}
Active == Up \cup {"Stopping"}

Effects == {"Started", "Ready", "StoppedOk", "StoppedErr"}
Exits == {"StoppedOk", "StoppedErr"}
Sent == {"Start", "Stop", "Kill", "Msg"}
Purposes == {"stop", "kill", "retry"}

ASSUME KernelAssumption ==
  /\ IsFiniteSet(Tasks)
  /\ Kind \in [Tasks -> {"Service", "Job"}]
  /\ ReadyMode \in [Tasks -> {"Immediate", "Reported"}]
  /\ Restart \in [Tasks -> {"Never", "OnFailure", "Always"}]
  /\ DepChoices \in [Tasks -> SUBSET SUBSET Tasks]
  /\ Selections \subseteq SUBSET Tasks
  /\ Listeners \in [Tasks -> SUBSET Tasks]
  /\ Replies \in [Sent -> SUBSET Seq(Effects)]
  /\ SettlePerTask \in Nat /\ SettleBase \in Nat

VARIABLES
  phase,            \* where the loop is: recv, settle, drain, drive, exited
  steps,            \* rounds and effects done in this settle
  quitting,
  registered,       \* keys of the task map
  issued,           \* ids handed out by next_task_id; never handed out again
  edges,            \* <<a, b>>: a requires b
  pins,             \* tasks with an edge from INIT_TASK_ID
  state, epoch,
  vetoed, killed,   \* sets of tasks
  wanted, supported,                 \* cached decisions: sets of tasks
  wantedParents, activeDependents,   \* cached counters
  dirty,            \* tasks queued for re-evaluation
  toDrive,          \* tasks of this round still to be driven
  effects,          \* effects reported in this step, by task
  timers            \* timers armed and not yet delivered

graph == <<registered, issued, edges>>
task == <<state, epoch, killed>>
intent == <<pins, vetoed, quitting>>
cache == <<wanted, supported>>
counters == <<wantedParents, activeDependents>>
loop == <<phase, steps, toDrive>>
queues == <<dirty, effects, timers>>
vars == <<graph, task, intent, cache, counters, loop, queues>>
-----------------------------------------------------------------------------
(* Reading the graph *)

One(b) == IF b THEN 1 ELSE 0
IsSatisfied(t, s) == s = IF Kind[t] = "Service" THEN "Ready" ELSE "Done"
Satisfied(t) == IsSatisfied(t, state[t])
DepsOf(t) == {d \in registered : <<t, d>> \in edges}
ParentsOf(T) == {p \in registered : \E t \in T : <<p, t>> \in edges}
UpTasks == {t \in registered : state[t] \in Up}
Mutant_AllIdle == \A t \in registered : state[t] = "Idle"
NoActiveTasks == \A t \in registered : state[t] \notin Active

(* The requirement closure of the tasks in I, breadth first. *)
Closure(I) ==
  LET Reach[n \in 0..Cardinality(Tasks)] ==
        IF n = 0 THEN I
        ELSE Reach[n-1] \cup {d \in Tasks : \E t \in Reach[n-1] : <<t, d>> \in edges}
  IN  Reach[Cardinality(Tasks)]

(* Read from a task's neighbours' caches, never from the whole graph. *)
ComputeWanted(t) == ~quitting /\ t \notin vetoed /\ wantedParents[t] > 0
Mutant_AnyDep(t, isWanted) ==
  isWanted /\ (DepsOf(t) = {} \/ \E d \in DepsOf(t) : d \in supported /\ Satisfied(d))
ComputeSupported(t, isWanted) ==
  isWanted /\ \A d \in DepsOf(t) : d \in supported /\ Satisfied(d)
-----------------------------------------------------------------------------
(* Sending to tasks *)

(* What the tasks may report at once when those in `heard` have changed    *)
(* state and each task t of `commanded` was sent the command `cmd`: one    *)
(* answer per task and step.                                               *)
Answers(heard, commanded, cmd) ==
  LET May(x) ==
        {<<>>} \cup (IF x \in registered /\ \E t \in heard : x \in Listeners[t]
                     THEN Replies["Msg"] ELSE {})
               \cup (IF x \in commanded THEN Replies[cmd] ELSE {})
  IN  {fx \in [Tasks -> UNION {May(x) : x \in Tasks}] : \A x \in Tasks : fx[x] \in May(x)}

Queue(reported, heard, commanded, cmd) ==
  \E fx \in Answers(heard, commanded, cmd) :
    effects' = [x \in Tasks |-> reported[x] \o fx[x]]

(* A timer armed for a task in epoch e.  The purpose is the delay's name:  *)
(* the code's request holds only the delay, and nothing reads the purpose. *)
Timer(t, e, purpose) == [task |-> t, epoch |-> e, purpose |-> purpose]

(* The grace periods of tasks told to stop, and of tasks killed. *)
Mutant_KillHasNoGrace(stopped, hardKilled, epochs) ==
  {Timer(t, epochs[t], "stop") : t \in stopped}
Graces(stopped, hardKilled, epochs) ==
  {Timer(t, epochs[t], "stop") : t \in stopped} \cup
  {Timer(t, epochs[t], "kill") : t \in hardKilled}

(* A new state is a new epoch, and so is a hard kill: whatever timer was   *)
(* armed before is out of date.                                            *)
Mutant_KillKeepsEpoch(changed, hardKilled) ==
  [t \in Tasks |-> epoch[t] + One(t \in changed)]
Bumped(changed, hardKilled) ==
  [t \in Tasks |-> epoch[t] + One(t \in changed) + One(t \in hardKilled)]
-----------------------------------------------------------------------------
(* State changes *)

(* Each dependency of t counts t among its active dependents. *)
Mutant_StoppingNotCounted(t, s) ==
  LET was == state[t] \in Active
      now == s \in Up
  IN  [d \in Tasks |-> IF d \in DepsOf(t)
                       THEN activeDependents[d] + One(now /\ ~was) - One(was /\ ~now)
                       ELSE activeDependents[d]]
ActiveAfter(t, s) ==
  LET was == state[t] \in Active
      now == s \in Active
  IN  [d \in Tasks |-> IF d \in DepsOf(t)
                       THEN activeDependents[d] + One(now /\ ~was) - One(was /\ ~now)
                       ELSE activeDependents[d]]

(* Whom a move of t to s concerns: itself, those it supports or no longer  *)
(* does, and those it holds up or no longer does.                          *)
Mutant_NotItself(t, s) ==
  (IF Satisfied(t) # IsSatisfied(t, s) THEN ParentsOf({t}) ELSE {}) \cup
  (IF (state[t] \in Active) # (s \in Active) THEN DepsOf(t) ELSE {})
Mutant_NotParents(t, s) ==
  {t} \cup (IF (state[t] \in Active) # (s \in Active) THEN DepsOf(t) ELSE {})
Concerns(t, s) ==
  {t} \cup (IF Satisfied(t) # IsSatisfied(t, s) THEN ParentsOf({t}) ELSE {})
      \cup (IF (state[t] \in Active) # (s \in Active) THEN DepsOf(t) ELSE {})

(* Moving one task to state s; nothing when it is in s already. *)
SetState(t, s) ==
  IF state[t] = s THEN UNCHANGED <<task, activeDependents, dirty>>
  ELSE /\ state' = [state EXCEPT ![t] = s]
       /\ epoch' = Bumped({t}, {})
       /\ killed' = killed \ {t}
       /\ activeDependents' = ActiveAfter(t, s)
       /\ dirty' = dirty \cup Concerns(t, s)

(* Where a report leaves a task that is in state[t]: most reports are      *)
(* ignored in most states.  A stop that was asked for lands in Idle; an    *)
(* exit of its own lands in Done, Backoff or Exited.                       *)
Restarts(t, r) == Restart[t] = "Always" \/ (Restart[t] = "OnFailure" /\ r # "StoppedOk")

AfterReport(t, r) ==
  CASE r = "Started" /\ state[t] = "Starting" ->
         IF ReadyMode[t] = "Immediate" THEN "Ready" ELSE "Running"
    [] r = "Ready" /\ state[t] = "Running" -> "Ready"
    [] r \in Exits /\ state[t] = "Stopping" -> "Idle"
    [] r \in Exits /\ state[t] \in Up ->
         IF Kind[t] = "Job" /\ r = "StoppedOk" THEN "Done"
         ELSE IF Restarts(t, r) THEN "Backoff" ELSE "Exited"
    [] OTHER -> state[t]

OnReport(t, r, reported) ==
  LET s == AfterReport(t, r)
      moved == {x \in {t} : state[x] # s}
  IN  /\ SetState(t, s)
      /\ timers' = timers \cup {Timer(x, epoch'[x], "retry") :
                                  x \in {y \in moved : s = "Backoff"}}
      /\ Queue(reported, moved, {}, "none")
-----------------------------------------------------------------------------
(* Messages: each takes the loop from recv into settle.                    *)

Receive ==
  /\ phase = "recv"
  /\ phase' = "settle"
  /\ UNCHANGED <<steps, toDrive>>

TaskReport(t, r) ==
  /\ Receive
  /\ t \in registered
  /\ OnReport(t, r, effects)
  /\ UNCHANGED <<graph, intent, cache, wantedParents>>

(* A message for a task, a Duplicate, or the Added notifications a new     *)
(* subscriber is sent: the task may answer at once.                        *)
TaskMsg(t) ==
  /\ Receive
  /\ t \in registered
  /\ Queue(effects, {}, {t}, "Msg")
  /\ UNCHANGED <<graph, task, intent, cache, counters, dirty, timers>>

(* New labels: the tasks' subscribers hear of them. *)
SetLabel(I) ==
  /\ Receive
  /\ I \subseteq registered
  /\ Queue(effects, I, {}, "none")
  /\ UNCHANGED <<graph, task, intent, cache, counters, dirty, timers>>

(* A pin counts as a wanted parent, once. *)
PinCounts(newPins) ==
  [t \in Tasks |-> wantedParents[t] + One(t \in newPins \ pins) - One(t \in pins \ newPins)]

(* What the commands on the tasks I have in common.  `revived` go back to  *)
(* Idle; `stopped` are told to stop; `hardKilled` are killed, out of       *)
(* whatever state they are up in.                                          *)
Command(I, newPins, newVetoed, revived, stopped, hardKilled) ==
  LET ended == stopped \cup (hardKilled \cap UpTasks)
      changed == revived \cup ended
  IN
  /\ Receive
  /\ pins' = newPins
  /\ wantedParents' = PinCounts(newPins)
  /\ vetoed' = newVetoed
  /\ state' = [t \in Tasks |-> IF t \in revived THEN "Idle"
                               ELSE IF t \in ended THEN "Stopping" ELSE state[t]]
  /\ epoch' = Bumped(changed, hardKilled)
  /\ killed' = (killed \ changed) \cup hardKilled
  /\ timers' = timers \cup Graces(stopped, hardKilled, epoch')
  /\ dirty' = dirty \cup I \cup changed
       \cup {t \in registered : (t \in vetoed) # (t \in newVetoed)}
       \cup ParentsOf({t \in changed : Satisfied(t)})
  /\ IF hardKilled = {} THEN Queue(effects, changed, stopped, "Stop")
                        ELSE Queue(effects, changed, hardKilled, "Kill")
  /\ UNCHANGED <<graph, quitting, cache, activeDependents>>

(* A start demands the whole requirement closure: it lifts vetoes there    *)
(* and revives what has crashed or exited, but a finished job only when it *)
(* is itself started.                                                      *)
Demanded(I) == Closure(I) \cap registered
Revived(I) == {t \in Demanded(I) : \/ state[t] \in {"Backoff", "Exited"}
                                   \/ state[t] = "Done" /\ t \in I}
Killable == {t \in registered : state[t] \in Active}

Start(I) == Command(I, pins \cup I, vetoed \ Demanded(I), Revived(I), {}, {})
Stop(I) == Command(I, pins \ I, vetoed, {}, I \cap UpTasks, {})
Kill(I) == Command(I, pins \ I, vetoed, {}, {}, I \cap Killable)
Down(I) == Command(I, pins \ I, vetoed, {}, {}, {})
Veto(I) == Command(I, pins \ I, vetoed \cup I, {}, {}, {})
RestartTasks(I) ==
  Command(I, pins \cup I, vetoed \ Demanded(I), Revived(I), I \cap UpTasks, {})
ForceRestart(I) ==
  Command(I, pins \cup I, vetoed \ Demanded(I), Revived(I), {}, I \cap Killable)

ClientCommand(I) ==
  /\ I \subseteq registered
  /\ \/ Start(I) \/ Stop(I) \/ Kill(I) \/ Down(I) \/ Veto(I)
     \/ RestartTasks(I) \/ ForceRestart(I)

(* An id is used up whether or not its registration succeeds: a dependency *)
(* that is not registered refuses it.                                      *)
Register(t, D, pinned) ==
  /\ Receive
  /\ t \notin issued
  /\ issued' = issued \cup {t}
  /\ IF D \subseteq registered
     THEN /\ registered' = registered \cup {t}
          /\ edges' = edges \cup {<<t, d>> : d \in D}
          /\ pins' = IF pinned THEN pins \cup {t} ELSE pins
          /\ wantedParents' = [wantedParents EXCEPT ![t] = One(pinned)]
          /\ dirty' = dirty \cup {t} \cup D
          /\ Queue(effects, {t}, {}, "none")
     ELSE UNCHANGED <<registered, edges, pins, wantedParents, dirty, effects>>
  /\ UNCHANGED <<task, vetoed, quitting, cache, activeDependents, timers>>

(* The queue once the tasks I are gone: their neighbours are queued, and   *)
(* they are not, even those a removal before their own had queued.         *)
Mutant_NoNeighbours(I) == dirty \ I
Mutant_StaysQueued(I) ==
  dirty \cup {d \in registered \ I : \E t \in I : <<t, d>> \in edges}
        \cup (ParentsOf(I) \ I)
QueueWithout(I) ==
  (dirty \ I) \cup {d \in registered \ I : \E t \in I : <<t, d>> \in edges}
             \cup (ParentsOf(I) \ I)

(* Removing tasks cuts their edges, takes them out of their neighbours'    *)
(* counters and queues the neighbours.  Active ones are sent a last Kill,  *)
(* whose answer is dropped with whatever else they had reported.           *)
Remove(I) ==
  LET Lost(P, d) == Cardinality({p \in P : <<p, d>> \in edges})
      Without(f, x) == [t \in Tasks |-> IF t \in I THEN x ELSE f[t]]
  IN
  /\ Receive
  /\ I \subseteq registered
  /\ registered' = registered \ I
  /\ edges' = {e \in edges : e[1] \notin I /\ e[2] \notin I}
  /\ pins' = pins \ I
  /\ vetoed' = vetoed \ I /\ killed' = killed \ I
  /\ wanted' = wanted \ I /\ supported' = supported \ I
  /\ wantedParents' = [d \in Tasks |->
       IF d \in I THEN 0 ELSE wantedParents[d] - Lost(I \cap wanted, d)]
  /\ activeDependents' = [d \in Tasks |->
       IF d \in I THEN 0 ELSE activeDependents[d] - Lost({t \in I : state[t] \in Active}, d)]
  /\ state' = Without(state, "Idle")
  /\ epoch' = Without(epoch, 0)
  /\ dirty' = QueueWithout(I)
  /\ \E fx \in Answers(I, {}, "none") :
       effects' = [x \in Tasks |-> IF x \in I THEN <<>> ELSE effects[x] \o fx[x]]
  /\ UNCHANGED <<issued, quitting, timers>>

(* A second quit leaves the loop at once. *)
Quit ==
  /\ phase = "recv"
  /\ phase' = IF quitting THEN "exited" ELSE "settle"
  /\ quitting' = TRUE
  /\ dirty' = IF quitting THEN dirty ELSE dirty \cup registered
  /\ UNCHANGED <<graph, task, pins, vetoed, cache, counters, steps, toDrive, effects, timers>>

(* A timer has run out.  It counts only in the epoch it was armed in: then *)
(* a retry is due, a stop has been ignored and the task is killed (in a    *)
(* new epoch, which outdates the timer of the stop), or a kill has been    *)
(* ignored and the kernel gives the task up.                               *)
StateTimeout(tm) ==
  LET t == tm.task
      left == timers \ {tm}
      current == t \in registered /\ epoch[t] = tm.epoch
  IN
  /\ Receive
  /\ IF ~current \/ state[t] \notin {"Stopping", "Backoff"}
     THEN /\ timers' = left
          /\ UNCHANGED <<task, activeDependents, dirty, effects>>
     ELSE IF state[t] = "Stopping" /\ t \notin killed
     THEN /\ killed' = killed \cup {t}
          /\ epoch' = Bumped({}, {t})
          /\ timers' = left \cup Graces({}, {t}, epoch')
          /\ Queue(effects, {}, {t}, "Kill")
          /\ UNCHANGED <<state, activeDependents, dirty>>
     ELSE /\ SetState(t, "Idle")
          /\ timers' = left
          /\ Queue(effects, {t}, {}, "none")
  /\ UNCHANGED <<graph, intent, cache, wantedParents>>
-----------------------------------------------------------------------------
(* Settling *)

(* After settling the loop waits for the next message, or ends once a quit *)
(* has brought every task down.                                            *)
Leave ==
  /\ phase' = IF quitting /\ NoActiveTasks' THEN "exited" ELSE "recv"
  /\ steps' = 0

(* One turn of settle's loop is over.  Past the budget, settling stops     *)
(* with the queues as they are: the next message resumes it.               *)
Mutant_OneTurnEach == Cardinality(registered) + 1
Budget == Cardinality(registered) * SettlePerTask + SettleBase
EndTurn ==
  IF steps + 1 > Budget THEN Leave
                        ELSE phase' = "settle" /\ steps' = steps + 1

(* Reported effects come first, each applied to the state the last left. *)
ApplyEffect(t) ==
  /\ phase = "settle"
  /\ effects[t] # <<>>
  /\ UNCHANGED <<graph, intent, cache, wantedParents, toDrive>>
  /\ OnReport(t, Head(effects[t]), [effects EXCEPT ![t] = Tail(@)])
  /\ EndTurn

NoEffects == \A t \in Tasks : effects[t] = <<>>

(* The tasks that count t among their wanted parents, when it has changed. *)
Told(t, isWanted) == IF isWanted # (t \in wanted) THEN DepsOf(t) ELSE {}

(* A round: every queued task recomputes its caches from its neighbours'   *)
(* and queues whom that may concern, until none is queued...               *)
Recompute(t) ==
  LET isWanted == ComputeWanted(t)
      isSupported == ComputeSupported(t, isWanted)
      children == Told(t, isWanted)
      parents == IF isSupported # (t \in supported) THEN ParentsOf({t}) ELSE {}
  IN
  /\ \/ phase = "settle" /\ NoEffects
     \/ phase = "drain"
  /\ t \in dirty
  /\ wanted' = IF isWanted THEN wanted \cup {t} ELSE wanted \ {t}
  /\ supported' = IF isSupported THEN supported \cup {t} ELSE supported \ {t}
  /\ wantedParents' = [d \in Tasks |->
       IF d \in children THEN wantedParents[d] + One(isWanted) - One(~isWanted)
                         ELSE wantedParents[d]]
  /\ dirty' = (dirty \ {t}) \cup children \cup parents
  /\ toDrive' = toDrive \cup {t}
  /\ phase' = IF dirty' = {} THEN "drive" ELSE "drain"
  /\ UNCHANGED <<graph, task, intent, activeDependents, steps, effects, timers>>

(* ...then each task seen is driven towards its cached decision.  The      *)
(* caches stay as they are for the whole round, whatever the driving does. *)
MustStart(t) == t \in supported /\ state[t] = "Idle"
MustStop(t) == t \notin supported /\ state[t] \in Up /\ activeDependents[t] = 0
MustCancel(t) == t \notin supported /\ state[t] = "Backoff"

Drive(t) ==
  /\ phase = "drive"
  /\ t \in toDrive
  /\ toDrive' = toDrive \ {t}
  /\ UNCHANGED <<graph, intent, cache, wantedParents>>
  /\ CASE MustStart(t) ->
            /\ SetState(t, "Starting")
            /\ UNCHANGED timers
            /\ Queue(effects, {t}, {t}, "Start")
       [] MustStop(t) ->
            /\ SetState(t, "Stopping")
            /\ timers' = timers \cup Graces({t}, {}, epoch')
            /\ Queue(effects, {t}, {t}, "Stop")
       [] MustCancel(t) ->
            /\ SetState(t, "Idle")
            /\ UNCHANGED timers
            /\ Queue(effects, {t}, {}, "none")
       [] OTHER -> UNCHANGED <<task, activeDependents, queues>>
  /\ IF toDrive' = {} THEN EndTurn ELSE UNCHANGED <<phase, steps>>

Settled ==
  /\ phase = "settle"
  /\ NoEffects /\ dirty = {}
  /\ UNCHANGED <<graph, task, intent, cache, counters, toDrive, queues>>
  /\ Leave
-----------------------------------------------------------------------------
Init ==
  /\ phase = "recv" /\ steps = 0 /\ toDrive = {}
  /\ quitting = FALSE /\ pins = {} /\ vetoed = {}
  /\ registered = {} /\ issued = {} /\ edges = {}
  /\ state = [t \in Tasks |-> "Idle"]
  /\ epoch = [t \in Tasks |-> 0]
  /\ killed = {}
  /\ wanted = {} /\ supported = {}
  /\ wantedParents = [t \in Tasks |-> 0]
  /\ activeDependents = [t \in Tasks |-> 0]
  /\ dirty = {}
  /\ effects = [t \in Tasks |-> <<>>]
  /\ timers = {}

Work ==
  \/ \E t \in Tasks : ApplyEffect(t) \/ Recompute(t) \/ Drive(t)
  \/ Settled

(* After the loop has ended nothing happens any more. *)
Exited == phase = "exited" /\ UNCHANGED vars

(* What others send: clients, and the tasks themselves. *)
Input ==
  \/ \E t \in Tasks : \E D \in DepChoices[t], pinned \in BOOLEAN :
       Register(t, D, pinned)
  \/ \E I \in Selections : ClientCommand(I) \/ Remove(I) \/ SetLabel(I)
  \/ \E t \in Tasks : TaskMsg(t) \/ \E r \in Effects : TaskReport(t, r)
  \/ Quit

Timeout == \E tm \in timers : StateTimeout(tm)

Next == Input \/ Timeout \/ Work \/ Exited

Spec == Init /\ [][Next]_vars
-----------------------------------------------------------------------------
(* Properties *)

TypeOK ==
  /\ phase \in {"recv", "settle", "drain", "drive", "exited"}
  /\ steps \in Nat /\ quitting \in BOOLEAN
  /\ registered \subseteq issued /\ issued \subseteq Tasks
  /\ edges \subseteq registered \X registered
  /\ pins \subseteq registered /\ vetoed \subseteq registered /\ killed \subseteq registered
  /\ wanted \subseteq registered /\ supported \subseteq registered
  /\ state \in [Tasks -> States]
  /\ epoch \in [Tasks -> Nat]
  /\ wantedParents \in [Tasks -> Nat] /\ activeDependents \in [Tasks -> Nat]
  /\ dirty \subseteq Tasks /\ toDrive \subseteq Tasks
  /\ effects \in [Tasks -> Seq(Effects)]
  /\ timers \subseteq [task: Tasks, epoch: Nat, purpose: Purposes]

(* What the debug build recomputes from scratch after each settle: a task  *)
(* is wanted when a pin reaches it through tasks that are not vetoed, and  *)
(* supported when all it requires, directly or not, is wanted and          *)
(* satisfied.                                                              *)
OracleWanted ==
  LET From[n \in 0..Cardinality(Tasks)] ==
        IF n = 0 THEN pins \ vetoed
        ELSE From[n-1] \cup
             {d \in registered \ vetoed : \E t \in From[n-1] : <<t, d>> \in edges}
  IN  IF quitting THEN {} ELSE From[Cardinality(Tasks)]

OracleSupported ==
  LET Kept[n \in 0..Cardinality(Tasks)] ==
        IF n = 0 THEN OracleWanted
        ELSE {t \in Kept[n-1] : \A d \in DepsOf(t) : d \in Kept[n-1] /\ Satisfied(d)}
  IN  Kept[Cardinality(Tasks)]

(* The counters are exact in every state, in the middle of a round too     *)
(* (kernel.rs keeps them by increments and decrements only).               *)
WantedParentsOf(d) == Cardinality({p \in wanted : <<p, d>> \in edges}) + One(d \in pins)
ActiveDependentsOf(d) ==
  Cardinality({p \in registered : state[p] \in Active /\ <<p, d>> \in edges})
CountersExact ==
  \A d \in registered : /\ wantedParents[d] = WantedParentsOf(d)
                        /\ activeDependents[d] = ActiveDependentsOf(d)

(* Whenever the kernel waits for a message, the decisions it has cached    *)
(* are those of the oracle.                                                *)
CachesExact ==
  phase \in {"recv", "exited"} /\ dirty = {} =>
    wanted = OracleWanted /\ supported = OracleSupported

(* Every queued id names a live task: driving one that has been removed    *)
(* would panic (the expect("queued id live") of drive_task).               *)
QueuedAreLive == dirty \cup toDrive \subseteq registered

(* A task that waits for a timer has exactly the timer it waits for, and   *)
(* no timer of an earlier state change can be taken for it: the timer of a *)
(* stop never gives a later kill up, a retry's never ends a later stop.    *)
CurrentTimers(t) == {tm \in timers : tm.task = t /\ tm.epoch = epoch[t]}
Awaited(s, isKilled) ==
  CASE s = "Backoff" -> {"retry"}
    [] s = "Stopping" -> IF isKilled THEN {"kill"} ELSE {"stop"}
    [] OTHER -> {}
TimerMatchesState ==
  \A t \in registered :
    /\ t \in killed => state[t] = "Stopping"
    /\ {tm.purpose : tm \in CurrentTimers(t)} = Awaited(state[t], t \in killed)

(* A settle never runs out of its budget: when the kernel waits, nothing   *)
(* is queued.                                                              *)
SettleCompletes == phase = "recv" => dirty = {} /\ NoEffects

(* When the kernel waits, no decision has been forgotten: what should run  *)
(* is not idle, and what should not run is down, on its way down, or held  *)
(* up by an active dependent.                                              *)
NothingLeftToDrive ==
  \A t \in registered \ (dirty \cup toDrive) :
    ~MustStart(t) /\ ~MustStop(t) /\ ~MustCancel(t)

(* The queue of the reconciler: whatever is removed, and however short a    *)
(* settle is cut, it names only live tasks, and every task with work to do. *)
QueueRight == QueuedAreLive /\ NothingLeftToDrive

(* The kernel is an orchestrator: it starts tasks only over satisfied      *)
(* dependencies, stops them itself only after their dependents, and no     *)
(* task changes state otherwise than its lifecycle allows.                 *)
Promise == INSTANCE Orchestrator WITH driving <- phase = "drive"
Orchestrates == Promise!Spec

(* "a stop decided by the reconciler can never overtake an exit the task   *)
(* already reported" (kernel.rs, on settle).                               *)
Reported(t) == \E i \in DOMAIN effects[t] : effects[t][i] \in Exits
ExitNotOvertaken ==
  [][\A t \in Tasks : phase = "drive" /\ state[t] \in Up /\ Reported(t)
                        => state'[t] # "Stopping"]_vars
-----------------------------------------------------------------------------
(* Fairness: the loop keeps running, and a timer that was armed fires and  *)
(* is received (the channel is a queue, tokio's sleep ends).  Nothing is   *)
(* assumed of the tasks or the clients.                                    *)
TimeoutOf(t) == \E tm \in CurrentTimers(t) : StateTimeout(tm)
Fairness == WF_vars(Work) /\ \A t \in Tasks : WF_vars(TimeoutOf(t))

(* A quit ends the loop, however the tasks behave. *)
QuitEnds == quitting ~> phase = "exited"

(* No stop is waited for forever, and only a second quit cuts one short.   *)
StopEnds ==
  \A t \in Tasks : state[t] = "Stopping" ~>
    state[t] # "Stopping" \/ (quitting /\ phase = "exited")

(* A task that should run comes up, or says why not: in particular a start *)
(* that arrives during a stop or a retry delay is not lost.                *)
SupportedComesUp ==
  \A t \in Tasks : t \in supported ~>
    t \notin supported \/ state[t] \in Up \cup {"Done", "Exited"}
=============================================================================
