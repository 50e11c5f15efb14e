---------------------------- MODULE Orchestrator ----------------------------
(***************************************************************************)
(* What the kernel promises about the tasks of a dependency graph, without *)
(* saying how it decides: which moves of a task's state exist, that a task *)
(* is brought up only over dependencies that are satisfied, and that the   *)
(* kernel itself takes a task down only after everything requiring it.     *)
(* Pins, vetoes, caches, counters, queues, epochs and timers are hidden.   *)
(***************************************************************************)
EXTENDS FiniteSets

CONSTANTS
  Tasks,      \* task ids
  Kind        \* Kind[t]: "Service" or "Job"

VARIABLES
  registered, \* the ids that name a live task
  edges,      \* <<a, b>>: task a requires task b
  state,      \* the lifecycle state of each task
  driving,    \* the kernel is acting on its own decisions, not on a command
  quitting

vars == <<registered, edges, state, driving, quitting>>

Up == {"Starting", "Running", "Ready"}
Active == Up \cup {"Stopping"}

(* A service satisfies its dependents while Ready, a job once Done. *)
Satisfied(t) == state[t] = IF Kind[t] = "Service" THEN "Ready" ELSE "Done"

DepsOf(t) == {d \in registered : <<t, d>> \in edges}
DependentsOf(t) == {p \in registered : <<p, t>> \in edges}

Init ==
  /\ registered = {}
  /\ edges = {}
  /\ state = [t \in Tasks |-> "Idle"]
  /\ driving = FALSE
  /\ quitting = FALSE

Move(t, s) ==
  /\ t \in registered
  /\ state' = [state EXCEPT ![t] = s]
  /\ UNCHANGED <<registered, edges, quitting>>

(* The reconciler brings a task up over satisfied dependencies only, and   *)
(* brings nothing up once a quit has begun.                                *)
BringUp(t) ==
  /\ driving /\ ~quitting
  /\ state[t] = "Idle"
  /\ \A d \in DepsOf(t) : Satisfied(d)
  /\ Move(t, "Starting")

(* The reconciler's own stops are ordered: dependents go down first. *)
TakeDown(t) ==
  /\ driving
  /\ state[t] \in Up
  /\ \A p \in DependentsOf(t) : state[p] \notin Active
  /\ Move(t, "Stopping")

CancelRetry(t) ==
  /\ driving
  /\ state[t] = "Backoff"
  /\ Move(t, "Idle")

(* What a task reports of itself. *)
Advance(t) ==
  /\ ~driving
  /\ \/ state[t] = "Starting" /\ Move(t, "Running")
     \/ state[t] \in {"Starting", "Running"} /\ Move(t, "Ready")

Exit(t) ==
  /\ ~driving
  /\ state[t] \in Up
  /\ \/ Kind[t] = "Job" /\ Move(t, "Done")
     \/ Move(t, "Backoff")
     \/ Move(t, "Exited")

(* A stop completes, is given up, or a retry delay ends. *)
Settle(t) ==
  /\ ~driving
  /\ state[t] \in {"Stopping", "Backoff"}
  /\ Move(t, "Idle")

(* A client's command may stop any tasks that are up, whatever requires    *)
(* them, and revive any that are down; it starts none.                     *)
Command ==
  /\ ~driving
  /\ \E stopped \in SUBSET {t \in registered : state[t] \in Up},
        revived \in SUBSET {t \in registered :
                              state[t] \in {"Backoff", "Done", "Exited"}} :
       state' = [t \in Tasks |-> IF t \in stopped THEN "Stopping"
                                 ELSE IF t \in revived THEN "Idle"
                                 ELSE state[t]]
  /\ UNCHANGED <<registered, edges, quitting>>

(* A new task is Idle; it may require only tasks already there. *)
Register(t) ==
  /\ ~driving
  /\ t \notin registered
  /\ registered' = registered \cup {t}
  /\ \E D \in SUBSET registered :
       edges' = edges \cup {<<t, d>> : d \in D}
  /\ UNCHANGED <<state, quitting>>

Remove(I) ==
  /\ ~driving
  /\ registered' = registered \ I
  /\ edges' = {e \in edges : e[1] \notin I /\ e[2] \notin I}
  /\ state' = [t \in Tasks |-> IF t \in I THEN "Idle" ELSE state[t]]
  /\ UNCHANGED quitting

Quit ==
  /\ ~driving
  /\ quitting' = TRUE
  /\ UNCHANGED <<registered, edges, state>>

(* The kernel turns to or from acting on its decisions. *)
Turn == UNCHANGED <<registered, edges, state, quitting>>

Next ==
  \/ \E t \in Tasks :
       \/ BringUp(t) \/ TakeDown(t) \/ CancelRetry(t)
       \/ Advance(t) \/ Exit(t) \/ Settle(t)
       \/ Register(t)
  \/ Command
  \/ \E I \in SUBSET registered : Remove(I)
  \/ Quit
  \/ Turn

Spec == Init /\ [][Next]_vars
=============================================================================
