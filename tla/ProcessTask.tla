---------------------------- MODULE ProcessTask -----------------------------
(***************************************************************************)
(* The tasks that run a program (task/process_task.rs), each a loop around *)
(* at most one child process, with the operating system's side of the      *)
(* child (process/unix_process.rs) and the one reaper of all children      *)
(* (process/unix_processes_waiter.rs).                                     *)
(*                                                                         *)
(* An instance is one child.  Its exit travels from the zombie through the *)
(* reaper, the kernel's channel and the task's mailbox into exit_info; the *)
(* end of its output is read from its terminal.  The task reports a stop   *)
(* once it has both.  Clients and the kernel may send any command.         *)
(***************************************************************************)
EXTENDS Integers, Sequences, FiniteSets

CONSTANTS
  Tasks,        \* process tasks
  Instances,    \* children there may be, numbered: the runner spawns no more
  Owner,        \* the task an instance belongs to; None: another child of the runner
  Pids,
  Reuse,        \* a pid may be given again once no process and no group has it
  LateFailure,  \* a spawn may fail after the child exists and is waited for
  ReadyLog,     \* tasks with a readiness pattern
  StopKeys,     \* tasks stopped by keys rather than by a signal or a command
  KillGroup,    \* tasks whose kill goes to the process group
  QueueMax,     \* bound: commands wait until queues are shorter
  None

ASSUME ProcessTaskAssumption ==
  /\ Instances \subseteq Nat
  /\ Owner \in [Instances -> Tasks \cup {None}]
  /\ None \notin Tasks \cup Instances \cup Pids
  /\ Reuse \in BOOLEAN /\ LateFailure \in BOOLEAN
  /\ ReadyLog \subseteq Tasks /\ StopKeys \subseteq Tasks /\ KillGroup \subseteq Tasks
  /\ QueueMax \in Nat

VARIABLES
  pc,         \* where each task's loop is: select, forked, listening, write, ended
  fresh,      \* the child being spawned
  process, exitInfo, eof, readySent,
  mailbox,    \* the task's receiver
  open,       \* tasks the kernel still has
  inbox,      \* what each task has in the kernel's channel
  leader,     \* each child: unborn, alive, zombie, gone
  kin,        \* descendants that hold its terminal: none, in its group, strays
  pid,
  sigchld,    \* a SIGCHLD is pending
  waiter,     \* the reaper: idle, reaping, holding (an exit it has collected)
  hand,       \* that exit
  listeners,  \* by pid: the instance whose spawn registered it
  unclaimed,  \* by pid: the instance that exited
  mishap      \* (history) a pid was given again, or a spawn failed after its child existed

state == <<process, exitInfo, eof>>
child == <<leader, kin, pid>>
reaper == <<waiter, hand, listeners, unclaimed>>
vars == <<pc, fresh, state, readySent, mailbox, open, inbox, child, sigchld, reaper, mishap>>

Commands == {"Start", "Stop", "Kill", "Input"}
Cmd(c) == [cmd |-> c, inst |-> None]
ExitMsg(i) == [cmd |-> "Exited", inst |-> i]
Report(what, i, x) == [cmd |-> what, inst |-> i, exit |-> x]
Exited(i) == Report("Exited", i, i)
-----------------------------------------------------------------------------
(* The operating system *)

TtyOpen(i) == leader[i] = "alive" \/ kin[i] # "none"
InUse(p) ==
  \E i \in Instances : pid[i] = p /\ (leader[i] \in {"alive", "zombie"} \/ kin[i] = "group")
FreePids == {p \in Pids : IF Reuse THEN ~InUse(p) ELSE \A i \in Instances : pid[i] # p}

Born(i, p) ==
  /\ leader[i] = "unborn"
  /\ \A j \in Instances : j < i /\ Owner[j] = Owner[i] => leader[j] # "unborn"
  /\ p \in FreePids
  /\ leader' = [leader EXCEPT ![i] = "alive"]
  /\ pid' = [pid EXCEPT ![i] = p]
  /\ mishap' = (mishap \/ \E j \in Instances : pid[j] = p)
  /\ UNCHANGED kin

(* A child may exit, and its descendants come and go, at any time: by      *)
(* themselves, or by whatever signal or command was meant to stop them.    *)
Exit(i) ==
  /\ leader[i] = "alive"
  /\ leader' = [leader EXCEPT ![i] = "zombie"]
  /\ sigchld' = TRUE
  /\ UNCHANGED <<pc, fresh, state, readySent, mailbox, open, inbox, kin, pid, reaper, mishap>>

Bear(i, k) ==
  /\ leader[i] = "alive" /\ kin[i] = "none"
  /\ kin' = [kin EXCEPT ![i] = k]
  /\ UNCHANGED <<pc, fresh, state, readySent, mailbox, open, inbox, leader, pid, sigchld, reaper, mishap>>
KinExit(i) ==
  /\ kin[i] # "none"
  /\ kin' = [kin EXCEPT ![i] = "none"]
  /\ UNCHANGED <<pc, fresh, state, readySent, mailbox, open, inbox, leader, pid, sigchld, reaper, mishap>>

Mutant_Polite(i, group) == UNCHANGED <<leader, kin, pid, sigchld>>
(* SIGKILL to the pid of i, or to the group of that number. *)
Killed(i, group) ==
  LET hit == {j \in Instances : pid[j] = pid[i] /\ leader[j] = "alive"}
  IN  /\ leader' = [j \in Instances |-> IF j \in hit THEN "zombie" ELSE leader[j]]
      /\ kin' = [j \in Instances |->
                   IF group /\ pid[j] = pid[i] /\ kin[j] = "group" THEN "none" ELSE kin[j]]
      /\ sigchld' = (sigchld \/ hit # {})
      /\ UNCHANGED pid

(* Other children of the runner (hooks, stop commands).  Their own waiter  *)
(* asks for them by pid; the reaper asks for any child.                    *)
Foreign(i) == \E p \in Pids :
  /\ Owner[i] = None
  /\ Born(i, p)
  /\ UNCHANGED <<pc, fresh, state, readySent, mailbox, open, inbox, sigchld, reaper>>
ForeignReaped(i) ==
  /\ Owner[i] = None /\ leader[i] = "zombie"
  /\ leader' = [leader EXCEPT ![i] = "gone"]
  /\ UNCHANGED <<pc, fresh, state, readySent, mailbox, open, inbox, kin, pid, sigchld, reaper, mishap>>
-----------------------------------------------------------------------------
(* The reaper *)

Wake ==
  /\ waiter = "idle" /\ sigchld
  /\ waiter' = "reaping" /\ sigchld' = FALSE
  /\ UNCHANGED <<pc, fresh, state, readySent, mailbox, open, inbox, child, hand, listeners, unclaimed, mishap>>

Collect(i) ==
  /\ waiter = "reaping" /\ leader[i] = "zombie"
  /\ leader' = [leader EXCEPT ![i] = "gone"]
  /\ waiter' = "holding" /\ hand' = i
  /\ UNCHANGED <<pc, fresh, state, readySent, mailbox, open, inbox, kin, pid, sigchld, listeners, unclaimed, mishap>>

(* One signal may stand for many exits: reap until there are none. *)
Mutant_OnePerSignal == "idle"
AfterOne == "reaping"
Dispatch ==
  /\ waiter = "holding"
  /\ waiter' = AfterOne /\ hand' = None
  /\ LET p == pid[hand]
         i == listeners[p]
     IN  IF i # None
         THEN /\ inbox' = [inbox EXCEPT ![Owner[i]] = Append(@, Exited(hand))]
              /\ listeners' = [listeners EXCEPT ![p] = None]
              /\ UNCHANGED unclaimed
         ELSE /\ unclaimed' = [unclaimed EXCEPT ![p] = hand]
              /\ UNCHANGED <<inbox, listeners>>
  /\ UNCHANGED <<pc, fresh, state, readySent, mailbox, open, child, sigchld, mishap>>

Rest ==
  /\ waiter = "reaping" /\ \A i \in Instances : leader[i] # "zombie"
  /\ waiter' = "idle"
  /\ UNCHANGED <<pc, fresh, state, readySent, mailbox, open, inbox, child, sigchld, hand, listeners, unclaimed, mishap>>
-----------------------------------------------------------------------------
(* The task's loop *)

(* The head of the loop, after every handler: the stop is reported once    *)
(* both the exit is known and the output has ended.                        *)
Mutant_OnExit(held, info, ended) == info # None /\ held # None
Mutant_NotTaken(held, info, ended) == ended /\ info # None
Over(held, info, ended) == ended /\ info # None /\ held # None
Loop(t, held, info, ended, said) ==
  LET over == Over(held, info, ended)
  IN  /\ process' = [process EXCEPT ![t] = IF over THEN None ELSE held]
      /\ exitInfo' = [exitInfo EXCEPT ![t] = info]
      /\ eof' = [eof EXCEPT ![t] = ended]
      /\ inbox' = [inbox EXCEPT ![t] = @ \o said \o
                     IF over THEN <<Report("Stopped", held, info)>> ELSE <<>>]

Take(t, c) ==
  /\ pc[t] = "select"
  /\ mailbox[t] # <<>> /\ Head(mailbox[t]).cmd = c
  /\ mailbox' = [mailbox EXCEPT ![t] = Tail(@)]
Goto(t, where) == pc' = [pc EXCEPT ![t] = where]

(* A command for a process that is not there, or a start for one that is.  *)
Ignore(t, c) ==
  /\ Take(t, c)
  /\ (process[t] = None) # (c = "Start")
  /\ UNCHANGED <<pc, fresh, state, readySent, open, inbox, child, sigchld, reaper, mishap>>

Fork(t) ==
  /\ Take(t, "Start")
  /\ process[t] = None
  /\ \E i \in Instances, p \in Pids :
       /\ Owner[i] = t
       /\ Born(i, p)
       /\ fresh' = [fresh EXCEPT ![t] = i]
  /\ Goto(t, "forked")
  /\ UNCHANGED <<state, readySent, open, inbox, sigchld, reaper>>
Mutant_FailsSilently(t) ==
  /\ Take(t, "Start")
  /\ process[t] = None
  /\ UNCHANGED <<pc, fresh, state, readySent, open, inbox, child, sigchld, reaper, mishap>>
ForkFails(t) ==
  /\ Take(t, "Start")
  /\ process[t] = None
  /\ inbox' = [inbox EXCEPT ![t] = Append(@, Report("Stopped", None, None))]
  /\ UNCHANGED <<pc, fresh, state, readySent, open, child, sigchld, reaper, mishap>>

(* The child may have exited, and been reaped, before it is waited for. *)
Mutant_NotUnclaimed(t) ==
  /\ pc[t] = "forked"
  /\ Goto(t, "listening")
  /\ listeners' = [listeners EXCEPT ![pid[fresh[t]]] = fresh[t]]
  /\ UNCHANGED <<fresh, state, readySent, mailbox, open, inbox, child, sigchld, waiter, hand, unclaimed, mishap>>
Mutant_StaysUnclaimed(t) ==
  /\ pc[t] = "forked"
  /\ Goto(t, "listening")
  /\ LET p == pid[fresh[t]]
     IN  IF unclaimed[p] # None
         THEN /\ inbox' = [inbox EXCEPT ![t] = Append(@, Exited(unclaimed[p]))]
              /\ UNCHANGED listeners
         ELSE /\ listeners' = [listeners EXCEPT ![p] = fresh[t]]
              /\ UNCHANGED inbox
  /\ UNCHANGED <<fresh, state, readySent, mailbox, open, child, sigchld, waiter, hand, unclaimed, mishap>>
Listen(t) ==
  /\ pc[t] = "forked"
  /\ Goto(t, "listening")
  /\ LET p == pid[fresh[t]]
     IN  IF unclaimed[p] # None
         THEN /\ inbox' = [inbox EXCEPT ![t] = Append(@, Exited(unclaimed[p]))]
              /\ unclaimed' = [unclaimed EXCEPT ![p] = None]
              /\ UNCHANGED listeners
         ELSE /\ listeners' = [listeners EXCEPT ![p] = fresh[t]]
              /\ UNCHANGED <<inbox, unclaimed>>
  /\ UNCHANGED <<fresh, state, readySent, mailbox, open, child, sigchld, waiter, hand, mishap>>

(* A spawn that fails before that leaves a child nobody waits for. *)
Abandons(t) ==
  /\ LateFailure
  /\ pc[t] = "forked"
  /\ Goto(t, "select")
  /\ fresh' = [fresh EXCEPT ![t] = None]
  /\ Loop(t, None, exitInfo[t], eof[t], <<Report("Stopped", None, None)>>)
  /\ mishap' = TRUE
  /\ UNCHANGED <<readySent, mailbox, open, child, sigchld, reaper>>

Launch(t) ==
  /\ pc[t] = "listening"
  /\ Goto(t, "select")
  /\ fresh' = [fresh EXCEPT ![t] = None]
  /\ \/ /\ Loop(t, fresh[t], None, FALSE, <<Report("Started", fresh[t], None)>>)
        /\ readySent' = [readySent EXCEPT ![t] = FALSE]
        /\ UNCHANGED mishap
     \/ /\ LateFailure
        /\ Loop(t, None, exitInfo[t], eof[t], <<Report("Stopped", None, None)>>)
        /\ mishap' = TRUE
        /\ UNCHANGED readySent
  /\ UNCHANGED <<mailbox, open, child, sigchld, reaper>>

(* A stop sends a signal, runs a command, which may have any effect or     *)
(* none, or writes keys.                                                   *)
Stop(t) ==
  /\ Take(t, "Stop")
  /\ process[t] # None
  /\ IF t \in StopKeys THEN Goto(t, "write") ELSE UNCHANGED pc
  /\ UNCHANGED <<fresh, state, readySent, open, inbox, child, sigchld, reaper, mishap>>

Kill(t) ==
  /\ Take(t, "Kill")
  /\ process[t] # None
  /\ Killed(process[t], t \in KillGroup)
  /\ UNCHANGED <<pc, fresh, state, readySent, open, inbox, reaper, mishap>>

(* Keys, pastes and answers of the terminal are written in full before     *)
(* the loop goes on: nothing is read, and no command taken, meanwhile.     *)
Input(t) ==
  /\ Take(t, "Input")
  /\ process[t] # None
  /\ Goto(t, "write")
  /\ UNCHANGED <<fresh, state, readySent, open, inbox, child, sigchld, reaper, mishap>>
Resume(t) ==
  /\ pc[t] = "write"
  /\ Goto(t, "select")
  /\ UNCHANGED <<fresh, state, readySent, mailbox, open, inbox, child, sigchld, reaper, mishap>>
Accepted(t) == Resume(t) /\ TtyOpen(process[t])
WriteFails(t) == Resume(t) /\ ~TtyOpen(process[t])

ExitKnown(t) ==
  /\ Take(t, "Exited")
  /\ Loop(t, process[t], Head(mailbox[t]).inst, eof[t], <<>>)
  /\ UNCHANGED <<pc, fresh, readySent, open, child, sigchld, reaper, mishap>>

Reading(t) == pc[t] = "select" /\ process[t] # None /\ ~eof[t]

(* Output may hold the readiness pattern, and queries to be answered. *)
Output(t) ==
  /\ Reading(t)
  /\ \E ready, answer \in BOOLEAN :
       /\ ready \/ answer
       /\ ready => t \in ReadyLog /\ ~readySent[t]
       /\ readySent' = [readySent EXCEPT ![t] = @ \/ ready]
       /\ IF ready THEN inbox' = [inbox EXCEPT ![t] = Append(@, Report("Ready", process[t], None))]
                   ELSE UNCHANGED inbox
       /\ IF answer THEN Goto(t, "write") ELSE UNCHANGED pc
  /\ UNCHANGED <<fresh, state, mailbox, open, child, sigchld, reaper, mishap>>

OutputEnds(t) ==
  /\ Reading(t)
  /\ ~TtyOpen(process[t])
  /\ Loop(t, process[t], exitInfo[t], TRUE, <<>>)
  /\ UNCHANGED <<pc, fresh, readySent, mailbox, open, child, sigchld, reaper, mishap>>

(* The kernel has let go of the task: it ends with what it still holds.    *)
Ends(t) ==
  /\ pc[t] = "select"
  /\ t \notin open /\ mailbox[t] = <<>>
  /\ Goto(t, "ended")
  /\ process' = [process EXCEPT ![t] = None]
  /\ UNCHANGED <<fresh, exitInfo, eof, readySent, mailbox, open, inbox, child, sigchld, reaper, mishap>>
-----------------------------------------------------------------------------
(* The kernel's side *)

Command(t, c) ==
  /\ t \in open
  /\ Len(mailbox[t]) < QueueMax /\ Len(inbox[t]) < QueueMax
  /\ mailbox' = [mailbox EXCEPT ![t] = Append(@, Cmd(c))]
  /\ UNCHANGED <<pc, fresh, state, readySent, open, inbox, child, sigchld, reaper, mishap>>

(* A task's own message is sent on to it; its reports are the kernel's.    *)
Deliver(t) ==
  /\ inbox[t] # <<>>
  /\ inbox' = [inbox EXCEPT ![t] = Tail(@)]
  /\ IF Head(inbox[t]).cmd = "Exited" /\ t \in open
     THEN mailbox' = [mailbox EXCEPT ![t] = Append(@, ExitMsg(Head(inbox[t]).inst))]
     ELSE UNCHANGED mailbox
  /\ UNCHANGED <<pc, fresh, state, readySent, open, child, sigchld, reaper, mishap>>

(* Removing a task sends it a last Kill if it is active, and closes it. *)
Remove(t) ==
  /\ t \in open
  /\ open' = open \ {t}
  /\ \E last \in {<<>>, <<Cmd("Kill")>>} :
       mailbox' = [mailbox EXCEPT ![t] = @ \o last]
  /\ UNCHANGED <<pc, fresh, state, readySent, inbox, child, sigchld, reaper, mishap>>
-----------------------------------------------------------------------------
Init ==
  /\ pc = [t \in Tasks |-> "select"]
  /\ fresh = [t \in Tasks |-> None] /\ process = [t \in Tasks |-> None]
  /\ exitInfo = [t \in Tasks |-> None] /\ eof = [t \in Tasks |-> FALSE]
  /\ readySent = [t \in Tasks |-> FALSE]
  /\ mailbox = [t \in Tasks |-> <<>>] /\ inbox = [t \in Tasks |-> <<>>]
  /\ open = Tasks
  /\ leader = [i \in Instances |-> "unborn"] /\ kin = [i \in Instances |-> "none"]
  /\ pid = [i \in Instances |-> None]
  /\ sigchld = FALSE /\ waiter = "idle" /\ hand = None
  /\ listeners = [p \in Pids |-> None] /\ unclaimed = [p \in Pids |-> None]
  /\ mishap = FALSE

(* What the runner does by itself. *)
TaskStep(t) ==
  \/ \E c \in Commands : Ignore(t, c)
  \/ Fork(t) \/ ForkFails(t) \/ Listen(t) \/ Abandons(t) \/ Launch(t)
  \/ Stop(t) \/ Kill(t) \/ Input(t) \/ WriteFails(t)
  \/ ExitKnown(t) \/ OutputEnds(t) \/ Ends(t)
Reaper == Wake \/ Dispatch \/ Rest \/ \E i \in Instances : Collect(i)

(* What the programs and the clients do. *)
Program(i) ==
  \/ Exit(i) \/ KinExit(i) \/ Foreign(i) \/ ForeignReaped(i)
  \/ \E k \in {"group", "stray"} : Bear(i, k)
Outside ==
  \/ \E i \in Instances : Program(i)
  \/ \E t \in Tasks : \/ Output(t) \/ Accepted(t) \/ Remove(t)
                      \/ \E c \in Commands : Command(t, c)

Next == Outside \/ Reaper \/ \E t \in Tasks : TaskStep(t) \/ Deliver(t)

Spec == Init /\ [][Next]_vars
-----------------------------------------------------------------------------
(* Properties *)

Msgs == {Cmd(c) : c \in Commands} \cup {ExitMsg(i) : i \in Instances}
Reports ==
  [cmd : {"Started", "Ready", "Stopped", "Exited"},
   inst : Instances \cup {None}, exit : Instances \cup {None}]
TypeOK ==
  /\ pc \in [Tasks -> {"select", "forked", "listening", "write", "ended"}]
  /\ fresh \in [Tasks -> Instances \cup {None}] /\ process \in [Tasks -> Instances \cup {None}]
  /\ exitInfo \in [Tasks -> Instances \cup {None}]
  /\ eof \in [Tasks -> BOOLEAN] /\ readySent \in [Tasks -> BOOLEAN]
  /\ mailbox \in [Tasks -> Seq(Msgs)] /\ inbox \in [Tasks -> Seq(Reports)]
  /\ open \subseteq Tasks
  /\ leader \in [Instances -> {"unborn", "alive", "zombie", "gone"}]
  /\ kin \in [Instances -> {"none", "group", "stray"}]
  /\ pid \in [Instances -> Pids \cup {None}]
  /\ sigchld \in BOOLEAN
  /\ waiter \in {"idle", "reaping", "holding"} /\ hand \in Instances \cup {None}
  /\ listeners \in [Pids -> Instances \cup {None}]
  /\ unclaimed \in [Pids -> Instances \cup {None}]
  /\ mishap \in BOOLEAN
  /\ \A t \in Tasks : /\ pc[t] \in {"forked", "listening"} => fresh[t] # None
                      /\ pc[t] = "write" => process[t] # None

(* No exited child is left to a signal that has been used up: signals that *)
(* arrive together are one.                                                *)
ZombiesReaped ==
  (\E i \in Instances : leader[i] = "zombie") => sigchld \/ waiter # "idle"

(* From fork to report, the exit of a task's instance is in one place, and *)
(* whoever has it can pass it on: it is neither lost between the reaper    *)
(* and a spawn that is not yet waiting, nor told twice.                    *)
Current(t) == IF pc[t] \in {"forked", "listening"} THEN fresh[t] ELSE process[t]
InQueue(q, i) == {k \in DOMAIN q : q[k].cmd = "Exited" /\ q[k].inst = i}
Places(t, i) ==
  {<<"os", j>> : j \in {j \in {i} : leader[j] \in {"alive", "zombie"}}}
  \cup {<<"hand", j>> : j \in {j \in {i} : hand = j}}
  \cup {<<"unclaimed", p>> : p \in {p \in Pids : unclaimed[p] = i}}
  \cup {<<"inbox", k>> : k \in InQueue(inbox[t], i)}
  \cup {<<"mailbox", k>> : k \in InQueue(mailbox[t], i)}
  \cup {<<"known", j>> : j \in {j \in {i} : exitInfo[t] = j}}
ExitInOnePlace ==
  \A t \in open : LET i == Current(t) IN i # None =>
    /\ Cardinality(Places(t, i)) = 1
    /\ leader[i] \in {"alive", "zombie"} \/ hand = i =>
         pc[t] = "forked" \/ listeners[pid[i]] = i
    /\ unclaimed[pid[i]] = i => pc[t] = "forked"

(* The exit of an instance of a task is kept, whoever reaps it and when,   *)
(* and but for mishaps it is in one place (unix_processes_waiter.rs:20).   *)
ExitsKept == TypeOK /\ ZombiesReaped /\ (~mishap => ExitInOnePlace)

(* What the task promises the kernel.                                      *)
Ready == {t \in Tasks : readySent[t] /\ process[t] # None}
Finished == {i \in Instances : leader[i] \in {"zombie", "gone"} /\ ~TtyOpen(i)}
Promise == INSTANCE Supervision WITH
  held <- process, ready <- Ready, over <- Finished, channel <- inbox, Exact <- FALSE
Exactly == INSTANCE Supervision WITH
  held <- process, ready <- Ready, over <- Finished, channel <- inbox, Exact <- TRUE

(* Reports alternate, one stop for each start, whatever the mishaps        *)
(* (process_task.rs:203).                                                  *)
Supervises == Promise!Spec

(* But for mishaps the stop is that of an instance that is over, with its  *)
(* own exit.                                                               *)
StopsExact == [][~mishap' => Exactly!Next \/ UNCHANGED Exactly!vars]_vars
-----------------------------------------------------------------------------
(* Fairness: tokio polls the tasks, select! chooses between its branches   *)
(* at random, the kernel and the reaper keep going.  Nothing is assumed of *)
(* programs and clients.                                                   *)
Handles(t) ==
  \/ \E c \in Commands : Ignore(t, c)
  \/ Fork(t) \/ ForkFails(t) \/ Stop(t) \/ Kill(t) \/ Input(t) \/ ExitKnown(t)
Fairness ==
  /\ WF_vars(Reaper)
  /\ \A t \in Tasks :
       /\ WF_vars(Listen(t) \/ Launch(t) \/ WriteFails(t) \/ Ends(t)) /\ WF_vars(Deliver(t))
       /\ SF_vars(Handles(t)) /\ SF_vars(OutputEnds(t))
FairSpec == Spec /\ Fairness

(* The end of an instance is noticed: a task does not stay up with a       *)
(* program that has exited and closed its terminal.                        *)
IsOver(t, i) == process[t] = i /\ leader[i] # "alive" /\ ~TtyOpen(i)
EndIsNoticed ==
  \A t \in Tasks, i \in Instances : IsOver(t, i) ~> process[t] # i

(* A kill that waits for its turn ends the program, unless the task is     *)
(* caught in a write.                                                      *)
KillWaits(t, i) == process[t] = i /\ leader[i] = "alive" /\ Cmd("Kill") \in {mailbox[t][k] : k \in DOMAIN mailbox[t]}
KillOrWrite ==
  \A t \in Tasks, i \in Instances :
    KillWaits(t, i) ~> leader[i] # "alive" \/ pc[t] = "write"

(* "Hard kill selected process (send SIGKILL)" (README-mprocs.md). *)
HardKills ==
  \A t \in Tasks, i \in Instances : KillWaits(t, i) ~> leader[i] # "alive"
=============================================================================
