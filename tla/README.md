# A formal model of dekit / mprocs

This directory holds TLA+ modules that model the program in `src/`, TLC
configurations that check them on small instances, and proofs, checked by TLAPS,
of what holds for instances of every size. Paths below are relative to the
repository's `src/` crate (`kernel/kernel.rs` is `src/src/kernel/kernel.rs` in
`PROJECT.json`). `PROJECT.json` maps every definition that models code to the lines
it stands for.

    tlc -workers 2 -config MCKernelGraphs.cfg MCKernelGraphs   # check a run
    tlapm KernelProofs.tla                                     # check a module's proofs

## 1. The system

A *runner* is a background process that keeps the tasks of one project directory
running. Clients (`dk` commands, an attached terminal) find it through files in a
runtime directory, start it if need be, and talk to it over a socket.

| Component | State it keeps | Operations | Interacts with |
|---|---|---|---|
| **Kernel** `kernel/kernel.rs`, `task.rs`, `kernel_message.rs` | the task map, edges of the requirement graph, pins; per task: state, epoch, vetoed, killed, cached `wanted`/`supported`, counters `wanted_parents`/`active_dependents`; the queue of dirty tasks, the queue of effects | register, remove, start, stop, kill, down, veto, restart, quit; reports of tasks; timers; `settle` (reconcile) | sends Start/Stop/Kill to tasks by a synchronous call that may report back at once; notifies subscribers; one channel of messages in |
| **Task tree** `namespace.rs`, `path_trie.rs`, `sub_trie.rs` | paths and labels of tasks, subscriptions by selector | insert, resolve, subscribe, listeners | owned by the kernel |
| **Watches, retry delay** `kernel.rs`, `config/hook.rs` | watched selections, attempts and start times of tasks | watch_active, check_active_watches, backoff_delay | kernel, hooks, attach |
| **Process task** `task/process_task.rs` | a state machine around one child process: instance, exit status, end of output, label, buffered input | Start, Stop, Kill, input, resize, duplicate | kernel (commands in, reports out), child process, task screen |
| **Child processes** `process/*` | pid, pty, listeners per pid, unclaimed exits | fork, signal, reap on SIGCHLD | process task |
| **Runner files** `runner/lockfile.rs` | per runner identity five files: `.lock`, `.live`, record, socket, error; flocks | lock_runner_paths, publish, drop of the guard, runner_state, cleanup_paths | every runner and client of the machine, through the file system |
| **Client connect** `runner/socket.rs`, `spawn.rs`, `kill.rs`, `dekit/main.rs` | a deadline, whether a runner was spawned | connect, shutdown, kill by recorded identity | runner files, processes |
| **RPC** `dekit/server.rs`, `protocol/*` | per connection: requests under way | handshake, dispatch, attach | kernel, clients |
| **Attach** `dekit/attach.rs` | the observed task, a watch | attach, resize, detach | kernel, task screen |
| **Commands, task configuration** `command.rs`, `config_tasks.rs` | none (pure resolution and batches of messages) | execute, register_config_tasks | kernel |
| **Task screen** `kernel/task_screen.rs`, `copy_mode.rs` | viewers and their sizes, the emulated screen, a copy session | attach, detach, resize, keys, mouse, copy mode, output | kernel, process task, viewers |
| **Console** `console/*` | the list of tasks, selection, focus, dialogs, attachments, copies of the tasks' screens | keys, clicks, notifications, sizes | kernel, task screens, attachments |
| **Terminal emulator** `term/*` | two grids with scrollback, modes, a scanner's state; the differ's belief about a client's terminal | one per control sequence; feed; diff | task screen, attach |
| **Terminal driver** `term_driver/*` | the state of the input decoder | feed, flush | clients |
| **Configuration** `config/*` | none | load a root file and its fragments, build keymaps, hooks | server, console |
| JavaScript runtime, legacy front end, logging, clipboard, Windows | | | bindings and pure I/O |

**What is hard.** The kernel never recomputes the graph: its decisions are caches
kept by increments and by queueing neighbours, and a task may answer a command
while the command is being handled, so one message sets off a cascade of reports,
recomputations and drives in an order that follows hash-map iteration. Timers
arrive late and are told apart by epochs. The runner's files are changed by
processes that know nothing of each other, may die between any two system calls,
and delete files others are about to lock. Processes exit, are reaped and close
their terminal in any order, and the kernel may give up waiting for them. A terminal is
a state machine of some eighty operations on a grid, where a position saved before a
change of size or half a wide character is enough to go wrong much later.

**What makes each component correct.**

- Kernel: caches and counters equal what they stand for; nothing that must be done
  is forgotten; a task is started only over satisfied dependencies and stopped by
  the reconciler only after its dependents; a late timer never acts on a later
  stop; a removed task is never driven; quits and stops end.
- Runner files: one runner at a time; its files are not touched by others; a client
  is not told that a serving runner is absent, starting, stale or failed; whatever
  a crash leaves behind can be cleaned up.
- Process task: one stop is reported per instance, after its exit and its last
  output; no instance is lost; a stop or kill reaches the instance it was meant for.
- Stopping a runner: a kill goes to the process the runner recorded, also when its pid
  is another's by now, and a runner said to be stopped does not serve any more.
- RPC and attach: every request gets its own answer, before an attach shows anything; an
  attach that waits for its task's end does not miss it; nothing of it is left behind.
- Task tree: names, globs, tags and subscriptions agree with the set of tasks.
- Start-up and commands: of a sound project all tasks are registered, of another none; a
  batch that fails takes effect as a prefix.
- Task screen and console: a task has the size of its smallest viewer, viewers see what is
  there, what is yanked is what was highlighted, a selection does not move by itself.
- Terminal: the emulator never reads a row or a column that is not there, what a client
  sees is what the task drew, and reading is the inverse of writing.

## 2. Modules

| Module | What it is |
|---|---|
| `Orchestrator` | what the kernel promises: the moves of a task's state, and when the kernel itself may make them |
| `Kernel` | the kernel loop in full; implements `Orchestrator` |
| `MCKernel`, `MCKernelGraphs` | instances for TLC; the second runs two of them side by side |
| `MCLive` | `Kernel` with a bounded number of inputs, and `ProcessTask`, under fairness |
| `KernelProofs` | types, queued tasks are live, timers match states, the two counters are exact; caches agree with their neighbours', requirements have no cycle, hence caches are exact; nothing is forgotten, the refinement |
| `RunnerLock` | the files of one runner identity, and the processes that use them |
| `MCRunnerLock` | its instance for TLC |
| `RunnerLockProofs` | mutual exclusion, files kept, right answers |
| `Supervision` | what a process task promises the kernel: the order of its reports, and what a stop means |
| `ProcessTask` | the loops of process tasks, their children, and the reaper; implements `Supervision` |
| `ProcessSystem` | `Kernel` and `ProcessTask` put together: what one sends the other takes |
| `ProcessTaskProofs` | exits are kept, the refinement of `Supervision` with and without mishaps; what the kernel believes of a task and what the task does agree |
| `MCProcessTask`, `MCProcess` | their instances for TLC |
| `Registry` | spaces, tries of names, tags, subscriptions, watches on what is active |
| `RegistryProofs` | names name what is registered, subscribers and watchers know what is so |
| `RunnerClients` | clients that start, find, stop and kill a runner, among processes whose pids are used again |
| `Session` | one connection to a runner, and the attach session it may become |
| `ClientProofs` | of `RunnerClients` and `Session`: what is killed was recorded, what is said to be stopped serves no more; answers in order, exits reported, sizes released |
| `Startup` | loading, ordering and registering a project's tasks; hooks; batches of commands |
| `Console` | the console with its attachments, over the kernel's notifications and the tasks' screens |
| `ConsoleProofs` | what the console shows is what there is, its selection stays where it is, its hints do what they say |
| `MCService` | the five of them side by side |
| `Grid`, `Screen` | the grid of a terminal and the emulator, one action per control sequence |
| `ScreenDiffer` | what is sent to an attached terminal; the terminal is the emulator again |
| `TaskScreen` | a task's screen shared by its viewers, and copy mode |
| `Folding` | what holds along a fold from the left: the induction the proofs about the terminal and the console rest on |
| `TerminalProofs` | the emulator keeps its shape, its cursors, its wide characters and its views; text is written the same in one piece or many; a task's screen serves its viewers |
| `VtScan`, `VtStream` | the byte scanner, and reads that end anywhere |
| `TermCodec`, `TermWire` | attributes, keys, mouse, pastes: written by one end, read by the other |
| `MCTerminal` | these side by side |

### Kernel

One action per message (`Register`, `Remove`, the seven commands, `Quit`,
`TaskReport`, `TaskMsg`, `SetLabel`, `StateTimeout`) and one per step of `settle`
(`ApplyEffect`, `Recompute`, `Drive`, `Settled`). `phase` is the program counter of
the loop: `recv` waits for a message; `settle` is the head of `settle`'s loop,
where reported effects go first; `drain` is the first half of `reconcile_round`
(caches of all queued tasks, until none is queued); `drive` the second half.
`kernel.rs` correspondences that are not obvious:

- `effects[t]`, `dirty`: the two queues. Queued ids are popped in an order that
  depends on hash-map iteration earlier on, so `dirty` is a set, and `effects` is a
  queue per task: the order of one task's reports is kept.
- A task's `handle_cmd` runs inside `send_cmd` and may report at once. `Replies` says
  what it may report; one answer per task and step. `Listeners` says who hears the
  notifications of a task, and such a task may answer as well.
- A command acts on all tasks its selector matches. The code goes through them one
  by one with no step in between and no effect of one on what is done to another, so
  `Command` acts on the set.
- `timers` holds the timers armed and not yet delivered; any of them may fire at any
  time. A timer carries the epoch it was armed in, as in the code; its `purpose` is
  a name for the delay and is read by properties only.
- `steps` counts the turns of a settle, up to the budget `tasks * 16 + 64`.
- Effects of a task that has been removed are ignored by the code; the model drops
  them at the removal. Messages for ids that are not registered change nothing and
  are left out. Ids are never issued twice (`next_task_id`).
- A `Register` is refused when a dependency is not registered. Refusals for a taken
  path or a reserved space have the same effect on this state.

Not in this module: attempts, uptime and the delay of a retry (the timer may fire
any time); names, subscriptions and watches, which are constants here (`Selections`,
`DepChoices`, `Listeners`) and the state of `Registry`; queries.

### RunnerLock

One action per system call that matters: open-or-create, flock, compare inode, unlink,
write, in the order of the code, for any number of runners and clients. `.lock` and
`.live` are inodes; a flock belongs to an open file and is dropped when its process
closes it or dies. The record, the socket and the error file are identified by who
wrote them (`atomic_write` makes each a single step).

- A runner: `OpenLock, TryLock, OpenLive, WaitLive, CheckLock, CheckLive`, the sweep
  of old files, `Bind, Publish, ClearError`, service, `End` or `Fail`, and the guard's
  drop, which unlinks four names one after another and only then closes the files.
- A client asks for the state (`ReadRecord, OpenProbe, TestLive, ReleaseProbe,
  ReadError`) or cleans up (`OpenCleanup, TryCleanup, MatchCleanup`, five unlinks), and
  may do so at any time, whatever state it was told of.
- `Die`: any process in `Mortal` may be killed between any two calls.
- `steady` is a history variable: the runner that has been serving since a query began.
- Inode numbers are reused as soon as nothing refers to an inode. Those of `.lock` and
  `.live` are counted apart: the code never compares one with the other.

Left out: the owner identity written inside `.lock`, the directory scans of
`list_runners` and `cleanup_all_stale`, Windows.

### ProcessTask

An instance is one child. `pc` is where the task's loop waits: `select` (the
`tokio::select!`), `forked` and `listening` (inside `UnixProcess::spawn`, where the
reaper runs on another thread), `write` (a `write_all` under way), `ended`.

- `Fork`, `Listen` and `Launch` are `forkpty`, `wait_for` and the rest of a `Start`; a
  spawn fails before (`ForkFails`) or, with `LateFailure`, after the child exists, when it is
  not waited for yet (`Abandons`) or already is (`Launch`).
  `Stop`, `Kill`, `Input`, `ExitKnown` take one message; `Output` and `OutputEnds` are
  reads. `Loop` is the head of the loop, which runs after each of them: it reports the
  stop. `Ignore` is a command for the other state.
- The reaper: `Wake` (SIGCHLD, of which there is at most one pending), `Collect` (`wait`
  for any child), `Dispatch` (look the pid up under the lock), `Rest`.
- The system: a child exits at any time (`Exit`), its descendants may hold its terminal
  open (`Bear`, `KinExit`), in its process group or out of reach of a signal to it. What a
  Stop's signal, keys or command do to the program is up to the program.
- `Foreign` children are those started by hooks and stop commands. Two waiters want
  them: their own, by pid, and the reaper, which waits for any child.
- The kernel appears as the channel it reads (`inbox`) and what it sends (`Command`, any
  command at any time; `Deliver`; `Remove`).

Left out: the bytes of input and output, `Duplicate`, resizing, log files,
the environment of the child, Windows.

### ProcessSystem

`ProcessSystem` extends `ProcessTask` and adds the variables of `Kernel` (whose `state` is called
`running` here); the two share none. A step of the kernel that moves a task to Starting or into a new epoch of Stopping puts Start, Stop
or Kill into that task's mailbox (`Sent`, `Sends`), as `ChannelTask::handle_cmd` does, so
nothing is answered at once. What a task reports waits in `inbox` until the kernel,
between two settles, takes it (`KernelHears`). The other actions are one side's own steps.
`givenUp` is a history variable: tasks whose kill the kernel has stopped waiting for. The
kernel's timers may fire at any time, so a kill can be given up however quickly the task
would have answered; in the program that takes ten seconds (`STOP_GRACE`) after the
kill, during which the task is writing or a descendant holds its terminal.

### Registry

One action is one message of the kernel with the settle that follows. A trie is a function
from nodes (sequences of components) to ids or to subscribers; insertion, pruning, the walk
of a glob and the collection of subscribers follow `path_trie.rs` and `sub_trie.rs`. Pruning
after a removal and giving up a subscription say which nodes and holders remain rather than
visiting them one by one; nobody sees the trie in between. `GlobWalk` recurs over nodes and positions of
the pattern as `glob_walk` does, `Fits` is its reference: a way to cut the path along the
pattern. Watches are kept by number, as many as `MaxWatches`. `seen` records what each subscriber was
told, by replay on subscribing or by notification.

### RunnerClients

A runner goes through the kinds `spawned`, `won`, `starting`, `serving`, `ending`, `unlisted`,
`unlocked`, `leaving`, one action for each thing it does to the files: `WinsLock` and `WinsLive`
(the two flocks), `Sweeps` (what its predecessor left is removed only then, so that for a moment
the record of a dead runner lies beside a lock that is held), `WritesOwner`, `Publishes`,
`StopsServing` (with an error file or without), `RemovesRecord`, `RemovesLive`, `RemovesLock` (the
guard's drop; the process lives on, with locks on files that have no name, and `.lock` is removed by
its path, whoever has locked it). It may fail, hang or be killed at each. What `RunnerLock` has in addition is the
opening of a file apart from locking it, with the retries this costs, and a cleanup unlink by unlink.
Processes are instances of pids; a pid whose
process has gone is given out again. `connect_client_socket` is a loop of `Connects`,
`Spawns`, `Refused`, `GivesUp`, one iteration at a time with the deadline at any of them.
`shutdown_runner` looks once (`StopLooksFirst`) and then in a loop, where reading the record
(`ReadsRecord`) and trying `.live` (`Tells`) are two steps, as in `runner_state`; another client may have `.live`
locked for a moment (`Seemings`). The quit it asks for is heard by whoever serves, who may stop
serving at any time anyway. Then the kill of the
recorded identity: open a descriptor for the pid, verify the start time behind it, signal;
then passes over the session. `held` is a history variable: the runner that served when the stop looked first.

### Session

`up` and `down` are the frames on the socket, `queue` the kernel's channel, `target.mail`
the task's. The server's loop takes a frame, spawns the handling of a call, and waits for
those under way before an attach (`Flushed`). The session is a `select!` over notes of the
screen, the exit watch and frames of the client; any of the three may be ready at once.
The client may go away at any step, the kernel may end.

### Startup

The files of a project are chosen among `Trees`; loading goes through them with a stack
of frames, dependencies are resolved, checked for cycles and ordered, and the tasks are
registered by messages to the kernel, beside the commands of hooks and of a client: a
caller sends its commands one by one without waiting, and then awaits the answers.

### Console

`HandlesTaskCmd` and `HandlesNote` take one message of what was received together
(`view.left` of them remain); after the last the list is brought into sight, and the layout
and the sizes the tasks are to have are looked at. `missed` and `misled` mark the two cases
the code does not handle (see below). The screens of tasks hear at once when the console attaches to
them, detaches or changes size; in the code they hear it through the kernel and their own mailbox, in the
order it was sent (`console/app.rs:304`). What they tell the console takes its time, as in the code.

### Terminal

`Grid` has the functions on rows and cells, `Screen` one action for each control sequence
and each run of text. A panic or an endless loop is the state `broken`. `ScreenDiffer` writes
for a terminal that is another instance of the emulator. `VtScan` is the scanner as a
function of state and bytes; `VtStream` lets bytes arrive, and compares reading them at
once with reading them one by one. `TermWire` has the writer and the reader of a
connection, and compares what went in with what came out.

Left out in these: colours beyond what a change of attributes needs, charsets, titles, the
shape of the cursor, the win32 key encoding, loggers, and screens a task draws itself.

## 3. Runs

| Run | Instance | Asks | Result |
|---|---|---|---|
| `kernel` | either three tasks in a diamond of requirements, silent, every settle cut after one turn, commands naming one of the two dependents; or service `a` and job `b` that requires and hears it, with every synchronous answer of the property harness `kernel_prop.rs` and the code's budget | counters, caches, live queues, timers, the budget, nothing forgotten, refinement of `Orchestrator` | holds |
| `live` | the kernel with two tasks and 5 inputs; a process task with two instances and one waiting command | quits end, stops end, what should run comes up; ends are noticed, kills take effect or a write is under way | holds |
| `kernel_exit` | two free jobs, one answers notifications by its exit | the comment on `settle` | violated, see below |
| `runner_lock` | 2 runners, 2 clients, all mortal, a second attempt of one runner | exclusion, kept files, right answers | holds |
| `runner_wait` | 2 runners, 1 client, no deaths | the comment on `.live` | violated, see below |
| `process_task` | one task, 2 instances, a foreign child, in three parts: pids used once; one pid used again and again with late failures of spawns; under the kernel, with 3 requests of clients | exits kept, `Supervision` exactly or, with mishaps, its order of reports, kernel and task agree | holds |
| `process_kill` | one task, 2 instances, up to 2 commands waiting | the manual on "Hard kill" | violated, see below |
| `process_start` | the third part of `process_task` | the comment on a kill given up | violated, see below |
| `terminal` | five parts, see below | nine properties of the terminal | holds |
| `terminal_resize` | a screen of two rows that gets one | the assumption that the cursor's row exists | violated, see below |
| `service` | five parts, see below | twelve properties of names, console, clients, sessions, start-up | holds |
| `session_leak` | the session part of `service` | the comment on foreground runs | violated, see below |

Where components that do not interact, or whose product would be too large, share a run,
a variable `part` chooses one of them in the initial state and the variables of the others
do not change. A property says which part it is about.

**Kernel.** `CountersExact`, in every state and not only between
messages. `CachesExact`: the two cached decisions equal those of an oracle that looks
at the whole graph, the one debug builds assert after each settle. `QueueRight`: every
queued task is registered (`expect("queued id live")` never fails), and none that is not
queued still needs to be started, stopped or cancelled, even where a settle was cut.
`TimerMatchesState`: a task that waits has exactly the one current timer it waits for.
`BudgetSuffices`: with the code's budget a settle leaves nothing queued. `Orchestrates`: the kernel implements
`Orchestrator`. `QuitEnds`, `StopEnds`, `SupportedComesUp`: see fairness.

**Process tasks.** `ExitsKept`: no exited child is left to a signal that
has been used up, and, where pids are used once, an instance's exit is from fork to report
with the system, the reaper, the unclaimed exits, a queue or the task, in exactly one of
them, and what has it can pass it on. `Supervises`: started and stopped alternate,
readiness comes in between and once, whatever the mishaps. `StopsExact`: without them an
instance is reported stopped when it has exited and its terminal is closed, with its own
exit. What mishaps take away: an exit nobody claimed is told to a later child with its pid
(`unix_processes_waiter.rs:24`), and the exit of a child whose spawn failed late is taken
for that of the next instance. `AgreesWithProcess`: a task the kernel holds in Starting is
about to start or has said how that went, one it holds up has a process or has said that it
stopped, and one it holds down has none and none coming, unless a kill was given up.

**Terminal.** *screen*: every sequence of three operations on a written screen of two sizes.
`ScreenSound`: rows are as long as the screen is wide, positions are on it, no wide character
is cut at the edge. `OnlyResizeTears`: the second half of a wide character is lost in no step but a
change of size, and then only where a row goes on below and ends, as far as it was ever written,
within one (see below). `BlitMatchesPerChar`: the fast path for runs of text does
what the slow path does, as long as no wide character is torn. `OnlyRestoreLosesCursor`: the cursor
leaves the screen in no other step than the one of `terminal_resize`. *differ*: every change between the pictures of two
small sizes: `ClientInSync`, the terminal of a client shows the last picture after
each update. *task*: two viewers, three commands: `ViewersServed`, the size is that of
the smallest viewer and each viewer was told of what is on the screen; `YankIsHighlighted`; `ViewStays`,
output does not move a view that is scrolled back. *stream*: `ChunkingInvariant`, from each
reachable state of the scanner every chunk of two or three bytes. *wire*: `WireFaithful`.

**Service.** *registry*: three tasks, two nested paths, two globs, four messages,
subscriptions or a watch:
`NamesFound`, `SubscribersHear`, `WatchersTold`. *console*: three tasks, two attachments of two sizes,
four happenings: `ShowsWhatIs`, `SelectionSticks`. *clients*: two starters, a finder and a
stopper, three processes over two pids: `KillsTheRecorded`; `StopMeansOver`: when the stop says "Runner
stopped", neither the runner that served when it was called nor the one it took for its target
serves any more. *session*: three frames of
twelve kinds, one output, one act of another client: `AnsweredInOrder`, `ExitReported`, `SizeReleased`. *startup*: projects of up
to three files, with nested and repeated loads, unknown and cyclic dependencies: `ConfigTaken`, `BatchIsPrefix`.

**Bounds.** Two tasks are one edge: every cache and counter of a pair, all commands and
all interleavings of synchronous answers. Three add what two cannot: a task counted by
two parents, a requirement reached by two paths, stops that take two rounds; their
commands leave the task at the bottom to its dependents. The
number of messages is not bounded in these runs: an id is used once, epochs appear
in the view only as current or out of date, so the state space is finite. `Inputs = 5` in
`live` is enough to register both tasks, start or stop, start again during the stop, and quit.
`MaxTries = 2` rather than 8 covers giving up and retrying; two clients are needed for
one to delete the file another has just opened, two runners to compete for them. A second
attempt is made like the first, and one runner is seen to make it (`OneRetries`). Inodes
are as many as processes plus one, so creating a file never fails. Two instances of one
task are needed for an exit to reach the wrong one; tasks share only the reaper and the
pids, where a foreign child is as good as a second task. `QueueMax` delays commands
until a queue is shorter; exits and the last Kill of a removal are added all the same.
Under the kernel `MaxRequests = 3` is a registration and two commands, keys or failed spawns, for
example a kill and a start, the last of them a command to the kernel; restarts on failure come in addition. Descendants and other
children are left to the other parts. Where one pid is used again, descendants stay in the
group of their program, which nothing signals there.
A task, a directory above it and a third task are enough to prune a branch that is still in
use; two attachments to tell "the last one leaves" from "one leaves"; two pids for three
processes to have one used again. A frame too many decides whether answers overtake an
attach: three are a greeting, a call and an attach; at most two are unread (`InReach`). A session
sees nothing of what is sent after its end. Subscriptions and watches share no state, so a behaviour has the
one or the other (`Apart`). Files that no project loads are left empty (`MCTrees`). Three operations on a screen are a save,
a change of size and a restore. A row of three columns has a wide character at either edge.
A scanner's chunk of three bytes has one cut inside every sequence the state can be in.

**Symmetry and views.** The view of `MCKernel` reduces epochs to whether a timer is
current; `MCKernelGraphs` and `MCProcess` use the same. That of `MCRunnerLock` forgets inode
numbers and keeps who has which inode
open and whether the path names it; the processes of each sort are interchangeable.
Pids are interchangeable in `MCProcess`. `MCService` has neither, since looking for the least of
several alike states costs more there than it saves: instances of processes are born in the
order of their numbers, the first with the first pid (`InTurn`), and the second attachment comes while
the first is known (`FirstComes`), which leaves one of the states that differ in names only. `Matters` leaves
out of *clients* what the two properties cannot see: what happens after the stop has ended, clients that end
once it has begun, strangers while it does not kill, and steps of runners (but their deaths) while it does; and the
second starter waits for the first to have spawned its runner. The proofs are without these bounds. No liveness property is checked under a view or a
symmetry.

**Fairness.** `Fairness` in `Kernel`: the loop does not stop in the middle of a settle
(`Kernel::run` has no await there), and an armed timer is delivered in the end
(`tokio::time::sleep`, an unbounded channel). Nothing is assumed of tasks or clients: a
task may ignore Stop and Kill, which is what the grace timers are for. Inputs are
bounded because a client that never stops talking may start and stop a task forever.
`Fairness` in `ProcessTask`: the executor polls the tasks and the reaper (weak fairness),
and `tokio::select!` polls its branches in random order, so that neither commands nor the
end of output are passed over for ever (strong fairness of each). Nothing is assumed of programs,
not that they exit, nor that they read. `MCLive` has both: in a part that stands still
nothing is enabled, so its fairness asks for nothing.

`CHECK_DEADLOCK FALSE` is stated where the system may stop: a kernel without inputs waits, a
removed task ends with no instance left to exit, bounded clients have nothing more to send.

**Disagreements with comments.**

1. `kernel_exit`: `settle` says a stop decided by the reconciler "can never overtake an
   exit the task already reported". Within one round it can: driving one task notifies
   its subscribers, a subscriber that answers with its exit has it queued, and the same
   round may then stop that subscriber, so that a job's success ends in Idle. Process
   tasks never report an exit synchronously, other tasks of the harness do.
2. `runner_wait`: the comment on top of `lockfile.rs` says that a runner which has won
   `.lock` waits for `.live` only briefly. A cleanup that deletes `.lock` and then `.live`
   lets two runners hold different `.lock` files and meet at one new `.live`: the loser
   waits for as long as the winner serves. Only one of them serves at a time.
3. `process_kill`: "`X` - Hard kill selected process (send SIGKILL)"
   (`README-mprocs.md:277`). The task awaits `write_all` before it takes its next command:
   while the program does not read and its terminal's buffer is full, the Kill waits in the
   mailbox and no signal is sent. `KillOrWrite` shows that this is the only way to miss it.
4. `process_start`: when a kill is given up "a Start during the grace must not be lost"
   (`kernel.rs:893`). The kernel does send it, but a task that still holds the old process
   takes no Start: the kernel waits in Starting until the old process ends and takes that
   end for the end of the new run.
5. `terminal_resize` (a bug): the cursor saved on a larger screen is restored on a smaller
   one without being brought into it (`term/grid.rs:250`), and the next character ends the
   program, although `term/screen.rs:552` assumes a valid row.
6. `session_leak`: "a client that dies mid-run never leaks it" (`dekit/main.rs:663`). The
   session ends with its client, and a task that exits later stays registered.

Met while modelling and not the subject of a run: Ctrl+Shift+Tab is written as `CSI 1;5Z` and
read as Shift+Tab (left out of `MCKeyEvents`). The cursor of copy mode may go above the
rows there are, where a yank is empty. The differ does not redraw a size that changed and
kept its area, and does not know of a pending wrap of the client's cursor (pictures hide
the cursor in the last column for that reason). A row written below by `insert_lines` is
not counted as used and is dropped by the next change of size. Three more of this kind came out of
proofs that failed:

- A wide character can lose its second half, which a comment in `text()` takes for granted
  (`term/screen.rs:542`). Inserting a character moves cells and leaves `size`, the columns ever
  written, as it was. On three columns: write a wide character, return, insert one, go right, write a
  wide one, which wraps; the first row now ends, by `size`, within its wide character, and a change to
  five columns lays out the row without the second half. `OnlyResizeTears` says that this is the only way.
- Such a torn character makes the fast path for text differ from the slow one. On 5 by 3: write
  "aa" and a wide character, return, insert one, go right four columns, write a wide character, change
  to six columns, go up two rows, return, insert two. A run that ends on a wide character just before the
  torn one also writes the column after it; the same characters one by one do not. Hence the premise
  `WideWhole` of `BlitMatchesPerChar`.
- With the cursor below the last row (`terminal_resize`), a combining mark followed by plain text is
  dropped by the fast path, which counts one more row as used, and ends the program in the slow one.
  `BlitMatchesPerChar` speaks of runs without marks.

`dekit runner stop` that finds a runner still starting may say "Runner stopped" although that runner goes on
to serve: while it has not yet swept its predecessor's record, the stop reads this record beside the lock that is
held, takes the dead one for its target, and finds another runner once the new record is published
(`main.rs:160`); and it says so when the runner has removed `.live` and still lives. `StopMeansOver` is therefore about
the runner that served, and the target, and about serving, not about locks. A console whose size changes
and changes back within what it received together leaves tasks at the wrong size
(`missed`); a note of copy mode on its way when the last attachment leaves makes a stale
copy appear (`misled`). A late subscription of a removed task stays in the trie. When an attach
until the exit loses its task to a removal by someone else, the client may be told that the
task keeps running.

## 4. Theorems

For any finite set of tasks, any kinds, restart modes, requirements, listeners, answers
and budgets (`KernelAssumption`):

- `TypesHold`: invariant `Shape` (types, plus: a task that is not
  registered has left no trace, and nothing is to be driven outside a round).
- `TimersMatch`: `Shape` with `TimersInv`, which adds that no timer has an epoch its
  task has not reached; so a new epoch has no timers, and each step arms at most the
  one its state awaits.
- `CountersStayExact`: `CountersInv` counts the edges whose source is wanted, or
  active; each step changes a counter by exactly the edges it changes. Needs cardinalities
  of finite sets, which is why `Tasks` is assumed finite.
- `CachesHold`: the *local* correctness of the caches. A task that is not queued has
  caches that agree with its neighbours' (`LocalCaches`), and during the driving half
  of a round every supported task has supported, satisfied dependencies and no quit has
  begun, whatever the round has driven so far (`DriveSnapshot`).
- `QueueStaysRight`: its first part is in `Shape`, over which the second, `NothingLeftToDrive`, is
  inductive.
- `NeverCyclic`: every non-empty set of registered tasks has one that nothing in the set requires and one
  that requires nothing in it (`Acyclic`): a task is registered over tasks that are there already.
- `CachesAreExact`: what an oracle that looks at the whole graph would decide is what is
  cached when nothing is queued. `LocalCaches`, `CountersInv` and `Acyclic` imply it, by two
  inductions along the requirements: the decided set is what the oracle's iteration comes
  to rest at (`ComesToRest`), and on an acyclic graph there is one such set.
- `KernelOrchestrates`: each step of `Kernel` is a step or a stutter of `Orchestrator`, from
  `CachesInv` (to bring up) and `CountersInv` (to take down last).

For any number of runners and clients, any of them mortal (`RunnerLockAssumption`):

- `LockHolds`: `LockInv`. Its heart is `Owned`: whoever owns the files has the flock of the
  inode that `.live` names; with `OneHolder`, two owners would hold one flock, so only
  the owner unlinks `.live` and only to stop owning it. The exclusion alone is not
  inductive: it does not say that the path still names the locked file.
- `RunnersExclude`, `ServingKeepsFiles`, `AnswersAreRight`: its consequences for the
  properties `Exclusive`, `FilesKept`, `AnswerRight`.

For any number of tasks, instances and pids (`ProcessTask`'s assumptions):

- `KeepsItsPromise`: from `Shape`, which holds whatever the mishaps: a task that spawns holds no
  process and a process has one owner (`Holding`), and only the exits of reaped children are
  passed on, under their own pids (`Reaped`, `Passed`). Each step is then a step of
  `Supervision` or a stutter.
- `ExitsAreKept`, `StopsAreExact`: from `Books`, which holds until a pid is given again or a
  spawn fails late. Pids and mail are one's own; the exit of a task's current instance is in one place on its
  way from the system to `exit_info` (`Once`, `Somewhere`), where something can pass it on
  (`Routed`), and of earlier instances nothing is under way (`Spent`). That no exited child is left
  unreaped (`ZombiesReaped`) is inductive over `Shape`, with mishaps or without.

For the kernel and any number of such tasks together, mishaps or not (the same assumptions):

- `SidesAgree`: `Sides`, which relates for each task the kernel's state, where its loop is, the
  process it holds, its mailbox and its reports under way. `Loose` holds always: a report of a
  start is followed by one of its stop or by a process, and the kernel waits for no start that
  nobody will answer. `Close` holds until a kill is given up: there is one run at a time, to be
  started (one Start in the mailbox), spawning, running, or over (no report after that of its
  stop), and the state fits it. `AgreesWithProcess` alone is not inductive: a second Start behind
  a first, or a stale report of a stop, satisfies it and breaks it later. Nothing of pids or of the
  reaper is needed: an exit that is told to the wrong task only ends a run early.

For any number of processes, pids and clients (`RunnerClients`):

- `TheRecordedIsKilled`, `TheStopIsOver`: `StopInv`. What the stop remembers was a runner whose record was
  published, and a runner once published serves until it does so no more (`Memory`). A runner that
  serves is the one whose record is there, whoever ends, sweeps or cleans up beside it (`Files`), because
  one process at most has `.live` (`World`): so if the record that was read is another one, or none and the lock
  free, the runner found first has stopped serving, also when the record is a dead runner's beside the
  lock of one that has just won. A descriptor of another process than the recorded one was opened after
  that one's end, so that its verification fails (`Descriptor`): the order of the two system
  calls matters, and the invariant says why.

For any number of frames of a session (`Session`):

- `SizesAreReleased`, `ExitsAreReported`: `Fate` follows an attach through the session's program
  counter: whether the task's screen has or will have the client's size (`Sizes`), and whether
  the exit watch is set, on its way, or answered (`Watching`), with what is in the
  kernel's and the task's mail.
- `AnswersAreInOrder`: `Line`, where the frames written, the calls under way and the frames read are
  related by the number of each call; a call under way cannot outlast `flush`.

For any paths, globs, tags, number of tasks, watches and messages (`RegistryAssumption`):

- `WatchersAreTold`: `Watching`: what each watch was told last is whether any task it selects is active.
- `SubscribersAreTold`: from `Registered`: the trie holds exactly the subscriptions the
  subscribers hold (`SubsExact`), and each knows of each task what is so (`Hearing`). A
  step's notifications are collected along the path of one task, from a trie the step changes.
- `NamesAreFound`: from the rest of `Registered`: a node for every prefix of a path in use and no
  other, each id at its path (`NamesExact`), each tag with its tasks (`TagsExact`). That the walk of a
  glob finds exactly the paths that fit is a proof in two halves: fitting satisfies the walk's recursion
  (`FitsSteps`), and so does anything else that satisfies it (`WalkFinds`), by the least
  distance from the deepest node at which the two would differ.

For any sizes, scrollback, text, attributes and numbers of parameters (`Screen`), where a terminal has
at least one row and one column:

- `ScreensStaySound`: `Shaped`: both grids are in `GridsOf(FitRows(w), w, h, b)` for the present
  width and height. The invariant has to say more than `ScreenSound`: positions a later
  operation computes (scroll region, saved cursor, scroll offset, the number of rows used and of
  columns written) stay within what the arithmetic of the code needs, also while a change of size
  lays the rows out again.
- `CursorsAreKept`, `CharactersStayWhole`, `ViewsStay`: `OnlyRestoreLosesCursor`, `OnlyResizeTears`,
  `ViewStays`, each from `Shaped` and one lemma per operation of a grid.
- `BlitsAreFaithful`: `BlitMatchesPerChar`, from `SameText`, which is for any run of narrow and wide
  characters of any length. A piece of a run that fits a row is described in closed form (`RunGrid`);
  one character more written by the slow path extends the description by one, as long as wide
  characters are whole, and the fast path writes the description at once.

For any number of viewers, their sizes and what they do (`TaskScreen`):

- `AllAreServed`: `Serves`: the task and its copy session have the shape of a screen (`TaskShape`),
  each viewer that is attached was told of what is shown (`AllTold`), and the size is that
  of the smallest (`SizeRight`).

For any tasks, attachments, sizes of terminals, keys, clicks and layers of key tables (`ConsoleAssumption`):

- `TheSelectionSticks`, `WhatIsIsShown`: `Kept`, which has three parts. `Sound`: what is observed is what is shown
  while somebody looks (`Watching`), and the last note of copy mode on its way to the console, or the row if
  there is none, says how the task is (`Copied`). `Agrees`: the same for the news of tasks in the inbox,
  which tells of coming before going and in the order of ids (`Coming`, `InOrder`, `Going`, `There`, `Told`): what is shown, with what the
  inbox still says, is what there is. `Tidy`: what the end of a turn puts right. Each key, click,
  menu entry and batch keeps them, by an induction along the batch. `HintsDoWork`: the key that a hint
  names is bound to that action, for any key tables, by inductions along the layers and their entries.

The loops of the emulator and of the console are folds (`FoldLeft`), and a fold is a recursive function on sets inside the
community modules. `Folding` proves, with the step of the fold and what it keeps as CONSTANTS, that what
each step keeps the fold keeps (`FoldKeeps`, and `FoldTraced` where what holds depends on the number
of elements so far); `TerminalProofs` and `ConsoleProofs` instantiate it once for every loop. This is the one form of
induction over data the provers were brought to.

A recursive function is `CHOOSE`n, so the proofs of `CachesAreExact` and `NamesAreFound` first show that
a function with the recursion exists, and then that no other has it. The induction is done by
hand on a least counterexample: a non-empty set of numbers has a least one, a
non-empty collection of finite sets a minimal one.

**Only model-checked.** `BudgetSuffices`: a counting argument over rounds. Liveness (`QuitEnds`,
`StopEnds`, `SupportedComesUp` and those of process tasks), which rests on ENABLED.
`ConfigTaken` and `BatchIsPrefix`: loading is compared with a recursive reference, and `Startup` has
RECURSIVE operators, which cost the prover its arithmetic.
`ClientInSync`: that the client's emulator, fed what the differ wrote, shows the picture is a statement
about two folds, one over what the other produced. `YankIsHighlighted`: about text put together from
selected columns. `ChunkingInvariant` and `WireFaithful`: the scanner and the codecs are recursive over bytes.

## 5. What is left

Proofs within reach: `YankIsHighlighted` with the folds of `Folding`; a second abstract specification, of `Registry` as a set of named tasks, with the
tries a refinement of it. Extensions: `RunnerClients` over `RunnerLock` itself, where opening a file
and locking it are two steps; runners in the foreground; attempts and retry delays.

**Not modelled.** The JavaScript runtime (bindings to an embedded interpreter), the legacy
front end `mprocs` (its command line and configuration feed the same kernel and console),
logging and the clipboard (pure I/O), Windows (another platform behind the same traits).
Within modelled components: drawing and layout of the console beyond sizes, text input and
the fuzzy menu; parsing of YAML, of key names and of target syntax; the retry delay, a pure
function of the number of attempts with unit tests; charsets, titles and the win32 key
encoding; raw terminal modes. No property covers the signal to a pid that may have been used
again (`process/unix_process.rs:195`): nothing in the code prevents it.
