------------------------------ MODULE Console ------------------------------
(* The console (src/src/console): one view of the tasks that every attachment *)
(* shares, drawn on a screen of its own.  It hears of tasks from the kernel,   *)
(* of keys and sizes from the attachments, of copy mode from the screens it    *)
(* observes, and asks the kernel for what the keys mean.  What it receives in  *)
(* one go is handled before it looks at its layout again.                      *)
EXTENDS Integers, Sequences, FiniteSets, SequencesExt

CONSTANTS
  TaskIds,        \* tasks that may come, in the order they come
  AtStart,        \* how many of them are there already
  Attachments,    \* terminals attached to the console
  TermSizes,      \* <<columns, rows>> of a terminal
  FirstSize,      \* of the console's screen before anything is attached
  SidebarWidth,
  KeyConfig,      \* group -> what the configuration says of its keys, layer by layer
  KeysTyped, MenuItems, Clicks,
  MaxHappenings   \* how much happens outside of the console

VARIABLES
  view,     \* the console
  inbox,    \* what the kernel and the attachments sent it
  outside,  \* the tasks: which there are, their state, copy mode, who observes
  notes,    \* what the screens told the console
  asked,    \* what the console asked the kernel for
  happened
consoleVars == <<view, inbox, outside, notes, asked, happened>>

\* An action is a verb and what it is about; a batch has others in it.
IsSimple(a) == a[1] = "select-task" => a[2] \in Nat
IsAction(a) ==
  /\ a = [i \in 1..Len(a) |-> a[i]] /\ Len(a) \in Nat \ {0}
  /\ IsSimple(a) /\ (a[1] = "batch" => \A i \in 2..Len(a) : IsSimple(a[i]))
Groups == {"tasks", "term", "copy"}
\* The kernel gives an id to one task.
ASSUME ConsoleAssumption ==
  /\ TaskIds \in Seq(ToSet(TaskIds)) /\ IsInjective(TaskIds) /\ AtStart \in 0..Len(TaskIds)
  /\ FirstSize \in Nat \X Nat /\ TermSizes \subseteq Nat \X Nat /\ SidebarWidth \in Nat
  /\ \A g \in Groups : \A i \in DOMAIN KeyConfig[g] :
       /\ DOMAIN KeyConfig[g] = 1..Len(KeyConfig[g]) /\ Len(KeyConfig[g]) \in Nat
       /\ LET keys == KeyConfig[g][i].keys
          IN  /\ DOMAIN keys = 1..Len(keys) /\ Len(keys) \in Nat
              /\ \A k \in DOMAIN keys : IsAction(keys[k][2])
  /\ "" \in DOMAIN MenuItems /\ DOMAIN MenuItems \cap {"esc", "enter", "down", "up"} = {}
  /\ \A q \in DOMAIN MenuItems :
       /\ DOMAIN MenuItems[q] = 1..Len(MenuItems[q]) /\ Len(MenuItems[q]) \in Nat
       /\ \A k \in DOMAIN MenuItems[q] : IsAction(MenuItems[q][k])
  /\ \A click \in Clicks : click.row \in Nat

Sub(a, b) == IF a > b THEN a - b ELSE 0
\* A sequence without the tasks that have this id (`retain`), and those that have
\* a terminal; in a form that can be reasoned about.
Without(tasks, id) ==
  FoldLeft(LAMBDA kept, t : IF t.id = id THEN kept ELSE Append(kept, t), <<>>, tasks)
WithTerminal(tasks) == FoldLeft(LAMBDA kept, t : IF t.vt THEN Append(kept, t) ELSE kept, <<>>, tasks)
NotObserved == <<>>

-----------------------------------------------------------------------------
(* The keymap: the built-in bindings, changed by the layers of configuration, *)
(* by groups "tasks", "term" and "copy".                                      *)

\* A map is kept in the order of insertion, as pairs of a key and an action.
Put(map, key, action) ==
  LET at == {i \in DOMAIN map : map[i][1] = key}
  IN  IF at = {} THEN Append(map, <<key, action>>) ELSE [map EXCEPT ![Min(at)] = <<key, action>>]
Unbind(map, key) == FoldLeft(LAMBDA kept, x : IF x[1] = key THEN kept ELSE Append(kept, x), <<>>, map)
Layered(bound, layer) ==
  FoldLeft(LAMBDA map, x : IF x[2] = <<"null">> THEN Unbind(map, x[1]) ELSE Put(map, x[1], x[2]),
           IF layer.reset THEN <<>> ELSE bound, layer.keys)
Keys(keys, action) == [i \in DOMAIN keys |-> <<keys[i], action>>]
DefaultKeys ==
  LET focus == << <<"C-a", <<"toggle-focus">>>> >>
      scroll == << <<"C-y", <<"scroll-up", "3 lines">>>>, <<"C-e", <<"scroll-down", "3 lines">>>>,
                   <<"C-u", <<"scroll-up", "half">>>>, <<"C-d", <<"scroll-down", "half">>>>,
                   <<"PageUp", <<"scroll-up", "screen">>>>, <<"PageDown", <<"scroll-down", "screen">>>> >>
      digits == <<"M-1", "M-2", "M-3", "M-4", "M-5", "M-6", "M-7", "M-8">>
  IN  [term |-> focus,
       tasks |-> focus \o
         << <<"q", <<"quit">>>>, <<"Q", <<"force-quit">>>>, <<"p", <<"show-commands-menu">>>> >>
         \o Keys(<<"Down", "j">>, <<"next-task">>) \o Keys(<<"Up", "k">>, <<"prev-task">>) \o
         << <<"s", <<"start">>>>, <<"x", <<"stop">>>>, <<"X", <<"kill">>>>, <<"r", <<"restart">>>>,
            <<"R", <<"force-restart">>>>, <<"e", <<"show-rename-task">>>>, <<"C-c", <<"send-key", "C-c">>>>,
            <<"a", <<"show-add-task">>>>, <<"C", <<"duplicate">>>>, <<"d", <<"show-remove-task">>>> >>
         \o scroll \o
         << <<"z", <<"zoom">>>>, <<"?", <<"toggle-keymap-window">>>>, <<"v", <<"copy-mode-enter">>>> >>
         \o [i \in DOMAIN digits |-> <<digits[i], <<"select-task", i - 1>>>>],
       copy |-> focus \o scroll \o
         << <<"Esc", <<"copy-mode-leave">>>>, <<"v", <<"copy-mode-end">>>>, <<"c", <<"copy-mode-copy">>>> >>
         \o Keys(<<"Up", "k">>, <<"copy-mode-move", "up">>) \o Keys(<<"Right", "l">>, <<"copy-mode-move", "right">>)
         \o Keys(<<"Down", "j">>, <<"copy-mode-move", "down">>) \o Keys(<<"Left", "h">>, <<"copy-mode-move", "left">>)]
BoundIn(group) == FoldLeft(Layered, DefaultKeys[group], KeyConfig[group])
With(f, x, y) == [z \in DOMAIN f \cup {x} |-> IF z = x THEN y ELSE f[z]]
Bind(map, x) ==
  [by_key |-> With(map.by_key, x[1], x[2]), by_action |-> With(map.by_action, x[2], x[1])]
Unbound == [by_key |-> << >>, by_action |-> << >>]
KeymapFrom(group) == FoldLeft(Bind, Unbound, BoundIn(group))
Keymap == [g \in Groups |-> KeymapFrom(g)]

-----------------------------------------------------------------------------
(* A list: what is selected, and the part of it that shows.                   *)

Clamp(l) ==
  LET sel == Min({l.selected, Sub(l.count, 1)})
      top == Max({Min({l.top, sel}), Sub(sel + 1, l.height)})
  IN  [l EXCEPT !.selected = sel, !.top = Min({top, Sub(l.count, l.height)})]
Fit(l, height, count) == Clamp([l EXCEPT !.height = height, !.count = count])
SelectAt(l, index, count) == Clamp([l EXCEPT !.selected = index, !.count = count])
NewList == [selected |-> 0, top |-> 0, count |-> 0, height |-> 0]
IndexAt(l, row) == IF row < l.height /\ l.top + row < l.count THEN {l.top + row} ELSE {}

Select(v, index) == [v EXCEPT !.list = SelectAt(@, index, Len(v.tasks))]
HasCurrent(v) == v.list.selected < Len(v.tasks)
CurrentId(v) == v.tasks[v.list.selected + 1].id
Shown(v) == {v.tasks[i].id : i \in DOMAIN v.tasks}
WithTask(v, id, f(_)) ==
  [v EXCEPT !.tasks = [i \in DOMAIN @ |-> IF @[i].id = id THEN f(@[i]) ELSE @[i]]]

\* The group of keys that are in force.
KeymapGroup(v) ==
  IF v.scope = "tasks" THEN "tasks"
  ELSE IF HasCurrent(v) /\ v.tasks[v.list.selected + 1].surface THEN "copy" ELSE "term"

\* The part of the console's screen that shows a task, and the rows of the list.
TopHeight(v) == Sub(v.size[2], IF v.scope = "zoom" \/ v.hide THEN 0 ELSE 3)
TermArea(v) ==
  LET zoom == v.scope = "zoom"
  IN  <<Sub(v.size[1] - (IF zoom THEN 0 ELSE Min({SidebarWidth, v.size[1]})), 2),
        Sub(TopHeight(v) - (IF zoom THEN Min({1, TopHeight(v)}) ELSE 0), 2)>>
ListHeight(v) == Sub(TopHeight(v), 2)

-----------------------------------------------------------------------------
(* The console and what it sends: [v, o, n, a], the view, the tasks outside,  *)
(* the notes on their way back, and what is asked of the kernel.              *)

Alive(o) == {o.tasks[i].id : i \in DOMAIN o.tasks}
HasViewers(v) == DOMAIN v.viewers # {}
Tell(x, id, size) == [x EXCEPT !.o.watched[id] = size]
Note(id, on) == [id |-> id, on |-> on, stale |-> FALSE]
\* A screen that is attached to tells of its copy mode, a removed one nothing.
\* Abstracted: it hears of the console at once; in the code through the kernel and
\* its own mailbox (app.rs:304), in the order sent; only what it tells takes time.
Observe(x, id) ==
  IF id \notin Alive(x.o) THEN x
  ELSE [Tell(x, id, TermArea(x.v)) EXCEPT
          !.n = IF id \in x.o.copying THEN Append(@, Note(id, TRUE)) ELSE @]
ObserveAll(x) == FoldLeft(LAMBDA y, t : Observe(y, t.id), x, x.v.tasks)
\* (History: a note on its way back is from then on a stale one.)
UnobserveAll(x) ==
  [x EXCEPT !.v.tasks = [i \in DOMAIN @ |-> [@[i] EXCEPT !.surface = FALSE]],
            !.v.misled = {},
            !.n = [i \in DOMAIN @ |-> [@[i] EXCEPT !.stale = TRUE]],
            !.o.watched = [id \in DOMAIN @ |-> IF id \in Shown(x.v) THEN NotObserved ELSE @[id]]]
\* The loop starts with a look at the layout.  (History: `missed`, the layout had
\* changed in between and is as it was.)
SizeSent(x) ==
  LET area == TermArea(x.v)
  IN  IF area = x.v.term THEN [x EXCEPT !.v.missed = @ \/ x.v.wavered, !.v.wavered = FALSE]
      ELSE [x EXCEPT !.v.term = area, !.v.missed = FALSE, !.v.wavered = FALSE,
              !.o.watched = [id \in DOMAIN @ |->
                 IF id \in Shown(x.v) /\ @[id] # NotObserved THEN area ELSE @[id]]]

\* The screen of the console takes the size of the smallest attachment.
Smallest(v, viewers) ==
  IF DOMAIN viewers = {} THEN v.size
  ELSE <<Max({1, Min({viewers[a][1] : a \in DOMAIN viewers})}),
         Max({1, Min({viewers[a][2] : a \in DOMAIN viewers})})>>
\* Mutant: the tasks are observed whether anything is attached or not.
Mutant_ApplyScreen(before, x) == IF ~before /\ HasViewers(x.v) THEN ObserveAll(x) ELSE x
ApplyScreen(before, x) ==
  CASE ~before /\ HasViewers(x.v) -> ObserveAll(x)
    [] before /\ ~HasViewers(x.v) -> UnobserveAll(x)
    [] OTHER -> x
WithViewers(x, viewers) ==
  ApplyScreen(HasViewers(x.v),
    [x EXCEPT !.v.viewers = viewers, !.v.size = Smallest(x.v, viewers)])
Attach(x, who, size) == WithViewers(x, With(x.v.viewers, who, size))
Detach(x, who) == WithViewers(x, [a \in DOMAIN x.v.viewers \ {who} |-> x.v.viewers[a]])
Resized(x, who, size) ==
  WithViewers(x, [a \in DOMAIN x.v.viewers |-> IF a = who THEN size ELSE x.v.viewers[a]])

Ask(x, command) == [x EXCEPT !.a = Append(@, command)]
AskCurrent(x, verb) == IF HasCurrent(x.v) THEN Ask(x, <<verb, CurrentId(x.v)>>) ELSE x
AskAll(x, verb) == FoldLeft(LAMBDA y, t : Ask(y, <<verb, t.id>>), x, x.v.tasks)
Open(x, modal) == [x EXCEPT !.v.modal = modal]
Close(x) == Open(x, [kind |-> "none"])
\* A task goes into copy mode, or out of it; who observes its screen is told.
CopyMode(x, id, on) ==
  IF id \notin Alive(x.o) \/ (id \in x.o.copying) = on THEN x
  ELSE [x EXCEPT !.o.copying = IF on THEN @ \cup {id} ELSE @ \ {id},
                 !.n = IF x.o.watched[id] = NotObserved THEN @ ELSE Append(@, Note(id, on))]
CopyCurrent(x, on) == IF HasCurrent(x.v) THEN CopyMode(x, CurrentId(x.v), on) ELSE x

TaskVerbs == {"start", "stop", "kill", "veto", "restart", "force-restart", "duplicate", "rename"}
\* Every action but a batch; `who` typed it, or nobody did (<<>>).
Simple(x, who, action) ==
  LET v == x.v
      n == Len(v.tasks)
      to == action[1]
  IN  CASE to = "quit-or-ask" -> Open(x, [kind |-> "quit"])
        [] to = "quit" -> IF who # <<>> THEN Detach(x, who[1])
                          ELSE [Ask(x, <<"quit">>) EXCEPT !.v.quitting = TRUE]
        [] to = "force-quit" -> [Ask(Ask(x, <<"kill-all">>), <<"quit">>) EXCEPT !.v.quitting = TRUE]
        [] to = "command" -> Ask(x, Tail(action))
        [] to = "toggle-focus" -> [x EXCEPT !.v.scope = IF @ = "tasks" THEN "term" ELSE "tasks"]
        [] to = "focus-tasks" -> [x EXCEPT !.v.scope = "tasks"]
        [] to = "focus-term" -> [x EXCEPT !.v.scope = "term"]
        [] to = "zoom" -> [x EXCEPT !.v.scope = "zoom"]
        [] to = "show-commands-menu" -> Open(x, [kind |-> "menu", query |-> "", list |-> NewList])
        [] to = "close-current-modal" -> Close(x)
        [] to = "toggle-keymap-window" -> [x EXCEPT !.v.hide = ~@]
        [] to = "next-task" -> IF n = 0 THEN x ELSE [x EXCEPT !.v = Select(v, (v.list.selected + 1) % n)]
        [] to = "prev-task" -> IF n = 0 THEN x ELSE [x EXCEPT !.v = Select(v, (v.list.selected + n - 1) % n)]
        [] to = "select-task" -> [x EXCEPT !.v = Select(v, action[2])]
        [] to \in TaskVerbs -> AskCurrent(x, to)
        [] to \in {"restart-all", "force-restart-all"} -> AskAll(x, to)
        [] to = "show-add-task" -> Open(x, [kind |-> "add"])
        [] to = "add-task" -> Ask(x, <<"add">>)
        [] to = "show-rename-task" -> Open(x, [kind |-> "rename"])
        [] to = "show-remove-task" ->
             IF HasCurrent(v) /\ ~v.tasks[v.list.selected + 1].up
             THEN Open(x, [kind |-> "remove", id |-> CurrentId(v)]) ELSE x
        [] to = "copy-mode-enter" ->
             CopyCurrent(IF HasCurrent(v) THEN [x EXCEPT !.v.scope = "term"] ELSE x, TRUE)
        [] to \in {"copy-mode-leave", "copy-mode-copy"} -> CopyCurrent(x, FALSE)
        \* Scrolling, the cursor of copy mode, a key for the process.
        [] OTHER -> x
Act(x, who, action) ==
  FoldLeft(LAMBDA y, a : Simple(y, who, a), x, IF action[1] = "batch" THEN Tail(action) ELSE <<action>>)

\* Dialogs take every key while they are open.
QuitKey(x, who, key) ==
  CASE key \in {"esc", "n"} -> Close(x)
    [] key = "e" -> Act(Close(x), <<who>>, <<"command", "quit">>)
    [] key = "d" -> Detach(Close(x), who)
    [] OTHER -> x
RemoveKey(x, who, key) ==
  CASE key \in {"esc", "n"} -> Close(x)
    [] key = "y" -> Act(Close(x), <<who>>, <<"command", "remove", x.v.modal.id>>)
    [] OTHER -> x
AddKey(x, who, key) ==
  CASE key = "esc" -> Close(x)
    [] key = "enter" -> Act(Close(x), <<who>>, <<"add-task">>)
    [] OTHER -> x
RenameKey(x, who, key) ==
  CASE key = "esc" -> Close(x)
    [] key = "enter" -> Act(Close(x), <<who>>, <<"rename">>)
    [] OTHER -> x
MenuKey(x, who, key) ==
  LET list == x.v.modal.list
      items == MenuItems[x.v.modal.query]
      n == Len(items)
      moved(by) == IF n = 0 THEN x
                   ELSE [x EXCEPT !.v.modal.list = SelectAt(@, (list.selected + n + by) % n, n)]
  IN  CASE key = "esc" -> Close(x)
        [] key = "enter" ->
             IF list.selected < n THEN Act(Close(x), <<who>>, items[list.selected + 1]) ELSE Close(x)
        [] key = "down" -> moved(1)
        [] key = "up" -> moved(-1)
        [] key \in DOMAIN MenuItems -> [x EXCEPT !.v.modal.query = key]
        [] OTHER -> x
Dialog(x, who, key) ==
  CASE x.v.modal.kind = "quit" -> QuitKey(x, who, key)
    [] x.v.modal.kind = "remove" -> RemoveKey(x, who, key)
    [] x.v.modal.kind = "add" -> AddKey(x, who, key)
    [] x.v.modal.kind = "rename" -> RenameKey(x, who, key)
    [] x.v.modal.kind = "menu" -> MenuKey(x, who, key)
Typed(x, who, key) ==
  LET group == KeymapGroup(x.v)
  IN  IF x.v.modal.kind # "none" THEN Dialog(x, who, key)
      ELSE IF key \in DOMAIN Keymap[group].by_key THEN Act(x, <<who>>, Keymap[group].by_key[key])
      ELSE x   \* for the process, or for nobody

\* The mouse: on the part that shows a task, or on a row of the list.
Clicked(x, click) ==
  LET v == x.v
      row == click.row
      there == row < ListHeight(v) /\ v.scope # "zoom"
      w == IF click.kind = "down" /\ v.scope = "term" THEN [v EXCEPT !.scope = "tasks"] ELSE v
  IN  IF v.modal.kind # "none" THEN x
      ELSE IF click.on = "term"
           THEN IF click.kind = "down" /\ v.scope = "tasks" THEN [x EXCEPT !.v.scope = "term"] ELSE x
      ELSE IF ~there THEN x
      ELSE CASE click.kind = "down" ->
                  [x EXCEPT !.v = IF IndexAt(w.list, row) = {} THEN w
                                  ELSE Select(w, Min(IndexAt(w.list, row)))]
             [] click.kind = "wheel-down" -> [x EXCEPT !.v = Select(v, v.list.selected + 1)]
             [] click.kind = "wheel-up" -> [x EXCEPT !.v = Select(v, Sub(v.list.selected, 1))]
             [] OTHER -> x
-----------------------------------------------------------------------------
(* What the kernel says.                                                     *)

Added(x, id, up, vt) ==
  IF ~vt THEN x
  ELSE LET y == [x EXCEPT !.v.tasks = Append(@, [id |-> id, up |-> up, surface |-> FALSE])]
       IN  IF HasViewers(x.v) THEN Observe(y, id) ELSE y
\* Mutant: the selection moves up also when the task under it goes.
Mutant_RemovedAt(index, selected) == IF index <= selected THEN Sub(selected, 1) ELSE selected
\* The tasks above the selection move it up.
RemovedAt(index, selected) == IF index < selected THEN selected - 1 ELSE selected
Removed(x, id) ==
  LET at == {i \in DOMAIN x.v.tasks : x.v.tasks[i].id = id}
      rest == [x.v EXCEPT !.tasks = Without(@, id)]
      sel == x.v.list.selected
  IN  [x EXCEPT !.v = Select(rest, IF at = {} THEN sel ELSE RemovedAt(Min(at) - 1, sel))]
StateChanged(x, id, up) == [x EXCEPT !.v = WithTask(@, id, LAMBDA t : [t EXCEPT !.up = up])]

HandleTaskCmd(x, m) ==
  CASE m.is = "added" -> Added(x, m.id, m.up, m.vt)
    [] m.is = "removed" -> Removed(x, m.id)
    [] m.is = "state" -> StateChanged(x, m.id, m.up)
    [] m.is = "attach" -> Attach(x, m.who, m.size)
    [] m.is = "detach" -> Detach(x, m.who)
    [] m.is = "resize" -> Resized(x, m.who, m.size)
    [] m.is = "key" -> Typed(x, m.who, m.key)
    [] m.is = "mouse" -> Clicked(x, m.click)
    [] m.is = "action" -> Act(x, <<>>, m.action)
    [] m.is = "stop" -> [x EXCEPT !.v.stop = TRUE]
HandleNote(x, note) ==
  LET shown == WithTask(x.v, note.id, LAMBDA t : [t EXCEPT !.surface = note.on])
      misled == IF note.stale /\ note.on THEN x.v.misled \cup {note.id} ELSE x.v.misled \ {note.id}
  IN  [x EXCEPT !.v = [shown EXCEPT !.misled = misled]]

\* What is selected is brought into sight, while somebody looks.
Render(x) ==
  LET menu(m) == [m EXCEPT !.list = Fit(@, Sub(Min({30, x.v.size[2]}), 4), Len(MenuItems[m.query]))]
  IN  IF ~HasViewers(x.v) THEN x
      ELSE [x EXCEPT !.v.list = Fit(@, ListHeight(x.v), Len(x.v.tasks)),
                     !.v.modal = IF @.kind = "menu" THEN menu(@) ELSE @]

-----------------------------------------------------------------------------
ConsoleInit ==
  LET ids == SubSeq(TaskIds, 1, AtStart)
      start == [tasks |-> [i \in DOMAIN ids |-> [id |-> ids[i], up |-> FALSE, surface |-> FALSE]],
                list |-> NewList, scope |-> "tasks", hide |-> FALSE,
                modal |-> [kind |-> "none"], quitting |-> FALSE, stop |-> FALSE,
                viewers |-> [a \in {} |-> FirstSize], size |-> FirstSize, term |-> <<0, 0>>,
                from |-> "inbox", left |-> 0,
                wavered |-> FALSE, missed |-> FALSE, misled |-> {}]
  IN  /\ view = [start EXCEPT !.term = TermArea(start)]
      /\ inbox = <<>> /\ notes = <<>> /\ asked = <<>> /\ happened = 0
      /\ outside = [tasks |-> [i \in DOMAIN ids |-> [id |-> ids[i], up |-> FALSE, vt |-> TRUE]],
                    coming |-> SubSeq(TaskIds, AtStart + 1, Len(TaskIds)), copying |-> {}, attached |-> {},
                    watched |-> [id \in ToSet(TaskIds) |-> NotObserved]]

\* The next message of what was received together; after the last of them the
\* console draws itself and looks at its layout.
Now == [v |-> view, o |-> outside, n |-> notes, a |-> asked]
Becomes(x) == view' = x.v /\ outside' = x.o /\ notes' = x.n /\ asked' = x.a /\ UNCHANGED happened
Done(x, from, left) ==
  [x EXCEPT !.v.from = from, !.v.left = left, !.v.wavered = @ \/ TermArea(x.v) # TermArea(view)]
Drawn(x) == IF x.v.stop THEN x ELSE SizeSent(x)
Turn(from, queue) ==
  /\ queue # <<>>
  /\ view.left > 0 => view.from = from
  /\ view.left = 0 => ~view.stop
Left(queue) == (IF view.left > 0 THEN view.left ELSE Len(queue)) - 1
Ends(x, from, queue) ==
  \E y \in {Done(x, from, Left(queue))} : Becomes(IF y.v.left > 0 THEN y ELSE Drawn(Render(y)))
HandlesTaskCmd ==
  /\ Turn("inbox", inbox)
  /\ Ends(HandleTaskCmd(Now, Head(inbox)), "inbox", inbox)
  /\ inbox' = Tail(inbox)
HandlesNote ==
  /\ Turn("notes", notes)
  /\ Ends(HandleNote([Now EXCEPT !.n = Tail(@)], Head(notes)), "notes", notes)
  /\ UNCHANGED inbox

-----------------------------------------------------------------------------
(* Outside: the kernel and the attachments.                                  *)

Comes(vt) ==
  /\ outside.coming # <<>>
  /\ LET id == Head(outside.coming)
     IN  /\ outside' = [outside EXCEPT !.coming = Tail(@),
                          !.tasks = Append(@, [id |-> id, up |-> FALSE, vt |-> vt])]
         /\ inbox' = Append(inbox, [is |-> "added", id |-> id, up |-> FALSE, vt |-> vt])
  /\ UNCHANGED notes
Goes(id) ==
  /\ id \in Alive(outside)
  /\ outside' = [outside EXCEPT !.tasks = Without(@, id),
                                !.copying = @ \ {id}, !.watched[id] = NotObserved]
  /\ inbox' = Append(inbox, [is |-> "removed", id |-> id])
  /\ UNCHANGED notes
Turns(id, up) ==
  /\ \E i \in DOMAIN outside.tasks :
       /\ outside.tasks[i].id = id /\ outside.tasks[i].up # up
       /\ outside' = [outside EXCEPT !.tasks[i].up = up]
  /\ inbox' = Append(inbox, [is |-> "state", id |-> id, up |-> up])
  /\ UNCHANGED notes
\* Somebody attached to the task itself uses its copy mode.
Copies(id, on) ==
  /\ id \in Alive(outside) /\ (id \in outside.copying) # on
  /\ LET x == CopyMode([v |-> view, o |-> outside, n |-> notes, a |-> asked], id, on)
     IN  outside' = x.o /\ notes' = x.n
  /\ UNCHANGED inbox

Sends(m) == inbox' = Append(inbox, m) /\ UNCHANGED notes
AttachmentActs(a) ==
  \/ /\ a \notin outside.attached
     /\ outside' = [outside EXCEPT !.attached = @ \cup {a}]
     /\ \E size \in TermSizes : Sends([is |-> "attach", who |-> a, size |-> size])
  \/ /\ a \in outside.attached
     /\ outside' = [outside EXCEPT !.attached = @ \ {a}]
     /\ Sends([is |-> "detach", who |-> a])
  \/ /\ a \in outside.attached /\ UNCHANGED outside
     /\ \/ \E size \in TermSizes : Sends([is |-> "resize", who |-> a, size |-> size])
        \/ \E key \in KeysTyped : Sends([is |-> "key", who |-> a, key |-> key])
        \/ \E click \in Clicks : Sends([is |-> "mouse", click |-> click])

\* The kernel does what it is asked for, in turn.
KernelDoes ==
  /\ asked # <<>> /\ asked' = Tail(asked) /\ UNCHANGED <<view, happened>>
  /\ LET verb == asked[1][1]
         ups == CASE verb \in {"start", "restart", "force-restart", "restart-all"} -> {TRUE}
                  [] verb \in {"stop", "kill", "veto"} -> {FALSE}
                  [] OTHER -> {}
     IN  \/ verb \in {"add", "duplicate"} /\ Comes(TRUE)
         \/ verb = "remove" /\ Goes(asked[1][2])
         \/ \E up \in ups : Turns(asked[1][2], up)
         \/ UNCHANGED <<outside, inbox, notes>>   \* it was so already, or refused

Happens ==
  /\ happened < MaxHappenings /\ happened' = happened + 1 /\ UNCHANGED <<view, asked>>
  /\ \/ \E vt \in BOOLEAN : Comes(vt)
     \/ \E id \in Alive(outside) : Goes(id) \/ \E on \in BOOLEAN : Turns(id, on) \/ Copies(id, on)
     \/ \E a \in Attachments : AttachmentActs(a)
     \/ ~view.stop /\ Sends([is |-> "stop"]) /\ UNCHANGED outside
     \/ Sends([is |-> "action", action |-> <<"quit">>]) /\ UNCHANGED outside

ConsoleNext == HandlesTaskCmd \/ HandlesNote \/ KernelDoes \/ Happens

-----------------------------------------------------------------------------
(* Properties.                                                               *)

\* What the kernel says of tasks never moves the selection from the task it is
\* on: a key that is typed next acts on the task that was seen selected.  When
\* that task goes the one below it is selected, or the last one.
SelectionKept ==
  HasCurrent(view) /\ inbox # <<>> /\ Head(inbox).is \in {"added", "removed", "state"}
    => IF CurrentId(view) \in Shown(view') THEN CurrentId(view') = CurrentId(view)
       ELSE view'.tasks # <<>> =>
              view'.list.selected = Min({view.list.selected, Len(view'.tasks) - 1})
SelectionSticks == [][SelectionKept]_consoleVars

\* The key that a hint gives for an action does that action.
HintsWork ==
  \A g \in DOMAIN Keymap : \A a \in DOMAIN Keymap[g].by_action :
    Keymap[g].by_key[Keymap[g].by_action[a]] = a

\* When it has handled what it received, the console shows the tasks there are,
\* in the order they came and as they are; while somebody is attached, and only
\* then, it observes every one of them, at the size it shows them and with their
\* copy mode.  Excepted are what the code misses: a size that changed back while
\* messages received together were handled, and a note of copy mode that was on
\* its way when the last attachment left.  What is selected is in sight, and the
\* keys it hints at work.
ShowsWhatIs ==
  inbox = <<>> /\ notes = <<>> /\ view.left = 0 /\ ~view.stop =>
    /\ LET there == WithTerminal(outside.tasks)
       IN  /\ Len(view.tasks) = Len(there)
           /\ \A i \in DOMAIN there : there[i].id = view.tasks[i].id /\ there[i].up = view.tasks[i].up
    /\ \A id \in Shown(view) :
         /\ (outside.watched[id] # NotObserved) = HasViewers(view)
         /\ HasViewers(view) /\ ~view.missed => outside.watched[id] = TermArea(view)
    /\ \A i \in DOMAIN view.tasks :
         view.tasks[i].id \notin view.misled =>
           view.tasks[i].surface = (HasViewers(view) /\ view.tasks[i].id \in outside.copying)
    /\ HasViewers(view) /\ view.tasks # <<>> /\ view.list.height > 0 =>
         view.list.selected - view.list.top \in 0..view.list.height - 1
    /\ HintsWork
=============================================================================
