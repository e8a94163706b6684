# Verification of swayfx-animation

swayfx-animation is a tiling Wayland compositor: sway, with the effects of
swayfx, and animations and a scrollable layout of its own, written in C on top of
wlroots. This directory holds TLA+ models of its own logic, the TLC runs that check
them on small instances, and proofs that TLAPS checks for instances of every size.
Everything is translated from the source at this commit; `PROJECT.json` maps each
definition to the lines it stands for. Paths below are relative to the repository;
those without a directory are under `sway/`, and some are named by their file name only.

Contents

1. The system: components, state, operations, interactions
2. What is hard, and what correct means
3. The modules and how they correspond to the code
4. The runs: what they check, bounds, fairness
5. The proofs
6. Disagreements between the code and what it says
7. Behaviour met while modelling, that no property states
8. What is not modelled

## 1. The system

`sway` is one process with one thread around the event loop of libwayland. A
handler (a request of a client, an event of a device, a timer, a readable socket, an
idle callback) runs to completion before the next. There are no data races; what
goes wrong goes wrong *between* handlers, or because one handler calls, through
signals and helper functions, code that destroys what it is about to use. The other
programs (`swaybar`, `swaynag`, `swaymsg`) are clients with event loops of
their own (`common/loop.c`, `wl_display`).

| Component | State | Operations | Talks to |
|---|---|---|---|
| Transactions (`desktop/transaction.c`, `tree/node.c`) | dirty nodes, pending and queued transaction, per node `current`/`pending` state and `ntxnrefs`, timer, close animations | mark dirty, commit, configure, ready, time out, apply, destroy | views by configures and answers, the tree by node life cycle, the scene |
| Views (`tree/view.c`, `desktop/xdg_shell.c`, `desktop/xwayland.c`, `xdg_decoration.c`) | the surface, its container, serials, saved buffers | map, commit, unmap, destroy, requests for fullscreen, maximize, minimize, decoration | clients, tree, transactions |
| X11 windows (`desktop/xwayland.c`) | the view or unmanaged object of each window, its listeners, urgency timer | associate, map, unmap, change override-redirect, destroy, requests | X server, views, seat |
| Container tree (`tree/container.c`, `workspace.c`, `root.c`) | lists of children, parent and workspace pointers, fullscreen pointers, scratchpad | add, detach, wrap, flatten, split, swap, float, fullscreen, hide and show, destroy | commands, views, transactions |
| Arranging (`tree/arrange.c`, `commands/resize.c`, `gaps.c`) | fractions and boxes of tiled containers | arrange, resize grow, shrink and set | tree, transactions |
| Floating windows (`tree/container.c`, `commands/`, `seatop_resize_floating.c`) | box, maximized state and what it restores | float, maximize, move, resize, drag an edge, commit | tree, clients, outputs |
| Scrollable layout (`tree/workspace.c`, `arrange.c`, `commands/scroll.c`, `seatop_default.c`) | columns, camera target, animation, `interactive_resize` | scroll, follow the focus, pan, pinch, resize, drag | seat, transactions, animation manager |
| Outputs and workspaces (`tree/output.c`, `workspace.c`, `desktop/output.c`) | enabled and connected outputs, the workspaces of each, output priorities, fallback output | enable, disable, unplug, evacuate, restore, create, destroy, rename, move | backend, seat, commands, launcher |
| Output configuration (`config/output.c`, `desktop/output.c`) | stored configurations, the delayed modeset | merge, supersede, search a combination the backend takes, commit, finalize | backend, outputs, output managers |
| Input configuration (`config/input.c`, `config/seat.c`, `input/input-manager.c`, `libinput.c`) | configurations by identifier, type and wildcard; seats and attachments | store, validate, apply, attach, detach | devices, seats, outputs |
| Focus of a seat (`input/seat.c`) | focus stack, `workspace`, `has_focus`, focused layer surface | set focus, refocus on destruction | tree, workspaces, layer shell, lock, input method |
| Layer shell (`desktop/layer_shell.c`) | surfaces per output and layer, exclusive zones | map, commit, unmap, destroy, arrange | outputs, seats |
| Input methods (`input/text_input.c`), pointer constraints (`cursor.c`) | the text input that is entered, the pending focused surface; the active constraint | enable, commit, disable, focus, destroy | seats |
| Session lock (`lock.c`) | the lock, a cover per output, lock surfaces, focused surface | lock, unlock, abandon, new surface, new output | outputs, seats, idle inhibition |
| Seat operations (`input/seatop_*.c`) | what the pointer drags, its target, where it began | press, motion, release, `unref` | tree, focus |
| Cursor, touch, tablets, gestures (`input/cursor.c`, `tablet.c`) | buttons and fingers down, what stands for the pointer, the hide timer | button, touch, tip, tool button, gesture | seat operations |
| Keyboards (`input/keyboard.c`, `commands/bind.c`) | pressed keys, groups, held and repeating binding | key, modifiers, repeat, group enter and leave, reload | commands, seats |
| Launcher contexts (`desktop/launcher.c`) | the node a launched program was started from, a fallback name | create, follow, resolve, expire | workspaces, outputs, views |
| IPC server (`ipc-server.c`) | clients, a partial request each, write buffers, subscriptions | accept, read, handle, reply, send events, write, disconnect | commands, everything that emits events |
| swaybar (`swaybar/`, `common/loop.c`) | loop descriptors and timers, outputs, buffers, configuration, status command | IPC events, status input, frame callbacks, hotplug | IPC server, status command |
| swaybar's tray (`swaybar/tray/`) | watchers, hosts, items | register, own and lose the watcher's name, vanish | D-Bus |
| Commands, configuration, animation manager, idle inhibition, swaynag, swaymsg, rendering, JSON | | | see section 8 |

How they interact: every change of the tree marks nodes dirty and ends in
`transaction_commit_dirty`; destruction of a node emits `node.events.destroy`, to
which the seat's focus stack, launcher contexts and others listen and, *inside that
signal*, change the focus, which may destroy further workspaces; a node that is
out of the tree is freed only when no transaction refers to it; every visible
change is told to IPC clients, which may disconnect one of them at once; a seat
operation keeps raw pointers into the tree between two motions, which
`seatop_unref` drops when the container is unmapped.

## 2. What is hard, and what correct means

`PROJECT.json` lists the hazards, each at the line where it bites. In short:

- *Transactions.* Clients answer late, out of order or never; windows are unmapped,
  mapped again and closed with an animation while transactions refer to their
  containers. Correct: references balance, nothing dangles or leaks, the queue is
  never stuck, and what is drawn is a whole layout, never a mixture of two.
- *The tree and drags.* Some forty functions move containers between lists and fix the
  pointers by hand, and drags drop containers where the tree may have changed. Correct: a
  container is where its pointers say, trees stay on one workspace, splits are not left
  empty, no window is lost.
- *Boxes.* Rounded sizes are resized over and over; boxes are saved and restored while
  clients and outputs change; the camera follows focus, user, gestures and animation.
  Correct: tiles fill their parent, a resize moves the edge it names by what it says,
  the opposite edge of a drag stays, un-maximizing restores, the focus is in view.
- *Outputs and workspaces.* Outputs come and go; evacuation destroys workspaces, and so
  changes the focus, in the middle of its loop. Correct: each output shows a workspace,
  workspaces are on enabled outputs and come back, the seat never keeps a workspace
  that is gone, nothing empty is left behind, and hot-plugging does not steal the focus.
- *Settings.* Configurations for a name, an identifier, a type or all merge in the order
  given, before and after the device appears. Correct: the last word on each counts, and
  the search of a mode finds what exists.
- *Input.* Presses of several devices overlap, keyboards join and leave groups with keys
  down, a reload frees bindings that repeat. Correct: everything pressed is released for
  whom it was pressed, nothing is dragged by nobody, no timer runs a freed binding.
- *Focus and lock.* Layers, menus, input methods, constraints and lock surfaces come and
  go in any order. Correct: the keyboard is where the seat says it is, what follows it
  agrees, a locked session is covered until its own client ends it.
- *IPC.* Requests arrive in pieces, sockets take part of a message, sending may
  disconnect the client it is sent to. Correct: whole messages, replies in order,
  events to every listener, bounded buffers, no request unanswered.
- *swaybar.* Callbacks add and remove what the loop walks; layer surfaces are destroyed
  with frames outstanding; bars take over a watcher's name from one another. Correct:
  what is visible has a surface, an update is always on its way, items are shown.

## 3. The modules

The C functions are operators from a state (a record) to a state, composed as the C
code composes them; a handler is one action that applies the composition to the
variable. So an action is the whole handler, and the order of calls in it is the order
of the code. Operators whose name begins with `Slip` are plausible mistakes in the
definition that follows them; no specification uses them, and `PROJECT.json` pairs each
with a property that notices it. The header of each module says what it abstracts.

### Transactions, tree, workspaces

**`Transaction`** models `transaction.c` and the life of containers and views.
The state record holds, per node, its life (`unused`, `live`, `destroying`, `closing`,
`freed`), pending and current geometry and `refs` (`ntxnrefs`); the dirty set; the
pending and queued transactions with their nodes, states, serials and the count of
configures still awaited; which views still point to an instruction (`armed`); which
show a saved buffer. Actions are the map, commit, unmap and destroy handlers of both
shells, decoration, layout changes, the timeout and the close animation's timer. A
geometry is a position and a size out of small sets. `acked` is the client's side: the
newest serial it has acknowledged.
**`AtomicLayout`** is the abstract specification: three layouts, *wanted*, *target*
(what clients were asked to draw) and *shown*; *shown* changes only to the whole of the
target or of what is wanted. `Transaction` implements it with wanted = current
overlaid with queued overlaid with pending, and so on.
`debug.noatomic` and `debug.txn_wait` are left out, as are subsurfaces and the scene.

**`ContainerTree`** and **`TreeCommands`** model the operations of the tree and the
handlers that use them: map and unmap, layout, split, floating, fullscreen, maximize,
minimize, scratchpad, swap, move, and the requests of clients and task bars. Lists of siblings
are sets: the order of siblings, directions and sizes are abstracted, a neighbour is any
sibling, and what the focus stack would name is any container it could name. Each
workspace is the visible one of its output.

**`SeatOps`** extends them with the pointer: a press on a container begins a move or a
resize, which keeps raw pointers (`op.con`, `op.target`, `op.held`) into the tree while
every handler of `TreeCommands` goes on; motion chooses a target among all that is
visible, and the drop (`Drop`) moves, wraps or swaps.

**`Workspaces`** and **`WorkspaceHandlers`** model outputs, workspaces, one seat's
focus stack and launcher contexts. A window is a container without a parent. The
focus functions are translated with their recursion: `seat_set_focus`,
`seat_set_focus_layer`, `seat_set_workspace_focus`, `workspace_consider_destroy` and
`handle_seat_node_destroy` call one another, and the model follows the calls (where
the code cannot recurse further because `seat->workspace` was just set, the shorter
`Discard` stands for the call). All workspaces are numbered, so that the sorted list is a set.
`root_find_workspace` returns any of two workspaces of one name. One layer surface, one
launch at a time; steps of a modeset for several outputs are one action per output.
`breach` marks a state in which a destroyed workspace was focused (section 7): what
follows cannot be told, and behaviours end there. `short` cuts off handlers that
need one more workspace object or name than the model has. Left out:
`workspace_auto_back_and_forth`, splits, the scratchpad, global fullscreen, several
seats.

### Boxes

**`Arranging`** shares the room of a workspace among tiled containers: fractions, gaps,
rounding, the last child that takes the rest, tabs and stacks, and `resize` in its
forms. Both axes go through the same operators, with the axis as a parameter. Fractions
are exact integers, of which only the ratios matter.
**`Floating`** is the box of one window through floating, maximizing, `resize`, `move`,
the drag of an edge or corner with and without a fixed ratio, commits of its client and
an output that changes size or place. The drag keeps its reference box and ratio as
`seatop_resize_floating.c` does.
**`ScrollLayout`** is the strip of columns: each has a width, the camera a target that a
transaction carries (`flight`) to the scene, where the animation takes the view
(`visual`) there in steps. Gestures, drags with edge scrolling and resizes are actions
of their own, as the seat operation that began decides who gets the gesture's end.

### Clients' surfaces and the keyboard

**`KeyboardFocus`** is one seat's `keyboard_state.focused_surface` and what follows it:
the stack of views, `focused_layer`, `has_exclusive_layer`, each layer surface's mode,
the surface that each text input has entered or, without an input method, waits for,
and the active pointer constraint. The handlers are the map, commit, unmap and destroy
of each kind of surface, focus by command and pointer, drags, and input methods coming
and going.
**`SessionLock`** models `lock.c`, with the outputs of `desktop/output.c` as far as
they matter to it (an output leaves the list before its scene layers go). wlroots destroys
the surfaces of a client before its lock; the model has the same order in separate steps.
The lock's focus overrides that of `KeyboardFocus`; the two are not composed.
**`Xwayland`** is the pool of `sway_xwayland_view` and `sway_xwayland_unmanaged`
objects. Each records which listeners it has hung on what, whether it is associated and
mapped, and its urgency timer; conversions pass a window from one to the other.

### Settings

**`OutputConfig`** keeps stored configurations as a list of records with unset fields,
as the code does; `MergeOutput`, `StoreOutputConfig` and `FindOutputConfig` follow
`merge_output_config`, `store_output_config` and `find_output_config`. The search is
the code's recursion: `Tries` is what the nested
`search_render_format`, `search_mode` and `search_adaptive_sync` try for an output, `NotLater`
their order, and `SearchOutput` takes the first with which the rest succeeds;
`SearchValidConfig` so goes through the outputs depth first. The backend accepts
settings whose cost stays within a budget: an abstraction of a link's bandwidth.
**`InputConfig`** is `store_input_config`, `store_seat_config` and what the input manager applies: lines are stored under
an identifier, a type or the wildcard, validated by compiling a keymap, and applied to the
devices that are there; a device that appears gets what is stored. Seats are created
on demand and take devices by attachment or as a fallback.

### Input

**`BindingChoice`** holds the two choice loops (keys and buttons, switches) as walks along
the list of bindings; **`Bindings`** the keyboards that use them. A *unit* is a group
or a lone virtual keyboard; wlroots' sending of keys on enter and leave of a group is
external. Each binding carries the number of the configuration it was read from; a
reload, which may run inside a binding, makes all references to earlier ones dangle.
**`Pointer`** is all that presses the pointer: the held buttons are the code's
`pressed_button_count`, the other sources emulate. The begun operation is its kind only.

### Clients

**`IpcServer`** models connections, `client->pending_*`, the write buffer and the
`writable` event source. A header is one unit, a payload a few; the buffer starts at 4
units and is limited to 8, for 128 bytes and 4 MB. The code doubles the
size before it checks the limit, and so does the model. Using a freed client is
modelled as its two outcomes: the program stops, or goes on.
**`Swaybar`** has the loop of `common/loop.c` with its array of descriptors and the index
that walks it (`at`), so that a callback may remove what comes next; per output the layer
surface, whether it is configured, its outstanding frames and what was drawn; and the
status command with its descriptors and process.
**`Tray`** is several bars on one bus that delivers in order: one owns the watcher's
name, each is a host that asks for the registered items and hears of new ones, in either
order. A bar that starts or ends and an owner that vanishes are actions. A call of a bar that
ended stays in the queue and is answered to nobody.

**`MC...`** modules give constants and symmetries to TLC; `TransactionProofs`,
`TreeLemmas`, `TreeProofs`, `FocusProofs`, `InputProofs`, `SettingsProofs`,
`IpcServerProofs` and `BarProofs` hold the proofs.

## 4. The runs

| Run | Asks | Instance |
|---|---|---|
| `transaction_remap` | references, dangling, leaks, stuck queue, atomic layout, and liveness | an xdg view mapped twice with two containers (one floating), an Xwayland view, one node without a view, 1 position, 2 sizes, 3 changes |
| `tree_shape` | lists and pointers, whole trees, empty splits, lost windows; what a drag holds, and the tree it leaves | 3 windows, 2 splits, 2 workspaces, 5 handlers, an operation of the pointer within 4 |
| `workspaces` | outputs, workspaces, focus, launches | 2 outputs found at start-up, 3 workspace objects and names, 1 window; 2 rare events |
| `layout` | boxes: tiled; floating; scrollable | 4 views in 2 splits, 2 areas, with and without gaps, 2 steps; 1 window, 2 screens, 4 moves; 3 columns, 3 inputs |
| `focus` | keyboard; lock; X11 windows | 2 views, 2 layers, an override-redirect window, 2 text inputs of 2 clients; 3 outputs, 3 lock surfaces, 3 locks; 2 windows, 2 owners |
| `settings` | outputs; input devices and seats | 2 outputs, 2 modes, 2 formats, 2 commands, 2 plugs; 2 devices of one type, 2 seats, 3 lines, 2 found |
| `input` | keyboards; pointer | 2 keyboards, 2 keys, 2 configuration files, 1 reload; 2 buttons, 1 finger, 2 gestures, 2 tool buttons |
| `ipc_server` | framing, order, writable source, buffers, events, answers | 2 clients, 3 requests, 1 event of the compositor |
| `bar` | swaybar; its trays | 1 output, 3 configurations; 2 bars, 1 application, 5 starts |
| `scroll_follow`, `seat_ops_cycle`, `text_inputs` | one claim of the sources each, refuted: section 6 | as `layout`; 2 windows and 2 splits; as `focus`, with both text inputs of one client |

`layout`, `focus`, `settings`, `input` and `bar` each put side by side modules that share no
variable: a behaviour is about one of them, chosen at the start (`about`, `way`), the
others' variables stay as they are, and their initial choices are fixed. So each is as
many independent checks as it has parts, and no interleaving between parts is claimed.

*Why the bounds are enough.* Transactions: at most two exist at a time, so two
containers of one view and one other node already give each of pending, queued and
dirty a different content, and three changes let a third transaction be merged into the
pending one behind a slow client; the theorems of section 5 then hold for any number.
Tree: five handlers reach a wrapped, moved, swapped or hidden tree of depth three; with
two windows the invariants were also checked to seven handlers (600 000 states).
`tree_shape` leaves out global fullscreen and requests that name an output: with the first a
window can be lost (six handlers) and lists and pointers disagree (seven); with the second
section 7 applies at once. That the fullscreen pointer of a workspace and the mode of its
container agree is not an invariant of this code, which is why it is not stated.
Drags: a press, a command that changes the tree below it, a motion and the drop.
Workspaces: two outputs make every choice of a target that depends on the
others (priority, fallback, first in the list, none left), two rare events (a lost
output, a layer surface taking the keyboard, a program launched) are both outputs lost, or
an output lost under a layer surface or a launch; commands, maps and re-plugging
are not bounded. With three outputs, enabling one may leave an empty workspace that nobody
sees (two outputs give theirs back to the third, which shows one of them), so that
`NoneLeftIdle` excepts the step that enables an output.
Boxes: the widths do not divide evenly, one area is too small for its children, and two
steps are a resize after a resize or a re-arranging. The screens differ in size and place, and four
moves are a maximize, a change below it, a commit and the restoring. Three
columns do not fit the strip; three inputs are a change of focus, a pan and a resize,
with transactions and the animation in any order between them.
Focus: two layers of one client, one exclusive and one that changes its mode, are one more than
the seat can focus. Lock: nothing is bounded but the number of objects, and the proofs
remove that bound. X11: two windows and two objects, so that a converted window reuses the
object of the other one. Settings: one output does what the other cannot, and a
budget for one high mode but not two forces the search to back up; three lines
are one for each of identifier, type and wildcard. Input: a repeating binding, a
release binding and a reload on the same keys, on keyboards that a reload regroups;
each source of presses once and buttons twice. IPC: three requests between two
clients fill a buffer of eight units, overflow it and are cut at any unit. Bars: five starts
let either bar take over the watcher twice.

*Fairness.* `transaction_remap` assumes only that the event loop's timers fire: the
200 ms timer of a queued transaction and the timer of a close animation. Nothing is
assumed of clients, which is the point of the timeout. `ipc_server` assumes that the event
loop serves sources that are ready; clients may leave or never read. Both are written as
`[]<>~guard \/ []<><<step>>_vars`, which is weak fairness with the guard in the place of
ENABLED. `bar` assumes that each bar's loop runs (`WF` of a started bar's
initialization and of handling the next message), and nothing of the application. The other runs have
safety properties only. Deadlock is not checked where the program may stop or the bound
ends behaviours.

*What they show.* All properties of the passing runs hold, and each is violated when the
definition named beside it in `PROJECT.json` is replaced by its mistaken form. Some are
conjunctions of named parts, which the modules comment one by one.

- `NodesLive`: references counted exactly, nothing dangles, nothing leaks. `QueueMoves`:
  the count of awaited configures is that of views that can still answer, with the timer
  running. `LayoutIsAtomic`: the refinement of `AtomicLayout`. `LayoutSettles`: no
  client can hold a layout or a node back.
- `WellPlaced` relates three copies of the same fact that every operation updates by hand;
  `NoLostWindow` and `ScratchpadHoldsTrees` that what is on no workspace can be shown
  again; `TreeSurvivesDrag` the same while a drag holds pointers.
- `WorkspacesConsistent`: every enabled output shows a workspace of its own, every
  workspace is on an enabled output, the seat's workspace is alive and that of its focus, and a
  launched program is never sent to something freed. `NoneLeftIdle`: each handler cleans
  up after itself. `HotplugRestores`: what hot-plugging promises and must not disturb.
- `TilesParent`, `ResizesExactly`, `OppositeEdgeStays`, `UnmaximizeRestores`,
  `CameraShowsFocus`, `EdgeHandoff`: boxes, after any sequence of roundings, limits,
  interruptions and animations.
- `KeyboardMatchesFocus` and `FollowersAgree`: the keyboard, layers, text inputs and
  constraints are copies of one fact. `LockHolds`, `LockedUntilUnlocked`: the lock.
  `OwnerFollowsWindow`, `NothingRunsForTheDead`: one owner for an X11 window, and no
  listener or timer of another.
- `OutputsObey`, `DevicesObey`: the last word on each counts, however configurations
  merge. `SearchIsComplete`: the search finds a combination whenever the reference
  definition, that enumerates them all, has one, and turns outputs off only if it must.
  `HotplugKeepsLit`: a new output does not darken the only one. `KeymapsCompile`: validation
  at storing is enough for what is in use.
- `KeysInStep`, `RepeatLive`: shortcut states, clients and timers through reloads and
  regrouping. `NoStuckOperation`, `InputReleased`: everything pressed is released.
- `ClientsInStep`, `EveryListenerHears`, `Answered`: the IPC protocol as a client sees it.
- `LayersFollow`, `UpdateOnItsWay`, `CommandInStep`: the bar's surfaces, frames and status
  command. `BarsAgree`, `ItemShown`: trays.

## 5. The proofs

*Transactions* (`TransactionProofs`), for any finite sets of
containers and other nodes, any views, positions and sizes, any bound, and both settings of close
animations, from the assumptions on the constants in `Transaction`: `NodesLive`
(theorem `NodesFreedInTime`), `QueueMoves` (`QueueNeverStuck`), and
`Implementation`, that the specification implements `AtomicLayout`. None of these is
inductive alone. The invariant `Returned` is what holds whenever control is back in the
event loop: typing; references counted exactly; every node out of the tree known to the
dirty list, a transaction or the close timer (`Kept`); dirty nodes alive (`DirtyLive`); the
queued transaction waiting for exactly the armed views, at least one, with its timer
(`Queue`, `Waiting`); a pending one only behind a queued one (`Behind`). Inside a handler
the last two are broken for a while (a commit creates a pending transaction before it
is promoted), so the lemmas about operators state the weaker `Kept` before
`transaction_commit_pending` and `Returned` after it; then there is one lemma per handler,
and the step is their disjunction. The refinement rests on lemmas on what commit,
promotion and apply do to the three layouts, each proved for the overlay `Over`.

*Container tree* (`TreeLemmas`, `TreeProofs`), for any windows, splits, workspaces and
layouts, from `ConstantsOK`, and without fullscreen on all outputs (`Usual`, the setting of `tree_shape`,
outside of which section 4 says what fails): `WellPlaced`
(`TreeStaysWellPlaced`), `NoLostWindow` (`NoWindowGetsLost`) and `ScratchpadHoldsTrees`
(`ScratchpadStaysSound`) under every command and request; and `TreeSurvivesDrag`
(`PointerKeepsTheTree`) and all of these with `NoContainerInsideItself`
(`PointerLosesNothing`) with the pointer in between. The invariant is `Good`: the
tree is `Fit` (`Linked`, `Together`, `Rooted`, `Living`, `Shelved`, which is what the
properties say and moreover that no container is inside itself and that nothing but live
containers is placed), no root is without a
workspace and the scratchpad both (`Lost`), no split is `Empty`, and the pointer minds live containers.
`Rooted` is what makes `Toplevel` and whole subtrees mean anything: everything that moves a tree
sets the workspace of all that is `Inside` it. Handlers break `Good` on the way, but most
operations do not break `Fit`, and those that do owe something definite: an emptied split to reap
(`ReapEmpty` walks up as long as it finds one), a container that is nowhere yet. So the
lemmas of `TreeLemmas` say of every operation, whatever it is
called with, that it is `Tame` (typed, and the pointer's operation ends rather than keep a dead container), and
of a fit tree that it leaves a fit one that has lost nothing (`Keeps`); those of `TreeProofs` say of a
handler that it `Handles`: where it asserts or follows a null pointer the step keeps the tree
as it was, else it `Keeps`. Walks over the children of a container are folds along any order of
them, with one lemma on what holds all along a walk each. For drags the code takes two things for
granted that nothing ensures, and `PlainDrags` states them as the hypothesis `[]PlainDrags`: a container is not
dropped into itself (section 6, 2), and what is dragged is not put into the scratchpad by a
swap meanwhile (section 7). Without the first `Rooted` fails, without the second `Shelved`. Both take longer than the
bounds of `tree_shape`, which holds without them.

*Session lock* (`FocusProofs`), for any sets of outputs, surfaces and locks:
`LockHolds` (`LockIsTight`) and `LockedUntilUnlocked` (`LockEnds`). The invariant adds to them that a
surface is on one output, which is covered and whose client lives (`SurfacesPlaced`), and how
`abandoned` relates to the client (`AbandonedLock`): without these a destroyed surface
could be another output's.

*Pointer* (`InputProofs`), for any buttons and gestures and any number of
buttons on a tablet tool: `NoStuckOperation` (`NothingStuck`) and `InputReleased`
(`AllReleased`). Neither is inductive: that
nothing is stuck when nothing is pressed follows from every source of presses
remembering what it began. The invariant `Sound` says so: `FingerStands` and
`Remembered` relate what a source remembers (`simTouch`, `simTip`, `emulated`) to what
is really down, `Tracked` the gesture and the timer to theirs, and `Owned` that an operation
always has a source whose release will end it. An event takes that away before it
dispatches, so lemmas on the pieces of a handler state `Settled`, which is `Sound` without
`Owned`, and each handler's lemma restores it. The assumption `OneFinger` is needed: with two
the code does get stuck (section 7, `cursor.c:437`).

*X11 windows* (`FocusProofs`), for any number of windows and objects, from
`XwaylandConstants` alone: `OwnerFollowsWindow` (`OwnersFollow`) and
`NothingRunsForTheDead` (`DeadAreQuiet`). Both are about pairs of a window and an
object, and neither rules out a second object that claims the same window. The
invariant `Kept` does: a window is `Gone` or its data names its owner (`Claimed`), and
an object is `Lone` (free, or kept for its container) or `Paired`, that is, what hangs on
its window is what it says of itself (`Hung`) and it is as far as the window is
(`Follows`). Two objects of one window would both be its only listener. Inside a handler
`Follows` fails, so lemmas on the pieces (unmap, dissociate, create, map) state
`Hung` and that nothing else changes (`Changed`, `Left`, `Taken`); `StaysKept`,
`TakeoverKept` and `GoneKept` then restore `Kept` for the three ways a handler ends: the
object stays, another takes the window over, or the window goes.

*Keyboard focus* (`FocusProofs`), for any surfaces, layers' modes and outputs, clients and
text inputs, from `SurfacesDistinct` and `LayersTyped`: `KeyboardMatchesFocus`
(`KeyboardWhereSeatSays`) and `FollowersAgree` (`FollowersFollow`). A change of focus
unfocuses, raises, enters and constrains in turn, a handler makes up to four such changes,
and a drag withholds all of them from the clients; so that what the properties say is false
in between. The invariant `FocusInv` has a part that every piece keeps, `Steady`: typing,
the desktop in the focus stack, the constraint's listener (`ConstraintHeld`), the text inputs
knowing one surface at most (`TextsKnown`: what makes the one that enters and leaves the only
candidate), and the focused layer mapped (`LayersSound`). The other three,
`KeyboardAgrees`, `ConstraintAgrees` and `TextsAgree`, are each kept or restored by a piece: the lemma on
`FocusNode` says which of them hold after it, given which held before, and those on
`LeaveLayer`, `EnterLayer`, `SetFocus` and `ArrangeLayers` follow; `FocusAnew`, with which a
drag ends, restores them from `Steady` alone. `LeastExists` (on sets of numbers, from the
well-foundedness of `<`) gives what is needed of the sequences.

*Keyboards and bindings* (`InputProofs`), for any keyboards, virtual or not, settings,
keys and configurations, from `Distinct`, `FiniteKeys` and `FilesAreRead`: `KeysInStep`
(`KeysFollow`) and `RepeatLive` (`RepeatsAreLive`). What the properties do not say and the
invariant `BindingsInv` adds: no client knows of a key while nothing has the focus
(`ClientKnown`; renewing the focus of nothing tells nobody), and the bindings in use are those
that the current file gives (`Steady`), which all carry its number (`ParsedKnown`), so
that whatever a search finds (`ActiveBindingType`) is alive. While a key is handled it is
pressed for its unit and not yet on its device: `Keyed` says what a handler may do to unit
and client, and `DeviceKeyFollows` puts the device back in step, whether others of the
group hold the key or not. Everything about groups (`Regroups`) moreover starts no repeat:
a reload stops all of them and then configures every keyboard anew, which only together
allows it to free the bindings. Keyboards are configured, and the keys of one that vanishes
released, one after the other: `FoldExists` and `Counting` say that such a walk is defined
and what holds all along it.

*Input devices and seats* (`SettingsProofs`), for any devices, types, seats, commands and
configuration files, from `InputConstants`: `DevicesObey` (`DevicesKeepObeying`) and
`KeymapsCompile` (`KeymapsKeepCompiling`). A device uses one of three configurations, a
command changes one and what lies below it, and which one the device uses may change with
it: `StoreUses` says that a covered device finds what was set on top of what it found
before, whichever of the three it was, if its configuration knows its type, and
`StoreSpares` that the others find the same. A toggle for many stores one configuration for
each device in turn, unchecked: `Toggles` holds all along that walk, and `EachUses` and
`EachGood` say what is left at the end whether the toggle is then accepted or refused. The
invariant `SettingsInv` also holds of what nobody has configured (`KeymapsFit`), forgets
what was said to devices that went (`Unsaid`), without which a configuration put on top of its
type's would break a promise, and has a fallback seat at all times (`HasFallback`), without
which a new device would move others to another seat and leave them with their old keymap.
The proof led to the exception in `LastCommandRules`: a toggle refused half way changes what is
stored for devices that are not told (section 7).

*Outputs' settings* (`SettingsProofs`), for any outputs, modes, formats, commands and budgets,
from `OutputConstants`: `OutputsObey` (`OutputsKeepObeying`), `SearchIsComplete`
(`SearchStaysComplete`) and `HotplugKeepsLit` (`HotplugKeepsItLit`). That the last command has its way is
a matter of three configurations at most: `FindIs` reads what an output uses off what the list
says under the wildcard, its name and its identifier (`Said`), `StoreIs` says what a store
leaves under each, and `StoreHasItsWay` that whoever is meant uses the new fields on top of what
was used before, and nobody else uses anything else. The search is a recursion on sequences, so
that its function has to be shown to exist (`SearchExists`, from the last output
backwards: `SameOutput` says it looks only one output further); `SearchStep` then carries
from the outputs after the next one to the next what the search comes to (`Ends`): what
it finds, that nothing better was passed over (`NoBetter`), and if it fails, that all is
`Hopeless`. All of them use that whatever prepares still does with outputs turned off
(`PrepareLess`), which rests on a sum of costs, a fold like those above. A modeset may still be
refused, and `OutputsInv` keeps, through all that is stored meanwhile, that a lit output could be lit
alone as it is (`LitFits`): so the search, which has it first, cannot find it better off.

*swaybar* (`BarProofs`), for any outputs, configurations and
status commands, from `ConfigShape`: `LayersFollow` (`LayerSurfacesFollow`), `UpdateOnItsWay`
(`UpdatesAreDue`) and `CommandInStep` (`CommandFollows`), all three from `BarInv`: between two
callbacks a running bar is `Whole`. That outputs are due to be drawn needs that what waits for
neither configure nor frame has no height yet (`Calm`); that a command is not left
stopped, that it has no signals of its own before its header came (`Command`). Within
a handler the outputs have moved, the mode and the tray are new, and surfaces and loop still
follow the old ones: so every operator has a lemma about `Between`, where only `Calm`,
`Command` and a loop that watches *some* tray setting hold, and
`determine_bar_visibility` restores the rest, provided that the surfaces there are on
one layer (`OnLayer`) or it is told that the layer moves: `handle_barconfig_update` tells
it so exactly when the mode changed.

*Trays* (`BarProofs`), for any bars and applications, from `BusNames` (a name is one
process's): `BarsAgree` (`TraysAgree`), whose three parts speak of a quiet bus and so say
nothing of a step. `TrayInv` says what they mean while messages wait: a watcher will know of
a host, and a host of an item, if the *last* message in its inbox that says yes or no
says yes, or there is none and it knows already (`Ends`); a host that is behind has
the news of an owner, or its own call for all items, still to come (`Waiting`). That a
host that left cannot return needs that only the owner's inbox holds registrations and only
running hosts wait for an answer (`Addressed`); that there is an owner again, that all
who heard of the loss and were not late have the news in their inbox (`OwnerSought`). The
lemmas are about one queue from which the head is taken or to which one message is added.

*IPC server* (`IpcServerProofs`), for any clients, kinds of requests, bounds and sizes of the
buffers, from `ServerAssumption` (a new buffer is not larger than the limit): `ClientsInStep`
(`ClientsKeepInStep`) and `EveryListenerHears` (`ListenersHear`). The properties speak of
what a client was sent and what it asked; the socket between the two they do not mention. The
invariant `IpcInv` counts for each client the requests that its stream has dealt with, and
its part `Pace` says that both ends agree on the count: the stream is whole messages whose
replies are those of the first so many requests (`Owes`), and what waits in the socket, after a
header already taken, is what follows them, up to what the client has still to send of
the last one (`Backlog`, with a `Track` of which part of which request each unit is). A
read then takes exactly one request, or its header (`PayloadTaken`, `HeaderTaken`), and a reply
or an event adds one whole message to a stream that ended with one (`OwesGot`). A part written
and a part queued make the same stream, so a write keeps all of it. The loop of an event
walks a list that it shortens: `EventStepIs` says that an iteration leaves what is still to
visit in its place from the next index on, and `SendEventIs`, that at its end every client
was told once, as it was subscribed (`Told`). That a reply after the event costs a
connection only if both did not fit needs that doubling for one and then for both comes to no
more than for both at once (`GrownTwice`).

*Only model-checked*: the workspaces and their hotplug (`WorkspacesConsistent`, `NoneLeftIdle`,
`HotplugRestores`), the boxes and the camera (`TilesParent`, `ResizesExactly`,
`OppositeEdgeStays`, `UnmaximizeRestores`, `CameraShowsFocus`, `EdgeHandoff`), the tree with
fullscreen on all outputs or requests that name one, and liveness (`LayoutSettles`, `Answered`,
`ItemShown`). The model of boxes and camera is arithmetic with division, which the prover does
not take far; what a recursion over a tree of containers computes needs induction over
data, which is out of its reach, as are liveness and ENABLED. Of the workspaces no inductive
invariant has been worked out. What the model needs but nobody proves is that C data structures
behave (lists, signals).

## 6. Disagreements between the code and what it says

Each is a run that TLC ends with a counterexample; `PROJECT.json` quotes the lines.

1. `scroll_follow`: a pinch that resizes a column is taken over by a press of a button, the
   end of the gesture goes to the new operation, which has no handler for it, and
   `interactive_resize` stays set: the camera does not follow the focus any more
   (`input/seatop_default.c:1239`, `tree/arrange.c:425`, README.md:80).
2. `seat_ops_cycle`: a split is dragged by its title over the edge of a window of a split
   inside it and becomes its own descendant (`input/seatop_move_tiling.c:405`, `:456`).
3. `text_inputs`: of several text inputs of one client an input method that returns enters
   the first only; the others are entered with the next focus of the surface and still
   wait for it, which `input/text_input.c:665` calls inconsistent (`:595`). The proof of
   `FollowersAgree` led here: with more than one text input its first form was false.

## 7. Behaviour met while modelling, that no property states

The first list is of definitions that the modules keep to say what one would expect, or
what a comment promises, and that the code does not always do; no run checks them.

- `DestroyAssertionHolds` (`tree/container.c:595`): the assertion that no transaction
  refers to a destroyed container. The close timer destroys it unconditionally, and a
  decoration event can commit a closing container behind a slow transaction.
- `WaitsOnlyForUnanswered` (`transaction.h:18`): a client that acknowledged a newer
  configure is waited for until the timeout (`transaction.c:1882` compares for equality).
- `FrozenOnlyInTransaction`: true of the model, and implied by the others.
- `NoReferenceToDestroyed` (`container.c:645`): only the container's own workspace is cleaned;
  `fullscreen` or `prev_fullscreen` of another may be left.
- `RootOfWorkspaceHasNoParent` (`container.h:60`): a request for fullscreen on an output
  from a window inside a hidden scratchpad split puts it in two lists
  (`xdg_shell.c:431`, also `view.c:878`).
- `NeverMisused` (`ipc-server.c:287`, `:674`): a request that makes its own sender
  overflow is answered through the freed client.
- `SwitchesToSpecified` (sway.5.scd:1110): switching workspace while a layer surface has
  the keyboard first refocuses the previous node, which can destroy the target
  (`seat.c:1319`, `:1346`, `:1392`).
- `LockedStaysQuiet` (sway.5.scd:525): a repeat or a held release binding runs although
  the session was locked meanwhile (`keyboard.c:477`, `:656`).
- `DesktopTakesNoKeys` (`seat.c:187`): a menu keeps the keys when the desktop is focused.
- `DrawnOutputsHaveSurface` (`swaybar/render.c:753`): an output that a configuration adds while it
  waits for its surface is drawn on.

*Workspaces.* With no output and nothing on the fallback output a mapped window gets no
workspace, whatever the comment at `tree/view.c:675` says; while no output is enabled
`root_find_workspace` does not see the fallback output, so that a second workspace of the same
name can be made, and `launcher_ctx_get_workspace` makes one without looking when the output
is gone; a sticky window moved to a hidden workspace of another output stays hidden there; a
workspace that `restore_workspaces` creates may be on an output that is not the best of its
list.

*Pointer and drags.* `cursor.c:437` compares the point that stands for the pointer with
`seat->touch_id`, so that with two fingers its release is missed; an operation begun by
fingers ends with a click of the mouse; devices that leave a seat with a button held leave
`pressed_button_count` above zero; a gesture that begins in the default operation and is
handed over never gets its end. A workspace that is the target of a drag can be destroyed
(`seatop_unref` knows containers only); the column of a pinch too. A
container that is dragged and swapped with one shown from the scratchpad goes there itself, and
as it floats already its drag does not end (`container.c:2331`, `root.c:134`): the drop tiles
it while `con->scratchpad` is set, so that the code goes on taking it for floating. It takes six
handlers; the proof of `ScratchpadHoldsTrees` led here. Hovering a child of a
hidden split reads its workspace, which is NULL.

*Keyboards.* `unbindsym` frees a binding that is held, repeats or is being executed; a reload
leaves `held_binding` behind (`keyboard.c:475`); `run_deferred_bindings` frees keys that are
shared with the copy (`bind.c:612`); more than 32 keys are not tracked.

*Keyboard focus.* Focusing an empty workspace leaves the text input entered; rearranging
the layers of another output clears `has_exclusive_layer` (`seat.c:1339`);
override-redirect windows take the keyboard from exclusive layers; a reload that disables
pointer constraints leaves the active one.

*X11.* `xsurface->data` of an unmanaged window is read as a view by
`view_from_wlr_surface` (`view.c:1343`); `view_unmap` keeps the `urgent` time of a view; a
view focused because the focused one closed stays urgent; an unmanaged window that covers
an output stays unmanaged until it maps again.

*Boxes.* `resize grow` on a container of which an ancestor is the one that can be resized
answers that it could not, although it did (`resize.c:329`); the outer gaps of the
configuration are clamped to one workspace's (`gaps.c:135`); a sibling of size zero counts as
new after a resize; `resize_set` leaves the maximized state and `resize_adjust_floating` does
not; the commit of an old size in flight shrinks a window that was just maximized; the saved
`maximized_state.workspace` may be gone (`container.c:1217`); a drag limits the content by the
client's maximum minus the border where it should add it. In the scrollable layout the
position of the tiling node is relative to the output in one place and to the layout in
others (`arrange.c:420`, `seatop_default.c:1190`, `seatop_resize_tiling.c:93`); a user's
scroll while the transaction of a change of focus is in flight is overridden by it.

*Settings.* A test of a configuration that succeeds drops the delayed modeset
(`output.c:745`); a configuration by name, stored while the output is away, does not
supersede that of its identifier; a mode given without a refresh rate keeps the old rate;
toggling the power twice within the delay reads the old state. An identifier's configuration
stored before its device appears has no type, so that a later `type:` line does not
reach it (against sway-input.5.scd:20), and in a file a `*` line after the identifier's
overrides it (against :16). `events toggle` for a type may be refused half way, because
some device's keymap does not compile: the events mode of the devices is then stored (`events.c:112`)
but none is told, until a later command or modeset happens to apply it.

*swaybar.* A status command started while the bar is hidden is not stopped; one stopped
before its header, that then names a signal of its own to continue, is not resumed, and
closing it waits for it (`status_line.c:194`); a removal on POLLHUP removes the descriptor
twice; a frame callback of a destroyed layer leaves an update undrawn; items that die
while there is no watcher stay. The watcher compares names by prefix (`watcher.c:34`).

*Configuration.* While a reload validates, `load_config` reports success whatever it read; a
block that is not closed at the end of the file is not reported; the list of containers a
criteria matched (`commands.c:351`) can hold splits that an earlier command destroyed.

## 8. What is not modelled

- *The command parser, criteria and marks, and the reading of the configuration file*:
  sequential processing of strings. About a hundred commands only check their arguments
  and assign an option.
- *Idle inhibition*: a function of the tree, the focus and the lock, evaluated at some of the
  places where they change.
- *The list of running animations and their curves* (`animation_manager.c`): the life of the
  close animation is in `Transaction`, the camera's in `ScrollLayout`.
- *Rendering of the scene, title textures, blur, shadows, glass; the text of JSON
  replies*: no control of their own. *Server start-up, swaynag, swaymsg*: lists of calls.
- *Composition across the parts.* `SeatOps` composes with the tree; a drag that begins
  while a layer takes the keyboard, or a tree command between the steps of a transaction, is
  seen only through the choices the other module makes. Of directions and the order of
  siblings the tree modules know nothing.
- Code that is not in the repository is modelled from its use: libwayland's loop and
  signals, wlroots' locks, key tracking of groups and output backends, libinput's
  releases, the D-Bus.

To run: `tlc -config X.cfg M` for each row of `runs`, `tlapm M.tla` for each of the proof
modules.
