------------------------------ MODULE Bindings -------------------------------
(***************************************************************************)
(* Keyboards, their groups and the bindings they run (input/keyboard.c,    *)
(* commands/bind.c, the keyboards' part of input/seat.c, input-manager.c   *)
(* and of reloading the configuration).                                    *)
(*                                                                         *)
(* Keyboards with equal settings share a group, whose own sway_keyboard    *)
(* gets the keys of all; a virtual keyboard is on its own.  Such a "unit"  *)
(* tracks the shortcut state, what it sent to the focused client, and the  *)
(* bindings that wait for a release or repeat.  The three shortcut states  *)
(* of the code (key codes, symbols with and without modifiers) are one.    *)
(* Left out: bindings of one device of a group, hard-wired keys, binding   *)
(* and unbinding at run time, the rate of repeats.                         *)
(*                                                                         *)
(* A handler is an operator from a state s to a state.  wlroots reports a  *)
(* key before it updates the modifiers.                                    *)
(***************************************************************************)
EXTENDS BindingChoice

CONSTANTS Keyboards,     \* devices that can be grouped
          Virtuals,      \* virtual keyboards
          Classes,       \* keymaps and repeat settings: a group for each
          DefaultClass,
          Keys, ModKeys, \* the keys, and the modifiers among them
          Surfaces, Nobody, Inhibiting,   \* focusable surfaces; those with an active inhibitor
          BindingModes, DefaultMode,
          ConfigFiles,   \* what a configuration file can say: [bindings, class]
          Reconfigured,  \* keyboards that input commands change
          MaxReloads

ASSUME FiniteKeys == IsFiniteSet(Keys) /\ IsFiniteSet(Keyboards) /\ MaxReloads \in Nat /\ Reconfigured \subseteq Keyboards
ASSUME Distinct ==
  /\ Keyboards \cap Virtuals = {} /\ Classes \cap (Keyboards \cup Virtuals) = {}
  /\ Nobody \notin Surfaces \cup Classes \cup Keyboards \cup Virtuals
  /\ NoKey \notin Keys /\ ModKeys \subseteq Keys
  /\ DefaultClass \in Classes /\ DefaultMode \in BindingModes
ASSUME FilesAreRead == \A file \in ConfigFiles :
  /\ file.class \in [Keyboards -> Classes]
  /\ \A m \in BindingModes :
       /\ file.bindings[m] \in Seq(Range(file.bindings[m]))
       /\ \A b \in Range(file.bindings[m]) :
            /\ "command" \in DOMAIN b
            /\ \/ b.command.does \in {"reload", "exec"}
               \/ b.command.does = "mode" /\ b.command.to \in BindingModes

VARIABLE s

Units == Classes \cup Virtuals
Devices == Keyboards \cup Virtuals

Fresh == [pressed |-> {}, last |-> NoKey, lastMods |-> {},
          sent |-> {}, held |-> NoBinding, repeat |-> NoBinding]

\* The bindings of the current configuration.  Each is known by the configuration
\* (a number) it belongs to: that is what a pointer to it amounts to.
OfConfig(b, n) == [x \in DOMAIN b \cup {"config"} |-> IF x = "config" THEN n ELSE b[x]]

Parsed(file, n) ==
  [m \in BindingModes |->
     LET lines == file.bindings[m]
         parsed[i \in 0 .. Len(lines)] ==
           IF i = 0 THEN <<>> ELSE Upsert(parsed[i - 1], OfConfig(lines[i], n))
     IN  parsed[Len(lines)]]

Live(b) == b.config = s.config

\* Where the keys of device d go, and which keys are down there.
UnitOf(t, d) == IF d \in Virtuals THEN d ELSE t.class[d]
Members(t, u) == {d \in Devices : UnitOf(t, d) = u}
UnitKeys(t, u) == UNION {t.down[d] : d \in Members(t, u)}

BindingsInit == \E file \in ConfigFiles :
  s = [down     |-> [d \in Devices |-> {}],
       class    |-> [k \in Keyboards |-> Nobody],     \* Nobody: not plugged in
       unit     |-> [u \in Units |-> Fresh],
       active   |-> Nobody,                           \* wlr_seat_get_keyboard
       focus    |-> Nobody,
       client   |-> {},                             \* keys the focused client takes for pressed
       grab     |-> FALSE,                          \* an input method grabs the keyboard
       locked   |-> FALSE,
       config   |-> 0,
       file     |-> file,
       bindings |-> Parsed(file, 0),
       mode     |-> DefaultMode,
       reload   |-> FALSE,                          \* do_reload waits to be idle
       ran      |-> {},                             \* bindings run by this key; between
                                                    \* steps, those that should not have
       breach   |-> FALSE]                          \* a freed binding was used

------------------------------------------------------------------------------
(***************************************************************************)
(* FocusChange.  A surface that is entered learns which keys the seat's keyboard *)
(* has sent; entering the surface that has the focus does nothing.         *)
(***************************************************************************)

SurfaceEnter(t, f) ==
  IF f = t.focus THEN t
  ELSE [t EXCEPT !.focus = f,
                 !.client = IF f # Nobody /\ t.active \in Units THEN t.unit[t.active].sent ELSE {}]

Reenter(t) == SurfaceEnter(SurfaceEnter(t, Nobody), t.focus)

\* seat_execute_command.  What a command does to the rest of the compositor reaches
\* this module through the focus.
Execute(t, b) ==
  LET r == [t EXCEPT !.ran = @ \cup {b}, !.breach = @ \/ b.config # t.config]
  IN  CASE b.command.does = "mode"   -> [r EXCEPT !.mode = b.command.to]
        [] b.command.does = "reload" -> [r EXCEPT !.reload = TRUE]
        [] b.command.does = "exec"   -> r

------------------------------------------------------------------------------
(***************************************************************************)
(* Shortcut state.                                                         *)
(***************************************************************************)

\* update_shortcut_state.  A modifier that was pressed is forgotten with the next key.
\* The list of pressed keys is long enough for all keys.
Shortcut(k, keys, press, mods) ==
  LET kept == IF mods # k.lastMods THEN k.pressed \ {k.last} ELSE k.pressed
  IN  [k EXCEPT !.pressed  = IF press THEN kept \cup keys ELSE kept \ keys,
                !.last     = IF press THEN CHOOSE key \in keys : TRUE ELSE @,
                !.lastMods = mods]

\* update_keyboard_state, of keys that are pressed or released at once: the modifiers
\* stay what they are, so only the first of them may find others.
UpdateState(t, u, keys, press) ==
  IF keys = {} THEN t
  ELSE [t EXCEPT !.unit[u] = Shortcut(t.unit[u], keys, press, UnitKeys(t, u) \cap ModKeys)]

\* The binding for an event; "current" is the key it presses, if it does.
Choose(t, u, current, release) ==
  ActiveBinding(t.bindings[t.mode], [pressed |-> t.unit[u].pressed, current |-> current],
    [mods |-> UnitKeys(t, u) \cap ModKeys, release |-> release, locked |-> t.locked,
     inhibited |-> t.focus \in Inhibiting, input |-> u, exact |-> FALSE, group |-> 0], NoBinding)

\* The stored release binding runs once it no longer matches.
RunReleased(t, u, press, released) ==
  LET held == t.unit[u].held
      r    == IF held # NoBinding /\ released # held /\ ~press THEN Execute(t, held) ELSE t
  IN  [r EXCEPT !.unit[u].held = IF released = held THEN held
                                 ELSE IF press THEN released ELSE NoBinding]

\* The repeat is set or cleared before the binding runs.
RunPressed(t, u, current) ==
  LET b == IF current # NoKey THEN Choose(t, u, current, FALSE) ELSE NoBinding
      repeats == b # NoBinding /\ ~b.norepeat
      r == [t EXCEPT !.unit[u].repeat = IF repeats THEN b ELSE NoBinding]
  IN  IF b # NoBinding THEN Execute(r, b) ELSE r

\* A release goes to the client that has the focus if its press was sent to a client.
DeliverRelease(t, u, key) ==
  LET sent == key \in t.unit[u].sent /\ t.focus # Nobody
  IN  [t EXCEPT !.unit[u].sent = @ \ {key},
                !.client = IF sent THEN @ \ {key} ELSE @,
                !.active = IF sent THEN u ELSE @]

\* A press goes to the input method if it grabs the keyboard, else to the client.
DeliverPress(t, u, key) ==
  IF t.grab /\ u \notin Virtuals THEN t
  ELSE [t EXCEPT !.unit[u].sent = @ \cup {key},
                 !.active = u,
                 !.client = IF t.focus = Nobody THEN @ ELSE @ \cup {key}]

\* handle_key_event.
HandleKey(t, u, key, press) ==
  LET current == IF press THEN key ELSE NoKey
      t1 == UpdateState(t, u, {key}, press)
      t2 == RunPressed(RunReleased(t1, u, press, Choose(t1, u, current, TRUE)), u, current)
  IN  IF ~press THEN DeliverRelease(t2, u, key)
      ELSE IF t2.ran # {} THEN t2
      ELSE DeliverPress(t2, u, key)

\* What wlroots does with a key of device d: only the first press and the last release
\* of a key in a group reach the group's keyboard.
DeviceKey(t, d, key, press) ==
  LET u == UnitOf(t, d)
      others == UNION {t.down[x] : x \in Members(t, u) \ {d}}
      r == IF key \in others THEN t ELSE HandleKey(t, u, key, press)
  IN  [r EXCEPT !.down[d] = IF press THEN @ \cup {key} ELSE @ \ {key}]

\* wlroots releases the keys of a keyboard before it reports that it is gone.
ReleaseAll(t, d) ==
  LET order == SetToSeq(t.down[d])
      after[i \in 0 .. Len(order)] ==
        IF i = 0 THEN t ELSE DeviceKey(after[i - 1], d, order[i], FALSE)
  IN  after[Len(order)]

------------------------------------------------------------------------------
(***************************************************************************)
(* Groups.                                                                 *)
(***************************************************************************)

SlipHandleGroupLeave(t, u, keys) ==      \* forgets to tell the client
  [UpdateState(t, u, keys, FALSE) EXCEPT !.unit[u].sent = @ \ keys]

\* handle_keyboard_group_enter
HandleGroupEnter(t, u, keys) == UpdateState(t, u, keys, TRUE)

\* handle_keyboard_group_leave: the keys that left with a keyboard are forgotten, and
\* if the client knew of one, the focus is renewed.
HandleGroupLeave(t, u, keys) ==
  LET known == keys \cap t.unit[u].sent
      r == [UpdateState(t, u, keys, FALSE) EXCEPT !.unit[u].sent = @ \ keys]
  IN  IF known = {} THEN r ELSE Reenter(r)

\* sway_keyboard_group_remove.  The keyboard of an empty group is destroyed.
GroupRemove(t, k) ==
  LET u      == t.class[k]
      others == Members(t, u) \ {k}
      keys   == t.down[k] \ UNION {t.down[x] : x \in others}
      left   == [HandleGroupLeave(t, u, keys) EXCEPT !.class[k] = Nobody]
  IN  IF others # {} THEN left
      ELSE [left EXCEPT !.unit[u] = Fresh, !.active = IF @ = u THEN Nobody ELSE @]

\* sway_keyboard_group_add.  The first keyboard of a group is added before the group's
\* listeners are: its pressed keys are not reported.
GroupAdd(t, k, c) ==
  LET others == Members(t, c)
      keys   == t.down[k] \ UNION {t.down[x] : x \in others}
      r      == [t EXCEPT !.class[k] = c]
  IN  IF others = {} THEN r ELSE HandleGroupEnter(r, c, keys)

\* sway_keyboard_configure of a keyboard whose settings are now those of class c.
Configure(t, k, c) ==
  LET out == IF t.class[k] \notin {Nobody, c} THEN GroupRemove(t, k) ELSE t
      in  == IF out.class[k] = Nobody THEN GroupAdd(out, k, c) ELSE out
  IN  [in EXCEPT !.active = IF @ = Nobody THEN k ELSE @]

Plugged(t) == {k \in Keyboards : t.class[k] # Nobody}

ConfigureAll(t, class) ==
  LET order == SetToSeq(Plugged(t))
      after[i \in 0 .. Len(order)] ==
        IF i = 0 THEN t ELSE Configure(after[i - 1], order[i], class[order[i]])
  IN  after[Len(order)]

Disarm(t, units) ==
  [t EXCEPT !.unit = [u \in Units |->
     IF u \in units THEN [t.unit[u] EXCEPT !.repeat = NoBinding] ELSE t.unit[u]]]

SlipReset(t) ==                          \* only the devices, not the groups
  Disarm(ConfigureAll([t EXCEPT !.active = Nobody], [k \in Keyboards |-> DefaultClass]), Virtuals)

\* input_manager_reset_all_inputs: everything goes back to the default settings, and
\* nothing repeats.
Reset(t) ==
  Disarm(ConfigureAll([t EXCEPT !.active = Nobody], [k \in Keyboards |-> DefaultClass]), Units)

------------------------------------------------------------------------------
(***************************************************************************)
(* Events.                                                                 *)
(***************************************************************************)

Running == ~s.breach

Calm == [s EXCEPT !.ran = {}]

\* The handler returns; what is kept of "ran" are bindings run in spite of a lock.
Done(t) == s' = [t EXCEPT !.ran = {b \in @ : t.locked /\ ~b.locked}]

Press(d, key) ==
  /\ Running /\ key \notin s.down[d] /\ UnitOf(s, d) # Nobody
  /\ Done(DeviceKey(Calm, d, key, TRUE))

Release(d, key) ==
  /\ Running /\ key \in s.down[d] /\ UnitOf(s, d) # Nobody
  /\ Done(DeviceKey(Calm, d, key, FALSE))

\* handle_keyboard_repeat
HandleRepeat(u) ==
  /\ Running /\ s.unit[u].repeat # NoBinding
  /\ Done(Execute(Calm, s.unit[u].repeat))

\* A keyboard is found, or its settings change by an input command.
HandleNewInput(k) ==
  /\ Running /\ s.class[k] = Nobody
  /\ s' = Configure(Calm, k, s.file.class[k])

ApplyInputConfig(k, c) ==
  /\ Running /\ s.class[k] \notin {Nobody, c}
  /\ s' = Configure(Calm, k, c)

\* handle_device_destroy and sway_keyboard_destroy.
HandleDeviceDestroy(k) ==
  /\ Running /\ s.class[k] # Nobody
  /\ LET gone == GroupRemove(ReleaseAll(Calm, k), k)
     IN  Done([gone EXCEPT !.active = IF @ = k THEN Nobody ELSE @])

\* do_reload and load_main_config, as far as they concern keyboards.
DoReload(file) ==
  /\ Running /\ s.reload /\ s.config < MaxReloads
  /\ LET configured == ConfigureAll(Reset(Calm), file.class)
         n == s.config + 1
     IN  s' = [configured EXCEPT !.config = n, !.file = file, !.reload = FALSE,
                                 !.bindings = Parsed(file, n), !.mode = DefaultMode]

\* The rest of the compositor.
FocusChange(f) == Running /\ f # s.focus /\ s' = SurfaceEnter(Calm, f)
SetLocked(b) == Running /\ b # s.locked /\ s' = [Calm EXCEPT !.locked = b]
SetGrab(b) == Running /\ b # s.grab /\ s' = [Calm EXCEPT !.grab = b]

BindingsNext ==
  \/ \E d \in Devices, key \in Keys : Press(d, key) \/ Release(d, key)
  \/ \E u \in Units : HandleRepeat(u)
  \/ \E k \in Keyboards : HandleNewInput(k) \/ HandleDeviceDestroy(k)
  \/ \E k \in Reconfigured, c \in Classes : ApplyInputConfig(k, c)
  \/ \E file \in ConfigFiles : DoReload(file)
  \/ \E f \in Surfaces \cup {Nobody} : FocusChange(f)
  \/ \E b \in BOOLEAN : SetLocked(b) \/ SetGrab(b)

BindingsSpec == BindingsInit /\ [][BindingsNext]_s

------------------------------------------------------------------------------
(***************************************************************************)
(* Properties.                                                             *)
(***************************************************************************)

ParsedBindings == UNION {UNION {Range(Parsed(f, n)[m]) : m \in BindingModes} : f \in ConfigFiles, n \in 0 .. MaxReloads}

\* The types of the state.
TypeOK ==
  /\ s.down \in [Devices -> SUBSET Keys]
  /\ s.class \in [Keyboards -> Classes \cup {Nobody}]
  /\ \A u \in Units :
       /\ s.unit[u].pressed \subseteq Keys /\ s.unit[u].sent \subseteq Keys
       /\ s.unit[u].last \in Keys \cup {NoKey}
       /\ s.unit[u].held \in ParsedBindings \cup {NoBinding}
       /\ s.unit[u].repeat \in ParsedBindings \cup {NoBinding}
  /\ s.active \in Units \cup Devices \cup {Nobody}
  /\ s.focus \in Surfaces \cup {Nobody}
  /\ s.client \subseteq Keys
  /\ s.config \in 0 .. MaxReloads

\* A binding is not kept from matching by a key that nobody presses any more: the
\* pressed keys of every shortcut state are pressed on a device of its unit, through
\* groups that keyboards with pressed keys join and leave.
PressedIsPressed == \A u \in Units : s.unit[u].pressed \subseteq UnitKeys(s, u)

\* No key is stuck: what the focused client takes for pressed was sent by a unit that
\* remembers it, and is pressed on a device of that unit, whose release will be
\* delivered.  handle_key_event, the enter and leave handlers of groups, configuring
\* and seat_keyboard_notify_enter each keep their share of this.
KeysAccounted ==
  /\ TypeOK
  /\ \A u \in Units : s.unit[u].sent \subseteq UnitKeys(s, u)
  /\ s.client \subseteq UNION {s.unit[u].sent : u \in Units}

\* What the client and the shortcut states take for pressed is pressed.
KeysInStep == KeysAccounted /\ PressedIsPressed

\* The timer of a repeating binding never finds one that a reload has freed, although
\* reloading destroys and creates groups while keys are held.
RepeatLive == \A u \in Units : s.unit[u].repeat # NoBinding => Live(s.unit[u].repeat)

\* "Unless the flag --locked is set, the command will not be run when a screen locking
\* program is active" (sway/sway.5.scd).
LockedStaysQuiet == s.ran = {}
==============================================================================
