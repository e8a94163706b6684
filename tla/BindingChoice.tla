---------------------------- MODULE BindingChoice ----------------------------
(***************************************************************************)
(* How a binding is chosen and kept: the loops of get_active_binding       *)
(* (input/keyboard.c), get_active_mouse_binding (input/seatop_default.c)   *)
(* and execute_binding (input/switch.c) over the bindings of the mode, in  *)
(* the order of the configuration, and binding_upsert (commands/bind.c).   *)
(*                                                                         *)
(* A binding is a record.  Key and button combinations are sets; "input"   *)
(* is a device or AnyInput, "group" a layout or AnyGroup.                  *)
(***************************************************************************)
EXTENDS Integers, SequencesExt

CONSTANTS AnyInput, AnyGroup, NoBinding, NoKey

\* The pressed keys fit a binding: exactly its combination, or else the key
\* that was pressed last is a binding of one key.
Matches(b, state) ==
  IF Cardinality(state.pressed) = Cardinality(b.keys)
  THEN state.pressed = b.keys
  ELSE b.keys = {state.current}

\* c: modifiers, release, locked, inhibited, input, exact and group of the event.
Eligible(b, state, c) ==
  /\ c.mods = b.mods
  /\ c.release = b.release
  /\ c.locked => b.locked
  /\ c.inhibited => b.inhibited
  /\ b.group \in {AnyGroup, c.group}
  /\ b.input = c.input \/ (b.input = AnyInput /\ ~c.exact)
  /\ Matches(b, state)

\* The binding found before is preferred to b, or conflicts with it.
Keeps(current, b, c) ==
  LET sameInput == (current.input = c.input) = (b.input = c.input)
      sameGroup == (current.group # AnyGroup) = (b.group # AnyGroup)
  IN  \/ current.input = c.input /\ ~sameInput
      \/ sameInput /\ current.group = c.group
      \/ sameInput /\ sameGroup
         /\ \/ current.locked = c.locked
            \/ current.locked = b.locked
               /\ (current.inhibited = c.inhibited \/ current.inhibited = b.inhibited)

\* The search stops here.  The flags are compared with 0 and 1 as bits, so that
\* a binding with a flag is never perfect.
Perfect(b, c) ==
  /\ b.input = c.input /\ b.group = c.group
  /\ ~b.locked /\ ~c.locked /\ ~b.inhibited /\ ~c.inhibited

\* get_active_binding.  "found" is what an earlier list gave.
ActiveBinding(bindings, state, c, found) ==
  LET Consider(acc, b) ==
        IF acc.stop \/ ~Eligible(b, state, c) THEN acc
        ELSE IF acc.binding # NoBinding /\ (acc.binding = b \/ Keeps(acc.binding, b, c)) THEN acc
        ELSE [binding |-> b, stop |-> Perfect(b, c)]
      best[i \in 0 .. Len(bindings)] ==
        IF i = 0 THEN [binding |-> found, stop |-> FALSE] ELSE Consider(best[i - 1], bindings[i])
  IN  best[Len(bindings)].binding

\* A mouse binding fits the buttons and the part of the window they were pressed on;
\* the background of a workspace is every part at once.
MouseFits(b, pressed, c) ==
  /\ b.mods = c.mods /\ b.keys = pressed /\ b.release = c.release
  /\ b.input \in {c.input, AnyInput}
  /\ IF c.region = "workspace" THEN b.regions = {"titlebar", "border", "contents"}
     ELSE c.region \in b.regions

\* get_active_mouse_binding: the first one for this device, else the last one.
ActiveMouseBinding(bindings, pressed, c) ==
  LET fits  == SelectSeq(bindings, LAMBDA b : MouseFits(b, pressed, c))
      exact == SelectSeq(fits, LAMBDA b : b.input = c.input)
  IN  IF exact # <<>> THEN Head(exact) ELSE IF fits # <<>> THEN Last(fits) ELSE NoBinding

\* execute_binding of a switch: the first one whose lock flag is that of the
\* session, else the last one.
ActiveSwitchBinding(bindings, switch, on, reloading, locked) ==
  LET Fits(b) ==
        /\ b.switch = switch
        /\ b.trigger \in {"toggle", IF on THEN "on" ELSE "off"}
        /\ reloading => b.reload /\ b.trigger # "toggle"
        /\ locked => b.locked
      fits  == SelectSeq(bindings, Fits)
      exact == SelectSeq(fits, LAMBDA b : b.locked = locked)
  IN  IF exact # <<>> THEN Head(exact) ELSE IF fits # <<>> THEN Last(fits) ELSE NoBinding

\* binding_key_compare: what two bindings must not share.
SameTrigger(a, b) ==
  /\ a.input = b.input /\ a.group = b.group
  /\ a.mods = b.mods /\ a.keys = b.keys
  /\ a.release = b.release /\ a.locked = b.locked /\ a.inhibited = b.inhibited

\* binding_upsert: replaces the first binding with the same trigger, or comes last.
Upsert(bindings, b) ==
  LET same == {i \in DOMAIN bindings : SameTrigger(bindings[i], b)}
  IN  IF same = {} THEN Append(bindings, b) ELSE ReplaceAt(bindings, Min(same), b)
==============================================================================
