-------------------------------- MODULE MCInput --------------------------------
(***************************************************************************)
(* The devices of a seat in one run: keyboards and their bindings          *)
(* (Bindings), or buttons, fingers, gestures and tablet tools (Pointer).   *)
(* A behaviour is about one of them, chosen at the start.                  *)
(***************************************************************************)
EXTENDS Bindings, Pointer, TLC

CONSTANTS k1, k2, plain, custom, a, shift, default, b1, b2, f1, swipe, pinch

VARIABLE about   \* "keyboards" or "pointer"

Bind(keys, mods, release, locked, norepeat, command) ==
  [keys |-> keys, mods |-> mods, release |-> release, locked |-> locked, norepeat |-> norepeat,
   inhibited |-> FALSE, input |-> AnyInput, group |-> AnyGroup, command |-> command]

Exec == [does |-> "exec"]
Reload == [does |-> "reload"]

\* A repeating binding and a reload; then a release binding, and another keyboard group.
TwoFiles ==
  { [bindings |-> default :> << Bind({a}, {}, FALSE, FALSE, FALSE, Exec),
                                Bind({a}, {shift}, FALSE, TRUE, TRUE, Reload) >>,
     class    |-> (k1 :> plain) @@ (k2 :> plain)],
    [bindings |-> default :> << Bind({a}, {}, TRUE, FALSE, TRUE, Exec) >>,
     class    |-> (k1 :> plain) @@ (k2 :> custom)] }

InputInit ==
  /\ about \in {"keyboards", "pointer"}
  /\ BindingsInit
  /\ about = "pointer" => s.file = CHOOSE file \in TwoFiles : TRUE
  /\ PointerInit

InputNext ==
  \/ about = "keyboards" /\ BindingsNext /\ UNCHANGED <<about, p>>
  \/ about = "pointer" /\ PointerNext /\ UNCHANGED <<about, s>>

InputSpec == InputInit /\ [][InputNext]_<<about, s, p>>
=============================================================================
