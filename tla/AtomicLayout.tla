---------------------------- MODULE AtomicLayout ----------------------------
(***************************************************************************)
(* What the transaction code of the compositor promises: the layout on the *)
(* screen moves in whole steps.  A step shows the layout that was being    *)
(* negotiated with the clients, or the one wanted last, never a mixture of *)
(* two layouts.                                                            *)
(***************************************************************************)
CONSTANTS
  Node,      \* what has a place: outputs, workspaces, containers
  Place,     \* the places
  Nowhere    \* the place of a node no layout has put anywhere yet

VARIABLES
  wanted,    \* the layout the last commit asked for
  target,    \* the layout the clients were asked to draw for
  shown      \* the layout on the screen

layouts == <<wanted, target, shown>>

TypeOK ==
  /\ wanted \in [Node -> Place]
  /\ target \in [Node -> Place]
  /\ shown \in [Node -> Place]

Init ==
  /\ wanted = [n \in Node |-> Nowhere]
  /\ target = wanted
  /\ shown = wanted

\* A commit changes the places of some nodes.
Want == wanted' \in [Node -> Place]

\* The clients are still drawing.
Hold == UNCHANGED <<target, shown>>

\* The negotiated layout is shown and the wanted one is negotiated.
Advance == shown' = target /\ target' = wanted'

\* The wanted layout needs no answer: it is shown as well.
CatchUp == shown' = wanted' /\ target' = wanted'

Next == Want /\ (Hold \/ Advance \/ CatchUp)

Spec == Init /\ [][Next]_layouts
=============================================================================
