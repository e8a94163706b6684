----------------------------- MODULE MCSeatOps -----------------------------
(***************************************************************************)
(* The tree for TLC: the handlers of TreeCommands, and the operations of   *)
(* the pointer between them.  Containers of one kind and workspaces can be *)
(* exchanged: no property tells them apart.                                *)
(***************************************************************************)
EXTENDS SeatOps, TLC

\* bound: how many handlers change the tree up to the end of an operation
CONSTANT DragSteps

Symmetry ==
  Permutations(Views) \cup Permutations(Splits) \cup Permutations(Workspaces)

TreeNext ==
  \/ (s.op = DefaultOp \/ s.steps < DragSteps) /\ Next
  \/ s.steps <= DragSteps /\ Pointer /\ s'.steps <= DragSteps

TreeSpec == Init /\ [][TreeNext]_s
============================================================================
