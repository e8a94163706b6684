--------------------------- MODULE MCTransaction ---------------------------
(***************************************************************************)
(* An instance of Transaction for TLC: an xdg view that is mapped a second *)
(* time, an Xwayland view, and a node without a view.                      *)
(***************************************************************************)
EXTENDS Transaction, TLC

CONSTANTS c1, c2, c3, w1, v1, v2

\* c1 and c2 are the containers of the first and second mapping of v1.
MCViewOf == c1 :> v1 @@ c2 :> v1 @@ c3 :> v2
============================================================================
