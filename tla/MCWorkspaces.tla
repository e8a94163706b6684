---------------------------- MODULE MCWorkspaces ----------------------------
(***************************************************************************)
(* WorkspaceHandlers for TLC: the assignments and bindings of a small      *)
(* configuration file.  Windows can be exchanged, and workspace      *)
(* objects, which differ by their names only: no property tells them apart. *)
(***************************************************************************)
EXTENDS WorkspaceHandlers

CONSTANTS A, B

\* workspace 1 output A B; workspace 2 output B
MCAssigned == [n \in Numbers |-> CASE n = 1 -> <<A, B>> [] n = 2 -> <<B>> [] OTHER -> <<>>]
MCBindings == <<3>>
MCStartup == <<A, B>>

Symmetry == Permutations(Windows) \cup Permutations(Ids)
=============================================================================
