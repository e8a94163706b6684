-------------------------------- MODULE MCFocus --------------------------------
(***************************************************************************)
(* The surfaces of clients and who owns and focuses them, in one run: the  *)
(* keyboard among views, layers and override-redirect windows              *)
(* (KeyboardFocus), the surfaces of a session lock (SessionLock), and the  *)
(* windows of X11 clients (Xwayland).  A behaviour is about one of them,   *)
(* chosen at the start.                                                    *)
(***************************************************************************)
EXTENDS KeyboardFocus, SessionLock, Xwayland

CONSTANTS v1, v2, panel, menu, popup, t1, t2

VARIABLE about   \* "keyboard", "lock" or "x11"

\* Two views, each with a text input of its client, two layers of the client of the first
\* one on the same output, and an override-redirect window.
LayerModes == [l \in {panel, menu} |-> IF l = panel THEN {"exclusive"} ELSE {"demand", "exclusive"}]
LayerLevels == [l \in {panel, menu} |-> {Overlay}]
LayerOutputs == [l \in {panel, menu} |-> {"a"}]
ClientOf == [u \in {v1, v2, panel, menu, popup, t1, t2} |->
               CASE u \in {v1, panel, menu, t1} -> "one" [] u \in {v2, t2} -> "two" [] OTHER -> "x"]

\* Both text inputs belong to one client.
SharedClient == [ClientOf EXCEPT ![t2] = "one"]

AllInit ==
  /\ about \in {"keyboard", "lock", "x11"}
  /\ Init
  /\ about # "lock" => \A o \in Outputs : output[o] = "connected"
  /\ FocusInit /\ XwaylandInit

AllNext ==
  \/ about = "keyboard" /\ FocusNext /\ UNCHANGED <<about, vars, xwVars>>
  \/ about = "lock" /\ Next /\ UNCHANGED <<about, f, xwVars>>
  \/ about = "x11" /\ XwaylandNext /\ UNCHANGED <<about, f, vars>>

AllSpec == AllInit /\ [][AllNext]_<<about, f, vars, xwVars>>
=============================================================================
