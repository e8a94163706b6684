--------------------------------- MODULE MCBar ---------------------------------
(***************************************************************************)
(* The status bar in one run: the loop, the outputs and the status command *)
(* of one bar (Swaybar), or the trays of two bars and an application that  *)
(* comes and goes on one bus (Tray).  A behaviour is about one of them,    *)
(* chosen at the start.                                                    *)
(***************************************************************************)
EXTENDS Swaybar, Tray

VARIABLE about   \* "bar" or "tray"

\* Configurations that differ in mode, in the outputs they name, in the
\* status command, the tray and the font.
Cfg(mode, hidden, outputs, status, tray, font) ==
  [mode |-> mode, hidden |-> hidden, outputs |-> outputs, status |-> status,
   tray |-> tray, buttons |-> mode # "overlay", font |-> font]

MCConfigs ==
  {Cfg("dock", "hide", {}, "date", TRUE, "small"),
   Cfg("hide", "hide", {}, "date", FALSE, "small"),
   Cfg("overlay", "show", {"DP-2"}, NoCommand, TRUE, "large")}

BarInit ==
  /\ about \in {"bar", "tray"}
  /\ Init
  /\ about = "tray" => bar = BarSetup(CHOOSE c \in Configs : TRUE, {}, FALSE)
  /\ TrayInit

BarNext ==
  \/ about = "bar" /\ Next /\ UNCHANGED <<about, trayVars>>
  \/ about = "tray" /\ TrayNext /\ UNCHANGED <<about, bar>>

\* The fairness is that of TraySpec.
BarSpec ==
  /\ BarInit /\ [][BarNext]_<<about, bar, trayVars>>
  /\ \A b \in Bars : WF_trayVars(InitHost(b)) /\ WF_trayVars(Deliver(b))
=============================================================================
