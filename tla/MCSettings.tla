------------------------------ MODULE MCSettings ------------------------------
(***************************************************************************)
(* The configuration of outputs (OutputConfig) and that of input devices   *)
(* and seats (InputConfig), in one run: a behaviour is about one of them,  *)
(* chosen at the start.                                                    *)
(***************************************************************************)
EXTENDS OutputConfig, InputConfig

CONSTANTS left, right, high, low, d1, d2, k1, star, s0, s1, mon, unset

VARIABLE about   \* "outputs" or "inputs"

\* Two outputs with two modes; the left one syncs, at the low mode only.
MCOutputs == {left, right}
MCModes == <<high, low>>
MCFormats == <<"XRGB8888", "RGB565">>
MCWorks == [o \in MCOutputs |-> {s \in Setting :
  /\ s.sync => o = left /\ s.mode = low
  /\ o = right /\ s.mode = high => s.format = "RGB565"}]
MCCost == [m \in {high, low} |-> IF m = high THEN 2 ELSE 1]
MCCommands ==
  [name : {Wildcard, NameOf(left), IdOf(left)}, field : {"mode"}, value : {high, low}]
  \cup [name : {IdOf(left)}, field : {"enabled"}, value : {0}]
  \cup [name : {IdOf(left)}, field : {"sync"}, value : {1}]

\* Two devices of one type.
MCKind == [d \in {d1, d2} |-> k1]
Say(id, f, v) == [id |-> id, set |-> [Blank EXCEPT ![f] = v]]
MCInputLines ==
  {Say(i, "layout", v) : i \in {k1, d1}, v \in {"us", "de"}}
  \cup {Say(star, "layout", "de"), Say(k1, "variant", "intl"), Say(d1, "variant", "intl")}
  \cup {Say(star, "output", mon)}
MCCompiles == {<<l, v>> \in {unset, "us", "de"} \X {unset, "intl"} : v = "intl" => l # "de"}
MCSeatLines ==
  {[name |-> s1, set |-> [fallback |-> f, attach |-> {}]] : f \in {TRUE, FALSE}}
  \cup {[name |-> star, set |-> [fallback |-> FALSE, attach |-> {}]]}
  \cup {[name |-> s0, set |-> [fallback |-> unset, attach |-> {d1}]],
        [name |-> s1, set |-> [fallback |-> unset, attach |-> {star}]]}
MCScripts ==
  {<<>>, <<Say(d1, "layout", "de"), Say(k1, "layout", "us")>>}
  \cup {<<l>> : l \in MCSeatLines}

SettingsInit ==
  /\ about \in {"outputs", "inputs"}
  /\ OutputConfigInit
  /\ about = "inputs" => budget = 3
  /\ InputConfigInit

SettingsNext ==
  \/ about = "outputs" /\ OutputConfigNext /\ UNCHANGED <<about, icVars>>
  \/ about = "inputs" /\ InputConfigNext /\ UNCHANGED <<about, ocVars>>

SettingsSpec == SettingsInit /\ [][SettingsNext]_<<about, ocVars, icVars>>
=============================================================================
