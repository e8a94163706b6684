----------------------------- MODULE OutputConfig -----------------------------
(***************************************************************************)
(* Output configuration: config/output.c, the modesets of desktop/output.c *)
(* and the output commands.                                                *)
(*                                                                         *)
(* Commands leave output_configs in a list, under a wildcard, an output's  *)
(* name or its identifier; a modeset merges those that apply to each       *)
(* output and tries the whole, and when the backend refuses it searches    *)
(* formats, modes and adaptive sync output by output.  Modesets are put    *)
(* off by a timer.  Clients of wlr-output-management try or apply a        *)
(* configuration of their own on top of the stored ones.                   *)
(*                                                                         *)
(* Scale, transform, subpixel, position, backgrounds and colour transforms *)
(* are further fields that merge alike and are not modelled.  The backend  *)
(* is external: it accepts settings an output can do, within a budget.     *)
(***************************************************************************)
EXTENDS Integers, FiniteSets, Sequences, SequencesExt

CONSTANTS
  Outputs,      \* the outputs that may be plugged in
  Modes,        \* the modes of every output, the preferred one first
  Formats,      \* the render formats of at most 8 bits, in search order
  Works,        \* Works[o]: the settings o can be driven with
  Cost,         \* Cost[mode]: what a mode takes of the backend's budget
  Budgets,      \* what the backend may have
  Commands,     \* output commands: [name, field, value]
  MaxCommands,  \* bound: how many configurations are stored
  MaxPlugs,     \* bound: how many outputs are plugged in
  NotSet,       \* the value of a field no command has set
  Off,          \* the state of an output that is disabled
  Failed        \* the search found nothing

OutputFields == {"enabled", "power", "mode", "sync"}
ModeSet == {Modes[i] : i \in DOMAIN Modes}
FormatSet == {Formats[i] : i \in DOMAIN Formats}
ValuesOf(field) == IF field = "mode" THEN ModeSet ELSE {0, 1}
Setting == [mode : ModeSet, format : FormatSet, sync : BOOLEAN]

Wildcard == <<"*", "*">>
NameOf(o) == <<o, "name">>
IdOf(o) == <<o, "id">>
Names == {Wildcard} \cup {NameOf(o) : o \in Outputs} \cup {IdOf(o) : o \in Outputs}

ASSUME OutputConstants ==
  /\ IsFiniteSet(Outputs)
  /\ Modes \in Seq(ModeSet) /\ Modes # <<>>
  /\ Formats \in Seq(FormatSet) /\ Formats # <<>>
  /\ \A c \in Commands : c.name \in Names /\ c.field \in OutputFields
                        /\ c.value \in ValuesOf(c.field)
  /\ NotSet \notin ModeSet \cup {0, 1}
  /\ Off \notin Setting /\ Failed \notin Seq(Setting \cup {Off})
  /\ \A o \in Outputs : Works[o] \subseteq Setting
  /\ \A m \in ModeSet : Cost[m] \in Nat
  /\ Budgets \subseteq Nat

VARIABLES
  stored,   \* config->output_configs
  plugged,  \* root->all_outputs, newest first
  enabled,  \* outputs with output->enabled
  lit,      \* per output, the state the backend committed
  pending,  \* server.delayed_modeset is armed
  budget,   \* the backend's
  shown,    \* history: per output, the configuration last put in force
  outcome,  \* history: how the last modeset ended
  last,     \* history: per output and field, the last command's value
  blind,    \* history: outputs configured by name while unplugged
  count     \* history: configurations stored and outputs plugged so far

ocVars == <<stored, plugged, enabled, lit, pending, budget, shown, outcome,
            last, blind, count>>

NewOutputConfig == [f \in OutputFields |-> NotSet]
Plugged == Range(plugged)

OutputConfigInit ==
  /\ stored = <<>> /\ plugged = <<>> /\ enabled = {}
  /\ lit = [o \in Outputs |-> Off]
  /\ pending = FALSE
  /\ budget \in Budgets
  /\ shown = [o \in Outputs |-> NewOutputConfig]
  /\ outcome = "none"
  /\ last = [o \in Outputs |-> NewOutputConfig]
  /\ blind = {}
  /\ count = [commands |-> 0, plugs |-> 0]

------------------------------------------------------------------------------
(***************************************************************************)
(* Storing and finding configurations.                                     *)
(***************************************************************************)
MergeOutput(dst, src) ==
  [f \in OutputFields |-> IF src[f] # NotSet THEN src[f] ELSE dst[f]]

Supersede(dst, src) ==
  [f \in OutputFields |-> IF src[f] # NotSet THEN NotSet ELSE dst[f]]

\* A wildcard takes its fields back from every other configuration, and the
\* name of an output takes them from its identifier, if the output is there.
SlipSupersedes(name, old) == name = Wildcard
Supersedes(name, old) ==
  \/ name = Wildcard
  \/ \E o \in Plugged : name = NameOf(o) /\ old = IdOf(o)

StoreOutputConfig(list, name, set) ==
  LET update(old) ==
        IF old.name = name THEN [old EXCEPT !.set = MergeOutput(@, set)]
        ELSE IF Supersedes(name, old.name) THEN [old EXCEPT !.set = Supersede(@, set)]
        ELSE old
      updated == [i \in DOMAIN list |-> update(list[i])]
  IN IF \E i \in DOMAIN list : list[i].name = name THEN updated
     ELSE Append(updated, [name |-> name, set |-> set])

\* Those with the name are merged on top of dst, in the order of the list.
MergeNamed(dst, list, name) ==
  LET merged[i \in 0 .. Len(list)] ==
        IF i = 0 THEN dst
        ELSE IF list[i].name = name THEN MergeOutput(merged[i-1], list[i].set)
        ELSE merged[i-1]
  IN  merged[Len(list)]

FindOutputConfig(list, o) ==
  MergeNamed(MergeNamed(MergeNamed(NewOutputConfig, list, Wildcard), list, NameOf(o)),
             list, IdOf(o))

Disabling(oc) == oc.enabled = 0 \/ oc.power = 0

------------------------------------------------------------------------------
(***************************************************************************)
(* The backend.  A state gives each plugged output a setting or Off.       *)
(***************************************************************************)
CostOf(setting) == IF setting = Off THEN 0 ELSE Cost[setting.mode]

TotalCost(states) ==
  LET total[i \in 0 .. Len(states)] == IF i = 0 THEN 0 ELSE total[i-1] + CostOf(states[i])
  IN  total[Len(states)]

\* wlr_output_swapchain_manager_prepare; an output without a state yet is
\* off (clear_later_output_states).
Prepare(order, states) ==
  LET all == [i \in DOMAIN order |-> IF i <= Len(states) THEN states[i] ELSE Off]
  IN /\ \A i \in DOMAIN order : all[i] = Off \/ all[i] \in Works[order[i]]
     /\ TotalCost(all) <= budget

------------------------------------------------------------------------------
(***************************************************************************)
(* The search.                                                             *)
(***************************************************************************)
\* queue_output_config.
Requested(oc) ==
  IF Disabling(oc) THEN Off
  ELSE [mode |-> IF oc.mode = NotSet THEN Modes[1] ELSE oc.mode,
        format |-> Formats[1], sync |-> oc.sync = 1]

SyncsToTry(oc) == IF oc.sync = 1 THEN <<TRUE, FALSE>> ELSE <<FALSE>>

\* We only search for mode if one is not explicitly specified in the config.
ModesToTry(oc) == IF oc.mode # NotSet THEN <<oc.mode>> ELSE Modes

\* What is tried for an output: through the formats, for each through the
\* modes, for each with and without adaptive sync.
SlipTries(oc) == {1} \X (DOMAIN ModesToTry(oc)) \X (DOMAIN SyncsToTry(oc))
Tries(oc) == (DOMAIN Formats) \X (DOMAIN ModesToTry(oc)) \X (DOMAIN SyncsToTry(oc))

Tried(oc, t) ==
  [mode |-> ModesToTry(oc)[t[2]], format |-> Formats[t[1]], sync |-> SyncsToTry(oc)[t[3]]]

NotLater(t, u) ==
  \/ t[1] < u[1]
  \/ t[1] = u[1] /\ t[2] < u[2]
  \/ t[1] = u[1] /\ t[2] = u[2] /\ t[3] <= u[3]

States(n) == UNION {[1..k -> Setting \cup {Off}] : k \in 0..n}

\* The outputs so far are tested before the search of the rest.
SearchFinish(search, order, states) ==
  IF Prepare(order, states) THEN search[states] ELSE Failed

\* The next output: the first thing tried with which the rest succeeds, or
\* off, if it is to be or nothing else helps.
SearchOutput(search, order, configs, degradeToOff, states) ==
  LET oc == configs[order[Len(states) + 1]]
      with(x) == SearchFinish(search, order, Append(states, x))
      good == {t \in Tries(oc) : with(Tried(oc, t)) # Failed}
  IN IF Disabling(oc) \/ (good = {} /\ degradeToOff) THEN with(Off)
     ELSE IF good = {} THEN Failed
     ELSE with(Tried(oc, CHOOSE t \in good : \A u \in good : NotLater(t, u)))

\* search_valid_config, depth first.
SearchValidConfig(order, configs, degradeToOff) ==
  LET search[states \in States(Len(order))] ==
        IF Len(states) = Len(order) THEN states
        ELSE SearchOutput(search, order, configs, degradeToOff, states)
  IN search[<<>>]

Resolve(order, configs, degradeToOff) ==
  LET asked == [i \in DOMAIN order |-> Requested(configs[order[i]])]
  IN IF Prepare(order, asked) THEN asked
     ELSE SearchValidConfig(order, configs, degradeToOff)

\* Existing enabled outputs come first, those to be disabled last; the order
\* within a class is up to qsort.
SlipPriority(configs, o) == IF Disabling(configs[o]) THEN 3 ELSE 1
Priority(configs, o) ==
  IF Disabling(configs[o]) THEN 3 ELSE IF o \in enabled THEN 1 ELSE 2

Orders(configs) ==
  {order \in SetToSeqs(Plugged) : \A i, j \in DOMAIN order :
     i < j => Priority(configs, order[i]) <= Priority(configs, order[j])}

Configs(list) == [o \in Outputs |-> FindOutputConfig(list, o)]

------------------------------------------------------------------------------
(***************************************************************************)
(* Applying.  Committing what was tested may still fail.                   *)
(***************************************************************************)
\* finalize_output_config goes by the configuration: an output the search
\* turned off is enabled all the same.
Finalize(configs) ==
  {o \in Plugged : configs[o].enabled # 0}

Commit(order, configs, states) ==
  /\ lit' = [o \in Outputs |->
       IF o \in Plugged THEN states[CHOOSE i \in DOMAIN order : order[i] = o] ELSE Off]
  /\ enabled' = Finalize(configs)
  /\ shown' = [o \in Outputs |-> IF o \in Plugged THEN configs[o] ELSE shown[o]]

Refuse == UNCHANGED <<lit, enabled, shown>>

\* apply_stored_output_configs
Modeset(list) ==
  LET configs == Configs(list)
  IN \E order \in Orders(configs) :
       LET states == Resolve(order, configs, TRUE)
       IN \/ states # Failed /\ Commit(order, configs, states) /\ outcome' = "ok"
          \/ Refuse /\ outcome' = "refused"

TimerModesetHandle ==
  /\ pending
  /\ pending' = FALSE
  /\ Modeset(stored)
  /\ UNCHANGED <<stored, plugged, budget, last, blind, count>>

------------------------------------------------------------------------------
(***************************************************************************)
(* Outputs come and go.                                                    *)
(***************************************************************************)
HandleNewOutput(o) ==
  /\ o \notin Plugged /\ count.plugs < MaxPlugs
  /\ plugged' = <<o>> \o plugged
  /\ pending' = TRUE
  /\ count' = [count EXCEPT !.plugs = @ + 1]
  /\ UNCHANGED <<stored, enabled, lit, budget, shown, outcome, last, blind>>

BeginDestroy(o) ==
  /\ \E i \in DOMAIN plugged : plugged[i] = o /\ plugged' = RemoveAt(plugged, i)
  /\ enabled' = enabled \ {o}
  /\ lit' = [lit EXCEPT ![o] = Off]
  /\ pending' = TRUE
  /\ UNCHANGED <<stored, budget, shown, outcome, last, blind, count>>

------------------------------------------------------------------------------
(***************************************************************************)
(* Configurations are stored.                                              *)
(***************************************************************************)
Matches(name, o) == name \in {Wildcard, NameOf(o), IdOf(o)}

One(field, value) == [NewOutputConfig EXCEPT ![field] = value]

Remember(name, set) ==
  /\ last' = [o \in Outputs |-> IF Matches(name, o) THEN MergeOutput(last[o], set) ELSE last[o]]
  /\ blind' = blind \cup {o \in Outputs \ Plugged : name # Wildcard /\ Matches(name, o)}
  /\ count' = [count EXCEPT !.commands = @ + 1]

Store(name, set) ==
  /\ count.commands < MaxCommands
  /\ stored' = StoreOutputConfig(stored, name, set)
  /\ Remember(name, set)

CmdOutput(c) ==
  /\ Store(c.name, One(c.field, c.value))
  /\ pending' = TRUE
  /\ UNCHANGED <<plugged, enabled, lit, budget, shown, outcome>>

CmdToggle(o) ==
  /\ o \in Plugged
  /\ Store(NameOf(o),
       One("enabled", IF FindOutputConfig(stored, o).enabled = 0 THEN 1 ELSE 0))
  /\ pending' = TRUE
  /\ UNCHANGED <<plugged, enabled, lit, budget, shown, outcome>>

\* The command power toggle and zwlr_output_power_v1 both store the power.
SetPower(o, power) ==
  /\ o \in Plugged
  /\ Store(NameOf(o), One("power", power))
  /\ pending' = TRUE
  /\ UNCHANGED <<plugged, enabled, lit, budget, shown, outcome>>

PowerToggle(o) ==
  SetPower(o, IF o \in enabled /\ lit[o] = Off THEN 1 ELSE 0)

\* The backend (a nested compositor's window) asks for a mode.
HandleRequestState(o, mode) ==
  /\ o \in Plugged /\ lit[o] # Off
  /\ Store(NameOf(o), One("mode", mode))
  /\ pending' = FALSE
  /\ Modeset(stored')
  /\ UNCHANGED <<plugged, budget>>

------------------------------------------------------------------------------
(***************************************************************************)
(* wlr-output-management: heads gives every output a mode or Off.          *)
(***************************************************************************)
ConfigForHead(head) ==
  IF head = Off THEN One("enabled", 0)
  ELSE [enabled |-> 1, power |-> NotSet, mode |-> head, sync |-> 0]

HeadConfigs(heads) ==
  [i \in DOMAIN plugged |->
     [name |-> NameOf(plugged[i]), set |-> ConfigForHead(heads[plugged[i]])]]

StoreAll(list, new) ==
  LET stores[i \in 0 .. Len(new)] ==
        IF i = 0 THEN list ELSE StoreOutputConfig(stores[i-1], new[i].name, new[i].set)
  IN  stores[Len(new)]

\* Try, or apply and store.  Either, when it succeeds, drops the modeset
\* that was put off.  A configuration that is only tried counts as refused
\* when it took a search.
OutputManagerApply(heads, testOnly) ==
  /\ plugged # <<>> /\ count.commands < MaxCommands
  /\ LET new == HeadConfigs(heads)
         configs == Configs(stored \o new)
     IN \E order \in Orders(configs) :
          LET states == Resolve(order, configs, FALSE)
              asked == [i \in DOMAIN order |-> Requested(configs[order[i]])]
              ok == IF testOnly THEN Prepare(order, asked) ELSE states # Failed
          IN \/ /\ ok /\ ~testOnly
                /\ Commit(order, configs, states)
                /\ stored' = StoreAll(stored, new)
                /\ last' = [o \in Outputs |-> IF o \in Plugged
                     THEN MergeOutput(last[o], ConfigForHead(heads[o])) ELSE last[o]]
                /\ count' = [count EXCEPT !.commands = @ + 1]
                /\ pending' = FALSE /\ outcome' = "manager"
             \/ /\ ok /\ testOnly
                /\ pending' = FALSE /\ outcome' = "manager"
                /\ Refuse /\ UNCHANGED <<stored, last, count>>
             \/ /\ ~ok \/ ~testOnly
                /\ Refuse /\ UNCHANGED <<stored, last, count, pending, outcome>>
  /\ UNCHANGED <<plugged, budget, blind>>

OutputConfigNext ==
  \/ TimerModesetHandle
  \/ \E o \in Outputs : HandleNewOutput(o) \/ BeginDestroy(o)
  \/ \E c \in Commands : CmdOutput(c)
  \/ \E o \in Outputs : CmdToggle(o) \/ PowerToggle(o)
  \/ \E o \in Outputs, m \in ModeSet : HandleRequestState(o, m)
  \/ \E o \in Outputs, p \in {0, 1} : SetPower(o, p)
  \/ \E heads \in [Plugged -> ModeSet \cup {Off}], t \in BOOLEAN :
       OutputManagerApply(heads, t)

OutputConfigSpec == OutputConfigInit /\ [][OutputConfigNext]_ocVars

------------------------------------------------------------------------------
\* Whatever was stored under a wildcard, a name and an identifier, and in
\* which order, the last command that spoke of an output has its way; unless
\* one named the output while it was away, when the identifier may win over a
\* later name (store_output_config, find_output_config_from_list).
LastCommandWins ==
  \A o \in Plugged \ blind : FindOutputConfig(stored, o) = last[o]

\* What a configuration leaves open.
Allowed(oc) ==
  IF Disabling(oc) THEN {Off}
  ELSE {x \in Setting : /\ oc.mode # NotSet => x.mode = oc.mode
                        /\ x.sync => oc.sync = 1}

Assignments(order, configs) ==
  {states \in [DOMAIN order -> Setting \cup {Off}] :
     \A i \in DOMAIN order : states[i] \in Allowed(configs[order[i]])}

\* The search finds a configuration whenever there is one; and with leave to
\* turn outputs off it always finds one, in which an output is off only if
\* nothing works for it next to the outputs before it (search_valid_config
\* .. search_finish).
SearchIsComplete ==
  LET configs == Configs(stored)
  IN \A order \in Orders(configs) :
       LET whole == SearchValidConfig(order, configs, FALSE)
           part == SearchValidConfig(order, configs, TRUE)
       IN /\ (whole = Failed) <=>
               (\A states \in Assignments(order, configs) : ~Prepare(order, states))
          /\ part # Failed /\ Prepare(order, part)
          /\ \A i \in DOMAIN order : part[i] = Off =>
               \A c \in Allowed(configs[order[i]]) \ {Off} :
                 ~Prepare(order, Append(SubSeq(part, 1, i - 1), c))

\* What is stored is in force, or a modeset is on its way, or the last one
\* was refused or was a manager's (request_modeset, force_modeset).
StoredIsInForce ==
  outcome = "ok" /\ ~pending => \A o \in Plugged : shown[o] = FindOutputConfig(stored, o)

\* An output does what it was last told to.
OutputsObey == LastCommandWins /\ StoredIsInForce

\* The only lit output is not turned off for the sake of one that is plugged
\* in: existing enabled outputs have priority
\* (compare_matched_output_config_priority).
HotplugKeepsLit ==
  [][\A o \in Plugged :
       (/\ TimerModesetHandle
        /\ lit' # lit
        /\ enabled = {o} /\ lit[o] # Off
        /\ shown[o] = FindOutputConfig(stored, o))
       => lit'[o] # Off]_ocVars
=============================================================================
