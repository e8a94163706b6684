------------------------------ MODULE InputConfig ------------------------------
(***************************************************************************)
(* Input and seat configuration: config/input.c, config/seat.c, the input  *)
(* manager and what it makes of libinput devices and keyboards.            *)
(*                                                                         *)
(* Settings are kept under "*", a type or a device's identifier, each      *)
(* merged with the others when it is stored, and a device uses the most    *)
(* specific one.  Devices and outputs come and go.  Seats hold the devices *)
(* attached to them, fallback seats the others.                            *)
(*                                                                         *)
(* Two fields of the keymap, which compile together or not, the output a   *)
(* device is mapped to and its events mode stand for the some thirty that  *)
(* merge alike.  Each identifier is that of one device, of libinput when   *)
(* it is not virtual.                                                      *)
(***************************************************************************)
EXTENDS Integers, FiniteSets, Sequences, SequencesExt

CONSTANTS
  Devices,      \* the devices, named by their identifiers
  Kinds,        \* the types, each standing for the identifier "type:<kind>"
  KindOf,       \* KindOf[d]: the type of a device
  Star,          \* "*"
  SeatNames,    \* the names of seats
  Seat0,        \* the default seat's
  Screens,      \* the outputs
  Compiles,     \* the keymaps <<layout, variant>> that xkbcommon accepts
  InputLines,   \* input commands: [id, set]
  SeatLines,    \* seat commands: [name, set]
  Scripts,      \* what configuration files may say: sequences of commands
  MaxLines,     \* bound: how many commands and reloads there are
  MaxFound,     \* bound: how many devices are plugged in
  Unset,        \* a field no command has set
  NoConfig      \* nothing is stored under the identifier

Fields == {"layout", "variant", "output", "events"}
Identifiers == {Star} \cup Kinds \cup Devices
Blank == [f \in Fields \cup {"kind"} |-> Unset]
NewSeatConfig == [fallback |-> Unset, attach |-> {}]

\* struct input_config and struct seat_config, with what lines may set.
LineValues == {l.set[f] : l \in InputLines, f \in Fields}
FieldValues == LineValues \cup {Unset, "enabled", "disabled"}
Config == [Fields \cup {"kind"} -> FieldValues \cup Kinds]
SeatConfig == [fallback : BOOLEAN \cup {Unset}, attach : SUBSET (Devices \cup {Star})]

ASSUME InputConstants ==
  /\ KindOf \in [Devices -> Kinds] /\ IsFiniteSet(Devices)
  /\ Star \notin Kinds \cup Devices /\ Kinds \cap Devices = {}
  /\ Seat0 \in SeatNames /\ Star \notin SeatNames
  /\ <<Unset, Unset>> \in Compiles
  /\ Unset \notin Kinds \cup BOOLEAN
  /\ NoConfig \notin Config \cup SeatConfig
  /\ \A l \in InputLines : l.id \in Identifiers /\ l.set \in Config
  /\ \A l \in SeatLines : l.name \in SeatNames \cup {Star} /\ l.set \in SeatConfig
  /\ Scripts \subseteq Seq(InputLines \cup SeatLines)

VARIABLES
  configs,   \* config->input_configs and input_type_configs, by identifier
  seatConf,  \* config->seat_configs, by name
  seats,     \* the seats there are
  present,   \* the devices there are
  virtual,   \* those of them that clients made
  holds,     \* per device, the seats that have it
  events,    \* per device, the events mode libinput has
  keymap,    \* per device, the keymap its keyboards have
  online,    \* the enabled outputs
  modeset,   \* an output is gone and its modeset pending
  said,      \* history: per device and field, what the last command left
  layered,   \* history: devices whose configuration was put on their type's
  untold,    \* history: devices of a toggle that was refused half way
  lines,     \* history: commands and reloads so far
  found      \* history: devices plugged in so far

conf == <<configs, seatConf, seats, holds, events, keymap>>
icVars == <<conf, present, virtual, online, modeset, said, layered, untold,
            lines, found>>

InputConfigInit ==
  /\ configs = [i \in Identifiers |-> NoConfig]
  /\ seatConf = [n \in SeatNames \cup {Star} |->
                   IF n = Seat0 THEN [NewSeatConfig EXCEPT !.fallback = TRUE]
                   ELSE NoConfig]
  /\ seats = {Seat0}
  /\ present = {} /\ virtual = {}
  /\ holds = [d \in Devices |-> {}]
  /\ events = [d \in Devices |-> "enabled"]
  /\ keymap = [d \in Devices |-> <<Unset, Unset>>]
  /\ online = Screens /\ modeset = FALSE
  /\ said = [d \in Devices |-> Blank]
  /\ layered = {} /\ untold = {} /\ lines = 0 /\ found = 0

------------------------------------------------------------------------------
(***************************************************************************)
(* Storing input configurations.                                           *)
(***************************************************************************)
Merge(dst, src) ==
  [f \in DOMAIN dst |-> IF f \in Fields /\ src[f] # Unset THEN src[f] ELSE dst[f]]

Stored(m, i) == m[i] # NoConfig
KeymapOf(c) == <<c.layout, c.variant>>
Good(c) == KeymapOf(c) \in Compiles

\* The configurations a wildcard or a type is merged into when it is stored.
Below(m, id) ==
  IF id = Star THEN {i \in Identifiers \ {Star} : Stored(m, i)}
  ELSE {d \in Devices : id \in Kinds /\ Stored(m, d) /\ m[d].kind = id}

\* What a configuration is merged onto: what is there, the type of a device
\* that is present, or "*".  The type's name is lost with the copy of "*".
Onto(m, id, here) ==
  IF Stored(m, id) THEN m[id]
  ELSE IF id \in here /\ Stored(m, KindOf[id])
       THEN Merge([Blank EXCEPT !.kind = KindOf[id]], m[KindOf[id]])
  ELSE IF Stored(m, Star) THEN Merge(Blank, m[Star])
  ELSE [Blank EXCEPT !.kind = IF id \in here THEN KindOf[id] ELSE Unset]

SlipValid(m, id, set, here) == Good(Merge(Onto(m, id, here), set))
Valid(m, id, set, here) ==
  /\ \A i \in Below(m, id) : Good(Merge(m[i], set))
  /\ Good(Merge(Onto(m, id, here), set))

StoreInputConfig(m, id, set, here) ==
  [i \in Identifiers |->
     IF i = id THEN Merge(Onto(m, id, here), set)
     ELSE IF i \in Below(m, id) THEN Merge(m[i], set)
     ELSE m[i]]

\* The configuration a device uses.
InUse(m, d) ==
  IF Stored(m, d) THEN m[d]
  ELSE IF Stored(m, KindOf[d]) THEN m[KindOf[d]]
  ELSE m[Star]

\* A device that appears has its own configuration put on top of its type's.
ApplyInputTypeConfig(m, d) ==
  IF Stored(m, KindOf[d]) /\ Stored(m, d)
  THEN [m EXCEPT ![d] = Merge(Merge([Blank EXCEPT !.kind = KindOf[d]],
                                    m[KindOf[d]]), m[d])]
  ELSE m

------------------------------------------------------------------------------
(***************************************************************************)
(* What devices are told.                                                  *)
(***************************************************************************)
SendEvents(c, up) ==
  IF c.output # Unset /\ c.output \notin up THEN "disabled"
  ELSE IF c.events # Unset THEN c.events ELSE "enabled"

\* libinput devices among ds are configured: a device without a configuration
\* is left as it is.
ConfigureLibinput(ev, m, ds, up) ==
  [d \in Devices |->
     IF d \in ds \ virtual /\ InUse(m, d) # NoConfig
     THEN SendEvents(InUse(m, d), up) ELSE ev[d]]

SetLayout(c) ==
  IF c # NoConfig /\ Good(c) THEN KeymapOf(c) ELSE <<Unset, Unset>>

\* Keyboards among ds that a seat has are configured.
ConfigureKeyboards(km, m, ds) ==
  [d \in Devices |-> IF d \in ds \ virtual THEN SetLayout(InUse(m, d)) ELSE km[d]]

Held(h) == {d \in Devices : h[d] # {}}

------------------------------------------------------------------------------
(***************************************************************************)
(* Seats and their configurations.                                         *)
(***************************************************************************)
MergeSeat(dst, src) ==
  [fallback |-> IF src.fallback # Unset THEN src.fallback ELSE dst.fallback,
   attach |-> dst.attach \cup src.attach]

StoreSeatConfig(sc, name, set) ==
  [n \in DOMAIN sc |->
     IF n = name
     THEN MergeSeat(IF sc[n] # NoConfig THEN sc[n]
                    ELSE IF n # Star /\ sc[Star] # NoConfig THEN sc[Star]
                    ELSE NewSeatConfig, set)
     ELSE IF name = Star /\ sc[n] # NoConfig THEN MergeSeat(sc[n], set)
     ELSE sc[n]]

\* The seats a device belongs to.
Placed(sc, ss, d) ==
  LET attaching == {n \in ss : sc[n] # NoConfig /\ {d, Star} \cap sc[n].attach # {}}
      fallbacks == {n \in ss : sc[n] # NoConfig /\ sc[n].fallback = TRUE}
  IN IF attaching # {} THEN attaching ELSE fallbacks

\* The state after seat configurations are applied in turn: seats are made,
\* and every device goes where it belongs, virtual ones too.
ApplySeatConfig(sc, names, ss) ==
  /\ seats' = ss \cup (names \ {Star})
  /\ holds' = [d \in Devices |->
                 IF d \in present THEN Placed(sc, seats', d) ELSE {}]

\* No seat but "*" says whether it is a fallback: the default seat becomes one.
VerifyFallbackSeat(sc, ss) ==
  IF \E n \in ss : sc[n] # NoConfig /\ sc[n].fallback # Unset THEN sc
  ELSE StoreSeatConfig(sc, Seat0, [NewSeatConfig EXCEPT !.fallback = TRUE])

Named(sc) == {n \in DOMAIN sc : sc[n] # NoConfig}

------------------------------------------------------------------------------
(***************************************************************************)
(* Commands.                                                               *)
(***************************************************************************)
Matching(id) ==
  {d \in present : id \in {Star, KindOf[d], d}}

\* The rest of cmd_input: every matching device is configured.
ApplyInputConfig(id) ==
  /\ events' = ConfigureLibinput(events, configs', Matching(id), online)
  /\ keymap' = ConfigureKeyboards(keymap, configs', Matching(id) \cap Held(holds))

Note(ds, set) ==
  said' = [d \in Devices |-> IF d \in ds THEN Merge(said[d], set) ELSE said[d]]

CmdInput(l) ==
  /\ lines < MaxLines /\ lines' = lines + 1
  /\ IF Valid(configs, l.id, l.set, present)
     THEN /\ configs' = StoreInputConfig(configs, l.id, l.set, present)
          /\ ApplyInputConfig(l.id)
          /\ Note(Matching(l.id), l.set)
     ELSE UNCHANGED <<configs, events, keymap, said>>
  /\ UNCHANGED <<seatConf, seats, holds, present, virtual, online, modeset,
                 layered, untold, found>>

\* events toggle, of what libinput has now.
ToggledSet(d) ==
  [Blank EXCEPT !.events =
     IF d \in virtual THEN Unset
     ELSE IF events[d] = "enabled" THEN "disabled" ELSE "enabled"]

\* Each of the devices q in turn.
ToggleEach(m, q) ==
  LET toggled[i \in 0 .. Len(q)] ==
        IF i = 0 THEN m
        ELSE StoreInputConfig(toggled[i-1], q[i], ToggledSet(q[i]), present)
  IN  toggled[Len(q)]

\* For "*" and types, each matching device gets a configuration of its own,
\* unchecked, before an empty one is stored for all; when that is refused, the
\* devices are not told.
CmdEventsToggle(id) ==
  /\ lines < MaxLines /\ lines' = lines + 1
  /\ LET own == id \in Devices
         each == IF own THEN configs ELSE ToggleEach(configs, SetToSeq(Matching(id)))
         set == IF own /\ id \in present THEN ToggledSet(id) ELSE Blank
     IN IF Valid(each, id, set, present)
        THEN /\ configs' = StoreInputConfig(each, id, set, present)
             /\ ApplyInputConfig(id)
             /\ said' = [d \in Devices |-> IF d \in Matching(id)
                                           THEN Merge(said[d], ToggledSet(d)) ELSE said[d]]
             /\ UNCHANGED untold
        ELSE /\ configs' = each
             /\ untold' = untold \cup (IF own THEN {} ELSE Matching(id))
             /\ UNCHANGED <<events, keymap, said>>
  /\ UNCHANGED <<seatConf, seats, holds, present, virtual, online, modeset,
                 layered, found>>

CmdSeat(l) ==
  /\ lines < MaxLines /\ lines' = lines + 1
  /\ seatConf' = StoreSeatConfig(seatConf, l.name, l.set)
  /\ ApplySeatConfig(seatConf', {l.name}, seats)
  /\ keymap' = ConfigureKeyboards(keymap, configs, Held(holds'))
  /\ UNCHANGED <<configs, events, present, virtual, online, modeset, said,
                 layered, untold, found>>

\* A configuration is read: nothing is applied, and a line that fails is
\* left out.
ReadLine(c, l) ==
  IF l \in SeatLines THEN [c EXCEPT !.seat = StoreSeatConfig(@, l.name, l.set)]
  ELSE IF Valid(c.input, l.id, l.set, present)
       THEN [c EXCEPT !.input = StoreInputConfig(@, l.id, l.set, present)]
  ELSE c

ReadConfig(script) ==
  LET read[i \in 0 .. Len(script)] ==
        IF i = 0 THEN [input |-> [id \in Identifiers |-> NoConfig],
                       seat |-> [n \in SeatNames \cup {Star} |-> NoConfig]]
        ELSE ReadLine(read[i-1], script[i])
  IN  read[Len(script)]

\* Devices are reset, the new configuration is read and applied, and the
\* seats only the old one names are destroyed with what they hold.
LoadMainConfig(script) ==
  /\ lines < MaxLines /\ lines' = lines + 1
  /\ LET new == ReadConfig(script)
         sc == VerifyFallbackSeat(new.seat, seats)
         gone == (Named(seatConf) \ Named(sc)) \ {Star}
         ss == seats \cup ((Named(sc)) \ {Star})
     IN /\ configs' = new.input /\ seatConf' = sc
        /\ seats' = ss \ gone
        /\ holds' = [d \in Devices |->
                       IF d \in present THEN Placed(sc, ss, d) \ gone ELSE {}]
        /\ events' = ConfigureLibinput(
             [d \in Devices |-> IF d \in virtual THEN events[d] ELSE "enabled"],
             new.input, present, online)
        /\ keymap' = ConfigureKeyboards(keymap, new.input, Held(holds) \cup Held(holds'))
  /\ said' = [d \in Devices |-> Blank]
  /\ layered' = {} /\ untold' = {}
  /\ UNCHANGED <<present, virtual, online, modeset, found>>

------------------------------------------------------------------------------
(***************************************************************************)
(* Devices and outputs.                                                    *)
(***************************************************************************)
HandleNewInput(d) ==
  /\ d \notin present /\ found < MaxFound
  /\ found' = found + 1
  /\ present' = present \cup {d} /\ virtual' = virtual \ {d}
  /\ configs' = ApplyInputTypeConfig(configs, d)
  /\ layered' = IF configs' # configs THEN layered \cup {d} ELSE layered
  /\ events' = [events EXCEPT ![d] = IF InUse(configs', d) # NoConfig
                                     THEN SendEvents(InUse(configs', d), online)
                                     ELSE "enabled"]
  /\ LET sc == VerifyFallbackSeat(seatConf, seats)
     IN /\ seatConf' = sc
        /\ seats' = IF sc # seatConf THEN seats \cup {Seat0} ELSE seats
        /\ holds' = [e \in Devices |->
                       IF e = d \/ (sc # seatConf /\ e \in present)
                       THEN Placed(sc, seats', e) ELSE holds[e]]
        /\ keymap' = [keymap EXCEPT ![d] = IF holds'[d] # {}
                                           THEN SetLayout(InUse(configs', d))
                                           ELSE <<Unset, Unset>>]
  /\ UNCHANGED <<online, modeset, said, untold, lines>>

\* A virtual keyboard or pointer, for the seat its client names.
HandleVirtual(d, n) ==
  /\ d \notin present /\ n \in seats /\ found < MaxFound
  /\ found' = found + 1
  /\ present' = present \cup {d} /\ virtual' = virtual \cup {d}
  /\ holds' = [holds EXCEPT ![d] = {n}]
  /\ UNCHANGED <<configs, seatConf, seats, events, keymap, online, modeset, said,
                 layered, untold, lines>>

HandleDeviceDestroy(d) ==
  /\ d \in present
  /\ present' = present \ {d} /\ virtual' = virtual \ {d}
  /\ holds' = [holds EXCEPT ![d] = {}]
  /\ events' = [events EXCEPT ![d] = "enabled"]
  /\ keymap' = [keymap EXCEPT ![d] = <<Unset, Unset>>]
  /\ said' = [said EXCEPT ![d] = Blank]
  /\ UNCHANGED <<configs, seatConf, seats, online, modeset, layered, untold, lines, found>>

\* An output is destroyed; the modeset that follows is put off.
OutputGone(o) ==
  /\ o \in online
  /\ online' = online \ {o} /\ modeset' = TRUE
  /\ UNCHANGED <<conf, present, virtual, said, layered, untold, lines, found>>

SlipConfigureAllInputMappings(up) ==
  /\ online' = up /\ modeset' = FALSE
  /\ UNCHANGED <<conf, present, virtual, said, layered, untold, lines, found>>
\* A modeset, which may enable outputs or turn them off, ends by configuring
\* all mappings.
ConfigureAllInputMappings(up) ==
  /\ online' = up /\ modeset' = FALSE
  /\ events' = ConfigureLibinput(events, configs, present, up)
  /\ UNCHANGED <<configs, seatConf, seats, holds, keymap, present, virtual, said,
                 layered, untold, lines, found>>

InputConfigNext ==
  \/ \E l \in InputLines : CmdInput(l)
  \/ \E id \in Identifiers : CmdEventsToggle(id)
  \/ \E l \in SeatLines : CmdSeat(l)
  \/ \E script \in Scripts : LoadMainConfig(script)
  \/ \E d \in Devices : HandleNewInput(d) \/ HandleDeviceDestroy(d)
  \/ \E d \in Devices, n \in SeatNames : HandleVirtual(d, n)
  \/ \E o \in Screens : OutputGone(o)
  \/ \E up \in SUBSET Screens : ConfigureAllInputMappings(up)

InputConfigSpec == InputConfigInit /\ [][InputConfigNext]_icVars

------------------------------------------------------------------------------
\* A device that is there obeys the last command that covers it, under
\* whatever identifier ("When executing input commands, the settings are
\* applied to all matching input devices!", sway-input.5.scd:20); unless its
\* own configuration was stored without its type, when a type's does not
\* reach it (store_input_config, merge_type_on_existing), or a toggle for many
\* was refused half way.
Reached(d) == configs[d] # NoConfig => configs[d].kind # Unset
LastCommandRules ==
  \A d \in present : \A f \in Fields :
    Reached(d) /\ said[d][f] # Unset /\ (f = "events" => d \notin untold)
      => InUse(configs, d)[f] = said[d][f]

\* What a device does agrees with the configuration it uses, wherever that was
\* stored and whichever way the device, its seat or its output came: it is
\* silent while its output is away, and its keyboard has its keymap.  Only a
\* toggle for many that is refused half way leaves devices behind.
DeviceObeys ==
  \A d \in present \ virtual : InUse(configs, d) # NoConfig =>
    /\ ~modeset /\ d \notin untold => events[d] = SendEvents(InUse(configs, d), online)
    /\ holds[d] # {} => keymap[d] = SetLayout(InUse(configs, d))

\* No keymap in use fails to compile, or some command was accepted that
\* should not have been; only a configuration that was put on its type's when
\* the device appeared was never tried (validate_xkb_merge).
KeymapsCompile ==
  \A i \in Identifiers \ layered : configs[i] # NoConfig => Good(configs[i])

\* Every device that was plugged in is on the seats that attach it or, if none
\* does, on the fallback seats (input_manager_apply_seat_config).
DevicesPlaced ==
  \A d \in present \ virtual : holds[d] = Placed(seatConf, seats, d)

\* A device does what it was last told to, on the seats that attach it.
DevicesObey == LastCommandRules /\ DeviceObeys /\ DevicesPlaced
=============================================================================
