---------------------------------- MODULE Tray ----------------------------------
(***************************************************************************)
(* The system tray of several swaybar processes on one D-Bus               *)
(* (swaybar/tray): status notifier items register with a watcher, which    *)
(* any bar may own, and every bar is a host that shows the items.          *)
(*                                                                         *)
(* The bus routes messages in one order; each bar handles its own in the   *)
(* order they were sent to it (tray_in).  Matching of names is that of     *)
(* org.freedesktop.StatusNotifierWatcher.                                  *)
(***************************************************************************)
EXTENDS Naturals, Sequences, FiniteSets

CONSTANTS
  Bars,       \* processes with a tray
  Apps,       \* applications, each with one item
  Nobody,
  MaxStarts,  \* bound: how often trays are created
  MaxQueue    \* bound: applications and bars act while no inbox is longer

(* A name on the bus is one process's; no name at all is none.             *)
ASSUME BusNames == Nobody \notin Bars /\ Bars \cap Apps = {}

VARIABLES
  phase,    \* a tray: "off", "named" (create_watcher is done) or "ready"
  owner,    \* who owns the watcher's name on the bus
  watcher,  \* the watcher object of a bar: its items and hosts
  shown,    \* tray->items
  apps,     \* applications: "new", "on" or "gone" (names on the bus are unique)
  inbox,    \* messages the bus has routed to a bar
  late,     \* bars that were starting, and not listening, when the owner left
  starts

trayVars == <<phase, owner, watcher, shown, apps, inbox, late, starts>>

NoWatcher == [on |-> FALSE, items |-> {}, hosts |-> {}]
NewWatcher == [NoWatcher EXCEPT !.on = TRUE]
Ready == {b \in Bars : phase[b] = "ready"}
Listening == Ready \union {b \in Bars : watcher[b].on}

(* Message m is routed to every bar of B, after the messages sent before *)
Broadcast(box, B, m) ==
  [b \in Bars |-> IF b \in B THEN Append(box[b], m) ELSE box[b]]

Room == \A b \in Bars : Len(inbox[b]) <= MaxQueue

(* register_to_watcher: two calls to whoever owns the name, if anybody *)
RegisterToWatcher(box, who, b) ==
  IF who = Nobody THEN box
  ELSE [box EXCEPT ![who] = @ \o <<[type |-> "host", from |-> b],
                                   [type |-> "get", from |-> b]>>]

TrayInit ==
  /\ phase = [b \in Bars |-> "off"] /\ owner = Nobody
  /\ watcher = [b \in Bars |-> NoWatcher] /\ shown = [b \in Bars |-> {}]
  /\ apps = [a \in Apps |-> "new"] /\ inbox = [b \in Bars |-> <<>>] /\ late = {} /\ starts = 0

(* A call of b that is still to be answered is answered to nobody *)
Unasked(q, b) ==
  [i \in DOMAIN q |-> IF q[i].type = "get" /\ q[i].from = b
                      THEN [type |-> "get", from |-> Nobody] ELSE q[i]]

(* The name is free: the bar owns it and every bar is told *)
Own(b, box, ready) ==
  /\ owner' = b
  /\ watcher' = [watcher EXCEPT ![b] = NewWatcher]
  /\ late' = {}
  /\ inbox' = Broadcast(box, ready, [type |-> "owner", new |-> b])

(* The first half of create_tray: create_watcher, which fails when another *)
(* bar owns the name                                                       *)
CreateWatcher(b) ==
  /\ phase[b] = "off" /\ starts < MaxStarts /\ Room
  /\ phase' = [phase EXCEPT ![b] = "named"]
  /\ starts' = starts + 1
  /\ \/ owner = Nobody /\ Own(b, inbox, Ready)
     \/ owner # Nobody /\ UNCHANGED <<owner, watcher, inbox, late>>
  /\ UNCHANGED <<shown, apps>>

(* Mutant: the items that were there before the host are not asked for.    *)
SlipInitHost(b) ==
  /\ phase[b] = "named"
  /\ phase' = [phase EXCEPT ![b] = "ready"]
  /\ inbox' = IF owner = Nobody THEN inbox
              ELSE Broadcast(inbox, {owner}, [type |-> "host", from |-> b])
  /\ UNCHANGED <<owner, watcher, shown, apps, late, starts>>

(* The second half: the bar listens for owners and items from now on, and  *)
(* registers as a host                                                     *)
InitHost(b) ==
  /\ phase[b] = "named"
  /\ phase' = [phase EXCEPT ![b] = "ready"]
  /\ inbox' = RegisterToWatcher(inbox, owner, b)
  /\ UNCHANGED <<owner, watcher, shown, apps, late, starts>>

(* destroy_tray, or the end of the process: its names are released, its    *)
(* calls get no reply.                                                     *)
DestroyTray(b) ==
  LET others == Listening \ {b}
      unasked == [c \in Bars |-> IF c = b THEN <<>> ELSE Unasked(inbox[c], b)]
      hostless == IF phase[b] = "ready"
                  THEN Broadcast(unasked, others, [type |-> "hostgone", who |-> b])
                  ELSE unasked
  IN  /\ phase[b] # "off" /\ Room
      /\ phase' = [phase EXCEPT ![b] = "off"]
      /\ shown' = [shown EXCEPT ![b] = {}]
      /\ watcher' = [watcher EXCEPT ![b] = NoWatcher]
      /\ \/ /\ owner = b
            /\ owner' = Nobody
            /\ inbox' = Broadcast(hostless, Ready \ {b},
                                  [type |-> "owner", new |-> Nobody])
            /\ late' = (late \union {c \in Bars : phase[c] = "named"}) \ {b}
         \/ owner # b /\ inbox' = hostless /\ late' = late \ {b}
            /\ UNCHANGED owner
      /\ UNCHANGED <<apps, starts>>

AppStart(a) ==
  /\ apps[a] = "new" /\ Room
  /\ apps' = [apps EXCEPT ![a] = "on"]
  /\ UNCHANGED <<phase, owner, watcher, shown, inbox, late, starts>>

(* RegisterStatusNotifierItem reaches whoever owns the name *)
AppRegister(a) ==
  /\ apps[a] = "on" /\ owner # Nobody /\ Room
  /\ inbox' = Broadcast(inbox, {owner}, [type |-> "item", item |-> a])
  /\ UNCHANGED <<phase, owner, watcher, shown, apps, late, starts>>

AppExit(a) ==
  /\ apps[a] = "on" /\ Room
  /\ apps' = [apps EXCEPT ![a] = "gone"]
  /\ inbox' = Broadcast(inbox, Listening, [type |-> "appgone", who |-> a])
  /\ UNCHANGED <<phase, owner, watcher, shown, late, starts>>

-----------------------------------------------------------------------------
(* The handlers.  `rest` is what is left in the inboxes once the bar b has *)
(* taken the message m.                                                    *)

(* Mutant: the name of the other protocol's watcher is waited for.         *)
SlipHandleLostWatcher(b, rest) ==
  inbox' = rest /\ UNCHANGED <<owner, watcher, shown, late>>

(* A bar that owns the name already adds its vtable in vain *)
HandleLostWatcher(b, rest) ==
  /\ \/ owner = Nobody /\ Own(b, rest, Ready)
     \/ owner # Nobody /\ inbox' = rest /\ UNCHANGED <<owner, watcher, late>>
  /\ UNCHANGED shown

HandleNewWatcher(b, rest) ==
  /\ inbox' = RegisterToWatcher(rest, owner, b)
  /\ UNCHANGED <<owner, watcher, shown, late>>

(* register_sni: an item that is registered already is left as it is *)
RegisterSni(b, a, rest) ==
  /\ UNCHANGED <<owner, shown, late>>
  /\ IF watcher[b].on /\ a \notin watcher[b].items
     THEN /\ watcher' = [watcher EXCEPT ![b].items = @ \union {a}]
          /\ inbox' = Broadcast(rest, Ready, [type |-> "registered", item |-> a])
     ELSE inbox' = rest /\ UNCHANGED watcher

RegisterHost(b, h, rest) ==
  /\ watcher' = IF watcher[b].on
                THEN [watcher EXCEPT ![b].hosts = @ \union {h}] ELSE watcher
  /\ inbox' = rest
  /\ UNCHANGED <<owner, shown, late>>

GetRegisteredSnis(b, h, rest) ==
  /\ inbox' = IF watcher[b].on
              THEN Broadcast(rest, {h}, [type |-> "items",
                                         items |-> watcher[b].items])
              ELSE rest
  /\ UNCHANGED <<owner, watcher, shown, late>>

HandleLostService(b, who, rest) ==
  /\ watcher' = [watcher EXCEPT ![b].items = @ \ {who}, ![b].hosts = @ \ {who}]
  /\ inbox' = IF who \in watcher[b].items
              THEN Broadcast(rest, Ready, [type |-> "unregistered", item |-> who])
              ELSE rest
  /\ UNCHANGED <<owner, shown, late>>

AddSni(b, items, rest) ==
  /\ shown' = [shown EXCEPT ![b] = @ \union items]
  /\ inbox' = rest
  /\ UNCHANGED <<owner, watcher, late>>

HandleSniUnregistered(b, a, rest) ==
  /\ shown' = [shown EXCEPT ![b] = @ \ {a}]
  /\ inbox' = rest
  /\ UNCHANGED <<owner, watcher, late>>

Handle(b, m, rest) ==
  \/ m.type = "owner" /\ m.new = Nobody /\ HandleLostWatcher(b, rest)
  \/ m.type = "owner" /\ m.new # Nobody /\ HandleNewWatcher(b, rest)
  \/ m.type = "item" /\ RegisterSni(b, m.item, rest)
  \/ m.type = "host" /\ RegisterHost(b, m.from, rest)
  \/ m.type = "get" /\ GetRegisteredSnis(b, m.from, rest)
  \/ m.type \in {"appgone", "hostgone"} /\ HandleLostService(b, m.who, rest)
  \/ m.type = "registered" /\ AddSni(b, {m.item}, rest)
  \/ m.type = "items" /\ AddSni(b, m.items, rest)
  \/ m.type = "unregistered" /\ HandleSniUnregistered(b, m.item, rest)

(* tray_in: a bar handles its next message *)
Deliver(b) ==
  /\ phase[b] = "ready" /\ inbox[b] # <<>>
  /\ Handle(b, Head(inbox[b]), [inbox EXCEPT ![b] = Tail(@)])
  /\ UNCHANGED <<phase, apps, starts>>

TrayNext ==
  \/ \E b \in Bars :
       CreateWatcher(b) \/ InitHost(b) \/ DestroyTray(b) \/ Deliver(b)
  \/ \E a \in Apps : AppStart(a) \/ AppRegister(a) \/ AppExit(a)

(* A bar finishes creating its tray, and its loop reads the bus. *)
TraySpec ==
  /\ TrayInit /\ [][TrayNext]_trayVars
  /\ \A b \in Bars : WF_trayVars(InitHost(b)) /\ WF_trayVars(Deliver(b))

-----------------------------------------------------------------------------
TrayTypeOK ==
  /\ phase \in [Bars -> {"off", "named", "ready"}]
  /\ owner \in Bars \union {Nobody}
  /\ \A b \in Bars : /\ watcher[b].items \subseteq Apps
                     /\ watcher[b].hosts \subseteq Bars
  /\ shown \in [Bars -> SUBSET Apps]
  /\ apps \in [Apps -> {"new", "on", "gone"}]

Quiet == \A b \in Bars : phase[b] # "named" /\ inbox[b] = <<>>

(* However watchers come and go while bars and items register: once every  *)
(* message is handled, the watcher is the object of the bar that owns the  *)
(* name, knows exactly the hosts that run, and every host shows at least   *)
(* the watcher's items (register_to_watcher, handle_lost_service,          *)
(* handle_new_watcher).                                                    *)
HostsAgree ==
  Quiet /\ owner # Nobody =>
    /\ {b \in Bars : watcher[b].on} = {owner}
    /\ watcher[owner].hosts = Ready
    /\ \A b \in Ready : watcher[owner].items \subseteq shown[b]

(* A tray that saw the last watcher leave brings a new one up, so there is *)
(* no tray without one (handle_lost_watcher).  A bar whose create_watcher  *)
(* failed and that did not listen yet when the owner left does not.        *)
WatcherRestored == Quiet /\ Ready \ late # {} => owner # Nobody

(* The bars agree about the one watcher, and there always is one.          *)
BarsAgree == TrayTypeOK /\ HostsAgree /\ WatcherRestored

(* An item that is registered is shown by every tray in the end, unless    *)
(* its application, the tray or the watcher ends (handle_sni_registered    *)
(* and get_registered_snis_callback, whichever comes first).               *)
ItemShown ==
  \A b \in Bars, w \in Bars, a \in Apps :
    (phase[b] = "ready" /\ owner = w /\ a \in watcher[w].items)
      ~> (phase[b] # "ready" \/ owner # w \/ apps[a] = "gone" \/ a \in shown[b])
=============================================================================
