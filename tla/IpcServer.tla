------------------------------ MODULE IpcServer ------------------------------
(***************************************************************************)
(* The IPC server (sway/ipc-server.c): connections of clients, requests    *)
(* that arrive in pieces, replies and events that are queued in the write  *)
(* buffer of a client and written when its socket takes them, and clients  *)
(* that leave or read too slowly.                                          *)
(*                                                                         *)
(* A message is a header and a payload, and a socket carries them as a     *)
(* sequence of units: the header is one unit, the payload a few.           *)
(***************************************************************************)
EXTENDS Integers, Sequences, FiniteSets, SequencesExt, FiniteSetsExt

CONSTANTS Clients,      \* connections; each is made once
          Kinds,        \* the kinds of requests each client sends
          MaxRequests,  \* bound on the requests of all clients
          MaxEvents,    \* bound on the events the compositor sends on its own
          FirstSize,    \* the write buffer of a new client, 128 bytes in the code
          SizeLimit,    \* what it may not grow beyond, 4e6 bytes in the code
          None

\* "get_tree" stands for every query, "subscribe" for a request for both events,
\* "subscribe_bad" for one that names an unknown event after "tick", "garbage"
\* for a header without the magic string.
AllKinds == {"get_tree", "send_tick", "subscribe", "subscribe_bad", "command", "unknown", "garbage"}
Events == {"window", "tick"}

ASSUME ServerAssumption ==
  /\ Kinds \in [Clients -> SUBSET AllKinds]
  /\ MaxRequests \in Nat /\ MaxEvents \in Nat
  /\ FirstSize \in Nat \ {0} /\ SizeLimit \in Nat /\ FirstSize <= SizeLimit
  /\ None \notin AllKinds

VARIABLES
  srv,       \* the server: see Server
  up,        \* FALSE once it has shut down or crashed
  peer,      \* the client's end of a connection: "away", "here" or "gone"
  sent,      \* the requests the client has begun to send
  unsent,    \* how much of the last one's payload it has not sent yet
  inbox,     \* what waits in the server's socket
  received,  \* what was written to the client, from the beginning
  emitted    \* the events sent so far

vars == <<srv, up, peer, sent, unsent, inbox, received, emitted>>
environment == <<peer, sent, unsent>>

PayloadLen == [k \in AllKinds |->
  CASE k \in {"send_tick", "subscribe", "subscribe_bad"} -> 1
    [] k = "command" -> 2
    [] OTHER -> 0]

Reply(k) == [type |-> "reply", of |-> k]
Event(e) == [type |-> "event", of |-> e]
MsgLen(m) == IF m = Reply("get_tree") THEN 4 ELSE 2
Units(m) == [i \in 1..MsgLen(m) |-> [msg |-> m, part |-> i]]

\* struct ipc_client of every client, and ipc_client_list.
NewServer ==
  [list    |-> <<>>,                               \* ipc_client_list
   subs    |-> [c \in Clients |-> {}],             \* subscribed_events
   buf     |-> [c \in Clients |-> <<>>],           \* write_buffer, write_buffer_len
   size    |-> [c \in Clients |-> FirstSize],      \* write_buffer_size
   armed   |-> [c \in Clients |-> FALSE],          \* writable_event_source
   pending |-> [c \in Clients |-> None],           \* pending_length, pending_type
   misused |-> FALSE]                              \* a freed client was written to

Connected(s) == ToSet(s.list)

Init ==
  /\ srv = NewServer
  /\ up = TRUE
  /\ peer = [c \in Clients |-> "away"]
  /\ sent = [c \in Clients |-> <<>>]
  /\ unsent = [c \in Clients |-> 0]
  /\ inbox = [c \in Clients |-> <<>>]
  /\ received = [c \in Clients |-> <<>>]
  /\ emitted = <<>>

------------------------------------------------------------------------------
(***************************************************************************)
(* Queueing messages.                                                      *)
(***************************************************************************)

\* ipc_client_disconnect
Disconnect(s, c) ==
  [s EXCEPT !.list = RemoveAt(s.list, CHOOSE i \in DOMAIN s.list : s.list[i] = c),
            !.subs[c] = {}, !.buf[c] = <<>>, !.armed[c] = FALSE, !.pending[c] = None]

\* The size a buffer of size z doubles to until n units are less than it.
Grown(z, n) ==
  LET doubled[k \in 0 .. n] == IF k = 0 THEN z ELSE 2 * doubled[k-1]
  IN  doubled[CHOOSE k \in 0 .. n : n < doubled[k] /\ \A j \in 0 .. k - 1 : doubled[j] <= n]

Queue(s, c, m, z) == [s EXCEPT !.size[c] = z, !.buf[c] = @ \o Units(m), !.armed[c] = TRUE]

\* ipc_send_reply
SendReply(s, c, m) ==
  LET z == Grown(s.size[c], Len(s.buf[c]) + MsgLen(m))
  IN  IF z > SizeLimit THEN Disconnect(s, c) ELSE Queue(s, c, m, z)

SlipEventStep(acc, e) ==                           \* goes on although the list got shorter
  IF acc.i > Len(acc.s.list) THEN acc
  ELSE LET c == acc.s.list[acc.i]
       IN  [s |-> IF e \in acc.s.subs[c] THEN SendReply(acc.s, c, Event(e)) ELSE acc.s,
            i |-> acc.i + 1]

\* One iteration of ipc_send_event at index i of the list.
EventStep(acc, e) ==
  LET c == acc.s.list[acc.i]
      t == IF e \in acc.s.subs[c] THEN SendReply(acc.s, c, Event(e)) ELSE acc.s
  IN  [s |-> t, i |-> IF c \in Connected(t) THEN acc.i + 1 ELSE acc.i]

\* ipc_send_event: every iteration goes to the next client or shortens the list.
SendEvent(s, e) ==
  LET loop[k \in 0 .. Len(s.list)] ==
        IF k = 0 THEN [s |-> s, i |-> 1] ELSE EventStep(loop[k-1], e)
  IN  loop[Len(s.list)].s

------------------------------------------------------------------------------
(***************************************************************************)
(* Requests.                                                               *)
(***************************************************************************)

\* What handling a request of kind k may send to subscribers.  A command may
\* change something they want to know, or nothing.
Emits(k) ==
  CASE k = "send_tick" -> {<<"tick">>}
    [] k = "command" -> {<<>>, <<"window">>}
    [] OTHER -> {<<>>}

SendAll(s, es) == IF es = <<>> THEN s ELSE SendEvent(s, es[1])

\* A reply to a client an event has disconnected goes to memory that was freed.
SendReplyTo(s, c, m) ==
  IF c \in Connected(s) THEN SendReply(s, c, m) ELSE [s EXCEPT !.misused = TRUE]

Subscribed(s, c, k) ==
  [s EXCEPT !.subs[c] = @ \cup (IF k = "subscribe" THEN Events ELSE {"tick"})]

\* ipc_client_handle_command, which sends the events es on its way.
HandleCommand(s, c, k, es) ==
  CASE k \in {"get_tree", "send_tick", "command"} -> SendReplyTo(SendAll(s, es), c, Reply(k))
    [] k = "subscribe" ->
         SendReplyTo(SendReplyTo(Subscribed(s, c, k), c, Reply(k)), c, Event("tick"))
    [] k = "subscribe_bad" -> SendReplyTo(Subscribed(s, c, k), c, Reply(k))
    [] OTHER -> s

\* Sockets of clients that were disconnected are closed.
Inbox(new) == inbox' = [c \in Clients |-> IF c \in Connected(srv') THEN new[c] ELSE <<>>]

\* A request of kind k is complete, and its n units are taken from the socket.
Handle(c, k, n) ==
  \E es \in Emits(k) :
    /\ srv' = HandleCommand([srv EXCEPT !.pending[c] = None], c, k, es)
    /\ Inbox([inbox EXCEPT ![c] = SubSeq(@, n + 1, Len(@))])
    /\ emitted' = emitted \o es

Drop(c) ==
  /\ srv' = Disconnect(srv, c)
  /\ Inbox(inbox)
  /\ UNCHANGED emitted

\* The rest of a request whose header has been read.
ReadPayload(c) ==
  /\ srv.pending[c] # None
  /\ Len(inbox[c]) >= PayloadLen[srv.pending[c]]
  /\ Handle(c, srv.pending[c], PayloadLen[srv.pending[c]])

ReadHeader(c) ==
  /\ srv.pending[c] = None
  /\ inbox[c] # <<>>
  /\ LET h == Head(inbox[c])
     IN  \/ /\ h.part > 0 \/ h.of = "garbage"
            /\ Drop(c)
         \/ /\ h.part = 0 /\ h.of # "garbage"
            /\ Len(inbox[c]) > PayloadLen[h.of]
            /\ Handle(c, h.of, 1 + PayloadLen[h.of])
         \/ /\ h.part = 0 /\ h.of # "garbage"
            /\ Len(inbox[c]) <= PayloadLen[h.of]
            /\ srv' = [srv EXCEPT !.pending[c] = h.of]
            /\ inbox' = [inbox EXCEPT ![c] = Tail(@)]
            /\ UNCHANGED emitted

\* ipc_client_handle_readable.  The source is level triggered, so what one call
\* leaves in the socket brings the next call.  After a write to freed memory the
\* server goes on or crashes.
HandleReadable(c) ==
  /\ up /\ c \in Connected(srv)
  /\ \/ peer[c] = "gone" /\ Drop(c)
     \/ peer[c] = "here" /\ (ReadPayload(c) \/ ReadHeader(c))
  /\ up' \in IF srv'.misused /\ ~srv.misused THEN BOOLEAN ELSE {up}
  /\ UNCHANGED <<environment, received>>

------------------------------------------------------------------------------
(***************************************************************************)
(* Connections, writing, events and shutdown.                              *)
(***************************************************************************)

\* ipc_handle_connection
HandleConnection(c) ==
  /\ up /\ peer[c] = "away"
  /\ peer' = [peer EXCEPT ![c] = "here"]
  /\ srv' = [srv EXCEPT !.list = Append(@, c)]
  /\ UNCHANGED <<up, sent, unsent, inbox, received, emitted>>

SlipWritten(b, n) == SubSeq(b, 1, Len(b) - n)      \* the buffer is not moved

\* What stays in the write buffer once n units are written.
Written(b, n) == SubSeq(b, n + 1, Len(b))

SlipWritable(c) ==                                 \* the source goes after any write
  /\ up /\ c \in Connected(srv) /\ srv.armed[c] /\ peer[c] = "here"
  /\ \E n \in 1..Len(srv.buf[c]) :
       /\ received' = [received EXCEPT ![c] = @ \o SubSeq(srv.buf[c], 1, n)]
       /\ srv' = [srv EXCEPT !.buf[c] = Written(@, n), !.armed[c] = FALSE]
  /\ UNCHANGED <<inbox, emitted, up, environment>>

\* ipc_client_handle_writable, when the socket takes n units or the client is gone
HandleWritable(c) ==
  /\ up /\ c \in Connected(srv) /\ srv.armed[c]
  /\ \/ /\ peer[c] = "gone"
        /\ Drop(c)
        /\ UNCHANGED received
     \/ /\ peer[c] = "here"
        /\ \E n \in 1..Len(srv.buf[c]) :
             /\ received' = [received EXCEPT ![c] = @ \o SubSeq(srv.buf[c], 1, n)]
             /\ srv' = [srv EXCEPT !.buf[c] = Written(@, n),
                                   !.armed[c] = n < Len(srv.buf[c])]
        /\ UNCHANGED <<inbox, emitted>>
  /\ UNCHANGED <<up, environment>>

\* Something happens in the compositor: any of the ipc_event_ functions but
\* ipc_event_tick, which only a request calls.
CompositorEvent ==
  /\ up /\ Len(emitted) < MaxEvents
  /\ srv' = SendEvent(srv, "window")
  /\ emitted' = Append(emitted, "window")
  /\ Inbox(inbox)
  /\ UNCHANGED <<up, environment, received>>

\* handle_display_destroy disconnects all of them.
HandleDisplayDestroy ==
  /\ up
  /\ up' = FALSE
  /\ srv' = [srv EXCEPT !.list = <<>>,
                        !.subs = [c \in Clients |-> {}], !.buf = [c \in Clients |-> <<>>],
                        !.armed = [c \in Clients |-> FALSE],
                        !.pending = [c \in Clients |-> None]]
  /\ Inbox(inbox)
  /\ UNCHANGED <<environment, received, emitted>>

\* The client begins a request, goes on with it, or leaves.
Requests == MapThenSumSet(LAMBDA d : Len(sent[d]), Clients)

ClientSend(c, k) ==
  /\ peer[c] = "here" /\ c \in Connected(srv)
  /\ unsent[c] = 0 /\ Requests < MaxRequests
  /\ sent' = [sent EXCEPT ![c] = Append(@, k)]
  /\ unsent' = [unsent EXCEPT ![c] = PayloadLen[k]]
  /\ inbox' = [inbox EXCEPT ![c] = Append(@, [of |-> k, part |-> 0])]
  /\ UNCHANGED <<srv, up, peer, received, emitted>>

ClientSendPayload(c) ==
  /\ peer[c] = "here" /\ c \in Connected(srv)
  /\ unsent[c] > 0
  /\ unsent' = [unsent EXCEPT ![c] = @ - 1]
  /\ inbox' = [inbox EXCEPT ![c] =
                 Append(@, [of |-> Last(sent[c]), part |-> PayloadLen[Last(sent[c])] - unsent[c] + 1])]
  /\ UNCHANGED <<srv, up, peer, sent, received, emitted>>

ClientLeave(c) ==
  /\ peer[c] = "here"
  /\ peer' = [peer EXCEPT ![c] = "gone"]
  /\ UNCHANGED <<srv, up, sent, unsent, inbox, received, emitted>>

Next ==
  \/ \E c \in Clients :
       \/ HandleConnection(c) \/ HandleReadable(c) \/ HandleWritable(c)
       \/ \E k \in Kinds[c] : ClientSend(c, k)
       \/ ClientSendPayload(c) \/ ClientLeave(c)
  \/ CompositorEvent
  \/ HandleDisplayDestroy

\* When the event loop calls ipc_client_handle_readable and it has something to do,
\* and when it calls ipc_client_handle_writable.
Readable(c) ==
  /\ up /\ c \in Connected(srv)
  /\ \/ peer[c] = "gone"
     \/ srv.pending[c] = None /\ inbox[c] # <<>>
     \/ srv.pending[c] # None /\ Len(inbox[c]) >= PayloadLen[srv.pending[c]]
Writable(c) == up /\ c \in Connected(srv) /\ srv.armed[c]

\* The event loop calls the handlers of sources that are ready, and a client
\* that stays connected reads what is written to it.  A call takes something
\* from a socket or disconnects its client.
Reads(c) == Len(inbox'[c]) < Len(inbox[c]) \/ c \notin Connected(srv')
Writes(c) == received'[c] # received[c] \/ c \notin Connected(srv')
Fairness ==
  \A c \in Clients :
    /\ []<>~Readable(c) \/ []<><<Reads(c)>>_vars
    /\ []<>~Writable(c) \/ []<><<Writes(c)>>_vars

Spec == Init /\ [][Next]_vars
FairSpec == Spec /\ Fairness

------------------------------------------------------------------------------
(***************************************************************************)
(* Properties.                                                             *)
(***************************************************************************)
Messages == {Reply(k) : k \in AllKinds} \cup {Event(e) : e \in Events}
AllUnits == {u \in [msg : Messages, part : 1 .. 4] : u.part <= MsgLen(u.msg)}

\* The state is well formed: a client is in the list once, and of one that was
\* disconnected nothing is left (ipc_client_disconnect).
TypeOK ==
  /\ srv.list \in Seq(Clients) /\ IsInjective(srv.list)
  /\ up \in BOOLEAN /\ srv.misused \in BOOLEAN
  /\ \A c \in Clients :
       /\ peer[c] \in {"away", "here", "gone"}
       /\ srv.subs[c] \subseteq Events
       /\ srv.pending[c] \in AllKinds \cup {None}
       /\ srv.buf[c] \in Seq(AllUnits) /\ received[c] \in Seq(AllUnits)
       /\ c \notin Connected(srv) =>
            srv.buf[c] = <<>> /\ ~srv.armed[c] /\ srv.subs[c] = {} /\ inbox[c] = <<>>

\* What a client has been sent: what it received and what is still queued.
Stream(c) == received[c] \o srv.buf[c]

Ends(u) == u.part = MsgLen(u.msg)

\* However writes are cut, a client reads whole messages, one after the other
\* (ipc_client_handle_writable); only the end of the connection cuts one short.
Framed ==
  \A c \in Clients :
    LET units == Stream(c)
    IN  /\ \A i \in DOMAIN units :
             IF i = 1 \/ Ends(units[i-1]) THEN units[i].part = 1
             ELSE units[i] = [msg |-> units[i-1].msg, part |-> units[i-1].part + 1]
        /\ c \in Connected(srv) /\ units # <<>> => Ends(units[Len(units)])

\* Among the first n units those that begin a reply, and among the first n
\* requests those that are answered.
RepliesUpTo(units, n) == {i \in 1 .. n : units[i].part = 1 /\ units[i].msg.type = "reply"}
AnsweredUpTo(requests, n) == {i \in 1 .. n : requests[i] \notin {"unknown", "garbage"}}

\* The replies of a client answer its requests one by one in their order, however
\* its requests are cut into pieces and mixed with those of others and with
\* events (ipc_client_handle_readable keeps a header until its payload is there).
RepliesInOrder ==
  \A c \in Clients : \A i \in RepliesUpTo(Stream(c), Len(Stream(c))) :
    \E r \in AnsweredUpTo(sent[c], Len(sent[c])) :
      /\ Stream(c)[i].msg = Reply(sent[c][r])
      /\ Cardinality(RepliesUpTo(Stream(c), i)) = Cardinality(AnsweredUpTo(sent[c], r))

\* As long as something is queued for a client the server waits for its socket,
\* and else it does not (ipc_send_reply adds the source).
WritableArmed ==
  \A c \in Connected(srv) : srv.armed[c] <=> srv.buf[c] # <<>>

\* What a client does not read is bounded: its buffer never exceeds the limit, and
\* its content always fits (ipc_send_reply).
BufferFits ==
  \A c \in Connected(srv) : Len(srv.buf[c]) < srv.size[c] /\ srv.size[c] <= SizeLimit

\* A client and the server stay in step, however reads and writes are cut and
\* clients mixed: messages whole, replies in order, the socket watched when and
\* only when something waits for it.
ClientsInStep == TypeOK /\ Framed /\ RepliesInOrder /\ WritableArmed /\ BufferFits

\* How many events e there are among the units.
Count(e, units) == Cardinality({i \in DOMAIN units : units[i].part = 1 /\ units[i].msg = Event(e)})

\* Whether n more units exceed the buffer of c.
Crowded(c, n) == Grown(srv.size[c], Len(srv.buf[c]) + n) > SizeLimit

\* An event reaches every subscriber once and nobody else, also when others are
\* disconnected in the midst of it, and disconnects only clients that do not read
\* (the loop of ipc_send_event).
EveryListenerHears ==
  [][emitted' # emitted =>
       LET e == Last(emitted')
       IN  /\ \A c \in Connected(srv') :
                Count(e, received'[c] \o srv'.buf[c])
                  = Count(e, Stream(c)) + (IF e \in srv.subs[c] THEN 1 ELSE 0)
           /\ \A c \in Connected(srv) \ Connected(srv') : Crowded(c, 4)]_vars

\* A client never outlives its disconnection: ipc_send_reply destroys it.
NeverMisused == ~srv.misused

\* The replies among the units, and those that the requests are due.
RepliesIn(units) ==
  LET heads == SelectSeq(units, LAMBDA u : u.part = 1 /\ u.msg.type = "reply")
  IN  [i \in DOMAIN heads |-> heads[i].msg]
Answers(requests) ==
  LET answered == SelectSeq(requests, LAMBDA k : k \notin {"unknown", "garbage"})
  IN  [i \in DOMAIN answered |-> Reply(answered[i])]

\* The requests the client has sent in full.
Whole(c) == IF unsent[c] = 0 THEN sent[c] ELSE Front(sent[c])

\* Every request is answered in the end, unless the client is disconnected or the
\* server is gone.
Answered ==
  \A c \in Clients :
    []<>(up /\ c \in Connected(srv) => RepliesIn(received[c]) = Answers(Whole(c)))
==============================================================================
