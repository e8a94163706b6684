----------------------------- MODULE Transaction -----------------------------
(***************************************************************************)
(* Atomic layout updates: sway/desktop/transaction.c with the node         *)
(* bookkeeping of sway/tree/node.c and the life cycle of the containers    *)
(* and views whose layout a transaction carries (tree/container.c,         *)
(* tree/view.c, desktop/xdg_shell.c, desktop/xwayland.c).                  *)
(*                                                                         *)
(* The compositor is one thread around an event loop: each handler runs to *)
(* completion, so each handler is one action.  A handler that calls into   *)
(* the transaction code runs a chain of C functions; each of them is an    *)
(* operator here, from a server state to a server state, and the action    *)
(* applies the chain.  A pointer to a transaction is NULL exactly when the *)
(* transaction has no node: transaction_create is always followed by the   *)
(* addition of the first dirty node.                                       *)
(*                                                                         *)
(* An operator called Slip... is a plausible mistake in the definition     *)
(* that follows it; no specification uses it.                              *)
(***************************************************************************)
EXTENDS Naturals, FiniteSets

CONSTANTS
  Containers,     \* sway_containers made for a view by view_map
  Others,         \* nodes without a view: split containers, workspaces, outputs
  Views,          \* sway_views
  ViewOf,         \* con->view, set once by container_create
  Xwayland,       \* views that answer by geometry, having no serials
  Floating,       \* containers that follow the size their client commits
  Pos, Size,      \* content positions and sizes, as truncated to int
  CloseAnimation, \* config: a closing window is animated before it is freed
  MaxChanges,     \* bound: how many layout changes a behaviour makes
  NoContainer     \* the NULL of view->container

Node == Containers \cup Others

ASSUME ConstantsOK ==
  /\ Containers \cap Others = {}
  /\ IsFiniteSet(Node)
  /\ ViewOf \in [Containers -> Views]
  /\ Xwayland \subseteq Views
  /\ Floating \subseteq Containers
  /\ Pos \subseteq Nat /\ Size \subseteq Nat
  /\ CloseAnimation \in BOOLEAN
  /\ MaxChanges \in Nat
  /\ NoContainer \notin Containers

VARIABLES
  s,      \* the server's state, a record: see ServerState
  acked   \* per view, the configure serial of the client's last commit

vars == <<s, acked>>

(***************************************************************************)
(* Geometry: calloc leaves a new container's state at zero.                *)
(***************************************************************************)
Geometry == [pos : Pos \cup {0}, size : Size \cup {0}]
Zero == [pos |-> 0, size |-> 0]

(***************************************************************************)
(* A transaction is its set of nodes with, for each, the instruction:      *)
(* the copied state, whether the server asked for the change, the serial   *)
(* of the configure and whether the transaction waits for its answer.      *)
(***************************************************************************)
Txn == [nodes   : SUBSET Node,
        state   : [Node -> Geometry],
        server  : SUBSET Node,
        serial  : [Node -> Nat],
        waiting : SUBSET Node,
        num     : Nat,
        timer   : BOOLEAN]

NoTxn == [nodes |-> {}, state |-> [n \in Node |-> Zero], server |-> {},
          serial |-> [n \in Node |-> 0], waiting |-> {}, num |-> 0,
          timer |-> FALSE]

(***************************************************************************)
(* A node is unused until created; a destroying node is out of the tree    *)
(* and freed when no transaction refers to it; a closing one is destroying *)
(* with its close animation running and its close timer armed.             *)
(***************************************************************************)
Life == {"unused", "live", "destroying", "closing", "freed"}

ServerState ==
  [life    : [Node -> Life],
   pend    : [Node -> Geometry],   \* the state the tree code last asked for
   cur     : [Node -> Geometry],   \* the state that is drawn
   dirty   : SUBSET Node,          \* server.dirty_nodes
   hidden  : SUBSET Containers,    \* ~ view_is_visible
   refs    : [Node -> Nat],        \* node->ntxnrefs
   armed   : SUBSET Node,          \* node->instruction is not NULL
   pending : Txn,                  \* server.pending_transaction
   queued  : Txn,                  \* server.queued_transaction
   owner   : [Views -> Containers \cup {NoContainer}],  \* view->container
   mapped  : SUBSET Views,         \* view->surface is not NULL
   saved   : SUBSET Views,         \* view->saved_surface_tree is not NULL
   dying   : SUBSET Views,         \* view->destroying
   gone    : SUBSET Views,         \* views that were freed
   issued  : [Views -> Nat],       \* last configure serial scheduled
   sent    : [Views -> Nat],       \* last configure serial sent to the client
   failed  : BOOLEAN,              \* a sway_assert of container_destroy failed
   changes : Nat]

TypeOK ==
  /\ s \in ServerState
  /\ acked \in [Views -> Nat]

Live(t) == {n \in Node : t.life[n] = "live"}
Destroying(t) == {n \in Node : t.life[n] \in {"destroying", "closing"}}
Mapped(t, n) == t.owner[ViewOf[n]] = n /\ ViewOf[n] \in t.mapped

------------------------------------------------------------------------------
(***************************************************************************)
(* Building a transaction.                                                 *)
(***************************************************************************)

\* The tree code gives the nodes of S a new pending state g[n] and marks
\* them dirty.
SetDirty(t, S, g) ==
  [t EXCEPT !.pend = [n \in Node |-> IF n \in S THEN g[n] ELSE @[n]],
            !.dirty = @ \cup S]

\* The nodes of S that gain a reference: those without an instruction in
\* the pending transaction yet.
NewlyAdded(t, S) == S \ t.pending.nodes

\* A node already in the transaction keeps its instruction: its state is
\* copied again and server_request only ever goes from false to true.
Instructed(txn, S, state, server) ==
  [txn EXCEPT
     !.nodes = @ \cup S,
     !.state = [n \in Node |-> IF n \in S THEN state[n] ELSE @[n]],
     !.server = IF server THEN @ \cup S ELSE @]

TransactionAddNode(t, S, server) ==
  [t EXCEPT
     !.pending = Instructed(@, S, t.pend, server),
     !.refs = [n \in Node |->
        IF n \in NewlyAdded(t, S) THEN @[n] + 1 ELSE @[n]]]

------------------------------------------------------------------------------
(***************************************************************************)
(* Applying and freeing a transaction.                                     *)
(***************************************************************************)

\* The state that is applied is the copy the clients were asked to match,
\* not what the tree wants by now.
SlipApplied(t, n) == t.pend[n]
Applied(t, n) == t.queued.state[n]

\* A view that lives on goes back from its saved buffer to its own surface.
Thawed(t) == {ViewOf[c] : c \in (t.queued.nodes \cap Containers) \ Destroying(t)}

TransactionApply(t) ==
  [t EXCEPT
     !.cur = [n \in Node |->
        IF n \in t.queued.nodes THEN Applied(t, n) ELSE @[n]],
     !.saved = @ \ Thawed(t),
     !.armed = @ \ t.queued.nodes]

\* container_destroy: a container some transaction refers to is kept, and
\* the assertion fails.  The view is freed with its last container when the
\* client already destroyed it.
ContainerDestroy(t, c) ==
  LET v == ViewOf[c]
  IN  IF t.refs[c] # 0
        THEN [t EXCEPT !.failed = TRUE]
        ELSE [t EXCEPT
                !.life[c] = "freed",
                !.owner[v] = IF @ = c THEN NoContainer ELSE @,
                !.gone = IF t.owner[v] = c /\ v \in t.dying
                           THEN @ \cup {v} ELSE @]

\* container_start_close_animation refuses a container whose animation
\* already runs and a view without a saved buffer to draw it from.
StartsClosing(t, n) ==
  /\ CloseAnimation
  /\ n \in Containers
  /\ t.life[n] = "destroying"
  /\ ViewOf[n] \in t.saved

\* The references once the transaction dropped its own.
Released(t) ==
  [n \in Node |-> IF n \in t.queued.nodes THEN t.refs[n] - 1 ELSE t.refs[n]]

\* The nodes out of the tree that lose their last reference.
SlipUnreferenced(t) == t.queued.nodes \cap Destroying(t)
Unreferenced(t) ==
  {n \in t.queued.nodes \cap Destroying(t) : Released(t)[n] = 0}

\* The transaction drops its references; a destroying node that lost its
\* last one is animated or freed, by node type.
TransactionDestroy(t) ==
  LET last   == Unreferenced(t)
      closes == {n \in last : StartsClosing(t, n)}
      frees  == last \ closes
      freesView(v) == t.owner[v] \in frees
  IN  [t EXCEPT
         !.refs = Released(t),
         !.armed = @ \ t.queued.nodes,
         !.life = [n \in Node |-> CASE n \in closes -> "closing"
                                    [] n \in frees -> "freed"
                                    [] OTHER -> @[n]],
         !.owner = [v \in Views |-> IF freesView(v) THEN NoContainer ELSE @[v]],
         !.gone = @ \cup {v \in t.dying : freesView(v)},
         !.queued = NoTxn]

------------------------------------------------------------------------------
(***************************************************************************)
(* Committing a transaction.                                               *)
(***************************************************************************)

\* A view is configured when the server asked for the change and it changes
\* what the client sees: the size, or for Xwayland also the position.
ShouldConfigure(t, q, n) ==
  /\ n \in Containers
  /\ n \notin Destroying(t)
  /\ n \in q.server
  /\ \/ t.cur[n].size # q.state[n].size
     \/ ViewOf[n] \in Xwayland /\ t.cur[n].pos # q.state[n].pos

\* A configure that was scheduled and not sent yet is reused.
Schedule(t, V) ==
  [v \in Views |-> IF v \in V /\ t.issued[v] = t.sent[v]
                     THEN t.issued[v] + 1 ELSE t.issued[v]]

\* The views that are configured, with the serial of the configure.
Configured(t) == {n \in t.queued.nodes : ShouldConfigure(t, t.queued, n)}
Hidden(t) == (t.queued.nodes \cap t.hidden) \ Destroying(t)
Issued(t) == Schedule(t, {ViewOf[n] : n \in Configured(t)} \ Xwayland)
Serials(t) == [n \in Node |->
  IF n \in Configured(t) /\ ViewOf[n] \notin Xwayland THEN Issued(t)[ViewOf[n]] ELSE 0]

\* The transaction waits for the views of W, until its timer fires.
WaitFor(txn, W, serials) ==
  [txn EXCEPT !.serial = serials, !.waiting = W,
              !.num = Cardinality(W), !.timer = W # {}]

\* Views that are not visible are configured and not waited for; the others
\* keep showing their saved buffer until the transaction is applied.
TransactionCommit(t) ==
  [t EXCEPT
     !.issued = Issued(t),
     !.saved = @ \cup {ViewOf[n] : n \in (t.queued.nodes \cap Containers) \ Hidden(t)},
     !.armed = @ \cup t.queued.nodes,
     !.queued = WaitFor(@, Configured(t) \ Hidden(t), Serials(t))]

\* transaction_apply, transaction_destroy and the reset of the pointer.
Finish(t) == TransactionDestroy(TransactionApply(t))

\* The pending transaction becomes the queued one and is committed.
Promote(t) ==
  TransactionCommit([t EXCEPT !.queued = t.pending, !.pending = NoTxn])

Ready(t) == t.queued.nodes # {} /\ t.queued.num = 0

\* The pending transaction is not taken up.
SlipTransactionProgress(t) == IF ~Ready(t) THEN t ELSE Finish(t)

\* transaction_progress.  It and transaction_commit_pending call each other;
\* the second round finds no pending transaction, so two rounds are all.
TransactionProgress(t) ==
  IF ~Ready(t) THEN t
  ELSE LET t1 == Finish(t)
       IN  IF t1.pending.nodes = {} THEN t1
           ELSE LET t2 == Promote(t1)
                IN  IF Ready(t2) THEN Finish(t2) ELSE t2

\* A transaction that waits for nobody stays in the queue.
SlipTransactionCommitPending(t) ==
  IF t.queued.nodes # {} THEN t ELSE Promote(t)

TransactionCommitPending(t) ==
  IF t.queued.nodes # {} THEN t ELSE TransactionProgress(Promote(t))

\* _transaction_commit_dirty
TransactionCommitDirty(t, server) ==
  IF t.dirty = {} THEN t
  ELSE TransactionCommitPending(
         [TransactionAddNode(t, t.dirty, server) EXCEPT !.dirty = {}])

------------------------------------------------------------------------------
(***************************************************************************)
(* Answers.                                                                *)
(***************************************************************************)

\* set_instruction_ready: an instruction that is not waited for only loses
\* its node's pointer.  With the last answer the timer is disarmed.
Counts(t, n) == n \in t.queued.waiting /\ t.queued.num > 0
Answered(txn) == [txn EXCEPT !.num = @ - 1, !.timer = txn.num > 1]

SetInstructionReady(t, n) ==
  TransactionProgress(
    [t EXCEPT !.queued = IF Counts(t, n) THEN Answered(@) ELSE @,
              !.armed = @ \ {n}])

\* transaction_notify_view_ready_by_serial
NotifyBySerial(t, n, serial) ==
  IF n \in t.armed /\ t.queued.serial[n] = serial
    THEN SetInstructionReady(t, n) ELSE t

\* transaction_notify_view_ready_by_geometry
NotifyByGeometry(t, n, g) ==
  IF n \in t.armed /\ t.queued.state[n] = g
    THEN SetInstructionReady(t, n) ELSE t

------------------------------------------------------------------------------
Init ==
  /\ s = [life |-> [n \in Node |-> "unused"],
          pend |-> [n \in Node |-> Zero],
          cur |-> [n \in Node |-> Zero],
          dirty |-> {}, hidden |-> {},
          refs |-> [n \in Node |-> 0],
          armed |-> {}, pending |-> NoTxn, queued |-> NoTxn,
          owner |-> [v \in Views |-> NoContainer],
          mapped |-> {}, saved |-> {}, dying |-> {}, gone |-> {},
          issued |-> [v \in Views |-> 1],
          sent |-> [v \in Views |-> 1],
          failed |-> FALSE,
          changes |-> 0]
  /\ acked = [v \in Views |-> 1]

Bounded == s.changes < MaxChanges
Counted(t) == [t EXCEPT !.changes = @ + 1]

\* Pending states a handler may leave behind for the nodes of S.
Place == [pos : Pos, size : Size]
NewStates(S) == [S -> Place]

(***************************************************************************)
(* A handler changes the layout of some nodes and which views are visible, *)
(* then commits: commands, arranging, focus changes, output changes.       *)
(***************************************************************************)
ChangeLayout(S, g, hidden) ==
  /\ Bounded
  /\ S # {} /\ S \subseteq Live(s)
  /\ s' = TransactionCommitDirty(
            SetDirty([Counted(s) EXCEPT !.hidden = hidden], S, g), TRUE)
  /\ UNCHANGED acked

\* An X11 client's configure request on a floating window marks the
\* container dirty and leaves the commit to a later handler.
HandleRequestConfigure(c, g) ==
  /\ Bounded
  /\ c \in Floating /\ ViewOf[c] \in Xwayland
  /\ s.life[c] = "live"
  /\ s' = SetDirty(Counted(s), {c}, [n \in {c} |-> g])
  /\ UNCHANGED acked

\* An output, a workspace or a split container appears.
CreateNode(n, g) ==
  /\ Bounded
  /\ n \in Others /\ s.life[n] = "unused"
  /\ s' = TransactionCommitDirty(
            SetDirty([Counted(s) EXCEPT !.life[n] = "live"], {n},
                     [m \in {n} |-> g]), TRUE)
  /\ UNCHANGED acked

\* workspace_begin_destroy, output_begin_destroy and container_begin_destroy
\* without a view: out of the tree, dirty, freed by the last transaction.
BeginDestroy(n, S, g) ==
  /\ Bounded
  /\ n \in Others /\ s.life[n] = "live"
  /\ S \subseteq Live(s) \ {n}
  /\ s' = TransactionCommitDirty(
            SetDirty([Counted(s) EXCEPT !.life[n] = "destroying",
                                        !.dirty = @ \cup {n}], S, g), TRUE)
  /\ UNCHANGED acked

\* handle_map, view_map: a view that is not mapped gets a new container and
\* the layout around it changes.
HandleMap(c, S, g) ==
  LET v == ViewOf[c]
  IN  /\ Bounded
      /\ s.life[c] = "unused"
      /\ v \notin s.mapped \cup s.dying
      /\ S \subseteq Live(s)
      /\ s' = TransactionCommitDirty(
                SetDirty([Counted(s) EXCEPT !.life[c] = "live",
                                            !.owner[v] = c,
                                            !.mapped = @ \cup {v}],
                         S \cup {c}, g), TRUE)
      /\ UNCHANGED acked

\* handle_unmap, view_unmap: the container leaves the tree and the layout
\* around it is arranged again; the surface is forgotten after the commit.
HandleUnmap(c, S, g) ==
  LET v == ViewOf[c]
  IN  /\ Bounded
      /\ s.life[c] = "live" /\ Mapped(s, c)
      /\ S \subseteq Live(s) \ {c}
      /\ s' = [TransactionCommitDirty(
                 SetDirty([Counted(s) EXCEPT !.life[c] = "destroying",
                                             !.dirty = @ \cup {c}], S, g), TRUE)
               EXCEPT !.mapped = @ \ {v}]
      /\ UNCHANGED acked

\* view_begin_destroy: the client is done with a view that is not mapped;
\* the view waits for its container.
ViewBeginDestroy(v) ==
  /\ v \notin s.mapped \cup s.dying
  /\ s' = [s EXCEPT !.dying = @ \cup {v},
                    !.gone = IF s.owner[v] = NoContainer
                               THEN @ \cup {v} ELSE @]
  /\ UNCHANGED acked

\* set_xdg_decoration_mode: the border may change the content of the view's
\* container, which is committed be it live, destroying or closing; one out
\* of the tree keeps its geometry.
SetXdgDecorationMode(v, g) ==
  LET c == s.owner[v]
  IN  /\ Bounded
      /\ v \notin Xwayland \cup s.dying
      /\ c # NoContainer
      /\ s.life[c] # "live" => g = s.pend[c]
      /\ s' = TransactionCommitDirty(
                SetDirty(Counted(s), {c}, [n \in {c} |-> g]), TRUE)
      /\ UNCHANGED acked

\* The other states of a toplevel (activated, tiled, fullscreen, resizing)
\* also schedule a configure.
ScheduleConfigure(v) ==
  /\ Bounded
  /\ v \in s.mapped \ Xwayland
  /\ s' = [Counted(s) EXCEPT !.issued = Schedule(s, {v})]
  /\ UNCHANGED acked

\* The event loop is idle: wlroots sends the scheduled configure.
SendConfigure(v) ==
  /\ s.sent[v] # s.issued[v]
  /\ s' = [s EXCEPT !.sent[v] = s.issued[v]]
  /\ UNCHANGED acked

\* view_update_size: a floating container takes the size its client drew.
ViewUpdateSize(c, g) ==
  [Counted(s) EXCEPT !.pend = [@ EXCEPT ![c] = [s.pend[c] EXCEPT !.size = g.size]],
                     !.dirty = @ \cup {c}]

\* handle_commit of xdg_shell.c: the client acknowledged the configure
\* `serial` (or none since its last commit) and committed a surface of
\* the size it had, or for a floating container maybe another one, g, which
\* it is asked to keep if it already is on the screen.
HandleXdgCommit(c, serial, resize, g) ==
  LET v  == ViewOf[c]
      t1 == [ViewUpdateSize(c, g) EXCEPT
               !.issued = IF s.cur[c].size = 0 THEN @ ELSE Schedule(s, {v})]
      t2 == IF resize THEN TransactionCommitDirty(t1, FALSE) ELSE s
  IN  /\ v \notin Xwayland
      /\ s.life[c] = "live" /\ Mapped(s, c)
      /\ serial \in acked[v] .. s.sent[v]
      /\ resize => Bounded /\ c \in Floating
      /\ s' = NotifyBySerial(t2, c, serial)
      /\ acked' = [acked EXCEPT ![v] = serial]

\* handle_commit of xwayland.c
HandleXwaylandCommit(c, resize, g) ==
  LET t2 == IF resize THEN TransactionCommitDirty(ViewUpdateSize(c, g), FALSE) ELSE s
  IN  /\ ViewOf[c] \in Xwayland
      /\ s.life[c] = "live" /\ Mapped(s, c)
      /\ resize => Bounded /\ c \in Floating
      /\ s' = NotifyByGeometry(t2, c, g)
      /\ UNCHANGED acked

\* handle_timeout: the wait is over, answered or not.
HandleTimeout ==
  /\ s.queued.timer
  /\ s' = TransactionProgress([s EXCEPT !.queued.num = 0])
  /\ UNCHANGED acked

\* handle_close_animation_timeout
HandleCloseAnimationTimeout(c) ==
  /\ s.life[c] = "closing"
  /\ s' = ContainerDestroy([s EXCEPT !.life[c] = "destroying"], c)
  /\ UNCHANGED acked

Environment ==
  \/ \E S \in SUBSET Live(s), hidden \in SUBSET (Live(s) \cap Containers) :
       \E g \in NewStates(S) : ChangeLayout(S, g, hidden)
  \/ \E c \in Containers, g \in Place : HandleRequestConfigure(c, g)
  \/ \E n \in Others, g \in Place : CreateNode(n, g)
  \/ \E n \in Others, S \in SUBSET Live(s) :
       \E g \in NewStates(S) : BeginDestroy(n, S, g)
  \/ \E c \in Containers, S \in SUBSET Live(s) :
       \E g \in NewStates(S \cup {c}) : HandleMap(c, S, g)
  \/ \E c \in Containers, S \in SUBSET Live(s) :
       \E g \in NewStates(S) : HandleUnmap(c, S, g)
  \/ \E v \in Views : ViewBeginDestroy(v)
  \/ \E v \in Views, g \in Place : SetXdgDecorationMode(v, g)
  \/ \E v \in Views : ScheduleConfigure(v)
  \/ \E c \in Containers, resize \in BOOLEAN, g \in Place :
       \E serial \in acked[ViewOf[c]] .. s.sent[ViewOf[c]] :
         HandleXdgCommit(c, serial, resize, g)
  \/ \E c \in Containers, resize \in BOOLEAN, g \in Place :
       HandleXwaylandCommit(c, resize, g)

EventLoop ==
  \/ \E v \in Views : SendConfigure(v)
  \/ HandleTimeout
  \/ \E c \in Containers : HandleCloseAnimationTimeout(c)

Next == Environment \/ EventLoop

(***************************************************************************)
(* The event loop runs its timers whatever clients do.  This is weak       *)
(* fairness of the two timer handlers, with their guards for ENABLED.      *)
(***************************************************************************)
Fairness ==
  /\ []<>(~s.queued.timer) \/ []<><<HandleTimeout>>_vars
  /\ \A c \in Containers :
       \/ []<>(s.life[c] # "closing")
       \/ []<><<HandleCloseAnimationTimeout(c)>>_vars

Spec == Init /\ [][Next]_vars
FairSpec == Spec /\ Fairness

------------------------------------------------------------------------------
(***************************************************************************)
(* Safety.                                                                 *)
(***************************************************************************)

\* ntxnrefs counts the transactions that refer to a node: node->ntxnrefs++ of
\* transaction_add_node and the decrement of transaction_destroy pair up
\* whichever of the two transactions a node is in, and however often.
Count(txn, n) == IF n \in txn.nodes THEN 1 ELSE 0
RefsExact == \A n \in Node : s.refs[n] = Count(s.pending, n) + Count(s.queued, n)

\* Nothing keeps a pointer to a node that was freed: neither the list of
\* dirty nodes nor a transaction; and no node points to an instruction that
\* was freed with its transaction.
NoDanglingNode ==
  /\ \A n \in Node : s.life[n] = "freed" =>
       n \notin s.dirty \cup s.pending.nodes \cup s.queued.nodes
  /\ s.armed \subseteq s.queued.nodes

\* A node out of the tree is still known to someone who will free it: the
\* next commit, a transaction or the close timer.
NoLeakedNode ==
  \A n \in Node : s.life[n] = "destroying" =>
    n \in s.dirty \cup s.pending.nodes \cup s.queued.nodes

\* A transaction in the queue waits for exactly the views that can still
\* answer, at least one of them, with its timer running: there is no state
\* in which the layout is stuck for ever.
WaitsForSomeone ==
  s.queued.nodes # {} =>
    /\ s.queued.num = Cardinality(s.queued.waiting \cap s.armed)
    /\ s.queued.num > 0
    /\ s.queued.timer

\* Changes wait for their turn only behind another transaction.
PendingBehindQueued == s.pending.nodes # {} => s.queued.nodes # {}

\* A mapped window shows its saved buffer only while a transaction that will
\* let go of it is on the way.
FrozenOnlyInTransaction ==
  \A v \in s.saved \cap s.mapped :
    s.owner[v] \in s.pending.nodes \cup s.queued.nodes

\* A node is counted by exactly the transactions that refer to it, so it is
\* freed with the last of them: never earlier, and never not at all.
NodesLive == TypeOK /\ RefsExact /\ NoDanglingNode /\ NoLeakedNode

\* The queue always moves: a transaction in it has an answer or a timeout to
\* come, and nothing but such a transaction holds changes back.
QueueMoves == WaitsForSomeone /\ PendingBehindQueued

(***************************************************************************)
(* The layout the transactions present, for the abstract specification.    *)
(***************************************************************************)
Over(txn, layout) == [n \in Node |-> IF n \in txn.nodes THEN txn.state[n] ELSE layout[n]]
Target == Over(s.queued, s.cur)
Wanted == Over(s.pending, Target)

Layout == INSTANCE AtomicLayout WITH
  Place <- Geometry, Nowhere <- Zero,
  wanted <- Wanted, target <- Target, shown <- s.cur

\* What is drawn moves from one whole layout to a later whole one: the node
\* states of a transaction are applied together, and a change made while a
\* transaction waits never leaks into it.
LayoutIsAtomic == Layout!Spec

(***************************************************************************)
(* What the sources say and the code does not do.                          *)
(***************************************************************************)

\* container.c:595 asserts that no transaction refers to a container when it
\* is freed.
DestroyAssertionHolds == ~s.failed

\* transaction.h:20 says that the transaction waits for all the views to
\* respond: one whose client answered this configure or a later one is not
\* waited for.
WaitsOnlyForUnanswered ==
  \A n \in s.queued.waiting \cap s.armed :
    ViewOf[n] \notin Xwayland => acked[ViewOf[n]] < s.queued.serial[n]

(***************************************************************************)
(* Liveness.                                                               *)
(***************************************************************************)

\* A committed place is shown in the end, unless a later one replaces it:
\* a client that never answers cannot hold the layout back.
EventuallyShown ==
  \A n \in Node, g \in Place : Wanted[n] = g ~> (s.cur[n] = g \/ Wanted[n] # g)

\* A window or node that left the tree is freed in the end, be it animated
\* or not.
EventuallyFreed ==
  \A n \in Node : (s.life[n] \in {"destroying", "closing"}) ~> (s.life[n] = "freed")

\* All that was begun comes to its end, whatever clients do or fail to do.
LayoutSettles == EventuallyShown /\ EventuallyFreed
==============================================================================
