-------------------------- MODULE TransactionProofs --------------------------
(***************************************************************************)
(* The handlers of Transaction keep the inductive invariant and implement  *)
(* AtomicLayout.  First what its operators keep, whatever state they start *)
(* from; then one step per handler.                                        *)
(***************************************************************************)
EXTENDS Transaction, TLAPS, FiniteSetTheorems

LEMMA NoTxnType == NoTxn \in Txn
  BY DEF NoTxn, Txn, Geometry, Zero

LEMMA SetDirtyType ==
  ASSUME NEW t \in ServerState, NEW S \in SUBSET Node, NEW g \in [S -> Geometry]
  PROVE  SetDirty(t, S, g) \in ServerState
  BY DEF SetDirty, ServerState

LEMMA InstructedType ==
  ASSUME NEW txn \in Txn, NEW S \in SUBSET Node, NEW server \in BOOLEAN,
         NEW state \in [Node -> Geometry]
  PROVE  Instructed(txn, S, state, server) \in Txn
  BY DEF Instructed, Txn

LEMMA AddNodeType ==
  ASSUME NEW t \in ServerState, NEW S \in SUBSET Node, NEW server \in BOOLEAN
  PROVE  TransactionAddNode(t, S, server) \in ServerState
  <1>1. Instructed(t.pending, S, t.pend, server) \in Txn
    BY InstructedType DEF ServerState
  <1> DEFINE refs == [n \in Node |->
                       IF n \in NewlyAdded(t, S) THEN t.refs[n] + 1 ELSE t.refs[n]]
  <1>2. refs \in [Node -> Nat]
    BY DEF ServerState
  <1>3. TransactionAddNode(t, S, server) =
          [t EXCEPT !.pending = Instructed(t.pending, S, t.pend, server), !.refs = refs]
    BY DEF TransactionAddNode
  <1> HIDE DEF refs
  <1> QED
    BY <1>1, <1>2, <1>3 DEF ServerState

LEMMA ApplyType ==
  ASSUME NEW t \in ServerState
  PROVE  TransactionApply(t) \in ServerState
  BY DEF TransactionApply, Applied, ServerState, Txn

LEMMA CommitType ==
  ASSUME NEW t \in ServerState
  PROVE  TransactionCommit(t) \in ServerState
  <1>1. Issued(t) \in [Views -> Nat]
    BY DEF Issued, Schedule, ServerState
  <1>2. Serials(t) \in [Node -> Nat]
    BY <1>1, ConstantsOK DEF Serials, Configured, ShouldConfigure, ServerState
  <1>3. Configured(t) \in SUBSET Node
    BY DEF Configured, ServerState, Txn
  <1>4. Cardinality(Configured(t) \ Hidden(t)) \in Nat
    BY <1>3, ConstantsOK, FS_Subset, FS_CardinalityType
  <1>5. WaitFor(t.queued, Configured(t) \ Hidden(t), Serials(t)) \in Txn
    BY <1>2, <1>3, <1>4 DEF WaitFor, Txn, ServerState
  <1>6. {ViewOf[n] : n \in (t.queued.nodes \cap Containers) \ Hidden(t)} \subseteq Views
    BY ConstantsOK
  <1>7. t.queued.nodes \subseteq Node
    BY DEF ServerState, Txn
  <1> QED
    BY <1>1, <1>5, <1>6, <1>7 DEF TransactionCommit, ServerState

LEMMA AnsweredType ==
  ASSUME NEW txn \in Txn, txn.num > 0
  PROVE  Answered(txn) \in Txn
  <1>1. txn.num - 1 \in Nat
    BY DEF Txn
  <1>2. (txn.num > 1) \in BOOLEAN
    OBVIOUS
  <1> DEFINE b == txn.num > 1
  <1>3. Answered(txn) = [txn EXCEPT !.num = txn.num - 1, !.timer = b]
    BY DEF Answered
  <1>4. b \in BOOLEAN
    BY <1>2
  <1> HIDE DEF b
  <1> QED
    BY <1>1, <1>3, <1>4 DEF Txn

------------------------------------------------------------------------------
(***************************************************************************)
(* The inductive invariant, over a server state t.  Kept holds after every *)
(* operator the handlers chain; DirtyLive, Waiting and Queue are what is   *)
(* true besides when a handler has returned.                               *)
(***************************************************************************)
RefsCounted(t) == \A n \in Node : t.refs[n] = Count(t.pending, n) + Count(t.queued, n)
Known(t) == \A n \in Node :
  t.life[n] \in {"unused", "freed"} => n \notin t.pending.nodes \cup t.queued.nodes
Armed(t) == t.armed \subseteq t.queued.nodes
Accounted(t) == \A n \in Node :
  t.life[n] = "destroying" => n \in t.dirty \cup t.pending.nodes \cup t.queued.nodes
Owned(t) == \A v \in Views :
  t.owner[v] # NoContainer =>
    ViewOf[t.owner[v]] = v /\ t.life[t.owner[v]] \notin {"unused", "freed"}
Kept(t) ==
  /\ t \in ServerState
  /\ RefsCounted(t) /\ Known(t) /\ Armed(t) /\ Accounted(t) /\ Owned(t)

DirtyLive(t) == t.dirty \subseteq Live(t)
DirtyKnown(t) == t.dirty \subseteq Live(t) \cup Destroying(t)
Waiting(t) ==
  /\ t.queued.num = Cardinality(t.queued.waiting \cap t.armed)
  /\ t.queued.num > 0 => t.queued.timer
Queue(t) == t.queued.nodes # {} => Waiting(t) /\ t.queued.num > 0
Behind(t) == t.pending.nodes # {} => t.queued.nodes # {}
Returned(t) == Kept(t) /\ DirtyLive(t) /\ Queue(t) /\ Behind(t)

LEMMA ApplyKept ==
  ASSUME NEW t, Kept(t), DirtyLive(t)
  PROVE  /\ Kept(TransactionApply(t)) /\ DirtyLive(TransactionApply(t))
         /\ TransactionApply(t).pending = t.pending
  <1> DEFINE u == TransactionApply(t)
  <1>1. u \in ServerState
    BY ApplyType DEF Kept
  <1>2. /\ u.life = t.life /\ u.refs = t.refs /\ u.dirty = t.dirty
        /\ u.pending = t.pending /\ u.queued = t.queued /\ u.owner = t.owner
        /\ u.armed = t.armed \ t.queued.nodes
    BY DEF TransactionApply, Kept, ServerState
  <1> HIDE DEF u
  <1> QED
    BY <1>1, <1>2 DEF Kept, RefsCounted, Known, Armed, Accounted, Owned,
                      DirtyLive, Live, u

LEMMA DestroyKept ==
  ASSUME NEW t, Kept(t), DirtyLive(t)
  PROVE  /\ Kept(TransactionDestroy(t)) /\ DirtyLive(TransactionDestroy(t))
         /\ TransactionDestroy(t).pending = t.pending
         /\ TransactionDestroy(t).queued = NoTxn
  <1> DEFINE u == TransactionDestroy(t)
             last == Unreferenced(t)
             closes == {n \in last : StartsClosing(t, n)}
             life == [n \in Node |-> CASE n \in closes -> "closing"
                                       [] n \in last \ closes -> "freed"
                                       [] OTHER -> t.life[n]]
             owner == [v \in Views |-> IF t.owner[v] \in last \ closes
                                         THEN NoContainer ELSE t.owner[v]]
  <1>1. t \in ServerState
    BY DEF Kept
  <1>2. /\ u.life = life /\ u.refs = Released(t) /\ u.dirty = t.dirty
        /\ u.pending = t.pending /\ u.queued = NoTxn /\ u.owner = owner
        /\ u.armed = t.armed \ t.queued.nodes
    BY <1>1 DEF TransactionDestroy, ServerState
  <1>3. Released(t) \in [Node -> Nat]
    BY <1>1 DEF Released, Kept, RefsCounted, Count, ServerState, Txn
  <1>4. life \in [Node -> Life]
    BY <1>1 DEF ServerState, Life
  <1>5. owner \in [Views -> Containers \cup {NoContainer}]
    BY <1>1 DEF ServerState
  <1>6. u \in ServerState
    <2>1. u = [t EXCEPT !.refs = Released(t), !.armed = t.armed \ t.queued.nodes,
                 !.life = life, !.owner = owner,
                 !.gone = t.gone \cup {v \in t.dying : t.owner[v] \in last \ closes},
                 !.queued = NoTxn]
      BY <1>1 DEF TransactionDestroy, ServerState
    <2> HIDE DEF u, life, owner, closes, last
    <2> QED
      BY <1>1, <1>3, <1>4, <1>5, <2>1, NoTxnType DEF ServerState
  <1>7. NoTxn.nodes = {}
    BY DEF NoTxn
  <1>8. RefsCounted(u)
    BY <1>1, <1>2, <1>7 DEF RefsCounted, Kept, Count, Released, ServerState, Txn
  <1>9. \A n \in last : n \in Node /\ n \notin t.pending.nodes /\ n \in Destroying(t)
    BY <1>1 DEF Unreferenced, Released, Kept, RefsCounted, Count, ServerState, Txn, Destroying
  <1>10. Known(u)
    BY <1>1, <1>2, <1>7, <1>9 DEF Known, Kept
  <1>11. Armed(u)
    BY <1>2, <1>7 DEF Armed, Kept
  <1>12. Accounted(u)
    <2> SUFFICES ASSUME NEW n \in Node, life[n] = "destroying"
                 PROVE  n \in t.dirty \cup t.pending.nodes
      BY <1>2 DEF Accounted
    <2>1. t.life[n] = "destroying" /\ n \notin last
      OBVIOUS
    <2>2. n \in t.dirty \cup t.pending.nodes \cup t.queued.nodes
      BY <2>1 DEF Kept, Accounted
    <2>3. n \in t.queued.nodes => Released(t)[n] # 0
      BY <2>1 DEF Unreferenced, Destroying
    <2>4. n \in t.queued.nodes => n \in t.pending.nodes
      BY <2>3, <1>1 DEF Released, Kept, RefsCounted, Count, ServerState, Txn
    <2> QED
      BY <2>2, <2>4
  <1>13. Owned(u)
    BY <1>1, <1>2, <1>9, ConstantsOK DEF Owned, Kept, ServerState, Node
  <1>14. DirtyLive(u)
    BY <1>2, <1>9 DEF DirtyLive, Live, Destroying
  <1> HIDE DEF u
  <1> QED
    BY <1>2, <1>6, <1>8, <1>10, <1>11, <1>12, <1>13, <1>14 DEF Kept, u

LEMMA FinishKept ==
  ASSUME NEW t, Kept(t), DirtyLive(t)
  PROVE  /\ Kept(Finish(t)) /\ DirtyLive(Finish(t))
         /\ Finish(t).pending = t.pending /\ Finish(t).queued = NoTxn
  BY ApplyKept, DestroyKept DEF Finish

LEMMA NodesFinite == \A S : S \subseteq Node => IsFiniteSet(S)
  BY ConstantsOK, FS_Subset

LEMMA CommitKept ==
  ASSUME NEW t, Kept(t)
  PROVE  LET u == TransactionCommit(t)
         IN  /\ Kept(u) /\ Waiting(u)
             /\ u.pending = t.pending /\ u.queued.nodes = t.queued.nodes
             /\ u.dirty = t.dirty /\ u.life = t.life
  <1> DEFINE u == TransactionCommit(t)
             W == Configured(t) \ Hidden(t)
  <1>1. t \in ServerState /\ t.queued \in Txn
    BY DEF Kept, ServerState
  <1>2. u \in ServerState
    BY <1>1, CommitType
  <1>3. /\ u.life = t.life /\ u.refs = t.refs /\ u.dirty = t.dirty
        /\ u.pending = t.pending /\ u.owner = t.owner
        /\ u.armed = t.armed \cup t.queued.nodes
        /\ u.queued = WaitFor(t.queued, W, Serials(t))
    BY <1>1 DEF TransactionCommit, ServerState
  <1>4. /\ u.queued.nodes = t.queued.nodes /\ u.queued.waiting = W
        /\ u.queued.num = Cardinality(W) /\ u.queued.timer = (W # {})
    BY <1>1, <1>3 DEF WaitFor, Txn
  <1>5. W \subseteq t.queued.nodes /\ IsFiniteSet(W)
    BY <1>1, NodesFinite DEF Configured, Txn
  <1>6. Waiting(u)
    <2>1. u.queued.waiting \cap u.armed = W
      BY <1>3, <1>4, <1>5
    <2>2. Cardinality(W) > 0 => W # {}
      BY FS_EmptySet
    <2> QED
      BY <1>4, <2>1, <2>2 DEF Waiting
  <1>7. Kept(u)
    <2> HIDE DEF u
    <2> QED
      BY <1>2, <1>3, <1>4 DEF Kept, RefsCounted, Count, Known, Armed, Accounted, Owned
  <1> QED
    BY <1>3, <1>4, <1>6, <1>7

LEMMA PromoteKept ==
  ASSUME NEW t, Kept(t), DirtyLive(t), t.queued.nodes = {}
  PROVE  LET u == Promote(t)
         IN  /\ Kept(u) /\ DirtyLive(u) /\ Waiting(u)
             /\ u.pending = NoTxn /\ u.queued.nodes = t.pending.nodes
  <1> DEFINE r == [t EXCEPT !.queued = t.pending, !.pending = NoTxn]
  <1>1. t \in ServerState /\ NoTxn.nodes = {}
    BY DEF Kept, NoTxn
  <1>2. /\ r \in ServerState
        /\ r.life = t.life /\ r.refs = t.refs /\ r.dirty = t.dirty
        /\ r.pending = NoTxn /\ r.queued = t.pending /\ r.owner = t.owner
        /\ r.armed = t.armed
    BY <1>1, NoTxnType DEF ServerState
  <1>3. Kept(r)
    <2> HIDE DEF r
    <2>1. RefsCounted(r)
      BY <1>1, <1>2 DEF RefsCounted, Count, Kept
    <2>2. Armed(r)
      BY <1>1, <1>2 DEF Armed, Kept
    <2> QED
      BY <1>1, <1>2, <2>1, <2>2 DEF Kept, Known, Accounted, Owned
  <1>4. Promote(t) = TransactionCommit(r)
    BY DEF Promote
  <1> HIDE DEF r
  <1>5. LET u == TransactionCommit(r)
        IN  /\ Kept(u) /\ Waiting(u)
            /\ u.pending = r.pending /\ u.queued.nodes = r.queued.nodes
            /\ u.dirty = r.dirty /\ u.life = r.life
    BY <1>3, CommitKept
  <1> QED
    BY <1>2, <1>4, <1>5 DEF DirtyLive, Live

LEMMA ReadyQueue ==
  ASSUME NEW t, Waiting(t), t \in ServerState, ~Ready(t)
  PROVE  Queue(t)
  BY DEF Queue, Ready, ServerState, Txn

LEMMA ProgressReturns ==
  ASSUME NEW t, Kept(t), DirtyLive(t), Behind(t), t.queued.nodes # {} => Waiting(t)
  PROVE  Returned(TransactionProgress(t))
  <1>0. NoTxn.nodes = {}
    BY DEF NoTxn
  <1>1. CASE ~Ready(t)
    BY <1>1, ReadyQueue DEF TransactionProgress, Returned, Queue, Kept
  <1>2. CASE Ready(t)
    <2> DEFINE t1 == Finish(t)
               t2 == Promote(t1)
    <2>1. Kept(t1) /\ DirtyLive(t1) /\ t1.pending = t.pending /\ t1.queued = NoTxn
      BY FinishKept
    <2>2. CASE t1.pending.nodes = {}
      BY <1>0, <1>2, <2>1, <2>2 DEF TransactionProgress, Returned, Queue, Behind
    <2>3. CASE t1.pending.nodes # {}
      <3>1. /\ Kept(t2) /\ DirtyLive(t2) /\ Waiting(t2)
            /\ t2.pending = NoTxn /\ t2.queued.nodes # {}
        BY <1>0, <2>1, <2>3, PromoteKept
      <3>2. CASE Ready(t2)
        <4>1. /\ Kept(Finish(t2)) /\ DirtyLive(Finish(t2))
              /\ Finish(t2).pending = NoTxn /\ Finish(t2).queued = NoTxn
          BY <3>1, FinishKept
        <4> QED
          BY <1>0, <1>2, <2>3, <3>2, <4>1 DEF TransactionProgress, Returned, Queue, Behind
      <3>3. CASE ~Ready(t2)
        <4>1. Queue(t2)
          BY <3>1, <3>3, ReadyQueue DEF Kept
        <4> QED
          BY <1>0, <1>2, <2>3, <3>1, <3>3, <4>1 DEF TransactionProgress, Returned, Behind
      <3> QED
        BY <3>2, <3>3
    <2> QED
      BY <2>2, <2>3
  <1> QED
    BY <1>1, <1>2

LEMMA CommitPendingReturns ==
  ASSUME NEW t, Kept(t), DirtyLive(t), Queue(t)
  PROVE  Returned(TransactionCommitPending(t))
  <1>1. CASE t.queued.nodes # {}
    BY <1>1 DEF TransactionCommitPending, Returned, Behind
  <1>2. CASE t.queued.nodes = {}
    <2>1. LET u == Promote(t)
          IN  Kept(u) /\ DirtyLive(u) /\ Waiting(u) /\ u.pending = NoTxn
      BY <1>2, PromoteKept
    <2>2. Behind(Promote(t))
      BY <2>1 DEF Behind, NoTxn
    <2> QED
      BY <1>2, <2>1, <2>2, ProgressReturns DEF TransactionCommitPending
  <1> QED
    BY <1>1, <1>2

LEMMA AddedKept ==
  ASSUME NEW t, Kept(t), DirtyKnown(t), NEW server \in BOOLEAN
  PROVE  LET u == [TransactionAddNode(t, t.dirty, server) EXCEPT !.dirty = {}]
         IN  /\ Kept(u) /\ DirtyLive(u)
             /\ u.queued = t.queued /\ u.armed = t.armed /\ u.cur = t.cur
  <1> DEFINE a == TransactionAddNode(t, t.dirty, server)
             u == [a EXCEPT !.dirty = {}]
  <1>1. t \in ServerState /\ t.dirty \in SUBSET Node
    BY DEF Kept, ServerState
  <1>2. a \in ServerState
    BY <1>1, AddNodeType
  <1>3. /\ a.life = t.life /\ a.queued = t.queued /\ a.owner = t.owner
        /\ a.armed = t.armed /\ a.cur = t.cur
        /\ a.pending = Instructed(t.pending, t.dirty, t.pend, server)
        /\ a.refs = [n \in Node |-> IF n \in NewlyAdded(t, t.dirty)
                                      THEN t.refs[n] + 1 ELSE t.refs[n]]
    BY <1>1 DEF TransactionAddNode, ServerState
  <1>4. a.pending.nodes = t.pending.nodes \cup t.dirty
    BY <1>1, <1>3 DEF Instructed, ServerState, Txn
  <1> HIDE DEF a
  <1>5. /\ u \in ServerState /\ u.dirty = {}
        /\ u.life = a.life /\ u.queued = a.queued /\ u.owner = a.owner
        /\ u.armed = a.armed /\ u.pending = a.pending /\ u.refs = a.refs
        /\ u.cur = a.cur
    BY <1>2 DEF ServerState
  <1> HIDE DEF u
  <1>6. RefsCounted(u)
    BY <1>1, <1>3, <1>4, <1>5 DEF RefsCounted, Count, NewlyAdded, Kept, ServerState
  <1>7. Known(u)
    BY <1>3, <1>4, <1>5 DEF Known, Kept, DirtyKnown, Live, Destroying
  <1>8. Armed(u) /\ Accounted(u) /\ Owned(u)
    BY <1>3, <1>4, <1>5 DEF Armed, Accounted, Owned, Kept
  <1>9. Kept(u) /\ DirtyLive(u)
    BY <1>5, <1>6, <1>7, <1>8 DEF Kept, DirtyLive
  <1> QED
    BY <1>3, <1>5, <1>9 DEF u, a

LEMMA CommitDirtyReturns ==
  ASSUME NEW t, Kept(t), DirtyKnown(t), Queue(t), Behind(t), NEW server \in BOOLEAN
  PROVE  Returned(TransactionCommitDirty(t, server))
  <1>1. CASE t.dirty = {}
    BY <1>1 DEF TransactionCommitDirty, Returned, DirtyLive
  <1>2. CASE t.dirty # {}
    <2> DEFINE u == [TransactionAddNode(t, t.dirty, server) EXCEPT !.dirty = {}]
    <2>1. Kept(u) /\ DirtyLive(u) /\ u.queued = t.queued /\ u.armed = t.armed
      BY AddedKept
    <2> HIDE DEF u
    <2>2. Queue(u)
      BY <2>1 DEF Queue, Waiting
    <2>3. Returned(TransactionCommitPending(u))
      BY <2>1, <2>2, CommitPendingReturns
    <2> QED
      BY <1>2, <2>3 DEF TransactionCommitDirty, u
  <1> QED
    BY <1>1, <1>2

------------------------------------------------------------------------------
(***************************************************************************)
(* The three layouts of AtomicLayout, followed through the operators:      *)
(* Moved relates a state to one reached from it without a commit, Stepped  *)
(* to one reached with one.                                                *)
(***************************************************************************)
Layouts == [Node -> Geometry]
Tgt(t) == Over(t.queued, t.cur)
Wnt(t) == Over(t.pending, Tgt(t))

Stepped(t, r) ==
  /\ Wnt(r) \in Layouts
  /\ \/ Tgt(r) = Tgt(t) /\ r.cur = t.cur
     \/ Tgt(r) = Wnt(r) /\ r.cur = Tgt(t)
     \/ Tgt(r) = Wnt(r) /\ r.cur = Wnt(r)
Moved(t, r) == Stepped(t, r) /\ Wnt(r) = Wnt(t)

LEMMA OverType ==
  ASSUME NEW txn \in Txn, NEW layout \in Layouts
  PROVE  /\ Over(txn, layout) \in Layouts
         /\ txn.nodes = {} => Over(txn, layout) = layout
  BY DEF Over, Txn, Layouts

LEMMA LayoutTypes ==
  ASSUME NEW t \in ServerState
  PROVE  t.cur \in Layouts /\ Tgt(t) \in Layouts /\ Wnt(t) \in Layouts
  BY OverType DEF ServerState, Tgt, Wnt, Layouts

LEMMA Composed ==
  ASSUME NEW t, NEW u, NEW r, Stepped(t, u), Moved(u, r)
  PROVE  Stepped(t, r)
  BY DEF Stepped, Moved

LEMMA SameLayouts ==
  ASSUME NEW t \in ServerState, NEW r, r.pending = t.pending, r.queued = t.queued,
         r.cur = t.cur
  PROVE  Moved(t, r)
  BY LayoutTypes DEF Moved, Stepped, Tgt, Wnt

LEMMA FinishLayouts ==
  ASSUME NEW t, Kept(t), DirtyLive(t)
  PROVE  /\ Finish(t).cur = Tgt(t)
         /\ Tgt(Finish(t)) = Tgt(t) /\ Wnt(Finish(t)) = Wnt(t)
  <1> DEFINE a == TransactionApply(t)
             d == TransactionDestroy(a)
  <1>1. t \in ServerState /\ a \in ServerState
    BY ApplyType DEF Kept
  <1>2. a.cur = Tgt(t)
    BY <1>1 DEF TransactionApply, Applied, Tgt, Over, ServerState
  <1> HIDE DEF a
  <1>3. d.cur = a.cur
    BY <1>1 DEF TransactionDestroy, ServerState
  <1>4. Finish(t).cur = Tgt(t)
    BY <1>2, <1>3 DEF Finish, a
  <1>5. Kept(Finish(t)) /\ Finish(t).pending = t.pending /\ Finish(t).queued = NoTxn
    BY FinishKept
  <1>6. NoTxn.nodes = {}
    BY DEF NoTxn
  <1>7. Tgt(Finish(t)) = Finish(t).cur
    BY <1>5, <1>6, OverType, LayoutTypes, NoTxnType DEF Tgt, Kept
  <1> QED
    BY <1>4, <1>5, <1>7 DEF Wnt

LEMMA CommitLayouts ==
  ASSUME NEW t \in ServerState
  PROVE  LET u == TransactionCommit(t)
         IN  u.cur = t.cur /\ Tgt(u) = Tgt(t) /\ Wnt(u) = Wnt(t)
  <1> DEFINE u == TransactionCommit(t)
  <1>1. /\ u.cur = t.cur /\ u.pending = t.pending
        /\ u.queued = WaitFor(t.queued, Configured(t) \ Hidden(t), Serials(t))
    BY DEF TransactionCommit, ServerState
  <1>2. u.queued.nodes = t.queued.nodes /\ u.queued.state = t.queued.state
    BY <1>1 DEF WaitFor, ServerState, Txn
  <1> HIDE DEF u
  <1> QED
    BY <1>1, <1>2 DEF Tgt, Wnt, Over, u

LEMMA PromoteLayouts ==
  ASSUME NEW t, Kept(t), t.queued.nodes = {}
  PROVE  LET u == Promote(t)
         IN  u.cur = t.cur /\ Tgt(u) = Wnt(t) /\ Wnt(u) = Wnt(t) /\ Tgt(t) = t.cur
  <1> DEFINE r == [t EXCEPT !.queued = t.pending, !.pending = NoTxn]
  <1>1. t \in ServerState /\ NoTxn.nodes = {}
    BY DEF Kept, NoTxn
  <1>2. /\ r \in ServerState /\ r.cur = t.cur
        /\ r.pending = NoTxn /\ r.queued = t.pending
    BY <1>1, NoTxnType DEF ServerState
  <1>3. Tgt(t) = t.cur
    BY <1>1, OverType, LayoutTypes DEF Tgt, ServerState
  <1>4. Tgt(r) = Wnt(t)
    BY <1>2, <1>3 DEF Tgt, Wnt
  <1>5. Wnt(r) = Tgt(r)
    BY <1>1, <1>2, OverType, LayoutTypes, NoTxnType DEF Wnt
  <1>6. Promote(t) = TransactionCommit(r)
    BY DEF Promote
  <1> HIDE DEF r
  <1> QED
    BY <1>2, <1>3, <1>4, <1>5, <1>6, CommitLayouts

LEMMA ProgressMoved ==
  ASSUME NEW t, Kept(t), DirtyLive(t)
  PROVE  Moved(t, TransactionProgress(t))
  <1>0. t \in ServerState /\ NoTxn.nodes = {}
    BY DEF Kept, NoTxn
  <1>1. CASE ~Ready(t)
    BY <1>0, <1>1, SameLayouts DEF TransactionProgress
  <1>2. CASE Ready(t)
    <2> DEFINE t1 == Finish(t)
               t2 == Promote(t1)
    <2>1. /\ Kept(t1) /\ DirtyLive(t1) /\ t1.pending = t.pending /\ t1.queued = NoTxn
          /\ t1.cur = Tgt(t) /\ Tgt(t1) = Tgt(t) /\ Wnt(t1) = Wnt(t)
      BY FinishKept, FinishLayouts
    <2>2. Wnt(t) \in Layouts
      BY <1>0, LayoutTypes
    <2>3. CASE t1.pending.nodes = {}
      <3>1. Wnt(t1) = Tgt(t1)
        BY <2>1, <2>3, OverType, LayoutTypes DEF Wnt, Kept, ServerState
      <3> QED
        BY <1>2, <2>1, <2>2, <2>3, <3>1 DEF TransactionProgress, Moved, Stepped
    <2>4. CASE t1.pending.nodes # {}
      <3>1. /\ Kept(t2) /\ DirtyLive(t2)
            /\ t2.cur = Tgt(t) /\ Tgt(t2) = Wnt(t) /\ Wnt(t2) = Wnt(t)
        BY <1>0, <2>1, PromoteKept, PromoteLayouts
      <3>2. CASE Ready(t2)
        <4>1. /\ Finish(t2).cur = Wnt(t) /\ Tgt(Finish(t2)) = Wnt(t)
              /\ Wnt(Finish(t2)) = Wnt(t)
          BY <3>1, FinishLayouts
        <4> QED
          BY <1>2, <2>2, <2>4, <3>2, <4>1 DEF TransactionProgress, Moved, Stepped
      <3>3. CASE ~Ready(t2)
        BY <1>2, <2>2, <2>4, <3>1, <3>3 DEF TransactionProgress, Moved, Stepped
      <3> QED
        BY <3>2, <3>3
    <2> QED
      BY <2>3, <2>4
  <1> QED
    BY <1>1, <1>2

LEMMA CommitPendingStepped ==
  ASSUME NEW t, Kept(t), DirtyLive(t)
  PROVE  Stepped(t, TransactionCommitPending(t))
  <1>0. t \in ServerState /\ Wnt(t) \in Layouts
    BY LayoutTypes DEF Kept
  <1>1. CASE t.queued.nodes # {}
    BY <1>0, <1>1 DEF TransactionCommitPending, Stepped
  <1>2. CASE t.queued.nodes = {}
    <2> DEFINE u == Promote(t)
    <2>1. /\ Kept(u) /\ DirtyLive(u)
          /\ u.cur = t.cur /\ Tgt(u) = Wnt(t) /\ Wnt(u) = Wnt(t) /\ Tgt(t) = t.cur
      BY <1>2, PromoteKept, PromoteLayouts
    <2>2. Stepped(t, u)
      BY <1>0, <2>1 DEF Stepped
    <2>3. Moved(u, TransactionProgress(u))
      BY <2>1, ProgressMoved
    <2> QED
      BY <1>2, <2>2, <2>3, Composed DEF TransactionCommitPending
  <1> QED
    BY <1>1, <1>2

LEMMA CommitDirtyStepped ==
  ASSUME NEW t, Kept(t), DirtyKnown(t), NEW server \in BOOLEAN
  PROVE  Stepped(t, TransactionCommitDirty(t, server))
  <1>1. CASE t.dirty = {}
    BY <1>1, SameLayouts DEF TransactionCommitDirty, Kept, Moved
  <1>2. CASE t.dirty # {}
    <2> DEFINE u == [TransactionAddNode(t, t.dirty, server) EXCEPT !.dirty = {}]
    <2>1. Kept(u) /\ DirtyLive(u) /\ u.queued = t.queued /\ u.cur = t.cur
      BY AddedKept
    <2> HIDE DEF u
    <2>2. Tgt(u) = Tgt(t)
      BY <2>1 DEF Tgt
    <2>3. Stepped(u, TransactionCommitPending(u))
      BY <2>1, CommitPendingStepped
    <2>4. Stepped(t, TransactionCommitPending(u))
      BY <2>1, <2>2, <2>3 DEF Stepped
    <2> QED
      BY <1>2, <2>4 DEF TransactionCommitDirty, u
  <1> QED
    BY <1>1, <1>2

------------------------------------------------------------------------------
LEMMA ReadyReturns ==
  ASSUME NEW t, Returned(t), NEW n \in t.armed
  PROVE  /\ Returned(SetInstructionReady(t, n))
         /\ Moved(t, SetInstructionReady(t, n))
  <1> DEFINE q == IF Counts(t, n) THEN Answered(t.queued) ELSE t.queued
             u == [t EXCEPT !.queued = q, !.armed = t.armed \ {n}]
  <1>1. /\ t \in ServerState /\ t.queued \in Txn /\ t.armed \in SUBSET Node
        /\ n \in t.queued.nodes /\ t.queued.num \in Nat
        /\ t.queued.num = Cardinality(t.queued.waiting \cap t.armed)
        /\ t.queued.timer
    BY DEF Returned, Kept, Armed, Queue, Waiting, ServerState, Txn
  <1>2. /\ q \in Txn /\ q.nodes = t.queued.nodes /\ q.waiting = t.queued.waiting
        /\ q.state = t.queued.state
    BY <1>1, AnsweredType DEF Counts, Answered, Txn
  <1>3. q.num = Cardinality(q.waiting \cap (t.armed \ {n}))
    <2>1. IsFiniteSet(t.queued.waiting \cap t.armed)
      BY <1>1, NodesFinite
    <2>2. CASE Counts(t, n)
      <3>1. q.num = t.queued.num - 1
        BY <1>1, <2>2 DEF Answered, Txn
      <3>2. (t.queued.waiting \cap t.armed) \ {n} = q.waiting \cap (t.armed \ {n})
        BY <1>2
      <3>3. n \in t.queued.waiting \cap t.armed
        BY <2>2 DEF Counts
      <3>4. Cardinality((t.queued.waiting \cap t.armed) \ {n})
              = Cardinality(t.queued.waiting \cap t.armed) - 1
        BY <2>1, <3>3, FS_RemoveElement
      <3> QED
        BY <1>1, <3>1, <3>2, <3>4
    <2>3. CASE ~Counts(t, n)
      <3>1. t.queued.num > 0
        BY <1>1 DEF Returned, Queue
      <3>2. n \notin t.queued.waiting
        BY <2>3, <3>1 DEF Counts
      <3>3. q.waiting \cap (t.armed \ {n}) = t.queued.waiting \cap t.armed
        BY <3>2, <1>2
      <3> QED
        BY <1>1, <2>3, <3>3
    <2> QED
      BY <2>2, <2>3
  <1>4. q.num > 0 => q.timer
    BY <1>1 DEF Answered, Counts, Txn
  <1> HIDE DEF q
  <1>5. /\ u \in ServerState /\ u.queued = q /\ u.armed = t.armed \ {n}
        /\ u.pending = t.pending /\ u.life = t.life /\ u.refs = t.refs
        /\ u.dirty = t.dirty /\ u.owner = t.owner /\ u.cur = t.cur
    BY <1>1, <1>2 DEF ServerState
  <1> HIDE DEF u
  <1>6. Kept(u)
    BY <1>2, <1>5 DEF Returned, Kept, RefsCounted, Count, Known, Armed, Accounted, Owned
  <1>7. DirtyLive(u) /\ Behind(u) /\ Waiting(u)
    BY <1>2, <1>3, <1>4, <1>5 DEF Returned, DirtyLive, Live, Behind, Waiting
  <1>8. SetInstructionReady(t, n) = TransactionProgress(u)
    BY DEF SetInstructionReady, u, q
  <1>9. Tgt(u) = Tgt(t) /\ Wnt(u) = Wnt(t)
    BY <1>2, <1>5 DEF Tgt, Wnt, Over
  <1>10. Moved(u, TransactionProgress(u))
    BY <1>6, <1>7, ProgressMoved
  <1>11. Moved(t, TransactionProgress(u))
    BY <1>5, <1>9, <1>10 DEF Moved, Stepped
  <1> QED
    BY <1>6, <1>7, <1>8, <1>11, ProgressReturns

(***************************************************************************)
(* What a handler may change before it commits.                            *)
(***************************************************************************)
LEMMA ChangedKept ==
  ASSUME NEW t, Returned(t), NEW u \in ServerState,
         u.refs = t.refs, u.armed = t.armed,
         u.pending = t.pending, u.queued = t.queued,
         t.dirty \subseteq u.dirty, DirtyKnown(u), Owned(u),
         \A n \in Node : u.life[n] \in {"unused", "freed"} => t.life[n] = u.life[n],
         \A n \in Node : u.life[n] = "destroying" => n \in u.dirty \/ t.life[n] = "destroying"
  PROVE  Kept(u) /\ DirtyKnown(u) /\ Queue(u) /\ Behind(u)
  BY DEF Returned, Kept, RefsCounted, Count, Known, Armed, Accounted, Queue, Behind, Waiting

LEMMA NewStatesType == \A S : NewStates(S) \subseteq [S -> Geometry]
  BY DEF NewStates, Place, Geometry

LEMMA LayoutReturns ==
  ASSUME NEW t, Returned(t), NEW u \in ServerState,
         u.refs = t.refs, u.armed = t.armed, u.cur = t.cur,
         u.pending = t.pending, u.queued = t.queued,
         t.dirty \subseteq u.dirty, DirtyKnown(u), Owned(u),
         \A n \in Node : u.life[n] \in {"unused", "freed"} => t.life[n] = u.life[n],
         \A n \in Node : u.life[n] = "destroying" => n \in u.dirty \/ t.life[n] = "destroying",
         NEW S \in SUBSET (Live(u) \cup Destroying(u)), NEW g \in [S -> Geometry],
         NEW server \in BOOLEAN
  PROVE  /\ Returned(TransactionCommitDirty(SetDirty(u, S, g), server))
         /\ Stepped(t, TransactionCommitDirty(SetDirty(u, S, g), server))
  <1> DEFINE d == SetDirty(u, S, g)
  <1>1. d \in ServerState
    BY SetDirtyType DEF Live, Destroying
  <1>2. /\ d.refs = u.refs /\ d.armed = u.armed /\ d.pending = u.pending
        /\ d.queued = u.queued /\ d.life = u.life /\ d.owner = u.owner
        /\ d.dirty = u.dirty \cup S /\ d.cur = u.cur
    BY DEF SetDirty, ServerState
  <1> HIDE DEF d
  <1>3. DirtyKnown(d) /\ Owned(d)
    BY <1>2 DEF DirtyKnown, Owned, Live, Destroying
  <1>4. Kept(d) /\ Queue(d) /\ Behind(d)
    BY <1>1, <1>2, <1>3, ChangedKept
  <1>5. Tgt(d) = Tgt(t) /\ d.cur = t.cur
    BY <1>2 DEF Tgt
  <1>6. Stepped(d, TransactionCommitDirty(d, server))
    BY <1>3, <1>4, CommitDirtyStepped
  <1>7. Stepped(t, TransactionCommitDirty(d, server))
    BY <1>5, <1>6 DEF Stepped
  <1> QED
    BY <1>3, <1>4, <1>7, CommitDirtyReturns DEF d

\* Only these fields matter to what holds when a handler returned.
LEMMA SameReturns ==
  ASSUME NEW t, Returned(t), NEW u \in ServerState,
         u.refs = t.refs, u.armed = t.armed, u.pending = t.pending,
         u.queued = t.queued, u.life = t.life, u.owner = t.owner, u.dirty = t.dirty
  PROVE  Returned(u)
  BY DEF Returned, Kept, RefsCounted, Count, Known, Armed, Accounted, Owned,
         DirtyLive, Live, Queue, Waiting, Behind

LEMMA CountedSame ==
  ASSUME NEW t \in ServerState
  PROVE  LET u == Counted(t)
         IN  /\ u \in ServerState /\ u.refs = t.refs /\ u.armed = t.armed
             /\ u.pending = t.pending /\ u.queued = t.queued /\ u.dirty = t.dirty
             /\ u.life = t.life /\ u.owner = t.owner /\ u.cur = t.cur
  BY DEF Counted, ServerState

------------------------------------------------------------------------------
(***************************************************************************)
(* The specification keeps the invariant: one step per handler.            *)
(***************************************************************************)
IInv == Returned(s) /\ acked \in [Views -> Nat]

LEMMA InitIInv == Init => IInv
  <1> SUFFICES ASSUME Init PROVE IInv
    OBVIOUS
  <1>1. NoTxn.nodes = {}
    BY DEF NoTxn
  <1>2. s \in ServerState
    BY NoTxnType DEF Init, ServerState, Life, Geometry, Zero
  <1> QED
    BY <1>1, <1>2 DEF Init, IInv, Returned, Kept, RefsCounted, Count, Known, Armed,
                      Accounted, Owned, DirtyLive, Queue, Behind

LEMMA NextIInv ==
  ASSUME Returned(s'), acked' \in [Views -> Nat]
  PROVE  IInv'
  BY DEF IInv, Returned, Kept, RefsCounted, Count, Known, Armed, Accounted, Owned,
         DirtyLive, Live, Queue, Waiting, Behind

LEMMA ChangeLayoutReturns ==
  ASSUME IInv, NEW S, NEW hidden \in SUBSET Containers, NEW g \in NewStates(S),
         ChangeLayout(S, g, hidden)
  PROVE  IInv' /\ Stepped(s, s')
  <1> DEFINE u == [Counted(s) EXCEPT !.hidden = hidden]
  <1>1. s \in ServerState /\ g \in [S -> Geometry]
    BY NewStatesType DEF IInv, Returned, Kept
  <1>2. /\ u \in ServerState /\ u.refs = s.refs /\ u.armed = s.armed
        /\ u.pending = s.pending /\ u.queued = s.queued /\ u.dirty = s.dirty
        /\ u.life = s.life /\ u.owner = s.owner /\ u.cur = s.cur
    <2> DEFINE k == Counted(s)
    <2>1. /\ k \in ServerState /\ k.refs = s.refs /\ k.armed = s.armed
          /\ k.pending = s.pending /\ k.queued = s.queued /\ k.dirty = s.dirty
          /\ k.life = s.life /\ k.owner = s.owner /\ k.cur = s.cur
      BY <1>1, CountedSame
    <2>2. u = [k EXCEPT !.hidden = hidden]
      OBVIOUS
    <2> HIDE DEF k, u
    <2> QED
      BY <2>1, <2>2 DEF ServerState
  <1>3. s' = TransactionCommitDirty(SetDirty(u, S, g), TRUE) /\ S \subseteq Live(s)
    BY DEF ChangeLayout
  <1> HIDE DEF u
  <1>4. DirtyKnown(u) /\ Owned(u) /\ S \in SUBSET (Live(u) \cup Destroying(u))
    BY <1>2, <1>3 DEF IInv, Returned, Kept, DirtyLive, DirtyKnown, Live, Destroying, Owned
  <1>5. Returned(s') /\ Stepped(s, s')
    BY <1>1, <1>2, <1>3, <1>4, LayoutReturns DEF IInv
  <1> QED
    BY <1>5, NextIInv DEF ChangeLayout, IInv

LEMMA RequestConfigureReturns ==
  ASSUME IInv, NEW c \in Containers, NEW g \in Place, HandleRequestConfigure(c, g)
  PROVE  IInv' /\ Stepped(s, s')
  <1> DEFINE h == [n \in {c} |-> g]
             u == Counted(s)
  <1>1. s \in ServerState /\ h \in [{c} -> Geometry] /\ {c} \in SUBSET Node
    BY DEF IInv, Returned, Kept, Place, Geometry, Node
  <1>2. /\ u \in ServerState /\ u.refs = s.refs /\ u.armed = s.armed
        /\ u.pending = s.pending /\ u.queued = s.queued /\ u.dirty = s.dirty
        /\ u.life = s.life /\ u.owner = s.owner /\ u.cur = s.cur
    BY <1>1 DEF ServerState, Counted
  <1>3. s' = SetDirty(u, {c}, h) /\ s.life[c] = "live"
    BY DEF HandleRequestConfigure
  <1> HIDE DEF u, h
  <1>4. s' \in ServerState
    BY <1>1, <1>2, <1>3, SetDirtyType
  <1>5. /\ s'.refs = s.refs /\ s'.armed = s.armed /\ s'.pending = s.pending
        /\ s'.queued = s.queued /\ s'.life = s.life /\ s'.owner = s.owner
        /\ s'.cur = s.cur
        /\ s'.dirty = s.dirty \cup {c}
    BY <1>2, <1>3 DEF SetDirty, ServerState
  <1>6. Kept(s')
    BY <1>4, <1>5 DEF IInv, Returned, Kept, RefsCounted, Count, Known, Armed, Accounted, Owned
  <1>7. DirtyLive(s')
    BY <1>1, <1>3, <1>5 DEF IInv, Returned, DirtyLive, Live
  <1>8. Queue(s') /\ Behind(s')
    BY <1>5 DEF IInv, Returned, Queue, Waiting, Behind
  <1>9. Returned(s') /\ Moved(s, s')
    BY <1>1, <1>5, <1>6, <1>7, <1>8, SameLayouts DEF Returned
  <1> QED
    BY <1>9, NextIInv DEF HandleRequestConfigure, IInv, Moved

LEMMA CreateNodeReturns ==
  ASSUME IInv, NEW n \in Others, NEW g \in Place, CreateNode(n, g)
  PROVE  IInv' /\ Stepped(s, s')
  <1> DEFINE h == [m \in {n} |-> g]
             u == [Counted(s) EXCEPT !.life[n] = "live"]
  <1>1. s \in ServerState /\ h \in [{n} -> Geometry] /\ n \in Node
    BY DEF IInv, Returned, Kept, Place, Geometry, Node
  <1>2. /\ u \in ServerState /\ u.refs = s.refs /\ u.armed = s.armed
        /\ u.pending = s.pending /\ u.queued = s.queued /\ u.dirty = s.dirty
        /\ u.life = [s.life EXCEPT ![n] = "live"] /\ u.owner = s.owner
        /\ u.cur = s.cur
    <2> DEFINE k == Counted(s)
    <2>1. /\ k \in ServerState /\ k.refs = s.refs /\ k.armed = s.armed
          /\ k.pending = s.pending /\ k.queued = s.queued /\ k.dirty = s.dirty
          /\ k.life = s.life /\ k.owner = s.owner /\ k.cur = s.cur
      BY <1>1, CountedSame
    <2>2. u = [k EXCEPT !.life[n] = "live"]
      OBVIOUS
    <2> HIDE DEF k, u
    <2> QED
      BY <1>1, <2>1, <2>2 DEF ServerState, Life
  <1>3. s' = TransactionCommitDirty(SetDirty(u, {n}, h), TRUE)
    BY DEF CreateNode
  <1> HIDE DEF u, h
  <1>4. s.life \in [Node -> Life]
    BY <1>1 DEF ServerState
  <1>5. {n} \subseteq Live(u) /\ DirtyKnown(u) /\ Owned(u)
    BY <1>1, <1>2, <1>4 DEF IInv, Returned, Kept, DirtyLive, DirtyKnown, Live, Destroying, Owned
  <1>6. /\ \A m \in Node : u.life[m] \in {"unused", "freed"} => s.life[m] = u.life[m]
        /\ \A m \in Node : u.life[m] = "destroying" => s.life[m] = "destroying"
    BY <1>2, <1>4
  <1>7. Returned(s') /\ Stepped(s, s')
    BY <1>1, <1>2, <1>3, <1>5, <1>6, LayoutReturns DEF IInv
  <1> QED
    BY <1>7, NextIInv DEF CreateNode, IInv

LEMMA BeginDestroyReturns ==
  ASSUME IInv, NEW n \in Others, NEW S \in SUBSET Live(s), NEW g \in NewStates(S),
         BeginDestroy(n, S, g)
  PROVE  IInv' /\ Stepped(s, s')
  <1> DEFINE k == Counted(s)
             u == [k EXCEPT !.life[n] = "destroying", !.dirty = k.dirty \cup {n}]
  <1>1. s \in ServerState /\ g \in [S -> Geometry] /\ n \in Node
    BY NewStatesType DEF IInv, Returned, Kept, Node
  <1>2. /\ k \in ServerState /\ k.refs = s.refs /\ k.armed = s.armed
        /\ k.pending = s.pending /\ k.queued = s.queued /\ k.dirty = s.dirty
        /\ k.life = s.life /\ k.owner = s.owner /\ k.cur = s.cur
    BY <1>1, CountedSame
  <1>3. /\ s' = TransactionCommitDirty(SetDirty(u, S, g), TRUE)
        /\ s.life[n] = "live" /\ n \notin S
    BY DEF BeginDestroy
  <1>4. s.life \in [Node -> Life]
    BY <1>1 DEF ServerState
  <1> HIDE DEF k
  <1>5. /\ u \in ServerState /\ u.refs = s.refs /\ u.armed = s.armed
        /\ u.pending = s.pending /\ u.queued = s.queued
        /\ u.dirty = s.dirty \cup {n}
        /\ u.life = [s.life EXCEPT ![n] = "destroying"] /\ u.owner = s.owner
        /\ u.cur = s.cur
    BY <1>1, <1>2 DEF ServerState, Life
  <1> HIDE DEF u
  <1>6. DirtyKnown(u) /\ Owned(u) /\ S \in SUBSET (Live(u) \cup Destroying(u))
    <2>1. DirtyKnown(u)
      BY <1>1, <1>4, <1>5 DEF IInv, Returned, DirtyLive, DirtyKnown, Live, Destroying
    <2>2. Owned(u)
      BY <1>1, <1>4, <1>5 DEF IInv, Returned, Kept, Owned
    <2>3. S \in SUBSET (Live(u) \cup Destroying(u))
      BY <1>3, <1>4, <1>5 DEF Live, Destroying
    <2> QED
      BY <2>1, <2>2, <2>3
  <1>7. /\ \A m \in Node : u.life[m] \in {"unused", "freed"} => s.life[m] = u.life[m]
        /\ \A m \in Node : u.life[m] = "destroying" => m \in u.dirty \/ s.life[m] = "destroying"
    BY <1>4, <1>5
  <1>8. Returned(s') /\ Stepped(s, s')
    BY <1>1, <1>3, <1>5, <1>6, <1>7, LayoutReturns DEF IInv
  <1> QED
    BY <1>8, NextIInv DEF BeginDestroy, IInv

LEMMA MapReturns ==
  ASSUME IInv, NEW c \in Containers, NEW S \in SUBSET Live(s),
         NEW g \in NewStates(S \cup {c}), HandleMap(c, S, g)
  PROVE  IInv' /\ Stepped(s, s')
  <1> DEFINE k == Counted(s)
             v == ViewOf[c]
             u == [k EXCEPT !.life[c] = "live", !.owner[v] = c,
                            !.mapped = k.mapped \cup {v}]
  <1>1. s \in ServerState /\ g \in [S \cup {c} -> Geometry] /\ c \in Node /\ v \in Views
    BY NewStatesType, ConstantsOK DEF IInv, Returned, Kept, Node
  <1>2. /\ k \in ServerState /\ k.refs = s.refs /\ k.armed = s.armed
        /\ k.pending = s.pending /\ k.queued = s.queued /\ k.dirty = s.dirty
        /\ k.life = s.life /\ k.owner = s.owner /\ k.cur = s.cur
    BY <1>1, CountedSame
  <1>3. /\ s' = TransactionCommitDirty(SetDirty(u, S \cup {c}, g), TRUE)
        /\ s.life[c] = "unused"
    BY DEF HandleMap
  <1>4. s.life \in [Node -> Life] /\ s.owner \in [Views -> Containers \cup {NoContainer}]
    BY <1>1 DEF ServerState
  <1> HIDE DEF k
  <1>5. /\ u \in ServerState /\ u.refs = s.refs /\ u.armed = s.armed
        /\ u.pending = s.pending /\ u.queued = s.queued /\ u.dirty = s.dirty
        /\ u.life = [s.life EXCEPT ![c] = "live"] /\ u.owner = [s.owner EXCEPT ![v] = c]
        /\ u.cur = s.cur
    BY <1>1, <1>2 DEF ServerState, Life
  <1> HIDE DEF u
  <1>6. DirtyKnown(u) /\ S \cup {c} \in SUBSET (Live(u) \cup Destroying(u))
    BY <1>1, <1>4, <1>5 DEF IInv, Returned, DirtyLive, DirtyKnown, Live, Destroying
  <1>7. Owned(u)
    BY <1>1, <1>4, <1>5, ConstantsOK DEF IInv, Returned, Kept, Owned, Node
  <1>8. /\ \A m \in Node : u.life[m] \in {"unused", "freed"} => s.life[m] = u.life[m]
        /\ \A m \in Node : u.life[m] = "destroying" => s.life[m] = "destroying"
    BY <1>4, <1>5
  <1> DEFINE T == S \cup {c}
  <1>9. T \in SUBSET (Live(u) \cup Destroying(u)) /\ g \in [T -> Geometry]
    BY <1>1, <1>6
  <1> HIDE DEF T
  <1>10. LET r == TransactionCommitDirty(SetDirty(u, T, g), TRUE)
         IN  Returned(r) /\ Stepped(s, r)
    BY <1>5, <1>6, <1>7, <1>8, <1>9, LayoutReturns DEF IInv
  <1>11. Returned(s') /\ Stepped(s, s')
    BY <1>3, <1>10 DEF T
  <1> QED
    BY <1>11, NextIInv DEF HandleMap, IInv

LEMMA UnmapReturns ==
  ASSUME IInv, NEW c \in Containers, NEW S \in SUBSET Live(s), NEW g \in NewStates(S),
         HandleUnmap(c, S, g)
  PROVE  IInv' /\ Stepped(s, s')
  <1> DEFINE k == Counted(s)
             u == [k EXCEPT !.life[c] = "destroying", !.dirty = k.dirty \cup {c}]
             r == TransactionCommitDirty(SetDirty(u, S, g), TRUE)
  <1>1. s \in ServerState /\ g \in [S -> Geometry] /\ c \in Node
    BY NewStatesType DEF IInv, Returned, Kept, Node
  <1>2. /\ k \in ServerState /\ k.refs = s.refs /\ k.armed = s.armed
        /\ k.pending = s.pending /\ k.queued = s.queued /\ k.dirty = s.dirty
        /\ k.life = s.life /\ k.owner = s.owner /\ k.cur = s.cur
    BY <1>1, CountedSame
  <1>3. /\ s' = [r EXCEPT !.mapped = @ \ {ViewOf[c]}]
        /\ s.life[c] = "live" /\ c \notin S
    BY DEF HandleUnmap
  <1>4. s.life \in [Node -> Life]
    BY <1>1 DEF ServerState
  <1> HIDE DEF k
  <1>5. /\ u \in ServerState /\ u.refs = s.refs /\ u.armed = s.armed
        /\ u.pending = s.pending /\ u.queued = s.queued
        /\ u.dirty = s.dirty \cup {c}
        /\ u.life = [s.life EXCEPT ![c] = "destroying"] /\ u.owner = s.owner
        /\ u.cur = s.cur
    BY <1>1, <1>2 DEF ServerState, Life
  <1> HIDE DEF u
  <1>6. DirtyKnown(u) /\ Owned(u) /\ S \in SUBSET (Live(u) \cup Destroying(u))
    <2>1. DirtyKnown(u)
      BY <1>1, <1>4, <1>5 DEF IInv, Returned, DirtyLive, DirtyKnown, Live, Destroying
    <2>2. Owned(u)
      BY <1>1, <1>4, <1>5 DEF IInv, Returned, Kept, Owned
    <2>3. S \in SUBSET (Live(u) \cup Destroying(u))
      BY <1>3, <1>4, <1>5 DEF Live, Destroying
    <2> QED
      BY <2>1, <2>2, <2>3
  <1>7. /\ \A m \in Node : u.life[m] \in {"unused", "freed"} => s.life[m] = u.life[m]
        /\ \A m \in Node : u.life[m] = "destroying" => m \in u.dirty \/ s.life[m] = "destroying"
    BY <1>4, <1>5
  <1>8. Returned(r) /\ Stepped(s, r)
    BY <1>1, <1>5, <1>6, <1>7, LayoutReturns DEF IInv
  <1> HIDE DEF r
  <1>9. r \in ServerState
    BY <1>8 DEF Returned, Kept
  <1>10. /\ s' \in ServerState /\ s'.refs = r.refs /\ s'.armed = r.armed
         /\ s'.pending = r.pending /\ s'.queued = r.queued /\ s'.life = r.life
         /\ s'.owner = r.owner /\ s'.dirty = r.dirty /\ s'.cur = r.cur
    BY <1>3, <1>9 DEF ServerState
  <1>11. Returned(s')
    BY <1>8, <1>10, SameReturns
  <1>12. Moved(r, s')
    BY <1>9, <1>10, SameLayouts
  <1> QED
    BY <1>8, <1>11, <1>12, NextIInv, Composed DEF HandleUnmap, IInv

LEMMA DecorationReturns ==
  ASSUME IInv, NEW v \in Views, NEW g \in Place, SetXdgDecorationMode(v, g)
  PROVE  IInv' /\ Stepped(s, s')
  <1> DEFINE c == s.owner[v]
             h == [n \in {c} |-> g]
             u == Counted(s)
  <1>1. /\ s \in ServerState /\ c \in Containers /\ c \in Node
        /\ h \in [{c} -> Geometry]
    BY DEF IInv, Returned, Kept, ServerState, Node, SetXdgDecorationMode, Place, Geometry
  <1>2. /\ u \in ServerState /\ u.refs = s.refs /\ u.armed = s.armed
        /\ u.pending = s.pending /\ u.queued = s.queued /\ u.dirty = s.dirty
        /\ u.life = s.life /\ u.owner = s.owner /\ u.cur = s.cur
    BY <1>1, CountedSame
  <1>3. s' = TransactionCommitDirty(SetDirty(u, {c}, h), TRUE)
    BY DEF SetXdgDecorationMode
  <1>4. s.life[c] \in Life \ {"unused", "freed"}
    BY <1>1 DEF SetXdgDecorationMode, IInv, Returned, Kept, Owned, ServerState
  <1> DEFINE T == {c}
  <1> HIDE DEF u
  <1>5. DirtyKnown(u) /\ Owned(u)
    BY <1>2 DEF IInv, Returned, Kept, DirtyLive, DirtyKnown, Live, Destroying, Owned
  <1>6. T \in SUBSET (Live(u) \cup Destroying(u)) /\ h \in [T -> Geometry]
    BY <1>1, <1>2, <1>4 DEF Live, Destroying, Life
  <1>7. s' = TransactionCommitDirty(SetDirty(u, T, h), TRUE)
    BY <1>3
  <1> HIDE DEF h, T
  <1>8. Returned(s') /\ Stepped(s, s')
    BY <1>2, <1>5, <1>6, <1>7, LayoutReturns DEF IInv
  <1> QED
    BY <1>8, NextIInv DEF SetXdgDecorationMode, IInv

LEMMA ScheduleReturns ==
  ASSUME IInv, NEW v \in Views, ScheduleConfigure(v) \/ SendConfigure(v)
  PROVE  IInv' /\ Stepped(s, s')
  <1>1. s \in ServerState
    BY DEF IInv, Returned, Kept
  <1>2. CASE ScheduleConfigure(v)
    <2> DEFINE k == Counted(s)
    <2>1. /\ k \in ServerState /\ k.refs = s.refs /\ k.armed = s.armed
          /\ k.pending = s.pending /\ k.queued = s.queued /\ k.dirty = s.dirty
          /\ k.life = s.life /\ k.owner = s.owner /\ k.cur = s.cur
      BY <1>1, CountedSame
    <2>2. s' = [k EXCEPT !.issued = Schedule(s, {v})]
      BY <1>2 DEF ScheduleConfigure
    <2>3. Schedule(s, {v}) \in [Views -> Nat]
      BY <1>1 DEF Schedule, ServerState
    <2> HIDE DEF k
    <2>4. /\ s' \in ServerState /\ s'.refs = s.refs /\ s'.armed = s.armed
          /\ s'.pending = s.pending /\ s'.queued = s.queued /\ s'.dirty = s.dirty
          /\ s'.life = s.life /\ s'.owner = s.owner /\ s'.cur = s.cur
      BY <2>1, <2>2, <2>3 DEF ServerState
    <2>5. Returned(s') /\ Moved(s, s')
      BY <1>1, <2>4, SameReturns, SameLayouts DEF IInv
    <2> QED
      BY <1>2, <2>5, NextIInv DEF ScheduleConfigure, IInv, Moved
  <1>3. CASE SendConfigure(v)
    <2>1. s' = [s EXCEPT !.sent[v] = s.issued[v]]
      BY <1>3 DEF SendConfigure
    <2>2. /\ s' \in ServerState /\ s'.refs = s.refs /\ s'.armed = s.armed
          /\ s'.pending = s.pending /\ s'.queued = s.queued /\ s'.dirty = s.dirty
          /\ s'.life = s.life /\ s'.owner = s.owner /\ s'.cur = s.cur
      BY <1>1, <2>1 DEF ServerState
    <2>3. Returned(s') /\ Moved(s, s')
      BY <1>1, <2>2, SameReturns, SameLayouts DEF IInv
    <2> QED
      BY <1>3, <2>3, NextIInv DEF SendConfigure, IInv, Moved
  <1> QED
    BY <1>2, <1>3

LEMMA ViewBeginDestroyReturns ==
  ASSUME IInv, NEW v \in Views, ViewBeginDestroy(v)
  PROVE  IInv' /\ Stepped(s, s')
  <1>1. s \in ServerState
    BY DEF IInv, Returned, Kept
  <1> DEFINE gone == IF s.owner[v] = NoContainer THEN s.gone \cup {v} ELSE s.gone
  <1>2. s' = [s EXCEPT !.dying = s.dying \cup {v}, !.gone = gone]
    BY <1>1 DEF ViewBeginDestroy, ServerState
  <1>3. gone \in SUBSET Views
    BY <1>1 DEF ServerState
  <1> HIDE DEF gone
  <1>4. /\ s' \in ServerState /\ s'.refs = s.refs /\ s'.armed = s.armed
        /\ s'.pending = s.pending /\ s'.queued = s.queued /\ s'.dirty = s.dirty
        /\ s'.life = s.life /\ s'.owner = s.owner /\ s'.cur = s.cur
    BY <1>1, <1>2, <1>3 DEF ServerState
  <1>5. Returned(s') /\ Moved(s, s')
    BY <1>1, <1>4, SameReturns, SameLayouts DEF IInv
  <1> QED
    BY <1>5, NextIInv DEF ViewBeginDestroy, IInv, Moved

\* A client that resizes a live container leaves a state that can be committed.
LEMMA ResizedReturns ==
  ASSUME IInv, NEW c \in Containers, s.life[c] = "live", NEW g \in Place,
         NEW issued \in [Views -> Nat]
  PROVE  LET u == ViewUpdateSize(c, g)
             r1 == TransactionCommitDirty(u, FALSE)
             r2 == TransactionCommitDirty([u EXCEPT !.issued = issued], FALSE)
         IN  /\ u \in ServerState
             /\ Returned(r1) /\ Stepped(s, r1)
             /\ Returned(r2) /\ Stepped(s, r2)
  <1> DEFINE k == Counted(s)
             h == [k.pend EXCEPT ![c] = [s.pend[c] EXCEPT !.size = g.size]]
             u == ViewUpdateSize(c, g)
             w == [u EXCEPT !.issued = issued]
  <1>1. s \in ServerState /\ c \in Node
    BY DEF IInv, Returned, Kept, Node
  <1>2. /\ k \in ServerState /\ k.refs = s.refs /\ k.armed = s.armed
        /\ k.pending = s.pending /\ k.queued = s.queued /\ k.dirty = s.dirty
        /\ k.life = s.life /\ k.owner = s.owner /\ k.cur = s.cur
    BY <1>1, CountedSame
  <1>3. u = [k EXCEPT !.pend = h, !.dirty = k.dirty \cup {c}]
    BY <1>2 DEF ViewUpdateSize, ServerState
  <1>4. h \in [Node -> Geometry]
    <2>1. [s.pend[c] EXCEPT !.size = g.size] \in Geometry
      BY <1>1 DEF ServerState, Geometry, Place
    <2> HIDE DEF k
    <2> QED
      BY <1>2, <2>1 DEF ServerState
  <1> HIDE DEF k, h, u
  <1>5. /\ u \in ServerState /\ u.refs = s.refs /\ u.armed = s.armed
        /\ u.pending = s.pending /\ u.queued = s.queued
        /\ u.dirty = s.dirty \cup {c} /\ u.life = s.life /\ u.owner = s.owner /\ u.cur = s.cur
    BY <1>1, <1>2, <1>3, <1>4 DEF ServerState
  <1>6. /\ w \in ServerState /\ w.refs = s.refs /\ w.armed = s.armed
        /\ w.pending = s.pending /\ w.queued = s.queued
        /\ w.dirty = s.dirty \cup {c} /\ w.life = s.life /\ w.owner = s.owner
        /\ w.cur = s.cur
    BY <1>5 DEF ServerState
  <1> HIDE DEF w
  <1>7. DirtyKnown(u) /\ Owned(u)
    BY <1>1, <1>5 DEF IInv, Returned, Kept, DirtyLive, DirtyKnown, Live, Destroying, Owned
  <1>8. DirtyKnown(w) /\ Owned(w)
    BY <1>1, <1>6 DEF IInv, Returned, Kept, DirtyLive, DirtyKnown, Live, Destroying, Owned
  <1>9. Kept(u) /\ Queue(u) /\ Behind(u)
    BY <1>5, <1>7, ChangedKept DEF IInv
  <1>10. Kept(w) /\ Queue(w) /\ Behind(w)
    BY <1>6, <1>8, ChangedKept DEF IInv
  <1> DEFINE r1 == TransactionCommitDirty(u, FALSE)
             r2 == TransactionCommitDirty(w, FALSE)
  <1>11. Returned(r1) /\ Stepped(u, r1) /\ Returned(r2) /\ Stepped(w, r2)
    BY <1>7, <1>8, <1>9, <1>10, CommitDirtyReturns, CommitDirtyStepped
  <1>12. Moved(s, u) /\ Moved(s, w)
    BY <1>1, <1>5, <1>6, SameLayouts
  <1> HIDE DEF r1, r2
  <1>13. Stepped(s, r1) /\ Stepped(s, r2)
    BY <1>5, <1>6, <1>11, <1>12 DEF Stepped, Tgt
  <1> QED
    BY <1>5, <1>11, <1>13 DEF u, w, r1, r2

LEMMA XdgCommitReturns ==
  ASSUME IInv, NEW c \in Containers, NEW serial, NEW resize \in BOOLEAN,
         NEW g \in Place, HandleXdgCommit(c, serial, resize, g)
  PROVE  IInv' /\ Stepped(s, s')
  <1> DEFINE v == ViewOf[c]
             u == ViewUpdateSize(c, g)
             issued == IF s.cur[c].size = 0 THEN u.issued ELSE Schedule(s, {v})
             t1 == [u EXCEPT !.issued = issued]
             t2 == IF resize THEN TransactionCommitDirty(t1, FALSE) ELSE s
  <1>1. /\ s \in ServerState /\ v \in Views /\ s.life[c] = "live"
        /\ acked \in [Views -> Nat]
    BY ConstantsOK DEF IInv, Returned, Kept, HandleXdgCommit
  <1>2. u \in ServerState
    <2>1. [x \in Views |-> 0] \in [Views -> Nat]
      OBVIOUS
    <2> QED
      BY <1>1, <2>1, ResizedReturns
  <1>3. issued \in [Views -> Nat]
    BY <1>1, <1>2 DEF Schedule, ServerState
  <1>4. Returned(t2) /\ Stepped(s, t2)
    <2>1. CASE resize
      <3> HIDE DEF issued
      <3>1. /\ Returned(TransactionCommitDirty(t1, FALSE))
            /\ Stepped(s, TransactionCommitDirty(t1, FALSE))
        BY <1>1, <1>3, ResizedReturns
      <3> QED
        BY <2>1, <3>1
    <2>2. CASE ~resize
      BY <1>1, <2>2, SameLayouts DEF IInv, Moved
    <2> QED
      BY <2>1, <2>2
  <1>5. /\ s' = NotifyBySerial(t2, c, serial)
        /\ serial \in acked[v] .. s.sent[v]
        /\ acked' = [acked EXCEPT ![v] = serial]
    BY <1>1, <1>2 DEF HandleXdgCommit
  <1> HIDE DEF t2
  <1>6. t2 \in ServerState
    BY <1>4 DEF Returned, Kept
  <1>7. Returned(s') /\ Moved(t2, s')
    BY <1>4, <1>5, <1>6, ReadyReturns, SameLayouts DEF NotifyBySerial
  <1>8. acked' \in [Views -> Nat]
    BY <1>1, <1>5 DEF ServerState
  <1> QED
    BY <1>4, <1>7, <1>8, NextIInv, Composed

LEMMA XwaylandCommitReturns ==
  ASSUME IInv, NEW c \in Containers, NEW resize \in BOOLEAN, NEW g \in Place,
         HandleXwaylandCommit(c, resize, g)
  PROVE  IInv' /\ Stepped(s, s')
  <1> DEFINE t2 == IF resize THEN TransactionCommitDirty(ViewUpdateSize(c, g), FALSE) ELSE s
  <1>1. /\ s \in ServerState /\ s.life[c] = "live"
        /\ s' = NotifyByGeometry(t2, c, g) /\ acked' = acked
    BY DEF HandleXwaylandCommit, IInv, Returned, Kept
  <1>2. Returned(t2) /\ Stepped(s, t2)
    <2>1. [x \in Views |-> 0] \in [Views -> Nat]
      OBVIOUS
    <2>2. CASE resize
      BY <1>1, <2>1, <2>2, ResizedReturns
    <2>3. CASE ~resize
      BY <1>1, <2>3, SameLayouts DEF IInv, Moved
    <2> QED
      BY <2>2, <2>3
  <1>3. t2 \in ServerState
    BY <1>2 DEF Returned, Kept
  <1> HIDE DEF t2
  <1>4. Returned(s') /\ Moved(t2, s')
    BY <1>1, <1>2, <1>3, ReadyReturns, SameLayouts DEF NotifyByGeometry
  <1> QED
    BY <1>1, <1>2, <1>4, NextIInv, Composed DEF IInv

\* handle_timeout forces num_waiting to zero: the transaction is applied at
\* once, so the count it no longer respects does not outlive the handler.
LEMMA ReadyProgressReturns ==
  ASSUME NEW t, Kept(t), DirtyLive(t), Ready(t)
  PROVE  Returned(TransactionProgress(t))
  <1> DEFINE t1 == Finish(t)
             t2 == Promote(t1)
  <1>1. Kept(t1) /\ DirtyLive(t1) /\ t1.pending = t.pending /\ t1.queued = NoTxn
    BY FinishKept
  <1>2. NoTxn.nodes = {}
    BY DEF NoTxn
  <1>3. CASE t1.pending.nodes = {}
    BY <1>1, <1>2, <1>3 DEF TransactionProgress, Returned, Queue, Behind
  <1>4. CASE t1.pending.nodes # {}
    <2>1. /\ Kept(t2) /\ DirtyLive(t2) /\ Waiting(t2)
          /\ t2.pending = NoTxn /\ t2.queued.nodes # {}
      BY <1>1, <1>2, <1>4, PromoteKept
    <2>2. Returned(TransactionProgress(t2))
      BY <1>2, <2>1, ProgressReturns DEF Behind
    <2>3. CASE Ready(t2)
      <3>1. TransactionProgress(t2) = Finish(t2)
        BY <1>2, <2>1, <2>3, FinishKept DEF TransactionProgress
      <3> QED
        BY <1>4, <2>2, <2>3, <3>1 DEF TransactionProgress
    <2>4. CASE ~Ready(t2)
      BY <1>4, <2>2, <2>4 DEF TransactionProgress
    <2> QED
      BY <2>3, <2>4
  <1> QED
    BY <1>3, <1>4

LEMMA TimeoutReturns ==
  ASSUME IInv, HandleTimeout
  PROVE  IInv' /\ Stepped(s, s')
  <1> DEFINE q == [s.queued EXCEPT !.num = 0]
             u == [s EXCEPT !.queued = q]
  <1>1. s \in ServerState /\ s.queued \in Txn
    BY DEF IInv, Returned, Kept, ServerState
  <1>2. s' = TransactionProgress([s EXCEPT !.queued.num = 0]) /\ s.queued.timer
    BY DEF HandleTimeout
  <1>3. [s EXCEPT !.queued.num = 0] = u
    BY <1>1 DEF ServerState
  <1>4. q \in Txn /\ q.nodes = s.queued.nodes /\ q.num = 0
        /\ q.state = s.queued.state
    BY <1>1 DEF Txn
  <1> HIDE DEF q
  <1>5. /\ u \in ServerState /\ u.refs = s.refs /\ u.armed = s.armed
        /\ u.pending = s.pending /\ u.queued = q /\ u.dirty = s.dirty
        /\ u.life = s.life /\ u.owner = s.owner /\ u.cur = s.cur
    BY <1>1, <1>4 DEF ServerState
  <1> HIDE DEF u
  <1>6. Kept(u) /\ DirtyLive(u)
    BY <1>4, <1>5 DEF IInv, Returned, Kept, RefsCounted, Count, Known, Armed, Accounted,
                      Owned, DirtyLive, Live
  <1>7. Returned(TransactionProgress(u))
    <2>1. CASE u.queued.nodes # {}
      BY <1>4, <1>5, <1>6, <2>1, ReadyProgressReturns DEF Ready
    <2>2. CASE u.queued.nodes = {}
      BY <1>4, <1>5, <1>6, <2>2, ProgressReturns DEF IInv, Returned, Behind
    <2> QED
      BY <2>1, <2>2
  <1>8. Tgt(u) = Tgt(s) /\ Wnt(u) = Wnt(s)
    BY <1>4, <1>5 DEF Tgt, Wnt, Over
  <1>9. Stepped(s, TransactionProgress(u))
    <2>1. Moved(u, TransactionProgress(u))
      BY <1>6, ProgressMoved
    <2> QED
      BY <1>5, <1>8, <2>1 DEF Moved, Stepped
  <1>10. Returned(s') /\ Stepped(s, s')
    BY <1>2, <1>3, <1>7, <1>9
  <1> QED
    BY <1>10, NextIInv DEF HandleTimeout, IInv

LEMMA CloseTimeoutReturns ==
  ASSUME IInv, NEW c \in Containers, HandleCloseAnimationTimeout(c)
  PROVE  IInv' /\ Stepped(s, s')
  <1> DEFINE u == [s EXCEPT !.life[c] = "destroying"]
             v == ViewOf[c]
             gone == IF u.owner[v] = c /\ v \in u.dying THEN u.gone \cup {v} ELSE u.gone
             owner == [u.owner EXCEPT ![v] = IF u.owner[v] = c THEN NoContainer ELSE u.owner[v]]
  <1>1. s \in ServerState /\ c \in Node /\ v \in Views /\ s.life[c] = "closing"
    BY ConstantsOK DEF IInv, Returned, Kept, Node, HandleCloseAnimationTimeout
  <1>2. s.life \in [Node -> Life] /\ s.owner \in [Views -> Containers \cup {NoContainer}]
    BY <1>1 DEF ServerState
  <1>3. s' = ContainerDestroy(u, c)
    BY DEF HandleCloseAnimationTimeout
  <1> HIDE DEF u
  <1>4. /\ u \in ServerState /\ u.refs = s.refs /\ u.armed = s.armed
        /\ u.pending = s.pending /\ u.queued = s.queued /\ u.dirty = s.dirty
        /\ u.life = [s.life EXCEPT ![c] = "destroying"] /\ u.owner = s.owner
        /\ u.cur = s.cur
    BY <1>1 DEF u, ServerState, Life
  <1>5. c \notin s.dirty
    BY <1>1 DEF IInv, Returned, DirtyLive, Live
  <1>6. ASSUME s.refs[c] # 0 PROVE Returned(s') /\ Moved(s, s')
    <2>1. s' = [u EXCEPT !.failed = TRUE]
      BY <1>3, <1>4, <1>6 DEF ContainerDestroy
    <2>2. /\ s' \in ServerState /\ s'.refs = s.refs /\ s'.armed = s.armed
          /\ s'.pending = s.pending /\ s'.queued = s.queued /\ s'.dirty = s.dirty
          /\ s'.life = u.life /\ s'.owner = s.owner /\ s'.cur = s.cur
      BY <1>4, <2>1 DEF ServerState
    <2>3. c \in s.pending.nodes \cup s.queued.nodes
      BY <1>1, <1>6 DEF IInv, Returned, Kept, RefsCounted, Count
    <2>4. RefsCounted(s') /\ Armed(s')
      BY <2>2 DEF IInv, Returned, Kept, RefsCounted, Armed
    <2>5. Known(s') /\ Accounted(s')
      BY <1>1, <1>2, <1>4, <2>2, <2>3 DEF IInv, Returned, Kept, Known, Accounted
    <2>6. Owned(s')
      BY <1>1, <1>2, <1>4, <2>2 DEF IInv, Returned, Kept, Owned
    <2>7. DirtyLive(s')
      BY <1>2, <1>4, <1>5, <2>2 DEF IInv, Returned, DirtyLive, Live
    <2>8. Queue(s') /\ Behind(s')
      BY <2>2 DEF IInv, Returned, Queue, Waiting, Behind
    <2> QED
      BY <2>2, <2>4, <2>5, <2>6, <2>7, <2>8, <1>1, SameLayouts
         DEF Returned, Kept
  <1>7. ASSUME s.refs[c] = 0 PROVE Returned(s') /\ Moved(s, s')
    <2>1. s' = [u EXCEPT !.life[c] = "freed", !.owner = owner, !.gone = gone]
      BY <1>1, <1>3, <1>4, <1>7 DEF ContainerDestroy, ServerState
    <2>2. gone \in SUBSET Views
      BY <1>1, <1>4 DEF ServerState
    <2>3. owner \in [Views -> Containers \cup {NoContainer}]
      BY <1>2, <1>4
    <2> HIDE DEF gone, owner
    <2>4. /\ s' \in ServerState /\ s'.refs = s.refs /\ s'.armed = s.armed
          /\ s'.pending = s.pending /\ s'.queued = s.queued /\ s'.dirty = s.dirty
          /\ s'.life = [u.life EXCEPT ![c] = "freed"] /\ s'.owner = owner
          /\ s'.cur = s.cur
      BY <1>1, <1>4, <2>1, <2>2, <2>3 DEF ServerState, Life
    <2>5. c \notin s.pending.nodes \cup s.queued.nodes
      BY <1>1, <1>7 DEF IInv, Returned, Kept, RefsCounted, Count
    <2>6. RefsCounted(s') /\ Armed(s')
      BY <2>4 DEF IInv, Returned, Kept, RefsCounted, Armed
    <2>7. Known(s') /\ Accounted(s')
      BY <1>1, <1>2, <1>4, <2>4, <2>5 DEF IInv, Returned, Kept, Known, Accounted
    <2>8. Owned(s')
      BY <1>1, <1>2, <1>4, <2>4, ConstantsOK DEF IInv, Returned, Kept, Owned, owner, Node
    <2>9. DirtyLive(s')
      BY <1>2, <1>4, <1>5, <2>4 DEF IInv, Returned, DirtyLive, Live
    <2>10. Queue(s') /\ Behind(s')
      BY <2>4 DEF IInv, Returned, Queue, Waiting, Behind
    <2> QED
      BY <2>4, <2>6, <2>7, <2>8, <2>9, <2>10, <1>1, SameLayouts
         DEF Returned, Kept
  <1>8. Returned(s') /\ Moved(s, s')
    BY <1>6, <1>7
  <1> QED
    BY <1>8, NextIInv DEF HandleCloseAnimationTimeout, IInv, Moved

------------------------------------------------------------------------------
LEMMA NextReturns ==
  ASSUME IInv, [Next]_vars
  PROVE  IInv' /\ Stepped(s, s')
  <1>1. CASE \E S \in SUBSET Live(s), hidden \in SUBSET (Live(s) \cap Containers) :
               \E g \in NewStates(S) : ChangeLayout(S, g, hidden)
    BY <1>1, ChangeLayoutReturns
  <1>2. CASE \E c \in Containers, g \in Place : HandleRequestConfigure(c, g)
    BY <1>2, RequestConfigureReturns
  <1>3. CASE \E n \in Others, g \in Place : CreateNode(n, g)
    BY <1>3, CreateNodeReturns
  <1>4. CASE \E n \in Others, S \in SUBSET Live(s) :
               \E g \in NewStates(S) : BeginDestroy(n, S, g)
    BY <1>4, BeginDestroyReturns
  <1>5. CASE \E c \in Containers, S \in SUBSET Live(s) :
               \E g \in NewStates(S \cup {c}) : HandleMap(c, S, g)
    BY <1>5, MapReturns
  <1>6. CASE \E c \in Containers, S \in SUBSET Live(s) :
               \E g \in NewStates(S) : HandleUnmap(c, S, g)
    BY <1>6, UnmapReturns
  <1>7. CASE \E v \in Views : ViewBeginDestroy(v)
    BY <1>7, ViewBeginDestroyReturns
  <1>8. CASE \E v \in Views, g \in Place : SetXdgDecorationMode(v, g)
    BY <1>8, DecorationReturns
  <1>9. CASE \E v \in Views : ScheduleConfigure(v) \/ SendConfigure(v)
    BY <1>9, ScheduleReturns
  <1>10. CASE \E c \in Containers, resize \in BOOLEAN, g \in Place :
                \E serial \in acked[ViewOf[c]] .. s.sent[ViewOf[c]] :
                  HandleXdgCommit(c, serial, resize, g)
    BY <1>10, XdgCommitReturns
  <1>11. CASE \E c \in Containers, resize \in BOOLEAN, g \in Place :
                HandleXwaylandCommit(c, resize, g)
    BY <1>11, XwaylandCommitReturns
  <1>12. CASE HandleTimeout
    BY <1>12, TimeoutReturns
  <1>13. CASE \E c \in Containers : HandleCloseAnimationTimeout(c)
    BY <1>13, CloseTimeoutReturns
  <1>14. CASE UNCHANGED vars
    BY <1>14, NextIInv, SameLayouts DEF vars, IInv, Returned, Kept, Moved
  <1> QED
    BY <1>1, <1>2, <1>3, <1>4, <1>5, <1>6, <1>7, <1>8, <1>9, <1>10, <1>11, <1>12,
       <1>13, <1>14 DEF Next, Environment, EventLoop

------------------------------------------------------------------------------
\* The invariant holds in every reachable state, whatever the clients, the
\* layout commands and the timers do.
THEOREM Invariant == Spec => []IInv
  <1>1. Init => IInv
    BY InitIInv
  <1>2. IInv /\ [Next]_vars => IInv'
    BY NextReturns
  <1> QED
    BY <1>1, <1>2, PTL DEF Spec

\* The state keeps its type: no count of references or of waiting views ever
\* goes below zero.
THEOREM TypeCorrect == Spec => []TypeOK
  <1>1. IInv => TypeOK
    BY DEF IInv, Returned, Kept, TypeOK
  <1> QED
    BY <1>1, Invariant, PTL

\* ntxnrefs is exact, so the last transaction to let go of a node knows it.
THEOREM ReferencesExact == Spec => []RefsExact
  <1>1. IInv => RefsExact
    BY DEF IInv, Returned, Kept, RefsCounted, RefsExact
  <1> QED
    BY <1>1, Invariant, PTL

\* No freed node is in the dirty list or in a transaction.
THEOREM NothingDangles == Spec => []NoDanglingNode
  <1>1. IInv => NoDanglingNode
    BY DEF IInv, Returned, Kept, Known, Armed, DirtyLive, Live, NoDanglingNode
  <1> QED
    BY <1>1, Invariant, PTL

\* A node that left the tree is never lost.
THEOREM NothingLeaks == Spec => []NoLeakedNode
  <1>1. IInv => NoLeakedNode
    BY DEF IInv, Returned, Kept, Accounted, NoLeakedNode
  <1> QED
    BY <1>1, Invariant, PTL

\* However transactions overlap, a node is freed with the last one that refers
\* to it.
THEOREM NodesFreedInTime == Spec => []NodesLive
  <1>1. TypeOK /\ RefsExact /\ NoDanglingNode /\ NoLeakedNode => NodesLive
    BY DEF NodesLive
  <1> QED
    BY <1>1, TypeCorrect, ReferencesExact, NothingDangles, NothingLeaks, PTL

\* A queued transaction always has an answer or a timeout to come.
THEOREM NeverStuck == Spec => []WaitsForSomeone
  <1>1. IInv => WaitsForSomeone
    BY DEF IInv, Returned, Queue, Waiting, WaitsForSomeone
  <1> QED
    BY <1>1, Invariant, PTL

\* The pending transaction is only held back by a queued one.
THEOREM PendingWaitsItsTurn == Spec => []PendingBehindQueued
  <1>1. IInv => PendingBehindQueued
    BY DEF IInv, Returned, Behind, PendingBehindQueued
  <1> QED
    BY <1>1, Invariant, PTL

\* No layout change waits for ever in the queue or behind it.
THEOREM QueueNeverStuck == Spec => []QueueMoves
  <1>1. WaitsForSomeone /\ PendingBehindQueued => QueueMoves
    BY DEF QueueMoves
  <1> QED
    BY <1>1, NeverStuck, PendingWaitsItsTurn, PTL

\* What is drawn always is a whole layout that was committed: Transaction
\* implements AtomicLayout.
THEOREM Implementation == Spec => LayoutIsAtomic
  <1>1. Init => Layout!Init
    BY DEF Init, Layout!Init, Wanted, Target, Over, NoTxn
  <1>2. IInv /\ [Next]_vars => [Layout!Next]_Layout!layouts
    <2> SUFFICES ASSUME IInv, [Next]_vars PROVE Layout!Next
      OBVIOUS
    <2>1. Stepped(s, s')
      BY NextReturns
    <2>2. Wanted = Wnt(s) /\ Target = Tgt(s) /\ Wanted' = Wnt(s') /\ Target' = Tgt(s')
      BY DEF Wanted, Target, Wnt, Tgt, Over
    <2> QED
      BY <2>1, <2>2 DEF Stepped, Layouts, Layout!Next, Layout!Want, Layout!Hold,
                        Layout!Advance, Layout!CatchUp
  <1> QED
    BY <1>1, <1>2, Invariant, PTL DEF Spec, LayoutIsAtomic, Layout!Spec
==============================================================================
