----------------------------- MODULE TreeProofs -----------------------------
(***************************************************************************)
(* The container tree stays sound under every handler of TreeCommands, and *)
(* under the operations of the pointer of SeatOps.                         *)
(*                                                                         *)
(* The inductive invariant is Good: the tree is Fit, that is of the right  *)
(* type, with lists and pointers that name one another (Linked), whole     *)
(* trees on one workspace (Together), no container inside itself (Rooted), *)
(* everything that is placed or in the scratchpad alive (Living), and      *)
(* scratchpad containers that are roots and float where they are shown     *)
(* (Shelved); no window is lost, no split empty, and the pointer minds     *)
(* live containers only.  A handler that asserts, or follows a null        *)
(* pointer, leaves the tree as it was and `broken` behind it.              *)
(*                                                                         *)
(* Operations are shown to keep a fit tree fit, whatever they are called   *)
(* with; where one takes a tree apart on the way, its parts are described  *)
(* by what they still owe (a split to reap, a container to place), and the *)
(* handler's own lemma settles that.  Usual leaves out fullscreen on all   *)
(* outputs; PlainDrags says what the code takes for granted of a drag.     *)
(***************************************************************************)
EXTENDS TreeLemmas

(***************************************************************************)
(* Flattening singleton parents.                                           *)
(***************************************************************************)
FlatSpot == [tree : Tree, at : Splits \cup {None}]

Flattened(x, w) ==
  IF x.at # None /\ Cardinality(x.tree.kids[x.at]) = 1
    THEN [tree |-> BeginDestroy(Replace(x.tree, x.at, OnlyChild(x.tree, x.at), w), x.at),
          at |-> x.tree.parent[x.at]]
    ELSE x

LEMMA OnlyChildIs ==
  ASSUME NEW x \in FlatSpot, x.at # None, Cardinality(x.tree.kids[x.at]) = 1
  PROVE  /\ OnlyChild(x.tree, x.at) \in Container /\ x.tree.kids[x.at] = {OnlyChild(x.tree, x.at)}
         /\ x.at \in Splits /\ x.at \in Container /\ x.tree \in Tree
<1> DEFINE S == x.tree.kids[x.at]
<1>1. x.at \in Splits /\ x.at \in Container /\ x.tree \in Tree
  BY Nothing DEF FlatSpot
<1>2. S \in SUBSET Container
  BY <1>1, TreeTypes
<1>3. IsFiniteSet(S)
  BY <1>2, FS_Subset, ConstantsOK
<1>4. \E y : S = {y}
  BY <1>3, FS_Singleton
<1> QED
  BY <1>1, <1>2, <1>4 DEF OnlyChild

LEMMA FlattenedTame ==
  ASSUME NEW x \in FlatSpot, NEW w \in Workspaces \cup {None}
  PROVE  Flattened(x, w) \in FlatSpot /\ Tame(Flattened(x, w).tree, x.tree)
<1>1. CASE x.at # None /\ Cardinality(x.tree.kids[x.at]) = 1
  <2> DEFINE c == OnlyChild(x.tree, x.at)
             e == Replace(x.tree, x.at, c, w)
             r == BeginDestroy(e, x.at)
             q == x.tree.parent[x.at]
  <2>1. c \in Container /\ x.at \in Container /\ x.tree \in Tree
    BY <1>1, OnlyChildIs
  <2>2. q \in Splits \cup {None}
    BY <2>1, TreeTypes
  <2> HIDE DEF c
  <2>3. Tame(e, x.tree) /\ e \in Tree
    BY <2>1, ReplaceTame, TameTree
  <2> HIDE DEF e
  <2>4. Tame(r, e)
    BY <2>1, <2>3, BeginDestroyTame
  <2>5. Tame(r, x.tree) /\ r \in Tree
    BY <2>3, <2>4, TameOn, TameTree
  <2>6. Flattened(x, w) = [tree |-> r, at |-> q]
    BY <1>1 DEF Flattened, e, c
  <2> HIDE DEF r, q
  <2> QED
    BY <2>2, <2>5, <2>6 DEF FlatSpot
<1>2. CASE ~(x.at # None /\ Cardinality(x.tree.kids[x.at]) = 1)
  BY <1>2, TameSame DEF Flattened, FlatSpot
<1> QED
  BY <1>1, <1>2

LEMMA FlattenWalk ==
  ASSUME NEW t \in Tree, NEW c \in Splits \cup {None}, NEW w \in Workspaces \cup {None}
  PROVE  \E f : /\ f[0] = [tree |-> t, at |-> c]
                /\ \A i \in 1 .. Cardinality(Splits) : f[i] = Flattened(f[i - 1], w)
                /\ Flatten(t, c, w) = f[Cardinality(Splits)].tree
<1> DEFINE m == Cardinality(Splits)
           g == [p \in FlatSpot \X (1 .. m) |-> Flattened(p[1], w)]
<1>1. m \in Nat
  BY SplitsFinite
<1>2. g \in [FlatSpot \X (1 .. m) -> FlatSpot]
  BY <1>1, FlattenedTame
<1> HIDE DEF m
<1>3. PICK f : Walk(f, m, FlatSpot, [tree |-> t, at |-> c], g)
  <2>1. [tree |-> t, at |-> c] \in FlatSpot
    BY DEF FlatSpot
  <2> HIDE DEF g
  <2> QED
    BY <1>1, <1>2, <2>1, FoldExists
<1> DEFINE E(h) == [i \in 0 .. m |-> IF i = 0 THEN [tree |-> t, at |-> c] ELSE (LET r == h[i-1]
             IN  IF r.at # None /\ Cardinality(r.tree.kids[r.at]) = 1
                   THEN [tree |-> BeginDestroy(Replace(r.tree, r.at, OnlyChild(r.tree, r.at), w), r.at),
                         at |-> r.tree.parent[r.at]]
                   ELSE r)]
           w0 == CHOOSE h : h = E(h)
<1>4. ASSUME NEW i \in 1 .. m PROVE f[i] = (LET r == f[i-1]
             IN  IF r.at # None /\ Cardinality(r.tree.kids[r.at]) = 1
                   THEN [tree |-> BeginDestroy(Replace(r.tree, r.at, OnlyChild(r.tree, r.at), w), r.at),
                         at |-> r.tree.parent[r.at]]
                   ELSE r)
  <2>1. <<f[i - 1], i>> \in FlatSpot \X (1 .. m)
    BY <1>1, <1>3 DEF Walk
  <2> QED
    BY <1>3, <2>1 DEF Walk, Flattened
<1>5. f = E(f)
  <2>1. f = [i \in 0 .. m |-> f[i]] /\ f[0] = [tree |-> t, at |-> c]
    BY <1>3 DEF Walk
  <2>2. \A i \in 0 .. m : f[i] = IF i = 0 THEN [tree |-> t, at |-> c] ELSE (LET r == f[i-1]
             IN  IF r.at # None /\ Cardinality(r.tree.kids[r.at]) = 1
                   THEN [tree |-> BeginDestroy(Replace(r.tree, r.at, OnlyChild(r.tree, r.at), w), r.at),
                         at |-> r.tree.parent[r.at]]
                   ELSE r)
    <3> SUFFICES ASSUME NEW i \in 0 .. m, i # 0
                 PROVE  f[i] = (LET r == f[i-1]
             IN  IF r.at # None /\ Cardinality(r.tree.kids[r.at]) = 1
                   THEN [tree |-> BeginDestroy(Replace(r.tree, r.at, OnlyChild(r.tree, r.at), w), r.at),
                         at |-> r.tree.parent[r.at]]
                   ELSE r)
      BY <2>1
    <3>1. i \in 1 .. m
      BY <1>1
    <3> QED
      BY <1>4, <3>1
  <2>3. [i \in 0 .. m |-> f[i]] = E(f)
    BY <2>2
  <2> QED
    BY <2>1, <2>3
<1>6. w0 = E(w0)
  BY <1>5
<1>7. Flatten(t, c, w) = w0[m].tree
  BY DEF Flatten, m
<1> HIDE DEF w0
<1>8. w0[0] = [tree |-> t, at |-> c] /\ \A i \in 1 .. m : w0[i] = Flattened(w0[i - 1], w)
  <2>1. w0[0] = E(w0)[0]
    BY <1>6
  <2>2. ASSUME NEW i \in 1 .. m
        PROVE  w0[i] = Flattened(w0[i - 1], w)
    <3>1. i \in 0 .. m /\ i # 0
      BY <1>1
    <3>2. w0[i] = E(w0)[i]
      BY <1>6
    <3> QED
      BY <3>1, <3>2 DEF Flattened
  <2> QED
    BY <1>1, <2>1, <2>2
<1> QED
  BY <1>7, <1>8 DEF m

LEMMA FlattenTame ==
  ASSUME NEW t \in Tree, NEW c \in Splits \cup {None}, NEW w \in Workspaces \cup {None}
  PROVE  Tame(Flatten(t, c, w), t)
<1> DEFINE m == Cardinality(Splits)
<1>1. m \in Nat
  BY SplitsFinite
<1>2. PICK f : /\ f[0] = [tree |-> t, at |-> c]
               /\ \A i \in 1 .. m : f[i] = Flattened(f[i - 1], w)
               /\ Flatten(t, c, w) = f[m].tree
  BY FlattenWalk
<1> HIDE DEF m
<1> DEFINE G == {i \in 0 .. m : f[i] \in FlatSpot /\ Tame(f[i].tree, t)}
<1>3. 0 \in G
  BY <1>1, <1>2, TameSame DEF FlatSpot
<1>4. ASSUME NEW i \in 1 .. m, i - 1 \in G PROVE i \in G
  <2>1. f[i-1] \in FlatSpot /\ Tame(f[i-1].tree, t) /\ i \in 0 .. m
    BY <1>1, <1>4
  <2>2. f[i] \in FlatSpot /\ Tame(f[i].tree, f[i-1].tree)
    BY <1>2, <2>1, FlattenedTame
  <2> QED
    BY <2>1, <2>2, TameOn
<1> HIDE DEF G
<1>5. \A i \in 0 .. m : i \in G
  BY <1>1, <1>3, <1>4, Counting
<1> QED
  BY <1>1, <1>2, <1>5 DEF G

\* The next parent up is on a workspace, as its child is.
OnWorkspace(x) == x.at # None => x.tree.ws[x.at] # None

LEMMA FlattenedFit ==
  ASSUME NEW x \in FlatSpot, NEW w \in Workspaces \cup {None}, Fit(x.tree), OnWorkspace(x),
         ~Undefined(Flattened(x, w).tree)
  PROVE  Keeps(Flattened(x, w).tree, x.tree) /\ OnWorkspace(Flattened(x, w))
<1>1. CASE x.at # None /\ Cardinality(x.tree.kids[x.at]) = 1
  <2> DEFINE t == x.tree
             p == x.at
             c == OnlyChild(t, p)
             e == Replace(t, p, c, w)
             r == BeginDestroy(e, p)
             q == t.parent[p]
  <2>1. c \in Container /\ p \in Splits /\ p \in Container /\ t \in Tree /\ t.kids[p] = {c}
    BY <1>1, OnlyChildIs
  <2>2. Flattened(x, w) = [tree |-> r, at |-> q]
    BY <1>1 DEF Flattened
  <2>3. Fit(t) /\ t.ws[p] # None /\ p # None
    BY <1>1 DEF OnWorkspace
  <2>4. ~Undefined(r)
    BY <2>2
  <2> HIDE DEF c, t, p
  <2>5. t.parent[c] = p
    BY <2>1, <2>3 DEF Fit, Shape, Linked
  <2>6. t.life[c] = "live" /\ c \notin t.scratch /\ p \notin Inside(t, c) /\ c # p
    BY <2>1, <2>3, <2>5, PlacedLives, InsideType, Nothing
  <2>7. Tame(e, t) /\ e \in Tree
    BY <2>1, ReplaceTame, TameTree
  <2>8. Tame(r, e)
    <3> HIDE DEF e
    <3> QED
      BY <2>1, <2>7, BeginDestroyTame
  <2>9. ~Undefined(e)
    BY <2>4, <2>8, TameDefined
  <2>10. Replaced(e, t, p, c)
    BY <2>1, <2>3, <2>5, <2>6, <2>9, ReplaceFit
  <2> HIDE DEF e
  <2>11. /\ Fit(e) /\ Loose(e, p) /\ e.life[c] = "live" /\ e.ws[c] # None /\ c \notin Inside(e, p)
         /\ p \notin t.scratch => e.parent[c] = q
         /\ Lost(e) \subseteq (Lost(t) \cup {p}) \ {c}
         /\ Empty(e) \subseteq Empty(t) \cup {p}
         /\ e.kids[p] \subseteq t.kids[p] \ {c}
    BY <2>1, <2>5, <2>10 DEF Replaced
  <2>12. e.kids[p] = {}
    BY <2>1, <2>11
  <2>13. /\ Fit(r) /\ Lost(r) \subseteq Lost(e) \ {p}
         /\ Empty(r) \subseteq (Empty(e) \cup {e.parent[p]}) \ {p}
         /\ \A a \in Container : p \notin Inside(e, a) => Spared(r, e, a)
    BY <2>1, <2>11, <2>12, BeginDestroyFit
  <2>14. p \notin Inside(e, c)
    BY <2>1, <2>6, <2>11, RootIsApart DEF RootsApart, Loose
  <2>15. Spared(r, e, c) /\ c \in Inside(e, c)
    BY <2>1, <2>7, <2>13, <2>14, InsideType
  <2>16. r.parent[c] = e.parent[c] /\ r.ws[c] # None
    BY <2>11, <2>15 DEF Spared
  <2>17. q # None => q \in Splits /\ r.ws[q] # None
    <3>1. q \in Splits \cup {None}
      BY <2>1, TreeTypes
    <3> SUFFICES ASSUME q # None PROVE r.ws[q] # None
      BY <3>1
    <3>2. p \notin t.scratch
      BY <2>1, <2>3, PlacedLives
    <3>3. r.parent[c] = q
      BY <2>11, <2>16, <3>2
    <3> QED
      BY <2>1, <2>13, <2>16, <3>3 DEF Fit, Shape, Together
  <2>18. Empty(r) \subseteq Empty(t)
    <3>1. None \notin Empty(r)
      BY Nothing DEF Empty
    <3> QED
      BY <2>11, <2>13, <3>1 DEF Loose
  <2>19. Keeps(r, t)
    BY <2>7, <2>8, <2>11, <2>13, <2>18, TameOn DEF Keeps
  <2> HIDE DEF r, q
  <2> QED
    BY <2>2, <2>17, <2>19 DEF OnWorkspace, t
<1>2. CASE ~(x.at # None /\ Cardinality(x.tree.kids[x.at]) = 1)
  BY <1>2, KeepsSame DEF Flattened
<1> QED
  BY <1>1, <1>2

\* Flattening keeps every container in one place.
LEMMA FlattenFit ==
  ASSUME NEW t, Fit(t), NEW c \in Splits, t.ws[c] # None,
         NEW w \in Workspaces \cup {None}, ~Undefined(Flatten(t, c, w))
  PROVE  Keeps(Flatten(t, c, w), t)
<1> DEFINE m == Cardinality(Splits)
<1>1. m \in Nat /\ t \in Tree /\ c \in Splits \cup {None}
  BY SplitsFinite DEF Fit
<1>2. PICK f : /\ f[0] = [tree |-> t, at |-> c]
               /\ \A i \in 1 .. m : f[i] = Flattened(f[i - 1], w)
               /\ Flatten(t, c, w) = f[m].tree
  BY <1>1, FlattenWalk
<1> HIDE DEF m
<1> DEFINE G == {i \in 0 .. m : /\ f[i] \in FlatSpot
                                /\ ~Undefined(f[i].tree) =>
                                     Keeps(f[i].tree, t) /\ OnWorkspace(f[i])}
<1>3. 0 \in G
  BY <1>1, <1>2, KeepsSame DEF FlatSpot, OnWorkspace
<1>4. ASSUME NEW i \in 1 .. m, i - 1 \in G PROVE i \in G
  <2>1. f[i-1] \in FlatSpot /\ i \in 0 .. m /\ f[i] = Flattened(f[i-1], w)
    BY <1>1, <1>2, <1>4
  <2>2. f[i] \in FlatSpot /\ Tame(f[i].tree, f[i-1].tree)
    BY <2>1, FlattenedTame
  <2>3. ASSUME ~Undefined(f[i].tree) PROVE Keeps(f[i].tree, t) /\ OnWorkspace(f[i])
    <3>1. ~Undefined(f[i-1].tree)
      BY <2>2, <2>3, TameDefined
    <3>2. Keeps(f[i-1].tree, t) /\ OnWorkspace(f[i-1])
      BY <1>4, <3>1
    <3>3. Keeps(f[i].tree, f[i-1].tree) /\ OnWorkspace(f[i])
      BY <2>1, <2>3, <3>2, FlattenedFit DEF Keeps
    <3> QED
      BY <3>2, <3>3, KeepsOn
  <2> QED
    BY <2>1, <2>2, <2>3
<1> HIDE DEF G
<1>5. \A i \in 0 .. m : i \in G
  BY <1>1, <1>3, <1>4, Counting
<1> QED
  BY <1>1, <1>2, <1>5 DEF G

(***************************************************************************)
(* Emptying a split: its children move up, or onto a workspace.            *)
(***************************************************************************)
LEMMA InTilingAt ==
  ASSUME NEW t, Fit(t), NEW c \in Container, Loose(t, c),
         t.life[c] = "live", c \notin t.scratch, NEW w \in Workspaces
  PROVE  Moves(InTiling(t, w, c), t, c, None, w)
BY InTilingMoves DEF Moves, MayMove

TileOne(t, x, w) == AddTiling(Detach(t, x), w, x)
LiftOne(t, x, p, w) ==
  IF p # None THEN AddChild(Detach(t, x), p, x) ELSE InTiling(Detach(t, x), w, x)

LEMMA TileOneTame ==
  ASSUME NEW t \in Tree, NEW x \in Container, NEW w \in Workspaces \cup {None}
  PROVE  Tame(TileOne(t, x, w), t) /\ TileOne(t, x, w) \in Tree
<1> DEFINE d == Detach(t, x)
           r == AddTiling(d, w, x)
<1>1. Tame(d, t) /\ d \in Tree
  BY PlacesCalm, CalmTame, CalmTree
<1> HIDE DEF d
<1>2. Tame(r, d)
  BY <1>1, AddTilingTame
<1> HIDE DEF r
<1>3. Tame(r, t) /\ r \in Tree
  BY <1>1, <1>2, TameOn, TameTree
<1> QED
  BY <1>3 DEF TileOne, r, d

LEMMA LiftOneTame ==
  ASSUME NEW t \in Tree, NEW x \in Container, NEW p \in Splits \cup {None},
         NEW w \in Workspaces \cup {None}
  PROVE  Tame(LiftOne(t, x, p, w), t) /\ LiftOne(t, x, p, w) \in Tree
<1> DEFINE d == Detach(t, x)
           r == IF p # None THEN AddChild(d, p, x) ELSE InTiling(d, w, x)
<1>1. Tame(d, t) /\ d \in Tree
  BY PlacesCalm, CalmTame, CalmTree
<1> HIDE DEF d
<1>2. Tame(r, d)
  BY <1>1, AddsCalm, PlacesCalm, CalmTame
<1> HIDE DEF r
<1>3. Tame(r, t) /\ r \in Tree
  BY <1>1, <1>2, TameOn, TameTree
<1> QED
  BY <1>3 DEF LiftOne, r, d

LEMMA TileOneFit ==
  ASSUME NEW t, Fit(t), NEW x \in Container, t.life[x] = "live", x \notin t.scratch,
         NEW w \in Workspaces
  PROVE  Moves(TileOne(t, x, w), t, x, None, w)
<1> DEFINE d == Detach(t, x)
           r == InTiling(d, w, x)
<1>1. Moves(d, t, x, None, None) /\ Fit(d) /\ Loose(d, x)
  BY DetachFit
<1> HIDE DEF d
<1>2. d.life = t.life /\ d.scratch = t.scratch
  BY <1>1, MovesOut
<1>3. Moves(r, d, x, None, w)
  BY <1>1, <1>2, InTilingAt
<1>4. TileOne(t, x, w) = r
  BY <1>1 DEF TileOne, AddTiling, d, Loose
<1> HIDE DEF r
<1> DEFINE n == None
<1>5. n \in Splits \cup {None} /\ Moves(r, d, x, n, w)
  BY <1>3
<1> HIDE DEF n
<1>6. Moves(r, t, x, n, w)
  BY <1>1, <1>5, MovesOn
<1> QED
  BY <1>4, <1>6 DEF n

LEMMA LiftOneFit ==
  ASSUME NEW t, Fit(t), NEW x \in Container, t.life[x] = "live", x \notin t.scratch,
         NEW p \in Splits \cup {None}, NEW w \in Workspaces,
         p # None => t.life[p] = "live" /\ p \notin Inside(t, x)
  PROVE  \E v \in Workspaces \cup {None} :
           Moves(LiftOne(t, x, p, w), t, x, p, v) /\ (p = None => v # None)
<1>1. CASE p # None
  <2>1. LiftOne(t, x, p, w) = WrapOne(t, x, p)
    BY <1>1 DEF LiftOne, WrapOne
  <2> QED
    BY <1>1, <2>1, WrapOneFit
<1>2. CASE p = None
  <2>1. Loose(Detach(t, x), x)
    BY DetachFit
  <2>2. LiftOne(t, x, p, w) = TileOne(t, x, w)
    BY <1>2, <2>1 DEF LiftOne, TileOne, AddTiling, Loose
  <2>3. w # None /\ w \in Workspaces \cup {None}
    BY Nothing
  <2> QED
    BY <1>2, <2>2, <2>3, TileOneFit
<1> QED
  BY <1>1, <1>2

LEMMA TileAllWalk ==
  ASSUME NEW t \in Tree, NEW q \in Seq(Container), NEW w \in Workspaces \cup {None}
  PROVE  \E f : /\ f[0] = t
                /\ \A i \in 1 .. Len(q) : f[i] = TileOne(f[i - 1], q[i], w)
                /\ TileAll(t, q, w) = f[Len(q)]
<1> DEFINE m == Len(q)
           g == [p \in Tree \X (1 .. m) |-> TileOne(p[1], q[p[2]], w)]
<1>1. m \in Nat /\ \A i \in 1 .. m : q[i] \in Container
  BY LenProperties, ElementOfSeq
<1>2. g \in [Tree \X (1 .. m) -> Tree]
  BY <1>1, TileOneTame
<1> HIDE DEF m
<1>3. PICK f : Walk(f, m, Tree, t, g)
  <2> HIDE DEF g
  <2> QED
    BY <1>1, <1>2, FoldExists
<1> DEFINE E(h) == [i \in 0 .. m |-> IF i = 0 THEN t ELSE AddTiling(Detach(h[i-1], q[i]), w, q[i])]
           w0 == CHOOSE h : h = E(h)
<1>4. ASSUME NEW i \in 1 .. m PROVE f[i] = AddTiling(Detach(f[i-1], q[i]), w, q[i])
  <2>1. <<f[i - 1], i>> \in Tree \X (1 .. m)
    BY <1>1, <1>3 DEF Walk
  <2> QED
    BY <1>3, <2>1 DEF Walk, TileOne
<1>5. f = E(f)
  <2>1. f = [i \in 0 .. m |-> f[i]] /\ f[0] = t
    BY <1>3 DEF Walk
  <2>2. \A i \in 0 .. m : f[i] = IF i = 0 THEN t ELSE AddTiling(Detach(f[i-1], q[i]), w, q[i])
    <3> SUFFICES ASSUME NEW i \in 0 .. m, i # 0
                 PROVE  f[i] = AddTiling(Detach(f[i-1], q[i]), w, q[i])
      BY <2>1
    <3>1. i \in 1 .. m
      BY <1>1
    <3> QED
      BY <1>4, <3>1
  <2>3. [i \in 0 .. m |-> f[i]] = E(f)
    BY <2>2
  <2> QED
    BY <2>1, <2>3
<1>6. w0 = E(w0)
  BY <1>5
<1>7. TileAll(t, q, w) = w0[m]
  BY DEF TileAll, m
<1> HIDE DEF w0
<1>8. w0[0] = t /\ \A i \in 1 .. m : w0[i] = TileOne(w0[i - 1], q[i], w)
  <2>1. w0[0] = E(w0)[0]
    BY <1>6
  <2>2. ASSUME NEW i \in 1 .. m
        PROVE  w0[i] = TileOne(w0[i - 1], q[i], w)
    <3>1. i \in 0 .. m /\ i # 0
      BY <1>1
    <3>2. w0[i] = E(w0)[i]
      BY <1>6
    <3> QED
      BY <3>1, <3>2 DEF TileOne
  <2> QED
    BY <1>1, <2>1, <2>2
<1> QED
  BY <1>7, <1>8 DEF m

LEMMA TileAllTame ==
  ASSUME NEW t \in Tree, NEW q \in Seq(Container), NEW w \in Workspaces \cup {None}
  PROVE  Tame(TileAll(t, q, w), t)
<1> DEFINE m == Len(q)
<1>1. m \in Nat /\ \A i \in 1 .. m : q[i] \in Container
  BY LenProperties, ElementOfSeq
<1>2. PICK f : /\ f[0] = t
               /\ \A i \in 1 .. m : f[i] = TileOne(f[i - 1], q[i], w)
               /\ TileAll(t, q, w) = f[m]
  BY TileAllWalk
<1> HIDE DEF m
<1> DEFINE G == {i \in 0 .. m : Tame(f[i], t)}
<1>3. 0 \in G
  BY <1>1, <1>2, TameSame
<1>4. ASSUME NEW i \in 1 .. m, i - 1 \in G PROVE i \in G
  <2>1. Tame(f[i-1], t) /\ f[i-1] \in Tree /\ i \in 0 .. m
    BY <1>1, <1>4, TameTree
  <2>2. Tame(TileOne(f[i-1], q[i], w), f[i-1])
    BY <1>1, <2>1, TileOneTame
  <2>3. Tame(f[i], t)
    BY <1>2, <2>1, <2>2, TameOn
  <2> QED
    BY <2>1, <2>3
<1> HIDE DEF G
<1>5. \A i \in 0 .. m : i \in G
  BY <1>1, <1>3, <1>4, Counting
<1> QED
  BY <1>1, <1>2, <1>5 DEF G

LEMMA LiftAllWalk ==
  ASSUME NEW t \in Tree, NEW q \in Seq(Container), NEW p \in Splits \cup {None},
         NEW w \in Workspaces \cup {None}
  PROVE  \E f : /\ f[0] = t
                /\ \A i \in 1 .. Len(q) : f[i] = LiftOne(f[i - 1], q[i], p, w)
                /\ LiftAll(t, q, p, w) = f[Len(q)]
<1> DEFINE m == Len(q)
           g == [z \in Tree \X (1 .. m) |-> LiftOne(z[1], q[z[2]], p, w)]
<1>1. m \in Nat /\ \A i \in 1 .. m : q[i] \in Container
  BY LenProperties, ElementOfSeq
<1>2. g \in [Tree \X (1 .. m) -> Tree]
  BY <1>1, LiftOneTame
<1> HIDE DEF m
<1>3. PICK f : Walk(f, m, Tree, t, g)
  <2> HIDE DEF g
  <2> QED
    BY <1>1, <1>2, FoldExists
<1> DEFINE E(h) == [i \in 0 .. m |-> IF i = 0 THEN t ELSE (IF p # None THEN AddChild(Detach(h[i-1], q[i]), p, q[i])
        ELSE InTiling(Detach(h[i-1], q[i]), w, q[i]))]
           w0 == CHOOSE h : h = E(h)
<1>4. ASSUME NEW i \in 1 .. m PROVE f[i] = (IF p # None THEN AddChild(Detach(f[i-1], q[i]), p, q[i])
        ELSE InTiling(Detach(f[i-1], q[i]), w, q[i]))
  <2>1. <<f[i - 1], i>> \in Tree \X (1 .. m)
    BY <1>1, <1>3 DEF Walk
  <2> QED
    BY <1>3, <2>1 DEF Walk, LiftOne
<1>5. f = E(f)
  <2>1. f = [i \in 0 .. m |-> f[i]] /\ f[0] = t
    BY <1>3 DEF Walk
  <2>2. \A i \in 0 .. m : f[i] = IF i = 0 THEN t ELSE (IF p # None THEN AddChild(Detach(f[i-1], q[i]), p, q[i])
        ELSE InTiling(Detach(f[i-1], q[i]), w, q[i]))
    <3> SUFFICES ASSUME NEW i \in 0 .. m, i # 0
                 PROVE  f[i] = (IF p # None THEN AddChild(Detach(f[i-1], q[i]), p, q[i])
        ELSE InTiling(Detach(f[i-1], q[i]), w, q[i]))
      BY <2>1
    <3>1. i \in 1 .. m
      BY <1>1
    <3> QED
      BY <1>4, <3>1
  <2>3. [i \in 0 .. m |-> f[i]] = E(f)
    BY <2>2
  <2> QED
    BY <2>1, <2>3
<1>6. w0 = E(w0)
  BY <1>5
<1>7. LiftAll(t, q, p, w) = w0[m]
  BY DEF LiftAll, m
<1> HIDE DEF w0
<1>8. w0[0] = t /\ \A i \in 1 .. m : w0[i] = LiftOne(w0[i - 1], q[i], p, w)
  <2>1. w0[0] = E(w0)[0]
    BY <1>6
  <2>2. ASSUME NEW i \in 1 .. m
        PROVE  w0[i] = LiftOne(w0[i - 1], q[i], p, w)
    <3>1. i \in 0 .. m /\ i # 0
      BY <1>1
    <3>2. w0[i] = E(w0)[i]
      BY <1>6
    <3> QED
      BY <3>1, <3>2 DEF LiftOne
  <2> QED
    BY <1>1, <2>1, <2>2
<1> QED
  BY <1>7, <1>8 DEF m

LEMMA LiftAllTame ==
  ASSUME NEW t \in Tree, NEW q \in Seq(Container), NEW p \in Splits \cup {None},
         NEW w \in Workspaces \cup {None}
  PROVE  Tame(LiftAll(t, q, p, w), t)
<1> DEFINE m == Len(q)
<1>1. m \in Nat /\ \A i \in 1 .. m : q[i] \in Container
  BY LenProperties, ElementOfSeq
<1>2. PICK f : /\ f[0] = t
               /\ \A i \in 1 .. m : f[i] = LiftOne(f[i - 1], q[i], p, w)
               /\ LiftAll(t, q, p, w) = f[m]
  BY LiftAllWalk
<1> HIDE DEF m
<1> DEFINE G == {i \in 0 .. m : Tame(f[i], t)}
<1>3. 0 \in G
  BY <1>1, <1>2, TameSame
<1>4. ASSUME NEW i \in 1 .. m, i - 1 \in G PROVE i \in G
  <2>1. Tame(f[i-1], t) /\ f[i-1] \in Tree /\ i \in 0 .. m
    BY <1>1, <1>4, TameTree
  <2>2. Tame(LiftOne(f[i-1], q[i], p, w), f[i-1])
    BY <1>1, <2>1, LiftOneTame
  <2>3. Tame(f[i], t)
    BY <1>2, <2>1, <2>2, TameOn
  <2> QED
    BY <2>1, <2>3
<1> HIDE DEF G
<1>5. \A i \in 0 .. m : i \in G
  BY <1>1, <1>3, <1>4, Counting
<1> QED
  BY <1>1, <1>2, <1>5 DEF G

\* The children of the split from, which are in q, are moved below p, or out
\* of every split, up to the i-th.
Emptying(h, t, from, p, q, i) ==
  /\ Fit(h) /\ h.life = t.life /\ h.scratch = t.scratch
  /\ Lost(h) \subseteq Lost(t) /\ Empty(h) \subseteq Empty(t) \cup {from}
  /\ \A x \in Container \ t.kids[from] : h.parent[x] = t.parent[x]
  /\ \A y \in t.kids[from] : h.parent[y] \in {from, p} /\ Inside(h, y) \subseteq Inside(t, y)
  /\ \A j \in 1 .. i : h.parent[q[j]] = p
  /\ \A x \in Container : Inside(t, x) \cap Inside(t, from) = {} /\ p \notin Inside(t, x)
       => Spared(h, t, x)

LEMMA KidFacts ==
  ASSUME NEW t, Fit(t), NEW from \in Splits, NEW y \in t.kids[from]
  PROVE  /\ y \in Container /\ t.parent[y] = from /\ t.life[y] = "live" /\ y \notin t.scratch
         /\ Inside(t, y) \subseteq Inside(t, from) /\ from \notin Inside(t, y) /\ from \in Container
<1>1. y \in Container /\ from \in Container /\ t \in Tree
  BY TreeTypes, Nothing DEF Fit
<1>2. t.parent[y] = from /\ from # None
  BY <1>1, Nothing DEF Fit, Shape, Linked
<1>3. y \in Inside(t, from)
  BY <1>1, InsideType
<1> QED
  BY <1>1, <1>2, <1>3, PlacedLives, InsideTrans

MayTake(t, from, p) == p # None => t.life[p] = "live" /\ p \notin Inside(t, from)

LEMMA EmptyingOn ==
  ASSUME NEW t, Fit(t), NEW from \in Splits, NEW p \in Splits \cup {None}, MayTake(t, from, p),
         NEW q, NEW i \in Nat, i # 0, q[i] \in t.kids[from],
         NEW h, Emptying(h, t, from, p, q, i - 1),
         NEW r, NEW v, Moves(r, h, q[i], p, v), p = None => v # None
  PROVE  Emptying(r, t, from, p, q, i)
<1> DEFINE y == q[i]
<1>1. /\ y \in Container /\ t.parent[y] = from /\ t.life[y] = "live" /\ y \notin t.scratch
      /\ Inside(t, y) \subseteq Inside(t, from) /\ from \notin Inside(t, y) /\ from \in Container
  BY KidFacts
<1>2. /\ Fit(h) /\ h.life = t.life /\ h.scratch = t.scratch
      /\ Lost(h) \subseteq Lost(t) /\ Empty(h) \subseteq Empty(t) \cup {from}
      /\ h.parent[y] \in {from, p} /\ Inside(h, y) \subseteq Inside(t, y)
  BY DEF Emptying
<1>3. t \in Tree /\ h \in Tree /\ y \in Inside(h, y)
  BY <1>1, <1>2, InsideType DEF Fit
<1>4. Moves(r, h, y, p, v) /\ y \in t.kids[from]
  OBVIOUS
<1>40. \A j \in 1 .. i - 1 : h.parent[q[j]] = p
  BY DEF Emptying
<1>41. \A j \in 1 .. i : j = i \/ (j \in 1 .. i - 1)
  OBVIOUS
<1> HIDE DEF y
<1>5. Lands(r, h, y, p, v)
  BY <1>1, <1>2, <1>4, MovesLands
<1>6. /\ Fit(r) /\ r.life = h.life /\ r.scratch = h.scratch
      /\ r.parent[y] = p
      /\ \A x \in Container \ {y} : r.parent[x] = h.parent[x]
      /\ \A x \in Container : p \notin Inside(h, x) => Inside(r, x) \subseteq Inside(h, x)
      /\ Lost(r) \subseteq Lost(h) \cup {y} /\ y \notin Lost(r)
      /\ Empty(r) \subseteq (Empty(h) \cup {h.parent[y]}) \ {p}
  BY <1>5 DEF Lands
<1>7. Lost(r) \subseteq Lost(t)
  BY <1>2, <1>6
<1>8. Empty(r) \subseteq Empty(t) \cup {from}
  BY <1>2, <1>6
<1>9. ASSUME NEW x \in Container \ t.kids[from]
      PROVE  r.parent[x] = t.parent[x]
  <2>1. h.parent[x] = t.parent[x] /\ x # y
    BY <1>4 DEF Emptying
  <2> QED
    BY <1>6, <2>1
<1>10. ASSUME NEW z \in t.kids[from]
       PROVE  r.parent[z] \in {from, p} /\ Inside(r, z) \subseteq Inside(t, z)
  <2>1. h.parent[z] \in {from, p} /\ Inside(h, z) \subseteq Inside(t, z)
    BY DEF Emptying
  <2>2. z \in Container /\ Inside(t, z) \subseteq Inside(t, from)
    BY KidFacts
  <2>3. p \notin Inside(h, z)
    BY <1>1, <1>3, <2>1, <2>2, InsideType, Nothing DEF MayTake
  <2> QED
    BY <1>6, <2>1, <2>2, <2>3
<1>11. ASSUME NEW j \in 1 .. i
       PROVE  r.parent[q[j]] = p
  <2>1. CASE q[j] = y
    BY <1>6, <2>1
  <2>2. CASE q[j] # y /\ q[j] \in Container
    BY <1>6, <1>40, <1>41, <2>2 DEF y
  <2>3. CASE q[j] \notin Container
    <3>1. j \in 1 .. i - 1 /\ q[j] # y
      BY <1>1, <1>41, <2>3 DEF y
    <3>2. r.parent = [h.parent EXCEPT ![y] = p]
      BY <1>4 DEF Moves, Moved
    <3>3. h.parent \in [Container -> Splits \cup {None}]
      BY <1>3 DEF Tree
    <3> QED
      BY <1>40, <3>1, <3>2, <3>3
  <2> QED
    BY <2>1, <2>2, <2>3
<1>12. ASSUME NEW x \in Container, Inside(t, x) \cap Inside(t, from) = {}, p \notin Inside(t, x)
       PROVE  Spared(r, t, x)
  <2>1. Spared(h, t, x)
    BY <1>12 DEF Emptying
  <2>2. Inside(h, x) = Inside(t, x)
    BY <2>1 DEF Spared
  <2>3. Inside(h, x) \cap Inside(h, y) = {} /\ p \notin Inside(h, x)
    BY <1>1, <1>2, <1>12, <2>2
  <2>4. Spared(r, h, x)
    BY <1>1, <1>2, <1>4, <2>3, MovesSpare
  <2> QED
    BY <2>1, <2>4, SparedOn
<1> QED
  BY <1>2, <1>6, <1>7, <1>8, <1>9, <1>10, <1>11, <1>12 DEF Emptying

\* All are moved.
LEMMA Emptied ==
  ASSUME NEW t, Fit(t), NEW from \in Splits, NEW p \in Splits \cup {None}, p # from,
         NEW q, NEW m, \A x \in t.kids[from] : \E j \in 1 .. m : q[j] = x,
         NEW r, Emptying(r, t, from, p, q, m)
  PROVE  /\ Fit(r) /\ r.life = t.life /\ r.scratch = t.scratch /\ r.kids[from] = {}
         /\ Lost(r) \subseteq Lost(t) /\ Empty(r) \subseteq Empty(t) \cup {from}
         /\ \A x \in Container : Inside(t, x) \cap Inside(t, from) = {} /\ p \notin Inside(t, x)
              => Spared(r, t, x)
<1>1. Fit(r) /\ r.kids[from] \subseteq Container /\ from # None
  BY TreeTypes, Nothing DEF Emptying, Fit
<1>2. ASSUME NEW x \in r.kids[from]
      PROVE  FALSE
  <2>1. x \in Container /\ r.parent[x] = from
    BY <1>1 DEF Fit, Shape, Linked
  <2>2. CASE x \in t.kids[from]
    BY <2>1, <2>2 DEF Emptying
  <2>3. CASE x \notin t.kids[from]
    BY <2>1, <2>3 DEF Emptying, Fit, Shape, Linked
  <2> QED
    BY <2>2, <2>3
<1> QED
  BY <1>1, <1>2 DEF Emptying

LEMMA EmptyingNone ==
  ASSUME NEW t, Fit(t), NEW from \in Splits, NEW p \in Splits \cup {None}, NEW q
  PROVE  Emptying(t, t, from, p, q, 0)
<1>1. \A y \in t.kids[from] : t.parent[y] = from
  BY KidFacts
<1> QED
  BY <1>1, SparedSame DEF Emptying

\* The children of c are tiled on w.
LEMMA TileAllFit ==
  ASSUME NEW t, Fit(t), NEW c \in Splits, NEW w \in Workspaces
  PROVE  LET r == TileAll(t, SetToSeq(t.kids[c]), w)
         IN  /\ Fit(r) /\ r.life = t.life /\ r.scratch = t.scratch /\ r.kids[c] = {}
             /\ Lost(r) \subseteq Lost(t) /\ Empty(r) \subseteq Empty(t) \cup {c}
<1> DEFINE q == SetToSeq(t.kids[c])
           m == Len(q)
<1>1. t.kids[c] \in SUBSET Container /\ t \in Tree
  BY TreeTypes DEF Fit
<1>1a. MayTake(t, c, None)
  BY DEF MayTake
<1>2. q \in Seq(t.kids[c]) /\ \A x \in t.kids[c] : \E j \in 1 .. m : q[j] = x
  BY <1>1, SetToSeqIs, FS_Subset, ConstantsOK
<1> HIDE DEF q
<1>3. q \in Seq(Container) /\ m \in Nat /\ \A i \in 1 .. m : q[i] \in t.kids[c]
  BY <1>1, <1>2, LenProperties, ElementOfSeq
<1>4. PICK f : /\ f[0] = t
               /\ \A i \in 1 .. m : f[i] = TileOne(f[i - 1], q[i], w)
               /\ TileAll(t, q, w) = f[m]
  BY <1>1, <1>3, TileAllWalk
<1> HIDE DEF m
<1> DEFINE p == None
<1>0. p \in Splits \cup {None} /\ p = None /\ p # c
  BY Nothing
<1> HIDE DEF p
<1> DEFINE G == {i \in 0 .. m : Emptying(f[i], t, c, p, q, i)}
<1>6. 0 \in G
  <2>1. Emptying(t, t, c, p, q, 0)
    BY <1>0, EmptyingNone
  <2> QED
    BY <1>3, <1>4, <2>1
<1>7. ASSUME NEW i \in 1 .. m, i - 1 \in G PROVE i \in G
  <2>1. Emptying(f[i-1], t, c, p, q, i - 1) /\ i \in Nat /\ i # 0 /\ i \in 0 .. m
    BY <1>3, <1>7
  <2>2. q[i] \in t.kids[c] /\ q[i] \in Container /\ t.life[q[i]] = "live" /\ q[i] \notin t.scratch
    BY <1>3, KidFacts
  <2>3. Moves(TileOne(f[i-1], q[i], w), f[i-1], q[i], p, w) /\ w # None
    <3>1. Fit(f[i-1]) /\ f[i-1].life = t.life /\ f[i-1].scratch = t.scratch
      BY <2>1 DEF Emptying
    <3> QED
      BY <1>0, <2>2, <3>1, TileOneFit, Nothing
  <2>4. Emptying(TileOne(f[i-1], q[i], w), t, c, p, q, i)
    BY <1>0, <1>1a, <2>1, <2>2, <2>3, EmptyingOn
  <2> QED
    BY <1>4, <2>1, <2>4
<1> HIDE DEF G
<1>8. \A i \in 0 .. m : i \in G
  BY <1>3, <1>6, <1>7, Counting
<1>9. Emptying(f[m], t, c, p, q, m)
  BY <1>3, <1>8 DEF G
<1> DEFINE r == f[m]
<1>10. /\ Emptying(r, t, c, p, q, m) /\ p \in Splits \cup {None}
       /\ \A x \in t.kids[c] : \E j \in 1 .. m : q[j] = x
  BY <1>0, <1>2, <1>9
<1> HIDE DEF r
<1>11. /\ Fit(r) /\ r.life = t.life /\ r.scratch = t.scratch /\ r.kids[c] = {}
       /\ Lost(r) \subseteq Lost(t) /\ Empty(r) \subseteq Empty(t) \cup {c}
       /\ \A x \in Container : Inside(t, x) \cap Inside(t, c) = {} /\ p \notin Inside(t, x)
            => Spared(r, t, x)
  BY <1>0, <1>10, Emptied
<1> QED
  BY <1>4, <1>11 DEF q, r

\* The children of c are lifted to p, or to w.
LEMMA LiftAllFit ==
  ASSUME NEW t, Fit(t), NEW c \in Splits, NEW p \in Splits \cup {None},
         p # None => t.life[p] = "live" /\ p \notin Inside(t, c), NEW w \in Workspaces
  PROVE  LET r == LiftAll(t, SetToSeq(t.kids[c]), p, w)
         IN  /\ Fit(r) /\ r.life = t.life /\ r.scratch = t.scratch /\ r.kids[c] = {}
             /\ Lost(r) \subseteq Lost(t) /\ Empty(r) \subseteq Empty(t) \cup {c}
             /\ \A x \in Container : Inside(t, x) \cap Inside(t, c) = {} /\ p \notin Inside(t, x)
                  => Spared(r, t, x)
<1> DEFINE q == SetToSeq(t.kids[c])
           m == Len(q)
<1>1. t.kids[c] \in SUBSET Container /\ t \in Tree /\ c \in Inside(t, c) /\ MayTake(t, c, p)
  BY TreeTypes, InsideType, Nothing DEF Fit, MayTake
<1>2. q \in Seq(t.kids[c]) /\ \A x \in t.kids[c] : \E j \in 1 .. m : q[j] = x
  BY <1>1, SetToSeqIs, FS_Subset, ConstantsOK
<1> HIDE DEF q
<1>3. q \in Seq(Container) /\ m \in Nat /\ \A i \in 1 .. m : q[i] \in t.kids[c]
  BY <1>1, <1>2, LenProperties, ElementOfSeq
<1>4. PICK f : /\ f[0] = t
               /\ \A i \in 1 .. m : f[i] = LiftOne(f[i - 1], q[i], p, w)
               /\ LiftAll(t, q, p, w) = f[m]
  BY <1>1, <1>3, LiftAllWalk
<1> HIDE DEF m
<1>0. p # c
  BY <1>1, Nothing
<1> DEFINE G == {i \in 0 .. m : Emptying(f[i], t, c, p, q, i)}
<1>6. 0 \in G
  <2>1. Emptying(t, t, c, p, q, 0)
    BY <1>0, EmptyingNone
  <2> QED
    BY <1>3, <1>4, <2>1
<1>7. ASSUME NEW i \in 1 .. m, i - 1 \in G PROVE i \in G
  <2>1. Emptying(f[i-1], t, c, p, q, i - 1) /\ i \in Nat /\ i # 0 /\ i \in 0 .. m
    BY <1>3, <1>7
  <2>2. /\ q[i] \in t.kids[c] /\ q[i] \in Container /\ t.life[q[i]] = "live"
        /\ q[i] \notin t.scratch /\ Inside(t, q[i]) \subseteq Inside(t, c)
    BY <1>3, KidFacts
  <2>3. PICK v : Moves(LiftOne(f[i-1], q[i], p, w), f[i-1], q[i], p, v) /\ (p = None => v # None)
    <3>1. /\ Fit(f[i-1]) /\ f[i-1].life = t.life /\ f[i-1].scratch = t.scratch
          /\ Inside(f[i-1], q[i]) \subseteq Inside(t, q[i])
      BY <2>1, <2>2 DEF Emptying
    <3>2. p # None => p \notin Inside(f[i-1], q[i])
      BY <2>2, <3>1
    <3> QED
      BY <2>2, <3>1, <3>2, LiftOneFit
  <2> DEFINE h == f[i-1]
             r == LiftOne(h, q[i], p, w)
  <2>31. /\ Emptying(h, t, c, p, q, i - 1) /\ Moves(r, h, q[i], p, v)
         /\ q[i] \in t.kids[c] /\ (p = None => v # None)
    BY <2>1, <2>2, <2>3
  <2> HIDE DEF h, r
  <2>32. \A u : Moves(r, h, q[i], p, u) /\ (p = None => u # None) => Emptying(r, t, c, p, q, i)
    BY <1>1, <2>1, <2>31, EmptyingOn
  <2>4. Emptying(LiftOne(f[i-1], q[i], p, w), t, c, p, q, i)
    BY <2>31, <2>32 DEF r, h
  <2> QED
    BY <1>4, <2>1, <2>4
<1> HIDE DEF G
<1>8. \A i \in 0 .. m : i \in G
  BY <1>3, <1>6, <1>7, Counting
<1>9. Emptying(f[m], t, c, p, q, m)
  BY <1>3, <1>8 DEF G
<1> DEFINE r == f[m]
<1>10. /\ Emptying(r, t, c, p, q, m) /\ p \in Splits \cup {None}
       /\ \A x \in t.kids[c] : \E j \in 1 .. m : q[j] = x
  BY <1>0, <1>2, <1>9
<1> HIDE DEF r
<1>11. /\ Fit(r) /\ r.life = t.life /\ r.scratch = t.scratch /\ r.kids[c] = {}
       /\ Lost(r) \subseteq Lost(t) /\ Empty(r) \subseteq Empty(t) \cup {c}
       /\ \A x \in Container : Inside(t, x) \cap Inside(t, c) = {} /\ p \notin Inside(t, x)
            => Spared(r, t, x)
  BY <1>0, <1>10, Emptied
<1> QED
  BY <1>4, <1>11 DEF q, r

(***************************************************************************)
(* Moving to a workspace or a container.                                   *)
(***************************************************************************)
\* Something has left p, which may be empty now.
Leaves(r, t, p) ==
  Fit(r) /\ Tame(r, t) /\ Lost(r) \subseteq Lost(t) /\ Empty(r) \subseteq Empty(t) \cup {p}

LEMMA LeavesReaped ==
  ASSUME NEW t, NEW r, NEW p \in Container \cup {None}, Leaves(r, t, p)
  PROVE  Keeps(Reaped(r, p), t)
<1>1. None \notin Empty(r)
  BY Nothing DEF Empty
<1>2. CASE p = None
  BY <1>1, <1>2 DEF Reaped, Leaves, Keeps
<1>3. CASE p # None
  <2> DEFINE u == ReapEmpty(r, p)
  <2>1. Fit(u) /\ Tame(u, r) /\ Lost(u) \subseteq Lost(r) /\ Empty(u) \subseteq Empty(r) \ {p}
    BY ReapEmptyFit DEF Leaves
  <2> HIDE DEF u
  <2>2. Keeps(u, t)
    BY <2>1, TameOn DEF Leaves, Keeps
  <2> QED
    BY <1>3, <2>2 DEF Reaped, u
<1> QED
  BY <1>2, <1>3

LEMMA ReapedTame ==
  ASSUME NEW t \in Tree, NEW p \in Container \cup {None}
  PROVE  Tame(Reaped(t, p), t)
BY ReapEmptyTame, TameSame DEF Reaped

LEMMA KeepsLeaves ==
  ASSUME NEW t, NEW r, Keeps(r, t), NEW p
  PROVE  Leaves(r, t, p)
BY DEF Keeps, Leaves

LEMMA LeavesOn ==
  ASSUME NEW t, NEW u, NEW r, NEW p, Leaves(u, t, p), Keeps(r, u) \/ Leaves(r, u, None)
  PROVE  Leaves(r, t, p)
<1>1. None \notin Empty(r)
  BY Nothing DEF Empty
<1> QED
  BY <1>1, TameOn DEF Keeps, Leaves

\* A container that has got a place is not lost.
LEMMA MovesLeave ==
  ASSUME NEW t, Fit(t), NEW c \in Container, NEW r, NEW p \in Splits \cup {None}, NEW v,
         p # None \/ v # None, Moves(r, t, c, p, v)
  PROVE  Leaves(r, t, t.parent[c]) /\ c \notin Lost(r)
<1>1. Lands(r, t, c, p, v)
  BY MovesLands
<1> QED
  BY <1>1, CalmTame DEF Lands, Leaves

LEMMA DetachTame ==
  ASSUME NEW t \in Tree, NEW c \in Container
  PROVE  Tame(Detach(t, c), t) /\ Detach(t, c) \in Tree
BY PlacesCalm, CalmTame, CalmTree

LEMMA UnwrapTame ==
  ASSUME NEW t \in Tree, NEW w \in Workspaces, NEW c \in Splits
  PROVE  Tame(UnwrapChildren(t, w, c), t)
<1> DEFINE u == [t EXCEPT !.layout[w] = t.layout[c]]
           q == SetToSeq(t.kids[c])
           r == TileAll(u, q, w)
<1>1. t.layout[c] \in {"horiz", "vert", "tabbed", "stacked"}
  BY DEF Tree
<1>2. Quiet(u, t) /\ u \in Tree
  BY <1>1, FieldQuiet, QuietTree
<1>3. t.kids[c] \in SUBSET Container
  BY TreeTypes
<1>4. q \in Seq(Container)
  <2>1. q \in Seq(t.kids[c])
    BY <1>3, SetToSeqType, FS_Subset, ConstantsOK
  <2> HIDE DEF q
  <2> QED
    BY <1>3, <2>1, SeqDef
<1> HIDE DEF u, q
<1>5. Tame(r, u)
  BY <1>2, <1>4, TileAllTame
<1> HIDE DEF r
<1>6. Tame(r, t)
  BY <1>2, <1>5, QuietTame, TameOn
<1> QED
  BY <1>6 DEF UnwrapChildren, r, u, q

LEMMA UnwrapFit ==
  ASSUME NEW t, Fit(t), NEW w \in Workspaces, NEW c \in Splits
  PROVE  LET r == ReapEmpty(UnwrapChildren(t, w, c), c)
         IN  /\ Fit(r) /\ Tame(r, t) /\ Lost(r) \subseteq Lost(t) \ {c}
             /\ Empty(r) \subseteq Empty(t)
<1> DEFINE u == [t EXCEPT !.layout[w] = t.layout[c]]
           v == TileAll(u, SetToSeq(u.kids[c]), w)
           r == ReapEmpty(v, c)
<1>0. t \in Tree /\ c \in Container
  BY Nothing DEF Fit
<1>1. t.layout[c] \in {"horiz", "vert", "tabbed", "stacked"}
  BY <1>0 DEF Tree
<1>2. Quiet(u, t) /\ u.kids = t.kids
  <2>1. Quiet(u, t)
    BY <1>0, <1>1, FieldQuiet
  <2> QED
    BY <2>1 DEF Quiet, Same
<1>3. UnwrapChildren(t, w, c) = v
  BY <1>2 DEF UnwrapChildren
<1>4. Tame(v, t)
  BY <1>0, <1>3, UnwrapTame
<1> HIDE DEF u
<1>5. Fit(u) /\ Lost(u) = Lost(t) /\ Empty(u) = Empty(t)
  BY <1>2, QuietFit
<1>6. Fit(v) /\ v.kids[c] = {} /\ Lost(v) \subseteq Lost(u) /\ Empty(v) \subseteq Empty(u) \cup {c}
  BY <1>5, TileAllFit
<1> HIDE DEF v
<1>7. /\ Fit(r) /\ Tame(r, v) /\ Lost(r) \subseteq Lost(v) /\ c \notin Lost(r)
      /\ Empty(r) \subseteq Empty(v) \ {c}
  BY <1>0, <1>6, ReapEmptyFit
<1> HIDE DEF r
<1>8. Fit(r) /\ Tame(r, t) /\ Lost(r) \subseteq Lost(t) \ {c} /\ Empty(r) \subseteq Empty(t)
  BY <1>4, <1>5, <1>6, <1>7, TameOn
<1> QED
  BY <1>3, <1>8 DEF r

LEMMA MoveToWorkspaceTame ==
  ASSUME NEW t \in Tree, NEW c \in Container, NEW w \in Workspaces \cup {None}
  PROVE  Tame(MoveToWorkspace(t, c, w), t)
<1> DEFINE u == Detach(t, c)
<1>1. Tame(u, t) /\ u \in Tree
  BY DetachTame
<1>2. MoveToWorkspace(t, c, w) \in
        {t, Break(t, "null"), AddFloating(u, w, c), AddTiling(u, w, c)} \cup
        (IF c \in Splits /\ w # None THEN {ReapEmpty(UnwrapChildren(u, w, c), c)} ELSE {})
  BY DEF MoveToWorkspace
<1> HIDE DEF u
<1>3. Tame(t, t) /\ Tame(Break(t, "null"), t)
  BY TameSame, BreakCalm, CalmTame DEF Breach
<1>4. Tame(AddFloating(u, w, c), t) /\ Tame(AddTiling(u, w, c), t)
  BY <1>1, AddsCalm, CalmTame, AddTilingTame, TameOn
<1>5. ASSUME c \in Splits, w # None PROVE Tame(ReapEmpty(UnwrapChildren(u, w, c), c), t)
  <2> DEFINE v == UnwrapChildren(u, w, c)
  <2>1. Tame(v, u) /\ v \in Tree
    BY <1>1, <1>5, UnwrapTame, TameTree
  <2> HIDE DEF v
  <2>2. Tame(ReapEmpty(v, c), v)
    BY <2>1, ReapEmptyTame
  <2>3. Tame(ReapEmpty(v, c), t)
    BY <1>1, <2>1, <2>2, TameOn
  <2> QED
    BY <2>3 DEF v
<1> QED
  BY <1>2, <1>3, <1>4, <1>5

\* A container has left its parent for the workspace.
LEMMA MoveToWorkspaceFit ==
  ASSUME NEW t, Fit(t), NEW c \in Container, t.life[c] = "live",
         NEW w \in Workspaces \cup {None}, ~Undefined(MoveToWorkspace(t, c, w))
  PROVE  LET r == MoveToWorkspace(t, c, w)
         IN  Leaves(r, t, t.parent[c])
<1> DEFINE u == Detach(t, c)
           p == t.parent[c]
<1>0. t \in Tree
  BY DEF Fit
<1>1. Moves(u, t, c, None, None) /\ Fit(u) /\ Loose(u, c)
  BY DetachFit
<1> HIDE DEF u
<1>2. u.life = t.life /\ u.scratch = t.scratch /\ Tame(u, t)
      /\ Lost(u) \subseteq Lost(t) \cup {c} /\ Empty(u) \subseteq Empty(t) \cup {p}
  BY <1>1, MovesOut, CalmTame
<1>3. CASE t.ws[c] = w
  <2>1. MoveToWorkspace(t, c, w) = t
    BY <1>3 DEF MoveToWorkspace
  <2> QED
    BY <2>1, KeepsSame, KeepsLeaves
<1> DEFINE n == None
<1>4. n \in Splits \cup {None} /\ Moves(u, t, c, n, None) /\ n = None
  BY <1>1
<1> HIDE DEF n
<1>5. CASE t.ws[c] # w /\ IsFloating(t, c)
  <2> DEFINE r == AddFloating(u, w, c)
  <2>1. t.ws[c] # None
    BY <1>0, <1>5, NullBreaks DEF MoveToWorkspace
  <2>2. MoveToWorkspace(t, c, w) = r
    BY <1>5, <2>1 DEF MoveToWorkspace, u
  <2>3. ~Undefined(r)
    BY <2>2
  <2>4. Moves(r, u, c, n, w) /\ w # None
    BY <1>1, <1>2, <1>4, <2>3, AddFloatingFit, Nothing DEF Loose
  <2> HIDE DEF r
  <2>5. Moves(r, t, c, n, w)
    BY <1>1, <1>4, <2>4, MovesOn
  <2> QED
    BY <1>4, <2>2, <2>4, <2>5, MovesLeave
<1>6. CASE t.ws[c] # w /\ ~IsFloating(t, c)
  <2>0. c \notin t.scratch
    BY <1>6 DEF IsFloating
  <2>1. CASE c \in Splits /\ w # None /\ t.tiling[w] \cup t.floating[w] = {}
    <3> DEFINE r == ReapEmpty(UnwrapChildren(u, w, c), c)
    <3>1. MoveToWorkspace(t, c, w) = r
      BY <1>6, <2>1 DEF MoveToWorkspace, u
    <3>2. /\ Fit(r) /\ Tame(r, u) /\ Lost(r) \subseteq Lost(u) \ {c}
          /\ Empty(r) \subseteq Empty(u)
      BY <1>1, <2>1, UnwrapFit
    <3> HIDE DEF r
    <3>3. Leaves(r, t, p)
      BY <1>2, <3>2, TameOn DEF Leaves
    <3> QED
      BY <3>1, <3>3
  <2>2. CASE ~(c \in Splits /\ w # None /\ t.tiling[w] \cup t.floating[w] = {})
    <3> DEFINE r == AddTiling(u, w, c)
    <3>1. MoveToWorkspace(t, c, w) = r
      BY <1>6, <2>2 DEF MoveToWorkspace, u
    <3>2. ~Undefined(r)
      BY <3>1
    <3>3. Moves(r, u, c, n, w) /\ w # None
      BY <1>1, <1>2, <1>4, <2>0, <3>2, AddTilingLoose, Nothing
    <3> HIDE DEF r
    <3>4. Moves(r, t, c, n, w)
      BY <1>1, <1>4, <3>3, MovesOn
    <3> QED
      BY <1>4, <3>1, <3>3, <3>4, MovesLeave
  <2> QED
    BY <2>1, <2>2
<1> QED
  BY <1>3, <1>5, <1>6

LEMMA MoveToContainerTame ==
  ASSUME NEW t \in Tree, NEW c \in Container, NEW d \in Container
  PROVE  Tame(MoveToContainer(t, c, d), t)
<1> DEFINE u == Detach(t, c)
<1>1. Tame(u, t) /\ u \in Tree
  BY DetachTame
<1>2. t.ws[d] \in Workspaces \cup {None} /\ (d \in Views \/ d \in Splits)
  BY TreeTypes DEF Container
<1>3. Tame(MoveToWorkspace(t, c, t.ws[d]), t)
  BY <1>2, MoveToWorkspaceTame
<1>4. MoveToContainer(t, c, d) \in
        {t, MoveToWorkspace(t, c, t.ws[d]), AddSibling(u, d, c)} \cup
        (IF d \in Splits THEN {AddChild(u, d, c)} ELSE {})
  BY <1>2 DEF MoveToContainer
<1> HIDE DEF u
<1>5. Tame(AddSibling(u, d, c), t) /\ (d \in Splits => Tame(AddChild(u, d, c), t))
  BY <1>1, AddsCalm, CalmTame, TameOn
<1> QED
  BY <1>3, <1>4, <1>5, TameSame

\* A container has left its parent for a place at another container.
LEMMA MoveToContainerFit ==
  ASSUME NEW t, Fit(t), NEW c \in Container, t.life[c] = "live",
         NEW d \in Container, t.life[d] = "live", ~Undefined(MoveToContainer(t, c, d))
  PROVE  Leaves(MoveToContainer(t, c, d), t, t.parent[c])
<1> DEFINE u == Detach(t, c)
           w == t.ws[d]
<1>0. t \in Tree /\ w \in Workspaces \cup {None} /\ (d \in Views \/ d \in Splits)
  BY TreeTypes DEF Fit, Container
<1>1. Moves(u, t, c, None, None) /\ Fit(u) /\ Loose(u, c)
  BY DetachFit
<1> HIDE DEF u
<1>2. u.life = t.life /\ u.scratch = t.scratch /\ u \in Tree /\ Inside(u, c) = Inside(t, c)
  BY <1>1, MovesOut
<1>3. CASE d \in Inside(t, c)
  <2>1. MoveToContainer(t, c, d) = t
    BY <1>3 DEF MoveToContainer
  <2> QED
    BY <2>1, KeepsSame, KeepsLeaves
<1>4. CASE d \notin Inside(t, c) /\ IsFloating(t, c)
  <2>1. MoveToContainer(t, c, d) = MoveToWorkspace(t, c, w)
    BY <1>4 DEF MoveToContainer
  <2> HIDE DEF w
  <2> QED
    BY <1>0, <2>1, MoveToWorkspaceFit
<1>5. CASE d \notin Inside(t, c) /\ ~IsFloating(t, c)
  <2> DEFINE r == IF d \in Views THEN AddSibling(u, d, c) ELSE AddChild(u, d, c)
             p == IF d \in Views THEN u.parent[d] ELSE d
             v == IF d \in Views THEN u.ws[d] ELSE u.ws[d]
  <2>1. MoveToContainer(t, c, d) = r
    BY <1>5 DEF MoveToContainer, u
  <2>2. c \notin u.scratch /\ ~Undefined(r)
    BY <1>2, <1>5, <2>1 DEF IsFloating
  <2>3. p \in Splits \cup {None}
    BY <1>0, <1>2, TreeTypes
  <2>4. Moves(r, u, c, p, v) /\ (p # None \/ v # None)
    <3>1. CASE d \in Views
      <4>1. ~Undefined(AddSibling(u, d, c))
        BY <2>2, <3>1
      <4> QED
        BY <1>1, <1>2, <1>5, <2>2, <3>1, <4>1, AddSiblingFit DEF Loose
    <3>2. CASE d \notin Views
      BY <1>0, <1>1, <1>2, <1>5, <2>2, <3>2, AddChildFit, Nothing DEF Loose
    <3> QED
      BY <3>1, <3>2
  <2> HIDE DEF r, p, v
  <2>5. Moves(r, t, c, p, v)
    BY <1>1, <2>3, <2>4, MovesOn
  <2> QED
    BY <2>1, <2>3, <2>4, <2>5, MovesLeave
<1> QED
  BY <1>3, <1>4, <1>5

(***************************************************************************)
(* Squashing redundant pairs.                                              *)
(***************************************************************************)
\* A split with one child, a split too, on a workspace.
Pair(t, c) ==
  /\ c \in Splits /\ OnlyChild(t, c) \in Splits /\ t.kids[c] = {OnlyChild(t, c)}
  /\ t.ws[c] # None

LEMMA SquashPairFit ==
  ASSUME NEW t, Fit(t), NEW c, Pair(t, c)
  PROVE  LET r == SquashPair(t, c)
         IN  /\ Keeps(r, t)
             /\ \A x \in Container : Inside(t, x) \cap Inside(t, c) = {} => Spared(r, t, x)
<1> DEFINE child == OnlyChild(t, c)
           p == t.parent[c]
           w == t.ws[c]
           q == SetToSeq(t.kids[child])
           u == LiftAll(t, q, p, w)
           r == ReapEmpty(u, child)
<1>1. SquashPair(t, c) = r
  BY DEF SquashPair
<1>2. t \in Tree /\ c \in Splits /\ c \in Container /\ child \in Splits /\ child \in Container
      /\ t.kids[c] = {child} /\ w # None
  BY Nothing DEF Pair, Fit
<1> HIDE DEF child
<1>3. w \in Workspaces /\ p \in Splits \cup {None} /\ t.kids[child] \in SUBSET Container
  BY <1>2, TreeTypes
<1>4. child \in Inside(t, c) /\ Inside(t, child) \subseteq Inside(t, c)
  BY <1>2, InsideType, InsideTrans
<1>5. p # None => t.life[p] = "live" /\ p \notin Inside(t, child)
  BY <1>2, <1>4, PlacedLives
<1>6. q \in Seq(Container)
  <2>1. q \in Seq(t.kids[child])
    BY <1>3, SetToSeqType, FS_Subset, ConstantsOK
  <2> HIDE DEF q
  <2> QED
    BY <1>3, <2>1, SeqDef
<1> HIDE DEF w
<1>7. Tame(u, t)
  BY <1>2, <1>3, <1>6, LiftAllTame
<1>8. /\ Fit(u) /\ u.kids[child] = {}
      /\ Lost(u) \subseteq Lost(t) /\ Empty(u) \subseteq Empty(t) \cup {child}
      /\ \A x \in Container : Inside(t, x) \cap Inside(t, child) = {} /\ p \notin Inside(t, x)
           => Spared(u, t, x)
  <2> HIDE DEF p
  <2> QED
    BY <1>2, <1>3, <1>5, LiftAllFit DEF q
<1> HIDE DEF u
<1>9. /\ Fit(r) /\ Tame(r, u) /\ Lost(r) \subseteq Lost(u)
      /\ Empty(r) \subseteq Empty(u) \ {child}
      /\ \A x \in Container : child \notin Inside(u, x) => Spared(r, u, x)
  BY <1>2, <1>8, ReapEmptyFit
<1> HIDE DEF r
<1>10. Keeps(r, t)
  BY <1>7, <1>8, <1>9, TameOn DEF Keeps
<1>11. ASSUME NEW x \in Container, Inside(t, x) \cap Inside(t, c) = {}
       PROVE  Spared(r, t, x)
  <2>1. p \notin Inside(t, x)
    BY <1>2, <1>11, InsideChild, InsideType DEF Fit, Shape
  <2>2. Spared(u, t, x)
    BY <1>4, <1>8, <1>11, <2>1
  <2>3. child \notin Inside(u, x)
    BY <1>4, <1>11, <2>2 DEF Spared
  <2>4. Spared(r, u, x)
    BY <1>9, <2>3
  <2> QED
    BY <2>2, <2>4, SparedOn
<1> QED
  BY <1>1, <1>10, <1>11

\* The pairs of q up to the i-th have been squashed, the others are as they
\* were.
Squashing(h, t, q, i) ==
  Keeps(h, t) /\ \A j \in 1 .. Len(q) : j > i => Spared(h, t, q[j])

LEMMA PairStays ==
  ASSUME NEW t \in Tree, NEW h, NEW c \in Container, Pair(t, c), Spared(h, t, c)
  PROVE  Pair(h, c)
<1>1. c \in Inside(t, c)
  BY InsideType
<1>2. h.ws[c] = t.ws[c] /\ (c \in Splits => h.kids[c] = t.kids[c])
  BY <1>1 DEF Spared
<1> QED
  BY <1>2 DEF Pair, OnlyChild

LEMMA SquashAllFit ==
  ASSUME NEW t, Fit(t), NEW q \in Seq(Container),
         \A i \in 1 .. Len(q) : Pair(t, q[i]),
         \A i, j \in 1 .. Len(q) : i # j => Inside(t, q[i]) \cap Inside(t, q[j]) = {}
  PROVE  Keeps(SquashAll(t, q), t)
<1> DEFINE m == Len(q)
           g == [z \in Tree \X (1 .. m) |-> IF SquashPair(z[1], q[z[2]]) \in Tree
                                              THEN SquashPair(z[1], q[z[2]]) ELSE z[1]]
<1>1. m \in Nat /\ \A i \in 1 .. m : q[i] \in Container
  BY LenProperties, ElementOfSeq
<1>2. g \in [Tree \X (1 .. m) -> Tree] /\ t \in Tree
  BY <1>1 DEF Fit
<1>21. \A i \in 1 .. m : Pair(t, q[i])
  OBVIOUS
<1>22. \A i, j \in 1 .. m : i # j => Inside(t, q[i]) \cap Inside(t, q[j]) = {}
  OBVIOUS
<1>23. \A h, i : Squashing(h, t, q, i) <=>
                   Keeps(h, t) /\ \A j \in 1 .. m : j > i => Spared(h, t, q[j])
  BY DEF Squashing
<1> HIDE DEF m
<1>3. PICK f : Walk(f, m, Tree, t, g)
  <2> HIDE DEF g
  <2> QED
    BY <1>1, <1>2, FoldExists
<1> DEFINE G == {i \in 0 .. m : /\ Squashing(f[i], t, q, i)
                                /\ i # 0 => f[i] = SquashPair(f[i-1], q[i])}
<1>4. 0 \in G
  <2>1. Squashing(t, t, q, 0)
    BY <1>23, KeepsSame, SparedSame
  <2> QED
    BY <1>1, <1>3, <2>1 DEF Walk
<1>5. ASSUME NEW i \in 1 .. m, i - 1 \in G PROVE i \in G
  <2> DEFINE h == f[i-1]
             c == q[i]
             r == SquashPair(h, c)
  <2>1. Keeps(h, t) /\ Spared(h, t, c) /\ c \in Container /\ h \in Tree
    <3>1. Squashing(h, t, q, i - 1) /\ i > i - 1
      BY <1>1, <1>5
    <3> QED
      BY <1>1, <1>23, <3>1 DEF Keeps, Fit
  <2>2. Pair(t, c)
    BY <1>21
  <2>3. <<h, i>> \in Tree \X (1 .. m)
    BY <2>1
  <2>4. f[i] = IF r \in Tree THEN r ELSE h
    BY <1>3, <2>3 DEF Walk
  <2> DEFINE v == f[i]
  <2>40. v = IF r \in Tree THEN r ELSE h
    BY <2>4
  <2>5. \A j \in 1 .. m : j > i => Spared(h, t, q[j])
    <3>1. \A j \in 1 .. m : j > i => j > i - 1
      BY <1>1
    <3> QED
      BY <1>5, <1>23, <3>1
  <2>6. \A j \in 1 .. m : j > i => Inside(t, q[j]) \cap Inside(t, c) = {}
    <3> SUFFICES ASSUME NEW j \in 1 .. m, j > i
                 PROVE  Inside(t, q[j]) \cap Inside(t, q[i]) = {}
      OBVIOUS
    <3>1. j # i
      BY <1>1
    <3> QED
      BY <1>22, <3>1
  <2>61. i # 0 /\ i \in 0 .. m
    BY <1>1
  <2> HIDE DEF h, c, v
  <2>7. Pair(h, c)
    BY <1>2, <2>1, <2>2, PairStays
  <2>8. /\ Keeps(r, h)
        /\ \A x \in Container : Inside(h, x) \cap Inside(h, c) = {} => Spared(r, h, x)
    BY <2>1, <2>7, SquashPairFit DEF Keeps
  <2> HIDE DEF r
  <2>9. v = r
    BY <2>8, <2>40 DEF Keeps, Fit
  <2>10. Keeps(r, t)
    BY <2>1, <2>8, KeepsOn
  <2>11. ASSUME NEW j \in 1 .. m, j > i PROVE Spared(r, t, q[j])
    <3>1. Spared(h, t, q[j]) /\ q[j] \in Container
      BY <1>1, <2>5, <2>11
    <3>2. Inside(h, q[j]) = Inside(t, q[j]) /\ Inside(h, c) = Inside(t, c)
      BY <2>1, <3>1 DEF Spared
    <3>3. Spared(r, h, q[j])
      BY <2>6, <2>8, <2>11, <3>1, <3>2
    <3> QED
      BY <3>1, <3>3, SparedOn
  <2>12. Squashing(r, t, q, i)
    BY <1>23, <2>10, <2>11
  <2> QED
    BY <2>9, <2>12, <2>61 DEF r, v, h, c
<1> HIDE DEF G
<1>6. \A i \in 0 .. m : i \in G
  BY <1>1, <1>4, <1>5, Counting
<1>7. Squashing(f[m], t, q, m) /\ \A i \in 1 .. m : f[i] = SquashPair(f[i-1], q[i])
  <2>1. \A i \in 1 .. m : i \in 0 .. m /\ i # 0
    BY <1>1
  <2> QED
    BY <1>1, <1>6, <2>1 DEF G
<1> DEFINE E(h) == [i \in 0 .. m |-> IF i = 0 THEN t ELSE SquashPair(h[i-1], q[i])]
           w0 == CHOOSE h : h = E(h)
<1>8. f = E(f)
  <2>1. f = [i \in 0 .. m |-> f[i]] /\ f[0] = t
    BY <1>3 DEF Walk
  <2>2. \A i \in 0 .. m : f[i] = IF i = 0 THEN t ELSE SquashPair(f[i-1], q[i])
    <3> SUFFICES ASSUME NEW i \in 0 .. m, i # 0
                 PROVE  f[i] = SquashPair(f[i-1], q[i])
      BY <2>1
    <3>1. i \in 1 .. m
      BY <1>1
    <3> QED
      BY <1>7, <3>1
  <2>3. [i \in 0 .. m |-> f[i]] = E(f)
    BY <2>2
  <2> QED
    BY <2>1, <2>3
<1>9. w0 = E(w0)
  BY <1>8
<1>10. SquashAll(t, q) = w0[m]
  BY DEF SquashAll, m
<1> HIDE DEF w0
<1> DEFINE H == {i \in 0 .. m : w0[i] = f[i]}
<1>11. 0 \in H
  <2>1. w0[0] = E(w0)[0]
    BY <1>9
  <2> QED
    BY <1>1, <1>3, <2>1 DEF Walk
<1>12. ASSUME NEW i \in 1 .. m, i - 1 \in H PROVE i \in H
  <2>1. i \in 0 .. m /\ i # 0
    BY <1>1
  <2>2. w0[i] = E(w0)[i]
    BY <1>9
  <2>3. w0[i] = SquashPair(w0[i-1], q[i]) /\ f[i] = SquashPair(f[i-1], q[i])
    BY <1>7, <2>1, <2>2
  <2> QED
    BY <1>12, <2>1, <2>3
<1> HIDE DEF H
<1>13. \A i \in 0 .. m : i \in H
  BY <1>1, <1>11, <1>12, Counting
<1>14. SquashAll(t, q) = f[m]
  BY <1>1, <1>10, <1>13 DEF H
<1> QED
  BY <1>7, <1>14, <1>23

\* Squashing keeps every container in one place; without a workspace it is
\* undefined.
LEMMA SquashFit ==
  ASSUME NEW t, Fit(t), NEW w \in Workspaces \cup {None}
  PROVE  LET r == Squash(t, w)
         IN  Keeps(r, t) /\ (~Undefined(r) => w # None)
<1>1. t \in Tree
  BY DEF Fit
<1>2. CASE w = None
  <2>1. Squash(t, w) = Break(t, "null")
    BY <1>2 DEF Squash
  <2>2. Quiet(Break(t, "null"), t) /\ Undefined(Break(t, "null"))
    BY <1>1, BreakQuiet, NullBreaks DEF Breach
  <2> QED
    BY <2>1, <2>2, QuietKeeps
<1>3. CASE w # None
  <2> DEFINE pairs == {c \in UNION {Inside(t, x) : x \in t.tiling[w]} : IsSquashable(t, c)}
             topmost == {c \in pairs : \A p \in pairs : ~HasAncestor(t, c, p)}
             q == SetToSeq(topmost)
             r == SquashAll(t, q)
  <2>1. Squash(t, w) = r
    BY <1>3 DEF Squash
  <2>2. w \in Workspaces
    BY <1>3
  <2>3. ASSUME NEW c \in pairs PROVE Pair(t, c) /\ c \in Container
    <3>1. PICK x \in t.tiling[w] : c \in Inside(t, x)
      OBVIOUS
    <3>2. x \in Container /\ t.ws[x] = w
      BY <2>2, TilingFacts
    <3>3. t.ws[c] = w
      BY <1>1, <3>1, <3>2, InsideWorkspace DEF Fit, Shape
    <3>4. c \in Splits /\ \E child \in Splits : t.kids[c] = {child}
      BY DEF IsSquashable
    <3>5. OnlyChild(t, c) \in Splits /\ t.kids[c] = {OnlyChild(t, c)}
      BY <3>4 DEF OnlyChild
    <3> QED
      BY <1>3, <3>3, <3>4, <3>5, Nothing DEF Pair
  <2>4. topmost \subseteq pairs /\ topmost \in SUBSET Container
    BY <2>3
  <2>5. ASSUME NEW a \in topmost, NEW b \in topmost, a # b
        PROVE  Inside(t, a) \cap Inside(t, b) = {}
    <3>1. a \in Splits /\ b \in Splits /\ a \in Container /\ b \in Container
      BY <2>3 DEF Pair
    <3>2. ~HasAncestor(t, a, b) /\ ~HasAncestor(t, b, a)
      BY <2>4
    <3>3. a \notin Inside(t, b) /\ b \notin Inside(t, a)
      BY <2>5, <3>1, <3>2 DEF HasAncestor
    <3> QED
      BY <1>1, <3>1, <3>3, Ancestors DEF Fit, Shape
  <2> HIDE DEF topmost
  <2>6. /\ q \in Seq(topmost)
        /\ \A i, j \in 1 .. Len(q) : q[i] = q[j] => i = j
    BY <2>4, SetToSeqIs, FS_Subset, ConstantsOK
  <2> HIDE DEF q
  <2>7. q \in Seq(Container) /\ \A i \in 1 .. Len(q) : q[i] \in topmost
    BY <2>4, <2>6, LenProperties, ElementOfSeq
  <2>8. \A i \in 1 .. Len(q) : Pair(t, q[i])
    BY <2>3, <2>4, <2>7
  <2>9. \A i, j \in 1 .. Len(q) : i # j => Inside(t, q[i]) \cap Inside(t, q[j]) = {}
    BY <2>5, <2>6, <2>7
  <2>10. Keeps(r, t)
    BY <2>7, <2>8, <2>9, SquashAllFit
  <2> QED
    BY <1>3, <2>1, <2>10
<1> QED
  BY <1>2, <1>3

(***************************************************************************)
(* Swapping.                                                               *)
(***************************************************************************)

Places == [parent : Splits \cup {None}, ws : Workspaces \cup {None}, floats : BOOLEAN]

LEMMA PlaceType ==
  ASSUME NEW t \in Tree, NEW c \in Container
  PROVE  PlaceOf(t, c) \in Places
<1>1. t.parent[c] \in Splits \cup {None} /\ t.ws[c] \in Workspaces \cup {None}
  BY TreeTypes
<1>2. IsFloating(t, c) \in BOOLEAN
  BY DEF IsFloating
<1> QED
  BY <1>1, <1>2 DEF PlaceOf, Places

LEMMA PutAtCalm ==
  ASSUME NEW t \in Tree, NEW c \in Container, NEW place \in Places
  PROVE  Calm(PutAt(t, c, place), t)
<1>1. place.parent \in Splits \cup {None} /\ place.ws \in Workspaces \cup {None}
      /\ place.floats \in BOOLEAN
  BY DEF Places
<1>2. CASE place.parent # None
  BY <1>1, <1>2, AddsCalm DEF PutAt
<1>3. CASE place.parent = None /\ place.floats
  BY <1>1, <1>3, AddsCalm DEF PutAt
<1>4. CASE place.parent = None /\ ~place.floats
  BY <1>1, <1>4, AddsCalm DEF PutAt
<1> QED
  BY <1>1, <1>2, <1>3, <1>4

LEMMA SwapPlacesCalm ==
  ASSUME NEW t \in Tree, NEW a \in Container, NEW b \in Container
  PROVE  Calm(SwapPlaces(t, a, b), t)
<1> DEFINE pa == PlaceOf(t, a)
           pb == PlaceOf(t, b)
           u == PutAt(t, a, pb)
<1>1. pa \in Places /\ pb \in Places
  BY PlaceType
<1> HIDE DEF pa, pb
<1>2. Calm(u, t) /\ u \in Tree
  BY <1>1, PutAtCalm, CalmTree
<1> HIDE DEF u
<1>3. Calm(PutAt(u, b, pa), u)
  BY <1>1, <1>2, PutAtCalm
<1> QED
  BY <1>2, <1>3, CalmOn DEF SwapPlaces, u, pa, pb

LEMMA OutOfScratchpadTame ==
  ASSUME NEW t \in Tree, NEW c \in Container, NEW w \in Workspaces \cup {None}
  PROVE  Tame(OutOfScratchpad(t, c, w), t)
<1> DEFINE u == IF t.ws[c] = None THEN ScratchpadShow(t, c, w) ELSE t
<1>1. Tame(u, t) /\ u \in Tree
  BY ScratchpadShowTame, TameSame, TameTree
<1> HIDE DEF u
<1>2. Tame(ScratchpadRemove(u, c), t)
  BY <1>1, ScratchpadRemoveTame, TameOn
<1> QED
  BY <1>2, TameSame DEF OutOfScratchpad, u

LEMMA IntoScratchpadTame ==
  ASSUME NEW t \in Tree, NEW c \in Container, NEW for, NEW before,
         NEW w \in Workspaces \cup {None}
  PROVE  Tame(IntoScratchpad(t, c, for, before, w), t)
<1> DEFINE u == ScratchpadAdd(t, c, None)
<1>1. Tame(u, t) /\ u \in Tree
  BY ScratchpadAddTame, TameTree
<1>2. IntoScratchpad(t, c, for, before, w) \in {t, ScratchpadShow(u, c, w), u}
  BY DEF IntoScratchpad
<1> HIDE DEF u
<1>3. Tame(ScratchpadShow(u, c, w), t)
  BY <1>1, ScratchpadShowTame, TameOn
<1> QED
  BY <1>1, <1>2, <1>3, TameSame

LEMMA SetModeHushed ==
  ASSUME NEW t \in Tree, NEW c \in Container, NEW mode \in Mode
  PROVE  /\ Hushed(SetModeIfAny(t, c, mode), t)
         /\ mode # "global" => Quiet(SetModeIfAny(t, c, mode), t)
BY SetFullscreenQuiet, QuietSame, QuietHushed DEF SetModeIfAny

\* Both modes given to the containers that have changed places.
TakeModes(t, a, b, modeA, modeB) == SetModeIfAny(SetModeIfAny(t, b, modeA), a, modeB)

LEMMA TakeModesHushed ==
  ASSUME NEW t \in Tree, NEW a \in Container, NEW b \in Container,
         NEW modeA \in Mode, NEW modeB \in Mode
  PROVE  /\ Hushed(TakeModes(t, a, b, modeA, modeB), t)
         /\ modeA # "global" /\ modeB # "global" => Quiet(TakeModes(t, a, b, modeA, modeB), t)
<1> DEFINE u == SetModeIfAny(t, b, modeA)
           r == SetModeIfAny(u, a, modeB)
<1>1. Hushed(u, t) /\ (modeA # "global" => Quiet(u, t))
  BY SetModeHushed
<1>2. u \in Tree
  BY <1>1 DEF Hushed, Carries
<1> HIDE DEF u
<1>3. Hushed(r, u) /\ (modeB # "global" => Quiet(r, u))
  BY <1>2, SetModeHushed
<1> QED
  BY <1>1, <1>3, HushedOn, QuietOn DEF TakeModes, u

LEMMA ModesLocal ==
  ASSUME NEW t \in Tree, Local(t), NEW c \in Container
  PROVE  t.mode[c] # "global" /\ t.mode[c] \in Mode
BY TreeTypes DEF Local

\* The exchange of places and of the scratchpad.
Exchanged(t, before, a, b, w) ==
  IntoScratchpad(IntoScratchpad(SwapPlaces(t, a, b), b, a, before, w), a, b, before, w)

LEMMA ExchangedTame ==
  ASSUME NEW t \in Tree, NEW a \in Container, NEW b \in Container, NEW before,
         NEW w \in Workspaces \cup {None}
  PROVE  Tame(Exchanged(t, before, a, b, w), t)
<1> DEFINE u == SwapPlaces(t, a, b)
           v == IntoScratchpad(u, b, a, before, w)
<1>1. Tame(u, t) /\ u \in Tree
  BY SwapPlacesCalm, CalmTame, TameTree
<1> HIDE DEF u
<1>2. Tame(v, t) /\ v \in Tree
  BY <1>1, IntoScratchpadTame, TameOn, TameTree
<1> HIDE DEF v
<1>3. Tame(IntoScratchpad(v, a, b, before, w), t)
  BY <1>2, IntoScratchpadTame, TameOn
<1> QED
  BY <1>3 DEF Exchanged, u, v

LEMMA ExchangeTame ==
  ASSUME NEW t \in Tree, NEW a \in Container, NEW b \in Container, NEW before,
         NEW w \in Workspaces \cup {None}
  PROVE  Tame(Exchange(t, before, a, b, w), t)
<1> DEFINE u == DisableIfFullscreen(t, a)
           bare == DisableIfFullscreen(u, b)
           v == Exchanged(bare, before, a, b, w)
           ma == t.mode[a]
           mb == t.mode[b]
           r == TakeModes(v, a, b, ma, mb)
<1>1. Quiet(u, t) /\ u \in Tree
  BY DisableIfQuiet, QuietTree
<1> HIDE DEF u
<1>2. Quiet(bare, t) /\ bare \in Tree /\ Tame(bare, t)
  BY <1>1, DisableIfQuiet, QuietOn, QuietTree, QuietTame
<1> HIDE DEF bare
<1>3. Tame(v, t) /\ v \in Tree
  BY <1>2, ExchangedTame, TameOn, TameTree
<1>4. Quiet(Break(bare, "null"), bare)
  BY <1>2, BreakQuiet DEF Breach
<1>5. ma \in Mode /\ mb \in Mode
  BY TreeTypes
<1>6. Local(t) => ma # "global" /\ mb # "global"
  BY ModesLocal
<1>7. Exchange(t, before, a, b, w) \in {Break(bare, "null"), r}
  BY DEF Exchange, bare, u, TakeModes, Exchanged
<1> HIDE DEF v, ma, mb
<1>8. Hushed(r, v) /\ (Local(t) => Quiet(r, v))
  BY <1>3, <1>5, <1>6, TakeModesHushed
<1> HIDE DEF r
<1>9. Tame(r, t)
  <2>1. Carries(r, t)
    BY <1>3, <1>8, CarriesOn DEF Tame, Hushed
  <2>2. Local(t) => Tame(r, v)
    BY <1>8, QuietTame
  <2> QED
    BY <1>3, <2>1, <2>2 DEF Tame
<1>10. Tame(Break(bare, "null"), t)
  BY <1>2, <1>4, QuietTame, TameOn
<1> QED
  BY <1>7, <1>9, <1>10

LEMMA SwapTame ==
  ASSUME NEW t \in Tree, NEW a \in Container, NEW b \in Container,
         NEW w \in Workspaces \cup {None}
  PROVE  Tame(Swap(t, a, b, w), t)
<1> DEFINE u == OutOfScratchpad(t, a, w)
           v == OutOfScratchpad(u, b, w)
<1>1. Tame(u, t) /\ u \in Tree
  BY OutOfScratchpadTame, TameTree
<1> HIDE DEF u
<1>2. Tame(v, t) /\ v \in Tree
  BY <1>1, OutOfScratchpadTame, TameOn, TameTree
<1> HIDE DEF v
<1>3. Tame(Exchange(v, t, a, b, w), t)
  BY <1>2, ExchangeTame, TameOn
<1> QED
  BY <1>3 DEF Swap, u, v

\* The container is on a workspace, and not in the scratchpad any more.
LEMMA OutOfScratchpadFit ==
  ASSUME NEW t, Fit(t), NEW c \in Container, t.life[c] = "live",
         NEW w \in Workspaces, ~Undefined(OutOfScratchpad(t, c, w))
  PROVE  LET r == OutOfScratchpad(t, c, w)
         IN  /\ Keeps(r, t) /\ r.life = t.life /\ r.scratch = t.scratch \ {c}
             /\ \A y \in Container : Inside(r, y) \subseteq Inside(t, y)
<1>0. t \in Tree
  BY DEF Fit
<1>1. CASE c \notin t.scratch
  BY <1>1, KeepsSame DEF OutOfScratchpad
<1>2. CASE c \in t.scratch /\ t.ws[c] # None
  <2> DEFINE r == ScratchpadRemove(t, c)
  <2>1. OutOfScratchpad(t, c, w) = r
    BY <1>2 DEF OutOfScratchpad
  <2> HIDE DEF r
  <2>2. /\ Fit(r) /\ Tame(r, t) /\ r.scratch = t.scratch \ {c} /\ r.life = t.life
        /\ Lost(r) \subseteq Lost(t) \cup {c} /\ Empty(r) = Empty(t) /\ c \notin Lost(r)
        /\ \A x : Inside(r, x) = Inside(t, x)
    BY <1>2, ScratchpadRemoveFit DEF r
  <2> QED
    BY <2>1, <2>2 DEF Keeps
<1>3. CASE c \in t.scratch /\ t.ws[c] = None
  <2> DEFINE u == ScratchpadShow(t, c, w)
             r == ScratchpadRemove(u, c)
  <2>1. OutOfScratchpad(t, c, w) = r
    BY <1>3 DEF OutOfScratchpad
  <2>2. Tame(u, t) /\ u \in Tree
    BY <1>0, ScratchpadShowTame, TameTree
  <2>3. Tame(r, u) /\ ~Undefined(u)
    BY <2>1, <2>2, ScratchpadRemoveTame, TameDefined
  <2>4. t.parent[c] = None /\ Toplevel(t, c) = c
    BY <1>3, PlacedLives, ToplevelPlace
  <2>5. /\ Keeps(u, t) /\ u.life = t.life /\ u.scratch = t.scratch /\ u.ws[c] # None
        /\ \A y \in Container : Inside(u, y) \subseteq Inside(t, y)
    BY <1>3, <2>3, <2>4, ScratchpadShowFit, Nothing
  <2> HIDE DEF u
  <2>6. Fit(u)
    BY <2>5 DEF Keeps
  <2>7. /\ Fit(r) /\ Tame(r, u) /\ r.scratch = u.scratch \ {c} /\ r.life = u.life
        /\ Lost(r) \subseteq Lost(u) \cup {c} /\ Empty(r) = Empty(u) /\ c \notin Lost(r)
        /\ \A x : Inside(r, x) = Inside(u, x)
    BY <2>5, <2>6, ScratchpadRemoveFit
  <2> HIDE DEF r
  <2>8. Keeps(r, u)
    BY <2>7 DEF Keeps
  <2> QED
    BY <2>1, <2>5, <2>7, <2>8, KeepsOn
<1> QED
  BY <1>1, <1>2, <1>3

\* One that may move is put where another was.
LEMMA PutAtFit ==
  ASSUME NEW t, Fit(t), NEW c \in Container, t.ws[c] # None,
         t.life[c] = "live", c \notin t.scratch, NEW place \in Places,
         place.parent # None => t.life[place.parent] = "live" /\ place.parent \notin Inside(t, c),
         place.ws # None
  PROVE  \E v \in Workspaces \cup {None} :
            Moves(PutAt(t, c, place), t, c, place.parent, v) /\ (place.parent = None => v # None)
<1> DEFINE p == place.parent
           w == place.ws
<1>0. p \in Splits \cup {None} /\ w \in Workspaces /\ place.floats \in BOOLEAN /\ t \in Tree
  BY DEF Places, Fit
<1>1. CASE p # None
  <2>1. PutAt(t, c, place) = AddChild(t, p, c)
    BY <1>1 DEF PutAt
  <2>2. Moves(AddChild(t, p, c), t, c, p, t.ws[p])
    BY <1>0, <1>1, AddChildFit
  <2>3. t.ws[p] \in Workspaces \cup {None}
    BY <1>0, <1>1, TreeTypes, Nothing
  <2> QED
    BY <1>1, <2>1, <2>2, <2>3
<1>2. CASE p = None
  <2> DEFINE u == Leave(t, c)
  <2>1. Moves(u, t, c, None, None) /\ Fit(u) /\ Loose(u, c)
    BY LeaveFit
  <2>2. u.life = t.life /\ u.scratch = t.scratch
    BY <2>1, MovesOut
  <2> DEFINE r == IF place.floats THEN InFloating(u, w, c) ELSE InTiling(u, w, c)
  <2>3. PutAt(t, c, place) = r
    BY <1>0, <1>2 DEF PutAt, AddFloating, InsertTiling
  <2> HIDE DEF u
  <2>4. Moves(r, u, c, None, w)
    <3>1. Moved(InFloating(u, w, c), u, c, None, w) /\ c \in InFloating(u, w, c).floating[w]
      BY <1>0, <2>1, InFloatingMoves
    <3>2. Moves(InFloating(u, w, c), u, c, None, w)
      BY <2>2, <3>1, Nothing DEF Moves, MayMove
    <3>3. Moves(InTiling(u, w, c), u, c, None, w)
      BY <1>0, <2>1, <2>2, InTilingAt
    <3> QED
      BY <3>2, <3>3
  <2> HIDE DEF r
  <2> DEFINE n == None
  <2>5. n \in Splits \cup {None} /\ Moves(r, u, c, n, w) /\ Moves(u, t, c, None, None) /\ n = None
    BY <2>1, <2>4
  <2> HIDE DEF n
  <2>6. Moves(r, t, c, n, w)
    BY <2>1, <2>5, MovesOn
  <2> QED
    BY <1>0, <1>2, <2>3, <2>5, <2>6, Nothing
<1> QED
  BY <1>1, <1>2

\* Two containers that are not below each other, each on a workspace.
LEMMA SwapPlacesFit ==
  ASSUME NEW t, Fit(t), NEW a \in Container, NEW b \in Container, a # b,
         t.life[a] = "live", t.life[b] = "live", a \notin t.scratch, b \notin t.scratch,
         t.ws[a] # None, t.ws[b] # None, a \notin Inside(t, b), b \notin Inside(t, a)
  PROVE  Keeps(SwapPlaces(t, a, b), t)
<1> DEFINE pa == PlaceOf(t, a)
           pb == PlaceOf(t, b)
           u == PutAt(t, a, pb)
           r == PutAt(u, b, pa)
           x == t.parent[a]
           y == t.parent[b]
<1>0. t \in Tree /\ Linked(t) /\ pa \in Places /\ pb \in Places
  BY PlaceType DEF Fit, Shape
<1>1. pa.parent = x /\ pb.parent = y /\ pa.ws # None /\ pb.ws # None
      /\ x \in Splits \cup {None} /\ y \in Splits \cup {None}
  BY <1>0, TreeTypes DEF PlaceOf
<1>2. /\ x # None => t.life[x] = "live" /\ x \notin Inside(t, a) /\ x \notin Inside(t, b)
      /\ y # None => t.life[y] = "live" /\ y \notin Inside(t, b) /\ y \notin Inside(t, a)
  BY <1>0, PlacedLives, InsideChild
<1>21. y \notin Inside(t, b)
  BY <1>0, <1>1, <1>2, InsideType, Nothing
<1> HIDE DEF pa, pb, x, y
<1>3. PICK v \in Workspaces \cup {None} : Moves(u, t, a, y, v) /\ (y = None => v # None)
  BY <1>0, <1>1, <1>2, PutAtFit
<1> HIDE DEF u
<1>4. Lands(u, t, a, y, v)
  BY <1>1, <1>3, MovesLands
<1>5. /\ Fit(u) /\ u.life = t.life /\ u.scratch = t.scratch /\ u \in Tree
      /\ u.parent[a] = y /\ u.parent[b] = y
      /\ u.ws[b] # None /\ Inside(u, b) \subseteq Inside(t, b)
      /\ Lost(u) \subseteq Lost(t) /\ Empty(u) \subseteq Empty(t) \cup {x}
  <2>1. Fit(u) /\ u.life = t.life /\ u.scratch = t.scratch /\ u \in Tree /\ u.parent[a] = y
    BY <1>4 DEF Lands
  <2>2. u.parent[b] = y
    BY <1>4 DEF Lands, y
  <2>3. u.ws[b] # None
    BY <1>4 DEF Lands
  <2>4. Inside(u, b) \subseteq Inside(t, b)
    BY <1>4, <1>21 DEF Lands
  <2>5. Lost(u) \subseteq Lost(t) /\ Empty(u) \subseteq Empty(t) \cup {x}
    BY <1>3, <1>4 DEF Lands, x
  <2> QED
    BY <2>1, <2>2, <2>3, <2>4, <2>5
<1>6. x # None => u.life[x] = "live" /\ x \notin Inside(u, b)
  BY <1>2, <1>5
<1>7. PICK z \in Workspaces \cup {None} : Moves(r, u, b, x, z) /\ (x = None => z # None)
  BY <1>0, <1>1, <1>5, <1>6, PutAtFit
<1> HIDE DEF r
<1>8. Lands(r, u, b, x, z)
  BY <1>1, <1>5, <1>7, MovesLands
<1>9. /\ Fit(r) /\ Calm(r, u) /\ r \in Tree /\ Linked(r) /\ r.parent[a] = y
      /\ Lost(r) \subseteq Lost(u) /\ Empty(r) \subseteq (Empty(u) \cup {y}) \ {x}
  <2>1. Fit(r) /\ Calm(r, u) /\ r \in Tree /\ Linked(r)
    BY <1>8 DEF Lands, Fit, Shape
  <2>2. r.parent[a] = y
    BY <1>5, <1>8 DEF Lands
  <2>3. Lost(r) \subseteq Lost(u) /\ Empty(r) \subseteq (Empty(u) \cup {y}) \ {x}
    BY <1>5, <1>7, <1>8 DEF Lands
  <2> QED
    BY <2>1, <2>2, <2>3
<1>10. y \notin Empty(r)
  BY <1>9, Nothing DEF Linked, Empty
<1>11. Tame(r, t)
  BY <1>4, <1>9, CalmTame, TameOn DEF Lands
<1>12. Lost(r) \subseteq Lost(t) /\ Empty(r) \subseteq Empty(t)
  BY <1>5, <1>9, <1>10
<1> QED
  BY <1>9, <1>11, <1>12 DEF Keeps, SwapPlaces, r, u, pa, pb

LEMMA IntoScratchpadFit ==
  ASSUME NEW t, Fit(t), NEW c \in Container, NEW for, NEW before,
         NEW w \in Workspaces, ~Undefined(IntoScratchpad(t, c, for, before, w))
  PROVE  Keeps(IntoScratchpad(t, c, for, before, w), t)
<1> DEFINE n == None
           u == ScratchpadAdd(t, c, n)
           r == ScratchpadShow(u, c, w)
<1>0. t \in Tree /\ n \in Workspaces \cup {None} /\ w \in Workspaces \cup {None}
  BY DEF Fit
<1>1. IntoScratchpad(t, c, for, before, w) \in {t, r, u}
  BY DEF IntoScratchpad
<1> HIDE DEF n
<1>2. u \in Tree
  BY <1>0, ScratchpadAddTame, TameTree
<1>3. ~Undefined(u) => Keeps(u, t) /\ u.life[c] = "live" /\ u.parent[c] = None
  BY <1>0, ScratchpadAddFit
<1> HIDE DEF u
<1>4. ~Undefined(r) => ~Undefined(u)
  BY <1>0, <1>2, ScratchpadShowTame, TameDefined
<1>5. ~Undefined(r) => Keeps(r, u)
  BY <1>0, <1>3, <1>4, ScratchpadShowFit DEF Keeps
<1> QED
  BY <1>1, <1>3, <1>4, <1>5, KeepsSame, KeepsOn

\* Exchanging keeps every container in one place.
LEMMA ExchangedFit ==
  ASSUME NEW t, Fit(t), NEW a \in Container, NEW b \in Container, a # b,
         t.life[a] = "live", t.life[b] = "live", a \notin t.scratch, b \notin t.scratch,
         t.ws[a] # None, t.ws[b] # None, a \notin Inside(t, b), b \notin Inside(t, a),
         NEW before, NEW w \in Workspaces, ~Undefined(Exchanged(t, before, a, b, w))
  PROVE  Keeps(Exchanged(t, before, a, b, w), t)
<1> DEFINE u == SwapPlaces(t, a, b)
           v == IntoScratchpad(u, b, a, before, w)
           r == IntoScratchpad(v, a, b, before, w)
<1>1. Keeps(u, t) /\ u \in Tree
  BY SwapPlacesFit DEF Keeps, Fit
<1> HIDE DEF u
<1>2. v \in Tree
  BY <1>1, IntoScratchpadTame, TameTree
<1> HIDE DEF v
<1>3. r = Exchanged(t, before, a, b, w)
  BY DEF Exchanged, r, v, u
<1>4. ~Undefined(v)
  BY <1>2, <1>3, IntoScratchpadTame, TameDefined
<1>5. Keeps(v, u)
  BY <1>1, <1>4, IntoScratchpadFit DEF Keeps, v
<1>6. Keeps(r, v)
  BY <1>3, <1>5, IntoScratchpadFit DEF Keeps
<1> QED
  BY <1>1, <1>3, <1>5, <1>6, KeepsOn

LEMMA ExchangeFit ==
  ASSUME NEW t, Fit(t), NEW a \in Container, NEW b \in Container, a # b,
         t.life[a] = "live", t.life[b] = "live", a \notin t.scratch, b \notin t.scratch,
         a \notin Inside(t, b), b \notin Inside(t, a),
         NEW before, NEW w \in Workspaces, ~Undefined(Exchange(t, before, a, b, w))
  PROVE  Keeps(Exchange(t, before, a, b, w), t)
<1> DEFINE u == DisableIfFullscreen(t, a)
           bare == DisableIfFullscreen(u, b)
           v == Exchanged(bare, before, a, b, w)
           ma == t.mode[a]
           mb == t.mode[b]
           r == TakeModes(v, a, b, ma, mb)
<1>0. t \in Tree /\ Local(t)
  BY DEF Fit
<1>1. Quiet(u, t) /\ u \in Tree
  BY <1>0, DisableIfQuiet, QuietTree
<1> HIDE DEF u
<1>2. Quiet(bare, t) /\ bare \in Tree
  BY <1>1, DisableIfQuiet, QuietOn, QuietTree
<1> HIDE DEF bare
<1>3. Fit(bare) /\ Keeps(bare, t) /\ \A x : Inside(bare, x) = Inside(t, x)
  BY <1>2, QuietFit, QuietKeeps
<1>31. bare.life = t.life /\ bare.scratch = t.scratch /\ bare.ws = t.ws
  <2>1. Same(bare, t)
    BY <1>2 DEF Quiet
  <2> QED
    BY <2>1 DEF Same
<1>4. ma \in Mode /\ mb \in Mode /\ ma # "global" /\ mb # "global"
  BY <1>0, ModesLocal
<1>5. t.ws[a] # None /\ t.ws[b] # None
  <2> SUFFICES ASSUME t.ws[a] = None \/ t.ws[b] = None PROVE FALSE
    OBVIOUS
  <2>1. Exchange(t, before, a, b, w) = Break(bare, "null")
    BY DEF Exchange, bare, u
  <2> QED
    BY <1>2, <2>1, NullBreaks
<1>6. Exchange(t, before, a, b, w) = r
  BY <1>5 DEF Exchange, bare, u, TakeModes, Exchanged
<1>7. v \in Tree
  BY <1>2, ExchangedTame, TameTree
<1> HIDE DEF v, ma, mb
<1>8. Quiet(r, v)
  BY <1>4, <1>7, TakeModesHushed
<1>9. ~Undefined(v)
  BY <1>6, <1>8, QuietTame, TameDefined
<1>10. Keeps(v, bare)
  <2>1. ~Undefined(Exchanged(bare, before, a, b, w))
    BY <1>9 DEF v
  <2>2. /\ bare.life[a] = "live" /\ bare.life[b] = "live"
        /\ a \notin bare.scratch /\ b \notin bare.scratch
        /\ bare.ws[a] # None /\ bare.ws[b] # None
        /\ a \notin Inside(bare, b) /\ b \notin Inside(bare, a)
    BY <1>3, <1>31, <1>5
  <2> QED
    BY <1>3, <2>1, <2>2, ExchangedFit DEF v
<1>11. Keeps(r, v)
  BY <1>8, <1>10, QuietKeeps DEF Keeps
<1> QED
  BY <1>3, <1>6, <1>10, <1>11, KeepsOn

\* Neither is an ancestor of the other.
LEMMA NoAncestor ==
  ASSUME NEW t \in Tree, NEW a \in Container, NEW b \in Container, a # b, ~HasAncestor(t, a, b)
  PROVE  a \notin Inside(t, b)
<1> SUFFICES ASSUME a \in Inside(t, b) PROVE FALSE
  OBVIOUS
<1>1. b \notin Splits
  BY DEF HasAncestor
<1>2. Inside(t, b) = {b}
  BY <1>1, InsideAlone
<1> QED
  BY <1>2

\* Swapping keeps every container in one place.
LEMMA SwapFit ==
  ASSUME NEW t, Fit(t), NEW a \in Container, NEW b \in Container, a # b,
         t.life[a] = "live", t.life[b] = "live",
         ~HasAncestor(t, a, b), ~HasAncestor(t, b, a),
         NEW w \in Workspaces, ~Undefined(Swap(t, a, b, w))
  PROVE  Keeps(Swap(t, a, b, w), t)
<1> DEFINE u == OutOfScratchpad(t, a, w)
           v == OutOfScratchpad(u, b, w)
           r == Exchange(v, t, a, b, w)
<1>0. t \in Tree /\ a \notin Inside(t, b) /\ b \notin Inside(t, a) /\ w \in Workspaces \cup {None}
  BY NoAncestor DEF Fit
<1>1. u \in Tree
  BY <1>0, OutOfScratchpadTame, TameTree
<1> HIDE DEF u
<1>2. v \in Tree
  BY <1>0, <1>1, OutOfScratchpadTame, TameTree
<1> HIDE DEF v
<1>3. ~Undefined(r)
  BY DEF Swap, r, v, u
<1>4. ~Undefined(v)
  BY <1>0, <1>2, <1>3, ExchangeTame, TameDefined
<1>5. ~Undefined(u)
  BY <1>0, <1>1, <1>4, OutOfScratchpadTame, TameDefined DEF v
<1>6. /\ Keeps(u, t) /\ u.life = t.life /\ u.scratch = t.scratch \ {a}
      /\ \A y \in Container : Inside(u, y) \subseteq Inside(t, y)
  BY <1>5, OutOfScratchpadFit DEF u
<1>7. /\ Keeps(v, u) /\ v.life = u.life /\ v.scratch = u.scratch \ {b}
      /\ \A y \in Container : Inside(v, y) \subseteq Inside(u, y)
  BY <1>4, <1>6, OutOfScratchpadFit DEF v, Keeps
<1>8. Keeps(r, v)
  <2>1. Fit(v) /\ v.life[a] = "live" /\ v.life[b] = "live" /\ a \notin v.scratch /\ b \notin v.scratch
        /\ a \notin Inside(v, b) /\ b \notin Inside(v, a)
    BY <1>0, <1>6, <1>7 DEF Keeps
  <2> QED
    BY <1>3, <2>1, ExchangeFit
<1>9. Keeps(r, t)
  BY <1>6, <1>7, <1>8, KeepsOn
<1> QED
  BY <1>9 DEF Swap, r, v, u

(***************************************************************************)
(* Moving in a direction.                                                  *)
(***************************************************************************)

\* What a step of a move makes of a tree: something may have left p.
Steps(r, t, p) == Tame(r, t) /\ (~Undefined(r) => Leaves(r, t, p))

LEMMA LeavesStep ==
  ASSUME NEW t, NEW r, NEW p, Leaves(r, t, p)
  PROVE  Steps(r, t, p)
BY DEF Steps, Leaves

LEMMA BreakSteps ==
  ASSUME NEW t, NEW u, Tame(u, t), NEW p
  PROVE  Steps(Break(u, "null"), t, p)
<1>1. u \in Tree
  BY TameTree
<1>2. Tame(Break(u, "null"), t)
  BY <1>1, BreakQuiet, QuietTame, TameOn DEF Breach
<1> QED
  BY <1>1, <1>2, NullBreaks DEF Steps

\* A container of a workspace, which does not float, may be moved about.
Movable(t, c) ==
  Fit(t) /\ c \in Container /\ t.life[c] = "live" /\ t.ws[c] # None /\ c \notin t.scratch

\* Beside a container of a workspace.
LEMMA BesideAncestorFit ==
  ASSUME NEW t, NEW c, Movable(t, c), NEW x \in Container, t.ws[x] # None,
         x \notin Inside(t, c)
  PROVE  Leaves(BesideAncestor(t, c, x), t, t.parent[c])
<1> DEFINE p == t.parent[x]
           w == t.ws[x]
<1>1. /\ t \in Tree /\ Linked(t) /\ c \in Container /\ Fit(t)
      /\ p \in Splits \cup {None} /\ w \in Workspaces
  BY TreeTypes DEF Fit, Shape, Movable
<1>2. CASE p # None
  <2>1. p \in Splits /\ t.life[p] = "live" /\ p \notin Inside(t, c)
    BY <1>1, <1>2, PlacedLives, InsideChild
  <2>2. BesideAncestor(t, c, x) = AddChild(t, p, c)
    BY <1>2 DEF BesideAncestor
  <2> HIDE DEF p
  <2>3. Moves(AddChild(t, p, c), t, c, p, t.ws[p])
    BY <1>1, <1>2, <2>1, AddChildFit DEF Movable
  <2> QED
    BY <1>1, <1>2, <2>2, <2>3, MovesLeave
<1>3. CASE p = None
  <2> DEFINE u == Leave(t, c)
             r == InTiling(u, w, c)
             n == None
  <2>1. Moves(u, t, c, None, None) /\ Fit(u) /\ Loose(u, c)
    BY <1>1, LeaveFit DEF Movable
  <2> HIDE DEF u
  <2>2. u.life = t.life /\ u.scratch = t.scratch
    BY <1>1, <2>1, MovesOut
  <2>3. BesideAncestor(t, c, x) = r
    BY <1>3 DEF BesideAncestor, InsertTiling, u
  <2> HIDE DEF w
  <2>4. Moves(r, u, c, None, w)
    BY <1>1, <2>1, <2>2, InTilingAt DEF Movable
  <2> HIDE DEF r
  <2>5. n \in Splits \cup {None} /\ Moves(r, u, c, n, w) /\ w # None
    BY <1>1, <2>4, Nothing
  <2> HIDE DEF n
  <2>6. Moves(r, t, c, n, w)
    BY <1>1, <2>1, <2>5, MovesOn
  <2> QED
    BY <1>1, <2>3, <2>5, <2>6, MovesLeave
<1> QED
  BY <1>2, <1>3

LEMMA BesideAncestorTame ==
  ASSUME NEW t \in Tree, NEW c \in Container, NEW x \in Container
  PROVE  Tame(BesideAncestor(t, c, x), t)
<1>1. t.parent[x] \in Splits \cup {None} /\ t.ws[x] \in Workspaces \cup {None}
  BY TreeTypes
<1> QED
  BY <1>1, AddsCalm, CalmTame DEF BesideAncestor

LEMMA SquashSteps ==
  ASSUME NEW t, NEW u, NEW p, Leaves(u, t, p), NEW w \in Workspaces \cup {None}
  PROVE  Steps(Squash(u, w), t, p)
<1>1. Keeps(Squash(u, w), u)
  BY SquashFit DEF Leaves
<1> QED
  BY <1>1, LeavesOn, LeavesStep

LEMMA SquashNowhere ==
  ASSUME NEW t, NEW u, Tame(u, t), NEW p, NEW w, w = None
  PROVE  Steps(Squash(u, w), t, p)
<1>1. Squash(u, w) = Break(u, "null")
  BY DEF Squash
<1> QED
  BY <1>1, BreakSteps

\* At a container of a workspace, or with nothing undone at a hidden one.
LEMMA LandAtFit ==
  ASSUME NEW t, NEW c, Fit(t), c \in Container, NEW x \in Container,
         t.ws[x] # None => Movable(t, c) /\ x \notin Inside(t, c) /\ t.life[x] = "live"
  PROVE  Steps(LandAt(t, c, x), t, t.parent[c])
<1> DEFINE p == t.parent[c]
           w == t.ws[x]
           near == BesideAncestor(t, c, x)
           below == AddChild(t, x, c)
<1>1. t \in Tree /\ w \in Workspaces \cup {None} /\ (x \in Views \/ x \in Splits)
  BY TreeTypes DEF Fit, Container
<1>2. LandAt(t, c, x) \in {t, Squash(near, w)} \cup (IF x \in Splits THEN {Squash(below, w)} ELSE {})
  BY <1>1 DEF LandAt
<1>3. Tame(near, t) /\ (x \in Splits => Tame(below, t))
  BY <1>1, BesideAncestorTame, AddsCalm, CalmTame
<1>4. w # None => Leaves(near, t, p)
  BY BesideAncestorFit
<1>5. w # None /\ x \in Splits => Leaves(below, t, p)
  <2> SUFFICES ASSUME w # None, x \in Splits PROVE Leaves(below, t, p)
    OBVIOUS
  <2>1. Moves(below, t, c, x, t.ws[x])
    BY AddChildFit DEF Movable
  <2> HIDE DEF below
  <2> QED
    BY <2>1, MovesLeave, Nothing
<1> HIDE DEF p, w, near, below
<1>6. Steps(t, t, p)
  BY KeepsSame, KeepsLeaves, LeavesStep
<1>7. Steps(Squash(near, w), t, p)
  BY <1>1, <1>3, <1>4, SquashSteps, SquashNowhere
<1>8. x \in Splits => Steps(Squash(below, w), t, p)
  BY <1>1, <1>3, <1>5, SquashSteps, SquashNowhere
<1> QED
  BY <1>2, <1>6, <1>7, <1>8 DEF p

\* Down from a container d that c is not below, and that is not below c.
LEMMA LandFit ==
  ASSUME NEW t, NEW c, Fit(t), c \in Container, NEW d \in Container,
         t.ws[d] # None => Movable(t, c) /\ Inside(t, d) \cap Inside(t, c) = {},
         NEW axis, NEW r \in Land(t, c, d, axis)
  PROVE  Steps(r, t, t.parent[c])
<1>1. t \in Tree /\ Linked(t) /\ Together(t) /\ Living(t)
  BY DEF Fit, Shape
<1>2. PICK x \in Inside(t, d) : r = LandAt(t, c, x)
  BY DEF Land, Landings
<1>3. x \in Container /\ t.ws[x] = t.ws[d]
  BY <1>1, InsideType, InsideWorkspace
<1>4. t.ws[x] # None => t.life[x] = "live" /\ x \notin Inside(t, c) /\ Movable(t, c)
  BY <1>2, <1>3, PlacedLives
<1> QED
  BY <1>2, <1>3, <1>4, LandAtFit

LEMMA InsertSteps ==
  ASSUME NEW t, NEW c, Movable(t, c), NEW w \in Workspaces
  PROVE  Steps(InsertTiling(t, w, c), t, t.parent[c])
<1> DEFINE r == InsertTiling(t, w, c)
           n == None
<1>1. t \in Tree /\ c \in Container /\ Fit(t)
  BY DEF Movable, Fit
<1>2. Tame(r, t)
  BY <1>1, AddsCalm, CalmTame
<1>3. ASSUME ~Undefined(r) PROVE Leaves(r, t, t.parent[c])
  <2>1. Moves(r, t, c, None, w)
    BY <1>1, <1>3, InsertTilingFit DEF Movable
  <2> HIDE DEF r
  <2>2. n \in Splits \cup {None} /\ Moves(r, t, c, n, w) /\ w # None
    BY <2>1, Nothing
  <2> HIDE DEF n
  <2> QED
    BY <1>1, <2>2, MovesLeave
<1> QED
  BY <1>2, <1>3 DEF Steps

LEMMA LandOnWorkspaceFit ==
  ASSUME NEW t, NEW c, Movable(t, c), NEW w \in Workspaces, w # t.ws[c], NEW axis,
         NEW r \in LandOnWorkspace(t, c, w, axis)
  PROVE  Steps(r, t, t.parent[c])
<1>1. t \in Tree /\ c \in Container /\ Fit(t) /\ Linked(t) /\ Together(t)
  BY DEF Movable, Fit, Shape
<1>2. CASE r = InsertTiling(t, w, c)
  BY <1>2, InsertSteps
<1>3. CASE r = AddTiling(t, w, c)
  <2> DEFINE u == AddTiling(t, w, c)
  <2>1. Tame(u, t)
    BY <1>1, AddTilingTame
  <2>2. ~Undefined(u) => Keeps(u, t)
    BY <1>1, AddTilingFit DEF Movable
  <2> HIDE DEF u
  <2>3. Steps(u, t, t.parent[c])
    BY <2>1, <2>2, KeepsLeaves DEF Steps
  <2> QED
    BY <1>3, <2>3 DEF u
<1>4. CASE \E d \in t.tiling[w] : r \in Land(t, c, d, axis)
  <2>1. PICK d \in t.tiling[w] : r \in Land(t, c, d, axis)
    BY <1>4
  <2>2. d \in Container /\ t.ws[d] = w
    BY <1>1, TilingFacts
  <2>3. Inside(t, d) \cap Inside(t, c) = {}
    BY <1>1, <2>2, InsideWorkspace
  <2> QED
    BY <1>1, <2>1, <2>2, <2>3, LandFit
<1>5. r \in {InsertTiling(t, w, c), AddTiling(t, w, c)} \/
      \E d \in t.tiling[w] : r \in Land(t, c, d, axis)
  BY DEF LandOnWorkspace
<1> QED
  BY <1>2, <1>3, <1>4, <1>5

LEMMA NextOutputFit ==
  ASSUME NEW t, NEW c, Movable(t, c), NEW w, w = t.ws[c], NEW axis,
         NEW r \in NextOutput(t, c, w, axis)
  PROVE  Steps(r, t, t.parent[c])
<1>1. t \in Tree /\ c \in Container /\ Fit(t) /\ t.life[c] = "live"
  BY DEF Movable, Fit
<1>2. PICK x \in Workspaces \ {w} :
        r \in CASE t.mode[c] = "none"      -> LandOnWorkspace(t, c, x, axis)
                [] t.mode[c] = "workspace" -> {MoveToWorkspace(t, c, x)}
                [] OTHER                   -> {}
  BY DEF NextOutput
<1>3. CASE r \in LandOnWorkspace(t, c, x, axis)
  BY <1>3, LandOnWorkspaceFit
<1>4. CASE r = MoveToWorkspace(t, c, x)
  <2>1. Tame(r, t)
    BY <1>1, <1>4, MoveToWorkspaceTame
  <2>2. ~Undefined(r) => Leaves(r, t, t.parent[c])
    BY <1>1, <1>4, MoveToWorkspaceFit
  <2> QED
    BY <2>1, <2>2 DEF Steps
<1> QED
  BY <1>2, <1>3, <1>4

\* To the level of an ancestor.
LEMMA PromoteFit ==
  ASSUME NEW t, NEW c, Movable(t, c), NEW a \in Container, t.ws[a] # None,
         a \notin Inside(t, c), NEW q
  PROVE  Steps(Promote(t, c, a), t, q)
<1> DEFINE u == BesideAncestor(t, c, a)
           v == Reaped(u, t.parent[c])
           r == Squash(v, v.ws[c])
<1>1. t \in Tree /\ c \in Container /\ Fit(t) /\ t.parent[c] \in Container \cup {None}
  BY TreeTypes, Nothing DEF Movable, Fit
<1>2. Leaves(u, t, t.parent[c])
  BY BesideAncestorFit
<1> HIDE DEF u
<1>3. Keeps(v, t)
  BY <1>1, <1>2, LeavesReaped
<1> HIDE DEF v
<1>4. v.ws[c] \in Workspaces \cup {None}
  BY <1>1, <1>3, TreeTypes DEF Keeps, Fit
<1>5. Steps(r, t, q)
  BY <1>3, <1>4, KeepsLeaves, SquashSteps
<1> QED
  BY <1>5 DEF Promote, SquashAround, r, v, u

LEMMA SiblingFacts ==
  ASSUME NEW t, Fit(t), NEW a \in Container, NEW d \in Siblings(t, a)
  PROVE  /\ d \in Container /\ t.parent[d] = t.parent[a] /\ t.ws[d] = t.ws[a]
         /\ d # a => Inside(t, d) \cap Inside(t, a) = {}
<1>1. t \in Tree /\ Linked(t) /\ Together(t) /\ Rooted(t)
  BY DEF Fit, Shape
<1>2. d \in Container /\ t.parent[d] = t.parent[a] /\ t.ws[d] = t.ws[a]
  <2>1. CASE t.parent[a] # None
    <3>1. d \in t.kids[t.parent[a]] /\ t.parent[a] \in Splits
      BY <1>1, <2>1, TreeTypes DEF Siblings
    <3>2. d \in Container
      BY <1>1, <3>1, TreeTypes
    <3> QED
      BY <1>1, <2>1, <3>1, <3>2 DEF Linked, Together
  <2>2. CASE t.parent[a] = None /\ t.ws[a] # None
    <3> DEFINE w == t.ws[a]
    <3>1. w \in Workspaces /\ d \in t.tiling[w] \cup t.floating[w]
      BY <1>1, <2>2, TreeTypes DEF Siblings
    <3>2. d \in Container
      BY <1>1, <3>1, TreeTypes
    <3> QED
      BY <1>1, <2>2, <3>1, <3>2 DEF Linked
  <2>3. CASE t.parent[a] = None /\ t.ws[a] = None
    BY <2>3 DEF Siblings
  <2> QED
    BY <2>1, <2>2, <2>3
<1>3. d # a => Inside(t, d) \cap Inside(t, a) = {}
  BY <1>1, <1>2, Apart
<1> QED
  BY <1>2, <1>3

\* The nearest stop is an ancestor, and has what a stop has.
LEMMA StopFacts ==
  ASSUME NEW t, Fit(t), NEW c \in Container, NEW axis, Stops(t, c, axis) # {}
  PROVE  LET a == Nearest(t, Stops(t, c, axis))
         IN  /\ a \in Stops(t, c, axis) /\ a \in Splits /\ a \in Container /\ a # c
             /\ c \in Inside(t, a) /\ a \notin Inside(t, c) /\ t.ws[a] = t.ws[c]
             /\ t.life[c] = "live" => t.life[a] = "live"
<1> DEFINE S == Stops(t, c, axis)
           a == Nearest(t, S)
<1>1. t \in Tree /\ Linked(t) /\ Together(t) /\ Rooted(t) /\ Living(t)
  BY DEF Fit, Shape
<1>2. S \in SUBSET Container /\ \A x \in S : c \in Inside(t, x) /\ x \in Splits /\ x # c
  BY DEF Stops, HasAncestor
<1> HIDE DEF S
<1>3. a \in S
  BY <1>1, <1>2, NearestExists DEF S
<1> HIDE DEF a
<1>4. a \in Container /\ c \in Inside(t, a) /\ a \in Splits /\ a # c
  BY <1>2, <1>3
<1>5. a \notin Inside(t, c)
  BY <1>1, <1>4, InsideBoth
<1>6. t.ws[a] = t.ws[c]
  BY <1>1, <1>4, InsideWorkspace
<1>7. t.life[c] = "live" => t.life[a] = "live"
  BY <1>1, <1>4, InsideLive
<1> QED
  BY <1>3, <1>4, <1>5, <1>6, <1>7 DEF a, S

LEMMA BeyondCases ==
  ASSUME NEW t, NEW c, NEW a, NEW axis, NEW r \in Beyond(t, c, a, axis)
  PROVE  \/ \E d \in Siblings(t, a) \ {a} : r \in Land(t, c, d, axis)
         \/ /\ t.parent[t.parent[c]] = None /\ t.kids[t.parent[c]] = {c}
            /\ r \in NextOutput(t, c, t.ws[a], axis)
         \/ r = Promote(t, c, a)
<1> DEFINE p == t.parent[c]
           A == {Land(t, c, d, axis) : d \in Siblings(t, a) \ {a}}
           B == IF t.parent[p] = None /\ t.kids[p] = {c}
                  THEN NextOutput(t, c, t.ws[a], axis) ELSE {Promote(t, c, a)}
<1>1. Beyond(t, c, a, axis) = (UNION A) \cup B
  BY DEF Beyond
<1>2. r \in UNION A => \E d \in Siblings(t, a) \ {a} : r \in Land(t, c, d, axis)
  OBVIOUS
<1>3. r \in B => \/ /\ t.parent[p] = None /\ t.kids[p] = {c}
                    /\ r \in NextOutput(t, c, t.ws[a], axis)
                 \/ r = Promote(t, c, a)
  OBVIOUS
<1> HIDE DEF A, B
<1> QED
  BY <1>1, <1>2, <1>3

\* Beyond an ancestor, on a workspace.
LEMMA BeyondFit ==
  ASSUME NEW t, NEW c, Movable(t, c), NEW a \in Container, c \in Inside(t, a),
         a \notin Inside(t, c), t.ws[a] = t.ws[c], NEW axis, NEW r \in Beyond(t, c, a, axis)
  PROVE  Steps(r, t, t.parent[c])
<1>1. t \in Tree /\ c \in Container /\ Fit(t) /\ t.ws[c] # None
  BY DEF Movable, Fit
<1>2. CASE \E d \in Siblings(t, a) \ {a} : r \in Land(t, c, d, axis)
  <2>1. PICK d \in Siblings(t, a) \ {a} : r \in Land(t, c, d, axis)
    BY <1>2
  <2>2. d \in Container /\ Inside(t, d) \cap Inside(t, a) = {}
    BY <1>1, SiblingFacts
  <2>3. Inside(t, c) \subseteq Inside(t, a)
    BY <1>1, InsideTrans
  <2>4. Inside(t, d) \cap Inside(t, c) = {}
    BY <2>2, <2>3
  <2> QED
    BY <1>1, <2>1, <2>2, <2>4, LandFit
<1>3. CASE r \in NextOutput(t, c, t.ws[a], axis)
  BY <1>3, NextOutputFit
<1>4. CASE r = Promote(t, c, a)
  BY <1>1, <1>4, PromoteFit
<1> QED
  BY <1>2, <1>3, <1>4, BeyondCases

Wrapped(t, w, n, axis) == [WrapChildren(t, w, n) EXCEPT !.layout[w] = axis]

\* The children of the workspace are wrapped and the container promoted.
LEMMA WrappedFit ==
  ASSUME NEW t, NEW c, Movable(t, c), ~IsFloating(t, c), NEW axis \in {"horiz", "vert"},
         NEW w, w = t.ws[c], NEW n \in Splits, t.life[n] = "unused", Stops(t, c, axis) = {},
         NEW q
  PROVE  Steps(Promote(Wrapped(t, w, n, axis), c, n), t, q)
<1> DEFINE u == WrapChildren(t, w, n)
           v == Wrapped(t, w, n, axis)
           top == Toplevel(t, c)
           r == Promote(v, c, n)
<1>1. t \in Tree /\ c \in Container /\ Fit(t) /\ w \in Workspaces /\ t.life[c] = "live"
      /\ c \notin t.scratch
  BY TreeTypes DEF Movable, Fit
<1>2. top \in Container /\ t.parent[top] = None /\ c \in Inside(t, top) /\ t.ws[top] = w
  BY <1>1, ToplevelPlace
<1> HIDE DEF top
<1>3. top \in t.tiling[w]
  <2> SUFFICES ASSUME top \notin t.tiling[w] PROVE FALSE
    OBVIOUS
  <2>1. top \in t.floating[w]
    BY <1>1, <1>2 DEF Fit, Shape, Linked
  <2>2. IsFloating(t, top)
    BY <1>1, <1>2, <2>1, Nothing DEF IsFloating
  <2>3. top # c /\ top \in Splits
    BY <1>1, <1>2, <2>2, InsideAlone DEF Container
  <2>4. top \in Stops(t, c, axis)
    BY <1>2, <2>2, <2>3 DEF Stops, HasAncestor, Blocked
  <2> QED
    BY <2>4
<1>4. /\ Keeps(u, t) /\ u.parent[n] = None /\ u.ws[n] = w /\ u.life[n] = "live"
      /\ u.scratch = t.scratch /\ u.ws[c] # None /\ u.life[c] = "live"
  <2>1. /\ Keeps(u, t) /\ u.parent[n] = None /\ u.ws[n] = w /\ u.life[n] = "live"
        /\ u.scratch = t.scratch
        /\ \A y \in t.tiling[w] : \A x \in Inside(t, y) : u.ws[x] # None
        /\ \A x \in Container \ {n} : u.life[x] = t.life[x]
    BY <1>1, <1>3, WrapChildrenFit
  <2> HIDE DEF u
  <2>2. c # n
    BY <1>1
  <2> QED
    BY <1>1, <1>2, <1>3, <2>1, <2>2
<1>5. v = [u EXCEPT !.layout[w] = axis]
  BY DEF Wrapped
<1> HIDE DEF u, v
<1>6. Quiet(v, u)
  <2>1. u \in Tree /\ axis \in {"horiz", "vert", "tabbed", "stacked"} /\ w \in Splits \cup Workspaces
    BY <1>1, <1>4 DEF Keeps, Fit
  <2> QED
    BY <1>5, <2>1, FieldQuiet
<1>7. Keeps(v, t) /\ Same(v, u)
  BY <1>4, <1>6, QuietKeeps, KeepsOn DEF Keeps, Quiet
<1>8. /\ v.parent[n] = None /\ v.ws[n] = w /\ v.life[n] = "live"
      /\ v.scratch = t.scratch /\ v.ws[c] # None /\ v.life[c] = "live" /\ Fit(v)
  BY <1>4, <1>7 DEF Same, Keeps
<1>9. n \in Container /\ c # n /\ n \notin Inside(v, c) /\ w # None
  BY <1>1, <1>8, RootIsApart, Nothing DEF RootsApart
<1>10. Movable(v, c)
  BY <1>1, <1>8 DEF Movable
<1>11. Steps(r, v, q)
  BY <1>8, <1>9, <1>10, PromoteFit
<1> HIDE DEF r
<1>12. Tame(r, t) /\ (~Undefined(r) => Leaves(r, t, q))
  BY <1>7, <1>11, TameOn, KeepsLeaves, LeavesOn DEF Steps, Keeps, Leaves
<1> QED
  BY <1>12 DEF Steps, r, v

\* A container of a hidden tree, below its root.
Buried(t, c) ==
  Fit(t) /\ Lost(t) = {} /\ c \in Container /\ t.life[c] = "live"
  /\ t.ws[c] = None /\ t.parent[c] # None

\* Up to an ancestor in a hidden tree: undefined.
LEMMA BuriedPromote ==
  ASSUME NEW t, NEW c, Buried(t, c), NEW a \in Container, t.life[a] = "live",
         t.ws[a] = None, ~Blocked(t, a)
  PROVE  Steps(Promote(t, c, a), t, t.parent[c])
<1> DEFINE p == t.parent[c]
           q == t.parent[a]
           u == InSplit(t, q, c)
<1>1. /\ t \in Tree /\ Fit(t) /\ c \in Container /\ Linked(t) /\ Together(t)
      /\ p \in Splits /\ p \in Container /\ q \in Splits \cup {None} /\ t.ws[c] = None
  BY TreeTypes, Nothing DEF Buried, Fit, Shape
<1>2. q # None
  BY DEF Buried, Lost, Blocked, IsFloating
<1>3. q \in Splits /\ t.ws[q] = None
  BY <1>1, <1>2 DEF Together
<1>4. BesideAncestor(t, c, a) = u
  BY <1>1, <1>2 DEF BesideAncestor, AddChild, Leave
<1>5. c \in t.kids[p]
  BY <1>1 DEF Linked
<1> HIDE DEF p, q
<1>6. /\ Calm(u, t) /\ u.kids = More(t.kids, q, c)
      /\ u.ws = [x \in Container |-> IF x \in Inside(u, c) THEN t.ws[q] ELSE t.ws[x]]
  BY <1>1, <1>3, InSplitFields
<1> HIDE DEF u
<1>7. u \in Tree /\ Tame(u, t)
  BY <1>6, CalmTree, CalmTame
<1>8. u.ws[c] = None
  BY <1>1, <1>3, <1>6
<1>9. u.kids[p] # {}
  <2>1. t.kids \in [Splits -> SUBSET Container]
    BY <1>1 DEF Tree
  <2> QED
    BY <1>1, <1>3, <1>5, <1>6, <2>1 DEF More
<1>10. Reaped(u, p) = u
  BY <1>1, <1>7, <1>9, ReapNothing DEF Reaped
<1>11. Promote(t, c, a) = Squash(u, u.ws[c])
  BY <1>4, <1>10 DEF Promote, SquashAround, p
<1> QED
  BY <1>7, <1>8, <1>11, SquashNowhere

\* Beyond an ancestor in a hidden tree.
LEMMA BuriedBeyond ==
  ASSUME NEW t, NEW c, Buried(t, c), NEW axis, Stops(t, c, axis) # {},
         NEW a, a = Nearest(t, Stops(t, c, axis)), ~Blocked(t, a),
         NEW r \in Beyond(t, c, a, axis)
  PROVE  Steps(r, t, t.parent[c])
<1> DEFINE p == t.parent[c]
<1>1. /\ t \in Tree /\ Fit(t) /\ c \in Container /\ Linked(t) /\ Together(t) /\ Rooted(t)
      /\ t.ws[c] = None /\ t.life[c] = "live" /\ Lost(t) = {}
  BY DEF Buried, Fit, Shape
<1>2. /\ a \in Stops(t, c, axis) /\ a \in Container /\ a # c
      /\ c \in Inside(t, a) /\ t.ws[a] = None /\ t.life[a] = "live"
  BY <1>1, StopFacts
<1>3. CASE \E d \in Siblings(t, a) \ {a} : r \in Land(t, c, d, axis)
  <2>1. PICK d \in Siblings(t, a) \ {a} : r \in Land(t, c, d, axis)
    BY <1>3
  <2>2. d \in Container /\ t.ws[d] = None
    BY <1>1, <1>2, SiblingFacts
  <2> QED
    BY <1>1, <2>1, <2>2, LandFit
<1>4. CASE t.parent[p] = None
  <2>1. p \in Splits /\ p \in Container /\ p \in Inside(t, a)
    BY <1>1, <1>2, InsideParent, Nothing
  <2>2. p = a
    BY <1>1, <1>2, <1>4, <2>1, InsideParent, Nothing
  <2>3. t.ws[p] = None /\ t.life[p] = "live"
    BY <1>2, <2>2
  <2>4. p \in t.scratch
    BY <1>1, <1>4, <2>1, <2>3 DEF Lost
  <2>5. Blocked(t, a)
    BY <2>2, <2>4 DEF Blocked, IsFloating
  <2> QED
    BY <2>5
<1>5. CASE r = Promote(t, c, a)
  BY <1>2, <1>5, BuriedPromote
<1> QED
  BY <1>3, <1>4, <1>5, BeyondCases

LEMMA DirectionCases ==
  ASSUME NEW t, NEW c, NEW axis, NEW n, NEW r \in MoveInDirection(t, c, axis, n)
  PROVE  LET stops == Stops(t, c, axis)
             a == Nearest(t, stops)
         IN  \/ \E d \in Siblings(t, c) \ {c} : r \in Land(t, c, d, axis)
             \/ t.ws[c] = None /\ r = Break(t, "null")
             \/ t.ws[c] # None /\ r \in NextOutput(t, c, t.ws[c], axis)
             \/ stops # {} /\ ~Blocked(t, a) /\ r \in Beyond(t, c, a, axis)
             \/ stops = {} /\ n # None /\ r = Promote(Wrapped(t, t.ws[c], n, axis), c, n)
<1> DEFINE w     == t.ws[c]
           level == IsParallel(ParentLayout(t, c), axis)
           stops == Stops(t, c, axis)
           a     == Nearest(t, stops)
           wrapped == [WrapChildren(t, w, n) EXCEPT !.layout[w] = axis]
           climbs == t.mode[c] = "none" /\ ~(level /\ t.parent[c] = None)
           out    == t.mode[c] = "workspace" \/ (t.mode[c] = "none" /\ ~climbs)
           L == {Land(t, c, d, axis) : d \in Siblings(t, c) \ {c}}
           A == IF t.mode[c] = "none" /\ level THEN UNION L ELSE {}
           B == CASE ~out -> {}
                  [] out /\ w = None -> {Break(t, "null")}
                  [] OTHER -> NextOutput(t, c, w, axis)
           C == CASE ~climbs \/ (stops # {} /\ Blocked(t, a)) -> {}
                  [] climbs /\ stops # {} /\ ~Blocked(t, a) -> Beyond(t, c, a, axis)
                  [] OTHER -> IF n = None THEN {} ELSE {Promote(wrapped, c, n)}
<1>1. MoveInDirection(t, c, axis, n) = UNION {A, B, C}
  BY DEF MoveInDirection
<1> HIDE DEF w, level, stops, a, wrapped, climbs, out
<1>2. r \in A => \E d \in Siblings(t, c) \ {c} : r \in Land(t, c, d, axis)
  OBVIOUS
<1>3. r \in B => (w = None /\ r = Break(t, "null")) \/ (w # None /\ r \in NextOutput(t, c, w, axis))
  BY DEF out
<1>4. r \in C => \/ stops # {} /\ ~Blocked(t, a) /\ r \in Beyond(t, c, a, axis)
                 \/ stops = {} /\ n # None /\ r = Promote(wrapped, c, n)
  BY DEF climbs
<1> HIDE DEF A, B, C
<1>5. r \in A \/ r \in B \/ r \in C
  BY <1>1
<1> QED
  BY <1>2, <1>3, <1>4, <1>5 DEF w, stops, a, wrapped, Wrapped

\* Wherever the move ends, the container has left no more than its parent.
LEMMA DirectionFit ==
  ASSUME NEW t, Fit(t), Lost(t) = {}, NEW c \in Container, t.life[c] = "live",
         ~IsFloating(t, c), NEW axis \in {"horiz", "vert"},
         NEW n \in Splits \cup {None}, n # None => t.life[n] = "unused",
         NEW r \in MoveInDirection(t, c, axis, n)
  PROVE  Steps(r, t, t.parent[c])
<1> DEFINE stops == Stops(t, c, axis)
           a == Nearest(t, stops)
<1>1. t \in Tree /\ c \notin t.scratch /\ Tame(t, t)
  BY TameSame DEF Fit, IsFloating
<1>2. /\ t.ws[c] # None => Movable(t, c)
      /\ t.ws[c] = None => Buried(t, c)
  BY <1>1 DEF Movable, Buried, Lost
<1>3. CASE \E d \in Siblings(t, c) \ {c} : r \in Land(t, c, d, axis)
  <2>1. PICK d \in Siblings(t, c) \ {c} : r \in Land(t, c, d, axis)
    BY <1>3
  <2>2. d \in Container /\ t.ws[d] = t.ws[c] /\ Inside(t, d) \cap Inside(t, c) = {}
    BY <2>1, SiblingFacts
  <2> QED
    BY <1>2, <2>1, <2>2, LandFit
<1>4. CASE t.ws[c] = None /\ r = Break(t, "null")
  BY <1>1, <1>4, BreakSteps
<1>5. CASE t.ws[c] # None /\ r \in NextOutput(t, c, t.ws[c], axis)
  BY <1>2, <1>5, NextOutputFit
<1>6. CASE stops # {} /\ ~Blocked(t, a) /\ r \in Beyond(t, c, a, axis)
  <2>1. a \in Container /\ c \in Inside(t, a) /\ a \notin Inside(t, c) /\ t.ws[a] = t.ws[c]
    BY <1>6, StopFacts
  <2>2. CASE t.ws[c] # None
    BY <1>2, <1>6, <2>1, <2>2, BeyondFit
  <2>3. CASE t.ws[c] = None
    BY <1>2, <1>6, <2>3, BuriedBeyond
  <2> QED
    BY <2>2, <2>3
<1>7. CASE stops = {} /\ n # None /\ r = Promote(Wrapped(t, t.ws[c], n, axis), c, n)
  <2>1. t.ws[c] # None
    <3> SUFFICES ASSUME t.ws[c] = None PROVE FALSE
      OBVIOUS
    <3> DEFINE top == Toplevel(t, c)
    <3>1. /\ top \in Container /\ t.parent[top] = None /\ c \in Inside(t, top)
          /\ t.ws[top] = None /\ t.life[top] = "live"
      BY ToplevelPlace
    <3> HIDE DEF top
    <3>2. top \in t.scratch /\ top # c
      BY <1>1, <3>1 DEF Lost
    <3>3. top \in Splits
      BY <1>1, <3>1, <3>2, InsideAlone
    <3>4. top \in stops
      BY <3>1, <3>2, <3>3 DEF Stops, HasAncestor, Blocked, IsFloating
    <3> QED
      BY <1>7, <3>4
  <2> QED
    BY <1>2, <1>7, <2>1, WrappedFit
<1> QED
  BY <1>3, <1>4, <1>5, <1>6, <1>7, DirectionCases

(***************************************************************************)
(* The handlers.                                                           *)
(***************************************************************************)

\* What a handler makes of a tree: it is undefined, or every container is
\* still in one place.
Handles(r, t) == Tame(r, t) /\ (~Undefined(r) => Keeps(r, t))

LEMMA KeepsHandles ==
  ASSUME NEW t, NEW r, Keeps(r, t)
  PROVE  Handles(r, t)
BY DEF Handles, Keeps

LEMMA QuietHandles ==
  ASSUME NEW t, Fit(t), NEW r, Quiet(r, t)
  PROVE  Handles(r, t)
BY QuietKeeps, KeepsHandles

LEMMA BreakHandles ==
  ASSUME NEW t, NEW u, Tame(u, t), NEW how \in {"null", "freed"}
  PROVE  Handles(Break(u, how), t)
<1>1. u \in Tree
  BY TameTree
<1>2. Tame(Break(u, how), t)
  BY <1>1, BreakQuiet, QuietTame, TameOn DEF Breach
<1> QED
  BY <1>1, <1>2, NullBreaks DEF Handles

\* Two parts of a handler.
LEMMA HandlesOn ==
  ASSUME NEW t, NEW u, NEW r, Handles(u, t), Tame(r, u), ~Undefined(u) => Handles(r, u)
  PROVE  Handles(r, t)
<1>1. Tame(r, t)
  BY TameOn DEF Handles
<1>2. ~Undefined(r) => Keeps(r, t)
  BY TameDefined, KeepsOn DEF Handles
<1> QED
  BY <1>1, <1>2 DEF Handles

LEMMA StepsHandled ==
  ASSUME NEW t, NEW r, NEW p \in Container \cup {None}, Steps(r, t, p)
  PROVE  Handles(Reaped(r, p), t)
<1>1. r \in Tree /\ Tame(r, t)
  BY TameTree DEF Steps
<1>2. Tame(Reaped(r, p), r) /\ Tame(Reaped(r, p), t)
  BY <1>1, ReapedTame, TameOn
<1>3. ~Undefined(Reaped(r, p)) => Leaves(r, t, p)
  BY <1>2, TameDefined DEF Steps
<1> QED
  BY <1>2, <1>3, LeavesReaped DEF Handles

\* The quiet end of a handler.
LEMMA QuietEnd ==
  ASSUME NEW t, NEW u, NEW r, Handles(u, t), Quiet(r, u)
  PROVE  Handles(r, t)
<1>1. Tame(r, u)
  BY QuietTame
<1>2. ~Undefined(u) => Handles(r, u)
  BY QuietHandles DEF Handles, Keeps
<1> QED
  BY <1>1, <1>2, HandlesOn

LEMMA DirectionHandled ==
  ASSUME NEW t, Fit(t), Lost(t) = {}, NEW c \in Container, t.life[c] = "live",
         ~IsFloating(t, c), NEW axis \in {"horiz", "vert"}, NEW n \in OneOf(Unused(t)),
         NEW r \in MoveInDirection(t, c, axis, n)
  PROVE  Handles(EndMouseOperation(Reaped(r, t.parent[c]), c), t)
<1> DEFINE p == t.parent[c]
           u == Reaped(r, p)
<1>1. t \in Tree /\ p \in Container \cup {None}
  BY TreeTypes, Nothing DEF Fit
<1>2. n \in Splits \cup {None} /\ (n # None => t.life[n] = "unused")
  BY DEF OneOf, Unused
<1>3. Steps(r, t, p)
  BY <1>2, DirectionFit
<1>4. Handles(u, t)
  BY <1>1, <1>3, StepsHandled
<1> HIDE DEF u
<1>5. u \in Tree
  BY <1>4, TameTree DEF Handles
<1> QED
  BY <1>4, <1>5, EndMouseQuiet, QuietEnd DEF u

\* A view comes to life, and is in no place yet.
LEMMA BornFit ==
  ASSUME NEW t, Fit(t), NEW c \in Views, t.life[c] = "unused"
  PROVE  LET r == [t EXCEPT !.life[c] = "live"]
         IN  /\ Fit(r) /\ Tame(r, t) /\ Loose(r, c) /\ c \notin r.scratch /\ r.life[c] = "live"
             /\ \A x \in Container : t.life[x] = "live" => r.life[x] = "live"
             /\ Lost(r) \subseteq Lost(t) \cup {c} /\ Empty(r) = Empty(t)
             /\ Alike(r, t)
<1> DEFINE l == [t.life EXCEPT ![c] = "live"]
           r == [t EXCEPT !.life = l]
<1>1. t \in Tree /\ c \in Container /\ c \notin Splits
  BY Nothing DEF Fit
<1>2. l \in [Container -> Life] /\ l[c] = "live" /\ \A x \in Container \ {c} : l[x] = t.life[x]
  BY <1>1 DEF Tree, Life
<1>3. [t EXCEPT !.life[c] = "live"] = r
  BY <1>1 DEF Tree
<1> HIDE DEF l
<1>4. /\ r \in Tree /\ r.life = l /\ r.parent = t.parent /\ r.ws = t.ws /\ r.kids = t.kids
      /\ r.tiling = t.tiling /\ r.floating = t.floating /\ r.scratch = t.scratch
      /\ r.mode = t.mode /\ r.global = t.global /\ r.op = t.op /\ r.broken = t.broken
  BY <1>1, <1>2 DEF Tree
<1> HIDE DEF r
<1>5. Alike(r, t) /\ \A x : Inside(r, x) = Inside(t, x)
  BY <1>4, InsideKids DEF Alike
<1>6. Loose(t, c) /\ c \notin t.scratch
  BY <1>1, PlacedLives DEF Loose
<1>7. Shape(r)
  <2>1. Linked(r)
    BY <1>4 DEF Fit, Shape, Linked
  <2>2. Together(r)
    BY <1>4 DEF Fit, Shape, Together
  <2>3. Rooted(r)
    BY <1>4, <1>5 DEF Fit, Shape, Rooted
  <2>4. Living(r)
    <3> SUFFICES ASSUME NEW x \in Container
                 PROVE  /\ r.parent[x] # None \/ r.ws[x] # None \/ x \in r.scratch
                             => r.life[x] = "live"
                        /\ r.parent[x] # None => r.life[r.parent[x]] = "live"
      BY DEF Living
    <3>1. t.parent[x] # None => t.parent[x] \in Container /\ t.life[t.parent[x]] = "live"
      BY PlacedLives
    <3>2. t.parent[x] # None \/ t.ws[x] # None \/ x \in t.scratch => t.life[x] = "live"
      BY PlacedLives
    <3> QED
      BY <1>2, <1>4, <3>1, <3>2
  <2>5. Shelved(r)
    BY <1>4 DEF Fit, Shape, Shelved
  <2> QED
    BY <2>1, <2>2, <2>3, <2>4, <2>5 DEF Shape
<1>8. Fit(r) /\ Tame(r, t)
  <2>1. Local(r)
    BY <1>4 DEF Fit, Local
  <2>2. Operands(r) = Operands(t) /\ Operands(t) \subseteq Container
    BY <1>1, <1>4, TreeTypes DEF Operands, SeatOp
  <2>3. Carries(r, t)
    BY <1>2, <1>4, <2>2 DEF Carries, Minds, Goes
  <2> QED
    BY <1>4, <1>7, <2>1, <2>3 DEF Fit, Tame
<1>9. \A x \in Container : t.life[x] = "live" => r.life[x] = "live"
  BY <1>2, <1>4
<1>10. Lost(r) \subseteq Lost(t) \cup {c}
  BY <1>2, <1>4 DEF Lost
<1>11. Empty(r) = Empty(t)
  BY <1>1, <1>2, <1>4, Nothing DEF Empty
<1>12. Loose(r, c) /\ c \notin r.scratch /\ r.life[c] = "live"
  BY <1>2, <1>4, <1>6 DEF Loose
<1> QED
  BY <1>3, <1>5, <1>8, <1>9, <1>10, <1>11, <1>12

\* Next to a sibling, or on a workspace.
MapPlace(t, c, w, ref) == IF ref = None THEN AddTiling(t, w, c) ELSE AddSibling(t, ref, c)

LEMMA MapPlaceHandled ==
  ASSUME NEW t, Fit(t), NEW c \in Views, t.life[c] = "unused", NEW w \in Workspaces,
         NEW ref \in Container \cup {None}, ref # None => t.life[ref] = "live"
  PROVE  LET u == [t EXCEPT !.life[c] = "live"]
         IN  Handles(MapPlace(u, c, w, ref), t)
<1> DEFINE u == [t EXCEPT !.life[c] = "live"]
           r == MapPlace(u, c, w, ref)
<1>1. c \in Container /\ c \notin Splits /\ w # None
  BY Nothing
<1>2. /\ Fit(u) /\ Tame(u, t) /\ Loose(u, c) /\ c \notin u.scratch /\ u.life[c] = "live"
      /\ Lost(u) \subseteq Lost(t) \cup {c} /\ Empty(u) = Empty(t)
  BY BornFit
<1> HIDE DEF u
<1>3. u \in Tree /\ Inside(u, c) = {c} /\ u.parent[c] = None
  BY <1>1, <1>2, InsideAlone DEF Fit, Loose
<1>4. Tame(r, u)
  BY <1>1, <1>3, AddTilingTame, AddsCalm, CalmTame DEF MapPlace
<1>5. ASSUME ~Undefined(r) PROVE Keeps(r, t)
  <2>1. \E p \in Splits \cup {None}, v \in Workspaces \cup {None} :
          Moves(r, u, c, p, v) /\ (p # None \/ v # None)
    <3>1. CASE ref = None
      <4>1. r = AddTiling(u, w, c)
        BY <3>1 DEF MapPlace
      <4> HIDE DEF r
      <4>2. Moves(r, u, c, None, w)
        BY <1>1, <1>2, <1>5, <4>1, AddTilingLoose
      <4> QED
        BY <1>1, <4>2
    <3>2. CASE ref # None
      <4>1. r = AddSibling(u, ref, c) /\ ref \in Container /\ ref # c
        BY <3>2 DEF MapPlace
      <4> HIDE DEF r
      <4>2. /\ Moves(r, u, c, u.parent[ref], u.ws[ref])
            /\ u.parent[ref] # None \/ u.ws[ref] # None
        BY <1>1, <1>2, <1>3, <1>5, <4>1, AddSiblingFit DEF Loose
      <4>3. u.parent[ref] \in Splits \cup {None} /\ u.ws[ref] \in Workspaces \cup {None}
        BY <1>3, <4>1, TreeTypes
      <4> QED
        BY <4>2, <4>3
    <3> QED
      BY <3>1, <3>2
  <2> HIDE DEF r
  <2>2. PICK p \in Splits \cup {None}, v \in Workspaces \cup {None} :
          Moves(r, u, c, p, v) /\ (p # None \/ v # None)
    BY <2>1
  <2>3. Leaves(r, u, None) /\ c \notin Lost(r)
    BY <1>1, <1>2, <1>3, <2>2, MovesLeave
  <2>4. Fit(r) /\ Lost(r) \subseteq Lost(t) /\ Empty(r) \subseteq Empty(t)
    BY <1>2, <2>3, Nothing DEF Leaves, Empty
  <2> QED
    BY <1>2, <1>4, <2>4, TameOn DEF Keeps
<1> QED
  BY <1>2, <1>4, <1>5, TameOn DEF Handles, r, u

LEMMA FloatsHandled ==
  ASSUME NEW t, Fit(t), NEW c \in Container
  PROVE  Handles(Floats(t, c), t)
<1> DEFINE r == Floats(t, c)
           b == TRUE
           n == None
<1>1. t \in Tree
  BY DEF Fit
<1>2. Tame(r, t)
  <2>1. b \in BOOLEAN /\ n \in Container \cup {None} /\ r = SetFloating(t, c, b, n)
    BY DEF Floats
  <2> HIDE DEF b, n, r
  <2> QED
    BY <1>1, <2>1, SetFloatingTame
<1>3. ~Undefined(r) => Keeps(r, t)
  BY FloatsFit
<1> QED
  BY <1>2, <1>3 DEF Handles

LEMMA TilesHandled ==
  ASSUME NEW t, Fit(t), NEW c \in Container, NEW ref \in Container \cup {None},
         ref # None => t.life[ref] = "live" /\ ref \notin Inside(t, c), t.life[c] = "live"
  PROVE  Handles(Tiles(t, c, ref), t)
<1> DEFINE r == Tiles(t, c, ref)
           b == FALSE
<1>1. t \in Tree
  BY DEF Fit
<1>2. Tame(r, t)
  <2>1. b \in BOOLEAN /\ r = SetFloating(t, c, b, ref)
    BY DEF Tiles
  <2> HIDE DEF b, r
  <2> QED
    BY <1>1, <2>1, SetFloatingTame
<1>3. ~Undefined(r) => Keeps(r, t)
  BY TilesFit
<1> QED
  BY <1>2, <1>3 DEF Handles

LEMMA FloatsTame ==
  ASSUME NEW t \in Tree, NEW c \in Container
  PROVE  Tame(Floats(t, c), t)
<1> DEFINE b == TRUE
           n == None
           r == SetFloating(t, c, b, n)
<1>1. b \in BOOLEAN /\ n \in Container \cup {None} /\ r = Floats(t, c)
  BY DEF Floats
<1> HIDE DEF b, n
<1> QED
  BY <1>1, SetFloatingTame

\* The quiet end of mapping: the parent of a dialog leaves fullscreen, and
\* the view enters it.
MapEnd(t, c, leave, mode) == SetModeIfAny(AfterMapping(t, c, leave), c, mode)

LEMMA MapEndQuiet ==
  ASSUME NEW t \in Tree, NEW c \in Container, NEW leave, NEW mode \in {"none", "workspace"}
  PROVE  Quiet(MapEnd(t, c, leave, mode), t)
<1> DEFINE w == t.ws[c]
           u == TellParent(t, w, leave)
<1>1. w \in Workspaces \cup {None} /\ mode \in Mode /\ mode # "global" /\ "none" \in Mode
      /\ Views \subseteq Container
  BY TreeTypes, Nothing DEF Mode
<1> HIDE DEF w
<1>2. Quiet(u, t)
  <2>1. CASE u = t
    BY <2>1, QuietSame
  <2>2. CASE w # None /\ t.fs[w] \in Views /\ u = SetFullscreen(t, t.fs[w], "none")
    <3> DEFINE x == t.fs[w]
               m == "none"
    <3>1. x \in Container /\ m \in Mode /\ m # "global" /\ u = SetFullscreen(t, x, m)
      BY <1>1, <2>2
    <3> HIDE DEF x, m
    <3> QED
      BY <3>1, SetFullscreenQuiet
  <2> QED
    BY <2>1, <2>2 DEF TellParent
<1> HIDE DEF u
<1>3. u \in Tree
  BY <1>2, QuietTree
<1>4. Quiet(SetModeIfAny(u, c, mode), u)
  BY <1>1, <1>3, SetModeHushed
<1> QED
  BY <1>2, <1>4, QuietOn DEF MapEnd, AfterMapping, u, w

\* Mapping keeps every container in one place.
LEMMA MapHandled ==
  ASSUME NEW t, Fit(t), NEW c \in Views, t.life[c] = "unused", NEW w \in Workspaces,
         NEW ref \in Container \cup {None}, ref # None => t.life[ref] = "live",
         NEW floats \in BOOLEAN, NEW leave \in BOOLEAN, NEW full \in BOOLEAN
  PROVE  Handles(Mapped([t EXCEPT !.life[c] = "live"], c, w, ref, floats, leave, full), t)
<1> DEFINE u == [t EXCEPT !.life[c] = "live"]
           v == MapPlace(u, c, w, ref)
           f == IF floats THEN Floats(v, c) ELSE v
           mode == IF full THEN "workspace" ELSE "none"
           r == MapEnd(f, c, leave, mode)
<1>1. c \in Container /\ mode \in {"none", "workspace"}
  BY Nothing
<1>2. Handles(v, t)
  BY MapPlaceHandled
<1>3. Mapped(u, c, w, ref, floats, leave, full) = r
  BY DEF Mapped, FloatIf, Floats, MapEnd, MapPlace
<1> HIDE DEF u, v, mode
<1>4. v \in Tree
  BY <1>2, TameTree DEF Handles
<1>5. Handles(f, t)
  <2>1. Tame(f, v)
    BY <1>1, <1>4, FloatsTame, TameSame
  <2>2. ~Undefined(v) => Handles(f, v)
    <3> SUFFICES ASSUME ~Undefined(v) PROVE Handles(f, v)
      OBVIOUS
    <3>1. Fit(v)
      BY <1>2 DEF Handles, Keeps
    <3>2. Handles(Floats(v, c), v) /\ Handles(v, v)
      BY <1>1, <3>1, FloatsHandled, KeepsSame, KeepsHandles
    <3> QED
      BY <3>2
  <2> HIDE DEF f
  <2> QED
    BY <1>2, <2>1, <2>2, HandlesOn
<1> HIDE DEF f
<1>6. f \in Tree
  BY <1>5, TameTree DEF Handles
<1>7. Quiet(r, f)
  BY <1>1, <1>6, MapEndQuiet
<1> HIDE DEF r
<1>8. Handles(r, t)
  BY <1>5, <1>7, QuietEnd
<1> QED
  BY <1>3, <1>8 DEF u

LEMMA UnmapHandled ==
  ASSUME NEW t, Fit(t), NEW c \in Views
  PROVE  Handles(Reaped(BeginDestroy(t, c), t.parent[c]), t)
<1> DEFINE u == BeginDestroy(t, c)
           p == t.parent[c]
<1>1. t \in Tree /\ c \in Container /\ c \notin Splits /\ p \in Container \cup {None}
  BY TreeTypes, Nothing DEF Fit
<1>2. /\ Fit(u) /\ Lost(u) \subseteq Lost(t) \ {c}
      /\ Empty(u) \subseteq (Empty(t) \cup {t.parent[c]}) \ {c}
  BY <1>1, BeginDestroyFit
<1>3. Tame(u, t)
  BY <1>1, BeginDestroyTame
<1> HIDE DEF u
<1>4. Leaves(u, t, p)
  BY <1>2, <1>3 DEF Leaves
<1> HIDE DEF p
<1>5. Handles(Reaped(u, p), t)
  BY <1>1, <1>4, LeavesStep, StepsHandled
<1> QED
  BY <1>5 DEF u, p

LEMMA FullscreenHandled ==
  ASSUME NEW t, Fit(t), NEW c \in Container, NEW mode \in {"none", "workspace"}
  PROVE  Handles(SetFullscreen(t, c, mode), t)
<1>1. t \in Tree /\ mode \in Mode /\ mode # "global"
  BY DEF Fit, Mode
<1> QED
  BY <1>1, SetFullscreenQuiet, QuietHandles

LEMMA WrapHandled ==
  ASSUME NEW t, Fit(t), NEW w \in Workspaces, NEW n \in Unused(t), t.tiling[w] # {},
         NEW layout \in LayoutOf, NEW x \in {w, n}
  PROVE  LET r == [WrapChildren(t, w, n) EXCEPT !.layout[x] = layout]
         IN  /\ Keeps(r, t) /\ r.parent[n] = None /\ r.ws[n] = w /\ r.life[n] = "live"
             /\ n \notin r.scratch /\ r \in Tree
             /\ \A y \in Container : t.life[y] = "live" => r.life[y] = "live"
<1> DEFINE u == WrapChildren(t, w, n)
           r == [u EXCEPT !.layout[x] = layout]
<1>1. n \in Splits /\ t.life[n] = "unused"
  BY DEF Unused
<1>2. /\ Keeps(u, t) /\ u.parent[n] = None /\ u.ws[n] = w /\ u.life[n] = "live"
      /\ n \notin u.scratch /\ \A y \in Container \ {n} : u.life[y] = t.life[y]
  BY <1>1, WrapChildrenFit
<1> HIDE DEF u
<1>3. u \in Tree
  BY <1>2 DEF Keeps, Fit
<1>4. Quiet(r, u)
  BY <1>1, <1>3, FieldQuiet DEF LayoutOf
<1> HIDE DEF r
<1>5. Keeps(r, u) /\ Same(r, u) /\ r \in Tree
  <2>1. Keeps(r, u)
    BY <1>2, <1>4, QuietKeeps DEF Keeps
  <2> QED
    BY <1>4, <2>1, QuietTree DEF Quiet
<1>6. Keeps(r, t)
  BY <1>2, <1>5, KeepsOn
<1>7. \A y \in Container : t.life[y] = "live" => r.life[y] = "live"
  BY <1>1, <1>2, <1>5 DEF Same
<1> QED
  BY <1>2, <1>5, <1>6, <1>7 DEF Same, r, u

\* Nothing but the layout of the workspace changes while it is empty.
LEMMA LayoutHandled ==
  ASSUME NEW t, Fit(t), NEW x \in Splits \cup Workspaces, NEW layout \in LayoutOf
  PROVE  Handles([t EXCEPT !.layout[x] = layout], t)
<1>1. t \in Tree
  BY DEF Fit
<1>2. Quiet([t EXCEPT !.layout[x] = layout], t)
  BY <1>1, FieldQuiet DEF LayoutOf
<1> QED
  BY <1>2, QuietHandles

LEMMA SplitHandled ==
  ASSUME NEW t, Fit(t), Lost(t) = {}, NEW c \in Container, t.life[c] = "live",
         ~IsScratchpadHiddenOrChild(t, c), NEW layout \in LayoutOf,
         NEW n \in Splits \cup {None}, SplitInPlace(t, c) \/ n \in Unused(t),
         NEW w \in Workspaces \cup {None}
  PROVE  Handles(Split(t, c, layout, n, w), t)
<1>1. t \in Tree /\ (SplitInPlace(t, c) \/ (n \in Splits /\ t.life[n] = "unused"))
  BY DEF Fit, Unused
<1>2. t.ws[c] # None
  <2> DEFINE top == Toplevel(t, c)
  <2>1. top \in Container /\ t.parent[top] = None /\ t.ws[top] = t.ws[c] /\ t.life[top] = "live"
    BY ToplevelPlace
  <2>2. ~IsScratchpadHidden(t, top)
    BY DEF IsScratchpadHiddenOrChild
  <2> HIDE DEF top
  <2> QED
    BY <2>1, <2>2 DEF IsScratchpadHidden, Lost
<1> DEFINE r == Split(t, c, layout, n, w)
<1>3. Tame(r, t)
  BY <1>1, SplitTame
<1>4. ~Undefined(r) => Keeps(r, t)
  BY <1>1, <1>2, SplitFit
<1> QED
  BY <1>3, <1>4 DEF Handles

LEMMA UnsplitHandled ==
  ASSUME NEW t, Fit(t), NEW c \in Container, NEW p \in Splits, p = t.parent[c],
         NEW w \in Workspaces \cup {None}
  PROVE  Handles(Arranged(Flatten(t, p, w), t.ws[c]), t)
<1> DEFINE u == Flatten(t, p, w)
<1>1. t \in Tree /\ t.ws[p] = t.ws[c] /\ p \in Splits \cup {None}
  BY PlacedLives, Nothing DEF Fit
<1>2. Tame(u, t)
  BY <1>1, FlattenTame
<1>3. CASE t.ws[c] = None
  <2>1. Local(u)
    BY <1>2 DEF Tame, Fit
  <2>2. Arranged(u, t.ws[c]) = Break(u, "null")
    BY <1>3, <2>1 DEF Arranged, Local
  <2> HIDE DEF u
  <2> QED
    BY <1>2, <2>2, BreakHandles DEF u
<1>4. CASE t.ws[c] # None
  <2>1. Arranged(u, t.ws[c]) = u
    BY <1>4 DEF Arranged
  <2>2. ~Undefined(u) => Keeps(u, t)
    BY <1>1, <1>4, FlattenFit
  <2> HIDE DEF u
  <2> QED
    BY <1>2, <2>1, <2>2 DEF Handles, u
<1> QED
  BY <1>3, <1>4

LEMMA ShowHandled ==
  ASSUME NEW t, Fit(t), NEW c \in Container, t.life[c] = "live",
         t.ws[c] = None \/ t.parent[c] = None, NEW w \in Workspaces \cup {None}
  PROVE  Handles(ScratchpadShow(t, c, w), t)
<1> DEFINE r == ScratchpadShow(t, c, w)
<1>1. Tame(r, t)
  BY ScratchpadShowTame DEF Fit
<1>2. ~Undefined(r) => Keeps(r, t)
  BY ScratchpadShowFit
<1> QED
  BY <1>1, <1>2 DEF Handles

\* Into the scratchpad, or hidden there.
LEMMA MinimizeHandled ==
  ASSUME NEW t, Fit(t), NEW c \in Container
  PROVE  Handles(Minimized(t, c), t)
<1> DEFINE n == None
           u == ScratchpadAdd(t, c, n)
           v == ScratchpadHide(t, c)
<1>1. t \in Tree /\ n \in Workspaces \cup {None}
  BY DEF Fit
<1>2. Minimized(t, c) \in {t, u} \/ (c \in t.scratch /\ Minimized(t, c) = v)
  BY DEF Minimized
<1> HIDE DEF n
<1>3. Handles(u, t)
  <2>1. Tame(u, t)
    BY <1>1, ScratchpadAddTame
  <2>2. ~Undefined(u) => Keeps(u, t)
    BY <1>1, ScratchpadAddFit
  <2> QED
    BY <2>1, <2>2 DEF Handles
<1>4. c \in t.scratch => Handles(v, t)
  BY ScratchpadHideFit, KeepsHandles
<1> QED
  BY <1>2, <1>3, <1>4, KeepsSame, KeepsHandles

LEMMA WholeType ==
  ASSUME NEW t, Fit(t), NEW c \in Container, t.life[c] = "live"
  PROVE  /\ Whole(t, c) \in Container /\ t.life[Whole(t, c)] = "live"
         /\ Shown(t, c) \in Container /\ t.life[Shown(t, c)] = "live"
         /\ t.ws[Shown(t, c)] # None \/ t.parent[Shown(t, c)] = None
         /\ t.ws[Shown(t, c)] = t.ws[c]
BY ToplevelPlace DEF Whole, Shown

LEMMA MoveToScratchpadHandled ==
  ASSUME NEW t, Fit(t), NEW c \in Container, t.life[c] = "live"
  PROVE  Handles(MoveToScratchpad(t, c), t)
<1>1. MoveToScratchpad(t, c) = Minimized(t, Whole(t, c))
  BY DEF MoveToScratchpad, Minimized
<1> QED
  BY <1>1, WholeType, MinimizeHandled

\* Back from the scratchpad, a container has left its parent.
LEMMA ReturnLeaves ==
  ASSUME NEW t, Fit(t), NEW c \in Container, t.life[c] = "live", NEW w \in Workspaces,
         ~Undefined(ScratchpadShow(Detach(t, c), c, w))
  PROVE  LET r == ScratchpadShow(Detach(t, c), c, w)
         IN  /\ Leaves(r, t, t.parent[c]) /\ r.life = t.life /\ r.parent[c] = None
<1> DEFINE d == Detach(t, c)
           r == ScratchpadShow(d, c, w)
           p == t.parent[c]
<1>1. t \in Tree /\ w # None
  BY Nothing DEF Fit
<1>2. Tame(d, t) /\ d \in Tree
  BY <1>1, DetachTame
<1>3. Moves(d, t, c, None, None) /\ Fit(d) /\ Loose(d, c)
  BY DetachFit
<1> HIDE DEF d
<1>4. /\ d.life = t.life /\ Lost(d) \subseteq Lost(t) \cup {c} /\ Empty(d) \subseteq Empty(t) \cup {p}
  BY <1>3, MovesOut
<1>5. d.parent[c] = None /\ d.ws[c] = None /\ Toplevel(d, c) = c
  BY <1>3, ToplevelPlace DEF Loose
<1>6. Tame(r, d)
  BY <1>2, ScratchpadShowTame
<1>7. Keeps(r, d) /\ r.life = d.life /\ r.parent[c] = None /\ r.ws[c] = w
  <2>1. ~Undefined(r)
    BY DEF r, d
  <2> QED
    BY <1>1, <1>3, <1>4, <1>5, <2>1, ScratchpadShowFit
<1> HIDE DEF r
<1>8. c \notin Lost(r)
  BY <1>1, <1>7 DEF Lost
<1>9. Leaves(r, t, p)
  BY <1>2, <1>4, <1>6, <1>7, <1>8, TameOn DEF Leaves, Keeps
<1> QED
  BY <1>4, <1>7, <1>9 DEF r, d, p

Goal(u, c, dest) == IF dest \in Workspaces THEN MoveToWorkspace(u, c, dest)
                                           ELSE MoveToContainer(u, c, dest)

LEMMA GoalSteps ==
  ASSUME NEW t, NEW c \in Container, t \in Tree, NEW dest \in Container \cup Workspaces
  PROVE  /\ Tame(Goal(t, c, dest), t)
         /\ Fit(t) /\ t.life[c] = "live" /\ (dest \in Container => t.life[dest] = "live")
              => Steps(Goal(t, c, dest), t, t.parent[c])
<1>1. CASE dest \in Workspaces
  <2> DEFINE r == MoveToWorkspace(t, c, dest)
  <2>1. Goal(t, c, dest) = r /\ dest \in Workspaces \cup {None}
    BY <1>1 DEF Goal
  <2>2. Tame(r, t)
    BY <2>1, MoveToWorkspaceTame
  <2>3. Fit(t) /\ t.life[c] = "live" /\ ~Undefined(r) => Leaves(r, t, t.parent[c])
    BY <2>1, MoveToWorkspaceFit
  <2> QED
    BY <2>1, <2>2, <2>3 DEF Steps
<1>2. CASE dest \notin Workspaces
  <2> DEFINE r == MoveToContainer(t, c, dest)
  <2>1. Goal(t, c, dest) = r /\ dest \in Container
    BY <1>2 DEF Goal
  <2>2. Tame(r, t)
    BY <2>1, MoveToContainerTame
  <2>3. Fit(t) /\ t.life[c] = "live" /\ t.life[dest] = "live" /\ ~Undefined(r)
          => Leaves(r, t, t.parent[c])
    BY <2>1, MoveToContainerFit
  <2> QED
    BY <2>1, <2>2, <2>3 DEF Steps
<1> QED
  BY <1>1, <1>2

LEMMA MoveContainerHandled ==
  ASSUME NEW t, Fit(t), NEW c \in Container, t.life[c] = "live",
         NEW dest \in Container \cup Workspaces, dest \in Container => t.life[dest] = "live",
         NEW w \in Workspaces
  PROVE  Handles(MoveContainer(t, c, dest, w), t)
<1> DEFINE p == t.parent[c]
           d == Detach(t, c)
           shown == ScratchpadShow(d, c, w)
           u == IF IsScratchpadHiddenOrChild(t, c) THEN shown ELSE t
           r == Goal(u, c, dest)
<1>1. t \in Tree /\ p \in Container \cup {None} /\ w \in Workspaces \cup {None}
  BY TreeTypes, Nothing DEF Fit
<1>2. MoveContainer(t, c, dest, w) = Reaped(r, p)
  BY DEF MoveContainer, Goal
<1>3. Tame(shown, t)
  <2>1. Tame(d, t) /\ d \in Tree
    BY <1>1, DetachTame
  <2> HIDE DEF d
  <2> QED
    BY <1>1, <2>1, ScratchpadShowTame, TameOn
<1>4. ~Undefined(shown) => Leaves(shown, t, p) /\ shown.life = t.life /\ shown.parent[c] = None
  BY ReturnLeaves
<1> HIDE DEF shown, p
<1>5. u = shown \/ u = t
  OBVIOUS
<1> HIDE DEF u
<1>6. Steps(r, t, p)
  <2>1. CASE u = t
    BY <1>1, <2>1, GoalSteps DEF p
  <2>2. CASE u = shown
    <3>1. u \in Tree
      BY <1>3, <2>2, TameTree
    <3>2. Tame(r, u)
      BY <3>1, GoalSteps
    <3>3. ASSUME ~Undefined(r) PROVE Leaves(r, t, p)
      <4>1. ~Undefined(u)
        BY <3>2, <3>3, TameDefined
      <4>2. Leaves(u, t, p) /\ u.life = t.life /\ u.parent[c] = None
        BY <1>4, <2>2, <4>1
      <4>3. Steps(r, u, None)
        BY <3>1, <4>2, GoalSteps DEF Leaves
      <4>4. Leaves(r, u, None)
        BY <3>3, <4>3 DEF Steps
      <4> QED
        BY <4>2, <4>4, LeavesOn
    <3> QED
      BY <1>3, <2>2, <3>2, <3>3, TameOn DEF Steps
  <2> QED
    BY <1>5, <2>1, <2>2
<1> HIDE DEF r
<1> QED
  BY <1>1, <1>2, <1>6, StepsHandled

LEMMA SwapHandled ==
  ASSUME NEW t, Fit(t), NEW a \in Container, NEW b \in Container, a # b,
         t.life[a] = "live", t.life[b] = "live",
         ~HasAncestor(t, a, b), ~HasAncestor(t, b, a), NEW w \in Workspaces
  PROVE  Handles(Swap(t, a, b, w), t)
<1> DEFINE r == Swap(t, a, b, w)
<1>1. Tame(r, t)
  BY SwapTame DEF Fit
<1>2. ~Undefined(r) => Keeps(r, t)
  BY SwapFit
<1> QED
  BY <1>1, <1>2 DEF Handles

LEMMA ObstructingType ==
  ASSUME NEW t, Fit(t), NEW c \in Container
  PROVE  Obstructing(t, c) \in Container \cup {None}
<1>1. t \in Tree /\ Toplevel(t, c) \in Container
  BY ToplevelPlace DEF Fit
<1>2. t.ws[Toplevel(t, c)] \in Workspaces \cup {None} /\ t.global \in Container \cup {None}
  BY <1>1, TreeTypes
<1>3. \A w \in Workspaces : t.fs[w] \in Container \cup {None}
  BY <1>1, TreeTypes
<1> QED
  BY <1>2, <1>3 DEF Obstructing

(***************************************************************************)
(* The invariant.                                                          *)
(***************************************************************************)
\* Every container is in one place, none is lost, no split is empty, and the
\* operation of the pointer is on containers that live.
Good(t) ==
  /\ Fit(t) /\ Lost(t) = {} /\ Empty(t) = {} /\ Minds(t)
  /\ t.op.kind # "default" => t.op.con \in Container

Next1(t, r) == IF Undefined(r) THEN [t EXCEPT !.broken = r.broken]
                               ELSE [r EXCEPT !.steps = @ + 1]

LEMMA HandledGood ==
  ASSUME NEW t, Good(t), NEW r, Handles(r, t)
  PROVE  /\ Good(Next1(t, r))
         /\ t.op.kind = "default" => Next1(t, r).op.kind = "default"
<1>1. /\ t \in Tree /\ Fit(t) /\ Lost(t) = {} /\ Empty(t) = {} /\ Minds(t)
      /\ t.op.kind # "default" => t.op.con \in Container
  BY DEF Good, Fit
<1>2. r \in Tree /\ Carries(r, t)
  BY TameTree DEF Handles, Tame
<1>3. CASE Undefined(r)
  <2> DEFINE b == r.broken
             u == [t EXCEPT !.broken = b]
  <2>1. b \in SUBSET Breach
    BY <1>2 DEF Tree
  <2>2. Next1(t, r) = u
    BY <1>3 DEF Next1
  <2> HIDE DEF b
  <2>3. u \in Tree /\ Same(u, t) /\ u.op = t.op /\ u.mode = t.mode /\ u.global = t.global
    BY <1>1, <2>1 DEF Tree, Same
  <2> HIDE DEF u
  <2>4. Lost(u) = {} /\ Empty(u) = {} /\ Shape(u)
    BY <1>1, <2>3, SameShape DEF Fit
  <2>5. Fit(u)
    BY <1>1, <2>3, <2>4 DEF Fit, Local
  <2>6. Minds(u)
    BY <1>1, <2>3 DEF Minds, Operands, Same
  <2>7. Good(u)
    BY <1>1, <2>3, <2>4, <2>5, <2>6 DEF Good
  <2> QED
    BY <2>2, <2>3, <2>7
<1>4. CASE ~Undefined(r)
  <2> DEFINE n == r.steps + 1
             u == [r EXCEPT !.steps = n]
  <2>1. n \in Nat
    BY <1>2 DEF Tree
  <2>2. Next1(t, r) = u
    BY <1>2, <1>4 DEF Next1, Tree
  <2> HIDE DEF n
  <2>3. u \in Tree /\ Same(u, r) /\ u.op = r.op /\ u.mode = r.mode /\ u.global = r.global
    BY <1>2, <2>1 DEF Tree, Same
  <2> HIDE DEF u
  <2>4. Fit(r) /\ Lost(r) = {} /\ Empty(r) = {}
    BY <1>1, <1>4 DEF Handles, Keeps
  <2>5. Lost(u) = {} /\ Empty(u) = {} /\ Shape(u)
    BY <2>3, <2>4, SameShape DEF Fit
  <2>6. Fit(u)
    BY <2>3, <2>4, <2>5 DEF Fit, Local
  <2>7. Minds(r) /\ Goes(r, t)
    BY <1>1, <1>2 DEF Carries
  <2>8. Minds(u)
    BY <2>3, <2>7 DEF Minds, Operands, Same
  <2>9. Good(u)
    BY <1>1, <2>3, <2>5, <2>6, <2>7, <2>8 DEF Good, Goes
  <2> QED
    BY <2>2, <2>3, <2>7, <2>9 DEF Goes
<1> QED
  BY <1>3, <1>4

\* What the handlers assume of the constants: no fullscreen on all outputs,
\* no client that names an output.
Usual == Modes \subseteq {"none", "workspace"} /\ ~ToOutput

LEMMA BecomesGood ==
  ASSUME Good(s), NEW t, Becomes(t), Handles(t, s)
  PROVE  Good(s') /\ (s.op.kind = "default" => s'.op.kind = "default")
<1>1. s' = Next1(s, t)
  BY DEF Becomes, Next1
<1> QED
  BY <1>1, HandledGood

Facts == Fit(s) /\ s \in Tree /\ Lost(s) = {} /\ Local(s)

LEMMA GoodFacts ==
  ASSUME Good(s)
  PROVE  /\ Facts
         /\ FocusedWorkspaces(s) = Workspaces
         /\ \A w \in FocusableWorkspaces(s) : w \in Workspaces
         /\ \A w : SiblingsToMap(s, w) \subseteq Live(s) /\ (w = None => SiblingsToMap(s, w) = {})
<1>1. Facts
  BY DEF Good, Fit, Facts
<1>2. s.global = None
  BY <1>1 DEF Facts, Local
<1> QED
  BY <1>1, <1>2 DEF FocusedWorkspaces, FocusableWorkspaces, SiblingsToMap

\* What a step of a handler is to show.
Stays == Good(s') /\ (s.op.kind = "default" => s'.op.kind = "default")

LEMMA MapStays ==
  ASSUME Good(s), NEW c \in Views, HandleMap(c)
  PROVE  Stays
<1>1. Facts /\ \A w : SiblingsToMap(s, w) \subseteq Live(s) /\ (w = None => SiblingsToMap(s, w) = {})
  BY GoodFacts
<1> DEFINE R(w) == SiblingsToMap(s, w) \cup (IF w = None THEN {} ELSE {None})
           M(w, floats, leave, full, ref) ==
             Mapped([s EXCEPT !.life[c] = "live"], c, w, ref, floats, leave, full)
<1>20. \E w \in Workspaces \cup {None}, floats, leave, full \in BOOLEAN :
         \E ref \in R(w) : Becomes(M(w, floats, leave, full, ref))
  BY DEF HandleMap
<1>2. PICK w \in Workspaces \cup {None}, floats \in BOOLEAN, leave \in BOOLEAN, full \in BOOLEAN :
        \E ref \in R(w) : Becomes(M(w, floats, leave, full, ref))
  <2> HIDE DEF R, M
  <2> QED
    BY <1>20
<1>21. PICK ref \in R(w) : Becomes(M(w, floats, leave, full, ref))
  <2> HIDE DEF R, M
  <2> QED
    BY <1>2
<1>3. w \in Workspaces
  BY <1>1, <1>2, <1>21
<1>4. ref \in Container \cup {None} /\ (ref # None => s.life[ref] = "live") /\ s.life[c] = "unused"
  BY <1>1, <1>21 DEF Live, HandleMap
<1> DEFINE r == Mapped([s EXCEPT !.life[c] = "live"], c, w, ref, floats, leave, full)
<1>5. Handles(r, s)
  BY <1>1, <1>3, <1>4, MapHandled DEF Facts
<1> HIDE DEF r
<1>6. Becomes(r)
  BY <1>21 DEF r
<1> QED
  BY <1>5, <1>6, BecomesGood DEF Stays

LEMMA UnmapStays ==
  ASSUME Good(s), NEW c \in Views, HandleUnmap(c)
  PROVE  Stays
<1>1. Handles(Reaped(BeginDestroy(s, c), s.parent[c]), s)
  BY GoodFacts, UnmapHandled DEF Facts
<1> QED
  BY <1>1, BecomesGood DEF HandleUnmap, Stays

LEMMA FreedGood ==
  ASSUME NEW t, Good(t), NEW c \in Container, t.life[c] = "destroying"
  PROVE  LET r == [t EXCEPT !.life[c] = "freed"]
         IN  Good(r) /\ r.op = t.op
<1> DEFINE l == [t.life EXCEPT ![c] = "freed"]
           r == [t EXCEPT !.life = l]
<1>1. t \in Tree /\ Fit(t) /\ Lost(t) = {} /\ Empty(t) = {} /\ Minds(t)
  BY DEF Good, Fit
<1>2. /\ l \in [Container -> Life] /\ l[c] # "live" /\ t.life[c] # "live"
      /\ \A x \in Container \ {c} : l[x] = t.life[x]
  BY <1>1 DEF Tree, Life
<1>3. [t EXCEPT !.life[c] = "freed"] = r
  BY <1>1 DEF Tree
<1> HIDE DEF l
<1>4. /\ r \in Tree /\ r.life = l /\ r.parent = t.parent /\ r.ws = t.ws /\ r.kids = t.kids
      /\ r.tiling = t.tiling /\ r.floating = t.floating /\ r.scratch = t.scratch
      /\ r.mode = t.mode /\ r.global = t.global /\ r.op = t.op /\ r.broken = t.broken
  BY <1>1, <1>2 DEF Tree
<1> HIDE DEF r
<1>41. \A x \in Container : r.life[x] = "live" <=> t.life[x] = "live"
  BY <1>2, <1>4
<1>5. \A x : Inside(r, x) = Inside(t, x)
  BY <1>4, InsideKids
<1>7. Shape(r)
  <2>1. Linked(r)
    BY <1>4 DEF Fit, Shape, Linked, Good
  <2>2. Together(r)
    BY <1>1, <1>4 DEF Fit, Shape, Together
  <2>3. Rooted(r)
    BY <1>1, <1>4, <1>5 DEF Fit, Shape, Rooted
  <2>4. Living(r)
    <3> SUFFICES ASSUME NEW x \in Container
                 PROVE  /\ r.parent[x] # None \/ r.ws[x] # None \/ x \in r.scratch
                             => r.life[x] = "live"
                        /\ r.parent[x] # None => r.life[r.parent[x]] = "live"
      BY DEF Living
    <3>1. t.parent[x] # None => t.parent[x] \in Container /\ t.life[t.parent[x]] = "live"
      BY <1>1, PlacedLives
    <3>2. t.parent[x] # None \/ t.ws[x] # None \/ x \in t.scratch => t.life[x] = "live"
      BY <1>1, PlacedLives
    <3> QED
      BY <1>4, <1>41, <3>1, <3>2
  <2>5. Shelved(r)
    BY <1>1, <1>4 DEF Fit, Shape, Shelved
  <2> QED
    BY <2>1, <2>2, <2>3, <2>4, <2>5 DEF Shape
<1>8. Fit(r)
  BY <1>1, <1>4, <1>7 DEF Fit, Local
<1>9. Minds(r)
  <2>1. Operands(r) = Operands(t) /\ Operands(t) \subseteq Container
    BY <1>1, <1>4, TreeTypes DEF Operands, SeatOp
  <2> QED
    BY <1>1, <1>41, <2>1 DEF Minds
<1>10. Lost(r) = {} /\ Empty(r) = {}
  BY <1>1, <1>4, <1>41, Nothing DEF Lost, Empty
<1>11. Good(r)
  BY <1>4, <1>8, <1>9, <1>10 DEF Good
<1> QED
  BY <1>3, <1>4, <1>11

LEMMA DestroyStays ==
  ASSUME Good(s), NEW c \in Container, ContainerDestroy(c)
  PROVE  Stays
BY FreedGood DEF ContainerDestroy, Stays

LEMMA FullscreenStays ==
  ASSUME Good(s), Usual, NEW c \in Container, NEW mode \in Modes, CmdFullscreen(c, mode)
  PROVE  Stays
<1> DEFINE r == SetFullscreen(s, Shown(s, c), mode)
<1>1. Fit(s) /\ s.life[c] = "live" /\ Becomes(r)
  BY GoodFacts DEF Facts, CmdFullscreen, Live
<1>2. Shown(s, c) \in Container /\ mode \in {"none", "workspace"}
  BY <1>1, WholeType DEF Usual
<1>3. Handles(r, s)
  BY <1>1, <1>2, FullscreenHandled
<1> HIDE DEF r
<1> QED
  BY <1>1, <1>3, BecomesGood DEF Stays

LEMMA FloatingStays ==
  ASSUME Good(s), NEW con \in Container, NEW wants \in BOOLEAN, CmdFloating(con, wants)
  PROVE  Stays
<1> DEFINE c == Whole(s, con)
<1>1. Fit(s) /\ s \in Tree /\ s.life[con] = "live"
  BY GoodFacts DEF Facts, CmdFloating, Live
<1>2. c \in Container /\ s.life[c] = "live"
  BY <1>1, WholeType
<1>3. PICK ref \in References(s, c) : Becomes(SetFloating(s, c, wants, ref))
  BY DEF CmdFloating
<1> HIDE DEF c
<1>4. CASE wants
  <2>1. \/ SetFloating(s, c, wants, ref) = s
        \/ SetFloating(s, c, wants, ref) = Floats(s, c)
    BY <1>4 DEF Floats, SetFloating
  <2>2. Handles(s, s) /\ Handles(Floats(s, c), s)
    BY <1>1, <1>2, FloatsHandled, QuietSame, QuietHandles
  <2> QED
    BY <1>3, <2>1, <2>2, BecomesGood DEF Stays
<1>5. CASE ~wants
  <2>1. ref \in Container \cup {None} /\ (ref # None => s.life[ref] = "live" /\ ref \notin Inside(s, c))
    BY <1>3 DEF References, OneOf, Tiled, Live
  <2>2. wants = FALSE
    BY <1>5
  <2>3. SetFloating(s, c, wants, ref) = Tiles(s, c, ref)
    BY <2>2 DEF Tiles
  <2>4. Handles(Tiles(s, c, ref), s)
    BY <1>1, <1>2, <2>1, TilesHandled
  <2> QED
    BY <1>3, <2>3, <2>4, BecomesGood DEF Stays
<1> QED
  BY <1>4, <1>5

LEMMA FloatingWorkspaceStays ==
  ASSUME Good(s), NEW w \in Workspaces, NEW n \in Splits, CmdFloatingWorkspace(w, n)
  PROVE  Stays
<1> DEFINE h == "horiz"
           u == [WrapChildren(s, w, n) EXCEPT !.layout[w] = h]
           r == Floats(u, n)
<1>1. Fit(s) /\ n \in Unused(s) /\ s.tiling[w] # {} /\ n \in Container
  BY GoodFacts, Nothing DEF Facts, CmdFloatingWorkspace
<1>2. h \in LayoutOf
  BY DEF LayoutOf
<1>20. Becomes(r)
  BY DEF CmdFloatingWorkspace, WrapAndReset, Floats
<1> HIDE DEF h
<1>3. Keeps(u, s) /\ u \in Tree
  BY <1>1, <1>2, WrapHandled
<1> HIDE DEF u
<1>4. Handles(u, s) /\ Fit(u)
  BY <1>3, KeepsHandles DEF Keeps
<1>5. Handles(r, u) /\ Tame(r, u)
  BY <1>1, <1>3, <1>4, FloatsHandled, FloatsTame
<1> HIDE DEF r
<1>6. Handles(r, s)
  BY <1>4, <1>5, HandlesOn
<1> QED
  BY <1>6, <1>20, BecomesGood DEF Stays

LEMMA SplitStays ==
  ASSUME Good(s), NEW c \in Container, NEW layout \in Layouts, NEW n \in Splits \cup {None},
         NEW w \in Workspaces \cup {None}, CmdSplit(c, layout, n, w)
  PROVE  Stays
<1> DEFINE r == Split(s, c, layout, n, w)
<1>1. /\ Fit(s) /\ Lost(s) = {} /\ s.life[c] = "live" /\ Becomes(r)
      /\ SplitInPlace(s, c) \/ n \in Unused(s)
  BY GoodFacts DEF Facts, CmdSplit, Live
<1>2. ~IsScratchpadHiddenOrChild(s, c) /\ layout \in LayoutOf
  BY GoodFacts, ConstantsOK DEF Facts, Local, CmdSplit, LayoutOf
<1>3. Handles(r, s)
  BY <1>1, <1>2, SplitHandled
<1> HIDE DEF r
<1> QED
  BY <1>1, <1>3, BecomesGood DEF Stays

LEMMA LayoutsAre == Layouts \subseteq LayoutOf
BY ConstantsOK DEF LayoutOf

LEMMA LayoutWorkspaceStays ==
  ASSUME Good(s), NEW w \in Workspaces, NEW layout \in Layouts, CmdLayoutWorkspace(w, layout)
  PROVE  Stays
<1> DEFINE r == [s EXCEPT !.layout[w] = layout]
<1>1. Fit(s) /\ Becomes(r) /\ layout \in LayoutOf
  BY GoodFacts, LayoutsAre DEF Facts, CmdLayoutWorkspace
<1>2. Handles(r, s)
  BY <1>1, LayoutHandled
<1> HIDE DEF r
<1> QED
  BY <1>1, <1>2, BecomesGood DEF Stays

LEMMA SplitWorkspaceStays ==
  ASSUME Good(s), NEW w \in Workspaces, NEW layout \in Layouts, NEW n \in Splits \cup {None},
         CmdSplitWorkspace(w, layout, n)
  PROVE  Stays
<1>1. Fit(s) /\ layout \in LayoutOf
  BY GoodFacts, LayoutsAre DEF Facts
<1>2. CASE s.tiling[w] = {}
  <2> DEFINE r == [s EXCEPT !.layout[w] = layout]
  <2>1. Becomes(r)
    BY <1>2 DEF CmdSplitWorkspace
  <2>2. Handles(r, s)
    BY <1>1, LayoutHandled
  <2> HIDE DEF r
  <2> QED
    BY <2>1, <2>2, BecomesGood DEF Stays
<1>3. CASE s.tiling[w] # {}
  <2> DEFINE r == [WrapChildren(s, w, n) EXCEPT !.layout[w] = layout]
  <2>1. Becomes(r) /\ n \in Unused(s)
    BY <1>3 DEF CmdSplitWorkspace
  <2>2. Keeps(r, s)
    BY <1>1, <1>3, <2>1, WrapHandled
  <2> HIDE DEF r
  <2> QED
    BY <2>1, <2>2, KeepsHandles, BecomesGood DEF Stays
<1> QED
  BY <1>2, <1>3

LEMMA UnsplitStays ==
  ASSUME Good(s), NEW c \in Container, NEW w \in Workspaces \cup {None}, CmdUnsplit(c, w)
  PROVE  Stays
<1> DEFINE p == s.parent[c]
           r == Arranged(Flatten(s, p, w), s.ws[c])
<1>1. Fit(s) /\ p \in Splits /\ Becomes(r)
  BY GoodFacts, TreeTypes DEF Facts, CmdUnsplit
<1>2. Handles(r, s)
  BY <1>1, UnsplitHandled
<1> HIDE DEF r
<1> QED
  BY <1>1, <1>2, BecomesGood DEF Stays

LEMMA LayoutStays ==
  ASSUME Good(s), NEW c \in Container, NEW layout \in Layouts, CmdLayout(c, layout)
  PROVE  Stays
<1> DEFINE p == s.parent[c]
           w == s.ws[c]
<1>1. Fit(s) /\ s \in Tree /\ layout \in LayoutOf
      /\ p \in Splits \cup {None} /\ w \in Workspaces \cup {None} /\ s.life[c] = "live"
      /\ Lost(s) = {} /\ ~IsFloating(s, c)
  BY GoodFacts, LayoutsAre, TreeTypes DEF Facts, CmdLayout, Live
<1>2. CASE w = None
  <2> DEFINE m == "null"
             r == Break(s, m)
  <2>1. Becomes(r) /\ m \in {"null", "freed"}
    BY <1>2 DEF CmdLayout
  <2> HIDE DEF m
  <2>2. Handles(r, s)
    BY <1>1, <2>1, TameSame, BreakHandles
  <2> HIDE DEF r
  <2> QED
    BY <2>1, <2>2, BecomesGood DEF Stays
<1>3. CASE w # None /\ p # None
  <2> DEFINE r == [s EXCEPT !.layout[p] = layout]
  <2>1. Becomes(r)
    BY <1>3 DEF CmdLayout
  <2>2. Handles(r, s)
    BY <1>1, <1>3, LayoutHandled
  <2> HIDE DEF r
  <2> QED
    BY <2>1, <2>2, BecomesGood DEF Stays
<1>4. CASE w # None /\ p = None
  <2>1. PICK n \in Unused(s) : Becomes([WrapChildren(s, w, n) EXCEPT !.layout[n] = layout])
    BY <1>4 DEF CmdLayout
  <2> DEFINE r == [WrapChildren(s, w, n) EXCEPT !.layout[n] = layout]
  <2>2. s.tiling[w] # {}
    BY <1>1, <1>4 DEF IsFloating, Fit, Shape, Linked
  <2>3. Keeps(r, s)
    BY <1>1, <1>4, <2>2, WrapHandled
  <2>4. Becomes(r)
    BY <2>1
  <2> HIDE DEF r
  <2> QED
    BY <2>3, <2>4, KeepsHandles, BecomesGood DEF Stays
<1> QED
  BY <1>2, <1>3, <1>4

LEMMA ScratchpadStays ==
  ASSUME Good(s), NEW c \in Container, NEW w \in Workspaces \cup {None}, CmdScratchpad(c, w)
  PROVE  Stays
<1>1. Fit(s) /\ c \in s.scratch
  BY GoodFacts DEF Facts, CmdScratchpad
<1>2. s.life[c] = "live" /\ s.parent[c] = None
  BY <1>1, PlacedLives
<1>3. Handles(ScratchpadHide(s, c), s)
  BY <1>1, ScratchpadHideFit, KeepsHandles
<1>4. Handles(ScratchpadShow(s, c, w), s)
  BY <1>1, <1>2, ShowHandled
<1> QED
  BY <1>3, <1>4, BecomesGood DEF CmdScratchpad, Stays

LEMMA MoveToScratchpadStays ==
  ASSUME Good(s), NEW c \in Container, CmdMoveToScratchpad(c)
  PROVE  Stays
<1>1. Fit(s) /\ s.life[c] = "live"
  BY GoodFacts DEF Facts, CmdMoveToScratchpad, Live
<1> QED
  BY <1>1, MoveToScratchpadHandled, BecomesGood DEF CmdMoveToScratchpad, Stays

LEMMA MoveToScratchpadTame ==
  ASSUME NEW t, Fit(t), NEW c \in Container, t.life[c] = "live"
  PROVE  Handles(MoveToScratchpad(t, c), t) /\ Tame(MoveToScratchpad(t, c), t)
BY MoveToScratchpadHandled DEF Handles

\* The wrapped children of a workspace, whatever goes on with them.
LEMMA WrapOnHandled ==
  ASSUME NEW t, Fit(t), NEW w \in Workspaces, NEW n \in Unused(t), t.tiling[w] # {},
         NEW u, u = [WrapChildren(t, w, n) EXCEPT !.layout[w] = "horiz"]
  PROVE  /\ Keeps(u, t) /\ n \in Container /\ u.life[n] = "live"
         /\ \A r : Handles(r, u) => Handles(r, t)
<1> DEFINE h == "horiz"
           v == [WrapChildren(t, w, n) EXCEPT !.layout[w] = h]
<1>1. h \in LayoutOf /\ u = v
  BY DEF LayoutOf
<1> HIDE DEF h
<1>11. Keeps(v, t)
  BY <1>1, WrapHandled
<1>12. v.life[n] = "live"
  <2> DEFINE a == WrapChildren(t, w, n)
  <2>1. a.life[n] = "live" /\ a \in Tree
    BY WrapChildrenFit DEF Unused, Keeps, Fit
  <2> HIDE DEF a
  <2>2. [a EXCEPT !.layout[w] = h].life = a.life
    BY <2>1 DEF Tree
  <2> QED
    BY <2>1, <2>2 DEF a
<1> HIDE DEF v
<1>2. Keeps(u, t) /\ u.life[n] = "live"
  BY <1>1, <1>11, <1>12
<1>3. n \in Container
  BY Nothing DEF Unused
<1>4. ASSUME NEW r, Handles(r, u)
      PROVE  Handles(r, t)
  <2>1. Handles(u, t) /\ Tame(r, u)
    BY <1>2, <1>4, KeepsHandles DEF Handles
  <2> QED
    BY <1>4, <2>1, HandlesOn
<1> QED
  BY <1>2, <1>3, <1>4

LEMMA MoveToScratchpadWorkspaceStays ==
  ASSUME Good(s), NEW w \in Workspaces, NEW n \in Splits, CmdMoveToScratchpadWorkspace(w, n)
  PROVE  Stays
<1> DEFINE u == [WrapChildren(s, w, n) EXCEPT !.layout[w] = "horiz"]
           r == MoveToScratchpad(u, n)
<1>1. Fit(s) /\ n \in Unused(s) /\ s.tiling[w] # {} /\ Becomes(r)
  BY GoodFacts DEF Facts, CmdMoveToScratchpadWorkspace, WrapAndReset
<1>2. Keeps(u, s) /\ n \in Container /\ u.life[n] = "live" /\ \A x : Handles(x, u) => Handles(x, s)
  BY <1>1, WrapOnHandled
<1> HIDE DEF u
<1>3. Handles(r, u)
  BY <1>2, MoveToScratchpadHandled DEF Keeps
<1> QED
  BY <1>1, <1>2, <1>3, BecomesGood DEF Stays

LEMMA MoveContainerStays ==
  ASSUME Good(s), NEW c \in Container, NEW dest \in Container \cup Workspaces,
         NEW w \in Workspaces \cup {None}, CmdMoveContainer(c, dest, w)
  PROVE  Stays
<1>1. /\ Fit(s) /\ s.life[c] = "live" /\ w \in Workspaces
      /\ dest \in Container => s.life[dest] = "live"
  BY GoodFacts, Nothing DEF Facts, CmdMoveContainer, Live
<1>2. \/ Becomes(MoveToScratchpad(s, c))
      \/ Becomes(MoveContainer(s, c, dest, w))
  BY DEF CmdMoveContainer
<1> QED
  BY <1>1, <1>2, MoveToScratchpadHandled, MoveContainerHandled, BecomesGood DEF Stays

\* The new split is tiled.
LEMMA WrapTiles ==
  ASSUME NEW t \in Tree, NEW w \in Workspaces, NEW n \in Splits
  PROVE  n \in WrapChildren(t, w, n).tiling[w]
<1> DEFINE a == Create(t, n, t.layout[w])
           S == t.tiling[w]
           q == SetToSeq(S)
           b == WrapAll(a, q, n)
           m == More(b.tiling, w, n)
           e == [b EXCEPT !.tiling = m]
           f == SetWorkspace(e, n, w)
           d == HandleFullscreenReparent(f, n)
           x == t.fs[w]
<1>1. t.layout[w] \in LayoutOf /\ S \in SUBSET Container /\ n \in Container /\ w # None
  BY TreeTypes, Nothing DEF Tree, LayoutOf
<1>2. a \in Tree
  BY <1>1, CreateFields, TameTree
<1>0. WrapChildren(t, w, n) = [d EXCEPT !.fs[w] = x]
  BY <1>1 DEF WrapChildren, InTiling
<1> HIDE DEF a, S, x
<1>3. q \in Seq(S)
  BY <1>1, SetToSeqIs, FS_Subset, ConstantsOK
<1> HIDE DEF q
<1>4. q \in Seq(Container)
  BY <1>1, <1>3
<1>5. b \in Tree
  BY <1>2, <1>4, WrapAllCalm, CalmTame, TameTree
<1> HIDE DEF b
<1>6. m \in [Workspaces -> SUBSET Container] /\ n \in m[w]
  BY <1>1, <1>5 DEF Tree, More
<1> HIDE DEF m
<1>7. e \in Tree /\ e.tiling = m
  BY <1>5, <1>6 DEF Tree
<1> HIDE DEF e
<1>8. f.tiling = m /\ f \in Tree
  <2>1. f \in Tree
    BY <1>1, <1>7, SetWorkspaceFields, CalmTame, TameTree
  <2>2. f.tiling = m
    BY <1>7 DEF SetWorkspace, Tree
  <2> QED
    BY <2>1, <2>2
<1> HIDE DEF f
<1>9. Quiet(d, f)
  BY <1>1, <1>8, ReparentQuiet
<1>10. d.tiling = m /\ d \in Tree
  <2>1. d \in Tree
    BY <1>9, QuietTree
  <2>2. d.tiling = f.tiling
    BY <1>9 DEF Quiet, Same
  <2> QED
    BY <1>8, <2>1, <2>2
<1> HIDE DEF d
<1>11. [d EXCEPT !.fs[w] = x].tiling = m
  BY <1>10 DEF Tree
<1> QED
  BY <1>0, <1>6, <1>11

LEMMA MoveWorkspaceChildrenStays ==
  ASSUME Good(s), NEW from \in Workspaces, NEW n \in Splits, NEW dest \in Container \cup Workspaces,
         CmdMoveWorkspaceChildren(from, n, dest)
  PROVE  Stays
<1> DEFINE t == WrapChildren(s, from, n)
<1>1. /\ Fit(s) /\ s \in Tree /\ n \in Unused(s) /\ s.life[n] = "unused" /\ s.tiling[from] # {}
      /\ dest \in Container => s.life[dest] = "live"
      /\ \/ \E m \in Unused(t) : Becomes(MoveToScratchpad(WrapAndReset(t, from, m), m))
         \/ Becomes(MoveContainer(t, n, dest, from))
  BY GoodFacts, Nothing DEF Facts, CmdMoveWorkspaceChildren, Live, Unused
<1>2. /\ Keeps(t, s) /\ t.life[n] = "live" /\ n \in t.tiling[from] /\ n \in Container
      /\ \A x \in Container \ {n} : t.life[x] = s.life[x]
  BY <1>1, WrapChildrenFit, WrapTiles, Nothing
<1> HIDE DEF t
<1>3. Fit(t) /\ Handles(t, s)
  BY <1>2, KeepsHandles DEF Keeps
<1>4. ASSUME NEW r, Handles(r, t), Becomes(r)
      PROVE  Stays
  <2>1. Handles(r, s)
    BY <1>3, <1>4, HandlesOn DEF Handles
  <2> QED
    BY <1>4, <2>1, BecomesGood DEF Stays
<1>5. CASE \E m \in Unused(t) : Becomes(MoveToScratchpad(WrapAndReset(t, from, m), m))
  <2>1. PICK m \in Unused(t) : Becomes(MoveToScratchpad(WrapAndReset(t, from, m), m))
    BY <1>5
  <2> DEFINE u == [WrapChildren(t, from, m) EXCEPT !.layout[from] = "horiz"]
             r == MoveToScratchpad(u, m)
  <2>2. Becomes(r)
    BY <2>1 DEF WrapAndReset
  <2>3. t.tiling[from] # {}
    BY <1>2
  <2>4. Keeps(u, t) /\ m \in Container /\ u.life[m] = "live" /\ \A x : Handles(x, u) => Handles(x, t)
    BY <1>3, <2>3, WrapOnHandled
  <2> HIDE DEF u
  <2>5. Handles(r, u)
    BY <2>4, MoveToScratchpadHandled DEF Keeps
  <2> HIDE DEF r
  <2> QED
    BY <1>4, <2>2, <2>4, <2>5
<1>6. CASE Becomes(MoveContainer(t, n, dest, from))
  <2> DEFINE r == MoveContainer(t, n, dest, from)
  <2>1. dest \in Container => t.life[dest] = "live"
    BY <1>1, <1>2
  <2>2. Handles(r, t)
    BY <1>2, <1>3, <2>1, MoveContainerHandled
  <2> HIDE DEF r
  <2> QED
    BY <1>4, <1>6, <2>2 DEF r
<1> QED
  BY <1>1, <1>5, <1>6

LEMMA MoveInDirectionStays ==
  ASSUME Good(s), NEW c \in Container, NEW axis \in {"horiz", "vert"}, CmdMoveInDirection(c, axis)
  PROVE  Stays
<1>1. Fit(s) /\ Lost(s) = {} /\ s.life[c] = "live" /\ ~IsFloating(s, c)
  BY GoodFacts DEF Facts, CmdMoveInDirection, Live
<1>20. PICK n \in OneOf(Unused(s)) :
        \E t \in MoveInDirection(s, c, axis, n) :
          Becomes(EndMouseOperation(Reaped(t, s.parent[c]), c))
  BY DEF CmdMoveInDirection
<1>2. PICK t \in MoveInDirection(s, c, axis, n) :
        Becomes(EndMouseOperation(Reaped(t, s.parent[c]), c))
  BY <1>20
<1> DEFINE r == EndMouseOperation(Reaped(t, s.parent[c]), c)
<1>3. Handles(r, s)
  BY <1>1, <1>2, DirectionHandled
<1>4. Becomes(r)
  BY <1>2
<1> HIDE DEF r
<1> QED
  BY <1>3, <1>4, BecomesGood DEF Stays

LEMMA SwapStays ==
  ASSUME Good(s), NEW c \in Container, NEW other \in Container, NEW w \in Workspaces \cup {None},
         CmdSwap(c, other, w)
  PROVE  Stays
<1> DEFINE r == Swap(s, c, other, w)
<1>1. /\ Fit(s) /\ s.life[c] = "live" /\ s.life[other] = "live" /\ c # other /\ w \in Workspaces
      /\ ~HasAncestor(s, c, other) /\ ~HasAncestor(s, other, c) /\ Becomes(r)
  BY GoodFacts DEF Facts, CmdSwap, Live
<1>2. Handles(r, s)
  BY <1>1, SwapHandled
<1> HIDE DEF r
<1> QED
  BY <1>1, <1>2, BecomesGood DEF Stays

LEMMA HiddenHasNone ==
  ASSUME NEW t, Fit(t), NEW c \in Container, IsScratchpadHiddenOrChild(t, c)
  PROVE  t.ws[c] = None
BY ToplevelPlace DEF IsScratchpadHiddenOrChild, IsScratchpadHidden

LEMMA FocusStays ==
  ASSUME Good(s), NEW c \in Container, NEW w \in Workspaces \cup {None}, CmdFocus(c, w)
  PROVE  Stays
<1> DEFINE t == IF IsScratchpadHiddenOrChild(s, c) THEN ScratchpadShow(s, c, w) ELSE s
           o == Obstructing(t, c)
           r == DisableIfSet(t, o)
<1>1. Fit(s) /\ s \in Tree /\ s.life[c] = "live" /\ Becomes(r)
  BY GoodFacts DEF Facts, CmdFocus, Live
<1>2. Handles(t, s)
  <2>1. CASE IsScratchpadHiddenOrChild(s, c)
    BY <1>1, <2>1, HiddenHasNone, ShowHandled
  <2>2. CASE ~IsScratchpadHiddenOrChild(s, c)
    BY <1>1, <2>2, QuietSame, QuietHandles
  <2> QED
    BY <2>1, <2>2
<1> HIDE DEF t
<1>3. t \in Tree
  BY <1>2, TameTree DEF Handles
<1>4. o \in Container \cup {None}
  <2>1. Toplevel(t, c) \in Container
    BY <1>3, ToplevelType
  <2>2. /\ \A w0 \in Workspaces : t.fs[w0] \in Container \cup {None}
        /\ t.global \in Container \cup {None}
        /\ t.ws[Toplevel(t, c)] \in Workspaces \cup {None}
    BY <1>3, <2>1, TreeTypes
  <2> QED
    BY <2>2 DEF Obstructing
<1> HIDE DEF o
<1>5. Quiet(r, t)
  BY <1>3, <1>4, DisableIfQuiet
<1> HIDE DEF r
<1>6. Handles(r, s)
  BY <1>2, <1>5, QuietEnd
<1> QED
  BY <1>1, <1>6, BecomesGood DEF Stays, r, o, t

LEMMA ActivateStays ==
  ASSUME Good(s), NEW c \in Container, NEW w \in Workspaces \cup {None}, HandleActivate(c, w)
  PROVE  Stays
<1>1. Fit(s) /\ s.life[c] = "live" /\ s.ws[c] = None
  BY GoodFacts, HiddenHasNone DEF Facts, HandleActivate, Live
<1> QED
  BY <1>1, ShowHandled, BecomesGood DEF HandleActivate, Stays

LEMMA RequestFullscreenStays ==
  ASSUME Good(s), Usual, NEW c \in Container, NEW on \in BOOLEAN, NEW w \in Workspaces \cup {None},
         RequestFullscreen(c, on, w) \/ ForeignFullscreen(c, on, w)
  PROVE  Stays
<1> DEFINE mode == IF on THEN "workspace" ELSE "none"
           a == SetFullscreen(s, c, mode)
           b == SetFullscreen(s, Shown(s, c), mode)
<1>1. Fit(s) /\ s.life[c] = "live" /\ mode \in {"none", "workspace"}
  BY GoodFacts DEF Facts, RequestFullscreen, ForeignFullscreen, Live
<1>2. w = None
  BY DEF Usual, RequestFullscreen, ForeignFullscreen
<1>3. Becomes(a) \/ Becomes(b)
  BY <1>2 DEF RequestFullscreen, ForeignFullscreen
<1> HIDE DEF mode
<1>4. Shown(s, c) \in Container
  BY <1>1, WholeType
<1>5. Handles(a, s) /\ Handles(b, s)
  BY <1>1, <1>4, FullscreenHandled
<1> HIDE DEF a, b
<1> QED
  BY <1>3, <1>5, BecomesGood DEF Stays

LEMMA MinimizeStays ==
  ASSUME Good(s), NEW c \in Container, RequestMinimize(c)
  PROVE  Stays
<1>1. Fit(s) /\ s.life[c] = "live"
  BY GoodFacts DEF Facts, RequestMinimize, Live
<1>2. Shown(s, c) \in Container
  BY <1>1, WholeType
<1> QED
  BY <1>1, <1>2, MinimizeHandled, BecomesGood DEF RequestMinimize, Stays

LEMMA RestoreStays ==
  ASSUME Good(s), NEW c \in Container, NEW w \in Workspaces \cup {None}, RequestRestore(c, w)
  PROVE  Stays
<1>1. Fit(s) /\ s.life[c] = "live" /\ Shown(s, c) \in s.scratch
  BY GoodFacts DEF Facts, RequestRestore, Live
<1>2. Shown(s, c) \in Container /\ s.life[Shown(s, c)] = "live" /\ s.parent[Shown(s, c)] = None
  BY <1>1, WholeType, PlacedLives
<1> QED
  BY <1>1, <1>2, ShowHandled, BecomesGood DEF RequestRestore, Stays

LEMMA NextStays ==
  ASSUME Good(s), Usual, Next
  PROVE  Stays
<1>1. CASE \E c \in Container : CommandOnContainer(c) \/ ContainerDestroy(c)
  <2>1. PICK c \in Container : CommandOnContainer(c) \/ ContainerDestroy(c)
    BY <1>1
  <2>2. CASE ContainerDestroy(c)
    BY <2>2, DestroyStays
  <2>3. CASE CommandOnContainer(c)
    <3>1. CASE \/ \E mode \in Modes : CmdFullscreen(c, mode)
               \/ \E wants \in BOOLEAN : CmdFloating(c, wants)
      BY <3>1, FullscreenStays, FloatingStays
    <3>2. CASE \/ \E layout \in Layouts, n \in Splits \cup {None}, w \in Workspaces \cup {None} :
                    CmdSplit(c, layout, n, w)
               \/ \E layout \in Layouts : CmdLayout(c, layout)
      BY <3>2, SplitStays, LayoutStays
    <3>3. CASE \/ CmdMoveToScratchpad(c)
               \/ \E axis \in {"horiz", "vert"} : CmdMoveInDirection(c, axis)
      BY <3>3, MoveToScratchpadStays, MoveInDirectionStays
    <3>4. CASE \E w \in Workspaces \cup {None} :
                 \/ CmdUnsplit(c, w) \/ CmdScratchpad(c, w) \/ CmdFocus(c, w)
                 \/ \E dest \in Container \cup Workspaces : CmdMoveContainer(c, dest, w)
                 \/ \E other \in Container : CmdSwap(c, other, w)
      BY <3>4, UnsplitStays, ScratchpadStays, FocusStays, MoveContainerStays, SwapStays
    <3> QED
      BY <2>3, <3>1, <3>2, <3>3, <3>4 DEF CommandOnContainer
  <2> QED
    BY <2>1, <2>2, <2>3
<1>2. CASE \E w \in Workspaces : CommandOnWorkspace(w)
  <2>1. PICK w \in Workspaces : CommandOnWorkspace(w)
    BY <1>2
  <2>2. CASE \E layout \in Layouts :
               \/ CmdLayoutWorkspace(w, layout)
               \/ \E n \in Splits \cup {None} : CmdSplitWorkspace(w, layout, n)
    BY <2>2, LayoutWorkspaceStays, SplitWorkspaceStays
  <2>3. CASE \E n \in Splits :
               \/ CmdFloatingWorkspace(w, n) \/ CmdMoveToScratchpadWorkspace(w, n)
               \/ \E dest \in Container \cup Workspaces : CmdMoveWorkspaceChildren(w, n, dest)
    BY <2>3, FloatingWorkspaceStays, MoveToScratchpadWorkspaceStays, MoveWorkspaceChildrenStays
  <2> QED
    BY <2>1, <2>2, <2>3 DEF CommandOnWorkspace
<1>3. CASE \E c \in Views : Request(c)
  <2>1. PICK c \in Views : Request(c)
    BY <1>3
  <2>2. c \in Container
    BY Nothing
  <2>3. CASE HandleMap(c) \/ HandleUnmap(c) \/ RequestMinimize(c)
    BY <2>2, <2>3, MapStays, UnmapStays, MinimizeStays
  <2>4. CASE \E w \in Workspaces \cup {None} :
               \/ HandleActivate(c, w) \/ RequestRestore(c, w)
               \/ \E on \in BOOLEAN : RequestFullscreen(c, on, w) \/ ForeignFullscreen(c, on, w)
    BY <2>2, <2>4, ActivateStays, RestoreStays, RequestFullscreenStays
  <2> QED
    BY <2>1, <2>3, <2>4 DEF Request
<1> QED
  BY <1>1, <1>2, <1>3 DEF Next

LEMMA InitGood ==
  ASSUME Init
  PROVE  Good(s) /\ s.op.kind = "default"
<1>1. PICK layout \in [Splits \cup Workspaces -> Layouts] :
        s = [life |-> [c \in Container |-> "unused"],
            parent |-> [c \in Container |-> None],
            ws |-> [c \in Container |-> None],
            mode |-> [c \in Container |-> "none"],
            kids |-> [c \in Splits |-> {}],
            tiling |-> [w \in Workspaces |-> {}],
            floating |-> [w \in Workspaces |-> {}],
            layout |-> layout,
            fs |-> [w \in Workspaces |-> None],
            prev |-> [w \in Workspaces |-> None],
            global |-> None, scratch |-> {}, op |-> DefaultOp, broken |-> {},
            steps |-> 0]
  BY DEF Init
<1>2. layout \in [Splits \cup Workspaces -> LayoutOf]
  BY LayoutsAre
<1>3. s \in Tree
  BY <1>1, <1>2, DefaultType DEF Tree, Life, Mode, LayoutOf
<1>4. /\ \A c \in Container : /\ s.life[c] = "unused" /\ s.parent[c] = None /\ s.ws[c] = None
                              /\ s.mode[c] = "none"
      /\ \A p \in Splits : s.kids[p] = {}
      /\ \A w \in Workspaces : s.tiling[w] = {} /\ s.floating[w] = {}
      /\ s.global = None /\ s.scratch = {} /\ s.op = DefaultOp
  BY <1>1
<1>5. Local(s)
  BY <1>4 DEF Local
<1>6. Linked(s)
  <2> SUFFICES ASSUME NEW c \in Container
               PROVE  /\ \A p \in Splits : c \in s.kids[p] <=> s.parent[c] = p
                      /\ \A w \in Workspaces :
                           /\ c \in s.tiling[w] \cup s.floating[w] <=> s.parent[c] = None /\ s.ws[c] = w
                           /\ c \notin s.tiling[w] \cap s.floating[w]
    BY DEF Linked
  <2> QED
    BY <1>4, Nothing
<1>7. Together(s) /\ Rooted(s) /\ Living(s) /\ Shelved(s)
  BY <1>4 DEF Together, Rooted, Living, Shelved
<1>8. Fit(s)
  BY <1>3, <1>5, <1>6, <1>7 DEF Fit, Shape
<1>9. Lost(s) = {} /\ Empty(s) = {}
  BY <1>4, Nothing DEF Lost, Empty
<1>10. Minds(s) /\ s.op.kind = "default"
  BY <1>4, Nothing DEF Minds, Operands, DefaultOp
<1> QED
  BY <1>8, <1>9, <1>10 DEF Good

\* What the invariant says of the tree.
LEMMA GoodTree ==
  ASSUME Good(s)
  PROVE  WellPlaced /\ NoLostWindow /\ ScratchpadHoldsTrees /\ OperandsLive /\ NoContainerInsideItself
<1>1. s \in Tree /\ Linked(s) /\ Together(s) /\ Rooted(s) /\ Living(s) /\ Shelved(s) /\ Fit(s)
  BY DEF Good, Fit, Shape
<1>2. Lost(s) = {} /\ Empty(s) = {} /\ Minds(s)
  BY DEF Good
<1>3. \A c \in Container : /\ s.parent[c] # None \/ s.ws[c] # None \/ c \in s.scratch => s.life[c] = "live"
                           /\ s.parent[c] \in Splits \cup {None}
  BY <1>1, TreeTypes DEF Living
<1>4. ListedWherePointed
  <2> SUFFICES ASSUME NEW c \in Container
               PROVE  /\ \A p \in Splits : c \in s.kids[p] <=> s.life[c] = "live" /\ s.parent[c] = p
                      /\ \A w \in Workspaces :
                           /\ c \in s.tiling[w] \cup s.floating[w]
                                <=> s.life[c] = "live" /\ s.parent[c] = None /\ s.ws[c] = w
                           /\ c \notin s.tiling[w] \cap s.floating[w]
    BY DEF ListedWherePointed
  <2> QED
    BY <1>1, <1>3, Nothing DEF Linked
<1>5. TreeOnOneWorkspace
  BY <1>1 DEF TreeOnOneWorkspace, Together, Live
<1>6. NoEmptySplit
  BY <1>2 DEF NoEmptySplit, Empty, Live
<1>7. WellPlaced
  BY <1>1, <1>4, <1>5, <1>6 DEF WellPlaced, TypeOK
<1>8. NoLostWindow
  <2> SUFFICES ASSUME NEW c \in Container, s.life[c] = "live", s.ws[c] = None
               PROVE  Toplevel(s, c) \in s.scratch
    BY DEF NoLostWindow, Live
  <2>1. /\ Toplevel(s, c) \in Container /\ s.parent[Toplevel(s, c)] = None
        /\ s.ws[Toplevel(s, c)] = None /\ s.life[Toplevel(s, c)] = "live"
    BY <1>1, ToplevelPlace
  <2> QED
    BY <1>2, <2>1 DEF Lost
<1>9. ScratchpadHoldsTrees
  <2>1. s.scratch \in SUBSET Container
    BY <1>1, TreeTypes
  <2> QED
    BY <1>1, <1>3, <2>1 DEF ScratchpadHoldsTrees, Shelved
<1>10. OperandsLive
  BY <1>2 DEF OperandsLive, Minds, Operands
<1>11. NoContainerInsideItself
  <2> SUFFICES ASSUME NEW p \in Splits, NEW c \in s.kids[p]
               PROVE  p \notin Inside(s, c)
    BY DEF NoContainerInsideItself
  <2>1. c \in Container
    BY <1>1, TreeTypes
  <2>2. s.parent[c] = p
    BY <1>1, <2>1 DEF Linked
  <2> QED
    BY <1>1, <2>1, <2>2, Nothing DEF Rooted
<1> QED
  BY <1>7, <1>8, <1>9, <1>10, <1>11

TreeInv == Good(s) /\ s.op.kind = "default"

LEMMA TreeInvariant ==
  ASSUME Usual
  PROVE  Spec => []TreeInv
<1>1. Init => TreeInv
  BY InitGood DEF TreeInv
<1>2. TreeInv /\ [Next]_s => TreeInv'
  <2> SUFFICES ASSUME TreeInv, [Next]_s
               PROVE  TreeInv'
    OBVIOUS
  <2>1. CASE Next
    BY <2>1, NextStays DEF TreeInv, Stays
  <2>2. CASE UNCHANGED s
    BY <2>2 DEF TreeInv
  <2> QED
    BY <2>1, <2>2
<1> QED
  BY <1>1, <1>2, PTL DEF Spec

\* Whatever commands are given and whatever clients ask for, without global
\* fullscreen: every container is in the list its parent and workspace
\* pointers name and in no other, whole trees are on one workspace, and no
\* live split is empty.
THEOREM TreeStaysWellPlaced ==
  ASSUME Usual
  PROVE  Spec => []WellPlaced
<1>1. TreeInv => WellPlaced
  BY GoodTree DEF TreeInv
<1> QED
  BY <1>1, TreeInvariant, PTL

\* No command or request makes a window unreachable: a live container is on
\* a workspace, or the tree it is in is in the scratchpad.
THEOREM NoWindowGetsLost ==
  ASSUME Usual
  PROVE  Spec => []NoLostWindow
<1>1. TreeInv => NoLostWindow
  BY GoodTree DEF TreeInv
<1> QED
  BY <1>1, TreeInvariant, PTL

\* The scratchpad holds live whole trees, and the ones it shows float.
THEOREM ScratchpadStaysSound ==
  ASSUME Usual
  PROVE  Spec => []ScratchpadHoldsTrees
<1>1. TreeInv => ScratchpadHoldsTrees
  BY GoodTree DEF TreeInv
<1> QED
  BY <1>1, TreeInvariant, PTL

(***************************************************************************)
(* The pointer.                                                            *)
(***************************************************************************)
\* An operation of the pointer on containers that live may take the place of
\* any other.
LEMMA OpGood ==
  ASSUME NEW t, Good(t), NEW op \in SeatOp, op.kind # "default" => op.con \in Container,
         \A c \in ({op.con, op.target} \cap Container) \cup op.held : t.life[c] = "live"
  PROVE  Good([t EXCEPT !.op = op])
<1> DEFINE r == [t EXCEPT !.op = op]
<1>1. t \in Tree /\ Fit(t) /\ Lost(t) = {} /\ Empty(t) = {}
  BY DEF Good, Fit
<1>2. r \in Tree /\ Same(r, t) /\ r.op = op /\ r.mode = t.mode /\ r.global = t.global
  BY <1>1 DEF Tree, Same
<1> HIDE DEF r
<1>3. Lost(r) = {} /\ Empty(r) = {} /\ Shape(r)
  BY <1>1, <1>2, SameShape DEF Fit
<1>4. Fit(r)
  BY <1>1, <1>2, <1>3 DEF Fit, Local
<1>5. Minds(r)
  BY <1>2 DEF Minds, Operands, Same
<1>6. Good(r)
  BY <1>2, <1>3, <1>4, <1>5 DEF Good
<1> QED
  BY <1>6 DEF r

LEMMA DoesGood ==
  ASSUME Good(s), NEW op \in SeatOp, op.kind # "default" => op.con \in Container,
         \A c \in ({op.con, op.target} \cap Container) \cup op.held : s.life[c] = "live",
         Does(op)
  PROVE  Good(s')
BY OpGood DEF Does

Kinds == {"default", "down", "move_tiling", "move_floating", "resize_tiling", "resize_floating"}

LEMMA BegunGood ==
  ASSUME Good(s), NEW kind \in Kinds, NEW c \in Container, s.life[c] = "live",
         NEW held \in SUBSET Container, \A x \in held : s.life[x] = "live",
         Does(Begun(kind, c, held))
  PROVE  Good(s')
<1> DEFINE op == Begun(kind, c, held)
<1>1. op.con = c /\ op.held = held /\ op.target = None
  BY DEF Begun, DefaultOp
<1>2. op \in SeatOp
  BY DEF Begun, DefaultOp, SeatOp, Kinds
<1>3. Does(op)
  OBVIOUS
<1> HIDE DEF op
<1> QED
  BY <1>1, <1>2, <1>3, Nothing, DoesGood

LEMMA HoveredLives ==
  ASSUME NEW t, NEW c \in Hovered(t)
  PROVE  c \in Container /\ t.life[c] = "live"
BY DEF Hovered, Live

\* The containers a resize tracks are siblings of one that contains the
\* pressed one.
LEMMA ResizedLive ==
  ASSUME NEW t, Fit(t), NEW c \in Container, t.life[c] = "live", NEW axis,
         NEW pair \in ResizedWith(t, c, axis)
  PROVE  pair \in SUBSET Container /\ \A x \in pair : t.life[x] = "live"
<1>1. t \in Tree /\ Linked(t) /\ Living(t)
  BY DEF Fit, Shape
<1>2. PICK a \in pair, b \in pair : a # b /\ c \in Inside(t, a) /\ b \in Siblings(t, a)
  BY DEF ResizedWith
<1>3. PICK x \in Container, y \in Container : pair = {x, y}
  BY DEF ResizedWith, ResizePairs
<1>4. a \in Container /\ b \in Container /\ pair = {a, b}
  BY <1>2, <1>3
<1>5. t.life[a] = "live"
  BY <1>1, <1>2, <1>4, InsideLive
<1>6. t.life[b] = "live"
  <2>1. t.parent[a] \in Splits \cup {None} /\ t.ws[a] \in Workspaces \cup {None}
    BY <1>1, <1>4, TreeTypes
  <2>2. CASE t.parent[a] # None
    <3>1. b \in t.kids[t.parent[a]]
      BY <1>2, <2>2 DEF Siblings
    <3>2. t.parent[b] # None
      BY <1>1, <1>4, <2>1, <2>2, <3>1 DEF Linked
    <3> QED
      BY <1>4, <3>2, PlacedLives
  <2>3. CASE t.parent[a] = None /\ t.ws[a] # None
    <3> DEFINE w == t.ws[a]
    <3>1. b \in t.tiling[w] \cup t.floating[w] /\ w \in Workspaces
      BY <1>2, <2>1, <2>3 DEF Siblings
    <3>2. t.ws[b] = w
      BY <1>1, <1>4, <3>1 DEF Linked
    <3> QED
      BY <1>4, <2>3, <3>2, PlacedLives
  <2>4. CASE t.parent[a] = None /\ t.ws[a] = None
    BY <1>2, <2>4 DEF Siblings
  <2> QED
    BY <2>2, <2>3, <2>4
<1> QED
  BY <1>4, <1>5, <1>6

LEMMA PressStays ==
  ASSUME Good(s), NEW c \in Container, Press(c)
  PROVE  Good(s')
<1>1. Fit(s)
  BY GoodFacts DEF Facts
<1>2. c \in Hovered(s)
  BY DEF Press, BeginDown, BeginMoveTiling, BeginResizeTiling, BeginOnFloating
<1>3. s.life[c] = "live"
  BY <1>2, HoveredLives
<1> DEFINE e == {}
<1>4. e \in SUBSET Container /\ \A x \in e : s.life[x] = "live"
  OBVIOUS
<1>5. CASE BeginDown(c)
  <2> DEFINE k == "down"
  <2>1. Does(Begun(k, c, e)) /\ k \in Kinds
    BY <1>5 DEF BeginDown, Kinds
  <2> HIDE DEF k, e
  <2> QED
    BY <1>3, <1>4, <2>1, BegunGood
<1>6. CASE BeginMoveTiling(c)
  <2> DEFINE k == "move_tiling"
  <2>1. Does(Begun(k, c, e)) /\ k \in Kinds
    BY <1>6 DEF BeginMoveTiling, Kinds
  <2> HIDE DEF k, e
  <2> QED
    BY <1>3, <1>4, <2>1, BegunGood
<1>7. CASE \E kind \in {"move_floating", "resize_floating"} : BeginOnFloating(c, kind)
  <2>1. PICK k \in {"move_floating", "resize_floating"} : BeginOnFloating(c, k)
    BY <1>7
  <2> DEFINE top == Toplevel(s, c)
  <2>2. Does(Begun(k, top, e)) /\ k \in Kinds
    BY <2>1 DEF BeginOnFloating, Kinds
  <2>3. top \in Container /\ s.life[top] = "live"
    BY <1>1, <1>3, ToplevelPlace
  <2> HIDE DEF top, e
  <2> QED
    BY <1>4, <2>2, <2>3, BegunGood
<1>8. CASE BeginResizeTiling(c)
  <2> DEFINE k == "resize_tiling"
  <2>1. \E held : /\ held \in SUBSET Container /\ \A x \in held : s.life[x] = "live"
                  /\ Does(Begun(k, c, held))
    <3>1. CASE \E axis \in {"horiz", "vert"} : \E pair \in ResizedWith(s, c, axis) :
                 Does(Begun(k, c, pair))
      <4>1. PICK axis \in {"horiz", "vert"} : \E pair \in ResizedWith(s, c, axis) :
                 Does(Begun(k, c, pair))
        BY <3>1
      <4>2. PICK pair \in ResizedWith(s, c, axis) : Does(Begun(k, c, pair))
        BY <4>1
      <4>3. pair \in SUBSET Container /\ \A x \in pair : s.life[x] = "live"
        BY <1>1, <1>3, ResizedLive
      <4> QED
        BY <4>2, <4>3
    <3>2. CASE \E h \in ResizedWith(s, c, "horiz") \cup {{}},
                  v \in ResizedWith(s, c, "vert") \cup {{}} :
                 Does(Begun(k, c, h \cup v))
      <4> DEFINE hz == "horiz"
                 vt == "vert"
      <4>1. PICK h \in ResizedWith(s, c, hz) \cup {{}}, v \in ResizedWith(s, c, vt) \cup {{}} :
                 Does(Begun(k, c, h \cup v))
        BY <3>2
      <4> HIDE DEF hz, vt
      <4>2. h \in SUBSET Container /\ \A x \in h : s.life[x] = "live"
        <5>1. CASE h = {}
          BY <5>1
        <5>2. CASE h \in ResizedWith(s, c, hz)
          BY <1>1, <1>3, <5>2, ResizedLive
        <5> QED
          BY <5>1, <5>2
      <4>3. v \in SUBSET Container /\ \A x \in v : s.life[x] = "live"
        <5>1. CASE v = {}
          BY <5>1
        <5>2. CASE v \in ResizedWith(s, c, vt)
          BY <1>1, <1>3, <5>2, ResizedLive
        <5> QED
          BY <5>1, <5>2
      <4> QED
        BY <4>1, <4>2, <4>3
    <3> QED
      BY <1>8, <3>1, <3>2 DEF BeginResizeTiling
  <2>2. k \in Kinds
    BY DEF Kinds
  <2> HIDE DEF k
  <2> QED
    BY <1>3, <2>1, <2>2, BegunGood
<1> QED
  BY <1>5, <1>6, <1>7, <1>8 DEF Press

LEMMA EndStays ==
  ASSUME Good(s), Cancel \/ Release
  PROVE  Good(s')
<1> DEFINE op == DefaultOp
<1>1. Does(op) /\ op \in SeatOp /\ op.con = None /\ op.target = None /\ op.held = {}
      /\ op.kind = "default"
  BY DefaultType DEF Cancel, Release, DefaultOp
<1> HIDE DEF op
<1> QED
  BY <1>1, Nothing, DoesGood

\* What the motion of a drag may make the target.
Target(t, a) ==
  /\ a.target \in Container \cup Workspaces \cup {None}
  /\ a.edge \in {"none", "horiz", "vert"} /\ a.split \in BOOLEAN
  /\ a.target \in Container => t.life[a.target] = "live"

LEMMA AimTarget ==
  ASSUME NEW t, NEW target \in Container \cup Workspaces \cup {None},
         NEW edge \in {"none", "horiz", "vert"}, NEW split \in BOOLEAN,
         target \in Container => t.life[target] = "live"
  PROVE  Target(t, Aim(target, edge, split))
BY DEF Target, Aim

LEMMA NoAimTarget ==
  ASSUME NEW t
  PROVE  Target(t, NoAim)
BY Nothing DEF Target, NoAim, Aim

LEMMA UpType ==
  ASSUME NEW t, Fit(t), NEW a \in Container
  PROVE  /\ Up(t, a) \in Container \cup Workspaces \cup {None}
         /\ Up(t, a) \in Container => t.life[Up(t, a)] = "live"
<1>1. t.parent[a] \in Splits \cup {None} /\ t.ws[a] \in Workspaces \cup {None}
  BY TreeTypes DEF Fit
<1> QED
  BY <1>1, PlacedLives, Nothing DEF Up

LEMMA AimsTarget ==
  ASSUME NEW t, Fit(t), NEW c \in Container, NEW h \in Container, t.life[h] = "live",
         NEW a \in Aims(t, c, h)
  PROVE  Target(t, a)
<1>1. CASE a = NoAim
  BY <1>1, NoAimTarget
<1>2. CASE a \in AimsAtEdge(t, c, h)
  <2>1. PICK x \in Container : a = Aim(IF Up(t, x) = c THEN Up(t, c) ELSE Up(t, x), Across(t, x), FALSE)
    BY <1>2 DEF AimsAtEdge
  <2> DEFINE u == IF Up(t, x) = c THEN Up(t, c) ELSE Up(t, x)
             e == Across(t, x)
             f == FALSE
  <2>2. u \in Container \cup Workspaces \cup {None} /\ (u \in Container => t.life[u] = "live")
    BY UpType
  <2>3. e \in {"none", "horiz", "vert"} /\ f \in BOOLEAN
    BY DEF Across
  <2>4. a = Aim(u, e, f)
    BY <2>1
  <2> HIDE DEF u, e, f
  <2> QED
    BY <2>2, <2>3, <2>4, AimTarget
<1>3. CASE a \in AimsAtTitle(t, c, h)
  <2>1. a = NoAim \/ a = Aim(h, "none", TRUE)
    BY <1>3 DEF AimsAtTitle
  <2> DEFINE e == "none"
             f == TRUE
  <2>2. e \in {"none", "horiz", "vert"} /\ f \in BOOLEAN
    OBVIOUS
  <2>3. a = NoAim \/ a = Aim(h, e, f)
    BY <2>1
  <2> HIDE DEF e, f
  <2> QED
    BY <2>2, <2>3, NoAimTarget, AimTarget
<1>4. CASE a \in AimsAtView(t, c, h)
  <2>1. a = NoAim \/ \E e \in {"none", "horiz", "vert"} : a = Aim(h, e, FALSE)
    BY <1>4 DEF AimsAtView
  <2> DEFINE f == FALSE
  <2>2. f \in BOOLEAN
    OBVIOUS
  <2>3. a = NoAim \/ \E e \in {"none", "horiz", "vert"} : a = Aim(h, e, f)
    BY <2>1
  <2> HIDE DEF f
  <2> QED
    BY <2>2, <2>3, NoAimTarget, AimTarget
<1> QED
  BY <1>1, <1>2, <1>3, <1>4 DEF Aims

LEMMA AimedGood ==
  ASSUME Good(s), s.op.kind = "move_tiling", NEW a, Target(s, a),
         Does([s.op EXCEPT !.target = a.target, !.edge = a.edge, !.split = a.split])
  PROVE  Good(s')
<1>1. s \in Tree /\ s.op \in SeatOp /\ Minds(s) /\ s.op.con \in Container
  BY TreeTypes DEF Good, Fit
<1> DEFINE x == a.target
           e == a.edge
           f == a.split
           o == s.op
           op == [o EXCEPT !.target = x, !.edge = e, !.split = f]
<1>2. /\ x \in Container \cup Workspaces \cup {None} /\ e \in {"none", "horiz", "vert"} /\ f \in BOOLEAN
      /\ x \in Container => s.life[x] = "live"
  BY DEF Target
<1>3. Does(op)
  OBVIOUS
<1> HIDE DEF x, e, f
<1>4. o \in SeatOp /\ o.con \in Container /\ \A c \in ({o.con, o.target} \cap Container) \cup o.held : s.life[c] = "live"
  BY <1>1 DEF Minds, Operands
<1> HIDE DEF o
<1>5. op \in SeatOp /\ op.con = o.con /\ op.held = o.held /\ op.target = x
  BY <1>2, <1>4 DEF SeatOp
<1> HIDE DEF op
<1> QED
  BY <1>2, <1>3, <1>4, <1>5, DoesGood

LEMMA MotionStays ==
  ASSUME Good(s), MotionMoveTiling
  PROVE  Good(s')
<1>1. Fit(s) /\ s \in Tree /\ s.op.kind = "move_tiling" /\ s.op.con \in Container
  BY GoodFacts DEF Facts, MotionMoveTiling, Under, Good
<1> DEFINE c == s.op.con
           A(a) == Does([s.op EXCEPT !.target = a.target, !.edge = a.edge, !.split = a.split])
           B == Becomes(Break(s, "null"))
<1>2. \/ A(NoAim)
      \/ \E w \in FocusableWorkspaces(s) : A(Aim(w, "none", FALSE))
      \/ \E h \in Hovered(s) : B \/ \E a \in Aims(s, c, h) : A(a)
  BY DEF MotionMoveTiling
<1>3. ASSUME NEW a, A(a), Target(s, a)
      PROVE  Good(s')
  BY <1>1, <1>3, AimedGood
<1>4. ASSUME B
      PROVE  Good(s')
  <2> DEFINE m == "null"
             r == Break(s, m)
  <2>1. m \in {"null", "freed"} /\ Becomes(r)
    BY <1>4
  <2> HIDE DEF m
  <2>2. Handles(r, s)
    BY <1>1, <2>1, TameSame, BreakHandles
  <2> HIDE DEF r
  <2> QED
    BY <2>1, <2>2, BecomesGood
<1>5. \A w \in FocusableWorkspaces(s) : Target(s, Aim(w, "none", FALSE))
  <2> SUFFICES ASSUME NEW w \in Workspaces
               PROVE  Target(s, Aim(w, "none", FALSE))
    BY DEF FocusableWorkspaces
  <2> QED
    BY Nothing DEF Target, Aim
<1>6. \A h \in Hovered(s) : \A a \in Aims(s, c, h) : Target(s, a)
  BY <1>1, HoveredLives, AimsTarget
<1> HIDE DEF A, B
<1> QED
  BY <1>2, <1>3, <1>4, <1>5, <1>6, NoAimTarget

LEMMA FloatingMoveHandled ==
  ASSUME NEW t, Fit(t), NEW c \in Container, t.life[c] = "live", NEW w \in Workspaces
  PROVE  Handles(FloatingMoveTo(t, c, w), t)
<1>1. t \in Tree
  BY DEF Fit
<1>2. CASE ~IsFloating(t, c)
  BY <1>1, <1>2, BreakQuiet, QuietHandles DEF FloatingMoveTo, Breach
<1>3. CASE IsFloating(t, c) /\ (t.ws[c] = None \/ t.ws[c] = w)
  BY <1>1, <1>3, QuietSame, QuietHandles DEF FloatingMoveTo
<1>4. CASE IsFloating(t, c) /\ ~(t.ws[c] = None \/ t.ws[c] = w)
  <2> DEFINE u == Detach(t, c)
             r == AddFloating(u, w, c)
             n == None
  <2>1. FloatingMoveTo(t, c, w) = r
    BY <1>4 DEF FloatingMoveTo
  <2>2. Moves(u, t, c, n, None) /\ Fit(u) /\ Loose(u, c) /\ t.parent[c] = n
    BY <1>4, DetachFit, FloatingIsRoot
  <2>23. u \in Tree /\ Tame(u, t)
    BY <1>1, DetachTame
  <2> HIDE DEF u
  <2>24. Moves(u, t, c, None, None)
    BY <2>2
  <2>25. u.life = t.life
    BY <2>24, MovesOut
  <2>3. u.life[c] = "live" /\ u \in Tree /\ Tame(u, t)
    BY <2>23, <2>25
  <2>4. Tame(r, u)
    BY <2>3, AddsCalm, CalmTame
  <2>5. ASSUME ~Undefined(r) PROVE Keeps(r, t)
    <3>1. Moves(r, u, c, n, w)
      BY <2>2, <2>3, <2>5, AddFloatingFit DEF Loose
    <3> HIDE DEF r
    <3>2. n \in Splits \cup {None} /\ w # None
      BY Nothing
    <3>20. Moves(u, t, c, None, None)
      BY <2>2
    <3> HIDE DEF n
    <3>3. Moves(r, t, c, n, w)
      BY <2>2, <3>1, <3>2, <3>20, MovesOn
    <3>4. Leaves(r, t, n)
      BY <2>2, <3>2, <3>3, MovesLeave
    <3> QED
      BY <3>4, Nothing DEF Leaves, Keeps, Empty, n
  <2> QED
    BY <2>1, <2>3, <2>4, <2>5, TameOn DEF Handles
<1> QED
  BY <1>2, <1>3, <1>4

LEMMA EndedQuiet ==
  ASSUME NEW t \in Tree
  PROVE  Quiet(Ended(t), t)
<1> DEFINE op == DefaultOp
<1>1. op \in SeatOp /\ op.con = None /\ op.target = None /\ op.held = {} /\ op.kind = "default"
  BY DefaultType DEF DefaultOp
<1> HIDE DEF op
<1>2. Quiet([t EXCEPT !.op = op], t)
  BY <1>1, Nothing, OpQuiet
<1> QED
  BY <1>2 DEF Ended, op

LEMMA FloatingMoveStays ==
  ASSUME Good(s), NEW w \in Workspaces, MotionMoveFloating(w) \/ ReleaseMoveFloating(w)
  PROVE  Good(s')
<1> DEFINE r == FloatingMoveTo(s, s.op.con, w)
<1>1. /\ Fit(s) /\ s.op.con \in Container /\ s.life[s.op.con] = "live"
      /\ Becomes(r) \/ Becomes(Ended(r))
  BY DEF Good, MotionMoveFloating, ReleaseMoveFloating, Under, Minds, Operands
<1>2. Handles(r, s)
  BY <1>1, FloatingMoveHandled
<1> HIDE DEF r
<1>3. r \in Tree
  BY <1>2, TameTree DEF Handles
<1>4. Handles(Ended(r), s)
  BY <1>2, <1>3, EndedQuiet, QuietEnd
<1> QED
  BY <1>1, <1>2, <1>4, BecomesGood

(***************************************************************************)
(* The drop.                                                               *)
(***************************************************************************)
\* What placing a dropped container makes of a tree, if the code gets to the
\* end of the drop.
Drops(r, t, c, dest) ==
  Tame(r, t) /\ (~Undefined(r) /\ dest # None => Leaves(r, t, t.parent[c]))

LEMMA DropsHandled ==
  ASSUME NEW t, Fit(t), NEW c \in Container, NEW dest, NEW r, Drops(r, t, c, dest)
  PROVE  Handles(Ended(ArrangedAround(r, c, t.ws[c], dest, t.parent[c])), t)
<1> DEFINE p == t.parent[c]
           u == Reaped(r, p)
           m == "null"
           b == Break(u, m)
           a == ArrangedAround(r, c, t.ws[c], dest, p)
<1>1. t \in Tree /\ p \in Container \cup {None}
  BY TreeTypes, Nothing DEF Fit
<1>2. Tame(r, t) /\ r \in Tree
  BY TameTree DEF Drops
<1>3. Tame(u, r) /\ u \in Tree
  BY <1>1, <1>2, ReapedTame, TameTree
<1>4. a = b \/ (a = u /\ dest # None)
  BY DEF ArrangedAround
<1>5. m \in {"null", "freed"} /\ Tame(u, t)
  BY <1>2, <1>3, TameOn
<1> HIDE DEF m
<1>6. Handles(b, t)
  BY <1>5, BreakHandles
<1>7. ASSUME dest # None
      PROVE  Handles(u, t)
  <2>1. ASSUME ~Undefined(u) PROVE Keeps(u, t)
    <3>1. ~Undefined(r)
      BY <1>3, <2>1, TameDefined
    <3>2. Leaves(r, t, p)
      BY <1>7, <3>1 DEF Drops
    <3> QED
      BY <1>1, <3>2, LeavesReaped
  <2> QED
    BY <1>5, <2>1 DEF Handles
<1> HIDE DEF b, u, a
<1>8. Handles(a, t)
  BY <1>4, <1>6, <1>7
<1>9. Quiet(Ended(a), a)
  BY <1>8, TameTree, EndedQuiet DEF Handles
<1> QED
  BY <1>8, <1>9, QuietEnd DEF a

\* Loose in u, the dropped container gets its place in v, which keeps the rest.
LEMMA PlaceDrops ==
  ASSUME NEW t, Fit(t), NEW c \in Container, t.life[c] = "live", NEW u, u = Detach(t, c),
         NEW v, Keeps(v, u), Loose(v, c),
         NEW r, NEW p \in Splits \cup {None}, NEW w, Moves(r, v, c, p, w), p # None \/ w # None
  PROVE  Leaves(r, t, t.parent[c])
<1>1. Moves(u, t, c, None, None) /\ Fit(u)
  BY DetachFit
<1>2. Lost(u) \subseteq Lost(t) \cup {c} /\ Empty(u) \subseteq Empty(t) \cup {t.parent[c]} /\ Calm(u, t)
  BY <1>1, MovesOut
<1>3. Leaves(r, v, v.parent[c]) /\ c \notin Lost(r) /\ v.parent[c] = None
  BY MovesLeave DEF Keeps, Loose
<1>4. None \notin Empty(r)
  BY Nothing DEF Empty
<1>5. Lost(r) \subseteq Lost(t) /\ Empty(r) \subseteq Empty(t) \cup {t.parent[c]} /\ Fit(r)
  BY <1>2, <1>3, <1>4 DEF Leaves, Keeps
<1>6. Tame(r, t)
  BY <1>2, <1>3, CalmTame, TameOn DEF Leaves, Keeps
<1> QED
  BY <1>5, <1>6 DEF Leaves

\* What is detached, and what the drop then finds.
LEMMA DetachedFacts ==
  ASSUME NEW t, Fit(t), NEW c \in Container, t.life[c] = "live", c \notin t.scratch
  PROVE  LET u == Detach(t, c)
         IN  /\ Fit(u) /\ Loose(u, c) /\ u \in Tree /\ Tame(u, t)
             /\ u.life = t.life /\ c \notin u.scratch /\ Inside(u, c) = Inside(t, c)
             /\ \A x \in Container : x \notin Inside(t, c) => u.ws[x] = t.ws[x]
<1> DEFINE u == Detach(t, c)
<1>1. Moves(u, t, c, None, None) /\ Fit(u) /\ Loose(u, c)
  BY DetachFit
<1> HIDE DEF u
<1>2. /\ u.life = t.life /\ u.scratch = t.scratch /\ Inside(u, c) = Inside(t, c) /\ u \in Tree /\ Calm(u, t)
      /\ \A x \in Container : x \notin Inside(t, c) => u.ws[x] = t.ws[x]
  BY <1>1, MovesOut
<1> QED
  BY <1>1, <1>2, CalmTame DEF u

LEMMA DropOnWorkspace ==
  ASSUME NEW t, Fit(t), NEW c \in Container, t.life[c] = "live", c \notin t.scratch,
         NEW w \in Workspaces, NEW dest
  PROVE  Drops(AddTiling(Detach(t, c), w, c), t, c, dest)
<1> DEFINE u == Detach(t, c)
           r == AddTiling(u, w, c)
           n == None
<1>1. Fit(u) /\ Loose(u, c) /\ u \in Tree /\ Tame(u, t) /\ u.life = t.life /\ c \notin u.scratch
  BY DetachedFacts
<1>0. u = Detach(t, c) /\ n \in Splits \cup {None} /\ w # None
  BY Nothing
<1> HIDE DEF u
<1>2. Tame(r, u)
  BY <1>1, AddTilingTame
<1>3. ASSUME ~Undefined(r) PROVE Leaves(r, t, t.parent[c])
  <2>1. Moves(r, u, c, n, w)
    BY <1>1, <1>3, AddTilingLoose
  <2>2. Keeps(u, u)
    BY <1>1, KeepsSame
  <2> HIDE DEF r, n
  <2> QED
    BY <1>0, <1>1, <2>1, <2>2, PlaceDrops
<1> QED
  BY <1>1, <1>2, <1>3, TameOn DEF Drops, u

LEMMA DropOnEdge ==
  ASSUME NEW t, Fit(t), NEW c \in Container, t.life[c] = "live", c \notin t.scratch,
         NEW w \in Workspaces, NEW dest, NEW edge \in {"horiz", "vert"}, NEW n \in Unused(t)
  PROVE  Drops(DropOnWorkspaceEdge(Detach(t, c), c, w, edge, n), t, c, dest)
<1> DEFINE u == Detach(t, c)
           a == IF u.tiling[w] = {} THEN u ELSE WrapChildren(u, w, n)
           v == [a EXCEPT !.layout[w] = edge]
           r == InsertTiling(v, w, c)
           z == None
<1>1. Fit(u) /\ Loose(u, c) /\ u \in Tree /\ Tame(u, t) /\ u.life = t.life /\ c \notin u.scratch
  BY DetachedFacts
<1>0. u = Detach(t, c) /\ z \in Splits \cup {None} /\ w # None /\ n \in Splits /\ n # c
      /\ DropOnWorkspaceEdge(u, c, w, edge, n) = r
  BY Nothing DEF Unused, DropOnWorkspaceEdge
<1> HIDE DEF u
<1>2. u.life[n] = "unused" /\ edge \in LayoutOf
  BY <1>1 DEF Unused, LayoutOf
<1>3. Keeps(a, u) /\ Loose(a, c) /\ a.life[c] = "live" /\ c \notin a.scratch
  <2>1. CASE u.tiling[w] = {}
    BY <1>1, <2>1, KeepsSame
  <2>2. CASE u.tiling[w] # {}
    <3> DEFINE b == WrapChildren(u, w, n)
    <3>1. /\ Keeps(b, u) /\ b.scratch = u.scratch
          /\ \A x \in Container : u.ws[x] # w /\ x # n => Spared(b, u, x)
      BY <1>0, <1>1, <1>2, <2>2, WrapChildrenFit
    <3> HIDE DEF b
    <3>2. u.ws[c] = None /\ c \in Inside(u, c)
      BY <1>1, InsideType DEF Loose
    <3>3. Spared(b, u, c)
      BY <1>0, <3>1, <3>2
    <3>4. Loose(b, c) /\ b.life[c] = "live"
      BY <1>1, <3>2, <3>3 DEF Spared, Loose
    <3> QED
      BY <1>1, <2>2, <3>1, <3>4 DEF b
  <2> QED
    BY <2>1, <2>2
<1> HIDE DEF a
<1>4. a \in Tree
  BY <1>3 DEF Keeps, Fit
<1>5. Quiet(v, a)
  BY <1>2, <1>4, FieldQuiet DEF LayoutOf
<1> HIDE DEF v
<1>6. Keeps(v, a)
  BY <1>3, <1>5, QuietKeeps DEF Keeps
<1>7. Keeps(v, u)
  BY <1>3, <1>6, KeepsOn
<1>8. Loose(v, c) /\ v.life[c] = "live" /\ c \notin v.scratch /\ v \in Tree /\ Fit(v) /\ Tame(v, u)
  BY <1>3, <1>5, <1>7 DEF Quiet, Same, Loose, Keeps, Fit
<1>9. Tame(r, v)
  BY <1>8, AddsCalm, CalmTame
<1>10. ASSUME ~Undefined(r) PROVE Leaves(r, t, t.parent[c])
  <2>1. Moves(r, v, c, z, w)
    BY <1>8, <1>10, InsertTilingFit DEF Loose
  <2> HIDE DEF r, z
  <2> QED
    BY <1>0, <1>1, <1>7, <1>8, <2>1, PlaceDrops
<1>11. Drops(r, t, c, dest)
  BY <1>1, <1>8, <1>9, <1>10, TameOn DEF Drops
<1> HIDE DEF r
<1> QED
  BY <1>0, <1>11 DEF u

\* Beside a container, which is split first or not.
SplitIf(t, target, layout, n, w, splits) ==
  IF splits THEN Split(t, target, layout, n, w) ELSE t

LEMMA DropAtContainer ==
  ASSUME NEW t, Fit(t), NEW c \in Container, t.life[c] = "live", c \notin t.scratch,
         NEW target \in Container, target \notin Inside(t, c),
         NEW layout \in LayoutOf, NEW n \in Unused(t), NEW w \in Workspaces \cup {None},
         NEW splits \in BOOLEAN
  PROVE  Drops(AddSibling(SplitIf(Detach(t, c), target, layout, n, w, splits), target, c),
               t, c, t.ws[target])
<1> DEFINE u == Detach(t, c)
           v == SplitIf(u, target, layout, n, w, splits)
           r == AddSibling(v, target, c)
<1>1. /\ Fit(u) /\ Loose(u, c) /\ u \in Tree /\ Tame(u, t) /\ u.life = t.life /\ c \notin u.scratch
      /\ target \notin Inside(u, c) /\ u.ws[target] = t.ws[target]
  BY DetachedFacts
<1>0. u = Detach(t, c)
  OBVIOUS
<1> HIDE DEF u
<1>2. n \in Splits /\ u.life[n] = "unused"
  BY <1>1 DEF Unused
<1>3. Tame(v, u) /\ v \in Tree
  BY <1>1, <1>2, SplitTame, TameSame, TameTree DEF SplitIf
<1>4. Tame(r, v)
  BY <1>3, AddsCalm, CalmTame
<1>5. ASSUME ~Undefined(r), t.ws[target] # None
      PROVE  Leaves(r, t, t.parent[c])
  <2>1. ~Undefined(v)
    BY <1>4, <1>5, TameDefined
  <2>2. Inside(u, c) \cap Inside(u, target) = {}
    <3> SUFFICES ASSUME NEW x \in Inside(u, c), x \in Inside(u, target)
                 PROVE  FALSE
      OBVIOUS
    <3>1. Linked(u)
      BY <1>1 DEF Fit, Shape
    <3>2. c \in Inside(u, target)
      BY <1>1, <3>1, Ancestors
    <3>3. c # target
      BY <1>1, InsideType
    <3>4. u.parent[c] \in Splits
      BY <1>1, <3>1, <3>2, <3>3, InsideParent
    <3> QED
      BY <1>1, <3>4, Nothing DEF Loose
  <2>3. Keeps(v, u) /\ Spared(v, u, c)
    <3>1. CASE splits
      <4>1. v = Split(u, target, layout, n, w)
        BY <3>1 DEF SplitIf
      <4> HIDE DEF v
      <4> QED
        BY <1>1, <1>2, <1>5, <2>1, <2>2, <4>1, SplitFit
    <3>2. CASE ~splits
      BY <1>1, <3>2, KeepsSame, SparedSame DEF SplitIf
    <3> QED
      BY <3>1, <3>2
  <2> HIDE DEF v
  <2>4. c \in Inside(u, c)
    BY <1>1, InsideType
  <2>5. /\ Fit(v) /\ Loose(v, c) /\ v.life[c] = "live" /\ c \notin v.scratch /\ target \notin Inside(v, c)
    BY <1>1, <2>3, <2>4 DEF Spared, Loose, Keeps
  <2> DEFINE p == v.parent[target]
             x == v.ws[target]
  <2>6. Moves(r, v, c, p, x) /\ (p # None \/ x # None)
    BY <1>5, <2>5, AddSiblingFit DEF Loose
  <2>7. p \in Splits \cup {None}
    BY <1>3, TreeTypes
  <2> HIDE DEF r, p, x
  <2> QED
    BY <1>0, <2>3, <2>5, <2>6, <2>7, PlaceDrops
<1> HIDE DEF v
<1>6. Tame(r, t)
  BY <1>1, <1>3, <1>4, TameOn
<1> QED
  BY <1>5, <1>6 DEF Drops, v, u

\* What is dragged is in the scratchpad neither before nor since the press,
\* and it is not dropped into itself.  The code checks neither: swap puts the
\* dragged container into the scratchpad for one that was there, and the edges
\* of a drag do not ask what they belong to.
PlainDrags ==
  s.op.kind = "move_tiling" /\ s.op.target # None =>
    /\ s.op.con \notin s.scratch
    /\ s.op.target \in Container => s.op.target \notin Inside(s, s.op.con)

LEMMA HandlesDrops ==
  ASSUME NEW t, NEW r, Handles(r, t), NEW c, NEW dest
  PROVE  Drops(r, t, c, dest)
BY KeepsLeaves DEF Handles, Drops

LEMMA DropSwaps ==
  ASSUME NEW t, Fit(t), NEW c \in Container, t.life[c] = "live",
         NEW target \in Container, t.life[target] = "live", target # c,
         NEW w \in Workspaces, NEW dest
  PROVE  Drops(SwapWith(t, c, target, w), t, c, dest)
<1> DEFINE m == "assert"
           b == Break(t, m)
           x == Swap(t, target, c, w)
           r == SwapWith(t, c, target, w)
<1>1. t \in Tree /\ m \in Breach
  BY DEF Fit, Breach
<1>2. r = b \/ (r = x /\ ~HasAncestor(t, c, target) /\ ~HasAncestor(t, target, c))
  BY DEF SwapWith
<1> HIDE DEF m, r
<1>3. Handles(b, t)
  BY <1>1, BreakQuiet, QuietHandles
<1>4. CASE r = b
  <2> HIDE DEF b
  <2> QED
    BY <1>3, <1>4, HandlesDrops DEF r
<1>5. CASE r = x /\ ~HasAncestor(t, c, target) /\ ~HasAncestor(t, target, c)
  <2>1. Handles(x, t)
    BY <1>5, SwapHandled
  <2> HIDE DEF x
  <2> QED
    BY <1>5, <2>1, HandlesDrops DEF r
<1> QED
  BY <1>2, <1>4, <1>5 DEF r

LEMMA PlacedDrops ==
  ASSUME NEW t, Fit(t), NEW op \in SeatOp, NEW c \in Container, c = op.con,
         t.life[c] = "live", c \notin t.scratch, op.target # None,
         op.target \in Container => t.life[op.target] = "live" /\ op.target \notin Inside(t, c),
         NEW n \in Unused(t), NEW w \in Workspaces
  PROVE  Drops(Placed(t, op, n, w), t, c,
               IF op.target \in Workspaces THEN op.target ELSE t.ws[op.target])
<1> DEFINE u == Detach(t, c)
           g == op.target
           e == op.edge
           r == Placed(t, op, n, w)
           dest == IF g \in Workspaces THEN g ELSE t.ws[g]
<1>1. /\ g \in Container \cup Workspaces /\ e \in {"none", "horiz", "vert"} /\ t \in Tree
      /\ op.split \in BOOLEAN /\ w \in Workspaces \cup {None}
  BY DEF SeatOp, Fit
<1>2. CASE SwapsPlaces(op)
  <2>1. r = SwapWith(t, c, g, w) /\ g \in Container
    BY <1>2, Nothing DEF Placed, SwapsPlaces
  <2>2. g # c /\ t.life[g] = "live"
    BY <1>1, <2>1, InsideType
  <2> HIDE DEF r, g
  <2> QED
    BY <2>1, <2>2, DropSwaps DEF dest, r, g
<1>3. CASE ~SwapsPlaces(op) /\ g \in Workspaces /\ e = "none"
  <2>1. r = AddTiling(u, g, c)
    BY <1>3, Nothing DEF Placed
  <2>2. g \in Workspaces
    BY <1>3
  <2> HIDE DEF r, g
  <2>3. Drops(AddTiling(u, g, c), t, c, dest)
    BY <2>2, DropOnWorkspace
  <2> QED
    BY <2>1, <2>3 DEF r, g
<1>4. CASE ~SwapsPlaces(op) /\ g \in Workspaces /\ e # "none"
  <2>1. r = DropOnWorkspaceEdge(u, c, g, e, n)
    BY <1>4, Nothing DEF Placed
  <2>2. g \in Workspaces /\ e \in {"horiz", "vert"}
    BY <1>1, <1>4
  <2> HIDE DEF r, g, e
  <2>3. Drops(DropOnWorkspaceEdge(u, c, g, e, n), t, c, dest)
    BY <2>2, DropOnEdge
  <2> QED
    BY <2>1, <2>3 DEF r, g, e
<1>5. CASE ~SwapsPlaces(op) /\ g \notin Workspaces
  <2>1. g \in Container /\ t.life[g] = "live" /\ g \notin Inside(t, c) /\ dest = t.ws[g]
    BY <1>1, <1>5
  <2>2. \E layout \in LayoutOf, splits \in BOOLEAN :
          r = AddSibling(SplitIf(u, g, layout, n, w, splits), g, c)
    <3>1. CASE op.split
      <4> DEFINE y == ~(ParentLayout(u, g) \in {"tabbed", "stacked"})
      <4>1. r = DropOnTitle(u, c, g, n, w)
        BY <1>1, <1>5, <3>1, Nothing DEF Placed, SwapsPlaces
      <4>2. r = AddSibling(SplitIf(u, g, "tabbed", n, w, y), g, c)
        BY <4>1 DEF DropOnTitle, SplitIf
      <4>3. "tabbed" \in LayoutOf /\ y \in BOOLEAN
        BY DEF LayoutOf
      <4> QED
        BY <4>2, <4>3
    <3>2. CASE ~op.split
      <4> DEFINE y == ~(e = "none" \/ Along(ParentLayout(u, g), e))
                 l == IF e = "none" THEN "horiz" ELSE e
      <4>1. r = DropBeside(u, c, g, e, n, w)
        BY <1>1, <1>5, <3>2, Nothing DEF Placed
      <4>2. r = AddSibling(SplitIf(u, g, l, n, w, y), g, c)
        BY <4>1 DEF DropBeside, SplitIf
      <4>3. l \in LayoutOf /\ y \in BOOLEAN
        BY <1>1 DEF LayoutOf
      <4> QED
        BY <4>2, <4>3
    <3> QED
      BY <3>1, <3>2
  <2>3. PICK layout \in LayoutOf, splits \in BOOLEAN :
          r = AddSibling(SplitIf(u, g, layout, n, w, splits), g, c)
    BY <2>2
  <2> HIDE DEF r, g, dest
  <2>4. Drops(AddSibling(SplitIf(u, g, layout, n, w, splits), g, c), t, c, t.ws[g])
    BY <1>1, <2>1, DropAtContainer
  <2>5. Drops(r, t, c, dest)
    BY <2>1, <2>3, <2>4
  <2> QED
    BY <2>5 DEF r, g, dest
<1> QED
  BY <1>2, <1>3, <1>4, <1>5

LEMMA DropStays ==
  ASSUME Good(s), PlainDrags, NEW n \in Splits, NEW w \in Workspaces \cup {None}, Drop(n, w)
  PROVE  Good(s')
<1> DEFINE op == s.op
           c == op.con
           dest == IF op.target \in Workspaces THEN op.target ELSE s.ws[op.target]
           x == Placed(s, op, n, w)
           r == Ended(ArrangedAround(x, c, s.ws[c], dest, s.parent[c]))
<1>1. /\ Fit(s) /\ s \in Tree /\ op.kind = "move_tiling" /\ op.target # None
      /\ n \in Unused(s) /\ w \in Workspaces /\ Becomes(r)
  BY GoodFacts DEF Facts, Drop, Under
<1>2. op \in SeatOp /\ c \in Container /\ Minds(s)
  BY <1>1, TreeTypes DEF Good
<1>3. /\ s.life[c] = "live" /\ c \notin s.scratch
      /\ op.target \in Container => s.life[op.target] = "live" /\ op.target \notin Inside(s, c)
  BY <1>1, <1>2 DEF Minds, Operands, PlainDrags
<1> HIDE DEF op
<1>4. Drops(x, s, c, dest)
  BY <1>1, <1>2, <1>3, PlacedDrops
<1> HIDE DEF x, dest
<1>5. Handles(r, s)
  BY <1>1, <1>2, <1>4, DropsHandled
<1> HIDE DEF r
<1> QED
  BY <1>1, <1>5, BecomesGood

LEMMA PointerStays ==
  ASSUME Good(s), PlainDrags, Pointer
  PROVE  Good(s')
<1>1. CASE \E c \in Container : Press(c)
  BY <1>1, PressStays
<1>2. CASE MotionMoveTiling \/ Cancel \/ Release
  BY <1>2, MotionStays, EndStays
<1>3. CASE \E w \in Workspaces : MotionMoveFloating(w) \/ ReleaseMoveFloating(w)
  BY <1>3, FloatingMoveStays
<1>4. CASE \E n \in Splits, w \in Workspaces \cup {None} : Drop(n, w)
  BY <1>4, DropStays
<1> QED
  BY <1>1, <1>2, <1>3, <1>4 DEF Pointer

\* The handlers and the pointer together.
SeatInv == Good(s)

LEMMA SeatStep ==
  ASSUME Usual
  PROVE  SeatInv /\ PlainDrags /\ [SeatNext]_s => SeatInv'
<1> SUFFICES ASSUME SeatInv, PlainDrags, [SeatNext]_s
             PROVE  SeatInv'
  OBVIOUS
<1>1. CASE Next
  BY <1>1, NextStays DEF SeatInv, Stays
<1>2. CASE Pointer
  BY <1>2, PointerStays DEF SeatInv
<1>3. CASE UNCHANGED s
  BY <1>3 DEF SeatInv
<1> QED
  BY <1>1, <1>2, <1>3 DEF SeatNext

LEMMA SeatInvariant ==
  ASSUME Usual
  PROVE  SeatSpec /\ []PlainDrags => []SeatInv
<1>1. Init => SeatInv
  BY InitGood DEF SeatInv
<1>2. SeatInv /\ PlainDrags /\ [SeatNext]_s => SeatInv'
  BY SeatStep
<1> QED
  BY <1>1, <1>2, PTL DEF SeatSpec

\* While the pointer drags and resizes, whatever commands and clients do
\* meanwhile: the operation refers to live containers only, and drops leave
\* lists and pointers in step and no split empty.
THEOREM PointerKeepsTheTree ==
  ASSUME Usual
  PROVE  SeatSpec /\ []PlainDrags => []TreeSurvivesDrag
<1>1. SeatInv => TreeSurvivesDrag
  BY GoodTree DEF SeatInv, TreeSurvivesDrag, WellPlaced
<1> QED
  BY <1>1, SeatInvariant, PTL

\* What holds of the tree under commands and requests holds with the pointer
\* too, and no container gets inside itself.
THEOREM PointerLosesNothing ==
  ASSUME Usual
  PROVE  SeatSpec /\ []PlainDrags
           => [](WellPlaced /\ NoLostWindow /\ ScratchpadHoldsTrees /\ NoContainerInsideItself)
<1>1. SeatInv => WellPlaced /\ NoLostWindow /\ ScratchpadHoldsTrees /\ NoContainerInsideItself
  BY GoodTree DEF SeatInv
<1> QED
  BY <1>1, SeatInvariant, PTL
=============================================================================
