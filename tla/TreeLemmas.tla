----------------------------- MODULE TreeLemmas -----------------------------
(***************************************************************************)
(* What the operations of ContainerTree do to a tree, for every tree: which*)
(* fields they keep, and that they take a tree in which every container is *)
(* in one place to another.  TreeProofs goes on from here.                 *)
(*                                                                         *)
(* Two kinds of statement are proved of every operation, whatever its      *)
(* arguments.  That it is tame: it leaves a tree of the right type, ends   *)
(* the operation of the pointer rather than leave it a dead container, and *)
(* makes nothing fullscreen on all outputs.  And, of a fit tree, that it   *)
(* leaves a fit one, in which no container is lost or empty that was not.  *)
(* Carries, Quiet, Calm and Tame are degrees of the first, from what says  *)
(* nothing of the lists to what says nothing but that.                     *)
(***************************************************************************)
EXTENDS SeatOps, FiniteSetTheorems, FunctionTheorems, SequenceTheorems,
        WellFoundedInduction, NaturalsInduction, TLAPS

\* The containers the operation of the pointer refers to, and OperandsLive of
\* any tree.
Operands(t) == ({t.op.con, t.op.target} \cap Container) \cup t.op.held
Minds(t) == \A c \in Operands(t) : t.life[c] = "live"

\* The operation of the pointer goes on, or has ended.
Goes(r, t) ==
  r.op.kind = "default" \/ (r.op.kind = t.op.kind /\ r.op.con = t.op.con)

\* What every operation keeps.
Carries(r, t) ==
  r \in Tree /\ t.broken \subseteq r.broken /\ (Minds(t) => Minds(r)) /\ Goes(r, t)

\* Nothing is fullscreen on all outputs.
Local(t) == t.global = None /\ \A c \in Container : t.mode[c] # "global"

\* The same lists and pointers.
Same(r, t) ==
  /\ r.life = t.life /\ r.parent = t.parent /\ r.ws = t.ws /\ r.kids = t.kids
  /\ r.tiling = t.tiling /\ r.floating = t.floating /\ r.scratch = t.scratch

\* Fullscreen, layouts and the pointer only.
Quiet(r, t) == Carries(r, t) /\ Same(r, t) /\ (Local(t) => Local(r))

LEMMA CarriesOn ==
  ASSUME NEW t, NEW u, NEW r, Carries(u, t), Carries(r, u)
  PROVE  Carries(r, t)
BY DEF Carries, Goes

LEMMA QuietOn ==
  ASSUME NEW t, NEW u, NEW r, Quiet(u, t), Quiet(r, u)
  PROVE  Quiet(r, t)
BY DEF Quiet, Carries, Same, Goes

LEMMA QuietSame ==
  ASSUME NEW t \in Tree
  PROVE  Quiet(t, t)
BY DEF Quiet, Carries, Same, Goes

LEMMA BreakQuiet ==
  ASSUME NEW t \in Tree, NEW how \in Breach
  PROVE  Quiet(Break(t, how), t)
<1> DEFINE b == t.broken \cup {how}
           r == [t EXCEPT !.broken = b]
<1>1. b \in SUBSET Breach /\ Break(t, how) = r
  BY DEF Tree, Break
<1> HIDE DEF b
<1>2. r \in Tree /\ Same(r, t) /\ r.op = t.op /\ r.mode = t.mode /\ r.global = t.global /\ r.broken = b
  BY <1>1 DEF Tree, Same
<1> HIDE DEF r
<1> QED
  BY <1>1, <1>2 DEF Quiet, Carries, Minds, Operands, Local, Same, Goes, b

LEMMA OpQuiet ==
  ASSUME NEW t \in Tree, NEW op \in SeatOp,
         \A c \in ({op.con, op.target} \cap Container) \cup op.held : c \in Operands(t),
         op.kind = "default" \/ (op.kind = t.op.kind /\ op.con = t.op.con)
  PROVE  Quiet([t EXCEPT !.op = op], t)
<1> DEFINE r == [t EXCEPT !.op = op]
<1>1. r \in Tree /\ Same(r, t) /\ r.op = op /\ r.mode = t.mode /\ r.global = t.global /\ r.broken = t.broken
  BY DEF Tree, Same
<1> HIDE DEF r
<1>2. Operands(r) = ({op.con, op.target} \cap Container) \cup op.held
  BY <1>1 DEF Operands
<1>3. Minds(t) => Minds(r)
  BY <1>1, <1>2 DEF Minds, Same
<1>4. Quiet(r, t)
  BY <1>1, <1>3 DEF Quiet, Carries, Local, Goes
<1> QED
  BY <1>4 DEF r

LEMMA DefaultType == DefaultOp \in SeatOp
BY DEF DefaultOp, SeatOp

LEMMA EndMouseQuiet ==
  ASSUME NEW t \in Tree, NEW c \in Container
  PROVE  /\ Quiet(EndMouseOperation(t, c), t)
         /\ Operands(EndMouseOperation(t, c)) \subseteq Operands(t) \ {c}
<1> DEFINE e == EndMouseOperation(t, c)
           d == [t EXCEPT !.op = DefaultOp]
           x == [t.op EXCEPT !.target = None, !.edge = "none", !.split = FALSE]
           u == [t EXCEPT !.op = x]
<1>1. t.op \in SeatOp
  BY DEF Tree
<1>2. CASE c \in {t.op.con} \cup t.op.held
  <2>1. e = d
    BY <1>2 DEF EndMouseOperation
  <2>2. Operands(d) = {} /\ Quiet(d, t)
    <3>1. /\ DefaultOp.kind = "default" /\ DefaultOp.con = None /\ DefaultOp.target = None /\ DefaultOp.held = {}
          /\ ({DefaultOp.con, DefaultOp.target} \cap Container) \cup DefaultOp.held = {}
      BY ConstantsOK DEF DefaultOp
    <3>2. d.op = DefaultOp
      BY DEF Tree
    <3> QED
      BY <3>1, <3>2, DefaultType, OpQuiet DEF Operands
  <2> QED
    BY <2>1, <2>2
<1>3. CASE c \notin {t.op.con} \cup t.op.held /\ t.op.target = c
  <2>1. e = u
    <3>1. e = [t EXCEPT !.op.target = None, !.op.edge = "none", !.op.split = FALSE]
      BY <1>3 DEF EndMouseOperation
    <3> QED
      BY <3>1 DEF Tree
  <2>2. x \in SeatOp /\ x.con = t.op.con /\ x.held = t.op.held /\ x.target = None
        /\ x.kind = t.op.kind
    BY <1>1 DEF SeatOp
  <2> HIDE DEF x
  <2>3. u.op = x
    BY DEF Tree
  <2>4. \A a \in ({x.con, x.target} \cap Container) \cup x.held : a \in Operands(t) \ {c}
    BY <1>3, <2>2, ConstantsOK DEF Operands
  <2>5. Quiet(u, t)
    BY <2>2, <2>4, OpQuiet
  <2> QED
    BY <2>1, <2>3, <2>4, <2>5 DEF Operands
<1>4. CASE c \notin {t.op.con} \cup t.op.held /\ t.op.target # c
  <2>1. e = t
    BY <1>4 DEF EndMouseOperation
  <2> QED
    BY <1>4, <2>1, QuietSame DEF Operands
<1> QED
  BY <1>2, <1>3, <1>4

\* Modes and pointers of fullscreen, of which Local tells global ones.
LEMMA ModeQuiet ==
  ASSUME NEW t \in Tree, NEW c \in Container, NEW mode \in Mode,
         NEW fs \in [Workspaces -> Container \cup {None}], NEW g \in Container \cup {None}
  PROVE  LET r == [t EXCEPT !.mode[c] = mode, !.fs = fs, !.global = g]
         IN  /\ Carries(r, t) /\ Same(r, t) /\ r.op = t.op
             /\ r.mode = [t.mode EXCEPT ![c] = mode] /\ r.fs = fs /\ r.global = g
             /\ mode # "global" /\ (g = None \/ g = t.global) /\ Local(t) => Local(r)
<1> DEFINE r == [t EXCEPT !.mode[c] = mode, !.fs = fs, !.global = g]
<1>1. /\ r \in Tree /\ Same(r, t) /\ r.op = t.op /\ r.broken = t.broken
      /\ r.mode = [t.mode EXCEPT ![c] = mode] /\ r.fs = fs /\ r.global = g
  BY DEF Tree, Same
<1>2. t.mode \in [Container -> Mode]
  BY DEF Tree
<1> HIDE DEF r
<1>3. Carries(r, t)
  BY <1>1 DEF Carries, Minds, Operands, Same, Goes
<1>4. ASSUME mode # "global", g = None \/ g = t.global, Local(t)
      PROVE  Local(r)
  BY <1>1, <1>2, <1>4 DEF Local
<1> QED
  BY <1>1, <1>3, <1>4 DEF r

\* A field that no list and no operand is in.
LEMMA FieldQuiet ==
  ASSUME NEW t \in Tree
  PROVE  /\ \A w \in Workspaces, x \in Container \cup {None} :
              Quiet([t EXCEPT !.fs[w] = x], t) /\ Quiet([t EXCEPT !.prev[w] = x], t)
         /\ \A n \in Splits \cup Workspaces, x \in {"horiz", "vert", "tabbed", "stacked"} :
              Quiet([t EXCEPT !.layout[n] = x], t)
         /\ Quiet([t EXCEPT !.global = None], t)
         /\ \A c \in Container : Quiet([t EXCEPT !.mode[c] = "none"], t)
<1>1. ASSUME NEW w \in Workspaces, NEW x \in Container \cup {None}
      PROVE  Quiet([t EXCEPT !.fs[w] = x], t)
  <2> DEFINE r == [t EXCEPT !.fs[w] = x]
  <2>1. /\ r \in Tree /\ Same(r, t) /\ r.op = t.op /\ r.broken = t.broken
        /\ r.mode = t.mode /\ r.global = t.global
    BY DEF Tree, Same
  <2> HIDE DEF r
  <2>2. Quiet(r, t)
    BY <2>1 DEF Quiet, Carries, Minds, Operands, Same, Local, Goes
  <2> QED
    BY <2>2 DEF r
<1>2. ASSUME NEW w \in Workspaces, NEW x \in Container \cup {None}
      PROVE  Quiet([t EXCEPT !.prev[w] = x], t)
  <2> DEFINE r == [t EXCEPT !.prev[w] = x]
  <2>1. /\ r \in Tree /\ Same(r, t) /\ r.op = t.op /\ r.broken = t.broken
        /\ r.mode = t.mode /\ r.global = t.global
    BY DEF Tree, Same
  <2> HIDE DEF r
  <2>2. Quiet(r, t)
    BY <2>1 DEF Quiet, Carries, Minds, Operands, Same, Local, Goes
  <2> QED
    BY <2>2 DEF r
<1>3. ASSUME NEW n \in Splits \cup Workspaces, NEW x \in {"horiz", "vert", "tabbed", "stacked"}
      PROVE  Quiet([t EXCEPT !.layout[n] = x], t)
  <2> DEFINE r == [t EXCEPT !.layout[n] = x]
  <2>1. /\ r \in Tree /\ Same(r, t) /\ r.op = t.op /\ r.broken = t.broken
        /\ r.mode = t.mode /\ r.global = t.global
    BY DEF Tree, Same
  <2> HIDE DEF r
  <2>2. Quiet(r, t)
    BY <2>1 DEF Quiet, Carries, Minds, Operands, Same, Local, Goes
  <2> QED
    BY <2>2 DEF r
<1>4. Quiet([t EXCEPT !.global = None], t)
  <2> DEFINE r == [t EXCEPT !.global = None]
  <2>1. /\ r \in Tree /\ Same(r, t) /\ r.op = t.op /\ r.broken = t.broken
        /\ r.mode = t.mode /\ r.global = None
    BY DEF Tree, Same
  <2> HIDE DEF r
  <2>2. Quiet(r, t)
    BY <2>1 DEF Quiet, Carries, Minds, Operands, Same, Local, Goes
  <2> QED
    BY <2>2 DEF r
<1>5. ASSUME NEW c \in Container
      PROVE  Quiet([t EXCEPT !.mode[c] = "none"], t)
  <2> DEFINE r == [t EXCEPT !.mode[c] = "none"]
  <2>1. /\ r \in Tree /\ Same(r, t) /\ r.op = t.op /\ r.broken = t.broken
        /\ r.mode = [t.mode EXCEPT ![c] = "none"] /\ r.global = t.global
        /\ t.mode \in [Container -> Mode]
    BY DEF Tree, Same, Mode
  <2> HIDE DEF r
  <2>2. Quiet(r, t)
    BY <2>1 DEF Quiet, Carries, Minds, Operands, Same, Local, Goes
  <2> QED
    BY <2>2 DEF r
<1> QED
  BY <1>1, <1>2, <1>3, <1>4, <1>5

LEMMA DisableQuiet ==
  ASSUME NEW t \in Tree, NEW c \in Container
  PROVE  Quiet(Disable(t, c), t)
<1> DEFINE w == t.ws[c]
           fs == IF t.mode[c] = "workspace" /\ w # None
                   THEN [t.fs EXCEPT ![w] = None] ELSE t.fs
           g == IF t.mode[c] = "global" THEN None ELSE t.global
           r == [t EXCEPT !.mode[c] = "none", !.fs = fs, !.global = g]
<1>1. CASE t.life[c] = "freed"
  BY <1>1, BreakQuiet DEF Disable, Breach
<1>2. CASE t.life[c] # "freed" /\ t.mode[c] = "none"
  BY <1>2, BreakQuiet DEF Disable, Breach
<1>3. CASE t.life[c] # "freed" /\ t.mode[c] # "none"
  <2>1. Disable(t, c) = EndMouseOperation(r, c)
    BY <1>3 DEF Disable
  <2>2. fs \in [Workspaces -> Container \cup {None}] /\ g \in Container \cup {None} /\ g \in {None, t.global}
    BY DEF Tree
  <2> HIDE DEF fs, g
  <2>3. Quiet(r, t)
    BY <2>2, ModeQuiet DEF Quiet, Mode
  <2>4. r \in Tree
    BY <2>3 DEF Quiet, Carries
  <2> HIDE DEF r
  <2> QED
    BY <2>1, <2>3, <2>4, EndMouseQuiet, QuietOn
<1> QED
  BY <1>1, <1>2, <1>3

LEMMA DisableIfQuiet ==
  ASSUME NEW t \in Tree
  PROVE  /\ \A c \in Container \cup {None} : Quiet(DisableIfSet(t, c), t)
         /\ \A c \in Container : /\ Quiet(DisableIfFullscreen(t, c), t)
                                 /\ Quiet(LeaveWorkspaceMode(t, c), t)
                                 /\ Quiet(LeaveGlobalMode(t, c), t)
BY DisableQuiet, QuietSame
   DEF DisableIfSet, DisableIfFullscreen, LeaveWorkspaceMode, LeaveGlobalMode

LEMMA EnterWorkspaceQuiet ==
  ASSUME NEW t \in Tree, NEW c \in Container
  PROVE  Quiet(EnterWorkspace(t, c), t)
<1> DEFINE w == t.ws[c]
           fs == IF w = None THEN t.fs ELSE [t.fs EXCEPT ![w] = c]
           g == t.global
           r == [t EXCEPT !.mode[c] = "workspace", !.fs = fs]
           q == [t EXCEPT !.mode[c] = "workspace", !.fs = fs, !.global = g]
<1>1. CASE t.mode[c] # "none"
  BY <1>1, BreakQuiet DEF EnterWorkspace, Breach
<1>2. CASE t.mode[c] = "none"
  <2>1. EnterWorkspace(t, c) = EndMouseOperation(r, c)
    BY <1>2 DEF EnterWorkspace
  <2>2. fs \in [Workspaces -> Container \cup {None}]
    BY DEF Tree
  <2> HIDE DEF fs
  <2>3. r = q /\ g \in Container \cup {None} /\ g \in {None, t.global}
    BY DEF Tree
  <2> HIDE DEF g, r
  <2>4. Quiet(q, t)
    BY <2>2, <2>3, ModeQuiet DEF Quiet, Mode
  <2>5. q \in Tree
    BY <2>4 DEF Quiet, Carries
  <2> HIDE DEF q
  <2> QED
    BY <2>1, <2>3, <2>4, <2>5, EndMouseQuiet, QuietOn
<1> QED
  BY <1>1, <1>2

\* Fullscreen on all outputs is quiet but for that.
Hushed(r, t) == Carries(r, t) /\ Same(r, t)

LEMMA HushedOn ==
  ASSUME NEW t, NEW u, NEW r, Hushed(u, t), Hushed(r, u)
  PROVE  Hushed(r, t)
BY DEF Hushed, Carries, Same, Goes

LEMMA QuietHushed ==
  ASSUME NEW t, NEW r, Quiet(r, t)
  PROVE  Hushed(r, t)
BY DEF Hushed, Quiet

LEMMA EnterGlobalHushed ==
  ASSUME NEW t \in Tree, NEW c \in Container
  PROVE  Hushed(EnterGlobal(t, c), t)
<1> DEFINE r == [t EXCEPT !.mode[c] = "global", !.global = c]
           q == [t EXCEPT !.mode[c] = "global", !.fs = t.fs, !.global = c]
<1>1. CASE t.mode[c] # "none"
  BY <1>1, BreakQuiet, QuietHushed DEF EnterGlobal, Breach
<1>2. CASE t.mode[c] = "none"
  <2>1. EnterGlobal(t, c) = EndMouseOperation(r, c)
    BY <1>2 DEF EnterGlobal
  <2>2. r = q /\ t.fs \in [Workspaces -> Container \cup {None}]
    BY DEF Tree
  <2>3. Hushed(q, t)
    BY <2>2, ModeQuiet DEF Hushed, Mode
  <2>4. q \in Tree
    BY <2>3 DEF Hushed, Carries
  <2> HIDE DEF q, r
  <2>5. Hushed(EndMouseOperation(q, c), q)
    BY <2>4, EndMouseQuiet, QuietHushed
  <2> QED
    BY <2>1, <2>2, <2>3, <2>5, HushedOn
<1> QED
  BY <1>1, <1>2

LEMMA DisplaceQuiet ==
  ASSUME NEW t \in Tree, NEW w \in Workspaces \cup {None}
  PROVE  Quiet(Displace(t, w), t)
<1>1. CASE w = None \/ t.fs[w] = None
  BY <1>1, QuietSame DEF Displace
<1>2. CASE ~(w = None \/ t.fs[w] = None)
  <2> DEFINE c == t.fs[w]
             r == [t EXCEPT !.prev[w] = c]
  <2>1. c \in Container /\ w \in Workspaces
    BY <1>2 DEF Tree
  <2>2. Displace(t, w) = Disable(r, c)
    BY <1>2 DEF Displace
  <2> HIDE DEF c
  <2>3. Quiet(r, t)
    BY <2>1, FieldQuiet
  <2> HIDE DEF r
  <2>4. Quiet(Disable(r, c), r)
    BY <2>1, <2>3, DisableQuiet DEF Quiet, Carries
  <2> QED
    BY <2>2, <2>3, <2>4, QuietOn
<1> QED
  BY <1>1, <1>2

LEMMA QuietTree ==
  ASSUME NEW t, NEW r, Quiet(r, t)
  PROVE  r \in Tree
BY DEF Quiet, Carries

LEMMA FullscreenWorkspaceQuiet ==
  ASSUME NEW t \in Tree, NEW c \in Container
  PROVE  Quiet(FullscreenWorkspace(t, c), t)
<1> DEFINE u == DisableIfSet(t, t.global)
           v == Displace(u, t.ws[c])
<1>1. t.global \in Container \cup {None} /\ t.ws[c] \in Workspaces \cup {None}
  BY DEF Tree
<1>2. Quiet(u, t) /\ u \in Tree
  BY <1>1, DisableIfQuiet, QuietTree
<1> HIDE DEF u
<1>3. Quiet(v, u) /\ v \in Tree
  BY <1>1, <1>2, DisplaceQuiet, QuietTree
<1>4. FullscreenWorkspace(t, c) = IF t.mode[c] = "workspace" THEN t ELSE EnterWorkspace(v, c)
  BY DEF FullscreenWorkspace, u
<1> HIDE DEF v
<1>5. Quiet(EnterWorkspace(v, c), t)
  BY <1>2, <1>3, EnterWorkspaceQuiet, QuietOn
<1> QED
  BY <1>4, <1>5, QuietSame

LEMMA FullscreenGlobalHushed ==
  ASSUME NEW t \in Tree, NEW c \in Container
  PROVE  Hushed(FullscreenGlobal(t, c), t)
<1> DEFINE u == DisableIfSet(t, t.global)
           v == LeaveWorkspaceMode(u, c)
<1>1. Quiet(u, t) /\ u \in Tree
  BY DisableIfQuiet, QuietTree DEF Tree
<1> HIDE DEF u
<1>2. Quiet(v, u) /\ v \in Tree
  BY <1>1, DisableIfQuiet, QuietTree
<1>3. FullscreenGlobal(t, c) = EnterGlobal(v, c)
  BY DEF FullscreenGlobal, u
<1> HIDE DEF v
<1> QED
  BY <1>1, <1>2, <1>3, EnterGlobalHushed, QuietHushed, HushedOn

LEMMA RestorePreviousQuiet ==
  ASSUME NEW t \in Tree, NEW w \in Workspaces \cup {None}
  PROVE  Quiet(RestorePrevious(t, w), t)
<1> DEFINE p == t.prev[w]
           u == [t EXCEPT !.prev[w] = None]
<1>1. CASE w = None \/ p = None \/ t.life[p] = "destroying"
  <2>1. RestorePrevious(t, w) \in {t, Break(t, "freed")}
    BY <1>1 DEF RestorePrevious
  <2> QED
    BY <2>1, QuietSame, BreakQuiet DEF Breach
<1>2. CASE w # None /\ p # None /\ t.life[p] = "freed"
  <2>1. RestorePrevious(t, w) = Break(t, "freed")
    BY <1>2 DEF RestorePrevious
  <2> QED
    BY <2>1, BreakQuiet DEF Breach
<1>3. CASE w # None /\ p # None /\ t.life[p] \notin {"freed", "destroying"}
  <2>1. RestorePrevious(t, w) = FullscreenWorkspace(u, p)
    BY <1>3 DEF RestorePrevious
  <2>2. p \in Container /\ w \in Workspaces
    BY <1>3 DEF Tree
  <2> HIDE DEF p
  <2>3. Quiet(u, t) /\ u \in Tree
    BY <2>2, FieldQuiet, QuietTree
  <2> HIDE DEF u
  <2> QED
    BY <2>1, <2>2, <2>3, FullscreenWorkspaceQuiet, QuietOn
<1> QED
  BY <1>1, <1>2, <1>3

LEMMA SetFullscreenQuiet ==
  ASSUME NEW t \in Tree, NEW c \in Container, NEW mode \in Mode
  PROVE  /\ Hushed(SetFullscreen(t, c, mode), t)
         /\ mode # "global" => Quiet(SetFullscreen(t, c, mode), t)
<1>1. CASE t.mode[c] = mode
  BY <1>1, QuietSame, QuietHushed DEF SetFullscreen
<1>2. CASE t.mode[c] # mode /\ mode = "none"
  <2>1. Quiet(Disable(t, c), t) /\ Disable(t, c) \in Tree
    BY DisableQuiet, QuietTree
  <2>2. t.ws[c] \in Workspaces \cup {None}
    BY DEF Tree
  <2>3. SetFullscreen(t, c, mode) = RestorePrevious(Disable(t, c), t.ws[c])
    BY <1>2 DEF SetFullscreen
  <2> QED
    BY <2>1, <2>2, <2>3, RestorePreviousQuiet, QuietOn, QuietHushed
<1>3. CASE t.mode[c] # mode /\ mode = "workspace"
  BY <1>3, FullscreenWorkspaceQuiet, QuietHushed DEF SetFullscreen
<1>4. CASE t.mode[c] # mode /\ mode = "global"
  BY <1>4, FullscreenGlobalHushed DEF SetFullscreen
<1> QED
  BY <1>1, <1>2, <1>3, <1>4 DEF Mode

LEMMA ForgetFullscreenQuiet ==
  ASSUME NEW t \in Tree, NEW c \in Container
  PROVE  Quiet(ForgetFullscreen(t, c), t)
<1>1. t.ws[c] \in Workspaces \cup {None}
  BY DEF Tree
<1>2. CASE t.mode[c] = "workspace" /\ t.ws[c] = None
  BY <1>2, BreakQuiet DEF ForgetFullscreen, Breach
<1>3. CASE t.mode[c] = "workspace" /\ t.ws[c] # None
  BY <1>1, <1>3, FieldQuiet DEF ForgetFullscreen
<1>4. CASE t.mode[c] = "global"
  BY <1>4, FieldQuiet DEF ForgetFullscreen
<1>5. CASE t.mode[c] \notin {"workspace", "global"}
  BY <1>5, QuietSame DEF ForgetFullscreen
<1> QED
  BY <1>2, <1>3, <1>4, <1>5

LEMMA ReparentQuiet ==
  ASSUME NEW t \in Tree, NEW c \in Container
  PROVE  Quiet(HandleFullscreenReparent(t, c), t)
<1> DEFINE w == t.ws[c]
           u == DisableIfSet(t, t.fs[w])
<1>1. CASE t.mode[c] # "workspace" \/ w = None \/ t.fs[w] = c
  BY <1>1, QuietSame DEF HandleFullscreenReparent
<1>2. CASE ~(t.mode[c] # "workspace" \/ w = None \/ t.fs[w] = c)
  <2>1. w \in Workspaces /\ t.fs[w] \in Container \cup {None}
    BY <1>2 DEF Tree
  <2>2. HandleFullscreenReparent(t, c) = [u EXCEPT !.fs[w] = c]
    BY <1>2 DEF HandleFullscreenReparent
  <2> HIDE DEF w
  <2>3. Quiet(u, t) /\ u \in Tree
    BY <2>1, DisableIfQuiet, QuietTree
  <2> HIDE DEF u
  <2> QED
    BY <2>1, <2>2, <2>3, FieldQuiet, QuietOn
<1> QED
  BY <1>1, <1>2

LEMMA CleanQuiet ==
  ASSUME NEW t \in Tree, NEW c \in Container
  PROVE  Quiet(CleanReferences(t, c), t)
<1> DEFINE w == t.ws[c]
           u == IF w # None /\ t.prev[w] = c THEN [t EXCEPT !.prev[w] = None] ELSE t
           v == [u EXCEPT !.fs[w] = None]
           x == RestorePrevious(v, w)
<1>1. w \in Workspaces \cup {None}
  BY DEF Tree
<1>2. CleanReferences(t, c) = IF w = None \/ t.mode[c] # "workspace" THEN u
                              ELSE [x EXCEPT !.mode[c] = "none"]
  BY DEF CleanReferences
<1> HIDE DEF w
<1>3. Quiet(u, t) /\ u \in Tree
  BY <1>1, FieldQuiet, QuietSame, QuietTree
<1> HIDE DEF u
<1>4. CASE w # None
  <2>1. Quiet(v, u) /\ v \in Tree
    BY <1>1, <1>3, <1>4, FieldQuiet, QuietTree
  <2> HIDE DEF v
  <2>2. Quiet(x, v) /\ x \in Tree
    BY <1>1, <2>1, RestorePreviousQuiet, QuietTree
  <2> HIDE DEF x
  <2>3. Quiet([x EXCEPT !.mode[c] = "none"], x)
    BY <2>2, FieldQuiet
  <2> QED
    BY <1>2, <1>3, <2>1, <2>2, <2>3, QuietOn
<1> QED
  BY <1>2, <1>3, <1>4

(***************************************************************************)
(* Walks along a sequence.                                                 *)
(***************************************************************************)
LEMMA LeastExists ==
  ASSUME NEW I \in SUBSET Nat, I # {}
  PROVE  \E x \in I : \A y \in I : x <= y
<1>1. \E x \in I : \A y \in I : <<y, x>> \notin OpToRel(<, Nat)
  BY NatLessThanWellFounded, WFMin
<1>2. PICK x \in I : \A y \in I : <<y, x>> \notin OpToRel(<, Nat)
  BY <1>1
<1>3. \A y \in I : ~(y < x)
  BY <1>2 DEF OpToRel
<1> QED
  BY <1>3

\* What holds at first and is kept by every step holds all along.
LEMMA Counting ==
  ASSUME NEW n \in Nat, NEW G, 0 \in G, \A i \in 1 .. n : i - 1 \in G => i \in G
  PROVE  \A i \in 0 .. n : i \in G
<1> DEFINE I == (0 .. n) \ G
<1> SUFFICES ASSUME I # {}
             PROVE  FALSE
  OBVIOUS
<1>1. I \in SUBSET Nat
  OBVIOUS
<1>2. PICK x \in I : \A y \in I : x <= y
  BY <1>1, LeastExists
<1>3. x \in 1 .. n /\ x \notin G
  BY <1>2
<1>4. x - 1 \in 0 .. n /\ ~(x <= x - 1)
  BY <1>3
<1>5. x - 1 \in G
  BY <1>2, <1>4
<1> QED
  BY <1>3, <1>5

Walk(f, m, T, base, g) ==
  /\ f \in [0 .. m -> T] /\ f[0] = base
  /\ \A i \in 1 .. m : f[i] = g[<<f[i - 1], i>>]

\* A walk whose steps stay in T exists.
LEMMA FoldExists ==
  ASSUME NEW n \in Nat, NEW T, NEW base \in T, NEW g \in [T \X (1 .. n) -> T]
  PROVE  \E f : Walk(f, n, T, base, g)
<1> DEFINE G == {m \in 0 .. n : \E f : Walk(f, m, T, base, g)}
<1>1. 0 \in G
  <2>1. Walk([i \in 0 .. 0 |-> base], 0, T, base, g)
    BY DEF Walk
  <2>2. 0 \in 0 .. n
    OBVIOUS
  <2> QED
    BY <2>1, <2>2
<1>2. ASSUME NEW m \in 1 .. n, m - 1 \in G
      PROVE  m \in G
  <2>1. PICK f : Walk(f, m - 1, T, base, g)
    BY <1>2
  <2> DEFINE h == [i \in 0 .. m |-> IF i = m THEN g[<<f[m - 1], m>>] ELSE f[i]]
  <2>2. m - 1 \in 0 .. m - 1 /\ m # 0 /\ m \in Nat
    OBVIOUS
  <2>3. g[<<f[m - 1], m>>] \in T
    BY <2>1, <2>2 DEF Walk
  <2>4. h \in [0 .. m -> T]
    BY <2>1, <2>3 DEF Walk
  <2>5. h[0] = base
    BY <2>1, <2>2 DEF Walk
  <2>6. ASSUME NEW i \in 1 .. m
        PROVE  h[i] = g[<<h[i - 1], i>>]
    <3>1. i - 1 \in 0 .. m /\ i - 1 # m /\ i \in 0 .. m
      BY <2>2
    <3>2. h[i - 1] = f[i - 1]
      BY <3>1
    <3>3. CASE i = m
      BY <3>1, <3>2, <3>3
    <3>4. CASE i # m
      <4>1. i \in 1 .. m - 1
        BY <2>2, <3>4
      <4>2. f[i] = g[<<f[i - 1], i>>] /\ h[i] = f[i]
        BY <2>1, <3>1, <3>4, <4>1 DEF Walk
      <4> QED
        BY <3>2, <4>2
    <3> QED
      BY <3>3, <3>4
  <2>7. Walk(h, m, T, base, g)
    BY <2>4, <2>5, <2>6 DEF Walk
  <2>8. m \in 0 .. n
    OBVIOUS
  <2> HIDE DEF h
  <2> QED
    BY <2>7, <2>8
<1> HIDE DEF G
<1>3. n \in 0 .. n /\ \A i \in 0 .. n : i \in G
  BY <1>1, <1>2, Counting
<1>4. n \in G
  BY <1>3
<1> QED
  BY <1>4 DEF G

LEMMA SetToSeqType ==
  ASSUME NEW S, IsFiniteSet(S)
  PROVE  SetToSeq(S) \in Seq(S)
<1>1. Cardinality(S) \in Nat /\ ExistsBijection(1 .. Cardinality(S), S)
  BY FS_CardinalityType
<1>2. PICK f \in Bijection(1 .. Cardinality(S), S) : TRUE
  BY <1>1 DEF ExistsBijection
<1>3. f \in [1 .. Cardinality(S) -> S] /\ IsInjective(f)
  BY <1>2, Fun_BijectionProperties DEF Bijection, Injection, IsInjective
<1>4. SetToSeq(S) \in [1 .. Cardinality(S) -> S]
  BY <1>3 DEF SetToSeq
<1> HIDE DEF SetToSeq
<1> QED
  BY <1>1, <1>4


------------------------------------------------------------------------------
(***************************************************************************)
(* What is below a container.                                              *)
(***************************************************************************)
Spread(t, S) == S \cup UNION {t.kids[x] : x \in S \cap Splits}

\* Nothing outside S is below something in S.
Closed(t, S) == \A x \in S \cap Splits : t.kids[x] \subseteq S

LEMMA SplitsFinite == IsFiniteSet(Splits) /\ Cardinality(Splits) \in Nat
BY ConstantsOK, FS_Subset, FS_CardinalityType DEF Container

LEMMA InsideGrows ==
  ASSUME NEW t \in Tree, NEW c \in Container
  PROVE  \E f \in [0 .. Cardinality(Splits) -> SUBSET Container] :
            /\ f[0] = {c}
            /\ \A i \in 1 .. Cardinality(Splits) : f[i] = Spread(t, f[i - 1])
            /\ Inside(t, c) = f[Cardinality(Splits)]
<1> DEFINE N == Cardinality(Splits)
           T == SUBSET Container
           g == [p \in T \X (1 .. N) |-> Spread(t, p[1])]
<1>1. N \in Nat
  BY SplitsFinite
<1>2. ASSUME NEW S \in T
      PROVE  Spread(t, S) \in T
  BY DEF Tree, Spread
<1>3. g \in [T \X (1 .. N) -> T]
  BY <1>2
<1> HIDE DEF N
<1>4. PICK f : Walk(f, N, T, {c}, g)
  BY <1>1, <1>3, FoldExists
<1>5. \A i \in 1 .. N : f[i] = Spread(t, f[i - 1])
  <2> SUFFICES ASSUME NEW i \in 1 .. N
               PROVE  f[i] = Spread(t, f[i - 1])
    OBVIOUS
  <2>1. i - 1 \in 0 .. N
    BY <1>1
  <2>2. <<f[i - 1], i>> \in T \X (1 .. N)
    BY <1>4, <2>1 DEF Walk
  <2> QED
    BY <1>4, <2>2 DEF Walk
<1> DEFINE E(h) == [i \in 0 .. N |-> IF i = 0 THEN {c}
                      ELSE h[i - 1] \cup UNION {t.kids[x] : x \in h[i - 1] \cap Splits}]
           grow == CHOOSE h : h = E(h)
<1>6. f = E(f)
  BY <1>1, <1>4, <1>5 DEF Walk, Spread
<1>7. grow = E(grow)
  BY <1>6
<1>8. Inside(t, c) = grow[N]
  BY DEF Inside, N
<1> HIDE DEF grow
<1>9. /\ grow[0] = {c}
      /\ \A i \in 1 .. N : grow[i] = Spread(t, grow[i - 1])
      /\ DOMAIN grow = 0 .. N
  BY <1>1, <1>7 DEF Spread
<1>10. \A i \in 0 .. N : grow[i] \in T
  <2> DEFINE G == {i \in 0 .. N : grow[i] \in T}
  <2>1. 0 \in G /\ \A i \in 1 .. N : i - 1 \in G => i \in G
    BY <1>1, <1>2, <1>9
  <2> HIDE DEF G
  <2>2. \A i \in 0 .. N : i \in G
    BY <1>1, <2>1, Counting
  <2> QED
    BY <2>2 DEF G
<1>11. grow = [i \in 0 .. N |-> grow[i]]
  BY <1>7, <1>9
<1>12. grow \in [0 .. N -> T]
  BY <1>10, <1>11
<1> QED
  BY <1>8, <1>9, <1>12 DEF N

LEMMA InsideClosed ==
  ASSUME NEW t \in Tree, NEW c \in Container
  PROVE  /\ Inside(t, c) \in SUBSET Container /\ c \in Inside(t, c)
         /\ Closed(t, Inside(t, c))
<1> DEFINE N == Cardinality(Splits)
<1>1. N \in Nat /\ IsFiniteSet(Splits)
  BY SplitsFinite
<1>2. PICK f \in [0 .. N -> SUBSET Container] :
            /\ f[0] = {c}
            /\ \A i \in 1 .. N : f[i] = Spread(t, f[i - 1])
            /\ Inside(t, c) = f[N]
  BY InsideGrows
<1> HIDE DEF N
<1>3. \A i \in 0 .. N : /\ IsFiniteSet(f[i] \cap Splits)
                        /\ Cardinality(f[i] \cap Splits) \in Nat
                        /\ Cardinality(f[i] \cap Splits) <= Cardinality(Splits)
  BY <1>1, FS_Subset, FS_CardinalityType
<1>8. \E z \in [0 .. N -> Nat] : \A i \in 0 .. N : z[i] = Cardinality(f[i] \cap Splits)
  <2>1. [i \in 0 .. N |-> Cardinality(f[i] \cap Splits)] \in [0 .. N -> Nat]
    BY <1>3
  <2> QED
    BY <2>1
<1>9. PICK Size \in [0 .. N -> Nat] : \A i \in 0 .. N : Size[i] = Cardinality(f[i] \cap Splits)
  BY <1>8
<1>10. \A i \in 0 .. N : Size[i] \in Nat /\ Size[i] <= N
  BY <1>3, <1>9 DEF N
<1> DEFINE G == {i \in 0 .. N : c \in f[i] /\ (Closed(t, f[i]) \/ Size[i] > i)}
<1>4. 0 \in G
  <2>1. CASE c \in Splits
    <3>1. f[0] \cap Splits = {c}
      BY <1>2, <2>1
    <3>2. Size[0] = 1
      <4>1. 0 \in 0 .. N /\ Cardinality({c}) = 1
        <5>1. Cardinality({c}) = 1
          BY FS_Singleton
        <5> QED
          BY <1>1, <5>1
      <4> QED
        BY <1>9, <3>1, <4>1
    <3> QED
      BY <1>1, <1>2, <3>2
  <2>2. CASE c \notin Splits
    BY <1>1, <1>2, <2>2 DEF Closed
  <2> QED
    BY <2>1, <2>2
<1>5. ASSUME NEW i \in 1 .. N, i - 1 \in G
      PROVE  i \in G
  <2>1. /\ i - 1 \in 0 .. N /\ i \in 0 .. N /\ f[i] = Spread(t, f[i - 1]) /\ c \in f[i - 1]
        /\ Closed(t, f[i - 1]) \/ Size[i - 1] > i - 1
    BY <1>1, <1>2, <1>5
  <2>2. f[i - 1] \in SUBSET Container /\ f[i] \in SUBSET Container
    BY <1>2, <2>1
  <2>3. f[i - 1] \subseteq f[i] /\ \A x \in f[i - 1] \cap Splits : t.kids[x] \subseteq f[i]
    BY <2>1 DEF Spread
  <2>4. CASE Closed(t, f[i - 1])
    <3>1. f[i] = f[i - 1]
      BY <2>1, <2>4 DEF Spread, Closed
    <3> QED
      BY <2>1, <2>4, <3>1
  <2>5. CASE f[i - 1] \cap Splits = f[i] \cap Splits
    <3>1. Closed(t, f[i])
      BY <2>3, <2>5 DEF Closed
    <3> QED
      BY <2>1, <2>3, <3>1
  <2>6. CASE Size[i - 1] > i - 1 /\ f[i - 1] \cap Splits # f[i] \cap Splits
    <3>1. f[i - 1] \cap Splits \in SUBSET (f[i] \cap Splits)
      BY <2>3
    <3>2. Size[i - 1] <= Size[i] /\ Size[i - 1] # Size[i]
      BY <1>3, <1>9, <2>1, <2>6, <3>1, FS_Subset
    <3>3. Size[i - 1] \in Nat /\ Size[i] \in Nat /\ i \in Nat
      BY <1>1, <1>10, <2>1
    <3>4. Size[i] > i
      BY <2>6, <3>2, <3>3
    <3> QED
      BY <2>1, <2>3, <3>4
  <2> QED
    BY <2>1, <2>4, <2>5, <2>6
<1> HIDE DEF G
<1>11. \A i \in 0 .. N : i \in G
  BY <1>1, <1>4, <1>5, Counting
<1>6. N \in G
  BY <1>1, <1>11
<1>7. c \in f[N] /\ Closed(t, f[N])
  <2>1. N \in 0 .. N /\ Size[N] \in Nat /\ Size[N] <= N
    BY <1>1, <1>10
  <2>2. ~(Size[N] > N)
    BY <1>1, <2>1
  <2> QED
    BY <1>6, <2>2 DEF G
<1> QED
  BY <1>1, <1>2, <1>7

LEMMA InsideLeast ==
  ASSUME NEW t \in Tree, NEW c \in Container, NEW S, c \in S, Closed(t, S)
  PROVE  Inside(t, c) \subseteq S
<1> DEFINE N == Cardinality(Splits)
<1>1. N \in Nat
  BY SplitsFinite
<1>2. PICK f \in [0 .. N -> SUBSET Container] :
            /\ f[0] = {c}
            /\ \A i \in 1 .. N : f[i] = Spread(t, f[i - 1])
            /\ Inside(t, c) = f[N]
  BY InsideGrows
<1> DEFINE G == {i \in 0 .. N : f[i] \subseteq S}
<1>3. 0 \in G
  BY <1>1, <1>2
<1>4. ASSUME NEW i \in 1 .. N, i - 1 \in G
      PROVE  i \in G
  BY <1>1, <1>2, <1>4 DEF Spread, Closed
<1> HIDE DEF G
<1>5. N \in G
  BY <1>1, <1>3, <1>4, Counting
<1> QED
  BY <1>1, <1>2, <1>5 DEF G

(***************************************************************************)
(* The shape of a tree, as the operations keep it between their steps.     *)
(***************************************************************************)
Linked(t) ==
  \A c \in Container :
    /\ \A p \in Splits : c \in t.kids[p] <=> t.parent[c] = p
    /\ \A w \in Workspaces :
         /\ c \in t.tiling[w] \cup t.floating[w] <=> t.parent[c] = None /\ t.ws[c] = w
         /\ c \notin t.tiling[w] \cap t.floating[w]

Together(t) ==
  \A c \in Container : t.parent[c] # None => t.ws[c] = t.ws[t.parent[c]]

Rooted(t) ==
  \A c \in Container : t.parent[c] # None => t.parent[c] \notin Inside(t, c)

Living(t) ==
  \A c \in Container :
    /\ t.parent[c] # None \/ t.ws[c] # None \/ c \in t.scratch => t.life[c] = "live"
    /\ t.parent[c] # None => t.life[t.parent[c]] = "live"

Shelved(t) ==
  \A c \in t.scratch : /\ t.parent[c] = None
                       /\ t.ws[c] # None => c \in t.floating[t.ws[c]]

Shape(t) == Linked(t) /\ Together(t) /\ Rooted(t) /\ Living(t) /\ Shelved(t)
Fit(t) == t \in Tree /\ Local(t) /\ Shape(t)

\* What a handler must not leave behind: windows nobody can show, and splits
\* without children.
Lost(t) ==
  {c \in Container : /\ t.life[c] = "live" /\ t.parent[c] = None
                     /\ t.ws[c] = None /\ c \notin t.scratch}
Empty(t) == {p \in Splits : t.life[p] = "live" /\ t.kids[p] = {}}

LEMMA Nothing == None \notin Container /\ None \notin Workspaces /\ None \notin Splits
                 /\ Splits \subseteq Container /\ Views \subseteq Container
                 /\ Container \cap Workspaces = {} /\ Views \cap Splits = {}
BY ConstantsOK DEF Container

LEMMA TreeTypes ==
  ASSUME NEW t \in Tree
  PROVE  /\ \A c \in Container : /\ t.parent[c] \in Splits \cup {None}
                                 /\ t.ws[c] \in Workspaces \cup {None}
                                 /\ t.mode[c] \in Mode /\ t.life[c] \in Life
         /\ \A p \in Splits : t.kids[p] \in SUBSET Container
         /\ \A w \in Workspaces : /\ t.tiling[w] \in SUBSET Container
                                  /\ t.floating[w] \in SUBSET Container
                                  /\ t.fs[w] \in Container \cup {None}
                                  /\ t.prev[w] \in Container \cup {None}
         /\ t.scratch \in SUBSET Container /\ t.global \in Container \cup {None}
         /\ t.op \in SeatOp
BY DEF Tree

LEMMA InsideType ==
  ASSUME NEW t \in Tree, NEW c \in Container
  PROVE  /\ Inside(t, c) \in SUBSET Container /\ c \in Inside(t, c)
         /\ \A x \in Inside(t, c) : x \in Splits => t.kids[x] \subseteq Inside(t, c)
BY InsideClosed DEF Closed

LEMMA InsideTrans ==
  ASSUME NEW t \in Tree, NEW a \in Container, NEW b \in Container, a \in Inside(t, b)
  PROVE  Inside(t, a) \subseteq Inside(t, b)
BY InsideClosed, InsideLeast

\* The way up from below a container stays below it.
LEMMA InsideParent ==
  ASSUME NEW t \in Tree, Linked(t), NEW a \in Container, NEW x \in Inside(t, a), x # a
  PROVE  t.parent[x] \in Splits /\ t.parent[x] \in Inside(t, a)
<1> DEFINE S == {y \in Inside(t, a) : y = a \/ (t.parent[y] \in Splits /\ t.parent[y] \in Inside(t, a))}
<1>1. a \in S
  BY InsideType
<1>2. Closed(t, S)
  <2> SUFFICES ASSUME NEW y \in S \cap Splits, NEW z \in t.kids[y]
               PROVE  z \in S
    BY DEF Closed
  <2>1. z \in Container /\ z \in Inside(t, a)
    BY InsideType, TreeTypes
  <2>2. t.parent[z] = y
    BY <2>1 DEF Linked
  <2> QED
    BY <2>1, <2>2
<1> HIDE DEF S
<1>3. Inside(t, a) \subseteq S
  BY <1>1, <1>2, InsideLeast
<1> QED
  BY <1>3 DEF S

LEMMA InsideChild ==
  ASSUME NEW t \in Tree, Linked(t), NEW a \in Container, NEW x \in Container,
         t.parent[x] \in Inside(t, a)
  PROVE  x \in Inside(t, a)
<1>1. t.parent[x] \in Splits
  BY TreeTypes, InsideType, Nothing
<1>2. x \in t.kids[t.parent[x]]
  BY <1>1 DEF Linked
<1> QED
  BY <1>1, <1>2, InsideType

LEMMA InsideParentOf ==
  ASSUME NEW t \in Tree, Linked(t), NEW x \in Container, t.parent[x] # None
  PROVE  x \in Inside(t, t.parent[x]) /\ t.parent[x] \in Splits
<1>1. t.parent[x] \in Splits
  BY TreeTypes
<1> QED
  BY <1>1, InsideChild, InsideType, Nothing

LEMMA Ancestors ==
  ASSUME NEW t \in Tree, Linked(t), NEW a \in Container, NEW b \in Container,
         NEW c \in Inside(t, a), c \in Inside(t, b)
  PROVE  a \in Inside(t, b) \/ b \in Inside(t, a)
<1> DEFINE D == a \in Inside(t, b) \/ b \in Inside(t, a)
           S == {x \in Inside(t, b) : x \in Inside(t, a) => D}
<1>1. b \in S
  BY InsideType
<1>2. Closed(t, S)
  <2> SUFFICES ASSUME NEW y \in S \cap Splits, NEW z \in t.kids[y], z \in Inside(t, a)
               PROVE  z \in Inside(t, b) /\ D
    BY InsideType DEF Closed
  <2>1. z \in Container /\ z \in Inside(t, b)
    BY InsideType, TreeTypes
  <2>2. t.parent[z] = y
    BY <2>1 DEF Linked
  <2>3. CASE z = a
    BY <2>1, <2>3
  <2>4. CASE z # a
    BY <2>1, <2>2, <2>4, InsideParent
  <2> QED
    BY <2>3, <2>4
<1> HIDE DEF S
<1>3. c \in S
  BY <1>1, <1>2, InsideLeast
<1> QED
  BY <1>3 DEF S

LEMMA InsideBoth ==
  ASSUME NEW t \in Tree, Linked(t), Rooted(t), NEW a \in Container, NEW b \in Container,
         a \in Inside(t, b), b \in Inside(t, a)
  PROVE  a = b
<1> SUFFICES ASSUME a # b
             PROVE  FALSE
  OBVIOUS
<1>1. t.parent[a] \in Splits /\ t.parent[a] \in Inside(t, b)
  BY InsideParent
<1>2. t.parent[a] \in Inside(t, a)
  BY <1>1, InsideTrans
<1> QED
  BY <1>1, <1>2, Nothing DEF Rooted

\* Two children of one split, or two roots.
LEMMA Apart ==
  ASSUME NEW t \in Tree, Linked(t), Rooted(t), NEW a \in Container, NEW b \in Container,
         a # b, t.parent[a] = t.parent[b]
  PROVE  Inside(t, a) \cap Inside(t, b) = {}
<1>1. ASSUME NEW x \in Container, NEW y \in Container, x # y,
             t.parent[x] = t.parent[y], x \in Inside(t, y)
      PROVE  FALSE
  <2>1. t.parent[x] \in Splits /\ t.parent[x] \in Inside(t, y)
    BY <1>1, InsideParent
  <2> QED
    BY <1>1, <2>1, Nothing DEF Rooted
<1> SUFFICES ASSUME NEW c \in Inside(t, a), c \in Inside(t, b)
             PROVE  FALSE
  OBVIOUS
<1> QED
  BY <1>1, Ancestors

LEMMA InsideWorkspace ==
  ASSUME NEW t \in Tree, Linked(t), Together(t), NEW c \in Container, NEW x \in Inside(t, c)
  PROVE  t.ws[x] = t.ws[c]
<1> DEFINE S == {y \in Inside(t, c) : t.ws[y] = t.ws[c]}
<1>1. c \in S
  BY InsideType
<1>2. Closed(t, S)
  <2> SUFFICES ASSUME NEW y \in S \cap Splits, NEW z \in t.kids[y]
               PROVE  z \in S
    BY DEF Closed
  <2>1. z \in Container /\ z \in Inside(t, c)
    BY InsideType, TreeTypes
  <2>2. t.parent[z] = y
    BY <2>1 DEF Linked
  <2> QED
    BY <2>1, <2>2, Nothing DEF Together
<1> HIDE DEF S
<1>3. x \in S
  BY <1>1, <1>2, InsideLeast
<1> QED
  BY <1>3 DEF S

LEMMA InsideLive ==
  ASSUME NEW t \in Tree, Linked(t), Living(t), NEW c \in Container, NEW x \in Inside(t, c),
         t.life[x] = "live" \/ t.life[c] = "live"
  PROVE  t.life[x] = "live" /\ t.life[c] = "live"
<1>1. CASE x = c
  BY <1>1
<1>2. CASE x # c
  <2>1. x \in Container /\ t.parent[x] # None
    BY <1>2, InsideType, InsideParent, Nothing
  <2>2. t.life[x] = "live"
    BY <2>1 DEF Living
  <2>3. t.kids[c] # {} /\ c \in Splits
    <3> SUFFICES ASSUME ~(c \in Splits /\ t.kids[c] # {})
                 PROVE  FALSE
      OBVIOUS
    <3>1. Closed(t, {c})
      BY DEF Closed
    <3> QED
      BY <1>2, <3>1, InsideLeast
  <2>4. PICK k \in t.kids[c] : TRUE
    BY <2>3
  <2>5. k \in Container /\ t.parent[k] = c
    BY <2>3, <2>4, TreeTypes DEF Linked
  <2> QED
    BY <2>2, <2>3, <2>5, Nothing DEF Living
<1> QED
  BY <1>1, <1>2

LEMMA InsideAlone ==
  ASSUME NEW t \in Tree, NEW c \in Container, c \in Splits => t.kids[c] = {}
  PROVE  Inside(t, c) = {c}
<1>1. Closed(t, {c})
  BY DEF Closed
<1> QED
  BY <1>1, InsideLeast, InsideType

LEMMA InsideShrinks ==
  ASSUME NEW t \in Tree, NEW r \in Tree, NEW c \in Container,
         \A x \in Inside(t, c) \cap Splits : r.kids[x] \subseteq Inside(t, c)
  PROVE  Inside(r, c) \subseteq Inside(t, c)
<1>1. Closed(r, Inside(t, c))
  BY DEF Closed
<1> QED
  BY <1>1, InsideType, InsideLeast

LEMMA InsideSame ==
  ASSUME NEW t \in Tree, NEW r \in Tree, NEW c \in Container,
         \A x \in Inside(t, c) \cap Splits : r.kids[x] = t.kids[x]
  PROVE  Inside(r, c) = Inside(t, c)
<1>1. Inside(r, c) \subseteq Inside(t, c)
  BY InsideType, InsideShrinks
<1>2. \A x \in Inside(r, c) \cap Splits : t.kids[x] \subseteq Inside(r, c)
  BY <1>1, InsideType
<1>3. Inside(t, c) \subseteq Inside(r, c)
  BY <1>2, InsideShrinks
<1> QED
  BY <1>1, <1>3

LEMMA InsideKids ==
  ASSUME NEW t, NEW r, NEW c, r.kids = t.kids
  PROVE  Inside(r, c) = Inside(t, c)
BY DEF Inside

LEMMA ToplevelParents ==
  ASSUME NEW t, NEW r, NEW c, r.parent = t.parent
  PROVE  Toplevel(r, c) = Toplevel(t, c)
BY DEF Toplevel

LEMMA SameShape ==
  ASSUME NEW t, NEW r, Same(r, t)
  PROVE  /\ Shape(r) <=> Shape(t)
         /\ Lost(r) = Lost(t) /\ Empty(r) = Empty(t)
         /\ \A c : Inside(r, c) = Inside(t, c) /\ Toplevel(r, c) = Toplevel(t, c)
<1>1. \A c : Inside(r, c) = Inside(t, c) /\ Toplevel(r, c) = Toplevel(t, c)
  BY InsideKids, ToplevelParents DEF Same
<1>2. Linked(r) <=> Linked(t)
  BY DEF Same, Linked
<1>3. Together(r) <=> Together(t)
  BY DEF Same, Together
<1>4. Rooted(r) <=> Rooted(t)
  BY <1>1 DEF Same, Rooted
<1>5. Living(r) <=> Living(t)
  BY DEF Same, Living
<1>6. Shelved(r) <=> Shelved(t)
  BY DEF Same, Shelved
<1>7. Lost(r) = Lost(t) /\ Empty(r) = Empty(t)
  BY DEF Same, Lost, Empty
<1> QED
  BY <1>1, <1>2, <1>3, <1>4, <1>5, <1>6, <1>7 DEF Shape

LEMMA QuietFit ==
  ASSUME NEW t, Fit(t), NEW r, Quiet(r, t)
  PROVE  Fit(r) /\ Lost(r) = Lost(t) /\ Empty(r) = Empty(t)
         /\ \A c : Inside(r, c) = Inside(t, c) /\ Toplevel(r, c) = Toplevel(t, c)
<1>1. r \in Tree /\ Same(r, t) /\ Local(r) /\ Shape(t)
  BY DEF Quiet, Carries, Fit
<1> QED
  BY <1>1, SameShape DEF Fit

Over(t, x) == IF t.parent[x] = None THEN x ELSE t.parent[x]

LEMMA ToplevelClimbs ==
  ASSUME NEW t \in Tree, NEW c \in Container
  PROVE  \E f \in [0 .. Cardinality(Splits) -> Container] :
            /\ f[0] = c
            /\ \A i \in 1 .. Cardinality(Splits) : f[i] = Over(t, f[i - 1])
            /\ Toplevel(t, c) = f[Cardinality(Splits)]
<1> DEFINE N == Cardinality(Splits)
           g == [p \in Container \X (1 .. N) |-> Over(t, p[1])]
<1>1. N \in Nat
  BY SplitsFinite
<1>2. ASSUME NEW x \in Container
      PROVE  Over(t, x) \in Container
  BY TreeTypes, Nothing DEF Over
<1>3. g \in [Container \X (1 .. N) -> Container]
  BY <1>2
<1> HIDE DEF N
<1>4. PICK f : Walk(f, N, Container, c, g)
  BY <1>1, <1>3, FoldExists
<1>5. \A i \in 1 .. N : f[i] = Over(t, f[i - 1])
  <2> SUFFICES ASSUME NEW i \in 1 .. N
               PROVE  f[i] = Over(t, f[i - 1])
    OBVIOUS
  <2>1. i - 1 \in 0 .. N
    BY <1>1
  <2>2. <<f[i - 1], i>> \in Container \X (1 .. N)
    BY <1>4, <2>1 DEF Walk
  <2> QED
    BY <1>4, <2>2 DEF Walk
<1> DEFINE E(h) == [n \in 0 .. N |-> IF n = 0 THEN c
                      ELSE IF t.parent[h[n-1]] = None THEN h[n-1]
                      ELSE t.parent[h[n-1]]]
           climb == CHOOSE h : h = E(h)
<1>6. f = E(f)
  BY <1>1, <1>4, <1>5 DEF Walk, Over
<1>7. climb = E(climb)
  BY <1>6
<1>8. Toplevel(t, c) = climb[N]
  BY DEF Toplevel, N
<1> HIDE DEF climb
<1>9. climb[0] = c /\ \A i \in 1 .. N : climb[i] = Over(t, climb[i - 1])
  BY <1>1, <1>7 DEF Over
<1> DEFINE G == {i \in 0 .. N : climb[i] = f[i]}
<1>10. 0 \in G /\ \A i \in 1 .. N : i - 1 \in G => i \in G
  BY <1>1, <1>4, <1>5, <1>9 DEF Walk
<1> HIDE DEF G
<1>11. \A i \in 0 .. N : i \in G
  BY <1>1, <1>10, Counting
<1>12. climb[N] = f[N]
  BY <1>1, <1>11 DEF G
<1>13. f \in [0 .. N -> Container] /\ f[0] = c
  BY <1>4 DEF Walk
<1> QED
  BY <1>5, <1>8, <1>12, <1>13 DEF N

LEMMA ToplevelType ==
  ASSUME NEW t \in Tree, NEW c \in Container
  PROVE  Toplevel(t, c) \in Container
BY ToplevelClimbs, SplitsFinite

LEMMA ToplevelRoot ==
  ASSUME NEW t \in Tree, Linked(t), Rooted(t), NEW c \in Container
  PROVE  t.parent[Toplevel(t, c)] = None /\ c \in Inside(t, Toplevel(t, c))
<1> DEFINE N == Cardinality(Splits)
<1>1. N \in Nat /\ IsFiniteSet(Splits)
  BY SplitsFinite
<1>2. PICK f \in [0 .. N -> Container] :
            /\ f[0] = c
            /\ \A i \in 1 .. N : f[i] = Over(t, f[i - 1])
            /\ Toplevel(t, c) = f[N]
  BY ToplevelClimbs
<1> HIDE DEF N
<1> DEFINE D(x) == Inside(t, x) \cap Splits
<1>3. \A x \in Container : IsFiniteSet(D(x)) /\ Cardinality(D(x)) \in Nat
  BY <1>1, FS_Subset, FS_CardinalityType
<1>4. \E z \in [0 .. N -> Nat] : \A i \in 0 .. N : z[i] = Cardinality(D(f[i]))
  <2>1. [i \in 0 .. N |-> Cardinality(D(f[i]))] \in [0 .. N -> Nat]
    BY <1>2, <1>3
  <2> QED
    BY <2>1
<1>5. PICK Size \in [0 .. N -> Nat] : \A i \in 0 .. N : Size[i] = Cardinality(D(f[i]))
  BY <1>4
<1> DEFINE G == {i \in 0 .. N : c \in Inside(t, f[i]) /\ (t.parent[f[i]] = None \/ Size[i] >= i)}
<1>6. 0 \in G
  BY <1>1, <1>2, InsideType
<1>7. ASSUME NEW i \in 1 .. N, i - 1 \in G
      PROVE  i \in G
  <2>1. /\ i - 1 \in 0 .. N /\ i \in 0 .. N /\ f[i] = Over(t, f[i - 1])
        /\ c \in Inside(t, f[i - 1]) /\ f[i - 1] \in Container /\ f[i] \in Container
        /\ t.parent[f[i - 1]] = None \/ Size[i - 1] >= i - 1
    BY <1>1, <1>2, <1>7
  <2>2. CASE t.parent[f[i - 1]] = None
    BY <2>1, <2>2 DEF Over
  <2>3. CASE t.parent[f[i - 1]] # None
    <3>1. f[i] = t.parent[f[i - 1]] /\ f[i] \in Splits /\ f[i - 1] \in Inside(t, f[i])
      BY <2>1, <2>3, InsideParentOf DEF Over
    <3>2. Inside(t, f[i - 1]) \subseteq Inside(t, f[i])
      BY <2>1, <3>1, InsideTrans
    <3>3. f[i] \notin Inside(t, f[i - 1]) /\ f[i] \in Inside(t, f[i])
      BY <2>1, <2>3, <3>1, InsideType DEF Rooted
    <3>4. D(f[i - 1]) \in SUBSET D(f[i]) /\ D(f[i - 1]) # D(f[i])
      BY <3>1, <3>2, <3>3
    <3>5. Cardinality(D(f[i - 1])) < Cardinality(D(f[i]))
      <4> HIDE DEF D
      <4> QED
        BY <1>3, <2>1, <3>4, FS_Subset, FS_CardinalityType
    <3>6. Size[i - 1] < Size[i] /\ Size[i] \in Nat /\ Size[i - 1] \in Nat
      BY <1>5, <2>1, <3>5
    <3>7. Size[i] >= i
      BY <1>1, <2>1, <2>3, <3>6
    <3> QED
      BY <2>1, <3>2, <3>7
  <2> QED
    BY <2>2, <2>3
<1> HIDE DEF G
<1>8. \A i \in 0 .. N : i \in G
  BY <1>1, <1>6, <1>7, Counting
<1>9. /\ c \in Inside(t, f[N]) /\ f[N] \in Container /\ N \in 0 .. N
      /\ t.parent[f[N]] = None \/ Size[N] >= N
  BY <1>1, <1>2, <1>8 DEF G
<1>10. ASSUME t.parent[f[N]] # None
       PROVE  FALSE
  <2>1. Cardinality(D(f[N])) >= Cardinality(Splits)
    BY <1>5, <1>9, <1>10 DEF N
  <2>2. D(f[N]) \in SUBSET Splits
    OBVIOUS
  <2>3. D(f[N]) = Splits
    <3> HIDE DEF D
    <3> QED
      BY <1>1, <1>3, <1>9, <2>1, <2>2, FS_Subset, FS_CardinalityType
  <2>4. t.parent[f[N]] \in Splits
    BY <1>9, <1>10, TreeTypes
  <2> QED
    BY <1>9, <1>10, <2>3, <2>4 DEF Rooted
<1> QED
  BY <1>2, <1>9, <1>10

\* The top of a tree is on the workspace of what is below it, or hidden too.
LEMMA ToplevelPlace ==
  ASSUME NEW t, Fit(t), NEW c \in Container
  PROVE  LET top == Toplevel(t, c)
         IN  /\ top \in Container /\ t.parent[top] = None /\ c \in Inside(t, top)
             /\ t.ws[top] = t.ws[c] /\ (t.life[c] = "live" => t.life[top] = "live")
             /\ t.parent[c] = None => top = c
<1> DEFINE top == Toplevel(t, c)
<1>1. t \in Tree /\ Linked(t) /\ Rooted(t) /\ Together(t) /\ Living(t)
  BY DEF Fit, Shape
<1>2. top \in Container /\ t.parent[top] = None /\ c \in Inside(t, top)
  BY <1>1, ToplevelType, ToplevelRoot
<1> HIDE DEF top
<1>3. t.ws[top] = t.ws[c] /\ (t.life[c] = "live" => t.life[top] = "live")
  BY <1>1, <1>2, InsideWorkspace, InsideLive
<1>4. t.parent[c] = None => top = c
  BY <1>1, <1>2, InsideParent, Nothing
<1> QED
  BY <1>2, <1>3, <1>4 DEF top

LEMMA NearestExists ==
  ASSUME NEW t \in Tree, Linked(t), NEW c \in Container, NEW S \in SUBSET Container,
         S # {}, \A a \in S : c \in Inside(t, a)
  PROVE  Nearest(t, S) \in S
<1> DEFINE Size(a) == Cardinality(Inside(t, a))
           I == {Size(a) : a \in S}
<1>1. \A a \in S : IsFiniteSet(Inside(t, a)) /\ Size(a) \in Nat
  BY InsideType, ConstantsOK, FS_Subset, FS_CardinalityType
<1>2. I \in SUBSET Nat /\ I # {}
  BY <1>1
<1>3. PICK n \in I : \A m \in I : n <= m
  BY <1>2, LeastExists
<1>4. PICK a \in S : n = Size(a)
  BY <1>3
<1>5. ASSUME NEW b \in S
      PROVE  a \in Inside(t, b)
  <2>1. CASE b \in Inside(t, a)
    <3>1. Inside(t, b) \in SUBSET Inside(t, a)
      BY <2>1, InsideTrans
    <3>2. Cardinality(Inside(t, a)) <= Cardinality(Inside(t, b))
      BY <1>3, <1>4
    <3>3. Inside(t, b) = Inside(t, a)
      BY <1>1, <3>1, <3>2, FS_Subset, FS_CardinalityType
    <3> QED
      BY <3>3, InsideType
  <2>2. CASE b \notin Inside(t, a)
    BY <2>2, Ancestors
  <2> QED
    BY <2>1, <2>2
<1> QED
  BY <1>5 DEF Nearest

(***************************************************************************)
(* What attaching and detaching do to the fields of any tree.              *)
(***************************************************************************)

\* Every field that the lists and pointers of containers are not.
Calm(r, t) == Carries(r, t) /\ r.life = t.life /\ r.scratch = t.scratch /\ (Local(t) => Local(r))

LEMMA CalmOn ==
  ASSUME NEW t, NEW u, NEW r, Calm(u, t), Calm(r, u)
  PROVE  Calm(r, t)
BY CarriesOn DEF Calm

LEMMA QuietCalm ==
  ASSUME NEW t, NEW r, Quiet(r, t)
  PROVE  Calm(r, t)
BY DEF Calm, Quiet, Same

LEMMA CalmTree ==
  ASSUME NEW t, NEW r, Calm(r, t)
  PROVE  r \in Tree
BY DEF Calm, Carries

LEMMA CalmIf ==
  ASSUME NEW t, NEW r \in Tree, r.life = t.life, r.scratch = t.scratch, r.op = t.op,
         r.broken = t.broken, r.mode = t.mode, r.global = t.global
  PROVE  Calm(r, t)
BY DEF Calm, Carries, Goes, Minds, Operands, Local

LEMMA SetWorkspaceFields ==
  ASSUME NEW t \in Tree, NEW c \in Container, NEW w \in Workspaces \cup {None}
  PROVE  LET r == SetWorkspace(t, c, w)
         IN  /\ Calm(r, t)
             /\ r.parent = t.parent /\ r.kids = t.kids
             /\ r.tiling = t.tiling /\ r.floating = t.floating
             /\ r.ws = [x \in Container |-> IF x \in Inside(t, c) THEN w ELSE t.ws[x]]
<1> DEFINE I == Inside(t, c)
           ws == [x \in Container |-> IF x \in I THEN w ELSE t.ws[x]]
           r == [t EXCEPT !.ws = ws]
<1>1. SetWorkspace(t, c, w) = r
  BY DEF SetWorkspace
<1> HIDE DEF I
<1>2. ws \in [Container -> Workspaces \cup {None}]
  BY TreeTypes
<1> HIDE DEF ws
<1>3. /\ r \in Tree /\ r.life = t.life /\ r.scratch = t.scratch /\ r.op = t.op
      /\ r.broken = t.broken /\ r.mode = t.mode /\ r.global = t.global
      /\ r.parent = t.parent /\ r.kids = t.kids
      /\ r.tiling = t.tiling /\ r.floating = t.floating /\ r.ws = ws
  BY <1>2 DEF Tree
<1> HIDE DEF r
<1>4. Calm(r, t)
  BY <1>3, CalmIf
<1> QED
  BY <1>1, <1>3, <1>4 DEF ws, I

LEMMA ListTypes ==
  ASSUME NEW t \in Tree, NEW c \in Container
  PROVE  /\ \A w \in Workspaces :
              /\ More(t.tiling, w, c) \in [Workspaces -> SUBSET Container]
              /\ Less(t.tiling, w, c) \in [Workspaces -> SUBSET Container]
              /\ More(t.floating, w, c) \in [Workspaces -> SUBSET Container]
              /\ Less(t.floating, w, c) \in [Workspaces -> SUBSET Container]
         /\ \A p \in Splits : /\ More(t.kids, p, c) \in [Splits -> SUBSET Container]
                              /\ Less(t.kids, p, c) \in [Splits -> SUBSET Container]
BY DEF Tree, More, Less

Unlisted(t, c) ==
  LET p == t.parent[c]
      w == t.ws[c]
      u == ForgetFullscreen(t, c)
  IN  CASE p # None -> [u EXCEPT !.kids = Less(u.kids, p, c)]
        [] p = None /\ w = None -> u
        [] OTHER -> IF c \in t.tiling[w]
                      THEN [u EXCEPT !.tiling = Less(u.tiling, w, c)]
                      ELSE [u EXCEPT !.floating = Less(u.floating, w, c)]

LEMMA UnlistedFields ==
  ASSUME NEW t \in Tree, NEW c \in Container
  PROVE  LET r == Unlisted(t, c)
             p == t.parent[c]
             w == t.ws[c]
         IN  /\ Calm(r, t) /\ r.parent = t.parent /\ r.ws = t.ws
             /\ p # None => /\ r.kids = Less(t.kids, p, c)
                            /\ r.tiling = t.tiling /\ r.floating = t.floating
             /\ p = None => r.kids = t.kids
             /\ p = None /\ w = None => r.tiling = t.tiling /\ r.floating = t.floating
             /\ p = None /\ w # None =>
                  \/ /\ c \in t.tiling[w]
                     /\ r.tiling = Less(t.tiling, w, c) /\ r.floating = t.floating
                  \/ /\ c \notin t.tiling[w]
                     /\ r.floating = Less(t.floating, w, c) /\ r.tiling = t.tiling
<1> DEFINE p == t.parent[c]
           w == t.ws[c]
           u == ForgetFullscreen(t, c)
           r == Unlisted(t, c)
           k == Less(u.kids, p, c)
           a == Less(u.tiling, w, c)
           f == Less(u.floating, w, c)
<1>1. Quiet(u, t) /\ u \in Tree /\ p \in Splits \cup {None} /\ w \in Workspaces \cup {None}
  BY ForgetFullscreenQuiet, QuietTree, TreeTypes
<1>2. /\ u.parent = t.parent /\ u.ws = t.ws /\ u.kids = t.kids
      /\ u.tiling = t.tiling /\ u.floating = t.floating /\ Calm(u, t)
  BY <1>1, QuietCalm DEF Quiet, Same
<1>3. /\ p # None => r = [u EXCEPT !.kids = k]
      /\ p = None /\ w = None => r = u
      /\ p = None /\ w # None /\ c \in t.tiling[w] => r = [u EXCEPT !.tiling = a]
      /\ p = None /\ w # None /\ c \notin t.tiling[w] => r = [u EXCEPT !.floating = f]
  BY DEF Unlisted
<1>4. /\ p # None => k \in [Splits -> SUBSET Container]
      /\ w # None => a \in [Workspaces -> SUBSET Container] /\ f \in [Workspaces -> SUBSET Container]
  BY <1>1, ListTypes
<1>5. k = Less(t.kids, p, c) /\ a = Less(t.tiling, w, c) /\ f = Less(t.floating, w, c)
  BY <1>2
<1> HIDE DEF u, r, k, a, f, p, w
<1>6. CASE p # None
  <2> DEFINE q == [u EXCEPT !.kids = k]
  <2>1. /\ q \in Tree /\ q.life = u.life /\ q.scratch = u.scratch /\ q.op = u.op
        /\ q.broken = u.broken /\ q.mode = u.mode /\ q.global = u.global
        /\ q.parent = u.parent /\ q.ws = u.ws /\ q.kids = k
        /\ q.tiling = u.tiling /\ q.floating = u.floating
    BY <1>1, <1>4, <1>6 DEF Tree
  <2>2. r = q
    BY <1>3, <1>6
  <2> HIDE DEF q
  <2>3. Calm(q, t)
    BY <1>2, <2>1, CalmIf, CalmOn
  <2>4. /\ Calm(r, t) /\ r.parent = t.parent /\ r.ws = t.ws /\ r.kids = Less(t.kids, p, c)
        /\ r.tiling = t.tiling /\ r.floating = t.floating
    BY <1>2, <1>5, <2>1, <2>2, <2>3
  <2> QED
    BY <1>6, <2>4 DEF p, w, r
<1>7. CASE p = None /\ w = None
  <2>1. /\ Calm(r, t) /\ r.parent = t.parent /\ r.ws = t.ws /\ r.kids = t.kids
        /\ r.tiling = t.tiling /\ r.floating = t.floating
    BY <1>2, <1>3, <1>7
  <2> QED
    BY <1>7, <2>1 DEF p, w, r
<1>8. CASE p = None /\ w # None /\ c \in t.tiling[w]
  <2> DEFINE q == [u EXCEPT !.tiling = a]
  <2>1. /\ q \in Tree /\ q.life = u.life /\ q.scratch = u.scratch /\ q.op = u.op
        /\ q.broken = u.broken /\ q.mode = u.mode /\ q.global = u.global
        /\ q.parent = u.parent /\ q.ws = u.ws /\ q.kids = u.kids
        /\ q.tiling = a /\ q.floating = u.floating
    BY <1>1, <1>4, <1>8 DEF Tree
  <2>2. r = q
    BY <1>3, <1>8
  <2> HIDE DEF q
  <2>3. Calm(q, t)
    BY <1>2, <2>1, CalmIf, CalmOn
  <2>4. /\ Calm(r, t) /\ r.parent = t.parent /\ r.ws = t.ws /\ r.kids = t.kids
        /\ r.tiling = Less(t.tiling, w, c) /\ r.floating = t.floating
    BY <1>2, <1>5, <2>1, <2>2, <2>3
  <2> QED
    BY <1>8, <2>4 DEF p, w, r
<1>9. CASE p = None /\ w # None /\ c \notin t.tiling[w]
  <2> DEFINE q == [u EXCEPT !.floating = f]
  <2>1. /\ q \in Tree /\ q.life = u.life /\ q.scratch = u.scratch /\ q.op = u.op
        /\ q.broken = u.broken /\ q.mode = u.mode /\ q.global = u.global
        /\ q.parent = u.parent /\ q.ws = u.ws /\ q.kids = u.kids
        /\ q.tiling = u.tiling /\ q.floating = f
    BY <1>1, <1>4, <1>9 DEF Tree
  <2>2. r = q
    BY <1>3, <1>9
  <2> HIDE DEF q
  <2>3. Calm(q, t)
    BY <1>2, <2>1, CalmIf, CalmOn
  <2>4. /\ Calm(r, t) /\ r.parent = t.parent /\ r.ws = t.ws /\ r.kids = t.kids
        /\ r.tiling = t.tiling /\ r.floating = Less(t.floating, w, c)
    BY <1>2, <1>5, <2>1, <2>2, <2>3
  <2> QED
    BY <1>9, <2>4 DEF p, w, r
<1> QED
  BY <1>6, <1>7, <1>8, <1>9

LEMMA DetachFields ==
  ASSUME NEW t \in Tree, NEW c \in Container
  PROVE  LET v == Unlisted(t, c)
             r == Detach(t, c)
         IN  /\ Calm(r, t) /\ r.parent = [t.parent EXCEPT ![c] = None]
             /\ r.kids = v.kids /\ r.tiling = v.tiling /\ r.floating = v.floating
             /\ r.ws = [x \in Container |-> IF x \in Inside(r, c) THEN None ELSE t.ws[x]]
<1> DEFINE v == Unlisted(t, c)
           q == [v EXCEPT !.parent[c] = None]
           r == SetWorkspace(q, c, None)
<1>1. Detach(t, c) = r
  BY DEF Detach, Unlisted
<1>2. Calm(v, t) /\ v.parent = t.parent /\ v.ws = t.ws /\ v \in Tree
  BY UnlistedFields, CalmTree
<1> HIDE DEF v
<1>3. /\ q \in Tree /\ q.life = v.life /\ q.scratch = v.scratch /\ q.op = v.op
      /\ q.broken = v.broken /\ q.mode = v.mode /\ q.global = v.global
      /\ q.parent = [v.parent EXCEPT ![c] = None] /\ q.ws = v.ws /\ q.kids = v.kids
      /\ q.tiling = v.tiling /\ q.floating = v.floating
  BY <1>2 DEF Tree
<1> HIDE DEF q
<1>4. Calm(q, t)
  BY <1>2, <1>3, CalmIf, CalmOn
<1>5. /\ Calm(r, q) /\ r.parent = q.parent /\ r.kids = q.kids
      /\ r.tiling = q.tiling /\ r.floating = q.floating
      /\ r.ws = [x \in Container |-> IF x \in Inside(q, c) THEN None ELSE q.ws[x]]
  BY <1>3, SetWorkspaceFields
<1> HIDE DEF r
<1>6. Inside(r, c) = Inside(q, c)
  BY <1>5, InsideKids
<1>7. /\ Calm(r, t) /\ r.parent = [t.parent EXCEPT ![c] = None] /\ r.kids = v.kids
      /\ r.tiling = v.tiling /\ r.floating = v.floating
      /\ r.ws = [x \in Container |-> IF x \in Inside(r, c) THEN None ELSE t.ws[x]]
  BY <1>2, <1>3, <1>4, <1>5, <1>6, CalmOn
<1> QED
  BY <1>1, <1>7 DEF v

\* Reparenting ends no more than fullscreen.
LEMMA AttachFields ==
  ASSUME NEW t \in Tree, NEW q \in Tree, NEW c \in Container, NEW w \in Workspaces \cup {None},
         Calm(q, t), q.ws = t.ws
  PROVE  LET r == HandleFullscreenReparent(SetWorkspace(q, c, w), c)
         IN  /\ Calm(r, t) /\ r.parent = q.parent /\ r.kids = q.kids
             /\ r.tiling = q.tiling /\ r.floating = q.floating
             /\ r.ws = [x \in Container |-> IF x \in Inside(r, c) THEN w ELSE t.ws[x]]
<1> DEFINE u == SetWorkspace(q, c, w)
           r == HandleFullscreenReparent(u, c)
<1>1. /\ Calm(u, q) /\ u.parent = q.parent /\ u.kids = q.kids
      /\ u.tiling = q.tiling /\ u.floating = q.floating
      /\ u.ws = [x \in Container |-> IF x \in Inside(q, c) THEN w ELSE q.ws[x]]
  BY SetWorkspaceFields
<1>2. u \in Tree
  BY <1>1, CalmTree
<1> HIDE DEF u
<1>3. Quiet(r, u)
  BY <1>2, ReparentQuiet
<1> HIDE DEF r
<1>4. Calm(r, u) /\ Same(r, u)
  BY <1>3, QuietCalm DEF Quiet
<1>5. Calm(r, t)
  BY <1>1, <1>4, CalmOn
<1>6. Inside(r, c) = Inside(q, c)
  BY <1>1, <1>4, InsideKids DEF Same
<1>7. /\ Calm(r, t) /\ r.parent = q.parent /\ r.kids = q.kids
      /\ r.tiling = q.tiling /\ r.floating = q.floating
      /\ r.ws = [x \in Container |-> IF x \in Inside(r, c) THEN w ELSE t.ws[x]]
  BY <1>1, <1>4, <1>5, <1>6 DEF Same
<1> QED
  BY <1>7 DEF r, u

LEMMA InTilingFields ==
  ASSUME NEW t \in Tree, NEW c \in Container, NEW w \in Workspaces
  PROVE  LET r == InTiling(t, w, c)
         IN  /\ Calm(r, t) /\ r.parent = t.parent /\ r.kids = t.kids
             /\ r.tiling = More(t.tiling, w, c) /\ r.floating = t.floating
             /\ r.ws = [x \in Container |-> IF x \in Inside(r, c) THEN w ELSE t.ws[x]]
<1> DEFINE l == More(t.tiling, w, c)
           q == [t EXCEPT !.tiling = l]
           r == HandleFullscreenReparent(SetWorkspace(q, c, w), c)
<1>1. InTiling(t, w, c) = r
  BY Nothing DEF InTiling
<1>2. l \in [Workspaces -> SUBSET Container]
  BY ListTypes
<1> HIDE DEF l
<1>3. /\ q \in Tree /\ q.life = t.life /\ q.scratch = t.scratch /\ q.op = t.op
      /\ q.broken = t.broken /\ q.mode = t.mode /\ q.global = t.global
      /\ q.parent = t.parent /\ q.ws = t.ws /\ q.kids = t.kids
      /\ q.tiling = l /\ q.floating = t.floating
  BY <1>2 DEF Tree
<1> HIDE DEF q
<1>4. Calm(q, t)
  BY <1>3, CalmIf
<1>5. /\ Calm(r, t) /\ r.parent = q.parent /\ r.kids = q.kids
      /\ r.tiling = q.tiling /\ r.floating = q.floating
      /\ r.ws = [x \in Container |-> IF x \in Inside(r, c) THEN w ELSE t.ws[x]]
  BY <1>3, <1>4, AttachFields
<1> HIDE DEF r
<1>6. /\ Calm(r, t) /\ r.parent = t.parent /\ r.kids = t.kids
      /\ r.tiling = l /\ r.floating = t.floating
      /\ r.ws = [x \in Container |-> IF x \in Inside(r, c) THEN w ELSE t.ws[x]]
  BY <1>3, <1>5
<1> QED
  BY <1>1, <1>6 DEF l

LEMMA InFloatingFields ==
  ASSUME NEW t \in Tree, NEW c \in Container, NEW w \in Workspaces
  PROVE  LET r == InFloating(t, w, c)
         IN  /\ Calm(r, t) /\ r.parent = t.parent /\ r.kids = t.kids
             /\ r.floating = More(t.floating, w, c) /\ r.tiling = t.tiling
             /\ r.ws = [x \in Container |-> IF x \in Inside(r, c) THEN w ELSE t.ws[x]]
<1> DEFINE l == More(t.floating, w, c)
           q == [t EXCEPT !.floating = l]
           r == HandleFullscreenReparent(SetWorkspace(q, c, w), c)
<1>1. InFloating(t, w, c) = r
  BY Nothing DEF InFloating
<1>2. l \in [Workspaces -> SUBSET Container]
  BY ListTypes
<1> HIDE DEF l
<1>3. /\ q \in Tree /\ q.life = t.life /\ q.scratch = t.scratch /\ q.op = t.op
      /\ q.broken = t.broken /\ q.mode = t.mode /\ q.global = t.global
      /\ q.parent = t.parent /\ q.ws = t.ws /\ q.kids = t.kids
      /\ q.floating = l /\ q.tiling = t.tiling
  BY <1>2 DEF Tree
<1> HIDE DEF q
<1>4. Calm(q, t)
  BY <1>3, CalmIf
<1>5. /\ Calm(r, t) /\ r.parent = q.parent /\ r.kids = q.kids
      /\ r.tiling = q.tiling /\ r.floating = q.floating
      /\ r.ws = [x \in Container |-> IF x \in Inside(r, c) THEN w ELSE t.ws[x]]
  BY <1>3, <1>4, AttachFields
<1> HIDE DEF r
<1>6. /\ Calm(r, t) /\ r.parent = t.parent /\ r.kids = t.kids
      /\ r.floating = l /\ r.tiling = t.tiling
      /\ r.ws = [x \in Container |-> IF x \in Inside(r, c) THEN w ELSE t.ws[x]]
  BY <1>3, <1>5
<1> QED
  BY <1>1, <1>6 DEF l

LEMMA InSplitFields ==
  ASSUME NEW t \in Tree, NEW c \in Container, NEW p \in Splits
  PROVE  LET r == InSplit(t, p, c)
         IN  /\ Calm(r, t) /\ r.parent = [t.parent EXCEPT ![c] = p]
             /\ r.kids = More(t.kids, p, c)
             /\ r.floating = t.floating /\ r.tiling = t.tiling
             /\ r.ws = [x \in Container |-> IF x \in Inside(r, c) THEN t.ws[p] ELSE t.ws[x]]
<1> DEFINE l == More(t.kids, p, c)
           w == t.ws[p]
           q == [t EXCEPT !.kids = l, !.parent[c] = p]
           r == HandleFullscreenReparent(SetWorkspace(q, c, w), c)
<1>1. InSplit(t, p, c) = r
  BY DEF InSplit
<1>2. l \in [Splits -> SUBSET Container] /\ w \in Workspaces \cup {None}
  BY ListTypes, TreeTypes, Nothing
<1> HIDE DEF l, w
<1>3. /\ q \in Tree /\ q.life = t.life /\ q.scratch = t.scratch /\ q.op = t.op
      /\ q.broken = t.broken /\ q.mode = t.mode /\ q.global = t.global
      /\ q.parent = [t.parent EXCEPT ![c] = p] /\ q.ws = t.ws /\ q.kids = l
      /\ q.floating = t.floating /\ q.tiling = t.tiling
  BY <1>2 DEF Tree
<1> HIDE DEF q
<1>4. Calm(q, t)
  BY <1>3, CalmIf
<1>5. /\ Calm(r, t) /\ r.parent = q.parent /\ r.kids = q.kids
      /\ r.tiling = q.tiling /\ r.floating = q.floating
      /\ r.ws = [x \in Container |-> IF x \in Inside(r, c) THEN w ELSE t.ws[x]]
  BY <1>2, <1>3, <1>4, AttachFields
<1> HIDE DEF r
<1>6. /\ Calm(r, t) /\ r.parent = [t.parent EXCEPT ![c] = p] /\ r.kids = l
      /\ r.floating = t.floating /\ r.tiling = t.tiling
      /\ r.ws = [x \in Container |-> IF x \in Inside(r, c) THEN w ELSE t.ws[x]]
  BY <1>3, <1>5
<1> QED
  BY <1>1, <1>6 DEF l, w

(***************************************************************************)
(* A container and what is below it has moved: below p, onto w, or out.    *)
(***************************************************************************)
Moved(r, t, c, p, w) ==
  /\ Calm(r, t) /\ Linked(r)
  /\ r.parent = [t.parent EXCEPT ![c] = p]
  /\ r.ws = [x \in Container |-> IF x \in Inside(t, c) THEN w ELSE t.ws[x]]
  /\ Inside(r, c) = Inside(t, c)
  /\ \A v \in Workspaces, x \in Container \ {c} : x \in r.floating[v] <=> x \in t.floating[v]

\* Where it may move.
MayMove(r, t, c, p, w) ==
  /\ p # None => t.life[p] = "live" /\ p \notin Inside(t, c) /\ w = t.ws[p]
  /\ p # None \/ w # None => t.life[c] = "live"
  /\ c \in t.scratch => p = None /\ (w # None => c \in r.floating[w])

LEMMA MovedOn ==
  ASSUME NEW t \in Tree, NEW c \in Container, NEW u, NEW r, NEW p1, NEW w1, NEW p2, NEW w2,
         Moved(u, t, c, p1, w1), Moved(r, u, c, p2, w2)
  PROVE  Moved(r, t, c, p2, w2)
<1>1. Calm(r, t)
  BY CalmOn DEF Moved
<1>2. /\ r.parent = [t.parent EXCEPT ![c] = p2]
      /\ r.ws = [x \in Container |-> IF x \in Inside(t, c) THEN w2 ELSE t.ws[x]]
  BY TreeTypes DEF Moved
<1>3. \A v \in Workspaces, x \in Container \ {c} : x \in r.floating[v] <=> x \in t.floating[v]
  BY DEF Moved
<1> QED
  BY <1>1, <1>2, <1>3 DEF Moved

LEMMA MovedFields ==
  ASSUME NEW t \in Tree, NEW c \in Container, NEW r, NEW p, NEW w, Moved(r, t, c, p, w)
  PROVE  /\ r \in Tree /\ t.broken \subseteq r.broken
         /\ r.life = t.life /\ r.scratch = t.scratch
         /\ r.parent[c] = p /\ r.ws[c] = w
         /\ \A x \in Container \ {c} : r.parent[x] = t.parent[x]
         /\ \A x \in Container : /\ x \in Inside(t, c) => r.ws[x] = w
                                 /\ x \notin Inside(t, c) => r.ws[x] = t.ws[x]
<1>1. t.parent \in [Container -> Splits \cup {None}]
  BY DEF Tree
<1> QED
  BY <1>1, InsideType DEF Moved, Calm, Carries

LEMMA MovedInside ==
  ASSUME NEW t, Fit(t), NEW c \in Container, NEW r, NEW p \in Splits \cup {None}, NEW w,
         Moved(r, t, c, p, w), NEW x \in Container
  PROVE  /\ p \notin Inside(t, x) => Inside(r, x) \subseteq Inside(t, x)
         /\ Inside(r, x) \subseteq Inside(t, x) \cup Inside(t, c)
<1>1. t \in Tree /\ Linked(t) /\ r \in Tree /\ Linked(r)
  BY MovedFields DEF Fit, Shape, Moved
<1>2. ASSUME NEW y \in Splits, NEW z \in r.kids[y]
      PROVE  z \in Container /\ ((z = c /\ y = p) \/ z \in t.kids[y])
  <2>1. z \in Container
    BY <1>1, TreeTypes
  <2>2. r.parent[z] = y
    BY <1>1, <1>2, <2>1 DEF Linked
  <2>3. z = c \/ t.parent[z] = y
    BY <1>1, <2>1, <2>2, MovedFields
  <2> QED
    BY <1>1, <2>1, <2>2, <2>3, MovedFields DEF Linked
<1>3. ASSUME p \notin Inside(t, x)
      PROVE  Inside(r, x) \subseteq Inside(t, x)
  BY <1>1, <1>2, <1>3, InsideType, InsideShrinks
<1>4. Inside(r, x) \subseteq Inside(t, x) \cup Inside(t, c)
  <2>1. Closed(r, Inside(t, x) \cup Inside(t, c))
    BY <1>1, <1>2, InsideType DEF Closed
  <2> QED
    BY <1>1, <2>1, InsideType, InsideLeast
<1> QED
  BY <1>3, <1>4

LEMMA MovedFit ==
  ASSUME NEW t, Fit(t), NEW c \in Container, NEW r, NEW p \in Splits \cup {None}, NEW w,
         Moved(r, t, c, p, w), MayMove(r, t, c, p, w)
  PROVE  Fit(r)
<1>0. /\ t \in Tree /\ Linked(t) /\ Together(t) /\ Rooted(t) /\ Living(t) /\ Shelved(t)
      /\ Local(t)
  BY DEF Fit, Shape
<1>1. /\ t \in Tree /\ Linked(t) /\ Together(t) /\ Rooted(t) /\ Living(t) /\ Shelved(t)
      /\ r \in Tree /\ Linked(r) /\ Local(r)
  BY <1>0, MovedFields DEF Moved, Calm
<1>2. /\ r.life = t.life /\ r.scratch = t.scratch /\ r.parent[c] = p /\ r.ws[c] = w
      /\ \A x \in Container \ {c} : r.parent[x] = t.parent[x]
      /\ \A x \in Container : /\ x \in Inside(t, c) => r.ws[x] = w
                              /\ x \notin Inside(t, c) => r.ws[x] = t.ws[x]
  BY <1>1, MovedFields
<1>3. Together(r)
  <2> SUFFICES ASSUME NEW x \in Container, r.parent[x] # None
               PROVE  r.ws[x] = r.ws[r.parent[x]]
    BY DEF Together
  <2>1. CASE x = c
    BY <1>1, <1>2, <2>1, Nothing DEF MayMove
  <2>2. CASE x # c
    <3>1. t.parent[x] = r.parent[x] /\ t.parent[x] \in Splits
      BY <1>1, <1>2, <2>2, TreeTypes
    <3>2. x \in Inside(t, c) <=> t.parent[x] \in Inside(t, c)
      BY <1>1, <2>2, InsideParent, InsideChild
    <3>3. t.ws[x] = t.ws[t.parent[x]]
      BY <1>1, <3>1, Nothing DEF Together
    <3> QED
      BY <1>2, <3>1, <3>2, <3>3, Nothing
  <2> QED
    BY <2>1, <2>2
<1>4. Rooted(r)
  <2> SUFFICES ASSUME NEW x \in Container, r.parent[x] # None, r.parent[x] \in Inside(r, x)
               PROVE  FALSE
    BY DEF Rooted
  <2>1. CASE x = c
    BY <1>1, <1>2, <2>1 DEF Moved, MayMove
  <2>2. CASE x # c
    <3>1. t.parent[x] = r.parent[x] /\ t.parent[x] \in Splits /\ t.parent[x] \notin Inside(t, x)
      BY <1>1, <1>2, <2>2, TreeTypes DEF Rooted
    <3>2. CASE p \notin Inside(t, x)
      BY <3>1, <3>2, MovedInside
    <3>3. CASE p \in Inside(t, x)
      <4>1. t.parent[x] \in Inside(t, c)
        BY <3>1, MovedInside
      <4>2. x \in Inside(t, c)
        BY <1>1, <4>1, InsideChild
      <4>3. p \in Inside(t, c)
        BY <1>1, <3>3, <4>2, InsideTrans
      <4>4. p # None
        BY <1>1, <3>3, InsideType, Nothing
      <4> QED
        BY <4>3, <4>4 DEF MayMove
    <3> QED
      BY <3>2, <3>3
  <2> QED
    BY <2>1, <2>2
<1>5. Living(r)
  <2> SUFFICES ASSUME NEW x \in Container
               PROVE  /\ r.parent[x] # None \/ r.ws[x] # None \/ x \in r.scratch => r.life[x] = "live"
                      /\ r.parent[x] # None => r.life[r.parent[x]] = "live"
    BY DEF Living
  <2>1. CASE x = c
    BY <1>1, <1>2, <2>1 DEF MayMove, Living
  <2>2. CASE x # c
    <3>1. t.parent[x] = r.parent[x]
      BY <1>1, <1>2, <2>2
    <3>2. r.ws[x] = t.ws[x] \/ t.parent[x] # None
      BY <1>1, <1>2, <2>2, InsideParent, Nothing
    <3> QED
      BY <1>1, <1>2, <3>1, <3>2 DEF Living
  <2> QED
    BY <2>1, <2>2
<1>6. Shelved(r)
  <2> SUFFICES ASSUME NEW x \in r.scratch
               PROVE  /\ r.parent[x] = None
                      /\ r.ws[x] # None => x \in r.floating[r.ws[x]]
    BY DEF Shelved
  <2>1. x \in Container /\ x \in t.scratch
    BY <1>1, <1>2, TreeTypes
  <2>2. CASE x = c
    BY <1>2, <2>1, <2>2 DEF MayMove
  <2>3. CASE x # c
    <3>1. t.parent[x] = None /\ r.parent[x] = None
      BY <1>1, <1>2, <2>1, <2>3 DEF Shelved
    <3>2. x \notin Inside(t, c)
      BY <1>1, <2>1, <2>3, <3>1, InsideParent, Nothing
    <3>3. r.ws[x] = t.ws[x] /\ t.ws[x] \in Workspaces \cup {None}
      BY <1>1, <1>2, <2>1, <3>2, TreeTypes
    <3> QED
      BY <1>1, <2>1, <2>3, <3>1, <3>3 DEF Shelved, Moved
  <2> QED
    BY <2>2, <2>3
<1> QED
  BY <1>1, <1>3, <1>4, <1>5, <1>6 DEF Fit, Shape

LEMMA MovedLeaves ==
  ASSUME NEW t, Fit(t), NEW c \in Container, NEW r, NEW p \in Splits \cup {None}, NEW w,
         Moved(r, t, c, p, w)
  PROVE  /\ Lost(r) \subseteq Lost(t) \cup {c}
         /\ p # None \/ w # None \/ c \in t.scratch => c \notin Lost(r)
         /\ Empty(r) \subseteq (Empty(t) \cup {t.parent[c]}) \ {p}
<1>1. t \in Tree /\ Linked(t) /\ r \in Tree /\ Linked(r)
  BY MovedFields DEF Fit, Shape, Moved
<1>2. /\ r.life = t.life /\ r.scratch = t.scratch /\ r.parent[c] = p /\ r.ws[c] = w
      /\ \A x \in Container \ {c} : r.parent[x] = t.parent[x]
      /\ \A x \in Container : x \notin Inside(t, c) => r.ws[x] = t.ws[x]
  BY <1>1, MovedFields
<1>3. ASSUME NEW x \in Lost(r), x # c
      PROVE  x \in Lost(t)
  <2>1. x \in Container /\ t.parent[x] = None /\ r.ws[x] = None
    BY <1>2, <1>3 DEF Lost
  <2>2. x \notin Inside(t, c)
    BY <1>1, <1>3, <2>1, InsideParent, Nothing
  <2> QED
    BY <1>2, <1>3, <2>1, <2>2 DEF Lost
<1>4. ASSUME NEW e \in Empty(r)
      PROVE  e # p /\ (e = t.parent[c] \/ e \in Empty(t))
  <2>1. e \in Splits /\ r.kids[e] = {} /\ t.life[e] = "live"
    BY <1>2, <1>4 DEF Empty
  <2>2. e # p
    BY <1>1, <1>2, <2>1 DEF Linked
  <2>3. ASSUME e # t.parent[c], NEW y \in t.kids[e]
        PROVE  FALSE
    <3>1. y \in Container /\ t.parent[y] = e
      BY <1>1, <2>1, <2>3, TreeTypes DEF Linked
    <3>2. r.parent[y] = e
      BY <1>2, <2>3, <3>1
    <3> QED
      BY <1>1, <2>1, <3>1, <3>2 DEF Linked
  <2> QED
    BY <2>1, <2>2, <2>3 DEF Empty
<1>5. p # None \/ w # None \/ c \in t.scratch => c \notin Lost(r)
  BY <1>2 DEF Lost
<1> QED
  BY <1>3, <1>4, <1>5

LEMMA DetachMoves ==
  ASSUME NEW t, Fit(t), NEW c \in Container
  PROVE  /\ Moved(Detach(t, c), t, c, None, None)
         /\ MayMove(Detach(t, c), t, c, None, None)
<1> DEFINE r == Detach(t, c)
           v == Unlisted(t, c)
           p == t.parent[c]
           w == t.ws[c]
<1>1. t \in Tree /\ Linked(t) /\ Rooted(t) /\ Together(t) /\ Shelved(t)
  BY DEF Fit, Shape
<1>2. /\ Calm(r, t) /\ r.parent = [t.parent EXCEPT ![c] = None]
      /\ r.kids = v.kids /\ r.tiling = v.tiling /\ r.floating = v.floating
      /\ r.ws = [x \in Container |-> IF x \in Inside(r, c) THEN None ELSE t.ws[x]]
  BY <1>1, DetachFields
<1>3. /\ p # None => /\ v.kids = Less(t.kids, p, c)
                     /\ v.tiling = t.tiling /\ v.floating = t.floating
      /\ p = None => v.kids = t.kids
      /\ p = None /\ w = None => v.tiling = t.tiling /\ v.floating = t.floating
      /\ p = None /\ w # None =>
           \/ c \in t.tiling[w] /\ v.tiling = Less(t.tiling, w, c) /\ v.floating = t.floating
           \/ c \notin t.tiling[w] /\ v.floating = Less(t.floating, w, c) /\ v.tiling = t.tiling
  BY <1>1, UnlistedFields
<1>4. p \in Splits \cup {None} /\ w \in Workspaces \cup {None} /\ r \in Tree
  BY <1>1, <1>2, TreeTypes, CalmTree
<1>5. /\ t.kids \in [Splits -> SUBSET Container] /\ t.tiling \in [Workspaces -> SUBSET Container]
      /\ t.floating \in [Workspaces -> SUBSET Container]
      /\ t.parent \in [Container -> Splits \cup {None}]
  BY <1>1 DEF Tree
<1> HIDE DEF r, v
<1>6. \A x \in Container, q \in Splits : x \in r.kids[q] <=> x \in t.kids[q] /\ x # c
  <2>1. CASE p # None
    <3>1. r.kids = Less(t.kids, p, c) /\ p \in Splits
      BY <1>2, <1>3, <1>4, <2>1
    <3>2. \A q \in Splits : q # p => c \notin t.kids[q]
      BY <1>1 DEF Linked
    <3> QED
      BY <1>5, <3>1, <3>2 DEF Less
  <2>2. CASE p = None
    <3>1. \A q \in Splits : c \notin t.kids[q]
      BY <1>1, <2>2, Nothing DEF Linked
    <3> QED
      BY <1>2, <1>3, <2>2, <3>1
  <2> QED
    BY <2>1, <2>2
<1>7. \A x \in Container, q \in Workspaces :
         /\ x \in r.tiling[q] <=> x \in t.tiling[q] /\ x # c
         /\ x \in r.floating[q] <=> x \in t.floating[q] /\ x # c
  <2>1. CASE p # None
    BY <1>1, <1>2, <1>3, <1>4, <2>1 DEF Linked
  <2>2. CASE p = None /\ w = None
    BY <1>1, <1>2, <1>3, <1>4, <2>2, Nothing DEF Linked
  <2>3. CASE p = None /\ w # None /\ c \in t.tiling[w]
    <3>1. r.tiling = Less(t.tiling, w, c) /\ r.floating = t.floating
      BY <1>2, <1>3, <2>3
    <3>2. \A q \in Workspaces : c \notin t.floating[q] /\ (q # w => c \notin t.tiling[q])
      BY <1>1, <1>4, <2>3 DEF Linked
    <3> QED
      BY <1>4, <1>5, <2>3, <3>1, <3>2 DEF Less
  <2>4. CASE p = None /\ w # None /\ c \notin t.tiling[w]
    <3>1. r.floating = Less(t.floating, w, c) /\ r.tiling = t.tiling
      BY <1>2, <1>3, <2>4
    <3>2. \A q \in Workspaces : c \notin t.tiling[q] /\ (q # w => c \notin t.floating[q])
      BY <1>1, <1>4, <2>4 DEF Linked
    <3> QED
      BY <1>4, <1>5, <2>4, <3>1, <3>2 DEF Less
  <2> QED
    BY <2>1, <2>2, <2>3, <2>4
<1>8. Inside(r, c) = Inside(t, c)
  <2>1. \A x \in Inside(t, c) \cap Splits : c \notin t.kids[x]
    <3> SUFFICES ASSUME NEW x \in Inside(t, c) \cap Splits, c \in t.kids[x]
                 PROVE  FALSE
      OBVIOUS
    <3>1. p = x
      BY <1>1 DEF Linked
    <3> QED
      BY <1>1, <3>1, Nothing DEF Rooted
  <2>2. \A x \in Inside(t, c) \cap Splits : r.kids[x] = t.kids[x]
    <3> SUFFICES ASSUME NEW x \in Inside(t, c) \cap Splits
                 PROVE  r.kids[x] = t.kids[x]
      OBVIOUS
    <3>1. r.kids[x] \subseteq Container /\ t.kids[x] \subseteq Container
      BY <1>1, <1>4, TreeTypes
    <3> QED
      BY <1>6, <2>1, <3>1
  <2> QED
    BY <1>1, <1>4, <2>2, InsideSame
<1>9. \A x \in Container : x \in Inside(t, c) /\ x # c => t.parent[x] \in Splits
  BY <1>1, InsideParent
<1>10. r.parent[c] = None /\ \A x \in Container \ {c} : r.parent[x] = t.parent[x]
  BY <1>2, <1>5
<1>11. \A x \in Container : r.ws[x] = IF x \in Inside(t, c) THEN None ELSE t.ws[x]
  BY <1>2, <1>8
<1>12. Linked(r)
  <2> SUFFICES ASSUME NEW x \in Container
               PROVE  /\ \A q \in Splits : x \in r.kids[q] <=> r.parent[x] = q
                      /\ \A q \in Workspaces :
                           /\ x \in r.tiling[q] \cup r.floating[q]
                                <=> r.parent[x] = None /\ r.ws[x] = q
                           /\ x \notin r.tiling[q] \cap r.floating[q]
    BY DEF Linked
  <2>1. \A q \in Splits : x \in r.kids[q] <=> r.parent[x] = q
    BY <1>1, <1>6, <1>10, Nothing DEF Linked
  <2>2. ASSUME NEW q \in Workspaces
        PROVE  /\ x \in r.tiling[q] \cup r.floating[q] <=> r.parent[x] = None /\ r.ws[x] = q
               /\ x \notin r.tiling[q] \cap r.floating[q]
    <3>1. /\ x \in t.tiling[q] \cup t.floating[q] <=> t.parent[x] = None /\ t.ws[x] = q
          /\ x \notin t.tiling[q] \cap t.floating[q]
      BY <1>1 DEF Linked
    <3>2. CASE x = c
      BY <1>1, <1>7, <1>11, <3>2, InsideType, Nothing
    <3>3. CASE x # c
      BY <1>7, <1>9, <1>10, <1>11, <3>1, <3>3, Nothing
    <3> QED
      BY <3>2, <3>3
  <2> QED
    BY <2>1, <2>2
<1>13. Moved(r, t, c, None, None)
  BY <1>2, <1>7, <1>8, <1>12 DEF Moved
<1>14. MayMove(r, t, c, None, None)
  BY DEF MayMove
<1> QED
  BY <1>13, <1>14 DEF r

Loose(t, c) == t.parent[c] = None /\ t.ws[c] = None

LEMMA InTilingMoves ==
  ASSUME NEW t, Fit(t), NEW c \in Container, Loose(t, c), NEW w \in Workspaces
  PROVE  Moved(InTiling(t, w, c), t, c, None, w)
<1> DEFINE r == InTiling(t, w, c)
<1>1. t \in Tree /\ Linked(t)
  BY DEF Fit, Shape
<1>2. /\ Calm(r, t) /\ r.parent = t.parent /\ r.kids = t.kids
      /\ r.tiling = More(t.tiling, w, c) /\ r.floating = t.floating
      /\ r.ws = [x \in Container |-> IF x \in Inside(r, c) THEN w ELSE t.ws[x]]
  BY <1>1, InTilingFields
<1> HIDE DEF r
<1>3. Inside(r, c) = Inside(t, c)
  BY <1>2, InsideKids
<1>4. /\ t.tiling \in [Workspaces -> SUBSET Container]
      /\ t.parent \in [Container -> Splits \cup {None}]
  BY <1>1 DEF Tree
<1>5. \A x \in Container, q \in Workspaces :
         x \in r.tiling[q] <=> x \in t.tiling[q] \/ (x = c /\ q = w)
  BY <1>2, <1>4 DEF More
<1>6. \A x \in Container : x \in Inside(t, c) /\ x # c => t.parent[x] \in Splits
  BY <1>1, InsideParent
<1>7. \A q \in Workspaces : c \notin t.tiling[q] \cup t.floating[q]
  BY <1>1, Nothing DEF Linked, Loose
<1>8. \A x \in Container : r.ws[x] = IF x \in Inside(t, c) THEN w ELSE t.ws[x]
  BY <1>2, <1>3
<1>9. Linked(r)
  <2> SUFFICES ASSUME NEW x \in Container
               PROVE  /\ \A q \in Splits : x \in r.kids[q] <=> r.parent[x] = q
                      /\ \A q \in Workspaces :
                           /\ x \in r.tiling[q] \cup r.floating[q]
                                <=> r.parent[x] = None /\ r.ws[x] = q
                           /\ x \notin r.tiling[q] \cap r.floating[q]
    BY DEF Linked
  <2>1. \A q \in Splits : x \in r.kids[q] <=> r.parent[x] = q
    BY <1>1, <1>2 DEF Linked
  <2>2. ASSUME NEW q \in Workspaces
        PROVE  /\ x \in r.tiling[q] \cup r.floating[q] <=> r.parent[x] = None /\ r.ws[x] = q
               /\ x \notin r.tiling[q] \cap r.floating[q]
    <3>1. /\ x \in t.tiling[q] \cup t.floating[q] <=> t.parent[x] = None /\ t.ws[x] = q
          /\ x \notin t.tiling[q] \cap t.floating[q]
      BY <1>1 DEF Linked
    <3>2. CASE x = c
      BY <1>1, <1>2, <1>5, <1>7, <1>8, <3>2, InsideType DEF Loose
    <3>3. CASE x # c
      BY <1>2, <1>5, <1>6, <1>8, <3>1, <3>3, Nothing
    <3> QED
      BY <3>2, <3>3
  <2> QED
    BY <2>1, <2>2
<1>10. r.parent = [t.parent EXCEPT ![c] = None]
  BY <1>2, <1>4 DEF Loose
<1>11. Moved(r, t, c, None, w)
  BY <1>2, <1>3, <1>9, <1>10 DEF Moved
<1> QED
  BY <1>11 DEF r

LEMMA InFloatingMoves ==
  ASSUME NEW t, Fit(t), NEW c \in Container, Loose(t, c), NEW w \in Workspaces
  PROVE  /\ Moved(InFloating(t, w, c), t, c, None, w)
         /\ c \in InFloating(t, w, c).floating[w]
<1> DEFINE r == InFloating(t, w, c)
<1>1. t \in Tree /\ Linked(t)
  BY DEF Fit, Shape
<1>2. /\ Calm(r, t) /\ r.parent = t.parent /\ r.kids = t.kids
      /\ r.floating = More(t.floating, w, c) /\ r.tiling = t.tiling
      /\ r.ws = [x \in Container |-> IF x \in Inside(r, c) THEN w ELSE t.ws[x]]
  BY <1>1, InFloatingFields
<1> HIDE DEF r
<1>3. Inside(r, c) = Inside(t, c)
  BY <1>2, InsideKids
<1>4. /\ t.floating \in [Workspaces -> SUBSET Container]
      /\ t.parent \in [Container -> Splits \cup {None}]
  BY <1>1 DEF Tree
<1>5. \A x \in Container, q \in Workspaces :
         x \in r.floating[q] <=> x \in t.floating[q] \/ (x = c /\ q = w)
  BY <1>2, <1>4 DEF More
<1>6. \A x \in Container : x \in Inside(t, c) /\ x # c => t.parent[x] \in Splits
  BY <1>1, InsideParent
<1>7. \A q \in Workspaces : c \notin t.tiling[q] \cup t.floating[q]
  BY <1>1, Nothing DEF Linked, Loose
<1>8. \A x \in Container : r.ws[x] = IF x \in Inside(t, c) THEN w ELSE t.ws[x]
  BY <1>2, <1>3
<1>9. Linked(r)
  <2> SUFFICES ASSUME NEW x \in Container
               PROVE  /\ \A q \in Splits : x \in r.kids[q] <=> r.parent[x] = q
                      /\ \A q \in Workspaces :
                           /\ x \in r.tiling[q] \cup r.floating[q]
                                <=> r.parent[x] = None /\ r.ws[x] = q
                           /\ x \notin r.tiling[q] \cap r.floating[q]
    BY DEF Linked
  <2>1. \A q \in Splits : x \in r.kids[q] <=> r.parent[x] = q
    BY <1>1, <1>2 DEF Linked
  <2>2. ASSUME NEW q \in Workspaces
        PROVE  /\ x \in r.tiling[q] \cup r.floating[q] <=> r.parent[x] = None /\ r.ws[x] = q
               /\ x \notin r.tiling[q] \cap r.floating[q]
    <3>1. /\ x \in t.tiling[q] \cup t.floating[q] <=> t.parent[x] = None /\ t.ws[x] = q
          /\ x \notin t.tiling[q] \cap t.floating[q]
      BY <1>1 DEF Linked
    <3>2. CASE x = c
      BY <1>1, <1>2, <1>5, <1>7, <1>8, <3>2, InsideType DEF Loose
    <3>3. CASE x # c
      BY <1>2, <1>5, <1>6, <1>8, <3>1, <3>3, Nothing
    <3> QED
      BY <3>2, <3>3
  <2> QED
    BY <2>1, <2>2
<1>10. r.parent = [t.parent EXCEPT ![c] = None]
  BY <1>2, <1>4 DEF Loose
<1>11. Moved(r, t, c, None, w) /\ c \in r.floating[w]
  BY <1>2, <1>3, <1>5, <1>9, <1>10 DEF Moved
<1> QED
  BY <1>11 DEF r

LEMMA InSplitMoves ==
  ASSUME NEW t, Fit(t), NEW c \in Container, Loose(t, c),
         NEW p \in Splits, p \notin Inside(t, c)
  PROVE  Moved(InSplit(t, p, c), t, c, p, t.ws[p])
<1> DEFINE r == InSplit(t, p, c)
           w == t.ws[p]
<1>1. t \in Tree /\ Linked(t)
  BY DEF Fit, Shape
<1>2. /\ Calm(r, t) /\ r.parent = [t.parent EXCEPT ![c] = p]
      /\ r.kids = More(t.kids, p, c) /\ r.floating = t.floating /\ r.tiling = t.tiling
      /\ r.ws = [x \in Container |-> IF x \in Inside(r, c) THEN w ELSE t.ws[x]]
  BY <1>1, InSplitFields
<1>3. r \in Tree
  BY <1>2, CalmTree
<1> HIDE DEF r, w
<1>4. /\ t.kids \in [Splits -> SUBSET Container]
      /\ t.parent \in [Container -> Splits \cup {None}]
  BY <1>1 DEF Tree
<1>5. \A x \in Container, q \in Splits :
         x \in r.kids[q] <=> x \in t.kids[q] \/ (x = c /\ q = p)
  BY <1>2, <1>4 DEF More
<1>6. Inside(r, c) = Inside(t, c)
  <2>1. \A x \in Splits : x # p => r.kids[x] = t.kids[x]
    BY <1>2, <1>4 DEF More
  <2> QED
    BY <1>1, <1>3, <2>1, InsideSame
<1>7. \A x \in Container : x \in Inside(t, c) /\ x # c => t.parent[x] \in Splits
  BY <1>1, InsideParent
<1>8. \A q \in Splits : c \notin t.kids[q]
  BY <1>1, Nothing DEF Linked, Loose
<1>9. \A q \in Workspaces : c \notin t.tiling[q] \cup t.floating[q]
  BY <1>1, Nothing DEF Linked, Loose
<1>10. \A x \in Container : r.ws[x] = IF x \in Inside(t, c) THEN w ELSE t.ws[x]
  BY <1>2, <1>6
<1>11. r.parent[c] = p /\ \A x \in Container \ {c} : r.parent[x] = t.parent[x]
  BY <1>2, <1>4
<1>12. Linked(r)
  <2> SUFFICES ASSUME NEW x \in Container
               PROVE  /\ \A q \in Splits : x \in r.kids[q] <=> r.parent[x] = q
                      /\ \A q \in Workspaces :
                           /\ x \in r.tiling[q] \cup r.floating[q]
                                <=> r.parent[x] = None /\ r.ws[x] = q
                           /\ x \notin r.tiling[q] \cap r.floating[q]
    BY DEF Linked
  <2>1. \A q \in Splits : x \in r.kids[q] <=> r.parent[x] = q
    BY <1>1, <1>5, <1>8, <1>11 DEF Linked
  <2>2. ASSUME NEW q \in Workspaces
        PROVE  /\ x \in r.tiling[q] \cup r.floating[q] <=> r.parent[x] = None /\ r.ws[x] = q
               /\ x \notin r.tiling[q] \cap r.floating[q]
    <3>1. /\ x \in t.tiling[q] \cup t.floating[q] <=> t.parent[x] = None /\ t.ws[x] = q
          /\ x \notin t.tiling[q] \cap t.floating[q]
      BY <1>1 DEF Linked
    <3>2. CASE x = c
      BY <1>2, <1>9, <1>11, <3>2, Nothing
    <3>3. CASE x # c
      BY <1>2, <1>7, <1>10, <1>11, <3>1, <3>3, Nothing
    <3> QED
      BY <3>2, <3>3
  <2> QED
    BY <2>1, <2>2
<1>13. Moved(r, t, c, p, w)
  BY <1>2, <1>6, <1>12 DEF Moved
<1> QED
  BY <1>13 DEF r, w

LEMMA BreakCalm ==
  ASSUME NEW t \in Tree, NEW how \in Breach
  PROVE  Calm(Break(t, how), t)
BY BreakQuiet, QuietCalm

LEMMA CalmSame ==
  ASSUME NEW t \in Tree
  PROVE  Calm(t, t)
BY QuietSame, QuietCalm

LEMMA NullBreaks ==
  ASSUME NEW t \in Tree
  PROVE  Undefined(Break(t, "null")) /\ Undefined(Break(t, "freed"))
BY DEF Undefined, Break, Tree

LEMMA DefinedBefore ==
  ASSUME NEW t, NEW r, Carries(r, t), ~Undefined(r)
  PROVE  ~Undefined(t)
BY DEF Carries, Undefined

LEMMA PlacesCalm ==
  ASSUME NEW t \in Tree, NEW c \in Container
  PROVE  /\ \A w \in Workspaces \cup {None} : Calm(InTiling(t, w, c), t)
         /\ \A w \in Workspaces \cup {None} : Calm(InFloating(t, w, c), t)
         /\ \A p \in Splits : Calm(InSplit(t, p, c), t)
         /\ Calm(Detach(t, c), t) /\ Calm(Leave(t, c), t) /\ Calm(DetachIfPlaced(t, c), t)
<1>1. ASSUME NEW w \in Workspaces \cup {None}
      PROVE  Calm(InTiling(t, w, c), t)
  <2>1. CASE w = None
    BY <2>1, BreakCalm DEF InTiling, Breach
  <2>2. CASE w # None
    BY <1>1, <2>2, InTilingFields
  <2> QED
    BY <2>1, <2>2
<1>2. ASSUME NEW w \in Workspaces \cup {None}
      PROVE  Calm(InFloating(t, w, c), t)
  <2>1. CASE w = None
    BY <2>1, BreakCalm DEF InFloating, Breach
  <2>2. CASE w # None
    BY <1>2, <2>2, InFloatingFields
  <2> QED
    BY <2>1, <2>2
<1>3. \A p \in Splits : Calm(InSplit(t, p, c), t)
  BY InSplitFields
<1>4. Calm(Detach(t, c), t)
  BY DetachFields
<1>5. Calm(Leave(t, c), t) /\ Calm(DetachIfPlaced(t, c), t)
  BY <1>4, CalmSame DEF Leave, DetachIfPlaced
<1> QED
  BY <1>1, <1>2, <1>3, <1>4, <1>5

LEMMA BesideCalm ==
  ASSUME NEW t \in Tree, NEW fixed \in Container, NEW c \in Container
  PROVE  Calm(Beside(t, fixed, c), t)
<1> DEFINE w == t.ws[fixed]
           p == t.parent[fixed]
           u == [t EXCEPT !.parent[c] = None]
<1>1. p \in Splits \cup {None} /\ w \in Workspaces \cup {None}
  BY TreeTypes
<1>2. /\ u \in Tree /\ u.life = t.life /\ u.scratch = t.scratch /\ u.op = t.op
      /\ u.broken = t.broken /\ u.mode = t.mode /\ u.global = t.global
  BY DEF Tree
<1>3. \/ p # None /\ Beside(t, fixed, c) = InSplit(t, p, c)
      \/ Beside(t, fixed, c) = Break(t, "null")
      \/ Beside(t, fixed, c) = InTiling(u, w, c)
      \/ Beside(t, fixed, c) = InFloating(u, w, c)
  BY DEF Beside
<1> HIDE DEF w, p, u
<1>4. Calm(u, t)
  BY <1>2, CalmIf
<1>5. Calm(InTiling(u, w, c), t) /\ Calm(InFloating(u, w, c), t)
  BY <1>1, <1>2, <1>4, PlacesCalm, CalmOn
<1> QED
  BY <1>1, <1>3, <1>5, PlacesCalm, BreakCalm DEF Breach

LEMMA AddsCalm ==
  ASSUME NEW t \in Tree, NEW c \in Container
  PROVE  /\ \A w \in Workspaces \cup {None} : Calm(InsertTiling(t, w, c), t)
         /\ \A w \in Workspaces \cup {None} : Calm(AddFloating(t, w, c), t)
         /\ \A p \in Splits : Calm(AddChild(t, p, c), t)
         /\ \A fixed \in Container : Calm(AddSibling(t, fixed, c), t)
<1> DEFINE u == Leave(t, c)
<1>1. Calm(u, t) /\ u \in Tree
  BY PlacesCalm, CalmTree
<1>2. /\ \A w : InsertTiling(t, w, c) = InTiling(u, w, c) /\ AddFloating(t, w, c) = InFloating(u, w, c)
      /\ \A p : AddChild(t, p, c) = InSplit(u, p, c)
      /\ \A fixed : AddSibling(t, fixed, c) = Beside(u, fixed, c)
  BY DEF InsertTiling, AddFloating, AddChild, AddSibling
<1> HIDE DEF u
<1>3. /\ \A w \in Workspaces \cup {None} : Calm(InTiling(u, w, c), t) /\ Calm(InFloating(u, w, c), t)
      /\ \A p \in Splits : Calm(InSplit(u, p, c), t)
      /\ \A fixed \in Container : Calm(Beside(u, fixed, c), t)
  BY <1>1, PlacesCalm, BesideCalm, CalmOn
<1> QED
  BY <1>2, <1>3

(***************************************************************************)
(* What attaching does to a tree that fits.                                *)
(***************************************************************************)

\* A container moves as it may.
Moves(r, t, c, p, w) == Moved(r, t, c, p, w) /\ MayMove(r, t, c, p, w)

LEMMA MovesFit ==
  ASSUME NEW t, Fit(t), NEW c \in Container, NEW r, NEW p \in Splits \cup {None}, NEW w,
         Moves(r, t, c, p, w)
  PROVE  /\ Fit(r) /\ Calm(r, t) /\ r \in Tree
         /\ r.life = t.life /\ r.scratch = t.scratch
         /\ r.parent[c] = p /\ r.ws[c] = w
         /\ \A x \in Container \ {c} : r.parent[x] = t.parent[x]
         /\ \A x \in Container : /\ x \in Inside(t, c) => r.ws[x] = w
                                 /\ x \notin Inside(t, c) => r.ws[x] = t.ws[x]
         /\ Inside(r, c) = Inside(t, c)
         /\ \A x \in Container : p \notin Inside(t, x) => Inside(r, x) \subseteq Inside(t, x)
         /\ Lost(r) \subseteq Lost(t) \cup {c}
         /\ p # None \/ w # None \/ c \in t.scratch => c \notin Lost(r)
         /\ Empty(r) \subseteq (Empty(t) \cup {t.parent[c]}) \ {p}
<1>1. t \in Tree
  BY DEF Fit
<1>2. Fit(r)
  BY MovedFit DEF Moves
<1>3. /\ r \in Tree /\ r.life = t.life /\ r.scratch = t.scratch
      /\ r.parent[c] = p /\ r.ws[c] = w
      /\ \A x \in Container \ {c} : r.parent[x] = t.parent[x]
      /\ \A x \in Container : /\ x \in Inside(t, c) => r.ws[x] = w
                              /\ x \notin Inside(t, c) => r.ws[x] = t.ws[x]
  BY <1>1, MovedFields DEF Moves
<1>4. Calm(r, t) /\ Inside(r, c) = Inside(t, c)
  BY DEF Moves, Moved
<1>5. \A x \in Container : p \notin Inside(t, x) => Inside(r, x) \subseteq Inside(t, x)
  BY MovedInside DEF Moves
<1>6. /\ Lost(r) \subseteq Lost(t) \cup {c}
      /\ p # None \/ w # None \/ c \in t.scratch => c \notin Lost(r)
      /\ Empty(r) \subseteq (Empty(t) \cup {t.parent[c]}) \ {p}
  BY MovedLeaves DEF Moves
<1> QED
  BY <1>2, <1>3, <1>4, <1>5, <1>6

LEMMA MovesOn ==
  ASSUME NEW t, Fit(t), NEW c \in Container, NEW u, NEW r, NEW w1,
         NEW p2 \in Splits \cup {None}, NEW w2,
         Moves(u, t, c, None, w1), Moves(r, u, c, p2, w2)
  PROVE  Moves(r, t, c, p2, w2)
<1>1. t \in Tree
  BY DEF Fit
<1>2. Moved(r, t, c, p2, w2)
  BY <1>1, MovedOn DEF Moves
<1> DEFINE n == None
<1>4. n \in Splits \cup {None} /\ Moves(u, t, c, n, w1)
  OBVIOUS
<1> HIDE DEF n
<1>3. /\ u.life = t.life /\ u.scratch = t.scratch /\ Inside(u, c) = Inside(t, c)
      /\ \A x \in Container : x \notin Inside(t, c) => u.ws[x] = t.ws[x]
  BY <1>4, MovesFit
<1>5. MayMove(r, t, c, p2, w2)
  BY <1>3, InsideType, Nothing DEF MayMove, Moves, Fit
<1> QED
  BY <1>2, <1>5 DEF Moves

LEMMA DetachFit ==
  ASSUME NEW t, Fit(t), NEW c \in Container
  PROVE  /\ Moves(Detach(t, c), t, c, None, None)
         /\ Fit(Detach(t, c)) /\ Loose(Detach(t, c), c)
<1>1. Moves(Detach(t, c), t, c, None, None)
  BY DetachMoves DEF Moves
<1> DEFINE n == None
           r == Detach(t, c)
<1>2. n \in Splits \cup {None} /\ Moves(r, t, c, n, None)
  BY <1>1
<1> HIDE DEF n, r
<1>3. Fit(r) /\ r.parent[c] = n /\ r.ws[c] = None
  BY <1>2, MovesFit
<1> QED
  BY <1>1, <1>3 DEF Loose, n, r

\* Nothing moves.
LEMMA StaysPut ==
  ASSUME NEW t, Fit(t), NEW c \in Container, Loose(t, c)
  PROVE  Moves(t, t, c, None, None)
<1>1. t \in Tree /\ Linked(t) /\ Together(t)
  BY DEF Fit, Shape
<1>2. /\ t.parent \in [Container -> Splits \cup {None}]
      /\ t.ws \in [Container -> Workspaces \cup {None}]
  BY <1>1 DEF Tree
<1>3. \A x \in Container : x \in Inside(t, c) => t.ws[x] = None
  BY <1>1, InsideWorkspace DEF Loose
<1>4. t.ws = [x \in Container |-> IF x \in Inside(t, c) THEN None ELSE t.ws[x]]
  BY <1>2, <1>3
<1>5. t.parent = [t.parent EXCEPT ![c] = None]
  BY <1>2 DEF Loose
<1>6. Moved(t, t, c, None, None)
  BY <1>1, <1>4, <1>5, CalmSame DEF Moved
<1> QED
  BY <1>6 DEF Moves, MayMove

\* Out of its place, if it has one that the workspace pointer tells.
LEMMA LeaveFit ==
  ASSUME NEW t, Fit(t), NEW c \in Container, t.parent[c] # None => t.ws[c] # None
  PROVE  /\ Moves(Leave(t, c), t, c, None, None)
         /\ Fit(Leave(t, c)) /\ Loose(Leave(t, c), c)
<1>1. CASE t.ws[c] = None
  <2>1. Leave(t, c) = t /\ Loose(t, c)
    BY <1>1 DEF Leave, Loose
  <2> QED
    BY <2>1, StaysPut
<1>2. CASE t.ws[c] # None
  BY <1>2, DetachFit DEF Leave
<1> QED
  BY <1>1, <1>2

LEMMA InTilingFit ==
  ASSUME NEW t, Fit(t), NEW c \in Container, Loose(t, c),
         t.life[c] = "live", c \notin t.scratch, NEW w,
         w \in Workspaces \cup {None}, ~Undefined(InTiling(t, w, c))
  PROVE  Moves(InTiling(t, w, c), t, c, None, w) /\ w \in Workspaces
<1>1. t \in Tree
  BY DEF Fit
<1>2. w \in Workspaces
  BY <1>1, NullBreaks DEF InTiling
<1> QED
  BY <1>2, InTilingMoves DEF Moves, MayMove

LEMMA InFloatingFit ==
  ASSUME NEW t, Fit(t), NEW c \in Container, Loose(t, c), t.life[c] = "live",
         NEW w, w \in Workspaces \cup {None}, ~Undefined(InFloating(t, w, c))
  PROVE  /\ Moves(InFloating(t, w, c), t, c, None, w) /\ w \in Workspaces
         /\ c \in InFloating(t, w, c).floating[w]
<1>1. t \in Tree
  BY DEF Fit
<1>2. w \in Workspaces
  BY <1>1, NullBreaks DEF InFloating
<1> QED
  BY <1>2, InFloatingMoves DEF Moves, MayMove

LEMMA InSplitFit ==
  ASSUME NEW t, Fit(t), NEW c \in Container, Loose(t, c),
         t.life[c] = "live", c \notin t.scratch,
         NEW p \in Splits, t.life[p] = "live", p \notin Inside(t, c)
  PROVE  Moves(InSplit(t, p, c), t, c, p, t.ws[p])
BY InSplitMoves, Nothing DEF Moves, MayMove

\* To the root of a workspace, or out of the tree.
LEMMA MovesOut ==
  ASSUME NEW t, Fit(t), NEW c \in Container, NEW r, NEW w, Moves(r, t, c, None, w)
  PROVE  /\ Fit(r) /\ Calm(r, t) /\ r \in Tree
         /\ r.life = t.life /\ r.scratch = t.scratch
         /\ r.parent[c] = None /\ r.ws[c] = w
         /\ \A x \in Container \ {c} : r.parent[x] = t.parent[x]
         /\ \A x \in Container : /\ x \in Inside(t, c) => r.ws[x] = w
                                 /\ x \notin Inside(t, c) => r.ws[x] = t.ws[x]
         /\ Inside(r, c) = Inside(t, c)
         /\ \A x \in Container : Inside(r, x) \subseteq Inside(t, x)
         /\ Lost(r) \subseteq Lost(t) \cup {c}
         /\ w # None \/ c \in t.scratch => c \notin Lost(r)
         /\ Empty(r) \subseteq Empty(t) \cup {t.parent[c]}
<1> DEFINE n == None
<1>1. n \in Splits \cup {None} /\ Moves(r, t, c, n, w)
  OBVIOUS
<1>2. \A x \in Container : n \notin Inside(t, x)
  BY InsideType, Nothing DEF Fit
<1> HIDE DEF n
<1>3. /\ Fit(r) /\ Calm(r, t) /\ r \in Tree
      /\ r.life = t.life /\ r.scratch = t.scratch
      /\ r.parent[c] = n /\ r.ws[c] = w
      /\ \A x \in Container \ {c} : r.parent[x] = t.parent[x]
      /\ \A x \in Container : /\ x \in Inside(t, c) => r.ws[x] = w
                              /\ x \notin Inside(t, c) => r.ws[x] = t.ws[x]
      /\ Inside(r, c) = Inside(t, c)
      /\ Lost(r) \subseteq Lost(t) \cup {c}
  BY <1>1, MovesFit
<1>5. w # None \/ c \in t.scratch => c \notin Lost(r)
  BY <1>3 DEF Lost
<1>6. Empty(r) \subseteq Empty(t) \cup {t.parent[c]}
  BY <1>1, MovesFit
<1>4. \A x \in Container : Inside(r, x) \subseteq Inside(t, x)
  BY <1>1, <1>2, MovesFit
<1> QED
  BY <1>3, <1>4, <1>5, <1>6 DEF n

LEMMA AddChildFit ==
  ASSUME NEW t, Fit(t), NEW c \in Container, t.parent[c] # None => t.ws[c] # None,
         t.life[c] = "live", c \notin t.scratch,
         NEW p \in Splits, t.life[p] = "live", p \notin Inside(t, c)
  PROVE  Moves(AddChild(t, p, c), t, c, p, t.ws[p])
<1> DEFINE u == Leave(t, c)
<1>1. Moves(u, t, c, None, None) /\ Fit(u) /\ Loose(u, c)
  BY LeaveFit
<1>2. AddChild(t, p, c) = InSplit(u, p, c)
  BY DEF AddChild
<1> HIDE DEF u
<1>3. /\ u.life = t.life /\ u.scratch = t.scratch /\ Inside(u, c) = Inside(t, c)
      /\ u.ws[p] = t.ws[p]
  BY <1>1, MovesOut, Nothing
<1>4. Moves(InSplit(u, p, c), u, c, p, u.ws[p])
  BY <1>1, <1>3, InSplitFit
<1> QED
  BY <1>1, <1>2, <1>3, <1>4, MovesOn

LEMMA InsertTilingFit ==
  ASSUME NEW t, Fit(t), NEW c \in Container, t.parent[c] # None => t.ws[c] # None,
         t.life[c] = "live", c \notin t.scratch,
         NEW w, w \in Workspaces \cup {None}, ~Undefined(InsertTiling(t, w, c))
  PROVE  Moves(InsertTiling(t, w, c), t, c, None, w) /\ w \in Workspaces
<1> DEFINE u == Leave(t, c)
           n == None
<1>1. Moves(u, t, c, None, None) /\ Fit(u) /\ Loose(u, c)
  BY LeaveFit
<1>2. InsertTiling(t, w, c) = InTiling(u, w, c)
  BY DEF InsertTiling
<1> HIDE DEF u
<1>3. u.life = t.life /\ u.scratch = t.scratch
  BY <1>1, MovesOut
<1>4. Moves(InTiling(u, w, c), u, c, n, w) /\ w \in Workspaces /\ n \in Splits \cup {None}
  BY <1>1, <1>2, <1>3, InTilingFit
<1> HIDE DEF n
<1>5. Moves(InTiling(u, w, c), t, c, n, w)
  BY <1>1, <1>4, MovesOn
<1> QED
  BY <1>2, <1>4, <1>5 DEF n

LEMMA AddFloatingFit ==
  ASSUME NEW t, Fit(t), NEW c \in Container, t.parent[c] # None => t.ws[c] # None,
         t.life[c] = "live",
         NEW w, w \in Workspaces \cup {None}, ~Undefined(AddFloating(t, w, c))
  PROVE  /\ Moves(AddFloating(t, w, c), t, c, None, w) /\ w \in Workspaces
         /\ c \in AddFloating(t, w, c).floating[w]
<1> DEFINE u == Leave(t, c)
           n == None
<1>1. Moves(u, t, c, None, None) /\ Fit(u) /\ Loose(u, c)
  BY LeaveFit
<1>2. AddFloating(t, w, c) = InFloating(u, w, c)
  BY DEF AddFloating
<1> HIDE DEF u
<1>3. u.life = t.life /\ u.scratch = t.scratch
  BY <1>1, MovesOut
<1>4. Moves(InFloating(u, w, c), u, c, n, w) /\ w \in Workspaces /\ n \in Splits \cup {None}
      /\ c \in InFloating(u, w, c).floating[w]
  BY <1>1, <1>2, <1>3, InFloatingFit
<1> HIDE DEF n
<1>5. Moves(InFloating(u, w, c), t, c, n, w)
  BY <1>1, <1>4, MovesOn
<1> QED
  BY <1>2, <1>4, <1>5 DEF n

LEMMA BesideFit ==
  ASSUME NEW t, Fit(t), NEW c \in Container, Loose(t, c),
         t.life[c] = "live", c \notin t.scratch,
         NEW fixed \in Container, fixed \notin Inside(t, c),
         ~Undefined(Beside(t, fixed, c))
  PROVE  /\ Moves(Beside(t, fixed, c), t, c, t.parent[fixed], t.ws[fixed])
         /\ t.parent[fixed] # None \/ t.ws[fixed] # None
<1> DEFINE w == t.ws[fixed]
           p == t.parent[fixed]
           u == [t EXCEPT !.parent[c] = None]
           r == Beside(t, fixed, c)
<1>1. /\ t \in Tree /\ Linked(t) /\ Together(t) /\ Living(t)
      /\ p \in Splits \cup {None} /\ w \in Workspaces \cup {None}
  BY TreeTypes DEF Fit, Shape
<1>2. u = t
  <2>1. [t.parent EXCEPT ![c] = None] = t.parent
    BY <1>1 DEF Loose, Tree
  <2> QED
    BY <1>1, <2>1 DEF Tree
<1>3. CASE p # None
  <2>1. r = InSplit(t, p, c)
    BY <1>3 DEF Beside
  <2>2. p \in Splits /\ t.life[p] = "live" /\ p \notin Inside(t, c) /\ w = t.ws[p]
    BY <1>1, <1>3, InsideChild DEF Living, Together
  <2>3. Moves(InSplit(t, p, c), t, c, p, t.ws[p])
    BY <2>2, InSplitFit
  <2> QED
    BY <1>3, <2>1, <2>2, <2>3
<1>4. CASE p = None /\ w = None
  BY <1>1, <1>4, NullBreaks DEF Beside
<1>5. CASE p = None /\ w # None
  <2>1. r = InTiling(t, w, c) \/ r = InFloating(t, w, c)
    BY <1>2, <1>5 DEF Beside
  <2>2. Moves(r, t, c, None, w)
    BY <1>1, <2>1, InTilingFit, InFloatingFit
  <2> QED
    BY <1>5, <2>2
<1> QED
  BY <1>1, <1>3, <1>4, <1>5

LEMMA AddSiblingFit ==
  ASSUME NEW t, Fit(t), NEW c \in Container, t.parent[c] # None => t.ws[c] # None,
         t.life[c] = "live", c \notin t.scratch,
         NEW fixed \in Container, fixed \notin Inside(t, c),
         ~Undefined(AddSibling(t, fixed, c))
  PROVE  /\ Moves(AddSibling(t, fixed, c), t, c, t.parent[fixed], t.ws[fixed])
         /\ t.parent[fixed] # None \/ t.ws[fixed] # None
<1> DEFINE u == Leave(t, c)
           p == t.parent[fixed]
           w == t.ws[fixed]
<1>1. Moves(u, t, c, None, None) /\ Fit(u) /\ Loose(u, c)
  BY LeaveFit
<1>2. AddSibling(t, fixed, c) = Beside(u, fixed, c)
  BY DEF AddSibling
<1>0. p \in Splits \cup {None} /\ fixed # c
  BY TreeTypes, InsideType DEF Fit
<1> HIDE DEF u
<1>3. /\ u.life = t.life /\ u.scratch = t.scratch /\ Inside(u, c) = Inside(t, c)
      /\ u.ws[fixed] = w /\ u.parent[fixed] = p
  BY <1>0, <1>1, MovesOut
<1> HIDE DEF p, w
<1>4. Moves(Beside(u, fixed, c), u, c, p, w) /\ (p # None \/ w # None)
  BY <1>1, <1>2, <1>3, BesideFit
<1>5. Moves(Beside(u, fixed, c), t, c, p, w)
  BY <1>0, <1>1, <1>4, MovesOn
<1> QED
  BY <1>2, <1>4, <1>5 DEF p, w

(***************************************************************************)
(* Destroying.                                                             *)
(***************************************************************************)

\* What a handler's steps keep of any tree.
Tame(r, t) == Carries(r, t) /\ (Local(t) => Local(r))

LEMMA TameOn ==
  ASSUME NEW t, NEW u, NEW r, Tame(u, t), Tame(r, u)
  PROVE  Tame(r, t)
BY CarriesOn DEF Tame

LEMMA CalmTame ==
  ASSUME NEW t, NEW r, Calm(r, t)
  PROVE  Tame(r, t)
BY DEF Calm, Tame

LEMMA QuietTame ==
  ASSUME NEW t, NEW r, Quiet(r, t)
  PROVE  Tame(r, t)
BY DEF Quiet, Tame

LEMMA TameTree ==
  ASSUME NEW t, NEW r, Tame(r, t)
  PROVE  r \in Tree
BY DEF Tame, Carries

LEMMA TameSame ==
  ASSUME NEW t \in Tree
  PROVE  Tame(t, t)
BY CalmSame, CalmTame

LEMMA TameDefined ==
  ASSUME NEW t, NEW r, Tame(r, t), ~Undefined(r)
  PROVE  ~Undefined(t)
BY DefinedBefore DEF Tame

\* The same lists and pointers, whoever lives.
Alike(r, t) ==
  /\ r.parent = t.parent /\ r.ws = t.ws /\ r.kids = t.kids
  /\ r.tiling = t.tiling /\ r.floating = t.floating

LEMMA DetachAlike ==
  ASSUME NEW t \in Tree, NEW r \in Tree, Alike(r, t), NEW c \in Container
  PROVE  Alike(Detach(r, c), Detach(t, c)) /\ Alike(DetachIfPlaced(r, c), DetachIfPlaced(t, c))
<1> DEFINE p == t.parent[c]
           w == t.ws[c]
           v(x) == Unlisted(x, c)
           d(x) == Detach(x, c)
<1>1. /\ r.parent[c] = p /\ r.ws[c] = w /\ r.kids = t.kids /\ r.parent = t.parent
      /\ r.tiling = t.tiling /\ r.floating = t.floating /\ r.ws = t.ws
  BY DEF Alike
<1>2. ASSUME NEW x \in {t, r}
      PROVE  /\ p # None => /\ v(x).kids = Less(t.kids, p, c)
                            /\ v(x).tiling = t.tiling /\ v(x).floating = t.floating
             /\ p = None => v(x).kids = t.kids
             /\ p = None /\ w = None => v(x).tiling = t.tiling /\ v(x).floating = t.floating
             /\ p = None /\ w # None =>
                  \/ /\ c \in t.tiling[w]
                     /\ v(x).tiling = Less(t.tiling, w, c) /\ v(x).floating = t.floating
                  \/ /\ c \notin t.tiling[w]
                     /\ v(x).floating = Less(t.floating, w, c) /\ v(x).tiling = t.tiling
  <2>1. /\ x \in Tree /\ x.parent[c] = p /\ x.ws[c] = w /\ x.kids = t.kids
        /\ x.tiling = t.tiling /\ x.floating = t.floating
    BY <1>1, <1>2
  <2> HIDE DEF p, w
  <2> QED
    BY <2>1, UnlistedFields
<1>3. ASSUME NEW x \in {t, r}
      PROVE  /\ d(x).parent = [t.parent EXCEPT ![c] = None]
             /\ d(x).kids = v(x).kids /\ d(x).tiling = v(x).tiling
             /\ d(x).floating = v(x).floating
             /\ d(x).ws = [y \in Container |-> IF y \in Inside(d(x), c) THEN None ELSE t.ws[y]]
  BY <1>1, <1>3, DetachFields
<1> HIDE DEF v, d, p, w
<1>4. v(r).kids = v(t).kids
  BY <1>2
<1>5. v(r).tiling = v(t).tiling /\ v(r).floating = v(t).floating
  BY <1>2
<1>6. Inside(d(r), c) = Inside(d(t), c)
  BY <1>3, <1>4, InsideKids
<1>7. Alike(d(r), d(t))
  BY <1>3, <1>4, <1>5, <1>6 DEF Alike
<1>8. Alike(DetachIfPlaced(r, c), DetachIfPlaced(t, c))
  BY <1>1, <1>7 DEF DetachIfPlaced, Alike, d
<1> QED
  BY <1>7, <1>8 DEF d

\* The container before it is detached.
Doomed(t, c) ==
  LeaveGlobalMode(EndMouseOperation([CleanReferences(t, c) EXCEPT
                                       !.life[c] = "destroying",
                                       !.scratch = @ \ {c}], c), c)

LEMMA DoomedFields ==
  ASSUME NEW t \in Tree, NEW c \in Container
  PROVE  LET r == Doomed(t, c)
         IN  /\ Tame(r, t) /\ Alike(r, t)
             /\ r.life = [t.life EXCEPT ![c] = "destroying"]
             /\ r.scratch = t.scratch \ {c}
<1> DEFINE u == CleanReferences(t, c)
           k == u.scratch \ {c}
           d == [u EXCEPT !.life[c] = "destroying", !.scratch = k]
           e == EndMouseOperation(d, c)
           r == LeaveGlobalMode(e, c)
<1>1. Doomed(t, c) = r
  BY DEF Doomed
<1>2. Quiet(u, t) /\ u \in Tree
  BY CleanQuiet, QuietTree
<1> HIDE DEF u
<1>3. k \in SUBSET Container
  BY <1>2 DEF Tree
<1>4. k = t.scratch \ {c}
  BY <1>2 DEF Quiet, Same
<1> HIDE DEF k
<1>5. /\ d \in Tree /\ d.life = [u.life EXCEPT ![c] = "destroying"] /\ d.scratch = k
      /\ d.op = u.op /\ d.broken = u.broken /\ d.mode = u.mode /\ d.global = u.global
      /\ Alike(d, u)
  BY <1>2, <1>3 DEF Tree, Life, Alike
<1> HIDE DEF d
<1>6. Quiet(e, d) /\ Operands(e) \subseteq Operands(d) \ {c}
  BY <1>5, EndMouseQuiet
<1> HIDE DEF e
<1>7. e \in Tree /\ Same(e, d)
  BY <1>6, QuietTree DEF Quiet
<1>8. Minds(u) => Minds(e)
  <2>1. Operands(d) = Operands(u) /\ Operands(u) \subseteq Container
    BY <1>2, <1>5 DEF Operands, Tree, SeatOp
  <2>2. \A x \in Container \ {c} : e.life[x] = u.life[x]
    BY <1>2, <1>5, <1>7 DEF Same, Tree
  <2> QED
    BY <1>6, <2>1, <2>2 DEF Minds
<1>9. Carries(e, u)
  BY <1>5, <1>6, <1>7, <1>8 DEF Carries, Quiet, Goes
<1>10. Tame(e, u)
  BY <1>5, <1>6, <1>9 DEF Tame, Quiet, Local
<1>11. Quiet(r, e)
  BY <1>7, DisableIfQuiet
<1> HIDE DEF r
<1>12. Tame(r, t)
  BY <1>2, <1>10, <1>11, TameOn, QuietTame
<1>13. /\ Alike(r, t) /\ r.life = [t.life EXCEPT ![c] = "destroying"]
       /\ r.scratch = t.scratch \ {c}
  BY <1>2, <1>4, <1>5, <1>7, <1>11 DEF Quiet, Same, Alike
<1> QED
  BY <1>1, <1>12, <1>13

LEMMA BeginDestroyTame ==
  ASSUME NEW t \in Tree, NEW c \in Container
  PROVE  Tame(BeginDestroy(t, c), t)
<1>1. BeginDestroy(t, c) = DetachIfPlaced(Doomed(t, c), c)
  BY DEF BeginDestroy, Doomed
<1>2. Tame(Doomed(t, c), t) /\ Doomed(t, c) \in Tree
  BY DoomedFields, TameTree
<1>3. Calm(DetachIfPlaced(Doomed(t, c), c), Doomed(t, c))
  BY <1>2, PlacesCalm
<1> QED
  BY <1>1, <1>2, <1>3, CalmTame, TameOn

\* What a change elsewhere leaves alone.
Spared(r, t, a) ==
  /\ Inside(r, a) = Inside(t, a)
  /\ \A x \in Inside(t, a) :
       /\ r.life[x] = t.life[x] /\ r.parent[x] = t.parent[x] /\ r.ws[x] = t.ws[x]
       /\ x \in r.scratch <=> x \in t.scratch
       /\ x \in Splits => r.kids[x] = t.kids[x]
       /\ \A w \in Workspaces : x \in r.floating[w] <=> x \in t.floating[w]

LEMMA SparedOn ==
  ASSUME NEW t, NEW u, NEW r, NEW a, Spared(u, t, a), Spared(r, u, a)
  PROVE  Spared(r, t, a)
BY DEF Spared

LEMMA SparedSame ==
  ASSUME NEW t, NEW a
  PROVE  Spared(t, t, a)
BY DEF Spared

LEMMA BeginDestroyFit ==
  ASSUME NEW t, Fit(t), NEW c \in Container, c \in Splits => t.kids[c] = {}
  PROVE  LET r == BeginDestroy(t, c)
         IN  /\ Fit(r) /\ r.life = [t.life EXCEPT ![c] = "destroying"]
             /\ Loose(r, c) /\ (c \in Splits => r.kids[c] = {})
             /\ Lost(r) \subseteq Lost(t) \ {c}
             /\ Empty(r) \subseteq (Empty(t) \cup {t.parent[c]}) \ {c}
             /\ \A a \in Container : c \notin Inside(t, a) => Spared(r, t, a)
<1> DEFINE x == Doomed(t, c)
           y == DetachIfPlaced(t, c)
           r == BeginDestroy(t, c)
<1>1. t \in Tree /\ Local(t) /\ Linked(t)
  BY DEF Fit, Shape
<1>2. r = DetachIfPlaced(x, c)
  BY DEF BeginDestroy, Doomed
<1>3. /\ Tame(x, t) /\ Alike(x, t) /\ x \in Tree
      /\ x.life = [t.life EXCEPT ![c] = "destroying"] /\ x.scratch = t.scratch \ {c}
  BY <1>1, DoomedFields, TameTree
<1> HIDE DEF x
<1>4. Alike(r, y) /\ Calm(r, x)
  BY <1>1, <1>2, <1>3, DetachAlike, PlacesCalm
<1>5. Moves(y, t, c, None, None)
  BY DetachFit, StaysPut DEF DetachIfPlaced, Loose
<1>6. r \in Tree /\ Local(r)
  BY <1>1, <1>2, BeginDestroyTame, TameTree DEF Tame
<1> HIDE DEF r, y
<1>7. /\ Fit(y) /\ y \in Tree /\ y.life = t.life /\ y.scratch = t.scratch
      /\ Loose(y, c) /\ Inside(y, c) = Inside(t, c)
      /\ \A z \in Container \ {c} : y.parent[z] = t.parent[z]
      /\ \A z \in Container : z \notin Inside(t, c) => y.ws[z] = t.ws[z]
      /\ Lost(y) \subseteq Lost(t) \cup {c}
      /\ Empty(y) \subseteq Empty(t) \cup {t.parent[c]}
  BY <1>5, MovesOut DEF Loose
<1>8. Inside(t, c) = {c}
  BY <1>1, InsideAlone
<1>9. /\ Linked(y) /\ Together(y) /\ Rooted(y) /\ Living(y) /\ Shelved(y)
  BY <1>7 DEF Fit, Shape
<1>10. /\ r.parent = y.parent /\ r.ws = y.ws /\ r.kids = y.kids
       /\ r.tiling = y.tiling /\ r.floating = y.floating
       /\ r.life = [t.life EXCEPT ![c] = "destroying"] /\ r.scratch = t.scratch \ {c}
  BY <1>3, <1>4 DEF Alike, Calm
<1>11. \A z \in Container : r.life[z] = IF z = c THEN "destroying" ELSE t.life[z]
  BY <1>1, <1>10 DEF Tree
<1>12. c \in Splits => y.kids[c] = {}
  <2> SUFFICES ASSUME c \in Splits, NEW z \in y.kids[c]
               PROVE  FALSE
    OBVIOUS
  <2>1. z \in Container /\ y.parent[z] = c
    BY <1>7, <1>9, TreeTypes DEF Linked
  <2>2. z # c
    BY <1>7, <2>1, Nothing DEF Loose
  <2> QED
    BY <1>1, <1>7, <2>1, <2>2 DEF Linked
<1>13. Linked(r) /\ Together(r)
  BY <1>9, <1>10 DEF Linked, Together
<1>14. Rooted(r)
  BY <1>9, <1>10, InsideKids DEF Rooted
<1>15. Living(r)
  <2> SUFFICES ASSUME NEW z \in Container
               PROVE  /\ r.parent[z] # None \/ r.ws[z] # None \/ z \in r.scratch => r.life[z] = "live"
                      /\ r.parent[z] # None => r.life[r.parent[z]] = "live"
    BY DEF Living
  <2>1. y.parent[z] # c
    BY <1>9, <1>12, <1>7, TreeTypes, Nothing DEF Linked
  <2>2. y.parent[z] \in Splits \cup {None}
    BY <1>7, TreeTypes
  <2> QED
    BY <1>7, <1>9, <1>10, <1>11, <2>1, <2>2, Nothing DEF Living, Loose
<1>16. Shelved(r)
  BY <1>7, <1>9, <1>10 DEF Shelved
<1>17. Fit(r)
  BY <1>6, <1>13, <1>14, <1>15, <1>16 DEF Fit, Shape
<1>18. Lost(r) \subseteq Lost(t) \ {c}
  BY <1>7, <1>10, <1>11 DEF Lost
<1>19. Empty(r) \subseteq (Empty(t) \cup {t.parent[c]}) \ {c}
  BY <1>7, <1>10, <1>11, Nothing DEF Empty
<1>20. ASSUME NEW a \in Container, c \notin Inside(t, a)
       PROVE  Spared(r, t, a)
  <2>1. ASSUME NEW z \in Splits, z \in Inside(t, a)
        PROVE  r.kids[z] = t.kids[z]
    <3>1. r.kids[z] \subseteq Container /\ t.kids[z] \subseteq Container
      BY <1>1, <1>6, <2>1, TreeTypes
    <3>2. c \notin t.kids[z] /\ c \notin r.kids[z]
      BY <1>1, <1>7, <1>9, <1>10, <1>20, <2>1, InsideType, Nothing DEF Linked, Loose
    <3>3. \A k \in Container \ {c} : k \in r.kids[z] <=> k \in t.kids[z]
      BY <1>1, <1>7, <1>9, <1>10, <2>1 DEF Linked
    <3> QED
      BY <3>1, <3>2, <3>3
  <2>2. Inside(r, a) = Inside(t, a)
    BY <1>1, <1>6, <2>1, InsideSame
  <2>3. \A z \in Inside(t, a) : z \in Container /\ z # c
    BY <1>1, <1>20, InsideType
  <2>4. \A z \in Inside(t, a) : /\ r.life[z] = t.life[z] /\ r.parent[z] = t.parent[z] /\ r.ws[z] = t.ws[z]
                                /\ z \in r.scratch <=> z \in t.scratch
    BY <1>7, <1>8, <1>10, <1>11, <2>3
  <2>5. \A z \in Inside(t, a), w \in Workspaces : z \in r.floating[w] <=> z \in t.floating[w]
    BY <1>5, <1>10, <2>3 DEF Moves, Moved
  <2> QED
    BY <2>1, <2>2, <2>4, <2>5 DEF Spared
<1>21. Loose(r, c) /\ (c \in Splits => r.kids[c] = {})
  BY <1>7, <1>10, <1>12 DEF Loose
<1> QED
  BY <1>10, <1>17, <1>18, <1>19, <1>20, <1>21 DEF r

(***************************************************************************)
(* Reaping empty splits.                                                   *)
(***************************************************************************)
Reap(x) ==
  IF x.at \in Splits /\ x.tree.kids[x.at] = {}
    THEN [tree |-> BeginDestroy(x.tree, x.at), at |-> x.tree.parent[x.at]]
    ELSE x

Spot == [tree : Tree, at : Container \cup {None}]

LEMMA ReapWalk ==
  ASSUME NEW t \in Tree, NEW c \in Container \cup {None}
  PROVE  \E f \in [0 .. Cardinality(Splits) -> Spot] :
            /\ f[0] = [tree |-> t, at |-> c]
            /\ \A i \in 1 .. Cardinality(Splits) : f[i] = Reap(f[i - 1])
            /\ \A i \in 0 .. Cardinality(Splits) : Tame(f[i].tree, t)
            /\ ReapEmpty(t, c) = f[Cardinality(Splits)].tree
<1> DEFINE N == Cardinality(Splits)
           T == {x \in Spot : Tame(x.tree, t)}
           b == [tree |-> t, at |-> c]
           g == [p \in T \X (1 .. N) |-> Reap(p[1])]
<1>1. N \in Nat
  BY SplitsFinite
<1>2. b \in T
  BY TameSame DEF Spot
<1>3. ASSUME NEW x \in T
      PROVE  Reap(x) \in T
  <2>1. x.tree \in Tree /\ x.at \in Container \cup {None} /\ Tame(x.tree, t)
    BY DEF Spot
  <2>2. CASE x.at \in Splits /\ x.tree.kids[x.at] = {}
    <3> DEFINE r == BeginDestroy(x.tree, x.at)
               p == x.tree.parent[x.at]
    <3>1. x.at \in Container
      BY <2>2, Nothing
    <3>2. Tame(r, x.tree)
      BY <2>1, <3>1, BeginDestroyTame
    <3>3. p \in Container \cup {None}
      BY <2>1, <3>1, TreeTypes, Nothing
    <3>4. Reap(x) = [tree |-> r, at |-> p]
      BY <2>2 DEF Reap
    <3> HIDE DEF r, p
    <3>5. Tame(r, t) /\ r \in Tree
      BY <2>1, <3>2, TameOn, TameTree
    <3> QED
      BY <3>3, <3>4, <3>5 DEF Spot
  <2>3. CASE ~(x.at \in Splits /\ x.tree.kids[x.at] = {})
    BY <2>3 DEF Reap
  <2> QED
    BY <2>2, <2>3
<1>4. g \in [T \X (1 .. N) -> T]
  BY <1>3
<1> HIDE DEF N, b
<1> DEFINE TT == T
<1>5. PICK f : Walk(f, N, TT, b, g)
  <2> HIDE DEF g, T
  <2> QED
    BY <1>1, <1>2, <1>4, FoldExists
<1> HIDE DEF T
<1>6. \A i \in 0 .. N : f[i] \in T
  BY <1>5 DEF Walk
<1>7. \A i \in 1 .. N : f[i] = Reap(f[i - 1])
  <2> SUFFICES ASSUME NEW i \in 1 .. N
               PROVE  f[i] = Reap(f[i - 1])
    OBVIOUS
  <2>1. i - 1 \in 0 .. N
    BY <1>1
  <2>2. <<f[i - 1], i>> \in T \X (1 .. N)
    BY <1>6, <2>1
  <2> QED
    BY <1>5, <2>2 DEF Walk
<1> DEFINE E(h) == [n \in 0 .. N |->
                      IF n = 0 THEN [tree |-> t, at |-> c]
                      ELSE LET r == h[n-1]
                           IN  IF r.at \in Splits /\ r.tree.kids[r.at] = {}
                                 THEN [tree |-> BeginDestroy(r.tree, r.at), at |-> r.tree.parent[r.at]]
                                 ELSE r]
           reap == CHOOSE h : h = E(h)
<1>8. f[0] = b /\ DOMAIN f = 0 .. N /\ f = [n \in 0 .. N |-> f[n]]
  BY <1>1, <1>5 DEF Walk
<1>18. \A i \in 1 .. N :
          f[i] = IF f[i-1].at \in Splits /\ f[i-1].tree.kids[f[i-1].at] = {}
                   THEN [tree |-> BeginDestroy(f[i-1].tree, f[i-1].at), at |-> f[i-1].tree.parent[f[i-1].at]]
                   ELSE f[i-1]
  BY <1>7 DEF Reap
<1>19. f[0] = [tree |-> t, at |-> c]
  BY <1>8 DEF b
<1>9. f = E(f)
  <2> SUFFICES [n \in 0 .. N |-> f[n]] = E(f)
    BY <1>8
  <2> QED
    BY <1>1, <1>18, <1>19
<1>10. reap = E(reap)
  BY <1>9
<1>11. ReapEmpty(t, c) = reap[N].tree
  BY DEF ReapEmpty, N
<1> HIDE DEF reap
<1>20. reap[0] = [tree |-> t, at |-> c]
  BY <1>1, <1>10
<1>12. ASSUME NEW i \in 1 .. N
       PROVE  reap[i] = Reap(reap[i - 1])
  <2>1. i \in 0 .. N /\ i # 0
    BY <1>1
  <2>2. reap[i] = E(reap)[i]
    BY <1>10
  <2> QED
    BY <2>1, <2>2 DEF Reap
<1> DEFINE G == {i \in 0 .. N : reap[i] = f[i]}
<1> HIDE DEF E
<1>13. 0 \in G /\ \A i \in 1 .. N : i - 1 \in G => i \in G
  BY <1>1, <1>7, <1>12, <1>19, <1>20
<1> HIDE DEF G
<1>14. \A i \in 0 .. N : i \in G
  BY <1>1, <1>13, Counting
<1>15. reap[N] = f[N]
  BY <1>1, <1>14 DEF G
<1>16. f \in [0 .. N -> Spot] /\ \A i \in 0 .. N : Tame(f[i].tree, t)
  BY <1>6, <1>8 DEF T
<1>17. ReapEmpty(t, c) = f[N].tree
  BY <1>11, <1>15
<1> QED
  BY <1>7, <1>8, <1>16, <1>17 DEF N, b

LEMMA ReapEmptyTame ==
  ASSUME NEW t \in Tree, NEW c \in Container \cup {None}
  PROVE  Tame(ReapEmpty(t, c), t)
<1> DEFINE N == Cardinality(Splits)
<1>1. N \in Nat
  BY SplitsFinite
<1>2. PICK f \in [0 .. N -> Spot] :
            /\ f[0] = [tree |-> t, at |-> c]
            /\ \A i \in 1 .. N : f[i] = Reap(f[i - 1])
            /\ \A i \in 0 .. N : Tame(f[i].tree, t)
            /\ ReapEmpty(t, c) = f[N].tree
  BY ReapWalk
<1> HIDE DEF N
<1>3. N \in 0 .. N
  BY <1>1
<1> QED
  BY <1>2, <1>3

\* A split with children is left alone, and so is what is no split.
LEMMA ReapNothing ==
  ASSUME NEW t \in Tree, NEW c \in Container \cup {None}, c \in Splits => t.kids[c] # {}
  PROVE  ReapEmpty(t, c) = t
<1> DEFINE N == Cardinality(Splits)
<1>1. N \in Nat
  BY SplitsFinite
<1>2. PICK f \in [0 .. N -> Spot] :
            /\ f[0] = [tree |-> t, at |-> c]
            /\ \A i \in 1 .. N : f[i] = Reap(f[i - 1])
            /\ ReapEmpty(t, c) = f[N].tree
  BY ReapWalk
<1> HIDE DEF N
<1> DEFINE G == {i \in 0 .. N : f[i].tree = t /\ f[i].at = c}
<1>3. 0 \in G
  BY <1>1, <1>2
<1>4. ASSUME NEW i \in 1 .. N, i - 1 \in G
      PROVE  i \in G
  <2>1. f[i - 1].tree = t /\ f[i - 1].at = c /\ i \in 0 .. N /\ f[i] = Reap(f[i - 1])
    BY <1>1, <1>2, <1>4
  <2>2. f[i] = f[i - 1]
    BY <2>1 DEF Reap
  <2> QED
    BY <2>1, <2>2
<1> HIDE DEF G
<1>5. \A i \in 0 .. N : i \in G
  BY <1>1, <1>3, <1>4, Counting
<1> QED
  BY <1>1, <1>2, <1>5 DEF G

LiveSplits(t) == {p \in Splits : t.life[p] = "live"}

\* Reaping c of t has left r, and q is the next to be reaped.
Reaped1(r, q, t, c) ==
  /\ Fit(r) /\ q \in Container \cup {None}
  /\ Lost(r) \subseteq Lost(t)
  /\ c \in Splits /\ t.kids[c] = {} => c \notin Lost(r)
  /\ Empty(r) \subseteq (Empty(t) \ {c}) \cup {q}
  /\ \A a \in Container : c \notin Inside(t, a) => Spared(r, t, a) /\ q \notin Inside(t, a)
  /\ \/ r = t /\ q = c /\ ~(c \in Splits /\ t.kids[c] = {})
     \/ q = None
     \/ LiveSplits(r) = LiveSplits(t) \ {c} /\ c \in LiveSplits(t)

LEMMA ReapFit ==
  ASSUME NEW x \in Spot, Fit(x.tree)
  PROVE  Reaped1(Reap(x).tree, Reap(x).at, x.tree, x.at)
<1> DEFINE t == x.tree
           c == x.at
           r == Reap(x)
           d == BeginDestroy(t, c)
           p == t.parent[c]
<1>1. t \in Tree /\ Linked(t) /\ Living(t) /\ c \in Container \cup {None} /\ Fit(t)
  BY DEF Spot, Fit, Shape
<1>2. CASE ~(c \in Splits /\ t.kids[c] = {})
  <2>1. r.tree = t /\ r.at = c
    BY <1>2 DEF Reap
  <2> HIDE DEF r, t, c
  <2>2. Reaped1(t, c, t, c)
    BY <1>1, <1>2, SparedSame DEF Reaped1
  <2> QED
    BY <2>1, <2>2 DEF t, c, r
<1>3. CASE c \in Splits /\ t.kids[c] = {}
  <2>1. r = [tree |-> d, at |-> p]
    BY <1>3 DEF Reap
  <2>2. c \in Container
    BY <1>3, Nothing
  <2>3. /\ Fit(d) /\ d.life = [t.life EXCEPT ![c] = "destroying"]
        /\ Lost(d) \subseteq Lost(t) \ {c}
        /\ Empty(d) \subseteq (Empty(t) \cup {p}) \ {c}
        /\ \A a \in Container : c \notin Inside(t, a) => Spared(d, t, a)
    <3> HIDE DEF t, c
    <3> QED
      BY <1>1, <1>3, <2>2, BeginDestroyFit
  <2>4. p \in Splits \cup {None}
    BY <1>1, <2>2, TreeTypes
  <2>5. \A a \in Container : c \notin Inside(t, a) => p \notin Inside(t, a)
    <3> HIDE DEF t, c
    <3> QED
      BY <1>1, <2>2, InsideChild
  <2>6. t.life[c] # "live" => p = None
    BY <1>1, <2>2 DEF Living
  <2>7. t.life[c] = "live" => LiveSplits(d) = LiveSplits(t) \ {c} /\ c \in LiveSplits(t)
    <3>1. \A z \in Splits : d.life[z] = IF z = c THEN "destroying" ELSE t.life[z]
      BY <1>1, <2>3, Nothing DEF Tree
    <3> QED
      BY <1>3, <3>1 DEF LiveSplits
  <2>8. r.tree = d /\ r.at = p
    BY <2>1
  <2> HIDE DEF d, p, r, t, c
  <2>9. Reaped1(d, p, t, c)
    BY <2>3, <2>4, <2>5, <2>6, <2>7, Nothing DEF Reaped1
  <2> QED
    BY <2>8, <2>9 DEF r, t, c
<1> QED
  BY <1>2, <1>3

Done(u, q) == ~(q \in Splits /\ u.kids[q] = {})

\* Reaping c of t has come to u, with q next and no more than k splits left.
Reaping(u, q, t, c, i, k) ==
  /\ Fit(u) /\ q \in Container \cup {None}
  /\ i = 0 => u = t /\ q = c
  /\ Lost(u) \subseteq Lost(t)
  /\ i # 0 /\ ~Done(t, c) => c \notin Lost(u)
  /\ Empty(u) \subseteq (Empty(t) \ {c}) \cup {q}
  /\ \A a \in Container : c \notin Inside(t, a) => Spared(u, t, a) /\ q \notin Inside(t, a)
  /\ Done(u, q) \/ Cardinality(LiveSplits(u)) <= k

LEMMA ReapingOn ==
  ASSUME NEW t, NEW c \in Container \cup {None}, NEW x \in Spot, NEW i \in Nat, NEW k \in Nat,
         i # 0, Reaping(x.tree, x.at, t, c, i - 1, k)
  PROVE  Reaping(Reap(x).tree, Reap(x).at, t, c, i, k - 1)
<1> DEFINE u == x.tree
           q == x.at
           r == Reap(x).tree
           p == Reap(x).at
<1>1. Reaped1(r, p, u, q)
  BY ReapFit DEF Reaping
<1>2. Done(u, q) => r = u /\ p = q
  BY DEF Done, Reap
<1>3. IsFiniteSet(LiveSplits(u)) /\ Cardinality(LiveSplits(u)) \in Nat
  BY SplitsFinite, FS_Subset, FS_CardinalityType DEF LiveSplits
<1> HIDE DEF u, q, r, p
<1>4. Fit(r) /\ p \in Container \cup {None} /\ Lost(r) \subseteq Lost(t)
  BY <1>1 DEF Reaped1, Reaping, u, q
<1>5. ~Done(t, c) => c \notin Lost(r)
  <2>1. CASE i - 1 = 0
    <3>1. u = t /\ q = c
      BY <2>1 DEF Reaping, u, q
    <3> QED
      BY <1>1, <3>1 DEF Reaped1, Done
  <2>2. CASE i - 1 # 0
    BY <1>1, <2>2 DEF Reaped1, Reaping, u, q
  <2> QED
    BY <2>1, <2>2
<1>6. Empty(r) \subseteq (Empty(t) \ {c}) \cup {p}
  BY <1>1 DEF Reaped1, Reaping, u, q
<1>7. ASSUME NEW a \in Container, c \notin Inside(t, a)
      PROVE  Spared(r, t, a) /\ p \notin Inside(t, a)
  <2>1. Spared(u, t, a) /\ q \notin Inside(t, a)
    BY <1>7 DEF Reaping, u, q
  <2>2. Inside(u, a) = Inside(t, a)
    BY <2>1 DEF Spared
  <2>3. Spared(r, u, a) /\ p \notin Inside(u, a)
    BY <1>1, <2>1, <2>2 DEF Reaped1
  <2> QED
    BY <2>1, <2>2, <2>3, SparedOn
<1>8. Done(r, p) \/ Cardinality(LiveSplits(r)) <= k - 1
  <2>1. CASE Done(u, q)
    BY <1>2, <2>1
  <2>2. CASE ~Done(u, q)
    <3>1. Cardinality(LiveSplits(u)) <= k
      BY <2>2 DEF Reaping, u, q
    <3>2. CASE p = None
      BY <3>2, Nothing DEF Done
    <3>3. CASE LiveSplits(r) = LiveSplits(u) \ {q} /\ q \in LiveSplits(u)
      <4>1. Cardinality(LiveSplits(r)) = Cardinality(LiveSplits(u)) - 1
        BY <1>3, <3>3, FS_RemoveElement
      <4> QED
        BY <1>3, <3>1, <4>1
    <3> QED
      BY <1>1, <2>2, <3>2, <3>3 DEF Reaped1, Done
  <2> QED
    BY <2>1, <2>2
<1>9. Reaping(r, p, t, c, i, k - 1)
  BY <1>4, <1>5, <1>6, <1>7, <1>8 DEF Reaping
<1> QED
  BY <1>9 DEF r, p

\* Reaping takes the empty splits away from c upwards and leaves the rest.
LEMMA ReapEmptyFit ==
  ASSUME NEW t, Fit(t), NEW c \in Container \cup {None}
  PROVE  LET r == ReapEmpty(t, c)
         IN  /\ Fit(r) /\ Tame(r, t) /\ Lost(r) \subseteq Lost(t)
             /\ c \in Splits /\ t.kids[c] = {} => c \notin Lost(r)
             /\ Empty(r) \subseteq Empty(t) \ {c}
             /\ \A a \in Container : c \notin Inside(t, a) => Spared(r, t, a)
<1> DEFINE N == Cardinality(Splits)
<1>1. N \in Nat /\ IsFiniteSet(Splits)
  BY SplitsFinite
<1>2. t \in Tree
  BY DEF Fit
<1>3. PICK f \in [0 .. N -> Spot] :
            /\ f[0] = [tree |-> t, at |-> c]
            /\ \A i \in 1 .. N : f[i] = Reap(f[i - 1])
            /\ ReapEmpty(t, c) = f[N].tree
  BY <1>2, ReapWalk
<1>4. c \in Splits => N # 0
  BY <1>1, FS_EmptySet
<1>5. Cardinality(LiveSplits(t)) <= N
  BY <1>1, FS_Subset DEF LiveSplits
<1> HIDE DEF N
<1> DEFINE G == {i \in 0 .. N : Reaping(f[i].tree, f[i].at, t, c, i, N - i)}
<1>6. 0 \in G
  <2>1. Reaping(t, c, t, c, 0, N)
    BY <1>5, SparedSame DEF Reaping, Done, Empty
  <2> QED
    BY <1>1, <1>3, <2>1
<1>7. ASSUME NEW i \in 1 .. N, i - 1 \in G
      PROVE  i \in G
  <2>1. /\ Reaping(f[i-1].tree, f[i-1].at, t, c, i - 1, N - (i - 1)) /\ f[i-1] \in Spot
        /\ i \in Nat /\ i # 0 /\ N - (i - 1) \in Nat /\ N - (i - 1) - 1 = N - i /\ i \in 0 .. N
    BY <1>1, <1>7
  <2>2. Reaping(Reap(f[i-1]).tree, Reap(f[i-1]).at, t, c, i, N - i)
    BY <2>1, ReapingOn
  <2> QED
    BY <1>3, <2>1, <2>2
<1> HIDE DEF G
<1>8. N \in G
  BY <1>1, <1>6, <1>7, Counting
<1> DEFINE r == ReapEmpty(t, c)
           q == f[N].at
<1>9. Reaping(r, q, t, c, N, 0)
  <2>1. N - N = 0
    BY <1>1
  <2> QED
    BY <1>3, <1>8, <2>1 DEF G
<1>10. Tame(r, t)
  BY <1>2, ReapEmptyTame
<1> HIDE DEF r, q
<1>11. Empty(r) \subseteq Empty(t) \ {c}
  <2>1. CASE Done(r, q)
    BY <1>9, <2>1 DEF Reaping, Done, Empty
  <2>2. CASE ~Done(r, q)
    <3>1. Cardinality(LiveSplits(r)) <= 0
      BY <1>9, <2>2 DEF Reaping
    <3>2. IsFiniteSet(LiveSplits(r)) /\ Cardinality(LiveSplits(r)) \in Nat
      BY <1>1, FS_Subset, FS_CardinalityType DEF LiveSplits
    <3>3. LiveSplits(r) = {}
      BY <3>1, <3>2, FS_EmptySet
    <3> QED
      BY <3>3 DEF LiveSplits, Empty
  <2> QED
    BY <2>1, <2>2
<1>12. c \in Splits /\ t.kids[c] = {} => c \notin Lost(r)
  BY <1>4, <1>9 DEF Reaping, Done
<1> QED
  BY <1>9, <1>10, <1>11, <1>12 DEF Reaping, r

(***************************************************************************)
(* Floating.                                                               *)
(***************************************************************************)
\* What a handler should make of a tree: no new windows lost, no new splits
\* without children.
Keeps(r, t) == Fit(r) /\ Tame(r, t) /\ Lost(r) \subseteq Lost(t) /\ Empty(r) \subseteq Empty(t)

LEMMA KeepsOn ==
  ASSUME NEW t, NEW u, NEW r, Keeps(u, t), Keeps(r, u)
  PROVE  Keeps(r, t)
<1>1. Tame(r, t)
  BY TameOn DEF Keeps
<1> QED
  BY <1>1 DEF Keeps

LEMMA KeepsSame ==
  ASSUME NEW t, Fit(t)
  PROVE  Keeps(t, t)
<1>1. Tame(t, t)
  BY TameSame DEF Fit
<1> QED
  BY <1>1 DEF Keeps

LEMMA QuietKeeps ==
  ASSUME NEW t, Fit(t), NEW r, Quiet(r, t)
  PROVE  Keeps(r, t)
<1>1. Tame(r, t)
  BY QuietTame
<1> QED
  BY <1>1, QuietFit DEF Keeps

\* What is on a workspace or below a split lives.
LEMMA PlacedLives ==
  ASSUME NEW t, Fit(t), NEW c \in Container
  PROVE  /\ t.ws[c] # None \/ t.parent[c] # None \/ c \in t.scratch => t.life[c] = "live"
         /\ c \in t.scratch => t.parent[c] = None
         /\ t.parent[c] # None =>
              /\ t.parent[c] \in Splits /\ t.parent[c] \in Container
              /\ t.life[t.parent[c]] = "live"
              /\ t.parent[c] \notin Inside(t, c) /\ t.ws[t.parent[c]] = t.ws[c]
<1>1. t.parent[c] \in Splits \cup {None}
  BY TreeTypes DEF Fit
<1> QED
  BY <1>1, Nothing DEF Fit, Shape, Living, Shelved, Rooted, Together

\* What is apart from the container that moves, and from where it goes, stays.
LEMMA MovesSpare ==
  ASSUME NEW t, Fit(t), NEW c \in Container, NEW r, NEW p \in Splits \cup {None}, NEW w,
         Moves(r, t, c, p, w), NEW x \in Container,
         Inside(t, x) \cap Inside(t, c) = {}, p \notin Inside(t, x)
  PROVE  Spared(r, t, x)
<1>1. /\ t \in Tree /\ Linked(t) /\ r \in Tree /\ Linked(r)
      /\ r.life = t.life /\ r.scratch = t.scratch /\ r.parent[c] = p
      /\ \A y \in Container \ {c} : r.parent[y] = t.parent[y]
      /\ \A y \in Container : y \notin Inside(t, c) => r.ws[y] = t.ws[y]
      /\ \A v \in Workspaces, y \in Container \ {c} : y \in r.floating[v] <=> y \in t.floating[v]
  <2>1. /\ Fit(r) /\ r \in Tree /\ r.life = t.life /\ r.scratch = t.scratch /\ r.parent[c] = p
        /\ \A y \in Container \ {c} : r.parent[y] = t.parent[y]
        /\ \A y \in Container : y \notin Inside(t, c) => r.ws[y] = t.ws[y]
    BY MovesFit
  <2>2. \A v \in Workspaces, y \in Container \ {c} : y \in r.floating[v] <=> y \in t.floating[v]
    BY DEF Moves, Moved
  <2> QED
    BY <2>1, <2>2 DEF Fit, Shape
<1>2. Inside(t, x) \subseteq Container /\ c \in Inside(t, c) /\ c \notin Inside(t, x)
  BY <1>1, InsideType
<1>3. t.parent[c] \notin Inside(t, x)
  BY <1>1, <1>2, InsideChild
<1>4. ASSUME NEW z \in Inside(t, x) \cap Splits PROVE r.kids[z] = t.kids[z]
  <2>1. r.kids[z] \subseteq Container /\ t.kids[z] \subseteq Container
    BY <1>1, TreeTypes
  <2>2. \A y \in Container : r.parent[y] = z <=> t.parent[y] = z
    BY <1>1, <1>3
  <2>3. \A y \in Container : y \in r.kids[z] <=> y \in t.kids[z]
    BY <1>1, <2>2 DEF Linked
  <2> QED
    BY <2>1, <2>3
<1>5. Inside(r, x) = Inside(t, x)
  BY <1>1, <1>4, InsideSame
<1> QED
  BY <1>1, <1>2, <1>4, <1>5 DEF Spared

LEMMA QuietSpared ==
  ASSUME NEW t, Fit(t), NEW r, Quiet(r, t), NEW x
  PROVE  Spared(r, t, x)
<1>1. Inside(r, x) = Inside(t, x)
  BY QuietFit
<1> QED
  BY <1>1 DEF Spared, Quiet, Same

LEMMA AddTilingTame ==
  ASSUME NEW t \in Tree, NEW c \in Container, NEW w \in Workspaces \cup {None}
  PROVE  Tame(AddTiling(t, w, c), t)
<1> DEFINE d == Detach(t, c)
           e == ReapEmpty(d, t.parent[c])
           u == IF t.ws[c] = None THEN t ELSE e
           r == InTiling(u, w, c)
<1>1. Tame(d, t) /\ d \in Tree
  BY PlacesCalm, CalmTame, TameTree
<1>2. t.parent[c] \in Container \cup {None}
  BY TreeTypes, Nothing
<1>3. Tame(e, d)
  <2> HIDE DEF d
  <2> QED
    BY <1>1, <1>2, ReapEmptyTame
<1> HIDE DEF d, e
<1>4. Tame(u, t) /\ u \in Tree
  BY <1>1, <1>3, TameOn, TameSame, TameTree
<1> HIDE DEF u
<1>5. Tame(r, u)
  BY <1>4, PlacesCalm, CalmTame
<1>6. Tame(r, t)
  BY <1>4, <1>5, TameOn
<1> QED
  BY <1>6 DEF AddTiling, r, u, e, d

LEMMA AddTilingLoose ==
  ASSUME NEW t, Fit(t), NEW c \in Container, Loose(t, c),
         t.life[c] = "live", c \notin t.scratch, NEW w,
         w \in Workspaces \cup {None}, ~Undefined(AddTiling(t, w, c))
  PROVE  Moves(AddTiling(t, w, c), t, c, None, w) /\ w \in Workspaces
<1>1. AddTiling(t, w, c) = InTiling(t, w, c)
  BY DEF AddTiling, Loose
<1> QED
  BY <1>1, InTilingFit

\* A container of a workspace moves to another, and its parent is reaped.
LEMMA AddTilingFit ==
  ASSUME NEW t, Fit(t), NEW c \in Container, t.ws[c] # None, c \notin t.scratch,
         NEW w \in Workspaces \cup {None}, ~Undefined(AddTiling(t, w, c))
  PROVE  LET r == AddTiling(t, w, c)
         IN  Keeps(r, t) /\ r.parent[c] = None /\ r.ws[c] = w /\ r.life[c] = "live"
<1> DEFINE p == t.parent[c]
           d == Detach(t, c)
           e == ReapEmpty(d, p)
           r == InTiling(e, w, c)
<1>1. AddTiling(t, w, c) = r
  BY DEF AddTiling
<1>2. Moves(d, t, c, None, None) /\ Fit(d) /\ Loose(d, c)
  BY DetachFit
<1>3. t.life[c] = "live"
  BY PlacedLives
<1>4. p = None \/ (p \in Container /\ p \notin Inside(t, c))
  BY PlacedLives
<1> HIDE DEF d
<1>5. /\ d.life = t.life /\ d.scratch = t.scratch /\ Inside(d, c) = Inside(t, c)
      /\ Lost(d) \subseteq Lost(t) \cup {c}
      /\ Empty(d) \subseteq Empty(t) \cup {t.parent[c]} /\ d \in Tree /\ Calm(d, t)
  BY <1>2, MovesOut
<1>6. Inside(t, c) \subseteq Container /\ c \in Inside(t, c)
  BY InsideType DEF Fit
<1> HIDE DEF p
<1>7. p \in Container \cup {None} /\ p \notin Inside(d, c)
  BY <1>4, <1>5, <1>6, Nothing
<1>8. /\ Fit(e) /\ Tame(e, d) /\ Lost(e) \subseteq Lost(d)
      /\ Empty(e) \subseteq Empty(d) \ {p} /\ Spared(e, d, c)
  BY <1>2, <1>7, ReapEmptyFit
<1>9. c \in Inside(d, c)
  BY <1>5, <1>6
<1> HIDE DEF e
<1>10. Loose(e, c) /\ e.life[c] = "live" /\ c \notin e.scratch
  BY <1>2, <1>3, <1>5, <1>8, <1>9 DEF Spared, Loose
<1>11. Moves(r, e, c, None, w) /\ w \in Workspaces
  BY <1>1, <1>8, <1>10, InTilingFit
<1> HIDE DEF r
<1>12. /\ Fit(r) /\ Calm(r, e) /\ r.life = e.life
       /\ Lost(r) \subseteq Lost(e) \cup {c} /\ c \notin Lost(r)
       /\ Empty(r) \subseteq Empty(e) \cup {e.parent[c]}
       /\ r.parent[c] = None /\ r.ws[c] = w
  BY <1>8, <1>11, MovesOut, Nothing
<1>13. e.parent[c] = None /\ None \notin Empty(r)
  BY <1>10, Nothing DEF Loose, Empty
<1>14. Tame(d, t) /\ Tame(r, e)
  BY <1>5, <1>12, CalmTame
<1>15. Tame(r, t)
  BY <1>8, <1>14, TameOn
<1>16. Lost(r) \subseteq Lost(t) /\ Empty(r) \subseteq Empty(t)
  BY <1>5, <1>8, <1>12, <1>13 DEF p
<1> QED
  BY <1>1, <1>10, <1>12, <1>15, <1>16 DEF Keeps

LEMMA FloatTame ==
  ASSUME NEW t \in Tree, NEW c \in Container
  PROVE  Tame(Float(t, c), t)
<1> DEFINE d == Detach(t, c)
           a == AddFloating(d, t.ws[c], c)
           r == ReapEmpty(a, t.parent[c])
<1>1. Tame(d, t) /\ d \in Tree
  BY PlacesCalm, CalmTame, TameTree
<1>2. t.parent[c] \in Container \cup {None} /\ t.ws[c] \in Workspaces \cup {None}
  BY TreeTypes, Nothing
<1> HIDE DEF d
<1>3. Tame(a, d) /\ a \in Tree
  BY <1>1, <1>2, AddsCalm, CalmTame, TameTree
<1> HIDE DEF a
<1>4. Tame(r, a)
  BY <1>2, <1>3, ReapEmptyTame
<1>5. Tame(r, t)
  BY <1>1, <1>3, <1>4, TameOn
<1> QED
  BY <1>5 DEF Float, r, a, d

\* A container is where it was, but floats now, and its parent is reaped.
LEMMA FloatFit ==
  ASSUME NEW t, Fit(t), NEW c \in Container, ~Undefined(Float(t, c))
  PROVE  LET r == Float(t, c)
         IN  /\ Keeps(r, t) /\ t.ws[c] \in Workspaces
             /\ r.parent[c] = None /\ r.ws[c] = t.ws[c] /\ r.life[c] = "live"
             /\ c \in r.floating[t.ws[c]] /\ Inside(r, c) = Inside(t, c)
             /\ c \in r.scratch <=> c \in t.scratch
             /\ \A x \in Container : Inside(t, x) \cap Inside(t, c) = {} => Spared(r, t, x)
<1> DEFINE p == t.parent[c]
           w == t.ws[c]
           d == Detach(t, c)
           a == AddFloating(d, w, c)
           r == ReapEmpty(a, p)
<1>1. Float(t, c) = r
  BY DEF Float
<1>2. Moves(d, t, c, None, None) /\ Fit(d) /\ Loose(d, c) /\ d \in Tree
  BY DetachFit DEF Fit
<1>3. p \in Container \cup {None} /\ w \in Workspaces \cup {None} /\ t \in Tree
  BY TreeTypes, Nothing DEF Fit
<1> HIDE DEF d
<1>4. Tame(a, d) /\ a \in Tree
  BY <1>2, <1>3, AddsCalm, CalmTame, TameTree
<1>5. Tame(r, a)
  <2> HIDE DEF a
  <2> QED
    BY <1>3, <1>4, ReapEmptyTame
<1>6. ~Undefined(r)
  BY <1>1
<1> HIDE DEF r, p, w
<1>7. ~Undefined(a)
  BY <1>5, <1>6, TameDefined
<1>8. w # None
  <2> SUFFICES ASSUME w = None PROVE FALSE
    OBVIOUS
  <2> DEFINE l == Leave(d, c)
  <2>1. l \in Tree
    BY <1>2, PlacesCalm, CalmTree
  <2> HIDE DEF l
  <2>2. a = Break(l, "null")
    BY DEF a, l, AddFloating, InFloating
  <2> QED
    BY <1>7, <2>1, <2>2, NullBreaks
<1>9. t.life[c] = "live" /\ (p = None \/ p \notin Inside(t, c))
  BY <1>8, PlacedLives DEF w, p
<1>10. /\ d.life = t.life /\ d.scratch = t.scratch /\ Inside(d, c) = Inside(t, c)
       /\ d.parent[c] = None
  BY <1>2, MovesOut
<1>11. Moves(a, d, c, None, w) /\ w \in Workspaces /\ c \in a.floating[w]
  BY <1>2, <1>3, <1>7, <1>9, <1>10, AddFloatingFit DEF a
<1> HIDE DEF a
<1>12. Moves(a, t, c, None, w)
  <2> DEFINE n == None
  <2>1. n \in Splits \cup {None} /\ Moves(a, d, c, n, w)
    BY <1>11
  <2> HIDE DEF n
  <2>2. Moves(a, t, c, n, w)
    BY <1>2, <2>1, MovesOn
  <2> QED
    BY <2>2 DEF n
<1>13. /\ Fit(a) /\ Calm(a, t) /\ a.life = t.life /\ a.scratch = t.scratch
       /\ a.parent[c] = None /\ a.ws[c] = w /\ Inside(a, c) = Inside(t, c)
       /\ \A x \in Container : Inside(a, x) \subseteq Inside(t, x)
       /\ Lost(a) \subseteq Lost(t) \cup {c} /\ (w # None => c \notin Lost(a))
       /\ Empty(a) \subseteq Empty(t) \cup {p}
  BY <1>12, MovesOut DEF p
<1>14. c \in Inside(t, c) /\ Inside(t, c) \subseteq Container
  BY <1>3, InsideType
<1>15. p \notin Inside(a, c)
  BY <1>9, <1>13, <1>14, Nothing
<1>16. /\ Fit(r) /\ Lost(r) \subseteq Lost(a)
       /\ Empty(r) \subseteq Empty(a) \ {p} /\ Spared(r, a, c)
       /\ \A x \in Container : p \notin Inside(a, x) => Spared(r, a, x)
  BY <1>3, <1>13, <1>15, ReapEmptyFit DEF r
<1>17. Tame(a, t)
  BY <1>13, CalmTame
<1>18. Tame(r, t)
  BY <1>5, <1>17, TameOn
<1>19. /\ r.parent[c] = None /\ r.ws[c] = w /\ r.life[c] = "live"
       /\ c \in r.floating[w] /\ Inside(r, c) = Inside(t, c)
       /\ c \in r.scratch <=> c \in t.scratch
  BY <1>9, <1>11, <1>13, <1>14, <1>16 DEF Spared
<1>20. ASSUME NEW x \in Container, Inside(t, x) \cap Inside(t, c) = {}
       PROVE  Spared(r, t, x)
  <2> DEFINE n == None
  <2>1. n \in Splits \cup {None} /\ Moves(a, t, c, n, w) /\ n \notin Inside(t, x)
    BY <1>12, <1>3, InsideType, Nothing
  <2> HIDE DEF n
  <2>2. Spared(a, t, x)
    BY <1>20, <2>1, MovesSpare
  <2>3. p \notin Inside(t, x)
    BY <1>3, <1>14, <1>20, InsideChild DEF Fit, Shape, p
  <2>4. Spared(r, a, x)
    BY <1>16, <2>2, <2>3 DEF Spared
  <2> QED
    BY <2>2, <2>4, SparedOn
<1>21. Keeps(r, t)
  BY <1>8, <1>13, <1>16, <1>18 DEF Keeps
<1> QED
  BY <1>1, <1>11, <1>19, <1>20, <1>21 DEF p, w

\* Another set of containers in the scratchpad.
LEMMA ShelfFields ==
  ASSUME NEW t \in Tree, NEW S \in SUBSET Container
  PROVE  LET r == [t EXCEPT !.scratch = S]
         IN  /\ Tame(r, t) /\ r.scratch = S /\ r.life = t.life /\ Alike(r, t)
<1> DEFINE r == [t EXCEPT !.scratch = S]
<1>1. r \in Tree /\ r.op = t.op /\ r.life = t.life /\ r.broken = t.broken
      /\ r.mode = t.mode /\ r.global = t.global /\ r.scratch = S /\ Alike(r, t)
  BY DEF Tree, Alike
<1> HIDE DEF r
<1>2. Tame(r, t)
  BY <1>1 DEF Tame, Carries, Minds, Operands, Goes, Local
<1> QED
  BY <1>1, <1>2 DEF r

LEMMA AlikeInside ==
  ASSUME NEW t, NEW r, Alike(r, t)
  PROVE  \A c : Inside(r, c) = Inside(t, c)
BY InsideKids DEF Alike

LEMMA ShelfFit ==
  ASSUME NEW t, Fit(t), NEW S \in SUBSET Container,
         \A c \in S : c \in t.scratch \/ (Loose(t, c) /\ t.life[c] = "live")
  PROVE  LET r == [t EXCEPT !.scratch = S]
         IN  /\ Fit(r) /\ Tame(r, t) /\ r.scratch = S /\ r.life = t.life /\ Alike(r, t)
             /\ Lost(r) \subseteq Lost(t) \cup (t.scratch \ S) /\ Lost(r) \cap S = {}
             /\ Empty(r) = Empty(t)
             /\ \A c : Inside(r, c) = Inside(t, c)
             /\ \A c : (\A x \in Inside(t, c) : x \in S <=> x \in t.scratch) => Spared(r, t, c)
<1> DEFINE r == [t EXCEPT !.scratch = S]
<1>1. Tame(r, t) /\ r.scratch = S /\ r.life = t.life /\ Alike(r, t)
  BY ShelfFields DEF Fit
<1> HIDE DEF r
<1>2. \A c : Inside(r, c) = Inside(t, c)
  BY <1>1, AlikeInside
<1>3. Linked(r) /\ Together(r) /\ Rooted(r)
  BY <1>1, <1>2 DEF Fit, Shape, Linked, Together, Rooted, Alike
<1>4. Living(r) /\ Shelved(r)
  BY <1>1 DEF Fit, Shape, Living, Shelved, Alike, Loose
<1>5. r \in Tree /\ Local(r)
  BY <1>1, TameTree DEF Tame, Fit
<1>6. Lost(r) \subseteq Lost(t) \cup (t.scratch \ S) /\ Lost(r) \cap S = {} /\ Empty(r) = Empty(t)
  BY <1>1 DEF Lost, Empty, Alike
<1>7. \A c : (\A x \in Inside(t, c) : x \in S <=> x \in t.scratch) => Spared(r, t, c)
  BY <1>1, <1>2 DEF Spared, Alike
<1> QED
  BY <1>1, <1>2, <1>3, <1>4, <1>5, <1>6, <1>7 DEF Fit, Shape, r

LEMMA TileTame ==
  ASSUME NEW t \in Tree, NEW w \in Workspaces \cup {None}, NEW c \in Container,
         NEW ref \in Container \cup {None}
  PROVE  Tame(Tile(t, w, c, ref), t)
<1>1. CASE ref = None
  BY <1>1, AddTilingTame, Nothing DEF Tile
<1>2. CASE ref # None /\ ref \in Views
  BY <1>2, AddsCalm, CalmTame DEF Tile
<1>3. CASE ref # None /\ ref \notin Views
  <2>1. ref \in Splits
    BY <1>3 DEF Container
  <2> QED
    BY <1>3, <2>1, AddsCalm, CalmTame DEF Tile
<1> QED
  BY <1>1, <1>2, <1>3

\* A loose container finds a place among the tiled ones.
LEMMA TileFit ==
  ASSUME NEW t, Fit(t), NEW c \in Container, Loose(t, c), t.life[c] = "live", c \notin t.scratch,
         NEW w \in Workspaces \cup {None}, NEW ref \in Container \cup {None},
         ref # None => t.life[ref] = "live" /\ ref \notin Inside(t, c),
         ~Undefined(Tile(t, w, c, ref))
  PROVE  LET r == Tile(t, w, c, ref)
         IN  Keeps(r, t) /\ c \notin Lost(r)
<1> DEFINE r == Tile(t, w, c, ref)
<1>1. \E p \in Splits \cup {None}, v \in Workspaces \cup {None} :
         Moves(r, t, c, p, v) /\ (p # None \/ v # None)
  <2>1. CASE ref = None
    <3>1. r = AddTiling(t, w, c)
      BY <2>1, Nothing DEF Tile
    <3>2. Moves(r, t, c, None, w) /\ w \in Workspaces
      BY <3>1, AddTilingLoose
    <3> QED
      BY <3>2, Nothing
  <2>2. CASE ref # None /\ ref \in Views
    <3>1. r = AddSibling(t, ref, c)
      BY <2>2 DEF Tile
    <3>2. /\ Moves(r, t, c, t.parent[ref], t.ws[ref])
          /\ t.parent[ref] # None \/ t.ws[ref] # None
      BY <2>2, <3>1, AddSiblingFit DEF Loose
    <3>3. t.parent[ref] \in Splits \cup {None} /\ t.ws[ref] \in Workspaces \cup {None}
      BY <2>2, TreeTypes DEF Fit
    <3> QED
      BY <3>2, <3>3
  <2>3. CASE ref # None /\ ref \notin Views
    <3>1. ref \in Splits /\ ref \in Container
      BY <2>3 DEF Container
    <3>2. r = AddChild(t, ref, c)
      BY <2>3 DEF Tile
    <3>3. Moves(r, t, c, ref, t.ws[ref])
      BY <2>3, <3>1, <3>2, AddChildFit DEF Loose
    <3>4. t.ws[ref] \in Workspaces \cup {None}
      BY <3>1, TreeTypes DEF Fit
    <3> QED
      BY <2>3, <3>1, <3>3, <3>4
  <2> QED
    BY <2>1, <2>2, <2>3
<1>2. PICK p \in Splits \cup {None}, v \in Workspaces \cup {None} :
         Moves(r, t, c, p, v) /\ (p # None \/ v # None)
  BY <1>1
<1> HIDE DEF r
<1>3. /\ Fit(r) /\ Calm(r, t) /\ Lost(r) \subseteq Lost(t) \cup {c} /\ c \notin Lost(r)
      /\ Empty(r) \subseteq (Empty(t) \cup {t.parent[c]}) \ {p}
  BY <1>2, MovesFit
<1>4. Empty(r) \subseteq Empty(t)
  BY <1>3, Nothing DEF Loose, Empty
<1>5. Keeps(r, t) /\ c \notin Lost(r)
  BY <1>3, <1>4, CalmTame DEF Keeps
<1> QED
  BY <1>5 DEF r

LEMMA SetFloatingTame ==
  ASSUME NEW t \in Tree, NEW c \in Container, NEW enable \in BOOLEAN,
         NEW ref \in Container \cup {None}
  PROVE  Tame(SetFloating(t, c, enable, ref), t)
<1>1. CASE IsFloating(t, c) = enable
  BY <1>1, TameSame DEF SetFloating
<1>2. CASE IsFloating(t, c) # enable /\ enable
  <2> DEFINE u == Float(t, c)
             r == EndMouseOperation(u, c)
  <2>1. Tame(u, t) /\ u \in Tree
    BY FloatTame, TameTree
  <2> HIDE DEF u
  <2>2. Tame(r, u)
    BY <2>1, EndMouseQuiet, QuietTame
  <2>3. Tame(r, t)
    BY <2>1, <2>2, TameOn
  <2> QED
    BY <1>2, <2>3 DEF SetFloating, r, u
<1>3. CASE IsFloating(t, c) # enable /\ ~enable
  <2> DEFINE q == [t EXCEPT !.scratch = @ \ {c}]
             d == Detach(q, c)
             u == Tile(d, t.ws[c], c, ref)
             r == EndMouseOperation(u, c)
  <2>1. Tame(q, t) /\ q \in Tree
    <3> DEFINE S == t.scratch \ {c}
    <3>1. S \in SUBSET Container
      BY TreeTypes
    <3> HIDE DEF S
    <3>2. Tame([t EXCEPT !.scratch = S], t)
      BY <3>1, ShelfFields
    <3>3. Tame(q, t)
      BY <3>2 DEF S
    <3> QED
      BY <3>3, TameTree
  <2> HIDE DEF q
  <2>2. Tame(d, q) /\ d \in Tree
    BY <2>1, PlacesCalm, CalmTame, TameTree
  <2>3. t.ws[c] \in Workspaces \cup {None}
    BY TreeTypes
  <2> HIDE DEF d
  <2>4. Tame(u, d) /\ u \in Tree
    BY <2>2, <2>3, TileTame, TameTree
  <2> HIDE DEF u
  <2>5. Tame(r, u)
    BY <2>4, EndMouseQuiet, QuietTame
  <2>6. Tame(r, t)
    BY <2>1, <2>2, <2>4, <2>5, TameOn
  <2> QED
    BY <1>3, <2>6 DEF SetFloating, r, u, d, q
<1> QED
  BY <1>1, <1>2, <1>3

LEMMA FloatingIsRoot ==
  ASSUME NEW t, Fit(t), NEW c \in Container, IsFloating(t, c)
  PROVE  t.parent[c] = None
BY PlacedLives DEF IsFloating

Floats(t, c) == SetFloating(t, c, TRUE, None)

\* Made to float, a container is the root of a tree where it was.
LEMMA FloatsFit ==
  ASSUME NEW t, Fit(t), NEW c \in Container, ~Undefined(Floats(t, c))
  PROVE  LET r == Floats(t, c)
         IN  /\ Keeps(r, t)
             /\ r.parent[c] = None /\ r.ws[c] = t.ws[c] /\ r.life[c] = t.life[c]
             /\ Inside(r, c) = Inside(t, c)
             /\ c \in r.scratch <=> c \in t.scratch
             /\ \A x \in Container : Inside(t, x) \cap Inside(t, c) = {} => Spared(r, t, x)
<1>1. CASE IsFloating(t, c)
  <2>1. Floats(t, c) = t
    BY <1>1 DEF Floats, SetFloating
  <2> QED
    BY <1>1, <2>1, FloatingIsRoot, KeepsSame, SparedSame
<1>2. CASE ~IsFloating(t, c)
  <2> DEFINE u == Float(t, c)
             r == EndMouseOperation(u, c)
  <2>1. Floats(t, c) = r
    BY <1>2 DEF Floats, SetFloating, IsFloating
  <2>2. u \in Tree /\ Tame(u, t)
    BY FloatTame, TameTree DEF Fit
  <2>3. Quiet(r, u)
    <3> HIDE DEF u
    <3> QED
      BY <2>2, EndMouseQuiet
  <2>4. ~Undefined(u)
    <3> HIDE DEF u, r
    <3> QED
      BY <2>1, <2>3, QuietTame, TameDefined
  <2>5. /\ Keeps(u, t) /\ t.ws[c] \in Workspaces
        /\ u.parent[c] = None /\ u.ws[c] = t.ws[c] /\ u.life[c] = "live"
        /\ Inside(u, c) = Inside(t, c)
        /\ c \in u.scratch <=> c \in t.scratch
        /\ \A x \in Container : Inside(t, x) \cap Inside(t, c) = {} => Spared(u, t, x)
    BY <2>4, FloatFit
  <2>6. t.life[c] = "live"
    BY <2>5, PlacedLives, Nothing
  <2> HIDE DEF u, r
  <2>7. Keeps(r, u) /\ \A x : Inside(r, x) = Inside(u, x)
    BY <2>3, <2>5, QuietKeeps, QuietFit DEF Keeps
  <2>8. Keeps(r, t)
    BY <2>5, <2>7, KeepsOn
  <2>9. \A x \in Container : Inside(t, x) \cap Inside(t, c) = {} => Spared(r, t, x)
    BY <2>3, <2>5, QuietSpared, SparedOn DEF Keeps
  <2> QED
    BY <2>1, <2>3, <2>5, <2>6, <2>7, <2>8, <2>9 DEF Quiet, Same
<1> QED
  BY <1>1, <1>2

Tiles(t, c, ref) == SetFloating(t, c, FALSE, ref)

\* Made to tile, a container finds a place.
LEMMA TilesFit ==
  ASSUME NEW t, Fit(t), NEW c \in Container, NEW ref \in Container \cup {None},
         ref # None => t.life[ref] = "live" /\ ref \notin Inside(t, c),
         t.life[c] = "live",
         ~Undefined(Tiles(t, c, ref))
  PROVE  Keeps(Tiles(t, c, ref), t)
<1>1. CASE ~IsFloating(t, c)
  <2>1. Tiles(t, c, ref) = t
    BY <1>1 DEF Tiles, SetFloating
  <2> QED
    BY <2>1, KeepsSame
<1>2. CASE IsFloating(t, c)
  <2> DEFINE S == t.scratch \ {c}
             q == [t EXCEPT !.scratch = S]
             d == Detach(q, c)
             w == t.ws[c]
             u == Tile(d, w, c, ref)
             r == EndMouseOperation(u, c)
  <2>1. Tiles(t, c, ref) = r
    BY <1>2 DEF Tiles, SetFloating, IsFloating
  <2>2. S \in SUBSET Container /\ \A x \in S : x \in t.scratch
    BY TreeTypes DEF Fit
  <2>3. t.parent[c] = None
    BY <1>2, FloatingIsRoot
  <2>4. c \notin S /\ t.scratch \ S \subseteq {c}
    OBVIOUS
  <2> HIDE DEF S
  <2>5. /\ Fit(q) /\ Tame(q, t) /\ q.scratch = S /\ q.life = t.life /\ Alike(q, t)
        /\ Lost(q) \subseteq Lost(t) \cup (t.scratch \ S)
        /\ Empty(q) = Empty(t) /\ \A x : Inside(q, x) = Inside(t, x)
    BY <2>2, ShelfFit
  <2> HIDE DEF q
  <2>6. Moves(d, q, c, None, None) /\ Fit(d) /\ Loose(d, c)
    BY <2>5, DetachFit
  <2> HIDE DEF d
  <2>7. /\ d.life = q.life /\ d.scratch = q.scratch /\ Calm(d, q) /\ Inside(d, c) = Inside(q, c)
        /\ Lost(d) \subseteq Lost(q) \cup {c} /\ Empty(d) \subseteq Empty(q) \cup {q.parent[c]}
    BY <2>5, <2>6, MovesOut
  <2>8. w \in Workspaces \cup {None} /\ d \in Tree
    BY <2>6, TreeTypes DEF Fit
  <2> HIDE DEF w
  <2>9. Tame(u, d) /\ u \in Tree
    BY <2>8, TileTame, TameTree
  <2>10. Quiet(r, u)
    <3> HIDE DEF u
    <3> QED
      BY <2>9, EndMouseQuiet
  <2>11. ~Undefined(u)
    <3> HIDE DEF u, r
    <3> QED
      BY <2>1, <2>10, QuietTame, TameDefined
  <2>12. Keeps(u, d) /\ c \notin Lost(u)
    BY <2>4, <2>5, <2>6, <2>7, <2>8, <2>11, TileFit
  <2> HIDE DEF u, r
  <2>13. Fit(r) /\ Tame(r, u) /\ Lost(r) = Lost(u) /\ Empty(r) = Empty(u)
    BY <2>10, <2>12, QuietFit, QuietTame DEF Keeps
  <2>14. Tame(r, t)
    <3>1. Tame(d, q)
      BY <2>7, CalmTame
    <3> QED
      BY <2>5, <2>9, <2>13, <3>1, TameOn
  <2>15. Empty(r) \subseteq Empty(t)
    <3>1. q.parent[c] = None
      BY <2>3, <2>5 DEF Alike
    <3> QED
      BY <2>5, <2>7, <2>12, <2>13, <3>1, Nothing DEF Keeps, Empty
  <2>16. Lost(r) \subseteq Lost(t)
    BY <2>4, <2>5, <2>7, <2>12, <2>13 DEF Keeps
  <2> QED
    BY <2>1, <2>13, <2>14, <2>15, <2>16 DEF Keeps
<1> QED
  BY <1>1, <1>2

(***************************************************************************)
(* The scratchpad.                                                         *)
(***************************************************************************)
LEMMA PutOnTame ==
  ASSUME NEW t \in Tree, NEW c \in Container, NEW w \in Workspaces \cup {None}
  PROVE  Tame(PutOn(t, w, c), t)
BY TameSame, AddsCalm, CalmTame DEF PutOn

LEMMA SetAsideTame ==
  ASSUME NEW t \in Tree, NEW c \in Container
  PROVE  Tame(SetAside(t, c), t)
<1> DEFINE q == DisableIfFullscreen(t, c)
           u == SetFloating(q, c, TRUE, None)
           d == Detach(u, c)
<1>1. Tame(q, t) /\ q \in Tree
  BY DisableIfQuiet, QuietTame, TameTree
<1> HIDE DEF q
<1>2. Tame(u, q) /\ u \in Tree
  BY <1>1, SetFloatingTame, TameTree
<1> HIDE DEF u
<1>3. Tame(d, u)
  BY <1>2, PlacesCalm, CalmTame
<1>4. Tame(d, t)
  BY <1>1, <1>2, <1>3, TameOn
<1> QED
  BY <1>4 DEF SetAside, d, u, q

LEMMA ScratchpadAddTame ==
  ASSUME NEW t \in Tree, NEW c \in Container, NEW w \in Workspaces \cup {None}
  PROVE  Tame(ScratchpadAdd(t, c, w), t)
<1>1. CASE c \in t.scratch
  BY <1>1, BreakQuiet, QuietTame DEF ScratchpadAdd, Breach
<1>2. CASE c \notin t.scratch /\ t.ws[c] = None
  BY <1>2, BreakQuiet, QuietTame DEF ScratchpadAdd, Breach
<1>3. CASE c \notin t.scratch /\ t.ws[c] # None
  <2> DEFINE d == SetAside(t, c)
             S == d.scratch \cup {c}
             q == [d EXCEPT !.scratch = S]
             r == PutOn(q, w, c)
  <2>1. Tame(d, t) /\ d \in Tree
    BY SetAsideTame, TameTree
  <2> HIDE DEF d
  <2>2. S \in SUBSET Container
    BY <2>1, TreeTypes
  <2> HIDE DEF S
  <2>3. Tame(q, d) /\ q \in Tree
    BY <2>1, <2>2, ShelfFields, TameTree
  <2> HIDE DEF q
  <2>4. Tame(r, q)
    BY <2>3, PutOnTame
  <2>5. Tame(r, t)
    BY <2>1, <2>3, <2>4, TameOn
  <2> QED
    BY <1>3, <2>5 DEF ScratchpadAdd, r, q, S, d
<1> QED
  BY <1>1, <1>2, <1>3

\* Set aside, a container is out of the tree with what is below it.
LEMMA SetAsideFit ==
  ASSUME NEW t, Fit(t), NEW c \in Container, ~Undefined(SetAside(t, c))
  PROVE  LET r == SetAside(t, c)
         IN  /\ Fit(r) /\ Tame(r, t) /\ Lost(r) \subseteq Lost(t) \cup {c}
             /\ Empty(r) \subseteq Empty(t)
             /\ Loose(r, c) /\ Inside(r, c) = Inside(t, c)
             /\ r.life[c] = t.life[c] /\ (c \in r.scratch <=> c \in t.scratch)
             /\ \A x \in Container : Inside(t, x) \cap Inside(t, c) = {} => Spared(r, t, x)
<1> DEFINE q == DisableIfFullscreen(t, c)
           u == SetFloating(q, c, TRUE, None)
           d == Detach(u, c)
<1>1. SetAside(t, c) = d
  BY DEF SetAside
<1>2. Quiet(q, t)
  BY DisableIfQuiet DEF Fit
<1> HIDE DEF q
<1>3. /\ Fit(q) /\ Lost(q) = Lost(t) /\ Empty(q) = Empty(t)
      /\ \A x : Inside(q, x) = Inside(t, x)
      /\ Same(q, t) /\ Tame(q, t) /\ q \in Tree
  BY <1>2, QuietFit, QuietTame, QuietTree DEF Quiet
<1>4. Tame(u, q) /\ u \in Tree
  BY <1>3, SetFloatingTame, TameTree
<1> HIDE DEF u
<1>5. Tame(d, u)
  BY <1>4, PlacesCalm, CalmTame
<1> HIDE DEF d
<1>6. ~Undefined(u)
  BY <1>1, <1>5, TameDefined
<1>7. /\ Keeps(u, q)
      /\ u.parent[c] = None /\ u.life[c] = q.life[c]
      /\ Inside(u, c) = Inside(q, c)
      /\ c \in u.scratch <=> c \in q.scratch
      /\ \A x \in Container : Inside(q, x) \cap Inside(q, c) = {} => Spared(u, q, x)
  <2>1. u = Floats(q, c)
    BY DEF u, Floats
  <2> QED
    BY <1>3, <1>6, <2>1, FloatsFit
<1>8. Moves(d, u, c, None, None) /\ Fit(d) /\ Loose(d, c)
  BY <1>7, DetachFit DEF Keeps, d
<1>9. /\ Lost(d) \subseteq Lost(u) \cup {c} /\ Empty(d) \subseteq Empty(u) \cup {u.parent[c]}
      /\ Inside(d, c) = Inside(u, c) /\ d.life = u.life /\ d.scratch = u.scratch
  BY <1>7, <1>8, MovesOut DEF Keeps
<1>10. Empty(d) \subseteq Empty(t)
  BY <1>3, <1>7, <1>9, Nothing DEF Keeps, Empty
<1>11. Tame(d, t)
  BY <1>3, <1>4, <1>5, TameOn
<1>12. ASSUME NEW x \in Container, Inside(t, x) \cap Inside(t, c) = {}
       PROVE  Spared(d, t, x)
  <2>1. Spared(q, t, x) /\ Spared(u, q, x)
    BY <1>2, <1>3, <1>7, <1>12, QuietSpared
  <2>2. Inside(u, x) = Inside(t, x) /\ Inside(u, c) = Inside(t, c)
    BY <1>3, <1>7, <2>1 DEF Spared
  <2> DEFINE n == None
  <2>3. n \in Splits \cup {None} /\ Moves(d, u, c, n, None) /\ n \notin Inside(u, x)
    BY <1>4, <1>8, InsideType, Nothing
  <2> HIDE DEF n
  <2>4. Spared(d, u, x)
    BY <1>7, <1>12, <2>2, <2>3, MovesSpare DEF Keeps
  <2> QED
    BY <2>1, <2>4, SparedOn
<1> QED
  BY <1>1, <1>3, <1>7, <1>8, <1>9, <1>10, <1>11, <1>12 DEF Keeps, Same

LEMMA PutOnFit ==
  ASSUME NEW t, Fit(t), NEW c \in Container, Loose(t, c), t.life[c] = "live",
         NEW w \in Workspaces \cup {None}, ~Undefined(PutOn(t, w, c))
  PROVE  LET r == PutOn(t, w, c)
         IN  /\ Keeps(r, t) /\ r.parent[c] = None /\ r.ws[c] = w
             /\ r.life = t.life /\ r.scratch = t.scratch /\ Inside(r, c) = Inside(t, c)
             /\ \A x \in Container : Inside(t, x) \cap Inside(t, c) = {} => Spared(r, t, x)
<1>1. CASE w = None
  BY <1>1, KeepsSame, SparedSame DEF PutOn, Loose
<1>2. CASE w # None
  <2> DEFINE r == AddFloating(t, w, c)
  <2>1. PutOn(t, w, c) = r
    BY <1>2 DEF PutOn
  <2>2. Moves(r, t, c, None, w)
    BY <2>1, AddFloatingFit DEF Loose
  <2> HIDE DEF r
  <2>3. /\ Fit(r) /\ Calm(r, t) /\ r.life = t.life /\ r.scratch = t.scratch
        /\ r.parent[c] = None /\ r.ws[c] = w /\ Inside(r, c) = Inside(t, c)
        /\ Lost(r) \subseteq Lost(t) \cup {c} /\ c \notin Lost(r)
        /\ Empty(r) \subseteq Empty(t) \cup {t.parent[c]}
    BY <1>2, <2>2, MovesOut
  <2>4. Empty(r) \subseteq Empty(t) /\ Lost(r) \subseteq Lost(t)
    BY <2>3, Nothing DEF Loose, Empty
  <2>5. ASSUME NEW x \in Container, Inside(t, x) \cap Inside(t, c) = {}
        PROVE  Spared(r, t, x)
    <3> DEFINE n == None
    <3>1. n \in Splits \cup {None} /\ Moves(r, t, c, n, w) /\ n \notin Inside(t, x)
      BY <2>2, InsideType, Nothing DEF Fit
    <3> HIDE DEF n
    <3> QED
      BY <2>5, <3>1, MovesSpare
  <2> QED
    BY <2>1, <2>3, <2>4, <2>5, CalmTame DEF Keeps
<1> QED
  BY <1>1, <1>2

LEMMA ScratchpadAddFit ==
  ASSUME NEW t, Fit(t), NEW c \in Container, NEW w \in Workspaces \cup {None},
         ~Undefined(ScratchpadAdd(t, c, w))
  PROVE  LET r == ScratchpadAdd(t, c, w)
         IN  /\ Keeps(r, t) /\ r.life[c] = "live" /\ c \in r.scratch /\ r.parent[c] = None
             /\ c \in t.scratch => Quiet(r, t)
             /\ c \notin t.scratch =>
                  /\ r.ws[c] = w /\ Inside(r, c) = Inside(t, c)
                  /\ \A x \in Container : Inside(t, x) \cap Inside(t, c) = {} => Spared(r, t, x)
<1> DEFINE r == ScratchpadAdd(t, c, w)
<1>1. CASE c \in t.scratch
  <2>1. r = Break(t, "assert")
    BY <1>1 DEF ScratchpadAdd
  <2>2. Quiet(r, t)
    BY <2>1, BreakQuiet DEF Fit, Breach
  <2> HIDE DEF r
  <2>3. Keeps(r, t) /\ r.life[c] = "live" /\ c \in r.scratch /\ r.parent[c] = None
    BY <1>1, <2>2, QuietKeeps, PlacedLives DEF Quiet, Same
  <2> QED
    BY <1>1, <2>2, <2>3 DEF r
<1>2. CASE c \notin t.scratch
  <2> DEFINE d == SetAside(t, c)
             S == d.scratch \cup {c}
             q == [d EXCEPT !.scratch = S]
             y == PutOn(q, w, c)
  <2>1. t.ws[c] # None
    <3> SUFFICES ASSUME t.ws[c] = None PROVE FALSE
      OBVIOUS
    <3>1. r = Break(t, "null")
      BY <1>2 DEF ScratchpadAdd
    <3> QED
      BY <3>1, NullBreaks DEF Fit
  <2>2. r = y
    BY <1>2, <2>1 DEF ScratchpadAdd
  <2>3. t.life[c] = "live"
    BY <2>1, PlacedLives
  <2>4. Tame(d, t) /\ d \in Tree
    BY SetAsideTame, TameTree DEF Fit
  <2>5. S \in SUBSET Container
    <3> HIDE DEF d
    <3> QED
      BY <2>4, TreeTypes
  <2>6. Tame(q, d) /\ q \in Tree
    <3> HIDE DEF d, S
    <3> QED
      BY <2>4, <2>5, ShelfFields, TameTree
  <2>7. Tame(y, q)
    <3> HIDE DEF q
    <3> QED
      BY <2>6, PutOnTame
  <2> HIDE DEF y, q, S, d, r
  <2>8. ~Undefined(q) /\ ~Undefined(d)
    BY <2>2, <2>6, <2>7, TameDefined DEF r
  <2>9. /\ Fit(d) /\ Tame(d, t) /\ Lost(d) \subseteq Lost(t) \cup {c}
        /\ Empty(d) \subseteq Empty(t)
        /\ Loose(d, c) /\ Inside(d, c) = Inside(t, c)
        /\ d.life[c] = t.life[c] /\ (c \in d.scratch <=> c \in t.scratch)
        /\ \A x \in Container : Inside(t, x) \cap Inside(t, c) = {} => Spared(d, t, x)
    BY <2>8, SetAsideFit DEF d
  <2>10. \A x \in S : x \in d.scratch \/ (Loose(d, x) /\ d.life[x] = "live")
    BY <2>3, <2>9 DEF S
  <2>11. c \in S /\ d.scratch \ S = {}
    BY DEF S
  <2>12. /\ Fit(q) /\ q.scratch = S /\ q.life = d.life /\ Alike(q, d)
         /\ Lost(q) \subseteq Lost(d) \cup (d.scratch \ S) /\ Lost(q) \cap S = {}
         /\ Empty(q) = Empty(d)
         /\ \A x : Inside(q, x) = Inside(d, x)
         /\ \A x : (\A z \in Inside(d, x) : z \in S <=> z \in d.scratch) => Spared(q, d, x)
    BY <2>5, <2>9, <2>10, ShelfFit DEF q
  <2>13. Loose(q, c) /\ q.life[c] = "live"
    BY <2>3, <2>9, <2>12 DEF Loose, Alike
  <2>14. ~Undefined(y)
    BY <2>2 DEF r
  <2>15. /\ Keeps(y, q) /\ y.parent[c] = None /\ y.ws[c] = w
         /\ y.life = q.life /\ y.scratch = q.scratch /\ Inside(y, c) = Inside(q, c)
         /\ \A x \in Container : Inside(q, x) \cap Inside(q, c) = {} => Spared(y, q, x)
    BY <2>12, <2>13, <2>14, PutOnFit DEF y
  <2>16. Tame(y, t)
    BY <2>4, <2>6, <2>7, TameOn
  <2>17. Lost(y) \subseteq Lost(t) /\ Empty(y) \subseteq Empty(t)
    BY <2>9, <2>11, <2>12, <2>15 DEF Keeps
  <2>18. Keeps(y, t)
    BY <2>15, <2>16, <2>17 DEF Keeps
  <2>19. /\ y.life[c] = "live" /\ c \in y.scratch /\ y.parent[c] = None
         /\ y.ws[c] = w /\ Inside(y, c) = Inside(t, c)
    BY <2>9, <2>11, <2>12, <2>13, <2>15
  <2>20. ASSUME NEW x \in Container, Inside(t, x) \cap Inside(t, c) = {}
         PROVE  Spared(y, t, x)
    <3>1. Spared(d, t, x) /\ c \in Inside(t, c)
      BY <2>9, <2>20, InsideType DEF Fit
    <3>2. Inside(d, x) = Inside(t, x)
      BY <3>1 DEF Spared
    <3>3. Spared(q, d, x)
      <4>1. \A z \in Inside(d, x) : z \in S <=> z \in d.scratch
        BY <2>20, <3>1, <3>2 DEF S
      <4> QED
        BY <2>12, <4>1
    <3>4. Inside(q, x) = Inside(t, x) /\ Inside(q, c) = Inside(t, c)
      BY <2>9, <2>12, <3>2
    <3>5. Spared(y, q, x)
      BY <2>15, <2>20, <3>4
    <3> QED
      BY <3>1, <3>3, <3>5, SparedOn
  <2> QED
    BY <1>2, <2>2, <2>18, <2>19, <2>20 DEF r
<1> QED
  BY <1>1, <1>2

LEMMA ScratchpadRemoveTame ==
  ASSUME NEW t \in Tree, NEW c \in Container
  PROVE  Tame(ScratchpadRemove(t, c), t)
<1> DEFINE S == t.scratch \ {c}
<1>1. S \in SUBSET Container
  BY TreeTypes
<1> HIDE DEF S
<1>2. Tame([t EXCEPT !.scratch = S], t)
  BY <1>1, ShelfFields
<1> QED
  BY <1>2 DEF S, ScratchpadRemove

LEMMA ScratchpadRemoveFit ==
  ASSUME NEW t, Fit(t), NEW c \in Container
  PROVE  LET r == ScratchpadRemove(t, c)
         IN  /\ Fit(r) /\ Tame(r, t) /\ r.scratch = t.scratch \ {c}
             /\ r.life = t.life /\ Alike(r, t)
             /\ Lost(r) \subseteq Lost(t) \cup {c} /\ Empty(r) = Empty(t)
             /\ t.ws[c] # None => c \notin Lost(r)
             /\ \A x : Inside(r, x) = Inside(t, x)
             /\ \A x : c \notin Inside(t, x) => Spared(r, t, x)
<1> DEFINE S == t.scratch \ {c}
           r == [t EXCEPT !.scratch = S]
<1>1. S \in SUBSET Container /\ \A x \in S : x \in t.scratch
  BY TreeTypes DEF Fit
<1>2. t.scratch \ S \subseteq {c} /\ \A x : x # c => (x \in S <=> x \in t.scratch)
  OBVIOUS
<1> HIDE DEF S
<1>3. /\ Fit(r) /\ Tame(r, t) /\ r.scratch = S /\ r.life = t.life /\ Alike(r, t)
      /\ Lost(r) \subseteq Lost(t) \cup (t.scratch \ S)
      /\ Empty(r) = Empty(t)
      /\ \A x : Inside(r, x) = Inside(t, x)
      /\ \A x : (\A z \in Inside(t, x) : z \in S <=> z \in t.scratch) => Spared(r, t, x)
  BY <1>1, ShelfFit
<1>4. ScratchpadRemove(t, c) = r
  BY DEF ScratchpadRemove, S
<1> HIDE DEF r
<1>5. t.ws[c] # None => c \notin Lost(r)
  BY <1>3 DEF Lost, Alike
<1>6. Lost(r) \subseteq Lost(t) \cup {c}
  BY <1>2, <1>3
<1>7. \A x : c \notin Inside(t, x) => Spared(r, t, x)
  BY <1>2, <1>3
<1> QED
  BY <1>3, <1>4, <1>5, <1>6, <1>7 DEF S

LEMMA DisableAllWalk ==
  ASSUME NEW t \in Tree, NEW q \in Seq(Container)
  PROVE  \E f : /\ f[0] = t
                /\ \A i \in 1 .. Len(q) : f[i] = Disable(f[i - 1], q[i])
                /\ DisableAll(t, q) = f[Len(q)]
<1> DEFINE n == Len(q)
           g == [p \in Tree \X (1 .. n) |-> Disable(p[1], q[p[2]])]
<1>1. n \in Nat /\ \A i \in 1 .. n : q[i] \in Container
  BY LenProperties, ElementOfSeq
<1>2. g \in [Tree \X (1 .. n) -> Tree]
  BY <1>1, DisableQuiet, QuietTree
<1> HIDE DEF n
<1>3. PICK f : Walk(f, n, Tree, t, g)
  <2> HIDE DEF g
  <2> QED
    BY <1>1, <1>2, FoldExists
<1> DEFINE E(h) == [i \in 0 .. n |-> IF i = 0 THEN t ELSE Disable(h[i-1], q[i])]
           w == CHOOSE h : h = E(h)
<1>4. ASSUME NEW i \in 1 .. n PROVE f[i] = Disable(f[i - 1], q[i])
  <2>1. <<f[i - 1], i>> \in Tree \X (1 .. n)
    BY <1>1, <1>3 DEF Walk
  <2> QED
    BY <1>3, <2>1 DEF Walk
<1>5. f = E(f)
  <2>1. f = [i \in 0 .. n |-> f[i]] /\ f[0] = t
    BY <1>3 DEF Walk
  <2>2. [i \in 0 .. n |-> f[i]] = E(f)
    BY <1>1, <1>4, <2>1
  <2> QED
    BY <2>1, <2>2
<1>6. w = E(w)
  BY <1>5
<1>7. DisableAll(t, q) = w[n]
  BY DEF DisableAll, n
<1> HIDE DEF w
<1>8. w[0] = t /\ \A i \in 1 .. n : w[i] = Disable(w[i - 1], q[i])
  <2>1. \A i \in 0 .. n : w[i] = E(w)[i]
    BY <1>6
  <2> QED
    BY <1>1, <2>1
<1> QED
  BY <1>7, <1>8 DEF n

LEMMA DisableAllQuiet ==
  ASSUME NEW t \in Tree, NEW q \in Seq(Container)
  PROVE  Quiet(DisableAll(t, q), t)
<1> DEFINE n == Len(q)
<1>1. n \in Nat /\ \A i \in 1 .. n : q[i] \in Container
  BY LenProperties, ElementOfSeq
<1>2. PICK f : /\ f[0] = t
               /\ \A i \in 1 .. n : f[i] = Disable(f[i - 1], q[i])
               /\ DisableAll(t, q) = f[n]
  BY DisableAllWalk
<1> HIDE DEF n
<1> DEFINE G == {i \in 0 .. n : Quiet(f[i], t)}
<1>3. 0 \in G
  BY <1>1, <1>2, QuietSame
<1>4. ASSUME NEW i \in 1 .. n, i - 1 \in G PROVE i \in G
  <2>1. Quiet(f[i-1], t) /\ f[i-1] \in Tree /\ i \in 0 .. n
    BY <1>1, <1>4, QuietTree
  <2>2. Quiet(Disable(f[i-1], q[i]), f[i-1])
    BY <1>1, <2>1, DisableQuiet
  <2>3. Quiet(f[i], t)
    BY <1>2, <2>1, <2>2, QuietOn
  <2> QED
    BY <2>1, <2>3
<1> HIDE DEF G
<1>5. \A i \in 0 .. n : i \in G
  BY <1>1, <1>3, <1>4, Counting
<1> QED
  BY <1>1, <1>2, <1>5 DEF G

LEMMA UncoverQuiet ==
  ASSUME NEW t \in Tree, NEW w \in Workspaces
  PROVE  Quiet(Uncover(t, w), t)
<1> DEFINE u == DisableIfSet(t, t.fs[w])
           r == DisableIfSet(u, u.global)
<1>1. t.fs[w] \in Container \cup {None}
  BY TreeTypes
<1>2. Quiet(u, t) /\ u \in Tree
  BY <1>1, DisableIfQuiet, QuietTree
<1> HIDE DEF u
<1>3. Quiet(r, u)
  BY <1>2, TreeTypes, DisableIfQuiet
<1>4. Quiet(r, t)
  BY <1>2, <1>3, QuietOn
<1> QED
  BY <1>4 DEF Uncover, DisableGlobal, r, u

LEMMA ScratchpadShowTame ==
  ASSUME NEW t \in Tree, NEW c \in Container, NEW w \in Workspaces \cup {None}
  PROVE  Tame(ScratchpadShow(t, c, w), t)
<1>1. CASE w = None
  BY <1>1, TameSame DEF ScratchpadShow
<1>2. CASE w # None
  <2> DEFINE u == Uncover(t, w)
             l == Leave(u, c)
             x == IF t.ws[c] = None THEN Toplevel(t, c) ELSE c
             r == AddFloating(l, w, x)
  <2>1. w \in Workspaces
    BY <1>2
  <2>2. Tame(u, t) /\ u \in Tree
    BY <2>1, UncoverQuiet, QuietTame, TameTree
  <2>3. x \in Container
    BY ToplevelType
  <2> HIDE DEF u, x
  <2>4. Tame(l, u) /\ l \in Tree
    BY <2>2, PlacesCalm, CalmTame, TameTree
  <2> HIDE DEF l
  <2>5. Tame(r, l)
    BY <2>3, <2>4, AddsCalm, CalmTame
  <2>6. Tame(r, t)
    BY <2>2, <2>4, <2>5, TameOn
  <2> QED
    BY <1>2, <2>6 DEF ScratchpadShow, r, x, l, u
<1> QED
  BY <1>1, <1>2

\* The tree of a hidden container, or a floating one, comes to w.
LEMMA ScratchpadShowFit ==
  ASSUME NEW t, Fit(t), NEW c \in Container, t.life[c] = "live",
         t.ws[c] = None \/ t.parent[c] = None,
         NEW w \in Workspaces \cup {None}, ~Undefined(ScratchpadShow(t, c, w))
  PROVE  LET r == ScratchpadShow(t, c, w)
             x == IF t.ws[c] = None THEN Toplevel(t, c) ELSE c
         IN  /\ Keeps(r, t) /\ r.life = t.life /\ r.scratch = t.scratch
             /\ \A y \in Container : r.parent[y] = t.parent[y]
             /\ w = None => r = t
             /\ w # None => /\ x \in Container /\ r.parent[x] = None /\ r.ws[x] = w
                            /\ Inside(r, x) = Inside(t, x)
                            /\ \A y \in Container : Inside(r, y) \subseteq Inside(t, y)
                            /\ \A y \in Container : y \in Inside(t, x) => r.ws[y] = w
                            /\ \A y \in Container : y \notin Inside(t, x) => r.ws[y] = t.ws[y]
                            /\ \A y \in Container :
                                 Inside(t, y) \cap Inside(t, x) = {} => Spared(r, t, y)
<1> DEFINE r == ScratchpadShow(t, c, w)
           x == IF t.ws[c] = None THEN Toplevel(t, c) ELSE c
<1>1. CASE w = None
  <2>1. r = t
    BY <1>1 DEF ScratchpadShow
  <2> QED
    BY <1>1, <2>1, KeepsSame
<1>2. CASE w # None
  <2> DEFINE u == Uncover(t, w)
             l == Leave(u, c)
             a == AddFloating(l, w, x)
  <2>1. w \in Workspaces /\ r = a
    BY <1>2 DEF ScratchpadShow
  <2>2. Quiet(u, t) /\ u \in Tree
    BY <2>1, UncoverQuiet, QuietTree DEF Fit
  <2>3. x \in Container /\ t.parent[x] = None /\ t.life[x] = "live" /\ (t.ws[c] # None => x = c)
        /\ (t.ws[c] = None => t.ws[x] = None)
    BY ToplevelPlace DEF Fit
  <2>4. t.ws[c] = None => u.ws[c] = None
    BY <2>2 DEF Quiet, Same
  <2> HIDE DEF u, x
  <2>5. /\ Fit(u) /\ Lost(u) = Lost(t) /\ Empty(u) = Empty(t)
        /\ \A y : Inside(u, y) = Inside(t, y)
        /\ u.life = t.life /\ u.scratch = t.scratch /\ u.parent = t.parent /\ u.ws = t.ws
    BY <2>2, QuietFit DEF Quiet, Same
  <2>6. Fit(l) /\ Moves(l, u, x, None, None) /\ Loose(l, x)
    <3>1. CASE t.ws[c] = None
      <4>1. l = u
        BY <2>5, <3>1 DEF Leave
      <4>2. Loose(u, x)
        BY <2>3, <2>5, <3>1 DEF Loose
      <4> QED
        BY <2>3, <2>5, <4>1, <4>2, StaysPut
    <3>2. CASE t.ws[c] # None
      <4>1. x = c
        BY <2>3, <3>2
      <4>2. l = Detach(u, x)
        BY <2>5, <3>2, <4>1 DEF Leave
      <4> QED
        BY <2>3, <2>5, <4>2, DetachFit
    <3> QED
      BY <3>1, <3>2
  <2>7. l.life = u.life
    BY <2>3, <2>5, <2>6, MovesOut
  <2> HIDE DEF l, r
  <2>8. Moves(a, l, x, None, w)
    <3>1. ~Undefined(AddFloating(l, w, x))
      BY <2>1 DEF r
    <3> QED
      BY <2>1, <2>3, <2>5, <2>6, <2>7, <3>1, AddFloatingFit DEF Loose
  <2> HIDE DEF a
  <2>9. Moves(a, u, x, None, w)
    <3> DEFINE n == None
    <3>1. n \in Splits \cup {None} /\ Moves(a, l, x, n, w)
      BY <2>8
    <3> HIDE DEF n
    <3>2. Moves(a, u, x, n, w)
      BY <2>3, <2>5, <2>6, <3>1, MovesOn
    <3> QED
      BY <3>2 DEF n
  <2>10. /\ Fit(a) /\ Calm(a, u) /\ a.life = u.life /\ a.scratch = u.scratch
         /\ a.parent[x] = None /\ a.ws[x] = w
         /\ \A y \in Container \ {x} : a.parent[y] = u.parent[y]
         /\ \A y \in Container : /\ y \in Inside(u, x) => a.ws[y] = w
                                 /\ y \notin Inside(u, x) => a.ws[y] = u.ws[y]
         /\ Inside(a, x) = Inside(u, x)
         /\ \A y \in Container : Inside(a, y) \subseteq Inside(u, y)
         /\ Lost(a) \subseteq Lost(u) \cup {x} /\ x \notin Lost(a)
         /\ Empty(a) \subseteq Empty(u) \cup {u.parent[x]}
    BY <1>2, <2>3, <2>5, <2>9, MovesOut
  <2>11. Empty(a) \subseteq Empty(t) /\ Lost(a) \subseteq Lost(t)
    BY <2>3, <2>5, <2>10, Nothing DEF Empty
  <2>12. Tame(a, t)
    BY <2>2, <2>10, CalmTame, QuietTame, TameOn
  <2>13. Keeps(a, t)
    BY <2>10, <2>11, <2>12 DEF Keeps
  <2>14. \A y \in Container : a.parent[y] = t.parent[y]
    BY <2>3, <2>5, <2>10
  <2>15. /\ \A y \in Container : Inside(a, y) \subseteq Inside(t, y)
         /\ \A y \in Container : y \in Inside(t, x) => a.ws[y] = w
         /\ \A y \in Container : y \notin Inside(t, x) => a.ws[y] = t.ws[y]
         /\ Inside(a, x) = Inside(t, x)
    BY <2>5, <2>10
  <2>16. ASSUME NEW y \in Container, Inside(t, y) \cap Inside(t, x) = {}
         PROVE  Spared(a, t, y)
    <3> DEFINE n == None
    <3>1. n \in Splits \cup {None} /\ Moves(a, u, x, n, w) /\ n \notin Inside(u, y)
      BY <2>2, <2>9, InsideType, Nothing
    <3> HIDE DEF n
    <3>2. Spared(a, u, y)
      BY <2>3, <2>5, <2>16, <3>1, MovesSpare
    <3> QED
      BY <2>2, <3>2, QuietSpared, SparedOn
  <2> QED
    BY <1>2, <2>1, <2>3, <2>5, <2>10, <2>13, <2>14, <2>15, <2>16 DEF r, x
<1> QED
  BY <1>1, <1>2

LEMMA ScratchpadHideTame ==
  ASSUME NEW t \in Tree, NEW c \in Container
  PROVE  Tame(ScratchpadHide(t, c), t)
<1> DEFINE S == {x \in Inside(t, c) : t.mode[x] # "none"}
           q == SetToSeq(S)
           u == DisableAll(t, q)
<1>1. S \in SUBSET Container
  BY InsideType
<1> HIDE DEF S
<1>2. q \in Seq(S)
  BY <1>1, SetToSeqType, FS_Subset, ConstantsOK
<1> HIDE DEF q
<1>3. q \in Seq(Container)
  BY <1>1, <1>2
<1>4. Tame(u, t) /\ u \in Tree
  BY <1>3, DisableAllQuiet, QuietTame, TameTree
<1> HIDE DEF u
<1>5. Tame(Detach(u, c), u)
  BY <1>4, PlacesCalm, CalmTame
<1>6. Tame(Detach(u, c), t)
  BY <1>4, <1>5, TameOn
<1> QED
  BY <1>6, TameSame DEF ScratchpadHide, u, q, S

LEMMA ScratchpadHideFit ==
  ASSUME NEW t, Fit(t), NEW c \in Container, c \in t.scratch
  PROVE  Keeps(ScratchpadHide(t, c), t)
<1> DEFINE S == {x \in Inside(t, c) : t.mode[x] # "none"}
           q == SetToSeq(S)
           u == DisableAll(t, q)
           d == Detach(u, c)
<1>1. S \in SUBSET Container
  BY InsideType DEF Fit
<1> HIDE DEF S
<1>2. q \in Seq(S)
  BY <1>1, SetToSeqType, FS_Subset, ConstantsOK
<1> HIDE DEF q
<1>3. q \in Seq(Container)
  BY <1>1, <1>2
<1>4. Quiet(u, t)
  BY <1>3, DisableAllQuiet DEF Fit
<1> HIDE DEF u
<1>5. Keeps(u, t) /\ u.parent[c] = None /\ c \in u.scratch
  BY <1>4, QuietKeeps, PlacedLives DEF Quiet, Same
<1>6. Moves(d, u, c, None, None) /\ Fit(d)
  BY <1>5, DetachFit DEF Keeps
<1> HIDE DEF d
<1>7. /\ Calm(d, u) /\ Lost(d) \subseteq Lost(u) \cup {c} /\ c \notin Lost(d)
      /\ Empty(d) \subseteq Empty(u) \cup {u.parent[c]}
  BY <1>5, <1>6, MovesOut DEF Keeps
<1>8. Keeps(d, u)
  <2>1. Empty(d) \subseteq Empty(u)
    BY <1>5, <1>7, Nothing DEF Empty
  <2> QED
    BY <1>6, <1>7, <2>1, CalmTame DEF Keeps
<1>9. Keeps(d, t)
  BY <1>5, <1>8, KeepsOn
<1> QED
  BY <1>9, KeepsSame DEF ScratchpadHide, d, u, q, S

(***************************************************************************)
(* Splits made around containers.                                          *)
(***************************************************************************)
LEMMA SetToSeqIs ==
  ASSUME NEW S, IsFiniteSet(S)
  PROVE  LET q == SetToSeq(S)
         IN  /\ q \in Seq(S)
             /\ \A i, j \in 1 .. Len(q) : q[i] = q[j] => i = j
             /\ \A x \in S : \E i \in 1 .. Len(q) : q[i] = x
             /\ S # {} => Len(q) # 0
<1> DEFINE q == SetToSeq(S)
           n == Cardinality(S)
<1>1. n \in Nat /\ ExistsBijection(1 .. n, S)
  BY FS_CardinalityType
<1>2. PICK f \in Bijection(1 .. n, S) : TRUE
  BY <1>1 DEF ExistsBijection
<1>3. f \in [1 .. n -> S] /\ IsInjective(f)
  BY <1>2, Fun_BijectionProperties DEF Bijection, Injection, IsInjective
<1>4. q \in [1 .. n -> S] /\ IsInjective(q)
  BY <1>3 DEF SetToSeq
<1> HIDE DEF q, n
<1>5. \A i, j \in 1 .. n : q[i] = q[j] => i = j
  BY <1>4 DEF IsInjective
<1>6. q \in Injection(1 .. n, S)
  BY <1>4, <1>5, Fun_IsInj
<1>7. Cardinality(1 .. n) = n
  BY <1>1, FS_Interval
<1>8. q \in Surjection(1 .. n, S)
  BY <1>6, <1>7, FS_Injection DEF n
<1>9. \A x \in S : \E i \in 1 .. n : q[i] = x
  BY <1>8 DEF Surjection
<1>10. q \in Seq(S) /\ Len(q) = n
  BY <1>1, <1>4
<1>11. S # {} => n # 0
  BY FS_EmptySet DEF n
<1> QED
  BY <1>5, <1>9, <1>10, <1>11 DEF q

LayoutOf == {"horiz", "vert", "tabbed", "stacked"}

LEMMA CreateFields ==
  ASSUME NEW t \in Tree, NEW n \in Splits, NEW layout \in LayoutOf
  PROVE  LET r == Create(t, n, layout)
         IN  /\ Tame(r, t) /\ Alike(r, t) /\ r.scratch = t.scratch
             /\ r.life = [t.life EXCEPT ![n] = "live"]
<1> DEFINE r == Create(t, n, layout)
<1>1. n \in Container
  BY Nothing
<1>2. /\ r \in Tree /\ r.op = t.op /\ r.broken = t.broken /\ r.mode = t.mode
      /\ r.global = t.global /\ Alike(r, t) /\ r.scratch = t.scratch
      /\ r.life = [t.life EXCEPT ![n] = "live"]
  BY <1>1 DEF Tree, Alike, Create, LayoutOf, Life
<1> HIDE DEF r
<1>3. \A c \in Container : r.life[c] = IF c = n THEN "live" ELSE t.life[c]
  BY <1>1, <1>2 DEF Tree
<1>4. Operands(t) \subseteq Container
  BY DEF Tree, SeatOp, Operands
<1>5. Minds(t) => Minds(r)
  BY <1>2, <1>3, <1>4 DEF Minds, Operands
<1>6. Tame(r, t)
  BY <1>2, <1>5 DEF Tame, Carries, Goes, Local
<1> QED
  BY <1>2, <1>6 DEF r

LEMMA CreateFit ==
  ASSUME NEW t, Fit(t), NEW n \in Splits, t.life[n] = "unused", NEW layout \in LayoutOf
  PROVE  LET r == Create(t, n, layout)
         IN  /\ Fit(r) /\ Tame(r, t) /\ Alike(r, t) /\ r.scratch = t.scratch
             /\ r.life[n] = "live" /\ \A x \in Container \ {n} : r.life[x] = t.life[x]
             /\ Lost(r) \subseteq Lost(t) \cup {n} /\ Empty(r) \subseteq Empty(t) \cup {n}
             /\ Loose(r, n) /\ r.kids[n] = {} /\ n \notin r.scratch /\ Inside(r, n) = {n}
             /\ \A x \in Container : Inside(r, x) = Inside(t, x)
             /\ \A x \in Container : x # n => n \notin Inside(t, x) /\ Spared(r, t, x)
<1> DEFINE r == Create(t, n, layout)
<1>1. /\ Tame(r, t) /\ Alike(r, t) /\ r.scratch = t.scratch
      /\ r.life = [t.life EXCEPT ![n] = "live"] /\ r \in Tree /\ t \in Tree
  BY CreateFields, TameTree DEF Fit
<1> HIDE DEF r
<1>2. n \in Container
  BY Nothing
<1>3. \A c \in Container : r.life[c] = IF c = n THEN "live" ELSE t.life[c]
  BY <1>1, <1>2 DEF Tree
<1>4. \A c : Inside(r, c) = Inside(t, c)
  BY <1>1, AlikeInside
<1>5. Linked(r) /\ Together(r) /\ Rooted(r) /\ Shelved(r)
  BY <1>1, <1>4 DEF Fit, Shape, Linked, Together, Rooted, Shelved, Alike
<1>6. Living(r)
  BY <1>1, <1>3 DEF Fit, Shape, Living, Alike
<1>7. Fit(r)
  BY <1>1, <1>5, <1>6 DEF Fit, Shape, Tame
<1>8. Loose(t, n) /\ n \notin t.scratch /\ \A c \in Container : t.parent[c] # n
  BY <1>2, Nothing DEF Fit, Shape, Living, Loose
<1>9. t.kids[n] = {}
  BY <1>1, <1>8, TreeTypes DEF Fit, Shape, Linked
<1>10. Inside(t, n) = {n}
  BY <1>1, <1>2, <1>9, InsideAlone
<1>11. ASSUME NEW x \in Container, x # n
       PROVE  n \notin Inside(t, x) /\ Spared(r, t, x)
  <2>1. n \notin Inside(t, x)
    BY <1>1, <1>8, <1>11, InsideParent, Nothing DEF Loose, Fit, Shape
  <2>2. Inside(t, x) \subseteq Container
    BY <1>1, InsideType
  <2> QED
    BY <1>1, <1>3, <1>4, <2>1, <2>2 DEF Spared, Alike
<1>12. Lost(r) \subseteq Lost(t) \cup {n} /\ Empty(r) \subseteq Empty(t) \cup {n}
  BY <1>1, <1>3, Nothing DEF Lost, Empty, Alike
<1>13. Loose(r, n) /\ r.kids[n] = {} /\ n \notin r.scratch /\ Inside(r, n) = {n}
  BY <1>1, <1>4, <1>8, <1>9, <1>10 DEF Alike, Loose
<1> QED
  BY <1>1, <1>2, <1>3, <1>4, <1>7, <1>11, <1>12, <1>13 DEF r

\* One child of a workspace is wrapped.
WrapOne(t, x, n) == AddChild(Detach(t, x), n, x)

LEMMA WrapOneCalm ==
  ASSUME NEW t \in Tree, NEW x \in Container, NEW n \in Splits
  PROVE  Calm(WrapOne(t, x, n), t)
<1> DEFINE d == Detach(t, x)
<1>1. Calm(d, t) /\ d \in Tree
  BY PlacesCalm, CalmTree
<1> HIDE DEF d
<1>2. Calm(AddChild(d, n, x), d)
  BY <1>1, AddsCalm
<1>3. Calm(AddChild(d, n, x), t)
  BY <1>1, <1>2, CalmOn
<1> QED
  BY <1>3 DEF WrapOne, d

LEMMA WrapOneFit ==
  ASSUME NEW t, Fit(t), NEW x \in Container, t.life[x] = "live", x \notin t.scratch,
         NEW n \in Splits, t.life[n] = "live", n \notin Inside(t, x)
  PROVE  \E v \in Workspaces \cup {None} : Moves(WrapOne(t, x, n), t, x, n, v)
<1> DEFINE d == Detach(t, x)
           r == WrapOne(t, x, n)
<1>1. Moves(d, t, x, None, None) /\ Fit(d) /\ Loose(d, x)
  BY DetachFit
<1> HIDE DEF d
<1>2. d.life = t.life /\ d.scratch = t.scratch /\ Inside(d, x) = Inside(t, x) /\ d \in Tree
  BY <1>1, MovesOut
<1>3. r = AddChild(d, n, x)
  BY DEF WrapOne, d
<1> HIDE DEF r
<1> DEFINE v == d.ws[n]
<1>4. Moves(r, d, x, n, v)
  BY <1>1, <1>2, <1>3, AddChildFit DEF Loose
<1>5. v \in Workspaces \cup {None}
  BY <1>2, TreeTypes, Nothing
<1> HIDE DEF v
<1>6. Moves(r, t, x, n, v)
  BY <1>1, <1>4, MovesOn
<1> QED
  BY <1>5, <1>6 DEF r

LEMMA WrapAllWalk ==
  ASSUME NEW t \in Tree, NEW q \in Seq(Container), NEW n \in Splits
  PROVE  \E f : /\ f[0] = t
                /\ \A i \in 1 .. Len(q) : f[i] = WrapOne(f[i - 1], q[i], n)
                /\ WrapAll(t, q, n) = f[Len(q)]
<1> DEFINE m == Len(q)
           g == [p \in Tree \X (1 .. m) |-> WrapOne(p[1], q[p[2]], n)]
<1>1. m \in Nat /\ \A i \in 1 .. m : q[i] \in Container
  BY LenProperties, ElementOfSeq
<1>2. g \in [Tree \X (1 .. m) -> Tree]
  BY <1>1, WrapOneCalm, CalmTree
<1> HIDE DEF m
<1>3. PICK f : Walk(f, m, Tree, t, g)
  <2> HIDE DEF g
  <2> QED
    BY <1>1, <1>2, FoldExists
<1> DEFINE E(h) == [i \in 0 .. m |-> IF i = 0 THEN t ELSE AddChild(Detach(h[i-1], q[i]), n, q[i])]
           w == CHOOSE h : h = E(h)
<1>4. ASSUME NEW i \in 1 .. m PROVE f[i] = AddChild(Detach(f[i-1], q[i]), n, q[i])
  <2>1. <<f[i - 1], i>> \in Tree \X (1 .. m)
    BY <1>1, <1>3 DEF Walk
  <2> QED
    BY <1>3, <2>1 DEF Walk, WrapOne
<1>5. f = E(f)
  <2>1. f = [i \in 0 .. m |-> f[i]] /\ f[0] = t
    BY <1>3 DEF Walk
  <2>2. \A i \in 0 .. m : f[i] = IF i = 0 THEN t ELSE AddChild(Detach(f[i-1], q[i]), n, q[i])
    <3> SUFFICES ASSUME NEW i \in 0 .. m, i # 0
                 PROVE  f[i] = AddChild(Detach(f[i-1], q[i]), n, q[i])
      BY <2>1
    <3>1. i \in 1 .. m
      BY <1>1
    <3> QED
      BY <1>4, <3>1
  <2>3. [i \in 0 .. m |-> f[i]] = E(f)
    BY <2>2
  <2> QED
    BY <2>1, <2>3
<1>6. w = E(w)
  BY <1>5
<1>7. WrapAll(t, q, n) = w[m]
  BY DEF WrapAll, m
<1> HIDE DEF w
<1>8. w[0] = t /\ \A i \in 1 .. m : w[i] = WrapOne(w[i - 1], q[i], n)
  <2>1. \A i \in 0 .. m : w[i] = E(w)[i]
    BY <1>6
  <2> QED
    BY <1>1, <2>1 DEF WrapOne
<1> QED
  BY <1>7, <1>8 DEF m

LEMMA WrapAllCalm ==
  ASSUME NEW t \in Tree, NEW q \in Seq(Container), NEW n \in Splits
  PROVE  Calm(WrapAll(t, q, n), t)
<1> DEFINE m == Len(q)
<1>1. m \in Nat /\ \A i \in 1 .. m : q[i] \in Container
  BY LenProperties, ElementOfSeq
<1>2. PICK f : /\ f[0] = t
               /\ \A i \in 1 .. m : f[i] = WrapOne(f[i - 1], q[i], n)
               /\ WrapAll(t, q, n) = f[m]
  BY WrapAllWalk
<1> HIDE DEF m
<1> DEFINE G == {i \in 0 .. m : Calm(f[i], t)}
<1>3. 0 \in G
  BY <1>1, <1>2, CalmSame
<1>4. ASSUME NEW i \in 1 .. m, i - 1 \in G PROVE i \in G
  <2>1. Calm(f[i-1], t) /\ f[i-1] \in Tree /\ i \in 0 .. m
    BY <1>1, <1>4, CalmTree
  <2>2. Calm(WrapOne(f[i-1], q[i], n), f[i-1])
    BY <1>1, <2>1, WrapOneCalm
  <2>3. Calm(f[i], t)
    BY <1>2, <2>1, <2>2, CalmOn
  <2> QED
    BY <2>1, <2>3
<1> HIDE DEF G
<1>5. \A i \in 0 .. m : i \in G
  BY <1>1, <1>3, <1>4, Counting
<1> QED
  BY <1>1, <1>2, <1>5 DEF G

\* What is on a workspace, tiled.
LEMMA TilingFacts ==
  ASSUME NEW t, Fit(t), NEW w \in Workspaces, NEW y \in t.tiling[w]
  PROVE  /\ y \in Container /\ t.parent[y] = None /\ t.ws[y] = w /\ t.life[y] = "live"
         /\ y \notin t.scratch
<1>1. y \in Container
  BY TreeTypes DEF Fit
<1>2. t.parent[y] = None /\ t.ws[y] = w /\ y \notin t.floating[w]
  BY <1>1 DEF Fit, Shape, Linked
<1>3. y \notin t.scratch
  BY <1>2, Nothing DEF Fit, Shape, Shelved
<1> QED
  BY <1>1, <1>2, <1>3, PlacedLives, Nothing

RootsApart(t, n) == \A x \in Container \ {n} : n \notin Inside(t, x)

LEMMA RootIsApart ==
  ASSUME NEW t, Fit(t), NEW n \in Container, t.parent[n] = None
  PROVE  RootsApart(t, n)
BY InsideParent, Nothing DEF RootsApart, Fit, Shape

\* The children of w go below the split n, which is in no workspace.
Wrapping(h, t, w, n, i) ==
  /\ Fit(h) /\ Loose(h, n) /\ h.life = t.life /\ h.scratch = t.scratch
  /\ Lost(h) \subseteq Lost(t) /\ Empty(h) \subseteq Empty(t)
  /\ i # 0 => n \notin Empty(h)
  /\ \A y \in t.tiling[w] : h.parent[y] \in {None, n} /\ Inside(h, y) = Inside(t, y)
  /\ \A x \in Container : t.ws[x] # w /\ x # n => Spared(h, t, x)

LEMMA WrappingOn ==
  ASSUME NEW t, Fit(t), NEW w \in Workspaces, NEW n \in Splits, t.life[n] = "live", Loose(t, n),
         NEW y \in t.tiling[w], NEW i \in Nat, i # 0, NEW h, Wrapping(h, t, w, n, i - 1)
  PROVE  Wrapping(WrapOne(h, y, n), t, w, n, i)
<1> DEFINE r == WrapOne(h, y, n)
<1>1. /\ y \in Container /\ t.parent[y] = None /\ t.ws[y] = w /\ t.life[y] = "live"
      /\ y \notin t.scratch
  BY TilingFacts
<1>2. /\ Fit(h) /\ Loose(h, n) /\ h.life = t.life /\ h.scratch = t.scratch
      /\ Lost(h) \subseteq Lost(t) /\ Empty(h) \subseteq Empty(t)
      /\ h.parent[y] \in {None, n} /\ Inside(h, y) = Inside(t, y)
  BY DEF Wrapping
<1>3. n \in Container /\ y # n /\ n # None /\ w # None
  BY <1>1, Nothing DEF Loose
<1>4. \A x \in Container \ {n} : n \notin Inside(h, x)
  BY <1>2, <1>3, RootIsApart DEF RootsApart, Loose
<1>5. PICK v \in Workspaces \cup {None} : Moves(r, h, y, n, v)
  BY <1>1, <1>2, <1>3, <1>4, WrapOneFit
<1> HIDE DEF r
<1>6. /\ Fit(r) /\ r.life = h.life /\ r.scratch = h.scratch
      /\ r.parent[y] = n
      /\ \A x \in Container \ {y} : r.parent[x] = h.parent[x]
      /\ \A x \in Container : x \notin Inside(h, y) => r.ws[x] = h.ws[x]
      /\ Inside(r, y) = Inside(h, y)
      /\ \A x \in Container : n \notin Inside(h, x) => Inside(r, x) \subseteq Inside(h, x)
      /\ Lost(r) \subseteq Lost(h) \cup {y} /\ y \notin Lost(r)
      /\ Empty(r) \subseteq (Empty(h) \cup {h.parent[y]}) \ {n}
  BY <1>1, <1>2, <1>3, <1>5, MovesFit
<1>7. Loose(r, n)
  BY <1>1, <1>2, <1>3, <1>4, <1>6 DEF Loose
<1>8. Empty(r) \subseteq Empty(h) /\ n \notin Empty(r)
  BY <1>2, <1>6, Nothing DEF Empty
<1>9. ASSUME NEW z \in t.tiling[w]
      PROVE  r.parent[z] \in {None, n} /\ Inside(r, z) = Inside(t, z)
  <2>1. h.parent[z] \in {None, n} /\ Inside(h, z) = Inside(t, z)
    BY DEF Wrapping
  <2>2. z \in Container /\ z # n /\ t.parent[z] = None
    BY <1>3, TilingFacts DEF Loose
  <2>3. n \notin Inside(h, z)
    BY <1>4, <2>2
  <2>4. CASE z = y
    BY <1>6, <2>1, <2>4
  <2>5. CASE z # y
    <3>1. Inside(t, z) \cap Inside(t, y) = {}
      BY <1>1, <2>2, <2>5, Apart DEF Fit, Shape
    <3>2. Inside(h, z) \cap Inside(h, y) = {}
      BY <1>2, <2>1, <3>1
    <3>3. Spared(r, h, z)
      BY <1>1, <1>2, <1>5, <2>2, <2>3, <3>2, MovesSpare
    <3> QED
      BY <1>6, <2>1, <2>2, <2>5, <3>3 DEF Spared
  <2> QED
    BY <2>4, <2>5
<1>10. ASSUME NEW x \in Container, t.ws[x] # w, x # n
       PROVE  Spared(r, t, x)
  <2>1. Spared(h, t, x)
    BY <1>10 DEF Wrapping
  <2>2. Inside(h, x) = Inside(t, x)
    BY <2>1 DEF Spared
  <2>3. y \notin Inside(t, x) /\ x \notin Inside(t, y)
    BY <1>1, <1>10, InsideWorkspace DEF Fit, Shape
  <2>4. Inside(h, x) \cap Inside(h, y) = {}
    <3> SUFFICES ASSUME NEW z \in Inside(h, x), z \in Inside(h, y)
                 PROVE  FALSE
      OBVIOUS
    <3>1. x \in Inside(h, y) \/ y \in Inside(h, x)
      BY <1>1, <1>2, Ancestors DEF Fit, Shape
    <3> QED
      BY <1>2, <2>2, <2>3, <3>1
  <2>5. n \notin Inside(h, x)
    BY <1>4, <1>10
  <2>6. Spared(r, h, x)
    BY <1>1, <1>2, <1>5, <2>4, <2>5, MovesSpare
  <2> QED
    BY <2>1, <2>6, SparedOn
<1>11. Lost(r) \subseteq Lost(t) /\ Empty(r) \subseteq Empty(t)
  BY <1>2, <1>6, <1>8
<1>12. Wrapping(r, t, w, n, i)
  BY <1>2, <1>6, <1>7, <1>8, <1>9, <1>10, <1>11 DEF Wrapping
<1> QED
  BY <1>12 DEF r

LEMMA WrapAllFit ==
  ASSUME NEW t, Fit(t), NEW w \in Workspaces, NEW n \in Splits, t.life[n] = "live", Loose(t, n),
         t.tiling[w] # {}
  PROVE  LET r == WrapAll(t, SetToSeq(t.tiling[w]), n)
         IN  /\ Fit(r) /\ Calm(r, t) /\ Loose(r, n) /\ r.life = t.life /\ r.scratch = t.scratch
             /\ Lost(r) \subseteq Lost(t) /\ Empty(r) \subseteq Empty(t) \ {n}
             /\ \A y \in t.tiling[w] : r.parent[y] \in {None, n} /\ Inside(r, y) = Inside(t, y)
             /\ \A x \in Container : t.ws[x] # w /\ x # n => Spared(r, t, x)
<1> DEFINE q == SetToSeq(t.tiling[w])
           m == Len(q)
<1>1. t.tiling[w] \in SUBSET Container /\ t \in Tree
  BY TreeTypes DEF Fit
<1>2. q \in Seq(t.tiling[w]) /\ m # 0
  BY <1>1, SetToSeqIs, FS_Subset, ConstantsOK
<1> HIDE DEF q
<1>3. q \in Seq(Container) /\ m \in Nat /\ \A i \in 1 .. m : q[i] \in t.tiling[w]
  BY <1>1, <1>2, LenProperties, ElementOfSeq
<1>4. PICK f : /\ f[0] = t
               /\ \A i \in 1 .. m : f[i] = WrapOne(f[i - 1], q[i], n)
               /\ WrapAll(t, q, n) = f[m]
  BY <1>1, <1>3, WrapAllWalk
<1>5. Calm(WrapAll(t, q, n), t)
  BY <1>1, <1>3, WrapAllCalm
<1> HIDE DEF m
<1> DEFINE G == {i \in 0 .. m : Wrapping(f[i], t, w, n, i)}
<1>6. 0 \in G
  <2>1. \A y \in t.tiling[w] : t.parent[y] = None
    BY TilingFacts
  <2>2. Wrapping(t, t, w, n, 0)
    BY <2>1, SparedSame DEF Wrapping
  <2> QED
    BY <1>3, <1>4, <2>2
<1>7. ASSUME NEW i \in 1 .. m, i - 1 \in G PROVE i \in G
  <2>1. Wrapping(f[i-1], t, w, n, i - 1) /\ i \in Nat /\ i # 0 /\ i \in 0 .. m
    BY <1>3, <1>7
  <2>2. Wrapping(WrapOne(f[i-1], q[i], n), t, w, n, i)
    BY <1>3, <2>1, WrappingOn
  <2> QED
    BY <1>4, <2>1, <2>2
<1> HIDE DEF G
<1>8. \A i \in 0 .. m : i \in G
  BY <1>3, <1>6, <1>7, Counting
<1>9. Wrapping(f[m], t, w, n, m)
  BY <1>3, <1>8 DEF G
<1> QED
  BY <1>2, <1>4, <1>5, <1>9 DEF Wrapping, q

LEMMA WrapChildrenTame ==
  ASSUME NEW t \in Tree, NEW w \in Workspaces, NEW n \in Splits
  PROVE  Tame(WrapChildren(t, w, n), t)
<1> DEFINE a == Create(t, n, t.layout[w])
           S == t.tiling[w]
           q == SetToSeq(S)
           b == WrapAll(a, q, n)
           d == InTiling(b, w, n)
           x == t.fs[w]
           r == [d EXCEPT !.fs[w] = x]
<1>1. t.layout[w] \in LayoutOf /\ S \in SUBSET Container /\ x \in Container \cup {None}
      /\ n \in Container
  BY TreeTypes, Nothing DEF Tree, LayoutOf
<1>2. Tame(a, t) /\ a \in Tree
  BY <1>1, CreateFields, TameTree
<1> HIDE DEF a, S, x
<1>3. q \in Seq(S)
  BY <1>1, SetToSeqIs, FS_Subset, ConstantsOK
<1> HIDE DEF q
<1>4. q \in Seq(Container)
  BY <1>1, <1>3
<1>5. Tame(b, a) /\ b \in Tree
  BY <1>2, <1>4, WrapAllCalm, CalmTame, TameTree
<1> HIDE DEF b
<1>6. Tame(d, b) /\ d \in Tree
  BY <1>1, <1>5, PlacesCalm, CalmTame, TameTree
<1> HIDE DEF d
<1>7. Tame(r, d)
  BY <1>1, <1>6, FieldQuiet, QuietTame
<1>8. Tame(r, t)
  BY <1>2, <1>5, <1>6, <1>7, TameOn
<1> QED
  BY <1>8 DEF WrapChildren, r, d, b, q, S, a, x

\* The children of a workspace are below a new split there.
LEMMA WrapChildrenFit ==
  ASSUME NEW t, Fit(t), NEW w \in Workspaces, NEW n \in Splits, t.life[n] = "unused",
         t.tiling[w] # {}
  PROVE  LET r == WrapChildren(t, w, n)
         IN  /\ Keeps(r, t) /\ r.parent[n] = None /\ r.ws[n] = w /\ r.life[n] = "live"
             /\ n \notin r.scratch /\ r.scratch = t.scratch
             /\ \A y \in t.tiling[w] : \A x \in Inside(t, y) : r.ws[x] # None
             /\ \A x \in Container : t.ws[x] # w /\ x # n => Spared(r, t, x)
             /\ \A x \in Container \ {n} : r.life[x] = t.life[x]
<1> DEFINE a == Create(t, n, t.layout[w])
           b == WrapAll(a, SetToSeq(t.tiling[w]), n)
           d == InTiling(b, w, n)
           y == t.fs[w]
           r == [d EXCEPT !.fs[w] = y]
<1>1. t.layout[w] \in LayoutOf /\ y \in Container \cup {None} /\ n \in Container
  BY TreeTypes, Nothing DEF Tree, LayoutOf, Fit
<1>2. /\ Fit(a) /\ Tame(a, t) /\ Alike(a, t) /\ a.scratch = t.scratch
      /\ a.life[n] = "live" /\ \A x \in Container \ {n} : a.life[x] = t.life[x]
      /\ Lost(a) \subseteq Lost(t) \cup {n} /\ Empty(a) \subseteq Empty(t) \cup {n}
      /\ Loose(a, n) /\ n \notin a.scratch
      /\ \A x \in Container : x # n => Spared(a, t, x)
  BY <1>1, CreateFit
<1> HIDE DEF a, y
<1>3. a.tiling = t.tiling /\ a.ws = t.ws
  BY <1>2 DEF Alike
<1>4. /\ Fit(b) /\ Calm(b, a) /\ Loose(b, n) /\ b.life = a.life /\ b.scratch = a.scratch
      /\ Lost(b) \subseteq Lost(a) /\ Empty(b) \subseteq Empty(a) \ {n}
      /\ \A z \in a.tiling[w] : b.parent[z] \in {None, n} /\ Inside(b, z) = Inside(a, z)
      /\ \A x \in Container : a.ws[x] # w /\ x # n => Spared(b, a, x)
  BY <1>2, <1>3, WrapAllFit
<1> HIDE DEF b
<1>5. r = WrapChildren(t, w, n)
  BY DEF WrapChildren, b, a, y
<1>6. d \in Tree
  BY <1>1, <1>4, PlacesCalm, CalmTree DEF Fit
<1>7. Quiet(r, d)
  <2> HIDE DEF d
  <2> QED
    BY <1>1, <1>6, FieldQuiet
<1> HIDE DEF d, r
<1>9. Moves(d, b, n, None, w)
  BY <1>1, <1>2, <1>4, InTilingMoves DEF d, Moves, MayMove
<1>10. /\ Fit(d) /\ Calm(d, b) /\ d.life = b.life /\ d.scratch = b.scratch
       /\ d.parent[n] = None /\ d.ws[n] = w
       /\ \A x \in Container : /\ x \in Inside(b, n) => d.ws[x] = w
                               /\ x \notin Inside(b, n) => d.ws[x] = b.ws[x]
       /\ Lost(d) \subseteq Lost(b) \cup {n} /\ n \notin Lost(d)
       /\ Empty(d) \subseteq Empty(b) \cup {b.parent[n]}
  BY <1>1, <1>4, <1>9, MovesOut, Nothing
<1>11. Fit(r) /\ Tame(r, d) /\ Lost(r) = Lost(d) /\ Empty(r) = Empty(d) /\ Same(r, d)
  BY <1>7, <1>10, QuietFit, QuietTame DEF Quiet
<1>12. Lost(r) \subseteq Lost(t) /\ Empty(r) \subseteq Empty(t)
  BY <1>2, <1>4, <1>10, <1>11, Nothing DEF Loose, Empty
<1>13. Tame(r, t)
  BY <1>2, <1>4, <1>10, <1>11, CalmTame, TameOn
<1>14. ASSUME NEW x \in Container, t.ws[x] # w, x # n
       PROVE  Spared(r, t, x)
  <2>1. Spared(a, t, x) /\ Spared(b, a, x)
    BY <1>2, <1>3, <1>4, <1>14
  <2>2. Spared(b, t, x)
    BY <2>1, SparedOn
  <2>3. Inside(b, x) \cap Inside(b, n) = {}
    <3>0. b.parent[n] = None /\ b.ws[n] = None /\ n \notin Inside(b, x)
      BY <1>1, <1>4, <1>14, RootIsApart DEF RootsApart, Loose
    <3>1. x \notin Inside(b, n)
      <4> SUFFICES ASSUME x \in Inside(b, n) PROVE FALSE
        OBVIOUS
      <4>1. b.parent[x] # None /\ b.parent[x] \in Inside(b, n) /\ b.parent[x] \in Splits
        BY <1>1, <1>4, <1>14, InsideParent, Nothing DEF Fit, Shape
      <4>2. x \in Inside(t, x) /\ t \in Tree /\ Linked(t)
        BY <1>14, InsideType DEF Fit, Shape
      <4>3. b.parent[x] = t.parent[x] /\ b.ws[x] = t.ws[x]
        BY <2>2, <4>2 DEF Spared
      <4> DEFINE top == Toplevel(t, x)
      <4>4. top \in Container /\ t.parent[top] = None /\ x \in Inside(t, top) /\ t.ws[top] = t.ws[x]
        BY <1>14, ToplevelPlace
      <4> HIDE DEF top
      <4>5. top # n
        <5>1. n \notin Inside(t, n) \/ Inside(t, n) = {n}
          <6>1. Inside(a, n) = Inside(t, n)
            BY <1>2, AlikeInside
          <6> QED
            BY <1>1, CreateFit
        <5> QED
          BY <1>1, <1>14, <4>4, <5>1, InsideType DEF Fit
      <4>6. Spared(b, t, top)
        BY <1>2, <1>3, <1>4, <1>14, <4>4, <4>5, SparedOn
      <4>7. x \in Inside(b, top) /\ b.parent[top] = None /\ top \in Inside(t, top)
        BY <4>4, <4>6, InsideType DEF Spared, Fit
      <4>8. top \in Inside(b, n) \/ n \in Inside(b, top)
        BY <1>1, <1>4, <4>4, <4>7, Ancestors DEF Fit, Shape
      <4> QED
        BY <1>1, <1>4, <4>4, <4>5, <4>7, <4>8, InsideParent, <3>0, Nothing DEF Fit, Shape
    <3> QED
      BY <1>1, <1>4, <1>14, <3>0, <3>1, Ancestors DEF Fit, Shape
  <2> DEFINE k == None
  <2>4. k \in Splits \cup {None} /\ Moves(d, b, n, k, w) /\ k \notin Inside(b, x)
    BY <1>4, <1>9, <1>14, InsideType, Nothing DEF Fit
  <2> HIDE DEF k
  <2>5. Spared(d, b, x)
    BY <1>1, <1>4, <1>14, <2>3, <2>4, MovesSpare
  <2>6. Spared(r, d, x)
    BY <1>7, <1>10, QuietSpared
  <2> QED
    BY <2>2, <2>5, <2>6, SparedOn
<1>15. /\ r.parent[n] = None /\ r.ws[n] = w /\ r.life[n] = "live" /\ n \notin r.scratch
       /\ \A x \in Container \ {n} : r.life[x] = t.life[x]
  BY <1>2, <1>4, <1>10, <1>11 DEF Same
<1>16. r.scratch = t.scratch /\ r.ws = d.ws
  BY <1>2, <1>4, <1>10, <1>11 DEF Same
<1>17. ASSUME NEW z \in t.tiling[w], NEW x \in Inside(t, z)
       PROVE  r.ws[x] # None
  <2>1. /\ z \in Container /\ t.parent[z] = None /\ t.ws[z] = w /\ t.life[z] = "live"
        /\ z \notin t.scratch
    BY TilingFacts
  <2>2. x \in Container /\ z # n /\ w # None
    BY <2>1, InsideType, Nothing DEF Fit
  <2>3. Inside(b, z) = Inside(t, z) /\ b.parent[z] \in {None, n}
    BY <1>2, <1>3, <1>4, AlikeInside
  <2>4. CASE b.parent[z] = n
    <3>1. z \in Inside(b, n)
      BY <1>1, <1>4, <2>1, <2>4, InsideParentOf, Nothing DEF Fit, Shape
    <3>2. x \in Inside(b, n)
      BY <1>1, <1>4, <2>1, <2>3, <3>1, InsideTrans DEF Fit
    <3> QED
      BY <1>10, <1>16, <2>2, <3>2
  <2>5. CASE b.parent[z] = None
    <3>1. z \notin Lost(b)
      BY <1>2, <1>4, <2>1, <2>2 DEF Lost
    <3>2. b.life[z] = "live" /\ z \notin b.scratch
      BY <1>2, <1>4, <2>1, <2>2
    <3>3. b.ws[z] # None
      BY <2>1, <2>5, <3>1, <3>2 DEF Lost
    <3>4. b.ws[x] = b.ws[z]
      BY <1>4, <2>1, <2>3, InsideWorkspace DEF Fit, Shape
    <3> QED
      BY <1>10, <1>16, <2>2, <3>3, <3>4
  <2> QED
    BY <2>3, <2>4, <2>5
<1> QED
  BY <1>5, <1>11, <1>12, <1>13, <1>14, <1>15, <1>16, <1>17 DEF Keeps

(***************************************************************************)
(* Replacing and splitting.                                                *)
(***************************************************************************)
LEMMA ShownAndRemovedTame ==
  ASSUME NEW t \in Tree, NEW c \in Container, NEW w \in Workspaces \cup {None}
  PROVE  Tame(ShownAndRemoved(t, c, w), t)
<1> DEFINE u == ScratchpadShow(t, c, w)
<1>1. Tame(u, t) /\ u \in Tree
  BY ScratchpadShowTame, TameTree
<1> HIDE DEF u
<1>2. Tame(ScratchpadRemove(u, c), t)
  BY <1>1, ScratchpadRemoveTame, TameOn
<1> QED
  BY <1>2, TameSame DEF ShownAndRemoved, u

LEMMA TakePlaceTame ==
  ASSUME NEW t \in Tree, NEW c \in Container, NEW by \in Container
  PROVE  Tame(TakePlace(t, c, by), t)
<1> DEFINE u == AddSibling(t, c, by)
<1>1. Tame(u, t) /\ u \in Tree
  BY AddsCalm, CalmTame, TameTree
<1> HIDE DEF u
<1>2. Tame(Detach(u, c), t)
  BY <1>1, PlacesCalm, CalmTame, TameOn
<1> QED
  BY <1>2, TameSame DEF TakePlace, u

\* Fullscreen on all outputs is taken only from one that has it.
LEMMA TakeModeCarries ==
  ASSUME NEW t \in Tree, NEW by \in Container, NEW mode \in Mode
  PROVE  /\ Hushed(TakeMode(t, mode, by), t)
         /\ mode # "global" => Quiet(TakeMode(t, mode, by), t)
BY EnterWorkspaceQuiet, EnterGlobalHushed, QuietHushed, QuietSame DEF TakeMode, Mode

LEMMA ReplaceTame ==
  ASSUME NEW t \in Tree, NEW c \in Container, NEW by \in Container,
         NEW w \in Workspaces \cup {None}
  PROVE  Tame(Replace(t, c, by, w), t)
<1> DEFINE a == DisableIfFullscreen(t, c)
           b == ShownAndRemoved(a, c, w)
           d == TakePlace(b, c, by)
           e == TakeScratchpad(d, c \in t.scratch, by, t.ws[c])
           r == TakeMode(e, t.mode[c], by)
<1>1. Tame(a, t) /\ a \in Tree
  BY DisableIfQuiet, QuietTame, TameTree
<1> HIDE DEF a
<1>2. Tame(b, a) /\ b \in Tree
  BY <1>1, ShownAndRemovedTame, TameTree
<1> HIDE DEF b
<1>3. Tame(d, b) /\ d \in Tree
  BY <1>2, TakePlaceTame, TameTree
<1> HIDE DEF d
<1>4. t.ws[c] \in Workspaces \cup {None} /\ t.mode[c] \in Mode
  BY TreeTypes
<1>5. Tame(e, d)
  BY <1>3, <1>4, ScratchpadAddTame, TameSame DEF TakeScratchpad
<1>6. Tame(e, t) /\ e \in Tree
  BY <1>1, <1>2, <1>3, <1>5, TameOn, TameTree
<1> HIDE DEF e
<1>7. Hushed(r, e) /\ (t.mode[c] # "global" => Quiet(r, e))
  BY <1>4, <1>6, TakeModeCarries
<1> HIDE DEF r
<1>8. Carries(r, t)
  BY <1>6, <1>7, CarriesOn DEF Hushed, Tame
<1>9. Local(t) => Local(r)
  BY <1>6, <1>7 DEF Tame, Quiet, Local
<1>10. Tame(r, t)
  BY <1>8, <1>9 DEF Tame
<1> QED
  BY <1>10 DEF Replace, r, e, d, b, a

\* A container of a workspace is no longer in the scratchpad, but there.
LEMMA ShownAndRemovedFit ==
  ASSUME NEW t, Fit(t), NEW c \in Container, t.ws[c] # None,
         NEW w \in Workspaces \cup {None}, ~Undefined(ShownAndRemoved(t, c, w))
  PROVE  LET r == ShownAndRemoved(t, c, w)
         IN  /\ Keeps(r, t) /\ r.life = t.life /\ r.scratch = t.scratch \ {c}
             /\ r.ws[c] # None
             /\ \A y \in Container : r.parent[y] = t.parent[y]
             /\ \A y \in Container : Inside(r, y) \subseteq Inside(t, y)
             /\ \A y \in Container : Inside(t, y) \cap Inside(t, c) = {} => Spared(r, t, y)
<1>1. CASE c \notin t.scratch
  <2>1. ShownAndRemoved(t, c, w) = t
    BY <1>1 DEF ShownAndRemoved
  <2> QED
    BY <1>1, <2>1, KeepsSame, SparedSame
<1>2. CASE c \in t.scratch
  <2> DEFINE u == ScratchpadShow(t, c, w)
             r == ScratchpadRemove(u, c)
  <2>1. ShownAndRemoved(t, c, w) = r
    BY <1>2 DEF ShownAndRemoved
  <2>2. Tame(u, t) /\ u \in Tree
    BY ScratchpadShowTame, TameTree DEF Fit
  <2> HIDE DEF u
  <2>3. Tame(r, u)
    BY <2>2, ScratchpadRemoveTame
  <2> HIDE DEF r
  <2>4. ~Undefined(u)
    BY <2>1, <2>3, TameDefined
  <2>5. t.life[c] = "live" /\ t.parent[c] = None
    BY <1>2, PlacedLives
  <2>6. /\ Keeps(u, t) /\ u.life = t.life /\ u.scratch = t.scratch
        /\ \A y \in Container : u.parent[y] = t.parent[y]
        /\ w = None => u = t
        /\ w # None => /\ u.ws[c] = w
                       /\ \A y \in Container : Inside(u, y) \subseteq Inside(t, y)
                       /\ \A y \in Container : Inside(t, y) \cap Inside(t, c) = {} => Spared(u, t, y)
    BY <2>4, <2>5, ScratchpadShowFit DEF u
  <2>7. u.ws[c] # None /\ \A y \in Container : Inside(u, y) \subseteq Inside(t, y)
    BY <2>6
  <2>8. /\ Fit(r) /\ Tame(r, u) /\ r.scratch = u.scratch \ {c}
        /\ r.life = u.life /\ Alike(r, u)
        /\ Lost(r) \subseteq Lost(u) \cup {c} /\ Empty(r) = Empty(u)
        /\ u.ws[c] # None => c \notin Lost(r)
        /\ \A x : Inside(r, x) = Inside(u, x)
        /\ \A x : c \notin Inside(u, x) => Spared(r, u, x)
    BY <2>6, ScratchpadRemoveFit DEF r, Keeps
  <2>9. Keeps(r, u)
    BY <2>7, <2>8 DEF Keeps
  <2>10. Keeps(r, t)
    BY <2>6, <2>9, KeepsOn
  <2>11. ASSUME NEW y \in Container, Inside(t, y) \cap Inside(t, c) = {}
         PROVE  Spared(r, t, y)
    <3>1. Spared(u, t, y)
      BY <2>6, <2>11, SparedSame
    <3>2. c \notin Inside(u, y)
      BY <2>7, <2>11, InsideType DEF Fit
    <3> QED
      BY <2>8, <3>1, <3>2, SparedOn
  <2>12. /\ r.ws[c] # None /\ r.life = t.life /\ r.scratch = t.scratch \ {c}
         /\ \A y \in Container : r.parent[y] = t.parent[y]
         /\ \A y \in Container : Inside(r, y) \subseteq Inside(t, y)
    BY <2>6, <2>7, <2>8 DEF Alike
  <2> QED
    BY <2>1, <2>10, <2>11, <2>12
<1> QED
  BY <1>1, <1>2

\* What a move leaves, under one name.
Lands(r, t, c, p, w) ==
  /\ Fit(r) /\ Calm(r, t) /\ r \in Tree
  /\ r.life = t.life /\ r.scratch = t.scratch
  /\ r.parent[c] = p /\ r.ws[c] = w
  /\ \A x \in Container \ {c} : r.parent[x] = t.parent[x]
  /\ \A x \in Container : /\ x \in Inside(t, c) => r.ws[x] = w
                          /\ x \notin Inside(t, c) => r.ws[x] = t.ws[x]
  /\ Inside(r, c) = Inside(t, c)
  /\ \A x \in Container : p \notin Inside(t, x) => Inside(r, x) \subseteq Inside(t, x)
  /\ Lost(r) \subseteq Lost(t) \cup {c}
  /\ p # None \/ w # None \/ c \in t.scratch => c \notin Lost(r)
  /\ Empty(r) \subseteq (Empty(t) \cup {t.parent[c]}) \ {p}

LEMMA MovesLands ==
  ASSUME NEW t, Fit(t), NEW c \in Container, NEW r, NEW p \in Splits \cup {None}, NEW w,
         Moves(r, t, c, p, w)
  PROVE  Lands(r, t, c, p, w)
BY MovesFit DEF Lands

\* A new container, or a child, takes the place of a container.
LEMMA TakePlaceFit ==
  ASSUME NEW t, Fit(t), NEW c \in Container, t.ws[c] # None,
         NEW by \in Container, by # c, t.life[by] = "live", by \notin t.scratch,
         c \notin Inside(t, by), Loose(t, by) \/ t.parent[by] = c,
         ~Undefined(TakePlace(t, c, by))
  PROVE  LET r == TakePlace(t, c, by)
         IN  /\ Fit(r) /\ Calm(r, t) /\ r.life = t.life /\ r.scratch = t.scratch
             /\ Loose(r, c) /\ by \notin Inside(r, c)
             /\ r.parent[by] = t.parent[c] /\ r.ws[by] # None
             /\ Lost(r) \subseteq (Lost(t) \cup {c}) \ {by}
             /\ Empty(r) \subseteq Empty(t) \cup {t.parent[by]}
             /\ c \in Splits => r.kids[c] \subseteq t.kids[c] \ {by}
             /\ Inside(r, by) \subseteq Inside(t, by) /\ Inside(r, c) \subseteq Inside(t, c)
             /\ \A x \in Container : Inside(t, x) \cap (Inside(t, c) \cup Inside(t, by)) = {}
                  => Spared(r, t, x)
<1> DEFINE m == AddSibling(t, c, by)
           r == Detach(m, c)
           p == t.parent[c]
           v == t.ws[c]
<1>1. TakePlace(t, c, by) = r
  BY DEF TakePlace
<1>2. t \in Tree /\ Linked(t) /\ Rooted(t) /\ p \in Splits \cup {None} /\ v # None
      /\ (p # None => p \notin Inside(t, c)) /\ c \in Inside(t, c)
  BY TreeTypes, PlacedLives, InsideType DEF Fit, Shape
<1>3. t.parent[by] # None => t.ws[by] # None
  BY <1>2, Nothing DEF Fit, Shape, Together, Loose
<1>4. Calm(m, t) /\ m \in Tree
  BY <1>2, AddsCalm, CalmTree
<1>5. Calm(r, m)
  <2> HIDE DEF m
  <2> QED
    BY <1>4, PlacesCalm
<1> HIDE DEF r
<1>6. ~Undefined(m)
  <2> HIDE DEF m
  <2> QED
    BY <1>1, <1>5, CalmTame, TameDefined
<1>7. Moves(m, t, by, p, v)
  BY <1>3, <1>6, AddSiblingFit
<1> HIDE DEF m, p, v
<1>8. /\ Fit(m) /\ m.life = t.life /\ m.scratch = t.scratch
      /\ m.parent[by] = p /\ m.ws[by] = v /\ Inside(m, by) = Inside(t, by)
      /\ \A x \in Container \ {by} : m.parent[x] = t.parent[x]
      /\ \A x \in Container : p \notin Inside(t, x) => Inside(m, x) \subseteq Inside(t, x)
      /\ Lost(m) \subseteq Lost(t) \cup {by} /\ by \notin Lost(m)
      /\ Empty(m) \subseteq (Empty(t) \cup {t.parent[by]}) \ {p}
  <2>1. Moves(m, t, by, p, v) /\ p \in Splits \cup {None}
    BY <1>2, <1>7
  <2>2. Lands(m, t, by, p, v)
    BY <2>1, MovesLands
  <2> QED
    BY <1>2, <2>2 DEF Lands
<1>9. Moves(r, m, c, None, None) /\ Fit(r) /\ Loose(r, c)
  BY <1>8, DetachFit DEF r
<1>10. /\ r.life = m.life /\ r.scratch = m.scratch /\ r \in Tree
       /\ \A x \in Container \ {c} : r.parent[x] = m.parent[x]
       /\ \A x \in Container : x \notin Inside(m, c) => r.ws[x] = m.ws[x]
       /\ Inside(r, c) = Inside(m, c) /\ Inside(r, by) \subseteq Inside(m, by)
       /\ Lost(r) \subseteq Lost(m) \cup {c}
       /\ Empty(r) \subseteq Empty(m) \cup {m.parent[c]}
  BY <1>8, <1>9, MovesOut
<1>11. p \notin Inside(t, c)
  BY <1>2, InsideType, Nothing
<1>12. Inside(m, c) \subseteq Inside(t, c)
  BY <1>8, <1>11
<1>13. by \notin Inside(m, c)
  <2> SUFFICES ASSUME by \in Inside(m, c) PROVE FALSE
    OBVIOUS
  <2>1. m.parent[by] \in Inside(m, c)
    BY <1>8, InsideParent DEF Fit, Shape
  <2> QED
    BY <1>8, <1>11, <1>12, <2>1
<1>14. r.parent[by] = p /\ r.ws[by] = v
  BY <1>8, <1>10, <1>13
<1>15. Lost(r) \subseteq (Lost(t) \cup {c}) \ {by}
  BY <1>2, <1>8, <1>10, <1>14 DEF Lost
<1>16. Empty(r) \subseteq Empty(t) \cup {t.parent[by]}
  <2>1. m.parent[c] = p
    BY <1>8 DEF p
  <2>2. p \notin Empty(r)
    <3> SUFFICES ASSUME p \in Splits, r.kids[p] = {} PROVE FALSE
      BY DEF Empty
    <3>1. by \in r.kids[p]
      BY <1>9, <1>14 DEF Fit, Shape, Linked
    <3> QED
      BY <3>1
  <2> QED
    BY <1>8, <1>10, <2>1, <2>2
<1>17. ASSUME c \in Splits
       PROVE  r.kids[c] \subseteq t.kids[c] \ {by}
  <2>1. r.kids[c] \subseteq Container /\ c # None
    BY <1>10, <1>17, TreeTypes, Nothing
  <2>2. ASSUME NEW x \in r.kids[c] PROVE x \in t.kids[c] \ {by}
    <3>1. x \in Container /\ r.parent[x] = c
      BY <1>9, <1>17, <2>1 DEF Fit, Shape, Linked
    <3>2. x # c
      BY <1>9, <2>1, <3>1 DEF Loose
    <3>3. x # by
      BY <1>2, <1>11, <1>14, <3>1
    <3>4. t.parent[x] = c
      BY <1>8, <1>10, <3>1, <3>2, <3>3
    <3> QED
      BY <1>2, <1>17, <3>1, <3>3, <3>4 DEF Linked
  <2> QED
    BY <2>2
<1>18. ASSUME NEW x \in Container, Inside(t, x) \cap (Inside(t, c) \cup Inside(t, by)) = {}
       PROVE  Spared(r, t, x)
  <2>1. p \notin Inside(t, x)
    BY <1>2, <1>18, InsideChild DEF p
  <2>2. Spared(m, t, x)
    BY <1>2, <1>7, <1>18, <2>1, MovesSpare
  <2>3. Inside(m, x) = Inside(t, x)
    BY <2>2 DEF Spared
  <2> DEFINE k == None
  <2>4. k \in Splits \cup {None} /\ Moves(r, m, c, k, None) /\ k \notin Inside(m, x)
    BY <1>4, <1>9, InsideType, Nothing
  <2> HIDE DEF k
  <2>5. Spared(r, m, x)
    BY <1>8, <1>12, <1>18, <2>3, <2>4, MovesSpare
  <2> QED
    BY <2>2, <2>5, SparedOn
<1>19. Calm(r, t)
  BY <1>4, <1>5, CalmOn
<1>19a. Inside(r, by) \subseteq Inside(t, by)
  <2>1. Inside(m, by) = Inside(t, by)
    BY <1>8
  <2>2. Inside(r, by) \subseteq Inside(m, by)
    BY <1>10
  <2> QED
    BY <2>1, <2>2
<1>20. r.life = t.life /\ r.scratch = t.scratch /\ by \notin Inside(r, c)
       /\ Inside(r, by) \subseteq Inside(t, by) /\ Inside(r, c) \subseteq Inside(t, c)
  BY <1>8, <1>10, <1>12, <1>13, <1>19a
<1>21. Fit(r) /\ Loose(r, c) /\ r.parent[by] = t.parent[c] /\ r.ws[by] # None
  BY <1>2, <1>9, <1>14 DEF p
<1> QED
  BY <1>1, <1>15, <1>16, <1>17, <1>18, <1>19, <1>20, <1>21

\* Into the scratchpad, for one that was.
LEMMA TakeScratchpadFit ==
  ASSUME NEW t, Fit(t), NEW c \in Container, NEW by \in Container, by # c,
         Loose(t, c), t.ws[by] # None, by \notin t.scratch, t.life[by] = "live",
         NEW in \in BOOLEAN, in => t.parent[by] = None,
         NEW w \in Workspaces, ~Undefined(TakeScratchpad(t, in, by, w))
  PROVE  LET r == TakeScratchpad(t, in, by, w)
         IN  /\ Keeps(r, t) /\ r.life[by] = "live" /\ r.ws[by] # None
             /\ ~in => r = t
             /\ by \notin Inside(t, c) => by \notin Inside(r, c) /\ Spared(r, t, c)
             /\ \A x \in Container : Inside(t, x) \cap Inside(t, by) = {} => Spared(r, t, x)
<1>1. CASE ~in
  BY <1>1, KeepsSame, SparedSame DEF TakeScratchpad
<1>2. CASE in
  <2> DEFINE r == ScratchpadAdd(t, by, w)
  <2>1. TakeScratchpad(t, in, by, w) = r
    BY <1>2 DEF TakeScratchpad
  <2>2. /\ Keeps(r, t) /\ r.life[by] = "live" /\ r.parent[by] = None
        /\ r.ws[by] = w /\ Inside(r, by) = Inside(t, by)
        /\ \A x \in Container : Inside(t, x) \cap Inside(t, by) = {} => Spared(r, t, x)
    BY <2>1, ScratchpadAddFit
  <2> HIDE DEF r
  <2>3. Inside(t, c) \cap Inside(t, by) = {}
    BY <1>2, Apart DEF Loose, Fit, Shape
  <2>4. by \notin Inside(r, c)
    BY <2>2, RootIsApart DEF RootsApart, Keeps
  <2> QED
    BY <1>2, <2>1, <2>2, <2>3, <2>4, Nothing
<1> QED
  BY <1>1, <1>2

\* What container_replace leaves: by where c was, and c out of the tree.
Replaced(r, t, c, by) ==
  /\ Fit(r) /\ Tame(r, t) /\ Loose(r, c) /\ c \notin r.scratch /\ r.life[c] = "live"
  /\ r.life[by] = "live" /\ r.ws[by] # None /\ by \notin Inside(r, c)
  /\ c \notin t.scratch => r.parent[by] = t.parent[c]
  /\ Lost(r) \subseteq (Lost(t) \cup {c}) \ {by}
  /\ Empty(r) \subseteq Empty(t) \cup {t.parent[by]}
  /\ c \in Splits => r.kids[c] \subseteq t.kids[c] \ {by}
  /\ Inside(r, c) \subseteq Inside(t, c)
  /\ \A x \in Container : Inside(t, x) \cap (Inside(t, c) \cup Inside(t, by)) = {}
       => Spared(r, t, x)

LEMMA ReplaceFit ==
  ASSUME NEW t, Fit(t), NEW c \in Container, t.ws[c] # None,
         NEW by \in Container, by # c, t.life[by] = "live", by \notin t.scratch,
         c \notin Inside(t, by), Loose(t, by) \/ t.parent[by] = c,
         NEW w \in Workspaces \cup {None}, ~Undefined(Replace(t, c, by, w))
  PROVE  Replaced(Replace(t, c, by, w), t, c, by)
<1> DEFINE a == DisableIfFullscreen(t, c)
           b == ShownAndRemoved(a, c, w)
           d == TakePlace(b, c, by)
           in == c \in t.scratch
           v == t.ws[c]
           mode == t.mode[c]
           e == TakeScratchpad(d, in, by, v)
           r == TakeMode(e, mode, by)
<1>1. Replace(t, c, by, w) = r
  BY DEF Replace
<1>2. Quiet(a, t) /\ a \in Tree /\ t \in Tree /\ v \in Workspaces /\ mode \in Mode /\ mode # "global"
  BY DisableIfQuiet, QuietTree, TreeTypes DEF Fit, Local
<1> HIDE DEF a
<1>3. Tame(b, a) /\ b \in Tree
  BY <1>2, ShownAndRemovedTame, TameTree
<1> HIDE DEF b
<1>4. Tame(d, b) /\ d \in Tree
  BY <1>3, TakePlaceTame, TameTree
<1> HIDE DEF d
<1>5. Tame(e, d) /\ e \in Tree
  <2>1. Tame(e, d)
    BY <1>2, <1>4, ScratchpadAddTame, TameSame DEF TakeScratchpad
  <2> QED
    BY <2>1, TameTree
<1> HIDE DEF e
<1>6. Quiet(r, e)
  BY <1>2, <1>5, TakeModeCarries
<1> HIDE DEF r
<1>7. ~Undefined(e)
  BY <1>1, <1>6, QuietTame, TameDefined
<1>8. ~Undefined(d)
  BY <1>5, <1>7, TameDefined
<1>9. ~Undefined(b)
  BY <1>4, <1>8, TameDefined
<1>10. /\ Keeps(a, t) /\ a.life = t.life /\ a.parent = t.parent /\ a.ws = t.ws
       /\ a.scratch = t.scratch /\ a.kids = t.kids
       /\ \A x : Inside(a, x) = Inside(t, x) /\ Spared(a, t, x)
  BY <1>2, QuietKeeps, QuietFit, QuietSpared DEF Quiet, Same
<1>11. /\ Keeps(b, a) /\ b.life = a.life /\ b.scratch = a.scratch \ {c}
       /\ b.ws[c] # None
       /\ \A y \in Container : b.parent[y] = a.parent[y]
       /\ \A y \in Container : Inside(b, y) \subseteq Inside(a, y)
       /\ \A y \in Container : Inside(a, y) \cap Inside(a, c) = {} => Spared(b, a, y)
  BY <1>9, <1>10, ShownAndRemovedFit DEF b, Keeps
<1>12. Fit(b) /\ b.life[by] = "live" /\ by \notin b.scratch /\ c \notin b.scratch
       /\ c \notin Inside(b, by)
  BY <1>10, <1>11 DEF Keeps
<1>13. b.parent[by] = t.parent[by] /\ b.parent[c] = t.parent[c]
  BY <1>10, <1>11
<1>14. Loose(b, by) \/ b.parent[by] = c
  <2>1. CASE t.parent[by] = c
    BY <1>13, <2>1
  <2>2. CASE Loose(t, by)
    <3>1. by \notin Inside(t, c)
      BY <2>2, RootIsApart DEF RootsApart, Loose
    <3>2. Inside(t, by) \cap Inside(t, c) = {}
      BY <1>2, <3>1, Ancestors DEF Fit, Shape
    <3>3. Spared(b, a, by)
      BY <1>10, <1>11, <3>2
    <3>4. by \in Inside(a, by)
      BY <1>2, InsideType
    <3>5. b.ws[by] = t.ws[by]
      BY <1>10, <3>3, <3>4 DEF Spared
    <3> QED
      BY <1>13, <2>2, <3>5 DEF Loose
  <2> QED
    BY <2>1, <2>2
<1>15. /\ Fit(d) /\ Calm(d, b) /\ d.life = b.life /\ d.scratch = b.scratch
       /\ Loose(d, c) /\ by \notin Inside(d, c)
       /\ d.parent[by] = b.parent[c] /\ d.ws[by] # None
       /\ Lost(d) \subseteq (Lost(b) \cup {c}) \ {by}
       /\ Empty(d) \subseteq Empty(b) \cup {b.parent[by]}
       /\ c \in Splits => d.kids[c] \subseteq b.kids[c] \ {by}
       /\ Inside(d, by) \subseteq Inside(b, by) /\ Inside(d, c) \subseteq Inside(b, c)
       /\ \A x \in Container : Inside(b, x) \cap (Inside(b, c) \cup Inside(b, by)) = {}
            => Spared(d, b, x)
  BY <1>8, <1>11, <1>12, <1>14, TakePlaceFit DEF d
<1>16. d.life[by] = "live" /\ d.life[c] = "live" /\ by \notin d.scratch /\ c \notin d.scratch
  BY <1>10, <1>11, <1>12, <1>15, PlacedLives
<1>17. in => d.parent[by] = None
  BY <1>13, <1>15, PlacedLives
<1> HIDE DEF in, v, mode
<1>18. in \in BOOLEAN
  BY DEF in
<1>19. /\ Keeps(e, d) /\ e.life[by] = "live" /\ e.ws[by] # None
       /\ ~in => e = d
       /\ by \notin Inside(e, c) /\ Spared(e, d, c)
       /\ \A x \in Container : Inside(d, x) \cap Inside(d, by) = {} => Spared(e, d, x)
  BY <1>2, <1>7, <1>15, <1>16, <1>17, <1>18, TakeScratchpadFit DEF e
<1>20. /\ Fit(r) /\ Tame(r, e) /\ Lost(r) = Lost(e) /\ Empty(r) = Empty(e) /\ Same(r, e)
       /\ \A x : Inside(r, x) = Inside(e, x) /\ Spared(r, e, x)
  BY <1>6, <1>19, QuietFit, QuietTame, QuietSpared DEF Quiet, Keeps
<1>21. Tame(r, t)
  BY <1>2, <1>3, <1>4, <1>5, <1>20, TameOn, QuietTame
<1>22. c \in Inside(d, c) /\ d.life[c] = "live"
  BY <1>4, <1>16, InsideType
<1>23. Loose(r, c) /\ c \notin r.scratch /\ r.life[c] = "live"
  BY <1>15, <1>16, <1>19, <1>20, <1>22 DEF Spared, Same, Loose
<1>24. r.life[by] = "live" /\ r.ws[by] # None /\ by \notin Inside(r, c)
  BY <1>19, <1>20 DEF Same
<1>25. c \notin t.scratch => r.parent[by] = t.parent[c]
  BY <1>13, <1>15, <1>19, <1>20 DEF in, Same
<1>26. Lost(r) \subseteq (Lost(t) \cup {c}) \ {by}
  BY <1>10, <1>11, <1>15, <1>19, <1>20 DEF Keeps
<1>27. Empty(r) \subseteq Empty(t) \cup {t.parent[by]}
  BY <1>10, <1>11, <1>13, <1>15, <1>19, <1>20 DEF Keeps
<1>28. c \in Splits => r.kids[c] \subseteq t.kids[c] \ {by}
  <2> SUFFICES ASSUME c \in Splits PROVE r.kids[c] \subseteq t.kids[c] \ {by}
    OBVIOUS
  <2>1. r.kids[c] = d.kids[c]
    BY <1>19, <1>20, <1>22 DEF Spared, Same
  <2>2. b.kids[c] \subseteq t.kids[c]
    <3>1. b.kids[c] \subseteq Container
      BY <1>3, TreeTypes
    <3> QED
      BY <1>10, <1>11, <1>12, <1>2, <3>1 DEF Fit, Shape, Linked
  <2> QED
    BY <1>15, <2>1, <2>2
<1>29. ASSUME NEW x \in Container, Inside(t, x) \cap (Inside(t, c) \cup Inside(t, by)) = {}
       PROVE  Spared(r, t, x)
  <2>1. Spared(a, t, x) /\ Spared(b, a, x)
    BY <1>10, <1>11, <1>29
  <2>2. Inside(b, x) = Inside(t, x)
    BY <1>10, <2>1 DEF Spared
  <2>3. Inside(b, c) \subseteq Inside(t, c) /\ Inside(b, by) \subseteq Inside(t, by)
    BY <1>10, <1>11
  <2>4. Spared(d, b, x)
    BY <1>15, <1>29, <2>2, <2>3
  <2>5. Spared(d, t, x)
    BY <2>1, <2>4, SparedOn
  <2>6. Inside(d, x) = Inside(t, x)
    BY <2>5 DEF Spared
  <2>7. Inside(d, by) \cap Inside(d, x) = {}
    BY <1>15, <1>29, <2>3, <2>6
  <2>8. Spared(e, d, x)
    BY <1>19, <2>7, SparedSame
  <2> QED
    BY <1>20, <2>5, <2>8, SparedOn
<1>30. Inside(r, c) \subseteq Inside(t, c)
  <2>1. Inside(r, c) = Inside(e, c) /\ Inside(e, c) = Inside(d, c)
    BY <1>19, <1>20 DEF Spared
  <2>2. Inside(d, c) \subseteq Inside(b, c) /\ Inside(b, c) \subseteq Inside(t, c)
    BY <1>10, <1>11, <1>15
  <2> QED
    BY <2>1, <2>2
<1> QED
  BY <1>1, <1>30, <1>21, <1>20, <1>23, <1>24, <1>25, <1>26, <1>27, <1>28, <1>29 DEF Replaced

LEMMA SplitTame ==
  ASSUME NEW t \in Tree, NEW c \in Container, NEW layout \in LayoutOf,
         NEW n \in Splits \cup {None}, SplitInPlace(t, c) \/ n \in Splits,
         NEW w \in Workspaces \cup {None}
  PROVE  Tame(Split(t, c, layout, n, w), t)
<1> DEFINE around == IF t.parent[c] # None THEN t.parent[c] ELSE t.ws[c]
<1>1. CASE SplitInPlace(t, c)
  <2>1. around \in Splits \cup Workspaces
    BY <1>1, TreeTypes DEF SplitInPlace
  <2> DEFINE r == [t EXCEPT !.layout[around] = layout]
  <2>2. Quiet(r, t)
    BY <2>1, FieldQuiet DEF LayoutOf
  <2>3. Split(t, c, layout, n, w) = r
    BY <1>1 DEF Split
  <2> QED
    BY <2>2, <2>3, QuietTame
<1>2. CASE ~SplitInPlace(t, c)
  <2> DEFINE d == Create(t, n, layout)
             e == Replace(d, c, n, w)
             r == AddChild(e, n, c)
  <2>1. n \in Splits /\ n \in Container
    BY <1>2, Nothing
  <2>2. Tame(d, t) /\ d \in Tree
    BY <2>1, CreateFields, TameTree
  <2> HIDE DEF d
  <2>3. Tame(e, d) /\ e \in Tree
    BY <2>1, <2>2, ReplaceTame, TameTree
  <2> HIDE DEF e
  <2>4. Tame(r, e)
    BY <2>1, <2>3, AddsCalm, CalmTame
  <2> HIDE DEF r
  <2>5. Split(t, c, layout, n, w) = r
    BY <1>2 DEF Split, r, e, d
  <2> QED
    BY <2>2, <2>3, <2>4, <2>5, TameOn
<1> QED
  BY <1>1, <1>2

\* A container of a workspace is in the new split, which is where it was.
LEMMA SplitFit ==
  ASSUME NEW t, Fit(t), NEW c \in Container, t.ws[c] # None, NEW layout \in LayoutOf,
         NEW n \in Splits \cup {None},
         SplitInPlace(t, c) \/ (n \in Splits /\ t.life[n] = "unused"),
         NEW w \in Workspaces \cup {None}, ~Undefined(Split(t, c, layout, n, w))
  PROVE  LET r == Split(t, c, layout, n, w)
         IN  /\ Keeps(r, t) /\ r.life[c] = "live" /\ r.ws[c] # None
             /\ \A x \in Container : t.life[x] = "live" /\ Inside(t, x) \cap Inside(t, c) = {}
                  => Spared(r, t, x)
<1> DEFINE around == IF t.parent[c] # None THEN t.parent[c] ELSE t.ws[c]
<1>0. t \in Tree /\ t.life[c] = "live" /\ c \in Inside(t, c)
  BY PlacedLives, InsideType DEF Fit
<1>1. CASE SplitInPlace(t, c)
  <2>1. around \in Splits \cup Workspaces
    BY <1>0, <1>1, TreeTypes DEF SplitInPlace
  <2> DEFINE r == [t EXCEPT !.layout[around] = layout]
  <2>2. Quiet(r, t)
    BY <1>0, <2>1, FieldQuiet DEF LayoutOf
  <2>3. Split(t, c, layout, n, w) = r
    BY <1>1 DEF Split
  <2> HIDE DEF r
  <2>4. Keeps(r, t) /\ \A x : Spared(r, t, x)
    BY <2>2, QuietKeeps, QuietSpared
  <2> QED
    BY <1>0, <2>2, <2>3, <2>4 DEF Quiet, Same
<1>2. CASE ~SplitInPlace(t, c)
  <2> DEFINE d == Create(t, n, layout)
             e == Replace(d, c, n, w)
             r == AddChild(e, n, c)
  <2>1. n \in Splits /\ n \in Container /\ t.life[n] = "unused" /\ n # c
    BY <1>0, <1>2, Nothing
  <2>2. Split(t, c, layout, n, w) = r
    BY <1>2 DEF Split
  <2>3. /\ Fit(d) /\ Tame(d, t) /\ Alike(d, t) /\ d.scratch = t.scratch
        /\ d.life[n] = "live" /\ \A x \in Container \ {n} : d.life[x] = t.life[x]
        /\ Lost(d) \subseteq Lost(t) \cup {n} /\ Empty(d) \subseteq Empty(t) \cup {n}
        /\ Loose(d, n) /\ d.kids[n] = {} /\ n \notin d.scratch /\ Inside(d, n) = {n}
        /\ \A x \in Container : Inside(d, x) = Inside(t, x)
        /\ \A x \in Container : x # n => n \notin Inside(t, x) /\ Spared(d, t, x)
    BY <2>1, CreateFit
  <2>4. d.ws[c] # None /\ c \notin Inside(d, n) /\ d \in Tree
    BY <2>1, <2>3 DEF Alike, Fit
  <2> HIDE DEF d
  <2>5. Tame(e, d) /\ e \in Tree
    BY <2>1, <2>4, ReplaceTame, TameTree
  <2>6. Tame(r, e)
    <3> HIDE DEF e
    <3> QED
      BY <2>1, <2>5, AddsCalm, CalmTame
  <2>7. ~Undefined(e)
    BY <2>2, <2>6, TameDefined
  <2>8. Replaced(e, d, c, n)
    BY <2>1, <2>3, <2>4, <2>7, ReplaceFit
  <2> HIDE DEF e
  <2>9. /\ Fit(e) /\ Loose(e, c) /\ c \notin e.scratch /\ e.life[c] = "live"
        /\ e.life[n] = "live" /\ e.ws[n] # None /\ n \notin Inside(e, c)
        /\ Inside(e, c) \subseteq Inside(t, c)
        /\ Lost(e) \subseteq (Lost(d) \cup {c}) \ {n}
        /\ Empty(e) \subseteq Empty(d) \cup {d.parent[n]}
        /\ \A x \in Container : Inside(d, x) \cap (Inside(d, c) \cup Inside(d, n)) = {}
             => Spared(e, d, x)
    BY <2>3, <2>8 DEF Replaced
  <2>10. Moves(r, e, c, n, e.ws[n])
    BY <2>1, <2>9, AddChildFit DEF Loose
  <2> DEFINE v == e.ws[n]
  <2>10a. Moves(r, e, c, n, v) /\ v # None
    BY <2>9, <2>10
  <2> HIDE DEF r, v
  <2>11. Lands(r, e, c, n, v)
    BY <2>1, <2>9, <2>10a, MovesLands
  <2>12. Fit(r) /\ Tame(r, t)
    BY <2>3, <2>5, <2>6, <2>11, TameOn DEF Lands
  <2>13. r.life[c] = "live" /\ r.ws[c] # None
    BY <2>9, <2>10a, <2>11 DEF Lands
  <2>14. Lost(r) \subseteq Lost(t)
    BY <2>1, <2>3, <2>9, <2>11, Nothing DEF Lands
  <2>15. Empty(r) \subseteq Empty(t)
    <3>1. None \notin Empty(r)
      BY Nothing DEF Empty
    <3>2. d.parent[n] = None /\ e.parent[c] = None
      BY <2>3, <2>9 DEF Loose
    <3> QED
      BY <2>3, <2>9, <2>11, <3>1, <3>2 DEF Lands
  <2>16. ASSUME NEW x \in Container, t.life[x] = "live", Inside(t, x) \cap Inside(t, c) = {}
         PROVE  Spared(r, t, x)
    <3>1. x # n /\ n \notin Inside(t, x) /\ Spared(d, t, x) /\ Inside(d, x) = Inside(t, x)
      BY <2>1, <2>3, <2>16
    <3>2. Inside(d, c) = Inside(t, c)
      BY <2>3
    <3>3. Inside(d, x) \cap (Inside(d, c) \cup Inside(d, n)) = {}
      BY <2>3, <2>16, <3>1, <3>2
    <3>4. Spared(e, d, x)
      BY <2>9, <3>3
    <3>5. Inside(e, x) = Inside(t, x)
      BY <3>1, <3>4 DEF Spared
    <3>6. Inside(e, x) \cap Inside(e, c) = {} /\ n \notin Inside(e, x)
      BY <2>9, <2>16, <3>1, <3>5
    <3>7. Spared(r, e, x)
      BY <2>1, <2>9, <2>10a, <3>6, MovesSpare
    <3> QED
      BY <3>1, <3>4, <3>7, SparedOn
  <2> QED
    BY <2>2, <2>12, <2>13, <2>14, <2>15, <2>16 DEF Keeps
<1> QED
  BY <1>1, <1>2
=============================================================================
