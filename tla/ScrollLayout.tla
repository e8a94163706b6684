----------------------------- MODULE ScrollLayout -----------------------------
(***************************************************************************)
(* The scrollable layout of a workspace: a strip of columns behind a       *)
(* camera (arrange_workspace and apply_scroll_layout of tree/arrange.c,    *)
(* workspace_scroll_* of tree/workspace.c, commands/scroll.c).             *)
(*                                                                         *)
(* The strip is panned by commands and the touchpad, follows the focus,    *)
(* and is scrolled by a column that is dragged; columns are resized by     *)
(* commands, by the mouse (seatop_resize_tiling.c) and by a pinch          *)
(* (seatop_default.c).  The camera has a target, which a transaction       *)
(* carries to the scene, where an animation takes the tiling node there    *)
(* (get_animated_scroll_workspace_x); during an interactive resize the     *)
(* seat operation moves the node itself.                                   *)
(*                                                                         *)
(* One workspace, always in this layout: no command leaves it.  Fullscreen *)
(* and maximized windows, gaps at the edges and vertical resizes are left  *)
(* out.  Lengths are scaled down.                                          *)
(***************************************************************************)
EXTENDS Integers, Sequences, SequencesExt

CONSTANTS
  Columns,    \* the windows that may be columns
  NoColumn,   \* NULL
  Boxes,      \* the widths the workspace may have
  Lefts,      \* where its output may lie in the layout: output->lx
  ColumnGap,  \* gaps_inner
  MinColumn,  \* MIN_SANE_W
  Whole,      \* the width fraction of a column as wide as the workspace
  Usual,      \* SCROLL_DEFAULT_WIDTH_FRACTION
  Fractions,  \* the fractions that columns arrive with or are pinched to
  Moves,      \* the distances of scrolls and mouse motions
  Animated,   \* config->animation_duration_ms is not 0
  MaxInputs   \* bound: how often the user, clients or outputs act

ASSUME ScrollConstants ==
  /\ NoColumn \notin Columns /\ Columns # {}
  /\ \A b \in Boxes : b \in Nat \ {0} /\ MinColumn <= b /\ Whole % b = 0
  /\ Lefts \subseteq Nat /\ ColumnGap \in Nat /\ MinColumn \in Nat \ {0} /\ MaxInputs \in Nat
  /\ Fractions \subseteq 1..Whole /\ Usual \in 1..Whole
  /\ Moves \subseteq Nat \ {0}
  /\ Animated \in BOOLEAN

VARIABLES
  strip,   \* the workspace, a record: see ScrollInit
  seatop,  \* the seat's operation
  inputs   \* history: how often it was acted on

scrollVars == <<strip, seatop, inputs>>

Default == [kind |-> "default"]

\* Every column is there and the camera is at rest.
ScrollInit ==
  /\ \E b \in Boxes, l \in Lefts :
       LET cols == SetToSeq(Columns)
       IN strip = [cols |-> cols, frac |-> [c \in Columns |-> Usual], focus |-> cols[1], box |-> b, lx |-> l,
             scroll |-> l, target |-> 0, follow |-> TRUE, interactive |-> FALSE,
             flight |-> <<>>,
             current |-> [scroll |-> l, target |-> 0, focus |-> cols[1]],
             heading |-> 0, headed |-> TRUE, running |-> FALSE, visual |-> 0]
  /\ seatop = Default
  /\ inputs = 0

\* strip.visual is how far the tiling node really is to the left of where the
\* workspace begins; strip.heading and strip.headed are target_x and
\* target_x_initialized of scroll_animation_state.

------------------------------------------------------------------------------
(***************************************************************************)
(* Where columns and camera are.                                           *)
(***************************************************************************)
AtLeast(a, b) == IF a < b THEN b ELSE a
NoMore(a, b) == IF a > b THEN b ELSE a

Width(s, c) ==
  NoMore(AtLeast((2 * s.frac[c] * s.box + Whole) \div (2 * Whole), MinColumn), s.box)

Index(s, c) == CHOOSE i \in DOMAIN s.cols : s.cols[i] = c

LeftOf(s, c) ==
  FoldLeft(LAMBDA x, d : x + Width(s, d) + ColumnGap, 0, SubSeq(s.cols, 1, Index(s, c) - 1))

ContentWidth(s) ==
  IF s.cols = <<>> THEN 0 ELSE LeftOf(s, Last(s.cols)) + Width(s, Last(s.cols))

MaxOffset(s) == AtLeast(ContentWidth(s) - s.box, 0)
ScrollClamp(s, offset) == NoMore(AtLeast(offset, 0), MaxOffset(s))

InView(s, c, offset) ==
  offset <= LeftOf(s, c) /\ LeftOf(s, c) + Width(s, c) <= offset + s.box

CenterOffset(s) ==
  IF s.focus = NoColumn THEN 0
  ELSE ScrollClamp(s, LeftOf(s, s.focus) + Width(s, s.focus) \div 2 - s.box \div 2)

SlipPendingTarget(s) ==
  IF s.focus = NoColumn THEN 0
  ELSE LET offset == ScrollClamp(s, s.target)
           left == LeftOf(s, s.focus)
       IN ScrollClamp(s, IF left < offset THEN left
                         ELSE IF left > offset + s.box THEN left ELSE offset)
\* The camera moves just as far as it takes to show the focused column.
PendingTarget(s) ==
  IF s.focus = NoColumn THEN 0
  ELSE LET offset == ScrollClamp(s, s.target)
           left == LeftOf(s, s.focus)
           right == left + Width(s, s.focus)
       IN ScrollClamp(s, IF left < offset THEN left
                         ELSE IF right > offset + s.box THEN right - s.box
                         ELSE offset)

\* box.x - layers.tiling->node.x: the box is in the layout's coordinates, the
\* node in its output's.
Reading(s) == s.visual + s.lx
SetNode(s, x) == [s EXCEPT !.visual = x - s.lx, !.scroll = x, !.target = x]

\* The scrollable part of arrange_workspace.
Arrange(s) ==
  LET a == [s EXCEPT !.scroll = AtLeast(Reading(s), 0)]
      followed == [a EXCEPT !.follow = TRUE, !.target = PendingTarget(s)]
  IN IF s.interactive THEN [a EXCEPT !.target = a.scroll]
     ELSE IF s.focus # s.current.focus \/ s.follow THEN followed
     ELSE [a EXCEPT !.target = ScrollClamp(s, s.target)]

\* transaction_commit_dirty of an arranged workspace: its state is copied, and
\* what is not yet on its way is copied again.
Commit(s) ==
  LET copy == [scroll |-> s.scroll, target |-> s.target, focus |-> s.focus]
  IN [s EXCEPT !.flight = SubSeq(@, 1, NoMore(Len(@), 1)) \o <<copy>>]

------------------------------------------------------------------------------
(***************************************************************************)
(* The scene.                                                              *)
(***************************************************************************)
\* get_animated_scroll_workspace_x, as a transaction is applied.
Reposition(s) ==
  IF s.interactive THEN [s EXCEPT !.running = FALSE, !.headed = FALSE]
  ELSE IF ~Animated
       THEN [s EXCEPT !.running = FALSE, !.headed = TRUE, !.heading = s.current.target,
                      !.visual = s.current.target]
  ELSE IF ~s.headed
       THEN [s EXCEPT !.headed = TRUE, !.heading = s.current.target,
                      !.running = s.current.scroll # s.current.target,
                      !.visual = s.current.scroll]
  ELSE IF s.heading # s.current.target
       THEN [s EXCEPT !.heading = s.current.target,
                      !.running = @ \/ s.visual # s.current.target]
  ELSE IF s.running THEN s
  ELSE [s EXCEPT !.visual = s.heading]

TransactionApply ==
  /\ strip.flight # <<>>
  /\ strip' = Reposition([strip EXCEPT !.current = Head(strip.flight),
                                       !.flight = Tail(@)])
  /\ UNCHANGED seatop

Between(a, b) == IF a <= b THEN a..b ELSE b..a

\* The animation timer: some way on, or there.
AnimationTick ==
  /\ strip.running
  /\ \/ /\ strip.interactive
        /\ strip' = Reposition(strip)
     \/ /\ ~strip.interactive
        /\ \E v \in Between(strip.visual, strip.heading) :
             strip' = [strip EXCEPT !.visual = v, !.running = (v # strip.heading)]
  /\ UNCHANGED seatop

------------------------------------------------------------------------------
(***************************************************************************)
(* Columns come, go and move.                                              *)
(***************************************************************************)
Arranged(s) == strip' = Commit(Arrange(s))

\* view_map: the new column goes after the focused one.
MapColumn(c, f, focused) ==
  LET at == IF strip.cols = <<>> THEN 1 ELSE Index(strip, strip.focus) + 1
      inserted == [strip EXCEPT !.cols = InsertAt(@, at, c), !.frac[c] = f,
                             !.focus = IF strip.cols = <<>> THEN c ELSE @]
      arranged == Arrange(inserted)
  IN /\ c \notin Range(strip.cols)
     /\ Arranged(IF focused THEN [arranged EXCEPT !.focus = c] ELSE arranged)
     /\ UNCHANGED seatop

Without(s, c, next) == [s EXCEPT !.cols = Remove(@, c), !.focus = next]

\* What may have the focus once c has left: the same, or when it was c any
\* other.
Heirs(c) ==
  IF strip.focus # c THEN {strip.focus}
  ELSE IF Len(strip.cols) = 1 THEN {NoColumn} ELSE Range(strip.cols) \ {c}

Operands == IF seatop.kind \in {"resize", "drag"} THEN {seatop.con} ELSE {}

\* container_begin_destroy: the seat leaves an operation on the column, and
\* focuses another while the column is still there; then it is detached.
UnmapColumn(c) ==
  /\ c \in Range(strip.cols)
  /\ LET ended == IF seatop.kind = "resize" /\ seatop.con = c
                  THEN [strip EXCEPT !.interactive = FALSE] ELSE strip
     IN \E next \in Heirs(c) :
          LET left == IF next \in {c, NoColumn, strip.focus} THEN ended
                      ELSE Arrange([ended EXCEPT !.focus = next])
          IN Arranged(Without(left, c, next))
  /\ seatop' = IF c \in Operands THEN Default
               ELSE IF seatop.kind = "pinch" /\ seatop.con = c
                    THEN [seatop EXCEPT !.con = NoColumn]   \* dangling
               ELSE seatop

\* The column moves to another workspace; an operation goes on with it.
MoveAway(c) ==
  /\ c \in Range(strip.cols)
  /\ \E next \in Heirs(c) : Arranged(Without(strip, c, next))
  /\ UNCHANGED seatop

FocusColumn(c) ==
  /\ c \in Range(strip.cols) /\ c # strip.focus
  /\ Arranged([strip EXCEPT !.focus = c])
  /\ UNCHANGED seatop

\* The wheel with Shift: on through the columns, and round at the end.
HandleScrollableWorkspaceAxis(steps) ==
  /\ seatop.kind \in {"default", "pinch"} /\ strip.cols # <<>>
  /\ FocusColumn(strip.cols[((Index(strip, strip.focus) - 1 + steps) % Len(strip.cols)) + 1])

\* Move left or right, or a drag that ends.
MoveColumn(c, i) ==
  /\ c \in Range(strip.cols) /\ i \in DOMAIN strip.cols
  /\ Arranged([strip EXCEPT !.cols = InsertAt(Remove(@, c), i, c)])

CmdMove(c, i) == MoveColumn(c, i) /\ UNCHANGED seatop

BoxChanges(b) ==
  /\ b # strip.box
  /\ Arranged([strip EXCEPT !.box = b])
  /\ UNCHANGED seatop

------------------------------------------------------------------------------
(***************************************************************************)
(* The camera.                                                             *)
(***************************************************************************)
CmdScrollFollow ==
  /\ Arranged([strip EXCEPT !.follow = TRUE])
  /\ UNCHANGED seatop

Free(s, offset) == [s EXCEPT !.follow = FALSE, !.target = offset]

CmdScrollCenter == Arranged(Free(strip, CenterOffset(strip))) /\ UNCHANGED seatop
CmdScrollHome == Arranged(Free(strip, 0)) /\ UNCHANGED seatop
CmdScrollEnd == Arranged(Free(strip, MaxOffset(strip))) /\ UNCHANGED seatop

Pan(n) == Arranged(Free(strip, ScrollClamp(strip, strip.target + n)))

CmdScroll(n) == Pan(n) /\ UNCHANGED seatop

HandleScrollableTouchpadAxis(n) ==
  /\ seatop.kind \in {"default", "pinch"} /\ strip.cols # <<>>
  /\ Pan(n) /\ UNCHANGED seatop

AutoScrollScrollableDrag(n) ==
  /\ seatop.kind = "drag" /\ seatop.con \in Range(strip.cols)
  /\ ScrollClamp(strip, strip.target + n) # strip.target
  /\ Pan(n) /\ UNCHANGED seatop

------------------------------------------------------------------------------
(***************************************************************************)
(* Resizing.                                                               *)
(***************************************************************************)
\* The scrollable part of container_resize_tiled, to a width.
ResizeColumn(s, c, width) ==
  Arrange([s EXCEPT !.frac[c] =
             NoMore(AtLeast(width, MinColumn), s.box) * (Whole \div s.box)])

CmdResizeColumn(c, n) ==
  /\ c \in Range(strip.cols)
  /\ strip' = Commit(ResizeColumn(strip, c, Width(strip, c) + n))
  /\ UNCHANGED seatop

\* Pressing a button leaves the default operation, and a pinch with it.
BeginResizeTiling(c, edge) ==
  /\ seatop.kind \in {"default", "pinch"} /\ c \in Range(strip.cols)
  /\ strip' = [strip EXCEPT !.interactive = TRUE]
  /\ seatop' = [kind |-> "resize", con |-> c, edge |-> edge, width |-> Width(strip, c),
                scroll |-> ScrollClamp(strip, Reading(strip))]

AdjustScrollableResizePosition(s) ==
  IF seatop.edge = "right" THEN s
  ELSE SetNode(s, ScrollClamp(s, seatop.scroll + Width(s, seatop.con) - seatop.width))

\* The pointer is moved to the right of where it began.
ResizeMotion(moved) ==
  /\ seatop.kind = "resize" /\ seatop.con \in Range(strip.cols)
  /\ LET width == IF seatop.edge = "left" THEN seatop.width - moved ELSE seatop.width + moved
     IN /\ width # Width(strip, seatop.con)
        /\ strip' = Commit(AdjustScrollableResizePosition(
                             ResizeColumn(strip, seatop.con, width)))
  /\ UNCHANGED seatop

ResizeButton ==
  /\ seatop.kind = "resize"
  /\ IF seatop.con \in Range(strip.cols)
     THEN Arranged([strip EXCEPT !.interactive = FALSE])
     ELSE UNCHANGED strip
  /\ seatop' = Default

BeginMoveTiling(c) ==
  /\ seatop.kind \in {"default", "pinch"} /\ c \in Range(strip.cols)
  /\ seatop' = [kind |-> "drag", con |-> c]
  /\ UNCHANGED strip

FinalizeScrollableMove ==
  /\ seatop.kind = "drag"
  /\ \/ UNCHANGED strip
     \/ \E i \in DOMAIN strip.cols : MoveColumn(seatop.con, i)
  /\ seatop' = Default

PinchResizeBegin ==
  /\ seatop.kind \in {"default", "pinch"} /\ strip.cols # <<>>
  /\ strip' = [strip EXCEPT !.interactive = TRUE]
  /\ LET c == strip.focus
         w == Width(strip, c)
     IN seatop' = [kind |-> "pinch", con |-> c,
          anchor |-> strip.lx + LeftOf(strip, c) + w \div 2
                       - ScrollClamp(strip, Reading(strip))]

\* The middle of the column stays under the fingers, as far as the column can
\* be shown.
Pinched(s, c, anchor) ==
  LET left == s.lx + LeftOf(s, c)
      x == ScrollClamp(s, left + Width(s, c) \div 2 - anchor)
  IN SetNode(s, ScrollClamp(s, IF left < x THEN left
                               ELSE IF left + Width(s, c) > x + s.box
                                    THEN left + Width(s, c) - s.box ELSE x))

PinchResizeUpdate(f) ==
  /\ seatop.kind = "pinch" /\ seatop.con \in Range(strip.cols)
  /\ strip' = Commit(Pinched(Arrange([strip EXCEPT !.frac[seatop.con] = f, !.follow = FALSE]),
                             seatop.con, seatop.anchor))
  /\ UNCHANGED seatop

\* When the column is on another workspace, or its memory no longer is one,
\* this workspace may not hear of the end.
PinchResizeEnd ==
  /\ seatop.kind = "pinch"
  /\ \/ /\ seatop.con \in Range(strip.cols) \cup {NoColumn}
        /\ Arranged([strip EXCEPT !.interactive = FALSE, !.target = ScrollClamp(strip, @)])
     \/ seatop.con \notin Range(strip.cols) /\ UNCHANGED strip
  /\ seatop' = Default

Act ==
  \/ \E c \in Columns, f \in Fractions, focused \in BOOLEAN : MapColumn(c, f, focused)
  \/ \E c \in Columns : UnmapColumn(c) \/ MoveAway(c) \/ FocusColumn(c) \/ BeginMoveTiling(c)
  \/ \E c \in Columns, i \in DOMAIN strip.cols : CmdMove(c, i)
  \/ \E n \in Moves \cup {-m : m \in Moves} :
       \/ CmdScroll(n) \/ HandleScrollableTouchpadAxis(n) \/ AutoScrollScrollableDrag(n)
       \/ ResizeMotion(n)
       \/ \E c \in Columns : CmdResizeColumn(c, n)
  \/ \E steps \in {1, -1} : HandleScrollableWorkspaceAxis(steps)
  \/ \E b \in Boxes : BoxChanges(b)
  \/ CmdScrollFollow \/ CmdScrollCenter \/ CmdScrollHome \/ CmdScrollEnd
  \/ \E c \in Columns, e \in {"left", "right"} : BeginResizeTiling(c, e)
  \/ ResizeButton \/ FinalizeScrollableMove \/ PinchResizeBegin \/ PinchResizeEnd
  \/ \E f \in Fractions : PinchResizeUpdate(f)

ScrollNext ==
  \/ inputs < MaxInputs /\ inputs' = inputs + 1 /\ Act
  \/ (TransactionApply \/ AnimationTick) /\ UNCHANGED inputs

ScrollSpec == ScrollInit /\ [][ScrollNext]_scrollVars

------------------------------------------------------------------------------
\* While the camera follows the focus it is never sent where the focused
\* column is cut off, whatever columns come, go, move, grow and shrink and
\* however wide the workspace is (get_pending_scroll_layout_target).
FocusInView ==
  strip.follow /\ ~strip.interactive /\ strip.cols # <<>> =>
    InView(strip, strip.focus, strip.target)

\* Once the transactions and the animation are through, what is seen is what
\* was asked for, and shows no more of the void than it must
\* (get_animated_scroll_workspace_x, workspace_scroll_clamp_width).
CameraSettles ==
  ~strip.interactive /\ strip.flight = <<>> /\ ~strip.running =>
    strip.visual = strip.target /\ strip.target \in 0..MaxOffset(strip)

\* The camera follows the focus and comes to rest where it should.
CameraShowsFocus == FocusInView /\ CameraSettles

\* "edge handoff instead of hard centering on every focus change"
\* (README.md:91): a column that is in view is focused without a move.
EdgeHandoff ==
  [][\A c \in Columns :
       (/\ FocusColumn(c)
        /\ ~strip.interactive
        /\ strip.target = ScrollClamp(strip, strip.target)
        /\ InView(strip, c, strip.target)) => strip'.target = strip.target]_scrollVars

\* "scroll follow: Return to focus-following camera behavior" (README.md:80),
\* unless a resize has the camera.
FollowReturns ==
  [][CmdScrollFollow /\ seatop.kind \notin {"resize", "pinch"} /\ strip.cols # <<>> =>
       InView(strip', strip'.focus, strip'.target)]_scrollVars
=============================================================================
