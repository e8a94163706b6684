-------------------------------- MODULE Floating --------------------------------
(***************************************************************************)
(* Where a floating window is and how large: floating and tiling it,       *)
(* maximizing and restoring it, resize and move commands, the drag of an   *)
(* edge or a corner, what the client commits, and the output below it that *)
(* changes (tree/container.c, commands/resize.c, commands/move.c,          *)
(* input/seatop_resize_floating.c, the commit of desktop/xdg_shell.c and   *)
(* the configure request of desktop/xwayland.c).                           *)
(*                                                                         *)
(* One window with a view, border pixel, on one workspace that is shown;   *)
(* a tiled window is alone.  Both axes are treated alike.  Doubles that    *)
(* the code truncates are exact here: counted in a fraction of a pixel and *)
(* truncated where the code does.  Left out: the scratchpad, fullscreen,   *)
(* and the choice of another output by position.                           *)
(***************************************************************************)
EXTENDS Integers

CONSTANTS
  Screens,     \* what the output may be: [output, usable], boxes
  WsGap,         \* the gap around the workspace
  Border,      \* border_thickness
  FloatMin, FloatMax,   \* floating_minimum_size, floating_maximum_size
  ViewMin, ViewMax,     \* the limits that the client sets for its content
  Natural,     \* natural_width, natural_height
  Contents,    \* sizes that the client commits or asks for
  Cursors,     \* positions of the cursor
  Amount,      \* the amount of resize grow and shrink
  Wants,       \* what resize set asks for; 0 leaves an axis as it is
  Spots,       \* where move position puts the window
  MaxMoves     \* bound: how many commands and events there are

BothAxes == {"h", "v"}

ASSUME FloatingConstants ==
  /\ WsGap \in Nat /\ Border \in Nat /\ Amount \in Nat
  /\ {FloatMin, FloatMax, ViewMin, ViewMax, Natural} \subseteq [BothAxes -> Nat]

VARIABLES
  win,      \* the window: floating, box, maximized, natural (size), saved
  screen,   \* the output, a member of Screens
  drag,     \* seatop_resize_floating's data, or NoDrag
  floatDid,      \* history: the last operation
  before,   \* history: the window when it was last not maximized
  moves     \* history: how many moves were taken

floatVars == <<win, screen, drag, floatDid, before, moves>>

Larger(m, n) == IF m > n THEN m ELSE n
Smaller(m, n) == IF m < n THEN m ELSE n
Trunc(n, d) == IF n < 0 THEN -((-n) \div d) ELSE n \div d

\* A box is [pos, size], each a function of the axis.
FarEdge(box, a) == box.pos[a] + box.size[a]
Inset(box, by) == [pos |-> [a \in BothAxes |-> box.pos[a] + by],
                   size |-> [a \in BothAxes |-> box.size[a] - 2 * by]]
WorkspaceBox(s) == Inset(s.usable, WsGap)

\* view_autoconfigure and container_set_geometry_from_content
Content(box) == LET in == Inset(box, Border)
                IN [in EXCEPT !.size = [a \in BothAxes |-> Larger(in.size[a], 1)]]
AroundContent(content) == Inset(content, -Border)

NoDrag == [edge |-> [a \in BothAxes |-> "none"]]

------------------------------------------------------------------------------
(***************************************************************************)
(* Floating, tiling and maximizing.                                        *)
(***************************************************************************)
\* floating_calculate_constraints
Constrain(n, a) == Larger(FloatMin[a], Smaller(n, FloatMax[a]))

CenteredIn(box, size) ==
  [a \in BothAxes |-> box.pos[a] + Trunc(box.size[a] - size[a], 2)]

\* floating_natural_resize
NaturalSize(w) == [a \in BothAxes |-> Constrain(w.natural[a], a)]

\* container_floating_resize_and_center
ResizeAndCenter(w, s) ==
  IF w.maximized THEN [w EXCEPT !.box = s.usable]
  ELSE LET ws == WorkspaceBox(s)
           size == NaturalSize(w)
           on == IF \E a \in BothAxes : size[a] > ws.size[a] THEN s.output ELSE ws
       IN [w EXCEPT !.box = AroundContent([pos |-> CenteredIn(on, size), size |-> size])]

\* container_reconcile_maximized, container_clear_maximized
Reconcile(w, s) == IF w.maximized /\ w.floating THEN [w EXCEPT !.box = s.usable] ELSE w
ClearMaximized(w) == [w EXCEPT !.maximized = FALSE]

\* What arrange_workspace gives the window.
ArrangedBox(w, s) == IF w.floating THEN Reconcile(w, s) ELSE [w EXCEPT !.box = WorkspaceBox(s)]

\* container_set_floating
SetFloating(w, s, enable) ==
  IF w.floating = enable THEN w
  ELSE LET cleared == [ClearMaximized(w) EXCEPT !.floating = enable]
       IN IF enable THEN ResizeAndCenter(cleared, s) ELSE cleared

CmdFloating(enable) ==
  /\ floatDid' = [kind |-> "floating"]
  /\ win' = ArrangedBox(SetFloating(win, screen, enable), screen)
  \* container_end_mouse_operation
  /\ drag' = IF win.floating = enable THEN drag ELSE NoDrag
  /\ UNCHANGED screen

SlipMaximized(w, s) ==
  LET up == [SetFloating(w, s, TRUE) EXCEPT !.maximized = TRUE]
  IN Reconcile([up EXCEPT !.saved = [floating |-> TRUE, box |-> w.box]], s)
Maximized(w, s) ==
  LET up == [SetFloating(w, s, TRUE) EXCEPT !.maximized = TRUE]
  IN Reconcile([up EXCEPT !.saved = [floating |-> w.floating, box |-> w.box]], s)
Unmaximized(w, s) ==
  IF w.saved.floating THEN [ClearMaximized(w) EXCEPT !.box = w.saved.box]
  ELSE SetFloating(ClearMaximized(w), s, FALSE)

\* container_set_maximized: the command, or what the client asks for.
SetMaximized(enable) ==
  /\ win.maximized # enable
  /\ floatDid' = [kind |-> IF enable THEN "maximize" ELSE "restore"]
  /\ win' = ArrangedBox(IF enable THEN Maximized(win, screen) ELSE Unmaximized(win, screen), screen)
  /\ drag' = NoDrag
  /\ UNCHANGED screen

------------------------------------------------------------------------------
(***************************************************************************)
(* Commands that resize and move it.                                       *)
(***************************************************************************)
\* resize_adjust_floating: end is "before", "after" or "both".  Both axes are
\* brought within the limits.  A maximized window stays so.
CmdResizeAdjust(axis, end, n) ==
  LET grow == [a \in BothAxes |->
        LET g == IF a = axis THEN n ELSE 0
            size == win.box.size[a] + g
        IN IF size < FloatMin[a] THEN FloatMin[a] - win.box.size[a]
           ELSE IF size > FloatMax[a] THEN FloatMax[a] - win.box.size[a]
           ELSE g]
      shift == [a \in BothAxes |->
        IF a # axis \/ end = "after" THEN 0
        ELSE IF end = "before" THEN -grow[a] ELSE Trunc(-grow[a], 2)]
  IN /\ win.floating
     /\ \E a \in BothAxes : grow[a] # 0
     /\ floatDid' = [kind |-> "adjust"]
     /\ win' = [win EXCEPT !.box = [pos |-> [a \in BothAxes |-> @.pos[a] + shift[a]],
                                    size |-> [a \in BothAxes |-> @.size[a] + grow[a]]]]
     /\ UNCHANGED <<screen, drag>>

\* resize_set_floating
CmdResizeSet(want) ==
  LET size == [a \in BothAxes |->
        IF want[a] = 0 THEN win.box.size[a] ELSE Constrain(want[a], a)]
      half(a) == Trunc(size[a] - win.box.size[a], 2)
  IN /\ win.floating
     /\ floatDid' = [kind |-> "set"]
     /\ win' = [ClearMaximized(win) EXCEPT
          !.box = [pos |-> [a \in BothAxes |-> @.pos[a] - half(a)], size |-> size]]
     /\ UNCHANGED <<screen, drag>>

\* container_floating_translate: only a real move ends the maximized state.
MovedTo(w, pos) ==
  [w EXCEPT !.box.pos = pos, !.maximized = @ /\ w.box.pos = pos]

\* cmd_move_to_position
CmdMoveTo(pos) ==
  /\ win.floating
  /\ floatDid' = [kind |-> "move"]
  /\ win' = MovedTo(win, [a \in BothAxes |-> WorkspaceBox(screen).pos[a] + pos[a]])
  /\ UNCHANGED <<screen, drag>>

CmdMoveCenter ==
  /\ win.floating
  /\ floatDid' = [kind |-> "move"]
  /\ win' = MovedTo(win, CenteredIn(WorkspaceBox(screen), win.box.size))
  /\ UNCHANGED <<screen, drag>>

------------------------------------------------------------------------------
(***************************************************************************)
(* The drag of an edge or corner.                                          *)
(***************************************************************************)
Edges == [BothAxes -> {"before", "after", "none"}]

\* seatop_begin_resize_floating; no edge stands for the bottom right corner.
Begin(edge, ratio, at) ==
  /\ win.floating /\ drag = NoDrag
  /\ floatDid' = [kind |-> "begin"]
  /\ drag' = [edge |-> IF edge = NoDrag.edge THEN [a \in BothAxes |-> "after"] ELSE edge,
              ratio |-> ratio, cursor |-> at, box |-> win.box]
  /\ UNCHANGED <<win, screen>>

\* How much the pointer has grown the window since the drag began, in pixels
\* over Unit; Unit is even.
Unit == 2 * drag.box.size["h"] * drag.box.size["v"]
Pulled(at) ==
  LET move(a) == IF drag.edge[a] = "none" THEN 0 ELSE at[a] - drag.cursor[a]
      grow == [a \in BothAxes |-> IF drag.edge[a] = "before" THEN -move(a) ELSE move(a)]
      \* the larger of the two multipliers, times both sizes
      most == Larger(grow["h"] * drag.box.size["v"], grow["v"] * drag.box.size["h"])
  IN [a \in BothAxes |-> IF drag.ratio THEN 2 * drag.box.size[a] * most ELSE grow[a] * Unit]

\* The floating limits, then the client's; the least size wins.
Limited(n, a) ==
  LET most(m) == (m - 2 * Border) * Unit
      least(m) == (m + 2 * Border) * Unit
      floats == Larger(Larger(Smaller(n, most(FloatMax[a])), least(FloatMin[a])), Unit)
  IN Larger(Larger(Smaller(floats, most(ViewMax[a])), least(ViewMin[a])), Unit)

SlipDragged(at) ==
  LET size == [a \in BothAxes |-> Limited(drag.box.size[a] * Unit + Pulled(at)[a], a)]
      shift(a) == CASE drag.edge[a] = "before" -> -Pulled(at)[a]
                    [] drag.edge[a] = "after" -> 0
                    [] drag.edge[a] = "none" -> Trunc(-Pulled(at)[a], 2)
      toward(now, then) == now + Trunc(then - now * Unit, Unit)
  IN [pos |-> [a \in BothAxes |-> toward(win.box.pos[a], drag.box.pos[a] * Unit + shift(a))],
      size |-> [a \in BothAxes |-> toward(win.box.size[a], size[a])]]
\* The box that the pointer asks for; each number goes toward its target by
\* a whole number of pixels.
Dragged(at) ==
  LET size == [a \in BothAxes |-> Limited(drag.box.size[a] * Unit + Pulled(at)[a], a)]
      grow(a) == size[a] - drag.box.size[a] * Unit
      shift(a) == CASE drag.edge[a] = "before" -> -grow(a)
                    [] drag.edge[a] = "after" -> 0
                    [] drag.edge[a] = "none" -> Trunc(-grow(a), 2)
      toward(now, then) == now + Trunc(then - now * Unit, Unit)
  IN [pos |-> [a \in BothAxes |-> toward(win.box.pos[a], drag.box.pos[a] * Unit + shift(a))],
      size |-> [a \in BothAxes |-> toward(win.box.size[a], size[a])]]

Motion(at) ==
  /\ drag # NoDrag
  /\ floatDid' = [kind |-> "motion"]
  /\ win' = [ClearMaximized(win) EXCEPT !.box = Dragged(at)]
  /\ UNCHANGED <<screen, drag>>

Release ==
  /\ drag # NoDrag
  /\ floatDid' = [kind |-> "release"]
  /\ drag' = NoDrag
  /\ UNCHANGED <<win, screen>>

------------------------------------------------------------------------------
(***************************************************************************)
(* The client, and the output.                                             *)
(***************************************************************************)
\* handle_commit of a view that changed its size
HandleCommit(size) ==
  /\ win.floating
  /\ size # Content(win.box).size
  /\ floatDid' = [kind |-> "commit"]
  /\ win' = [win EXCEPT !.box = AroundContent([pos |-> Content(win.box).pos, size |-> size])]
  /\ UNCHANGED <<screen, drag>>

\* An X11 window that asks for a size gets it, within its own limits; at 0, 0
\* it counts as new and is centered.
HandleRequestConfigure(size) ==
  LET within == [a \in BothAxes |-> Larger(ViewMin[a], Smaller(size[a], ViewMax[a]))]
      content == Content(win.box)
      asked == [win EXCEPT !.natural = size]
  IN /\ win.floating
     /\ floatDid' = [kind |-> "configure"]
     /\ win' = IF \A a \in BothAxes : content.pos[a] = 0 THEN ResizeAndCenter(asked, screen)
               ELSE [asked EXCEPT !.box = AroundContent([content EXCEPT !.size = within])]
     /\ UNCHANGED <<screen, drag>>

\* floating_fix_coordinates: the center keeps its place in the workspace.
FixCoordinates(box, old, new) ==
  [box EXCEPT !.pos = [a \in BothAxes |->
     LET half == box.size[a] \div 2
         rel == box.pos[a] - old.pos[a] + half
     IN new.pos[a] + Trunc(rel * new.size[a], old.size[a]) - half]]

\* arrange_workspace after the output was configured or a layer took room;
\* floating windows follow only if the corner of the workspace moved.
OutputChanges(s) ==
  /\ s # screen
  /\ floatDid' = [kind |-> "output"]
  /\ screen' = s
  /\ win' = ArrangedBox(
       IF win.floating /\ s.usable.pos # screen.usable.pos
       THEN [win EXCEPT !.box = FixCoordinates(@, WorkspaceBox(screen), s.usable)]
       ELSE win, s)
  /\ UNCHANGED drag

------------------------------------------------------------------------------
FloatingInit ==
  /\ screen \in Screens
  /\ win = [floating |-> FALSE, box |-> WorkspaceBox(screen), maximized |-> FALSE, natural |-> Natural,
            saved |-> [floating |-> FALSE, box |-> WorkspaceBox(screen)]]
  /\ drag = NoDrag
  /\ floatDid = [kind |-> "none"]
  /\ before = win
  /\ moves = 0

FloatingNext ==
  /\ moves < MaxMoves /\ moves' = moves + 1
  /\ \/ \E enable \in BOOLEAN : CmdFloating(enable) \/ SetMaximized(enable)
     \/ \E a \in BothAxes, end \in {"before", "after", "both"}, n \in {Amount, -Amount} :
          CmdResizeAdjust(a, end, n)
     \/ \E want \in [BothAxes -> Wants] : CmdResizeSet(want)
     \/ \E pos \in Spots : CmdMoveTo(pos)
     \/ CmdMoveCenter
     \/ \E edge \in Edges, ratio \in BOOLEAN, at \in Cursors : Begin(edge, ratio, at)
     \/ \E at \in Cursors : Motion(at)
     \/ Release
     \/ \E size \in Contents : HandleCommit(size) \/ HandleRequestConfigure(size)
     \/ \E s \in Screens : OutputChanges(s)
  /\ before' = IF win'.maximized THEN before ELSE win'

FloatingSpec == FloatingInit /\ [][FloatingNext]_floatVars

------------------------------------------------------------------------------
Apart(m, n) == Larger(m - n, n - m)

\* Whatever the client committed and commands did since the drag began, and
\* whatever limits were hit, a motion puts the edge opposite to the dragged
\* one where it was at the start; with a fixed ratio fractions are cut off, so
\* it may be a pixel away (seatop_resize_floating.c handle_pointer_motion).
OppositeEdgeStays ==
  [][floatDid'.kind = "motion" =>
       \A a \in BothAxes :
         /\ drag.edge[a] = "after" => win'.box.pos[a] = drag.box.pos[a]
         /\ drag.edge[a] = "before" =>
              Apart(FarEdge(win'.box, a), FarEdge(drag.box, a)) <= (IF drag.ratio THEN 1 ELSE 0)]_floatVars

\* Ending the maximized state on purpose gives back the window as it was before
\* it was maximized, tiled or floating with its box, though the output changed
\* or the client committed other sizes meanwhile (container_set_maximized).
UnmaximizeRestores ==
  [][floatDid'.kind = "restore" =>
       /\ win'.floating = before.floating
       /\ win'.floating => win'.box = before.box]_floatVars
=============================================================================
