------------------------------ MODULE SeatOps ------------------------------
(***************************************************************************)
(* The operations of the pointer on containers, sway/input/seatop_*.c: a   *)
(* button pressed on a container starts one, motion carries it on, and the *)
(* release of the last button or the lift of the pen ends it.  They        *)
(* interleave with every handler of TreeCommands, which ends an operation  *)
(* only through container_end_mouse_operation.                             *)
(*                                                                         *)
(* Where the pointer is, and the sizes it drags, are not modelled: it can  *)
(* hover anything visible and be near any edge of it.                      *)
(***************************************************************************)
EXTENDS TreeCommands

\* container_is_fullscreen_or_child
IsFullscreenOrChild(t, c) == \E a \in Live(t) : c \in Inside(t, a) /\ t.mode[a] # "none"

\* node_at_coords finds windows, and splits by their title in tabs and stacks,
\* and never what a fullscreen container covers.
Hovered(t) ==
  {c \in Live(t) :
     /\ c \in Views \/ ParentLayout(t, c) \in {"tabbed", "stacked"}
     /\ Obstructing(t, c) = None
     /\ t.ws[c] # None \/ (t.global # None /\ c \in Inside(t, t.global))}

Begun(kind, c, held) == [DefaultOp EXCEPT !.kind = kind, !.con = c, !.held = held]

Does(op) == s' = [s EXCEPT !.op = op]

Idle == ~Undefined(s) /\ s.op.kind = "default"
Under(kind) == ~Undefined(s) /\ s.op.kind = kind

------------------------------------------------------------------------------
(***************************************************************************)
(* A press on container c: handle_button and handle_tablet_tool_tip of     *)
(* seatop_default.c, by what is under the pointer and the modifiers.       *)
(***************************************************************************)

BeginDown(c) == Idle /\ c \in Hovered(s) \cap Views /\ Does(Begun("down", c, {}))

\* On a floating tree the whole tree moves or is resized.
BeginOnFloating(c, kind) ==
  /\ Idle /\ c \in Hovered(s)
  /\ IsFloatingOrChild(s, c) /\ ~IsFullscreenOrChild(s, c)
  /\ Does(Begun(kind, Toplevel(s, c), {}))

BeginMoveTiling(c) ==
  /\ Idle /\ c \in Hovered(s)
  /\ ~IsFloatingOrChild(s, c) /\ s.mode[c] = "none"
  /\ Does(Begun("move_tiling", c, {}))

\* container_find_resize_parent with container_get_resize_sibling: the nearest
\* ancestor in a layout along the axis with a neighbour on the dragged side;
\* which side that is depends on the order.
ResizePairs(t, c, axis) ==
  {{a, b} : a \in {x \in Container : c \in Inside(t, x) /\ ParentLayout(t, x) = axis},
            b \in Container}
ResizedWith(t, c, axis) ==
  {pair \in ResizePairs(t, c, axis) :
     \E a, b \in pair : a # b /\ c \in Inside(t, a) /\ b \in Siblings(t, a)}

\* By the border along one axis, or with the modifier along both.
BeginResizeTiling(c) ==
  /\ Idle /\ c \in Hovered(s) /\ ~IsFloating(s, c)
  /\ \/ c \in Views /\ s.mode[c] = "none"
        /\ \E axis \in {"horiz", "vert"} : \E pair \in ResizedWith(s, c, axis) :
             Does(Begun("resize_tiling", c, pair))
     \/ ~IsFloatingOrChild(s, c)
        /\ \E h \in ResizedWith(s, c, "horiz") \cup {{}},
              v \in ResizedWith(s, c, "vert") \cup {{}} :
             Does(Begun("resize_tiling", c, h \cup v))

------------------------------------------------------------------------------
(***************************************************************************)
(* Dragging a tiled container.                                             *)
(***************************************************************************)

Aim(target, edge, split) == [target |-> target, edge |-> edge, split |-> split]
NoAim == Aim(None, "none", FALSE)

Up(t, n) == IF t.parent[n] # None THEN t.parent[n] ELSE t.ws[n]

\* The edges that lie across the layout a container is in.
Across(t, a) ==
  CASE ParentLayout(t, a) \in {"horiz", "tabbed"} -> "vert"
    [] ParentLayout(t, a) \in {"vert", "stacked"} -> "horiz"
    [] OTHER -> "none"

\* Near an edge of the hovered container h: beside it and its siblings in the
\* node that holds an ancestor of it, or in the node that holds c if that is c.
AimsAtEdge(t, c, h) ==
  {Aim(IF Up(t, a) = c THEN Up(t, c) ELSE Up(t, a), Across(t, a), FALSE) :
     a \in {x \in Container : h \in Inside(t, x) /\ Across(t, x) # "none"}}

AimsAtTitle(t, c, h) ==
  CASE HasAncestor(t, h, c) -> {}
    [] h = c -> {NoAim}
    [] OTHER -> {Aim(h, "none", TRUE)}

AimsAtView(t, c, h) ==
  IF h \in Splits \/ h \in Inside(t, c) THEN {NoAim}
  ELSE {Aim(h, edge, FALSE) : edge \in {"none", "horiz", "vert"}}

\* A window alone on its workspace cannot be dropped there.
Alone(t, c) == Cardinality(Tiled(t, t.ws[c]) \cap Views) = 1

Aims(t, c, h) ==
  IF Alone(t, c) /\ t.ws[h] = t.ws[c] THEN {NoAim}
  ELSE AimsAtEdge(t, c, h) \cup AimsAtTitle(t, c, h) \cup AimsAtView(t, c, h)

\* handle_motion_postthreshold; no node under the pointer, a workspace, or a
\* container.  The code counts the windows of con's workspace without asking
\* whether it has one.
MotionMoveTiling ==
  LET c == s.op.con
      aims(a) == Does([s.op EXCEPT !.target = a.target, !.edge = a.edge, !.split = a.split])
  IN  /\ Under("move_tiling")
      /\ \/ aims(NoAim)
         \/ \E w \in FocusableWorkspaces(s) : aims(Aim(w, "none", FALSE))
         \/ \E h \in Hovered(s) :
              IF s.ws[c] = None \/ s.ws[h] = None THEN Becomes(Break(s, "null"))
              ELSE \E a \in Aims(s, c, h) : aims(a)

\* The drop beside a container: a title joins its tabs, an edge splits it if
\* its layout does not run that way.  n is the split container_split makes.
DropOnTitle(t, c, target, n, w) ==
  AddSibling(IF ParentLayout(t, target) \in {"tabbed", "stacked"} THEN t
             ELSE Split(t, target, "tabbed", n, w),
             target, c)

Along(layout, edge) == (layout \in {"horiz", "tabbed"}) = (edge = "horiz")

DropBeside(t, c, target, edge, n, w) ==
  AddSibling(IF edge = "none" \/ Along(ParentLayout(t, target), edge) THEN t
             ELSE Split(t, target, edge, n, w),
             target, c)

\* workspace_split and workspace_insert_tiling
DropOnWorkspaceEdge(t, c, w, edge, n) ==
  InsertTiling([(IF t.tiling[w] = {} THEN t ELSE WrapChildren(t, w, n))
                  EXCEPT !.layout[w] = edge], w, c)

SwapsPlaces(op) == op.target \in Container /\ op.edge = "none" /\ ~op.split

SwapWith(t, c, target, w) ==
  IF HasAncestor(t, c, target) \/ HasAncestor(t, target, c) THEN Break(t, "assert")
  ELSE Swap(t, target, c, w)

Placed(t, op, n, w) ==
  LET c == op.con
      u == Detach(t, c)
  IN  CASE SwapsPlaces(op) -> SwapWith(t, c, op.target, w)
        [] op.target \in Workspaces /\ op.edge = "none" -> AddTiling(u, op.target, c)
        [] op.target \in Workspaces /\ op.edge # "none" ->
             DropOnWorkspaceEdge(u, c, op.target, op.edge, n)
        [] op.target \in Container /\ op.split -> DropOnTitle(u, c, op.target, n, w)
        [] OTHER -> DropBeside(u, c, op.target, op.edge, n, w)

\* The emptied parent goes, the dropped container takes the size of a sibling,
\* and both workspaces are arranged.
ArrangedAround(t, c, old, dest, parent) ==
  LET u == Reaped(t, parent)
  IN  CASE u.ws[c] = None /\ u.parent[c] = None -> Break(u, "null")
        [] old = None \/ dest = None -> Break(u, "null")
        [] OTHER -> u

Ended(t) == [t EXCEPT !.op = DefaultOp]

\* finalize_move
Drop(n, w) ==
  LET op   == s.op
      c    == op.con
      dest == IF op.target \in Workspaces THEN op.target ELSE s.ws[op.target]
  IN  /\ Under("move_tiling") /\ Running
      /\ n \in Unused(s) /\ w \in FocusedWorkspaces(s)
      /\ op.target # None
      /\ Becomes(Ended(ArrangedAround(Placed(s, op, n, w), c, s.ws[c], dest,
                                      s.parent[c])))

Cancel == Under("move_tiling") /\ s.op.target = None /\ Does(DefaultOp)

------------------------------------------------------------------------------
(***************************************************************************)
(* The other operations.                                                   *)
(***************************************************************************)

\* container_floating_move_to, over the output of workspace w
FloatingMoveTo(t, c, w) ==
  CASE ~IsFloating(t, c) -> Break(t, "assert")
    [] IsFloating(t, c) /\ (t.ws[c] = None \/ t.ws[c] = w) -> t
    [] OTHER -> AddFloating(Detach(t, c), w, c)

MotionMoveFloating(w) ==
  LET t == FloatingMoveTo(s, s.op.con, w)
  IN  Under("move_floating") /\ Running /\ t # s /\ Becomes(t)

ReleaseMoveFloating(w) ==
  Under("move_floating") /\ Running /\ Becomes(Ended(FloatingMoveTo(s, s.op.con, w)))

\* A resize changes sizes only; its end takes back the resizing hint.
Release ==
  /\ \E kind \in {"down", "resize_tiling", "resize_floating"} : Under(kind)
  /\ Does(DefaultOp)

Press(c) ==
  \/ BeginDown(c) \/ BeginMoveTiling(c) \/ BeginResizeTiling(c)
  \/ \E kind \in {"move_floating", "resize_floating"} : BeginOnFloating(c, kind)

Pointer ==
  \/ \E c \in Container : Press(c)
  \/ MotionMoveTiling \/ Cancel \/ Release
  \/ \E w \in Workspaces : MotionMoveFloating(w) \/ ReleaseMoveFloating(w)
  \/ \E n \in Splits, w \in Workspaces \cup {None} : Drop(n, w)

SeatNext == Next \/ Pointer
SeatSpec == Init /\ [][SeatNext]_s

------------------------------------------------------------------------------
(***************************************************************************)
(* Properties.                                                             *)
(***************************************************************************)

\* Whatever commands, clients and other windows do between two motions of the
\* pointer, the operation refers to no container that is being destroyed: every
\* path to container_begin_destroy ends or adjusts it (container.c:693), and the
\* siblings a resize tracks count as much as the container that was pressed.
OperandsLive ==
  \A c \in ({s.op.con, s.op.target} \cap Container) \cup s.op.held :
    s.life[c] = "live"

\* What is dragged or resized with the pointer survives the commands given
\* meanwhile, and dropping it leaves a tree that is as sound as before.
TreeSurvivesDrag == OperandsLive /\ NoEmptySplit /\ ListedWherePointed

\* The tree stays a tree.  The comment at the title bars of a drag,
\* seatop_move_tiling.c:405, wants "the destination container is not a
\* descendant of the source container"; the edges do not ask.
NoContainerInsideItself ==
  \A p \in Splits : \A c \in s.kids[p] : p \notin Inside(s, c)
============================================================================
