--------------------------- MODULE ContainerTree ---------------------------
(***************************************************************************)
(* The tree of containers: sway/tree/container.c, workspace.c, root.c and  *)
(* view.c, with the commands and requests that change its shape: layout,   *)
(* split, floating, fullscreen, scratchpad, swap, move, map, unmap and the *)
(* requests of clients and task bars.                                      *)
(*                                                                         *)
(* A handler runs to completion, so each handler is one action; the C      *)
(* functions it calls are operators from a tree to a tree.  Lists of       *)
(* containers are sets, a neighbour is any sibling, and the container the  *)
(* focus stack would name is any container it could name.  A workspace is  *)
(* the visible one of its output, so an empty one is not destroyed.        *)
(*                                                                         *)
(* Slip... operators are plausible mistakes in the definition that follows *)
(* them; no specification uses them.                                       *)
(***************************************************************************)
EXTENDS Naturals, FiniteSets, SequencesExt

CONSTANTS
  Views,       \* containers of a view, each mapped at most once
  Splits,      \* containers without a view: a pool for container_create
  Workspaces,  \* one per output
  Layouts,     \* the layouts commands ask for
  None,        \* NULL
  Modes,       \* the fullscreen modes commands ask for
  ToOutput,    \* may clients and task bars ask for the fullscreen of an output
  MaxSteps     \* bound: how many handlers change the tree in a behaviour

Container == Views \cup Splits

ASSUME ConstantsOK ==
  /\ Views \cap Splits = {} /\ Container \cap Workspaces = {}
  /\ IsFiniteSet(Container) /\ IsFiniteSet(Workspaces)
  /\ Layouts \subseteq {"horiz", "vert", "tabbed", "stacked"}
  /\ None \notin Container \cup Workspaces
  /\ ToOutput \in BOOLEAN
  /\ Modes \subseteq {"none", "workspace", "global"}
  /\ MaxSteps \in Nat

VARIABLE s     \* the tree: see Tree

Life == {"unused", "live", "destroying", "freed"}
Mode == {"none", "workspace", "global"}     \* enum sway_fullscreen_mode

\* What the buttons of the pointer are doing (seat->seatop_impl and its data):
\* the container the operation is on, the ones a resize also tracks, and where
\* a dragged container would be dropped.
SeatOp ==
  [kind   : {"default", "down", "move_tiling", "move_floating",
             "resize_tiling", "resize_floating"},
   con    : Container \cup {None},
   held   : SUBSET Container,
   target : Container \cup Workspaces \cup {None},
   edge   : {"none", "horiz", "vert"},
   split  : BOOLEAN]

DefaultOp == [kind |-> "default", con |-> None, held |-> {}, target |-> None,
              edge |-> "none", split |-> FALSE]

\* What the code was not written for: a NULL pointer or freed memory used, and
\* a sway_assert that fails (the function returns; a debug build aborts).
Breach == {"null", "freed", "assert"}

Tree ==
  [life     : [Container -> Life],
   parent   : [Container -> Splits \cup {None}],
   ws       : [Container -> Workspaces \cup {None}],
   mode     : [Container -> Mode],
   kids     : [Splits -> SUBSET Container],
   tiling   : [Workspaces -> SUBSET Container],
   floating : [Workspaces -> SUBSET Container],
   layout   : [Splits \cup Workspaces -> {"horiz", "vert", "tabbed", "stacked"}],
   fs       : [Workspaces -> Container \cup {None}],   \* ws->fullscreen
   prev     : [Workspaces -> Container \cup {None}],   \* ws->prev_fullscreen
   global   : Container \cup {None},                   \* root->fullscreen_global
   scratch  : SUBSET Container,                        \* root->scratchpad
   op       : SeatOp,
   broken   : SUBSET Breach,
   steps    : Nat]

TypeOK == s \in Tree

Live(t) == {c \in Container : t.life[c] = "live"}
Break(t, how) == [t EXCEPT !.broken = @ \cup {how}]
More(f, k, c) == [f EXCEPT ![k] = f[k] \cup {c}]
Less(f, k, c) == [f EXCEPT ![k] = f[k] \ {c}]

------------------------------------------------------------------------------
(***************************************************************************)
(* Questions about the tree.                                               *)
(***************************************************************************)

\* A container and what container_for_each_child visits below it.
Inside(t, c) ==
  LET grow[n \in 0 .. Cardinality(Splits)] ==
        IF n = 0 THEN {c}
        ELSE grow[n-1] \cup UNION {t.kids[x] : x \in grow[n-1] \cap Splits}
  IN  grow[Cardinality(Splits)]

\* container_toplevel_ancestor
Toplevel(t, c) ==
  LET climb[n \in 0 .. Cardinality(Splits)] ==
        IF n = 0 THEN c
        ELSE IF t.parent[climb[n-1]] = None THEN climb[n-1]
        ELSE t.parent[climb[n-1]]
  IN  climb[Cardinality(Splits)]

HasAncestor(t, c, a) == a # c /\ a \in Splits /\ c \in Inside(t, a)

\* container_get_siblings
Siblings(t, c) ==
  LET w == t.ws[c]
  IN  CASE t.parent[c] # None -> t.kids[t.parent[c]]
        [] t.parent[c] = None /\ w = None -> {}
        [] OTHER -> IF c \in t.tiling[w] THEN t.tiling[w] ELSE t.floating[w]

IsFloating(t, c) ==
  \/ t.parent[c] = None /\ t.ws[c] # None /\ c \in t.floating[t.ws[c]]
  \/ c \in t.scratch

IsFloatingOrChild(t, c) == IsFloating(t, Toplevel(t, c))
IsScratchpadHidden(t, c) == c \in t.scratch /\ t.ws[c] = None
IsScratchpadHiddenOrChild(t, c) == IsScratchpadHidden(t, Toplevel(t, c))

ParentLayout(t, c) ==
  CASE t.parent[c] # None -> t.layout[t.parent[c]]
    [] t.parent[c] = None /\ t.ws[c] # None -> t.layout[t.ws[c]]
    [] OTHER -> "none"

\* is_parallel, with the layouts and directions named by their axis.
IsParallel(layout, axis) ==
  \/ axis = "horiz" /\ layout \in {"horiz", "tabbed"}
  \/ axis = "vert" /\ layout \in {"vert", "stacked"}

\* What seat_get_focus_inactive_tiling may return for workspace w.
Tiled(t, w) == {c \in Live(t) : t.ws[c] = w /\ ~IsFloatingOrChild(t, c)}
OneOf(S) == IF S = {} THEN {None} ELSE S

\* container_obstructing_fullscreen_container, without transient windows.
Obstructing(t, c) ==
  LET top == Toplevel(t, c)
      w   == t.ws[top]
  IN  CASE w # None /\ t.fs[w] # None /\ t.mode[top] = "none" ->
             IF c \in Inside(t, t.fs[w]) THEN None ELSE t.fs[w]
        [] OTHER ->
             IF t.global # None /\ top \notin Inside(t, t.global)
               THEN t.global ELSE None

------------------------------------------------------------------------------
(***************************************************************************)
(* Fullscreen.                                                             *)
(***************************************************************************)

SlipEndMouse(t, c) ==                \* a resize forgets only its container
  IF t.op.con = c THEN [t EXCEPT !.op = DefaultOp] ELSE t

\* container_end_mouse_operation: seatop_unref of the operation under way.  A
\* drag only loses its target if that is the container.
EndMouseOperation(t, c) ==
  CASE c \in {t.op.con} \cup t.op.held -> [t EXCEPT !.op = DefaultOp]
    [] c \notin {t.op.con} \cup t.op.held /\ t.op.target = c ->
         [t EXCEPT !.op.target = None, !.op.edge = "none", !.op.split = FALSE]
    [] OTHER -> t

\* container_fullscreen_disable
Disable(t, c) ==
  LET w == t.ws[c]
  IN  CASE t.life[c] = "freed" -> Break(t, "freed")
        [] t.life[c] # "freed" /\ t.mode[c] = "none" -> Break(t, "assert")
        [] OTHER ->
             EndMouseOperation(
               [t EXCEPT
                  !.mode[c] = "none",
                  !.fs = IF t.mode[c] = "workspace" /\ w # None
                           THEN [t.fs EXCEPT ![w] = None] ELSE @,
                  !.global = IF t.mode[c] = "global" THEN None ELSE @], c)

DisableIfSet(t, c) == IF c = None THEN t ELSE Disable(t, c)
DisableIfFullscreen(t, c) == IF t.mode[c] = "none" THEN t ELSE Disable(t, c)

\* container_fullscreen_workspace
EnterWorkspace(t, c) ==
  LET w == t.ws[c]
  IN  IF t.mode[c] # "none" THEN Break(t, "assert")
      ELSE EndMouseOperation(
             [t EXCEPT !.mode[c] = "workspace",
                       !.fs = IF w = None THEN @ ELSE [t.fs EXCEPT ![w] = c]], c)

\* container_fullscreen_global
EnterGlobal(t, c) ==
  IF t.mode[c] # "none" THEN Break(t, "assert")
  ELSE EndMouseOperation([t EXCEPT !.mode[c] = "global", !.global = c], c)

\* A container that takes the fullscreen of a workspace remembers whose
\* it was.
Displace(t, w) ==
  IF w = None \/ t.fs[w] = None THEN t
  ELSE Disable([t EXCEPT !.prev[w] = t.fs[w]], t.fs[w])

FullscreenWorkspace(t, c) ==
  IF t.mode[c] = "workspace" THEN t
  ELSE EnterWorkspace(Displace(DisableIfSet(t, t.global), t.ws[c]), c)

LeaveWorkspaceMode(t, c) == IF t.mode[c] = "workspace" THEN Disable(t, c) ELSE t

FullscreenGlobal(t, c) ==
  EnterGlobal(LeaveWorkspaceMode(DisableIfSet(t, t.global), c), c)

\* The displaced container gets its fullscreen back, if it still lives.
RestorePrevious(t, w) ==
  LET p == t.prev[w]
  IN  CASE w = None -> t
        [] w # None /\ p = None -> t
        [] w # None /\ p # None /\ t.life[p] = "freed" -> Break(t, "freed")
        [] w # None /\ p # None /\ t.life[p] = "destroying" -> t
        [] OTHER -> FullscreenWorkspace([t EXCEPT !.prev[w] = None], p)

\* container_set_fullscreen
SetFullscreen(t, c, mode) ==
  CASE t.mode[c] = mode -> t
    [] t.mode[c] # mode /\ mode = "none" -> RestorePrevious(Disable(t, c), t.ws[c])
    [] t.mode[c] # mode /\ mode = "workspace" -> FullscreenWorkspace(t, c)
    [] OTHER -> FullscreenGlobal(t, c)

------------------------------------------------------------------------------
(***************************************************************************)
(* Attaching and detaching.                                                *)
(***************************************************************************)

SlipSetWorkspace(t, c, w) == [t EXCEPT !.ws[c] = w]     \* not what is below

\* set_workspace for a container and everything below it.
SetWorkspace(t, c, w) ==
  LET moved == Inside(t, c)
  IN  [t EXCEPT !.ws = [x \in Container |-> IF x \in moved THEN w ELSE @[x]]]

ForgetFullscreen(t, c) ==
  CASE t.mode[c] = "workspace" /\ t.ws[c] = None -> Break(t, "null")
    [] t.mode[c] = "workspace" /\ t.ws[c] # None -> [t EXCEPT !.fs[t.ws[c]] = None]
    [] t.mode[c] = "global" -> [t EXCEPT !.global = None]
    [] OTHER -> t

\* container_detach
Detach(t, c) ==
  LET p == t.parent[c]
      w == t.ws[c]
      u == ForgetFullscreen(t, c)
      v == CASE p # None -> [u EXCEPT !.kids = Less(u.kids, p, c)]
             [] p = None /\ w = None -> u
             [] OTHER -> IF c \in t.tiling[w]
                           THEN [u EXCEPT !.tiling = Less(u.tiling, w, c)]
                           ELSE [u EXCEPT !.floating = Less(u.floating, w, c)]
  IN  SetWorkspace([v EXCEPT !.parent[c] = None], c, None)

Leave(t, c) == IF t.ws[c] = None THEN t ELSE Detach(t, c)
DetachIfPlaced(t, c) ==
  IF t.parent[c] = None /\ t.ws[c] = None THEN t ELSE Detach(t, c)

\* container_handle_fullscreen_reparent
HandleFullscreenReparent(t, c) ==
  LET w == t.ws[c]
  IN  IF t.mode[c] # "workspace" \/ w = None \/ t.fs[w] = c THEN t
      ELSE [DisableIfSet(t, t.fs[w]) EXCEPT !.fs[w] = c]

InTiling(t, w, c) ==      \* workspace_insert_tiling_direct, workspace_attach_tiling
  IF w = None THEN Break(t, "null")
  ELSE HandleFullscreenReparent(
         SetWorkspace([t EXCEPT !.tiling = More(t.tiling, w, c)], c, w), c)

InFloating(t, w, c) ==
  IF w = None THEN Break(t, "null")
  ELSE HandleFullscreenReparent(
         SetWorkspace([t EXCEPT !.floating = More(t.floating, w, c)], c, w), c)

InSplit(t, p, c) ==
  HandleFullscreenReparent(
    SetWorkspace([t EXCEPT !.kids = More(t.kids, p, c), !.parent[c] = p],
                 c, t.ws[p]), c)

AddChild(t, p, c) == InSplit(Leave(t, c), p, c)      \* and container_insert_child
InsertTiling(t, w, c) == InTiling(Leave(t, c), w, c)
AddFloating(t, w, c) == InFloating(Leave(t, c), w, c)

\* container_add_sibling, for a container that is in no workspace
Beside(t, fixed, c) ==
  LET w == t.ws[fixed]
      u == [t EXCEPT !.parent[c] = None]
  IN  CASE t.parent[fixed] # None -> InSplit(t, t.parent[fixed], c)
        [] t.parent[fixed] = None /\ w = None -> Break(t, "null")
        [] OTHER -> IF fixed \in t.tiling[w] THEN InTiling(u, w, c)
                                             ELSE InFloating(u, w, c)

AddSibling(t, fixed, c) == Beside(Leave(t, c), fixed, c)

------------------------------------------------------------------------------
(***************************************************************************)
(* Destroying.                                                             *)
(***************************************************************************)

\* The references of the container's own workspace are cleared, and a
\* displaced fullscreen container is put back.
CleanReferences(t, c) ==
  LET w == t.ws[c]
      u == IF w # None /\ t.prev[w] = c THEN [t EXCEPT !.prev[w] = None] ELSE t
  IN  IF w = None \/ t.mode[c] # "workspace" THEN u
      ELSE [RestorePrevious([u EXCEPT !.fs[w] = None], w) EXCEPT !.mode[c] = "none"]

\* container_begin_destroy
LeaveGlobalMode(t, c) == IF t.mode[c] = "global" THEN Disable(t, c) ELSE t

BeginDestroy(t, c) ==
  DetachIfPlaced(
    LeaveGlobalMode(EndMouseOperation([CleanReferences(t, c) EXCEPT
                                         !.life[c] = "destroying",
                                         !.scratch = @ \ {c}], c), c), c)

\* container_reap_empty: a split without children goes, and its parent if
\* that leaves it empty.
ReapEmpty(t, c) ==
  LET reap[n \in 0 .. Cardinality(Splits)] ==
        IF n = 0 THEN [tree |-> t, at |-> c]
        ELSE LET r == reap[n-1]
             IN  IF r.at \in Splits /\ r.tree.kids[r.at] = {}
                   THEN [tree |-> BeginDestroy(r.tree, r.at), at |-> r.tree.parent[r.at]]
                   ELSE r
  IN  reap[Cardinality(Splits)].tree

\* workspace_add_tiling
AddTiling(t, w, c) ==
  InTiling(IF t.ws[c] = None THEN t ELSE ReapEmpty(Detach(t, c), t.parent[c]), w, c)

------------------------------------------------------------------------------
(***************************************************************************)
(* Floating and the scratchpad.                                            *)
(***************************************************************************)

\* Back among the tiled containers: ref is the container the seat would focus
\* next there.
Tile(t, w, c, ref) ==
  CASE ref = None -> AddTiling(t, w, c)
    [] ref \in Views -> AddSibling(t, ref, c)
    [] OTHER -> AddChild(t, ref, c)

Float(t, c) == ReapEmpty(AddFloating(Detach(t, c), t.ws[c], c), t.parent[c])

SlipSetFloating(t, c, enable, ref) ==       \* stays in the scratchpad
  CASE IsFloating(t, c) = enable -> t
    [] IsFloating(t, c) # enable /\ enable -> Float(t, c)
    [] OTHER -> Tile(Detach(t, c), t.ws[c], c, ref)

\* container_set_floating
SetFloating(t, c, enable, ref) ==
  CASE IsFloating(t, c) = enable -> t
    [] IsFloating(t, c) # enable /\ enable -> EndMouseOperation(Float(t, c), c)
    [] OTHER ->
         EndMouseOperation(
           Tile(Detach([t EXCEPT !.scratch = @ \ {c}], c), t.ws[c], c, ref), c)

References(t, c) == OneOf(Tiled(t, t.ws[c]) \ Inside(t, c))

\* Out of the tree as a floating container, and onto workspace w if given.
SetAside(t, c) ==
  Detach(SetFloating(DisableIfFullscreen(t, c), c, TRUE, None), c)
PutOn(t, w, c) == IF w = None THEN t ELSE AddFloating(t, w, c)

SlipScratchpadAdd(t, c, w) == PutOn(SetAside(t, c), w, c)   \* not listed

\* root_scratchpad_add_container
ScratchpadAdd(t, c, w) ==
  CASE c \in t.scratch -> Break(t, "assert")
    [] c \notin t.scratch /\ t.ws[c] = None -> Break(t, "null")
    [] OTHER -> PutOn([SetAside(t, c) EXCEPT !.scratch = @ \cup {c}], w, c)

ScratchpadRemove(t, c) == [t EXCEPT !.scratch = @ \ {c}]

\* root_scratchpad_show on the focused workspace w; a hidden container comes
\* with its whole tree.
DisableGlobal(t) == DisableIfSet(t, t.global)
Uncover(t, w) == DisableGlobal(DisableIfSet(t, t.fs[w]))

ScratchpadShow(t, c, w) ==
  IF w = None THEN t
  ELSE AddFloating(Leave(Uncover(t, w), c), w,
                   IF t.ws[c] = None THEN Toplevel(t, c) ELSE c)

\* root_scratchpad_hide
DisableAll(t, q) ==
  LET disabled[i \in 0 .. Len(q)] ==
        IF i = 0 THEN t ELSE Disable(disabled[i-1], q[i])
  IN  disabled[Len(q)]

ScratchpadHide(t, c) ==
  LET fullscreen == {x \in Inside(t, c) : t.mode[x] # "none"}
  IN  IF t.mode[c] = "global" /\ t.ws[c] = None THEN t
      ELSE Detach(DisableAll(t, SetToSeq(fullscreen)), c)

------------------------------------------------------------------------------
(***************************************************************************)
(* Replacing, splitting, wrapping, squashing.                              *)
(***************************************************************************)

\* container_create for a split taken from the pool
Create(t, n, layout) == [t EXCEPT !.life[n] = "live", !.layout[n] = layout]

\* container_replace; w is the focused workspace
ShownAndRemoved(t, c, w) ==
  IF c \in t.scratch THEN ScratchpadRemove(ScratchpadShow(t, c, w), c) ELSE t

TakePlace(t, c, by) ==
  IF t.parent[c] = None /\ t.ws[c] = None THEN t ELSE Detach(AddSibling(t, c, by), c)

TakeScratchpad(t, inScratch, by, w) ==
  IF inScratch THEN ScratchpadAdd(t, by, w) ELSE t

TakeMode(t, mode, by) ==
  CASE mode = "workspace" -> EnterWorkspace(t, by)
    [] mode = "global" -> EnterGlobal(t, by)
    [] OTHER -> t

Replace(t, c, by, w) ==
  TakeMode(TakeScratchpad(TakePlace(ShownAndRemoved(DisableIfFullscreen(t, c), c, w),
                                    c, by),
                          c \in t.scratch, by, t.ws[c]),
           t.mode[c], by)

\* container_flatten: singleton parents are replaced by their child.
OnlyChild(t, p) == CHOOSE x \in t.kids[p] : TRUE

Flatten(t, c, w) ==
  LET flat[n \in 0 .. Cardinality(Splits)] ==
        IF n = 0 THEN [tree |-> t, at |-> c]
        ELSE LET r == flat[n-1]
             IN  IF r.at # None /\ Cardinality(r.tree.kids[r.at]) = 1
                   THEN [tree |-> BeginDestroy(Replace(r.tree, r.at, OnlyChild(r.tree, r.at), w),
                                                r.at),
                         at |-> r.tree.parent[r.at]]
                   ELSE r
  IN  flat[Cardinality(Splits)].tree

\* container_split: an only child in a plain layout changes that layout,
\* any other container gets the new split n around it.
SplitInPlace(t, c) ==
  /\ t.parent[c] # None \/ t.ws[c] # None
  /\ Siblings(t, c) = {c}
  /\ ~IsFloating(t, c)
  /\ ParentLayout(t, c) \in {"horiz", "vert"}

Split(t, c, layout, n, w) ==
  LET around == IF t.parent[c] # None THEN t.parent[c] ELSE t.ws[c]
  IN  IF SplitInPlace(t, c) THEN [t EXCEPT !.layout[around] = layout]
      ELSE AddChild(Replace(Create(t, n, layout), c, n, w), n, c)

\* workspace_wrap_children, into the new split n
WrapAll(t, q, n) ==
  LET wrapped[i \in 0 .. Len(q)] ==
        IF i = 0 THEN t ELSE AddChild(Detach(wrapped[i-1], q[i]), n, q[i])
  IN  wrapped[Len(q)]

WrapChildren(t, w, n) ==
  [InTiling(WrapAll(Create(t, n, t.layout[w]), SetToSeq(t.tiling[w]), n), w, n)
     EXCEPT !.fs[w] = t.fs[w]]

\* workspace_unwrap_children
TileAll(t, q, w) ==
  LET tiled[i \in 0 .. Len(q)] ==
        IF i = 0 THEN t ELSE AddTiling(Detach(tiled[i-1], q[i]), w, q[i])
  IN  tiled[Len(q)]

UnwrapChildren(t, w, wrap) ==
  TileAll([t EXCEPT !.layout[w] = t.layout[wrap]], SetToSeq(t.kids[wrap]), w)

\* container_is_squashable, of a split and its only child
IsSquashable(t, c) ==
  /\ c \in Splits
  /\ \E child \in Splits :
       /\ t.kids[c] = {child}
       /\ {t.layout[c], t.layout[child]} = {"horiz", "vert"}
       /\ IsParallel(ParentLayout(t, c), t.layout[child])

\* container_squash of a redundant pair: the grandchildren take its place.
LiftAll(t, q, p, w) ==
  LET lifted[i \in 0 .. Len(q)] ==
        IF i = 0 THEN t
        ELSE IF p # None THEN AddChild(Detach(lifted[i-1], q[i]), p, q[i])
        ELSE InTiling(Detach(lifted[i-1], q[i]), w, q[i])
  IN  lifted[Len(q)]

SquashPair(t, c) ==
  LET child == OnlyChild(t, c)
  IN  ReapEmpty(LiftAll(t, SetToSeq(t.kids[child]), t.parent[c], t.ws[c]), child)

\* workspace_squash finds the topmost redundant pairs.
SquashAll(t, q) ==
  LET squashed[i \in 0 .. Len(q)] ==
        IF i = 0 THEN t ELSE SquashPair(squashed[i-1], q[i])
  IN  squashed[Len(q)]

Squash(t, w) ==
  LET pairs == {c \in UNION {Inside(t, x) : x \in t.tiling[w]} : IsSquashable(t, c)}
      topmost == {c \in pairs : \A p \in pairs : ~HasAncestor(t, c, p)}
  IN  IF w = None THEN Break(t, "null")
      ELSE SquashAll(t, SetToSeq(topmost))

------------------------------------------------------------------------------
(***************************************************************************)
(* Swapping and moving.                                                    *)
(***************************************************************************)

\* Where a container is, for swap_places.
PlaceOf(t, c) == [parent |-> t.parent[c], ws |-> t.ws[c], floats |-> IsFloating(t, c)]

PutAt(t, c, place) ==
  CASE place.parent # None -> AddChild(t, place.parent, c)
    [] place.parent = None /\ place.floats -> AddFloating(t, place.ws, c)
    [] OTHER -> InsertTiling(t, place.ws, c)

\* The second container goes where the first was, even if putting the first
\* into place has moved things.
SwapPlaces(t, a, b) == PutAt(PutAt(t, a, PlaceOf(t, b)), b, PlaceOf(t, a))

\* A scratchpad container takes part in a swap as a plain floating one, and
\* the other container enters the scratchpad for it.
OutOfScratchpad(t, c, w) ==
  IF c \notin t.scratch THEN t
  ELSE ScratchpadRemove(IF t.ws[c] = None THEN ScratchpadShow(t, c, w) ELSE t, c)

IntoScratchpad(t, c, for, before, w) ==
  CASE for \notin before.scratch -> t
    [] for \in before.scratch /\ before.ws[for] # None ->
         ScratchpadShow(ScratchpadAdd(t, c, None), c, w)
    [] OTHER -> ScratchpadAdd(t, c, None)

SetModeIfAny(t, c, mode) == IF mode = "none" THEN t ELSE SetFullscreen(t, c, mode)

\* The exchange, when before was the tree and neither is in the scratchpad
\* any more in t.
Exchange(t, before, a, b, w) ==
  LET bare == DisableIfFullscreen(DisableIfFullscreen(t, a), b)
  IN  IF t.ws[a] = None \/ t.ws[b] = None THEN Break(bare, "null")
      ELSE SetModeIfAny(
             SetModeIfAny(
               IntoScratchpad(
                 IntoScratchpad(SwapPlaces(bare, a, b), b, a, before, w),
                 a, b, before, w),
               b, t.mode[a]),
             a, t.mode[b])

\* container_swap
Swap(t, a, b, w) ==
  Exchange(OutOfScratchpad(OutOfScratchpad(t, a, w), b, w), t, a, b, w)

\* container_move_to_workspace
MoveToWorkspace(t, c, w) ==
  LET u == Detach(t, c)
  IN  CASE t.ws[c] = w -> t
        [] t.ws[c] # w /\ IsFloating(t, c) ->
             IF t.ws[c] = None THEN Break(t, "null") ELSE AddFloating(u, w, c)
        [] OTHER ->
             IF c \in Splits /\ w # None /\ t.tiling[w] \cup t.floating[w] = {}
               THEN ReapEmpty(UnwrapChildren(u, w, c), c)
               ELSE AddTiling(u, w, c)

\* container_move_to_container
MoveToContainer(t, c, d) ==
  LET u == Detach(t, c)
  IN  CASE d \in Inside(t, c) -> t
        [] d \notin Inside(t, c) /\ IsFloating(t, c) -> MoveToWorkspace(t, c, t.ws[d])
        [] OTHER -> IF d \in Views THEN AddSibling(u, d, c) ELSE AddChild(u, d, c)
============================================================================
