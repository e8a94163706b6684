---------------------------- MODULE TreeCommands ----------------------------
(***************************************************************************)
(* The handlers that change the tree of containers: mapping and unmapping  *)
(* of views (view.c), the commands of sway/commands/ that reshape the tree *)
(* and the requests of clients and task bars.  Each handler is one action  *)
(* made of the operations of ContainerTree.                                *)
(***************************************************************************)
EXTENDS ContainerTree

\* A command addresses any container, by criteria or focus, or the focused
\* workspace; the seat focuses no workspace that a fullscreen container covers.
FocusableWorkspaces(t) == {w \in Workspaces : t.fs[w] = None /\ t.global = None}

\* seat_get_focused_workspace: none while a hidden container covers all.
FocusedWorkspaces(t) ==
  Workspaces \cup (IF t.global # None /\ t.ws[t.global] = None THEN {None} ELSE {})

Unused(t) == {n \in Splits : t.life[n] = "unused"}

\* The container a request is for: a hidden one stands for its whole tree.
Shown(t, c) == IF t.ws[c] = None THEN Toplevel(t, c) ELSE c
Whole(t, c) == IF IsFloatingOrChild(t, c) THEN Toplevel(t, c) ELSE c

\* The children of a workspace wrapped, and the layout some commands give the
\* workspace then.
WrapAndReset(t, w, n) == [WrapChildren(t, w, n) EXCEPT !.layout[w] = "horiz"]

Reaped(t, p) == IF p = None THEN t ELSE ReapEmpty(t, p)

------------------------------------------------------------------------------
(***************************************************************************)
(* Moving in a direction, along an axis.  The order of siblings is not     *)
(* modelled: any sibling can be the neighbour, or there may be none.       *)
(***************************************************************************)

\* container_move_to_container_from_direction goes down through the splits
\* that lie across the axis.
Landings(t, d, axis) ==
  LET across(x) == x \in Splits /\ ~IsParallel(t.layout[x], axis)
  IN  {x \in Inside(t, d) :
         /\ ~across(x)
         /\ \A a \in Inside(t, d) : HasAncestor(t, x, a) => across(a)}

BesideAncestor(t, c, a) ==
  IF t.parent[a] = None THEN InsertTiling(t, t.ws[a], c) ELSE AddChild(t, t.parent[a], c)

LandAt(t, c, x) ==
  LET siblings == t.parent[x] = t.parent[c] /\ t.ws[x] = t.ws[c]
  IN  CASE x \in Views /\ siblings -> t
        [] x \in Views /\ ~siblings -> Squash(BesideAncestor(t, c, x), t.ws[x])
        [] OTHER -> Squash(AddChild(t, x, c), t.ws[x])

Land(t, c, d, axis) == {LandAt(t, c, x) : x \in Landings(t, d, axis)}

\* container_move_to_workspace_from_direction
LandOnWorkspace(t, c, w, axis) ==
  CASE IsParallel(t.layout[w], axis) -> {InsertTiling(t, w, c)}
    [] ~IsParallel(t.layout[w], axis) /\ t.tiling[w] = {} -> {AddTiling(t, w, c)}
    [] OTHER -> UNION {Land(t, c, d, axis) : d \in t.tiling[w]}

\* container_move_to_next_output, from the output of workspace w
NextOutput(t, c, w, axis) ==
  UNION {CASE t.mode[c] = "none"      -> LandOnWorkspace(t, c, x, axis)
           [] t.mode[c] = "workspace" -> {MoveToWorkspace(t, c, x)}
           [] OTHER                   -> {} : x \in Workspaces \ {w}}

\* The ancestors at which the search of container_move_in_direction ends,
\* and the nearest of them.
Blocked(t, a) == t.mode[a] # "none" \/ IsFloating(t, a)
Stops(t, c, axis) ==
  {a \in Container : HasAncestor(t, c, a)
                     /\ (Blocked(t, a) \/ IsParallel(ParentLayout(t, a), axis))}
Nearest(t, S) == CHOOSE a \in S : \A b \in S : a \in Inside(t, b)

\* The container leaves its parent for the level of ancestor a.
SquashAround(t, c) == Squash(t, t.ws[c])

Promote(t, c, a) == SquashAround(Reaped(BesideAncestor(t, c, a), t.parent[c]), c)

\* Beside ancestor a: into a cousin, over to the next output when the
\* container is as good as at workspace level, or promoted.
Beyond(t, c, a, axis) ==
  LET cousins == Siblings(t, a) \ {a}
      p == t.parent[c]
  IN  (UNION {Land(t, c, d, axis) : d \in cousins}) \cup
      (IF t.parent[p] = None /\ t.kids[p] = {c}
         THEN NextOutput(t, c, t.ws[a], axis) ELSE {Promote(t, c, a)})

\* The trees container_move_in_direction can leave when it moves; n is the
\* split that workspace_wrap_children would create.
MoveInDirection(t, c, axis, n) ==
  LET w     == t.ws[c]
      level == IsParallel(ParentLayout(t, c), axis)
      stops == Stops(t, c, axis)
      a     == Nearest(t, stops)
      wrapped == [WrapChildren(t, w, n) EXCEPT !.layout[w] = axis]
      climbs == t.mode[c] = "none" /\ ~(level /\ t.parent[c] = None)
      out    == t.mode[c] = "workspace" \/ (t.mode[c] = "none" /\ ~climbs)
  IN  UNION {
        IF t.mode[c] = "none" /\ level
          THEN UNION {Land(t, c, d, axis) : d \in Siblings(t, c) \ {c}} ELSE {},
        CASE ~out -> {}
          [] out /\ w = None -> {Break(t, "null")}
          [] OTHER -> NextOutput(t, c, w, axis),
        CASE ~climbs \/ (stops # {} /\ Blocked(t, a)) -> {}
          [] climbs /\ stops # {} /\ ~Blocked(t, a) -> Beyond(t, c, a, axis)
          [] OTHER -> IF n = None THEN {} ELSE {Promote(wrapped, c, n)}}

------------------------------------------------------------------------------
(***************************************************************************)
(* What the commands do to a container.                                    *)
(***************************************************************************)

\* cmd_move_to_scratchpad
MoveToScratchpad(t, con) ==
  LET c == Whole(t, con)
  IN  CASE c \notin t.scratch -> ScratchpadAdd(t, c, None)
        [] c \in t.scratch /\ t.ws[c] # None -> ScratchpadHide(t, c)
        [] OTHER -> t

\* cmd_move_container; the destination is a container or a workspace.
MoveContainer(t, c, dest, w) ==
  LET u == IF IsScratchpadHiddenOrChild(t, c)
             THEN ScratchpadShow(Detach(t, c), c, w) ELSE t
  IN  Reaped(IF dest \in Workspaces THEN MoveToWorkspace(u, c, dest)
                                    ELSE MoveToContainer(u, c, dest), t.parent[c])

\* handle_request_fullscreen of an xdg toplevel asking for the output of w
BringTo(t, c, w) ==
  IF IsFloating(t, c) THEN AddFloating(t, w, c) ELSE AddTiling(t, w, c)

\* Minimizing is hiding in the scratchpad.
Minimized(t, c) ==
  CASE c \notin t.scratch -> ScratchpadAdd(t, c, None)
    [] c \in t.scratch /\ t.ws[c] # None -> ScratchpadHide(t, c)
    [] OTHER -> t

\* view_map next to sibling ref, or on workspace w if there is none: as a
\* floating container if floats, and after a fullscreen view it is a dialog
\* of has been told to leave fullscreen.
FloatIf(t, c, floats) == IF floats THEN SetFloating(t, c, TRUE, None) ELSE t
TellParent(t, w, leave) ==
  IF leave /\ w # None /\ t.fs[w] \in Views THEN SetFullscreen(t, t.fs[w], "none") ELSE t
AfterMapping(t, c, leave) == TellParent(t, t.ws[c], leave)

Mapped(t, c, w, ref, floats, leave, full) ==
  LET placed == IF ref = None THEN AddTiling(t, w, c) ELSE AddSibling(t, ref, c)
  IN  SetModeIfAny(AfterMapping(FloatIf(placed, c, floats),
                                c, leave),
                   c, IF full THEN "workspace" ELSE "none")

\* The containers view_map can find focused, for workspace w or without one.
SiblingsToMap(t, w) ==
  IF w = None THEN {c \in Live(t) : t.ws[c] = None /\ t.global # None
                                    /\ c \in Inside(t, t.global) /\ ~IsFloating(t, c)}
  ELSE {c \in Live(t) : t.ws[c] = w /\ ~IsFloating(t, c)}

------------------------------------------------------------------------------
(***************************************************************************)
(* The handlers.                                                           *)
(***************************************************************************)

Init ==
  \E layout \in [Splits \cup Workspaces -> Layouts] :
    /\ \A a, b \in Splits \cup Workspaces : layout[a] = layout[b]
    /\ s = [life |-> [c \in Container |-> "unused"],
            parent |-> [c \in Container |-> None],
            ws |-> [c \in Container |-> None],
            mode |-> [c \in Container |-> "none"],
            kids |-> [c \in Splits |-> {}],
            tiling |-> [w \in Workspaces |-> {}],
            floating |-> [w \in Workspaces |-> {}],
            layout |-> layout,
            fs |-> [w \in Workspaces |-> None],
            prev |-> [w \in Workspaces |-> None],
            global |-> None, scratch |-> {}, op |-> DefaultOp, broken |-> {},
            steps |-> 0]

\* A handler that uses NULL or freed memory ends the behaviour: the program
\* crashes, or what it does next is undefined.
Undefined(t) == t.broken \cap {"null", "freed"} # {}

Running == ~Undefined(s) /\ s.steps < MaxSteps

Becomes(t) ==
  s' = IF Undefined(t) THEN [s EXCEPT !.broken = t.broken]
       ELSE [t EXCEPT !.steps = @ + 1]

HandleMap(c) ==
  /\ Running /\ s.life[c] = "unused"
  /\ LET t == [s EXCEPT !.life[c] = "live"]
     IN  \E w \in Workspaces \cup {None}, floats, leave, full \in BOOLEAN :
           \E ref \in SiblingsToMap(s, w) \cup (IF w = None THEN {} ELSE {None}) :
             Becomes(Mapped(t, c, w, ref, floats, leave, full))

HandleUnmap(c) ==
  /\ Running /\ s.life[c] = "live"
  /\ Becomes(Reaped(BeginDestroy(s, c), s.parent[c]))

\* container_destroy, once no transaction refers to the container.
ContainerDestroy(c) ==
  /\ ~Undefined(s) /\ s.life[c] = "destroying"
  /\ s' = [s EXCEPT !.life[c] = "freed"]

CmdFullscreen(c, mode) ==
  Running /\ c \in Live(s) /\ Becomes(SetFullscreen(s, Shown(s, c), mode))

CmdFloating(con, wants) ==
  LET c == Whole(s, con)
  IN  /\ Running /\ con \in Live(s) /\ ~IsScratchpadHidden(s, con)
      /\ \E ref \in References(s, c) : Becomes(SetFloating(s, c, wants, ref))

CmdFloatingWorkspace(w, n) ==
  /\ Running /\ w \in FocusableWorkspaces(s) /\ n \in Unused(s) /\ s.tiling[w] # {}
  /\ Becomes(SetFloating(WrapAndReset(s, w, n), n, TRUE, None))

CmdSplit(c, layout, n, w) ==
  /\ Running /\ c \in Live(s) /\ w \in FocusedWorkspaces(s)
  /\ IF SplitInPlace(s, c) THEN n = None ELSE n \in Unused(s)
  /\ ~IsScratchpadHiddenOrChild(s, c) \/ s.mode[c] = "global"
  /\ Becomes(Split(s, c, layout, n, w))

CmdSplitWorkspace(w, layout, n) ==
  /\ Running /\ w \in FocusableWorkspaces(s)
  /\ IF s.tiling[w] = {} THEN n = None ELSE n \in Unused(s)
  /\ Becomes([(IF s.tiling[w] = {} THEN s ELSE WrapChildren(s, w, n))
                EXCEPT !.layout[w] = layout])

\* The commands arrange the workspace they found, or the screen.
Arranged(t, w) == IF w = None /\ t.global = None THEN Break(t, "null") ELSE t

CmdUnsplit(c, w) ==
  LET p == s.parent[c]
  IN  /\ Running /\ c \in Live(s) /\ w \in FocusedWorkspaces(s)
      /\ p # None /\ s.kids[p] = {c}
      /\ Becomes(Arranged(Flatten(s, p, w), s.ws[c]))

CmdLayout(c, layout) ==
  LET p == s.parent[c]
      w == s.ws[c]
  IN  /\ Running /\ c \in Live(s) /\ ~IsFloating(s, c)
      /\ CASE w = None -> Becomes(Break(s, "null"))
           [] w # None /\ p # None -> Becomes([s EXCEPT !.layout[p] = layout])
           [] OTHER -> /\ s.layout[w] # layout
                       /\ \E n \in Unused(s) :
                            Becomes([WrapChildren(s, w, n) EXCEPT !.layout[n] = layout])

CmdLayoutWorkspace(w, layout) ==
  /\ Running /\ w \in FocusableWorkspaces(s)
  /\ Becomes([s EXCEPT !.layout[w] = layout])

\* scratchpad show hides what is shown on the focused workspace.
CmdScratchpad(c, w) ==
  /\ Running /\ c \in s.scratch /\ w \in FocusedWorkspaces(s) /\ w # None
  /\ \/ s.ws[c] = w /\ Becomes(ScratchpadHide(s, c))
     \/ Becomes(ScratchpadShow(s, c, w))

CmdMoveToScratchpad(c) ==
  Running /\ c \in Live(s) /\ Becomes(MoveToScratchpad(s, c))

CmdMoveToScratchpadWorkspace(w, n) ==
  /\ Running /\ w \in FocusableWorkspaces(s) /\ n \in Unused(s) /\ s.tiling[w] # {}
  /\ Becomes(MoveToScratchpad(WrapAndReset(s, w, n), n))

CmdMoveContainer(c, dest, w) ==
  /\ Running /\ c \in Live(s) /\ w \in FocusedWorkspaces(s)
  /\ dest \in Live(s) \cup Workspaces /\ s.mode[c] # "global"
  /\ Becomes(IF dest \in Container /\ IsScratchpadHidden(s, dest)
               THEN MoveToScratchpad(s, c) ELSE MoveContainer(s, c, dest, w))

\* Of a workspace: its wrapped children move; a hidden destination has them
\* wrapped once more.
CmdMoveWorkspaceChildren(from, n, dest) ==
  LET t == WrapChildren(s, from, n)
  IN  /\ Running /\ from \in FocusableWorkspaces(s) /\ n \in Unused(s)
      /\ s.tiling[from] # {} /\ dest \in Live(s) \cup Workspaces
      /\ IF dest \in Container /\ IsScratchpadHidden(t, dest)
           THEN \E m \in Unused(t) : Becomes(MoveToScratchpad(WrapAndReset(t, from, m), m))
           ELSE Becomes(MoveContainer(t, n, dest, from))

CmdMoveInDirection(c, axis) ==
  /\ Running /\ c \in Live(s) /\ ~IsFloating(s, c)
  /\ \E n \in OneOf(Unused(s)) : \E t \in MoveInDirection(s, c, axis, n) :
       Becomes(EndMouseOperation(Reaped(t, s.parent[c]), c))

CmdSwap(c, other, w) ==
  /\ Running /\ c \in Live(s) /\ other \in Live(s) \ {c}
  /\ w \in FocusedWorkspaces(s)
  /\ ~HasAncestor(s, c, other) /\ ~HasAncestor(s, other, c)
  /\ Becomes(Swap(s, c, other, w))

\* focus by criteria shows a hidden container and removes the fullscreen
\* that would cover it.
CmdFocus(c, w) ==
  LET t == IF IsScratchpadHiddenOrChild(s, c) THEN ScratchpadShow(s, c, w) ELSE s
  IN  /\ Running /\ c \in Live(s) /\ w \in FocusedWorkspaces(s)
      /\ Becomes(DisableIfSet(t, Obstructing(t, c)))

\* The requests of clients and task bars name any view.

HandleActivate(c, w) ==
  /\ Running /\ c \in Live(s) /\ w \in FocusedWorkspaces(s)
  /\ IsScratchpadHiddenOrChild(s, c)
  /\ Becomes(ScratchpadShow(s, c, w))

RequestFullscreen(c, on, w) ==
  LET t == IF on /\ w # None /\ ~IsScratchpadHidden(s, c) /\ s.ws[c] # w
             THEN BringTo(s, c, w) ELSE s
  IN  /\ Running /\ c \in Live(s) /\ (w # None => ToOutput)
      /\ Becomes(SetFullscreen(t, c, IF on THEN "workspace" ELSE "none"))

ForeignFullscreen(c, on, w) ==
  LET t == IF on /\ w # None /\ ~IsScratchpadHidden(s, c) THEN BringTo(s, c, w) ELSE s
  IN  /\ Running /\ c \in Live(s) /\ (w # None => ToOutput)
      /\ Becomes(SetFullscreen(t, Shown(s, c), IF on THEN "workspace" ELSE "none"))

RequestMinimize(c) ==
  Running /\ c \in Live(s) /\ Becomes(Minimized(s, Shown(s, c)))

RequestRestore(c, w) ==
  /\ Running /\ c \in Live(s) /\ w \in FocusedWorkspaces(s)
  /\ Shown(s, c) \in s.scratch
  /\ Becomes(ScratchpadShow(s, Shown(s, c), w))

CommandOnContainer(c) ==
  \/ \E mode \in Modes : CmdFullscreen(c, mode)
  \/ \E wants \in BOOLEAN : CmdFloating(c, wants)
  \/ \E layout \in Layouts, n \in Splits \cup {None}, w \in Workspaces \cup {None} :
       CmdSplit(c, layout, n, w)
  \/ \E layout \in Layouts : CmdLayout(c, layout)
  \/ CmdMoveToScratchpad(c)
  \/ \E axis \in {"horiz", "vert"} : CmdMoveInDirection(c, axis)
  \/ \E w \in Workspaces \cup {None} :
       \/ CmdUnsplit(c, w) \/ CmdScratchpad(c, w) \/ CmdFocus(c, w)
       \/ \E dest \in Container \cup Workspaces : CmdMoveContainer(c, dest, w)
       \/ \E other \in Container : CmdSwap(c, other, w)

CommandOnWorkspace(w) ==
  \/ \E layout \in Layouts :
       \/ CmdLayoutWorkspace(w, layout)
       \/ \E n \in Splits \cup {None} : CmdSplitWorkspace(w, layout, n)
  \/ \E n \in Splits :
       \/ CmdFloatingWorkspace(w, n) \/ CmdMoveToScratchpadWorkspace(w, n)
       \/ \E dest \in Container \cup Workspaces : CmdMoveWorkspaceChildren(w, n, dest)

Request(c) ==
  \/ HandleMap(c) \/ HandleUnmap(c) \/ RequestMinimize(c)
  \/ \E w \in Workspaces \cup {None} :
       \/ HandleActivate(c, w) \/ RequestRestore(c, w)
       \/ \E on \in BOOLEAN : RequestFullscreen(c, on, w) \/ ForeignFullscreen(c, on, w)

Next ==
  \/ \E c \in Container : CommandOnContainer(c) \/ ContainerDestroy(c)
  \/ \E w \in Workspaces : CommandOnWorkspace(w)
  \/ \E c \in Views : Request(c)

Spec == Init /\ [][Next]_s

------------------------------------------------------------------------------
(***************************************************************************)
(* Properties of the shape of the tree.                                    *)
(***************************************************************************)

\* Detaching and attaching (container_detach, container_add_child,
\* workspace_add_tiling and the others) keep lists and pointers together: a
\* container is in the list its parent and workspace pointers name, and in no
\* other, and one that is being destroyed is in none.
ListedWherePointed ==
  \A c \in Container :
    /\ \A p \in Splits : c \in s.kids[p] <=> s.life[c] = "live" /\ s.parent[c] = p
    /\ \A w \in Workspaces :
         /\ c \in s.tiling[w] \cup s.floating[w]
              <=> s.life[c] = "live" /\ s.parent[c] = None /\ s.ws[c] = w
         /\ c \notin s.tiling[w] \cap s.floating[w]

\* However it was wrapped, moved, swapped or shown, a tree of containers is on
\* one workspace as a whole, or hidden as a whole.
TreeOnOneWorkspace ==
  \A c \in Live(s) : s.parent[c] # None => s.ws[c] = s.ws[s.parent[c]]

\* Every handler that takes the last child out of a split reaps the split, and
\* the splits that leaves empty (container_reap_empty).
NoEmptySplit == \A p \in Live(s) \cap Splits : s.kids[p] # {}

\* Every container is in one place, and its tree in one piece.
WellPlaced == TypeOK /\ ListedWherePointed /\ TreeOnOneWorkspace /\ NoEmptySplit

\* No window gets lost: a container is on a workspace, or its tree is in the
\* scratchpad, from where a command can show it again.
NoLostWindow ==
  \A c \in Live(s) : s.ws[c] # None \/ Toplevel(s, c) \in s.scratch

\* The scratchpad holds live whole trees, and the ones it shows float: the
\* code takes any container with con->scratchpad for a floating one.
ScratchpadHoldsTrees ==
  \A c \in s.scratch :
    /\ s.life[c] = "live" /\ s.parent[c] = None
    /\ s.ws[c] # None => c \in s.floating[s.ws[c]]

\* What container_begin_destroy says it does: "Clean up any workspace
\* references to this container".
NoReferenceToDestroyed ==
  \A w \in Workspaces, c \in Container :
    c \in {s.fs[w], s.prev[w]} => s.life[c] = "live"

\* What container.h says of the parent: "NULL if container in root of
\* workspace".
RootOfWorkspaceHasNoParent ==
  \A w \in Workspaces : \A c \in s.tiling[w] \cup s.floating[w] : s.parent[c] = None
============================================================================
