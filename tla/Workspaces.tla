----------------------------- MODULE Workspaces -----------------------------
(***************************************************************************)
(* Outputs, workspaces and the focus of a seat: sway/tree/output.c,        *)
(* workspace.c, the focus stack of sway/input/seat.c, and the launch       *)
(* contexts of sway/desktop/launcher.c.                                    *)
(*                                                                         *)
(* The C functions are operators from a state to a state; the handlers     *)
(* that call them are the actions of WorkspaceHandlers.  A window is a     *)
(* container without a parent.  All workspaces are numbered, so that a     *)
(* list of workspaces, always sorted, is a set; there is one seat, as for  *)
(* input_manager_current_seat.                                             *)
(***************************************************************************)
EXTENDS Naturals, FiniteSets, SequencesExt

CONSTANTS
  Outputs,      \* the connectors an output may be plugged into
  Noop,         \* root->fallback_output
  Ids,          \* a pool of workspace objects
  Windows,
  Numbers,      \* the names of workspaces
  Assigned,     \* "workspace <name> output <outputs...>": a list per name
  Bindings,     \* the workspaces key bindings switch to, in order
  Startup,      \* the outputs plugged in when the program starts, in order
  MaxEvents,    \* a bound on lost outputs, layer surfaces and launches
  None          \* NULL

ASSUME ConstantsOK ==
  /\ IsFiniteSet(Ids) /\ IsFiniteSet(Windows) /\ IsFiniteSet(Outputs)
  /\ Noop \notin Outputs /\ Ids \cap Windows = {}
  /\ None \notin Outputs \cup Ids \cup Windows \cup {Noop}
  /\ Numbers \subseteq Nat /\ IsFiniteSet(Numbers)
  /\ Assigned \in [Numbers -> Seq(Outputs)] /\ Bindings \in Seq(Numbers)
  /\ Startup \in Seq(Outputs) /\ IsInjective(Startup) /\ MaxEvents \in Nat

VARIABLE s      \* the state of the components: see State

Place == Outputs \cup {Noop, None}
Node == Ids \cup Windows

State ==
  [connected : SUBSET Outputs,            \* root->all_outputs
   enabled   : Seq(Outputs),              \* root->outputs
   out       : [Ids -> Place],            \* workspace->output
   name      : [Ids -> Numbers],
   prio      : [Ids -> Seq(Outputs \cup {Noop})],   \* output_priority
   live      : SUBSET Ids,
   dead      : SUBSET Ids,                \* destroyed by the running handler
   at        : [Windows -> Ids \cup {None}],        \* pending.workspace
   mapped    : SUBSET Windows,
   sticky    : SUBSET Windows,            \* container_is_sticky
   stack     : Seq(Node),                 \* seat->focus_stack
   focus     : BOOLEAN,                   \* seat->has_focus
   ws        : Ids \cup {None},           \* seat->workspace
   layer     : {"none", "plain", "exclusive"},      \* seat->focused_layer
   ctx       : [node : Ids \cup Outputs \cup {Noop, "root", None}, name : Numbers],
   breach    : BOOLEAN,                   \* a destroyed workspace was focused
   short     : BOOLEAN,                   \* a pool of the model ran out
   events    : 0 .. MaxEvents]            \* what happened besides commands

----------------------------------------------------------------------------
(* Who is where *)

Drop(q, n) == SelectSeq(q, LAMBDA m : m # n)
First(q) == IF q = <<>> THEN None ELSE q[1]

Least(N) == CHOOSE n \in N : \A m \in N : n <= m
Greatest(N) == CHOOSE n \in N : \A m \in N : n >= m

\* node_get_parent, followed to the output.
OutputOf(t, n) ==
  LET w == IF n \in Windows THEN t.at[n] ELSE n
  IN IF w = None THEN None ELSE t.out[w]

WorkspaceOf(t, n) == IF n \in Windows THEN t.at[n] ELSE n

On(t, o) == {w \in t.live : t.out[w] = o}
Holds(t, w) == {c \in t.mapped : t.at[c] = w}

\* seat_get_focus_inactive of the root, an output and a workspace.
InactiveRoot(t) == First(SelectSeq(t.stack, LAMBDA n : OutputOf(t, n) # None))
InactiveOutput(t, o) == First(SelectSeq(t.stack, LAMBDA n : OutputOf(t, n) = o))
InactiveView(t, w) == First(SelectSeq(t.stack, LAMBDA n : n \in Holds(t, w)))
InactiveWorkspace(t, w) == IF InactiveView(t, w) = None THEN w ELSE InactiveView(t, w)

FocusedNode(t) == IF t.focus THEN First(t.stack) ELSE None
FocusedWorkspace(t) ==
  LET n == InactiveRoot(t) IN IF n = None THEN None ELSE WorkspaceOf(t, n)

\* output_get_active_workspace: the one the seat focused last.  Every workspace
\* of the output has a node on the stack, but for one being destroyed.
Active(t, o) ==
  LET shown == SelectSeq(t.stack, LAMBDA n : n \in On(t, o))
  IN IF shown # <<>> THEN shown[1]
     ELSE IF On(t, o) = {} THEN None
     ELSE CHOOSE w \in On(t, o) : t.name[w] = Least({t.name[v] : v \in On(t, o)})

Visible(t, w) == w \in t.live /\ Active(t, t.out[w]) = w

\* workspace_is_empty: sticky windows do not count.
IsEmpty(t, w) == Holds(t, w) \subseteq t.sticky

\* root_find_workspace looks at the enabled outputs only.
Listed(t) == {w \in t.live : t.out[w] \in ToSet(t.enabled)}
Named(t, n) == {w \in Listed(t) : t.name[w] = n}

\* The first output of a list that is enabled: workspace_output_get_highest_available.
Available(t, list) == First(SelectSeq(list, LAMBDA o : o \in ToSet(t.enabled)))
Highest(t, w) == Available(t, t.prio[w])

----------------------------------------------------------------------------
(* Creating a workspace *)

Free(t) == {n \in Numbers : Named(t, n) = {}}

\* A name key bindings may use on o: workspace_valid_on_output.
ValidOn(n, o) == Assigned[n] = <<>> \/ o \in ToSet(Assigned[n])

\* workspace_next_name: an assignment to the output, else a binding, else the
\* first free number.
NextName(t, o) ==
  LET assigned == {n \in Free(t) : o \in ToSet(Assigned[n])}
      bound == SelectSeq(Bindings, LAMBDA n : n \in Free(t) /\ ValidOn(n, o))
  IN IF assigned # {} THEN Least(assigned)
     ELSE IF bound # <<>> THEN bound[1]
     ELSE Least(Free(t))

\* workspace_get_initial_output
InitialOutput(t, n) ==
  LET wanted == Available(t, Assigned[n])
      focus == InactiveRoot(t)
  IN IF wanted # None THEN wanted
     ELSE IF focus # None THEN OutputOf(t, focus)
     ELSE IF t.enabled # <<>> THEN t.enabled[1] ELSE Noop

AddPriority(list, o) == IF o \in ToSet(list) THEN list ELSE Append(list, o)

\* workspace_output_raise_priority: in front of the output it leaves.
RaisePriority(list, old, new) ==
  LET i == SelectInSeq(list, LAMBDA o : o = old)
      before == SubSeq(list, 1, i - 1)
  IN IF i = 0 \/ new \in ToSet(before) THEN list
     ELSE before \o <<new>> \o Drop(SubSeq(list, i, Len(list)), new)

NewId(t) == CHOOSE w \in Ids : w \notin t.live \cup t.dead

Create(t, o, n, w) ==
  [t EXCEPT !.live = @ \cup {w}, !.out[w] = o, !.name[w] = n,
            !.prio[w] = AddPriority(Assigned[n], o), !.stack = Append(@, w)]

\* workspace_create; the handlers that would need one more object than the
\* pool has, or one more name, are cut off by "short".
WorkspaceCreate(t, o, n) ==
  IF t.live \cup t.dead = Ids THEN [t EXCEPT !.short = TRUE]
  ELSE Create(t, o, n, NewId(t))

CreateNext(t, o) ==
  IF Free(t) = {} THEN [t EXCEPT !.short = TRUE]
  ELSE WorkspaceCreate(t, o, NextName(t, o))

\* The workspace a handler created: its node is the last of the focus stack.
Created(t) == Last(t.stack)

----------------------------------------------------------------------------
(* The focus of the seat, and destroying a workspace *)

RawFocus(t, n) == IF n = None THEN t ELSE [t EXCEPT !.stack = <<n>> \o Drop(@, n)]

\* set_workspace of seat.c, without prev_workspace_name: see CmdWorkspace.
SeatWorkspace(t, w) == [t EXCEPT !.ws = w]

Move(t, C, w) == [t EXCEPT !.at = [c \in Windows |-> IF c \in C THEN w ELSE @[c]]]

\* The context keeps the workspace that is gone.
\* ctx_handle_node_destroy of a launch context, for a workspace.
ContextLosesWorkspace(t, w) ==
  IF t.ctx.node # w THEN t
  ELSE [t EXCEPT !.ctx = [node |-> IF t.out[w] \in Outputs \cup {Noop} THEN t.out[w] ELSE "root",
                          name |-> t.name[w]]]

\* The node of the workspace stays on the focus stack.
\* workspace_begin_destroy, when the seat does not have to find a new focus.
Discard(t, w) ==
  LET u == ContextLosesWorkspace(t, w)
  IN [u EXCEPT !.stack = Drop(@, w), !.out[w] = None, !.live = @ \ {w}, !.dead = @ \cup {w}]

\* The guards of workspace_consider_destroy.
Idle(t, w) ==
  /\ w \in t.live /\ Holds(t, w) = {}
  /\ t.out[w] # None => Active(t, t.out[w]) # w
  /\ InactiveRoot(t) # w

DiscardIfIdle(t, w) == IF w # None /\ Idle(t, w) THEN Discard(t, w) ELSE t

\* Only the workspace the focus comes from is looked at.
SlipRefocus(t, n, w, shown, last) ==
  LET raised == RawFocus(RawFocus(t, w), n)
      moved == IF shown \in {None, w} THEN SeatWorkspace(raised, w)
               ELSE Move(SeatWorkspace(raised, w), Holds(raised, shown) \cap raised.sticky, w)
  IN [DiscardIfIdle(moved, last) EXCEPT !.focus = TRUE]

Refocus(t, n, w, shown, last) ==
  LET raised == RawFocus(RawFocus(t, w), n)
      moved == IF shown \in {None, w} THEN SeatWorkspace(raised, w)
               ELSE Move(SeatWorkspace(raised, w), Holds(raised, shown) \cap raised.sticky, w)
  IN [DiscardIfIdle(DiscardIfIdle(moved, shown), last) EXCEPT !.focus = TRUE]

\* seat_set_workspace_focus; seat_get_focus drops has_focus when the stack is
\* empty.  The workspaces it removes are not the seat's any
\* more: seat->workspace has just been set.
SetWorkspaceFocus(t, n) ==
  IF FocusedNode(t) = n THEN [t EXCEPT !.focus = @ /\ t.stack # <<>>]
  ELSE IF n = None THEN [t EXCEPT !.focus = FALSE]
  ELSE IF WorkspaceOf(t, n) \notin t.live THEN [t EXCEPT !.breach = TRUE]
  ELSE LET w == WorkspaceOf(t, n)
       IN Refocus(t, n, w, IF t.out[w] = None THEN None ELSE Active(t, t.out[w]),
                  FocusedWorkspace(t))

\* seat_set_focus_layer, with a mapped layer surface and with NULL.
TakeLayer(t, kind) == [t EXCEPT !.layer = kind, !.focus = FALSE]

ReleaseLayer(t) ==
  LET u == [t EXCEPT !.layer = "none"]
      previous == InactiveRoot(t)
  IN IF t.layer = "none" THEN t
     ELSE IF previous = None THEN u
     ELSE SetWorkspaceFocus(SetWorkspaceFocus(u, None), previous)

\* seat_set_focus: an exclusive layer surface gets the keyboard back.
SetFocus(t, n) ==
  LET u == SetWorkspaceFocus(ReleaseLayer(t), n)
  IN IF t.layer = "exclusive" THEN TakeLayer(u, "exclusive") ELSE u

\* The seat keeps the workspace that is gone.
\* handle_seat_node_destroy for a workspace.
SeatLosesWorkspace(t, w) ==
  LET u == [t EXCEPT !.stack = Drop(@, w)]
      next == InactiveRoot(u)
  IN IF t.ws # w THEN u
     ELSE IF next # None THEN SetFocus(SetFocus(u, None), next)
     ELSE [SetFocus(u, None) EXCEPT !.ws = None]

BeginDestroy(t, w) == Discard(SeatLosesWorkspace(t, w), w)

ConsiderDestroy(t, w) == IF w # None /\ Idle(t, w) THEN BeginDestroy(t, w) ELSE t

\* handle_seat_node_destroy for a window, still on its workspace.
SeatLosesWindow(t, c) ==
  LET needed == FocusedNode(t) = c
      w == t.at[c]
      u == [t EXCEPT !.stack = Drop(@, c)]
      v == InactiveView(u, w)
      next == IF v = None THEN w ELSE v
      focus == InactiveRoot(u)
  IN IF w = None \/ (v = None /\ ~Visible(u, w)) THEN u
     ELSE IF needed THEN IF FocusedNode(u) = next THEN u ELSE SetFocus(u, next)
     ELSE IF focus = None THEN RawFocus(u, next)
     ELSE RawFocus(RawFocus(RawFocus(u, next), WorkspaceOf(u, focus)), focus)

----------------------------------------------------------------------------
(* Outputs *)

\* restore_workspaces, one enabled output after the other: the workspaces whose
\* best output came back move there, and an output left without one gets one.
TakeBack(t, o, other) ==
  LET back == {w \in On(t, other) : Highest(t, w) = o}
      u == [t EXCEPT !.out = [w \in Ids |-> IF w \in back THEN o ELSE @[w]]]
  IN IF On(u, other) = {} THEN CreateNext(u, other) ELSE u

\* What is on the fallback output stays there.
RestoreWorkspaces(t, o) ==
  LET u == FoldLeft(LAMBDA r, other : IF other = o THEN r ELSE TakeBack(r, o, other), t, t.enabled)
  IN [u EXCEPT !.out = [w \in Ids |-> IF w \in On(u, Noop) THEN o ELSE @[w]]]

\* The workspaces are restored before the output is in the list.
\* The new workspace takes the focus.
SlipEnable(t, o) ==
  LET u == RestoreWorkspaces([t EXCEPT !.enabled = Append(@, o)], o)
      v == CreateNext(u, o)
  IN IF On(u, o) # {} THEN u
     ELSE IF v.short THEN v ELSE SetFocus(v, Created(v))

\* output_enable
Enable(t, o) ==
  LET u == RestoreWorkspaces([t EXCEPT !.enabled = Append(@, o)], o)
      v == CreateNext(u, o)
  IN IF On(u, o) # {} THEN u
     ELSE IF v.short \/ v.focus THEN v ELSE SetFocus(v, Created(v))

\* The body of output_evacuate's loop, with the workspace detached.
Evacuate(t, w) ==
  LET best == Highest(t, w)
      to == IF best # None THEN best ELSE IF t.enabled # <<>> THEN t.enabled[1] ELSE Noop
      u == [t EXCEPT !.out[w] = None]
      shown == Active(u, to)
      v == IF shown # None /\ IsEmpty(u, w) THEN Move(u, Holds(u, w), shown) ELSE u
  IN IF Holds(v, w) = {} THEN BeginDestroy(v, w)
     ELSE ConsiderDestroy([v EXCEPT !.out[w] = to, !.prio[w] = AddPriority(@, to)], shown)

\* output_evacuate.  A workspace the loop has not come to may be destroyed by
\* the focus changes of the ones before it.
OutputEvacuate(t, o) ==
  LET order == SortSeq(SelectSeq(t.stack, LAMBDA n : n \in On(t, o)),
                       LAMBDA v, w : t.name[v] < t.name[w])
  IN FoldLeft(LAMBDA r, w : IF w \in On(r, o) THEN Evacuate(r, w) ELSE r, t, order)

Disable(t, o) == OutputEvacuate([t EXCEPT !.enabled = Drop(@, o)], o)

----------------------------------------------------------------------------
(* Launch contexts *)

NoContext(t) == [t EXCEPT !.ctx = [node |-> None, name |-> Least(Numbers)]]

\* launcher_ctx_get_workspace for a context that lost its workspace.
ContextOutput(t) ==
  IF t.ctx.node \in ToSet(t.enabled) THEN t.ctx.node ELSE InitialOutput(t, t.ctx.name)
============================================================================
