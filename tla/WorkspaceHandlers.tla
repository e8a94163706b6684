------------------------- MODULE WorkspaceHandlers -------------------------
(***************************************************************************)
(* The handlers that create, show, move and destroy workspaces: outputs    *)
(* that are plugged in, enabled, disabled and unplugged, windows that are  *)
(* mapped and unmapped, the workspace, rename, move, sticky and focus      *)
(* commands, layer surfaces that take the keyboard, and programs launched  *)
(* for a workspace.  A handler runs to completion, so each is one action.  *)
(*                                                                         *)
(* Slip... operators are plausible mistakes in the definition that follows *)
(* them; no specification uses them.                                       *)
(***************************************************************************)
EXTENDS Workspaces

Done(t) ==
  [t EXCEPT !.dead = {},
            !.name = [w \in Ids |-> IF w \in t.live THEN @[w] ELSE Least(Numbers)],
            !.prio = [w \in Ids |-> IF w \in t.live THEN @[w] ELSE <<>>]]

\* What the program does after it has focused a workspace that was destroyed
\* cannot be told: the behaviour ends there.
Step(t) == ~s.breach /\ ~t.short /\ s' = Done(t)

\* A rare step, whose number the model bounds.
Event(t) == s.events < MaxEvents /\ Step([t EXCEPT !.events = @ + 1])

Empty ==
  [connected |-> {}, enabled |-> <<>>, out |-> [w \in Ids |-> None],
       name |-> [w \in Ids |-> Least(Numbers)], prio |-> [w \in Ids |-> <<>>],
       live |-> {}, dead |-> {}, at |-> [c \in Windows |-> None], mapped |-> {},
       sticky |-> {}, stack |-> <<>>, focus |-> FALSE, ws |-> None,
       layer |-> "none", ctx |-> [node |-> None, name |-> Least(Numbers)],
   breach |-> FALSE, short |-> FALSE, events |-> 0]

\* The outputs found at start-up are enabled one after the other.
Init == s = Done(FoldLeft(Enable, [Empty EXCEPT !.connected = ToSet(Startup)], Startup))

----------------------------------------------------------------------------
(* Outputs *)

\* handle_new_output: the output exists, and is enabled by a later modeset.
HandleNewOutput(o) ==
  /\ o \notin s.connected
  /\ Step([s EXCEPT !.connected = @ \cup {o}])

\* finalize_output_config, for an output whose configuration enables it.
OutputEnable(o) ==
  /\ o \in s.connected \ ToSet(s.enabled)
  /\ Step(Enable(s, o))

\* finalize_output_config, for one whose configuration disables it.
OutputDisable(o) ==
  /\ o \in ToSet(s.enabled)
  /\ Event(Disable(s, o))

\* begin_destroy of desktop/output.c; a launch context forgets the output.
OutputDestroy(o) ==
  /\ o \in s.connected
  /\ LET t == IF o \in ToSet(s.enabled) THEN Disable(s, o) ELSE s
     IN Event([t EXCEPT !.connected = @ \ {o},
                        !.ctx.node = IF @ = o THEN "root" ELSE @])

----------------------------------------------------------------------------
(* Windows *)

\* A workspace found or created, with the state after it.  root_find_workspace
\* returns any of two workspaces that have one name.
Found(t, w) == [state |-> t, ws |-> w]
New(t) == Found(t, Created(t))
FindOrCreate(t, n) ==
  IF Named(t, n) # {} THEN {Found(t, w) : w \in Named(t, n)}
  ELSE {New(WorkspaceCreate(t, InitialOutput(t, n), n))}

\* launcher_ctx_get_workspace
ContextWorkspace(t) ==
  LET n == t.ctx.name
  IN IF t.ctx.node \in Ids THEN {Found(t, t.ctx.node)}
     ELSE IF t.ctx.node # "root" /\ Named(t, n) # {} THEN {Found(t, w) : w \in Named(t, n)}
     ELSE {New(WorkspaceCreate(t, ContextOutput(t), n))}

\* select_workspace: an assign criterion, the launch context, or the focus.
SelectWorkspace(t, assigned, launched) ==
  IF assigned # None THEN FindOrCreate(t, assigned)
  ELSE IF launched THEN ContextWorkspace(t)
  ELSE {Found(t, FocusedWorkspace(t))}

\* view_map.  should_focus: only on the focused workspace, and a no_focus
\* criterion counts unless the window is alone and nothing else has the focus.
ViewMap(c, assigned, launched, noFocus) ==
  /\ c \notin s.mapped
  /\ launched => s.ctx.node # None
  /\ \E f \in SelectWorkspace([s EXCEPT !.stack = Append(@, c), !.mapped = @ \cup {c}],
                              assigned, launched) :
       LET u == Move(IF launched THEN NoContext(f.state) ELSE f.state, {c}, f.ws)
           alone == FocusedNode(u) \notin Windows /\ Holds(u, f.ws) = {c}
           takes == f.ws # None /\ FocusedWorkspace(u) = f.ws /\ (alone \/ ~noFocus)
       IN ~f.state.short /\ Step(IF takes THEN SetFocus(u, c) ELSE u)

\* view_unmap with container_begin_destroy
ViewUnmap(c) ==
  /\ c \in s.mapped
  /\ LET t == SeatLosesWindow(s, c)
         u == [t EXCEPT !.at[c] = None, !.mapped = @ \ {c}, !.sticky = @ \ {c}]
     IN Step(ConsiderDestroy(u, t.at[c]))

\* cmd_sticky on a floating window
CmdSticky(c) ==
  /\ c \in s.mapped /\ s.at[c] # None
  /\ IF c \in s.sticky THEN Step([s EXCEPT !.sticky = @ \ {c}])
     ELSE LET t == [s EXCEPT !.sticky = @ \cup {c}]
              shown == Active(t, OutputOf(t, c))
          IN Step(IF shown = t.at[c] THEN t
                  ELSE ConsiderDestroy(Move(t, {c}, shown), t.at[c]))

\* The focus moves to a window by a click, the pointer or the focus command.
FocusWindow(c) ==
  /\ c \in s.mapped /\ s.at[c] # None /\ FocusedNode(s) # c
  /\ Step(SetFocus(s, c))

\* focus_output
CmdFocusOutput(o) ==
  /\ o \in ToSet(s.enabled)
  /\ Step(SetFocus(s, InactiveOutput(s, o)))

----------------------------------------------------------------------------
(* Moving a window to a workspace or an output: cmd_move_container *)

InactiveTiling(t, w) == First(SelectSeq(t.stack, LAMBDA n : n \in Holds(t, w) \ t.sticky))

MoveWindow(t, c, to) ==
  LET old == t.at[c]
      old_output == t.out[old]
      new_output == OutputOf(t, to)
      shown == IF new_output # old_output THEN Active(t, new_output) ELSE None
      u == Move(t, {c}, WorkspaceOf(t, to))
      v == IF shown \in {None, Active(u, new_output)} THEN u
           ELSE RawFocus(u, InactiveWorkspace(u, shown))
      focus == IF FocusedNode(t) = c THEN InactiveWorkspace(v, old) ELSE FocusedNode(t)
  IN ConsiderDestroy(SetFocus(v, focus), old)

\* A sticky window stays on its output.
CmdMoveToWorkspace(c, n) ==
  /\ s.enabled # <<>> /\ c \in s.mapped /\ s.at[c] # None
  /\ Named(s, n) = {} => ~(c \in s.sticky /\ InitialOutput(s, n) = OutputOf(s, c))
  /\ \E f \in FindOrCreate(s, n) :
       LET tiled == InactiveTiling(f.state, f.ws)
           to == IF tiled = None THEN f.ws ELSE tiled
       IN /\ ~f.state.short
          /\ ~(c \in s.sticky /\ OutputOf(f.state, to) = OutputOf(s, c))
          /\ Step(MoveWindow(f.state, c, to))

CmdMoveToOutput(c, o) ==
  /\ o \in ToSet(s.enabled) /\ c \in s.mapped /\ s.at[c] # None
  /\ ~(c \in s.sticky /\ OutputOf(s, c) = o)
  /\ Step(MoveWindow(s, c, InactiveOutput(s, o)))

----------------------------------------------------------------------------
(* Workspaces *)

\* workspace_switch
Switch(t, w) == SetFocus(t, InactiveWorkspace(t, w))

\* cmd_workspace with a name.  "back_and_forth" gives it the name of the previous
\* workspace, which may be any.
CmdWorkspace(n) ==
  /\ s.enabled # <<>>
  /\ \E f \in FindOrCreate(s, n) : ~f.state.short /\ Step(Switch(f.state, f.ws))

\* workspace_next and workspace_prev: by number, from the last to the first.
Following(t, w) ==
  LET N == {t.name[v] : v \in Listed(t)}
      above == {n \in N : n > t.name[w]}
  IN Named(t, Least(IF above # {} THEN above ELSE N))

Preceding(t, w) ==
  LET N == {t.name[v] : v \in Listed(t)}
      below == {n \in N : n < t.name[w]}
  IN Named(t, Greatest(IF below # {} THEN below ELSE N))

CmdWorkspaceNext ==
  /\ s.enabled # <<>> /\ FocusedWorkspace(s) # None
  /\ \E w \in Following(s, FocusedWorkspace(s)) \cup Preceding(s, FocusedWorkspace(s)) :
       Step(Switch(s, w))

\* cmd_rename, of the focused workspace
CmdRename(n) ==
  /\ s.enabled # <<>> /\ FocusedWorkspace(s) # None /\ Named(s, n) = {}
  /\ Step([s EXCEPT !.name[FocusedWorkspace(s)] = n])

\* The output the workspace leaves may be left without one.
SlipMoveToOutput(t, w, o) ==
  LET old == t.out[w]
      u == [t EXCEPT !.out[w] = None]
      shown == Active(u, o)
      p == ConsiderDestroy([u EXCEPT !.out[w] = o], shown)
      x == SetFocus(p, InactiveWorkspace(p, w))
  IN IF shown = None THEN u ELSE [x EXCEPT !.prio[w] = RaisePriority(@, old, o)]

\* workspace_move_to_output
MoveToOutput(t, w, o) ==
  LET old == t.out[w]
      u == [t EXCEPT !.out[w] = None]
      shown == Active(u, o)
      v == [u EXCEPT !.out[w] = o]
      r == IF On(v, old) = {} THEN CreateNext(v, old) ELSE v
      q == IF r # v /\ ~r.short THEN RawFocus(r, Created(r)) ELSE r
      p == ConsiderDestroy(q, shown)
      x == SetFocus(p, InactiveWorkspace(p, w))
  IN IF shown = None THEN u ELSE [x EXCEPT !.prio[w] = RaisePriority(@, old, o)]

\* cmd_move_workspace, of the focused workspace or that of a window.
CmdMoveWorkspace(w, o) ==
  /\ o \in ToSet(s.enabled)
  /\ w \in {FocusedWorkspace(s)} \cup {s.at[c] : c \in s.mapped}
  /\ w \in s.live /\ s.out[w] # o
  /\ Step(MoveToOutput(s, w, o))

----------------------------------------------------------------------------
(* Layer surfaces and programs *)

\* A mapped layer surface gets the keyboard: handle_map of layer_shell.c for an
\* exclusive one, a click for another.
LayerFocus(kind) == s.layer = "none" /\ Event(TakeLayer(s, kind))

\* handle_unmap of layer_shell.c
LayerUnmap == s.layer # "none" /\ Step(ReleaseLayer(s))

\* launcher_ctx_create_internal: a program is launched for the workspace.
Launch ==
  /\ s.ctx.node = None /\ FocusedWorkspace(s) # None
  /\ Event([s EXCEPT !.ctx = [node |-> FocusedWorkspace(s),
                            name |-> s.name[FocusedWorkspace(s)]]])

\* token_handle_destroy: its token expires.
TokenDestroy == s.ctx.node # None /\ Step(NoContext(s))

Next ==
  \/ \E o \in Outputs : \/ HandleNewOutput(o) \/ OutputEnable(o)
                        \/ OutputDisable(o) \/ OutputDestroy(o)
                        \/ CmdFocusOutput(o)
  \/ \E c \in Windows :
       \/ \E a \in Numbers \cup {None}, l, f \in BOOLEAN : ViewMap(c, a, l, f)
       \/ ViewUnmap(c) \/ CmdSticky(c) \/ FocusWindow(c)
       \/ \E n \in Numbers : CmdMoveToWorkspace(c, n)
       \/ \E o \in Outputs : CmdMoveToOutput(c, o)
  \/ \E n \in Numbers : CmdWorkspace(n) \/ CmdRename(n)
  \/ CmdWorkspaceNext
  \/ \E w \in Ids, o \in Outputs : CmdMoveWorkspace(w, o)
  \/ \E kind \in {"plain", "exclusive"} : LayerFocus(kind)
  \/ LayerUnmap \/ Launch \/ TokenDestroy

Spec == Init /\ [][Next]_s

----------------------------------------------------------------------------
(* Properties *)

TypeOK ==
  /\ s \in State /\ s.dead = {} /\ ~s.short
  /\ IsInjective(s.stack) /\ IsInjective(s.enabled)
  /\ ToSet(s.stack) = s.live \cup s.mapped

\* Every enabled output shows a workspace, whatever was moved, closed or
\* plugged in: "Expected output to have a workspace".
OutputsHaveWorkspace == \A o \in ToSet(s.enabled) : On(s, o) # {}

\* Workspaces are on enabled outputs, and on the fallback output only while no
\* output is enabled.
WorkspacesEnabled ==
  \A w \in s.live :
    s.out[w] \in ToSet(s.enabled) \/ (s.out[w] = Noop /\ s.enabled = <<>>)

\* seat->workspace is alive, and the one of the focused node.
SeatFollowsFocus ==
  /\ s.ws # None => s.ws \in s.live
  /\ s.focus /\ ~s.breach => s.stack # <<>> /\ s.ws = WorkspaceOf(s, s.stack[1])

\* No handler but the enabling of an output leaves behind a workspace that
\* nobody sees and that holds nothing: each calls workspace_consider_destroy for
\* every workspace it may have emptied or hidden.
LeavesIdle(w) == Idle(s', w) /\ ~(w \in s.live /\ Idle(s, w))
NoneLeftIdle ==
  [][~s'.breach /\ Len(s'.enabled) <= Len(s.enabled) => \A w \in Ids : ~LeavesIdle(w)]_s

\* An output that is enabled, disabled or unplugged does not take the focus away
\* from a window on another output, whatever happens to the workspaces.
HotplugKeepsFocus ==
  [][s'.enabled # s.enabled /\ FocusedNode(s) \in Windows
       /\ OutputOf(s, FocusedNode(s)) \in ToSet(s.enabled) \cap ToSet(s'.enabled)
     => FocusedNode(s') = FocusedNode(s)]_s

\* "workspace <name>" shows and focuses the workspace of that name.
SwitchesToSpecified ==
  [][\A n \in Numbers : CmdWorkspace(n) =>
       /\ ~s'.breach /\ FocusedWorkspace(s') # None
       /\ s'.name[FocusedWorkspace(s')] = n]_s

\* A launch context follows its workspace, then its output.
ContextTracked == s.ctx.node \in s.live \cup s.connected \cup {Noop, "root", None}

\* When an output comes back, the workspaces that prefer it to all others
\* return to it.
Returned ==
  \A o \in Outputs : o \notin ToSet(s.enabled) /\ o \in ToSet(s'.enabled) =>
    \A w \in s.live \cap s'.live : Highest(s', w) = o => s'.out[w] = o
PreferredOutput == [][Returned]_s

\* Outputs, workspaces, the seat and the launch contexts agree about what is
\* where after any handler.
WorkspacesConsistent ==
  TypeOK /\ OutputsHaveWorkspace /\ WorkspacesEnabled /\ SeatFollowsFocus /\ ContextTracked

\* An output that comes or goes takes neither the focus nor the workspaces of
\* others with it: the focus stays, and what prefers the output returns.
HotplugRestores == HotplugKeepsFocus /\ PreferredOutput
============================================================================
