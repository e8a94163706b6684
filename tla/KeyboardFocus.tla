---------------------------- MODULE KeyboardFocus ----------------------------
(***************************************************************************)
(* Which surface has the keyboard of a seat (input/seat.c), and what has   *)
(* to follow it: the layer surface that is focused or exclusive            *)
(* (desktop/layer_shell.c), the text inputs and the input method           *)
(* (input/text_input.c), the pointer constraint (input/cursor.c).          *)
(*                                                                         *)
(* Views and layer surfaces come, go and change; override-redirect windows *)
(* take the keyboard without a place in the focus stack; a drag withholds  *)
(* every change of focus from the clients.  One seat and one workspace:    *)
(* the tree is in ContainerTree, other workspaces in Workspaces, the lock, *)
(* which overrides all of this, in SessionLock.                            *)
(***************************************************************************)
EXTENDS Naturals, Sequences, SequencesExt

CONSTANTS Views, Layers, Unmanaged,   \* the surfaces
          Desktop,                    \* the workspace, a node without a surface
          Nothing,
          Modes,                      \* [Layers -> sets of "none", "demand", "exclusive"]
          Levels,                     \* [Layers -> sets of levels]
          OutputsOf,                    \* [Layers -> sets of outputs]
          Constrained,                \* the views that ask for pointer constraints
          TextInputs,
          Client                      \* [surfaces and text inputs -> clients]

VARIABLE f

(* The surfaces of the clients are distinct, and none is a node of the      *)
(* desktop or a word for the state of a link.                              *)
ASSUME SurfacesDistinct ==
  /\ Views \cap Layers = {} /\ Views \cap Unmanaged = {} /\ Layers \cap Unmanaged = {}
  /\ {Nothing, Desktop} \cap (Views \cup Layers \cup Unmanaged) = {} /\ Nothing # Desktop
  /\ Constrained \subseteq Views /\ {"empty", "removed", "corrupt"} \cap Constrained = {}

(* What the clients of layer surfaces may ask for.                          *)
ASSUME LayersTyped ==
  /\ Levels \in [Layers -> SUBSET Nat]
  /\ Modes \in [Layers -> SUBSET {"none", "demand", "exclusive"}]
  /\ DOMAIN OutputsOf = Layers

Top == 2                              \* levels: bottom or background 1, top 2, overlay 3
Overlay == 3

Unmade == [made |-> FALSE, mapped |-> FALSE, level |-> 1, mode |-> "none", output |-> Nothing]

FocusInit == f =
  [stack    |-> <<Desktop>>,          \* seat->focus_stack
   hasFocus |-> FALSE,
   fullscreen |-> Nothing,
   keyboard |-> Nothing,                 \* keyboard_state.focused_surface of wlroots
   layer    |-> [l \in Layers |-> Unmade],
   order    |-> <<>>,                 \* the layer surfaces, as they are stacked in the scene
   focusedLayer |-> Nothing, exclusive |-> FALSE,
   unmanaged |-> {},                  \* override-redirect windows that are mapped
   drag     |-> FALSE,
   im       |-> FALSE,                \* there is an input method
   entered  |-> [t \in TextInputs |-> Nothing],
   pending  |-> [t \in TextInputs |-> Nothing],    \* pending_focused_surface
   constraint |-> [v \in Constrained |-> "none"],
   active   |-> Nothing,                 \* cursor->active_constraint
   commit   |-> "empty",              \* the link of cursor->constraint_commit
   allow    |-> TRUE]                 \* pointer_constraint is not disabled

Mapped(s) == {v \in Views : Contains(s.stack, v)}
Inactive(s) == Head(s.stack)                                \* seat_get_focus_inactive of the root
Focus(s) == IF s.hasFocus THEN Inactive(s) ELSE Nothing        \* seat_get_focus

Obstructed(s, n) == n \in Views /\ s.fullscreen \notin {Nothing, n}

------------------------------------------------------------------------------
(***************************************************************************)
(* The pointer constraint.                                                 *)
(***************************************************************************)

\* wl_list_remove leaves null pointers behind and follows those it finds.
Unlink(link) == IF link \in {"removed", "corrupt"} THEN "corrupt" ELSE "removed"

ConstraintDestroyed(s, c) ==
  LET gone == [s EXCEPT !.constraint[c] = "none"]
  IN  IF s.active # c THEN gone ELSE [gone EXCEPT !.active = Nothing, !.commit = "empty"]

\* wlr_pointer_constraint_v1_send_deactivated destroys one that lasts only once.
Deactivated(s, c) == IF s.constraint[c] = "oneshot" THEN ConstraintDestroyed(s, c) ELSE s

Constrain(s, c) ==
  IF ~s.allow \/ s.active = c THEN s
  ELSE LET unlinked == [s EXCEPT !.commit = Unlink(@)]
           idle == IF s.active = Nothing THEN unlinked ELSE Deactivated(unlinked, s.active)
       IN  [idle EXCEPT !.active = c,
                        !.commit = IF @ = "corrupt" THEN @ ELSE IF c = Nothing THEN "empty" ELSE c]

ConstraintOf(s, v) == IF v \in Constrained /\ s.constraint[v] # "none" THEN v ELSE Nothing

NewConstraint(v, lifetime) ==
  /\ f.constraint[v] = "none"
  /\ LET new == [f EXCEPT !.constraint[v] = lifetime]
     IN  f' = IF f.keyboard = v THEN Constrain(new, v) ELSE new

DestroyConstraint(v) == f.constraint[v] # "none" /\ f' = ConstraintDestroyed(f, v)

\* `seat * pointer_constraint enable|disable|escape`: what is active is released while the
\* old setting still counts.
ConstraintCommand(op) ==
  f' = IF op = "enable" THEN [f EXCEPT !.allow = TRUE]
       ELSE [Constrain(f, Nothing) EXCEPT !.allow = op = "escape" /\ @]

------------------------------------------------------------------------------
(***************************************************************************)
(* Text inputs and the input method.                                       *)
(***************************************************************************)

\* sway_input_method_relay_set_focus, for one text input: what it has entered and what it
\* keeps at hand for the next input method.
Relayed(s, t, surface) ==
  LET both    == s.pending[t] # Nothing /\ s.entered[t] # Nothing
      kept    == IF both \/ s.pending[t] # surface THEN Nothing ELSE surface
      stays   == s.entered[t] = surface /\ surface # Nothing /\ (both \/ s.pending[t] = Nothing)
      its     == surface # Nothing /\ Client[surface] = Client[t]
  IN  IF stays THEN [entered |-> surface, pending |-> Nothing]
      ELSE IF ~its THEN [entered |-> Nothing, pending |-> kept]
      ELSE [entered |-> IF s.im THEN surface ELSE Nothing,
            pending |-> IF s.im THEN kept ELSE surface]

Relay(s, surface) ==
  [s EXCEPT !.entered = [t \in TextInputs |-> Relayed(s, t, surface).entered],
            !.pending = [t \in TextInputs |-> Relayed(s, t, surface).pending]]

SlipInputMethodGone(s, t) == [s EXCEPT !.im = FALSE]        \* no leave is sent

\* The text input that has entered leaves; its surface is kept in case the input method returns.
InputMethodGone(s, t) ==
  [s EXCEPT !.im = FALSE, !.pending[t] = s.entered[t], !.entered[t] = Nothing]

\* handle_im_destroy: of several that have entered, the first one of the list.
InputMethodDestroyed ==
  /\ f.im
  /\ \/ /\ \A t \in TextInputs : f.entered[t] = Nothing
        /\ f' = [f EXCEPT !.im = FALSE]
     \/ \E t \in TextInputs : f.entered[t] # Nothing /\ f' = InputMethodGone(f, t)

\* relay_handle_input_method enters the first text input that waits.
NewInputMethod ==
  /\ ~f.im
  /\ \/ /\ \A t \in TextInputs : f.pending[t] = Nothing
        /\ f' = [f EXCEPT !.im = TRUE]
     \/ \E t \in TextInputs :
          /\ f.pending[t] # Nothing
          /\ f' = [f EXCEPT !.im = TRUE, !.entered[t] = f.pending[t], !.pending[t] = Nothing]

\* A client replaces its text input; the new one enters with the next change of focus.
NewTextInput(t) == f' = [f EXCEPT !.entered[t] = Nothing, !.pending[t] = Nothing]

------------------------------------------------------------------------------
(***************************************************************************)
(* The focus of the seat.                                                  *)
(***************************************************************************)

\* Enter and leave are swallowed by the keyboard grab of a drag.
Enter(s, surface) == IF s.drag THEN s ELSE [s EXCEPT !.keyboard = surface]

RawFocus(s, n) == [s EXCEPT !.stack = <<n>> \o RemoveFirst(@, n)]

SendFocus(s, n) ==
  IF n \notin Views THEN s
  ELSE LET told == Relay(Enter(s, n), n) IN Constrain(told, ConstraintOf(told, n))

SendUnfocus(s) == Enter(Constrain(s, Nothing), Nothing)

\* seat_set_workspace_focus.
FocusNode(s, n) ==
  LET last == Focus(s)
      left == IF last = Nothing THEN s ELSE SendUnfocus(s)
      raised == IF n = Desktop THEN RawFocus(left, Desktop) ELSE RawFocus(RawFocus(left, Desktop), n)
  IN  IF last = n THEN IF n \in Views /\ s.keyboard # n THEN SendFocus(s, n) ELSE s
      ELSE IF n = Nothing THEN [Relay(left, Nothing) EXCEPT !.hasFocus = FALSE]
      ELSE IF Obstructed(s, n) THEN s
      ELSE [SendFocus(raised, n) EXCEPT !.hasFocus = TRUE]

\* seat_set_focus_surface.
FocusSurface(s, surface, unfocus) ==
  LET left == IF s.hasFocus /\ unfocus THEN [SendUnfocus(s) EXCEPT !.hasFocus = FALSE] ELSE s
  IN  Relay(Enter(left, surface), surface)

\* seat_set_focus_layer(NULL): the inactive focus gets the keyboard back.
LeaveLayer(s) ==
  LET none == [s EXCEPT !.focusedLayer = Nothing, !.exclusive = FALSE]
  IN  IF s.focusedLayer = Nothing THEN none ELSE FocusNode(FocusNode(none, Nothing), Inactive(none))

EnterLayer(s, l) ==
  LET excl == s.layer[l].level >= Top /\ s.layer[l].mode = "exclusive"
      held == [s EXCEPT !.exclusive = @ \/ excl]
      none == [s EXCEPT !.focusedLayer = IF @ = l THEN Nothing ELSE @, !.exclusive = FALSE]
  IN  IF ~s.layer[l].mapped THEN IF s.focusedLayer = l THEN FocusSurface(none, Nothing, FALSE) ELSE none
      ELSE IF s.focusedLayer = l THEN held
      ELSE [FocusSurface(held, l, TRUE) EXCEPT !.focusedLayer = l]

\* seat_set_focus_layer.
FocusLayer(s, l) == IF l = Nothing THEN LeaveLayer(s) ELSE EnterLayer(s, l)

SlipSetFocus(s, n) == FocusNode(s, n)           \* a focused layer is not left

SetFocus(s, n) ==
  IF s.exclusive THEN FocusLayer(FocusNode(LeaveLayer(s), n), s.focusedLayer)
  ELSE IF s.focusedLayer # Nothing THEN FocusNode(LeaveLayer(s), n)
  ELSE FocusNode(s, n)

\* drag_handle_destroy and the end of keyboard_group's leave: enter is sent anew.
FocusAnew(s) ==
  IF Focus(s) # Nothing THEN SetFocus(SetFocus(s, Nothing), Focus(s))
  ELSE IF s.focusedLayer # Nothing THEN FocusLayer(LeaveLayer(s), s.focusedLayer)
  ELSE FocusSurface(FocusSurface(s, Nothing, FALSE), s.keyboard, FALSE)

StartDrag == ~f.drag /\ f' = [f EXCEPT !.drag = TRUE]
EndDrag == f.drag /\ f' = FocusAnew([f EXCEPT !.drag = FALSE])
KeyboardLeavesGroup == f' = FocusAnew(f)

------------------------------------------------------------------------------
(***************************************************************************)
(* Views and the desktop.                                                  *)
(***************************************************************************)

\* A new node is the last of the focus stack; should_focus decides on the rest.
MapView(v, focus) ==
  /\ v \notin Mapped(f)
  /\ LET new == [f EXCEPT !.stack = Append(@, v)]
     IN  f' = IF focus THEN SetFocus(new, v) ELSE new

\* handle_seat_node_destroy.
NodeDestroyed(s, v) ==
  LET gone  == [s EXCEPT !.stack = RemoveFirst(@, v)]
      view  == SelectInSeq(gone.stack, LAMBDA n : n \in Views)
      next  == IF view = 0 THEN Desktop ELSE gone.stack[view]
      aside == RawFocus(gone, next)
      inactive == IF Inactive(gone) = Desktop THEN aside ELSE RawFocus(aside, Desktop)
  IN  IF Focus(s) # v THEN RawFocus(inactive, Inactive(gone))
      ELSE IF Focus(gone) = next THEN SendFocus(gone, next)
      ELSE SetFocus(gone, next)

\* view_unmap: the fullscreen reference goes first, the constraint last.
UnmapView(v) ==
  /\ v \in Mapped(f)
  /\ LET gone == NodeDestroyed([f EXCEPT !.fullscreen = IF @ = v THEN Nothing ELSE @], v)
     IN  f' = IF gone.active = v THEN Constrain(gone, Nothing) ELSE gone

\* container_fullscreen_workspace and container_fullscreen_disable.
Fullscreen(v) ==
  /\ v \in Mapped(f)
  /\ f' = IF f.fullscreen = v THEN [f EXCEPT !.fullscreen = Nothing]
          ELSE SetFocus([f EXCEPT !.fullscreen = v], v)

\* A click or a command on a view; one behind a fullscreen view focuses that one.
FocusView(v) ==
  v \in Mapped(f) /\ f' = SetFocus(f, IF Obstructed(f, v) THEN f.fullscreen ELSE v)

FocusDesktop == f.fullscreen = Nothing /\ f' = SetFocus(f, Desktop)

------------------------------------------------------------------------------
(***************************************************************************)
(* Layer surfaces.                                                         *)
(***************************************************************************)

\* The place in the scene of the uppermost mapped layer of one level of an output that
\* wants the keyboard for itself, or 0.
Above(s, out, level) ==
  SelectLastInSeq(s.order, LAMBDA l : /\ s.layer[l].output = out   /\ s.layer[l].level = level
                                      /\ s.layer[l].mapped         /\ s.layer[l].mode = "exclusive")

Topmost(s, out) ==
  IF Above(s, out, Overlay) # 0 THEN s.order[Above(s, out, Overlay)]
  ELSE IF Above(s, out, Top) # 0 THEN s.order[Above(s, out, Top)] ELSE Nothing

\* The focus part of arrange_layers.
ArrangeLayers(s, out) ==
  LET free == [s EXCEPT !.exclusive = FALSE]
      top  == Topmost(s, out)
  IN  IF top # Nothing THEN EnterLayer(free, top)
      ELSE IF s.focusedLayer # Nothing /\ s.layer[s.focusedLayer].mode # "exclusive"
           THEN LeaveLayer(free) ELSE free

CreateLayer(l) ==
  \E level \in Levels[l], mode \in Modes[l], out \in OutputsOf[l] :
    /\ ~f.layer[l].made
    /\ f' = [f EXCEPT !.layer[l] = [made |-> TRUE, mapped |-> FALSE, level |-> level,
                                    mode |-> mode, output |-> out],
                      !.order = Append(@, l)]

\* handle_map, then the commit that mapped it.
MapLayer(l) ==
  LET s == [f EXCEPT !.layer[l].mapped = TRUE]
      me == s.layer[l]
      over == s.focusedLayer = Nothing \/ s.layer[s.focusedLayer].level <= me.level
      shown == IF me.mode = "none" \/ me.level < Top THEN s
               ELSE ArrangeLayers(IF over THEN EnterLayer(s, l) ELSE s, me.output)
  IN  f.layer[l].made /\ ~f.layer[l].mapped /\ f' = ArrangeLayers(shown, me.output)

\* handle_surface_commit: a layer that moves to another level is on top there.
CommitLayer(l) ==
  \E level \in Levels[l], mode \in Modes[l] :
    /\ f.layer[l].made
    /\ LET s == [f EXCEPT !.layer[l].level = level, !.layer[l].mode = mode,
                          !.order = IF level = f.layer[l].level THEN @
                                    ELSE Append(RemoveFirst(@, l), l)]
       IN  f' = ArrangeLayers(s, s.layer[l].output)

Unmapped(s, l) ==
  LET gone == [s EXCEPT !.layer[l].mapped = FALSE]
  IN  IF s.focusedLayer = l THEN LeaveLayer(gone) ELSE gone

UnmapLayer(l) ==
  f.layer[l].mapped /\ f' = ArrangeLayers(Unmapped(f, l), f.layer[l].output)

\* find_mapped_layer_by_client: on the overlay level of other outputs.
SameClient(s, l, out) ==
  {k \in Layers \ {l} : /\ s.layer[k].mapped          /\ s.layer[k].level = Overlay
                        /\ s.layer[k].output # out    /\ Client[k] = Client[l]}

\* handle_node_destroy, after handle_unmap; without an output nothing is arranged.
Destroyed(s, l, out) ==
  LET gone == [s EXCEPT !.layer[l] = Unmade, !.order = RemoveFirst(@, l)]
      others == SameClient(s, l, out)
      passed == IF others = {} THEN gone ELSE EnterLayer(gone, CHOOSE k \in others : TRUE)
  IN  IF out = Nothing THEN passed ELSE ArrangeLayers(passed, out)

DestroyLayer(l) ==
  LET out == f.layer[l].output
      unmapped == IF f.layer[l].mapped THEN ArrangeLayers(Unmapped(f, l), out) ELSE f
  IN  f.layer[l].made /\ f' = Destroyed(unmapped, l, out)

\* handle_output_destroy: layer->output is cleared first.
OutputDestroyed(l) ==
  f.layer[l].made /\ f' = Destroyed(IF f.layer[l].mapped THEN Unmapped(f, l) ELSE f, l, Nothing)

ClickLayer(l) == f.layer[l].mapped /\ f.layer[l].mode # "none" /\ f' = EnterLayer(f, l)

------------------------------------------------------------------------------
(***************************************************************************)
(* Override-redirect windows, and surfaces that are destroyed.             *)
(***************************************************************************)

\* unmanaged_handle_map, unmanaged_handle_request_activate or a click; only one that covers
\* an output takes the focus from the view.
FocusUnmanaged(x, overlay) ==
  f' = FocusSurface([f EXCEPT !.unmanaged = @ \cup {x}], x, overlay)

UnmapUnmanaged(x) ==
  /\ x \in f.unmanaged
  /\ LET gone == [f EXCEPT !.unmanaged = @ \ {x}]
     IN  f' = IF f.keyboard # x THEN gone ELSE SetFocus(SetFocus(gone, Nothing), Inactive(gone))

\* A surface that is not mapped is destroyed: wlroots takes the keyboard from it.
SurfaceDestroyed(u) ==
  LET forget(g) == [t \in TextInputs |-> IF g[t] = u THEN Nothing ELSE g[t]]
      s == IF u \in Constrained /\ f.constraint[u] # "none" THEN ConstraintDestroyed(f, u) ELSE f
  IN  /\ u \notin Mapped(f) \cup f.unmanaged
      /\ u \in Layers => ~f.layer[u].mapped
      /\ f' = [s EXCEPT !.keyboard = IF @ = u THEN Nothing ELSE @,
                        !.entered = forget(@), !.pending = forget(@)]

FocusNext ==
  \/ \E v \in Views : \/ UnmapView(v) \/ Fullscreen(v) \/ FocusView(v)
                      \/ \E focus \in BOOLEAN : MapView(v, focus)
  \/ FocusDesktop
  \/ \E l \in Layers : \/ CreateLayer(l) \/ MapLayer(l) \/ CommitLayer(l) \/ UnmapLayer(l)
                       \/ DestroyLayer(l) \/ OutputDestroyed(l) \/ ClickLayer(l)
  \/ \E x \in Unmanaged : UnmapUnmanaged(x) \/ \E overlay \in BOOLEAN : FocusUnmanaged(x, overlay)
  \/ \E u \in Views \cup Layers \cup Unmanaged : SurfaceDestroyed(u)
  \/ StartDrag \/ EndDrag \/ KeyboardLeavesGroup
  \/ \E v \in Constrained : \/ DestroyConstraint(v)
                            \/ \E lifetime \in {"oneshot", "persistent"} : NewConstraint(v, lifetime)
  \/ \E op \in {"enable", "disable", "escape"} : ConstraintCommand(op)
  \/ NewInputMethod \/ InputMethodDestroyed \/ \E t \in TextInputs : NewTextInput(t)

FocusSpec == FocusInit /\ [][FocusNext]_f

------------------------------------------------------------------------------
(* Unless a drag withholds it, the keyboard is where the seat says: on the  *)
(* focused layer, or on the view on top of the focus stack; a mapped       *)
(* override-redirect window may borrow it from either.  A layer and a view *)
(* are not focused both.  (seat.c, every way the focus changes.)           *)
KeyboardMatchesFocus ==
  /\ f.focusedLayer # Nothing => ~f.hasFocus
  /\ ~f.drag /\ f.focusedLayer # Nothing => f.keyboard \in {f.focusedLayer} \cup f.unmanaged
  /\ ~f.drag /\ Focus(f) \in Views => f.keyboard \in {Focus(f)} \cup f.unmanaged

(* A focused layer surface is mapped, and exclusivity never outlives the    *)
(* focus of a layer: otherwise each change of focus would be handed to a   *)
(* surface that is gone (seat.c:1339, layer_shell.c:453).                  *)
FocusedLayerMapped ==
  /\ f.exclusive => f.focusedLayer # Nothing
  /\ f.focusedLayer # Nothing => f.layer[f.focusedLayer].mapped

Alone(t) == \A u \in TextInputs \ {t} : Client[u] # Client[t]

(* Text goes where the keys go: a text input has entered, or waits for, no  *)
(* surface but the one with the keyboard; the only text input of a client  *)
(* enters when there is an input method and waits when there is none       *)
(* (text_input.c).  A text input on an empty desktop keeps its surface     *)
(* until another gets the keyboard.                                        *)
TextFollowsKeyboard ==
  \A t \in TextInputs :
    /\ Alone(t) => IF f.im THEN f.pending[t] = Nothing ELSE f.entered[t] = Nothing
    /\ ~f.drag /\ f.keyboard # Nothing => {f.entered[t], f.pending[t]} \subseteq {Nothing, f.keyboard}

(* The commit listener hangs on the surface of the active constraint, or    *)
(* nowhere; its link is never removed twice although deactivating a        *)
(* constraint may destroy it from within (cursor.c:1321, 1362).            *)
ConstraintListener ==
  f.commit = IF f.active = Nothing THEN "empty" ELSE f.active

(* The pointer is held only by a constraint that exists and while the       *)
(* setting allows it; while a view is focused, by none but that view.      *)
(* (cursor.c sway_cursor_constrain, view.c:1281.)                          *)
ConstraintFollowsFocus ==
  f.active # Nothing =>
    /\ f.allow /\ f.constraint[f.active] # "none"
    /\ ~f.drag /\ Focus(f) \in Views => f.active = Focus(f)

(* What follows the keyboard agrees with it after any order of events:     *)
(* layers, text inputs and pointer constraints.                            *)
FollowersAgree ==
  /\ FocusedLayerMapped /\ TextFollowsKeyboard
  /\ ConstraintListener /\ ConstraintFollowsFocus

(* A text input that has entered a surface does not wait for one: "Text     *)
(* input focus state was inconsistent" otherwise (text_input.c:665).       *)
TextInputConsistent ==
  \A t \in TextInputs : f.entered[t] = Nothing \/ f.pending[t] = Nothing

(* With the desktop focused no layer surface on the screen gets the keys: a *)
(* node that is no view "don't enable keyboard input on any" (seat.c:187).  *)
DesktopTakesNoKeys ==
  ~f.drag /\ Focus(f) = Desktop =>
    \A l \in Layers : f.layer[l].mapped => f.keyboard # l
==============================================================================
