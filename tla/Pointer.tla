------------------------------- MODULE Pointer -------------------------------
(***************************************************************************)
(* What presses a seat's pointer, and when a press ends (input/cursor.c,   *)
(* seatop_down.c and the touch, tablet and gesture handlers of             *)
(* seatop_default.c).                                                      *)
(*                                                                         *)
(* Buttons, one finger or more, the tip and the buttons of a tablet tool,  *)
(* and `seat cursor press`, all drive the same seat operation.  Only real  *)
(* buttons are counted; the others are emulated by button events, or talk  *)
(* to surfaces that take them.  What is under the cursor or a finger, and  *)
(* what a press begins there, is chosen by each event.  The operations on  *)
(* containers are in SeatOps; here "move" takes a tool's tip and "resize"  *)
(* does not.                                                               *)
(*                                                                         *)
(* libinput releases what is pressed on a device that is unplugged, and    *)
(* ends each group of touch events with a frame; within one, a finger that *)
(* went up does not come down.                                             *)
(***************************************************************************)
EXTENDS Naturals, FiniteSets

CONSTANTS Buttons,        \* the buttons of pointer devices
          Fingers,        \* touch points
          Gestures,       \* swipe, pinch and hold, each of a touchpad
          NoGesture,
          ToolButtons     \* most buttons of a tablet tool pressed at once

ASSUME PointerInputs == IsFiniteSet(Buttons) /\ IsFiniteSet(Fingers) /\ ToolButtons \in Nat
ASSUME NoGestureIsNone == NoGesture \notin Gestures

VARIABLE p

Op(kind) == [kind |-> kind, points |-> {}]

PointerInit == p =
  [op      |-> Op("default"),   \* points: the touch points of "down"
   tracker |-> NoGesture,       \* the gesture the default operation tracks for a binding
   held    |-> {},              \* buttons that are down, counted by pressed_button_count
   fingers |-> {},
   touchId |-> {},              \* seat->touch_id and cursor->pointer_touch_id,
   pointerId |-> {},            \* sets of at most one finger
   simTouch |-> FALSE, touchUp |-> FALSE,
   frame   |-> TRUE,            \* no touch frame is outstanding
   lifted  |-> {},              \* the fingers that went up since the last one
   tip     |-> FALSE, simTip |-> FALSE,
   tools   |-> 0,     simTool |-> FALSE,
   command |-> FALSE,           \* `cursor press` without its release
   emulated |-> {},             \* sources whose last emulated event was a press
   gestures |-> {},             \* gestures in progress
   hidden  |-> FALSE, timer |-> FALSE]

NoneCounted(t) == t.held = {}             \* pressed_button_count is 0

\* A new default operation tracks nothing.
BeginDefault(t) == [t EXCEPT !.op = Op("default"), !.tracker = NoGesture]

\* The data of the default operation is freed with its tracker.
Begin(t, kind) == [t EXCEPT !.op = Op(kind), !.tracker = NoGesture]

HideTimeout(t) == NoneCounted(t)          \* cursor_get_timeout is not 0

\* cursor_handle_activity_from_idle_source.
Activity(t, touch) ==
  [t EXCEPT !.timer = HideTimeout(t), !.hidden = @ /\ touch]

------------------------------------------------------------------------------
(***************************************************************************)
(* Button events, real and emulated.                                       *)
(***************************************************************************)

\* A press on a container may begin an operation; on a binding, a layer or the
\* desktop it does not.
BegunKinds == {"none", "down", "move", "resize"}

PressInDefault(t, begun) == IF begun = "none" THEN t ELSE Begin(t, begun)

\* The other operations end with any button event while no button is counted.
ButtonInOther(t) == IF NoneCounted(t) THEN BeginDefault(t) ELSE t

\* dispatch_cursor_button.
Dispatch(t, press, begun) ==
  IF t.op.kind # "default" THEN ButtonInOther(t)
  ELSE IF press THEN PressInDefault(t, begun) ELSE t

Emulate(t, source, press, begun) ==
  Dispatch([t EXCEPT !.emulated = IF press THEN @ \cup {source} ELSE @ \ {source}], press, begun)

PointerButton(b, begun) ==
  LET press == b \notin p.held
      counted == [p EXCEPT !.held = IF press THEN @ \cup {b} ELSE @ \ {b}]
  IN  p' = Dispatch(Activity(counted, FALSE), press, begun)

\* `seat <seat> cursor press|release`: activity follows the event.
CursorCommand(begun) ==
  LET r == Emulate([p EXCEPT !.command = ~@], "command", ~p.command, begun)
  IN  p' = Activity(r, FALSE)

------------------------------------------------------------------------------
(***************************************************************************)
(* Touch.                                                                  *)
(***************************************************************************)

\* In the default operation a surface that accepts touch gets the point; elsewhere
\* the first finger acts as the pointer.
TouchDownInDefault(t, f, under, begun) ==
  CASE under = "touch" ->
         [Begin([t EXCEPT !.simTouch = FALSE], "down") EXCEPT !.op.points = {f}]
    [] under = "plain" /\ ~t.simTouch ->
         Emulate([t EXCEPT !.simTouch = TRUE, !.pointerId = t.touchId], "touch", TRUE, begun)
    [] OTHER -> t                         \* not accepted, or input is not allowed

\* Only on the surface of the operation.
TouchDownInDown(t, f, under) ==
  IF under = "same" THEN [t EXCEPT !.op.points = @ \cup {f}] ELSE t

TouchDown(f, under, begun) ==
  LET t == [Activity(p, TRUE) EXCEPT !.hidden = TRUE, !.touchId = {f},
                                     !.fingers = @ \cup {f}, !.frame = FALSE]
  IN  /\ f \notin p.fingers \cup p.lifted
      /\ p' = CASE p.op.kind = "default" -> TouchDownInDefault(t, f, under, begun)
                [] p.op.kind = "down"    -> TouchDownInDown(t, f, under)
                [] OTHER                 -> t

\* seatop_down ends with its last touch point, whatever began it.
TouchUpInDown(t, f) ==
  LET points == t.op.points \ {f}
  IN  IF points = {} THEN BeginDefault(t) ELSE [t EXCEPT !.op.points = points]

SlipTouchUp(f) ==                         \* the emulated release waits for the frame
  LET t == [Activity(p, TRUE) EXCEPT !.fingers = @ \ {f}, !.frame = FALSE,
                                     !.lifted = @ \cup {f}]
  IN  /\ f \in p.fingers
      /\ p' = IF p.simTouch THEN [t EXCEPT !.touchUp = TRUE]
              ELSE IF p.op.kind = "down" THEN TouchUpInDown(t, f)
              ELSE t

\* The lift of a finger, or the loss of it (touch_cancel).  It is the finger that went
\* down last that is compared with the one that acts as the pointer.
TouchUp(f) ==
  LET t == [Activity(p, TRUE) EXCEPT !.fingers = @ \ {f}, !.frame = FALSE,
                                     !.lifted = @ \cup {f}]
  IN  /\ f \in p.fingers
      /\ p' = IF p.simTouch
              THEN IF p.pointerId = p.touchId
                   THEN Emulate([t EXCEPT !.touchUp = TRUE], "touch", FALSE, "none")
                   ELSE t
              ELSE IF p.op.kind = "down" THEN TouchUpInDown(t, f)
              ELSE t

TouchFrame ==
  /\ ~p.frame
  /\ p' = [p EXCEPT !.frame = TRUE, !.lifted = {},
                    !.touchUp  = @ /\ ~p.simTouch,
                    !.simTouch = @ /\ ~p.touchUp]

------------------------------------------------------------------------------
(***************************************************************************)
(* A tablet tool.                                                          *)
(***************************************************************************)

\* seatop_tablet_tool_tip: on a surface that accepts tablets, or for a tip that was
\* not emulated.
TipOnTablet(t, down, begun) ==
  CASE t.op.kind = "default" /\ down /\ begun # "resize" -> PressInDefault(t, begun)
    [] t.op.kind \in {"down", "move"} /\ ~down -> BeginDefault(t)
    [] OTHER -> t

SlipToolTip(onTablet, begun) ==           \* over a tablet surface, its events only
  LET t == [Activity(p, FALSE) EXCEPT !.tip = ~@]
  IN  p' = IF onTablet THEN TipOnTablet(t, t.tip, begun)
           ELSE IF p.tip
                THEN IF p.simTip THEN Emulate([t EXCEPT !.simTip = FALSE], "tip", FALSE, begun)
                     ELSE TipOnTablet(t, FALSE, begun)
                ELSE Emulate([t EXCEPT !.simTip = TRUE], "tip", TRUE, begun)

ToolTip(onTablet, begun) ==
  LET t == [Activity(p, FALSE) EXCEPT !.tip = ~@]
  IN  p' = CASE p.simTip /\ p.tip -> Emulate([t EXCEPT !.simTip = FALSE], "tip", FALSE, begun)
             [] ~onTablet /\ ~p.tip ->
                  Emulate([t EXCEPT !.simTip = TRUE], "tip", TRUE, begun)
             [] OTHER -> TipOnTablet(t, t.tip, begun)

\* All buttons of a tool act as the right button, which is pressed with the first and
\* released with the last; the first decides whether they do.
ToolButton(press, simulate, begun) ==
  LET t == [Activity(p, FALSE) EXCEPT !.tools = IF press THEN @ + 1 ELSE @ - 1]
      sim == (p.tools > 0 /\ p.simTool) \/ (p.tools = 0 /\ simulate)
      edge == IF press THEN p.tools = 0 ELSE p.tools <= 1
      r == [t EXCEPT !.simTool = sim]
  IN  /\ IF press THEN p.tools < ToolButtons ELSE p.tools > 0
      /\ p' = IF sim /\ edge THEN Emulate(r, "tool", press, begun) ELSE r

------------------------------------------------------------------------------
(***************************************************************************)
(* Gestures.  The default operation tracks one that has a binding and      *)
(* forwards the others; the other operations drop gestures.                *)
(***************************************************************************)

GestureBegin(g, bound) ==
  /\ g \notin p.gestures
  /\ p' = [Activity(p, FALSE) EXCEPT
             !.gestures = @ \cup {g},
             !.tracker = IF bound /\ p.op.kind = "default" THEN g ELSE @]

\* A tracker for another gesture forwards the end, too.
GestureEnd(g) ==
  /\ g \in p.gestures
  /\ p' = [Activity(p, FALSE) EXCEPT
             !.gestures = @ \ {g},
             !.tracker = IF @ = g THEN NoGesture ELSE @]

------------------------------------------------------------------------------
\* Motion of the pointer, of an emulated one, of a tool, or a scroll.
Motion == p' = Activity(p, FALSE)

HideNotify == p.timer /\ p' = [p EXCEPT !.timer = FALSE, !.hidden = TRUE]

\* With hide_cursor when-typing.
KeyPress == ~p.hidden /\ p' = [p EXCEPT !.hidden = TRUE]

\* The surface goes, or its container is unmapped: seatop_unref.
OperandGone == p.op.kind # "default" /\ p' = BeginDefault(p)

\* A client begins drag and drop from its surface.
StartsDrag == p.op.kind = "down" /\ p' = BeginDefault(p)

\* A pointer is plugged in or configured anew.
ConfigurePointer == p' = [p EXCEPT !.timer = HideTimeout(p)]

Tablet ==
  \/ \E onTablet \in BOOLEAN, begun \in BegunKinds : ToolTip(onTablet, begun)
  \/ \E press, simulate \in BOOLEAN, begun \in BegunKinds : ToolButton(press, simulate, begun)

Touch ==
  \/ \E f \in Fingers, under \in {"touch", "plain", "refused", "same"}, begun \in BegunKinds :
       TouchDown(f, under, begun)
  \/ \E f \in Fingers : TouchUp(f)
  \/ TouchFrame

PointerNext ==
  \/ \E b \in Buttons, begun \in BegunKinds : PointerButton(b, begun)
  \/ \E begun \in BegunKinds : CursorCommand(begun)
  \/ Touch
  \/ Tablet
  \/ \E g \in Gestures, bound \in BOOLEAN : GestureBegin(g, bound)
  \/ \E g \in Gestures : GestureEnd(g)
  \/ Motion \/ HideNotify \/ KeyPress \/ OperandGone \/ StartsDrag \/ ConfigurePointer

PointerSpec == PointerInit /\ [][PointerNext]_p

------------------------------------------------------------------------------
NothingHeld ==
  /\ p.held = {} /\ p.fingers = {} /\ p.frame
  /\ ~p.tip /\ p.tools = 0 /\ ~p.command

\* When nothing is pressed any more, nothing is dragged and no finger or tip stands for
\* the pointer, however presses of different devices overlapped.
NoStuckOperation ==
  NothingHeld => p.op.kind = "default" /\ ~p.simTouch /\ ~p.simTip

\* A button that is pressed for a client on behalf of a finger, a tip or a tool's buttons
\* is released for it once they are up.
EmulatedReleased ==
  /\ "touch" \in p.emulated => p.fingers # {}
  /\ "tip" \in p.emulated => p.tip
  /\ "tool" \in p.emulated => p.tools > 0
  /\ "command" \in p.emulated => p.command

\* "Do not hide cursor unless all buttons are released" (cursor_get_timeout): the timer
\* that hides it is not armed while a button is down.
NoTimerWhilePressed == p.timer => p.held = {}

\* A binding is run only for a gesture that still goes on: its tracker neither outlives the
\* gesture nor the operation in which it began.
TrackerFollowsGesture ==
  p.tracker # NoGesture => p.tracker \in p.gestures /\ p.op.kind = "default"

\* All that is done on behalf of fingers, tools, gestures and the timer ends with
\* what made it begin.
InputReleased == EmulatedReleased /\ NoTimerWhilePressed /\ TrackerFollowsGesture
==============================================================================
