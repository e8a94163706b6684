----------------------------- MODULE InputProofs -----------------------------
(***************************************************************************)
(* Proofs about Pointer.  With at most one finger on the screen no press   *)
(* is ever stuck, for any set of buttons and gestures and any number of    *)
(* buttons on a tablet tool.  With two fingers it is not so: see the       *)
(* README on cursor.c:437.                                                 *)
(*                                                                         *)
(* NoStuckOperation is not inductive.  What keeps an operation from being  *)
(* stuck is that each source of presses remembers what it began: Owned     *)
(* says that an operation has a source left whose release will end it, and *)
(* the other conjuncts that every source's memory agrees with what is      *)
(* really down.                                                            *)
(*                                                                         *)
(* What clients and bindings take for pressed is pressed, and no binding   *)
(* repeats that a reload has freed, for any keyboards, groups and          *)
(* configurations.                                                         *)
(*                                                                         *)
(* Keyboards change groups and release their keys one after the other: a   *)
(* walk along a sequence, of which FoldExists and Counting say all that is *)
(* needed.  What holds in the midst of a handler is Steady; InStep and     *)
(* Aimed hold between handlers.                                            *)
(***************************************************************************)
EXTENDS Pointer, Bindings, FiniteSetTheorems, FunctionTheorems, SequenceTheorems,
        WellFoundedInduction, NaturalsInduction, TLAPS

------------------------------------------------------------------------------
(***************************************************************************)
(* The pointer.                                                            *)
(***************************************************************************)
OneFinger == \E f : Fingers \subseteq {f}

Sources == {"touch", "tip", "tool", "command"}
Kinds == {"default", "down", "move", "resize"}

State ==
  [op      : [kind : Kinds, points : SUBSET Fingers],
   tracker : Gestures \cup {NoGesture},
   held    : SUBSET Buttons,
   fingers : SUBSET Fingers,
   touchId : SUBSET Fingers,
   pointerId : SUBSET Fingers,
   simTouch : BOOLEAN, touchUp : BOOLEAN,
   frame   : BOOLEAN,
   lifted  : SUBSET Fingers,
   tip     : BOOLEAN, simTip : BOOLEAN,
   tools   : Nat,     simTool : BOOLEAN,
   command : BOOLEAN,
   emulated : SUBSET Sources,
   gestures : SUBSET Gestures,
   hidden  : BOOLEAN, timer : BOOLEAN]

\* A finger that stands for the pointer is down, or went up in this frame.
FingerStands(t) ==
  /\ t.fingers \cap t.lifted = {}
  /\ t.lifted # {} => ~t.frame
  /\ t.simTouch => t.pointerId = t.touchId /\ (t.fingers # {} \/ t.lifted # {})
  /\ t.touchUp <=> t.simTouch /\ t.fingers = {}
  /\ t.op.points \subseteq t.fingers
  /\ t.op.points # {} => t.op.kind = "down" /\ ~t.simTouch

\* A source whose last emulated event was a press still has something down.
Remembered(t) ==
  /\ "touch" \in t.emulated => t.simTouch /\ t.fingers # {}
  /\ t.simTip => t.tip
  /\ "tip" \in t.emulated => t.simTip
  /\ "tool" \in t.emulated => t.tools > 0 /\ t.simTool
  /\ "command" \in t.emulated <=> t.command

\* Somebody is left whose release ends the operation.
Owned(t) ==
  t.op.kind # "default" =>
    \/ t.held # {}
    \/ t.emulated \cap {"touch", "tool", "command"} # {}
    \/ t.op.points # {}
    \/ t.tip /\ (t.simTip \/ t.op.kind \in {"down", "move"})

Tracked(t) ==
  /\ t.timer => t.held = {}
  /\ t.tracker # NoGesture => t.tracker \in t.gestures /\ t.op.kind = "default"

Sound(t) == t \in State /\ FingerStands(t) /\ Remembered(t) /\ Tracked(t) /\ Owned(t)

\* All but the ownership of the operation, which an event takes away before
\* dispatching what it may mean for the operation.
Settled(t) == t \in State /\ FingerStands(t) /\ Remembered(t) /\ Tracked(t)

------------------------------------------------------------------------------
(***************************************************************************)
(* Beginning and ending operations.                                        *)
(***************************************************************************)

\* Every field but the operation and its tracker is kept.
SameButOp(u, t) ==
  /\ u.held = t.held /\ u.fingers = t.fingers /\ u.touchId = t.touchId
  /\ u.pointerId = t.pointerId /\ u.simTouch = t.simTouch /\ u.touchUp = t.touchUp
  /\ u.frame = t.frame /\ u.lifted = t.lifted /\ u.tip = t.tip /\ u.simTip = t.simTip
  /\ u.tools = t.tools /\ u.simTool = t.simTool /\ u.command = t.command
  /\ u.emulated = t.emulated /\ u.gestures = t.gestures /\ u.timer = t.timer

LEMMA BeginFields ==
  ASSUME NEW t \in State, NEW kind \in Kinds
  PROVE  LET u == [t EXCEPT !.op = Op(kind), !.tracker = NoGesture]
         IN  /\ u \in State /\ SameButOp(u, t)
             /\ u.op.kind = kind /\ u.op.points = {} /\ u.tracker = NoGesture
<1>1. Op(kind) \in [kind : Kinds, points : SUBSET Fingers]
  BY DEF Op
<1>2. [t EXCEPT !.op = Op(kind), !.tracker = NoGesture] \in State
  BY <1>1 DEF State
<1> QED
  BY <1>2 DEF State, SameButOp, Op

LEMMA BegunSteady ==
  ASSUME NEW t, Settled(t), NEW u \in State, SameButOp(u, t),
         u.op.points = {}, u.tracker = NoGesture
  PROVE  Settled(u)
<1>1. FingerStands(u)
  BY DEF Settled, SameButOp, FingerStands
<1>2. Remembered(u)
  BY DEF Settled, SameButOp, Remembered
<1>3. Tracked(u)
  BY DEF Settled, SameButOp, Tracked
<1> QED
  BY <1>1, <1>2, <1>3 DEF Settled

LEMMA BeginDefaultSound ==
  ASSUME NEW t, Settled(t)
  PROVE  Sound(BeginDefault(t))
<1> DEFINE u == BeginDefault(t)
<1>1. /\ u \in State /\ SameButOp(u, t)
      /\ u.op.kind = "default" /\ u.op.points = {} /\ u.tracker = NoGesture
  BY BeginFields DEF BeginDefault, Settled, Kinds
<1> HIDE DEF u
<1>2. Settled(u)
  BY <1>1, BegunSteady
<1> QED
  BY <1>1, <1>2 DEF Settled, Sound, Owned, u

\* An operation that is begun by a source of presses is owned by it.
Source(t) ==
  \/ t.held # {}
  \/ t.emulated \cap {"touch", "tool", "command"} # {}
  \/ t.tip /\ t.simTip

LEMMA BeginSound ==
  ASSUME NEW t, Settled(t), Source(t), NEW kind \in {"down", "move", "resize"}
  PROVE  Sound(Begin(t, kind))
<1> DEFINE u == Begin(t, kind)
<1>1. /\ u \in State /\ SameButOp(u, t)
      /\ u.op.kind = kind /\ u.op.points = {} /\ u.tracker = NoGesture
  <2>1. t \in State /\ kind \in Kinds
    BY DEF Settled, Kinds
  <2> QED
    BY <2>1, BeginFields DEF Begin
<1> HIDE DEF u
<1>2. Settled(u)
  BY <1>1, BegunSteady
<1>3. Owned(u)
  BY <1>1 DEF Source, SameButOp, Owned
<1> QED
  BY <1>2, <1>3 DEF Settled, Sound, u

LEMMA DispatchSound ==
  ASSUME NEW t, Settled(t), NEW press \in BOOLEAN, NEW begun \in BegunKinds,
         press => Source(t)
  PROVE  Sound(Dispatch(t, press, begun))
<1>1. CASE t.op.kind # "default" /\ NoneCounted(t)
  BY <1>1, BeginDefaultSound DEF Dispatch, ButtonInOther
<1>2. CASE t.op.kind # "default" /\ ~NoneCounted(t)
  BY <1>2 DEF Dispatch, ButtonInOther, NoneCounted, Sound, Settled, Owned
<1>3. CASE t.op.kind = "default" /\ press /\ begun # "none"
  BY <1>3, BeginSound DEF Dispatch, PressInDefault, BegunKinds
<1>4. CASE t.op.kind = "default" /\ ~(press /\ begun # "none")
  BY <1>4 DEF Dispatch, PressInDefault, Sound, Settled, Owned
<1> QED
  BY <1>1, <1>2, <1>3, <1>4

\* Activity only arms the timer that hides the cursor, and shows it.
SameButTimer(u, t) ==
  /\ u.op = t.op /\ u.tracker = t.tracker /\ u.held = t.held /\ u.fingers = t.fingers
  /\ u.touchId = t.touchId /\ u.pointerId = t.pointerId /\ u.simTouch = t.simTouch
  /\ u.touchUp = t.touchUp /\ u.frame = t.frame /\ u.lifted = t.lifted /\ u.tip = t.tip
  /\ u.simTip = t.simTip /\ u.tools = t.tools /\ u.simTool = t.simTool
  /\ u.command = t.command /\ u.emulated = t.emulated /\ u.gestures = t.gestures
  /\ u.timer = (t.held = {})

LEMMA ActivityFields ==
  ASSUME NEW t \in State, NEW touch \in BOOLEAN
  PROVE  Activity(t, touch) \in State /\ SameButTimer(Activity(t, touch), t)
<1>1. (t.held = {}) \in BOOLEAN /\ (t.hidden /\ touch) \in BOOLEAN
  OBVIOUS
<1> DEFINE timer == t.held = {}
           hidden == t.hidden /\ touch
<1>2. Activity(t, touch) = [t EXCEPT !.timer = timer, !.hidden = hidden]
  BY DEF Activity, HideTimeout, NoneCounted, State
<1>3. timer \in BOOLEAN /\ hidden \in BOOLEAN /\ timer = (t.held = {})
  BY <1>1
<1> HIDE DEF timer, hidden
<1>4. Activity(t, touch) \in State
  BY <1>2, <1>3 DEF State
<1>5. SameButTimer(Activity(t, touch), t)
  BY <1>2, <1>3 DEF State, SameButTimer
<1> QED
  BY <1>4, <1>5

LEMMA ActivitySound ==
  ASSUME NEW t, Sound(t), NEW touch \in BOOLEAN
  PROVE  Sound(Activity(t, touch))
<1> DEFINE u == Activity(t, touch)
<1>1. t \in State /\ u \in State /\ SameButTimer(u, t)
  BY ActivityFields DEF Sound
<1> HIDE DEF u
<1>2. FingerStands(u) /\ Owned(u)
  BY <1>1 DEF SameButTimer, Sound, FingerStands, Owned
<1>3. Remembered(u) /\ Tracked(u)
  BY <1>1 DEF SameButTimer, Sound, Remembered, Tracked
<1> QED
  BY <1>1, <1>2, <1>3 DEF Sound, u

\* The record of an emulated event, before it is dispatched.
Noted(t, source, press) ==
  [t EXCEPT !.emulated = IF press THEN @ \cup {source} ELSE @ \ {source}]

LEMMA NotedTyped ==
  ASSUME NEW t \in State, NEW source \in Sources, NEW press \in BOOLEAN
  PROVE  Noted(t, source, press) \in State
<1>1. (IF press THEN t.emulated \cup {source} ELSE t.emulated \ {source}) \in SUBSET Sources
  BY DEF State
<1> QED
  BY <1>1 DEF State, Noted

LEMMA EmulateSound ==
  ASSUME NEW t, NEW source \in Sources, NEW press \in BOOLEAN, NEW begun \in BegunKinds,
         Settled(Noted(t, source, press)), press => Source(Noted(t, source, press))
  PROVE  Sound(Emulate(t, source, press, begun))
BY DispatchSound DEF Emulate, Noted

------------------------------------------------------------------------------
(***************************************************************************)
(* The actions.                                                            *)
(***************************************************************************)

LEMMA InitSound == PointerInit => Sound(p)
<1> SUFFICES ASSUME PointerInit PROVE Sound(p)
  OBVIOUS
<1>1. Op("default") \in [kind : Kinds, points : SUBSET Fingers]
  BY DEF Op, Kinds
<1>2. p \in State
  BY <1>1 DEF PointerInit, State
<1>3. FingerStands(p) /\ Tracked(p) /\ Owned(p)
  BY DEF PointerInit, Op, FingerStands, Tracked, Owned
<1>4. Remembered(p)
  BY DEF PointerInit, Remembered
<1> QED
  BY <1>2, <1>3, <1>4 DEF Sound

\* A button goes down or up.
Counted(t, b) == [t EXCEPT !.held = IF b \notin t.held THEN @ \cup {b} ELSE @ \ {b}]

LEMMA CountedFields ==
  ASSUME NEW t, Sound(t), NEW b \in Buttons
  PROVE  /\ Counted(t, b) \in State /\ FingerStands(Counted(t, b)) /\ Remembered(Counted(t, b))
         /\ Counted(t, b).tracker = t.tracker /\ Counted(t, b).gestures = t.gestures
         /\ Counted(t, b).op = t.op
         /\ b \notin t.held => Counted(t, b).held # {}
BY DEF Sound, State, FingerStands, Remembered, Counted

LEMMA ButtonSound ==
  ASSUME Sound(p), NEW b \in Buttons, NEW begun \in BegunKinds, PointerButton(b, begun)
  PROVE  Sound(p')
<1> DEFINE c == Counted(p, b)
           a == Activity(c, FALSE)
<1>1. c \in State /\ FingerStands(c) /\ Remembered(c) /\ c.tracker = p.tracker
      /\ c.gestures = p.gestures /\ c.op = p.op /\ (b \notin p.held => c.held # {})
  BY CountedFields
<1>2. a \in State /\ SameButTimer(a, c)
  BY <1>1, ActivityFields
<1> HIDE DEF c, a
<1>3. Settled(a)
  <2>1. FingerStands(a)
    BY <1>1, <1>2 DEF SameButTimer, FingerStands
  <2>2. Remembered(a)
    BY <1>1, <1>2 DEF SameButTimer, Remembered
  <2>3. Tracked(a)
    BY <1>1, <1>2 DEF Sound, SameButTimer, Tracked
  <2> QED
    BY <1>2, <2>1, <2>2, <2>3 DEF Settled
<1>5. b \notin p.held => Source(a)
  BY <1>1, <1>2 DEF Source, SameButTimer
<1>4. Sound(Dispatch(a, b \notin p.held, begun))
  BY <1>3, <1>5, DispatchSound
<1> QED
  BY <1>4 DEF PointerButton, Counted, a, c

LEMMA CommandNoted ==
  ASSUME NEW t, Sound(t)
  PROVE  /\ Settled(Noted([t EXCEPT !.command = ~@], "command", ~t.command))
         /\ ~t.command => Source(Noted([t EXCEPT !.command = ~@], "command", ~t.command))
<1> DEFINE u == Noted([t EXCEPT !.command = ~@], "command", ~t.command)
<1>1. u \in State
  <2>1. [t EXCEPT !.command = ~@] \in State /\ (~t.command) \in BOOLEAN /\ "command" \in Sources
    BY DEF Sound, State, Sources
  <2> QED
    BY <2>1, NotedTyped
<1>2. FingerStands(u) /\ Tracked(u)
  BY DEF Sound, State, FingerStands, Tracked, Noted
<1>3. Remembered(u)
  BY DEF Sound, State, Remembered, Noted
<1>4. ~t.command => Source(u)
  BY DEF Sound, State, Source, Noted
<1> QED
  BY <1>1, <1>2, <1>3, <1>4 DEF Settled

LEMMA CommandSound ==
  ASSUME Sound(p), NEW begun \in BegunKinds, CursorCommand(begun)
  PROVE  Sound(p')
<1>1. (~p.command) \in BOOLEAN /\ "command" \in Sources
  BY DEF Sources
<1>2. Sound(Emulate([p EXCEPT !.command = ~@], "command", ~p.command, begun))
  BY <1>1, CommandNoted, EmulateSound
<1> QED
  BY <1>2, ActivitySound DEF CursorCommand

LEMMA GestureBeginSound ==
  ASSUME NEW t, Sound(t), NEW g \in Gestures, NEW bound \in BOOLEAN
  PROVE  Sound([t EXCEPT !.gestures = @ \cup {g},
                         !.tracker = IF bound /\ t.op.kind = "default" THEN g ELSE @])
<1> DEFINE u == [t EXCEPT !.gestures = @ \cup {g},
                          !.tracker = IF bound /\ t.op.kind = "default" THEN g ELSE @]
<1>1. u \in State
  BY DEF Sound, State
<1>2. FingerStands(u) /\ Owned(u)
  BY DEF Sound, State, FingerStands, Owned
<1>3. Remembered(u) /\ Tracked(u)
  BY DEF Sound, State, Remembered, Tracked
<1> QED
  BY <1>1, <1>2, <1>3 DEF Sound

LEMMA GestureEndSound ==
  ASSUME NEW t, Sound(t), NEW g \in Gestures
  PROVE  Sound([t EXCEPT !.gestures = @ \ {g}, !.tracker = IF @ = g THEN NoGesture ELSE @])
<1> DEFINE u == [t EXCEPT !.gestures = @ \ {g},
                          !.tracker = IF @ = g THEN NoGesture ELSE @]
<1>1. u \in State
  BY DEF Sound, State
<1>2. FingerStands(u) /\ Owned(u)
  BY DEF Sound, State, FingerStands, Owned
<1>3. Remembered(u) /\ Tracked(u)
  BY DEF Sound, State, Remembered, Tracked
<1> QED
  BY <1>1, <1>2, <1>3 DEF Sound

LEMMA TimerSound ==
  ASSUME NEW t, Sound(t)
  PROVE  /\ Sound([t EXCEPT !.timer = FALSE, !.hidden = TRUE])
         /\ Sound([t EXCEPT !.hidden = TRUE])
         /\ Sound([t EXCEPT !.timer = HideTimeout(t)])
<1>1. Sound([t EXCEPT !.timer = FALSE, !.hidden = TRUE])
  <2> DEFINE u == [t EXCEPT !.timer = FALSE, !.hidden = TRUE]
  <2>1. u \in State
    BY DEF Sound, State
  <2>2. FingerStands(u) /\ Owned(u)
    BY DEF Sound, State, FingerStands, Owned
  <2>3. Remembered(u) /\ Tracked(u)
    BY DEF Sound, State, Remembered, Tracked
  <2> QED
    BY <2>1, <2>2, <2>3 DEF Sound
<1>2. Sound([t EXCEPT !.hidden = TRUE])
  <2> DEFINE u == [t EXCEPT !.hidden = TRUE]
  <2>1. u \in State
    BY DEF Sound, State
  <2>2. FingerStands(u) /\ Owned(u)
    BY DEF Sound, State, FingerStands, Owned
  <2>3. Remembered(u) /\ Tracked(u)
    BY DEF Sound, State, Remembered, Tracked
  <2> QED
    BY <2>1, <2>2, <2>3 DEF Sound
<1>3. Sound([t EXCEPT !.timer = HideTimeout(t)])
  <2> DEFINE u == [t EXCEPT !.timer = HideTimeout(t)]
  <2>1. HideTimeout(t) \in BOOLEAN /\ (HideTimeout(t) <=> t.held = {})
    BY DEF HideTimeout, NoneCounted
  <2>2. u \in State
    BY <2>1 DEF Sound, State
  <2>3. FingerStands(u) /\ Owned(u)
    BY DEF Sound, State, FingerStands, Owned
  <2>4. Remembered(u)
    BY DEF Sound, State, Remembered
  <2>5. Tracked(u)
    BY <2>1 DEF Sound, State, Tracked
  <2> QED
    BY <2>2, <2>3, <2>4, <2>5 DEF Sound
<1> QED
  BY <1>1, <1>2, <1>3

------------------------------------------------------------------------------
(***************************************************************************)
(* Touch, with one finger.                                                 *)
(***************************************************************************)

Touched(t, f) ==
  [t EXCEPT !.hidden = TRUE, !.touchId = {f}, !.fingers = @ \cup {f}, !.frame = FALSE]

\* When the finger comes down it stood for nothing.
LEMMA TouchedSound ==
  ASSUME NEW t, Sound(t), NEW f \in Fingers, Fingers \subseteq {f},
         f \notin t.fingers \cup t.lifted
  PROVE  /\ Sound(Touched(t, f))
         /\ f \in Touched(t, f).fingers
         /\ ~Touched(t, f).simTouch /\ Touched(t, f).op.points = {}
         /\ Touched(t, f).op = t.op
<1> DEFINE u == Touched(t, f)
<1>1. t.fingers = {} /\ t.lifted = {} /\ ~t.simTouch /\ t.op.points = {}
  BY DEF Sound, State, FingerStands
<1>2. u \in State
  BY DEF Sound, State, Touched
<1>3. FingerStands(u) /\ Owned(u)
  BY <1>1 DEF Sound, State, FingerStands, Owned, Touched
<1>4. Remembered(u) /\ Tracked(u)
  BY <1>1 DEF Sound, State, Remembered, Tracked, Touched
<1> QED
  BY <1>1, <1>2, <1>3, <1>4 DEF Sound, State, Touched

\* On a surface that takes touch.
LEMMA PointBegins ==
  ASSUME NEW t, Sound(t), NEW f \in Fingers, f \in t.fingers, ~t.simTouch
  PROVE  Sound([Begin([t EXCEPT !.simTouch = FALSE], "down") EXCEPT !.op.points = {f}])
<1> DEFINE u == [Begin([t EXCEPT !.simTouch = FALSE], "down") EXCEPT !.op.points = {f}]
<1>1. /\ u \in State /\ u.op.kind = "down" /\ u.op.points = {f} /\ u.fingers = t.fingers
      /\ u.lifted = t.lifted /\ u.frame = t.frame /\ u.simTouch = FALSE /\ u.touchUp = t.touchUp
  BY DEF Sound, State, Begin, Op, Kinds
<1>2. FingerStands(u) /\ Owned(u)
  BY <1>1 DEF Sound, State, FingerStands, Owned
<1>3. Remembered(u) /\ Tracked(u)
  BY DEF Sound, State, Remembered, Tracked, Begin, Op
<1> QED
  BY <1>1, <1>2, <1>3 DEF Sound

LEMMA PointJoins ==
  ASSUME NEW t, Sound(t), NEW f \in Fingers, f \in t.fingers, ~t.simTouch, t.op.kind = "down"
  PROVE  Sound([t EXCEPT !.op.points = @ \cup {f}])
<1> DEFINE u == [t EXCEPT !.op.points = @ \cup {f}]
<1>1. /\ u \in State /\ u.op.kind = "down" /\ u.op.points = t.op.points \cup {f}
      /\ u.fingers = t.fingers /\ u.lifted = t.lifted /\ u.frame = t.frame
      /\ u.simTouch = t.simTouch /\ u.touchUp = t.touchUp
  BY DEF Sound, State, Kinds
<1>2. FingerStands(u) /\ Owned(u)
  BY <1>1 DEF Sound, State, FingerStands, Owned
<1>3. Remembered(u) /\ Tracked(u)
  BY <1>1 DEF Sound, State, Remembered, Tracked
<1> QED
  BY <1>1, <1>2, <1>3 DEF Sound

\* On a surface that does not, the finger stands for the pointer.
LEMMA FingerNoted ==
  ASSUME NEW t, Sound(t), t.fingers # {}, ~t.simTouch, t.op.points = {}
  PROVE  LET u == Noted([t EXCEPT !.simTouch = TRUE, !.pointerId = t.touchId], "touch", TRUE)
         IN  Settled(u) /\ Source(u)
<1> DEFINE u == Noted([t EXCEPT !.simTouch = TRUE, !.pointerId = t.touchId], "touch", TRUE)
<1>1. u \in State
  BY DEF Sound, State, Noted, Sources
<1>2. FingerStands(u) /\ Source(u)
  BY DEF Sound, State, FingerStands, Source, Noted
<1>3. Remembered(u) /\ Tracked(u)
  BY DEF Sound, State, Remembered, Tracked, Noted
<1> QED
  BY <1>1, <1>2, <1>3 DEF Settled

LEMMA TouchDownSound ==
  ASSUME Sound(p), NEW f \in Fingers, Fingers \subseteq {f}, NEW begun \in BegunKinds,
         NEW under, TouchDown(f, under, begun)
  PROVE  Sound(p')
<1> DEFINE a == Activity(p, TRUE)
           t == Touched(a, f)
<1>1. Sound(a) /\ SameButTimer(a, p)
  BY ActivitySound, ActivityFields DEF Sound
<1>2. f \notin a.fingers \cup a.lifted
  BY <1>1 DEF TouchDown, SameButTimer
<1>3. /\ Sound(t) /\ f \in t.fingers /\ t.fingers # {}
      /\ ~t.simTouch /\ t.op.points = {} /\ t.op = p.op
  BY <1>1, <1>2, TouchedSound DEF SameButTimer
<1>4. p' = CASE p.op.kind = "default" -> TouchDownInDefault(t, f, under, begun)
             [] p.op.kind = "down"    -> TouchDownInDown(t, f, under)
             [] OTHER                 -> t
  BY DEF TouchDown, Touched
<1> HIDE DEF a, t
<1>5. CASE p.op.kind = "default" /\ under = "touch"
  <2>1. p' = [Begin([t EXCEPT !.simTouch = FALSE], "down") EXCEPT !.op.points = {f}]
    BY <1>4, <1>5 DEF TouchDownInDefault
  <2> QED
    BY <1>3, <2>1, PointBegins
<1>6. CASE p.op.kind = "default" /\ under = "plain"
  <2> DEFINE e == [t EXCEPT !.simTouch = TRUE, !.pointerId = t.touchId]
  <2>1. p' = Emulate(e, "touch", TRUE, begun)
    BY <1>3, <1>4, <1>6 DEF TouchDownInDefault
  <2>2. Settled(Noted(e, "touch", TRUE)) /\ Source(Noted(e, "touch", TRUE))
    BY <1>3, FingerNoted
  <2> HIDE DEF e
  <2> QED
    BY <2>1, <2>2, EmulateSound DEF Sources
<1>7. CASE p.op.kind = "default" /\ under \notin {"touch", "plain"}
  BY <1>3, <1>4, <1>7 DEF TouchDownInDefault
<1>8. CASE p.op.kind = "down"
  BY <1>3, <1>4, <1>8, PointJoins DEF TouchDownInDown
<1>9. CASE p.op.kind \notin {"default", "down"}
  BY <1>3, <1>4, <1>9
<1> QED
  BY <1>5, <1>6, <1>7, <1>8, <1>9

Lifted(t, f) ==
  [t EXCEPT !.fingers = @ \ {f}, !.frame = FALSE, !.lifted = @ \cup {f}]

\* The finger that goes up was the one that went down last: its button is let go.
LEMMA FingerUnnoted ==
  ASSUME NEW t, Sound(t), NEW f \in Fingers, Fingers \subseteq {f}, f \in t.fingers, t.simTouch
  PROVE  /\ t.pointerId = t.touchId
         /\ Settled(Noted([Lifted(t, f) EXCEPT !.touchUp = TRUE], "touch", FALSE))
<1> DEFINE u == Noted([Lifted(t, f) EXCEPT !.touchUp = TRUE], "touch", FALSE)
<1>1. t.pointerId = t.touchId /\ t.op.points = {} /\ t.fingers = {f}
  BY DEF Sound, State, FingerStands
<1>2. u \in State
  BY DEF Sound, State, Noted, Lifted
<1>3. FingerStands(u)
  BY <1>1 DEF Sound, State, FingerStands, Noted, Lifted
<1>4. Remembered(u) /\ Tracked(u)
  BY <1>1 DEF Sound, State, Remembered, Tracked, Noted, Lifted
<1> QED
  BY <1>1, <1>2, <1>3, <1>4 DEF Settled

\* The last touch point ends the operation it is in.
LEMMA PointEnds ==
  ASSUME NEW t, Sound(t), NEW f \in Fingers, Fingers \subseteq {f}, f \in t.fingers, ~t.simTouch
  PROVE  /\ Sound(BeginDefault(Lifted(t, f)))
         /\ t.op.kind # "down" => Sound(Lifted(t, f))
         /\ Lifted(t, f).op = t.op /\ t.op.points \ {f} = {}
<1>1. t.fingers = {f} /\ t.op.points \ {f} = {}
  BY DEF Sound, State, FingerStands
<1>2. Lifted(t, f) \in State /\ Lifted(t, f).op = t.op
  BY DEF Sound, State, Lifted
<1>3. Sound(BeginDefault(Lifted(t, f)))
  <2> DEFINE u == BeginDefault(Lifted(t, f))
  <2>1. u \in State
    BY DEF Sound, State, Kinds, Lifted, BeginDefault, Op
  <2>2. FingerStands(u)
    BY <1>1 DEF Sound, State, FingerStands, Lifted, BeginDefault, Op
  <2>3. Remembered(u)
    BY <1>1 DEF Sound, State, Remembered, Lifted, BeginDefault
  <2>4. Tracked(u) /\ Owned(u)
    BY DEF Sound, State, Tracked, Owned, Lifted, BeginDefault, Op
  <2> QED
    BY <2>1, <2>2, <2>3, <2>4 DEF Sound
<1>4. ASSUME t.op.kind # "down" PROVE Sound(Lifted(t, f))
  <2>1. t.op.points = {}
    BY <1>4 DEF Sound, FingerStands
  <2>2. FingerStands(Lifted(t, f)) /\ Owned(Lifted(t, f))
    BY <1>1, <2>1 DEF Sound, State, FingerStands, Remembered, Owned, Lifted
  <2>3. Remembered(Lifted(t, f)) /\ Tracked(Lifted(t, f))
    BY <1>1 DEF Sound, State, FingerStands, Remembered, Tracked, Lifted
  <2> QED
    BY <1>2, <2>2, <2>3 DEF Sound
<1> QED
  BY <1>1, <1>2, <1>3, <1>4

LEMMA TouchUpSound ==
  ASSUME Sound(p), NEW f \in Fingers, Fingers \subseteq {f}, TouchUp(f)
  PROVE  Sound(p')
<1> DEFINE a == Activity(p, TRUE)
           t == Lifted(a, f)
           e == [t EXCEPT !.touchUp = TRUE]
<1>1. Sound(a) /\ SameButTimer(a, p)
  BY ActivitySound, ActivityFields DEF Sound
<1>2. f \in a.fingers /\ a.simTouch = p.simTouch /\ a.op = p.op
      /\ a.touchId = p.touchId /\ a.pointerId = p.pointerId
  BY <1>1 DEF TouchUp, SameButTimer
<1>3. p' = IF p.simTouch
           THEN IF p.pointerId = p.touchId THEN Emulate(e, "touch", FALSE, "none") ELSE t
           ELSE IF p.op.kind = "down" THEN TouchUpInDown(t, f) ELSE t
  BY DEF TouchUp, Lifted
<1>4. CASE p.simTouch
  <2>1. a.simTouch /\ a.pointerId = a.touchId /\ Settled(Noted(e, "touch", FALSE))
    BY <1>1, <1>2, <1>4, FingerUnnoted
  <2>2. p' = Emulate(e, "touch", FALSE, "none")
    BY <1>2, <1>3, <1>4, <2>1
  <2> HIDE DEF e
  <2> QED
    BY <2>1, <2>2, EmulateSound DEF Sources, BegunKinds
<1>5. CASE ~p.simTouch
  <2>1. /\ Sound(BeginDefault(t)) /\ (p.op.kind # "down" => Sound(t))
        /\ t.op.points \ {f} = {}
    BY <1>1, <1>2, <1>5, PointEnds
  <2> HIDE DEF t
  <2> QED
    BY <1>3, <1>5, <2>1 DEF TouchUpInDown
<1> QED
  BY <1>4, <1>5

LEMMA TouchFrameSound ==
  ASSUME NEW t, Sound(t)
  PROVE  Sound([t EXCEPT !.frame = TRUE, !.lifted = {},
                         !.touchUp  = @ /\ ~t.simTouch,
                         !.simTouch = @ /\ ~t.touchUp])
<1> DEFINE up == t.touchUp /\ ~t.simTouch
           sim == t.simTouch /\ ~t.touchUp
           u == [t EXCEPT !.frame = TRUE, !.lifted = {}, !.touchUp = up, !.simTouch = sim]
<1>1. up \in BOOLEAN /\ sim \in BOOLEAN
  OBVIOUS
<1>2. (up <=> FALSE) /\ (sim <=> t.simTouch /\ t.fingers # {})
  BY DEF Sound, State, FingerStands
<1> HIDE DEF up, sim
<1>3. /\ u \in State /\ u.lifted = {} /\ u.fingers = t.fingers /\ u.op = t.op /\ u.touchUp = up
      /\ u.simTouch = sim /\ u.pointerId = t.pointerId /\ u.touchId = t.touchId
      /\ u.emulated = t.emulated /\ u.tip = t.tip /\ u.simTip = t.simTip /\ u.held = t.held
      /\ u.tools = t.tools /\ u.simTool = t.simTool /\ u.command = t.command
      /\ u.timer = t.timer /\ u.tracker = t.tracker /\ u.gestures = t.gestures
  BY <1>1 DEF Sound, State
<1> HIDE DEF u
<1>4. FingerStands(u) /\ Owned(u)
  BY <1>2, <1>3 DEF Sound, FingerStands, Owned
<1>5. Remembered(u) /\ Tracked(u)
  BY <1>2, <1>3 DEF Sound, Remembered, Tracked
<1>6. Sound(u)
  BY <1>3, <1>4, <1>5 DEF Sound
<1> QED
  BY <1>6 DEF u, up, sim

------------------------------------------------------------------------------
(***************************************************************************)
(* A tablet tool.                                                          *)
(***************************************************************************)

Tipped(t) == [t EXCEPT !.tip = ~@]

LEMMA TipFields ==
  ASSUME NEW t, Sound(t)
  PROVE  /\ Tipped(t) \in State /\ FingerStands(Tipped(t)) /\ Tracked(Tipped(t))
         /\ Tipped(t).tip = ~t.tip /\ Tipped(t).op = t.op
         /\ Tipped(t).simTip = t.simTip
         /\ Tipped(t).tools = t.tools /\ Tipped(t).simTool = t.simTool
         /\ Tipped(t).simTouch = t.simTouch /\ Tipped(t).fingers = t.fingers
         /\ Tipped(t).command = t.command /\ Tipped(t).held = t.held
         /\ Tipped(t).emulated = t.emulated
<1>1. (~t.tip) \in BOOLEAN
  OBVIOUS
<1>2. Tipped(t) \in State
  BY <1>1 DEF Sound, State, Tipped
<1> QED
  BY <1>2 DEF Sound, State, FingerStands, Tracked, Tipped

LEMMA TipEmulated ==
  ASSUME NEW t, Sound(t), NEW down \in BOOLEAN, down <=> ~t.tip, t.tip => t.simTip
  PROVE  LET u == Noted([Tipped(t) EXCEPT !.simTip = down], "tip", down)
         IN  Settled(u) /\ (down => Source(u))
<1> DEFINE w == Tipped(t)
           u == Noted([w EXCEPT !.simTip = down], "tip", down)
<1>1. /\ w \in State /\ FingerStands(w) /\ Tracked(w) /\ w.tip = ~t.tip /\ w.simTip = t.simTip
      /\ w.tools = t.tools /\ w.simTool = t.simTool /\ w.simTouch = t.simTouch
      /\ w.fingers = t.fingers /\ w.command = t.command /\ w.emulated = t.emulated
  BY TipFields
<1> HIDE DEF w
<1>2. u \in State
  <2>1. [w EXCEPT !.simTip = down] \in State /\ "tip" \in Sources
    BY <1>1 DEF State, Sources
  <2> QED
    BY <2>1, NotedTyped
<1>3. FingerStands(u) /\ Tracked(u)
  BY <1>1 DEF State, FingerStands, Tracked, Noted
<1>5. down => Source(u)
  BY <1>1 DEF State, Source, Noted
<1>4. Remembered(u)
  BY <1>1 DEF Sound, State, Remembered, Noted
<1> QED
  BY <1>2, <1>3, <1>4, <1>5 DEF Settled, w

\* What the surface under the tool takes: the tip was not emulated.
LEMMA TipTaken ==
  ASSUME NEW t, Sound(t), ~t.simTip, NEW begun \in BegunKinds
  PROVE  Sound(TipOnTablet(Tipped(t), Tipped(t).tip, begun))
<1> DEFINE w == Tipped(t)
<1>1. /\ w \in State /\ FingerStands(w) /\ Tracked(w) /\ w.tip = ~t.tip /\ w.op = t.op
      /\ w.simTip = t.simTip /\ w.tools = t.tools /\ w.simTool = t.simTool
      /\ w.simTouch = t.simTouch /\ w.fingers = t.fingers /\ w.command = t.command
      /\ w.held = t.held /\ w.emulated = t.emulated
  BY TipFields
<1> HIDE DEF w
<1>2. Settled(w)
  BY <1>1 DEF Settled, Sound, Remembered
<1>3. CASE w.op.kind = "default" /\ w.tip /\ begun # "resize" /\ begun # "none"
  <2> DEFINE u == Begin(w, begun)
  <2>1. TipOnTablet(w, w.tip, begun) = u /\ begun \in {"down", "move"}
    BY <1>3 DEF TipOnTablet, PressInDefault, BegunKinds
  <2>2. /\ u \in State /\ u.op.kind = begun /\ u.op.points = {} /\ u.tip /\ u.held = w.held
        /\ u.tracker = NoGesture /\ u.timer = w.timer
    BY <1>1, <1>3, <2>1 DEF Begin, Op, State, Kinds
  <2>3. FingerStands(u) /\ Remembered(u)
    BY <1>2, <2>2 DEF Begin, Op, State, Settled, FingerStands, Remembered
  <2>4. Tracked(u) /\ Owned(u)
    BY <1>2, <2>1, <2>2 DEF Settled, Tracked, Owned
  <2> QED
    BY <2>1, <2>2, <2>3, <2>4 DEF Sound, w
<1>4. CASE w.op.kind = "default" /\ ~(w.tip /\ begun # "resize" /\ begun # "none")
  <2>1. TipOnTablet(w, w.tip, begun) = w
    BY <1>4 DEF TipOnTablet, PressInDefault
  <2> QED
    BY <1>2, <1>4, <2>1 DEF Settled, Sound, Owned, w
<1>5. CASE w.op.kind \in {"down", "move"} /\ ~w.tip
  BY <1>2, <1>5, BeginDefaultSound DEF TipOnTablet, w
<1>6. CASE w.op.kind # "default" /\ ~(w.op.kind \in {"down", "move"} /\ ~w.tip)
  <2>1. TipOnTablet(w, w.tip, begun) = w
    BY <1>6 DEF TipOnTablet
  <2>2. Owned(w)
    BY <1>1, <1>6 DEF Sound, Owned
  <2> QED
    BY <1>2, <2>1, <2>2 DEF Settled, Sound, w
<1> QED
  BY <1>3, <1>4, <1>5, <1>6

LEMMA ToolTipSound ==
  ASSUME Sound(p), NEW onTablet \in BOOLEAN, NEW begun \in BegunKinds, ToolTip(onTablet, begun)
  PROVE  Sound(p')
<1> DEFINE a == Activity(p, FALSE)
           t == Tipped(a)
<1>1. Sound(a) /\ a.tip = p.tip /\ a.simTip = p.simTip
  BY ActivitySound, ActivityFields DEF Sound, SameButTimer
<1>2. p' = CASE p.simTip /\ p.tip -> Emulate([t EXCEPT !.simTip = FALSE], "tip", FALSE, begun)
             [] ~onTablet /\ ~p.tip -> Emulate([t EXCEPT !.simTip = TRUE], "tip", TRUE, begun)
             [] OTHER -> TipOnTablet(t, t.tip, begun)
  BY DEF ToolTip, Tipped
<1>3. CASE p.simTip /\ p.tip
  <2>1. Settled(Noted([t EXCEPT !.simTip = FALSE], "tip", FALSE))
    BY <1>1, <1>3, TipEmulated
  <2>2. p' = Emulate([t EXCEPT !.simTip = FALSE], "tip", FALSE, begun)
    BY <1>2, <1>3
  <2> QED
    BY <2>1, <2>2, EmulateSound DEF Sources
<1>4. CASE ~onTablet /\ ~p.tip
  <2>1. LET u == Noted([t EXCEPT !.simTip = TRUE], "tip", TRUE) IN Settled(u) /\ Source(u)
    BY <1>1, <1>4, TipEmulated
  <2>2. p' = Emulate([t EXCEPT !.simTip = TRUE], "tip", TRUE, begun)
    BY <1>2, <1>4
  <2> QED
    BY <2>1, <2>2, EmulateSound DEF Sources
<1>5. CASE ~(p.simTip /\ p.tip) /\ ~(~onTablet /\ ~p.tip)
  <2>1. ~a.simTip
    BY <1>1, <1>5 DEF Sound, Remembered
  <2>2. p' = TipOnTablet(t, t.tip, begun)
    BY <1>2, <1>5
  <2> QED
    BY <1>1, <2>1, <2>2, TipTaken
<1> QED
  BY <1>3, <1>4, <1>5

\* The buttons of a tool: the first decides whether they are emulated.
Tooled(t, press, sim) ==
  [t EXCEPT !.tools = IF press THEN @ + 1 ELSE @ - 1, !.simTool = sim]

LEMMA ToolFields ==
  ASSUME NEW t, Sound(t), NEW press \in BOOLEAN, NEW sim \in BOOLEAN, ~press => t.tools > 0
  PROVE  LET u == Tooled(t, press, sim)
         IN  /\ u \in State /\ FingerStands(u) /\ Tracked(u) /\ Owned(u)
             /\ u.tools = (IF press THEN t.tools + 1 ELSE t.tools - 1) /\ u.simTool = sim
             /\ u.emulated = t.emulated /\ u.simTouch = t.simTouch /\ u.fingers = t.fingers
             /\ u.tip = t.tip /\ u.simTip = t.simTip /\ u.command = t.command
<1> DEFINE u == Tooled(t, press, sim)
<1>1. t.tools \in Nat /\ t \in State
  BY DEF Sound, State
<1>2. (IF press THEN t.tools + 1 ELSE t.tools - 1) \in Nat
  BY <1>1
<1>3. u \in State
  BY <1>1, <1>2 DEF State, Tooled
<1>4. /\ u.tools = (IF press THEN t.tools + 1 ELSE t.tools - 1) /\ u.simTool = sim
      /\ u.op = t.op /\ u.emulated = t.emulated /\ u.held = t.held /\ u.tip = t.tip
      /\ u.simTip = t.simTip /\ u.simTouch = t.simTouch /\ u.fingers = t.fingers
      /\ u.command = t.command /\ u.tracker = t.tracker /\ u.gestures = t.gestures
      /\ u.timer = t.timer /\ u.touchUp = t.touchUp /\ u.lifted = t.lifted
      /\ u.frame = t.frame /\ u.pointerId = t.pointerId /\ u.touchId = t.touchId
  BY <1>1 DEF State, Tooled
<1> HIDE DEF u
<1>5. FingerStands(u)
  BY <1>4 DEF Sound, FingerStands
<1>6. Tracked(u)
  BY <1>4 DEF Sound, Tracked
<1>7. Owned(u)
  BY <1>4 DEF Sound, Owned
<1> QED
  BY <1>3, <1>4, <1>5, <1>6, <1>7 DEF u

\* Not emulated, or neither the first press nor the last release.
LEMMA ToolKept ==
  ASSUME NEW t, Sound(t), NEW press \in BOOLEAN, NEW sim \in BOOLEAN,
         ~press => t.tools > 0, t.tools > 0 => sim = t.simTool,
         press \/ t.tools > 1 \/ ~sim
  PROVE  Sound(Tooled(t, press, sim))
<1> DEFINE u == Tooled(t, press, sim)
<1>1. /\ u \in State /\ FingerStands(u) /\ Tracked(u) /\ Owned(u)
      /\ u.tools = (IF press THEN t.tools + 1 ELSE t.tools - 1) /\ u.simTool = sim
      /\ u.emulated = t.emulated /\ u.simTouch = t.simTouch /\ u.fingers = t.fingers
      /\ u.tip = t.tip /\ u.simTip = t.simTip /\ u.command = t.command
  BY ToolFields
<1>2. t.tools \in Nat /\ Remembered(t)
  BY DEF Sound, State
<1> HIDE DEF u
<1>3. "tool" \in t.emulated => u.tools > 0 /\ u.simTool
  BY <1>1, <1>2 DEF Remembered
<1>4. Remembered(u)
  BY <1>1, <1>2, <1>3 DEF Remembered
<1> QED
  BY <1>1, <1>4 DEF Sound, u

\* The press and the release that are emulated.
LEMMA ToolNoted ==
  ASSUME NEW t, Sound(t), NEW press \in BOOLEAN, NEW sim \in BOOLEAN,
         ~press => t.tools > 0, sim
  PROVE  LET n == Noted(Tooled(t, press, sim), "tool", press)
         IN  Settled(n) /\ (press => Source(n))
<1> DEFINE u == Tooled(t, press, sim)
           n == Noted(u, "tool", press)
<1>1. /\ u \in State /\ FingerStands(u) /\ Tracked(u)
      /\ u.tools = (IF press THEN t.tools + 1 ELSE t.tools - 1) /\ u.simTool
      /\ u.emulated = t.emulated /\ u.simTouch = t.simTouch /\ u.fingers = t.fingers
      /\ u.tip = t.tip /\ u.simTip = t.simTip /\ u.command = t.command
  BY ToolFields
<1>2. t.tools \in Nat /\ Remembered(t)
  BY DEF Sound, State
<1> HIDE DEF u
<1>3. press => u.tools > 0
  BY <1>1, <1>2
<1>4. n \in State /\ (press => Source(n))
  BY <1>1 DEF State, Noted, Sources, Source
<1>5. FingerStands(n) /\ Tracked(n)
  BY <1>1 DEF State, Noted, FingerStands, Tracked
<1>6. Remembered(n)
  BY <1>1, <1>2, <1>3 DEF State, Noted, Remembered
<1> QED
  BY <1>4, <1>5, <1>6 DEF Settled, u

LEMMA ToolButtonSound ==
  ASSUME Sound(p), NEW press \in BOOLEAN, NEW simulate \in BOOLEAN, NEW begun \in BegunKinds,
         ToolButton(press, simulate, begun)
  PROVE  Sound(p')
<1> DEFINE a == Activity(p, FALSE)
           sim == (p.tools > 0 /\ p.simTool) \/ (p.tools = 0 /\ simulate)
           edge == IF press THEN p.tools = 0 ELSE p.tools <= 1
           r == Tooled(a, press, sim)
<1>1. Sound(a) /\ a.tools = p.tools /\ a.simTool = p.simTool /\ p.tools \in Nat
      /\ p.simTool \in BOOLEAN
  BY ActivitySound, ActivityFields DEF Sound, SameButTimer, State
<1>2. /\ ~press => p.tools > 0
      /\ p' = IF sim /\ edge THEN Emulate(r, "tool", press, begun) ELSE r
  BY DEF ToolButton, Tooled
<1> HIDE DEF a, r
<1>3. ~press => a.tools > 0
  BY <1>1, <1>2
<1>4. sim \in BOOLEAN
  OBVIOUS
<1>5. a.tools > 0 => sim = a.simTool
  BY <1>1
<1>6. ~edge => press \/ a.tools > 1
  BY <1>1
<1> HIDE DEF sim, edge
<1>7. CASE sim /\ edge
  <2>1. Settled(Noted(r, "tool", press)) /\ (press => Source(Noted(r, "tool", press)))
    BY <1>1, <1>3, <1>4, <1>7, ToolNoted DEF r
  <2>2. p' = Emulate(r, "tool", press, begun)
    BY <1>2, <1>7
  <2> QED
    BY <2>1, <2>2, EmulateSound DEF Sources
<1>8. CASE ~(sim /\ edge)
  <2>1. Sound(r)
    BY <1>1, <1>3, <1>4, <1>5, <1>6, <1>8, ToolKept DEF r
  <2> QED
    BY <1>2, <1>8, <2>1
<1> QED
  BY <1>7, <1>8

------------------------------------------------------------------------------
(***************************************************************************)
(* The theorems.                                                           *)
(***************************************************************************)

LEMMA NextSound ==
  ASSUME OneFinger, Sound(p), [PointerNext]_p
  PROVE  Sound(p')
<1>1. ASSUME NEW b \in Buttons, NEW begun \in BegunKinds, PointerButton(b, begun)
      PROVE  Sound(p')
  BY <1>1, ButtonSound
<1>2. ASSUME NEW begun \in BegunKinds, CursorCommand(begun) PROVE Sound(p')
  BY <1>2, CommandSound
<1>3. CASE Touch
  <2>1. ASSUME NEW f \in Fingers PROVE Fingers \subseteq {f}
    BY <2>1 DEF OneFinger
  <2>2. ASSUME NEW f \in Fingers, NEW under \in {"touch", "plain", "refused", "same"},
               NEW begun \in BegunKinds, TouchDown(f, under, begun)
        PROVE  Sound(p')
    BY <2>1, <2>2, TouchDownSound
  <2>3. ASSUME NEW f \in Fingers, TouchUp(f) PROVE Sound(p')
    BY <2>1, <2>3, TouchUpSound
  <2>4. CASE TouchFrame
    BY <2>4, TouchFrameSound DEF TouchFrame
  <2> QED
    BY <1>3, <2>2, <2>3, <2>4 DEF Touch
<1>4. CASE Tablet
  BY <1>4, ToolTipSound, ToolButtonSound DEF Tablet
<1>5. ASSUME NEW g \in Gestures, NEW bound \in BOOLEAN, GestureBegin(g, bound) PROVE Sound(p')
  <2> DEFINE a == Activity(p, FALSE)
  <2>1. Sound(a) /\ a.op = p.op
    BY ActivitySound, ActivityFields DEF Sound, SameButTimer
  <2>2. p' = [a EXCEPT !.gestures = @ \cup {g},
                       !.tracker = IF bound /\ a.op.kind = "default" THEN g ELSE @]
    BY <1>5, <2>1 DEF GestureBegin
  <2> QED
    BY <2>1, <2>2, GestureBeginSound
<1>6. ASSUME NEW g \in Gestures, GestureEnd(g) PROVE Sound(p')
  BY <1>6, ActivitySound, GestureEndSound DEF GestureEnd
<1>7. CASE Motion \/ HideNotify \/ KeyPress \/ ConfigurePointer
  BY <1>7, ActivitySound, TimerSound DEF Motion, HideNotify, KeyPress, ConfigurePointer
<1>8. CASE OperandGone \/ StartsDrag
  <2>1. Settled(p)
    BY DEF Sound, Settled
  <2> QED
    BY <1>8, <2>1, BeginDefaultSound DEF OperandGone, StartsDrag
<1>9. CASE UNCHANGED p
  BY <1>9
<1> QED
  BY <1>1, <1>2, <1>3, <1>4, <1>5, <1>6, <1>7, <1>8, <1>9 DEF PointerNext

LEMMA AlwaysSound ==
  ASSUME OneFinger
  PROVE  PointerSpec => []Sound(p)
<1>1. PointerInit => Sound(p)
  BY InitSound
<1>2. Sound(p) /\ [PointerNext]_p => Sound(p)'
  BY NextSound
<1> QED
  BY <1>1, <1>2, PTL DEF PointerSpec

\* With at most one finger on the screen, for any buttons, gestures and tablet tools: when
\* nothing is pressed any more, the seat operation is the default one and nothing stands
\* for the pointer (cursor.c, seatop_default.c).
THEOREM NothingStuck ==
  ASSUME OneFinger
  PROVE  PointerSpec => []NoStuckOperation
<1>1. Sound(p) => NoStuckOperation
  BY DEF Sound, State, FingerStands, Remembered, Owned, NothingHeld, NoStuckOperation
<1> QED
  BY <1>1, AlwaysSound, PTL

\* With at most one finger on the screen: what was pressed for a client on behalf of a
\* finger, a tip or a tool is released when that is up, the timer that hides the cursor is
\* not armed while a button is down, and a gesture's tracker ends with the gesture.
THEOREM AllReleased ==
  ASSUME OneFinger
  PROVE  PointerSpec => []InputReleased
<1>1. Sound(p) => EmulatedReleased
  BY DEF Sound, Remembered, EmulatedReleased
<1>2. Sound(p) => NoTimerWhilePressed /\ TrackerFollowsGesture
  BY DEF Sound, Tracked, NoTimerWhilePressed, TrackerFollowsGesture
<1> QED
  BY <1>1, <1>2, AlwaysSound, PTL DEF InputReleased

------------------------------------------------------------------------------
(***************************************************************************)
(* The keyboards.                                                          *)
(***************************************************************************)
MaybeBinding == ParsedBindings \cup {NoBinding}

UnitType ==
  [pressed : SUBSET Keys, last : Keys \cup {NoKey}, lastMods : SUBSET Keys,
   sent : SUBSET Keys, held : MaybeBinding, repeat : MaybeBinding]

KeyboardState ==
  [down : [Devices -> SUBSET Keys], class : [Keyboards -> Classes \cup {Nobody}],
   unit : [Units -> UnitType], active : Units \cup Devices \cup {Nobody},
   focus : Surfaces \cup {Nobody}, client : SUBSET Keys, grab : BOOLEAN, locked : BOOLEAN,
   config : 0 .. MaxReloads, file : ConfigFiles,
   bindings : {Parsed(f, n) : f \in ConfigFiles, n \in 0 .. MaxReloads},
   mode : BindingModes, reload : BOOLEAN, ran : SUBSET ParsedBindings, breach : BOOLEAN]

\* What every piece of a handler keeps.
Steady(t) == t \in KeyboardState /\ t.bindings = Parsed(t.file, t.config)

PressedDown(t) == \A u \in Units : t.unit[u].pressed \subseteq UnitKeys(t, u)
SentDown(t) == \A u \in Units : t.unit[u].sent \subseteq UnitKeys(t, u)
ClientKnown(t) ==
  /\ t.client \subseteq UNION {t.unit[u].sent : u \in Units}
  /\ t.focus = Nobody => t.client = {}

InStep(t) == Steady(t) /\ PressedDown(t) /\ SentDown(t) /\ ClientKnown(t)

\* What repeats belongs to the configuration.
Aimed(t) == \A u \in Units : t.unit[u].repeat # NoBinding => t.unit[u].repeat.config = t.config

BindingsInv == InStep(s) /\ Aimed(s)

------------------------------------------------------------------------------
(***************************************************************************)
(* Walks along a sequence.                                                 *)
(***************************************************************************)
LEMMA LeastExists ==
  ASSUME NEW I \in SUBSET Nat, I # {}
  PROVE  \E x \in I : \A y \in I : x <= y
<1>1. \E x \in I : \A y \in I : <<y, x>> \notin OpToRel(<, Nat)
  BY NatLessThanWellFounded, WFMin
<1>2. PICK x \in I : \A y \in I : <<y, x>> \notin OpToRel(<, Nat)
  BY <1>1
<1>3. \A y \in I : ~(y < x)
  BY <1>2 DEF OpToRel
<1> QED
  BY <1>3

\* What holds at first and is kept by every step holds all along.
LEMMA Counting ==
  ASSUME NEW n \in Nat, NEW G, 0 \in G, \A i \in 1 .. n : i - 1 \in G => i \in G
  PROVE  \A i \in 0 .. n : i \in G
<1> DEFINE I == (0 .. n) \ G
<1> SUFFICES ASSUME I # {}
             PROVE  FALSE
  OBVIOUS
<1>1. I \in SUBSET Nat
  OBVIOUS
<1>2. PICK x \in I : \A y \in I : x <= y
  BY <1>1, LeastExists
<1>3. x \in 1 .. n /\ x \notin G
  BY <1>2
<1>4. x - 1 \in 0 .. n /\ ~(x <= x - 1)
  BY <1>3
<1>5. x - 1 \in G
  BY <1>2, <1>4
<1> QED
  BY <1>3, <1>5

Walk(f, m, T, base, g) ==
  /\ f \in [0 .. m -> T] /\ f[0] = base
  /\ \A i \in 1 .. m : f[i] = g[<<f[i - 1], i>>]

\* A walk whose steps stay in T exists.
LEMMA FoldExists ==
  ASSUME NEW n \in Nat, NEW T, NEW base \in T, NEW g \in [T \X (1 .. n) -> T]
  PROVE  \E f : Walk(f, n, T, base, g)
<1> DEFINE G == {m \in 0 .. n : \E f : Walk(f, m, T, base, g)}
<1>1. 0 \in G
  <2>1. Walk([i \in 0 .. 0 |-> base], 0, T, base, g)
    BY DEF Walk
  <2>2. 0 \in 0 .. n
    OBVIOUS
  <2> QED
    BY <2>1, <2>2
<1>2. ASSUME NEW m \in 1 .. n, m - 1 \in G
      PROVE  m \in G
  <2>1. PICK f : Walk(f, m - 1, T, base, g)
    BY <1>2
  <2> DEFINE h == [i \in 0 .. m |-> IF i = m THEN g[<<f[m - 1], m>>] ELSE f[i]]
  <2>2. m - 1 \in 0 .. m - 1 /\ m # 0 /\ m \in Nat
    OBVIOUS
  <2>3. g[<<f[m - 1], m>>] \in T
    BY <2>1, <2>2 DEF Walk
  <2>4. h \in [0 .. m -> T]
    BY <2>1, <2>3 DEF Walk
  <2>5. h[0] = base
    BY <2>1, <2>2 DEF Walk
  <2>6. ASSUME NEW i \in 1 .. m
        PROVE  h[i] = g[<<h[i - 1], i>>]
    <3>1. i - 1 \in 0 .. m /\ i - 1 # m /\ i \in 0 .. m
      BY <2>2
    <3>2. h[i - 1] = f[i - 1]
      BY <3>1
    <3>3. CASE i = m
      BY <3>1, <3>2, <3>3
    <3>4. CASE i # m
      <4>1. i \in 1 .. m - 1
        BY <2>2, <3>4
      <4>2. f[i] = g[<<f[i - 1], i>>] /\ h[i] = f[i]
        BY <2>1, <3>1, <3>4, <4>1 DEF Walk
      <4> QED
        BY <3>2, <4>2
    <3> QED
      BY <3>3, <3>4
  <2>7. Walk(h, m, T, base, g)
    BY <2>4, <2>5, <2>6 DEF Walk
  <2>8. m \in 0 .. n
    OBVIOUS
  <2> HIDE DEF h
  <2> QED
    BY <2>7, <2>8
<1> HIDE DEF G
<1>3. n \in 0 .. n /\ \A i \in 0 .. n : i \in G
  BY <1>1, <1>2, Counting
<1>4. n \in G
  BY <1>3
<1> QED
  BY <1>4 DEF G

LEMMA SetToSeqType ==
  ASSUME NEW S, IsFiniteSet(S)
  PROVE  SetToSeq(S) \in Seq(S)
<1>1. Cardinality(S) \in Nat /\ ExistsBijection(1 .. Cardinality(S), S)
  BY FS_CardinalityType
<1>2. PICK f \in Bijection(1 .. Cardinality(S), S) : TRUE
  BY <1>1 DEF ExistsBijection
<1>3. f \in [1 .. Cardinality(S) -> S] /\ IsInjective(f)
  BY <1>2, Fun_BijectionProperties DEF Bijection, Injection, IsInjective
<1>4. SetToSeq(S) \in [1 .. Cardinality(S) -> S]
  BY <1>3 DEF SetToSeq
<1> HIDE DEF SetToSeq
<1> QED
  BY <1>1, <1>4

------------------------------------------------------------------------------
(***************************************************************************)
(* Reading a configuration, and finding a binding.                         *)
(***************************************************************************)
LEMMA UpsertType ==
  ASSUME NEW S, NEW q \in Seq(S), NEW b \in S
  PROVE  Upsert(q, b) \in Seq(S)
<1> DEFINE same == {i \in DOMAIN q : SameTrigger(q[i], b)}
           i == Min(same)
<1>1. Upsert(q, b) = IF same = {} THEN Append(q, b) ELSE ReplaceAt(q, i, b)
  BY DEF Upsert
<1> HIDE DEF same, i
<1>2. ReplaceAt(q, i, b) \in Seq(S)
  <2>1. q \in [1 .. Len(q) -> S] /\ Len(q) \in Nat
    OBVIOUS
  <2>2. ReplaceAt(q, i, b) \in [1 .. Len(q) -> S]
    BY <2>1 DEF ReplaceAt
  <2> QED
    BY <2>1, <2>2
<1> QED
  BY <1>1, <1>2

\* The commands there are.
Known(b) ==
  \/ b.command.does \in {"reload", "exec"}
  \/ b.command.does = "mode" /\ b.command.to \in BindingModes

Tagged(file, n, m) == {OfConfig(b, n) : b \in Range(file.bindings[m])}

\* The bindings of a configuration belong to it, and their commands are known.
LEMMA ParsedType ==
  ASSUME NEW file \in ConfigFiles, NEW n \in Nat, NEW m \in BindingModes
  PROVE  Parsed(file, n)[m] \in Seq(Tagged(file, n, m))
<1> DEFINE lines == file.bindings[m]
           T == Seq(Tagged(file, n, m))
           N == Len(lines)
           g == [z \in T \X (1 .. N) |-> Upsert(z[1], OfConfig(lines[z[2]], n))]
<1>1. lines \in Seq(Range(lines)) /\ N \in Nat
  <2>1. lines \in Seq(Range(lines))
    BY FilesAreRead
  <2> HIDE DEF lines
  <2> QED
    BY <2>1
<1>2. \A i \in 1 .. N : lines[i] \in Range(lines)
  <2> HIDE DEF lines
  <2> QED
    BY <1>1
<1>3. \A i \in 1 .. N : OfConfig(lines[i], n) \in Tagged(file, n, m)
  BY <1>2 DEF Tagged
<1>4. <<>> \in T
  OBVIOUS
<1> HIDE DEF lines, N
<1>5. ASSUME NEW z \in T \X (1 .. N)
      PROVE  Upsert(z[1], OfConfig(lines[z[2]], n)) \in T
  BY <1>3, UpsertType
<1>6. g \in [T \X (1 .. N) -> T]
  BY <1>5
<1>7. PICK f : Walk(f, N, T, <<>>, g)
  <2> HIDE DEF g, T
  <2> QED
    BY <1>1, <1>4, <1>6, FoldExists
<1>8. \A i \in 1 .. N : f[i] = Upsert(f[i - 1], OfConfig(lines[i], n))
  <2> SUFFICES ASSUME NEW i \in 1 .. N
               PROVE  f[i] = Upsert(f[i - 1], OfConfig(lines[i], n))
    OBVIOUS
  <2>1. f[i - 1] \in T
    BY <1>1, <1>7 DEF Walk
  <2>2. <<f[i - 1], i>> \in T \X (1 .. N)
    BY <2>1
  <2> QED
    BY <1>7, <2>2 DEF Walk
<1> DEFINE E(h) == [i \in 0 .. N |-> IF i = 0 THEN <<>>
                                     ELSE Upsert(h[i - 1], OfConfig(lines[i], n))]
           parsed == CHOOSE h : h = E(h)
<1>9. f = E(f)
  BY <1>1, <1>7, <1>8 DEF Walk
<1>10. parsed = E(parsed)
  <2> HIDE DEF E
  <2> QED
    BY <1>9
<1>11. \A i \in 0 .. N : parsed[i] \in T
  <2> HIDE DEF parsed, T
  <2> DEFINE G == {i \in 0 .. N : parsed[i] \in T}
  <2>1. 0 \in G
    BY <1>1, <1>4, <1>10
  <2>2. ASSUME NEW i \in 1 .. N, i - 1 \in G
        PROVE  i \in G
    <3>1. parsed[i] = Upsert(parsed[i - 1], OfConfig(lines[i], n))
      BY <1>1, <1>10
    <3>2. parsed[i - 1] \in Seq(Tagged(file, n, m))
      BY <2>2 DEF G, T
    <3>3. OfConfig(lines[i], n) \in Tagged(file, n, m)
      BY <1>3
    <3>4. Upsert(parsed[i - 1], OfConfig(lines[i], n)) \in Seq(Tagged(file, n, m))
      BY <3>2, <3>3, UpsertType
    <3> QED
      BY <1>1, <3>1, <3>4 DEF T
  <2> HIDE DEF G
  <2>3. \A i \in 0 .. N : i \in G
    BY <1>1, <2>1, <2>2, Counting
  <2> QED
    BY <2>3 DEF G
<1>12. Parsed(file, n)[m] = parsed[N]
  BY DEF Parsed, lines, N
<1> HIDE DEF parsed
<1> QED
  BY <1>1, <1>11, <1>12

LEMMA ParsedKnown ==
  ASSUME NEW file \in ConfigFiles, NEW n \in 0 .. MaxReloads, NEW m \in BindingModes
  PROVE  /\ Parsed(file, n)[m] \in Seq(Range(Parsed(file, n)[m]))
         /\ Range(Parsed(file, n)[m]) \subseteq ParsedBindings
         /\ \A b \in Range(Parsed(file, n)[m]) : b.config = n
<1> DEFINE q == Parsed(file, n)[m]
<1>1. n \in Nat /\ MaxReloads \in Nat
  BY FiniteKeys
<1>2. q \in Seq(Tagged(file, n, m))
  BY <1>1, ParsedType
<1>3. \A b \in Tagged(file, n, m) : b.config = n
  BY DEF Tagged, OfConfig
<1>4. Range(q) \subseteq ParsedBindings
  <2> DEFINE All(f, k) == UNION {Range(Parsed(f, k)[i]) : i \in BindingModes}
  <2>1. Range(q) \subseteq All(file, n)
    OBVIOUS
  <2>2. ParsedBindings = UNION {All(f, k) : f \in ConfigFiles, k \in 0 .. MaxReloads}
    BY DEF ParsedBindings
  <2> HIDE DEF All, q
  <2> QED
    BY <2>1, <2>2
<1> HIDE DEF q
<1>5. q \in [1 .. Len(q) -> Tagged(file, n, m)] /\ Len(q) \in Nat
  BY <1>2
<1>6. q \in [1 .. Len(q) -> Range(q)]
  BY <1>5 DEF Range
<1>7. Range(q) \subseteq Tagged(file, n, m)
  BY <1>5 DEF Range
<1> QED
  BY <1>3, <1>4, <1>5, <1>6, <1>7 DEF q

LEMMA ParsedCommands ==
  ASSUME NEW b \in ParsedBindings
  PROVE  Known(b)
<1>1. PICK file \in ConfigFiles, n \in 0 .. MaxReloads, m \in BindingModes :
        b \in Range(Parsed(file, n)[m])
  BY DEF ParsedBindings
<1> DEFINE q == Parsed(file, n)[m]
<1>2. n \in Nat
  BY FiniteKeys
<1>3. q \in Seq(Tagged(file, n, m))
  BY <1>2, ParsedType
<1>4. b \in Range(q)
  BY <1>1
<1> HIDE DEF q
<1>5. b \in Tagged(file, n, m)
  BY <1>3, <1>4 DEF Range
<1>6. PICK line \in Range(file.bindings[m]) : b = OfConfig(line, n)
  BY <1>5 DEF Tagged
<1>7. Known(line)
  BY <1>6, FilesAreRead DEF Known
<1>8. b.command = line.command
  BY <1>6, FilesAreRead DEF OfConfig
<1> QED
  BY <1>7, <1>8 DEF Known

\* The binding found is one of the list, or what was found before.
LEMMA ActiveBindingType ==
  ASSUME NEW R, NEW bindings \in Seq(R), NEW state, NEW c, NEW found \in R
  PROVE  ActiveBinding(bindings, state, c, found) \in R
<1> DEFINE Consider(acc, b) ==
             IF acc.stop \/ ~Eligible(b, state, c) THEN acc
             ELSE IF acc.binding # NoBinding /\ (acc.binding = b \/ Keeps(acc.binding, b, c)) THEN acc
             ELSE [binding |-> b, stop |-> Perfect(b, c)]
           T == {x \in [binding : R, stop : BOOLEAN] : TRUE}
           N == Len(bindings)
           none == [binding |-> found, stop |-> FALSE]
           g == [z \in T \X (1 .. N) |-> Consider(z[1], bindings[z[2]])]
<1>1. N \in Nat /\ none \in T /\ \A i \in 1 .. N : bindings[i] \in R
  OBVIOUS
<1>2. \A b : Perfect(b, c) \in BOOLEAN
  BY DEF Perfect
<1>3. \A acc \in T, b \in R : Consider(acc, b) \in T
  BY <1>2
<1> HIDE DEF Consider, none, N
<1>4. g \in [T \X (1 .. N) -> T]
  BY <1>1, <1>3
<1>5. PICK f : Walk(f, N, T, none, g)
  <2> HIDE DEF g, T
  <2> QED
    BY <1>1, <1>4, FoldExists
<1>6. \A i \in 1 .. N : f[i] = Consider(f[i - 1], bindings[i])
  <2> SUFFICES ASSUME NEW i \in 1 .. N
               PROVE  f[i] = Consider(f[i - 1], bindings[i])
    OBVIOUS
  <2>1. f[i - 1] \in T
    BY <1>1, <1>5 DEF Walk
  <2>2. <<f[i - 1], i>> \in T \X (1 .. N)
    BY <2>1
  <2> QED
    BY <1>5, <2>2 DEF Walk
<1> DEFINE E(h) == [i \in 0 .. N |-> IF i = 0 THEN none ELSE Consider(h[i - 1], bindings[i])]
           best == CHOOSE h : h = E(h)
<1>7. f = E(f)
  BY <1>1, <1>5, <1>6 DEF Walk
<1>8. best = E(best)
  <2> HIDE DEF E
  <2> QED
    BY <1>7
<1>9. \A i \in 0 .. N : best[i] \in T
  <2> HIDE DEF best, T
  <2> DEFINE G == {i \in 0 .. N : best[i] \in T}
  <2>1. 0 \in G
    BY <1>1, <1>8
  <2>2. ASSUME NEW i \in 1 .. N, i - 1 \in G
        PROVE  i \in G
    <3>1. best[i] = Consider(best[i - 1], bindings[i])
      BY <1>1, <1>8
    <3>2. best[i - 1] \in T
      BY <2>2
    <3> QED
      BY <1>1, <1>3, <3>1, <3>2
  <2> HIDE DEF G
  <2>3. \A i \in 0 .. N : i \in G
    BY <1>1, <2>1, <2>2, Counting
  <2> QED
    BY <2>3 DEF G
<1>10. ActiveBinding(bindings, state, c, found) = best[N].binding
  BY DEF ActiveBinding, Consider, none, N
<1> HIDE DEF best
<1>11. best[N] \in T
  BY <1>1, <1>9
<1> QED
  BY <1>10, <1>11

------------------------------------------------------------------------------
(***************************************************************************)
(* Running bindings.                                                       *)
(***************************************************************************)

\* Changing one field of the state.
LEMMA OneField ==
  ASSUME NEW t \in KeyboardState
  PROVE  /\ \A x \in SUBSET ParsedBindings : [t EXCEPT !.ran = x] \in KeyboardState
         /\ \A x \in BOOLEAN : [t EXCEPT !.breach = x] \in KeyboardState
         /\ \A x \in BindingModes : [t EXCEPT !.mode = x] \in KeyboardState
         /\ \A x \in BOOLEAN : [t EXCEPT !.reload = x] \in KeyboardState
         /\ \A x \in BOOLEAN : [t EXCEPT !.locked = x] \in KeyboardState
         /\ \A x \in BOOLEAN : [t EXCEPT !.grab = x] \in KeyboardState
         /\ \A x \in Units \cup Devices \cup {Nobody} : [t EXCEPT !.active = x] \in KeyboardState
         /\ \A x \in Surfaces \cup {Nobody} : [t EXCEPT !.focus = x] \in KeyboardState
         /\ \A x \in SUBSET Keys : [t EXCEPT !.client = x] \in KeyboardState
         /\ \A x \in [Units -> UnitType] : [t EXCEPT !.unit = x] \in KeyboardState
         /\ \A x \in [Devices -> SUBSET Keys] : [t EXCEPT !.down = x] \in KeyboardState
         /\ \A x \in [Keyboards -> Classes \cup {Nobody}] : [t EXCEPT !.class = x] \in KeyboardState
         /\ \A x \in 0 .. MaxReloads : [t EXCEPT !.config = x] \in KeyboardState
         /\ \A x \in ConfigFiles : [t EXCEPT !.file = x] \in KeyboardState
         /\ \A f \in ConfigFiles, n \in 0 .. MaxReloads :
              [t EXCEPT !.bindings = Parsed(f, n)] \in KeyboardState
BY DEF KeyboardState

\* r is t but for its units and what commands may change.
Alike(r, t) ==
  /\ Steady(r)
  /\ r.down = t.down /\ r.class = t.class /\ r.active = t.active
  /\ r.focus = t.focus /\ r.client = t.client
  /\ r.config = t.config /\ r.file = t.file /\ r.bindings = t.bindings

Ran(r, t) == Alike(r, t) /\ r.unit = t.unit

LEMMA ExecuteRan ==
  ASSUME NEW t, Steady(t), NEW b \in ParsedBindings
  PROVE  Ran(Execute(t, b), t)
<1> DEFINE freed == t.breach \/ b.config # t.config
           ran == t.ran \cup {b}
           q == [t EXCEPT !.ran = ran]
           r == [q EXCEPT !.breach = freed]
<1>1. t \in KeyboardState /\ t.ran \in SUBSET ParsedBindings
  BY DEF Steady, KeyboardState
<1>2. ran \in SUBSET ParsedBindings /\ freed \in BOOLEAN
  BY <1>1
<1>3. Known(b)
  BY ParsedCommands
<1>4. Execute(t, b) = IF b.command.does = "mode" THEN [r EXCEPT !.mode = b.command.to]
                      ELSE IF b.command.does = "reload" THEN [r EXCEPT !.reload = TRUE]
                      ELSE r
  BY <1>3 DEF Execute, Known
<1> HIDE DEF freed, ran
<1>5. q \in KeyboardState
  BY <1>1, <1>2, OneField
<1>6. Ran(q, t)
  BY <1>1, <1>5 DEF Steady, KeyboardState, Ran, Alike
<1> HIDE DEF q
<1>7. r \in KeyboardState
  BY <1>2, <1>5, OneField
<1>8. Ran(r, t)
  BY <1>5, <1>6, <1>7 DEF Steady, KeyboardState, Ran, Alike
<1> HIDE DEF r
<1>9. CASE b.command.does = "mode"
  <2> DEFINE e == [r EXCEPT !.mode = b.command.to]
  <2>1. e \in KeyboardState /\ Execute(t, b) = e
    BY <1>3, <1>4, <1>7, <1>9, OneField DEF Known
  <2>2. Ran(e, t)
    BY <1>7, <1>8, <2>1 DEF Ran, Alike, Steady, KeyboardState
  <2> QED
    BY <2>1, <2>2
<1>10. CASE b.command.does = "reload"
  <2> DEFINE e == [r EXCEPT !.reload = TRUE]
  <2>1. e \in KeyboardState /\ Execute(t, b) = e
    BY <1>4, <1>7, <1>10, OneField
  <2>2. Ran(e, t)
    BY <1>7, <1>8, <2>1 DEF Ran, Alike, Steady, KeyboardState
  <2> QED
    BY <2>1, <2>2
<1> QED
  BY <1>4, <1>8, <1>9, <1>10

LEMMA ChooseType ==
  ASSUME NEW t, Steady(t), NEW u, NEW current, NEW release
  PROVE  LET b == Choose(t, u, current, release)
         IN  b = NoBinding \/ (b \in ParsedBindings /\ b.config = t.config)
<1> DEFINE b == Choose(t, u, current, release)
           q == t.bindings[t.mode]
           R == Range(q) \cup {NoBinding}
<1>1. /\ q \in Seq(Range(q)) /\ Range(q) \subseteq ParsedBindings
      /\ \A x \in Range(q) : x.config = t.config
  BY ParsedKnown DEF Steady, KeyboardState
<1>2. b = ActiveBinding(q, [pressed |-> t.unit[u].pressed, current |-> current],
            [mods |-> UnitKeys(t, u) \cap ModKeys, release |-> release, locked |-> t.locked,
             inhibited |-> t.focus \in Inhibiting, input |-> u, exact |-> FALSE, group |-> 0],
            NoBinding)
  BY DEF Choose
<1> HIDE DEF b, q
<1>3. q \in Seq(R) /\ NoBinding \in R
  BY <1>1
<1> HIDE DEF R
<1>4. b \in R
  BY <1>2, <1>3, ActiveBindingType
<1> QED
  BY <1>1, <1>4 DEF R, b

WithUnit(t, u, w) == [t EXCEPT !.unit[u] = w]

LEMMA OneUnit ==
  ASSUME NEW t, Steady(t), NEW u \in Units, NEW w \in UnitType
  PROVE  LET r == WithUnit(t, u, w)
         IN  /\ Alike(r, t)
             /\ r.unit[u] = w
             /\ \A v \in Units : v # u => r.unit[v] = t.unit[v]
<1> DEFINE x == [t.unit EXCEPT ![u] = w]
           r == [t EXCEPT !.unit = x]
<1>1. t \in KeyboardState /\ t.unit \in [Units -> UnitType]
  BY DEF Steady, KeyboardState
<1>2. /\ x \in [Units -> UnitType] /\ x[u] = w
      /\ \A v \in Units : v # u => x[v] = t.unit[v]
  BY <1>1
<1>3. WithUnit(t, u, w) = r
  BY DEF WithUnit
<1> HIDE DEF x
<1>4. r \in KeyboardState
  BY <1>1, <1>2, OneField
<1>5. r.unit = x /\ Alike(r, t)
  BY <1>1, <1>4 DEF Alike, Steady, KeyboardState
<1> QED
  BY <1>2, <1>3, <1>5

LEMMA UnitTyped ==
  ASSUME NEW t, Steady(t), NEW u \in Units
  PROVE  t.unit[u] \in UnitType
BY DEF Steady, KeyboardState

\* Units keep what is pressed and sent; what repeats is of this configuration.
Runs(r, t) ==
  /\ Alike(r, t)
  /\ \A v \in Units :
       /\ r.unit[v].pressed = t.unit[v].pressed /\ r.unit[v].sent = t.unit[v].sent
       /\ r.unit[v].repeat \in {t.unit[v].repeat, NoBinding} \/ r.unit[v].repeat.config = t.config

LEMMA RunsOn ==
  ASSUME NEW t, NEW q, NEW r, Runs(q, t), Runs(r, q)
  PROVE  Runs(r, t)
BY DEF Runs, Alike

LEMMA ExecuteRuns ==
  ASSUME NEW t, Steady(t), NEW b \in ParsedBindings
  PROVE  Runs(Execute(t, b), t)
BY ExecuteRan DEF Runs, Ran

LEMMA RunReleasedRuns ==
  ASSUME NEW t, Steady(t), NEW u \in Units, NEW press \in BOOLEAN, NEW released \in MaybeBinding
  PROVE  Runs(RunReleased(t, u, press, released), t)
<1> DEFINE held == t.unit[u].held
           q == IF held # NoBinding /\ released # held /\ ~press THEN Execute(t, held) ELSE t
           h == IF released = held THEN held ELSE IF press THEN released ELSE NoBinding
           w == [q.unit[u] EXCEPT !.held = h]
<1>1. held \in MaybeBinding
  BY UnitTyped DEF UnitType
<1>2. Runs(q, t)
  <2>1. CASE held # NoBinding /\ released # held /\ ~press
    BY <1>1, <2>1, ExecuteRuns DEF MaybeBinding
  <2>2. CASE ~(held # NoBinding /\ released # held /\ ~press)
    BY <2>2 DEF Runs, Alike
  <2> QED
    BY <2>1, <2>2
<1>3. h \in MaybeBinding
  BY <1>1 DEF MaybeBinding
<1>4. RunReleased(t, u, press, released) = WithUnit(q, u, w)
  BY DEF RunReleased, WithUnit
<1> HIDE DEF q, h
<1>5. Steady(q) /\ q.unit[u] \in UnitType
  BY <1>2, UnitTyped DEF Runs, Alike
<1>6. w \in UnitType /\ w.pressed = q.unit[u].pressed /\ w.sent = q.unit[u].sent
      /\ w.repeat = q.unit[u].repeat
  BY <1>3, <1>5 DEF UnitType
<1> HIDE DEF w
<1>7. Runs(WithUnit(q, u, w), q)
  BY <1>5, <1>6, OneUnit DEF Runs
<1> QED
  BY <1>2, <1>4, <1>7, RunsOn

LEMMA RunPressedRuns ==
  ASSUME NEW t, Steady(t), NEW u \in Units, NEW current
  PROVE  Runs(RunPressed(t, u, current), t)
<1> DEFINE b == IF current # NoKey THEN Choose(t, u, current, FALSE) ELSE NoBinding
           again == IF b # NoBinding /\ ~b.norepeat THEN b ELSE NoBinding
           w == [t.unit[u] EXCEPT !.repeat = again]
           r == WithUnit(t, u, w)
<1>1. b = NoBinding \/ (b \in ParsedBindings /\ b.config = t.config)
  BY ChooseType
<1>2. RunPressed(t, u, current) = IF b # NoBinding THEN Execute(r, b) ELSE r
  BY DEF RunPressed, WithUnit
<1> HIDE DEF b
<1>3. again \in MaybeBinding /\ (again = NoBinding \/ again.config = t.config)
  BY <1>1 DEF MaybeBinding
<1> HIDE DEF again
<1>4. t.unit[u] \in UnitType
  BY UnitTyped
<1>5. w \in UnitType /\ w.pressed = t.unit[u].pressed /\ w.sent = t.unit[u].sent
      /\ w.repeat = again
  BY <1>3, <1>4 DEF UnitType
<1> HIDE DEF w
<1>6. Runs(r, t)
  BY <1>3, <1>5, OneUnit DEF Runs
<1> HIDE DEF r
<1>7. CASE b # NoBinding
  <2>1. Runs(Execute(r, b), r)
    BY <1>1, <1>6, <1>7, ExecuteRuns DEF Runs, Alike
  <2> QED
    BY <1>2, <1>6, <1>7, <2>1, RunsOn
<1> QED
  BY <1>2, <1>6, <1>7

------------------------------------------------------------------------------
(***************************************************************************)
(* Keys.                                                                   *)
(***************************************************************************)

\* The pressed keys after some are pressed or released.
Pressing(before, keys, press) == IF press THEN before \cup keys ELSE before \ keys

\* The shortcut state of u is updated, and nothing else.
Shortened(r, t, u, keys, press) ==
  /\ Alike(r, t)
  /\ \A v \in Units : v # u => r.unit[v] = t.unit[v]
  /\ r.unit[u].pressed \subseteq Pressing(t.unit[u].pressed, keys, press)
  /\ r.unit[u].sent = t.unit[u].sent /\ r.unit[u].repeat = t.unit[u].repeat

LEMMA UpdateStateShortens ==
  ASSUME NEW t, Steady(t), NEW u \in Units, NEW keys \in SUBSET Keys, NEW press \in BOOLEAN
  PROVE  Shortened(UpdateState(t, u, keys, press), t, u, keys, press)
<1> DEFINE k == t.unit[u]
           mods == UnitKeys(t, u) \cap ModKeys
           kept == IF mods # k.lastMods THEN k.pressed \ {k.last} ELSE k.pressed
           pressed == IF press THEN kept \cup keys ELSE kept \ keys
           last == IF press THEN CHOOSE key \in keys : TRUE ELSE k.last
           w == [k EXCEPT !.pressed = pressed, !.last = last, !.lastMods = mods]
<1>1. k \in UnitType
  BY UnitTyped
<1>2. CASE keys = {}
  <2>1. UpdateState(t, u, keys, press) = t
    BY <1>2 DEF UpdateState
  <2> QED
    BY <1>2, <2>1 DEF Shortened, Alike, Pressing
<1>3. CASE keys # {}
  <2>1. UpdateState(t, u, keys, press) = WithUnit(t, u, w)
    BY <1>3 DEF UpdateState, Shortcut, WithUnit
  <2>2. mods \in SUBSET Keys
    BY Distinct
  <2> HIDE DEF mods, k
  <2>3. pressed \in SUBSET Keys /\ pressed \subseteq Pressing(k.pressed, keys, press)
    BY <1>1 DEF UnitType, Pressing
  <2>4. last \in Keys \cup {NoKey}
    BY <1>1, <1>3 DEF UnitType
  <2> HIDE DEF pressed, last
  <2>5. w \in UnitType /\ w.pressed = pressed /\ w.sent = k.sent /\ w.repeat = k.repeat
    BY <1>1, <2>2, <2>3, <2>4 DEF UnitType
  <2> HIDE DEF w
  <2> QED
    BY <2>1, <2>3, <2>5, OneUnit DEF Shortened, k
<1> QED
  BY <1>2, <1>3

\* What a key does to units and client; commands may have run.
Keyed(r, t, u, key, press) ==
  /\ Steady(r)
  /\ r.down = t.down /\ r.class = t.class /\ r.focus = t.focus
  /\ r.config = t.config /\ r.file = t.file /\ r.bindings = t.bindings
  /\ \A v \in Units : v # u => /\ r.unit[v].pressed = t.unit[v].pressed
                              /\ r.unit[v].sent = t.unit[v].sent
  /\ r.unit[u].pressed \subseteq Pressing(t.unit[u].pressed, {key}, press)
  /\ r.unit[u].sent \in {t.unit[u].sent, Pressing(t.unit[u].sent, {key}, press)}
  /\ press => \/ r.client = t.client /\ t.unit[u].sent \subseteq r.unit[u].sent
              \/ r.client = t.client \cup {key} /\ r.unit[u].sent = t.unit[u].sent \cup {key}
                 /\ t.focus # Nobody
  /\ ~press => /\ r.unit[u].sent = t.unit[u].sent \ {key}
               /\ \/ r.client = t.client \ {key}
                  \/ r.client = t.client /\ (t.focus = Nobody \/ key \notin t.unit[u].sent)
  /\ \A v \in Units :
       r.unit[v].repeat \in {t.unit[v].repeat, NoBinding} \/ r.unit[v].repeat.config = t.config

\* A state with what u sent, the client and the active keyboard changed.
Deliver(t, u, sent, client, active) ==
  [t EXCEPT !.unit[u].sent = sent, !.client = client, !.active = active]

IsDelivered(r, t, u, sent, client) ==
  /\ Steady(r)
  /\ r.down = t.down /\ r.class = t.class /\ r.focus = t.focus
  /\ r.config = t.config /\ r.file = t.file /\ r.bindings = t.bindings
  /\ r.client = client
  /\ \A v \in Units : v # u => r.unit[v] = t.unit[v]
  /\ r.unit[u].sent = sent /\ r.unit[u].pressed = t.unit[u].pressed
  /\ r.unit[u].repeat = t.unit[u].repeat

LEMMA Delivered ==
  ASSUME NEW t, Steady(t), NEW u \in Units, NEW sent \in SUBSET Keys, NEW client \in SUBSET Keys,
         NEW active \in Units \cup Devices \cup {Nobody}
  PROVE  IsDelivered(Deliver(t, u, sent, client, active), t, u, sent, client)
<1> DEFINE w == [t.unit[u] EXCEPT !.sent = sent]
           q == WithUnit(t, u, w)
           c == [q EXCEPT !.client = client]
           r == [c EXCEPT !.active = active]
<1>1. w \in UnitType /\ w.sent = sent /\ w.pressed = t.unit[u].pressed /\ w.repeat = t.unit[u].repeat
  BY UnitTyped DEF UnitType
<1>2. Deliver(t, u, sent, client, active) = r
  BY DEF Deliver, WithUnit
<1> HIDE DEF w
<1>3. Alike(q, t) /\ q.unit[u] = w /\ \A v \in Units : v # u => q.unit[v] = t.unit[v]
  BY <1>1, OneUnit
<1> HIDE DEF q
<1>4. q \in KeyboardState /\ q.bindings = Parsed(q.file, q.config)
  BY <1>3 DEF Alike, Steady
<1>5. c \in KeyboardState
  BY <1>4, OneField
<1>6. /\ c.down = q.down /\ c.class = q.class /\ c.focus = q.focus /\ c.config = q.config
      /\ c.file = q.file /\ c.bindings = q.bindings /\ c.client = client /\ c.unit = q.unit
  BY <1>4 DEF KeyboardState
<1> HIDE DEF c
<1>7. r \in KeyboardState
  BY <1>5, OneField
<1>8. /\ r.down = c.down /\ r.class = c.class /\ r.focus = c.focus /\ r.config = c.config
      /\ r.file = c.file /\ r.bindings = c.bindings /\ r.client = c.client /\ r.unit = c.unit
  BY <1>5 DEF KeyboardState
<1> HIDE DEF r
<1> QED
  BY <1>1, <1>2, <1>3, <1>4, <1>6, <1>7, <1>8 DEF IsDelivered, Alike, Steady

LEMMA HandleKeyKeys ==
  ASSUME NEW t, Steady(t), NEW u \in Units, NEW key \in Keys, NEW press \in BOOLEAN
  PROVE  Keyed(HandleKey(t, u, key, press), t, u, key, press)
<1> DEFINE current == IF press THEN key ELSE NoKey
           t1 == UpdateState(t, u, {key}, press)
           released == Choose(t1, u, current, TRUE)
           a == RunReleased(t1, u, press, released)
           t2 == RunPressed(a, u, current)
<1>1. Shortened(t1, t, u, {key}, press)
  BY UpdateStateShortens
<1>2. HandleKey(t, u, key, press) =
        IF ~press THEN DeliverRelease(t2, u, key)
        ELSE IF t2.ran # {} THEN t2 ELSE DeliverPress(t2, u, key)
  BY DEF HandleKey
<1> HIDE DEF t1, current
<1>3. Steady(t1)
  BY <1>1 DEF Shortened, Alike
<1>4. released \in MaybeBinding
  BY <1>3, ChooseType DEF MaybeBinding
<1> HIDE DEF released
<1>5. Runs(a, t1)
  BY <1>3, <1>4, RunReleasedRuns
<1> HIDE DEF a
<1>6. Runs(t2, a)
  BY <1>5, RunPressedRuns DEF Runs, Alike
<1> HIDE DEF t2
<1>7. Runs(t2, t1)
  BY <1>5, <1>6, RunsOn
<1>8. /\ Alike(t2, t)
      /\ \A v \in Units : v # u => /\ t2.unit[v].pressed = t.unit[v].pressed
                                  /\ t2.unit[v].sent = t.unit[v].sent
      /\ t2.unit[u].pressed \subseteq Pressing(t.unit[u].pressed, {key}, press)
      /\ t2.unit[u].sent = t.unit[u].sent
      /\ \A v \in Units :
           t2.unit[v].repeat \in {t.unit[v].repeat, NoBinding} \/ t2.unit[v].repeat.config = t.config
  BY <1>1, <1>7 DEF Shortened, Runs, Alike
<1>9. /\ Steady(t2) /\ t2.client \in SUBSET Keys /\ t2.active \in Units \cup Devices \cup {Nobody}
      /\ t2.unit[u].sent \in SUBSET Keys
  <2>1. Steady(t2)
    BY <1>8 DEF Alike
  <2>2. t2.unit[u] \in UnitType
    BY <2>1, UnitTyped
  <2> QED
    BY <2>1, <2>2 DEF Steady, KeyboardState, UnitType
<1>10. CASE ~press
  <2> DEFINE known == key \in t2.unit[u].sent /\ t2.focus # Nobody
             sent == t2.unit[u].sent \ {key}
             client == IF known THEN t2.client \ {key} ELSE t2.client
             active == IF known THEN u ELSE t2.active
             r == Deliver(t2, u, sent, client, active)
  <2>1. HandleKey(t, u, key, press) = r
    BY <1>2, <1>10 DEF DeliverRelease, Deliver
  <2>2. /\ sent \in SUBSET Keys /\ client \in SUBSET Keys
        /\ active \in Units \cup Devices \cup {Nobody}
    BY <1>9
  <2>3. /\ client = t2.client \ {key}
           \/ (client = t2.client /\ (t2.focus = Nobody \/ key \notin t2.unit[u].sent))
        /\ sent = t2.unit[u].sent \ {key}
    OBVIOUS
  <2> HIDE DEF sent, client, active
  <2>4. IsDelivered(r, t2, u, sent, client)
    BY <1>9, <2>2, Delivered
  <2> HIDE DEF r
  <2> QED
    BY <1>8, <1>10, <2>1, <2>3, <2>4 DEF Keyed, IsDelivered, Alike, Pressing
<1>11. CASE press /\ (t2.ran # {} \/ (t2.grab /\ u \notin Virtuals))
  <2>1. HandleKey(t, u, key, press) = t2
    BY <1>2, <1>11 DEF DeliverPress
  <2> QED
    BY <1>8, <1>11, <2>1 DEF Keyed, Alike, Pressing
<1>12. CASE press /\ t2.ran = {} /\ ~(t2.grab /\ u \notin Virtuals)
  <2> DEFINE sent == t2.unit[u].sent \cup {key}
             client == IF t2.focus = Nobody THEN t2.client ELSE t2.client \cup {key}
             r == Deliver(t2, u, sent, client, u)
  <2>1. HandleKey(t, u, key, press) = r
    BY <1>2, <1>12 DEF DeliverPress, Deliver
  <2>2. sent \in SUBSET Keys /\ client \in SUBSET Keys
    BY <1>9
  <2>3. /\ client = t2.client \/ (client = t2.client \cup {key} /\ t2.focus # Nobody)
        /\ sent = t2.unit[u].sent \cup {key}
    OBVIOUS
  <2> HIDE DEF sent, client
  <2>4. IsDelivered(r, t2, u, sent, client)
    BY <1>9, <2>2, Delivered
  <2> HIDE DEF r
  <2>5. r.unit[u].sent = t.unit[u].sent \cup {key} /\ r.focus = t.focus
    BY <1>8, <2>3, <2>4 DEF IsDelivered, Alike
  <2>6. \/ r.client = t.client
        \/ r.client = t.client \cup {key} /\ t.focus # Nobody
    BY <1>8, <2>3, <2>4 DEF IsDelivered, Alike
  <2>7. /\ Steady(r)
        /\ r.down = t.down /\ r.class = t.class /\ r.focus = t.focus
        /\ r.config = t.config /\ r.file = t.file /\ r.bindings = t.bindings
    BY <1>8, <2>4 DEF IsDelivered, Alike
  <2>8. /\ \A v \in Units : v # u => /\ r.unit[v].pressed = t.unit[v].pressed
                                    /\ r.unit[v].sent = t.unit[v].sent
        /\ r.unit[u].pressed \subseteq Pressing(t.unit[u].pressed, {key}, press)
    BY <1>8, <2>4 DEF IsDelivered
  <2>9. \A v \in Units :
          r.unit[v].repeat \in {t.unit[v].repeat, NoBinding} \/ r.unit[v].repeat.config = t.config
    BY <1>8, <2>4 DEF IsDelivered
  <2>10. r.unit[u].sent = Pressing(t.unit[u].sent, {key}, press)
    BY <1>12, <2>5 DEF Pressing
  <2> QED
    BY <1>12, <2>1, <2>5, <2>6, <2>7, <2>8, <2>9, <2>10 DEF Keyed
<1> QED
  BY <1>10, <1>11, <1>12

\* Which repeats there may be after a handler.
AimsLike(r, t) ==
  \A v \in Units :
    r.unit[v].repeat \in {t.unit[v].repeat, NoBinding} \/ r.unit[v].repeat.config = t.config

\* A piece of a handler that leaves everything in step.
Follows(r, t) ==
  /\ InStep(r)
  /\ r.config = t.config /\ r.file = t.file /\ r.bindings = t.bindings
  /\ AimsLike(r, t)

LEMMA FollowsOn ==
  ASSUME NEW t, NEW q, NEW r, Follows(q, t), Follows(r, q)
  PROVE  Follows(r, t)
BY DEF Follows, AimsLike

WithDown(t, d, keys) == [t EXCEPT !.down[d] = keys]

IsDown(r, t, d, keys) ==
  /\ Steady(r)
  /\ r.down = [t.down EXCEPT ![d] = keys]
  /\ r.class = t.class /\ r.focus = t.focus /\ r.client = t.client /\ r.unit = t.unit
  /\ r.config = t.config /\ r.file = t.file /\ r.bindings = t.bindings

LEMMA OneDown ==
  ASSUME NEW t, Steady(t), NEW d \in Devices, NEW keys \in SUBSET Keys
  PROVE  IsDown(WithDown(t, d, keys), t, d, keys)
<1> DEFINE x == [t.down EXCEPT ![d] = keys]
           r == [t EXCEPT !.down = x]
<1>1. t \in KeyboardState /\ t.down \in [Devices -> SUBSET Keys]
  BY DEF Steady, KeyboardState
<1>2. x \in [Devices -> SUBSET Keys]
  BY <1>1
<1>3. WithDown(t, d, keys) = r
  BY DEF WithDown
<1> HIDE DEF x
<1>4. r \in KeyboardState
  BY <1>1, <1>2, OneField
<1> QED
  BY <1>1, <1>3, <1>4 DEF x, IsDown, Steady, KeyboardState

\* The keys of a unit when those of one of its devices change.
UnitKeysOf(r, t, d, keys) ==
  \A v : UnitKeys(r, v) = IF v = UnitOf(t, d)
                         THEN keys \cup UNION {t.down[x] : x \in Members(t, v) \ {d}}
                         ELSE UnitKeys(t, v)

LEMMA UnitKeysDown ==
  ASSUME NEW t, Steady(t), NEW r, NEW d \in Devices, NEW keys,
         r.class = t.class, r.down = [t.down EXCEPT ![d] = keys]
  PROVE  UnitKeysOf(r, t, d, keys)
<1> SUFFICES ASSUME NEW v
             PROVE  UnitKeys(r, v) = IF v = UnitOf(t, d)
                                     THEN keys \cup UNION {t.down[x] : x \in Members(t, v) \ {d}}
                                     ELSE UnitKeys(t, v)
  BY DEF UnitKeysOf
<1>1. t.down \in [Devices -> SUBSET Keys]
  BY DEF Steady, KeyboardState
<1>2. Members(r, v) = Members(t, v) /\ Members(t, v) \subseteq Devices
  BY DEF Members, UnitOf
<1>3. d \in Members(t, v) <=> v = UnitOf(t, d)
  BY DEF Members
<1>4. \A x \in Devices : r.down[x] = IF x = d THEN keys ELSE t.down[x]
  BY <1>1
<1>5. CASE v = UnitOf(t, d)
  BY <1>2, <1>3, <1>4, <1>5 DEF UnitKeys
<1>6. CASE v # UnitOf(t, d)
  BY <1>2, <1>3, <1>4, <1>6 DEF UnitKeys
<1> QED
  BY <1>5, <1>6

LEMMA DeviceKeyFollows ==
  ASSUME NEW t, InStep(t), NEW d \in Devices, UnitOf(t, d) \in Units, NEW key \in Keys,
         NEW press \in BOOLEAN
  PROVE  LET r == DeviceKey(t, d, key, press)
         IN  Follows(r, t) /\ r.class = t.class
<1> DEFINE u == UnitOf(t, d)
           others == UNION {t.down[x] : x \in Members(t, u) \ {d}}
           q == IF key \in others THEN t ELSE HandleKey(t, u, key, press)
           keys == IF press THEN q.down[d] \cup {key} ELSE q.down[d] \ {key}
           r == WithDown(q, d, keys)
<1>1. Steady(t) /\ t.down \in [Devices -> SUBSET Keys]
  BY DEF InStep, Steady, KeyboardState
<1>2. DeviceKey(t, d, key, press) = r
  BY DEF DeviceKey, WithDown
<1>3. UnitKeys(t, u) = t.down[d] \cup others
  <2>1. d \in Members(t, u) /\ Members(t, u) \subseteq Devices
    BY DEF Members
  <2> HIDE DEF u
  <2> QED
    BY <2>1 DEF UnitKeys
<1> HIDE DEF u
<1>4. u \in Units
  BY DEF u
<1>5. key \notin others => Keyed(q, t, u, key, press)
  <2> HIDE DEF others
  <2> QED
    BY <1>1, <1>4, HandleKeyKeys
<1>6. key \in others => q = t
  OBVIOUS
<1> HIDE DEF q, others
<1>7. /\ Steady(q) /\ q.down = t.down /\ q.class = t.class /\ q.focus = t.focus
      /\ q.config = t.config /\ q.file = t.file /\ q.bindings = t.bindings
      /\ AimsLike(q, t)
      /\ \A v \in Units : v # u => /\ q.unit[v].pressed = t.unit[v].pressed
                                  /\ q.unit[v].sent = t.unit[v].sent
  BY <1>1, <1>5, <1>6 DEF Keyed, AimsLike
<1>8. keys \in SUBSET Keys /\ keys = IF press THEN t.down[d] \cup {key} ELSE t.down[d] \ {key}
  BY <1>1, <1>7
<1> HIDE DEF keys
<1>9. /\ Steady(r) /\ r.class = q.class /\ r.focus = q.focus /\ r.client = q.client
      /\ r.unit = q.unit /\ r.down = [t.down EXCEPT ![d] = keys]
      /\ r.config = q.config /\ r.file = q.file /\ r.bindings = q.bindings
  <2>1. IsDown(r, q, d, keys)
    BY <1>7, <1>8, OneDown
  <2> HIDE DEF r
  <2> QED
    BY <1>7, <2>1 DEF IsDown
<1> HIDE DEF r
<1>10. /\ UnitKeys(r, u) = keys \cup others
       /\ \A v : v # u => UnitKeys(r, v) = UnitKeys(t, v)
  <2>1. r.class = t.class
    BY <1>7, <1>9
  <2>2. UnitKeysOf(r, t, d, keys)
    BY <1>1, <1>9, <2>1, UnitKeysDown
  <2> QED
    BY <2>2 DEF UnitKeysOf, u, others
<1>11. \A v \in Units : v # u => /\ r.unit[v].pressed \subseteq UnitKeys(r, v)
                               /\ r.unit[v].sent \subseteq UnitKeys(r, v)
  BY <1>7, <1>9, <1>10 DEF InStep, PressedDown, SentDown
<1>12. t.unit[u].pressed \subseteq UnitKeys(t, u) /\ t.unit[u].sent \subseteq UnitKeys(t, u)
  BY <1>4 DEF InStep, PressedDown, SentDown
<1>13. /\ r.unit[u].pressed \subseteq UnitKeys(r, u)
       /\ r.unit[u].sent \subseteq UnitKeys(r, u)
  <2>1. CASE key \in others
    BY <1>3, <1>6, <1>8, <1>9, <1>10, <1>12, <2>1
  <2>2. CASE key \notin others /\ press
    BY <1>3, <1>5, <1>8, <1>9, <1>10, <1>12, <2>2 DEF Keyed, Pressing
  <2>3. CASE key \notin others /\ ~press
    BY <1>3, <1>5, <1>8, <1>9, <1>10, <1>12, <2>3 DEF Keyed, Pressing
  <2> QED
    BY <2>1, <2>2, <2>3
<1>14. ClientKnown(r)
  <2>1. /\ t.client \subseteq UNION {t.unit[v].sent : v \in Units}
        /\ t.focus = Nobody => t.client = {}
    BY DEF InStep, ClientKnown
  <2>2. CASE key \in others
    BY <1>6, <1>7, <1>9, <2>1, <2>2 DEF ClientKnown
  <2>3. CASE key \notin others /\ press
    <3>1. \A v \in Units : t.unit[v].sent \subseteq r.unit[v].sent
      BY <1>5, <1>7, <1>9, <2>3 DEF Keyed
    <3>2. r.client = t.client
            \/ (r.client = t.client \cup {key} /\ key \in r.unit[u].sent /\ t.focus # Nobody)
      BY <1>5, <1>9, <2>3 DEF Keyed
    <3> QED
      BY <1>4, <1>7, <1>9, <2>1, <3>1, <3>2 DEF ClientKnown
  <2>4. CASE key \notin others /\ ~press
    <3>1. \A v \in Units : v # u => t.unit[v].sent = r.unit[v].sent
      BY <1>5, <1>7, <1>9, <2>4 DEF Keyed
    <3>2. /\ r.unit[u].sent = t.unit[u].sent \ {key}
          /\ \/ r.client = t.client \ {key}
             \/ r.client = t.client /\ (t.focus = Nobody \/ key \notin t.unit[u].sent)
      BY <1>5, <1>9, <2>4 DEF Keyed
    <3>3. \A v \in Units : t.unit[v].sent \ {key} \subseteq r.unit[v].sent
      BY <3>1, <3>2
    <3>4. CASE r.client = t.client \ {key}
      BY <1>7, <1>9, <2>1, <3>3, <3>4 DEF ClientKnown
    <3>5. CASE r.client = t.client /\ t.focus = Nobody
      BY <1>7, <1>9, <2>1, <3>5 DEF ClientKnown
    <3>6. CASE r.client = t.client /\ key \notin t.unit[u].sent
      <4>1. \A v \in Units : t.unit[v].sent \subseteq r.unit[v].sent
        BY <3>1, <3>2, <3>6
      <4> QED
        BY <1>7, <1>9, <2>1, <3>6, <4>1 DEF ClientKnown
    <3> QED
      BY <3>2, <3>4, <3>5, <3>6
  <2> QED
    BY <2>2, <2>3, <2>4
<1>15. InStep(r)
  BY <1>9, <1>11, <1>13, <1>14 DEF InStep, PressedDown, SentDown
<1>16. AimsLike(r, t)
  BY <1>7, <1>9 DEF AimsLike
<1> QED
  BY <1>2, <1>7, <1>9, <1>15, <1>16 DEF Follows

\* All along a walk whose steps stay in T.
LEMMA Staying ==
  ASSUME NEW n \in Nat, NEW T, NEW h, h[0] \in T,
         \A i \in 1 .. n : h[i - 1] \in T => h[i] \in T
  PROVE  \A i \in 0 .. n : h[i] \in T
<1> DEFINE G == {i \in 0 .. n : h[i] \in T}
<1>1. 0 \in G
  OBVIOUS
<1>2. ASSUME NEW i \in 1 .. n, i - 1 \in G
      PROVE  i \in G
  BY <1>2
<1> HIDE DEF G
<1>3. \A i \in 0 .. n : i \in G
  BY <1>1, <1>2, Counting
<1> QED
  BY <1>3 DEF G

LEMMA ReleaseAllFollows ==
  ASSUME NEW t, InStep(t), NEW d \in Devices, UnitOf(t, d) \in Units
  PROVE  Follows(ReleaseAll(t, d), t) /\ ReleaseAll(t, d).class = t.class
<1> DEFINE order == SetToSeq(t.down[d])
           N == Len(order)
           T == {r \in KeyboardState : Follows(r, t) /\ r.class = t.class}
           Step(r, i) == DeviceKey(r, d, order[i], FALSE)
           g == [z \in T \X (1 .. N) |-> Step(z[1], z[2])]
<1>1. order \in Seq(Keys) /\ N \in Nat /\ \A i \in 1 .. N : order[i] \in Keys
  <2>1. t.down[d] \in SUBSET Keys
    BY DEF InStep, Steady, KeyboardState
  <2>2. order \in Seq(t.down[d])
    BY <2>1, FiniteKeys, FS_Subset, SetToSeqType
  <2> HIDE DEF order
  <2> QED
    BY <2>1, <2>2
<1>2. t \in T
  BY DEF Follows, AimsLike, InStep, Steady
<1> HIDE DEF order, N
<1>3. ASSUME NEW r \in T, NEW i \in 1 .. N
      PROVE  Step(r, i) \in T
  <2>1. InStep(r) /\ UnitOf(r, d) = UnitOf(t, d)
    BY DEF Follows, UnitOf
  <2>2. Follows(Step(r, i), r) /\ Step(r, i).class = r.class
    BY <1>1, <2>1, DeviceKeyFollows
  <2> HIDE DEF Step
  <2>3. Follows(Step(r, i), t)
    BY <2>2, FollowsOn
  <2> QED
    BY <2>2, <2>3 DEF Follows, InStep, Steady
<1> HIDE DEF Step
<1>4. g \in [T \X (1 .. N) -> T]
  BY <1>3
<1>5. PICK f : Walk(f, N, T, t, g)
  <2> HIDE DEF g, T
  <2> QED
    BY <1>1, <1>2, <1>4, FoldExists
<1>6. \A i \in 1 .. N : f[i] = Step(f[i - 1], i)
  <2> SUFFICES ASSUME NEW i \in 1 .. N
               PROVE  f[i] = Step(f[i - 1], i)
    OBVIOUS
  <2>1. f[i - 1] \in T
    BY <1>1, <1>5 DEF Walk
  <2>2. <<f[i - 1], i>> \in T \X (1 .. N)
    BY <2>1
  <2> QED
    BY <1>5, <2>2 DEF Walk
<1> DEFINE E(h) == [i \in 0 .. N |-> IF i = 0 THEN t ELSE Step(h[i - 1], i)]
           after == CHOOSE h : h = E(h)
<1>7. f = E(f)
  BY <1>1, <1>5, <1>6 DEF Walk
<1>8. after = E(after)
  <2> HIDE DEF E
  <2> QED
    BY <1>7
<1>9. ReleaseAll(t, d) = after[N]
  BY DEF ReleaseAll, Step, order, N
<1> HIDE DEF after
<1>10. after[0] = t /\ \A i \in 1 .. N : after[i] = Step(after[i - 1], i)
  BY <1>1, <1>8
<1>11. \A i \in 0 .. N : after[i] \in T
  <2> HIDE DEF T
  <2>1. \A i \in 1 .. N : after[i - 1] \in T => after[i] \in T
    BY <1>3, <1>10
  <2> QED
    BY <1>1, <1>2, <1>10, <2>1, Staying
<1> QED
  BY <1>1, <1>9, <1>11

------------------------------------------------------------------------------
(***************************************************************************)
(* Focus and groups.                                                       *)
(***************************************************************************)

\* r is t but for the focus and what the client knows.
Entered(r, t) ==
  /\ Steady(r)
  /\ r.down = t.down /\ r.class = t.class /\ r.unit = t.unit /\ r.active = t.active
  /\ r.config = t.config /\ r.file = t.file /\ r.bindings = t.bindings

LEMMA SurfaceEnterType ==
  ASSUME NEW t, Steady(t), NEW f \in Surfaces \cup {Nobody}
  PROVE  LET r == SurfaceEnter(t, f)
         IN  Entered(r, t) /\ r.focus = f /\ (f # t.focus => ClientKnown(r))
<1>1. t \in KeyboardState
  BY DEF Steady
<1>2. CASE f = t.focus
  BY <1>2 DEF SurfaceEnter, Entered
<1>3. CASE f # t.focus
  <2> DEFINE client == IF f # Nobody /\ t.active \in Units THEN t.unit[t.active].sent ELSE {}
             q == [t EXCEPT !.focus = f]
             r == [q EXCEPT !.client = client]
  <2>1. SurfaceEnter(t, f) = r
    BY <1>3 DEF SurfaceEnter
  <2>2. /\ client \in SUBSET Keys /\ client \subseteq UNION {t.unit[u].sent : u \in Units}
        /\ f = Nobody => client = {}
    BY UnitTyped DEF UnitType
  <2> HIDE DEF client
  <2>3. q \in KeyboardState
    BY <1>1, OneField
  <2>4. /\ q.focus = f /\ q.down = t.down /\ q.class = t.class /\ q.unit = t.unit
        /\ q.active = t.active /\ q.config = t.config /\ q.file = t.file /\ q.bindings = t.bindings
    BY <1>1 DEF KeyboardState
  <2> HIDE DEF q
  <2>5. r \in KeyboardState
    BY <2>2, <2>3, OneField
  <2>6. /\ r.client = client /\ r.focus = q.focus /\ r.down = q.down /\ r.class = q.class
        /\ r.unit = q.unit /\ r.active = q.active /\ r.config = q.config /\ r.file = q.file
        /\ r.bindings = q.bindings
    BY <2>3 DEF KeyboardState
  <2> HIDE DEF r
  <2>7. Entered(r, t)
    BY <2>4, <2>5, <2>6 DEF Entered, Steady
  <2>8. ClientKnown(r)
    BY <2>2, <2>4, <2>6 DEF ClientKnown
  <2> QED
    BY <2>1, <2>4, <2>6, <2>7, <2>8
<1> QED
  BY <1>2, <1>3

LEMMA ReenterKnows ==
  ASSUME NEW t, Steady(t), t.focus = Nobody => t.client = {}
  PROVE  Entered(Reenter(t), t) /\ ClientKnown(Reenter(t))
<1>1. t.focus \in Surfaces \cup {Nobody}
  BY DEF Steady, KeyboardState
<1>2. CASE t.focus = Nobody
  <2>1. Reenter(t) = t
    BY <1>2 DEF Reenter, SurfaceEnter
  <2> QED
    BY <1>2, <2>1 DEF Entered, ClientKnown
<1>3. CASE t.focus # Nobody
  <2> DEFINE q == SurfaceEnter(t, Nobody)
             r == SurfaceEnter(q, t.focus)
  <2>1. Entered(q, t) /\ q.focus = Nobody
    BY SurfaceEnterType
  <2> HIDE DEF q
  <2>2. Entered(r, q) /\ ClientKnown(r)
    BY <1>1, <1>3, <2>1, SurfaceEnterType DEF Entered
  <2>3. Reenter(t) = r
    BY DEF Reenter, q
  <2> QED
    BY <2>1, <2>2, <2>3 DEF Entered
<1> QED
  BY <1>2, <1>3

\* The keys that left with a keyboard are forgotten.
Left(r, t, u, keys) ==
  /\ Steady(r) /\ ClientKnown(r)
  /\ r.down = t.down /\ r.class = t.class
  /\ r.config = t.config /\ r.file = t.file /\ r.bindings = t.bindings
  /\ \A v \in Units : v # u => r.unit[v] = t.unit[v]
  /\ r.unit[u].pressed \subseteq t.unit[u].pressed \ keys
  /\ r.unit[u].sent = t.unit[u].sent \ keys
  /\ r.unit[u].repeat = t.unit[u].repeat

LEMMA HandleGroupLeaveLeft ==
  ASSUME NEW t, InStep(t), NEW u \in Units, NEW keys \in SUBSET Keys
  PROVE  Left(HandleGroupLeave(t, u, keys), t, u, keys)
<1> DEFINE known == keys \cap t.unit[u].sent
           q == UpdateState(t, u, keys, FALSE)
           sent == q.unit[u].sent \ keys
           w == [q.unit[u] EXCEPT !.sent = sent]
           r == WithUnit(q, u, w)
<1>1. Steady(t) /\ ClientKnown(t)
  BY DEF InStep
<1>2. Shortened(q, t, u, keys, FALSE)
  BY <1>1, UpdateStateShortens
<1>3. HandleGroupLeave(t, u, keys) = IF known = {} THEN r ELSE Reenter(r)
  BY DEF HandleGroupLeave, WithUnit
<1> HIDE DEF q
<1>4. Alike(q, t) /\ Steady(q) /\ q.unit[u] \in UnitType
  BY <1>2, UnitTyped DEF Shortened, Alike
<1>5. w \in UnitType /\ w.sent = t.unit[u].sent \ keys /\ w.pressed = q.unit[u].pressed
      /\ w.repeat = t.unit[u].repeat
  <2>1. sent \in SUBSET Keys /\ sent = t.unit[u].sent \ keys
    BY <1>2, <1>4 DEF UnitType, Shortened
  <2>2. q.unit[u].repeat = t.unit[u].repeat
    BY <1>2 DEF Shortened
  <2> HIDE DEF sent
  <2> QED
    BY <1>4, <2>1, <2>2 DEF UnitType
<1> HIDE DEF w
<1>6. Alike(r, q) /\ r.unit[u] = w /\ \A v \in Units : v # u => r.unit[v] = q.unit[v]
  BY <1>4, <1>5, OneUnit
<1> HIDE DEF r
<1>7. /\ Alike(r, t) /\ Steady(r)
      /\ \A v \in Units : v # u => r.unit[v] = t.unit[v]
      /\ r.unit[u].pressed \subseteq t.unit[u].pressed \ keys
      /\ r.unit[u].sent = t.unit[u].sent \ keys
      /\ r.unit[u].repeat = t.unit[u].repeat
  <2>1. Alike(r, t) /\ Steady(r)
    BY <1>4, <1>6 DEF Alike
  <2>2. \A v \in Units : v # u => r.unit[v] = t.unit[v]
    BY <1>2, <1>6 DEF Shortened
  <2>3. q.unit[u].pressed \subseteq t.unit[u].pressed \ keys
    BY <1>2 DEF Shortened, Pressing
  <2> QED
    BY <1>5, <1>6, <2>1, <2>2, <2>3
<1>8. CASE known = {}
  <2>1. \A v \in Units : r.unit[v].sent = t.unit[v].sent
    BY <1>7, <1>8
  <2>2. ClientKnown(r)
    BY <1>1, <1>7, <2>1 DEF ClientKnown, Alike
  <2> QED
    BY <1>3, <1>7, <1>8, <2>2 DEF Left, Alike
<1>9. CASE known # {}
  <2>1. r.focus = Nobody => r.client = {}
    BY <1>1, <1>7 DEF ClientKnown, Alike
  <2>2. Entered(Reenter(r), r) /\ ClientKnown(Reenter(r))
    BY <1>7, <2>1, ReenterKnows
  <2>3. HandleGroupLeave(t, u, keys) = Reenter(r)
    BY <1>3, <1>9
  <2> QED
    BY <1>7, <2>2, <2>3 DEF Left, Alike, Entered
<1> QED
  BY <1>8, <1>9

WithClass(t, k, c) == [t EXCEPT !.class[k] = c]

IsClass(r, t, k, c) ==
  /\ Steady(r)
  /\ r.class = [t.class EXCEPT ![k] = c]
  /\ r.down = t.down /\ r.focus = t.focus /\ r.client = t.client /\ r.unit = t.unit
  /\ r.config = t.config /\ r.file = t.file /\ r.bindings = t.bindings

LEMMA OneClass ==
  ASSUME NEW t, Steady(t), NEW k \in Keyboards, NEW c \in Classes \cup {Nobody}
  PROVE  IsClass(WithClass(t, k, c), t, k, c)
<1> DEFINE x == [t.class EXCEPT ![k] = c]
           r == [t EXCEPT !.class = x]
<1>1. t \in KeyboardState /\ t.class \in [Keyboards -> Classes \cup {Nobody}]
  BY DEF Steady, KeyboardState
<1>2. x \in [Keyboards -> Classes \cup {Nobody}]
  BY <1>1
<1>3. WithClass(t, k, c) = r
  BY DEF WithClass
<1> HIDE DEF x
<1>4. r \in KeyboardState
  BY <1>1, <1>2, OneField
<1> QED
  BY <1>1, <1>3, <1>4 DEF x, IsClass, Steady, KeyboardState

\* The keys of a unit without those of keyboard k.
Without(t, v, k) == UNION {t.down[x] : x \in Members(t, v) \ {k}}

LEMMA UnitKeysParts ==
  ASSUME NEW t, Steady(t), NEW k \in Keyboards, NEW v
  PROVE  UnitKeys(t, v) = IF v = t.class[k] THEN t.down[k] \cup Without(t, v, k) ELSE Without(t, v, k)
<1>1. k \in Devices /\ k \notin Virtuals
  BY Distinct DEF Devices
<1>2. k \in Members(t, v) <=> v = t.class[k]
  BY <1>1 DEF Members, UnitOf
<1>3. CASE v = t.class[k]
  <2>1. Members(t, v) = (Members(t, v) \ {k}) \cup {k}
    BY <1>2, <1>3
  <2> QED
    BY <1>3, <2>1 DEF UnitKeys, Without
<1>4. CASE v # t.class[k]
  BY <1>2, <1>4 DEF UnitKeys, Without
<1> QED
  BY <1>3, <1>4

LEMMA WithoutClass ==
  ASSUME NEW t, Steady(t), NEW r, NEW k \in Keyboards, NEW c,
         r.down = t.down, r.class = [t.class EXCEPT ![k] = c]
  PROVE  \A v : Without(r, v, k) = Without(t, v, k) /\ Members(r, v) \ {k} = Members(t, v) \ {k}
<1>1. t.class \in [Keyboards -> Classes \cup {Nobody}]
  BY DEF Steady, KeyboardState
<1>2. \A x \in Devices \ {k} : UnitOf(r, x) = UnitOf(t, x)
  BY <1>1 DEF UnitOf, Devices
<1>3. \A v : Members(r, v) \ {k} = Members(t, v) \ {k}
  BY <1>2 DEF Members
<1> QED
  BY <1>3 DEF Without

\* A piece of a handler about groups: nothing begins to repeat.
NoneNew(r, t) == \A v \in Units : r.unit[v].repeat \in {t.unit[v].repeat, NoBinding}

Regroups(r, t) ==
  /\ InStep(r)
  /\ r.config = t.config /\ r.file = t.file /\ r.bindings = t.bindings
  /\ NoneNew(r, t)

LEMMA RegroupsOn ==
  ASSUME NEW t, NEW q, NEW r, Regroups(q, t), Regroups(r, q)
  PROVE  Regroups(r, t)
BY DEF Regroups, NoneNew

LEMMA RegroupsFollow ==
  ASSUME NEW t, NEW r, Regroups(r, t)
  PROVE  Follows(r, t)
BY DEF Regroups, NoneNew, Follows, AimsLike

\* A state in step but for its active keyboard.
LEMMA ActiveFollows ==
  ASSUME NEW t, InStep(t), NEW a \in Units \cup Devices \cup {Nobody}
  PROVE  LET r == [t EXCEPT !.active = a]
         IN  Regroups(r, t) /\ r.class = t.class /\ r.down = t.down
<1> DEFINE r == [t EXCEPT !.active = a]
<1>1. t \in KeyboardState
  BY DEF InStep, Steady
<1>2. r \in KeyboardState
  BY <1>1, OneField
<1>3. /\ r.down = t.down /\ r.class = t.class /\ r.focus = t.focus /\ r.client = t.client
      /\ r.unit = t.unit /\ r.config = t.config /\ r.file = t.file /\ r.bindings = t.bindings
  BY <1>1 DEF KeyboardState
<1> HIDE DEF r
<1>4. \A v : UnitKeys(r, v) = UnitKeys(t, v)
  BY <1>3 DEF UnitKeys, Members, UnitOf
<1>5. InStep(r)
  BY <1>2, <1>3, <1>4 DEF InStep, Steady, PressedDown, SentDown, ClientKnown
<1> QED
  BY <1>3, <1>5 DEF Regroups, NoneNew, r

LEMMA GroupRemoveFollows ==
  ASSUME NEW t, InStep(t), NEW k \in Keyboards, t.class[k] \in Classes
  PROVE  LET r == GroupRemove(t, k)
         IN  Regroups(r, t) /\ r.class = [t.class EXCEPT ![k] = Nobody]
<1> DEFINE u == t.class[k]
           others == Members(t, u) \ {k}
           theirs == Without(t, u, k)
           keys == t.down[k] \ theirs
           q == HandleGroupLeave(t, u, keys)
           left == WithClass(q, k, Nobody)
           w == WithUnit(left, u, Fresh)
           a == IF w.active = u THEN Nobody ELSE w.active
           last == [w EXCEPT !.active = a]
<1>1. Steady(t) /\ u \in Units /\ keys \in SUBSET Keys /\ u # Nobody
  <2>1. Steady(t) /\ t.down[k] \in SUBSET Keys
    BY DEF InStep, Steady, KeyboardState, Devices
  <2>2. u \in Units /\ u # Nobody
    BY Distinct DEF Units
  <2> HIDE DEF u, theirs
  <2> QED
    BY <2>1, <2>2
<1>2. GroupRemove(t, k) = IF others # {} THEN left ELSE last
  BY DEF GroupRemove, Without, WithClass, WithUnit
<1>3. /\ \A v \in Units : UnitKeys(t, v) = IF v = u THEN t.down[k] \cup theirs ELSE Without(t, v, k)
      /\ theirs = Without(t, u, k)
  BY <1>1, UnitKeysParts
<1>4. others = {} => theirs = {}
  BY DEF Without
<1> HIDE DEF u, theirs, others
<1>5. Left(q, t, u, keys)
  BY <1>1, HandleGroupLeaveLeft
<1> HIDE DEF q
<1>6. IsClass(left, q, k, Nobody)
  BY <1>5, OneClass DEF Left
<1> HIDE DEF left
<1>7. /\ Steady(left) /\ left.class = [t.class EXCEPT ![k] = Nobody] /\ left.down = t.down
      /\ left.config = t.config /\ left.file = t.file /\ left.bindings = t.bindings
      /\ ClientKnown(left)
      /\ \A v \in Units : v # u => left.unit[v] = t.unit[v]
      /\ left.unit[u].pressed \subseteq t.unit[u].pressed \ keys
      /\ left.unit[u].sent = t.unit[u].sent \ keys
      /\ left.unit[u].repeat = t.unit[u].repeat
  BY <1>5, <1>6 DEF Left, IsClass, ClientKnown
<1>8. \A v \in Units : UnitKeys(left, v) = Without(t, v, k)
  <2>1. t.class \in [Keyboards -> Classes \cup {Nobody}]
    BY <1>1 DEF Steady, KeyboardState
  <2>2. left.class[k] = Nobody
    BY <1>7, <2>1
  <2>3. \A v \in Units : v # Nobody
    BY Distinct DEF Units
  <2>4. \A v \in Units : UnitKeys(left, v) = Without(left, v, k)
    <3> SUFFICES ASSUME NEW v \in Units
                 PROVE  UnitKeys(left, v) = Without(left, v, k)
      OBVIOUS
    <3>1. Steady(left)
      BY <1>7
    <3>2. UnitKeys(left, v) = IF v = left.class[k] THEN left.down[k] \cup Without(left, v, k)
                              ELSE Without(left, v, k)
      BY <3>1, UnitKeysParts
    <3> QED
      BY <2>2, <2>3, <3>2
  <2>5. \A v : Without(left, v, k) = Without(t, v, k)
    BY <1>1, <1>7, WithoutClass
  <2> QED
    BY <2>4, <2>5
<1>9. \A v \in Units : /\ t.unit[v].pressed \subseteq UnitKeys(t, v)
                       /\ t.unit[v].sent \subseteq UnitKeys(t, v)
  BY DEF InStep, PressedDown, SentDown
<1>10. PressedDown(left) /\ SentDown(left)
  <2> SUFFICES ASSUME NEW v \in Units
               PROVE  /\ left.unit[v].pressed \subseteq Without(t, v, k)
                      /\ left.unit[v].sent \subseteq Without(t, v, k)
    BY <1>8 DEF PressedDown, SentDown
  <2>1. CASE v = u
    BY <1>1, <1>3, <1>7, <1>9, <2>1
  <2>2. CASE v # u
    BY <1>3, <1>7, <1>9, <2>2
  <2> QED
    BY <2>1, <2>2
<1>11. Regroups(left, t)
  <2>1. NoneNew(left, t)
    BY <1>7 DEF NoneNew
  <2> QED
    BY <1>7, <1>10, <2>1 DEF Regroups, InStep
<1>12. CASE others # {}
  BY <1>2, <1>7, <1>11, <1>12
<1>13. CASE others = {}
  <2>1. left.unit[u].sent = {}
    BY <1>1, <1>3, <1>4, <1>7, <1>9, <1>13
  <2>2. Fresh \in UnitType /\ Fresh.sent = {} /\ Fresh.pressed = {} /\ Fresh.repeat = NoBinding
    BY DEF Fresh, UnitType, MaybeBinding
  <2>3. Alike(w, left) /\ w.unit[u] = Fresh /\ \A v \in Units : v # u => w.unit[v] = left.unit[v]
    BY <1>1, <1>7, <2>2, OneUnit
  <2> HIDE DEF w
  <2>4. \A v : UnitKeys(w, v) = UnitKeys(left, v)
    BY <2>3 DEF Alike, UnitKeys, Members, UnitOf
  <2>5. PressedDown(w) /\ SentDown(w)
    BY <1>10, <2>2, <2>3, <2>4 DEF PressedDown, SentDown
  <2>6. ClientKnown(w)
    <3>1. \A v \in Units : w.unit[v].sent = left.unit[v].sent
      BY <2>1, <2>2, <2>3
    <3> QED
      BY <1>7, <2>3, <3>1 DEF ClientKnown, Alike
  <2>7. Regroups(w, left) /\ w.class = left.class
    <3>1. NoneNew(w, left)
      BY <2>2, <2>3 DEF NoneNew
    <3> QED
      BY <2>3, <2>5, <2>6, <3>1 DEF Regroups, InStep, Alike
  <2>8. a \in Units \cup Devices \cup {Nobody} /\ InStep(w)
    BY <2>7 DEF Regroups, InStep, Steady, KeyboardState
  <2> HIDE DEF a
  <2>9. Regroups(last, w) /\ last.class = w.class
    BY <2>8, ActiveFollows
  <2> HIDE DEF last
  <2>10. Regroups(last, t)
    BY <1>11, <2>7, <2>9, RegroupsOn
  <2> QED
    BY <1>2, <1>7, <1>13, <2>7, <2>9, <2>10
<1> QED
  BY <1>12, <1>13

LEMMA GroupAddFollows ==
  ASSUME NEW t, InStep(t), NEW k \in Keyboards, t.class[k] = Nobody, NEW c \in Classes
  PROVE  LET r == GroupAdd(t, k, c)
         IN  Regroups(r, t) /\ r.class = [t.class EXCEPT ![k] = c]
<1> DEFINE keys == t.down[k] \ UNION {t.down[x] : x \in Members(t, c) \ {k}}
           others == Members(t, c)
           q == WithClass(t, k, c)
           r == UpdateState(q, c, keys, TRUE)
<1>1. Steady(t) /\ c \in Units /\ k \in Devices /\ t.down[k] \in SUBSET Keys /\ c # Nobody
  BY Distinct DEF InStep, Steady, KeyboardState, Devices, Units
<1>2. Members(t, c) \ {k} = Members(t, c)
  BY <1>1, Distinct DEF Members, UnitOf
<1>3. GroupAdd(t, k, c) = IF others = {} THEN q ELSE r
  BY <1>2 DEF GroupAdd, HandleGroupEnter, WithClass
<1>4. keys \in SUBSET Keys /\ keys \subseteq t.down[k]
  BY <1>1
<1> HIDE DEF keys, others
<1>5. IsClass(q, t, k, c)
  BY <1>1, OneClass
<1> HIDE DEF q
<1>6. /\ Steady(q) /\ q.class = [t.class EXCEPT ![k] = c] /\ q.down = t.down
      /\ q.unit = t.unit
  BY <1>5 DEF IsClass
<1>7. \A v \in Units : UnitKeys(t, v) \subseteq UnitKeys(q, v)
  <2>1. \A v : Without(q, v, k) = Without(t, v, k)
    BY <1>1, <1>6, WithoutClass
  <2>2. \A v \in Units : UnitKeys(t, v) = Without(t, v, k)
    BY <1>1, UnitKeysParts, Distinct DEF Units
  <2>3. \A v \in Units : Without(q, v, k) \subseteq UnitKeys(q, v)
    BY <1>6, UnitKeysParts
  <2> QED
    BY <2>1, <2>2, <2>3
<1>8. t.down[k] \subseteq UnitKeys(q, c)
  <2>1. q.class[k] = c
    BY <1>1, <1>6 DEF Steady, KeyboardState
  <2>2. UnitKeys(q, c) = IF c = q.class[k] THEN q.down[k] \cup Without(q, c, k) ELSE Without(q, c, k)
    BY <1>6, UnitKeysParts
  <2> QED
    BY <1>6, <2>1, <2>2
<1>9. Regroups(q, t)
  <2>1. PressedDown(q) /\ SentDown(q)
    BY <1>6, <1>7 DEF InStep, PressedDown, SentDown
  <2>2. ClientKnown(q)
    BY <1>5 DEF InStep, ClientKnown, IsClass
  <2> QED
    BY <1>5, <2>1, <2>2 DEF Regroups, InStep, IsClass, NoneNew
<1>10. Regroups(r, q) /\ r.class = q.class
  <2>1. Shortened(r, q, c, keys, TRUE)
    BY <1>1, <1>4, <1>6, UpdateStateShortens
  <2> HIDE DEF r
  <2>2. \A v : UnitKeys(r, v) = UnitKeys(q, v)
    BY <2>1 DEF Shortened, Alike, UnitKeys, Members, UnitOf
  <2>3. InStep(q)
    BY <1>9 DEF Regroups
  <2>4. r.unit[c].pressed \subseteq UnitKeys(r, c)
    BY <1>1, <1>4, <1>8, <2>1, <2>2, <2>3 DEF Shortened, Pressing, InStep, PressedDown
  <2>5. PressedDown(r)
    BY <2>1, <2>2, <2>3, <2>4 DEF Shortened, InStep, PressedDown
  <2>6. \A v \in Units : r.unit[v].sent = q.unit[v].sent /\ r.unit[v].repeat = q.unit[v].repeat
    BY <2>1 DEF Shortened
  <2>7. SentDown(r) /\ ClientKnown(r) /\ NoneNew(r, q)
    BY <2>1, <2>2, <2>3, <2>6 DEF Shortened, Alike, InStep, SentDown, ClientKnown, NoneNew
  <2> QED
    BY <2>1, <2>5, <2>7 DEF Regroups, InStep, Shortened, Alike
<1> HIDE DEF r
<1>11. Regroups(r, t)
  BY <1>9, <1>10, RegroupsOn
<1> QED
  BY <1>3, <1>6, <1>9, <1>10, <1>11

LEMMA ConfigureFollows ==
  ASSUME NEW t, InStep(t), NEW k \in Keyboards, NEW c \in Classes
  PROVE  Regroups(Configure(t, k, c), t)
<1> DEFINE out == IF t.class[k] \notin {Nobody, c} THEN GroupRemove(t, k) ELSE t
           in == IF out.class[k] = Nobody THEN GroupAdd(out, k, c) ELSE out
           a == IF in.active = Nobody THEN k ELSE in.active
           r == [in EXCEPT !.active = a]
<1>1. t.class[k] \in Classes \cup {Nobody}
  BY DEF InStep, Steady, KeyboardState
<1>2. Regroups(t, t)
  BY DEF Regroups, NoneNew
<1>3. Regroups(out, t)
  <2>1. CASE t.class[k] \notin {Nobody, c}
    BY <1>1, <2>1, GroupRemoveFollows
  <2>2. CASE t.class[k] \in {Nobody, c}
    BY <1>2, <2>2
  <2> QED
    BY <2>1, <2>2
<1>4. Configure(t, k, c) = r
  BY DEF Configure
<1> HIDE DEF out
<1>5. Regroups(in, t)
  <2>1. CASE out.class[k] = Nobody
    <3>1. Regroups(GroupAdd(out, k, c), out)
      BY <1>3, <2>1, GroupAddFollows DEF Regroups
    <3> QED
      BY <1>3, <2>1, <3>1, RegroupsOn
  <2>2. CASE out.class[k] # Nobody
    BY <1>3, <2>2
  <2> QED
    BY <2>1, <2>2
<1> HIDE DEF in
<1>6. InStep(in) /\ a \in Units \cup Devices \cup {Nobody}
  BY <1>5 DEF Regroups, InStep, Steady, KeyboardState, Devices
<1> HIDE DEF a
<1>7. Regroups(r, in)
  BY <1>6, ActiveFollows
<1> HIDE DEF r
<1> QED
  BY <1>4, <1>5, <1>7, RegroupsOn

LEMMA ConfigureAllFollows ==
  ASSUME NEW t, InStep(t), NEW class \in [Keyboards -> Classes]
  PROVE  Regroups(ConfigureAll(t, class), t)
<1> DEFINE order == SetToSeq(Plugged(t))
           N == Len(order)
           T == {r \in KeyboardState : Regroups(r, t)}
           Step(r, i) == Configure(r, order[i], class[order[i]])
           g == [z \in T \X (1 .. N) |-> Step(z[1], z[2])]
<1>1. N \in Nat /\ \A i \in 1 .. N : order[i] \in Keyboards /\ class[order[i]] \in Classes
  <2>1. Plugged(t) \in SUBSET Keyboards
    BY DEF Plugged
  <2>2. order \in Seq(Plugged(t))
    BY <2>1, FiniteKeys, FS_Subset, SetToSeqType
  <2> HIDE DEF order
  <2>3. N \in Nat /\ \A i \in 1 .. N : order[i] \in Keyboards
    BY <2>1, <2>2
  <2> QED
    BY <2>3
<1>2. t \in T
  BY DEF Regroups, NoneNew, InStep, Steady
<1> HIDE DEF order, N
<1>3. ASSUME NEW r \in T, NEW i \in 1 .. N
      PROVE  Step(r, i) \in T
  <2>1. InStep(r)
    BY DEF Regroups
  <2>2. Regroups(Step(r, i), r)
    BY <1>1, <2>1, ConfigureFollows
  <2> HIDE DEF Step
  <2>3. Regroups(Step(r, i), t)
    BY <2>2, RegroupsOn
  <2> QED
    BY <2>3 DEF Regroups, InStep, Steady
<1> HIDE DEF Step
<1>4. g \in [T \X (1 .. N) -> T]
  BY <1>3
<1>5. PICK f : Walk(f, N, T, t, g)
  <2> HIDE DEF g, T
  <2> QED
    BY <1>1, <1>2, <1>4, FoldExists
<1>6. \A i \in 1 .. N : f[i] = Step(f[i - 1], i)
  <2> SUFFICES ASSUME NEW i \in 1 .. N
               PROVE  f[i] = Step(f[i - 1], i)
    OBVIOUS
  <2>1. f[i - 1] \in T
    BY <1>1, <1>5 DEF Walk
  <2>2. <<f[i - 1], i>> \in T \X (1 .. N)
    BY <2>1
  <2> QED
    BY <1>5, <2>2 DEF Walk
<1> DEFINE E(h) == [i \in 0 .. N |-> IF i = 0 THEN t ELSE Step(h[i - 1], i)]
           after == CHOOSE h : h = E(h)
<1>7. f = E(f)
  BY <1>1, <1>5, <1>6 DEF Walk
<1>8. after = E(after)
  <2> HIDE DEF E
  <2> QED
    BY <1>7
<1>9. ConfigureAll(t, class) = after[N]
  BY DEF ConfigureAll, Step, order, N
<1> HIDE DEF after
<1>10. after[0] = t /\ \A i \in 1 .. N : after[i] = Step(after[i - 1], i)
  BY <1>1, <1>8
<1>11. \A i \in 0 .. N : after[i] \in T
  <2> HIDE DEF T
  <2>1. \A i \in 1 .. N : after[i - 1] \in T => after[i] \in T
    BY <1>3, <1>10
  <2> QED
    BY <1>1, <1>2, <1>10, <2>1, Staying
<1> QED
  BY <1>1, <1>9, <1>11

LEMMA DisarmFollows ==
  ASSUME NEW t, InStep(t), NEW units
  PROVE  LET r == Disarm(t, units)
         IN  Regroups(r, t) /\ \A u \in Units \cap units : r.unit[u].repeat = NoBinding
<1> DEFINE x == [u \in Units |->
                   IF u \in units THEN [t.unit[u] EXCEPT !.repeat = NoBinding] ELSE t.unit[u]]
           r == [t EXCEPT !.unit = x]
<1>1. t \in KeyboardState
  BY DEF InStep, Steady
<1>2. ASSUME NEW u \in Units
      PROVE  /\ x[u] \in UnitType /\ x[u].pressed = t.unit[u].pressed /\ x[u].sent = t.unit[u].sent
             /\ x[u].repeat = IF u \in units THEN NoBinding ELSE t.unit[u].repeat
  <2>1. t.unit[u] \in UnitType
    BY UnitTyped DEF InStep
  <2>2. CASE u \in units
    BY <2>1, <2>2 DEF UnitType, MaybeBinding
  <2>3. CASE u \notin units
    BY <2>1, <2>3
  <2> QED
    BY <2>2, <2>3
<1>3. x \in [Units -> UnitType]
  BY <1>2
<1>4. Disarm(t, units) = r
  BY DEF Disarm
<1> HIDE DEF x
<1>5. r \in KeyboardState
  BY <1>1, <1>3, OneField
<1>6. /\ r.down = t.down /\ r.class = t.class /\ r.focus = t.focus /\ r.client = t.client
      /\ r.unit = x /\ r.config = t.config /\ r.file = t.file /\ r.bindings = t.bindings
  BY <1>1 DEF KeyboardState
<1> HIDE DEF r
<1>7. \A v : UnitKeys(r, v) = UnitKeys(t, v)
  BY <1>6 DEF UnitKeys, Members, UnitOf
<1>8. InStep(r)
  BY <1>2, <1>5, <1>6, <1>7 DEF InStep, Steady, PressedDown, SentDown, ClientKnown
<1>9. NoneNew(r, t) /\ \A u \in Units \cap units : r.unit[u].repeat = NoBinding
  BY <1>2, <1>6 DEF NoneNew
<1> QED
  BY <1>4, <1>6, <1>8, <1>9 DEF Regroups

LEMMA ResetFollows ==
  ASSUME NEW t, InStep(t)
  PROVE  Regroups(Reset(t), t) /\ \A u \in Units : Reset(t).unit[u].repeat = NoBinding
<1> DEFINE q == [t EXCEPT !.active = Nobody]
           class == [k \in Keyboards |-> DefaultClass]
           c == ConfigureAll(q, class)
<1>1. Regroups(q, t)
  BY ActiveFollows
<1>2. class \in [Keyboards -> Classes]
  BY Distinct
<1>3. Reset(t) = Disarm(c, Units)
  BY DEF Reset
<1> HIDE DEF q, class
<1>4. Regroups(c, q)
  BY <1>1, <1>2, ConfigureAllFollows DEF Regroups
<1> HIDE DEF c
<1>5. Regroups(c, t)
  BY <1>1, <1>4, RegroupsOn
<1>6. Regroups(Disarm(c, Units), c) /\ \A u \in Units : Disarm(c, Units).unit[u].repeat = NoBinding
  BY <1>5, DisarmFollows DEF Regroups
<1> QED
  BY <1>3, <1>5, <1>6, RegroupsOn

------------------------------------------------------------------------------
(***************************************************************************)
(* The steps.                                                              *)
(***************************************************************************)

\* A handler starts with nothing run, and forgets what it ran when it returns.
WithRan(t, ran) == [t EXCEPT !.ran = ran]

LEMMA RanFollows ==
  ASSUME NEW t, InStep(t), NEW ran \in SUBSET ParsedBindings
  PROVE  Regroups(WithRan(t, ran), t) /\ WithRan(t, ran).class = t.class
         /\ WithRan(t, ran).down = t.down
<1> DEFINE r == WithRan(t, ran)
<1>1. t \in KeyboardState
  BY DEF InStep, Steady
<1>2. r \in KeyboardState
  BY <1>1, OneField DEF WithRan
<1>3. /\ r.down = t.down /\ r.class = t.class /\ r.focus = t.focus /\ r.client = t.client
      /\ r.unit = t.unit /\ r.config = t.config /\ r.file = t.file /\ r.bindings = t.bindings
  BY <1>1 DEF KeyboardState, WithRan
<1> HIDE DEF r
<1>4. \A v : UnitKeys(r, v) = UnitKeys(t, v)
  BY <1>3 DEF UnitKeys, Members, UnitOf
<1>5. InStep(r)
  BY <1>2, <1>3, <1>4 DEF InStep, Steady, PressedDown, SentDown, ClientKnown
<1> QED
  BY <1>3, <1>5 DEF Regroups, NoneNew, r

LEMMA CalmFollows ==
  ASSUME InStep(s)
  PROVE  Follows(Calm, s) /\ Calm.class = s.class /\ Calm.down = s.down
<1>1. Calm = WithRan(s, {})
  BY DEF Calm, WithRan
<1> QED
  BY <1>1, RanFollows, RegroupsFollow

LEMMA DoneFollows ==
  ASSUME NEW t, InStep(t), Done(t)
  PROVE  Follows(s', t)
<1> DEFINE ran == {b \in t.ran : t.locked /\ ~b.locked}
<1>1. s' = WithRan(t, ran)
  BY DEF Done, WithRan
<1>2. ran \in SUBSET ParsedBindings
  BY DEF InStep, Steady, KeyboardState
<1> HIDE DEF ran
<1> QED
  BY <1>1, <1>2, RanFollows, RegroupsFollow

\* A state that follows the present one satisfies the invariant.
LEMMA FollowsInv ==
  ASSUME BindingsInv, Follows(s', s)
  PROVE  BindingsInv'
BY DEF BindingsInv, Follows, AimsLike, Aimed, InStep, Steady, PressedDown, SentDown, ClientKnown,
       UnitKeys, Members, UnitOf

LEMMA InitInv == BindingsInit => BindingsInv
<1> SUFFICES ASSUME BindingsInit
             PROVE  BindingsInv
  OBVIOUS
<1>1. PICK file \in ConfigFiles :
        s = [down |-> [d \in Devices |-> {}], class |-> [k \in Keyboards |-> Nobody],
             unit |-> [u \in Units |-> Fresh], active |-> Nobody, focus |-> Nobody,
             client |-> {}, grab |-> FALSE, locked |-> FALSE, config |-> 0, file |-> file,
             bindings |-> Parsed(file, 0), mode |-> DefaultMode, reload |-> FALSE,
             ran |-> {}, breach |-> FALSE]
  BY DEF BindingsInit
<1>2. Fresh \in UnitType /\ Fresh.sent = {} /\ Fresh.pressed = {} /\ Fresh.repeat = NoBinding
  BY DEF Fresh, UnitType, MaybeBinding
<1>3. 0 \in 0 .. MaxReloads
  BY FiniteKeys
<1>4. s \in KeyboardState
  BY <1>1, <1>2, <1>3, Distinct DEF KeyboardState
<1>5. \A u \in Units : s.unit[u].sent = {} /\ s.unit[u].pressed = {} /\ s.unit[u].repeat = NoBinding
  BY <1>1, <1>2
<1>6. s.client = {} /\ s.bindings = Parsed(s.file, s.config)
  BY <1>1
<1> QED
  BY <1>4, <1>5, <1>6 DEF BindingsInv, Aimed, InStep, Steady, PressedDown, SentDown, ClientKnown

LEMMA KeyInv ==
  ASSUME BindingsInv, NEW d \in Devices, NEW key \in Keys, NEW press \in BOOLEAN,
         UnitOf(s, d) # Nobody, Done(DeviceKey(Calm, d, key, press))
  PROVE  BindingsInv'
<1> DEFINE t == DeviceKey(Calm, d, key, press)
<1>1. InStep(s)
  BY DEF BindingsInv
<1>2. Follows(Calm, s) /\ Calm.class = s.class
  BY <1>1, CalmFollows
<1>3. UnitOf(Calm, d) = UnitOf(s, d)
  BY <1>2 DEF UnitOf
<1>4. UnitOf(Calm, d) \in Units
  <2>1. s.class \in [Keyboards -> Classes \cup {Nobody}]
    BY <1>1 DEF InStep, Steady, KeyboardState
  <2> QED
    BY <1>3, <2>1 DEF UnitOf, Units, Devices
<1>5. Follows(t, Calm)
  BY <1>2, <1>4, DeviceKeyFollows DEF Follows
<1>6. Done(t)
  OBVIOUS
<1> HIDE DEF t
<1>7. Follows(t, s)
  BY <1>2, <1>5, FollowsOn
<1>8. Follows(s', t)
  BY <1>6, <1>7, DoneFollows DEF Follows
<1>9. Follows(s', s)
  BY <1>7, <1>8, FollowsOn
<1> QED
  BY <1>9, FollowsInv

LEMMA HandleRepeatInv ==
  ASSUME BindingsInv, NEW u \in Units, HandleRepeat(u)
  PROVE  BindingsInv'
<1> DEFINE b == s.unit[u].repeat
           t == Execute(Calm, b)
<1>1. InStep(s) /\ Follows(Calm, s)
  BY CalmFollows DEF BindingsInv
<1>2. b \in ParsedBindings /\ Done(t)
  BY <1>1, UnitTyped DEF HandleRepeat, InStep, UnitType, MaybeBinding
<1> HIDE DEF b
<1>3. Ran(t, Calm)
  BY <1>1, <1>2, ExecuteRan DEF Follows, InStep
<1> HIDE DEF t
<1>4. \A v : UnitKeys(t, v) = UnitKeys(Calm, v)
  BY <1>3 DEF Ran, Alike, UnitKeys, Members, UnitOf
<1>5. Follows(t, Calm)
  <2>1. InStep(Calm)
    BY <1>1 DEF Follows
  <2> QED
    BY <1>3, <1>4, <2>1 DEF Follows, InStep, Ran, Alike, PressedDown, SentDown, ClientKnown, AimsLike
<1>6. Follows(t, s)
  BY <1>1, <1>5, FollowsOn
<1>7. Follows(s', t)
  BY <1>2, <1>6, DoneFollows DEF Follows
<1>8. Follows(s', s)
  BY <1>6, <1>7, FollowsOn
<1> QED
  BY <1>8, FollowsInv

LEMMA ConfigureInv ==
  ASSUME BindingsInv, NEW k \in Keyboards, NEW c \in Classes, s' = Configure(Calm, k, c)
  PROVE  BindingsInv'
<1>1. Follows(Calm, s)
  BY CalmFollows DEF BindingsInv
<1>2. Follows(Configure(Calm, k, c), Calm)
  BY <1>1, ConfigureFollows, RegroupsFollow DEF Follows
<1>3. Follows(s', s)
  BY <1>1, <1>2, FollowsOn
<1> QED
  BY <1>3, FollowsInv

LEMMA HandleDeviceDestroyInv ==
  ASSUME BindingsInv, NEW k \in Keyboards, HandleDeviceDestroy(k)
  PROVE  BindingsInv'
<1> DEFINE released == ReleaseAll(Calm, k)
           gone == GroupRemove(released, k)
           a == IF gone.active = k THEN Nobody ELSE gone.active
           t == [gone EXCEPT !.active = a]
<1>1. InStep(s) /\ Follows(Calm, s) /\ Calm.class = s.class
  BY CalmFollows DEF BindingsInv
<1>2. k \in Devices /\ UnitOf(Calm, k) = s.class[k] /\ s.class[k] \in Classes
      /\ s.class[k] \in Units
  BY <1>1, Distinct DEF HandleDeviceDestroy, Devices, UnitOf, InStep, Steady, KeyboardState, Units
<1>3. Done(t)
  BY DEF HandleDeviceDestroy
<1>4. Follows(released, Calm) /\ released.class = Calm.class
  BY <1>1, <1>2, ReleaseAllFollows DEF Follows
<1> HIDE DEF released
<1>5. Follows(gone, released)
  <2>1. InStep(released) /\ released.class[k] \in Classes
    BY <1>1, <1>2, <1>4 DEF Follows
  <2> QED
    BY <2>1, GroupRemoveFollows, RegroupsFollow
<1> HIDE DEF gone
<1>6. InStep(gone) /\ a \in Units \cup Devices \cup {Nobody}
  BY <1>5 DEF Follows, InStep, Steady, KeyboardState
<1> HIDE DEF a
<1>7. Follows(t, gone)
  BY <1>6, ActiveFollows, RegroupsFollow
<1> HIDE DEF t
<1>8. Follows(t, s)
  BY <1>1, <1>4, <1>5, <1>7, FollowsOn
<1>9. Follows(s', t)
  BY <1>3, <1>8, DoneFollows DEF Follows
<1>10. Follows(s', s)
  BY <1>8, <1>9, FollowsOn
<1> QED
  BY <1>10, FollowsInv

LEMMA DoReloadInv ==
  ASSUME BindingsInv, NEW file \in ConfigFiles, DoReload(file)
  PROVE  BindingsInv'
<1> DEFINE n == s.config + 1
           t == Reset(Calm)
           q == ConfigureAll(t, file.class)
           r == [q EXCEPT !.config = n, !.file = file, !.reload = FALSE,
                          !.bindings = Parsed(file, n), !.mode = DefaultMode]
<1>1. InStep(s) /\ Follows(Calm, s)
  BY CalmFollows DEF BindingsInv
<1>2. s' = r
  BY DEF DoReload
<1>3. InStep(t) /\ \A u \in Units : t.unit[u].repeat = NoBinding
  BY <1>1, ResetFollows DEF Follows, Regroups
<1> HIDE DEF t
<1>4. InStep(q) /\ \A u \in Units : q.unit[u].repeat = NoBinding
  <2>1. file.class \in [Keyboards -> Classes]
    BY FilesAreRead
  <2>2. Regroups(q, t)
    BY <1>3, <2>1, ConfigureAllFollows
  <2> QED
    BY <1>3, <2>2 DEF Regroups, NoneNew
<1> HIDE DEF q
<1>5. n \in 0 .. MaxReloads /\ DefaultMode \in BindingModes
  BY <1>1, FiniteKeys, Distinct DEF DoReload, InStep, Steady, KeyboardState
<1> HIDE DEF n
<1> DEFINE q1 == [q EXCEPT !.config = n]
           q2 == [q1 EXCEPT !.file = file]
           q3 == [q2 EXCEPT !.reload = FALSE]
           q4 == [q3 EXCEPT !.bindings = Parsed(file, n)]
           q5 == [q4 EXCEPT !.mode = DefaultMode]
<1>6. s' = q5
  BY <1>2
<1>7. q \in KeyboardState
  BY <1>4 DEF InStep, Steady
<1>8. q1 \in KeyboardState /\ q1.config = n /\ q1.unit = q.unit /\ q1.down = q.down
      /\ q1.class = q.class /\ q1.client = q.client /\ q1.focus = q.focus
  <2>1. q1 \in KeyboardState
    BY <1>5, <1>7, OneField
  <2> QED
    BY <1>7, <2>1 DEF KeyboardState
<1> HIDE DEF q1
<1>9. q2 \in KeyboardState /\ q2.config = n /\ q2.unit = q.unit /\ q2.down = q.down
      /\ q2.class = q.class /\ q2.client = q.client /\ q2.focus = q.focus /\ q2.file = file
  <2>1. q2 \in KeyboardState
    BY <1>8, OneField
  <2> QED
    BY <1>8, <2>1 DEF KeyboardState
<1> HIDE DEF q2
<1>10. q3 \in KeyboardState /\ q3.config = n /\ q3.unit = q.unit /\ q3.down = q.down
       /\ q3.class = q.class /\ q3.client = q.client /\ q3.focus = q.focus /\ q3.file = file
  <2>1. q3 \in KeyboardState
    BY <1>9, OneField
  <2> QED
    BY <1>9, <2>1 DEF KeyboardState
<1> HIDE DEF q3
<1>11. q4 \in KeyboardState /\ q4.config = n /\ q4.unit = q.unit /\ q4.down = q.down
       /\ q4.class = q.class /\ q4.client = q.client /\ q4.focus = q.focus /\ q4.file = file
       /\ q4.bindings = Parsed(file, n)
  <2>1. q4 \in KeyboardState
    BY <1>5, <1>10, OneField
  <2> QED
    BY <1>10, <2>1 DEF KeyboardState
<1> HIDE DEF q4
<1>12. q5 \in KeyboardState /\ q5.config = n /\ q5.unit = q.unit /\ q5.down = q.down
       /\ q5.class = q.class /\ q5.client = q.client /\ q5.focus = q.focus /\ q5.file = file
       /\ q5.bindings = Parsed(file, n)
  <2>1. q5 \in KeyboardState
    BY <1>5, <1>11, OneField
  <2> QED
    BY <1>11, <2>1 DEF KeyboardState
<1> HIDE DEF q5
<1>13. \A v : UnitKeys(q5, v) = UnitKeys(q, v)
  BY <1>12 DEF UnitKeys, Members, UnitOf
<1>14. InStep(q5) /\ Aimed(q5)
  BY <1>4, <1>12, <1>13 DEF InStep, Steady, PressedDown, SentDown, ClientKnown, Aimed
<1> QED
  BY <1>6, <1>14 DEF BindingsInv, InStep, Aimed, Steady, PressedDown, SentDown, ClientKnown,
     UnitKeys, Members, UnitOf

LEMMA RestInv ==
  ASSUME BindingsInv,
         \/ \E f \in Surfaces \cup {Nobody} : FocusChange(f)
         \/ \E b \in BOOLEAN : SetLocked(b) \/ SetGrab(b)
  PROVE  BindingsInv'
<1>1. InStep(s) /\ Follows(Calm, s)
  BY CalmFollows DEF BindingsInv
<1>2. Calm \in KeyboardState /\ Calm.focus = s.focus
  BY <1>1 DEF Follows, InStep, Steady, Calm, KeyboardState
<1>3. ASSUME NEW f \in Surfaces \cup {Nobody}, FocusChange(f)
      PROVE  BindingsInv'
  <2> DEFINE r == SurfaceEnter(Calm, f)
  <2>1. s' = r /\ f # Calm.focus
    BY <1>2, <1>3 DEF FocusChange
  <2>2. Entered(r, Calm) /\ ClientKnown(r)
    BY <1>1, <2>1, SurfaceEnterType DEF Follows, InStep
  <2> HIDE DEF r
  <2>3. \A v : UnitKeys(r, v) = UnitKeys(Calm, v)
    BY <2>2 DEF Entered, UnitKeys, Members, UnitOf
  <2>4. Follows(r, Calm)
    <3>1. InStep(Calm)
      BY <1>1 DEF Follows
    <3> QED
      BY <2>2, <2>3, <3>1 DEF Entered, Follows, InStep, PressedDown, SentDown, AimsLike
  <2>5. Follows(s', s)
    BY <1>1, <2>1, <2>4, FollowsOn
  <2> QED
    BY <2>5, FollowsInv
<1>4. ASSUME NEW b \in BOOLEAN, SetLocked(b) \/ SetGrab(b)
      PROVE  BindingsInv'
  <2> DEFINE r == [Calm EXCEPT !.locked = b]
             q == [Calm EXCEPT !.grab = b]
             Same(x) == /\ x \in KeyboardState
                        /\ x.down = Calm.down /\ x.class = Calm.class /\ x.focus = Calm.focus
                        /\ x.client = Calm.client /\ x.unit = Calm.unit /\ x.config = Calm.config
                        /\ x.file = Calm.file /\ x.bindings = Calm.bindings
  <2>1. s' = r \/ s' = q
    BY <1>4 DEF SetLocked, SetGrab
  <2> HIDE DEF Calm
  <2>2. Same(r) /\ Same(q)
    <3>1. r \in KeyboardState /\ q \in KeyboardState
      BY <1>2, OneField
    <3> QED
      BY <1>2, <3>1 DEF KeyboardState
  <2>3. Same(s')
    BY <2>1, <2>2
  <2>4. \A v : UnitKeys(s', v) = UnitKeys(Calm, v)
    BY <2>3 DEF UnitKeys, Members, UnitOf
  <2>5. Follows(s', Calm)
    <3>1. InStep(Calm)
      BY <1>1 DEF Follows
    <3> QED
      BY <2>3, <2>4, <3>1 DEF Follows, InStep, Steady, PressedDown, SentDown, ClientKnown, AimsLike
  <2>6. Follows(s', s)
    BY <1>1, <2>5, FollowsOn
  <2> QED
    BY <2>6, FollowsInv
<1> QED
  BY <1>3, <1>4

LEMMA NextInv ==
  ASSUME BindingsInv, [BindingsNext]_s
  PROVE  BindingsInv'
<1>1. ASSUME NEW d \in Devices, NEW key \in Keys, Press(d, key) \/ Release(d, key)
      PROVE  BindingsInv'
  <2>1. CASE Press(d, key)
    BY <2>1, KeyInv DEF Press
  <2>2. CASE Release(d, key)
    BY <2>2, KeyInv DEF Release
  <2> QED
    BY <1>1, <2>1, <2>2
<1>2. ASSUME NEW k \in Keyboards, HandleNewInput(k)
      PROVE  BindingsInv'
  <2>1. s.file.class[k] \in Classes
    BY FilesAreRead DEF BindingsInv, InStep, Steady, KeyboardState
  <2> QED
    BY <1>2, <2>1, ConfigureInv DEF HandleNewInput
<1>3. ASSUME NEW k \in Reconfigured, NEW c \in Classes, ApplyInputConfig(k, c)
      PROVE  BindingsInv'
  BY <1>3, ConfigureInv, FiniteKeys DEF ApplyInputConfig
<1>4. CASE UNCHANGED s
  BY <1>4 DEF BindingsInv, InStep, Aimed, Steady, PressedDown, SentDown, ClientKnown,
     UnitKeys, Members, UnitOf
<1> QED
  BY <1>1, <1>2, <1>3, <1>4, HandleRepeatInv, HandleDeviceDestroyInv, DoReloadInv, RestInv
  DEF BindingsNext

\* What clients, units and bindings take for pressed is pressed, and what repeats is
\* of the configuration in force, after any handler of any keyboards: keys, groups that
\* form, split and empty, reloads and changes of focus.
THEOREM BindingsInvariant == BindingsSpec => []BindingsInv
<1>1. BindingsInv /\ [BindingsNext]_s => BindingsInv'
  BY NextInv
<1> QED
  BY <1>1, InitInv, PTL DEF BindingsSpec

\* The release of every key that a client or a shortcut state takes for pressed is yet
\* to come, to a unit that remembers the press (handle_key_event, the group's enter and
\* leave handlers, seat_keyboard_notify_enter).
THEOREM KeysFollow == BindingsSpec => []KeysInStep
<1>1. BindingsInv => KeysInStep
  <2> SUFFICES ASSUME BindingsInv
               PROVE  KeysInStep
    OBVIOUS
  <2>1. s \in KeyboardState /\ \A u \in Units : s.unit[u] \in UnitType
    BY UnitTyped DEF BindingsInv, InStep, Steady
  <2>2. TypeOK
    BY <2>1 DEF TypeOK, KeyboardState, UnitType, MaybeBinding
  <2> QED
    BY <2>2 DEF BindingsInv, InStep, PressedDown, SentDown, ClientKnown, KeysInStep,
       KeysAccounted, PressedIsPressed
<1> QED
  BY <1>1, BindingsInvariant, PTL

\* No timer repeats a binding that a reload has freed (input_manager_reset_all_inputs
\* stops the timer of every keyboard and group).
THEOREM RepeatsAreLive == BindingsSpec => []RepeatLive
<1>1. BindingsInv => RepeatLive
  BY DEF BindingsInv, Aimed, RepeatLive, Live
<1> QED
  BY <1>1, BindingsInvariant, PTL
==============================================================================
