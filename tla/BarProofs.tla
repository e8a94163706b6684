----------------------------- MODULE BarProofs --------------------------------
(***************************************************************************)
(* For any outputs and configurations: the layer surfaces of a bar follow  *)
(* its visibility, updates are on their way, and its loop watches what is  *)
(* open.                                                                   *)
(*                                                                         *)
(* In the middle of a handler the outputs have moved and the surfaces have *)
(* not, so the lemmas state of each operator what it needs (Calm) and what *)
(* it restores (Follows, Dues); Whole is what holds between two callbacks. *)
(***************************************************************************)
EXTENDS Swaybar, Tray, SequenceTheorems, WellFoundedInduction, NaturalsInduction, TLAPS

Fds == {"display", "ipc", "status", "tray"}
Commands == {NoCommand} \cup {c.status : c \in Configs}

OutType ==
  [place : {"absent", "bound", "used", "unused"}, surface : BOOLEAN,
   layer : {NoLayer, "overlay", "bottom"}, wide : BOOLEAN, sized : BOOLEAN, asked : BOOLEAN,
   scheduled : BOOLEAN, dirty : BOOLEAN, frames : 0 .. 2, busy : 0 .. 2,
   drawn : {"fresh", "stale", "starved"}]

SeenType == [modifier : BOOLEAN, urgency : BOOLEAN, mode : BOOLEAN]

StatusType ==
  [command : Commands, process : {"none", "running", "stopped", "paused", "exited"},
   open : BOOLEAN, protocol : {"none", "undef", "text", "i3bar", "error"}, custom : BOOLEAN]

BarType ==
  [cfg : Configs, visible : BOOLEAN, life : {"running", "crashed", "waiting"}, seen : SeenType,
   out : [Outputs -> OutType], status : StatusType, fds : Seq(Fds), ready : Seq(BOOLEAN),
   at : Nat]

Typed(b) == b \in BarType /\ Len(b.ready) = Len(b.fds)

\* An output in any state between two operators.
CalmOut(r) ==
  /\ r.scheduled => r.frames > 0
  /\ r.layer = NoLayer => ~r.wide /\ ~r.sized /\ ~r.asked /\ ~r.scheduled
  /\ r.layer # NoLayer => /\ r.place = "used" /\ r.surface
                          /\ r.wide \/ r.asked \/ (~r.sized /\ ~r.scheduled)

Calm(b) == \A o \in Outputs : CalmOut(b.out[o])
Dues(b) == \A o \in Outputs : b.out[o].layer # NoLayer => Due(b.out[o])

\* Layer surfaces that are there are on the layer of the mode.
OnLayer(b) == \A o \in Outputs : b.out[o].layer \in {NoLayer, LayerFor(b.cfg)}

Follows(b) ==
  /\ b.visible = BarVisible(b.cfg, b.seen)
  /\ \A o \in Outputs :
       b.out[o].layer = IF o \in Used(b) /\ b.visible THEN LayerFor(b.cfg) ELSE NoLayer

Command(b) ==
  /\ b.status.protocol = "undef" => ~b.status.custom
  /\ b.visible /\ ~b.status.custom => b.status.process # "stopped"

Distinct(seq) == \A i, j \in DOMAIN seq : seq[i] = seq[j] => i = j

\* The loop watches the bus if there is a tray, and the pipe while it is open.
Watched(b, tray) ==
  /\ Distinct(b.fds)
  /\ Range(b.fds) = {"display", "ipc"} \cup (IF b.status.open THEN {"status"} ELSE {})
                                       \cup (IF tray THEN {"tray"} ELSE {})

Whole(b) ==
  /\ Typed(b)
  /\ b.life = "running" => /\ Calm(b) /\ Dues(b) /\ Follows(b) /\ Command(b)
                           /\ Watched(b, b.cfg.tray)

BarInv == Whole(bar) /\ bar.at \in 0 .. Len(bar.fds)

\* Between two operators of a handler; the tray may be that of the configuration before.
Between(b, tray) ==
  /\ Typed(b)
  /\ b.life = "running" => Calm(b) /\ Command(b) /\ Watched(b, tray)

Settled(b) == Between(b, b.cfg.tray)

------------------------------------------------------------------------------
SameOut(r, t) == t.place = r.place /\ t.layer = r.layer /\ t.surface = r.surface

LEMMA RenderFrameKeeps ==
  ASSUME NEW r \in OutType
  PROVE  LET t == RenderFrame(r)
         IN  /\ t \in OutType /\ SameOut(r, t)
             /\ CalmOut(r) => CalmOut(t) /\ (r.layer # NoLayer => Due(t))
<1> DEFINE t == RenderFrame(r)
<1>1. CASE r.layer = NoLayer
  BY <1>1 DEF RenderFrame, SameOut
<1>2. CASE r.layer # NoLayer /\ ~r.sized
  <2>1. t = [r EXCEPT !.asked = TRUE]
    BY <1>2 DEF RenderFrame
  <2> QED
    BY <1>2, <2>1 DEF OutType, SameOut, CalmOut, Due
<1>3. CASE r.layer # NoLayer /\ r.sized /\ r.busy = 2
  <2>1. t = [r EXCEPT !.drawn = "starved"]
    BY <1>3 DEF RenderFrame
  <2> QED
    BY <1>3, <2>1 DEF OutType, SameOut, CalmOut, Due
<1>4. CASE r.layer # NoLayer /\ r.sized /\ r.busy # 2
  <2> DEFINE frames == AddFrame(r.frames)
             busy == r.busy + 1
  <2>1. t = [r EXCEPT !.drawn = "fresh", !.scheduled = TRUE, !.busy = busy, !.frames = frames]
    BY <1>4 DEF RenderFrame
  <2>2. frames \in 0 .. 2 /\ frames > 0 /\ busy \in 0 .. 2
    BY <1>4 DEF OutType, AddFrame
  <2> HIDE DEF frames, busy, t
  <2>3. t \in OutType /\ SameOut(r, t)
    BY <2>1, <2>2 DEF OutType, SameOut
  <2>4. /\ t.scheduled /\ t.frames > 0 /\ t.sized /\ t.drawn = "fresh" /\ t.wide = r.wide
        /\ t.asked = r.asked
    BY <1>4, <2>1, <2>2 DEF OutType
  <2> QED
    BY <1>4, <2>3, <2>4 DEF SameOut, CalmOut, Due, t
<1> QED
  BY <1>1, <1>2, <1>3, <1>4

LEMMA SetOutputDirtyKeeps ==
  ASSUME NEW r \in OutType
  PROVE  LET t == SetOutputDirty(r)
         IN  /\ t \in OutType /\ SameOut(r, t)
             /\ CalmOut(r) => CalmOut(t) /\ (r.layer # NoLayer => Due(t))
<1> DEFINE s == [r EXCEPT !.drawn = "stale"]
           t == SetOutputDirty(r)
<1>1. /\ s \in OutType /\ SameOut(r, s) /\ s.wide = r.wide /\ s.sized = r.sized
      /\ s.asked = r.asked /\ s.scheduled = r.scheduled /\ s.frames = r.frames
  BY DEF OutType, SameOut
<1>2. t = IF s.scheduled THEN [s EXCEPT !.dirty = TRUE]
          ELSE IF s.surface THEN RenderFrame(s) ELSE s
  BY DEF SetOutputDirty
<1> HIDE DEF s, t
<1>3. CalmOut(r) => CalmOut(s)
  BY <1>1 DEF CalmOut, SameOut
<1>4. CASE s.scheduled
  <2>1. t = [s EXCEPT !.dirty = TRUE]
    BY <1>2, <1>4
  <2>2. t \in OutType /\ SameOut(s, t) /\ t.dirty
    BY <1>1, <2>1 DEF OutType, SameOut
  <2>3. /\ t.wide = s.wide /\ t.sized = s.sized /\ t.asked = s.asked
        /\ t.scheduled = s.scheduled /\ t.frames = s.frames
    BY <1>1, <2>1 DEF OutType
  <2>4. CalmOut(s) => CalmOut(t)
    BY <2>2, <2>3 DEF CalmOut, SameOut
  <2>5. CalmOut(s) /\ s.layer # NoLayer => Due(t)
    BY <1>4, <2>2, <2>3 DEF CalmOut, Due
  <2> QED
    BY <1>1, <1>3, <2>2, <2>4, <2>5 DEF SameOut, t
<1>5. CASE ~s.scheduled /\ s.surface
  <2>1. t = RenderFrame(s)
    BY <1>2, <1>5
  <2> HIDE DEF RenderFrame
  <2>2. /\ t \in OutType /\ SameOut(s, t)
        /\ CalmOut(s) => CalmOut(t) /\ (s.layer # NoLayer => Due(t))
    BY <1>1, <2>1, RenderFrameKeeps
  <2> QED
    BY <1>1, <1>3, <2>2 DEF SameOut, t
<1>6. CASE ~s.scheduled /\ ~s.surface
  BY <1>1, <1>2, <1>3, <1>6 DEF CalmOut, SameOut, t
<1> QED
  BY <1>4, <1>5, <1>6

\* An output whose frame callback is answered.
Answered(r) ==
  /\ r.layer = NoLayer => ~r.wide /\ ~r.sized /\ ~r.asked
  /\ r.layer # NoLayer => r.place = "used" /\ r.surface /\ (r.wide \/ r.asked)
  /\ r.layer # NoLayer /\ (~r.sized \/ r.drawn = "stale") => r.asked \/ (r.scheduled /\ r.dirty)

\* After the callback of one of its frames an output is due another, or has drawn.
LEMMA OutputFrameDoneKeeps ==
  ASSUME NEW r \in OutType, Answered(r)
  PROVE  LET t == OutputFrameDone(r)
         IN  t \in OutType /\ SameOut(r, t) /\ CalmOut(t) /\ (t.layer # NoLayer => Due(t))
<1> DEFINE s == [r EXCEPT !.scheduled = FALSE]
           d == RenderFrame(s)
           t == OutputFrameDone(r)
<1>1. /\ s \in OutType /\ SameOut(r, s) /\ s.wide = r.wide /\ s.sized = r.sized
      /\ s.asked = r.asked /\ ~s.scheduled /\ s.frames = r.frames /\ s.dirty = r.dirty
      /\ s.drawn = r.drawn
  BY DEF OutType, SameOut
<1>2. t = IF s.dirty THEN [d EXCEPT !.dirty = FALSE] ELSE s
  BY DEF OutputFrameDone
<1>3. CalmOut(s)
  BY <1>1 DEF CalmOut, SameOut, Answered
<1>4. d \in OutType /\ SameOut(s, d) /\ CalmOut(d) /\ (s.layer # NoLayer => Due(d))
  BY <1>1, <1>3, RenderFrameKeeps
<1>5. s.layer # NoLayer /\ (~d.sized \/ d.drawn = "stale") => d.asked
  BY <1>1 DEF RenderFrame, OutType, Answered, SameOut
<1> HIDE DEF s, d, t
<1>6. CASE s.dirty
  <2>1. t = [d EXCEPT !.dirty = FALSE]
    BY <1>2, <1>6
  <2>2. /\ t \in OutType /\ SameOut(d, t) /\ t.wide = d.wide /\ t.sized = d.sized
        /\ t.asked = d.asked /\ t.scheduled = d.scheduled /\ t.frames = d.frames
        /\ t.drawn = d.drawn
    BY <1>4, <2>1 DEF OutType, SameOut
  <2>3. CalmOut(t)
    BY <1>4, <2>2 DEF CalmOut, SameOut
  <2>4. t.layer # NoLayer => Due(t)
    BY <1>4, <1>5, <2>2 DEF Due, SameOut
  <2> QED
    BY <1>1, <1>4, <2>2, <2>3, <2>4 DEF SameOut, t
<1>7. CASE ~s.dirty
  <2>1. s.layer # NoLayer => Due(s)
    BY <1>1, <1>7 DEF Due, SameOut, Answered
  <2> QED
    BY <1>1, <1>2, <1>3, <1>7, <2>1 DEF t
<1> QED
  BY <1>6, <1>7

------------------------------------------------------------------------------
BesidesOut(b, t) ==
  /\ t.cfg = b.cfg /\ t.visible = b.visible /\ t.life = b.life /\ t.seen = b.seen
  /\ t.status = b.status /\ t.fds = b.fds /\ t.ready = b.ready /\ t.at = b.at

WithOut(b, out) == [b EXCEPT !.out = out]

LEMMA WithOutKeeps ==
  ASSUME NEW b \in BarType, NEW out \in [Outputs -> OutType]
  PROVE  LET t == WithOut(b, out) IN t \in BarType /\ BesidesOut(b, t) /\ t.out = out
BY DEF WithOut, BarType, BesidesOut

LEMMA BesidesOutKeeps ==
  ASSUME NEW b, NEW t, BesidesOut(b, t), Command(b), NEW tray, Watched(b, tray)
  PROVE  Command(t) /\ Watched(t, tray)
BY DEF BesidesOut, Command, Watched

LEMMA SetBarDirtyKeeps ==
  ASSUME NEW b \in BarType
  PROVE  LET t == SetBarDirty(b)
         IN  /\ t \in BarType /\ BesidesOut(b, t)
             /\ \A o \in Outputs : SameOut(b.out[o], t.out[o])
             /\ Calm(b) => Calm(t) /\ Dues(t)
<1> DEFINE out == [o \in Outputs |-> IF b.out[o].place = "used" THEN SetOutputDirty(b.out[o])
                                     ELSE b.out[o]]
           t == SetBarDirty(b)
<1>1. t = WithOut(b, out)
  BY DEF SetBarDirty, WithOut
<1>2. \A o \in Outputs : b.out[o] \in OutType
  BY DEF BarType
<1>3. ASSUME NEW o \in Outputs
      PROVE  /\ out[o] \in OutType /\ SameOut(b.out[o], out[o])
             /\ CalmOut(b.out[o]) => CalmOut(out[o]) /\ (out[o].layer # NoLayer => Due(out[o]))
  <2>1. CASE b.out[o].place = "used"
    <3>1. out[o] = SetOutputDirty(b.out[o])
      BY <2>1
    <3> HIDE DEF out
    <3> QED
      BY <1>2, <3>1, SetOutputDirtyKeeps DEF SameOut
  <2>2. CASE b.out[o].place # "used"
    <3>1. out[o] = b.out[o]
      BY <2>2
    <3> HIDE DEF out
    <3> QED
      BY <1>2, <2>2, <3>1 DEF SameOut, CalmOut
  <2> QED
    BY <2>1, <2>2
<1>4. out \in [Outputs -> OutType]
  <2> SUFFICES ASSUME NEW o \in Outputs PROVE out[o] \in OutType
    OBVIOUS
  <2> QED
    BY <1>3
<1> HIDE DEF out, t
<1>5. t \in BarType /\ BesidesOut(b, t) /\ t.out = out
  BY <1>1, <1>4, WithOutKeeps
<1> QED
  BY <1>3, <1>5 DEF Calm, Dues, t

LEMMA FollowsStays ==
  ASSUME NEW b \in BarType, NEW t \in BarType, BesidesOut(b, t), Follows(b),
         \A o \in Outputs : SameOut(b.out[o], t.out[o])
  PROVE  Follows(t)
BY DEF Follows, BesidesOut, SameOut, Used

\* Whatever is on the screen, it is drawn anew.
LEMMA SetBarDirtyWhole ==
  ASSUME NEW b, Settled(b), b.life = "running" => Follows(b)
  PROVE  Whole(SetBarDirty(b)) /\ BesidesOut(b, SetBarDirty(b))
<1> DEFINE t == SetBarDirty(b)
<1>1. b \in BarType /\ Len(b.ready) = Len(b.fds)
  BY DEF Settled, Between, Typed
<1>2. /\ t \in BarType /\ BesidesOut(b, t)
      /\ \A o \in Outputs : SameOut(b.out[o], t.out[o])
      /\ Calm(b) => Calm(t) /\ Dues(t)
  BY <1>1, SetBarDirtyKeeps
<1> HIDE DEF t
<1>3. Typed(t) /\ t.life = b.life /\ t.cfg = b.cfg
  BY <1>1, <1>2 DEF Typed, BesidesOut
<1>4. ASSUME b.life = "running"
      PROVE  Calm(t) /\ Dues(t) /\ Follows(t) /\ Command(t) /\ Watched(t, t.cfg.tray)
  BY <1>1, <1>2, <1>3, <1>4, FollowsStays, BesidesOutKeeps DEF Settled, Between
<1> QED
  BY <1>2, <1>3, <1>4 DEF Whole, t

------------------------------------------------------------------------------
LEMMA SignalledKeeps ==
  ASSUME NEW st \in StatusType, NEW cont \in BOOLEAN
  PROVE  LET t == Signalled(st, cont)
         IN  /\ t \in StatusType /\ t.command = st.command /\ t.open = st.open
             /\ t.protocol = st.protocol /\ t.custom = st.custom
             /\ cont /\ ~st.custom => t.process # "stopped"
BY DEF Signalled, StatusType

LEMMA LayerSurfaceKeeps ==
  ASSUME NEW r \in OutType, CalmOut(r)
  PROVE  LET t == DestroyLayerSurface(r)
         IN  /\ t \in OutType /\ CalmOut(t) /\ t.place = r.place /\ t.surface = r.surface
             /\ t.layer = NoLayer
BY DEF DestroyLayerSurface, OutType, CalmOut

LEMMA AddLayerSurfaceKeeps ==
  ASSUME NEW r \in OutType, CalmOut(r), NEW c \in Configs, r.place = "used", r.surface
  PROVE  LET t == AddLayerSurface(c, r)
         IN  /\ t \in OutType /\ CalmOut(t) /\ t.place = r.place /\ t.surface = r.surface
             /\ t.layer = IF r.layer = NoLayer THEN LayerFor(c) ELSE r.layer
<1> DEFINE layer == LayerFor(c)
           t == AddLayerSurface(c, r)
<1>1. layer \in {"overlay", "bottom"}
  BY DEF LayerFor
<1>2. CASE r.layer # NoLayer
  BY <1>2 DEF AddLayerSurface
<1>3. CASE r.layer = NoLayer
  <2>1. t = [r EXCEPT !.layer = layer]
    BY <1>3 DEF AddLayerSurface
  <2> HIDE DEF layer, t
  <2>2. /\ t \in OutType /\ t.layer = layer /\ t.place = r.place /\ t.surface = r.surface
        /\ t.scheduled = r.scheduled /\ t.frames = r.frames /\ t.sized = r.sized
    BY <1>1, <2>1 DEF OutType
  <2>3. CalmOut(t)
    BY <1>1, <1>3, <2>2 DEF CalmOut, NoLayer
  <2> QED
    BY <1>3, <2>2, <2>3 DEF t, layer
<1> QED
  BY <1>2, <1>3

------------------------------------------------------------------------------
WithVisible(b, show, out) == [b EXCEPT !.visible = show, !.out = out]

\* What a change of visibility does to one output.
LEMMA RelayeredOut ==
  ASSUME NEW r \in OutType, CalmOut(r), NEW c \in Configs, NEW show \in BOOLEAN,
         NEW moving \in BOOLEAN, r.place = "used", show => r.surface
  PROVE  LET gone == IF ~show \/ moving THEN DestroyLayerSurface(r) ELSE r
             t == IF show THEN AddLayerSurface(c, gone) ELSE gone
         IN  /\ t \in OutType /\ CalmOut(t) /\ t.place = r.place /\ t.surface = r.surface
             /\ t.layer = IF ~show THEN NoLayer
                          ELSE IF r.layer = NoLayer \/ moving THEN LayerFor(c) ELSE r.layer
<1> DEFINE gone == IF ~show \/ moving THEN DestroyLayerSurface(r) ELSE r
           t == IF show THEN AddLayerSurface(c, gone) ELSE gone
<1>1. /\ gone \in OutType /\ CalmOut(gone) /\ gone.place = r.place /\ gone.surface = r.surface
      /\ gone.layer = IF ~show \/ moving THEN NoLayer ELSE r.layer
  BY LayerSurfaceKeeps
<1> HIDE DEF gone
<1>2. CASE show
  <2>1. t = AddLayerSurface(c, gone)
    BY <1>2
  <2> HIDE DEF t
  <2>2. /\ t \in OutType /\ CalmOut(t) /\ t.place = gone.place /\ t.surface = gone.surface
        /\ t.layer = IF gone.layer = NoLayer THEN LayerFor(c) ELSE gone.layer
    BY <1>1, <1>2, <2>1, AddLayerSurfaceKeeps
  <2> QED
    BY <1>1, <1>2, <2>2 DEF t, gone
<1>3. CASE ~show
  BY <1>1, <1>3 DEF gone
<1> QED
  BY <1>2, <1>3

LEMMA RelayeredKeeps ==
  ASSUME NEW b \in BarType, Calm(b), NEW show \in BOOLEAN, NEW moving \in BOOLEAN,
         show => \A o \in Used(b) : b.out[o].surface
  PROVE  LET t == Relayered(b, show, moving)
         IN  /\ t \in BarType /\ BesidesOut([b EXCEPT !.visible = show], t)
             /\ Calm(t) /\ Dues(t)
             /\ \A o \in Outputs :
                  /\ t.out[o].place = b.out[o].place
                  /\ t.out[o].layer =
                       IF ~show \/ b.out[o].place # "used" THEN NoLayer
                       ELSE IF b.out[o].layer = NoLayer \/ moving THEN LayerFor(b.cfg)
                       ELSE b.out[o].layer
<1> DEFINE Gone(r) == IF ~show \/ moving THEN DestroyLayerSurface(r) ELSE r
           Put(r) == IF show THEN AddLayerSurface(b.cfg, Gone(r)) ELSE Gone(r)
           out == [o \in Outputs |-> IF o \in Used(b) THEN Put(b.out[o]) ELSE b.out[o]]
           q == WithVisible(b, show, out)
           t == Relayered(b, show, moving)
<1>1. t = SetBarDirty(q)
  BY DEF Relayered, WithVisible
<1>2. b.cfg \in Configs /\ \A o \in Outputs : b.out[o] \in OutType /\ CalmOut(b.out[o])
  BY DEF BarType, Calm
<1>3. ASSUME NEW o \in Outputs
      PROVE  /\ out[o] \in OutType /\ CalmOut(out[o]) /\ out[o].place = b.out[o].place
             /\ out[o].layer = IF ~show \/ b.out[o].place # "used" THEN NoLayer
                               ELSE IF b.out[o].layer = NoLayer \/ moving THEN LayerFor(b.cfg)
                               ELSE b.out[o].layer
  <2>1. CASE b.out[o].place = "used"
    <3>1. out[o] = Put(b.out[o])
      BY <2>1 DEF Used
    <3>2. show => b.out[o].surface
      BY <2>1 DEF Used
    <3> HIDE DEF out
    <3> QED
      BY <1>2, <2>1, <3>1, <3>2, RelayeredOut
  <2>2. CASE b.out[o].place # "used"
    <3>1. out[o] = b.out[o]
      BY <2>2 DEF Used
    <3> HIDE DEF out
    <3> QED
      BY <1>2, <2>2, <3>1 DEF CalmOut
  <2> QED
    BY <2>1, <2>2
<1>4. out \in [Outputs -> OutType]
  <2> SUFFICES ASSUME NEW o \in Outputs PROVE out[o] \in OutType
    OBVIOUS
  <2> QED
    BY <1>3
<1> HIDE DEF out, t, q
<1>5. /\ q \in BarType /\ q.out = out /\ BesidesOut([b EXCEPT !.visible = show], q)
  BY <1>4 DEF q, WithVisible, BarType, BesidesOut
<1>6. Calm(q)
  BY <1>3, <1>5 DEF Calm
<1>7. /\ t \in BarType /\ BesidesOut(q, t) /\ Calm(t) /\ Dues(t)
      /\ \A o \in Outputs : SameOut(q.out[o], t.out[o])
  BY <1>1, <1>5, <1>6, SetBarDirtyKeeps
<1>8. BesidesOut([b EXCEPT !.visible = show], t)
  BY <1>5, <1>7 DEF BesidesOut
<1>9. ASSUME NEW o \in Outputs
      PROVE  t.out[o].place = out[o].place /\ t.out[o].layer = out[o].layer
  BY <1>5, <1>7, <1>9 DEF SameOut
<1> QED
  BY <1>3, <1>7, <1>8, <1>9 DEF t

\* Unless something is lost, all outputs in use have their surfaces, due to be drawn.
LEMMA DetermineVisibilityKeeps ==
  ASSUME NEW b, NEW tray, Between(b, tray), NEW moving \in BOOLEAN
  PROVE  LET t == DetermineVisibility(b, moving)
         IN  /\ Between(t, tray) /\ t.cfg = b.cfg /\ t.seen = b.seen /\ t.at = b.at
             /\ b.status = NoStatus => t.status = NoStatus
             /\ t.life # "running" \/ b.life = "running"
             /\ t.life = "running" => Dues(t) /\ (moving \/ OnLayer(b) => Follows(t))
<1> DEFINE t == DetermineVisibility(b, moving)
           show == BarVisible(b.cfg, b.seen)
<1>1. b \in BarType /\ Len(b.ready) = Len(b.fds) /\ b.status \in StatusType
  BY DEF Between, Typed, BarType
<1>2. CASE b.life # "running"
  BY <1>2 DEF DetermineVisibility
<1>3. CASE b.life = "running" /\ show /\ \E o \in Used(b) : ~b.out[o].surface
  <2>1. t = [b EXCEPT !.life = "crashed"]
    BY <1>3 DEF DetermineVisibility
  <2> HIDE DEF t, show
  <2>2. /\ t \in BarType /\ t.life = "crashed" /\ t.cfg = b.cfg /\ t.seen = b.seen
        /\ t.fds = b.fds /\ t.ready = b.ready /\ t.status = b.status /\ t.at = b.at
    BY <1>1, <2>1 DEF BarType
  <2> QED
    BY <1>1, <2>2 DEF Between, Typed, t
<1>4. CASE b.life = "running" /\ ~(show /\ \E o \in Used(b) : ~b.out[o].surface)
  <2> DEFINE q == Relayered(b, show, moving)
             status == IF show # b.visible THEN Signalled(b.status, show) ELSE b.status
  <2>0. show \in BOOLEAN
    BY DEF BarVisible
  <2>1. Calm(b) /\ Command(b) /\ Watched(b, tray)
    BY <1>4 DEF Between
  <2>2. show => \A o \in Used(b) : b.out[o].surface
    BY <1>4
  <2>3. /\ q \in BarType /\ BesidesOut([b EXCEPT !.visible = show], q)
        /\ Calm(q) /\ Dues(q)
        /\ \A o \in Outputs :
             /\ q.out[o].place = b.out[o].place
             /\ q.out[o].layer =
                  IF ~show \/ b.out[o].place # "used" THEN NoLayer
                  ELSE IF b.out[o].layer = NoLayer \/ moving THEN LayerFor(b.cfg)
                  ELSE b.out[o].layer
    <3> HIDE DEF q, show
    <3> QED
      BY <1>1, <2>0, <2>1, <2>2, RelayeredKeeps DEF q
  <2>4. t = [q EXCEPT !.status = IF show # b.visible THEN Signalled(q.status, show) ELSE q.status]
    BY <1>4 DEF DetermineVisibility
  <2>5. /\ q.cfg = b.cfg /\ q.visible = show /\ q.life = b.life /\ q.seen = b.seen
        /\ q.status = b.status /\ q.fds = b.fds /\ q.ready = b.ready /\ q.at = b.at
    <3> HIDE DEF q, show
    <3> QED
      BY <1>1, <2>3 DEF BesidesOut, BarType
  <2>6. t = [q EXCEPT !.status = status]
    BY <2>4, <2>5
  <2> HIDE DEF t, q
  <2>7. /\ status \in StatusType /\ status.open = b.status.open
        /\ status.protocol = b.status.protocol /\ status.custom = b.status.custom
        /\ show /\ ~b.status.custom => status.process # "stopped"
        /\ b.status = NoStatus => status = NoStatus
    <3>0. Signalled(NoStatus, show) = NoStatus
      BY DEF Signalled, NoStatus
    <3> HIDE DEF show
    <3>1. CASE show # b.visible
      BY <1>1, <2>0, <3>0, <3>1, SignalledKeeps
    <3>2. CASE show = b.visible
      BY <1>1, <2>1, <3>2 DEF Command
    <3> QED
      BY <3>1, <3>2
  <2> HIDE DEF status, show
  <2>8. /\ t \in BarType /\ t.cfg = b.cfg /\ t.visible = show /\ t.life = b.life
        /\ t.seen = b.seen /\ t.status = status /\ t.fds = b.fds /\ t.ready = b.ready
        /\ t.out = q.out /\ t.at = b.at
    BY <2>3, <2>5, <2>6, <2>7 DEF BarType
  <2>9. Calm(t) /\ Dues(t)
    BY <2>3, <2>8 DEF Calm, Dues
  <2>10. Command(t) /\ Watched(t, tray)
    BY <2>1, <2>7, <2>8 DEF Command, Watched
  <2>11. ASSUME moving \/ OnLayer(b)
         PROVE  Follows(t)
    <3>1. t.visible = BarVisible(t.cfg, t.seen)
      BY <2>8 DEF show
    <3>2. ASSUME NEW o \in Outputs
          PROVE  t.out[o].layer = IF o \in Used(t) /\ t.visible THEN LayerFor(t.cfg) ELSE NoLayer
      BY <2>3, <2>8, <2>11 DEF OnLayer, Used
    <3> QED
      BY <3>1, <3>2 DEF Follows
  <2> QED
    BY <1>1, <1>4, <2>7, <2>8, <2>9, <2>10, <2>11 DEF Between, Typed, t
<1> QED
  BY <1>2, <1>3, <1>4

------------------------------------------------------------------------------
LEMMA RemoveAtKeeps ==
  ASSUME NEW S, NEW seq \in Seq(S), NEW k \in 1 .. Len(seq)
  PROVE  LET t == RemoveAt(seq, k)
         IN  /\ t \in Seq(S) /\ Len(t) = Len(seq) - 1
             /\ \A i \in 1 .. Len(t) : t[i] = IF i < k THEN seq[i] ELSE seq[i + 1]
<1> DEFINE a == SubSeq(seq, 1, k - 1)
           b == SubSeq(seq, k + 1, Len(seq))
           t == RemoveAt(seq, k)
<1>1. t = a \o b
  BY DEF RemoveAt
<1>2. /\ a \in Seq(S) /\ Len(a) = k - 1 /\ \A i \in 1 .. k - 1 : a[i] = seq[i]
      /\ b \in Seq(S) /\ Len(b) = Len(seq) - k /\ \A i \in 1 .. Len(seq) - k : b[i] = seq[i + k]
  OBVIOUS
<1> HIDE DEF a, b, t
<1>3. t \in Seq(S) /\ Len(t) = Len(seq) - 1
  <2>1. Len(a) + Len(b) = Len(seq) - 1
    BY <1>2
  <2> QED
    BY <1>1, <1>2, <2>1
<1>4. ASSUME NEW i \in 1 .. Len(t)
      PROVE  t[i] = IF i < k THEN seq[i] ELSE seq[i + 1]
  <2>1. CASE i < k
    <3>1. i \in 1 .. Len(a)
      BY <1>2, <1>3, <2>1
    <3> QED
      BY <1>1, <1>2, <2>1, <3>1, ConcatProperties
  <2>2. CASE i >= k
    <3>1. i - (k - 1) \in 1 .. Len(b) /\ i - (k - 1) + k = i + 1 /\ i = Len(a) + (i - (k - 1))
      BY <1>2, <1>3, <2>2
    <3>2. t[i] = b[i - (k - 1)]
      BY <1>1, <1>2, <3>1, ConcatProperties
    <3> QED
      BY <1>2, <2>2, <3>1, <3>2
  <2> QED
    BY <2>1, <2>2
<1> QED
  BY <1>3, <1>4 DEF t

BesidesFds(b, t) ==
  /\ t.cfg = b.cfg /\ t.visible = b.visible /\ t.life = b.life /\ t.seen = b.seen
  /\ t.out = b.out /\ t.status = b.status /\ t.at = b.at

WithFds(b, fds, ready) == [b EXCEPT !.fds = fds, !.ready = ready]

LEMMA LoopAddFdKeeps ==
  ASSUME NEW b, Typed(b), NEW fd \in Fds
  PROVE  LET t == LoopAddFd(b, fd)
         IN  /\ Typed(t) /\ BesidesFds(b, t) /\ Range(t.fds) = Range(b.fds) \cup {fd}
             /\ Distinct(b.fds) /\ fd \notin Range(b.fds) => Distinct(t.fds)
<1> DEFINE fds == Append(b.fds, fd)
           ready == Append(b.ready, FALSE)
           t == LoopAddFd(b, fd)
<1>1. b \in BarType /\ b.fds \in Seq(Fds) /\ b.ready \in Seq(BOOLEAN) /\ Len(b.ready) = Len(b.fds)
  BY DEF Typed, BarType
<1>2. t = WithFds(b, fds, ready)
  BY DEF LoopAddFd, WithFds
<1>3. /\ fds \in Seq(Fds) /\ Len(fds) = Len(b.fds) + 1 /\ fds[Len(b.fds) + 1] = fd
      /\ \A i \in 1 .. Len(b.fds) : fds[i] = b.fds[i]
  BY <1>1
<1>4. ready \in Seq(BOOLEAN) /\ Len(ready) = Len(fds)
  BY <1>1
<1> HIDE DEF fds, ready, t
<1>5. t \in BarType /\ BesidesFds(b, t) /\ t.fds = fds /\ t.ready = ready
  BY <1>1, <1>2, <1>3, <1>4 DEF WithFds, BarType, BesidesFds
<1>6. DOMAIN fds = 1 .. Len(b.fds) + 1 /\ DOMAIN b.fds = 1 .. Len(b.fds) /\ Len(b.fds) \in Nat
  BY <1>1, <1>3
<1>7. Range(fds) = Range(b.fds) \cup {fd}
  <2>1. \A x \in Range(fds) : x \in Range(b.fds) \cup {fd}
    BY <1>3, <1>6 DEF Range
  <2>2. \A x \in Range(b.fds) \cup {fd} : x \in Range(fds)
    BY <1>3, <1>6 DEF Range
  <2> QED
    BY <2>1, <2>2
<1>8. Distinct(b.fds) /\ fd \notin Range(b.fds) => Distinct(fds)
  BY <1>3, <1>6 DEF Distinct, Range
<1> QED
  BY <1>4, <1>5, <1>7, <1>8 DEF Typed, t

LEMMA LoopRemoveFdKeeps ==
  ASSUME NEW b, Typed(b), NEW fd \in Fds
  PROVE  LET t == LoopRemoveFd(b, fd)
         IN  /\ Typed(t) /\ BesidesFds(b, t)
             /\ Distinct(b.fds) => Distinct(t.fds) /\ Range(t.fds) = Range(b.fds) \ {fd}
<1> DEFINE k == CHOOSE i \in DOMAIN b.fds : b.fds[i] = fd
           fds == RemoveAt(b.fds, k)
           ready == RemoveAt(b.ready, k)
           t == LoopRemoveFd(b, fd)
<1>1. b \in BarType /\ b.fds \in Seq(Fds) /\ b.ready \in Seq(BOOLEAN) /\ Len(b.ready) = Len(b.fds)
  BY DEF Typed, BarType
<1>2. CASE fd \notin Range(b.fds)
  BY <1>2 DEF LoopRemoveFd, BesidesFds
<1>3. CASE fd \in Range(b.fds)
  <2>1. t = WithFds(b, fds, ready)
    BY <1>3 DEF LoopRemoveFd, WithFds
  <2>2. k \in DOMAIN b.fds /\ b.fds[k] = fd
    BY <1>3 DEF Range
  <2>3. k \in 1 .. Len(b.fds) /\ k \in 1 .. Len(b.ready)
    BY <1>1, <2>2
  <2> HIDE DEF k
  <2>4. /\ fds \in Seq(Fds) /\ Len(fds) = Len(b.fds) - 1
        /\ \A i \in 1 .. Len(fds) : fds[i] = IF i < k THEN b.fds[i] ELSE b.fds[i + 1]
    BY <1>1, <2>3, RemoveAtKeeps
  <2>5. ready \in Seq(BOOLEAN) /\ Len(ready) = Len(fds)
    BY <1>1, <2>3, <2>4, RemoveAtKeeps
  <2> HIDE DEF fds, ready, t
  <2>6. t \in BarType /\ BesidesFds(b, t) /\ t.fds = fds /\ t.ready = ready
    BY <1>1, <2>1, <2>4, <2>5 DEF WithFds, BarType, BesidesFds
  <2>7. DOMAIN fds = 1 .. Len(b.fds) - 1 /\ DOMAIN b.fds = 1 .. Len(b.fds) /\ Len(b.fds) \in Nat
    BY <1>1, <2>4
  <2>8. ASSUME Distinct(b.fds)
        PROVE  Distinct(fds)
    <3> SUFFICES ASSUME NEW i \in DOMAIN fds, NEW j \in DOMAIN fds, fds[i] = fds[j]
                 PROVE  i = j
      BY DEF Distinct
    <3> DEFINE m == IF i < k THEN i ELSE i + 1
               n == IF j < k THEN j ELSE j + 1
    <3>1. m \in DOMAIN b.fds /\ fds[i] = b.fds[m] /\ n \in DOMAIN b.fds /\ fds[j] = b.fds[n]
      <4>1. m \in DOMAIN b.fds /\ fds[i] = b.fds[m]
        BY <2>3, <2>4, <2>7
      <4>2. n \in DOMAIN b.fds /\ fds[j] = b.fds[n]
        BY <2>3, <2>4, <2>7
      <4> QED
        BY <4>1, <4>2
    <3>2. m = n
      <4> HIDE DEF m, n
      <4> QED
        BY <2>8, <3>1 DEF Distinct
    <3> QED
      BY <2>3, <2>7, <3>2
  <2>9. ASSUME Distinct(b.fds)
        PROVE  Range(fds) = Range(b.fds) \ {fd}
    <3>1. ASSUME NEW i \in DOMAIN fds
          PROVE  fds[i] \in Range(b.fds) \ {fd}
      <4> DEFINE j == IF i < k THEN i ELSE i + 1
      <4>1. j \in DOMAIN b.fds /\ j # k /\ fds[i] = b.fds[j]
        BY <2>3, <2>4, <2>7
      <4> HIDE DEF j
      <4> QED
        BY <2>2, <2>9, <4>1 DEF Distinct, Range
    <3>2. ASSUME NEW j \in DOMAIN b.fds, b.fds[j] # fd
          PROVE  b.fds[j] \in Range(fds)
      <4> DEFINE i == IF j < k THEN j ELSE j - 1
      <4>1. i \in DOMAIN fds /\ fds[i] = b.fds[j]
        BY <2>2, <2>3, <2>4, <2>7, <3>2
      <4> HIDE DEF i
      <4> QED
        BY <4>1 DEF Range
    <3>3. \A x \in Range(fds) : x \in Range(b.fds) \ {fd}
      BY <3>1 DEF Range
    <3>4. \A x \in Range(b.fds) \ {fd} : x \in Range(fds)
      BY <3>2 DEF Range
    <3> QED
      BY <3>3, <3>4
  <2> QED
    BY <2>4, <2>5, <2>6, <2>8, <2>9 DEF Typed, t
<1> QED
  BY <1>2, <1>3

------------------------------------------------------------------------------
\* What the status command and its pipe leave alone.
BesidesCommand(b, t) ==
  t.cfg = b.cfg /\ t.visible = b.visible /\ t.seen = b.seen /\ t.out = b.out

WithStatus(b, status, life) == [b EXCEPT !.status = status, !.life = life]

StatusSet(b, t, status, life) ==
  /\ Typed(t) /\ t.cfg = b.cfg /\ t.visible = b.visible /\ t.seen = b.seen
  /\ t.out = b.out /\ t.fds = b.fds /\ t.ready = b.ready /\ t.at = b.at
  /\ t.status = status /\ t.life = life

LEMMA WithStatusKeeps ==
  ASSUME NEW b, Typed(b), NEW status \in StatusType,
         NEW life \in {"running", "crashed", "waiting"}
  PROVE  StatusSet(b, WithStatus(b, status, life), status, life)
BY DEF Typed, WithStatus, BarType, StatusSet

StatusFds(b, tray) ==
  Range(b.fds) = {"display", "ipc"} \cup (IF b.status.open THEN {"status"} ELSE {})
                                    \cup (IF tray THEN {"tray"} ELSE {})

\* The pipe is watched no more.
LEMMA PipeClosed ==
  ASSUME NEW b, Typed(b), NEW status \in StatusType, ~status.open,
         NEW life \in {"running", "crashed", "waiting"}, NEW tray
  PROVE  LET t == WithStatus(IF b.status.open THEN LoopRemoveFd(b, "status") ELSE b, status, life)
         IN  /\ Typed(t) /\ BesidesCommand(b, t) /\ t.status = status /\ t.life = life
             /\ Watched(b, tray) => Watched(t, tray)
<1> DEFINE fd == "status"
           s == IF b.status.open THEN LoopRemoveFd(b, fd) ELSE b
           t == WithStatus(s, status, life)
<1>0. fd \in Fds
  BY DEF Fds
<1>1. /\ Typed(s) /\ BesidesFds(b, s)
      /\ Watched(b, tray) =>
           Distinct(s.fds) /\ Range(s.fds) = {"display", "ipc"} \cup (IF tray THEN {"tray"} ELSE {})
  <2>1. CASE b.status.open
    <3>1. s = LoopRemoveFd(b, fd)
      BY <2>1
    <3> HIDE DEF s
    <3>2. /\ Typed(s) /\ BesidesFds(b, s)
          /\ Distinct(b.fds) => Distinct(s.fds) /\ Range(s.fds) = Range(b.fds) \ {fd}
      <4> HIDE DEF fd
      <4> QED
        BY <1>0, <3>1, LoopRemoveFdKeeps
    <3>3. Watched(b, tray) => Range(b.fds) \ {fd} = {"display", "ipc"} \cup (IF tray THEN {"tray"} ELSE {})
      BY <2>1 DEF Watched
    <3> QED
      BY <3>2, <3>3 DEF Watched
  <2>2. CASE ~b.status.open
    BY <2>2 DEF BesidesFds, Watched
  <2> QED
    BY <2>1, <2>2
<1> HIDE DEF s
<1>2. StatusSet(s, t, status, life)
  BY <1>1, WithStatusKeeps
<1> HIDE DEF t
<1> QED
  BY <1>1, <1>2 DEF StatusSet, BesidesFds, BesidesCommand, Watched, t, s, fd

\* A bar of which only the command changed.
LEMMA CommandChanges ==
  ASSUME NEW b, NEW t, NEW tray, Between(b, tray), Typed(t), BesidesCommand(b, t),
         t.life = "running" => b.life = "running" /\ Command(t) /\ Watched(t, tray)
  PROVE  Between(t, tray)
BY DEF Between, BesidesCommand, Calm

LEMMA StatusErrorKeeps ==
  ASSUME NEW b, Settled(b)
  PROVE  LET t == StatusError(b)
         IN  Settled(t) /\ BesidesCommand(b, t) /\ t.life = b.life
<1> DEFINE status == [b.status EXCEPT !.open = FALSE, !.protocol = "error"]
           t == StatusError(b)
<1>1. /\ Typed(b) /\ b \in BarType /\ b.status \in StatusType
      /\ b.life \in {"running", "crashed", "waiting"}
  BY DEF Settled, Between, Typed, BarType
<1>2. /\ status \in StatusType /\ ~status.open /\ status.protocol = "error"
      /\ status.custom = b.status.custom /\ status.process = b.status.process
  BY <1>1 DEF StatusType
<1>3. t = WithStatus(IF b.status.open THEN LoopRemoveFd(b, "status") ELSE b, status, b.life)
  <2> DEFINE fd == "status"
             s == LoopRemoveFd(b, fd)
  <2>1. Typed(s) /\ BesidesFds(b, s)
    <3>1. fd \in Fds
      BY DEF Fds
    <3> HIDE DEF fd
    <3> QED
      BY <1>1, <3>1, LoopRemoveFdKeeps
  <2>2. t = [(IF b.status.open THEN s ELSE b) EXCEPT !.status.open = FALSE, !.status.protocol = "error"]
    BY DEF StatusError
  <2> HIDE DEF s, t
  <2>3. t = WithStatus(IF b.status.open THEN s ELSE b, status, b.life)
    BY <1>1, <2>1, <2>2 DEF Typed, BarType, BesidesFds, WithStatus
  <2> QED
    BY <2>3 DEF s
<1> HIDE DEF t, status
<1>4. /\ Typed(t) /\ BesidesCommand(b, t) /\ t.status = status /\ t.life = b.life
      /\ Watched(b, b.cfg.tray) => Watched(t, b.cfg.tray)
  BY <1>1, <1>2, <1>3, PipeClosed
<1>5. Command(b) => Command(t)
  BY <1>2, <1>4 DEF Command, BesidesCommand
<1>6. Between(t, b.cfg.tray)
  BY <1>4, <1>5, CommandChanges DEF Settled, Between
<1> QED
  BY <1>4, <1>6 DEF Settled, BesidesCommand, t

LEMMA StatusLineFreeKeeps ==
  ASSUME NEW b, NEW tray, Between(b, tray)
  PROVE  LET t == StatusLineFree(b)
         IN  /\ Between(t, tray) /\ BesidesCommand(b, t) /\ t.status = NoStatus
             /\ t.life = "running" => b.life = "running"
<1> DEFINE status == NoStatus
           life == IF Waits(b.status) THEN "waiting" ELSE b.life
           t == StatusLineFree(b)
<1>1. /\ Typed(b) /\ b \in BarType /\ b.life \in {"running", "crashed", "waiting"}
  BY DEF Between, Typed, BarType
<1>2. status \in StatusType /\ ~status.open
  BY DEF NoStatus, StatusType, Commands
<1>3. life \in {"running", "crashed", "waiting"} /\ (life = "running" => b.life = "running")
  BY <1>1
<1>4. t = WithStatus(IF b.status.open THEN LoopRemoveFd(b, "status") ELSE b, status, life)
  <2> DEFINE fd == "status"
             s == LoopRemoveFd(b, fd)
  <2>1. s.life = b.life
    <3>1. fd \in Fds
      BY DEF Fds
    <3> HIDE DEF fd
    <3> QED
      BY <1>1, <3>1, LoopRemoveFdKeeps DEF BesidesFds
  <2>2. t = [(IF b.status.open THEN s ELSE b)
               EXCEPT !.status = NoStatus,
                      !.life = IF Waits(b.status) THEN "waiting" ELSE (IF b.status.open THEN s ELSE b).life]
    BY DEF StatusLineFree
  <2> HIDE DEF s, t
  <2>3. t = WithStatus(IF b.status.open THEN s ELSE b, status, life)
    BY <2>1, <2>2 DEF WithStatus
  <2> QED
    BY <2>3 DEF s
<1> HIDE DEF t, life
<1>5. /\ Typed(t) /\ BesidesCommand(b, t) /\ t.status = status /\ t.life = life
      /\ Watched(b, tray) => Watched(t, tray)
  <2> HIDE DEF status
  <2> QED
    BY <1>1, <1>2, <1>3, <1>4, PipeClosed
<1>6. Command(t)
  BY <1>5 DEF Command, NoStatus
<1>7. Between(t, tray)
  BY <1>3, <1>5, <1>6, CommandChanges DEF Between
<1> QED
  BY <1>3, <1>5, <1>7 DEF t

LEMMA StatusLineInitKeeps ==
  ASSUME NEW b, NEW tray, Between(b, tray), b.status = NoStatus
  PROVE  LET t == StatusLineInit(b)
         IN  Between(t, tray) /\ BesidesCommand(b, t) /\ t.life = b.life /\ t.at = b.at
<1> DEFINE fd == "status"
           s == LoopAddFd(b, fd)
           status == [command |-> b.cfg.status, process |-> "running",
                      open |-> TRUE, protocol |-> "undef", custom |-> FALSE]
           t == StatusLineInit(b)
<1>1. /\ Typed(b) /\ b \in BarType /\ b.cfg \in Configs /\ ~b.status.open
      /\ b.life = "running" => Watched(b, tray)
  BY DEF Between, Typed, BarType, NoStatus
<1>2. fd \in Fds /\ fd = "status"
  BY DEF Fds
<1> HIDE DEF fd
<1>3. /\ Typed(s) /\ BesidesFds(b, s) /\ Range(s.fds) = Range(b.fds) \cup {fd}
      /\ Distinct(b.fds) /\ fd \notin Range(b.fds) => Distinct(s.fds)
  BY <1>1, <1>2, LoopAddFdKeeps
<1> HIDE DEF s
<1>4. b.life = "running" => fd \notin Range(b.fds)
  BY <1>1, <1>2 DEF Watched
<1>5. status \in StatusType /\ status.open
  BY <1>1 DEF StatusType, Commands
<1>6. t = WithStatus(s, status, s.life)
  <2>1. t = [s EXCEPT !.status = status]
    BY <1>2 DEF StatusLineInit, s
  <2> QED
    BY <1>3, <2>1 DEF WithStatus, Typed, BarType
<1>7. s.life \in {"running", "crashed", "waiting"}
  BY <1>3 DEF Typed, BarType
<1> HIDE DEF t
<1>8. StatusSet(s, t, status, s.life)
  <2> HIDE DEF status
  <2> QED
    BY <1>3, <1>5, <1>6, <1>7, WithStatusKeeps
<1>9. b.life = "running" => Watched(t, tray)
  BY <1>1, <1>2, <1>3, <1>4, <1>5, <1>8 DEF StatusSet, Watched
<1>10. Command(t)
  BY <1>8 DEF StatusSet, Command
<1>11. BesidesCommand(b, t) /\ t.life = b.life /\ t.at = b.at
  BY <1>3, <1>8 DEF StatusSet, BesidesFds, BesidesCommand
<1>12. Between(t, tray)
  BY <1>8, <1>9, <1>10, <1>11, CommandChanges DEF StatusSet, Between
<1> QED
  BY <1>11, <1>12 DEF t

LEMMA ReplaceStatusKeeps ==
  ASSUME NEW b, NEW tray, Between(b, tray), NEW old
  PROVE  LET t == ReplaceStatus(b, old)
         IN  /\ Between(t, tray) /\ BesidesCommand(b, t)
             /\ t.life = "running" => b.life = "running"
<1> DEFINE kept == IF b.status # NoStatus /\ b.cfg.status # old.status THEN StatusLineFree(b) ELSE b
           t == ReplaceStatus(b, old)
<1>1. /\ Between(kept, tray) /\ BesidesCommand(b, kept)
      /\ kept.life = "running" => b.life = "running"
  <2>1. CASE b.status # NoStatus /\ b.cfg.status # old.status
    <3>1. kept = StatusLineFree(b)
      BY <2>1
    <3> HIDE DEF kept
    <3> QED
      BY <3>1, StatusLineFreeKeeps
  <2>2. CASE ~(b.status # NoStatus /\ b.cfg.status # old.status)
    BY <2>2 DEF BesidesCommand
  <2> QED
    BY <2>1, <2>2
<1>2. t = IF /\ kept.status = NoStatus /\ b.cfg.status # NoCommand
             /\ kept.life = "running"
          THEN StatusLineInit(kept) ELSE kept
  BY DEF ReplaceStatus
<1> HIDE DEF kept, t
<1>3. CASE kept.status = NoStatus /\ b.cfg.status # NoCommand /\ kept.life = "running"
  <2>1. t = StatusLineInit(kept)
    BY <1>2, <1>3
  <2>2. Between(t, tray) /\ BesidesCommand(kept, t)
    BY <1>1, <1>3, <2>1, StatusLineInitKeeps
  <2> QED
    BY <1>1, <1>3, <2>2 DEF BesidesCommand, t
<1>4. CASE ~(kept.status = NoStatus /\ b.cfg.status # NoCommand /\ kept.life = "running")
  BY <1>1, <1>2, <1>4 DEF t
<1> QED
  BY <1>3, <1>4

LEMMA TrayAdded ==
  ASSUME NEW b, NEW none, ~none, Between(b, none), b.cfg.tray
  PROVE  LET t == LoopAddFd(b, "tray")
         IN  Settled(t) /\ BesidesFds(b, t)
<1> DEFINE fd == "tray"
           t == LoopAddFd(b, fd)
<1>1. Typed(b) /\ fd \in Fds /\ fd = "tray"
  BY DEF Between, Fds
<1> HIDE DEF fd
<1>2. /\ Typed(t) /\ BesidesFds(b, t) /\ Range(t.fds) = Range(b.fds) \cup {fd}
      /\ Distinct(b.fds) /\ fd \notin Range(b.fds) => Distinct(t.fds)
  BY <1>1, LoopAddFdKeeps
<1> HIDE DEF t
<1>3. ASSUME b.life = "running" PROVE Watched(t, b.cfg.tray)
  <2>1. Watched(b, none)
    BY <1>3 DEF Between
  <2>2. fd \notin Range(b.fds)
    BY <1>1, <2>1 DEF Watched
  <2> QED
    BY <1>1, <1>2, <2>1, <2>2 DEF Watched, BesidesFds
<1>4. Settled(t)
  BY <1>2, <1>3 DEF Settled, Between, BesidesFds, Calm, Command
<1> QED
  BY <1>2, <1>4 DEF t, fd

\* The bus is watched as the new configuration says.
LEMMA ReplaceTrayKeeps ==
  ASSUME NEW b, NEW old \in Configs, Between(b, old.tray)
  PROVE  LET t == ReplaceTray(b, old)
         IN  Settled(t) /\ BesidesFds(b, t)
<1> DEFINE fd == "tray"
           t == ReplaceTray(b, old)
<1>1. Typed(b) /\ b \in BarType /\ b.cfg \in Configs /\ fd \in Fds /\ fd = "tray"
  BY DEF Between, Typed, BarType, Fds
<1>2. old.tray \in BOOLEAN /\ b.cfg.tray \in BOOLEAN
  BY <1>1, ConfigShape
<1>3. /\ ~old.tray /\ b.cfg.tray => t = LoopAddFd(b, fd)
      /\ old.tray /\ ~b.cfg.tray => t = LoopRemoveFd(b, fd)
      /\ old.tray = b.cfg.tray => t = b
  BY <1>2 DEF ReplaceTray
<1> HIDE DEF fd, t
<1>4. ASSUME Typed(t), BesidesFds(b, t),
             b.life = "running" => Watched(t, b.cfg.tray)
      PROVE  Settled(t)
  BY <1>4 DEF Settled, Between, BesidesFds, Calm, Command
<1>5. CASE ~old.tray /\ b.cfg.tray
  <2>1. Settled(t) /\ BesidesFds(b, t)
    BY <1>1, <1>3, <1>5, TrayAdded
  <2> QED
    BY <2>1 DEF t
<1>6. CASE old.tray /\ ~b.cfg.tray
  <2>1. /\ Typed(t) /\ BesidesFds(b, t)
        /\ Distinct(b.fds) => Distinct(t.fds) /\ Range(t.fds) = Range(b.fds) \ {fd}
    BY <1>1, <1>3, <1>6, LoopRemoveFdKeeps
  <2>2. ASSUME b.life = "running" PROVE Watched(t, b.cfg.tray)
    <3>1. Watched(b, old.tray)
      BY <2>2 DEF Between
    <3> QED
      BY <1>1, <1>6, <2>1, <3>1 DEF Watched, BesidesFds
  <2> QED
    BY <1>4, <2>1, <2>2 DEF t
<1>7. CASE old.tray = b.cfg.tray
  <2>1. t = b
    BY <1>3, <1>7
  <2> QED
    BY <1>7, <2>1 DEF Settled, BesidesFds, t
<1> QED
  BY <1>2, <1>5, <1>6, <1>7

------------------------------------------------------------------------------
MoveOutputs(b, c) ==
  [b EXCEPT !.cfg = c, !.out = [o \in Outputs |->
     MoveOutput(b.out[o], Uses(c, o), b.cfg.font # c.font)]]

LEMMA MoveOutputKeeps ==
  ASSUME NEW r \in OutType, CalmOut(r), NEW used \in BOOLEAN, NEW resized \in BOOLEAN
  PROVE  LET t == MoveOutput(r, used, resized)
         IN  t \in OutType /\ CalmOut(t) /\ t.layer \in {NoLayer, r.layer}
<1> DEFINE t == MoveOutput(r, used, resized)
           gone == DestroyLayerSurface(r)
<1>1. CASE r.place = "used" /\ ~used
  <2>1. gone \in OutType /\ CalmOut(gone) /\ gone.layer = NoLayer
    BY LayerSurfaceKeeps
  <2>2. t = [gone EXCEPT !.place = "unused"]
    BY <1>1 DEF MoveOutput
  <2> HIDE DEF gone, t
  <2>3. /\ t \in OutType /\ t.layer = NoLayer /\ t.scheduled = gone.scheduled
        /\ t.frames = gone.frames /\ t.wide = gone.wide /\ t.sized = gone.sized
        /\ t.asked = gone.asked
    BY <2>1, <2>2 DEF OutType
  <2> QED
    BY <2>1, <2>3 DEF CalmOut, t
<1>2. CASE r.place = "used" /\ used /\ resized
  BY <1>2 DEF MoveOutput, OutType, CalmOut
<1>3. CASE r.place = "unused" /\ used
  BY <1>3 DEF MoveOutput, OutType, CalmOut
<1>4. CASE ~(r.place = "used" /\ (~used \/ resized)) /\ ~(r.place = "unused" /\ used)
  BY <1>4 DEF MoveOutput
<1> QED
  BY <1>1, <1>2, <1>3, <1>4

LEMMA MoveOutputsKeeps ==
  ASSUME NEW b, Whole(b), b.life = "running", NEW c \in Configs
  PROVE  LET t == MoveOutputs(b, c)
         IN  /\ Between(t, b.cfg.tray) /\ t.cfg = c /\ t.life = "running"
             /\ b.cfg.mode = c.mode => OnLayer(t)
<1> DEFINE out == [o \in Outputs |-> MoveOutput(b.out[o], Uses(c, o), b.cfg.font # c.font)]
           t == MoveOutputs(b, c)
<1>1. /\ b \in BarType /\ Len(b.ready) = Len(b.fds) /\ Calm(b) /\ Follows(b) /\ Command(b)
      /\ Watched(b, b.cfg.tray) /\ \A o \in Outputs : b.out[o] \in OutType
  BY DEF Whole, Typed, BarType
<1>2. ASSUME NEW o \in Outputs
      PROVE  out[o] \in OutType /\ CalmOut(out[o]) /\ out[o].layer \in {NoLayer, b.out[o].layer}
  <2> DEFINE used == Uses(c, o)
             resized == b.cfg.font # c.font
  <2>1. used \in BOOLEAN /\ resized \in BOOLEAN /\ out[o] = MoveOutput(b.out[o], used, resized)
    BY DEF Uses
  <2> HIDE DEF used, resized, out
  <2> QED
    BY <1>1, <2>1, MoveOutputKeeps DEF Calm
<1>3. out \in [Outputs -> OutType]
  <2> SUFFICES ASSUME NEW o \in Outputs PROVE out[o] \in OutType
    OBVIOUS
  <2> QED
    BY <1>2
<1>4. t = [b EXCEPT !.cfg = c, !.out = out]
  BY DEF MoveOutputs
<1> HIDE DEF out, t
<1>5. /\ t \in BarType /\ t.cfg = c /\ t.visible = b.visible /\ t.life = "running"
      /\ t.out = out /\ t.status = b.status /\ t.fds = b.fds /\ t.ready = b.ready
  BY <1>1, <1>3, <1>4 DEF BarType
<1>6. Calm(t)
  BY <1>2, <1>5 DEF Calm
<1>7. Between(t, b.cfg.tray)
  BY <1>1, <1>5, <1>6 DEF Between, Typed, Command, Watched
<1>8. ASSUME b.cfg.mode = c.mode PROVE OnLayer(t)
  <2>1. \A o \in Outputs : b.out[o].layer \in {NoLayer, LayerFor(b.cfg)}
    BY <1>1 DEF Follows
  <2>2. LayerFor(b.cfg) = LayerFor(c)
    BY <1>8 DEF LayerFor
  <2> QED
    BY <1>2, <1>5, <2>1, <2>2 DEF OnLayer
<1> QED
  BY <1>5, <1>7, <1>8 DEF t

------------------------------------------------------------------------------
WithSeen(b, seen) == [b EXCEPT !.seen = seen]

LEMMA WithSeenKeeps ==
  ASSUME NEW b, NEW tray, Between(b, tray), NEW seen \in SeenType
  PROVE  LET t == WithSeen(b, seen)
         IN  /\ Between(t, tray) /\ t.cfg = b.cfg /\ t.life = b.life /\ t.out = b.out
             /\ t.status = b.status /\ t.at = b.at
<1> DEFINE t == WithSeen(b, seen)
<1>1. b \in BarType
  BY DEF Between, Typed
<1>2. /\ t \in BarType /\ t.cfg = b.cfg /\ t.visible = b.visible /\ t.life = b.life
      /\ t.out = b.out /\ t.status = b.status /\ t.fds = b.fds /\ t.ready = b.ready
      /\ t.at = b.at
  BY <1>1 DEF WithSeen, BarType
<1> HIDE DEF t
<1> QED
  BY <1>2 DEF Between, Typed, Calm, Command, Watched, t

\* What a handler returns: whole, or it is the end.
LEMMA WholeAgain ==
  ASSUME NEW b, Settled(b), b.life = "running" => Dues(b) /\ Follows(b)
  PROVE  Whole(b)
BY DEF Settled, Between, Whole

LEMMA WholeSettled ==
  ASSUME NEW b, Whole(b)
  PROVE  Settled(b) /\ (b.life = "running" => OnLayer(b))
BY DEF Whole, Settled, Between, Follows, OnLayer

LEMMA SeenDetermined ==
  ASSUME NEW b, NEW tray, Between(b, tray), NEW seen \in SeenType
  PROVE  LET t == DetermineVisibility(WithSeen(b, seen), FALSE)
         IN  /\ Between(t, tray) /\ t.cfg = b.cfg /\ t.at = b.at
             /\ t.life # "running" \/ b.life = "running"
             /\ t.life = "running" => Dues(t) /\ (OnLayer(b) => Follows(t))
             /\ b.status = NoStatus => t.status = NoStatus
<1> DEFINE no == FALSE
           s == WithSeen(b, seen)
           t == DetermineVisibility(s, no)
<1>1. /\ Between(s, tray) /\ s.cfg = b.cfg /\ s.life = b.life /\ s.out = b.out
      /\ s.status = b.status /\ s.at = b.at
  BY WithSeenKeeps
<1>2. no \in BOOLEAN
  OBVIOUS
<1> HIDE DEF s, no
<1>3. /\ Between(t, tray) /\ t.cfg = s.cfg /\ t.at = s.at
      /\ s.status = NoStatus => t.status = NoStatus
      /\ t.life # "running" \/ s.life = "running"
      /\ t.life = "running" => Dues(t) /\ (no \/ OnLayer(s) => Follows(t))
  BY <1>1, <1>2, DetermineVisibilityKeeps
<1>4. OnLayer(b) => OnLayer(s)
  BY <1>1 DEF OnLayer
<1> HIDE DEF t
<1> QED
  BY <1>1, <1>3, <1>4 DEF t, s, no

LEMMA IpcGetWorkspacesKeeps ==
  ASSUME NEW b, NEW tray, Between(b, tray), NEW urgent \in BOOLEAN
  PROVE  LET t == IpcGetWorkspaces(b, urgent)
         IN  /\ Between(t, tray) /\ t.cfg = b.cfg /\ t.at = b.at
             /\ t.life # "running" \/ b.life = "running"
             /\ t.life = "running" => Dues(t) /\ (OnLayer(b) => Follows(t))
             /\ b.status = NoStatus => t.status = NoStatus
<1> DEFINE seen == [b.seen EXCEPT !.urgency = urgent]
<1>1. seen \in SeenType
  BY DEF Between, Typed, BarType, SeenType
<1>2. IpcGetWorkspaces(b, urgent) = DetermineVisibility(WithSeen(b, seen), FALSE)
  BY DEF IpcGetWorkspaces, WithSeen
<1> HIDE DEF seen
<1> QED
  BY <1>1, <1>2, SeenDetermined

LEMMA SeenWhole ==
  ASSUME NEW b, Whole(b), b.life = "running", NEW seen \in SeenType
  PROVE  LET t == DetermineVisibility(WithSeen(b, seen), FALSE)
         IN  Whole(t) /\ Whole(SetBarDirty(t))
<1> DEFINE t == DetermineVisibility(WithSeen(b, seen), FALSE)
<1>1. Between(b, b.cfg.tray) /\ OnLayer(b)
  BY WholeSettled DEF Settled
<1>2. /\ Between(t, b.cfg.tray) /\ t.cfg = b.cfg
      /\ t.life = "running" => Dues(t) /\ (OnLayer(b) => Follows(t))
  BY <1>1, SeenDetermined
<1> HIDE DEF t
<1>3. Settled(t)
  BY <1>2 DEF Settled
<1> QED
  BY <1>1, <1>2, <1>3, WholeAgain, SetBarDirtyWhole DEF t

LEMMA WorkspaceEventWhole ==
  ASSUME NEW b, Whole(b), b.life = "running", NEW t \in WorkspaceEvent(b)
  PROVE  Whole(t)
<1>1. PICK u \in BOOLEAN : t = SetBarDirty(IpcGetWorkspaces(b, u))
  BY DEF WorkspaceEvent
<1> DEFINE seen == [b.seen EXCEPT !.urgency = u]
<1>2. seen \in SeenType
  BY <1>1 DEF Whole, Typed, BarType, SeenType
<1>3. IpcGetWorkspaces(b, u) = DetermineVisibility(WithSeen(b, seen), FALSE)
  BY DEF IpcGetWorkspaces, WithSeen
<1> HIDE DEF seen
<1> QED
  BY <1>1, <1>2, <1>3, SeenWhole

LEMMA ModeEventWhole ==
  ASSUME NEW b, Whole(b), b.life = "running", NEW t \in ModeEvent(b)
  PROVE  Whole(t)
<1>1. PICK m \in BOOLEAN : t = SetBarDirty(DetermineVisibility([b EXCEPT !.seen.mode = m], FALSE))
  BY DEF ModeEvent
<1> DEFINE seen == [b.seen EXCEPT !.mode = m]
<1>2. seen \in SeenType
  BY <1>1 DEF Whole, Typed, BarType, SeenType
<1>3. [b EXCEPT !.seen.mode = m] = WithSeen(b, seen)
  BY DEF WithSeen
<1> HIDE DEF seen
<1> QED
  BY <1>1, <1>2, <1>3, SeenWhole

LEMMA BarStateWhole ==
  ASSUME NEW b, Whole(b), b.life = "running", NEW pressed \in BOOLEAN
  PROVE  Whole(HandleBarStateUpdate(b, pressed))
<1> DEFINE seen == IF pressed THEN [modifier |-> TRUE, urgency |-> FALSE, mode |-> FALSE]
                   ELSE [b.seen EXCEPT !.modifier = FALSE]
           after == DetermineVisibility(WithSeen(b, seen), FALSE)
<1>1. seen \in SeenType
  BY DEF Whole, Typed, BarType, SeenType
<1>2. HandleBarStateUpdate(b, pressed) = IF after.visible THEN SetBarDirty(after) ELSE after
  BY DEF HandleBarStateUpdate, WithSeen
<1> HIDE DEF seen
<1>3. Whole(after) /\ Whole(SetBarDirty(after))
  BY <1>1, SeenWhole
<1> QED
  BY <1>2, <1>3

LEMMA BarconfigWhole ==
  ASSUME NEW b, Whole(b), b.life = "running", NEW c \in Configs, NEW urgent \in BOOLEAN
  PROVE  Whole(HandleBarconfigUpdate(b, c, urgent))
<1> DEFINE moved == MoveOutputs(b, c)
           replaced == ReplaceStatus(moved, b.cfg)
           tuned == ReplaceTray(replaced, b.cfg)
           listed == IF c.buttons /\ tuned.life = "running"
                     THEN IpcGetWorkspaces(tuned, urgent) ELSE tuned
           moving == b.cfg.mode # c.mode
           after == DetermineVisibility(listed, moving)
           t == HandleBarconfigUpdate(b, c, urgent)
<1>1. t = IF after.life = "running" THEN SetBarDirty(after) ELSE after
  BY DEF HandleBarconfigUpdate, MoveOutputs
<1>2. b.cfg \in Configs /\ moving \in BOOLEAN
  BY DEF Whole, Typed, BarType
<1> HIDE DEF t
<1>3. /\ Between(moved, b.cfg.tray) /\ moved.cfg = c
      /\ ~moving => OnLayer(moved)
  BY MoveOutputsKeeps
<1> HIDE DEF moved, moving
<1>4. Between(replaced, b.cfg.tray) /\ BesidesCommand(moved, replaced)
  BY <1>3, ReplaceStatusKeeps
<1> HIDE DEF replaced
<1>5. Settled(tuned) /\ BesidesFds(replaced, tuned)
  BY <1>2, <1>4, ReplaceTrayKeeps
<1> HIDE DEF tuned
<1>6. tuned.cfg = c /\ (~moving => OnLayer(tuned))
  BY <1>3, <1>4, <1>5 DEF OnLayer, BesidesCommand, BesidesFds
<1>7. /\ Between(listed, c.tray) /\ listed.cfg = c
      /\ ~moving /\ listed.life = "running" => OnLayer(listed)
  <2>1. Between(tuned, c.tray)
    BY <1>5, <1>6 DEF Settled
  <2>2. CASE c.buttons /\ tuned.life = "running"
    <3>1. listed = IpcGetWorkspaces(tuned, urgent)
      BY <2>2
    <3> HIDE DEF listed
    <3>2. /\ Between(listed, c.tray) /\ listed.cfg = tuned.cfg
          /\ listed.life = "running" => (OnLayer(tuned) => Follows(listed))
      BY <2>1, <3>1, IpcGetWorkspacesKeeps
    <3>3. Follows(listed) => OnLayer(listed)
      BY DEF Follows, OnLayer
    <3> QED
      BY <1>6, <3>2, <3>3 DEF listed
  <2>3. CASE ~(c.buttons /\ tuned.life = "running")
    <3>1. listed = tuned
      BY <2>3
    <3> HIDE DEF listed
    <3> QED
      BY <1>6, <2>1, <3>1 DEF listed
  <2> QED
    BY <2>2, <2>3
<1> HIDE DEF listed
<1>8. /\ Between(after, c.tray) /\ after.cfg = c
      /\ after.life = "running" => Dues(after) /\ Follows(after)
  BY <1>2, <1>7, DetermineVisibilityKeeps
<1> HIDE DEF after
<1>9. Settled(after)
  BY <1>8 DEF Settled
<1> QED
  BY <1>1, <1>8, <1>9, WholeAgain, SetBarDirtyWhole DEF t

LEMMA IpcReadableWhole ==
  ASSUME NEW b, Whole(b), b.life = "running", NEW t \in HandleIpcReadable(b)
  PROVE  Whole(t)
BY WorkspaceEventWhole, ModeEventWhole, BarStateWhole, BarconfigWhole DEF HandleIpcReadable

\* The header of a command says how it wants to be stopped; until then it has not said.
LEMMA StatusInWhole ==
  ASSUME NEW b, Whole(b), b.life = "running", NEW t \in StatusIn(b)
  PROVE  Whole(t)
<1>1. Settled(b) /\ Follows(b) /\ b.status \in StatusType /\ b \in BarType /\ Command(b)
  BY WholeSettled DEF Whole, Typed, BarType
<1>2. CASE t = SetBarDirty(StatusError(b))
  <2> DEFINE s == StatusError(b)
  <2>1. Settled(s) /\ BesidesCommand(b, s) /\ s.life = b.life
    BY <1>1, StatusErrorKeeps
  <2> HIDE DEF s
  <2>2. Follows(s)
    BY <1>1, <2>1 DEF Follows, BesidesCommand, Used
  <2> QED
    BY <1>2, <2>1, <2>2, SetBarDirtyWhole DEF s
<1>3. ASSUME NEW status \in StatusType, status.open = b.status.open,
             status.protocol # "undef", status.process = b.status.process,
             status.custom \/ status.custom = b.status.custom
      PROVE  Whole(SetBarDirty([b EXCEPT !.status = status]))
  <2> DEFINE s == [b EXCEPT !.status = status]
  <2>1. /\ s \in BarType /\ s.cfg = b.cfg /\ s.visible = b.visible /\ s.life = b.life
        /\ s.seen = b.seen /\ s.out = b.out /\ s.status = status /\ s.fds = b.fds
        /\ s.ready = b.ready
    BY <1>1, <1>3 DEF BarType
  <2> HIDE DEF s
  <2>2. Command(s)
    BY <1>1, <1>3, <2>1 DEF Command
  <2>3. Watched(s, s.cfg.tray)
    BY <1>3, <2>1 DEF Whole, Watched
  <2>4. Settled(s)
    BY <1>1, <2>1, <2>2, <2>3 DEF Settled, Between, Typed, Calm
  <2>5. Follows(s)
    BY <1>1, <2>1 DEF Follows, Used
  <2> QED
    BY <2>4, <2>5, SetBarDirtyWhole DEF s
<1>4. ASSUME b.status.protocol = "undef", NEW q \in BOOLEAN,
             t = SetBarDirty([b EXCEPT !.status.protocol = "i3bar", !.status.custom = q])
      PROVE  Whole(t)
  <2> DEFINE status == [b.status EXCEPT !.protocol = "i3bar", !.custom = q]
  <2>0. ~b.status.custom
    BY <1>1, <1>4 DEF Command
  <2>1. /\ status \in StatusType /\ status.open = b.status.open
        /\ status.protocol # "undef" /\ status.process = b.status.process
        /\ status.custom \/ status.custom = b.status.custom
    <3>1. b.status.custom = FALSE
      BY <1>1, <2>0 DEF StatusType
    <3>2. /\ status \in StatusType /\ status.open = b.status.open /\ status.protocol = "i3bar"
          /\ status.process = b.status.process /\ status.custom = q
      BY <1>1 DEF StatusType
    <3> QED
      BY <3>1, <3>2
  <2>2. t = SetBarDirty([b EXCEPT !.status = status])
    BY <1>1, <1>4 DEF BarType, StatusType
  <2> HIDE DEF status
  <2> QED
    BY <1>3, <2>1, <2>2
<1>5. ASSUME t = SetBarDirty([b EXCEPT !.status.protocol = "text"])
      PROVE  Whole(t)
  <2> DEFINE status == [b.status EXCEPT !.protocol = "text"]
  <2>1. /\ status \in StatusType /\ status.open = b.status.open
        /\ status.protocol # "undef" /\ status.process = b.status.process
        /\ status.custom \/ status.custom = b.status.custom
    BY <1>1 DEF StatusType
  <2>2. t = SetBarDirty([b EXCEPT !.status = status])
    BY <1>1, <1>5
  <2> HIDE DEF status
  <2> QED
    BY <1>3, <2>1, <2>2
<1>6. CASE t = SetBarDirty(b) \/ t = b
  BY <1>1, <1>6, SetBarDirtyWhole
<1> QED
  BY <1>2, <1>4, <1>5, <1>6 DEF StatusIn

------------------------------------------------------------------------------
LEMMA SetOutputKeeps ==
  ASSUME NEW b, NEW tray, Between(b, tray), NEW o \in Outputs, NEW r \in OutType,
         b.life = "running" => CalmOut(r)
  PROVE  LET t == SetOutput(b, o, r)
         IN  /\ Between(t, tray) /\ BesidesOut(b, t) /\ t.out[o] = r
             /\ \A p \in Outputs : p # o => t.out[p] = b.out[p]
<1> DEFINE out == [b.out EXCEPT ![o] = r]
           t == SetOutput(b, o, r)
<1>1. b \in BarType /\ b.out \in [Outputs -> OutType] /\ Len(b.ready) = Len(b.fds)
  BY DEF Between, Typed, BarType
<1>2. /\ out \in [Outputs -> OutType] /\ out[o] = r
      /\ \A p \in Outputs : p # o => out[p] = b.out[p]
  BY <1>1
<1>3. t = WithOut(b, out)
  BY DEF SetOutput, WithOut
<1> HIDE DEF out, t
<1>4. t \in BarType /\ BesidesOut(b, t) /\ t.out = out
  BY <1>1, <1>2, <1>3, WithOutKeeps
<1>5. Calm(b) /\ b.life = "running" => Calm(t)
  BY <1>2, <1>4 DEF Calm
<1>6. Between(t, tray)
  BY <1>1, <1>4, <1>5, BesidesOutKeeps DEF Between, Typed, BesidesOut
<1> QED
  BY <1>2, <1>4, <1>6 DEF t

\* One output changes, its place and its layer surface as they should be.
LEMMA OneOutputWhole ==
  ASSUME NEW b, Whole(b), b.life = "running", NEW o \in Outputs, NEW r \in OutType,
         CalmOut(r), r.layer # NoLayer => Due(r),
         r.layer = IF r.place = "used" /\ b.visible THEN LayerFor(b.cfg) ELSE NoLayer
  PROVE  Whole(SetOutput(b, o, r))
<1> DEFINE t == SetOutput(b, o, r)
<1>1. Settled(b) /\ Dues(b) /\ Follows(b)
  BY WholeSettled DEF Whole
<1>2. /\ Between(t, b.cfg.tray) /\ BesidesOut(b, t) /\ t.out[o] = r
      /\ \A p \in Outputs : p # o => t.out[p] = b.out[p]
  BY <1>1, SetOutputKeeps DEF Settled
<1> HIDE DEF t
<1>3. Dues(t)
  BY <1>1, <1>2 DEF Dues
<1>4. Follows(t)
  <2>1. ASSUME NEW p \in Outputs
        PROVE  t.out[p].layer = IF p \in Used(t) /\ t.visible THEN LayerFor(t.cfg) ELSE NoLayer
    BY <1>1, <1>2, <2>1 DEF Follows, Used, BesidesOut
  <2> QED
    BY <1>1, <1>2, <2>1 DEF Follows, BesidesOut
<1>5. Settled(t)
  BY <1>2 DEF Settled, BesidesOut
<1> QED
  BY <1>3, <1>4, <1>5, WholeAgain DEF t

\* One whose place and layer surface stay as they are.
LEMMA SameOutWhole ==
  ASSUME NEW b, Whole(b), b.life = "running", NEW o \in Outputs, NEW r \in OutType,
         CalmOut(r), r.layer # NoLayer => Due(r), SameOut(b.out[o], r)
  PROVE  Whole(SetOutput(b, o, r))
<1>1. r.layer = IF r.place = "used" /\ b.visible THEN LayerFor(b.cfg) ELSE NoLayer
  BY DEF Whole, Follows, Used, SameOut
<1> QED
  BY <1>1, OneOutputWhole

LEMMA BlankIsCalm == Blank \in OutType /\ CalmOut(Blank) /\ Blank.layer = NoLayer
BY DEF Blank, OutType, CalmOut

LEMMA GlobalWhole ==
  ASSUME NEW b, Whole(b), b.life = "running", NEW o \in Outputs,
         NEW t \in HandleGlobal(b, o) \cup OutputFree(b, o)
  PROVE  Whole(t)
<1> DEFINE r == [Blank EXCEPT !.place = "bound"]
<1>1. r \in OutType /\ CalmOut(r) /\ r.layer = NoLayer /\ r.place = "bound"
  BY BlankIsCalm DEF OutType, CalmOut
<1>2. Blank.place = "absent"
  BY DEF Blank
<1>3. t = SetOutput(b, o, r) \/ t = SetOutput(b, o, Blank)
  BY DEF HandleGlobal, OutputFree
<1> HIDE DEF r
<1>4. Whole(SetOutput(b, o, r))
  BY <1>1, OneOutputWhole
<1>5. Whole(SetOutput(b, o, Blank))
  BY <1>2, BlankIsCalm, OneOutputWhole
<1> QED
  BY <1>3, <1>4, <1>5

LEMMA XdgDoneWhole ==
  ASSUME NEW b, Whole(b), b.life = "running", NEW o \in Outputs, NEW t \in XdgDone(b, o)
  PROVE  Whole(t)
<1>1. PICK u \in BOOLEAN : b.out[o].place = "bound" /\ t = XdgOutputHandleDone(b, o, u)
  BY DEF XdgDone
<1>2. b.out[o] \in OutType /\ CalmOut(b.out[o]) /\ b.out[o].layer = NoLayer
  BY <1>1 DEF Whole, Typed, BarType, Calm, CalmOut
<1>3. CASE ~Uses(b.cfg, o)
  <2> DEFINE r == [b.out[o] EXCEPT !.place = "unused"]
  <2>1. r \in OutType /\ CalmOut(r) /\ r.layer = NoLayer /\ r.place = "unused"
    BY <1>2 DEF OutType, CalmOut
  <2>2. t = SetOutput(b, o, r)
    BY <1>1, <1>3 DEF XdgOutputHandleDone
  <2> HIDE DEF r
  <2> QED
    BY <2>1, <2>2, OneOutputWhole
<1>4. CASE Uses(b.cfg, o)
  <2> DEFINE r == [b.out[o] EXCEPT !.place = "used", !.surface = TRUE]
             s == SetOutput(b, o, r)
             no == FALSE
             made == DetermineVisibility(s, no)
  <2>1. r \in OutType /\ CalmOut(r) /\ r.layer = NoLayer
    BY <1>2 DEF OutType, CalmOut
  <2>2. t = IF b.cfg.buttons THEN IpcGetWorkspaces(made, u) ELSE made
    BY <1>1, <1>4 DEF XdgOutputHandleDone
  <2>3. no \in BOOLEAN
    OBVIOUS
  <2> HIDE DEF r, no
  <2>4. Settled(b) /\ OnLayer(b)
    BY WholeSettled
  <2>5. /\ Between(s, b.cfg.tray) /\ BesidesOut(b, s) /\ s.out[o] = r
        /\ \A p \in Outputs : p # o => s.out[p] = b.out[p]
    BY <2>1, <2>4, SetOutputKeeps DEF Settled
  <2> HIDE DEF s
  <2>6. OnLayer(s)
    BY <2>1, <2>4, <2>5 DEF OnLayer, BesidesOut
  <2>7. /\ Between(made, b.cfg.tray) /\ made.cfg = s.cfg
        /\ made.life = "running" => Dues(made) /\ Follows(made)
    BY <2>3, <2>5, <2>6, DetermineVisibilityKeeps
  <2> HIDE DEF made
  <2>8. made.cfg = b.cfg /\ Settled(made)
    BY <2>5, <2>7 DEF Settled, BesidesOut
  <2>9. CASE ~b.cfg.buttons
    BY <2>2, <2>7, <2>8, <2>9, WholeAgain
  <2>10. CASE b.cfg.buttons
    <3>1. t = IpcGetWorkspaces(made, u)
      BY <2>2, <2>10
    <3>2. Follows(made) => OnLayer(made)
      BY DEF Follows, OnLayer
    <3>3. /\ Between(t, b.cfg.tray) /\ t.cfg = made.cfg
          /\ t.life # "running" \/ made.life = "running"
          /\ t.life = "running" => Dues(t) /\ (OnLayer(made) => Follows(t))
      BY <2>7, <3>1, IpcGetWorkspacesKeeps
    <3>4. Settled(t)
      BY <2>8, <3>3 DEF Settled
    <3> QED
      BY <2>7, <3>2, <3>3, <3>4, WholeAgain
  <2> QED
    BY <2>9, <2>10
<1> QED
  BY <1>3, <1>4

LEMMA ConfigureWhole ==
  ASSUME NEW b, Whole(b), b.life = "running", NEW o \in Outputs,
         NEW t \in LayerSurfaceConfigure(b, o)
  PROVE  Whole(t)
<1> DEFINE r == [b.out[o] EXCEPT !.asked = FALSE, !.wide = TRUE, !.sized = TRUE]
           d == SetOutputDirty(r)
<1>1. t = SetOutput(b, o, d) /\ b.out[o].asked
  BY DEF LayerSurfaceConfigure
<1>2. b.out[o] \in OutType /\ CalmOut(b.out[o])
  BY DEF Whole, Typed, BarType, Calm
<1>3. r \in OutType /\ CalmOut(r) /\ SameOut(b.out[o], r)
  BY <1>1, <1>2 DEF OutType, CalmOut, SameOut
<1> HIDE DEF r
<1>4. /\ d \in OutType /\ SameOut(r, d)
      /\ CalmOut(r) => CalmOut(d) /\ (r.layer # NoLayer => Due(d))
  BY <1>3, SetOutputDirtyKeeps
<1> HIDE DEF d
<1>5. SameOut(b.out[o], d) /\ (d.layer # NoLayer => Due(d))
  BY <1>3, <1>4 DEF SameOut
<1> QED
  BY <1>1, <1>3, <1>4, <1>5, SameOutWhole

LEMMA FrameDoneWhole ==
  ASSUME NEW b, Whole(b), b.life = "running", NEW o \in Outputs, NEW t \in FrameDone(b, o)
  PROVE  Whole(t)
<1> DEFINE r == [b.out[o] EXCEPT !.frames = 0]
           first == OutputFrameDone(r)
           second == OutputFrameDone(first)
<1>1. t = SetOutput(b, o, first) \/ t = SetOutput(b, o, second)
  BY DEF FrameDone
<1>2. /\ b.out[o] \in OutType /\ CalmOut(b.out[o])
      /\ b.out[o].layer # NoLayer => Due(b.out[o])
  BY DEF Whole, Typed, BarType, Calm, Dues
<1>3. /\ r \in OutType /\ SameOut(b.out[o], r) /\ r.wide = b.out[o].wide
      /\ r.sized = b.out[o].sized /\ r.asked = b.out[o].asked
      /\ r.scheduled = b.out[o].scheduled /\ r.dirty = b.out[o].dirty
      /\ r.drawn = b.out[o].drawn
  BY <1>2 DEF OutType, SameOut
<1> HIDE DEF r
<1>4. Answered(r)
  BY <1>2, <1>3 DEF Answered, CalmOut, Due, SameOut
<1>5. /\ first \in OutType /\ SameOut(r, first) /\ CalmOut(first)
      /\ first.layer # NoLayer => Due(first)
  BY <1>3, <1>4, OutputFrameDoneKeeps
<1> HIDE DEF first
<1>6. Answered(first)
  BY <1>5 DEF Answered, CalmOut, Due
<1>7. /\ second \in OutType /\ SameOut(first, second) /\ CalmOut(second)
      /\ second.layer # NoLayer => Due(second)
  BY <1>5, <1>6, OutputFrameDoneKeeps
<1> HIDE DEF second
<1>8. SameOut(b.out[o], first) /\ SameOut(b.out[o], second)
  BY <1>3, <1>5, <1>7 DEF SameOut
<1> QED
  BY <1>1, <1>5, <1>7, <1>8, SameOutWhole

LEMMA OutputChangedWhole ==
  ASSUME NEW b, Whole(b), b.life = "running", NEW o \in Outputs, NEW t \in OutputChanged(b, o)
  PROVE  Whole(t)
<1> DEFINE r == b.out[o]
           d == SetOutputDirty(r)
           s == [r EXCEPT !.drawn = "stale"]
           n == RenderFrame(s)
<1>1. t = SetOutput(b, o, d) \/ t = SetOutput(b, o, n)
  BY DEF OutputChanged
<1>2. r \in OutType /\ CalmOut(r)
  BY DEF Whole, Typed, BarType, Calm
<1> HIDE DEF r
<1>3. s \in OutType /\ CalmOut(s) /\ SameOut(r, s)
  BY <1>2 DEF OutType, CalmOut, SameOut
<1> HIDE DEF s
<1>4. /\ d \in OutType /\ SameOut(r, d) /\ CalmOut(d) /\ (r.layer # NoLayer => Due(d))
  BY <1>2, SetOutputDirtyKeeps
<1>5. /\ n \in OutType /\ SameOut(s, n) /\ CalmOut(n) /\ (s.layer # NoLayer => Due(n))
  BY <1>3, RenderFrameKeeps
<1> HIDE DEF d, n
<1>6. /\ SameOut(b.out[o], d) /\ (d.layer # NoLayer => Due(d))
      /\ SameOut(b.out[o], n) /\ (n.layer # NoLayer => Due(n))
  BY <1>3, <1>4, <1>5 DEF SameOut, r
<1> QED
  BY <1>1, <1>4, <1>5, <1>6, SameOutWhole

LEMMA BufferReleaseWhole ==
  ASSUME NEW b, Whole(b), b.life = "running", NEW o \in Outputs, NEW t \in BufferRelease(b, o)
  PROVE  Whole(t)
<1> DEFINE busy == b.out[o].busy - 1
           r == [b.out[o] EXCEPT !.busy = busy]
<1>1. t = [b EXCEPT !.out[o].busy = busy] /\ b.out[o].busy > 0
  BY DEF BufferRelease
<1>2. /\ b.out[o] \in OutType /\ CalmOut(b.out[o])
      /\ b.out[o].layer # NoLayer => Due(b.out[o])
  BY DEF Whole, Typed, BarType, Calm, Dues
<1>3. busy \in 0 .. 2
  BY <1>1, <1>2 DEF OutType
<1> HIDE DEF busy
<1>4. t = SetOutput(b, o, r)
  BY <1>1 DEF SetOutput
<1>5. r \in OutType /\ CalmOut(r) /\ SameOut(b.out[o], r) /\ (r.layer # NoLayer => Due(r))
  BY <1>2, <1>3 DEF OutType, CalmOut, Due, SameOut
<1> HIDE DEF r
<1> QED
  BY <1>4, <1>5, SameOutWhole

LEMMA DisplayInWhole ==
  ASSUME NEW b, Whole(b), b.life = "running", NEW t \in DisplayIn(b)
  PROVE  Whole(t)
<1>1. PICK o \in Outputs :
        t \in UNION {HandleGlobal(b, o), XdgDone(b, o), OutputFree(b, o),
                     LayerSurfaceConfigure(b, o), FrameDone(b, o),
                     OutputChanged(b, o), BufferRelease(b, o)}
  BY DEF DisplayIn
<1> QED
  BY <1>1, GlobalWhole, XdgDoneWhole, ConfigureWhole, FrameDoneWhole, OutputChangedWhole,
     BufferReleaseWhole

------------------------------------------------------------------------------
\* The walk over the descriptors.
LEMMA LeastExists ==
  ASSUME NEW I \in SUBSET Nat, I # {}
  PROVE  \E x \in I : \A y \in I : x <= y
<1>1. \E x \in I : \A y \in I : <<y, x>> \notin OpToRel(<, Nat)
  BY NatLessThanWellFounded, WFMin
<1>2. PICK x \in I : \A y \in I : <<y, x>> \notin OpToRel(<, Nat)
  BY <1>1
<1>3. \A y \in I : ~(y < x)
  BY <1>2 DEF OpToRel
<1> QED
  BY <1>3

LEMMA ReadyFromBounds ==
  ASSUME NEW b, b.ready \in Seq(BOOLEAN), NEW i \in Nat
  PROVE  ReadyFrom(b, i) \in 0 .. Len(b.ready)
<1> DEFINE S == {k \in DOMAIN b.ready : k >= i /\ b.ready[k]}
           t == ReadyFrom(b, i)
<1>1. t = IF S = {} THEN 0 ELSE CHOOSE k \in S : \A m \in S : k <= m
  BY DEF ReadyFrom
<1>2. S \subseteq 1 .. Len(b.ready) /\ Len(b.ready) \in Nat
  OBVIOUS
<1> HIDE DEF S, t
<1>3. CASE S = {}
  BY <1>1, <1>2, <1>3 DEF t
<1>4. CASE S # {}
  <2>1. \E k \in S : \A m \in S : k <= m
    BY <1>2, <1>4, LeastExists
  <2>2. t \in S
    BY <1>1, <1>4, <2>1
  <2>3. t \in 1 .. Len(b.ready)
    BY <1>2, <2>2
  <2> QED
    BY <1>2, <2>3 DEF t
<1> QED
  BY <1>3, <1>4

\* An event flag for each descriptor.
LEMMA FlagsAreSeq ==
  ASSUME NEW n \in Nat, NEW f \in [1 .. n -> BOOLEAN]
  PROVE  f \in Seq(BOOLEAN) /\ Len(f) = n
OBVIOUS

WithWalk(b, ready, at) == [b EXCEPT !.ready = ready, !.at = at]

LEMMA WithWalkWhole ==
  ASSUME NEW b, Whole(b), NEW ready \in Seq(BOOLEAN), Len(ready) = Len(b.fds),
         NEW at \in 0 .. Len(b.fds)
  PROVE  LET t == WithWalk(b, ready, at)
         IN  Whole(t) /\ t.at \in 0 .. Len(t.fds)
<1> DEFINE t == WithWalk(b, ready, at)
<1>1. b \in BarType /\ b.fds \in Seq(Fds) /\ at \in Nat
  BY DEF Whole, Typed, BarType
<1>2. /\ t \in BarType /\ t.cfg = b.cfg /\ t.visible = b.visible /\ t.life = b.life
      /\ t.seen = b.seen /\ t.out = b.out /\ t.status = b.status /\ t.fds = b.fds
      /\ t.ready = ready /\ t.at = at
  BY <1>1 DEF WithWalk, BarType
<1> HIDE DEF t
<1> QED
  BY <1>2 DEF Whole, Typed, Calm, Dues, Follows, Used, Command, Watched, t

LEMMA WalkedWhole ==
  ASSUME NEW b, Whole(b), bar.at \in Nat
  PROVE  LET t == Walked(b) IN Whole(t) /\ t.at \in 0 .. Len(t.fds)
<1> DEFINE at == ReadyFrom(b, bar.at + 1)
           none == [i \in DOMAIN b.ready |-> FALSE]
           ready == IF at = 0 THEN none ELSE b.ready
           t == Walked(b)
<1>1. b.ready \in Seq(BOOLEAN) /\ Len(b.ready) = Len(b.fds)
  BY DEF Whole, Typed, BarType
<1>2. t = WithWalk(b, ready, at)
  BY DEF Walked, WithWalk
<1>3. bar.at + 1 \in Nat
  OBVIOUS
<1>4. at \in 0 .. Len(b.fds)
  BY <1>1, <1>3, ReadyFromBounds
<1>5. none \in Seq(BOOLEAN) /\ Len(none) = Len(b.fds)
  <2>1. none \in [1 .. Len(b.ready) -> BOOLEAN] /\ Len(b.ready) \in Nat
    BY <1>1
  <2> HIDE DEF none
  <2> QED
    BY <1>1, <2>1, FlagsAreSeq
<1> HIDE DEF at, none
<1>6. ready \in Seq(BOOLEAN) /\ Len(ready) = Len(b.fds)
  BY <1>1, <1>5
<1> HIDE DEF ready
<1> QED
  BY <1>2, <1>4, <1>6, WithWalkWhole

------------------------------------------------------------------------------
\* bar_setup: the loop watches no pipe and no bus yet, and nothing is on a screen.
LEMMA EmptyBarKeeps ==
  ASSUME NEW c \in Configs, NEW S \in SUBSET Outputs, NEW no, ~no,
         NEW out, out = [o \in Outputs |->
            IF o \notin S THEN Blank
            ELSE IF Uses(c, o) THEN [Blank EXCEPT !.place = "used", !.surface = TRUE]
            ELSE [Blank EXCEPT !.place = "unused"]],
         NEW b, b = [cfg |-> c, visible |-> TRUE, life |-> "running",
                     seen |-> [modifier |-> FALSE, urgency |-> FALSE, mode |-> FALSE],
                     out |-> out, status |-> NoStatus, fds |-> <<"display", "ipc">>,
                     ready |-> <<FALSE, FALSE>>, at |-> 0]
  PROVE  Between(b, no) /\ OnLayer(b)
<1>1. ASSUME NEW o \in Outputs
      PROVE  out[o] \in OutType /\ CalmOut(out[o]) /\ out[o].layer = NoLayer
  <2>1. CASE o \notin S
    BY <2>1, BlankIsCalm
  <2>2. CASE o \in S /\ Uses(c, o)
    <3>1. out[o] = [Blank EXCEPT !.place = "used", !.surface = TRUE]
      BY <2>2
    <3> QED
      BY <3>1, BlankIsCalm DEF OutType, CalmOut
  <2>3. CASE o \in S /\ ~Uses(c, o)
    <3>1. out[o] = [Blank EXCEPT !.place = "unused"]
      BY <2>3
    <3> QED
      BY <3>1, BlankIsCalm DEF OutType, CalmOut
  <2> QED
    BY <2>1, <2>2, <2>3
<1>2. out \in [Outputs -> OutType]
  BY <1>1
<1>3. /\ b.cfg = c /\ b.life = "running" /\ b.out = out /\ b.status = NoStatus
      /\ b.fds = <<"display", "ipc">> /\ b.ready = <<FALSE, FALSE>>
  OBVIOUS
<1>4. NoStatus \in StatusType
  BY DEF NoStatus, StatusType, Commands
<1>5. b \in BarType
  <2>1. <<"display", "ipc">> \in Seq(Fds) /\ <<FALSE, FALSE>> \in Seq(BOOLEAN)
    BY DEF Fds
  <2>2. [modifier |-> FALSE, urgency |-> FALSE, mode |-> FALSE] \in SeenType
    BY DEF SeenType
  <2> QED
    BY <1>2, <1>4, <2>1, <2>2 DEF BarType
<1>6. Typed(b)
  BY <1>3, <1>5 DEF Typed
<1>7. Calm(b) /\ OnLayer(b)
  BY <1>1, <1>3 DEF Calm, OnLayer
<1>8. Command(b)
  BY <1>3 DEF Command, NoStatus
<1>9. Watched(b, no)
  <2>1. DOMAIN b.fds = {1, 2} /\ b.fds[1] = "display" /\ b.fds[2] = "ipc"
    BY <1>3
  <2>2. ~b.status.open
    BY <1>3 DEF NoStatus
  <2> QED
    BY <2>1, <2>2 DEF Watched, Distinct, Range
<1> QED
  BY <1>6, <1>7, <1>8, <1>9 DEF Between

LEMMA BarSetupWhole ==
  ASSUME NEW c \in Configs, NEW S \in SUBSET Outputs, NEW urgent \in BOOLEAN
  PROVE  LET t == BarSetup(c, S, urgent) IN Whole(t) /\ t.at = 0
<1> DEFINE out == [o \in Outputs |-> IF o \notin S THEN Blank
                    ELSE IF Uses(c, o)
                    THEN [Blank EXCEPT !.place = "used", !.surface = TRUE]
                    ELSE [Blank EXCEPT !.place = "unused"]]
           empty == [cfg |-> c, visible |-> TRUE, life |-> "running",
                     seen |-> [modifier |-> FALSE, urgency |-> FALSE, mode |-> FALSE],
                     out |-> out, status |-> NoStatus, fds |-> <<"display", "ipc">>,
                     ready |-> <<FALSE, FALSE>>, at |-> 0]
           no == FALSE
           found == IF Used(empty) = {} THEN empty ELSE DetermineVisibility(empty, no)
           run == IF c.status = NoCommand THEN found ELSE StatusLineInit(found)
           tray == IF c.tray THEN LoopAddFd(run, "tray") ELSE run
           listed == IF c.buttons THEN IpcGetWorkspaces(tray, urgent) ELSE tray
           t == BarSetup(c, S, urgent)
<1>1. t = DetermineVisibility(listed, no)
  BY DEF BarSetup
<1>2. no \in BOOLEAN /\ ~no
  OBVIOUS
<1>3. empty.cfg = c /\ empty.at = 0 /\ empty.status = NoStatus
  OBVIOUS
<1>4. Between(empty, no) /\ OnLayer(empty)
  <2> HIDE DEF no
  <2> QED
    BY <1>2, EmptyBarKeeps
<1> HIDE DEF empty
<1>5. /\ Between(found, no) /\ found.cfg = c /\ found.at = 0 /\ found.status = NoStatus
      /\ found.life = "running" => OnLayer(found)
  <2>1. CASE Used(empty) = {}
    BY <1>3, <1>4, <2>1
  <2>2. CASE Used(empty) # {}
    <3>1. found = DetermineVisibility(empty, no)
      BY <2>2
    <3> HIDE DEF found, no
    <3>2. /\ Between(found, no) /\ found.cfg = empty.cfg /\ found.at = empty.at
          /\ empty.status = NoStatus => found.status = NoStatus
          /\ found.life = "running" => Follows(found)
      BY <1>2, <1>4, <3>1, DetermineVisibilityKeeps
    <3> QED
      BY <1>3, <3>2 DEF Follows, OnLayer
  <2> QED
    BY <2>1, <2>2
<1> HIDE DEF found
<1>6. /\ Between(run, no) /\ run.cfg = c /\ run.at = 0
      /\ run.life = "running" => OnLayer(run)
  <2>1. CASE c.status = NoCommand
    BY <1>5, <2>1
  <2>2. CASE c.status # NoCommand
    <3>1. run = StatusLineInit(found)
      BY <2>2
    <3> HIDE DEF run, no
    <3>2. /\ Between(run, no) /\ BesidesCommand(found, run) /\ run.life = found.life
          /\ run.at = found.at
      BY <1>5, <3>1, StatusLineInitKeeps
    <3> QED
      BY <1>5, <3>2 DEF BesidesCommand, OnLayer
  <2> QED
    BY <2>1, <2>2
<1> HIDE DEF run
<1>7. /\ Between(tray, c.tray) /\ tray.cfg = c /\ tray.at = 0
      /\ tray.life = "running" => OnLayer(tray)
  <2>1. CASE c.tray
    <3>1. tray = LoopAddFd(run, "tray")
      BY <2>1
    <3> HIDE DEF tray, no
    <3>2. Settled(tray) /\ BesidesFds(run, tray)
      BY <1>2, <1>6, <2>1, <3>1, TrayAdded
    <3> QED
      BY <1>6, <3>2 DEF BesidesFds, OnLayer, Settled
  <2>2. CASE ~c.tray
    <3>1. c.tray = no
      BY <2>2, ConfigShape
    <3> QED
      BY <1>6, <2>2, <3>1
  <2> QED
    BY <2>1, <2>2
<1> HIDE DEF tray
<1>8. /\ Between(listed, c.tray) /\ listed.cfg = c /\ listed.at = 0
      /\ listed.life = "running" => OnLayer(listed)
  <2>1. CASE ~c.buttons
    BY <1>7, <2>1
  <2>2. CASE c.buttons
    <3>1. listed = IpcGetWorkspaces(tray, urgent)
      BY <2>2
    <3> HIDE DEF listed
    <3>2. /\ Between(listed, c.tray) /\ listed.cfg = tray.cfg /\ listed.at = tray.at
          /\ listed.life # "running" \/ tray.life = "running"
          /\ listed.life = "running" => (OnLayer(tray) => Follows(listed))
      BY <1>7, <3>1, IpcGetWorkspacesKeeps
    <3> QED
      BY <1>7, <3>2 DEF Follows, OnLayer
  <2> QED
    BY <2>1, <2>2
<1> HIDE DEF listed, no, t
<1>9. /\ Between(t, c.tray) /\ t.cfg = c /\ t.at = 0
      /\ t.life # "running" \/ listed.life = "running"
      /\ t.life = "running" => Dues(t) /\ (OnLayer(listed) => Follows(t))
  BY <1>1, <1>2, <1>8, DetermineVisibilityKeeps
<1> QED
  BY <1>8, <1>9, WholeAgain DEF Settled, t

LEMMA BarInvInit == Init => BarInv
<1> SUFFICES ASSUME Init PROVE BarInv
  OBVIOUS
<1>1. PICK c \in Configs, S \in SUBSET Outputs, u \in BOOLEAN : bar = BarSetup(c, S, u)
  BY DEF Init
<1>2. Whole(bar) /\ bar.at = 0
  BY <1>1, BarSetupWhole
<1>3. Len(bar.fds) \in Nat
  BY <1>2 DEF Whole, Typed, BarType
<1> QED
  BY <1>2, <1>3 DEF BarInv

------------------------------------------------------------------------------
LEMMA PollKeeps ==
  ASSUME BarInv, Poll
  PROVE  BarInv'
<1>1. PICK S \in SUBSET DOMAIN bar.fds :
        LET polled == [bar EXCEPT !.ready = [i \in DOMAIN bar.fds |-> i \in S]]
        IN  S # {} /\ bar' = [polled EXCEPT !.at = ReadyFrom(polled, 1)]
  BY DEF Poll
<1> DEFINE ready == [i \in DOMAIN bar.fds |-> i \in S]
           polled == [bar EXCEPT !.ready = ready]
           at == ReadyFrom(polled, 1)
<1>2. Whole(bar) /\ bar \in BarType /\ bar.fds \in Seq(Fds)
  BY DEF BarInv, Whole, Typed, BarType
<1>3. ready \in Seq(BOOLEAN) /\ Len(ready) = Len(bar.fds)
  <2>1. ready \in [1 .. Len(bar.fds) -> BOOLEAN] /\ Len(bar.fds) \in Nat
    BY <1>2
  <2> HIDE DEF ready
  <2> QED
    BY <2>1, FlagsAreSeq
<1>4. bar' = [polled EXCEPT !.at = at]
  BY <1>1
<1> HIDE DEF ready
<1>5. polled.ready = ready
  BY <1>2 DEF BarType
<1> HIDE DEF polled
<1>6. at \in 0 .. Len(bar.fds)
  BY <1>3, <1>5, ReadyFromBounds
<1> HIDE DEF at
<1>7. bar' = WithWalk(bar, ready, at)
  BY <1>4 DEF WithWalk, polled
<1> QED
  BY <1>2, <1>3, <1>6, <1>7, WithWalkWhole DEF BarInv

LEMMA DispatchKeeps ==
  ASSUME BarInv, NEW fd, NEW results, Dispatch(fd, results), \A b \in results : Whole(b)
  PROVE  BarInv'
<1>1. PICK b \in results : bar' = Walked(b)
  BY DEF Dispatch
<1>2. bar.at \in Nat
  BY DEF BarInv, Whole, Typed, BarType
<1> QED
  BY <1>1, <1>2, WalkedWhole DEF BarInv

LEMMA StatusExitsKeeps ==
  ASSUME BarInv, StatusExits
  PROVE  BarInv'
<1> DEFINE status == [bar.status EXCEPT !.process = "exited"]
<1>1. Whole(bar) /\ bar \in BarType /\ bar.status \in StatusType
  BY DEF BarInv, Whole, Typed, BarType
<1>2. bar' = [bar EXCEPT !.status = status]
  BY <1>1 DEF StatusExits
<1>3. /\ status \in StatusType /\ status.process = "exited" /\ status.open = bar.status.open
      /\ status.protocol = bar.status.protocol /\ status.custom = bar.status.custom
  BY <1>1 DEF StatusType
<1> HIDE DEF status
<1>4. /\ bar' \in BarType /\ bar'.cfg = bar.cfg /\ bar'.visible = bar.visible
      /\ bar'.life = bar.life /\ bar'.seen = bar.seen /\ bar'.out = bar.out
      /\ bar'.status = status /\ bar'.fds = bar.fds /\ bar'.ready = bar.ready
      /\ bar'.at = bar.at
  BY <1>1, <1>2, <1>3 DEF BarType
<1>5. bar.life = "running" => Command(bar') /\ Watched(bar', bar'.cfg.tray)
  BY <1>1, <1>3, <1>4 DEF Whole, Command, Watched
<1> QED
  BY <1>1, <1>4, <1>5 DEF BarInv, Whole, Typed, Calm, Dues, Follows, Used

LEMMA BarInvNext ==
  ASSUME BarInv, [Next]_vars
  PROVE  BarInv'
<1>1. Whole(bar)
  BY DEF BarInv
<1>2. CASE Poll
  BY <1>2, PollKeeps
<1>3. CASE DispatchDisplay
  <2> DEFINE results == DisplayIn(bar) \cup {bar}
  <2>1. \A b \in results : Whole(b)
    BY <1>1, <1>3, DisplayInWhole DEF DispatchDisplay, Dispatch, Running
  <2>2. Dispatch("display", results)
    BY <1>3 DEF DispatchDisplay
  <2> HIDE DEF results
  <2> QED
    BY <2>1, <2>2, DispatchKeeps
<1>4. CASE DispatchIpc
  <2> DEFINE results == HandleIpcReadable(bar)
  <2>1. \A b \in results : Whole(b)
    BY <1>1, <1>4, IpcReadableWhole DEF DispatchIpc, Dispatch, Running
  <2>2. Dispatch("ipc", results)
    BY <1>4 DEF DispatchIpc
  <2> HIDE DEF results
  <2> QED
    BY <2>1, <2>2, DispatchKeeps
<1>5. CASE DispatchStatus
  <2> DEFINE results == StatusIn(bar)
  <2>1. \A b \in results : Whole(b)
    BY <1>1, <1>5, StatusInWhole DEF DispatchStatus, Dispatch, Running
  <2>2. Dispatch("status", results)
    BY <1>5 DEF DispatchStatus
  <2> HIDE DEF results
  <2> QED
    BY <2>1, <2>2, DispatchKeeps
<1>6. CASE DispatchTray
  <2> DEFINE results == {bar, SetBarDirty(bar)}
  <2>1. \A b \in results : Whole(b)
    <3>1. Settled(bar) /\ (bar.life = "running" => Follows(bar))
      BY <1>1, WholeSettled DEF Whole
    <3> QED
      BY <1>1, <3>1, SetBarDirtyWhole
  <2>2. Dispatch("tray", results)
    BY <1>6 DEF DispatchTray
  <2> HIDE DEF results
  <2> QED
    BY <2>1, <2>2, DispatchKeeps
<1>7. CASE StatusExits
  BY <1>7, StatusExitsKeeps
<1>8. CASE UNCHANGED vars
  <2>1. bar' = bar
    BY <1>8 DEF vars
  <2> QED
    BY <2>1 DEF BarInv, Whole, Typed, Calm, Dues, Follows, Used, Command, Watched
<1> QED
  BY <1>2, <1>3, <1>4, <1>5, <1>6, <1>7, <1>8 DEF Next

------------------------------------------------------------------------------
\* Between two callbacks the bar is whole: its outputs can be drawn on and are due
\* to be, its layer surfaces follow its visibility, its command and its loop agree
\* with its status line and its tray, whatever outputs and configurations there are.
THEOREM BarInvariant == Spec => []BarInv
<1>1. BarInv /\ [Next]_vars => BarInv'
  BY BarInvNext
<1> QED
  BY <1>1, BarInvInit, PTL DEF Spec

\* However key presses, urgency, binding modes, configurations and outputs come and
\* go, the bar is visible exactly when determine_bar_visibility says so, and the used
\* outputs, and no others, have a layer surface exactly then, on the mode's layer.
THEOREM LayerSurfacesFollow == Spec => []LayersFollow
<1>1. BarInv => LayersFollow
  BY DEF BarInv, Whole, Follows, LayersFollow, Running
<1> QED
  BY <1>1, BarInvariant, PTL

\* No update of an output is ever left without a configure or a frame callback that
\* will draw it (set_output_dirty, output_frame_handle_done).
THEOREM UpdatesAreDue == Spec => []UpdateOnItsWay
<1>1. BarInv => UpdateOnItsWay
  BY DEF BarInv, Whole, Dues, UpdateOnItsWay, Running
<1> QED
  BY <1>1, BarInvariant, PTL

\* The loop watches the pipe exactly while it is open and the bus exactly while there
\* is a tray, and a visible bar's command that keeps the default signals is not stopped.
THEOREM CommandFollows == Spec => []CommandInStep
<1>1. ASSUME BarInv
      PROVE  CommandInStep
  <2>1. Whole(bar) /\ bar \in BarType /\ Len(bar.ready) = Len(bar.fds)
    BY <1>1 DEF BarInv, Whole, Typed
  <2>2. TypeOK
    BY <1>1, <2>1 DEF TypeOK, BarInv, BarType, OutType, OutputOK, Fds
  <2>3. LoopMatches
    BY <2>1 DEF LoopMatches, Whole, Watched, Distinct, Running
  <2>4. NoStoppedCommand
    BY <2>1 DEF NoStoppedCommand, Whole, Command, Running
  <2> QED
    BY <2>2, <2>3, <2>4 DEF CommandInStep
<1> QED
  BY <1>1, BarInvariant, PTL

------------------------------------------------------------------------------
(***************************************************************************)
(* For any bars, applications and bounds: the trays agree about the        *)
(* watcher, whatever starts, ends and is late.                             *)
(*                                                                         *)
(* What a watcher knows of its hosts, and a host of the items, is what its *)
(* object says once the messages that wait in its inbox are handled: the   *)
(* last one that says yes or no decides, and if there is none, the object  *)
(* (Ends).                                                                 *)
(***************************************************************************)

Message ==
  [type : {"owner"}, new : Bars \cup {Nobody}]
  \cup [type : {"host"}, from : Bars] \cup [type : {"get"}, from : Bars \cup {Nobody}]
  \cup [type : {"item", "registered", "unregistered"}, item : Apps]
  \cup [type : {"items"}, items : SUBSET Apps]
  \cup [type : {"appgone"}, who : Apps] \cup [type : {"hostgone"}, who : Bars]

\* x is in X after the messages of q: the last one in Yes or No decides.
Ends(q, Yes, No, x, X) ==
  \/ x \in X /\ \A i \in DOMAIN q : q[i] \notin No
  \/ \E i \in DOMAIN q : q[i] \in Yes /\ \A j \in DOMAIN q : j > i => q[j] \notin No

Waiting(q, S) == \E i \in DOMAIN q : q[i] \in S

Comes(b) == {m \in Message : m.type = "host" /\ m.from = b}
Goes(b) == {m \in Message : m.type = "hostgone" /\ m.who = b}
Asks(b) == {m \in Message : m.type = "get" /\ m.from = b}
NewOwner == {m \in Message : m.type = "owner" /\ m.new # Nobody}
NoOwner == {m \in Message : m.type = "owner" /\ m.new = Nobody}
Says(a) == {m \in Message : \/ m.type = "registered" /\ m.item = a
                            \/ m.type = "items" /\ a \in m.items}
Unsays(a) == {m \in Message : m.type = "unregistered" /\ m.item = a}

WatcherType == [on : BOOLEAN, items : SUBSET Apps, hosts : SUBSET Bars]

TrayTyped ==
  /\ phase \in [Bars -> {"off", "named", "ready"}]
  /\ owner \in Bars \cup {Nobody}
  /\ watcher \in [Bars -> WatcherType]
  /\ shown \in [Bars -> SUBSET Apps]
  /\ apps \in [Apps -> {"new", "on", "gone"}]
  /\ inbox \in [Bars -> Seq(Message)]

\* The object of the owner, and no other, is there.
OneWatcher ==
  \A b \in Bars : IF b = owner THEN watcher[b].on /\ phase[b] # "off"
                  ELSE watcher[b] = NoWatcher

\* Only who listens is sent anything, and only an owner hears of new hosts.
Addressed(box) ==
  /\ \A b \in Bars : phase[b] = "off" => box[b] = <<>>
  /\ \A b, h \in Bars : b # owner => ~Waiting(box[b], Comes(h))
  /\ \A b, h \in Bars : Waiting(box[b], Asks(h)) => h \in Ready

\* A host that runs is known to the watcher or has yet to hear of it.
HostOf(b, qw, qb, hosts, ready) ==
  IF b \in ready
  THEN Ends(qw, Comes(b), Goes(b), b, hosts) \/ Waiting(qb, NewOwner)
  ELSE Ends(qw, Goes(b), Comes(b), b, Bars \ hosts)

HostsKnown(box, hosts) ==
  owner # Nobody => \A b \in Bars : HostOf(b, box[owner], box[b], hosts, Ready)

\* An item of the watcher is known to a host, or it has asked for all or will.
ItemOf(b, a, qw, qb, items) ==
  Ends(qb, Says(a), Unsays(a), a, items) \/ Waiting(qw, Asks(b)) \/ Waiting(qb, NewOwner)

ItemsKnown(box) ==
  owner # Nobody => \A b \in Ready : \A a \in watcher[owner].items :
    ItemOf(b, a, box[owner], box[b], shown[b])

\* Without an owner every bar that could hear of that has yet to.
OwnerSought(box) ==
  owner = Nobody => \A b \in Bars :
    /\ phase[b] = "named" => b \in late
    /\ b \in Ready \ late => Waiting(box[b], NoOwner)

TrayInv ==
  /\ TrayTyped /\ OneWatcher /\ Addressed(inbox) /\ HostsKnown(inbox, watcher[owner].hosts)
  /\ ItemsKnown(inbox) /\ OwnerSought(inbox)

------------------------------------------------------------------------------
\* Queues.
Sent(q, t, m) == t = q \/ t = Append(q, m)

LEMMA EndsAppend ==
  ASSUME NEW M, NEW q \in Seq(M), NEW m \in M, NEW Yes, NEW No, NEW x, NEW X,
         m \in Yes \/ (m \notin No /\ Ends(q, Yes, No, x, X))
  PROVE  Ends(Append(q, m), Yes, No, x, X)
<1> DEFINE t == Append(q, m)
<1>1. /\ DOMAIN t = 1 .. Len(q) + 1 /\ DOMAIN q = 1 .. Len(q) /\ Len(q) \in Nat
      /\ t[Len(q) + 1] = m /\ \A i \in 1 .. Len(q) : t[i] = q[i]
  OBVIOUS
<1> HIDE DEF t
<1>2. CASE m \in Yes
  <2>1. Len(q) + 1 \in DOMAIN t /\ \A j \in DOMAIN t : ~(j > Len(q) + 1)
    BY <1>1
  <2> QED
    BY <1>1, <1>2, <2>1 DEF Ends, t
<1>3. CASE m \notin No /\ Ends(q, Yes, No, x, X)
  <2>1. \A j \in DOMAIN t : j = Len(q) + 1 \/ j \in DOMAIN q
    BY <1>1
  <2>2. CASE x \in X /\ \A i \in DOMAIN q : q[i] \notin No
    BY <1>1, <1>3, <2>1, <2>2 DEF Ends, t
  <2>3. CASE \E i \in DOMAIN q : q[i] \in Yes /\ \A j \in DOMAIN q : j > i => q[j] \notin No
    <3>1. PICK i \in DOMAIN q : q[i] \in Yes /\ \A j \in DOMAIN q : j > i => q[j] \notin No
      BY <2>3
    <3>2. i \in DOMAIN t /\ t[i] = q[i]
      BY <1>1
    <3>3. \A j \in DOMAIN t : j > i => t[j] \notin No
      BY <1>1, <1>3, <2>1, <3>1
    <3> QED
      BY <3>1, <3>2, <3>3 DEF Ends, t
  <2> QED
    BY <1>3, <2>2, <2>3 DEF Ends
<1> QED
  BY <1>2, <1>3

LEMMA EndsSent ==
  ASSUME NEW M, NEW q \in Seq(M), NEW m \in M, NEW t, Sent(q, t, m), NEW Yes, NEW No,
         NEW x, NEW X, m \notin No, Ends(q, Yes, No, x, X)
  PROVE  Ends(t, Yes, No, x, X)
BY EndsAppend DEF Sent

LEMMA EndsTail ==
  ASSUME NEW M, NEW q \in Seq(M), q # <<>>, NEW Yes, NEW No, NEW x, NEW X, NEW Y,
         Ends(q, Yes, No, x, X),
         Head(q) \in Yes => x \in Y,
         x \in X /\ Head(q) \notin No => x \in Y
  PROVE  Ends(Tail(q), Yes, No, x, Y)
<1> DEFINE t == Tail(q)
<1>1. /\ DOMAIN t = 1 .. Len(q) - 1 /\ DOMAIN q = 1 .. Len(q) /\ Len(q) \in Nat /\ Len(q) > 0
      /\ Head(q) = q[1] /\ \A i \in 1 .. Len(q) - 1 : t[i] = q[i + 1]
  OBVIOUS
<1> HIDE DEF t
<1>2. \A i \in DOMAIN t : i + 1 \in DOMAIN q /\ t[i] = q[i + 1] /\ i + 1 > 1
  BY <1>1
<1>3. CASE x \in X /\ \A i \in DOMAIN q : q[i] \notin No
  <2>1. Head(q) \notin No
    BY <1>1, <1>3
  <2> QED
    BY <1>2, <1>3, <2>1 DEF Ends, t
<1>4. CASE \E i \in DOMAIN q : q[i] \in Yes /\ \A j \in DOMAIN q : j > i => q[j] \notin No
  <2>1. PICK i \in DOMAIN q : q[i] \in Yes /\ \A j \in DOMAIN q : j > i => q[j] \notin No
    BY <1>4
  <2>2. CASE i = 1
    <3>1. x \in Y
      BY <1>1, <2>1, <2>2
    <3> QED
      BY <1>2, <2>1, <2>2, <3>1 DEF Ends, t
  <2>3. CASE i # 1
    <3>1. i - 1 \in DOMAIN t /\ t[i - 1] = q[i]
      BY <1>1, <2>1, <2>3
    <3>2. ASSUME NEW j \in DOMAIN t, j > i - 1
          PROVE  t[j] \notin No
      <4>1. j + 1 > i
        BY <1>1, <2>1, <3>2
      <4> QED
        BY <1>2, <2>1, <4>1
    <3> QED
      BY <2>1, <3>1, <3>2 DEF Ends, t
  <2> QED
    BY <2>2, <2>3
<1> QED
  BY <1>3, <1>4 DEF Ends

LEMMA WaitingAppend ==
  ASSUME NEW M, NEW q \in Seq(M), NEW m \in M, NEW S
  PROVE  Waiting(Append(q, m), S) <=> Waiting(q, S) \/ m \in S
<1> DEFINE t == Append(q, m)
<1>1. /\ DOMAIN t = 1 .. Len(q) + 1 /\ DOMAIN q = 1 .. Len(q) /\ Len(q) \in Nat
      /\ t[Len(q) + 1] = m /\ \A i \in 1 .. Len(q) : t[i] = q[i]
  OBVIOUS
<1> HIDE DEF t
<1>2. ASSUME Waiting(t, S) PROVE Waiting(q, S) \/ m \in S
  <2>1. PICK i \in DOMAIN t : t[i] \in S
    BY <1>2 DEF Waiting
  <2>2. i = Len(q) + 1 \/ i \in DOMAIN q
    BY <1>1, <2>1
  <2> QED
    BY <1>1, <2>1, <2>2 DEF Waiting
<1>3. ASSUME Waiting(q, S) PROVE Waiting(t, S)
  <2>1. PICK i \in DOMAIN q : q[i] \in S
    BY <1>3 DEF Waiting
  <2>2. i \in DOMAIN t /\ t[i] = q[i]
    BY <1>1, <2>1
  <2> QED
    BY <2>1, <2>2 DEF Waiting
<1>4. ASSUME m \in S PROVE Waiting(t, S)
  <2>1. Len(q) + 1 \in DOMAIN t
    BY <1>1
  <2> QED
    BY <1>1, <1>4, <2>1 DEF Waiting
<1> QED
  BY <1>2, <1>3, <1>4 DEF t

LEMMA WaitingSent ==
  ASSUME NEW M, NEW q \in Seq(M), NEW m \in M, NEW t, Sent(q, t, m), NEW S
  PROVE  /\ Waiting(q, S) => Waiting(t, S)
         /\ Waiting(t, S) => Waiting(q, S) \/ m \in S
BY WaitingAppend DEF Sent

LEMMA WaitingTail ==
  ASSUME NEW M, NEW q \in Seq(M), q # <<>>, NEW S
  PROVE  /\ Waiting(Tail(q), S) => Waiting(q, S)
         /\ Waiting(q, S) => Waiting(Tail(q), S) \/ Head(q) \in S
         /\ Head(q) \in S => Waiting(q, S)
<1> DEFINE t == Tail(q)
<1>1. /\ DOMAIN t = 1 .. Len(q) - 1 /\ DOMAIN q = 1 .. Len(q) /\ Len(q) \in Nat /\ Len(q) > 0
      /\ Head(q) = q[1] /\ \A i \in 1 .. Len(q) - 1 : t[i] = q[i + 1]
  OBVIOUS
<1> HIDE DEF t
<1>2. ASSUME Waiting(t, S) PROVE Waiting(q, S)
  <2>1. PICK i \in DOMAIN t : t[i] \in S
    BY <1>2 DEF Waiting
  <2>2. i + 1 \in DOMAIN q /\ q[i + 1] = t[i]
    BY <1>1, <2>1
  <2> QED
    BY <2>1, <2>2 DEF Waiting
<1>3. ASSUME Waiting(q, S) PROVE Waiting(t, S) \/ Head(q) \in S
  <2>1. PICK i \in DOMAIN q : q[i] \in S
    BY <1>3 DEF Waiting
  <2>2. i = 1 \/ (i - 1 \in DOMAIN t /\ t[i - 1] = q[i])
    BY <1>1, <2>1
  <2> QED
    BY <1>1, <2>1, <2>2 DEF Waiting
<1>4. Head(q) \in S => Waiting(q, S)
  BY <1>1 DEF Waiting
<1> QED
  BY <1>2, <1>3, <1>4 DEF t

\* Calls that are answered to nobody do not count, and nothing else changes.
LEMMA UnaskedKeeps ==
  ASSUME NEW q \in Seq(Message), NEW b \in Bars
  PROVE  LET t == Unasked(q, b)
         IN  /\ t \in Seq(Message) /\ DOMAIN t = DOMAIN q
             /\ \A i \in DOMAIN q : \/ t[i] = q[i] /\ ~(q[i].type = "get" /\ q[i].from = b)
                                    \/ /\ q[i].type = "get" /\ q[i].from = b
                                       /\ t[i].type = "get" /\ t[i].from = Nobody
<1> DEFINE t == Unasked(q, b)
           no == [type |-> "get", from |-> Nobody]
<1>1. t = [i \in DOMAIN q |-> IF q[i].type = "get" /\ q[i].from = b THEN no ELSE q[i]]
  BY DEF Unasked
<1>2. no \in Message /\ no.type = "get" /\ no.from = Nobody
  BY DEF Message
<1>3. DOMAIN q = 1 .. Len(q) /\ Len(q) \in Nat /\ \A i \in DOMAIN q : q[i] \in Message
  OBVIOUS
<1> HIDE DEF t, no
<1>4. t \in [1 .. Len(q) -> Message]
  BY <1>1, <1>2, <1>3
<1>5. t \in Seq(Message)
  BY <1>3, <1>4
<1> QED
  BY <1>1, <1>2, <1>4, <1>5 DEF t

LEMMA UnaskedEnds ==
  ASSUME NEW q \in Seq(Message), NEW b \in Bars, NEW Yes, NEW No, NEW x, NEW X,
         \A m \in Yes \cup No : m.type # "get", Ends(q, Yes, No, x, X)
  PROVE  Ends(Unasked(q, b), Yes, No, x, X)
<1> DEFINE t == Unasked(q, b)
<1>1. DOMAIN t = DOMAIN q /\ \A i \in DOMAIN q : t[i] = q[i] \/ (q[i].type = "get" /\ t[i].type = "get")
  BY UnaskedKeeps
<1> HIDE DEF t
<1>2. \A i \in DOMAIN q : (q[i] \in Yes => t[i] \in Yes) /\ (t[i] \in No => q[i] \in No)
  BY <1>1
<1> QED
  BY <1>1, <1>2 DEF Ends, t

LEMMA UnaskedWaiting ==
  ASSUME NEW q \in Seq(Message), NEW b \in Bars, NEW S
  PROVE  /\ (\A m \in S : m.type # "get" \/ m.from # b) /\ Waiting(q, S) => Waiting(Unasked(q, b), S)
         /\ (\A m \in S : m.type # "get" \/ m.from # Nobody) /\ Waiting(Unasked(q, b), S) =>
              \E i \in DOMAIN q : q[i] \in S /\ ~(q[i].type = "get" /\ q[i].from = b)
<1> DEFINE t == Unasked(q, b)
<1>1. /\ DOMAIN t = DOMAIN q
      /\ \A i \in DOMAIN q : \/ t[i] = q[i] /\ ~(q[i].type = "get" /\ q[i].from = b)
                             \/ /\ q[i].type = "get" /\ q[i].from = b
                                /\ t[i].type = "get" /\ t[i].from = Nobody
  BY UnaskedKeeps
<1> HIDE DEF t
<1> QED
  BY <1>1 DEF Waiting, t

------------------------------------------------------------------------------
\* A bar takes a message.
Boxes == [Bars -> Seq(Message)]
Rest(c) == [inbox EXCEPT ![c] = Tail(inbox[c])]

LEMMA RestKeeps ==
  ASSUME inbox \in Boxes, NEW c \in Bars, inbox[c] # <<>>
  PROVE  /\ Rest(c) \in Boxes /\ Head(inbox[c]) \in Message
         /\ Rest(c)[c] = Tail(inbox[c])
         /\ \A b \in Bars : b # c => Rest(c)[b] = inbox[b]
<1>1. inbox[c] \in Seq(Message)
  BY DEF Boxes
<1>2. Tail(inbox[c]) \in Seq(Message) /\ Head(inbox[c]) \in Message
  BY <1>1
<1> QED
  BY <1>2 DEF Rest, Boxes

LEMMA TakeEnds ==
  ASSUME inbox \in Boxes, NEW c \in Bars, inbox[c] # <<>>, NEW w \in Bars, NEW Yes, NEW No,
         NEW x, NEW X, NEW Y, Ends(inbox[w], Yes, No, x, X),
         c = w /\ Head(inbox[c]) \in Yes => x \in Y,
         x \in X /\ ~(c = w /\ Head(inbox[c]) \in No) => x \in Y
  PROVE  Ends(Rest(c)[w], Yes, No, x, Y)
<1>1. CASE c = w
  <2>1. inbox[c] \in Seq(Message) /\ Rest(c)[w] = Tail(inbox[c])
    BY <1>1, RestKeeps DEF Boxes
  <2> QED
    BY <1>1, <2>1, EndsTail
<1>2. CASE c # w
  <2>1. Rest(c)[w] = inbox[w]
    BY <1>2, RestKeeps
  <2> QED
    BY <1>2, <2>1 DEF Ends
<1> QED
  BY <1>1, <1>2

LEMMA TakeWaiting ==
  ASSUME inbox \in Boxes, NEW c \in Bars, inbox[c] # <<>>, NEW w \in Bars, NEW S
  PROVE  /\ Waiting(Rest(c)[w], S) => Waiting(inbox[w], S)
         /\ Waiting(inbox[w], S) /\ ~(c = w /\ Head(inbox[c]) \in S) => Waiting(Rest(c)[w], S)
<1>1. CASE c = w
  <2>1. inbox[c] \in Seq(Message) /\ Rest(c)[w] = Tail(inbox[c])
    BY <1>1, RestKeeps DEF Boxes
  <2> QED
    BY <1>1, <2>1, WaitingTail
<1>2. CASE c # w
  <2>1. Rest(c)[w] = inbox[w]
    BY <1>2, RestKeeps
  <2> QED
    BY <1>2, <2>1
<1> QED
  BY <1>1, <1>2

\* What the watcher w notes about the host b once c took its message.
Notes(c, w, b, hosts, noted) ==
  /\ c = w /\ Head(inbox[c]) \in Comes(b) => b \in noted
  /\ c = w /\ Head(inbox[c]) \in Goes(b) => b \notin noted
  /\ ~(c = w /\ Head(inbox[c]) \in Comes(b) \cup Goes(b)) => (b \in noted <=> b \in hosts)

LEMMA ComesOrGoes ==
  ASSUME NEW m, NEW b
  PROVE  ~(m \in Comes(b) /\ m \in Goes(b))
BY DEF Comes, Goes

LEMMA TakeHost ==
  ASSUME inbox \in Boxes, NEW c \in Bars, inbox[c] # <<>>, NEW w \in Bars, NEW b \in Bars,
         NEW hosts, NEW noted, Notes(c, w, b, hosts, noted), NEW ready,
         HostOf(b, inbox[w], inbox[b], hosts, ready),
         c = b => Head(inbox[c]) \notin NewOwner
  PROVE  HostOf(b, Rest(c)[w], Rest(c)[b], noted, ready)
<1>1. CASE b \in ready /\ Waiting(inbox[b], NewOwner)
  <2>1. Waiting(Rest(c)[b], NewOwner)
    BY <1>1, TakeWaiting
  <2> QED
    BY <1>1, <2>1 DEF HostOf
<1>2. CASE b \in ready /\ Ends(inbox[w], Comes(b), Goes(b), b, hosts)
  <2>1. /\ c = w /\ Head(inbox[c]) \in Comes(b) => b \in noted
        /\ b \in hosts /\ ~(c = w /\ Head(inbox[c]) \in Goes(b)) => b \in noted
    BY DEF Notes
  <2>2. Ends(Rest(c)[w], Comes(b), Goes(b), b, noted)
    BY <1>2, <2>1, TakeEnds
  <2> QED
    BY <1>2, <2>2 DEF HostOf
<1>3. CASE b \notin ready
  <2> DEFINE others == Bars \ hosts
             unnoted == Bars \ noted
  <2>1. Ends(inbox[w], Goes(b), Comes(b), b, others)
    BY <1>3 DEF HostOf
  <2>2. /\ c = w /\ Head(inbox[c]) \in Goes(b) => b \in unnoted
        /\ b \in others /\ ~(c = w /\ Head(inbox[c]) \in Comes(b)) => b \in unnoted
    BY DEF Notes
  <2> HIDE DEF others, unnoted
  <2>3. Ends(Rest(c)[w], Goes(b), Comes(b), b, unnoted)
    BY <2>1, <2>2, TakeEnds
  <2> QED
    BY <1>3, <2>3 DEF HostOf, unnoted
<1> QED
  BY <1>1, <1>2, <1>3 DEF HostOf

LEMMA TakeItem ==
  ASSUME inbox \in Boxes, NEW c \in Bars, inbox[c] # <<>>, NEW w \in Bars, NEW b \in Bars,
         NEW a, NEW items, NEW known, ItemOf(b, a, inbox[w], inbox[b], items),
         c = b /\ Head(inbox[c]) \in Says(a) => a \in known,
         a \in items /\ ~(c = b /\ Head(inbox[c]) \in Unsays(a)) => a \in known,
         ~(c = w /\ Head(inbox[c]) \in Asks(b)), c = b => Head(inbox[c]) \notin NewOwner
  PROVE  ItemOf(b, a, Rest(c)[w], Rest(c)[b], known)
<1>1. CASE Waiting(inbox[b], NewOwner)
  <2>1. Waiting(Rest(c)[b], NewOwner)
    BY <1>1, TakeWaiting
  <2> QED
    BY <2>1 DEF ItemOf
<1>2. CASE Waiting(inbox[w], Asks(b))
  <2>1. Waiting(Rest(c)[w], Asks(b))
    BY <1>2, TakeWaiting
  <2> QED
    BY <2>1 DEF ItemOf
<1>3. CASE Ends(inbox[b], Says(a), Unsays(a), a, items)
  <2>1. Ends(Rest(c)[b], Says(a), Unsays(a), a, known)
    BY <1>3, TakeEnds
  <2> QED
    BY <2>1 DEF ItemOf
<1> QED
  BY <1>1, <1>2, <1>3 DEF ItemOf

------------------------------------------------------------------------------
\* A message is sent to some bars.
SentAll(box, new, m) ==
  box \in Boxes /\ new \in Boxes /\ m \in Message /\ \A c \in Bars : Sent(box[c], new[c], m)

LEMMA BroadcastSends ==
  ASSUME NEW box \in Boxes, NEW B, NEW m \in Message
  PROVE  LET new == Broadcast(box, B, m)
         IN  /\ SentAll(box, new, m)
             /\ \A c \in Bars : new[c] = IF c \in B THEN Append(box[c], m) ELSE box[c]
<1> DEFINE new == Broadcast(box, B, m)
<1>1. \A c \in Bars : box[c] \in Seq(Message) /\ Append(box[c], m) \in Seq(Message)
  BY DEF Boxes
<1>2. new \in Boxes /\ \A c \in Bars : new[c] = IF c \in B THEN Append(box[c], m) ELSE box[c]
  BY <1>1 DEF Broadcast, Boxes
<1> QED
  BY <1>2 DEF SentAll, Sent

LEMMA SendHost ==
  ASSUME NEW box, NEW new, NEW m, SentAll(box, new, m), NEW w \in Bars, NEW b \in Bars,
         NEW hosts, NEW ready, HostOf(b, box[w], box[b], hosts, ready),
         m \notin Comes(b), m \notin Goes(b)
  PROVE  HostOf(b, new[w], new[b], hosts, ready)
<1>1. /\ box[w] \in Seq(Message) /\ box[b] \in Seq(Message) /\ m \in Message
      /\ Sent(box[w], new[w], m) /\ Sent(box[b], new[b], m)
  BY DEF SentAll, Boxes
<1>2. CASE b \in ready /\ Waiting(box[b], NewOwner)
  BY <1>1, <1>2, WaitingSent DEF HostOf
<1>3. CASE b \in ready /\ Ends(box[w], Comes(b), Goes(b), b, hosts)
  BY <1>1, <1>3, EndsSent DEF HostOf
<1>4. CASE b \notin ready
  <2> DEFINE others == Bars \ hosts
  <2>1. Ends(box[w], Goes(b), Comes(b), b, others)
    BY <1>4 DEF HostOf
  <2> HIDE DEF others
  <2>2. Ends(new[w], Goes(b), Comes(b), b, others)
    BY <1>1, <2>1, EndsSent
  <2> QED
    BY <1>4, <2>2 DEF HostOf, others
<1> QED
  BY <1>2, <1>3, <1>4 DEF HostOf

LEMMA SendItem ==
  ASSUME NEW box, NEW new, NEW m, SentAll(box, new, m), NEW w \in Bars, NEW b \in Bars,
         NEW a, NEW items, m \notin Unsays(a), ItemOf(b, a, box[w], box[b], items)
  PROVE  ItemOf(b, a, new[w], new[b], items)
<1>1. /\ box[w] \in Seq(Message) /\ box[b] \in Seq(Message) /\ m \in Message
      /\ Sent(box[w], new[w], m) /\ Sent(box[b], new[b], m)
  BY DEF SentAll, Boxes
<1>2. CASE Waiting(box[b], NewOwner) \/ Waiting(box[w], Asks(b))
  BY <1>1, <1>2, WaitingSent DEF ItemOf
<1>3. CASE Ends(box[b], Says(a), Unsays(a), a, items)
  BY <1>1, <1>3, EndsSent DEF ItemOf
<1> QED
  BY <1>2, <1>3 DEF ItemOf

------------------------------------------------------------------------------
\* The parts of the invariant, when a bar takes a message and posts another.
Plain(m) ==
  m \in Message /\ m.type \in {"item", "registered", "unregistered", "items", "appgone"}

LEMMA PlainMessages ==
  ASSUME NEW m, Plain(m), NEW b
  PROVE  m \notin Comes(b) /\ m \notin Goes(b) /\ m \notin Asks(b)
         /\ m \notin NewOwner /\ m \notin NoOwner
BY DEF Plain, Comes, Goes, Asks, NewOwner, NoOwner

LEMMA TypedBoxes ==
  ASSUME TrayTyped
  PROVE  inbox \in Boxes /\ Ready \subseteq Bars
BY DEF TrayTyped, Boxes, Ready

LEMMA TakenAddressed ==
  ASSUME TrayTyped, Addressed(inbox), NEW c \in Bars, inbox[c] # <<>>
  PROVE  Addressed(Rest(c))
<1>1. ASSUME NEW b \in Bars, phase[b] = "off"
      PROVE  Rest(c)[b] = <<>>
  <2>1. inbox[b] = <<>>
    BY <1>1 DEF Addressed
  <2> QED
    BY <2>1, TypedBoxes, RestKeeps
<1>2. ASSUME NEW b \in Bars, NEW h \in Bars, b # owner
      PROVE  ~Waiting(Rest(c)[b], Comes(h))
  <2>1. ~Waiting(inbox[b], Comes(h))
    BY <1>2 DEF Addressed
  <2> QED
    BY <2>1, TypedBoxes, TakeWaiting
<1>3. ASSUME NEW b \in Bars, NEW h \in Bars, Waiting(Rest(c)[b], Asks(h))
      PROVE  h \in Ready
  <2>1. Waiting(inbox[b], Asks(h))
    BY <1>3, TypedBoxes, TakeWaiting
  <2> QED
    BY <2>1 DEF Addressed
<1> QED
  BY <1>1, <1>2, <1>3 DEF Addressed

LEMMA TakenHosts ==
  ASSUME TrayTyped, NEW c \in Bars, inbox[c] # <<>>, Head(inbox[c]) \notin NewOwner,
         NEW hosts, NEW noted, HostsKnown(inbox, hosts),
         \A b \in Bars : Notes(c, owner, b, hosts, noted)
  PROVE  HostsKnown(Rest(c), noted)
<1>1. ASSUME owner # Nobody, NEW b \in Bars
      PROVE  HostOf(b, Rest(c)[owner], Rest(c)[b], noted, Ready)
  <2>1. owner \in Bars /\ HostOf(b, inbox[owner], inbox[b], hosts, Ready)
    BY <1>1 DEF HostsKnown, TrayTyped
  <2>2. Notes(c, owner, b, hosts, noted)
    OBVIOUS
  <2> DEFINE ready == Ready
  <2>3. HostOf(b, inbox[owner], inbox[b], hosts, ready)
    BY <2>1
  <2> HIDE DEF ready
  <2>4. HostOf(b, Rest(c)[owner], Rest(c)[b], noted, ready)
    BY <2>1, <2>2, <2>3, TypedBoxes, TakeHost
  <2> QED
    BY <2>4 DEF ready
<1> QED
  BY <1>1 DEF HostsKnown

LEMMA TakenSought ==
  ASSUME TrayTyped, NEW c \in Bars, inbox[c] # <<>>, OwnerSought(inbox),
         owner # Nobody \/ Head(inbox[c]) \notin NoOwner
  PROVE  OwnerSought(Rest(c))
<1>1. ASSUME owner = Nobody, NEW b \in Ready \ late
      PROVE  Waiting(Rest(c)[b], NoOwner)
  <2>1. b \in Bars /\ Waiting(inbox[b], NoOwner)
    BY <1>1, TypedBoxes DEF OwnerSought
  <2> QED
    BY <1>1, <2>1, TypedBoxes, TakeWaiting
<1> QED
  BY <1>1 DEF OwnerSought

LEMMA PostedAddressed ==
  ASSUME NEW box, NEW new, NEW m, SentAll(box, new, m), Addressed(box),
         \A b \in Bars : phase[b] = "off" => new[b] = box[b],
         \A h \in Bars : m \notin Comes(h) /\ m \notin Asks(h)
  PROVE  Addressed(new)
<1>1. ASSUME NEW b \in Bars
      PROVE  /\ box[b] \in Seq(Message) /\ m \in Message /\ Sent(box[b], new[b], m)
  BY DEF SentAll, Boxes
<1>2. ASSUME NEW b \in Bars, NEW h \in Bars, b # owner
      PROVE  ~Waiting(new[b], Comes(h))
  <2>1. ~Waiting(box[b], Comes(h))
    BY <1>2 DEF Addressed
  <2> QED
    BY <1>1, <2>1, WaitingSent
<1>3. ASSUME NEW b \in Bars, NEW h \in Bars, Waiting(new[b], Asks(h))
      PROVE  h \in Ready
  <2>1. Waiting(box[b], Asks(h))
    BY <1>1, <1>3, WaitingSent
  <2> QED
    BY <2>1 DEF Addressed
<1> QED
  BY <1>2, <1>3 DEF Addressed

LEMMA PostedHosts ==
  ASSUME TrayTyped, NEW box, NEW new, NEW m, SentAll(box, new, m), NEW hosts,
         HostsKnown(box, hosts), \A b \in Bars : m \notin Comes(b) /\ m \notin Goes(b)
  PROVE  HostsKnown(new, hosts)
<1>1. ASSUME owner # Nobody, NEW b \in Bars
      PROVE  HostOf(b, new[owner], new[b], hosts, Ready)
  <2> DEFINE ready == Ready
  <2>1. owner \in Bars /\ HostOf(b, box[owner], box[b], hosts, ready)
    BY <1>1 DEF HostsKnown, TrayTyped
  <2> HIDE DEF ready
  <2>2. HostOf(b, new[owner], new[b], hosts, ready)
    BY <2>1, SendHost
  <2> QED
    BY <2>2 DEF ready
<1> QED
  BY <1>1 DEF HostsKnown

LEMMA PostedSought ==
  ASSUME NEW box, NEW new, NEW m, SentAll(box, new, m), OwnerSought(box)
  PROVE  OwnerSought(new)
<1>1. ASSUME owner = Nobody, NEW b \in Ready \ late
      PROVE  Waiting(new[b], NoOwner)
  <2>1. b \in Bars /\ Waiting(box[b], NoOwner)
    BY <1>1 DEF OwnerSought, Ready
  <2>2. box[b] \in Seq(Message) /\ m \in Message /\ Sent(box[b], new[b], m)
    BY <2>1 DEF SentAll, Boxes
  <2> QED
    BY <2>1, <2>2, WaitingSent
<1> QED
  BY <1>1 DEF OwnerSought

\* A bar took a message, perhaps posted another, and owner and trays stayed.
LEMMA Handled ==
  ASSUME TrayInv, NEW c \in Ready, inbox[c] # <<>>, Head(inbox[c]) \notin NewOwner,
         owner # Nobody \/ Head(inbox[c]) \notin NoOwner,
         NEW m, SentAll(Rest(c), inbox', m), Plain(m),
         \A b \in Bars : phase[b] = "off" => inbox'[b] = Rest(c)[b],
         UNCHANGED <<phase, owner, late>>,
         owner # Nobody =>
           \A b \in Bars : Notes(c, owner, b, watcher[owner].hosts, watcher'[owner].hosts)
  PROVE  inbox' \in Boxes /\ Addressed(inbox)' /\ HostsKnown(inbox, watcher[owner].hosts)'
         /\ OwnerSought(inbox)'
<1> DEFINE hosts == watcher[owner].hosts
           noted == watcher'[owner].hosts
           new == inbox'
           rest == Rest(c)
<1>1. c \in Bars /\ TrayTyped /\ Addressed(inbox) /\ HostsKnown(inbox, hosts) /\ OwnerSought(inbox)
  BY TypedBoxes DEF TrayInv
<1>2. /\ \A b \in Bars : m \notin Comes(b) /\ m \notin Goes(b) /\ m \notin Asks(b)
      /\ SentAll(rest, new, m) /\ \A b \in Bars : phase[b] = "off" => new[b] = rest[b]
  BY PlainMessages
<1>3. owner # Nobody => \A b \in Bars : Notes(c, owner, b, hosts, noted)
  OBVIOUS
<1> HIDE DEF hosts, noted
<1>4. Addressed(rest) /\ OwnerSought(rest)
  BY <1>1, TakenAddressed, TakenSought
<1>5. HostsKnown(rest, noted)
  <2>1. CASE owner = Nobody
    BY <2>1 DEF HostsKnown
  <2>2. CASE owner # Nobody
    BY <1>1, <1>3, <2>2, TakenHosts
  <2> QED
    BY <2>1, <2>2
<1> HIDE DEF new, rest
<1>6. Addressed(new) /\ OwnerSought(new)
  BY <1>2, <1>4, PostedAddressed, PostedSought
<1>7. HostsKnown(new, noted)
  BY <1>1, <1>2, <1>5, PostedHosts
<1>8. new \in Boxes
  BY <1>2 DEF SentAll
<1> QED
  BY <1>6, <1>7, <1>8 DEF Addressed, OwnerSought, HostsKnown, Ready, new, noted

\* ... and what a host knew of an item.
LEMMA HandledItem ==
  ASSUME TrayInv, NEW c \in Ready, inbox[c] # <<>>,
         NEW m, SentAll(Rest(c), inbox', m), owner # Nobody, NEW b \in Ready,
         c = b => Head(inbox[c]) \notin NewOwner,
         NEW a \in watcher[owner].items, m \notin Unsays(a),
         c = b /\ Head(inbox[c]) \in Says(a) => a \in shown'[b],
         a \in shown[b] /\ ~(c = b /\ Head(inbox[c]) \in Unsays(a)) => a \in shown'[b],
         ~(c = owner /\ Head(inbox[c]) \in Asks(b))
  PROVE  ItemOf(b, a, inbox'[owner], inbox'[b], shown'[b])
<1> DEFINE rest == Rest(c)
           new == inbox'
           items == shown[b]
           known == shown'[b]
<1>1. c \in Bars /\ b \in Bars /\ owner \in Bars /\ inbox \in Boxes
  BY TypedBoxes DEF TrayInv, TrayTyped
<1>2. ItemOf(b, a, inbox[owner], inbox[b], items) /\ SentAll(rest, new, m)
  BY DEF TrayInv, ItemsKnown
<1>3. /\ c = b /\ Head(inbox[c]) \in Says(a) => a \in known
      /\ a \in items /\ ~(c = b /\ Head(inbox[c]) \in Unsays(a)) => a \in known
  OBVIOUS
<1> HIDE DEF items, known
<1>4. ItemOf(b, a, rest[owner], rest[b], known)
  BY <1>1, <1>2, <1>3, TakeItem
<1> HIDE DEF rest, new
<1>5. ItemOf(b, a, new[owner], new[b], known)
  BY <1>1, <1>2, <1>4, SendItem
<1> QED
  BY <1>5 DEF new, known

------------------------------------------------------------------------------
\* The handlers.
LEMMA Fields ==
  ASSUME NEW m \in Message
  PROVE  /\ m.type = "owner" => m.new \in Bars \cup {Nobody}
         /\ m.type = "host" => m.from \in Bars
         /\ m.type = "get" => m.from \in Bars \cup {Nobody}
         /\ m.type \in {"item", "registered", "unregistered"} => m.item \in Apps
         /\ m.type = "items" => m.items \subseteq Apps
         /\ m.type = "appgone" => m.who \in Apps
         /\ m.type = "hostgone" => m.who \in Bars
BY DEF Message

LEMMA Posts ==
  ASSUME NEW a \in Apps
  PROVE  /\ Plain([type |-> "item", item |-> a]) /\ Plain([type |-> "registered", item |-> a])
         /\ Plain([type |-> "unregistered", item |-> a]) /\ Plain([type |-> "appgone", who |-> a])
         /\ [type |-> "item", item |-> a] \notin Unsays(a)
         /\ [type |-> "registered", item |-> a] \in Says(a)
<1>1. /\ [type |-> "item", item |-> a] \in Message
      /\ [type |-> "registered", item |-> a] \in Message
      /\ [type |-> "unregistered", item |-> a] \in Message
      /\ [type |-> "appgone", who |-> a] \in Message
  BY DEF Message
<1> QED
  BY <1>1 DEF Plain, Says, Unsays

LEMMA Taking ==
  ASSUME TrayInv, NEW c \in Ready, inbox[c] # <<>>
  PROVE  /\ c \in Bars /\ Rest(c) \in Boxes /\ Head(inbox[c]) \in Message
         /\ [inbox EXCEPT ![c] = Tail(@)] = Rest(c)
         /\ \A b \in Bars : watcher[b] \in WatcherType
         /\ owner # Nobody => owner \in Bars
         /\ c # owner => watcher[c] = NoWatcher
         /\ \A b \in Bars : b \notin Ready /\ b # owner => watcher[b] = NoWatcher
         /\ TrayTyped /\ OneWatcher
<1>1. TrayTyped /\ OneWatcher /\ c \in Bars
  BY TypedBoxes DEF TrayInv
<1>2. Rest(c) \in Boxes /\ Head(inbox[c]) \in Message
  BY <1>1, TypedBoxes, RestKeeps
<1> QED
  BY <1>1, <1>2 DEF TrayTyped, OneWatcher, Rest

\* A message that nobody is sent.
LEMMA NothingSent ==
  ASSUME NEW box \in Boxes
  PROVE  \E m : /\ SentAll(box, box, m) /\ Plain(m) /\ \A a : m \notin Unsays(a)
<1> DEFINE m == [type |-> "items", items |-> {}]
<1>1. m \in Message /\ m.type = "items"
  BY DEF Message
<1> HIDE DEF m
<1>2. SentAll(box, box, m) /\ Plain(m) /\ \A a : m \notin Unsays(a)
  BY <1>1 DEF SentAll, Sent, Plain, Unsays
<1> QED
  BY <1>2

LEMMA RegisterSniKeeps ==
  ASSUME TrayInv, NEW c \in Ready, inbox[c] # <<>>, Head(inbox[c]).type = "item",
         NEW a \in Apps, RegisterSni(c, a, Rest(c)), UNCHANGED <<phase, apps, starts>>
  PROVE  TrayInv'
<1> DEFINE h == Head(inbox[c])
<1>1. /\ h.type = "item" /\ c \in Bars /\ Rest(c) \in Boxes
      /\ h \notin NewOwner /\ h \notin NoOwner
      /\ \A b : h \notin Comes(b) /\ h \notin Goes(b) /\ h \notin Asks(b)
      /\ \A x : h \notin Says(x) /\ h \notin Unsays(x)
  BY Taking DEF NewOwner, NoOwner, Comes, Goes, Asks, Says, Unsays
<1>2. UNCHANGED <<owner, shown, late, phase, apps>>
  BY DEF RegisterSni
<1> HIDE DEF h
<1>3. CASE watcher[c].on /\ a \notin watcher[c].items
  <2> DEFINE m == [type |-> "registered", item |-> a]
             w == [watcher[c] EXCEPT !.items = watcher[c].items \cup {a}]
  <2>1. c = owner /\ watcher' = [watcher EXCEPT ![c] = w] /\ inbox' = Broadcast(Rest(c), Ready, m)
    BY <1>3, Taking DEF RegisterSni, NoWatcher
  <2>2. Plain(m) /\ m \in Says(a) /\ m \in Message /\ \A x : m \notin Unsays(x)
    BY Posts DEF Plain, Unsays
  <2>3. w \in WatcherType /\ w.on /\ w.items = watcher[c].items \cup {a} /\ w.hosts = watcher[c].hosts
    BY <1>1, <1>3, Taking DEF WatcherType
  <2> HIDE DEF m, w
  <2>4. /\ SentAll(Rest(c), inbox', m)
        /\ \A b \in Bars : inbox'[b] = IF b \in Ready THEN Append(Rest(c)[b], m) ELSE Rest(c)[b]
    BY <1>1, <2>1, <2>2, BroadcastSends
  <2>5. watcher' \in [Bars -> WatcherType] /\ watcher'[owner] = w /\ OneWatcher'
    BY <1>1, <1>2, <2>1, <2>3, Taking DEF OneWatcher, TrayTyped
  <2>6. \A b \in Bars : phase[b] = "off" => inbox'[b] = Rest(c)[b]
    BY <2>4 DEF Ready
  <2>7. \A b \in Bars : Notes(c, owner, b, watcher[owner].hosts, watcher'[owner].hosts)
    BY <1>1, <2>1, <2>3, <2>5 DEF Notes, h
  <2>8. inbox' \in Boxes /\ Addressed(inbox)' /\ HostsKnown(inbox, watcher[owner].hosts)' /\ OwnerSought(inbox)'
    BY <1>1, <1>2, <2>2, <2>4, <2>6, <2>7, Handled DEF h
  <2>9. ASSUME owner # Nobody, NEW b \in Ready, NEW x \in watcher'[owner].items
        PROVE  ItemOf(b, x, inbox'[owner], inbox'[b], shown'[b])
    <3>1. CASE x = a
      <4> DEFINE q == Rest(c)[b]
      <4>1. q \in Seq(Message) /\ inbox'[b] = Append(q, m) /\ b \in Bars
        BY <1>1, <2>4 DEF Boxes, Ready
      <4> HIDE DEF q
      <4>2. Ends(Append(q, m), Says(a), Unsays(a), a, shown'[b])
        BY <2>2, <4>1, EndsAppend
      <4> QED
        BY <3>1, <4>1, <4>2 DEF ItemOf
    <3>2. CASE x # a
      <4>1. x \in watcher[owner].items
        BY <2>1, <2>3, <2>5, <2>9, <3>2
      <4> QED
        BY <1>1, <1>2, <2>2, <2>4, <2>9, <4>1, HandledItem DEF h
    <3> QED
      BY <3>1, <3>2
  <2>10. TrayTyped'
    BY <1>2, <2>5, <2>8, Taking DEF TrayTyped, Boxes
  <2> QED
    BY <1>2, <2>5, <2>8, <2>9, <2>10 DEF TrayInv, ItemsKnown, Ready
<1>4. CASE ~(watcher[c].on /\ a \notin watcher[c].items)
  <2>1. inbox' = Rest(c) /\ watcher' = watcher
    BY <1>4 DEF RegisterSni
  <2>2. PICK m : SentAll(Rest(c), inbox', m) /\ Plain(m) /\ \A x : m \notin Unsays(x)
    BY <1>1, <2>1, NothingSent
  <2>3. \A b \in Bars : Notes(c, owner, b, watcher[owner].hosts, watcher'[owner].hosts)
    BY <1>1, <2>1 DEF Notes, h
  <2>4. inbox' \in Boxes /\ Addressed(inbox)' /\ HostsKnown(inbox, watcher[owner].hosts)' /\ OwnerSought(inbox)'
    BY <1>1, <1>2, <2>1, <2>2, <2>3, Handled DEF h
  <2>5. ASSUME owner # Nobody, NEW b \in Ready, NEW x \in watcher[owner].items
        PROVE  ItemOf(b, x, inbox'[owner], inbox'[b], shown'[b])
    BY <1>1, <1>2, <2>2, <2>5, HandledItem DEF h
  <2>6. TrayTyped' /\ OneWatcher'
    BY <1>2, <2>1, <2>4, Taking DEF TrayTyped, Boxes, OneWatcher
  <2> QED
    BY <1>2, <2>1, <2>4, <2>5, <2>6 DEF TrayInv, ItemsKnown, Ready
<1> QED
  BY <1>3, <1>4

LEMMA RegisterHostKeeps ==
  ASSUME TrayInv, NEW c \in Ready, inbox[c] # <<>>, Head(inbox[c]).type = "host",
         NEW b1 \in Bars, Head(inbox[c]).from = b1, RegisterHost(c, b1, Rest(c)),
         UNCHANGED <<phase, apps, starts>>
  PROVE  TrayInv'
<1> DEFINE h == Head(inbox[c])
           w == [watcher[c] EXCEPT !.hosts = watcher[c].hosts \cup {b1}]
<1>1. /\ h.type = "host" /\ h.from = b1 /\ c \in Bars /\ Rest(c) \in Boxes
      /\ h \notin NewOwner /\ h \notin NoOwner
      /\ \A b : h \notin Goes(b) /\ h \notin Asks(b)
      /\ \A b : h \in Comes(b) <=> b = b1
      /\ \A x : h \notin Says(x) /\ h \notin Unsays(x)
  BY Taking DEF NewOwner, NoOwner, Comes, Goes, Asks, Says, Unsays
<1>2. UNCHANGED <<owner, shown, late, phase, apps>> /\ inbox' = Rest(c)
  BY DEF RegisterHost
<1>3. watcher' = IF watcher[c].on THEN [watcher EXCEPT ![c] = w] ELSE watcher
  BY DEF RegisterHost
<1>4. w \in WatcherType /\ w.on = watcher[c].on /\ w.items = watcher[c].items
      /\ w.hosts = watcher[c].hosts \cup {b1}
  BY <1>1, Taking DEF WatcherType
<1> HIDE DEF h, w
<1>5. watcher' \in [Bars -> WatcherType] /\ OneWatcher'
  BY <1>1, <1>2, <1>3, <1>4, Taking DEF OneWatcher, TrayTyped, NoWatcher
<1>6. ASSUME owner # Nobody
      PROVE  /\ watcher'[owner].items = watcher[owner].items
             /\ \A b \in Bars : Notes(c, owner, b, watcher[owner].hosts, watcher'[owner].hosts)
  <2>1. owner \in Bars /\ watcher[owner].on
    BY <1>6, Taking DEF OneWatcher
  <2>2. CASE c = owner
    <3>1. watcher'[owner] = w
      BY <1>1, <1>3, <2>1, <2>2, Taking DEF TrayTyped
    <3> QED
      BY <1>1, <1>4, <2>2, <3>1 DEF Notes, h
  <2>3. CASE c # owner
    <3>1. watcher'[owner] = watcher[owner]
      BY <1>1, <1>3, <2>1, <2>3, Taking DEF TrayTyped
    <3> QED
      BY <1>1, <2>3, <3>1 DEF Notes
  <2> QED
    BY <2>2, <2>3
<1>7. PICK m : SentAll(Rest(c), inbox', m) /\ Plain(m) /\ \A x : m \notin Unsays(x)
  BY <1>1, <1>2, NothingSent
<1>8. inbox' \in Boxes /\ Addressed(inbox)' /\ HostsKnown(inbox, watcher[owner].hosts)' /\ OwnerSought(inbox)'
  BY <1>1, <1>2, <1>6, <1>7, Handled DEF h
<1>9. ASSUME owner # Nobody, NEW b \in Ready, NEW x \in watcher'[owner].items
      PROVE  ItemOf(b, x, inbox'[owner], inbox'[b], shown'[b])
  <2>1. x \in watcher[owner].items
    BY <1>6, <1>9
  <2> QED
    BY <1>1, <1>2, <1>7, <1>9, <2>1, HandledItem DEF h
<1>10. TrayTyped'
  BY <1>2, <1>5, <1>8, Taking DEF TrayTyped, Boxes
<1> QED
  BY <1>2, <1>5, <1>8, <1>9, <1>10 DEF TrayInv, ItemsKnown, Ready

LEMMA GetRegisteredSnisKeeps ==
  ASSUME TrayInv, NEW c \in Ready, inbox[c] # <<>>, Head(inbox[c]).type = "get",
         NEW b1 \in Bars \cup {Nobody}, Head(inbox[c]).from = b1,
         GetRegisteredSnis(c, b1, Rest(c)), UNCHANGED <<phase, apps, starts>>
  PROVE  TrayInv'
<1> DEFINE h == Head(inbox[c])
           m == [type |-> "items", items |-> watcher[c].items]
<1>1. /\ h.type = "get" /\ h.from = b1 /\ c \in Bars /\ Rest(c) \in Boxes
      /\ h \notin NewOwner /\ h \notin NoOwner
      /\ \A b : h \notin Goes(b) /\ h \notin Comes(b)
      /\ \A b : b # b1 => h \notin Asks(b)
      /\ \A x : h \notin Says(x) /\ h \notin Unsays(x)
      /\ h \in Message
  BY Taking DEF NewOwner, NoOwner, Comes, Goes, Asks, Says, Unsays
<1>2. UNCHANGED <<owner, watcher, shown, late, phase, apps>>
  BY DEF GetRegisteredSnis
<1>3. b1 \in Bars => b1 \in Ready
  <2>1. b1 \in Bars => h \in Asks(b1)
    BY <1>1 DEF Asks
  <2>2. inbox[c] \in Seq(Message)
    BY <1>1, TypedBoxes, Taking DEF Boxes
  <2>3. b1 \in Bars => Waiting(inbox[c], Asks(b1))
    BY <2>1, <2>2, WaitingTail
  <2> QED
    BY <1>1, <2>3 DEF TrayInv, Addressed
<1>4. m \in Message /\ Plain(m) /\ \A x : (m \in Says(x) <=> x \in watcher[c].items) /\ m \notin Unsays(x)
  <2>1. watcher[c].items \subseteq Apps
    BY <1>1, Taking DEF WatcherType
  <2>2. m \in Message
    BY <2>1 DEF Message
  <2> QED
    BY <2>2 DEF Plain, Says, Unsays
<1> HIDE DEF h, m
<1>5. CASE watcher[c].on
  <2>1. c = owner /\ owner \in Bars
    BY <1>1, <1>5, Taking DEF NoWatcher
  <2>2. /\ SentAll(Rest(c), inbox', m)
        /\ \A b \in Bars : inbox'[b] = IF b \in {b1} THEN Append(Rest(c)[b], m) ELSE Rest(c)[b]
    BY <1>1, <1>4, <1>5, BroadcastSends DEF GetRegisteredSnis, m
  <2>3. \A b \in Bars : phase[b] = "off" => inbox'[b] = Rest(c)[b]
    BY <1>3, <2>2 DEF Ready
  <2>4. \A b \in Bars : Notes(c, owner, b, watcher[owner].hosts, watcher'[owner].hosts)
    BY <1>1, <1>2 DEF Notes, h
  <2>5. inbox' \in Boxes /\ Addressed(inbox)' /\ HostsKnown(inbox, watcher[owner].hosts)' /\ OwnerSought(inbox)'
    BY <1>1, <1>2, <1>4, <2>2, <2>3, <2>4, Handled DEF h
  <2>6. ASSUME owner # Nobody, NEW b \in Ready, NEW x \in watcher[owner].items
        PROVE  ItemOf(b, x, inbox'[owner], inbox'[b], shown'[b])
    <3>1. CASE b = b1
      <4> DEFINE q == Rest(c)[b]
      <4>1. q \in Seq(Message) /\ inbox'[b] = Append(q, m)
        BY <1>1, <2>2, <3>1 DEF Boxes, Ready
      <4>2. m \in Says(x)
        BY <1>4, <2>1, <2>6
      <4> HIDE DEF q
      <4>3. Ends(Append(q, m), Says(x), Unsays(x), x, shown'[b])
        BY <1>4, <4>1, <4>2, EndsAppend
      <4> QED
        BY <4>1, <4>3 DEF ItemOf
    <3>2. CASE b # b1
      BY <1>1, <1>2, <1>4, <2>2, <2>6, <3>2, HandledItem DEF h
    <3> QED
      BY <3>1, <3>2
  <2>7. TrayTyped' /\ OneWatcher'
    BY <1>2, <2>5, Taking DEF TrayTyped, Boxes, OneWatcher
  <2> QED
    BY <1>2, <2>5, <2>6, <2>7 DEF TrayInv, ItemsKnown, Ready
<1>6. CASE ~watcher[c].on
  <2>1. inbox' = Rest(c) /\ c # owner
    BY <1>1, <1>6, Taking DEF GetRegisteredSnis, OneWatcher
  <2>2. PICK n : SentAll(Rest(c), inbox', n) /\ Plain(n) /\ \A x : n \notin Unsays(x)
    BY <1>1, <2>1, NothingSent
  <2>3. \A b \in Bars : Notes(c, owner, b, watcher[owner].hosts, watcher'[owner].hosts)
    BY <1>1, <1>2 DEF Notes, h
  <2>4. inbox' \in Boxes /\ Addressed(inbox)' /\ HostsKnown(inbox, watcher[owner].hosts)' /\ OwnerSought(inbox)'
    BY <1>1, <1>2, <2>1, <2>2, <2>3, Handled DEF h
  <2>5. ASSUME owner # Nobody, NEW b \in Ready, NEW x \in watcher[owner].items
        PROVE  ItemOf(b, x, inbox'[owner], inbox'[b], shown'[b])
    BY <1>1, <1>2, <2>1, <2>2, <2>5, HandledItem DEF h
  <2>6. TrayTyped' /\ OneWatcher'
    BY <1>2, <2>4, Taking DEF TrayTyped, Boxes, OneWatcher
  <2> QED
    BY <1>2, <2>4, <2>5, <2>6 DEF TrayInv, ItemsKnown, Ready
<1> QED
  BY <1>5, <1>6

LEMMA HandleLostServiceKeeps ==
  ASSUME TrayInv, NEW c \in Ready, inbox[c] # <<>>,
         Head(inbox[c]).type \in {"appgone", "hostgone"}, NEW who, Head(inbox[c]).who = who,
         HandleLostService(c, who, Rest(c)), UNCHANGED <<phase, apps, starts>>
  PROVE  TrayInv'
<1> DEFINE h == Head(inbox[c])
           w == [watcher[c] EXCEPT !.items = watcher[c].items \ {who},
                                   !.hosts = watcher[c].hosts \ {who}]
           m == [type |-> "unregistered", item |-> who]
<1>1. /\ h.type \in {"appgone", "hostgone"} /\ c \in Bars /\ Rest(c) \in Boxes
      /\ h \notin NewOwner /\ h \notin NoOwner
      /\ \A b : h \notin Comes(b) /\ h \notin Asks(b)
      /\ \A b : h \in Goes(b) => b = who
      /\ \A b \in Bars : b = who => h \in Goes(b)
      /\ \A x : h \notin Says(x) /\ h \notin Unsays(x)
  <2>1. h \in Message /\ c \in Bars /\ Rest(c) \in Boxes
    BY Taking
  <2>2. h.type = "appgone" => who \notin Bars
    BY <2>1, BusNames, Fields
  <2> QED
    BY <2>1, <2>2 DEF NewOwner, NoOwner, Comes, Goes, Asks, Says, Unsays
<1>2. UNCHANGED <<owner, shown, late, phase, apps>>
  BY DEF HandleLostService
<1>3. watcher' = [watcher EXCEPT ![c] = w]
  BY <1>1, Taking DEF HandleLostService, TrayTyped, WatcherType
<1>4. w \in WatcherType /\ w.on = watcher[c].on /\ w.items = watcher[c].items \ {who}
      /\ w.hosts = watcher[c].hosts \ {who} /\ (watcher[c] = NoWatcher => w = NoWatcher)
  <2> DEFINE o == watcher[c]
             I == o.items \ {who}
             H == o.hosts \ {who}
  <2>1. /\ o \in WatcherType /\ I \in SUBSET Apps /\ H \in SUBSET Bars /\ w = [o EXCEPT !.items = I, !.hosts = H]
        /\ (o = NoWatcher => I = {} /\ H = {})
    BY <1>1, Taking DEF WatcherType, NoWatcher
  <2> HIDE DEF o, I, H, w
  <2>2. w \in WatcherType /\ w.on = o.on /\ w.items = I /\ w.hosts = H
    BY <2>1 DEF WatcherType
  <2>3. ASSUME o = NoWatcher
        PROVE  w = NoWatcher
    <3>1. w = [on |-> w.on, items |-> w.items, hosts |-> w.hosts]
      BY <2>2 DEF WatcherType
    <3>2. w.on = FALSE /\ w.items = {} /\ w.hosts = {}
      BY <2>1, <2>2, <2>3 DEF NoWatcher
    <3> QED
      BY <3>1, <3>2 DEF NoWatcher
  <2> QED
    BY <2>2, <2>3 DEF o, I, H
<1> HIDE DEF h, w
<1>5. watcher' \in [Bars -> WatcherType] /\ OneWatcher'
  BY <1>1, <1>2, <1>3, <1>4, Taking DEF OneWatcher, TrayTyped
<1>6. ASSUME owner # Nobody
      PROVE  /\ watcher'[owner].items = IF c = owner THEN watcher[owner].items \ {who} ELSE watcher[owner].items
             /\ \A b \in Bars : Notes(c, owner, b, watcher[owner].hosts, watcher'[owner].hosts)
  <2>1. owner \in Bars
    BY <1>6, Taking
  <2>2. CASE c = owner
    <3>1. watcher'[owner] = w
      BY <1>1, <1>3, <2>1, <2>2, Taking DEF TrayTyped
    <3> QED
      BY <1>1, <1>4, <2>2, <3>1 DEF Notes, h
  <2>3. CASE c # owner
    <3>1. watcher'[owner] = watcher[owner]
      BY <1>1, <1>3, <2>1, <2>3, Taking DEF TrayTyped
    <3> QED
      BY <1>1, <2>3, <3>1 DEF Notes
  <2> QED
    BY <2>2, <2>3
<1>7. \E n : /\ SentAll(Rest(c), inbox', n) /\ Plain(n)
             /\ \A x : x # who \/ c # owner => n \notin Unsays(x)
             /\ \A b \in Bars : phase[b] = "off" => inbox'[b] = Rest(c)[b]
  <2>1. CASE who \in watcher[c].items
    <3>1. who \in Apps /\ inbox' = Broadcast(Rest(c), Ready, m) /\ c = owner
      BY <1>1, <2>1, Taking DEF HandleLostService, WatcherType, NoWatcher
    <3>2. Plain(m) /\ m \in Message /\ \A x : x # who => m \notin Unsays(x)
      BY <3>1, Posts DEF Plain, Unsays
    <3> HIDE DEF m
    <3>3. /\ SentAll(Rest(c), inbox', m)
          /\ \A b \in Bars : inbox'[b] = IF b \in Ready THEN Append(Rest(c)[b], m) ELSE Rest(c)[b]
      BY <1>1, <3>1, <3>2, BroadcastSends
    <3>4. \A b \in Bars : phase[b] = "off" => inbox'[b] = Rest(c)[b]
      BY <3>3 DEF Ready
    <3> QED
      BY <3>1, <3>2, <3>3, <3>4
  <2>2. CASE who \notin watcher[c].items
    <3>1. inbox' = Rest(c)
      BY <2>2 DEF HandleLostService
    <3>2. PICK n : SentAll(Rest(c), inbox', n) /\ Plain(n) /\ \A x : n \notin Unsays(x)
      BY <1>1, <3>1, NothingSent
    <3> QED
      BY <3>1, <3>2
  <2> QED
    BY <2>1, <2>2
<1>8. PICK n : /\ SentAll(Rest(c), inbox', n) /\ Plain(n)
               /\ \A x : x # who \/ c # owner => n \notin Unsays(x)
               /\ \A b \in Bars : phase[b] = "off" => inbox'[b] = Rest(c)[b]
  BY <1>7
<1>9. inbox' \in Boxes /\ Addressed(inbox)' /\ HostsKnown(inbox, watcher[owner].hosts)' /\ OwnerSought(inbox)'
  BY <1>1, <1>2, <1>6, <1>8, Handled DEF h
<1>10. ASSUME owner # Nobody, NEW b \in Ready, NEW x \in watcher'[owner].items
       PROVE  ItemOf(b, x, inbox'[owner], inbox'[b], shown'[b])
  <2>1. x \in watcher[owner].items /\ n \notin Unsays(x)
    BY <1>6, <1>8, <1>10
  <2> QED
    BY <1>1, <1>2, <1>8, <1>10, <2>1, HandledItem DEF h
<1>11. TrayTyped'
  BY <1>2, <1>5, <1>9, Taking DEF TrayTyped, Boxes
<1> QED
  BY <1>2, <1>5, <1>9, <1>10, <1>11 DEF TrayInv, ItemsKnown, Ready

LEMMA AddSniKeeps ==
  ASSUME TrayInv, NEW c \in Ready, inbox[c] # <<>>,
         Head(inbox[c]).type \in {"registered", "items"}, NEW items \in SUBSET Apps,
         \A a : Head(inbox[c]) \in Says(a) => a \in items,
         AddSni(c, items, Rest(c)), UNCHANGED <<phase, apps, starts>>
  PROVE  TrayInv'
<1> DEFINE h == Head(inbox[c])
<1>1. /\ h.type \in {"registered", "items"} /\ c \in Bars /\ Rest(c) \in Boxes
      /\ h \notin NewOwner /\ h \notin NoOwner
      /\ \A b : h \notin Comes(b) /\ h \notin Goes(b) /\ h \notin Asks(b)
      /\ \A x : h \notin Unsays(x)
      /\ \A x : h \in Says(x) => x \in items
  BY Taking DEF NewOwner, NoOwner, Comes, Goes, Asks, Unsays
<1>2. UNCHANGED <<owner, watcher, late, phase, apps>> /\ inbox' = Rest(c)
      /\ shown' = [shown EXCEPT ![c] = shown[c] \cup items]
  BY DEF AddSni
<1> HIDE DEF h
<1>3. shown' \in [Bars -> SUBSET Apps] /\ shown'[c] = shown[c] \cup items
      /\ \A b \in Bars : b # c => shown'[b] = shown[b]
  BY <1>1, <1>2, Taking DEF TrayTyped
<1>4. PICK m : SentAll(Rest(c), inbox', m) /\ Plain(m) /\ \A x : m \notin Unsays(x)
  BY <1>1, <1>2, NothingSent
<1>5. \A b \in Bars : Notes(c, owner, b, watcher[owner].hosts, watcher'[owner].hosts)
  BY <1>1, <1>2 DEF Notes, h
<1>6. inbox' \in Boxes /\ Addressed(inbox)' /\ HostsKnown(inbox, watcher[owner].hosts)' /\ OwnerSought(inbox)'
  BY <1>1, <1>2, <1>4, <1>5, Handled DEF h
<1>7. ASSUME owner # Nobody, NEW b \in Ready, NEW x \in watcher[owner].items
      PROVE  ItemOf(b, x, inbox'[owner], inbox'[b], shown'[b])
  <2>1. /\ c = b /\ h \in Says(x) => x \in shown'[b]
        /\ x \in shown[b] => x \in shown'[b]
    BY <1>1, <1>3 DEF Ready
  <2> QED
    BY <1>1, <1>4, <1>7, <2>1, HandledItem DEF h
<1>8. TrayTyped' /\ OneWatcher'
  BY <1>2, <1>3, <1>6, Taking DEF TrayTyped, Boxes, OneWatcher
<1> QED
  BY <1>2, <1>6, <1>7, <1>8 DEF TrayInv, ItemsKnown, Ready

LEMMA HandleSniUnregisteredKeeps ==
  ASSUME TrayInv, NEW c \in Ready, inbox[c] # <<>>, Head(inbox[c]).type = "unregistered",
         NEW a \in Apps, Head(inbox[c]).item = a,
         HandleSniUnregistered(c, a, Rest(c)), UNCHANGED <<phase, apps, starts>>
  PROVE  TrayInv'
<1> DEFINE h == Head(inbox[c])
<1>1. /\ h.type = "unregistered" /\ h.item = a /\ c \in Bars /\ Rest(c) \in Boxes
      /\ h \notin NewOwner /\ h \notin NoOwner
      /\ \A b : h \notin Comes(b) /\ h \notin Goes(b) /\ h \notin Asks(b)
      /\ \A x : h \notin Says(x)
      /\ h \in Unsays(a)
  BY Taking DEF NewOwner, NoOwner, Comes, Goes, Asks, Says, Unsays
<1>2. UNCHANGED <<owner, watcher, late, phase, apps>> /\ inbox' = Rest(c)
      /\ shown' = [shown EXCEPT ![c] = shown[c] \ {a}]
  BY DEF HandleSniUnregistered
<1> HIDE DEF h
<1>3. shown' \in [Bars -> SUBSET Apps] /\ shown'[c] = shown[c] \ {a}
      /\ \A b \in Bars : b # c => shown'[b] = shown[b]
  BY <1>1, <1>2, Taking DEF TrayTyped
<1>4. PICK m : SentAll(Rest(c), inbox', m) /\ Plain(m) /\ \A x : m \notin Unsays(x)
  BY <1>1, <1>2, NothingSent
<1>5. \A b \in Bars : Notes(c, owner, b, watcher[owner].hosts, watcher'[owner].hosts)
  BY <1>1, <1>2 DEF Notes, h
<1>6. inbox' \in Boxes /\ Addressed(inbox)' /\ HostsKnown(inbox, watcher[owner].hosts)' /\ OwnerSought(inbox)'
  BY <1>1, <1>2, <1>4, <1>5, Handled DEF h
<1>7. ASSUME owner # Nobody, NEW b \in Ready, NEW x \in watcher[owner].items
      PROVE  ItemOf(b, x, inbox'[owner], inbox'[b], shown'[b])
  <2>1. x \in shown[b] /\ ~(c = b /\ h \in Unsays(x)) => x \in shown'[b]
    BY <1>1, <1>3 DEF Ready
  <2> QED
    BY <1>1, <1>4, <1>7, <2>1, HandledItem DEF h
<1>8. TrayTyped' /\ OneWatcher'
  BY <1>2, <1>3, <1>6, Taking DEF TrayTyped, Boxes, OneWatcher
<1> QED
  BY <1>2, <1>6, <1>7, <1>8 DEF TrayInv, ItemsKnown, Ready

------------------------------------------------------------------------------
\* Owners come and go.
LEMMA OwnKeeps ==
  ASSUME TrayTyped, OneWatcher, owner = Nobody, NEW box \in Boxes, Addressed(box),
         NEW b1 \in Bars, Own(b1, box, Ready), UNCHANGED <<shown, apps>>,
         phase' \in [Bars -> {"off", "named", "ready"}], Ready' = Ready,
         phase'[b1] # "off", \A b \in Bars : phase'[b] = "off" => phase[b] = "off"
  PROVE  TrayInv'
<1> DEFINE m == [type |-> "owner", new |-> b1]
<1>1. owner' = b1 /\ watcher' = [watcher EXCEPT ![b1] = NewWatcher] /\ inbox' = Broadcast(box, Ready, m)
  BY DEF Own
<1>2. /\ NewWatcher \in WatcherType /\ NewWatcher.on /\ NewWatcher.items = {} /\ NewWatcher.hosts = {}
      /\ b1 # Nobody
  BY BusNames DEF NewWatcher, NoWatcher, WatcherType
<1>3. m \in Message /\ m \in NewOwner /\ \A h : m \notin Comes(h) /\ m \notin Goes(h) /\ m \notin Asks(h)
  <2>1. m \in Message
    BY DEF Message
  <2> QED
    BY <1>2, <2>1 DEF NewOwner, Comes, Goes, Asks
<1> HIDE DEF m
<1>4. /\ SentAll(box, inbox', m)
      /\ \A b \in Bars : inbox'[b] = IF b \in Ready THEN Append(box[b], m) ELSE box[b]
  BY <1>1, <1>3, BroadcastSends
<1>5. watcher' \in [Bars -> WatcherType] /\ watcher'[owner'] = NewWatcher
  BY <1>1, <1>2 DEF TrayTyped
<1>6. OneWatcher'
  BY <1>1, <1>2, BusNames DEF OneWatcher, TrayTyped
<1>7. inbox' \in Boxes /\ TrayTyped'
  BY <1>1, <1>4, <1>5 DEF SentAll, TrayTyped, Boxes
<1>8. \A b, h \in Bars : ~Waiting(inbox'[b], Comes(h))
  <2> TAKE b, h \in Bars
  <2>1. box[b] \in Seq(Message) /\ m \in Message /\ Sent(box[b], inbox'[b], m) /\ ~Waiting(box[b], Comes(h))
    BY <1>4, BusNames DEF SentAll, Boxes, Addressed
  <2> DEFINE t == inbox'[b]
  <2> HIDE DEF t
  <2>2. Sent(box[b], t, m)
    BY <2>1 DEF t
  <2> QED
    BY <1>3, <2>1, <2>2, WaitingSent DEF t
<1>9. Addressed(inbox)'
  <2>1. ASSUME NEW b \in Bars, phase'[b] = "off"
        PROVE  inbox'[b] = <<>>
    BY <1>4, <2>1 DEF Addressed, Ready
  <2>2. ASSUME NEW b \in Bars, NEW h \in Bars, Waiting(inbox'[b], Asks(h))
        PROVE  h \in Ready'
    <3> DEFINE t == inbox'[b]
    <3>1. box[b] \in Seq(Message) /\ m \in Message /\ Sent(box[b], t, m) /\ Waiting(t, Asks(h))
      BY <1>4, <2>2 DEF SentAll, Boxes
    <3> HIDE DEF t
    <3>2. Waiting(box[b], Asks(h))
      BY <1>3, <3>1, WaitingSent
    <3> QED
      BY <3>2 DEF Addressed
  <2> QED
    BY <1>8, <2>1, <2>2 DEF Addressed
<1>10. \A b \in Ready : Waiting(inbox'[b], NewOwner)
  <2> TAKE b \in Ready
  <2> DEFINE q == box[b]
  <2>1. q \in Seq(Message) /\ inbox'[b] = Append(q, m)
    BY <1>4 DEF Boxes, Ready
  <2> HIDE DEF q
  <2>2. Waiting(Append(q, m), NewOwner)
    BY <1>3, <2>1, WaitingAppend
  <2> QED
    BY <2>1, <2>2
<1>11. ASSUME NEW b \in Bars, b \notin Ready
       PROVE  Ends(inbox'[b1], Goes(b), Comes(b), b, Bars \ {})
  BY <1>8 DEF Ends, Waiting
<1>12. HostsKnown(inbox, watcher[owner].hosts)'
  BY <1>1, <1>2, <1>5, <1>10, <1>11 DEF HostsKnown, HostOf
<1>13. ItemsKnown(inbox)'
  BY <1>2, <1>5 DEF ItemsKnown
<1>14. OwnerSought(inbox)'
  BY <1>1, <1>2 DEF OwnerSought
<1> QED
  BY <1>6, <1>7, <1>9, <1>12, <1>13, <1>14 DEF TrayInv

LEMMA HandleLostWatcherKeeps ==
  ASSUME TrayInv, NEW c \in Ready, inbox[c] # <<>>, Head(inbox[c]).type = "owner",
         Head(inbox[c]).new = Nobody, HandleLostWatcher(c, Rest(c)), UNCHANGED <<phase, apps, starts>>
  PROVE  TrayInv'
<1> DEFINE h == Head(inbox[c])
<1>1. /\ h.type = "owner" /\ h.new = Nobody /\ c \in Bars /\ Rest(c) \in Boxes /\ h \notin NewOwner
      /\ \A b : h \notin Comes(b) /\ h \notin Goes(b) /\ h \notin Asks(b)
      /\ \A x : h \notin Says(x) /\ h \notin Unsays(x)
  BY Taking DEF NewOwner, Comes, Goes, Asks, Says, Unsays
<1>2. UNCHANGED <<shown, phase, apps>>
  BY DEF HandleLostWatcher
<1> HIDE DEF h
<1>3. CASE owner = Nobody
  <2>1. Own(c, Rest(c), Ready)
    BY <1>3 DEF HandleLostWatcher
  <2>2. Addressed(Rest(c)) /\ TrayTyped /\ OneWatcher
    BY <1>1, TakenAddressed DEF TrayInv
  <2>3. Ready' = Ready /\ phase[c] # "off" /\ phase \in [Bars -> {"off", "named", "ready"}]
    BY <1>2, <2>2 DEF Ready, TrayTyped
  <2> QED
    BY <1>1, <1>2, <1>3, <2>1, <2>2, <2>3, OwnKeeps
<1>4. CASE owner # Nobody
  <2>1. inbox' = Rest(c) /\ UNCHANGED <<owner, watcher, late>>
    BY <1>4 DEF HandleLostWatcher
  <2>2. PICK m : SentAll(Rest(c), inbox', m) /\ Plain(m) /\ \A x : m \notin Unsays(x)
    BY <1>1, <2>1, NothingSent
  <2>3. \A b \in Bars : Notes(c, owner, b, watcher[owner].hosts, watcher'[owner].hosts)
    BY <1>1, <2>1 DEF Notes, h
  <2>4. inbox' \in Boxes /\ Addressed(inbox)' /\ HostsKnown(inbox, watcher[owner].hosts)' /\ OwnerSought(inbox)'
    BY <1>1, <1>2, <1>4, <2>1, <2>2, <2>3, Handled DEF h
  <2>5. ASSUME owner # Nobody, NEW b \in Ready, NEW x \in watcher[owner].items
        PROVE  ItemOf(b, x, inbox'[owner], inbox'[b], shown'[b])
    BY <1>1, <1>2, <2>2, <2>5, HandledItem DEF h
  <2>6. TrayTyped' /\ OneWatcher'
    BY <1>2, <2>1, <2>4, Taking DEF TrayTyped, Boxes, OneWatcher
  <2> QED
    BY <1>2, <2>1, <2>4, <2>5, <2>6 DEF TrayInv, ItemsKnown, Ready
<1> QED
  BY <1>3, <1>4

LEMMA CreateWatcherKeeps ==
  ASSUME TrayInv, NEW b1 \in Bars, CreateWatcher(b1)
  PROVE  TrayInv'
<1>1. /\ TrayTyped /\ OneWatcher /\ Addressed(inbox) /\ inbox \in Boxes
      /\ phase[b1] = "off" /\ phase' = [phase EXCEPT ![b1] = "named"] /\ UNCHANGED <<shown, apps>>
  BY TypedBoxes DEF TrayInv, CreateWatcher
<1>2. /\ phase' \in [Bars -> {"off", "named", "ready"}] /\ Ready' = Ready /\ phase'[b1] = "named"
      /\ \A b \in Bars : b # b1 => phase'[b] = phase[b]
      /\ \A b \in Bars : phase'[b] = "off" => phase[b] = "off"
  BY <1>1 DEF Ready, TrayTyped
<1>3. CASE owner = Nobody /\ Own(b1, inbox, Ready)
  BY <1>1, <1>2, <1>3, OwnKeeps
<1>4. CASE owner # Nobody /\ UNCHANGED <<owner, watcher, inbox, late>>
  <2>1. TrayTyped' /\ OneWatcher'
    BY <1>1, <1>2, <1>4 DEF TrayTyped, OneWatcher
  <2>2. Addressed(inbox)'
    BY <1>1, <1>2, <1>4 DEF Addressed
  <2>3. HostsKnown(inbox, watcher[owner].hosts)' /\ ItemsKnown(inbox)' /\ OwnerSought(inbox)'
    BY <1>1, <1>2, <1>4 DEF TrayInv, HostsKnown, ItemsKnown, OwnerSought
  <2> QED
    BY <2>1, <2>2, <2>3 DEF TrayInv
<1> QED
  BY <1>3, <1>4 DEF CreateWatcher

\* A host registers with the watcher w: it says that it is there, and asks.
Registered(box, new, w, b1) ==
  /\ new \in Boxes /\ \A b \in Bars : b # w => new[b] = box[b]
  /\ \A b, h \in Bars : Waiting(new[b], Comes(h)) => Waiting(box[b], Comes(h)) \/ b = w
  /\ \A b, h \in Bars : Waiting(new[b], Asks(h)) => Waiting(box[b], Asks(h)) \/ h = b1
  /\ \A b \in Bars : b # b1 => \A hosts, ready :
       HostOf(b, box[w], box[b], hosts, ready) => HostOf(b, new[w], new[b], hosts, ready)
  /\ \A b \in Bars : \A a, items :
       ItemOf(b, a, box[w], box[b], items) => ItemOf(b, a, new[w], new[b], items)
  /\ Waiting(new[w], Asks(b1)) /\ \A hosts : Ends(new[w], Comes(b1), Goes(b1), b1, hosts)

LEMMA Registers ==
  ASSUME NEW box \in Boxes, NEW w \in Bars, NEW b1 \in Bars, NEW new,
         new = RegisterToWatcher(box, w, b1)
  PROVE  Registered(box, new, w, b1)
<1> DEFINE host == [type |-> "host", from |-> b1]
           get == [type |-> "get", from |-> b1]
           mid == Broadcast(box, {w}, host)
<1>1. /\ host \in Message /\ get \in Message
      /\ host.type = "host" /\ host.from = b1 /\ get.type = "get" /\ get.from = b1
  BY DEF Message
<1>2. new = Broadcast(mid, {w}, get)
  <2>1. /\ box[w] \in Seq(Message) /\ DOMAIN box = Bars /\ w # Nobody
    BY BusNames DEF Boxes
  <2> HIDE DEF host, get
  <2>2. box[w] \o <<host, get>> = Append(Append(box[w], host), get)
    BY <1>1, <2>1
  <2>3. new = [box EXCEPT ![w] = box[w] \o <<host, get>>]
    BY <2>1 DEF RegisterToWatcher, host, get
  <2>4. new = [b \in Bars |-> IF b = w THEN Append(Append(box[b], host), get) ELSE box[b]]
    BY <2>1, <2>2, <2>3
  <2>5. \A b \in Bars : mid[b] = IF b = w THEN Append(box[b], host) ELSE box[b]
    BY DEF Broadcast
  <2>6. Broadcast(mid, {w}, get) = [b \in Bars |-> IF b = w THEN Append(mid[b], get) ELSE mid[b]]
    BY DEF Broadcast
  <2> HIDE DEF mid
  <2> QED
    BY <2>4, <2>5, <2>6
<1> HIDE DEF host, get
<1>3. /\ \A h : h # b1 => host \notin Comes(h) /\ get \notin Asks(h)
      /\ host \in Comes(b1) /\ get \in Asks(b1)
      /\ \A h : host \notin Goes(h) /\ host \notin Asks(h) /\ get \notin Goes(h) /\ get \notin Comes(h)
      /\ \A a : host \notin Unsays(a) /\ get \notin Unsays(a)
      /\ host \notin NoOwner /\ get \notin NoOwner
  BY <1>1 DEF Comes, Goes, Asks, Unsays, NoOwner
<1>4. /\ SentAll(box, mid, host)
      /\ \A b \in Bars : mid[b] = IF b \in {w} THEN Append(box[b], host) ELSE box[b]
  BY <1>1, BroadcastSends
<1> HIDE DEF mid
<1>5. mid \in Boxes
  BY <1>4 DEF SentAll
<1>6. /\ SentAll(mid, new, get)
      /\ \A b \in Bars : new[b] = IF b \in {w} THEN Append(mid[b], get) ELSE mid[b]
  BY <1>1, <1>2, <1>5, BroadcastSends
<1>7. new \in Boxes /\ \A b \in Bars : b # w => new[b] = box[b]
  BY <1>4, <1>6 DEF SentAll
<1>8. ASSUME NEW b \in Bars, NEW S
      PROVE  /\ Waiting(box[b], S) => Waiting(new[b], S)
             /\ Waiting(new[b], S) => Waiting(box[b], S) \/ host \in S \/ get \in S
  <2>1. /\ box[b] \in Seq(Message) /\ mid[b] \in Seq(Message)
        /\ Sent(box[b], mid[b], host) /\ Sent(mid[b], new[b], get)
    BY <1>4, <1>5, <1>6 DEF SentAll, Boxes
  <2>2. Waiting(box[b], S) => Waiting(mid[b], S)
    BY <1>1, <2>1, WaitingSent
  <2>3. Waiting(mid[b], S) => Waiting(box[b], S) \/ host \in S
    BY <1>1, <2>1, WaitingSent
  <2>4. Waiting(mid[b], S) => Waiting(new[b], S)
    BY <1>1, <2>1, WaitingSent
  <2>5. Waiting(new[b], S) => Waiting(mid[b], S) \/ get \in S
    BY <1>1, <2>1, WaitingSent
  <2> QED
    BY <2>2, <2>3, <2>4, <2>5
<1>9. \A b, h \in Bars : Waiting(new[b], Comes(h)) => Waiting(box[b], Comes(h)) \/ b = w
  BY <1>7
<1>10. \A b, h \in Bars : Waiting(new[b], Asks(h)) => Waiting(box[b], Asks(h)) \/ h = b1
  BY <1>3, <1>8
<1>12. ASSUME NEW b \in Bars, NEW hosts, NEW ready, b # b1, HostOf(b, box[w], box[b], hosts, ready)
       PROVE  HostOf(b, new[w], new[b], hosts, ready)
  <2>1. HostOf(b, mid[w], mid[b], hosts, ready)
    BY <1>3, <1>4, <1>12, SendHost
  <2> QED
    BY <1>3, <1>6, <1>12, <2>1, SendHost
<1>13. ASSUME NEW b \in Bars, NEW a, NEW items, ItemOf(b, a, box[w], box[b], items)
       PROVE  ItemOf(b, a, new[w], new[b], items)
  <2>1. ItemOf(b, a, mid[w], mid[b], items)
    BY <1>3, <1>4, <1>13, SendItem
  <2> QED
    BY <1>3, <1>6, <2>1, SendItem
<1>14. box[w] \in Seq(Message) /\ mid[w] \in Seq(Message)
       /\ mid[w] = Append(box[w], host) /\ new[w] = Append(mid[w], get)
  BY <1>4, <1>5, <1>6 DEF Boxes
<1>15. Waiting(new[w], Asks(b1))
  <2> DEFINE q == mid[w]
  <2> HIDE DEF q
  <2>1. Waiting(Append(q, get), Asks(b1))
    BY <1>1, <1>3, <1>14, WaitingAppend DEF q
  <2> QED
    BY <1>14, <2>1 DEF q
<1>16. ASSUME NEW hosts
       PROVE  Ends(new[w], Comes(b1), Goes(b1), b1, hosts)
  <2> DEFINE q == box[w]
             t == mid[w]
  <2>1. q \in Seq(Message) /\ t \in Seq(Message) /\ t = Append(q, host) /\ new[w] = Append(t, get)
    BY <1>14
  <2> HIDE DEF q, t
  <2>2. Ends(Append(q, host), Comes(b1), Goes(b1), b1, hosts)
    BY <1>1, <1>3, <2>1, EndsAppend
  <2>3. Ends(Append(t, get), Comes(b1), Goes(b1), b1, hosts)
    BY <1>1, <1>3, <2>1, <2>2, EndsAppend
  <2> QED
    BY <2>1, <2>3
<1> QED
  BY <1>7, <1>9, <1>10, <1>12, <1>13, <1>15, <1>16 DEF Registered

LEMMA HandleNewWatcherKeeps ==
  ASSUME TrayInv, NEW c \in Ready, inbox[c] # <<>>, Head(inbox[c]).type = "owner",
         Head(inbox[c]).new # Nobody, HandleNewWatcher(c, Rest(c)), UNCHANGED <<phase, apps, starts>>
  PROVE  TrayInv'
<1> DEFINE h == Head(inbox[c])
           rest == Rest(c)
           new == inbox'
<1>1. /\ h.type = "owner" /\ c \in Bars /\ rest \in Boxes /\ h \notin NoOwner
      /\ \A b : h \notin Comes(b) /\ h \notin Goes(b) /\ h \notin Asks(b)
      /\ \A x : h \notin Says(x) /\ h \notin Unsays(x)
      /\ inbox \in Boxes
  BY Taking, TypedBoxes DEF NoOwner, Comes, Goes, Asks, Says, Unsays
<1>2. UNCHANGED <<owner, watcher, shown, late, phase, apps>>
      /\ new = RegisterToWatcher(rest, owner, c)
  BY DEF HandleNewWatcher
<1>3. Addressed(rest) /\ OwnerSought(rest)
  BY <1>1, TakenAddressed, TakenSought DEF TrayInv
<1> HIDE DEF h
<1>4. CASE owner = Nobody
  <2>1. new = rest
    BY <1>2, <1>4 DEF RegisterToWatcher
  <2>2. Addressed(inbox)' /\ OwnerSought(inbox)'
    BY <1>2, <1>3, <2>1 DEF Addressed, OwnerSought, Ready
  <2>3. TrayTyped' /\ OneWatcher'
    BY <1>1, <1>2, <2>1, Taking DEF TrayTyped, Boxes, OneWatcher
  <2> QED
    BY <1>2, <1>4, <2>2, <2>3 DEF TrayInv, HostsKnown, ItemsKnown
<1>5. CASE owner # Nobody
  <2>1. owner \in Bars /\ c # Nobody
    BY <1>1, <1>5, Taking, BusNames
  <2>2. \A b \in Bars : b # c => HostOf(b, rest[owner], rest[b], watcher[owner].hosts, Ready)
    <3> TAKE b \in Bars
    <3> HAVE b # c
    <3> DEFINE hosts == watcher[owner].hosts
               ready == Ready
    <3>1. HostOf(b, inbox[owner], inbox[b], hosts, ready)
      BY <1>5 DEF TrayInv, HostsKnown
    <3>2. Notes(c, owner, b, hosts, hosts)
      BY <1>1 DEF Notes, h
    <3> HIDE DEF hosts, ready
    <3>3. HostOf(b, rest[owner], rest[b], hosts, ready)
      BY <1>1, <2>1, <3>1, <3>2, TakeHost
    <3> QED
      BY <3>3 DEF hosts, ready
  <2>3. \A b \in Ready : \A a \in watcher[owner].items : b # c =>
          ItemOf(b, a, rest[owner], rest[b], shown[b])
    <3> TAKE b \in Ready
    <3> TAKE a \in watcher[owner].items
    <3> HAVE b # c
    <3>1. b \in Bars /\ ItemOf(b, a, inbox[owner], inbox[b], shown[b])
      BY <1>5 DEF TrayInv, ItemsKnown, Ready
    <3> QED
      BY <1>1, <2>1, <3>1, TakeItem DEF h
  <2>4. OwnerSought(inbox)' /\ ~(owner' = Nobody)
    BY <1>2, <1>5 DEF OwnerSought
  <2> HIDE DEF rest, new
  <2>5. Registered(rest, new, owner, c)
    BY <1>1, <1>2, <2>1, Registers
  <2>6. new \in Boxes /\ \A b \in Bars : b # owner => new[b] = rest[b]
    BY <2>5 DEF Registered
  <2>7. /\ \A b \in Bars : b # c => \A hosts, ready :
             HostOf(b, rest[owner], rest[b], hosts, ready) => HostOf(b, new[owner], new[b], hosts, ready)
        /\ \A b \in Bars : \A a, items :
             ItemOf(b, a, rest[owner], rest[b], items) => ItemOf(b, a, new[owner], new[b], items)
        /\ Waiting(new[owner], Asks(c)) /\ \A hosts : Ends(new[owner], Comes(c), Goes(c), c, hosts)
    BY <2>5 DEF Registered
  <2>8. Addressed(new)
    <3>1. \A b \in Bars : phase[b] = "off" => new[b] = <<>>
      BY <1>3, <1>5, <2>1, <2>6, Taking DEF Addressed, OneWatcher
    <3> QED
      BY <1>3, <2>5, <3>1 DEF Addressed, Registered
  <2>9. \A b \in Bars : HostOf(b, new[owner], new[b], watcher[owner].hosts, Ready)
    BY <2>2, <2>7 DEF HostOf
  <2>10. \A b \in Ready : \A a \in watcher[owner].items : ItemOf(b, a, new[owner], new[b], shown[b])
    <3> TAKE b \in Ready
    <3> TAKE a \in watcher[owner].items
    <3>1. CASE b = c
      BY <2>7, <3>1 DEF ItemOf
    <3>2. CASE b # c
      BY <2>3, <2>7, <3>2 DEF Ready
    <3> QED
      BY <3>1, <3>2
  <2>11. TrayTyped' /\ OneWatcher'
    BY <1>2, <2>6, Taking DEF TrayTyped, Boxes, OneWatcher, new
  <2>12. Addressed(inbox)' /\ HostsKnown(inbox, watcher[owner].hosts)' /\ ItemsKnown(inbox)'
    BY <1>2, <2>8, <2>9, <2>10 DEF Addressed, HostsKnown, ItemsKnown, Ready, new
  <2> QED
    BY <2>4, <2>11, <2>12 DEF TrayInv
<1> QED
  BY <1>4, <1>5

LEMMA InitHostKeeps ==
  ASSUME TrayInv, NEW b1 \in Bars, InitHost(b1)
  PROVE  TrayInv'
<1> DEFINE new == inbox'
<1>1. /\ TrayTyped /\ OneWatcher /\ Addressed(inbox) /\ inbox \in Boxes /\ phase[b1] = "named"
      /\ phase' = [phase EXCEPT ![b1] = "ready"] /\ UNCHANGED <<owner, watcher, shown, apps, late>>
      /\ new = RegisterToWatcher(inbox, owner, b1)
  BY TypedBoxes DEF TrayInv, InitHost
<1>2. /\ phase' \in [Bars -> {"off", "named", "ready"}] /\ phase'[b1] = "ready"
      /\ \A b \in Bars : b # b1 => phase'[b] = phase[b]
      /\ Ready' = Ready \cup {b1} /\ b1 \notin Ready /\ Ready \subseteq Bars
  BY <1>1 DEF Ready, TrayTyped
<1>3. OneWatcher'
  BY <1>1, <1>2 DEF OneWatcher
<1>4. CASE owner = Nobody
  <2>1. inbox' = inbox
    BY <1>1, <1>4 DEF RegisterToWatcher
  <2>2. Addressed(inbox)' /\ TrayTyped'
    BY <1>1, <1>2, <2>1 DEF Addressed, TrayTyped
  <2>3. OwnerSought(inbox)'
    BY <1>1, <1>2, <1>4, <2>1 DEF TrayInv, OwnerSought
  <2> QED
    BY <1>1, <1>3, <1>4, <2>2, <2>3 DEF TrayInv, HostsKnown, ItemsKnown
<1>5. CASE owner # Nobody
  <2>1. owner \in Bars /\ phase[owner] # "off"
    BY <1>1, <1>5 DEF TrayTyped, OneWatcher
  <2>2. Registered(inbox, new, owner, b1)
    BY <1>1, <2>1, Registers
  <2>3. /\ \A b \in Bars : HostOf(b, inbox[owner], inbox[b], watcher[owner].hosts, Ready)
        /\ \A b \in Ready : \A a \in watcher[owner].items : ItemOf(b, a, inbox[owner], inbox[b], shown[b])
    BY <1>1, <1>5 DEF TrayInv, HostsKnown, ItemsKnown
  <2> HIDE DEF new
  <2>4. /\ \A b \in Bars : b # b1 => \A hosts, ready :
             HostOf(b, inbox[owner], inbox[b], hosts, ready) => HostOf(b, new[owner], new[b], hosts, ready)
        /\ \A b \in Bars : \A a, items :
             ItemOf(b, a, inbox[owner], inbox[b], items) => ItemOf(b, a, new[owner], new[b], items)
        /\ Waiting(new[owner], Asks(b1)) /\ \A hosts : Ends(new[owner], Comes(b1), Goes(b1), b1, hosts)
        /\ new \in Boxes /\ \A b \in Bars : b # owner => new[b] = inbox[b]
    BY <2>2 DEF Registered
  <2>5. \A b \in Bars : HostOf(b, new[owner], new[b], watcher[owner].hosts, Ready')
    <3> TAKE b \in Bars
    <3>1. CASE b = b1
      BY <1>2, <2>4, <3>1 DEF HostOf
    <3>2. CASE b # b1
      <4>1. HostOf(b, new[owner], new[b], watcher[owner].hosts, Ready)
        BY <2>3, <2>4, <3>2
      <4> QED
        BY <1>2, <3>2, <4>1 DEF HostOf
    <3> QED
      BY <3>1, <3>2
  <2>6. \A b \in Ready' : \A a \in watcher[owner].items : ItemOf(b, a, new[owner], new[b], shown[b])
    <3> TAKE b \in Ready'
    <3> TAKE a \in watcher[owner].items
    <3>1. CASE b = b1
      BY <2>4, <3>1 DEF ItemOf
    <3>2. CASE b # b1
      <4>1. b \in Ready /\ b \in Bars
        BY <1>2, <3>2
      <4> QED
        BY <2>3, <2>4, <4>1
    <3> QED
      BY <3>1, <3>2
  <2>7. /\ \A b \in Bars : phase'[b] = "off" => new[b] = <<>>
        /\ \A b, h \in Bars : b # owner => ~Waiting(new[b], Comes(h))
    BY <1>1, <1>2, <2>1, <2>4 DEF Addressed
  <2>8. \A b, h \in Bars : Waiting(new[b], Asks(h)) => h \in Ready'
    BY <1>1, <1>2, <2>2 DEF Addressed, Registered
  <2>9. Addressed(inbox)' /\ HostsKnown(inbox, watcher[owner].hosts)' /\ ItemsKnown(inbox)'
    BY <1>1, <2>5, <2>6, <2>7, <2>8 DEF Addressed, HostsKnown, ItemsKnown, new
  <2>10. OwnerSought(inbox)' /\ TrayTyped'
    BY <1>1, <1>2, <1>5, <2>4 DEF OwnerSought, TrayTyped, Boxes, new
  <2> QED
    BY <1>3, <2>9, <2>10 DEF TrayInv
<1> QED
  BY <1>4, <1>5

\* What applications send changes nothing that is known of hosts and items.
LEMMA AppSends ==
  ASSUME TrayInv, NEW m, SentAll(inbox, inbox', m), Plain(m), \A a : m \notin Unsays(a),
         \A b \in Bars : phase[b] = "off" => inbox'[b] = inbox[b],
         apps' \in [Apps -> {"new", "on", "gone"}], UNCHANGED <<phase, owner, watcher, shown, late>>
  PROVE  TrayInv'
<1> DEFINE hosts == watcher[owner].hosts
           new == inbox'
           old == inbox
<1>1. /\ TrayTyped /\ OneWatcher /\ Addressed(old) /\ HostsKnown(old, hosts) /\ ItemsKnown(old) /\ OwnerSought(old)
      /\ SentAll(old, new, m) /\ \A b \in Bars : phase[b] = "off" => new[b] = old[b]
      /\ \A b \in Bars : m \notin Comes(b) /\ m \notin Goes(b) /\ m \notin Asks(b)
  BY PlainMessages DEF TrayInv
<1> HIDE DEF hosts, old, new
<1>2. Addressed(new) /\ HostsKnown(new, hosts) /\ OwnerSought(new) /\ new \in Boxes
  BY <1>1, PostedAddressed, PostedHosts, PostedSought DEF SentAll
<1>3. ItemsKnown(new)
  <2>1. ASSUME owner # Nobody, NEW b \in Ready, NEW a \in watcher[owner].items
        PROVE  ItemOf(b, a, new[owner], new[b], shown[b])
    <3>1. owner \in Bars /\ b \in Bars /\ ItemOf(b, a, old[owner], old[b], shown[b])
      BY <1>1, <2>1, TypedBoxes DEF TrayTyped, ItemsKnown
    <3> QED
      BY <1>1, <3>1, SendItem
  <2> QED
    BY <2>1 DEF ItemsKnown
<1>4. TrayTyped' /\ OneWatcher'
  BY <1>1, <1>2 DEF TrayTyped, OneWatcher, Boxes, new
<1> QED
  BY <1>2, <1>3, <1>4 DEF TrayInv, Addressed, HostsKnown, ItemsKnown, OwnerSought, Ready, hosts, new

LEMMA AppStartKeeps ==
  ASSUME TrayInv, NEW a \in Apps, AppStart(a)
  PROVE  TrayInv'
<1>1. inbox' = inbox /\ inbox \in Boxes /\ UNCHANGED <<phase, owner, watcher, shown, late>>
      /\ apps' \in [Apps -> {"new", "on", "gone"}]
  BY TypedBoxes DEF TrayInv, TrayTyped, AppStart
<1>2. PICK m : SentAll(inbox, inbox', m) /\ Plain(m) /\ \A x : m \notin Unsays(x)
  BY <1>1, NothingSent
<1> QED
  BY <1>1, <1>2, AppSends

LEMMA AppRegisterKeeps ==
  ASSUME TrayInv, NEW a \in Apps, AppRegister(a)
  PROVE  TrayInv'
<1> DEFINE m == [type |-> "item", item |-> a]
<1>1. /\ inbox' = Broadcast(inbox, {owner}, m) /\ inbox \in Boxes
      /\ UNCHANGED <<phase, owner, watcher, shown, late>> /\ apps' \in [Apps -> {"new", "on", "gone"}]
      /\ owner \in Bars /\ phase[owner] # "off"
  BY TypedBoxes DEF TrayInv, TrayTyped, OneWatcher, AppRegister
<1>2. Plain(m) /\ m \in Message /\ \A x : m \notin Unsays(x)
  BY Posts DEF Plain, Unsays
<1> HIDE DEF m
<1>3. /\ SentAll(inbox, inbox', m)
      /\ \A b \in Bars : inbox'[b] = IF b \in {owner} THEN Append(inbox[b], m) ELSE inbox[b]
  BY <1>1, <1>2, BroadcastSends
<1> QED
  BY <1>1, <1>2, <1>3, AppSends

LEMMA AppExitKeeps ==
  ASSUME TrayInv, NEW a \in Apps, AppExit(a)
  PROVE  TrayInv'
<1> DEFINE m == [type |-> "appgone", who |-> a]
<1>1. /\ inbox' = Broadcast(inbox, Listening, m) /\ inbox \in Boxes
      /\ UNCHANGED <<phase, owner, watcher, shown, late>> /\ apps' \in [Apps -> {"new", "on", "gone"}]
      /\ \A b \in Bars : phase[b] = "off" => b \notin Listening
  BY TypedBoxes DEF TrayInv, TrayTyped, OneWatcher, AppExit, Listening, Ready, NoWatcher
<1>2. Plain(m) /\ m \in Message /\ \A x : m \notin Unsays(x)
  BY Posts DEF Plain, Unsays
<1> HIDE DEF m
<1>3. /\ SentAll(inbox, inbox', m)
      /\ \A b \in Bars : inbox'[b] = IF b \in Listening THEN Append(inbox[b], m) ELSE inbox[b]
  BY <1>1, <1>2, BroadcastSends
<1> QED
  BY <1>1, <1>2, <1>3, AppSends

LEMMA DeliverKeeps ==
  ASSUME TrayInv, NEW c \in Bars, Deliver(c)
  PROVE  TrayInv'
<1> DEFINE h == Head(inbox[c])
<1>1. c \in Ready /\ inbox[c] # <<>> /\ UNCHANGED <<phase, apps, starts>>
  BY DEF Deliver, Ready
<1>2. h \in Message /\ Handle(c, h, Rest(c))
  BY <1>1, Taking DEF Deliver
<1>3. CASE h.type = "owner" /\ h.new = Nobody /\ HandleLostWatcher(c, Rest(c))
  BY <1>1, <1>3, HandleLostWatcherKeeps
<1>4. CASE h.type = "owner" /\ h.new # Nobody /\ HandleNewWatcher(c, Rest(c))
  BY <1>1, <1>4, HandleNewWatcherKeeps
<1>5. CASE h.type = "item" /\ RegisterSni(c, h.item, Rest(c))
  BY <1>1, <1>2, <1>5, Fields, RegisterSniKeeps
<1>6. CASE h.type = "host" /\ RegisterHost(c, h.from, Rest(c))
  BY <1>1, <1>2, <1>6, Fields, RegisterHostKeeps
<1>7. CASE h.type = "get" /\ GetRegisteredSnis(c, h.from, Rest(c))
  BY <1>1, <1>2, <1>7, Fields, GetRegisteredSnisKeeps
<1>8. CASE h.type \in {"appgone", "hostgone"} /\ HandleLostService(c, h.who, Rest(c))
  BY <1>1, <1>8, HandleLostServiceKeeps
<1>9. CASE h.type = "registered" /\ AddSni(c, {h.item}, Rest(c))
  <2>1. {h.item} \in SUBSET Apps /\ \A a : h \in Says(a) => a \in {h.item}
    BY <1>2, <1>9, Fields DEF Says
  <2> QED
    BY <1>1, <1>9, <2>1, AddSniKeeps
<1>10. CASE h.type = "items" /\ AddSni(c, h.items, Rest(c))
  <2>1. h.items \in SUBSET Apps /\ \A a : h \in Says(a) => a \in h.items
    BY <1>2, <1>10, Fields DEF Says
  <2> QED
    BY <1>1, <1>10, <2>1, AddSniKeeps
<1>11. CASE h.type = "unregistered" /\ HandleSniUnregistered(c, h.item, Rest(c))
  BY <1>1, <1>2, <1>11, Fields, HandleSniUnregisteredKeeps
<1> QED
  BY <1>2, <1>3, <1>4, <1>5, <1>6, <1>7, <1>8, <1>9, <1>10, <1>11 DEF Handle

\* The inboxes when the tray b1 ends: its own is gone, its calls get no reply.
LEMMA TrayGone ==
  ASSUME TrayTyped, Addressed(inbox), NEW b1 \in Bars, NEW u,
         u = [c \in Bars |-> IF c = b1 THEN <<>> ELSE Unasked(inbox[c], b1)]
  PROVE  /\ u \in Boxes /\ u[b1] = <<>> /\ \A b \in Bars : phase[b] = "off" => u[b] = <<>>
         /\ \A b, h \in Bars : b # owner \/ b = b1 => ~Waiting(u[b], Comes(h))
         /\ \A b, h \in Bars : Waiting(u[b], Asks(h)) => h \in Ready \ {b1}
<1>1. inbox \in Boxes /\ \A b \in Bars : inbox[b] \in Seq(Message)
  BY TypedBoxes DEF Boxes
<1>2. \A b \in Bars : Unasked(inbox[b], b1) \in Seq(Message)
  BY <1>1, UnaskedKeeps
<1>3. u \in Boxes /\ u[b1] = <<>> /\ ~(\E i \in DOMAIN u[b1] : TRUE)
  BY <1>2 DEF Boxes
<1>4. ASSUME NEW b \in Bars, phase[b] = "off"
      PROVE  u[b] = <<>>
  <2>1. inbox[b] = <<>>
    BY <1>4 DEF Addressed
  <2>2. CASE b # b1
    <3> DEFINE t == Unasked(inbox[b], b1)
    <3>1. t \in Seq(Message) /\ DOMAIN t = {}
      BY <1>1, <2>1, UnaskedKeeps
    <3> HIDE DEF t
    <3>2. t = <<>>
      BY <3>1
    <3> QED
      BY <2>2, <3>2 DEF t
  <2> QED
    BY <1>3, <2>2
<1>5. ASSUME NEW b \in Bars, NEW h \in Bars, b # owner \/ b = b1
      PROVE  ~Waiting(u[b], Comes(h))
  <2>1. CASE b = b1
    BY <1>3, <2>1 DEF Waiting
  <2>2. CASE b # b1
    <3>1. ~Waiting(inbox[b], Comes(h))
      BY <1>5, <2>2 DEF Addressed
    <3>2. \A m \in Comes(h) : m.type # "get" \/ m.from # Nobody
      BY DEF Comes
    <3>3. ~Waiting(Unasked(inbox[b], b1), Comes(h))
      BY <1>1, <3>1, <3>2, UnaskedWaiting DEF Waiting
    <3> QED
      BY <2>2, <3>3
  <2> QED
    BY <2>1, <2>2
<1>6. ASSUME NEW b \in Bars, NEW h \in Bars, Waiting(u[b], Asks(h))
      PROVE  h \in Ready \ {b1}
  <2>1. b # b1
    BY <1>3, <1>6 DEF Waiting
  <2>2. Waiting(Unasked(inbox[b], b1), Asks(h))
    BY <1>6, <2>1
  <2>3. \A m \in Asks(h) : m.type # "get" \/ m.from # Nobody
    BY BusNames DEF Asks
  <2>4. \E i \in DOMAIN inbox[b] : inbox[b][i] \in Asks(h) /\ ~(inbox[b][i].type = "get" /\ inbox[b][i].from = b1)
    BY <1>1, <2>2, <2>3, UnaskedWaiting
  <2>5. Waiting(inbox[b], Asks(h)) /\ h # b1
    BY <2>4 DEF Asks, Waiting
  <2> QED
    BY <2>5 DEF Addressed
<1> QED
  BY <1>3, <1>4, <1>5, <1>6

LEMMA TrayGoneKnown ==
  ASSUME TrayTyped, NEW b1 \in Bars, NEW w \in Bars \ {b1}, NEW u,
         u = [c \in Bars |-> IF c = b1 THEN <<>> ELSE Unasked(inbox[c], b1)]
  PROVE  /\ \A b \in Bars \ {b1} : \A hosts, ready :
              HostOf(b, inbox[w], inbox[b], hosts, ready) => HostOf(b, u[w], u[b], hosts, ready)
         /\ \A X : Ends(inbox[w], Goes(b1), Comes(b1), b1, X) => Ends(u[w], Goes(b1), Comes(b1), b1, X)
         /\ \A b \in Bars \ {b1} : \A a, items :
              ItemOf(b, a, inbox[w], inbox[b], items) => ItemOf(b, a, u[w], u[b], items)
<1>1. \A b \in Bars : inbox[b] \in Seq(Message)
  BY TypedBoxes DEF Boxes
<1>2. \A b \in Bars \ {b1} : u[b] = Unasked(inbox[b], b1)
  OBVIOUS
<1>3. ASSUME NEW b \in Bars \ {b1}, NEW Yes, NEW No, NEW x, NEW X,
             \A m \in Yes \cup No : m.type # "get", Ends(inbox[b], Yes, No, x, X)
      PROVE  Ends(u[b], Yes, No, x, X)
  BY <1>1, <1>2, <1>3, UnaskedEnds
<1>4. ASSUME NEW b \in Bars \ {b1}, NEW S, \A m \in S : m.type # "get" \/ m.from # b1, Waiting(inbox[b], S)
      PROVE  Waiting(u[b], S)
  BY <1>1, <1>2, <1>4, UnaskedWaiting
<1>5. /\ \A b : \A m \in Comes(b) \cup Goes(b) : m.type # "get"
      /\ \A b : \A m \in Goes(b) \cup Comes(b) : m.type # "get"
      /\ \A a : \A m \in Says(a) \cup Unsays(a) : m.type # "get"
      /\ \A m \in NewOwner : m.type # "get" \/ m.from # b1
      /\ \A b : b # b1 => \A m \in Asks(b) : m.type # "get" \/ m.from # b1
  BY DEF Comes, Goes, Says, Unsays, NewOwner, Asks
<1>6. ASSUME NEW b \in Bars \ {b1}, NEW hosts, NEW ready, HostOf(b, inbox[w], inbox[b], hosts, ready)
      PROVE  HostOf(b, u[w], u[b], hosts, ready)
  <2>1. Ends(inbox[w], Comes(b), Goes(b), b, hosts) => Ends(u[w], Comes(b), Goes(b), b, hosts)
    BY <1>3, <1>5
  <2>2. Ends(inbox[w], Goes(b), Comes(b), b, Bars \ hosts) => Ends(u[w], Goes(b), Comes(b), b, Bars \ hosts)
    BY <1>3, <1>5
  <2>3. Waiting(inbox[b], NewOwner) => Waiting(u[b], NewOwner)
    BY <1>4, <1>5
  <2> QED
    BY <1>6, <2>1, <2>2, <2>3 DEF HostOf
<1>7. ASSUME NEW X, Ends(inbox[w], Goes(b1), Comes(b1), b1, X)
      PROVE  Ends(u[w], Goes(b1), Comes(b1), b1, X)
  BY <1>3, <1>5, <1>7
<1>8. ASSUME NEW b \in Bars \ {b1}, NEW a, NEW items, ItemOf(b, a, inbox[w], inbox[b], items)
      PROVE  ItemOf(b, a, u[w], u[b], items)
  <2>1. Ends(inbox[b], Says(a), Unsays(a), a, items) => Ends(u[b], Says(a), Unsays(a), a, items)
    BY <1>3, <1>5
  <2>2. Waiting(inbox[w], Asks(b)) => Waiting(u[w], Asks(b))
    BY <1>4, <1>5
  <2>3. Waiting(inbox[b], NewOwner) => Waiting(u[b], NewOwner)
    BY <1>4, <1>5
  <2> QED
    BY <1>8, <2>1, <2>2, <2>3 DEF ItemOf
<1> QED
  BY <1>6, <1>7, <1>8

\* What the others are told when the tray b1 ends: v is what u becomes.
Told(u, v, b1) ==
  IF phase[b1] = "ready"
  THEN v = Broadcast(u, Listening \ {b1}, [type |-> "hostgone", who |-> b1]) ELSE v = u

LEMMA TellsGone ==
  ASSUME TrayTyped, OneWatcher, NEW b1 \in Bars, phase[b1] # "off", NEW u \in Boxes, NEW v, Told(u, v, b1)
  PROVE  /\ \E m : /\ SentAll(u, v, m) /\ \A h : m \notin Comes(h) /\ m \notin Asks(h)
                   /\ \A h \in Bars \ {b1} : m \notin Goes(h)
                   /\ \A a : m \notin Unsays(a)
         /\ \A b \in Bars : phase[b] = "off" \/ b = b1 => v[b] = u[b]
         /\ \A w \in Bars \ {b1} : \A X : w = owner /\ b1 \in Ready => Ends(v[w], Goes(b1), Comes(b1), b1, X)
<1> DEFINE m == [type |-> "hostgone", who |-> b1]
           others == Listening \ {b1}
<1>1. CASE phase[b1] = "ready"
  <2>1. /\ m \in Message /\ m \in Goes(b1) /\ \A h : m \notin Comes(h) /\ m \notin Asks(h)
        /\ \A h \in Bars \ {b1} : m \notin Goes(h)
        /\ \A a : m \notin Unsays(a)
    <3>1. m \in Message
      BY DEF Message
    <3> QED
      BY <3>1 DEF Goes, Comes, Asks, Unsays
  <2>2. /\ \A b \in Bars : phase[b] = "off" \/ b = b1 => b \notin others
        /\ \A w \in Bars \ {b1} : w = owner => w \in others
    BY DEF Listening, Ready, OneWatcher, NoWatcher
  <2>3. v = Broadcast(u, others, m)
    BY <1>1 DEF Told
  <2> HIDE DEF m, others
  <2>4. SentAll(u, v, m) /\ \A c \in Bars : v[c] = IF c \in others THEN Append(u[c], m) ELSE u[c]
    BY <2>1, <2>3, BroadcastSends
  <2>5. ASSUME NEW w \in Bars \ {b1}, NEW X, w = owner
        PROVE  Ends(v[w], Goes(b1), Comes(b1), b1, X)
    <3> DEFINE q == u[w]
    <3>1. q \in Seq(Message) /\ v[w] = Append(q, m)
      BY <2>2, <2>4, <2>5 DEF Boxes
    <3> HIDE DEF q
    <3>2. Ends(Append(q, m), Goes(b1), Comes(b1), b1, X)
      BY <2>1, <3>1, EndsAppend
    <3> QED
      BY <3>1, <3>2
  <2> QED
    BY <2>1, <2>2, <2>4, <2>5
<1>2. CASE phase[b1] # "ready"
  <2>1. v = u /\ b1 \notin Ready
    BY <1>2 DEF Told, Ready
  <2>2. PICK n : SentAll(u, u, n) /\ Plain(n) /\ \A a : n \notin Unsays(a)
    BY NothingSent
  <2>3. /\ \A h : n \notin Comes(h) /\ n \notin Asks(h)
        /\ \A h : n \notin Goes(h)
    BY <2>2, PlainMessages
  <2> QED
    BY <2>1, <2>2, <2>3
<1> QED
  BY <1>1, <1>2

LEMMA TrayGoneSought ==
  ASSUME TrayTyped, NEW b1 \in Bars, NEW u, NEW b \in Bars \ {b1}, Waiting(inbox[b], NoOwner),
         u = [c \in Bars |-> IF c = b1 THEN <<>> ELSE Unasked(inbox[c], b1)]
  PROVE  Waiting(u[b], NoOwner)
<1>1. inbox[b] \in Seq(Message) /\ u[b] = Unasked(inbox[b], b1)
  BY TypedBoxes DEF Boxes
<1>2. \A m \in NoOwner : m.type # "get" \/ m.from # b1
  BY DEF NoOwner
<1> QED
  BY <1>1, <1>2, UnaskedWaiting

LEMMA DestroyTrayKeeps ==
  ASSUME TrayInv, NEW b1 \in Bars, DestroyTray(b1)
  PROVE  TrayInv'
<1> DEFINE u == [c \in Bars |-> IF c = b1 THEN <<>> ELSE Unasked(inbox[c], b1)]
           v == IF phase[b1] = "ready"
                THEN Broadcast(u, Listening \ {b1}, [type |-> "hostgone", who |-> b1]) ELSE u
           m == [type |-> "owner", new |-> Nobody]
           new == inbox'
           hosts == watcher[owner].hosts
<1>1. /\ TrayTyped /\ OneWatcher /\ Addressed(inbox) /\ HostsKnown(inbox, hosts)
      /\ ItemsKnown(inbox) /\ OwnerSought(inbox) /\ inbox \in Boxes
  BY TypedBoxes DEF TrayInv
<1>2. /\ phase[b1] # "off" /\ phase' = [phase EXCEPT ![b1] = "off"] /\ UNCHANGED apps
      /\ shown' = [shown EXCEPT ![b1] = {}] /\ watcher' = [watcher EXCEPT ![b1] = NoWatcher]
      /\ \/ owner = b1 /\ owner' = Nobody /\ new = Broadcast(v, Ready \ {b1}, m)
            /\ late' = (late \union {c \in Bars : phase[c] = "named"}) \ {b1}
         \/ owner # b1 /\ new = v /\ late' = late \ {b1} /\ owner' = owner
  BY DEF DestroyTray
<1>3. Told(u, v, b1)
  BY DEF Told
<1>4. /\ phase' \in [Bars -> {"off", "named", "ready"}] /\ phase'[b1] = "off"
      /\ \A b \in Bars : b # b1 => phase'[b] = phase[b]
      /\ Ready' = Ready \ {b1} /\ Ready \subseteq Bars
  BY <1>1, <1>2 DEF Ready, TrayTyped
<1>5. /\ shown' \in [Bars -> SUBSET Apps] /\ \A b \in Bars : b # b1 => shown'[b] = shown[b]
      /\ watcher' \in [Bars -> WatcherType] /\ \A b \in Bars : b # b1 => watcher'[b] = watcher[b]
      /\ watcher'[b1] = NoWatcher /\ b1 # Nobody
  BY <1>1, <1>2, BusNames DEF TrayTyped, WatcherType, NoWatcher
<1>6. OneWatcher'
  BY <1>1, <1>2, <1>4, <1>5, BusNames DEF OneWatcher
<1>7. u = [c \in Bars |-> IF c = b1 THEN <<>> ELSE Unasked(inbox[c], b1)]
  OBVIOUS
<1> HIDE DEF u, v, m, new, hosts
<1>8. /\ u \in Boxes /\ u[b1] = <<>> /\ \A b \in Bars : phase[b] = "off" => u[b] = <<>>
      /\ \A b, h \in Bars : b # owner \/ b = b1 => ~Waiting(u[b], Comes(h))
      /\ \A b, h \in Bars : Waiting(u[b], Asks(h)) => h \in Ready \ {b1}
  BY <1>1, <1>7, TrayGone
<1>9. /\ \E n : /\ SentAll(u, v, n) /\ \A h : n \notin Comes(h) /\ n \notin Asks(h)
                /\ \A h \in Bars \ {b1} : n \notin Goes(h)
                /\ \A a : n \notin Unsays(a)
      /\ \A b \in Bars : phase[b] = "off" \/ b = b1 => v[b] = u[b]
      /\ \A w \in Bars \ {b1} : \A X : w = owner /\ b1 \in Ready => Ends(v[w], Goes(b1), Comes(b1), b1, X)
  BY <1>1, <1>2, <1>3, <1>8, TellsGone
<1>10. PICK n : /\ SentAll(u, v, n) /\ \A h : n \notin Comes(h) /\ n \notin Asks(h)
                /\ \A h \in Bars \ {b1} : n \notin Goes(h)
                /\ \A a : n \notin Unsays(a)
  BY <1>9
<1>11. \A b \in Bars : /\ u[b] \in Seq(Message) /\ v[b] \in Seq(Message) /\ n \in Message
                       /\ Sent(u[b], v[b], n)
  BY <1>10 DEF SentAll, Boxes
<1>12. /\ \A b \in Bars : phase'[b] = "off" => v[b] = <<>>
       /\ \A b, h \in Bars : b # owner \/ b = b1 => ~Waiting(v[b], Comes(h))
       /\ \A b, h \in Bars : Waiting(v[b], Asks(h)) => h \in Ready \ {b1}
  <2>1. \A b \in Bars : phase'[b] = "off" => v[b] = <<>>
    BY <1>4, <1>8, <1>9
  <2>2. ASSUME NEW b \in Bars, NEW h \in Bars, b # owner \/ b = b1
        PROVE  ~Waiting(v[b], Comes(h))
    BY <1>8, <1>10, <1>11, <2>2, WaitingSent
  <2>3. ASSUME NEW b \in Bars, NEW h \in Bars, Waiting(v[b], Asks(h))
        PROVE  h \in Ready \ {b1}
    <3>1. Waiting(u[b], Asks(h))
      BY <1>10, <1>11, <2>3, WaitingSent
    <3> QED
      BY <1>8, <3>1
  <2> QED
    BY <2>1, <2>2, <2>3
<1>13. v \in Boxes
  BY <1>10 DEF SentAll
<1>14. CASE owner = b1
  <2>1. owner' = Nobody /\ new = Broadcast(v, Ready \ {b1}, m)
        /\ late' = (late \union {c \in Bars : phase[c] = "named"}) \ {b1}
    BY <1>2, <1>14
  <2>2. m \in Message /\ m \in NoOwner /\ \A h : m \notin Comes(h) /\ m \notin Asks(h)
    <3>1. m \in Message
      BY DEF Message, m
    <3> QED
      BY <3>1 DEF NoOwner, Comes, Asks, m
  <2>3. /\ SentAll(v, new, m)
        /\ \A b \in Bars : new[b] = IF b \in Ready \ {b1} THEN Append(v[b], m) ELSE v[b]
    BY <1>13, <2>1, <2>2, BroadcastSends
  <2>4. \A b \in Bars : /\ v[b] \in Seq(Message) /\ new[b] \in Seq(Message) /\ m \in Message
                        /\ Sent(v[b], new[b], m)
    BY <2>3 DEF SentAll, Boxes
  <2>5. \A b \in Bars : phase'[b] = "off" => new[b] = <<>>
    BY <1>4, <1>12, <2>3 DEF Ready
  <2>6. ASSUME NEW b \in Bars, NEW h \in Bars
        PROVE  ~Waiting(new[b], Comes(h))
    BY <1>12, <1>14, <2>2, <2>4, WaitingSent
  <2>7. ASSUME NEW b \in Bars, NEW h \in Bars, Waiting(new[b], Asks(h))
        PROVE  h \in Ready'
    <3>1. Waiting(v[b], Asks(h))
      BY <2>2, <2>4, <2>7, WaitingSent
    <3> QED
      BY <1>4, <1>12, <3>1
  <2>8. Addressed(inbox)'
    BY <2>5, <2>6, <2>7 DEF Addressed, new
  <2>9. ASSUME NEW b \in Ready'
        PROVE  Waiting(new[b], NoOwner)
    <3> DEFINE q == v[b]
    <3>1. q \in Seq(Message) /\ new[b] = Append(q, m)
      BY <1>4, <2>3, <2>4
    <3> HIDE DEF q
    <3>2. Waiting(Append(q, m), NoOwner)
      BY <2>2, <3>1, WaitingAppend
    <3> QED
      BY <3>1, <3>2
  <2>10. OwnerSought(inbox)'
    <3>1. \A b \in Bars : phase'[b] = "named" => b \in late'
      BY <1>4, <2>1
    <3> QED
      BY <2>9, <3>1 DEF OwnerSought, new
  <2>11. TrayTyped'
    BY <1>1, <1>2, <1>4, <1>5, <2>1, <2>3 DEF TrayTyped, SentAll, Boxes, new
  <2> QED
    BY <1>6, <2>1, <2>8, <2>10, <2>11 DEF TrayInv, HostsKnown, ItemsKnown
<1>15. CASE owner # b1
  <2>1. owner' = owner /\ new = v /\ late' = late \ {b1}
    BY <1>2, <1>15
  <2>2. Addressed(inbox)'
    BY <1>4, <1>12, <2>1 DEF Addressed, new
  <2>3. TrayTyped'
    BY <1>1, <1>2, <1>4, <1>5, <1>13, <2>1 DEF TrayTyped, Boxes, new
  <2>4. OwnerSought(inbox)'
    <3>1. ASSUME owner = Nobody, NEW b \in Ready' \ late'
          PROVE  Waiting(v[b], NoOwner)
      <4>1. b \in Bars \ {b1} /\ Waiting(inbox[b], NoOwner)
        BY <1>1, <1>4, <2>1, <3>1 DEF OwnerSought
      <4>2. Waiting(u[b], NoOwner)
        BY <1>1, <1>7, <4>1, TrayGoneSought
      <4> QED
        BY <1>11, <4>1, <4>2, WaitingSent
    <3>2. ASSUME owner = Nobody, NEW b \in Bars, phase'[b] = "named"
          PROVE  b \in late'
      BY <1>1, <1>4, <2>1, <3>2 DEF OwnerSought
    <3> QED
      BY <2>1, <3>1, <3>2 DEF OwnerSought, new
  <2>5. ASSUME owner # Nobody
        PROVE  /\ \A b \in Bars : HostOf(b, v[owner], v[b], hosts, Ready')
               /\ \A b \in Ready' : \A a \in watcher[owner].items : ItemOf(b, a, v[owner], v[b], shown'[b])
    <3>1. owner \in Bars \ {b1}
      BY <1>1, <1>15, <2>5 DEF TrayTyped
    <3>2. /\ \A b \in Bars \ {b1} : \A X, ready :
               HostOf(b, inbox[owner], inbox[b], X, ready) => HostOf(b, u[owner], u[b], X, ready)
          /\ \A X : Ends(inbox[owner], Goes(b1), Comes(b1), b1, X) => Ends(u[owner], Goes(b1), Comes(b1), b1, X)
          /\ \A b \in Bars \ {b1} : \A a, items :
               ItemOf(b, a, inbox[owner], inbox[b], items) => ItemOf(b, a, u[owner], u[b], items)
      BY <1>1, <1>7, <3>1, TrayGoneKnown
    <3>3. ASSUME NEW b \in Bars \ {b1}
          PROVE  HostOf(b, v[owner], v[b], hosts, Ready')
      <4> DEFINE ready == Ready
      <4>1. HostOf(b, inbox[owner], inbox[b], hosts, ready)
        BY <1>1, <2>5 DEF HostsKnown
      <4> HIDE DEF ready
      <4>2. HostOf(b, u[owner], u[b], hosts, ready)
        BY <3>2, <4>1
      <4>3. HostOf(b, v[owner], v[b], hosts, ready)
        BY <1>10, <3>1, <4>2, SendHost
      <4> QED
        BY <1>4, <4>3 DEF HostOf, ready
    <3>4. HostOf(b1, v[owner], v[b1], hosts, Ready')
      <4> DEFINE others == Bars \ hosts
                 gone == Goes(b1)
                 come == Comes(b1)
                 q == u[owner]
                 t == v[owner]
      <4>1. CASE b1 \in Ready
        <5>1. Ends(t, gone, come, b1, others)
          BY <1>9, <3>1, <4>1
        <5> QED
          BY <1>4, <5>1 DEF HostOf
      <4>2. CASE b1 \notin Ready
        <5>1. Ends(inbox[owner], gone, come, b1, others)
          BY <1>1, <2>5, <4>2 DEF HostsKnown, HostOf
        <5>2. Ends(q, gone, come, b1, others)
          BY <3>2, <5>1
        <5>3. q \in Seq(Message) /\ n \in Message /\ Sent(q, t, n) /\ n \notin come
          BY <1>10, <1>11, <3>1
        <5> HIDE DEF others, gone, come, q, t
        <5>4. Ends(t, gone, come, b1, others)
          BY <5>2, <5>3, EndsSent
        <5> QED
          BY <1>4, <5>4 DEF HostOf, others, gone, come, t
      <4> QED
        BY <4>1, <4>2
    <3>5. ASSUME NEW b \in Ready', NEW a \in watcher[owner].items
          PROVE  ItemOf(b, a, v[owner], v[b], shown'[b])
      <4>1. b \in Bars \ {b1} /\ b \in Ready /\ shown'[b] = shown[b]
        BY <1>4, <1>5
      <4>2. ItemOf(b, a, inbox[owner], inbox[b], shown[b])
        BY <1>1, <2>5, <4>1 DEF ItemsKnown
      <4>3. ItemOf(b, a, u[owner], u[b], shown[b])
        BY <3>2, <4>1, <4>2
      <4> QED
        BY <1>10, <3>1, <4>1, <4>3, SendItem
    <3> QED
      BY <3>3, <3>4, <3>5
  <2>6. owner # Nobody => watcher'[owner] = watcher[owner]
    BY <1>1, <1>5, <1>15 DEF TrayTyped
  <2>7. HostsKnown(inbox, watcher[owner].hosts)' /\ ItemsKnown(inbox)'
    BY <2>1, <2>5, <2>6 DEF HostsKnown, ItemsKnown, new, hosts
  <2> QED
    BY <1>6, <2>2, <2>3, <2>4, <2>7 DEF TrayInv
<1> QED
  BY <1>14, <1>15

------------------------------------------------------------------------------
LEMMA TrayInitially == TrayInit => TrayInv
<1> SUFFICES ASSUME TrayInit
             PROVE  TrayInv
  OBVIOUS
<1>1. /\ \A b \in Bars : phase[b] = "off" /\ watcher[b] = NoWatcher /\ inbox[b] = <<>>
      /\ owner = Nobody /\ Ready = {}
  BY DEF TrayInit, Ready
<1>2. TrayTyped
  <2>1. NoWatcher \in WatcherType /\ <<>> \in Seq(Message)
    BY DEF NoWatcher, WatcherType
  <2> QED
    BY <2>1 DEF TrayInit, TrayTyped
<1>3. OneWatcher
  BY <1>1, BusNames DEF OneWatcher
<1>4. Addressed(inbox)
  <2>1. \A b \in Bars : DOMAIN inbox[b] = {}
    BY <1>1
  <2> QED
    BY <1>1, <2>1 DEF Addressed, Waiting
<1> QED
  BY <1>1, <1>2, <1>3, <1>4 DEF TrayInv, HostsKnown, ItemsKnown, OwnerSought

LEMMA TrayStep == TrayInv /\ [TrayNext]_trayVars => TrayInv'
<1> SUFFICES ASSUME TrayInv, [TrayNext]_trayVars
             PROVE  TrayInv'
  OBVIOUS
<1>1. CASE UNCHANGED trayVars
  BY <1>1 DEF trayVars, TrayInv, TrayTyped, OneWatcher, Addressed, HostsKnown, ItemsKnown, OwnerSought, Ready
<1>2. ASSUME NEW b \in Bars, CreateWatcher(b) \/ InitHost(b) \/ DestroyTray(b) \/ Deliver(b)
      PROVE  TrayInv'
  BY <1>2, CreateWatcherKeeps, InitHostKeeps, DestroyTrayKeeps, DeliverKeeps
<1>3. ASSUME NEW a \in Apps, AppStart(a) \/ AppRegister(a) \/ AppExit(a)
      PROVE  TrayInv'
  BY <1>3, AppStartKeeps, AppRegisterKeeps, AppExitKeeps
<1> QED
  BY <1>1, <1>2, <1>3 DEF TrayNext

LEMMA TrayInvAgrees == TrayInv => BarsAgree
<1> SUFFICES ASSUME TrayInv
             PROVE  BarsAgree
  OBVIOUS
<1>1. TrayTyped /\ OneWatcher /\ Ready \subseteq Bars
  BY TypedBoxes DEF TrayInv
<1>2. TrayTypeOK
  BY <1>1 DEF TrayTypeOK, TrayTyped, WatcherType
<1>3. ASSUME Quiet, NEW b \in Bars
      PROVE  DOMAIN inbox[b] = {} /\ \A S : ~Waiting(inbox[b], S)
  <2>1. inbox[b] = <<>>
    BY <1>3 DEF Quiet
  <2> QED
    BY <2>1 DEF Waiting
<1>4. HostsAgree
  <2> SUFFICES ASSUME Quiet, owner # Nobody
               PROVE  /\ {b \in Bars : watcher[b].on} = {owner}
                      /\ watcher[owner].hosts = Ready
                      /\ \A b \in Ready : watcher[owner].items \subseteq shown[b]
    BY DEF HostsAgree
  <2>1. owner \in Bars /\ {b \in Bars : watcher[b].on} = {owner} /\ watcher[owner].hosts \subseteq Bars
    BY <1>1 DEF TrayTyped, OneWatcher, NoWatcher, WatcherType
  <2>2. \A Yes, No, x, X : Ends(inbox[owner], Yes, No, x, X) => x \in X
    BY <1>3, <2>1 DEF Ends
  <2>3. ASSUME NEW b \in Bars
        PROVE  b \in watcher[owner].hosts <=> b \in Ready
    <3>1. HostOf(b, inbox[owner], inbox[b], watcher[owner].hosts, Ready)
      BY DEF TrayInv, HostsKnown
    <3> QED
      BY <1>3, <2>2, <3>1 DEF HostOf
  <2>4. ASSUME NEW b \in Ready, NEW a \in watcher[owner].items
        PROVE  a \in shown[b]
    <3>1. b \in Bars /\ ItemOf(b, a, inbox[owner], inbox[b], shown[b])
      BY <1>1 DEF TrayInv, ItemsKnown
    <3>2. Ends(inbox[b], Says(a), Unsays(a), a, shown[b])
      BY <1>3, <2>1, <3>1 DEF ItemOf
    <3> QED
      BY <1>3, <3>1, <3>2 DEF Ends
  <2> QED
    BY <1>1, <2>1, <2>3, <2>4
<1>5. WatcherRestored
  BY <1>1, <1>3 DEF TrayInv, OwnerSought, WatcherRestored
<1> QED
  BY <1>2, <1>4, <1>5 DEF BarsAgree

\* In every state of every run the watcher, the hosts and the messages that
\* are still to be handled agree (watcher.c, host.c).
THEOREM TrayInvariant == TraySpec => []TrayInv
<1>1. TrayInv /\ [TrayNext]_trayVars => TrayInv'
  BY TrayStep
<1> QED
  BY <1>1, TrayInitially, PTL DEF TraySpec

\* Once every message is handled there is one watcher, that of the bar that
\* owns the name; it knows exactly the hosts that run, each of which shows all
\* its items; and there is one unless every tray was late (host.c, watcher.c).
THEOREM TraysAgree == TraySpec => []BarsAgree
BY TrayInvariant, TrayInvAgrees, PTL
=============================================================================
