---------------------------- MODULE FocusProofs ----------------------------
(***************************************************************************)
(* Proofs about three components whose surfaces come and go by the client: *)
(* the session lock, for any sets of outputs, lock surfaces and locks,     *)
(* Xwayland, for any number of windows and objects, and the keyboard,      *)
(* which is where the seat says while what follows it agrees with it, for  *)
(* any surfaces, layers and text inputs.                                   *)
(*                                                                         *)
(* The two properties of Xwayland are not inductive on their own, and      *)
(* inside a handler they do not hold: a window and its object pass through *)
(* states where one is unmapped and the other is not.  The invariant Kept  *)
(* says it locally: a window is Gone or its data names an object that is   *)
(* its owner, and an object is Lone or in step (Hung, Follows) with its    *)
(* window.  Handlers touch one window, its object and at most one that was *)
(* free.                                                                   *)
(*                                                                         *)
(* A change of focus passes through states in which the keyboard is        *)
(* nowhere yet, and a drag withholds it: what holds in every one of them   *)
(* is Steady, and the three predicates KeyboardAgrees, ConstraintAgrees    *)
(* and TextsAgree are each restored, or kept, by every piece of a change.  *)
(***************************************************************************)
EXTENDS SessionLock, Xwayland, KeyboardFocus, SequenceTheorems, WellFoundedInduction,
        NaturalsInduction, TLAPS

(***************************************************************************)
(* The session lock.                                                       *)
(***************************************************************************)

\* A lock surface is on one output, which is covered and whose client lives;
\* no other surface counts as mapped.
SurfacesPlaced ==
  /\ \A o \in Outputs : surface[o] # None => o \in covers /\ ~abandoned
  /\ \A o, p \in Outputs : surface[o] # None /\ surface[o] = surface[p] => o = p
  /\ \A z \in mapped : \E o \in Outputs : surface[o] = z

\* A lock is abandoned when its client is gone; else its client holds it.
AbandonedLock ==
  /\ abandoned => lock # None
  /\ lock # None => client[lock] = IF abandoned THEN "gone" ELSE "holds"

\* The inductive invariant.
IInv ==
  /\ TypeOK
  /\ OutputsCovered
  /\ FocusOnMapped
  /\ RedWhenAbandoned
  /\ SurfacesPlaced
  /\ AbandonedLock

------------------------------------------------------------------------------
\* Where no surface is left there is nothing to focus.
LEMMA NothingShown ==
  ASSUME covers \subseteq Outputs, \A o \in Outputs : surface[o] = None
  PROVE  Shown = {}
BY DEF Shown

\* The initial states satisfy the invariant: there is no lock.
LEMMA InitInv == Init => IInv
<1> SUFFICES ASSUME Init PROVE IInv
  OBVIOUS
<1>1. TypeOK
  BY DEF Init, TypeOK, OutputLife, ClientLife
<1>2. OutputsCovered /\ RedWhenAbandoned /\ AbandonedLock
  BY DEF Init, OutputsCovered, RedWhenAbandoned, AbandonedLock, Connected
<1>3. FocusOnMapped
  BY DEF Init, FocusOnMapped, Shown
<1>4. SurfacesPlaced
  BY NoneIsNoObject DEF Init, SurfacesPlaced
<1> QED
  BY <1>1, <1>2, <1>3, <1>4 DEF IInv

\* Refocus picks nothing, or a mapped surface of another covered output; it
\* picks nothing only when there is none.
LEMMA RefocusChoice ==
  ASSUME IInv, NEW o \in Outputs, surface[o] # None, NEW z \in Refocus(o)
  PROVE  /\ z \in Surfaces \cup {None}
         /\ z # None => \E x \in covers \ {o} : surface[x] = z /\ z \in mapped
         /\ (\E x \in covers \ {o} : surface[x] \in mapped) => z # None
<1> DEFINE C == {x \in covers \ {o} : surface[x] \in mapped}
<1>1. TypeOK /\ FocusOnMapped /\ SurfacesPlaced
  BY DEF IInv
<1>2. mapped \subseteq Surfaces /\ None \notin Surfaces /\ covers \subseteq Outputs
  BY <1>1, NoneIsNoObject DEF TypeOK
<1>3. CASE focused # surface[o]
  <2>1. z = focused
    BY <1>3 DEF Refocus
  <2>2. focused # None => \E x \in covers : surface[x] = focused /\ focused \in mapped
    BY <1>1 DEF FocusOnMapped, Shown
  <2>3. focused # None => \E x \in covers \ {o} : surface[x] = focused /\ focused \in mapped
    BY <2>2, <1>3
  <2>4. ASSUME NEW x \in covers \ {o}, surface[x] \in mapped PROVE focused # None
    BY <2>4, <1>1, <1>2 DEF FocusOnMapped, Shown
  <2> QED
    BY <2>1, <2>3, <2>4, <1>1 DEF TypeOK
<1>4. CASE focused = surface[o] /\ C = {}
  <2>1. z = None
    BY <1>4 DEF Refocus
  <2> QED
    BY <2>1, <1>4
<1>5. CASE focused = surface[o] /\ C # {}
  <2>1. \E x \in C : z = surface[x]
    BY <1>5 DEF Refocus
  <2> QED
    BY <2>1, <1>2
<1> QED
  BY <1>3, <1>4, <1>5

\* Taking the surface of output o away keeps the focus where it should be,
\* whether the cover of o stays (handle_surface_destroy) or goes with it.
LEMMA SurfaceGone ==
  ASSUME IInv, NEW o \in Outputs, surface[o] # None,
         focused' \in Refocus(o),
         surface' = [surface EXCEPT ![o] = None],
         mapped' = mapped \ {surface[o]},
         covers \ {o} \subseteq covers', covers' \subseteq covers,
         UNCHANGED abandoned
  PROVE  FocusOnMapped' /\ SurfacesPlaced'
<1>1. TypeOK /\ SurfacesPlaced
  BY DEF IInv
<1>2. /\ focused' # None => \E x \in covers \ {o} : surface[x] = focused' /\ focused' \in mapped
      /\ (\E x \in covers \ {o} : surface[x] \in mapped) => focused' # None
  BY RefocusChoice
<1>3. surface'[o] = None /\ \A x \in Outputs \ {o} : surface'[x] = surface[x]
  BY <1>1 DEF TypeOK
<1>4. \A x \in covers \ {o} : surface[x] # surface[o]
  BY <1>1 DEF SurfacesPlaced, TypeOK
<1>5. SurfacesPlaced'
  <2>1. ASSUME NEW z \in mapped' PROVE \E x \in Outputs : surface'[x] = z
    <3>1. PICK x \in Outputs : surface[x] = z
      BY <2>1, <1>1 DEF SurfacesPlaced
    <3> QED
      BY <3>1, <1>3
  <2>2. \A x \in Outputs : surface'[x] # None => x \in covers' /\ ~abandoned'
    BY <1>1, <1>3 DEF SurfacesPlaced
  <2>3. \A x, y \in Outputs : surface'[x] # None /\ surface'[x] = surface'[y] => x = y
    BY <1>1, <1>3 DEF SurfacesPlaced
  <2> QED
    BY <2>1, <2>2, <2>3 DEF SurfacesPlaced
<1>6. focused' # None => focused' \in Shown' \cap mapped'
  <2> SUFFICES ASSUME focused' # None PROVE focused' \in Shown' \cap mapped'
    OBVIOUS
  <2>1. PICK x \in covers \ {o} : surface[x] = focused' /\ focused' \in mapped
    BY <1>2
  <2>2. x \in covers' /\ surface'[x] = focused' /\ focused' \in mapped'
    BY <2>1, <1>1, <1>3, <1>4 DEF TypeOK
  <2> QED
    BY <2>2 DEF Shown
<1>7. Shown' \cap mapped' # {} => focused' # None
  <2> SUFFICES ASSUME NEW z \in Shown' \cap mapped' PROVE focused' # None
    OBVIOUS
  <2>1. PICK x \in covers' : surface'[x] = z
    BY DEF Shown
  <2>2. z # None
    BY DEF Shown
  <2>3. x \in covers \ {o} /\ surface[x] \in mapped
    BY <2>1, <2>2, <1>1, <1>3 DEF TypeOK
  <2> QED
    BY <2>3, <1>2
<1> QED
  BY <1>5, <1>6, <1>7 DEF FocusOnMapped

\* Destroying all covers leaves nothing shown, mapped or focused.
LEMMA AllGone ==
  ASSUME CoversDestroyed, covers' \subseteq Outputs
  PROVE  FocusOnMapped' /\ SurfacesPlaced' /\ red' = {}
BY NoneIsNoObject DEF CoversDestroyed, FocusOnMapped, SurfacesPlaced, Shown

------------------------------------------------------------------------------
(***************************************************************************)
(* One lemma per handler.                                                  *)
(***************************************************************************)
LEMMA HandleNewSurfaceInv ==
  ASSUME IInv, NEW o \in Outputs, NEW z \in Surfaces, HandleNewSurface(o, z)
  PROVE  IInv'
<1>1. TypeOK'
  BY DEF IInv, TypeOK, HandleNewSurface
<1>2. OutputsCovered' /\ RedWhenAbandoned' /\ AbandonedLock'
  BY DEF IInv, OutputsCovered, RedWhenAbandoned, AbandonedLock, Connected, HandleNewSurface
<1>3. surface'[o] = z /\ z # None /\ (\A x \in Outputs \ {o} : surface'[x] = surface[x])
  BY NoneIsNoObject DEF IInv, TypeOK, HandleNewSurface
<1>4. o \in covers /\ z \notin mapped /\ \A x \in Outputs : surface[x] # z
  BY <1>3 DEF IInv, OutputsCovered, SurfacesPlaced, Connected, Shown, HandleNewSurface
<1>5. SurfacesPlaced'
  <2>1. SurfacesPlaced /\ ~abandoned /\ surface[o] = None
        /\ covers' = covers /\ mapped' = mapped /\ abandoned' = abandoned
    BY DEF IInv, HandleNewSurface
  <2>2. \A x \in Outputs : surface'[x] # None => x \in covers' /\ ~abandoned'
    BY <1>3, <1>4, <2>1 DEF SurfacesPlaced
  <2>3. \A x, y \in Outputs : surface'[x] # None /\ surface'[x] = surface'[y] => x = y
    BY <1>3, <1>4, <2>1 DEF SurfacesPlaced
  <2>4. ASSUME NEW g \in mapped' PROVE \E x \in Outputs : surface'[x] = g
    <3>1. PICK x \in Outputs : surface[x] = g
      BY <2>1, <2>4 DEF SurfacesPlaced
    <3>2. CASE x = o
      <4>1. g = None /\ g \in Surfaces
        BY <2>1, <2>4, <3>1, <3>2 DEF IInv, TypeOK
      <4> QED
        BY <4>1, NoneIsNoObject
    <3> QED
      BY <1>3, <3>1, <3>2
  <2> QED
    BY <2>2, <2>3, <2>4 DEF SurfacesPlaced
<1>6. Shown' \cap mapped' = Shown \cap mapped
  <2>1. ASSUME NEW g \in mapped PROVE g \in Shown' <=> g \in Shown
    BY <1>3, <1>4, <2>1 DEF IInv, TypeOK, Shown, HandleNewSurface
  <2> QED
    BY <2>1 DEF HandleNewSurface
<1>7. FocusOnMapped'
  BY <1>6 DEF IInv, FocusOnMapped, HandleNewSurface
<1> QED
  BY <1>1, <1>2, <1>5, <1>7 DEF IInv

LEMMA HandleSurfaceMapInv ==
  ASSUME IInv, NEW o \in Outputs, HandleSurfaceMap(o)
  PROVE  IInv'
<1>1. TypeOK'
  BY DEF IInv, TypeOK, HandleSurfaceMap, SurfaceMap
<1>2. OutputsCovered' /\ RedWhenAbandoned' /\ AbandonedLock' /\ SurfacesPlaced'
  BY DEF IInv, OutputsCovered, RedWhenAbandoned, AbandonedLock, SurfacesPlaced, Connected,
         HandleSurfaceMap
<1>3. surface[o] \in Shown
  BY DEF IInv, SurfacesPlaced, Shown, HandleSurfaceMap
<1>4. Shown' = Shown /\ mapped' = mapped \cup {surface[o]}
  BY DEF Shown, HandleSurfaceMap
<1>5. surface[o] # None /\ focused' = IF focused = None THEN surface[o] ELSE focused
  BY DEF HandleSurfaceMap, SurfaceMap
<1>6. focused' # None /\ focused' \in Shown \cap mapped'
  BY <1>3, <1>4, <1>5 DEF IInv, FocusOnMapped
<1>7. FocusOnMapped'
  BY <1>4, <1>6 DEF FocusOnMapped
<1> QED
  BY <1>1, <1>2, <1>7 DEF IInv

LEMMA HandleSurfaceDestroyInv ==
  ASSUME IInv, NEW o \in Outputs, HandleSurfaceDestroy(o)
  PROVE  IInv'
<1>1. focused' \in Surfaces \cup {None}
  BY RefocusChoice DEF HandleSurfaceDestroy
<1>2. TypeOK'
  BY <1>1 DEF IInv, TypeOK, HandleSurfaceDestroy
<1>3. OutputsCovered' /\ RedWhenAbandoned' /\ AbandonedLock'
  BY DEF IInv, OutputsCovered, RedWhenAbandoned, AbandonedLock, Connected, HandleSurfaceDestroy
<1>4. FocusOnMapped' /\ SurfacesPlaced'
  BY SurfaceGone DEF HandleSurfaceDestroy
<1> QED
  BY <1>2, <1>3, <1>4 DEF IInv

LEMMA HandleSessionLockInv ==
  ASSUME IInv, NEW l \in Locks, HandleSessionLock(l)
  PROVE  IInv'
<1>1. CASE lock # None /\ ~abandoned
  <2>1. /\ client[l] = "new" /\ client' = [client EXCEPT ![l] = "refused"]
        /\ UNCHANGED <<running, output, lock, abandoned, focused, covers, red, surface, mapped>>
    BY <1>1 DEF HandleSessionLock
  <2>2. TypeOK' /\ OutputsCovered' /\ FocusOnMapped' /\ RedWhenAbandoned' /\ SurfacesPlaced'
    BY <2>1 DEF IInv, TypeOK, ClientLife, OutputsCovered, FocusOnMapped, RedWhenAbandoned,
                SurfacesPlaced, Connected, Shown
  <2>3. l # lock
    BY <1>1, <2>1 DEF IInv, AbandonedLock
  <2>4. AbandonedLock'
    BY <2>1, <2>3 DEF IInv, TypeOK, AbandonedLock
  <2> QED
    BY <2>2, <2>4 DEF IInv
<1>2. CASE lock = None \/ abandoned
  <2>1. /\ CoversDestroyed /\ lock' = l /\ abandoned' = FALSE /\ covers' = Connected
        /\ client' = [client EXCEPT ![l] = "holds"] /\ UNCHANGED <<running, output>>
    BY <1>2, NoneIsNoObject DEF HandleSessionLock
  <2>2. TypeOK'
    BY <2>1 DEF IInv, TypeOK, ClientLife, CoversDestroyed, Connected
  <2>3. OutputsCovered' /\ AbandonedLock'
    BY <2>1, NoneIsNoObject DEF IInv, TypeOK, OutputsCovered, AbandonedLock, Connected
  <2>4. FocusOnMapped' /\ SurfacesPlaced' /\ red' = {}
    BY <2>1, AllGone DEF Connected
  <2> QED
    BY <2>1, <2>2, <2>3, <2>4 DEF IInv, RedWhenAbandoned
<1> QED
  BY <1>1, <1>2

\* An unlock and the shutdown leave no lock and no cover.
LEMMA UnlockedInv ==
  ASSUME IInv, CoversDestroyed, lock' = None, covers' = {}, abandoned' = FALSE,
         running' \in BOOLEAN, client' \in [Locks -> ClientLife], UNCHANGED output
  PROVE  IInv'
<1>1. TypeOK'
  BY DEF IInv, TypeOK, CoversDestroyed
<1>2. OutputsCovered' /\ AbandonedLock'
  BY DEF OutputsCovered, AbandonedLock, Connected
<1>3. FocusOnMapped' /\ SurfacesPlaced' /\ red' = {}
  BY AllGone
<1> QED
  BY <1>1, <1>2, <1>3 DEF IInv, RedWhenAbandoned

LEMMA HandleAbandonInv ==
  ASSUME IInv, HandleAbandon
  PROVE  IInv'
<1>1. \A o \in Outputs : surface[o] = None
  BY DEF IInv, SurfacesPlaced, Shown, HandleAbandon
<1>2. TypeOK' /\ AbandonedLock' /\ RedWhenAbandoned'
  BY DEF IInv, TypeOK, ClientLife, AbandonedLock, RedWhenAbandoned, HandleAbandon
<1>3. OutputsCovered' /\ FocusOnMapped'
  BY DEF IInv, OutputsCovered, FocusOnMapped, Connected, Shown, HandleAbandon
<1>4. SurfacesPlaced'
  BY <1>1 DEF IInv, SurfacesPlaced, HandleAbandon
<1> QED
  BY <1>2, <1>3, <1>4 DEF IInv

LEMMA HandleNewOutputInv ==
  ASSUME IInv, NEW o \in Outputs, HandleNewOutput(o)
  PROVE  IInv'
<1>1. surface[o] = None
  BY DEF IInv, SurfacesPlaced, OutputsCovered, HandleNewOutput
<1>2. TypeOK' /\ AbandonedLock'
  BY DEF IInv, TypeOK, OutputLife, AbandonedLock, HandleNewOutput, Cover
<1>3. OutputsCovered'
  BY DEF IInv, TypeOK, OutputsCovered, Connected, HandleNewOutput
<1>4. RedWhenAbandoned'
  BY DEF IInv, RedWhenAbandoned, AbandonedLock, HandleNewOutput, Cover
<1>5. Shown' = Shown
  BY <1>1 DEF Shown, HandleNewOutput
<1>6. FocusOnMapped' /\ SurfacesPlaced'
  BY <1>5 DEF IInv, FocusOnMapped, SurfacesPlaced, HandleNewOutput
<1> QED
  BY <1>2, <1>3, <1>4, <1>6 DEF IInv

LEMMA BeginDestroyInv ==
  ASSUME IInv, NEW o \in Outputs, BeginDestroy(o)
  PROVE  IInv'
<1>1. TypeOK' /\ OutputsCovered'
  BY DEF IInv, TypeOK, OutputLife, OutputsCovered, Connected, BeginDestroy
<1>2. FocusOnMapped' /\ RedWhenAbandoned' /\ SurfacesPlaced' /\ AbandonedLock'
  BY DEF IInv, FocusOnMapped, RedWhenAbandoned, SurfacesPlaced, AbandonedLock, Shown, BeginDestroy
<1> QED
  BY <1>1, <1>2 DEF IInv

LEMMA OutputDestroyInv ==
  ASSUME IInv, NEW o \in Outputs, OutputDestroy(o)
  PROVE  IInv'
<1>1. focused' \in Surfaces \cup {None}
  BY RefocusChoice DEF IInv, TypeOK, OutputDestroy
<1>2. TypeOK'
  BY <1>1 DEF IInv, TypeOK, OutputLife, OutputDestroy
<1>3. OutputsCovered' /\ RedWhenAbandoned' /\ AbandonedLock'
  BY DEF IInv, TypeOK, OutputsCovered, RedWhenAbandoned, AbandonedLock, Connected, OutputDestroy
<1>4. CASE surface[o] # None
  <2>1. FocusOnMapped' /\ SurfacesPlaced'
    BY <1>4, SurfaceGone DEF OutputDestroy
  <2> QED
    BY <2>1, <1>2, <1>3 DEF IInv
<1>5. CASE surface[o] = None
  <2>1. Shown' = Shown
    BY <1>5 DEF Shown, OutputDestroy
  <2>2. FocusOnMapped' /\ SurfacesPlaced'
    BY <1>5, <2>1 DEF IInv, FocusOnMapped, SurfacesPlaced, OutputDestroy
  <2> QED
    BY <2>2, <1>2, <1>3 DEF IInv
<1> QED
  BY <1>4, <1>5

LEMMA NextInv == IInv /\ [Next]_vars => IInv'
<1> SUFFICES ASSUME IInv, [Next]_vars PROVE IInv'
  OBVIOUS
<1>1. ASSUME NEW o \in Outputs, NEW z \in Surfaces, HandleNewSurface(o, z) PROVE IInv'
  BY <1>1, HandleNewSurfaceInv
<1>2. ASSUME NEW o \in Outputs, HandleSurfaceMap(o) PROVE IInv'
  BY <1>2, HandleSurfaceMapInv
<1>3. ASSUME NEW o \in Outputs, HandleSurfaceDestroy(o) PROVE IInv'
  BY <1>3, HandleSurfaceDestroyInv
<1>4. ASSUME NEW o \in Outputs, HandleNewOutput(o) PROVE IInv'
  BY <1>4, HandleNewOutputInv
<1>5. ASSUME NEW o \in Outputs, BeginDestroy(o) PROVE IInv'
  BY <1>5, BeginDestroyInv
<1>6. ASSUME NEW o \in Outputs, OutputDestroy(o) PROVE IInv'
  BY <1>6, OutputDestroyInv
<1>7. ASSUME NEW l \in Locks, HandleSessionLock(l) PROVE IInv'
  BY <1>7, HandleSessionLockInv
<1>8. CASE HandleUnlock
  BY <1>8, UnlockedInv DEF IInv, TypeOK, ClientLife, HandleUnlock
<1>9. CASE HandleAbandon
  BY <1>9, HandleAbandonInv
<1>10. CASE HandleSessionLockDestroy
  BY <1>10, UnlockedInv DEF IInv, TypeOK, HandleSessionLockDestroy
<1>11. CASE UNCHANGED vars
  BY <1>11 DEF vars, IInv, TypeOK, OutputsCovered, FocusOnMapped, RedWhenAbandoned,
               SurfacesPlaced, AbandonedLock, Connected, Shown
<1> QED
  BY <1>1, <1>2, <1>3, <1>4, <1>5, <1>6, <1>7, <1>8, <1>9, <1>10, <1>11 DEF Next

------------------------------------------------------------------------------
(***************************************************************************)
(* The theorems.                                                           *)
(***************************************************************************)

\* The invariant holds in every state.
LEMMA Invariant == Spec => []IInv
BY InitInv, NextInv, PTL DEF Spec

\* The state keeps its types.
THEOREM LockTypes == Spec => []TypeOK
<1>1. IInv => TypeOK
  BY DEF IInv
<1> QED
  BY <1>1, Invariant, PTL

\* Every output is covered while there is a lock, however outputs and clients
\* come and go, and no cover stays behind.
THEOREM LockCovers == Spec => []OutputsCovered
<1>1. IInv => OutputsCovered
  BY DEF IInv
<1> QED
  BY <1>1, Invariant, PTL

\* The focus of the lock is on a mapped lock surface whenever there is one.
THEOREM LockFocus == Spec => []FocusOnMapped
<1>1. IInv => FocusOnMapped
  BY DEF IInv
<1> QED
  BY <1>1, Invariant, PTL

\* The covers tell whether the client of the lock still lives.
THEOREM LockColour == Spec => []RedWhenAbandoned
<1>1. IInv => RedWhenAbandoned
  BY DEF IInv
<1> QED
  BY <1>1, Invariant, PTL

\* A lock that is in place hides everything and takes the keys, on every output
\* and after any order of events.
THEOREM LockIsTight == Spec => []LockHolds
<1>1. IInv => LockHolds
  BY DEF IInv, LockHolds
<1> QED
  BY <1>1, Invariant, PTL

\* Before shutdown only its own client ends a lock, unless that client died and
\* another lock replaces it.
THEOREM LockEnds == Spec => LockedUntilUnlocked
<1>1. IInv /\ [Next]_vars
      => [running' /\ lock # None /\ lock' # lock
          => \/ client'[lock] = "unlocked"
             \/ client[lock] = "gone" /\ lock' # None]_vars
  <2> SUFFICES ASSUME IInv, Next, running', lock # None, lock' # lock
               PROVE  \/ client'[lock] = "unlocked"
                      \/ client[lock] = "gone" /\ lock' # None
    BY DEF vars
  <2>1. ASSUME NEW l \in Locks, HandleSessionLock(l)
        PROVE  client[lock] = "gone" /\ lock' # None
    BY <2>1, NoneIsNoObject DEF IInv, AbandonedLock, HandleSessionLock
  <2>2. CASE HandleUnlock
    BY <2>2 DEF IInv, TypeOK, HandleUnlock
  <2> QED
    BY <2>1, <2>2 DEF Next, HandleNewSurface, HandleSurfaceMap, HandleSurfaceDestroy, HandleNewOutput,
       BeginDestroy, OutputDestroy, HandleAbandon, HandleSessionLockDestroy
<1> QED
  BY <1>1, Invariant, PTL DEF Spec, LockedUntilUnlocked

------------------------------------------------------------------------------
(***************************************************************************)
(* Xwayland.                                                               *)
(***************************************************************************)

Hangs(b, o) == IF b THEN {o} ELSE {}

\* What hangs on a window v is what its object r, at o, says of itself.
Hung(v, r, o) ==
  /\ v.alive /\ v.data = o /\ v.handlers = {o}
  /\ v.mapHandlers = Hangs(r.associated, o)
  /\ v.commitHandlers = Hangs(r.commitActive, o)
  /\ v.geometryHandlers = Hangs(r.kind = "unmanaged" /\ r.mapped, o)
  /\ r.kind # "free" /\ ~r.destroying /\ (r.mapped => r.associated)
  /\ r.commitActive <=> r.kind = "view" /\ r.mapped
  /\ r.container = "live" <=> r.kind = "view" /\ r.mapped
  /\ r.kind = "unmanaged" => r.container = "none"
  /\ r.timer => r.kind = "view" /\ r.mapped /\ r.urgent

\* The object is as the window is.
Follows(v, r) ==
  /\ r.associated <=> v.surface # "none"
  /\ r.mapped <=> v.surface = "mapped"
  /\ r.kind = "unmanaged" => v.redirect

\* An object without a window: free, or kept for its container.
Lone(r) ==
  \/ r = Free
  \/ /\ r.kind = "view" /\ r.window = NoWindow
     /\ ~r.associated /\ ~r.mapped /\ ~r.commitActive /\ ~r.timer
     /\ r.destroying /\ r.container = "dying"

Paired(s, o) ==
  LET w == s.own[o].window
  IN w \in Windows /\ Hung(s.win[w], s.own[o], o) /\ Follows(s.win[w], s.own[o])

Claimed(s, w) ==
  s.win[w].data \in Owners /\ s.own[s.win[w].data].window = w

Kept(s) ==
  /\ s \in XState
  /\ \A o \in Owners : Lone(s.own[o]) \/ Paired(s, o)
  /\ \A w \in Windows : s.win[w] = Gone \/ Claimed(s, w)

------------------------------------------------------------------------------
(***************************************************************************)
(* Changes stay local.                                                     *)
(***************************************************************************)
Elsewhere(t, s, w, here) ==
  /\ \A x \in Windows \ {w} : t.win[x] = s.win[x]
  /\ \A x \in Owners \ here : t.own[x] = s.own[x]

LEMMA LoneHasNoWindow ==
  ASSUME NEW r, Lone(r)
  PROVE  r.window = NoWindow /\ NoWindow \notin Windows
BY XwaylandConstants DEF Lone, Free, Made

LEMMA OneOwner ==
  ASSUME NEW s, Kept(s), NEW o \in Owners, NEW w \in Windows, s.own[o].window = w
  PROVE  /\ Hung(s.win[w], s.own[o], o) /\ Follows(s.win[w], s.own[o])
         /\ \A x \in Owners \ {o} : s.own[x].window # w
<1>1. ASSUME NEW x \in Owners, s.own[x].window = w
      PROVE  Hung(s.win[w], s.own[x], x) /\ Follows(s.win[w], s.own[x])
  <2>1. ~Lone(s.own[x])
    BY <1>1, LoneHasNoWindow
  <2> QED
    BY <1>1, <2>1 DEF Kept, Paired
<1> QED
  BY <1>1 DEF Hung

LEMMA LocalChange ==
  ASSUME NEW s, Kept(s), NEW t \in XState, NEW w \in Windows, NEW here \in SUBSET Owners,
         Elsewhere(t, s, w, here),
         \A x \in Owners \ here : s.own[x].window # w,
         \A x \in here : s.own[x].window \in {w, NoWindow},
         \A x \in here : Lone(t.own[x]) \/ Paired(t, x),
         t.win[w] = Gone \/ Claimed(t, w)
  PROVE  Kept(t)
<1>1. ASSUME NEW x \in Owners PROVE Lone(t.own[x]) \/ Paired(t, x)
  <2>1. CASE x \in here
    BY <2>1
  <2>2. CASE x \notin here
    BY <2>2 DEF Elsewhere, Kept, Paired
  <2> QED
    BY <2>1, <2>2
<1>2. ASSUME NEW y \in Windows PROVE t.win[y] = Gone \/ Claimed(t, y)
  <2>1. CASE y = w
    BY <2>1
  <2>2. CASE y # w
    <3>1. t.win[y] = s.win[y]
      BY <2>2 DEF Elsewhere
    <3>2. CASE Claimed(s, y)
      <4>1. s.win[y].data \notin here
        BY <2>2, <3>2, XwaylandConstants DEF Claimed
      <4> QED
        BY <3>1, <3>2, <4>1 DEF Claimed, Elsewhere
    <3> QED
      BY <3>1, <3>2 DEF Kept
  <2> QED
    BY <2>1, <2>2
<1> QED
  BY <1>1, <1>2 DEF Kept

------------------------------------------------------------------------------
(***************************************************************************)
(* The pieces of the handlers, between two objects that are Hung.          *)
(***************************************************************************)
SameWindow(v, u) ==
  v.alive = u.alive /\ v.redirect = u.redirect /\ v.geometry = u.geometry /\ v.surface = u.surface

Holds(s, w, o) == s.own[o].window = w /\ Hung(s.win[w], s.own[o], o)

Changed(t, s, w, o) ==
  /\ t \in XState /\ Elsewhere(t, s, w, {o})
  /\ SameWindow(t.win[w], s.win[w]) /\ t.own[o].kind = s.own[o].kind

\* The state s with one window and one object replaced.
Put(s, w, v, o, r) == [win |-> [s.win EXCEPT ![w] = v], own |-> [s.own EXCEPT ![o] = r]]

LEMMA PutFields ==
  ASSUME NEW s \in XState, NEW w \in Windows, NEW v \in Window, NEW o \in Owners, NEW r \in Owner
  PROVE  /\ Put(s, w, v, o, r) \in XState /\ Elsewhere(Put(s, w, v, o, r), s, w, {o})
         /\ Put(s, w, v, o, r).win[w] = v /\ Put(s, w, v, o, r).own[o] = r
BY DEF Put, XState, Elsewhere

LEMMA ChangedTwice ==
  ASSUME NEW s, NEW t, NEW u, NEW w, NEW o, Changed(t, s, w, o), Changed(u, t, w, o)
  PROVE  Changed(u, s, w, o)
BY DEF Changed, Elsewhere, SameWindow

LEMMA ChangedNot ==
  ASSUME NEW s \in XState, NEW w, NEW o
  PROVE  Changed(s, s, w, o)
BY DEF Changed, Elsewhere, SameWindow

LEMMA PutHolds ==
  ASSUME NEW s \in XState, NEW w \in Windows, NEW v \in Window, NEW o \in Owners, NEW r \in Owner,
         SameWindow(v, s.win[w]), r.kind = s.own[o].kind, r.window = w, Hung(v, r, o)
  PROVE  LET t == Put(s, w, v, o, r)
         IN  Changed(t, s, w, o) /\ Holds(t, w, o) /\ t.win[w] = v /\ t.own[o] = r
<1> DEFINE t == Put(s, w, v, o, r)
<1>1. t \in XState /\ Elsewhere(t, s, w, {o}) /\ t.win[w] = v /\ t.own[o] = r
  BY PutFields
<1> HIDE DEF t
<1> QED
  BY <1>1 DEF Changed, Holds, t

LEMMA Records ==
  ASSUME NEW s \in XState, NEW w \in Windows, NEW o \in Owners
  PROVE  s.win[w] \in Window /\ s.own[o] \in Owner
BY DEF XState

LEMMA ViewUnmapped ==
  ASSUME NEW s \in XState, NEW w \in Windows, NEW o \in Owners, Holds(s, w, o), s.own[o].kind = "view"
  PROVE  LET t == HandleUnmap(s, w, o)
         IN  /\ Changed(t, s, w, o) /\ Holds(t, w, o)
             /\ ~t.own[o].mapped /\ t.own[o].associated = s.own[o].associated
<1>1. CASE ~s.own[o].mapped
  BY <1>1, ChangedNot DEF HandleUnmap
<1>2. CASE s.own[o].mapped
  <2> DEFINE v == [s.win[w] EXCEPT !.commitHandlers = s.win[w].commitHandlers \ {o}]
             r == [s.own[o] EXCEPT !.commitActive = FALSE, !.mapped = FALSE, !.scene = "none",
                                   !.timer = FALSE, !.container = "dying"]
  <2>1. s.win[w] \in Window /\ s.own[o] \in Owner
    BY Records
  <2>2. v \in Window /\ r \in Owner
    BY <2>1 DEF Window, Owner
  <2>3. SameWindow(v, s.win[w]) /\ r.kind = s.own[o].kind /\ r.window = w
        /\ ~r.mapped /\ r.associated = s.own[o].associated
    BY <2>1 DEF Window, Owner, SameWindow, Holds
  <2>4. Hung(v, r, o)
    BY <2>1 DEF Holds, Hung, Hangs, Window, Owner
  <2>5. HandleUnmap(s, w, o) = Put(s, w, v, o, r)
    BY <1>2 DEF HandleUnmap, Put, XState
  <2> HIDE DEF v, r
  <2> QED
    BY <2>2, <2>3, <2>4, <2>5, PutHolds
<1> QED
  BY <1>1, <1>2

LEMMA UnmanagedUnmapped ==
  ASSUME NEW s \in XState, NEW w \in Windows, NEW o \in Owners, Holds(s, w, o),
         s.own[o].kind = "unmanaged"
  PROVE  LET t == UnmanagedUnmap(s, w, o)
         IN  /\ Changed(t, s, w, o) /\ Holds(t, w, o)
             /\ ~t.own[o].mapped /\ t.own[o].associated = s.own[o].associated
<1>1. CASE ~s.own[o].mapped
  BY <1>1, ChangedNot DEF UnmanagedUnmap
<1>2. CASE s.own[o].mapped
  <2> DEFINE v == [s.win[w] EXCEPT !.geometryHandlers = s.win[w].geometryHandlers \ {o}]
             r == [s.own[o] EXCEPT !.mapped = FALSE, !.scene = "none"]
  <2>1. s.win[w] \in Window /\ s.own[o] \in Owner
    BY Records
  <2>2. v \in Window /\ r \in Owner
    BY <2>1 DEF Window, Owner
  <2>3. SameWindow(v, s.win[w]) /\ r.kind = s.own[o].kind /\ r.window = w
        /\ ~r.mapped /\ r.associated = s.own[o].associated
    BY <2>1 DEF Window, Owner, SameWindow, Holds
  <2>4. Hung(v, r, o)
    BY <2>1 DEF Holds, Hung, Hangs, Window, Owner
  <2>5. UnmanagedUnmap(s, w, o) = Put(s, w, v, o, r)
    BY <1>2 DEF UnmanagedUnmap, Put, XState
  <2> HIDE DEF v, r
  <2> QED
    BY <2>2, <2>3, <2>4, <2>5, PutHolds
<1> QED
  BY <1>1, <1>2

LEMMA UnhangHolds ==
  ASSUME NEW s \in XState, NEW w \in Windows, NEW o \in Owners, Holds(s, w, o), ~s.own[o].mapped
  PROVE  LET t == Unhang(s, w, o)
         IN  Changed(t, s, w, o) /\ Holds(t, w, o) /\ ~t.own[o].mapped /\ ~t.own[o].associated
<1> DEFINE v == [s.win[w] EXCEPT !.mapHandlers = s.win[w].mapHandlers \ {o}]
           r == [s.own[o] EXCEPT !.associated = FALSE]
<1>1. s.win[w] \in Window /\ s.own[o] \in Owner
  BY Records
<1>2. v \in Window /\ r \in Owner
  BY <1>1 DEF Window, Owner
<1>3. SameWindow(v, s.win[w]) /\ r.kind = s.own[o].kind /\ r.window = w
      /\ ~r.mapped /\ ~r.associated
  BY <1>1 DEF Window, Owner, SameWindow, Holds
<1>4. Hung(v, r, o)
  BY <1>1 DEF Holds, Hung, Hangs, Window, Owner
<1>5. Unhang(s, w, o) = Put(s, w, v, o, r)
  BY DEF Unhang, Put, XState
<1> HIDE DEF v, r
<1> QED
  BY <1>2, <1>3, <1>4, <1>5, PutHolds

LEMMA DissociateView ==
  ASSUME NEW s \in XState, NEW w \in Windows, NEW o \in Owners, Holds(s, w, o), s.own[o].kind = "view"
  PROVE  LET t == HandleDissociate(s, w, o)
         IN  Changed(t, s, w, o) /\ Holds(t, w, o) /\ ~t.own[o].mapped /\ ~t.own[o].associated
<1>1. CASE ~s.own[o].associated
  <2>1. ~s.own[o].mapped
    BY <1>1 DEF Holds, Hung
  <2> QED
    BY <1>1, <2>1, ChangedNot DEF HandleDissociate
<1>2. CASE s.own[o].associated
  <2> DEFINE t == HandleUnmap(s, w, o)
  <2>1. t \in XState /\ Changed(t, s, w, o) /\ Holds(t, w, o) /\ ~t.own[o].mapped
    BY ViewUnmapped DEF Changed
  <2>2. HandleDissociate(s, w, o) = Unhang(t, w, o)
    BY <1>2 DEF HandleDissociate
  <2> HIDE DEF t
  <2> QED
    BY <2>1, <2>2, UnhangHolds, ChangedTwice
<1> QED
  BY <1>1, <1>2

LEMMA DissociateUnmanaged ==
  ASSUME NEW s \in XState, NEW w \in Windows, NEW o \in Owners, Holds(s, w, o),
         s.own[o].kind = "unmanaged"
  PROVE  LET t == UnmanagedDissociate(s, w, o)
         IN  Changed(t, s, w, o) /\ Holds(t, w, o) /\ ~t.own[o].mapped /\ ~t.own[o].associated
<1>1. CASE ~s.own[o].associated
  <2>1. ~s.own[o].mapped
    BY <1>1 DEF Holds, Hung
  <2> QED
    BY <1>1, <2>1, ChangedNot DEF UnmanagedDissociate
<1>2. CASE s.own[o].associated
  <2> DEFINE t == UnmanagedUnmap(s, w, o)
  <2>1. t \in XState /\ Changed(t, s, w, o) /\ Holds(t, w, o) /\ ~t.own[o].mapped
    BY UnmanagedUnmapped DEF Changed
  <2>2. UnmanagedDissociate(s, w, o) = Unhang(t, w, o)
    BY <1>2 DEF UnmanagedDissociate
  <2> HIDE DEF t
  <2> QED
    BY <2>1, <2>2, UnhangHolds, ChangedTwice
<1> QED
  BY <1>1, <1>2

\* A window from which its object has gone.
Left(t, s, w, o) ==
  /\ t \in XState /\ Elsewhere(t, s, w, {o}) /\ SameWindow(t.win[w], s.win[w])
  /\ t.win[w].handlers = {} /\ t.win[w].mapHandlers = {}
  /\ t.win[w].commitHandlers = {} /\ t.win[w].geometryHandlers = {}
  /\ Lone(t.own[o])

LEMMA ChangedLeft ==
  ASSUME NEW s, NEW t, NEW u, NEW w, NEW o, Changed(t, s, w, o), Left(u, t, w, o)
  PROVE  Left(u, s, w, o)
BY DEF Changed, Left, Elsewhere, SameWindow

LEMMA FreeTyped == Free \in Owner /\ Lone(Free) /\ Free.window = NoWindow
BY DEF Free, Made, Owner, Lone

LEMMA AbandonLeft ==
  ASSUME NEW s \in XState, NEW w \in Windows, NEW o \in Owners, Holds(s, w, o),
         s.own[o].kind = "view", ~s.own[o].associated
  PROVE  Left(Abandon(s, w, o), s, w, o)
<1> DEFINE v == [s.win[w] EXCEPT !.handlers = s.win[w].handlers \ {o}]
           r == IF s.own[o].container = "none" THEN Free
                ELSE [s.own[o] EXCEPT !.destroying = TRUE, !.window = NoWindow]
<1>1. s.win[w] \in Window /\ s.own[o] \in Owner
  BY Records
<1>2. v \in Window /\ r \in Owner
  <2>1. v \in Window
    BY <1>1 DEF Window
  <2>2. [s.own[o] EXCEPT !.destroying = TRUE, !.window = NoWindow] \in Owner
    BY <1>1 DEF Owner
  <2> QED
    BY <2>1, <2>2, FreeTyped
<1>3. SameWindow(v, s.win[w]) /\ v.handlers = {} /\ v.mapHandlers = {}
      /\ v.commitHandlers = {} /\ v.geometryHandlers = {}
  BY <1>1 DEF Window, SameWindow, Holds, Hung, Hangs
<1>4. Lone(r)
  BY <1>1, FreeTyped DEF Owner, Lone, Holds, Hung
<1>5. Abandon(s, w, o) = Put(s, w, v, o, r)
  BY DEF Abandon, ViewBeginDestroy, Put, XState
<1> HIDE DEF v, r
<1> QED
  BY <1>2, <1>3, <1>4, <1>5, PutFields DEF Left

LEMMA ForgetLeft ==
  ASSUME NEW s \in XState, NEW w \in Windows, NEW o \in Owners, Holds(s, w, o),
         s.own[o].kind = "unmanaged", ~s.own[o].associated
  PROVE  Left(Forget(s, w, o), s, w, o)
<1> DEFINE v == [s.win[w] EXCEPT !.handlers = s.win[w].handlers \ {o}, !.data = NoOwner]
<1>1. s.win[w] \in Window /\ s.own[o] \in Owner
  BY Records
<1>2. v \in Window
  BY <1>1 DEF Window
<1>3. SameWindow(v, s.win[w]) /\ v.handlers = {} /\ v.mapHandlers = {}
      /\ v.commitHandlers = {} /\ v.geometryHandlers = {}
  BY <1>1 DEF Window, SameWindow, Holds, Hung, Hangs
<1>4. s.win[w].data = o
  BY DEF Holds, Hung
<1>5. Forget(s, w, o) = Put(s, w, v, o, Free)
  BY <1>4 DEF Forget, Put, XState
<1> HIDE DEF v
<1> QED
  BY <1>2, <1>3, <1>5, FreeTyped, PutFields DEF Left

LEMMA DestroyView ==
  ASSUME NEW s \in XState, NEW w \in Windows, NEW o \in Owners, Holds(s, w, o), s.own[o].kind = "view"
  PROVE  Left(HandleDestroy(s, w, o), s, w, o)
<1> DEFINE t == HandleUnmap(s, w, o)
           u == HandleDissociate(t, w, o)
<1>1. t \in XState /\ Changed(t, s, w, o) /\ Holds(t, w, o) /\ t.own[o].kind = "view"
  BY ViewUnmapped DEF Changed
<1> HIDE DEF t
<1>2. u \in XState /\ Changed(u, t, w, o) /\ Holds(u, w, o) /\ u.own[o].kind = "view"
      /\ ~u.own[o].associated
  BY <1>1, DissociateView DEF Changed
<1> HIDE DEF u
<1>3. Left(Abandon(u, w, o), u, w, o)
  BY <1>2, AbandonLeft
<1> QED
  BY <1>1, <1>2, <1>3, ChangedLeft DEF HandleDestroy, t, u

LEMMA DestroyUnmanaged ==
  ASSUME NEW s \in XState, NEW w \in Windows, NEW o \in Owners, Holds(s, w, o),
         s.own[o].kind = "unmanaged"
  PROVE  Left(UnmanagedDestroy(s, w, o), s, w, o)
<1> DEFINE u == UnmanagedDissociate(s, w, o)
<1>1. u \in XState /\ Changed(u, s, w, o) /\ Holds(u, w, o) /\ u.own[o].kind = "unmanaged"
      /\ ~u.own[o].associated
  BY DissociateUnmanaged DEF Changed
<1> HIDE DEF u
<1>2. Left(Forget(u, w, o), u, w, o)
  BY <1>1, ForgetLeft
<1> QED
  BY <1>1, <1>2, ChangedLeft DEF UnmanagedDestroy, u

------------------------------------------------------------------------------
(***************************************************************************)
(* A new object, and what it takes over.                                   *)
(***************************************************************************)
Empty(v) ==
  v.handlers = {} /\ v.mapHandlers = {} /\ v.commitHandlers = {} /\ v.geometryHandlers = {}

\* As Changed, but the object may be a new one.
Taken(t, s, w, o) ==
  /\ t \in XState /\ Elsewhere(t, s, w, {o}) /\ SameWindow(t.win[w], s.win[w])

LEMMA TakenTwice ==
  ASSUME NEW s, NEW t, NEW u, NEW w, NEW o, Taken(t, s, w, o), Changed(u, t, w, o)
  PROVE  Taken(u, s, w, o)
BY DEF Changed, Taken, Elsewhere, SameWindow

LEMMA CreateHolds ==
  ASSUME NEW s \in XState, NEW w \in Windows, NEW o \in Owners, NEW kind \in {"view", "unmanaged"},
         s.win[w].alive, Empty(s.win[w])
  PROVE  LET t == Create(s, w, o, kind)
         IN  /\ Taken(t, s, w, o) /\ Holds(t, w, o) /\ t.own[o].kind = kind
             /\ ~t.own[o].associated /\ ~t.own[o].mapped
<1> DEFINE v == [s.win[w] EXCEPT !.handlers = s.win[w].handlers \cup {o}, !.data = o]
           r == Made(kind, w)
           t == Put(s, w, v, o, r)
<1>1. s.win[w] \in Window
  BY Records
<1>2. v \in Window /\ r \in Owner
  BY <1>1 DEF Window, Owner, Made
<1>3. SameWindow(v, s.win[w]) /\ Hung(v, r, o)
  BY <1>1 DEF Window, SameWindow, Hung, Hangs, Empty, Made
<1>4. r.kind = kind /\ r.window = w /\ ~r.associated /\ ~r.mapped
  BY DEF Made
<1>5. Create(s, w, o, kind) = Put(s, w, v, o, r)
  BY DEF Create, Put, XState
<1> HIDE DEF v, r
<1>6. t \in XState /\ Elsewhere(t, s, w, {o}) /\ t.win[w] = v /\ t.own[o] = r
  BY <1>2, PutFields
<1> HIDE DEF t
<1> QED
  BY <1>3, <1>4, <1>5, <1>6 DEF Taken, Holds, t

LEMMA AssociateHolds ==
  ASSUME NEW s \in XState, NEW w \in Windows, NEW o \in Owners, Holds(s, w, o),
         s.own[o].associated => s.win[w].surface # "none"
  PROVE  LET t == HandleAssociate(s, w, o)
         IN  /\ Changed(t, s, w, o) /\ Holds(t, w, o)
             /\ t.own[o].associated <=> s.win[w].surface # "none"
             /\ t.own[o].mapped = s.own[o].mapped
<1>1. CASE s.own[o].associated \/ s.win[w].surface = "none"
  BY <1>1, ChangedNot DEF HandleAssociate
<1>2. CASE ~(s.own[o].associated \/ s.win[w].surface = "none")
  <2> DEFINE v == [s.win[w] EXCEPT !.mapHandlers = s.win[w].mapHandlers \cup {o}]
             r == [s.own[o] EXCEPT !.associated = TRUE]
  <2>1. s.win[w] \in Window /\ s.own[o] \in Owner
    BY Records
  <2>2. v \in Window /\ r \in Owner
    BY <2>1 DEF Window, Owner
  <2>3. SameWindow(v, s.win[w]) /\ r.kind = s.own[o].kind /\ r.window = w
        /\ r.mapped = s.own[o].mapped /\ r.associated
    BY <2>1 DEF Window, Owner, SameWindow, Holds
  <2>4. Hung(v, r, o)
    BY <1>2, <2>1 DEF Holds, Hung, Hangs, Window, Owner
  <2>5. HandleAssociate(s, w, o) = Put(s, w, v, o, r)
    BY <1>2 DEF HandleAssociate, Put, XState
  <2> HIDE DEF v, r
  <2> QED
    BY <1>2, <2>2, <2>3, <2>4, <2>5, PutHolds
<1> QED
  BY <1>1, <1>2

\* Mapping a view, and showing an unmanaged window that stays one.
LEMMA MapHolds ==
  ASSUME NEW s \in XState, NEW w \in Windows, NEW o \in Owners, Holds(s, w, o),
         s.own[o].kind = "view",
         s.own[o].associated <=> s.win[w].surface # "none",
         s.own[o].mapped => s.win[w].surface = "mapped"
  PROVE  LET t == HandleMap(s, w, o)
         IN  Changed(t, s, w, o) /\ Holds(t, w, o) /\ Follows(t.win[w], t.own[o])
<1>1. CASE s.own[o].mapped \/ s.win[w].surface # "mapped"
  BY <1>1, ChangedNot DEF HandleMap, Follows
<1>2. CASE ~(s.own[o].mapped \/ s.win[w].surface # "mapped")
  <2> DEFINE v == [s.win[w] EXCEPT !.commitHandlers = s.win[w].commitHandlers \cup {o}]
             r == [s.own[o] EXCEPT !.commitActive = TRUE, !.mapped = TRUE,
                                   !.scene = s.win[w].geometry, !.container = "live"]
  <2>1. s.win[w] \in Window /\ s.own[o] \in Owner
    BY Records
  <2>2. v \in Window /\ r \in Owner
    BY <2>1 DEF Window, Owner
  <2>3. SameWindow(v, s.win[w]) /\ r.kind = s.own[o].kind /\ r.window = w /\ Follows(v, r)
    BY <1>2, <2>1 DEF Window, Owner, SameWindow, Holds, Follows
  <2>4. Hung(v, r, o)
    BY <1>2, <2>1 DEF Holds, Hung, Hangs, Window, Owner
  <2>5. HandleMap(s, w, o) = Put(s, w, v, o, r)
    BY <1>2 DEF HandleMap, Put, XState
  <2> HIDE DEF v, r
  <2> QED
    BY <2>2, <2>3, <2>4, <2>5, PutHolds
<1> QED
  BY <1>1, <1>2

LEMMA ShowHolds ==
  ASSUME NEW s \in XState, NEW w \in Windows, NEW o \in Owners, Holds(s, w, o),
         s.own[o].kind = "unmanaged", ~s.own[o].mapped, s.win[w].surface = "mapped",
         s.own[o].associated, s.win[w].redirect
  PROVE  LET t == Show(s, w, o)
         IN  Changed(t, s, w, o) /\ Holds(t, w, o) /\ Follows(t.win[w], t.own[o])
<1> DEFINE v == [s.win[w] EXCEPT !.geometryHandlers = s.win[w].geometryHandlers \cup {o}]
           r == [s.own[o] EXCEPT !.mapped = TRUE, !.scene = s.win[w].geometry]
<1>1. s.win[w] \in Window /\ s.own[o] \in Owner
  BY Records
<1>2. v \in Window /\ r \in Owner
  BY <1>1 DEF Window, Owner
<1>3. SameWindow(v, s.win[w]) /\ r.kind = s.own[o].kind /\ r.window = w /\ Follows(v, r)
  BY <1>1 DEF Window, Owner, SameWindow, Holds, Follows
<1>4. Hung(v, r, o)
  BY <1>1 DEF Holds, Hung, Hangs, Window, Owner
<1>5. Show(s, w, o) = Put(s, w, v, o, r)
  BY DEF Show, Put, XState
<1> HIDE DEF v, r
<1> QED
  BY <1>2, <1>3, <1>4, <1>5, PutHolds

LEMMA BecomesView ==
  ASSUME NEW s \in XState, NEW w \in Windows, NEW n \in Owners, s.win[w].alive, Empty(s.win[w])
  PROVE  LET t == BecomeView(s, w, n)
         IN  Taken(t, s, w, n) /\ Holds(t, w, n) /\ Follows(t.win[w], t.own[n])
<1> DEFINE c == CreateXwaylandView(s, w, n)
           a == HandleAssociate(c, w, n)
<1>1. /\ c \in XState /\ Taken(c, s, w, n) /\ Holds(c, w, n) /\ c.own[n].kind = "view"
      /\ ~c.own[n].associated /\ ~c.own[n].mapped
  BY CreateHolds DEF CreateXwaylandView, Taken
<1> HIDE DEF c
<1>2. /\ a \in XState /\ Changed(a, c, w, n) /\ Holds(a, w, n) /\ a.own[n].kind = "view"
      /\ a.own[n].associated <=> a.win[w].surface # "none"
      /\ ~a.own[n].mapped
  <2>1. /\ Changed(a, c, w, n) /\ Holds(a, w, n)
        /\ a.own[n].associated <=> c.win[w].surface # "none"
        /\ a.own[n].mapped = c.own[n].mapped
    BY <1>1, AssociateHolds
  <2> HIDE DEF a
  <2> QED
    BY <1>1, <2>1 DEF Changed, SameWindow
<1> HIDE DEF a
<1>3. LET t == HandleMap(a, w, n)
      IN  Changed(t, a, w, n) /\ Holds(t, w, n) /\ Follows(t.win[w], t.own[n])
  BY <1>2, MapHolds
<1> QED
  BY <1>1, <1>2, <1>3, TakenTwice DEF BecomeView, c, a

LEMMA BecomesUnmanaged ==
  ASSUME NEW s \in XState, NEW w \in Windows, NEW n \in Owners, s.win[w].alive, Empty(s.win[w]),
         s.win[w].redirect, ~Covering(s, w)
  PROVE  LET t == BecomeUnmanaged(s, w, n)
         IN  Taken(t, s, w, n) /\ Holds(t, w, n) /\ Follows(t.win[w], t.own[n])
<1> DEFINE c == CreateUnmanaged(s, w, n)
           a == HandleAssociate(c, w, n)
<1>1. /\ c \in XState /\ Taken(c, s, w, n) /\ Holds(c, w, n) /\ c.own[n].kind = "unmanaged"
      /\ ~c.own[n].associated /\ ~c.own[n].mapped
  BY CreateHolds DEF CreateUnmanaged, Taken
<1> HIDE DEF c
<1>2. /\ a \in XState /\ Changed(a, c, w, n) /\ Holds(a, w, n) /\ a.own[n].kind = "unmanaged"
      /\ a.own[n].associated <=> a.win[w].surface # "none"
      /\ ~a.own[n].mapped
  <2>1. /\ Changed(a, c, w, n) /\ Holds(a, w, n)
        /\ a.own[n].associated <=> c.win[w].surface # "none"
        /\ a.own[n].mapped = c.own[n].mapped
    BY <1>1, AssociateHolds
  <2> HIDE DEF a
  <2> QED
    BY <1>1, <2>1 DEF Changed, SameWindow
<1>3. a.win[w].redirect /\ ~Covering(a, w)
  BY <1>1, <1>2 DEF Changed, Taken, SameWindow, Covering
<1> HIDE DEF a
<1>4. CASE a.win[w].surface # "mapped"
  <2>1. UnmanagedMap(a, w, n, n) = a
    BY <1>4 DEF UnmanagedMap
  <2>2. Follows(a.win[w], a.own[n])
    BY <1>2, <1>3, <1>4 DEF Follows
  <2> QED
    BY <1>1, <1>2, <2>1, <2>2, TakenTwice DEF BecomeUnmanaged, c, a
<1>5. CASE a.win[w].surface = "mapped"
  <2>1. UnmanagedMap(a, w, n, n) = Show(a, w, n)
    BY <1>2, <1>3, <1>5 DEF UnmanagedMap
  <2>2. LET t == Show(a, w, n)
        IN  Changed(t, a, w, n) /\ Holds(t, w, n) /\ Follows(t.win[w], t.own[n])
    BY <1>2, <1>3, <1>5, ShowHolds
  <2> QED
    BY <1>1, <1>2, <2>1, <2>2, TakenTwice DEF BecomeUnmanaged, c, a
<1> QED
  BY <1>4, <1>5

------------------------------------------------------------------------------
(***************************************************************************)
(* From the pieces to the invariant.                                       *)
(***************************************************************************)
LEMMA Listens ==
  ASSUME NEW s, Kept(s), NEW w \in Windows, NEW o, o \in s.win[w].handlers \cup s.win[w].mapHandlers
  PROVE  /\ o \in Owners /\ Holds(s, w, o) /\ Follows(s.win[w], s.own[o]) /\ s.win[w].alive
         /\ o \in s.win[w].mapHandlers => s.own[o].associated
         /\ s.own[o].kind \in {"view", "unmanaged"}
         /\ \A x \in Owners \ {o} : s.own[x].window # w
<1>1. s.win[w] # Gone
  BY DEF Gone
<1> DEFINE d == s.win[w].data
<1>2. d \in Owners /\ s.own[d].window = w
  BY <1>1 DEF Kept, Claimed
<1>3. /\ Hung(s.win[w], s.own[d], d) /\ Follows(s.win[w], s.own[d])
      /\ \A x \in Owners \ {d} : s.own[x].window # w
  BY <1>2, OneOwner
<1>4. o = d /\ (o \in s.win[w].mapHandlers => s.own[o].associated)
  BY <1>3 DEF Hung, Hangs
<1>5. s.own[o].kind \in {"view", "unmanaged"}
  BY <1>2, <1>3, <1>4 DEF Hung, Kept, XState, Owner
<1> QED
  BY <1>2, <1>3, <1>4, <1>5 DEF Holds, Hung

LEMMA FreeIsLone ==
  ASSUME NEW s, Kept(s), NEW o \in Owners, s.own[o].kind = "free"
  PROVE  s.own[o].window = NoWindow
BY LoneHasNoWindow DEF Kept, Paired, Hung

\* The object of a window stays its object.
LEMMA StaysKept ==
  ASSUME NEW s, Kept(s), NEW w \in Windows, NEW o \in Owners, s.own[o].window = w,
         NEW t \in XState, Elsewhere(t, s, w, {o}), Holds(t, w, o), Follows(t.win[w], t.own[o])
  PROVE  Kept(t)
<1>1. \A x \in Owners \ {o} : s.own[x].window # w
  BY OneOwner
<1>2. Paired(t, o) /\ Claimed(t, w)
  BY DEF Paired, Claimed, Holds, Hung
<1> QED
  BY <1>1, <1>2, LocalChange

\* Another object, free until now, takes a window over.
LEMMA TakenKept ==
  ASSUME NEW s, Kept(s), NEW w \in Windows, NEW o \in Owners, s.own[o].window = w,
         NEW n \in Owners, s.own[n].kind = "free",
         NEW t \in XState, Elsewhere(t, s, w, {o, n}), Lone(t.own[o]),
         Holds(t, w, n), Follows(t.win[w], t.own[n])
  PROVE  Kept(t)
<1>1. \A x \in Owners \ {o} : s.own[x].window # w
  BY OneOwner
<1>2. s.own[n].window = NoWindow
  BY FreeIsLone
<1>3. Paired(t, n) /\ Claimed(t, w)
  BY DEF Paired, Claimed, Holds, Hung
<1> DEFINE here == {o, n}
<1>4. \A x \in here : Lone(t.own[x]) \/ Paired(t, x)
  BY <1>3
<1>5. (\A x \in Owners \ here : s.own[x].window # w) /\ here \in SUBSET Owners
      /\ (\A x \in here : s.own[x].window \in {w, NoWindow}) /\ Elsewhere(t, s, w, here)
  BY <1>1, <1>2
<1> HIDE DEF here
<1> QED
  BY <1>3, <1>4, <1>5, LocalChange

\* The object leaves, and the window with it.
LEMMA GoneKept ==
  ASSUME NEW s, Kept(s), NEW w \in Windows, NEW o \in Owners, s.own[o].window = w,
         NEW t \in XState, Elsewhere(t, s, w, {o}), Lone(t.own[o]), t.win[w] = Gone
  PROVE  Kept(t)
<1>1. \A x \in Owners \ {o} : s.own[x].window # w
  BY OneOwner
<1> QED
  BY <1>1, LocalChange

\* Only the flags of an object change.
LEMMA FlagsKept ==
  ASSUME NEW s, Kept(s), NEW o \in Owners, NEW r \in Owner, NEW t,
         t = [s EXCEPT !.own = [s.own EXCEPT ![o] = r]],
         r.window = s.own[o].window,
         Lone(s.own[o]) => Lone(r),
         \A v : Hung(v, s.own[o], o) /\ Follows(v, s.own[o]) => Hung(v, r, o) /\ Follows(v, r)
  PROVE  Kept(t)
<1>1. t \in XState
  BY DEF Kept, XState
<1>2. t.win = s.win /\ t.own[o] = r /\ \A x \in Owners \ {o} : t.own[x] = s.own[x]
  BY DEF Kept, XState
<1>3. ASSUME NEW x \in Owners PROVE Lone(t.own[x]) \/ Paired(t, x)
  BY <1>2 DEF Kept, Paired
<1>4. ASSUME NEW w \in Windows PROVE t.win[w] = Gone \/ Claimed(t, w)
  BY <1>2 DEF Kept, Claimed
<1> QED
  BY <1>1, <1>3, <1>4 DEF Kept

LEMMA UrgentKept ==
  ASSUME NEW s, Kept(s), NEW o \in Owners, s.own[o].kind = "view", s.own[o].mapped,
         NEW urgent \in BOOLEAN, NEW timer \in BOOLEAN, timer => urgent, NEW t,
         t = [s EXCEPT !.own = [s.own EXCEPT ![o] =
                [s.own[o] EXCEPT !.urgent = urgent, !.timer = timer]]]
  PROVE  Kept(t)
<1> DEFINE r == [s.own[o] EXCEPT !.urgent = urgent, !.timer = timer]
<1>1. s.own[o] \in Owner
  BY DEF Kept, XState
<1>2. r \in Owner /\ r.window = s.own[o].window
  BY <1>1 DEF Owner
<1>3. ~Lone(s.own[o])
  BY DEF Lone, Free, Made
<1>4. ASSUME NEW v, Hung(v, s.own[o], o), Follows(v, s.own[o])
      PROVE  Hung(v, r, o) /\ Follows(v, r)
  BY <1>1, <1>4 DEF Hung, Follows, Owner
<1> HIDE DEF r
<1>5. t = [s EXCEPT !.own = [s.own EXCEPT ![o] = r]]
  BY DEF r
<1> QED
  BY <1>2, <1>3, <1>4, <1>5, FlagsKept

LEMMA SetUrgentKept ==
  ASSUME NEW s, Kept(s), NEW o \in Owners, s.own[o].kind = "view", s.own[o].mapped,
         NEW enable \in BOOLEAN
  PROVE  Kept(SetUrgent(s, o, enable)) /\ Kept(ViewSetUrgent(s, o, enable))
<1>1. s.own[o] \in Owner
  BY DEF Kept, XState
<1> DEFINE timer == enable /\ s.own[o].timer
<1>2. timer \in BOOLEAN /\ (timer => enable)
  BY <1>1 DEF Owner
<1>3. SetUrgent(s, o, enable) = [s EXCEPT !.own = [s.own EXCEPT ![o] =
                                   [s.own[o] EXCEPT !.urgent = enable, !.timer = timer]]]
  BY DEF SetUrgent, Kept, XState
<1> HIDE DEF timer
<1>4. Kept(SetUrgent(s, o, enable))
  <2> DEFINE t == SetUrgent(s, o, enable)
  <2>1. t = [s EXCEPT !.own = [s.own EXCEPT ![o] =
               [s.own[o] EXCEPT !.urgent = enable, !.timer = timer]]]
    BY <1>3
  <2> HIDE DEF t
  <2>2. Kept(t)
    BY <1>2, <2>1, UrgentKept
  <2> QED
    BY <2>2 DEF t
<1> QED
  BY <1>4 DEF ViewSetUrgent

LEMMA NoteFocusKept ==
  ASSUME NEW s, Kept(s), NEW o \in Owners, o \in MappedViews(s), NEW travelled \in BOOLEAN
  PROVE  Kept(NoteFocus(s, o, travelled))
<1>1. s.own[o] \in Owner /\ s.own[o].kind = "view" /\ s.own[o].mapped
  BY DEF Kept, XState, MappedViews
<1>2. CASE ~s.own[o].urgent \/ s.own[o].timer
  BY <1>2 DEF NoteFocus
<1>3. CASE ~(~s.own[o].urgent \/ s.own[o].timer) /\ travelled
  <2>1. s.own[o].urgent = TRUE
    BY <1>1, <1>3 DEF Owner
  <2>2. [s.own[o] EXCEPT !.timer = TRUE] = [s.own[o] EXCEPT !.urgent = TRUE, !.timer = TRUE]
    BY <1>1, <2>1 DEF Owner
  <2>3. NoteFocus(s, o, travelled) =
          [s EXCEPT !.own = [s.own EXCEPT ![o] = [s.own[o] EXCEPT !.timer = TRUE]]]
    BY <1>3 DEF NoteFocus, Kept, XState
  <2>4. NoteFocus(s, o, travelled) = [s EXCEPT !.own = [s.own EXCEPT ![o] =
                                        [s.own[o] EXCEPT !.urgent = TRUE, !.timer = TRUE]]]
    BY <2>2, <2>3
  <2> QED
    BY <1>1, <2>4, UrgentKept
<1>4. CASE ~(~s.own[o].urgent \/ s.own[o].timer) /\ ~travelled
  BY <1>1, <1>4, SetUrgentKept DEF NoteFocus
<1> QED
  BY <1>2, <1>3, <1>4

LEMMA SettleKept ==
  ASSUME NEW t, Kept(t), Settle(t)
  PROVE  Kept(xw')
<1>1. CASE xw' = t
  BY <1>1
<1>2. ASSUME NEW next \in MappedViews(t) \cup {NoOwner}, NEW v \in BOOLEAN,
             next # NoOwner, xw' = NoteFocus(t, next, v)
      PROVE  Kept(xw')
  <2>1. next \in MappedViews(t) /\ next \in Owners
    BY <1>2 DEF MappedViews
  <2> QED
    BY <1>2, <2>1, NoteFocusKept
<1> QED
  BY <1>1, <1>2 DEF Settle

LEMMA ArriveKept ==
  ASSUME NEW t, Kept(t), NEW o \in Owners, Arrive(t, o)
  PROVE  Kept(xw')
<1>1. ASSUME o \in MappedViews(t), NEW v \in BOOLEAN, xw' = NoteFocus(t, o, v)
      PROVE  Kept(xw')
  BY <1>1, NoteFocusKept
<1> QED
  BY <1>1 DEF Arrive

------------------------------------------------------------------------------
(***************************************************************************)
(* The events of a window.                                                 *)
(***************************************************************************)
\* Only the surface of the window changes.
WithSurface(s, w, x) == [s EXCEPT !.win[w].surface = x]

LEMMA Surfaced ==
  ASSUME NEW s \in XState, NEW w \in Windows, NEW o \in Owners, Holds(s, w, o),
         NEW x \in {"none", "associated", "mapped"}, NEW t, t = WithSurface(s, w, x)
  PROVE  /\ t \in XState /\ Elsewhere(t, s, w, {}) /\ Holds(t, w, o) /\ t.own = s.own
         /\ t.win[w].surface = x /\ t.win[w].redirect = s.win[w].redirect
         /\ t.win[w].alive = s.win[w].alive /\ t.win[w].geometry = s.win[w].geometry
<1> DEFINE v == [s.win[w] EXCEPT !.surface = x]
<1>1. s.win[w] \in Window
  BY Records
<1>2. v \in Window
  BY <1>1 DEF Window
<1>3. t = [s EXCEPT !.win = [s.win EXCEPT ![w] = v]]
  BY DEF XState, WithSurface
<1>4. t \in XState /\ t.win[w] = v /\ t.own = s.own /\ Elsewhere(t, s, w, {})
  BY <1>2, <1>3 DEF XState, Elsewhere
<1>5. Holds(t, w, o)
  BY <1>1, <1>4 DEF Holds, Hung, Window
<1> QED
  BY <1>1, <1>4, <1>5 DEF Window

LEMMA AssociateKept ==
  ASSUME Kept(xw), NEW w \in Windows, Associate(w)
  PROVE  Kept(xw')
<1>1. PICK o \in xw.win[w].handlers :
        xw' = HandleAssociate([xw EXCEPT !.win[w].surface = "associated"], w, o)
  BY DEF Associate
<1>2. /\ o \in Owners /\ Holds(xw, w, o) /\ Follows(xw.win[w], xw.own[o])
      /\ xw \in XState /\ xw.own[o].window = w
  BY <1>1, Listens DEF Kept, Holds
<1> DEFINE u == [xw EXCEPT !.win[w].surface = "associated"]
<1>0. u = WithSurface(xw, w, "associated") /\ xw' = HandleAssociate(u, w, o)
  BY <1>1 DEF WithSurface
<1> HIDE DEF u
<1>3. /\ u \in XState /\ Elsewhere(u, xw, w, {}) /\ Holds(u, w, o) /\ u.own = xw.own
      /\ u.win[w].surface = "associated" /\ u.win[w].redirect = xw.win[w].redirect
  <2>1. "associated" \in {"none", "associated", "mapped"}
    OBVIOUS
  <2> QED
    BY <1>0, <1>2, <2>1, Surfaced
<1>5. ~xw.own[o].mapped /\ (xw.own[o].kind = "unmanaged" => xw.win[w].redirect)
  BY <1>2 DEF Associate, Follows
<1>6. /\ Changed(xw', u, w, o) /\ Holds(xw', w, o)
      /\ xw'.own[o].associated /\ ~xw'.own[o].mapped
  BY <1>0, <1>2, <1>3, <1>5, AssociateHolds
<1>7. Follows(xw'.win[w], xw'.own[o])
  BY <1>3, <1>5, <1>6 DEF Changed, SameWindow, Follows
<1>8. xw' \in XState /\ Elsewhere(xw', xw, w, {o})
  BY <1>3, <1>6 DEF Changed, Elsewhere
<1> QED
  BY <1>2, <1>6, <1>7, <1>8, StaysKept

LEMMA WithdrawnHolds ==
  ASSUME NEW s \in XState, NEW w \in Windows, NEW o \in Owners, Holds(s, w, o),
         s.own[o].kind \in {"view", "unmanaged"}
  PROVE  LET t == Withdrawn(s, w, o)
         IN  /\ t \in XState /\ Elsewhere(t, s, w, {o}) /\ Holds(t, w, o)
             /\ ~t.own[o].mapped /\ t.own[o].associated = s.own[o].associated
             /\ t.own[o].kind = s.own[o].kind
             /\ t.win[w].surface = "associated" /\ t.win[w].redirect = s.win[w].redirect
<1> DEFINE u == [s EXCEPT !.win[w].surface = "associated"]
           t == Withdrawn(s, w, o)
<1>0. u = WithSurface(s, w, "associated")
  BY DEF WithSurface
<1>2. t = IF s.own[o].kind = "view" THEN HandleUnmap(u, w, o) ELSE UnmanagedUnmap(u, w, o)
  BY DEF Withdrawn
<1> HIDE DEF u, t
<1>1. /\ u \in XState /\ Elsewhere(u, s, w, {}) /\ Holds(u, w, o) /\ u.own = s.own
      /\ u.win[w].surface = "associated" /\ u.win[w].redirect = s.win[w].redirect
  <2>1. "associated" \in {"none", "associated", "mapped"}
    OBVIOUS
  <2> QED
    BY <1>0, <2>1, Surfaced
<1>3. /\ Changed(t, u, w, o) /\ Holds(t, w, o)
      /\ ~t.own[o].mapped /\ t.own[o].associated = u.own[o].associated
  <2>1. CASE s.own[o].kind = "view"
    BY <1>1, <1>2, <2>1, ViewUnmapped
  <2>2. CASE s.own[o].kind = "unmanaged"
    BY <1>1, <1>2, <2>2, UnmanagedUnmapped
  <2> QED
    BY <2>1, <2>2
<1> QED
  BY <1>1, <1>3 DEF Changed, SameWindow, Elsewhere, t

LEMMA DetachedHolds ==
  ASSUME NEW s \in XState, NEW w \in Windows, NEW o \in Owners, Holds(s, w, o),
         s.own[o].kind \in {"view", "unmanaged"}
  PROVE  LET t == Detached(s, w, o)
         IN  /\ t \in XState /\ Elsewhere(t, s, w, {o}) /\ Holds(t, w, o)
             /\ ~t.own[o].mapped /\ ~t.own[o].associated
             /\ t.own[o].kind = s.own[o].kind
             /\ t.win[w].surface = "none" /\ t.win[w].redirect = s.win[w].redirect
<1> DEFINE u == Withdrawn(s, w, o)
           d == IF s.own[o].kind = "view" THEN HandleDissociate(u, w, o)
                ELSE UnmanagedDissociate(u, w, o)
           t == Detached(s, w, o)
<1>1. /\ u \in XState /\ Elsewhere(u, s, w, {o}) /\ Holds(u, w, o)
      /\ u.own[o].kind = s.own[o].kind /\ u.win[w].redirect = s.win[w].redirect
  BY WithdrawnHolds
<1> HIDE DEF u
<1>2. Changed(d, u, w, o) /\ Holds(d, w, o) /\ ~d.own[o].mapped /\ ~d.own[o].associated
  <2>1. CASE s.own[o].kind = "view"
    BY <1>1, <2>1, DissociateView
  <2>2. CASE s.own[o].kind = "unmanaged"
    BY <1>1, <2>2, DissociateUnmanaged
  <2> QED
    BY <2>1, <2>2
<1>3. t = WithSurface(d, w, "none")
  BY DEF Detached, WithSurface, u
<1> HIDE DEF d, t
<1>4. d \in XState /\ Elsewhere(d, s, w, {o}) /\ d.own[o].kind = s.own[o].kind
      /\ d.win[w].redirect = s.win[w].redirect
  BY <1>1, <1>2 DEF Changed, Elsewhere, SameWindow
<1>5. /\ t \in XState /\ Elsewhere(t, d, w, {}) /\ Holds(t, w, o) /\ t.own = d.own
      /\ t.win[w].surface = "none" /\ t.win[w].redirect = d.win[w].redirect
  <2>1. "none" \in {"none", "associated", "mapped"}
    OBVIOUS
  <2> QED
    BY <1>2, <1>3, <1>4, <2>1, Surfaced
<1> QED
  BY <1>2, <1>4, <1>5 DEF Elsewhere, t

LEMMA RemovedLeft ==
  ASSUME NEW s \in XState, NEW w \in Windows, NEW o \in Owners, Holds(s, w, o),
         s.own[o].kind \in {"view", "unmanaged"}, s.win[w].surface = "none" => ~s.own[o].mapped
  PROVE  LET t == Removed(s, w, o)
         IN  /\ t \in XState /\ Elsewhere(t, s, w, {o}) /\ Lone(t.own[o])
             /\ t.win[w].surface = "none" /\ Empty(t.win[w])
<1> DEFINE u == IF s.win[w].surface = "none" THEN s ELSE Detached(s, w, o)
           t == Removed(s, w, o)
<1>1. /\ u \in XState /\ Elsewhere(u, s, w, {o}) /\ Holds(u, w, o)
      /\ u.own[o].kind = s.own[o].kind /\ u.win[w].surface = "none"
  BY DetachedHolds DEF Elsewhere
<1>2. t = IF s.own[o].kind = "view" THEN HandleDestroy(u, w, o) ELSE UnmanagedDestroy(u, w, o)
  BY DEF Removed
<1> HIDE DEF u, t
<1>3. Left(t, u, w, o)
  <2>1. CASE s.own[o].kind = "view"
    BY <1>1, <1>2, <2>1, DestroyView
  <2>2. CASE s.own[o].kind = "unmanaged"
    BY <1>1, <1>2, <2>2, DestroyUnmanaged
  <2> QED
    BY <2>1, <2>2
<1> QED
  BY <1>1, <1>3 DEF Left, Elsewhere, SameWindow, Empty, t

LEMMA UnmapKept ==
  ASSUME Kept(xw), NEW w \in Windows, Unmap(w)
  PROVE  Kept(xw')
<1>1. PICK o \in xw.win[w].mapHandlers : Settle(Withdrawn(xw, w, o))
  BY DEF Unmap
<1>2. /\ o \in Owners /\ Holds(xw, w, o) /\ Follows(xw.win[w], xw.own[o])
      /\ xw \in XState /\ xw.own[o].associated /\ xw.own[o].kind \in {"view", "unmanaged"}
      /\ xw.own[o].window = w
  BY <1>1, Listens DEF Kept, Holds
<1> DEFINE t == Withdrawn(xw, w, o)
<1>3. /\ t \in XState /\ Elsewhere(t, xw, w, {o}) /\ Holds(t, w, o)
      /\ ~t.own[o].mapped /\ t.own[o].associated = xw.own[o].associated
      /\ t.own[o].kind = xw.own[o].kind
      /\ t.win[w].surface = "associated" /\ t.win[w].redirect = xw.win[w].redirect
  BY <1>2, WithdrawnHolds
<1> HIDE DEF t
<1>4. Follows(t.win[w], t.own[o])
  BY <1>2, <1>3 DEF Follows
<1>5. Kept(t)
  BY <1>2, <1>3, <1>4, StaysKept
<1> QED
  BY <1>1, <1>5, SettleKept DEF t

LEMMA DissociateKept ==
  ASSUME Kept(xw), NEW w \in Windows, Dissociate(w)
  PROVE  Kept(xw')
<1>1. PICK o \in xw.win[w].handlers : Settle(Detached(xw, w, o))
  BY DEF Dissociate
<1>2. /\ o \in Owners /\ Holds(xw, w, o) /\ Follows(xw.win[w], xw.own[o])
      /\ xw \in XState /\ xw.own[o].kind \in {"view", "unmanaged"} /\ xw.own[o].window = w
  BY <1>1, Listens DEF Kept, Holds
<1> DEFINE t == Detached(xw, w, o)
<1>3. /\ t \in XState /\ Elsewhere(t, xw, w, {o}) /\ Holds(t, w, o)
      /\ ~t.own[o].mapped /\ ~t.own[o].associated
      /\ t.own[o].kind = xw.own[o].kind
      /\ t.win[w].surface = "none" /\ t.win[w].redirect = xw.win[w].redirect
  BY <1>2, DetachedHolds
<1> HIDE DEF t
<1>4. Follows(t.win[w], t.own[o])
  BY <1>2, <1>3 DEF Follows
<1>5. Kept(t)
  BY <1>2, <1>3, <1>4, StaysKept
<1> QED
  BY <1>1, <1>5, SettleKept DEF t

LEMMA SameRecord ==
  ASSUME NEW v \in Window, NEW u \in Window,
         v.alive <=> u.alive, v.redirect <=> u.redirect, v.geometry = u.geometry,
         v.surface = u.surface, v.data = u.data, v.handlers = u.handlers,
         v.mapHandlers = u.mapHandlers, v.commitHandlers = u.commitHandlers,
         v.geometryHandlers = u.geometryHandlers
  PROVE  v = u
BY DEF Window

LEMMA DestroyKept ==
  ASSUME Kept(xw), NEW w \in Windows, Destroy(w)
  PROVE  Kept(xw')
<1> DEFINE End(t) == [t EXCEPT !.win[w] = [@ EXCEPT !.alive = FALSE, !.redirect = FALSE,
                                              !.geometry = "here", !.data = NoOwner]]
<1>1. PICK o \in xw.win[w].handlers : Settle(End(Removed(xw, w, o)))
  BY DEF Destroy
<1>2. /\ o \in Owners /\ Holds(xw, w, o) /\ Follows(xw.win[w], xw.own[o])
      /\ xw \in XState /\ xw.own[o].kind \in {"view", "unmanaged"} /\ xw.own[o].window = w
  BY <1>1, Listens DEF Kept, Holds
<1> DEFINE t == Removed(xw, w, o)
<1>3. /\ t \in XState /\ Elsewhere(t, xw, w, {o}) /\ Lone(t.own[o])
      /\ t.win[w].surface = "none" /\ Empty(t.win[w])
  BY <1>2, RemovedLeft DEF Follows
<1> HIDE DEF t
<1>4. [t.win[w] EXCEPT !.alive = FALSE, !.redirect = FALSE, !.geometry = "here", !.data = NoOwner]
        = Gone /\ Gone \in Window
  <2>1. t.win[w] \in Window
    BY <1>3 DEF XState
  <2>2. Gone \in Window
    BY DEF Gone, Window, Geometry
  <2> DEFINE v == [t.win[w] EXCEPT !.alive = FALSE, !.redirect = FALSE,
                                   !.geometry = "here", !.data = NoOwner]
  <2>3. v \in Window
    BY <2>1 DEF Window, Geometry
  <2>4. /\ ~v.alive /\ ~v.redirect /\ v.geometry = "here" /\ v.data = NoOwner
        /\ v.surface = "none" /\ Empty(v)
    BY <1>3, <2>1 DEF Window, Empty
  <2> HIDE DEF v
  <2>5. v = Gone
    BY <2>2, <2>3, <2>4, SameRecord DEF Gone, Empty
  <2> QED
    BY <2>2, <2>5 DEF v
<1>5. End(t) = [t EXCEPT !.win = [t.win EXCEPT ![w] = Gone]]
  BY <1>3, <1>4 DEF XState
<1>6. End(t) \in XState /\ Elsewhere(End(t), xw, w, {o}) /\ Lone(End(t).own[o])
      /\ End(t).win[w] = Gone
  BY <1>3, <1>4, <1>5 DEF XState, Elsewhere
<1> HIDE DEF End
<1>7. Kept(End(t))
  BY <1>2, <1>6, GoneKept
<1> QED
  BY <1>1, <1>7, SettleKept DEF t

\* Another object takes the window over from the one that has left it.
LEMMA TakeoverKept ==
  ASSUME NEW s, Kept(s), NEW w \in Windows, NEW o \in Owners, s.own[o].window = w,
         s.own[o].kind # "free", NEW n \in Owners, s.own[n].kind = "free",
         NEW u, u.own = s.own, Elsewhere(u, s, w, {}),
         NEW d, Left(d, u, w, o), NEW t, Taken(t, d, w, n), Holds(t, w, n),
         Follows(t.win[w], t.own[n])
  PROVE  Kept(t)
<1>1. t \in XState /\ Elsewhere(t, s, w, {o, n})
  BY DEF Taken, Left, Elsewhere
<1>2. Lone(t.own[o])
  BY DEF Taken, Left, Elsewhere
<1> QED
  BY <1>1, <1>2, TakenKept

LEMMA MapKept ==
  ASSUME Kept(xw), NEW w \in Windows, NEW n \in FreeOwners, Map(w, n)
  PROVE  Kept(xw')
<1> DEFINE u == [xw EXCEPT !.win[w].surface = "mapped"]
<1>1. PICK o \in xw.win[w].mapHandlers :
        IF xw.own[o].kind = "view" THEN Arrive(HandleMap(u, w, o), o)
        ELSE Arrive(UnmanagedMap(u, w, o, n), n)
  BY DEF Map
<1>2. /\ o \in Owners /\ Holds(xw, w, o) /\ Follows(xw.win[w], xw.own[o]) /\ xw.win[w].alive
      /\ xw \in XState /\ xw.own[o].associated /\ xw.own[o].kind \in {"view", "unmanaged"}
      /\ xw.own[o].window = w
  BY <1>1, Listens DEF Kept, Holds
<1>3. n \in Owners /\ xw.own[n].kind = "free"
  BY DEF FreeOwners
<1>4. u = WithSurface(xw, w, "mapped")
  BY DEF WithSurface
<1> HIDE DEF u
<1>5. /\ u \in XState /\ Elsewhere(u, xw, w, {}) /\ Holds(u, w, o) /\ u.own = xw.own
      /\ u.win[w].surface = "mapped" /\ u.win[w].redirect = xw.win[w].redirect
      /\ u.win[w].alive
  <2>1. "mapped" \in {"none", "associated", "mapped"}
    OBVIOUS
  <2> QED
    BY <1>2, <1>4, <2>1, Surfaced
<1>6. ~xw.own[o].mapped /\ (xw.own[o].kind = "unmanaged" => xw.win[w].redirect)
  BY <1>2 DEF Map, Follows
<1>7. ASSUME NEW t, Changed(t, u, w, o), Holds(t, w, o), Follows(t.win[w], t.own[o])
      PROVE  Kept(t)
  <2>1. t \in XState /\ Elsewhere(t, xw, w, {o})
    BY <1>5, <1>7 DEF Changed, Elsewhere
  <2> QED
    BY <1>2, <1>7, <2>1, StaysKept
<1>8. CASE xw.own[o].kind = "view"
  <2> DEFINE t == HandleMap(u, w, o)
  <2>1. Changed(t, u, w, o) /\ Holds(t, w, o) /\ Follows(t.win[w], t.own[o])
    <3>1. /\ u.own[o].kind = "view" /\ (u.own[o].associated <=> u.win[w].surface # "none")
          /\ u.own[o].mapped => u.win[w].surface = "mapped"
      BY <1>2, <1>5, <1>8
    <3> QED
      BY <1>2, <1>5, <3>1, MapHolds
  <2>2. Arrive(t, o)
    BY <1>1, <1>8
  <2> HIDE DEF t
  <2> QED
    BY <1>2, <1>7, <2>1, <2>2, ArriveKept
<1>9. CASE xw.own[o].kind = "unmanaged"
  <2> DEFINE t == UnmanagedMap(u, w, o, n)
  <2>1. Arrive(t, n)
    BY <1>1, <1>9
  <2>2. CASE Covering(u, w)
    <3> DEFINE d == UnmanagedDestroy(u, w, o)
    <3>1. t = BecomeView(d, w, n)
      BY <1>5, <1>6, <2>2 DEF UnmanagedMap, PromoteFullscreenOverlay
    <3>2. Left(d, u, w, o)
      BY <1>2, <1>5, <1>9, DestroyUnmanaged
    <3> HIDE DEF d, t
    <3>3. d \in XState /\ d.win[w].alive /\ Empty(d.win[w])
      BY <1>5, <3>2 DEF Left, SameWindow, Empty
    <3>4. Taken(t, d, w, n) /\ Holds(t, w, n) /\ Follows(t.win[w], t.own[n])
      BY <1>3, <3>1, <3>3, BecomesView
    <3>5. Kept(t)
      BY <1>2, <1>3, <1>5, <3>2, <3>4, TakeoverKept
    <3> QED
      BY <1>3, <2>1, <3>5, ArriveKept
  <2>3. CASE ~Covering(u, w)
    <3>1. t = Show(u, w, o)
      BY <1>5, <1>6, <2>3 DEF UnmanagedMap
    <3>2. /\ u.own[o].kind = "unmanaged" /\ ~u.own[o].mapped
          /\ u.own[o].associated /\ u.win[w].redirect
      BY <1>2, <1>5, <1>6, <1>9
    <3> HIDE DEF t
    <3>3. Changed(t, u, w, o) /\ Holds(t, w, o) /\ Follows(t.win[w], t.own[o])
      BY <1>2, <1>5, <3>1, <3>2, ShowHolds
    <3> QED
      BY <1>3, <1>7, <2>1, <3>3, ArriveKept
  <2> QED
    BY <2>2, <2>3
<1> QED
  BY <1>2, <1>8, <1>9

\* Only the override-redirect flag of the window changes.
WithRedirect(s, w, b) == [s EXCEPT !.win[w].redirect = b]

LEMMA Redirected ==
  ASSUME NEW s \in XState, NEW w \in Windows, NEW o \in Owners, Holds(s, w, o),
         NEW b \in BOOLEAN, NEW t, t = WithRedirect(s, w, b)
  PROVE  /\ t \in XState /\ Elsewhere(t, s, w, {}) /\ Holds(t, w, o) /\ t.own = s.own
         /\ t.win[w].surface = s.win[w].surface /\ (t.win[w].redirect <=> b)
         /\ t.win[w].alive = s.win[w].alive
<1> DEFINE v == [s.win[w] EXCEPT !.redirect = b]
<1>1. s.win[w] \in Window
  BY Records
<1>2. v \in Window
  BY <1>1 DEF Window
<1>3. t = [s EXCEPT !.win = [s.win EXCEPT ![w] = v]]
  BY DEF XState, WithRedirect
<1>4. t \in XState /\ t.win[w] = v /\ t.own = s.own /\ Elsewhere(t, s, w, {})
  BY <1>2, <1>3 DEF XState, Elsewhere
<1>5. Holds(t, w, o)
  BY <1>1, <1>4 DEF Holds, Hung, Window
<1> QED
  BY <1>1, <1>4, <1>5 DEF Window

LEMMA SetOverrideRedirectKept ==
  ASSUME Kept(xw), NEW w \in Windows, NEW n \in FreeOwners, SetOverrideRedirect(w, n)
  PROVE  Kept(xw')
<1> DEFINE u == [xw EXCEPT !.win[w].redirect = ~@]
<1>1. PICK o \in xw.win[w].handlers :
        IF xw.own[o].kind = "view" THEN Settle(HandleOverrideRedirect(u, w, o, n))
        ELSE Arrive(UnmanagedOverrideRedirect(u, w, o, n), n)
  BY DEF SetOverrideRedirect
<1>2. /\ o \in Owners /\ Holds(xw, w, o) /\ Follows(xw.win[w], xw.own[o]) /\ xw.win[w].alive
      /\ xw \in XState /\ xw.own[o].kind \in {"view", "unmanaged"} /\ xw.own[o].window = w
  BY <1>1, Listens DEF Kept, Holds
<1>3. n \in Owners /\ xw.own[n].kind = "free"
  BY DEF FreeOwners
<1>4. u = WithRedirect(xw, w, ~xw.win[w].redirect)
  BY DEF WithRedirect
<1> HIDE DEF u
<1>5. /\ u \in XState /\ Elsewhere(u, xw, w, {}) /\ Holds(u, w, o) /\ u.own = xw.own
      /\ u.win[w].surface = xw.win[w].surface /\ u.win[w].alive
  <2> DEFINE b == ~xw.win[w].redirect
  <2>1. b \in BOOLEAN /\ u = WithRedirect(xw, w, b)
    BY <1>4
  <2> HIDE DEF b
  <2> QED
    BY <1>2, <2>1, Redirected
<1>6. ASSUME NEW d, Left(d, u, w, o)
      PROVE  /\ d \in XState /\ d.win[w].alive /\ Empty(d.win[w])
             /\ d.win[w].redirect = u.win[w].redirect /\ (Covering(d, w) <=> Covering(u, w))
  BY <1>5, <1>6 DEF Left, SameWindow, Empty, Covering
<1>7. CASE xw.own[o].kind = "view"
  <2> DEFINE t == HandleOverrideRedirect(u, w, o, n)
  <2>1. Settle(t)
    BY <1>1, <1>7
  <2>2. CASE ~u.win[w].redirect \/ Covering(u, w)
    <3>1. t = u
      BY <2>2 DEF HandleOverrideRedirect
    <3>2. Follows(u.win[w], u.own[o])
      BY <1>2, <1>5, <1>7 DEF Follows
    <3>3. Elsewhere(u, xw, w, {o})
      BY <1>5 DEF Elsewhere
    <3>4. Kept(u)
      BY <1>2, <1>5, <3>2, <3>3, StaysKept
    <3> QED
      BY <2>1, <3>1, <3>4, SettleKept
  <2>3. CASE ~(~u.win[w].redirect \/ Covering(u, w))
    <3> DEFINE d == HandleDestroy(u, w, o)
    <3>1. t = BecomeUnmanaged(d, w, n)
      BY <2>3 DEF HandleOverrideRedirect
    <3>2. Left(d, u, w, o)
      BY <1>2, <1>5, <1>7, DestroyView
    <3> HIDE DEF d, t
    <3>3. Taken(t, d, w, n) /\ Holds(t, w, n) /\ Follows(t.win[w], t.own[n])
      BY <1>3, <1>6, <2>3, <3>1, <3>2, BecomesUnmanaged
    <3>4. Kept(t)
      BY <1>2, <1>3, <1>5, <3>2, <3>3, TakeoverKept
    <3> QED
      BY <2>1, <3>4, SettleKept
  <2> QED
    BY <2>2, <2>3
<1>8. CASE xw.own[o].kind = "unmanaged"
  <2> DEFINE d == UnmanagedDestroy(u, w, o)
             t == BecomeView(d, w, n)
  <2>1. Arrive(t, n)
    BY <1>1, <1>8 DEF UnmanagedOverrideRedirect
  <2>2. Left(d, u, w, o)
    BY <1>2, <1>5, <1>8, DestroyUnmanaged
  <2>5. t = BecomeView(d, w, n)
    OBVIOUS
  <2> HIDE DEF d, t
  <2>3. Taken(t, d, w, n) /\ Holds(t, w, n) /\ Follows(t.win[w], t.own[n])
    BY <1>3, <1>6, <2>2, <2>5, BecomesView
  <2>4. Kept(t)
    BY <1>2, <1>3, <1>5, <2>2, <2>3, TakeoverKept
  <2> QED
    BY <1>3, <2>1, <2>4, ArriveKept
<1> QED
  BY <1>2, <1>7, <1>8

LEMMA NewSurfaceKept ==
  ASSUME Kept(xw), NEW w \in Windows, NEW o \in FreeOwners, NEW redirect \in BOOLEAN,
         NEW g \in Geometry, HandleXwaylandSurface(w, o, redirect, g)
  PROVE  Kept(xw')
<1> DEFINE v == [Gone EXCEPT !.alive = TRUE, !.redirect = redirect, !.geometry = g]
           made == [xw EXCEPT !.win[w] = v]
           kind == IF redirect /\ g # "covering" THEN "unmanaged" ELSE "view"
<1>1. o \in Owners /\ xw.own[o].kind = "free" /\ xw \in XState
  BY DEF FreeOwners, Kept
<1>2. v \in Window /\ v.alive /\ Empty(v) /\ v.surface = "none" /\ (v.redirect <=> redirect)
  BY DEF Gone, Window, Empty
<1>3. /\ made \in XState /\ Elsewhere(made, xw, w, {}) /\ made.win[w] = v
  BY <1>1, <1>2 DEF XState, Elsewhere
<1>4. xw' = Create(made, w, o, kind)
  BY DEF HandleXwaylandSurface, CreateUnmanaged, CreateXwaylandView
<1>5. kind \in {"view", "unmanaged"} /\ (kind = "unmanaged" => redirect)
  OBVIOUS
<1> HIDE DEF v, made, kind
<1>6. /\ Taken(xw', made, w, o) /\ Holds(xw', w, o) /\ xw'.own[o].kind = kind
      /\ ~xw'.own[o].associated /\ ~xw'.own[o].mapped
  BY <1>1, <1>2, <1>3, <1>4, <1>5, CreateHolds
<1>7. Follows(xw'.win[w], xw'.own[o])
  BY <1>2, <1>3, <1>5, <1>6 DEF Follows, Taken, SameWindow
<1>8. xw' \in XState /\ Elsewhere(xw', xw, w, {o})
  BY <1>3, <1>6 DEF Taken, Elsewhere
<1>9. ASSUME NEW x \in Owners, xw.own[x].window = w PROVE FALSE
  BY <1>9, OneOwner DEF HandleXwaylandSurface, Hung
<1>10. Paired(xw', o) /\ Claimed(xw', w)
  BY <1>1, <1>6, <1>7 DEF Paired, Claimed, Holds, Hung
<1>11. xw.own[o].window = NoWindow
  BY <1>1, FreeIsLone
<1> QED
  BY <1>1, <1>8, <1>9, <1>10, <1>11, LocalChange

\* Two objects that differ in the place of their scene nodes only.
SameRest(r, q) ==
  /\ r.kind = q.kind /\ r.window = q.window
  /\ (r.associated <=> q.associated) /\ (r.mapped <=> q.mapped)
  /\ (r.commitActive <=> q.commitActive) /\ (r.destroying <=> q.destroying)
  /\ r.container = q.container /\ (r.urgent <=> q.urgent) /\ (r.timer <=> q.timer)

LEMMA SetGeometryKept ==
  ASSUME Kept(xw), NEW w \in Windows, NEW g \in Geometry, SetGeometry(w, g)
  PROVE  Kept(xw')
<1> DEFINE o == xw.win[w].data
           v == [xw.win[w] EXCEPT !.geometry = g]
           r == IF o \in xw.win[w].geometryHandlers THEN [xw.own[o] EXCEPT !.scene = g]
                ELSE xw.own[o]
<1>1. xw.win[w].alive /\ xw.win[w] # Gone
  BY DEF SetGeometry, Gone
<1>2. o \in Owners /\ xw.own[o].window = w /\ xw \in XState
  BY <1>1 DEF Kept, Claimed
<1>3. Hung(xw.win[w], xw.own[o], o) /\ Follows(xw.win[w], xw.own[o])
  BY <1>2, OneOwner
<1>4. xw.win[w] \in Window /\ xw.own[o] \in Owner
  BY <1>2, Records
<1>5. v \in Window /\ r \in Owner
  <2>1. v \in Window
    BY <1>4 DEF Window
  <2>2. [xw.own[o] EXCEPT !.scene = g] \in Owner
    BY <1>4 DEF Owner
  <2> QED
    BY <1>4, <2>1, <2>2
<1>6. SameRest(r, xw.own[o])
  BY <1>4 DEF Owner, SameRest
<1>7. Hung(v, r, o) /\ Follows(v, r)
  <2>1. Hung(v, xw.own[o], o) /\ Follows(v, xw.own[o])
    BY <1>3, <1>4 DEF Hung, Follows, Window
  <2> HIDE DEF v, r, o
  <2> QED
    BY <1>6, <2>1 DEF SameRest, Hung, Hangs, Follows
<1>8. xw'.win = [xw.win EXCEPT ![w] = v]
  BY DEF SetGeometry
<1>9. xw'.own = [x \in Owners |-> IF x \in xw.win[w].geometryHandlers
                                  THEN [xw.own[x] EXCEPT !.scene = g] ELSE xw.own[x]]
      /\ xw' = [win |-> xw'.win, own |-> xw'.own]
  BY DEF SetGeometry
<1>10. xw'.win[w] = v /\ xw'.own[o] = r
  BY <1>2, <1>8, <1>9 DEF XState
<1>11. \A x \in Owners \ {o} : xw'.own[x] = xw.own[x]
  BY <1>3, <1>9 DEF Hung, Hangs
<1>12. \A x \in Windows \ {w} : xw'.win[x] = xw.win[x]
  BY <1>2, <1>8 DEF XState
<1>13. xw' \in XState
  <2>1. xw'.win \in [Windows -> Window]
    BY <1>2, <1>5, <1>8 DEF XState
  <2>2. \A x \in Owners : xw'.own[x] \in Owner
    BY <1>2, <1>5, <1>10, <1>11 DEF XState
  <2>3. xw'.own \in [Owners -> Owner]
    BY <1>9, <2>2
  <2> QED
    BY <1>9, <2>1, <2>3 DEF XState
<1>14. r.window = w
  BY <1>2, <1>6 DEF SameRest
<1> HIDE DEF v, r, o
<1> QED
  BY <1>2, <1>7, <1>10, <1>11, <1>12, <1>13, <1>14, StaysKept DEF Elsewhere, Holds

\* What a mapped view is, in the terms of the lemmas.
LEMMA MappedTyped ==
  ASSUME NEW s, Kept(s), NEW o, o \in MappedViews(s)
  PROVE  o \in Owners /\ s.own[o] \in Owner /\ s.own[o].kind = "view" /\ s.own[o].mapped
BY DEF MappedViews, Kept, XState

\* A view whose window is mapped is mapped.
LEMMA ListenerMapped ==
  ASSUME NEW s, Kept(s), NEW w \in Windows, NEW o \in s.win[w].handlers,
         s.win[w].surface = "mapped", s.own[o].kind = "view"
  PROVE  o \in MappedViews(s)
<1>1. o \in Owners /\ Follows(s.win[w], s.own[o])
  BY Listens
<1> QED
  BY <1>1 DEF Follows, MappedViews

LEMMA SetHintsKept ==
  ASSUME Kept(xw), NEW w \in Windows, NEW urgency \in BOOLEAN, SetHints(w, urgency)
  PROVE  Kept(xw')
<1>1. PICK o \in xw.win[w].handlers :
        xw.own[o].kind = "view" /\ xw' = ViewSetUrgent(xw, o, urgency)
  BY DEF SetHints
<1>2. o \in MappedViews(xw)
  BY <1>1, ListenerMapped DEF SetHints
<1> QED
  BY <1>1, <1>2, MappedTyped, SetUrgentKept

LEMMA FocusXViewKept ==
  ASSUME Kept(xw), NEW o, FocusXView(o)
  PROVE  Kept(xw')
<1>1. PICK v \in BOOLEAN : xw' = NoteFocus(xw, o, v)
  BY DEF FocusXView
<1>2. o \in MappedViews(xw)
  BY DEF FocusXView
<1> QED
  BY <1>1, <1>2, MappedTyped, NoteFocusKept

LEMMA HandleRequestActivateKept ==
  ASSUME Kept(xw), NEW w \in Windows, NEW answer \in {"focus", "urgent"},
         HandleRequestActivate(w, answer)
  PROVE  Kept(xw')
<1>1. PICK o \in xw.win[w].handlers :
        /\ xw.own[o].kind = "view"
        /\ FocusXView(o) \/ xw' = ViewSetUrgent(xw, o, TRUE)
  BY DEF HandleRequestActivate
<1>2. o \in MappedViews(xw)
  BY <1>1, ListenerMapped DEF HandleRequestActivate
<1>3. CASE FocusXView(o)
  BY <1>3, FocusXViewKept
<1>4. CASE xw' = ViewSetUrgent(xw, o, TRUE)
  BY <1>2, <1>4, MappedTyped, SetUrgentKept
<1> QED
  BY <1>1, <1>3, <1>4

LEMMA CmdUrgentKept ==
  ASSUME Kept(xw), NEW o, NEW arg, CmdUrgent(o, arg)
  PROVE  Kept(xw')
<1>1. o \in Owners /\ xw.own[o] \in Owner /\ xw.own[o].kind = "view" /\ xw.own[o].mapped
  BY MappedTyped DEF CmdUrgent
<1>2. CASE arg \in {"allow", "deny"}
  <2> DEFINE allow == (arg = "allow")
             r == [xw.own[o] EXCEPT !.allow = allow]
  <2>1. allow \in BOOLEAN
    OBVIOUS
  <2>2. xw' = [xw EXCEPT !.own = [xw.own EXCEPT ![o] = r]]
    BY <1>2 DEF CmdUrgent, Kept, XState
  <2> HIDE DEF allow
  <2>3. r \in Owner /\ r.window = xw.own[o].window
    BY <1>1, <2>1 DEF Owner
  <2>4. ~Lone(xw.own[o])
    BY <1>1 DEF Lone, Free, Made
  <2>5. ASSUME NEW v, Hung(v, xw.own[o], o), Follows(v, xw.own[o])
        PROVE  Hung(v, r, o) /\ Follows(v, r)
    BY <1>1, <2>5 DEF Hung, Follows, Owner
  <2> HIDE DEF r
  <2> QED
    BY <1>1, <2>2, <2>3, <2>4, <2>5, FlagsKept
<1>3. CASE arg \notin {"allow", "deny"}
  <2> DEFINE enable == (arg = "enable")
  <2>1. enable \in BOOLEAN /\ xw' = ViewSetUrgent(xw, o, enable)
    BY <1>3 DEF CmdUrgent
  <2> HIDE DEF enable
  <2> QED
    BY <1>1, <2>1, SetUrgentKept
<1> QED
  BY <1>2, <1>3

LEMMA HandleUrgentTimeoutKept ==
  ASSUME Kept(xw), NEW o \in Owners, HandleUrgentTimeout(o)
  PROVE  Kept(xw')
<1>1. xw.own[o].timer /\ xw' = ViewSetUrgent(xw, o, FALSE)
  BY DEF HandleUrgentTimeout
<1>2. ~Lone(xw.own[o])
  BY <1>1 DEF Lone, Free, Made
<1>3. xw.own[o].kind = "view" /\ xw.own[o].mapped
  BY <1>1, <1>2 DEF Kept, Paired, Hung
<1> QED
  BY <1>1, <1>3, SetUrgentKept

LEMMA ContainerDestroyKept ==
  ASSUME Kept(xw), NEW o \in Owners, ContainerDestroy(o)
  PROVE  Kept(xw')
<1> DEFINE r == IF xw.own[o].destroying THEN Free ELSE [xw.own[o] EXCEPT !.container = "none"]
<1>1. xw.own[o] \in Owner /\ xw.own[o].container = "dying"
  BY DEF Kept, XState, ContainerDestroy
<1>2. r \in Owner
  BY <1>1, FreeTyped DEF Owner
<1>3. xw' = [xw EXCEPT !.own = [xw.own EXCEPT ![o] = r]]
  BY DEF ContainerDestroy, Kept, XState
<1>4. CASE xw.own[o].destroying
  <2>1. r = Free
    BY <1>4
  <2>2. Lone(xw.own[o])
    BY <1>4 DEF Kept, Paired, Hung
  <2>3. r.window = xw.own[o].window /\ Lone(r)
    BY <2>1, <2>2, LoneHasNoWindow, FreeTyped
  <2>4. \A v : ~Hung(v, xw.own[o], o)
    BY <1>4 DEF Hung
  <2> HIDE DEF r
  <2> QED
    BY <1>2, <1>3, <2>3, <2>4, FlagsKept
<1>5. CASE ~xw.own[o].destroying
  <2>1. ~Lone(xw.own[o])
    BY <1>1, <1>5 DEF Lone, Free, Made
  <2>2. r.window = xw.own[o].window
    BY <1>1, <1>5 DEF Owner
  <2>3. ASSUME NEW v, Hung(v, xw.own[o], o), Follows(v, xw.own[o])
        PROVE  Hung(v, r, o) /\ Follows(v, r)
    BY <1>1, <1>5, <2>3 DEF Hung, Follows, Owner
  <2> HIDE DEF r
  <2> QED
    BY <1>2, <1>3, <2>1, <2>2, <2>3, FlagsKept
<1> QED
  BY <1>4, <1>5

------------------------------------------------------------------------------
(***************************************************************************)
(* The invariant, and what it says.                                        *)
(***************************************************************************)
LEMMA InitKept == XwaylandInit => Kept(xw)
<1> SUFFICES ASSUME XwaylandInit PROVE Kept(xw)
  OBVIOUS
<1>1. xw.win = [w \in Windows |-> Gone] /\ xw.own = [o \in Owners |-> Free]
      /\ xw = [win |-> xw.win, own |-> xw.own]
  BY DEF XwaylandInit
<1>2. Gone \in Window
  BY DEF Gone, Window, Geometry
<1>3. xw \in XState
  BY <1>1, <1>2, FreeTyped DEF XState
<1> QED
  BY <1>1, <1>3, FreeTyped DEF Kept

LEMMA NextKept == Kept(xw) /\ [XwaylandNext]_xwVars => Kept(xw')
<1> SUFFICES ASSUME Kept(xw), [XwaylandNext]_xwVars PROVE Kept(xw')
  OBVIOUS
<1>1. ASSUME NEW w \in Windows, NEW o \in FreeOwners, NEW redirect \in BOOLEAN,
             NEW g \in Geometry, HandleXwaylandSurface(w, o, redirect, g)
      PROVE  Kept(xw')
  BY <1>1, NewSurfaceKept
<1>2. ASSUME NEW w \in Windows, Associate(w) \/ Unmap(w) \/ Dissociate(w) \/ Destroy(w)
      PROVE  Kept(xw')
  BY <1>2, AssociateKept, UnmapKept, DissociateKept, DestroyKept
<1>3. ASSUME NEW w \in Windows, NEW n \in FreeOwners, Map(w, n) \/ SetOverrideRedirect(w, n)
      PROVE  Kept(xw')
  BY <1>3, MapKept, SetOverrideRedirectKept
<1>4. ASSUME NEW w \in Windows, NEW g \in Geometry, SetGeometry(w, g)
      PROVE  Kept(xw')
  BY <1>4, SetGeometryKept
<1>5. ASSUME NEW w \in Windows, NEW u \in BOOLEAN, SetHints(w, u)
      PROVE  Kept(xw')
  BY <1>5, SetHintsKept
<1>6. ASSUME NEW w \in Windows, NEW a \in {"focus", "urgent"}, HandleRequestActivate(w, a)
      PROVE  Kept(xw')
  BY <1>6, HandleRequestActivateKept
<1>7. ASSUME NEW o \in Owners, FocusXView(o) \/ HandleUrgentTimeout(o) \/ ContainerDestroy(o)
      PROVE  Kept(xw')
  BY <1>7, FocusXViewKept, HandleUrgentTimeoutKept, ContainerDestroyKept
<1>8. ASSUME NEW o \in Owners, NEW a \in {"allow", "deny", "enable", "disable"}, CmdUrgent(o, a)
      PROVE  Kept(xw')
  BY <1>8, CmdUrgentKept
<1>9. CASE UNCHANGED xwVars
  BY <1>9 DEF xwVars
<1> QED
  BY <1>1, <1>2, <1>3, <1>4, <1>5, <1>6, <1>7, <1>8, <1>9 DEF XwaylandNext

LEMMA AlwaysKept == XwaylandSpec => []Kept(xw)
<1>1. Kept(xw) /\ [XwaylandNext]_xwVars => Kept(xw)'
  BY NextKept
<1> QED
  BY <1>1, InitKept, PTL DEF XwaylandSpec

LEMMA KeptFollows == Kept(xw) => OwnerFollowsWindow
<1> SUFFICES ASSUME Kept(xw), NEW w \in Windows, xw.win[w].alive
             PROVE  \E o \in Owners :
                      /\ OwnerOf(w) = {o} /\ xw.win[w].data = o
                      /\ xw.own[o].associated <=> (xw.win[w].surface # "none")
                      /\ xw.own[o].mapped <=> (xw.win[w].surface = "mapped")
                      /\ xw.own[o].kind = "view" /\ xw.own[o].mapped => xw.own[o].container = "live"
                      /\ xw.own[o].kind = "unmanaged" => xw.win[w].redirect
  BY DEF OwnerFollowsWindow
<1> DEFINE o == xw.win[w].data
<1>1. xw.win[w] # Gone
  BY DEF Gone
<1>2. o \in Owners /\ xw.own[o].window = w
  BY <1>1 DEF Kept, Claimed
<1> HIDE DEF o
<1>3. /\ Hung(xw.win[w], xw.own[o], o) /\ Follows(xw.win[w], xw.own[o])
      /\ \A x \in Owners \ {o} : xw.own[x].window # w
  BY <1>2, OneOwner
<1>4. OwnerOf(w) = {o}
  BY <1>2, <1>3 DEF OwnerOf
<1>5. xw.win[w].data = o
  BY DEF o
<1> QED
  BY <1>2, <1>3, <1>4, <1>5 DEF Hung, Follows

LEMMA KeptListeners == Kept(xw) => ListenersAreLive
<1> SUFFICES ASSUME Kept(xw) PROVE ListenersAreLive
  OBVIOUS
<1>1. ASSUME NEW w \in Windows
      PROVE  /\ xw.win[w].handlers = OwnerOf(w)
             /\ xw.win[w].mapHandlers = {x \in OwnerOf(w) : xw.own[x].associated}
             /\ xw.win[w].commitHandlers = {x \in OwnerOf(w) : xw.own[x].commitActive}
             /\ xw.win[w].geometryHandlers =
                  {x \in OwnerOf(w) : xw.own[x].kind = "unmanaged" /\ xw.own[x].mapped}
  <2>1. CASE xw.win[w] = Gone
    <3>1. ASSUME NEW x \in Owners, xw.own[x].window = w PROVE FALSE
      BY <2>1, <3>1, OneOwner DEF Gone, Hung
    <3>2. OwnerOf(w) = {}
      BY <3>1 DEF OwnerOf
    <3> QED
      BY <2>1, <3>2 DEF Gone
  <2>2. CASE xw.win[w] # Gone
    <3> DEFINE o == xw.win[w].data
    <3>1. o \in Owners /\ xw.own[o].window = w
      BY <2>2 DEF Kept, Claimed
    <3> HIDE DEF o
    <3>2. /\ Hung(xw.win[w], xw.own[o], o)
          /\ \A x \in Owners \ {o} : xw.own[x].window # w
      BY <3>1, OneOwner
    <3>3. OwnerOf(w) = {o}
      BY <3>1, <3>2 DEF OwnerOf
    <3> QED
      BY <3>2, <3>3 DEF Hung, Hangs
  <2> QED
    BY <2>1, <2>2
<1>2. ASSUME NEW o \in Owners, xw.own[o].kind # "free", xw.own[o].window = NoWindow
      PROVE  xw.own[o].destroying /\ xw.own[o].container = "dying"
  <2>1. ~Paired(xw, o)
    BY <1>2, XwaylandConstants DEF Paired
  <2> QED
    BY <1>2, <2>1 DEF Kept, Lone, Free, Made
<1> QED
  BY <1>1, <1>2 DEF ListenersAreLive

LEMMA KeptTimers == Kept(xw) => TimerIsUrgent
<1> SUFFICES ASSUME Kept(xw), NEW o \in Owners, xw.own[o].timer
             PROVE  o \in MappedViews(xw) /\ xw.own[o].urgent
  BY DEF TimerIsUrgent
<1>1. ~Lone(xw.own[o])
  BY DEF Lone, Free, Made
<1> QED
  BY <1>1 DEF Kept, Paired, Hung, MappedViews

\* However many windows X11 has, and in whatever order its events come, each
\* has one owner, associated and mapped as the window is: what
\* handle_associate .. handle_override_redirect and their unmanaged
\* counterparts keep between them.
THEOREM OwnersFollow == XwaylandSpec => []OwnerFollowsWindow
BY AlwaysKept, KeptFollows, PTL

\* No listener is left on a window or a surface by an object that is gone, and
\* no urgency timer runs for a view that is not mapped: what handle_destroy,
\* unmanaged_handle_destroy, view_unmap and view_begin_destroy clean up.
THEOREM DeadAreQuiet == XwaylandSpec => []NothingRunsForTheDead
<1>1. Kept(xw) => NothingRunsForTheDead
  BY KeptListeners, KeptTimers DEF NothingRunsForTheDead
<1> QED
  BY <1>1, AlwaysKept, PTL

(***************************************************************************)
(* The keyboard.                                                           *)
(***************************************************************************)
Nodes == Views \cup {Desktop}
FocusSurfaces == Views \cup Layers \cup Unmanaged
Place == {Nothing} \cup UNION {OutputsOf[l] : l \in Layers}

LayerType ==
  [made : BOOLEAN, mapped : BOOLEAN, level : Nat, mode : {"none", "demand", "exclusive"},
   output : Place]

FocusType ==
  [stack : Seq(Nodes), hasFocus : BOOLEAN, fullscreen : Views \cup {Nothing},
   keyboard : FocusSurfaces \cup {Nothing}, layer : [Layers -> LayerType], order : Seq(Layers),
   focusedLayer : Layers \cup {Nothing}, exclusive : BOOLEAN, unmanaged : SUBSET Unmanaged,
   drag : BOOLEAN, im : BOOLEAN,
   entered : [TextInputs -> FocusSurfaces \cup {Nothing}],
   pending : [TextInputs -> FocusSurfaces \cup {Nothing}],
   constraint : [Constrained -> {"none", "oneshot", "persistent"}],
   active : Constrained \cup {Nothing},
   commit : {"empty", "removed", "corrupt"} \cup Constrained, allow : BOOLEAN]

\* The text inputs know one surface at most, of their own client.
OneSurface(s, u) ==
  \A t \in TextInputs : /\ s.entered[t] \in {Nothing, u} /\ s.pending[t] \in {Nothing, u}
                        /\ s.entered[t] # Nothing \/ s.pending[t] # Nothing => Client[u] = Client[t]

TextsKnown(s) ==
  /\ \E u \in FocusSurfaces \cup {Nothing} : OneSurface(s, u)
  /\ \A t \in TextInputs :
       Alone(t) => IF s.im THEN s.pending[t] = Nothing ELSE s.entered[t] = Nothing

ConstraintHeld(s) ==
  /\ s.commit = IF s.active = Nothing THEN "empty" ELSE s.active
  /\ s.active # Nothing => s.allow /\ s.constraint[s.active] # "none"

\* What every piece of a change of focus keeps, a layer's focus aside.
Sound(s) ==
  /\ s \in FocusType /\ Contains(s.stack, Desktop)
  /\ ConstraintHeld(s) /\ TextsKnown(s)

LayersSound(s) ==
  /\ s.exclusive => s.focusedLayer # Nothing
  /\ s.focusedLayer # Nothing => s.layer[s.focusedLayer].mapped /\ ~s.hasFocus
  /\ \A l \in Layers : s.layer[l].mapped => s.layer[l].made

Steady(s) == Sound(s) /\ LayersSound(s)

\* What a drag suspends.
KeyboardAgrees(s) ==
  ~s.drag => /\ s.focusedLayer # Nothing => s.keyboard \in {s.focusedLayer} \cup s.unmanaged
             /\ Focus(s) \in Views => s.keyboard \in {Focus(s)} \cup s.unmanaged

ConstraintAgrees(s) == ~s.drag /\ s.active # Nothing /\ Focus(s) \in Views => s.active = Focus(s)

TextsAgree(s) ==
  ~s.drag /\ s.keyboard # Nothing =>
    \A t \in TextInputs : {s.entered[t], s.pending[t]} \subseteq {Nothing, s.keyboard}

Agreeing(s) == Steady(s) /\ KeyboardAgrees(s) /\ ConstraintAgrees(s) /\ TextsAgree(s)

FocusInv == Agreeing(f)

------------------------------------------------------------------------------
LEMMA LeastExists ==
  ASSUME NEW I \in SUBSET Nat, I # {}
  PROVE  \E x \in I : \A y \in I : x <= y
<1>1. \E x \in I : \A y \in I : <<y, x>> \notin OpToRel(<, Nat)
  BY NatLessThanWellFounded, WFMin
<1>2. PICK x \in I : \A y \in I : <<y, x>> \notin OpToRel(<, Nat)
  BY <1>1
<1>3. \A y \in I : ~(y < x)
  BY <1>2 DEF OpToRel
<1> QED
  BY <1>3

LEMMA MinOf ==
  ASSUME NEW I \in SUBSET Nat, I # {}
  PROVE  Min(I) \in I /\ \A j \in I : Min(I) <= j
BY LeastExists DEF Min

LEMMA MaxOf ==
  ASSUME NEW n \in Nat, NEW I \in SUBSET (1 .. n), I # {}
  PROVE  Max(I) \in I
<1> DEFINE J == {n - i : i \in I}
<1>1. J \in SUBSET Nat /\ J # {}
  <2>1. \A i \in I : n - i \in Nat
    OBVIOUS
  <2>2. PICK i \in I : TRUE
    OBVIOUS
  <2>3. n - i \in J
    OBVIOUS
  <2> QED
    BY <2>1, <2>3
<1> HIDE DEF J
<1>2. PICK x \in J : \A y \in J : x <= y
  BY <1>1, LeastExists
<1>3. PICK m \in I : x = n - m
  BY <1>2 DEF J
<1>4. ASSUME NEW i \in I
      PROVE  m >= i
  <2>1. n - m <= n - i
    BY <1>2, <1>3 DEF J
  <2> QED
    BY <2>1
<1> QED
  BY <1>4 DEF Max

LEMMA RemoveFirstKeeps ==
  ASSUME NEW S, NEW seq \in Seq(S), NEW e
  PROVE  /\ RemoveFirst(seq, e) \in Seq(S)
         /\ \A d \in S : d # e /\ Contains(seq, d) => Contains(RemoveFirst(seq, e), d)
         /\ seq # <<>> /\ Head(seq) # e => Head(RemoveFirst(seq, e)) = Head(seq)
<1> DEFINE I == {i \in 1 .. Len(seq) : seq[i] = e}
           k == Min(I)
<1>1. CASE I = {}
  BY <1>1 DEF RemoveFirst
<1>2. CASE I # {}
  <2>1. k \in I
    <3>1. I \in SUBSET Nat
      OBVIOUS
    <3> HIDE DEF I
    <3> QED
      BY <1>2, <3>1, MinOf
  <2>2. RemoveFirst(seq, e) = SubSeq(seq, 1, k - 1) \o SubSeq(seq, k + 1, Len(seq))
    BY <1>2 DEF RemoveFirst, RemoveAt, SelectInSeq
  <2> DEFINE a == SubSeq(seq, 1, k - 1)
             b == SubSeq(seq, k + 1, Len(seq))
  <2>3. k \in 1 .. Len(seq) /\ seq[k] = e
    BY <2>1
  <2> HIDE DEF k
  <2>4. /\ a \in Seq(S) /\ Len(a) = k - 1 /\ \A i \in 1 .. k - 1 : a[i] = seq[i]
        /\ b \in Seq(S) /\ Len(b) = Len(seq) - k /\ \A i \in 1 .. Len(seq) - k : b[i] = seq[i + k]
    BY <2>3
  <2> HIDE DEF a, b
  <2>5. a \o b \in Seq(S) /\ Len(a \o b) = Len(seq) - 1
    <3>1. Len(a) + Len(b) = Len(seq) - 1
      BY <2>3, <2>4
    <3> QED
      BY <2>4, <3>1
  <2>6. ASSUME NEW d \in S, d # e, Contains(seq, d)
        PROVE  Contains(a \o b, d)
    <3>1. PICK i \in 1 .. Len(seq) : seq[i] = d
      BY <2>6 DEF Contains
    <3>2. CASE i < k
      <4>1. i \in 1 .. Len(a \o b) /\ (a \o b)[i] = d
        BY <2>3, <2>4, <2>5, <3>1, <3>2
      <4> QED
        BY <4>1 DEF Contains
    <3>3. CASE i > k
      <4>1. i - 1 \in 1 .. Len(a \o b) /\ i - k \in 1 .. Len(b) /\ i - 1 = Len(a) + (i - k)
        BY <2>3, <2>4, <2>5, <3>1, <3>3
      <4>2. (a \o b)[i - 1] = b[i - k]
        BY <2>4, <4>1, ConcatProperties
      <4>3. b[i - k] = d
        BY <2>3, <2>4, <3>1, <4>1
      <4> QED
        BY <4>1, <4>2, <4>3 DEF Contains
    <3> QED
      BY <2>3, <2>6, <3>1, <3>2, <3>3
  <2>7. ASSUME seq # <<>>, Head(seq) # e
        PROVE  Head(a \o b) = Head(seq)
    <3>1. k # 1
      BY <2>3, <2>7
    <3>2. 1 \in 1 .. k - 1 /\ (a \o b)[1] = seq[1]
      BY <2>3, <2>4, <3>1
    <3> QED
      BY <2>5, <2>7, <3>2, <2>3
  <2> QED
    BY <2>2, <2>5, <2>6, <2>7 DEF a, b
<1> QED
  BY <1>1, <1>2
------------------------------------------------------------------------------
\* What the pointer constraint leaves alone.
BesidesConstraint(s, t) ==
  /\ t.stack = s.stack /\ t.hasFocus = s.hasFocus /\ t.fullscreen = s.fullscreen
  /\ t.keyboard = s.keyboard /\ t.layer = s.layer /\ t.order = s.order
  /\ t.focusedLayer = s.focusedLayer /\ t.exclusive = s.exclusive /\ t.unmanaged = s.unmanaged
  /\ t.drag = s.drag /\ t.im = s.im /\ t.entered = s.entered /\ t.pending = s.pending
  /\ t.allow = s.allow

LEMMA DestroyedConstraint ==
  ASSUME NEW s \in FocusType, NEW c \in Constrained
  PROVE  LET t == ConstraintDestroyed(s, c)
         IN  /\ t \in FocusType /\ BesidesConstraint(s, t)
             /\ t.constraint = [s.constraint EXCEPT ![c] = "none"]
             /\ t.active = IF s.active = c THEN Nothing ELSE s.active
             /\ t.commit = IF s.active = c THEN "empty" ELSE s.commit
BY DEF ConstraintDestroyed, FocusType, BesidesConstraint

LEMMA ConstrainMoves ==
  ASSUME NEW s \in FocusType, ConstraintHeld(s),
         NEW c \in Constrained \cup {Nothing}, c # Nothing => s.constraint[c] # "none"
  PROVE  LET t == Constrain(s, c)
         IN  /\ t \in FocusType /\ BesidesConstraint(s, t) /\ ConstraintHeld(t)
             /\ t.active = IF s.allow THEN c ELSE Nothing
<1> DEFINE d == [s EXCEPT !.commit = Unlink(s.commit)]
           e == IF s.active = Nothing THEN d ELSE Deactivated(d, s.active)
           t == Constrain(s, c)
<1> USE SurfacesDistinct
<1>1. CASE ~s.allow \/ s.active = c
  BY <1>1 DEF Constrain, ConstraintHeld, BesidesConstraint
<1>2. CASE s.allow /\ s.active # c
  <2>0. t = [e EXCEPT !.active = c,
                      !.commit = IF e.commit = "corrupt" THEN e.commit
                                 ELSE IF c = Nothing THEN "empty" ELSE c]
    BY <1>2 DEF Constrain
  <2>1. /\ d \in FocusType /\ BesidesConstraint(s, d)
        /\ d.constraint = s.constraint /\ d.active = s.active /\ d.commit = "removed"
    BY DEF FocusType, BesidesConstraint, Unlink, ConstraintHeld
  <2> HIDE DEF d
  <2>2. /\ e \in FocusType /\ BesidesConstraint(s, e) /\ e.commit \in {"removed", "empty"}
        /\ c # Nothing => e.constraint[c] # "none"
    <3>1. CASE s.active = Nothing \/ d.constraint[s.active] # "oneshot"
      BY <2>1, <3>1 DEF Deactivated
    <3>2. CASE s.active # Nothing /\ d.constraint[s.active] = "oneshot"
      <4>1. e = ConstraintDestroyed(d, s.active) /\ s.active \in Constrained
        BY <3>2 DEF Deactivated, FocusType
      <4>2. /\ e \in FocusType /\ BesidesConstraint(d, e) /\ e.commit = "empty"
            /\ e.constraint = [d.constraint EXCEPT ![s.active] = "none"]
        BY <2>1, <4>1, DestroyedConstraint
      <4>3. c # Nothing => c \in Constrained /\ c # s.active /\ e.constraint[c] = d.constraint[c]
        BY <1>2, <2>1, <4>2 DEF FocusType
      <4>4. c # Nothing => e.constraint[c] # "none"
        BY <2>1, <4>3
      <4> QED
        BY <2>1, <4>2, <4>4 DEF BesidesConstraint
    <3> QED
      BY <3>1, <3>2
  <2> HIDE DEF e, t
  <2> DEFINE link == IF c = Nothing THEN "empty" ELSE c
  <2>3. t = [e EXCEPT !.active = c, !.commit = link]
    BY <2>0, <2>2
  <2>4. link \in {"empty"} \cup Constrained
    OBVIOUS
  <2> HIDE DEF link
  <2>5. t \in FocusType /\ t.active = c /\ t.constraint = e.constraint /\ t.commit = link
    BY <2>2, <2>3, <2>4 DEF FocusType
  <2>6. BesidesConstraint(e, t)
    BY <2>2, <2>3 DEF FocusType, BesidesConstraint
  <2> QED
    BY <1>2, <2>2, <2>5, <2>6 DEF ConstraintHeld, BesidesConstraint, t, link
<1> QED
  BY <1>1, <1>2

------------------------------------------------------------------------------
\* What the text inputs leave alone.
BesidesTexts(s, t) ==
  /\ t.stack = s.stack /\ t.hasFocus = s.hasFocus /\ t.fullscreen = s.fullscreen
  /\ t.keyboard = s.keyboard /\ t.layer = s.layer /\ t.order = s.order
  /\ t.focusedLayer = s.focusedLayer /\ t.exclusive = s.exclusive /\ t.unmanaged = s.unmanaged
  /\ t.drag = s.drag /\ t.im = s.im /\ t.constraint = s.constraint /\ t.active = s.active
  /\ t.commit = s.commit /\ t.allow = s.allow

\* What a text input has entered or waits for after a change of focus is the surface focused.
LEMMA RelayedOne ==
  ASSUME NEW s \in FocusType, TextsKnown(s), NEW u \in FocusSurfaces \cup {Nothing},
         NEW i \in TextInputs
  PROVE  LET r == Relayed(s, i, u)
         IN  /\ r.entered \in {Nothing, u} /\ r.pending \in {Nothing, u}
             /\ r.entered # Nothing \/ r.pending # Nothing => Client[u] = Client[i]
             /\ Alone(i) => IF s.im THEN r.pending = Nothing ELSE r.entered = Nothing
<1> DEFINE r == Relayed(s, i, u)
           both == s.pending[i] # Nothing /\ s.entered[i] # Nothing
           kept == IF both \/ s.pending[i] # u THEN Nothing ELSE u
           stays == s.entered[i] = u /\ u # Nothing /\ (both \/ s.pending[i] = Nothing)
           its == u # Nothing /\ Client[u] = Client[i]
<1>1. PICK v \in FocusSurfaces \cup {Nothing} : OneSurface(s, v)
  BY DEF TextsKnown
<1>2. /\ s.entered[i] \in {Nothing, v} /\ s.pending[i] \in {Nothing, v}
      /\ s.entered[i] # Nothing \/ s.pending[i] # Nothing => Client[v] = Client[i]
  BY <1>1 DEF OneSurface
<1>3. Alone(i) => IF s.im THEN s.pending[i] = Nothing ELSE s.entered[i] = Nothing
  BY DEF TextsKnown
<1>4. r = IF stays THEN [entered |-> u, pending |-> Nothing]
          ELSE IF ~its THEN [entered |-> Nothing, pending |-> kept]
          ELSE [entered |-> IF s.im THEN u ELSE Nothing, pending |-> IF s.im THEN kept ELSE u]
  BY DEF Relayed
<1> HIDE DEF r
<1>5. CASE stays
  <2>1. r.entered = u /\ r.pending = Nothing
    <3> HIDE DEF stays, its, kept
    <3> QED
      BY <1>4, <1>5
  <2>2. s.entered[i] = u /\ u # Nothing
    BY <1>5
  <2>3. Client[u] = Client[i] /\ (Alone(i) => s.im)
    BY <1>2, <1>3, <2>2
  <2> QED
    BY <2>1, <2>3 DEF r
<1>6. CASE ~stays /\ ~its
  <2>1. r.entered = Nothing /\ r.pending = kept
    <3> HIDE DEF stays, its, kept
    <3> QED
      BY <1>4, <1>6
  <2>2. kept # Nothing => s.pending[i] = u /\ u # Nothing
    OBVIOUS
  <2>3. kept = Nothing
    BY <1>2, <1>6, <2>2
  <2> QED
    BY <2>1, <2>3 DEF r
<1>7. CASE ~stays /\ its
  <2>1. /\ r.entered = IF s.im THEN u ELSE Nothing
        /\ r.pending = IF s.im THEN kept ELSE u
    <3> HIDE DEF stays, its, kept
    <3> QED
      BY <1>4, <1>7
  <2>2. kept \in {Nothing, u} /\ u # Nothing /\ Client[u] = Client[i]
    BY <1>7
  <2>3. kept # Nothing => s.pending[i] # Nothing
    BY <2>2
  <2>4. Alone(i) /\ s.im => kept = Nothing
    BY <1>3, <2>3
  <2> HIDE DEF stays, its, kept
  <2> QED
    BY <2>1, <2>2, <2>4 DEF r
<1> HIDE DEF stays, its
<1> QED
  BY <1>5, <1>6, <1>7

LEMMA RelayTells ==
  ASSUME NEW s \in FocusType, TextsKnown(s), NEW u \in FocusSurfaces \cup {Nothing}
  PROVE  LET t == Relay(s, u)
         IN  t \in FocusType /\ BesidesTexts(s, t) /\ TextsKnown(t) /\ OneSurface(t, u)
<1> DEFINE t == Relay(s, u)
           entered == [i \in TextInputs |-> Relayed(s, i, u).entered]
           pending == [i \in TextInputs |-> Relayed(s, i, u).pending]
<1>1. t = [s EXCEPT !.entered = entered, !.pending = pending]
  BY DEF Relay
<1>2. /\ entered \in [TextInputs -> {Nothing, u}] /\ pending \in [TextInputs -> {Nothing, u}]
      /\ \A i \in TextInputs :
           /\ entered[i] # Nothing \/ pending[i] # Nothing => Client[u] = Client[i]
           /\ Alone(i) => IF s.im THEN pending[i] = Nothing ELSE entered[i] = Nothing
  BY RelayedOne
<1> HIDE DEF entered, pending, t
<1>3. /\ entered \in [TextInputs -> FocusSurfaces \cup {Nothing}]
      /\ pending \in [TextInputs -> FocusSurfaces \cup {Nothing}]
  BY <1>2
<1>4. t \in FocusType /\ t.entered = entered /\ t.pending = pending
  BY <1>1, <1>3 DEF FocusType
<1>5. BesidesTexts(s, t)
  BY <1>1 DEF FocusType, BesidesTexts
<1>6. OneSurface(t, u)
  BY <1>2, <1>4 DEF OneSurface
<1>7. TextsKnown(t)
  BY <1>2, <1>4, <1>5, <1>6 DEF TextsKnown, BesidesTexts
<1> QED
  BY <1>4, <1>5, <1>6, <1>7 DEF t

------------------------------------------------------------------------------
\* What no change of the focus of a node or of a surface touches.
Around(s, t) ==
  /\ t.fullscreen = s.fullscreen /\ t.layer = s.layer /\ t.order = s.order
  /\ t.unmanaged = s.unmanaged /\ t.drag = s.drag /\ t.im = s.im /\ t.allow = s.allow

SameNodes(s, t) == t.stack = s.stack /\ t.hasFocus = s.hasFocus
SameLayer(s, t) == t.focusedLayer = s.focusedLayer /\ t.exclusive = s.exclusive
SameTexts(s, t) == t.im = s.im /\ t.entered = s.entered /\ t.pending = s.pending
SameConstraint(s, t) ==
  t.constraint = s.constraint /\ t.active = s.active /\ t.commit = s.commit /\ t.allow = s.allow

LEMMA TextsStay ==
  ASSUME NEW s, NEW t, TextsKnown(s), SameTexts(s, t)
  PROVE  TextsKnown(t)
BY DEF TextsKnown, OneSurface, SameTexts

LEMMA ConstraintStays ==
  ASSUME NEW s, NEW t, ConstraintHeld(s), SameConstraint(s, t)
  PROVE  ConstraintHeld(t)
BY DEF ConstraintHeld, SameConstraint

LEMMA EnterMoves ==
  ASSUME NEW s, Sound(s), NEW u \in FocusSurfaces \cup {Nothing}
  PROVE  LET t == Enter(s, u)
         IN  /\ Sound(t) /\ Around(s, t) /\ SameNodes(s, t) /\ SameLayer(s, t)
             /\ SameTexts(s, t) /\ SameConstraint(s, t)
             /\ t.keyboard = IF s.drag THEN s.keyboard ELSE u
<1> DEFINE t == Enter(s, u)
<1>1. CASE s.drag
  BY <1>1 DEF Enter, Around, SameNodes, SameLayer, SameTexts, SameConstraint
<1>2. CASE ~s.drag
  <2>1. t = [s EXCEPT !.keyboard = u]
    BY <1>2 DEF Enter
  <2>2. s \in FocusType
    BY DEF Sound
  <2> HIDE DEF t
  <2>3. t \in FocusType /\ t.keyboard = u
    BY <2>1, <2>2 DEF FocusType
  <2>4. /\ Around(s, t) /\ SameNodes(s, t) /\ SameLayer(s, t)
        /\ SameTexts(s, t) /\ SameConstraint(s, t)
    BY <2>1, <2>2 DEF FocusType, Around, SameNodes, SameLayer, SameTexts, SameConstraint
  <2>5. Sound(t)
    BY <2>3, <2>4, TextsStay, ConstraintStays DEF Sound, SameNodes
  <2> QED
    BY <1>2, <2>3, <2>4, <2>5 DEF t
<1> QED
  BY <1>1, <1>2

LEMMA RelaySound ==
  ASSUME NEW s, Sound(s), NEW u \in FocusSurfaces \cup {Nothing}
  PROVE  LET t == Relay(s, u)
         IN  /\ Sound(t) /\ Around(s, t) /\ SameNodes(s, t) /\ SameLayer(s, t)
             /\ SameConstraint(s, t) /\ t.keyboard = s.keyboard /\ OneSurface(t, u)
<1> DEFINE t == Relay(s, u)
<1>1. t \in FocusType /\ BesidesTexts(s, t) /\ TextsKnown(t) /\ OneSurface(t, u)
  BY RelayTells DEF Sound
<1> HIDE DEF t
<1>2. /\ Around(s, t) /\ SameNodes(s, t) /\ SameLayer(s, t) /\ SameConstraint(s, t)
      /\ t.keyboard = s.keyboard
  BY <1>1 DEF BesidesTexts, Around, SameNodes, SameLayer, SameConstraint
<1>3. Sound(t)
  BY <1>1, <1>2, ConstraintStays DEF Sound, SameNodes
<1> QED
  BY <1>1, <1>2, <1>3 DEF t

LEMMA ConstrainSound ==
  ASSUME NEW s, Sound(s),
         NEW c \in Constrained \cup {Nothing}, c # Nothing => s.constraint[c] # "none"
  PROVE  LET t == Constrain(s, c)
         IN  /\ Sound(t) /\ Around(s, t) /\ SameNodes(s, t) /\ SameLayer(s, t)
             /\ SameTexts(s, t) /\ t.keyboard = s.keyboard
             /\ t.active = IF s.allow THEN c ELSE Nothing
<1> DEFINE t == Constrain(s, c)
<1>1. /\ t \in FocusType /\ BesidesConstraint(s, t) /\ ConstraintHeld(t)
      /\ t.active = IF s.allow THEN c ELSE Nothing
  BY ConstrainMoves DEF Sound
<1> HIDE DEF t
<1>2. /\ Around(s, t) /\ SameNodes(s, t) /\ SameLayer(s, t) /\ SameTexts(s, t)
      /\ t.keyboard = s.keyboard
  BY <1>1 DEF BesidesConstraint, Around, SameNodes, SameLayer, SameTexts
<1>3. Sound(t)
  BY <1>1, <1>2, TextsStay DEF Sound, SameNodes
<1> QED
  BY <1>1, <1>2, <1>3 DEF t

\* A view that is told of its focus has the keyboard, the texts and at most its own constraint.
LEMMA SendFocusSound ==
  ASSUME NEW s, Sound(s), NEW n \in Nodes
  PROVE  LET t == SendFocus(s, n)
         IN  /\ Sound(t) /\ Around(s, t) /\ SameNodes(s, t) /\ SameLayer(s, t)
             /\ n \notin Views => t = s
             /\ n \in Views => /\ t.keyboard = IF s.drag THEN s.keyboard ELSE n
                               /\ OneSurface(t, n) /\ t.active \in {Nothing, n}
<1> DEFINE e == Enter(s, n)
           told == Relay(e, n)
           c == ConstraintOf(told, n)
           t == SendFocus(s, n)
<1>1. CASE n \notin Views
  BY <1>1 DEF SendFocus, Around, SameNodes, SameLayer
<1>2. CASE n \in Views
  <2>1. n \in FocusSurfaces \cup {Nothing}
    BY <1>2 DEF FocusSurfaces
  <2>2. /\ Sound(e) /\ Around(s, e) /\ SameNodes(s, e) /\ SameLayer(s, e)
        /\ e.keyboard = IF s.drag THEN s.keyboard ELSE n
    BY <2>1, EnterMoves
  <2> HIDE DEF e
  <2>3. /\ Sound(told) /\ Around(e, told) /\ SameNodes(e, told) /\ SameLayer(e, told)
        /\ told.keyboard = e.keyboard /\ OneSurface(told, n)
    BY <2>1, <2>2, RelaySound
  <2>4. t = Constrain(told, c)
    BY <1>2 DEF SendFocus, e
  <2> HIDE DEF told, t
  <2>5. c \in Constrained \cup {Nothing} /\ c \in {Nothing, n} /\ (c # Nothing => told.constraint[c] # "none")
    BY DEF ConstraintOf
  <2> HIDE DEF c
  <2>6. /\ Sound(t) /\ Around(told, t) /\ SameNodes(told, t) /\ SameLayer(told, t)
        /\ SameTexts(told, t) /\ t.keyboard = told.keyboard /\ t.active \in {Nothing, n}
    BY <2>3, <2>4, <2>5, ConstrainSound
  <2>7. Around(s, t) /\ SameNodes(s, t) /\ SameLayer(s, t)
    BY <2>2, <2>3, <2>6 DEF Around, SameNodes, SameLayer
  <2>8. OneSurface(t, n)
    BY <2>3, <2>6 DEF OneSurface, SameTexts
  <2> QED
    BY <1>2, <2>2, <2>3, <2>6, <2>7, <2>8 DEF t
<1> QED
  BY <1>1, <1>2

LEMMA SendUnfocusSound ==
  ASSUME NEW s, Sound(s)
  PROVE  LET t == SendUnfocus(s)
         IN  /\ Sound(t) /\ Around(s, t) /\ SameNodes(s, t) /\ SameLayer(s, t) /\ SameTexts(s, t)
             /\ t.keyboard = IF s.drag THEN s.keyboard ELSE Nothing
             /\ t.active = Nothing
<1> DEFINE d == Constrain(s, Nothing)
           t == Enter(d, Nothing)
<1>1. /\ Sound(d) /\ Around(s, d) /\ SameNodes(s, d) /\ SameLayer(s, d) /\ SameTexts(s, d)
      /\ d.keyboard = s.keyboard /\ d.active = Nothing
  BY ConstrainSound
<1> HIDE DEF d
<1>2. /\ Sound(t) /\ Around(d, t) /\ SameNodes(d, t) /\ SameLayer(d, t) /\ SameTexts(d, t)
      /\ SameConstraint(d, t) /\ t.keyboard = IF d.drag THEN d.keyboard ELSE Nothing
  BY <1>1, EnterMoves
<1>3. t = SendUnfocus(s)
  BY DEF SendUnfocus, d
<1> HIDE DEF t
<1>4. /\ Sound(t) /\ Around(s, t) /\ SameNodes(s, t) /\ SameLayer(s, t) /\ SameTexts(s, t)
      /\ t.keyboard = IF s.drag THEN s.keyboard ELSE Nothing
      /\ t.active = Nothing
  BY <1>1, <1>2 DEF Around, SameNodes, SameLayer, SameTexts, SameConstraint
<1> QED
  BY <1>3, <1>4

\* RemoveFirst and <<n>> \o keep what is on the stack.
LEMMA RawFocusSound ==
  ASSUME NEW s, Sound(s), NEW n \in Nodes
  PROVE  LET t == RawFocus(s, n)
         IN  /\ Sound(t) /\ Around(s, t) /\ SameLayer(s, t) /\ SameTexts(s, t) /\ SameConstraint(s, t)
             /\ t.keyboard = s.keyboard /\ t.hasFocus = s.hasFocus /\ Head(t.stack) = n
<1> DEFINE t == RawFocus(s, n)
           r == RemoveFirst(s.stack, n)
           q == <<n>> \o r
<1>1. s \in FocusType /\ s.stack \in Seq(Nodes) /\ Contains(s.stack, Desktop) /\ Desktop \in Nodes
  BY DEF Sound, FocusType, Nodes
<1>2. r \in Seq(Nodes) /\ (Desktop # n => Contains(r, Desktop))
  BY <1>1, RemoveFirstKeeps
<1>3. t = [s EXCEPT !.stack = q]
  BY DEF RawFocus
<1> HIDE DEF r, t
<1>4. /\ q \in Seq(Nodes) /\ Len(q) = 1 + Len(r) /\ q[1] = n
      /\ \A i \in 1 .. Len(r) : q[i + 1] = r[i]
  BY <1>2
<1>5. Head(q) = n
  BY <1>4
<1> HIDE DEF q
<1>6. Contains(q, Desktop)
  <2>1. CASE Desktop = n
    BY <1>2, <1>4, <2>1 DEF Contains
  <2>2. CASE Desktop # n
    <3>1. PICK i \in 1 .. Len(r) : r[i] = Desktop
      BY <1>2, <2>2 DEF Contains
    <3>2. i + 1 \in 1 .. Len(q) /\ q[i + 1] = Desktop
      BY <1>2, <1>4, <3>1
    <3> QED
      BY <3>2 DEF Contains
  <2> QED
    BY <2>1, <2>2
<1>7. t \in FocusType /\ t.stack = q
  BY <1>1, <1>3, <1>4 DEF FocusType
<1>8. /\ Around(s, t) /\ SameLayer(s, t) /\ SameTexts(s, t) /\ SameConstraint(s, t)
      /\ t.keyboard = s.keyboard /\ t.hasFocus = s.hasFocus
  BY <1>1, <1>3 DEF FocusType, Around, SameLayer, SameTexts, SameConstraint
<1>9. Sound(t)
  BY <1>6, <1>7, <1>8, TextsStay, ConstraintStays DEF Sound
<1> QED
  BY <1>5, <1>7, <1>8, <1>9 DEF t

------------------------------------------------------------------------------
LEMMA FocusIsNode ==
  ASSUME NEW s, Sound(s)
  PROVE  /\ Inactive(s) \in Nodes /\ Nothing \notin Nodes /\ Desktop \notin Views
         /\ s.hasFocus \in BOOLEAN
         /\ s.hasFocus => Focus(s) = Inactive(s)
         /\ ~s.hasFocus => Focus(s) = Nothing
<1>1. s.stack \in Seq(Nodes) /\ s.stack # <<>> /\ s.hasFocus \in BOOLEAN
  BY DEF Sound, FocusType, Contains
<1>2. Nothing \notin Nodes /\ Desktop \notin Views
  BY SurfacesDistinct DEF Nodes
<1>3. Inactive(s) \in Nodes
  BY <1>1 DEF Inactive
<1> QED
  BY <1>1, <1>2, <1>3 DEF Focus

LEMMA LayersStay ==
  ASSUME NEW s, NEW t, LayersSound(s), Around(s, t), SameLayer(s, t),
         s.focusedLayer # Nothing => ~t.hasFocus
  PROVE  LayersSound(t)
BY DEF LayersSound, Around, SameLayer

\* Once a view was told of its focus, all agree.
LEMMA ToldAgrees ==
  ASSUME NEW t, Sound(t), t.focusedLayer = Nothing,
         NEW n \in Views, Focus(t) = n,
         ~t.drag => t.keyboard = n, OneSurface(t, n), t.active \in {Nothing, n}
  PROVE  KeyboardAgrees(t) /\ ConstraintAgrees(t) /\ TextsAgree(t)
BY DEF KeyboardAgrees, ConstraintAgrees, TextsAgree, OneSurface

LEMMA FocusNodeAgrees ==
  ASSUME NEW s, Steady(s), NEW n \in Nodes \cup {Nothing},
         n # Nothing => s.focusedLayer = Nothing
  PROVE  LET t == FocusNode(s, n)
         IN  /\ Steady(t) /\ Around(s, t) /\ SameLayer(s, t)
             /\ KeyboardAgrees(s) => KeyboardAgrees(t)
             /\ ConstraintAgrees(s) => ConstraintAgrees(t)
             /\ TextsAgree(s) \/ (n = Nothing /\ s.hasFocus) => TextsAgree(t)
             /\ n = Nothing => ~t.hasFocus
<1> DEFINE t == FocusNode(s, n)
           last == Focus(s)
           left == IF last = Nothing THEN s ELSE SendUnfocus(s)
           raised == IF n = Desktop THEN RawFocus(left, Desktop)
                     ELSE RawFocus(RawFocus(left, Desktop), n)
<1>1. Sound(s) /\ LayersSound(s) /\ Around(s, s) /\ SameLayer(s, s)
  BY DEF Steady, Around, SameLayer
<1>2. /\ Inactive(s) \in Nodes /\ Nothing \notin Nodes /\ Desktop \notin Views
      /\ s.hasFocus \in BOOLEAN
      /\ s.hasFocus => last = Inactive(s)
      /\ ~s.hasFocus => last = Nothing
  BY <1>1, FocusIsNode
<1>3. /\ Sound(left) /\ Around(s, left) /\ SameNodes(s, left) /\ SameLayer(s, left) /\ SameTexts(s, left)
      /\ last = Nothing => left = s
      /\ last # Nothing => /\ left.keyboard = IF s.drag THEN s.keyboard ELSE Nothing
                           /\ left.active = Nothing
  BY <1>1, SendUnfocusSound DEF SameNodes, SameTexts
<1>4. CASE last = n /\ ~(n \in Views /\ s.keyboard # n)
  <2>1. t = s
    BY <1>4 DEF FocusNode
  <2>2. n = Nothing => ~s.hasFocus
    BY <1>2, <1>4
  <2> QED
    BY <1>1, <2>1, <2>2
<1>5. CASE last = n /\ n \in Views /\ s.keyboard # n
  <2>1. t = SendFocus(s, n)
    BY <1>5 DEF FocusNode
  <2> HIDE DEF t, last, left, raised
  <2>2. n \in Nodes /\ n # Nothing
    BY <1>2, <1>5 DEF Nodes
  <2>3. /\ Sound(t) /\ Around(s, t) /\ SameNodes(s, t) /\ SameLayer(s, t)
        /\ t.keyboard = IF s.drag THEN s.keyboard ELSE n
        /\ OneSurface(t, n) /\ t.active \in {Nothing, n}
    BY <1>1, <1>5, <2>1, <2>2, SendFocusSound
  <2>4. Focus(t) = n
    BY <1>5, <2>3 DEF SameNodes, Focus, Inactive, last
  <2>5. KeyboardAgrees(t) /\ ConstraintAgrees(t) /\ TextsAgree(t)
    BY <1>5, <2>2, <2>3, <2>4, ToldAgrees DEF Around, SameLayer
  <2>6. LayersSound(t)
    BY <1>1, <2>3, LayersStay DEF LayersSound, SameNodes
  <2> QED
    BY <2>2, <2>3, <2>5, <2>6 DEF Steady, t
<1>6. CASE last # n /\ n = Nothing
  <2> DEFINE r == Relay(left, Nothing)
  <2>1. t = [r EXCEPT !.hasFocus = FALSE]
    BY <1>6 DEF FocusNode
  <2> HIDE DEF t, last, left, raised
  <2>2. /\ Sound(r) /\ Around(left, r) /\ SameNodes(left, r) /\ SameLayer(left, r)
        /\ SameConstraint(left, r) /\ r.keyboard = left.keyboard /\ OneSurface(r, Nothing)
    BY <1>3, RelaySound
  <2> HIDE DEF r
  <2>3. r \in FocusType
    BY <2>2 DEF Sound
  <2>4. t \in FocusType /\ ~t.hasFocus /\ t.stack = r.stack /\ t.keyboard = r.keyboard
    BY <2>1, <2>3 DEF FocusType
  <2>5. Around(r, t) /\ SameLayer(r, t) /\ SameTexts(r, t) /\ SameConstraint(r, t)
    BY <2>1, <2>3 DEF FocusType, Around, SameLayer, SameTexts, SameConstraint
  <2>6. Sound(t)
    BY <2>2, <2>4, <2>5, TextsStay, ConstraintStays DEF Sound
  <2>7. Around(s, t) /\ SameLayer(s, t)
    BY <1>3, <2>2, <2>5 DEF Around, SameLayer
  <2>8. LayersSound(t)
    BY <1>1, <2>4, <2>7, LayersStay
  <2>9. TextsAgree(t)
    BY <2>2, <2>5 DEF OneSurface, SameTexts, TextsAgree
  <2>10. ConstraintAgrees(t)
    BY <1>2, <2>4, SurfacesDistinct DEF ConstraintAgrees, Focus
  <2>11. KeyboardAgrees(s) => KeyboardAgrees(t)
    <3>1. s.focusedLayer = Nothing
      BY <1>1, <1>2, <1>6 DEF LayersSound
    <3> QED
      BY <2>4, <2>7, <3>1, SurfacesDistinct DEF KeyboardAgrees, Focus, SameLayer
  <2> QED
    BY <2>4, <2>6, <2>7, <2>8, <2>9, <2>10, <2>11 DEF Steady, t
<1>7. CASE last # n /\ n # Nothing /\ Obstructed(s, n)
  BY <1>1, <1>7 DEF FocusNode
<1>8. CASE last # n /\ n # Nothing /\ ~Obstructed(s, n)
  <2> DEFINE b == SendFocus(raised, n)
  <2>1. t = [b EXCEPT !.hasFocus = TRUE]
    BY <1>8 DEF FocusNode
  <2>2. n \in Nodes /\ Desktop \in Nodes
    BY <1>8 DEF Nodes
  <2>3. /\ Sound(raised) /\ Around(left, raised) /\ SameLayer(left, raised) /\ SameTexts(left, raised)
        /\ SameConstraint(left, raised) /\ raised.keyboard = left.keyboard /\ Head(raised.stack) = n
    <3> HIDE DEF left
    <3> DEFINE a == RawFocus(left, Desktop)
               d == RawFocus(a, n)
    <3>1. /\ Sound(a) /\ Around(left, a) /\ SameLayer(left, a) /\ SameTexts(left, a)
          /\ SameConstraint(left, a) /\ a.keyboard = left.keyboard /\ Head(a.stack) = Desktop
      BY <1>3, <2>2, RawFocusSound
    <3>2. raised = IF n = Desktop THEN a ELSE d
      OBVIOUS
    <3> HIDE DEF a, raised
    <3>3. /\ Sound(d) /\ Around(a, d) /\ SameLayer(a, d) /\ SameTexts(a, d)
          /\ SameConstraint(a, d) /\ d.keyboard = a.keyboard /\ Head(d.stack) = n
      BY <2>2, <3>1, RawFocusSound
    <3> HIDE DEF d
    <3> QED
      BY <3>1, <3>2, <3>3 DEF Around, SameLayer, SameTexts, SameConstraint
  <2> HIDE DEF t, last, left, raised
  <2>4. /\ Sound(b) /\ Around(raised, b) /\ SameNodes(raised, b) /\ SameLayer(raised, b)
        /\ n \notin Views => b = raised
        /\ n \in Views => /\ b.keyboard = IF raised.drag THEN raised.keyboard ELSE n
                          /\ OneSurface(b, n) /\ b.active \in {Nothing, n}
    BY <2>2, <2>3, SendFocusSound
  <2> HIDE DEF b
  <2>5. b \in FocusType
    BY <2>4 DEF Sound
  <2>6. t \in FocusType /\ t.hasFocus /\ t.stack = b.stack /\ t.keyboard = b.keyboard
    BY <2>1, <2>5 DEF FocusType
  <2>7. Around(b, t) /\ SameLayer(b, t) /\ SameTexts(b, t) /\ SameConstraint(b, t)
    BY <2>1, <2>5 DEF FocusType, Around, SameLayer, SameTexts, SameConstraint
  <2>8. Sound(t)
    BY <2>4, <2>6, <2>7, TextsStay, ConstraintStays DEF Sound
  <2>9. Around(s, t) /\ SameLayer(s, t)
    BY <1>3, <2>3, <2>4, <2>7 DEF Around, SameLayer
  <2>10. LayersSound(t)
    BY <1>1, <1>8, <2>9, LayersStay
  <2>11. Focus(t) = n
    BY <2>3, <2>4, <2>6 DEF SameNodes, Focus, Inactive
  <2>12. CASE n \in Views
    <3>1. OneSurface(t, n) /\ t.active \in {Nothing, n} /\ (~t.drag => t.keyboard = n)
      BY <2>4, <2>6, <2>7, <2>12 DEF OneSurface, SameTexts, SameConstraint, Around
    <3>2. t.focusedLayer = Nothing
      BY <1>8, <2>9 DEF SameLayer
    <3>3. KeyboardAgrees(t) /\ ConstraintAgrees(t) /\ TextsAgree(t)
      BY <2>8, <2>11, <2>12, <3>1, <3>2, ToldAgrees
    <3> QED
      BY <1>8, <2>8, <2>9, <2>10, <3>3 DEF Steady, t
  <2>13. CASE n \notin Views
    <3>1. t.focusedLayer = Nothing
      BY <1>8, <2>9 DEF SameLayer
    <3>2. KeyboardAgrees(t) /\ ConstraintAgrees(t)
      BY <2>11, <2>13, <3>1 DEF KeyboardAgrees, ConstraintAgrees
    <3>3. SameTexts(s, t) /\ t.drag = s.drag
      BY <1>3, <2>3, <2>4, <2>7, <2>9, <2>13 DEF SameTexts, Around
    <3>4. ~s.drag => t.keyboard = s.keyboard \/ t.keyboard = Nothing
      BY <1>3, <2>3, <2>4, <2>6, <2>13
    <3>5. TextsAgree(s) => TextsAgree(t)
      BY <3>3, <3>4 DEF TextsAgree, SameTexts
    <3> QED
      BY <1>8, <2>8, <2>9, <2>10, <3>2, <3>5 DEF Steady, t
  <2> QED
    BY <2>12, <2>13
<1> QED
  BY <1>4, <1>5, <1>6, <1>7, <1>8

LEMMA FocusSurfaceSound ==
  ASSUME NEW s, Sound(s), NEW u \in FocusSurfaces \cup {Nothing}, NEW unfocus \in BOOLEAN
  PROVE  LET t == FocusSurface(s, u, unfocus)
         IN  /\ Sound(t) /\ Around(s, t) /\ SameLayer(s, t) /\ t.stack = s.stack
             /\ t.hasFocus = (s.hasFocus /\ ~unfocus)
             /\ t.keyboard = IF s.drag THEN s.keyboard ELSE u
             /\ OneSurface(t, u)
             /\ ~unfocus => t.active = s.active
<1> DEFINE d == SendUnfocus(s)
           left == IF s.hasFocus /\ unfocus THEN [d EXCEPT !.hasFocus = FALSE] ELSE s
           e == Enter(left, u)
           t == Relay(e, u)
<1>0. t = FocusSurface(s, u, unfocus)
  BY DEF FocusSurface
<1>1. /\ Sound(d) /\ Around(s, d) /\ SameNodes(s, d) /\ SameLayer(s, d) /\ SameTexts(s, d)
      /\ d.keyboard = IF s.drag THEN s.keyboard ELSE Nothing
  BY SendUnfocusSound
<1> HIDE DEF d
<1>2. /\ Sound(left) /\ Around(s, left) /\ SameLayer(s, left) /\ left.stack = s.stack
      /\ left.hasFocus = (s.hasFocus /\ ~unfocus)
      /\ s.drag => left.keyboard = s.keyboard
      /\ ~unfocus => left.active = s.active
  <2>1. CASE ~(s.hasFocus /\ unfocus)
    <3>1. s.hasFocus \in BOOLEAN
      BY DEF Sound, FocusType
    <3> QED
      BY <2>1, <3>1 DEF Around, SameLayer
  <2>2. CASE s.hasFocus /\ unfocus
    <3>1. left = [d EXCEPT !.hasFocus = FALSE] /\ d \in FocusType
      BY <1>1, <2>2 DEF Sound
    <3> HIDE DEF left
    <3>2. /\ left \in FocusType /\ left.hasFocus = FALSE /\ left.stack = d.stack
          /\ left.keyboard = d.keyboard
      BY <3>1 DEF FocusType
    <3>3. Around(d, left) /\ SameLayer(d, left) /\ SameTexts(d, left) /\ SameConstraint(d, left)
      BY <3>1 DEF FocusType, Around, SameLayer, SameTexts, SameConstraint
    <3>4. Sound(left)
      BY <1>1, <3>2, <3>3, TextsStay, ConstraintStays DEF Sound
    <3>5. Around(s, left) /\ SameLayer(s, left) /\ left.stack = s.stack
      BY <1>1, <3>2, <3>3 DEF Around, SameLayer, SameNodes
    <3> QED
      BY <1>1, <2>2, <3>2, <3>4, <3>5
  <2> QED
    BY <2>1, <2>2
<1> HIDE DEF left
<1>3. /\ Sound(e) /\ Around(left, e) /\ SameNodes(left, e) /\ SameLayer(left, e)
      /\ SameConstraint(left, e) /\ e.keyboard = IF left.drag THEN left.keyboard ELSE u
  BY <1>2, EnterMoves
<1> HIDE DEF e
<1>4. /\ Sound(t) /\ Around(e, t) /\ SameNodes(e, t) /\ SameLayer(e, t)
      /\ SameConstraint(e, t) /\ t.keyboard = e.keyboard /\ OneSurface(t, u)
  BY <1>3, RelaySound
<1> HIDE DEF t
<1>5. Around(s, t) /\ SameLayer(s, t) /\ t.stack = s.stack /\ t.hasFocus = (s.hasFocus /\ ~unfocus)
  BY <1>2, <1>3, <1>4 DEF Around, SameLayer, SameNodes
<1>6. /\ t.keyboard = IF s.drag THEN s.keyboard ELSE u
      /\ ~unfocus => t.active = s.active
  BY <1>2, <1>3, <1>4 DEF Around, SameConstraint
<1> QED
  BY <1>0, <1>4, <1>5, <1>6

\* The layer that is left may be unmapped already.
LayersLoose(s) ==
  /\ s.focusedLayer # Nothing => ~s.hasFocus
  /\ \A l \in Layers : s.layer[l].mapped => s.layer[l].made

LEMMA LeaveLayerAgrees ==
  ASSUME NEW s, Sound(s), LayersLoose(s)
  PROVE  LET t == LeaveLayer(s)
         IN  /\ Steady(t) /\ Around(s, t) /\ t.focusedLayer = Nothing /\ ~t.exclusive
             /\ KeyboardAgrees(s) => KeyboardAgrees(t)
             /\ ConstraintAgrees(s) => ConstraintAgrees(t)
             /\ TextsAgree(s) => TextsAgree(t)
<1> DEFINE none == [s EXCEPT !.focusedLayer = Nothing, !.exclusive = FALSE]
           d == FocusNode(none, Nothing)
           t == FocusNode(d, Inactive(none))
<1>1. s \in FocusType
  BY DEF Sound
<1>2. /\ none \in FocusType /\ none.focusedLayer = Nothing /\ none.exclusive = FALSE
      /\ SameNodes(s, none) /\ none.keyboard = s.keyboard
  BY <1>1 DEF FocusType, SameNodes
<1>3. Around(s, none) /\ SameTexts(s, none) /\ SameConstraint(s, none)
  BY <1>1 DEF FocusType, Around, SameTexts, SameConstraint
<1>4. LeaveLayer(s) = IF s.focusedLayer = Nothing THEN none ELSE t
  BY DEF LeaveLayer
<1> HIDE DEF none
<1>5. Steady(none)
  BY <1>1, <1>2, <1>3, TextsStay, ConstraintStays DEF Steady, Sound, LayersLoose, LayersSound, SameNodes, Around
<1>6. Focus(none) = Focus(s) /\ none.drag = s.drag
  BY <1>2, <1>3 DEF SameNodes, Focus, Inactive, Around
<1>7. /\ KeyboardAgrees(s) => KeyboardAgrees(none)
      /\ ConstraintAgrees(s) => ConstraintAgrees(none)
      /\ TextsAgree(s) => TextsAgree(none)
  <2>1. KeyboardAgrees(s) => KeyboardAgrees(none)
    BY <1>2, <1>3, <1>6 DEF KeyboardAgrees, Around
  <2>2. ConstraintAgrees(s) => ConstraintAgrees(none)
    BY <1>3, <1>6 DEF ConstraintAgrees, SameConstraint
  <2>3. TextsAgree(s) => TextsAgree(none)
    BY <1>2, <1>3, <1>6 DEF TextsAgree, SameTexts
  <2> QED
    BY <2>1, <2>2, <2>3
<1>8. CASE s.focusedLayer = Nothing
  BY <1>2, <1>3, <1>4, <1>5, <1>7, <1>8
<1>9. CASE s.focusedLayer # Nothing
  <2>1. /\ Steady(d) /\ Around(none, d) /\ SameLayer(none, d)
        /\ KeyboardAgrees(none) => KeyboardAgrees(d)
        /\ ConstraintAgrees(none) => ConstraintAgrees(d)
        /\ TextsAgree(none) => TextsAgree(d)
    <3> DEFINE n == Nothing
    <3>1. n \in Nodes \cup {Nothing} /\ (n # Nothing => none.focusedLayer = Nothing)
      OBVIOUS
    <3>2. d = FocusNode(none, n)
      OBVIOUS
    <3> HIDE DEF n, d
    <3> QED
      BY <1>5, <3>1, <3>2, FocusNodeAgrees
  <2>2. Inactive(none) \in Nodes
    BY <1>5, FocusIsNode DEF Steady
  <2>3. d.focusedLayer = Nothing /\ ~d.exclusive
    BY <1>2, <2>1 DEF SameLayer
  <2> HIDE DEF d
  <2>4. /\ Steady(t) /\ Around(d, t) /\ SameLayer(d, t)
        /\ KeyboardAgrees(d) => KeyboardAgrees(t)
        /\ ConstraintAgrees(d) => ConstraintAgrees(t)
        /\ TextsAgree(d) => TextsAgree(t)
    <3> DEFINE n == Inactive(none)
    <3>1. n \in Nodes \cup {Nothing}
      BY <2>2
    <3>2. t = FocusNode(d, n)
      OBVIOUS
    <3> HIDE DEF n, t
    <3> QED
      BY <2>1, <2>3, <3>1, <3>2, FocusNodeAgrees
  <2>5. LeaveLayer(s) = t
    BY <1>4, <1>9
  <2> HIDE DEF t
  <2>6. Around(s, t) /\ t.focusedLayer = Nothing /\ ~t.exclusive
    BY <1>3, <2>1, <2>3, <2>4 DEF Around, SameLayer
  <2> QED
    BY <1>7, <2>1, <2>4, <2>5, <2>6
<1> QED
  BY <1>8, <1>9

\* A layer that is entered takes the keyboard, whatever held before.
LEMMA EnterLayerAgrees ==
  ASSUME NEW s, Steady(s), NEW l \in Layers
  PROVE  LET t == EnterLayer(s, l)
         IN  /\ Steady(t) /\ Around(s, t)
             /\ KeyboardAgrees(s) => KeyboardAgrees(t)
             /\ ConstraintAgrees(s) => ConstraintAgrees(t)
             /\ TextsAgree(s) => TextsAgree(t)
             /\ s.layer[l].mapped /\ s.focusedLayer # l =>
                  KeyboardAgrees(t) /\ ConstraintAgrees(t) /\ TextsAgree(t)
<1> DEFINE excl == s.layer[l].level >= Top /\ s.layer[l].mode = "exclusive"
           held == [s EXCEPT !.exclusive = s.exclusive \/ excl]
           other == IF s.focusedLayer = l THEN Nothing ELSE s.focusedLayer
           none == [s EXCEPT !.focusedLayer = other, !.exclusive = FALSE]
           x == FocusSurface(held, l, TRUE)
           t == EnterLayer(s, l)
<1>1. s \in FocusType /\ Sound(s) /\ LayersSound(s) /\ l # Nothing /\ l \in FocusSurfaces
  BY SurfacesDistinct DEF Steady, Sound, FocusSurfaces
<1>2. CASE ~s.layer[l].mapped
  <2>1. s.focusedLayer # l
    BY <1>1, <1>2 DEF LayersSound
  <2>2. other = s.focusedLayer
    BY <2>1
  <2>3. t = none
    BY <1>2, <2>1 DEF EnterLayer
  <2>4. t = [s EXCEPT !.focusedLayer = s.focusedLayer, !.exclusive = FALSE]
    BY <2>2, <2>3
  <2> HIDE DEF t
  <2>5. /\ t \in FocusType /\ t.focusedLayer = s.focusedLayer /\ t.exclusive = FALSE
        /\ SameNodes(s, t) /\ t.keyboard = s.keyboard
    BY <1>1, <2>4 DEF FocusType, SameNodes
  <2>6. Around(s, t) /\ SameTexts(s, t) /\ SameConstraint(s, t)
    BY <1>1, <2>4 DEF FocusType, Around, SameTexts, SameConstraint
  <2>7. Steady(t)
    BY <1>1, <2>5, <2>6, TextsStay, ConstraintStays DEF Steady, Sound, LayersSound, SameNodes, Around
  <2>8. Focus(t) = Focus(s) /\ t.drag = s.drag
    BY <2>5, <2>6 DEF SameNodes, Focus, Inactive, Around
  <2>9. KeyboardAgrees(s) => KeyboardAgrees(t)
    BY <2>5, <2>6, <2>8 DEF KeyboardAgrees, Around
  <2>10. ConstraintAgrees(s) => ConstraintAgrees(t)
    BY <2>6, <2>8 DEF ConstraintAgrees, SameConstraint
  <2>11. TextsAgree(s) => TextsAgree(t)
    BY <2>5, <2>6, <2>8 DEF TextsAgree, SameTexts
  <2> QED
    BY <1>2, <2>6, <2>7, <2>9, <2>10, <2>11 DEF t
<1>3. CASE s.layer[l].mapped
  <2> DEFINE b == s.exclusive \/ excl
  <2>1. b \in BOOLEAN
    OBVIOUS
  <2> HIDE DEF b
  <2>2. held = [s EXCEPT !.exclusive = b]
    BY DEF b
  <2> HIDE DEF held
  <2>3. /\ held \in FocusType /\ held.focusedLayer = s.focusedLayer
        /\ SameNodes(s, held) /\ held.keyboard = s.keyboard
    BY <1>1, <2>1, <2>2 DEF FocusType, SameNodes
  <2>4. Around(s, held) /\ SameTexts(s, held) /\ SameConstraint(s, held)
    BY <1>1, <2>1, <2>2 DEF FocusType, Around, SameTexts, SameConstraint
  <2>5. Sound(held)
    BY <1>1, <2>3, <2>4, TextsStay, ConstraintStays DEF Sound, SameNodes
  <2>6. CASE s.focusedLayer = l
    <3>1. t = held
      BY <1>3, <2>6 DEF EnterLayer, held
    <3> HIDE DEF t
    <3>2. LayersSound(held)
      BY <1>1, <1>3, <2>3, <2>4, <2>6 DEF LayersSound, SameNodes, Around
    <3>3. Focus(held) = Focus(s) /\ held.drag = s.drag
      BY <2>3, <2>4 DEF SameNodes, Focus, Inactive, Around
    <3>4. KeyboardAgrees(s) => KeyboardAgrees(held)
      BY <2>3, <2>4, <3>3 DEF KeyboardAgrees, Around
    <3>5. ConstraintAgrees(s) => ConstraintAgrees(held)
      BY <2>4, <3>3 DEF ConstraintAgrees, SameConstraint
    <3>6. TextsAgree(s) => TextsAgree(held)
      BY <2>3, <2>4, <3>3 DEF TextsAgree, SameTexts
    <3> QED
      BY <2>4, <2>5, <2>6, <3>1, <3>2, <3>4, <3>5, <3>6 DEF Steady, t
  <2>7. CASE s.focusedLayer # l
    <3>1. t = [x EXCEPT !.focusedLayer = l]
      BY <1>3, <2>7 DEF EnterLayer, held
    <3> HIDE DEF t
    <3>2. /\ Sound(x) /\ Around(held, x) /\ SameLayer(held, x)
          /\ x.hasFocus = FALSE
          /\ x.keyboard = IF held.drag THEN held.keyboard ELSE l
          /\ OneSurface(x, l)
      BY <1>1, <2>5, FocusSurfaceSound
    <3> HIDE DEF x
    <3>3. x \in FocusType
      BY <3>2 DEF Sound
    <3>4. t \in FocusType /\ t.focusedLayer = l /\ SameNodes(x, t) /\ t.keyboard = x.keyboard
      BY <3>1, <3>3 DEF FocusType, SameNodes
    <3>5. Around(x, t) /\ SameTexts(x, t) /\ SameConstraint(x, t)
      BY <3>1, <3>3 DEF FocusType, Around, SameTexts, SameConstraint
    <3>6. Sound(t)
      BY <3>2, <3>4, <3>5, TextsStay, ConstraintStays DEF Sound, SameNodes
    <3>7. Around(s, t) /\ ~t.hasFocus
      BY <2>4, <3>2, <3>4, <3>5 DEF Around, SameNodes
    <3>8. LayersSound(t)
      BY <1>1, <1>3, <3>4, <3>7 DEF LayersSound, Around
    <3>9. Focus(t) = Nothing /\ Nothing \notin Views
      BY <3>7, SurfacesDistinct DEF Focus
    <3>10. ~t.drag => t.keyboard = l
      BY <2>4, <3>2, <3>4, <3>7 DEF Around
    <3>11. KeyboardAgrees(t) /\ ConstraintAgrees(t)
      BY <3>4, <3>9, <3>10 DEF KeyboardAgrees, ConstraintAgrees
    <3>12. TextsAgree(t)
      BY <3>2, <3>5, <3>10 DEF TextsAgree, OneSurface, SameTexts
    <3> QED
      BY <3>6, <3>7, <3>8, <3>11, <3>12 DEF Steady, t
  <2> QED
    BY <2>6, <2>7
<1> QED
  BY <1>2, <1>3

------------------------------------------------------------------------------
Keeps(s, t) ==
  /\ Steady(t) /\ Around(s, t)
  /\ KeyboardAgrees(s) => KeyboardAgrees(t)
  /\ ConstraintAgrees(s) => ConstraintAgrees(t)
  /\ TextsAgree(s) => TextsAgree(t)

LEMMA KeepsTransitive ==
  ASSUME NEW s, NEW d, NEW t, Keeps(s, d), Keeps(d, t)
  PROVE  Keeps(s, t)
BY DEF Keeps, Around

LEMMA AgreeingKept ==
  ASSUME NEW s, NEW t, Agreeing(s), Keeps(s, t)
  PROVE  Agreeing(t)
BY DEF Keeps, Agreeing

LEMMA FocusNodeKeeps ==
  ASSUME NEW s, Steady(s), NEW n \in Nodes \cup {Nothing},
         n # Nothing => s.focusedLayer = Nothing
  PROVE  Keeps(s, FocusNode(s, n))
BY FocusNodeAgrees DEF Keeps

LEMMA LeaveLayerKeeps ==
  ASSUME NEW s, Steady(s)
  PROVE  Keeps(s, LeaveLayer(s)) /\ LeaveLayer(s).focusedLayer = Nothing
BY LeaveLayerAgrees DEF Keeps, Steady, LayersSound, LayersLoose

LEMMA EnterLayerKeeps ==
  ASSUME NEW s, Steady(s), NEW l \in Layers
  PROVE  /\ Keeps(s, EnterLayer(s, l))
         /\ s.layer[l].mapped /\ s.focusedLayer # l => Agreeing(EnterLayer(s, l))
BY EnterLayerAgrees DEF Keeps, Agreeing

LEMMA SetFocusKeeps ==
  ASSUME NEW s, Steady(s), NEW n \in Nodes \cup {Nothing}
  PROVE  Keeps(s, SetFocus(s, n))
<1> DEFINE a == LeaveLayer(s)
           b == FocusNode(a, n)
           c == EnterLayer(b, s.focusedLayer)
<1>1. LayersSound(s) /\ s.focusedLayer \in Layers \cup {Nothing} /\ Nothing \notin Layers
  BY SurfacesDistinct DEF Steady, Sound, FocusType
<1>2. Keeps(s, a) /\ a.focusedLayer = Nothing
  BY LeaveLayerKeeps
<1>3. SetFocus(s, n) = IF s.exclusive THEN FocusLayer(b, s.focusedLayer)
                       ELSE IF s.focusedLayer # Nothing THEN b ELSE FocusNode(s, n)
  BY DEF SetFocus
<1> HIDE DEF a
<1>4. Keeps(a, b)
  BY <1>2, FocusNodeKeeps DEF Keeps
<1> HIDE DEF b
<1>5. Keeps(s, b)
  BY <1>2, <1>4, KeepsTransitive
<1>6. CASE s.exclusive
  <2>1. s.focusedLayer \in Layers
    BY <1>1, <1>6 DEF LayersSound
  <2>2. FocusLayer(b, s.focusedLayer) = c
    BY <1>1, <2>1 DEF FocusLayer
  <2>3. Keeps(b, c)
    BY <1>5, <2>1, EnterLayerKeeps DEF Keeps
  <2> HIDE DEF c
  <2>4. Keeps(s, c)
    BY <1>5, <2>3, KeepsTransitive
  <2> QED
    BY <1>3, <1>6, <2>2, <2>4
<1>7. CASE ~s.exclusive /\ s.focusedLayer # Nothing
  BY <1>3, <1>5, <1>7
<1>8. CASE ~s.exclusive /\ s.focusedLayer = Nothing
  <2>1. Keeps(s, FocusNode(s, n))
    BY <1>8, FocusNodeKeeps
  <2> QED
    BY <1>3, <1>8, <2>1
<1> QED
  BY <1>6, <1>7, <1>8

\* To focus nothing settles the keyboard and the constraint in any case.
LEMMA FocusNothing ==
  ASSUME NEW s, Steady(s), TextsAgree(s) \/ s.hasFocus
  PROVE  Agreeing(SetFocus(s, Nothing)) /\ Around(s, SetFocus(s, Nothing))
<1> DEFINE a == LeaveLayer(s)
           b == FocusNode(a, Nothing)
           c == EnterLayer(b, s.focusedLayer)
           d == FocusNode(s, Nothing)
           t == SetFocus(s, Nothing)
<1>1. LayersSound(s) /\ s.focusedLayer \in Layers \cup {Nothing} /\ Nothing \notin Layers \cup Views
  BY SurfacesDistinct DEF Steady, Sound, FocusType
<1>2. Keeps(s, a) /\ a.focusedLayer = Nothing
  BY LeaveLayerKeeps
<1>3. t = IF s.exclusive THEN FocusLayer(b, s.focusedLayer)
          ELSE IF s.focusedLayer # Nothing THEN b ELSE d
  BY DEF SetFocus
<1>4. Keeps(s, t)
  BY SetFocusKeeps
<1> HIDE DEF a, t
<1>5. Keeps(a, b) /\ ~b.hasFocus /\ SameLayer(a, b)
  BY <1>2, FocusNodeAgrees DEF Keeps
<1> HIDE DEF b
<1>6. /\ ~d.hasFocus /\ SameLayer(s, d) /\ TextsAgree(d)
  <2> DEFINE n == Nothing
  <2>1. n \in Nodes \cup {Nothing} /\ n = Nothing /\ d = FocusNode(s, n)
    OBVIOUS
  <2> HIDE DEF n, d
  <2> QED
    BY <2>1, FocusNodeAgrees
<1> HIDE DEF d
<1>7. CASE s.exclusive
  <2>1. s.focusedLayer \in Layers
    BY <1>1, <1>7 DEF LayersSound
  <2>2. t = c
    BY <1>1, <1>3, <1>7, <2>1 DEF FocusLayer
  <2>3. Keeps(s, b)
    BY <1>2, <1>5, KeepsTransitive
  <2>4. b.layer = s.layer /\ b.focusedLayer # s.focusedLayer /\ Steady(b)
    BY <1>1, <1>2, <1>5, <2>1, <2>3 DEF Keeps, Around, SameLayer
  <2>5. s.layer[s.focusedLayer].mapped
    BY <1>1, <2>1 DEF LayersSound
  <2>6. Agreeing(c)
    BY <2>1, <2>4, <2>5, EnterLayerKeeps
  <2> QED
    BY <1>4, <2>2, <2>6 DEF Keeps, t
<1>8. CASE ~s.exclusive
  <2>1. t = IF s.focusedLayer # Nothing THEN b ELSE d
    BY <1>3, <1>8
  <2>2. ~t.hasFocus /\ t.focusedLayer = Nothing
    BY <1>2, <1>5, <1>6, <2>1 DEF SameLayer
  <2>3. KeyboardAgrees(t) /\ ConstraintAgrees(t)
    BY <1>1, <2>2 DEF KeyboardAgrees, ConstraintAgrees, Focus
  <2>4. CASE TextsAgree(s)
    BY <1>4, <2>3, <2>4 DEF Keeps, Agreeing, t
  <2>5. CASE s.hasFocus
    <3>1. s.focusedLayer = Nothing
      BY <1>1, <2>5 DEF LayersSound
    <3> QED
      BY <1>4, <1>6, <2>1, <2>3, <3>1 DEF Keeps, Agreeing, t
  <2> QED
    BY <2>4, <2>5
<1> QED
  BY <1>7, <1>8

LEMMA FocusAnewAgrees ==
  ASSUME NEW s, Steady(s)
  PROVE  Agreeing(FocusAnew(s))
<1>1. /\ Inactive(s) \in Nodes /\ Nothing \notin Nodes
      /\ s.hasFocus \in BOOLEAN
      /\ s.hasFocus => Focus(s) = Inactive(s)
      /\ ~s.hasFocus => Focus(s) = Nothing
  BY FocusIsNode DEF Steady
<1>2. /\ LayersSound(s) /\ Sound(s) /\ s.focusedLayer \in Layers \cup {Nothing}
      /\ s.keyboard \in FocusSurfaces \cup {Nothing} /\ Nothing \notin Layers \cup Views
  BY SurfacesDistinct DEF Steady, Sound, FocusType
<1>3. CASE Focus(s) # Nothing
  <2> DEFINE d == SetFocus(s, Nothing)
             n == Focus(s)
  <2>1. s.hasFocus /\ n \in Nodes
    BY <1>1, <1>3
  <2>2. Agreeing(d)
    BY <2>1, FocusNothing
  <2>3. FocusAnew(s) = SetFocus(d, n)
    BY <1>3 DEF FocusAnew
  <2> HIDE DEF d, n
  <2>4. Keeps(d, SetFocus(d, n))
    BY <2>1, <2>2, SetFocusKeeps DEF Agreeing
  <2> QED
    BY <2>2, <2>3, <2>4, AgreeingKept
<1>4. CASE Focus(s) = Nothing /\ s.focusedLayer # Nothing
  <2> DEFINE d == LeaveLayer(s)
             l == s.focusedLayer
  <2>1. Keeps(s, d) /\ d.focusedLayer = Nothing
    BY LeaveLayerKeeps
  <2>2. l \in Layers /\ l # Nothing /\ s.layer[l].mapped
    BY <1>2, <1>4 DEF LayersSound
  <2>3. FocusAnew(s) = EnterLayer(d, l)
    BY <1>4 DEF FocusAnew, FocusLayer
  <2> HIDE DEF d, l
  <2>4. d.layer[l].mapped /\ d.focusedLayer # l /\ Steady(d)
    BY <2>1, <2>2 DEF Keeps, Around
  <2> QED
    BY <2>2, <2>3, <2>4, EnterLayerKeeps
<1>5. CASE Focus(s) = Nothing /\ s.focusedLayer = Nothing
  <2> DEFINE d == FocusSurface(s, Nothing, FALSE)
             t == FocusSurface(d, s.keyboard, FALSE)
  <2>1. /\ Sound(d) /\ Around(s, d) /\ SameLayer(s, d)
        /\ d.hasFocus = (s.hasFocus /\ ~FALSE)
        /\ d.keyboard = IF s.drag THEN s.keyboard ELSE Nothing
    <3> DEFINE u == Nothing
    <3>1. u = Nothing /\ u \in FocusSurfaces \cup {Nothing} /\ d = FocusSurface(s, u, FALSE)
      OBVIOUS
    <3> HIDE DEF u, d
    <3> QED
      BY <1>2, <3>1, FocusSurfaceSound
  <2> HIDE DEF d
  <2>2. /\ Sound(t) /\ Around(d, t) /\ SameLayer(d, t)
        /\ t.hasFocus = (d.hasFocus /\ ~FALSE)
        /\ t.keyboard = IF d.drag THEN d.keyboard ELSE s.keyboard
        /\ OneSurface(t, s.keyboard)
    BY <1>2, <2>1, FocusSurfaceSound
  <2>3. t = FocusAnew(s)
    BY <1>5 DEF FocusAnew, d
  <2> HIDE DEF t
  <2>4. ~t.hasFocus /\ t.focusedLayer = Nothing
    BY <1>1, <1>5, <2>1, <2>2 DEF SameLayer
  <2>5. LayersSound(t)
    BY <1>2, <1>5, <2>1, <2>2, <2>4 DEF LayersSound, Around, SameLayer
  <2>6. KeyboardAgrees(t) /\ ConstraintAgrees(t)
    BY <1>2, <2>4 DEF KeyboardAgrees, ConstraintAgrees, Focus
  <2>7. ~t.drag => t.keyboard = s.keyboard
    BY <2>1, <2>2 DEF Around
  <2>8. TextsAgree(t)
    BY <2>2, <2>7 DEF TextsAgree, OneSurface
  <2> QED
    BY <2>2, <2>3, <2>5, <2>6, <2>8 DEF Agreeing, Steady
<1> QED
  BY <1>3, <1>4, <1>5

------------------------------------------------------------------------------
\* A change of anything but the focus itself.
LEMMA SettledSound ==
  ASSUME NEW s, Agreeing(s), NEW t \in FocusType, SameNodes(s, t), SameTexts(s, t),
         SameConstraint(s, t), t.focusedLayer = s.focusedLayer, t.keyboard = s.keyboard,
         s.unmanaged \subseteq t.unmanaged, t.drag = s.drag
  PROVE  Sound(t) /\ KeyboardAgrees(t) /\ ConstraintAgrees(t) /\ TextsAgree(t)
<1>1. Sound(s) /\ KeyboardAgrees(s) /\ ConstraintAgrees(s) /\ TextsAgree(s)
  BY DEF Agreeing, Steady
<1>2. Sound(t)
  BY <1>1, TextsStay, ConstraintStays DEF Sound, SameNodes
<1>3. Focus(t) = Focus(s)
  BY DEF SameNodes, Focus, Inactive
<1>4. KeyboardAgrees(t)
  BY <1>1, <1>3 DEF KeyboardAgrees
<1>5. ConstraintAgrees(t)
  BY <1>1, <1>3 DEF ConstraintAgrees, SameConstraint
<1>6. TextsAgree(t)
  BY <1>1 DEF TextsAgree, SameTexts
<1> QED
  BY <1>2, <1>4, <1>5, <1>6

LEMMA SettledStays ==
  ASSUME NEW s, Agreeing(s), NEW t \in FocusType, SameNodes(s, t), SameTexts(s, t),
         SameConstraint(s, t), t.focusedLayer = s.focusedLayer, t.keyboard = s.keyboard,
         s.unmanaged \subseteq t.unmanaged, t.drag = s.drag, LayersSound(t)
  PROVE  Agreeing(t)
BY SettledSound DEF Agreeing, Steady

WithLayers(s, layer, order) == [s EXCEPT !.layer = layer, !.order = order]

LEMMA LayersChange ==
  ASSUME NEW s, Agreeing(s), NEW layer \in [Layers -> LayerType], NEW order \in Seq(Layers),
         \A k \in Layers : layer[k].mapped => layer[k].made,
         s.focusedLayer # Nothing => layer[s.focusedLayer].mapped
  PROVE  LET t == WithLayers(s, layer, order)
         IN  /\ Agreeing(t) /\ t.layer = layer /\ t.order = order
             /\ t.focusedLayer = s.focusedLayer
<1> DEFINE t == WithLayers(s, layer, order)
<1>1. s \in FocusType /\ LayersSound(s)
  BY DEF Agreeing, Steady, Sound
<1>2. t \in FocusType /\ t.layer = layer /\ t.order = order
  BY <1>1 DEF WithLayers, FocusType
<1>3. /\ SameNodes(s, t) /\ SameTexts(s, t) /\ SameConstraint(s, t) /\ SameLayer(s, t)
      /\ t.keyboard = s.keyboard /\ t.unmanaged = s.unmanaged /\ t.drag = s.drag
  BY <1>1 DEF WithLayers, FocusType, SameNodes, SameTexts, SameConstraint, SameLayer
<1> HIDE DEF t
<1>4. LayersSound(t)
  BY <1>1, <1>2, <1>3 DEF LayersSound, SameLayer, SameNodes
<1>5. Agreeing(t)
  BY <1>2, <1>3, <1>4, SettledStays DEF SameLayer
<1> QED
  BY <1>2, <1>3, <1>5 DEF SameLayer, t

LEMMA AboveInOrder ==
  ASSUME NEW s \in FocusType, NEW out, NEW level
  PROVE  Above(s, out, level) = 0 \/ Above(s, out, level) \in 1 .. Len(s.order)
<1> DEFINE I == {i \in 1 .. Len(s.order) :
                   /\ s.layer[s.order[i]].output = out   /\ s.layer[s.order[i]].level = level
                   /\ s.layer[s.order[i]].mapped         /\ s.layer[s.order[i]].mode = "exclusive"}
<1>1. Above(s, out, level) = IF I # {} THEN Max(I) ELSE 0
  BY DEF Above, SelectLastInSeq
<1>2. I \in SUBSET (1 .. Len(s.order)) /\ Len(s.order) \in Nat
  BY DEF FocusType
<1> HIDE DEF I
<1> QED
  BY <1>1, <1>2, MaxOf

LEMMA TopmostIsLayer ==
  ASSUME NEW s \in FocusType, NEW out
  PROVE  Topmost(s, out) \in Layers \cup {Nothing}
<1>1. s.order \in Seq(Layers)
  BY DEF FocusType
<1>2. \A i \in 1 .. Len(s.order) : s.order[i] \in Layers
  BY <1>1
<1> QED
  BY <1>2, AboveInOrder DEF Topmost

LEMMA ArrangeLayersAgrees ==
  ASSUME NEW s, Agreeing(s), NEW out
  PROVE  Agreeing(ArrangeLayers(s, out)) /\ Around(s, ArrangeLayers(s, out))
<1> DEFINE free == [s EXCEPT !.exclusive = FALSE]
           top == Topmost(s, out)
           t == ArrangeLayers(s, out)
<1>1. s \in FocusType /\ LayersSound(s)
  BY DEF Agreeing, Steady, Sound
<1>2. top \in Layers \cup {Nothing} /\ Nothing \notin Layers
  BY <1>1, TopmostIsLayer, SurfacesDistinct
<1>3. free \in FocusType /\ free.focusedLayer = s.focusedLayer /\ free.exclusive = FALSE
  BY <1>1 DEF FocusType
<1>4. /\ SameNodes(s, free) /\ SameTexts(s, free) /\ SameConstraint(s, free) /\ Around(s, free)
      /\ free.keyboard = s.keyboard
  BY <1>1 DEF FocusType, SameNodes, SameTexts, SameConstraint, Around
<1>5. t = IF top # Nothing THEN EnterLayer(free, top)
          ELSE IF s.focusedLayer # Nothing /\ s.layer[s.focusedLayer].mode # "exclusive"
               THEN LeaveLayer(free) ELSE free
  BY DEF ArrangeLayers
<1> HIDE DEF free, top, t
<1>6. LayersSound(free)
  BY <1>1, <1>3, <1>4 DEF LayersSound, Around, SameNodes
<1>7. Agreeing(free)
  BY <1>3, <1>4, <1>6, SettledStays DEF Around
<1>8. Keeps(free, t) \/ t = free
  BY <1>2, <1>5, <1>7, EnterLayerKeeps, LeaveLayerKeeps DEF Agreeing
<1>9. Agreeing(t) /\ Around(s, t)
  BY <1>4, <1>7, <1>8, AgreeingKept DEF Keeps, Around
<1> QED
  BY <1>9 DEF t

LEMMA EnterLayerAgreeing ==
  ASSUME NEW s, Agreeing(s), NEW l \in Layers
  PROVE  Agreeing(EnterLayer(s, l)) /\ Around(s, EnterLayer(s, l))
BY EnterLayerKeeps, AgreeingKept DEF Agreeing, Keeps

LEMMA SetFocusAgreeing ==
  ASSUME NEW s, Agreeing(s), NEW n \in Nodes \cup {Nothing}
  PROVE  Agreeing(SetFocus(s, n))
BY SetFocusKeeps, AgreeingKept DEF Agreeing

\* A layer that is unmapped has lost the focus, whichever layer is arranged then.
LEMMA UnmappedAgrees ==
  ASSUME NEW s, Agreeing(s), NEW l \in Layers
  PROVE  LET t == Unmapped(s, l)
         IN  Agreeing(t) /\ ~t.layer[l].mapped
<1> DEFINE layer == [s.layer EXCEPT ![l] = [s.layer[l] EXCEPT !.mapped = FALSE]]
           gone == [s EXCEPT !.layer = layer]
           left == LeaveLayer(gone)
           t == Unmapped(s, l)
<1>1. s \in FocusType /\ LayersSound(s) /\ l # Nothing /\ l \in DOMAIN s.layer
  BY SurfacesDistinct DEF Agreeing, Steady, Sound, FocusType
<1>2. gone = [s EXCEPT !.layer[l].mapped = FALSE]
  OBVIOUS
<1>3. t = IF s.focusedLayer = l THEN left ELSE gone
  BY <1>2 DEF Unmapped
<1>4. /\ layer \in [Layers -> LayerType] /\ ~layer[l].mapped /\ layer[l].made = s.layer[l].made
      /\ \A k \in Layers : k # l => layer[k] = s.layer[k]
  <2> DEFINE me == [s.layer[l] EXCEPT !.mapped = FALSE]
  <2>1. s.layer \in [Layers -> LayerType] /\ s.layer[l] \in LayerType
    BY <1>1 DEF FocusType
  <2>2. me \in LayerType /\ ~me.mapped /\ me.made = s.layer[l].made
    BY <2>1 DEF LayerType
  <2> HIDE DEF me
  <2>3. layer = [s.layer EXCEPT ![l] = me]
    BY DEF me
  <2> QED
    BY <2>1, <2>2, <2>3
<1> HIDE DEF layer, t
<1>5. gone \in FocusType /\ gone.layer = layer
  BY <1>1, <1>4 DEF FocusType
<1>6. /\ SameNodes(s, gone) /\ SameTexts(s, gone) /\ SameConstraint(s, gone) /\ SameLayer(s, gone)
      /\ gone.keyboard = s.keyboard /\ gone.unmanaged = s.unmanaged /\ gone.drag = s.drag
  BY <1>1 DEF FocusType, SameNodes, SameTexts, SameConstraint, SameLayer
<1> HIDE DEF gone
<1>7. Sound(gone) /\ KeyboardAgrees(gone) /\ ConstraintAgrees(gone) /\ TextsAgree(gone)
  BY <1>5, <1>6, SettledSound DEF SameLayer
<1>8. \A k \in Layers : gone.layer[k].mapped => gone.layer[k].made
  BY <1>1, <1>4, <1>5 DEF LayersSound
<1>9. CASE s.focusedLayer = l
  <2>1. LayersLoose(gone)
    BY <1>1, <1>6, <1>8 DEF LayersLoose, LayersSound, SameLayer, SameNodes
  <2>2. /\ Steady(left) /\ Around(gone, left)
        /\ KeyboardAgrees(left) /\ ConstraintAgrees(left) /\ TextsAgree(left)
    BY <1>7, <2>1, LeaveLayerAgrees
  <2>3. t = left
    BY <1>3, <1>9
  <2> HIDE DEF left
  <2> QED
    BY <1>4, <1>5, <2>2, <2>3 DEF Agreeing, Around, t
<1>10. CASE s.focusedLayer # l
  <2>1. LayersSound(gone)
    <3>1. s.focusedLayer # Nothing => s.focusedLayer \in Layers
      BY <1>1 DEF FocusType
    <3> QED
      BY <1>1, <1>4, <1>5, <1>6, <1>8, <1>10, <3>1 DEF LayersSound, SameLayer, SameNodes
  <2> QED
    BY <1>3, <1>4, <1>5, <1>7, <1>10, <2>1 DEF Agreeing, Steady, t
<1> QED
  BY <1>9, <1>10

LEMMA DestroyedAgrees ==
  ASSUME NEW s, Agreeing(s), NEW l \in Layers, ~s.layer[l].mapped, NEW out
  PROVE  Agreeing(Destroyed(s, l, out))
<1> DEFINE order == RemoveFirst(s.order, l)
           layer == [s.layer EXCEPT ![l] = Unmade]
           gone == WithLayers(s, layer, order)
           others == SameClient(s, l, out)
           passed == IF others = {} THEN gone ELSE EnterLayer(gone, CHOOSE k \in others : TRUE)
<1>1. /\ s \in FocusType /\ LayersSound(s) /\ s.order \in Seq(Layers)
      /\ s.layer \in [Layers -> LayerType]
  BY DEF Agreeing, Steady, Sound, FocusType
<1>2. order \in Seq(Layers)
  BY <1>1, RemoveFirstKeeps
<1>3. Unmade \in LayerType /\ ~Unmade.mapped
  <2>1. Nothing \in Place
    BY DEF Place
  <2> QED
    BY <2>1 DEF Unmade, LayerType
<1>4. layer \in [Layers -> LayerType]
  BY <1>1, <1>3
<1>5. \A k \in Layers : layer[k].mapped => k # l /\ layer[k].made
  BY <1>1, <1>3 DEF LayersSound
<1>6. s.focusedLayer # Nothing => layer[s.focusedLayer].mapped
  BY <1>1 DEF LayersSound, FocusType
<1>7. Destroyed(s, l, out) = IF out = Nothing THEN passed ELSE ArrangeLayers(passed, out)
  BY DEF Destroyed, WithLayers
<1> HIDE DEF order, layer
<1>8. Agreeing(gone)
  BY <1>2, <1>4, <1>5, <1>6, LayersChange
<1> HIDE DEF gone
<1>9. others # {} => (CHOOSE k \in others : TRUE) \in Layers
  BY DEF SameClient
<1>10. Agreeing(passed)
  BY <1>8, <1>9, EnterLayerAgreeing
<1> HIDE DEF passed
<1> QED
  BY <1>7, <1>10, ArrangeLayersAgrees

------------------------------------------------------------------------------
LEMMA CreateLayerAgrees ==
  ASSUME FocusInv, NEW l \in Layers, CreateLayer(l)
  PROVE  FocusInv'
<1>1. PICK level \in Levels[l], mode \in Modes[l], out \in OutputsOf[l] :
        /\ ~f.layer[l].made
        /\ f' = [f EXCEPT !.layer[l] = [made |-> TRUE, mapped |-> FALSE, level |-> level,
                                        mode |-> mode, output |-> out],
                          !.order = Append(f.order, l)]
  BY DEF CreateLayer
<1> DEFINE new == [made |-> TRUE, mapped |-> FALSE, level |-> level, mode |-> mode, output |-> out]
           layer == [f.layer EXCEPT ![l] = new]
           order == Append(f.order, l)
<1>2. /\ Agreeing(f) /\ f \in FocusType /\ LayersSound(f) /\ f.order \in Seq(Layers)
      /\ f.layer \in [Layers -> LayerType]
  BY DEF FocusInv, Agreeing, Steady, Sound, FocusType
<1>3. new \in LayerType
  <2>1. level \in Nat /\ mode \in {"none", "demand", "exclusive"} /\ out \in Place
    BY LayersTyped DEF Place
  <2> QED
    BY <2>1 DEF LayerType
<1>4. f' = WithLayers(f, layer, order)
  BY <1>1 DEF WithLayers
<1>5. order \in Seq(Layers) /\ layer \in [Layers -> LayerType]
  BY <1>2, <1>3
<1>6. \A k \in Layers : layer[k].mapped => k # l /\ layer[k].made
  BY <1>2 DEF LayersSound
<1>7. f.focusedLayer # Nothing => layer[f.focusedLayer].mapped
  BY <1>1, <1>2 DEF LayersSound, FocusType
<1> HIDE DEF layer, order
<1> QED
  BY <1>2, <1>4, <1>5, <1>6, <1>7, LayersChange DEF FocusInv

LEMMA MapLayerAgrees ==
  ASSUME FocusInv, NEW l \in Layers, MapLayer(l)
  PROVE  FocusInv'
<1> DEFINE layer == [f.layer EXCEPT ![l] = [f.layer[l] EXCEPT !.mapped = TRUE]]
           s == [f EXCEPT !.layer[l].mapped = TRUE]
           me == s.layer[l]
           entered == EnterLayer(s, l)
           over == s.focusedLayer = Nothing \/ s.layer[s.focusedLayer].level <= me.level
           first == IF over THEN entered ELSE s
           shown == IF me.mode = "none" \/ me.level < Top THEN s ELSE ArrangeLayers(first, me.output)
<1>1. /\ Agreeing(f) /\ f \in FocusType /\ LayersSound(f) /\ f.order \in Seq(Layers)
      /\ f.layer \in [Layers -> LayerType]
  BY DEF FocusInv, Agreeing, Steady, Sound, FocusType
<1>2. f.layer[l].made
  BY DEF MapLayer
<1>3. s = WithLayers(f, layer, f.order)
  BY <1>1 DEF WithLayers, FocusType
<1>4. f' = ArrangeLayers(shown, me.output)
  BY DEF MapLayer
<1>5. layer \in [Layers -> LayerType]
  BY <1>1 DEF LayerType
<1>6. /\ \A k \in Layers : layer[k].mapped => layer[k].made
      /\ f.focusedLayer # Nothing => layer[f.focusedLayer].mapped
  BY <1>1, <1>2 DEF LayersSound, FocusType, LayerType
<1> HIDE DEF layer
<1>7. Agreeing(s)
  BY <1>1, <1>3, <1>5, <1>6, LayersChange
<1> HIDE DEF s, over
<1>8. Agreeing(first)
  BY <1>7, EnterLayerAgreeing
<1> HIDE DEF first
<1>9. Agreeing(shown)
  BY <1>7, <1>8, ArrangeLayersAgrees
<1> HIDE DEF shown
<1> QED
  BY <1>4, <1>9, ArrangeLayersAgrees DEF FocusInv

LEMMA CommitLayerAgrees ==
  ASSUME FocusInv, NEW l \in Layers, CommitLayer(l)
  PROVE  FocusInv'
<1>1. PICK level \in Levels[l], mode \in Modes[l] :
        LET t == [f EXCEPT !.layer[l].level = level, !.layer[l].mode = mode,
                           !.order = IF level = f.layer[l].level THEN f.order
                                     ELSE Append(RemoveFirst(f.order, l), l)]
        IN  f.layer[l].made /\ f' = ArrangeLayers(t, t.layer[l].output)
  BY DEF CommitLayer
<1> DEFINE new == [[f.layer[l] EXCEPT !.level = level] EXCEPT !.mode = mode]
           layer == [f.layer EXCEPT ![l] = new]
           order == IF level = f.layer[l].level THEN f.order ELSE Append(RemoveFirst(f.order, l), l)
           s == WithLayers(f, layer, order)
<1>2. /\ Agreeing(f) /\ f \in FocusType /\ LayersSound(f) /\ f.order \in Seq(Layers)
      /\ f.layer \in [Layers -> LayerType]
  BY DEF FocusInv, Agreeing, Steady, Sound, FocusType
<1>3. level \in Nat /\ mode \in {"none", "demand", "exclusive"}
  BY LayersTyped
<1>4. /\ new \in LayerType /\ new.mapped = f.layer[l].mapped /\ new.made = f.layer[l].made
  BY <1>2, <1>3 DEF LayerType
<1>5. layer \in [Layers -> LayerType] /\ layer[l] = new
  BY <1>2, <1>4
<1>6. order \in Seq(Layers)
  BY <1>2, RemoveFirstKeeps
<1>7. s = [f EXCEPT !.layer[l].level = level, !.layer[l].mode = mode, !.order = order]
  BY <1>2 DEF WithLayers, FocusType
<1>8. f' = ArrangeLayers(s, s.layer[l].output)
  BY <1>1, <1>7
<1>9. /\ \A k \in Layers : layer[k].mapped => layer[k].made
      /\ f.focusedLayer # Nothing => layer[f.focusedLayer].mapped
  BY <1>2, <1>4, <1>5 DEF LayersSound, FocusType
<1> HIDE DEF layer, order
<1>10. Agreeing(s)
  BY <1>2, <1>5, <1>6, <1>9, LayersChange
<1> HIDE DEF s
<1> QED
  BY <1>8, <1>10, ArrangeLayersAgrees DEF FocusInv

LEMMA UnmapLayerAgrees ==
  ASSUME FocusInv, NEW l \in Layers, UnmapLayer(l)
  PROVE  FocusInv'
<1>1. Agreeing(Unmapped(f, l))
  BY UnmappedAgrees DEF FocusInv
<1> QED
  BY <1>1, ArrangeLayersAgrees DEF UnmapLayer, FocusInv

LEMMA DestroyLayerAgrees ==
  ASSUME FocusInv, NEW l \in Layers, DestroyLayer(l)
  PROVE  FocusInv'
<1> DEFINE out == f.layer[l].output
           gone == Unmapped(f, l)
           unmapped == IF f.layer[l].mapped THEN ArrangeLayers(gone, out) ELSE f
<1>1. f' = Destroyed(unmapped, l, out)
  BY DEF DestroyLayer
<1>2. Agreeing(gone) /\ ~gone.layer[l].mapped
  BY UnmappedAgrees DEF FocusInv
<1> HIDE DEF gone, out
<1>3. Agreeing(ArrangeLayers(gone, out)) /\ Around(gone, ArrangeLayers(gone, out))
  BY <1>2, ArrangeLayersAgrees
<1>4. Agreeing(unmapped) /\ ~unmapped.layer[l].mapped
  BY <1>2, <1>3 DEF FocusInv, Around
<1> HIDE DEF unmapped
<1> QED
  BY <1>1, <1>4, DestroyedAgrees DEF FocusInv

LEMMA OutputDestroyedAgrees ==
  ASSUME FocusInv, NEW l \in Layers, OutputDestroyed(l)
  PROVE  FocusInv'
<1> DEFINE gone == Unmapped(f, l)
           unmapped == IF f.layer[l].mapped THEN gone ELSE f
<1>1. f' = Destroyed(unmapped, l, Nothing)
  BY DEF OutputDestroyed
<1>2. Agreeing(gone) /\ ~gone.layer[l].mapped
  BY UnmappedAgrees DEF FocusInv
<1> HIDE DEF gone
<1>3. Agreeing(unmapped) /\ ~unmapped.layer[l].mapped
  BY <1>2 DEF FocusInv
<1> HIDE DEF unmapped
<1> QED
  BY <1>1, <1>3, DestroyedAgrees DEF FocusInv

LEMMA ClickLayerAgrees ==
  ASSUME FocusInv, NEW l \in Layers, ClickLayer(l)
  PROVE  FocusInv'
BY EnterLayerAgreeing DEF FocusInv, ClickLayer

------------------------------------------------------------------------------
\* Another stack with the same focus.
LEMMA FocusStays ==
  ASSUME NEW s, Agreeing(s), NEW t, Sound(t), Around(s, t), SameLayer(s, t), SameTexts(s, t),
         SameConstraint(s, t), t.keyboard = s.keyboard, t.hasFocus = s.hasFocus,
         Focus(t) = Focus(s)
  PROVE  Agreeing(t)
<1>1. KeyboardAgrees(s) /\ ConstraintAgrees(s) /\ TextsAgree(s) /\ LayersSound(s)
  BY DEF Agreeing, Steady
<1>2. KeyboardAgrees(t)
  BY <1>1 DEF KeyboardAgrees, Around, SameLayer
<1>3. ConstraintAgrees(t)
  BY <1>1 DEF ConstraintAgrees, SameConstraint, Around
<1>4. TextsAgree(t)
  BY <1>1 DEF TextsAgree, SameTexts, Around
<1>5. LayersSound(t)
  BY <1>1, LayersStay DEF LayersSound
<1> QED
  BY <1>2, <1>3, <1>4, <1>5 DEF Agreeing, Steady

LEMMA ReleaseAgrees ==
  ASSUME NEW s, Agreeing(s)
  PROVE  Agreeing(Constrain(s, Nothing)) /\ Constrain(s, Nothing).active = Nothing
<1> DEFINE t == Constrain(s, Nothing)
<1>1. Sound(s) /\ KeyboardAgrees(s) /\ TextsAgree(s) /\ LayersSound(s)
  BY DEF Agreeing, Steady
<1>2. /\ Sound(t) /\ Around(s, t) /\ SameNodes(s, t) /\ SameLayer(s, t)
      /\ SameTexts(s, t) /\ t.keyboard = s.keyboard /\ t.active = Nothing
  BY <1>1, ConstrainSound
<1> HIDE DEF t
<1>3. Focus(t) = Focus(s)
  BY <1>2 DEF SameNodes, Focus, Inactive
<1>4. KeyboardAgrees(t) /\ TextsAgree(t)
  BY <1>1, <1>2, <1>3 DEF KeyboardAgrees, TextsAgree, SameLayer, SameTexts, Around
<1>5. LayersSound(t)
  BY <1>1, <1>2, LayersStay DEF LayersSound, SameNodes
<1>6. Agreeing(t)
  BY <1>2, <1>4, <1>5 DEF Agreeing, Steady, ConstraintAgrees
<1> QED
  BY <1>2, <1>6 DEF t

LEMMA NodeDestroyedAgrees ==
  ASSUME NEW s, Agreeing(s), NEW v \in Views
  PROVE  Agreeing(NodeDestroyed(s, v))
<1> DEFINE r == RemoveFirst(s.stack, v)
           gone == [s EXCEPT !.stack = r]
           I == {i \in 1 .. Len(gone.stack) : gone.stack[i] \in Views}
           view == SelectInSeq(gone.stack, LAMBDA n : n \in Views)
           next == IF view = 0 THEN Desktop ELSE gone.stack[view]
           aside == RawFocus(gone, next)
           inactive == IF Inactive(gone) = Desktop THEN aside ELSE RawFocus(aside, Desktop)
           t == NodeDestroyed(s, v)
<1>1. /\ s \in FocusType /\ Sound(s) /\ LayersSound(s) /\ s.stack \in Seq(Nodes)
      /\ Contains(s.stack, Desktop) /\ s.hasFocus \in BOOLEAN
  BY DEF Agreeing, Steady, Sound, FocusType
<1>2. Desktop # v /\ Desktop \in Nodes /\ Desktop \notin Views /\ v # Nothing
  BY SurfacesDistinct DEF Nodes
<1>3. /\ r \in Seq(Nodes) /\ Contains(r, Desktop)
      /\ s.stack # <<>> /\ Head(s.stack) # v => Head(r) = Head(s.stack)
  BY <1>1, <1>2, RemoveFirstKeeps
<1>4. t = IF Focus(s) # v THEN RawFocus(inactive, Inactive(gone))
          ELSE IF Focus(gone) = next THEN SendFocus(gone, next)
          ELSE SetFocus(gone, next)
  BY DEF NodeDestroyed
<1>5. view = IF I # {} THEN Min(I) ELSE 0
  BY DEF SelectInSeq
<1> HIDE DEF r, t, view
<1>6. gone \in FocusType /\ gone.stack = r /\ gone.hasFocus = s.hasFocus /\ gone.keyboard = s.keyboard
  BY <1>1, <1>3 DEF FocusType
<1>7. Around(s, gone) /\ SameLayer(s, gone) /\ SameTexts(s, gone) /\ SameConstraint(s, gone)
  BY <1>1 DEF FocusType, Around, SameLayer, SameTexts, SameConstraint
<1> HIDE DEF gone
<1>8. Sound(gone)
  BY <1>1, <1>3, <1>6, <1>7, TextsStay, ConstraintStays DEF Sound
<1>9. LayersSound(gone)
  BY <1>1, <1>6, <1>7, LayersStay DEF LayersSound
<1>10. /\ Inactive(gone) \in Nodes /\ Inactive(gone) = r[1] /\ 1 \in 1 .. Len(r)
       /\ gone.hasFocus => Focus(gone) = r[1]
  BY <1>3, <1>6, <1>8, FocusIsNode DEF Inactive, Contains
<1>11. next \in Nodes /\ (r[1] \in Views => next = r[1])
  <2>1. I \in SUBSET Nat /\ I \in SUBSET (1 .. Len(r))
    BY <1>6
  <2>2. CASE I = {}
    <3>1. r[1] \notin Views
      BY <1>6, <1>10, <2>2
    <3> QED
      BY <1>2, <1>5, <2>2, <3>1
  <2>3. CASE I # {}
    <3>1. view \in I /\ \A j \in I : view <= j
      <4> HIDE DEF I
      <4> QED
        BY <1>5, <2>1, <2>3, MinOf
    <3>2. view \in 1 .. Len(r) /\ next = r[view] /\ next \in Views
      BY <1>6, <2>1, <3>1
    <3>3. r[1] \in Views => view = 1
      <4>1. r[1] \in Views => 1 \in I
        BY <1>6, <1>10
      <4> QED
        BY <3>1, <3>2, <4>1
    <3> QED
      BY <3>2, <3>3 DEF Nodes
  <2> QED
    BY <2>2, <2>3
<1> HIDE DEF next
<1>12. CASE Focus(s) # v
  <2>1. /\ Sound(aside) /\ Around(gone, aside) /\ SameLayer(gone, aside) /\ SameTexts(gone, aside)
        /\ SameConstraint(gone, aside) /\ aside.keyboard = gone.keyboard
        /\ aside.hasFocus = gone.hasFocus
    BY <1>8, <1>11, RawFocusSound
  <2> HIDE DEF aside
  <2>2. /\ Sound(inactive) /\ Around(gone, inactive) /\ SameLayer(gone, inactive)
        /\ SameTexts(gone, inactive) /\ SameConstraint(gone, inactive)
        /\ inactive.keyboard = gone.keyboard /\ inactive.hasFocus = gone.hasFocus
    <3> DEFINE d == RawFocus(aside, Desktop)
    <3>1. /\ Sound(d) /\ Around(aside, d) /\ SameLayer(aside, d) /\ SameTexts(aside, d)
          /\ SameConstraint(aside, d) /\ d.keyboard = aside.keyboard
          /\ d.hasFocus = aside.hasFocus
      BY <1>2, <2>1, RawFocusSound
    <3>2. inactive = aside \/ inactive = d
      OBVIOUS
    <3> HIDE DEF d, inactive
    <3> QED
      BY <2>1, <3>1, <3>2 DEF Around, SameLayer, SameTexts, SameConstraint
  <2> HIDE DEF inactive
  <2> DEFINE n == Inactive(gone)
  <2>3. t = RawFocus(inactive, n) /\ n \in Nodes
    BY <1>4, <1>10, <1>12
  <2> HIDE DEF n
  <2>4. /\ Sound(t) /\ Around(inactive, t) /\ SameLayer(inactive, t) /\ SameTexts(inactive, t)
        /\ SameConstraint(inactive, t) /\ t.keyboard = inactive.keyboard
        /\ t.hasFocus = inactive.hasFocus /\ Head(t.stack) = n
    BY <2>2, <2>3, RawFocusSound
  <2>5. /\ Around(s, t) /\ SameLayer(s, t) /\ SameTexts(s, t) /\ SameConstraint(s, t)
        /\ t.keyboard = s.keyboard /\ t.hasFocus = s.hasFocus
    BY <1>6, <1>7, <2>2, <2>4 DEF Around, SameLayer, SameTexts, SameConstraint
  <2>6. s.hasFocus => n = Head(s.stack)
    <3>1. s.stack # <<>>
      BY <1>1 DEF Contains
    <3> QED
      BY <1>3, <1>6, <1>12, <3>1 DEF Focus, Inactive, n
  <2>7. Focus(t) = Focus(s)
    BY <2>4, <2>5, <2>6 DEF Focus, Inactive
  <2>8. Agreeing(t)
    BY <2>4, <2>5, <2>7, FocusStays
  <2> QED
    BY <2>8 DEF t
<1>13. CASE Focus(s) = v
  <2>1. s.hasFocus /\ gone.focusedLayer = Nothing
    BY <1>1, <1>2, <1>7, <1>13 DEF Focus, LayersSound, SameLayer
  <2>2. TextsAgree(gone)
    BY <1>6, <1>7 DEF Agreeing, TextsAgree, SameTexts, Around
  <2>3. r[1] \notin Views => Agreeing(gone)
    <3>1. r[1] \notin Views => KeyboardAgrees(gone) /\ ConstraintAgrees(gone)
      BY <1>6, <1>10, <2>1 DEF KeyboardAgrees, ConstraintAgrees
    <3> QED
      BY <1>8, <1>9, <2>2, <3>1 DEF Agreeing, Steady
  <2>4. CASE Focus(gone) = next
    <3>1. t = SendFocus(gone, next)
      BY <1>4, <1>13, <2>4
    <3>2. /\ Sound(t) /\ Around(gone, t) /\ SameNodes(gone, t) /\ SameLayer(gone, t)
          /\ next \notin Views => t = gone
          /\ next \in Views => /\ t.keyboard = IF gone.drag THEN gone.keyboard ELSE next
                               /\ OneSurface(t, next) /\ t.active \in {Nothing, next}
      BY <1>8, <1>11, <3>1, SendFocusSound
    <3>3. CASE next \in Views
      <4>1. Focus(t) = next
        BY <2>4, <3>2 DEF SameNodes, Focus, Inactive
      <4>2. KeyboardAgrees(t) /\ ConstraintAgrees(t) /\ TextsAgree(t)
        BY <2>1, <3>2, <3>3, <4>1, ToldAgrees DEF SameLayer, Around
      <4>3. LayersSound(t)
        BY <1>9, <3>2, LayersStay DEF LayersSound, SameNodes
      <4> QED
        BY <3>2, <4>2, <4>3 DEF Agreeing, Steady, t
    <3>4. CASE next \notin Views
      BY <1>11, <2>3, <3>2, <3>4 DEF t
    <3> QED
      BY <3>3, <3>4
  <2>5. CASE Focus(gone) # next
    <3>1. Agreeing(gone)
      BY <1>6, <1>10, <1>11, <2>1, <2>3, <2>5
    <3>2. t = SetFocus(gone, next)
      BY <1>4, <1>13, <2>5
    <3> QED
      BY <1>11, <3>1, <3>2, SetFocusAgreeing DEF t
  <2> QED
    BY <2>4, <2>5
<1> QED
  BY <1>12, <1>13

------------------------------------------------------------------------------
WithStack(s, stack) == [s EXCEPT !.stack = stack]
WithFullscreen(s, v) == [s EXCEPT !.fullscreen = v]

LEMMA FullscreenAgrees ==
  ASSUME NEW s, Agreeing(s), NEW v \in Views \cup {Nothing}
  PROVE  Agreeing(WithFullscreen(s, v))
<1> DEFINE t == WithFullscreen(s, v)
<1>1. s \in FocusType /\ LayersSound(s)
  BY DEF Agreeing, Steady, Sound
<1>2. t \in FocusType /\ t.layer = s.layer /\ t.hasFocus = s.hasFocus
  BY <1>1 DEF WithFullscreen, FocusType
<1>3. /\ SameNodes(s, t) /\ SameTexts(s, t) /\ SameConstraint(s, t) /\ SameLayer(s, t)
      /\ t.keyboard = s.keyboard /\ t.unmanaged = s.unmanaged /\ t.drag = s.drag
  BY <1>1 DEF WithFullscreen, FocusType, SameNodes, SameTexts, SameConstraint, SameLayer
<1> HIDE DEF t
<1>4. LayersSound(t)
  BY <1>1, <1>2, <1>3 DEF LayersSound, SameLayer
<1>5. Agreeing(t)
  BY <1>2, <1>3, <1>4, SettledStays DEF SameLayer
<1> QED
  BY <1>5 DEF t

LEMMA MapViewAgrees ==
  ASSUME FocusInv, NEW v \in Views, NEW focus \in BOOLEAN, MapView(v, focus)
  PROVE  FocusInv'
<1> DEFINE stack == Append(f.stack, v)
           new == WithStack(f, stack)
<1>1. /\ Agreeing(f) /\ f \in FocusType /\ Sound(f) /\ LayersSound(f)
      /\ f.stack \in Seq(Nodes) /\ Contains(f.stack, Desktop)
      /\ v \in Nodes
  BY DEF FocusInv, Agreeing, Steady, Sound, FocusType, Nodes
<1>2. f' = IF focus THEN SetFocus(new, v) ELSE new
  BY DEF MapView, WithStack
<1>3. /\ stack \in Seq(Nodes) /\ Len(stack) = Len(f.stack) + 1
      /\ \A i \in 1 .. Len(f.stack) : stack[i] = f.stack[i]
  BY <1>1
<1>4. Contains(stack, Desktop)
  BY <1>1, <1>3 DEF Contains
<1>5. Head(stack) = Head(f.stack)
  <2>1. 1 \in 1 .. Len(f.stack)
    BY <1>1 DEF Contains
  <2> QED
    BY <1>1, <1>3, <2>1
<1> HIDE DEF stack
<1>6. new \in FocusType /\ new.stack = stack
  BY <1>1, <1>3 DEF WithStack, FocusType
<1>7. /\ Around(f, new) /\ SameLayer(f, new) /\ SameTexts(f, new) /\ SameConstraint(f, new)
      /\ new.keyboard = f.keyboard /\ new.hasFocus = f.hasFocus
  BY <1>1 DEF WithStack, FocusType, Around, SameLayer, SameTexts, SameConstraint
<1> HIDE DEF new
<1>8. Sound(new)
  BY <1>1, <1>4, <1>6, <1>7, TextsStay, ConstraintStays DEF Sound
<1>9. Focus(new) = Focus(f)
  BY <1>5, <1>6, <1>7 DEF Focus, Inactive
<1>10. Agreeing(new)
  BY <1>1, <1>7, <1>8, <1>9, FocusStays
<1>11. Agreeing(SetFocus(new, v))
  BY <1>1, <1>10, SetFocusAgreeing
<1> QED
  BY <1>2, <1>10, <1>11 DEF FocusInv

LEMMA UnmapViewAgrees ==
  ASSUME FocusInv, NEW v \in Views, UnmapView(v)
  PROVE  FocusInv'
<1> DEFINE full == IF f.fullscreen = v THEN Nothing ELSE f.fullscreen
           s == WithFullscreen(f, full)
           gone == NodeDestroyed(s, v)
<1>1. f' = IF gone.active = v THEN Constrain(gone, Nothing) ELSE gone
  BY DEF UnmapView, WithFullscreen
<1>2. Agreeing(f) /\ full \in Views \cup {Nothing}
  BY DEF FocusInv, Agreeing, Steady, Sound, FocusType
<1> HIDE DEF full
<1>3. Agreeing(s)
  BY <1>2, FullscreenAgrees
<1> HIDE DEF s
<1>4. Agreeing(gone)
  BY <1>3, NodeDestroyedAgrees
<1> HIDE DEF gone
<1> QED
  BY <1>1, <1>4, ReleaseAgrees DEF FocusInv

LEMMA FullscreenViewAgrees ==
  ASSUME FocusInv, NEW v \in Views, Fullscreen(v)
  PROVE  FocusInv'
<1>1. f' = IF f.fullscreen = v THEN WithFullscreen(f, Nothing)
           ELSE SetFocus(WithFullscreen(f, v), v)
  BY DEF Fullscreen, WithFullscreen
<1>2. Agreeing(WithFullscreen(f, Nothing)) /\ Agreeing(WithFullscreen(f, v)) /\ v \in Nodes
  BY FullscreenAgrees DEF FocusInv, Nodes
<1> QED
  BY <1>1, <1>2, SetFocusAgreeing DEF FocusInv

LEMMA FocusViewAgrees ==
  ASSUME FocusInv, NEW v \in Views, FocusView(v)
  PROVE  FocusInv'
<1> DEFINE n == IF Obstructed(f, v) THEN f.fullscreen ELSE v
<1>1. f' = SetFocus(f, n)
  BY DEF FocusView
<1>2. n \in Nodes
  BY DEF FocusInv, Agreeing, Steady, Sound, FocusType, Nodes, Obstructed
<1> HIDE DEF n
<1> QED
  BY <1>1, <1>2, SetFocusAgreeing DEF FocusInv

LEMMA FocusDesktopAgrees ==
  ASSUME FocusInv, FocusDesktop
  PROVE  FocusInv'
BY SetFocusAgreeing DEF FocusInv, FocusDesktop, Nodes

WithUnmanaged(s, u) == [s EXCEPT !.unmanaged = u]

\* The windows that are mapped may change, all but the one that has the keyboard.
LEMMA UnmanagedSteady ==
  ASSUME NEW s, Agreeing(s), NEW u \in SUBSET Unmanaged
  PROVE  LET t == WithUnmanaged(s, u)
         IN  /\ Steady(t) /\ ConstraintAgrees(t) /\ TextsAgree(t) /\ Inactive(t) = Inactive(s)
             /\ t.unmanaged = u /\ t.drag = s.drag
             /\ s.keyboard \in u \/ s.keyboard \notin s.unmanaged => Agreeing(t)
<1> DEFINE t == WithUnmanaged(s, u)
<1>1. /\ s \in FocusType /\ Sound(s) /\ LayersSound(s)
      /\ KeyboardAgrees(s) /\ ConstraintAgrees(s) /\ TextsAgree(s)
  BY DEF Agreeing, Steady, Sound
<1>2. t \in FocusType /\ t.layer = s.layer /\ t.unmanaged = u
  BY <1>1 DEF WithUnmanaged, FocusType
<1>3. /\ SameNodes(s, t) /\ SameTexts(s, t) /\ SameConstraint(s, t) /\ SameLayer(s, t)
      /\ t.keyboard = s.keyboard /\ t.drag = s.drag
  BY <1>1 DEF WithUnmanaged, FocusType, SameNodes, SameTexts, SameConstraint, SameLayer
<1> HIDE DEF t
<1>4. Focus(t) = Focus(s) /\ Inactive(t) = Inactive(s)
  BY <1>3 DEF SameNodes, Focus, Inactive
<1>5. Steady(t)
  BY <1>1, <1>2, <1>3, TextsStay, ConstraintStays
     DEF Steady, Sound, LayersSound, SameLayer, SameNodes
<1>6. ConstraintAgrees(t) /\ TextsAgree(t)
  BY <1>1, <1>3, <1>4 DEF ConstraintAgrees, TextsAgree, SameConstraint, SameTexts
<1>7. s.keyboard \in u \/ s.keyboard \notin s.unmanaged => KeyboardAgrees(t)
  BY <1>1, <1>2, <1>3, <1>4 DEF KeyboardAgrees, SameLayer
<1>8. s.keyboard \in u \/ s.keyboard \notin s.unmanaged => Agreeing(t)
  BY <1>5, <1>6, <1>7 DEF Agreeing
<1> QED
  BY <1>2, <1>3, <1>4, <1>5, <1>6, <1>8 DEF t

LEMMA FocusUnmanagedAgrees ==
  ASSUME FocusInv, NEW x \in Unmanaged, NEW overlay \in BOOLEAN, FocusUnmanaged(x, overlay)
  PROVE  FocusInv'
<1> DEFINE u == f.unmanaged \cup {x}
           s == WithUnmanaged(f, u)
           t == FocusSurface(s, x, overlay)
<1>1. f' = t
  BY DEF FocusUnmanaged, WithUnmanaged
<1>2. Agreeing(f) /\ u \in SUBSET Unmanaged /\ x \in u /\ x \in FocusSurfaces \cup {Nothing}
  BY DEF FocusInv, Agreeing, Steady, Sound, FocusType, FocusSurfaces
<1> HIDE DEF u
<1>3. Steady(s) /\ ConstraintAgrees(s) /\ s.unmanaged = u
  BY <1>2, UnmanagedSteady
<1> HIDE DEF s
<1>4. Sound(s) /\ LayersSound(s) /\ s.hasFocus \in BOOLEAN
  BY <1>3 DEF Steady, Sound, FocusType
<1>5. /\ Sound(t) /\ Around(s, t) /\ SameLayer(s, t) /\ t.stack = s.stack
      /\ t.hasFocus = (s.hasFocus /\ ~overlay)
      /\ t.keyboard = IF s.drag THEN s.keyboard ELSE x
      /\ OneSurface(t, x)
      /\ ~overlay => t.active = s.active
  BY <1>2, <1>4, FocusSurfaceSound
<1> HIDE DEF t
<1>6. LayersSound(t)
  BY <1>4, <1>5, LayersStay DEF LayersSound
<1>7. ~t.drag => t.keyboard = x /\ x \in t.unmanaged
  BY <1>2, <1>3, <1>5 DEF Around
<1>8. KeyboardAgrees(t)
  BY <1>7 DEF KeyboardAgrees
<1>9. TextsAgree(t)
  BY <1>5, <1>7 DEF TextsAgree, OneSurface
<1>10. ConstraintAgrees(t)
  <2>1. CASE overlay
    BY <1>5, <2>1, SurfacesDistinct DEF ConstraintAgrees, Focus
  <2>2. CASE ~overlay
    <3>1. Focus(t) = Focus(s) /\ t.active = s.active /\ t.drag = s.drag
      BY <1>4, <1>5, <2>2 DEF Focus, Inactive, Around
    <3> QED
      BY <1>3, <3>1 DEF ConstraintAgrees
  <2> QED
    BY <2>1, <2>2
<1> QED
  BY <1>1, <1>5, <1>6, <1>8, <1>9, <1>10 DEF FocusInv, Agreeing, Steady

LEMMA UnmapUnmanagedAgrees ==
  ASSUME FocusInv, NEW x \in Unmanaged, UnmapUnmanaged(x)
  PROVE  FocusInv'
<1> DEFINE u == f.unmanaged \ {x}
           gone == WithUnmanaged(f, u)
           s == SetFocus(gone, Nothing)
           n == Inactive(gone)
<1>1. f' = IF f.keyboard # x THEN gone ELSE SetFocus(s, n)
  BY DEF UnmapUnmanaged, WithUnmanaged
<1>2. Agreeing(f) /\ u \in SUBSET Unmanaged
  BY DEF FocusInv, Agreeing, Steady, Sound, FocusType
<1>3. f.keyboard # x => f.keyboard \in u \/ f.keyboard \notin f.unmanaged
  OBVIOUS
<1> HIDE DEF u
<1>4. /\ Steady(gone) /\ TextsAgree(gone)
      /\ f.keyboard # x => Agreeing(gone)
  BY <1>2, <1>3, UnmanagedSteady
<1> HIDE DEF gone
<1>5. Agreeing(s)
  BY <1>4, FocusNothing
<1>6. n \in Nodes
  BY <1>4, FocusIsNode DEF Steady
<1> HIDE DEF s, n
<1>7. Agreeing(SetFocus(s, n))
  BY <1>5, <1>6, SetFocusAgreeing
<1> QED
  BY <1>1, <1>4, <1>7 DEF FocusInv

WithDrag(s, drag) == [s EXCEPT !.drag = drag]

LEMMA DragSteady ==
  ASSUME NEW s, Agreeing(s), NEW drag \in BOOLEAN
  PROVE  LET t == WithDrag(s, drag)
         IN  Steady(t) /\ (drag => Agreeing(t))
<1> DEFINE t == WithDrag(s, drag)
<1>1. s \in FocusType /\ Sound(s) /\ LayersSound(s)
  BY DEF Agreeing, Steady, Sound
<1>2. t \in FocusType /\ t.layer = s.layer /\ t.drag = drag
  BY <1>1 DEF WithDrag, FocusType
<1>3. SameNodes(s, t) /\ SameTexts(s, t) /\ SameConstraint(s, t) /\ SameLayer(s, t)
  BY <1>1 DEF WithDrag, FocusType, SameNodes, SameTexts, SameConstraint, SameLayer
<1> HIDE DEF t
<1>4. Steady(t)
  BY <1>1, <1>2, <1>3, TextsStay, ConstraintStays
     DEF Steady, Sound, LayersSound, SameLayer, SameNodes
<1>5. drag => KeyboardAgrees(t) /\ ConstraintAgrees(t) /\ TextsAgree(t)
  BY <1>2 DEF KeyboardAgrees, ConstraintAgrees, TextsAgree
<1> QED
  BY <1>4, <1>5 DEF Agreeing, t

LEMMA DragAgrees ==
  ASSUME FocusInv, StartDrag \/ EndDrag \/ KeyboardLeavesGroup
  PROVE  FocusInv'
<1>1. Agreeing(f) /\ Steady(f)
  BY DEF FocusInv, Agreeing
<1>2. CASE StartDrag
  <2>1. f' = WithDrag(f, TRUE)
    BY <1>2 DEF StartDrag, WithDrag
  <2> QED
    BY <1>1, <2>1, DragSteady DEF FocusInv
<1>3. CASE EndDrag
  <2>1. f' = FocusAnew(WithDrag(f, FALSE))
    BY <1>3 DEF EndDrag, WithDrag
  <2>2. Steady(WithDrag(f, FALSE))
    BY <1>1, DragSteady
  <2> QED
    BY <2>1, <2>2, FocusAnewAgrees DEF FocusInv
<1>4. CASE KeyboardLeavesGroup
  BY <1>1, <1>4, FocusAnewAgrees DEF KeyboardLeavesGroup, FocusInv
<1> QED
  BY <1>2, <1>3, <1>4

------------------------------------------------------------------------------
LEMMA ConstraintDestroyedAgrees ==
  ASSUME NEW s, Agreeing(s), NEW c \in Constrained
  PROVE  LET t == ConstraintDestroyed(s, c)
         IN  Agreeing(t) /\ BesidesConstraint(s, t)
<1> DEFINE t == ConstraintDestroyed(s, c)
<1>1. /\ s \in FocusType /\ Sound(s) /\ LayersSound(s) /\ ConstraintHeld(s)
      /\ KeyboardAgrees(s) /\ ConstraintAgrees(s) /\ TextsAgree(s)
  BY DEF Agreeing, Steady, Sound
<1>2. /\ t \in FocusType /\ BesidesConstraint(s, t)
      /\ t.constraint = [s.constraint EXCEPT ![c] = "none"]
      /\ t.active = IF s.active = c THEN Nothing ELSE s.active
      /\ t.commit = IF s.active = c THEN "empty" ELSE s.commit
  BY <1>1, DestroyedConstraint
<1> HIDE DEF t
<1>3. ConstraintHeld(t)
  <2>1. CASE s.active = c
    BY <1>2, <2>1 DEF ConstraintHeld
  <2>2. CASE s.active # c
    <3>1. s.active # Nothing => s.active \in Constrained /\ t.constraint[s.active] = s.constraint[s.active]
      BY <1>1, <1>2, <2>2 DEF FocusType
    <3> QED
      BY <1>1, <1>2, <2>2, <3>1 DEF ConstraintHeld, BesidesConstraint
  <2> QED
    BY <2>1, <2>2
<1>4. /\ SameNodes(s, t) /\ SameTexts(s, t) /\ SameLayer(s, t) /\ Around(s, t)
      /\ t.keyboard = s.keyboard
  BY <1>2 DEF BesidesConstraint, SameNodes, SameTexts, SameLayer, Around
<1>5. Sound(t)
  BY <1>1, <1>2, <1>3, <1>4, TextsStay DEF Sound, SameNodes
<1>6. LayersSound(t)
  BY <1>1, <1>4, LayersStay DEF LayersSound, SameNodes
<1>7. Focus(t) = Focus(s)
  BY <1>4 DEF SameNodes, Focus, Inactive
<1>8. KeyboardAgrees(t) /\ TextsAgree(t)
  BY <1>1, <1>4, <1>7 DEF KeyboardAgrees, TextsAgree, SameLayer, SameTexts, Around
<1>9. ConstraintAgrees(t)
  BY <1>1, <1>2, <1>4, <1>7 DEF ConstraintAgrees, Around
<1> QED
  BY <1>2, <1>5, <1>6, <1>8, <1>9 DEF Agreeing, Steady, t

LEMMA DestroyConstraintAgrees ==
  ASSUME FocusInv, NEW v \in Constrained, DestroyConstraint(v)
  PROVE  FocusInv'
BY ConstraintDestroyedAgrees DEF FocusInv, DestroyConstraint

LEMMA NewConstraintAgrees ==
  ASSUME FocusInv, NEW v \in Constrained, NEW lifetime \in {"oneshot", "persistent"},
         NewConstraint(v, lifetime)
  PROVE  FocusInv'
<1> DEFINE constraint == [f.constraint EXCEPT ![v] = lifetime]
           new == [f EXCEPT !.constraint = constraint]
           t == Constrain(new, v)
<1>1. /\ Agreeing(f) /\ f \in FocusType /\ Sound(f) /\ LayersSound(f) /\ ConstraintHeld(f)
      /\ KeyboardAgrees(f) /\ ConstraintAgrees(f) /\ TextsAgree(f)
      /\ f.constraint \in [Constrained -> {"none", "oneshot", "persistent"}]
  BY DEF FocusInv, Agreeing, Steady, Sound, FocusType
<1>2. f' = IF f.keyboard = v THEN t ELSE new
  BY DEF NewConstraint
<1>3. /\ constraint \in [Constrained -> {"none", "oneshot", "persistent"}]
      /\ constraint[v] # "none"
      /\ \A c \in Constrained : c # v => constraint[c] = f.constraint[c]
  BY <1>1
<1> HIDE DEF constraint
<1>4. /\ new \in FocusType /\ new.constraint = constraint /\ new.active = f.active
      /\ new.commit = f.commit
  BY <1>1, <1>3 DEF FocusType
<1>5. /\ SameNodes(f, new) /\ SameTexts(f, new) /\ SameLayer(f, new) /\ Around(f, new)
      /\ new.keyboard = f.keyboard
  BY <1>1 DEF FocusType, SameNodes, SameTexts, SameLayer, Around
<1> HIDE DEF new
<1>6. ConstraintHeld(new)
  <2>1. f.active # Nothing => f.active \in Constrained /\ constraint[f.active] # "none"
    BY <1>1, <1>3 DEF ConstraintHeld, FocusType
  <2> QED
    BY <1>1, <1>4, <1>5, <2>1 DEF ConstraintHeld, Around
<1>7. Sound(new)
  BY <1>1, <1>4, <1>5, <1>6, TextsStay DEF Sound, SameNodes
<1>8. LayersSound(new)
  BY <1>1, <1>5, LayersStay DEF LayersSound, SameNodes
<1>9. Focus(new) = Focus(f)
  BY <1>5 DEF SameNodes, Focus, Inactive
<1>10. KeyboardAgrees(new) /\ ConstraintAgrees(new) /\ TextsAgree(new)
  <2>1. KeyboardAgrees(new)
    BY <1>1, <1>5, <1>9 DEF KeyboardAgrees, SameLayer, Around
  <2>2. ConstraintAgrees(new)
    BY <1>1, <1>4, <1>5, <1>9 DEF ConstraintAgrees, Around
  <2>3. TextsAgree(new)
    BY <1>1, <1>5 DEF TextsAgree, SameTexts, Around
  <2> QED
    BY <2>1, <2>2, <2>3
<1>11. CASE f.keyboard # v
  BY <1>2, <1>7, <1>8, <1>10, <1>11 DEF FocusInv, Agreeing, Steady
<1>12. CASE f.keyboard = v
  <2>1. /\ Sound(t) /\ Around(new, t) /\ SameNodes(new, t) /\ SameLayer(new, t)
        /\ SameTexts(new, t) /\ t.keyboard = new.keyboard /\ t.active \in {v, Nothing}
    BY <1>3, <1>4, <1>7, ConstrainSound
  <2> HIDE DEF t
  <2>2. Focus(t) = Focus(new)
    BY <2>1 DEF SameNodes, Focus, Inactive
  <2>3. KeyboardAgrees(t)
    BY <1>10, <2>1, <2>2 DEF KeyboardAgrees, SameLayer, Around
  <2>4. TextsAgree(t)
    BY <1>10, <2>1 DEF TextsAgree, SameTexts, Around
  <2>5. LayersSound(t)
    BY <1>8, <2>1, LayersStay DEF LayersSound, SameNodes
  <2>6. v \notin t.unmanaged
    BY <1>5, <2>1, SurfacesDistinct, <1>1 DEF Around, FocusType
  <2>7. ConstraintAgrees(t)
    BY <1>5, <1>12, <2>1, <2>3, <2>6 DEF ConstraintAgrees, KeyboardAgrees
  <2> QED
    BY <1>2, <1>12, <2>1, <2>3, <2>4, <2>5, <2>7 DEF FocusInv, Agreeing, Steady
<1> QED
  BY <1>11, <1>12

WithAllow(s, allow) == [s EXCEPT !.allow = allow]

\* The setting may change for the worse only once no constraint is active.
LEMMA AllowAgrees ==
  ASSUME NEW s, Agreeing(s), NEW allow \in BOOLEAN, allow \/ s.active = Nothing
  PROVE  Agreeing(WithAllow(s, allow))
<1> DEFINE t == WithAllow(s, allow)
<1>1. /\ s \in FocusType /\ Sound(s) /\ LayersSound(s) /\ ConstraintHeld(s)
      /\ KeyboardAgrees(s) /\ ConstraintAgrees(s) /\ TextsAgree(s)
  BY DEF Agreeing, Steady, Sound
<1>2. /\ t \in FocusType /\ t.allow = allow /\ t.active = s.active /\ t.commit = s.commit
      /\ t.constraint = s.constraint
  BY <1>1 DEF WithAllow, FocusType
<1>3. /\ SameNodes(s, t) /\ SameTexts(s, t) /\ SameLayer(s, t) /\ t.layer = s.layer
      /\ t.keyboard = s.keyboard /\ t.unmanaged = s.unmanaged /\ t.drag = s.drag
  BY <1>1 DEF WithAllow, FocusType, SameNodes, SameTexts, SameLayer
<1> HIDE DEF t
<1>4. ConstraintHeld(t)
  BY <1>1, <1>2 DEF ConstraintHeld
<1>5. Steady(t)
  BY <1>1, <1>2, <1>3, <1>4, TextsStay DEF Steady, Sound, LayersSound, SameLayer, SameNodes
<1>6. Focus(t) = Focus(s)
  BY <1>3 DEF SameNodes, Focus, Inactive
<1>7. KeyboardAgrees(t)
  BY <1>1, <1>3, <1>6 DEF KeyboardAgrees, SameLayer
<1>8. ConstraintAgrees(t) /\ TextsAgree(t)
  BY <1>1, <1>2, <1>3, <1>6 DEF ConstraintAgrees, TextsAgree, SameTexts
<1> QED
  BY <1>5, <1>7, <1>8 DEF Agreeing, t

LEMMA ConstraintCommandAgrees ==
  ASSUME FocusInv, NEW op \in {"enable", "disable", "escape"}, ConstraintCommand(op)
  PROVE  FocusInv'
<1> DEFINE s == Constrain(f, Nothing)
<1>1. Agreeing(s) /\ s.active = Nothing
  BY ReleaseAgrees DEF FocusInv
<1>2. s.allow \in BOOLEAN
  BY <1>1 DEF Agreeing, Steady, Sound, FocusType
<1>3. CASE op = "enable"
  <2>1. f' = WithAllow(f, TRUE)
    BY <1>3 DEF ConstraintCommand, WithAllow
  <2> QED
    BY <2>1, AllowAgrees DEF FocusInv
<1>4. CASE op # "enable"
  <2> DEFINE allow == op = "escape" /\ s.allow
  <2>1. f' = WithAllow(s, allow)
    BY <1>4 DEF ConstraintCommand, WithAllow
  <2>2. allow \in BOOLEAN
    OBVIOUS
  <2> HIDE DEF allow, s
  <2> QED
    BY <1>1, <2>1, <2>2, AllowAgrees DEF FocusInv
<1> QED
  BY <1>3, <1>4

------------------------------------------------------------------------------
WithTexts(s, im, entered, pending) ==
  [s EXCEPT !.im = im, !.entered = entered, !.pending = pending]

\* A text input comes to know no surface that it did not know.
LEMMA TextsChange ==
  ASSUME NEW s, Agreeing(s), NEW im \in BOOLEAN,
         NEW entered \in [TextInputs -> FocusSurfaces \cup {Nothing}],
         NEW pending \in [TextInputs -> FocusSurfaces \cup {Nothing}],
         \A t \in TextInputs : {entered[t], pending[t]} \subseteq {Nothing, s.entered[t], s.pending[t]},
         \A t \in TextInputs :
           Alone(t) => IF im THEN pending[t] = Nothing ELSE entered[t] = Nothing
  PROVE  Agreeing(WithTexts(s, im, entered, pending))
<1> DEFINE t == WithTexts(s, im, entered, pending)
<1>1. /\ s \in FocusType /\ Sound(s) /\ LayersSound(s) /\ TextsKnown(s) /\ ConstraintHeld(s)
      /\ KeyboardAgrees(s) /\ ConstraintAgrees(s) /\ TextsAgree(s)
  BY DEF Agreeing, Steady, Sound
<1>2. /\ t \in FocusType /\ t.im = im /\ t.entered = entered /\ t.pending = pending
  BY <1>1 DEF WithTexts, FocusType
<1>3. /\ SameNodes(s, t) /\ SameLayer(s, t) /\ SameConstraint(s, t) /\ t.layer = s.layer
      /\ t.keyboard = s.keyboard /\ t.unmanaged = s.unmanaged /\ t.drag = s.drag
  BY <1>1 DEF WithTexts, FocusType, SameNodes, SameLayer, SameConstraint
<1> HIDE DEF t
<1>4. TextsKnown(t)
  <2>1. PICK u \in FocusSurfaces \cup {Nothing} : OneSurface(s, u)
    BY <1>1 DEF TextsKnown
  <2>2. OneSurface(t, u)
    BY <1>2, <2>1 DEF OneSurface
  <2> QED
    BY <1>2, <2>2 DEF TextsKnown
<1>5. Steady(t)
  BY <1>1, <1>2, <1>3, <1>4, ConstraintStays DEF Steady, Sound, LayersSound, SameLayer, SameNodes
<1>6. Focus(t) = Focus(s)
  BY <1>3 DEF SameNodes, Focus, Inactive
<1>7. KeyboardAgrees(t)
  BY <1>1, <1>3, <1>6 DEF KeyboardAgrees, SameLayer
<1>8. ConstraintAgrees(t)
  BY <1>1, <1>3, <1>6 DEF ConstraintAgrees, SameConstraint
<1>9. TextsAgree(t)
  BY <1>1, <1>2, <1>3 DEF TextsAgree
<1> QED
  BY <1>5, <1>7, <1>8, <1>9 DEF Agreeing, t

\* Two text inputs that know a surface are of one client.
LEMMA OnlyCandidate ==
  ASSUME NEW s, TextsKnown(s), NEW t \in TextInputs, NEW x \in TextInputs, x # t, Alone(x),
         s.entered[t] # Nothing \/ s.pending[t] # Nothing
  PROVE  s.entered[x] = Nothing /\ s.pending[x] = Nothing
<1>1. PICK u \in FocusSurfaces \cup {Nothing} : OneSurface(s, u)
  BY DEF TextsKnown
<1>2. Client[u] = Client[t]
  BY <1>1 DEF OneSurface
<1>3. Client[t] # Client[x]
  BY DEF Alone
<1> QED
  BY <1>1, <1>2, <1>3 DEF OneSurface

LEMMA NewTextInputAgrees ==
  ASSUME FocusInv, NEW t \in TextInputs, NewTextInput(t)
  PROVE  FocusInv'
<1> DEFINE entered == [f.entered EXCEPT ![t] = Nothing]
           pending == [f.pending EXCEPT ![t] = Nothing]
<1>1. Agreeing(f) /\ f \in FocusType /\ TextsKnown(f)
  BY DEF FocusInv, Agreeing, Steady, Sound
<1>2. /\ f.im \in BOOLEAN /\ f.entered \in [TextInputs -> FocusSurfaces \cup {Nothing}]
      /\ f.pending \in [TextInputs -> FocusSurfaces \cup {Nothing}]
  BY <1>1 DEF FocusType
<1>3. f' = WithTexts(f, f.im, entered, pending)
  BY <1>1 DEF NewTextInput, WithTexts, FocusType
<1>4. /\ entered \in [TextInputs -> FocusSurfaces \cup {Nothing}]
      /\ pending \in [TextInputs -> FocusSurfaces \cup {Nothing}]
      /\ \A x \in TextInputs : /\ entered[x] \in {Nothing, f.entered[x]}
                               /\ pending[x] \in {Nothing, f.pending[x]}
  BY <1>2
<1> HIDE DEF entered, pending
<1>5. \A x \in TextInputs :
        Alone(x) => IF f.im THEN pending[x] = Nothing ELSE entered[x] = Nothing
  BY <1>1, <1>4 DEF TextsKnown
<1>6. \A x \in TextInputs :
        {entered[x], pending[x]} \subseteq {Nothing, f.entered[x], f.pending[x]}
  BY <1>4
<1>7. Agreeing(WithTexts(f, f.im, entered, pending))
  BY <1>1, <1>2, <1>4, <1>5, <1>6, TextsChange
<1> QED
  BY <1>3, <1>7 DEF FocusInv

LEMMA InputMethodDestroyedAgrees ==
  ASSUME FocusInv, InputMethodDestroyed
  PROVE  FocusInv'
<1> DEFINE no == FALSE
<1>1. Agreeing(f) /\ f \in FocusType /\ TextsKnown(f)
  BY DEF FocusInv, Agreeing, Steady, Sound
<1>2. /\ f.im \in BOOLEAN /\ f.entered \in [TextInputs -> FocusSurfaces \cup {Nothing}]
      /\ f.pending \in [TextInputs -> FocusSurfaces \cup {Nothing}]
  BY <1>1 DEF FocusType
<1>3. no \in BOOLEAN /\ ~no
  OBVIOUS
<1>4. CASE \A t \in TextInputs : f.entered[t] = Nothing
  <2>1. f' = WithTexts(f, no, f.entered, f.pending)
    <3>1. f' = [f EXCEPT !.im = FALSE]
      BY <1>4 DEF InputMethodDestroyed
    <3> QED
      BY <1>1, <3>1 DEF WithTexts, FocusType
  <2> HIDE DEF no
  <2>2. Agreeing(WithTexts(f, no, f.entered, f.pending))
    BY <1>1, <1>2, <1>3, <1>4, TextsChange
  <2> QED
    BY <2>1, <2>2 DEF FocusInv
<1>5. ASSUME NEW t \in TextInputs, f.entered[t] # Nothing, f' = InputMethodGone(f, t)
      PROVE  FocusInv'
  <2> DEFINE entered == [f.entered EXCEPT ![t] = Nothing]
             pending == [f.pending EXCEPT ![t] = f.entered[t]]
  <2>1. f' = WithTexts(f, no, entered, pending)
    BY <1>1, <1>5 DEF InputMethodGone, WithTexts, FocusType
  <2>2. /\ entered \in [TextInputs -> FocusSurfaces \cup {Nothing}]
        /\ pending \in [TextInputs -> FocusSurfaces \cup {Nothing}]
        /\ entered[t] = Nothing /\ pending[t] = f.entered[t]
        /\ \A x \in TextInputs \ {t} : entered[x] = f.entered[x] /\ pending[x] = f.pending[x]
    BY <1>2
  <2> HIDE DEF entered, pending, no
  <2>3. \A x \in TextInputs :
          {entered[x], pending[x]} \subseteq {Nothing, f.entered[x], f.pending[x]}
    BY <2>2
  <2>4. \A x \in TextInputs :
          Alone(x) => IF no THEN pending[x] = Nothing ELSE entered[x] = Nothing
    BY <1>1, <1>3, <1>5, <2>2, OnlyCandidate
  <2>5. Agreeing(WithTexts(f, no, entered, pending))
    BY <1>1, <1>3, <2>2, <2>3, <2>4, TextsChange
  <2> QED
    BY <2>1, <2>5 DEF FocusInv
<1> QED
  BY <1>4, <1>5 DEF InputMethodDestroyed

LEMMA NewInputMethodAgrees ==
  ASSUME FocusInv, NewInputMethod
  PROVE  FocusInv'
<1> DEFINE yes == TRUE
<1>1. Agreeing(f) /\ f \in FocusType /\ TextsKnown(f)
  BY DEF FocusInv, Agreeing, Steady, Sound
<1>2. /\ f.im \in BOOLEAN /\ f.entered \in [TextInputs -> FocusSurfaces \cup {Nothing}]
      /\ f.pending \in [TextInputs -> FocusSurfaces \cup {Nothing}]
  BY <1>1 DEF FocusType
<1>3. yes \in BOOLEAN /\ yes
  OBVIOUS
<1>4. CASE \A t \in TextInputs : f.pending[t] = Nothing
  <2>1. f' = WithTexts(f, yes, f.entered, f.pending)
    <3>1. f' = [f EXCEPT !.im = TRUE]
      BY <1>4 DEF NewInputMethod
    <3> QED
      BY <1>1, <3>1 DEF WithTexts, FocusType
  <2> HIDE DEF yes
  <2>2. Agreeing(WithTexts(f, yes, f.entered, f.pending))
    BY <1>1, <1>2, <1>3, <1>4, TextsChange
  <2> QED
    BY <2>1, <2>2 DEF FocusInv
<1>5. ASSUME NEW t \in TextInputs, f.pending[t] # Nothing,
             f' = [f EXCEPT !.im = TRUE, !.entered[t] = f.pending[t], !.pending[t] = Nothing]
      PROVE  FocusInv'
  <2> DEFINE entered == [f.entered EXCEPT ![t] = f.pending[t]]
             pending == [f.pending EXCEPT ![t] = Nothing]
  <2>1. f' = WithTexts(f, yes, entered, pending)
    BY <1>1, <1>5 DEF WithTexts, FocusType
  <2>2. /\ entered \in [TextInputs -> FocusSurfaces \cup {Nothing}]
        /\ pending \in [TextInputs -> FocusSurfaces \cup {Nothing}]
        /\ entered[t] = f.pending[t] /\ pending[t] = Nothing
        /\ \A x \in TextInputs \ {t} : entered[x] = f.entered[x] /\ pending[x] = f.pending[x]
    BY <1>2
  <2> HIDE DEF entered, pending, yes
  <2>3. \A x \in TextInputs :
          {entered[x], pending[x]} \subseteq {Nothing, f.entered[x], f.pending[x]}
    BY <2>2
  <2>4. \A x \in TextInputs :
          Alone(x) => IF yes THEN pending[x] = Nothing ELSE entered[x] = Nothing
    BY <1>1, <1>3, <1>5, <2>2, OnlyCandidate
  <2>5. Agreeing(WithTexts(f, yes, entered, pending))
    BY <1>1, <1>3, <2>2, <2>3, <2>4, TextsChange
  <2> QED
    BY <2>1, <2>5 DEF FocusInv
<1> QED
  BY <1>4, <1>5 DEF NewInputMethod

------------------------------------------------------------------------------
WithKeyboard(s, keyboard) == [s EXCEPT !.keyboard = keyboard]

\* The keyboard may be taken from a surface that is neither focused nor unmanaged and mapped.
LEMMA KeyboardTaken ==
  ASSUME NEW s, Agreeing(s), NEW n, n = Nothing, s.keyboard \notin s.unmanaged,
         s.focusedLayer # Nothing => s.keyboard # s.focusedLayer,
         Focus(s) \in Views => s.keyboard # Focus(s)
  PROVE  Agreeing(WithKeyboard(s, n))
<1> DEFINE t == WithKeyboard(s, n)
<1>1. /\ s \in FocusType /\ Sound(s) /\ LayersSound(s)
      /\ KeyboardAgrees(s) /\ ConstraintAgrees(s) /\ TextsAgree(s)
  BY DEF Agreeing, Steady, Sound
<1>2. t \in FocusType /\ t.keyboard = Nothing
  BY <1>1 DEF WithKeyboard, FocusType
<1>3. /\ SameNodes(s, t) /\ SameLayer(s, t) /\ SameConstraint(s, t) /\ SameTexts(s, t)
      /\ t.layer = s.layer /\ t.unmanaged = s.unmanaged /\ t.drag = s.drag
  BY <1>1 DEF WithKeyboard, FocusType, SameNodes, SameLayer, SameConstraint, SameTexts
<1> HIDE DEF t
<1>4. Steady(t)
  BY <1>1, <1>2, <1>3, TextsStay, ConstraintStays
     DEF Steady, Sound, LayersSound, SameLayer, SameNodes
<1>5. Focus(t) = Focus(s)
  BY <1>3 DEF SameNodes, Focus, Inactive
<1>6. KeyboardAgrees(t)
  BY <1>1, <1>3, <1>5 DEF KeyboardAgrees, SameLayer
<1>7. ConstraintAgrees(t)
  BY <1>1, <1>3, <1>5 DEF ConstraintAgrees, SameConstraint
<1>8. TextsAgree(t)
  BY <1>2 DEF TextsAgree
<1> QED
  BY <1>4, <1>6, <1>7, <1>8 DEF Agreeing, t

LEMMA SurfaceDestroyedAgrees ==
  ASSUME FocusInv, NEW u \in Views \cup Layers \cup Unmanaged, SurfaceDestroyed(u)
  PROVE  FocusInv'
<1> DEFINE s == IF u \in Constrained /\ f.constraint[u] # "none" THEN ConstraintDestroyed(f, u) ELSE f
           keyboard == IF s.keyboard = u THEN Nothing ELSE s.keyboard
           entered == [t \in TextInputs |-> IF s.entered[t] = u THEN Nothing ELSE s.entered[t]]
           pending == [t \in TextInputs |-> IF s.pending[t] = u THEN Nothing ELSE s.pending[t]]
           k == WithKeyboard(s, keyboard)
<1>1. Agreeing(f) /\ Sound(f)
  BY DEF FocusInv, Agreeing, Steady
<1>2. /\ Agreeing(s) /\ s.stack = f.stack /\ s.hasFocus = f.hasFocus /\ s.layer = f.layer
      /\ s.unmanaged = f.unmanaged
  BY <1>1, ConstraintDestroyedAgrees DEF BesidesConstraint
<1>3. u \notin f.unmanaged /\ (u \in Layers => ~f.layer[u].mapped)
      /\ (u \in Views => ~Contains(f.stack, u))
  BY DEF SurfaceDestroyed, Mapped
<1>4. f' = [s EXCEPT !.keyboard = keyboard, !.entered = entered, !.pending = pending]
  BY DEF SurfaceDestroyed
<1> HIDE DEF s
<1>5. /\ s \in FocusType /\ Sound(s) /\ LayersSound(s) /\ TextsKnown(s)
      /\ s.entered \in [TextInputs -> FocusSurfaces \cup {Nothing}]
      /\ s.pending \in [TextInputs -> FocusSurfaces \cup {Nothing}] /\ s.im \in BOOLEAN
      /\ s.focusedLayer \in Layers \cup {Nothing} /\ s.stack \in Seq(Nodes)
  BY <1>2 DEF Agreeing, Steady, Sound, FocusType
<1>6. s.focusedLayer # Nothing => u # s.focusedLayer
  BY <1>2, <1>3, <1>5 DEF LayersSound
<1>7. Focus(s) \in Views => u # Focus(s)
  <2>1. s.stack # <<>>
    BY <1>5 DEF Sound, Contains
  <2>2. Contains(s.stack, Head(s.stack))
    BY <1>5, <2>1 DEF Contains
  <2>3. Focus(s) \in Views => Focus(s) = Head(s.stack)
    BY SurfacesDistinct DEF Focus, Inactive
  <2> QED
    BY <1>2, <1>3, <2>2, <2>3
<1>8. Agreeing(k)
  <2>1. CASE s.keyboard = u
    <3> DEFINE n == Nothing
    <3>1. k = WithKeyboard(s, n) /\ n = Nothing
      BY <2>1
    <3> HIDE DEF n, k
    <3>2. /\ s.keyboard \notin s.unmanaged /\ (s.focusedLayer # Nothing => s.keyboard # s.focusedLayer)
          /\ (Focus(s) \in Views => s.keyboard # Focus(s))
      BY <1>2, <1>3, <1>6, <1>7, <2>1
    <3> QED
      BY <1>2, <3>1, <3>2, KeyboardTaken
  <2>2. CASE s.keyboard # u
    <3>1. k = s
      BY <1>5, <2>2 DEF WithKeyboard, FocusType
    <3> QED
      BY <1>2, <3>1
  <2> QED
    BY <2>1, <2>2
<1>9. k.im = s.im /\ k.entered = s.entered /\ k.pending = s.pending
  BY <1>5 DEF WithKeyboard, FocusType
<1>10. f' = WithTexts(k, s.im, entered, pending)
  <2> HIDE DEF keyboard, entered, pending
  <2> QED
    BY <1>4, <1>5 DEF WithTexts, WithKeyboard, FocusType
<1> HIDE DEF k, keyboard
<1>11. /\ entered \in [TextInputs -> FocusSurfaces \cup {Nothing}]
       /\ pending \in [TextInputs -> FocusSurfaces \cup {Nothing}]
       /\ \A t \in TextInputs : /\ entered[t] \in {Nothing, s.entered[t]}
                                /\ pending[t] \in {Nothing, s.pending[t]}
  BY <1>5
<1> HIDE DEF entered, pending
<1>12. \A t \in TextInputs :
         {entered[t], pending[t]} \subseteq {Nothing, k.entered[t], k.pending[t]}
  BY <1>9, <1>11
<1>13. \A t \in TextInputs :
         Alone(t) => IF s.im THEN pending[t] = Nothing ELSE entered[t] = Nothing
  BY <1>5, <1>11 DEF TextsKnown
<1>14. Agreeing(WithTexts(k, s.im, entered, pending))
  BY <1>5, <1>8, <1>11, <1>12, <1>13, TextsChange
<1> QED
  BY <1>10, <1>14 DEF FocusInv

------------------------------------------------------------------------------
LEMMA FocusInvInit == FocusInit => FocusInv
<1> SUFFICES ASSUME FocusInit PROVE FocusInv
  OBVIOUS
<1> DEFINE stack == <<Desktop>>
           layer == [l \in Layers |-> Unmade]
           entered == [t \in TextInputs |-> Nothing]
           constraint == [v \in Constrained |-> "none"]
<1>1. stack \in Seq(Nodes) /\ Contains(stack, Desktop)
  BY DEF Contains, Nodes
<1>2. layer \in [Layers -> LayerType] /\ \A l \in Layers : ~layer[l].mapped
  BY DEF Unmade, LayerType, Place
<1>3. entered \in [TextInputs -> FocusSurfaces \cup {Nothing}]
      /\ \A t \in TextInputs : entered[t] = Nothing
  OBVIOUS
<1>4. constraint \in [Constrained -> {"none", "oneshot", "persistent"}]
  OBVIOUS
<1>5. f = [stack |-> stack, hasFocus |-> FALSE, fullscreen |-> Nothing, keyboard |-> Nothing,
           layer |-> layer, order |-> <<>>, focusedLayer |-> Nothing, exclusive |-> FALSE,
           unmanaged |-> {}, drag |-> FALSE, im |-> FALSE, entered |-> entered,
           pending |-> entered, constraint |-> constraint, active |-> Nothing,
           commit |-> "empty", allow |-> TRUE]
  BY DEF FocusInit
<1> HIDE DEF stack, layer, entered, constraint
<1>6. f \in FocusType
  BY <1>1, <1>2, <1>3, <1>4, <1>5 DEF FocusType
<1>7. OneSurface(f, Nothing) /\ TextsKnown(f)
  BY <1>3, <1>5 DEF OneSurface, TextsKnown
<1>8. Sound(f)
  BY <1>1, <1>5, <1>6, <1>7 DEF Sound, ConstraintHeld
<1>9. LayersSound(f)
  BY <1>2, <1>5 DEF LayersSound
<1>10. Focus(f) = Nothing
  BY <1>5 DEF Focus
<1>11. KeyboardAgrees(f) /\ ConstraintAgrees(f) /\ TextsAgree(f)
  BY <1>5, <1>10, SurfacesDistinct DEF KeyboardAgrees, ConstraintAgrees, TextsAgree
<1> QED
  BY <1>8, <1>9, <1>11 DEF FocusInv, Agreeing, Steady

LEMMA FocusInvNext == FocusInv /\ [FocusNext]_f => FocusInv'
<1> SUFFICES ASSUME FocusInv, [FocusNext]_f PROVE FocusInv'
  OBVIOUS
<1>1. ASSUME NEW v \in Views, UnmapView(v) \/ Fullscreen(v) \/ FocusView(v)
      PROVE  FocusInv'
  BY <1>1, UnmapViewAgrees, FullscreenViewAgrees, FocusViewAgrees
<1>2. ASSUME NEW v \in Views, NEW focus \in BOOLEAN, MapView(v, focus)
      PROVE  FocusInv'
  BY <1>2, MapViewAgrees
<1>3. CASE FocusDesktop
  BY <1>3, FocusDesktopAgrees
<1>4. ASSUME NEW l \in Layers,
             CreateLayer(l) \/ MapLayer(l) \/ CommitLayer(l) \/ UnmapLayer(l)
      PROVE  FocusInv'
  BY <1>4, CreateLayerAgrees, MapLayerAgrees, CommitLayerAgrees, UnmapLayerAgrees
<1>5. ASSUME NEW l \in Layers, DestroyLayer(l) \/ OutputDestroyed(l) \/ ClickLayer(l)
      PROVE  FocusInv'
  BY <1>5, DestroyLayerAgrees, OutputDestroyedAgrees, ClickLayerAgrees
<1>6. ASSUME NEW x \in Unmanaged,
             UnmapUnmanaged(x) \/ \E overlay \in BOOLEAN : FocusUnmanaged(x, overlay)
      PROVE  FocusInv'
  BY <1>6, UnmapUnmanagedAgrees, FocusUnmanagedAgrees
<1>7. ASSUME NEW u \in Views \cup Layers \cup Unmanaged, SurfaceDestroyed(u)
      PROVE  FocusInv'
  BY <1>7, SurfaceDestroyedAgrees
<1>8. CASE StartDrag \/ EndDrag \/ KeyboardLeavesGroup
  BY <1>8, DragAgrees
<1>9. ASSUME NEW v \in Constrained,
             \/ DestroyConstraint(v)
             \/ \E lifetime \in {"oneshot", "persistent"} : NewConstraint(v, lifetime)
      PROVE  FocusInv'
  BY <1>9, DestroyConstraintAgrees, NewConstraintAgrees
<1>10. ASSUME NEW op \in {"enable", "disable", "escape"}, ConstraintCommand(op)
       PROVE  FocusInv'
  BY <1>10, ConstraintCommandAgrees
<1>11. CASE NewInputMethod \/ InputMethodDestroyed \/ \E t \in TextInputs : NewTextInput(t)
  BY <1>11, NewInputMethodAgrees, InputMethodDestroyedAgrees, NewTextInputAgrees
<1>12. CASE UNCHANGED f
  BY <1>12 DEF FocusInv
<1> QED
  BY <1>1, <1>2, <1>3, <1>4, <1>5, <1>6, <1>7, <1>8, <1>9, <1>10, <1>11, <1>12 DEF FocusNext

(* Whatever surfaces come and go, every state of the seat is well-formed,   *)
(* and the four agreements hold together.                                  *)
THEOREM FocusInvariant == FocusSpec => []FocusInv
<1>1. FocusInv /\ [FocusNext]_f => FocusInv'
  BY FocusInvNext
<1> QED
  BY FocusInvInit, <1>1, PTL DEF FocusSpec

(* For any surfaces: unless a drag withholds it the keyboard is on the      *)
(* focused layer or the focused view, or borrowed by a mapped override-    *)
(* redirect window (seat_set_focus and every path to it).                  *)
THEOREM KeyboardWhereSeatSays == FocusSpec => []KeyboardMatchesFocus
<1>1. FocusInv => KeyboardMatchesFocus
  BY DEF FocusInv, Agreeing, Steady, LayersSound, KeyboardAgrees, KeyboardMatchesFocus
<1> QED
  BY FocusInvariant, <1>1, PTL

(* For any surfaces and any number of text inputs: layers, text inputs and  *)
(* the pointer constraint follow the keyboard (seat.c:1339, text_input.c,  *)
(* cursor.c:1321).                                                         *)
THEOREM FollowersFollow == FocusSpec => []FollowersAgree
<1>1. ASSUME FocusInv PROVE FocusedLayerMapped
  BY <1>1 DEF FocusInv, Agreeing, Steady, LayersSound, FocusedLayerMapped
<1>2. ASSUME FocusInv PROVE TextFollowsKeyboard
  BY <1>2 DEF FocusInv, Agreeing, Steady, Sound, TextsKnown, TextsAgree, TextFollowsKeyboard
<1>3. ASSUME FocusInv PROVE ConstraintListener /\ ConstraintFollowsFocus
  BY <1>3 DEF FocusInv, Agreeing, Steady, Sound, ConstraintHeld, ConstraintAgrees,
              ConstraintListener, ConstraintFollowsFocus
<1>4. FocusInv => FollowersAgree
  BY <1>1, <1>2, <1>3 DEF FollowersAgree
<1> QED
  BY FocusInvariant, <1>4, PTL
=============================================================================
