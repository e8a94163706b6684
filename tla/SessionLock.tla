----------------------------- MODULE SessionLock -----------------------------
(***************************************************************************)
(* The session lock (sway/lock.c): the lock a client holds, the cover it   *)
(* puts on every output, the lock surfaces the client shows on them, and   *)
(* which of these has the focus.  Outputs come and go meanwhile, and the   *)
(* client may die, which abandons the lock without unlocking.              *)
(*                                                                         *)
(* wlroots destroys the lock surfaces of a client before it reports that   *)
(* its lock is destroyed; the model lets the two be separate steps, in     *)
(* that order.                                                             *)
(***************************************************************************)
CONSTANTS Outputs,     \* struct sway_output
          Surfaces,    \* lock surfaces; one can be created again after its destruction
          Locks,       \* lock objects of clients, each used once
          None

ASSUME NoneIsNoObject == None \notin Surfaces \cup Locks

VARIABLES
  running,     \* FALSE once the lock manager is destroyed, at shutdown
  output,      \* "connected" ones are in root->all_outputs; a "dying" one has
               \* left it, and its scene layers wait for output_destroy
  client,      \* what became of the client's side of a lock
  lock,        \* server.session_lock.lock
  abandoned,   \* sway_session_lock.abandoned
  focused,     \* sway_session_lock.focused
  covers,      \* the outputs with a sway_session_lock_output
  red,         \* those whose background is red
  surface,     \* sway_session_lock_output.surface
  mapped       \* the mapped surfaces among those

vars == <<running, output, client, lock, abandoned, focused, covers, red, surface, mapped>>

OutputLife == {"absent", "connected", "dying"}
ClientLife == {"new", "holds", "refused", "unlocked", "gone"}

TypeOK ==
  /\ running \in BOOLEAN
  /\ output \in [Outputs -> OutputLife]
  /\ client \in [Locks -> ClientLife]
  /\ lock \in Locks \cup {None}
  /\ abandoned \in BOOLEAN
  /\ focused \in Surfaces \cup {None}
  /\ covers \subseteq Outputs
  /\ red \subseteq Outputs
  /\ surface \in [Outputs -> Surfaces \cup {None}]
  /\ mapped \subseteq Surfaces

Init ==
  /\ running = TRUE
  /\ output \in [Outputs -> {"absent", "connected"}]
  /\ client = [l \in Locks |-> "new"]
  /\ lock = None
  /\ abandoned = FALSE
  /\ focused = None
  /\ covers = {}
  /\ red = {}
  /\ surface = [o \in Outputs |-> None]
  /\ mapped = {}

Connected == {o \in Outputs : output[o] = "connected"}
Shown == {surface[o] : o \in covers} \ {None}

------------------------------------------------------------------------------
(***************************************************************************)
(* Lock surfaces.                                                          *)
(***************************************************************************)

\* refocus_output: what can have the focus once the surface of output o is
\* gone.  The order of lock->outputs is not modelled.
Refocus(o) ==
  LET candidates == {x \in covers \ {o} : surface[x] \in mapped}
  IN  IF focused # surface[o] THEN {focused}
      ELSE IF candidates = {} THEN {None}
      ELSE {surface[x] : x \in candidates}

\* wlroots lets the client have one lock surface per output that exists.
HandleNewSurface(o, f) ==
  /\ running /\ lock # None /\ ~abandoned
  /\ output[o] = "connected" /\ surface[o] = None
  /\ f \notin Shown
  /\ surface' = [surface EXCEPT ![o] = f]
  /\ UNCHANGED <<running, output, client, lock, abandoned, focused, covers, red, mapped>>

\* Who is focused after the surface of output o is mapped.
SurfaceMap(o) == IF focused = None THEN surface[o] ELSE focused

HandleSurfaceMap(o) ==
  /\ running /\ surface[o] # None /\ surface[o] \notin mapped
  /\ mapped' = mapped \cup {surface[o]}
  /\ focused' = SurfaceMap(o)
  /\ UNCHANGED <<running, output, client, lock, abandoned, covers, red, surface>>

HandleSurfaceDestroy(o) ==
  /\ running /\ surface[o] # None
  /\ focused' \in Refocus(o)
  /\ surface' = [surface EXCEPT ![o] = None]
  /\ mapped' = mapped \ {surface[o]}
  /\ UNCHANGED <<running, output, client, lock, abandoned, covers, red>>

------------------------------------------------------------------------------
(***************************************************************************)
(* Locks.                                                                  *)
(***************************************************************************)

\* sway_session_lock_destroy, as far as the covers go: none is left.
CoversDestroyed ==
  /\ surface' = [o \in Outputs |-> None]
  /\ mapped' = {}
  /\ focused' = None
  /\ red' = {}

\* A new lock covers every output.  It is refused while another client holds
\* one, and replaces an abandoned one.
HandleSessionLock(l) ==
  /\ running /\ client[l] = "new"
  /\ \/ /\ lock # None /\ ~abandoned
        /\ client' = [client EXCEPT ![l] = "refused"]
        /\ UNCHANGED <<lock, abandoned, focused, covers, red, surface, mapped>>
     \/ /\ lock = None \/ abandoned
        /\ client' = [client EXCEPT ![l] = "holds"]
        /\ CoversDestroyed
        /\ lock' = l
        /\ abandoned' = FALSE
        /\ covers' = Connected
  /\ UNCHANGED <<running, output>>

HandleUnlock ==
  /\ running /\ lock # None /\ ~abandoned
  /\ client' = [client EXCEPT ![lock] = "unlocked"]
  /\ CoversDestroyed
  /\ lock' = None
  /\ covers' = {}
  /\ UNCHANGED <<running, output, abandoned>>

SlipAbandon ==                              \* the session is unlocked
  /\ running /\ lock # None /\ ~abandoned /\ Shown = {}
  /\ client' = [client EXCEPT ![lock] = "gone"]
  /\ CoversDestroyed
  /\ lock' = None
  /\ covers' = {}
  /\ UNCHANGED <<running, output, abandoned>>

\* handle_abandon: the client is gone, and its surfaces before it.
HandleAbandon ==
  /\ running /\ lock # None /\ ~abandoned /\ Shown = {}
  /\ client' = [client EXCEPT ![lock] = "gone"]
  /\ abandoned' = TRUE
  /\ red' = covers
  /\ UNCHANGED <<running, output, lock, focused, covers, surface, mapped>>

\* handle_session_lock_destroy, at shutdown
HandleSessionLockDestroy ==
  /\ running
  /\ running' = FALSE
  /\ CoversDestroyed
  /\ lock' = None
  /\ covers' = {}
  /\ abandoned' = FALSE
  /\ UNCHANGED <<output, client>>

------------------------------------------------------------------------------
(***************************************************************************)
(* Outputs.                                                                *)
(***************************************************************************)

\* The red covers after session_lock_output_create for output o.
Cover(o) == IF abandoned THEN red \cup {o} ELSE red

SlipNewOutput(o) ==                            \* it is not covered
  /\ running /\ output[o] = "absent"
  /\ output' = [output EXCEPT ![o] = "connected"]
  /\ UNCHANGED <<running, client, lock, abandoned, focused, covers, red, surface, mapped>>

\* handle_new_output and sway_session_lock_add_output
HandleNewOutput(o) ==
  /\ running /\ output[o] = "absent"
  /\ output' = [output EXCEPT ![o] = "connected"]
  /\ IF lock # None
       THEN covers' = covers \cup {o} /\ red' = Cover(o)
       ELSE UNCHANGED <<covers, red>>
  /\ UNCHANGED <<running, client, lock, abandoned, focused, surface, mapped>>

\* begin_destroy of an output
BeginDestroy(o) ==
  /\ running /\ output[o] = "connected"
  /\ output' = [output EXCEPT ![o] = "dying"]
  /\ UNCHANGED <<running, client, lock, abandoned, focused, covers, red, surface, mapped>>

\* output_destroy destroys the scene layers, and with them the cover
\* (sway_session_lock_output_destroy).  wlroots destroys the lock surface of a
\* lost output on its own; the code does not rely on that, nor does the model.
OutputDestroy(o) ==
  /\ running /\ output[o] = "dying"
  /\ output' = [output EXCEPT ![o] = "absent"]
  /\ covers' = covers \ {o}
  /\ red' = red \ {o}
  /\ IF surface[o] # None
       THEN /\ focused' \in Refocus(o)
            /\ surface' = [surface EXCEPT ![o] = None]
            /\ mapped' = mapped \ {surface[o]}
       ELSE UNCHANGED <<focused, surface, mapped>>
  /\ UNCHANGED <<running, client, lock, abandoned>>

Next ==
  \/ \E o \in Outputs :
       \/ \E f \in Surfaces : HandleNewSurface(o, f)
       \/ HandleSurfaceMap(o) \/ HandleSurfaceDestroy(o)
       \/ HandleNewOutput(o) \/ BeginDestroy(o) \/ OutputDestroy(o)
  \/ \E l \in Locks : HandleSessionLock(l)
  \/ HandleUnlock \/ HandleAbandon \/ HandleSessionLockDestroy

Spec == Init /\ [][Next]_vars

------------------------------------------------------------------------------
(***************************************************************************)
(* Properties.                                                             *)
(***************************************************************************)

\* While there is a lock every output has its cover, also one connected after
\* the lock, after its client died, or while an abandoned lock was replaced
\* (sway_session_lock_add_output in lock.c and output.c); no cover outlives
\* its lock or its output.
OutputsCovered ==
  /\ lock # None => Connected \subseteq covers
  /\ lock = None => covers = {}
  /\ \A o \in covers : output[o] # "absent"

\* The focused surface of the lock is a mapped one it still shows, and as long
\* as it shows a mapped one, one is focused (handle_surface_map and
\* refocus_output): the user can always type the password.
FocusOnMapped ==
  /\ focused # None => focused \in Shown \cap mapped
  /\ Shown \cap mapped # {} => focused # None

\* The covers are red exactly when the client of the lock has died: handle_abandon
\* colours those there are, session_lock_output_create the later ones.
RedWhenAbandoned == red = IF abandoned THEN covers ELSE {}

\* A locked session shows nothing else on any output, and the keys go to the
\* surface that asks for the password.
LockHolds == TypeOK /\ OutputsCovered /\ FocusOnMapped /\ RedWhenAbandoned

\* Until shutdown a lock ends only in two ways (handle_unlock and
\* handle_session_lock): its own client unlocks, or its client has died and the
\* lock of another one takes its place.
LockedUntilUnlocked ==
  [][running' /\ lock # None /\ lock' # lock
     => \/ client'[lock] = "unlocked"
        \/ client[lock] = "gone" /\ lock' # None]_vars
==============================================================================
