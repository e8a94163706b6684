------------------------------- MODULE Xwayland -------------------------------
(***************************************************************************)
(* The objects sway keeps for X11 windows: sway/desktop/xwayland.c, with   *)
(* view_begin_destroy and the urgency of views (tree/view.c, seat.c).      *)
(*                                                                         *)
(* A window is managed by a sway_xwayland_view or left alone as a          *)
(* sway_xwayland_unmanaged, and passes from one to the other: when its     *)
(* override-redirect flag changes, or when an unmanaged window that covers *)
(* an output maps.  The object hangs its listeners on the window (for      *)
(* life), on its wl_surface (while associated) and on the commits of that  *)
(* surface (while mapped); X11 associates, maps, unmaps and dissociates a  *)
(* surface any number of times.                                            *)
(*                                                                         *)
(* Left out: the keyboard focus of unmanaged windows (KeyboardFocus), the  *)
(* requests of views that act on the tree (TreeCommands), configures       *)
(* (Transaction), failed allocations.                                      *)
(***************************************************************************)
EXTENDS Naturals, FiniteSets

CONSTANTS
  Windows,   \* wlr_xwayland_surfaces
  Owners,    \* memory for sway's objects, used again once freed
  NoOwner,   \* NULL
  NoWindow   \* NULL

ASSUME XwaylandConstants == NoOwner \notin Owners /\ NoWindow \notin Windows

VARIABLES
  xw,       \* the windows and their owners, a record: see XState
  focusedView   \* the view of seat_get_focused_container

xwVars == <<xw, focusedView>>

\* A window's box: two that cover no output, one that covers one.
Geometry == {"here", "there", "covering"}

Window == [alive : BOOLEAN, redirect : BOOLEAN, geometry : Geometry,
           surface : {"none", "associated", "mapped"},
           data : Owners \cup {NoOwner},
           handlers : SUBSET Owners,          \* on the window's own signals
           mapHandlers : SUBSET Owners,       \* on the surface's map, unmap
           commitHandlers : SUBSET Owners,
           geometryHandlers : SUBSET Owners]

Owner == [kind : {"free", "unmanaged", "view"}, window : Windows \cup {NoWindow},
          associated : BOOLEAN, mapped : BOOLEAN, commitActive : BOOLEAN,
          scene : Geometry \cup {"none"},     \* where its scene node was put
          container : {"none", "live", "dying"}, destroying : BOOLEAN,
          urgent : BOOLEAN, timer : BOOLEAN, allow : BOOLEAN]

XState == [win : [Windows -> Window], own : [Owners -> Owner]]

Gone == [alive |-> FALSE, redirect |-> FALSE, geometry |-> "here",
         surface |-> "none", data |-> NoOwner, handlers |-> {},
         mapHandlers |-> {}, commitHandlers |-> {}, geometryHandlers |-> {}]

Made(kind, w) ==
  [kind |-> kind, window |-> w, associated |-> FALSE, mapped |-> FALSE,
   commitActive |-> FALSE, scene |-> "none", container |-> "none",
   destroying |-> FALSE, urgent |-> FALSE, timer |-> FALSE,
   allow |-> kind = "view"]

Free == Made("free", NoWindow)

XwaylandTypeOK == xw \in XState /\ focusedView \in Owners \cup {NoOwner}

XwaylandInit ==
  /\ xw = [win |-> [w \in Windows |-> Gone], own |-> [o \in Owners |-> Free]]
  /\ focusedView = NoOwner

Covering(s, w) == s.win[w].geometry = "covering"

------------------------------------------------------------------------------
(***************************************************************************)
(* Making an object, and hanging it on the surface.  Both kinds associate  *)
(* alike.                                                                  *)
(***************************************************************************)
Create(s, w, o, kind) ==
  [win |-> [s.win EXCEPT ![w].handlers = @ \cup {o}, ![w].data = o],
   own |-> [s.own EXCEPT ![o] = Made(kind, w)]]

CreateUnmanaged(s, w, o) == Create(s, w, o, "unmanaged")
CreateXwaylandView(s, w, o) == Create(s, w, o, "view")

HandleAssociate(s, w, o) ==
  IF s.own[o].associated \/ s.win[w].surface = "none" THEN s
  ELSE [win |-> [s.win EXCEPT ![w].mapHandlers = @ \cup {o}],
        own |-> [s.own EXCEPT ![o].associated = TRUE]]

------------------------------------------------------------------------------
(***************************************************************************)
(* Views.                                                                  *)
(***************************************************************************)
HandleMap(s, w, o) ==
  IF s.own[o].mapped \/ s.win[w].surface # "mapped" THEN s
  ELSE [win |-> [s.win EXCEPT ![w].commitHandlers = @ \cup {o}],
        own |-> [s.own EXCEPT ![o].commitActive = TRUE, ![o].mapped = TRUE,
                              ![o].scene = s.win[w].geometry,
                              ![o].container = "live"]]

\* view_unmap begins to destroy the container and stops the urgency timer;
\* it leaves view->urgent.
HandleUnmap(s, w, o) ==
  IF ~s.own[o].mapped THEN s
  ELSE [win |-> [s.win EXCEPT ![w].commitHandlers = @ \ {o}],
        own |-> [s.own EXCEPT ![o].commitActive = FALSE, ![o].mapped = FALSE,
                              ![o].scene = "none", ![o].timer = FALSE,
                              ![o].container = "dying"]]

Unhang(s, w, o) ==
  [win |-> [s.win EXCEPT ![w].mapHandlers = @ \ {o}],
   own |-> [s.own EXCEPT ![o].associated = FALSE]]

HandleDissociate(s, w, o) ==
  IF ~s.own[o].associated THEN s ELSE Unhang(HandleUnmap(s, w, o), w, o)

\* A view waits for the transaction that frees its container.
ViewBeginDestroy(own, o) ==
  [own EXCEPT ![o] = IF own[o].container = "none" THEN Free
                     ELSE [own[o] EXCEPT !.destroying = TRUE,
                                         !.window = NoWindow]]

Abandon(s, w, o) ==
  [win |-> [s.win EXCEPT ![w].handlers = @ \ {o}],
   own |-> ViewBeginDestroy(s.own, o)]

HandleDestroy(s, w, o) == Abandon(HandleDissociate(HandleUnmap(s, w, o), w, o), w, o)

------------------------------------------------------------------------------
(***************************************************************************)
(* Unmanaged windows.  n is the memory the next object is made in.         *)
(***************************************************************************)
SlipUnmanagedUnmap(s, w, o) ==
  IF ~s.own[o].mapped THEN s
  ELSE [s EXCEPT !.own[o].mapped = FALSE, !.own[o].scene = "none"]
UnmanagedUnmap(s, w, o) ==
  IF ~s.own[o].mapped THEN s
  ELSE [win |-> [s.win EXCEPT ![w].geometryHandlers = @ \ {o}],
        own |-> [s.own EXCEPT ![o].mapped = FALSE, ![o].scene = "none"]]

UnmanagedDissociate(s, w, o) ==
  IF ~s.own[o].associated THEN s ELSE Unhang(UnmanagedUnmap(s, w, o), w, o)

Forget(s, w, o) ==
  [win |-> [s.win EXCEPT ![w].handlers = @ \ {o},
                         ![w].data = IF @ = o THEN NoOwner ELSE @],
   own |-> [s.own EXCEPT ![o] = Free]]

UnmanagedDestroy(s, w, o) == Forget(UnmanagedDissociate(s, w, o), w, o)

\* A window becomes a view: a new view takes the window over, associated
\* and mapped as the window is.
BecomeView(s, w, n) ==
  HandleMap(HandleAssociate(CreateXwaylandView(s, w, n), w, n), w, n)

PromoteFullscreenOverlay(s, w, o, n) == BecomeView(UnmanagedDestroy(s, w, o), w, n)

Show(s, w, o) ==
  [win |-> [s.win EXCEPT ![w].geometryHandlers = @ \cup {o}],
   own |-> [s.own EXCEPT ![o].mapped = TRUE, ![o].scene = s.win[w].geometry]]

SlipUnmanagedMap(s, w, o, n) ==
  IF s.own[o].mapped \/ s.win[w].surface # "mapped" THEN s
  ELSE IF Covering(s, w) THEN BecomeView(s, w, n)
  ELSE Show(s, w, o)
UnmanagedMap(s, w, o, n) ==
  IF s.own[o].mapped \/ s.win[w].surface # "mapped" THEN s
  ELSE IF Covering(s, w) THEN PromoteFullscreenOverlay(s, w, o, n)
  ELSE Show(s, w, o)

UnmanagedOverrideRedirect(s, w, o, n) == BecomeView(UnmanagedDestroy(s, w, o), w, n)

\* The unmanaged object made for a view that became one does not cover an
\* output, so mapping it never promotes it.
BecomeUnmanaged(s, w, n) ==
  UnmanagedMap(HandleAssociate(CreateUnmanaged(s, w, n), w, n), w, n, n)

HandleOverrideRedirect(s, w, o, n) ==
  IF ~s.win[w].redirect \/ Covering(s, w) THEN s
  ELSE BecomeUnmanaged(HandleDestroy(s, w, o), w, n)

------------------------------------------------------------------------------
(***************************************************************************)
(* Focus and urgency.                                                      *)
(***************************************************************************)
SetUrgent(s, o, enable) ==
  [s EXCEPT !.own[o].urgent = enable, !.own[o].timer = enable /\ @]

\* view_set_urgent: a focused view does not become urgent.
ViewSetUrgent(s, o, enable) ==
  IF s.own[o].urgent = enable \/ (enable /\ focusedView = o) THEN s
  ELSE SetUrgent(s, o, enable)

\* The end of seat_set_workspace_focus: an urgent view that is focused by
\* going to its workspace stays urgent for urgent_timeout.
NoteFocus(s, o, travelled) ==
  IF ~s.own[o].urgent \/ s.own[o].timer THEN s
  ELSE IF travelled THEN [s EXCEPT !.own[o].timer = TRUE]
  ELSE SetUrgent(s, o, FALSE)

MappedViews(s) == {o \in Owners : s.own[o].kind = "view" /\ s.own[o].mapped}

\* When the focused view is gone the seat focuses another one, next, or an
\* empty workspace.  One that is on top of the focus stack is sent the
\* focus without the handling of urgency.
Settle(t) ==
  IF focusedView \in MappedViews(t) \cup {NoOwner} THEN xw' = t /\ focusedView' = focusedView
  ELSE \E next \in MappedViews(t) \cup {NoOwner} :
         /\ focusedView' = next
         /\ \/ xw' = t
            \/ \E v \in BOOLEAN : next # NoOwner /\ xw' = NoteFocus(t, next, v)

\* view_map may focus the new view.
Arrive(t, o) ==
  \/ xw' = t /\ focusedView' = focusedView
  \/ /\ o \in MappedViews(t) \ MappedViews(xw)
     /\ focusedView' = o
     /\ \E v \in BOOLEAN : xw' = NoteFocus(t, o, v)

------------------------------------------------------------------------------
(***************************************************************************)
(* The events of Xwayland.  A signal runs the handler of every object that *)
(* listens; the invariants say that there is one at most.                  *)
(***************************************************************************)
FreeOwners == {o \in Owners : xw.own[o].kind = "free"}

HandleXwaylandSurface(w, o, redirect, g) ==
  /\ ~xw.win[w].alive
  /\ LET made == [xw EXCEPT !.win[w] = [Gone EXCEPT !.alive = TRUE,
                                          !.redirect = redirect, !.geometry = g]]
     IN xw' = IF redirect /\ g # "covering" THEN CreateUnmanaged(made, w, o)
              ELSE CreateXwaylandView(made, w, o)
  /\ UNCHANGED focusedView

Associate(w) ==
  /\ xw.win[w].alive /\ xw.win[w].surface = "none"
  /\ \E o \in xw.win[w].handlers :
       xw' = HandleAssociate([xw EXCEPT !.win[w].surface = "associated"], w, o)
  /\ UNCHANGED focusedView

Map(w, n) ==
  /\ xw.win[w].surface = "associated"
  /\ \E o \in xw.win[w].mapHandlers :
       LET t == [xw EXCEPT !.win[w].surface = "mapped"]
       IN IF xw.own[o].kind = "view"
          THEN Arrive(HandleMap(t, w, o), o)
          ELSE Arrive(UnmanagedMap(t, w, o, n), n)

Withdrawn(s, w, o) ==
  LET t == [s EXCEPT !.win[w].surface = "associated"]
  IN IF s.own[o].kind = "view" THEN HandleUnmap(t, w, o) ELSE UnmanagedUnmap(t, w, o)

Unmap(w) ==
  /\ xw.win[w].surface = "mapped"
  /\ \E o \in xw.win[w].mapHandlers :
       Settle(Withdrawn(xw, w, o))

Detached(s, w, o) ==
  LET t == Withdrawn(s, w, o)
      d == IF s.own[o].kind = "view" THEN HandleDissociate(t, w, o)
           ELSE UnmanagedDissociate(t, w, o)
  IN [d EXCEPT !.win[w].surface = "none"]

Dissociate(w) ==
  /\ xw.win[w].surface # "none"
  /\ \E o \in xw.win[w].handlers :
       Settle(Detached(xw, w, o))

Removed(s, w, o) ==
  LET t == IF s.win[w].surface = "none" THEN s ELSE Detached(s, w, o)
  IN IF s.own[o].kind = "view" THEN HandleDestroy(t, w, o) ELSE UnmanagedDestroy(t, w, o)

\* The window's memory goes with what still hangs on it, if anything.
Destroy(w) ==
  /\ xw.win[w].alive
  /\ \E o \in xw.win[w].handlers :
       LET t == Removed(xw, w, o)
       IN Settle([t EXCEPT !.win[w] = [@ EXCEPT !.alive = FALSE,
                     !.redirect = FALSE, !.geometry = "here", !.data = NoOwner]])

SetOverrideRedirect(w, n) ==
  /\ xw.win[w].alive
  /\ \E o \in xw.win[w].handlers :
       LET t == [xw EXCEPT !.win[w].redirect = ~@]
       IN IF xw.own[o].kind = "view"
          THEN Settle(HandleOverrideRedirect(t, w, o, n))
          ELSE Arrive(UnmanagedOverrideRedirect(t, w, o, n), n)

\* The box changes; an unmanaged window's scene node follows.
SetGeometry(w, g) ==
  /\ xw.win[w].alive /\ xw.win[w].geometry # g
  /\ xw' = [win |-> [xw.win EXCEPT ![w].geometry = g],
            own |-> [o \in Owners |->
               IF o \in xw.win[w].geometryHandlers THEN [xw.own[o] EXCEPT !.scene = g]
               ELSE xw.own[o]]]
  /\ UNCHANGED focusedView

------------------------------------------------------------------------------
(***************************************************************************)
(* What the user, the client and the timers do to a managed window.        *)
(***************************************************************************)
\* set_hints of a mapped window; during the timeout the view stays urgent.
SetHints(w, urgency) ==
  /\ xw.win[w].surface = "mapped"
  /\ \E o \in xw.win[w].handlers :
       /\ xw.own[o].kind = "view"
       /\ urgency \/ ~xw.own[o].timer
       /\ xw.own[o].allow
       /\ xw' = ViewSetUrgent(xw, o, urgency)
  /\ UNCHANGED focusedView

FocusXView(o) ==
  /\ o \in MappedViews(xw) \ {focusedView}
  /\ \E v \in BOOLEAN : xw' = NoteFocus(xw, o, v)
  /\ focusedView' = o

\* view_request_activate: focus it, make it urgent, or nothing, as
\* focus_on_window_activation says.
HandleRequestActivate(w, answer) ==
  /\ xw.win[w].surface = "mapped"
  /\ \E o \in xw.win[w].handlers :
       /\ xw.own[o].kind = "view"
       /\ CASE answer = "focus" -> FocusXView(o)
            [] answer = "urgent" -> xw' = ViewSetUrgent(xw, o, TRUE) /\ UNCHANGED focusedView

\* The command urgent: allow, deny, enable, disable.
CmdUrgent(o, arg) ==
  /\ o \in MappedViews(xw)
  /\ xw' = IF arg \in {"allow", "deny"} THEN [xw EXCEPT !.own[o].allow = (arg = "allow")]
           ELSE ViewSetUrgent(xw, o, arg = "enable")
  /\ UNCHANGED focusedView

HandleUrgentTimeout(o) ==
  /\ xw.own[o].timer
  /\ xw' = ViewSetUrgent(xw, o, FALSE)
  /\ UNCHANGED focusedView

\* The transaction that carried the end of the container is done with.
ContainerDestroy(o) ==
  /\ xw.own[o].container = "dying"
  /\ xw' = [xw EXCEPT !.own[o] = IF @.destroying THEN Free
                                 ELSE [@ EXCEPT !.container = "none"]]
  /\ UNCHANGED focusedView

XwaylandNext ==
  \/ \E w \in Windows, o \in FreeOwners, redirect \in BOOLEAN, g \in Geometry :
       HandleXwaylandSurface(w, o, redirect, g)
  \/ \E w \in Windows : Associate(w) \/ Unmap(w) \/ Dissociate(w) \/ Destroy(w)
  \/ \E w \in Windows, n \in FreeOwners : Map(w, n) \/ SetOverrideRedirect(w, n)
  \/ \E w \in Windows, g \in Geometry : SetGeometry(w, g)
  \/ \E w \in Windows, u \in BOOLEAN : SetHints(w, u)
  \/ \E w \in Windows, a \in {"focus", "urgent"} : HandleRequestActivate(w, a)
  \/ \E o \in Owners : FocusXView(o) \/ HandleUrgentTimeout(o) \/ ContainerDestroy(o)
  \/ \E o \in Owners, a \in {"allow", "deny", "enable", "disable"} : CmdUrgent(o, a)

XwaylandSpec == XwaylandInit /\ [][XwaylandNext]_xwVars

------------------------------------------------------------------------------
OwnerOf(w) == {o \in Owners : xw.own[o].window = w}

\* Every window has one owner, which the window's data points at, which is
\* associated and mapped exactly as the window is whatever order the events
\* came in; a mapped view has a container in the tree for its requests to act
\* on, and only override-redirect windows are left unmanaged
\* (handle_associate .. handle_override_redirect, unmanaged_handle_*).
OwnerFollowsWindow ==
  \A w \in Windows : xw.win[w].alive =>
    \E o \in Owners :
      /\ OwnerOf(w) = {o} /\ xw.win[w].data = o
      /\ xw.own[o].associated <=> (xw.win[w].surface # "none")
      /\ xw.own[o].mapped <=> (xw.win[w].surface = "mapped")
      /\ xw.own[o].kind = "view" /\ xw.own[o].mapped => xw.own[o].container = "live"
      /\ xw.own[o].kind = "unmanaged" => xw.win[w].redirect

\* No listener outlives its object: what hangs on a window and its surface
\* is what its owner says of itself, and a view whose window is gone is only
\* kept for the container that a transaction will free (handle_destroy,
\* unmanaged_handle_destroy, view_begin_destroy).
ListenersAreLive ==
  /\ \A w \in Windows :
       /\ xw.win[w].handlers = OwnerOf(w)
       /\ xw.win[w].mapHandlers = {o \in OwnerOf(w) : xw.own[o].associated}
       /\ xw.win[w].commitHandlers = {o \in OwnerOf(w) : xw.own[o].commitActive}
       /\ xw.win[w].geometryHandlers =
            {o \in OwnerOf(w) : xw.own[o].kind = "unmanaged" /\ xw.own[o].mapped}
  /\ \A o \in Owners : xw.own[o].kind # "free" /\ xw.own[o].window = NoWindow =>
       xw.own[o].destroying /\ xw.own[o].container = "dying"

\* The urgency timer runs for a mapped urgent view only, so it never fires
\* for a view that is unmapped, reused or freed (view_unmap, view_set_urgent,
\* handle_urgent_timeout).
TimerIsUrgent ==
  \A o \in Owners : xw.own[o].timer => o \in MappedViews(xw) /\ xw.own[o].urgent

\* Neither a listener nor a timer is left behind to run for an object that is
\* gone.
NothingRunsForTheDead == ListenersAreLive /\ TimerIsUrgent
=============================================================================
