-------------------------------- MODULE Swaybar --------------------------------
(***************************************************************************)
(* One swaybar process: its event loop (common/loop.c), the outputs it     *)
(* draws on (bar.c, render.c, pool-buffer.c), the events of the compositor *)
(* (ipc.c) and the status command it runs (status_line.c).                 *)
(*                                                                         *)
(* The process is single-threaded, so its state is one record and a        *)
(* handler is an operator from the bar to the bar; an action is one        *)
(* callback of the loop.  What the compositor, the status command and the  *)
(* user do is chosen by the actions.                                       *)
(***************************************************************************)
EXTENDS Naturals, Sequences, SequencesExt, FiniteSets

CONSTANTS
  Outputs,      \* the outputs of the compositor
  Configs,      \* the configurations `bar` commands switch between
  NoCommand     \* no status command

(* A configuration: mode, hidden_state, the outputs it names, its status   *)
(* command, whether it has a tray and workspace buttons, and its font.     *)
ASSUME ConfigShape ==
  \A c \in Configs :
    /\ c.mode \in {"dock", "hide", "invisible", "overlay"}
    /\ c.hidden \in {"hide", "show"}
    /\ c.tray \in BOOLEAN /\ c.buttons \in BOOLEAN

VARIABLE bar
vars == <<bar>>

NoLayer == "none"

(* calloc of handle_global: an output before its first xdg_output.done *)
Blank == [place |-> "absent", surface |-> FALSE, layer |-> NoLayer,
          wide |-> FALSE, sized |-> FALSE, asked |-> FALSE,
          scheduled |-> FALSE, dirty |-> FALSE, frames |-> 0, busy |-> 0,
          drawn |-> "fresh"]

NoStatus == [command |-> NoCommand, process |-> "none", open |-> FALSE,
             protocol |-> "none", custom |-> FALSE]

Running == bar.life = "running"
Used(b) == {o \in Outputs : b.out[o].place = "used"}

(***************************************************************************)
(* Drawing.  `wide` says that the layer surface was configured (width is   *)
(* not 0), `sized` that it has the height the bar wants, `asked` that a    *)
(* configure is due.  `frames` counts the                                  *)
(* frame callbacks at the compositor (a third one changes nothing, see     *)
(* FrameDone, so they are counted up to two), `busy` the pool's buffers    *)
(* there.  `drawn` compares what is committed with what the bar should     *)
(* show: fresh, stale, or starved when no buffer was free to draw it.      *)
(***************************************************************************)
AddFrame(n) == IF n = 2 THEN 2 ELSE n + 1

RenderFrame(r) ==
  IF r.layer = NoLayer THEN r
  ELSE IF ~r.sized THEN [r EXCEPT !.asked = TRUE]
  ELSE IF r.busy = 2 THEN [r EXCEPT !.drawn = "starved"]
  ELSE [r EXCEPT !.drawn = "fresh", !.scheduled = TRUE,
                 !.busy = @ + 1, !.frames = AddFrame(@)]

SetOutputDirty(r) ==
  LET s == [r EXCEPT !.drawn = "stale"] IN
  IF s.scheduled THEN [s EXCEPT !.dirty = TRUE]
  ELSE IF s.surface THEN RenderFrame(s) ELSE s

SetBarDirty(b) ==
  [b EXCEPT !.out = [o \in Outputs |->
     IF b.out[o].place = "used" THEN SetOutputDirty(b.out[o]) ELSE b.out[o]]]

OutputFrameDone(r) ==
  LET s == [r EXCEPT !.scheduled = FALSE] IN
  IF s.dirty THEN [RenderFrame(s) EXCEPT !.dirty = FALSE] ELSE s

(* Mutant: the frame of the destroyed surface stays scheduled.             *)
SlipDestroyLayerSurface(r) ==
  IF r.layer = NoLayer THEN r
  ELSE [r EXCEPT !.layer = NoLayer, !.wide = FALSE, !.sized = FALSE,
                 !.asked = FALSE]

DestroyLayerSurface(r) ==
  IF r.layer = NoLayer THEN r
  ELSE [r EXCEPT !.layer = NoLayer, !.wide = FALSE, !.sized = FALSE,
                 !.asked = FALSE, !.scheduled = FALSE]

LayerFor(c) == IF c.mode \in {"hide", "overlay"} THEN "overlay" ELSE "bottom"

AddLayerSurface(c, r) ==
  IF r.layer # NoLayer THEN r ELSE [r EXCEPT !.layer = LayerFor(c)]

(***************************************************************************)
(* The status command: a process group that SIGSTOP stops and SIGCONT      *)
(* resumes, unless its header asked for signals of its own (`custom`);     *)
(* those reach a process that was stopped before its header was read, and  *)
(* leave it stopped.                                                       *)
(***************************************************************************)
Signalled(st, cont) ==
  LET off == IF st.custom THEN "paused" ELSE "stopped" IN
  IF cont /\ st.process = off THEN [st EXCEPT !.process = "running"]
  ELSE IF ~cont /\ st.process = "running" THEN [st EXCEPT !.process = off]
  ELSE st

BarVisible(c, s) ==
  ~ (\/ c.mode = "invisible"
     \/ c.mode = c.hidden /\ ~s.modifier /\ ~s.urgency /\ ~s.mode)

(* The layer surfaces a change of visibility creates and destroys *)
Relayered(b, show, moving) ==
  LET Gone(r) == IF ~show \/ moving THEN DestroyLayerSurface(r) ELSE r
      Put(r)  == IF show THEN AddLayerSurface(b.cfg, Gone(r)) ELSE Gone(r)
  IN  SetBarDirty([b EXCEPT !.visible = show,
        !.out = [o \in Outputs |->
           IF o \in Used(b) THEN Put(b.out[o]) ELSE b.out[o]]])

(* Mutant: the status command is stopped and never resumed.                *)
SlipDetermineVisibility(b, moving) ==
  LET show == BarVisible(b.cfg, b.seen) IN
  IF b.life # "running" THEN b
  ELSE IF show /\ \E o \in Used(b) : ~b.out[o].surface
  THEN [b EXCEPT !.life = "crashed"]
  ELSE [Relayered(b, show, moving) EXCEPT
          !.status = IF ~show /\ b.visible THEN Signalled(@, show) ELSE @]

(* A used output without a wl_surface makes add_layer_surface pass NULL    *)
(* where the protocol allows none: the connection is lost.                 *)
DetermineVisibility(b, moving) ==
  LET show == BarVisible(b.cfg, b.seen) IN
  IF b.life # "running" THEN b
  ELSE IF show /\ \E o \in Used(b) : ~b.out[o].surface
  THEN [b EXCEPT !.life = "crashed"]
  ELSE [Relayered(b, show, moving) EXCEPT
          !.status = IF show # b.visible THEN Signalled(@, show) ELSE @]

(***************************************************************************)
(* The loop: an array of descriptors walked by index, with the events of   *)
(* the last poll beside it.  A callback may remove any of them, its own    *)
(* included, and the walk goes on at the next index.                       *)
(***************************************************************************)
LoopAddFd(b, fd) ==
  [b EXCEPT !.fds = Append(@, fd), !.ready = Append(@, FALSE)]

LoopRemoveFd(b, fd) ==
  IF fd \notin Range(b.fds) THEN b
  ELSE LET i == CHOOSE k \in DOMAIN b.fds : b.fds[k] = fd
       IN  [b EXCEPT !.fds = RemoveAt(@, i), !.ready = RemoveAt(@, i)]

(* the first descriptor from index i on that has an event, 0 for none *)
ReadyFrom(b, i) ==
  LET S == {k \in DOMAIN b.ready : k >= i /\ b.ready[k]} IN
  IF S = {} THEN 0 ELSE CHOOSE k \in S : \A m \in S : k <= m

StatusError(b) ==
  [(IF b.status.open THEN LoopRemoveFd(b, "status") ELSE b)
     EXCEPT !.status.open = FALSE, !.status.protocol = "error"]

StatusLineInit(b) ==
  [LoopAddFd(b, "status") EXCEPT
     !.status = [command |-> b.cfg.status, process |-> "running",
                 open |-> TRUE, protocol |-> "undef", custom |-> FALSE]]

(* status_line_free waits for the process, and SIGTERM does not end one    *)
(* that stays stopped.                                                     *)
Waits(st) == Signalled(st, TRUE).process = "stopped"

StatusLineFree(b) ==
  [(IF b.status.open THEN LoopRemoveFd(b, "status") ELSE b)
     EXCEPT !.status = NoStatus,
            !.life = IF Waits(b.status) THEN "waiting" ELSE @]

(***************************************************************************)
(* Events of the compositor's IPC                                          *)
(***************************************************************************)
IpcGetWorkspaces(b, urgent) ==
  DetermineVisibility([b EXCEPT !.seen.urgency = urgent], FALSE)

WorkspaceEvent(b) == {SetBarDirty(IpcGetWorkspaces(b, u)) : u \in BOOLEAN}

ModeEvent(b) ==
  {SetBarDirty(DetermineVisibility([b EXCEPT !.seen.mode = m], FALSE)) :
     m \in BOOLEAN}

HandleBarStateUpdate(b, pressed) ==
  LET seen == IF pressed
              THEN [modifier |-> TRUE, urgency |-> FALSE, mode |-> FALSE]
              ELSE [b.seen EXCEPT !.modifier = FALSE]
      shown == DetermineVisibility([b EXCEPT !.seen = seen], FALSE)
  IN  IF shown.visible THEN SetBarDirty(shown) ELSE shown

Uses(c, o) == c.outputs = {} \/ o \in c.outputs

(* Mutant: an output that is no longer named keeps its layer surface.      *)
SlipMoveOutput(r, used, resized) ==
  IF r.place = "used" /\ ~used THEN [r EXCEPT !.place = "unused"]
  ELSE IF r.place = "used" /\ resized THEN [r EXCEPT !.sized = FALSE]
  ELSE IF r.place = "unused" /\ used THEN [r EXCEPT !.place = "used"]
  ELSE r

(* An output the new configuration does not name loses its layer surface,  *)
(* one that it names is drawn on; nothing creates the wl_surface of an     *)
(* output that was never used.                                             *)
MoveOutput(r, used, resized) ==
  IF r.place = "used" /\ ~used THEN [DestroyLayerSurface(r) EXCEPT !.place = "unused"]
  ELSE IF r.place = "used" /\ resized THEN [r EXCEPT !.sized = FALSE]
  ELSE IF r.place = "unused" /\ used THEN [r EXCEPT !.place = "used"]
  ELSE r

ReplaceStatus(b, old) ==
  LET kept == IF b.status # NoStatus /\ b.cfg.status # old.status
              THEN StatusLineFree(b) ELSE b
  IN  IF /\ kept.status = NoStatus /\ b.cfg.status # NoCommand
         /\ kept.life = "running"
      THEN StatusLineInit(kept) ELSE kept

ReplaceTray(b, old) ==
  IF ~old.tray /\ b.cfg.tray THEN LoopAddFd(b, "tray")
  ELSE IF old.tray /\ ~b.cfg.tray THEN LoopRemoveFd(b, "tray")
  ELSE b

HandleBarconfigUpdate(b, c, urgent) ==
  LET moved  == [b EXCEPT !.cfg = c, !.out = [o \in Outputs |->
                   MoveOutput(b.out[o], Uses(c, o), b.cfg.font # c.font)]]
      tuned  == ReplaceTray(ReplaceStatus(moved, b.cfg), b.cfg)
      listed == IF c.buttons /\ tuned.life = "running"
                THEN IpcGetWorkspaces(tuned, urgent) ELSE tuned
      shown  == DetermineVisibility(listed, b.cfg.mode # c.mode)
  IN  IF shown.life = "running" THEN SetBarDirty(shown) ELSE shown

HandleIpcReadable(b) ==
  UNION {WorkspaceEvent(b), ModeEvent(b),
         {HandleBarStateUpdate(b, p) : p \in BOOLEAN},
         {HandleBarconfigUpdate(b, c, u) : c \in Configs, u \in BOOLEAN}}

(***************************************************************************)
(* Output of the status command: its header, a line or an array of blocks, *)
(* an incomplete one that changes nothing, an error or the end of the pipe *)
(***************************************************************************)
StatusIn(b) ==
  LET failed == SetBarDirty(StatusError(b))
      header == {SetBarDirty([b EXCEPT !.status.protocol = "i3bar",
                                       !.status.custom = q]) : q \in BOOLEAN}
      text   == SetBarDirty([b EXCEPT !.status.protocol = "text"])
  IN  {failed} \union IF b.status.protocol = "undef"
                      THEN header \union {text} ELSE {SetBarDirty(b), b}

(***************************************************************************)
(* Events of the Wayland connection                                        *)
(***************************************************************************)
SetOutput(b, o, r) == [b EXCEPT !.out[o] = r]

HandleGlobal(b, o) ==
  IF b.out[o].place = "absent"
  THEN {SetOutput(b, o, [Blank EXCEPT !.place = "bound"])} ELSE {}

XdgOutputHandleDone(b, o, urgent) ==
  IF ~Uses(b.cfg, o) THEN SetOutput(b, o, [b.out[o] EXCEPT !.place = "unused"])
  ELSE LET made == DetermineVisibility(
             SetOutput(b, o, [b.out[o] EXCEPT !.place = "used",
                                              !.surface = TRUE]), FALSE)
       IN  IF b.cfg.buttons THEN IpcGetWorkspaces(made, urgent) ELSE made

XdgDone(b, o) ==
  IF b.out[o].place = "bound"
  THEN {XdgOutputHandleDone(b, o, u) : u \in BOOLEAN} ELSE {}

(* handle_global_remove and layer_surface_closed both free the output *)
OutputFree(b, o) ==
  IF b.out[o].place \in {"used", "unused"} THEN {SetOutput(b, o, Blank)} ELSE {}

LayerSurfaceConfigure(b, o) ==
  IF b.out[o].asked
  THEN {SetOutput(b, o, SetOutputDirty([b.out[o] EXCEPT !.asked = FALSE,
                                !.wide = TRUE, !.sized = TRUE]))}
  ELSE {}

(* All frame callbacks of a surface are answered together *)
FrameDone(b, o) ==
  LET r == b.out[o]
      first == OutputFrameDone([r EXCEPT !.frames = 0])
  IN  IF r.frames = 0 THEN {}
      ELSE {SetOutput(b, o, IF r.frames = 1 THEN first
                            ELSE OutputFrameDone(first))}

(* wl_output.done, or a new scale of the output under the pointer, which   *)
(* draws at once, whether a frame is scheduled or not                      *)
OutputChanged(b, o) ==
  LET r == b.out[o] IN
  IF r.place # "used" \/ r.layer = NoLayer THEN {}
  ELSE {SetOutput(b, o, SetOutputDirty(r)),
        SetOutput(b, o, RenderFrame([r EXCEPT !.drawn = "stale"]))}

BufferRelease(b, o) ==
  IF b.out[o].busy > 0 THEN {[b EXCEPT !.out[o].busy = @ - 1]} ELSE {}

DisplayIn(b) ==
  UNION {UNION {HandleGlobal(b, o), XdgDone(b, o), OutputFree(b, o),
                LayerSurfaceConfigure(b, o), FrameDone(b, o),
                OutputChanged(b, o), BufferRelease(b, o)} : o \in Outputs}

-----------------------------------------------------------------------------
(* bar_setup: the outputs S that exist are drawn on before the status      *)
(* command and the tray are started                                        *)
BarSetup(c, S, urgent) ==
  LET empty == [cfg |-> c, visible |-> TRUE, life |-> "running",
                seen |-> [modifier |-> FALSE, urgency |-> FALSE, mode |-> FALSE],
                out |-> [o \in Outputs |-> IF o \notin S THEN Blank
                          ELSE IF Uses(c, o)
                          THEN [Blank EXCEPT !.place = "used", !.surface = TRUE]
                          ELSE [Blank EXCEPT !.place = "unused"]],
                status |-> NoStatus, fds |-> <<"display", "ipc">>,
                ready |-> <<FALSE, FALSE>>, at |-> 0]
      found == IF Used(empty) = {} THEN empty
               ELSE DetermineVisibility(empty, FALSE)
      run   == IF c.status = NoCommand THEN found ELSE StatusLineInit(found)
      tray  == IF c.tray THEN LoopAddFd(run, "tray") ELSE run
  IN  DetermineVisibility(IF c.buttons THEN IpcGetWorkspaces(tray, urgent)
                                       ELSE tray, FALSE)

Init == \E c \in Configs, S \in SUBSET Outputs, u \in BOOLEAN :
           bar = BarSetup(c, S, u)

(* poll(): some descriptors have events *)
Poll ==
  /\ Running /\ bar.at = 0
  /\ \E S \in SUBSET DOMAIN bar.fds :
       LET polled == [bar EXCEPT !.ready = [i \in DOMAIN bar.fds |-> i \in S]]
       IN  /\ S # {}
           /\ bar' = [polled EXCEPT !.at = ReadyFrom(polled, 1)]

(* After a callback the walk goes on at the next index; when it is over,   *)
(* what poll reported is of no use any more.                               *)
Walked(b) ==
  LET at == ReadyFrom(b, bar.at + 1) IN
  [b EXCEPT !.at = at,
            !.ready = IF at = 0 THEN [i \in DOMAIN @ |-> FALSE] ELSE @]

Dispatch(fd, results) ==
  /\ Running /\ bar.at # 0 /\ bar.fds[bar.at] = fd
  /\ \E b \in results : bar' = Walked(b)

DispatchDisplay == Dispatch("display", DisplayIn(bar) \union {bar})
DispatchIpc     == Dispatch("ipc", HandleIpcReadable(bar))
DispatchStatus  == Dispatch("status", StatusIn(bar))
DispatchTray    == Dispatch("tray", {bar, SetBarDirty(bar)})

(* The status command ends by itself; its pipe then reports a hang-up. *)
StatusExits ==
  /\ Running /\ bar.status.process = "running"
  /\ bar' = [bar EXCEPT !.status.process = "exited"]

Next ==
  \/ Poll \/ DispatchDisplay \/ DispatchIpc \/ DispatchStatus \/ DispatchTray
  \/ StatusExits

Spec == Init /\ [][Next]_vars

-----------------------------------------------------------------------------
OutputOK(r) ==
  /\ r.place \in {"absent", "bound", "used", "unused"}
  /\ r.layer \in {NoLayer, "overlay", "bottom"}
  /\ r.frames \in 0..2 /\ r.busy \in 0..2
  /\ r.drawn \in {"fresh", "stale", "starved"}

TypeOK ==
  /\ bar.cfg \in Configs /\ bar.life \in {"running", "crashed", "waiting"}
  /\ \A o \in Outputs : OutputOK(bar.out[o])
  /\ bar.fds \in Seq({"display", "ipc", "status", "tray"})
  /\ Len(bar.ready) = Len(bar.fds) /\ bar.at \in 0..Len(bar.fds)

(* Whatever the order of key presses, urgent workspaces, binding modes,    *)
(* configuration changes and hotplug: the bar thinks it is visible exactly *)
(* when it should be, and every output in use has a layer surface, on the  *)
(* layer of the current mode, exactly then; no other output has one        *)
(* (determine_bar_visibility and handle_barconfig_update).                 *)
LayersFollow ==
  Running =>
    /\ bar.visible = BarVisible(bar.cfg, bar.seen)
    /\ \A o \in Outputs :
         bar.out[o].layer = IF o \in Used(bar) /\ bar.visible
                            THEN LayerFor(bar.cfg) ELSE NoLayer

(* An update that is not on the screen is on its way: the surface waits    *)
(* for a configure, or a frame callback that will draw it is outstanding,  *)
(* which a surface that was never configured does not get.                 *)
(* A surface that waits for neither would never be drawn again             *)
(* (set_output_dirty, output_frame_handle_done, destroy_layer_surface).    *)
Due(r) ==
  /\ r.scheduled => r.frames > 0
  /\ ~r.wide => r.asked
  /\ (~r.sized \/ r.drawn = "stale") => r.asked \/ (r.scheduled /\ r.dirty)

UpdateOnItsWay ==
  Running => \A o \in Outputs :
    bar.out[o].layer # NoLayer => Due(bar.out[o])

(* The loop watches each descriptor once, the pipe of the status command   *)
(* exactly while it is open, and the bus exactly while there is a tray:    *)
(* no callback runs for a status command that is gone, however the walk    *)
(* over the descriptors and their removal interleave (loop_remove_fd,      *)
(* status_line_close_fds, handle_barconfig_update).                        *)
LoopMatches ==
  Running =>
    /\ \A i, j \in DOMAIN bar.fds : bar.fds[i] = bar.fds[j] => i = j
    /\ Range(bar.fds) =
         {"display", "ipc"} \union (IF bar.status.open THEN {"status"} ELSE {})
                            \union (IF bar.cfg.tray THEN {"tray"} ELSE {})

(* A status command that keeps the default signals is never left stopped   *)
(* while the bar is visible (determine_bar_visibility).                    *)
NoStoppedCommand ==
  Running /\ bar.visible /\ ~bar.status.custom =>
    bar.status.process # "stopped"

(* The status command, its descriptors and its process are one: watched    *)
(* while it is open and running while it can be seen.                      *)
CommandInStep == TypeOK /\ LoopMatches /\ NoStoppedCommand

(* render.c:753 asserts that an output that is drawn on has a wl_surface.  *)
DrawnOutputsHaveSurface ==
  \A o \in Used(bar) : BarVisible(bar.cfg, bar.seen) => bar.out[o].surface
=============================================================================
