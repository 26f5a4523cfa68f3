---------------------------- MODULE ClusterWindow ----------------------------
(***************************************************************************)
(* The renderer's window on the cluster: c_render/platform_qnx.c and the   *)
(* parts of main.c's loop that look after it.                              *)
(*                                                                         *)
(* The process takes over displayable 20 by registering a window with the  *)
(* display manager, which may give the displayable to the native           *)
(* navigation at any time.  What the cluster shows is its context; contexts *)
(* are switched and composed by the tool dmdt, which the process runs on   *)
(* threads of their own.  One thread draws and probes the window; others   *)
(* run one dmdt each and end.                                              *)
(***************************************************************************)
EXTENDS Integers, Sequences, FiniteSets

CONSTANTS
  MaxTrouble,   \* bound: windows lost, calls that fail, waits that run out
  MaxDrifts,    \* bound: switches of the context by others
  MaxShows,     \* bound: exposures and maneuvers by the HMI
  MaxAsync      \* bound: commands that run at a time

ASSUME WindowAssumption ==
  {MaxTrouble, MaxDrifts, MaxShows, MaxAsync} \subseteq Nat

Neutral == 72
Map     == 74      \* g_context_id
Other   == 11      \* any other context

VARIABLES
  proc,      \* "starting", "running", "closing", "left", "rushed" (it left
             \* while a thread still ran), "failed" (it never ran) or "died"
  win,       \* g_native_window: "none", "fresh" (not yet seen by the display
             \* manager), "managed", "disowned" or "dead"
  surface,   \* an EGL surface on the window is current
  seen,      \* g_manager_string_seen
  recent,    \* the last recreation is less than 100 ms ago
  routed,    \* g_display_routed
  inflight,  \* g_system_async_inflight: threads that run "dmdt dc"
  checking,  \* g_focus_check_inflight
  focus,     \* the thread of a focus check: "none", "reading", "forcing"
  forced,    \* a force is less than 30 s ago
  active,    \* g_display_active
  preload,   \* g_preload_pending
  dirty,     \* there is something to draw
  pipe,      \* commands from the HMI
  host,      \* the HMI has the renderer "hidden", "shown", or "hiding"
  ctx,       \* the cluster's context
  layout,    \* what context 74 is composed of: "stock", "stripped"
  strings,   \* this firmware fills in MANAGER_STRING
  trouble, drifts, shows

windowVars == <<win, surface, seen, recent>>
dmdtVars   == <<routed, inflight, checking, focus, forced>>
engineVars == <<active, preload, dirty, pipe>>
outside    == <<host, strings, drifts, shows>>
vars == <<proc, windowVars, dmdtVars, engineVars, ctx, layout, trouble, outside>>

Init ==
  /\ proc = "starting"
  /\ win = "none" /\ surface = FALSE /\ seen = FALSE /\ recent = FALSE
  /\ routed = FALSE /\ inflight = 0
  /\ checking = FALSE /\ focus = "none" /\ forced = FALSE
  /\ active = FALSE /\ preload = FALSE /\ dirty = FALSE /\ pipe = <<>>
  /\ host = "hidden" /\ ctx = Neutral /\ layout = "stock"
  /\ strings \in BOOLEAN
  /\ trouble = 0 /\ drifts = 0 /\ shows = 0

Running == proc = "running"

(* A call that may fail, and does so only so often.                        *)
Fails    == trouble < MaxTrouble /\ trouble' = trouble + 1
Succeeds == UNCHANGED trouble

-----------------------------------------------------------------------------
\* Mutant: without a thread the command is lost.
RunAsync_NoInline ==
  \/ Succeeds /\ inflight < MaxAsync
     /\ inflight' = inflight + 1 /\ layout' = "stripped"
  \/ Fails /\ layout' = "stripped" /\ UNCHANGED inflight

(* system_async(): without a thread, or the memory for one, the command is *)
(* run in line.                                                            *)
RunAsync ==
  \/ Succeeds /\ inflight < MaxAsync
     /\ inflight' = inflight + 1 /\ layout' = "stripped"
  \/ Fails /\ layout' = "stock" /\ UNCHANGED inflight

AsyncDone ==
  /\ inflight > 0
  /\ inflight' = inflight - 1 /\ layout' = "stock"
  /\ UNCHANGED <<proc, windowVars, routed, checking, focus, forced,
                 engineVars, ctx, trouble, outside>>

(* create_window_and_egl_surface().  Registering a window strips the       *)
(* context of what else it was composed of; that is put back only once the *)
(* surface is there.                                                       *)
NoWindow == win' = "none" /\ surface' = FALSE
  /\ Fails /\ UNCHANGED <<routed, inflight, layout>>
NoSurface == win' = "fresh" /\ surface' = FALSE
  /\ layout' = "stripped" /\ Fails /\ UNCHANGED <<routed, inflight>>
WindowMade == win' = "fresh" /\ surface' = TRUE
  /\ RunAsync /\ routed' = TRUE

(* platform_recreate_window()                                              *)
Recreate ==
  \/ recent
     /\ UNCHANGED <<win, surface, recent, routed, inflight, layout, trouble>>
  \/ ~recent /\ recent' = TRUE /\ (NoWindow \/ NoSurface \/ WindowMade)

RecreateAgain ==
  /\ recent /\ recent' = FALSE
  /\ UNCHANGED <<proc, win, surface, seen, dmdtVars, engineVars, ctx, layout,
                 trouble, outside>>

ForceAgain ==
  /\ forced /\ forced' = FALSE
  /\ UNCHANGED <<proc, windowVars, routed, inflight, checking, focus,
                 engineVars, ctx, layout, trouble, outside>>

(* platform_init(): if it fails main() returns, and the handlers of exit() *)
(* release the window and, had it been routed, the context.                *)
PlatformInit ==
  /\ proc = "starting"
  /\ \/ WindowMade /\ proc' = "running"
     \/ Fails /\ proc' = "failed"
        /\ layout' \in {layout, "stripped"}
        /\ UNCHANGED <<win, surface, routed, inflight>>
  /\ UNCHANGED <<seen, recent, checking, focus, forced, engineVars, ctx, outside>>

-----------------------------------------------------------------------------
(* A turn of the loop: commands, a frame, the two watchdogs.               *)

ReadCmd ==
  /\ Running /\ pipe # <<>>
  /\ pipe' = Tail(pipe)
  /\ CASE Head(pipe) = "PRELOAD" ->
            preload' = TRUE /\ dirty' = TRUE /\ UNCHANGED active
       [] Head(pipe) = "START" ->
            /\ preload' = FALSE
            /\ active' = (active \/ preload) /\ dirty' = (dirty \/ preload)
       [] Head(pipe) = "HIDE" ->
            active' = FALSE /\ UNCHANGED <<preload, dirty>>
       [] OTHER -> dirty' = TRUE /\ UNCHANGED <<active, preload>>
  /\ UNCHANGED <<proc, windowVars, dmdtVars, ctx, layout, trouble, outside>>

(* platform_swap().  In a window that the display manager has taken from   *)
(* us a swap may fail or not.                                              *)
SwapFails == ~surface \/ win \in {"none", "dead"}
SwapWorks == surface /\ win \notin {"none", "dead"}

Draw ==
  /\ Running /\ dirty
  /\ dirty' \in BOOLEAN               \* an animation goes on, or ends
  /\ \/ SwapWorks
        /\ UNCHANGED <<win, surface, recent, routed, inflight, layout, trouble>>
     \/ (SwapFails \/ win = "disowned") /\ Recreate
  /\ UNCHANGED <<proc, seen, checking, focus, forced, active, preload, pipe,
                 ctx, outside>>

(* What the two probes tell.                                               *)
Probe1Fails == win = "dead"
String == IF strings /\ win = "managed" THEN "ours" ELSE "other"

\* Mutant: a manager string that was never seen before counts as lost.
LostWindow_NoHandshake == Probe1Fails \/ String # "ours"

LostWindow == Probe1Fails \/ (String # "ours" /\ seen)

\* Mutant: there is no window, so there is nothing to recover.
CheckAndRecoverWindow_NoRetry ==
  /\ Running /\ win # "none"
  /\ IF LostWindow THEN Recreate
     ELSE UNCHANGED <<win, surface, recent, routed, inflight, layout, trouble>>
  /\ seen' = (seen \/ (win # "none" /\ ~Probe1Fails /\ String = "ours"))
  /\ UNCHANGED <<proc, checking, focus, forced, engineVars, ctx, outside>>

(* platform_check_and_recover_window()                                     *)
CheckAndRecoverWindow ==
  /\ Running
  /\ IF win = "none" \/ LostWindow THEN Recreate
     ELSE UNCHANGED <<win, surface, recent, routed, inflight, layout, trouble>>
  /\ seen' = (seen \/ (win # "none" /\ ~Probe1Fails /\ String = "ours"))
  /\ UNCHANGED <<proc, checking, focus, forced, engineVars, ctx, outside>>

-----------------------------------------------------------------------------
(* The focus check.                                                        *)

\* Mutant: a thread that cannot be created leaves the check marked as running.
EnsureFocus_StaysMarked ==
  /\ Running /\ active /\ ~dirty /\ ~checking
  /\ \/ Succeeds /\ focus' = "reading"
     \/ Fails /\ UNCHANGED focus
  /\ checking' = TRUE
  /\ UNCHANGED <<proc, windowVars, routed, inflight, forced, engineVars, ctx, layout, outside>>

(* platform_ensure_focus(), every 30 s while an exposed renderer rests.    *)
EnsureFocus ==
  /\ Running /\ active /\ ~dirty /\ ~checking
  /\ \/ Succeeds /\ focus' = "reading" /\ checking' = TRUE
     \/ Fails /\ UNCHANGED <<focus, checking>>
  /\ UNCHANGED <<proc, windowVars, routed, inflight, forced, engineVars, ctx, layout, outside>>

(* What "dmdt gs" prints, one record a line: the main display, then the    *)
(* cluster's, or of the cluster no more than the context, or nothing.      *)
Line(kind, v) == [kind |-> kind, v |-> v]
Listings(c) ==
  { <<Line("display", 0), Line("lvds", 1), Line("context", Other),
      Line("display", 1), Line("lvds", 2), Line("context", c)>>,
    <<Line("lvds", 1), Line("context", Map), Line("lvds", 2), Line("context", c)>>,
    <<Line("context", c)>>,
    <<>> }

Cluster == 1       \* g_display_id
Unknown == -1

(* read_dmdt_cluster_context(): a display line tells whether the lines     *)
(* after it are the cluster's, a terminal line can only say that they are. *)
ReadContext(lines) ==
  LET Idx(k) == Cardinality({j \in 1..k : lines[j].kind = "display"}) - 1
      Names(k) ==
        \/ lines[k].kind = "display" /\ Cluster \in {lines[k].v, Idx(k)}
        \/ lines[k] = Line("lvds", Cluster + 1)
      Target(k) ==
        \E j \in 1..k : Names(j) /\ \A i \in j + 1..k :
                          lines[i].kind = "display" => Names(i)
      contexts == {k \in DOMAIN lines : lines[k].kind = "context"}
      targets == {k \in contexts : Target(k)}
  IN CASE targets # {} -> lines[CHOOSE k \in targets : \A j \in targets : k <= j].v
       [] targets = {} /\ Cardinality(contexts) = 1 ->
            lines[CHOOSE k \in contexts : TRUE].v
       [] OTHER -> Unknown

(* check_and_restore_focus(): a context that cannot be read is forced too, *)
(* but none within 30 s of the last.                                       *)
FocusRead(lines) ==
  /\ focus = "reading"
  /\ IF ReadContext(lines) = Map \/ forced
     THEN focus' = "none" /\ checking' = FALSE /\ UNCHANGED forced
     ELSE focus' = "forcing" /\ forced' = TRUE /\ UNCHANGED checking
  /\ UNCHANGED <<proc, windowVars, routed, inflight, engineVars, ctx, layout,
                 trouble, outside>>

FocusForce ==
  /\ focus = "forcing"
  /\ ctx' = Map /\ routed' = TRUE
  /\ focus' = "none" /\ checking' = FALSE
  /\ UNCHANGED <<proc, windowVars, inflight, forced, engineVars, layout,
                 trouble, outside>>

-----------------------------------------------------------------------------
(* The end.                                                                *)

(* CMD_SHUTDOWN, a closed connection, or SIGTERM.                          *)
LeaveLoop ==
  /\ Running /\ proc' = "closing"
  /\ UNCHANGED <<windowVars, dmdtVars, engineVars, ctx, layout, trouble, outside>>

(* restore_display()                                                       *)
RestoreDisplay ==
  IF routed THEN layout' = "stock" /\ ctx' = Neutral
  ELSE UNCHANGED <<layout, ctx>>

\* Mutant: only the asynchronous commands are waited for.
Quiet_CommandsOnly == inflight = 0

Quiet == ~checking /\ inflight = 0

(* platform_shutdown(): it waits a second for the threads; a dmdt that is  *)
(* still running then outlives the process.                                *)
Shutdown ==
  /\ proc = "closing"
  /\ \/ Quiet /\ Succeeds /\ proc' = "left"
     \/ ~Quiet /\ Fails /\ proc' = "rushed"
  /\ win' = "none" /\ surface' = FALSE
  /\ RestoreDisplay /\ routed' = FALSE
  /\ focus' = IF focus = "reading" THEN "none" ELSE focus
  /\ UNCHANGED <<seen, recent, inflight, checking, forced, engineVars, outside>>

(* SIGSEGV, SIGABRT or a kill: nothing is restored.                        *)
Die ==
  /\ proc \in {"running", "closing"} /\ Fails
  /\ proc' = "died" /\ win' = "none" /\ surface' = FALSE
  /\ focus' = IF focus = "reading" THEN "none" ELSE focus
  /\ UNCHANGED <<seen, recent, routed, inflight, checking, forced, engineVars,
                 ctx, layout, outside>>

-----------------------------------------------------------------------------
(* The display manager, the native navigation, and the HMI.                *)

Manage ==
  /\ win = "fresh" /\ win' = "managed"
  /\ UNCHANGED <<proc, surface, seen, recent, dmdtVars, engineVars, ctx,
                 layout, trouble, outside>>

(* The navigation registers a window of its own for displayable 20, or the *)
(* screen server invalidates ours.                                         *)
LoseWindow ==
  /\ Running /\ win \in {"fresh", "managed", "disowned"} /\ Fails
  /\ win' \in {"disowned", "dead"}
  /\ UNCHANGED <<proc, surface, seen, recent, dmdtVars, engineVars, ctx,
                 layout, outside>>

Drift(c) ==
  /\ Running /\ drifts < MaxDrifts /\ c # ctx
  /\ ctx' = c /\ drifts' = drifts + 1
  /\ UNCHANGED <<proc, windowVars, dmdtVars, engineVars, layout, trouble, host,
                 strings, shows>>

(* activatePreparedCustomRenderer(): preload, switch, start.               *)
ShowBegin ==
  /\ Running /\ host = "hidden" /\ shows < MaxShows
  /\ host' = "exposing" /\ shows' = shows + 1
  /\ pipe' = Append(pipe, "PRELOAD")
  /\ UNCHANGED <<proc, windowVars, dmdtVars, active, preload, dirty, ctx, layout, trouble,
                 strings, drifts>>

ShowStart ==
  /\ Running /\ host = "exposing" /\ preload /\ ~dirty
  /\ host' = "shown" /\ ctx' = Map
  /\ pipe' = Append(pipe, "START")
  /\ UNCHANGED <<proc, windowVars, dmdtVars, active, preload, dirty, layout, trouble,
                 strings, drifts, shows>>

Update ==
  /\ Running /\ host = "shown" /\ pipe = <<>> /\ shows < MaxShows
  /\ pipe' = <<"MANEUVER">> /\ shows' = shows + 1
  /\ UNCHANGED <<proc, windowVars, dmdtVars, active, preload, dirty, ctx, layout, trouble,
                 host, strings, drifts>>

(* hideCustomRendererForCruise(): HIDE, then the neutral context.          *)
HideBegin ==
  /\ Running /\ host = "shown"
  /\ host' = "hiding" /\ pipe' = Append(pipe, "HIDE")
  /\ UNCHANGED <<proc, windowVars, dmdtVars, active, preload, dirty, ctx, layout, trouble,
                 strings, drifts, shows>>

HideEnd ==
  /\ host = "hiding" /\ host' = "hidden" /\ ctx' = Neutral
  /\ UNCHANGED <<proc, windowVars, dmdtVars, engineVars, layout, trouble,
                 strings, drifts, shows>>

-----------------------------------------------------------------------------
Loop == ReadCmd \/ Draw \/ CheckAndRecoverWindow \/ EnsureFocus
Checks == FocusForce \/ \E lines \in Listings(ctx) : FocusRead(lines)
Others == Manage \/ LoseWindow \/ \E c \in {Map, Other} : Drift(c)
Hmi == ShowBegin \/ ShowStart \/ Update \/ HideBegin \/ HideEnd

Next ==
  \/ PlatformInit \/ Loop \/ LeaveLoop \/ Shutdown \/ Die
  \/ AsyncDone \/ Checks \/ RecreateAgain \/ ForceAgain
  \/ Others \/ Hmi

Spec == Init /\ [][Next]_vars

(***************************************************************************)
(* The loop turns, threads that were started end, time passes, and the     *)
(* display manager takes a window that is registered.  An animation ends,   *)
(* and a preload that was drawn is started.                                *)
(***************************************************************************)
Fairness ==
  /\ WF_vars(ReadCmd) /\ WF_vars(Draw /\ ~dirty')
  /\ WF_vars(CheckAndRecoverWindow) /\ WF_vars(EnsureFocus)
  /\ WF_vars(AsyncDone) /\ WF_vars(Checks) /\ WF_vars(RecreateAgain)
  /\ WF_vars(ForceAgain)
  /\ WF_vars(Manage) /\ WF_vars(Shutdown) /\ WF_vars(ShowStart)

FairSpec == Spec /\ Fairness

-----------------------------------------------------------------------------
(***************************************************************************)
(* A process that has shut down leaves nothing behind: no window, the      *)
(* context as it was composed, the neutral context shown, and no dmdt of   *)
(* its own that would switch or compose it later (platform_qnx.c:903-952). *)
(***************************************************************************)
LeavesNothing ==
  proc = "left" =>
    /\ win = "none" /\ ctx = Neutral /\ layout = "stock"
    /\ inflight = 0 /\ focus = "none"

(***************************************************************************)
(* While the renderer has a surface, context 74 does not lack the native   *)
(* layers unless a command that puts them back is on its way, whatever     *)
(* fails while it is started (platform_qnx.c:125-150, 320-341).            *)
(***************************************************************************)
NoBareContext ==
  Running /\ layout = "stripped" => inflight > 0 \/ ~surface

(***************************************************************************)
(* A window that the display manager shows and that has its surface is     *)
(* never torn down by the health check or a swap -- also on a firmware     *)
(* that does not fill in MANAGER_STRING (platform_qnx.c:420-427).          *)
(***************************************************************************)
HealthyIsKept ==
  [][ Running /\ proc' = "running" /\ win = "managed" /\ surface
        => win' \in {"managed", "disowned", "dead"} ]_vars

(***************************************************************************)
(* A window lost -- destroyed, taken over after the handshake, or not made *)
(* again at the last try -- is regained (platform_qnx.c:152-158, 429-514). *)
(***************************************************************************)
Lost == win \in {"none", "dead"} \/ (win = "disowned" /\ seen)

LostIsRegained == Running /\ Lost ~> win \in {"fresh", "managed"} \/ ~Running

(***************************************************************************)
(* While the renderer is exposed, its context comes back after another has *)
(* taken its place, whatever form of listing dmdt prints, over a check     *)
(* that cannot be started and forces that are held back                    *)
(* (platform_qnx.c:237-263, 634-675, main.c:757-775).                      *)
(***************************************************************************)
FocusRegained ==
  Running /\ active /\ ctx # Map ~> ctx = Map \/ ~active \/ ~Running

(* The renderer regains both, its window and the cluster's context         *)
(* (platform_qnx.c:429-514, 646-675).                                      *)
ScreenRegained == LostIsRegained /\ FocusRegained
=============================================================================
