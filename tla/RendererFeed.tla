---------------------------- MODULE RendererFeed ----------------------------
(***************************************************************************)
(* The HMI's side of the renderer: what BAPBridge.update() asks of it, its *)
(* launch, the two steps of its exposure, and what is done when it dies,   *)
(* over the socket of RendererServer.                                      *)
(*                                                                         *)
(* From its launch to READY, and from the preload to the start, the thread *)
(* that is at it holds the bridge's lock, so "host" has one value for all  *)
(* threads.  The thread of the bus calls update(); the reader of a dead    *)
(* connection calls handleRendererDied().                                  *)
(***************************************************************************)
EXTENDS ManeuverRender

CONSTANTS
  Tolerated,         \* sends that may fail in a row: CR_RESPAWN_FAIL_THRESHOLD
  MaxChanges         \* bound: changes of what is to be shown

VARIABLES
  host,     \* "off", "launching", "prepared", "preloading", "waiting",
            \* "exposed" (START is next), "started"
  ctx,      \* the cluster's context: 74 shows the renderer's window
  want,     \* what the last update is to show, NoManeuver: nothing
  lastCr,   \* what was last sent and accepted
  fails,    \* crConsecutiveSendFailures
  snap,     \* history: the bar of the last preload while none was sent since,
            \* in a set, or the empty set
  changes

feedVars == <<host, ctx, want, lastCr, fails, snap, changes>>
vars == <<renderVars, feedVars>>

FeedInit ==
  /\ host = "off" /\ ctx = 72 /\ want = NoManeuver /\ lastCr = NoManeuver
  /\ fails = 0 /\ snap = {} /\ changes = 0

(* No thread holds the bridge's lock.                                      *)
AtRest == host \in {"off", "prepared", "started"}

(* RouteGuidance hands in a state in which something else is to be shown.  *)
NewState(m) ==
  /\ AtRest /\ changes < MaxChanges /\ m # want
  /\ want' = m /\ changes' = changes + 1
  /\ UNCHANGED <<host, ctx, lastCr, fails, snap, renderVars>>

-----------------------------------------------------------------------------
(* The socket.                                                             *)

(* A packet to a process that has gone may still be taken by the socket.   *)
SendOk(cmds) ==
  /\ conn # "none"
  /\ Len(pipe) + Len(cmds) <= MaxPipe
  /\ pipe' = IF conn = "live" THEN pipe \o cmds ELSE pipe
  /\ UNCHANGED conn

SendFails ==
  /\ conn # "live"
  /\ conn' = "none" /\ pipe' = <<>>

NoFlags == rendererReady' = FALSE /\ frameReady' = FALSE

(* A failed send closes the connection, and readiness ends with it.        *)
SendFailsFlags == SendFails /\ NoFlags /\ UNCHANGED procVars

-----------------------------------------------------------------------------
(* Launch.                                                                 *)

\* Mutant: what was last sent to the process before is not forgotten.
Forgotten_Kept == lastCr

Forgotten == NoManeuver

(* startCustomRenderer(): whatever runs is killed, a process is launched.  *)
Launched ==
  /\ host' = "launching"
  /\ proc' = "starting" /\ eng' = NewEngine /\ got' = {}
  /\ events' = <<>> /\ pipe' = <<>>

Prepare ==
  /\ host = "off" /\ want # NoManeuver
  /\ Launched
  /\ UNCHANGED <<ctx, want, lastCr, fails, snap, changes,
                 conn, rendererReady, frameReady, trouble>>

BecomePrepared ==
  /\ host = "launching" /\ rendererReady
  /\ host' = "prepared" /\ lastCr' = Forgotten
  /\ UNCHANGED <<ctx, want, fails, snap, changes, renderVars>>

(* The process is killed and the connection given up.                      *)
Killed ==
  /\ proc' = "none" /\ eng' = NewEngine /\ got' = {}
  /\ events' = <<>> /\ pipe' = <<>>
  /\ conn' = "none" /\ NoFlags

(* The wait ends without an answer: because there will be none, or         *)
(* although there would have been one.                                     *)
InVain(nothing) ==
  \/ nothing /\ UNCHANGED trouble
  \/ trouble < MaxTrouble /\ trouble' = trouble + 1

NotReady ==
  /\ host = "launching" /\ ~rendererReady
  /\ Killed /\ host' = "off"
  /\ UNCHANGED <<ctx, want, lastCr, fails, snap, changes>>

ReadyTimeout == NotReady /\ InVain(proc = "none")

-----------------------------------------------------------------------------
(* activatePreparedCustomRenderer(): under the lock from the preload to    *)
(* the start.                                                              *)

(* noteRendererSendResult(FALSE): after too many failures in a row the     *)
(* renderer is launched anew, but not while the cooldown lasts.            *)
NoteFail == fails' = IF fails + 1 < Tolerated THEN fails + 1 ELSE fails

(* sendPreloadManeuver() takes the flag down before it writes, without the *)
(* lock under which the reader raises it.                                  *)
BeginPreload ==
  /\ host = "prepared" /\ want # NoManeuver /\ want # lastCr
  /\ host' = "preloading" /\ frameReady' = FALSE
  /\ UNCHANGED <<ctx, want, lastCr, fails, snap, changes,
                 procVars, pipe, conn, rendererReady, trouble>>

BarsOf(m) == IF m = Follow THEN {Off} ELSE Bars

SendPreload(b) ==
  /\ host = "preloading"
  /\ SendOk(<<Command("PRELOAD", want, b)>>)
  /\ host' = "waiting" /\ lastCr' = want /\ fails' = 0 /\ snap' = {b}
  /\ UNCHANGED <<ctx, want, changes, procVars, rendererReady, frameReady, trouble>>

SendPreloadFails ==
  /\ host = "preloading" /\ SendFailsFlags
  /\ host' = "prepared" /\ NoteFail
  /\ UNCHANGED <<ctx, want, lastCr, snap, changes, trouble>>

\* Mutant: the pipeline is switched on without waiting for the frame.
FrameSeen_NotAwaited == TRUE

FrameSeen == frameReady

Expose ==
  /\ host = "waiting" /\ FrameSeen
  /\ host' = "exposed" /\ ctx' = 74
  /\ UNCHANGED <<want, lastCr, fails, snap, changes, renderVars>>

SendStart ==
  /\ host = "exposed"
  /\ SendOk(<<Command("START", NoManeuver, Off)>>)
  /\ host' = "started"
  /\ UNCHANGED <<ctx, want, lastCr, fails, snap, changes,
                 procVars, rendererReady, frameReady, trouble>>

(* No frame of the preload is drawn, or will be, or has been announced.    *)
NoFrameComes ==
  /\ ~frameReady
  /\ conn # "live" \/ (~eng.frame /\ got = {} /\ pipe = <<>> /\ events = <<>>)

(* abortPreparedCustomRenderer(): no frame in time, the pipeline cannot be *)
(* switched on, or START is not sent.                                      *)
Abort ==
  /\ \/ host = "waiting" /\ InVain(NoFrameComes)
     \/ host = "exposed" /\ conn # "live" /\ UNCHANGED trouble
  /\ Killed
  /\ host' = "off" /\ ctx' = 72 /\ lastCr' = Forgotten
  /\ UNCHANGED <<want, fails, snap, changes>>

-----------------------------------------------------------------------------
(* update() while the renderer is shown.                                   *)

(* A maneuver goes with its bar; the straight arrow is followed by an      *)
(* empty bar of its own (BAPBridge.java:1172-1174).                        *)
PushCommands(m, b) ==
  IF m = Follow
  THEN <<Command("MANEUVER", m, Off), Command("BARGRAPH", NoManeuver, Off)>>
  ELSE <<Command("MANEUVER", m, b)>>

PushManeuver(b) ==
  /\ host = "started" /\ want # NoManeuver /\ want # lastCr
  /\ SendOk(PushCommands(want, b))
  /\ lastCr' = want /\ fails' = 0 /\ snap' = {}
  /\ UNCHANGED <<host, ctx, want, changes, procVars, rendererReady, frameReady, trouble>>

(* A new distance, or the blink thread.                                    *)
PushBar(b) ==
  /\ host = "started" /\ want # NoManeuver /\ want = lastCr
  /\ SendOk(<<Command("BARGRAPH", NoManeuver, b)>>)
  /\ fails' = 0 /\ snap' = {}
  /\ UNCHANGED <<host, ctx, want, lastCr, changes,
                 procVars, rendererReady, frameReady, trouble>>

PushFails ==
  /\ host = "started" /\ want # NoManeuver
  /\ SendFailsFlags /\ NoteFail
  /\ UNCHANGED <<host, ctx, want, lastCr, snap, changes, trouble>>

(* hideCustomRendererForCruise(): a failed send is only logged.            *)
Hide ==
  /\ host = "started" /\ want = NoManeuver
  /\ \/ SendOk(<<Command("HIDE", NoManeuver, Off)>>)
        /\ UNCHANGED <<procVars, rendererReady, frameReady>>
     \/ SendFailsFlags
  /\ host' = "prepared" /\ ctx' = 72 /\ lastCr' = Forgotten
  /\ UNCHANGED <<want, fails, snap, changes, trouble>>

-----------------------------------------------------------------------------
(* Death.                                                                  *)

(* The reader comes to the end of a dead connection and calls the listener *)
(* before it closes it: READY of the dead process still stands.            *)
HandleRendererDied ==
  /\ conn = "dead" /\ host \in {"prepared", "started"}
  /\ events = <<>>
  /\ Launched /\ conn' = "noted"
  /\ UNCHANGED <<ctx, want, lastCr, fails, snap, changes,
                 rendererReady, frameReady, trouble>>

(* During a launch, within the cooldown, or when the thread of the bus has *)
(* set "started" again in between, the listener only kills.                *)
IgnoreDeath ==
  /\ conn = "dead" /\ events = <<>>
  /\ host \in {"launching", "prepared", "started"}
  /\ InVain(host = "launching")
  /\ Killed
  /\ UNCHANGED feedVars

(* readerLoop()'s finally, unless a new connection has taken its place.    *)
CloseDead ==
  /\ conn = "noted" /\ host # "launching"
  /\ conn' = "none" /\ pipe' = <<>> /\ NoFlags
  /\ UNCHANGED <<procVars, trouble, feedVars>>

(* noteRendererSendResult(): too many sends have failed in a row.          *)
Respawn ==
  /\ host \in {"preloading", "started"} /\ want # NoManeuver
  /\ conn # "live" /\ fails + 1 = Tolerated
  /\ Launched /\ conn' = "none" /\ NoFlags
  /\ fails' = 0
  /\ UNCHANGED <<ctx, want, lastCr, snap, changes, trouble>>
=============================================================================
