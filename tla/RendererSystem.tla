--------------------------- MODULE RendererSystem ---------------------------
(***************************************************************************)
(* The HMI and the renderer over their socket: from a state of the route   *)
(* guidance to what the cluster shows.                                     *)
(***************************************************************************)
EXTENDS RendererFeed

Init == RenderInit /\ FeedInit

Renderer ==
  Connect \/ MarkReady \/ ReadCmd \/ (\E ends \in BOOLEAN : EndTurn(ends)) \/ Die
Update ==
  \/ Prepare \/ BeginPreload \/ SendPreloadFails \/ SendStart \/ Expose \/ Hide
  \/ \E b \in BarsOf(want) : SendPreload(b) \/ PushManeuver(b) \/ PushBar(b)
  \/ PushFails \/ Respawn
Waits == BecomePrepared \/ ReadyTimeout \/ Abort
Reader == HandleRendererDied \/ IgnoreDeath \/ CloseDead

Next ==
  \/ \E m \in Maneuvers \cup {NoManeuver} : NewState(m)
  \/ Renderer /\ UNCHANGED feedVars
  \/ ReadEvent /\ UNCHANGED feedVars
  \/ Update \/ Waits \/ Reader

Spec == Init /\ [][Next]_vars

(* What each thread does when nothing new happens.  Bars are sent only for *)
(* new distances, and a wait ends early only by trouble.                   *)
Turn == Connect \/ MarkReady \/ EndTurn(TRUE)
BusThread ==
  \/ Prepare \/ BeginPreload \/ SendPreloadFails \/ SendStart \/ Expose \/ Hide
  \/ \E b \in BarsOf(want) : SendPreload(b) \/ PushManeuver(b)
  \/ PushFails
WaitEnds == Waits /\ UNCHANGED trouble

(***************************************************************************)
(* The renderer's loop turns and reads all there is, its animations end    *)
(* (maneuver.c:2094-2107 moves them by a least step), a wait in vain times *)
(* out, and updates repeat -- the distance changes while the car drives -- *)
(* so that a send fails again after the cooldown.                          *)
(***************************************************************************)
Fairness ==
  /\ WF_vars(Turn /\ UNCHANGED feedVars)
  /\ WF_vars(ReadCmd /\ UNCHANGED feedVars)
  /\ WF_vars(ReadEvent /\ UNCHANGED feedVars)
  /\ WF_vars(WaitEnds)
  /\ WF_vars(Reader)
  /\ WF_vars(BusThread)
  /\ SF_vars(Respawn)

FairSpec == Spec /\ Fairness

-----------------------------------------------------------------------------
(***************************************************************************)
(* When the cluster is switched to the renderer's window, the window holds *)
(* the frame that was preloaded, still transparent; and in a window that   *)
(* is shown nothing lights up before Java's START: no picture of an        *)
(* earlier route (BAPBridge.java:1912-1926, main.c:87-90).                 *)
(***************************************************************************)
NothingShownEarly ==
  proc = "drawing" =>
    /\ host = "exposed" => eng.preload /\ eng.cur = lastCr
    /\ ctx = 74 /\ eng.lit => host = "started"

(***************************************************************************)
(* No maneuver is left behind in the engine: what waits as next is being   *)
(* pushed in, and at rest nothing is queued (main.c:217-286).              *)
(***************************************************************************)
NothingStranded ==
  /\ eng.next # NoManeuver => eng.phase = "PUSHING"
  /\ eng.pend # NoManeuver => eng.phase # "IDLE"

(***************************************************************************)
(* A preload is a complete snapshot: once it is started, and until a bar   *)
(* or a maneuver is sent, the bar shown is its own, whatever was on or     *)
(* noted before it was hidden (main.c:546-558).                            *)
(***************************************************************************)
SnapshotComplete ==
  host = "started" /\ proc = "drawing" /\ conn = "live" /\ pipe = <<>>
    => \A b \in snap : eng.bar = b

(* Neither a frame nor a bar of earlier is seen (main.c:87-90, 546-558).   *)
NothingStale == NothingShownEarly /\ SnapshotComplete

(***************************************************************************)
(* What the route guidance asks for is what the cluster shows in the end,  *)
(* over maneuvers that overtake each other, deaths of the renderer, READY  *)
(* of a dead one and waits in vain.  When nothing is to be shown, nothing  *)
(* is, though the window of a renderer launched after a death may stay in  *)
(* the context, dark: only a started renderer is hidden                    *)
(* (BAPBridge.java:1147-1153, 2101-2125).                                  *)
(***************************************************************************)
Shows(m) ==
  /\ ctx = 74 /\ host = "started" /\ proc = "drawing"
  /\ eng.cur = m /\ eng.lit /\ eng.phase = "IDLE"

Dark == ctx = 72 \/ ~eng.lit

ShownInTheEnd ==
  /\ \A m \in Maneuvers : want = m ~> Shows(m) \/ want # m
  /\ want = NoManeuver ~> Dark \/ want # NoManeuver
=============================================================================
