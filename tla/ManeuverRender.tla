--------------------------- MODULE ManeuverRender ---------------------------
(***************************************************************************)
(* The process that draws maneuvers: the engine of c_render/main.c, the    *)
(* slide animation of maneuver.c it waits for, and the client of server.c. *)
(*                                                                         *)
(* The process has one thread.  Each turn of its loop reads what has come, *)
(* applies most commands as it reads them but of the maneuvers only the    *)
(* last, advances the engine, draws, and announces the frame: a turn is    *)
(* some ReadCmd steps and one EndTurn.  Geometry, perspective and the      *)
(* length of animations are left out: an animation goes on for as many     *)
(* turns as it likes.                                                      *)
(***************************************************************************)
EXTENDS Integers, Sequences

CONSTANTS
  Maneuvers, NoManeuver,
  Bars, Off,             \* what the bar graph can show; Off: nothing
  Follow,                \* the straight arrow shown between maneuvers
  MaxPipe,               \* bound: commands on the way
  MaxTrouble             \* bound: deaths and timeouts

ASSUME RenderAssumption ==
  /\ NoManeuver \notin Maneuvers /\ Follow \in Maneuvers
  /\ Off \in Bars
  /\ MaxPipe \in Nat \ {0} /\ MaxTrouble \in Nat

VARIABLES
  proc,     \* "none", "starting", "connected" (initialising) or "drawing"
  eng,      \* the engine and the overlay, see NewEngine
  got,      \* the last maneuver command of this turn, in a set
  pipe,     \* commands on the way to the process
  events,   \* events on the way from it
  conn,     \* Java's end: "none", "live", "dead" (the process is gone), or
            \* "noted" (dead, and the death listener is at work)
  rendererReady, frameReady,
  trouble

procVars == <<proc, eng, got, events>>
linkVars == <<pipe, conn, rendererReady, frameReady>>
renderVars == <<procVars, linkVars, trouble>>

Command(c, m, b) == [cmd |-> c, man |-> m, bar |-> b]
Commands ==
  [cmd : {"MANEUVER", "PRELOAD"}, man : Maneuvers, bar : Bars]
    \cup [cmd : {"START", "HIDE"}, man : {NoManeuver}, bar : {Off}]
    \cup [cmd : {"BARGRAPH"}, man : {NoManeuver}, bar : Bars]

NewEngine ==
  [cur |-> NoManeuver, next |-> NoManeuver, pend |-> NoManeuver,
   phase |-> "IDLE",
   anim |-> "none",        \* g_route_animating with its target: "in", "push"
   settle |-> FALSE,       \* g_cam_settle_active
   preload |-> FALSE,      \* g_preload_pending
   frame |-> FALSE,        \* g_frame_ready_pending
   announced |-> FALSE,    \* announced_first_frame
   lit |-> FALSE,          \* fading in or opaque
   bar |-> Off,
   late |-> FALSE, lateBar |-> Off]   \* g_bargraph_deferred and its value

NoProcess == proc = "none"

RenderInit ==
  /\ proc = "none" /\ eng = NewEngine /\ got = {}
  /\ pipe = <<>> /\ events = <<>> /\ conn = "none"
  /\ rendererReady = FALSE /\ frameReady = FALSE
  /\ trouble = 0

-----------------------------------------------------------------------------
(* The engine.                                                             *)

StartAnim(e) == [e EXCEPT !.anim = "in",   !.settle = FALSE]
StartPush(e) == [e EXCEPT !.anim = "push", !.settle = FALSE]
SetSlide(e)  == [e EXCEPT !.anim = "none", !.settle = FALSE]

IsPushing(e)   == e.anim = "push"
IsAnimating(e) == e.anim # "none" \/ e.settle

ColdStart(e, m) ==
  [StartAnim(e) EXCEPT !.cur = m, !.next = NoManeuver,
                       !.phase = "SLIDING_IN", !.lit = TRUE]
Enqueue(e, m) == [e EXCEPT !.pend = m]
Push(e, m) ==
  [StartPush(e) EXCEPT !.next = m, !.phase = "PUSHING"]

ApplyManeuver(e, m) ==
  CASE e.cur = NoManeuver -> ColdStart(e, m)
    [] e.cur # NoManeuver /\ e.phase # "IDLE" -> Enqueue(e, m)
    [] OTHER -> [Push(e, m) EXCEPT !.bar = Off]

\* Mutant: what waited for the last transition still waits.
PreloadManeuver_KeepsQueued(e, m) ==
  [SetSlide(e) EXCEPT !.cur = m, !.next = NoManeuver, !.phase = "IDLE",
     !.lit = FALSE, !.preload = TRUE, !.frame = TRUE]

PreloadManeuver(e, m) ==
  [SetSlide(e) EXCEPT !.cur = m, !.next = NoManeuver, !.pend = NoManeuver,
     !.phase = "IDLE", !.lit = FALSE, !.preload = TRUE, !.frame = TRUE]

SettleBar(e) ==
  IF e.late THEN [e EXCEPT !.bar = e.lateBar, !.late = FALSE] ELSE e

StartPreloaded(e) ==
  IF e.preload
  THEN SettleBar([StartAnim(e) EXCEPT !.preload = FALSE,
                    !.phase = "SLIDING_IN", !.lit = TRUE])
  ELSE e

Promote(e) == Push([e EXCEPT !.pend = NoManeuver], e.pend)

\* maneuver_commit_pushed_state()
Commit(e) ==
  [e EXCEPT !.cur = IF e.next # NoManeuver THEN e.next ELSE e.cur,
            !.next = NoManeuver, !.anim = "none", !.settle = TRUE]

\* Mutant: what came during the last of a transition is not looked for.
Tick_ForgetsQueued(e) ==
  CASE e.phase = "PUSHING" /\ ~IsPushing(e) ->
         LET c == Commit(e)
         IN IF c.pend # NoManeuver THEN Promote(c)
            ELSE [c EXCEPT !.phase = "SLIDING_IN"]
    [] e.phase = "SLIDING_IN" /\ ~IsAnimating(e) ->
         SettleBar([e EXCEPT !.phase = "IDLE"])
    [] OTHER -> e

Tick(e) ==
  CASE e.phase = "PUSHING" /\ ~IsPushing(e) ->
         LET c == Commit(e)
         IN IF c.pend # NoManeuver THEN Promote(c)
            ELSE [c EXCEPT !.phase = "SLIDING_IN"]
    [] e.phase = "SLIDING_IN" /\ ~IsAnimating(e) ->
         IF e.pend # NoManeuver THEN Promote(e)
         ELSE SettleBar([e EXCEPT !.phase = "IDLE"])
    [] OTHER -> e

-----------------------------------------------------------------------------
(* One turn of the loop.                                                   *)

AtOnce(e, c) ==
  CASE c.cmd = "START"    -> StartPreloaded(e)
    [] c.cmd = "BARGRAPH" -> [e EXCEPT !.bar = c.bar]
    [] OTHER -> e

IsManeuver(c) == c.cmd \in {"MANEUVER", "PRELOAD"}

\* Mutant: a preload changes the overlay only if it brings one.
NoteBar_FlagOnly(e, c) ==
  IF c.bar # Off THEN [e EXCEPT !.late = TRUE, !.lateBar = c.bar] ELSE e

(* A maneuver without the flag leaves what was noted before.               *)
NoteBar(e, c) ==
  IF c.cmd = "PRELOAD" \/ c.bar # Off
  THEN [e EXCEPT !.late = TRUE, !.lateBar = c.bar] ELSE e

ApplyLatest(e, c) ==
  IF c.cmd = "PRELOAD" THEN PreloadManeuver(NoteBar(e, c), c.man)
  ELSE ApplyManeuver(NoteBar(e, c), c.man)

Announces(e) == e.cur # NoManeuver /\ (~e.announced \/ e.frame)

(* Drawing a frame moves the slide; here it may end with the frame.        *)
Drawn(e, ends) ==
  LET a == IF ends THEN [e EXCEPT !.anim = "none", !.settle = FALSE] ELSE e
  IN IF Announces(e) THEN [a EXCEPT !.announced = TRUE, !.frame = FALSE] ELSE a

ReadCmd ==
  /\ proc = "drawing" /\ conn = "live" /\ pipe # <<>>
  /\ LET c == Head(pipe)
     IN /\ eng' = AtOnce(eng, c)
        /\ got' = IF IsManeuver(c) THEN {c} ELSE got
  /\ pipe' = Tail(pipe)
  /\ UNCHANGED <<proc, events, conn, rendererReady, frameReady, trouble>>

EndTurn(ends) ==
  /\ proc = "drawing" /\ conn = "live"
  /\ \E e1 \in IF got = {} THEN {eng} ELSE {ApplyLatest(eng, c) : c \in got} :
     \E e2 \in {Tick(e1)} :
       /\ eng' = Drawn(e2, ends)
       /\ events' = IF Announces(e2) THEN Append(events, "FRAME_READY")
                    ELSE events
  /\ got' = {}
  /\ UNCHANGED <<proc, pipe, conn, rendererReady, frameReady, trouble>>

-----------------------------------------------------------------------------
(* The process and its connection.                                         *)

(* cr_server_init() connects, and Java's accept thread takes the new       *)
(* connection in place of any other.                                       *)
Connect ==
  /\ proc = "starting"
  /\ proc' = "connected" /\ conn' = "live"
  /\ pipe' = <<>> /\ events' = <<>>
  /\ rendererReady' = FALSE /\ frameReady' = FALSE
  /\ UNCHANGED <<eng, got, trouble>>

(* Window, shaders and textures are there: cr_server_mark_ready().         *)
MarkReady ==
  /\ proc = "connected" /\ conn = "live"
  /\ proc' = "drawing" /\ events' = Append(events, "READY")
  /\ UNCHANGED <<eng, got, linkVars, trouble>>

(* The process ends by itself; Java's socket is none the wiser yet.        *)
Die ==
  /\ proc # "none" /\ trouble < MaxTrouble
  /\ proc' = "none" /\ eng' = NewEngine /\ got' = {}
  /\ conn' = IF conn = "live" THEN "dead" ELSE conn
  /\ pipe' = <<>> /\ trouble' = trouble + 1
  /\ UNCHANGED <<events, rendererReady, frameReady>>

(* The reader thread takes an event; after the process has died it still   *)
(* takes those that were on the way.                                       *)
ReadEvent ==
  /\ events # <<>> /\ conn \in {"live", "dead"}
  /\ events' = Tail(events)
  /\ rendererReady' = TRUE
  /\ frameReady' = (frameReady \/ Head(events) = "FRAME_READY")
  /\ UNCHANGED <<proc, eng, got, pipe, conn, trouble>>
=============================================================================
