---------------------------- MODULE ManeuverScene ----------------------------
(***************************************************************************)
(* What the engine of ManeuverRender leaves on the screen: the drawing     *)
(* half of a turn of c_render/main.c's loop with maneuver_draw().          *)
(*                                                                         *)
(* A frame is drawn only when something asks for one, and the roads are    *)
(* painted into their texture only when something has struck it: else the  *)
(* texture is shown again as it is.  A frame of a transition paints the    *)
(* texture twice, with the roads of either maneuver, the next ones turned  *)
(* to where the route leads; the route is then that of both.               *)
(*                                                                         *)
(* Slide, fades and settling go on for as many frames as they like.  Left  *)
(* out: the perspective, the frames of the flag, the morph of the tip, a   *)
(* bar that blinks, screenshots and the debug grid.                        *)
(***************************************************************************)
EXTENDS Integers, Sequences

CONSTANTS
  Maneuvers, NoManeuver, Bars, Off, Follow,   \* as in ManeuverRender
  Arrived        \* the maneuvers with a flag

ASSUME SceneAssumption == NoManeuver \notin Maneuvers

VARIABLES
  eng,      \* the engine, see ManeuverRender
  got,      \* the last maneuver command of this turn, in a set
  scene     \* the drawing, see NewScene

sceneVars == <<eng, got, scene>>

Engine == INSTANCE ManeuverRender WITH
  MaxPipe <- 1, MaxTrouble <- 0, proc <- "drawing", pipe <- << >>,
  events <- << >>, conn <- "live", rendererReady <- TRUE, frameReady <- TRUE,
  trouble <- 0

Plain(m) == [of |-> m, moved |-> FALSE]
Moved(m) == [of |-> m, moved |-> TRUE]

NewScreen ==
  [roads |-> << >>, route |-> << >>, fade |-> "dark", alpha |-> "none",
   bar |-> Off, turned |-> FALSE, settling |-> FALSE]

NewScene ==
  [struck |-> TRUE,        \* g_masks_dirty
   mark   |-> TRUE,        \* g_engine.dirty
   due    |-> TRUE,        \* the loop's dirty
   road   |-> << >>,       \* what the texture of the roads holds
   path   |-> << >>,       \* g_route_path
   fade   |-> "dark",      \* g_fade_alpha: "dark", "rising" or "full"
   alpha  |-> "none",      \* g_bargraph_alpha: "none", "part" or "full"
   light  |-> FALSE,       \* g_light_settle_active
   flag   |-> FALSE,       \* g_flag_active
   screen |-> NewScreen,   \* the last frame
   over   |-> FALSE]       \* the last step was the end of a turn

SceneInit == eng = Engine!NewEngine /\ got = {} /\ scene = NewScene

-----------------------------------------------------------------------------
(* What changes the engine strikes the texture and asks for a frame.       *)

Strike(s) == [s EXCEPT !.struck = TRUE, !.mark = TRUE]

\* maneuver_start_anim(), maneuver_start_push() and maneuver_set_slide()
Begin(s, fade) == [Strike(s) EXCEPT !.light = FALSE, !.fade = fade]

AtOnce(e, s, c) ==
  CASE c.cmd = "START" /\ e.preload -> Begin(s, "rising")
    [] c.cmd = "BARGRAPH" -> [s EXCEPT !.mark = TRUE]
    [] OTHER -> s

Applied(e, s, c) ==
  CASE c.cmd = "PRELOAD" -> Begin(s, "dark")
    [] c.cmd = "MANEUVER" /\ e.cur = NoManeuver -> Begin(s, "rising")
    [] c.cmd = "MANEUVER" /\ e.cur # NoManeuver /\ e.phase = "IDLE" -> Begin(s, s.fade)
    [] OTHER -> s

\* Mutant: the texture of the transition is kept when it is over.
Ticked_Kept(e, s) ==
  CASE e.phase = "PUSHING" /\ ~Engine!IsPushing(e) ->
         IF e.pend # NoManeuver THEN {Begin(s, s.fade)}
         ELSE {[s EXCEPT !.mark = TRUE, !.light = turned] : turned \in BOOLEAN}
    [] e.phase = "SLIDING_IN" /\ ~Engine!IsAnimating(e) /\ e.pend # NoManeuver ->
         {Begin(s, s.fade)}
    [] e.phase = "SLIDING_IN" /\ ~Engine!IsAnimating(e) /\ e.pend = NoManeuver ->
         {[s EXCEPT !.mark = @ \/ e.late]}
    [] OTHER -> {s}

(* The light stays turned after a transition if the next maneuver was.     *)
Ticked(e, s) ==
  CASE e.phase = "PUSHING" /\ ~Engine!IsPushing(e) ->
         IF e.pend # NoManeuver THEN {Begin(s, s.fade)}
         ELSE {[Strike(s) EXCEPT !.light = turned] : turned \in BOOLEAN}
    [] e.phase = "SLIDING_IN" /\ ~Engine!IsAnimating(e) /\ e.pend # NoManeuver ->
         {Begin(s, s.fade)}
    [] e.phase = "SLIDING_IN" /\ ~Engine!IsAnimating(e) /\ e.pend = NoManeuver ->
         {[s EXCEPT !.mark = @ \/ e.late]}
    [] OTHER -> {s}

-----------------------------------------------------------------------------
(* Drawing.                                                                *)

Combined(e) == e.next # NoManeuver /\ Engine!IsPushing(e)

(* maneuver_draw().  A frame of a transition strikes the texture itself,   *)
(* and the route of both is kept while the next roads are painted.         *)
Painted(e, s) ==
  CASE e.cur = NoManeuver ->
         [s EXCEPT !.screen.roads = << >>, !.screen.route = << >>]
    [] Combined(e) ->
         [s EXCEPT !.struck = FALSE, !.road = <<Moved(e.next)>>,
                   !.path = <<e.cur, e.next>>,
                   !.screen.roads = <<Plain(e.cur), Moved(e.next)>>,
                   !.screen.route = <<e.cur, e.next>>]
    [] e.cur # NoManeuver /\ ~Combined(e) /\ s.struck ->
         [s EXCEPT !.struck = FALSE, !.road = <<Plain(e.cur)>>,
                   !.path = <<e.cur>>,
                   !.screen.roads = <<Plain(e.cur)>>, !.screen.route = <<e.cur>>]
    [] OTHER -> [s EXCEPT !.screen.roads = s.road, !.screen.route = s.path]

(* maneuver_prepare_frame(): the light comes back to rest outside of a     *)
(* transition.                                                             *)
Lit(e, s, straight) ==
  IF e.cur # NoManeuver /\ ~Combined(e) /\ straight
  THEN [s EXCEPT !.light = FALSE] ELSE s

\* Mutant: the light alone asks for no frame.
NeedsRedraw_NoLight(e, s) == Engine!IsAnimating(e) \/ s.flag

\* maneuver_needs_redraw()
NeedsRedraw(e, s) == Engine!IsAnimating(e) \/ s.flag \/ s.light

AlphaNext(alpha, on) ==
  CASE alpha = "none" -> {IF on THEN "part" ELSE "none"}
    [] alpha = "part" -> {"part", IF on THEN "full" ELSE "none"}
    [] alpha = "full" -> {IF on THEN "full" ELSE "part"}

Frame(e, s, ends, straight) ==
  LET e1 == Engine!Drawn(e, ends)
      s1 == [Painted(e, Lit(e, s, straight)) EXCEPT
               !.flag = IF e.cur = NoManeuver THEN @ ELSE {e.cur, e.next} \cap Arrived # {},
               !.screen.fade = s.fade, !.screen.alpha = s.alpha, !.screen.bar = e.bar]
  IN [e |-> e1,
      s |-> [s1 EXCEPT
               !.screen.turned = s1.light, !.screen.settling = e1.settle,
               !.due = \/ NeedsRedraw(e1, s1) \/ s1.fade = "rising"
                       \/ s1.alpha = "part"]]

-----------------------------------------------------------------------------
(* One turn of the loop: some commands are read, the last maneuver among   *)
(* them applied, the engine advanced, the fades, and a frame if one is due.*)

Read ==
  \E c \in Engine!Commands :
    /\ eng' = Engine!AtOnce(eng, c)
    /\ got' = IF Engine!IsManeuver(c) THEN {c} ELSE got
    /\ scene' = [AtOnce(eng, scene, c) EXCEPT !.over = FALSE]

(* The window's size changes, or its buffers are made anew.                *)
Resize ==
  /\ got = {}
  /\ scene' = [scene EXCEPT !.struck = TRUE, !.due = TRUE, !.road = << >>, !.over = FALSE]
  /\ UNCHANGED <<eng, got>>

Faded(s, full) ==
  IF s.fade = "rising"
  THEN [s EXCEPT !.fade = IF full THEN "full" ELSE "rising", !.mark = TRUE] ELSE s

Turn ==
  /\ got' = {}
  /\ \E e1 \in IF got = {} THEN {eng} ELSE {Engine!ApplyLatest(eng, c) : c \in got},
        s1 \in IF got = {} THEN {scene} ELSE {Applied(eng, scene, c) : c \in got},
        ends, straight, full \in BOOLEAN :
     \E s2 \in Ticked(e1, s1) :
       LET e2 == Engine!Tick(e1)
           s3 == Faded(s2, full)
       IN \E alpha \in AlphaNext(s3.alpha, e2.bar # Off) :
            LET due == \/ s3.due \/ s3.mark \/ NeedsRedraw(e2, s3)
                       \/ alpha # s3.alpha
                s4 == [s3 EXCEPT !.mark = FALSE, !.alpha = alpha, !.over = TRUE]
                drawn == Frame(e2, s4, ends, straight)
            IN IF due THEN eng' = drawn.e /\ scene' = drawn.s
               ELSE eng' = e2 /\ scene' = s4

SceneNext == Read \/ Resize \/ Turn

SceneSpec == SceneInit /\ [][SceneNext]_sceneVars

-----------------------------------------------------------------------------
(* What is to be seen of the engine's maneuvers.                           *)
Wanted(e) ==
  CASE e.cur = NoManeuver -> << >>
    [] e.cur # NoManeuver /\ e.phase = "PUSHING" -> <<Plain(e.cur), Moved(e.next)>>
    [] e.cur # NoManeuver /\ e.phase # "PUSHING" -> <<Plain(e.cur)>>

WantedRoute(e) ==
  CASE e.cur = NoManeuver -> << >>
    [] e.cur # NoManeuver /\ e.phase = "PUSHING" -> <<e.cur, e.next>>
    [] e.cur # NoManeuver /\ e.phase # "PUSHING" -> <<e.cur>>

(***************************************************************************)
(* After each turn, drawn or not, the screen shows the roads and the route *)
(* of the engine's maneuvers: the current one's where they stand, in a     *)
(* transition the next one's where it leads, and never a texture or a path *)
(* that an earlier frame has left (maneuver.c:2069, 2122; main.c:241).     *)
(***************************************************************************)
ScreenIsCurrent ==
  scene.over =>
    scene.screen.roads = Wanted(eng) /\ scene.screen.route = WantedRoute(eng)

(***************************************************************************)
(* Frames are drawn until the picture is final: when no other is due, the  *)
(* fade is over, the bar is the engine's and stands in full or is gone,    *)
(* light and camera have come back (main.c:592-628, 732; maneuver.c:251).  *)
(***************************************************************************)
RestIsFinal ==
  scene.over /\ ~scene.due =>
    LET on == eng.bar # Off
    IN /\ scene.screen.fade = IF eng.lit THEN "full" ELSE "dark"
       /\ scene.screen.alpha = IF on THEN "full" ELSE "none"
       /\ on => scene.screen.bar = eng.bar
       /\ ~scene.screen.turned /\ ~scene.screen.settling

(***************************************************************************)
(* Both: what is seen is the engine's, and what stays to be seen is whole. *)
(***************************************************************************)
ScreenIsTrue == ScreenIsCurrent /\ RestIsFinal
=============================================================================
