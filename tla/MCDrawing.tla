------------------------------ MODULE MCDrawing ------------------------------
(***************************************************************************)
(* For TLC: the window of c_render, and what is drawn in it: the scene     *)
(* over two maneuvers, and its geometry over a set of junctions, of pairs  *)
(* of them, and of transitions.  Each of these is put into probe by one    *)
(* step, made before the scene's first, and taken out by the next.  Window *)
(* and drawing share no state here: a behaviour takes the steps of one of  *)
(* them, so the reachable states are those of each.                        *)
(***************************************************************************)
EXTENDS ClusterWindow, ManeuverScene, RoutePath, RouteTransition

VARIABLE probe

(* Junctions: none, a crossing, roads within the 5 degrees that count as   *)
(* one, a list as long as the packet's, and one past it.                   *)
Angles ==
  {<< >>, <<-90, 0, 90>>, <<87, 90, 93>>, <<180, -180, 176, 2>>, <<-30, 30, 150>>,
   <<44, 49, 54, 59, 64>>, [i \in 1..18 |-> 20 * i - 190], [i \in 1..22 |-> 16 * i - 184]}

Exits == {15 * k : k \in -12..12} \cup {-178, -93, -4, 3, 47, 88, 152, 177}

Junctions ==
  {Decoded(Maneuver(icon, exit, 0, side, angles)) :
     icon \in {"TURN", "ROUNDABOUT"}, exit \in Exits, side \in {0, 1}, angles \in Angles}
  \cup {Decoded(Maneuver(icon, 0, dir, side, angles)) :
     icon \in {"APPROACH", "UTURN", "MERGE", "EXIT", "ARRIVED"},
     dir \in {-1, 0, 1}, side \in {0, 1}, angles \in {<< >>, <<-90, 0, 90>>}}

(* For pairs the lists matter only as far as they snap an exit.            *)
Paired ==
  {m \in Junctions :
     /\ m.angles \in {<< >>, <<-30, 30, 150>>}
     /\ m.icon \in {"TURN", "ROUNDABOUT"} => m.exit \in {-180, -150, -90, -4, 3, 60, 135, 180}}

Lengths == {MinRoute, 501, 560, 1000, 1777, 2000, 2250, MaxRoute}
Transitions ==
  {Transition(slug, next, start, lifts, nextLifts) :
     slug \in Lengths, next \in Lengths, start \in {0, 1},
     lifts \in BOOLEAN, nextLifts \in BOOLEAN}

NoProbe == [kind |-> "none"]
Probes ==
  [kind : {"junction"}, m : Junctions]
    \cup [kind : {"pair"}, m : Paired, n : Paired]
    \cup [kind : {"transition"}, t : Transitions]

DrawingInit == SceneInit /\ probe = NoProbe

DrawingNext ==
  \/ eng = Engine!NewEngine /\ scene = NewScene /\ got = {} /\ probe = NoProbe
       /\ probe' \in Probes /\ UNCHANGED sceneVars
  \/ probe # NoProbe /\ probe' = NoProbe /\ UNCHANGED sceneVars
  \/ probe = NoProbe /\ SceneNext /\ UNCHANGED probe

VARIABLE who  \* whose steps this behaviour takes

allVars == <<vars, sceneVars, probe, who>>

BothInit ==
  /\ Init /\ DrawingInit
  /\ who \in {"window", "drawing"}
  /\ who = "drawing" => strings
WindowStep  == who = "window" /\ Next /\ UNCHANGED <<sceneVars, probe, who>>
DrawingStep == who = "drawing" /\ DrawingNext /\ UNCHANGED <<vars, who>>

BothSpec == BothInit /\ [][WindowStep \/ DrawingStep]_allVars /\ Fairness

(* Over each junction: the route lies on its roads, none of which is lost, *)
(* is the same at rest and in a transition, and goes with the traffic.     *)
RoadsCarryRoute ==
  probe.kind = "junction" =>
    /\ OnRoad(probe.m) /\ NoRoadLost(probe.m)
    /\ SameRoute(probe.m) /\ WithTraffic(probe.m)

(* No array is too small for any two maneuvers (route_path.c:81, 101, 176).*)
ArraysFit == probe.kind = "pair" => JoinedFits(probe.m, probe.n)

(* No transition ends early, leaves roads behind, or jumps where it ends   *)
(* (maneuver.c:2246-2318; route_path.c:390-427).                           *)
NothingJumps == probe.kind = "transition" => TransitionSound(probe.t)
=============================================================================
