---------------------------- MODULE JunctionRoads ----------------------------
(***************************************************************************)
(* What c_render/maneuver.c draws for a maneuver: the roads of the         *)
(* junction, drawn into the mask, and the route over them.  The route is   *)
(* built twice: by the draw_ function while the maneuver rests, and by     *)
(* maneuver_build_route() while it slides out or in.                       *)
(*                                                                         *)
(* Angles are degrees as the program's own, 0 ahead, 180 back, positive to *)
(* the right; lengths are thousandths.  A road is named by what it is: a   *)
(* spoke at an angle, the ring, a lane at an offset, the slant between two *)
(* lanes, the bow of a U-turn, a marker.  A leg of the route is the road   *)
(* it should lie on, the heading at its start, and how far it turns.       *)
(***************************************************************************)
EXTENDS Integers, Sequences, FiniteSets, SequencesExt

MaxJunctionAngles == 18
RoadLen == 550
BlueLen == 500
FadeLen == 300
RingR   == 280
UturnGap == 180
LaneShift == 350
MergeOffset == 380

Maneuver(icon, exit, dir, side, angles) ==
  [icon |-> icon, exit |-> exit, dir |-> dir, side |-> side, angles |-> angles]

(* decode_maneuver(): at most 18 angles are taken over.                    *)
Decoded(m) ==
  [m EXCEPT !.angles = SubSeq(@, 1, IF Len(@) < MaxJunctionAngles
                                    THEN Len(@) ELSE MaxJunctionAngles)]

-----------------------------------------------------------------------------
(* Angles.                                                                 *)

AbsOf(a) == IF a < 0 THEN -a ELSE a

AngleDist(a, b) ==
  LET d == AbsOf(a - b) IN IF d > 180 THEN 360 - d ELSE d

NearFixed(a) == AbsOf(a) < 5 \/ AbsOf(AbsOf(a) - 180) < 5

NearAny(a, angles) ==
  NearFixed(a) \/ \E i \in DOMAIN angles : AngleDist(a, angles[i]) < 5

HasForward(angles) == \E i \in DOMAIN angles : angles[i] > -30 /\ angles[i] < 30

(* snap_roundabout_exit(): the first of the nearest angles, if it is less  *)
(* than 30 degrees away.                                                   *)
Nearest(exit, angles) ==
  CHOOSE i \in DOMAIN angles :
    \A j \in DOMAIN angles :
      LET di == AngleDist(angles[i], exit)  dj == AngleDist(angles[j], exit)
      IN di < dj \/ (di = dj /\ i <= j)

SnapIdx(exit, angles) ==
  IF angles # << >> /\ AngleDist(angles[Nearest(exit, angles)], exit) < 30
  THEN Nearest(exit, angles) ELSE 0

Snapped(exit, angles) ==
  LET i == SnapIdx(exit, angles) IN IF i = 0 THEN exit ELSE angles[i]

(* roundabout_arc_range(): from the entry to the exit with the traffic.    *)
\* Mutant: an exit beside the entry is reached without a round.
ArcSweep_ShortWay(exit, side) ==
  IF side = 0 THEN (180 - exit) % 360 ELSE -((180 + exit) % 360)

ArcSweep(exit, side) ==
  LET s == IF side = 0 THEN (180 - exit) % 360 ELSE (180 + exit) % 360
      round == IF s = 0 THEN 360 ELSE s
  IN IF side = 0 THEN round ELSE -round

-----------------------------------------------------------------------------
(* Routes.                                                                 *)

Spoke(a)      == [road |-> "spoke", at |-> {a % 360}]
Ring          == [road |-> "ring", at |-> {}]
Lane(x)       == [road |-> "lane", at |-> {x}]
Slant(x1, x2) == [road |-> "slant", at |-> {x1, x2}]
Bow           == [road |-> "bow", at |-> {}]
Marker        == [road |-> "marker", at |-> {}]

Along(road, heading)    == [on |-> road, heading |-> heading, turn |-> 0]
Round(heading, turn)    == [on |-> Ring, heading |-> heading, turn |-> turn]
Over(turn)              == [on |-> Bow, heading |-> 0, turn |-> turn]

ToCenter == Along(Spoke(180), 0)
GoesLeft(m) == IF m.dir # 0 THEN m.dir < 0 ELSE m.side = 0

TurnLegs(exit) == <<ToCenter, Along(Spoke(exit), exit)>>

UturnLegs(left) ==
  IF left
  THEN <<Along(Lane(UturnGap), 0), Over(-180), Along(Lane(-UturnGap), 180)>>
  ELSE <<Along(Lane(-UturnGap), 0), Over(180), Along(Lane(UturnGap), 180)>>

(* The ring is entered at its bottom.  Positive turns go to the left.      *)
RingLegs(exit, side) ==
  LET sweep == ArcSweep(exit, side)
  IN <<ToCenter, Round(IF side = 0 THEN 90 ELSE -90, -sweep),
       Along(Spoke(exit), exit)>>

ExitLegs(shift) ==
  LET heading == IF shift > 0 THEN 49 ELSE -49
  IN <<Along(Lane(0), 0), Along(Slant(0, shift), heading), Along(Lane(shift), 0)>>

MergeLegs(from) ==
  LET heading == IF from < 0 THEN 57 ELSE -57
  IN <<Along(Lane(from), 0), Along(Slant(from, 0), heading), Along(Lane(0), 0)>>

\* Mutant: the merge's side is taken for the side of its ramp.
BuildRoute_MergeSwapped(m) ==
  CASE m.icon = "MERGE" -> MergeLegs(IF m.dir > 0 THEN MergeOffset ELSE -MergeOffset)
    [] m.icon = "TURN" -> TurnLegs(m.exit)
    [] m.icon = "UTURN" -> UturnLegs(GoesLeft(m))
    [] m.icon = "ROUNDABOUT" -> RingLegs(Snapped(m.exit, m.angles), m.side)
    [] m.icon = "EXIT" -> ExitLegs(IF m.dir < 0 THEN -LaneShift ELSE LaneShift)
    [] m.icon \in {"APPROACH", "ARRIVED"} -> <<ToCenter>>

(* maneuver_build_route()                                                  *)
BuildRoute(m) ==
  CASE m.icon = "TURN" -> TurnLegs(m.exit)
    [] m.icon = "UTURN" -> UturnLegs(GoesLeft(m))
    [] m.icon = "ROUNDABOUT" -> RingLegs(Snapped(m.exit, m.angles), m.side)
    [] m.icon = "MERGE" -> MergeLegs(IF m.dir > 0 THEN -MergeOffset ELSE MergeOffset)
    [] m.icon = "EXIT" -> ExitLegs(IF m.dir < 0 THEN -LaneShift ELSE LaneShift)
    [] m.icon \in {"APPROACH", "ARRIVED"} -> <<ToCenter>>

(* maneuver_get_exit(): the heading in which the route is left.            *)
ExitHeading(m) ==
  CASE m.icon = "TURN" -> m.exit
    [] m.icon = "UTURN" -> 180
    [] m.icon = "ROUNDABOUT" -> Snapped(m.exit, m.angles)
    [] OTHER -> 0

-----------------------------------------------------------------------------
(* The masks.  Outline and fill are painted from the same list.            *)

SidesOf(angles) ==
  {Spoke(angles[i]) : i \in {j \in DOMAIN angles : ~NearFixed(angles[j])}}

ApproachMask(m) ==
  [roads |-> {Spoke(180), Spoke(0)} \cup SidesOf(m.angles), legs |-> <<ToCenter>>]

\* Mutant: the road turned into is drawn only if the junction lists it.
TurnMask_NoStub(m) ==
  [roads |-> {Spoke(180)} \cup SidesOf(m.angles)
               \cup (IF HasForward(m.angles) THEN {Spoke(0)} ELSE {}),
   legs  |-> TurnLegs(m.exit)]

TurnMask(m) ==
  [roads |-> {Spoke(180)} \cup SidesOf(m.angles)
               \cup (IF HasForward(m.angles) THEN {Spoke(0)} ELSE {})
               \cup (IF NearAny(m.exit, m.angles) THEN {} ELSE {Spoke(m.exit)}),
   legs  |-> TurnLegs(m.exit)]

UturnMask(m) ==
  [roads |-> {Lane(UturnGap), Lane(-UturnGap), Bow}, legs |-> UturnLegs(GoesLeft(m))]

(* draw_roundabout(): the roads in the order they are drawn, each unless   *)
(* one that is drawn already lies within 0.09 rad of it.                   *)
RingSpokes(m) ==
  LET exit == Snapped(m.exit, m.angles)
      Same(a, b) == AngleDist(a, b) <= 5
      first == IF Same(exit, 180) THEN <<180>> ELSE <<180, exit>>
      Add(drawn, i) ==
        IF \/ i = SnapIdx(m.exit, m.angles)
           \/ \E j \in DOMAIN drawn : Same(m.angles[i], drawn[j])
        THEN drawn ELSE Append(drawn, m.angles[i])
  IN FoldLeft(Add, first, [i \in DOMAIN m.angles |-> i])

RoundaboutMask(m) ==
  [roads |-> {Ring} \cup {Spoke(a) : a \in ToSet(RingSpokes(m))},
   legs  |-> RingLegs(Snapped(m.exit, m.angles), m.side)]

ArrivedMask(m) == [roads |-> {Spoke(180), Marker}, legs |-> <<ToCenter>>]

ExitMask(m) ==
  LET shift == IF m.dir < 0 THEN -LaneShift ELSE LaneShift
  IN [roads |-> {Lane(0), Slant(0, shift), Lane(shift)}, legs |-> ExitLegs(shift)]

MergeMask(m) ==
  LET from == IF m.dir > 0 THEN -MergeOffset ELSE MergeOffset
  IN [roads |-> {Lane(0), Lane(from), Slant(from, 0)}, legs |-> MergeLegs(from)]

(* DISPATCH_DRAW                                                           *)
DrawMask(m) ==
  CASE m.icon = "APPROACH" -> ApproachMask(m)
    [] m.icon = "TURN" -> TurnMask(m)
    [] m.icon = "UTURN" -> UturnMask(m)
    [] m.icon = "MERGE" -> MergeMask(m)
    [] m.icon = "EXIT" -> ExitMask(m)
    [] m.icon = "ROUNDABOUT" -> RoundaboutMask(m)
    [] m.icon = "ARRIVED" -> ArrivedMask(m)

-----------------------------------------------------------------------------
(***************************************************************************)
(* The route lies on roads that are drawn: each leg on a road of its kind, *)
(* a spoke no more than 5 degrees from it -- whatever the junction's       *)
(* angles, and which of them were dropped as duplicates.  The forward road *)
(* of a turn by less than 5 degrees is drawn only if the junction lists    *)
(* one (maneuver.c:1517-1524, 1618, 1733-1757).                            *)
(***************************************************************************)
OnRoad(m) ==
  LET mask == DrawMask(m)
      Near(r, q) ==
        /\ r.road = q.road
        /\ IF r.road = "spoke"
           THEN \A a \in r.at, b \in q.at : AngleDist(a, b) <= 5
           ELSE r.at = q.at
  IN \A i \in DOMAIN mask.legs :
       \/ \E r \in mask.roads : Near(r, mask.legs[i].on)
       \/ m.icon = "TURN" /\ AbsOf(m.exit) < 5 /\ ~HasForward(m.angles)

(***************************************************************************)
(* No road of the junction is lost to the removal of duplicates, and no    *)
(* two that are drawn overlap (maneuver.c:1733-1765).                      *)
(***************************************************************************)
NoRoadLost(m) ==
  m.icon = "ROUNDABOUT" =>
    LET drawn == RingSpokes(m)
    IN /\ \A i \in DOMAIN m.angles : \E j \in DOMAIN drawn :
            AngleDist(m.angles[i], drawn[j]) <= 5
       /\ \A i, j \in DOMAIN drawn : i # j => AngleDist(drawn[i], drawn[j]) > 5
       /\ Len(drawn) <= MaxJunctionAngles + 2

(***************************************************************************)
(* The route of the transition is the one of the maneuver at rest, written *)
(* a second time, and is left in the heading the next maneuver is turned   *)
(* to; a roundabout is passed with the traffic, by at most one round.      *)
(***************************************************************************)
SameRoute(m) ==
  LET legs == BuildRoute(m)
      last == legs[Len(legs)]
  IN /\ legs = DrawMask(m).legs
     /\ (last.heading + last.turn - ExitHeading(m)) % 360 = 0

WithTraffic(m) ==
  m.icon = "ROUNDABOUT" =>
    \E i \in DOMAIN BuildRoute(m) :
      LET leg == BuildRoute(m)[i]
      IN leg.on = Ring /\ (IF m.side = 0 THEN -leg.turn ELSE leg.turn) \in 1..360
=============================================================================
