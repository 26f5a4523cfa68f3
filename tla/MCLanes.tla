------------------------------ MODULE MCLanes -------------------------------
(* Values for model-checking lane guidance: one maneuver listed, one event *)
(* linked to, one named, and one slot more than these need less one.       *)
EXTENDS LaneGuidance

FourIndices == 0 .. 3
ShortStates == {0, 1, 5}

Msg(state, hasList, list) ==
  [state |-> state, supports |-> Absent, hasList |-> hasList, list |-> list,
   other |-> FALSE]

LaneUpdates ==
  {Msg(Absent, FALSE, << >>), Msg(0, FALSE, << >>), Msg(1, TRUE, <<1>>)}
    \cup {[Msg(state, FALSE, << >>) EXCEPT !.supports = 0] : state \in {Absent, 0}}

LaneManeuvers == {[idx |-> 1, fields |-> {"type"}, link |-> 2]}

(* One before what is listed and one after it; 2 is linked to by it.       *)
TwoNames == {0, 3, NoIndex}

EveryLane ==
  {[event |-> e, lanes |-> TRUE] : e \in Indices \cup {NoIndex}}
    \cup {[event |-> e, lanes |-> FALSE] : e \in {0, 1}}
=============================================================================
