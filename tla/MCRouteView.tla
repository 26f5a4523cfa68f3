---------------------------- MODULE MCRouteView ----------------------------
(* Values for model-checking the hook with the HMI's view of it: routes of *)
(* one listed maneuver out of three, which pass, are replaced and evicted. *)
EXTENDS RouteGuidanceSystem

ThreeIndices == {0, 1, 2}
ShortStates    == {0, 1, 5}

Msg(state, supports, hasList, list) ==
  [state |-> state, supports |-> supports, hasList |-> hasList,
   list |-> list, other |-> FALSE]

RouteUpdates ==
  {Msg(0, Absent, FALSE, << >>), Msg(0, 0, FALSE, << >>)}
    \cup {Msg(1, Absent, TRUE, l) : l \in Lists}

RouteManeuvers ==
  {[idx |-> i, fields |-> {"type"}, link |-> NoIndex] : i \in Indices}
=============================================================================
