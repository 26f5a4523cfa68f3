-------------------------- MODULE MCRouteGuidance --------------------------
(* Values for model-checking the route guidance hook by itself: every kind *)
(* of update, and maneuvers with and without the field they all need.      *)
EXTENDS RouteGuidanceHook

ThreeIndices == {0, 1, 2}
ShortStates  == {0, 1, 5}

Msg(state, supports, list, other) ==
  [state |-> state, supports |-> supports, hasList |-> list # {},
   list |-> IF list = {} THEN << >> ELSE CHOOSE l \in list : TRUE,
   other |-> other]

AllUpdates ==
  {Msg(s, p, {}, FALSE) : s \in ShortStates \cup {Absent}, p \in {Absent, 0}}
    \cup {Msg(s, Absent, {l}, FALSE) : s \in {Absent, 1}, l \in Lists}
    \cup {Msg(Absent, Absent, {}, TRUE)}

AllManeuvers ==
  {[idx |-> i, fields |-> f, link |-> NoIndex] :
     i \in ThreeIndices, f \in {{"type"}, {"road"}}}
    \cup {[idx |-> 0, fields |-> {"type"}, link |-> 1],
          [idx |-> 0, fields |-> {}, link |-> NoIndex]}
=============================================================================
