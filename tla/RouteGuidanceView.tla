------------------------- MODULE RouteGuidanceView -------------------------
(***************************************************************************)
(* The HMI's side, RouteGuidance.java: onFrame() merges every frame into   *)
(* one state (parse), starts and stops guidance, and hands the state to    *)
(* BAPBridge.update().  Of that, what decides whether the primary maneuver *)
(* is a new one is modelled.                                               *)
(*                                                                         *)
(* visible_in_app is taken to be unknown, as it is until iOS sends it, and *)
(* maneuver_count to agree with the list.                                  *)
(***************************************************************************)
EXTENDS RouteGuidanceHook

VARIABLE view   \* State, rgActive, and BAPBridge's note of the primary one

NoPrimary == [slot |-> -1, ver |-> -1]

NothingShown == [s \in Slots |-> [idx |-> NoIndex, ver |-> -1]]

(* State.reset(), and onStop() of an active guidance.                      *)
NoView == [state |-> Absent, supports |-> Absent, order |-> << >>,
           man |-> NothingShown, active |-> FALSE,
           primary |-> NoPrimary, zone |-> NoIndex]

ViewInit == view = NoView

(* source_supports_rg: its change to 0 clears everything.                  *)
WithSupports(v, f) ==
  IF f.supports = Absent \/ f.supports = v.supports THEN v
  ELSE IF f.supports = 0 /\ v.state # 0
  THEN [v EXCEPT !.supports = 0, !.state = 0, !.order = << >>,
                 !.man = NothingShown]
  ELSE [v EXCEPT !.supports = f.supports]

(* route_state: a zero takes the list away and leaves the slots.           *)
WithState(v, f) ==
  IF f.state = Absent THEN v
  ELSE IF f.state = 0 THEN [v EXCEPT !.state = 0, !.order = << >>]
  ELSE [v EXCEPT !.state = f.state]

WithOrder(v, f) ==
  IF f.hasOrder THEN [v EXCEPT !.order = f.order] ELSE v

(* m<slot>_*: the slots that are not in the frame stay as they are, and    *)
(* canProcessManeuverIndex() lets those in it pass, since a list that is   *)
(* not empty came with them.  The keys a maneuver may lack are left out.   *)
WithManeuvers(v, f) ==
  [v EXCEPT !.man = [s \in Slots |->
    IF f.man[s] = NoMan THEN v.man[s] ELSE f.man[s]]]

Parsed(v, f) ==
  WithManeuvers(WithOrder(WithState(WithSupports(v, f), f), f), f)

WantActive(v) ==
  /\ v.state >= 1 \/ (v.state # 0 /\ v.order # << >>)
  /\ v.supports # 0

Primary(v) ==
  IF v.order = << >> THEN NoPrimary
  ELSE [slot |-> v.order[1], ver |-> v.man[v.order[1]].ver]

(* BAPBridge.update(): a new primary maneuver starts outside its approach  *)
(* zone.  "zone" is the iOS maneuver the flag inApproachZone speaks of.    *)
WithPrimary(v) ==
  IF Primary(v) = v.primary THEN v
  ELSE [v EXCEPT !.primary = Primary(v),
                 !.zone = IF v.order = << >> THEN NoIndex
                          ELSE v.man[v.order[1]].idx]

(* Starting and stopping guidance forget the primary maneuver.             *)
Gated(v) ==
  LET on == WantActive(v)
      w  == IF on = v.active THEN v
            ELSE [v EXCEPT !.active = on, !.primary = NoPrimary,
                           !.zone = NoIndex]
  IN  IF on THEN WithPrimary(w) ELSE w

OnFrame(v, f) ==
  IF f.kind = "clear" THEN NoView ELSE Gated(Parsed(v, f))
=============================================================================
