---------------------------- MODULE LaneGuidance ----------------------------
(***************************************************************************)
(* Lane guidance in rgd_hook.c, and what BAPBridge.java makes of it.  iOS  *)
(* sends the lanes of every event of the route once (0x5204), also of      *)
(* those to come, and names the event to show with an update (0x5201).     *)
(* The hook keeps the lanes in a second cache of as many slots as the      *)
(* first, with its own order of use; every snapshot carries all of it, the *)
(* event named and the slot that has its lanes.                            *)
(*                                                                         *)
(* Each action is one of RouteGuidanceHook with what it does to the lanes. *)
(* A slot's lanes are written whenever it is given to an event, so they    *)
(* are told apart by the event.  A maneuver brings no lanes of its own     *)
(* (rgd_parse_maneuver never sets RGD_MAN_LANE_GUIDANCE), and whether iOS  *)
(* wants lanes shown at all arrives and is kept with the event.            *)
(***************************************************************************)
EXTENDS RouteGuidanceHook

CONSTANTS
  Names,         \* the events iOS names, NoIndex for an update that names none
  LaneMessages   \* the 0x5204 messages iOS sends

VARIABLES
  lane,     \* lane_slot_to_iap_idx and the order of lane_slot_seq
  linked,   \* slot_cache[].linked_lane_guidance_index
  named,    \* update_cache.lane_guidance_index, NoIndex when not present
  frame,    \* the lane keys of "sticky"
  laneView, \* State of RouteGuidance.java, as far as lanes go
  owed      \* history: lanes of the named event have come since it was named,
            \* or were there, and no event has been crowded out since

laneVars == <<lane, linked, named, frame, laneView, owed>>

Cache == INSTANCE ManeuverSlots WITH slotIdx <- lane.idx, older <- lane.older

NoLanes    == [idx |-> [s \in Slots |-> NoIndex], older |-> {}]
NoLinks    == [s \in Slots |-> NoIndex]
NoKeys     == [event |-> NoIndex, slot |-> -1, lg |-> [s \in Slots |-> NoIndex]]
NoLaneView == [state |-> Absent, supports |-> Absent, event |-> NoIndex, slot |-> -1]

(* A 0x5204: the event it is about, if it says so, and whether it has      *)
(* lanes or only a description.                                            *)
ASSUME LaneMessagesAssumption ==
  /\ Names \subseteq Indices \cup {NoIndex}
  /\ LaneMessages \subseteq
       [event : Indices \cup {NoIndex}, lanes : BOOLEAN]
         \ {[event |-> NoIndex, lanes |-> FALSE]}

LaneInit ==
  /\ HookInit
  /\ lane = NoLanes /\ linked = NoLinks /\ named = NoIndex
  /\ frame = NoKeys /\ laneView = NoLaneView /\ owed = FALSE

-----------------------------------------------------------------------------
SlotsOf(c, event) == {s \in Slots : event # NoIndex /\ c.idx[s] = event}
UsedBy(c) == {s \in Slots : c.idx[s] # NoIndex}

(* rgd_lane_slot_for_iap_index(event, create = false): a use.              *)
LookUp(c, event) ==
  IF SlotsOf(c, event) = {} THEN c
  ELSE [c EXCEPT !.older = Touch(@, UsedBy(c), Lowest(SlotsOf(c, event)))]

(* What the look-ups of several events, one after the other, do: a slot    *)
(* that is used again is behind all whose last use was before.             *)
LookedUp(c, events) ==
  LET at == [s \in Slots |-> {i \in DOMAIN events : s \in SlotsOf(c, events[i])}]
  IN  [c EXCEPT !.older =
        {p \in @ : at[p[1]] = {} /\ at[p[2]] = {}} \cup
        {p \in UsedBy(c) \X UsedBy(c) :
           p[1] # p[2] /\ \E i \in at[p[2]] : \A j \in at[p[1]] : j < i}]

(* rgd_is_active_lane_index(): named, listed, or linked to by one listed.  *)
Protected ==
  ListedIndices \cup ({named} \ {NoIndex})
    \cup {linked[s] : s \in {t \in Slots : slotIdx[t] \in ListedIndices}}

(* rgd_lane_slot_for_iap_index(event, create = true)                       *)
Assign(event) ==
  LET s == Cache!SlotFor(event, Protected)
  IN  [idx   |-> [lane.idx EXCEPT ![s] = event],
       older |-> Touch(lane.older, UsedBy(lane) \cup {s}, s)]

(* All slots are taken by events in use: a new one takes the place of any. *)
CrowdsOut(event) ==
  /\ SlotsOf(lane, event) = {}
  /\ \A s \in Slots : lane.idx[s] \in Protected \ {NoIndex}

(* Mutant: the event named goes like any other.                            *)
Pruned_Named(c, event, list, state) ==
  LET stale == {s \in UsedBy(c) : \A i \in Members(list) : c.idx[s] < i}
  IN  IF list = << >> \/ state = Rerouting THEN c
      ELSE [idx   |-> [s \in Slots |-> IF s \in stale THEN NoIndex ELSE c.idx[s]],
            older |-> {p \in c.older : p[1] \notin stale /\ p[2] \notin stale}]

(* rgd_prune_stale_lane_cache(): events before all that is listed go,      *)
(* except the one named, and none while the route is being calculated.     *)
Pruned(c, event, list, state) ==
  LET stale == {s \in UsedBy(c) : /\ \A i \in Members(list) : c.idx[s] < i
                                  /\ c.idx[s] # event}
  IN  IF list = << >> \/ state = Rerouting THEN c
      ELSE [idx   |-> [s \in Slots |-> IF s \in stale THEN NoIndex ELSE c.idx[s]],
            older |-> {p \in c.older : p[1] \notin stale /\ p[2] \notin stale}]

(* The lg keys: of a slot without lanes they say that it has none.         *)
LaneKeys(c) == c.idx

(* write_bus_snapshot_from_cache(): what it does to the cache c it finds,  *)
(* the list being "list" before it.  The slots listed look their links up. *)
LaneSnapshot(c, event, list) ==
  \E kept \in {Pruned(LookUp(Pruned(c, event, list, lastState'), event),
                     event, curList', lastState')},
     links \in {[i \in DOMAIN Order' |-> linked'[Order'[i]]]} :
    /\ lane' = LookedUp(kept, links)
    /\ frame' = [event |-> event,
                 slot  |-> IF SlotsOf(lane', event) = {} THEN -1
                           ELSE Lowest(SlotsOf(lane', event)),
                 lg    |-> LaneKeys(lane')]

ForgetLanes == lane' = NoLanes /\ linked' = NoLinks

-----------------------------------------------------------------------------
Held(m) == m.state = 0 /\ m.supports # 0 /\ IsHeld
Suppressed(m) ==
  m.state = Absent /\ ~HasEvidence(m) /\ pending # "none" /\ m.supports # 0
EndsForGood(m) == m.state = 0 /\ m.supports = 0

(* 0x5201, which may name an event.                                        *)
ZeroHidesLanes(m) ==
  /\ Held(m)
  /\ named' = NoIndex /\ owed' = FALSE
  /\ IF lastState > 0 THEN ForgetLanes ELSE UNCHANGED <<lane, linked>>
  /\ UNCHANGED <<frame, laneView>>

SuppressedNames(m) == Suppressed(m) /\ UNCHANGED laneVars

RouteOver(m, event) ==
  /\ EndsForGood(m)
  /\ linked' = NoLinks
  /\ named' = event /\ owed' = FALSE
  /\ LaneSnapshot(NoLanes, event, << >>)
  /\ UNCHANGED laneView

Named(m, event) ==
  /\ ~Held(m) /\ ~Suppressed(m) /\ ~EndsForGood(m)
  /\ named' = IF event # NoIndex THEN event ELSE named
  /\ owed' = IF named' = named THEN owed ELSE SlotsOf(lane, named') # {}
  /\ UNCHANGED <<linked, laneView>>
  /\ LaneSnapshot(LookUp(lane, event), named', curList)

Update5201(m, event) ==
  /\ ReceiveUpdate(m)
  /\ \/ ZeroHidesLanes(m) \/ SuppressedNames(m)
     \/ RouteOver(m, event) \/ Named(m, event)

Maneuver5202(m) ==
  /\ ReceiveManeuver(m)
  /\ IF m.fields # {} /\ CanProcess(m.idx)
     THEN /\ linked' = [linked EXCEPT ![SlotFor(m.idx, ListedIndices)] = m.link]
          /\ LaneSnapshot(lane, named, curList)
     ELSE UNCHANGED <<lane, linked, frame>>
  /\ UNCHANGED <<named, laneView, owed>>

(* A 0x5204 without an index is about the first maneuver listed.           *)
EventOf(m) ==
  IF m.event # NoIndex \/ curList = << >> THEN m.event ELSE curList[1]

(* write_bus_lane_guidance_partial(): a snapshot goes out for lanes taken  *)
(* and for anything about the event named.                                 *)
Lanes5204(m) ==
  LET event == EventOf(m)
      taken == m.lanes /\ event # NoIndex
      found == IF taken THEN Assign(event) ELSE LookUp(lane, event)
      sends == taken \/ (event # NoIndex /\ event = named)
  IN  /\ ~sends => UNCHANGED sticky
      /\ ReceiveLane
      /\ UNCHANGED <<linked, named, laneView>>
      /\ IF sends
         THEN sticky' = Snapshot' /\ LaneSnapshot(found, named, curList)
         ELSE UNCHANGED frame /\ lane' = found
      /\ owed' = \/ taken /\ event = named
                 \/ owed /\ ~(taken /\ CrowdsOut(event))

(* The tick and time leave the lanes alone; the tick's frame has no keys.  *)
LanesKept ==
  /\ GracePasses \/ TickClaims \/ TickSends
  /\ frame' = IF tick = "send" /\ tick' = "idle" THEN NoKeys ELSE frame
  /\ UNCHANGED <<lane, linked, named, laneView, owed>>

(* rgd_clear_state()                                                       *)
LanesCleared ==
  /\ LazyInit \/ IdentifyEnd \/ Shutdown \/ Respawn
  /\ ForgetLanes /\ named' = NoIndex /\ owed' = FALSE /\ frame' = NoKeys
  /\ UNCHANGED laneView

-----------------------------------------------------------------------------
(* RouteGuidance.parse(): the end of a route takes the event away, and so  *)
(* does losing the support while a route is going.                         *)
Hidden(v) == [v EXCEPT !.event = NoIndex, !.slot = -1]

Heard(v) ==
  LET supported ==
        IF sticky.supports = 0 /\ v.supports # 0 /\ v.state # 0
        THEN [Hidden(v) EXCEPT !.state = 0] ELSE v
      routed == IF sticky.state = 0 THEN Hidden(supported) ELSE supported
      going  == [routed EXCEPT
                  !.supports = IF sticky.supports = Absent THEN @ ELSE sticky.supports,
                  !.state = IF sticky.state = Absent THEN @ ELSE sticky.state]
  IN  CASE sticky.kind = "none"     -> v
        [] sticky.kind = "clear"    -> NoLaneView
        [] sticky.kind = "tick"     -> going
        [] sticky.kind = "snapshot" ->
             IF frame.event = NoIndex THEN going
             ELSE [going EXCEPT !.event = frame.event, !.slot = frame.slot]

(* A frame is heard before the next is sent: that a link that is down      *)
(* loses some, and the bus replays the newest, is in RouteGuidanceSystem.  *)
Hear ==
  /\ laneView' = Heard(laneView)
  /\ UNCHANGED <<hookVars, lane, linked, named, frame, owed>>

LgSlotMatches(slot, event) == frame.lg[slot] = event

(* resolveLaneGuidanceManeuverIndex(): the slot named if it has the event, *)
(* or else whichever has it.  The event whose lanes are shown.             *)
Shown(v) ==
  IF v.event = NoIndex THEN NoIndex
  ELSE IF v.slot # -1 /\ frame.lg[v.slot] # NoIndex /\ LgSlotMatches(v.slot, v.event)
       THEN frame.lg[v.slot]
  ELSE IF \E s \in Slots : frame.lg[s] = v.event THEN v.event
  ELSE NoIndex

HookStep ==
  \/ \E m \in Updates, event \in Names : Update5201(m, event)
  \/ \E m \in Maneuvers : Maneuver5202(m)
  \/ \E m \in LaneMessages : Lanes5204(m)
  \/ LanesKept \/ LanesCleared

LaneNext ==
  \/ Heard(laneView) = laneView /\ HookStep
  \/ Heard(laneView) # laneView /\ Hear

LaneSpec == LaneInit /\ [][LaneNext]_<<hookVars, laneVars>>

-----------------------------------------------------------------------------
(***************************************************************************)
(* With the newest snapshot heard, the cluster shows the lanes of the      *)
(* event iOS named last, if they came while it was named or were there     *)
(* then: neither the lanes of events to come, nor a list that has passed   *)
(* the event, nor a lookup's order of use takes them away, and a slot that *)
(* has been given to another event is not taken for it.  The exception is  *)
(* the code's: an event that comes while all slots are in use takes one of *)
(* those (rgd_hook.c:294-413, 751-790, 1031-1040;                          *)
(* BAPBridge.java:1471-1516).                                              *)
(***************************************************************************)
ShowsNamedLanes ==
  LET v == Heard(laneView)
  IN  sticky.kind = "snapshot" =>
        /\ owed => Shown(v) = named
        /\ Shown(v) \in {v.event, NoIndex}
=============================================================================
