------------------------- MODULE RouteGuidanceHook -------------------------
(***************************************************************************)
(* The route guidance module of the hook, rgd_hook.c: the handlers of      *)
(* 0x5201 (update), 0x5202 (maneuver) and 0x5204 (lanes) on the iAP2       *)
(* thread, and rgd_periodic_tick() on the bus timer's thread.              *)
(*                                                                         *)
(* iOS interrupts a route with route_state 0 and takes it up again.  A     *)
(* zero is held until the route goes on or enough time has passed.         *)
(*                                                                         *)
(* A handler is one step: what it does after the section under             *)
(* g_rgd_debounce_lock touches nothing the tick reads.  The tick is two,   *)
(* its claim under the lock and the frame it sends after.                  *)
(***************************************************************************)
EXTENDS ManeuverSlots

CONSTANTS
  RouteStates,   \* route_state values, 0 and REROUTING among them
  MaxList,       \* MAX_MANEUVER_LIST, 16
  Updates,       \* the 0x5201 messages iOS sends
  Maneuvers      \* the 0x5202 messages iOS sends

Rerouting == 5   \* RGD_STATE_REROUTING
Absent == -1     \* a TLV that is not in the message, a key not in the frame

ASSUME RouteStatesAssumption ==
  RouteStates \subseteq Nat /\ {0, Rerouting} \subseteq RouteStates
ASSUME MaxListAssumption == MaxList \in Nat /\ MaxList < CacheSize

VARIABLES
  inited,       \* rgd_lazy_init() has run
  got,          \* got_520x
  haveUpdate,   \* have_update
  lastState,    \* last_route_state, as iOS sent it
  emitted,      \* emitted_route_state
  pending,      \* state_zero_*: no zero held, one with a deadline, one without
  expired,      \* the deadline has passed
  updState,     \* update_cache.route_state
  updSupports,  \* update_cache.source_supports_route_guidance
  listPresent,  \* current_list_present
  curList,      \* current_list
  tick,         \* rgd_periodic_tick(): between its claim and its frame?
  sticky        \* the frame the bus keeps, the last one sent

debVars  == <<lastState, emitted, pending, expired>>
updVars  == <<updState, updSupports>>
listVars == <<listPresent, curList>>
hookVars == <<inited, got, haveUpdate, debVars, updVars, listVars, tick,
              sticky, slotVars>>

Present == RouteStates \cup {Absent}
Supports == {Absent, 0, 1}

Lists == {<< >>} \cup UNION {{l \in [1 .. n -> Indices] :
           \A i, j \in 1 .. n : l[i] = l[j] => i = j} : n \in 1 .. MaxList}
Members(l) == {l[i] : i \in 1 .. Len(l)}

(* rgd_is_active_index()                                                   *)
ListedIndices == IF listPresent THEN Members(curList) ELSE {}

(* A 0x5201: "other" stands for the distances, names and counts that count *)
(* as evidence of an active route (rgd_update_has_active_evidence); a      *)
(* message without any of these brings only what the model leaves out.     *)
Update == [state : Present, supports : Supports,
           hasList : BOOLEAN, list : Lists, other : BOOLEAN]

ASSUME UpdatesAssumption ==
  /\ Updates \subseteq Update
  /\ \A m \in Updates : ~m.hasList => m.list = << >>

(* A 0x5202: the maneuver's fields that are written out, if any, and the   *)
(* lane event it is linked to, if any.                                     *)
Maneuver == [idx : Indices, fields : SUBSET Fields,
             link : Indices \cup {NoIndex}]

ASSUME ManeuversAssumption == Maneuvers \subseteq Maneuver

(* The keys m<slot>_* of a frame: "idx" stands for what describes the      *)
(* maneuver, its type first of all.                                        *)
SlotKeys == [idx : Indices \cup {NoIndex}, ver : Nat]
NoMan == [idx |-> NoIndex, ver |-> 0]
NoMans == [s \in Slots |-> NoMan]

(* A frame of EVT_RGD_UPDATE.                                              *)
Frames == [kind : {"none", "clear", "tick", "snapshot"},
           state : Present, supports : Supports,
           hasOrder : BOOLEAN, order : Seq(Slots), man : [Slots -> SlotKeys]]

Bare(kind, state) == [kind |-> kind, state |-> state, supports |-> Absent,
                      hasOrder |-> FALSE, order |-> << >>, man |-> NoMans]
NoFrame    == Bare("none", Absent)
ClearFrame == Bare("clear", 0)   \* with a disconnect_reason
TickFrame  == Bare("tick", 0)

HookTypeOK ==
  /\ SlotTypeOK
  /\ inited \in BOOLEAN /\ got \in BOOLEAN /\ haveUpdate \in BOOLEAN
  /\ lastState \in RouteStates
  /\ emitted \in RouteStates
  /\ pending \in {"none", "grace", "reroute"}
  /\ expired \in BOOLEAN
  /\ updState \in Present
  /\ updSupports \in Supports
  /\ listPresent \in BOOLEAN
  /\ curList \in Lists
  /\ tick \in {"idle", "send"}
  /\ sticky \in Frames

HookInit ==
  /\ SlotInit
  /\ inited = FALSE /\ got = FALSE /\ haveUpdate = FALSE
  /\ lastState = 0 /\ emitted = 0 /\ pending = "none" /\ expired = FALSE
  /\ updState = Absent /\ updSupports = Absent
  /\ listPresent = FALSE /\ curList = << >>
  /\ tick = "idle"
  /\ sticky = NoFrame

-----------------------------------------------------------------------------
SlotOf(idx) == Lowest({s \in Slots : Holds(s, idx)})

(* The places in the current list of the maneuvers that have a type.       *)
Listable == {i \in DOMAIN curList :
              \E s \in Slots : Holds(s, curList[i]) /\ "type" \in cache[s]}

(* The k-th of a set of numbers, from the least.                           *)
Nth(S, k) == CHOOSE i \in S : Cardinality({j \in S : j =< i}) = k

(* Their slots, in the list's order.                                       *)
Order == [k \in 1 .. Cardinality(Listable) |->
            SlotOf(curList[Nth(Listable, k)])]

(* Mutant: only the maneuver that has just come is sent with its data.     *)
Sent_NewestOnly(s) ==
  s \in Members(Order) /\ \A t \in Used : <<s, t>> \notin older

(* The slots whose keys are in the frame.                                  *)
Sent(s) == s \in Members(Order)

(* write_bus_snapshot_from_cache()                                         *)
Snapshot ==
  [kind |-> "snapshot", state |-> updState, supports |-> updSupports,
   hasOrder |-> listPresent,
   order |-> IF listPresent THEN Order ELSE << >>,
   man |-> [s \in Slots |->
     IF listPresent /\ Sent(s)
     THEN [idx |-> slotIdx[s], ver |-> slotVer[s]]
     ELSE NoMan]]

SendSnapshot == sticky' = Snapshot'

ResetMap == ResetSlots /\ listPresent' = FALSE /\ curList' = << >>

ResetUpdate == updState' = Absent /\ updSupports' = Absent

(* rgd_update_cache_merge() and the list of the update, over what was kept *)
Merge(m, state, supports) ==
  /\ updState' = IF m.state # Absent THEN m.state ELSE state
  /\ updSupports' = IF m.supports # Absent THEN m.supports ELSE supports

(* Mutant: the list of an update is added to the one before.               *)
TakeList_Appends(m) ==
  /\ listPresent' = (m.hasList \/ listPresent)
  /\ curList' = curList \o m.list

TakeList(m) ==
  /\ listPresent' = (m.hasList \/ listPresent)
  /\ curList' = IF m.hasList THEN m.list ELSE curList

(* write_bus_update_partial()                                              *)
WriteUpdate(m) ==
  /\ Merge(m, updState, updSupports)
  /\ TakeList(m)
  /\ UNCHANGED slotVars
  /\ SendSnapshot

-----------------------------------------------------------------------------
(* 0x5201.                                                                 *)

HasEvidence(m) ==
  m.state > 0 \/ (m.hasList /\ m.list # << >>) \/ m.other

CancelZero == pending' = "none" /\ expired' = FALSE

(* Mutant: only what iOS sent last decides whether the zero ends a reroute *)
FromReroute_LastOnly == lastState = Rerouting

FromReroute == lastState = Rerouting \/ emitted = Rerouting

(* Mutant: every zero starts the grace period again.                       *)
HoldZero_Restarts ==
  /\ pending' = IF FromReroute THEN "reroute" ELSE "grace"
  /\ expired' = FALSE

(* The first zero starts the grace period, a later one does not extend it. *)
HoldZero ==
  IF pending = "none"
  THEN /\ pending' = IF FromReroute THEN "reroute" ELSE "grace"
       /\ expired' = FALSE
  ELSE UNCHANGED <<pending, expired>>

(* route_state 0 with source_supports_rg 0: the route is over for certain. *)
HardClear(m) ==
  /\ m.state = 0 /\ m.supports = 0
  /\ lastState' = 0 /\ emitted' = 0 /\ CancelZero
  /\ ResetSlots
  /\ listPresent' = m.hasList /\ curList' = m.list
  /\ Merge(m, Absent, Absent)
  /\ SendSnapshot

(* Mutant: a zero is held only if the route was active the message before. *)
IsHeld_FirstOnly == emitted # 0 /\ lastState # 0

IsHeld == emitted # 0

(* The end of the route has already been sent.                             *)
StillEnded(m) ==
  /\ m.state = 0 /\ m.supports # 0 /\ ~IsHeld
  /\ lastState' = 0 /\ UNCHANGED <<emitted, pending, expired>>
  /\ WriteUpdate(m)

(* A zero in the middle of a route is kept from the HMI.                   *)
ZeroHeld(m) ==
  /\ m.state = 0 /\ m.supports # 0 /\ IsHeld
  /\ lastState' = 0 /\ UNCHANGED emitted
  /\ HoldZero
  /\ ResetUpdate
  /\ IF lastState > 0 THEN ResetMap ELSE UNCHANGED <<slotVars, listVars>>
  /\ UNCHANGED sticky

RouteActive(m) ==
  /\ m.state > 0
  /\ lastState' = m.state /\ emitted' = m.state
  /\ CancelZero
  /\ WriteUpdate(m)

ActiveEvidence(m) ==
  /\ m.state = Absent /\ HasEvidence(m)
  /\ CancelZero
  /\ UNCHANGED <<lastState, emitted>>
  /\ WriteUpdate(m)

(* Neither a route_state nor evidence: part of a reset while a zero is     *)
(* held, unless it withdraws the support.                                  *)
ResetOnly(m) ==
  /\ m.state = Absent /\ ~HasEvidence(m)
  /\ UNCHANGED debVars
  /\ IF pending # "none" /\ m.supports # 0
     THEN UNCHANGED <<updVars, listVars, slotVars, sticky>>
     ELSE WriteUpdate(m)

ReceiveUpdate(m) ==
  /\ inited
  /\ got' = TRUE /\ haveUpdate' = TRUE
  /\ \/ HardClear(m)
     \/ StillEnded(m)
     \/ ZeroHeld(m)
     \/ RouteActive(m)
     \/ ActiveEvidence(m)
     \/ ResetOnly(m)
  /\ UNCHANGED <<inited, tick>>

-----------------------------------------------------------------------------
(* 0x5202 and 0x5204: a zero that is held was not the end.                 *)

(* rgd_can_process_maneuver_index(): none that the route has passed.       *)
CanProcess(idx) ==
  /\ haveUpdate
  /\ \/ ~listPresent \/ curList = << >>
     \/ lastState = Rerouting
     \/ \E i \in Members(curList) : i =< idx

ReceiveManeuver(m) ==
  /\ inited /\ got' = TRUE
  /\ CancelZero
  /\ IF m.fields # {} /\ CanProcess(m.idx)
     THEN /\ Store(m.idx, m.fields, m.link, ListedIndices)
          /\ UNCHANGED <<updVars, listVars>>
          /\ SendSnapshot
     ELSE UNCHANGED <<updVars, listVars, slotVars, sticky>>
  /\ UNCHANGED <<inited, haveUpdate, lastState, emitted, tick>>

(* The snapshot sent, if any; the lanes themselves are in LaneGuidance.    *)
ReceiveLane ==
  /\ inited /\ got' = TRUE
  /\ CancelZero
  /\ UNCHANGED <<updVars, listVars, slotVars>>
  /\ SendSnapshot \/ UNCHANGED sticky
  /\ UNCHANGED <<inited, haveUpdate, lastState, emitted, tick>>

-----------------------------------------------------------------------------
(* rgd_periodic_tick(), and time.                                          *)

GracePasses ==
  /\ pending = "grace" /\ ~expired
  /\ expired' = TRUE
  /\ UNCHANGED <<inited, got, haveUpdate, lastState, emitted, pending,
                 updVars, listVars, tick, sticky, slotVars>>

TickClaims ==
  /\ inited /\ tick = "idle"
  /\ emitted # 0 /\ pending = "grace" /\ expired
  /\ emitted' = 0 /\ CancelZero
  /\ tick' = "send"
  /\ UNCHANGED <<inited, got, haveUpdate, lastState, updVars, listVars,
                 sticky, slotVars>>

TickSends ==
  /\ tick = "send"
  /\ tick' = "idle"
  /\ sticky' = TickFrame
  /\ UNCHANGED <<inited, got, haveUpdate, debVars, updVars, listVars, slotVars>>

-----------------------------------------------------------------------------
(* rgd_clear_state(), and the life of the process.                         *)

ClearState ==
  /\ got' = FALSE /\ haveUpdate' = FALSE
  /\ lastState' = 0 /\ emitted' = 0 /\ CancelZero
  /\ ResetMap /\ ResetUpdate

(* rgd_lazy_init(): identification comes before any other message.         *)
LazyInit ==
  /\ ~inited /\ sticky = NoFrame
  /\ inited' = TRUE
  /\ ClearState
  /\ sticky' = ClearFrame
  /\ UNCHANGED tick

(* HOOK_EVENT_IDENTIFY_END, with nothing heard yet.                        *)
IdentifyEnd ==
  /\ inited /\ ~got
  /\ ClearState
  /\ sticky' = ClearFrame
  /\ UNCHANGED <<inited, tick>>

(* The process ends with its destructors, or is killed.                    *)
Shutdown ==
  /\ inited /\ inited' = FALSE
  /\ ClearState
  /\ sticky' = ClearFrame
  /\ tick' = "idle"

Respawn ==
  /\ sticky # NoFrame
  /\ inited' = FALSE
  /\ ClearState
  /\ sticky' = NoFrame
  /\ tick' = "idle"

HookNext ==
  \/ \E m \in Updates : ReceiveUpdate(m)
  \/ \E m \in Maneuvers : ReceiveManeuver(m)
  \/ ReceiveLane
  \/ GracePasses \/ TickClaims \/ TickSends
  \/ LazyInit \/ IdentifyEnd \/ Shutdown \/ Respawn

HookSpec == HookInit /\ [][HookNext]_hookVars

(* Time passes and the bus timer ticks every second.  iOS owes nobody a    *)
(* message.                                                                *)
HookFairness ==
  WF_hookVars(GracePasses) /\ WF_hookVars(TickClaims \/ TickSends)

HookFairSpec == HookSpec /\ HookFairness

-----------------------------------------------------------------------------
(***************************************************************************)
(* A slot stands for one maneuver and a version for one assignment, over   *)
(* evictions, refused maneuvers and resets (rgd_hook.c:315-361).           *)
(***************************************************************************)
SlotsSound == SlotsDistinct /\ SlotsBounded /\ UseOrdered

(***************************************************************************)
(* "incoming 0x5202 data for future maneuvers can evict slots still being  *)
(* displayed on the cluster" (rgd_hook.c:337-338): a maneuver that is      *)
(* stored does not take the slot of a listed one.                          *)
(***************************************************************************)
StoringKeepsListed ==
  [][verCounter' > verCounter =>
       \A s \in Slots : slotIdx[s] \in ListedIndices =>
         slotIdx'[s] = slotIdx[s] /\ cache'[s] = cache[s]]_hookVars

(***************************************************************************)
(* "state=0 after REROUTING has no timeout" (rgd_hook.c:1324): the tick    *)
(* never ends a route that was being rerouted, however the zeros, the      *)
(* evidence and the maneuvers in between were ordered.                     *)
(***************************************************************************)
RerouteHasNoTimeout ==
  [][tick = "idle" /\ tick' = "send" => emitted # Rerouting]_hookVars

(***************************************************************************)
(* A handler lets no route_state 0 out that the debounce has not decided:  *)
(* the newest frame says so only when emitted_route_state does, or when it *)
(* is the tick's (rgd_hook.c:1336-1392).                                   *)
(***************************************************************************)
ZeroIsDecided ==
  sticky.state = 0 => emitted = 0 \/ sticky = TickFrame

(* Why the two hold: what is cached has been decided too, and whatever is  *)
(* held while REROUTING was last sent has no deadline.                     *)
DebounceInv ==
  /\ ZeroIsDecided
  /\ updState = 0 => emitted = 0
  /\ emitted = Rerouting => pending # "grace"

(***************************************************************************)
(* A zero that is held, not after a reroute, does not stay held: the tick  *)
(* sends it or the route goes on (rgd_hook.c:1561-1600).                   *)
(***************************************************************************)
HeldZeroResolves == (pending = "grace") ~> (pending # "grace")

-----------------------------------------------------------------------------
(* What a comment says, and the code does not do.                          *)

(* "Last route_state actually emitted on the bus (after debounce)"         *)
(* (rgd_hook.c:71): with no frame of the tick on its way, the newest frame *)
(* does not end a route the debounce has going.                            *)
EmittedIsOnBus == tick = "idle" /\ sticky.state = 0 => emitted = 0
=============================================================================
