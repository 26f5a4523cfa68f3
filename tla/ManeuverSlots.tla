--------------------------- MODULE ManeuverSlots ---------------------------
(***************************************************************************)
(* The bounded cache of maneuvers in c_hook/routeguidance/rgd_hook.c.  iOS *)
(* numbers maneuvers without limit; the hook keeps them in slots and tells *)
(* the HMI slot numbers.  A slot has a version, which is to change when    *)
(* the slot is given to another maneuver.                                  *)
(*                                                                         *)
(* slot_seq only orders the slots by their last use: "older" is that order.*)
(* The lanes are in a second cache of the same shape: LaneGuidance.        *)
(***************************************************************************)
EXTENDS Integers, Sequences, FiniteSets

CONSTANTS
  Indices,     \* iOS maneuver indexes
  NoIndex,     \* 0xFFFF, an empty slot
  CacheSize,   \* MANEUVER_CACHE_SIZE, 32
  MaxAssign    \* bound: slots given to a maneuver between two resets

ASSUME IndicesAssumption == Indices \subseteq Nat /\ NoIndex \notin Indices
ASSUME CacheSizeAssumption == CacheSize \in Nat \ {0}
ASSUME AssignBoundAssumption == MaxAssign \in Nat

VARIABLES
  slotIdx,      \* slot_to_iap_idx
  slotVer,      \* slot_ver
  verCounter,   \* ver_counter
  older,        \* slot_seq: <<a, b>> when a was used before b
  cache         \* slot_cache[].present: the fields its maneuver came with

slotVars == <<slotIdx, slotVer, verCounter, older, cache>>

Slots  == 0 .. CacheSize - 1
Fields == {"type", "road"}   \* a maneuver without a type is not listed

SlotTypeOK ==
  /\ slotIdx \in [Slots -> Indices \cup {NoIndex}]
  /\ slotVer \in [Slots -> Nat]
  /\ verCounter \in Nat
  /\ older \subseteq Slots \X Slots
  /\ cache \in [Slots -> SUBSET Fields]

SlotInit ==
  /\ slotIdx = [s \in Slots |-> NoIndex]
  /\ slotVer = [s \in Slots |-> 0]
  /\ verCounter = 0
  /\ older = {}
  /\ cache = [s \in Slots |-> {}]

(* The slots' part of rgd_maneuver_map_reset(): the versions start over.   *)
ResetSlots ==
  /\ slotIdx' = [s \in Slots |-> NoIndex]
  /\ slotVer' = [s \in Slots |-> 0]
  /\ verCounter' = 0
  /\ older' = {}
  /\ cache' = [s \in Slots |-> {}]

Holds(s, idx) == slotIdx[s] = idx
Free == {s \in Slots : slotIdx[s] = NoIndex}
Used == Slots \ Free

Lowest(S) == CHOOSE s \in S : \A t \in S : s =< t

(* The least recently used slot of S.                                      *)
Oldest(S) == CHOOSE s \in S : \A t \in S : <<t, s>> \notin older

(* Mutant: the slots of the current list are evicted like any other.       *)
Evictable_Any(list) == Slots

(* "NEVER evict slots in the active ManeuverList", unless all are in it.   *)
Evictable(list) ==
  LET spare == {s \in Slots : slotIdx[s] \notin list}
  IN  IF spare = {} THEN Slots ELSE spare

(* rgd_slot_for_iap_index(idx, create = true)                              *)
SlotFor(idx, list) ==
  IF \E s \in Slots : Holds(s, idx) THEN Lowest({s \in Slots : Holds(s, idx)})
  ELSE IF Free # {} THEN Lowest(Free)
  ELSE Oldest(Evictable(list))

(* The order after slot s, among the slots used, has been used.            *)
Touch(order, used, s) ==
  {p \in order : p[1] # s /\ p[2] # s} \cup {<<t, s>> : t \in used \ {s}}

(* Mutant: a slot taken over keeps its version.                            *)
NextVersion_Kept == verCounter

NextVersion == verCounter + 1

(***************************************************************************)
(* A maneuver is stored in its slot, found or newly assigned.  One that    *)
(* refers to a linked lane event without lanes of its own looks "link" up  *)
(* among the maneuvers, which counts as a use (rgd_resolve_linked_lanes).  *)
(***************************************************************************)
Store(idx, fields, link, list) ==
  LET s    == SlotFor(idx, list)
      new  == ~Holds(s, idx)
      idxs == [slotIdx EXCEPT ![s] = idx]
      used == Used \cup {s}
      once == Touch(older, used, s)
      refs == {t \in Slots : link # NoIndex /\ idxs[t] = link}
  IN  /\ new => verCounter < MaxAssign
      /\ slotIdx' = idxs
      /\ slotVer' = IF new THEN [slotVer EXCEPT ![s] = NextVersion] ELSE slotVer
      /\ verCounter' = IF new THEN NextVersion ELSE verCounter
      /\ cache' = [cache EXCEPT ![s] = fields]
      /\ older' = IF refs = {} THEN once ELSE Touch(once, used, Lowest(refs))

-----------------------------------------------------------------------------
(***************************************************************************)
(* What the slots are for: two slots never hold the same maneuver, two     *)
(* used slots never have the same version, and only used ones have data.   *)
(***************************************************************************)
SlotsDistinct ==
  \A s, t \in Slots : s # t /\ slotIdx[s] # NoIndex =>
    /\ slotIdx[s] # slotIdx[t]
    /\ slotVer[s] # slotVer[t]

SlotsBounded ==
  \A s \in Slots :
    /\ slotVer[s] =< verCounter
    /\ slotIdx[s] = NoIndex <=> slotVer[s] = 0
    /\ slotIdx[s] = NoIndex => cache[s] = {}

(* The order of use is total on the used slots and concerns no other.      *)
UseOrdered ==
  \A s, t \in Slots :
    /\ <<s, t>> \in older => s # t /\ s \in Used /\ t \in Used
    /\ s # t /\ s \in Used /\ t \in Used =>
         (<<s, t>> \in older) # (<<t, s>> \in older)
=============================================================================
