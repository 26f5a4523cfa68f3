------------------------ MODULE RouteGuidance_proofs ------------------------
(***************************************************************************)
(* Theorems about the route guidance hook and what the HMI shows of it,    *)
(* for every cache size, every set of maneuvers and every set of messages  *)
(* iOS may send.                                                           *)
(***************************************************************************)
EXTENDS RouteGuidanceSystem, LaneGuidance, TLAPS, WellFoundedInduction, FiniteSetTheorems

-----------------------------------------------------------------------------
(* Slots.                                                                  *)

(* Every set of numbers that is not empty has a least one.                 *)
LEMMA LeastNumber ==
  ASSUME NEW T, T \subseteq Nat, T # {}
  PROVE  \E x \in T : \A y \in T : x =< y
<1>1. IsWellFoundedOn(OpToRel(<, Nat), Nat)
  BY NatLessThanWellFounded
<1>2. PICK x \in T : \A y \in T : ~(<<y, x>> \in OpToRel(<, Nat))
  BY <1>1, WFMin
<1>3. ASSUME NEW y \in T, y < x
      PROVE  FALSE
  <2>1. <<y, x>> \in OpToRel(<, Nat)
    BY <1>3, <<y, x>> \in Nat \X Nat DEF OpToRel
  <2> QED
    BY <2>1, <1>2
<1>4. \A y \in T : x =< y
  BY <1>3, x \in Nat
<1> QED
  BY <1>4

(* The loops over the slots find one of those they look for.               *)
LEMMA LowestIsOne ==
  ASSUME NEW S, S \subseteq Slots, S # {}
  PROVE  Lowest(S) \in S
<1>1. S \subseteq Nat
  BY CacheSizeAssumption DEF Slots
<1>2. \E s \in S : \A t \in S : s =< t
  BY <1>1, LeastNumber
<1> QED
  BY <1>2 DEF Lowest

(* What makes "least recently used" well defined: slot_seq itself, which   *)
(* numbers the uses and of which "older" is the order.                     *)
Ranked ==
  \E seq \in [Slots -> Nat], last \in Nat :
    /\ \A s \in Slots : seq[s] =< last
    /\ \A s, t \in Slots : <<s, t>> \in older => seq[s] < seq[t]

LEMMA OldestIsOne ==
  ASSUME NEW S, S \subseteq Slots, S # {}, Ranked
  PROVE  Oldest(S) \in S
<1>1. PICK seq \in [Slots -> Nat] :
        \A s, t \in Slots : <<s, t>> \in older => seq[s] < seq[t]
  BY DEF Ranked
<1> DEFINE T == {seq[s] : s \in S}
<1>2. T \subseteq Nat /\ T # {}
  OBVIOUS
<1>3. PICK n \in T : \A k \in T : n =< k
  BY <1>2, LeastNumber
<1>4. PICK s \in S : seq[s] = n
  OBVIOUS
<1>5. \A t \in S : <<t, s>> \notin older
  <2> SUFFICES ASSUME NEW t \in S, <<t, s>> \in older
               PROVE  FALSE
    OBVIOUS
  <2>1. seq[t] < seq[s]
    BY <1>1
  <2>2. seq[s] =< seq[t]
    BY <1>3, <1>4
  <2> QED
    BY <2>1, <2>2
<1> QED
  BY <1>5 DEF Oldest

(* rgd_slot_for_iap_index() finds the slot of the index or takes over one  *)
(* while no slot holds it.                                                 *)
LEMMA SlotForIsOne ==
  ASSUME NEW idx, NEW list, Ranked
  PROVE  /\ SlotFor(idx, list) \in Slots
         /\ ~Holds(SlotFor(idx, list), idx) => \A s \in Slots : ~Holds(s, idx)
<1>1. CASE \E s \in Slots : Holds(s, idx)
  <2> DEFINE S == {s \in Slots : Holds(s, idx)}
  <2>1. S # {} /\ S \subseteq Slots
    BY <1>1
  <2>2. Lowest(S) \in S
    BY <2>1, LowestIsOne
  <2>3. SlotFor(idx, list) = Lowest(S)
    BY <1>1 DEF SlotFor
  <2> QED
    BY <2>2, <2>3
<1>2. CASE ~\E s \in Slots : Holds(s, idx)
  <2>1. CASE Free # {}
    <3>1. Lowest(Free) \in Slots
      BY <2>1, LowestIsOne DEF Free
    <3> QED
      BY <1>2, <2>1, <3>1 DEF SlotFor
  <2>2. CASE Free = {}
    <3>1. Slots # {}
      BY CacheSizeAssumption DEF Slots
    <3>2. Evictable(list) \subseteq Slots /\ Evictable(list) # {}
      BY <3>1 DEF Evictable
    <3>3. Oldest(Evictable(list)) \in Slots
      BY <3>2, OldestIsOne
    <3> QED
      BY <1>2, <2>2, <3>3 DEF SlotFor
  <2> QED
    BY <2>1, <2>2
<1> QED
  BY <1>1, <1>2

-----------------------------------------------------------------------------
(* The order of use.                                                       *)

(* UseOrdered and Ranked, of any order and any set of used slots.          *)
OrderedOn(order, used) ==
  \A a, b \in Slots :
    /\ <<a, b>> \in order => a # b /\ a \in used /\ b \in used
    /\ a # b /\ a \in used /\ b \in used =>
         (<<a, b>> \in order <=> ~(<<b, a>> \in order))

RankedBy(order, seq, last) ==
  /\ \A a \in Slots : seq[a] =< last
  /\ \A a, b \in Slots : <<a, b>> \in order => seq[a] < seq[b]

RankedOn(order) == \E seq \in [Slots -> Nat], last \in Nat : RankedBy(order, seq, last)

LEMMA InOrder ==
  /\ UseOrdered <=> OrderedOn(older, Used)
  /\ Ranked <=> RankedOn(older)
<1>1. \A a, b \in Slots :
        ((<<a, b>> \in older) # (<<b, a>> \in older))
          <=> (<<a, b>> \in older <=> ~(<<b, a>> \in older))
  OBVIOUS
<1>2. UseOrdered <=> OrderedOn(older, Used)
  BY <1>1 DEF UseOrdered, OrderedOn
<1> QED
  BY <1>2 DEF Ranked, RankedOn, RankedBy

(* A slot that is used becomes the last of an order that stays total.      *)
LEMMA TouchOrders ==
  ASSUME NEW order, NEW used, order \subseteq Slots \X Slots,
         used \subseteq Slots, NEW s \in Slots, OrderedOn(order, used)
  PROVE  OrderedOn(Touch(order, used \cup {s}, s), used \cup {s})
<1> DEFINE O == Touch(order, used \cup {s}, s)
<1> SUFFICES ASSUME NEW a \in Slots, NEW b \in Slots
             PROVE  /\ <<a, b>> \in O => a # b /\ a \in used \cup {s} /\ b \in used \cup {s}
                    /\ a # b /\ a \in used \cup {s} /\ b \in used \cup {s} =>
                         (<<a, b>> \in O <=> ~(<<b, a>> \in O))
  BY DEF OrderedOn
<1>1. <<a, b>> \in O <=> \/ <<a, b>> \in order /\ a # s /\ b # s
                         \/ b = s /\ a \in used /\ a # s
  BY DEF Touch
<1>2. <<b, a>> \in O <=> \/ <<b, a>> \in order /\ a # s /\ b # s
                         \/ a = s /\ b \in used /\ b # s
  BY DEF Touch
<1> QED
  BY <1>1, <1>2 DEF OrderedOn

LEMMA TouchRanks ==
  ASSUME NEW order, NEW used, order \subseteq Slots \X Slots,
         used \subseteq Slots, NEW s \in Slots, RankedOn(order)
  PROVE  RankedOn(Touch(order, used \cup {s}, s))
<1> DEFINE O == Touch(order, used \cup {s}, s)
<1>1. PICK seq \in [Slots -> Nat], last \in Nat : RankedBy(order, seq, last)
  BY DEF RankedOn
<1> DEFINE seq2 == [seq EXCEPT ![s] = last + 1]
<1>2. seq2 \in [Slots -> Nat] /\ last + 1 \in Nat
  OBVIOUS
<1>3. \A a \in Slots : seq2[a] =< last + 1
  BY <1>1 DEF RankedBy
<1>4. ASSUME NEW a \in Slots, NEW b \in Slots, <<a, b>> \in O
      PROVE  seq2[a] < seq2[b]
  <2>1. \/ <<a, b>> \in order /\ a # s /\ b # s
        \/ b = s /\ a # s
    BY <1>4 DEF Touch
  <2> QED
    BY <2>1, <1>1 DEF RankedBy
<1>5. RankedBy(O, seq2, last + 1)
  BY <1>3, <1>4 DEF RankedBy
<1> HIDE DEF O, seq2
<1> QED
  BY <1>2, <1>5 DEF RankedOn, O

LEMMA TouchTypes ==
  ASSUME NEW order, NEW used, order \subseteq Slots \X Slots,
         used \subseteq Slots, NEW s \in Slots
  PROVE  Touch(order, used \cup {s}, s) \subseteq Slots \X Slots
BY DEF Touch

-----------------------------------------------------------------------------
(* A maneuver is stored.                                                   *)

SlotsInv == SlotTypeOK /\ SlotsSound /\ Ranked

LEMMA ResetKeepsSlots ==
  ASSUME ResetSlots
  PROVE  SlotsInv'
<1>1. SlotTypeOK'
  BY DEF ResetSlots, SlotTypeOK, Fields
<1>2. SlotsSound'
  BY IndicesAssumption DEF ResetSlots, SlotsSound, SlotsDistinct, SlotsBounded, UseOrdered, Used, Free
<1>3. Ranked'
  <2> DEFINE seq == [s \in Slots |-> 0]
  <2>1. seq \in [Slots -> Nat] /\ 0 \in Nat
    OBVIOUS
  <2>2. RankedBy(older', seq, 0)
    BY DEF ResetSlots, RankedBy
  <2>3. RankedOn(older')
    BY <2>1, <2>2 DEF RankedOn
  <2> QED
    BY <2>3 DEF Ranked, RankedOn, RankedBy
<1> QED
  BY <1>1, <1>2, <1>3 DEF SlotsInv

LEMMA StoreKeepsSlots ==
  ASSUME SlotsInv, NEW idx \in Indices, NEW fields \in SUBSET Fields,
         NEW link, NEW list, Store(idx, fields, link, list)
  PROVE  SlotsInv'
<1> DEFINE s    == SlotFor(idx, list)
           new  == ~Holds(s, idx)
           idxs == [slotIdx EXCEPT ![s] = idx]
           used == Used \cup {s}
           once == Touch(older, used, s)
           refs == {t \in Slots : link # NoIndex /\ idxs[t] = link}
<1> USE DEF SlotsInv
<1>1. s \in Slots /\ (new => \A t \in Slots : ~Holds(t, idx))
  BY SlotForIsOne
<1>2. /\ slotIdx' = idxs
      /\ slotVer' = IF new THEN [slotVer EXCEPT ![s] = NextVersion] ELSE slotVer
      /\ verCounter' = IF new THEN NextVersion ELSE verCounter
      /\ cache' = [cache EXCEPT ![s] = fields]
      /\ older' = IF refs = {} THEN once ELSE Touch(once, used, Lowest(refs))
  BY DEF Store
<1> HIDE DEF s, new, idxs, used, once, refs
<1>3. idx # NoIndex
  BY IndicesAssumption
<1>4. idxs \in [Slots -> Indices \cup {NoIndex}]
  BY <1>1 DEF idxs, SlotTypeOK
<1>5. \A t \in Slots : idxs[t] = IF t = s THEN idx ELSE slotIdx[t]
  BY <1>1 DEF idxs, SlotTypeOK
<1>6. Used' = used
  BY <1>1, <1>2, <1>3, <1>5 DEF Used, Free, used
<1>7. OrderedOn(once, used) /\ RankedOn(once) /\ once \subseteq Slots \X Slots
  <2>1. older \subseteq Slots \X Slots /\ Used \subseteq Slots
    BY DEF SlotTypeOK, Used
  <2>2. OrderedOn(older, Used) /\ RankedOn(older)
    BY InOrder DEF SlotsSound
  <2> QED
    BY <1>1, <2>1, <2>2, TouchOrders, TouchRanks, TouchTypes DEF once, used
<1>8. OrderedOn(older', used) /\ RankedOn(older') /\ older' \subseteq Slots \X Slots
  <2>1. CASE refs = {}
    BY <1>2, <1>7, <2>1
  <2>2. CASE refs # {}
    <3>1. Lowest(refs) \in refs
      BY <2>2, LowestIsOne DEF refs
    <3>2. Lowest(refs) \in Slots /\ Lowest(refs) \in used
      BY <3>1, <1>3, <1>5 DEF refs, used, Used, Free
    <3>3. used \cup {Lowest(refs)} = used /\ used \subseteq Slots
      BY <3>2, <1>1 DEF used, Used
    <3>4. older' = Touch(once, used \cup {Lowest(refs)}, Lowest(refs))
      BY <1>2, <2>2, <3>3
    <3> HIDE DEF s, new, idxs, used, once, refs
    <3>5. OrderedOn(older', used \cup {Lowest(refs)})
      BY <1>7, <3>2, <3>3, <3>4, TouchOrders
    <3>6. RankedOn(older') /\ older' \subseteq Slots \X Slots
      BY <1>7, <3>2, <3>3, <3>4, TouchRanks, TouchTypes
    <3> QED
      BY <3>3, <3>5, <3>6
  <2> QED
    BY <2>1, <2>2
<1>9. SlotTypeOK'
  <2>1. slotIdx' \in [Slots -> Indices \cup {NoIndex}]
    BY <1>2, <1>4
  <2>2. verCounter' \in Nat /\ NextVersion \in Nat
    BY <1>2 DEF SlotTypeOK, NextVersion
  <2>3. slotVer' \in [Slots -> Nat]
    BY <1>1, <1>2, <2>2 DEF SlotTypeOK
  <2>4. cache' \in [Slots -> SUBSET Fields]
    BY <1>1, <1>2 DEF SlotTypeOK
  <2> QED
    BY <1>8, <2>1, <2>2, <2>3, <2>4 DEF SlotTypeOK
<1>10. SlotsDistinct'
  <2> SUFFICES ASSUME NEW a \in Slots, NEW b \in Slots, a # b, idxs[a] # NoIndex
               PROVE  idxs[a] # idxs[b] /\ slotVer'[a] # slotVer'[b]
    BY <1>2 DEF SlotsDistinct
  <2>1. CASE new
    <3>1. idxs[a] # idxs[b]
      BY <1>1, <1>5, <2>1 DEF Holds, SlotsSound, SlotsDistinct
    <3>2. \A t \in Slots : slotVer'[t] = IF t = s THEN verCounter + 1 ELSE slotVer[t]
      BY <1>1, <1>2, <2>1 DEF SlotTypeOK, NextVersion
    <3>3. slotVer[a] =< verCounter /\ slotVer[b] =< verCounter
      BY DEF SlotsSound, SlotsBounded
    <3>4. slotVer[a] \in Nat /\ slotVer[b] \in Nat /\ verCounter \in Nat
      BY DEF SlotTypeOK
    <3>5. a # s => slotIdx[a] # NoIndex
      BY <1>5
    <3>6. a # s => slotVer[a] # slotVer[b]
      BY <3>5 DEF SlotsSound, SlotsDistinct
    <3>7. slotVer'[a] # slotVer'[b]
      BY <3>2, <3>3, <3>4, <3>6
    <3> QED
      BY <3>1, <3>7
  <2>2. CASE ~new
    <3>1. idxs = slotIdx
      BY <1>1, <2>2 DEF idxs, new, Holds, SlotTypeOK
    <3> QED
      BY <1>2, <2>2, <3>1 DEF SlotsSound, SlotsDistinct
  <2> QED
    BY <2>1, <2>2
<1>11. SlotsBounded'
  <2> SUFFICES ASSUME NEW a \in Slots
               PROVE  /\ slotVer'[a] =< verCounter'
                      /\ idxs[a] = NoIndex <=> slotVer'[a] = 0
                      /\ idxs[a] = NoIndex => cache'[a] = {}
    BY <1>2 DEF SlotsBounded
  <2>1. cache'[a] = IF a = s THEN fields ELSE cache[a]
    BY <1>1, <1>2 DEF SlotTypeOK
  <2>2. slotVer[a] \in Nat /\ verCounter \in Nat
    BY DEF SlotTypeOK
  <2>3. /\ slotVer[a] =< verCounter
        /\ slotIdx[a] = NoIndex <=> slotVer[a] = 0
        /\ slotIdx[a] = NoIndex => cache[a] = {}
    BY DEF SlotsSound, SlotsBounded
  <2>4. CASE new
    <3>1. slotVer'[a] = IF a = s THEN verCounter + 1 ELSE slotVer[a]
      BY <1>1, <1>2, <2>4 DEF SlotTypeOK, NextVersion
    <3>2. verCounter' = verCounter + 1
      BY <1>2, <2>4 DEF NextVersion
    <3> QED
      BY <1>3, <1>5, <2>1, <2>2, <2>3, <3>1, <3>2
  <2>5. CASE ~new
    <3>1. idxs[a] = slotIdx[a] /\ slotVer' = slotVer /\ verCounter' = verCounter
      BY <1>1, <1>2, <1>5, <2>5 DEF new, Holds
    <3>2. idxs[a] = NoIndex => a # s
      BY <1>3, <1>5
    <3> QED
      BY <2>1, <2>3, <3>1, <3>2
  <2> QED
    BY <2>4, <2>5
<1>12. UseOrdered' /\ Ranked'
  <2>1. \A a, b \in Slots :
          ((<<a, b>> \in older') # (<<b, a>> \in older'))
            <=> (<<a, b>> \in older' <=> ~(<<b, a>> \in older'))
    OBVIOUS
  <2>2. UseOrdered'
    BY <1>6, <1>8, <2>1 DEF UseOrdered, OrderedOn
  <2> QED
    BY <1>8, <2>2 DEF Ranked, RankedOn, RankedBy
<1> QED
  BY <1>9, <1>10, <1>11, <1>12 DEF SlotsSound

-----------------------------------------------------------------------------
(* The steps of the hook.                                                  *)

HookInv == SlotsInv /\ DebounceInv

LEMMA InitHolds == HookInit => HookInv
<1> SUFFICES ASSUME HookInit
             PROVE  HookInv
  OBVIOUS
<1>1. SlotTypeOK
  BY DEF HookInit, SlotInit, SlotTypeOK, Fields
<1>2. SlotsSound
  BY IndicesAssumption DEF HookInit, SlotInit, SlotsSound, SlotsDistinct,
     SlotsBounded, UseOrdered, Used, Free
<1>3. Ranked
  <2> DEFINE seq == [s \in Slots |-> 0]
  <2>1. seq \in [Slots -> Nat] /\ RankedBy(older, seq, 0)
    BY DEF HookInit, SlotInit, RankedBy
  <2>2. RankedOn(older)
    BY <2>1 DEF RankedOn
  <2> QED
    BY <2>2, InOrder
<1>4. DebounceInv
  BY DEF HookInit, DebounceInv, ZeroIsDecided, NoFrame, Bare, Absent, Rerouting
<1> QED
  BY <1>1, <1>2, <1>3, <1>4 DEF HookInv, SlotsInv

LEMMA SlotsUnchanged ==
  ASSUME SlotsInv, UNCHANGED slotVars
  PROVE  SlotsInv'
<1>1. slotIdx' = slotIdx /\ slotVer' = slotVer /\ verCounter' = verCounter
      /\ older' = older /\ cache' = cache
  BY DEF slotVars
<1> QED
  BY <1>1 DEF SlotsInv, SlotTypeOK, SlotsSound, SlotsDistinct, SlotsBounded,
     UseOrdered, Used, Free, Ranked

(* A snapshot says of the route what the update cache says.                *)
LEMMA SnapshotDecided ==
  ASSUME SendSnapshot, updState' = 0 => emitted' = 0
  PROVE  ZeroIsDecided'
<1>1. sticky'.state = updState'
  BY DEF SendSnapshot, Snapshot
<1> QED
  BY <1>1 DEF ZeroIsDecided

LEMMA ClearFrameDecided ==
  ASSUME sticky' = ClearFrame, ClearState
  PROVE  SlotsInv' /\ DebounceInv'
<1>1. SlotsInv'
  BY ResetKeepsSlots DEF ClearState, ResetMap
<1>2. DebounceInv'
  BY DEF ClearState, ResetUpdate, CancelZero, DebounceInv, ZeroIsDecided, Absent
<1> QED
  BY <1>1, <1>2

LEMMA UpdateKeepsInv ==
  ASSUME HookInv, NEW m \in Updates, ReceiveUpdate(m)
  PROVE  HookInv'
<1> USE DEF HookInv
<1>1. m.state \in Nat \cup {Absent} /\ Absent = -1
  BY UpdatesAssumption, RouteStatesAssumption DEF Update, Present, Absent
<1>2. CASE HardClear(m)
  <2>1. SlotsInv'
    BY <1>2, ResetKeepsSlots DEF HardClear
  <2>2. DebounceInv'
    BY <1>2, SnapshotDecided DEF HardClear, CancelZero, DebounceInv, Rerouting
  <2> QED
    BY <2>1, <2>2
<1>3. CASE StillEnded(m)
  <2>1. SlotsInv'
    BY <1>3, SlotsUnchanged DEF StillEnded, WriteUpdate
  <2>2. emitted' = 0
    BY <1>3 DEF StillEnded, IsHeld
  <2>3. DebounceInv'
    BY <1>3, <2>2, SnapshotDecided DEF StillEnded, WriteUpdate, DebounceInv, Rerouting
  <2> QED
    BY <2>1, <2>3
<1>4. CASE ZeroHeld(m)
  <2>1. SlotsInv'
    <3>1. CASE lastState > 0
      BY <1>4, <3>1, ResetKeepsSlots DEF ZeroHeld, ResetMap
    <3>2. CASE ~(lastState > 0)
      BY <1>4, <3>2, SlotsUnchanged DEF ZeroHeld
    <3> QED
      BY <3>1, <3>2
  <2>2. emitted = Rerouting => pending' # "grace"
    BY <1>4 DEF ZeroHeld, HoldZero, FromReroute, DebounceInv
  <2>3. emitted' = emitted /\ sticky' = sticky /\ updState' = Absent
    BY <1>4 DEF ZeroHeld, ResetUpdate
  <2>4. DebounceInv'
    BY <2>2, <2>3 DEF DebounceInv, ZeroIsDecided, Absent
  <2> QED
    BY <2>1, <2>4
<1>5. CASE RouteActive(m)
  <2>1. SlotsInv'
    BY <1>5, SlotsUnchanged DEF RouteActive, WriteUpdate
  <2>2. updState' = m.state /\ m.state # 0
    BY <1>1, <1>5 DEF RouteActive, WriteUpdate, Merge, Absent
  <2>3. DebounceInv'
    BY <1>5, <2>2, SnapshotDecided DEF RouteActive, WriteUpdate, CancelZero, DebounceInv
  <2> QED
    BY <2>1, <2>3
<1>6. CASE ActiveEvidence(m)
  <2>1. SlotsInv'
    BY <1>6, SlotsUnchanged DEF ActiveEvidence, WriteUpdate
  <2>2. updState' = updState /\ emitted' = emitted
    BY <1>6 DEF ActiveEvidence, WriteUpdate, Merge
  <2>3. DebounceInv'
    BY <1>6, <2>2, SnapshotDecided DEF ActiveEvidence, WriteUpdate, CancelZero, DebounceInv
  <2> QED
    BY <2>1, <2>3
<1>7. CASE ResetOnly(m)
  <2>1. CASE pending # "none" /\ m.supports # 0
    <3>1. UNCHANGED <<debVars, updVars, slotVars, sticky>>
      BY <1>7, <2>1 DEF ResetOnly
    <3>2. SlotsInv'
      BY <3>1, SlotsUnchanged
    <3>3. DebounceInv'
      BY <3>1 DEF debVars, updVars, DebounceInv, ZeroIsDecided
    <3> QED
      BY <3>2, <3>3
  <2>2. CASE ~(pending # "none" /\ m.supports # 0)
    <3>1. WriteUpdate(m) /\ UNCHANGED debVars /\ m.state = Absent
      BY <1>7, <2>2 DEF ResetOnly
    <3>2. SlotsInv'
      BY <3>1, SlotsUnchanged DEF WriteUpdate
    <3>3. updState' = updState
      BY <3>1 DEF WriteUpdate, Merge
    <3>4. DebounceInv'
      BY <3>1, <3>3, SnapshotDecided DEF WriteUpdate, debVars, DebounceInv
    <3> QED
      BY <3>2, <3>4
  <2> QED
    BY <2>1, <2>2
<1> QED
  BY <1>2, <1>3, <1>4, <1>5, <1>6, <1>7 DEF ReceiveUpdate

LEMMA ManeuverKeepsInv ==
  ASSUME HookInv, NEW m \in Maneuvers, ReceiveManeuver(m)
  PROVE  HookInv'
<1> USE DEF HookInv
<1>1. m.idx \in Indices /\ m.fields \in SUBSET Fields
  BY ManeuversAssumption DEF Maneuver
<1>2. pending' = "none" /\ emitted' = emitted
  BY DEF ReceiveManeuver, CancelZero
<1>3. CASE m.fields # {} /\ CanProcess(m.idx)
  <2>1. /\ Store(m.idx, m.fields, m.link, ListedIndices)
        /\ updState' = updState
        /\ SendSnapshot
    BY <1>3 DEF ReceiveManeuver, updVars
  <2>2. SlotsInv'
    BY <1>1, <2>1, StoreKeepsSlots
  <2>3. DebounceInv'
    BY <1>2, <2>1, SnapshotDecided DEF DebounceInv
  <2> QED
    BY <2>2, <2>3
<1>4. CASE ~(m.fields # {} /\ CanProcess(m.idx))
  <2>1. UNCHANGED <<updVars, slotVars, sticky>>
    BY <1>4 DEF ReceiveManeuver
  <2>2. SlotsInv'
    BY <2>1, SlotsUnchanged
  <2>3. DebounceInv'
    BY <1>2, <2>1 DEF updVars, DebounceInv, ZeroIsDecided
  <2> QED
    BY <2>2, <2>3
<1> QED
  BY <1>3, <1>4

LEMMA NextKeepsInv == HookInv /\ [HookNext]_hookVars => HookInv'
<1> SUFFICES ASSUME HookInv, [HookNext]_hookVars
             PROVE  HookInv'
  OBVIOUS
<1> USE DEF HookInv
<1>1. ASSUME NEW m \in Updates, ReceiveUpdate(m)
      PROVE  HookInv'
  BY <1>1, UpdateKeepsInv
<1>2. ASSUME NEW m \in Maneuvers, ReceiveManeuver(m)
      PROVE  HookInv'
  BY <1>2, ManeuverKeepsInv
<1>3. CASE ReceiveLane
  <2>1. SlotsInv'
    BY <1>3, SlotsUnchanged DEF ReceiveLane
  <2>2. updState' = updState /\ emitted' = emitted /\ pending' = "none"
    BY <1>3 DEF ReceiveLane, updVars, CancelZero
  <2>3. ZeroIsDecided'
    <3>1. CASE SendSnapshot
      BY <2>2, <3>1, SnapshotDecided DEF DebounceInv
    <3>2. CASE UNCHANGED sticky
      BY <2>2, <3>2 DEF DebounceInv, ZeroIsDecided
    <3> QED
      BY <1>3, <3>1, <3>2 DEF ReceiveLane
  <2> QED
    BY <2>1, <2>2, <2>3 DEF DebounceInv
<1>4. CASE GracePasses
  <2>1. SlotsInv'
    BY <1>4, SlotsUnchanged DEF GracePasses
  <2> QED
    BY <1>4, <2>1 DEF GracePasses, updVars, DebounceInv, ZeroIsDecided
<1>5. CASE TickClaims
  <2>1. SlotsInv'
    BY <1>5, SlotsUnchanged DEF TickClaims
  <2> QED
    BY <1>5, <2>1 DEF TickClaims, CancelZero, DebounceInv, ZeroIsDecided, Rerouting
<1>6. CASE TickSends
  <2>1. SlotsInv'
    BY <1>6, SlotsUnchanged DEF TickSends
  <2> QED
    BY <1>6, <2>1 DEF TickSends, updVars, debVars, DebounceInv, ZeroIsDecided
<1>7. CASE LazyInit \/ IdentifyEnd \/ Shutdown
  BY <1>7, ClearFrameDecided DEF LazyInit, IdentifyEnd, Shutdown
<1>8. CASE Respawn
  <2>1. SlotsInv'
    BY <1>8, ResetKeepsSlots DEF Respawn, ClearState, ResetMap
  <2> QED
    BY <1>8, <2>1 DEF Respawn, ClearState, ResetUpdate, CancelZero, DebounceInv,
       ZeroIsDecided, NoFrame, Bare, Absent, Rerouting
<1>9. CASE UNCHANGED hookVars
  <2>1. SlotsInv'
    BY <1>9, SlotsUnchanged DEF hookVars
  <2> QED
    BY <1>9, <2>1 DEF hookVars, updVars, debVars, DebounceInv, ZeroIsDecided
<1> QED
  BY <1>1, <1>2, <1>3, <1>4, <1>5, <1>6, <1>7, <1>8, <1>9 DEF HookNext

LEMMA HookInvHolds == HookSpec => []HookInv
<1>1. HookInit => HookInv
  BY InitHolds
<1>2. HookInv /\ [HookNext]_hookVars => HookInv'
  BY NextKeepsInv
<1> QED
  BY <1>1, <1>2, PTL DEF HookSpec

-----------------------------------------------------------------------------
(***************************************************************************)
(* Over evictions, refused maneuvers and resets no two slots hold the same *)
(* maneuver or have the same version, however many maneuvers iOS numbers.  *)
(***************************************************************************)
THEOREM SlotsAreSound == HookSpec => [](SlotTypeOK /\ SlotsSound)
<1>1. HookInv => SlotTypeOK /\ SlotsSound
  BY DEF HookInv, SlotsInv
<1> QED
  BY <1>1, HookInvHolds, PTL

(***************************************************************************)
(* The handlers put no route_state 0 on the bus that the debounce has not  *)
(* decided, whatever messages iOS sends in whatever order.                 *)
(***************************************************************************)
THEOREM ZerosAreDecided == HookSpec => []ZeroIsDecided
<1>1. HookInv => ZeroIsDecided
  BY DEF HookInv, DebounceInv
<1> QED
  BY <1>1, HookInvHolds, PTL

(***************************************************************************)
(* rgd_periodic_tick() never ends a route that was being rerouted.         *)
(***************************************************************************)
THEOREM ReroutesHaveNoTimeout == HookSpec => RerouteHasNoTimeout
<1>1. ASSUME HookInv, [HookNext]_hookVars
      PROVE  [tick = "idle" /\ tick' = "send" => emitted # Rerouting]_hookVars
  <2>1. ASSUME tick = "idle", tick' = "send", HookNext
        PROVE  TickClaims
    BY <2>1 DEF HookNext, ReceiveUpdate, ReceiveManeuver, ReceiveLane,
       GracePasses, TickSends, LazyInit, IdentifyEnd, Shutdown, Respawn
  <2> QED
    BY <1>1, <2>1 DEF TickClaims, HookInv, DebounceInv
<1> QED
  BY <1>1, HookInvHolds, PTL DEF HookSpec, RerouteHasNoTimeout

-----------------------------------------------------------------------------
(* Listed maneuvers.                                                       *)

(* While one slot is not listed, none that is listed is taken over.        *)
LEMMA SparedSlots ==
  ASSUME HookInv, NEW idx, NEW list, \E s \in Slots : slotIdx[s] \notin list,
         NoIndex \notin list,
         ~Holds(SlotFor(idx, list), idx)
  PROVE  slotIdx[SlotFor(idx, list)] \notin list
<1>1. ~\E s \in Slots : Holds(s, idx)
  BY SlotForIsOne DEF HookInv, SlotsInv
<1>2. CASE Free # {}
  <2>1. Lowest(Free) \in Free
    BY <1>2, LowestIsOne DEF Free
  <2> QED
    BY <1>1, <1>2, <2>1 DEF SlotFor, Free
<1>3. CASE Free = {}
  <2>1. Evictable(list) = {s \in Slots : slotIdx[s] \notin list}
    BY DEF Evictable
  <2>2. Evictable(list) \subseteq Slots /\ Evictable(list) # {}
    BY <2>1
  <2>3. Oldest(Evictable(list)) \in Evictable(list)
    BY <2>2, OldestIsOne DEF HookInv, SlotsInv
  <2>4. SlotFor(idx, list) = Oldest(Evictable(list))
    BY <1>1, <1>3 DEF SlotFor
  <2> QED
    BY <2>1, <2>3, <2>4
<1> QED
  BY <1>2, <1>3

ListInv == curList \in Lists

LEMMA ListLength ==
  ASSUME NEW l \in Lists
  PROVE  \E n \in 0 .. MaxList : l \in [1 .. n -> Indices] /\ Len(l) = n
<1>1. CASE l = << >>
  <2>1. l \in [1 .. 0 -> Indices] /\ Len(l) = 0
    BY <1>1
  <2>2. 0 \in 0 .. MaxList
    BY MaxListAssumption
  <2> QED
    BY <2>1, <2>2
<1>2. CASE l # << >>
  <2>1. PICK n \in 1 .. MaxList : l \in [1 .. n -> Indices]
    BY <1>2 DEF Lists
  <2>2. Len(l) = n /\ n \in 0 .. MaxList
    BY <2>1, MaxListAssumption
  <2> QED
    BY <2>1, <2>2
<1> QED
  BY <1>1, <1>2

(* The pigeonhole principle: MAX_MANEUVER_LIST < MANEUVER_CACHE_SIZE.      *)
LEMMA NotAllListed ==
  ASSUME HookInv, ListInv
  PROVE  /\ \E s \in Slots : slotIdx[s] \notin ListedIndices
         /\ NoIndex \notin ListedIndices
<1>1. PICK n \in 0 .. MaxList : curList \in [1 .. n -> Indices] /\ Len(curList) = n
  BY ListLength DEF ListInv
<1>2. Members(curList) = {curList[i] : i \in 1 .. n}
  BY <1>1 DEF Members
<1>3. NoIndex \notin Members(curList)
  BY <1>1, <1>2, IndicesAssumption
<1>4. ASSUME \A s \in Slots : slotIdx[s] \in Members(curList)
      PROVE  FALSE
  <2> DEFINE place == [s \in Slots |-> CHOOSE i \in 1 .. n : curList[i] = slotIdx[s]]
  <2>1. \A s \in Slots : place[s] \in 1 .. n /\ curList[place[s]] = slotIdx[s]
    BY <1>2, <1>4
  <2>2. place \in [Slots -> 1 .. n]
    BY <2>1
  <2>3. /\ IsFiniteSet(Slots) /\ Cardinality(Slots) = CacheSize
        /\ IsFiniteSet(1 .. n) /\ Cardinality(1 .. n) = n
    <3>1. 0 \in Int /\ CacheSize - 1 \in Int /\ 1 \in Int /\ n \in Int
      BY CacheSizeAssumption, MaxListAssumption
    <3> QED
      BY <3>1, FS_Interval, CacheSizeAssumption, MaxListAssumption DEF Slots
  <2>4. Cardinality(1 .. n) < Cardinality(Slots)
    BY <2>3, MaxListAssumption, CacheSizeAssumption
  <2>5. PICK a \in Slots, b \in Slots : a # b /\ place[a] = place[b]
    <3> HIDE DEF place
    <3> QED
      BY <2>2, <2>3, <2>4, FS_PigeonHole
  <2>6. slotIdx[a] = slotIdx[b] /\ slotIdx[a] # NoIndex
    BY <1>3, <1>4, <2>1, <2>5
  <2> QED
    BY <2>5, <2>6 DEF HookInv, SlotsInv, SlotsSound, SlotsDistinct
<1>5. Slots # {}
  BY CacheSizeAssumption DEF Slots
<1> QED
  BY <1>3, <1>4, <1>5 DEF ListedIndices

LEMMA ListNext == ListInv /\ [HookNext]_hookVars => ListInv'
<1> SUFFICES ASSUME ListInv, [HookNext]_hookVars
             PROVE  curList' \in Lists
  BY DEF ListInv
<1>1. << >> \in Lists
  BY DEF Lists
<1>2. ASSUME NEW m \in Updates, ReceiveUpdate(m)
      PROVE  curList' = curList \/ curList' = << >> \/ curList' = m.list
  BY <1>2 DEF ReceiveUpdate, HardClear, StillEnded, ZeroHeld, RouteActive,
     ActiveEvidence, ResetOnly, WriteUpdate, TakeList, ResetMap, listVars
<1>3. \A m \in Updates : m.list \in Lists
  BY UpdatesAssumption DEF Update
<1>4. ASSUME NEW m \in Maneuvers, ReceiveManeuver(m)
      PROVE  curList' = curList
  BY <1>4 DEF ReceiveManeuver, listVars
<1>5. CASE ReceiveLane \/ GracePasses \/ TickClaims \/ TickSends
  BY <1>5 DEF ReceiveLane, GracePasses, TickClaims, TickSends, listVars, ListInv
<1>6. CASE LazyInit \/ IdentifyEnd \/ Shutdown \/ Respawn
  BY <1>1, <1>6 DEF LazyInit, IdentifyEnd, Shutdown, Respawn, ClearState, ResetMap
<1>7. CASE UNCHANGED hookVars
  BY <1>7 DEF hookVars, listVars, ListInv
<1> QED
  BY <1>1, <1>2, <1>3, <1>4, <1>5, <1>6, <1>7 DEF HookNext, ListInv

LEMMA ListInvHolds == HookSpec => []ListInv
<1>1. HookInit => ListInv
  BY DEF HookInit, ListInv, Lists
<1> QED
  BY <1>1, ListNext, PTL DEF HookSpec

LEMMA StoringSpares ==
  ASSUME HookInv, ListInv, NEW m \in Maneuvers,
         Store(m.idx, m.fields, m.link, ListedIndices), verCounter' > verCounter,
         NEW s \in Slots, slotIdx[s] \in ListedIndices
  PROVE  slotIdx'[s] = slotIdx[s] /\ cache'[s] = cache[s]
<1> DEFINE t == SlotFor(m.idx, ListedIndices)
<1>1. /\ slotIdx' = [slotIdx EXCEPT ![t] = m.idx]
      /\ cache' = [cache EXCEPT ![t] = m.fields]
      /\ verCounter' = IF ~Holds(t, m.idx) THEN NextVersion ELSE verCounter
  BY DEF Store
<1>2. ~Holds(t, m.idx)
  <2> SUFFICES ASSUME Holds(t, m.idx)
               PROVE  FALSE
    OBVIOUS
  <2>1. verCounter' = verCounter /\ verCounter \in Nat
    BY <1>1 DEF HookInv, SlotsInv, SlotTypeOK
  <2> QED
    BY <2>1
<1>3. slotIdx[t] \notin ListedIndices
  BY <1>2, NotAllListed, SparedSlots
<1>4. s # t
  BY <1>3
<1> QED
  BY <1>1, <1>4 DEF HookInv, SlotsInv, SlotTypeOK

(***************************************************************************)
(* Storing a maneuver takes no slot from one that is listed: the list is   *)
(* shorter than the cache, so that there is always another.                *)
(***************************************************************************)
THEOREM ListedAreKept == HookSpec => StoringKeepsListed
<1>1. ASSUME HookInv, ListInv, [HookNext]_hookVars
      PROVE  [verCounter' > verCounter =>
                \A s \in Slots : slotIdx[s] \in ListedIndices =>
                  slotIdx'[s] = slotIdx[s] /\ cache'[s] = cache[s]]_hookVars
  <2> SUFFICES ASSUME HookNext, verCounter' > verCounter,
                      NEW s \in Slots, slotIdx[s] \in ListedIndices
               PROVE  slotIdx'[s] = slotIdx[s] /\ cache'[s] = cache[s]
    BY <1>1
  <2>1. verCounter \in Nat
    BY <1>1 DEF HookInv, SlotsInv, SlotTypeOK
  <2>2. ~ResetSlots /\ ~UNCHANGED slotVars
    BY <2>1 DEF ResetSlots, slotVars
  <2>3. PICK m \in Maneuvers : ReceiveManeuver(m)
    BY <2>2 DEF HookNext, ReceiveUpdate, HardClear, StillEnded, ZeroHeld,
       RouteActive, ActiveEvidence, ResetOnly, WriteUpdate, ResetMap,
       ReceiveLane, GracePasses, TickClaims, TickSends, LazyInit, IdentifyEnd,
       Shutdown, Respawn, ClearState
  <2>4. Store(m.idx, m.fields, m.link, ListedIndices)
    BY <2>2, <2>3 DEF ReceiveManeuver
  <2> QED
    BY <1>1, <2>4, StoringSpares
<1> QED
  BY <1>1, HookInvHolds, ListInvHolds, PTL DEF HookSpec, StoringKeepsListed

-----------------------------------------------------------------------------
(* What the snapshot lists.                                                *)

(* Counted from the least, a set of n numbers has a k-th for every k =< n. *)
LEMMA NthIsOne ==
  ASSUME NEW n \in Nat, NEW S, S \subseteq 1 .. n, NEW k \in 1 .. Cardinality(S)
  PROVE  Nth(S, k) \in S
<1> DEFINE Upto(i) == {j \in S : j =< i}
           C(i) == Cardinality(Upto(i))
           T == {i \in 0 .. n : C(i) >= k}
<1>1. IsFiniteSet(S) /\ Cardinality(S) \in Nat
  <2>1. IsFiniteSet(1 .. n)
    BY FS_Interval, 1 \in Int, n \in Int
  <2>2. IsFiniteSet(S)
    BY <2>1, FS_Subset
  <2> QED
    BY <2>2, FS_CardinalityType
<1>2. ASSUME NEW i
      PROVE  IsFiniteSet(Upto(i)) /\ C(i) \in Nat
  <2>1. Upto(i) \subseteq S
    OBVIOUS
  <2> HIDE DEF Upto
  <2>2. IsFiniteSet(Upto(i))
    BY <1>1, <2>1, FS_Subset
  <2> QED
    BY <2>2, FS_CardinalityType
<1>3. n \in T
  <2>1. Upto(n) = S
    <3>1. \A j \in S : j =< n
      OBVIOUS
    <3> QED
      BY <3>1
  <2>2. C(n) = Cardinality(S)
    <3> HIDE DEF Upto
    <3> QED
      BY <2>1
  <2> HIDE DEF C
  <2> QED
    BY <1>1, <2>2
<1>4. PICK i \in T : \A j \in T : i =< j
  <2>1. T \subseteq Nat
    <3> HIDE DEF C
    <3> QED
      OBVIOUS
  <2> HIDE DEF T
  <2> QED
    BY <1>3, <2>1, LeastNumber
<1>5. i \in 0 .. n /\ C(i) >= k
  <2> HIDE DEF C
  <2> QED
    BY <1>4
<1>6. i # 0
  <2>1. Upto(0) = {}
    <3>1. \A j \in S : ~(j =< 0)
      OBVIOUS
    <3> QED
      BY <3>1
  <2>2. C(0) = 0
    <3> HIDE DEF Upto
    <3> QED
      BY <2>1, FS_EmptySet
  <2> HIDE DEF C
  <2> QED
    BY <1>1, <1>5, <2>2
<1>7. i - 1 \in 0 .. n /\ C(i - 1) < k
  <2>1. C(i - 1) \in Nat
    BY <1>2
  <2>2. i - 1 \in 0 .. n /\ ~(i =< i - 1)
    BY <1>5, <1>6
  <2> HIDE DEF C
  <2> QED
    BY <1>1, <1>4, <2>1, <2>2
<1>8. i \in S
  <2> SUFFICES ASSUME i \notin S
               PROVE  FALSE
    OBVIOUS
  <2>1. \A j \in S : j =< i <=> j =< i - 1
    BY <1>5
  <2>2. Upto(i) = Upto(i - 1)
    BY <2>1
  <2>3. C(i) = C(i - 1)
    BY <2>2
  <2>4. C(i) \in Nat /\ k \in Nat
    BY <1>1, <1>2
  <2> HIDE DEF C
  <2> QED
    BY <1>5, <1>7, <2>3, <2>4
<1>9. C(i) = C(i - 1) + 1
  <2>1. \A j \in S : j =< i <=> j =< i - 1 \/ j = i
    BY <1>5
  <2>2. ~(i =< i - 1)
    BY <1>5
  <2>3. Upto(i) = Upto(i - 1) \cup {i} /\ i \notin Upto(i - 1)
    BY <1>8, <2>1, <2>2
  <2>4. IsFiniteSet(Upto(i - 1))
    BY <1>2
  <2> HIDE DEF Upto
  <2>5. Cardinality(Upto(i - 1) \cup {i}) = Cardinality(Upto(i - 1)) + 1
    BY <2>3, <2>4, FS_AddElement
  <2> QED
    BY <2>3, <2>5
<1>10. C(i) = k
  <2>1. C(i - 1) \in Nat
    BY <1>2
  <2>2. k \in Nat
    BY <1>1
  <2> HIDE DEF C
  <2> QED
    BY <1>5, <1>7, <1>9, <2>1, <2>2
<1> QED
  BY <1>8, <1>10 DEF Nth

(* What the order lists are slots that hold a maneuver of the list.        *)
LEMMA OrderIsOfSlots ==
  ListInv => Members(Order) \subseteq {s \in Slots : slotIdx[s] # NoIndex}
<1> SUFFICES ASSUME ListInv, NEW s \in Members(Order)
             PROVE  s \in Slots /\ slotIdx[s] # NoIndex
  OBVIOUS
<1>1. PICK n \in 0 .. MaxList : curList \in [1 .. n -> Indices]
  BY ListLength DEF ListInv
<1>2. n \in Nat /\ Listable \subseteq 1 .. n
  BY <1>1, MaxListAssumption DEF Listable
<1>3. IsFiniteSet(Listable) /\ Cardinality(Listable) \in Nat
  <2>1. IsFiniteSet(1 .. n)
    BY <1>2, FS_Interval, 1 \in Int, n \in Int
  <2>2. IsFiniteSet(Listable)
    BY <1>2, <2>1, FS_Subset
  <2> QED
    BY <2>2, FS_CardinalityType
<1>4. PICK k \in 1 .. Cardinality(Listable) :
        s = SlotOf(curList[Nth(Listable, k)])
  <2>1. Len(Order) = Cardinality(Listable)
    BY <1>3 DEF Order
  <2> QED
    BY <2>1 DEF Members, Order
<1> DEFINE idx == curList[Nth(Listable, k)]
<1>5. Nth(Listable, k) \in Listable
  BY <1>2, NthIsOne
<1>6. idx \in Indices /\ \E t \in Slots : Holds(t, idx)
  BY <1>1, <1>2, <1>5 DEF Listable
<1>7. SlotOf(idx) \in {t \in Slots : Holds(t, idx)}
  <2> DEFINE S == {t \in Slots : Holds(t, idx)}
  <2>1. S # {} /\ S \subseteq Slots
    BY <1>6
  <2> HIDE DEF idx
  <2> QED
    BY <2>1, LowestIsOne DEF SlotOf
<1> QED
  BY <1>4, <1>6, <1>7, IndicesAssumption DEF Holds

(* While a list is known, the newest frame has what the slots it lists     *)
(* hold, or ended the route.                                               *)
FrameOfSlots ==
  listPresent =>
    /\ sticky.hasOrder \/ sticky.state = 0
    /\ sticky.hasOrder =>
         \A s \in Members(sticky.order) :
           /\ s \in Slots /\ slotIdx[s] # NoIndex
           /\ sticky.man[s] = [idx |-> slotIdx[s], ver |-> slotVer[s]]

(* A clear has no keys at all.                                             *)
ClearIsBare == sticky.kind = "clear" => ~sticky.hasOrder

FrameInv == ListInv /\ FrameOfSlots /\ ClearIsBare

LEMMA SnapshotShows ==
  ListInv /\ sticky = Snapshot => FrameOfSlots /\ ClearIsBare
<1> SUFFICES ASSUME ListInv, sticky = Snapshot
             PROVE  FrameOfSlots /\ ClearIsBare
  OBVIOUS
<1>1. ClearIsBare
  BY DEF Snapshot, ClearIsBare
<1>2. ASSUME listPresent, NEW s \in Members(sticky.order)
      PROVE  /\ s \in Slots /\ slotIdx[s] # NoIndex
             /\ sticky.man[s] = [idx |-> slotIdx[s], ver |-> slotVer[s]]
  <2>1. s \in Members(Order)
    BY <1>2 DEF Snapshot
  <2>2. s \in Slots /\ slotIdx[s] # NoIndex
    BY <2>1, OrderIsOfSlots
  <2> QED
    BY <1>2, <2>1, <2>2 DEF Snapshot, Sent
<1>3. listPresent => sticky.hasOrder
  BY DEF Snapshot
<1> QED
  BY <1>1, <1>2, <1>3 DEF FrameOfSlots

LEMMA SnapshotSent ==
  ASSUME ListInv', SendSnapshot
  PROVE  FrameOfSlots' /\ ClearIsBare'
<1>1. (ListInv /\ sticky = Snapshot => FrameOfSlots /\ ClearIsBare)'
  BY SnapshotShows, PTL
<1> QED
  BY <1>1 DEF SendSnapshot

(* A frame that is kept still tells what it told.                          *)
LEMMA FrameKept ==
  ASSUME FrameOfSlots, ClearIsBare, sticky' = sticky,
         listPresent' => listPresent /\ UNCHANGED slotVars
  PROVE  FrameOfSlots' /\ ClearIsBare'
BY DEF FrameOfSlots, ClearIsBare, slotVars

LEMMA BareFrame ==
  ASSUME sticky' \in {ClearFrame, TickFrame}
  PROVE  FrameOfSlots' /\ ClearIsBare'
BY DEF ClearFrame, TickFrame, Bare, FrameOfSlots, ClearIsBare

LEMMA FrameNext == FrameInv /\ [HookNext]_hookVars => FrameInv'
<1> SUFFICES ASSUME FrameInv, [HookNext]_hookVars
             PROVE  FrameOfSlots' /\ ClearIsBare'
  BY ListNext DEF FrameInv
<1> USE DEF FrameInv
<1>0. SendSnapshot => FrameOfSlots' /\ ClearIsBare'
  BY ListNext, SnapshotSent
<1>1. ASSUME NEW m \in Updates, ReceiveUpdate(m)
      PROVE  FrameOfSlots' /\ ClearIsBare'
  <2>1. CASE ZeroHeld(m)
    <3>1. sticky' = sticky /\ (listPresent' => listPresent /\ UNCHANGED slotVars)
      BY <2>1 DEF ZeroHeld, ResetMap, listVars
    <3> QED
      BY <3>1, FrameKept
  <2>2. CASE ResetOnly(m) /\ pending # "none" /\ m.supports # 0
    <3>1. sticky' = sticky /\ listPresent' = listPresent /\ UNCHANGED slotVars
      BY <2>2 DEF ResetOnly, listVars
    <3> QED
      BY <3>1, FrameKept
  <2>3. CASE SendSnapshot
    BY <1>0, <2>3
  <2> QED
    BY <1>1, <2>1, <2>2, <2>3
       DEF ReceiveUpdate, HardClear, StillEnded, RouteActive, ActiveEvidence,
           ResetOnly, WriteUpdate
<1>2. ASSUME NEW m \in Maneuvers, ReceiveManeuver(m)
      PROVE  FrameOfSlots' /\ ClearIsBare'
  <2>1. \/ SendSnapshot
        \/ sticky' = sticky /\ listPresent' = listPresent /\ UNCHANGED slotVars
    BY <1>2 DEF ReceiveManeuver, listVars
  <2> QED
    BY <1>0, <2>1, FrameKept
<1>3. CASE ReceiveLane
  <2>1. \/ SendSnapshot
        \/ sticky' = sticky /\ listPresent' = listPresent /\ UNCHANGED slotVars
    BY <1>3 DEF ReceiveLane, listVars
  <2> QED
    BY <1>0, <2>1, FrameKept
<1>4. CASE GracePasses \/ TickClaims \/ UNCHANGED hookVars
  <2>1. sticky' = sticky /\ listPresent' = listPresent /\ UNCHANGED slotVars
    BY <1>4 DEF GracePasses, TickClaims, hookVars, listVars
  <2> QED
    BY <2>1, FrameKept
<1>5. CASE TickSends \/ LazyInit \/ IdentifyEnd \/ Shutdown
  <2>1. sticky' \in {ClearFrame, TickFrame}
    BY <1>5 DEF TickSends, LazyInit, IdentifyEnd, Shutdown
  <2> QED
    BY <2>1, BareFrame
<1>6. CASE Respawn
  BY <1>6 DEF Respawn, ClearState, ResetMap, FrameOfSlots, ClearIsBare,
     NoFrame, Bare
<1> QED
  BY <1>1, <1>2, <1>3, <1>4, <1>5, <1>6 DEF HookNext

-----------------------------------------------------------------------------
(* What the HMI makes of a frame.                                          *)

ViewKeys(v) ==
  DOMAIN v = {"state", "supports", "order", "man", "active", "primary", "zone"}

(* The list of the frame is taken over, or taken away by the end of the    *)
(* route, and the keys in it replace those there were.                     *)
LEMMA FrameTaken ==
  ASSUME NEW v, ViewKeys(v), NEW f, f.kind # "clear"
  PROVE  /\ ViewKeys(OnFrame(v, f))
         /\ f.hasOrder => OnFrame(v, f).order = f.order
         /\ ~f.hasOrder /\ f.state = 0 => OnFrame(v, f).order = << >>
         /\ \A s \in Slots : f.man[s] # NoMan => OnFrame(v, f).man[s] = f.man[s]
<1> DEFINE a == WithSupports(v, f)
           b == WithState(a, f)
           c == WithOrder(b, f)
           d == WithManeuvers(c, f)
<1>1. ViewKeys(a)
  BY DEF WithSupports, ViewKeys
<1> HIDE DEF a
<1>2. ViewKeys(b) /\ (f.state = 0 => b.order = << >>)
  BY <1>1 DEF WithState, ViewKeys, Absent
<1> HIDE DEF b
<1>3. /\ ViewKeys(c)
      /\ f.hasOrder => c.order = f.order
      /\ ~f.hasOrder => c.order = b.order
  BY <1>2 DEF WithOrder, ViewKeys
<1> HIDE DEF c
<1>4. /\ ViewKeys(d) /\ d.order = c.order
      /\ \A s \in Slots : f.man[s] # NoMan => d.man[s] = f.man[s]
  BY <1>3 DEF WithManeuvers, ViewKeys
<1>5. Parsed(v, f) = d
  BY DEF Parsed, a, b, c
<1> HIDE DEF d
<1>6. /\ ViewKeys(Gated(d))
      /\ Gated(d).order = d.order /\ Gated(d).man = d.man
  <2> DEFINE on == WantActive(d)
             w  == IF on = d.active THEN d
                   ELSE [d EXCEPT !.active = on, !.primary = NoPrimary,
                                  !.zone = NoIndex]
  <2>1. ViewKeys(w) /\ w.order = d.order /\ w.man = d.man
    BY <1>4 DEF ViewKeys
  <2>2. Gated(d) = IF on THEN WithPrimary(w) ELSE w
    BY DEF Gated
  <2> HIDE DEF w, on
  <2>3. /\ ViewKeys(WithPrimary(w))
        /\ WithPrimary(w).order = w.order /\ WithPrimary(w).man = w.man
    BY <2>1 DEF WithPrimary, ViewKeys
  <2> QED
    BY <2>1, <2>2, <2>3
<1>7. OnFrame(v, f) = Gated(d)
  BY <1>5 DEF OnFrame
<1> QED
  BY <1>2, <1>3, <1>4, <1>6, <1>7

-----------------------------------------------------------------------------
(* The hook and the HMI.                                                   *)

(* Once the HMI has heard the newest frame, it has what that one lists.    *)
ViewOfFrame ==
  ~unheard /\ sticky # NoFrame =>
    /\ sticky.hasOrder =>
         /\ view.order = sticky.order
         /\ \A s \in Slots :
              sticky.man[s] # NoMan => view.man[s] = sticky.man[s]
    /\ ~sticky.hasOrder /\ sticky.state = 0 => view.order = << >>

ShownInv == FrameInv /\ ViewKeys(view) /\ ViewOfFrame

LEMMA InitShown == Init => ShownInv
<1> SUFFICES ASSUME Init
             PROVE  ShownInv
  OBVIOUS
<1>1. FrameInv
  BY DEF Init, HookInit, FrameInv, ListInv, Lists, FrameOfSlots, ClearIsBare,
     NoFrame, Bare
<1>2. ViewKeys(view) /\ ViewOfFrame
  BY DEF Init, HookInit, ViewInit, NoView, ViewKeys, ViewOfFrame
<1> QED
  BY <1>1, <1>2 DEF ShownInv

LEMMA NextShown == ShownInv /\ [Next]_vars => ShownInv'
<1> SUFFICES ASSUME ShownInv, [Next]_vars
             PROVE  ShownInv'
  OBVIOUS
<1> USE DEF ShownInv
<1>1. FrameInv'
  <2>1. [HookNext]_hookVars
    BY DEF Next, Hook, Hears, HmiRestarts, vars
  <2> QED
    BY <2>1, FrameNext
<1>2. CASE Hook
  <2>1. /\ view' = view
        /\ ~unheard' => \/ ~unheard /\ sticky' = sticky
                        \/ sticky' = NoFrame
    BY <1>2 DEF Hook
  <2> QED
    BY <1>1, <2>1 DEF ViewOfFrame, ViewKeys
<1>3. CASE Hears
  <2>1. view' = OnFrame(view, sticky) /\ sticky' = sticky
    BY <1>3 DEF Hears, hookVars
  <2>2. CASE sticky.kind = "clear"
    <3>1. view' = NoView /\ ~sticky.hasOrder
      BY <2>1, <2>2 DEF OnFrame, FrameInv, ClearIsBare
    <3> QED
      BY <1>1, <2>1, <3>1 DEF NoView, ViewKeys, ViewOfFrame
  <2>3. CASE sticky.kind # "clear"
    <3>1. /\ ViewKeys(view')
          /\ sticky.hasOrder => view'.order = sticky.order
          /\ ~sticky.hasOrder /\ sticky.state = 0 => view'.order = << >>
          /\ \A s \in Slots :
               sticky.man[s] # NoMan => view'.man[s] = sticky.man[s]
      BY <2>1, <2>3, FrameTaken
    <3> QED
      BY <1>1, <2>1, <3>1 DEF ViewKeys, ViewOfFrame
  <2> QED
    BY <2>2, <2>3
<1>4. CASE HmiRestarts
  <2>1. view' = NoView /\ unheard' = (sticky # NoFrame) /\ sticky' = sticky
    BY <1>4 DEF HmiRestarts, hookVars
  <2> QED
    BY <1>1, <2>1 DEF NoView, ViewKeys, ViewOfFrame
<1>5. CASE UNCHANGED vars
  BY <1>1, <1>5 DEF vars, hookVars, ViewKeys, ViewOfFrame
<1> QED
  BY <1>2, <1>3, <1>4, <1>5 DEF Next

LEMMA ShownIsSlots == ShownInv => ShowsHooksSlots
<1> SUFFICES ASSUME ShownInv, ~unheard, listPresent,
                    NEW s \in Members(view.order)
             PROVE  view.man[s].idx = slotIdx[s] /\ view.man[s].ver = slotVer[s]
  BY DEF ShowsHooksSlots
<1> USE DEF ShownInv, FrameInv
<1>1. sticky.hasOrder \/ sticky.state = 0
  BY DEF FrameOfSlots
<1>2. sticky # NoFrame
  BY <1>1 DEF NoFrame, Bare, Absent
<1>3. sticky.hasOrder
  <2> SUFFICES ASSUME ~sticky.hasOrder
               PROVE  FALSE
    OBVIOUS
  <2>1. view.order = << >>
    BY <1>1, <1>2 DEF ViewOfFrame
  <2> QED
    BY <2>1 DEF Members
<1>4. view.order = sticky.order
  BY <1>2, <1>3 DEF ViewOfFrame
<1>5. /\ s \in Slots /\ slotIdx[s] # NoIndex
      /\ sticky.man[s] = [idx |-> slotIdx[s], ver |-> slotVer[s]]
  BY <1>3, <1>4 DEF FrameOfSlots
<1>6. sticky.man[s] # NoMan
  BY <1>5 DEF NoMan
<1>7. view.man[s] = sticky.man[s]
  BY <1>2, <1>3, <1>5, <1>6 DEF ViewOfFrame
<1> QED
  BY <1>5, <1>7

(***************************************************************************)
(* Once the HMI has heard the newest frame, each maneuver it lists is the  *)
(* one the hook has in that slot, in the same version, whichever frames    *)
(* were lost before, however often either side restarted, and for every    *)
(* number of slots and maneuvers: RouteGuidance.java merges frames of some *)
(* keys each (399-808) over slots that write_bus_snapshot_from_cache()     *)
(* fills (rgd_hook.c:976-1178).                                            *)
(***************************************************************************)
THEOREM HmiShowsHooksSlots == Spec => []ShowsHooksSlots
<1> QED
  BY InitShown, NextShown, ShownIsSlots, PTL DEF Spec
-----------------------------------------------------------------------------
(* The lanes: the second cache.                                            *)

CacheOK(c) ==
  /\ DOMAIN c = {"idx", "older"}
  /\ c.idx \in [Slots -> Indices \cup {NoIndex}]
  /\ c.older \subseteq Slots \X Slots
  /\ RankedOn(c.older)

LEMMA SubsetRanks ==
  ASSUME NEW order, NEW part, part \subseteq order, RankedOn(order)
  PROVE  RankedOn(part)
BY DEF RankedOn, RankedBy

LEMMA EmptyCache == CacheOK(NoLanes)
<1> DEFINE seq == [s \in Slots |-> 0]
<1>1. seq \in [Slots -> Nat] /\ RankedBy({}, seq, 0)
  BY DEF RankedBy
<1>2. RankedOn({})
  BY <1>1 DEF RankedOn
<1>3. NoLanes.older = {} /\ NoLanes.idx = [s \in Slots |-> NoIndex] /\ DOMAIN NoLanes = {"idx", "older"}
  BY DEF NoLanes
<1> QED
  BY <1>2, <1>3 DEF CacheOK

(* A look-up changes only the order of use.                                *)
LEMMA LookUpKeeps ==
  ASSUME NEW c, NEW event, CacheOK(c)
  PROVE  CacheOK(LookUp(c, event)) /\ LookUp(c, event).idx = c.idx
<1>1. CASE SlotsOf(c, event) = {}
  BY <1>1 DEF LookUp
<1>2. CASE SlotsOf(c, event) # {}
  <2> DEFINE s == Lowest(SlotsOf(c, event))
             o == Touch(c.older, UsedBy(c), s)
  <2>1. s \in SlotsOf(c, event)
    BY <1>2, LowestIsOne DEF SlotsOf
  <2>2. s \in Slots /\ s \in UsedBy(c) /\ UsedBy(c) \subseteq Slots
    BY <2>1 DEF SlotsOf, UsedBy
  <2>3. UsedBy(c) \cup {s} = UsedBy(c)
    BY <2>2
  <2>4. LookUp(c, event) = [c EXCEPT !.older = o]
    BY <1>2 DEF LookUp
  <2> HIDE DEF s
  <2>5. RankedOn(o) /\ o \subseteq Slots \X Slots
    BY <2>2, <2>3, TouchRanks, TouchTypes DEF CacheOK
  <2> HIDE DEF o
  <2> QED
    BY <2>4, <2>5 DEF CacheOK
<1> QED
  BY <1>1, <1>2

(* Pruning spares the event named.                                         *)
LEMMA PrunedKeeps ==
  ASSUME NEW c, NEW event, NEW list, NEW state, CacheOK(c)
  PROVE  /\ CacheOK(Pruned(c, event, list, state))
         /\ \A s \in Slots : c.idx[s] = event => Pruned(c, event, list, state).idx[s] = event
<1> DEFINE stale == {s \in UsedBy(c) : /\ \A i \in Members(list) : c.idx[s] < i
                                      /\ c.idx[s] # event}
           part == {p \in c.older : p[1] \notin stale /\ p[2] \notin stale}
           idx == [s \in Slots |-> IF s \in stale THEN NoIndex ELSE c.idx[s]]
<1>1. CASE list = << >> \/ state = Rerouting
  BY <1>1 DEF Pruned
<1>2. CASE ~(list = << >> \/ state = Rerouting)
  <2>1. Pruned(c, event, list, state) = [idx |-> idx, older |-> part]
    BY <1>2 DEF Pruned
  <2>2. part \subseteq Slots \X Slots /\ RankedOn(part)
    <3>1. part \subseteq c.older
      OBVIOUS
    <3> HIDE DEF part
    <3> QED
      BY <3>1, SubsetRanks DEF CacheOK
  <2>3. /\ idx \in [Slots -> Indices \cup {NoIndex}]
        /\ \A s \in Slots : c.idx[s] = event => idx[s] = event
    BY DEF CacheOK
  <2> HIDE DEF stale, part, idx
  <2> QED
    BY <2>1, <2>2, <2>3 DEF CacheOK
<1> QED
  BY <1>1, <1>2

(* Every set of places in a sequence that is not empty has a last one.     *)
LEMMA LastPlace ==
  ASSUME NEW n \in Nat, NEW T, T \subseteq 1 .. n, T # {}
  PROVE  \E x \in T : \A y \in T : y =< x
<1> DEFINE U == {n - x : x \in T}
<1>0. \A x \in T : x \in 1 .. n /\ n - x \in Nat
  OBVIOUS
<1>1. U \subseteq Nat /\ U # {}
  BY <1>0
<1>2. PICK u \in U : \A w \in U : u =< w
  BY <1>1, LeastNumber
<1>3. PICK x \in T : u = n - x
  OBVIOUS
<1>4. \A y \in T : y =< x
  <2> SUFFICES ASSUME NEW y \in T
               PROVE  y =< x
    OBVIOUS
  <2>1. n - y \in U
    OBVIOUS
  <2>2. n - x =< n - y
    BY <1>2, <1>3, <2>1
  <2>3. x \in 1 .. n /\ y \in 1 .. n
    OBVIOUS
  <2> HIDE DEF U
  <2> QED
    BY <2>2, <2>3
<1> QED
  BY <1>4

(* Look-ups one after the other, ranked by the last of each slot.          *)
LEMMA LookedUpKeeps ==
  ASSUME NEW c, NEW n \in Nat, NEW events, DOMAIN events = 1 .. n, CacheOK(c)
  PROVE  CacheOK(LookedUp(c, events)) /\ LookedUp(c, events).idx = c.idx
<1> DEFINE at == [s \in Slots |-> {i \in DOMAIN events : s \in SlotsOf(c, events[i])}]
           o == {p \in c.older : at[p[1]] = {} /\ at[p[2]] = {}} \cup
                {p \in UsedBy(c) \X UsedBy(c) :
                   p[1] # p[2] /\ \E i \in at[p[2]] : \A j \in at[p[1]] : j < i}
<1>1. LookedUp(c, events) = [c EXCEPT !.older = o]
  BY DEF LookedUp
<1>2. o \subseteq Slots \X Slots
  BY DEF CacheOK, UsedBy
<1>3. PICK seq \in [Slots -> Nat], last \in Nat : RankedBy(c.older, seq, last)
  BY DEF CacheOK, RankedOn
<1>4. \A s \in Slots : at[s] \subseteq 1 .. n
  OBVIOUS
<1> DEFINE Ends(s, i) == i \in at[s] /\ \A j \in at[s] : j =< i
           ends == [s \in Slots |-> CHOOSE i : Ends(s, i)]
           rank == [s \in Slots |-> IF at[s] = {} THEN seq[s] ELSE last + ends[s]]
<1>5. ASSUME NEW s \in Slots, at[s] # {}
      PROVE  ends[s] \in at[s] /\ ends[s] \in 1 .. n /\ \A j \in at[s] : j =< ends[s]
  <2> HIDE DEF at
  <2>1. \E i \in at[s] : \A j \in at[s] : j =< i
    BY <1>4, <1>5, LastPlace
  <2>2. Ends(s, ends[s])
    BY <2>1
  <2> QED
    BY <1>4, <2>2
<1>6. \A a, b \in Slots : <<a, b>> \in o =>
        \/ <<a, b>> \in c.older /\ at[a] = {} /\ at[b] = {}
        \/ \E i \in at[b] : \A j \in at[a] : j < i
  <2> HIDE DEF at
  <2> QED
    OBVIOUS
<1> HIDE DEF at, o, ends
<1>7. rank \in [Slots -> Nat] /\ last + n \in Nat
  BY <1>5
<1>8. \A s \in Slots : rank[s] =< last + n
  <2> SUFFICES ASSUME NEW s \in Slots
               PROVE  rank[s] =< last + n
    OBVIOUS
  <2>1. seq[s] =< last /\ seq[s] \in Nat
    BY <1>3 DEF RankedBy
  <2> QED
    BY <1>5, <2>1
<1>9. ASSUME NEW a \in Slots, NEW b \in Slots, <<a, b>> \in o
      PROVE  rank[a] < rank[b]
  <2>1. seq[a] \in Nat /\ seq[a] =< last
    BY <1>3 DEF RankedBy
  <2>2. CASE <<a, b>> \in c.older /\ at[a] = {} /\ at[b] = {}
    BY <1>3, <2>2 DEF RankedBy
  <2>3. ASSUME NEW i \in at[b], \A j \in at[a] : j < i
        PROVE  rank[a] < rank[b]
    <3>1. at[b] # {} /\ i =< ends[b] /\ ends[b] \in 1 .. n /\ i \in 1 .. n
      BY <1>4, <1>5, <2>3
    <3>2. rank[b] = last + ends[b]
      BY <3>1
    <3>3. CASE at[a] = {}
      <4>1. rank[a] = seq[a]
        BY <3>3
      <4> HIDE DEF rank
      <4> QED
        BY <2>1, <3>1, <3>2, <4>1
    <3>4. CASE at[a] # {}
      <4>1. rank[a] = last + ends[a] /\ ends[a] \in 1 .. n /\ ends[a] < i
        BY <1>5, <2>3, <3>4
      <4> HIDE DEF rank
      <4> QED
        BY <3>1, <3>2, <4>1
    <3> QED
      BY <3>3, <3>4
  <2> QED
    BY <1>6, <1>9, <2>2, <2>3
<1> HIDE DEF rank
<1>10. RankedBy(o, rank, last + n)
  BY <1>8, <1>9 DEF RankedBy
<1>11. RankedOn(o)
  BY <1>7, <1>10 DEF RankedOn
<1> QED
  BY <1>1, <1>2, <1>11 DEF CacheOK

(* The event that comes finds its slot or is given one; another's that is  *)
(* in use keeps its own, unless all slots are in use.                      *)
LEMMA AssignKeeps ==
  ASSUME NEW event \in Indices, CacheOK(lane)
  PROVE  /\ CacheOK(Assign(event))
         /\ SlotsOf(Assign(event), event) # {}
         /\ \A e \in Protected \ {NoIndex} :
              SlotsOf(lane, e) # {} /\ ~CrowdsOut(event) => SlotsOf(Assign(event), e) # {}
<1> DEFINE s == Cache!SlotFor(event, Protected)
           o == Touch(lane.older, UsedBy(lane) \cup {s}, s)
           idx == [lane.idx EXCEPT ![s] = event]
           S == {t \in Slots : lane.idx[t] = event}
           F == {t \in Slots : lane.idx[t] = NoIndex}
           spare == {t \in Slots : lane.idx[t] \notin Protected}
           E == IF spare = {} THEN Slots ELSE spare
<1>0. event # NoIndex
  BY IndicesAssumption
<1>1. ASSUME NEW T, T \subseteq Slots, T # {}
      PROVE  Cache!Lowest(T) \in T
  BY <1>1, LowestIsOne DEF Lowest, Cache!Lowest
<1>2. ASSUME NEW T, T \subseteq Slots, T # {}
      PROVE  Cache!Oldest(T) \in T
  <2>1. PICK seq \in [Slots -> Nat], last \in Nat : RankedBy(lane.older, seq, last)
    BY DEF CacheOK, RankedOn
  <2> DEFINE R == {seq[t] : t \in T}
  <2>2. R \subseteq Nat /\ R # {}
    BY <1>2
  <2>3. PICK k \in R : \A n \in R : k =< n
    BY <2>2, LeastNumber
  <2>4. PICK t \in T : seq[t] = k
    OBVIOUS
  <2>5. \A u \in T : <<u, t>> \notin lane.older
    <3> SUFFICES ASSUME NEW u \in T, <<u, t>> \in lane.older
                 PROVE  FALSE
      OBVIOUS
    <3>1. seq[u] < seq[t] /\ seq[u] \in Nat /\ seq[t] \in Nat
      BY <1>2, <2>1 DEF RankedBy
    <3>2. seq[t] =< seq[u]
      BY <2>3, <2>4
    <3> QED
      BY <3>1, <3>2
  <2> HIDE DEF R
  <2> QED
    BY <2>4, <2>5 DEF Cache!Oldest
<1>3. /\ S # {} => s = Cache!Lowest(S)
      /\ S = {} /\ F # {} => s = Cache!Lowest(F)
      /\ S = {} /\ F = {} => s = Cache!Oldest(E)
  BY DEF Cache!SlotFor, Cache!Holds, Cache!Free, Cache!Evictable, Cache!Slots, Slots
<1>4. Slots # {}
  BY CacheSizeAssumption DEF Slots
<1>5. \/ s \in S
      \/ S = {} /\ s \in F
      \/ S = {} /\ F = {} /\ s \in E
  <2>1. S \subseteq Slots /\ F \subseteq Slots /\ E \subseteq Slots /\ E # {}
    BY <1>4
  <2> HIDE DEF s, S, F, E
  <2> QED
    BY <1>1, <1>2, <1>3, <2>1
<1>6. s \in Slots
  BY <1>5
<1>7. Assign(event) = [idx |-> idx, older |-> o]
  BY DEF Assign
<1> HIDE DEF s
<1>8. UsedBy(lane) \subseteq Slots
  BY DEF UsedBy
<1>9. RankedOn(o) /\ o \subseteq Slots \X Slots
  BY <1>6, <1>8, TouchRanks, TouchTypes DEF CacheOK
<1>10. /\ idx \in [Slots -> Indices \cup {NoIndex}] /\ idx[s] = event
       /\ \A t \in Slots : t # s => idx[t] = lane.idx[t]
  BY <1>6 DEF CacheOK
<1> HIDE DEF o, idx
<1>11. CacheOK(Assign(event)) /\ Assign(event).idx = idx
  BY <1>7, <1>9, <1>10 DEF CacheOK
<1>12. SlotsOf(Assign(event), event) # {}
  BY <1>0, <1>6, <1>10, <1>11 DEF SlotsOf
<1>13. ASSUME NEW e \in Protected \ {NoIndex}, SlotsOf(lane, e) # {}, ~CrowdsOut(event)
       PROVE  SlotsOf(Assign(event), e) # {}
  <2>1. CASE e = event
    BY <1>12, <2>1
  <2>2. CASE e # event
    <3>1. lane.idx[s] # e
      <4>1. CASE s \in S \/ s \in F
        BY <1>13, <2>2, <4>1
      <4>2. CASE S = {} /\ F = {} /\ s \in E
        <5>1. SlotsOf(lane, event) = {}
          BY <4>2 DEF SlotsOf
        <5>2. PICK t \in Slots : lane.idx[t] \notin Protected \ {NoIndex}
          BY <1>13, <5>1 DEF CrowdsOut
        <5>3. t \in spare
          BY <4>2, <5>2
        <5>4. s \in spare
          BY <4>2, <5>3
        <5> QED
          BY <1>13, <5>4
      <4> QED
        BY <1>5, <4>1, <4>2
    <3>2. PICK t \in Slots : lane.idx[t] = e /\ e # NoIndex
      BY <1>13 DEF SlotsOf
    <3>3. t # s
      BY <3>1, <3>2
    <3>4. idx[t] = e
      BY <1>10, <3>2, <3>3
    <3> QED
      BY <1>11, <3>2, <3>4 DEF SlotsOf
  <2> QED
    BY <2>1, <2>2
<1> QED
  BY <1>11, <1>12, <1>13

LEMMA OrderLength == ListInv => \E n \in Nat : DOMAIN Order = 1 .. n
<1> SUFFICES ASSUME ListInv
             PROVE  \E n \in Nat : DOMAIN Order = 1 .. n
  OBVIOUS
<1>1. PICK n \in 0 .. MaxList : curList \in [1 .. n -> Indices]
  BY ListLength DEF ListInv
<1>2. n \in Nat /\ Listable \subseteq 1 .. n
  BY <1>1, MaxListAssumption DEF Listable
<1>3. IsFiniteSet(1 .. n)
  BY <1>2, FS_Interval, 1 \in Int, n \in Int
<1>4. Cardinality(Listable) \in Nat
  BY <1>2, <1>3, FS_Subset, FS_CardinalityType
<1>5. DOMAIN Order = 1 .. Cardinality(Listable)
  BY DEF Order
<1> QED
  BY <1>4, <1>5

(* A snapshot names the event it is given, whose lanes it does not lose,   *)
(* and carries the cache it leaves.                                        *)
LEMMA LaneSnapshotKeeps ==
  ASSUME ListInv', NEW c, NEW event, NEW list, CacheOK(c), LaneSnapshot(c, event, list)
  PROVE  /\ CacheOK(lane')
         /\ frame'.event = event /\ frame'.lg = lane'.idx
         /\ SlotsOf(c, event) # {} => SlotsOf(lane', event) # {}
<1> DEFINE once  == Pruned(c, event, list, lastState')
           found == LookUp(once, event)
           twice == Pruned(found, event, curList', lastState')
           links == [i \in DOMAIN Order' |-> linked'[Order'[i]]]
<1>1. /\ lane' = LookedUp(twice, links)
      /\ frame' = [event |-> event,
                   slot  |-> IF SlotsOf(lane', event) = {} THEN -1
                             ELSE Lowest(SlotsOf(lane', event)),
                   lg    |-> LaneKeys(lane')]
  BY DEF LaneSnapshot
<1>2. (ListInv => \E n \in Nat : DOMAIN Order = 1 .. n)'
  BY OrderLength, PTL
<1>3. PICK n \in Nat : DOMAIN Order' = 1 .. n
  BY <1>2
<1>4. DOMAIN links = 1 .. n
  BY <1>3
<1> HIDE DEF once, found, twice, links
<1>5. CacheOK(once) /\ \A s \in Slots : c.idx[s] = event => once.idx[s] = event
  BY PrunedKeeps DEF once
<1>6. CacheOK(found) /\ found.idx = once.idx
  BY <1>5, LookUpKeeps DEF found
<1>7. CacheOK(twice) /\ \A s \in Slots : found.idx[s] = event => twice.idx[s] = event
  BY <1>6, PrunedKeeps DEF twice
<1>8. CacheOK(lane') /\ lane'.idx = twice.idx
  BY <1>1, <1>4, <1>7, LookedUpKeeps
<1>9. SlotsOf(c, event) # {} => SlotsOf(lane', event) # {}
  BY <1>5, <1>6, <1>7, <1>8 DEF SlotsOf
<1>10. frame'.event = event /\ frame'.lg = lane'.idx
  BY <1>1 DEF LaneKeys
<1> QED
  BY <1>8, <1>9, <1>10

(* While lanes are owed the cache has them, and the newest snapshot names  *)
(* their event and carries the cache.                                      *)
OwedAreKept ==
  owed =>
    /\ named # NoIndex /\ SlotsOf(lane, named) # {}
    /\ sticky.kind = "snapshot" => frame.event = named /\ frame.lg = lane.idx

KindIsKnown == sticky.kind \in {"none", "clear", "tick", "snapshot"}

LaneInv ==
  /\ ListInv /\ KindIsKnown
  /\ CacheOK(lane)
  /\ DOMAIN laneView = {"state", "supports", "event", "slot"}
  /\ OwedAreKept

LEMMA HeardKeys ==
  ASSUME NEW v, KindIsKnown, DOMAIN v = {"state", "supports", "event", "slot"}
  PROVE  /\ DOMAIN Heard(v) = {"state", "supports", "event", "slot"}
         /\ sticky.kind = "snapshot" /\ frame.event # NoIndex => Heard(v).event = frame.event
<1> DEFINE D == {"state", "supports", "event", "slot"}
           supported ==
             IF sticky.supports = 0 /\ v.supports # 0 /\ v.state # 0
             THEN [Hidden(v) EXCEPT !.state = 0] ELSE v
           routed == IF sticky.state = 0 THEN Hidden(supported) ELSE supported
           going == [routed EXCEPT
                      !.supports = IF sticky.supports = Absent THEN @ ELSE sticky.supports,
                      !.state = IF sticky.state = Absent THEN @ ELSE sticky.state]
           snap == IF frame.event = NoIndex THEN going
                   ELSE [going EXCEPT !.event = frame.event, !.slot = frame.slot]
<1>1. DOMAIN supported = D
  BY DEF Hidden
<1>2. DOMAIN routed = D
  <2> HIDE DEF supported
  <2> QED
    BY <1>1 DEF Hidden
<1>3. DOMAIN going = D
  <2> HIDE DEF routed
  <2> QED
    BY <1>2
<1>4. DOMAIN snap = D /\ (frame.event # NoIndex => snap.event = frame.event)
  <2> HIDE DEF going
  <2> QED
    BY <1>3
<1>5. DOMAIN NoLaneView = D
  BY DEF NoLaneView
<1>6. Heard(v) = CASE sticky.kind = "none" -> v
                   [] sticky.kind = "clear" -> NoLaneView
                   [] sticky.kind = "tick" -> going
                   [] sticky.kind = "snapshot" -> snap
  BY DEF Heard
<1> HIDE DEF supported, routed, going, snap
<1> QED
  BY <1>3, <1>4, <1>5, <1>6 DEF KindIsKnown

LEMMA KindNext == KindIsKnown /\ [HookNext]_hookVars => KindIsKnown'
<1> SUFFICES ASSUME KindIsKnown, [HookNext]_hookVars
             PROVE  KindIsKnown'
  OBVIOUS
<1>1. \/ sticky' \in {sticky, NoFrame, ClearFrame, TickFrame}
      \/ SendSnapshot
  BY DEF HookNext, hookVars, ReceiveUpdate, HardClear, StillEnded, ZeroHeld, RouteActive,
     ActiveEvidence, ResetOnly, WriteUpdate, ReceiveManeuver, ReceiveLane, GracePasses,
     TickClaims, TickSends, LazyInit, IdentifyEnd, Shutdown, Respawn
<1>2. SendSnapshot => sticky'.kind = "snapshot"
  BY DEF SendSnapshot, Snapshot
<1> QED
  BY <1>1, <1>2 DEF KindIsKnown, NoFrame, ClearFrame, TickFrame, Bare

LEMMA LaneInitHolds == LaneInit => LaneInv
<1>1. HookInit => ListInv /\ KindIsKnown
  BY DEF HookInit, ListInv, Lists, KindIsKnown, NoFrame, Bare
<1> QED
  BY <1>1, EmptyCache DEF LaneInit, LaneInv, OwedAreKept, NoLaneView

(* An update either hides the lanes, or says nothing of them, or ends the  *)
(* route, or is followed by a snapshot.                                    *)
LEMMA UpdateKeepsLanes ==
  ASSUME LaneInv, ListInv', NEW m \in Updates, NEW event \in Names, Update5201(m, event)
  PROVE  CacheOK(lane)' /\ laneView' = laneView /\ OwedAreKept'
<1> USE DEF LaneInv
<1>1. CASE ZeroHidesLanes(m)
  BY <1>1, EmptyCache DEF ZeroHidesLanes, ForgetLanes, OwedAreKept
<1>2. CASE SuppressedNames(m)
  <2>1. m.state = Absent /\ Absent = -1 /\ ~HasEvidence(m) /\ pending # "none" /\ m.supports # 0
    BY <1>2 DEF SuppressedNames, Suppressed, Absent
  <2>2. UNCHANGED sticky
    BY <2>1 DEF Update5201, ReceiveUpdate, HardClear, StillEnded, ZeroHeld, RouteActive,
       ActiveEvidence, ResetOnly
  <2> QED
    BY <1>2, <2>2 DEF SuppressedNames, laneVars, OwedAreKept
<1>3. CASE RouteOver(m, event)
  <2>1. LaneSnapshot(NoLanes, event, << >>) /\ owed' = FALSE /\ laneView' = laneView
    BY <1>3 DEF RouteOver
  <2>2. CacheOK(lane')
    BY <2>1, EmptyCache, LaneSnapshotKeeps
  <2> QED
    BY <2>1, <2>2 DEF OwedAreKept
<1>4. CASE Named(m, event)
  <2> DEFINE c == LookUp(lane, event)
  <2>1. /\ LaneSnapshot(c, named', curList) /\ laneView' = laneView
        /\ owed' = IF named' = named THEN owed ELSE SlotsOf(lane, named') # {}
    BY <1>4 DEF Named
  <2>2. CacheOK(c) /\ c.idx = lane.idx
    BY LookUpKeeps
  <2> HIDE DEF c
  <2>3. /\ CacheOK(lane')
        /\ frame'.event = named' /\ frame'.lg = lane'.idx
        /\ SlotsOf(c, named') # {} => SlotsOf(lane', named') # {}
    BY <2>1, <2>2, LaneSnapshotKeeps
  <2>4. owed' => SlotsOf(c, named') # {}
    BY <2>1, <2>2 DEF OwedAreKept, SlotsOf
  <2>5. owed' => named' # NoIndex
    BY <2>4 DEF SlotsOf
  <2> QED
    BY <2>1, <2>3, <2>4, <2>5 DEF OwedAreKept
<1> QED
  BY <1>1, <1>2, <1>3, <1>4 DEF Update5201

LEMMA ManeuverKeepsLanes ==
  ASSUME LaneInv, ListInv', NEW m \in Maneuvers, Maneuver5202(m)
  PROVE  CacheOK(lane)' /\ laneView' = laneView /\ OwedAreKept'
<1> USE DEF LaneInv
<1>0. named' = named /\ laneView' = laneView /\ owed' = owed
  BY DEF Maneuver5202
<1>1. CASE m.fields # {} /\ CanProcess(m.idx)
  <2>1. LaneSnapshot(lane, named, curList)
    BY <1>1 DEF Maneuver5202
  <2>2. /\ CacheOK(lane')
        /\ frame'.event = named /\ frame'.lg = lane'.idx
        /\ SlotsOf(lane, named) # {} => SlotsOf(lane', named) # {}
    BY <2>1, LaneSnapshotKeeps
  <2> QED
    BY <1>0, <2>2 DEF OwedAreKept
<1>2. CASE ~(m.fields # {} /\ CanProcess(m.idx))
  BY <1>0, <1>2 DEF Maneuver5202, ReceiveManeuver, OwedAreKept
<1> QED
  BY <1>1, <1>2

LEMMA LanesKeepLanes ==
  ASSUME LaneInv, ListInv', NEW m \in LaneMessages, Lanes5204(m)
  PROVE  CacheOK(lane)' /\ laneView' = laneView /\ OwedAreKept'
<1> USE DEF LaneInv
<1> DEFINE event == EventOf(m)
           taken == m.lanes /\ event # NoIndex
           found == IF taken THEN Assign(event) ELSE LookUp(lane, event)
           sends == taken \/ (event # NoIndex /\ event = named)
<1>1. /\ named' = named /\ laneView' = laneView
      /\ owed' <=> (taken /\ event = named) \/ (owed /\ ~(taken /\ CrowdsOut(event)))
      /\ IF sends THEN LaneSnapshot(found, named, curList)
         ELSE frame' = frame /\ lane' = found /\ sticky' = sticky
  BY DEF Lanes5204
<1>2. event \in Indices \cup {NoIndex}
  <2>1. m.event \in Indices \cup {NoIndex}
    BY LaneMessagesAssumption
  <2>2. PICK n \in 0 .. MaxList : curList \in [1 .. n -> Indices] /\ Len(curList) = n
    BY ListLength DEF ListInv
  <2>3. curList # << >> => n # 0
    BY <2>2
  <2>4. curList # << >> => curList[1] \in Indices
    BY <2>2, <2>3, MaxListAssumption
  <2> QED
    BY <2>1, <2>4 DEF EventOf
<1> HIDE DEF event
<1>3. /\ CacheOK(found)
      /\ owed' => SlotsOf(found, named) # {}
      /\ owed' => named # NoIndex
      /\ ~taken => found.idx = lane.idx
  <2>1. CASE taken
    <3>1. /\ CacheOK(Assign(event))
          /\ SlotsOf(Assign(event), event) # {}
          /\ \A e \in Protected \ {NoIndex} :
               SlotsOf(lane, e) # {} /\ ~CrowdsOut(event) => SlotsOf(Assign(event), e) # {}
      BY <1>2, <2>1, AssignKeeps
    <3>2. CASE event = named
      BY <2>1, <3>1, <3>2
    <3>3. CASE event # named
      <4>1. owed' => owed /\ ~CrowdsOut(event)
        BY <1>1, <2>1, <3>3
      <4>2. owed => named \in Protected \ {NoIndex} /\ SlotsOf(lane, named) # {}
        BY DEF OwedAreKept, Protected
      <4> QED
        BY <2>1, <3>1, <4>1, <4>2
    <3> QED
      BY <3>2, <3>3
  <2>2. CASE ~taken
    <3>1. CacheOK(found) /\ found.idx = lane.idx
      BY <2>2, LookUpKeeps
    <3>2. owed' => owed
      BY <1>1, <2>2
    <3> QED
      BY <2>2, <3>1, <3>2 DEF OwedAreKept, SlotsOf
  <2> QED
    BY <2>1, <2>2
<1>4. CASE sends
  <2>1. LaneSnapshot(found, named, curList)
    BY <1>1, <1>4
  <2> HIDE DEF found
  <2>2. /\ CacheOK(lane')
        /\ frame'.event = named /\ frame'.lg = lane'.idx
        /\ SlotsOf(found, named) # {} => SlotsOf(lane', named) # {}
    BY <1>3, <2>1, LaneSnapshotKeeps
  <2> QED
    BY <1>1, <1>3, <2>2 DEF OwedAreKept
<1>5. CASE ~sends
  <2>1. ~taken /\ frame' = frame /\ lane' = found /\ sticky' = sticky
    BY <1>1, <1>5
  <2>2. owed' => owed
    BY <1>1, <2>1
  <2> HIDE DEF found
  <2> QED
    BY <1>1, <1>3, <2>1, <2>2 DEF OwedAreKept
<1> QED
  BY <1>4, <1>5

LEMMA StepIsHooks ==
  ASSUME HookStep
  PROVE  HookNext
BY DEF HookStep, HookNext, Update5201, Maneuver5202, Lanes5204, LanesKept, LanesCleared

LEMMA LaneInvNext == LaneInv /\ [LaneNext]_<<hookVars, laneVars>> => LaneInv'
<1> SUFFICES ASSUME LaneInv, [LaneNext]_<<hookVars, laneVars>>
             PROVE  LaneInv'
  OBVIOUS
<1> USE DEF LaneInv
<1>1. [HookNext]_hookVars
  BY StepIsHooks DEF LaneNext, Hear
<1>2. ListInv' /\ KindIsKnown'
  BY <1>1, ListNext, KindNext
<1>3. CASE \E m \in Updates, event \in Names : Update5201(m, event)
  BY <1>2, <1>3, UpdateKeepsLanes
<1>4. CASE \E m \in Maneuvers : Maneuver5202(m)
  BY <1>2, <1>4, ManeuverKeepsLanes
<1>5. CASE \E m \in LaneMessages : Lanes5204(m)
  BY <1>2, <1>5, LanesKeepLanes
<1>6. CASE LanesKept
  <2>1. UNCHANGED <<lane, linked, named, laneView, owed>>
    BY <1>6 DEF LanesKept
  <2>2. \/ sticky' = sticky /\ frame' = frame
        \/ sticky' = TickFrame
    BY <1>6 DEF LanesKept, GracePasses, TickClaims, TickSends
  <2> QED
    BY <1>2, <2>1, <2>2 DEF OwedAreKept, TickFrame, Bare
<1>7. CASE LanesCleared
  BY <1>2, <1>7, EmptyCache DEF LanesCleared, ForgetLanes, OwedAreKept
<1>8. CASE Hear
  <2>1. UNCHANGED <<hookVars, lane, linked, named, frame, owed>> /\ laneView' = Heard(laneView)
    BY <1>8 DEF Hear
  <2>2. sticky' = sticky
    BY <2>1 DEF hookVars
  <2>3. DOMAIN laneView' = {"state", "supports", "event", "slot"}
    BY <2>1, HeardKeys
  <2> QED
    BY <1>2, <2>1, <2>2, <2>3 DEF OwedAreKept
<1>9. CASE UNCHANGED <<hookVars, laneVars>>
  BY <1>2, <1>9 DEF hookVars, laneVars, OwedAreKept
<1> QED
  BY <1>3, <1>4, <1>5, <1>6, <1>7, <1>8, <1>9 DEF LaneNext, HookStep

(***************************************************************************)
(* Once the newest snapshot is heard the cluster shows the lanes of the    *)
(* event named last if it has had them, whatever lanes come for others,    *)
(* however the lists, the links and the look-ups use the cache, unless an  *)
(* event has come for which no slot was free or out of use; and it never   *)
(* shows another event's.                                                  *)
(***************************************************************************)
THEOREM NamedLanesAreShown == LaneSpec => []ShowsNamedLanes
<1>1. LaneInv => ShowsNamedLanes
  <2> SUFFICES ASSUME LaneInv, sticky.kind = "snapshot"
               PROVE  /\ owed => Shown(Heard(laneView)) = named
                      /\ Shown(Heard(laneView)) \in {Heard(laneView).event, NoIndex}
    BY DEF ShowsNamedLanes
  <2> DEFINE v == Heard(laneView)
  <2>1. frame.event # NoIndex => v.event = frame.event
    BY HeardKeys DEF LaneInv
  <2> HIDE DEF v
  <2>2. Shown(v) \in {v.event, NoIndex}
    BY DEF Shown, LgSlotMatches
  <2>3. ASSUME owed
        PROVE  Shown(v) = named
    <3>1. named # NoIndex /\ SlotsOf(lane, named) # {} /\ frame.event = named /\ frame.lg = lane.idx
      BY <2>3 DEF LaneInv, OwedAreKept
    <3>2. v.event = named
      BY <2>1, <3>1
    <3>3. \E s \in Slots : frame.lg[s] = v.event
      BY <3>1, <3>2 DEF SlotsOf
    <3> QED
      BY <3>1, <3>2, <3>3 DEF Shown, LgSlotMatches
  <2> QED
    BY <2>2, <2>3 DEF v
<1> QED
  BY <1>1, LaneInitHolds, LaneInvNext, PTL DEF LaneSpec
=============================================================================
