---------------------------- MODULE Hook_proofs ----------------------------
(***************************************************************************)
(* What the hook reads from the phone and what it sends to it.             *)
(*                                                                         *)
(* The parser (RgdTlv): its arrays hold what is written into them, for     *)
(* every message and every size of the arrays; ParserInv is inductive.     *)
(*                                                                         *)
(* The session (IapSession), for every transport and identification, any   *)
(* number of threads that send, and any number of failures: the            *)
(* subscription is orderly, and every packet that is injected is accounted *)
(* for.  SessionInv is inductive: what the identification has come to,     *)
(* which component it announced, whether a STOP has been sent and for how  *)
(* many STARTs, and what is in the hands of the threads that inject.  The  *)
(* packets rest on lemmas about bytes: the link header kept from one       *)
(* packet, patched for another frame, is the header that the transport     *)
(* would have made.                                                        *)
(***************************************************************************)
EXTENDS RgdTlv, IapSession, SequenceTheorems, FiniteSetTheorems, WellFoundedInduction, TLAPS

-----------------------------------------------------------------------------
(* The parser.                                                             *)

Lane == [position : Int, direction : Int, status : Int, angles : Seq(Int)]

(* The fields that are lists of numbers.                                   *)
Lists == {"component_ids", "maneuver_list", "junction_angles"}

(* What the walks know at each step: the inner walk is over the value of a *)
(* LaneInformations whose lanes have their field already.                  *)
ParserTypeOK ==
  /\ msg \in Messages
  /\ walk \in {"tlv", "lane", "done"}
  /\ pos \in Nat \ {0} /\ sub \in Nat \ {0}
  /\ highlight \in BOOLEAN
  /\ lanes \in Seq(Lane)
  /\ \A f \in DOMAIN out \cap Lists : out[f] \in Seq(Int)
  /\ "lanes" \in DOMAIN out => out["lanes"] \in Seq(Lane)
  /\ walk = "lane" =>
       /\ pos \in 1..Len(msg.tlvs) /\ msg.kind = "lane" /\ tlv.id = "lanes"
       /\ "lanes" \in DOMAIN out
       /\ Len(out["lanes"]) < MaxLaneGuidance

ParserInv == ParserTypeOK /\ ArraysHold

----------------------------------------------------------------------------
(* What the helpers return.                                                *)

LEMMA CutFits ==
  ASSUME NEW S, NEW s \in Seq(S), NEW n \in Nat
  PROVE  Cut(s, n) \in Seq(S) /\ Len(Cut(s, n)) <= n /\ Len(Cut(s, n)) <= Len(s)
BY DEF Cut, Least

LEMMA WordsAreNumbers ==
  ASSUME NEW v \in Seq(Byte)
  PROVE  /\ Words(v) \in Seq(Int) /\ Tail1(v) \in Seq(Int)
         /\ [i \in 1..(Len(v) \div 2) |-> Int16(Word(v, 2 * i - 1))] \in Seq(Int)
         /\ Angles(v) \in Seq(Int)
<1> DEFINE n == Len(v) \div 2
<1>1. n \in Nat /\ 2 * n <= Len(v)
  OBVIOUS
<1>2. \A i \in 1..Len(v) : v[i] \in Int
  <2> TAKE i \in 1..Len(v)
  <2>1. v[i] \in Byte
    OBVIOUS
  <2>2. Byte \subseteq Int
    BY DEF Byte
  <2> QED
    BY <2>1, <2>2
<1>3. \A i \in 1..n : Word(v, 2 * i - 1) \in Int
  <2> TAKE i \in 1..n
  <2>1. 2 * i - 1 \in 1..Len(v) /\ (2 * i - 1) + 1 \in 1..Len(v)
    BY <1>1
  <2> QED
    BY <1>2, <2>1 DEF Word
<1>4. \A i \in 1..n : Int16(Word(v, 2 * i - 1)) \in Int
  BY <1>3 DEF Int16
<1>5. Words(v) \in Seq(Int)
  BY <1>1, <1>3 DEF Words
<1>6. Tail1(v) \in Seq(Int)
  <2>1. CASE Len(v) % 2 = 1
    BY <2>1, <1>2 DEF Tail1
  <2>2. CASE Len(v) % 2 # 1
    BY <2>2 DEF Tail1
  <2> QED
    BY <2>1, <2>2
<1>7. [i \in 1..n |-> Int16(Word(v, 2 * i - 1))] \in Seq(Int)
  BY <1>1, <1>4
<1> QED
  BY <1>5, <1>6, <1>7 DEF Angles

LEMMA ElementsAreNumbers ==
  ASSUME NEW kind, NEW id, NEW v \in Seq(Byte)
  PROVE  Elements(kind, id, v) \in Seq(Int)
BY WordsAreNumbers DEF Elements

(* A lane opened has no angles yet; the lane that attributes belong to is  *)
(* the last of those open.                                                 *)
LEMMA NewLaneFits ==
  ASSUME NEW p \in Int
  PROVE  NewLane(p) \in Lane /\ NewLane(p).angles = << >>
BY DEF NewLane, Lane, NoAngle

LEMMA OpenedFits ==
  ASSUME lanes \in Seq(Lane), AnglesFit(lanes)
  PROVE  /\ Opened \in Seq(Lane) /\ AnglesFit(Opened)
         /\ lane_idx \in 1..Len(Opened)
         /\ Len(Opened) = IF lanes = << >> THEN 1 ELSE Len(lanes)
<1>1. NewLane(0) \in Lane /\ Len(NewLane(0).angles) = 0
  BY NewLaneFits
<1>2. CASE lanes = << >>
  <2>1. Opened = <<NewLane(0)>>
    BY <1>2 DEF Opened
  <2> QED
    BY <2>1, <1>1, <1>2, TlvAssumption DEF AnglesFit, lane_idx, TlvAssumption
<1>3. CASE lanes # << >>
  <2>1. Opened = lanes /\ Len(lanes) \in Nat \ {0}
    BY <1>3 DEF Opened
  <2> QED
    BY <2>1, <1>3 DEF lane_idx
<1> QED
  BY <1>2, <1>3

(* A lane may be replaced by one that fits.                                *)
LEMMA ReplaceFits ==
  ASSUME NEW ls \in Seq(Lane), AnglesFit(ls), NEW k \in 1..Len(ls),
         NEW l \in Lane, Len(l.angles) <= MaxLaneAngles
  PROVE  LET r == [ls EXCEPT ![k] = l]
         IN  r \in Seq(Lane) /\ Len(r) = Len(ls) /\ AnglesFit(r)
<1> DEFINE r == [ls EXCEPT ![k] = l]
<1>1. r \in Seq(Lane) /\ Len(r) = Len(ls)
  BY ExceptSeq
<1>2. \A i \in 1..Len(ls) : r[i] = IF i = k THEN l ELSE ls[i]
  BY LenProperties
<1> QED
  BY <1>1, <1>2 DEF AnglesFit

LEMMA JoinFits ==
  ASSUME NEW a \in Seq(Lane), NEW b \in Seq(Lane), AnglesFit(a), AnglesFit(b)
  PROVE  a \o b \in Seq(Lane) /\ Len(a \o b) = Len(a) + Len(b) /\ AnglesFit(a \o b)
<1>1. a \o b \in Seq(Lane) /\ Len(a \o b) = Len(a) + Len(b)
  BY ConcatProperties
<1>2. \A i \in 1..Len(a) + Len(b) : (a \o b)[i] = IF i <= Len(a) THEN a[i] ELSE b[i - Len(a)]
  BY ConcatProperties
<1>3. Len(a) \in Nat /\ Len(b) \in Nat
  BY LenProperties
<1>4. \A i \in 1..Len(a) + Len(b) : i > Len(a) => i - Len(a) \in 1..Len(b)
  BY <1>3
<1> QED
  BY <1>1, <1>2, <1>3, <1>4 DEF AnglesFit

----------------------------------------------------------------------------
(* The walk over the message.                                              *)

LEMMA InitParser == ParserInit => ParserInv
<1> SUFFICES ASSUME ParserInit PROVE ParserInv
  OBVIOUS
<1>1. DOMAIN out = {}
  BY DEF ParserInit
<1>2. lanes \in Seq(Lane) /\ Len(lanes) = 0
  BY DEF ParserInit
<1>3. ParserTypeOK
  <2>1. walk = "tlv" /\ msg \in Messages /\ highlight \in BOOLEAN
    BY DEF ParserInit
  <2>4. pos \in Nat \ {0} /\ sub \in Nat \ {0}
    BY DEF ParserInit
  <2>2. \A f \in DOMAIN out \cap Lists : out[f] \in Seq(Int)
    BY <1>1
  <2>3. "lanes" \notin DOMAIN out
    BY <1>1
  <2> QED
    BY <1>2, <2>1, <2>2, <2>3, <2>4 DEF ParserTypeOK
<1>4. ArraysHold
  BY <1>1, <1>2 DEF ParserInit, ArraysHold, AnglesFit
<1> QED
  BY <1>3, <1>4 DEF ParserInv

(* A field that is no list of numbers and no lanes disturbs nothing.       *)
LEMMA StoreOther ==
  ASSUME ParserInv, AtTlv,
         NEW o, \A g \in Lists \cup {"lanes"} :
                   /\ g \in DOMAIN o <=> g \in DOMAIN out
                   /\ g \in DOMAIN out => o[g] = out[g],
         Store(o)
  PROVE  ParserInv'
BY DEF ParserInv, ParserTypeOK, AtTlv, Store, ArraysHold, AnglesFit, Room, Lists, tlv

(* A list may be written if it fits.                                       *)
LEMMA StoreList ==
  ASSUME ParserInv, AtTlv, NEW f \in Lists, NEW v \in Seq(Int), Len(v) <= Room[f],
         Store(Put(out, f, v))
  PROVE  ParserInv'
<1>1. DOMAIN (out') = DOMAIN out \cup {f} /\ out'[f] = v
      /\ \A g \in DOMAIN out : g # f => out'[g] = out[g]
  BY DEF Store, Put
<1>2. f # "lanes"
  BY DEF Lists
<1>3. ParserTypeOK'
  BY <1>1, <1>2 DEF ParserInv, ParserTypeOK, AtTlv, Store, tlv
<1>4. ArraysHold'
  BY <1>1, <1>2 DEF ParserInv, AtTlv, Store, ArraysHold, AnglesFit, Room
<1> QED
  BY <1>3, <1>4 DEF ParserInv

(* What the values of a message are.                                       *)
LEMMA ValuesTyped ==
  ASSUME ParserInv, pos \in 1..Len(msg.tlvs)
  PROVE  /\ msg.kind = "lane" /\ tlv.id = "lanes" => tlv.val \in Seq(InnerTlv)
         /\ ~(msg.kind = "lane" /\ tlv.id = "lanes") => tlv.val \in Seq(Byte)
         /\ msg.kind \in {"update", "maneuver", "lane"}
BY MessagesAssumption DEF IsMessage, ParserInv, ParserTypeOK, tlv

LEMMA AtIsInside ==
  ASSUME ParserInv, AtTlv
  PROVE  pos \in 1..Len(msg.tlvs)
BY MessagesAssumption DEF IsMessage, ParserInv, ParserTypeOK, AtTlv

LEMMA NumberParser == ParserInv /\ ReadNumber => ParserInv'
<1> SUFFICES ASSUME ParserInv, ReadNumber PROVE ParserInv'
  OBVIOUS
<1>1. msg.kind \in {"update", "maneuver", "lane"}
  BY AtIsInside, ValuesTyped DEF ReadNumber
<1>2. tlv.id \notin Lists \cup {"lanes"}
  BY <1>1 DEF ReadNumber, NumberFields, Lists
<1>3. PICK o : Store(o) /\ (o = out \/ \E v : o = Put(out, tlv.id, v))
  BY DEF ReadNumber
<1>4. \A g \in Lists \cup {"lanes"} :
        /\ g \in DOMAIN o <=> g \in DOMAIN out
        /\ g \in DOMAIN out => o[g] = out[g]
  BY <1>2, <1>3 DEF Put
<1>5. AtTlv
  BY DEF ReadNumber
<1>6. Store(o)
  BY <1>3
<1> QED
  BY <1>4, <1>5, <1>6, StoreOther

LEMMA TextParser == ParserInv /\ ReadText => ParserInv'
<1> SUFFICES ASSUME ParserInv, ReadText PROVE ParserInv'
  OBVIOUS
<1>1. msg.kind \in {"update", "maneuver", "lane"}
  BY AtIsInside, ValuesTyped DEF ReadText
<1>2. tlv.id \notin Lists \cup {"lanes"}
  BY <1>1 DEF ReadText, TextFields, Lists
<1>3. PICK o : Store(o) /\ \E v : o = Put(out, tlv.id, v)
  BY DEF ReadText
<1>4. \A g \in Lists \cup {"lanes"} :
        /\ g \in DOMAIN o <=> g \in DOMAIN out
        /\ g \in DOMAIN out => o[g] = out[g]
  BY <1>2, <1>3 DEF Put
<1>5. AtTlv
  BY DEF ReadText
<1>6. Store(o)
  BY <1>3
<1> QED
  BY <1>4, <1>5, <1>6, StoreOther

LEMMA ListParser == ParserInv /\ ReadList => ParserInv'
<1> SUFFICES ASSUME ParserInv, ReadList PROVE ParserInv'
  OBVIOUS
<1> DEFINE v == Cut(Elements(msg.kind, tlv.id, tlv.val), ListFields[msg.kind][tlv.id])
<1>1. AtTlv /\ Store(Put(out, tlv.id, v)) /\ tlv.id \in DOMAIN ListFields[msg.kind]
  BY DEF ReadList
<1>2. msg.kind \in {"update", "maneuver", "lane"}
  BY <1>1, AtIsInside, ValuesTyped
<1>3. /\ tlv.id \in Lists
      /\ ListFields[msg.kind][tlv.id] = Room[tlv.id]
      /\ Room[tlv.id] \in Nat
  BY <1>1, <1>2, TlvAssumption DEF TlvAssumption, ListFields, Lists, Room
<1>4. tlv.val \in Seq(Byte)
  BY <1>1, <1>3, AtIsInside, ValuesTyped DEF Lists
<1>5. v \in Seq(Int) /\ Len(v) <= Room[tlv.id]
  BY <1>3, <1>4, ElementsAreNumbers, CutFits
<1> HIDE DEF v
<1> QED
  BY <1>1, <1>3, <1>5, StoreList

LEMMA MoreParser == ParserInv /\ ReadMore => ParserInv'
<1> SUFFICES ASSUME ParserInv, ReadMore PROVE ParserInv'
  OBVIOUS
<1> DEFINE e == Elements(msg.kind, tlv.id, tlv.val)
           v == Cut(Get(out, tlv.id) \o e, GrowingFields[msg.kind][tlv.id])
<1>1. AtTlv /\ Store(Put(out, tlv.id, v)) /\ tlv.id \in DOMAIN GrowingFields[msg.kind]
  BY DEF ReadMore
<1>2. msg.kind \in {"update", "maneuver", "lane"}
  BY <1>1, AtIsInside, ValuesTyped
<1>3. /\ tlv.id \in Lists
      /\ GrowingFields[msg.kind][tlv.id] = Room[tlv.id]
      /\ Room[tlv.id] \in Nat
  BY <1>1, <1>2, TlvAssumption DEF TlvAssumption, GrowingFields, Lists, Room
<1>4. tlv.val \in Seq(Byte)
  BY <1>1, <1>3, AtIsInside, ValuesTyped DEF Lists
<1>5. e \in Seq(Int)
  BY <1>4, ElementsAreNumbers
<1>6. Get(out, tlv.id) \in Seq(Int)
  BY <1>3 DEF Get, ParserInv, ParserTypeOK
<1>7. Get(out, tlv.id) \o e \in Seq(Int)
  BY <1>5, <1>6, ConcatProperties
<1>8. v \in Seq(Int) /\ Len(v) <= Room[tlv.id]
  BY <1>3, <1>7, CutFits
<1> HIDE DEF v
<1> QED
  BY <1>1, <1>3, <1>8, StoreList

(* The other TLVs of a maneuver, the skipped ones and the end.             *)
LEMMA OthersParser ==
  ASSUME ParserInv, ReadLinkedLane \/ ReadExitInfo \/ SkipTlv
  PROVE  ParserInv'
<1>1. PICK o : Store(o) /\ \A g \in Lists \cup {"lanes"} :
        /\ g \in DOMAIN o <=> g \in DOMAIN out
        /\ g \in DOMAIN out => o[g] = out[g]
  <2>1. CASE ReadLinkedLane
    BY <2>1 DEF ReadLinkedLane, Put, Lists
  <2>2. CASE ReadExitInfo
    BY <2>2 DEF ReadExitInfo, Put, Lists
  <2>3. CASE SkipTlv
    BY <2>3 DEF SkipTlv
  <2> QED
    BY <2>1, <2>2, <2>3
<1>2. AtTlv
  BY DEF ReadLinkedLane, ReadExitInfo, SkipTlv
<1> QED
  BY <1>1, <1>2, StoreOther

LEMMA FinishParser == ParserInv /\ Finish => ParserInv'
<1> SUFFICES ASSUME ParserInv, Finish PROVE ParserInv'
  OBVIOUS
<1>1. \A g \in Lists \cup {"lanes"} :
        /\ g \in DOMAIN (out') <=> g \in DOMAIN out
        /\ g \in DOMAIN out => out'[g] = out[g]
  BY DEF Finish, Put, Lists
<1>2. walk' = "done" /\ UNCHANGED <<msg, pos, sub, lanes, highlight>>
  BY DEF Finish
<1>3. ParserTypeOK'
  BY <1>1, <1>2 DEF ParserInv, ParserTypeOK
<1>4. ArraysHold'
  BY <1>1, <1>2 DEF ParserInv, ArraysHold, AnglesFit, Room, Lists
<1> QED
  BY <1>3, <1>4 DEF ParserInv

LEMMA LanesParser == ParserInv /\ ReadLanes => ParserInv'
<1> SUFFICES ASSUME ParserInv, ReadLanes PROVE ParserInv'
  OBVIOUS
<1>1. DOMAIN (out') = DOMAIN out \cup {"lanes"} /\ out'["lanes"] = Get(out, "lanes")
      /\ \A g \in DOMAIN out : g # "lanes" => out'[g] = out[g]
  BY DEF ReadLanes, Put
<1>2. Get(out, "lanes") \in Seq(Lane) /\ AnglesFit(Get(out, "lanes"))
      /\ Len(Get(out, "lanes")) <= MaxLaneGuidance
  BY TlvAssumption DEF TlvAssumption, Get, ParserInv, ParserTypeOK, ArraysHold, AnglesFit, Room
<1>3. pos \in 1..Len(msg.tlvs) /\ AtTlv /\ msg.kind = "lane" /\ tlv.id = "lanes"
      /\ walk = "tlv" /\ msg' = msg /\ pos \in Nat \ {0} /\ msg \in Messages
  BY AtIsInside DEF ReadLanes, AtTlv, ParserInv, ParserTypeOK
<1>4. \A f \in DOMAIN (out') \cap Lists : out'[f] \in Seq(Int) /\ f # "lanes" /\ f \in DOMAIN out
  BY <1>1 DEF Lists, ParserInv, ParserTypeOK
<1>5. \A f \in DOMAIN (out') \cap DOMAIN Room : Len(out'[f]) <= Room[f]
  BY <1>1, <1>2 DEF ParserInv, ArraysHold, Room
<1>6. CASE tlv.val # << >> /\ Len(Get(out, "lanes")) < MaxLaneGuidance
  <2>1. walk' = "lane" /\ pos' = pos /\ sub' = 1 /\ lanes' = << >> /\ highlight' \in BOOLEAN
    BY <1>6 DEF ReadLanes
  <2>2. lanes' \in Seq(Lane) /\ Len(lanes') = 0 /\ AnglesFit(lanes')
    BY <2>1 DEF AnglesFit
  <2>3. sub' \in Nat \ {0}
    BY <2>1
  <2>4. ParserTypeOK'
    BY <1>1, <1>2, <1>3, <1>4, <1>6, <2>1, <2>2, <2>3 DEF ParserTypeOK, tlv
  <2>5. ArraysHold'
    BY <1>1, <1>2, <1>5, <2>2, TlvAssumption DEF TlvAssumption, ArraysHold, AnglesFit
  <2> QED
    BY <2>4, <2>5 DEF ParserInv
<1>7. CASE ~(tlv.val # << >> /\ Len(Get(out, "lanes")) < MaxLaneGuidance)
  <2>1. pos' = pos + 1 /\ UNCHANGED <<walk, sub, lanes, highlight>>
    BY <1>7 DEF ReadLanes
  <2>2. pos' \in Nat \ {0}
    BY <1>3, <2>1
  <2>3. ParserTypeOK'
    BY <1>1, <1>2, <1>3, <1>4, <2>1, <2>2 DEF ParserInv, ParserTypeOK
  <2>4. ArraysHold'
    BY <1>1, <1>2, <1>3, <1>5, <2>1 DEF ParserInv, ArraysHold, AnglesFit
  <2> QED
    BY <2>3, <2>4 DEF ParserInv
<1> QED
  BY <1>6, <1>7

----------------------------------------------------------------------------
(* The walk inside LaneInformations.                                       *)

(* Lanes that fit may be written while it goes on.                         *)
LEMMA SubStep ==
  ASSUME ParserInv, AtSub, NextSub, highlight' \in BOOLEAN,
         lanes' \in Seq(Lane), AnglesFit(lanes)', Len(lanes') <= MaxLaneGuidance - Len(out["lanes"])
  PROVE  ParserInv'
<1>1. walk = "lane" /\ UNCHANGED <<msg, walk, pos, out>> /\ sub' = sub + 1
  BY DEF AtSub, NextSub
<1>2. "lanes" \in DOMAIN out /\ out["lanes"] \in Seq(Lane) /\ Len(out["lanes"]) \in Nat
  BY <1>1 DEF ParserInv, ParserTypeOK
<1>3. sub' \in Nat \ {0}
  BY <1>1 DEF ParserInv, ParserTypeOK
<1>4. ParserTypeOK'
  BY <1>1, <1>3 DEF ParserInv, ParserTypeOK, tlv
<1>5. Len(out'["lanes"]) + Len(lanes') <= MaxLaneGuidance
  BY <1>1, <1>2, TlvAssumption DEF TlvAssumption
<1>6. ArraysHold'
  BY <1>1, <1>5 DEF ParserInv, ArraysHold, AnglesFit
<1> QED
  BY <1>4, <1>6 DEF ParserInv

(* What the walk inside knows of the TLV it is at.                         *)
LEMMA AtSubKnows ==
  ASSUME ParserInv, AtSub
  PROVE  /\ info.val \in Seq(Byte)
         /\ \A i \in 1..Len(info.val) : info.val[i] \in Int
         /\ lanes \in Seq(Lane) /\ AnglesFit(lanes) /\ highlight \in BOOLEAN
         /\ Len(out["lanes"]) \in Nat /\ Len(out["lanes"]) < MaxLaneGuidance
         /\ Len(lanes) <= MaxLaneGuidance - Len(out["lanes"])
<1>1. walk = "lane" /\ pos \in 1..Len(msg.tlvs)
  BY DEF AtSub, ParserInv, ParserTypeOK
<1>2. tlv.val \in Seq(InnerTlv)
  BY <1>1, ValuesTyped DEF ParserInv, ParserTypeOK
<1>3. sub \in 1..Len(tlv.val)
  BY <1>2 DEF AtSub, ParserInv, ParserTypeOK
<1>4. info \in InnerTlv
  BY <1>2, <1>3 DEF info
<1>5. info.val \in Seq(Byte)
  BY <1>4 DEF InnerTlv
<1>6. Byte \subseteq Int
  BY DEF Byte
<1>7. \A i \in 1..Len(info.val) : info.val[i] \in Byte
  BY <1>5
<1>8. lanes \in Seq(Lane) /\ AnglesFit(lanes) /\ highlight \in BOOLEAN
  BY DEF ParserInv, ParserTypeOK, ArraysHold
<1>9. Len(lanes) \in Nat /\ out["lanes"] \in Seq(Lane) /\ Len(out["lanes"]) \in Nat
      /\ Len(out["lanes"]) < MaxLaneGuidance /\ Len(out["lanes"]) + Len(lanes) <= MaxLaneGuidance
  BY <1>1, <1>8 DEF ParserInv, ParserTypeOK, ArraysHold
<1>10. \A i \in 1..Len(info.val) : info.val[i] \in Int
  BY <1>6, <1>7
<1>11. Len(lanes) <= MaxLaneGuidance - Len(out["lanes"])
  BY <1>9, TlvAssumption DEF TlvAssumption
<1> QED
  BY <1>5, <1>8, <1>9, <1>10, <1>11

LEMMA OpenParser == ParserInv /\ OpenLane => ParserInv'
<1> SUFFICES ASSUME ParserInv, OpenLane PROVE ParserInv'
  OBVIOUS
<1>1. AtSub /\ NextSub /\ highlight' \in BOOLEAN /\ Len(lanes) < out_max
  BY DEF OpenLane
<1>2. PICK p \in Int : lanes' = Append(lanes, NewLane(p))
  <2> DEFINE q == CASE Len(info.val) >= 2 -> Word(info.val, 1)
                    [] Len(info.val) = 1 -> info.val[1]
                    [] OTHER -> Len(lanes)
  <2>1. lanes' = Append(lanes, NewLane(q))
    BY DEF OpenLane
  <2>2. \A i \in 1..Len(info.val) : info.val[i] \in Int
    BY <1>1, AtSubKnows
  <2>3. Len(info.val) \in Nat /\ Len(lanes) \in Nat
    BY <1>1, AtSubKnows
  <2>4. q \in Int
    BY <2>2, <2>3 DEF Word
  <2> HIDE DEF q
  <2> QED
    BY <2>1, <2>4
<1>3. NewLane(p) \in Lane /\ Len(NewLane(p).angles) = 0
  BY NewLaneFits
<1>4. lanes \in Seq(Lane) /\ AnglesFit(lanes)
  BY <1>1, AtSubKnows
<1>5. lanes' \in Seq(Lane) /\ Len(lanes') = Len(lanes) + 1
      /\ \A i \in 1..Len(lanes') : lanes'[i] = IF i <= Len(lanes) THEN lanes[i] ELSE NewLane(p)
  BY <1>2, <1>3, <1>4
<1>6. AnglesFit(lanes)'
  BY <1>3, <1>4, <1>5, TlvAssumption DEF TlvAssumption, AnglesFit
<1>7. Len(lanes') <= MaxLaneGuidance - Len(out["lanes"])
  <2> DEFINE k == MaxLaneGuidance - Len(out["lanes"])
  <2>1. k \in Int /\ Len(lanes) \in Nat
    BY <1>1, <1>4, AtSubKnows, TlvAssumption DEF TlvAssumption
  <2>2. Len(lanes) < k
    BY <1>1 DEF out_max
  <2> HIDE DEF k
  <2>3. Len(lanes') = Len(lanes) + 1
    BY <1>5
  <2>4. Len(lanes') <= k
    BY <2>1, <2>2, <2>3
  <2> QED
    BY <2>4 DEF k
<1> QED
  BY <1>1, <1>5, <1>6, <1>7, SubStep

(* A status, angles or a highlight: the lanes are those open, with one     *)
(* replaced by a lane that fits.                                           *)
LEMMA AttributeStep ==
  ASSUME ParserInv, AtSub, NextSub, highlight' \in BOOLEAN,
         NEW l \in Lane, Len(l.angles) <= MaxLaneAngles,
         lanes' = Opened \/ lanes' = [Opened EXCEPT ![lane_idx] = l]
  PROVE  ParserInv'
<1>1. lanes \in Seq(Lane) /\ AnglesFit(lanes)
      /\ Len(lanes) <= MaxLaneGuidance - Len(out["lanes"])
      /\ Len(out["lanes"]) \in Nat /\ Len(out["lanes"]) < MaxLaneGuidance
  BY AtSubKnows
<1>2. Opened \in Seq(Lane) /\ AnglesFit(Opened) /\ lane_idx \in 1..Len(Opened)
      /\ Len(Opened) = IF lanes = << >> THEN 1 ELSE Len(lanes)
  BY <1>1, OpenedFits
<1>3. lanes' \in Seq(Lane) /\ AnglesFit(lanes') /\ Len(lanes') = Len(Opened)
  BY <1>2, ReplaceFits
<1>4. Len(lanes') <= MaxLaneGuidance - Len(out["lanes"])
  <2> DEFINE k == MaxLaneGuidance - Len(out["lanes"])
  <2>1. k \in Int /\ 1 <= k
    BY <1>1, TlvAssumption DEF TlvAssumption
  <2>2. Len(lanes') = 1 \/ Len(lanes') = Len(lanes)
    BY <1>2, <1>3
  <2>3. Len(lanes) <= k
    BY <1>1
  <2> HIDE DEF k
  <2>4. Len(lanes') <= k
    BY <2>1, <2>2, <2>3
  <2> QED
    BY <2>4 DEF k
<1>5. AnglesFit(lanes)'
  BY <1>3 DEF AnglesFit
<1> QED
  BY <1>3, <1>4, <1>5, SubStep

(* The lane the attributes belong to.                                      *)
LEMMA CurrentFits ==
  ASSUME ParserInv, AtSub
  PROVE  Current \in Lane /\ Current.angles \in Seq(Int) /\ Len(Current.angles) <= MaxLaneAngles
<1>1. lanes \in Seq(Lane) /\ AnglesFit(lanes)
  BY AtSubKnows
<1>2. Opened \in Seq(Lane) /\ AnglesFit(Opened) /\ lane_idx \in 1..Len(Opened)
  BY <1>1, OpenedFits
<1>3. Current \in Lane /\ Len(Current.angles) <= MaxLaneAngles
  BY <1>2 DEF Current, AnglesFit
<1> QED
  BY <1>3 DEF Lane

LEMMA StatusParser == ParserInv /\ ReadStatus => ParserInv'
<1> SUFFICES ASSUME ParserInv, ReadStatus PROVE ParserInv'
  OBVIOUS
<1>1. AtSub /\ NextSub /\ highlight' = highlight
  BY DEF ReadStatus
<1>2. highlight \in BOOLEAN /\ \A i \in 1..Len(info.val) : info.val[i] \in Int
      /\ info.val \in Seq(Byte)
  BY <1>1, AtSubKnows
<1>3. Current \in Lane /\ Len(Current.angles) <= MaxLaneAngles
  BY <1>1, CurrentFits
<1>4. CASE Len(info.val) >= 1
  <2> DEFINE l == [Current EXCEPT !.status = info.val[1]]
  <2>1. info.val[1] \in Int
    BY <1>2, <1>4
  <2>2. l \in Lane /\ l.angles = Current.angles
    BY <1>3, <2>1 DEF Lane
  <2>3. lanes' = [Opened EXCEPT ![lane_idx] = l]
    BY <1>4 DEF ReadStatus, Current
  <2> QED
    BY <1>1, <1>2, <1>3, <2>2, <2>3, AttributeStep
<1>5. CASE ~(Len(info.val) >= 1)
  <2>1. lanes' = Opened
    BY <1>5 DEF ReadStatus
  <2> QED
    BY <1>1, <1>2, <1>3, <2>1, AttributeStep
<1> QED
  BY <1>4, <1>5

LEMMA HighlightParser == ParserInv /\ ReadHighlight => ParserInv'
<1> SUFFICES ASSUME ParserInv, ReadHighlight PROVE ParserInv'
  OBVIOUS
<1>1. AtSub /\ NextSub
  BY DEF ReadHighlight
<1>2. highlight \in BOOLEAN /\ \A i \in 1..Len(info.val) : info.val[i] \in Int
      /\ info.val \in Seq(Byte)
  BY <1>1, AtSubKnows
<1>3. Current \in Lane /\ Len(Current.angles) <= MaxLaneAngles
  BY <1>1, CurrentFits
<1>4. CASE Len(info.val) >= 1
  <2> DEFINE d == IF Len(info.val) >= 2 THEN Int16(Word(info.val, 1)) ELSE info.val[1]
             l == [Current EXCEPT !.direction = d]
  <2>1. d \in Int
    BY <1>2, <1>4 DEF Int16, Word
  <2>2. lanes' = [Opened EXCEPT ![lane_idx] = l] /\ highlight' = TRUE
    BY <1>4 DEF ReadHighlight, Current
  <2> HIDE DEF d
  <2>3. l \in Lane /\ l.angles = Current.angles
    BY <1>3, <2>1 DEF Lane
  <2> QED
    BY <1>1, <1>3, <2>2, <2>3, AttributeStep
<1>5. CASE ~(Len(info.val) >= 1)
  <2>1. lanes' = Opened /\ highlight' = highlight
    BY <1>5 DEF ReadHighlight
  <2> QED
    BY <1>1, <1>2, <1>3, <2>1, AttributeStep
<1> QED
  BY <1>4, <1>5

LEMMA WithAnglesFits ==
  ASSUME NEW l \in Lane, NEW added \in Seq(Int)
  PROVE  /\ WithAngles(l, added) \in Lane
         /\ Len(WithAngles(l, added).angles) = Len(l.angles) + Len(added)
<1> DEFINE real == {i \in 1..Len(added) : added[i] # NoAngle}
           first == CHOOSE i \in real : \A j \in real : i <= j
           d == IF ~highlight /\ l.direction = NoAngle /\ real # {}
                THEN added[first] ELSE l.direction
<1>1. l.direction \in Int /\ l.angles \in Seq(Int)
  BY DEF Lane
<1>2. d \in Int
  <2>1. CASE real # {}
    <3>1. PICK i \in real : \A j \in real : ~(<<j, i>> \in OpToRel(<, Nat))
      <4>1. real \subseteq Nat
        OBVIOUS
      <4> QED
        BY <2>1, <4>1, NatLessThanWellFounded, WFMin
    <3>2. \A j \in real : i <= j
      <4> SUFFICES ASSUME NEW j \in real, j < i PROVE FALSE
        OBVIOUS
      <4>1. <<j, i>> \in {ss \in Nat \X Nat : ss[1] < ss[2]}
        OBVIOUS
      <4>2. <<j, i>> \in OpToRel(<, Nat)
        BY <4>1 DEF OpToRel
      <4> QED
        BY <3>1, <4>2
    <3>3. first \in real
      BY <3>2
    <3>4. added[first] \in Int
      BY <3>3
    <3> QED
      BY <1>1, <3>4
  <2>2. CASE real = {}
    BY <1>1, <2>2
  <2> QED
    BY <2>1, <2>2
<1>3. l.angles \o added \in Seq(Int) /\ Len(l.angles \o added) = Len(l.angles) + Len(added)
  BY <1>1, ConcatProperties
<1>4. WithAngles(l, added) = [l EXCEPT !.angles = l.angles \o added, !.direction = d]
  BY DEF WithAngles
<1> HIDE DEF d
<1> QED
  BY <1>2, <1>3, <1>4 DEF Lane

LEMMA AnglesParser == ParserInv /\ ReadAngles => ParserInv'
<1> SUFFICES ASSUME ParserInv, ReadAngles PROVE ParserInv'
  OBVIOUS
<1>1. AtSub /\ NextSub /\ highlight' = highlight
  BY DEF ReadAngles
<1>2. highlight \in BOOLEAN /\ info.val \in Seq(Byte)
  BY <1>1, AtSubKnows
<1>3. Current \in Lane /\ Current.angles \in Seq(Int) /\ Len(Current.angles) <= MaxLaneAngles
  BY <1>1, CurrentFits
<1> DEFINE room == MaxLaneAngles - Len(Current.angles)
           added == Cut(Angles(info.val), room)
           l == WithAngles(Current, added)
<1>4. room \in Nat
  BY <1>3, TlvAssumption DEF TlvAssumption
<1>5. added \in Seq(Int) /\ Len(added) <= room
  BY <1>2, <1>4, WordsAreNumbers, CutFits
<1>6. lanes' = [Opened EXCEPT ![lane_idx] = l]
  BY DEF ReadAngles
<1> HIDE DEF added
<1>7. l \in Lane /\ Len(l.angles) = Len(Current.angles) + Len(added)
  BY <1>3, <1>5, WithAnglesFits
<1>8. Len(l.angles) <= MaxLaneAngles
  BY <1>3, <1>5, <1>7, TlvAssumption DEF TlvAssumption
<1> HIDE DEF l
<1> QED
  BY <1>1, <1>2, <1>6, <1>7, <1>8, AttributeStep

LEMMA SkipSubParser == ParserInv /\ SkipSub => ParserInv'
<1> SUFFICES ASSUME ParserInv, SkipSub PROVE ParserInv'
  OBVIOUS
<1>1. AtSub /\ NextSub /\ lanes' = lanes /\ highlight' = highlight
  BY DEF SkipSub
<1>2. AnglesFit(lanes)'
  BY <1>1, AtSubKnows DEF AnglesFit
<1> QED
  BY <1>1, <1>2, AtSubKnows, SubStep

LEMMA EndParser == ParserInv /\ EndLanes => ParserInv'
<1> SUFFICES ASSUME ParserInv, EndLanes PROVE ParserInv'
  OBVIOUS
<1> DEFINE all == out["lanes"] \o lanes
<1>1. walk = "lane" /\ walk' = "tlv" /\ pos' = pos + 1 /\ UNCHANGED <<msg, sub, lanes, highlight>>
      /\ DOMAIN (out') = DOMAIN out \cup {"lanes"} /\ out'["lanes"] = all
      /\ \A g \in DOMAIN out : g # "lanes" => out'[g] = out[g]
  BY DEF EndLanes, Put
<1>2. lanes \in Seq(Lane) /\ AnglesFit(lanes) /\ "lanes" \in DOMAIN out
      /\ out["lanes"] \in Seq(Lane) /\ AnglesFit(out["lanes"])
      /\ Len(out["lanes"]) + Len(lanes) <= MaxLaneGuidance
  BY <1>1 DEF ParserInv, ParserTypeOK, ArraysHold
<1>3. all \in Seq(Lane) /\ Len(all) <= MaxLaneGuidance /\ AnglesFit(all)
  BY <1>2, JoinFits
<1> HIDE DEF all
<1>4. pos' \in Nat \ {0}
  BY <1>1 DEF ParserInv, ParserTypeOK
<1>5. \A f \in DOMAIN (out') \cap Lists : out'[f] \in Seq(Int)
  BY <1>1 DEF Lists, ParserInv, ParserTypeOK
<1>6. ParserTypeOK'
  BY <1>1, <1>3, <1>4, <1>5 DEF ParserInv, ParserTypeOK
<1>7. \A f \in DOMAIN (out') \cap DOMAIN Room : Len(out'[f]) <= Room[f]
  BY <1>1, <1>3 DEF ParserInv, ArraysHold, Room
<1>8. AnglesFit(out'["lanes"]) /\ AnglesFit(lanes)'
  BY <1>1, <1>2, <1>3 DEF AnglesFit
<1>9. ArraysHold'
  BY <1>1, <1>7, <1>8 DEF ArraysHold, AnglesFit
<1> QED
  BY <1>6, <1>9 DEF ParserInv

----------------------------------------------------------------------------

(* The structures hold what the parsers write, for every message: the      *)
(* bounds checks of rgd_tlv.c:242, :352, :515, :600 and :613 suffice.      *)
THEOREM ParserFits == ParserSpec => []ArraysHold
<1>1. ParserInv /\ [ParserNext]_parserVars => ParserInv'
  <2> SUFFICES ASSUME ParserInv, [ParserNext]_parserVars PROVE ParserInv'
    OBVIOUS
  <2>1. CASE ParserNext
    BY <2>1, NumberParser, TextParser, ListParser, MoreParser, OthersParser, LanesParser,
       FinishParser, OpenParser, StatusParser, AnglesParser, HighlightParser, SkipSubParser,
       EndParser DEF ParserNext
  <2>2. CASE UNCHANGED parserVars
    BY <2>2 DEF parserVars, ParserInv, ParserTypeOK, ArraysHold, AnglesFit, tlv
  <2> QED
    BY <2>1, <2>2
<1>2. ParserInv => ArraysHold
  BY DEF ParserInv
<1> QED
  BY <1>1, <1>2, InitParser, PTL DEF ParserSpec

-----------------------------------------------------------------------------
(* Numbers of two bytes, and sequences of bytes.  The lemmas see them only *)
(* through these names, in which the provers need not look inside.         *)
BigEndian(hi, lo) == 256 * hi + lo

LEMMA DivProduct ==
  ASSUME NEW n \in Int, NEW q, q = n \div 256, NEW r, r = n % 256
  PROVE  n = BigEndian(q, r)
BY DEF BigEndian

LEMMA DivRange ==
  ASSUME NEW n \in Int, n >= 0, n =< 65535, NEW q, q = n \div 256
  PROVE  q \in 0..255
<1>1. q \in Nat
  OBVIOUS
<1>2. q =< 255
  OBVIOUS
<1> QED
  BY <1>1, <1>2

LEMMA ModRange ==
  ASSUME NEW n \in Int, NEW r, r = n % 256
  PROVE  r \in 0..255
OBVIOUS

LEMMA SmallMod ==
  ASSUME NEW p \in Int, p >= 0, p =< 255, NEW x, x = p % 256
  PROVE  x = p
OBVIOUS

LEMMA Be16At ==
  ASSUME NEW n \in Int, n >= 0, n =< 65535,
         NEW q, q = n \div 256, NEW r, r = n % 256, NEW x, x = q % 256
  PROVE  q \in 0..255 /\ r \in 0..255 /\ x = q /\ n = BigEndian(q, r)
<1>1. q \in 0..255
  BY DivRange
<1>2. r \in 0..255
  BY ModRange
<1>3. n = BigEndian(q, r)
  BY DivProduct
<1>4. q \in Int /\ q >= 0 /\ q =< 255
  BY <1>1
<1>5. x = q
  BY <1>4, SmallMod
<1> QED
  BY <1>1, <1>2, <1>3, <1>5

LEMMA Be16Is ==
  ASSUME NEW n \in Int, n >= 0, n =< 65535
  PROVE  \E q, r \in Int : Be16(n) = <<q, r>> /\ n = BigEndian(q, r)
<1>1. PICK q : q = n \div 256
  OBVIOUS
<1>2. PICK r : r = n % 256
  OBVIOUS
<1>3. PICK x : x = q % 256
  OBVIOUS
<1>5. q \in 0..255 /\ r \in 0..255 /\ x = q /\ n = BigEndian(q, r)
  BY <1>1, <1>2, <1>3, Be16At
<1>6. Be16(n) = <<x, r>>
  BY <1>1, <1>2, <1>3 DEF Be16
<1>8. q \in Int /\ r \in Int
  BY <1>5
<1>7. Be16(n) = <<q, r>>
  BY <1>5, <1>6
<1> QED
  BY <1>5, <1>7, <1>8

Of(S) == Seq(S)

LEMMA NoBytes == ASSUME NEW S PROVE << >> \in Of(S) /\ Len(<< >>) = 0
BY DEF Of

LEMMA TwoBytes ==
  ASSUME NEW x \in Int, NEW y \in Int
  PROVE  <<x, y>> \in Of(Int) /\ Len(<<x, y>>) = 2 /\ <<x, y>>[1] = x /\ <<x, y>>[2] = y
BY DEF Of

LEMMA Be16Seq == ASSUME NEW n \in Int PROVE Be16(n) \in Of(Int) /\ Len(Be16(n)) = 2
<1>1. PICK q \in Int : q = n \div 256
  OBVIOUS
<1>2. PICK r \in Int : r = n % 256
  OBVIOUS
<1>3. PICK x \in Int : x = q % 256
  OBVIOUS
<1>4. Be16(n) = <<x, r>>
  BY <1>1, <1>2, <1>3 DEF Be16
<1> QED
  BY <1>4, TwoBytes

Cat(a, b) == a \o b
Size(a) == Len(a)
ByteAt(a, i) == a[i]

LEMMA Joined ==
  ASSUME NEW S, NEW a, a \in Of(S), NEW b, b \in Of(S)
  PROVE  Cat(a, b) \in Of(S) /\ Size(Cat(a, b)) = Size(a) + Size(b)
BY ConcatProperties DEF Of, Cat, Size

LEMMA Sized == ASSUME NEW S, NEW a, a \in Of(S) PROVE Size(a) \in Nat
BY DEF Of, Size

LEMMA Before ==
  ASSUME NEW S, NEW a, a \in Of(S), NEW b, b \in Of(S), NEW i \in Int, 1 =< i, i =< Size(a)
  PROVE  ByteAt(Cat(a, b), i) = ByteAt(a, i)
<1>1. \A j \in 1..Len(a) + Len(b) : (a \o b)[j] = IF j <= Len(a) THEN a[j] ELSE b[j - Len(a)]
  BY ConcatProperties DEF Of
<1>2. Len(a) \in Nat /\ Len(b) \in Nat
  BY DEF Of
<1>3. PICK m \in Nat, n \in Nat : m = Len(a) /\ n = Len(b)
  BY <1>2
<1>4. i \in 1..m + n /\ i <= m
  BY <1>3 DEF Size
<1>5. (a \o b)[i] = a[i]
  BY <1>1, <1>3, <1>4
<1> QED
  BY <1>5 DEF Cat, ByteAt

LEMMA After ==
  ASSUME NEW S, NEW a, a \in Of(S), NEW b, b \in Of(S), NEW i \in Int, 1 =< i, i =< Size(b),
         NEW j, j = Size(a) + i
  PROVE  ByteAt(Cat(a, b), j) = ByteAt(b, i)
<1>1. \A k \in 1..Len(a) + Len(b) : (a \o b)[k] = IF k <= Len(a) THEN a[k] ELSE b[k - Len(a)]
  BY ConcatProperties DEF Of
<1>2. Len(a) \in Nat /\ Len(b) \in Nat
  BY DEF Of
<1>3. PICK m \in Nat, n \in Nat : m = Len(a) /\ n = Len(b)
  BY <1>2
<1>4. j \in 1..m + n /\ ~(j <= m) /\ j - m = i
  BY <1>3 DEF Size
<1>5. (a \o b)[j] = b[i]
  BY <1>1, <1>3, <1>4
<1> QED
  BY <1>5 DEF Cat, ByteAt

LEMMA Be16Fits == ASSUME NEW n \in Int PROVE Be16(n) \in Of(Int) /\ Size(Be16(n)) = 2
BY Be16Seq DEF Size

LEMMA TlvIs ==
  ASSUME NEW id \in Int, NEW v, v \in Of(Int), NEW t, t = BuildTlv(id, v)
  PROVE  /\ t \in Of(Int) /\ Size(t) = 4 + Size(v)
         /\ Size(v) = 2 => ByteAt(t, 5) = ByteAt(v, 1) /\ ByteAt(t, 6) = ByteAt(v, 2)
<1>1. Size(v) \in Nat
  BY Sized
<1>2. PICK l : l = Be16(4 + Size(v))
  OBVIOUS
<1>3. l \in Of(Int) /\ Size(l) = 2
  BY <1>1, <1>2, Be16Fits
<1>4. PICK k : k = Be16(id)
  OBVIOUS
<1>5. k \in Of(Int) /\ Size(k) = 2
  BY <1>4, Be16Fits
<1>6. PICK a : a = Cat(l, k)
  OBVIOUS
<1>7. a \in Of(Int) /\ Size(a) = 4
  BY <1>3, <1>5, <1>6, Joined
<1>8. t = Cat(a, v)
  BY <1>2, <1>4, <1>6 DEF BuildTlv, Cat, Size
<1>9. t \in Of(Int) /\ Size(t) = 4 + Size(v)
  BY <1>7, <1>8, Joined
<1>10. ASSUME Size(v) = 2 PROVE ByteAt(t, 5) = ByteAt(v, 1) /\ ByteAt(t, 6) = ByteAt(v, 2)
  <2>1. 5 = Size(a) + 1 /\ 6 = Size(a) + 2
    BY <1>7
  <2>2. ByteAt(t, 5) = ByteAt(v, 1)
    BY <1>7, <1>8, <1>10, <2>1, After
  <2>3. ByteAt(t, 6) = ByteAt(v, 2)
    BY <1>7, <1>8, <1>10, <2>1, After
  <2> QED
    BY <2>2, <2>3
<1> QED
  BY <1>9, <1>10

LEMMA FrameIs ==
  ASSUME NEW m \in Int, NEW v, v \in Of(Int), NEW t, t = BuildFrame(m, v)
  PROVE  /\ t \in Of(Int) /\ Size(t) = 6 + Size(v)
         /\ Size(v) >= 6 => ByteAt(t, 11) = ByteAt(v, 5) /\ ByteAt(t, 12) = ByteAt(v, 6)
<1>1. Size(v) \in Nat
  BY Sized
<1>2. PICK l : l = Be16(6 + Size(v))
  OBVIOUS
<1>3. l \in Of(Int) /\ Size(l) = 2
  BY <1>1, <1>2, Be16Fits
<1>4. PICK k : k = Be16(m)
  OBVIOUS
<1>5. k \in Of(Int) /\ Size(k) = 2
  BY <1>4, Be16Fits
<1>6. PICK s : s = <<64, 64>>
  OBVIOUS
<1>7. s \in Of(Int) /\ Size(s) = 2
  BY <1>6, TwoBytes DEF Size
<1>8. PICK c : c = Cat(s, l)
  OBVIOUS
<1>9. c \in Of(Int) /\ Size(c) = 4
  BY <1>3, <1>7, <1>8, Joined
<1>10. PICK a : a = Cat(c, k)
  OBVIOUS
<1>11. a \in Of(Int) /\ Size(a) = 6
  BY <1>5, <1>9, <1>10, Joined
<1>12. t = Cat(a, v)
  BY <1>2, <1>4, <1>6, <1>8, <1>10 DEF BuildFrame, Cat, Size
<1>13. t \in Of(Int) /\ Size(t) = 6 + Size(v)
  BY <1>11, <1>12, Joined
<1>14. ASSUME Size(v) >= 6 PROVE ByteAt(t, 11) = ByteAt(v, 5) /\ ByteAt(t, 12) = ByteAt(v, 6)
  <2>1. 11 = Size(a) + 5 /\ 12 = Size(a) + 6
    BY <1>11
  <2>2. 5 =< Size(v) /\ 6 =< Size(v)
    BY <1>1, <1>14
  <2>3. ByteAt(t, 11) = ByteAt(v, 5)
    BY <1>11, <1>12, <2>1, <2>2, After
  <2>4. ByteAt(t, 12) = ByteAt(v, 6)
    BY <1>11, <1>12, <2>1, <2>2, After
  <2> QED
    BY <2>3, <2>4
<1> QED
  BY <1>13, <1>14

LEMMA NumberIs ==
  ASSUME NEW id \in Int, NEW n \in Int, n >= 0, n =< 65535, NEW t, t = BuildTlvU16(id, n)
  PROVE  t \in Of(Int) /\ Size(t) = 6 /\ BigEndian(ByteAt(t, 5), ByteAt(t, 6)) = n
<1>1. PICK q \in Int, r \in Int : Be16(n) = <<q, r>> /\ n = BigEndian(q, r)
  BY Be16Is
<1>2. PICK v : v = Be16(n)
  OBVIOUS
<1>3. v \in Of(Int) /\ Size(v) = 2 /\ ByteAt(v, 1) = q /\ ByteAt(v, 2) = r
  BY <1>1, <1>2, TwoBytes DEF Size, ByteAt
<1>4. t = BuildTlv(id, v)
  BY <1>2 DEF BuildTlvU16
<1>5. /\ t \in Of(Int) /\ Size(t) = 4 + Size(v)
      /\ ByteAt(t, 5) = ByteAt(v, 1) /\ ByteAt(t, 6) = ByteAt(v, 2)
  BY <1>3, <1>4, TlvIs
<1>6. Size(t) = 6
  BY <1>3, <1>5
<1>7. BigEndian(ByteAt(t, 5), ByteAt(t, 6)) = n
  BY <1>1, <1>3, <1>5
<1> QED
  BY <1>5, <1>6, <1>7

LEMMA Longer ==
  ASSUME NEW S, NEW a, a \in Of(S), Size(a) >= 6, NEW b, b \in Of(S), NEW c, c = Cat(a, b)
  PROVE  /\ c \in Of(S) /\ Size(c) >= 6
         /\ ByteAt(c, 5) = ByteAt(a, 5) /\ ByteAt(c, 6) = ByteAt(a, 6)
<1>1. Size(a) \in Nat /\ Size(b) \in Nat
  BY Sized
<1>2. 5 =< Size(a) /\ 6 =< Size(a)
  BY <1>1
<1>3. ByteAt(c, 5) = ByteAt(a, 5) /\ ByteAt(c, 6) = ByteAt(a, 6)
  BY <1>2, Before
<1>4. c \in Of(S) /\ Size(c) = Size(a) + Size(b)
  BY Joined
<1>5. Size(c) >= 6
  BY <1>1, <1>4
<1> QED
  BY <1>3, <1>4, <1>5

LEMMA StartHas ==
  ASSUME NEW n \in Int, n >= 0, n =< 65535,
         NEW w, w = BuildFrame(RG_START, BuildTlvU16(0, n) \o BuildTlv(1, << >>)
                                         \o BuildTlv(2, << >>) \o BuildTlv(3, << >>))
  PROVE  w \in Of(Int) /\ U16(w, 10) = n
<1>1. PICK a : a = BuildTlvU16(0, n)
  OBVIOUS
<1>2. a \in Of(Int) /\ Size(a) = 6 /\ BigEndian(ByteAt(a, 5), ByteAt(a, 6)) = n
  BY <1>1, NumberIs
<1>3. ASSUME NEW id \in Int PROVE BuildTlv(id, << >>) \in Of(Int)
  BY NoBytes, TlvIs
<1>4. PICK b, c, d : b = BuildTlv(1, << >>) /\ c = BuildTlv(2, << >>) /\ d = BuildTlv(3, << >>)
  OBVIOUS
<1>5. b \in Of(Int) /\ c \in Of(Int) /\ d \in Of(Int)
  BY <1>3, <1>4
<1>6. PICK e : e = Cat(a, b)
  OBVIOUS
<1>7. e \in Of(Int) /\ Size(e) >= 6 /\ ByteAt(e, 5) = ByteAt(a, 5) /\ ByteAt(e, 6) = ByteAt(a, 6)
  <2>1. Size(a) >= 6
    BY <1>2
  <2> QED
    BY <1>2, <1>5, <1>6, <2>1, Longer
<1>8. PICK f : f = Cat(e, c)
  OBVIOUS
<1>9. f \in Of(Int) /\ Size(f) >= 6 /\ ByteAt(f, 5) = ByteAt(a, 5) /\ ByteAt(f, 6) = ByteAt(a, 6)
  BY <1>5, <1>7, <1>8, Longer
<1>10. PICK v : v = Cat(f, d)
  OBVIOUS
<1>11. v \in Of(Int) /\ Size(v) >= 6 /\ ByteAt(v, 5) = ByteAt(a, 5) /\ ByteAt(v, 6) = ByteAt(a, 6)
  BY <1>5, <1>9, <1>10, Longer
<1>12. w = BuildFrame(RG_START, v)
  BY <1>1, <1>4, <1>6, <1>8, <1>10 DEF Cat
<1>13. RG_START \in Int
  BY DEF RG_START
<1>14. w \in Of(Int) /\ ByteAt(w, 11) = ByteAt(v, 5) /\ ByteAt(w, 12) = ByteAt(v, 6)
  BY <1>11, <1>12, <1>13, FrameIs
<1>15. BigEndian(ByteAt(w, 11), ByteAt(w, 12)) = n
  BY <1>2, <1>11, <1>14
<1>16. U16(w, 10) = BigEndian(ByteAt(w, 11), ByteAt(w, 12))
  BY DEF U16, BigEndian, ByteAt
<1> QED
  BY <1>14, <1>15, <1>16

One(x) == <<x>>

LEMMA OneByte ==
  ASSUME NEW S, NEW x \in S, NEW s, s = One(x)
  PROVE  s \in Of(S) /\ Size(s) = 1 /\ ByteAt(s, 1) = x
BY DEF Of, Size, ByteAt, One

LEMMA Wider ==
  ASSUME NEW S, NEW T, T \subseteq S, NEW s, s \in Of(T)
  PROVE  s \in Of(S)
BY DEF Of

LEMMA SameBytes ==
  ASSUME NEW S, NEW a, a \in Of(S), NEW b, b \in Of(S), Size(a) = Size(b),
         \A i \in Int : 1 =< i /\ i =< Size(a) => ByteAt(a, i) = ByteAt(b, i)
  PROVE  a = b
<1>1. Len(a) = Len(b)
  BY DEF Size
<1>2. \A i \in 1..Len(a) : a[i] = b[i]
  BY DEF Size, ByteAt
<1> QED
  BY <1>1, <1>2, SeqEqual DEF Of

Front(a, n) == SubSeq(a, 1, n)
Back(a, n) == SubSeq(a, n + 1, Len(a))

LEMMA StartSeq ==
  ASSUME NEW S, NEW a, a \in Of(S), NEW n \in Nat, n =< Size(a), NEW s, s = Front(a, n)
  PROVE  s \in Of(S) /\ Size(s) = n
<1>1. \A i \in 1..n : a[i] \in S
  BY DEF Of, Size
<1>2. s \in Seq(S) /\ Len(s) = (IF 1 <= n THEN n - 1 + 1 ELSE 0)
  BY <1>1, SubSeqProperties DEF Front
<1>3. Len(s) = n
  BY <1>2
<1> QED
  BY <1>2, <1>3 DEF Of, Size

LEMMA StartAt ==
  ASSUME NEW S, NEW a, a \in Of(S), NEW n \in Nat, n =< Size(a), NEW s, s = Front(a, n),
         NEW i \in Int, 1 =< i, i =< n
  PROVE  ByteAt(s, i) = ByteAt(a, i)
<1>1. \A j \in 1..n : a[j] \in S
  BY DEF Of, Size
<1>2. \A j \in 1..n - 1 + 1 : s[j] = a[1 + j - 1]
  BY <1>1, SubSeqProperties DEF Front
<1>3. i \in 1..n - 1 + 1 /\ 1 + i - 1 = i
  OBVIOUS
<1>4. s[i] = a[i]
  BY <1>2, <1>3
<1> QED
  BY <1>4 DEF ByteAt

LEMMA BackIs ==
  ASSUME NEW S, NEW a, a \in Of(S), NEW n \in Nat, n =< Size(a), NEW s, s = Back(a, n)
  PROVE  /\ s \in Of(S) /\ Size(s) = Size(a) - n
         /\ \A i \in Int : 1 =< i /\ i =< Size(a) - n => ByteAt(s, i) = ByteAt(a, n + i)
<1>1. PICK m \in Nat : m = Len(a) /\ m = Size(a)
  BY DEF Of, Size
<1>2. PICK k \in Int : k = n + 1
  OBVIOUS
<1>3. s = SubSeq(a, k, m)
  BY <1>1, <1>2 DEF Back
<1>4. ASSUME NEW i \in k..m PROVE a[i] \in S
  <2>1. i \in Int /\ 1 =< i /\ i =< m
    BY <1>1, <1>2, <1>4
  <2>2. i \in 1..m
    BY <2>1
  <2>3. \A j \in 1..Len(a) : a[j] \in S
    BY DEF Of
  <2> QED
    BY <1>1, <2>2, <2>3
<1>5. /\ s \in Seq(S)
      /\ Len(s) = (IF k <= m THEN m - k + 1 ELSE 0)
      /\ \A i \in 1..m - k + 1 : s[i] = a[k + i - 1]
  BY <1>3, <1>4, SubSeqProperties
<1>6. Len(s) = m - n
  BY <1>1, <1>2, <1>5
<1>7. ASSUME NEW i \in Int, 1 =< i, i =< m - n PROVE s[i] = a[n + i]
  <2>1. i \in 1..m - k + 1 /\ k + i - 1 = n + i
    BY <1>2, <1>7
  <2> QED
    BY <1>5, <2>1
<1> QED
  BY <1>1, <1>5, <1>6, <1>7 DEF Of, Size, ByteAt

LEMMA OverIs ==
  ASSUME NEW S, NEW a, a \in Of(S), NEW b, b \in Of(S), NEW off \in Nat,
         off + Size(b) =< Size(a), NEW o, o = Overwrite(a, off, b)
  PROVE  \E x, y, z :
           /\ x \in Of(S) /\ Size(x) = off
           /\ z \in Of(S) /\ Size(z) = Size(a) - (off + Size(b))
           /\ y = Cat(x, b) /\ y \in Of(S) /\ Size(y) = off + Size(b) /\ o = Cat(y, z)
           /\ \A i \in Int : 1 =< i /\ i =< off => ByteAt(x, i) = ByteAt(a, i)
           /\ \A i \in Int : 1 =< i /\ i =< Size(a) - (off + Size(b))
                => ByteAt(z, i) = ByteAt(a, off + Size(b) + i)
<1>1. Size(a) \in Nat /\ Size(b) \in Nat
  BY Sized
<1>2. PICK n \in Nat : n = off + Size(b)
  BY <1>1
<1>3. off =< Size(a) /\ n =< Size(a)
  BY <1>1, <1>2
<1>4. PICK x : x = Front(a, off)
  OBVIOUS
<1>5. x \in Of(S) /\ Size(x) = off
  BY <1>3, <1>4, StartSeq
<1>6. \A i \in Int : 1 =< i /\ i =< off => ByteAt(x, i) = ByteAt(a, i)
  BY <1>3, <1>4, StartAt
<1>7. PICK z : z = Back(a, n)
  OBVIOUS
<1>8. /\ z \in Of(S) /\ Size(z) = Size(a) - n
      /\ \A i \in Int : 1 =< i /\ i =< Size(a) - n => ByteAt(z, i) = ByteAt(a, n + i)
  BY <1>3, <1>7, BackIs
<1>9. PICK y : y = Cat(x, b)
  OBVIOUS
<1>10. y \in Of(S) /\ Size(y) = n
  BY <1>2, <1>5, <1>9, Joined
<1>11. o = Cat(y, z)
  <2>1. o = SubSeq(a, 1, off) \o b \o SubSeq(a, off + Len(b) + 1, Len(a))
    BY DEF Overwrite
  <2>2. off + Len(b) + 1 = n + 1
    BY <1>1, <1>2 DEF Size
  <2> QED
    BY <1>4, <1>7, <1>9, <2>1, <2>2 DEF Front, Back, Cat
<1> QED
  BY <1>2, <1>5, <1>6, <1>8, <1>9, <1>10, <1>11

LEMMA OverSeq ==
  ASSUME NEW S, NEW a, a \in Of(S), NEW b, b \in Of(S), NEW off \in Nat,
         off + Size(b) =< Size(a), NEW o, o = Overwrite(a, off, b)
  PROVE  o \in Of(S) /\ Size(o) = Size(a)
<1>1. Size(a) \in Nat /\ Size(b) \in Nat
  BY Sized
<1>2. PICK y, z :
        /\ y \in Of(S) /\ z \in Of(S) /\ o = Cat(y, z)
        /\ Size(y) = off + Size(b) /\ Size(z) = Size(a) - (off + Size(b))
  BY OverIs
<1>3. o \in Of(S) /\ Size(o) = Size(y) + Size(z)
  BY <1>2, Joined
<1> QED
  BY <1>1, <1>2, <1>3

LEMMA OverAt ==
  ASSUME NEW S, NEW a, a \in Of(S), NEW b, b \in Of(S), NEW off \in Nat,
         off + Size(b) =< Size(a), NEW o, o = Overwrite(a, off, b),
         NEW i \in Int, 1 =< i, i =< Size(a)
  PROVE  ByteAt(o, i) = IF off < i /\ i =< off + Size(b) THEN ByteAt(b, i - off) ELSE ByteAt(a, i)
<1>1. Size(a) \in Nat /\ Size(b) \in Nat
  BY Sized
<1>2. PICK x, y, z :
        /\ x \in Of(S) /\ Size(x) = off
        /\ z \in Of(S) /\ Size(z) = Size(a) - (off + Size(b))
        /\ y = Cat(x, b) /\ y \in Of(S) /\ Size(y) = off + Size(b) /\ o = Cat(y, z)
        /\ \A j \in Int : 1 =< j /\ j =< off => ByteAt(x, j) = ByteAt(a, j)
        /\ \A j \in Int : 1 =< j /\ j =< Size(a) - (off + Size(b))
             => ByteAt(z, j) = ByteAt(a, off + Size(b) + j)
  BY OverIs
<1>3. CASE i =< off
  <2>1. i =< Size(y) /\ i =< Size(x)
    BY <1>1, <1>2, <1>3
  <2>2. ByteAt(o, i) = ByteAt(y, i)
    BY <1>2, <2>1, Before
  <2>3. ByteAt(y, i) = ByteAt(x, i)
    BY <1>2, <2>1, Before
  <2>4. ~(off < i)
    BY <1>3
  <2> QED
    BY <1>2, <1>3, <2>2, <2>3, <2>4
<1>4. CASE off < i /\ i =< off + Size(b)
  <2>1. PICK j \in Int : j = i - off
    OBVIOUS
  <2>2. 1 =< j /\ j =< Size(b) /\ i = Size(x) + j /\ i =< Size(y)
    BY <1>1, <1>2, <1>4, <2>1
  <2>3. ByteAt(o, i) = ByteAt(y, i)
    BY <1>2, <2>2, Before
  <2>4. ByteAt(y, i) = ByteAt(b, j)
    BY <1>2, <2>2, After
  <2> QED
    BY <1>4, <2>1, <2>3, <2>4
<1>5. CASE off + Size(b) < i
  <2>1. PICK j \in Int : j = i - (off + Size(b))
    BY <1>1
  <2>2. 1 =< j /\ j =< Size(z) /\ i = Size(y) + j /\ off + Size(b) + j = i
    BY <1>1, <1>2, <1>5, <2>1
  <2>3. ByteAt(o, i) = ByteAt(z, j)
    BY <1>2, <2>2, After
  <2>4. j =< Size(a) - (off + Size(b))
    BY <1>2, <2>2
  <2>5. ByteAt(z, j) = ByteAt(a, i)
    BY <1>2, <2>2, <2>4
  <2>6. ~(i =< off + Size(b))
    BY <1>1, <1>5
  <2> QED
    BY <2>3, <2>5, <2>6
<1> QED
  BY <1>1, <1>3, <1>4, <1>5

(* A link header with its length, and with its checksum as well.           *)
Lengthed(header, total) == Overwrite(header, 2, Be16(total))
Stamped(header, total) == Lengthed(header, total) \o <<Cksum(Lengthed(header, total))>>

(* A set that the bytes are in, and whatever a checksum is.                *)
Covers(S) == Int \subseteq S

LEMMA LengthedSeq ==
  ASSUME NEW header, header \in Of(Int), Size(header) >= 8, NEW total \in Int
  PROVE  /\ Lengthed(header, total) \in Of(Int)
         /\ Size(Lengthed(header, total)) = Size(header)
<1>1. PICK b : b = Be16(total)
  OBVIOUS
<1>2. b \in Of(Int) /\ Size(b) = 2
  BY <1>1, Be16Fits
<1>3. 2 + Size(b) =< Size(header)
  BY <1>2, Sized
<1> QED
  BY <1>1, <1>2, <1>3, OverSeq DEF Lengthed

LEMMA LengthedAt ==
  ASSUME NEW header, header \in Of(Int), Size(header) >= 8, NEW total \in Int,
         NEW i \in Int, 1 =< i, i =< Size(header)
  PROVE  ByteAt(Lengthed(header, total), i) =
           IF 2 < i /\ i =< 4 THEN ByteAt(Be16(total), i - 2) ELSE ByteAt(header, i)
<1>1. PICK b : b = Be16(total)
  OBVIOUS
<1>2. b \in Of(Int) /\ Size(b) = 2
  BY <1>1, Be16Fits
<1>3. PICK o : o = Overwrite(header, 2, b)
  OBVIOUS
<1>4. 2 + Size(b) =< Size(header)
  BY <1>2, Sized
<1>5. ByteAt(o, i) = IF 2 < i /\ i =< 2 + Size(b) THEN ByteAt(b, i - 2) ELSE ByteAt(header, i)
  BY <1>2, <1>3, <1>4, OverAt
<1> QED
  BY <1>1, <1>2, <1>3, <1>5 DEF Lengthed

LEMMA StampSeq ==
  ASSUME NEW header, header \in Of(Int), Size(header) >= 8, NEW total \in Int,
         NEW S, Covers(S), Cksum(Lengthed(header, total)) \in S
  PROVE  /\ Lengthed(header, total) \in Of(S)
         /\ Stamped(header, total) \in Of(S)
         /\ Size(Stamped(header, total)) = Size(header) + 1
<1>1. PICK h, k : h = Lengthed(header, total) /\ k = Cksum(h)
  OBVIOUS
<1>2. h \in Of(Int) /\ Size(h) = Size(header)
  BY <1>1, LengthedSeq
<1>3. h \in Of(S)
  BY <1>2, Wider DEF Covers
<1>4. PICK o : o = One(k)
  OBVIOUS
<1>5. o \in Of(S) /\ Size(o) = 1
  BY <1>1, <1>4, OneByte
<1>6. Stamped(header, total) = Cat(h, o)
  BY <1>1, <1>4 DEF Stamped, Cat, One
<1>7. Cat(h, o) \in Of(S) /\ Size(Cat(h, o)) = Size(header) + 1
  BY <1>2, <1>3, <1>5, Joined
<1> QED
  BY <1>1, <1>3, <1>6, <1>7

LEMMA StampAt ==
  ASSUME NEW header, header \in Of(Int), Size(header) >= 8, NEW total \in Int,
         NEW S, Covers(S), Cksum(Lengthed(header, total)) \in S,
         NEW i \in Int, 1 =< i, i =< Size(header) + 1
  PROVE  ByteAt(Stamped(header, total), i) =
           IF i =< Size(header) THEN ByteAt(Lengthed(header, total), i)
           ELSE Cksum(Lengthed(header, total))
<1>1. PICK h, k : h = Lengthed(header, total) /\ k = Cksum(h)
  OBVIOUS
<1>2. h \in Of(Int) /\ Size(h) = Size(header)
  BY <1>1, LengthedSeq
<1>3. h \in Of(S)
  BY <1>2, Wider DEF Covers
<1>4. PICK o : o = One(k)
  OBVIOUS
<1>5. o \in Of(S) /\ Size(o) = 1 /\ ByteAt(o, 1) = k
  BY <1>1, <1>4, OneByte
<1>6. PICK e : e = Cat(h, o)
  OBVIOUS
<1>7. Stamped(header, total) = e
  BY <1>1, <1>4, <1>6 DEF Stamped, Cat, One
<1>8. Size(header) \in Nat
  BY Sized
<1>9. CASE i =< Size(header)
  <2>1. ByteAt(e, i) = ByteAt(h, i)
    BY <1>2, <1>3, <1>5, <1>6, <1>9, Before
  <2> QED
    BY <1>1, <1>7, <1>9, <2>1
<1>10. CASE i = Size(header) + 1
  <2>1. i = Size(h) + 1 /\ 1 =< Size(o)
    BY <1>2, <1>5, <1>10
  <2>2. ByteAt(e, i) = ByteAt(o, 1)
    BY <1>3, <1>5, <1>6, <2>1, After
  <2>3. ~(i =< Size(header))
    BY <1>8, <1>10
  <2> QED
    BY <1>1, <1>5, <1>7, <2>2, <2>3
<1> QED
  BY <1>8, <1>9, <1>10

LEMMA PacketIs ==
  ASSUME NEW header, header \in Of(Int), header # << >>, NEW frame, frame \in Of(Int)
  PROVE  Packet(header, frame) =
           Cat(Cat(Stamped(header, Size(header) + Size(frame) + 2), frame), One(Cksum(frame)))
<1>1. PICK m \in Nat, n \in Nat : m = Len(header) /\ n = Len(frame)
  BY DEF Of
<1>2. Len(header) + 1 + Len(frame) + 1 = Size(header) + Size(frame) + 2
  BY <1>1 DEF Size
<1>3. PICK total : total = Size(header) + Size(frame) + 2
  OBVIOUS
<1>4. Len(header) + 1 + Len(frame) + 1 = total
  BY <1>2, <1>3
<1>5. PICK h : h = Overwrite(header, 2, Be16(total))
  OBVIOUS
<1>6. Packet(header, frame) = h \o <<Cksum(h)>> \o frame \o <<Cksum(frame)>>
  BY <1>4, <1>5 DEF Packet
<1>7. Stamped(header, total) = h \o <<Cksum(h)>>
  BY <1>5 DEF Stamped, Lengthed
<1> QED
  BY <1>3, <1>6, <1>7 DEF Cat, One

(* What is kept of a packet is its header.                                 *)
LEMMA KeptIs ==
  ASSUME NEW header, header \in Of(Int), Size(header) >= 8, NEW frame, frame \in Of(Int),
         NEW n, n = Size(header) + 1
  PROVE  SubSeq(Packet(header, frame), 1, n)
           = Stamped(header, Size(header) + Size(frame) + 2)
<1>1. Size(header) \in Nat /\ Size(frame) \in Nat
  BY Sized
<1>2. PICK total \in Int : total = Size(header) + Size(frame) + 2
  BY <1>1
<1>3. PICK k, c : k = Cksum(Lengthed(header, total)) /\ c = Cksum(frame)
  OBVIOUS
<1>4. PICK S : Covers(S) /\ k \in S /\ c \in S
  <2> DEFINE T == Int \cup {k, c}
  <2>1. Covers(T) /\ k \in T /\ c \in T
    BY DEF Covers
  <2> QED
    BY <2>1
<1>5. PICK e : e = Stamped(header, total)
  OBVIOUS
<1>6. e \in Of(S) /\ Size(e) = n
  BY <1>3, <1>4, <1>5, StampSeq
<1>7. PICK d, a, o : o = One(c) /\ d = Cat(e, frame) /\ a = Cat(d, o)
  OBVIOUS
<1>8. frame \in Of(S)
  BY <1>4, Wider DEF Covers
<1>9. o \in Of(S) /\ Size(o) = 1
  BY <1>4, <1>7, OneByte
<1>10. d \in Of(S) /\ Size(d) = n + Size(frame)
  BY <1>6, <1>7, <1>8, Joined
<1>11. a \in Of(S) /\ Size(a) = n + Size(frame) + 1
  BY <1>7, <1>9, <1>10, Joined
<1>12. n \in Nat /\ n =< Size(d) /\ n =< Size(a)
  BY <1>1, <1>10, <1>11
<1>13. PICK s : s = Front(a, n)
  OBVIOUS
<1>14. a \in Of(S)
  BY <1>11
<1>15. s \in Of(S) /\ Size(s) = n
  BY <1>12, <1>13, <1>14, StartSeq
<1>16. ASSUME NEW i \in Int, 1 =< i, i =< n PROVE ByteAt(s, i) = ByteAt(e, i)
  <2>1. ByteAt(s, i) = ByteAt(a, i)
    BY <1>12, <1>13, <1>14, <1>16, StartAt
  <2>2. i =< Size(d)
    BY <1>1, <1>10, <1>12, <1>16
  <2>3. ByteAt(a, i) = ByteAt(d, i)
    BY <1>7, <1>9, <1>10, <1>16, <2>2, Before
  <2>4. ByteAt(d, i) = ByteAt(e, i)
    BY <1>6, <1>7, <1>8, <1>16, Before
  <2> QED
    BY <2>1, <2>3, <2>4
<1>17. s = e
  BY <1>6, <1>15, <1>16, SameBytes
<1>18. a = Packet(header, frame)
  <2>1. header # << >>
    BY DEF Size
  <2> QED
    BY <1>2, <1>3, <1>5, <1>7, <2>1, PacketIs
<1> QED
  BY <1>2, <1>5, <1>13, <1>17, <1>18 DEF Front

LEMMA Behind ==
  ASSUME NEW S, NEW x, x \in Of(S), NEW y, y \in Of(S), Size(x) = Size(y), NEW o, o \in Of(S),
         NEW i \in Int, Size(x) < i, i =< Size(x) + Size(o)
  PROVE  ByteAt(Cat(x, o), i) = ByteAt(Cat(y, o), i)
<1>1. Size(x) \in Nat
  BY Sized
<1>2. PICK j \in Int : j = i - Size(x)
  BY <1>1
<1>3. 1 =< j /\ j =< Size(o) /\ i = Size(x) + j /\ i = Size(y) + j
  <2>1. Size(o) \in Nat
    BY Sized
  <2> QED
    BY <1>1, <1>2, <2>1
<1>4. ByteAt(Cat(x, o), i) = ByteAt(o, j)
  BY <1>3, After
<1>5. ByteAt(Cat(y, o), i) = ByteAt(o, j)
  BY <1>3, After
<1> QED
  BY <1>4, <1>5

(* The length in a stamped header is not zero.                             *)
LEMMA HasLength ==
  ASSUME NEW header, header \in Of(Int), Size(header) >= 8,
         NEW total \in Int, total >= 1, total =< 65535,
         NEW h, h = Lengthed(header, total)
  PROVE  BigEndian(ByteAt(h, 3), ByteAt(h, 4)) = total
<1>1. PICK q, r : Be16(total) = <<q, r>> /\ total = BigEndian(q, r)
  BY Be16Is
<1>2. ByteAt(Be16(total), 1) = q /\ ByteAt(Be16(total), 2) = r
  BY <1>1 DEF ByteAt
<1>3. Size(header) \in Nat
  BY Sized
<1>4. 3 =< Size(header) /\ 4 =< Size(header)
  BY <1>3
<1>5. ByteAt(h, 3) = ByteAt(Be16(total), 3 - 2)
  BY <1>4, LengthedAt
<1>6. ByteAt(h, 4) = ByteAt(Be16(total), 4 - 2)
  BY <1>4, LengthedAt
<1> QED
  BY <1>1, <1>2, <1>5, <1>6

LEMMA PatchIs ==
  ASSUME NEW a, NEW j, NEW u, ~(j < 9), U16(a, 2) # 0, NEW q, q = j - 1,
         NEW p, p = Overwrite(a, 2, Be16(u))
  PROVE  PatchLinkHeader(a, j, u) = Overwrite(p, q, One(Cksum(Front(p, q))))
BY Zenon DEF PatchLinkHeader, Front, One

(* The link header of one packet, patched, is that of any other.           *)
LEMMA WrapIs ==
  ASSUME NEW header, header \in Of(Int), Size(header) >= 8, NEW f, f \in Of(Int),
         NEW t \in Int, t >= 1, t =< 65535
  PROVE  Wrapped(Stamped(header, t), f) = Packet(header, f)
<1>1. PICK n, m : n = Size(header) /\ m = Size(f)
  OBVIOUS
<1>2. n \in Nat /\ m \in Nat /\ n >= 8
  BY <1>1, Sized
<1>3. PICK u \in Int : u = n + m + 2
  BY <1>2
<1>4. PICK h, g : h = Lengthed(header, t) /\ g = Lengthed(header, u)
  OBVIOUS
<1>5. PICK k, l, c : k = Cksum(h) /\ l = Cksum(g) /\ c = Cksum(f)
  OBVIOUS
<1>6. PICK S : Covers(S) /\ k \in S /\ l \in S /\ c \in S
  <2> DEFINE T == Int \cup {k, l, c}
  <2>1. Covers(T) /\ k \in T /\ l \in T /\ c \in T
    BY DEF Covers
  <2> QED
    BY <2>1
<1>7. PICK e, x : e = Stamped(header, t) /\ x = Stamped(header, u)
  OBVIOUS
<1>8. h \in Of(S) /\ e \in Of(S) /\ Size(e) = n + 1
  BY <1>1, <1>4, <1>5, <1>6, <1>7, StampSeq
<1>9. g \in Of(S) /\ x \in Of(S) /\ Size(x) = n + 1
  BY <1>1, <1>4, <1>5, <1>6, <1>7, StampSeq
<1>10. Size(h) = n /\ Size(g) = n
  BY <1>1, <1>4, LengthedSeq
<1>11. PICK o : o = One(c)
  OBVIOUS
<1>12. o \in Of(S) /\ Size(o) = 1
  BY <1>6, <1>11, OneByte
<1>13. f \in Of(S)
  BY <1>6, Wider DEF Covers
<1>14. PICK d, y : d = Cat(e, f) /\ y = Cat(x, f)
  OBVIOUS
<1>15. d \in Of(S) /\ Size(d) = n + 1 + m
  BY <1>1, <1>8, <1>13, <1>14, Joined
<1>16. y \in Of(S) /\ Size(y) = n + 1 + m
  BY <1>1, <1>9, <1>13, <1>14, Joined
<1>17. PICK a, z : a = Cat(d, o) /\ z = Cat(y, o)
  OBVIOUS
<1>18. a \in Of(S) /\ Size(a) = n + m + 2
  <2>1. a \in Of(S) /\ Size(a) = n + 1 + m + 1
    BY <1>12, <1>15, <1>17, Joined
  <2> QED
    BY <1>2, <2>1
<1>19. z \in Of(S) /\ Size(z) = n + m + 2
  <2>1. z \in Of(S) /\ Size(z) = n + 1 + m + 1
    BY <1>12, <1>16, <1>17, Joined
  <2> QED
    BY <1>2, <2>1
<1>20. ASSUME NEW i \in Int, 1 =< i, i =< n
       PROVE  ByteAt(a, i) = ByteAt(h, i) /\ ByteAt(z, i) = ByteAt(g, i)
  <2>1. i =< Size(d) /\ i =< Size(y) /\ i =< Size(e) /\ i =< Size(x)
    BY <1>2, <1>8, <1>9, <1>15, <1>16, <1>20
  <2>2. ByteAt(a, i) = ByteAt(d, i)
    BY <1>12, <1>15, <1>17, <1>20, <2>1, Before
  <2>3. ByteAt(d, i) = ByteAt(e, i)
    BY <1>8, <1>13, <1>14, <1>20, <2>1, Before
  <2>4. ByteAt(z, i) = ByteAt(y, i)
    BY <1>12, <1>16, <1>17, <1>20, <2>1, Before
  <2>5. ByteAt(y, i) = ByteAt(x, i)
    BY <1>9, <1>13, <1>14, <1>20, <2>1, Before
  <2>6. i =< Size(header) /\ i =< Size(header) + 1
    BY <1>1, <1>2, <1>20
  <2>7. ByteAt(e, i) = ByteAt(h, i)
    BY <1>4, <1>5, <1>6, <1>7, <1>20, <2>6, StampAt
  <2>8. ByteAt(x, i) = ByteAt(g, i)
    BY <1>4, <1>5, <1>6, <1>7, <1>20, <2>6, StampAt
  <2> QED
    BY <2>2, <2>3, <2>4, <2>5, <2>7, <2>8
<1>21. ByteAt(z, n + 1) = l
  <2>1. PICK i \in Int : i = n + 1
    BY <1>2
  <2>2. 1 =< i /\ i =< Size(y) /\ i =< Size(x) /\ i =< Size(header) + 1 /\ ~(i =< Size(header))
    BY <1>1, <1>2, <1>9, <1>16, <2>1
  <2>3. ByteAt(z, i) = ByteAt(y, i)
    BY <1>12, <1>16, <1>17, <2>2, Before
  <2>4. ByteAt(y, i) = ByteAt(x, i)
    BY <1>9, <1>13, <1>14, <2>2, Before
  <2>5. ByteAt(x, i) = l
    BY <1>4, <1>5, <1>6, <1>7, <2>2, StampAt
  <2> QED
    BY <2>1, <2>3, <2>4, <2>5
<1>22. ASSUME NEW i \in Int, n + 1 < i, i =< n + m + 2
       PROVE  ByteAt(a, i) = ByteAt(z, i)
  <2>1. CASE i =< n + 1 + m
    <3>1. 1 =< i /\ i =< Size(d) /\ i =< Size(y)
      BY <1>2, <1>15, <1>16, <1>22, <2>1
    <3>2. ByteAt(a, i) = ByteAt(d, i)
      BY <1>12, <1>15, <1>17, <3>1, Before
    <3>3. ByteAt(z, i) = ByteAt(y, i)
      BY <1>12, <1>16, <1>17, <3>1, Before
    <3>4. Size(e) = Size(x) /\ Size(e) < i /\ i =< Size(e) + Size(f)
      BY <1>1, <1>8, <1>9, <1>22, <2>1
    <3>5. ByteAt(d, i) = ByteAt(y, i)
      BY <1>8, <1>9, <1>13, <1>14, <3>4, Behind
    <3> QED
      BY <3>2, <3>3, <3>5
  <2>2. CASE n + 1 + m < i
    <3>1. Size(d) = Size(y) /\ Size(d) < i /\ i =< Size(d) + Size(o)
      BY <1>2, <1>12, <1>15, <1>16, <1>22, <2>2
    <3> QED
      BY <1>12, <1>15, <1>16, <1>17, <3>1, Behind
  <2> QED
    BY <1>2, <2>1, <2>2
<1>23. PICK b, p : b = Be16(u) /\ p = Overwrite(a, 2, b)
  OBVIOUS
<1>24. b \in Of(Int) /\ Size(b) = 2
  BY <1>23, Be16Fits
<1>25. b \in Of(S)
  BY <1>6, <1>24, Wider DEF Covers
<1>26. p \in Of(S) /\ Size(p) = n + m + 2
  <2>1. 2 + Size(b) =< Size(a)
    BY <1>2, <1>18, <1>24
  <2> QED
    BY <1>18, <1>23, <1>25, <2>1, OverSeq
<1>27. ASSUME NEW i \in Int, 1 =< i, i =< n + m + 2
       PROVE  ByteAt(p, i) = IF 2 < i /\ i =< 4 THEN ByteAt(b, i - 2) ELSE ByteAt(a, i)
  <2>1. 2 + Size(b) =< Size(a) /\ i =< Size(a)
    BY <1>2, <1>18, <1>24, <1>27
  <2>2. ByteAt(p, i) = IF 2 < i /\ i =< 2 + Size(b) THEN ByteAt(b, i - 2) ELSE ByteAt(a, i)
    BY <1>18, <1>23, <1>25, <1>27, <2>1, OverAt
  <2> QED
    BY <1>24, <2>2
<1>28. ASSUME NEW i \in Int, 1 =< i, i =< n
       PROVE  ByteAt(p, i) = ByteAt(g, i)
  <2>1. i =< Size(header) /\ i =< n + m + 2
    BY <1>1, <1>2, <1>28
  <2>2. ByteAt(g, i) = IF 2 < i /\ i =< 4 THEN ByteAt(b, i - 2) ELSE ByteAt(header, i)
    BY <1>4, <1>23, <1>28, <2>1, LengthedAt
  <2>3. ByteAt(h, i) = IF 2 < i /\ i =< 4 THEN ByteAt(Be16(t), i - 2) ELSE ByteAt(header, i)
    BY <1>4, <1>28, <2>1, LengthedAt
  <2>4. ByteAt(a, i) = ByteAt(h, i)
    BY <1>20, <1>28
  <2>5. ByteAt(p, i) = IF 2 < i /\ i =< 4 THEN ByteAt(b, i - 2) ELSE ByteAt(a, i)
    BY <1>27, <1>28, <2>1
  <2> QED
    BY <2>2, <2>3, <2>4, <2>5
<1>29. Front(p, n) = g
  <2>1. PICK s : s = Front(p, n)
    OBVIOUS
  <2>2. n =< Size(p)
    BY <1>2, <1>26
  <2>3. s \in Of(S) /\ Size(s) = n
    BY <1>2, <1>26, <2>1, <2>2, StartSeq
  <2>4. ASSUME NEW i \in Int, 1 =< i, i =< n PROVE ByteAt(s, i) = ByteAt(g, i)
    <3>1. ByteAt(s, i) = ByteAt(p, i)
      BY <1>2, <1>26, <2>1, <2>2, <2>4, StartAt
    <3> QED
      BY <1>28, <2>4, <3>1
  <2>5. s = g
    BY <1>9, <1>10, <2>3, <2>4, SameBytes
  <2> QED
    BY <2>1, <2>5
<1>300. PICK w : w = One(l)
  OBVIOUS
<1>30. PICK v : v = Overwrite(p, n, w)
  OBVIOUS
<1>31. w \in Of(S) /\ Size(w) = 1 /\ ByteAt(w, 1) = l
  BY <1>6, <1>300, OneByte
<1>310. n + Size(w) =< Size(p)
  BY <1>2, <1>26, <1>31
<1>32. v \in Of(S) /\ Size(v) = n + m + 2
  BY <1>2, <1>26, <1>30, <1>31, <1>310, OverSeq
<1>33. ASSUME NEW i \in Int, 1 =< i, i =< n + m + 2 PROVE ByteAt(v, i) = ByteAt(z, i)
  <2>1. ByteAt(v, i) = IF n < i /\ i =< n + Size(w) THEN ByteAt(w, i - n) ELSE ByteAt(p, i)
    BY <1>2, <1>26, <1>30, <1>31, <1>310, <1>33, OverAt
  <2>2. CASE i =< n
    <3>1. ByteAt(v, i) = ByteAt(p, i)
      BY <1>2, <2>1, <2>2
    <3>2. ByteAt(p, i) = ByteAt(g, i)
      BY <1>28, <1>33, <2>2
    <3>3. ByteAt(z, i) = ByteAt(g, i)
      BY <1>20, <1>33, <2>2
    <3> QED
      BY <3>1, <3>2, <3>3
  <2>3. CASE i = n + 1
    <3>1. n < i /\ i =< n + Size(w) /\ i - n = 1
      BY <1>2, <1>31, <2>3
    <3>2. ByteAt(v, i) = l
      BY <1>31, <2>1, <3>1
    <3> QED
      BY <1>21, <2>3, <3>2
  <2>4. CASE n + 1 < i
    <3>1. ByteAt(v, i) = ByteAt(p, i)
      BY <1>2, <1>31, <2>1, <2>4
    <3>2. ~(i =< 4)
      BY <1>2, <2>4
    <3>3. ByteAt(p, i) = ByteAt(a, i)
      BY <1>27, <1>33, <3>2
    <3>4. ByteAt(a, i) = ByteAt(z, i)
      BY <1>22, <1>33, <2>4
    <3> QED
      BY <3>1, <3>3, <3>4
  <2> QED
    BY <1>2, <2>2, <2>3, <2>4
<1>34. v = z
  BY <1>19, <1>32, <1>33, SameBytes
<1>35. U16(a, 2) # 0
  <2>1. 3 =< n /\ 4 =< n
    BY <1>2
  <2>2. ByteAt(a, 3) = ByteAt(h, 3) /\ ByteAt(a, 4) = ByteAt(h, 4)
    BY <1>20, <2>1
  <2>3. BigEndian(ByteAt(h, 3), ByteAt(h, 4)) = t
    BY <1>4, HasLength
  <2>4. U16(a, 2) = BigEndian(ByteAt(a, 3), ByteAt(a, 4))
    BY DEF U16, BigEndian, ByteAt
  <2>5. U16(a, 2) = t
    BY <2>2, <2>3, <2>4
  <2> QED
    BY <2>5
<1>36. PatchLinkHeader(a, n + 1, u) = v
  <2>1. PICK j : j = n + 1
    OBVIOUS
  <2>2. ~(j < 9) /\ n = j - 1
    BY <1>2, <2>1
  <2>3. PatchLinkHeader(a, j, u) = Overwrite(p, n, One(Cksum(Front(p, n))))
    BY <1>23, <1>35, <2>2, PatchIs
  <2>4. One(Cksum(Front(p, n))) = w
    BY <1>5, <1>29, <1>300
  <2> QED
    BY <1>30, <2>1, <2>3, <2>4
<1>37. Wrapped(e, f) = PatchLinkHeader(a, n + 1, u)
  <2>1. e # << >>
    <3>1. Size(e) # 0
      BY <1>2, <1>8
    <3> QED
      BY <3>1 DEF Size
  <2>2. Len(e) = n + 1 /\ Len(f) = m
    BY <1>1, <1>8 DEF Size
  <2>3. Len(e) + Len(f) + 1 = u
    BY <1>2, <1>3, <2>2
  <2>4. a = e \o f \o <<Cksum(f)>>
    BY <1>5, <1>11, <1>14, <1>17 DEF Cat, One
  <2> QED
    BY <2>1, <2>2, <2>3, <2>4 DEF Wrapped
<1>38. z = Packet(header, f)
  <2>1. header # << >>
    BY <1>1, <1>2 DEF Size
  <2>2. Packet(header, f) = Cat(Cat(Stamped(header, u), f), One(Cksum(f)))
    BY <1>1, <1>3, <2>1, PacketIs
  <2> QED
    BY <1>5, <1>7, <1>11, <1>14, <1>17, <2>2
<1> QED
  BY <1>7, <1>34, <1>36, <1>37, <1>38
-----------------------------------------------------------------------------
(* The records of the session have their fields, whatever is in them.      *)

Hand(r) ==
  [pc |-> r.pc, identify |-> r.identify, location |-> r.location, prefix |-> r.prefix,
   frame |-> r.frame, packet |-> r.packet, torn |-> r.torn]

Flags(r) ==
  [active |-> r.active, sent_5200 |-> r.sent_5200, sent_5203 |-> r.sent_5203,
   got_520x |-> r.got_520x, component_valid |-> r.component_valid,
   component_id |-> r.component_id]

ThreadsShape ==
  /\ thr = [t \in Threads |-> thr[t]]
  /\ \A t \in Threads : thr[t] = Hand(thr[t])

Shape ==
  /\ ctx = [patched |-> ctx.patched, accepted |-> ctx.accepted, auth |-> ctx.auth,
            valid |-> ctx.valid, session |-> ctx.session]
  /\ link = [valid |-> link.valid, prefix |-> link.prefix]
  /\ rgd = Flags(rgd)
  /\ stack = [phase |-> stack.phase, frame |-> stack.frame, count |-> stack.count]
  /\ phone = [component |-> phone.component, accepted |-> phone.accepted,
              started |-> phone.started]
  /\ ThreadsShape

LEMMA InitShape == Init => Shape
<1> SUFFICES ASSUME Init PROVE Shape
  OBVIOUS
<1>1. ThreadsShape
  BY DEF Init, ThreadsShape, Idle, Hand
<1>2. /\ ctx = NoCtx /\ link = NoLink /\ rgd = NoRgd
      /\ stack = [phase |-> "begin", frame |-> << >>, count |-> 0]
      /\ phone = [component |-> 0, accepted |-> FALSE, started |-> FALSE]
  BY DEF Init
<1> QED
  BY <1>1, <1>2 DEF Shape, Flags, NoCtx, NoLink, NoRgd

LEMMA TheThreads ==
  /\ Exit \in Threads /\ Decoder \in Threads /\ Senders \subseteq Threads /\ Exit # Decoder
  /\ Exit \notin Senders /\ Decoder \notin Senders
  /\ \A t \in Threads : t \in Senders \/ t = Exit \/ t = Decoder
BY SessionAssumption DEF Threads, Exit, Decoder

(* A step of one thread.                                                   *)
Others(t) == \A u \in Threads : u # t => thr'[u] = thr[u]

LEMMA OneThread ==
  ASSUME ThreadsShape, NEW t \in Threads, NEW r, Becomes(t, r), r = Hand(r)
  PROVE  ThreadsShape' /\ Others(t) /\ thr'[t] = r
<1>1. thr \in [Threads -> {thr[u] : u \in Threads}] /\ thr' = [thr EXCEPT ![t] = r]
  BY DEF ThreadsShape, Becomes
<1>2. \A u \in Threads : thr'[u] = IF u = t THEN r ELSE thr[u]
  BY <1>1
<1>3. thr' = [u \in Threads |-> thr'[u]]
  BY <1>1
<1>4. Others(t) /\ thr'[t] = r
  BY <1>2 DEF Others
<1>5. ASSUME NEW u \in Threads PROVE thr'[u] = Hand(thr'[u])
  <2>1. CASE u = t
    BY <1>4, <2>1
  <2>2. CASE u # t
    BY <1>4, <2>2 DEF ThreadsShape, Others
  <2> QED
    BY <2>1, <2>2
<1> QED
  BY <1>3, <1>4, <1>5 DEF ThreadsShape

LEMMA GotoIs ==
  ASSUME ThreadsShape, NEW t \in Threads, NEW pc, Goto(t, pc)
  PROVE  /\ ThreadsShape' /\ Others(t)
         /\ thr'[t].pc = pc /\ thr'[t].identify = thr[t].identify
<1>1. PICK r : r = [Idle EXCEPT !.pc = pc, !.identify = thr[t].identify]
  OBVIOUS
<1>2. r = Hand(r) /\ r.pc = pc /\ r.identify = thr[t].identify
  BY <1>1 DEF Idle, Hand
<1>3. Becomes(t, r)
  BY <1>1 DEF Goto
<1>4. ThreadsShape' /\ Others(t) /\ thr'[t] = r
  BY <1>2, <1>3, OneThread
<1> QED
  BY <1>2, <1>4

LEMMA BeginIs ==
  ASSUME ThreadsShape, NEW t \in Threads, NEW f, Begin(t, f)
  PROVE  /\ ThreadsShape' /\ Others(t)
         /\ thr'[t].pc = "copy" /\ thr'[t].identify = thr[t].identify
         /\ thr'[t].frame = f /\ thr'[t].torn = FALSE
<1>1. PICK r : r = [Idle EXCEPT !.pc = "copy", !.identify = thr[t].identify, !.frame = f]
  OBVIOUS
<1>2. /\ r = Hand(r) /\ r.pc = "copy" /\ r.identify = thr[t].identify
      /\ r.frame = f /\ r.torn = FALSE
  BY <1>1 DEF Idle, Hand
<1>3. Becomes(t, r)
  BY <1>1 DEF Begin
<1>4. ThreadsShape' /\ Others(t) /\ thr'[t] = r
  BY <1>2, <1>3, OneThread
<1> QED
  BY <1>2, <1>4

(* The step that frees a link header, and what the others have of it.      *)
Keeps(t) ==
  \A u \in Threads : u # t =>
    /\ thr'[u].pc = thr[u].pc /\ thr'[u].identify = thr[u].identify
    /\ thr'[u].prefix = thr[u].prefix /\ thr'[u].frame = thr[u].frame
    /\ thr'[u].packet = thr[u].packet
    /\ thr'[u].torn = IF thr[u].pc = "copy" THEN TRUE ELSE thr[u].torn

LEMMA TearIs ==
  ASSUME ThreadsShape, NEW t \in Threads, NEW r, r = Hand(r), thr' = [Tear(t) EXCEPT ![t] = r]
  PROVE  ThreadsShape' /\ thr'[t] = r /\ Keeps(t)
<1>1. \A u \in Threads : thr'[u] =
        IF u = t THEN r
        ELSE IF thr[u].pc = "copy" THEN [thr[u] EXCEPT !.torn = TRUE] ELSE thr[u]
  BY DEF Tear
<1>2. thr' = [u \in Threads |-> thr'[u]]
  BY DEF Tear
<1>3. ASSUME NEW u \in Threads, u # t
      PROVE  /\ thr'[u] = Hand(thr'[u])
             /\ thr'[u].pc = thr[u].pc /\ thr'[u].identify = thr[u].identify
             /\ thr'[u].prefix = thr[u].prefix /\ thr'[u].frame = thr[u].frame
             /\ thr'[u].packet = thr[u].packet
             /\ thr'[u].torn = IF thr[u].pc = "copy" THEN TRUE ELSE thr[u].torn
  <2>1. PICK q : q = thr[u] /\ q = Hand(q)
    BY DEF ThreadsShape
  <2>2. CASE thr[u].pc = "copy"
    <3>1. PICK s : s = [q EXCEPT !.torn = TRUE] /\ s = thr'[u]
      BY <1>1, <1>3, <2>1, <2>2
    <3>2. /\ s = Hand(s) /\ s.pc = q.pc /\ s.identify = q.identify /\ s.prefix = q.prefix
          /\ s.frame = q.frame /\ s.packet = q.packet /\ s.torn = TRUE
      BY <2>1, <3>1 DEF Hand
    <3> QED
      BY <2>1, <2>2, <3>1, <3>2
  <2>3. CASE thr[u].pc # "copy"
    <3>1. thr'[u] = q
      BY <1>1, <1>3, <2>1, <2>3
    <3> QED
      BY <2>1, <2>3, <3>1
  <2> QED
    BY <2>2, <2>3
<1> QED
  BY <1>1, <1>2, <1>3 DEF ThreadsShape, Keeps

-----------------------------------------------------------------------------
(* What each step does to the threads.                                     *)

LEMMA CallIs ==
  ASSUME ThreadsShape, NEW t \in Senders, NEW i, NEW f, NEW h, Call(t, i, f, h)
  PROVE  /\ ThreadsShape' /\ Others(t)
         /\ thr[t].pc = "idle" /\ thr'[t].pc \in {"pass", "store"} /\ thr'[t].identify = i
         /\ thr'[t].pc = "store" => thr'[t].prefix = Kept(Packet(h, f))
         /\ UNCHANGED <<ctx, link, in_send, fw, modules, rgd, todo, phone, wire, failed>>
<1>0. t \in Threads
  BY TheThreads
<1>1. PICK b, off, l :
        /\ b = Packet(h, f) /\ off = FindFrame(b) /\ l = (U16(b, off + 4) = LOCATION_INFO)
  OBVIOUS
<1>2. IF in_send \/ off = NotFound
      THEN Becomes(t, [Idle EXCEPT !.pc = "pass", !.identify = i])
      ELSE Becomes(t, [Idle EXCEPT !.pc = "store", !.identify = i, !.prefix = Kept(b),
                                   !.location = l])
  BY <1>1 DEF Call
<1>3. PICK r : /\ Becomes(t, r)
               /\ \/ r = [Idle EXCEPT !.pc = "pass", !.identify = i]
                  \/ r = [Idle EXCEPT !.pc = "store", !.identify = i, !.prefix = Kept(b),
                                      !.location = l]
  BY <1>2
<1>4. /\ r = Hand(r) /\ r.pc \in {"pass", "store"} /\ r.identify = i
      /\ r.pc = "store" => r.prefix = Kept(b)
  BY <1>3 DEF Idle, Hand
<1>5. ThreadsShape' /\ Others(t) /\ thr'[t] = r
  BY <1>0, <1>3, <1>4, OneThread
<1>6. /\ thr[t].pc = "idle"
      /\ UNCHANGED <<ctx, link, in_send, fw, modules, rgd, todo, phone, wire, failed>>
  BY DEF Call, At
<1> QED
  BY <1>1, <1>4, <1>5, <1>6

LEMMA StoreIs ==
  ASSUME ThreadsShape, NEW t \in Senders, StoreContext(t)
  PROVE  /\ ThreadsShape' /\ Keeps(t)
         /\ thr[t].pc = "store" /\ thr'[t].pc \in {"notify", "pass"}
         /\ thr'[t].identify = thr[t].identify
         /\ \/ link' = [valid |-> TRUE, prefix |-> thr[t].prefix] /\ UNCHANGED failed
            \/ link' = [valid |-> TRUE, prefix |-> << >>] /\ Fail
         /\ UNCHANGED <<ctx, in_send, fw, modules, rgd, todo, stack, phone, wire>>
<1>0. t \in Threads
  BY TheThreads
<1>1. PICK p : p = IF thr[t].location THEN "notify" ELSE "pass"
  OBVIOUS
<1>2. PICK r : r = [Idle EXCEPT !.identify = thr[t].identify, !.pc = p]
  OBVIOUS
<1>3. r = Hand(r) /\ r.pc = p /\ r.identify = thr[t].identify
  BY <1>2 DEF Idle, Hand
<1>4. thr' = [Tear(t) EXCEPT ![t] = r]
  BY <1>1, <1>2 DEF StoreContext
<1>5. ThreadsShape' /\ thr'[t] = r /\ Keeps(t)
  BY <1>0, <1>3, <1>4, TearIs
<1>6. /\ thr[t].pc = "store"
      /\ \/ link' = [valid |-> TRUE, prefix |-> thr[t].prefix] /\ UNCHANGED failed
         \/ link' = [valid |-> TRUE, prefix |-> << >>] /\ Fail
      /\ UNCHANGED <<ctx, in_send, fw, modules, rgd, todo, stack, phone, wire>>
  BY DEF StoreContext, At
<1> QED
  BY <1>1, <1>3, <1>5, <1>6

LEMMA UnloadIs ==
  ASSUME ThreadsShape, Unload
  PROVE  /\ ThreadsShape' /\ Keeps(Exit)
         /\ thr[Exit].pc = "unload" /\ thr'[Exit].pc = "idle" /\ thr'[Exit].identify = FALSE
         /\ link' = [link EXCEPT !.prefix = << >>] /\ modules' = FALSE /\ fw' = "down"
         /\ UNCHANGED <<ctx, in_send, rgd, todo, stack, phone, wire, failed>>
<1>1. PICK r : r = Idle
  OBVIOUS
<1>2. r = Hand(r) /\ r.pc = "idle" /\ r.identify = FALSE
  BY <1>1 DEF Idle, Hand
<1>3. thr' = [Tear(Exit) EXCEPT ![Exit] = r]
  BY <1>1 DEF Unload
<1>4. ThreadsShape' /\ thr'[Exit] = r /\ Keeps(Exit)
  BY <1>2, <1>3, TearIs, TheThreads
<1>5. /\ thr[Exit].pc = "unload"
      /\ link' = [link EXCEPT !.prefix = << >>] /\ modules' = FALSE /\ fw' = "down"
      /\ UNCHANGED <<ctx, in_send, rgd, todo, stack, phone, wire, failed>>
  BY DEF Unload, At
<1> QED
  BY <1>2, <1>4, <1>5

LEMMA PassIs ==
  ASSUME ThreadsShape, NEW t \in Senders, Pass(t)
  PROVE  /\ ThreadsShape' /\ Others(t)
         /\ thr[t].pc = "pass" /\ thr'[t].pc = "idle" /\ thr'[t].identify = FALSE
         /\ UNCHANGED <<ctx, link, in_send, fw, modules, rgd, todo, wire, failed>>
         /\ IF thr[t].identify
            THEN /\ stack' = [stack EXCEPT !.phase = "sent", !.frame = << >>]
                 /\ phone' = [component |-> ExtractComponentId(ComponentOf(stack.frame)),
                              accepted |-> FALSE, started |-> FALSE]
            ELSE UNCHANGED <<stack, phone>>
<1>0. t \in Threads
  BY TheThreads
<1>1. PICK r : r = Idle
  OBVIOUS
<1>2. r = Hand(r) /\ r.pc = "idle" /\ r.identify = FALSE
  BY <1>1 DEF Idle, Hand
<1>3. Becomes(t, r)
  BY <1>1 DEF Pass
<1>4. ThreadsShape' /\ Others(t) /\ thr'[t] = r
  BY <1>0, <1>2, <1>3, OneThread
<1> QED
  BY <1>2, <1>4 DEF Pass, At

LEMMA CopyIs ==
  ASSUME ThreadsShape, NEW t \in Threads, Copy(t)
  PROVE  /\ ThreadsShape' /\ Others(t)
         /\ thr[t].pc = "copy" /\ thr'[t].pc = "inject"
         /\ thr'[t].identify = thr[t].identify
         /\ thr'[t].frame = thr[t].frame /\ thr'[t].torn = thr[t].torn
         /\ thr'[t].packet = Wrapped(link.prefix, thr[t].frame)
         /\ UNCHANGED <<ctx, link, in_send, fw, modules, rgd, todo, stack, phone, wire, failed>>
<1>1. PICK q : q = thr[t] /\ q = Hand(q)
  BY DEF ThreadsShape
<1>2. PICK k : k = Wrapped(link.prefix, thr[t].frame)
  OBVIOUS
<1>3. PICK r : r = [q EXCEPT !.pc = "inject", !.packet = k]
  OBVIOUS
<1>4. /\ r = Hand(r) /\ r.pc = "inject" /\ r.identify = q.identify
      /\ r.frame = q.frame /\ r.torn = q.torn /\ r.packet = k
  BY <1>1, <1>3 DEF Hand
<1>5. Becomes(t, r)
  BY <1>1, <1>2, <1>3 DEF Copy
<1>6. ThreadsShape' /\ Others(t) /\ thr'[t] = r
  BY <1>4, <1>5, OneThread
<1>7. /\ thr[t].pc = "copy"
      /\ UNCHANGED <<ctx, link, in_send, fw, modules, rgd, todo, stack, phone, wire, failed>>
  BY DEF Copy, At
<1> QED
  BY <1>1, <1>2, <1>4, <1>6, <1>7

LEMMA CopyFailsIs ==
  ASSUME ThreadsShape, NEW t \in Threads, CopyFails(t)
  PROVE  /\ ThreadsShape' /\ Others(t)
         /\ thr[t].pc = "copy" /\ thr'[t].pc = Leave(t) /\ thr'[t].identify = thr[t].identify
         /\ UNCHANGED <<ctx, link, fw, modules, rgd, todo, stack, phone, wire>>
         /\ Fail
<1>1. PICK p : p = Leave(t)
  OBVIOUS
<1>2. /\ Goto(t, p) /\ thr[t].pc = "copy" /\ Fail
      /\ UNCHANGED <<ctx, link, fw, modules, rgd, todo, stack, phone, wire>>
  BY <1>1 DEF CopyFails, At
<1> QED
  BY <1>1, <1>2, GotoIs

LEMMA InjectIs ==
  ASSUME ThreadsShape, NEW t \in Threads, Inject(t)
  PROVE  /\ ThreadsShape' /\ Others(t)
         /\ thr[t].pc = "inject" /\ thr'[t].identify = thr[t].identify
         /\ UNCHANGED <<ctx, link, in_send, fw, modules, rgd, todo, stack>>
         /\ \/ /\ thr'[t].pc = "sent"
               /\ wire' = [what |-> IF t = Exit THEN "stop" ELSE "start",
                           frame |-> thr[t].frame, bytes |-> thr[t].packet,
                           torn |-> thr[t].torn, stopped |-> wire.stopped \/ t = Exit,
                           owed |-> IF t = Exit THEN wire.owed - 1 ELSE wire.owed + 1]
               /\ phone' = [phone EXCEPT !.started = (t # Exit)]
               /\ UNCHANGED failed
            \/ thr'[t].pc = "unsent" /\ Fail /\ UNCHANGED <<wire, phone>>
<1>1. /\ thr[t].pc = "inject"
      /\ UNCHANGED <<ctx, link, in_send, fw, modules, rgd, todo, stack>>
  BY DEF Inject, At
<1>2. CASE /\ Goto(t, "sent")
           /\ wire' = [what |-> IF t = Exit THEN "stop" ELSE "start",
                       frame |-> thr[t].frame, bytes |-> thr[t].packet,
                       torn |-> thr[t].torn, stopped |-> wire.stopped \/ t = Exit,
                       owed |-> IF t = Exit THEN wire.owed - 1 ELSE wire.owed + 1]
           /\ phone' = [phone EXCEPT !.started = (t # Exit)]
           /\ UNCHANGED failed
  <2>1. /\ ThreadsShape' /\ Others(t)
        /\ thr'[t].pc = "sent" /\ thr'[t].identify = thr[t].identify
    BY <1>2, GotoIs
  <2> QED
    BY <1>1, <1>2, <2>1
<1>3. CASE Goto(t, "unsent") /\ Fail /\ UNCHANGED <<wire, phone>>
  <2>1. /\ ThreadsShape' /\ Others(t)
        /\ thr'[t].pc = "unsent" /\ thr'[t].identify = thr[t].identify
    BY <1>3, GotoIs
  <2> QED
    BY <1>1, <1>3, <2>1
<1> QED
  BY <1>2, <1>3 DEF Inject

LEMMA ReleaseIs ==
  ASSUME ThreadsShape, NEW t \in Threads, Release(t)
  PROVE  /\ ThreadsShape' /\ Others(t) /\ thr'[t].identify = thr[t].identify
         /\ \/ thr[t].pc = "sent" /\ thr'[t].pc = "note"
            \/ thr[t].pc = "unsent" /\ thr'[t].pc = Leave(t)
         /\ UNCHANGED <<ctx, link, fw, modules, rgd, todo, stack, phone, wire, failed>>
<1>1. PICK p : /\ Goto(t, p)
               /\ \/ thr[t].pc = "sent" /\ p = "note"
                  \/ thr[t].pc = "unsent" /\ p = Leave(t)
               /\ UNCHANGED <<ctx, link, fw, modules, rgd, todo, stack, phone, wire, failed>>
  BY DEF Release, At
<1> QED
  BY <1>1, GotoIs

LEMMA StopIs ==
  ASSUME ThreadsShape, Stop
  PROVE  /\ ThreadsShape' /\ Others(Exit)
         /\ thr'[Exit].identify = thr[Exit].identify
         /\ \/ thr'[Exit].pc = "clear"
            \/ /\ rgd.active /\ CanInject
               /\ thr'[Exit].pc = "copy" /\ thr'[Exit].frame = StopFrame
               /\ thr'[Exit].torn = FALSE
<1>1. CASE rgd.active /\ ~rgd.sent_5203 /\ CanInject
  <2>1. PICK f : f = StopFrame
    OBVIOUS
  <2>2. Begin(Exit, f)
    BY <1>1, <2>1 DEF Stop
  <2> QED
    BY <1>1, <2>1, <2>2, BeginIs, TheThreads
<1>2. CASE ~(rgd.active /\ ~rgd.sent_5203 /\ CanInject)
  <2>1. Goto(Exit, "clear")
    BY <1>2 DEF Stop
  <2> QED
    BY <2>1, GotoIs, TheThreads
<1> QED
  BY <1>1, <1>2

LEMMA NotifyIs ==
  ASSUME ThreadsShape, NEW t \in Senders, Notify(t)
  PROVE  /\ ThreadsShape' /\ Others(t) /\ thr'[t].identify = thr[t].identify
         /\ thr[t].pc = "notify"
         /\ \/ thr'[t].pc = "ask" /\ modules /\ hook_is_ready
            \/ thr'[t].pc = "pass"
         /\ UNCHANGED <<ctx, link, in_send, fw, modules, rgd, todo, stack, phone, wire, failed>>
<1>1. PICK p : p = IF modules /\ ~rgd.sent_5200 /\ hook_is_ready THEN "ask" ELSE "pass"
  OBVIOUS
<1>2. /\ Goto(t, p) /\ thr[t].pc = "notify"
      /\ UNCHANGED <<ctx, link, in_send, fw, modules, rgd, todo, stack, phone, wire, failed>>
  BY <1>1 DEF Notify, At
<1>3. \/ p = "ask" /\ modules /\ hook_is_ready
      \/ p = "pass"
  BY <1>1
<1> QED
  BY <1>2, <1>3, GotoIs, TheThreads

LEMMA AskIs ==
  ASSUME ThreadsShape, NEW t \in Senders, Ask(t)
  PROVE  /\ ThreadsShape' /\ Others(t) /\ thr'[t].identify = thr[t].identify
         /\ thr[t].pc = "ask"
         /\ \/ /\ rgd.component_valid /\ CanInject
               /\ thr'[t].pc = "copy" /\ thr'[t].frame = StartFrame /\ thr'[t].torn = FALSE
            \/ thr'[t].pc = "pass"
         /\ UNCHANGED <<ctx, link, fw, modules, rgd, todo, stack, phone, wire, failed>>
<1>1. /\ thr[t].pc = "ask"
      /\ UNCHANGED <<ctx, link, fw, modules, rgd, todo, stack, phone, wire, failed>>
  BY DEF Ask, At
<1>2. CASE rgd.component_valid /\ CanInject
  <2>1. PICK f : f = StartFrame
    OBVIOUS
  <2>2. Begin(t, f)
    BY <1>2, <2>1 DEF Ask
  <2> QED
    BY <1>1, <1>2, <2>1, <2>2, BeginIs, TheThreads
<1>3. CASE ~(rgd.component_valid /\ CanInject)
  <2>1. Goto(t, "pass")
    BY <1>3 DEF Ask
  <2> QED
    BY <1>1, <2>1, GotoIs, TheThreads
<1> QED
  BY <1>2, <1>3

Clears ==
  {"clear", "clear sent_5200", "clear sent_5203", "clear got_520x", "clear component", "clear session"}

(* One store, or the session flag, by a thread.                            *)
LEMMA StoreRgdIs ==
  ASSUME Shape, NEW t \in Threads, NEW s, NEW p, NEW r, StoreRgd(t, s, p, r), r = Flags(r)
  PROVE  /\ Shape' /\ Others(t) /\ thr'[t].identify = thr[t].identify
         /\ thr[t].pc = s /\ thr'[t].pc = p /\ rgd' = r
         /\ UNCHANGED <<ctx, link, in_send, fw, modules, todo, stack, phone, wire, failed>>
<1>1. /\ thr[t].pc = s /\ Goto(t, p) /\ rgd' = r
      /\ UNCHANGED <<ctx, link, in_send, fw, modules, todo, stack, phone, wire, failed>>
  BY DEF StoreRgd, At
<1>2. ThreadsShape' /\ Others(t) /\ thr'[t].pc = p /\ thr'[t].identify = thr[t].identify
  BY <1>1, GotoIs DEF Shape
<1>3. rgd' = Flags(rgd')
  BY <1>1
<1>4. Shape'
  BY <1>1, <1>2, <1>3 DEF Shape, Flags
<1> QED
  BY <1>1, <1>2, <1>4

LEMMA UpdateIs ==
  ASSUME Shape, NEW t \in Threads, NEW s, NEW p, UpdateSession(t, s, p)
  PROVE  /\ Shape' /\ Others(t) /\ thr'[t].identify = thr[t].identify
         /\ thr[t].pc = s /\ thr'[t].pc = p
         /\ ctx' = [ctx EXCEPT !.session = rgd.active \/ rgd.got_520x]
         /\ UNCHANGED <<link, in_send, fw, modules, rgd, todo, stack, phone, wire, failed>>
<1>1. /\ thr[t].pc = s /\ Goto(t, p)
      /\ ctx' = [ctx EXCEPT !.session = rgd.active \/ rgd.got_520x]
      /\ UNCHANGED <<link, in_send, fw, modules, rgd, todo, stack, phone, wire, failed>>
  BY DEF UpdateSession, At
<1>2. ThreadsShape' /\ Others(t) /\ thr'[t].pc = p /\ thr'[t].identify = thr[t].identify
  BY <1>1, GotoIs DEF Shape
<1> QED
  BY <1>1, <1>2 DEF Shape

LEMMA NoteIs ==
  ASSUME Shape, NEW t \in Threads, Note(t)
  PROVE  /\ Shape' /\ Others(t) /\ thr'[t].identify = thr[t].identify
         /\ UNCHANGED <<link, in_send, fw, modules, todo, stack, phone, wire, failed>>
         /\ rgd'.got_520x = rgd.got_520x /\ rgd'.component_valid = rgd.component_valid
         /\ rgd'.component_id = rgd.component_id
         /\ \/ /\ thr[t].pc = "note" /\ thr'[t].pc = "note active"
               /\ rgd'.active = rgd.active /\ UNCHANGED ctx
            \/ /\ thr[t].pc = "note active" /\ thr'[t].pc = "note session"
               /\ rgd'.active = (t # Exit) /\ UNCHANGED ctx
            \/ /\ thr[t].pc = "note session" /\ thr'[t].pc = Leave(t)
               /\ UNCHANGED rgd
               /\ ctx' = [ctx EXCEPT !.session = rgd.active \/ rgd.got_520x]
<1>1. PICK q : q = rgd /\ q = Flags(q)
  BY DEF Shape, Flags
<1>2. PICK noted : noted = IF t = Exit THEN [rgd EXCEPT !.sent_5203 = TRUE]
                                      ELSE [rgd EXCEPT !.sent_5200 = TRUE]
  OBVIOUS
<1>3. /\ noted = Flags(noted) /\ noted.active = q.active /\ noted.got_520x = q.got_520x
      /\ noted.component_valid = q.component_valid /\ noted.component_id = q.component_id
  BY <1>1, <1>2 DEF Flags
<1>4. PICK b : b = (t # Exit)
  OBVIOUS
<1>5. PICK now : now = [rgd EXCEPT !.active = b]
  OBVIOUS
<1>6. /\ now = Flags(now) /\ now.active = b /\ now.got_520x = q.got_520x
      /\ now.component_valid = q.component_valid /\ now.component_id = q.component_id
  BY <1>1, <1>5 DEF Flags
<1>7. CASE StoreRgd(t, "note", "note active", noted)
  <2>1. /\ Shape' /\ Others(t) /\ thr'[t].identify = thr[t].identify
        /\ thr[t].pc = "note" /\ thr'[t].pc = "note active" /\ rgd' = noted
        /\ UNCHANGED <<ctx, link, in_send, fw, modules, todo, stack, phone, wire, failed>>
    BY <1>3, <1>7, StoreRgdIs
  <2> QED
    BY <1>1, <1>3, <2>1
<1>8. CASE StoreRgd(t, "note active", "note session", now)
  <2>1. /\ Shape' /\ Others(t) /\ thr'[t].identify = thr[t].identify
        /\ thr[t].pc = "note active" /\ thr'[t].pc = "note session" /\ rgd' = now
        /\ UNCHANGED <<ctx, link, in_send, fw, modules, todo, stack, phone, wire, failed>>
    BY <1>4, <1>6, <1>8, StoreRgdIs
  <2> QED
    BY <1>1, <1>4, <1>6, <2>1
<1>9. CASE UpdateSession(t, "note session", Leave(t))
  <2>1. PICK p : p = Leave(t)
    OBVIOUS
  <2> QED
    BY <1>9, <2>1, UpdateIs
<1> QED
  BY <1>2, <1>4, <1>5, <1>7, <1>8, <1>9 DEF Note

LEMMA ClearIs ==
  ASSUME Shape, NEW t \in {Exit, Decoder}, ClearState(t)
  PROVE  /\ Shape' /\ Others(t) /\ thr'[t].identify = thr[t].identify
         /\ UNCHANGED <<link, in_send, fw, modules, todo, stack, phone, wire, failed>>
         /\ rgd'.active => rgd.active
         /\ rgd'.got_520x => rgd.got_520x
         /\ rgd'.component_valid => rgd.component_valid
         /\ rgd'.component_id = rgd.component_id
         /\ \/ /\ thr[t].pc \in Clears \ {"clear session"} /\ thr'[t].pc \in Clears
               /\ thr'[t].pc = "clear session" => ~rgd'.component_valid
               /\ UNCHANGED ctx
            \/ /\ thr[t].pc = "clear session"
               /\ thr'[t].pc = IF t = Exit THEN Cleared ELSE "idle"
               /\ UNCHANGED rgd
               /\ ctx' = [ctx EXCEPT !.session = rgd.active \/ rgd.got_520x]
<1>0. t \in Threads
  BY TheThreads
<1>1. PICK q : q = rgd /\ q = Flags(q)
  BY DEF Shape, Flags
<1>2. ASSUME NEW s \in Clears \ {"clear session"}, NEW p \in Clears, NEW r,
             StoreRgd(t, s, p, r), r = Flags(r),
             r.active => q.active, r.got_520x => q.got_520x,
             r.component_valid => q.component_valid, r.component_id = q.component_id,
             p = "clear session" => ~r.component_valid
      PROVE  /\ Shape' /\ Others(t) /\ thr'[t].identify = thr[t].identify
             /\ UNCHANGED <<ctx, link, in_send, fw, modules, todo, stack, phone, wire, failed>>
             /\ rgd'.active => rgd.active
             /\ rgd'.got_520x => rgd.got_520x
             /\ rgd'.component_valid => rgd.component_valid
             /\ rgd'.component_id = rgd.component_id
             /\ thr[t].pc \in Clears \ {"clear session"} /\ thr'[t].pc \in Clears
             /\ thr'[t].pc = "clear session" => ~rgd'.component_valid
  <2>1. /\ Shape' /\ Others(t) /\ thr'[t].identify = thr[t].identify
        /\ thr[t].pc = s /\ thr'[t].pc = p /\ rgd' = r
        /\ UNCHANGED <<ctx, link, in_send, fw, modules, todo, stack, phone, wire, failed>>
    BY <1>0, <1>2, StoreRgdIs
  <2> QED
    BY <1>1, <1>2, <2>1
<1>3. CASE StoreRgd(t, "clear", "clear sent_5200", [rgd EXCEPT !.active = FALSE])
  <2>1. PICK r : r = [rgd EXCEPT !.active = FALSE]
    OBVIOUS
  <2>2. /\ r = Flags(r) /\ r.active = FALSE /\ r.got_520x = q.got_520x
        /\ r.component_valid = q.component_valid /\ r.component_id = q.component_id
    BY <1>1, <2>1 DEF Flags
  <2> QED
    BY <1>2, <1>3, <2>1, <2>2 DEF Clears
<1>4. CASE StoreRgd(t, "clear sent_5200", "clear sent_5203", [rgd EXCEPT !.sent_5200 = FALSE])
  <2>1. PICK r : r = [rgd EXCEPT !.sent_5200 = FALSE]
    OBVIOUS
  <2>2. /\ r = Flags(r) /\ r.active = q.active /\ r.got_520x = q.got_520x
        /\ r.component_valid = q.component_valid /\ r.component_id = q.component_id
    BY <1>1, <2>1 DEF Flags
  <2> QED
    BY <1>2, <1>4, <2>1, <2>2 DEF Clears
<1>5. CASE StoreRgd(t, "clear sent_5203", "clear got_520x", [rgd EXCEPT !.sent_5203 = FALSE])
  <2>1. PICK r : r = [rgd EXCEPT !.sent_5203 = FALSE]
    OBVIOUS
  <2>2. /\ r = Flags(r) /\ r.active = q.active /\ r.got_520x = q.got_520x
        /\ r.component_valid = q.component_valid /\ r.component_id = q.component_id
    BY <1>1, <2>1 DEF Flags
  <2> QED
    BY <1>2, <1>5, <2>1, <2>2 DEF Clears
<1>6. CASE StoreRgd(t, "clear got_520x", "clear component", [rgd EXCEPT !.got_520x = FALSE])
  <2>1. PICK r : r = [rgd EXCEPT !.got_520x = FALSE]
    OBVIOUS
  <2>2. /\ r = Flags(r) /\ r.active = q.active /\ r.got_520x = FALSE
        /\ r.component_valid = q.component_valid /\ r.component_id = q.component_id
    BY <1>1, <2>1 DEF Flags
  <2> QED
    BY <1>2, <1>6, <2>1, <2>2 DEF Clears
<1>7. CASE StoreRgd(t, "clear component", "clear session", [rgd EXCEPT !.component_valid = FALSE])
  <2>1. PICK r : r = [rgd EXCEPT !.component_valid = FALSE]
    OBVIOUS
  <2>2. /\ r = Flags(r) /\ r.active = q.active /\ r.got_520x = q.got_520x
        /\ r.component_valid = FALSE /\ r.component_id = q.component_id
    BY <1>1, <2>1 DEF Flags
  <2> QED
    BY <1>2, <1>7, <2>1, <2>2 DEF Clears
<1>8. PICK p : p = IF t = Exit THEN Cleared ELSE "idle"
  OBVIOUS
<1>9. CASE UpdateSession(t, "clear session", p)
  <2>1. /\ Shape' /\ Others(t) /\ thr'[t].identify = thr[t].identify
        /\ thr[t].pc = "clear session" /\ thr'[t].pc = p
        /\ ctx' = [ctx EXCEPT !.session = rgd.active \/ rgd.got_520x]
        /\ UNCHANGED <<link, in_send, fw, modules, rgd, todo, stack, phone, wire, failed>>
    BY <1>0, <1>9, UpdateIs
  <2> QED
    BY <1>8, <2>1
<1> QED
  BY <1>3, <1>4, <1>5, <1>6, <1>7, <1>8, <1>9 DEF ClearState

(* What the phone says, and what is encoded, leaves the senders alone.     *)
LEMMA EncodeIs ==
  ASSUME Shape, NEW p \in Payloads, EncodePlain(p) \/ EncodePatched(p)
  PROVE  /\ Shape' /\ UNCHANGED <<thr, phone, wire, fw, modules, link, todo>>
         /\ stack.phase = "begin" /\ stack'.phase = "encoded" /\ fw # "down"
         /\ rgd'.active = rgd.active /\ rgd'.got_520x = rgd.got_520x
         /\ ctx'.accepted = ctx.accepted /\ ctx'.session = ctx.session
<1>1. CASE EncodePlain(p)
  BY <1>1 DEF EncodePlain, Encoded, MayEncode, Shape, ThreadsShape
<1>2. CASE EncodePatched(p)
  <2>1. PICK i : rgd' = [rgd EXCEPT !.component_valid = TRUE, !.component_id = i]
    BY <1>2 DEF EncodePatched
  <2>2. PICK f : Encoded(f)
    BY <1>2 DEF EncodePatched
  <2>3. /\ UNCHANGED <<thr, phone, wire, fw, modules, link, todo>>
        /\ stack.phase = "begin" /\ fw # "down"
        /\ ctx' = [ctx EXCEPT !.patched = TRUE, !.valid = TRUE] \/ ctx' = ctx
    BY <1>2 DEF EncodePatched, MayEncode
  <2> QED
    BY <2>1, <2>2, <2>3 DEF Encoded, Shape, Flags, ThreadsShape
<1> QED
  BY <1>1, <1>2

LEMMA AcceptIs ==
  ASSUME Shape, Accept
  PROVE  /\ Shape' /\ UNCHANGED <<thr, wire, fw, modules, link, rgd, todo, failed>>
         /\ thr[Decoder].pc = "idle"
         /\ stack.phase = "sent" /\ stack'.phase = "accepted" /\ stack'.frame = stack.frame
         /\ phone'.accepted /\ phone'.component = phone.component
         /\ ctx'.patched = ctx.patched
BY DEF Accept, Decodes, At, Shape, ThreadsShape

LEMMA IdentifyEndIs ==
  ASSUME Shape, IdentifyEnd
  PROVE  /\ Shape' /\ UNCHANGED <<ctx, link, fw, modules, rgd, todo, phone, wire, failed>>
         /\ Others(Decoder) /\ thr'[Decoder].identify = thr[Decoder].identify
         /\ thr[Decoder].pc = "idle" /\ fw # "down"
         /\ stack.phase = "sent" /\ stack'.phase = "begin"
         /\ \/ thr'[Decoder].pc = "clear"
            \/ /\ thr'[Decoder].pc = "idle"
               /\ ~modules \/ ctx.session \/ rgd.active \/ rgd.got_520x
<1>1. /\ UNCHANGED <<ctx, link, fw, modules, rgd, todo, phone, wire, failed>>
      /\ thr[Decoder].pc = "idle" /\ fw # "down"
      /\ stack.phase = "sent" /\ stack' = [stack EXCEPT !.phase = "begin"]
  BY DEF IdentifyEnd, Decodes, At
<1>2. CASE Goto(Decoder, "clear")
  <2>1. /\ ThreadsShape' /\ Others(Decoder) /\ thr'[Decoder].pc = "clear"
        /\ thr'[Decoder].identify = thr[Decoder].identify
    BY <1>2, GotoIs, TheThreads DEF Shape
  <2> QED
    BY <1>1, <2>1 DEF Shape
<1>3. CASE UNCHANGED thr /\ (~modules \/ ctx.session \/ rgd.active \/ rgd.got_520x)
  BY <1>1, <1>3 DEF Shape, ThreadsShape, Others
<1> QED
  BY <1>2, <1>3 DEF IdentifyEnd

LEMMA ReinitIs ==
  ASSUME Shape, Reinit
  PROVE  /\ Shape' /\ UNCHANGED <<modules, rgd, thr, todo, stack, phone, wire, failed>>
         /\ fw = "down" /\ fw' = "up" /\ ~link'.valid
         /\ ~ctx'.patched /\ ~ctx'.accepted /\ ~ctx'.session
BY DEF Reinit, NoCtx, NoLink, Shape, ThreadsShape

LEMMA AuthIs ==
  ASSUME Shape, AuthComplete
  PROVE  /\ Shape'
         /\ UNCHANGED <<link, in_send, fw, modules, rgd, thr, todo, stack, phone, wire, failed>>
         /\ ctx'.patched = ctx.patched /\ ctx'.accepted = ctx.accepted
         /\ ctx'.session = ctx.session
BY DEF AuthComplete, Shape, ThreadsShape

LEMMA GuidanceIs ==
  ASSUME Shape, GuidanceBegins
  PROVE  /\ Shape'
         /\ UNCHANGED <<link, in_send, fw, modules, thr, todo, stack, phone, wire, failed>>
         /\ phone.started /\ ctx'.patched = ctx.patched
         /\ rgd'.active = rgd.active /\ rgd'.component_valid = rgd.component_valid
         /\ rgd'.component_id = rgd.component_id
BY DEF GuidanceBegins, Flags, Shape, ThreadsShape

(* A message that the stack sends.                                         *)
SendsFrame(t, h) ==
  \E i, f :
    /\ Call(t, i, f, h)
    /\ \/ i = TRUE /\ f = stack.frame /\ stack.phase = "encoded"
          /\ stack'.phase = "leaving" /\ stack'.frame = stack.frame
       \/ i = FALSE /\ f \in {LocationInfo, Unrelated} /\ UNCHANGED stack

LEMMA SendsIs ==
  ASSUME Shape, NEW t \in Senders, NEW h, SendIdentify(t, h) \/ SendLocation(t, h) \/ SendOther(t, h)
  PROVE  Shape' /\ SendsFrame(t, h)
<1>1. ASSUME NEW i, NEW f, Call(t, i, f, h),
             UNCHANGED stack \/ stack' = [stack EXCEPT !.phase = "leaving"]
      PROVE  Shape'
  <2>1. ThreadsShape' /\ UNCHANGED <<ctx, link, rgd, phone>>
    BY <1>1, CallIs DEF Shape
  <2> QED
    BY <1>1, <2>1 DEF Shape
<1>2. CASE SendIdentify(t, h)
  <2>1. PICK f : f = stack.frame
    OBVIOUS
  <2>2. /\ Call(t, TRUE, f, h) /\ stack.phase = "encoded"
        /\ stack' = [stack EXCEPT !.phase = "leaving"]
    BY <1>2, <2>1 DEF SendIdentify
  <2>3. stack'.phase = "leaving" /\ stack'.frame = stack.frame
    BY <2>2 DEF Shape
  <2>4. Shape'
    BY <1>1, <2>2
  <2> QED
    BY <2>1, <2>2, <2>3, <2>4 DEF SendsFrame
<1>3. CASE SendLocation(t, h) \/ SendOther(t, h)
  <2>1. PICK f \in {LocationInfo, Unrelated} : Call(t, FALSE, f, h) /\ UNCHANGED stack
    BY <1>3 DEF SendLocation, SendOther
  <2>2. Shape'
    BY <1>1, <2>1
  <2> QED
    BY <2>1, <2>2 DEF SendsFrame
<1> QED
  BY <1>2, <1>3

LEMMA ShapeKept == Shape /\ [Next]_vars => Shape'
<1> SUFFICES ASSUME Shape, [Next]_vars PROVE Shape'
  OBVIOUS
<1>0. ThreadsShape
  BY DEF Shape
<1>1. CASE Reinit \/ Accept \/ IdentifyEnd \/ AuthComplete \/ GuidanceBegins
  BY <1>1, ReinitIs, AcceptIs, IdentifyEndIs, AuthIs, GuidanceIs
<1>2. ASSUME NEW p \in Payloads, EncodePlain(p) \/ EncodePatched(p) PROVE Shape'
  BY <1>2, EncodeIs
<1>3. ASSUME NEW t \in Senders, NEW h, SendIdentify(t, h) \/ SendLocation(t, h) \/ SendOther(t, h)
      PROVE  Shape'
  BY <1>3, SendsIs
<1>4. ASSUME NEW t \in Senders, StoreContext(t) PROVE Shape'
  <2>1. ThreadsShape' /\ UNCHANGED <<ctx, rgd, stack, phone>>
    BY <1>0, <1>4, StoreIs
  <2>2. \E k : link' = [valid |-> TRUE, prefix |-> k]
    BY <1>0, <1>4, StoreIs
  <2> QED
    BY <2>1, <2>2 DEF Shape
<1>5. ASSUME NEW t \in Senders, Notify(t) \/ Ask(t) PROVE Shape'
  <2>1. ThreadsShape' /\ UNCHANGED <<ctx, link, rgd, stack, phone>>
    BY <1>0, <1>5, NotifyIs, AskIs
  <2> QED
    BY <2>1 DEF Shape
<1>6. ASSUME NEW t \in Senders, Pass(t) PROVE Shape'
  <2>1. ThreadsShape' /\ UNCHANGED <<ctx, link, rgd>>
    BY <1>0, <1>6, PassIs
  <2>2. \/ UNCHANGED <<stack, phone>>
        \/ /\ stack' = [stack EXCEPT !.phase = "sent", !.frame = << >>]
           /\ \E c : phone' = [component |-> c, accepted |-> FALSE, started |-> FALSE]
    BY <1>0, <1>6, PassIs
  <2> QED
    BY <2>1, <2>2 DEF Shape
<1>7. ASSUME NEW t \in Threads, Copy(t) \/ CopyFails(t) \/ Release(t) PROVE Shape'
  <2>1. ThreadsShape' /\ UNCHANGED <<ctx, link, rgd, stack, phone>>
    BY <1>0, <1>7, CopyIs, CopyFailsIs, ReleaseIs
  <2> QED
    BY <2>1 DEF Shape
<1>8. ASSUME NEW t \in Threads, Inject(t) PROVE Shape'
  <2>1. ThreadsShape' /\ UNCHANGED <<ctx, link, rgd, stack>>
    BY <1>0, <1>8, InjectIs
  <2>2. UNCHANGED phone \/ \E b : phone' = [phone EXCEPT !.started = b]
    BY <1>0, <1>8, InjectIs
  <2> QED
    BY <2>1, <2>2 DEF Shape
<1>9. ASSUME NEW t \in Threads, Note(t) PROVE Shape'
  BY <1>9, NoteIs
<1>10. CASE Shutdown \/ RgdShutdown
  <2>1. Stop /\ UNCHANGED <<ctx, link, rgd, stack, phone>>
    BY <1>10 DEF Shutdown, RgdShutdown
  <2>2. ThreadsShape'
    BY <1>0, <2>1, StopIs
  <2> QED
    BY <2>1, <2>2 DEF Shape
<1>11. CASE Unload
  <2>1. ThreadsShape' /\ UNCHANGED <<ctx, rgd, stack, phone>>
    BY <1>0, <1>11, UnloadIs
  <2>2. link' = [link EXCEPT !.prefix = << >>]
    BY <1>0, <1>11, UnloadIs
  <2> QED
    BY <2>1, <2>2 DEF Shape
<1>12. ASSUME NEW t \in {Exit, Decoder}, ClearState(t) PROVE Shape'
  BY <1>12, ClearIs
<1>13. CASE UNCHANGED vars
  BY <1>13 DEF vars, Shape, ThreadsShape
<1> QED
  BY <1>1, <1>2, <1>3, <1>4, <1>5, <1>6, <1>7, <1>8, <1>9, <1>10, <1>11, <1>12, <1>13
  DEF Next, Sending, Injecting

-----------------------------------------------------------------------------
(* What the identification has come to.                                    *)

InFlight(t) ==
  thr[t].pc \in {"ask", "copy", "inject", "sent", "note", "note active", "note session"}

(* Nothing is asked for before the phone has accepted an identification,   *)
(* after which the stack makes no other and the decoder clears nothing.    *)
Flagged ==
  \/ ctx.accepted \/ ctx.session \/ rgd.active \/ rgd.got_520x
  \/ phone.started \/ wire.what # "none" \/ wire.stopped
Begun == Flagged \/ \E t \in Threads : InFlight(t)

StackInv ==
  /\ \A t \in Threads : thr[t].identify => stack.phase = "leaving"
  /\ \A t, u \in Threads : thr[t].identify /\ thr[u].identify => t = u
  /\ Begun => stack.phase = "accepted"
  /\ stack.phase = "accepted" => phone.accepted
  /\ thr[Decoder].pc # "idle" => thr[Decoder].pc \in Clears /\ stack.phase # "accepted"

LEMMA InitStack == Init => StackInv
<1> SUFFICES ASSUME Init PROVE StackInv
  OBVIOUS
<1>1. \A t \in Threads : thr[t] = Idle
  BY DEF Init
<1>2. \A t \in Threads : thr[t].identify = FALSE /\ thr[t].pc = "idle"
  BY <1>1 DEF Idle
<1>3. ~Begun
  BY <1>2 DEF Init, Begun, Flagged, InFlight, NoCtx, NoRgd
<1> QED
  BY <1>2, <1>3, TheThreads DEF Init, StackInv

(* A step in which the identification stays where it is.                   *)
LEMMA StackStays ==
  ASSUME StackInv, stack'.phase = stack.phase, phone'.accepted = phone.accepted,
         \A t \in Threads : thr'[t].identify => thr[t].identify,
         Begun' => Begun \/ stack.phase = "accepted",
         thr'[Decoder].pc # "idle" => thr[Decoder].pc # "idle" /\ thr'[Decoder].pc \in Clears
  PROVE  StackInv'
BY DEF StackInv

(* One thread moves, the others keep their place.                          *)
OthersStay(t) ==
  \A u \in Threads : u # t =>
    thr'[u].pc = thr[u].pc /\ thr'[u].identify = thr[u].identify /\ thr'[u].frame = thr[u].frame

LEMMA TheyStay ==
  ASSUME NEW t \in Threads, Others(t) \/ Keeps(t) PROVE OthersStay(t)
BY DEF Others, Keeps, OthersStay

LEMMA StackMoves ==
  ASSUME StackInv, NEW t \in Threads, OthersStay(t), thr'[t].identify => thr[t].identify,
         UNCHANGED stack, phone'.accepted = phone.accepted,
         Flagged' => Begun, InFlight(t)' => Begun,
         t = Decoder /\ thr'[t].pc # "idle" => thr[t].pc # "idle" /\ thr'[t].pc \in Clears
  PROVE  StackInv'
<1>1. Begun' => Begun
  <2>1. ASSUME NEW u \in Threads, InFlight(u)', u # t PROVE Begun
    BY <2>1 DEF OthersStay, InFlight, Begun
  <2> QED
    BY <2>1 DEF Begun
<1>2. \A u \in Threads : thr'[u].identify => thr[u].identify
  BY DEF OthersStay
<1>3. thr'[Decoder].pc # "idle" => thr[Decoder].pc # "idle" /\ thr'[Decoder].pc \in Clears
  BY TheThreads DEF OthersStay, StackInv
<1> QED
  BY <1>1, <1>2, <1>3, StackStays

(* The decoder injects nothing.                                            *)
LEMMA NotDecoder ==
  ASSUME StackInv, NEW t \in Threads, thr[t].pc \notin Clears, thr[t].pc # "idle"
  PROVE  t # Decoder
BY DEF StackInv

LEMMA StackKept == Shape /\ StackInv /\ [Next]_vars => StackInv'
<1> SUFFICES ASSUME Shape, StackInv, [Next]_vars PROVE StackInv'
  OBVIOUS
<1>0. ThreadsShape
  BY DEF Shape
<1>1. CASE Reinit
  <2>1. UNCHANGED <<stack, phone, thr, rgd, wire>> /\ ~ctx'.accepted /\ ~ctx'.session
    BY <1>1, ReinitIs
  <2>2. Begun' => Begun
    BY <2>1 DEF Begun, Flagged, InFlight
  <2> QED
    BY <2>1, <2>2, StackStays DEF StackInv
<1>2. ASSUME NEW p \in Payloads, EncodePlain(p) \/ EncodePatched(p) PROVE StackInv'
  <2>1. /\ stack.phase = "begin" /\ stack'.phase = "encoded"
        /\ UNCHANGED <<thr, phone, wire>>
        /\ rgd'.active = rgd.active /\ rgd'.got_520x = rgd.got_520x
        /\ ctx'.accepted = ctx.accepted /\ ctx'.session = ctx.session
    BY <1>2, EncodeIs
  <2>2. ~Begun' /\ \A t \in Threads : ~thr'[t].identify
    BY <2>1 DEF StackInv, Begun, Flagged, InFlight
  <2>3. thr'[Decoder].pc # "idle" => thr'[Decoder].pc \in Clears
    BY <2>1 DEF StackInv
  <2> QED
    BY <2>1, <2>2, <2>3 DEF StackInv
<1>3. CASE Accept
  <2>1. /\ stack.phase = "sent" /\ stack'.phase = "accepted" /\ phone'.accepted
        /\ UNCHANGED thr /\ thr[Decoder].pc = "idle"
    BY <1>3, AcceptIs
  <2>2. \A t \in Threads : ~thr'[t].identify
    BY <2>1 DEF StackInv
  <2> QED
    BY <2>1, <2>2 DEF StackInv
<1>4. CASE IdentifyEnd
  <2>1. /\ stack.phase = "sent" /\ stack'.phase = "begin" /\ UNCHANGED <<ctx, rgd, phone, wire>>
        /\ Others(Decoder) /\ thr'[Decoder].identify = thr[Decoder].identify
        /\ thr'[Decoder].pc \in {"idle", "clear"}
    BY <1>4, IdentifyEndIs
  <2>2. OthersStay(Decoder)
    BY <2>1, TheyStay, TheThreads
  <2>3. \A t \in Threads : ~thr'[t].identify
    BY <2>1, <2>2 DEF StackInv, OthersStay
  <2>4. \A t \in Threads : InFlight(t)' => InFlight(t)
    BY <2>1, <2>2 DEF InFlight, OthersStay
  <2>5. ~Begun'
    BY <2>1, <2>4 DEF StackInv, Begun, Flagged
  <2>6. thr'[Decoder].pc # "idle" => thr'[Decoder].pc \in Clears
    BY <2>1 DEF Clears
  <2> QED
    BY <2>1, <2>3, <2>5, <2>6 DEF StackInv
<1>5. CASE AuthComplete
  <2>1. /\ UNCHANGED <<stack, phone, thr, rgd, wire>>
        /\ ctx'.accepted = ctx.accepted /\ ctx'.session = ctx.session
    BY <1>5, AuthIs
  <2>2. Begun' => Begun
    BY <2>1 DEF Begun, Flagged, InFlight
  <2> QED
    BY <2>1, <2>2, StackStays DEF StackInv
<1>6. CASE GuidanceBegins
  <2>1. UNCHANGED <<stack, phone, thr, wire>> /\ phone.started
    BY <1>6, GuidanceIs
  <2>2. Begun
    BY <2>1 DEF Begun, Flagged
  <2> QED
    BY <2>1, <2>2, StackStays DEF StackInv
<1>7. ASSUME NEW t \in Senders, NEW h, SendsFrame(t, h) PROVE StackInv'
  <2>0. t \in Threads /\ t # Decoder
    BY TheThreads
  <2>1. PICK i, f :
          /\ Call(t, i, f, h)
          /\ \/ i = TRUE /\ stack.phase = "encoded" /\ stack'.phase = "leaving"
             \/ i = FALSE /\ UNCHANGED stack
    BY <1>7 DEF SendsFrame
  <2>2. /\ Others(t) /\ thr'[t].pc \in {"pass", "store"} /\ thr'[t].identify = i
        /\ UNCHANGED <<ctx, rgd, phone, wire>>
    BY <1>0, <2>1, CallIs
  <2>3. OthersStay(t) /\ ~InFlight(t)' /\ (Flagged' => Begun)
    BY <2>0, <2>2, TheyStay DEF InFlight, Flagged, Begun
  <2>4. CASE i = FALSE
    BY <2>0, <2>1, <2>2, <2>3, <2>4, StackMoves
  <2>5. CASE i = TRUE
    <3>1. stack.phase = "encoded" /\ stack'.phase = "leaving"
      BY <2>1, <2>5
    <3>2. ~Begun /\ \A u \in Threads : ~thr[u].identify
      BY <3>1 DEF StackInv
    <3>3. \A u \in Threads : InFlight(u)' => InFlight(u)
      BY <2>3 DEF OthersStay, InFlight
    <3>4. ~Begun'
      BY <2>3, <3>2, <3>3 DEF Begun
    <3>5. \A u \in Threads : thr'[u].identify => u = t
      BY <2>3, <3>2 DEF OthersStay
    <3>6. thr'[Decoder].pc # "idle" => thr'[Decoder].pc \in Clears
      BY <2>0, <2>3, TheThreads DEF OthersStay, StackInv
    <3> QED
      BY <3>1, <3>4, <3>5, <3>6 DEF StackInv
  <2> QED
    BY <2>1, <2>4, <2>5
<1>8. ASSUME NEW t \in Senders, StoreContext(t) PROVE StackInv'
  <2>0. t \in Threads /\ t # Decoder
    BY TheThreads
  <2>1. /\ Keeps(t) /\ thr'[t].pc \in {"notify", "pass"} /\ thr'[t].identify = thr[t].identify
        /\ UNCHANGED <<ctx, rgd, stack, phone, wire>>
    BY <1>0, <1>8, StoreIs
  <2>2. OthersStay(t) /\ ~InFlight(t)' /\ (Flagged' => Begun)
    BY <2>0, <2>1, TheyStay DEF InFlight, Flagged, Begun
  <2> QED
    BY <2>0, <2>1, <2>2, StackMoves
<1>9. ASSUME NEW t \in Senders, Notify(t) PROVE StackInv'
  <2>0. t \in Threads /\ t # Decoder
    BY TheThreads
  <2>1. /\ Others(t) /\ thr'[t].identify = thr[t].identify
        /\ hook_is_ready \/ thr'[t].pc = "pass"
        /\ UNCHANGED <<ctx, rgd, stack, phone, wire>>
    BY <1>0, <1>9, NotifyIs
  <2>2. OthersStay(t) /\ (Flagged' => Begun)
    BY <2>0, <2>1, TheyStay DEF Flagged, Begun
  <2>3. InFlight(t)' => Begun
    BY <2>1 DEF InFlight, hook_is_ready, Begun, Flagged
  <2> QED
    BY <2>0, <2>1, <2>2, <2>3, StackMoves
<1>10. ASSUME NEW t \in Senders, Ask(t) PROVE StackInv'
  <2>0. t \in Threads /\ t # Decoder
    BY TheThreads
  <2>1. /\ Others(t) /\ thr'[t].identify = thr[t].identify /\ thr[t].pc = "ask"
        /\ UNCHANGED <<ctx, rgd, stack, phone, wire>>
    BY <1>0, <1>10, AskIs
  <2>2. OthersStay(t) /\ Begun
    BY <2>0, <2>1, TheyStay DEF InFlight, Begun
  <2> QED
    BY <2>0, <2>1, <2>2, StackMoves
<1>11. ASSUME NEW t \in Senders, Pass(t) PROVE StackInv'
  <2>0. t \in Threads /\ t # Decoder
    BY TheThreads
  <2>1. /\ Others(t) /\ thr'[t].pc = "idle" /\ thr'[t].identify = FALSE
        /\ UNCHANGED <<ctx, rgd, wire>>
    BY <1>0, <1>11, PassIs
  <2>2. OthersStay(t) /\ ~InFlight(t)'
    BY <2>0, <2>1, TheyStay DEF InFlight
  <2>3. CASE thr[t].identify
    <3>0. PICK c : /\ stack' = [stack EXCEPT !.phase = "sent", !.frame = << >>]
                   /\ phone' = [component |-> c, accepted |-> FALSE, started |-> FALSE]
      BY <1>0, <1>11, <2>3, PassIs
    <3>1. stack'.phase = "sent" /\ ~phone'.started
      BY <3>0 DEF Shape
    <3>2. stack.phase = "leaving" /\ \A u \in Threads : thr[u].identify => u = t
      BY <2>0, <2>3 DEF StackInv
    <3>3. ~Begun
      BY <3>2 DEF StackInv
    <3>4. \A u \in Threads : InFlight(u)' => InFlight(u)
      BY <2>2 DEF OthersStay, InFlight
    <3>5. ~Begun'
      BY <2>1, <3>1, <3>3, <3>4 DEF Begun, Flagged
    <3>6. \A u \in Threads : ~thr'[u].identify
      BY <2>1, <2>2, <3>2 DEF OthersStay
    <3>7. thr'[Decoder].pc # "idle" => thr'[Decoder].pc \in Clears
      BY <2>0, <2>2, TheThreads DEF OthersStay, StackInv
    <3> QED
      BY <3>1, <3>5, <3>6, <3>7 DEF StackInv
  <2>4. CASE ~thr[t].identify
    <3>1. UNCHANGED <<stack, phone>>
      BY <1>0, <1>11, <2>4, PassIs
    <3>2. Flagged' => Begun
      BY <2>1, <3>1 DEF Begun, Flagged
    <3> QED
      BY <2>0, <2>1, <2>2, <3>1, <3>2, StackMoves
  <2> QED
    BY <2>3, <2>4
<1>12. ASSUME NEW t \in Threads, Copy(t) \/ CopyFails(t) \/ Release(t) PROVE StackInv'
  <2>1. /\ Others(t) /\ thr'[t].identify = thr[t].identify
        /\ thr[t].pc \in {"copy", "sent", "unsent"}
        /\ thr[t].pc \in {"copy", "sent"} \/ thr'[t].pc = Leave(t)
        /\ UNCHANGED <<ctx, rgd, stack, phone, wire>>
    BY <1>0, <1>12, CopyIs, CopyFailsIs, ReleaseIs
  <2>2. OthersStay(t) /\ (Flagged' => Begun)
    BY <2>1, TheyStay DEF Flagged, Begun
  <2>3. InFlight(t)' => Begun
    BY <2>1 DEF InFlight, Begun, Leave
  <2>4. t # Decoder
    BY <2>1, NotDecoder DEF Clears
  <2> QED
    BY <2>1, <2>2, <2>3, <2>4, StackMoves
<1>13. ASSUME NEW t \in Threads, Inject(t) PROVE StackInv'
  <2>1. /\ Others(t) /\ thr'[t].identify = thr[t].identify /\ thr[t].pc = "inject"
        /\ UNCHANGED <<ctx, rgd, stack>>
    BY <1>0, <1>13, InjectIs
  <2>2. phone' = phone \/ \E b : phone' = [phone EXCEPT !.started = b]
    BY <1>0, <1>13, InjectIs
  <2>3. phone'.accepted = phone.accepted
    BY <2>2 DEF Shape
  <2>4. OthersStay(t) /\ Begun
    BY <2>1, TheyStay DEF InFlight, Begun
  <2>5. t # Decoder
    BY <2>1, NotDecoder DEF Clears
  <2> QED
    BY <2>1, <2>3, <2>4, <2>5, StackMoves
<1>14. ASSUME NEW t \in Threads, Note(t) PROVE StackInv'
  <2>1. /\ Others(t) /\ thr'[t].identify = thr[t].identify
        /\ thr[t].pc \in {"note", "note active", "note session"}
        /\ UNCHANGED <<stack, phone, wire>>
    BY <1>14, NoteIs
  <2>2. OthersStay(t) /\ Begun
    BY <2>1, TheyStay DEF InFlight, Begun
  <2>3. t # Decoder
    BY <2>1, NotDecoder DEF Clears
  <2> QED
    BY <2>1, <2>2, <2>3, StackMoves
<1>15. CASE Shutdown \/ RgdShutdown
  <2>1. Stop /\ UNCHANGED <<ctx, rgd, stack, phone, wire>>
    BY <1>15 DEF Shutdown, RgdShutdown
  <2>2. /\ Others(Exit) /\ thr'[Exit].identify = thr[Exit].identify
        /\ thr'[Exit].pc = "clear" \/ rgd.active
    BY <1>0, <2>1, StopIs
  <2>3. OthersStay(Exit) /\ (Flagged' => Begun) /\ (InFlight(Exit)' => Begun)
    BY <2>1, <2>2, TheyStay, TheThreads DEF Flagged, Begun, InFlight
  <2> QED
    BY <2>1, <2>2, <2>3, StackMoves, TheThreads
<1>16. CASE Unload
  <2>1. /\ Keeps(Exit) /\ thr'[Exit].pc = "idle" /\ thr'[Exit].identify = FALSE
        /\ UNCHANGED <<ctx, rgd, stack, phone, wire>>
    BY <1>0, <1>16, UnloadIs
  <2>2. OthersStay(Exit) /\ (Flagged' => Begun) /\ ~InFlight(Exit)'
    BY <2>1, TheyStay, TheThreads DEF Flagged, Begun, InFlight
  <2> QED
    BY <2>1, <2>2, StackMoves, TheThreads
<1>17. ASSUME NEW t \in {Exit, Decoder}, ClearState(t) PROVE StackInv'
  <2>0. t \in Threads
    BY TheThreads
  <2>1. /\ Others(t) /\ thr'[t].identify = thr[t].identify
        /\ UNCHANGED <<stack, phone, wire>>
        /\ rgd'.active => rgd.active
        /\ rgd'.got_520x => rgd.got_520x
        /\ thr[t].pc \in Clears
        /\ thr'[t].pc \in Clears \/ thr'[t].pc = IF t = Exit THEN Cleared ELSE "idle"
    BY <1>17, ClearIs DEF Clears
  <2>2. UNCHANGED ctx \/ ctx' = [ctx EXCEPT !.session = rgd.active \/ rgd.got_520x]
    BY <1>17, ClearIs
  <2>3. Flagged' => Begun
    BY <2>1, <2>2 DEF Flagged, Begun, Shape
  <2>4. OthersStay(t) /\ ~InFlight(t)'
    BY <2>0, <2>1, TheyStay DEF InFlight, Clears, Cleared
  <2>5. t = Decoder /\ thr'[t].pc # "idle" => thr[t].pc # "idle" /\ thr'[t].pc \in Clears
    BY <2>1, TheThreads DEF Clears
  <2> QED
    BY <2>0, <2>1, <2>3, <2>4, <2>5, StackMoves
<1>18. CASE UNCHANGED vars
  <2>1. UNCHANGED <<stack, phone, thr, rgd, wire, ctx>>
    BY <1>18 DEF vars
  <2>2. Begun' => Begun
    BY <2>1 DEF Begun, Flagged, InFlight
  <2> QED
    BY <2>1, <2>2, StackStays DEF StackInv
<1> QED
  BY <1>1, <1>2, <1>3, <1>4, <1>5, <1>6, <1>7, <1>8, <1>9, <1>10, <1>11, <1>12, <1>13, <1>14,
     <1>15, <1>16, <1>17, <1>18, SendsIs DEF Next, Sending, Injecting

-----------------------------------------------------------------------------
(* The component that the phone knows is the one START names.              *)

Announced(phase, frame, component, id) ==
  /\ phase # "begin"
  /\ phase \in {"encoded", "leaving"} => ExtractComponentId(ComponentOf(frame)) = id
  /\ phase \in {"sent", "accepted"} => component = id

(* The component is known, and the decoder is not about to clear it.       *)
Known == ctx.patched /\ rgd.component_valid /\ thr[Decoder].pc \in {"idle", "clear session"}

ComponentInv ==
  /\ rgd.component_id \in Ids
  /\ Known => Announced(stack.phase, stack.frame, phone.component, rgd.component_id)
  /\ ~modules => fw = "down" \/ ~ctx.patched
  /\ \A t \in Senders : thr[t].pc = "ask" /\ rgd.component_valid
       => phone.component = rgd.component_id
  /\ \A t \in Senders : thr[t].pc \in {"copy", "inject"} => U16(thr[t].frame, 10) = phone.component

LEMMA InitComponent == Init => ComponentInv
<1> SUFFICES ASSUME Init PROVE ComponentInv
  OBVIOUS
<1>1. \A t \in Senders : thr[t] = Idle
  BY DEF Init, Threads
<1>2. \A t \in Senders : thr[t].pc = "idle"
  BY <1>1 DEF Idle
<1> QED
  BY <1>2 DEF Init, ComponentInv, Known, NoCtx, NoRgd, Ids

LEMMA ComponentStays ==
  ASSUME ComponentInv, rgd'.component_id = rgd.component_id,
         rgd'.component_valid => rgd.component_valid,
         Known' => Known /\ stack'.phase = stack.phase /\ stack'.frame = stack.frame,
         phone'.component = phone.component,
         ~modules' => fw' = "down" \/ ~ctx'.patched,
         \A t \in Senders : thr'[t].pc = "ask" /\ rgd.component_valid
           => phone.component = rgd.component_id,
         \A t \in Senders : thr'[t].pc \in {"copy", "inject"}
           => U16(thr'[t].frame, 10) = phone.component
  PROVE  ComponentInv'
BY DEF ComponentInv, Announced

LEMMA SameThreads ==
  ASSUME ComponentInv, UNCHANGED thr
  PROVE  /\ \A t \in Senders : thr'[t].pc = "ask" /\ rgd.component_valid
              => phone.component = rgd.component_id
         /\ \A t \in Senders : thr'[t].pc \in {"copy", "inject"}
              => U16(thr'[t].frame, 10) = phone.component
BY DEF ComponentInv

LEMMA ComponentMoves ==
  ASSUME ComponentInv, NEW t \in Threads, OthersStay(t), UNCHANGED stack,
         phone'.component = phone.component,
         rgd'.component_id = rgd.component_id,
         rgd'.component_valid => rgd.component_valid,
         ctx'.patched = ctx.patched, ~modules' => fw' = "down" \/ ~ctx'.patched,
         t \in Senders => /\ thr'[t].pc = "ask" /\ rgd.component_valid
                               => phone.component = rgd.component_id
                          /\ thr'[t].pc \in {"copy", "inject"}
                               => U16(thr'[t].frame, 10) = phone.component,
         t = Decoder /\ rgd'.component_valid /\ thr'[t].pc \in {"idle", "clear session"}
           => thr[t].pc \in {"idle", "clear session"}
  PROVE  ComponentInv'
<1>1. Known' => Known
  BY TheThreads DEF Known, OthersStay
<1>2. ASSUME NEW u \in Senders
      PROVE  /\ thr'[u].pc = "ask" /\ rgd.component_valid
                  => phone.component = rgd.component_id
             /\ thr'[u].pc \in {"copy", "inject"} => U16(thr'[u].frame, 10) = phone.component
  <2>1. CASE u = t
    BY <2>1
  <2>2. CASE u # t
    <3>1. thr'[u].pc = thr[u].pc /\ thr'[u].frame = thr[u].frame
      BY <2>2, TheThreads DEF OthersStay
    <3> QED
      BY <3>1 DEF ComponentInv
  <2> QED
    BY <2>1, <2>2
<1> QED
  BY <1>1, <1>2, ComponentStays

LEMMA NobodyAsks ==
  ASSUME StackInv, stack.phase # "accepted"
  PROVE  \A t \in Senders : thr[t].pc \notin {"ask", "copy", "inject"}
BY TheThreads DEF StackInv, Begun, InFlight

(* An identifier is two bytes, and START carries it.                       *)
LEMMA StartIs ==
  ASSUME rgd.component_id \in Ids
  PROVE  StartFrame \in Of(Int) /\ U16(StartFrame, 10) = rgd.component_id
<1>1. PICK n : n = rgd.component_id
  OBVIOUS
<1>2. n \in Ids
  BY <1>1
<1>3. n \in Int /\ n >= 0 /\ n =< 65535
  BY <1>2, IdsAssumption
<1>4. PICK w : w = BuildFrame(RG_START, BuildTlvU16(0, n) \o BuildTlv(1, << >>)
                                       \o BuildTlv(2, << >>) \o BuildTlv(3, << >>))
  OBVIOUS
<1>5. w \in Of(Int) /\ U16(w, 10) = n
  BY <1>3, <1>4, StartHas
<1>6. StartFrame = w
  BY <1>1, <1>4 DEF StartFrame
<1> QED
  BY <1>1, <1>5, <1>6

(* What the patch makes of an identification, and when it fails.           *)
LEMMA PatchedIs ==
  ASSUME Shape, rgd.component_id \in Ids, NEW p \in Payloads, EncodePatched(p)
  PROVE  /\ UNCHANGED <<modules, fw, thr, phone>> /\ modules /\ ~ctx.patched
         /\ rgd'.component_id \in Ids
         /\ stack.phase = "begin" /\ stack'.phase = "encoded"
         /\ \/ ~ctx'.patched /\ stack'.frame = BuildFrame(IDENTIFY, p)
            \/ /\ stack'.frame = PatchIdentify(BuildFrame(IDENTIFY, p), rgd'.component_id)
               /\ ExtractComponentId(ComponentOf(stack'.frame)) = rgd'.component_id
<1>1. PICK f : f = BuildFrame(IDENTIFY, p)
  OBVIOUS
<1>2. PICK own : own = ExtractComponentId(ComponentOf(f))
  OBVIOUS
<1>3. PICK id : id = IF own # 0 THEN own ELSE rgd.component_id
  OBVIOUS
<1>4. own = OwnId(p)
  BY <1>1, <1>2 DEF OwnId
<1>5. id \in Ids
  BY <1>3, <1>4 DEF Ids
<1>6. /\ stack.phase = "begin" /\ ~ctx.patched /\ modules
      /\ UNCHANGED <<modules, fw, thr, phone>>
      /\ rgd' = [rgd EXCEPT !.component_valid = TRUE, !.component_id = id]
      /\ \/ Encoded(PatchIdentify(f, id))
         \/ Encoded(f) /\ UNCHANGED ctx
  BY <1>1, <1>2, <1>3 DEF EncodePatched, MayEncode
<1>7. rgd'.component_id = id
  BY <1>6 DEF Shape, Flags
<1>8. CASE Encoded(PatchIdentify(f, id))
  <2>1. PICK g : g = PatchIdentify(f, id)
    OBVIOUS
  <2>2. stack'.phase = "encoded" /\ stack'.frame = g
    BY <1>8, <2>1 DEF Encoded
  <2>3. ExtractComponentId(ComponentOf(g)) = id
    BY <1>1, <1>5, <2>1, PatchAssumption
  <2> QED
    BY <1>1, <1>5, <1>6, <1>7, <2>1, <2>2, <2>3
<1>9. CASE Encoded(f) /\ UNCHANGED ctx
  <2>1. stack'.phase = "encoded" /\ stack'.frame = f
    BY <1>9 DEF Encoded
  <2> QED
    BY <1>1, <1>5, <1>6, <1>7, <1>9, <2>1
<1> QED
  BY <1>6, <1>8, <1>9

LEMMA ComponentKept == Shape /\ StackInv /\ ComponentInv /\ [Next]_vars => ComponentInv'
<1> SUFFICES ASSUME Shape, StackInv, ComponentInv, [Next]_vars PROVE ComponentInv'
  OBVIOUS
<1>0. ThreadsShape
  BY DEF Shape
<1>1. CASE Reinit
  <2>1. UNCHANGED <<rgd, thr, stack, phone>> /\ ~ctx'.patched
    BY <1>1, ReinitIs
  <2> QED
    BY <2>1, SameThreads, ComponentStays DEF Known
<1>2. ASSUME NEW p \in Payloads, EncodePlain(p) PROVE ComponentInv'
  <2>1. /\ stack.phase = "begin" /\ fw # "down"
        /\ ctx.patched \/ ~modules
        /\ UNCHANGED <<ctx, rgd, thr, phone, modules, fw>>
    BY <1>2 DEF EncodePlain, MayEncode
  <2>2. ~Known'
    BY <2>1 DEF ComponentInv, Announced, Known
  <2>3. ~modules' => fw' = "down" \/ ~ctx'.patched
    BY <2>1 DEF ComponentInv
  <2> QED
    BY <2>1, <2>2, <2>3, SameThreads, ComponentStays
<1>3. ASSUME NEW p \in Payloads, EncodePatched(p) PROVE ComponentInv'
  <2>1. rgd.component_id \in Ids
    BY DEF ComponentInv
  <2>2. /\ UNCHANGED <<modules, fw, thr, phone>> /\ modules
        /\ rgd'.component_id \in Ids /\ stack.phase = "begin" /\ stack'.phase = "encoded"
        /\ \/ ~ctx'.patched
           \/ ExtractComponentId(ComponentOf(stack'.frame)) = rgd'.component_id
    BY <1>3, <2>1, PatchedIs
  <2>3. \A t \in Senders : thr'[t].pc \notin {"ask", "copy", "inject"}
    BY <2>2, NobodyAsks
  <2> QED
    BY <2>2, <2>3 DEF ComponentInv, Announced, Known
<1>4. CASE Accept
  <2>1. /\ UNCHANGED <<thr, fw, modules, rgd>>
        /\ stack.phase = "sent" /\ stack'.phase = "accepted"
        /\ phone'.component = phone.component /\ ctx'.patched = ctx.patched
    BY <1>4, AcceptIs
  <2> QED
    BY <2>1 DEF ComponentInv, Announced, Known
<1>5. CASE IdentifyEnd
  <2>1. /\ UNCHANGED <<ctx, fw, modules, rgd, phone>> /\ fw # "down"
        /\ Others(Decoder) /\ stack.phase = "sent"
        /\ \/ thr'[Decoder].pc = "clear"
           \/ ~modules \/ ctx.session \/ rgd.active \/ rgd.got_520x
    BY <1>5, IdentifyEndIs
  <2>2. ~(ctx.session \/ rgd.active \/ rgd.got_520x)
    BY <2>1 DEF StackInv, Begun, Flagged
  <2>3. ~Known'
    BY <2>1, <2>2 DEF ComponentInv, Known
  <2>4. \A t \in Senders : thr'[t] = thr[t]
    BY <2>1, TheThreads DEF Others
  <2> QED
    BY <2>1, <2>3, <2>4 DEF ComponentInv
<1>6. CASE AuthComplete \/ GuidanceBegins
  <2>1. /\ UNCHANGED <<fw, modules, thr, stack, phone>> /\ ctx'.patched = ctx.patched
        /\ rgd'.component_valid = rgd.component_valid /\ rgd'.component_id = rgd.component_id
    BY <1>6, AuthIs, GuidanceIs
  <2>2. Known' => Known
    BY <2>1 DEF Known
  <2>3. ~modules' => fw' = "down" \/ ~ctx'.patched
    BY <2>1 DEF ComponentInv
  <2> QED
    BY <2>1, <2>2, <2>3, SameThreads, ComponentStays
<1>7. ASSUME NEW t \in Senders, NEW h, SendsFrame(t, h) PROVE ComponentInv'
  <2>0. t \in Threads /\ t # Decoder
    BY TheThreads
  <2>1. PICK i, f :
          /\ Call(t, i, f, h)
          /\ \/ /\ stack.phase = "encoded" /\ stack'.phase = "leaving"
                /\ stack'.frame = stack.frame
             \/ UNCHANGED stack
    BY <1>7 DEF SendsFrame
  <2>2. /\ Others(t) /\ thr'[t].pc \in {"pass", "store"}
        /\ UNCHANGED <<ctx, fw, modules, rgd, phone>>
    BY <1>0, <2>1, CallIs
  <2>3. \A u \in Senders : u # t => thr'[u] = thr[u]
    BY <2>2, TheThreads DEF Others
  <2>4. Known' = Known
    BY <2>0, <2>2, TheThreads DEF Known, Others
  <2> QED
    BY <2>1, <2>2, <2>3, <2>4 DEF ComponentInv, Announced
<1>8. ASSUME NEW t \in Senders, StoreContext(t) PROVE ComponentInv'
  <2>0. t \in Threads /\ t # Decoder
    BY TheThreads
  <2>1. /\ Keeps(t) /\ thr'[t].pc \in {"notify", "pass"}
        /\ UNCHANGED <<ctx, fw, modules, rgd, stack, phone>>
    BY <1>0, <1>8, StoreIs
  <2>2. OthersStay(t) /\ (~modules' => fw' = "down" \/ ~ctx'.patched)
    BY <2>0, <2>1, TheyStay DEF ComponentInv
  <2> QED
    BY <2>0, <2>1, <2>2, ComponentMoves
<1>9. ASSUME NEW t \in Senders, Notify(t) PROVE ComponentInv'
  <2>0. t \in Threads /\ t # Decoder
    BY TheThreads
  <2>1. /\ Others(t)
        /\ thr'[t].pc = "pass" \/ (thr'[t].pc = "ask" /\ hook_is_ready)
        /\ UNCHANGED <<ctx, fw, modules, rgd, stack, phone>>
    BY <1>0, <1>9, NotifyIs
  <2>2. OthersStay(t) /\ (~modules' => fw' = "down" \/ ~ctx'.patched)
    BY <2>0, <2>1, TheyStay DEF ComponentInv
  <2>3. ASSUME hook_is_ready, rgd.component_valid PROVE phone.component = rgd.component_id
    <3>1. stack.phase = "accepted"
      BY <2>3 DEF hook_is_ready, StackInv, Begun, Flagged
    <3>2. thr[Decoder].pc = "idle"
      BY <3>1 DEF StackInv
    <3>3. Known
      BY <2>3, <3>2 DEF Known, hook_is_ready
    <3> QED
      BY <3>1, <3>3 DEF ComponentInv, Announced
  <2> QED
    BY <2>0, <2>1, <2>2, <2>3, ComponentMoves
<1>10. ASSUME NEW t \in Senders, Ask(t) PROVE ComponentInv'
  <2>0. t \in Threads /\ t # Decoder
    BY TheThreads
  <2>1. /\ Others(t) /\ thr[t].pc = "ask"
        /\ \/ thr'[t].pc = "pass"
           \/ thr'[t].pc = "copy" /\ rgd.component_valid /\ thr'[t].frame = StartFrame
        /\ UNCHANGED <<ctx, fw, modules, rgd, stack, phone>>
    BY <1>0, <1>10, AskIs
  <2>2. OthersStay(t) /\ (~modules' => fw' = "down" \/ ~ctx'.patched)
    BY <2>0, <2>1, TheyStay DEF ComponentInv
  <2>3. U16(StartFrame, 10) = rgd.component_id
    BY StartIs DEF ComponentInv
  <2>4. rgd.component_valid => phone.component = rgd.component_id
    BY <2>1 DEF ComponentInv
  <2>5. thr'[t].pc \in {"copy", "inject"} => U16(thr'[t].frame, 10) = phone.component
    BY <2>1, <2>3, <2>4
  <2> QED
    BY <2>0, <2>1, <2>2, <2>4, <2>5, ComponentMoves
<1>11. ASSUME NEW t \in Senders, Pass(t) PROVE ComponentInv'
  <2>0. t \in Threads /\ t # Decoder
    BY TheThreads
  <2>1. Others(t) /\ thr'[t].pc = "idle" /\ UNCHANGED <<ctx, fw, modules, rgd>>
    BY <1>0, <1>11, PassIs
  <2>2. OthersStay(t) /\ (~modules' => fw' = "down" \/ ~ctx'.patched)
    BY <2>0, <2>1, TheyStay DEF ComponentInv
  <2>3. CASE thr[t].identify
    <3>1. PICK c : c = ExtractComponentId(ComponentOf(stack.frame))
      OBVIOUS
    <3>2. /\ stack' = [stack EXCEPT !.phase = "sent", !.frame = << >>]
          /\ phone' = [component |-> c, accepted |-> FALSE, started |-> FALSE]
      BY <1>0, <1>11, <2>3, <3>1, PassIs
    <3>3. stack'.phase = "sent" /\ phone'.component = c
      BY <3>2 DEF Shape
    <3>4. stack.phase = "leaving"
      BY <2>0, <2>3 DEF StackInv
    <3>5. \A u \in Senders : thr[u].pc \notin {"ask", "copy", "inject"}
      BY <3>4, NobodyAsks
    <3>6. \A u \in Senders : thr'[u].pc \notin {"ask", "copy", "inject"}
      BY <2>1, <2>2, <3>5, TheThreads DEF OthersStay
    <3>7. Known' => Known
      BY <2>0, <2>1, <2>2, TheThreads DEF Known, OthersStay
    <3>8. Known' => Announced(stack'.phase, stack'.frame, phone'.component, rgd'.component_id)
      BY <2>1, <3>1, <3>3, <3>4, <3>7 DEF ComponentInv, Announced
    <3> QED
      BY <2>1, <2>2, <3>6, <3>8 DEF ComponentInv
  <2>4. CASE ~thr[t].identify
    <3>1. UNCHANGED <<stack, phone>>
      BY <1>0, <1>11, <2>4, PassIs
    <3> QED
      BY <2>0, <2>1, <2>2, <3>1, ComponentMoves
  <2> QED
    BY <2>3, <2>4
<1>12. ASSUME NEW t \in Threads, Copy(t) PROVE ComponentInv'
  <2>1. /\ Others(t) /\ thr'[t].pc = "inject" /\ thr[t].pc = "copy"
        /\ thr'[t].frame = thr[t].frame
        /\ UNCHANGED <<ctx, fw, modules, rgd, stack, phone>>
    BY <1>0, <1>12, CopyIs
  <2>2. OthersStay(t) /\ (~modules' => fw' = "down" \/ ~ctx'.patched)
    BY <2>1, TheyStay DEF ComponentInv
  <2>3. t \in Senders => U16(thr'[t].frame, 10) = phone.component
    BY <2>1 DEF ComponentInv
  <2> QED
    BY <2>1, <2>2, <2>3, ComponentMoves
<1>13. ASSUME NEW t \in Threads, CopyFails(t) \/ Release(t) \/ Note(t) PROVE ComponentInv'
  <2>1. /\ Others(t) /\ thr[t].pc \notin Clears /\ thr[t].pc # "idle"
        /\ thr'[t].pc \in {"note", "note active", "note session"} \/ thr'[t].pc = Leave(t)
        /\ UNCHANGED <<fw, modules, stack, phone>>
        /\ rgd'.component_valid = rgd.component_valid /\ rgd'.component_id = rgd.component_id
    BY <1>0, <1>13, CopyFailsIs, ReleaseIs, NoteIs DEF Clears
  <2>2. UNCHANGED ctx \/ ctx' = [ctx EXCEPT !.session = rgd.active \/ rgd.got_520x]
    BY <1>0, <1>13, CopyFailsIs, ReleaseIs, NoteIs
  <2>3. ctx'.patched = ctx.patched
    BY <2>2 DEF Shape
  <2>4. OthersStay(t) /\ (~modules' => fw' = "down" \/ ~ctx'.patched)
    BY <2>1, <2>3, TheyStay DEF ComponentInv
  <2>5. t # Decoder
    BY <2>1, NotDecoder
  <2>6. thr'[t].pc \notin {"ask", "copy", "inject"}
    BY <2>1 DEF Leave
  <2> QED
    BY <2>1, <2>3, <2>4, <2>5, <2>6, ComponentMoves
<1>14. ASSUME NEW t \in Threads, Inject(t) PROVE ComponentInv'
  <2>1. /\ Others(t) /\ thr[t].pc = "inject" /\ thr'[t].pc \in {"sent", "unsent"}
        /\ UNCHANGED <<ctx, fw, modules, rgd, stack>>
    BY <1>0, <1>14, InjectIs
  <2>2. phone' = phone \/ \E b : phone' = [phone EXCEPT !.started = b]
    BY <1>0, <1>14, InjectIs
  <2>3. phone'.component = phone.component
    BY <2>2 DEF Shape
  <2>4. OthersStay(t) /\ (~modules' => fw' = "down" \/ ~ctx'.patched)
    BY <2>1, TheyStay DEF ComponentInv
  <2>5. t # Decoder
    BY <2>1, NotDecoder DEF Clears
  <2> QED
    BY <2>1, <2>3, <2>4, <2>5, ComponentMoves
<1>15. CASE Shutdown \/ RgdShutdown
  <2>1. /\ Stop /\ UNCHANGED <<ctx, modules, rgd, stack, phone>>
        /\ fw = "up" \/ UNCHANGED fw
    BY <1>15 DEF Shutdown, RgdShutdown
  <2>2. Others(Exit)
    BY <1>0, <2>1, StopIs
  <2>3. OthersStay(Exit) /\ (~modules' => fw' = "down" \/ ~ctx'.patched)
    BY <2>1, <2>2, TheyStay, TheThreads DEF ComponentInv
  <2> QED
    BY <2>1, <2>3, ComponentMoves, TheThreads
<1>16. CASE Unload
  <2>1. Keeps(Exit) /\ fw' = "down" /\ UNCHANGED <<ctx, rgd, stack, phone>>
    BY <1>0, <1>16, UnloadIs
  <2>2. OthersStay(Exit)
    BY <2>1, TheyStay, TheThreads
  <2> QED
    BY <2>1, <2>2, ComponentMoves, TheThreads
<1>17. ASSUME NEW t \in {Exit, Decoder}, ClearState(t) PROVE ComponentInv'
  <2>0. t \in Threads /\ t \notin Senders
    BY TheThreads
  <2>1. /\ Others(t) /\ UNCHANGED <<fw, modules, stack, phone>>
        /\ rgd'.component_valid => rgd.component_valid
        /\ rgd'.component_id = rgd.component_id
        /\ \/ /\ thr'[t].pc \in Clears
              /\ thr'[t].pc = "clear session" => ~rgd'.component_valid
           \/ thr[t].pc = "clear session"
    BY <1>17, ClearIs
  <2>2. UNCHANGED ctx \/ ctx' = [ctx EXCEPT !.session = rgd.active \/ rgd.got_520x]
    BY <1>17, ClearIs
  <2>3. ctx'.patched = ctx.patched
    BY <2>2 DEF Shape
  <2>4. OthersStay(t) /\ (~modules' => fw' = "down" \/ ~ctx'.patched)
    BY <2>0, <2>1, <2>3, TheyStay DEF ComponentInv
  <2>5. rgd'.component_valid /\ thr'[t].pc \in {"idle", "clear session"}
          => thr[t].pc \in {"idle", "clear session"}
    BY <2>1 DEF Clears
  <2> QED
    BY <2>0, <2>1, <2>3, <2>4, <2>5, ComponentMoves
<1>18. CASE UNCHANGED vars
  <2>1. UNCHANGED <<ctx, fw, modules, rgd, thr, stack, phone>>
    BY <1>18 DEF vars
  <2> QED
    BY <2>1 DEF ComponentInv, Known
<1> QED
  BY <1>1, <1>2, <1>3, <1>4, <1>5, <1>6, <1>7, <1>8, <1>9, <1>10, <1>11, <1>12, <1>13, <1>14,
     <1>15, <1>16, <1>17, <1>18, SendsIs DEF Next, Sending, Injecting

-----------------------------------------------------------------------------
(* After the STOP, and for which START it was.                             *)

Ends == {"idle", "clear session", "unload"}

(* The component is not valid any more once a destructor that sent a STOP  *)
(* has cleared its state.                                                  *)
StopInv == wire.stopped /\ ~Stopping => ~rgd.component_valid

(* The threads that have sent a START and not yet noted it, and the START  *)
(* that is noted and that the STOP on its way was not yet sent for.        *)
Counted == {"sent", "note", "note active"}
Unnoted == {t \in Senders : thr[t].pc \in Counted}
Noted == IF rgd.active /\ thr[Exit].pc \notin Counted THEN 1 ELSE 0

CountInv ==
  /\ wire.owed \in Int
  /\ thr[Exit].pc \in {"copy", "inject"} => rgd.active
  /\ wire.owed >= Cardinality(Unnoted) + Noted

LEMMA InitCount == Init => StopInv /\ CountInv
<1> SUFFICES ASSUME Init PROVE StopInv /\ CountInv
  OBVIOUS
<1>1. \A t \in Threads : thr[t] = Idle
  BY DEF Init
<1>2. \A t \in Threads : thr[t].pc = "idle"
  BY <1>1 DEF Idle
<1>3. Unnoted = {}
  BY <1>2, TheThreads DEF Unnoted, Counted
<1>4. Cardinality(Unnoted) = 0
  BY <1>3, FS_EmptySet
<1>5. wire.owed = 0 /\ ~wire.stopped /\ ~rgd.active
  BY DEF Init, NoRgd
<1>6. Noted = 0
  BY <1>5 DEF Noted
<1>7. thr[Exit].pc \notin {"copy", "inject"}
  BY <1>2, TheThreads
<1> QED
  BY <1>4, <1>5, <1>6, <1>7 DEF StopInv, CountInv

LEMMA StopMoves ==
  ASSUME StopInv, NEW t \in Threads, OthersStay(t),
         t # Exit /\ wire'.stopped => wire.stopped,
         rgd'.component_valid => rgd.component_valid,
         t = Exit => \/ thr'[t].pc \notin Ends \/ ~rgd'.component_valid
                     \/ thr[t].pc \in Ends /\ wire'.stopped = wire.stopped
  PROVE  StopInv'
<1>1. CASE t = Exit
  BY <1>1 DEF StopInv, Stopping, Ends
<1>2. CASE t # Exit
  <2>1. thr'[Exit].pc = thr[Exit].pc
    BY <1>2, TheThreads DEF OthersStay
  <2> QED
    BY <1>2, <2>1 DEF StopInv, Stopping
<1> QED
  BY <1>1, <1>2

LEMMA StopStays ==
  ASSUME StopInv, UNCHANGED <<thr, wire>>, rgd'.component_valid => rgd.component_valid
  PROVE  StopInv'
BY DEF StopInv, Stopping

LEMMA StopKept == Shape /\ StackInv /\ StopInv /\ [Next]_vars => StopInv'
<1> SUFFICES ASSUME Shape, StackInv, StopInv, [Next]_vars PROVE StopInv'
  OBVIOUS
<1>0. ThreadsShape
  BY DEF Shape
<1>1. CASE Reinit \/ Accept \/ AuthComplete \/ GuidanceBegins
  <2>1. UNCHANGED <<thr, wire>> /\ rgd'.component_valid = rgd.component_valid
    BY <1>1, ReinitIs, AcceptIs, AuthIs, GuidanceIs
  <2> QED
    BY <2>1, StopStays
<1>2. ASSUME NEW p \in Payloads, EncodePlain(p) \/ EncodePatched(p) PROVE StopInv'
  <2>1. stack.phase = "begin" /\ UNCHANGED wire
    BY <1>2, EncodeIs
  <2>2. ~wire.stopped
    BY <2>1 DEF StackInv, Begun, Flagged
  <2> QED
    BY <2>1, <2>2 DEF StopInv
<1>3. CASE IdentifyEnd
  <2>1. Others(Decoder) /\ UNCHANGED <<rgd, wire>>
    BY <1>3, IdentifyEndIs
  <2> QED
    BY <2>1, TheyStay, TheThreads, StopMoves
<1>4. ASSUME NEW t \in Senders, NEW h, SendsFrame(t, h) PROVE StopInv'
  <2>1. t \in Threads /\ t # Exit
    BY TheThreads
  <2>2. PICK i, f : Call(t, i, f, h)
    BY <1>4 DEF SendsFrame
  <2>3. Others(t) /\ UNCHANGED <<rgd, wire>>
    BY <1>0, <2>2, CallIs
  <2> QED
    BY <2>1, <2>3, TheyStay, StopMoves
<1>5. ASSUME NEW t \in Senders, Sending(t) PROVE StopInv'
  <2>1. t \in Threads /\ t # Exit
    BY TheThreads
  <2>2. (Others(t) \/ Keeps(t)) /\ UNCHANGED <<rgd, wire>>
    BY <1>0, <1>5, StoreIs, NotifyIs, AskIs, PassIs DEF Sending
  <2> QED
    BY <2>1, <2>2, TheyStay, StopMoves
<1>6. ASSUME NEW t \in Threads, Copy(t) \/ CopyFails(t) \/ Release(t) \/ Note(t) PROVE StopInv'
  <2>1. /\ Others(t) /\ UNCHANGED wire /\ rgd'.component_valid = rgd.component_valid
        /\ thr'[t].pc \in {"inject", "note", "note active", "note session"} \/ thr'[t].pc = Leave(t)
    BY <1>0, <1>6, CopyIs, CopyFailsIs, ReleaseIs, NoteIs
  <2>2. t = Exit => thr'[t].pc \notin Ends
    BY <2>1 DEF Leave, Ends
  <2> QED
    BY <2>1, <2>2, TheyStay, StopMoves
<1>7. ASSUME NEW t \in Threads, Inject(t) PROVE StopInv'
  <2>1. Others(t) /\ UNCHANGED rgd /\ thr'[t].pc \in {"sent", "unsent"}
    BY <1>0, <1>7, InjectIs
  <2>2. t # Exit => wire'.stopped = wire.stopped \/ wire'.stopped = (wire.stopped \/ t = Exit)
    BY <1>0, <1>7, InjectIs
  <2>3. t = Exit => thr'[t].pc \notin Ends
    BY <2>1 DEF Ends
  <2>4. t # Exit /\ wire'.stopped => wire.stopped
    BY <2>2
  <2> QED
    BY <2>1, <2>3, <2>4, TheyStay, StopMoves
<1>8. CASE Shutdown \/ RgdShutdown
  <2>1. Stop /\ UNCHANGED <<rgd, wire>>
    BY <1>8 DEF Shutdown, RgdShutdown
  <2>2. Others(Exit) /\ thr'[Exit].pc \in {"clear", "copy"}
    BY <1>0, <2>1, StopIs
  <2>3. thr'[Exit].pc \notin Ends
    BY <2>2 DEF Ends
  <2> QED
    BY <2>1, <2>2, <2>3, TheyStay, TheThreads, StopMoves
<1>9. CASE Unload
  <2>1. Keeps(Exit) /\ thr[Exit].pc = "unload" /\ UNCHANGED <<rgd, wire>>
    BY <1>0, <1>9, UnloadIs
  <2>2. thr[Exit].pc \in Ends
    BY <2>1 DEF Ends
  <2> QED
    BY <2>1, <2>2, TheyStay, TheThreads, StopMoves
<1>10. ASSUME NEW t \in {Exit, Decoder}, ClearState(t) PROVE StopInv'
  <2>1. t \in Threads
    BY TheThreads
  <2>2. /\ Others(t) /\ UNCHANGED wire
        /\ rgd'.component_valid => rgd.component_valid
        /\ \/ thr'[t].pc \in Clears /\ (thr'[t].pc = "clear session" => ~rgd'.component_valid)
           \/ thr[t].pc = "clear session"
    BY <1>10, ClearIs
  <2>3. \/ thr'[t].pc \notin Ends \/ ~rgd'.component_valid
        \/ thr[t].pc \in Ends
    BY <2>2 DEF Clears, Ends
  <2> QED
    BY <2>1, <2>2, <2>3, TheyStay, StopMoves
<1>11. CASE UNCHANGED vars
  BY <1>11, StopStays DEF vars
<1> QED
  BY <1>1, <1>2, <1>3, <1>4, <1>5, <1>6, <1>7, <1>8, <1>9, <1>10, <1>11, SendsIs
  DEF Next, Injecting

LEMMA Unnoteds == IsFiniteSet(Unnoted) /\ Cardinality(Unnoted) \in Nat /\ Noted \in {0, 1}
<1>1. Unnoted \subseteq Senders
  BY DEF Unnoted
<1>2. IsFiniteSet(Unnoted)
  BY <1>1, SessionAssumption, FS_Subset
<1> QED
  BY <1>2, FS_CardinalityType DEF Noted

LEMMA CountStays ==
  ASSUME CountInv, UNCHANGED thr, wire'.owed = wire.owed, rgd'.active = rgd.active
  PROVE  CountInv'
<1>1. Unnoted' = Unnoted /\ Noted' = Noted
  BY DEF Unnoted, Noted
<1> QED
  BY <1>1 DEF CountInv

(* A step of a thread that neither sends nor notes.                        *)
LEMMA CountMoves ==
  ASSUME CountInv, NEW t \in Threads, OthersStay(t), wire'.owed = wire.owed,
         rgd'.active => rgd.active,
         thr'[t].pc \in Counted <=> thr[t].pc \in Counted,
         thr'[Exit].pc \in {"copy", "inject"} => rgd'.active
  PROVE  CountInv'
<1>1. \A u \in Threads : thr'[u].pc \in Counted <=> thr[u].pc \in Counted
  BY DEF OthersStay
<1>2. Unnoted' = Unnoted
  BY <1>1, TheThreads DEF Unnoted
<1>3. Noted = 1 \/ Noted' = 0
  BY <1>1, TheThreads DEF Noted
<1>4. Cardinality(Unnoted) \in Nat /\ Noted \in {0, 1} /\ Noted' \in {0, 1}
  BY Unnoteds DEF Noted
<1>5. PICK n : n = Cardinality(Unnoted) /\ n = Cardinality(Unnoted')
  BY <1>2
<1>6. wire'.owed >= n + Noted'
  BY <1>3, <1>4, <1>5 DEF CountInv
<1> QED
  BY <1>5, <1>6 DEF CountInv

LEMMA CountKept == Shape /\ StackInv /\ CountInv /\ [Next]_vars => CountInv'
<1> SUFFICES ASSUME Shape, StackInv, CountInv, [Next]_vars PROVE CountInv'
  OBVIOUS
<1>0. ThreadsShape
  BY DEF Shape
<1>1. CASE Reinit \/ Accept \/ AuthComplete \/ GuidanceBegins
  <2>1. UNCHANGED <<thr, wire>> /\ rgd'.active = rgd.active
    BY <1>1, ReinitIs, AcceptIs, AuthIs, GuidanceIs
  <2> QED
    BY <2>1, CountStays
<1>2. ASSUME NEW p \in Payloads, EncodePlain(p) \/ EncodePatched(p) PROVE CountInv'
  BY <1>2, EncodeIs, CountStays
<1>3. CASE IdentifyEnd
  <2>1. /\ Others(Decoder) /\ UNCHANGED <<rgd, wire>>
        /\ thr[Decoder].pc = "idle" /\ thr'[Decoder].pc \in {"idle", "clear"}
    BY <1>3, IdentifyEndIs
  <2>2. thr'[Exit].pc = thr[Exit].pc
    BY <2>1, TheThreads DEF Others
  <2>3. thr'[Decoder].pc \notin Counted /\ thr[Decoder].pc \notin Counted
    BY <2>1 DEF Counted
  <2>4. thr'[Exit].pc \in {"copy", "inject"} => rgd'.active
    BY <2>1, <2>2 DEF CountInv
  <2> QED
    BY <2>1, <2>3, <2>4, TheyStay, TheThreads, CountMoves
<1>4. ASSUME NEW t \in Senders, NEW h, SendsFrame(t, h) PROVE CountInv'
  <2>1. t \in Threads /\ t # Exit
    BY TheThreads
  <2>2. PICK i, f : Call(t, i, f, h)
    BY <1>4 DEF SendsFrame
  <2>3. /\ Others(t) /\ UNCHANGED <<rgd, wire>>
        /\ thr[t].pc = "idle" /\ thr'[t].pc \in {"pass", "store"}
    BY <1>0, <2>2, CallIs
  <2>4. thr'[t].pc \notin Counted /\ thr[t].pc \notin Counted
    BY <2>3 DEF Counted
  <2>5. thr'[Exit].pc \in {"copy", "inject"} => rgd'.active
    BY <2>1, <2>3, TheThreads DEF CountInv, Others
  <2> QED
    BY <2>1, <2>3, <2>4, <2>5, TheyStay, CountMoves
<1>5. ASSUME NEW t \in Senders, Sending(t) PROVE CountInv'
  <2>1. t \in Threads /\ t # Exit
    BY TheThreads
  <2>2. /\ Others(t) \/ Keeps(t)
        /\ UNCHANGED <<rgd, wire>>
        /\ thr[t].pc \in {"store", "notify", "ask", "pass"}
        /\ thr'[t].pc \in {"notify", "ask", "copy", "pass", "idle"}
    BY <1>0, <1>5, StoreIs, NotifyIs, AskIs, PassIs DEF Sending
  <2>3. thr'[t].pc \notin Counted /\ thr[t].pc \notin Counted
    BY <2>2 DEF Counted
  <2>4. OthersStay(t)
    BY <2>1, <2>2, TheyStay
  <2>5. thr'[Exit].pc \in {"copy", "inject"} => rgd'.active
    BY <2>1, <2>2, <2>4, TheThreads DEF CountInv, OthersStay
  <2> QED
    BY <2>1, <2>2, <2>3, <2>4, <2>5, CountMoves
<1>6. ASSUME NEW t \in Threads, Copy(t) \/ CopyFails(t) \/ Release(t) PROVE CountInv'
  <2>1. /\ Others(t) /\ UNCHANGED <<rgd, wire>>
        /\ \/ thr[t].pc = "copy" /\ thr'[t].pc = "inject"
           \/ thr[t].pc \in {"copy", "unsent"} /\ thr'[t].pc = Leave(t)
           \/ thr[t].pc = "sent" /\ thr'[t].pc = "note"
    BY <1>0, <1>6, CopyIs, CopyFailsIs, ReleaseIs
  <2>2. thr'[t].pc \in Counted <=> thr[t].pc \in Counted
    BY <2>1 DEF Counted, Leave
  <2>3. thr'[t].pc \in {"copy", "inject"} => thr[t].pc = "copy"
    BY <2>1 DEF Leave
  <2>4. thr'[Exit].pc \in {"copy", "inject"} => rgd'.active
    BY <2>1, <2>3, TheThreads DEF CountInv, Others
  <2> QED
    BY <2>1, <2>2, <2>4, TheyStay, CountMoves
<1>7. ASSUME NEW t \in Threads, Inject(t) PROVE CountInv'
  <2>1. Others(t) /\ UNCHANGED rgd /\ thr[t].pc = "inject"
    BY <1>0, <1>7, InjectIs
  <2>2. thr'[t].pc \in {"sent", "unsent"}
    BY <1>0, <1>7, InjectIs
  <2>3. thr'[Exit].pc \in {"copy", "inject"} => rgd'.active
    BY <2>1, <2>2, TheThreads DEF CountInv, Others
  <2>4. CASE thr'[t].pc = "unsent"
    <3>1. UNCHANGED wire
      BY <1>0, <1>7, <2>4, InjectIs
    <3>2. thr'[t].pc \notin Counted /\ thr[t].pc \notin Counted
      BY <2>1, <2>4 DEF Counted
    <3> QED
      BY <2>1, <2>3, <3>1, <3>2, TheyStay, CountMoves
  <2>5. CASE thr'[t].pc = "sent"
    <3>1. wire'.owed = IF t = Exit THEN wire.owed - 1 ELSE wire.owed + 1
      BY <1>0, <1>7, <2>5, InjectIs
    <3>2. CASE t = Exit
      <4>1. Unnoted' = Unnoted
        BY <2>1, <3>2, TheThreads DEF Unnoted, Others
      <4>2. Noted = 1 /\ Noted' = 0
        BY <2>1, <2>5, <3>2 DEF Noted, Counted, CountInv
      <4>3. PICK n \in Nat : n = Cardinality(Unnoted) /\ n = Cardinality(Unnoted')
        BY <4>1, Unnoteds
      <4>4. wire'.owed \in Int /\ wire'.owed >= n + 0
        BY <3>1, <3>2, <4>2, <4>3 DEF CountInv
      <4> QED
        BY <2>3, <4>2, <4>3, <4>4 DEF CountInv
    <3>3. CASE t # Exit
      <4>1. t \in Senders
        <5>1. t # Decoder
          BY <2>1, NotDecoder DEF Clears
        <5> QED
          BY <3>3, <5>1, TheThreads
      <4>2. Unnoted' = Unnoted \cup {t} /\ t \notin Unnoted
        BY <2>1, <2>5, <4>1, TheThreads DEF Unnoted, Others, Counted
      <4>3. Cardinality(Unnoted') = Cardinality(Unnoted) + 1
        BY <4>2, Unnoteds, FS_AddElement
      <4>4. Noted' = Noted
        BY <2>1, <3>3, TheThreads DEF Noted, Others
      <4>5. PICK n \in Nat, m \in {0, 1} : n = Cardinality(Unnoted) /\ m = Noted
        BY Unnoteds
      <4>6. wire'.owed \in Int /\ wire'.owed >= (n + 1) + m
        BY <3>1, <3>3, <4>5 DEF CountInv
      <4> QED
        BY <2>3, <4>3, <4>4, <4>5, <4>6 DEF CountInv
    <3> QED
      BY <3>2, <3>3
  <2> QED
    BY <2>2, <2>4, <2>5
<1>8. ASSUME NEW t \in Threads, Note(t) PROVE CountInv'
  <2>1. /\ Others(t) /\ UNCHANGED wire
        /\ thr'[t].pc \in {"note active", "note session"} \/ thr'[t].pc = Leave(t)
    BY <1>8, NoteIs
  <2>2. thr'[t].pc \notin {"copy", "inject"}
    BY <2>1 DEF Leave
  <2>3. CASE thr[t].pc \in {"note", "note session"}
    <3>1. /\ rgd'.active = rgd.active
          /\ \/ thr[t].pc = "note" /\ thr'[t].pc = "note active"
             \/ thr[t].pc = "note session" /\ thr'[t].pc = Leave(t)
      BY <1>8, <2>3, NoteIs
    <3>2. thr'[t].pc \in Counted <=> thr[t].pc \in Counted
      BY <3>1 DEF Counted, Leave
    <3>3. thr'[Exit].pc \in {"copy", "inject"} => rgd'.active
      BY <2>1, <2>2, <3>1, TheThreads DEF CountInv, Others
    <3> QED
      BY <2>1, <3>1, <3>2, <3>3, TheyStay, CountMoves
  <2>4. CASE thr[t].pc \notin {"note", "note session"}
    <3>1. thr[t].pc = "note active" /\ thr'[t].pc = "note session" /\ rgd'.active = (t # Exit)
      BY <1>8, <2>4, NoteIs
    <3>2. CASE t = Exit
      <4>1. Unnoted' = Unnoted
        BY <2>1, <3>2, TheThreads DEF Unnoted, Others
      <4>2. Noted = 0 /\ Noted' = 0
        BY <3>1, <3>2 DEF Noted, Counted
      <4> QED
        BY <2>1, <2>2, <3>2, <4>1, <4>2 DEF CountInv
    <3>3. CASE t # Exit
      <4>1. t \in Senders
        <5>1. t # Decoder
          BY <3>1, NotDecoder DEF Clears
        <5> QED
          BY <3>3, <5>1, TheThreads
      <4>2. Unnoted' = Unnoted \ {t} /\ t \in Unnoted
        BY <2>1, <3>1, <4>1, TheThreads DEF Unnoted, Others, Counted
      <4>3. Cardinality(Unnoted') = Cardinality(Unnoted) - 1
        BY <4>2, Unnoteds, FS_RemoveElement
      <4>4. PICK m \in {0, 1}, k \in {0, 1} : m = Noted /\ k = Noted'
        BY DEF Noted
      <4>5. PICK n \in Nat : n = Cardinality(Unnoted)
        BY Unnoteds
      <4>6. wire'.owed \in Int /\ wire'.owed >= n + m
        BY <2>1, <4>4, <4>5 DEF CountInv
      <4>7. wire'.owed >= (n - 1) + k
        BY <4>6
      <4>8. thr'[Exit].pc \in {"copy", "inject"} => rgd'.active
        BY <3>1, <3>3
      <4> QED
        BY <4>3, <4>4, <4>5, <4>6, <4>7, <4>8 DEF CountInv
    <3> QED
      BY <3>2, <3>3
  <2> QED
    BY <2>3, <2>4
<1>9. CASE Shutdown \/ RgdShutdown
  <2>1. Stop /\ thr[Exit].pc = "idle" /\ UNCHANGED <<rgd, wire>>
    BY <1>9 DEF Shutdown, RgdShutdown, At
  <2>2. /\ Others(Exit)
        /\ thr'[Exit].pc = "clear" \/ (thr'[Exit].pc = "copy" /\ rgd.active)
    BY <1>0, <2>1, StopIs
  <2>3. thr'[Exit].pc \notin Counted /\ thr[Exit].pc \notin Counted
    BY <2>1, <2>2 DEF Counted
  <2>4. thr'[Exit].pc \in {"copy", "inject"} => rgd'.active
    BY <2>1, <2>2
  <2> QED
    BY <2>1, <2>2, <2>3, <2>4, TheyStay, TheThreads, CountMoves
<1>10. CASE Unload
  <2>1. /\ Keeps(Exit) /\ thr[Exit].pc = "unload" /\ thr'[Exit].pc = "idle"
        /\ UNCHANGED <<rgd, wire>>
    BY <1>0, <1>10, UnloadIs
  <2>2. thr'[Exit].pc \notin Counted /\ thr[Exit].pc \notin Counted
    BY <2>1 DEF Counted
  <2> QED
    BY <2>1, <2>2, TheyStay, TheThreads, CountMoves
<1>11. ASSUME NEW t \in {Exit, Decoder}, ClearState(t) PROVE CountInv'
  <2>1. t \in Threads
    BY TheThreads
  <2>2. /\ Others(t) /\ UNCHANGED wire /\ (rgd'.active => rgd.active)
        /\ thr[t].pc \in Clears
        /\ thr'[t].pc \in Clears \/ thr'[t].pc = IF t = Exit THEN Cleared ELSE "idle"
    BY <1>11, ClearIs DEF Clears
  <2>3. thr'[t].pc \notin Counted /\ thr[t].pc \notin Counted
    BY <2>2 DEF Counted, Clears, Cleared
  <2>4. thr'[Exit].pc \notin {"copy", "inject"}
    <3>1. CASE t = Exit
      BY <2>2, <3>1 DEF Clears, Cleared
    <3>2. CASE t # Exit
      <4>1. t = Decoder /\ thr[Decoder].pc # "idle"
        BY <2>2, <3>2 DEF Clears
      <4>2. ~Begun
        BY <4>1 DEF StackInv
      <4>3. thr[Exit].pc \notin {"copy", "inject"}
        BY <4>2, TheThreads DEF Begun, InFlight
      <4> QED
        BY <2>2, <4>1, <4>3, TheThreads DEF Others
    <3> QED
      BY <3>1, <3>2
  <2> QED
    BY <2>1, <2>2, <2>3, <2>4, TheyStay, CountMoves
<1>12. CASE UNCHANGED vars
  BY <1>12, CountStays DEF vars
<1> QED
  BY <1>1, <1>2, <1>3, <1>4, <1>5, <1>6, <1>7, <1>8, <1>9, <1>10, <1>11, <1>12, SendsIs
  DEF Next, Injecting

-----------------------------------------------------------------------------
(* The packets.                                                            *)

(* A link header kept from a packet, or none after a failure; n counts the *)
(* failures so far.                                                        *)
Good(prefix, n) ==
  \/ prefix = << >> /\ n > 0
  \/ \E header \in Links, sent \in SentFrames : prefix = Kept(Packet(header, sent))

(* What PacketsAccounted says of a packet.                                 *)
PacketOk(packet, frame, n) ==
  \/ \E header \in Links : packet = Packet(header, frame)
  \/ n > 0 /\ packet = frame
  \/ \E header \in Links, sent \in SentFrames :
       Misread(header, sent) /\ packet = Wrapped(Kept(Packet(header, sent)), frame)

(* What a thread has in hand: r is the thread, w the framework.            *)
ThreadOk(r, prefix, w, n) ==
  /\ r.pc = "store" => Good(r.prefix, 0)
  /\ r.pc \in {"copy", "inject"} => r.frame \in Of(Int)
  /\ r.pc = "copy" => r.torn \/ (w # "down" /\ Good(prefix, n))
  /\ r.pc = "inject" => r.torn \/ PacketOk(r.packet, r.frame, n)

PacketsInv ==
  /\ failed \in Nat
  /\ stack.phase = "encoded" => stack.frame \in SentFrames
  /\ link.valid /\ fw # "down" => Good(link.prefix, failed)
  /\ \A t \in Threads : ThreadOk(thr[t], link.prefix, fw, failed)
  /\ PacketsAccounted

LEMMA InitPackets == Init => PacketsInv
<1> SUFFICES ASSUME Init PROVE PacketsInv
  OBVIOUS
<1>1. \A t \in Threads : thr[t] = Idle
  BY DEF Init
<1>2. \A t \in Threads : thr[t].pc = "idle"
  BY <1>1 DEF Idle
<1>3. \A t \in Threads : ThreadOk(thr[t], link.prefix, fw, failed)
  BY <1>2 DEF ThreadOk
<1>4. PacketsAccounted
  BY DEF Init, PacketsAccounted
<1> QED
  BY <1>3, <1>4 DEF Init, PacketsInv, NoLink

(* What a packet leaves behind: nothing where there is no link layer, else *)
(* the header that was sent, unless it was misread.                        *)
LEMMA FitIs ==
  ASSUME NEW header \in Links, NEW sent \in SentFrames
  PROVE  /\ header \in Of(Int) /\ sent \in Of(Int)
         /\ header # << >> =>
              /\ Size(header) >= 8 /\ Size(header) + 1 =< MAX_PREFIX_LEN
              /\ Size(header) + Size(sent) + 2 \in Int
              /\ Size(header) + Size(sent) + 2 >= 1
              /\ Size(header) + Size(sent) + 2 =< 65535
<1>1. header \in Seq(Int) /\ sent \in Seq(Int)
  BY LinkAssumption
<1>2. PICK m \in Nat, n \in Nat : m = Len(header) /\ n = Len(sent)
  BY <1>1
<1>3. m + n + 2 < 65536
  BY <1>2, LinkAssumption
<1>4. header # << >> => 8 =< m /\ m < MAX_PREFIX_LEN
  BY <1>2, LinkAssumption
<1>5. MAX_PREFIX_LEN \in Int
  BY DEF MAX_PREFIX_LEN
<1>6. header # << >> => m >= 8 /\ m + 1 =< MAX_PREFIX_LEN
  BY <1>4, <1>5
<1>7. m + n + 2 \in Int /\ m + n + 2 >= 1 /\ m + n + 2 =< 65535
  BY <1>3
<1>8. Size(header) = m /\ Size(sent) = n
  BY <1>2 DEF Size
<1> QED
  BY <1>1, <1>6, <1>7, <1>8 DEF Of

LEMMA KeptOf ==
  ASSUME NEW header \in Links, NEW sent \in SentFrames, ~Misread(header, sent)
  PROVE  Kept(Packet(header, sent)) =
           IF header = << >> THEN << >>
           ELSE Stamped(header, Size(header) + Size(sent) + 2)
<1>1. /\ header \in Of(Int) /\ sent \in Of(Int)
      /\ header # << >> => Size(header) >= 8 /\ Size(header) + 1 =< MAX_PREFIX_LEN
  BY FitIs
<1>2. PICK b, off : b = Packet(header, sent) /\ off = FindFrame(b)
  OBVIOUS
<1>3. off = IF header = << >> THEN 0 ELSE Size(header) + 1
  BY <1>2 DEF Misread, Size
<1>4. Kept(b) = IF off <= MAX_PREFIX_LEN THEN SubSeq(b, 1, off) ELSE << >>
  BY <1>2 DEF Kept
<1>5. CASE header = << >>
  <2>1. SubSeq(b, 1, 0) = << >>
    BY SubSeqEmpty
  <2> QED
    BY <1>2, <1>3, <1>4, <1>5, <2>1
<1>6. CASE header # << >>
  <2>1. off = Size(header) + 1 /\ off <= MAX_PREFIX_LEN
    BY <1>1, <1>3, <1>6
  <2>2. Kept(b) = SubSeq(b, 1, off)
    BY <1>4, <2>1
  <2>3. SubSeq(b, 1, off) = Stamped(header, Size(header) + Size(sent) + 2)
    BY <1>1, <1>2, <1>6, <2>1, KeptIs
  <2> QED
    BY <1>2, <1>6, <2>2, <2>3
<1> QED
  BY <1>5, <1>6

(* What the hook makes of it is a packet of the transport.                 *)
LEMMA WrappedOk ==
  ASSUME NEW prefix, NEW n, Good(prefix, n), NEW f, f \in Of(Int)
  PROVE  PacketOk(Wrapped(prefix, f), f, n)
<1>1. Wrapped(<< >>, f) = f /\ Packet(<< >>, f) = f
  BY DEF Wrapped, Packet
<1>2. CASE prefix = << >> /\ n > 0
  BY <1>1, <1>2 DEF PacketOk
<1>3. ASSUME NEW header \in Links, NEW sent \in SentFrames, prefix = Kept(Packet(header, sent))
      PROVE  PacketOk(Wrapped(prefix, f), f, n)
  <2>1. CASE Misread(header, sent)
    BY <1>3, <2>1 DEF PacketOk
  <2>2. CASE ~Misread(header, sent) /\ header = << >>
    <3>1. prefix = << >>
      BY <1>3, <2>2, KeptOf
    <3>2. Wrapped(prefix, f) = Packet(header, f)
      BY <1>1, <2>2, <3>1
    <3> QED
      BY <3>2 DEF PacketOk
  <2>3. CASE ~Misread(header, sent) /\ header # << >>
    <3>1. /\ header \in Of(Int) /\ Size(header) >= 8
          /\ Size(header) + Size(sent) + 2 \in Int
          /\ Size(header) + Size(sent) + 2 >= 1
          /\ Size(header) + Size(sent) + 2 =< 65535
      BY <2>3, FitIs
    <3>2. PICK t \in Int : t = Size(header) + Size(sent) + 2
      BY <3>1
    <3>3. t >= 1 /\ t =< 65535
      BY <3>1, <3>2
    <3>4. prefix = Stamped(header, t)
      BY <1>3, <2>3, <3>2, KeptOf
    <3>5. Wrapped(prefix, f) = Packet(header, f)
      BY <3>1, <3>3, <3>4, WrapIs
    <3> QED
      BY <3>5 DEF PacketOk
  <2> QED
    BY <2>1, <2>2, <2>3
<1> QED
  BY <1>2, <1>3 DEF Good

(* What keeps a thread in order.                                           *)
LEMMA NotInjecting ==
  ASSUME NEW r, r.pc \notin {"store", "copy", "inject"}, NEW p, NEW w, NEW n
  PROVE  ThreadOk(r, p, w, n)
BY DEF ThreadOk

LEMMA GoodLater ==
  ASSUME NEW p, NEW f, NEW n \in Nat, NEW m \in Nat, m >= n
  PROVE  (Good(p, n) => Good(p, m)) /\ (PacketOk(p, f, n) => PacketOk(p, f, m))
<1>1. n > 0 => m > 0
  OBVIOUS
<1> QED
  BY <1>1 DEF Good, PacketOk

LEMMA OkLater ==
  ASSUME NEW r, NEW p, NEW w, NEW x, x = "down" => w = "down",
         NEW n \in Nat, NEW m \in Nat, m >= n, ThreadOk(r, p, w, n)
  PROVE  ThreadOk(r, p, x, m)
<1>1. Good(p, n) => Good(p, m)
  BY GoodLater
<1>2. PacketOk(r.packet, r.frame, n) => PacketOk(r.packet, r.frame, m)
  BY GoodLater
<1> QED
  BY <1>1, <1>2 DEF ThreadOk

(* A copy whose source was freed.                                          *)
LEMMA TornOk ==
  ASSUME NEW r, NEW s, NEW p, NEW q, NEW w, NEW x, NEW n \in Nat, NEW m \in Nat, m >= n,
         ThreadOk(r, p, w, n),
         s.pc = r.pc, s.prefix = r.prefix, s.frame = r.frame, s.packet = r.packet,
         s.torn = IF r.pc = "copy" THEN TRUE ELSE r.torn
  PROVE  ThreadOk(s, q, x, m)
<1>1. PacketOk(r.packet, r.frame, n) => PacketOk(r.packet, r.frame, m)
  BY GoodLater
<1>2. CASE r.pc = "copy"
  BY <1>2 DEF ThreadOk
<1>3. CASE r.pc = "inject"
  BY <1>1, <1>3 DEF ThreadOk
<1>4. CASE r.pc \notin {"copy", "inject"}
  BY <1>4 DEF ThreadOk
<1> QED
  BY <1>2, <1>3, <1>4

LEMMA DownOk ==
  ASSUME NEW r, NEW p, NEW q, NEW x, NEW n, ThreadOk(r, p, "down", n)
  PROVE  ThreadOk(r, q, x, n)
BY DEF ThreadOk

LEMMA WireStays ==
  ASSUME PacketsAccounted, UNCHANGED wire, failed \in Nat, failed' \in Nat, failed' >= failed
  PROVE  PacketsAccounted'
<1>1. failed > 0 => failed' > 0
  OBVIOUS
<1> QED
  BY <1>1 DEF PacketsAccounted

(* A step of one thread that leaves link header and framework alone.       *)
LEMMA PacketsStay ==
  ASSUME PacketsInv, NEW t \in Threads, Others(t),
         failed' \in Nat, failed' >= failed,
         UNCHANGED <<link, wire>>, fw' = "down" <=> fw = "down",
         stack'.phase = "encoded" => stack'.frame \in SentFrames,
         ThreadOk(thr'[t], link.prefix, fw', failed')
  PROVE  PacketsInv'
<1>1. failed \in Nat
  BY DEF PacketsInv
<1>2. link'.valid /\ fw' # "down" => Good(link'.prefix, failed')
  BY <1>1, GoodLater DEF PacketsInv
<1>3. ASSUME NEW u \in Threads
      PROVE  ThreadOk(thr'[u], link'.prefix, fw', failed')
  <2>1. CASE u = t
    BY <2>1
  <2>2. CASE u # t
    <3>1. PICK r : r = thr[u] /\ r = thr'[u]
      BY <2>2 DEF Others
    <3>2. ThreadOk(r, link.prefix, fw, failed)
      BY <3>1 DEF PacketsInv
    <3>3. ThreadOk(r, link.prefix, fw', failed')
      BY <1>1, <3>2, OkLater
    <3> QED
      BY <3>1, <3>3
  <2> QED
    BY <2>1, <2>2
<1>4. PacketsAccounted'
  BY <1>1, WireStays DEF PacketsInv
<1> QED
  BY <1>2, <1>3, <1>4 DEF PacketsInv

(* ... and one in which a link header is freed.                            *)
LEMMA PacketsTorn ==
  ASSUME PacketsInv, NEW t \in Threads, Keeps(t),
         failed' \in Nat, failed' >= failed, UNCHANGED <<wire, stack>>,
         link'.valid /\ fw' # "down" => Good(link'.prefix, failed'),
         thr'[t].pc \notin {"store", "copy", "inject"}
  PROVE  PacketsInv'
<1>1. failed \in Nat
  BY DEF PacketsInv
<1>2. ASSUME NEW u \in Threads
      PROVE  ThreadOk(thr'[u], link'.prefix, fw', failed')
  <2>1. CASE u = t
    BY <2>1, NotInjecting
  <2>2. CASE u # t
    <3>1. ThreadOk(thr[u], link.prefix, fw, failed)
      BY DEF PacketsInv
    <3>2. /\ thr'[u].pc = thr[u].pc /\ thr'[u].prefix = thr[u].prefix
          /\ thr'[u].frame = thr[u].frame /\ thr'[u].packet = thr[u].packet
          /\ thr'[u].torn = IF thr[u].pc = "copy" THEN TRUE ELSE thr[u].torn
      BY <2>2 DEF Keeps
    <3> QED
      BY <1>1, <3>1, <3>2, TornOk
  <2> QED
    BY <2>1, <2>2
<1>3. PacketsAccounted'
  BY <1>1, WireStays DEF PacketsInv
<1> QED
  BY <1>2, <1>3 DEF PacketsInv

(* START and STOP are sequences of bytes.                                  *)
LEMMA StopFrameIs ==
  ASSUME rgd.component_id \in Ids
  PROVE  StopFrame \in Of(Int)
<1>1. PICK n : n = rgd.component_id
  OBVIOUS
<1>2. n \in Ids
  BY <1>1
<1>3. n \in Int /\ n >= 0 /\ n =< 65535
  BY <1>2, IdsAssumption
<1>4. PICK p : p = BuildTlvU16(0, n)
  OBVIOUS
<1>5. p \in Of(Int)
  BY <1>3, <1>4, NumberIs
<1>6. BuildFrame(RG_STOP, p) \in Of(Int)
  BY <1>5, FrameIs DEF RG_STOP
<1> QED
  BY <1>1, <1>4, <1>6 DEF StopFrame

LEMMA InjectsAFrame ==
  ASSUME ComponentInv
  PROVE  StartFrame \in Of(Int) /\ StopFrame \in Of(Int)
BY StartIs, StopFrameIs DEF ComponentInv

LEMMA PacketsKept == Shape /\ ComponentInv /\ PacketsInv /\ [Next]_vars => PacketsInv'
<1> SUFFICES ASSUME Shape, ComponentInv, PacketsInv, [Next]_vars PROVE PacketsInv'
  OBVIOUS
<1>0. ThreadsShape
  BY DEF Shape
<1>1. failed \in Nat /\ \A t \in Threads : ThreadOk(thr[t], link.prefix, fw, failed)
  BY DEF PacketsInv
<1>2. Fail => failed' \in Nat /\ failed' >= failed /\ failed' > 0
  BY <1>1 DEF Fail
<1>3. UNCHANGED failed => failed' \in Nat /\ failed' >= failed
  BY <1>1
<1>4. UNCHANGED stack => (stack'.phase = "encoded" => stack'.frame \in SentFrames)
  BY DEF PacketsInv
<1>5. ASSUME UNCHANGED <<thr, link, fw, wire>>, failed' \in Nat, failed' >= failed,
             stack'.phase = "encoded" => stack'.frame \in SentFrames
      PROVE  PacketsInv'
  <2>1. Others(Exit)
    BY <1>5 DEF Others
  <2>2. ThreadOk(thr'[Exit], link.prefix, fw', failed')
    BY <1>1, <1>5, OkLater, TheThreads
  <2> QED
    BY <1>5, <2>1, <2>2, PacketsStay, TheThreads
<1>6. ASSUME NEW t \in Threads, Others(t), UNCHANGED <<link, fw, wire>>,
             failed' \in Nat, failed' >= failed,
             stack'.phase = "encoded" => stack'.frame \in SentFrames,
             thr'[t].pc \notin {"store", "copy", "inject"}
      PROVE  PacketsInv'
  <2>1. ThreadOk(thr'[t], link.prefix, fw', failed')
    BY <1>6, NotInjecting
  <2> QED
    BY <1>6, <2>1, PacketsStay
<1>7. CASE Reinit
  <2>1. /\ UNCHANGED <<thr, stack, wire, failed>>
        /\ fw = "down" /\ ~link'.valid
    BY <1>7, ReinitIs
  <2>2. ASSUME NEW t \in Threads PROVE ThreadOk(thr'[t], link'.prefix, fw', failed')
    <3>1. ThreadOk(thr[t], link.prefix, "down", failed)
      BY <1>1, <2>1
    <3>2. ThreadOk(thr[t], link'.prefix, fw', failed)
      BY <3>1, DownOk
    <3> QED
      BY <2>1, <3>2
  <2>3. PacketsAccounted'
    BY <1>1, <1>3, <2>1, WireStays DEF PacketsInv
  <2> QED
    BY <1>1, <1>4, <2>1, <2>2, <2>3 DEF PacketsInv
<1>8. ASSUME NEW p \in Payloads, EncodePlain(p) PROVE PacketsInv'
  <2>1. /\ UNCHANGED <<thr, link, fw, wire, failed>>
        /\ Encoded(BuildFrame(IDENTIFY, p))
    BY <1>8 DEF EncodePlain
  <2>2. stack'.frame = BuildFrame(IDENTIFY, p)
    BY <2>1 DEF Encoded
  <2>3. stack'.frame \in SentFrames
    BY <2>2 DEF SentFrames, Identifies
  <2> QED
    BY <1>3, <1>5, <2>1, <2>3
<1>9. ASSUME NEW p \in Payloads, EncodePatched(p) PROVE PacketsInv'
  <2>1. UNCHANGED <<thr, link, fw, wire>> /\ (UNCHANGED failed \/ Fail)
    BY <1>9 DEF EncodePatched
  <2>2. /\ rgd'.component_id \in Ids
        /\ \/ stack'.frame = BuildFrame(IDENTIFY, p)
           \/ stack'.frame = PatchIdentify(BuildFrame(IDENTIFY, p), rgd'.component_id)
    BY <1>9, PatchedIs DEF ComponentInv
  <2>3. stack'.frame \in SentFrames
    BY <2>2 DEF SentFrames, Identifies
  <2> QED
    BY <1>2, <1>3, <1>5, <2>1, <2>3
<1>10. CASE Accept
  <2>1. UNCHANGED <<thr, link, fw, wire, failed>> /\ stack'.phase = "accepted"
    BY <1>10, AcceptIs
  <2> QED
    BY <1>3, <1>5, <2>1
<1>11. CASE IdentifyEnd
  <2>1. /\ UNCHANGED <<link, fw, wire, failed>> /\ Others(Decoder)
        /\ stack'.phase = "begin" /\ thr'[Decoder].pc \in {"clear", "idle"}
    BY <1>11, IdentifyEndIs
  <2> QED
    BY <1>3, <1>6, <2>1, TheThreads
<1>12. CASE AuthComplete \/ GuidanceBegins
  <2>1. UNCHANGED <<thr, link, fw, wire, failed, stack>>
    BY <1>12, AuthIs, GuidanceIs
  <2> QED
    BY <1>3, <1>4, <1>5, <2>1
<1>13. ASSUME NEW t \in Senders, NEW h \in Links, SendsFrame(t, h) PROVE PacketsInv'
  <2>1. PICK i, f :
          /\ Call(t, i, f, h)
          /\ \/ f = stack.frame /\ stack.phase = "encoded" /\ stack'.phase = "leaving"
             \/ f \in {LocationInfo, Unrelated} /\ UNCHANGED stack
    BY <1>13 DEF SendsFrame
  <2>2. /\ Others(t) /\ thr'[t].pc \in {"pass", "store"}
        /\ thr'[t].pc = "store" => thr'[t].prefix = Kept(Packet(h, f))
        /\ UNCHANGED <<link, fw, wire, failed>>
    BY <1>0, <2>1, CallIs
  <2>3. f \in SentFrames
    BY <2>1 DEF PacketsInv, SentFrames
  <2>4. thr'[t].pc = "store" => Good(thr'[t].prefix, 0)
    BY <2>2, <2>3 DEF Good
  <2>5. ThreadOk(thr'[t], link.prefix, fw', failed')
    BY <2>2, <2>4 DEF ThreadOk
  <2>6. stack'.phase = "encoded" => stack'.frame \in SentFrames
    BY <1>4, <2>1
  <2> QED
    BY <1>3, <2>2, <2>5, <2>6, PacketsStay, TheThreads
<1>14. ASSUME NEW t \in Senders, StoreContext(t) PROVE PacketsInv'
  <2>0. t \in Threads
    BY TheThreads
  <2>1. /\ Keeps(t) /\ thr[t].pc = "store" /\ thr'[t].pc \in {"notify", "pass"}
        /\ UNCHANGED <<wire, stack>>
        /\ \/ link' = [valid |-> TRUE, prefix |-> thr[t].prefix] /\ UNCHANGED failed
           \/ link' = [valid |-> TRUE, prefix |-> << >>] /\ Fail
    BY <1>0, <1>14, StoreIs
  <2>2. failed' \in Nat /\ failed' >= failed
    BY <1>2, <1>3, <2>1
  <2>3. Good(thr[t].prefix, 0)
    BY <1>1, <2>0, <2>1 DEF ThreadOk
  <2>4. Good(link'.prefix, failed')
    <3>1. CASE link' = [valid |-> TRUE, prefix |-> thr[t].prefix]
      <4>1. link'.prefix = thr[t].prefix
        BY <3>1
      <4>2. Good(thr[t].prefix, failed')
        BY <2>3 DEF Good
      <4> QED
        BY <4>1, <4>2
    <3>2. CASE link' = [valid |-> TRUE, prefix |-> << >>] /\ Fail
      BY <1>2, <3>2 DEF Good
    <3> QED
      BY <2>1, <3>1, <3>2
  <2> QED
    BY <2>0, <2>1, <2>2, <2>4, PacketsTorn
<1>15. ASSUME NEW t \in Senders, Notify(t) PROVE PacketsInv'
  <2>1. /\ Others(t) /\ thr'[t].pc \in {"ask", "pass"}
        /\ UNCHANGED <<link, fw, stack, wire, failed>>
    BY <1>0, <1>15, NotifyIs
  <2> QED
    BY <1>3, <1>4, <1>6, <2>1, TheThreads
<1>16. ASSUME NEW t \in Senders, Ask(t) PROVE PacketsInv'
  <2>1. /\ Others(t) /\ UNCHANGED <<link, fw, stack, wire, failed>>
        /\ \/ /\ CanInject
              /\ thr'[t].pc = "copy" /\ thr'[t].frame = StartFrame
           \/ thr'[t].pc = "pass"
    BY <1>0, <1>16, AskIs
  <2>2. CASE thr'[t].pc = "pass"
    BY <1>3, <1>4, <1>6, <2>1, <2>2, TheThreads
  <2>3. CASE CanInject /\ thr'[t].pc = "copy" /\ thr'[t].frame = StartFrame
    <3>1. fw # "down" /\ Good(link.prefix, failed)
      BY <2>3 DEF CanInject, PacketsInv
    <3>2. StartFrame \in Of(Int)
      BY InjectsAFrame
    <3>3. ThreadOk(thr'[t], link.prefix, fw', failed')
      BY <2>1, <2>3, <3>1, <3>2 DEF ThreadOk
    <3> QED
      BY <1>3, <1>4, <2>1, <3>3, PacketsStay, TheThreads
  <2> QED
    BY <2>1, <2>2, <2>3
<1>17. ASSUME NEW t \in Senders, Pass(t) PROVE PacketsInv'
  <2>1. Others(t) /\ thr'[t].pc = "idle" /\ UNCHANGED <<link, fw, wire, failed>>
    BY <1>0, <1>17, PassIs
  <2>2. UNCHANGED stack \/ stack' = [stack EXCEPT !.phase = "sent", !.frame = << >>]
    BY <1>0, <1>17, PassIs
  <2>3. stack'.phase = "encoded" => stack'.frame \in SentFrames
    BY <1>4, <2>2 DEF Shape
  <2> QED
    BY <1>3, <1>6, <2>1, <2>3, TheThreads
<1>18. ASSUME NEW t \in Threads, Copy(t) PROVE PacketsInv'
  <2>1. /\ UNCHANGED <<link, fw, stack, wire, failed>> /\ Others(t)
        /\ thr[t].pc = "copy" /\ thr'[t].pc = "inject"
        /\ thr'[t].frame = thr[t].frame /\ thr'[t].torn = thr[t].torn
        /\ thr'[t].packet = Wrapped(link.prefix, thr[t].frame)
    BY <1>0, <1>18, CopyIs
  <2>2. thr[t].frame \in Of(Int) /\ (thr[t].torn \/ Good(link.prefix, failed))
    BY <1>1, <2>1 DEF ThreadOk
  <2>3. Good(link.prefix, failed)
          => PacketOk(Wrapped(link.prefix, thr[t].frame), thr[t].frame, failed)
    BY <2>2, WrappedOk
  <2>4. ThreadOk(thr'[t], link.prefix, fw', failed')
    BY <2>1, <2>2, <2>3 DEF ThreadOk
  <2> QED
    BY <1>3, <1>4, <2>1, <2>4, PacketsStay
<1>19. ASSUME NEW t \in Threads, CopyFails(t) \/ Release(t) PROVE PacketsInv'
  <2>1. /\ Others(t) /\ UNCHANGED <<link, fw, stack, wire>>
        /\ thr'[t].pc = Leave(t) \/ thr'[t].pc = "note"
        /\ UNCHANGED failed \/ Fail
    BY <1>0, <1>19, CopyFailsIs, ReleaseIs
  <2>2. thr'[t].pc \notin {"store", "copy", "inject"}
    BY <2>1 DEF Leave
  <2> QED
    BY <1>2, <1>3, <1>4, <1>6, <2>1, <2>2
<1>20. ASSUME NEW t \in Threads, Note(t) PROVE PacketsInv'
  <2>1. /\ Others(t) /\ UNCHANGED <<link, fw, stack, wire, failed>>
        /\ thr'[t].pc = Leave(t) \/ thr'[t].pc \in {"note active", "note session"}
    BY <1>20, NoteIs
  <2>2. thr'[t].pc \notin {"store", "copy", "inject"}
    BY <2>1 DEF Leave
  <2> QED
    BY <1>3, <1>4, <1>6, <2>1, <2>2
<1>21. ASSUME NEW t \in Threads, Inject(t) PROVE PacketsInv'
  <2>1. /\ UNCHANGED <<link, fw, stack>> /\ Others(t) /\ thr[t].pc = "inject"
    BY <1>0, <1>21, InjectIs
  <2>2. \/ /\ thr'[t].pc = "sent"
           /\ \E w, b, n :
                wire' = [what |-> w, frame |-> thr[t].frame, bytes |-> thr[t].packet,
                         torn |-> thr[t].torn, stopped |-> b, owed |-> n]
           /\ UNCHANGED failed
        \/ thr'[t].pc = "unsent" /\ Fail /\ UNCHANGED wire
    BY <1>0, <1>21, InjectIs
  <2>3. CASE thr'[t].pc = "unsent" /\ Fail /\ UNCHANGED wire
    BY <1>2, <1>4, <1>6, <2>1, <2>3
  <2>4. CASE /\ thr'[t].pc = "sent"
             /\ \E w, b, n :
                  wire' = [what |-> w, frame |-> thr[t].frame, bytes |-> thr[t].packet,
                           torn |-> thr[t].torn, stopped |-> b, owed |-> n]
             /\ UNCHANGED failed
    <3>1. thr[t].torn \/ PacketOk(thr[t].packet, thr[t].frame, failed)
      BY <1>1, <2>1 DEF ThreadOk
    <3>2. /\ wire'.frame = thr[t].frame /\ wire'.bytes = thr[t].packet
          /\ wire'.torn = thr[t].torn
      BY <2>4
    <3>3. wire'.torn \/ PacketOk(wire'.bytes, wire'.frame, failed')
      BY <2>4, <3>1, <3>2
    <3>4. PacketsAccounted'
      BY <3>3 DEF PacketsAccounted, PacketOk
    <3>5. ASSUME NEW u \in Threads PROVE ThreadOk(thr'[u], link'.prefix, fw', failed')
      <4>1. CASE u = t
        BY <2>4, <4>1, NotInjecting
      <4>2. CASE u # t
        <5>1. PICK r : r = thr[u] /\ r = thr'[u]
          BY <2>1, <4>2 DEF Others
        <5>2. ThreadOk(r, link.prefix, fw, failed)
          BY <1>1, <5>1
        <5> QED
          BY <2>1, <2>4, <5>1, <5>2
      <4> QED
        BY <4>1, <4>2
    <3>6. link'.valid /\ fw' # "down" => Good(link'.prefix, failed')
      BY <2>1, <2>4 DEF PacketsInv
    <3> QED
      BY <1>3, <1>4, <2>1, <2>4, <3>4, <3>5, <3>6 DEF PacketsInv
  <2> QED
    BY <2>2, <2>3, <2>4
<1>22. CASE Shutdown \/ RgdShutdown
  <2>1. /\ Stop /\ UNCHANGED <<link, stack, wire, failed>>
        /\ fw' = "down" <=> fw = "down"
    BY <1>22 DEF Shutdown, RgdShutdown
  <2>2. /\ Others(Exit)
        /\ \/ thr'[Exit].pc = "clear"
           \/ CanInject /\ thr'[Exit].pc = "copy" /\ thr'[Exit].frame = StopFrame
    BY <1>0, <2>1, StopIs
  <2>3. ThreadOk(thr'[Exit], link.prefix, fw', failed')
    <3>1. CASE thr'[Exit].pc = "clear"
      BY <3>1, NotInjecting
    <3>2. CASE CanInject /\ thr'[Exit].pc = "copy" /\ thr'[Exit].frame = StopFrame
      <4>1. fw' # "down" /\ Good(link.prefix, failed)
        BY <2>1, <3>2 DEF CanInject, PacketsInv
      <4>2. StopFrame \in Of(Int)
        BY InjectsAFrame
      <4>3. Good(link.prefix, failed')
        BY <2>1, <4>1
      <4> QED
        BY <3>2, <4>1, <4>2, <4>3 DEF ThreadOk
    <3> QED
      BY <2>2, <3>1, <3>2
  <2> QED
    BY <1>3, <1>4, <2>1, <2>2, <2>3, PacketsStay, TheThreads
<1>23. CASE Unload
  <2>1. /\ Keeps(Exit) /\ thr'[Exit].pc = "idle" /\ fw' = "down"
        /\ UNCHANGED <<stack, wire, failed>>
    BY <1>0, <1>23, UnloadIs
  <2> QED
    BY <1>3, <2>1, PacketsTorn, TheThreads
<1>24. ASSUME NEW t \in {Exit, Decoder}, ClearState(t) PROVE PacketsInv'
  <2>1. /\ Others(t) /\ UNCHANGED <<link, fw, stack, wire, failed>>
        /\ thr'[t].pc \in Clears \/ thr'[t].pc = IF t = Exit THEN Cleared ELSE "idle"
    BY <1>24, ClearIs
  <2>2. thr'[t].pc \notin {"store", "copy", "inject"}
    BY <2>1 DEF Clears, Cleared
  <2> QED
    BY <1>3, <1>4, <1>6, <2>1, <2>2, TheThreads
<1>25. CASE UNCHANGED vars
  <2>1. UNCHANGED <<thr, link, fw, wire, failed, stack>>
    BY <1>25 DEF vars
  <2> QED
    BY <1>3, <1>4, <1>5, <2>1
<1> QED
  BY <1>7, <1>8, <1>9, <1>10, <1>11, <1>12, <1>13, <1>14, <1>15, <1>16, <1>17, <1>18, <1>19,
     <1>20, <1>21, <1>22, <1>23, <1>24, <1>25, SendsIs DEF Next, Sending, Injecting

-----------------------------------------------------------------------------
(* The theorems of the session.                                            *)

SessionInv == Shape /\ StackInv /\ ComponentInv /\ StopInv /\ CountInv /\ PacketsInv

LEMMA SessionInvHolds == Spec => []SessionInv
<1>1. Init => SessionInv
  BY InitShape, InitStack, InitComponent, InitCount, InitPackets DEF SessionInv
<1>2. SessionInv /\ [Next]_vars => SessionInv'
  BY ShapeKept, StackKept, ComponentKept, StopKept, CountKept, PacketsKept DEF SessionInv
<1> QED
  BY <1>1, <1>2, PTL DEF Spec

(* Only an injection changes what went out.                                *)
LEMMA WireMoves ==
  ASSUME Shape, [Next]_vars, wire' # wire
  PROVE  \E t \in Threads : Inject(t)
<1> SUFFICES ASSUME \A t \in Threads : ~Inject(t) PROVE FALSE
  OBVIOUS
<1>0. ThreadsShape
  BY DEF Shape
<1>1. CASE Reinit \/ Accept \/ IdentifyEnd \/ AuthComplete \/ GuidanceBegins
  BY <1>1, ReinitIs, AcceptIs, IdentifyEndIs, AuthIs, GuidanceIs
<1>2. ASSUME NEW p \in Payloads, EncodePlain(p) \/ EncodePatched(p) PROVE FALSE
  BY <1>2, EncodeIs
<1>3. ASSUME NEW t \in Senders, NEW h, SendsFrame(t, h) PROVE FALSE
  BY <1>0, <1>3, CallIs DEF SendsFrame
<1>4. ASSUME NEW t \in Senders, Sending(t) PROVE FALSE
  BY <1>0, <1>4, StoreIs, NotifyIs, AskIs, PassIs DEF Sending
<1>5. ASSUME NEW t \in Threads, Copy(t) \/ CopyFails(t) \/ Release(t) \/ Note(t) PROVE FALSE
  BY <1>0, <1>5, CopyIs, CopyFailsIs, ReleaseIs, NoteIs
<1>6. CASE Shutdown \/ RgdShutdown
  BY <1>6 DEF Shutdown, RgdShutdown
<1>7. CASE Unload
  BY <1>0, <1>7, UnloadIs
<1>8. ASSUME NEW t \in {Exit, Decoder}, ClearState(t) PROVE FALSE
  BY <1>8, ClearIs
<1>9. CASE UNCHANGED vars
  BY <1>9 DEF vars
<1> QED
  BY <1>1, <1>2, <1>3, <1>4, <1>5, <1>6, <1>7, <1>8, <1>9, SendsIs DEF Next, Injecting

LEMMA StartIsAnnounced ==
  ASSUME Shape, StackInv, ComponentInv, [Next]_vars, wire' # wire, wire'.what = "start"
  PROVE  phone.accepted /\ U16(wire'.frame, 10) = phone.component
<1>1. PICK t \in Threads : Inject(t)
  BY WireMoves
<1>2. /\ thr[t].pc = "inject"
      /\ wire'.what = (IF t = Exit THEN "stop" ELSE "start") /\ wire'.frame = thr[t].frame
  <2>1. /\ thr[t].pc = "inject"
        /\ \/ \E b, n :
                wire' = [what |-> IF t = Exit THEN "stop" ELSE "start", frame |-> thr[t].frame,
                         bytes |-> thr[t].packet, torn |-> thr[t].torn,
                         stopped |-> b, owed |-> n]
           \/ UNCHANGED wire
    BY <1>1, InjectIs DEF Shape
  <2> QED
    BY <2>1
<1>3. t # Exit
  BY <1>2
<1>4. t \in Senders
  <2>1. t # Decoder
    BY <1>2, NotDecoder DEF Clears
  <2> QED
    BY <1>3, <2>1, TheThreads
<1>5. stack.phase = "accepted"
  BY <1>2 DEF StackInv, Begun, InFlight
<1> QED
  BY <1>2, <1>4, <1>5 DEF StackInv, ComponentInv

(* Only Ask begins a START, and only for a component that is valid.        *)
LEMMA StartIsBegun ==
  ASSUME Shape, StackInv, StopInv, [Next]_vars, NEW s \in Senders, thr[s].pc # "copy", thr'[s].pc = "copy"
  PROVE  ~wire.stopped \/ Stopping
<1>0. ThreadsShape /\ s \in Threads /\ s # Exit /\ s # Decoder
  BY TheThreads DEF Shape
<1>1. ASSUME rgd.component_valid PROVE ~wire.stopped \/ Stopping
  BY <1>1 DEF StopInv
<1>2. ASSUME NEW t \in Threads, OthersStay(t), thr'[t].pc # "copy" \/ t = Exit PROVE FALSE
  BY <1>0, <1>2 DEF OthersStay
<1>3. CASE Reinit \/ Accept \/ AuthComplete \/ GuidanceBegins
  BY <1>3, ReinitIs, AcceptIs, AuthIs, GuidanceIs
<1>4. ASSUME NEW p \in Payloads, EncodePlain(p) \/ EncodePatched(p) PROVE FALSE
  BY <1>4, EncodeIs
<1>5. CASE IdentifyEnd
  <2>1. Others(Decoder) /\ thr'[Decoder].pc # "copy"
    BY <1>5, IdentifyEndIs
  <2> QED
    BY <1>2, <2>1, TheyStay, TheThreads
<1>6. ASSUME NEW t \in Senders, NEW h, SendsFrame(t, h) PROVE FALSE
  <2>1. Others(t) /\ thr'[t].pc # "copy"
    BY <1>0, <1>6, CallIs DEF SendsFrame
  <2> QED
    BY <1>2, <2>1, TheyStay, TheThreads
<1>7. ASSUME NEW t \in Senders, StoreContext(t) \/ Notify(t) \/ Pass(t) PROVE FALSE
  <2>1. (Others(t) \/ Keeps(t)) /\ thr'[t].pc # "copy"
    BY <1>0, <1>7, StoreIs, NotifyIs, PassIs
  <2> QED
    BY <1>2, <2>1, TheyStay, TheThreads
<1>8. ASSUME NEW t \in Senders, Ask(t) PROVE rgd.component_valid
  <2>1. Others(t) /\ (rgd.component_valid \/ thr'[t].pc # "copy")
    BY <1>0, <1>8, AskIs
  <2> QED
    BY <1>2, <2>1, TheyStay, TheThreads
<1>9. ASSUME NEW t \in Threads, Injecting(t) PROVE FALSE
  <2>1. /\ Others(t)
        /\ \/ thr'[t].pc \in {"inject", "sent", "unsent", "note", "note active", "note session"}
           \/ thr'[t].pc = Leave(t)
    BY <1>0, <1>9, CopyIs, CopyFailsIs, InjectIs, ReleaseIs, NoteIs DEF Injecting
  <2>2. thr'[t].pc # "copy"
    BY <2>1 DEF Leave
  <2> QED
    BY <1>2, <2>1, <2>2, TheyStay
<1>10. CASE Shutdown \/ RgdShutdown
  <2>1. Others(Exit)
    BY <1>0, <1>10, StopIs DEF Shutdown, RgdShutdown
  <2> QED
    BY <1>2, <2>1, TheyStay, TheThreads
<1>11. CASE Unload
  BY <1>0, <1>2, <1>11, UnloadIs, TheyStay, TheThreads
<1>12. ASSUME NEW t \in {Exit, Decoder}, ClearState(t) PROVE FALSE
  <2>1. Others(t)
    BY <1>12, ClearIs
  <2> QED
    BY <1>0, <2>1 DEF Others
<1>13. CASE UNCHANGED vars
  BY <1>13 DEF vars
<1> QED
  BY <1>1, <1>3, <1>4, <1>5, <1>6, <1>7, <1>8, <1>9, <1>10, <1>11, <1>12, <1>13, SendsIs
  DEF Next, Sending

(* Whatever threads send and whenever the process ends: START goes out     *)
(* only for the component of an identification that the phone accepted     *)
(* (rgd_transport_handler), no STOP without a START of its own             *)
(* (rgd_stop_updates), and no START is begun once the destructor that sent *)
(* the STOP has cleared component_valid (rgd_clear_state).                 *)
THEOREM SubscriptionIsOrderly == Spec => OrderlySubscription
<1>1. SessionInv /\ [Next]_vars
        => [wire'.what = "start" => phone.accepted /\ U16(wire'.frame, 10) = phone.component]_wire
  BY StartIsAnnounced DEF SessionInv
<1>2. SessionInv /\ [Next]_vars
        => [\A t \in Senders : thr[t].pc # "copy" /\ thr'[t].pc = "copy"
               => ~wire.stopped \/ Stopping]_thr
  BY StartIsBegun DEF SessionInv
<1>3. SessionInv => StopsAnswerStarts
  <2> SUFFICES ASSUME CountInv PROVE wire.owed >= 0
    BY DEF SessionInv, StopsAnswerStarts
  <2>1. PICK n \in Nat, m \in {0, 1} : n = Cardinality(Unnoted) /\ m = Noted
    BY Unnoteds
  <2>2. wire.owed \in Int /\ wire.owed >= n + m
    BY <2>1 DEF CountInv
  <2> QED
    BY <2>1, <2>2
<1> QED
  BY <1>1, <1>2, <1>3, SessionInvHolds, PTL
  DEF Spec, OrderlySubscription, StartAnnounced, StopIsFinal

(* Whatever threads send and whatever fails, what hook_inject_frame() puts *)
(* around a frame is what the transport would have put around it, but for  *)
(* the cases PacketsAccounted names.                                       *)
THEOREM PacketsAreAccounted == Spec => []PacketsAccounted
<1>1. SessionInv => PacketsAccounted
  BY DEF SessionInv, PacketsInv
<1> QED
  BY <1>1, SessionInvHolds, PTL

=============================================================================
