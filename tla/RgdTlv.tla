------------------------------ MODULE RgdTlv ------------------------------
(***************************************************************************)
(* rgd_tlv.c: the three parsers of route guidance messages, rgd_parse_     *)
(* update() (0x5201), rgd_parse_maneuver() (0x5202) and                    *)
(* rgd_parse_lane_guidance() (0x5204).  Each walks the TLVs of a message   *)
(* once and writes what it meets into a structure; for LaneInformations    *)
(* a second walk goes over the TLVs inside.  One step is one TLV.          *)
(*                                                                         *)
(* A TLV is [id, val, ok]: its id is the name of the field it fills, val   *)
(* its bytes (for "lanes" the TLVs inside), and ok is FALSE if its length  *)
(* is below 4 or goes past the end.  A number is kept as its bytes, a text *)
(* as the bytes that fit: neither the newlines of a text (replacing them   *)
(* also cuts a long text a little shorter) nor what follows a NUL is told  *)
(* apart.  The result `out' is a function whose domain is the set of       *)
(* fields whose `present' bit is set.                                      *)
(***************************************************************************)
EXTENDS Integers, Sequences

CONSTANTS
  Messages,          \* the messages considered: [kind, tlvs]
  MaxComponentList, MaxManeuverList, MaxLaneGuidance, MaxLaneAngles,
  LongText, ShortText  \* characters of a text[256] and of a text[64]

ASSUME TlvAssumption ==
  /\ MaxComponentList \in Nat /\ MaxManeuverList \in Nat
  /\ MaxLaneGuidance \in Nat \ {0} /\ MaxLaneAngles \in Nat
  /\ LongText \in Nat /\ ShortText \in Nat

Byte == 0..255
InnerTlv == [id : STRING, val : Seq(Byte), ok : BOOLEAN]

IsMessage(m) ==
  /\ m.kind \in {"update", "maneuver", "lane"}
  /\ Len(m.tlvs) \in Nat
  /\ \A i \in 1..Len(m.tlvs) :
       IF m.kind = "lane" /\ m.tlvs[i].id = "lanes"
       THEN m.tlvs[i].val \in Seq(InnerTlv) ELSE m.tlvs[i].val \in Seq(Byte)

ASSUME MessagesAssumption == \A m \in Messages : IsMessage(m)

VARIABLES
  msg,        \* the message being parsed
  walk,       \* "tlv", "lane" (inside LaneInformations) or "done"
  pos,        \* the TLV off points to
  out,        \* what has been parsed
  sub,        \* inside LaneInformations: the TLV off points to
  lanes,      \* out_lanes[] of this LaneInformations; the last one is lane_idx
  highlight   \* lane_has_highlight

parserVars == <<msg, walk, pos, out, sub, lanes, highlight>>

(* The TLVs read as a number, with the bytes they must have.               *)
NumberFields ==
  [update |->
     [route_state |-> 1, maneuver_state |-> 1, eta |-> 8, time_remaining |-> 8,
      distance_remaining |-> 4, distance_units |-> 1, dist_to_maneuver |-> 4,
      dist_to_maneuver_units |-> 1, maneuver_count |-> 2, visible_in_app |-> 1,
      lane_guidance_index |-> 2, lane_guidance_total |-> 2,
      lane_guidance_showing |-> 1, source_supports_route_guidance |-> 1],
   maneuver |->
     [index |-> 2, maneuver_type |-> 1, distance_between |-> 4,
      distance_units |-> 1, driving_side |-> 1, junction_type |-> 1,
      exit_angle |-> 2],
   lane |-> [lane_guidance_index |-> 1]]

(* The texts, with the characters they have room for.                      *)
TextFields ==
  [update |->
     [current_road |-> LongText, destination |-> LongText,
      distance_string |-> ShortText, dist_to_maneuver_string |-> ShortText,
      source_name |-> ShortText],
   maneuver |->
     [description |-> LongText, after_road_name |-> LongText,
      distance_string |-> ShortText],
   lane |-> [lane_guidance_description |-> ShortText]]

(* Lists a TLV replaces, and lists to which each TLV adds, with the room   *)
(* of their arrays.                                                        *)
ListFields ==
  [update |-> [component_ids |-> MaxComponentList, maneuver_list |-> MaxManeuverList],
   maneuver |-> [component_ids |-> MaxComponentList],
   lane |-> << >>]

GrowingFields ==
  [update |-> << >>,
   maneuver |-> [junction_angles |-> MaxManeuverList],
   lane |-> [component_ids |-> MaxComponentList]]

Least(m, n) == IF m < n THEN m ELSE n
Cut(s, n) == SubSeq(s, 1, Least(Len(s), n))

(* read_be16() and the cast to int16_t.                                    *)
Word(val, i) == 256 * val[i] + val[i + 1]
Int16(n) == IF n >= 32768 THEN n - 65536 ELSE n

(* The words of a list; an odd byte at the end is dropped, or, in the      *)
(* lists of 0x5204, an element of its own.                                 *)
Words(val) == [i \in 1..(Len(val) \div 2) |-> Word(val, 2 * i - 1)]
Tail1(val) == IF Len(val) % 2 = 1 THEN <<val[Len(val)]>> ELSE << >>
Angles(val) == [i \in 1..(Len(val) \div 2) |-> Int16(Word(val, 2 * i - 1))] \o Tail1(val)

Elements(kind, id, val) ==
  CASE id = "junction_angles" -> [i \in 1..(Len(val) \div 2) |-> Int16(Word(val, 2 * i - 1))]
    [] kind = "lane" -> Words(val) \o Tail1(val)
    [] OTHER -> Words(val)

(* A field written and its present bit set.                                *)
Put(o, f, v) == [g \in DOMAIN o \cup {f} |-> IF g = f THEN v ELSE o[g]]
Get(o, f) == IF f \in DOMAIN o THEN o[f] ELSE << >>

NoAngle == 1000   \* the direction of a lane reset

(* rgd_lane_reset().                                                       *)
NewLane(position) == [position |-> position, direction |-> NoAngle, status |-> 0, angles |-> << >>]

----------------------------------------------------------------------------

ParserInit ==
  /\ msg \in Messages
  /\ walk = "tlv" /\ pos = 1
  /\ out = << >>
  /\ sub = 1 /\ lanes = << >> /\ highlight = FALSE

(* The TLV at off, if it is whole; the walk ends where there is none.      *)
AtTlv == walk = "tlv" /\ pos <= Len(msg.tlvs) /\ msg.tlvs[pos].ok
tlv == msg.tlvs[pos]

Store(o) ==
  /\ out' = o
  /\ pos' = pos + 1
  /\ UNCHANGED <<msg, walk, sub, lanes, highlight>>

(* A number: too short a TLV leaves the field as it was.  0x5204 takes an  *)
(* index of one byte or of two.                                            *)
ReadNumber ==
  /\ AtTlv
  /\ tlv.id \in DOMAIN NumberFields[msg.kind]
  /\ LET need == NumberFields[msg.kind][tlv.id]
         wide == IF msg.kind = "lane" THEN 2 ELSE need
     IN  Store(IF Len(tlv.val) >= need THEN Put(out, tlv.id, Cut(tlv.val, wide)) ELSE out)

ReadText ==
  /\ AtTlv
  /\ tlv.id \in DOMAIN TextFields[msg.kind]
  /\ Store(Put(out, tlv.id, Cut(tlv.val, TextFields[msg.kind][tlv.id])))

ReadList ==
  /\ AtTlv
  /\ tlv.id \in DOMAIN ListFields[msg.kind]
  /\ Store(Put(out, tlv.id,
               Cut(Elements(msg.kind, tlv.id, tlv.val), ListFields[msg.kind][tlv.id])))

ReadMore_Resets ==
  /\ AtTlv
  /\ tlv.id \in DOMAIN GrowingFields[msg.kind]
  /\ Store(Put(out, tlv.id,
               Cut(Elements(msg.kind, tlv.id, tlv.val), GrowingFields[msg.kind][tlv.id])))

ReadMore_NoRoom ==
  /\ AtTlv
  /\ tlv.id \in DOMAIN GrowingFields[msg.kind]
  /\ Store(Put(out, tlv.id, Get(out, tlv.id) \o Elements(msg.kind, tlv.id, tlv.val)))

ReadMore ==
  /\ AtTlv
  /\ tlv.id \in DOMAIN GrowingFields[msg.kind]
  /\ Store(Put(out, tlv.id,
               Cut(Get(out, tlv.id) \o Elements(msg.kind, tlv.id, tlv.val),
                   GrowingFields[msg.kind][tlv.id])))

(* The linked lane of a maneuver: its length is always kept, its index     *)
(* only if there is a whole one (decode_linked_lane_index()).              *)
ReadLinkedLane ==
  /\ AtTlv
  /\ msg.kind = "maneuver" /\ tlv.id = "linked_lane"
  /\ LET o == Put(out, "lane_guidance_raw_len", Len(tlv.val))
     IN  Store(IF Len(tlv.val) >= 2
               THEN Put(o, "linked_lane_guidance_index", Cut(tlv.val, 2)) ELSE o)

ReadExitInfo ==
  /\ AtTlv
  /\ msg.kind = "maneuver" /\ tlv.id = "exit_info"
  /\ Store(Put(Put(out, "exit_info_raw_len", Len(tlv.val)),
               "exit_info_str", Cut(tlv.val, LongText)))

(* LaneInformations: present whatever it holds; the lanes are read only    *)
(* while there is room for one.                                            *)
ReadLanes ==
  /\ AtTlv
  /\ msg.kind = "lane" /\ tlv.id = "lanes"
  /\ out' = Put(out, "lanes", Get(out, "lanes"))
  /\ IF tlv.val # << >> /\ Len(Get(out, "lanes")) < MaxLaneGuidance
     THEN walk' = "lane" /\ pos' = pos /\ sub' = 1 /\ lanes' = << >> /\ highlight' = FALSE
     ELSE pos' = pos + 1 /\ UNCHANGED <<walk, sub, lanes, highlight>>
  /\ UNCHANGED msg

(* Known ids without a consumer and unknown ones.                          *)
SkipTlv ==
  /\ AtTlv
  /\ tlv.id = "unknown"
  /\ Store(out)

(* The end of the message or of what is whole of it.  A maneuver with an   *)
(* index and without an exit angle gets the native default.                *)
Finish ==
  /\ walk = "tlv"
  /\ ~AtTlv
  /\ walk' = "done"
  /\ out' = IF msg.kind = "maneuver" /\ "index" \in DOMAIN out /\ "exit_angle" \notin DOMAIN out
            THEN Put(out, "exit_angle", <<3, 232>>) ELSE out
  /\ UNCHANGED <<msg, pos, sub, lanes, highlight>>

----------------------------------------------------------------------------
(* rgd_parse_lane_information_value(): the walk inside LaneInformations.   *)

out_max == MaxLaneGuidance - Len(out["lanes"])
AtSub == walk = "lane" /\ sub <= Len(tlv.val) /\ tlv.val[sub].ok
info == tlv.val[sub]

(* The lane that a status, angles or a highlight belong to: the last one   *)
(* opened, or one opened for them if they come before any index.           *)
Opened == IF lanes = << >> THEN <<NewLane(0)>> ELSE lanes
lane_idx == Len(Opened)
Current == Opened[lane_idx]

NextSub == sub' = sub + 1 /\ UNCHANGED <<msg, walk, pos, out>>

(* An index opens a lane; without a number its position is its place.      *)
OpenLane ==
  /\ AtSub
  /\ info.id = "index"
  /\ Len(lanes) < out_max
  /\ lanes' = Append(lanes, NewLane(CASE Len(info.val) >= 2 -> Word(info.val, 1)
                                      [] Len(info.val) = 1 -> info.val[1]
                                      [] OTHER -> Len(lanes)))
  /\ highlight' = FALSE
  /\ NextSub

ReadStatus ==
  /\ AtSub
  /\ info.id = "status"
  /\ lanes' = IF Len(info.val) >= 1
              THEN [Opened EXCEPT ![lane_idx].status = info.val[1]] ELSE Opened
  /\ UNCHANGED highlight
  /\ NextSub

(* Angles are kept while there is room.  The first of them is the          *)
(* direction as long as there is no highlight and it is still unset, which *)
(* an angle of 1000 does not change.                                       *)
WithAngles(lane, added) ==
  LET real == {i \in 1..Len(added) : added[i] # NoAngle}
      first == CHOOSE i \in real : \A j \in real : i <= j
  IN  [lane EXCEPT !.angles = lane.angles \o added,
                   !.direction = IF ~highlight /\ lane.direction = NoAngle /\ real # {}
                                 THEN added[first] ELSE lane.direction]

ReadAngles ==
  /\ AtSub
  /\ info.id = "angles"
  /\ lanes' = [Opened EXCEPT ![lane_idx] =
                 WithAngles(Current, Cut(Angles(info.val), MaxLaneAngles - Len(Current.angles)))]
  /\ UNCHANGED highlight
  /\ NextSub

ReadHighlight ==
  /\ AtSub
  /\ info.id = "highlight"
  /\ IF Len(info.val) >= 1
     THEN /\ lanes' = [Opened EXCEPT ![lane_idx].direction =
                         IF Len(info.val) >= 2 THEN Int16(Word(info.val, 1)) ELSE info.val[1]]
          /\ highlight' = TRUE
     ELSE lanes' = Opened /\ UNCHANGED highlight
  /\ NextSub

SkipSub ==
  /\ AtSub
  /\ info.id = "unknown"
  /\ UNCHANGED <<lanes, highlight>>
  /\ NextSub

(* The end of the value, a broken TLV, or an index with no room left: the  *)
(* lanes read go behind those of earlier TLVs.                             *)
EndLanes ==
  /\ walk = "lane"
  /\ AtSub => info.id = "index" /\ Len(lanes) >= out_max
  /\ out' = Put(out, "lanes", out["lanes"] \o lanes)
  /\ walk' = "tlv" /\ pos' = pos + 1
  /\ UNCHANGED <<msg, sub, lanes, highlight>>

ParserNext ==
  \/ ReadNumber \/ ReadText \/ ReadList \/ ReadMore
  \/ ReadLinkedLane \/ ReadExitInfo \/ ReadLanes \/ SkipTlv \/ Finish
  \/ OpenLane \/ ReadStatus \/ ReadAngles \/ ReadHighlight \/ SkipSub \/ EndLanes

ParserSpec == ParserInit /\ [][ParserNext]_parserVars /\ WF_parserVars(ParserNext)

----------------------------------------------------------------------------

(* The arrays of the structures hold what is written into them: the lists  *)
(* of components, maneuvers, junction angles, lanes and angles of a lane   *)
(* never get longer than MAX_COMPONENT_LIST and so on (rgd_tlv.h:209-212), *)
(* whatever the phone sends, also while two lists of lanes are joined.     *)
Room == [component_ids |-> MaxComponentList, maneuver_list |-> MaxManeuverList,
         junction_angles |-> MaxManeuverList, lanes |-> MaxLaneGuidance]

AnglesFit(ls) == \A i \in 1..Len(ls) : Len(ls[i].angles) <= MaxLaneAngles

ArraysHold ==
  /\ \A f \in DOMAIN out \cap DOMAIN Room : Len(out[f]) <= Room[f]
  /\ "lanes" \in DOMAIN out => AnglesFit(out["lanes"])
  /\ walk = "lane" => Len(out["lanes"]) + Len(lanes) <= MaxLaneGuidance
  /\ AnglesFit(lanes)

============================================================================
