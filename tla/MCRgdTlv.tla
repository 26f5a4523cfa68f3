----------------------------- MODULE MCRgdTlv -----------------------------
(***************************************************************************)
(* For TLC: the parser with the messages of one run, and the session with  *)
(* the phone they come from.  The two share no state here: a behaviour     *)
(* takes the steps of one of them, so the reachable states are those of    *)
(* each.  What a message means is a definition that looks at all its TLVs  *)
(* at once instead of walking them.                                        *)
(***************************************************************************)
EXTENDS RgdTlv, IapSession, SequencesExt

T(id, val) == [id |-> id, val |-> val, ok |-> TRUE]
Broken == [id |-> "unknown", val |-> << >>, ok |-> FALSE]
Nothing == T("unknown", << >>)

SeqsUpTo(S, n) == UNION {[1..k -> S] : k \in 0..n}

(* Numbers long enough and too short, texts and lists that fit or not.     *)
UpdateTlvs ==
  {T("route_state", <<1>>), T("route_state", <<0, 5>>), T("route_state", << >>),
   T("distance_remaining", <<0, 0, 1, 2>>), T("distance_remaining", <<1, 2, 3>>),
   T("lane_guidance_index", <<0, 7>>), T("lane_guidance_index", <<7>>),
   T("current_road", <<65, 66, 67, 68>>), T("current_road", << >>),
   T("maneuver_list", <<0, 1, 0, 2, 0, 3, 0, 4>>), T("maneuver_list", <<0, 9, 1>>),
   T("component_ids", <<0, 16>>), Nothing, Broken}

ManeuverTlvs ==
  {T("index", <<0, 2>>), T("index", <<2>>), T("exit_angle", <<255, 166>>),
   T("exit_angle", <<90>>), T("junction_angles", <<0, 90>>),
   T("junction_angles", <<255, 166, 0, 1, 7>>), T("junction_angles", << >>),
   T("linked_lane", <<0, 3>>), T("linked_lane", <<3>>), T("exit_info", <<65, 66>>),
   T("maneuver_type", <<4, 4>>), T("distance_string", <<49, 48, 48>>), Nothing, Broken}

LaneSubs ==
  {T("index", <<0, 4>>), T("index", <<5>>), T("index", << >>),
   T("status", <<2>>), T("angles", <<0, 90, 45>>), T("angles", <<3, 232, 255, 166>>),
   T("highlight", <<0, 30>>), T("highlight", << >>), Nothing, Broken}

LaneTlvs(n) ==
  {T("lanes", v) : v \in SeqsUpTo(LaneSubs, n)} \cup
  {T("lane_guidance_index", <<6>>), T("lane_guidance_index", <<0, 6>>),
   T("component_ids", <<0, 16, 17>>), T("lane_guidance_description", <<65>>), Nothing, Broken}

Of(kind, S) == {[kind |-> kind, tlvs |-> t] : t \in S}

(* Up to three TLVs; LaneInformations up to four deep, or two of them with *)
(* up to two each, so that the second does not find room for its lanes.    *)
MCMessages ==
  Of("update", SeqsUpTo(UpdateTlvs, 3)) \cup Of("maneuver", SeqsUpTo(ManeuverTlvs, 3)) \cup
  Of("lane", SeqsUpTo(LaneTlvs(4), 1)) \cup Of("lane", SeqsUpTo(LaneTlvs(1), 3)) \cup
  Of("lane", {<<a, b>> : a, b \in LaneTlvs(2)})

----------------------------------------------------------------------------

(* The TLVs of a message, or of a value, up to the first broken one.       *)
Whole(tlvs) ==
  LET bad == {i \in 1..Len(tlvs) : ~tlvs[i].ok}
  IN  IF bad = {} THEN tlvs
      ELSE SubSeq(tlvs, 1, (CHOOSE i \in bad : \A j \in bad : i <= j) - 1)

(* The last TLV of a name with at least so many bytes, if there is one.    *)
Given(tlvs, id, need) == {i \in 1..Len(tlvs) : tlvs[i].id = id /\ Len(tlvs[i].val) >= need}
Last1(tlvs, id, need) ==
  tlvs[CHOOSE i \in Given(tlvs, id, need) : \A j \in Given(tlvs, id, need) : j <= i].val

AllOf(tlvs, id) == FlattenSeq([i \in 1..Len(tlvs) |-> IF tlvs[i].id = id THEN <<tlvs[i].val>> ELSE << >>])

(* The lanes of one LaneInformations: groups that begin at each index, and *)
(* one before the first index if a status, angles or a highlight is there. *)
LaneGroups(val) ==
  LET t == Whole(val)
      n == Len(t)
      starts == {i \in 1..n : t[i].id = "index"}
      head == {i \in 1..n : t[i].id \in {"status", "angles", "highlight"}
                            /\ \A s \in starts : i < s}
      begins == SetToSortSeq(starts \cup (IF head = {} THEN {} ELSE {1}), <)
      end(k) == IF k < Len(begins) THEN begins[k + 1] - 1 ELSE n
  IN  [k \in 1..Len(begins) |-> SubSeq(t, begins[k], end(k))]

LaneOf(group, place) ==
  LET angles == Cut(FlattenSeq([i \in 1..Len(AllOf(group, "angles")) |-> Angles(AllOf(group, "angles")[i])]),
                    MaxLaneAngles)
      set == SelectSeq(angles, LAMBDA a : a # NoAngle)
      at == AllOf(group, "index")
  IN  [position |-> IF at = << >> \/ at[1] = << >> THEN place - 1
                    ELSE IF Len(at[1]) = 1 THEN at[1][1] ELSE Word(at[1], 1),
       angles |-> angles,
       status |-> IF Given(group, "status", 1) = {} THEN 0 ELSE Last1(group, "status", 1)[1],
       direction |-> IF Given(group, "highlight", 1) # {}
                     THEN Angles(Cut(Last1(group, "highlight", 1), 2))[1]
                     ELSE IF set = << >> THEN NoAngle ELSE set[1]]

LanesMeant(val) ==
  [k \in 1..Len(LaneGroups(val)) |-> LaneOf(LaneGroups(val)[k], k)]

Fields(kind) ==
  UNION {DOMAIN NumberFields[kind], DOMAIN TextFields[kind], DOMAIN ListFields[kind],
         DOMAIN GrowingFields[kind]}
  \cup (CASE kind = "maneuver" -> {"lane_guidance_raw_len", "linked_lane_guidance_index",
                                   "exit_info_raw_len", "exit_info_str"}
          [] kind = "lane" -> {"lanes"}
          [] OTHER -> {})

(* The TLV a field is taken from.                                          *)
From(f) ==
  CASE f \in {"lane_guidance_raw_len", "linked_lane_guidance_index"} -> "linked_lane"
    [] f \in {"exit_info_raw_len", "exit_info_str"} -> "exit_info"
    [] OTHER -> f

Need(kind, f) ==
  IF f \in DOMAIN NumberFields[kind] THEN NumberFields[kind][f]
  ELSE IF f = "linked_lane_guidance_index" THEN 2 ELSE 0

(* What a field holds when a TLV for it is there.                          *)
Value(kind, tlvs, f) ==
  LET all == AllOf(tlvs, From(f))
      val == Last1(tlvs, From(f), Need(kind, f))
      joined(E(_)) == FlattenSeq([i \in 1..Len(all) |-> E(all[i])])
      words(v) == Elements(kind, f, v)
  IN  CASE f \in {"lane_guidance_raw_len", "exit_info_raw_len"} -> Len(val)
        [] f = "linked_lane_guidance_index" -> Cut(val, 2)
        [] f = "exit_info_str" -> Cut(val, LongText)
        [] f = "lanes" -> Cut(joined(LanesMeant), MaxLaneGuidance)
        [] f \in DOMAIN NumberFields[kind] ->
             Cut(val, IF kind = "lane" THEN 2 ELSE NumberFields[kind][f])
        [] f \in DOMAIN TextFields[kind] -> Cut(val, TextFields[kind][f])
        [] f \in DOMAIN ListFields[kind] -> Cut(words(val), ListFields[kind][f])
        [] f \in DOMAIN GrowingFields[kind] -> Cut(joined(words), GrowingFields[kind][f])

Meaning(m) ==
  LET t == Whole(m.tlvs)
      there == {f \in Fields(m.kind) : Given(t, From(f), Need(m.kind, f)) # {}}
      o == [f \in there |-> Value(m.kind, t, f)]
  IN  IF m.kind = "maneuver" /\ "index" \in there /\ "exit_angle" \notin there
      THEN Put(o, "exit_angle", <<3, 232>>) ELSE o

(* A parsed message is what it means: of a number the last TLV that is     *)
(* long enough, of a text and of a list of 0x5201 the last one, of the     *)
(* junction angles, the components and the lanes of 0x5204 all of them as  *)
(* far as there is room; of each lane its own status, angles and highlight *)
(* and never a neighbour's, the highlight before the angles in whatever    *)
(* order they come; and nothing behind the first broken TLV                *)
(* (rgd_tlv.c:225-640).                                                    *)
ParsedIsMeaning == walk = "done" => out = Meaning(msg)

----------------------------------------------------------------------------

(* The link header of a packet but for its checksum; and what the stack    *)
(* identifies, with or without a component of its own.                     *)
OneLink == {<<255, 90, 0, 9, 64, 200, 3, 10>>}
MCPayloads ==
  {BuildTlv(0, <<77>>), BuildTlv(COMPONENT, BuildTlvU16(0, 7))}

VARIABLE who  \* whose steps this behaviour takes

MCVars == <<parserVars, vars, who>>

MCInit ==
  /\ ParserInit /\ Init
  /\ who \in {"parser", "session"}
  /\ who = "session" => msg.kind = "lane" /\ msg.tlvs = << >>

ParserStep == who = "parser" /\ ParserNext /\ UNCHANGED <<vars, who>>

(* The process does not exit here.                                         *)
SessionStep ==
  who = "session" /\ Next /\ UNCHANGED <<todo, parserVars, who>>

(* Fairness of IapSession, for the behaviours that are a session.          *)
MCFairness ==
  \A t \in Senders :
    /\ WF_vars(who = "session" /\ (Sending(t) \/ Injecting(t)))
    /\ SF_vars(who = "session" /\ \E header \in Links : SendLocation(t, header))

MCSpec ==
  /\ MCInit
  /\ [][ParserStep \/ SessionStep]_MCVars
  /\ MCFairness

============================================================================
