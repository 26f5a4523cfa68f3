----------------------------- MODULE Iap2Frame -----------------------------
(***************************************************************************)
(* iap2_protocol.c and the component of rgd_tlv.c, byte for byte: finding  *)
(* a frame in what a transport sends, walking the TLVs of a payload,       *)
(* building frames and TLVs, the checksum, and the patch of a link header. *)
(* Buffers are sequences of bytes and offsets count from 0, as in the      *)
(* code; what does not fit its buffer is left out, for every buffer here   *)
(* is built large enough by its caller.                                    *)
(***************************************************************************)
EXTENDS Integers, Sequences

LOCAL Sum(s) ==
  LET upTo[n \in 0..Len(s)] == IF n = 0 THEN 0 ELSE upTo[n - 1] + s[n] IN upTo[Len(s)]

NotFound == -1

(* read_be16() at an offset, and the two bytes of write_be16().            *)
U16(buf, off) == 256 * buf[off + 1] + buf[off + 2]
Be16(n) == <<(n \div 256) % 256, n % 256>>
Overwrite(buf, off, bytes) ==
  SubSeq(buf, 1, off) \o bytes \o SubSeq(buf, off + Len(bytes) + 1, Len(buf))

(* iap2_find_frame(): the first sync pair whose length fits the buffer.    *)
FrameAt(buf, i) ==
  /\ buf[i + 1] = 64 /\ buf[i + 2] = 64
  /\ U16(buf, i + 2) >= 6
  /\ i + U16(buf, i + 2) <= Len(buf)

FindFrame(buf) ==
  LET starts == {i \in 0..(Len(buf) - 6) : FrameAt(buf, i)}
  IN  IF starts = {} THEN NotFound ELSE CHOOSE i \in starts : \A j \in starts : i <= j

(* iap2_find_tlv_offset(): NotFound also stands for the walk that meets a  *)
(* TLV shorter than its header or longer than what is left.                *)
FindTlvOffset(payload, id) ==
  LET at[off \in 0..Len(payload)] ==
        IF off + 4 > Len(payload) THEN NotFound
        ELSE IF U16(payload, off) < 4 \/ off + U16(payload, off) > Len(payload) THEN NotFound
        ELSE IF U16(payload, off + 2) = id THEN off
        ELSE at[off + U16(payload, off)]
  IN  at[0]

BuildFrame(msgid, payload) == <<64, 64>> \o Be16(6 + Len(payload)) \o Be16(msgid) \o payload
BuildTlv(id, value) == Be16(4 + Len(value)) \o Be16(id) \o value
BuildTlvU16(id, n) == BuildTlv(id, Be16(n))

(* iap2_cksum_neg(): what makes the 8-bit sum zero.                        *)
Cksum(s) == (256 - (Sum(s) % 256)) % 256

(* iap2_patch_link_header(): of all the values it looks at, only the one   *)
(* at offset 2 counts, and only if it is not zero.                         *)
PatchLinkHeader_StaleSum(packet, prefixLen, total) ==
  IF prefixLen < 9 \/ U16(packet, 2) = 0 THEN packet ELSE Overwrite(packet, 2, Be16(total))

PatchLinkHeader(packet, prefixLen, total) ==
  IF prefixLen < 9 \/ U16(packet, 2) = 0 THEN packet
  ELSE LET p == Overwrite(packet, 2, Be16(total))
       IN  Overwrite(p, prefixLen - 1, <<Cksum(SubSeq(p, 1, prefixLen - 1))>>)

----------------------------------------------------------------------------
(* The RouteGuidanceDisplayComponent.                                      *)

COMPONENT == 30   \* IDENT_TLV_ROUTE_GUIDANCE_COMPONENT
NameLen == 30     \* "RouteGuidanceDisplayComponent" and its NUL

(* rgd_build_component_tlv(): identifier, name (its letters are not told   *)
(* apart), the capacities of texts, and those of maneuvers and lanes.      *)
BuildComponentTlv(id) ==
  BuildTlv(COMPONENT,
    BuildTlvU16(0, id) \o BuildTlv(1, [i \in 1..NameLen |-> IF i = NameLen THEN 0 ELSE 82])
    \o BuildTlvU16(2, 256) \o BuildTlvU16(3, 256) \o BuildTlvU16(4, 256) \o BuildTlvU16(5, 256)
    \o BuildTlvU16(6, 6) \o BuildTlvU16(7, 256) \o BuildTlvU16(8, 6))

(* rgd_extract_component_id(): the first identifier with two bytes, or 0.  *)
ExtractComponentId(tlv) ==
  LET at[off \in 0..Len(tlv)] ==
        IF off + 4 > Len(tlv) THEN 0
        ELSE IF U16(tlv, off) < 4 \/ off + U16(tlv, off) > Len(tlv) THEN 0
        ELSE IF U16(tlv, off + 2) = 0 /\ U16(tlv, off) >= 6 THEN U16(tlv, off + 4)
        ELSE at[off + U16(tlv, off)]
  IN  IF Len(tlv) < 10 THEN 0 ELSE at[4]

(* The component TLV an identify carries, or nothing.                      *)
ComponentOf(frame) ==
  LET payload == SubSeq(frame, 7, Len(frame))
      off == FindTlvOffset(payload, COMPONENT)
  IN  IF off = NotFound THEN << >> ELSE SubSeq(payload, off + 1, off + U16(payload, off))

(* rgd_identify_patcher(): the stack's component is replaced where it is,  *)
(* with its identifier; without one ours goes to the end.                  *)
PatchIdentify_Appends(frame, id) ==
  LET patched == frame \o BuildComponentTlv(id) IN Overwrite(patched, 2, Be16(Len(patched)))

PatchIdentify(frame, id) ==
  LET payload == SubSeq(frame, 7, Len(frame))
      off == FindTlvOffset(payload, COMPONENT)
      len == U16(payload, off)
      patched == IF off = NotFound THEN frame \o BuildComponentTlv(id)
                 ELSE SubSeq(frame, 1, 6 + off) \o BuildComponentTlv(id)
                      \o SubSeq(payload, off + len + 1, Len(payload))
  IN  Overwrite(patched, 2, Be16(Len(patched)))

============================================================================
