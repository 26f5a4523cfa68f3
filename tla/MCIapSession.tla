--------------------------- MODULE MCIapSession ---------------------------
(***************************************************************************)
(* IapSession on a small instance: two threads that send, a transport that *)
(* numbers its packets, and identifications with and without a component   *)
(* of the stack's own.  A behaviour either identifies itself twice and     *)
(* goes on, or once, for the component of ours, and may exit.              *)
(***************************************************************************)
EXTENDS IapSession, TLC

CONSTANTS main, other

MCSenders == {main, other}
Symmetry == Permutations(MCSenders)

(* FF 5A, length, control, sequence, acknowledge, session; Packet adds the *)
(* checksum.  The second header looks like a frame from its control byte   *)
(* on.                                                                     *)
MCHeader(seq, ack) == <<255, 90, 0, 9, 64, seq, ack, 10>>
OneLink == {MCHeader(200, 3)}
MCLinks == {MCHeader(200, 3), MCHeader(64, 0)}

MCName == BuildTlv(0, <<77>>)
MCOwn(id) == BuildTlv(COMPONENT, BuildTlvU16(0, id) \o BuildTlv(1, <<65>>))
MCPayloads == {MCName, MCOwn(7) \o MCName, MCName \o MCOwn(0)}

VARIABLE exits

MCInit == Init /\ exits \in BOOLEAN
MCNext ==
  /\ Next /\ UNCHANGED exits
  /\ IF exits
     THEN /\ stack'.count <= 1 /\ rgd'.component_id = DefaultId
          /\ \A t \in Senders : Len(thr'[t].prefix) \in {0, 9}
     ELSE UNCHANGED todo

MCSpec == MCInit /\ [][MCNext]_<<vars, exits>>

============================================================================
