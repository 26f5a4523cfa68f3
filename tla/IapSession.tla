---------------------------- MODULE IapSession ----------------------------
(***************************************************************************)
(* One session of the hook with a phone: hook_framework.c with the session *)
(* part of rgd_hook.c.  dio_manager encodes an identification, which the   *)
(* hook patches, and sends messages; each message sent leaves its link     *)
(* header behind for injection, and a LocationInfo makes the hook inject   *)
(* StartRouteGuidanceUpdates once everything is ready.  The phone answers  *)
(* through Decode.  At the end of the process two destructors run, in an   *)
(* order the code does not fix, while the others may still be at work.     *)
(*                                                                         *)
(* The module's flags are read and stored without a lock: each store of    *)
(* rgd_clear_state(), rgd_request_updates() and rgd_stop_updates() is a    *)
(* step of its own, and so is each of the two checks before a START.       *)
(* Packets are bytes (Iap2Frame).  A thread that copies the stored link    *)
(* header while another frees it reads freed memory: its packet is marked  *)
(* torn.                                                                   *)
(***************************************************************************)
EXTENDS Iap2Frame, FiniteSets

CONSTANTS
  Senders,        \* threads of dio_manager that call NmeTransport::Send
  Payloads,       \* what the stack puts into an identification
  Links,          \* link headers of the transport, without length and checksum
  MaxIdentify,    \* bound: identifications of one process
  MaxFail,        \* bound: allocations and injected sends that fail
  MayReject       \* bound: whether the phone may reject an identification

IDENTIFY == 7425        \* 0x1D01
LOCATION_INFO == 65531  \* 0xFFFB
UNRELATED == 20480          \* 0x5000, a message of no interest
RG_START == 20992       \* 0x5200
RG_STOP == 20995        \* 0x5203
DefaultId == 16         \* rgd_component_id 0x0010
MAX_PREFIX_LEN == 64

Exit == "exit"          \* the thread that runs the destructors
Decoder == "decoder"    \* the one that decodes what the phone says
Threads == Senders \cup {Exit, Decoder}

(* The identifiers a component may have: ours, or the stack's own.         *)
OwnId(payload) == ExtractComponentId(ComponentOf(BuildFrame(IDENTIFY, payload)))
Ids == {DefaultId} \cup ({OwnId(payload) : payload \in Payloads} \ {0})

ASSUME SessionAssumption ==
  /\ MaxIdentify \in Nat /\ MaxFail \in Nat /\ MayReject \in BOOLEAN
  /\ Exit \notin Senders /\ Decoder \notin Senders /\ IsFiniteSet(Senders)

(* An identifier is two bytes and not zero; what the patch writes into a   *)
(* payload is what a reader finds in it.                                   *)
ASSUME IdsAssumption == \A id \in Ids : id \in Nat /\ 1 <= id /\ id <= 65535
ASSUME PatchAssumption ==
  \A payload \in Payloads, id \in Ids :
    ExtractComponentId(ComponentOf(PatchIdentify(BuildFrame(IDENTIFY, payload), id))) = id

VARIABLES
  ctx,        \* g_fw.ctx: the flags
  link,       \* g_fw.ctx.inject: [valid, prefix]
  in_send,    \* g_fw.in_send
  fw,         \* "up", "locked" (by the shutdown) or "down"
  modules,    \* whether the route guidance module is registered
  rgd,        \* g_rgd: the session's part
  thr,        \* what each thread is doing
  todo,       \* destructors still to run
  stack,      \* dio_manager's identification: [phase, frame, count]
  phone,      \* what the phone knows: [component, accepted, started]
  wire,       \* history: the last packet injected, and how many of each kind
  failed      \* history: failures so far

vars == <<ctx, link, in_send, fw, modules, rgd, thr, todo, stack, phone, wire, failed>>

NoCtx == [patched |-> FALSE, accepted |-> FALSE, auth |-> FALSE, valid |-> FALSE, session |-> FALSE]
NoLink == [valid |-> FALSE, prefix |-> << >>]
NoRgd == [active |-> FALSE, sent_5200 |-> FALSE, sent_5203 |-> FALSE, got_520x |-> FALSE,
          component_valid |-> FALSE, component_id |-> DefaultId]
Idle == [pc |-> "idle", identify |-> FALSE, location |-> FALSE, prefix |-> << >>,
         frame |-> << >>, packet |-> << >>, torn |-> FALSE]

(* A packet of the transport: link header with length and checksum, frame, *)
(* checksum; or the bare frame where there is no link layer.               *)
Packet(header, frame) ==
  IF header = << >> THEN frame
  ELSE LET total == Len(header) + 1 + Len(frame) + 1
           h == Overwrite(header, 2, Be16(total))
       IN  h \o <<Cksum(h)>> \o frame \o <<Cksum(frame)>>

Init ==
  /\ ctx = NoCtx /\ link = NoLink /\ in_send = FALSE
  /\ fw = "up" /\ modules = TRUE
  /\ rgd = NoRgd
  /\ thr = [t \in Threads |-> Idle]
  /\ todo = {"framework", "rgd"}
  /\ stack = [phase |-> "begin", frame |-> << >>, count |-> 0]
  /\ phone = [component |-> 0, accepted |-> FALSE, started |-> FALSE]
  /\ wire = [what |-> "none", frame |-> << >>, bytes |-> << >>, torn |-> FALSE,
              stopped |-> FALSE, owed |-> 0]
  /\ failed = 0

Alive == todo # {} \/ thr[Exit].pc # "idle"
At(t, pc) == thr[t].pc = pc /\ Alive
Becomes(t, hand) == thr' = [thr EXCEPT ![t] = hand]

(* ... with nothing in hand but a message that is yet to be passed on.     *)
Goto(t, pc) == Becomes(t, [Idle EXCEPT !.pc = pc, !.identify = thr[t].identify])

Fail == failed < MaxFail /\ failed' = failed + 1

(* hook_is_ready().                                                        *)
hook_is_ready == ctx.patched /\ ctx.accepted /\ ctx.auth /\ ctx.valid

(* rgd_clear_state(): one store after the other, then                      *)
(* rgd_update_session_active().                                            *)
StoreRgd(t, from, to, stored) ==
  /\ At(t, from)
  /\ rgd' = stored
  /\ Goto(t, to)
  /\ UNCHANGED <<ctx, link, in_send, fw, modules, todo, stack, phone, wire, failed>>

UpdateSession(t, from, to) ==
  /\ At(t, from)
  /\ ctx' = [ctx EXCEPT !.session = rgd.active \/ rgd.got_520x]
  /\ Goto(t, to)
  /\ UNCHANGED <<link, in_send, fw, modules, rgd, todo, stack, phone, wire, failed>>

Cleared == IF fw = "locked" THEN "unload" ELSE "idle"

ClearState_KeepsComponent(t) ==
  \/ StoreRgd(t, "clear", "clear sent_5200", [rgd EXCEPT !.active = FALSE])
  \/ StoreRgd(t, "clear sent_5200", "clear sent_5203", [rgd EXCEPT !.sent_5200 = FALSE])
  \/ StoreRgd(t, "clear sent_5203", "clear got_520x", [rgd EXCEPT !.sent_5203 = FALSE])
  \/ StoreRgd(t, "clear got_520x", "clear session", [rgd EXCEPT !.got_520x = FALSE])
  \/ UpdateSession(t, "clear session", IF t = Exit THEN Cleared ELSE "idle")

ClearState(t) ==
  \/ StoreRgd(t, "clear", "clear sent_5200", [rgd EXCEPT !.active = FALSE])
  \/ StoreRgd(t, "clear sent_5200", "clear sent_5203", [rgd EXCEPT !.sent_5200 = FALSE])
  \/ StoreRgd(t, "clear sent_5203", "clear got_520x", [rgd EXCEPT !.sent_5203 = FALSE])
  \/ StoreRgd(t, "clear got_520x", "clear component", [rgd EXCEPT !.got_520x = FALSE])
  \/ StoreRgd(t, "clear component", "clear session", [rgd EXCEPT !.component_valid = FALSE])
  \/ UpdateSession(t, "clear session", IF t = Exit THEN Cleared ELSE "idle")

----------------------------------------------------------------------------
(* hook_framework_init() by any hooked call after the shutdown: the module *)
(* does not register again.                                                *)
Reinit ==
  /\ Alive /\ fw = "down"
  /\ fw' = "up" /\ ctx' = NoCtx /\ link' = NoLink
  /\ UNCHANGED <<in_send, modules, rgd, thr, todo, stack, phone, wire, failed>>

(* NmeIAP2Message::Encode of an identification.                            *)
Encoded(frame) ==
  stack' = [phase |-> "encoded", frame |-> frame, count |-> stack.count + 1]
MayEncode == Alive /\ fw # "down" /\ stack.phase = "begin" /\ stack.count < MaxIdentify

(* Once one was patched the others leave as the stack made them.           *)
EncodePlain(payload) ==
  /\ MayEncode
  /\ ctx.patched \/ ~modules
  /\ Encoded(BuildFrame(IDENTIFY, payload))
  /\ UNCHANGED <<ctx, link, in_send, fw, modules, rgd, thr, todo, phone, wire, failed>>

(* rgd_identify_patcher(): the component has the stack's identifier where  *)
(* it has one; the buffer may have to grow, and that may fail.             *)
EncodePatched(payload) ==
  LET frame == BuildFrame(IDENTIFY, payload)
      own == ExtractComponentId(ComponentOf(frame))
      id == IF own # 0 THEN own ELSE rgd.component_id
  IN  /\ MayEncode
      /\ ~ctx.patched /\ modules
      /\ rgd' = [rgd EXCEPT !.component_valid = TRUE, !.component_id = id]
      /\ \/ /\ Encoded(PatchIdentify(frame, id))
            /\ ctx' = [ctx EXCEPT !.patched = TRUE, !.valid = TRUE]
            /\ UNCHANGED failed
         \/ Encoded(frame) /\ Fail /\ UNCHANGED ctx
      /\ UNCHANGED <<link, in_send, fw, modules, thr, todo, phone, wire>>

----------------------------------------------------------------------------
(* NmeIAP2Message::Decode: what the phone says.                            *)

Decodes == At(Decoder, "idle") /\ fw # "down"

Accept ==
  /\ Decodes /\ stack.phase = "sent"
  /\ stack' = [stack EXCEPT !.phase = "accepted"]
  /\ ctx' = [ctx EXCEPT !.accepted = TRUE]
  /\ phone' = [phone EXCEPT !.accepted = TRUE]
  /\ UNCHANGED <<link, in_send, fw, modules, rgd, thr, todo, wire, failed>>

(* IDENTIFY_END: the module clears its state unless a session is running;  *)
(* the stack may identify itself again.                                    *)
IdentifyEnd ==
  /\ Decodes /\ stack.phase = "sent" /\ MayReject
  /\ stack' = [stack EXCEPT !.phase = "begin"]
  /\ IF modules /\ ~ctx.session /\ ~rgd.active /\ ~rgd.got_520x
     THEN Goto(Decoder, "clear") ELSE UNCHANGED thr
  /\ UNCHANGED <<ctx, link, in_send, fw, modules, rgd, todo, phone, wire, failed>>

AuthComplete ==
  /\ Decodes /\ ~ctx.auth
  /\ ctx' = [ctx EXCEPT !.auth = TRUE]
  /\ UNCHANGED <<link, in_send, fw, modules, rgd, thr, todo, stack, phone, wire, failed>>

(* The first route guidance message of a phone that was asked for them.    *)
GuidanceBegins ==
  /\ Decodes /\ phone.started /\ modules /\ ~rgd.got_520x
  /\ rgd' = [rgd EXCEPT !.got_520x = TRUE]
  /\ ctx' = [ctx EXCEPT !.session = TRUE]
  /\ UNCHANGED <<link, in_send, fw, modules, thr, todo, stack, phone, wire, failed>>

----------------------------------------------------------------------------
(* NmeTransport::Send.                                                     *)

(* A call: while somebody injects, the message is passed on unseen.  Else  *)
(* what stands before the first thing like a frame is its link header.     *)
Kept(bytes) ==
  IF FindFrame(bytes) <= MAX_PREFIX_LEN THEN SubSeq(bytes, 1, FindFrame(bytes)) ELSE << >>

Call(t, identify, frame, header) ==
  /\ At(t, "idle") /\ fw # "down"
  /\ \E bytes \in {Packet(header, frame)} :
       IF in_send \/ FindFrame(bytes) = NotFound
       THEN Becomes(t, [Idle EXCEPT !.pc = "pass", !.identify = identify])
       ELSE Becomes(t, [Idle EXCEPT !.pc = "store", !.identify = identify, !.prefix = Kept(bytes),
                          !.location = (U16(bytes, FindFrame(bytes) + 4) = LOCATION_INFO)])
  /\ UNCHANGED <<ctx, link, in_send, fw, modules, rgd, todo, phone, wire, failed>>

SendIdentify(t, header) ==
  /\ stack.phase = "encoded"
  /\ Call(t, TRUE, stack.frame, header)
  /\ stack' = [stack EXCEPT !.phase = "leaving"]

LocationInfo == BuildFrame(LOCATION_INFO, << >>)
Unrelated == BuildFrame(UNRELATED, << >>)
SendLocation(t, header) == Call(t, FALSE, LocationInfo, header) /\ UNCHANGED stack
SendOther(t, header) == Call(t, FALSE, Unrelated, header) /\ UNCHANGED stack

(* store_injection_context(): the old link header is freed under the lock, *)
(* which a thread that copies it does not hold.                            *)
Tear(t) == [u \in Threads |-> IF u # t /\ thr[u].pc = "copy" THEN [thr[u] EXCEPT !.torn = TRUE] ELSE thr[u]]

StoreContext(t) ==
  /\ At(t, "store")
  /\ fw # "locked"
  /\ \/ link' = [valid |-> TRUE, prefix |-> thr[t].prefix] /\ UNCHANGED failed
     \/ thr[t].prefix # << >> /\ link' = [valid |-> TRUE, prefix |-> << >>] /\ Fail
  /\ thr' = [Tear(t) EXCEPT ![t] = [Idle EXCEPT !.identify = thr[t].identify,
                                      !.pc = IF thr[t].location THEN "notify" ELSE "pass"]]
  /\ UNCHANGED <<ctx, in_send, fw, modules, rgd, todo, stack, phone, wire>>

(* rgd_request_updates() and rgd_stop_updates(): what they inject, and     *)
(* whether hook_inject_frame() begins.                                     *)
StartFrame ==
  BuildFrame(RG_START, BuildTlvU16(0, rgd.component_id) \o BuildTlv(1, << >>)
                       \o BuildTlv(2, << >>) \o BuildTlv(3, << >>))
StopFrame == BuildFrame(RG_STOP, BuildTlvU16(0, rgd.component_id))
CanInject == fw # "down" /\ link.valid

Begin(t, frame) ==
  /\ Becomes(t, [Idle EXCEPT !.pc = "copy", !.identify = thr[t].identify, !.frame = frame])
  /\ in_send' = TRUE

(* rgd_transport_handler(): a LocationInfo is the moment to ask ...        *)
Notify(t) ==
  /\ At(t, "notify")
  /\ Goto(t, IF modules /\ ~rgd.sent_5200 /\ hook_is_ready THEN "ask" ELSE "pass")
  /\ UNCHANGED <<ctx, link, in_send, fw, modules, rgd, todo, stack, phone, wire, failed>>

(* ... if the component is known (rgd_request_updates).                    *)
Ask(t) ==
  /\ At(t, "ask")
  /\ IF rgd.component_valid /\ CanInject THEN Begin(t, StartFrame)
     ELSE Goto(t, "pass") /\ UNCHANGED in_send
  /\ UNCHANGED <<ctx, link, fw, modules, rgd, todo, stack, phone, wire, failed>>

----------------------------------------------------------------------------
(* hook_inject_frame(), in a Send or in a destructor.                      *)

Leave(t) == IF t = Exit THEN "clear" ELSE "pass"

(* The packet around the frame; without a link header, the frame alone ... *)
Wrapped(header, frame) ==
  IF header = << >> THEN frame
  ELSE PatchLinkHeader(header \o frame \o <<Cksum(frame)>>, Len(header), Len(header) + Len(frame) + 1)

Copy(t) ==
  /\ At(t, "copy")
  /\ Becomes(t, [thr[t] EXCEPT !.pc = "inject", !.packet = Wrapped(link.prefix, thr[t].frame)])
  /\ UNCHANGED <<ctx, link, in_send, fw, modules, rgd, todo, stack, phone, wire, failed>>

(* ... for which there may be no memory ...                                *)
CopyFails_KeepsFlag(t) ==
  /\ At(t, "copy") /\ link.prefix # << >>
  /\ Fail
  /\ Goto(t, Leave(t))
  /\ UNCHANGED <<ctx, link, in_send, fw, modules, rgd, todo, stack, phone, wire>>

CopyFails(t) ==
  /\ At(t, "copy") /\ link.prefix # << >>
  /\ Fail
  /\ Goto(t, Leave(t))
  /\ in_send' = FALSE
  /\ UNCHANGED <<ctx, link, fw, modules, rgd, todo, stack, phone, wire>>

(* ... goes out by the real transport, or does not ...                     *)
Inject(t) ==
  /\ At(t, "inject")
  /\ \/ /\ wire' = [what |-> IF t = Exit THEN "stop" ELSE "start", frame |-> thr[t].frame,
                     bytes |-> thr[t].packet, torn |-> thr[t].torn,
                     stopped |-> wire.stopped \/ t = Exit,
                     owed |-> IF t = Exit THEN wire.owed - 1 ELSE wire.owed + 1]
        /\ phone' = [phone EXCEPT !.started = (t # Exit)]
        /\ Goto(t, "sent")
        /\ UNCHANGED failed
     \/ /\ Fail
        /\ Goto(t, "unsent")
        /\ UNCHANGED <<wire, phone>>
  /\ UNCHANGED <<ctx, link, in_send, fw, modules, rgd, todo, stack>>

(* ... and other sends are seen again.                                     *)
Release(t) ==
  /\ \/ At(t, "sent") /\ Goto(t, "note")
     \/ At(t, "unsent") /\ Goto(t, Leave(t))
  /\ in_send' = FALSE
  /\ UNCHANGED <<ctx, link, fw, modules, rgd, todo, stack, phone, wire, failed>>

(* What was injected is noted only if it went out: sent_5200 or sent_5203, *)
(* active, and what follows from it.                                       *)
Note(t) ==
  \/ StoreRgd(t, "note", "note active",
           IF t = Exit THEN [rgd EXCEPT !.sent_5203 = TRUE] ELSE [rgd EXCEPT !.sent_5200 = TRUE])
  \/ StoreRgd(t, "note active", "note session", [rgd EXCEPT !.active = (t # Exit)])
  \/ UpdateSession(t, "note session", Leave(t))

(* The message itself goes out after whatever was injected for it.         *)
Pass(t) ==
  /\ At(t, "pass")
  /\ IF thr[t].identify
     THEN /\ stack' = [stack EXCEPT !.phase = "sent", !.frame = << >>]
          /\ phone' = [component |-> ExtractComponentId(ComponentOf(stack.frame)),
                       accepted |-> FALSE, started |-> FALSE]
     ELSE UNCHANGED <<stack, phone>>
  /\ Becomes(t, Idle)
  /\ UNCHANGED <<ctx, link, in_send, fw, modules, rgd, todo, wire, failed>>

----------------------------------------------------------------------------
(* The destructors.                                                        *)

(* Both stop the updates they have asked for ...                           *)
Stop ==
  IF rgd.active /\ ~rgd.sent_5203 /\ CanInject THEN Begin(Exit, StopFrame)
  ELSE Goto(Exit, "clear") /\ UNCHANGED in_send

(* ... hook_framework_shutdown() with the lock, if there is anything to    *)
(* shut down ...                                                           *)
Shutdown ==
  /\ At(Exit, "idle") /\ "framework" \in todo /\ fw = "up"
  /\ todo' = todo \ {"framework"}
  /\ fw' = "locked"
  /\ Stop
  /\ UNCHANGED <<ctx, link, modules, rgd, stack, phone, wire, failed>>

(* ... rgd_shutdown() without it.  Both go on with ClearState.             *)
RgdShutdown ==
  /\ At(Exit, "idle") /\ "rgd" \in todo
  /\ todo' = todo \ {"rgd"}
  /\ Stop
  /\ UNCHANGED <<ctx, link, fw, modules, rgd, stack, phone, wire, failed>>

(* The link header is freed, modules and framework are gone.               *)
Unload ==
  /\ At(Exit, "unload")
  /\ link' = [link EXCEPT !.prefix = << >>]
  /\ modules' = FALSE
  /\ fw' = "down"
  /\ thr' = [Tear(Exit) EXCEPT ![Exit] = Idle]
  /\ UNCHANGED <<ctx, in_send, rgd, todo, stack, phone, wire, failed>>

----------------------------------------------------------------------------
Sending(t) == StoreContext(t) \/ Notify(t) \/ Ask(t) \/ Pass(t)
Injecting(t) == Copy(t) \/ CopyFails(t) \/ Inject(t) \/ Release(t) \/ Note(t)

Next ==
  \/ Reinit
  \/ \E payload \in Payloads : EncodePlain(payload) \/ EncodePatched(payload)
  \/ Accept \/ IdentifyEnd \/ AuthComplete \/ GuidanceBegins
  \/ \E t \in Senders, header \in Links :
       SendIdentify(t, header) \/ SendLocation(t, header) \/ SendOther(t, header)
  \/ \E t \in Senders : Sending(t)
  \/ \E t \in Threads : Injecting(t)
  \/ Shutdown \/ RgdShutdown \/ Unload
  \/ \E t \in {Exit, Decoder} : ClearState(t)

(* A call that has begun is finished; once the hook is ready, the stack    *)
(* sends its position again and again.                                     *)
Fairness ==
  \A t \in Senders :
    /\ WF_vars(Sending(t) \/ Injecting(t))
    /\ SF_vars(\E header \in Links : SendLocation(t, header))

Spec == Init /\ [][Next]_vars /\ Fairness

----------------------------------------------------------------------------
(* What must hold.                                                         *)

Exiting == todo # {"framework", "rgd"}

(* "Inject frame with proper link-layer handling" (hook_framework.c:369):  *)
(* what is injected is a packet the transport could have made of that      *)
(* frame, or the bare frame if there was no memory for its header.         *)
PacketsValid ==
  wire.what # "none" =>
    /\ ~wire.torn
    /\ \/ \E header \in Links : wire.bytes = Packet(header, wire.frame)
       \/ failed > 0 /\ wire.bytes = wire.frame

(* What a transport sends: its messages around its headers.                *)
Identifies ==
  {BuildFrame(IDENTIFY, payload) : payload \in Payloads}
    \cup {PatchIdentify(BuildFrame(IDENTIFY, payload), id) : payload \in Payloads, id \in Ids}
SentFrames == Identifies \cup {LocationInfo, Unrelated}

(* A header is a few bytes, and a packet has a length of two.              *)
ASSUME LinkAssumption ==
  \A header \in Links, frame \in SentFrames :
    /\ header \in Seq(Int) /\ frame \in Seq(Int)
    /\ header = << >> \/ (8 <= Len(header) /\ Len(header) < MAX_PREFIX_LEN)
    /\ Len(header) + Len(frame) + 2 < 65536

(* A link header whose own bytes are taken for the beginning of a frame:   *)
(* control byte 64 before sequence number 64, and what follows fits.       *)
Misread(header, frame) ==
  FindFrame(Packet(header, frame)) # IF header = << >> THEN 0 ELSE Len(header) + 1

(* Of the packets the hook injects (hook_inject_frame,                     *)
(* iap2_patch_link_header) only those are no packets of the transport that *)
(* were copied while another thread freed the link header, that had no     *)
(* memory, or whose header was cut from one that was misread.              *)
PacketsAccounted ==
  wire.what # "none" /\ ~wire.torn =>
    \/ \E header \in Links : wire.bytes = Packet(header, wire.frame)
    \/ failed > 0 /\ wire.bytes = wire.frame
    \/ \E header \in Links, sent \in SentFrames :
         Misread(header, sent) /\ wire.bytes = Wrapped(Kept(Packet(header, sent)), wire.frame)

(* rgd_transport_handler() asks only for the component of an               *)
(* identification the phone accepted last: none it has rejected, none that *)
(* left unpatched.                                                         *)
StartAnnounced ==
  [][wire'.what = "start" => phone.accepted /\ U16(wire'.frame, 10) = phone.component]_wire

(* Two destructors and the senders that go on: a STOP goes out only for a  *)
(* START that was noted, never twice for one (rgd_stop_updates) ...        *)
StopsAnswerStarts == wire.owed >= 0

(* ... and once the destructor that sent it has cleared component_valid no *)
(* START is begun any more.  Before that one may be: the stores of         *)
(* rgd_clear_state() take sent_5200 down first (rgd_hook.c:1181-1185).     *)
Stopping == thr[Exit].pc \notin {"idle", "clear session", "unload"}
StopIsFinal ==
  [][\A t \in Senders : thr[t].pc # "copy" /\ thr'[t].pc = "copy" => ~wire.stopped \/ Stopping]_thr

OrderlySubscription == StartAnnounced /\ []StopsAnswerStarts /\ StopIsFinal

(* Once hook_is_ready() and the component is known, START goes out in the  *)
(* end, whatever failed on the way, unless the process exits first.        *)
Subscribes == (hook_is_ready /\ rgd.component_valid) ~> (rgd.sent_5200 \/ Exiting)

============================================================================
