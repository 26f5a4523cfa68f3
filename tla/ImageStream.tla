---------------------------- MODULE ImageStream ----------------------------
(***************************************************************************)
(* coverart_hook.c, handle_stream_data(): how complete images are found in *)
(* the iAP2 byte stream.  Packets of several sessions follow each other;   *)
(* a read() ends anywhere, also inside a packet.  The hook waits for whole *)
(* packets, locks the session in which an image begins, collects its       *)
(* payloads and hands over what lies between the first SOI and the next    *)
(* EOI.                                                                    *)
(*                                                                         *)
(* A packet is known by its place in the stream; raw_buf, jpeg_buf and     *)
(* what is handed over are places.  A packet is two halves: a read that    *)
(* ends inside the header leaves as little to parse as one that ends       *)
(* before it.  A payload is the image it belongs to and whether it begins  *)
(* or ends that image (the SOI and EOI markers).                           *)
(*                                                                         *)
(* The cap of COVERART_MAX_JPEG where a payload is appended (lines 937-    *)
(* 944) is never met: jpeg_buf holds 10 MB at most after a read, and       *)
(* raw_buf 1 MB.                                                           *)
(***************************************************************************)
EXTENDS Integers, Sequences, FiniteSets

CONSTANTS
  Sessions,
  NoSession,    \* target_session -1
  MaxImages,    \* bound: images the phone begins
  MaxPackets,   \* bound: packets of the phone
  MaxJpeg       \* payloads that fit into the limit of 10 MB

ASSUME StreamAssumption ==
  /\ NoSession \notin Sessions
  /\ MaxImages \in Nat /\ MaxPackets \in Nat /\ MaxJpeg \in Nat \ {0}

VARIABLES
  sending,   \* the image each session is in the middle of, or 0
  images,    \* images begun so far
  broken,    \* images the phone broke off
  sent,      \* the packets of the stream so far
  got,       \* halves of packets read so far
  taken,     \* packets parsed: raw_buf is what was got behind them
  target,    \* target_session
  jpeg,      \* jpeg_buf: the places of its payloads
  handed,    \* history: what was handed to the worker, oldest first
  alone      \* history: images begun when all before had been read

imageVars == <<sending, images, broken, sent, got, taken, target, jpeg,
               handed, alone>>

Packet(s, i, soi, eoi) == [sess |-> s, img |-> i, soi |-> soi, eoi |-> eoi]

ImageInit ==
  /\ sending = [s \in Sessions |-> 0] /\ images = 0 /\ broken = {}
  /\ sent = << >> /\ got = 0 /\ taken = 0
  /\ target = NoSession /\ jpeg = {}
  /\ handed = << >> /\ alone = {}

Places       == 1 .. Len(sent)
PacketsOf(i) == {p \in Places : sent[p].img = i}

(* Images read to their end, with a byte after it.                         *)
WasRead(i) == \E e \in PacketsOf(i) : sent[e].eoi /\ 2 * e < got

Least(places) == CHOOSE p \in places : \A q \in places : p =< q

-----------------------------------------------------------------------------
(* The phone                                                               *)

Emit(p) ==
  /\ Len(sent) < MaxPackets
  /\ sent' = Append(sent, p)
  /\ UNCHANGED <<got, taken, target, jpeg, handed>>

(* An image in one packet, or the first of several.                        *)
Begin(s) ==
  /\ sending[s] = 0 /\ images < MaxImages
  /\ images' = images + 1
  /\ \E whole \in BOOLEAN :
       /\ Emit(Packet(s, images', TRUE, whole))
       /\ sending' = [sending EXCEPT ![s] = IF whole THEN 0 ELSE images']
  /\ alone' = IF \A i \in 1 .. images : WasRead(i) THEN alone \cup {images'} ELSE alone
  /\ UNCHANGED broken

Continue(s) ==
  /\ sending[s] # 0
  /\ \E eoi \in BOOLEAN :
       /\ Emit(Packet(s, sending[s], FALSE, eoi))
       /\ sending' = IF eoi THEN [sending EXCEPT ![s] = 0] ELSE sending
  /\ UNCHANGED <<images, broken, alone>>

BreakOff(s) ==
  /\ sending[s] # 0
  /\ broken' = broken \cup {sending[s]}
  /\ sending' = [sending EXCEPT ![s] = 0]
  /\ UNCHANGED <<images, sent, got, taken, target, jpeg, handed, alone>>

(* Control traffic: not part of an image.                                  *)
Other(s) ==
  /\ sending[s] = 0
  /\ Emit(Packet(s, 0, FALSE, FALSE))
  /\ UNCHANGED <<sending, images, broken, alone>>

-----------------------------------------------------------------------------
(* handle_stream_data()                                                    *)

(* The packets the parse loop takes of so many halves in raw_buf: each is  *)
(* whole and followed by another packet's first bytes; without those, only *)
(* one at the very beginning.                                              *)
Takes(halves) ==
  LET whole == halves \div 2
  IN  IF halves % 2 = 1 \/ whole =< 1 THEN whole ELSE whole - 1

(* The session locked when the loop has looked at place p: the first SOI   *)
(* locks its own.                                                          *)
Locked(p) ==
  LET begins == {q \in taken + 1 .. p : sent[q].soi}
  IN  IF target # NoSession THEN target
      ELSE IF begins = {} THEN NoSession ELSE sent[Least(begins)].sess

\* Mutant: the payloads of all sessions are collected.
Collects_Any(locked, s) == locked # NoSession
Collects(locked, s) == locked = s

(* jpeg_buf when the loop has taken the packets up to that place.          *)
Collected(upto) ==
  jpeg \cup {p \in taken + 1 .. upto : Collects(Locked(p), sent[p].sess)}

(* From the first SOI to the first EOI behind it, or nothing.              *)
Image(places) ==
  LET first == Least({p \in places : sent[p].soi})
      ends  == {p \in places : first =< p /\ sent[p].eoi}
  IN  IF (\E p \in places : sent[p].soi) /\ ends # {}
      THEN {p \in places : first =< p /\ p =< Least(ends)} ELSE {}

(* The collection ends with a finished image, and above the limit.         *)
Ends(done, places) == done # {} \/ Cardinality(places) > MaxJpeg

\* Mutant: the session stays locked when its image is complete.
Unlocked_Never(done, places, locked) == locked
Unlocked(done, places, locked) == IF Ends(done, places) THEN NoSession ELSE locked

(* A read of any length.                                                   *)
ReadStream ==
  \E n \in got + 1 .. 2 * Len(sent) :
    LET upto   == taken + Takes(n - 2 * taken)
        places == Collected(upto)
        done   == Image(places)
    IN  /\ got' = n /\ taken' = upto
        /\ target' = Unlocked(done, places, Locked(upto))
        /\ jpeg' = IF Ends(done, places) THEN {} ELSE places
        /\ handed' = IF done = {} THEN handed ELSE Append(handed, done)
        /\ UNCHANGED <<sending, images, broken, sent, alone>>

ImageNext ==
  \/ \E s \in Sessions : Begin(s) \/ Continue(s) \/ BreakOff(s) \/ Other(s)
  \/ ReadStream

ImageSpec == ImageInit /\ [][ImageNext]_imageVars

-----------------------------------------------------------------------------
(* The image with whose beginning it was handed over.                      *)
ImageOf(n) == sent[Least(handed[n])].img

(***************************************************************************)
(* What is handed over is one image, all of it, unless the phone broke one *)
(* off: then its session stays locked, and what it had of the image is put *)
(* before the session's next (coverart_hook.c:924-955, 974-993).           *)
(***************************************************************************)
WholeOrBroken ==
  \A n \in DOMAIN handed :
    ImageOf(n) \in broken \/ handed[n] = PacketsOf(ImageOf(n))

(***************************************************************************)
(* Images reach the worker in the order in which they began, none twice:   *)
(* the last is the one to show (coverart_hook.c:720-722, 990-992).         *)
(***************************************************************************)
HandedInOrder ==
  \A n, k \in DOMAIN handed : n < k => ImageOf(n) < ImageOf(k)

(***************************************************************************)
(* An image is not missed if those before it had been read when it began   *)
(* and it is within the limit: once a byte behind it has been read it is   *)
(* with the worker, however the reads cut the stream and whatever else     *)
(* its own and other sessions carry (coverart_hook.c:896-912, 924-929).    *)
(***************************************************************************)
NoneMissed ==
  \A i \in alone :
    WasRead(i) /\ Cardinality(PacketsOf(i)) =< MaxJpeg
      => \E n \in DOMAIN handed : ImageOf(n) = i

(***************************************************************************)
(* The worker gets every image it should, in the order the phone began     *)
(* them (coverart_hook.c:896-955, 990-992).                                *)
(***************************************************************************)
ImagesArrive == HandedInOrder /\ NoneMissed

=============================================================================
