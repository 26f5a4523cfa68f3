--------------------------- MODULE IapDescriptors ---------------------------
(***************************************************************************)
(* coverart_hook.c: which descriptors of dio_manager are watched for iAP2, *)
(* and the table of streams in which their bytes are put together.  The    *)
(* hooks of open(), read() or recv(), and close() run on the threads that  *)
(* call them.  stream_mutex covers the search for a stream only; the work  *)
(* on a stream is done later, under the stream's own lock.                 *)
(*                                                                         *)
(* socket() and accept() are not hooked.  What a stream holds is the set   *)
(* of openings its bytes come from; finding images is in ImageStream.      *)
(***************************************************************************)
EXTENDS Integers, FiniteSets

CONSTANTS
  Threads,
  Fds,
  NoOne,        \* no descriptor, no stream
  NumStreams,   \* MAX_STREAMS
  ProbeLimit,   \* FD_PROBE_LIMIT
  MaxOpens      \* bound: descriptors opened

ASSUME FdAssumption ==
  /\ NoOne \notin Fds /\ NoOne \notin Nat
  /\ NumStreams \in Nat /\ ProbeLimit \in Nat \ {0} /\ MaxOpens \in Nat

Streams == 1 .. NumStreams

VARIABLES
  kind,     \* descriptor: closed, usb (the iAP2 endpoint), file, socket
  opening,  \* how often each descriptor was opened
  skip,     \* fd_skip
  iap2,     \* fd_iap2
  streams,
  call,     \* what each thread does
  probed,   \* history: calls of this opening without a packet, up to ProbeLimit
  raced,    \* history: numbers closed by one thread and read by another at once
  leaked,   \* history: a stream was taken with its buffer still there
  opens

vars == <<kind, opening, skip, iap2, streams, call, probed, raced, leaked, opens>>

Idle  == [at |-> "idle", fd |-> NoOne, of |-> 0, s |-> NoOne]
Empty == [fd |-> NoOne, active |-> FALSE, packets |-> FALSE, calls |-> 0,
          buffer |-> FALSE, bytes |-> {}]

Init ==
  /\ kind = [f \in Fds |-> "closed"] /\ opening = [f \in Fds |-> 0]
  /\ skip = [f \in Fds |-> FALSE] /\ iap2 = [f \in Fds |-> FALSE]
  /\ streams = [s \in Streams |-> Empty]
  /\ call = [t \in Threads |-> Idle]
  /\ probed = [f \in Fds |-> 0] /\ raced = {} /\ leaked = FALSE /\ opens = 0

At(t, step)      == call[t].at = step
Goto(t, step)    == call' = [call EXCEPT ![t].at = step]
Return(t)        == call' = [call EXCEPT ![t] = Idle]
Enters(t, f, step) ==
  At(t, "idle") /\ call' = [call EXCEPT ![t] = [Idle EXCEPT !.at = step, !.fd = f, !.of = opening'[f]]]

Reading == {"wants", "find", "work"}
Closing == {"search", "wipe", "close"}
Doing(f, steps) == \E t \in Threads : call[t].fd = f /\ call[t].at \in steps

-----------------------------------------------------------------------------
(* open(): the kernel gives the number, then the flags are set.            *)

Open(t, f, k) ==
  /\ kind[f] = "closed" /\ opens < MaxOpens
  /\ opens' = opens + 1
  /\ kind' = [kind EXCEPT ![f] = k]
  /\ opening' = [opening EXCEPT ![f] = @ + 1]
  /\ IF k = "socket" THEN At(t, "idle") /\ UNCHANGED call ELSE Enters(t, f, "flag")
  /\ UNCHANGED <<skip, iap2, streams, probed, raced, leaked>>

SetFlags(t) ==
  LET f == call[t].fd IN
  /\ At(t, "flag") /\ Return(t)
  /\ iap2' = [iap2 EXCEPT ![f] = kind[f] = "usb"]
  /\ skip' = [skip EXCEPT ![f] = kind[f] # "usb"]
  /\ UNCHANGED <<kind, opening, streams, probed, raced, leaked, opens>>

-----------------------------------------------------------------------------
(* read() and recv(): bytes first, then fd_wants_iap2_processing(), ...    *)

Read(t, f) ==
  /\ kind[f] # "closed" /\ ~Doing(f, {"flag"})
  /\ UNCHANGED opening /\ Enters(t, f, "wants")
  /\ raced' = IF Doing(f, Closing) THEN raced \cup {f} ELSE raced
  /\ UNCHANGED <<kind, skip, iap2, streams, probed, leaked, opens>>

Wanted(f) == iap2[f] \/ ~skip[f]

Wants(t) ==
  /\ At(t, "wants")
  /\ IF Wanted(call[t].fd) THEN Goto(t, "find") ELSE Return(t)
  /\ UNCHANGED <<kind, opening, skip, iap2, streams, probed, raced, leaked, opens>>

(* ... get_stream() under stream_mutex, ...                                *)
StreamsOf(f) == {s \in Streams : streams[s].active /\ streams[s].fd = f}
Lowest(S)    == CHOOSE s \in S : \A k \in S : s =< k
FreeStreams  == {s \in Streams : ~streams[s].active}

Candidates(f) == IF StreamsOf(f) # {} THEN StreamsOf(f) ELSE FreeStreams

FindStream(t) ==
  LET f == call[t].fd
      c == Candidates(f)
      s == Lowest(c)
  IN
  /\ At(t, "find")
  /\ \/ /\ c = {} /\ Return(t)
        /\ UNCHANGED <<streams, leaked>>
     \/ /\ c # {} /\ call' = [call EXCEPT ![t].at = "work", ![t].s = s]
        /\ IF streams[s].active THEN UNCHANGED <<streams, leaked>>
           ELSE /\ streams' = [streams EXCEPT ![s] = [Empty EXCEPT !.fd = f, !.active = TRUE]]
                /\ leaked' = (leaked \/ streams[s].buffer)
  /\ UNCHANGED <<kind, opening, skip, iap2, probed, raced, opens>>

(* ... and the work under the stream's lock, which begins with a second    *)
(* look at whose stream it is.                                             *)
\* Mutant: no second look.
StillOwns_Trusts(f, s) == TRUE
StillOwns(f, s) == streams[s].active /\ streams[s].fd = f

\* Mutant: a skipped descriptor is taken off the other list too.
Marked_Unlists(f) == skip' = [skip EXCEPT ![f] = TRUE] /\ iap2' = [iap2 EXCEPT ![f] = FALSE]
Marked(f) == skip' = [skip EXCEPT ![f] = TRUE] /\ UNCHANGED iap2

Released(s) == [streams EXCEPT ![s] = Empty]
Fed(s, from, packet) ==
  [streams EXCEPT ![s].buffer = TRUE, ![s].bytes = @ \cup {from},
                  ![s].packets = packet, ![s].calls = IF packet THEN @ ELSE @ + 1]

(* The bytes may or may not complete a packet; a descriptor that has shown *)
(* none in ProbeLimit calls is skipped and gives its stream back.          *)
Work(t) ==
  LET f == call[t].fd
      s == call[t].s
  IN
  /\ At(t, "work") /\ Return(t)
  /\ \/ /\ ~StillOwns(f, s)
        /\ UNCHANGED <<skip, iap2, streams, probed>>
     \/ /\ StillOwns(f, s)
        /\ streams' = Fed(s, call[t].of, TRUE)
        /\ UNCHANGED <<skip, iap2, probed>>
     \/ /\ StillOwns(f, s) /\ ~streams[s].packets
        /\ probed' = [probed EXCEPT ![f] = IF @ < ProbeLimit THEN @ + 1 ELSE @]
        /\ IF streams[s].calls + 1 >= ProbeLimit
           THEN streams' = Released(s) /\ Marked(f)
           ELSE streams' = Fed(s, call[t].of, FALSE) /\ UNCHANGED <<skip, iap2>>
  /\ UNCHANGED <<kind, opening, raced, leaked, opens>>

-----------------------------------------------------------------------------
(* close(): flags, search under stream_mutex, wipe under the stream's      *)
(* lock, and only then the kernel's close().                               *)

\* Mutant: only the iAP2 flag is cleared.
Cleared_Half(f) == iap2' = [iap2 EXCEPT ![f] = FALSE] /\ UNCHANGED skip
Cleared(f) == iap2' = [iap2 EXCEPT ![f] = FALSE] /\ skip' = [skip EXCEPT ![f] = FALSE]

Close(t, f) ==
  /\ kind[f] # "closed" /\ ~Doing(f, {"flag"} \cup Closing)
  /\ UNCHANGED opening /\ Enters(t, f, "search")
  /\ Cleared(f)
  /\ raced' = IF Doing(f, Reading) THEN raced \cup {f} ELSE raced
  /\ UNCHANGED <<kind, streams, probed, leaked, opens>>

Search(t) ==
  LET found == StreamsOf(call[t].fd) IN
  /\ At(t, "search")
  /\ call' = [call EXCEPT ![t].at = IF found = {} THEN "close" ELSE "wipe",
                          ![t].s = IF found = {} THEN NoOne ELSE Lowest(found)]
  /\ UNCHANGED <<kind, opening, skip, iap2, streams, probed, raced, leaked, opens>>

\* Mutant: the stream is emptied and stays with its number.
Wiped_Kept(s) == [streams EXCEPT ![s].buffer = FALSE]
Wiped(s) == Released(s)

Wipe(t) ==
  /\ At(t, "wipe") /\ Goto(t, "close")
  /\ streams' = Wiped(call[t].s)
  /\ UNCHANGED <<kind, opening, skip, iap2, probed, raced, leaked, opens>>

RealClose(t) ==
  LET f == call[t].fd IN
  /\ At(t, "close") /\ Return(t)
  /\ kind' = [kind EXCEPT ![f] = "closed"]
  /\ probed' = [probed EXCEPT ![f] = 0]
  /\ UNCHANGED <<opening, skip, iap2, streams, raced, leaked, opens>>

Next ==
  \E t \in Threads :
    \/ \E f \in Fds : Read(t, f) \/ Close(t, f)
    \/ \E f \in Fds, k \in {"usb", "file", "socket"} : Open(t, f, k)
    \/ SetFlags(t) \/ Wants(t) \/ FindStream(t) \/ Work(t)
    \/ Search(t) \/ Wipe(t) \/ RealClose(t)

Spec == Init /\ [][Next]_vars

-----------------------------------------------------------------------------
(***************************************************************************)
(* A stream is only taken when its buffer is gone: a call that is late for *)
(* its stream must not give a buffer to one that has been given up         *)
(* (coverart_hook.c:846-855).                                              *)
(***************************************************************************)
NoLeak == ~leaked

(***************************************************************************)
(* "Confirmed iAP2 fds are never marked" (coverart_hook.c:1008-1009): once *)
(* open() has returned the iAP2 endpoint, its bytes are looked at until it *)
(* is closed, also when a call of the number's previous opening comes late *)
(* or the phone is quiet for ProbeLimit calls.                             *)
(***************************************************************************)
UsbIsWatched ==
  \A f \in Fds : kind[f] = "usb" /\ ~Doing(f, {"flag"} \cup Closing) => Wanted(f)

(***************************************************************************)
(* A socket is skipped for what its own opening has shown: ProbeLimit      *)
(* calls without a packet.  Only where one thread closed the number while  *)
(* another read it a mark may outlive the close (coverart_hook.c:1012-1014, *)
(* 1150-1152).                                                             *)
(***************************************************************************)
SkipIsEarned ==
  \A f \in Fds \ raced :
    kind[f] = "socket" /\ skip[f] => probed[f] >= ProbeLimit

(***************************************************************************)
(* The two marks together: what is looked at is looked at as long as it    *)
(* is open, what is not has shown that it need not be                      *)
(* (coverart_hook.c:1008-1019).                                            *)
(***************************************************************************)
MarksAreRight == UsbIsWatched /\ SkipIsEarned

(***************************************************************************)
(* However calls overlap a number never has two streams; a stream holds    *)
(* bytes of one opening, and close() wipes the stream of its own           *)
(* descriptor: only after one thread closed a number another read may the  *)
(* stream it has found be another descriptor's by then                     *)
(* (coverart_hook.c:802-812, 1153-1175).                                   *)
(***************************************************************************)
StreamsKeptApart ==
  /\ \A f \in Fds : Cardinality(StreamsOf(f)) =< 1
  /\ raced = {} => \A t \in Threads : At(t, "wipe") =>
       streams[call[t].s].active /\ streams[call[t].s].fd = call[t].fd
  /\ \A s \in Streams : streams[s].active /\ streams[s].fd \notin raced =>
       streams[s].bytes \subseteq {opening[streams[s].fd]}
  /\ NoLeak

=============================================================================
