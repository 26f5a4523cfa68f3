------------------------------- MODULE BusNet -------------------------------
(***************************************************************************)
(* The loopback TCP link 127.0.0.1:19810 between libcarplay_hook.so (the   *)
(* client, inside dio_manager) and carplay_hook.jar (the server, inside    *)
(* lsd): connections, the descriptors the hook holds on them and the bytes *)
(* in flight.  It is the operating system's part of the bus, modelled from *)
(* the way bus.c and CarplayBus.java use it.                               *)
(*                                                                         *)
(* A payload is its identity: val is the number of the bus_send() call     *)
(* that produced it, counted over all processes.  The frame's seq field is *)
(* left out, no receiver reads it.  A frame reaches a stream in chunks,    *)
(* because the hook issues one send() for the header and one for the       *)
(* payload and either may stop half way.                                   *)
(***************************************************************************)
EXTENDS Integers, Sequences, FiniteSets

CONSTANTS
  Types,      \* bus types published with BUS_FLAG_STICKY (their wire ids)
  Fds,        \* descriptor numbers the hook's sockets can get
  NoFd,       \* "no descriptor", -1 in bus.c
  MaxConns,   \* bound: connections made in one behaviour
  MaxCut      \* bound: connections on which a send() runs into its timeout

ASSUME TypesAssumption == Types \subseteq Nat
ASSUME FdsAssumption   == NoFd \notin Fds
ASSUME BoundAssumption == MaxConns \in Nat /\ MaxCut \in Nat

NoType == -1                              \* HELLO, SYNC_BEGIN and SYNC_END
Conns  == 1 .. MaxConns

(***************************************************************************)
(* part "whole": header and payload;  "head": the header alone;  "body":   *)
(* the payload alone;  "piece": what a send() that ran into SO_SNDTIMEO    *)
(* had already pushed out.                                                 *)
(***************************************************************************)
Parts == {"whole", "head", "body", "piece"}
Kinds == {"hello", "begin", "replay", "end", "live"}
Frame == [kind : Kinds, type : Types \cup {NoType}, val : Nat]
Chunk == [part : Parts, frame : Frame]

VARIABLES
  conns,      \* connections made so far; connection numbers are 1 .. conns
  fdConn,     \* descriptor -> the connection it is open on, 0 when closed
  wire,       \* connection -> chunks Java has not read yet, in order
  peer,       \* connection -> Java's end of it
  cut,        \* connections on which a send() has timed out
  server      \* Java's ServerSocket is bound

netVars == <<conns, fdConn, wire, peer, cut, server>>

PeerStates == {"none", "backlog", "reading", "closed"}

NetTypeOK ==
  /\ conns \in 0 .. MaxConns
  /\ fdConn \in [Fds -> 0 .. MaxConns]
  /\ wire \in [Conns -> Seq(Chunk)]
  /\ peer \in [Conns -> PeerStates]
  /\ cut \subseteq Conns
  /\ server \in BOOLEAN

NetInit ==
  /\ conns = 0
  /\ fdConn = [fd \in Fds |-> 0]
  /\ wire = [c \in Conns |-> << >>]
  /\ peer = [c \in Conns |-> "none"]
  /\ cut = {}
  /\ server = FALSE

(***************************************************************************)
(* Bytes sent on fd reach Java only if fd is still one of the bus sockets  *)
(* and Java has not closed its end; anything else swallows them.           *)
(***************************************************************************)
Reaches(fd) == fdConn[fd] # 0 /\ peer[fdConn[fd]] \in {"backlog", "reading"}

PutOnWire(fd, part, frame) ==
  wire' = IF Reaches(fd)
          THEN [wire EXCEPT ![fdConn[fd]] =
                  Append(@, [part |-> part, frame |-> frame])]
          ELSE wire

(***************************************************************************)
(* What one send() may do.  On a connection Java keeps open it fails only  *)
(* by running into the 500 ms SO_SNDTIMEO, a piece of what it was given    *)
(* already gone or not; on anything else it may report success (the reset  *)
(* arrives later) or fail, and moves nothing to Java.                      *)
(***************************************************************************)
SendOk(fd, part, frame) == PutOnWire(fd, part, frame) /\ UNCHANGED cut

SendFails(fd, frame) ==
  \/ /\ Reaches(fd)
     /\ cut' = cut \cup {fdConn[fd]}
     /\ Cardinality(cut') =< MaxCut
     /\ PutOnWire(fd, "piece", frame) \/ UNCHANGED wire
  \/ /\ ~Reaches(fd)
     /\ UNCHANGED <<wire, cut>>

(***************************************************************************)
(* socket() + connect(): the connection waits in Java's backlog until      *)
(* accept() takes it; fd is whichever number the kernel hands out.         *)
(***************************************************************************)
OpenFd(fd) ==
  /\ server
  /\ conns < MaxConns
  /\ fdConn[fd] = 0
  /\ conns' = conns + 1
  /\ fdConn' = [fdConn EXCEPT ![fd] = conns + 1]
  /\ peer' = [peer EXCEPT ![conns + 1] = "backlog"]
  /\ UNCHANGED <<wire, cut, server>>

CloseFd(fd) == fdConn' = [fdConn EXCEPT ![fd] = 0]

PeerClosed(fd) == fdConn[fd] # 0 /\ peer[fdConn[fd]] = "closed"

HookEndOpen(c) == \E fd \in Fds : fdConn[fd] = c

(***************************************************************************)
(* Java closes its end of the connections in set, unread bytes are lost.   *)
(***************************************************************************)
ClosePeers(set) ==
  /\ peer' = [c \in Conns |-> IF c \in set THEN "closed" ELSE peer[c]]
  /\ wire' = [c \in Conns |-> IF c \in set THEN << >> ELSE wire[c]]
=============================================================================
