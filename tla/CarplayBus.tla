----------------------------- MODULE CarplayBus -----------------------------
(***************************************************************************)
(* The Java side of the bus, framework/CarplayBus.java: a ServerSocket,    *)
(* one IO thread that accepts a connection and reads it to its end before  *)
(* it accepts the next, and the listener table.                            *)
(*                                                                         *)
(* readFully() blocks until it has all the bytes it asked for, so a step   *)
(* of the reader consumes one chunk; partial holds the chunk whose rest it *)
(* is waiting for.                                                         *)
(***************************************************************************)
EXTENDS BusNet

VARIABLES
  jconn,      \* the connection readerLoop() reads, 0 when it has none
  partial,    \* the chunk whose rest it waits for, NoChunk between frames
  listener,   \* types with a registered listener
  tuned,      \* of those, registered before jconn was accepted
  seen,       \* type -> the last payload given to its listener, 0 for none
  lastLive    \* the last payload a live frame gave to dispatch()

javaVars == <<jconn, partial, listener, tuned, seen, lastLive>>

NoChunk == [part |-> "body",
            frame |-> [kind |-> "end", type |-> NoType, val |-> 0]]
Torn == -1                  \* a payload put together from two frames

JavaTypeOK ==
  /\ jconn \in 0 .. MaxConns
  /\ partial \in Chunk
  /\ listener \subseteq Types /\ tuned \subseteq listener
  /\ seen \in [Types -> Nat \cup {Torn}]
  /\ lastLive \in Nat

JavaInit ==
  /\ jconn = 0 /\ partial = NoChunk
  /\ listener = {} /\ tuned = {}
  /\ seen = [t \in Types |-> 0]
  /\ lastLive = 0

-----------------------------------------------------------------------------
(* closeConnectionLocked(): jconn is closed, what it still held is lost.   *)
DropConnection ==
  /\ ClosePeers({jconn})
  /\ jconn' = 0 /\ partial' = NoChunk

JavaStart ==
  /\ ~server
  /\ server' = TRUE
  /\ UNCHANGED <<conns, fdConn, wire, peer, cut, javaVars>>

(* stop(): the connection in use and those in the backlog are reset.       *)
JavaStop ==
  /\ server
  /\ server' = FALSE
  /\ ClosePeers({c \in Conns : peer[c] \in {"backlog", "reading"}})
  /\ jconn' = 0 /\ partial' = NoChunk
  /\ UNCHANGED <<conns, fdConn, cut, listener, tuned, seen, lastLive>>

JavaAccept ==
  /\ server /\ jconn = 0
  /\ \E c \in Conns :
       /\ peer[c] = "backlog"
       /\ \A d \in Conns : peer[d] = "backlog" => c =< d
       /\ jconn' = c
       /\ peer' = [peer EXCEPT ![c] = "reading"]
  /\ tuned' = listener
  /\ UNCHANGED <<conns, fdConn, wire, cut, server, partial, listener, seen,
                 lastLive>>

-----------------------------------------------------------------------------
(* dispatch(): only a registered listener sees the payload.                *)
Deliver(type, val) ==
  seen' = IF type \in listener THEN [seen EXCEPT ![type] = val] ELSE seen

Dispatch(frame) ==
  /\ Deliver(frame.type, frame.val)
  /\ lastLive' = IF frame.kind = "live" THEN frame.val ELSE lastLive

Completes(chunk) ==
  \/ partial = NoChunk /\ chunk.part = "whole"
  \/ partial.part = "head" /\ chunk.part = "body"
     /\ chunk.frame = partial.frame

Consume == wire' = [wire EXCEPT ![jconn] = Tail(@)] /\ UNCHANGED peer

(* A frame is complete.                                                    *)
ReadFrame(chunk) ==
  /\ Completes(chunk)
  /\ Consume
  /\ partial' = NoChunk
  /\ Dispatch(chunk.frame)
  /\ UNCHANGED jconn

(* A header without its payload, or the first part of a frame.             *)
ReadPart(chunk) ==
  /\ partial = NoChunk /\ chunk.part \in {"head", "piece"}
  /\ Consume
  /\ partial' = chunk
  /\ UNCHANGED <<jconn, seen, lastLive>>

(* A payload where a header should be: "bad magic", the connection ends.   *)
ReadBadMagic(chunk) ==
  /\ partial = NoChunk /\ chunk.part = "body"
  /\ DropConnection
  /\ UNCHANGED <<seen, lastLive>>

(***************************************************************************)
(* The rest of an unfinished frame is taken from another one: there are    *)
(* still too few bytes, or the patched header is refused, or the mixture   *)
(* goes to the listener, after which the stream may be aligned again.      *)
(***************************************************************************)
ReadMixture(chunk) ==
  /\ partial # NoChunk /\ ~Completes(chunk)
  /\ UNCHANGED lastLive
  /\ \/ Consume /\ UNCHANGED <<partial, jconn, seen>>
     \/ /\ chunk.frame # partial.frame
        /\ DropConnection /\ UNCHANGED seen
     \/ /\ chunk.frame # partial.frame
        /\ Deliver(partial.frame.type, Torn)
        /\ \/ Consume /\ partial' = NoChunk /\ UNCHANGED jconn
           \/ DropConnection

JavaRead ==
  /\ jconn # 0 /\ wire[jconn] # << >>
  /\ LET chunk == Head(wire[jconn]) IN
       \/ ReadFrame(chunk)
       \/ ReadPart(chunk)
       \/ ReadBadMagic(chunk)
       \/ ReadMixture(chunk)
  /\ UNCHANGED <<conns, fdConn, cut, server, listener, tuned>>

(* The hook has closed its end and everything it sent has been read.       *)
JavaEof ==
  /\ jconn # 0 /\ wire[jconn] = << >> /\ ~HookEndOpen(jconn)
  /\ DropConnection
  /\ UNCHANGED <<conns, fdConn, cut, server, listener, tuned, seen, lastLive>>

-----------------------------------------------------------------------------
(* on() and off(), called by RouteGuidance and CoverArt.                   *)
Subscribe(t) ==
  /\ t \notin listener
  /\ listener' = listener \cup {t}
  /\ UNCHANGED <<netVars, jconn, partial, tuned, seen, lastLive>>

Unsubscribe(t) ==
  /\ t \in listener
  /\ listener' = listener \ {t} /\ tuned' = tuned \ {t}
  /\ seen' = [seen EXCEPT ![t] = 0]
  /\ UNCHANGED <<netVars, jconn, partial, lastLive>>

ReaderStep == JavaAccept \/ JavaRead \/ JavaEof

JavaNext ==
  \/ JavaStart
  \/ JavaStop
  \/ ReaderStep
  \/ \E t \in Types : Subscribe(t) \/ Unsubscribe(t)
=============================================================================
