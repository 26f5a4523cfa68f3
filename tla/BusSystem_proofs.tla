-------------------------- MODULE BusSystem_proofs --------------------------
(***************************************************************************)
(* Proofs that the bus leaks no socket, keeps live traffic in order,       *)
(* implements the channel of StickyChannel, tears no frame and loses no    *)
(* last value, for every number of connections, publications, respawns,    *)
(* descriptors and types and every capacity of the ring, whatever the      *)
(* timeouts.                                                               *)
(***************************************************************************)
EXTENDS BusSystem, TLAPS, SequenceTheorems

USE TypesAssumption, FdsAssumption, BoundAssumption, QueueAssumption,
    HookBoundAssumption
    DEF TypesAssumption, FdsAssumption, BoundAssumption, QueueAssumption,
        HookBoundAssumption

(* What a send() leaves on the wires is again sequences of chunks.         *)
LEMMA SendTyped ==
  ASSUME NetTypeOK, NEW fd \in Fds, NEW part \in Parts, NEW frame \in Frame,
         SendOk(fd, part, frame) \/ SendFails(fd, frame)
  PROVE  wire' \in [Conns -> Seq(Chunk)] /\ cut' \subseteq Conns
<1>1. Reaches(fd) => fdConn[fd] \in Conns
  BY DEF NetTypeOK, Reaches, Conns
<1>2. ASSUME NEW p \in Parts, PutOnWire(fd, p, frame)
      PROVE  wire' \in [Conns -> Seq(Chunk)]
  <2>1. [part |-> p, frame |-> frame] \in Chunk
    BY <1>2 DEF Chunk
  <2>2. ASSUME Reaches(fd)
        PROVE  Append(wire[fdConn[fd]], [part |-> p, frame |-> frame])
                 \in Seq(Chunk)
    BY <2>1, <2>2, <1>1 DEF NetTypeOK
  <2>3. QED
    BY <1>1, <1>2, <2>2 DEF PutOnWire, NetTypeOK
<1>3. "piece" \in Parts
  BY DEF Parts
<1>4. QED
  BY <1>1, <1>2, <1>3 DEF SendOk, SendFails, NetTypeOK

(* Every frame the two threads make is a Frame.                            *)
LEMMA FramesTyped ==
  ASSUME HookTypeOK
  PROVE  /\ Hello \in Frame /\ SyncBegin \in Frame /\ SyncEnd \in Frame
         /\ \A t \in Types : Replay(t) \in Frame
         /\ Live \in Frame
BY DEF HookTypeOK, Hello, SyncBegin, SyncEnd, Replay, Live, Frame, Kinds,
       Entry, NoEntry

LEMMA InitSocketInv == Init => SocketInv
<1> SUFFICES ASSUME Init PROVE SocketInv
  OBVIOUS
<1> USE DEF Init, NetInit, HookInit, JavaInit
<1>1. NetTypeOK
  <2>1. wire \in [Conns -> Seq(Chunk)]
    OBVIOUS
  <2>2. peer \in [Conns -> PeerStates] /\ cut \subseteq Conns
    BY DEF PeerStates
  <2>3. conns \in 0 .. MaxConns /\ fdConn \in [Fds -> 0 .. MaxConns]
    OBVIOUS
  <2>4. QED
    BY <2>1, <2>2, <2>3 DEF NetTypeOK
<1>2. HookTypeOK
  BY DEF HookTypeOK, NoValues, ConnectorPcs, WriterPcs, NoEntry, Entry
<1>3. JavaTypeOK
  BY DEF JavaTypeOK, NoChunk, Chunk, Frame, Parts, Kinds
<1>4. ThreadLocals /\ Exposure /\ NoStaleFd /\ OneSocket
  BY DEF ThreadLocals, Exposure, NoStaleFd, OneSocket
<1>5. QED
  BY <1>1, <1>2, <1>3, <1>4 DEF SocketInv, TypeOK

(* Type correctness of the hook's variables.                               *)
LEMMA HookTypePreserved ==
  ASSUME HookTypeOK, ThreadLocals, OneSocket, HookNext
  PROVE  HookTypeOK'
<1> USE DEF HookTypeOK, ThreadLocals, OneSocket, ConnectorPcs, WriterPcs,
            NoValues, netVars, prodVars, connVars, writVars
<1>1. ASSUME NEW t \in Types, Publish(t)
      PROVE  HookTypeOK'
  <2>1. pub + 1 \in Nat /\ [type |-> t, val |-> pub + 1] \in Entry
    BY DEF Entry
  <2>2. ring' \in Seq(Entry) /\ Len(ring') =< QueueCapacity
    <3>1. CASE Len(ring) < QueueCapacity
      <4>1. ring' = Append(ring, [type |-> t, val |-> pub + 1])
        BY <1>1, <3>1 DEF Publish, RingHasRoom, Cache
      <4>2. QED
        BY <2>1, <3>1, <4>1, AppendProperties
    <3>2. CASE ~(Len(ring) < QueueCapacity)
      BY <1>1, <3>2 DEF Publish, RingHasRoom, Cache
    <3>3. QED
      BY <3>1, <3>2
  <2>3. /\ latest' \in [Types -> Nat] /\ sticky' \in [Types -> Nat]
        /\ pub' \in 0 .. MaxPublish
    <3>1. /\ pub < MaxPublish /\ pub' = pub + 1
          /\ latest' = [latest EXCEPT ![t] = pub + 1]
          /\ sticky' = [sticky EXCEPT ![t] = pub + 1]
      BY <1>1 DEF Publish, RingHasRoom, Cache
    <3>2. QED
      BY <2>1, <3>1
  <2>4. wPc' \in WriterPcs /\ wFd' = wFd /\ wFrame' = wFrame
        /\ missed' \subseteq Types
    BY <1>1 DEF Publish, RingHasRoom, Cache, WakeWriter
  <2>5. QED
    BY <1>1, <2>2, <2>3, <2>4 DEF Publish, RingHasRoom, Cache
<1>2. ASSUME Connect
      PROVE  HookTypeOK'
  BY <1>2 DEF Connect, OpenFd
<1>3. ASSUME SendHello
      PROVE  HookTypeOK'
  BY <1>3 DEF SendHello, HelloSent, HelloFailed, SockWriteFree, CloseFd
<1>4. ASSUME TakeSnapshot
      PROVE  HookTypeOK'
  BY <1>4 DEF TakeSnapshot
<1>5. ASSUME SendSyncBegin
      PROVE  HookTypeOK'
  BY <1>5 DEF SendSyncBegin, SendIgnoringResult, AfterReplay
<1>6. ASSUME NEW t \in Types, SendReplay(t)
      PROVE  HookTypeOK'
  BY <1>6 DEF SendReplay, SendIgnoringResult, AfterReplay
<1>7. ASSUME SendSyncEnd
      PROVE  HookTypeOK'
  BY <1>7 DEF SendSyncEnd, SendIgnoringResult
<1>8. ASSUME Expose
      PROVE  HookTypeOK'
  BY <1>8 DEF Expose, WakeWriter, CloseFd
<1>9. ASSUME NoticeLost
      PROVE  HookTypeOK'
  BY <1>9 DEF NoticeLost
<1>10. ASSUME NoticePeerClosed
      PROVE  HookTypeOK'
  BY <1>10 DEF NoticePeerClosed, DropCurrent, WakeWriter, CloseFd
<1>11. ASSUME WriterWaits
      PROVE  HookTypeOK'
  BY <1>11 DEF WriterWaits
<1>12. ASSUME WriterDequeues
      PROVE  HookTypeOK'
  <2>1. Head(ring) \in Entry /\ Tail(ring) \in Seq(Entry)
        /\ Len(Tail(ring)) =< QueueCapacity
    BY <1>12, HeadTailProperties DEF WriterDequeues, Dequeued
  <2>2. QED
    BY <1>12, <2>1 DEF WriterDequeues, Dequeued
<1>13. ASSUME WriterHeader
      PROVE  HookTypeOK'
  BY <1>13 DEF WriterHeader, WriterSends, FrameDone
<1>14. ASSUME WriterPayload
      PROVE  HookTypeOK'
  BY <1>14 DEF WriterPayload, WriterSends, FrameDone
<1>15. ASSUME WriterFails
      PROVE  HookTypeOK'
  BY <1>15 DEF WriterFails, DropCurrent, FrameDone, CloseFd
<1>16. ASSUME SpuriousWakeup
      PROVE  HookTypeOK'
  BY <1>16 DEF SpuriousWakeup, WakeWriter
<1>17. ASSUME HookRestart
      PROVE  HookTypeOK'
  BY <1>17 DEF HookRestart
<1>18. QED
  BY <1>1, <1>2, <1>3, <1>4, <1>5, <1>6, <1>7, <1>8, <1>9, <1>10, <1>11,
     <1>12, <1>13, <1>14, <1>15, <1>16, <1>17
     DEF HookNext, ConnectorStep, WriterStep

(* The threads' locals, and who may hold an open descriptor.               *)
LEMMA SocketsPreserved ==
  ASSUME NetTypeOK, HookTypeOK, ThreadLocals, Exposure,
         NoStaleFd, OneSocket, HookNext
  PROVE  (ThreadLocals /\ Exposure /\ NoStaleFd /\ OneSocket)'
<1> USE DEF ThreadLocals, Exposure, NoStaleFd, OneSocket,
            netVars, prodVars, connVars, writVars
<1>1. ASSUME NEW t \in Types, Publish(t)
      PROVE  (ThreadLocals /\ Exposure /\ NoStaleFd /\ OneSocket)'
  BY <1>1 DEF Publish, RingHasRoom, Cache, WakeWriter
<1>2. ASSUME Connect
      PROVE  (ThreadLocals /\ Exposure /\ NoStaleFd /\ OneSocket)'
  BY <1>2 DEF Connect, OpenFd, NetTypeOK
<1>3. ASSUME SendHello
      PROVE  (ThreadLocals /\ Exposure /\ NoStaleFd /\ OneSocket)'
  BY <1>3 DEF SendHello, HelloSent, HelloFailed, SockWriteFree, CloseFd, NetTypeOK, HookTypeOK
<1>4. ASSUME TakeSnapshot
      PROVE  (ThreadLocals /\ Exposure /\ NoStaleFd /\ OneSocket)'
  BY <1>4 DEF TakeSnapshot
<1>5. ASSUME SendSyncBegin
      PROVE  (ThreadLocals /\ Exposure /\ NoStaleFd /\ OneSocket)'
  BY <1>5 DEF SendSyncBegin, SendIgnoringResult, AfterReplay
<1>6. ASSUME NEW t \in Types, SendReplay(t)
      PROVE  (ThreadLocals /\ Exposure /\ NoStaleFd /\ OneSocket)'
  BY <1>6 DEF SendReplay, SendIgnoringResult, AfterReplay
<1>7. ASSUME SendSyncEnd
      PROVE  (ThreadLocals /\ Exposure /\ NoStaleFd /\ OneSocket)'
  BY <1>7 DEF SendSyncEnd, SendIgnoringResult
<1>8. ASSUME Expose
      PROVE  (ThreadLocals /\ Exposure /\ NoStaleFd /\ OneSocket)'
  BY <1>8 DEF Expose, WakeWriter, CloseFd
<1>9. ASSUME NoticeLost
      PROVE  (ThreadLocals /\ Exposure /\ NoStaleFd /\ OneSocket)'
  BY <1>9 DEF NoticeLost
<1>10. ASSUME NoticePeerClosed
      PROVE  (ThreadLocals /\ Exposure /\ NoStaleFd /\ OneSocket)'
  BY <1>10 DEF NoticePeerClosed, DropCurrent, WakeWriter, CloseFd, NetTypeOK, HookTypeOK, PeerClosed
<1>11. ASSUME WriterWaits
      PROVE  (ThreadLocals /\ Exposure /\ NoStaleFd /\ OneSocket)'
  BY <1>11 DEF WriterWaits
<1>12. ASSUME WriterDequeues
      PROVE  (ThreadLocals /\ Exposure /\ NoStaleFd /\ OneSocket)'
  <2>1. Head(ring) \in Entry
    BY <1>12 DEF WriterDequeues, Dequeued, HookTypeOK
  <2>2. Head(ring) # NoEntry
    BY <2>1 DEF Entry, NoEntry, NoType
  <2>3. QED
    BY <1>12, <2>2 DEF WriterDequeues, Dequeued, HookTypeOK
<1>13. ASSUME WriterHeader
      PROVE  (ThreadLocals /\ Exposure /\ NoStaleFd /\ OneSocket)'
  BY <1>13 DEF WriterHeader, WriterSends, FrameDone
<1>14. ASSUME WriterPayload
      PROVE  (ThreadLocals /\ Exposure /\ NoStaleFd /\ OneSocket)'
  BY <1>14 DEF WriterPayload, WriterSends, FrameDone
<1>15. ASSUME WriterFails
      PROVE  (ThreadLocals /\ Exposure /\ NoStaleFd /\ OneSocket)'
  BY <1>15 DEF WriterFails, DropCurrent, FrameDone, CloseFd, NetTypeOK, HookTypeOK
<1>16. ASSUME SpuriousWakeup
      PROVE  (ThreadLocals /\ Exposure /\ NoStaleFd /\ OneSocket)'
  BY <1>16 DEF SpuriousWakeup, WakeWriter
<1>17. ASSUME HookRestart
      PROVE  (ThreadLocals /\ Exposure /\ NoStaleFd /\ OneSocket)'
  BY <1>17 DEF HookRestart
<1>18. QED
  BY <1>1, <1>2, <1>3, <1>4, <1>5, <1>6, <1>7, <1>8, <1>9, <1>10, <1>11,
     <1>12, <1>13, <1>14, <1>15, <1>16, <1>17
     DEF HookNext, ConnectorStep, WriterStep

LEMMA NoChunkTyped == NoChunk \in Chunk
BY DEF NoChunk, Chunk, Frame, Parts, Kinds

(* Type correctness of the Java side's variables.                          *)
LEMMA JavaTypePreserved ==
  ASSUME NetTypeOK, JavaTypeOK, JavaNext
  PROVE  JavaTypeOK'
<1> USE DEF JavaTypeOK, netVars, javaVars
<1>1. ASSUME JavaStart
      PROVE  JavaTypeOK'
  BY <1>1 DEF JavaStart
<1>2. ASSUME JavaStop
      PROVE  JavaTypeOK'
  BY <1>2, NoChunkTyped DEF JavaStop
<1>3. ASSUME JavaAccept
      PROVE  JavaTypeOK'
  BY <1>3 DEF JavaAccept, NetTypeOK, Conns
<1>4. ASSUME JavaRead
      PROVE  JavaTypeOK'
  <2> DEFINE chunk == Head(wire[jconn])
  <2>1. chunk \in Chunk /\ chunk.frame.val \in Nat /\ partial.frame \in Frame
    <3>1. jconn \in Conns /\ wire[jconn] \in Seq(Chunk) /\ wire[jconn] # << >>
      BY <1>4 DEF JavaRead, NetTypeOK, Conns
    <3>2. chunk \in Chunk
      BY <3>1, HeadTailProperties
    <3>3. QED
      BY <3>2 DEF Chunk, Frame
  <2>2. jconn' \in 0 .. MaxConns /\ partial' \in Chunk
    BY <1>4, <2>1, NoChunkTyped DEF JavaRead, ReadFrame, ReadPart, ReadBadMagic,
       ReadMixture, DropConnection
  <2>3. ASSUME NEW ty, NEW v \in Nat \cup {Torn}, Deliver(ty, v)
        PROVE  seen' \in [Types -> Nat \cup {Torn}]
    BY <2>3 DEF Deliver
  <2>4. seen' \in [Types -> Nat \cup {Torn}] /\ lastLive' \in Nat
    BY <1>4, <2>1, <2>3 DEF JavaRead, ReadFrame, ReadPart, ReadBadMagic,
       ReadMixture, Dispatch
  <2>5. QED
    BY <1>4, <2>2, <2>4 DEF JavaRead
<1>5. ASSUME JavaEof
      PROVE  JavaTypeOK'
  BY <1>5, NoChunkTyped DEF JavaEof, DropConnection
<1>6. ASSUME NEW t \in Types, Subscribe(t)
      PROVE  JavaTypeOK'
  BY <1>6 DEF Subscribe
<1>7. ASSUME NEW t \in Types, Unsubscribe(t)
      PROVE  JavaTypeOK'
  BY <1>7 DEF Unsubscribe
<1>8. QED
  BY <1>1, <1>2, <1>3, <1>4, <1>5, <1>6, <1>7
     DEF JavaNext, ReaderStep

(* Closing a descriptor leaves the table of descriptors well typed.        *)
LEMMA CloseFdTyped ==
  ASSUME NetTypeOK, NEW fd, CloseFd(fd)
  PROVE  fdConn' \in [Fds -> 0 .. MaxConns]
<1>1. 0 \in 0 .. MaxConns
  OBVIOUS
<1>2. fdConn \in [Fds -> 0 .. MaxConns] /\ fdConn' = [fdConn EXCEPT ![fd] = 0]
  BY DEF CloseFd, NetTypeOK
<1>3. QED
  BY <1>1, <1>2

(* Type correctness of the link, in the steps of the hook ...             *)
LEMMA HookNetTypePreserved ==
  ASSUME NetTypeOK, HookTypeOK, ThreadLocals, HookNext
  PROVE  NetTypeOK'
<1> USE DEF netVars
<1>1. ASSUME NEW t \in Types, Publish(t)
      PROVE  NetTypeOK'
  BY <1>1 DEF Publish, RingHasRoom, Cache, WakeWriter, NetTypeOK
<1>2. ASSUME Connect
      PROVE  NetTypeOK'
  BY <1>2 DEF Connect, OpenFd, NetTypeOK, Conns, PeerStates
<1>3. ASSUME SendHello
      PROVE  NetTypeOK'
  <2>1. cFd \in Fds /\ Hello \in Frame /\ "whole" \in Parts
    BY <1>3, FramesTyped DEF SendHello, HelloSent, HelloFailed, HookTypeOK, ThreadLocals, Parts
  <2>2. wire' \in [Conns -> Seq(Chunk)] /\ cut' \subseteq Conns
    BY <1>3, <2>1, SendTyped DEF SendHello, HelloSent, HelloFailed
  <2>3. fdConn' \in [Fds -> 0 .. MaxConns]
    BY <1>3, CloseFdTyped DEF SendHello, HelloSent, HelloFailed, NetTypeOK
  <2>4. QED
    BY <1>3, <2>1, <2>2, <2>3 DEF SendHello, HelloSent, HelloFailed, NetTypeOK
<1>4. ASSUME TakeSnapshot
      PROVE  NetTypeOK'
  BY <1>4 DEF TakeSnapshot, NetTypeOK
<1>5. ASSUME SendSyncBegin
      PROVE  NetTypeOK'
  <2>1. cFd \in Fds /\ SyncBegin \in Frame /\ "whole" \in Parts
    BY <1>5, FramesTyped DEF SendSyncBegin, HookTypeOK, ThreadLocals, Parts
  <2>2. wire' \in [Conns -> Seq(Chunk)] /\ cut' \subseteq Conns
    BY <1>5, <2>1, SendTyped DEF SendSyncBegin, SendIgnoringResult
  <2>3. QED
    BY <1>5, <2>1, <2>2 DEF SendSyncBegin, SendIgnoringResult, NetTypeOK
<1>6. ASSUME NEW t \in Types, SendReplay(t)
      PROVE  NetTypeOK'
  <2>1. cFd \in Fds /\ Replay(t) \in Frame /\ "whole" \in Parts
    BY <1>6, FramesTyped DEF SendReplay, HookTypeOK, ThreadLocals, Parts
  <2>2. wire' \in [Conns -> Seq(Chunk)] /\ cut' \subseteq Conns
    BY <1>6, <2>1, SendTyped DEF SendReplay, SendIgnoringResult
  <2>3. QED
    BY <1>6, <2>1, <2>2 DEF SendReplay, SendIgnoringResult, NetTypeOK
<1>7. ASSUME SendSyncEnd
      PROVE  NetTypeOK'
  <2>1. cFd \in Fds /\ SyncEnd \in Frame /\ "whole" \in Parts
    BY <1>7, FramesTyped DEF SendSyncEnd, HookTypeOK, ThreadLocals, Parts
  <2>2. wire' \in [Conns -> Seq(Chunk)] /\ cut' \subseteq Conns
    BY <1>7, <2>1, SendTyped DEF SendSyncEnd, SendIgnoringResult
  <2>3. QED
    BY <1>7, <2>1, <2>2 DEF SendSyncEnd, SendIgnoringResult, NetTypeOK
<1>8. ASSUME Expose
      PROVE  NetTypeOK'
  BY <1>8 DEF Expose, WakeWriter, CloseFd, NetTypeOK
<1>9. ASSUME NoticeLost
      PROVE  NetTypeOK'
  BY <1>9 DEF NoticeLost, NetTypeOK
<1>10. ASSUME NoticePeerClosed
      PROVE  NetTypeOK'
  <2>1. fdConn' \in [Fds -> 0 .. MaxConns]
    BY <1>10, CloseFdTyped DEF NoticePeerClosed, DropCurrent
  <2>2. QED
    BY <1>10, <2>1 DEF NoticePeerClosed, DropCurrent, NetTypeOK
<1>11. ASSUME WriterWaits
      PROVE  NetTypeOK'
  BY <1>11 DEF WriterWaits, NetTypeOK
<1>12. ASSUME WriterDequeues
      PROVE  NetTypeOK'
  BY <1>12 DEF WriterDequeues, Dequeued, NetTypeOK
<1>13. ASSUME WriterHeader
      PROVE  NetTypeOK'
  <2>1. wFd \in Fds /\ Live \in Frame /\ "head" \in Parts
    BY <1>13, FramesTyped DEF WriterHeader, HookTypeOK, ThreadLocals, Parts
  <2>2. wire' \in [Conns -> Seq(Chunk)] /\ cut' \subseteq Conns
    BY <1>13, <2>1, SendTyped DEF WriterHeader, WriterSends
  <2>3. QED
    BY <1>13, <2>1, <2>2 DEF WriterHeader, WriterSends, NetTypeOK
<1>14. ASSUME WriterPayload
      PROVE  NetTypeOK'
  <2>1. wFd \in Fds /\ Live \in Frame /\ "body" \in Parts
    BY <1>14, FramesTyped DEF WriterPayload, HookTypeOK, ThreadLocals, Parts
  <2>2. wire' \in [Conns -> Seq(Chunk)] /\ cut' \subseteq Conns
    BY <1>14, <2>1, SendTyped DEF WriterPayload, WriterSends
  <2>3. QED
    BY <1>14, <2>1, <2>2 DEF WriterPayload, WriterSends, NetTypeOK
<1>15. ASSUME WriterFails
      PROVE  NetTypeOK'
  BY <1>15 DEF WriterFails, DropCurrent, FrameDone, CloseFd, NetTypeOK
<1>16. ASSUME SpuriousWakeup
      PROVE  NetTypeOK'
  BY <1>16 DEF SpuriousWakeup, WakeWriter, NetTypeOK
<1>17. ASSUME HookRestart
      PROVE  NetTypeOK'
  BY <1>17 DEF HookRestart, NetTypeOK
<1>18. QED
  BY <1>1, <1>2, <1>3, <1>4, <1>5, <1>6, <1>7, <1>8, <1>9, <1>10, <1>11,
     <1>12, <1>13, <1>14, <1>15, <1>16, <1>17
     DEF HookNext, ConnectorStep, WriterStep

(* ... and of Java.                                                        *)
LEMMA ClosePeersTyped ==
  ASSUME NetTypeOK, NEW set, ClosePeers(set)
  PROVE  wire' \in [Conns -> Seq(Chunk)] /\ peer' \in [Conns -> PeerStates]
BY DEF ClosePeers, NetTypeOK, PeerStates

LEMMA JavaNetTypePreserved ==
  ASSUME NetTypeOK, JavaTypeOK, JavaNext
  PROVE  NetTypeOK'
<1> USE DEF netVars
<1>1. ASSUME JavaStart
      PROVE  NetTypeOK'
  BY <1>1 DEF JavaStart, NetTypeOK
<1>2. ASSUME JavaStop
      PROVE  NetTypeOK'
  <2>1. wire' \in [Conns -> Seq(Chunk)] /\ peer' \in [Conns -> PeerStates]
    BY <1>2, ClosePeersTyped DEF JavaStop
  <2>2. QED
    BY <1>2, <2>1 DEF JavaStop, NetTypeOK
<1>3. ASSUME JavaAccept
      PROVE  NetTypeOK'
  BY <1>3 DEF JavaAccept, NetTypeOK, PeerStates
<1>4. ASSUME JavaRead
      PROVE  NetTypeOK'
  <2>1. jconn \in Conns /\ wire[jconn] \in Seq(Chunk) /\ wire[jconn] # << >>
    BY <1>4 DEF JavaRead, NetTypeOK, JavaTypeOK, Conns
  <2>2. Consume \/ DropConnection
    BY <1>4 DEF JavaRead, ReadFrame, ReadPart, ReadBadMagic, ReadMixture
  <2>3. ASSUME Consume
        PROVE  wire' \in [Conns -> Seq(Chunk)] /\ peer' \in [Conns -> PeerStates]
    <3>1. Tail(wire[jconn]) \in Seq(Chunk)
      BY <2>1, HeadTailProperties
    <3>2. QED
      BY <2>3, <3>1 DEF Consume, NetTypeOK
  <2>4. ASSUME DropConnection
        PROVE  wire' \in [Conns -> Seq(Chunk)] /\ peer' \in [Conns -> PeerStates]
    BY <2>4, ClosePeersTyped DEF DropConnection
  <2>5. QED
    BY <1>4, <2>2, <2>3, <2>4 DEF JavaRead, NetTypeOK
<1>5. ASSUME JavaEof
      PROVE  NetTypeOK'
  <2>1. wire' \in [Conns -> Seq(Chunk)] /\ peer' \in [Conns -> PeerStates]
    BY <1>5, ClosePeersTyped DEF JavaEof, DropConnection
  <2>2. QED
    BY <1>5, <2>1 DEF JavaEof, NetTypeOK
<1>6. ASSUME NEW t \in Types, Subscribe(t)
      PROVE  NetTypeOK'
  BY <1>6 DEF Subscribe, NetTypeOK
<1>7. ASSUME NEW t \in Types, Unsubscribe(t)
      PROVE  NetTypeOK'
  BY <1>7 DEF Unsubscribe, NetTypeOK
<1>8. QED
  BY <1>1, <1>2, <1>3, <1>4, <1>5, <1>6, <1>7
     DEF JavaNext, ReaderStep

LEMMA NextSocketInv == SocketInv /\ [Next]_vars => SocketInv'
<1> SUFFICES ASSUME SocketInv, [Next]_vars PROVE SocketInv'
  OBVIOUS
<1> USE DEF SocketInv, TypeOK
<1>1. CASE HookSide
  <2>1. NetTypeOK' /\ HookTypeOK'
    BY <1>1, HookNetTypePreserved, HookTypePreserved DEF HookSide
  <2>2. JavaTypeOK'
    BY <1>1 DEF HookSide, JavaTypeOK, javaVars
  <2>3. (ThreadLocals /\ Exposure /\ NoStaleFd /\ OneSocket)'
    BY <1>1, SocketsPreserved DEF HookSide
  <2>4. QED
    BY <2>1, <2>2, <2>3
<1>2. CASE JavaSide
  <2>1. NetTypeOK' /\ JavaTypeOK'
    BY <1>2, JavaNetTypePreserved, JavaTypePreserved DEF JavaSide
  <2>2. HookTypeOK'
    BY <1>2 DEF JavaSide, HookTypeOK, hookVars
  <2>3. UNCHANGED fdConn
    BY <1>2 DEF JavaSide, JavaNext, ReaderStep, JavaStart, JavaStop, JavaAccept,
       JavaRead, JavaEof, Subscribe, Unsubscribe, netVars
  <2>4. (ThreadLocals /\ Exposure /\ NoStaleFd /\ OneSocket)'
    BY <1>2, <2>3 DEF JavaSide, ThreadLocals, Exposure, NoStaleFd, OneSocket,
       hookVars
  <2>5. QED
    BY <2>1, <2>2, <2>4
<1>3. CASE UNCHANGED vars
  BY <1>3 DEF vars, netVars, hookVars, javaVars, NetTypeOK, HookTypeOK,
     JavaTypeOK, ThreadLocals, Exposure, NoStaleFd, OneSocket
<1>4. QED
  BY <1>1, <1>2, <1>3 DEF Next

(***************************************************************************)
(* The bus is type correct, the defensive close of a stale descriptor      *)
(* (bus.c:565-567) is dead code, and no socket is leaked or closed twice.  *)
(***************************************************************************)
THEOREM SocketsCorrect == Spec => [](TypeOK /\ NoStaleFd /\ OneSocket)
<1>1. SocketInv => TypeOK /\ NoStaleFd /\ OneSocket
  BY DEF SocketInv
<1>2. QED
  BY InitSocketInv, NextSocketInv, <1>1, PTL DEF Spec

HIDE DEF TypesAssumption, FdsAssumption, BoundAssumption, QueueAssumption,
         HookBoundAssumption

-----------------------------------------------------------------------------
New(p, f) == [part |-> p, frame |-> f]

(* What is on a wire is a chunk, what is in the ring an entry.             *)
LEMMA ChunkTyped ==
  ASSUME NetTypeOK, NEW c \in Conns
  PROVE  /\ wire[c] \in Seq(Chunk) /\ Len(wire[c]) \in Nat
         /\ \A i \in 1 .. Len(wire[c]) : wire[c][i] \in Chunk
BY DEF NetTypeOK

LEMMA ChunkFields ==
  ASSUME NEW x \in Chunk
  PROVE  /\ x.part \in Parts /\ x.frame \in Frame
         /\ x.frame.kind \in Kinds /\ x.frame.type \in Types \cup {NoType}
         /\ x.frame.val \in Nat
BY DEF Chunk, Frame

LEMMA EntryTyped ==
  ASSUME HookTypeOK
  PROVE  /\ Len(ring) \in Nat
         /\ \A j \in 1 .. Len(ring) :
              ring[j] \in Entry /\ ring[j].type \in Types /\ ring[j].val \in Nat
         /\ wFrame.val \in Nat
         /\ wFrame # NoEntry => wFrame.type \in Types
<1>1. ring \in Seq(Entry) /\ wFrame \in Entry \cup {NoEntry}
  BY DEF HookTypeOK
<1>2. /\ Len(ring) \in Nat
      /\ \A j \in 1 .. Len(ring) : ring[j] \in Entry
  BY <1>1
<1>3. \A e \in Entry : e.type \in Types /\ e.val \in Nat
  BY DEF Entry
<1>4. NoEntry.val = 0
  BY DEF NoEntry
<1>5. QED
  BY <1>1, <1>2, <1>3, <1>4

(* A chunk added at the far end of the newest connection.                  *)
LEMMA PutOrder ==
  ASSUME NetTypeOK, NewestOpen, PeerOrder, WireOrder,
         NEW fd \in Fds, NEW part \in Parts, NEW frame \in Frame,
         PutOnWire(fd, part, frame),
         \A c \in Conns : \A i \in 1 .. Len(wire[c]) :
           InOrder(wire[c][i], New(part, frame))
  PROVE  /\ WireOrder'
         /\ \A c \in Conns : \A i \in 1 .. Len(wire'[c]) :
              \/ i \in 1 .. Len(wire[c]) /\ wire'[c][i] = wire[c][i]
              \/ wire'[c][i] = New(part, frame)
         /\ \A c \in Conns :
              peer[c] \in {"none", "closed"} => wire'[c] = << >>
<1>1. CASE ~Reaches(fd)
  <2>1. wire' = wire
    BY <1>1 DEF PutOnWire
  <2>2. QED
    BY <2>1 DEF WireOrder, PeerOrder
<1>2. CASE Reaches(fd)
  <2> DEFINE n == fdConn[fd]
             x == New(part, frame)
  <2>1. /\ n \in Conns /\ n = conns /\ wire[n] \in Seq(Chunk)
        /\ peer[n] \in {"backlog", "reading"} /\ x \in Chunk
    <3>1. fdConn[fd] \in 0 .. MaxConns /\ n # 0 /\ n = conns
      BY <1>2 DEF NetTypeOK, NewestOpen, Reaches
    <3>2. n \in Conns
      BY <3>1 DEF Conns
    <3>3. wire[n] \in Seq(Chunk) /\ peer[n] \in {"backlog", "reading"}
      BY <1>2, <3>2 DEF NetTypeOK, Reaches
    <3>4. x \in Chunk
      BY DEF New, Chunk
    <3>5. QED
      BY <3>1, <3>2, <3>3, <3>4
  <2>2. wire' = [wire EXCEPT ![n] = Append(wire[n], x)]
    BY <1>2 DEF PutOnWire, New
  <2>3. /\ wire'[n] = Append(wire[n], x)
        /\ \A c \in Conns : c # n => wire'[c] = wire[c]
    BY <2>1, <2>2 DEF NetTypeOK
  <2>4. /\ Len(wire[n]) \in Nat /\ Len(wire'[n]) = Len(wire[n]) + 1
        /\ \A i \in 1 .. Len(wire[n]) : wire'[n][i] = wire[n][i]
        /\ wire'[n][Len(wire[n]) + 1] = x
    BY <2>1, <2>3, AppendProperties
  <2>5. \A c \in Conns : n < c => wire[c] = << >>
    BY <2>1 DEF PeerOrder, Conns
  <2>6. \A c \in Conns : \A i \in 1 .. Len(wire'[c]) :
          \/ i \in 1 .. Len(wire[c]) /\ wire'[c][i] = wire[c][i]
          \/ c = n /\ i = Len(wire[n]) + 1 /\ wire'[c][i] = x
    <3>1. ASSUME NEW c \in Conns, c # n, NEW i \in 1 .. Len(wire'[c])
          PROVE  i \in 1 .. Len(wire[c]) /\ wire'[c][i] = wire[c][i]
      BY <2>3, <3>1
    <3>2. ASSUME NEW i \in 1 .. Len(wire'[n])
          PROVE  \/ i \in 1 .. Len(wire[n]) /\ wire'[n][i] = wire[n][i]
                 \/ i = Len(wire[n]) + 1 /\ wire'[n][i] = x
      <4> DEFINE old == Len(wire[n])
      <4>1. i \in 1 .. old \/ i = old + 1
        <5>1. Len(wire'[n]) = old + 1 /\ old \in Nat
          BY <2>4
        <5> HIDE DEF old
        <5> QED
          BY <5>1
      <4>2. QED
        BY <4>1, <2>4
    <3>3. QED
      BY <3>1, <3>2
  <2>7. ASSUME NEW c \in Conns, NEW d \in Conns,
               NEW i \in 1 .. Len(wire'[c]), NEW j \in 1 .. Len(wire'[d]),
               c < d \/ (c = d /\ i < j)
        PROVE  InOrder(wire'[c][i], wire'[d][j])
    <3>1. CASE /\ i \in 1 .. Len(wire[c]) /\ wire'[c][i] = wire[c][i]
               /\ j \in 1 .. Len(wire[d]) /\ wire'[d][j] = wire[d][j]
      BY <2>7, <3>1 DEF WireOrder
    <3>2. CASE /\ i \in 1 .. Len(wire[c]) /\ wire'[c][i] = wire[c][i]
               /\ wire'[d][j] = x
      BY <3>2
    <3>3. CASE c = n /\ i = Len(wire[n]) + 1
      <4>1. ~ (c = d /\ i < j)
        BY <3>3, <2>4
      <4>2. n < d
        BY <2>7, <3>3, <4>1
      <4>3. wire'[d] = << >>
        BY <4>2, <2>3, <2>5, <2>1 DEF Conns
      <4>4. QED
        BY <4>3
    <3>4. QED
      BY <3>1, <3>2, <3>3, <2>6
  <2>8. WireOrder'
    BY <2>7 DEF WireOrder
  <2>9. \A c \in Conns : peer[c] \in {"none", "closed"} => wire'[c] = << >>
    BY <2>1, <2>3 DEF PeerOrder
  <2>10. QED
    BY <2>6, <2>8, <2>9
<1>3. QED
  BY <1>1, <1>2

(* Chunks taken from the near end of some connections.                     *)
LEMMA ShrinkOrder ==
  ASSUME NetTypeOK, NetTypeOK', WireOrder, NEW k \in [Conns -> Nat],
         \A c \in Conns : \A i \in 1 .. Len(wire'[c]) :
           /\ i + k[c] \in 1 .. Len(wire[c])
           /\ wire'[c][i] = wire[c][i + k[c]]
  PROVE  WireOrder'
<1>1. ASSUME NEW c \in Conns, NEW d \in Conns,
             NEW i \in 1 .. Len(wire'[c]), NEW j \in 1 .. Len(wire'[d]),
             c < d \/ (c = d /\ i < j)
      PROVE  InOrder(wire'[c][i], wire'[d][j])
  <2>1. /\ i + k[c] \in 1 .. Len(wire[c]) /\ j + k[d] \in 1 .. Len(wire[d])
        /\ wire'[c][i] = wire[c][i + k[c]]
        /\ wire'[d][j] = wire[d][j + k[d]]
    OBVIOUS
  <2>2. Len(wire'[c]) \in Nat /\ Len(wire'[d]) \in Nat
    BY DEF NetTypeOK
  <2>3. c < d \/ (c = d /\ i + k[c] < j + k[d])
    BY <1>1, <2>2
  <2>4. QED
    BY <2>1, <2>3 DEF WireOrder
<1>2. QED
  BY <1>1 DEF WireOrder

LEMMA ConsumeOrder ==
  ASSUME NetTypeOK, NetTypeOK', WireOrder, jconn \in Conns,
         wire[jconn] # << >>,
         wire' = [wire EXCEPT ![jconn] = Tail(@)]
  PROVE  /\ WireOrder'
         /\ \A c \in Conns : \A i \in 1 .. Len(wire'[c]) :
              \E j \in 1 .. Len(wire[c]) :
                /\ wire'[c][i] = wire[c][j]
                /\ c = jconn => 1 < j
         /\ \A c \in Conns : wire[c] = << >> => wire'[c] = << >>
<1> DEFINE k == [c \in Conns |-> IF c = jconn THEN 1 ELSE 0]
<1>1. /\ wire[jconn] \in Seq(Chunk) /\ Len(wire[jconn]) \in Nat
      /\ wire'[jconn] = Tail(wire[jconn])
      /\ \A c \in Conns : c # jconn => wire'[c] = wire[c]
  BY DEF NetTypeOK
<1>2. /\ Len(wire'[jconn]) = Len(wire[jconn]) - 1
      /\ \A i \in 1 .. Len(wire'[jconn]) : wire'[jconn][i] = wire[jconn][i+1]
  <2>1. /\ Len(Tail(wire[jconn])) = Len(wire[jconn]) - 1
        /\ \A i \in 1 .. Len(Tail(wire[jconn])) :
             Tail(wire[jconn])[i] = wire[jconn][i+1]
    BY <1>1, HeadTailProperties
  <2>2. QED
    BY <1>1, <2>1
<1>3. ASSUME NEW c \in Conns, NEW i \in 1 .. Len(wire'[c])
      PROVE  /\ i + k[c] \in 1 .. Len(wire[c])
             /\ wire'[c][i] = wire[c][i + k[c]]
             /\ c = jconn => 1 < i + k[c]
  <2>1. CASE c = jconn
    BY <1>1, <1>2, <2>1
  <2>2. CASE c # jconn
    <3>1. k[c] = 0 /\ wire'[c] = wire[c]
      BY <1>1, <2>2
    <3>2. i \in 1 .. Len(wire[c]) /\ i + 0 = i
      BY <3>1
    <3> HIDE DEF k
    <3>3. QED
      BY <2>2, <3>1, <3>2
  <2>3. QED
    BY <2>1, <2>2
<1>4. k \in [Conns -> Nat]
  OBVIOUS
<1> HIDE DEF k
<1>5. WireOrder'
  BY <1>3, <1>4, ShrinkOrder
<1>6. QED
  BY <1>1, <1>3, <1>5

LEMMA CloseOrder ==
  ASSUME NetTypeOK, NetTypeOK', WireOrder, NEW set, ClosePeers(set)
  PROVE  /\ WireOrder'
         /\ \A c \in Conns : \A i \in 1 .. Len(wire'[c]) :
              /\ c \notin set
              /\ i \in 1 .. Len(wire[c]) /\ wire'[c][i] = wire[c][i]
<1> DEFINE k == [c \in Conns |-> 0]
<1>1. \A c \in Conns : wire'[c] = IF c \in set THEN << >> ELSE wire[c]
  BY DEF ClosePeers
<1>2. \A c \in Conns : Len(wire[c]) \in Nat
  BY DEF NetTypeOK
<1>3. ASSUME NEW c \in Conns, NEW i \in 1 .. Len(wire'[c])
      PROVE  /\ c \notin set
             /\ i + k[c] \in 1 .. Len(wire[c])
             /\ wire'[c][i] = wire[c][i + k[c]]
             /\ i + k[c] = i
  <2>1. k[c] = 0 /\ i + 0 = i
    BY <1>2
  <2>2. c \notin set /\ wire'[c] = wire[c]
    BY <1>1, <1>3
  <2>3. i \in 1 .. Len(wire[c])
    BY <2>2
  <2> HIDE DEF k
  <2>4. QED
    BY <2>1, <2>2, <2>3
<1>4. k \in [Conns -> Nat]
  OBVIOUS
<1> HIDE DEF k
<1>5. WireOrder'
  BY <1>3, <1>4, ShrinkOrder
<1>6. QED
  BY <1>3, <1>5

-----------------------------------------------------------------------------
(* Chunks stay placed while nothing they are compared with moves.          *)
LEMMA PlacedStays ==
  ASSUME WirePlaced,
         UNCHANGED <<wire, lastLive, ring, wFrame, seen, sticky, snap, todo, pub>>
  PROVE  WirePlaced'
<1>1. ASSUME NEW x, Placed(x)
      PROVE  Placed(x)'
  BY <1>1 DEF Placed
<1>2. QED
  BY <1>1 DEF WirePlaced

(* A step that moves no value: at most a descriptor is closed.             *)
LEMMA QuietStep ==
  ASSUME OrderInv,
         UNCHANGED <<conns, wire, peer, jconn, lastLive, ring, wFrame, seen,
                     sticky, snap, todo, pub>>,
         \A fd \in Fds : fdConn'[fd] \in {0, fdConn[fd]},
         TodoPlace'
  PROVE  OrderInv'
<1> USE DEF OrderInv
<1>1. NewestOpen' /\ PeerOrder' /\ WireOrder'
  BY DEF NewestOpen, PeerOrder, WireOrder
<1>2. WirePlaced'
  BY PlacedStays
<1>3. QueueOrder' /\ CacheAhead'
  BY DEF QueueOrder, Queued, CacheAhead
<1>4. QED
  BY <1>1, <1>2, <1>3

(* A send() of the hook: what it adds is described by New(p, frame), with  *)
(* p the part it was given, or "piece".                                    *)
LEMMA SendOrder ==
  ASSUME NetTypeOK, NetTypeOK', NewestOpen, PeerOrder, WireOrder,
         NEW fd \in Fds, NEW part \in Parts, NEW frame \in Frame,
         SendOk(fd, part, frame) \/ SendFails(fd, frame),
         \A p \in {part, "piece"} :
           \A c \in Conns : \A i \in 1 .. Len(wire[c]) :
             InOrder(wire[c][i], New(p, frame))
  PROVE  /\ WireOrder'
         /\ \A c \in Conns : \A i \in 1 .. Len(wire'[c]) :
              \/ i \in 1 .. Len(wire[c]) /\ wire'[c][i] = wire[c][i]
              \/ SendOk(fd, part, frame) /\ wire'[c][i] = New(part, frame)
              \/ wire'[c][i] = New("piece", frame)
         /\ \A c \in Conns :
              peer[c] \in {"none", "closed"} => wire'[c] = << >>
<1>1. CASE SendOk(fd, part, frame)
  BY <1>1, PutOrder DEF SendOk
<1>2. CASE PutOnWire(fd, "piece", frame)
  <2>1. "piece" \in Parts
    BY DEF Parts
  <2>2. QED
    BY <1>2, <2>1, PutOrder
<1>3. CASE UNCHANGED wire
  BY <1>3 DEF WireOrder, PeerOrder
<1>4. QED
  BY <1>1, <1>2, <1>3 DEF SendFails

(* The connector sends a frame that is not live and, when it is a replay,  *)
(* is no older than anything of its type.                                  *)
LEMMA ConnectorSends ==
  ASSUME SocketInv, OrderInv, NetTypeOK', NEW frame \in Frame,
         cFd \in Fds,
         SendOk(cFd, "whole", frame) \/ SendFails(cFd, frame),
         frame.kind # "live",
         \A p \in {"whole", "piece"} :
           WellFormed(New(p, frame)) /\ Placed(New(p, frame)),
         frame.kind = "replay" =>
           \A c \in Conns : \A i \in 1 .. Len(wire[c]) :
             wire[c][i].frame.type = frame.type
               => wire[c][i].frame.val =< frame.val,
         UNCHANGED <<conns, peer, jconn, lastLive, ring, wFrame, seen, sticky,
                     pub>>,
         \A fd \in Fds : fdConn'[fd] \in {0, fdConn[fd]},
         todo' \subseteq todo, todo' # {} => snap' = snap,
         TodoPlace'
  PROVE  OrderInv'
<1> USE DEF OrderInv
<1>0. NetTypeOK /\ "whole" \in Parts
  BY DEF SocketInv, TypeOK, Parts
<1>1. \A p \in {"whole", "piece"} :
        \A c \in Conns : \A i \in 1 .. Len(wire[c]) :
          InOrder(wire[c][i], New(p, frame))
  BY DEF InOrder, Carries, New
<1>2. /\ WireOrder'
      /\ \A c \in Conns : \A i \in 1 .. Len(wire'[c]) :
           \/ i \in 1 .. Len(wire[c]) /\ wire'[c][i] = wire[c][i]
           \/ wire'[c][i] = New("whole", frame)
           \/ wire'[c][i] = New("piece", frame)
      /\ \A c \in Conns :
           peer[c] \in {"none", "closed"} => wire'[c] = << >>
  BY <1>0, <1>1, SendOrder
<1>3. NewestOpen' /\ PeerOrder'
  BY <1>2 DEF NewestOpen, PeerOrder
<1>4. ASSUME NEW x, Placed(x)
      PROVE  Placed(x)'
  BY <1>4 DEF Placed
<1>5. WirePlaced'
  BY <1>2, <1>4 DEF WirePlaced
<1>6. QueueOrder' /\ CacheAhead'
  BY DEF QueueOrder, Queued, CacheAhead
<1>7. QED
  BY <1>2, <1>3, <1>5, <1>6

(* Every step of the hook keeps the order.                                 *)
LEMMA PublishOrder ==
  ASSUME SocketInv, OrderInv, NEW t \in Types, Publish(t),
         UNCHANGED javaVars
  PROVE  OrderInv'
<1> USE DEF OrderInv, netVars, connVars, prodVars, writVars
<1>0. NetTypeOK /\ HookTypeOK /\ pub \in Nat
  BY DEF SocketInv, TypeOK, HookTypeOK
<1>1. /\ UNCHANGED <<conns, fdConn, wire, peer, snap, todo, cPc, wFrame>>
      /\ pub' = pub + 1 /\ sticky' = [sticky EXCEPT ![t] = pub + 1]
      /\ \/ ring' = ring
         \/ ring' = Append(ring, [type |-> t, val |-> pub + 1])
  BY DEF Publish, Cache, WakeWriter
<1>2. UNCHANGED <<jconn, lastLive, seen>>
  BY DEF javaVars
<1>3. \A j \in 1 .. Len(ring') :
        \/ j \in 1 .. Len(ring) /\ ring'[j] = ring[j]
        \/ /\ j = Len(ring) + 1
           /\ ring'[j] = [type |-> t, val |-> pub + 1]
  <2>1. ring \in Seq(Entry) /\ [type |-> t, val |-> pub + 1] \in Entry
    BY <1>0 DEF HookTypeOK, Entry
  <2>2. QED
    BY <1>1, <2>1, AppendProperties
<1>4. NewestOpen' /\ PeerOrder' /\ WireOrder' /\ TodoPlace'
  BY <1>1, <1>2 DEF NewestOpen, PeerOrder, WireOrder, TodoPlace
<1>5. \A u \in Types : sticky'[u] = IF u = t THEN pub + 1 ELSE sticky[u]
  BY <1>0, <1>1 DEF HookTypeOK
<1>6. ASSUME NEW x \in Chunk, Placed(x)
      PROVE  Placed(x)'
  <2>1. x.frame.val \in Nat /\ x.frame.val =< pub
    BY <1>6, ChunkFields DEF Placed
  <2>2. \A j \in 1 .. Len(ring') : Carries(x) => x.frame.val < ring'[j].val
    BY <1>0, <1>3, <1>6, <2>1 DEF Placed
  <2>3. x.frame.type \in Types =>
          \/ sticky'[x.frame.type] = 0
          \/ x.frame.val =< sticky'[x.frame.type]
    BY <1>0, <1>5, <1>6, <2>1 DEF Placed
  <2>4. QED
    BY <1>0, <1>1, <1>2, <1>6, <2>1, <2>2, <2>3 DEF Placed
<1>7. WirePlaced'
  BY <1>0, <1>1, <1>6, ChunkTyped DEF WirePlaced
<1>8. QueueOrder'
  <2>1. lastLive \in Nat /\ lastLive =< pub
    BY DEF SocketInv, TypeOK, JavaTypeOK, QueueOrder
  <2>2. ASSUME NEW e \in Entry, Queued(e)
        PROVE  Queued(e)'
    <3>1. e.type \in Types /\ e.val \in Nat
      BY DEF Entry
    <3>2. QED
      BY <1>0, <1>1, <1>2, <1>5, <2>2, <3>1 DEF Queued
  <2>3. \A j \in 1 .. Len(ring') : Queued(ring[j])'
    <3>1. ASSUME NEW j \in 1 .. Len(ring'), NEW e,
                 e = ring'[j]
          PROVE  Queued(e)'
      <4>1. CASE j \in 1 .. Len(ring) /\ e = ring[j]
        <5>1. e \in Entry /\ Queued(e)
          BY <1>0, <4>1, EntryTyped DEF QueueOrder
        <5>2. QED
          BY <5>1, <2>2
      <4>2. CASE e = [type |-> t, val |-> pub + 1]
        <5>1. e.type = t /\ e.val = pub + 1
          BY <4>2
        <5>2. QED
          BY <1>0, <1>1, <1>2, <1>5, <2>1, <5>1 DEF Queued
      <4>3. QED
        BY <1>3, <3>1, <4>1, <4>2
    <3>2. QED
      BY <3>1 DEF Queued
  <2>4. ASSUME NEW j \in 1 .. Len(ring'), NEW k \in 1 .. j - 1
        PROVE  ring'[k].val < ring'[j].val
    <3>1. /\ Len(ring) \in Nat /\ k \in 1 .. Len(ring) /\ ring'[k] = ring[k]
          /\ ring[k].val \in Nat
      <4>1. Len(ring) \in Nat
        BY <1>0, EntryTyped
      <4>2. j \in 1 .. Len(ring) + 1
        BY <1>3, <4>1
      <4>3. k \in 1 .. Len(ring) /\ k # Len(ring) + 1
        BY <2>4, <4>1, <4>2
      <4>4. k \in 1 .. Len(ring')
        BY <1>3, <2>4, <4>1, <4>3
      <4>5. ring'[k] = ring[k]
        BY <1>3, <4>3, <4>4
      <4>6. ring[k].val \in Nat
        BY <1>0, <4>3, EntryTyped
      <4>7. QED
        BY <4>1, <4>3, <4>5, <4>6
    <3>2. ring[k].val =< pub
      BY <3>1 DEF QueueOrder, Queued
    <3>3. CASE j \in 1 .. Len(ring) /\ ring'[j] = ring[j]
      <4>1. ring[k].val < ring[j].val
        BY <1>0, <2>4, <3>3 DEF QueueOrder
      <4>2. QED
        BY <3>1, <3>3, <4>1
    <3>4. CASE ring'[j].val = pub + 1
      BY <1>0, <3>1, <3>2, <3>4
    <3>5. QED
      BY <1>3, <2>4, <3>3, <3>4
  <2>5. ASSUME wFrame # NoEntry
        PROVE  /\ Queued(wFrame)'
               /\ wFrame.type \in todo => wFrame.val =< snap[wFrame.type]
               /\ \A j \in 1 .. Len(ring') : wFrame.val < ring'[j].val
    <3>1. wFrame \in Entry /\ Queued(wFrame) /\ wFrame.val \in Nat
      BY <1>0, <2>5 DEF HookTypeOK, QueueOrder, Entry
    <3>2. Queued(wFrame)'
      <4>1. wFrame.type \in Types
        BY <3>1 DEF Entry
      <4>2. QED
        BY <1>0, <1>1, <1>2, <1>5, <3>1, <4>1 DEF Queued
    <3>3. wFrame.val =< pub /\ (wFrame.type \in todo =>
                                 wFrame.val =< snap[wFrame.type])
      BY <2>5, <3>1 DEF QueueOrder, Queued
    <3>4. \A j \in 1 .. Len(ring') : wFrame.val < ring'[j].val
      BY <1>0, <1>3, <2>5, <3>1, <3>3 DEF QueueOrder
    <3>5. QED
      BY <3>2, <3>3, <3>4
  <2>6. QED
    BY <1>0, <1>1, <1>2, <2>1, <2>3, <2>4, <2>5 DEF QueueOrder
<1>9. CacheAhead'
  <2>1. ASSUME NEW u \in Types
        PROVE  seen[u] \in Nat \cup {Torn} /\ sticky[u] \in Nat
               /\ snap[u] \in Nat
    BY <2>1 DEF SocketInv, TypeOK, HookTypeOK, JavaTypeOK
  <2>2. QED
    BY <1>0, <1>1, <1>2, <1>5, <2>1 DEF CacheAhead, Torn
<1>10. QED
  BY <1>4, <1>7, <1>8, <1>9

(* HELLO, SYNC_BEGIN and SYNC_END carry no value, so they fit anywhere.    *)
LEMMA NewFields ==
  ASSUME NEW p, NEW f
  PROVE  New(p, f).part = p /\ New(p, f).frame = f
BY DEF New

LEMMA ControlFits ==
  ASSUME HookTypeOK, NEW f, f.kind \in {"hello", "begin", "end"},
         f.type = NoType, f.val = 0, NEW p \in {"whole", "piece"}
  PROVE  WellFormed(New(p, f)) /\ Placed(New(p, f))
<1>1. pub \in Nat /\ NoType \notin Types
  BY HookBoundAssumption, TypesAssumption
     DEF HookBoundAssumption, TypesAssumption, HookTypeOK, NoType
<1>2. WellFormed(New(p, f))
  BY NewFields DEF WellFormed
<1>3. Placed(New(p, f))
  BY <1>1, NewFields DEF Placed, Carries
<1>4. QED
  BY <1>2, <1>3

(* The connector's actions.                                                *)
LEMMA ConnectorOrder ==
  ASSUME SocketInv, OrderInv, ConnectorStep, UNCHANGED javaVars, NetTypeOK'
  PROVE  OrderInv'
<1> USE DEF netVars, connVars, prodVars, writVars, javaVars
<1>0. NetTypeOK /\ HookTypeOK /\ JavaTypeOK /\ ThreadLocals /\ OneSocket
      /\ Exposure /\ pub \in Nat
  BY DEF SocketInv, TypeOK, HookTypeOK
<1>1. ASSUME Connect
      PROVE  OrderInv'
  <2>1. PICK fd \in Fds : OpenFd(fd) /\ cFd' = fd
    BY <1>1 DEF Connect
  <2>2. UNCHANGED <<wire, jconn, lastLive, ring, wFrame, seen, sticky, snap,
                    todo, pub>> /\ cPc = "connect"
    BY <1>1, <2>1 DEF Connect, OpenFd
  <2>3. todo = {} /\ \A f \in Fds : fdConn[f] = 0
    BY <1>0, <2>2, FdsAssumption
       DEF FdsAssumption, OrderInv, TodoPlace, OneSocket, Exposure
  <2>4. NewestOpen' /\ TodoPlace'
    <3>1. /\ conns' = conns + 1
          /\ \A f \in Fds : fdConn'[f] \in {0, conns + 1}
      BY <1>0, <2>1, <2>3 DEF OpenFd, NetTypeOK
    <3>2. todo' = {}
      BY <2>2, <2>3
    <3>3. QED
      BY <3>1, <3>2 DEF NewestOpen, TodoPlace
  <2>5. PeerOrder'
    <3>1. /\ conns \in Nat /\ MaxConns \in Nat /\ jconn \in 0 .. MaxConns
          /\ conns' = conns + 1 /\ conns + 1 \in Conns
          /\ peer' = [peer EXCEPT ![conns + 1] = "backlog"]
      <4>1. conns \in Nat /\ MaxConns \in Nat /\ jconn \in 0 .. MaxConns
        BY <1>0, BoundAssumption DEF BoundAssumption, NetTypeOK, JavaTypeOK
      <4>2. /\ conns < MaxConns /\ conns' = conns + 1
            /\ peer' = [peer EXCEPT ![conns + 1] = "backlog"]
        BY <2>1 DEF OpenFd
      <4>3. QED
        BY <4>1, <4>2 DEF Conns
    <3>2. peer[conns + 1] = "none" /\ jconn # conns + 1
      BY <3>1 DEF OrderInv, PeerOrder, Conns
    <3>3. jconn < conns + 1
      <4>1. CASE jconn = 0
        BY <3>1, <4>1
      <4>2. CASE jconn # 0
        <5>1. jconn \in Conns /\ peer[jconn] = "reading"
          BY <3>1, <4>2 DEF OrderInv, PeerOrder, Conns
        <5>2. ~(jconn > conns)
          BY <5>1 DEF OrderInv, PeerOrder
        <5>3. QED
          BY <3>1, <5>2
      <4>3. QED
        BY <4>1, <4>2
    <3>4. ASSUME NEW c \in Conns
          PROVE  /\ peer'[c] = "none" <=> c > conns'
                 /\ peer'[c] \in {"none", "closed"} => wire'[c] = << >>
                 /\ peer'[c] = "reading" <=> c = jconn'
                 /\ peer'[c] = "backlog" => jconn' < c
      <4>1. c \in Nat /\ (c > conns <=> (c > conns + 1 \/ c = conns + 1))
        BY <3>1 DEF Conns
      <4>2. peer'[c] = IF c = conns + 1 THEN "backlog" ELSE peer[c]
        BY <1>0, <3>1 DEF NetTypeOK
      <4>3. CASE c = conns + 1
        BY <2>2, <3>1, <3>2, <3>3, <4>2, <4>3
      <4>4. CASE c # conns + 1
        BY <2>2, <3>1, <4>1, <4>2, <4>4 DEF OrderInv, PeerOrder
      <4>5. QED
        BY <4>3, <4>4
    <3>5. QED
      BY <3>4 DEF PeerOrder
  <2>6. WireOrder' /\ WirePlaced' /\ QueueOrder' /\ CacheAhead'
    <3>1. WireOrder'
      BY <2>2 DEF OrderInv, WireOrder
    <3>2. WirePlaced'
      BY <2>2, PlacedStays DEF OrderInv
    <3>3. QueueOrder' /\ CacheAhead'
      BY <2>2 DEF OrderInv, QueueOrder, Queued, CacheAhead
    <3>4. QED
      BY <3>1, <3>2, <3>3
  <2>7. QED
    BY <2>4, <2>5, <2>6 DEF OrderInv
<1>2. ASSUME SendHello
      PROVE  OrderInv'
  <2>1. Hello \in Frame /\ cFd \in Fds /\ todo = {}
    BY <1>0, <1>2, FramesTyped
       DEF SendHello, HookTypeOK, ThreadLocals, OrderInv, TodoPlace
  <2>2. \A p \in {"whole", "piece"} :
          WellFormed(New(p, Hello)) /\ Placed(New(p, Hello))
    <3>1. /\ Hello.kind = "hello"
          /\ Hello.type = NoType /\ Hello.val = 0
      BY DEF Hello
    <3>2. QED
      BY <1>0, <3>1, ControlFits
  <2>3. /\ SendOk(cFd, "whole", Hello) \/ SendFails(cFd, Hello)
        /\ UNCHANGED <<conns, peer, jconn, lastLive, ring, wFrame, seen,
                        sticky, pub, snap, todo>>
        /\ fdConn' = fdConn \/ CloseFd(cFd)
    BY <1>2 DEF SendHello, HelloSent, HelloFailed
  <2>4. \A fd \in Fds : fdConn'[fd] \in {0, fdConn[fd]}
    BY <1>0, <2>3 DEF CloseFd, NetTypeOK
  <2>5. Hello.kind = "hello" /\ TodoPlace'
    BY <2>1, <2>3 DEF Hello, TodoPlace
  <2>6. QED
    BY <2>1, <2>2, <2>3, <2>4, <2>5, ConnectorSends
<1>3. ASSUME TakeSnapshot
      PROVE  OrderInv'
  <2>1. /\ UNCHANGED <<conns, fdConn, wire, peer, jconn, lastLive, ring,
                        wFrame, seen, sticky, pub>>
        /\ snap' = sticky /\ todo' = {t \in Types : sticky[t] # 0}
        /\ cPc' = "begin"
    BY <1>3 DEF TakeSnapshot
  <2>2. NewestOpen' /\ PeerOrder' /\ WireOrder' /\ TodoPlace'
    BY <2>1 DEF OrderInv, NewestOpen, PeerOrder, WireOrder, TodoPlace
  <2>3. ASSUME NEW x, Placed(x)
        PROVE  Placed(x)'
    BY <2>1, <2>3 DEF Placed
  <2>4. WirePlaced'
    BY <2>1, <2>3 DEF OrderInv, WirePlaced
  <2>5. QueueOrder'
    BY <2>1 DEF OrderInv, QueueOrder, Queued
  <2>6. CacheAhead'
    BY <1>0, <2>1 DEF OrderInv, CacheAhead, HookTypeOK
  <2>7. QED
    BY <2>2, <2>4, <2>5, <2>6 DEF OrderInv
<1>4. ASSUME SendSyncBegin
      PROVE  OrderInv'
  <2>1. SyncBegin \in Frame /\ cFd \in Fds
    BY <1>0, <1>4, FramesTyped DEF SendSyncBegin, HookTypeOK, ThreadLocals
  <2>2. \A p \in {"whole", "piece"} :
          WellFormed(New(p, SyncBegin)) /\ Placed(New(p, SyncBegin))
    <3>1. /\ SyncBegin.kind = "begin"
          /\ SyncBegin.type = NoType /\ SyncBegin.val = 0
      BY DEF SyncBegin
    <3>2. QED
      BY <1>0, <3>1, ControlFits
  <2>3. /\ SendOk(cFd, "whole", SyncBegin) \/ SendFails(cFd, SyncBegin)
        /\ UNCHANGED <<conns, fdConn, peer, jconn, lastLive, ring, wFrame,
                        seen, sticky, pub, snap, todo>>
        /\ cPc' = IF todo = {} THEN "end" ELSE "replay"
    BY <1>4 DEF SendSyncBegin, SendIgnoringResult, AfterReplay
  <2>4. SyncBegin.kind = "begin" /\ TodoPlace'
    BY <2>3 DEF SyncBegin, TodoPlace
  <2>5. QED
    BY <2>1, <2>2, <2>3, <2>4, ConnectorSends
<1>5. ASSUME NEW t \in Types, SendReplay(t)
      PROVE  OrderInv'
  <2>1. Replay(t) \in Frame /\ cFd \in Fds /\ t \in todo
    BY <1>0, <1>5, FramesTyped DEF SendReplay, HookTypeOK, ThreadLocals
  <2>2. /\ Replay(t).kind = "replay" /\ Replay(t).type = t
        /\ Replay(t).val = snap[t]
    BY DEF Replay
  <2>3. 0 < snap[t] /\ seen[t] =< snap[t] /\ snap[t] =< sticky[t]
    BY <2>1 DEF OrderInv, CacheAhead
  <2>4. \A p \in {"whole", "piece"} :
          WellFormed(New(p, Replay(t))) /\ Placed(New(p, Replay(t)))
    <3>1. snap[t] =< pub /\ snap[t] \in Nat
      BY <1>0, <2>1, <2>3 DEF OrderInv, CacheAhead, HookTypeOK
    <3>2. QED
      BY <2>2, <2>3, <3>1, NewFields DEF WellFormed, Placed, Carries
  <2>5. /\ SendOk(cFd, "whole", Replay(t)) \/ SendFails(cFd, Replay(t))
        /\ UNCHANGED <<conns, fdConn, peer, jconn, lastLive, ring, wFrame,
                        seen, sticky, pub, snap>>
        /\ todo' = todo \ {t}
        /\ cPc' = IF todo' = {} THEN "end" ELSE "replay"
    BY <1>5 DEF SendReplay, SendIgnoringResult, AfterReplay
  <2>6. TodoPlace'
    BY <2>5 DEF TodoPlace
  <2>7. \A c \in Conns : \A i \in 1 .. Len(wire[c]) :
          wire[c][i].frame.type = Replay(t).type
            => wire[c][i].frame.val =< Replay(t).val
    BY <2>1, <2>2 DEF OrderInv, WirePlaced, Placed
  <2>8. QED
    BY <2>1, <2>2, <2>4, <2>5, <2>6, <2>7, ConnectorSends
<1>6. ASSUME SendSyncEnd
      PROVE  OrderInv'
  <2>1. SyncEnd \in Frame /\ cFd \in Fds /\ todo = {}
    BY <1>0, <1>6, FramesTyped
       DEF SendSyncEnd, HookTypeOK, ThreadLocals, OrderInv, TodoPlace
  <2>2. \A p \in {"whole", "piece"} :
          WellFormed(New(p, SyncEnd)) /\ Placed(New(p, SyncEnd))
    <3>1. /\ SyncEnd.kind = "end"
          /\ SyncEnd.type = NoType /\ SyncEnd.val = 0
      BY DEF SyncEnd
    <3>2. QED
      BY <1>0, <3>1, ControlFits
  <2>3. /\ SendOk(cFd, "whole", SyncEnd) \/ SendFails(cFd, SyncEnd)
        /\ UNCHANGED <<conns, fdConn, peer, jconn, lastLive, ring, wFrame,
                        seen, sticky, pub, todo>>
    BY <1>6 DEF SendSyncEnd, SendIgnoringResult
  <2>4. SyncEnd.kind = "end" /\ TodoPlace'
    BY <2>1, <2>3 DEF SyncEnd, TodoPlace
  <2>5. QED
    BY <2>1, <2>2, <2>3, <2>4, ConnectorSends
<1>7. ASSUME Expose \/ NoticeLost \/ NoticePeerClosed
      PROVE  OrderInv'
  <2>1. /\ UNCHANGED <<conns, wire, peer, jconn, lastLive, ring, wFrame, seen,
                        sticky, snap, todo, pub>>
        /\ cPc \in {"expose", "watch"}
        /\ \/ fdConn' = fdConn
           \/ CloseFd(clientFd)
           \/ CloseFd(cFd)
    BY <1>7 DEF Expose, NoticeLost, NoticePeerClosed, DropCurrent, WakeWriter
  <2>2. \A fd \in Fds : fdConn'[fd] \in {0, fdConn[fd]}
    BY <1>0, <2>1 DEF CloseFd, NetTypeOK
  <2>3. TodoPlace'
    BY <2>1 DEF OrderInv, TodoPlace
  <2>4. QED
    BY <2>1, <2>2, <2>3, QuietStep
<1>8. QED
  BY <1>1, <1>2, <1>3, <1>4, <1>5, <1>6, <1>7 DEF ConnectorStep

(* The writer's actions.                                                   *)
LEMMA DequeueOrder ==
  ASSUME SocketInv, OrderInv, WriterDequeues, UNCHANGED javaVars
  PROVE  OrderInv'
<1> USE DEF netVars, connVars, prodVars, javaVars
<1>0. NetTypeOK /\ HookTypeOK /\ ThreadLocals /\ Exposure
  BY DEF SocketInv, TypeOK
<1>1. /\ UNCHANGED <<conns, fdConn, wire, peer, jconn, lastLive, seen, sticky,
                      snap, todo, pub, cPc>>
      /\ ring # << >> /\ wFrame' = Head(ring) /\ ring' = Tail(ring)
      /\ wFrame = NoEntry /\ clientFd # NoFd
  BY <1>0 DEF WriterDequeues, Dequeued, ThreadLocals
<1>2. todo = {}
  BY <1>0, <1>1 DEF Exposure, OrderInv, TodoPlace
<1>3. /\ ring \in Seq(Entry) /\ Len(ring) \in Nat /\ Len(ring) > 0
      /\ wFrame' = ring[1]
      /\ \A j \in 1 .. Len(ring') :
           j + 1 \in 1 .. Len(ring) /\ ring'[j] = ring[j + 1]
  <2>1. ring \in Seq(Entry)
    BY <1>0 DEF HookTypeOK
  <2>2. /\ Len(Tail(ring)) = Len(ring) - 1
        /\ \A j \in 1 .. Len(Tail(ring)) : Tail(ring)[j] = ring[j + 1]
    BY <1>1, <2>1, HeadTailProperties
  <2>3. Len(ring) \in Nat /\ Len(ring) > 0 /\ Head(ring) = ring[1]
    BY <1>1, <2>1
  <2>4. QED
    BY <1>1, <2>1, <2>2, <2>3
<1>4. NewestOpen' /\ PeerOrder' /\ WireOrder' /\ TodoPlace' /\ CacheAhead'
  BY <1>1 DEF OrderInv, NewestOpen, PeerOrder, WireOrder, TodoPlace, CacheAhead
<1>5. ASSUME NEW x, Placed(x)
      PROVE  Placed(x)'
  <2>1. \A j \in 1 .. Len(ring') : Carries(x) => x.frame.val < ring'[j].val
    BY <1>3, <1>5 DEF Placed
  <2>2. Carries(x) => x.frame.val < ring[1].val
    BY <1>3, <1>5 DEF Placed
  <2>3. QED
    BY <1>1, <1>3, <1>5, <2>1, <2>2 DEF Placed
<1>6. WirePlaced'
  BY <1>1, <1>5 DEF OrderInv, WirePlaced
<1>7. QueueOrder'
  <2>1. lastLive =< pub /\ \A j \in 1 .. Len(ring) : Queued(ring[j])
    BY DEF OrderInv, QueueOrder
  <2>2. \A j \in 1 .. Len(ring) : \A k \in 1 .. j - 1 :
          ring[k].val < ring[j].val
    BY DEF OrderInv, QueueOrder
  <2>3. \A j \in 1 .. Len(ring') : Queued(ring[j])'
    BY <1>1, <1>3, <2>1 DEF Queued
  <2>4. \A j \in 1 .. Len(ring') : \A k \in 1 .. j - 1 :
          ring'[k].val < ring'[j].val
    <3>1. ASSUME NEW j \in 1 .. Len(ring'), NEW k \in 1 .. j - 1
          PROVE  ring'[k].val < ring'[j].val
      <4>1. Len(ring') \in Nat
        BY <1>0, <1>1, HeadTailProperties DEF HookTypeOK
      <4>2. k \in 1 .. Len(ring') /\ k + 1 \in 1 .. (j + 1) - 1
        BY <4>1
      <4>3. ring'[k] = ring[k + 1] /\ ring'[j] = ring[j + 1]
            /\ j + 1 \in 1 .. Len(ring)
        BY <1>3, <4>2
      <4>4. QED
        BY <2>2, <4>2, <4>3
    <3>2. QED
      BY <3>1
  <2>5. /\ Queued(wFrame)'
        /\ \A j \in 1 .. Len(ring') : wFrame'.val < ring'[j].val
    <3>1. 1 \in 1 .. Len(ring) /\ Queued(ring[1])
      BY <1>3, <2>1
    <3>2. Queued(wFrame)'
      BY <1>1, <1>3, <3>1 DEF Queued
    <3>3. ASSUME NEW j \in 1 .. Len(ring')
          PROVE  wFrame'.val < ring'[j].val
      <4>1. 1 \in 1 .. (j + 1) - 1 /\ j + 1 \in 1 .. Len(ring)
        BY <1>3
      <4>2. QED
        BY <1>3, <2>2, <4>1
    <3>4. QED
      BY <3>2, <3>3
  <2>6. QED
    BY <1>1, <1>2, <2>1, <2>3, <2>4, <2>5 DEF QueueOrder
<1>8. QED
  BY <1>4, <1>6, <1>7 DEF OrderInv

LEMMA WriterSendOrder ==
  ASSUME SocketInv, OrderInv, WriterHeader \/ WriterPayload,
         UNCHANGED javaVars, NetTypeOK'
  PROVE  OrderInv'
<1> USE DEF connVars, prodVars, javaVars
<1>0. NetTypeOK /\ HookTypeOK /\ JavaTypeOK /\ ThreadLocals /\ pub \in Nat
  BY HookBoundAssumption
     DEF HookBoundAssumption, SocketInv, TypeOK, HookTypeOK
<1>1. /\ UNCHANGED <<conns, fdConn, peer, ring, sticky, snap, todo, pub, cPc,
                      jconn, lastLive, seen>>
      /\ wFrame' \in {wFrame, NoEntry}
      /\ \/ SendOk(wFd, "head", Live)
         \/ SendOk(wFd, "body", Live) /\ wFrame' = NoEntry
         \/ SendFails(wFd, Live)
      /\ wPc \in {"head", "body"}
  BY DEF WriterHeader, WriterPayload, WriterSends, FrameDone
<1>2. /\ wFd \in Fds /\ wFrame # NoEntry /\ wFrame \in Entry /\ Live \in Frame
      /\ wFrame.type \in Types /\ wFrame.val \in Nat
  BY <1>0, <1>1, FramesTyped, EntryTyped DEF HookTypeOK, ThreadLocals
<1>3. Live.kind = "live" /\ Live.type = wFrame.type /\ Live.val = wFrame.val
  BY DEF Live
<1>4. /\ lastLive \in Nat /\ lastLive < wFrame.val /\ wFrame.val =< pub
      /\ wFrame.val =< sticky[wFrame.type]
      /\ wFrame.type \in todo => wFrame.val =< snap[wFrame.type]
      /\ \A j \in 1 .. Len(ring) : wFrame.val < ring[j].val
  BY <1>0, <1>2 DEF OrderInv, QueueOrder, Queued, JavaTypeOK
<1>5. \A p \in Parts : \A c \in Conns : \A i \in 1 .. Len(wire[c]) :
        InOrder(wire[c][i], New(p, Live))
  <2>1. ASSUME NEW p \in Parts, NEW x, Placed(x)
        PROVE  InOrder(x, New(p, Live))
    <3>1. Carries(x) => x.frame.val < wFrame.val
      BY <1>2, <2>1 DEF Placed
    <3>2. QED
      BY <1>3, <3>1, NewFields DEF InOrder
  <2>2. QED
    BY <2>1 DEF OrderInv, WirePlaced
<1>6. /\ WireOrder'
      /\ \A c \in Conns : \A i \in 1 .. Len(wire'[c]) :
           \/ i \in 1 .. Len(wire[c]) /\ wire'[c][i] = wire[c][i]
           \/ wire'[c][i] = New("head", Live)
           \/ wire'[c][i] = New("piece", Live)
           \/ wire'[c][i] = New("body", Live) /\ wFrame' = NoEntry
      /\ \A c \in Conns :
           peer[c] \in {"none", "closed"} => wire'[c] = << >>
  <2>1. "head" \in Parts /\ "body" \in Parts /\ "piece" \in Parts
    BY DEF Parts
  <2>2. NewestOpen /\ PeerOrder /\ WireOrder
    BY DEF OrderInv
  <2>3. CASE SendOk(wFd, "head", Live)
    BY <1>0, <1>2, <1>5, <2>1, <2>2, <2>3, SendOrder
  <2>4. CASE SendOk(wFd, "body", Live) /\ wFrame' = NoEntry
    BY <1>0, <1>2, <1>5, <2>1, <2>2, <2>4, SendOrder
  <2>5. CASE SendFails(wFd, Live)
    BY <1>0, <1>2, <1>5, <2>1, <2>2, <2>5, SendOrder
  <2>6. QED
    BY <1>1, <2>3, <2>4, <2>5
<1>7. NewestOpen' /\ PeerOrder' /\ TodoPlace' /\ CacheAhead'
  BY <1>1, <1>6 DEF OrderInv, NewestOpen, PeerOrder, TodoPlace, CacheAhead
<1>8. ASSUME NEW x, Placed(x)
      PROVE  Placed(x)'
  BY <1>1, <1>8 DEF Placed
<1>9. ASSUME NEW p \in {"head", "piece", "body"}, NEW x, x = New(p, Live),
             p = "body" => wFrame' = NoEntry
      PROVE  WellFormed(x) /\ Placed(x)'
  <2>1. x.part = p /\ x.frame = Live
    BY <1>9, NewFields
  <2>2. WellFormed(x)
    BY <1>2, <1>3, <1>4, <1>9, <2>1 DEF WellFormed
  <2>3. Placed(x)'
    BY <1>1, <1>3, <1>4, <1>9, <2>1 DEF Placed, Carries
  <2>4. QED
    BY <2>2, <2>3
<1>10. WirePlaced'
  BY <1>6, <1>8, <1>9 DEF OrderInv, WirePlaced
<1>11. QueueOrder'
  BY <1>1 DEF OrderInv, QueueOrder, Queued
<1>12. QED
  BY <1>6, <1>7, <1>10, <1>11 DEF OrderInv

(* dio_manager ends: nothing is left in the hook.                          *)
LEMMA RestartOrder ==
  ASSUME SocketInv, OrderInv, HookRestart, UNCHANGED javaVars
  PROVE  OrderInv'
<1> USE DEF javaVars
<1>1. /\ UNCHANGED <<conns, wire, peer, pub, jconn, lastLive, seen>>
      /\ fdConn' = [fd \in Fds |-> 0]
      /\ ring' = << >> /\ sticky' = [t \in Types |-> 0]
      /\ todo' = {} /\ wFrame' = NoEntry
  BY DEF HookRestart, NoValues
<1>2. NewestOpen' /\ PeerOrder' /\ WireOrder' /\ TodoPlace'
  BY <1>1 DEF OrderInv, NewestOpen, PeerOrder, WireOrder, TodoPlace
<1>3. ASSUME NEW x, Placed(x)
      PROVE  Placed(x)'
  BY <1>1, <1>3 DEF Placed
<1>4. WirePlaced'
  BY <1>1, <1>3 DEF OrderInv, WirePlaced
<1>5. QueueOrder'
  BY <1>1 DEF OrderInv, QueueOrder
<1>6. CacheAhead'
  <2>1. pub \in Nat
    BY HookBoundAssumption
       DEF HookBoundAssumption, SocketInv, TypeOK, HookTypeOK
  <2>2. QED
    BY <1>1, <2>1 DEF OrderInv, CacheAhead
<1>7. QED
  BY <1>2, <1>4, <1>5, <1>6 DEF OrderInv

LEMMA WriterRestOrder ==
  ASSUME SocketInv, OrderInv,
         WriterWaits \/ SpuriousWakeup \/ WriterFails,
         UNCHANGED javaVars
  PROVE  OrderInv'
<1> USE DEF netVars, connVars, prodVars, javaVars
<1>1. CASE WriterWaits \/ SpuriousWakeup
  <2>1. UNCHANGED <<conns, fdConn, wire, peer, jconn, lastLive, ring, wFrame,
                    seen, sticky, snap, todo, pub, cPc>>
    BY <1>1 DEF WriterWaits, SpuriousWakeup, WakeWriter
  <2>2. QED
    BY <2>1, QuietStep DEF OrderInv, TodoPlace
<1>2. CASE WriterFails
  <2>1. /\ UNCHANGED <<conns, wire, peer, jconn, lastLive, ring, seen, sticky,
                        snap, todo, pub, cPc>>
        /\ wFrame' = NoEntry
        /\ fdConn' = fdConn \/ CloseFd(wFd)
    BY <1>2 DEF WriterFails, FrameDone, DropCurrent
  <2>2. \A fd \in Fds : fdConn'[fd] \in {0, fdConn[fd]}
    BY <2>1 DEF CloseFd, SocketInv, TypeOK, NetTypeOK
  <2>3. NewestOpen' /\ PeerOrder' /\ WireOrder' /\ TodoPlace'
    BY <2>1, <2>2 DEF OrderInv, NewestOpen, PeerOrder, WireOrder, TodoPlace
  <2>4. ASSUME NEW x, Placed(x)
        PROVE  Placed(x)'
    BY <2>1, <2>4 DEF Placed
  <2>5. WirePlaced'
    BY <2>1, <2>4 DEF OrderInv, WirePlaced
  <2>6. QueueOrder' /\ CacheAhead'
    BY <2>1 DEF OrderInv, QueueOrder, Queued, CacheAhead
  <2>7. QED
    BY <2>3, <2>5, <2>6 DEF OrderInv
<1>3. QED
  BY <1>1, <1>2

LEMMA HookOrder ==
  ASSUME SocketInv, OrderInv, HookSide, NetTypeOK'
  PROVE  OrderInv'
<1>1. HookNext /\ UNCHANGED javaVars
  BY DEF HookSide
<1>2. QED
  BY <1>1, PublishOrder, ConnectorOrder, DequeueOrder, WriterSendOrder,
     WriterRestOrder, RestartOrder
     DEF HookNext, WriterStep

-----------------------------------------------------------------------------
(* The Java side.  A step that hands over no value ...                     *)
Lowered == \A t \in Types : seen'[t] \in {seen[t], 0, Torn}

LEMMA LoweredKeeps ==
  ASSUME SocketInv, OrderInv, UNCHANGED hookVars, lastLive' = lastLive, Lowered
  PROVE  /\ \A x \in Chunk : WellFormed(x) /\ Placed(x) => Placed(x)'
         /\ QueueOrder' /\ CacheAhead' /\ TodoPlace'
<1>0. HookTypeOK /\ JavaTypeOK
  BY DEF SocketInv, TypeOK
<1>1. UNCHANGED <<pub, ring, wFrame, sticky, snap, todo, cPc>>
  BY DEF hookVars
<1>2. ASSUME NEW x \in Chunk, WellFormed(x), Placed(x)
      PROVE  Placed(x)'
  <2>1. x.frame.val \in Nat /\ Torn \notin Nat /\ Torn < 0
    BY ChunkFields DEF Torn
  <2>2. ASSUME x.frame.type \in Types, x.frame.kind = "replay"
        PROVE  seen'[x.frame.type] =< x.frame.val
    <3>1. seen[x.frame.type] =< x.frame.val
      BY <1>2, <2>2 DEF Placed
    <3>2. seen'[x.frame.type] \in {seen[x.frame.type], 0, Torn}
      BY <2>2 DEF Lowered
    <3>3. QED
      BY <2>1, <3>1, <3>2 DEF Torn
  <2>3. QED
    BY <1>1, <1>2, <2>2 DEF Placed
<1>3. QueueOrder' /\ TodoPlace'
  BY <1>1 DEF OrderInv, QueueOrder, Queued, TodoPlace
<1>4. CacheAhead'
  <2>1. ASSUME NEW t \in Types
        PROVE  /\ seen'[t] =< pub /\ sticky[t] =< pub
               /\ sticky[t] = 0 \/ seen'[t] =< sticky[t]
               /\ t \in todo => /\ 0 < snap[t] /\ snap[t] =< sticky[t]
                                /\ seen'[t] =< snap[t]
    <3>1. pub \in Nat /\ sticky[t] \in Nat /\ snap[t] \in Nat
      BY <1>0, HookBoundAssumption DEF HookBoundAssumption, HookTypeOK
    <3>2. seen'[t] \in {seen[t], 0, Torn}
      BY DEF Lowered
    <3>3. QED
      BY <3>1, <3>2 DEF OrderInv, CacheAhead, Torn
  <2>2. QED
    BY <1>1, <2>1 DEF CacheAhead
<1>5. QED
  BY <1>2, <1>3, <1>4

(* ... and leaves the wires, or ...                                        *)
LEMMA StillStep ==
  ASSUME SocketInv, OrderInv, UNCHANGED <<hookVars, conns, fdConn, wire>>,
         lastLive' = lastLive, Lowered, PeerOrder'
  PROVE  OrderInv'
<1>1. UNCHANGED hookVars
  OBVIOUS
<1>2. WirePlaced'
  BY <1>1, LoweredKeeps, ChunkTyped DEF OrderInv, WirePlaced, SocketInv, TypeOK
<1>3. NewestOpen' /\ WireOrder'
  BY DEF OrderInv, NewestOpen, WireOrder
<1>4. QED
  BY <1>1, <1>2, <1>3, LoweredKeeps DEF OrderInv

(* ... closes connections, the one it reads among them, or ...             *)
LEMMA CloseStep ==
  ASSUME SocketInv, OrderInv, NetTypeOK', UNCHANGED <<hookVars, conns, fdConn>>,
         lastLive' = lastLive, Lowered,
         NEW set \in SUBSET Conns, ClosePeers(set), jconn \in set \cup {0},
         \A c \in set : peer[c] # "none", jconn' = 0
  PROVE  OrderInv'
<1>0. NetTypeOK
  BY DEF SocketInv, TypeOK
<1>1. UNCHANGED hookVars
  OBVIOUS
<1>2. /\ WireOrder'
      /\ \A c \in Conns : \A i \in 1 .. Len(wire'[c]) :
           /\ c \notin set
           /\ i \in 1 .. Len(wire[c]) /\ wire'[c][i] = wire[c][i]
  BY <1>0, CloseOrder DEF OrderInv
<1>3. WirePlaced'
  <2>1. ASSUME NEW c \in Conns, NEW i \in 1 .. Len(wire'[c]), NEW x,
               x = wire'[c][i]
        PROVE  WellFormed(x) /\ Placed(x)'
    <3>1. x \in Chunk /\ WellFormed(x) /\ Placed(x)
      BY <1>0, <1>2, <2>1, ChunkTyped DEF OrderInv, WirePlaced
    <3>2. QED
      BY <1>1, <3>1, LoweredKeeps
  <2>2. QED
    BY <2>1 DEF WirePlaced
<1>4. NewestOpen'
  BY DEF OrderInv, NewestOpen
<1>5. PeerOrder'
  <2>1. ASSUME NEW c \in Conns
        PROVE  /\ peer'[c] = "none" <=> c > conns'
               /\ peer'[c] \in {"none", "closed"} => wire'[c] = << >>
               /\ peer'[c] = "reading" <=> c = jconn'
               /\ peer'[c] = "backlog" => jconn' < c
    <3>1. /\ peer'[c] = IF c \in set THEN "closed" ELSE peer[c]
          /\ wire'[c] = IF c \in set THEN << >> ELSE wire[c]
          /\ c # 0 /\ 0 < c
      BY DEF ClosePeers, Conns
    <3>2. CASE c \in set
      BY <3>1, <3>2 DEF OrderInv, PeerOrder
    <3>3. CASE c \notin set
      BY <3>1, <3>3 DEF OrderInv, PeerOrder
    <3>4. QED
      BY <3>2, <3>3
  <2>2. QED
    BY <2>1 DEF PeerOrder
<1>6. QED
  BY <1>1, <1>2, <1>3, <1>4, <1>5, LoweredKeeps DEF OrderInv

(* ... takes a chunk.                                                      *)
LEMMA TakeStep ==
  ASSUME SocketInv, OrderInv, NetTypeOK', UNCHANGED <<hookVars, conns, fdConn>>,
         lastLive' = lastLive, Lowered,
         jconn \in Conns, wire[jconn] # << >>, Consume, jconn' = jconn
  PROVE  OrderInv'
<1>0. NetTypeOK
  BY DEF SocketInv, TypeOK
<1>1. UNCHANGED hookVars
  OBVIOUS
<1>2. /\ WireOrder'
      /\ \A c \in Conns : \A i \in 1 .. Len(wire'[c]) :
           \E j \in 1 .. Len(wire[c]) : wire'[c][i] = wire[c][j]
      /\ \A c \in Conns : wire[c] = << >> => wire'[c] = << >>
  BY <1>0, ConsumeOrder DEF OrderInv, Consume
<1>3. WirePlaced'
  <2>1. ASSUME NEW c \in Conns, NEW i \in 1 .. Len(wire'[c]), NEW x,
               x = wire'[c][i]
        PROVE  WellFormed(x) /\ Placed(x)'
    <3>1. x \in Chunk /\ WellFormed(x) /\ Placed(x)
      BY <1>0, <1>2, <2>1, ChunkTyped DEF OrderInv, WirePlaced
    <3>2. QED
      BY <1>1, <3>1, LoweredKeeps
  <2>2. QED
    BY <2>1 DEF WirePlaced
<1>4. NewestOpen' /\ PeerOrder'
  BY <1>2 DEF OrderInv, NewestOpen, PeerOrder, Consume
<1>5. QED
  BY <1>1, <1>2, <1>3, <1>4, LoweredKeeps DEF OrderInv

(* The chunk at the head of the connection Java reads.                     *)
LEMMA HeadChunk ==
  ASSUME SocketInv, OrderInv, jconn # 0, wire[jconn] # << >>, NEW x,
         x = Head(wire[jconn])
  PROVE  /\ jconn \in Conns /\ x \in Chunk /\ WellFormed(x) /\ Placed(x)
         /\ \A c \in Conns : \A j \in 1 .. Len(wire[c]) :
              (c = jconn => 1 < j) => InOrder(x, wire[c][j])
<1>0. NetTypeOK /\ JavaTypeOK
  BY DEF SocketInv, TypeOK
<1>1. jconn \in Conns
  BY <1>0 DEF JavaTypeOK, Conns
<1>2. /\ Len(wire[jconn]) \in Nat /\ 1 \in 1 .. Len(wire[jconn])
      /\ x = wire[jconn][1] /\ x \in Chunk
  BY <1>0, <1>1, ChunkTyped
<1>3. WellFormed(x) /\ Placed(x)
  BY <1>1, <1>2 DEF OrderInv, WirePlaced
<1>4. ASSUME NEW c \in Conns, NEW j \in 1 .. Len(wire[c]),
             c = jconn => 1 < j
      PROVE  InOrder(x, wire[c][j])
  <2>1. CASE c < jconn
    <3>1. /\ peer[jconn] = "reading" /\ conns \in Nat
          /\ c \in Nat /\ jconn \in Nat
      BY <1>0, <1>1, BoundAssumption
         DEF BoundAssumption, OrderInv, PeerOrder, NetTypeOK, Conns
    <3>2. ~(jconn > conns)
      BY <1>1, <3>1 DEF OrderInv, PeerOrder
    <3>3. peer[c] \notin {"none", "reading", "backlog"}
      BY <2>1, <3>1, <3>2 DEF OrderInv, PeerOrder
    <3>4. peer[c] = "closed"
      BY <1>0, <3>3 DEF NetTypeOK, PeerStates
    <3>5. wire[c] = << >>
      BY <3>4 DEF OrderInv, PeerOrder
    <3>6. QED
      BY <3>5
  <2>2. CASE jconn < c \/ jconn = c
    BY <1>1, <1>2, <1>4, <2>2 DEF OrderInv, WireOrder
  <2>3. QED
    BY <1>1, <2>1, <2>2 DEF Conns
<1>5. QED
  BY <1>1, <1>2, <1>3, <1>4

(* A frame that is complete and live is a payload.                         *)
LEMMA LiveIsBody ==
  ASSUME NEW x, WellFormed(x), Completes(x), x.frame.kind = "live"
  PROVE  Carries(x)
BY DEF WellFormed, Completes, Carries

LEMMA DispatchStep ==
  ASSUME SocketInv, OrderInv, NetTypeOK', UNCHANGED <<hookVars, conns, fdConn>>,
         jconn # 0, wire[jconn] # << >>, ReadFrame(Head(wire[jconn]))
  PROVE  OrderInv'
<1>0. NetTypeOK /\ HookTypeOK /\ JavaTypeOK
  BY DEF SocketInv, TypeOK
<1>1. PICK x : x = Head(wire[jconn])
  OBVIOUS
<1>2. /\ jconn \in Conns /\ x \in Chunk /\ WellFormed(x) /\ Placed(x)
      /\ \A c \in Conns : \A j \in 1 .. Len(wire[c]) :
           (c = jconn => 1 < j) => InOrder(x, wire[c][j])
  BY <1>1, HeadChunk
<1>3. /\ Completes(x) /\ Consume /\ jconn' = jconn
      /\ lastLive' = IF x.frame.kind = "live" THEN x.frame.val ELSE lastLive
      /\ seen' = IF x.frame.type \in listener
                 THEN [seen EXCEPT ![x.frame.type] = x.frame.val] ELSE seen
  BY <1>1 DEF ReadFrame, Dispatch, Deliver
<1>4. /\ UNCHANGED <<pub, ring, wFrame, sticky, snap, todo, cPc>>
      /\ x.frame.val \in Nat /\ pub \in Nat /\ lastLive \in Nat
  BY <1>0, <1>2, ChunkFields, HookBoundAssumption
     DEF HookBoundAssumption, hookVars, HookTypeOK, JavaTypeOK
<1>5. /\ lastLive' = lastLive
         \/ (Carries(x) /\ lastLive' = x.frame.val /\ lastLive < lastLive')
      /\ lastLive' \in Nat
  BY <1>2, <1>3, <1>4, LiveIsBody DEF Placed
<1>6. \A t \in Types :
        \/ seen'[t] = seen[t]
        \/ t = x.frame.type /\ seen'[t] = x.frame.val
  BY <1>0, <1>3 DEF JavaTypeOK
<1>7. /\ WireOrder'
      /\ \A c \in Conns : \A i \in 1 .. Len(wire'[c]) :
           \E j \in 1 .. Len(wire[c]) :
             wire'[c][i] = wire[c][j] /\ (c = jconn => 1 < j)
      /\ \A c \in Conns : wire[c] = << >> => wire'[c] = << >>
  BY <1>0, <1>2, <1>3, ConsumeOrder DEF OrderInv, Consume
<1>8. ASSUME NEW y \in Chunk, WellFormed(y), Placed(y), InOrder(x, y)
      PROVE  Placed(y)'
  <2>1. y.frame.val \in Nat
    BY ChunkFields
  <2>2. Carries(y) => lastLive' < y.frame.val
    BY <1>5, <1>8 DEF Placed, InOrder
  <2>3. y.frame.type \in Types /\ y.frame.kind = "replay" =>
          seen'[y.frame.type] =< y.frame.val
    BY <1>6, <1>8 DEF Placed, InOrder
  <2>4. QED
    BY <1>4, <1>8, <2>2, <2>3 DEF Placed
<1>9. WirePlaced'
  <2>1. ASSUME NEW c \in Conns, NEW i \in 1 .. Len(wire'[c]), NEW y,
               y = wire'[c][i]
        PROVE  WellFormed(y) /\ Placed(y)'
    <3>1. PICK j \in 1 .. Len(wire[c]) : y = wire[c][j] /\ (c = jconn => 1 < j)
      BY <1>7, <2>1
    <3>2. y \in Chunk /\ WellFormed(y) /\ Placed(y) /\ InOrder(x, y)
      BY <1>0, <1>2, <3>1, ChunkTyped DEF OrderInv, WirePlaced
    <3>3. QED
      BY <1>8, <3>2
  <2>2. QED
    BY <2>1 DEF WirePlaced
<1>10. NewestOpen' /\ PeerOrder' /\ TodoPlace'
  BY <1>3, <1>4, <1>7 DEF OrderInv, NewestOpen, PeerOrder, TodoPlace, Consume
<1>11. QueueOrder'
  <2>1. lastLive' =< pub
    BY <1>2, <1>5 DEF OrderInv, QueueOrder, Placed
  <2>2. \A j \in 1 .. Len(ring) : lastLive' < ring[j].val
    BY <1>2, <1>5 DEF OrderInv, QueueOrder, Queued, Placed
  <2>3. wFrame # NoEntry => lastLive' < wFrame.val
    BY <1>2, <1>5 DEF OrderInv, QueueOrder, Queued, Placed
  <2>4. QED
    BY <1>4, <2>1, <2>2, <2>3 DEF OrderInv, QueueOrder, Queued
<1>12. CacheAhead'
  <2>1. ASSUME NEW t \in Types
        PROVE  /\ seen'[t] =< pub /\ sticky[t] =< pub
               /\ sticky[t] = 0 \/ seen'[t] =< sticky[t]
               /\ t \in todo => /\ 0 < snap[t] /\ snap[t] =< sticky[t]
                                /\ seen'[t] =< snap[t]
    <3>1. CASE seen'[t] = seen[t]
      BY <3>1 DEF OrderInv, CacheAhead
    <3>2. CASE t = x.frame.type /\ seen'[t] = x.frame.val
      BY <1>2, <3>2 DEF OrderInv, CacheAhead, Placed
    <3>3. QED
      BY <1>6, <3>1, <3>2
  <2>2. QED
    BY <1>4, <2>1 DEF CacheAhead
<1>13. QED
  BY <1>7, <1>9, <1>10, <1>11, <1>12 DEF OrderInv

LEMMA ReadOrder ==
  ASSUME SocketInv, OrderInv, NetTypeOK', UNCHANGED hookVars, JavaRead
  PROVE  OrderInv'
<1>0. NetTypeOK /\ JavaTypeOK
  BY DEF SocketInv, TypeOK
<1>1. PICK x : x = Head(wire[jconn])
  OBVIOUS
<1>2. /\ jconn # 0 /\ wire[jconn] # << >>
      /\ UNCHANGED <<conns, fdConn, listener>>
      /\ ReadFrame(x) \/ ReadPart(x) \/ ReadBadMagic(x) \/ ReadMixture(x)
  BY <1>1 DEF JavaRead
<1>3. jconn \in Conns /\ peer[jconn] = "reading"
  BY <1>0, <1>2 DEF JavaTypeOK, Conns, OrderInv, PeerOrder
<1>4. CASE ReadFrame(x)
  BY <1>1, <1>2, <1>4, DispatchStep
<1>5. CASE /\ Consume /\ jconn' = jconn /\ lastLive' = lastLive /\ Lowered
  BY <1>2, <1>3, <1>5, TakeStep
<1>6. CASE DropConnection /\ lastLive' = lastLive /\ Lowered
  <2>1. /\ ClosePeers({jconn}) /\ jconn' = 0
        /\ {jconn} \in SUBSET Conns /\ jconn \in {jconn} \cup {0}
        /\ \A c \in {jconn} : peer[c] # "none"
    BY <1>3, <1>6 DEF DropConnection
  <2>2. QED
    BY <1>2, <1>6, <2>1, CloseStep
<1>7. CASE ~ReadFrame(x)
  <2>1. /\ lastLive' = lastLive
        /\ (Consume /\ jconn' = jconn) \/ DropConnection
    BY <1>2, <1>7 DEF ReadPart, ReadBadMagic, ReadMixture
  <2>2. \/ seen' = seen
        \/ Deliver(partial.frame.type, Torn)
    BY <1>2, <1>7 DEF ReadPart, ReadBadMagic, ReadMixture
  <2>3. Lowered
    BY <1>0, <2>2 DEF Lowered, Deliver, JavaTypeOK
  <2>4. QED
    BY <1>5, <1>6, <2>1, <2>3
<1>8. QED
  BY <1>4, <1>7

LEMMA JavaOrder ==
  ASSUME SocketInv, OrderInv, JavaSide, NetTypeOK'
  PROVE  OrderInv'
<1> USE DEF netVars
<1>0. NetTypeOK /\ JavaTypeOK /\ UNCHANGED hookVars /\ JavaNext
  BY DEF SocketInv, TypeOK, JavaSide
<1>1. CASE JavaStart \/ \E t \in Types : Subscribe(t) \/ Unsubscribe(t)
  <2>1. /\ UNCHANGED <<hookVars, conns, fdConn, wire, peer, jconn>>
        /\ lastLive' = lastLive
    BY <1>0, <1>1 DEF JavaStart, Subscribe, Unsubscribe, javaVars
  <2>2. Lowered
    BY <1>0, <1>1
       DEF JavaStart, Subscribe, Unsubscribe, javaVars, Lowered, JavaTypeOK
  <2>3. PeerOrder'
    BY <2>1 DEF OrderInv, PeerOrder
  <2>4. QED
    BY <2>1, <2>2, <2>3, StillStep
<1>2. CASE JavaStop
  <2> DEFINE set == {c \in Conns : peer[c] \in {"backlog", "reading"}}
  <2>1. /\ UNCHANGED <<hookVars, conns, fdConn>>
        /\ lastLive' = lastLive /\ seen' = seen /\ jconn' = 0
        /\ ClosePeers(set)
    BY <1>0, <1>2 DEF JavaStop
  <2>2. jconn \in set \cup {0}
    BY <1>0 DEF JavaTypeOK, Conns, OrderInv, PeerOrder
  <2>3. set \in SUBSET Conns /\ \A c \in set : peer[c] # "none"
    OBVIOUS
  <2>4. Lowered
    BY <2>1 DEF Lowered
  <2> HIDE DEF set
  <2>5. QED
    BY <2>1, <2>2, <2>3, <2>4, CloseStep
<1>3. CASE JavaAccept
  <2>1. PICK c \in Conns :
          /\ peer[c] = "backlog" /\ jconn' = c
          /\ \A d \in Conns : peer[d] = "backlog" => c =< d
          /\ peer' = [peer EXCEPT ![c] = "reading"]
    BY <1>3 DEF JavaAccept
  <2>2. /\ UNCHANGED <<hookVars, conns, fdConn, wire>>
        /\ lastLive' = lastLive /\ seen' = seen /\ jconn = 0
    BY <1>0, <1>3 DEF JavaAccept
  <2>3. ASSUME NEW d \in Conns
        PROVE  /\ peer'[d] = "none" <=> d > conns'
               /\ peer'[d] \in {"none", "closed"} => wire'[d] = << >>
               /\ peer'[d] = "reading" <=> d = jconn'
               /\ peer'[d] = "backlog" => jconn' < d
    <3>1. peer'[d] = IF d = c THEN "reading" ELSE peer[d]
      BY <1>0, <2>1 DEF NetTypeOK
    <3>2. CASE d = c
      BY <2>1, <2>2, <3>1, <3>2 DEF OrderInv, PeerOrder
    <3>3. CASE d # c
      <4>1. peer[d] # "reading" /\ d # 0
        BY <2>2 DEF OrderInv, PeerOrder, Conns
      <4>2. peer[d] = "backlog" => c < d
        BY <2>1, <3>3 DEF Conns
      <4>3. QED
        BY <2>1, <2>2, <3>1, <3>3, <4>1, <4>2 DEF OrderInv, PeerOrder
    <3>4. QED
      BY <3>2, <3>3
  <2>4. PeerOrder' /\ Lowered
    BY <2>2, <2>3 DEF PeerOrder, Lowered
  <2>5. QED
    BY <2>2, <2>4, StillStep
<1>4. CASE JavaRead
  BY <1>0, <1>4, ReadOrder
<1>5. CASE JavaEof
  <2>1. /\ ClosePeers({jconn}) /\ jconn' = 0 /\ jconn # 0
        /\ UNCHANGED <<hookVars, conns, fdConn>>
        /\ lastLive' = lastLive /\ seen' = seen
    BY <1>0, <1>5 DEF JavaEof, DropConnection
  <2>2. jconn \in Conns /\ peer[jconn] # "none"
    BY <1>0, <2>1 DEF JavaTypeOK, Conns, OrderInv, PeerOrder
  <2>3. /\ {jconn} \in SUBSET Conns /\ jconn \in {jconn} \cup {0}
        /\ \A c \in {jconn} : peer[c] # "none"
        /\ Lowered
    BY <2>1, <2>2 DEF Lowered
  <2>4. QED
    BY <2>1, <2>3, CloseStep
<1>6. QED
  BY <1>0, <1>1, <1>2, <1>3, <1>4, <1>5 DEF JavaNext, ReaderStep

-----------------------------------------------------------------------------
LEMMA InitOrder == Init => OrderInv
<1> SUFFICES ASSUME Init PROVE OrderInv
  OBVIOUS
<1> USE DEF Init, NetInit, HookInit, JavaInit, NoValues
<1>1. NewestOpen /\ TodoPlace /\ QueueOrder /\ CacheAhead
  BY DEF NewestOpen, TodoPlace, QueueOrder, CacheAhead
<1>2. PeerOrder
  BY DEF PeerOrder, Conns
<1>3. WireOrder /\ WirePlaced
  BY DEF WireOrder, WirePlaced
<1>4. QED
  BY <1>1, <1>2, <1>3 DEF OrderInv

LEMMA NextOrder == SocketInv /\ OrderInv /\ [Next]_vars => OrderInv'
<1> SUFFICES ASSUME SocketInv, OrderInv, [Next]_vars PROVE OrderInv'
  OBVIOUS
<1>1. NetTypeOK'
  BY NextSocketInv DEF SocketInv, TypeOK
<1>2. CASE HookSide
  BY <1>1, <1>2, HookOrder
<1>3. CASE JavaSide
  BY <1>1, <1>3, JavaOrder
<1>4. CASE UNCHANGED vars
  <2>1. UNCHANGED <<conns, fdConn, wire, peer, jconn, lastLive, ring, wFrame,
                    seen, sticky, snap, todo, pub, cPc>>
    BY <1>4 DEF vars, netVars, hookVars, javaVars
  <2>2. QED
    BY <2>1, QuietStep DEF OrderInv, TodoPlace
<1>5. QED
  BY <1>2, <1>3, <1>4 DEF Next

LEMMA OrderHolds == Spec => [](SocketInv /\ OrderInv)
BY InitSocketInv, NextSocketInv, InitOrder, NextOrder, PTL DEF Spec

(***************************************************************************)
(* Live frames reach dispatch() at most once and in the order of the       *)
(* bus_send() calls (bus.c:217-232, 324-331, 354-394; CarplayBus.java's    *)
(* readerLoop()), whatever is lost, torn or restarted.                     *)
(***************************************************************************)
THEOREM LiveStaysInOrder == Spec => []LiveInOrder
<1>1. ASSUME SocketInv, OrderInv
      PROVE  LiveInOrder
  <2>1. ASSUME NEW c \in Conns, NEW i \in 1 .. Len(wire[c]),
               Carries(wire[c][i])
        PROVE  /\ lastLive < wire[c][i].frame.val
               /\ \A d \in Conns : \A j \in 1 .. Len(wire[d]) :
                    ((c < d) \/ (c = d /\ i < j)) /\ Carries(wire[d][j])
                      => wire[c][i].frame.val < wire[d][j].frame.val
               /\ wFrame # NoEntry => wire[c][i].frame.val < wFrame.val
               /\ \A j \in 1 .. Len(ring) : wire[c][i].frame.val < ring[j].val
    <3>1. Placed(wire[c][i])
      BY <1>1 DEF OrderInv, WirePlaced
    <3>2. ASSUME NEW d \in Conns, NEW j \in 1 .. Len(wire[d]),
                 (c < d) \/ (c = d /\ i < j), Carries(wire[d][j])
          PROVE  wire[c][i].frame.val < wire[d][j].frame.val
      BY <1>1, <2>1, <3>2 DEF OrderInv, WireOrder, InOrder
    <3>3. QED
      BY <2>1, <3>1, <3>2 DEF Placed
  <2>2. QED
    BY <1>1, <2>1 DEF LiveInOrder, OrderInv, QueueOrder, Queued
<1>2. QED
  BY OrderHolds, <1>1, PTL

-----------------------------------------------------------------------------
(* Every step of the bus is one of the channel, or none.                   *)
LEMMA ReadIsDelivery ==
  ASSUME SocketInv, OrderInv, JavaRead, UNCHANGED <<pub, listener>>
  PROVE  Channel!Next \/ UNCHANGED Channel!chanVars
<1>0. JavaTypeOK /\ HookTypeOK /\ NoType \notin listener /\ pub \in Nat
  BY TypesAssumption, HookBoundAssumption
     DEF TypesAssumption, HookBoundAssumption, SocketInv, TypeOK, JavaTypeOK,
         HookTypeOK, NoType
<1>1. PICK x : x = Head(wire[jconn])
  OBVIOUS
<1>2. /\ jconn # 0 /\ wire[jconn] # << >>
      /\ ReadFrame(x) \/ ReadPart(x) \/ ReadBadMagic(x) \/ ReadMixture(x)
  BY <1>1 DEF JavaRead
<1>3. x \in Chunk /\ WellFormed(x) /\ Placed(x)
  BY <1>1, <1>2, HeadChunk
<1>4. CASE ReadFrame(x)
  <2> DEFINE t == x.frame.type
             v == x.frame.val
  <2>1. /\ Completes(x)
        /\ seen' = IF t \in listener THEN [seen EXCEPT ![t] = v] ELSE seen
        /\ lastLive' = IF x.frame.kind = "live" THEN v ELSE lastLive
    BY <1>4 DEF ReadFrame, Dispatch, Deliver
  <2>2. v \in Nat /\ v =< pub /\ lastLive \in Nat
    BY <1>0, <1>3, ChunkFields DEF Placed, JavaTypeOK
  <2>3. CASE x.frame.kind = "live"
    <3>1. t \in Types /\ lastLive < v /\ v \in 1 .. pub
      BY <1>0, <1>3, <2>1, <2>2, <2>3, LiveIsBody DEF WellFormed, Placed
    <3>2. Channel!DeliverLive(t, v)
      BY <2>1, <2>2, <2>3, <3>1 DEF Channel!DeliverLive, Channel!Hear
    <3>3. QED
      BY <3>1, <3>2 DEF Channel!Next
  <2>4. CASE x.frame.kind = "replay"
    <3>1. t \in Types /\ seen[t] =< v /\ 0 < v /\ v \in 1 .. pub
      BY <1>0, <1>3, <2>2, <2>4 DEF WellFormed, Placed
    <3>2. Channel!DeliverReplay(t, v)
      BY <2>1, <2>2, <2>4, <3>1 DEF Channel!DeliverReplay, Channel!Hear
    <3>3. QED
      BY <3>1, <3>2 DEF Channel!Next
  <2>5. CASE x.frame.kind \notin {"live", "replay"}
    <3>1. t \notin listener
      BY <1>0, <1>3, <2>5 DEF WellFormed
    <3>2. QED
      BY <2>1, <2>5, <3>1 DEF Channel!chanVars
  <2>6. QED
    BY <2>3, <2>4, <2>5
<1>5. CASE ~ReadFrame(x)
  <2>1. /\ lastLive' = lastLive
        /\ seen' = seen \/ Deliver(partial.frame.type, Torn)
    BY <1>2, <1>5 DEF ReadPart, ReadBadMagic, ReadMixture
  <2>2. CASE seen' = seen
    BY <2>1, <2>2 DEF Channel!chanVars
  <2>3. CASE Deliver(partial.frame.type, Torn) /\ partial.frame.type \in Types
    <3>1. Channel!DeliverTorn(partial.frame.type)
      BY <2>1, <2>3 DEF Deliver, Channel!DeliverTorn, Channel!Hear
    <3>2. QED
      BY <2>3, <3>1 DEF Channel!Next
  <2>4. CASE /\ Deliver(partial.frame.type, Torn)
             /\ partial.frame.type \notin Types
    BY <1>0, <2>1, <2>4 DEF Deliver, JavaTypeOK, Channel!chanVars
  <2>5. QED
    BY <2>1, <2>2, <2>3, <2>4
<1>6. QED
  BY <1>4, <1>5

LEMMA ChannelStep ==
  SocketInv /\ OrderInv /\ [Next]_vars
    => Channel!Next \/ UNCHANGED Channel!chanVars
<1> SUFFICES ASSUME SocketInv, OrderInv, [Next]_vars
             PROVE  Channel!Next \/ UNCHANGED Channel!chanVars
  OBVIOUS
<1>1. CASE HookSide
  <2>1. UNCHANGED <<listener, seen, lastLive>>
    BY <1>1 DEF HookSide, javaVars
  <2>2. CASE \E t \in Types : Publish(t)
    <3>1. Channel!Publish
      BY <2>1, <2>2 DEF Publish, Channel!Publish
    <3>2. QED
      BY <3>1 DEF Channel!Next
  <2>3. CASE ~ \E t \in Types : Publish(t)
    <3>1. pub' = pub
      BY <1>1, <2>3
         DEF HookSide, HookNext, ConnectorStep, WriterStep, Connect, SendHello,
             TakeSnapshot, SendSyncBegin, SendReplay, SendSyncEnd,
             SendIgnoringResult, Expose, NoticeLost, NoticePeerClosed,
             WriterWaits, WriterDequeues, WriterHeader, WriterPayload,
             WriterSends, WriterFails, SpuriousWakeup, HookRestart, prodVars
    <3>2. QED
      BY <2>1, <3>1 DEF Channel!chanVars
  <2>4. QED
    BY <2>2, <2>3
<1>2. CASE JavaSide
  <2>1. pub' = pub /\ JavaNext
    BY <1>2 DEF JavaSide, hookVars
  <2>2. CASE JavaRead
    <3>1. UNCHANGED listener
      BY <2>2 DEF JavaRead
    <3>2. QED
      BY <2>1, <2>2, <3>1, ReadIsDelivery
  <2>3. CASE \E t \in Types : Subscribe(t) \/ Unsubscribe(t)
    <3>1. PICK t \in Types : Subscribe(t) \/ Unsubscribe(t)
      BY <2>3
    <3>2. Channel!Subscribe(t) \/ Channel!Unsubscribe(t)
      BY <2>1, <3>1
         DEF Subscribe, Unsubscribe, Channel!Subscribe, Channel!Unsubscribe
    <3>3. QED
      BY <3>2 DEF Channel!Next
  <2>4. CASE JavaStart \/ JavaStop \/ JavaAccept \/ JavaEof
    BY <2>1, <2>4 DEF JavaStart, JavaStop, JavaAccept, JavaEof, javaVars,
       Channel!chanVars
  <2>5. QED
    BY <2>1, <2>2, <2>3, <2>4 DEF JavaNext, ReaderStep
<1>3. CASE UNCHANGED vars
  BY <1>3 DEF vars, hookVars, javaVars, Channel!chanVars
<1>4. QED
  BY <1>1, <1>2, <1>3 DEF Next

(***************************************************************************)
(* bus.c and CarplayBus.java together implement StickyChannel: a replay    *)
(* never takes a listener back, live frames come at most once and in order *)
(* (bus.c:324-329, 361-391; CarplayBus.java's dispatch()).                 *)
(***************************************************************************)
THEOREM BusImplementsChannel == Spec => ImplementsChannel
<1>1. Init => Channel!Init
  BY DEF Init, HookInit, JavaInit, Channel!Init
<1>2. SocketInv /\ OrderInv /\ [Next]_vars
        => [Channel!Next]_(Channel!chanVars)
  BY ChannelStep
<1>3. QED
  BY OrderHolds, <1>1, <1>2, PTL DEF Spec, ImplementsChannel, Channel!Spec

-----------------------------------------------------------------------------
(* The bus tears no frame and loses no last value: what comes out of it    *)
(* with nothing on its way is what was published last.                     *)

(* The hook has one bus socket open at a time, on the newest connection.   *)
LEMMA OneOpen ==
  ASSUME SocketInv, OrderInv, NEW fd \in Fds, fdConn[fd] # 0
  PROVE  /\ fdConn[fd] = conns /\ conns \in Conns
         /\ \A e \in Fds : fdConn[e] # 0 => e = fd
<1>1. fdConn[fd] = conns /\ conns \in Conns
  BY DEF SocketInv, TypeOK, NetTypeOK, OrderInv, NewestOpen, Conns
<1>2. \A e \in Fds : fdConn[e] # 0 => e = fd
  BY FdsAssumption DEF FdsAssumption, SocketInv, OneSocket, Exposure
<1>3. QED
  BY <1>1, <1>2

(* What a step that closes descriptors or opens one on a newer connection  *)
(* leaves due on c.                                                        *)
LEMMA DueKept ==
  ASSUME SocketInv, OrderInv, NEW c \in Conns,
         \A fd \in Fds : fdConn'[fd] = c => fdConn[fd] = c,
         \/ wPc # "body"
         \/ UNCHANGED writVars
         \/ \A fd \in Fds : fdConn'[fd] = 0
  PROVE  \A f : BodyDue(c, f) => BodyDue(c, f)'
<1> SUFFICES ASSUME NEW f, BodyDue(c, f), HookEndOpen(c)'
             PROVE  wPc' = "body" /\ fdConn'[wFd'] = c /\ Live' = f
  BY DEF BodyDue
<1>1. PICK fd \in Fds : fdConn'[fd] = c /\ fdConn[fd] = c
  BY DEF HookEndOpen
<1>2. c # 0
  BY DEF Conns
<1>3. wPc = "body" /\ fdConn[wFd] = c /\ Live = f
  BY <1>1 DEF BodyDue, HookEndOpen
<1>4. UNCHANGED writVars
  BY <1>1, <1>2, <1>3
<1>5. wFd \in Fds
  BY <1>3 DEF SocketInv, ThreadLocals, TypeOK, HookTypeOK
<1>6. wFd = fd
  BY <1>1, <1>2, <1>3, <1>5, OneOpen
<1>7. QED
  BY <1>1, <1>3, <1>4, <1>6 DEF writVars, Live

(* A connection whose bytes and reader a step leaves alone.                *)
LEMMA WholeKept ==
  ASSUME NEW c \in Conns, Whole(c), wire'[c] = wire[c],
         c = jconn' => c = jconn /\ partial' = partial,
         \A f : BodyDue(c, f) => BodyDue(c, f)'
  PROVE  Whole(c)'
BY DEF Whole, HasBody

LEMMA WholeEmpty ==
  ASSUME NEW c \in Conns, wire'[c] = << >>, c # jconn'
  PROVE  Whole(c)'
BY DEF Whole

(* One more chunk, at the end of c.                                        *)
LEMMA WholePut ==
  ASSUME NEW c \in Conns, Whole(c), wire[c] \in Seq(Chunk),
         NEW part \in Parts \ {"piece"}, NEW frame \in Frame,
         wire'[c] = Append(wire[c], New(part, frame)),
         UNCHANGED <<jconn, partial>>,
         \A f : BodyDue(c, f) => part = "body" /\ frame = f,
         part = "head" => BodyDue(c, frame)'
  PROVE  Whole(c)'
<1> DEFINE x == New(part, frame)
           n == Len(wire[c])
<1>1. /\ n \in Nat /\ Len(wire'[c]) = n + 1
      /\ \A i \in 1 .. n : wire'[c][i] = wire[c][i]
      /\ wire'[c][n + 1] = x
  <2>1. x \in Chunk
    BY DEF New, Chunk
  <2>2. QED
    BY <2>1, AppendProperties
<1>2. x.part = part /\ x.frame = frame
  BY DEF New
<1>3. \A f : BodyDue(c, f) => HasBody(x, f)
  BY DEF HasBody, New
<1>4. ASSUME NEW i \in 1 .. Len(wire'[c]), NEW g, g = wire'[c][i].frame
      PROVE  /\ wire'[c][i].part # "piece"
             /\ wire'[c][i].part = "head" =>
                  IF i < Len(wire'[c]) THEN HasBody(wire'[c][i + 1], g)
                  ELSE BodyDue(c, g)'
  <2>1. CASE i = n + 1
    <3>1. g = frame
      BY <1>1, <1>2, <1>4, <2>1
    <3>2. QED
      BY <1>1, <1>2, <2>1, <3>1
  <2>2. CASE i \in 1 .. n
    <3>1. wire'[c][i] = wire[c][i] /\ i < Len(wire'[c])
      BY <1>1, <2>2
    <3>2. CASE i < n
      <4>1. wire'[c][i + 1] = wire[c][i + 1]
        BY <1>1, <3>2
      <4>2. QED
        BY <1>4, <2>2, <3>1, <3>2, <4>1 DEF Whole
    <3>3. CASE i = n
      <4>1. wire'[c][i + 1] = x /\ ~(i < Len(wire[c]))
        BY <1>1, <3>3
      <4>2. wire[c][i].part = "head" => BodyDue(c, g)
        BY <1>4, <2>2, <3>1, <4>1 DEF Whole
      <4>3. QED
        BY <1>3, <2>2, <3>1, <4>1, <4>2 DEF Whole
    <3>4. QED
      BY <1>1, <2>2, <3>2, <3>3
  <2>3. QED
    BY <1>1, <2>1, <2>2
<1>5. ASSUME c = jconn', partial' # NoChunk
      PROVE  /\ partial'.part = "head"
             /\ wire'[c] # << >> /\ HasBody(wire'[c][1], partial'.frame)
  <2>1. /\ partial.part = "head"
        /\ IF wire[c] # << >> THEN HasBody(wire[c][1], partial.frame)
           ELSE BodyDue(c, partial.frame)
    BY <1>5 DEF Whole
  <2>2. CASE wire[c] # << >>
    <3>1. n # 0 /\ wire'[c][1] = wire[c][1]
      BY <1>1, <2>2
    <3>2. QED
      BY <1>1, <2>1, <2>2, <3>1
  <2>3. CASE wire[c] = << >>
    <3>1. n = 0
      BY <2>3
    <3>2. QED
      BY <1>1, <1>3, <2>1, <2>3, <3>1
  <2>4. QED
    BY <2>2, <2>3
<1>6. QED
  BY <1>4, <1>5 DEF Whole, HasBody

(* The chunk at the near end of jconn is taken.                            *)
LEMMA WholeTaken ==
  ASSUME Whole(jconn), jconn \in Conns, wire[jconn] \in Seq(Chunk),
         wire[jconn] # << >>, wire'[jconn] = Tail(wire[jconn]),
         UNCHANGED <<jconn, hookVars, fdConn>>,
         \/ partial' = NoChunk
         \/ partial' = Head(wire[jconn]) /\ partial'.part = "head"
  PROVE  Whole(jconn)'
<1> DEFINE c == jconn
           n == Len(wire[c])
<1>1. /\ n \in Nat \ {0} /\ Len(wire'[c]) = n - 1
      /\ \A i \in 1 .. n - 1 : wire'[c][i] = wire[c][i + 1]
      /\ IF wire'[c] = << >> THEN n = 1 ELSE 1 < n
      /\ Head(wire[c]) = wire[c][1]
  <2>1. /\ Len(Tail(wire[c])) = n - 1
        /\ \A i \in 1 .. Len(Tail(wire[c])) : Tail(wire[c])[i] = wire[c][i + 1]
        /\ Tail(wire[c]) \in Seq(Chunk)
    BY HeadTailProperties
  <2>2. Head(wire[c]) = wire[c][1] /\ n \in Nat \ {0}
    OBVIOUS
  <2>3. wire'[c] = << >> => n - 1 = 0
    BY <2>1, EmptySeq, Zenon
  <2>4. wire'[c] # << >> => n - 1 # 0
    BY <2>1, EmptySeq
  <2>5. QED
    BY <2>1, <2>2, <2>3, <2>4
<1>2. \A f : BodyDue(c, f)' <=> BodyDue(c, f)
  BY DEF BodyDue, HookEndOpen, hookVars, writVars, Live
<1>3. ASSUME NEW i \in 1 .. n - 1, NEW g, g = wire'[c][i].frame
      PROVE  /\ wire'[c][i].part # "piece"
             /\ wire'[c][i].part = "head" =>
                  IF i < n - 1 THEN HasBody(wire'[c][i + 1], g)
                  ELSE BodyDue(c, g)'
  <2>1. /\ wire'[c][i] = wire[c][i + 1] /\ i + 1 \in 1 .. n
        /\ i + 1 < n <=> i < n - 1
        /\ i < n - 1 => wire'[c][i + 1] = wire[c][(i + 1) + 1]
    BY <1>1
  <2>2. /\ wire[c][i + 1].part # "piece"
        /\ wire[c][i + 1].part = "head" =>
             IF i + 1 < n THEN HasBody(wire[c][(i + 1) + 1], g)
             ELSE BodyDue(c, g)
    BY <1>3, <2>1 DEF Whole
  <2>3. QED
    BY <1>2, <2>1, <2>2
<1>4. ASSUME partial' # NoChunk, NEW g, g = partial'.frame
      PROVE  /\ partial'.part = "head"
             /\ IF wire'[c] # << >> THEN HasBody(wire'[c][1], g)
                ELSE BodyDue(c, g)'
  <2>1. /\ partial'.part = "head" /\ wire[c][1].part = "head"
        /\ g = wire[c][1].frame
    BY <1>1, <1>4
  <2>2. IF 1 < n THEN HasBody(wire[c][2], g) ELSE BodyDue(c, g)
    BY <1>1, <2>1 DEF Whole
  <2>3. CASE wire'[c] # << >>
    <3>1. 1 < n /\ wire'[c][1] = wire[c][2]
      BY <1>1, <2>3
    <3>2. QED
      BY <2>1, <2>2, <2>3, <3>1
  <2>4. CASE wire'[c] = << >>
    <3>1. n = 1
      BY <1>1, <2>4
    <3>2. QED
      BY <1>2, <2>1, <2>2, <2>4, <3>1
  <2>5. QED
    BY <2>3, <2>4
<1>5. QED
  BY <1>1, <1>3, <1>4 DEF Whole, HasBody

-----------------------------------------------------------------------------
(* A step of the hook that puts nothing on a wire.                         *)
LEMMA QuietWhole ==
  ASSUME SocketInv, OrderInv, FrameInv,
         UNCHANGED <<wire, cut, jconn, partial, seen>>,
         \A c \in Conns : \A fd \in Fds : fdConn'[fd] = c => fdConn[fd] = c,
         \/ wPc # "body"
         \/ UNCHANGED writVars
         \/ \A fd \in Fds : fdConn'[fd] = 0
  PROVE  FrameInv'
<1>1. ASSUME NEW c \in Conns, c \notin cut'
      PROVE  Whole(c)'
  <2>1. Whole(c)
    BY <1>1 DEF FrameInv
  <2>2. \A f : BodyDue(c, f) => BodyDue(c, f)'
    BY DueKept
  <2>3. QED
    BY <2>1, <2>2, WholeKept
<1>2. QED
  BY <1>1 DEF FrameInv, NoTornFrame

(* A send() that comes to nothing on a connection without timeouts.        *)
LEMMA FailWhole ==
  ASSUME SocketInv, OrderInv, FrameInv, NEW fd \in Fds, NEW frame,
         SendFails(fd, frame),
         UNCHANGED <<jconn, partial, seen>>,
         \A c \in Conns : \A e \in Fds : fdConn'[e] = c => fdConn[e] = c,
         wPc = "body" => wFd = fd
  PROVE  FrameInv'
<1> USE DEF FrameInv
<1>1. ASSUME NEW c \in Conns, c \notin cut'
      PROVE  Whole(c)'
  <2>1. c \notin cut /\ Whole(c) /\ wire'[c] = wire[c]
    <3>1. CASE ~Reaches(fd)
      BY <1>1, <3>1 DEF SendFails
    <3>2. CASE Reaches(fd)
      <4>1. cut' = cut \cup {fdConn[fd]} /\ c # fdConn[fd]
        BY <1>1, <3>2 DEF SendFails
      <4>2. /\ fdConn[fd] \in Conns
            /\ PutOnWire(fd, "piece", frame) \/ UNCHANGED wire
        BY <3>2, OneOpen DEF SendFails, Reaches
      <4>3. wire'[c] = wire[c]
        BY <4>1, <4>2 DEF PutOnWire, SocketInv, TypeOK, NetTypeOK
      <4>4. QED
        BY <1>1, <4>1, <4>3
    <3>3. QED
      BY <3>1, <3>2
  <2>2. CASE c # fdConn[fd]
    <3>1. \A f : BodyDue(c, f) => BodyDue(c, f)'
      BY <2>2 DEF BodyDue, HookEndOpen
    <3>2. QED
      BY <2>1, <3>1, WholeKept
  <2>3. CASE c = fdConn[fd]
    <3>1. ~Reaches(fd) /\ c # 0
      BY <1>1, <2>3 DEF SendFails, Conns
    <3>2. peer[c] \in {"none", "closed"}
      BY <2>3, <3>1 DEF Reaches, SocketInv, TypeOK, NetTypeOK, PeerStates
    <3>3. wire[c] = << >> /\ c # jconn
      BY <3>2 DEF OrderInv, PeerOrder
    <3>4. QED
      BY <2>1, <3>3, WholeEmpty
  <2>4. QED
    BY <2>2, <2>3
<1>2. cut \subseteq cut'
  BY DEF SendFails
<1>3. NoTornFrame'
  BY <1>2 DEF NoTornFrame
<1>4. QED
  BY <1>1, <1>3

(* A send() that succeeds, of a frame of the connector.                    *)
LEMMA SentWhole ==
  ASSUME SocketInv, OrderInv, FrameInv, NEW fd \in Fds,
         NEW part \in Parts \ {"piece"}, NEW frame \in Frame,
         SendOk(fd, part, frame),
         UNCHANGED <<jconn, partial, seen, fdConn>>,
         wPc = "body" => part = "body" /\ wFd = fd /\ Live = frame,
         part = "head" => wPc' = "body" /\ wFd' = fd /\ Live' = frame
  PROVE  FrameInv'
<1> USE DEF FrameInv
<1>0. NetTypeOK /\ cut' = cut
  BY DEF SocketInv, TypeOK, SendOk
<1>1. ASSUME NEW c \in Conns, c \notin cut'
      PROVE  Whole(c)'
  <2>1. c \notin cut /\ Whole(c) /\ c # 0
    BY <1>0, <1>1 DEF Conns
  <2>2. CASE c # fdConn[fd]
    <3>1. wire'[c] = wire[c]
      <4>1. Reaches(fd) => fdConn[fd] \in Conns
        BY OneOpen DEF Reaches
      <4>2. QED
        BY <1>0, <2>2, <4>1 DEF SendOk, PutOnWire, NetTypeOK
    <3>2. \A f : BodyDue(c, f) => BodyDue(c, f)'
      BY <2>2 DEF BodyDue, HookEndOpen
    <3>3. QED
      BY <2>1, <3>1, <3>2, WholeKept
  <2>3. CASE c = fdConn[fd] /\ ~Reaches(fd)
    <3>1. peer[c] \in {"none", "closed"} /\ wire' = wire
      BY <1>0, <2>1, <2>3
         DEF Reaches, NetTypeOK, PeerStates, SendOk, PutOnWire
    <3>2. wire[c] = << >> /\ c # jconn
      BY <3>1 DEF OrderInv, PeerOrder
    <3>3. QED
      BY <3>1, <3>2, WholeEmpty
  <2>4. CASE c = fdConn[fd] /\ Reaches(fd)
    <3>1. wire'[c] = Append(wire[c], New(part, frame))
      BY <1>0, <2>4 DEF SendOk, PutOnWire, NetTypeOK, New
    <3>2. HookEndOpen(c)
      BY <2>4 DEF HookEndOpen
    <3>3. \A f : BodyDue(c, f) => part = "body" /\ frame = f
      BY <3>2 DEF BodyDue
    <3>4. ASSUME part = "head" PROVE BodyDue(c, frame)'
      <4>1. wPc' = "body" /\ wFd' = fd /\ Live' = frame
        BY <3>4
      <4>2. QED
        BY <2>4, <4>1 DEF BodyDue
    <3>5. wire[c] \in Seq(Chunk)
      BY <1>0 DEF NetTypeOK
    <3>6. QED
      BY <2>1, <3>1, <3>3, <3>4, <3>5, WholePut
  <2>5. QED
    BY <2>2, <2>3, <2>4
<1>2. QED
  BY <1>0, <1>1 DEF NoTornFrame

LEMMA ConnectWhole ==
  ASSUME SocketInv, OrderInv, FrameInv, Connect, UNCHANGED javaVars
  PROVE  FrameInv'
<1> USE DEF FrameInv
<1>0. NetTypeOK
  BY DEF SocketInv, TypeOK
<1>1. PICK fd \in Fds : OpenFd(fd)
  BY DEF Connect
<1>2. /\ UNCHANGED <<wire, cut, jconn, partial, seen, writVars>>
      /\ conns + 1 \in Conns /\ conns \in Nat /\ fdConn[fd] = 0
      /\ \A e \in Fds : fdConn'[e] = IF e = fd THEN conns + 1 ELSE fdConn[e]
  BY <1>0, <1>1, BoundAssumption
     DEF BoundAssumption, Connect, OpenFd, NetTypeOK, javaVars, Conns
<1>3. ASSUME NEW c \in Conns, c \notin cut'
      PROVE  Whole(c)'
  <2>1. CASE c # conns + 1
    <3>1. \A f : BodyDue(c, f) => BodyDue(c, f)'
      BY <1>2, <2>1, DueKept
    <3>2. QED
      BY <1>2, <1>3, <3>1, WholeKept
  <2>2. CASE c = conns + 1
    <3>1. peer[c] = "none"
      BY <1>2, <2>2 DEF OrderInv, PeerOrder
    <3>2. wire'[c] = << >> /\ c # jconn'
      BY <1>2, <3>1 DEF OrderInv, PeerOrder
    <3>3. QED
      BY <3>2, WholeEmpty
  <2>3. QED
    BY <2>1, <2>2
<1>4. QED
  BY <1>2, <1>3 DEF NoTornFrame

(* The frames of the connector go out whole, with g_sock_write free.       *)
LEMMA ConnectorFrame ==
  ASSUME SocketInv, OrderInv, FrameInv, ConnectorStep, UNCHANGED javaVars
  PROVE  FrameInv'
<1>0. /\ UNCHANGED <<jconn, partial, seen>>
      /\ cPc # "connect" => cFd \in Fds /\ cFd # NoFd
  BY DEF javaVars, SocketInv, ThreadLocals, TypeOK, HookTypeOK
<1>1. CASE Connect
  BY <1>1, ConnectWhole
<1>2. CASE TakeSnapshot \/ NoticeLost
  <2>1. UNCHANGED <<wire, cut, fdConn, writVars>>
    BY <1>2 DEF TakeSnapshot, NoticeLost, netVars
  <2>2. QED
    BY <1>0, <2>1, QuietWhole
<1>3. CASE Expose \/ NoticePeerClosed
  <2>1. /\ UNCHANGED <<wire, cut>>
        /\ wPc # "body" \/ UNCHANGED writVars
    BY <1>3 DEF Expose, NoticePeerClosed, WakeWriter, writVars
  <2>2. \A c \in Conns : \A fd \in Fds : fdConn'[fd] = c => fdConn[fd] = c
    <3>1. \/ fdConn' = fdConn
          \/ \E e : fdConn' = [fdConn EXCEPT ![e] = 0]
      BY <1>3 DEF Expose, NoticePeerClosed, DropCurrent, CloseFd
    <3>2. \A c \in Conns : c # 0
      BY DEF Conns
    <3>3. QED
      BY <3>1, <3>2 DEF SocketInv, TypeOK, NetTypeOK
  <2>3. QED
    BY <1>0, <2>1, <2>2, QuietWhole
<1>4. CASE SendHello
  <2>1. /\ cPc = "hello" /\ wPc # "body" /\ UNCHANGED writVars
        /\ Hello \in Frame /\ "whole" \in Parts \ {"piece"}
    BY <1>4 DEF SendHello, SockWriteFree, Hello, Frame, Kinds, Parts
  <2>2. CASE SendOk(cFd, "whole", Hello) /\ HelloSent
    BY <1>0, <2>1, <2>2, SentWhole DEF HelloSent
  <2>3. CASE SendFails(cFd, Hello) /\ HelloFailed
    <3>1. \A c \in Conns : \A fd \in Fds : fdConn'[fd] = c => fdConn[fd] = c
      <4>1. fdConn' = [fdConn EXCEPT ![cFd] = 0] /\ \A c \in Conns : c # 0
        BY <2>3 DEF HelloFailed, CloseFd, Conns
      <4>2. QED
        BY <4>1 DEF SocketInv, TypeOK, NetTypeOK
    <3>2. QED
      BY <1>0, <2>1, <2>3, <3>1, FailWhole
  <2>4. QED
    BY <1>4, <2>2, <2>3 DEF SendHello
<1>5. ASSUME NEW frame \in Frame, SendIgnoringResult(frame), cPc # "connect"
      PROVE  FrameInv'
  <2>1. /\ wPc # "body" /\ UNCHANGED <<writVars, fdConn>>
        /\ "whole" \in Parts \ {"piece"}
    BY <1>5 DEF SendIgnoringResult, SockWriteFree, Parts
  <2>2. SendOk(cFd, "whole", frame) \/ SendFails(cFd, frame)
    BY <1>5 DEF SendIgnoringResult
  <2>3. CASE SendOk(cFd, "whole", frame)
    BY <1>0, <1>5, <2>1, <2>3, SentWhole
  <2>4. CASE SendFails(cFd, frame)
    BY <1>0, <1>5, <2>1, <2>4, FailWhole
  <2>5. QED
    BY <2>2, <2>3, <2>4
<1>6. CASE SendSyncBegin \/ SendSyncEnd \/ \E t \in Types : SendReplay(t)
  <2>1. /\ SyncBegin \in Frame /\ SyncEnd \in Frame
        /\ \A t \in Types : Replay(t) \in Frame
    BY DEF SyncBegin, SyncEnd, Replay, Frame, Kinds, SocketInv, TypeOK,
           HookTypeOK
  <2>2. QED
    BY <1>5, <1>6, <2>1 DEF SendSyncBegin, SendSyncEnd, SendReplay
<1>7. QED
  BY <1>1, <1>2, <1>3, <1>4, <1>6 DEF ConnectorStep

(* The writer holds g_sock_write from a header to its payload.             *)
LEMMA WriterFrame ==
  ASSUME SocketInv, OrderInv, FrameInv, WriterStep, UNCHANGED javaVars
  PROVE  FrameInv'
<1>0. /\ UNCHANGED <<jconn, partial, seen>>
      /\ wPc \notin {"check", "asleep"} => wFd \in Fds /\ Live \in Frame
  <2>1. wPc \notin {"check", "asleep"} => wFd \in Fds /\ wFrame \in Entry
    BY DEF SocketInv, ThreadLocals, TypeOK, HookTypeOK
  <2>2. wFrame \in Entry => Live \in Frame
    BY DEF Entry, Live, Frame, Kinds
  <2>3. QED
    BY <2>1, <2>2 DEF javaVars
<1>1. CASE WriterWaits \/ WriterDequeues
  <2>1. UNCHANGED <<wire, cut, fdConn>> /\ wPc # "body"
    BY <1>1 DEF WriterWaits, WriterDequeues, netVars
  <2>2. QED
    BY <1>0, <2>1, QuietWhole
<1>2. CASE WriterFails
  <2>1. /\ UNCHANGED <<wire, cut>> /\ wPc # "body"
        /\ fdConn' = fdConn \/ fdConn' = [fdConn EXCEPT ![wFd] = 0]
    BY <1>2 DEF WriterFails, DropCurrent, CloseFd
  <2>2. \A c \in Conns : \A fd \in Fds : fdConn'[fd] = c => fdConn[fd] = c
    BY <2>1 DEF SocketInv, TypeOK, NetTypeOK, Conns
  <2>3. QED
    BY <1>0, <2>1, <2>2, QuietWhole
<1>3. ASSUME NEW part \in Parts \ {"piece"}, WriterSends(part),
             \/ wPc = "head" /\ part = "head"
             \/ wPc = "body" /\ part = "body"
      PROVE  FrameInv'
  <2>1. wFd \in Fds /\ Live \in Frame /\ UNCHANGED fdConn
    BY <1>0, <1>3 DEF WriterSends
  <2>2. CASE /\ SendOk(wFd, part, Live)
             /\ IF part = "head"
                THEN wPc' = "body" /\ UNCHANGED <<wFd, wFrame>>
                ELSE FrameDone
    <3>1. part = "head" => wPc' = "body" /\ wFd' = wFd /\ Live' = Live
      BY <2>2 DEF Live
    <3>2. QED
      BY <1>0, <1>3, <2>1, <2>2, <3>1, SentWhole
  <2>3. CASE SendFails(wFd, Live)
    BY <1>0, <2>1, <2>3, FailWhole
  <2>4. QED
    BY <1>3, <2>2, <2>3 DEF WriterSends
<1>4. {"head", "body"} \subseteq Parts \ {"piece"}
  BY DEF Parts
<1>5. QED
  BY <1>1, <1>2, <1>3, <1>4 DEF WriterStep, WriterHeader, WriterPayload

LEMMA HookFrame ==
  ASSUME SocketInv, OrderInv, FrameInv, HookSide
  PROVE  FrameInv'
<1>0. HookNext /\ UNCHANGED javaVars
  BY DEF HookSide
<1>1. CASE SpuriousWakeup \/ \E t \in Types : Publish(t)
  <2>1. /\ UNCHANGED <<wire, cut, fdConn, jconn, partial, seen>>
        /\ wPc # "body" \/ UNCHANGED writVars
    BY <1>0, <1>1
       DEF SpuriousWakeup, Publish, WakeWriter, writVars, netVars, javaVars
  <2>2. QED
    BY <2>1, QuietWhole
<1>2. CASE HookRestart
  <2>1. UNCHANGED <<wire, cut, jconn, partial, seen>>
    BY <1>0, <1>2 DEF HookRestart, javaVars
  <2>2. \A fd \in Fds : fdConn'[fd] = 0
    BY <1>2 DEF HookRestart
  <2>3. \A c \in Conns : c # 0
    BY DEF Conns
  <2>4. QED
    BY <2>1, <2>2, <2>3, QuietWhole
<1>3. QED
  BY <1>0, <1>1, <1>2, ConnectorFrame, WriterFrame DEF HookNext

-----------------------------------------------------------------------------
(* Java closes connections, the one it reads among them or none.           *)
LEMMA CloseWhole ==
  ASSUME SocketInv, OrderInv, FrameInv, UNCHANGED <<hookVars, fdConn, cut>>,
         NEW set, ClosePeers(set), jconn \in set \cup {0},
         jconn' = 0, partial' = NoChunk, NoTornFrame'
  PROVE  FrameInv'
<1>1. ASSUME NEW c \in Conns, c \notin cut'
      PROVE  Whole(c)'
  <2>1. Whole(c) /\ c # 0 /\ c # jconn'
    BY <1>1 DEF FrameInv, Conns
  <2>2. CASE c \in set
    <3>1. wire'[c] = << >>
      BY <2>2 DEF ClosePeers
    <3>2. QED
      BY <2>1, <3>1, WholeEmpty
  <2>3. CASE c \notin set
    <3>1. wire'[c] = wire[c]
      BY <2>3 DEF ClosePeers
    <3>2. \A f : BodyDue(c, f) => BodyDue(c, f)'
      BY DEF BodyDue, HookEndOpen, hookVars, writVars, Live
    <3>3. QED
      BY <2>1, <3>1, <3>2, WholeKept
  <2>4. QED
    BY <2>2, <2>3
<1>2. QED
  BY <1>1 DEF FrameInv

(* Without a timeout on its connection the reader never mixes two frames.  *)
LEMMA NoMixture ==
  ASSUME FrameInv, jconn \in Conns, jconn \notin cut,
         wire[jconn] \in Seq(Chunk), wire[jconn] # << >>,
         partial # NoChunk
  PROVE  Completes(Head(wire[jconn]))
<1>1. Whole(jconn)
  BY DEF FrameInv
<1>2. /\ partial.part = "head"
      /\ HasBody(wire[jconn][1], partial.frame)
  BY <1>1 DEF Whole
<1>3. Head(wire[jconn]) = wire[jconn][1]
  OBVIOUS
<1>4. QED
  BY <1>2, <1>3 DEF Completes, HasBody

LEMMA ReadFrameInv ==
  ASSUME SocketInv, OrderInv, FrameInv, JavaRead, UNCHANGED hookVars
  PROVE  FrameInv'
<1>0. /\ NetTypeOK /\ JavaTypeOK
      /\ UNCHANGED <<hookVars, fdConn, cut>>
  BY DEF SocketInv, TypeOK, JavaRead
<1>1. /\ jconn \in Conns /\ wire[jconn] \in Seq(Chunk) /\ wire[jconn] # << >>
      /\ jconn # 0 /\ jconn \in {jconn} \cup {0}
  BY <1>0 DEF JavaRead, JavaTypeOK, NetTypeOK, Conns
<1>2. PICK x : x = Head(wire[jconn])
  OBVIOUS
<1>3. /\ ReadFrame(x) \/ ReadPart(x) \/ ReadBadMagic(x) \/ ReadMixture(x)
      /\ x \in Chunk /\ x = wire[jconn][1]
  BY <1>1, <1>2 DEF JavaRead
<1>4. /\ x.frame.val \in Nat
      /\ Whole(jconn) => x.part # "piece"
  <2>1. 1 \in 1 .. Len(wire[jconn])
    BY <1>1
  <2>2. QED
    BY <1>3, <2>1, ChunkFields DEF Whole
<1>5. NoTornFrame'
  <2>1. CASE ReadMixture(x)
    <3>1. jconn \in cut
      BY <1>1, <1>2, <2>1, NoMixture DEF ReadMixture
    <3>2. QED
      BY <1>0, <3>1 DEF NoTornFrame
  <2>2. CASE ReadFrame(x)
    BY <1>0, <1>4, <2>2
       DEF ReadFrame, Dispatch, Deliver, JavaTypeOK, FrameInv, NoTornFrame,
           Torn
  <2>3. CASE ReadPart(x) \/ ReadBadMagic(x)
    BY <1>0, <2>3 DEF ReadPart, ReadBadMagic, FrameInv, NoTornFrame
  <2>4. QED
    BY <1>3, <2>1, <2>2, <2>3
<1>6. CASE DropConnection
  BY <1>0, <1>1, <1>5, <1>6, CloseWhole DEF DropConnection
<1>7. CASE Consume /\ jconn' = jconn
  <2>1. /\ wire'[jconn] = Tail(wire[jconn])
        /\ \A c \in Conns : c # jconn => wire'[c] = wire[c]
    BY <1>0, <1>1, <1>7 DEF Consume, NetTypeOK
  <2>2. ASSUME NEW c \in Conns, c \notin cut', c # jconn
        PROVE  Whole(c)'
    <3>1. \A f : BodyDue(c, f) => BodyDue(c, f)'
      BY <1>0 DEF BodyDue, HookEndOpen, hookVars, writVars, Live
    <3>2. QED
      BY <1>0, <1>7, <2>1, <2>2, <3>1, WholeKept DEF FrameInv
  <2>3. ASSUME jconn \notin cut
        PROVE  Whole(jconn)'
    <3>1. Whole(jconn) /\ ~ReadMixture(x)
      BY <1>1, <1>2, <2>3, NoMixture DEF FrameInv, ReadMixture
    <3>2. \/ partial' = NoChunk
          \/ partial' = Head(wire[jconn]) /\ partial'.part = "head"
      <4>1. ReadFrame(x) \/ ReadPart(x)
        <5>1. ~ReadBadMagic(x)
          BY <1>1, <1>7 DEF ReadBadMagic, DropConnection
        <5>2. QED
          BY <1>3, <3>1, <5>1
      <4>2. QED
        BY <1>2, <1>4, <3>1, <4>1 DEF ReadFrame, ReadPart
    <3>3. QED
      BY <1>0, <1>1, <1>7, <2>1, <3>1, <3>2, WholeTaken
  <2>4. \A c \in Conns : c \notin cut' => Whole(c)'
    BY <1>0, <1>7, <2>2, <2>3
  <2>5. QED
    BY <1>1, <1>5, <1>7, <2>4 DEF FrameInv
<1>8. QED
  BY <1>3, <1>6, <1>7
     DEF ReadFrame, ReadPart, ReadBadMagic, ReadMixture

LEMMA JavaFrame ==
  ASSUME SocketInv, OrderInv, FrameInv, JavaSide
  PROVE  FrameInv'
<1>0. JavaNext /\ UNCHANGED hookVars /\ JavaTypeOK
  BY DEF JavaSide, SocketInv, TypeOK
<1>1. \A c \in Conns : c # 0 /\ \A f : UNCHANGED fdConn =>
        (BodyDue(c, f) => BodyDue(c, f)')
  BY <1>0 DEF BodyDue, HookEndOpen, hookVars, writVars, Live, Conns
<1>2. CASE \/ JavaStart
           \/ JavaAccept
           \/ \E t \in Types : Subscribe(t) \/ Unsubscribe(t)
  <2>1. /\ UNCHANGED <<wire, cut, fdConn, partial>>
        /\ jconn' = jconn \/ jconn = 0
        /\ jconn' = 0 => jconn = 0
    BY <1>0, <1>1, <1>2
       DEF JavaStart, JavaAccept, Subscribe, Unsubscribe, netVars, javaVars
  <2>2. \A t \in Types : seen'[t] = seen[t] \/ seen'[t] = 0
    BY <1>0, <1>2
       DEF JavaStart, JavaAccept, Subscribe, Unsubscribe, javaVars, JavaTypeOK
  <2>3. NoTornFrame'
    BY <2>1, <2>2 DEF FrameInv, NoTornFrame, Torn
  <2>4. ASSUME NEW c \in Conns, c \notin cut'
        PROVE  Whole(c)'
    <3>1. CASE jconn' = jconn
      BY <1>1, <2>1, <2>4, <3>1, WholeKept DEF FrameInv
    <3>2. CASE jconn = 0
      <4>1. Whole(c) /\ partial' = NoChunk /\ wire' = wire
        BY <2>1, <2>4, <3>2 DEF FrameInv
      <4>2. \A f : BodyDue(c, f) => BodyDue(c, f)'
        BY <1>1, <2>1
      <4>3. QED
        BY <4>1, <4>2 DEF Whole, HasBody
    <3>3. QED
      BY <2>1, <3>1, <3>2
  <2>5. QED
    BY <2>1, <2>3, <2>4 DEF FrameInv
<1>3. CASE JavaStop
  <2> DEFINE set == {c \in Conns : peer[c] \in {"backlog", "reading"}}
  <2>1. /\ UNCHANGED <<fdConn, cut, seen>> /\ ClosePeers(set)
        /\ jconn' = 0 /\ partial' = NoChunk
    BY <1>3 DEF JavaStop
  <2>2. jconn \in set \cup {0}
    BY <1>0 DEF JavaTypeOK, Conns, OrderInv, PeerOrder
  <2>3. NoTornFrame'
    BY <2>1 DEF FrameInv, NoTornFrame
  <2> HIDE DEF set
  <2>4. QED
    BY <1>0, <2>1, <2>2, <2>3, CloseWhole
<1>4. CASE JavaEof
  <2>1. /\ UNCHANGED <<fdConn, cut, seen>> /\ ClosePeers({jconn})
        /\ jconn' = 0 /\ partial' = NoChunk /\ jconn \in {jconn} \cup {0}
    BY <1>4 DEF JavaEof, DropConnection
  <2>2. NoTornFrame'
    BY <2>1 DEF FrameInv, NoTornFrame
  <2>3. QED
    BY <1>0, <2>1, <2>2, CloseWhole
<1>5. QED
  BY <1>0, <1>2, <1>3, <1>4, ReadFrameInv DEF JavaNext, ReaderStep

LEMMA InitFrame == Init => FrameInv
BY DEF Init, NetInit, JavaInit, FrameInv, Whole, NoTornFrame, Torn

LEMMA NextFrame ==
  SocketInv /\ OrderInv /\ FrameInv /\ [Next]_vars => FrameInv'
<1> SUFFICES ASSUME SocketInv, OrderInv, FrameInv, [Next]_vars PROVE FrameInv'
  OBVIOUS
<1>1. CASE UNCHANGED vars
  <2>1. UNCHANGED <<fdConn, wire, cut, jconn, partial, seen, writVars>>
    BY <1>1 DEF vars, netVars, hookVars, writVars, javaVars
  <2>2. QED
    BY <2>1, QuietWhole
<1>2. QED
  BY <1>1, HookFrame, JavaFrame DEF Next

(***************************************************************************)
(* A listener is handed bytes of two frames only if a send() has timed     *)
(* out: g_sock_write is held from header to payload (bus.c:217-232), also  *)
(* when the connector reconnects on the same descriptor number between     *)
(* the two.                                                                *)
(***************************************************************************)
THEOREM FramesStayWhole == Spec => []NoTornFrame
<1>1. FrameInv => NoTornFrame
  BY DEF FrameInv
<1>2. QED
  BY OrderHolds, InitFrame, NextFrame, <1>1, PTL DEF Spec

-----------------------------------------------------------------------------
(* The chunk x goes to the far end of c.                                   *)
LEMMA ArrivesPut ==
  ASSUME NEW c \in Conns, wire[c] \in Seq(Chunk), NEW x \in Chunk,
         wire'[c] = Append(wire[c], x), UNCHANGED <<jconn, seen, latest>>,
         NEW t \in Types,
         \/ Ends(x, t) /\ x.frame.val = latest[t]
         \/ Arrives(c, t) /\ ~Ends(x, t)
  PROVE  Arrives(c, t)'
<1> DEFINE n == Len(wire[c])
<1>1. /\ n \in Nat /\ Len(wire'[c]) = n + 1
      /\ \A i \in 1 .. n : wire'[c][i] = wire[c][i]
      /\ wire'[c][n + 1] = x
  BY AppendProperties
<1>2. CASE Ends(x, t) /\ x.frame.val = latest[t]
  <2>1. \A i \in n + 1 .. Len(wire'[c]) : wire'[c][i] = x
    BY <1>1
  <2>2. /\ n + 1 \in 1 .. Len(wire'[c])
        /\ Ends(wire'[c][n + 1], t)
    BY <1>1, <1>2
  <2>3. \A i \in n + 1 .. Len(wire'[c]) :
          Ends(wire'[c][i], t) => wire'[c][i].frame.val = latest'[t]
    BY <1>2, <2>1
  <2>4. QED
    BY <2>2, <2>3 DEF Arrives, Settles, Ends
<1>3. CASE Arrives(c, t) /\ ~Ends(x, t)
  <2>1. ASSUME NEW k \in 1 .. n + 1, Settles(c, t, k)
        PROVE  \A i \in k .. Len(wire'[c]) :
                 Ends(wire'[c][i], t) => wire'[c][i].frame.val = latest'[t]
    <3>1. ASSUME NEW i \in k .. Len(wire'[c]), Ends(wire'[c][i], t)
          PROVE  wire'[c][i].frame.val = latest'[t]
      <4>1. i # n + 1
        BY <1>1, <1>3, <3>1
      <4>2. i \in k .. n /\ i \in 1 .. n
        BY <1>1, <4>1
      <4>3. wire'[c][i] = wire[c][i]
        BY <1>1, <4>2
      <4>4. QED
        BY <2>1, <3>1, <4>2, <4>3 DEF Settles
    <3>2. QED
      BY <3>1
  <2>2. CASE \E i \in 1 .. n : Ends(wire[c][i], t) /\ Settles(c, t, i)
    <3>1. PICK i \in 1 .. n : Ends(wire[c][i], t) /\ Settles(c, t, i)
      BY <2>2
    <3>2. i \in 1 .. n + 1 /\ i \in 1 .. Len(wire'[c])
      BY <1>1
    <3>3. Ends(wire'[c][i], t)
      BY <1>1, <3>1
    <3>4. QED
      BY <2>1, <3>1, <3>2, <3>3 DEF Arrives, Settles, Ends
  <2>3. CASE c = jconn /\ seen[t] = latest[t] /\ Settles(c, t, 1)
    <3>1. 1 \in 1 .. n + 1
      BY <1>1
    <3>2. QED
      BY <2>1, <2>3, <3>1 DEF Arrives, Settles, Ends
  <2>4. QED
    BY <1>3, <2>2, <2>3 DEF Arrives
<1>4. QED
  BY <1>2, <1>3

(* The reader takes the chunk x at the near end of c.                      *)
LEMMA ArrivesTaken ==
  ASSUME jconn \in Conns, wire[jconn] \in Seq(Chunk),
         wire[jconn] # << >>, wire'[jconn] = Tail(wire[jconn]),
         UNCHANGED <<jconn, latest>>, NEW t \in Types, Arrives(jconn, t),
         NEW x, x = Head(wire[jconn]),
         seen'[t] = IF Ends(x, t) THEN x.frame.val ELSE seen[t]
  PROVE  Arrives(jconn, t)'
<1> DEFINE c == jconn
           n == Len(wire[c])
<1>1. /\ n \in Nat \ {0} /\ Len(wire'[c]) = n - 1
      /\ \A i \in 1 .. n - 1 : wire'[c][i] = wire[c][i + 1]
      /\ x = wire[c][1]
  <2>1. /\ Len(Tail(wire[c])) = n - 1
        /\ \A i \in 1 .. Len(Tail(wire[c])) : Tail(wire[c])[i] = wire[c][i + 1]
    BY HeadTailProperties
  <2>2. x = wire[c][1] /\ n \in Nat \ {0}
    OBVIOUS
  <2>3. QED
    BY <2>1, <2>2
<1>2. ASSUME NEW k \in 1 .. n, Settles(c, t, k + 1)
      PROVE  \A i \in k .. Len(wire'[c]) :
               Ends(wire'[c][i], t) => wire'[c][i].frame.val = latest'[t]
  <2>1. ASSUME NEW i \in k .. Len(wire'[c]), Ends(wire'[c][i], t)
        PROVE  wire'[c][i].frame.val = latest'[t]
    <3>1. i + 1 \in k + 1 .. n /\ wire'[c][i] = wire[c][i + 1]
      BY <1>1
    <3>2. QED
      BY <1>2, <2>1, <3>1 DEF Settles
  <2>2. QED
    BY <2>1
<1>3. CASE \E i \in 2 .. n : Ends(wire[c][i], t) /\ Settles(c, t, i)
  <2>1. PICK i \in 2 .. n : Ends(wire[c][i], t) /\ Settles(c, t, i)
    BY <1>3
  <2>2. PICK k \in 1 .. n : i = k + 1 /\ k \in 1 .. n - 1
    BY <1>1
  <2>3. Settles(c, t, k + 1) /\ Ends(wire'[c][k], t)
    BY <1>1, <2>1, <2>2
  <2>4. \A j \in k .. Len(wire'[c]) :
          Ends(wire'[c][j], t) => wire'[c][j].frame.val = latest'[t]
    BY <1>2, <2>3
  <2>5. k \in 1 .. Len(wire'[c])
    BY <1>1, <2>2
  <2>6. QED
    BY <2>3, <2>4, <2>5 DEF Arrives, Settles, Ends
<1>4. CASE ~ \E i \in 2 .. n : Ends(wire[c][i], t) /\ Settles(c, t, i)
  <2>1. Settles(c, t, 1)
    <3>1. CASE \E i \in 1 .. n : Ends(wire[c][i], t) /\ Settles(c, t, i)
      <4>1. PICK i \in 1 .. n : Ends(wire[c][i], t) /\ Settles(c, t, i)
        BY <3>1
      <4>2. i = 1
        BY <1>1, <1>4, <4>1
      <4>3. QED
        BY <4>1, <4>2
    <3>2. QED
      BY <3>1 DEF Arrives
  <2>2. Settles(c, t, 2)
    BY <1>1, <2>1 DEF Settles
  <2>3. seen'[t] = latest[t]
    <3>1. CASE Ends(x, t)
      <4>1. 1 \in 1 .. n
        BY <1>1
      <4>2. QED
        BY <1>1, <2>1, <3>1, <4>1 DEF Settles
    <3>2. CASE ~Ends(x, t)
      <4>1. ~ \E i \in 1 .. n : Ends(wire[c][i], t) /\ Settles(c, t, i)
        <5>1. ASSUME NEW i \in 1 .. n,
                     Ends(wire[c][i], t) /\ Settles(c, t, i)
              PROVE  FALSE
          <6>1. i # 1
            BY <1>1, <3>2, <5>1
          <6>2. i \in 2 .. n
            BY <1>1, <6>1
          <6>3. QED
            BY <1>4, <5>1, <6>2
        <5>2. QED
          BY <5>1
      <4>2. QED
        BY <3>2, <4>1 DEF Arrives
    <3>3. QED
      BY <3>1, <3>2
  <2>4. 1 \in 1 .. n /\ 1 + 1 = 2
    BY <1>1
  <2>5. \A i \in 1 .. Len(wire'[c]) :
          Ends(wire'[c][i], t) => wire'[c][i].frame.val = latest'[t]
    BY <1>2, <2>2, <2>4
  <2>6. QED
    BY <2>3, <2>5 DEF Arrives, Settles, Ends
<1>5. QED
  BY <1>3, <1>4

-----------------------------------------------------------------------------
(* A step that publishes nothing, queues nothing and takes no snapshot.    *)
LEMMA QueuedSame ==
  ASSUME QueuedLast, UNCHANGED <<sticky, latest, missed, ring>>,
         wFrame' \in {wFrame, NoEntry},
         todo' \subseteq todo, todo' # {} => snap' = snap
  PROVE  QueuedLast'
<1>1. \A t \in Types : Waits(t)' <=> Waits(t)
  BY DEF Waits
<1>2. NoEntry.type = NoType /\ NoType \notin Types
  BY TypesAssumption DEF TypesAssumption, NoEntry, NoType
<1>3. QED
  BY <1>1, <1>2 DEF QueuedLast

LEMMA PublishFresh ==
  ASSUME SocketInv, OrderInv, FreshInv, NEW p \in Types, Publish(p),
         UNCHANGED javaVars
  PROVE  FreshInv'
<1> USE DEF FreshInv
<1> DEFINE e == [type |-> p, val |-> pub + 1]
<1>0. NetTypeOK /\ HookTypeOK /\ pub + 1 \in Nat
  BY DEF SocketInv, TypeOK, HookTypeOK
<1>1. /\ UNCHANGED <<conns, fdConn, wire, peer, cut, snap, todo, cPc, cFd,
                     wFrame, jconn, tuned, seen>>
      /\ latest' = [latest EXCEPT ![p] = pub + 1]
      /\ sticky' = [sticky EXCEPT ![p] = pub + 1]
      /\ \/ ring' = Append(ring, e) /\ missed' = missed \ {p}
         \/ ring' = ring /\ missed' = missed \cup {p}
      /\ wPc' = wPc \/ wPc = "asleep"
      /\ wFd' = wFd
  BY DEF Publish, Cache, WakeWriter, netVars, connVars, javaVars, writVars
<1>2. \A t \in Types : latest'[t] = IF t = p THEN pub + 1 ELSE latest[t]
  BY <1>0, <1>1 DEF HookTypeOK
<1>3. /\ \A j \in 1 .. Len(ring) : j \in 1 .. Len(ring') /\ ring'[j] = ring[j]
      /\ \A j \in 1 .. Len(ring') :
           \/ j \in 1 .. Len(ring) /\ ring'[j] = ring[j]
           \/ ring'[j] = e
      /\ p \notin missed' =>
           \E j \in 1 .. Len(ring') : ring'[j] = e
  <2>1. ring \in Seq(Entry) /\ e \in Entry
    BY <1>0 DEF HookTypeOK, Entry
  <2>2. CASE ring' = Append(ring, e)
    <3>1. /\ Len(ring) \in Nat /\ Len(ring') = Len(ring) + 1
          /\ \A j \in 1 .. Len(ring) : ring'[j] = ring[j]
          /\ ring'[Len(ring) + 1] = e
      BY <2>1, <2>2, AppendProperties
    <3>2. Len(ring) + 1 \in 1 .. Len(ring')
      BY <3>1
    <3>3. QED
      BY <3>1, <3>2
  <2>3. CASE ring' = ring /\ missed' = missed \cup {p}
    BY <2>3
  <2>4. QED
    BY <1>1, <2>2, <2>3
<1>4. ASSUME NEW t \in Types, t # p
      PROVE  /\ t \in missed' <=> t \in missed
             /\ Waits(t) => Waits(t)'
             /\ InHand(t) => InHand(t)'
             /\ Arrives(conns, t) => Arrives(conns, t)'
             /\ latest'[t] = latest[t]
  <2>1. latest'[t] = latest[t] /\ (t \in missed' <=> t \in missed)
    BY <1>1, <1>2, <1>4
  <2>2. Waits(t) => Waits(t)'
    BY <1>3, <2>1 DEF Waits
  <2>3. InHand(t) => InHand(t)'
    BY <1>1, <2>1 DEF InHand
  <2>4. Arrives(conns, t) => Arrives(conns, t)'
    BY <1>1, <2>1 DEF Arrives, Settles
  <2>5. QED
    BY <2>1, <2>2, <2>3, <2>4
<1>5. p \notin missed' => Waits(p)'
  BY <1>2, <1>3 DEF Waits
<1>6. QueuedLast'
  <2>1. sticky' = latest'
    BY <1>1 DEF QueuedLast
  <2>2. ASSUME NEW t \in Types, t \notin missed', t # p
        PROVE  /\ (\E j \in 1 .. Len(ring') : ring'[j].type = t) => Waits(t)'
               /\ wFrame'.type = t => wFrame'.val = latest'[t] \/ Waits(t)'
               /\ t \in todo' => snap'[t] = latest'[t] \/ Waits(t)'
    <3>1. e.type # t
      BY <2>2
    <3>2. (\E j \in 1 .. Len(ring') : ring'[j].type = t)
            => (\E j \in 1 .. Len(ring) : ring[j].type = t)
      BY <1>3, <3>1
    <3>3. QED
      BY <1>1, <1>4, <2>2, <3>2 DEF QueuedLast
  <2>3. QED
    BY <1>5, <2>1, <2>2 DEF QueuedLast, Waits
<1>7. NothingLost'
  <2>1. SUFFICES ASSUME cPc' \in SyncedPcs, Reaches(cFd)', conns' \notin cut',
                        NEW t \in Types, t \notin missed', latest'[t] # 0,
                        jconn' = conns' => t \in tuned'
                 PROVE  \/ t \in todo' /\ snap'[t] = latest'[t]
                        \/ Waits(t)'
                        \/ InHand(t)'
                        \/ Arrives(conns, t)'
    BY DEF NothingLost
  <2>2. CASE t = p
    BY <1>5, <2>1, <2>2
  <2>3. CASE t # p
    <3>1. cPc \in SyncedPcs /\ Reaches(cFd) /\ conns \notin cut
      BY <1>1, <2>1 DEF Reaches
    <3>2. QED
      BY <1>1, <1>4, <2>1, <2>3, <3>1 DEF NothingLost
  <2>4. QED
    BY <2>2, <2>3
<1>8. QED
  BY <1>6, <1>7

(* A step of the hook that moves nothing on the link.                      *)
LEMMA LostStill ==
  ASSUME NothingLost,
         UNCHANGED <<conns, wire, peer, cut, jconn, tuned, seen, latest,
                     missed, ring, cFd>>,
         cPc' \in SyncedPcs /\ Reaches(cFd)' =>
           /\ cPc \in SyncedPcs /\ Reaches(cFd)
           /\ todo' = todo /\ snap' = snap
           /\ \A t \in Types : InHand(t) => InHand(t)'
  PROVE  NothingLost'
<1>1. SUFFICES ASSUME cPc' \in SyncedPcs, Reaches(cFd)', conns' \notin cut',
                      NEW t \in Types, t \notin missed', latest'[t] # 0,
                      jconn' = conns' => t \in tuned'
               PROVE  \/ t \in todo' /\ snap'[t] = latest'[t]
                      \/ Waits(t)'
                      \/ InHand(t)'
                      \/ Arrives(conns, t)'
  BY DEF NothingLost
<1>2. \/ t \in todo /\ snap[t] = latest[t]
      \/ Waits(t)
      \/ InHand(t)
      \/ Arrives(conns, t)
  BY <1>1 DEF NothingLost
<1>3. Waits(t) => Waits(t)'
  BY DEF Waits
<1>4. Arrives(conns, t) => Arrives(conns, t)'
  BY DEF Arrives, Settles
<1>5. QED
  BY <1>1, <1>2, <1>3, <1>4

(* A frame of the snapshot, or its begin or end.                           *)
LEMMA SyncFresh ==
  ASSUME SocketInv, OrderInv, FreshInv, NEW frame \in Frame,
         cPc \in {"begin", "replay", "end"},
         SendIgnoringResult(frame),
         UNCHANGED javaVars,
         todo' \subseteq todo, todo' # {} => snap' = snap,
         \A t \in todo \ todo' : frame.val = snap[t] /\ frame.type = t,
         \A t \in Types : frame.type = t =>
           frame.val = latest[t] \/ t \in missed \/ Waits(t)
  PROVE  FreshInv'
<1> USE DEF FreshInv
<1> DEFINE x == New("whole", frame)
<1>0. NetTypeOK /\ HookTypeOK /\ cFd \in Fds
  BY DEF SocketInv, TypeOK, HookTypeOK, ThreadLocals
<1>1. /\ UNCHANGED <<conns, fdConn, peer, latest, missed, ring, sticky, cFd,
                     wPc, wFd, wFrame, jconn, tuned, seen>>
      /\ SendOk(cFd, "whole", frame) \/ SendFails(cFd, frame)
  BY DEF SendIgnoringResult, prodVars, writVars, javaVars
<1>2. QueuedLast'
  BY <1>1, QueuedSame
<1>3. SUFFICES ASSUME cPc' \in SyncedPcs, Reaches(cFd)', conns' \notin cut',
                      NEW t \in Types, t \notin missed', latest'[t] # 0,
                      jconn' = conns' => t \in tuned'
               PROVE  \/ t \in todo' /\ snap'[t] = latest'[t]
                      \/ Waits(t)'
                      \/ InHand(t)'
                      \/ Arrives(conns, t)'
  BY <1>2 DEF NothingLost
<1>4. /\ Reaches(cFd) /\ fdConn[cFd] = conns /\ conns \in Conns
      /\ cPc \in SyncedPcs
  <2>1. Reaches(cFd)
    BY <1>1, <1>3 DEF Reaches
  <2>2. QED
    BY <1>0, <2>1, OneOpen DEF Reaches, SyncedPcs, ConnectorPcs
<1>5. SendOk(cFd, "whole", frame)
  BY <1>1, <1>3, <1>4 DEF SendFails
<1>6. wire'[conns] = Append(wire[conns], x) /\ x \in Chunk
      /\ wire[conns] \in Seq(Chunk) /\ x.frame = frame /\ x.part = "whole"
  BY <1>0, <1>4, <1>5
     DEF SendOk, PutOnWire, NetTypeOK, New, Chunk, Parts
<1>7. Ends(x, t) <=> frame.type = t
  BY <1>6 DEF Ends
<1>8. /\ Waits(t) => Waits(t)'
      /\ InHand(t) => InHand(t)'
      /\ Ends(x, t) /\ x.frame.val = latest[t] => Arrives(conns, t)'
      /\ Arrives(conns, t) /\ ~Ends(x, t) => Arrives(conns, t)'
  BY <1>1, <1>4, <1>6, ArrivesPut DEF Waits, InHand
<1>9. \/ t \in todo /\ snap[t] = latest[t]
      \/ Waits(t)
      \/ InHand(t)
      \/ Arrives(conns, t)
  BY <1>1, <1>3, <1>4, <1>5 DEF NothingLost, SendOk
<1>10. CASE frame.type = t
  BY <1>1, <1>3, <1>6, <1>7, <1>8, <1>10
<1>11. CASE frame.type # t
  BY <1>1, <1>3, <1>7, <1>8, <1>9, <1>11
<1>12. QED
  BY <1>10, <1>11

LEMMA ConnectorFresh ==
  ASSUME SocketInv, OrderInv, FreshInv, ConnectorStep, UNCHANGED javaVars
  PROVE  FreshInv'
<1> USE DEF FreshInv
<1>0. NetTypeOK /\ HookTypeOK /\ UNCHANGED <<jconn, tuned, seen>>
  BY DEF SocketInv, TypeOK, javaVars
<1>1. CASE Connect \/ SendHello \/ NoticeLost \/ NoticePeerClosed
  <2>1. /\ UNCHANGED <<sticky, latest, missed, ring, wFrame, todo, snap>>
        /\ cPc' \in {"connect", "hello", "snapshot"}
    BY <1>1
       DEF Connect, SendHello, HelloSent, HelloFailed, NoticeLost,
           NoticePeerClosed, WakeWriter, prodVars, writVars
  <2>2. QueuedLast'
    BY <2>1, QueuedSame
  <2>3. NothingLost'
    BY <2>1 DEF NothingLost, SyncedPcs
  <2>4. QED
    BY <2>2, <2>3
<1>2. CASE TakeSnapshot
  <2>1. /\ UNCHANGED <<sticky, latest, missed, ring, wFrame>>
        /\ snap' = sticky /\ todo' = {t \in Types : sticky[t] # 0}
    BY <1>2 DEF TakeSnapshot, prodVars, writVars
  <2>2. \A t \in Types : Waits(t)' <=> Waits(t)
    BY <2>1 DEF Waits
  <2>3. QueuedLast'
    BY <2>1, <2>2 DEF QueuedLast
  <2>4. \A t \in Types : latest'[t] # 0 => t \in todo' /\ snap'[t] = latest'[t]
    BY <2>1 DEF QueuedLast
  <2>5. QED
    BY <2>3, <2>4 DEF NothingLost
<1>3. CASE Expose
  <2>1. /\ UNCHANGED <<conns, wire, peer, cut, fdConn, latest, missed, ring,
                       sticky, cFd, snap, todo, wFd, wFrame>>
        /\ cPc = "expose" /\ (wPc' = wPc \/ wPc = "asleep")
    BY <1>3 DEF Expose, SocketInv, NoStaleFd, WakeWriter, prodVars
  <2>2. QueuedLast'
    BY <2>1, QueuedSame
  <2>3. /\ \A t \in Types : InHand(t) => InHand(t)'
        /\ Reaches(cFd)' => Reaches(cFd)
    BY <2>1 DEF InHand, Reaches
  <2>4. NothingLost'
    BY <1>0, <2>1, <2>3, LostStill DEF SyncedPcs, ConnectorPcs
  <2>5. QED
    BY <2>2, <2>4
<1>4. ASSUME \/ SendSyncBegin
             \/ SendSyncEnd
             \/ \E t \in Types : SendReplay(t)
      PROVE  FreshInv'
  <2>1. NoType \notin Types
    BY TypesAssumption DEF TypesAssumption, NoType
  <2>2. CASE SendSyncBegin
    <3>1. /\ SendIgnoringResult(SyncBegin) /\ UNCHANGED <<todo, snap>>
          /\ cPc = "begin"
      BY <2>2 DEF SendSyncBegin
    <3>2. SyncBegin \in Frame /\ SyncBegin.type = NoType
      BY DEF SyncBegin, Frame, Kinds
    <3>3. QED
      BY <2>1, <3>1, <3>2, SyncFresh
  <2>3. CASE SendSyncEnd
    <3>1. /\ SendIgnoringResult(SyncEnd) /\ UNCHANGED todo
          /\ cPc = "end" /\ todo = {}
      BY <2>3 DEF SendSyncEnd, OrderInv, TodoPlace
    <3>2. SyncEnd \in Frame /\ SyncEnd.type = NoType
      BY DEF SyncEnd, Frame, Kinds
    <3>3. QED
      BY <2>1, <3>1, <3>2, SyncFresh
  <2>4. CASE \E t \in Types : SendReplay(t)
    <3>1. PICK t \in Types : SendReplay(t)
      BY <2>4
    <3>2. /\ SendIgnoringResult(Replay(t)) /\ cPc = "replay"
          /\ t \in todo /\ todo' = todo \ {t} /\ UNCHANGED snap
      BY <3>1 DEF SendReplay
    <3>3. /\ Replay(t) \in Frame
          /\ Replay(t).type = t /\ Replay(t).val = snap[t]
      BY <1>0 DEF Replay, Frame, Kinds, HookTypeOK
    <3>4. snap[t] = latest[t] \/ t \in missed \/ Waits(t)
      BY <3>2 DEF QueuedLast
    <3>5. QED
      BY <3>2, <3>3, <3>4, SyncFresh
  <2>5. QED
    BY <1>4, <2>2, <2>3, <2>4
<1>5. QED
  BY <1>1, <1>2, <1>3, <1>4 DEF ConnectorStep

LEMMA DequeueFresh ==
  ASSUME SocketInv, OrderInv, FreshInv, WriterDequeues, UNCHANGED javaVars
  PROVE  FreshInv'
<1> USE DEF FreshInv
<1>0. HookTypeOK
  BY DEF SocketInv, TypeOK
<1>1. /\ UNCHANGED <<conns, fdConn, wire, peer, cut, latest, missed, sticky,
                     cPc, cFd, snap, todo, jconn, tuned, seen>>
      /\ ring # << >> /\ wFrame' = Head(ring) /\ ring' = Tail(ring)
      /\ wPc = "check" /\ wPc' = "head" /\ wFd' = clientFd /\ clientFd # NoFd
  BY DEF WriterDequeues, Dequeued, netVars, prodVars, connVars, javaVars
<1>2. cPc = "watch" /\ cFd = clientFd /\ todo = {} /\ wFrame = NoEntry
  BY <1>1 DEF SocketInv, Exposure, ThreadLocals, OrderInv, TodoPlace
<1>3. /\ Len(ring) \in Nat \ {0} /\ Len(ring') = Len(ring) - 1
      /\ \A j \in 1 .. Len(ring') :
           ring'[j] = ring[j + 1] /\ j + 1 \in 2 .. Len(ring)
      /\ \A j \in 2 .. Len(ring) :
           \E k \in 1 .. Len(ring') : ring'[k] = ring[j]
      /\ wFrame' = ring[1] /\ 1 \in 1 .. Len(ring)
      /\ \A j \in 1 .. Len(ring) : ring[j] \in Entry
  <2>1. ring \in Seq(Entry)
    BY <1>0 DEF HookTypeOK
  <2>2. /\ Len(ring') = Len(ring) - 1
        /\ \A j \in 1 .. Len(ring') : ring'[j] = ring[j + 1]
    BY <1>1, <2>1, HeadTailProperties
  <2>3. /\ Len(ring) \in Nat \ {0} /\ wFrame' = ring[1]
        /\ \A j \in 1 .. Len(ring) : ring[j] \in Entry
    BY <1>1, <2>1
  <2>4. ASSUME NEW j \in 2 .. Len(ring)
        PROVE  \E k \in 1 .. Len(ring') : ring'[k] = ring[j]
    <3>1. j - 1 \in 1 .. Len(ring') /\ (j - 1) + 1 = j
      BY <2>2, <2>3
    <3>2. QED
      BY <2>2, <3>1
  <2>5. \A j \in 1 .. Len(ring') : j + 1 \in 2 .. Len(ring)
    BY <2>2, <2>3
  <2>6. QED
    BY <2>2, <2>3, <2>4, <2>5
<1>4. ASSUME NEW t \in Types, Waits(t)
      PROVE  \/ Waits(t)'
             \/ /\ wFrame' = [type |-> t, val |-> latest[t]]
                /\ \A j \in 2 .. Len(ring) : ring[j].type # t
  <2>1. PICK j \in 1 .. Len(ring) : ring[j] = [type |-> t, val |-> latest[t]]
    BY <1>4 DEF Waits
  <2>2. CASE j # 1
    <3>1. j \in 2 .. Len(ring)
      BY <1>3, <2>2
    <3>2. QED
      BY <1>1, <1>3, <2>1, <3>1 DEF Waits
  <2>3. CASE j = 1
    <3>1. ASSUME NEW k \in 2 .. Len(ring), ring[k].type = t
          PROVE  FALSE
      <4>1. /\ k \in 1 .. Len(ring) /\ 1 \in 1 .. k - 1
            /\ ring[1].val \in Nat /\ ring[k].val \in Nat
        <5>1. k \in 1 .. Len(ring) /\ 1 \in 1 .. k - 1
          BY <1>3
        <5>2. QED
          BY <1>3, <5>1 DEF Entry
      <4>2. ring[1].val < ring[k].val /\ Queued(ring[k])
        BY <4>1 DEF OrderInv, QueueOrder
      <4>3. ring[1].val = latest[t] /\ ring[k].val =< sticky[t]
        BY <2>1, <2>3, <3>1, <4>2 DEF Queued
      <4>4. sticky[t] = latest[t]
        BY DEF QueuedLast
      <4>5. QED
        BY <4>1, <4>2, <4>3, <4>4
    <3>2. QED
      BY <1>3, <2>1, <2>3, <3>1
  <2>4. QED
    BY <2>2, <2>3
<1>5. QueuedLast'
  <2>1. ASSUME NEW t \in Types, t \notin missed'
        PROVE  /\ (\E j \in 1 .. Len(ring') : ring'[j].type = t) => Waits(t)'
               /\ wFrame'.type = t => wFrame'.val = latest'[t] \/ Waits(t)'
               /\ t \in todo' => snap'[t] = latest'[t] \/ Waits(t)'
    <3>1. (\E j \in 1 .. Len(ring) : ring[j].type = t) => Waits(t)
      BY <1>1, <2>1 DEF QueuedLast
    <3>2. (\E j \in 1 .. Len(ring') : ring'[j].type = t)
            => (\E j \in 2 .. Len(ring) : ring[j].type = t)
      BY <1>3
    <3>3. \A j \in 2 .. Len(ring) : j \in 1 .. Len(ring)
      BY <1>3
    <3>4. (\E j \in 1 .. Len(ring') : ring'[j].type = t) => Waits(t)'
      BY <1>4, <3>1, <3>2, <3>3
    <3>5. wFrame'.type = t => wFrame'.val = latest'[t] \/ Waits(t)'
      BY <1>1, <1>3, <1>4, <3>1
    <3>6. QED
      BY <1>1, <1>2, <3>4, <3>5
  <2>2. sticky' = latest'
    BY <1>1 DEF QueuedLast
  <2>3. QED
    BY <2>1, <2>2 DEF QueuedLast
<1>6. NothingLost'
  <2>1. SUFFICES ASSUME cPc' \in SyncedPcs, Reaches(cFd)', conns' \notin cut',
                        NEW t \in Types, t \notin missed', latest'[t] # 0,
                        jconn' = conns' => t \in tuned'
                 PROVE  \/ t \in todo' /\ snap'[t] = latest'[t]
                        \/ Waits(t)'
                        \/ InHand(t)'
                        \/ Arrives(conns, t)'
    BY DEF NothingLost
  <2>2. \/ t \in todo /\ snap[t] = latest[t]
        \/ Waits(t)
        \/ InHand(t)
        \/ Arrives(conns, t)
    <3>1. cPc \in SyncedPcs /\ Reaches(cFd) /\ conns \notin cut
      BY <1>1, <2>1 DEF Reaches
    <3>2. QED
      BY <1>1, <2>1, <3>1 DEF NothingLost
  <2>3. wFrame' = [type |-> t, val |-> latest[t]] => InHand(t)'
    BY <1>1, <1>2 DEF InHand
  <2>4. Arrives(conns, t) => Arrives(conns, t)'
    BY <1>1 DEF Arrives, Settles
  <2>5. ~InHand(t)
    BY <1>1 DEF InHand
  <2>6. QED
    BY <1>1, <1>2, <1>4, <2>2, <2>3, <2>4, <2>5
<1>7. QED
  BY <1>5, <1>6

LEMMA WriterFresh ==
  ASSUME SocketInv, OrderInv, FreshInv, WriterStep, UNCHANGED javaVars
  PROVE  FreshInv'
<1> USE DEF FreshInv
<1>0. /\ NetTypeOK /\ HookTypeOK /\ UNCHANGED <<jconn, tuned, seen>>
      /\ wPc \notin {"check", "asleep"} => wFd \in Fds /\ wFrame \in Entry
  BY DEF SocketInv, TypeOK, HookTypeOK, ThreadLocals, javaVars
<1>1. CASE WriterWaits
  <2>1. /\ UNCHANGED <<conns, wire, peer, cut, fdConn, latest, missed, ring,
                       sticky, cPc, cFd, snap, todo, wFd, wFrame>>
        /\ wPc = "check"
    BY <1>1 DEF WriterWaits, netVars, prodVars, connVars
  <2>2. /\ \A t \in Types : InHand(t) => InHand(t)'
        /\ Reaches(cFd)' => Reaches(cFd)
    BY <2>1 DEF InHand, Reaches
  <2>3. QED
    BY <1>0, <2>1, <2>2, QueuedSame, LostStill
<1>2. CASE WriterDequeues
  BY <1>2, DequeueFresh
<1>3. CASE WriterFails
  <2>1. /\ UNCHANGED <<conns, wire, peer, cut, latest, missed, ring, sticky,
                       cPc, cFd, snap, todo>>
        /\ wPc = "fail" /\ wFrame' = NoEntry
        /\ fdConn' = fdConn \/ fdConn' = [fdConn EXCEPT ![wFd] = 0]
    BY <1>3
       DEF WriterFails, FrameDone, DropCurrent, CloseFd, prodVars, connVars
  <2>2. cPc \in SyncedPcs /\ Reaches(cFd)' => Reaches(cFd)
    <3>1. cPc \in SyncedPcs => cFd \in Fds
      BY <1>0 DEF SyncedPcs, SocketInv, ThreadLocals, HookTypeOK
    <3>2. cFd \in Fds => fdConn'[cFd] \in {0, fdConn[cFd]}
      BY <1>0, <2>1 DEF NetTypeOK
    <3>3. QED
      BY <2>1, <3>1, <3>2 DEF Reaches
  <2>3. \A t \in Types : ~InHand(t)
    BY <2>1 DEF InHand
  <2>4. QED
    BY <1>0, <2>1, <2>2, <2>3, QueuedSame, LostStill
<1>4. ASSUME NEW part \in {"head", "body"}, WriterSends(part), wPc = part
      PROVE  FreshInv'
  <2> DEFINE x == New(part, Live)
  <2>1. /\ UNCHANGED <<conns, fdConn, peer, latest, missed, ring, sticky,
                       cPc, cFd, snap, todo, jconn, tuned, seen>>
        /\ wFrame' \in {wFrame, NoEntry}
        /\ wFd \in Fds /\ wFrame \in Entry
    BY <1>0, <1>4 DEF WriterSends, FrameDone, prodVars, connVars
  <2>2. QueuedLast'
    BY <2>1, QueuedSame
  <2>3. SUFFICES ASSUME cPc' \in SyncedPcs, Reaches(cFd)', conns' \notin cut',
                        NEW t \in Types, t \notin missed', latest'[t] # 0,
                        jconn' = conns' => t \in tuned'
                 PROVE  \/ t \in todo' /\ snap'[t] = latest'[t]
                        \/ Waits(t)'
                        \/ InHand(t)'
                        \/ Arrives(conns, t)'
    BY <2>2 DEF NothingLost
  <2>4. /\ cPc \in SyncedPcs /\ Reaches(cFd) /\ cFd \in Fds
        /\ fdConn[cFd] = conns /\ conns \in Conns
        /\ wire[conns] \in Seq(Chunk)
    <3>1. cPc \in SyncedPcs /\ Reaches(cFd)
      BY <2>1, <2>3 DEF Reaches
    <3>2. cFd \in Fds
      BY <1>0, <3>1 DEF SyncedPcs, SocketInv, ThreadLocals, HookTypeOK
    <3>3. QED
      BY <1>0, <3>1, <3>2, OneOpen DEF Reaches, NetTypeOK
  <2>5. Reaches(wFd) => wFd = cFd
    BY <2>1, <2>4, OneOpen DEF Reaches
  <2>6. conns \notin cut
    BY <1>4, <2>1, <2>3 DEF WriterSends, SendOk, SendFails
  <2>7. \/ t \in todo /\ snap[t] = latest[t]
        \/ Waits(t)
        \/ InHand(t)
        \/ Arrives(conns, t)
    BY <2>1, <2>3, <2>4, <2>6 DEF NothingLost
  <2>8. Waits(t) => Waits(t)'
    BY <2>1 DEF Waits
  <2>9. CASE ~Reaches(wFd)
    <3>1. wire' = wire /\ ~InHand(t)
      BY <1>4, <2>4, <2>9
         DEF WriterSends, SendOk, SendFails, PutOnWire, InHand
    <3>2. Arrives(conns, t) => Arrives(conns, t)'
      BY <2>1, <3>1 DEF Arrives, Settles
    <3>3. QED
      BY <2>1, <2>7, <2>8, <3>1, <3>2
  <2>10. CASE Reaches(wFd)
    <3>1. ~SendFails(wFd, Live)
      BY <2>1, <2>3, <2>4, <2>5, <2>10 DEF SendFails
    <3>2. /\ SendOk(wFd, part, Live)
          /\ IF part = "head" THEN wPc' = "body" /\ UNCHANGED <<wFd, wFrame>>
             ELSE FrameDone
      BY <1>4, <3>1 DEF WriterSends
    <3>3. /\ wire'[conns] = Append(wire[conns], x) /\ x \in Chunk
          /\ x.frame.type = wFrame.type /\ x.frame.val = wFrame.val
          /\ x.part = part
      <4>1. /\ x \in Chunk
            /\ x.frame.type = wFrame.type /\ x.frame.val = wFrame.val
            /\ x.part = part
        BY <2>1 DEF New, Chunk, Parts, Frame, Kinds, Live, Entry
      <4>2. wire'[conns] = Append(wire[conns], x)
        BY <1>0, <2>4, <2>5, <2>10, <3>2
           DEF SendOk, PutOnWire, NetTypeOK, New
      <4>3. QED
        BY <4>1, <4>2
    <3>4. /\ Ends(x, t) /\ x.frame.val = latest[t] => Arrives(conns, t)'
          /\ Arrives(conns, t) /\ ~Ends(x, t) => Arrives(conns, t)'
      BY <2>1, <2>4, <3>3, ArrivesPut
    <3>5. CASE part = "head"
      <4>1. ~Ends(x, t) /\ (InHand(t) => InHand(t)')
        BY <2>1, <3>2, <3>3, <3>5 DEF Ends, InHand
      <4>2. QED
        BY <2>1, <2>7, <2>8, <3>4, <4>1
    <3>6. CASE part = "body" /\ wFrame.type = t
      <4>1. Ends(x, t)
        BY <3>3, <3>6 DEF Ends
      <4>2. wFrame.val = latest[t] \/ Waits(t)
        BY <2>1, <2>3, <3>6 DEF QueuedLast
      <4>3. QED
        BY <2>8, <3>3, <3>4, <4>1, <4>2
    <3>7. CASE part = "body" /\ wFrame.type # t
      <4>1. ~Ends(x, t) /\ ~InHand(t)
        BY <3>3, <3>7 DEF Ends, InHand
      <4>2. QED
        BY <2>1, <2>7, <2>8, <3>4, <4>1
    <3>8. QED
      BY <3>5, <3>6, <3>7
  <2>11. QED
    BY <2>9, <2>10
<1>5. QED
  BY <1>1, <1>2, <1>3, <1>4 DEF WriterStep, WriterHeader, WriterPayload

LEMMA HookFresh ==
  ASSUME SocketInv, OrderInv, FreshInv, HookSide
  PROVE  FreshInv'
<1>0. HookNext /\ UNCHANGED javaVars
  BY DEF HookSide
<1>1. CASE SpuriousWakeup
  <2>1. /\ UNCHANGED <<conns, wire, peer, cut, fdConn, latest, missed, ring,
                       sticky, cPc, cFd, snap, todo, wFd, wFrame, jconn,
                       tuned, seen>>
        /\ wPc = "asleep"
    BY <1>0, <1>1
       DEF SpuriousWakeup, WakeWriter, netVars, prodVars, connVars, javaVars
  <2>2. /\ \A t \in Types : InHand(t) => InHand(t)'
        /\ Reaches(cFd)' => Reaches(cFd)
    BY <2>1 DEF InHand, Reaches
  <2>3. QED
    BY <2>1, <2>2, QueuedSame, LostStill DEF FreshInv
<1>2. CASE HookRestart
  <2>1. /\ cPc' = "connect" /\ wFrame' = NoEntry
        /\ ring' = << >> /\ todo' = {} /\ sticky' = latest'
    BY <1>2 DEF HookRestart
  <2>2. NoEntry.type = NoType /\ NoType \notin Types
    BY TypesAssumption DEF TypesAssumption, NoEntry, NoType
  <2>3. QueuedLast'
    <3>1. \A t \in Types : wFrame'.type # t
      BY <2>1, <2>2
    <3>2. ~ \E j \in 1 .. Len(ring') : TRUE
      BY <2>1
    <3>3. QED
      BY <2>1, <3>1, <3>2 DEF QueuedLast
  <2>4. NothingLost'
    BY <2>1 DEF NothingLost, SyncedPcs
  <2>5. QED
    BY <2>3, <2>4 DEF FreshInv
<1>3. QED
  BY <1>0, <1>1, <1>2, PublishFresh, ConnectorFresh, WriterFresh DEF HookNext

-----------------------------------------------------------------------------
LEMMA CloseFresh ==
  ASSUME SocketInv, OrderInv, FreshInv, UNCHANGED <<hookVars, conns, fdConn>>,
         cut \subseteq cut', NEW set, ClosePeers(set),
         jconn \in set \cup {0},
         tuned' = tuned, jconn' = 0
  PROVE  FreshInv'
<1> USE DEF FreshInv
<1>0. /\ UNCHANGED <<sticky, latest, missed, ring, wFrame, todo, snap, cPc,
                     cFd, wPc, wFd>>
      /\ HookTypeOK
  BY DEF hookVars, SocketInv, TypeOK
<1>1. QueuedLast'
  BY <1>0, QueuedSame
<1>2. SUFFICES ASSUME cPc' \in SyncedPcs, Reaches(cFd)', conns' \notin cut',
                      NEW t \in Types, t \notin missed', latest'[t] # 0,
                      jconn' = conns' => t \in tuned'
               PROVE  \/ t \in todo' /\ snap'[t] = latest'[t]
                      \/ Waits(t)'
                      \/ InHand(t)'
                      \/ Arrives(conns, t)'
  BY <1>1 DEF NothingLost
<1>3. /\ fdConn[cFd] # 0 /\ fdConn[cFd] = conns /\ conns \in Conns
      /\ peer'[conns] \in {"backlog", "reading"}
  <2>1. cFd \in Fds /\ fdConn[cFd] # 0
    BY <1>0, <1>2
       DEF Reaches, SyncedPcs, SocketInv, ThreadLocals, HookTypeOK
  <2>2. fdConn[cFd] = conns /\ conns \in Conns
    BY <2>1, OneOpen
  <2>3. QED
    BY <1>0, <1>2, <2>1, <2>2 DEF Reaches
<1>4. /\ conns \notin set /\ peer[conns] = peer'[conns]
      /\ wire'[conns] = wire[conns] /\ jconn # conns
  <2>1. conns \notin set /\ peer[conns] = peer'[conns]
    BY <1>3 DEF ClosePeers
  <2>2. wire'[conns] = wire[conns]
    BY <1>3, <2>1 DEF ClosePeers
  <2>3. conns # 0
    BY <1>3 DEF Conns
  <2>4. QED
    BY <2>1, <2>2, <2>3
<1>5. \/ t \in todo /\ snap[t] = latest[t]
      \/ Waits(t)
      \/ InHand(t)
      \/ Arrives(conns, t)
  <2>1. cPc \in SyncedPcs /\ Reaches(cFd) /\ conns \notin cut
    BY <1>0, <1>2, <1>3, <1>4 DEF Reaches
  <2>2. QED
    BY <1>0, <1>2, <1>4, <2>1 DEF NothingLost
<1>6. /\ Waits(t) => Waits(t)'
      /\ InHand(t) => InHand(t)'
      /\ Arrives(conns, t) => Arrives(conns, t)'
  BY <1>0, <1>4 DEF Waits, InHand, Arrives, Settles
<1>7. QED
  BY <1>0, <1>5, <1>6

LEMMA ReadFresh ==
  ASSUME SocketInv, OrderInv, FrameInv, FreshInv, JavaRead,
         UNCHANGED hookVars
  PROVE  FreshInv'
<1>0. /\ UNCHANGED <<sticky, latest, missed, ring, wFrame, todo, snap, cPc,
                     cFd, wPc, wFd, conns, fdConn, cut, tuned>>
      /\ HookTypeOK /\ NetTypeOK /\ JavaTypeOK
  BY DEF hookVars, SocketInv, TypeOK, JavaRead
<1>1. /\ jconn \in Conns /\ wire[jconn] \in Seq(Chunk) /\ wire[jconn] # << >>
      /\ jconn # 0 /\ jconn \in {jconn} \cup {0}
  BY <1>0 DEF JavaRead, JavaTypeOK, NetTypeOK, Conns
<1>2. PICK x : x = Head(wire[jconn])
  OBVIOUS
<1>3. ReadFrame(x) \/ ReadPart(x) \/ ReadBadMagic(x) \/ ReadMixture(x)
  BY <1>2 DEF JavaRead
<1>4. QueuedLast'
  BY <1>0, QueuedSame DEF FreshInv
<1>5. ASSUME cPc' \in SyncedPcs, Reaches(cFd)', conns' \notin cut',
             NEW t \in Types, t \notin missed', latest'[t] # 0,
             jconn' = conns' => t \in tuned',
             Consume, jconn' = jconn
      PROVE  \/ t \in todo' /\ snap'[t] = latest'[t]
             \/ Waits(t)'
             \/ InHand(t)'
             \/ Arrives(conns, t)'
  <2>1. /\ wire'[jconn] = Tail(wire[jconn])
        /\ \A c \in Conns : c # jconn => wire'[c] = wire[c]
        /\ Reaches(cFd) /\ peer' = peer
    BY <1>0, <1>1, <1>5 DEF Consume, NetTypeOK, Reaches
  <2>2. conns \in Conns
    <3>1. cFd \in Fds
      BY <1>0, <1>5
         DEF SyncedPcs, SocketInv, ThreadLocals, HookTypeOK
    <3>2. QED
      BY <2>1, <3>1, OneOpen DEF Reaches
  <2>3. \/ t \in todo /\ snap[t] = latest[t]
        \/ Waits(t)
        \/ InHand(t)
        \/ Arrives(conns, t)
    BY <1>0, <1>5, <2>1 DEF FreshInv, NothingLost
  <2>4. Waits(t) => Waits(t)'
    BY <1>0 DEF Waits
  <2>5. InHand(t) => InHand(t)'
    BY <1>0 DEF InHand
  <2>6. CASE jconn # conns
    <3>1. wire'[conns] = wire[conns]
      BY <2>1, <2>2, <2>6
    <3>2. Arrives(conns, t) => Arrives(conns, t)'
      BY <1>0, <1>5, <2>6, <3>1 DEF Arrives, Settles
    <3>3. QED
      BY <1>0, <2>3, <2>4, <2>5, <3>2
  <2>7. CASE jconn = conns
    <3>1. t \in tuned /\ t \in listener /\ jconn \notin cut
      BY <1>0, <1>5, <2>7 DEF JavaTypeOK
    <3>2. ~ReadMixture(x)
      BY <1>1, <1>2, <3>1, NoMixture DEF ReadMixture
    <3>3. ~ReadBadMagic(x)
      BY <1>1, <1>5 DEF ReadBadMagic, DropConnection
    <3>4. seen'[t] = IF Ends(x, t) THEN x.frame.val ELSE seen[t]
      <4>1. CASE ReadFrame(x)
        <5>1. x.part \in {"whole", "body"}
          BY <4>1 DEF ReadFrame, Completes
        <5>2. seen' = IF x.frame.type \in listener
                      THEN [seen EXCEPT ![x.frame.type] = x.frame.val]
                      ELSE seen
          BY <4>1 DEF ReadFrame, Dispatch, Deliver
        <5>3. QED
          BY <1>0, <3>1, <5>1, <5>2 DEF Ends, JavaTypeOK
      <4>2. CASE ReadPart(x)
        BY <4>2 DEF ReadPart, Ends
      <4>3. QED
        BY <1>3, <3>2, <3>3, <4>1, <4>2
    <3>5. Arrives(jconn, t) => Arrives(jconn, t)'
      BY <1>0, <1>1, <1>2, <1>5, <2>1, <3>4, ArrivesTaken
    <3>6. Arrives(conns, t) => Arrives(conns, t)'
      BY <1>0, <1>5, <2>7, <3>5
    <3>7. QED
      BY <1>0, <2>3, <2>4, <2>5, <3>6
  <2>8. QED
    BY <2>6, <2>7
<1>6. CASE Consume /\ jconn' = jconn
  <2>1. NothingLost'
    BY <1>5, <1>6 DEF NothingLost
  <2>2. QED
    BY <1>4, <2>1 DEF FreshInv
<1>7. CASE DropConnection
  <2>1. ClosePeers({jconn}) /\ jconn' = 0
    BY <1>7 DEF DropConnection
  <2>2. QED
    BY <1>0, <1>1, <2>1, CloseFresh
<1>8. QED
  BY <1>3, <1>6, <1>7 DEF ReadFrame, ReadPart, ReadBadMagic, ReadMixture

LEMMA JavaFresh ==
  ASSUME SocketInv, OrderInv, FrameInv, FreshInv, JavaSide
  PROVE  FreshInv'
<1>0. /\ JavaNext /\ UNCHANGED hookVars /\ JavaTypeOK
      /\ UNCHANGED <<sticky, latest, missed, ring, wFrame, todo, snap, cPc,
                     cFd, wPc, wFd>>
  BY DEF JavaSide, SocketInv, TypeOK, hookVars
<1>1. CASE \/ JavaStart
           \/ JavaAccept
           \/ \E t \in Types : Subscribe(t) \/ Unsubscribe(t)
  <2>1. /\ UNCHANGED <<conns, fdConn, cut, wire>>
        /\ peer' = peer \/ \E c \in Conns :
             peer[c] = "backlog" /\ peer' = [peer EXCEPT ![c] = "reading"]
    BY <1>0, <1>1 DEF JavaStart, JavaAccept, Subscribe, Unsubscribe, netVars
  <2>2. /\ \/ jconn' = jconn /\ tuned' \subseteq tuned
           \/ jconn = 0
        /\ \A t \in Types : seen'[t] = seen[t] \/ t \notin tuned'
    <3>1. CASE \E t \in Types : Unsubscribe(t)
      BY <1>0, <3>1 DEF Unsubscribe, JavaTypeOK
    <3>2. CASE \/ JavaStart
               \/ JavaAccept
               \/ \E t \in Types : Subscribe(t)
      BY <3>2 DEF JavaStart, JavaAccept, Subscribe, javaVars
    <3>3. QED
      BY <1>1, <3>1, <3>2
  <2>3. ASSUME cPc' \in SyncedPcs, Reaches(cFd)', conns' \notin cut',
               NEW t \in Types, t \notin missed', latest'[t] # 0,
               jconn' = conns' => t \in tuned'
        PROVE  \/ t \in todo' /\ snap'[t] = latest'[t]
               \/ Waits(t)'
               \/ InHand(t)'
               \/ Arrives(conns, t)'
    <3>1. conns # 0 /\ Reaches(cFd)
      <4>1. cFd \in Fds /\ fdConn[cFd] # 0
        BY <1>0, <2>1, <2>3
           DEF Reaches, SyncedPcs, SocketInv, ThreadLocals, TypeOK, HookTypeOK
      <4>2. fdConn[cFd] = conns /\ conns \in Conns
        BY <4>1, OneOpen
      <4>3. peer'[conns] \in {"backlog", "reading"}
        BY <1>0, <2>1, <2>3, <4>2 DEF Reaches
      <4>4. peer[conns] \in {"backlog", "reading"}
        BY <2>1, <4>2, <4>3 DEF SocketInv, TypeOK, NetTypeOK
      <4>5. QED
        BY <4>1, <4>2, <4>4 DEF Reaches, Conns
    <3>2. jconn = conns => t \in tuned
      BY <2>1, <2>2, <2>3, <3>1
    <3>3. \/ t \in todo /\ snap[t] = latest[t]
          \/ Waits(t)
          \/ InHand(t)
          \/ Arrives(conns, t)
      BY <1>0, <2>1, <2>3, <3>1, <3>2 DEF FreshInv, NothingLost
    <3>4. /\ Waits(t) => Waits(t)'
          /\ InHand(t) => InHand(t)'
      BY <1>0 DEF Waits, InHand
    <3>5. jconn = conns => jconn' = jconn /\ seen'[t] = seen[t]
      BY <2>1, <2>2, <2>3, <3>1
    <3>6. Arrives(conns, t) => Arrives(conns, t)'
      BY <1>0, <2>1, <3>5 DEF Arrives, Settles
    <3>7. QED
      BY <1>0, <3>3, <3>4, <3>6
  <2>4. NothingLost'
    BY <2>3 DEF NothingLost
  <2>5. QED
    BY <1>0, <2>4, QueuedSame DEF FreshInv
<1>2. CASE JavaStop
  <2> DEFINE set == {c \in Conns : peer[c] \in {"backlog", "reading"}}
  <2>1. /\ UNCHANGED <<conns, fdConn, cut, tuned>> /\ ClosePeers(set)
        /\ jconn' = 0
    BY <1>2 DEF JavaStop
  <2>2. jconn \in set \cup {0}
    BY <1>0 DEF JavaTypeOK, Conns, OrderInv, PeerOrder
  <2> HIDE DEF set
  <2>3. QED
    BY <1>0, <2>1, <2>2, CloseFresh
<1>3. CASE JavaEof
  <2>1. /\ UNCHANGED <<conns, fdConn, cut, tuned>> /\ ClosePeers({jconn})
        /\ jconn' = 0 /\ jconn \in {jconn} \cup {0}
    BY <1>3 DEF JavaEof, DropConnection
  <2>2. QED
    BY <1>0, <2>1, CloseFresh
<1>4. QED
  BY <1>0, <1>1, <1>2, <1>3, ReadFresh DEF JavaNext, ReaderStep

LEMMA InitFresh == Init => FreshInv
<1> SUFFICES ASSUME Init PROVE FreshInv
  OBVIOUS
<1>1. /\ sticky = latest /\ ring = << >> /\ wFrame = NoEntry /\ todo = {}
      /\ cPc = "connect"
  BY DEF Init, HookInit
<1>2. NoEntry.type = NoType /\ NoType \notin Types
  BY TypesAssumption DEF TypesAssumption, NoEntry, NoType
<1>3. ~ \E j \in 1 .. Len(ring) : TRUE
  BY <1>1
<1>4. QED
  BY <1>1, <1>2, <1>3 DEF FreshInv, QueuedLast, NothingLost, SyncedPcs

LEMMA NextFresh ==
  SocketInv /\ OrderInv /\ FrameInv /\ FreshInv /\ [Next]_vars => FreshInv'
<1> SUFFICES ASSUME SocketInv, OrderInv, FrameInv, FreshInv, [Next]_vars
             PROVE  FreshInv'
  OBVIOUS
<1>1. CASE UNCHANGED vars
  <2>1. UNCHANGED <<conns, wire, peer, cut, fdConn, latest, missed, ring,
                    sticky, cPc, cFd, snap, todo, wPc, wFd, wFrame, jconn,
                    tuned, seen>>
    BY <1>1 DEF vars, netVars, hookVars, javaVars
  <2>2. /\ \A t \in Types : InHand(t) => InHand(t)'
        /\ Reaches(cFd)' => Reaches(cFd)
    BY <2>1 DEF InHand, Reaches
  <2>3. QED
    BY <2>1, <2>2, QueuedSame, LostStill DEF FreshInv
<1>2. QED
  BY <1>1, HookFresh, JavaFresh DEF Next

(***************************************************************************)
(* With nothing on its way, a listener registered before the connection    *)
(* was accepted holds what was published last, unless that publication     *)
(* found the ring full or a send() on the connection timed out             *)
(* (bus.c:324-331, 354-394; CarplayBus.java's readerLoop()).               *)
(***************************************************************************)
THEOREM IdleListenersAreFresh == Spec => []IdleMeansFresh
<1>1. ASSUME SocketInv, OrderInv, FreshInv
      PROVE  IdleMeansFresh
  <2>1. SUFFICES ASSUME Idle, NEW t \in Types,
                        t \in tuned, t \notin missed, latest[t] # 0,
                        jconn \notin cut
                 PROVE  seen[t] = latest[t]
    BY DEF IdleMeansFresh, Fresh
  <2>2. /\ cPc = "watch" /\ clientFd = cFd /\ Reaches(cFd)
        /\ jconn = fdConn[cFd]
        /\ ring = << >> /\ wPc \in {"check", "asleep"}
        /\ \A c \in Conns : wire[c] = << >>
    BY <2>1 DEF Idle, Linked
  <2>3. jconn = conns /\ conns \in Conns
    <3>1. cFd \in Fds
      BY <1>1, <2>2 DEF SocketInv, ThreadLocals, TypeOK, HookTypeOK
    <3>2. QED
      BY <1>1, <2>2, <3>1, OneOpen DEF Reaches
  <2>4. todo = {} /\ ~InHand(t)
    BY <1>1, <2>2 DEF OrderInv, TodoPlace, InHand
  <2>5. /\ Len(ring) = 0 /\ Len(wire[conns]) = 0
    BY <2>2, <2>3
  <2>6. ~Waits(t)
    BY <2>5 DEF Waits
  <2>7. Arrives(conns, t)
    BY <1>1, <2>1, <2>2, <2>3, <2>4, <2>6
       DEF FreshInv, NothingLost, SyncedPcs, ConnectorPcs
  <2>8. QED
    BY <2>5, <2>7 DEF Arrives
<1>2. QED
  BY OrderHolds, InitFrame, NextFrame, InitFresh, NextFresh, <1>1, PTL
     DEF Spec
=============================================================================
