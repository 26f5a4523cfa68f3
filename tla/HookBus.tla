------------------------------ MODULE HookBus ------------------------------
(***************************************************************************)
(* The hook's side of the bus, c_hook/framework/bus.c: bus_send() called   *)
(* by the iAP2, cover art and timer threads, the connector thread and the  *)
(* writer thread.                                                          *)
(*                                                                         *)
(* Every section under g_lock is one step.  g_sock_write is held from the  *)
(* writer's header to its payload, wPc = "body"; the connector's frames    *)
(* are written in one step, which needs the lock free.                     *)
(***************************************************************************)
EXTENDS BusNet

CONSTANTS
  QueueCapacity,   \* SEND_QUEUE_CAPACITY, 256 in bus.c
  MaxPublish,      \* bound: bus_send() calls in one behaviour
  MaxRestarts      \* bound: times dio_manager is respawned

ASSUME QueueAssumption == QueueCapacity \in Nat \ {0}
ASSUME HookBoundAssumption == MaxPublish \in Nat /\ MaxRestarts \in Nat

VARIABLES
  pub,       \* bus_send() calls so far; the next payload is pub + 1
  latest,    \* type -> the last payload this process published, 0 for none
  missed,    \* types whose last publication found the ring full
  ring,      \* g_ring: <<type, payload>> waiting for the writer
  sticky,    \* g_types[].last: type -> payload, 0 when has_last is false
  clientFd,  \* g_client_fd
  cPc, cFd,  \* connector thread: its place, and its local fd
  snap,      \* the snapshot it copied under g_lock
  todo,      \* snapshot entries it has still to send
  wPc, wFd,  \* writer thread: its place, and its local copy of g_client_fd
  wFrame,    \* the frame it has dequeued
  restarts   \* respawns so far

hookVars == <<pub, latest, missed, ring, sticky, clientFd,
              cPc, cFd, snap, todo, wPc, wFd, wFrame, restarts>>
prodVars == <<pub, latest, missed>>
connVars == <<cPc, cFd, snap, todo>>
writVars == <<wPc, wFd, wFrame>>

ConnectorPcs == {"connect", "hello", "snapshot", "begin", "replay", "end",
                 "expose", "watch"}
WriterPcs    == {"check", "asleep", "head", "body", "fail"}

Entry == [type : Types, val : Nat]
NoEntry == [type |-> NoType, val |-> 0]

Hello     == [kind |-> "hello", type |-> NoType, val |-> 0]
SyncBegin == [kind |-> "begin", type |-> NoType, val |-> 0]
SyncEnd   == [kind |-> "end",   type |-> NoType, val |-> 0]
Replay(t) == [kind |-> "replay", type |-> t, val |-> snap[t]]
Live      == [kind |-> "live", type |-> wFrame.type, val |-> wFrame.val]

HookTypeOK ==
  /\ pub \in 0 .. MaxPublish
  /\ latest \in [Types -> Nat]
  /\ missed \subseteq Types
  /\ ring \in Seq(Entry) /\ Len(ring) =< QueueCapacity
  /\ sticky \in [Types -> Nat]
  /\ clientFd \in Fds \cup {NoFd}
  /\ cPc \in ConnectorPcs
  /\ cFd \in Fds \cup {NoFd}
  /\ snap \in [Types -> Nat]
  /\ todo \subseteq Types
  /\ wPc \in WriterPcs
  /\ wFd \in Fds \cup {NoFd}
  /\ wFrame \in Entry \cup {NoEntry}
  /\ restarts \in 0 .. MaxRestarts

NoValues == [t \in Types |-> 0]

HookInit ==
  /\ pub = 0
  /\ latest = NoValues /\ missed = {}
  /\ ring = << >> /\ sticky = NoValues
  /\ clientFd = NoFd
  /\ cPc = "connect" /\ cFd = NoFd /\ snap = NoValues /\ todo = {}
  /\ wPc = "check" /\ wFd = NoFd /\ wFrame = NoEntry
  /\ restarts = 0

-----------------------------------------------------------------------------
(* Mutant: the condition variable is not signalled.                        *)
WakeWriter_Lost == UNCHANGED writVars

(* pthread_cond_signal / broadcast on g_cond: only the writer waits there. *)
WakeWriter ==
  /\ wPc' = IF wPc = "asleep" THEN "check" ELSE wPc
  /\ UNCHANGED <<wFd, wFrame>>

(* Mutant: q_is_full() off by one.                                         *)
RingHasRoom_OffByOne == Len(ring) =< QueueCapacity

RingHasRoom == Len(ring) < QueueCapacity

(* Mutant: the cached frame is filled once and never replaced.             *)
Cache_FirstOnly(t, v) ==
  sticky' = [sticky EXCEPT ![t] = IF @ = 0 THEN v ELSE @]

Cache(t, v) == sticky' = [sticky EXCEPT ![t] = v]

(***************************************************************************)
(* bus_send() of a sticky type.  The cache is replaced before the frame is *)
(* queued, so a frame the full ring refuses is still the cached one.       *)
(***************************************************************************)
Publish(t) ==
  /\ pub < MaxPublish
  /\ pub' = pub + 1
  /\ latest' = [latest EXCEPT ![t] = pub + 1]
  /\ Cache(t, pub + 1)
  /\ IF RingHasRoom
     THEN /\ ring' = Append(ring, [type |-> t, val |-> pub + 1])
          /\ missed' = missed \ {t}
          /\ WakeWriter
     ELSE /\ missed' = missed \cup {t}
          /\ UNCHANGED <<ring, writVars>>
  /\ UNCHANGED <<netVars, clientFd, connVars, restarts>>

(* Mutant: the descriptor is closed and g_client_fd left as it is.         *)
DropCurrent_KeepsFd(fd) ==
  /\ IF clientFd = fd THEN CloseFd(fd) ELSE UNCHANGED fdConn
  /\ UNCHANGED clientFd

(* Under g_lock: close fd if it is still the current descriptor.           *)
DropCurrent(fd) ==
  IF clientFd = fd
  THEN CloseFd(fd) /\ clientFd' = NoFd
  ELSE UNCHANGED <<fdConn, clientFd>>

-----------------------------------------------------------------------------
(* The connector thread.                                                   *)

(* Mutant: send_frame() without g_sock_write.                              *)
SockWriteFree_NoLock == TRUE

SockWriteFree == wPc # "body"

Connect ==
  /\ cPc = "connect"
  /\ \E fd \in Fds : OpenFd(fd) /\ cFd' = fd
  /\ cPc' = "hello"
  /\ UNCHANGED <<prodVars, ring, sticky, clientFd, snap, todo, writVars,
                 restarts>>

(* Mutant: the descriptor is exposed without a snapshot.                   *)
HelloSent_NoSnapshot == cPc' = "expose" /\ UNCHANGED <<fdConn, cFd>>

HelloSent == cPc' = "snapshot" /\ UNCHANGED <<fdConn, cFd>>

(* Mutant: the socket is left open.                                        *)
HelloFailed_Leaks == UNCHANGED fdConn /\ cPc' = "connect" /\ cFd' = NoFd

HelloFailed == CloseFd(cFd) /\ cPc' = "connect" /\ cFd' = NoFd

(* HELLO goes out directly, before the writer can see the descriptor.      *)
SendHello ==
  /\ cPc = "hello"
  /\ SockWriteFree
  /\ \/ SendOk(cFd, "whole", Hello) /\ HelloSent
     \/ SendFails(cFd, Hello) /\ HelloFailed
  /\ UNCHANGED <<conns, peer, server, prodVars, ring, sticky, clientFd,
                 snap, todo, writVars, restarts>>

TakeSnapshot ==
  /\ cPc = "snapshot"
  /\ cPc' = "begin"
  /\ snap' = sticky
  /\ todo' = {t \in Types : sticky[t] # 0}
  /\ UNCHANGED <<netVars, prodVars, ring, sticky, clientFd, cFd, writVars,
                 restarts>>

(* One send_frame() of send_sync_snapshot(): its result is not looked at.  *)
SendIgnoringResult(frame) ==
  /\ SockWriteFree
  /\ SendOk(cFd, "whole", frame) \/ SendFails(cFd, frame)
  /\ UNCHANGED <<conns, fdConn, peer, server, prodVars, ring, sticky,
                 clientFd, cFd, writVars, restarts>>

AfterReplay == IF todo' = {} THEN "end" ELSE "replay"

SendSyncBegin ==
  /\ cPc = "begin"
  /\ SendIgnoringResult(SyncBegin)
  /\ UNCHANGED <<snap, todo>>
  /\ cPc' = AfterReplay

SendReplay(t) ==
  /\ cPc = "replay"
  /\ t \in todo /\ \A u \in todo : t =< u
  /\ SendIgnoringResult(Replay(t))
  /\ todo' = todo \ {t}
  /\ UNCHANGED snap
  /\ cPc' = AfterReplay

SendSyncEnd ==
  /\ cPc = "end"
  /\ SendIgnoringResult(SyncEnd)
  /\ snap' = NoValues
  /\ UNCHANGED todo
  /\ cPc' = "expose"

(* "Replace any stale fd", then hand the descriptor to the writer.         *)
Expose ==
  /\ cPc = "expose"
  /\ cPc' = "watch"
  /\ IF clientFd # NoFd THEN CloseFd(clientFd) ELSE UNCHANGED fdConn
  /\ clientFd' = cFd
  /\ WakeWriter
  /\ UNCHANGED <<conns, wire, peer, cut, server, prodVars, ring, sticky, cFd,
                 snap, todo, restarts>>

(* The writer has dropped the descriptor: connect again.                   *)
NoticeLost ==
  /\ cPc = "watch" /\ clientFd # cFd
  /\ cPc' = "connect" /\ cFd' = NoFd
  /\ UNCHANGED <<netVars, prodVars, ring, sticky, clientFd, snap, todo,
                 writVars, restarts>>

(* recv() returned 0 or an error, and the descriptor is still current.     *)
NoticePeerClosed ==
  /\ cPc = "watch" /\ clientFd = cFd
  /\ PeerClosed(cFd)
  /\ DropCurrent(cFd)
  /\ WakeWriter
  /\ cPc' = "connect" /\ cFd' = NoFd
  /\ UNCHANGED <<conns, wire, peer, cut, server, prodVars, ring, sticky,
                 snap, todo, restarts>>

ConnectorStep ==
  \/ Connect
  \/ SendHello
  \/ TakeSnapshot
  \/ SendSyncBegin
  \/ \E t \in Types : SendReplay(t)
  \/ SendSyncEnd
  \/ Expose
  \/ NoticeLost
  \/ NoticePeerClosed

-----------------------------------------------------------------------------
(* The writer thread.                                                      *)

FrameDone == wPc' = "check" /\ wFd' = NoFd /\ wFrame' = NoEntry

(* The loop test of the condition wait, with g_lock held.                  *)
WriterWaits ==
  /\ wPc = "check"
  /\ ring = << >> \/ clientFd = NoFd
  /\ wPc' = "asleep"
  /\ UNCHANGED <<netVars, prodVars, ring, sticky, clientFd, connVars, wFd,
                 wFrame, restarts>>

(* Mutant: the read position is not advanced.                              *)
Dequeued_NotAdvanced == ring

Dequeued == Tail(ring)

WriterDequeues ==
  /\ wPc = "check"
  /\ ring # << >> /\ clientFd # NoFd
  /\ wFrame' = Head(ring) /\ ring' = Dequeued
  /\ wFd' = clientFd
  /\ wPc' = "head"
  /\ UNCHANGED <<netVars, prodVars, sticky, clientFd, connVars, restarts>>

(* send_frame() outside g_lock, on the copied descriptor.                  *)
WriterSends(part) ==
  /\ \/ /\ SendOk(wFd, part, Live)
        /\ IF part = "head" THEN wPc' = "body" /\ UNCHANGED <<wFd, wFrame>>
           ELSE FrameDone
     \/ /\ SendFails(wFd, Live)
        /\ wPc' = "fail" /\ UNCHANGED <<wFd, wFrame>>
  /\ UNCHANGED <<conns, fdConn, peer, server, prodVars, ring, sticky,
                 clientFd, connVars, restarts>>

WriterHeader  == wPc = "head" /\ WriterSends("head")
WriterPayload == wPc = "body" /\ WriterSends("body")

(* The frame is dropped; the descriptor is closed if it is still current.  *)
WriterFails ==
  /\ wPc = "fail"
  /\ FrameDone
  /\ DropCurrent(wFd)
  /\ UNCHANGED <<conns, wire, peer, cut, server, prodVars, ring, sticky,
                 connVars, restarts>>

WriterStep ==
  WriterWaits \/ WriterDequeues \/ WriterHeader \/ WriterPayload \/ WriterFails

SpuriousWakeup ==
  /\ wPc = "asleep"
  /\ WakeWriter
  /\ UNCHANGED <<netVars, prodVars, ring, sticky, clientFd, connVars,
                 restarts>>

-----------------------------------------------------------------------------
(***************************************************************************)
(* The phone goes away: dio_manager ends and is spawned again for the next *)
(* phone, and bus_init() starts over.  The kernel closes the sockets, Java *)
(* still reads what they had delivered.                                    *)
(***************************************************************************)
HookRestart ==
  /\ restarts < MaxRestarts
  /\ restarts' = restarts + 1
  /\ fdConn' = [fd \in Fds |-> 0]
  /\ latest' = NoValues /\ missed' = {}
  /\ ring' = << >> /\ sticky' = NoValues
  /\ clientFd' = NoFd
  /\ cPc' = "connect" /\ cFd' = NoFd /\ snap' = NoValues /\ todo' = {}
  /\ wPc' = "check" /\ wFd' = NoFd /\ wFrame' = NoEntry
  /\ UNCHANGED <<conns, wire, peer, cut, server, pub>>

HookNext ==
  \/ \E t \in Types : Publish(t)
  \/ ConnectorStep
  \/ WriterStep
  \/ SpuriousWakeup
  \/ HookRestart
=============================================================================
