----------------------------- MODULE BusSystem -----------------------------
(***************************************************************************)
(* The one-way bus as a whole: bus.c and CarplayBus.java over one loopback *)
(* link, each free to stop and start while the other is running.           *)
(***************************************************************************)
EXTENDS HookBus, CarplayBus

vars == <<netVars, hookVars, javaVars>>

Init == NetInit /\ HookInit /\ JavaInit

HookSide == HookNext /\ UNCHANGED javaVars
JavaSide == JavaNext /\ UNCHANGED hookVars

Next == HookSide \/ JavaSide

Spec == Init /\ [][Next]_vars

(***************************************************************************)
(* The three threads keep running: the connector retries for ever, the     *)
(* writer runs whenever it is not in the condition wait, and the reader    *)
(* whenever there is something to accept or read.  Nothing obliges the     *)
(* phone to publish, the HMI to start or stop, or a module to subscribe.   *)
(***************************************************************************)
Fairness ==
  /\ WF_vars(ConnectorStep /\ UNCHANGED javaVars)
  /\ WF_vars(WriterStep /\ UNCHANGED javaVars)
  /\ WF_vars(ReaderStep /\ UNCHANGED hookVars)

FairSpec == Spec /\ Fairness

(* The variables of the three modules have the values their code can give. *)
TypeOK == NetTypeOK /\ HookTypeOK /\ JavaTypeOK

-----------------------------------------------------------------------------
(***************************************************************************)
(* bus.c:563 replaces "any stale fd (shouldn't exist but defensive)": it   *)
(* does not exist, the connector exposes a descriptor only when g_client_fd *)
(* is -1 (bus.c:563-570).                                                  *)
(***************************************************************************)
NoStaleFd == cPc # "watch" => clientFd = NoFd

(***************************************************************************)
(* The two threads that close g_client_fd (bus.c:419-423 and 497-506) and  *)
(* the retries of the connector never leak a socket and never close one    *)
(* that is not open: the open descriptor is the connector's own, and the   *)
(* exposed one is open.                                                    *)
(***************************************************************************)
OneSocket ==
  /\ \A fd \in Fds : fdConn[fd] # 0 =>
       \/ fd = clientFd
       \/ fd = cFd /\ cPc \notin {"connect", "watch"}
  /\ clientFd # NoFd => fdConn[clientFd] # 0
  /\ cPc \notin {"connect", "watch"} => cFd # NoFd /\ fdConn[cFd] # 0

(***************************************************************************)
(* Live frames reach dispatch() at most once and in the order bus_send()   *)
(* was called, over disconnections, overflow, stale descriptors and        *)
(* respawns of dio_manager: everything still on its way was published      *)
(* later than what was dispatched, and later than what is ahead of it.     *)
(***************************************************************************)
Carries(chunk) == chunk.frame.kind = "live" /\ chunk.part = "body"

LiveInOrder ==
  /\ \A c \in Conns : \A i \in 1 .. Len(wire[c]) : Carries(wire[c][i]) =>
       /\ lastLive < wire[c][i].frame.val
       /\ \A d \in Conns : \A j \in 1 .. Len(wire[d]) :
            ((c < d) \/ (c = d /\ i < j)) /\ Carries(wire[d][j])
              => wire[c][i].frame.val < wire[d][j].frame.val
       /\ wFrame # NoEntry => wire[c][i].frame.val < wFrame.val
       /\ \A j \in 1 .. Len(ring) : wire[c][i].frame.val < ring[j].val
  /\ wFrame # NoEntry => lastLive < wFrame.val
  /\ \A j \in 1 .. Len(ring) :
       /\ lastLive < ring[j].val /\ ring[j].val =< pub
       /\ wFrame # NoEntry => wFrame.val < ring[j].val
       /\ \A k \in 1 .. j - 1 : ring[k].val < ring[j].val

(***************************************************************************)
(* g_sock_write is held from header to payload (bus.c:217-232) so that a   *)
(* reconnect on the same descriptor number cannot put another frame        *)
(* between them: a listener is handed bytes of two frames only if a send() *)
(* has timed out.                                                          *)
(***************************************************************************)
NoTornFrame == \A t \in Types : seen[t] = Torn => cut # {}

(***************************************************************************)
(* With nothing on its way, a listener registered before the connection    *)
(* was accepted holds what its type's publisher published last, unless     *)
(* that very publication found the ring full or a send() on the connection *)
(* timed out.  Whatever was lost with an earlier connection has been made  *)
(* up for by the snapshot (bus.c:354-394).                                 *)
(***************************************************************************)
Linked == /\ cPc = "watch" /\ clientFd = cFd /\ clientFd # NoFd
          /\ Reaches(clientFd) /\ jconn = fdConn[clientFd]

Idle == /\ Linked
        /\ ring = << >> /\ wPc \in {"check", "asleep"}
        /\ \A c \in Conns : wire[c] = << >>

Fresh(t) ==
  t \in tuned /\ t \notin missed /\ latest[t] # 0 /\ jconn \notin cut
    => seen[t] = latest[t]

IdleMeansFresh == Idle => \A t \in Types : Fresh(t)

(***************************************************************************)
(* A link that lasts delivers: once it stays up, the ring drains, the      *)
(* reader catches up and every listener of IdleMeansFresh is up to date    *)
(* for good.  A wakeup the writer misses (bus.c:333, 421, 569) would leave *)
(* it in the condition wait for ever.                                      *)
(***************************************************************************)
CatchesUp == <>[]Linked => <>[](\A t \in Types : Fresh(t))

(***************************************************************************)
(* While the HMI listens, the connector does not give up or hang: the link *)
(* comes up for good, or keeps being lost until the bound on connections.  *)
(***************************************************************************)
Reconnects == <>[]server => <>[](Linked \/ conns = MaxConns)

(* The bus comes back, and what comes back delivers (bus.c:333, 573).      *)
Recovers == CatchesUp /\ Reconnects

(***************************************************************************)
(* The bus implements the channel its users rely on: live frames at most   *)
(* once and in order, and a snapshot that never takes a listener back      *)
(* (bus.c:324-329, 361-391).                                               *)
(***************************************************************************)
Channel ==
  INSTANCE StickyChannel WITH
    Types <- Types, Torn <- Torn, pub <- pub,
    listener <- listener, seen <- seen, lastLive <- lastLive

ImplementsChannel == Channel!Spec

-----------------------------------------------------------------------------
(***************************************************************************)
(* What makes the invariants above inductive.                              *)
(***************************************************************************)

(* A thread's locals are set exactly while it is using them.               *)
ThreadLocals ==
  /\ cPc = "connect" <=> cFd = NoFd
  /\ wPc \in {"check", "asleep"} <=> wFd = NoFd
  /\ wPc \in {"check", "asleep"} <=> wFrame = NoEntry

(* Only the connector's own, watched descriptor is ever exposed.           *)
Exposure == clientFd # NoFd => cPc = "watch" /\ clientFd = cFd

(* An open descriptor is open on the newest connection.                    *)
NewestOpen == \A fd \in Fds : fdConn[fd] # 0 => fdConn[fd] = conns

(* Java closes connections in the order they were made, and what is closed *)
(* holds no bytes.                                                         *)
PeerOrder ==
  \A c \in Conns :
    /\ peer[c] = "none" <=> c > conns
    /\ peer[c] \in {"none", "closed"} => wire[c] = << >>
    /\ peer[c] = "reading" <=> c = jconn
    /\ peer[c] = "backlog" => jconn < c

(* A snapshot is in the connector's hand only while it is being sent.      *)
TodoPlace == todo # {} => cPc \in {"begin", "replay"}

(* The order two chunks must be in, x ahead of y: live frames as they were *)
(* published, a replayed value behind all older ones of its type.          *)
InOrder(x, y) ==
  /\ Carries(x) /\ Carries(y) => x.frame.val < y.frame.val
  /\ y.frame.kind = "replay" /\ x.frame.type = y.frame.type
       => x.frame.val =< y.frame.val

WireOrder ==
  \A c, d \in Conns :
    \A i \in 1 .. Len(wire[c]), j \in 1 .. Len(wire[d]) :
      (c < d \/ (c = d /\ i < j)) => InOrder(wire[c][i], wire[d][j])

(* Live frames are split into header and payload, and only they.           *)
WellFormed(x) ==
  /\ x.part = "whole" => x.frame.kind # "live"
  /\ x.part = "body" => x.frame.kind = "live"
  /\ IF x.frame.kind \in {"live", "replay"}
     THEN x.frame.type \in Types /\ 0 < x.frame.val
     ELSE x.frame.type = NoType

(* What is on a wire is newer than what came live, older than what is      *)
(* behind it in the hook, and superseded by cache and snapshot.            *)
Placed(x) ==
  /\ x.frame.val =< pub
  /\ Carries(x) =>
       /\ lastLive < x.frame.val
       /\ wFrame # NoEntry => x.frame.val < wFrame.val
       /\ \A j \in 1 .. Len(ring) : x.frame.val < ring[j].val
  /\ x.frame.type \in Types =>
       /\ x.frame.kind = "replay" => seen[x.frame.type] =< x.frame.val
       /\ \/ sticky[x.frame.type] = 0
          \/ x.frame.val =< sticky[x.frame.type]
       /\ x.frame.type \in todo => x.frame.val =< snap[x.frame.type]

WirePlaced ==
  \A c \in Conns : \A i \in 1 .. Len(wire[c]) :
    WellFormed(wire[c][i]) /\ Placed(wire[c][i])

(* The same of a frame that is still in the hook.                          *)
Queued(e) ==
  /\ lastLive < e.val /\ e.val =< pub
  /\ e.val =< sticky[e.type]

QueueOrder ==
  /\ lastLive =< pub
  /\ \A j \in 1 .. Len(ring) : Queued(ring[j])
  /\ \A j \in 1 .. Len(ring) : \A k \in 1 .. j - 1 : ring[k].val < ring[j].val
  /\ wFrame # NoEntry =>
       /\ Queued(wFrame)
       /\ wFrame.type \in todo => wFrame.val =< snap[wFrame.type]
       /\ \A j \in 1 .. Len(ring) : wFrame.val < ring[j].val

(* Cache and snapshot are never behind what a listener was given.          *)
CacheAhead ==
  \A t \in Types :
    /\ seen[t] =< pub /\ sticky[t] =< pub
    /\ sticky[t] = 0 \/ seen[t] =< sticky[t]
    /\ t \in todo => /\ 0 < snap[t] /\ snap[t] =< sticky[t]
                     /\ seen[t] =< snap[t]

(* Between the header and the payload of f, nothing but that payload can   *)
(* be sent on c: g_sock_write is held, or nothing is sent on c any more.   *)
HasBody(x, f) == x = [part |-> "body", frame |-> f]
BodyDue(c, f) ==
  HookEndOpen(c) => wPc = "body" /\ fdConn[wFd] = c /\ Live = f

(* On a connection without timeouts every header is followed by its own    *)
(* payload, also when the reader has already taken the header.             *)
Whole(c) ==
  /\ \A i \in 1 .. Len(wire[c]) :
       /\ wire[c][i].part # "piece"
       /\ wire[c][i].part = "head" =>
            IF i < Len(wire[c])
            THEN HasBody(wire[c][i + 1], wire[c][i].frame)
            ELSE BodyDue(c, wire[c][i].frame)
  /\ c = jconn /\ partial # NoChunk =>
       /\ partial.part = "head"
       /\ IF wire[c] # << >> THEN HasBody(wire[c][1], partial.frame)
          ELSE BodyDue(c, partial.frame)

FrameInv == /\ \A c \in Conns : c \notin cut => Whole(c)
            /\ jconn = 0 => partial = NoChunk
            /\ NoTornFrame

(* The last publication of t is on its way to the writer, or in its hands. *)
Waits(t)  == \E j \in 1 .. Len(ring) :
               ring[j] = [type |-> t, val |-> latest[t]]
InHand(t) == /\ wPc \in {"head", "body"} /\ wFd = cFd
             /\ wFrame = [type |-> t, val |-> latest[t]]

(* A chunk that completes a frame of type t.                               *)
Ends(x, t) == x.part \in {"whole", "body"} /\ x.frame.type = t

(* What the listener of t will be given last on c is the last publication. *)
Settles(c, t, from) ==
  \A i \in from .. Len(wire[c]) :
    Ends(wire[c][i], t) => wire[c][i].frame.val = latest[t]
Arrives(c, t) ==
  \/ \E i \in 1 .. Len(wire[c]) : Ends(wire[c][i], t) /\ Settles(c, t, i)
  \/ c = jconn /\ seen[t] = latest[t] /\ Settles(c, t, 1)

(* A frame of t in the hook is not the last of its type only if the last   *)
(* one is queued behind it, and so is a snapshot's.                        *)
QueuedLast ==
  /\ sticky = latest
  /\ \A t \in Types : t \notin missed =>
       /\ (\E j \in 1 .. Len(ring) : ring[j].type = t) => Waits(t)
       /\ wFrame.type = t => wFrame.val = latest[t] \/ Waits(t)
       /\ t \in todo => snap[t] = latest[t] \/ Waits(t)

(* From the snapshot on, no last publication is lost on a connection that  *)
(* Java keeps open and no send() times out on.                             *)
SyncedPcs == ConnectorPcs \ {"connect", "hello", "snapshot"}

NothingLost ==
  cPc \in SyncedPcs /\ Reaches(cFd) /\ conns \notin cut =>
    \A t \in Types :
      t \notin missed /\ latest[t] # 0 /\ (jconn = conns => t \in tuned) =>
        \/ t \in todo /\ snap[t] = latest[t]
        \/ Waits(t)
        \/ InHand(t)
        \/ Arrives(conns, t)

FreshInv == QueuedLast /\ NothingLost

SocketInv == TypeOK /\ ThreadLocals /\ Exposure /\ NoStaleFd /\ OneSocket
OrderInv  == /\ NewestOpen /\ PeerOrder /\ TodoPlace
             /\ WireOrder /\ WirePlaced /\ QueueOrder /\ CacheAhead

=============================================================================
