-------------------------- MODULE CoverArt_proofs --------------------------
(***************************************************************************)
(* The cover art for every set of images and every number of lives:        *)
(* PictureInv, of the hook and the HMI, is inductive, and the invariants   *)
(* TLC checks follow from it.                                              *)
(***************************************************************************)
EXTENDS CoverArtSystem, SequenceTheorems, TLAPS

LEMMA InitCover == HookInit => CoverInv
  BY ImageAssumption DEF ImageAssumption, HookInit, CoverInv, CoverTypeOK, Hand, SlotIsLinked,
     NewestAhead, OnlyRespawnSpoils, Readable, Busy, Slots, NoSlot, Steps

LEMMA ArriveCover ==
  ASSUME CoverInv, NEW i \in Images, Arrive(i)
  PROVE  CoverInv'
<1> USE ImageAssumption DEF ImageAssumption, Arrive, Queued, diskVars, busVars, CoverInv, CoverTypeOK
<1>1. CoverTypeOK'
  BY DEF Steps
<1>2. Hand'
  BY DEF Hand, Busy
<1>3. SlotIsLinked'
  BY DEF SlotIsLinked
<1>4. NewestAhead'
  BY DEF NewestAhead, Busy, Hand
<1>5. OnlyRespawnSpoils'
  BY DEF OnlyRespawnSpoils, Readable
<1> QED
  BY <1>1, <1>2, <1>3, <1>4, <1>5

LEMMA TakeCover == CoverInv /\ Take => CoverInv'
<1> SUFFICES ASSUME CoverInv, Take PROVE CoverInv'
  OBVIOUS
<1> USE ImageAssumption DEF ImageAssumption, Take, diskVars, busVars, histVars, CoverInv, CoverTypeOK
<1>1. CoverTypeOK'
  BY DEF Steps
<1>2. Hand'
  BY DEF Hand, Busy
<1>3. SlotIsLinked'
  BY DEF SlotIsLinked
<1>4. NewestAhead'
  BY DEF NewestAhead, Busy
<1>5. OnlyRespawnSpoils'
  BY DEF OnlyRespawnSpoils, Readable
<1> QED
  BY <1>1, <1>2, <1>3, <1>4, <1>5

-----------------------------------------------------------------------------
(* The worker's steps.                                                     *)

LEMMA DecodeCover == CoverInv /\ Decode => CoverInv'
<1> SUFFICES ASSUME CoverInv, Decode PROVE CoverInv'
  OBVIOUS
<1> USE ImageAssumption DEF ImageAssumption, Decode, At, Goto, Return, Fail, Known, diskVars, busVars,
                            CoverInv, CoverTypeOK
<1>1. CoverTypeOK'
  BY DEF Steps
<1>2. Hand'
  BY DEF Hand, Busy
<1>3. SlotIsLinked'
  BY DEF SlotIsLinked
<1>4. NewestAhead'
  BY DEF NewestAhead, Busy, Hand
<1>5. OnlyRespawnSpoils'
  BY DEF OnlyRespawnSpoils, Readable
<1> QED
  BY <1>1, <1>2, <1>3, <1>4, <1>5

LEMMA OpenCover == CoverInv /\ OpenSlot => CoverInv'
<1> SUFFICES ASSUME CoverInv, OpenSlot PROVE CoverInv'
  OBVIOUS
<1> USE ImageAssumption DEF ImageAssumption, OpenSlot, At, Goto, Return, Fail, NewSlot, busVars,
                            CoverInv, CoverTypeOK, Slots, NoSlot
<1>1. CoverTypeOK'
  BY DEF Steps
<1>2. Hand'
  BY DEF Hand, Busy
<1>3. SlotIsLinked'
  BY DEF SlotIsLinked
<1>4. NewestAhead'
  BY DEF NewestAhead, Busy, Hand
<1>5. OnlyRespawnSpoils'
  BY DEF OnlyRespawnSpoils, Readable, SlotIsLinked
<1> QED
  BY <1>1, <1>2, <1>3, <1>4, <1>5

LEMMA WriteCover == CoverInv /\ WriteSlot => CoverInv'
<1> SUFFICES ASSUME CoverInv, WriteSlot PROVE CoverInv'
  OBVIOUS
<1> USE ImageAssumption DEF ImageAssumption, WriteSlot, At, Goto, Return, Fail, NewSlot, busVars,
                            CoverInv, CoverTypeOK, Slots, NoSlot
<1>0. job \in Images
  BY DEF Hand, Busy
<1>1. CoverTypeOK'
  BY <1>0 DEF Steps
<1>2. Hand'
  BY <1>0 DEF Hand, Busy
<1>3. SlotIsLinked'
  BY DEF SlotIsLinked
<1>4. NewestAhead'
  BY DEF NewestAhead, Busy, Hand
<1>5. OnlyRespawnSpoils'
  BY DEF OnlyRespawnSpoils, Readable, SlotIsLinked
<1> QED
  BY <1>1, <1>2, <1>3, <1>4, <1>5

LEMMA TmpLinkCover == CoverInv /\ MakeTmpLink => CoverInv'
<1> SUFFICES ASSUME CoverInv, MakeTmpLink PROVE CoverInv'
  OBVIOUS
<1> USE ImageAssumption DEF ImageAssumption, MakeTmpLink, At, Goto, Return, Fail, NewSlot, busVars,
                            CoverInv, CoverTypeOK, Slots, NoSlot
<1>1. CoverTypeOK'
  BY DEF Steps
<1>2. Hand'
  BY DEF Hand, Busy
<1>3. SlotIsLinked'
  BY DEF SlotIsLinked
<1>4. NewestAhead'
  BY DEF NewestAhead, Busy, Hand
<1>5. OnlyRespawnSpoils'
  BY DEF OnlyRespawnSpoils, Readable, SlotIsLinked
<1> QED
  BY <1>1, <1>2, <1>3, <1>4, <1>5

LEMMA SwapCover == CoverInv /\ SwapLink => CoverInv'
<1> SUFFICES ASSUME CoverInv, SwapLink PROVE CoverInv'
  OBVIOUS
<1> USE ImageAssumption DEF ImageAssumption, SwapLink, At, Goto, Return, Fail, busVars,
                            CoverInv, CoverTypeOK, Slots, NoSlot
<1>0. job \in Images
  BY DEF Hand, Busy
<1>1. CoverTypeOK'
  BY DEF Steps
<1>2. Hand'
  BY DEF Hand, Busy
<1>3. SlotIsLinked'
  BY DEF SlotIsLinked, Hand
<1>4. NewestAhead'
  BY DEF NewestAhead, Busy, Hand
<1>5. OnlyRespawnSpoils'
  BY <1>0 DEF OnlyRespawnSpoils, Readable, Hand
<1> QED
  BY <1>1, <1>2, <1>3, <1>4, <1>5

LEMMA DropCover == CoverInv /\ DropOld => CoverInv'
<1> SUFFICES ASSUME CoverInv, DropOld PROVE CoverInv'
  OBVIOUS
<1> USE ImageAssumption DEF ImageAssumption, DropOld, At, Goto, NewSlot, OldSlot, busVars,
                            CoverInv, CoverTypeOK, Slots, NoSlot
<1>0. job \in Images
  BY DEF Hand, Busy
<1>1. CoverTypeOK'
  BY DEF Steps
<1>2. Hand'
  BY DEF Hand, Busy
<1>3. SlotIsLinked'
  BY <1>0 DEF SlotIsLinked
<1>4. NewestAhead'
  BY DEF NewestAhead, Busy
<1>5. OnlyRespawnSpoils'
  BY <1>0 DEF OnlyRespawnSpoils, Readable, SlotIsLinked
<1> QED
  BY <1>1, <1>2, <1>3, <1>4, <1>5

LEMMA NotifyCover == CoverInv /\ Notify => CoverInv'
<1> SUFFICES ASSUME CoverInv, Notify PROVE CoverInv'
  OBVIOUS
<1> USE ImageAssumption DEF ImageAssumption, Notify, At, Return, diskVars, CoverInv, CoverTypeOK
<1>0. job \in Images
  BY DEF Hand, Busy
<1>1. CoverTypeOK'
  BY <1>0, AppendProperties DEF Steps
<1>2. Hand'
  BY DEF Hand, Busy
<1>3. SlotIsLinked'
  BY DEF SlotIsLinked
<1>4. NewestAhead'
  BY DEF NewestAhead, Busy, SlotIsLinked
<1>5. OnlyRespawnSpoils'
  BY DEF OnlyRespawnSpoils, Readable
<1> QED
  BY <1>1, <1>2, <1>3, <1>4, <1>5

-----------------------------------------------------------------------------
(* The end of the process and of the connection.                           *)

LEMMA Prefix ==
  ASSUME NEW s \in Seq(Images), NEW n \in 0 .. Len(s)
  PROVE  SubSeq(s, 1, n) \in Seq(Images)
  BY SubSeqProperties, LenProperties

LEMMA RespawnCover == CoverInv /\ Respawn => CoverInv'
<1> SUFFICES ASSUME CoverInv, Respawn PROVE CoverInv'
  OBVIOUS
<1> USE ImageAssumption DEF ImageAssumption, Respawn, diskVars, CoverInv, CoverTypeOK
<1>0. mail' \in Seq(Images)
  BY Prefix
<1>1. CoverTypeOK'
  <2>1. started' \in BOOLEAN /\ lost' \in BOOLEAN
    BY Zenon
  <2>2. life' \in Nat \ {0} /\ slot' \in Slots
    BY DEF Slots
  <2>3. UNCHANGED <<file, link, tmpLink, arrivals>>
    BY Zenon
  <2> QED
    BY <1>0, <2>1, <2>2, <2>3, Zenon DEF Steps
<1>2. Hand'
  BY DEF Hand, Busy
<1>3. SlotIsLinked'
  BY DEF SlotIsLinked
<1>4. NewestAhead'
  BY DEF NewestAhead, Busy
<1>5. OnlyRespawnSpoils'
  BY DEF OnlyRespawnSpoils, Readable
<1> QED
  BY <1>1, <1>2, <1>3, <1>4, <1>5

LEMMA ReconnectCover == CoverInv /\ Reconnect => CoverInv'
<1> SUFFICES ASSUME CoverInv, Reconnect PROVE CoverInv'
  OBVIOUS
<1> USE ImageAssumption DEF ImageAssumption, Reconnect, procVars, diskVars, CoverInv, CoverTypeOK
<1>1. mail' \in Seq(Images)
  BY Prefix, ConcatProperties
<1>2. CoverTypeOK'
  BY <1>1
<1>3. Hand' /\ SlotIsLinked' /\ NewestAhead' /\ OnlyRespawnSpoils'
  BY DEF Hand, SlotIsLinked, NewestAhead, OnlyRespawnSpoils, Readable, Busy
<1> QED
  BY <1>2, <1>3

LEMMA NextCover == CoverInv /\ [HookNext]_hookVars => CoverInv'
<1> SUFFICES ASSUME CoverInv, [HookNext]_hookVars PROVE CoverInv'
  OBVIOUS
<1>1. ASSUME NEW i \in Images, Arrive(i) PROVE CoverInv'
  BY <1>1, ArriveCover
<1>2. CASE WorkerStep
  BY <1>2, TakeCover, DecodeCover, OpenCover, WriteCover, TmpLinkCover, SwapCover,
     DropCover, NotifyCover DEF WorkerStep
<1>3. CASE Respawn
  BY <1>3, RespawnCover
<1>4. CASE Reconnect
  BY <1>4, ReconnectCover
<1>5. CASE UNCHANGED hookVars
  BY <1>5 DEF hookVars, procVars, diskVars, busVars, histVars, CoverInv, CoverTypeOK,
     Hand, SlotIsLinked, NewestAhead, OnlyRespawnSpoils, Readable, Busy
<1> QED
  BY <1>1, <1>2, <1>3, <1>4, <1>5 DEF HookNext

-----------------------------------------------------------------------------
(* The picture numbers on their way from the hook to the cluster: nothing  *)
(* is announced before there is a link, and the link never goes again.     *)

Announced ==
  \/ mail # << >>
  \/ bus.at # "idle" \/ artId # NoImage
  \/ hmi.num # NoNumber
  \/ asked \/ found # NotReading

(* The HMI knows a CRC only when one was announced; what it is about to    *)
(* send it has from there.                                                 *)
PictureInv ==
  /\ CoverInv
  /\ DOMAIN bus = {"at", "num"} /\ DOMAIN hmi = {"at", "num"}
  /\ Announced => link # NoSlot

LEMMA InitPicture == Init => PictureInv
<1> SUFFICES ASSUME Init PROVE PictureInv
  OBVIOUS
<1>1. CoverInv
  BY InitCover DEF Init
<1> QED
  BY <1>1, ImageAssumption DEF ImageAssumption, Init, HookInit, ViewInit, Rest, PictureInv,
     Announced

(* A CRC the bus has, or is about to get, is that of a linked picture.     *)
LEMMA CachedIsLinked ==
  ASSUME CoverInv, sticky # NoImage \/ worker = "notify"
  PROVE  link # NoSlot
<1>1. CASE worker = "unlink"
  BY <1>1 DEF CoverInv, CoverTypeOK, SlotIsLinked, Slots, NoSlot
<1>2. CASE worker # "unlink"
  <2>1. lastCrc # NoImage
    BY <1>2 DEF CoverInv, Hand, Busy, SlotIsLinked
  <2> QED
    BY <1>2, <2>1 DEF CoverInv, CoverTypeOK, SlotIsLinked, Slots, NoSlot
<1> QED
  BY <1>1, <1>2

LEMMA LinkStays ==
  ASSUME CoverInv, [HookNext]_hookVars, link # NoSlot
  PROVE  link' # NoSlot
<1>1. link' = link \/ (SwapLink /\ link' = tmpLink)
  BY DEF HookNext, hookVars, diskVars, WorkerStep, Arrive, Take, Decode, OpenSlot, WriteSlot,
     MakeTmpLink, SwapLink, DropOld, Notify, Respawn, Reconnect
<1>2. SwapLink => tmpLink = 1 - slot /\ slot \in {0, 1}
  BY DEF SwapLink, At, CoverInv, CoverTypeOK, Hand, Slots
<1> QED
  BY <1>1, <1>2 DEF NoSlot

(* A first life has only first lives before it.                            *)
LEMMA LifeGrows ==
  ASSUME CoverInv, [HookNext]_hookVars, life' = 1
  PROVE  life = 1
<1>1. life' = life \/ life' = life + 1
  BY DEF HookNext, hookVars, histVars, WorkerStep, Arrive, Take, Decode, OpenSlot, WriteSlot,
     MakeTmpLink, SwapLink, DropOld, Notify, Respawn, Reconnect, At
<1>2. life \in Nat \ {0}
  BY DEF CoverInv, CoverTypeOK
<1> QED
  BY <1>1, <1>2

-----------------------------------------------------------------------------
(* The hook's steps                                                        *)

LEMMA HookPicture == PictureInv /\ HookSide => PictureInv'
<1> SUFFICES ASSUME PictureInv, HookSide PROVE PictureInv'
  OBVIOUS
<1>1. CoverInv /\ [HookNext]_hookVars /\ UNCHANGED viewVars
  BY DEF PictureInv, HookSide
<1>2. CoverInv'
  BY <1>1, NextCover
<1>3. UNCHANGED <<bus, hmi, artId, asked, found, picture>>
  BY <1>1 DEF viewVars
<1>4. ASSUME mail' # << >>, mail = << >>
      PROVE  sticky # NoImage \/ worker = "notify"
  <2>1. mail' = mail \/ Notify \/ Respawn \/ Reconnect
    BY <1>1 DEF HookNext, hookVars, busVars, WorkerStep, Arrive, Take, Decode, OpenSlot,
       WriteSlot, MakeTmpLink, SwapLink, DropOld
  <2>2. CASE Respawn
    <3>1. PICK n \in 0 .. Len(mail) : mail' = SubSeq(mail, 1, n)
      BY <2>2 DEF Respawn
    <3>2. Len(mail) = 0
      BY <1>4, EmptySeq
    <3>3. n = 0
      BY <3>2
    <3>4. mail' = << >>
      BY <3>1, <3>3, <1>4
    <3> QED
      BY <3>4, <1>4
  <2> QED
    BY <2>1, <2>2, <1>4 DEF Notify, At, Reconnect
<1>5. ASSUME Announced' PROVE link' # NoSlot
  <2>1. link # NoSlot
    BY <1>1, <1>3, <1>4, <1>5, CachedIsLinked DEF PictureInv, Announced
  <2> QED
    BY <1>1, <2>1, LinkStays
<1> QED
  BY <1>2, <1>3, <1>5 DEF PictureInv

-----------------------------------------------------------------------------
(* The HMI's steps                                                         *)

LEMMA ListenPicture == PictureInv /\ Listen => PictureInv'
<1> SUFFICES ASSUME PictureInv, Listen PROVE PictureInv'
  OBVIOUS
<1> USE DEF Listen, Hear, procVars, diskVars, histVars
<1>1. CoverInv /\ mail \in Seq(Images) /\ mail # << >>
  BY DEF PictureInv, CoverInv, CoverTypeOK
<1>2. mail' \in Seq(Images)
  BY <1>1, HeadTailProperties
<1>3. CoverInv'
  BY <1>1, <1>2 DEF CoverInv, CoverTypeOK, Hand, SlotIsLinked, NewestAhead, OnlyRespawnSpoils,
     Readable, Busy
<1>4. link' # NoSlot
  BY <1>1 DEF PictureInv, Announced
<1>5. DOMAIN bus' = {"at", "num"} /\ DOMAIN hmi' = {"at", "num"}
  BY DEF PictureInv
<1> QED
  BY <1>3, <1>4, <1>5 DEF PictureInv

(* What leaves the announcements as they are, or takes them back.          *)
Shaped == DOMAIN bus = {"at", "num"} /\ DOMAIN hmi = {"at", "num"}

LEMMA BusAnnounces ==
  ASSUME Shaped, BusThread, UNCHANGED mail
  PROVE  Shaped' /\ (Announced' => Announced)
  BY DEF Shaped, BusThread, SetArtId, CallBack, BusSends, Send, Rest, Announced

LEMMA HmiAnnounces ==
  ASSUME Shaped, HmiThread, UNCHANGED mail
  PROVE  Shaped' /\ (Announced' => Announced)
<1> USE DEF Shaped, Announced, Rest
<1>1. CASE AskCover
  BY <1>1 DEF AskCover
<1>2. CASE WithCover
  BY <1>2 DEF WithCover, Number, NoNumber
<1>3. CASE WithoutCover
  BY <1>3 DEF WithoutCover
<1>4. CASE HmiSends
  BY <1>4 DEF HmiSends, Send
<1>5. CASE Position
  BY <1>5 DEF Position
<1>6. CASE SendAgain
  BY <1>6 DEF SendAgain, Send, Number, NoNumber
<1>7. CASE SendBare
  <2>1. hmi' = [hmi EXCEPT !.at = "note"]
    BY <1>7 DEF SendBare
  <2>2. hmi'.num = hmi.num /\ DOMAIN hmi' = {"at", "num"}
    BY <2>1
  <2>3. asked' => asked
    BY <1>7 DEF SendBare, Send
  <2> QED
    BY <1>7, <2>2, <2>3 DEF SendBare
<1>8. CASE NoteBare
  BY <1>8 DEF NoteBare
<1> QED
  BY <1>1, <1>2, <1>3, <1>4, <1>5, <1>6, <1>7, <1>8 DEF HmiThread

LEMMA ViewPicture == PictureInv /\ ViewSide => PictureInv'
<1> SUFFICES ASSUME PictureInv, ViewSide PROVE PictureInv'
  OBVIOUS
<1>1. UNCHANGED hookVars
  BY DEF ViewSide
<1>2. CoverInv'
  BY <1>1, NextCover DEF PictureInv
<1>3. UNCHANGED <<mail, link, life>>
  BY <1>1 DEF hookVars, diskVars, busVars, histVars
<1>4. Shaped
  BY DEF PictureInv, Shaped
<1>5. Shaped' /\ (Announced' => Announced)
  <2>1. CASE BusThread
    BY <2>1, <1>3, <1>4, BusAnnounces
  <2>2. CASE HmiThread
    BY <2>2, <1>3, <1>4, HmiAnnounces
  <2>3. CASE NewTrack \/ ServiceUp \/ ReadPicture
    BY <2>3, <1>3, <1>4 DEF NewTrack, ServiceUp, ReadPicture, ResolveLink, OpenPicture,
       Shaped, Announced
  <2> QED
    BY <2>1, <2>2, <2>3 DEF ViewSide
<1> QED
  BY <1>2, <1>3, <1>5 DEF PictureInv, Shaped

LEMMA NextPicture == PictureInv /\ [Next]_vars => PictureInv'
<1> SUFFICES ASSUME PictureInv, [Next]_vars PROVE PictureInv'
  OBVIOUS
<1>1. CASE Next
  BY <1>1, HookPicture, ListenPicture, ViewPicture DEF Next
<1>2. CASE UNCHANGED vars
  <2>1. UNCHANGED hookVars
    BY <1>2 DEF vars
  <2>2. CoverInv'
    BY <2>1, NextCover DEF PictureInv
  <2> QED
    BY <1>2, <2>2 DEF vars, hookVars, diskVars, busVars, histVars, viewVars, PictureInv,
       Announced
<1> QED
  BY <1>1, <1>2

LEMMA PictureHolds == Spec => []PictureInv
  BY InitPicture, NextPicture, PTL DEF Spec

-----------------------------------------------------------------------------
(* The hook's variables have the values its code can give.                 *)
THEOREM CoverTypes == Spec => []CoverTypeOK
<1>1. PictureInv => CoverTypeOK
  BY DEF PictureInv, CoverInv
<1> QED
  BY <1>1, PictureHolds, PTL

(* Only a new life, before its first success, spoils the linked picture.   *)
THEOREM SpoiledOnlyByRespawn == Spec => []OnlyRespawnSpoils
<1>1. PictureInv => OnlyRespawnSpoils
  BY DEF PictureInv, CoverInv
<1> QED
  BY <1>1, PictureHolds, PTL

(* The CRC the bus repeats is that of the picture behind the link.         *)
THEOREM CachedCrcIsOnDisk == Spec => []CachedIsOnDisk
<1>1. PictureInv => CachedIsOnDisk
  BY ImageAssumption DEF ImageAssumption, PictureInv, CoverInv, CoverTypeOK, CachedIsOnDisk,
     SlotIsLinked, Slots, NoSlot
<1> QED
  BY <1>1, PictureHolds, PTL

(* A worker at rest has announced the newest image.                        *)
THEOREM RestingIsLatest == Spec => []RestIsLatest
<1>1. PictureInv => RestIsLatest
  BY DEF PictureInv, CoverInv, RestIsLatest, NewestAhead, SlotIsLinked, Busy
<1> QED
  BY <1>1, PictureHolds, PTL

-----------------------------------------------------------------------------
(* The reads of the cluster                                                *)

(* Numbers are numbers of an image, and whoever has one knows a track;     *)
(* a read was asked for with a service.                                    *)
NumbersInv ==
  /\ bus.at = "art" => jCrc # NoImage
  /\ bus.at = "callback" => artId # NoImage
  /\ bus.at = "send" => bus.num # NoNumber /\ hasTrack
  /\ hmi.at # "idle" => hasTrack
  /\ asked \/ found # NotReading \/ picture # NoImage => hasTrack /\ service

(* What the worker is about to announce is not what it announced last, and *)
(* the last CRC on its way, or else heard, is the one announced last.      *)
FirstLife == life = 1 /\ ~lost
AnnouncedNew == worker = "notify" => sticky # job
MailInv ==
  FirstLife =>
    /\ mail = << >> => jCrc = sticky
    /\ mail # << >> => mail[Len(mail)] = sticky

(* A read that has resolved a link that was swapped since is repeated.     *)
StaleRepeats == FirstLife /\ found \notin {NotReading, link} => NewerComes \/ asked

ReadInv ==
  /\ PictureInv /\ NumbersInv
  /\ AnnouncedNew /\ MailInv
  /\ StaleRepeats /\ BrokenReadRepeats

LEMMA InitRead == Init => ReadInv
<1> SUFFICES ASSUME Init PROVE ReadInv
  OBVIOUS
<1>1. PictureInv
  BY InitPicture
<1> QED
  BY <1>1, ImageAssumption DEF ImageAssumption, Init, HookInit, ViewInit, Rest, ReadInv,
     NumbersInv, AnnouncedNew, MailInv, StaleRepeats, BrokenReadRepeats

(* A number that differs from the one heard stays on its way when others   *)
(* are put behind it.                                                      *)
LEMMA BehindIt ==
  ASSUME NEW S, NEW q \in Seq(S), NEW c \in S, NEW r, r = Append(q, c)
  PROVE  /\ r \in Seq(S) /\ Len(r) = Len(q) + 1 /\ r # << >> /\ r[Len(r)] = c
         /\ \A k \in 1..Len(q) : k \in 1..Len(r) /\ r[k] = q[k]
BY AppendProperties

LEMMA WholeAndOne ==
  ASSUME NEW S, NEW q \in Seq(S), NEW c \in S, NEW r, r = SubSeq(q, 1, Len(q)) \o <<c>>
  PROVE  r = Append(q, c)
  BY SubSeqFull, AppendIsConcat

(* A hook step that keeps the first life adds at most one number behind    *)
(* the others: the one that is new, or the one announced last.             *)
LEMMA HookMails ==
  ASSUME CoverInv, HookNext, FirstLife'
  PROVE  /\ FirstLife
         /\ \/ mail' = mail /\ sticky' = sticky
            \/ worker = "notify" /\ sticky' = job /\ mail' = Append(mail, job)
            \/ /\ UNCHANGED <<sticky, worker>> /\ sticky \in Images
               /\ mail' = Append(mail, sticky)
<1>1. mail \in Seq(Images) /\ life \in Nat \ {0} /\ sticky \in Images \cup {NoImage}
  BY DEF CoverInv, CoverTypeOK
<1>2. CASE \E i \in Images : Arrive(i)
  BY <1>2 DEF Arrive, busVars, FirstLife
<1>3. CASE WorkerStep
  BY <1>3 DEF WorkerStep, Take, Decode, OpenSlot, WriteSlot, MakeTmpLink, SwapLink, DropOld,
     Notify, At, busVars, histVars, FirstLife
<1>4. CASE Respawn
  BY <1>1, <1>4 DEF Respawn, FirstLife
<1>5. CASE Reconnect
  <2>1. PICK n \in 0 .. Len(mail) :
          /\ mail' = SubSeq(mail, 1, n) \o <<sticky>>
          /\ lost' = (lost \/ n < Len(mail))
    BY <1>5 DEF Reconnect
  <2>2. ~lost /\ n = Len(mail) /\ sticky \in Images
    <3>1. ~lost /\ ~(n < Len(mail))
      BY <2>1 DEF FirstLife
    <3>2. Len(mail) \in Nat
      BY <1>1, LenProperties
    <3>3. n = Len(mail)
      BY <3>1, <3>2
    <3> QED
      BY <1>1, <1>5, <3>1, <3>3 DEF Reconnect
  <2>3. mail' = Append(mail, sticky)
    BY <1>1, <2>1, <2>2, WholeAndOne
  <2>4. life = 1
    BY <1>5 DEF Reconnect, FirstLife
  <2> QED
    BY <1>5, <2>2, <2>3, <2>4 DEF Reconnect, procVars, FirstLife
<1> QED
  BY <1>2, <1>3, <1>4, <1>5 DEF HookNext

LEMMA HookRead == ReadInv /\ HookSide => ReadInv'
<1> SUFFICES ASSUME ReadInv, HookSide PROVE ReadInv'
  OBVIOUS
<1>1. CoverInv /\ HookNext /\ UNCHANGED viewVars
  BY DEF ReadInv, PictureInv, HookSide
<1>2. PictureInv'
  BY HookPicture DEF ReadInv
<1>3. UNCHANGED <<jCrc, artId, hasTrack, service, bus, hmi, asked, found, picture>>
  BY <1>1 DEF viewVars
<1>4. NumbersInv'
  BY <1>3 DEF ReadInv, NumbersInv
<1>5. AnnouncedNew'
  <2>1. CASE DropOld
    BY <2>1 DEF DropOld, At, Goto, busVars, AnnouncedNew, CoverInv, Hand, SlotIsLinked, ReadInv, PictureInv
  <2>2. CASE ~DropOld
    <3>1. worker' = "notify" => worker = "notify" /\ UNCHANGED <<sticky, job>>
      BY <1>1, <2>2 DEF HookNext, WorkerStep, Arrive, Take, Decode, OpenSlot, WriteSlot, MakeTmpLink,
         SwapLink, Notify, Respawn, Reconnect, At, Goto, Return, Fail, busVars, procVars
    <3> QED
      BY <3>1 DEF ReadInv, AnnouncedNew
  <2> QED
    BY <2>1, <2>2
<1> SUFFICES ASSUME FirstLife' PROVE MailInv' /\ StaleRepeats' /\ BrokenReadRepeats'
  BY <1>2, <1>4, <1>5 DEF ReadInv, MailInv, StaleRepeats, BrokenReadRepeats, FirstLife
<1>6. mail \in Seq(Images) /\ job \in Images \cup {NoImage} /\ FirstLife
  BY <1>1, HookMails DEF CoverInv, CoverTypeOK
<1>7. worker = "notify" => job \in Images
  BY <1>1, <1>6 DEF CoverInv, Hand, Busy
<1>8. MailInv'
  <2>1. CASE mail' = mail /\ sticky' = sticky
    BY <2>1, <1>3, <1>6 DEF ReadInv, MailInv, FirstLife
  <2>2. CASE worker = "notify" /\ sticky' = job /\ mail' = Append(mail, job)
    BY <2>2, <1>6, <1>7, BehindIt DEF MailInv
  <2>3. CASE sticky' = sticky /\ sticky \in Images /\ mail' = Append(mail, sticky)
    BY <2>3, <1>6, BehindIt DEF MailInv
  <2> QED
    BY <1>1, <2>1, <2>2, <2>3, HookMails
<1>9. NewerComes => NewerComes'
  <2>1. CASE bus.at # "idle"
    BY <2>1, <1>3 DEF NewerComes
  <2>2. CASE \E k \in 1..Len(mail) : mail[k] # jCrc
    <3>1. PICK k \in 1..Len(mail) : mail[k] # jCrc
      BY <2>2
    <3>2. mail' = mail \/ \E c \in Images : mail' = Append(mail, c)
      BY <1>1, <1>7, HookMails
    <3>3. k \in 1..Len(mail') /\ mail'[k] = mail[k]
      BY <3>1, <3>2, <1>6, BehindIt
    <3> QED
      BY <3>1, <3>3, <1>3 DEF NewerComes
  <2>3. CASE worker = "unlink"
    <3>1. worker' \in {"unlink", "notify"}
      BY <1>1, <1>6, <2>3 DEF HookNext, WorkerStep, Arrive, Take, Decode, OpenSlot, WriteSlot,
         MakeTmpLink, SwapLink, DropOld, Notify, Respawn, Reconnect, At, Goto, procVars,
         FirstLife, CoverInv, CoverTypeOK
    <3> QED
      BY <3>1 DEF NewerComes
  <2>4. CASE worker = "notify"
    <3>1. CASE Notify
      <4>1. mail' = Append(mail, job) /\ sticky # job
        BY <2>4, <3>1 DEF Notify, ReadInv, AnnouncedNew
      <4>2. Len(mail') = Len(mail) + 1 /\ mail'[Len(mail')] = job
        BY <4>1, <2>4, <1>6, <1>7, BehindIt
      <4>3. CASE job # jCrc
        BY <4>2, <4>3, <1>3, <1>6 DEF NewerComes
      <4>4. CASE job = jCrc
        <5>1. mail # << >> /\ mail[Len(mail)] # jCrc
          BY <4>1, <4>4, <1>6 DEF ReadInv, MailInv
        <5>2. Len(mail) \in 1..Len(mail)
          BY <5>1, <1>6, EmptySeq
        <5>3. Len(mail) \in 1..Len(mail') /\ mail'[Len(mail)] = mail[Len(mail)]
          BY <5>2, <4>1, <2>4, <1>6, <1>7, BehindIt
        <5> QED
          BY <5>1, <5>3, <1>3 DEF NewerComes
      <4> QED
        BY <4>3, <4>4
    <3>2. CASE ~Notify
      <4>1. worker' = "notify"
        BY <1>1, <1>6, <2>4, <3>2 DEF HookNext, WorkerStep, Arrive, Take, Decode, OpenSlot,
           WriteSlot, MakeTmpLink, SwapLink, DropOld, Respawn, Reconnect, At, procVars,
           FirstLife, CoverInv, CoverTypeOK
      <4> QED
        BY <4>1 DEF NewerComes
    <3> QED
      BY <3>1, <3>2
  <2> QED
    BY <2>1, <2>2, <2>3, <2>4 DEF NewerComes
<1>10. link' = link \/ NewerComes'
  <2>1. link' = link \/ (SwapLink /\ worker' = "unlink")
    BY <1>1 DEF HookNext, diskVars, WorkerStep, Arrive, Take, Decode, OpenSlot, WriteSlot,
       MakeTmpLink, SwapLink, DropOld, Notify, Respawn, Reconnect, Goto
  <2> QED
    BY <2>1 DEF NewerComes
<1>11. StaleRepeats'
  BY <1>3, <1>6, <1>9, <1>10 DEF ReadInv, StaleRepeats
<1>12. BrokenReadRepeats'
  BY <1>3, <1>6, <1>9 DEF ReadInv, BrokenReadRepeats, FirstLife
<1> QED
  BY <1>8, <1>11, <1>12

LEMMA ListenRead == ReadInv /\ Listen => ReadInv'
<1> SUFFICES ASSUME ReadInv, Listen PROVE ReadInv'
  OBVIOUS
<1>1. PictureInv'
  BY ListenPicture DEF ReadInv
<1>2. mail \in Seq(Images) /\ mail # << >> /\ mail' = Tail(mail)
  BY DEF ReadInv, PictureInv, CoverInv, CoverTypeOK, Listen, Hear
<1>3. /\ UNCHANGED <<worker, job, sticky, link, life, lost, artId, hasTrack, service, hmi, asked,
                     found, picture>>
      /\ bus.at = "idle" /\ jCrc' = Head(mail)
      /\ \/ bus' = [at |-> "art", num |-> NoNumber]
         \/ jCrc' = jCrc /\ bus' = bus
  BY DEF Listen, Hear, IsNew, procVars, diskVars, histVars
<1>4. Head(mail) \in Images /\ Head(mail) = mail[1]
  BY <1>2, HeadTailProperties
<1>5. NumbersInv'
  BY <1>3, <1>4, ImageAssumption DEF ImageAssumption, ReadInv, NumbersInv
<1>6. AnnouncedNew'
  BY <1>3 DEF ReadInv, AnnouncedNew
<1>7. /\ Len(mail) \in Nat \ {0} /\ Len(mail') = Len(mail) - 1
      /\ \A k \in 1..Len(mail') : mail'[k] = mail[k + 1]
  BY <1>2, HeadTailProperties, EmptySeq
<1>8. MailInv'
  <2>1. CASE mail' = << >>
    <3>1. Len(mail) = 1
      BY <2>1, <1>7, EmptySeq
    <3> QED
      BY <2>1, <3>1, <1>2, <1>3, <1>4 DEF ReadInv, MailInv, FirstLife
  <2>2. CASE mail' # << >>
    <3>1. mail' \in Seq(Images)
      BY <1>2, HeadTailProperties
    <3>2. Len(mail') \in Nat \ {0}
      BY <2>2, <3>1, EmptySeq
    <3>3. mail'[Len(mail')] = mail[Len(mail)]
      BY <3>2, <1>7
    <3> QED
      BY <2>2, <3>3, <1>2, <1>3 DEF ReadInv, MailInv, FirstLife
  <2> QED
    BY <2>1, <2>2
<1>9. NewerComes => NewerComes'
  <2>1. CASE bus' = [at |-> "art", num |-> NoNumber]
    BY <2>1 DEF NewerComes
  <2>2. CASE jCrc' = jCrc /\ bus' = bus
    <3>1. CASE \E k \in 1..Len(mail) : mail[k] # jCrc
      <4>1. PICK k \in 1..Len(mail) : mail[k] # jCrc
        BY <3>1
      <4>2. k # 1
        BY <4>1, <2>2, <1>3, <1>4
      <4>3. k - 1 \in 1..Len(mail')
        BY <4>1, <4>2, <1>7
      <4>4. mail'[k - 1] = mail[(k - 1) + 1] /\ (k - 1) + 1 = k
        BY <4>1, <4>3, <1>7
      <4> QED
        BY <4>1, <4>3, <4>4, <2>2 DEF NewerComes
    <3> QED
      BY <3>1, <2>2, <1>3 DEF NewerComes
  <2> QED
    BY <2>1, <2>2, <1>3
<1>10. StaleRepeats' /\ BrokenReadRepeats'
  BY <1>3, <1>9 DEF ReadInv, StaleRepeats, BrokenReadRepeats, FirstLife
<1> QED
  BY <1>1, <1>5, <1>6, <1>8, <1>10 DEF ReadInv

(* The number of an image is one that is sent.                             *)
LEMMA NumberIsSent ==
  ASSUME NEW i, i # NoImage, NEW plus
  PROVE  Number(i, plus) # NoNumber
  BY DEF Number, NoNumber

(* A send with the service up asks for a read, unless it has no picture;   *)
(* without it nothing was asked for, and nothing read.                     *)
LEMMA BusRead ==
  ASSUME ReadInv, BusThread, UNCHANGED hookVars
  PROVE  NumbersInv' /\ StaleRepeats' /\ BrokenReadRepeats'
<1> USE DEF ReadInv, PictureInv
<1>1. UNCHANGED <<worker, link, life, lost, mail>>
  BY DEF hookVars, procVars, diskVars, busVars, histVars
<1>2. CASE SetArtId \/ (CallBack /\ hasTrack)
  <2>1. UNCHANGED <<jCrc, hasTrack, service, hmi, asked, found, picture>>
    BY <1>2 DEF SetArtId, CallBack
  <2>2. bus'.at # "idle"
    BY <1>2 DEF SetArtId, CallBack
  <2>3. NumbersInv'
    BY <1>2, <2>1, NumberIsSent DEF SetArtId, CallBack, NumbersInv
  <2> QED
    BY <2>2, <2>3 DEF StaleRepeats, BrokenReadRepeats, NewerComes
<1>3. CASE CallBack /\ ~hasTrack
  <2>1. UNCHANGED <<jCrc, artId, hasTrack, service, hmi, asked, found, picture>> /\ bus' = Rest
    BY <1>3 DEF CallBack
  <2>2. ~asked /\ found = NotReading /\ picture = NoImage
    BY <1>3 DEF NumbersInv
  <2> QED
    BY <2>1, <2>2, ImageAssumption DEF ImageAssumption, Rest, NumbersInv, StaleRepeats,
       BrokenReadRepeats
<1>4. CASE BusSends
  <2>1. UNCHANGED <<jCrc, artId, hasTrack, service, hmi, found, picture>> /\ bus' = Rest
    BY <1>4 DEF BusSends
  <2>2. IF service THEN asked' ELSE asked' = asked
    BY <1>4 DEF BusSends, Send, NumbersInv
  <2>3. ~service => ~asked /\ found = NotReading /\ picture = NoImage
    BY DEF NumbersInv
  <2>4. NumbersInv'
    BY <1>4, <2>1, <2>2 DEF BusSends, NumbersInv, Rest
  <2> QED
    BY <2>1, <2>2, <2>3, <2>4, ImageAssumption DEF ImageAssumption, StaleRepeats, BrokenReadRepeats
<1> QED
  BY <1>2, <1>3, <1>4 DEF BusThread

LEMMA HmiRead ==
  ASSUME ReadInv, HmiThread \/ NewTrack \/ ServiceUp, UNCHANGED hookVars
  PROVE  NumbersInv' /\ StaleRepeats' /\ BrokenReadRepeats'
<1> USE DEF ReadInv, PictureInv
<1>1. UNCHANGED <<worker, link, life, lost, mail>>
  BY DEF hookVars, procVars, diskVars, busVars, histVars
<1> DEFINE Asked ==
             /\ UNCHANGED <<jCrc, artId, bus, found, picture>>
             /\ hasTrack => hasTrack'
             /\ service => service'
             /\ asked => asked'
             /\ asked' => asked \/ (service' /\ hasTrack')
             /\ hmi'.at # "idle" => hasTrack'
<1>2. Asked
  <2>1. CASE AskCover
    BY <2>1 DEF AskCover, NumbersInv
  <2>2. CASE WithCover
    BY <2>2 DEF WithCover, NumbersInv
  <2>3. CASE WithoutCover
    BY <2>3 DEF WithoutCover, NumbersInv
  <2>4. CASE HmiSends
    BY <2>4 DEF HmiSends, NumbersInv, Send, Rest
  <2>5. CASE Position
    BY <2>5 DEF Position, NumbersInv
  <2>6. CASE SendAgain
    BY <2>6 DEF SendAgain, NumbersInv, Send, Rest
  <2>7. CASE SendBare
    BY <2>7 DEF SendBare, NumbersInv, Send
  <2>8. CASE NoteBare
    BY <2>8 DEF NoteBare, NumbersInv, Rest
  <2>9. CASE NewTrack
    BY <2>9 DEF NewTrack, NumbersInv
  <2>10. CASE ServiceUp
    BY <2>10 DEF ServiceUp, NumbersInv
  <2> QED
    BY <2>1, <2>2, <2>3, <2>4, <2>5, <2>6, <2>7, <2>8, <2>9, <2>10 DEF HmiThread
<1>4. NumbersInv'
  BY <1>2 DEF NumbersInv
<1>5. NewerComes' <=> NewerComes
  BY <1>1, <1>2 DEF NewerComes
<1> QED
  BY <1>1, <1>2, <1>4, <1>5 DEF StaleRepeats, BrokenReadRepeats, FirstLife

(* A read that opens what the link still names finds a whole picture.      *)
LEMMA ClusterRead ==
  ASSUME ReadInv, ReadPicture, UNCHANGED hookVars
  PROVE  NumbersInv' /\ StaleRepeats' /\ BrokenReadRepeats'
<1> USE DEF ReadInv, PictureInv
<1>1. UNCHANGED <<worker, link, file, life, lost, mail>>
  BY DEF hookVars, procVars, diskVars, busVars, histVars
<1>2. UNCHANGED <<jCrc, artId, hasTrack, service, bus, hmi>>
  BY DEF ReadPicture, ResolveLink, OpenPicture
<1>3. NewerComes' <=> NewerComes
  BY <1>1, <1>2 DEF NewerComes
<1>4. NumbersInv'
  BY <1>2 DEF ReadPicture, ResolveLink, OpenPicture, NumbersInv
<1>5. link # NotReading
  BY DEF CoverInv, CoverTypeOK, Slots, NoSlot, NotReading
<1>6. CASE ResolveLink
  BY <1>1, <1>4, <1>5, <1>6 DEF ResolveLink, StaleRepeats, BrokenReadRepeats
<1>7. CASE OpenPicture
  <2>1. found' = NotReading /\ asked' = asked
    BY <1>7 DEF OpenPicture
  <2>2. found # NotReading /\ link # NoSlot
    BY <1>7 DEF OpenPicture, Announced
  <2>3. ASSUME life = 1, found = link
        PROVE  picture' \notin {Gone, Partial}
    <3>1. file[link] \in Images
      BY <2>2, <2>3 DEF CoverInv, OnlyRespawnSpoils, Readable
    <3> QED
      BY <1>7, <2>2, <2>3, <3>1, ImageAssumption DEF ImageAssumption, OpenPicture
  <2> QED
    BY <1>1, <1>3, <1>4, <2>1, <2>2, <2>3 DEF StaleRepeats, BrokenReadRepeats, FirstLife
<1> QED
  BY <1>6, <1>7 DEF ReadPicture

LEMMA ViewRead == ReadInv /\ ViewSide => ReadInv'
<1> SUFFICES ASSUME ReadInv, ViewSide PROVE ReadInv'
  OBVIOUS
<1>1. UNCHANGED hookVars
  BY DEF ViewSide
<1>2. PictureInv'
  BY ViewPicture DEF ReadInv
<1>3. NumbersInv' /\ StaleRepeats' /\ BrokenReadRepeats'
  BY <1>1, BusRead, HmiRead, ClusterRead DEF ViewSide
<1>4. jCrc' = jCrc
  BY DEF ViewSide, BusThread, SetArtId, CallBack, BusSends, HmiThread, AskCover, WithCover,
     WithoutCover, HmiSends, Position, SendAgain, SendBare, NoteBare, NewTrack, ServiceUp,
     ReadPicture, ResolveLink, OpenPicture
<1>5. AnnouncedNew' /\ MailInv'
  BY <1>1, <1>4 DEF hookVars, procVars, busVars, histVars, ReadInv, AnnouncedNew, MailInv, FirstLife
<1> QED
  BY <1>2, <1>3, <1>5 DEF ReadInv

(* A read that finds no picture, or half of one, because the worker has    *)
(* swapped the link behind its back is not the last: in the first life and *)
(* with no number lost, the newer number that makes the cluster read again *)
(* is still to come or has come already (coverart_hook.c:540-547,          *)
(* 678-685; CoverArt.java:103).                                            *)
THEOREM BrokenReadIsRepeated == Spec => []BrokenReadRepeats
<1>1. Init => ReadInv
  BY InitRead
<1>2. ReadInv /\ [Next]_vars => ReadInv'
  <2> SUFFICES ASSUME ReadInv, [Next]_vars PROVE ReadInv'
    OBVIOUS
  <2>1. CASE Next
    BY <2>1, HookRead, ListenRead, ViewRead DEF Next
  <2>2. CASE UNCHANGED vars
    <3>1. PictureInv'
      BY <2>2, NextPicture DEF ReadInv
    <3> QED
      BY <2>2, <3>1 DEF vars, hookVars, procVars, diskVars, busVars, histVars, viewVars, ReadInv,
         NumbersInv, AnnouncedNew, MailInv, StaleRepeats, BrokenReadRepeats, NewerComes, FirstLife
  <2> QED
    BY <2>1, <2>2
<1>3. ReadInv => BrokenReadRepeats
  BY DEF ReadInv
<1> QED
  BY <1>1, <1>2, <1>3, PTL DEF Spec
=============================================================================
