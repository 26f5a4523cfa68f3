---------------------------- MODULE CoverArtView ----------------------------
(***************************************************************************)
(* The HMI's side of the cover art: CoverArt.java, the listener of track   *)
(* and position events that sends what is playing to the cluster, and the  *)
(* cluster, which reads the picture file by the path it is sent.           *)
(*                                                                         *)
(* Two threads run this code without a lock: the reader of the bus, in     *)
(* onFrame() and onNewCoverArt(), and the HMI, in updateNowPlayingData()   *)
(* and updatePlayPosition().  What the cluster is sent is a picture number: *)
(* a CRC, or a CRC plus one where it must not take the picture for the one *)
(* it knows, or none.                                                      *)
(***************************************************************************)
EXTENDS CoverArtHook

CONSTANTS MaxTracks   \* bound: track changes

Number(i, plus) == [crc |-> i, plus |-> plus]
NoNumber == Number(NoImage, FALSE)

VARIABLES
  jCrc, artId,      \* CoverArt.lastCrc and .artId
  hasTrack,         \* currentTitle, currentArtist or currentAlbum is set
  sentWithout,      \* sentWithoutCover
  retry,            \* pendingCoverRetry
  service,          \* getBapService() # null
  bus,              \* where the reader thread is, and the number it sends
  hmi,              \* where the HMI's thread is, and the number it sends
  shown,            \* the number in the last updateCurrentStation()
  asked,            \* the cluster is to read the file
  found,            \* its open() has resolved the link to this slot
  picture,          \* what it has read
  crossed,          \* history: the two threads overlapped
  tracks

viewVars == <<jCrc, artId, hasTrack, sentWithout, retry, service, bus, hmi,
              shown, asked, found, picture, crossed, tracks>>

NotReading == -2   \* found: no open() is under way
Rest == [at |-> "idle", num |-> NoNumber]

ViewInit ==
  /\ jCrc = NoImage /\ artId = NoImage
  /\ hasTrack = FALSE /\ sentWithout = FALSE /\ retry = FALSE
  /\ service \in BOOLEAN
  /\ bus = Rest /\ hmi = Rest
  /\ shown = NoNumber
  /\ asked = FALSE /\ found = NotReading /\ picture = NoImage
  /\ crossed = FALSE /\ tracks = 0

\* Mutant: nothing is remembered when there is no service yet.
Send_Forgets(num) ==
  /\ shown' = (IF service THEN num ELSE shown)
  /\ asked' = (asked \/ (service /\ num # NoNumber))
  /\ UNCHANGED retry

(* sendNowPlaying(): a picture is sent only with a number that is not 0.   *)
Send(num) ==
  IF service
  THEN /\ shown' = num
       /\ asked' = (asked \/ num # NoNumber)
       /\ UNCHANGED retry
  ELSE /\ retry' = TRUE
       /\ UNCHANGED <<shown, asked>>


(* The two threads overlap when one sets out while the other is under way. *)
Overlap(other) == crossed' = (other.at # "idle")

-----------------------------------------------------------------------------
(* The reader's thread                                                     *)

\* Mutant: a CRC is new only if there was none.
IsNew_FirstOnly(crc) == jCrc = NoImage
IsNew(crc) == crc # jCrc

Hear ==
  /\ bus.at = "idle" /\ mail # << >>
  /\ mail' = Tail(mail)
  /\ IF IsNew(Head(mail))
     THEN /\ jCrc' = Head(mail)
          /\ bus' = [at |-> "art", num |-> NoNumber]
          /\ Overlap(hmi)
     ELSE UNCHANGED <<jCrc, bus, crossed>>
  /\ UNCHANGED <<artId, hasTrack, sentWithout, retry, service, hmi, shown,
                 asked, found, picture, tracks>>

SetArtId ==
  /\ bus.at = "art"
  /\ artId' = jCrc
  /\ bus' = [bus EXCEPT !.at = "callback"]
  /\ UNCHANGED <<jCrc, hasTrack, sentWithout, retry, service, hmi, shown,
                 asked, found, picture, crossed, tracks>>

(* onNewCoverArt(): a picture that is late comes under another number.     *)
CallBack ==
  /\ bus.at = "callback"
  /\ IF hasTrack
     THEN /\ bus' = [at |-> "send", num |-> Number(artId, sentWithout)]
          /\ sentWithout' = FALSE
     ELSE /\ bus' = Rest
          /\ UNCHANGED sentWithout
  /\ UNCHANGED <<jCrc, artId, hasTrack, retry, service, hmi, shown, asked,
                 found, picture, crossed, tracks>>

BusSends ==
  /\ bus.at = "send"
  /\ Send(bus.num)
  /\ bus' = Rest
  /\ UNCHANGED <<jCrc, artId, hasTrack, sentWithout, service, hmi, found, picture,
                 crossed, tracks>>

-----------------------------------------------------------------------------
(* The HMI's thread                                                        *)

NewTrack ==
  /\ hmi.at = "idle" /\ tracks < MaxTracks
  /\ tracks' = tracks + 1
  /\ hasTrack' = TRUE
  /\ hmi' = [at |-> "cover?", num |-> NoNumber]
  /\ Overlap(bus)
  /\ UNCHANGED <<jCrc, artId, sentWithout, retry, service, bus, shown, asked, found, picture>>

(* hasCoverArt() and what follows from it.                                 *)
AskCover ==
  /\ hmi.at = "cover?"
  /\ hmi' = [at |-> IF jCrc # NoImage THEN "with" ELSE "without", num |-> NoNumber]
  /\ UNCHANGED <<jCrc, artId, hasTrack, sentWithout, retry, service, bus, shown,
                 asked, found, picture, crossed, tracks>>

WithCover ==
  /\ hmi.at = "with"
  /\ sentWithout' = FALSE
  /\ hmi' = [at |-> "send", num |-> Number(artId, FALSE)]
  /\ UNCHANGED <<jCrc, artId, hasTrack, retry, service, bus, shown, asked,
                 found, picture, crossed, tracks>>

WithoutCover ==
  /\ hmi.at = "without"
  /\ sentWithout' = TRUE
  /\ hmi' = [at |-> "send", num |-> NoNumber]
  /\ UNCHANGED <<jCrc, artId, hasTrack, retry, service, bus, shown, asked,
                 found, picture, crossed, tracks>>

HmiSends ==
  /\ hmi.at = "send"
  /\ Send(hmi.num)
  /\ hmi' = Rest
  /\ UNCHANGED <<jCrc, artId, hasTrack, sentWithout, service, bus, found, picture,
                 crossed, tracks>>

(* updatePlayPosition(): a send that found no service is made up for.      *)
Position ==
  /\ hmi.at = "idle" /\ service /\ retry
  /\ retry' = FALSE
  /\ hmi' = [at |-> IF ~hasTrack THEN "idle"
                    ELSE IF jCrc # NoImage THEN "again" ELSE "bare",
             num |-> NoNumber]
  /\ Overlap(bus)
  /\ UNCHANGED <<jCrc, artId, hasTrack, sentWithout, service, bus, shown,
                 asked, found, picture, tracks>>

SendAgain ==
  /\ hmi.at = "again"
  /\ Send(Number(artId, FALSE))
  /\ hmi' = Rest
  /\ UNCHANGED <<jCrc, artId, hasTrack, sentWithout, service, bus, found, picture,
                 crossed, tracks>>

SendBare ==
  /\ hmi.at = "bare"
  /\ Send(NoNumber)
  /\ hmi' = [hmi EXCEPT !.at = "note"]
  /\ UNCHANGED <<jCrc, artId, hasTrack, sentWithout, service, bus, found, picture,
                 crossed, tracks>>

NoteBare ==
  /\ hmi.at = "note"
  /\ sentWithout' = TRUE
  /\ hmi' = Rest
  /\ UNCHANGED <<jCrc, artId, hasTrack, retry, service, bus, shown, asked,
                 found, picture, crossed, tracks>>

-----------------------------------------------------------------------------
(* The stock classes: the service appears once; the cluster reads the file. *)

ServiceUp ==
  /\ ~service /\ service' = TRUE
  /\ UNCHANGED <<jCrc, artId, hasTrack, sentWithout, retry, bus, hmi, shown,
                 asked, found, picture, crossed, tracks>>

(* open() of a symbolic link: its target is looked up, then opened.        *)
ResolveLink ==
  /\ asked /\ found = NotReading
  /\ asked' = FALSE /\ found' = link
  /\ UNCHANGED <<jCrc, artId, hasTrack, sentWithout, retry, service, bus, hmi,
                 shown, picture, crossed, tracks>>

OpenPicture ==
  /\ found # NotReading /\ found' = NotReading
  /\ picture' = IF found = NoSlot THEN Gone ELSE file[found]
  /\ UNCHANGED <<jCrc, artId, hasTrack, sentWithout, retry, service, bus, hmi,
                 shown, asked, crossed, tracks>>

ReadPicture == ResolveLink \/ OpenPicture

BusThread == SetArtId \/ CallBack \/ BusSends
HmiThread == \/ AskCover \/ WithCover \/ WithoutCover \/ HmiSends
             \/ Position \/ SendAgain \/ SendBare \/ NoteBare

=============================================================================
