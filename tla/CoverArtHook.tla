---------------------------- MODULE CoverArtHook ----------------------------
(***************************************************************************)
(* coverart_hook.c after a complete image has been found: the place for    *)
(* one waiting image, the worker, the two picture files and the symbolic   *)
(* link that is swapped between them, and the CRC published for the HMI.   *)
(* dio_manager may end at any step and is started again; the files stay.   *)
(*                                                                         *)
(* An image stands for its CRC; a file holds an image, is being written    *)
(* (Partial) or does not exist (Gone).                                     *)
(***************************************************************************)
EXTENDS Integers, Sequences

CONSTANTS
  Images,       \* complete images the phone sends
  NoImage,      \* no image, no CRC yet
  Gone,         \* the file does not exist
  Partial,      \* the file is open for writing
  MaxArrivals,  \* bound: images from the phone
  MaxLives      \* bound: lives of dio_manager

ASSUME ImageAssumption ==
  /\ NoImage \notin Images /\ Gone \notin Images /\ Partial \notin Images
  /\ Gone # Partial /\ NoImage # Gone /\ NoImage # Partial
  /\ MaxArrivals \in Nat /\ MaxLives \in Nat

Slots  == {0, 1}
NoSlot == -1
Steps  == {"idle", "decode", "open", "write", "link", "rename", "unlink", "notify"}

VARIABLES
  started,   \* worker_started: the thread exists, else images are handled inline
  pending,   \* pending_data
  worker,    \* where the thread that handles images is
  job,       \* the image it handles
  slot,      \* g_coverart.slot
  lastCrc,   \* g_coverart.last_crc
  file,      \* coverart_0.png and coverart_1.png
  link,      \* the slot coverart.png points to
  tmpLink,   \* the slot coverart.png.tmp points to
  sticky,    \* the CRC the bus has in its cache
  mail,      \* CRCs on their way to the HMI
  latest,    \* history: the newest image of this life, unless saving it failed
  lost,      \* history: this life lost a connection with CRCs on their way
  arrivals, life

procVars == <<started, pending, worker, job, slot, lastCrc>>
diskVars == <<file, link, tmpLink>>
busVars  == <<sticky, mail>>
histVars == <<latest, lost, arrivals, life>>
hookVars == <<procVars, diskVars, busVars, histVars>>

HookInit ==
  /\ started \in BOOLEAN
  /\ pending = NoImage /\ worker = "idle" /\ job = NoImage
  /\ slot = 0 /\ lastCrc = NoImage
  /\ file = [s \in Slots |-> Gone] /\ link = NoSlot /\ tmpLink = NoSlot
  /\ sticky = NoImage /\ mail = << >>
  /\ latest = NoImage /\ lost = FALSE /\ arrivals = 0 /\ life = 1

-----------------------------------------------------------------------------
(* Handing an image over: the newer one replaces the one that waits.       *)

\* Mutant: a full place turns the new image away.
Queued_KeepsOlder(i) == IF pending # NoImage THEN pending ELSE i
Queued(i) == i

(* Without a worker thread the reading thread does the work itself.        *)
Arrive(i) ==
  /\ arrivals < MaxArrivals
  /\ arrivals' = arrivals + 1
  /\ latest' = i
  /\ \/ /\ started
        /\ pending' = Queued(i)
        /\ UNCHANGED <<worker, job>>
     \/ /\ ~started /\ worker = "idle"
        /\ worker' = "decode" /\ job' = i
        /\ UNCHANGED pending
  /\ UNCHANGED <<started, slot, lastCrc, diskVars, busVars, lost, life>>

Take ==
  /\ worker = "idle" /\ pending # NoImage
  /\ worker' = "decode" /\ job' = pending /\ pending' = NoImage
  /\ UNCHANGED <<started, slot, lastCrc, diskVars, busVars, histVars>>

-----------------------------------------------------------------------------
(* save_artwork() and write_png_file()                                     *)

\* Mutant: one file only, written in place.
NewSlot_Same == slot
NewSlot == 1 - slot

At(step) == worker = step /\ UNCHANGED <<started, pending, lost, arrivals, life>>
Goto(step) == worker' = step /\ UNCHANGED job
Return == worker' = "idle" /\ job' = NoImage

(* The newest image is given up unless a newer one has come since.         *)
Fail == Return /\ latest' = IF pending = NoImage THEN NoImage ELSE latest

\* Mutant: an image is known when any has been saved.
Known_Any(i) == lastCrc # NoImage
Known(i) == lastCrc = i

(* An image may be too small or too large, or not be one stb_image reads.   *)
Decode ==
  /\ At("decode")
  /\ \/ Known(job) /\ Return /\ UNCHANGED latest
     \/ ~Known(job) /\ Goto("open") /\ UNCHANGED latest
     \/ ~Known(job) /\ Fail
  /\ UNCHANGED <<slot, lastCrc, diskVars, busVars>>

(* O_TRUNC: from here the file is not a picture.                           *)
OpenSlot ==
  /\ At("open")
  /\ \/ /\ file' = [file EXCEPT ![NewSlot] = Partial]
        /\ Goto("write") /\ UNCHANGED latest
     \/ Fail /\ UNCHANGED file
  /\ UNCHANGED <<slot, lastCrc, link, tmpLink, busVars>>

WriteSlot ==
  /\ At("write")
  /\ \/ /\ file' = [file EXCEPT ![NewSlot] = job]
        /\ Goto("link") /\ UNCHANGED latest
     \/ /\ file' = [file EXCEPT ![NewSlot] = Gone]
        /\ Fail
  /\ UNCHANGED <<slot, lastCrc, link, tmpLink, busVars>>

MakeTmpLink ==
  /\ At("link")
  /\ \/ /\ tmpLink' = NewSlot
        /\ Goto("rename") /\ UNCHANGED <<file, latest>>
     \/ /\ tmpLink' = NoSlot
        /\ file' = [file EXCEPT ![NewSlot] = Gone]
        /\ Fail
  /\ UNCHANGED <<slot, lastCrc, link, busVars>>

SwapLink ==
  /\ At("rename")
  /\ \/ /\ link' = tmpLink
        /\ Goto("unlink") /\ UNCHANGED latest
     \/ Fail /\ UNCHANGED link
  /\ tmpLink' = NoSlot
  /\ UNCHANGED <<slot, lastCrc, file, busVars>>

\* Mutant: the slot is changed before the old path is built.
OldSlot_AfterSwap == 1 - slot
OldSlot == slot

DropOld ==
  /\ At("unlink")
  /\ file' = [file EXCEPT ![OldSlot] = Gone]
  /\ slot' = NewSlot /\ lastCrc' = job
  /\ Goto("notify")
  /\ UNCHANGED <<link, tmpLink, busVars, latest>>

Notify ==
  /\ At("notify")
  /\ sticky' = job /\ mail' = Append(mail, job)
  /\ Return
  /\ UNCHANGED <<slot, lastCrc, diskVars, latest>>

(* The process ends; the bytes its socket has taken may still arrive.      *)
Respawn ==
  /\ life < MaxLives /\ life' = life + 1
  /\ started' \in BOOLEAN
  /\ pending' = NoImage /\ worker' = "idle" /\ job' = NoImage
  /\ slot' = 0 /\ lastCrc' = NoImage
  /\ sticky' = NoImage
  /\ \E n \in 0 .. Len(mail) :
       mail' = SubSeq(mail, 1, n)
  /\ latest' = NoImage /\ lost' = FALSE
  /\ UNCHANGED <<diskVars, arrivals>>

(* A reconnect repeats the cached CRC; what was on its way may be lost.    *)
Reconnect ==
  /\ sticky # NoImage
  /\ \E n \in 0 .. Len(mail) :
       /\ mail' = SubSeq(mail, 1, n) \o <<sticky>>
       /\ lost' = (lost \/ n < Len(mail))
  /\ Len(mail') =< MaxArrivals
  /\ UNCHANGED <<procVars, diskVars, sticky, latest, arrivals, life>>

WorkerStep ==
  Take \/ Decode \/ OpenSlot \/ WriteSlot \/ MakeTmpLink \/ SwapLink \/ DropOld \/ Notify

HookNext == (\E i \in Images : Arrive(i)) \/ WorkerStep \/ Respawn \/ Reconnect

-----------------------------------------------------------------------------
CoverTypeOK ==
  /\ started \in BOOLEAN
  /\ pending \in Images \cup {NoImage} /\ job \in Images \cup {NoImage}
  /\ worker \in Steps
  /\ slot \in Slots /\ lastCrc \in Images \cup {NoImage}
  /\ file \in [Slots -> Images \cup {Gone, Partial}]
  /\ link \in Slots \cup {NoSlot} /\ tmpLink \in Slots \cup {NoSlot}
  /\ sticky \in Images \cup {NoImage} /\ mail \in Seq(Images)
  /\ latest \in Images \cup {NoImage} /\ lost \in BOOLEAN
  /\ arrivals \in Nat /\ life \in Nat \ {0}

(***************************************************************************)
(* "COVERART_FILE is a symlink that always points to a fully-written file  *)
(* - readers never see a partial write" (coverart_hook.c:485-486).  A new  *)
(* life starts with slot 0 whatever the link names, and may write to the   *)
(* file behind it (coverart_hook.c:500).                                   *)
(***************************************************************************)
Readable == link # NoSlot => file[link] \in Images

(***************************************************************************)
(* The link names a whole picture over failed opens, short writes, failed  *)
(* links and renames, and a process that ends at any step: only a new life *)
(* before its first success breaks it, when the link is on slot 1          *)
(* (coverart_hook.c:500).                                                  *)
(***************************************************************************)
OnlyRespawnSpoils == ~Readable => life > 1 /\ lastCrc = NoImage /\ link = 1

(***************************************************************************)
(* The CRC the bus repeats is that of the picture behind the link, unless  *)
(* the worker is between the swap and the notification: a late subscriber  *)
(* never pairs an old picture number with a new picture for good           *)
(* (coverart_hook.c:553-563, 678-685).                                     *)
(***************************************************************************)
CachedIsOnDisk ==
  sticky # NoImage /\ worker \notin {"unlink", "notify"} =>
    link # NoSlot /\ file[link] = sticky

(***************************************************************************)
(* "only the most recent artwork matters" (coverart_hook.c:720-722): when  *)
(* the worker rests, what it has announced is the newest image, not one    *)
(* that was replaced while waiting.                                        *)
(***************************************************************************)
RestIsLatest ==
  worker = "idle" /\ pending = NoImage /\ latest # NoImage => sticky = latest

(***************************************************************************)
(* What makes the invariants above inductive.                              *)
(***************************************************************************)
Busy == worker # "idle"
Swapped == worker \in {"unlink", "notify"}

(* The image in hand; a process that has saved knows which slot is linked. *)
Hand ==
  /\ job = NoImage <=> ~Busy
  /\ worker \in {"open", "write", "link", "rename", "unlink"} => job # lastCrc
  /\ worker = "rename" => tmpLink = 1 - slot
  /\ worker \in {"link", "rename"} => file[1 - slot] = job

SlotIsLinked ==
  /\ lastCrc # NoImage /\ worker # "unlink" => link = slot
  /\ worker = "unlink" => link = 1 - slot /\ file[link] = job
  /\ worker = "notify" => lastCrc = job
  /\ lastCrc # NoImage /\ worker # "unlink" => file[link] = lastCrc
  /\ worker # "notify" => sticky = lastCrc
  /\ lastCrc = NoImage => slot = 0
  /\ lastCrc = NoImage /\ life = 1 /\ worker # "unlink" => link = NoSlot

(* What waits or is in hand last is the newest.                            *)
NewestAhead ==
  /\ pending # NoImage => started /\ latest = pending
  /\ pending = NoImage /\ Busy => latest = job
  /\ pending = NoImage /\ ~Busy /\ latest # NoImage => latest = lastCrc

CoverInv == CoverTypeOK /\ Hand /\ SlotIsLinked /\ NewestAhead /\ OnlyRespawnSpoils
=============================================================================
