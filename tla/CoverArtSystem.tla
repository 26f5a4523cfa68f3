--------------------------- MODULE CoverArtSystem ---------------------------
(***************************************************************************)
(* The cover art from the phone to the cluster: hook, files, bus, HMI.     *)
(* Of the bus only the sticky cover art frame is kept: it comes in order,  *)
(* may be lost with a connection, and is repeated by the next one.         *)
(***************************************************************************)
EXTENDS CoverArtView

vars == <<hookVars, viewVars>>

Init == HookInit /\ ViewInit

HookSide == HookNext /\ UNCHANGED viewVars
Listen   == Hear /\ UNCHANGED <<procVars, diskVars, sticky, histVars>>
ViewSide == (BusThread \/ HmiThread \/ NewTrack \/ ServiceUp \/ ReadPicture)
              /\ UNCHANGED hookVars

Next == HookSide \/ Listen \/ ViewSide

Spec == Init /\ [][Next]_vars

(***************************************************************************)
(* The worker and the two HMI threads run when they can, play positions    *)
(* come every second while music plays, and the cluster reads the file it  *)
(* is asked to.  Nothing obliges the phone to send images or tracks.       *)
(***************************************************************************)
Fairness ==
  /\ WF_vars(WorkerStep /\ UNCHANGED viewVars)
  /\ WF_vars(Listen)
  /\ WF_vars(BusThread /\ UNCHANGED hookVars)
  /\ WF_vars(HmiThread /\ UNCHANGED hookVars)
  /\ WF_vars(ReadPicture /\ UNCHANGED hookVars)

FairSpec == Spec /\ Fairness

-----------------------------------------------------------------------------
(***************************************************************************)
(* The cluster's open() may resolve the link before rename() swaps it and  *)
(* open its target after unlink(), or after another image was begun there: *)
(* then it finds no picture, or half of one (coverart_hook.c:540, 547).    *)
(* In a first life that has lost no number such a read is never the last:  *)
(* the newer number, with which the cluster is asked to read again, is     *)
(* still to be published, on its way, or being passed on                   *)
(* (coverart_hook.c:678-685, CoverArt.java:103).                           *)
(***************************************************************************)
NewerComes ==
  \/ worker \in {"unlink", "notify"}
  \/ \E k \in 1..Len(mail) : mail[k] # jCrc
  \/ bus.at # "idle"

BrokenReadRepeats ==
  life = 1 /\ ~lost /\ picture \in {Gone, Partial} =>
    NewerComes \/ asked \/ found # NotReading

(***************************************************************************)
(* The newest image gets to the cluster: over images replaced while they   *)
(* waited, a late service, lost frames and respawns, its number is shown   *)
(* in the end, and the picture with it -- in the first life, and if no     *)
(* connection was lost: all pictures have one path, so a read asked for    *)
(* the older of two may find the newer, and when the newer number is lost  *)
(* and the older image returns, it is not new (CoverArt.java:103).  Where  *)
(* a track event and a cover overlap nothing is promised: no lock orders   *)
(* the two threads (TerminalModeBapCombi$EventListener.java:55-70, 109-117). *)
(***************************************************************************)
LatestReachesCluster ==
  \A i \in Images :
    <>[](latest = i /\ hasTrack /\ service)
      => <>[](crossed \/ (shown.crc = i /\ (life = 1 /\ ~lost => picture = i)))

=============================================================================
