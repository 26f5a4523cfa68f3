------------------------------- MODULE MCIap -------------------------------
(***************************************************************************)
(* The two halves of the cover art hook's reading side for TLC.  The       *)
(* descriptors and the images of one stream share no state: a behaviour    *)
(* takes the steps of one of them, so the reachable states are those of    *)
(* each.  Threads, descriptors and sessions are symmetric.                 *)
(***************************************************************************)
EXTENDS IapDescriptors, ImageStream, TLC

BothInit == Init /\ ImageInit

DescriptorStep == Next /\ ImageInit /\ UNCHANGED imageVars
ImageStep      == ImageNext /\ Init /\ UNCHANGED vars

BothSpec == BothInit /\ [][DescriptorStep \/ ImageStep]_<<vars, imageVars>>

Symmetry == Permutations(Threads) \cup Permutations(Fds)
              \cup Permutations(Sessions)
=============================================================================
