----------------------------- MODULE MCCoverArt -----------------------------
(* The cover art for TLC: two images, so that one can replace, follow and  *)
(* repeat the other, and two lives of dio_manager.                         *)
EXTENDS CoverArtSystem

CONSTANTS imgA, imgB

TwoImages == {imgA, imgB}
=============================================================================
