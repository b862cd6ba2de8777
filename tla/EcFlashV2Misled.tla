--------------------------- MODULE EcFlashV2Misled --------------------------
(***************************************************************************)
(* The second program with the history variable of EcFlashMisled.  It puts *)
(* the controller out of step by itself: a write that fails in mid-block   *)
(* ends the block early, and its sum follows in the place of data.         *)
(***************************************************************************)
EXTENDS EcFlashMisled, EcFlashV2

MisledSpec2 == MisledInit /\ [][Next2 /\ Remembered(FileBlock2(Current))]_misledVars

(* As long as neither is misled, blocks are programmed with a block of the  *)
(* file from a whole number of laps away, although failing writes and lost  *)
(* frames put program and controller out of step in the middle of a block.  *)
WholeLapsUnlessMisled == misled \/ WholeLapsOnly
=============================================================================
