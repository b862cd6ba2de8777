--------------------------- MODULE MCEcFlashMisled --------------------------
(***************************************************************************)
(* The first program with its history on the small chip of MCEcFlash.      *)
(***************************************************************************)
EXTENDS MCEcFlash, EcFlashMisled
=============================================================================
