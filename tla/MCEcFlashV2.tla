---------------------------- MODULE MCEcFlashV2 -----------------------------
(***************************************************************************)
(* The second program on the small chip of MCEcFlash.                      *)
(***************************************************************************)
EXTENDS MCEcFlash, EcFlashV2Misled

ShortAndProper == {RomOf(n) : n \in {0, 1, ROM_SIZE}} \cup {TreacherousRom}

(* Also asking for nothing, and without a file.                             *)
IdleLines == NidLines \cup {{"-d", "-nid", "rom"}, {"-nid"}}
=============================================================================
