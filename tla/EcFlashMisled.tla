---------------------------- MODULE EcFlashMisled ---------------------------
(***************************************************************************)
(* What one byte of sum and one byte of status cannot promise.  A data     *)
(* frame the controller misses puts it out of step with the program: it    *)
(* fills its buffer with what is left of a block and takes a frame of the  *)
(* next sending for the sum.  Whatever the file holds, that matches for    *)
(* one block number in 256, and the mixture is programmed.  And when no    *)
(* frame of a block arrives, the READY of the block before is taken for    *)
(* its own.                                                                *)
(*                                                                         *)
(* The history variable misled remembers that one of the two has happened. *)
(* It restricts nothing; the properties say that nothing less does harm.   *)
(***************************************************************************)
EXTENDS EcFlash

VARIABLE misled   \* controller or program took something for what it is not

misledVars == <<vars, misled>>

(* A frame is taken for the sum of the frames before it and matches, but is *)
(* not the one the program sends for a sum or they are not its block.       *)
Mixture(block) ==
  /\ idx = P /\ idx' = 0 /\ status' = CHECKING
  /\ CrcOf(buf') = crc'
  /\ ~(pc = "crc" /\ buf' = block)

(* The sending of a block is over, the program is going to ask about it,    *)
(* and the controller has not noticed.                                      *)
Unheard == pc = "crc" /\ pc' = "poll" /\ status' = READY

Remembered(block) == misled' = (misled \/ Mixture(block) \/ Unheard)

MisledInit == Init /\ misled = FALSE

MisledSpec == MisledInit /\ [][Next /\ Remembered(FileBlock(Current))]_misledVars

MisledRetrying == MisledSpec /\ Fairness /\ WF_vars(Start)
-----------------------------------------------------------------------------
(* As long as neither is misled, frames may be lost, calls fail, processes  *)
(* die and power go away as they like, and no block of the chip holds       *)
(* anything but what it held, nothing, or its block of the file.            *)
ForeignOnlyMisled == misled \/ NoForeignBlock

(* Nor is the program the controller executes ever written, given sleeps    *)
(* that suffice: frames that do not arrive leave the address, which the     *)
(* countdown to the jump looks at, where the program thinks it is.          *)
RunningKeptUnlessMisled ==
  [][\/ misled'
     \/ /\ mode = "boot" => BootBlockKept
        /\ mode = "main" => MainKept]_misledVars

(* Nor does the marker go before all but the last block of the main         *)
(* firmware is in.                                                          *)
MarkerGuardsUnlessMisled ==
  [][\/ misled'
     \/ (rom.size = ROM_SIZE /\ marker /\ ~marker') =>
          AllOld \/ \A b \in BASE..(MARKER - 2) : flash[b] = FileBlock(b)]_misledVars
=============================================================================
