--------------------------- MODULE FirmwareUpdate ---------------------------
(***************************************************************************)
(* What an update of the controller promises about its main firmware,      *)
(* without host, frames or checksums: the image is held, emptied a sector  *)
(* at a time, filled block by block from the front, and let go of when it  *)
(* is worth starting.  An update may be abandoned and begun again at any   *)
(* time; what it left behind stays held.                                   *)
(***************************************************************************)
EXTENDS Naturals

CONSTANTS
  First, Last,  \* the main firmware is the blocks First..Last
  Sectors,      \* erase sectors, as sets of blocks
  Old,          \* what the image holds at first
  Blank         \* what an erased block holds

Image == First..Last

VARIABLES
  image,  \* what each block holds
  file,   \* what each block is to hold, the same all the time
  held    \* the controller stays in its boot block

updateVars == <<image, file, held>>

Init ==
  /\ image = Old
  /\ held = FALSE

(* The controller enters its boot block to be updated.                      *)
Hold ==
  /\ held' = TRUE
  /\ UNCHANGED <<image, file>>

(* A sector is emptied, whatever it holds, once everything before it is in. *)
Empty ==
  /\ held
  /\ \E s \in Sectors :
       /\ \A b \in Image : (\A x \in s : b < x) => image[b] = file[b]
       /\ image' = [b \in Image |-> IF b \in s THEN Blank ELSE image[b]]
  /\ UNCHANGED <<file, held>>

(* The next block is filled: every block before it is in already.           *)
Fill ==
  /\ held
  /\ \E b \in Image :
       /\ image[b] = Blank
       /\ \A a \in First..(b - 1) : image[a] = file[a]
       /\ image' = [image EXCEPT ![b] = file[b]]
  /\ UNCHANGED <<file, held>>

(* An untouched image is let go of, or one that is complete.                *)
Release ==
  /\ image \in {Old, file}
  /\ held' = FALSE
  /\ UNCHANGED <<image, file>>

Next == Hold \/ Empty \/ Fill \/ Release

Spec == Init /\ [][Next]_updateVars

(* What is not held in the boot block is a whole image.                     *)
WholeOrHeld == held \/ image \in {Old, file}
=============================================================================
