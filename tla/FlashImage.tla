----------------------------- MODULE FlashImage -----------------------------
(***************************************************************************)
(* What writing a file to a flash chip promises, without the interface to  *)
(* the chip, its write enable latch and the process that drives them: the  *)
(* room given to the image is emptied a sector at a time and filled byte   *)
(* by byte, both from the front, and once the image is said to be in, it   *)
(* is, and stays.  A write may be abandoned and begun again at any time;   *)
(* what it left behind is the front of the image, but for what the sector  *)
(* it was at held.                                                         *)
(***************************************************************************)
EXTENDS Naturals, Sequences

CONSTANTS
  CHIP,    \* bytes of the chip
  UNIT,    \* bytes of its sectors
  OldChip  \* what it holds at first

VARIABLES
  chip,   \* what each byte holds
  place,  \* where the image is to be, the same all the time
  room,   \* bytes given up for it, the same all the time
  image,  \* the bytes, the same all the time
  done    \* the image is in

imageVars == <<chip, place, room, image, done>>

Init ==
  /\ chip = OldChip
  /\ done = FALSE

(* The first n bytes of the image are in.                                   *)
In(n) == \A m \in 1..n : chip[place + m - 1] = image[m]

(* The sector that begins n bytes after the place is emptied, whatever it   *)
(* holds, once everything before it is in.                                  *)
Empty ==
  /\ ~done
  /\ \E n \in 0..Len(image) :
       /\ n + UNIT <= room
       /\ (place + n) % UNIT = 0
       /\ In(n)
       /\ chip' = [a \in 0..(CHIP - 1) |->
                     IF a \in (place + n)..(place + n + UNIT - 1) THEN 255 ELSE chip[a]]
  /\ UNCHANGED <<place, room, image, done>>

(* The next byte is stored where the chip is empty.                         *)
Fill ==
  /\ ~done
  /\ \E n \in 1..Len(image) :
       /\ n <= room
       /\ In(n - 1)
       /\ chip[place + n - 1] = 255
       /\ chip' = [chip EXCEPT ![place + n - 1] = image[n]]
  /\ UNCHANGED <<place, room, image, done>>

Finish ==
  /\ In(Len(image))
  /\ done' = TRUE
  /\ UNCHANGED <<chip, place, room, image>>

Next == Empty \/ Fill \/ Finish

Spec == Init /\ [][Next]_imageVars
=============================================================================
