------------------------------ MODULE MCEcFlash -----------------------------
(***************************************************************************)
(* A small chip for TLC: twelve blocks of two frames, sectors of two       *)
(* blocks, in the order of the real one: boot block, main firmware, marker *)
(* sector, EC EEPROM, system EEPROM.                                       *)
(***************************************************************************)
EXTENDS EcFlashInvariant

MCSectors == {0, 2, 4, 6, 8, 10}

(* The first byte of the main firmware, 0x3F, names the controller.         *)
Content(tag, b) ==
  [j \in 1..P |-> IF b = BASE /\ j = 1 THEN <<63, tag>>
                  ELSE <<(64 * tag + 4 * b + j) % 256, (37 * b + 11 * j + tag) % 256>>]

MCOldImage ==
  [b \in 0..(ROM_SIZE - 1) |->
     IF b \in MARKER..(EEPROM1 - 1) THEN Blank ELSE Content(1, b)]

RomOf(size) == [size |-> size, data |-> [b \in 0..(size - 1) |-> Content(2, b)]]

(* A file for which the sums of mixtures match: those of what is sent again *)
(* from its second frame on (blocks 1 and 3, when they have the number 1),  *)
(* those of a sum without data before it (blocks 0 and 2, number 0).  Block *)
(* 4 is blank, so all of its frames are alike.                              *)
TreacherousBlock(b) ==
  CASE b = 0 -> <<<<129, 20>>, <<21, 30>>>>
    [] b = 1 -> <<<<133, 30>>, <<30, 67>>>>
    [] b = 2 -> <<<<63, 40>>, <<41, 78>>>>
    [] b = 3 -> <<<<141, 50>>, <<51, 55>>>>
    [] b = 4 -> Blank
    [] OTHER -> Content(2, b)

ASSUME TreacherousAssumption ==
  /\ \A b \in {1, 3} :
       LET block == TreacherousBlock(b)
       IN  CrcOf(<<block[2], <<CrcOf(block), 1>>>>) = block[1][1]
  /\ \A b \in {0, 2} :
       LET block == TreacherousBlock(b)
       IN  CrcOf(<<<<CrcOf(block), 0>>, block[1]>>) = block[2][1]

TreacherousRom ==
  [size |-> ROM_SIZE, data |-> [b \in 0..(ROM_SIZE - 1) |-> TreacherousBlock(b)]]

ProperRom == {RomOf(ROM_SIZE)}
AnyRoms   == {RomOf(n) : n \in {0, 1, 9, ROM_SIZE, ROM_SIZE + 2}} \cup {TreacherousRom}

Line(options, file) == options \cup {file}

PlainLines == {Line(o, "rom") : o \in {{}, {"-bbl"}}}
(* With a file name that cannot be opened, and without any.                 *)
AllLines   == PlainLines \cup {{"ROM"}, {"-bbl"}}
NidLines   == {Line({"-nid"} \cup o, "rom") : o \in {{}, {"-bbl"}}}
EraseLines == {Line(o, "rom") : o \in SUBSET {"-e1", "-e2"}}

(* One bit of either byte flipped.                                          *)
OneBitFlipped(f) ==
  { <<(f[1] + 128) % 256, f[2]>>,
    <<f[1], IF f[2] % 2 = 0 THEN f[2] + 1 ELSE f[2] - 1>> }
=============================================================================
