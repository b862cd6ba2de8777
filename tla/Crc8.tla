-------------------------------- MODULE Crc8 --------------------------------
(***************************************************************************)
(* The block checksum of the EC flasher: crc8_calculator of ec_flash.c.    *)
(* The embedded controller computes the same sum over its 32-byte buffer   *)
(* (boot block 0x1880, main firmware 0x39A8), so one definition serves     *)
(* both ends.  Bytes are 0..255; a buffer is a non-empty sequence of them. *)
(***************************************************************************)
EXTENDS Naturals, Sequences

BYTE == 0..255

Bit(x, j) == (x \div 2^j) % 2

(* x ^ y, for any two bytes.                                                *)
XorByte(x, y) ==
  LET b(j) == ((Bit(x, j) + Bit(y, j)) % 2) * 2^j
  IN  b(0) + b(1) + b(2) + b(3) + b(4) + b(5) + b(6) + b(7)

(* x ^ 0x07: the three low bits are complemented, the others kept.          *)
XorPoly(x) == (x - (x % 8)) + (7 - (x % 8))

(* Mutant of ShiftIn: the polynomial is never folded in.                    *)
ShiftInPlain == [crc \in BYTE |-> [bit \in 0..1 |-> ((2 * crc) % 256) + bit]]

(* One turn of the bit loop: the register shifts left, the next message bit *)
(* comes in at the right, and a one leaving at the left folds 0x07 in.      *)
ShiftIn ==
  [crc \in BYTE |-> [bit \in 0..1 |->
     LET shifted == ((2 * crc) % 256) + bit
     IN  IF crc >= 128 THEN XorPoly(shifted) ELSE shifted]]

(* Bit n of the message, n = 1 being the most significant of the first byte.*)
MessageBit(buf, n) ==
  (buf[((n - 1) \div 8) + 1] \div 2^(7 - ((n - 1) % 8))) % 2

(* Mutant of Register: it starts at zero.                                   *)
RegisterFromZero(buf) ==
  LET reg[n \in 0..8 * Len(buf)] ==
        IF n = 0 THEN 0 ELSE ShiftIn[reg[n - 1]][MessageBit(buf, n)]
  IN  reg

(* The register after n bits of the buffer; it starts as the first byte.    *)
Register(buf) ==
  LET reg[n \in 0..8 * Len(buf)] ==
        IF n = 0 THEN buf[1] ELSE ShiftIn[reg[n - 1]][MessageBit(buf, n)]
  IN  reg

(* crc8_calculator(buf, len): the register has taken in every bit of the    *)
(* buffer, the first byte included, and is xored with 0x80.                 *)
crc8_calculator(buf) == (Register(buf)[8 * Len(buf)] + 128) % 256
=============================================================================
