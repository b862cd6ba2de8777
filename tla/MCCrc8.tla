------------------------------- MODULE MCCrc8 -------------------------------
(***************************************************************************)
(* crc8_calculator against a reference: the sum is the remainder of a      *)
(* polynomial over GF(2), and that fixes which transmission errors the     *)
(* EC can notice.  A state is one buffer and one error pattern; Next walks *)
(* from a buffer to the errors that may strike it.                         *)
(***************************************************************************)
EXTENDS Crc8, FiniteSets

CONSTANTS
  MaxLen,     \* longest buffer enumerated
  Samples,    \* byte values a buffer is made of
  Patterns    \* error patterns xored into one byte

ASSUME SamplesAssumption ==
  /\ MaxLen \in Nat
  /\ Samples \subseteq BYTE
  /\ Patterns \subseteq BYTE \ {0}

VARIABLES
  buf,        \* the buffer the host sums
  at,         \* index of the struck byte; 0 before any error
  err         \* the pattern that struck it

MCPatterns == 1..255

mcvars == <<buf, at, err>>

Struck == [buf EXCEPT ![at] = XorByte(@, err)]

MCInit ==
  /\ buf \in UNION {[1..n -> Samples] : n \in 1..MaxLen}
  /\ at = 0
  /\ err = 0

Strike ==
  /\ at = 0
  /\ at' \in 1..Len(buf)
  /\ err' \in Patterns
  /\ UNCHANGED buf

MCSpec == MCInit /\ [][Strike]_mcvars

-----------------------------------------------------------------------------
(* Reference: x^n modulo x^8 + x^2 + x + 1, by repeated multiplication by x.*)
PowerOfX ==
  LET pow[n \in 0..8 * (MaxLen + 1)] ==
        IF n = 0 THEN 1
        ELSE LET p == pow[n - 1]
                 d == (2 * p) % 256
             IN  IF p >= 128 THEN XorByte(d, 7) ELSE d
  IN  pow

(* The exponents of the polynomial  buf[1] * x^(8 len) + message(x).        *)
Exponents(b) ==
  LET len == 8 * Len(b)
  IN  {<<"message", len - n>> : n \in {m \in 1..len : MessageBit(b, m) = 1}}
        \cup {<<"preload", len + j>> : j \in {i \in 0..7 : Bit(b[1], i) = 1}}

Remainder(b) ==
  LET odd(j) == Cardinality({e \in Exponents(b) : Bit(PowerOfX[e[2]], j) = 1}) % 2
      r(j)   == odd(j) * 2^j
  IN  r(0) + r(1) + r(2) + r(3) + r(4) + r(5) + r(6) + r(7)

(* crc8_calculator returns the remainder of the buffer, preceded by a copy  *)
(* of its own first byte, modulo x^8 + x^2 + x + 1, with bit 7 inverted.    *)
CrcIsRemainder == crc8_calculator(buf) = XorByte(Remainder(buf), 128)

(* An error confined to one byte after the first is always noticed by the   *)
(* EC's comparison: eight bits are a burst the polynomial cannot divide.    *)
LaterByteErrorsSeen ==
  at > 1 => crc8_calculator(Struck) # crc8_calculator(buf)

(* Because the register is preloaded with the first byte, an error there is *)
(* summed twice, x^8 apart; exactly one pattern, 0xFD, cancels itself out   *)
(* and is the only error of that byte the EC accepts.                       *)
FirstByteBlindSpot ==
  at = 1 => (crc8_calculator(Struck) = crc8_calculator(buf)) = (err = 253)
=============================================================================
