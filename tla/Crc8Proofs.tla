----------------------------- MODULE Crc8Proofs -----------------------------
(***************************************************************************)
(* What the block checksum is and which transmission errors it notices,    *)
(* for blocks of any length.  The register is linear in the buffer, so an  *)
(* error in one byte leaves a difference that goes through the register by *)
(* itself; and each bit the register takes in raises the powers of x it is *)
(* the sum of, so it ends as the remainder of the whole.                   *)
(***************************************************************************)
EXTENDS MCCrc8, FiniteSetTheorems, TLAPS

(* Induction, stated of sets: the provers cannot instantiate a theorem that *)
(* has an operator for a parameter.                                         *)
LEMMA LeastElement ==
  ASSUME NEW T, T \subseteq Nat, T # {}
  PROVE  \E x \in T : \A y \in T : ~(y < x)
<1> DEFINE R == OpToRel(<, Nat)
<1>1. IsWellFoundedOn(R, Nat)
  BY NatLessThanWellFounded
<1>2. \A y \in Nat, x \in Nat : <<y, x>> \in R <=> y < x
  BY DEF OpToRel
<1> HIDE DEF R
<1>3. \E x \in T : \A y \in T : <<y, x>> \notin R
  BY <1>1, WFMin
<1> QED  BY <1>2, <1>3

LEMMA Induction ==
  ASSUME NEW T, NEW m \in Nat, m \in T, \A n \in Nat : m <= n /\ n \in T => n + 1 \in T
  PROVE  \A n \in Nat : m <= n => n \in T
<1> DEFINE F == {n \in Nat : m <= n /\ n \notin T}
<1>1. SUFFICES ASSUME F # {} PROVE FALSE
  OBVIOUS
<1>2. PICK x \in F : \A y \in F : ~(y < x)
  BY <1>1, LeastElement
<1>3. x - 1 \in Nat /\ m <= x - 1
  BY <1>2
<1>4. x - 1 \in T
  BY <1>2, <1>3
<1> QED  BY <1>2, <1>3, <1>4
-----------------------------------------------------------------------------
(* Bytes as their bits.                                                     *)
Bits == [0..7 -> 0..1]

Value(b) ==
  b[0] + 2 * b[1] + 4 * b[2] + 8 * b[3] + 16 * b[4] + 32 * b[5] + 64 * b[6] + 128 * b[7]

BitsOf(x) == [j \in 0..7 |-> Bit(x, j)]

Sum(a, b) == [j \in 0..7 |-> (a[j] + b[j]) % 2]

LEMMA Powers ==
  /\ 2^0 = 1 /\ 2^1 = 2 /\ 2^2 = 4 /\ 2^3 = 8
  /\ 2^4 = 16 /\ 2^5 = 32 /\ 2^6 = 64 /\ 2^7 = 128
  OBVIOUS

LEMMA BitIs ==
  ASSUME NEW x \in Nat
  PROVE  /\ Bit(x, 0) = x % 2 /\ Bit(x, 1) = (x \div 2) % 2
         /\ Bit(x, 2) = (x \div 4) % 2 /\ Bit(x, 3) = (x \div 8) % 2
         /\ Bit(x, 4) = (x \div 16) % 2 /\ Bit(x, 5) = (x \div 32) % 2
         /\ Bit(x, 6) = (x \div 64) % 2 /\ Bit(x, 7) = (x \div 128) % 2
  BY Powers DEF Bit

LEMMA BitType == ASSUME NEW x \in BYTE PROVE BitsOf(x) \in Bits
<1>1. x \in Nat /\ \A j \in 0..7 : j \in {0, 1, 2, 3, 4, 5, 6, 7}
  BY DEF BYTE
<1>2. /\ x % 2 \in 0..1 /\ (x \div 2) % 2 \in 0..1 /\ (x \div 4) % 2 \in 0..1
      /\ (x \div 8) % 2 \in 0..1 /\ (x \div 16) % 2 \in 0..1 /\ (x \div 32) % 2 \in 0..1
      /\ (x \div 64) % 2 \in 0..1 /\ (x \div 128) % 2 \in 0..1
  BY <1>1
<1>3. /\ Bit(x, 0) \in 0..1 /\ Bit(x, 1) \in 0..1 /\ Bit(x, 2) \in 0..1 /\ Bit(x, 3) \in 0..1
      /\ Bit(x, 4) \in 0..1 /\ Bit(x, 5) \in 0..1 /\ Bit(x, 6) \in 0..1 /\ Bit(x, 7) \in 0..1
  BY <1>1, <1>2, BitIs, Zenon
<1>4. \A j \in 0..7 : Bit(x, j) \in 0..1
  BY <1>1, <1>3
<1> QED  BY <1>4 DEF BitsOf, Bits

LEMMA ValueOfBits == ASSUME NEW x \in BYTE PROVE Value(BitsOf(x)) = x
<1>1. x \in Nat /\ x < 256
  BY DEF BYTE
<1>2. /\ x = 2 * (x \div 2) + (x % 2)
      /\ x \div 2 = 2 * (x \div 4) + ((x \div 2) % 2)
      /\ x \div 4 = 2 * (x \div 8) + ((x \div 4) % 2)
      /\ x \div 8 = 2 * (x \div 16) + ((x \div 8) % 2)
      /\ x \div 16 = 2 * (x \div 32) + ((x \div 16) % 2)
      /\ x \div 32 = 2 * (x \div 64) + ((x \div 32) % 2)
      /\ x \div 64 = 2 * (x \div 128) + ((x \div 64) % 2)
      /\ x \div 128 = (x \div 128) % 2
  BY <1>1
<1>3. /\ x \div 2 \in Nat /\ x \div 4 \in Nat /\ x \div 8 \in Nat /\ x \div 16 \in Nat
      /\ x \div 32 \in Nat /\ x \div 64 \in Nat /\ x \div 128 \in Nat
  BY <1>1
<1>4. Value(BitsOf(x)) = Bit(x, 0) + 2 * Bit(x, 1) + 4 * Bit(x, 2) + 8 * Bit(x, 3)
                         + 16 * Bit(x, 4) + 32 * Bit(x, 5) + 64 * Bit(x, 6) + 128 * Bit(x, 7)
  BY DEF Value, BitsOf
<1>5. /\ Bit(x, 0) = x % 2 /\ Bit(x, 1) = (x \div 2) % 2 /\ Bit(x, 2) = (x \div 4) % 2
      /\ Bit(x, 3) = (x \div 8) % 2 /\ Bit(x, 4) = (x \div 16) % 2 /\ Bit(x, 5) = (x \div 32) % 2
      /\ Bit(x, 6) = (x \div 64) % 2 /\ Bit(x, 7) = (x \div 128) % 2
  BY <1>1, BitIs
<1>6. /\ x = 2 * (x \div 2) + Bit(x, 0)
      /\ x \div 2 = 2 * (x \div 4) + Bit(x, 1)
      /\ x \div 4 = 2 * (x \div 8) + Bit(x, 2)
      /\ x \div 8 = 2 * (x \div 16) + Bit(x, 3)
      /\ x \div 16 = 2 * (x \div 32) + Bit(x, 4)
      /\ x \div 32 = 2 * (x \div 64) + Bit(x, 5)
      /\ x \div 64 = 2 * (x \div 128) + Bit(x, 6)
      /\ x \div 128 = Bit(x, 7)
  BY <1>2, <1>5
<1>7. /\ Bit(x, 0) \in 0..1 /\ Bit(x, 1) \in 0..1 /\ Bit(x, 2) \in 0..1 /\ Bit(x, 3) \in 0..1
      /\ Bit(x, 4) \in 0..1 /\ Bit(x, 5) \in 0..1 /\ Bit(x, 6) \in 0..1 /\ Bit(x, 7) \in 0..1
  BY BitType DEF BitsOf, Bits
<1>8. PICK d2, d4, d8, d16, d32, d64 \in Nat :
        /\ d2 = x \div 2 /\ d4 = x \div 4 /\ d8 = x \div 8
        /\ d16 = x \div 16 /\ d32 = x \div 32 /\ d64 = x \div 64
  BY <1>3
<1>9. PICK b0, b1, b2, b3, b4, b5, b6, b7 \in 0..1 :
        /\ b0 = Bit(x, 0) /\ b1 = Bit(x, 1) /\ b2 = Bit(x, 2) /\ b3 = Bit(x, 3)
        /\ b4 = Bit(x, 4) /\ b5 = Bit(x, 5) /\ b6 = Bit(x, 6) /\ b7 = Bit(x, 7)
  BY <1>7
<1>10. /\ x = 2 * d2 + b0 /\ d2 = 2 * d4 + b1 /\ d4 = 2 * d8 + b2 /\ d8 = 2 * d16 + b3
       /\ d16 = 2 * d32 + b4 /\ d32 = 2 * d64 + b5 /\ d64 = 2 * b7 + b6
  BY <1>6, <1>8, <1>9
<1>11. b0 + 2 * b1 + 4 * b2 + 8 * b3 + 16 * b4 + 32 * b5 + 64 * b6 + 128 * b7 = x
  BY <1>1, <1>10
<1> QED  BY <1>4, <1>9, <1>11

LEMMA BitsOfValue == ASSUME NEW b \in Bits PROVE Value(b) \in BYTE /\ BitsOf(Value(b)) = b
<1>1. b \in [0..7 -> 0..1]
  BY DEF Bits
<1>2. Value(b) \in BYTE /\ \A j \in 0..7 : Bit(Value(b), j) = b[j]
  BY <1>1, BitIs DEF BYTE, Value
<1> QED  BY <1>1, <1>2 DEF BitsOf

(* Exclusive or adds bit by bit.                                            *)
LEMMA SumType == ASSUME NEW a \in Bits, NEW b \in Bits PROVE Sum(a, b) \in Bits
<1>1. \A j \in 0..7 : (a[j] + b[j]) % 2 \in 0..1
  BY DEF Bits
<1> QED  BY <1>1 DEF Sum, Bits

LEMMA XorIsSum ==
  ASSUME NEW a \in Bits, NEW b \in Bits
  PROVE  XorByte(Value(a), Value(b)) = Value(Sum(a, b))
<1>1. /\ \A j \in 0..7 : Bit(Value(a), j) = a[j]
      /\ \A j \in 0..7 : Bit(Value(b), j) = b[j]
  <2>1. BitsOf(Value(a)) = a /\ BitsOf(Value(b)) = b
    BY BitsOfValue
  <2> QED  BY <2>1 DEF BitsOf
<1>2. XorByte(Value(a), Value(b)) =
        ((a[0] + b[0]) % 2) * 1 + ((a[1] + b[1]) % 2) * 2 + ((a[2] + b[2]) % 2) * 4
        + ((a[3] + b[3]) % 2) * 8 + ((a[4] + b[4]) % 2) * 16 + ((a[5] + b[5]) % 2) * 32
        + ((a[6] + b[6]) % 2) * 64 + ((a[7] + b[7]) % 2) * 128
  BY <1>1, Powers DEF XorByte
<1>3. Sum(a, b) \in Bits /\ \A j \in 0..7 : Sum(a, b)[j] = (a[j] + b[j]) % 2
  BY SumType DEF Sum
<1>4. \A j \in 0..7 : (a[j] + b[j]) % 2 \in Nat
  BY DEF Bits
<1> QED  BY <1>2, <1>3, <1>4 DEF Value

LEMMA XorType ==
  ASSUME NEW x \in BYTE, NEW y \in BYTE
  PROVE  /\ XorByte(x, y) \in BYTE
         /\ BitsOf(XorByte(x, y)) = Sum(BitsOf(x), BitsOf(y))
<1>1. BitsOf(x) \in Bits /\ BitsOf(y) \in Bits
  BY BitType
<1>2. XorByte(x, y) = Value(Sum(BitsOf(x), BitsOf(y)))
  BY <1>1, XorIsSum, ValueOfBits
<1> QED  BY <1>1, <1>2, SumType, BitsOfValue

(* One turn of the bit loop, of any register and bit.                       *)
Turn(crc, bit) ==
  LET shifted == ((2 * crc) % 256) + bit
  IN  IF crc >= 128 THEN XorPoly(shifted) ELSE shifted

LEMMA TurnIs ==
  ASSUME NEW crc \in BYTE, NEW bit \in 0..1
  PROVE  ShiftIn[crc][bit] = Turn(crc, bit)
  BY DEF ShiftIn, Turn

(* Bytes are the same when their difference is nothing.                     *)
LEMMA XorZero ==
  ASSUME NEW x \in BYTE, NEW y \in BYTE
  PROVE  XorByte(x, y) = 0 <=> x = y
<1>1. BitsOf(x) \in Bits /\ BitsOf(y) \in Bits
  BY BitType
<1>2. BitsOf(0) = [j \in 0..7 |-> 0]
  <2>1. Bit(0, 0) = 0 /\ Bit(0, 1) = 0 /\ Bit(0, 2) = 0 /\ Bit(0, 3) = 0
        /\ Bit(0, 4) = 0 /\ Bit(0, 5) = 0 /\ Bit(0, 6) = 0 /\ Bit(0, 7) = 0
    BY BitIs
  <2>2. \A j \in 0..7 : j = 0 \/ j = 1 \/ j = 2 \/ j = 3 \/ j = 4 \/ j = 5 \/ j = 6 \/ j = 7
    OBVIOUS
  <2> QED  BY <2>1, <2>2 DEF BitsOf
<1>3. 0 \in BYTE
  BY DEF BYTE
<1>4. XorByte(x, y) = 0 <=> BitsOf(XorByte(x, y)) = BitsOf(0)
  BY <1>3, XorType, ValueOfBits
<1>5. BitsOf(x) = BitsOf(y) <=> x = y
  BY ValueOfBits
<1>6. Sum(BitsOf(x), BitsOf(y)) = [j \in 0..7 |-> 0] <=> BitsOf(x) = BitsOf(y)
  <2>1. ASSUME NEW a \in Bits, NEW b \in Bits
        PROVE  Sum(a, b) = [j \in 0..7 |-> 0] <=> a = b
    <3>1. \A j \in 0..7 : (a[j] + b[j]) % 2 = 0 <=> a[j] = b[j]
      BY DEF Bits
    <3>2. Sum(a, b) = [j \in 0..7 |-> 0] <=> \A j \in 0..7 : (a[j] + b[j]) % 2 = 0
      BY DEF Sum
    <3>3. a = b <=> \A j \in 0..7 : a[j] = b[j]
      BY DEF Bits
    <3> QED  BY <3>1, <3>2, <3>3
  <2> QED  BY <1>1, <2>1
<1> QED  BY <1>2, <1>4, <1>5, <1>6, XorType
-----------------------------------------------------------------------------
(* A bit taken in.                                                          *)
Taken(a, bit) ==
  [j \in 0..7 |-> IF j = 0 THEN (bit + a[7]) % 2
                  ELSE IF j \in {1, 2} THEN (a[j - 1] + a[7]) % 2 ELSE a[j - 1]]

LEMMA TakenBits ==
  ASSUME NEW a, NEW bit
  PROVE  /\ Taken(a, bit)[0] = (bit + a[7]) % 2
         /\ Taken(a, bit)[1] = (a[0] + a[7]) % 2
         /\ Taken(a, bit)[2] = (a[1] + a[7]) % 2
         /\ \A j \in 3..7 : Taken(a, bit)[j] = a[j - 1]
         /\ Taken(a, bit)[3] = a[2] /\ Taken(a, bit)[4] = a[3] /\ Taken(a, bit)[5] = a[4]
         /\ Taken(a, bit)[6] = a[5] /\ Taken(a, bit)[7] = a[6]
         /\ DOMAIN Taken(a, bit) = 0..7
  BY DEF Taken

LEMMA TakenType == ASSUME NEW a \in Bits, NEW bit \in 0..1 PROVE Taken(a, bit) \in Bits
<1>1. \A j \in 0..7 : a[j] \in 0..1
  BY DEF Bits
<1>2. ASSUME NEW j \in 0..7 PROVE Taken(a, bit)[j] \in 0..1
  <2>1. /\ (bit + a[7]) % 2 \in 0..1
        /\ (a[0] + a[7]) % 2 \in 0..1
        /\ (a[1] + a[7]) % 2 \in 0..1
    BY <1>1, \A y \in Nat : y % 2 \in 0..1
  <2>2. CASE j \in 3..7
    <3>1. Taken(a, bit)[j] = a[j - 1]
      BY <2>2, TakenBits
    <3> QED  BY <1>1, <2>2, <3>1
  <2>3. j \in {0, 1, 2} \/ j \in 3..7
    OBVIOUS
  <2>4. /\ Taken(a, bit)[0] \in 0..1
        /\ Taken(a, bit)[1] \in 0..1
        /\ Taken(a, bit)[2] \in 0..1
    BY <2>1, TakenBits, Zenon
  <2> QED  BY <2>2, <2>3, <2>4
<1>3. Taken(a, bit) = [j \in 0..7 |-> Taken(a, bit)[j]]
  BY DEF Taken
<1> QED  BY <1>2, <1>3 DEF Bits

LEMMA ShiftIsTaken ==
  ASSUME NEW a \in Bits, NEW bit \in 0..1
  PROVE  Turn(Value(a), bit) = Value(Taken(a, bit))
<1>1. /\ a[0] \in 0..1 /\ a[1] \in 0..1 /\ a[2] \in 0..1 /\ a[3] \in 0..1
      /\ a[4] \in 0..1 /\ a[5] \in 0..1 /\ a[6] \in 0..1 /\ a[7] \in 0..1
  BY DEF Bits
<1>2. Value(Taken(a, bit)) =
        ((bit + a[7]) % 2) + 2 * ((a[0] + a[7]) % 2) + 4 * ((a[1] + a[7]) % 2) + 8 * a[2]
        + 16 * a[3] + 32 * a[4] + 64 * a[5] + 128 * a[6]
  BY TakenBits DEF Value
<1> DEFINE low == 8 * a[2] + 16 * a[3] + 32 * a[4] + 64 * a[5] + 128 * a[6]
           shifted == bit + 2 * a[0] + 4 * a[1] + low
<1>3. Value(a) \in BYTE /\ ((2 * Value(a)) % 256) + bit = shifted /\ (Value(a) >= 128 <=> a[7] = 1)
  BY <1>1 DEF Value, BYTE
<1>4. shifted % 8 = bit + 2 * a[0] + 4 * a[1]
  BY <1>1
<1>5. Turn(Value(a), bit) = IF a[7] = 1 THEN XorPoly(shifted) ELSE shifted
  BY <1>3 DEF Turn
<1>6. shifted \in Nat /\ low \in Nat
  BY <1>1
<1> HIDE DEF low
<1>7. CASE a[7] = 0
  BY <1>1, <1>2, <1>5, <1>6, <1>7 DEF low
<1>8. CASE a[7] = 1
  <2>1. XorPoly(shifted) = low + 7 - (bit + 2 * a[0] + 4 * a[1])
    BY <1>1, <1>4, <1>6 DEF XorPoly
  <2>2. /\ (bit + 1) % 2 = 1 - bit /\ (a[0] + 1) % 2 = 1 - a[0] /\ (a[1] + 1) % 2 = 1 - a[1]
    BY <1>1
  <2>3. Value(Taken(a, bit)) = 1 - bit + 2 * (1 - a[0]) + 4 * (1 - a[1]) + low
    BY <1>1, <1>2, <1>8, <2>2 DEF low
  <2> HIDE DEF shifted
  <2> QED  BY <1>1, <1>5, <1>6, <1>8, <2>1, <2>3
<1> QED  BY <1>1, <1>7, <1>8

LEMMA ShiftType == ASSUME NEW c \in BYTE, NEW bit \in 0..1 PROVE Turn(c, bit) \in BYTE
<1>1. BitsOf(c) \in Bits /\ Value(BitsOf(c)) = c
  BY BitType, ValueOfBits
<1>2. Turn(c, bit) = Value(Taken(BitsOf(c), bit))
  BY <1>1, ShiftIsTaken
<1> QED  BY <1>1, <1>2, TakenType, BitsOfValue

(* The register is linear: what goes on in two registers differs by what    *)
(* would go on in one that holds their difference.                          *)
LEMMA ShiftLinear ==
  ASSUME NEW c \in BYTE, NEW d \in BYTE, NEW e \in 0..1, NEW f \in 0..1
  PROVE  XorByte(Turn(c, e), Turn(d, f)) = Turn(XorByte(c, d), (e + f) % 2)
<1>1. ASSUME NEW a \in Bits, NEW b \in Bits
      PROVE  Sum(Taken(a, e), Taken(b, f)) = Taken(Sum(a, b), (e + f) % 2)
  <2>1. \A j \in 0..7 : a[j] \in 0..1 /\ b[j] \in 0..1
    BY DEF Bits
  <2>2. \A j \in 0..7 : Sum(a, b)[j] = (a[j] + b[j]) % 2
    BY DEF Sum
  <2> DEFINE g == (e + f) % 2
             s == Sum(a, b)
             left(j) == (Taken(a, e)[j] + Taken(b, f)[j]) % 2
             right(j) == Taken(s, g)[j]
  <2>3. left(0) = right(0)
    <3>1. left(0) = (((e + a[7]) % 2) + ((f + b[7]) % 2)) % 2
      BY TakenBits
    <3>2. right(0) = (g + s[7]) % 2
      BY TakenBits
    <3>3. s[7] = (a[7] + b[7]) % 2
      BY <2>2
    <3> HIDE DEF left, right, s
    <3> QED  BY <2>1, <3>1, <3>2, <3>3
  <2>4. left(1) = right(1)
    <3>1. left(1) = (((a[0] + a[7]) % 2) + ((b[0] + b[7]) % 2)) % 2
      BY TakenBits
    <3>2. right(1) = (s[0] + s[7]) % 2
      BY TakenBits
    <3>3. s[7] = (a[7] + b[7]) % 2 /\ s[0] = (a[0] + b[0]) % 2
      BY <2>2
    <3> HIDE DEF left, right, s
    <3> QED  BY <2>1, <3>1, <3>2, <3>3
  <2>5. left(2) = right(2)
    <3>1. left(2) = (((a[1] + a[7]) % 2) + ((b[1] + b[7]) % 2)) % 2
      BY TakenBits
    <3>2. right(2) = (s[1] + s[7]) % 2
      BY TakenBits
    <3>3. s[7] = (a[7] + b[7]) % 2 /\ s[1] = (a[1] + b[1]) % 2
      BY <2>2
    <3> HIDE DEF left, right, s
    <3> QED  BY <2>1, <3>1, <3>2, <3>3
  <2>6. ASSUME NEW j \in 3..7 PROVE left(j) = right(j)
    <3>1. left(j) = (a[j - 1] + b[j - 1]) % 2 /\ right(j) = s[j - 1]
      BY TakenBits
    <3> QED  BY <2>2, <3>1
  <2>7. \A j \in 0..7 : j \in {0, 1, 2} \/ j \in 3..7
    OBVIOUS
  <2>8. \A j \in 0..7 : left(j) = right(j)
    <3> HIDE DEF left, right
    <3> QED  BY <2>3, <2>4, <2>5, <2>6, <2>7
  <2>9. Sum(Taken(a, e), Taken(b, f)) = [j \in 0..7 |-> left(j)]
    BY DEF Sum
  <2>10. Taken(s, g) = [j \in 0..7 |-> right(j)]
    BY DEF Taken
  <2> HIDE DEF left, right
  <2>11. [j \in 0..7 |-> left(j)] = [j \in 0..7 |-> right(j)]
    BY <2>8
  <2> QED  BY <2>9, <2>10, <2>11
<1>2. PICK a \in Bits, b \in Bits : c = Value(a) /\ d = Value(b)
  BY BitType, ValueOfBits
<1>3. (e + f) % 2 \in 0..1
  OBVIOUS
<1>4. XorByte(Turn(c, e), Turn(d, f)) = Value(Sum(Taken(a, e), Taken(b, f)))
  BY <1>2, ShiftIsTaken, TakenType, XorIsSum
<1>5. Turn(XorByte(c, d), (e + f) % 2) = Value(Taken(Sum(a, b), (e + f) % 2))
  BY <1>2, <1>3, ShiftIsTaken, SumType, XorIsSum
<1> QED  BY <1>1, <1>4, <1>5

LEMMA ShiftZero ==
  /\ Turn(0, 0) = 0
  /\ \A c \in BYTE : Turn(c, 0) = 0 => c = 0
  /\ \A c \in 0..127, bit \in 0..1 : Turn(c, bit) = 2 * c + bit
<1>1. \A c \in 0..127, bit \in 0..1 : Turn(c, bit) = 2 * c + bit
  BY DEF Turn
<1>2. ASSUME NEW c \in 128..255 PROVE Turn(c, 0) # 0
  <2>1. Turn(c, 0) = XorPoly(2 * c - 256)
    BY DEF Turn
  <2>2. PICK y \in Nat : y = 2 * c - 256 /\ y % 2 = 0
    <3>1. 2 * c - 256 \in Nat /\ (2 * c - 256) % 2 = 0
      OBVIOUS
    <3> QED  BY <3>1
  <2>3. y - (y % 8) + (7 - (y % 8)) # 0
    <3>1. y - (y % 8) \in Nat /\ y % 8 \in 0..7
      BY <2>2
    <3>2. y % 8 # 7
      BY <2>2
    <3> QED  BY <2>2, <3>1, <3>2
  <2> QED  BY <2>1, <2>2, <2>3 DEF XorPoly
<1> QED  BY <1>1, <1>2 DEF BYTE
-----------------------------------------------------------------------------
(* The register of a buffer: a byte after every bit.                        *)
Buffers == {b \in Seq(BYTE) : Len(b) > 0}

Place(n) == ((n - 1) \div 8) + 1

Weight(n) == 7 - ((n - 1) % 8)

LEMMA PlaceType ==
  ASSUME NEW len \in Nat, NEW n \in 1..8 * len
  PROVE  Place(n) \in 1..len /\ Weight(n) \in 0..7 /\ n = 8 * Place(n) - Weight(n)
  BY DEF Place, Weight

LEMMA MessageType ==
  ASSUME NEW b \in Buffers, NEW n \in 1..8 * Len(b)
  PROVE  /\ MessageBit(b, n) = Bit(b[Place(n)], Weight(n))
         /\ MessageBit(b, n) \in 0..1
<1>1. MessageBit(b, n) = Bit(b[Place(n)], Weight(n))
  BY DEF MessageBit, Bit, Place, Weight
<1>2. Len(b) \in Nat /\ b \in [1..Len(b) -> BYTE]
  BY DEF Buffers
<1>3. b[Place(n)] \in BYTE /\ Weight(n) \in 0..7
  BY <1>2, PlaceType
<1>4. BitsOf(b[Place(n)]) \in [0..7 -> 0..1]
  BY <1>3, BitType DEF Bits
<1> QED  BY <1>1, <1>3, <1>4 DEF BitsOf

LEMMA RegisterType ==
  ASSUME NEW b \in Buffers
  PROVE  /\ Register(b) \in [0..8 * Len(b) -> BYTE]
         /\ Register(b)[0] = b[1]
         /\ \A n \in 1..8 * Len(b) :
              Register(b)[n] = Turn(Register(b)[n - 1], MessageBit(b, n))
<1>1. Len(b) \in Nat \ {0} /\ b[1] \in BYTE
  BY DEF Buffers
<1> DEFINE N == 8 * Len(b)
           Runs(r, m) == /\ r \in [0..m -> BYTE]
                         /\ r[0] = b[1]
                         /\ \A n \in 1..m : r[n] = Turn(r[n - 1], MessageBit(b, n))
           T == {m \in Nat : m <= N => \E r \in [0..m -> BYTE] : Runs(r, m)}
<1>2. 0 \in T
  <2>1. Runs([n \in 0..0 |-> b[1]], 0)
    BY <1>1
  <2> QED  BY <2>1
<1>3. ASSUME NEW m \in Nat, m \in T PROVE m + 1 \in T
  <2>1. SUFFICES ASSUME m + 1 <= N PROVE \E r \in [0..m + 1 -> BYTE] : Runs(r, m + 1)
    OBVIOUS
  <2>2. PICK r : Runs(r, m)
    BY <1>1, <1>3, <2>1
  <2> DEFINE s == [n \in 0..m + 1 |-> IF n <= m THEN r[n] ELSE Turn(r[m], MessageBit(b, m + 1))]
  <2>3. Turn(r[m], MessageBit(b, m + 1)) \in BYTE
    <3>1. m + 1 \in 1..8 * Len(b) /\ r[m] \in BYTE
      BY <1>1, <2>1, <2>2
    <3> QED  BY <3>1, MessageType, ShiftType
  <2>4. s \in [0..m + 1 -> BYTE] /\ s[0] = b[1]
    BY <2>2, <2>3
  <2>5. ASSUME NEW n \in 1..m + 1 PROVE s[n] = Turn(s[n - 1], MessageBit(b, n))
    <3>1. CASE n <= m
      BY <2>2, <3>1
    <3>2. CASE n = m + 1
      BY <2>2, <3>2
    <3> QED  BY <3>1, <3>2
  <2> QED  BY <2>4, <2>5
<1>4. PICK r : Runs(r, N)
  <2>1. \A m \in Nat : 0 <= m => m \in T
    <3> HIDE DEF T
    <3> QED  BY <1>2, <1>3, Induction
  <2>2. N \in Nat /\ N <= N
    BY <1>1
  <2> QED  BY <2>1, <2>2
<1> DEFINE F(q) == [n \in 0..N |-> IF n = 0 THEN b[1] ELSE ShiftIn[q[n - 1]][MessageBit(b, n)]]
<1>5. r = F(r)
  <2>1. ASSUME NEW n \in 0..N PROVE r[n] = F(r)[n]
    <3>1. CASE n = 0
      BY <1>4, <3>1
    <3>2. CASE n # 0
      <4>1. n \in 1..N /\ r[n - 1] \in BYTE
        BY <1>1, <1>4, <3>2
      <4>2. ShiftIn[r[n - 1]][MessageBit(b, n)] = Turn(r[n - 1], MessageBit(b, n))
        BY <4>1, MessageType, TurnIs
      <4> QED  BY <1>4, <3>2, <4>1, <4>2
    <3> QED  BY <3>1, <3>2
  <2>2. r = [n \in 0..N |-> r[n]]
    BY <1>4
  <2> QED  BY <2>1, <2>2
<1>6. Register(b) = CHOOSE q : q = F(q)
  BY DEF Register
<1>7. Register(b) = F(Register(b))
  BY <1>5, <1>6
<1> HIDE DEF F
<1>8. /\ DOMAIN Register(b) = 0..N
      /\ Register(b)[0] = b[1]
      /\ \A n \in 1..N : Register(b)[n] = ShiftIn[Register(b)[n - 1]][MessageBit(b, n)]
      /\ Register(b) = [n \in 0..N |-> Register(b)[n]]
  <2> DEFINE q == Register(b)
  <2>1. q = [n \in 0..N |-> IF n = 0 THEN b[1] ELSE ShiftIn[q[n - 1]][MessageBit(b, n)]]
    BY <1>7 DEF F
  <2>2. DOMAIN q = 0..N /\ \A n \in 0..N : q[n] = IF n = 0 THEN b[1] ELSE ShiftIn[q[n - 1]][MessageBit(b, n)]
    <3> HIDE DEF q
    <3> QED  BY <2>1
  <2>3. q = [n \in 0..N |-> q[n]]
    <3> HIDE DEF q
    <3> QED  BY <2>1
  <2> HIDE DEF q
  <2>4. /\ DOMAIN q = 0..N
        /\ q[0] = b[1]
        /\ \A n \in 1..N : q[n] = ShiftIn[q[n - 1]][MessageBit(b, n)]
    BY <1>1, <2>2
  <2> QED  BY <2>3, <2>4 DEF q
<1>9. \A n \in Nat : 0 <= n => n \in {m \in Nat : m <= N => Register(b)[m] \in BYTE}
  <2> DEFINE S == {m \in Nat : m <= N => Register(b)[m] \in BYTE}
  <2>1. 0 \in S
    BY <1>1, <1>8
  <2>2. ASSUME NEW m \in Nat, m \in S PROVE m + 1 \in S
    <3>1. SUFFICES ASSUME m + 1 <= N PROVE Register(b)[m + 1] \in BYTE
      OBVIOUS
    <3>2. m + 1 \in 1..N /\ Register(b)[m] \in BYTE /\ (m + 1) - 1 = m
      BY <1>1, <2>2, <3>1
    <3>3. Register(b)[m + 1] = ShiftIn[Register(b)[m]][MessageBit(b, m + 1)]
      BY <1>8, <3>2
    <3> QED  BY <3>2, <3>3, MessageType, ShiftType, TurnIs
  <2> HIDE DEF S
  <2>3. \A n \in Nat : 0 <= n => n \in S
    BY <2>1, <2>2, Induction
  <2> QED  BY <2>3 DEF S
<1>10. \A n \in 0..N : Register(b)[n] \in BYTE
  BY <1>1, <1>9
<1>11. [n \in 0..N |-> Register(b)[n]] \in [0..N -> BYTE]
  BY <1>10
<1>12. ASSUME NEW n \in 1..N
       PROVE  Register(b)[n] = Turn(Register(b)[n - 1], MessageBit(b, n))
  <2>1. n - 1 \in 0..N /\ MessageBit(b, n) \in 0..1
    BY <1>1, MessageType
  <2> QED  BY <1>8, <1>10, <2>1, TurnIs
<1> QED  BY <1>8, <1>11, <1>12

LEMMA SumIsByte ==
  ASSUME NEW b \in Buffers
  PROVE  crc8_calculator(b) \in BYTE
<1>1. 8 * Len(b) \in 0..8 * Len(b)
  BY DEF Buffers
<1>2. PICK x \in BYTE : x = Register(b)[8 * Len(b)]
  BY <1>1, RegisterType
<1>3. \A y \in BYTE : (y + 128) % 256 \in BYTE
  BY DEF BYTE
<1> QED  BY <1>2, <1>3 DEF crc8_calculator
-----------------------------------------------------------------------------
(* An error in one byte of a buffer, and the difference it makes to the     *)
(* register: it obeys the register's own law, with the bits of the error.   *)
StrikeAt(b, p, e) == [b EXCEPT ![p] = XorByte(@, e)]

Difference(b, p, e, n) == XorByte(Register(b)[n], Register(StrikeAt(b, p, e))[n])

ErrorBit(p, e, n) == IF Place(n) = p THEN Bit(e, Weight(n)) ELSE 0

LEMMA StrikeType ==
  ASSUME NEW b \in Buffers, NEW p \in 1..Len(b), NEW e \in BYTE
  PROVE  /\ StrikeAt(b, p, e) \in Buffers
         /\ Len(StrikeAt(b, p, e)) = Len(b)
         /\ StrikeAt(b, p, e)[p] = XorByte(b[p], e)
         /\ \A q \in 1..Len(b) \ {p} : StrikeAt(b, p, e)[q] = b[q]
<1>1. b \in [1..Len(b) -> BYTE] /\ Len(b) \in Nat \ {0}
  BY DEF Buffers
<1>2. XorByte(b[p], e) \in BYTE
  BY <1>1, XorType
<1>3. StrikeAt(b, p, e) \in [1..Len(b) -> BYTE]
  BY <1>1, <1>2 DEF StrikeAt
<1>4. StrikeAt(b, p, e) \in Seq(BYTE) /\ Len(StrikeAt(b, p, e)) = Len(b)
  BY <1>1, <1>3
<1> QED  BY <1>1, <1>4 DEF Buffers, StrikeAt

LEMMA DifferenceStep ==
  ASSUME NEW b \in Buffers, NEW p \in 1..Len(b), NEW e \in BYTE
  PROVE  /\ \A n \in 0..8 * Len(b) : Difference(b, p, e, n) \in BYTE
         /\ \A n \in 1..8 * Len(b) :
              /\ ErrorBit(p, e, n) \in 0..1
              /\ Difference(b, p, e, n) = Turn(Difference(b, p, e, n - 1), ErrorBit(p, e, n))
<1> DEFINE c == StrikeAt(b, p, e)
<1>1. c \in Buffers /\ Len(c) = Len(b)
  BY StrikeType
<1>2. /\ Register(b) \in [0..8 * Len(b) -> BYTE]
      /\ Register(c) \in [0..8 * Len(b) -> BYTE]
  BY <1>1, RegisterType
<1>3. \A n \in 0..8 * Len(b) : Difference(b, p, e, n) \in BYTE
  BY <1>2, XorType DEF Difference
<1>4. ASSUME NEW n \in 1..8 * Len(b)
      PROVE  /\ ErrorBit(p, e, n) \in 0..1
             /\ Difference(b, p, e, n) = Turn(Difference(b, p, e, n - 1), ErrorBit(p, e, n))
  <2> DEFINE u == MessageBit(b, n)
             v == MessageBit(c, n)
  <2>1. /\ u = Bit(b[Place(n)], Weight(n)) /\ u \in 0..1
        /\ v = Bit(c[Place(n)], Weight(n)) /\ v \in 0..1
    BY <1>1, MessageType
  <2>2. Place(n) \in 1..Len(b) /\ Weight(n) \in 0..7
    BY PlaceType DEF Buffers
  <2>3. ErrorBit(p, e, n) \in 0..1 /\ (u + v) % 2 = ErrorBit(p, e, n)
    <3>1. CASE Place(n) = p
      <4>1. b[p] \in BYTE
        BY DEF Buffers
      <4>2. v = Bit(XorByte(b[p], e), Weight(n))
        BY <2>1, <3>1, StrikeType
      <4>3. BitsOf(XorByte(b[p], e)) = Sum(BitsOf(b[p]), BitsOf(e)) /\ BitsOf(e) \in Bits
        BY <4>1, XorType, BitType
      <4>4. Bit(XorByte(b[p], e), Weight(n)) = (u + Bit(e, Weight(n))) % 2
        <5>1. Sum(BitsOf(b[p]), BitsOf(e))[Weight(n)] = (Bit(b[p], Weight(n)) + Bit(e, Weight(n))) % 2
          BY <2>2 DEF Sum, BitsOf
        <5>2. BitsOf(XorByte(b[p], e))[Weight(n)] = Bit(XorByte(b[p], e), Weight(n))
          BY <2>2 DEF BitsOf
        <5> QED  BY <2>1, <3>1, <4>3, <5>1, <5>2
      <4>5. Bit(e, Weight(n)) \in 0..1
        BY <2>2, <4>3 DEF BitsOf, Bits
      <4>6. ErrorBit(p, e, n) = Bit(e, Weight(n))
        BY <3>1 DEF ErrorBit
      <4>7. \A y, z \in 0..1 : (y + ((y + z) % 2)) % 2 = z
        OBVIOUS
      <4>8. (u + ((u + Bit(e, Weight(n))) % 2)) % 2 = Bit(e, Weight(n))
        <5> HIDE DEF u
        <5> QED  BY <2>1, <4>5, <4>7
      <4>9. v = (u + Bit(e, Weight(n))) % 2
        <5> HIDE DEF u, v
        <5> QED  BY <4>2, <4>4
      <4> HIDE DEF u, v
      <4> QED  BY <4>5, <4>6, <4>8, <4>9
    <3>2. CASE Place(n) # p
      <4>1. v = u
        <5>1. c[Place(n)] = b[Place(n)]
          BY <2>2, <3>2, StrikeType
        <5> HIDE DEF c
        <5> QED  BY <2>1, <5>1
      <4>2. ErrorBit(p, e, n) = 0
        BY <3>2 DEF ErrorBit
      <4> HIDE DEF u, v
      <4> QED  BY <2>1, <4>1, <4>2
    <3> QED  BY <3>1, <3>2
  <2>4. n - 1 \in 0..8 * Len(b)
    BY DEF Buffers
  <2>5. Register(b)[n - 1] \in BYTE /\ Register(c)[n - 1] \in BYTE
    BY <1>2, <2>4
  <2>6. Register(b)[n] = Turn(Register(b)[n - 1], u) /\ Register(c)[n] = Turn(Register(c)[n - 1], v)
    BY <1>1, RegisterType
  <2>7. XorByte(Turn(Register(b)[n - 1], u), Turn(Register(c)[n - 1], v))
          = Turn(XorByte(Register(b)[n - 1], Register(c)[n - 1]), (u + v) % 2)
    <3> HIDE DEF u, v, c
    <3> QED  BY <2>1, <2>5, ShiftLinear
  <2> QED  BY <2>3, <2>6, <2>7 DEF Difference
<1> QED  BY <1>3, <1>4

(* Where the message agrees, a difference neither comes nor goes.           *)
LEMMA DifferenceStays ==
  ASSUME NEW b \in Buffers, NEW p \in 1..Len(b), NEW e \in BYTE,
         NEW from \in 0..8 * Len(b), NEW to \in from..8 * Len(b),
         \A n \in from + 1..to : Place(n) # p
  PROVE  Difference(b, p, e, to) = 0 <=> Difference(b, p, e, from) = 0
<1> DEFINE d(n) == Difference(b, p, e, n)
           S == {n \in Nat : n <= to => (d(n) = 0 <=> d(from) = 0)}
<1>1. Len(b) \in Nat /\ from \in Nat /\ to \in Nat /\ from <= to
  BY DEF Buffers
<1>2. ASSUME NEW n \in Nat, from <= n, n \in S PROVE n + 1 \in S
  <2>1. SUFFICES ASSUME n + 1 <= to PROVE d(n + 1) = 0 <=> d(from) = 0
    OBVIOUS
  <2>2. n + 1 \in from + 1..to /\ n + 1 \in 1..8 * Len(b) /\ n \in 0..8 * Len(b) /\ (n + 1) - 1 = n
    BY <1>1, <1>2, <2>1
  <2>3. ErrorBit(p, e, n + 1) = 0
    BY <2>2 DEF ErrorBit
  <2>4. d(n + 1) = Turn(d(n), 0) /\ d(n) \in BYTE
    <3>1. /\ d(n + 1) = Turn(Difference(b, p, e, (n + 1) - 1), ErrorBit(p, e, n + 1))
          /\ d(n) \in BYTE
      BY <2>2, DifferenceStep
    <3> QED  BY <2>2, <2>3, <3>1
  <2>5. d(n + 1) = 0 <=> d(n) = 0
    <3> HIDE DEF d
    <3> QED  BY <2>4, ShiftZero
  <2> QED  BY <1>2, <2>1, <2>5
<1>3. from \in S
  BY <1>1
<1>4. \A n \in Nat : from <= n => n \in S
  <2> HIDE DEF S
  <2> QED  BY <1>1, <1>2, <1>3, Induction
<1> QED  BY <1>1, <1>4

(* The eight turns in which the struck byte comes in.                       *)
LEMMA StruckTurns ==
  ASSUME NEW b \in Buffers, NEW p \in 1..Len(b), NEW e \in BYTE, NEW m \in Nat, m = 8 * p - 8
  PROVE  /\ m \in 0..8 * Len(b) /\ m + 8 \in 0..8 * Len(b)
         /\ \A n \in 1..m : Place(n) # p
         /\ \A n \in m + 8 + 1..8 * Len(b) : Place(n) # p
         /\ Difference(b, p, e, m + 1) = Turn(Difference(b, p, e, m), Bit(e, 7))
         /\ Difference(b, p, e, m + 2) = Turn(Difference(b, p, e, m + 1), Bit(e, 6))
         /\ Difference(b, p, e, m + 3) = Turn(Difference(b, p, e, m + 2), Bit(e, 5))
         /\ Difference(b, p, e, m + 4) = Turn(Difference(b, p, e, m + 3), Bit(e, 4))
         /\ Difference(b, p, e, m + 5) = Turn(Difference(b, p, e, m + 4), Bit(e, 3))
         /\ Difference(b, p, e, m + 6) = Turn(Difference(b, p, e, m + 5), Bit(e, 2))
         /\ Difference(b, p, e, m + 7) = Turn(Difference(b, p, e, m + 6), Bit(e, 1))
         /\ Difference(b, p, e, m + 8) = Turn(Difference(b, p, e, m + 7), Bit(e, 0))
<1>1. Len(b) \in Nat /\ p \in Nat /\ p >= 1 /\ p <= Len(b) /\ m \in Nat
  BY DEF Buffers
<1>2. ASSUME NEW n \in 1..8 * Len(b) PROVE n <= m \/ n > m + 8 => Place(n) # p
  <2>1. Place(n) \in Nat /\ Weight(n) \in 0..7 /\ n = 8 * Place(n) - Weight(n)
    BY <1>1, PlaceType
  <2>2. SUFFICES ASSUME Place(n) = p PROVE ~(n <= m) /\ ~(n > m + 8)
    OBVIOUS
  <2>3. PICK w \in 0..7 : n = 8 * p - w
    BY <2>1, <2>2
  <2> QED  BY <1>1, <2>3
<1>3. ASSUME NEW k \in 0..7
      PROVE  Difference(b, p, e, m + k + 1) = Turn(Difference(b, p, e, m + k), Bit(e, 7 - k))
  <2>1. m + k + 1 \in 1..8 * Len(b) /\ (m + k + 1) - 1 = m + k
    BY <1>1
  <2>2. Place(m + k + 1) = p /\ Weight(m + k + 1) = 7 - k
    BY <1>1 DEF Place, Weight
  <2>3. ErrorBit(p, e, m + k + 1) = Bit(e, 7 - k)
    BY <2>2 DEF ErrorBit
  <2>4. Difference(b, p, e, m + k + 1)
          = Turn(Difference(b, p, e, (m + k + 1) - 1), ErrorBit(p, e, m + k + 1))
    BY <2>1, DifferenceStep
  <2> QED  BY <2>1, <2>3, <2>4
<1>4. m \in 0..8 * Len(b) /\ m + 8 \in 0..8 * Len(b)
  BY <1>1
<1>5. (\A n \in 1..m : Place(n) # p) /\ \A n \in m + 8 + 1..8 * Len(b) : Place(n) # p
  BY <1>1, <1>2
<1>6. /\ m + 0 + 1 = m + 1 /\ m + 1 + 1 = m + 2 /\ m + 2 + 1 = m + 3 /\ m + 3 + 1 = m + 4
      /\ m + 4 + 1 = m + 5 /\ m + 5 + 1 = m + 6 /\ m + 6 + 1 = m + 7 /\ m + 7 + 1 = m + 8
      /\ 7 - 0 = 7 /\ 7 - 1 = 6 /\ 7 - 2 = 5 /\ 7 - 3 = 4 /\ 7 - 4 = 3 /\ 7 - 5 = 2 /\ 7 - 6 = 1
      /\ 7 - 7 = 0 /\ m + 0 = m
  BY <1>1
<1>7. /\ Difference(b, p, e, m + 1) = Turn(Difference(b, p, e, m), Bit(e, 7))
      /\ Difference(b, p, e, m + 2) = Turn(Difference(b, p, e, m + 1), Bit(e, 6))
      /\ Difference(b, p, e, m + 3) = Turn(Difference(b, p, e, m + 2), Bit(e, 5))
      /\ Difference(b, p, e, m + 4) = Turn(Difference(b, p, e, m + 3), Bit(e, 4))
  BY <1>3, <1>6
<1>8. /\ Difference(b, p, e, m + 5) = Turn(Difference(b, p, e, m + 4), Bit(e, 3))
      /\ Difference(b, p, e, m + 6) = Turn(Difference(b, p, e, m + 5), Bit(e, 2))
      /\ Difference(b, p, e, m + 7) = Turn(Difference(b, p, e, m + 6), Bit(e, 1))
      /\ Difference(b, p, e, m + 8) = Turn(Difference(b, p, e, m + 7), Bit(e, 0))
  BY <1>3, <1>6
<1> QED  BY <1>4, <1>5, <1>7, <1>8

(* The sums of two buffers are the same when their registers end the same.  *)
LEMMA SumsDiffer ==
  ASSUME NEW b \in Buffers, NEW p \in 1..Len(b), NEW e \in BYTE
  PROVE  crc8_calculator(StrikeAt(b, p, e)) = crc8_calculator(b)
           <=> Difference(b, p, e, 8 * Len(b)) = 0
<1> DEFINE c == StrikeAt(b, p, e)
           x == Register(b)[8 * Len(b)]
           y == Register(c)[8 * Len(b)]
<1>1. c \in Buffers /\ Len(c) = Len(b)
  BY StrikeType
<1>2. x \in BYTE /\ y \in BYTE
  <2>1. 8 * Len(b) \in 0..8 * Len(b)
    BY DEF Buffers
  <2> HIDE DEF c
  <2> QED  BY <1>1, <2>1, RegisterType
<1>3. crc8_calculator(b) = (x + 128) % 256 /\ crc8_calculator(c) = (y + 128) % 256
  BY <1>1 DEF crc8_calculator
<1>4. \A u, v \in BYTE : (u + 128) % 256 = (v + 128) % 256 <=> u = v
  BY DEF BYTE
<1>5. Difference(b, p, e, 8 * Len(b)) = 0 <=> x = y
  BY <1>2, XorZero DEF Difference
<1> HIDE DEF x, y
<1> QED  BY <1>2, <1>3, <1>4, <1>5

(* Eight bits that come into an empty register make up a byte.              *)
LEMMA SmallShift ==
  ASSUME NEW c \in 0..127, NEW bit \in 0..1
  PROVE  Turn(c, bit) = 2 * c + bit
  BY ShiftZero

Front1(a) == a[7]
Front2(a) == 2 * Front1(a) + a[6]
Front3(a) == 2 * Front2(a) + a[5]
Front4(a) == 2 * Front3(a) + a[4]
Front5(a) == 2 * Front4(a) + a[3]
Front6(a) == 2 * Front5(a) + a[2]
Front7(a) == 2 * Front6(a) + a[1]

LEMMA ByteComesIn ==
  ASSUME NEW a \in Bits
  PROVE  /\ Turn(0, a[7]) = Front1(a)
         /\ Turn(Front1(a), a[6]) = Front2(a)
         /\ Turn(Front2(a), a[5]) = Front3(a)
         /\ Turn(Front3(a), a[4]) = Front4(a)
         /\ Turn(Front4(a), a[3]) = Front5(a)
         /\ Turn(Front5(a), a[2]) = Front6(a)
         /\ Turn(Front6(a), a[1]) = Front7(a)
         /\ Turn(Front7(a), a[0]) = Value(a)
<1>1. /\ a[0] \in 0..1 /\ a[1] \in 0..1 /\ a[2] \in 0..1 /\ a[3] \in 0..1
      /\ a[4] \in 0..1 /\ a[5] \in 0..1 /\ a[6] \in 0..1 /\ a[7] \in 0..1
  BY DEF Bits
<1>2. Front1(a) \in 0..1 /\ Turn(0, a[7]) = Front1(a)
  BY <1>1, SmallShift DEF Front1
<1>3. Front2(a) \in 0..3 /\ Turn(Front1(a), a[6]) = Front2(a)
  BY <1>1, <1>2, SmallShift DEF Front2
<1>4. Front3(a) \in 0..7 /\ Turn(Front2(a), a[5]) = Front3(a)
  BY <1>1, <1>3, SmallShift DEF Front3
<1>5. Front4(a) \in 0..15 /\ Turn(Front3(a), a[4]) = Front4(a)
  BY <1>1, <1>4, SmallShift DEF Front4
<1>6. Front5(a) \in 0..31 /\ Turn(Front4(a), a[3]) = Front5(a)
  BY <1>1, <1>5, SmallShift DEF Front5
<1>7. Front6(a) \in 0..63 /\ Turn(Front5(a), a[2]) = Front6(a)
  BY <1>1, <1>6, SmallShift DEF Front6
<1>8. Front7(a) \in 0..127 /\ Turn(Front6(a), a[1]) = Front7(a)
  BY <1>1, <1>7, SmallShift DEF Front7
<1>9. Turn(Front7(a), a[0]) = 2 * Front7(a) + a[0]
  BY <1>1, <1>8, SmallShift
<1>10. 2 * Front7(a) + a[0] = Value(a)
  BY <1>1 DEF Value, Front1, Front2, Front3, Front4, Front5, Front6, Front7
<1> QED  BY <1>2, <1>3, <1>4, <1>5, <1>6, <1>7, <1>8, <1>9, <1>10

(* An error beyond the first byte is all the register has to show for it    *)
(* when the byte has come in.                                               *)
LEMMA LaterDifference ==
  ASSUME NEW b \in Buffers, NEW p \in 2..Len(b), NEW e \in BYTE
  PROVE  Difference(b, p, e, 8 * p) = e
<1> DEFINE d(n) == Difference(b, p, e, n)
<1>1. PICK m \in Nat : m = 8 * p - 8
  BY DEF Buffers
<1>2. p \in 1..Len(b) /\ 1 \in 1..Len(b) \ {p} /\ b[1] \in BYTE /\ p \in Nat
  BY DEF Buffers
<1>3. d(0) = 0
  <2>1. Register(b)[0] = b[1] /\ Register(StrikeAt(b, p, e))[0] = b[1]
    BY <1>2, RegisterType, StrikeType
  <2> QED  BY <1>2, <2>1, XorZero DEF Difference
<1>4. /\ m \in 0..8 * Len(b)
      /\ \A n \in 1..m : Place(n) # p
      /\ d(m + 1) = Turn(d(m), Bit(e, 7))
      /\ d(m + 2) = Turn(d(m + 1), Bit(e, 6))
      /\ d(m + 3) = Turn(d(m + 2), Bit(e, 5))
      /\ d(m + 4) = Turn(d(m + 3), Bit(e, 4))
      /\ d(m + 5) = Turn(d(m + 4), Bit(e, 3))
      /\ d(m + 6) = Turn(d(m + 5), Bit(e, 2))
      /\ d(m + 7) = Turn(d(m + 6), Bit(e, 1))
      /\ d(m + 8) = Turn(d(m + 7), Bit(e, 0))
  BY <1>1, <1>2, StruckTurns
<1>5. d(m) = 0
  <2>1. 0 \in 0..8 * Len(b) /\ m \in 0..8 * Len(b) /\ 0 + 1 = 1
    BY <1>4
  <2> QED  BY <1>2, <1>3, <1>4, <2>1, DifferenceStays
<1> HIDE DEF d
<1>6. PICK a \in Bits : a = BitsOf(e) /\ Value(a) = e
  BY BitType, ValueOfBits
<1>7. /\ Bit(e, 0) = a[0] /\ Bit(e, 1) = a[1] /\ Bit(e, 2) = a[2] /\ Bit(e, 3) = a[3]
      /\ Bit(e, 4) = a[4] /\ Bit(e, 5) = a[5] /\ Bit(e, 6) = a[6] /\ Bit(e, 7) = a[7]
  BY <1>6 DEF BitsOf
<1>8. d(m + 8) = Value(a)
  <2>1. d(m + 1) = Turn(d(m), a[7]) /\ d(m + 2) = Turn(d(m + 1), a[6])
    BY <1>4, <1>7
  <2>2. d(m + 3) = Turn(d(m + 2), a[5]) /\ d(m + 4) = Turn(d(m + 3), a[4])
    BY <1>4, <1>7
  <2>3. d(m + 5) = Turn(d(m + 4), a[3]) /\ d(m + 6) = Turn(d(m + 5), a[2])
    BY <1>4, <1>7
  <2>4. d(m + 7) = Turn(d(m + 6), a[1]) /\ d(m + 8) = Turn(d(m + 7), a[0])
    BY <1>4, <1>7
  <2>5. d(m + 2) = Front2(a)
    BY <1>5, <2>1, ByteComesIn
  <2>6. d(m + 4) = Front4(a)
    BY <2>2, <2>5, ByteComesIn
  <2>7. d(m + 6) = Front6(a)
    BY <2>3, <2>6, ByteComesIn
  <2> QED  BY <2>4, <2>7, ByteComesIn
<1>9. m + 8 = 8 * p
  BY <1>1, <1>2
<1> QED  BY <1>6, <1>8, <1>9 DEF d

(* The first byte is in the register from the start and comes in again.     *)
LEMMA XorTwice ==
  ASSUME NEW x \in BYTE, NEW e \in BYTE
  PROVE  XorByte(x, XorByte(x, e)) = e
<1>1. PICK a \in Bits, b \in Bits : a = BitsOf(x) /\ b = BitsOf(e) /\ Value(b) = e
  BY BitType, ValueOfBits
<1>2. BitsOf(XorByte(x, XorByte(x, e))) = Sum(a, Sum(a, b))
  BY <1>1, XorType
<1>3. Sum(a, Sum(a, b)) = b
  <2>1. \A y, z \in 0..1 : (y + ((y + z) % 2)) % 2 = z
    OBVIOUS
  <2>2. \A j \in 0..7 : (a[j] + ((a[j] + b[j]) % 2)) % 2 = b[j]
    BY <2>1 DEF Bits
  <2>3. Sum(a, Sum(a, b)) = [j \in 0..7 |-> (a[j] + ((a[j] + b[j]) % 2)) % 2]
    BY DEF Sum
  <2> QED  BY <2>2, <2>3 DEF Bits
<1>4. XorByte(x, XorByte(x, e)) \in BYTE
  BY XorType
<1> QED  BY <1>1, <1>2, <1>3, <1>4, ValueOfBits

(* Whether a number of ones leaves a one.                                   *)
Odd(n) == n % 2

(* A byte that comes into a register which holds it: what is left is its    *)
(* product by x^8 + 1, which is x^2 + x.                                    *)

LEMMA TakenTwice ==
  ASSUME NEW a \in Bits
  PROVE  LET t1 == Taken(a, a[7])
             t2 == Taken(t1, a[6])
             t3 == Taken(t2, a[5])
             t4 == Taken(t3, a[4])
             t5 == Taken(t4, a[3])
             t6 == Taken(t5, a[2])
             t7 == Taken(t6, a[1])
             t8 == Taken(t7, a[0])
         IN  /\ t1 \in Bits /\ t2 \in Bits /\ t3 \in Bits /\ t4 \in Bits
             /\ t5 \in Bits /\ t6 \in Bits /\ t7 \in Bits /\ t8 \in Bits
             /\ t8[0] = Odd(a[6] + a[7])
             /\ t8[1] = Odd(a[0] + a[6])
             /\ t8[2] = Odd(a[0] + a[1] + a[6])
             /\ t8[3] = Odd(a[1] + a[2] + a[7])
             /\ t8[4] = Odd(a[2] + a[3])
             /\ t8[5] = Odd(a[3] + a[4])
             /\ t8[6] = Odd(a[4] + a[5])
             /\ t8[7] = Odd(a[5] + a[6])
<1> DEFINE t1 == Taken(a, a[7])
           t2 == Taken(t1, a[6])
           t3 == Taken(t2, a[5])
           t4 == Taken(t3, a[4])
           t5 == Taken(t4, a[3])
           t6 == Taken(t5, a[2])
           t7 == Taken(t6, a[1])
           t8 == Taken(t7, a[0])
<1>1. /\ a[0] \in 0..1 /\ a[1] \in 0..1 /\ a[2] \in 0..1 /\ a[3] \in 0..1
      /\ a[4] \in 0..1 /\ a[5] \in 0..1 /\ a[6] \in 0..1 /\ a[7] \in 0..1
  BY DEF Bits
<1>2. t1 \in Bits
  BY <1>1, TakenType
<1>3. t2 \in Bits
  <2> HIDE DEF t1
  <2> QED  BY <1>1, <1>2, TakenType
<1>4. t3 \in Bits
  <2> HIDE DEF t2
  <2> QED  BY <1>1, <1>3, TakenType
<1>5. t4 \in Bits
  <2> HIDE DEF t3
  <2> QED  BY <1>1, <1>4, TakenType
<1>6. t5 \in Bits
  <2> HIDE DEF t4
  <2> QED  BY <1>1, <1>5, TakenType
<1>7. t6 \in Bits
  <2> HIDE DEF t5
  <2> QED  BY <1>1, <1>6, TakenType
<1>8. t7 \in Bits
  <2> HIDE DEF t6
  <2> QED  BY <1>1, <1>7, TakenType
<1>9. t8 \in Bits
  <2> HIDE DEF t7
  <2> QED  BY <1>1, <1>8, TakenType
<1>10. /\ t1[0] = 0 /\ t1[1] = Odd(a[0] + a[7]) /\ t1[2] = Odd(a[1] + a[7]) /\ t1[3] = a[2]
      /\ t1[4] = a[3] /\ t1[5] = a[4] /\ t1[6] = a[5] /\ t1[7] = a[6]
  <2>1. /\ t1[0] = (a[7] + a[7]) % 2 /\ t1[1] = (a[0] + a[7]) % 2
        /\ t1[2] = (a[1] + a[7]) % 2
    BY TakenBits
  <2>2. /\ t1[3] = a[2] /\ t1[4] = a[3] /\ t1[5] = a[4] /\ t1[6] = a[5]
        /\ t1[7] = a[6]
    BY TakenBits
  <2>3. /\ (a[7] + a[7]) % 2 = 0 /\ (a[0] + a[7]) % 2 = Odd(a[0] + a[7])
        /\ (a[1] + a[7]) % 2 = Odd(a[1] + a[7])
    BY <1>1 DEF Odd
  <2> HIDE DEF t1
  <2> QED  BY <2>1, <2>2, <2>3
<1> HIDE DEF t1
<1>11. /\ t2[0] = 0 /\ t2[1] = a[6] /\ t2[2] = Odd(a[0] + a[7] + a[6]) /\ t2[3] = Odd(a[1] + a[7])
      /\ t2[4] = a[2] /\ t2[5] = a[3] /\ t2[6] = a[4] /\ t2[7] = a[5]
  <2>1. /\ t2[0] = (a[6] + t1[7]) % 2 /\ t2[1] = (t1[0] + t1[7]) % 2
        /\ t2[2] = (t1[1] + t1[7]) % 2
    BY TakenBits
  <2>2. /\ t2[3] = t1[2] /\ t2[4] = t1[3] /\ t2[5] = t1[4] /\ t2[6] = t1[5]
        /\ t2[7] = t1[6]
    BY TakenBits
  <2>3. /\ (a[6] + a[6]) % 2 = 0 /\ (0 + a[6]) % 2 = a[6]
        /\ (Odd(a[0] + a[7]) + a[6]) % 2 = Odd(a[0] + a[7] + a[6])
    BY <1>1 DEF Odd
  <2> HIDE DEF t2
  <2> QED  BY <1>10, <2>1, <2>2, <2>3
<1> HIDE DEF t2
<1>12. /\ t3[0] = 0 /\ t3[1] = a[5] /\ t3[2] = Odd(a[6] + a[5]) /\ t3[3] = Odd(a[0] + a[7] + a[6])
      /\ t3[4] = Odd(a[1] + a[7]) /\ t3[5] = a[2] /\ t3[6] = a[3] /\ t3[7] = a[4]
  <2>1. /\ t3[0] = (a[5] + t2[7]) % 2 /\ t3[1] = (t2[0] + t2[7]) % 2
        /\ t3[2] = (t2[1] + t2[7]) % 2
    BY TakenBits
  <2>2. /\ t3[3] = t2[2] /\ t3[4] = t2[3] /\ t3[5] = t2[4] /\ t3[6] = t2[5]
        /\ t3[7] = t2[6]
    BY TakenBits
  <2>3. /\ (a[5] + a[5]) % 2 = 0 /\ (0 + a[5]) % 2 = a[5]
        /\ (a[6] + a[5]) % 2 = Odd(a[6] + a[5])
    BY <1>1 DEF Odd
  <2> HIDE DEF t3
  <2> QED  BY <1>11, <2>1, <2>2, <2>3
<1> HIDE DEF t3
<1>13. /\ t4[0] = 0 /\ t4[1] = a[4] /\ t4[2] = Odd(a[5] + a[4]) /\ t4[3] = Odd(a[6] + a[5])
      /\ t4[4] = Odd(a[0] + a[7] + a[6]) /\ t4[5] = Odd(a[1] + a[7]) /\ t4[6] = a[2] /\ t4[7] = a[3]
  <2>1. /\ t4[0] = (a[4] + t3[7]) % 2 /\ t4[1] = (t3[0] + t3[7]) % 2
        /\ t4[2] = (t3[1] + t3[7]) % 2
    BY TakenBits
  <2>2. /\ t4[3] = t3[2] /\ t4[4] = t3[3] /\ t4[5] = t3[4] /\ t4[6] = t3[5]
        /\ t4[7] = t3[6]
    BY TakenBits
  <2>3. /\ (a[4] + a[4]) % 2 = 0 /\ (0 + a[4]) % 2 = a[4]
        /\ (a[5] + a[4]) % 2 = Odd(a[5] + a[4])
    BY <1>1 DEF Odd
  <2> HIDE DEF t4
  <2> QED  BY <1>12, <2>1, <2>2, <2>3
<1> HIDE DEF t4
<1>14. /\ t5[0] = 0 /\ t5[1] = a[3] /\ t5[2] = Odd(a[4] + a[3]) /\ t5[3] = Odd(a[5] + a[4])
      /\ t5[4] = Odd(a[6] + a[5]) /\ t5[5] = Odd(a[0] + a[7] + a[6]) /\ t5[6] = Odd(a[1] + a[7])
      /\ t5[7] = a[2]
  <2>1. /\ t5[0] = (a[3] + t4[7]) % 2 /\ t5[1] = (t4[0] + t4[7]) % 2
        /\ t5[2] = (t4[1] + t4[7]) % 2
    BY TakenBits
  <2>2. /\ t5[3] = t4[2] /\ t5[4] = t4[3] /\ t5[5] = t4[4] /\ t5[6] = t4[5]
        /\ t5[7] = t4[6]
    BY TakenBits
  <2>3. /\ (a[3] + a[3]) % 2 = 0 /\ (0 + a[3]) % 2 = a[3]
        /\ (a[4] + a[3]) % 2 = Odd(a[4] + a[3])
    BY <1>1 DEF Odd
  <2> HIDE DEF t5
  <2> QED  BY <1>13, <2>1, <2>2, <2>3
<1> HIDE DEF t5
<1>15. /\ t6[0] = 0 /\ t6[1] = a[2] /\ t6[2] = Odd(a[3] + a[2]) /\ t6[3] = Odd(a[4] + a[3])
      /\ t6[4] = Odd(a[5] + a[4]) /\ t6[5] = Odd(a[6] + a[5]) /\ t6[6] = Odd(a[0] + a[7] + a[6])
      /\ t6[7] = Odd(a[1] + a[7])
  <2>1. /\ t6[0] = (a[2] + t5[7]) % 2 /\ t6[1] = (t5[0] + t5[7]) % 2
        /\ t6[2] = (t5[1] + t5[7]) % 2
    BY TakenBits
  <2>2. /\ t6[3] = t5[2] /\ t6[4] = t5[3] /\ t6[5] = t5[4] /\ t6[6] = t5[5]
        /\ t6[7] = t5[6]
    BY TakenBits
  <2>3. /\ (a[2] + a[2]) % 2 = 0 /\ (0 + a[2]) % 2 = a[2]
        /\ (a[3] + a[2]) % 2 = Odd(a[3] + a[2])
    BY <1>1 DEF Odd
  <2> HIDE DEF t6
  <2> QED  BY <1>14, <2>1, <2>2, <2>3
<1> HIDE DEF t6
<1>16. /\ t7[0] = a[7] /\ t7[1] = Odd(a[1] + a[7]) /\ t7[2] = Odd(a[2] + a[1] + a[7])
      /\ t7[3] = Odd(a[3] + a[2]) /\ t7[4] = Odd(a[4] + a[3]) /\ t7[5] = Odd(a[5] + a[4])
      /\ t7[6] = Odd(a[6] + a[5]) /\ t7[7] = Odd(a[0] + a[7] + a[6])
  <2>1. /\ t7[0] = (a[1] + t6[7]) % 2 /\ t7[1] = (t6[0] + t6[7]) % 2 /\ t7[2] = (t6[1] + t6[7]) % 2
    BY TakenBits
  <2>2. /\ t7[3] = t6[2] /\ t7[4] = t6[3] /\ t7[5] = t6[4] /\ t7[6] = t6[5] /\ t7[7] = t6[6]
    BY TakenBits
  <2>3. /\ (a[1] + Odd(a[1] + a[7])) % 2 = a[7] /\ (0 + Odd(a[1] + a[7])) % 2 = Odd(a[1] + a[7])
        /\ (a[2] + Odd(a[1] + a[7])) % 2 = Odd(a[2] + a[1] + a[7])
    BY <1>1 DEF Odd
  <2> HIDE DEF t7
  <2> QED  BY <1>15, <2>1, <2>2, <2>3
<1> HIDE DEF t7
<1>17. /\ t8[0] = Odd(a[6] + a[7]) /\ t8[1] = Odd(a[0] + a[6]) /\ t8[2] = Odd(a[0] + a[1] + a[6])
       /\ t8[3] = Odd(a[1] + a[2] + a[7]) /\ t8[4] = Odd(a[2] + a[3]) /\ t8[5] = Odd(a[3] + a[4])
       /\ t8[6] = Odd(a[4] + a[5]) /\ t8[7] = Odd(a[5] + a[6])
  <2>1. /\ t8[0] = (a[0] + t7[7]) % 2 /\ t8[1] = (t7[0] + t7[7]) % 2 /\ t8[2] = (t7[1] + t7[7]) % 2
    BY TakenBits
  <2>2. /\ t8[3] = t7[2] /\ t8[4] = t7[3] /\ t8[5] = t7[4] /\ t8[6] = t7[5] /\ t8[7] = t7[6]
    BY TakenBits
  <2>3. /\ (a[0] + Odd(a[0] + a[7] + a[6])) % 2 = Odd(a[6] + a[7])
        /\ (a[7] + Odd(a[0] + a[7] + a[6])) % 2 = Odd(a[0] + a[6])
    BY <1>1 DEF Odd
  <2>4. (Odd(a[1] + a[7]) + Odd(a[0] + a[7] + a[6])) % 2 = Odd(a[0] + a[1] + a[6])
    BY <1>1 DEF Odd
  <2>5. /\ a[2] + a[1] + a[7] = a[1] + a[2] + a[7] /\ a[3] + a[2] = a[2] + a[3] /\ a[4] + a[3] = a[3] + a[4]
        /\ a[5] + a[4] = a[4] + a[5] /\ a[6] + a[5] = a[5] + a[6]
    BY <1>1
  <2> HIDE DEF t8
  <2> QED  BY <1>16, <2>1, <2>2, <2>3, <2>4, <2>5
<1> HIDE DEF t8
<1>18. /\ t1 \in Bits /\ t2 \in Bits /\ t3 \in Bits /\ t4 \in Bits
       /\ t5 \in Bits /\ t6 \in Bits /\ t7 \in Bits /\ t8 \in Bits
  BY <1>2, <1>3, <1>4, <1>5, <1>6, <1>7, <1>8, <1>9
<1> QED  BY <1>17, <1>18, Zenon DEF t1, t2, t3, t4, t5, t6, t7, t8

(* A byte is zero when its bits are.                                        *)
LEMMA ZeroValue ==
  ASSUME NEW b \in Bits
  PROVE  Value(b) = 0 <=> /\ b[0] = 0 /\ b[1] = 0 /\ b[2] = 0 /\ b[3] = 0
                          /\ b[4] = 0 /\ b[5] = 0 /\ b[6] = 0 /\ b[7] = 0
<1>1. /\ b[0] \in 0..1 /\ b[1] \in 0..1 /\ b[2] \in 0..1 /\ b[3] \in 0..1
      /\ b[4] \in 0..1 /\ b[5] \in 0..1 /\ b[6] \in 0..1 /\ b[7] \in 0..1
  BY DEF Bits
<1> QED  BY <1>1 DEF Value

(* One pattern cancels itself out: 253, all bits but the second.            *)
LEMMA Cancels ==
  ASSUME NEW a \in Bits
  PROVE  (/\ Odd(a[6] + a[7]) = 0
          /\ Odd(a[0] + a[6]) = 0
          /\ Odd(a[0] + a[1] + a[6]) = 0
          /\ Odd(a[1] + a[2] + a[7]) = 0
          /\ Odd(a[2] + a[3]) = 0
          /\ Odd(a[3] + a[4]) = 0
          /\ Odd(a[4] + a[5]) = 0
          /\ Odd(a[5] + a[6]) = 0) <=> Value(a) \in {0, 253}
<1>1. /\ a[0] \in 0..1 /\ a[1] \in 0..1 /\ a[2] \in 0..1 /\ a[3] \in 0..1
      /\ a[4] \in 0..1 /\ a[5] \in 0..1 /\ a[6] \in 0..1 /\ a[7] \in 0..1
  BY DEF Bits
<1>2. \A y, z \in 0..1 : Odd(y + z) = 0 <=> y = z
  BY DEF Odd
<1>3. a[0] = a[6] => (Odd(a[0] + a[1] + a[6]) = 0 <=> a[1] = 0)
  BY <1>1 DEF Odd
<1>4. a[1] = 0 => (Odd(a[1] + a[2] + a[7]) = 0 <=> a[2] = a[7])
  BY <1>1 DEF Odd
<1>5. Value(a) \in {0, 253} <=> /\ a[1] = 0 /\ a[0] = a[6] /\ a[2] = a[3] /\ a[3] = a[4]
                                /\ a[4] = a[5] /\ a[5] = a[6] /\ a[6] = a[7]
  BY <1>1 DEF Value
<1> QED  BY <1>1, <1>2, <1>3, <1>4, <1>5

(* What an error in the first byte leaves when the byte has come in.        *)
LEMMA FirstDifference ==
  ASSUME NEW b \in Buffers, NEW e \in BYTE
  PROVE  Difference(b, 1, e, 8) = 0 <=> e \in {0, 253}
<1> DEFINE d(n) == Difference(b, 1, e, n)
<1>1. 1 \in 1..Len(b) /\ b[1] \in BYTE
  BY DEF Buffers
<1>2. d(0) = e
  <2>1. Register(b)[0] = b[1] /\ Register(StrikeAt(b, 1, e))[0] = XorByte(b[1], e)
    BY <1>1, RegisterType, StrikeType
  <2> QED  BY <1>1, <2>1, XorTwice DEF Difference
<1>3. /\ d(1) = Turn(d(0), Bit(e, 7))
      /\ d(2) = Turn(d(1), Bit(e, 6))
      /\ d(3) = Turn(d(2), Bit(e, 5))
      /\ d(4) = Turn(d(3), Bit(e, 4))
      /\ d(5) = Turn(d(4), Bit(e, 3))
      /\ d(6) = Turn(d(5), Bit(e, 2))
      /\ d(7) = Turn(d(6), Bit(e, 1))
      /\ d(8) = Turn(d(7), Bit(e, 0))
  <2>1. PICK m \in Nat : m = 0 /\ m = 8 * 1 - 8
    OBVIOUS
  <2>2. /\ d(m + 1) = Turn(d(m), Bit(e, 7))
        /\ d(m + 2) = Turn(d(m + 1), Bit(e, 6))
        /\ d(m + 3) = Turn(d(m + 2), Bit(e, 5))
        /\ d(m + 4) = Turn(d(m + 3), Bit(e, 4))
        /\ d(m + 5) = Turn(d(m + 4), Bit(e, 3))
        /\ d(m + 6) = Turn(d(m + 5), Bit(e, 2))
        /\ d(m + 7) = Turn(d(m + 6), Bit(e, 1))
        /\ d(m + 8) = Turn(d(m + 7), Bit(e, 0))
    BY <1>1, <2>1, StruckTurns
  <2>3. /\ m = 0 /\ m + 1 = 1 /\ m + 2 = 2 /\ m + 3 = 3 /\ m + 4 = 4 /\ m + 5 = 5 /\ m + 6 = 6
        /\ m + 7 = 7 /\ m + 8 = 8
    BY <2>1
  <2> HIDE DEF d
  <2> QED  BY <2>2, <2>3
<1> HIDE DEF d
<1>4. PICK a \in Bits : a = BitsOf(e) /\ Value(a) = e
  BY BitType, ValueOfBits
<1>5. /\ Bit(e, 0) = a[0] /\ Bit(e, 1) = a[1] /\ Bit(e, 2) = a[2] /\ Bit(e, 3) = a[3]
      /\ Bit(e, 4) = a[4] /\ Bit(e, 5) = a[5] /\ Bit(e, 6) = a[6] /\ Bit(e, 7) = a[7]
  BY <1>4 DEF BitsOf
<1>6. /\ a[0] \in 0..1 /\ a[1] \in 0..1 /\ a[2] \in 0..1 /\ a[3] \in 0..1
      /\ a[4] \in 0..1 /\ a[5] \in 0..1 /\ a[6] \in 0..1 /\ a[7] \in 0..1
  BY DEF Bits
<1> DEFINE t1 == Taken(a, a[7])
           t2 == Taken(t1, a[6])
           t3 == Taken(t2, a[5])
           t4 == Taken(t3, a[4])
           t5 == Taken(t4, a[3])
           t6 == Taken(t5, a[2])
           t7 == Taken(t6, a[1])
           t8 == Taken(t7, a[0])
<1>7. /\ t1 \in Bits /\ t2 \in Bits /\ t3 \in Bits /\ t4 \in Bits
      /\ t5 \in Bits /\ t6 \in Bits /\ t7 \in Bits /\ t8 \in Bits
      /\ t8[0] = Odd(a[6] + a[7])
      /\ t8[1] = Odd(a[0] + a[6])
      /\ t8[2] = Odd(a[0] + a[1] + a[6])
      /\ t8[3] = Odd(a[1] + a[2] + a[7])
      /\ t8[4] = Odd(a[2] + a[3])
      /\ t8[5] = Odd(a[3] + a[4])
      /\ t8[6] = Odd(a[4] + a[5])
      /\ t8[7] = Odd(a[5] + a[6])
  BY TakenTwice, Zenon
<1> HIDE DEF t8
<1>8. d(8) = Value(t8)
  <2>1. /\ d(0) = Value(a) /\ d(1) = Turn(d(0), a[7]) /\ d(2) = Turn(d(1), a[6])
        /\ d(3) = Turn(d(2), a[5]) /\ d(4) = Turn(d(3), a[4])
    BY <1>2, <1>3, <1>4, <1>5
  <2>2. /\ d(5) = Turn(d(4), a[3]) /\ d(6) = Turn(d(5), a[2])
        /\ d(7) = Turn(d(6), a[1]) /\ d(8) = Turn(d(7), a[0])
    BY <1>3, <1>5
  <2>3. d(1) = Value(t1)
    <3>1. Turn(Value(a), a[7]) = Value(t1)
      BY <1>6, <1>7, ShiftIsTaken
    <3> QED  BY <2>1, <3>1
  <2> HIDE DEF t1
  <2>4. d(2) = Value(t2)
    <3>1. Turn(Value(t1), a[6]) = Value(t2)
      BY <1>6, <1>7, ShiftIsTaken
    <3> QED  BY <2>1, <3>1, <2>3
  <2> HIDE DEF t2
  <2>5. d(3) = Value(t3)
    <3>1. Turn(Value(t2), a[5]) = Value(t3)
      BY <1>6, <1>7, ShiftIsTaken
    <3> QED  BY <2>1, <3>1, <2>4
  <2> HIDE DEF t3
  <2>6. d(4) = Value(t4)
    <3>1. Turn(Value(t3), a[4]) = Value(t4)
      BY <1>6, <1>7, ShiftIsTaken
    <3> QED  BY <2>1, <3>1, <2>5
  <2> HIDE DEF t4
  <2>7. d(5) = Value(t5)
    <3>1. Turn(Value(t4), a[3]) = Value(t5)
      BY <1>6, <1>7, ShiftIsTaken
    <3> QED  BY <2>2, <3>1, <2>6
  <2> HIDE DEF t5
  <2>8. d(6) = Value(t6)
    <3>1. Turn(Value(t5), a[2]) = Value(t6)
      BY <1>6, <1>7, ShiftIsTaken
    <3> QED  BY <2>2, <3>1, <2>7
  <2> HIDE DEF t6
  <2>9. d(7) = Value(t7)
    <3>1. Turn(Value(t6), a[1]) = Value(t7)
      BY <1>6, <1>7, ShiftIsTaken
    <3> QED  BY <2>2, <3>1, <2>8
  <2> HIDE DEF t7
  <2>10. Turn(Value(t7), a[0]) = Value(t8)
    BY <1>6, <1>7, ShiftIsTaken DEF t8
  <2> QED  BY <2>2, <2>9, <2>10
<1> HIDE DEF t7
<1>9. Value(t8) = 0 <=> Value(a) \in {0, 253}
  BY <1>7, ZeroValue, Cancels
<1> QED  BY <1>4, <1>8, <1>9 DEF d
-----------------------------------------------------------------------------
(* An error in one byte of a buffer leaves the sum alone when the byte is   *)
(* the first and the error 253, and only then.                              *)
LEMMA StruckSum ==
  ASSUME NEW b \in Buffers, NEW p \in 1..Len(b), NEW e \in BYTE \ {0}
  PROVE  crc8_calculator(StrikeAt(b, p, e)) = crc8_calculator(b) <=> p = 1 /\ e = 253
<1>1. Len(b) \in Nat \ {0} /\ p \in Nat /\ p >= 1 /\ p <= Len(b)
  BY DEF Buffers
<1>2. PICK m \in Nat : m = 8 * p - 8
  BY <1>1
<1>3. m + 8 = 8 * p /\ m + 8 \in 0..8 * Len(b) /\ 8 * Len(b) \in m + 8..8 * Len(b)
  BY <1>1, <1>2
<1>4. \A n \in m + 8 + 1..8 * Len(b) : Place(n) # p
  BY <1>2, StruckTurns
<1>5. Difference(b, p, e, 8 * Len(b)) = 0 <=> Difference(b, p, e, m + 8) = 0
  BY <1>3, <1>4, DifferenceStays
<1>6. Difference(b, p, e, m + 8) = 0 <=> p = 1 /\ e = 253
  <2>1. CASE p = 1
    <3>1. m + 8 = 8
      BY <1>3, <2>1
    <3>2. Difference(b, 1, e, 8) = 0 <=> e = 253
      BY FirstDifference
    <3> QED  BY <2>1, <3>1, <3>2
  <2>2. CASE p # 1
    <3>1. p \in 2..Len(b)
      BY <1>1, <2>2
    <3> QED  BY <1>3, <2>2, <3>1, LaterDifference
  <2> QED  BY <2>1, <2>2
<1> QED  BY <1>5, <1>6, SumsDiffer

(* What the controller's comparison of two sums tells of two blocks that    *)
(* differ in one byte: they have the same sum when it is the first byte and *)
(* the difference is 253, and never otherwise.  crc8_calculator starts with *)
(* the first byte and then takes it in again.                               *)
THEOREM OneByteSeen ==
  ASSUME NEW b \in Buffers, NEW c \in Buffers, Len(c) = Len(b),
         NEW p \in 1..Len(b), c[p] # b[p], \A q \in 1..Len(b) \ {p} : c[q] = b[q]
  PROVE  crc8_calculator(c) = crc8_calculator(b) <=> p = 1 /\ XorByte(b[p], c[p]) = 253
<1> DEFINE e == XorByte(b[p], c[p])
<1>1. b[p] \in BYTE /\ c[p] \in BYTE
  BY DEF Buffers
<1>2. e \in BYTE /\ e # 0
  BY <1>1, XorType, XorZero
<1>3. XorByte(b[p], e) = c[p]
  BY <1>1, XorTwice
<1>4. c = StrikeAt(b, p, e)
  <2>1. StrikeAt(b, p, e) \in Buffers /\ Len(StrikeAt(b, p, e)) = Len(b)
    BY <1>2, StrikeType
  <2> HIDE DEF e
  <2>2. StrikeAt(b, p, e)[p] = c[p] /\ \A q \in 1..Len(b) \ {p} : StrikeAt(b, p, e)[q] = b[q]
    BY <1>2, <1>3, StrikeType
  <2>3. \A q \in 1..Len(b) : StrikeAt(b, p, e)[q] = c[q]
    BY <2>2
  <2> QED  BY <2>1, <2>3 DEF Buffers
<1> HIDE DEF e
<1>5. crc8_calculator(StrikeAt(b, p, e)) = crc8_calculator(b) <=> p = 1 /\ e = 253
  BY <1>2, StruckSum
<1> QED  BY <1>4, <1>5 DEF e
-----------------------------------------------------------------------------
(* What a state of MCCrc8 is: a buffer, and an error in one of its bytes    *)
(* once at is not zero.                                                     *)
SumInv ==
  /\ buf \in Buffers
  /\ Len(buf) <= MaxLen
  /\ at \in 0..Len(buf)
  /\ at > 0 => err \in BYTE \ {0}

LEMMA SumInvariant == MCSpec => []SumInv
<1>1. MCInit => SumInv
  <2>1. SUFFICES ASSUME MCInit PROVE SumInv
    OBVIOUS
  <2>2. PICK n \in 1..MaxLen : buf \in [1..n -> Samples]
    BY <2>1 DEF MCInit
  <2>3. n \in Nat \ {0} /\ buf \in [1..n -> BYTE]
    BY <2>2, SamplesAssumption
  <2>4. buf \in Seq(BYTE) /\ Len(buf) = n
    BY <2>3
  <2> QED  BY <2>1, <2>3, <2>4 DEF SumInv, MCInit, Buffers
<1>2. SumInv /\ [Strike]_mcvars => SumInv'
  <2>1. SUFFICES ASSUME SumInv, [Strike]_mcvars PROVE SumInv'
    OBVIOUS
  <2>2. CASE Strike
    <3>1. at' \in 0..Len(buf) /\ err' \in BYTE \ {0} /\ buf' = buf
      BY <2>1, <2>2, SamplesAssumption DEF Strike, SumInv, Buffers
    <3> QED  BY <2>1, <3>1 DEF SumInv
  <2>3. CASE UNCHANGED mcvars
    BY <2>1, <2>3 DEF SumInv, mcvars
  <2> QED  BY <2>1, <2>2, <2>3
<1> QED  BY <1>1, <1>2, PTL DEF MCSpec

LEMMA StruckIs ==
  ASSUME SumInv, at > 0
  PROVE  /\ buf \in Buffers /\ at \in 1..Len(buf) /\ err \in BYTE \ {0}
         /\ Struck = StrikeAt(buf, at, err)
<1>1. at \in 1..Len(buf)
  BY DEF SumInv, Buffers
<1> QED  BY <1>1 DEF SumInv, Struck, StrikeAt

(* Errors within one byte of a block, the first excepted, are noticed: the  *)
(* sum crc8_calculator makes of the struck block is not that of the block,  *)
(* whatever is in it and however long it is.                                *)
THEOREM LaterSeen == MCSpec => []LaterByteErrorsSeen
<1>1. SumInv => LaterByteErrorsSeen
  <2>1. SUFFICES ASSUME SumInv, at > 1 PROVE crc8_calculator(Struck) # crc8_calculator(buf)
    BY DEF LaterByteErrorsSeen
  <2>2. at # 1 /\ at > 0
    BY <2>1 DEF SumInv
  <2> QED  BY <2>1, <2>2, StruckIs, StruckSum
<1> QED  BY <1>1, SumInvariant, PTL

(* An error in the first byte, with which crc8_calculator starts and which  *)
(* it then takes in, is missed when its pattern is 253 and only then.       *)
THEOREM FirstMissed == MCSpec => []FirstByteBlindSpot
<1>1. SumInv => FirstByteBlindSpot
  <2>1. SUFFICES ASSUME SumInv, at = 1
                 PROVE  crc8_calculator(Struck) = crc8_calculator(buf) <=> err = 253
    BY DEF FirstByteBlindSpot
  <2> QED  BY <2>1, StruckIs, StruckSum
<1> QED  BY <1>1, SumInvariant, PTL
-----------------------------------------------------------------------------
(* The powers of x: each is the one before with a zero taken in.            *)
Top == 8 * (MaxLen + 1)

LEMMA FoldIsXor ==
  ASSUME NEW d \in BYTE
  PROVE  XorByte(d, 7) = XorPoly(d)
<1> DEFINE c == [j \in 0..7 |-> IF j \in 0..2 THEN 1 ELSE 0]
<1>1. PICK a \in Bits : d = Value(a)
  BY BitType, ValueOfBits
<1>2. /\ a[0] \in 0..1 /\ a[1] \in 0..1 /\ a[2] \in 0..1 /\ a[3] \in 0..1
      /\ a[4] \in 0..1 /\ a[5] \in 0..1 /\ a[6] \in 0..1 /\ a[7] \in 0..1
  BY DEF Bits
<1>3. c \in Bits /\ Value(c) = 7
  BY DEF Bits, Value
<1>4. XorByte(d, 7) = Value(Sum(a, c))
  BY <1>1, <1>3, XorIsSum
<1>5. Value(Sum(a, c)) = (1 - a[0]) + 2 * (1 - a[1]) + 4 * (1 - a[2]) + 8 * a[3] + 16 * a[4]
                         + 32 * a[5] + 64 * a[6] + 128 * a[7]
  <2>1. /\ Sum(a, c)[0] = (a[0] + 1) % 2 /\ Sum(a, c)[1] = (a[1] + 1) % 2 /\ Sum(a, c)[2] = (a[2] + 1) % 2
        /\ Sum(a, c)[3] = (a[3] + 0) % 2 /\ Sum(a, c)[4] = (a[4] + 0) % 2 /\ Sum(a, c)[5] = (a[5] + 0) % 2
        /\ Sum(a, c)[6] = (a[6] + 0) % 2 /\ Sum(a, c)[7] = (a[7] + 0) % 2
    BY DEF Sum
  <2>2. \A y \in 0..1 : (y + 1) % 2 = 1 - y /\ (y + 0) % 2 = y
    OBVIOUS
  <2> HIDE DEF c
  <2> QED  BY <1>2, <2>1, <2>2 DEF Value
<1>6. d - (d % 8) = 8 * a[3] + 16 * a[4] + 32 * a[5] + 64 * a[6] + 128 * a[7]
      /\ d % 8 = a[0] + 2 * a[1] + 4 * a[2]
  <2> DEFINE low  == a[0] + 2 * a[1] + 4 * a[2]
             high == a[3] + 2 * a[4] + 4 * a[5] + 8 * a[6] + 16 * a[7]
  <2>1. low \in 0..7 /\ high \in Nat
    BY <1>2
  <2>2. Value(a) = 8 * high + low
    BY <1>2 DEF Value
  <2>3. d = 8 * high + low
    BY <1>1, <2>2
  <2>4. 8 * high = 8 * a[3] + 16 * a[4] + 32 * a[5] + 64 * a[6] + 128 * a[7]
    BY <1>2
  <2>5. d % 8 = low /\ d - (d % 8) = 8 * high
    <3> HIDE DEF low, high
    <3> QED  BY <2>1, <2>3
  <2> QED  BY <2>4, <2>5
<1> HIDE DEF c
<1> QED  BY <1>2, <1>4, <1>5, <1>6 DEF XorPoly

Doubled(p) == IF p >= 128 THEN XorByte((2 * p) % 256, 7) ELSE (2 * p) % 256

LEMMA PowerNext ==
  /\ Top \in Nat /\ PowerOfX[0] = 1
  /\ \A k \in 0..Top : PowerOfX[k] \in BYTE
  /\ \A k \in 1..Top : PowerOfX[k] = Turn(PowerOfX[k - 1], 0)
<1>1. Top \in Nat
  BY SamplesAssumption DEF Top
<1> DEFINE Runs(r, m) == r \in [0..m -> BYTE] /\ r[0] = 1 /\ \A n \in 1..m : r[n] = Doubled(r[n - 1])
           T == {m \in Nat : \E r \in [0..m -> BYTE] : Runs(r, m)}
<1>2. \A p \in BYTE : Doubled(p) = Turn(p, 0) /\ Doubled(p) \in BYTE
  <2>1. ASSUME NEW p \in BYTE PROVE Doubled(p) = Turn(p, 0)
    <3>1. (2 * p) % 256 \in BYTE /\ ((2 * p) % 256) + 0 = (2 * p) % 256
      BY DEF BYTE
    <3> QED  BY <3>1, FoldIsXor DEF Turn, Doubled
  <2>2. 0 \in 0..1
    OBVIOUS
  <2>3. \A p \in BYTE : Turn(p, 0) \in BYTE
    BY <2>2, ShiftType, Zenon
  <2> QED  BY <2>1, <2>3, Zenon
<1>3. 1 \in BYTE
  BY DEF BYTE
<1>4. 0 \in T
  <2>1. Runs([n \in 0..0 |-> 1], 0)
    BY <1>3
  <2> QED  BY <2>1
<1>5. ASSUME NEW m \in Nat, m \in T PROVE m + 1 \in T
  <2>1. PICK r \in [0..m -> BYTE] : Runs(r, m)
    BY <1>5
  <2> DEFINE s == [n \in 0..m + 1 |-> IF n <= m THEN r[n] ELSE Doubled(r[m])]
  <2>2. s \in [0..m + 1 -> BYTE] /\ s[0] = 1
    BY <1>2, <2>1
  <2>3. ASSUME NEW n \in 1..m + 1 PROVE s[n] = Doubled(s[n - 1])
    <3>1. CASE n <= m
      BY <2>1, <3>1
    <3>2. CASE n = m + 1
      BY <2>1, <3>2
    <3> QED  BY <3>1, <3>2
  <2>4. Runs(s, m + 1)
    BY <2>2, <2>3
  <2> HIDE DEF s
  <2>5. \E q \in [0..m + 1 -> BYTE] : Runs(q, m + 1)
    BY <2>2, <2>4
  <2> QED  BY <2>5
<1>6. PICK r \in [0..Top -> BYTE] : Runs(r, Top)
  <2>1. \A m \in Nat : 0 <= m => m \in T
    <3> HIDE DEF T
    <3> QED  BY <1>4, <1>5, Induction
  <2>2. 0 <= Top
    BY <1>1
  <2>3. Top \in T
    <3> HIDE DEF T
    <3> QED  BY <1>1, <2>1, <2>2
  <2> QED  BY <2>3
<1> DEFINE F(q) == [n \in 0..Top |-> IF n = 0 THEN 1 ELSE Doubled(q[n - 1])]
<1>7. r = F(r)
  <2>1. \A n \in 0..Top : r[n] = F(r)[n]
    BY <1>1, <1>6
  <2>2. r = [n \in 0..Top |-> r[n]]
    BY <1>6
  <2> QED  BY <2>1, <2>2
<1>8. PowerOfX = CHOOSE q : q = F(q)
  BY DEF PowerOfX, Doubled, Top
<1>9. PowerOfX = F(PowerOfX)
  BY <1>7, <1>8
<1>10. /\ PowerOfX[0] = 1
       /\ \A n \in 1..Top : PowerOfX[n] = Doubled(PowerOfX[n - 1])
  <2> DEFINE q == PowerOfX
  <2>1. q = [n \in 0..Top |-> IF n = 0 THEN 1 ELSE Doubled(q[n - 1])]
    BY <1>9
  <2>2. \A n \in 0..Top : q[n] = IF n = 0 THEN 1 ELSE Doubled(q[n - 1])
    <3> HIDE DEF q
    <3> QED  BY <2>1
  <2> HIDE DEF q
  <2>3. q[0] = 1 /\ \A n \in 1..Top : q[n] = Doubled(q[n - 1])
    BY <1>1, <2>2
  <2> QED  BY <2>3 DEF q
<1>11. \A n \in Nat : 0 <= n => n \in {m \in Nat : m <= Top => PowerOfX[m] \in BYTE}
  <2> DEFINE S == {m \in Nat : m <= Top => PowerOfX[m] \in BYTE}
  <2>1. 0 \in S
    BY <1>3, <1>10
  <2>2. ASSUME NEW m \in Nat, m \in S PROVE m + 1 \in S
    <3>1. SUFFICES ASSUME m + 1 <= Top PROVE PowerOfX[m + 1] \in BYTE
      OBVIOUS
    <3>2. m + 1 \in 1..Top /\ PowerOfX[m] \in BYTE /\ (m + 1) - 1 = m
      BY <1>1, <2>2, <3>1
    <3> QED  BY <1>2, <1>10, <3>2
  <2> HIDE DEF S
  <2>3. \A n \in Nat : 0 <= n => n \in S
    BY <2>1, <2>2, Induction
  <2> QED  BY <2>3 DEF S
<1>12. \A k \in 0..Top : PowerOfX[k] \in BYTE
  BY <1>1, <1>11
<1>13. ASSUME NEW k \in 1..Top PROVE PowerOfX[k] = Turn(PowerOfX[k - 1], 0)
  <2>1. PowerOfX[k - 1] \in BYTE
    BY <1>1, <1>12
  <2> QED  BY <1>2, <1>10, <2>1
<1> QED  BY <1>1, <1>10, <1>12, <1>13
-----------------------------------------------------------------------------
(* The terms of what the register has taken in after n bits, as pairs of a  *)
(* label and an exponent.                                                   *)
Terms(b, n) ==
  {<<"message", n - k>> : k \in {m \in 1..n : MessageBit(b, m) = 1}}
    \cup {<<"preload", n + j>> : j \in {i \in 0..7 : Bit(b[1], i) = 1}}

TermSet(n) == {"message", "preload"} \X (0..n)

Raised(S) == {<<t[1], t[2] + 1>> : t \in S}

(* Those whose power of x has bit j, and whether their number is odd.       *)
Having(S, j) == {t \in S : Bit(PowerOfX[t[2]], j) = 1}

Parity(S) == [j \in 0..7 |-> Odd(Cardinality(Having(S, j)))]

LEMMA HavingSize ==
  ASSUME NEW S, IsFiniteSet(S)
  PROVE  /\ \A j : IsFiniteSet(Having(S, j)) /\ Cardinality(Having(S, j)) \in Nat
         /\ Parity(S) \in Bits
<1>1. ASSUME NEW j PROVE IsFiniteSet(Having(S, j)) /\ Cardinality(Having(S, j)) \in Nat
  <2>1. Having(S, j) \in SUBSET S
    BY DEF Having
  <2>2. IsFiniteSet(Having(S, j))
    BY <2>1, FS_Subset
  <2> QED  BY <2>2, FS_CardinalityType
<1>2. \A c \in Nat : Odd(c) \in 0..1
  BY DEF Odd
<1> QED  BY <1>1, <1>2 DEF Parity, Bits

LEMMA OddUnion ==
  ASSUME NEW A, NEW B, IsFiniteSet(A), IsFiniteSet(B)
  PROVE  Odd(Cardinality((A \ B) \cup (B \ A))) = (Odd(Cardinality(A)) + Odd(Cardinality(B))) % 2
<1>1. /\ IsFiniteSet(A \ B) /\ Cardinality(A \ B) = Cardinality(A) - Cardinality(A \cap B)
      /\ IsFiniteSet(B \ A) /\ Cardinality(B \ A) = Cardinality(B) - Cardinality(B \cap A)
  BY FS_Difference
<1>2. Cardinality((A \ B) \cup (B \ A))
        = Cardinality(A \ B) + Cardinality(B \ A) - Cardinality((A \ B) \cap (B \ A))
  BY <1>1, FS_Union
<1>3. (A \ B) \cap (B \ A) = {} /\ Cardinality({}) = 0 /\ B \cap A = A \cap B
  BY FS_EmptySet
<1>4. A \cap B \in SUBSET A /\ IsFiniteSet(A \cap B)
  BY FS_Subset
<1>5. Cardinality(A) \in Nat /\ Cardinality(B) \in Nat /\ Cardinality(A \cap B) \in Nat
  BY <1>4, FS_CardinalityType
<1>6. PICK x \in Nat, y \in Nat, z \in Nat :
        x = Cardinality(A) /\ y = Cardinality(B) /\ z = Cardinality(A \cap B)
  BY <1>5
<1>7. PICK p \in Nat, q \in Nat : p = Cardinality(A \ B) /\ q = Cardinality(B \ A)
  BY <1>1, FS_CardinalityType
<1>8. p = x - z /\ q = y - z
  BY <1>1, <1>3, <1>6, <1>7, Zenon
<1>9. Cardinality((A \ B) \cup (B \ A)) = p + q - 0
  BY <1>2, <1>3, <1>7, Zenon
<1>10. Odd(p + q - 0) = (Odd(x) + Odd(y)) % 2
  BY <1>8 DEF Odd
<1> QED  BY <1>6, <1>9, <1>10, Zenon

LEMMA TermPair ==
  ASSUME NEW n \in Nat, NEW t \in TermSet(n)
  PROVE  t = <<t[1], t[2]>> /\ t[2] \in 0..n /\ t[2] \in Nat
<1> DEFINE L == {"message", "preload"}
           K == 0..n
<1>1. TermSet(n) = L \X K
  BY DEF TermSet
<1>2. K \subseteq Nat
  OBVIOUS
<1> HIDE DEF L, K
<1>3. t \in L \X K
  BY <1>1, t \in TermSet(n), Zenon
<1>4. t = <<t[1], t[2]>> /\ t[2] \in K
  BY <1>3
<1> QED  BY <1>2, <1>4 DEF K

LEMMA ParityIs == ASSUME NEW S PROVE Parity(S) = [j \in 0..7 |-> Parity(S)[j]]
  BY DEF Parity

LEMMA TakenIs ==
  ASSUME NEW a \in Bits, NEW bit \in 0..1
  PROVE  Taken(a, bit) = [j \in 0..7 |-> Taken(a, bit)[j]]
  BY TakenType DEF Bits

LEMMA RaisedSize ==
  ASSUME NEW n \in Nat, NEW S \in SUBSET TermSet(n), IsFiniteSet(S)
  PROVE  IsFiniteSet(Raised(S)) /\ Cardinality(Raised(S)) = Cardinality(S)
<1> DEFINE f == [t \in S |-> <<t[1], t[2] + 1>>]
<1>1. f \in Bijection(S, Raised(S))
  <2>1. \A t \in S : t = <<t[1], t[2]>> /\ t[2] \in Nat
    BY TermPair
  <2>2. ASSUME NEW t \in S, NEW u \in S, f[t] = f[u] PROVE t = u
    <3>1. t[1] = u[1] /\ t[2] + 1 = u[2] + 1
      BY <2>2
    <3>2. t[2] = u[2]
      BY <2>1, <3>1
    <3> QED  BY <2>1, <3>1, <3>2
  <2>3. f \in [S -> Raised(S)]
    BY DEF Raised
  <2>4. \A v \in Raised(S) : \E t \in S : f[t] = v
    BY DEF Raised
  <2> HIDE DEF f
  <2> QED  BY <2>2, <2>3, <2>4 DEF Bijection, Injection, Surjection, IsInjective
<1> QED  BY <1>1, FS_Bijection DEF ExistsBijection

(* Raising every exponent by one is taking a zero in.                       *)
LEMMA ParityRaised ==
  ASSUME NEW n \in Nat, n < Top, NEW S \in SUBSET TermSet(n), IsFiniteSet(S)
  PROVE  Parity(Raised(S)) = Taken(Parity(S), 0)
<1> DEFINE Up(j) == {t \in S : Bit(PowerOfX[t[2] + 1], j) = 1}
           Diff(A, B) == (A \ B) \cup (B \ A)
<1>1. \A t \in S : t = <<t[1], t[2]>> /\ t[2] \in 0..n
  BY TermPair
<1>2. ASSUME NEW j \in 0..7 PROVE Parity(Raised(S))[j] = Odd(Cardinality(Up(j)))
  <2>1. Having(Raised(S), j) = Raised(Up(j))
    <3>1. \A t : <<t[1], t[2] + 1>>[2] = t[2] + 1
      OBVIOUS
    <3> QED  BY <3>1 DEF Having, Raised
  <2>2. Up(j) \in SUBSET S
    OBVIOUS
  <2>3. Up(j) \in SUBSET TermSet(n) /\ IsFiniteSet(Up(j))
    BY <2>2, FS_Subset
  <2> HIDE DEF Up
  <2>4. Cardinality(Raised(Up(j))) = Cardinality(Up(j))
    BY <2>3, RaisedSize
  <2> QED  BY <2>1, <2>4 DEF Parity
<1>3. ASSUME NEW t \in S
      PROVE  LET p == PowerOfX[t[2]]
                 q == PowerOfX[t[2] + 1]
             IN  /\ \A j \in 0..7 : Bit(p, j) \in 0..1
                 /\ Bit(q, 0) = (0 + Bit(p, 7)) % 2
                 /\ Bit(q, 1) = (Bit(p, 0) + Bit(p, 7)) % 2
                 /\ Bit(q, 2) = (Bit(p, 1) + Bit(p, 7)) % 2
                 /\ \A j \in 3..7 : Bit(q, j) = Bit(p, j - 1)
  <2> DEFINE p == PowerOfX[t[2]]
             q == PowerOfX[t[2] + 1]
  <2>1. p \in BYTE /\ q \in BYTE /\ q = Turn(p, 0)
    <3>1. t[2] \in 0..Top /\ t[2] + 1 \in 1..Top /\ t[2] + 1 \in 0..Top /\ (t[2] + 1) - 1 = t[2]
      BY <1>1, PowerNext
    <3> QED  BY <3>1, PowerNext
  <2>2. BitsOf(p) \in Bits /\ Value(BitsOf(p)) = p /\ 0 \in 0..1
    BY <2>1, BitType, ValueOfBits
  <2>3. Taken(BitsOf(p), 0) \in Bits /\ q = Value(Taken(BitsOf(p), 0))
    BY <2>1, <2>2, ShiftIsTaken, TakenType
  <2>4. BitsOf(q) = Taken(BitsOf(p), 0)
    BY <2>3, BitsOfValue
  <2> HIDE DEF p, q
  <2>5. \A j \in 0..7 : Bit(p, j) = BitsOf(p)[j] /\ Bit(q, j) = BitsOf(q)[j]
    BY DEF BitsOf
  <2>6. \A j \in 0..7 : BitsOf(p)[j] \in 0..1
    BY <2>2 DEF Bits
  <2>7. \A j \in 0..7 : Bit(p, j) \in 0..1
    BY <2>5, <2>6
  <2>8. /\ Bit(q, 0) = (0 + Bit(p, 7)) % 2
        /\ Bit(q, 1) = (Bit(p, 0) + Bit(p, 7)) % 2
        /\ Bit(q, 2) = (Bit(p, 1) + Bit(p, 7)) % 2
    <3>1. /\ Bit(q, 0) = BitsOf(q)[0] /\ Bit(q, 1) = BitsOf(q)[1] /\ Bit(q, 2) = BitsOf(q)[2]
          /\ Bit(p, 7) = BitsOf(p)[7] /\ Bit(p, 0) = BitsOf(p)[0] /\ Bit(p, 1) = BitsOf(p)[1]
      BY <2>5
    <3>2. /\ Taken(BitsOf(p), 0)[0] = (0 + BitsOf(p)[7]) % 2
          /\ Taken(BitsOf(p), 0)[1] = (BitsOf(p)[0] + BitsOf(p)[7]) % 2
          /\ Taken(BitsOf(p), 0)[2] = (BitsOf(p)[1] + BitsOf(p)[7]) % 2
      BY TakenBits
    <3> QED  BY <2>4, <3>1, <3>2, Zenon
  <2>9. ASSUME NEW j \in 3..7 PROVE Bit(q, j) = Bit(p, j - 1)
    <3>1. Taken(BitsOf(p), 0)[j] = BitsOf(p)[j - 1] /\ j - 1 \in 0..7 /\ j \in 0..7
      BY TakenBits
    <3> QED  BY <2>4, <2>5, <3>1
  <2> QED  BY <2>7, <2>8, <2>9 DEF p, q
<1>4. Up(0) = Having(S, 7)
  <2>1. \A t \in S : Bit(PowerOfX[t[2] + 1], 0) = 1 <=> Bit(PowerOfX[t[2]], 7) = 1
    <3>1. \A y \in 0..1 : (0 + y) % 2 = y
      OBVIOUS
    <3> QED  BY <1>3, <3>1
  <2> QED  BY <2>1 DEF Having
<1>5. Up(1) = Diff(Having(S, 0), Having(S, 7)) /\ Up(2) = Diff(Having(S, 1), Having(S, 7))
  <2>1. \A y, z \in 0..1 : (y + z) % 2 = 1 <=> (y = 1 /\ z # 1) \/ (z = 1 /\ y # 1)
    OBVIOUS
  <2>2. ASSUME NEW t \in S
        PROVE  /\ t \in Up(1) <=> t \in Diff(Having(S, 0), Having(S, 7))
               /\ t \in Up(2) <=> t \in Diff(Having(S, 1), Having(S, 7))
    <3> DEFINE p == PowerOfX[t[2]]
               q == PowerOfX[t[2] + 1]
    <3>1. /\ Bit(p, 0) \in 0..1 /\ Bit(p, 1) \in 0..1 /\ Bit(p, 7) \in 0..1
          /\ Bit(q, 1) = (Bit(p, 0) + Bit(p, 7)) % 2
          /\ Bit(q, 2) = (Bit(p, 1) + Bit(p, 7)) % 2
      BY <1>3
    <3>2. /\ Bit(q, 1) = 1 <=> (Bit(p, 0) = 1 /\ Bit(p, 7) # 1) \/ (Bit(p, 7) = 1 /\ Bit(p, 0) # 1)
          /\ Bit(q, 2) = 1 <=> (Bit(p, 1) = 1 /\ Bit(p, 7) # 1) \/ (Bit(p, 7) = 1 /\ Bit(p, 1) # 1)
      <4> HIDE DEF p, q
      <4> QED  BY <2>1, <3>1
    <3> QED  BY <3>2 DEF Having
  <2>3. Diff(Having(S, 0), Having(S, 7)) \subseteq S /\ Diff(Having(S, 1), Having(S, 7)) \subseteq S
    BY DEF Having
  <2>4. Up(1) \subseteq S /\ Up(2) \subseteq S
    OBVIOUS
  <2> HIDE DEF Up, Diff
  <2> QED  BY <2>2, <2>3, <2>4
<1>6. ASSUME NEW j \in 3..7 PROVE Up(j) = Having(S, j - 1)
  BY <1>3 DEF Having
<1>7. \A i : IsFiniteSet(Having(S, i))
  BY HavingSize
<1>8. /\ Parity(Raised(S))[0] = (0 + Parity(S)[7]) % 2
      /\ Parity(Raised(S))[1] = (Parity(S)[0] + Parity(S)[7]) % 2
      /\ Parity(Raised(S))[2] = (Parity(S)[1] + Parity(S)[7]) % 2
      /\ \A j \in 3..7 : Parity(Raised(S))[j] = Parity(S)[j - 1]
  <2>1. \A j \in 0..7 : Parity(S)[j] = Odd(Cardinality(Having(S, j)))
    BY DEF Parity
  <2>2. Parity(S)[7] \in 0..1 /\ \A y \in 0..1 : (0 + y) % 2 = y
    BY HavingSize DEF Bits
  <2>3. Parity(Raised(S))[0] = (0 + Parity(S)[7]) % 2
    <3> HIDE DEF Up
    <3> QED  BY <1>2, <1>4, <2>1, <2>2
  <2>4. /\ Odd(Cardinality(Diff(Having(S, 0), Having(S, 7))))
             = (Odd(Cardinality(Having(S, 0))) + Odd(Cardinality(Having(S, 7)))) % 2
        /\ Odd(Cardinality(Diff(Having(S, 1), Having(S, 7))))
             = (Odd(Cardinality(Having(S, 1))) + Odd(Cardinality(Having(S, 7)))) % 2
    BY <1>7, OddUnion
  <2>5. /\ Parity(Raised(S))[1] = (Parity(S)[0] + Parity(S)[7]) % 2
        /\ Parity(Raised(S))[2] = (Parity(S)[1] + Parity(S)[7]) % 2
    <3> HIDE DEF Up, Diff
    <3> QED  BY <1>2, <1>5, <2>1, <2>4
  <2>6. ASSUME NEW j \in 3..7 PROVE Parity(Raised(S))[j] = Parity(S)[j - 1]
    <3>1. j \in 0..7 /\ j - 1 \in 0..7
      OBVIOUS
    <3> HIDE DEF Up
    <3> QED  BY <1>2, <1>6, <2>1, <3>1
  <2> QED  BY <2>3, <2>5, <2>6
<1>9. \A j \in 0..7 : Parity(Raised(S))[j] = Taken(Parity(S), 0)[j]
  <2>1. \A j \in 0..7 : j = 0 \/ j = 1 \/ j = 2 \/ j \in 3..7
    OBVIOUS
  <2>2. /\ Taken(Parity(S), 0)[0] = (0 + Parity(S)[7]) % 2
        /\ Taken(Parity(S), 0)[1] = (Parity(S)[0] + Parity(S)[7]) % 2
        /\ Taken(Parity(S), 0)[2] = (Parity(S)[1] + Parity(S)[7]) % 2
        /\ \A j \in 3..7 : Taken(Parity(S), 0)[j] = Parity(S)[j - 1]
    BY TakenBits
  <2> QED  BY <1>8, <2>1, <2>2
<1>10. /\ Parity(Raised(S)) = [j \in 0..7 |-> Parity(Raised(S))[j]]
       /\ Taken(Parity(S), 0) = [j \in 0..7 |-> Taken(Parity(S), 0)[j]]
  <2>1. Parity(S) \in Bits /\ 0 \in 0..1
    BY HavingSize
  <2> QED  BY <2>1, ParityIs, TakenIs
<1> QED  BY <1>9, <1>10

Newest(bit) == IF bit = 1 THEN {<<"message", 0>>} ELSE {}

LEMMA TermsFinite ==
  ASSUME NEW b \in Buffers, NEW n \in 0..8 * Len(b)
  PROVE  /\ Terms(b, n) \in SUBSET TermSet(n + 7)
         /\ IsFiniteSet(Terms(b, n))
<1>1. n \in Nat
  BY DEF Buffers
<1>2. Terms(b, n) \in SUBSET TermSet(n + 7)
  <2>1. \A k \in 1..n : n - k \in 0..n + 7
    BY <1>1
  <2>2. \A j \in 0..7 : n + j \in 0..n + 7
    BY <1>1
  <2>3. ASSUME NEW t \in Terms(b, n) PROVE t \in TermSet(n + 7)
    <3>1. \/ \E k \in 1..n : t = <<"message", n - k>>
          \/ \E j \in 0..7 : t = <<"preload", n + j>>
      BY DEF Terms
    <3> QED  BY <2>1, <2>2, <3>1 DEF TermSet
  <2> QED  BY <2>3
<1>3. IsFiniteSet(TermSet(n + 7))
  <2>1. IsFiniteSet(0..n + 7)
    BY <1>1, FS_Interval
  <2>2. IsFiniteSet({"message", "preload"})
    <3>1. IsFiniteSet({"message"} \cup {"preload"})
      BY FS_Singleton, FS_AddElement
    <3>2. {"message", "preload"} = {"message"} \cup {"preload"}
      OBVIOUS
    <3> QED  BY <3>1, <3>2
  <2> QED  BY <2>1, <2>2, FS_Product DEF TermSet
<1> QED  BY <1>2, <1>3, FS_Subset

LEMMA TermsGrow ==
  ASSUME NEW b \in Buffers, NEW n \in Nat, n + 1 <= 8 * Len(b)
  PROVE  Terms(b, n + 1) = Raised(Terms(b, n)) \cup Newest(MessageBit(b, n + 1))
<1> DEFINE M(m) == MessageBit(b, m)
           W(j) == Bit(b[1], j)
           A(m) == {<<"message", m - k>> : k \in {i \in 1..m : M(i) = 1}}
           B(m) == {<<"preload", m + j>> : j \in {i \in 0..7 : W(i) = 1}}
<1>1. \A m : Terms(b, m) = A(m) \cup B(m)
  BY DEF Terms
<1> HIDE DEF M, W
<1>2. Raised(A(n) \cup B(n)) = Raised(A(n)) \cup Raised(B(n))
  BY DEF Raised
<1>3. Raised(B(n)) = B(n + 1)
  <2>1. ASSUME NEW j \in {i \in 0..7 : W(i) = 1} PROVE <<"preload", (n + 1) + j>> \in Raised(B(n))
    <3> DEFINE u == <<"preload", n + j>>
    <3>1. u \in B(n) /\ <<u[1], u[2] + 1>> = <<"preload", (n + 1) + j>>
      OBVIOUS
    <3> HIDE DEF u, B
    <3> QED  BY <3>1 DEF Raised
  <2>2. ASSUME NEW u \in B(n) PROVE <<u[1], u[2] + 1>> \in B(n + 1)
    <3>1. PICK j \in {i \in 0..7 : W(i) = 1} : u = <<"preload", n + j>>
      OBVIOUS
    <3>2. <<u[1], u[2] + 1>> = <<"preload", (n + 1) + j>>
      BY <3>1
    <3> QED  BY <3>1, <3>2
  <2>3. Raised(B(n)) \subseteq B(n + 1)
    <3> HIDE DEF B
    <3> QED  BY <2>2 DEF Raised
  <2>4. B(n + 1) \subseteq Raised(B(n))
    <3> DEFINE R == Raised(B(n))
    <3>1. \A j \in {i \in 0..7 : W(i) = 1} : <<"preload", (n + 1) + j>> \in R
      BY <2>1
    <3> HIDE DEF R
    <3>2. B(n + 1) \subseteq R
      BY <3>1
    <3> QED  BY <3>2 DEF R
  <2> QED  BY <2>3, <2>4
<1>4. A(n + 1) = Raised(A(n)) \cup Newest(M(n + 1))
  <2>1. ASSUME NEW k \in {i \in 1..n : M(i) = 1} PROVE <<"message", (n + 1) - k>> \in Raised(A(n))
    <3> DEFINE u == <<"message", n - k>>
    <3>1. u \in A(n) /\ <<u[1], u[2] + 1>> = <<"message", (n + 1) - k>>
      OBVIOUS
    <3> HIDE DEF u, A
    <3> QED  BY <3>1 DEF Raised
  <2>2. ASSUME NEW u \in A(n) PROVE <<u[1], u[2] + 1>> \in A(n + 1)
    <3>1. PICK k \in {i \in 1..n : M(i) = 1} : u = <<"message", n - k>>
      OBVIOUS
    <3>2. <<u[1], u[2] + 1>> = <<"message", (n + 1) - k>> /\ k \in {i \in 1..n + 1 : M(i) = 1}
      BY <3>1
    <3> QED  BY <3>2
  <2>3. M(n + 1) = 1 => <<"message", 0>> \in A(n + 1)
    <3>1. (n + 1) - (n + 1) = 0 /\ n + 1 \in 1..n + 1
      OBVIOUS
    <3>2. M(n + 1) = 1 => n + 1 \in {i \in 1..n + 1 : M(i) = 1}
      BY <3>1
    <3>3. M(n + 1) = 1 => <<"message", (n + 1) - (n + 1)>> \in A(n + 1)
      BY <3>2
    <3> HIDE DEF A
    <3> QED  BY <3>1, <3>3
  <2>4. Raised(A(n)) \cup Newest(M(n + 1)) \subseteq A(n + 1)
    <3> HIDE DEF A
    <3> QED  BY <2>2, <2>3 DEF Raised, Newest
  <2>5. ASSUME NEW t \in A(n + 1) PROVE t \in Raised(A(n)) \cup Newest(M(n + 1))
    <3>1. PICK k \in {i \in 1..n + 1 : M(i) = 1} : t = <<"message", (n + 1) - k>>
      OBVIOUS
    <3>2. CASE k <= n
      <4>1. k \in {i \in 1..n : M(i) = 1}
        BY <3>1, <3>2
      <4> HIDE DEF A
      <4> QED  BY <2>1, <3>1, <4>1
    <3>3. CASE k = n + 1
      <4>1. t = <<"message", 0>> /\ M(n + 1) = 1
        BY <3>1, <3>3
      <4> HIDE DEF A
      <4> QED  BY <4>1 DEF Newest
    <3>4. k <= n \/ k = n + 1
      OBVIOUS
    <3> QED  BY <3>2, <3>3, <3>4
  <2> HIDE DEF A
  <2> QED  BY <2>4, <2>5
<1> HIDE DEF A, B
<1>5. Terms(b, n + 1) = Raised(A(n) \cup B(n)) \cup Newest(M(n + 1))
  BY <1>1, <1>2, <1>3, <1>4
<1> QED  BY <1>1, <1>5 DEF M

(* A new term with exponent 0 counts in bit 0 only.                         *)
LEMMA ParityGrow ==
  ASSUME NEW n \in Nat, n < Top, NEW S \in SUBSET TermSet(n), IsFiniteSet(S), NEW bit \in 0..1
  PROVE  Parity(Raised(S) \cup Newest(bit)) = Taken(Parity(S), bit)
<1> DEFINE R == Raised(S)
           one == <<"message", 0>>
<1>1. IsFiniteSet(R) /\ one \notin R
  <2>1. \A t \in S : t[2] \in Nat
    BY TermPair
  <2>2. \A t \in S : <<t[1], t[2] + 1>> # one
    BY <2>1
  <2> QED  BY <2>2, RaisedSize DEF Raised
<1>2. Parity(R) = Taken(Parity(S), 0) /\ Parity(S) \in Bits
  BY ParityRaised, HavingSize
<1> HIDE DEF R
<1>3. one[2] = 0 /\ PowerOfX[0] = 1
  BY PowerNext
<1>4. Bit(1, 0) = 1 /\ \A j \in 1..7 : Bit(1, j) # 1
  <2>1. /\ Bit(1, 0) = 1 /\ Bit(1, 1) = 0 /\ Bit(1, 2) = 0 /\ Bit(1, 3) = 0
        /\ Bit(1, 4) = 0 /\ Bit(1, 5) = 0 /\ Bit(1, 6) = 0 /\ Bit(1, 7) = 0
    BY BitIs
  <2>2. \A j \in 1..7 : j = 1 \/ j = 2 \/ j = 3 \/ j = 4 \/ j = 5 \/ j = 6 \/ j = 7
    OBVIOUS
  <2> QED  BY <2>1, <2>2
<1>5. CASE bit = 0
  <2>1. R \cup Newest(bit) = R
    BY <1>5 DEF Newest
  <2> QED  BY <1>2, <1>5, <2>1 DEF R
<1>6. CASE bit = 1
  <2>1. R \cup Newest(bit) = R \cup {one}
    BY <1>6 DEF Newest
  <2>2. Having(R \cup {one}, 0) = Having(R, 0) \cup {one} /\ one \notin Having(R, 0)
    <3> HIDE DEF one
    <3> QED  BY <1>1, <1>3, <1>4 DEF Having
  <2>3. \A j \in 1..7 : Having(R \cup {one}, j) = Having(R, j)
    <3> HIDE DEF one
    <3> QED  BY <1>1, <1>3, <1>4 DEF Having
  <2>4. IsFiniteSet(Having(R, 0)) /\ Cardinality(Having(R, 0)) \in Nat
    BY <1>1, HavingSize
  <2>5. Cardinality(Having(R \cup {one}, 0)) = Cardinality(Having(R, 0)) + 1
    <3>1. Cardinality(Having(R, 0) \cup {one})
            = IF one \in Having(R, 0) THEN Cardinality(Having(R, 0)) ELSE Cardinality(Having(R, 0)) + 1
      BY <2>4, FS_AddElement
    <3> HIDE DEF one
    <3> QED  BY <2>2, <3>1, Zenon
  <2>6. \A c \in Nat : Odd(c + 1) = (1 + Odd(c)) % 2
    BY DEF Odd
  <2> DEFINE P == Parity(R \cup {one})
  <2>7. P[0] = (1 + Parity(R)[0]) % 2 /\ \A j \in 1..7 : P[j] = Parity(R)[j]
    BY <2>3, <2>4, <2>5, <2>6 DEF Parity
  <2>8. /\ Parity(R)[0] = (0 + Parity(S)[7]) % 2
        /\ Parity(S)[7] \in 0..1
        /\ Taken(Parity(S), 1)[0] = (1 + Parity(S)[7]) % 2
    BY <1>2, TakenBits DEF Bits
  <2>9. P[0] = Taken(Parity(S), 1)[0]
    BY <2>7, <2>8
  <2>10. ASSUME NEW a, NEW j \in 1..7 PROVE Taken(a, 0)[j] = Taken(a, 1)[j]
    <3>1. j = 1 \/ j = 2 \/ j \in 3..7
      OBVIOUS
    <3>2. /\ Taken(a, 0)[1] = (a[0] + a[7]) % 2 /\ Taken(a, 1)[1] = (a[0] + a[7]) % 2
          /\ Taken(a, 0)[2] = (a[1] + a[7]) % 2 /\ Taken(a, 1)[2] = (a[1] + a[7]) % 2
      BY TakenBits, Zenon
    <3>3. \A i \in 3..7 : Taken(a, 0)[i] = a[i - 1] /\ Taken(a, 1)[i] = a[i - 1]
      BY TakenBits
    <3> QED  BY <3>1, <3>2, <3>3
  <2>11. \A j \in 0..7 : P[j] = Taken(Parity(S), 1)[j]
    <3>1. \A j \in 0..7 : j = 0 \/ j \in 1..7
      OBVIOUS
    <3> HIDE DEF P
    <3> QED  BY <1>2, <2>7, <2>9, <2>10, <3>1
  <2>12. P = [j \in 0..7 |-> P[j]] /\ Taken(Parity(S), 1) = [j \in 0..7 |-> Taken(Parity(S), 1)[j]]
    <3>1. 1 \in 0..1
      OBVIOUS
    <3> QED  BY <1>2, <3>1, ParityIs, TakenIs
  <2>13. P = Taken(Parity(S), 1)
    <3> HIDE DEF P
    <3> QED  BY <2>11, <2>12
  <2> QED  BY <1>6, <2>1, <2>13 DEF R
<1> QED  BY <1>5, <1>6

(* Before any bit has come in the register is its preload.                  *)
LEMMA SmallPowers ==
  ASSUME Top >= 7
  PROVE  \A i \in 0..7 : \A j \in 0..7 : Bit(PowerOfX[i], j) = 1 <=> i = j
<1>1. /\ PowerOfX[0] = 1 /\ PowerOfX[1] = 2 /\ PowerOfX[2] = 4 /\ PowerOfX[3] = 8
      /\ PowerOfX[4] = 16 /\ PowerOfX[5] = 32 /\ PowerOfX[6] = 64 /\ PowerOfX[7] = 128
  <2>1. PowerOfX[0] = 1 /\ \A k \in 1..7 : PowerOfX[k] = Turn(PowerOfX[k - 1], 0)
    BY PowerNext
  <2>2. /\ PowerOfX[1] = Turn(PowerOfX[0], 0) /\ PowerOfX[2] = Turn(PowerOfX[1], 0)
        /\ PowerOfX[3] = Turn(PowerOfX[2], 0) /\ PowerOfX[4] = Turn(PowerOfX[3], 0)
        /\ PowerOfX[5] = Turn(PowerOfX[4], 0) /\ PowerOfX[6] = Turn(PowerOfX[5], 0)
        /\ PowerOfX[7] = Turn(PowerOfX[6], 0)
    BY <2>1
  <2>3. /\ Turn(1, 0) = 2 /\ Turn(2, 0) = 4 /\ Turn(4, 0) = 8 /\ Turn(8, 0) = 16
        /\ Turn(16, 0) = 32 /\ Turn(32, 0) = 64 /\ Turn(64, 0) = 128
    BY DEF Turn
  <2> QED  BY <2>1, <2>2, <2>3
<1>2. \A i \in 0..7 : i = 0 \/ i = 1 \/ i = 2 \/ i = 3 \/ i = 4 \/ i = 5 \/ i = 6 \/ i = 7
  OBVIOUS
<1> DEFINE Only(x, i) == \A j \in 0..7 : Bit(x, j) = 1 <=> i = j
<1>3. Only(1, 0) /\ Only(2, 1) /\ Only(4, 2) /\ Only(8, 3)
  BY <1>2, BitIs
<1>4. Only(16, 4) /\ Only(32, 5) /\ Only(64, 6) /\ Only(128, 7)
  BY <1>2, BitIs
<1>5. ASSUME NEW i \in 0..7 PROVE Only(PowerOfX[i], i)
  <2> HIDE DEF Only
  <2> QED  BY <1>1, <1>2, <1>3, <1>4
<1> QED  BY <1>5

LEMMA ParityStart ==
  ASSUME NEW b \in Buffers, Top >= 7
  PROVE  Parity(Terms(b, 0)) = BitsOf(b[1])
<1>1. b[1] \in BYTE
  BY DEF Buffers
<1>2. \A t : t \in Terms(b, 0) <=> \E i \in 0..7 : Bit(b[1], i) = 1 /\ t = <<"preload", i>>
  BY DEF Terms
<1>3. ASSUME NEW j \in 0..7
      PROVE  Odd(Cardinality(Having(Terms(b, 0), j))) = Bit(b[1], j)
  <2>1. Bit(b[1], j) \in 0..1
    BY <1>1, BitType DEF BitsOf, Bits
  <2>2. \A t : t \in Having(Terms(b, 0), j) <=> Bit(b[1], j) = 1 /\ t = <<"preload", j>>
    <3>1. ASSUME NEW i \in 0..7 PROVE Bit(PowerOfX[<<"preload", i>>[2]], j) = 1 <=> i = j
      BY SmallPowers
    <3> QED  BY <1>2, <3>1 DEF Having
  <2>3. CASE Bit(b[1], j) = 1
    <3>1. Having(Terms(b, 0), j) = {<<"preload", j>>}
      BY <2>2, <2>3
    <3>2. Cardinality(Having(Terms(b, 0), j)) = 1
      BY <3>1, FS_Singleton, Zenon
    <3> QED  BY <2>3, <3>2 DEF Odd
  <2>4. CASE Bit(b[1], j) = 0
    <3>1. Having(Terms(b, 0), j) = {}
      BY <2>2, <2>4
    <3>2. Cardinality(Having(Terms(b, 0), j)) = 0
      BY <3>1, FS_EmptySet
    <3> QED  BY <2>4, <3>2 DEF Odd
  <2> QED  BY <2>1, <2>3, <2>4
<1>4. \A j \in 0..7 : Parity(Terms(b, 0))[j] = BitsOf(b[1])[j]
  BY <1>3 DEF Parity, BitsOf
<1> QED  BY <1>4 DEF Parity, BitsOf

(* After n bits the register is the sum of the powers its terms name.       *)
LEMMA RegisterIsParity ==
  ASSUME NEW b \in Buffers, Len(b) <= MaxLen
  PROVE  \A n \in 0..8 * Len(b) : BitsOf(Register(b)[n]) = Parity(Terms(b, n))
<1> DEFINE N == 8 * Len(b)
           T == {n \in Nat : n <= N => BitsOf(Register(b)[n]) = Parity(Terms(b, n))}
<1>1. Len(b) \in Nat \ {0} /\ MaxLen \in Nat /\ N + 8 <= Top /\ Top >= 7 /\ Top \in Nat
  BY SamplesAssumption DEF Top, Buffers
<1>2. 0 \in T
  <2>1. Register(b)[0] = b[1]
    BY RegisterType
  <2> QED  BY <1>1, <2>1, ParityStart
<1>3. ASSUME NEW n \in Nat, n \in T PROVE n + 1 \in T
  <2>1. SUFFICES ASSUME n + 1 <= N PROVE BitsOf(Register(b)[n + 1]) = Parity(Terms(b, n + 1))
    OBVIOUS
  <2> DEFINE bit == MessageBit(b, n + 1)
             S == Terms(b, n)
  <2>2. n \in 0..8 * Len(b) /\ n + 1 \in 1..8 * Len(b) /\ (n + 1) - 1 = n /\ n + 7 \in Nat /\ n + 7 < Top
    BY <1>1, <2>1
  <2>3. Register(b)[n + 1] = Turn(Register(b)[n], bit) /\ Register(b)[n] \in BYTE /\ bit \in 0..1
    BY <2>2, RegisterType, MessageType
  <2>4. S \in SUBSET TermSet(n + 7) /\ IsFiniteSet(S)
    BY <2>2, TermsFinite
  <2>5. Terms(b, n + 1) = Raised(S) \cup Newest(bit)
    BY <2>1, TermsGrow
  <2>6. BitsOf(Register(b)[n]) = Parity(S)
    BY <1>1, <1>3, <2>1
  <2> HIDE DEF bit, S
  <2>7. Parity(Terms(b, n + 1)) = Taken(Parity(S), bit)
    BY <2>2, <2>3, <2>4, <2>5, ParityGrow
  <2>8. BitsOf(Register(b)[n + 1]) = Taken(Parity(S), bit)
    <3>1. Parity(S) \in Bits /\ Register(b)[n] = Value(Parity(S))
      BY <2>3, <2>6, BitType, ValueOfBits
    <3>2. Register(b)[n + 1] = Value(Taken(Parity(S), bit))
      BY <2>3, <3>1, ShiftIsTaken
    <3> QED  BY <2>3, <3>1, <3>2, TakenType, BitsOfValue
  <2> QED  BY <2>7, <2>8
<1>4. \A n \in Nat : 0 <= n => n \in T
  <2> HIDE DEF T
  <2> QED  BY <1>2, <1>3, Induction
<1> QED  BY <1>1, <1>4

LEMMA RemainderIs ==
  ASSUME NEW b \in Buffers, Len(b) <= MaxLen
  PROVE  Remainder(b) = Register(b)[8 * Len(b)]
<1> DEFINE n == 8 * Len(b)
           E == Exponents(b)
           odd(j) == Cardinality({e \in E : Bit(PowerOfX[e[2]], j) = 1}) % 2
<1>1. n \in 0..n /\ n \in Nat
  BY DEF Buffers
<1>2. E = Terms(b, n)
  BY DEF Exponents, Terms
<1>3. Register(b)[n] \in BYTE /\ BitsOf(Register(b)[n]) = Parity(Terms(b, n))
  BY <1>1, RegisterIsParity, RegisterType
<1>4. IsFiniteSet(Terms(b, n)) /\ Parity(Terms(b, n)) \in Bits
  BY <1>1, TermsFinite, HavingSize
<1>5. \A j \in 0..7 : odd(j) = Parity(Terms(b, n))[j]
  BY <1>2 DEF Parity, Having, Odd
<1>6. Remainder(b) = odd(0) * 2^0 + odd(1) * 2^1 + odd(2) * 2^2 + odd(3) * 2^3 + odd(4) * 2^4
                     + odd(5) * 2^5 + odd(6) * 2^6 + odd(7) * 2^7
  BY DEF Remainder
<1> DEFINE P == Parity(Terms(b, n))
<1>7. Remainder(b) = P[0] * 2^0 + P[1] * 2^1 + P[2] * 2^2 + P[3] * 2^3 + P[4] * 2^4
                     + P[5] * 2^5 + P[6] * 2^6 + P[7] * 2^7
  <2>1. /\ odd(0) = P[0] /\ odd(1) = P[1] /\ odd(2) = P[2] /\ odd(3) = P[3]
        /\ odd(4) = P[4] /\ odd(5) = P[5] /\ odd(6) = P[6] /\ odd(7) = P[7]
    BY <1>5
  <2> HIDE DEF P, odd
  <2> QED  BY <1>6, <2>1
<1>8. P \in Bits /\ Register(b)[n] = Value(P)
  BY <1>3, <1>4, ValueOfBits
<1> HIDE DEF P
<1>9. Remainder(b) = Value(P)
  <2>1. /\ P[0] \in 0..1 /\ P[1] \in 0..1 /\ P[2] \in 0..1 /\ P[3] \in 0..1
        /\ P[4] \in 0..1 /\ P[5] \in 0..1 /\ P[6] \in 0..1 /\ P[7] \in 0..1
    BY <1>8 DEF Bits
  <2> QED  BY <1>7, <2>1, Powers DEF Value
<1> QED  BY <1>8, <1>9

(* Inverting bit 7 is adding 128.                                           *)
LEMMA TopInverted ==
  ASSUME NEW d \in BYTE
  PROVE  XorByte(d, 128) = (d + 128) % 256
<1> DEFINE c == [j \in 0..7 |-> IF j = 7 THEN 1 ELSE 0]
<1>1. PICK a \in Bits : d = Value(a)
  BY BitType, ValueOfBits
<1>2. /\ a[0] \in 0..1 /\ a[1] \in 0..1 /\ a[2] \in 0..1 /\ a[3] \in 0..1
      /\ a[4] \in 0..1 /\ a[5] \in 0..1 /\ a[6] \in 0..1 /\ a[7] \in 0..1
  BY DEF Bits
<1>3. c \in Bits /\ Value(c) = 128
  BY DEF Bits, Value
<1>4. XorByte(d, 128) = Value(Sum(a, c))
  BY <1>1, <1>3, XorIsSum
<1> DEFINE low == a[0] + 2 * a[1] + 4 * a[2] + 8 * a[3] + 16 * a[4] + 32 * a[5] + 64 * a[6]
<1>5. Value(Sum(a, c)) = low + 128 * (1 - a[7])
  <2>1. /\ Sum(a, c)[0] = (a[0] + 0) % 2 /\ Sum(a, c)[1] = (a[1] + 0) % 2 /\ Sum(a, c)[2] = (a[2] + 0) % 2
        /\ Sum(a, c)[3] = (a[3] + 0) % 2 /\ Sum(a, c)[4] = (a[4] + 0) % 2 /\ Sum(a, c)[5] = (a[5] + 0) % 2
        /\ Sum(a, c)[6] = (a[6] + 0) % 2 /\ Sum(a, c)[7] = (a[7] + 1) % 2
    BY DEF Sum
  <2>2. \A y \in 0..1 : (y + 1) % 2 = 1 - y /\ (y + 0) % 2 = y
    OBVIOUS
  <2> HIDE DEF c
  <2> QED  BY <1>2, <2>1, <2>2 DEF Value
<1>6. Value(a) = low + 128 * a[7] /\ low \in 0..127
  BY <1>2 DEF Value
<1> HIDE DEF low, c
<1>7. (low + 128 * a[7] + 128) % 256 = low + 128 * (1 - a[7])
  BY <1>2, <1>6
<1> QED  BY <1>1, <1>4, <1>5, <1>6, <1>7

(* crc8_calculator is a remainder: of the buffer, preceded by a copy of its *)
(* first byte, modulo x^8 + x^2 + x + 1, with bit 7 inverted.               *)
THEOREM SumIsRemainder == MCSpec => []CrcIsRemainder
<1>1. SumInv => CrcIsRemainder
  <2>1. SUFFICES ASSUME SumInv PROVE crc8_calculator(buf) = XorByte(Remainder(buf), 128)
    BY DEF CrcIsRemainder
  <2>2. buf \in Buffers /\ Len(buf) <= MaxLen
    BY <2>1 DEF SumInv
  <2>3. 8 * Len(buf) \in 0..8 * Len(buf)
    BY <2>2 DEF Buffers
  <2>4. Register(buf)[8 * Len(buf)] \in BYTE
    BY <2>2, <2>3, RegisterType
  <2> QED  BY <2>2, <2>4, RemainderIs, TopInverted DEF crc8_calculator
<1> QED  BY <1>1, SumInvariant, PTL
=============================================================================
