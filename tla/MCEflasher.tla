----------------------------- MODULE MCEflasher -----------------------------
(***************************************************************************)
(* A chip of eight bytes in sectors of two, and a buffer of three.         *)
(***************************************************************************)
EXTENDS Eflasher

MCOldChip == [a \in 0..(CHIP - 1) |-> 10 + a]
MCFiles   == {[n \in 1..len |-> 100 + n] : len \in 0..5}

CommandLine(r, a, s, w, n) == [reads |-> r, address |-> a, sector |-> s, word |-> w, size |-> n]

MCArgs ==
  {CommandLine(TRUE, a, UNIT, w, 4) : a \in {0, 3}, w \in {"absent", "number", "other"}}
    \cup {CommandLine(FALSE, a, s, w, n) :
            a \in {0, 3, 6}, s \in {1, UNIT, 2 * UNIT},
            w \in {"absent", "number", "other"}, n \in {1, 4}}

ReadArgs == {CommandLine(TRUE, a, UNIT, "absent", 0) : a \in {0, 3}}
=============================================================================
