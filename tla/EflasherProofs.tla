--------------------------- MODULE EflasherProofs ---------------------------
(***************************************************************************)
(* Proofs about eflasher, for every chip, file and command line, however   *)
(* slow the chip is and however often the process is killed: first the     *)
(* conversation with the chip, then what a write leaves in it, then what a *)
(* read leaves in the file, and last that a write implements FlashImage.   *)
(***************************************************************************)
EXTENDS Eflasher, TLAPS, SequenceTheorems

(* The conversation with the chip.                                          *)

Talking == {"fetch", "got", "sector", "erasable", "erase", "wren", "write", "wrdi", "leave"}

(* While the process talks to the chip the busy bit is shown and commands   *)
(* are passed on.                                                           *)
EnabledInv ==
  /\ kills \in Nat
  /\ pc \in {"off", "enter"} \cup Talking
  /\ pc \in Talking => {"BUSYCHK", "SPICMDEN"} \subseteq cfg

(* The write enable latch is on its way, or set, when an erase or a write   *)
(* is due, and stays until that has ended.                                  *)
LatchInv ==
  /\ pc \in {"erase", "write"} => op = "WREN" \/ (op = "none" /\ latch)
  /\ op \in {"SECTOR_ERASE", "WRITE"} => latch

(* As long as no process was killed the registers saved are those found.    *)
SavedInv ==
  kills = 0 =>
    /\ pc \in {"off", "enter"} => board = "found"
    /\ pc \in Talking => saved.board = "found"
    /\ outcome = "ok" => pc = "off" /\ cfg = saved.cfg

IInv == EnabledInv /\ LatchInv /\ SavedInv

LEMMA InvInit == Init => IInv
  BY DEF Init, IInv, EnabledInv, LatchInv, SavedInv, Talking

LEMMA WaitWaits == ASSUME EnabledInv, pc \in Talking, Wait PROVE op = "none"
  BY DEF EnabledInv, Wait

LEMMA CommandArrives ==
  ASSUME EnabledInv, pc \in Talking, NEW c, Command(c)
  PROVE  op' = c
  BY DEF EnabledInv, Command
-----------------------------------------------------------------------------
LEMMA StartInv == ASSUME IInv, Start PROVE IInv'
<1>1. pc = "off" /\ pc' \in {"off", "enter"} /\ outcome' # "ok"
      /\ UNCHANGED <<saved, kills, board, cfg, op, latch>>
  BY DEF Start, board_regs, spi
<1> QED  BY <1>1 DEF IInv, EnabledInv, LatchInv, SavedInv, Talking

LEMMA EnterInv == ASSUME IInv, Enter PROVE IInv'
<1>1. pc = "enter" /\ pc' \in {"fetch", "sector"} /\ saved' = [board |-> board, cfg |-> cfg]
      /\ {"BUSYCHK", "SPICMDEN"} \subseteq cfg' /\ UNCHANGED <<outcome, kills, op, latch>>
  BY DEF Enter, EnableBits, spi
<1>2. kills = 0 => outcome # "ok" /\ saved'.board = "found"
  BY <1>1 DEF IInv, SavedInv
<1> QED  BY <1>1, <1>2 DEF IInv, EnabledInv, LatchInv, SavedInv, Talking

(* The steps of reading and writing: registers and what was saved stay.     *)
LEMMA TalkInv ==
  ASSUME IInv, pc \in Talking, pc' \in Talking,
         UNCHANGED <<outcome, saved, kills, board, cfg, latch>>,
         \/ UNCHANGED op /\ pc' \notin {"erase", "write"}
         \/ op' = "WREN"
         \/ op' \in {"FREAD", "WRDSBL"} /\ pc' \notin {"erase", "write"}
         \/ op' \in {"SECTOR_ERASE", "WRITE"} /\ pc' \notin {"erase", "write"} /\ latch
  PROVE  IInv'
<1>1. EnabledInv' /\ LatchInv'
  BY DEF IInv, EnabledInv, LatchInv, Talking
<1>2. SavedInv'
  BY DEF IInv, SavedInv, Talking
<1> QED  BY <1>1, <1>2 DEF IInv

LEMMA ReadInv == ASSUME IInv, Fetch \/ Store PROVE IInv'
<1>1. /\ pc \in Talking /\ pc' \in Talking \ {"erase", "write"}
      /\ UNCHANGED <<outcome, saved, kills, board, cfg, latch>>
  BY DEF Fetch, Store, Goes, Untouched, board_regs, Talking
<1>2. op' = "FREAD" \/ UNCHANGED op
  BY <1>1, CommandArrives DEF Fetch, Store, IInv
<1> QED  BY <1>1, <1>2, TalkInv

LEMMA WriteInv ==
  ASSUME IInv, NextSector \/ WriteEnable \/ EraseSector \/ WriteByte \/ WriteDisable
  PROVE  IInv'
<1>1. CASE NextSector
  <2>1. pc \in Talking /\ pc' \in {"erasable", "leave"}
        /\ UNCHANGED <<outcome, saved, kills, board, cfg, latch, op>>
    BY <1>1 DEF NextSector, Goes, board_regs, spi, Talking
  <2> QED  BY <2>1, TalkInv DEF Talking
<1>2. CASE WriteEnable
  <2>1. pc \in Talking /\ pc' \in {"erase", "write"} /\ Command("WREN")
        /\ UNCHANGED <<outcome, saved, kills, board, cfg, latch>>
    BY <1>2 DEF WriteEnable, Enable, Give, Goes, Untouched, board_regs, Talking
  <2> QED  BY <2>1, TalkInv, CommandArrives DEF IInv, Talking
<1>3. CASE EraseSector \/ WriteByte
  <2>1. pc \in {"erase", "write"} /\ pc' \in {"wren", "wrdi"} /\ Wait
        /\ (Command("SECTOR_ERASE") \/ Command("WRITE"))
        /\ UNCHANGED <<outcome, saved, kills, board, cfg, latch>>
    BY <1>3 DEF EraseSector, WriteByte, Give, Goes, Untouched, board_regs
  <2>2. op = "none" /\ op' \in {"SECTOR_ERASE", "WRITE"}
    BY <2>1, WaitWaits, CommandArrives DEF IInv, Talking
  <2>3. latch
    BY <2>1, <2>2 DEF IInv, LatchInv
  <2> QED  BY <2>1, <2>2, <2>3, TalkInv DEF Talking
<1>4. CASE WriteDisable
  <2>1. pc \in Talking /\ pc' = "sector" /\ Command("WRDSBL")
        /\ UNCHANGED <<outcome, saved, kills, board, cfg, latch>>
    BY <1>4 DEF WriteDisable, Give, Goes, Untouched, board_regs, Talking
  <2> QED  BY <2>1, TalkInv, CommandArrives DEF IInv, Talking
<1> QED  BY <1>1, <1>2, <1>3, <1>4

LEMMA LeaveInv == ASSUME IInv, Leave PROVE IInv'
<1>1. pc = "leave" /\ pc' = "off" /\ board' = saved.board /\ cfg' = saved.cfg
      /\ UNCHANGED <<saved, kills, op, latch>>
  BY DEF Leave, Restored, spi
<1> QED  BY <1>1 DEF IInv, EnabledInv, LatchInv, SavedInv, Talking

LEMMA CompleteInv == ASSUME IInv, Complete PROVE IInv'
<1>1. op # "none" /\ op' = "none" /\ latch' = (op = "WREN" \/ (op = "FREAD" /\ latch))
      /\ UNCHANGED <<pc, outcome, saved, kills, board, cfg>>
  BY DEF Complete, process, board_regs
<1> QED  BY <1>1 DEF IInv, EnabledInv, LatchInv, SavedInv, Talking

LEMMA KillInv == ASSUME IInv, Kill PROVE IInv'
<1>1. pc' = "off" /\ kills' = kills + 1 /\ UNCHANGED <<op, latch>>
  BY DEF Kill, spi
<1>2. kills' \in Nat /\ kills' # 0
  BY <1>1 DEF IInv, EnabledInv
<1> QED  BY <1>1, <1>2 DEF IInv, EnabledInv, LatchInv, SavedInv, Talking

LEMMA InvStep == ASSUME IInv, [Next]_vars PROVE IInv'
<1>1. CASE UNCHANGED vars
  BY <1>1 DEF vars, process, board_regs, spi, IInv, EnabledInv, LatchInv, SavedInv, Talking
<1> QED
  BY <1>1, StartInv, EnterInv, ReadInv, WriteInv, LeaveInv, CompleteInv, KillInv
  DEF Next, Process
-----------------------------------------------------------------------------
(* No command is given to a chip that is still carrying one out: the waits  *)
(* are where they are needed, and the busy bit is shown when they look.     *)
THEOREM NeverBusy == Spec => NoCommandWhileBusy
<1> DEFINE Waited ==
      (pc \in {"got", "erasable", "erase", "wren", "write", "wrdi"} /\ pc' \notin {pc, "off"})
        \/ (pc = "fetch" /\ pc' = "got")
      => op = "none"
<1>1. IInv /\ [Next]_vars => IInv'
  BY InvStep
<1>2. IInv /\ [Next]_vars => [Waited]_vars
  <2> SUFFICES ASSUME IInv, Next PROVE Waited
    OBVIOUS
  <2>1. CASE Start \/ Enter \/ NextSector \/ Leave \/ Kill
    BY <2>1 DEF Start, Enter, NextSector, Leave, Kill
  <2>2. CASE Complete
    BY <2>2 DEF Complete, process
  <2>3. CASE Fetch \/ Store \/ WriteEnable \/ EraseSector \/ WriteByte \/ WriteDisable
    <3>1. pc \in Talking /\ (Wait \/ (pc = "fetch" /\ pc' = "leave"))
      BY <2>3 DEF Fetch, Store, WriteEnable, Enable, EraseSector, WriteByte, WriteDisable, Give,
                  Goes, Talking
    <3> QED  BY <3>1, WaitWaits DEF IInv
  <2> QED  BY <2>1, <2>2, <2>3 DEF Next, Process
<1> QED  BY <1>1, <1>2, InvInit, PTL DEF Spec, NoCommandWhileBusy

(* No erase and no write is ever carried out with the latch cleared: each   *)
(* has a write enable of its own, also after a process was killed between   *)
(* the two.                                                                 *)
THEOREM AlwaysEnabled == Spec => [](op \in {"SECTOR_ERASE", "WRITE"} => latch)
<1>1. IInv /\ [Next]_vars => IInv'
  BY InvStep
<1>2. IInv => (op \in {"SECTOR_ERASE", "WRITE"} => latch)
  BY DEF IInv, LatchInv
<1> QED  BY <1>1, <1>2, InvInit, PTL DEF Spec

(* A run that ends leaves the registers as they were found, unless an       *)
(* earlier one was killed.                                                  *)
THEOREM RegistersCome == Spec => RegistersRestored
<1> DEFINE Back == outcome' = "ok" /\ kills = 0 => board' = "found" /\ cfg' = saved.cfg
<1>1. IInv /\ [Next]_vars => IInv'
  BY InvStep
<1>2. IInv /\ [Next]_vars => [Back]_vars
  <2> SUFFICES ASSUME IInv, IInv', Next, outcome' = "ok", kills = 0
               PROVE  board' = "found" /\ cfg' = saved.cfg
    BY <1>1
  <2>1. ~Enter /\ ~Kill
    BY DEF IInv, SavedInv, Enter, Kill
  <2>2. kills' = 0 /\ saved' = saved
    BY <2>1
    DEF Next, Process, Start, Fetch, Store, NextSector, WriteEnable, Enable, EraseSector,
        WriteByte, WriteDisable, Leave, Complete, Goes, Untouched, Give, process
  <2> QED  BY <2>2 DEF IInv, SavedInv
<1> QED  BY <1>1, <1>2, InvInit, PTL DEF Spec, RegistersRestored
-----------------------------------------------------------------------------
(* What a write leaves in the chip: it stays within the sectors of its      *)
(* range and, when it ends, the file is in them.                            *)

(* The program has begun a sector, and not yet counted it.                  *)
InSector == {"erasable", "erase", "wren", "write", "wrdi"}
Writes   == InSector \cup {"sector"}

(* Bytes are written one by one, the last of them last.                     *)
BytesInv ==
  /\ pc \in {"enter", "fetch", "got"} => k = 1
  /\ pc \in {"erasable", "erase"} => k = 1
  /\ pc \in {"wren", "write"} => k <= Len(buffer)

TInv == TypeOK /\ BytesInv
-----------------------------------------------------------------------------
(* Multiples and remainders.                                                *)
LEMMA Division ==
  ASSUME NEW a \in Nat, NEW m \in Nat, m > 0
  PROVE  /\ a \div m \in Nat /\ a % m \in 0..(m - 1)
         /\ a = (a \div m) * m + (a % m)
  OBVIOUS

LEMMA Aligned ==
  ASSUME NEW a \in Nat, NEW m \in Nat, m > 0
  PROVE  a - (a % m) \in Nat /\ \E q \in Nat : a - (a % m) = q * m
<1> DEFINE q == a \div m
<1>1. q \in Nat /\ a % m \in Nat /\ a = q * m + (a % m)
  BY Division
<1>2. q * m \in Nat
  BY <1>1
<1>3. a - (a % m) = q * m
  BY <1>1, <1>2
<1> QED  BY <1>1, <1>2, <1>3

LEMMA LaterMultiple ==
  ASSUME NEW q \in Nat, NEW d \in Nat, NEW m \in Nat, q < d
  PROVE  q * m + m <= d * m
<1>1. PICK e \in Nat : d = q + 1 + e
  <2> WITNESS (d - q - 1) \in Nat
  <2> QED  OBVIOUS
<1>2. d * m = q * m + m + e * m /\ e * m \in Nat /\ q * m \in Nat
  BY <1>1
<1> QED  BY <1>2

LEMMA NextMultiple ==
  ASSUME NEW q \in Nat, NEW d \in Nat, NEW m \in Nat, q * m < d * m
  PROVE  q * m + m <= d * m
<1>1. q * m \in Nat /\ d * m \in Nat
  OBVIOUS
<1>2. ~(d < q)
  BY <1>1, LaterMultiple
<1>3. d # q
  OBVIOUS
<1> QED  BY <1>2, <1>3, LaterMultiple

LEMMA SameDivision ==
  ASSUME NEW t \in Nat, NEW d \in Nat, NEW m \in Nat, NEW r \in Nat, NEW e \in Nat,
         r < m, e < m, t * m + r = d * m + e
  PROVE  t = d /\ r = e
<1>1. t * m \in Nat /\ d * m \in Nat
  OBVIOUS
<1>2. ~(t < d) /\ ~(d < t)
  BY <1>1, LaterMultiple
<1>3. t = d
  BY <1>2
<1> QED  BY <1>1, <1>3

LEMMA QuotientUnique ==
  ASSUME NEW t \in Nat, NEW m \in Nat, m > 0, NEW r \in 0..(m - 1)
  PROVE  (t * m + r) \div m = t /\ (t * m + r) % m = r
<1>1. t * m + r \in Nat
  OBVIOUS
<1> QED  BY <1>1, Division, SameDivision
-----------------------------------------------------------------------------
(* The ranges.                                                              *)
LEMMA ArgsType ==
  ASSUME args \in Args
  PROVE  /\ args.address \in 0..(CHIP - 1) /\ args.sector \in Nat /\ args.sector > 0
         /\ args.size \in Nat /\ CHIP \in Nat /\ CHIP > 0
  BY EflasherAssumption

LEMMA AskedType == ASSUME args \in Args PROVE Asked \in Nat /\ Asked > 0
  BY ArgsType DEF Asked

LEMMA SequenceType ==
  ASSUME NEW s \in Seq(BYTE), NEW m \in Nat, NEW n \in Nat, n <= Len(s)
  PROVE  /\ SubSeq(s, m + 1, n) \in Seq(BYTE)
         /\ Len(SubSeq(s, m + 1, n)) = IF m < n THEN n - m ELSE 0
         /\ \A j \in 1..Len(SubSeq(s, m + 1, n)) : SubSeq(s, m + 1, n)[j] = s[m + j]
<1>1. \A j \in (m + 1)..n : s[j] \in BYTE
  OBVIOUS
<1> QED  BY <1>1, SubSeqProperties

LEMMA SectorType ==
  ASSUME TypeOK
  PROVE  /\ Sector \in Seq(BYTE)
         /\ Len(Sector) = Least(IF i < Len(file) THEN Len(file) - i ELSE 0, args.sector)
         /\ \A j \in 1..Len(Sector) : Sector[j] = file[i + j]
<1> DEFINE n == Least(Len(file), i + args.sector)
<1>1. file \in Seq(BYTE) /\ i \in Nat /\ args.sector \in Nat /\ Len(file) \in Nat
  BY ArgsType DEF TypeOK
<1>2. n \in Nat /\ n <= Len(file) /\ n <= i + args.sector
  BY <1>1 DEF Least
<1>3. Sector = SubSeq(file, i + 1, n)
  BY DEF Sector
<1>4. (IF i < n THEN n - i ELSE 0) = Least(IF i < Len(file) THEN Len(file) - i ELSE 0, args.sector)
  BY <1>1 DEF Least
<1> HIDE DEF n
<1> QED  BY <1>1, <1>2, <1>3, <1>4, SequenceType
LEMMA TInvInit == Init => TInv
<1> SUFFICES ASSUME Init PROVE TInv
  OBVIOUS
<1>1. CHIP \in Nat /\ MaxFaults \in Nat /\ 0 \in BYTE /\ OldChip \in [0..(CHIP - 1) -> BYTE]
      /\ file \in Seq(BYTE) /\ <<>> \in Seq(BYTE) /\ Len(<<>>) = 0
  BY EflasherAssumption DEF Init, BYTE
<1>2. /\ args \in Args /\ pc \in Steps /\ outcome \in {"none", "ok", "invalid", "killed"}
      /\ cfg \in SUBSET Bits /\ board \in {"found", "prog"}
      /\ op \in {"none", "FREAD", "WREN", "SECTOR_ERASE", "WRITE", "WRDSBL"}
      /\ saved \in [board : {"found", "prog"}, cfg : SUBSET Bits]
      /\ eof \in BOOLEAN /\ latch \in BOOLEAN
  BY DEF Init, Steps
<1>3. /\ size \in Nat /\ i \in Nat /\ k \in 1..(Len(buffer) + 1) /\ buffer \in Seq(BYTE)
      /\ kills \in 0..MaxFaults /\ errors \in 0..MaxFaults
      /\ spiaddr \in Nat /\ spidata \in BYTE /\ chip \in [0..(CHIP - 1) -> BYTE]
  BY <1>1 DEF Init
<1>4. BytesInv
  BY DEF Init, BytesInv
<1> QED  BY <1>1, <1>2, <1>3, <1>4 DEF TInv, TypeOK

LEMMA StartType == ASSUME TInv, Start PROVE TInv'
<1>1. <<>> \in Seq(BYTE) /\ Len(<<>>) = 0 /\ CHIP \in Nat /\ args.size \in Nat
  BY ArgsType DEF TInv, TypeOK
<1>2. file' \in Seq(BYTE) /\ size' \in Nat /\ pc' \in {"off", "enter"}
      /\ outcome' \in {"none", "ok", "invalid", "killed"}
  BY <1>1, AskedType DEF Start, TInv, TypeOK
<1>3. eof' \in BOOLEAN /\ pc' \in Steps
  BY <1>2 DEF Start, Steps
<1>4. i' \in Nat /\ buffer' \in Seq(BYTE) /\ k' \in 1..(Len(buffer') + 1)
  BY <1>1 DEF Start
<1>5. UNCHANGED <<args, saved, kills, errors, board, cfg, spiaddr, spidata, op, chip, latch>>
  BY DEF Start, board_regs, spi
<1>6. TypeOK'
  BY <1>2, <1>3, <1>4, <1>5 DEF TInv, TypeOK
<1>7. BytesInv'
  BY <1>2 DEF Start, BytesInv
<1> QED  BY <1>6, <1>7 DEF TInv

LEMMA EnterType == ASSUME TInv, Enter PROVE TInv'
<1>1. cfg' \in SUBSET Bits /\ saved' \in [board : {"found", "prog"}, cfg : SUBSET Bits]
  BY DEF Enter, EnableBits, Bits, TInv, TypeOK
<1>2. pc' \in {"fetch", "sector"}
  BY DEF Enter
<1>3. board' = "prog" /\ k' = 1 /\ k = 1
      /\ UNCHANGED <<args, file, outcome, size, i, buffer, eof, kills, errors, spiaddr, spidata,
                     op, chip, latch>>
  BY DEF Enter, spi, TInv, BytesInv
<1>4. TypeOK'
  BY <1>1, <1>2, <1>3 DEF TInv, TypeOK, Steps
<1>5. BytesInv'
  BY <1>2, <1>3 DEF BytesInv
<1> QED  BY <1>4, <1>5 DEF TInv

LEMMA OpType ==
  ASSUME TInv, NEW c \in {"FREAD", "WREN", "SECTOR_ERASE", "WRITE", "WRDSBL"}, Command(c)
  PROVE  op' \in {"none", "FREAD", "WREN", "SECTOR_ERASE", "WRITE", "WRDSBL"}
  BY DEF Command, TInv, TypeOK

LEMMA ReadType == ASSUME TInv, Fetch \/ Store PROVE TInv'
<1>1. CASE Fetch
  <2>1. op' \in {"none", "FREAD", "WREN", "SECTOR_ERASE", "WRITE", "WRDSBL"}
    BY <1>1, OpType DEF Fetch, TInv, TypeOK
  <2>2. spiaddr' \in Nat /\ spidata' \in BYTE /\ pc' \in {"got", "leave"}
    BY <1>1 DEF Fetch, At, Goes, TInv, TypeOK
  <2> QED  BY <1>1, <2>1, <2>2 DEF Fetch, Goes, Untouched, board_regs, TInv, TypeOK, BytesInv, Steps
<1>2. CASE Store
  <2>1. pc = "got" /\ pc' = "fetch" /\ k = 1 /\ spidata \in BYTE
    BY <1>2 DEF Store, Goes, TInv, TypeOK, BytesInv
  <2>2. Append(buffer, spidata) \in Seq(BYTE) /\ <<>> \in Seq(BYTE)
    BY <2>1 DEF TInv, TypeOK
  <2>3. file' \in Seq(BYTE) /\ buffer' \in Seq(BYTE) /\ i' \in Nat
    BY <1>2, <2>2 DEF Store, TInv, TypeOK
  <2>4. k' \in 1..(Len(buffer') + 1)
    BY <1>2, <2>1, <2>3 DEF Store
  <2>5. UNCHANGED <<args, outcome, size, k, eof, saved, kills, errors, board, cfg, spiaddr, spidata, op, chip, latch>>
    BY <1>2 DEF Store, Goes, Untouched, Unaddressed, board_regs
  <2> QED  BY <2>1, <2>3, <2>4, <2>5 DEF TInv, TypeOK, BytesInv, Steps
<1> QED  BY <1>1, <1>2

LEMMA NextSectorType == ASSUME TInv, NextSector PROVE TInv'
<1>1. CASE More
  <2>1. Sector \in Seq(BYTE)
    BY SectorType DEF TInv
  <2>2. buffer' \in Seq(BYTE) /\ errors' \in 0..MaxFaults
    <3>1. CASE buffer' = Sector /\ UNCHANGED errors
      BY <2>1, <3>1 DEF TInv, TypeOK
    <3>2. ASSUME kills + errors < MaxFaults, errors' = errors + 1,
                 NEW n \in 0..(Len(Sector) - 1), buffer' = SubSeq(Sector, 1, n)
          PROVE  buffer' \in Seq(BYTE) /\ errors' \in 0..MaxFaults
      <4>1. n \in Nat /\ n <= Len(Sector) /\ 0 + 1 = 1
        BY <2>1, <3>2
      <4>2. SubSeq(Sector, 0 + 1, n) \in Seq(BYTE)
        BY <2>1, <4>1, SequenceType
      <4>3. MaxFaults \in Nat
        BY EflasherAssumption
      <4> QED  BY <3>2, <4>1, <4>2, <4>3 DEF TInv, TypeOK
    <3> QED  BY <1>1, <3>1, <3>2 DEF NextSector
  <2>3. k' = 1 /\ eof' \in BOOLEAN /\ pc' = "erasable"
    BY <1>1 DEF NextSector, ShortRead, FirstByte, Goes
  <2>4. UNCHANGED <<args, file, outcome, size, saved, i, kills, board, cfg, spiaddr, spidata, op,
                    chip, latch>>
    BY <1>1 DEF NextSector, Goes, board_regs, spi
  <2>5. k' \in 1..(Len(buffer') + 1)
    BY <2>2, <2>3
  <2>6. TypeOK'
    BY <2>2, <2>3, <2>4, <2>5 DEF TInv, TypeOK, Steps
  <2> QED  BY <2>3, <2>6 DEF TInv, BytesInv
<1>2. CASE ~More
  <2>1. pc' = "leave" /\ UNCHANGED <<buffer, k, eof, errors, args, file, outcome, size, saved, i,
                    kills, board, cfg, spiaddr, spidata, op, chip, latch>>
    BY <1>2 DEF NextSector, Goes, board_regs, spi
  <2> QED  BY <2>1 DEF TInv, TypeOK, BytesInv, Steps
<1> QED  BY <1>1, <1>2

LEMMA BaseType ==
  ASSUME args \in Args
  PROVE  Base \in Nat /\ \E q \in Nat : Base = q * args.sector
<1>1. args.address \in Nat /\ args.sector \in Nat /\ args.sector > 0
  BY ArgsType
<1>2. args.address - (args.address % args.sector) \in Nat
      /\ \E q \in Nat : args.address - (args.address % args.sector) = q * args.sector
  BY <1>1, Aligned
<1> QED  BY <1>2 DEF Base

LEMMA WriteType ==
  ASSUME TInv, WriteEnable \/ EraseSector \/ WriteByte \/ WriteDisable
  PROVE  TInv'
<1>1. UNCHANGED <<args, file, buffer, eof, outcome, size, saved, kills, errors, board, cfg, chip, latch>>
  BY DEF WriteEnable, EraseSector, WriteByte, WriteDisable, Enable, Give, Goes, Untouched, board_regs
<1>2. op' \in {"none", "FREAD", "WREN", "SECTOR_ERASE", "WRITE", "WRDSBL"}
  <2>1. Command("WREN") \/ Command("SECTOR_ERASE") \/ Command("WRITE") \/ Command("WRDSBL")
    BY DEF WriteEnable, EraseSector, WriteByte, WriteDisable, Enable, Give
  <2> QED  BY <2>1, OpType
<1>3. Base \in Nat /\ i \in Nat /\ args.sector \in Nat /\ buffer \in Seq(BYTE) /\ Len(buffer) \in Nat
      /\ spiaddr \in Nat /\ spidata \in BYTE /\ k \in 1..(Len(buffer) + 1)
  BY BaseType, ArgsType DEF TInv, TypeOK
<1>4. CASE WriteEnable
  <2>1. pc' \in {"erase", "write"} /\ UNCHANGED <<i, k, spiaddr, spidata>>
        /\ (pc' = "erase" => pc = "erasable") /\ (pc' = "write" => pc = "wren")
    BY <1>4 DEF WriteEnable, Enable, Give, Goes, Unaddressed
  <2>2. TypeOK'
    BY <1>1, <1>2, <1>3, <2>1 DEF TInv, TypeOK, Steps
  <2> QED  BY <1>1, <2>1, <2>2 DEF TInv, BytesInv
<1>5. CASE EraseSector
  <2>1. pc = "erase" /\ pc' = (IF buffer = <<>> THEN "wrdi" ELSE "wren") /\ UNCHANGED <<i, k>>
        /\ spiaddr' = Base + i /\ spidata' = spidata
    BY <1>5 DEF EraseSector, Give, Goes, At
  <2>2. TypeOK'
    BY <1>1, <1>2, <1>3, <2>1 DEF TInv, TypeOK, Steps
  <2>3. k = 1 /\ (buffer # <<>> => k <= Len(buffer))
    BY <1>3, <2>1 DEF TInv, BytesInv
  <2> QED  BY <1>1, <2>1, <2>2, <2>3 DEF TInv, BytesInv
<1>6. CASE WriteByte
  <2>1. pc = "write" /\ pc' = (IF k = Len(buffer) THEN "wrdi" ELSE "wren") /\ UNCHANGED i
        /\ k' = k + 1 /\ spiaddr' = Base + i + k - 1 /\ spidata' = buffer[k]
    BY <1>6 DEF WriteByte, Give, Goes, At
  <2>2. k <= Len(buffer)
    BY <2>1 DEF TInv, BytesInv
  <2>3. k' \in 1..(Len(buffer) + 1) /\ spiaddr' \in Nat /\ spidata' \in BYTE
    BY <1>3, <2>1, <2>2
  <2>4. TypeOK'
    BY <1>1, <1>2, <1>3, <2>1, <2>3 DEF TInv, TypeOK, Steps
  <2>5. pc' = "wren" => k' <= Len(buffer)
    BY <1>3, <2>1, <2>2
  <2> QED  BY <1>1, <2>1, <2>4, <2>5 DEF TInv, BytesInv
<1>7. CASE WriteDisable
  <2>1. pc' = "sector" /\ i' = i + args.sector /\ UNCHANGED <<k, spiaddr, spidata>>
    BY <1>7 DEF WriteDisable, Give, Goes, Unaddressed
  <2>2. TypeOK'
    BY <1>1, <1>2, <1>3, <2>1 DEF TInv, TypeOK, Steps
  <2> QED  BY <2>1, <2>2 DEF TInv, BytesInv
<1> QED  BY <1>4, <1>5, <1>6, <1>7

LEMMA CompleteType == ASSUME TInv, Complete PROVE TInv'
<1> DEFINE a == spiaddr % CHIP
<1>1. CHIP \in Nat /\ CHIP > 0 /\ chip \in [0..(CHIP - 1) -> BYTE] /\ spiaddr \in Nat
      /\ spidata \in BYTE /\ 0 \in BYTE /\ 255 \in BYTE
  BY ArgsType DEF TInv, TypeOK, BYTE
<1>2. a \in 0..(CHIP - 1)
  BY <1>1, Division
<1>3. Erased(chip, a) \in [0..(CHIP - 1) -> BYTE] /\ Programmed(chip, a) \in [0..(CHIP - 1) -> BYTE]
  BY <1>1, <1>2 DEF Erased, Programmed
<1>4. chip' \in [0..(CHIP - 1) -> BYTE]
  BY <1>1, <1>3 DEF Complete
<1>5. spidata' \in BYTE
  BY <1>1, <1>2 DEF Complete
<1>6. op' = "none"
      /\ UNCHANGED <<args, file, pc, outcome, size, i, buffer, k, eof, saved, kills, errors,
                     board, cfg, spiaddr>>
  BY DEF Complete, process, board_regs
<1>7. latch' \in BOOLEAN
  BY DEF Complete
<1>8. TypeOK'
  BY <1>4, <1>5, <1>6, <1>7 DEF TInv, TypeOK
<1>9. BytesInv'
  BY <1>6 DEF TInv, BytesInv
<1> QED  BY <1>8, <1>9 DEF TInv

LEMMA EndType == ASSUME TInv, Leave \/ Kill PROVE TInv'
<1>1. pc' = "off" /\ outcome' \in {"ok", "killed"}
      /\ UNCHANGED <<args, file, size, i, buffer, k, eof, saved, errors, spiaddr, spidata, op, chip, latch>>
  BY DEF Leave, Kill, spi
<1>2. board' \in {"found", "prog"} /\ cfg' \in SUBSET Bits
  BY DEF Leave, Kill, Restored, board_regs, TInv, TypeOK
<1>3. kills' \in 0..MaxFaults
  BY EflasherAssumption DEF Leave, Kill, TInv, TypeOK
<1>4. TypeOK'
  BY <1>1, <1>2, <1>3 DEF TInv, TypeOK, Steps
<1> QED  BY <1>1, <1>4 DEF TInv, BytesInv

LEMMA TInvStep == ASSUME TInv, [Next]_vars PROVE TInv'
<1>1. CASE UNCHANGED vars
  BY <1>1 DEF vars, process, board_regs, spi, TInv, TypeOK, BytesInv
<1> QED
  BY <1>1, StartType, EnterType, ReadType, NextSectorType, WriteType, CompleteType, EndType
  DEF Next, Process

(* No operation leaves the declared ranges; a byte written is always one of *)
(* the buffer.                                                              *)
THEOREM TypeCorrect == Spec => []TypeOK
<1>1. TInv => TypeOK
  BY DEF TInv
<1> QED  BY <1>1, TInvInit, TInvStep, PTL DEF Spec
-----------------------------------------------------------------------------
(* Where the process and the command under way are.                         *)
LEMMA RoundUpBounds ==
  ASSUME NEW n \in Nat, NEW m \in Nat, m > 0
  PROVE  /\ RoundUp(n, m) \in Nat /\ n <= RoundUp(n, m)
         /\ \E d \in Nat : RoundUp(n, m) = d * m
<1> DEFINE d == (n + m - 1) \div m
           r == (n + m - 1) % m
<1>1. n + m - 1 \in Nat
  OBVIOUS
<1>2. d \in Nat /\ r \in 0..(m - 1) /\ n + m - 1 = d * m + r
  BY <1>1, Division
<1>3. d * m \in Nat
  BY <1>2
<1>4. RoundUp(n, m) = d * m
  BY DEF RoundUp
<1> HIDE DEF d, r
<1> QED  BY <1>2, <1>3, <1>4

LEMMA WholeUpTo ==
  ASSUME NEW q \in Nat, NEW n \in Nat, NEW m \in Nat, m > 0, q * m <= n
  PROVE  (n \div m + 1) * m \in Nat /\ q * m + m <= (n \div m + 1) * m
<1> DEFINE e == n \div m
           r == n % m
<1>1. e \in Nat /\ r \in 0..(m - 1) /\ n = e * m + r
  BY Division
<1> HIDE DEF e, r
<1>2. PICK f \in Nat : f = e + 1
  BY <1>1
<1>3. f * m = e * m + m /\ e * m \in Nat /\ q * m \in Nat /\ f * m \in Nat
  BY <1>1, <1>2
<1>4. q * m < f * m
  BY <1>1, <1>3
<1>5. q * m + m <= f * m
  BY <1>4, NextMultiple
<1> QED  BY <1>2, <1>3, <1>5 DEF e

LEMMA SpanType ==
  ASSUME TypeOK
  PROVE  Span \in Nat /\ args.sector \in Nat /\ args.sector > 0 /\ Base \in Nat
         /\ Len(file) \in Nat /\ size \in Nat /\ Asked \in Nat
<1>1. /\ args.sector \in Nat /\ args.sector > 0 /\ Len(file) \in Nat /\ size \in Nat /\ Base \in Nat
      /\ Asked \in Nat
  BY ArgsType, AskedType, BaseType DEF TypeOK
<1>2. RoundUp(Asked, args.sector) \in Nat
  BY <1>1, RoundUpBounds
<1>3. Len(file) \div args.sector + 1 \in Nat
  BY <1>1, Division
<1>4. (Len(file) \div args.sector + 1) * args.sector \in Nat
  BY <1>1, <1>3
<1> QED  BY <1>1, <1>2, <1>4 DEF Span, Least

(* A sector that begins before the end of what is asked for, and not behind *)
(* the end of the file, is one of those the write is about.                 *)
LEMMA SectorInSpan ==
  ASSUME TypeOK, NEW q \in Nat, q * args.sector < Asked, q * args.sector <= Len(file)
  PROVE  q * args.sector + args.sector <= Span
<1> DEFINE S == args.sector
<1>1. S \in Nat /\ S > 0 /\ Len(file) \in Nat /\ Asked \in Nat /\ q * S \in Nat
  BY SpanType
<1>2. q * S + S <= RoundUp(Asked, S)
  <2>1. PICK d \in Nat : RoundUp(Asked, S) = d * S /\ Asked <= d * S
    BY <1>1, RoundUpBounds
  <2>2. q * S < d * S
    BY <1>1, <2>1
  <2> QED  BY <1>1, <2>1, <2>2, NextMultiple
<1>3. q * S + S <= (Len(file) \div S + 1) * S
  BY <1>1, WholeUpTo
<1>4. RoundUp(Asked, S) \in Nat /\ (Len(file) \div S + 1) * S \in Nat
  BY <1>1, RoundUpBounds, WholeUpTo
<1> QED  BY <1>2, <1>3, <1>4 DEF Span, Least

(* The sectors begun are whole ones, in the file and in what is asked for;  *)
(* and the loop goes on to the next one only when there was a whole one.    *)
PlaceInv ==
  /\ pc # "off" => size = Asked
  /\ pc = "enter" => i = 0 /\ ~eof
  /\ pc \in {"fetch", "got"} => args.reads
  /\ pc \in Writes =>
       /\ ~args.reads
       /\ \E q \in Nat : i = q * args.sector
       /\ ~eof => (IF pc = "sector" THEN i ELSE i + args.sector) <= Len(file)
  /\ pc \in InSector => i < size /\ i <= Len(file) /\ Len(buffer) <= args.sector

(* An erase or a write under way, also of a process since killed, is about  *)
(* a sector of the write.                                                   *)
AddressInv ==
  /\ op \in {"SECTOR_ERASE", "WRITE"} => ~args.reads /\ size = Asked
  /\ op = "SECTOR_ERASE" =>
       \E q \in Nat : spiaddr = Base + q * args.sector /\ q * args.sector + args.sector <= Span
  /\ op = "WRITE" => spiaddr \in Base..(Base + Span - 1)

RangeInv == TInv /\ EnabledInv /\ PlaceInv /\ AddressInv

LEMMA RangeInit == Init => RangeInv
<1> SUFFICES ASSUME Init PROVE RangeInv
  OBVIOUS
<1>1. pc = "off" /\ op = "none"
  BY DEF Init
<1>2. PlaceInv /\ AddressInv
  BY <1>1 DEF PlaceInv, AddressInv, Writes, InSector
<1> QED  BY <1>2, TInvInit, InvInit DEF RangeInv, IInv

LEMMA AddressNone == ASSUME op' \notin {"SECTOR_ERASE", "WRITE"} PROVE AddressInv'
  BY DEF AddressInv

(* Steps that give no erase and no write.                                   *)
LEMMA AddressQuiet ==
  ASSUME AddressInv, args' = args, size' = size, spiaddr' = spiaddr, ~args.reads => file' = file,
         op' = op \/ op' \in {"none", "FREAD", "WREN", "WRDSBL"}
  PROVE  AddressInv'
<1>1. CASE op' \in {"none", "FREAD", "WREN", "WRDSBL"}
  BY <1>1 DEF AddressInv
<1>2. CASE op' = op /\ op \in {"SECTOR_ERASE", "WRITE"}
  <2>1. UNCHANGED <<args, size, spiaddr, file, op>>
    BY <1>2 DEF AddressInv
  <2>2. Base' = Base /\ Span' = Span /\ Asked' = Asked
    BY <2>1 DEF Base, Span, Asked
  <2> QED  BY <2>1, <2>2 DEF AddressInv
<1>3. CASE op' = op /\ op \notin {"SECTOR_ERASE", "WRITE"}
  BY <1>3 DEF AddressInv
<1> QED  BY <1>1, <1>2, <1>3

LEMMA StartRange == ASSUME RangeInv, Start PROVE PlaceInv' /\ AddressInv'
<1>1. /\ pc = "off" /\ pc' \in {"off", "enter"}
      /\ args' = args /\ op' = op /\ spiaddr' = spiaddr
      /\ size' = (IF pc' = "enter" THEN Asked ELSE size)
      /\ ~args.reads => file' = file
      /\ i' = 0 /\ ~eof'
  BY DEF Start, spi, Asked
<1>2. Asked' = Asked
  BY <1>1 DEF Asked
<1>3. PlaceInv'
  BY <1>1, <1>2 DEF PlaceInv, Writes, InSector
<1>4. CASE size' = size
  BY <1>1, <1>3, <1>4, AddressQuiet DEF RangeInv
<1>5. CASE size' # size /\ op \notin {"SECTOR_ERASE", "WRITE"}
  BY <1>1, <1>3, <1>5, AddressNone
<1>6. CASE size' # size /\ op \in {"SECTOR_ERASE", "WRITE"}
  <2>1. size = Asked
    BY <1>6 DEF RangeInv, AddressInv
  <2> QED  BY <1>1, <1>6, <2>1
<1> QED  BY <1>3, <1>4, <1>5, <1>6

LEMMA EnterRange == ASSUME RangeInv, Enter PROVE PlaceInv' /\ AddressInv'
<1>1. /\ pc = "enter" /\ pc' = (IF args.reads THEN "fetch" ELSE "sector")
      /\ UNCHANGED <<args, file, size, i, eof, op, spiaddr>>
  BY DEF Enter, spi
<1>2. AddressInv'
  BY <1>1, AddressQuiet DEF RangeInv
<1>3. i = 0 /\ size = Asked /\ Asked' = Asked /\ args.sector \in Nat /\ Len(file) \in Nat
  BY <1>1, SpanType DEF RangeInv, TInv, PlaceInv, Asked
<1>4. 0 = 0 * args.sector
  BY <1>3
<1>5. PlaceInv'
  BY <1>1, <1>3, <1>4 DEF PlaceInv, Writes, InSector
<1> QED  BY <1>2, <1>5

LEMMA ReadRange == ASSUME RangeInv, Fetch \/ Store PROVE PlaceInv' /\ AddressInv'
<1>1. /\ args.reads /\ pc' \in {"fetch", "got", "leave"}
      /\ UNCHANGED <<args, size>>
      /\ pc \in {"fetch", "got"}
  BY DEF Fetch, Store, Goes, Untouched, RangeInv, PlaceInv
<1>2. size' = Asked'
  BY <1>1 DEF RangeInv, PlaceInv, Asked
<1>3. PlaceInv'
  BY <1>1, <1>2 DEF PlaceInv, Writes, InSector
<1>4. op \notin {"SECTOR_ERASE", "WRITE"}
  BY <1>1 DEF RangeInv, AddressInv
<1>5. op' = op \/ op' = "FREAD"
  BY <1>1, CommandArrives DEF Fetch, Store, RangeInv, Talking
<1> QED  BY <1>3, <1>4, <1>5 DEF AddressInv

(* The sector in hand: from the next one of the file to counted off.        *)
LEMMA NextSectorRange == ASSUME RangeInv, NextSector PROVE PlaceInv' /\ AddressInv'
<1>1. /\ pc = "sector" /\ pc' \in {"erasable", "leave"}
      /\ args' = args /\ file' = file /\ size' = size /\ i' = i /\ op' = op /\ spiaddr' = spiaddr
  BY DEF NextSector, Goes, spi
<1>2. AddressInv'
  BY <1>1, AddressQuiet DEF RangeInv
<1>3. size' = Asked'
  BY <1>1 DEF RangeInv, PlaceInv, Asked
<1>4. CASE ~More
  <2>1. pc' = "leave"
    BY <1>4 DEF NextSector, Goes
  <2>2. PlaceInv'
    BY <1>3, <2>1 DEF PlaceInv, Writes, InSector
  <2> QED  BY <1>2, <2>2
<1>5. CASE More
  <2>1. pc' = "erasable" /\ eof' = (Len(buffer') < args.sector)
    BY <1>5 DEF NextSector, ShortRead, Goes
  <2>2. /\ i < size /\ i <= Len(file) /\ ~args.reads
        /\ \E q \in Nat : i = q * args.sector
    BY <1>1, <1>5 DEF RangeInv, PlaceInv, More, Writes
  <2>3. /\ args.sector \in Nat /\ i \in Nat /\ Len(file) \in Nat /\ Sector \in Seq(BYTE)
        /\ Len(Sector) = Least(Len(file) - i, args.sector)
        /\ Len(Sector) \in Nat
    <3>1. args.sector \in Nat /\ i \in Nat /\ Len(file) \in Nat
      BY SpanType DEF RangeInv, TInv, TypeOK
    <3>2. Sector \in Seq(BYTE)
          /\ Len(Sector) = Least(IF i < Len(file) THEN Len(file) - i ELSE 0, args.sector)
      BY SectorType DEF RangeInv, TInv
    <3>3. (IF i < Len(file) THEN Len(file) - i ELSE 0) = Len(file) - i
      BY <2>2, <3>1
    <3>4. Len(Sector) \in Nat
      BY <3>2
    <3> QED  BY <3>1, <3>2, <3>3, <3>4
  <2>4. Len(buffer') \in Nat /\ Len(buffer') <= Len(Sector)
    <3>1. CASE buffer' = Sector
      BY <2>3, <3>1
    <3>2. ASSUME NEW n \in 0..(Len(Sector) - 1), buffer' = SubSeq(Sector, 1, n)
          PROVE  Len(buffer') \in Nat /\ Len(buffer') <= Len(Sector)
      <4>1. n \in Nat /\ n <= Len(Sector) /\ 0 + 1 = 1
        BY <2>3, <3>2
      <4>2. Len(SubSeq(Sector, 0 + 1, n)) = IF 0 < n THEN n - 0 ELSE 0
        BY <2>3, <4>1, SequenceType
      <4> QED  BY <2>3, <3>2, <4>1, <4>2
    <3> QED  BY <1>5, <3>1, <3>2 DEF NextSector
  <2>5. Len(Sector) <= args.sector /\ Len(Sector) <= Len(file) - i
    BY <2>2, <2>3 DEF Least
  <2>6. Len(buffer') <= args.sector /\ (~eof' => i + args.sector <= Len(file))
    <3>1. Len(buffer') <= args.sector
      BY <2>3, <2>4, <2>5
    <3>2. Len(buffer') = args.sector => i + args.sector <= Len(file)
      BY <2>3, <2>4, <2>5
    <3>3. ~(Len(buffer') < args.sector) => Len(buffer') = args.sector
      BY <2>3, <2>4, <3>1
    <3> QED  BY <2>1, <3>1, <3>2, <3>3
  <2>7. PlaceInv'
    BY <1>1, <1>3, <2>1, <2>2, <2>6 DEF PlaceInv, Writes, InSector
  <2> QED  BY <1>2, <2>7
<1> QED  BY <1>4, <1>5

(* Commands given within a sector.                                          *)
LEMMA PlaceKept ==
  ASSUME RangeInv, pc \in InSector, pc' \in InSector,
         UNCHANGED <<args, file, size, i, eof, buffer>>
  PROVE  PlaceInv'
<1>1. size' = Asked'
  BY DEF RangeInv, PlaceInv, Asked, InSector
<1> QED  BY <1>1 DEF RangeInv, PlaceInv, Writes, InSector

LEMMA WriteRange ==
  ASSUME RangeInv, WriteEnable \/ EraseSector \/ WriteByte \/ WriteDisable
  PROVE  PlaceInv' /\ AddressInv'
<1>1. UNCHANGED <<args, file, size, eof, buffer>> /\ pc \in InSector /\ pc \in Talking
      /\ pc' \in InSector \cup {"sector"}
  BY DEF WriteEnable, EraseSector, WriteByte, WriteDisable, Enable, Give, Goes, Untouched,
         InSector, Talking
<1>2. /\ i \in Nat /\ i < size /\ i <= Len(file) /\ Len(buffer) <= args.sector /\ ~args.reads
      /\ size = Asked /\ \E q \in Nat : i = q * args.sector
      /\ k \in 1..(Len(buffer) + 1) /\ Len(buffer) \in Nat
  BY <1>1 DEF RangeInv, TInv, TypeOK, PlaceInv, Writes, InSector
<1>3. /\ args.sector \in Nat /\ args.sector > 0 /\ Base \in Nat /\ Span \in Nat
      /\ i + args.sector <= Span
  BY <1>2, SpanType, SectorInSpan DEF RangeInv, TInv
<1>4. Base' = Base /\ Span' = Span /\ Asked' = Asked
  BY <1>1 DEF Base, Span, Asked
<1>5. CASE WriteEnable
  <2>1. op' = "WREN" /\ pc' \in InSector /\ i' = i
    BY <1>1, <1>5, CommandArrives DEF WriteEnable, Enable, Give, Goes, InSector, RangeInv
  <2> QED  BY <1>1, <2>1, PlaceKept, AddressNone
<1>6. CASE EraseSector
  <2>1. op' = "SECTOR_ERASE" /\ pc' \in InSector /\ i' = i /\ spiaddr' = Base + i
    BY <1>1, <1>6, CommandArrives DEF EraseSector, Give, Goes, At, InSector, RangeInv
  <2>2. AddressInv'
    BY <1>1, <1>2, <1>3, <1>4, <2>1 DEF AddressInv
  <2> QED  BY <1>1, <2>1, <2>2, PlaceKept
<1>7. CASE WriteByte
  <2>1. op' = "WRITE" /\ pc' \in InSector /\ i' = i /\ spiaddr' = Base + i + k - 1 /\ pc = "write"
    BY <1>1, <1>7, CommandArrives DEF WriteByte, Give, Goes, At, InSector, RangeInv
  <2>2. k <= Len(buffer)
    BY <2>1 DEF RangeInv, TInv, BytesInv
  <2>3. spiaddr' \in Base..(Base + Span - 1)
    <3>1. i \in Nat /\ k \in Nat /\ 1 <= k /\ k <= args.sector
      BY <1>2, <1>3, <2>2
    <3> QED  BY <1>3, <2>1, <3>1
  <2>4. AddressInv'
    BY <1>1, <1>2, <1>4, <2>1, <2>3 DEF AddressInv
  <2> QED  BY <1>1, <2>1, <2>4, PlaceKept
<1>8. CASE WriteDisable
  <2>1. op' = "WRDSBL" /\ pc' = "sector" /\ i' = i + args.sector /\ pc = "wrdi"
    BY <1>1, <1>8, CommandArrives DEF WriteDisable, Give, Goes, RangeInv
  <2>2. \E q \in Nat : i' = q * args.sector
    <3>1. PICK q \in Nat : i = q * args.sector
      BY <1>2
    <3>2. (q + 1) * args.sector = q * args.sector + args.sector
      BY <1>3
    <3>3. q + 1 \in Nat /\ i' = (q + 1) * args.sector
      BY <2>1, <3>1, <3>2
    <3> QED  BY <3>3
  <2>3. ~eof => i' <= Len(file)
    BY <2>1 DEF RangeInv, PlaceInv, Writes, InSector
  <2>4. PlaceInv'
    BY <1>1, <1>2, <1>4, <2>1, <2>2, <2>3 DEF PlaceInv, Writes, InSector
  <2> QED  BY <2>1, <2>4, AddressNone
<1> QED  BY <1>5, <1>6, <1>7, <1>8

LEMMA CompleteRange == ASSUME RangeInv, Complete PROVE PlaceInv' /\ AddressInv'
<1>1. op' = "none" /\ UNCHANGED <<args, file, pc, size, i, eof, buffer>>
  BY DEF Complete, process
<1>2. Asked' = Asked
  BY <1>1 DEF Asked
<1>3. PlaceInv'
  BY <1>1, <1>2 DEF RangeInv, PlaceInv
<1> QED  BY <1>1, <1>3, AddressNone

LEMMA EndRange == ASSUME RangeInv, Leave \/ Kill \/ UNCHANGED vars PROVE PlaceInv' /\ AddressInv'
<1>1. args' = args /\ file' = file /\ size' = size /\ op' = op /\ spiaddr' = spiaddr
  BY DEF Leave, Kill, vars, process, spi
<1>2. AddressInv'
  BY <1>1, AddressQuiet DEF RangeInv
<1>3. CASE Leave \/ Kill
  <2>1. pc' = "off"
    BY <1>3 DEF Leave, Kill
  <2> QED  BY <1>2, <2>1 DEF PlaceInv, Writes, InSector
<1>4. CASE UNCHANGED vars
  <2>1. UNCHANGED <<args, file, pc, size, i, eof, buffer>>
    BY <1>4 DEF vars, process
  <2>2. Asked' = Asked
    BY <2>1 DEF Asked
  <2> QED  BY <1>2, <2>1, <2>2 DEF RangeInv, PlaceInv
<1> QED  BY <1>3, <1>4

LEMMA RangeStep == ASSUME IInv, RangeInv, [Next]_vars PROVE RangeInv'
<1>1. TInv' /\ EnabledInv'
  BY TInvStep, InvStep DEF RangeInv, IInv
<1>2. PlaceInv' /\ AddressInv'
  BY StartRange, EnterRange, ReadRange, NextSectorRange, WriteRange, CompleteRange, EndRange
  DEF Next, Process
<1> QED  BY <1>1, <1>2 DEF RangeInv

-----------------------------------------------------------------------------
Whole(x, m) == \E q \in Nat : x = q * m

(* An address of whole units is, modulo the size of the chip, one of them.  *)
LEMMA WrappedUnit ==
  ASSUME NEW U \in Nat, U > 0, NEW C \in Nat, C > 0, C % U = 0,
         NEW x \in Nat, Whole(x, U)
  PROVE  (x % C) % U = 0
<1>0. PICK m \in Nat : x = m * U
  BY DEF Whole
<1> DEFINE a == x % C
           e == x \div C
           n == C \div U
           t == a \div U
           r == a % U
<1>1. e \in Nat /\ a \in 0..(C - 1) /\ x = e * C + a
  BY Division
<1>2. n \in Nat /\ C = n * U + 0
  BY Division
<1>3. t \in Nat /\ r \in 0..(U - 1) /\ a = t * U + r
  BY <1>1, Division
<1> HIDE DEF a, e, n, t, r
<1>4. PICK g \in Nat : g = e * n
  BY <1>1, <1>2
<1>5. e * C = g * U
  <2>1. e * (n * U) = (e * n) * U
    BY <1>1, <1>2
  <2> QED  BY <1>2, <1>4, <2>1
<1>6. m * U + 0 = (g + t) * U + r
  <2>1. (g + t) * U = g * U + t * U
    BY <1>3
  <2>2. g * U \in Nat /\ t * U \in Nat /\ m * U \in Nat
    BY <1>3
  <2> QED  BY <1>0, <1>1, <1>3, <1>5, <2>1, <2>2
<1>7. PICK d \in Nat : d = g + t
  BY <1>3
<1>8. r \in Nat /\ r < U /\ m * U + 0 = d * U + r
  BY <1>3, <1>6, <1>7
<1>9. r = 0
  BY <1>8, SameDivision
<1> QED  BY <1>9 DEF a, r

(* The bytes erased at address x are x..x+U-1, taken modulo the size of the *)
(* chip.                                                                    *)
LEMMA ErasedBytes ==
  ASSUME NEW x \in Nat, Whole(x, UNIT),
         NEW b \in 0..(CHIP - 1), b \div UNIT = (x % CHIP) \div UNIT
  PROVE  \E r \in 0..(UNIT - 1) : (x + r) % CHIP = b
<1> DEFINE a == x % CHIP
           e == x \div CHIP
           t == a \div UNIT
           r == b % UNIT
<1>1. UNIT \in Nat /\ UNIT > 0 /\ CHIP \in Nat /\ CHIP > 0 /\ CHIP % UNIT = 0
  BY EflasherAssumption
<1>2. e \in Nat /\ a \in 0..(CHIP - 1) /\ x = e * CHIP + a
  BY <1>1, Division
<1>3. a % UNIT = 0
  BY <1>1, WrappedUnit
<1>4. t \in Nat /\ a = t * UNIT + 0
  BY <1>1, <1>2, <1>3, Division
<1>5. r \in 0..(UNIT - 1) /\ b = t * UNIT + r
  BY <1>1, Division
<1> HIDE DEF a, e, t, r
<1>6. b = a + r /\ x + r = e * CHIP + b
  <2>1. t * UNIT \in Nat /\ e * CHIP \in Nat
    BY <1>1, <1>2, <1>4
  <2> QED  BY <1>1, <1>2, <1>4, <1>5, <2>1
<1>7. (e * CHIP + b) % CHIP = b
  BY <1>1, <1>2, QuotientUnique
<1> QED  BY <1>5, <1>6, <1>7

LEMMA WholeSum ==
  ASSUME NEW U \in Nat, NEW x \in Nat, NEW y \in Nat, Whole(x, U), Whole(y, U)
  PROVE  Whole(x + y, U)
<1>1. PICK p \in Nat : x = p * U
  BY DEF Whole
<1>2. PICK q \in Nat : y = q * U
  BY DEF Whole
<1>3. (p + q) * U = p * U + q * U /\ p + q \in Nat
  OBVIOUS
<1> QED  BY <1>1, <1>2, <1>3 DEF Whole

LEMMA WholeOfWhole ==
  ASSUME NEW U \in Nat, NEW S \in Nat, NEW x \in Nat, Whole(S, U), Whole(x, S)
  PROVE  Whole(x, U)
<1>1. PICK c \in Nat : S = c * U
  BY DEF Whole
<1>2. PICK p \in Nat : x = p * S
  BY DEF Whole
<1>3. p * (c * U) = (p * c) * U /\ p * c \in Nat
  OBVIOUS
<1> QED  BY <1>1, <1>2, <1>3 DEF Whole

LEMMA WholeWhenNoRest ==
  ASSUME NEW U \in Nat, U > 0, NEW S \in Nat, S > 0, S % U = 0
  PROVE  Whole(S, U) /\ U <= S
<1> DEFINE c == S \div U
<1>1. c \in Nat /\ S = c * U + 0
  BY Division
<1> HIDE DEF c
<1>2. Whole(S, U)
  <2>1. c * U \in Nat
    BY <1>1
  <2> QED  BY <1>1, <2>1 DEF Whole
<1>3. c # 0
  BY <1>1
<1>4. PICK d \in Nat : c = d + 1
  <2>1. c - 1 \in Nat /\ c = (c - 1) + 1
    BY <1>1, <1>3
  <2> QED  BY <2>1
<1>5. S = d * U + U /\ d * U \in Nat
  BY <1>1, <1>4
<1> QED  BY <1>2, <1>5

(* What a command does to the bytes outside the sectors of the write.       *)
LEMMA OutsideKept ==
  ASSUME RangeInv, Complete, Fits, NEW b \in (0..(CHIP - 1)) \ Touched
  PROVE  chip'[b] = chip[b]
<1> DEFINE a == spiaddr % CHIP
<1>1. /\ CHIP \in Nat /\ CHIP > 0 /\ UNIT \in Nat /\ UNIT > 0 /\ CHIP % UNIT = 0
      /\ spiaddr \in Nat /\ chip \in [0..(CHIP - 1) -> BYTE]
  BY ArgsType, EflasherAssumption DEF RangeInv, TInv, TypeOK
<1>2. /\ Span \in Nat /\ args.sector \in Nat /\ args.sector > 0 /\ Base \in Nat
      /\ args.sector % UNIT = 0 /\ \E p \in Nat : Base = p * args.sector
  BY SpanType, BaseType DEF RangeInv, TInv, TypeOK, Fits
<1>3. CASE op = "WRITE" /\ latch
  <2>1. a \in Touched
    BY <1>3 DEF RangeInv, AddressInv, Touched
  <2>2. chip' = Programmed(chip, a)
    BY <1>3 DEF Complete
  <2> QED  BY <1>1, <2>1, <2>2 DEF Programmed
<1>4. CASE op = "SECTOR_ERASE" /\ latch
  <2>1. PICK q \in Nat : spiaddr = Base + q * args.sector
                         /\ q * args.sector + args.sector <= Span
    BY <1>4 DEF RangeInv, AddressInv
  <2>2. q * args.sector \in Nat /\ Whole(q * args.sector, args.sector) /\ Whole(Base, args.sector)
    BY <1>2 DEF Whole
  <2>3. UNIT <= args.sector /\ Whole(spiaddr, UNIT)
    <3>1. UNIT <= args.sector /\ Whole(args.sector, UNIT)
      BY <1>1, <1>2, WholeWhenNoRest
    <3>2. Whole(spiaddr, args.sector)
      BY <1>2, <2>1, <2>2, WholeSum
    <3> QED  BY <1>1, <1>2, <3>1, <3>2, WholeOfWhole
  <2>4. b \div UNIT # a \div UNIT
    <3>1. SUFFICES ASSUME b \div UNIT = a \div UNIT PROVE b \in Touched
      OBVIOUS
    <3>2. PICK r \in 0..(UNIT - 1) : (spiaddr + r) % CHIP = b
      <4>1. b \in 0..(CHIP - 1) /\ a = spiaddr % CHIP
        OBVIOUS
      <4> HIDE DEF a
      <4> QED  BY <1>1, <2>3, <3>1, <4>1, ErasedBytes
    <3>3. q * args.sector \in Nat
      BY <1>2
    <3>4. spiaddr + r \in Base..(Base + Span - 1)
      <4>1. r \in Nat /\ r < args.sector
        BY <1>1, <1>2, <2>3
      <4> HIDE DEF a
      <4> QED  BY <1>2, <2>1, <3>3, <4>1
    <3> QED  BY <3>2, <3>4 DEF Touched
  <2>5. chip' = Erased(chip, a)
    BY <1>4 DEF Complete
  <2> QED  BY <2>4, <2>5 DEF Erased
<1>5. CASE ~(op = "WRITE" /\ latch) /\ ~(op = "SECTOR_ERASE" /\ latch)
  <2>1. chip' = chip
    BY <1>5 DEF Complete
  <2> QED  BY <2>1
<1> QED  BY <1>3, <1>4, <1>5

(* Killed or not, a write erases and writes nothing outside the sectors it  *)
(* was asked to write, whatever the chip, file, address and size, and also  *)
(* where the addresses wrap at the end of the chip.                         *)
THEOREM KeepsOutside == Spec => WriteKeepsOutside
<1>1. Init => IInv /\ RangeInv
  BY InvInit, RangeInit
<1>2. IInv /\ RangeInv /\ [Next]_vars => (IInv /\ RangeInv)'
  BY RangeStep, InvStep
<1>3. RangeInv /\ [Next]_vars
        => [Fits /\ chip' # chip => \A a \in 0..(CHIP - 1) \ Touched : chip'[a] = chip[a]]_vars
  <2> SUFFICES ASSUME RangeInv, Next, Fits, chip' # chip, NEW b \in (0..(CHIP - 1)) \ Touched
               PROVE  chip'[b] = chip[b]
    OBVIOUS
  <2>1. CASE Complete
    BY <2>1, OutsideKept
  <2>2. CASE Start \/ Process \/ Kill
    <3>1. chip' = chip
      BY <2>2 DEF Start, Process, Enter, Fetch, Store, NextSector, WriteEnable, EraseSector,
                  WriteByte, WriteDisable, Leave, Kill, Untouched, spi
    <3> QED  BY <3>1
  <2> QED  BY <2>1, <2>2 DEF Next
<1> QED  BY <1>1, <1>2, <1>3, PTL DEF Spec, WriteKeepsOutside

-----------------------------------------------------------------------------
(* What a write leaves in the chip when the sector size is that of the chip *)
(* and the sectors are all on it.                                           *)
Harmful == {"SECTOR_ERASE", "WRITE"}

(* A command under way changes only what the process is working on; one a   *)
(* killed process gave has ended before the next is done with its first     *)
(* sector.                                                                  *)
OrderInv ==
  /\ pc \in {"sector", "erasable"} /\ op \in Harmful => i = 0
  /\ pc \in {"wren", "write", "wrdi"} =>
       /\ op = "SECTOR_ERASE" => spiaddr = Base + i /\ k = 1
       /\ op = "WRITE" => k >= 2 /\ spiaddr = Base + i + k - 2
  /\ pc = "wrdi" => k = Len(buffer) + 1
  /\ pc = "sector" /\ eof => i > 0
  /\ pc \in {"enter"} \cup Talking => outcome = "none"
  /\ pc = "leave" \/ outcome = "ok" => op \notin Harmful

(* What is still to be written of the sector is erased.                     *)
ErasedInv ==
  Suits =>
    /\ op = "WRITE" => chip[spiaddr] = 255
    /\ pc \in {"wren", "write"} /\ op # "SECTOR_ERASE" =>
         \A n \in k..UNIT : chip[Base + i + n - 1] = 255

Byte(n) == chip[Base + n - 1] = file[n]

(* The sectors done hold the file, and so do the bytes done of the one in   *)
(* hand, but for the last while it is being written.                        *)
ContentInv ==
  Suits /\ errors = 0 =>
    /\ pc \in Writes \cup {"leave"} => \A n \in 1..Least(i, Len(file)) : Byte(n)
    /\ pc \in InSector => buffer = Sector /\ (eof => Len(file) <= i + UNIT)
    /\ pc \in {"wren", "write", "wrdi"} =>
         /\ \A n \in 1..(k - 1) : Byte(i + n) \/ (op = "WRITE" /\ n = k - 1)
         /\ op = "WRITE" => spidata = file[i + k - 1]
    /\ pc = "sector" /\ eof => Len(file) <= i
    /\ pc = "leave" => (size <= i \/ Len(file) <= i) /\ Whole(i, UNIT)
    /\ outcome = "ok" => \A n \in 1..Least(Len(file), RoundUp(size, UNIT)) : Byte(n)

CInv == IInv /\ RangeInv /\ OrderInv /\ ErasedInv /\ ContentInv

LEMMA CInit == Init => OrderInv /\ ErasedInv /\ ContentInv
<1> SUFFICES ASSUME Init PROVE OrderInv /\ ErasedInv /\ ContentInv
  OBVIOUS
<1>1. pc = "off" /\ op = "none" /\ outcome = "none"
  BY DEF Init
<1> QED  BY <1>1 DEF OrderInv, ErasedInv, ContentInv, Harmful, Writes, InSector, Talking

(* The order of the commands.                                               *)
LEMMA StartOrder == ASSUME CInv, Start PROVE OrderInv'
<1>1. pc' \in {"off", "enter"} /\ outcome' \in {"none", "invalid"}
      /\ (pc' = "enter" => outcome' = "none")
  BY DEF Start
<1> QED  BY <1>1 DEF OrderInv, Talking

LEMMA ReadOrder == ASSUME CInv, Enter \/ Fetch \/ Store PROVE OrderInv'
<1>1. pc' \in {"sector", "fetch", "got", "leave"} /\ outcome' = outcome /\ pc \in {"enter"} \cup Talking
      /\ (pc' = "sector" => eof' = eof /\ i' = i /\ pc = "enter")
      /\ (pc' = "leave" => args.reads /\ op' = op)
  BY DEF Enter, Fetch, Store, Goes, Talking, CInv, RangeInv, PlaceInv
<1>2. pc' = "sector" => i' = 0 /\ ~eof'
  BY <1>1 DEF CInv, RangeInv, PlaceInv
<1>3. pc' = "leave" => op' \notin Harmful
  BY <1>1 DEF CInv, RangeInv, AddressInv, Harmful
<1>4. outcome' = "none"
  BY <1>1 DEF CInv, OrderInv
<1> QED  BY <1>1, <1>2, <1>3, <1>4 DEF OrderInv

LEMMA NextSectorOrder == ASSUME CInv, NextSector PROVE OrderInv'
<1>1. /\ pc = "sector" /\ pc' \in {"erasable", "leave"}
      /\ outcome' = outcome /\ op' = op /\ i' = i /\ args' = args
      /\ (pc' = "leave" => ~More)
  BY DEF NextSector, Goes, spi
<1>2. outcome' = "none"
  BY <1>1 DEF CInv, OrderInv, Talking
<1>3. op' \in Harmful => i' = 0
  BY <1>1 DEF CInv, OrderInv
<1>4. pc' = "leave" => op' \notin Harmful
  <2>1. SUFFICES ASSUME pc' = "leave", op \in Harmful PROVE FALSE
    BY <1>1
  <2>2. i = 0 /\ ~eof
    BY <1>1, <2>1 DEF CInv, OrderInv
  <2>3. size > 0
    <3>1. size = Asked
      BY <1>1 DEF CInv, RangeInv, PlaceInv
    <3> QED  BY <3>1, AskedType DEF CInv, RangeInv, TInv, TypeOK
  <2> QED  BY <1>1, <2>1, <2>2, <2>3 DEF More
<1> QED  BY <1>1, <1>2, <1>3, <1>4 DEF OrderInv

LEMMA WriteOrder ==
  ASSUME CInv, WriteEnable \/ EraseSector \/ WriteByte \/ WriteDisable
  PROVE  OrderInv'
<1>1. UNCHANGED <<args, outcome, buffer>> /\ pc \in InSector /\ outcome = "none"
      /\ Base' = Base
  BY DEF WriteEnable, EraseSector, WriteByte, WriteDisable, Enable, Give, Goes, Untouched,
         InSector, Talking, CInv, OrderInv, Base
<1>2. /\ args.sector \in Nat /\ args.sector > 0 /\ i \in Nat /\ Base \in Nat
      /\ Len(buffer) \in Nat /\ k \in 1..(Len(buffer) + 1)
  BY SpanType DEF CInv, RangeInv, TInv, TypeOK
<1>3. EnabledInv /\ pc \in Talking
  BY <1>1 DEF CInv, RangeInv, InSector, Talking
<1>4. CASE WriteEnable
  <2>1. op' = "WREN" /\ pc' \in {"erase", "write"}
    BY <1>3, <1>4, CommandArrives DEF WriteEnable, Enable, Give, Goes
  <2> QED  BY <1>1, <2>1 DEF OrderInv, Harmful
<1>5. CASE EraseSector
  <2>1. op' = "SECTOR_ERASE" /\ pc' \in {"wren", "wrdi"} /\ UNCHANGED <<i, k>>
        /\ spiaddr' = Base + i /\ pc = "erase" /\ (pc' = "wrdi" => buffer = <<>>)
    BY <1>3, <1>5, CommandArrives DEF EraseSector, Give, Goes, At
  <2>2. k = 1
    BY <2>1 DEF CInv, RangeInv, TInv, BytesInv
  <2>3. pc' = "wrdi" => k' = Len(buffer') + 1
    BY <1>1, <2>1, <2>2
  <2> QED  BY <1>1, <2>1, <2>2, <2>3 DEF OrderInv
<1>6. CASE WriteByte
  <2>1. op' = "WRITE" /\ pc' = (IF k = Len(buffer) THEN "wrdi" ELSE "wren") /\ i' = i
        /\ k' = k + 1 /\ spiaddr' = Base + i + k - 1
    BY <1>3, <1>6, CommandArrives DEF WriteByte, Give, Goes, At
  <2>2. k' >= 2 /\ spiaddr' = Base + i' + k' - 2
    BY <1>2, <2>1
  <2>3. pc' = "wrdi" => k' = Len(buffer') + 1
    BY <1>1, <2>1
  <2>4. spiaddr' = Base' + i' + k' - 2
    BY <1>1, <2>2
  <2> QED  BY <1>1, <2>1, <2>2, <2>3, <2>4 DEF OrderInv
<1>7. CASE WriteDisable
  <2>1. op' = "WRDSBL" /\ pc' = "sector" /\ i' = i + args.sector
    BY <1>3, <1>7, CommandArrives DEF WriteDisable, Give, Goes
  <2>2. i' > 0
    BY <1>2, <2>1
  <2> QED  BY <1>1, <2>1, <2>2 DEF OrderInv, Harmful
<1> QED  BY <1>4, <1>5, <1>6, <1>7

LEMMA CompleteOrder == ASSUME CInv, Complete PROVE OrderInv'
<1>1. op' = "none" /\ UNCHANGED <<args, pc, outcome, i, k, buffer, eof>>
  BY DEF Complete, process
<1> QED  BY <1>1 DEF CInv, OrderInv, Harmful

LEMMA EndOrder == ASSUME CInv, Leave \/ Kill PROVE OrderInv'
<1>1. pc' = "off" /\ op' = op /\ outcome' \in {"ok", "killed"}
      /\ (outcome' = "ok" => pc = "leave")
  BY DEF Leave, Kill, spi
<1> QED  BY <1>1 DEF CInv, OrderInv, Talking
-----------------------------------------------------------------------------
(* Sectors of the chip.                                                     *)
LEMMA UnitOf ==
  ASSUME NEW x \in 0..(CHIP - 1), Whole(x, UNIT), NEW b \in 0..(CHIP - 1)
  PROVE  /\ b < x => b \div UNIT # x \div UNIT
         /\ x <= b /\ b < x + UNIT => b \div UNIT = x \div UNIT
         /\ x + UNIT <= b => b \div UNIT # x \div UNIT
<1> DEFINE t == x \div UNIT
           d == b \div UNIT
           r == b % UNIT
<1>1. UNIT \in Nat /\ UNIT > 0 /\ CHIP \in Nat
  BY EflasherAssumption
<1>2. t \in Nat /\ x = t * UNIT
  <2>1. PICK q \in Nat : x = q * UNIT
    BY DEF Whole
  <2>2. (q * UNIT + 0) \div UNIT = q
    BY <1>1, QuotientUnique
  <2>3. q * UNIT \in Nat
    BY <1>1
  <2> QED  BY <2>1, <2>2, <2>3
<1>3. d \in Nat /\ r \in 0..(UNIT - 1) /\ b = d * UNIT + r
  BY <1>1, Division
<1> HIDE DEF t, d, r
<1>4. t * UNIT \in Nat /\ d * UNIT \in Nat
  BY <1>1, <1>2, <1>3
<1>5. b < x => d # t
  BY <1>1, <1>2, <1>3, <1>4
<1>6. ASSUME x <= b, b < x + UNIT PROVE d = t
  <2>1. PICK e \in Nat : b = x + e
    <3>1. b - x \in Nat /\ b = x + (b - x)
      BY <1>6
    <3> QED  BY <3>1
  <2>2. e < UNIT
    BY <1>1, <1>6, <2>1
  <2>3. d * UNIT + r = t * UNIT + e
    BY <1>2, <1>3, <2>1
  <2> QED  BY <1>1, <1>2, <1>3, <2>2, <2>3, SameDivision
<1>7. x + UNIT <= b => d # t
  BY <1>1, <1>2, <1>3, <1>4
<1> QED  BY <1>5, <1>6, <1>7 DEF t, d

LEMMA UnitErased ==
  ASSUME NEW x \in 0..(CHIP - 1), Whole(x, UNIT), NEW b \in 0..(CHIP - 1),
         x <= b, b < x + UNIT
  PROVE  Erased(chip, x)[b] = 255
<1>1. b \div UNIT = x \div UNIT
  BY UnitOf
<1> QED  BY <1>1 DEF Erased

LEMMA BelowKept ==
  ASSUME NEW x \in 0..(CHIP - 1), Whole(x, UNIT), NEW b \in 0..(CHIP - 1), b < x
  PROVE  Erased(chip, x)[b] = chip[b]
<1>1. b \div UNIT # x \div UNIT
  BY UnitOf
<1> QED  BY <1>1 DEF Erased

(* The sector in hand is a whole unit of the chip.                          *)
LEMMA InHand ==
  ASSUME CInv, Suits, pc \in InSector
  PROVE  /\ Base \in Nat /\ i \in Nat /\ UNIT \in Nat /\ UNIT > 0 /\ CHIP \in Nat
         /\ Base + i + UNIT <= CHIP /\ Whole(Base + i, UNIT)
         /\ i <= Len(file) /\ Len(file) \in Nat /\ Len(buffer) \in Nat /\ Len(buffer) <= UNIT
         /\ k \in 1..(Len(buffer) + 1)
<1>1. /\ TypeOK /\ i < Asked /\ i <= Len(file) /\ Len(buffer) <= args.sector
      /\ \E q \in Nat : i = q * args.sector
  BY DEF CInv, RangeInv, TInv, PlaceInv, Writes, InSector
<1>2. /\ Span \in Nat /\ args.sector = UNIT /\ UNIT > 0 /\ UNIT \in Nat /\ Base \in Nat
      /\ Len(file) \in Nat /\ i \in Nat /\ CHIP \in Nat /\ Base + Span <= CHIP
      /\ Len(buffer) \in Nat /\ k \in 1..(Len(buffer) + 1)
  BY <1>1, SpanType, ArgsType DEF Suits, TypeOK
<1>3. i + UNIT <= Span
  BY <1>1, <1>2, SectorInSpan
<1>4. Whole(Base, UNIT) /\ Whole(i, UNIT)
  BY <1>1, <1>2, BaseType DEF TypeOK, Whole
<1>5. Whole(Base + i, UNIT)
  BY <1>2, <1>4, WholeSum
<1>6. Base + i + UNIT <= CHIP
  BY <1>2, <1>3
<1> QED  BY <1>1, <1>2, <1>5, <1>6

(* What the chip does with an erase or a write.                             *)
LEMMA Effect ==
  ASSUME CInv, Suits, Complete, op \in Harmful
  PROVE  /\ spiaddr \in 0..(CHIP - 1)
         /\ op = "SECTOR_ERASE" => Whole(spiaddr, UNIT) /\ chip' = Erased(chip, spiaddr)
         /\ op = "WRITE" => chip' = [chip EXCEPT ![spiaddr] = spidata]
<1>1. /\ Span \in Nat /\ args.sector = UNIT /\ UNIT > 0 /\ UNIT \in Nat /\ Base \in Nat
      /\ CHIP \in Nat /\ CHIP > 0 /\ Base + Span <= CHIP /\ Whole(Base, UNIT)
  BY SpanType, ArgsType, BaseType DEF Suits, CInv, RangeInv, TInv, TypeOK, Whole
<1>2. spiaddr \in 0..(CHIP - 1) /\ (op = "SECTOR_ERASE" => Whole(spiaddr, UNIT))
  <2>1. CASE op = "WRITE"
    <3>1. spiaddr \in Base..(Base + Span - 1)
      BY <2>1 DEF CInv, RangeInv, AddressInv
    <3> QED  BY <1>1, <2>1, <3>1
  <2>2. CASE op = "SECTOR_ERASE"
    <3>1. PICK q \in Nat : spiaddr = Base + q * UNIT /\ q * UNIT + UNIT <= Span
      BY <1>1, <2>2 DEF CInv, RangeInv, AddressInv
    <3>2. q * UNIT \in Nat /\ Whole(q * UNIT, UNIT)
      BY <1>1 DEF Whole
    <3>3. Whole(spiaddr, UNIT)
      BY <1>1, <3>1, <3>2, WholeSum
    <3>4. spiaddr \in 0..(CHIP - 1)
      BY <1>1, <3>1, <3>2
    <3> QED  BY <3>3, <3>4
  <2> QED  BY <2>1, <2>2 DEF Harmful
<1>3. spiaddr % CHIP = spiaddr
  <2>1. (0 * CHIP + spiaddr) % CHIP = spiaddr
    BY <1>1, <1>2, QuotientUnique
  <2>2. 0 * CHIP + spiaddr = spiaddr
    BY <1>1, <1>2
  <2> QED  BY <2>1, <2>2
<1>4. latch
  BY DEF CInv, IInv, LatchInv, Harmful
<1>5. op = "SECTOR_ERASE" => chip' = Erased(chip, spiaddr)
  BY <1>3, <1>4 DEF Complete
<1>6. op = "WRITE" => chip' = [chip EXCEPT ![spiaddr] = spidata]
  <2>1. op = "WRITE" => chip[spiaddr] = 255
    BY DEF CInv, ErasedInv
  <2>2. op = "WRITE" => chip' = Programmed(chip, spiaddr)
    BY <1>3, <1>4 DEF Complete
  <2> QED  BY <2>1, <2>2 DEF Programmed
<1> QED  BY <1>2, <1>5, <1>6

LEMMA NoEffect ==
  ASSUME Complete, op \notin Harmful
  PROVE  chip' = chip
  BY DEF Complete, Harmful

LEMMA Setting ==
  ASSUME UNCHANGED <<args, file>>
  PROVE  Base' = Base /\ Span' = Span /\ Suits' = Suits /\ Asked' = Asked
  BY DEF Base, Span, Suits, Asked
-----------------------------------------------------------------------------
(* Nothing is written over what is not erased.                              *)
LEMMA ErasedQuiet ==
  ASSUME CInv, UNCHANGED <<args, file, size, chip>>, pc' \notin {"wren", "write"},
         op' = "WRITE" => op = "WRITE" /\ spiaddr' = spiaddr
  PROVE  ErasedInv'
<1>1. Suits' = Suits
  BY Setting
<1> QED  BY <1>1 DEF CInv, ErasedInv

LEMMA StartErased == ASSUME CInv, Start PROVE ErasedInv'
<1>1. /\ pc' \in {"off", "enter"} /\ UNCHANGED <<args, op, spiaddr, chip>>
      /\ size' \in {size, Asked}
      /\ ~args.reads => file' = file
  BY DEF Start, spi, Asked
<1>2. CASE op = "WRITE"
  <2>1. UNCHANGED <<file, size>>
    BY <1>1, <1>2 DEF CInv, RangeInv, AddressInv
  <2> QED  BY <1>1, <2>1, ErasedQuiet
<1>3. CASE op # "WRITE"
  BY <1>1, <1>3 DEF ErasedInv
<1> QED  BY <1>2, <1>3

LEMMA ReadErased == ASSUME CInv, Enter \/ Fetch \/ Store PROVE ErasedInv'
<1>1. CASE Enter
  <2>1. pc' \in {"fetch", "sector"} /\ UNCHANGED <<args, file, size, chip, op, spiaddr>>
    BY <1>1 DEF Enter, spi
  <2> QED  BY <2>1, ErasedQuiet
<1>2. CASE Fetch \/ Store
  <2>1. args.reads /\ args' = args
    BY <1>2 DEF Fetch, Store, Untouched, CInv, RangeInv, PlaceInv
  <2> QED  BY <2>1 DEF ErasedInv, Suits
<1> QED  BY <1>1, <1>2

LEMMA WriteErased ==
  ASSUME CInv, WriteEnable \/ EraseSector \/ WriteByte \/ WriteDisable
  PROVE  ErasedInv'
<1>1. UNCHANGED <<args, file, size, chip, buffer>> /\ pc \in InSector
  BY DEF WriteEnable, EraseSector, WriteByte, WriteDisable, Enable, Give, Goes, Untouched, InSector
<1>2. EnabledInv /\ pc \in Talking /\ Wait
  BY <1>1 DEF WriteEnable, EraseSector, WriteByte, WriteDisable, Enable, Give,
              CInv, RangeInv, InSector, Talking
<1>3. op = "none"
  BY <1>2, WaitWaits
<1>4. Base' = Base /\ Suits' = Suits
  BY <1>1, Setting
<1>5. CASE WriteEnable
  <2>1. op' = "WREN" /\ pc' \in {"erase", "write"} /\ UNCHANGED <<i, k>>
        /\ (pc' = "write" => pc = "wren")
    BY <1>2, <1>5, CommandArrives DEF WriteEnable, Enable, Give, Goes
  <2> QED  BY <1>1, <1>3, <1>4, <2>1 DEF CInv, ErasedInv
<1>6. CASE EraseSector
  <2>1. op' = "SECTOR_ERASE"
    BY <1>2, <1>6, CommandArrives DEF EraseSector, Give
  <2> QED  BY <2>1 DEF ErasedInv
<1>7. CASE WriteByte
  <2> SUFFICES ASSUME Suits
               PROVE  /\ chip'[spiaddr'] = 255
                      /\ \A n \in k'..UNIT : chip'[Base' + i' + n - 1] = 255
    BY <1>4 DEF ErasedInv
  <2>1. pc = "write" /\ k' = k + 1 /\ spiaddr' = Base + i + k - 1 /\ i' = i
    BY <1>7 DEF WriteByte, Give, Goes, At
  <2>2. k <= Len(buffer)
    BY <2>1 DEF CInv, RangeInv, TInv, BytesInv
  <2>3. /\ k \in Nat /\ UNIT \in Nat /\ k <= UNIT
    BY <1>1, <2>2, InHand
  <2>4. \A n \in k..UNIT : chip[Base + i + n - 1] = 255
    BY <1>3, <2>1 DEF CInv, ErasedInv
  <2>5. k \in k..UNIT /\ \A n \in k'..UNIT : n \in k..UNIT
    BY <2>1, <2>3
  <2> QED  BY <1>1, <1>4, <2>1, <2>4, <2>5
<1>8. CASE WriteDisable
  <2>1. op' = "WRDSBL" /\ pc' = "sector"
    BY <1>2, <1>8, CommandArrives DEF WriteDisable, Give, Goes
  <2> QED  BY <2>1 DEF ErasedInv
<1> QED  BY <1>5, <1>6, <1>7, <1>8

LEMMA CompleteErased == ASSUME CInv, Complete PROVE ErasedInv'
<1>1. op' = "none" /\ UNCHANGED <<args, file, size, pc, i, k, buffer>>
  BY DEF Complete, process
<1>2. Base' = Base /\ Suits' = Suits
  BY <1>1, Setting
<1> SUFFICES ASSUME Suits, pc \in {"wren", "write"}, NEW n \in k..UNIT
             PROVE  chip'[Base + i + n - 1] = 255
  BY <1>1, <1>2 DEF ErasedInv
<1> DEFINE b == Base + i + n - 1
<1>3. /\ Base \in Nat /\ i \in Nat /\ UNIT \in Nat /\ CHIP \in Nat
      /\ k \in Nat /\ k >= 1 /\ Base + i + UNIT <= CHIP
  BY InHand DEF InSector
<1>4. n \in Nat /\ n >= 1 /\ n >= k /\ n <= UNIT
  BY <1>3
<1>5. b \in 0..(CHIP - 1) /\ Base + i <= b /\ b < Base + i + UNIT
  BY <1>3, <1>4
<1>6. chip \in [0..(CHIP - 1) -> BYTE]
  BY DEF CInv, RangeInv, TInv, TypeOK
<1>7. CASE op = "SECTOR_ERASE"
  <2>1. spiaddr = Base + i
    BY <1>7 DEF CInv, OrderInv
  <2>2. spiaddr \in 0..(CHIP - 1) /\ Whole(spiaddr, UNIT) /\ chip' = Erased(chip, spiaddr)
    BY <1>7, Effect DEF Harmful
  <2>3. spiaddr <= b /\ b < spiaddr + UNIT
    BY <1>5, <2>1
  <2> HIDE DEF b
  <2>4. chip'[b] = 255
    BY <1>5, <1>6, <2>2, <2>3, UnitErased
  <2> QED  BY <2>4 DEF b
<1>8. CASE op # "SECTOR_ERASE"
  <2>1. chip[b] = 255
    BY <1>8 DEF CInv, ErasedInv
  <2>2. CASE op = "WRITE"
    <3>1. spiaddr = Base + i + k - 2
      BY <2>2 DEF CInv, OrderInv
    <3>2. chip' = [chip EXCEPT ![spiaddr] = spidata]
      BY <2>2, Effect DEF Harmful
    <3>3. b # spiaddr
      BY <1>3, <1>4, <3>1
    <3> QED  BY <1>5, <1>6, <2>1, <3>2, <3>3
  <2>3. CASE op # "WRITE"
    BY <1>8, <2>1, <2>3, NoEffect DEF Harmful
  <2> QED  BY <2>2, <2>3
<1> QED  BY <1>7, <1>8

LEMMA EndErased == ASSUME CInv, NextSector \/ Leave \/ Kill PROVE ErasedInv'
<1>1. pc' \in {"erasable", "leave", "off"} /\ UNCHANGED <<args, file, size, chip, op, spiaddr>>
  BY DEF NextSector, Leave, Kill, Goes, spi
<1> QED  BY <1>1, ErasedQuiet

-----------------------------------------------------------------------------
(* The file is in the chip.                                                 *)
LEMMA RoundUpLeast ==
  ASSUME NEW n \in Nat, NEW m \in Nat, m > 0, NEW x \in Nat, Whole(x, m), n <= x
  PROVE  RoundUp(n, m) \in Nat /\ RoundUp(n, m) <= x
<1> DEFINE d == (n + m - 1) \div m
           r == (n + m - 1) % m
<1>1. n + m - 1 \in Nat
  OBVIOUS
<1>2. d \in Nat /\ r \in 0..(m - 1) /\ n + m - 1 = d * m + r
  BY <1>1, Division
<1>3. RoundUp(n, m) = d * m
  BY DEF RoundUp
<1> HIDE DEF d, r
<1>4. PICK q \in Nat : x = q * m
  BY DEF Whole
<1>5. d * m \in Nat /\ q * m \in Nat
  BY <1>2
<1>6. d * m < q * m + m
  BY <1>2, <1>4, <1>5
<1>7. ~(q * m < d * m)
  BY <1>2, <1>5, <1>6, NextMultiple
<1> QED  BY <1>3, <1>4, <1>5, <1>7

LEMMA EnterContent == ASSUME CInv, Start \/ Enter \/ Fetch \/ Store PROVE ContentInv'
<1>1. CASE Start
  <2>1. pc' \in {"off", "enter"} /\ outcome' # "ok"
    BY <1>1 DEF Start
  <2> QED  BY <2>1 DEF ContentInv, Writes, InSector
<1>2. CASE Enter
  <2>1. pc = "enter" /\ outcome' = outcome /\ pc' \in {"fetch", "sector"}
        /\ UNCHANGED <<file, i, eof>>
    BY <1>2 DEF Enter
  <2>2. outcome' = "none" /\ i' = 0 /\ ~eof'
    BY <2>1 DEF CInv, OrderInv, RangeInv, PlaceInv
  <2>3. Len(file') \in Nat
    BY <2>1 DEF CInv, RangeInv, TInv, TypeOK
  <2>4. 1..Least(i', Len(file')) = {}
    BY <2>2, <2>3 DEF Least
  <2> QED  BY <2>1, <2>2, <2>4 DEF ContentInv, Writes, InSector
<1>3. CASE Fetch \/ Store
  <2>1. args.reads /\ args' = args
    BY <1>3 DEF Fetch, Store, Untouched, CInv, RangeInv, PlaceInv
  <2> QED  BY <2>1 DEF ContentInv, Suits
<1> QED  BY <1>1, <1>2, <1>3

LEMMA NextSectorContent == ASSUME CInv, NextSector PROVE ContentInv'
<1>1. /\ pc = "sector" /\ pc' = (IF More THEN "erasable" ELSE "leave")
      /\ UNCHANGED <<args, file, size, i, outcome, chip>>
  BY DEF NextSector, Goes, spi
<1>2. Base' = Base /\ Suits' = Suits
  BY <1>1, Setting
<1>3. outcome' = "none"
  BY <1>1 DEF CInv, OrderInv, Talking
<1>4. kills \in Nat /\ errors \in Nat /\ (errors' = errors \/ errors' = errors + 1)
  BY EflasherAssumption DEF NextSector, CInv, RangeInv, TInv, TypeOK
<1> SUFFICES ASSUME Suits, errors' = 0
             PROVE  /\ \A n \in 1..Least(i, Len(file)) : (Byte(n))'
                    /\ pc' = "erasable" => buffer' = Sector' /\ (eof' => Len(file) <= i + UNIT)
                    /\ pc' = "leave" => (size <= i \/ Len(file) <= i) /\ Whole(i, UNIT)
  BY <1>1, <1>2, <1>3 DEF ContentInv, Writes, InSector
<1>5. errors = 0 /\ errors' = errors
  BY <1>4
<1>6. \A n \in 1..Least(i, Len(file)) : (Byte(n))'
  BY <1>1, <1>2, <1>5 DEF CInv, ContentInv, Byte, Writes, InSector
<1>7. CASE More
  <2>1. buffer' = Sector /\ eof' = (Len(buffer') < args.sector) /\ i < size /\ ~eof
    BY <1>4, <1>5, <1>7 DEF NextSector, ShortRead, More
  <2>2. Sector' = Sector
    BY <1>1 DEF Sector
  <2>3. i <= Len(file) /\ i \in Nat /\ Len(file) \in Nat /\ UNIT \in Nat /\ args.sector = UNIT
    BY <1>1, <2>1, SpanType DEF CInv, RangeInv, TInv, TypeOK, PlaceInv, Writes, Suits
  <2>4. Len(Sector) = Least(IF i < Len(file) THEN Len(file) - i ELSE 0, args.sector)
    BY SectorType DEF CInv, RangeInv, TInv
  <2>5. Len(Sector) < UNIT => Len(file) <= i + UNIT
    BY <2>3, <2>4 DEF Least
  <2> QED  BY <1>1, <1>6, <1>7, <2>1, <2>2, <2>3, <2>5
<1>8. CASE ~More
  <2>1. size <= i \/ eof
    BY <1>8 DEF More, CInv, RangeInv, TInv, TypeOK
  <2>2. eof => Len(file) <= i
    BY <1>1, <1>5 DEF CInv, ContentInv
  <2>3. Whole(i, UNIT)
    BY <1>1 DEF CInv, RangeInv, PlaceInv, Writes, Suits, Whole
  <2> QED  BY <1>1, <1>6, <1>8, <2>1, <2>2, <2>3
<1> QED  BY <1>7, <1>8

LEMMA WriteContent ==
  ASSUME CInv, WriteEnable \/ EraseSector \/ WriteByte \/ WriteDisable
  PROVE  ContentInv'
<1>1. UNCHANGED <<args, file, size, chip, buffer, eof, errors, outcome>> /\ pc \in InSector
  BY DEF WriteEnable, EraseSector, WriteByte, WriteDisable, Enable, Give, Goes, Untouched, InSector
<1>2. EnabledInv /\ pc \in Talking /\ Wait
  BY <1>1 DEF WriteEnable, EraseSector, WriteByte, WriteDisable, Enable, Give,
              CInv, RangeInv, InSector, Talking
<1>3. op = "none" /\ outcome' = "none"
  BY <1>1, <1>2, WaitWaits DEF CInv, OrderInv
<1>4. Base' = Base /\ Suits' = Suits
  BY <1>1, Setting
<1> SUFFICES ASSUME Suits, errors = 0 PROVE ContentInv'
  BY <1>1, <1>4 DEF ContentInv
<1>5. /\ Base \in Nat /\ i \in Nat /\ UNIT \in Nat /\ UNIT > 0
      /\ i <= Len(file) /\ Len(file) \in Nat /\ Len(buffer) \in Nat /\ Len(buffer) <= UNIT
      /\ k \in 1..(Len(buffer) + 1)
  BY <1>1, InHand
<1>6. /\ \A n \in 1..i : Byte(n)
      /\ buffer = Sector /\ (eof => Len(file) <= i + UNIT)
  <2>1. Least(i, Len(file)) = i
    BY <1>5 DEF Least
  <2> QED  BY <1>1, <2>1 DEF CInv, ContentInv, Writes
<1>7. pc \in {"wren", "write", "wrdi"} => \A n \in 1..(k - 1) : Byte(i + n)
  BY <1>3 DEF CInv, ContentInv
<1>8. ASSUME i' = i, pc' \in InSector
      PROVE  /\ \A n \in 1..Least(i', Len(file')) : (Byte(n))'
             /\ buffer' = Sector' /\ (eof' => Len(file') <= i' + UNIT)
  <2>1. Least(i, Len(file)) = i
    BY <1>5 DEF Least
  <2>2. Sector' = Sector
    BY <1>1, <1>8 DEF Sector
  <2> QED  BY <1>1, <1>4, <1>6, <1>8, <2>1, <2>2 DEF Byte
<1>9. CASE WriteEnable
  <2>1. op' = "WREN" /\ pc' \in {"erase", "write"} /\ UNCHANGED <<i, k>>
        /\ (pc' = "write" => pc = "wren")
    BY <1>2, <1>9, CommandArrives DEF WriteEnable, Enable, Give, Goes
  <2>2. pc' = "write" => \A n \in 1..(k' - 1) : (Byte(i + n))'
    BY <1>1, <1>4, <1>7, <2>1 DEF Byte
  <2> QED  BY <1>1, <1>3, <1>8, <2>1, <2>2 DEF ContentInv, Writes, InSector
<1>10. CASE EraseSector
  <2>1. op' = "SECTOR_ERASE" /\ pc = "erase" /\ pc' \in {"wren", "wrdi"} /\ UNCHANGED <<i, k>>
    BY <1>2, <1>10, CommandArrives DEF EraseSector, Give, Goes
  <2>2. k' = 1
    BY <2>1 DEF CInv, RangeInv, TInv, BytesInv
  <2>3. 1..(k' - 1) = {}
    BY <2>2
  <2> QED  BY <1>1, <1>3, <1>8, <2>1, <2>3 DEF ContentInv, Writes, InSector
<1>11. CASE WriteByte
  <2>1. op' = "WRITE" /\ pc = "write" /\ pc' \in {"wrdi", "wren"} /\ i' = i
        /\ k' = k + 1 /\ spidata' = buffer[k]
    BY <1>2, <1>11, CommandArrives DEF WriteByte, Give, Goes, At
  <2>2. k <= Len(buffer)
    BY <2>1 DEF CInv, RangeInv, TInv, BytesInv
  <2>3. spidata' = file[i + k]
    <3>1. \A j \in 1..Len(Sector) : Sector[j] = file[i + j]
      BY SectorType DEF CInv, RangeInv, TInv
    <3>2. k \in 1..Len(Sector)
      BY <1>5, <1>6, <2>2
    <3> QED  BY <1>6, <2>1, <3>1, <3>2
  <2>4. i + k = i' + k' - 1
    BY <1>5, <2>1
  <2>5. \A n \in 1..(k' - 1) : (Byte(i + n))' \/ n = k' - 1
    <3>1. \A n \in 1..(k' - 1) : n \in 1..(k - 1) \/ n = k' - 1
      BY <1>5, <2>1
    <3> QED  BY <1>1, <1>4, <1>7, <2>1, <3>1 DEF Byte
  <2> QED  BY <1>1, <1>3, <1>8, <2>1, <2>3, <2>4, <2>5 DEF ContentInv, Writes, InSector
<1>12. CASE WriteDisable
  <2>1. op' = "WRDSBL" /\ pc = "wrdi" /\ pc' = "sector" /\ i' = i + UNIT
    BY <1>2, <1>12, CommandArrives DEF WriteDisable, Give, Goes, Suits
  <2>2. k = Len(buffer) + 1
    BY <2>1 DEF CInv, OrderInv
  <2>3. Len(buffer) = Least(IF i < Len(file) THEN Len(file) - i ELSE 0, UNIT)
    BY <1>6, SectorType DEF CInv, RangeInv, TInv, Suits
  <2>4. ASSUME NEW n \in 1..Least(i', Len(file')) PROVE (Byte(n))'
    <3>1. n \in Nat /\ n >= 1 /\ n <= i + UNIT /\ n <= Len(file)
      BY <1>1, <1>5, <2>1, <2>4 DEF Least
    <3>2. CASE n <= i
      BY <1>1, <1>4, <1>5, <1>6, <3>1, <3>2 DEF Byte
    <3>3. CASE i < n
      <4>1. PICK j \in Nat : n = i + j
        <5>1. n - i \in Nat /\ n = i + (n - i)
          BY <1>5, <3>1, <3>3
        <5> QED  BY <5>1
      <4>2. j \in 1..(k - 1)
        BY <1>5, <2>2, <2>3, <3>1, <3>3, <4>1 DEF Least
      <4> QED  BY <1>1, <1>4, <1>7, <2>1, <4>1, <4>2 DEF Byte
    <3> QED  BY <1>5, <3>1, <3>2, <3>3
  <2>5. eof' => Len(file') <= i'
    BY <1>1, <1>6, <2>1
  <2> QED  BY <1>3, <2>1, <2>4, <2>5 DEF ContentInv, Writes, InSector
<1> QED  BY <1>9, <1>10, <1>11, <1>12

(* An erase or a write that completes leaves the sectors done alone.        *)
LEMMA SectorsKept ==
  ASSUME CInv, Suits, errors = 0, Complete, pc \in Writes \cup {"leave"},
         NEW n \in 1..Least(i, Len(file)), Byte(n)
  PROVE  chip'[Base + n - 1] = file[n]
<1>1. CASE op \notin Harmful
  BY <1>1, NoEffect DEF Byte
<1>2. CASE op \in Harmful
  <2>1. i \in Nat /\ Len(file) \in Nat
    BY SpanType DEF CInv, RangeInv, TInv, TypeOK
  <2>2. i # 0 /\ n \in Nat /\ n >= 1 /\ n <= i
    BY <2>1 DEF Least
  <2>3. pc \in {"wren", "write", "wrdi"}
    <3>1. pc # "leave" /\ pc # "sector" /\ pc # "erasable"
      BY <1>2, <2>2 DEF CInv, OrderInv
    <3>2. pc # "erase"
      BY <1>2 DEF CInv, IInv, LatchInv, Harmful
    <3> QED  BY <3>1, <3>2 DEF Writes, InSector
  <2>4. /\ Base \in Nat /\ UNIT \in Nat /\ UNIT > 0 /\ CHIP \in Nat
        /\ Base + i + UNIT <= CHIP /\ k \in Nat
    BY <2>3, InHand DEF InSector
  <2>5. spiaddr \in Nat /\ Base + n - 1 < spiaddr
    <3>1. op = "SECTOR_ERASE" => spiaddr = Base + i
      BY <2>3 DEF CInv, OrderInv
    <3>2. op = "WRITE" => k >= 2 /\ spiaddr = Base + i + k - 2
      BY <2>3 DEF CInv, OrderInv
    <3>3. op = "SECTOR_ERASE" \/ op = "WRITE"
      BY <1>2 DEF Harmful
    <3> QED  BY <2>1, <2>2, <2>4, <3>1, <3>2, <3>3
  <2>6. Base + n - 1 \in 0..(CHIP - 1)
    BY <2>1, <2>2, <2>4
  <2>7. chip \in [0..(CHIP - 1) -> BYTE]
    BY DEF CInv, RangeInv, TInv, TypeOK
  <2>8. PICK b \in 0..(CHIP - 1) : b = Base + n - 1
    BY <2>6
  <2>9. CASE op = "SECTOR_ERASE"
    <3>1. spiaddr \in 0..(CHIP - 1) /\ Whole(spiaddr, UNIT) /\ chip' = Erased(chip, spiaddr)
      BY <1>2, <2>9, Effect
    <3>2. b \in 0..(CHIP - 1) /\ b < spiaddr
      BY <2>5, <2>8
    <3>3. Erased(chip, spiaddr)[b] = chip[b]
      BY <2>7, <3>1, <3>2, BelowKept
    <3>4. chip'[b] = chip[b]
      BY <3>1, <3>3
    <3> QED  BY <2>8, <3>4 DEF Byte
  <2>10. CASE op = "WRITE"
    <3>1. chip' = [chip EXCEPT ![spiaddr] = spidata]
      BY <1>2, <2>10, Effect
    <3>2. b # spiaddr
      BY <2>5, <2>8
    <3> QED  BY <2>7, <2>8, <3>1, <3>2 DEF Byte
  <2> QED  BY <1>2, <2>9, <2>10 DEF Harmful
<1> QED  BY <1>1, <1>2

(* The bytes done of the sector in hand stay, and the last is done.         *)
LEMMA BytesKept ==
  ASSUME CInv, Suits, errors = 0, Complete, pc \in {"wren", "write", "wrdi"},
         NEW n \in 1..(k - 1)
  PROVE  chip'[Base + (i + n) - 1] = file[i + n]
<1>1. /\ Base \in Nat /\ i \in Nat /\ UNIT \in Nat /\ UNIT > 0 /\ CHIP \in Nat
      /\ Base + i + UNIT <= CHIP /\ Len(buffer) \in Nat /\ Len(buffer) <= UNIT
      /\ k \in 1..(Len(buffer) + 1)
  BY InHand DEF InSector
<1>2. n \in Nat /\ n >= 1 /\ n <= UNIT /\ k > 1 /\ n <= k - 1
  BY <1>1
<1>3. PICK b \in 0..(CHIP - 1) : b = Base + (i + n) - 1
  BY <1>1, <1>2
<1>4. chip \in [0..(CHIP - 1) -> BYTE]
  BY DEF CInv, RangeInv, TInv, TypeOK
<1>5. Byte(i + n) \/ (op = "WRITE" /\ n = k - 1)
  BY DEF CInv, ContentInv
<1>6. op # "SECTOR_ERASE"
  BY <1>2 DEF CInv, OrderInv
<1>7. CASE op = "WRITE"
  <2>1. spiaddr = Base + i + k - 2 /\ spidata = file[i + k - 1]
    BY <1>7 DEF CInv, OrderInv, ContentInv
  <2>2. chip' = [chip EXCEPT ![spiaddr] = spidata]
    BY <1>7, Effect DEF Harmful
  <2>3. CASE n = k - 1
    <3>1. b = spiaddr /\ i + n = i + k - 1
      BY <1>1, <1>2, <1>3, <2>1, <2>3
    <3>2. chip'[b] = spidata
      BY <1>3, <1>4, <2>2, <3>1
    <3> QED  BY <1>3, <2>1, <3>1, <3>2
  <2>4. CASE n # k - 1
    <3>1. b # spiaddr
      BY <1>1, <1>2, <1>3, <2>1, <2>4
    <3>2. chip'[b] = chip[b]
      BY <1>3, <1>4, <2>2, <3>1
    <3> QED  BY <1>3, <1>5, <2>4, <3>2 DEF Byte
  <2> QED  BY <2>3, <2>4
<1>8. CASE op # "WRITE"
  <2>1. chip' = chip
    BY <1>6, <1>8, NoEffect DEF Harmful
  <2> QED  BY <1>5, <1>8, <2>1 DEF Byte
<1> QED  BY <1>7, <1>8

LEMMA CompleteContent == ASSUME CInv, Complete PROVE ContentInv'
<1>1. op' = "none"
      /\ UNCHANGED <<args, file, size, pc, outcome, i, buffer, k, eof, errors>>
  BY DEF Complete, process
<1>2. Base' = Base /\ Suits' = Suits /\ Sector' = Sector
  BY <1>1, Setting DEF Base, Sector
<1> SUFFICES ASSUME Suits, errors = 0 PROVE ContentInv'
  BY <1>1, <1>2 DEF ContentInv
<1>3. pc \in Writes \cup {"leave"} => \A n \in 1..Least(i, Len(file)) : (Byte(n))'
  <2> SUFFICES ASSUME pc \in Writes \cup {"leave"}, NEW n \in 1..Least(i, Len(file))
               PROVE  chip'[Base + n - 1] = file[n]
    BY <1>1, <1>2 DEF Byte
  <2>1. Byte(n)
    BY DEF CInv, ContentInv
  <2> QED  BY <2>1, SectorsKept
<1>4. pc \in {"wren", "write", "wrdi"} => \A n \in 1..(k - 1) : (Byte(i + n))'
  <2> SUFFICES ASSUME pc \in {"wren", "write", "wrdi"}, NEW n \in 1..(k - 1)
               PROVE  chip'[Base + (i + n) - 1] = file[i + n]
    BY <1>1, <1>2 DEF Byte
  <2> QED  BY BytesKept
<1>5. outcome = "ok" => \A n \in 1..Least(Len(file), RoundUp(size, UNIT)) : (Byte(n))'
  <2>1. outcome = "ok" => chip' = chip
    BY NoEffect DEF CInv, OrderInv
  <2> QED  BY <1>1, <1>2, <2>1 DEF CInv, ContentInv, Byte
<1>6. /\ pc \in InSector => buffer' = Sector' /\ (eof' => Len(file') <= i' + UNIT)
      /\ pc = "sector" /\ eof => Len(file) <= i
      /\ pc = "leave" => (size <= i \/ Len(file) <= i) /\ Whole(i, UNIT)
  BY <1>1, <1>2 DEF CInv, ContentInv
<1> QED  BY <1>1, <1>3, <1>4, <1>5, <1>6 DEF ContentInv

LEMMA EndContent == ASSUME CInv, Leave \/ Kill PROVE ContentInv'
<1>1. pc' = "off" /\ UNCHANGED <<args, file, size, i, errors, chip>>
  BY DEF Leave, Kill, spi
<1>2. CASE Kill
  <2>1. outcome' = "killed"
    BY <1>2 DEF Kill
  <2> QED  BY <1>1, <2>1 DEF ContentInv, Writes, InSector
<1>3. CASE Leave
  <2>1. Base' = Base /\ Suits' = Suits /\ pc = "leave"
    BY <1>1, <1>3, Setting DEF Leave
  <2> SUFFICES ASSUME Suits, errors = 0, NEW n \in 1..Least(Len(file), RoundUp(size, UNIT))
               PROVE  (Byte(n))'
    BY <1>1, <2>1 DEF ContentInv, Writes, InSector
  <2>2. /\ \A m \in 1..Least(i, Len(file)) : Byte(m)
        /\ (size <= i \/ Len(file) <= i) /\ Whole(i, UNIT)
    BY <2>1 DEF CInv, ContentInv
  <2>3. size \in Nat /\ i \in Nat /\ Len(file) \in Nat /\ UNIT \in Nat /\ UNIT > 0
    BY SpanType, EflasherAssumption DEF CInv, RangeInv, TInv, TypeOK
  <2>4. RoundUp(size, UNIT) \in Nat /\ (size <= i => RoundUp(size, UNIT) <= i)
    BY <2>2, <2>3, RoundUpBounds, RoundUpLeast
  <2>5. n \in 1..Least(i, Len(file))
    BY <2>2, <2>3, <2>4 DEF Least
  <2> QED  BY <1>1, <2>1, <2>2, <2>5 DEF Byte
<1> QED  BY <1>2, <1>3

LEMMA CStep == ASSUME CInv, [Next]_vars PROVE CInv'
<1>1. IInv' /\ RangeInv'
  BY InvStep, RangeStep DEF CInv
<1>2. CASE UNCHANGED vars
  <2>1. UNCHANGED <<args, file, pc, outcome, size, i, buffer, k, eof, errors, spiaddr, spidata,
                    op, chip>>
    BY <1>2 DEF vars, process, spi
  <2>2. Base' = Base /\ Suits' = Suits /\ Sector' = Sector
    BY <2>1, Setting DEF Base, Sector
  <2>3. OrderInv' /\ ErasedInv'
    BY <2>1, <2>2 DEF CInv, OrderInv, ErasedInv
  <2>4. ContentInv'
    BY <2>1, <2>2 DEF CInv, ContentInv, Byte
  <2> QED  BY <1>1, <2>3, <2>4 DEF CInv
<1>3. CASE Next
  <2>1. OrderInv'
    BY <1>3, StartOrder, ReadOrder, NextSectorOrder, WriteOrder, CompleteOrder, EndOrder
    DEF Next, Process
  <2>2. ErasedInv'
    BY <1>3, StartErased, ReadErased, WriteErased, CompleteErased, EndErased
    DEF Next, Process
  <2>3. ContentInv'
    BY <1>3, EnterContent, NextSectorContent, WriteContent, CompleteContent, EndContent
    DEF Next, Process
  <2> QED  BY <1>1, <2>1, <2>2, <2>3 DEF CInv
<1> QED  BY <1>2, <1>3

LEMMA CInvariant == Spec => []CInv
<1>1. Init => CInv
  BY InvInit, RangeInit, CInit DEF CInv
<1> QED  BY <1>1, CStep, PTL DEF Spec

(* No erase and no write is given that the chip would ignore, and none is   *)
(* written over what is not erased.                                         *)
THEOREM AlwaysErased == Spec => []NothingIgnored
<1>1. CInv => NothingIgnored
  <2> SUFFICES ASSUME CInv PROVE NothingIgnored
    OBVIOUS
  <2>1. op \in {"SECTOR_ERASE", "WRITE"} => latch
    BY DEF CInv, IInv, LatchInv
  <2>2. op = "WRITE" => ~args.reads
    BY DEF CInv, RangeInv, AddressInv
  <2>3. op = "WRITE" /\ args.sector = UNIT /\ Base + Span <= CHIP => chip[spiaddr] = 255
    BY <2>2 DEF CInv, ErasedInv, Suits
  <2> QED  BY <2>1, <2>3 DEF NothingIgnored
<1> QED  BY <1>1, CInvariant, PTL

(* After a write that ends, with no read of the file failing, the file is   *)
(* in the chip, also when earlier runs were killed at any point.            *)
THEOREM WriteCorrect == Spec => []WrittenIsFile
<1>1. CInv => WrittenIsFile
  BY DEF CInv, ContentInv, Suits, Byte, WrittenIsFile
<1> QED  BY <1>1, CInvariant, PTL
-----------------------------------------------------------------------------
(* What a read leaves in the file.                                          *)

(* The file so far is the chip with the last byte of each buffer repeated.  *)
Repeated(s) == \A n \in 1..Len(s) : s[n] = OldChip[(n - 1) - (n - 1) \div BUFFER_SIZE]

(* q buffers are in the file, and each has advanced the program by one byte *)
(* less than it holds.                                                      *)
Filled(q) ==
  /\ Len(file) = q * BUFFER_SIZE
  /\ i = q * (BUFFER_SIZE - 1) + Len(buffer)
  /\ Len(buffer) < BUFFER_SIZE
  /\ \A n \in 1..Len(buffer) : buffer[n] = OldChip[q * (BUFFER_SIZE - 1) + n - 1]

FileInv ==
  args.reads =>
    /\ chip = OldChip
    /\ pc \in {"enter", "fetch", "got", "leave"} => size = CHIP
    /\ pc = "enter" => file = <<>> /\ i = 0 /\ buffer = <<>>
    /\ pc \in {"fetch", "got"} /\ i < size => \E q \in Nat : Filled(q)
    /\ pc = "got" =>
         /\ i < size
         /\ (op = "FREAD" /\ spiaddr = i) \/ (op = "none" /\ spidata = OldChip[i])
    /\ pc \in {"fetch", "got", "leave"} \/ outcome = "ok" => Repeated(file)
    /\ (pc = "fetch" /\ size <= i) \/ pc = "leave" \/ outcome = "ok" =>
         Len(file) = size + (size - 1) \div (BUFFER_SIZE - 1)

(* A read neither erases nor writes.                                        *)
LEMMA ReadsOnly == ASSUME CInv, args.reads PROVE op \notin Harmful
  BY DEF CInv, RangeInv, AddressInv, Harmful

LEMMA BufferType ==
  BUFFER_SIZE \in Nat /\ BUFFER_SIZE > 1 /\ BUFFER_SIZE - 1 \in Nat /\ BUFFER_SIZE - 1 > 0
  BY EflasherAssumption

(* q buffers are q bytes longer than what they advance by.                  *)
LEMMA Overlap ==
  ASSUME NEW q \in Nat
  PROVE  /\ q * BUFFER_SIZE \in Nat /\ q * (BUFFER_SIZE - 1) \in Nat
         /\ q * BUFFER_SIZE = q * (BUFFER_SIZE - 1) + q
         /\ (q + 1) * BUFFER_SIZE = q * BUFFER_SIZE + BUFFER_SIZE
         /\ (q + 1) * (BUFFER_SIZE - 1) = q * (BUFFER_SIZE - 1) + (BUFFER_SIZE - 1)
<1>1. q * BUFFER_SIZE \in Nat /\ q * (BUFFER_SIZE - 1) \in Nat
  BY BufferType
<1>2. q * BUFFER_SIZE = q * (BUFFER_SIZE - 1) + q
  BY BufferType
<1>3. /\ (q + 1) * BUFFER_SIZE = q * BUFFER_SIZE + BUFFER_SIZE
      /\ (q + 1) * (BUFFER_SIZE - 1) = q * (BUFFER_SIZE - 1) + (BUFFER_SIZE - 1)
  BY BufferType
<1> QED  BY <1>1, <1>2, <1>3

LEMMA InBuffer ==
  ASSUME NEW q \in Nat, NEW r \in 0..(BUFFER_SIZE - 1)
  PROVE  (q * BUFFER_SIZE + r) \div BUFFER_SIZE = q
<1>1. BUFFER_SIZE \in Nat /\ BUFFER_SIZE > 0
  BY BufferType
<1> QED  BY <1>1, QuotientUnique

LEMMA BytesJoined ==
  ASSUME NEW f \in Seq(BYTE), NEW b \in Seq(BYTE)
  PROVE  /\ f \o b \in Seq(BYTE) /\ Len(f \o b) = Len(f) + Len(b)
         /\ \A n \in 1..Len(f \o b) : (f \o b)[n] = IF n <= Len(f) THEN f[n] ELSE b[n - Len(f)]
  BY ConcatProperties

LEMMA ByteAppended ==
  ASSUME NEW b \in Seq(BYTE), NEW x \in BYTE
  PROVE  /\ Append(b, x) \in Seq(BYTE) /\ Len(Append(b, x)) = Len(b) + 1
         /\ \A n \in 1..(Len(b) + 1) : Append(b, x)[n] = IF n <= Len(b) THEN b[n] ELSE x
  OBVIOUS

(* A buffer flushed after q others goes on where the file is to go on.      *)
LEMMA Flushed ==
  ASSUME NEW f \in Seq(BYTE), NEW b \in Seq(BYTE), NEW q \in Nat,
         Repeated(f), Len(f) = q * BUFFER_SIZE, Len(b) <= BUFFER_SIZE,
         \A n \in 1..Len(b) : b[n] = OldChip[q * (BUFFER_SIZE - 1) + n - 1]
  PROVE  Repeated(f \o b) /\ Len(f \o b) = q * BUFFER_SIZE + Len(b)
<1> DEFINE p == q * (BUFFER_SIZE - 1)
           s == q * BUFFER_SIZE
<1>1. /\ f \o b \in Seq(BYTE) /\ Len(f \o b) = Len(f) + Len(b)
      /\ \A n \in 1..Len(f \o b) : (f \o b)[n] = IF n <= Len(f) THEN f[n] ELSE b[n - Len(f)]
  BY BytesJoined
<1>2. s \in Nat /\ p \in Nat /\ s = p + q /\ Len(f) = s /\ Len(b) \in Nat
  BY Overlap
<1>3. ASSUME NEW n \in 1..(s + Len(b))
      PROVE  (f \o b)[n] = OldChip[(n - 1) - (n - 1) \div BUFFER_SIZE]
  <2>1. CASE n <= s
    <3>1. n \in 1..Len(f)
      BY <1>2, <2>1
    <3> HIDE DEF s, p
    <3> QED  BY <1>1, <1>2, <2>1, <3>1 DEF Repeated
  <2>2. CASE s < n
    <3>1. PICK m \in Nat : n = s + m
      <4>1. n - s \in Nat /\ n = s + (n - s)
        BY <1>2, <2>2
      <4> QED  BY <4>1
    <3>2. m \in 1..Len(b) /\ m - 1 \in 0..(BUFFER_SIZE - 1)
      BY <1>2, <2>2, <3>1, BufferType
    <3>3. (n - 1) \div BUFFER_SIZE = q
      <4> DEFINE r == m - 1
      <4>1. n - 1 = q * BUFFER_SIZE + r
        BY <1>2, <3>1, <3>2
      <4>2. r \in 0..(BUFFER_SIZE - 1)
        BY <3>2
      <4> HIDE DEF r
      <4>3. (q * BUFFER_SIZE + r) \div BUFFER_SIZE = q
        BY <4>2, InBuffer
      <4> QED  BY <4>1, <4>3, Zenon
    <3>4. (n - 1) - (n - 1) \div BUFFER_SIZE = p + m - 1
      <4>1. n - 1 = s + (m - 1) /\ s = p + q
        BY <1>2, <3>1
      <4>2. s + (m - 1) - q = p + m - 1
        <5> HIDE DEF s, p
        <5> QED  BY <1>2, <3>1
      <4> HIDE DEF s, p
      <4> QED  BY <3>3, <4>1, <4>2
    <3>5. (f \o b)[n] = b[m]
      <4> HIDE DEF s, p
      <4> QED  BY <1>1, <1>2, <2>2, <3>1
    <3> QED  BY <3>2, <3>4, <3>5
  <2> QED  BY <1>2, <2>1, <2>2
<1> QED  BY <1>1, <1>2, <1>3 DEF Repeated

LEMMA FileInit == Init => FileInv
<1> SUFFICES ASSUME Init PROVE FileInv
  OBVIOUS
<1> QED  BY DEF Init, FileInv

LEMMA StartFile == ASSUME CInv, FileInv, Start PROVE FileInv'
<1>1. /\ UNCHANGED <<args, chip>> /\ pc' \in {"off", "enter"} /\ outcome' # "ok"
      /\ i' = 0 /\ buffer' = <<>>
      /\ pc' = "enter" /\ args.reads => file' = <<>> /\ size' = CHIP
  BY DEF Start, spi, Asked
<1> QED  BY <1>1 DEF FileInv

LEMMA EnterFile == ASSUME CInv, FileInv, Enter PROVE FileInv'
<1> SUFFICES ASSUME args.reads PROVE FileInv'
  BY DEF Enter, FileInv
<1>1. /\ pc = "enter" /\ pc' = "fetch"
      /\ UNCHANGED <<args, file, outcome, size, i, buffer, chip>>
  BY DEF Enter, spi
<1>2. outcome # "ok"
  BY <1>1 DEF CInv, OrderInv
<1>3. file = <<>> /\ i = 0 /\ buffer = <<>> /\ size = CHIP /\ chip = OldChip
  BY <1>1 DEF FileInv
<1>4. CHIP > 0 /\ CHIP \in Nat
  BY ArgsType DEF CInv, RangeInv, TInv, TypeOK
<1>5. Filled(0)' /\ Repeated(file')
  BY <1>1, <1>3, BufferType DEF Filled, Repeated
<1> QED  BY <1>1, <1>2, <1>3, <1>4, <1>5 DEF FileInv

LEMMA FetchFile == ASSUME CInv, FileInv, Fetch PROVE FileInv'
<1>1. /\ pc = "fetch" /\ pc' \in {"got", "leave"} /\ args.reads
      /\ UNCHANGED <<args, file, outcome, size, i, buffer, chip>>
  BY DEF Fetch, Goes, Untouched, CInv, RangeInv, PlaceInv
<1>2. size \in Nat /\ i \in Nat
  BY DEF CInv, RangeInv, TInv, TypeOK
<1>3. outcome # "ok" /\ chip = OldChip /\ size = CHIP /\ Repeated(file)
  BY <1>1 DEF CInv, OrderInv, FileInv, Talking
<1>4. CASE i < size
  <2>1. pc' = "got" /\ op' = "FREAD" /\ spiaddr' = i
    BY <1>1, <1>4, CommandArrives DEF Fetch, Goes, At, CInv, IInv, Talking
  <2>2. \E q \in Nat : Filled(q)'
    BY <1>1, <1>4 DEF FileInv, Filled
  <2> QED  BY <1>1, <1>3, <1>4, <2>1, <2>2 DEF FileInv
<1>5. CASE size <= i
  <2>1. pc' = "leave"
    BY <1>1, <1>2, <1>5 DEF Fetch, Goes
  <2>2. Len(file) = size + (size - 1) \div (BUFFER_SIZE - 1)
    BY <1>1, <1>5 DEF FileInv
  <2> QED  BY <1>1, <1>3, <2>1, <2>2 DEF FileInv
<1> QED  BY <1>2, <1>4, <1>5

(* The byte stored goes on with the buffer; a full one and the last one are *)
(* flushed.                                                                 *)
LEMMA StoreFile == ASSUME CInv, FileInv, Store PROVE FileInv'
<1> DEFINE got == Append(buffer, spidata)
           full == Len(got) >= BUFFER_SIZE
           flushed == full \/ i + 1 >= size
<1>1. /\ pc = "got" /\ pc' = "fetch" /\ args.reads /\ Wait
      /\ UNCHANGED <<args, outcome, size, chip>>
      /\ i' = (IF full THEN i ELSE i + 1)
      /\ file' = (IF flushed THEN file \o got ELSE file)
      /\ buffer' = (IF flushed THEN <<>> ELSE got)
  BY DEF Store, Goes, Untouched, CInv, RangeInv, PlaceInv
<1>2. /\ size \in Nat /\ i \in Nat /\ i < size /\ file \in Seq(BYTE) /\ buffer \in Seq(BYTE)
      /\ spidata \in BYTE /\ chip = OldChip /\ size = CHIP /\ Repeated(file)
      /\ outcome # "ok"
  BY <1>1 DEF CInv, RangeInv, TInv, TypeOK, OrderInv, FileInv, Talking
<1>3. spidata = OldChip[i]
  <2>1. op = "none"
    BY <1>1, WaitWaits DEF CInv, IInv, Talking
  <2> QED  BY <1>1, <2>1 DEF FileInv
<1>4. PICK q \in Nat : Filled(q)
  BY <1>1, <1>2 DEF FileInv
<1> DEFINE p == q * (BUFFER_SIZE - 1)
           l == Len(buffer)
<1>5. /\ Len(file) = q * BUFFER_SIZE /\ i = p + l /\ l \in Nat /\ l < BUFFER_SIZE
      /\ p \in Nat /\ q * BUFFER_SIZE = p + q /\ q * BUFFER_SIZE \in Nat
  BY <1>2, <1>4, Overlap DEF Filled
<1>6. /\ got \in Seq(BYTE) /\ Len(got) = l + 1
      /\ \A n \in 1..(l + 1) : got[n] = IF n <= l THEN buffer[n] ELSE spidata
  BY <1>2, ByteAppended
<1>7. \A n \in 1..Len(got) : got[n] = OldChip[p + n - 1]
  <2>1. \A n \in 1..l : buffer[n] = OldChip[p + n - 1]
    BY <1>4 DEF Filled
  <2>2. p + (l + 1) - 1 = i
    BY <1>5
  <2> SUFFICES ASSUME NEW n \in 1..(l + 1) PROVE got[n] = OldChip[p + n - 1]
    BY <1>6
  <2> HIDE DEF got, p, l
  <2>3. CASE n <= l
    <3>1. n \in 1..l
      BY <1>5, <2>3
    <3> QED  BY <1>6, <2>1, <2>3, <3>1
  <2>4. CASE n = l + 1
    <3>1. got[n] = spidata
      BY <1>5, <1>6, <2>4
    <3>2. p + n - 1 = i
      BY <2>2, <2>4
    <3> QED  BY <1>3, <3>1, <3>2
  <2> QED  BY <1>5, <2>3, <2>4
<1>8. Len(got) <= BUFFER_SIZE
  BY <1>5, <1>6, BufferType
<1>9. Repeated(file \o got) /\ Len(file \o got) = q * BUFFER_SIZE + (l + 1)
  <2> HIDE DEF got
  <2>1. \A n \in 1..Len(got) : got[n] = OldChip[q * (BUFFER_SIZE - 1) + n - 1]
    BY <1>7
  <2>2. Repeated(file \o got) /\ Len(file \o got) = q * BUFFER_SIZE + Len(got)
    BY <1>2, <1>5, <1>6, <1>8, <2>1, Flushed
  <2> QED  BY <1>6, <2>2
<1>10. Repeated(file')
  BY <1>1, <1>2, <1>9
<1> HIDE DEF got, p, l
<1>11. CASE full
  <2>1. l + 1 = BUFFER_SIZE
    BY <1>5, <1>6, <1>11, BufferType
  <2>2. i' = i /\ buffer' = <<>> /\ Len(file') = q * BUFFER_SIZE + BUFFER_SIZE
    BY <1>1, <1>9, <1>11, <2>1
  <2>3. i = (q + 1) * (BUFFER_SIZE - 1) + 0 /\ Len(file') = (q + 1) * BUFFER_SIZE
    BY <1>5, <2>1, <2>2, BufferType, Overlap DEF p
  <2>4. q + 1 \in Nat /\ Filled(q + 1)'
    BY <2>2, <2>3, BufferType DEF Filled
  <2> QED  BY <1>1, <1>2, <1>10, <2>2, <2>4 DEF FileInv
<1>12. CASE ~full /\ i + 1 >= size
  <2>1. i' = size /\ Len(file') = q * BUFFER_SIZE + (l + 1) /\ l < BUFFER_SIZE - 1
    BY <1>1, <1>2, <1>5, <1>6, <1>9, <1>12, BufferType
  <2>2. size - 1 = q * (BUFFER_SIZE - 1) + l /\ l \in 0..(BUFFER_SIZE - 1 - 1)
    BY <1>2, <1>5, <1>12, <2>1, BufferType DEF p
  <2>3. (size - 1) \div (BUFFER_SIZE - 1) = q
    BY <2>2, BufferType, QuotientUnique
  <2>4. Len(file') = size + q
    <3>1. q * BUFFER_SIZE = q * (BUFFER_SIZE - 1) + q /\ q * (BUFFER_SIZE - 1) \in Nat
      BY <1>2, Overlap
    <3>2. size \in Nat
      BY <1>2
    <3> DEFINE u == q * (BUFFER_SIZE - 1)
               v == q * BUFFER_SIZE
    <3>3. v = u + q /\ u \in Nat /\ size - 1 = u + l /\ l \in Nat /\ Len(file') = v + (l + 1)
      BY <2>1, <2>2, <3>1, BufferType
    <3> HIDE DEF u, v
    <3> QED  BY <1>2, <3>2, <3>3
  <2> QED  BY <1>1, <1>2, <1>10, <2>1, <2>3, <2>4 DEF FileInv
<1>13. CASE ~full /\ ~(i + 1 >= size)
  <2>1. i' = i + 1 /\ i + 1 < size /\ file' = file /\ buffer' = got /\ l + 1 < BUFFER_SIZE
    BY <1>1, <1>2, <1>5, <1>6, <1>13, BufferType
  <2>2. Filled(q)'
    BY <1>5, <1>6, <1>7, <2>1 DEF Filled, p
  <2> QED  BY <1>1, <1>2, <1>10, <2>1, <2>2 DEF FileInv
<1> QED  BY <1>11, <1>12, <1>13

LEMMA WriteFile ==
  ASSUME CInv, FileInv, NextSector \/ WriteEnable \/ EraseSector \/ WriteByte \/ WriteDisable
  PROVE  FileInv'
<1>1. pc \in Writes /\ args' = args
  BY DEF NextSector, WriteEnable, Enable, EraseSector, WriteByte, WriteDisable, Give, Untouched,
         Writes, InSector
<1>2. ~args.reads
  BY <1>1 DEF CInv, RangeInv, PlaceInv
<1> QED  BY <1>1, <1>2 DEF FileInv

LEMMA CompleteFile == ASSUME CInv, FileInv, Complete PROVE FileInv'
<1> SUFFICES ASSUME args.reads PROVE FileInv'
  BY DEF Complete, FileInv
<1>1. /\ UNCHANGED <<args, file, pc, outcome, size, i, buffer, spiaddr>>
      /\ op' = "none" /\ (op = "FREAD" => spidata' = chip[spiaddr % CHIP])
      /\ op # "none"
  BY DEF Complete, process
<1>2. chip' = chip /\ chip = OldChip
  BY ReadsOnly, NoEffect DEF FileInv
<1>3. pc = "got" => spidata' = OldChip[i]
  <2> SUFFICES ASSUME pc = "got" PROVE spidata' = OldChip[i]
    OBVIOUS
  <2>1. op = "FREAD" /\ spiaddr = i /\ i < size /\ size = CHIP
    BY <1>1 DEF FileInv
  <2>2. i \in Nat /\ CHIP \in Nat /\ i < CHIP
    BY <2>1, ArgsType DEF CInv, RangeInv, TInv, TypeOK
  <2>3. i % CHIP = i
    BY <2>2
  <2> QED  BY <1>1, <1>2, <2>1, <2>3
<1>4. \A q \in Nat : Filled(q) => Filled(q)'
  BY <1>1 DEF Filled
<1> QED  BY <1>1, <1>2, <1>3, <1>4 DEF FileInv

LEMMA EndFile == ASSUME CInv, FileInv, Leave \/ Kill PROVE FileInv'
<1>1. /\ UNCHANGED <<args, file, size, chip>> /\ pc' = "off"
      /\ outcome' = "ok" => pc = "leave"
  BY DEF Leave, Kill, spi
<1> QED  BY <1>1 DEF FileInv

LEMMA FileStep == ASSUME CInv, FileInv, [Next]_vars PROVE FileInv'
<1>1. CASE UNCHANGED vars
  <2>1. UNCHANGED <<args, file, pc, outcome, size, i, buffer, op, spiaddr, spidata, chip>>
    BY <1>1 DEF vars, process, spi
  <2>2. \A q \in Nat : Filled(q) => Filled(q)'
    BY <2>1 DEF Filled
  <2> QED  BY <2>1, <2>2 DEF FileInv
<1> QED
  BY <1>1, StartFile, EnterFile, FetchFile, StoreFile, WriteFile, CompleteFile, EndFile
  DEF Next, Process

(* The file a read that ends leaves is the chip from its first byte on,     *)
(* with the last byte of each full buffer a second time, for every size of  *)
(* chip and buffer, however slow the chip is and also when earlier reads    *)
(* were killed.                                                             *)
THEOREM ReadOverlaps == Spec => []ReadRepeats
<1>1. FileInv => ReadRepeats
  BY DEF FileInv, ReadRepeats, Repeated
<1> QED  BY <1>1, FileInit, FileStep, CInvariant, PTL DEF Spec
-----------------------------------------------------------------------------
(* A write of whole sectors implements the writing of an image.             *)

(* What is in the chip grows from the front: the sectors done are in, of    *)
(* the one in hand the bytes before the next; and an erase or a write under *)
(* way, also of a process since killed or after a read error, is about a    *)
(* place before which everything is in, and stores the byte of that place.  *)
FrontInv ==
  Suits =>
    /\ pc \in InSector \/ (pc = "sector" /\ ~eof) => \A n \in 1..i : Byte(n)
    /\ pc \in InSector =>
         /\ i + Len(buffer) <= Len(file)
         /\ \A n \in 1..Len(buffer) : buffer[n] = file[i + n]
         /\ ~eof => Len(buffer) = UNIT
    /\ pc \in {"wren", "write", "wrdi"} =>
         \A n \in 1..(k - 1) : Byte(i + n) \/ (op = "WRITE" /\ n = k - 1)
    /\ op = "SECTOR_ERASE" =>
         \E n \in 0..Len(file) : spiaddr = Base + n /\ \A m \in 1..n : Byte(m)
    /\ op = "WRITE" =>
         \E n \in 1..Len(file) :
           spiaddr = Base + n - 1 /\ spidata = file[n] /\ \A m \in 1..(n - 1) : Byte(m)

LEMMA FrontInit == Init => FrontInv
<1> SUFFICES ASSUME Init PROVE FrontInv
  OBVIOUS
<1>1. pc = "off" /\ op = "none"
  BY DEF Init
<1> QED  BY <1>1 DEF FrontInv, InSector

(* A step that leaves the sectors, and what the chip is at, alone.          *)
LEMMA FrontQuiet ==
  ASSUME CInv, FrontInv, UNCHANGED <<args, chip, op, spiaddr, spidata>>,
         ~args.reads => file' = file, pc' \notin InSector \cup {"sector"}
  PROVE  FrontInv'
<1> SUFFICES ASSUME ~args.reads PROVE FrontInv'
  BY DEF FrontInv, Suits
<1>1. Base' = Base /\ Suits' = Suits
  BY Setting
<1> QED  BY <1>1 DEF FrontInv, InSector, Byte

LEMMA StartFront ==
  ASSUME CInv, FrontInv, Start \/ Enter \/ Fetch \/ Store \/ Leave \/ Kill
  PROVE  FrontInv'
<1>1. CASE Start \/ Leave \/ Kill
  <2>1. /\ UNCHANGED <<args, chip, op, spiaddr, spidata>> /\ pc' \in {"off", "enter"}
        /\ ~args.reads => file' = file
    BY <1>1 DEF Start, Leave, Kill, spi
  <2> QED  BY <2>1, FrontQuiet DEF InSector
<1>2. CASE Enter
  <2>1. /\ UNCHANGED <<args, file, i, eof, chip, op, spiaddr, spidata>>
        /\ pc = "enter" /\ pc' \in {"fetch", "sector"}
    BY <1>2 DEF Enter, spi
  <2>2. i' = 0 /\ 1..i' = {}
    BY <2>1 DEF CInv, RangeInv, PlaceInv
  <2>3. Base' = Base /\ Suits' = Suits
    BY <2>1, Setting
  <2> QED  BY <2>1, <2>2, <2>3 DEF FrontInv, InSector, Byte
<1>3. CASE Fetch \/ Store
  <2>1. args.reads /\ args' = args
    BY <1>3 DEF Fetch, Store, Untouched, CInv, RangeInv, PlaceInv
  <2> QED  BY <2>1 DEF FrontInv, Suits
<1> QED  BY <1>1, <1>2, <1>3

(* What was read of a sector is the front of it, also when the read failed. *)
LEMMA NextSectorFront == ASSUME CInv, FrontInv, NextSector PROVE FrontInv'
<1>1. /\ pc = "sector" /\ pc' = (IF More THEN "erasable" ELSE "leave")
      /\ UNCHANGED <<args, file, i, chip, op, spiaddr, spidata>>
  BY DEF NextSector, Goes, spi
<1>2. CASE ~More
  BY <1>1, <1>2, FrontQuiet DEF InSector
<1>3. CASE More
  <2>1. Base' = Base /\ Suits' = Suits
    BY <1>1, Setting
  <2> SUFFICES ASSUME Suits
               PROVE  /\ \A n \in 1..i : (Byte(n))'
                      /\ i + Len(buffer') <= Len(file)
                      /\ \A n \in 1..Len(buffer') : buffer'[n] = file[i + n]
                      /\ ~eof' => Len(buffer') = UNIT
    BY <1>1, <1>3, <2>1 DEF FrontInv, InSector, Byte
  <2>2. /\ i < size /\ ~eof /\ i <= Len(file) /\ i \in Nat /\ Len(file) \in Nat
        /\ UNIT \in Nat /\ args.sector = UNIT
    BY <1>1, <1>3, SpanType DEF More, Suits, CInv, RangeInv, TInv, TypeOK, PlaceInv, Writes
  <2>3. \A n \in 1..i : (Byte(n))'
    BY <1>1, <2>1, <2>2 DEF FrontInv, Byte
  <2>4. /\ Sector \in Seq(BYTE) /\ Len(Sector) \in Nat
        /\ Len(Sector) = Least(IF i < Len(file) THEN Len(file) - i ELSE 0, UNIT)
        /\ \A j \in 1..Len(Sector) : Sector[j] = file[i + j]
    BY <2>2, SectorType DEF CInv, RangeInv, TInv
  <2>5. i + Len(Sector) <= Len(file) /\ Len(Sector) <= UNIT
    BY <2>2, <2>4 DEF Least
  <2>6. /\ Len(buffer') \in Nat /\ Len(buffer') <= Len(Sector)
        /\ \A n \in 1..Len(buffer') : buffer'[n] = Sector[n]
    <3>1. CASE buffer' = Sector
      BY <2>4, <3>1
    <3>2. ASSUME NEW n \in 0..(Len(Sector) - 1), buffer' = SubSeq(Sector, 1, n)
          PROVE  /\ Len(buffer') \in Nat /\ Len(buffer') <= Len(Sector)
                 /\ \A m \in 1..Len(buffer') : buffer'[m] = Sector[m]
      <4>1. n \in Nat /\ n <= Len(Sector)
        BY <2>4
      <4>2. /\ Len(SubSeq(Sector, 0 + 1, n)) = (IF 0 < n THEN n - 0 ELSE 0)
            /\ \A j \in 1..Len(SubSeq(Sector, 0 + 1, n)) : SubSeq(Sector, 0 + 1, n)[j] = Sector[0 + j]
        BY <2>4, <4>1, SequenceType
      <4> QED  BY <2>4, <3>2, <4>1, <4>2
    <3> QED  BY <1>3, <3>1, <3>2 DEF NextSector
  <2>7. ~eof' => Len(buffer') = UNIT
    <3>1. eof' = (Len(buffer') < UNIT)
      BY <1>3, <2>2 DEF NextSector, ShortRead
    <3>2. ~eof' => ~(Len(buffer') < UNIT)
      BY <3>1, Zenon
    <3> QED  BY <2>2, <2>4, <2>5, <2>6, <3>2
  <2>8. i + Len(buffer') <= Len(file)
    BY <2>2, <2>4, <2>5, <2>6
  <2>9. \A n \in 1..Len(buffer') : buffer'[n] = file[i + n]
    BY <2>4, <2>6
  <2> QED  BY <2>3, <2>7, <2>8, <2>9
<1> QED  BY <1>2, <1>3

LEMMA WriteFront ==
  ASSUME CInv, FrontInv, WriteEnable \/ EraseSector \/ WriteByte \/ WriteDisable
  PROVE  FrontInv'
<1>1. UNCHANGED <<args, file, chip, buffer, eof>> /\ pc \in InSector
  BY DEF WriteEnable, EraseSector, WriteByte, WriteDisable, Enable, Give, Goes, Untouched, InSector
<1>2. EnabledInv /\ pc \in Talking /\ Wait
  BY <1>1 DEF WriteEnable, EraseSector, WriteByte, WriteDisable, Enable, Give,
              CInv, RangeInv, InSector, Talking
<1>3. op = "none"
  BY <1>2, WaitWaits
<1>4. Base' = Base /\ Suits' = Suits
  BY <1>1, Setting
<1> SUFFICES ASSUME Suits PROVE FrontInv'
  BY <1>4 DEF FrontInv
<1>5. /\ Base \in Nat /\ i \in Nat /\ UNIT \in Nat /\ UNIT > 0
      /\ i <= Len(file) /\ Len(file) \in Nat /\ Len(buffer) \in Nat
      /\ k \in 1..(Len(buffer) + 1)
  BY <1>1, InHand
<1>6. /\ \A n \in 1..i : Byte(n)
      /\ i + Len(buffer) <= Len(file)
      /\ \A n \in 1..Len(buffer) : buffer[n] = file[i + n]
      /\ ~eof => Len(buffer) = UNIT
  BY <1>1 DEF FrontInv
<1>7. pc \in {"wren", "write", "wrdi"} => \A n \in 1..(k - 1) : Byte(i + n)
  BY <1>3 DEF FrontInv
<1>8. \A n \in Nat : Byte(n) => (Byte(n))'
  BY <1>1, <1>4 DEF Byte
<1>9. ASSUME i' = i
      PROVE  /\ \A n \in 1..i' : (Byte(n))'
             /\ i' + Len(buffer') <= Len(file')
             /\ \A n \in 1..Len(buffer') : buffer'[n] = file'[i' + n]
             /\ ~eof' => Len(buffer') = UNIT
  BY <1>1, <1>5, <1>6, <1>8, <1>9
<1>10. CASE WriteEnable
  <2>1. op' = "WREN" /\ pc' \in {"erase", "write"} /\ UNCHANGED <<i, k>>
        /\ (pc' = "write" => pc = "wren")
    BY <1>2, <1>10, CommandArrives DEF WriteEnable, Enable, Give, Goes
  <2>2. pc' = "write" => \A n \in 1..(k' - 1) : (Byte(i + n))'
    BY <1>1, <1>4, <1>7, <2>1 DEF Byte
  <2> QED  BY <1>9, <2>1, <2>2 DEF FrontInv, InSector
<1>11. CASE EraseSector
  <2>1. op' = "SECTOR_ERASE" /\ pc = "erase" /\ pc' \in {"wren", "wrdi"} /\ UNCHANGED <<i, k>>
        /\ spiaddr' = Base + i
    BY <1>2, <1>11, CommandArrives DEF EraseSector, Give, Goes, At
  <2>2. 1..(k' - 1) = {}
    <3>1. k' = 1
      BY <2>1 DEF CInv, RangeInv, TInv, BytesInv
    <3> QED  BY <3>1
  <2>3. \E n \in 0..Len(file') : spiaddr' = Base' + n /\ \A m \in 1..n : (Byte(m))'
    BY <1>1, <1>4, <1>5, <1>9, <2>1
  <2> QED  BY <1>9, <2>1, <2>2, <2>3 DEF FrontInv, InSector
<1>12. CASE WriteByte
  <2>1. op' = "WRITE" /\ pc = "write" /\ pc' \in {"wrdi", "wren"} /\ i' = i
        /\ k' = k + 1 /\ spiaddr' = Base + i + k - 1 /\ spidata' = buffer[k]
    BY <1>2, <1>12, CommandArrives DEF WriteByte, Give, Goes, At
  <2>2. k <= Len(buffer) /\ k \in 1..Len(buffer)
    BY <1>5, <2>1 DEF CInv, RangeInv, TInv, BytesInv
  <2>3. \A n \in 1..(i + k - 1) : Byte(n)
    <3> SUFFICES ASSUME NEW n \in 1..(i + k - 1) PROVE Byte(n)
      OBVIOUS
    <3>1. CASE n <= i
      BY <1>5, <1>6, <3>1
    <3>2. CASE i < n
      <4>1. PICK j \in 1..(k - 1) : n = i + j
        <5>1. n - i \in 1..(k - 1) /\ n = i + (n - i)
          BY <1>5, <3>2
        <5> QED  BY <5>1
      <4> QED  BY <1>7, <2>1, <4>1
    <3> QED  BY <1>5, <3>1, <3>2
  <2>4. \E n \in 1..Len(file') :
          spiaddr' = Base' + n - 1 /\ spidata' = file'[n] /\ \A m \in 1..(n - 1) : (Byte(m))'
    <3>1. i + k \in 1..Len(file) /\ Base + i + k - 1 = Base + (i + k) - 1
      BY <1>5, <1>6, <2>2
    <3>2. spidata' = file[i + k]
      BY <1>6, <2>1, <2>2
    <3>3. \A m \in 1..((i + k) - 1) : (Byte(m))'
      BY <1>5, <1>8, <2>3
    <3> QED  BY <1>1, <1>4, <2>1, <3>1, <3>2, <3>3
  <2>5. \A n \in 1..(k' - 1) : (Byte(i + n))' \/ n = k' - 1
    <3>1. \A n \in 1..(k' - 1) : n \in 1..(k - 1) \/ n = k' - 1
      BY <1>5, <2>1
    <3> QED  BY <1>1, <1>4, <1>7, <2>1, <3>1 DEF Byte
  <2> QED  BY <1>9, <2>1, <2>4, <2>5 DEF FrontInv, InSector
<1>13. CASE WriteDisable
  <2>1. op' = "WRDSBL" /\ pc = "wrdi" /\ pc' = "sector" /\ i' = i + UNIT
    BY <1>2, <1>13, CommandArrives DEF WriteDisable, Give, Goes, Suits
  <2>2. k = Len(buffer) + 1
    BY <2>1 DEF CInv, OrderInv
  <2>3. ASSUME ~eof, NEW n \in 1..i' PROVE (Byte(n))'
    <3>1. n \in Nat /\ n >= 1 /\ n <= i + UNIT /\ k = UNIT + 1
      BY <1>5, <1>6, <2>1, <2>2, <2>3
    <3>2. CASE n <= i
      BY <1>5, <1>6, <1>8, <3>1, <3>2
    <3>3. CASE i < n
      <4>1. PICK j \in 1..(k - 1) : n = i + j
        <5>1. n - i \in 1..(k - 1) /\ n = i + (n - i)
          BY <1>5, <3>1, <3>3
        <5> QED  BY <5>1
      <4> QED  BY <1>7, <1>8, <2>1, <4>1
    <3> QED  BY <1>5, <3>1, <3>2, <3>3
  <2> QED  BY <1>1, <2>1, <2>3 DEF FrontInv, InSector
<1> QED  BY <1>10, <1>11, <1>12, <1>13

(* What an erase that completes leaves alone, and what a write does.        *)
LEMMA FrontErase ==
  ASSUME CInv, Suits, Complete, op = "SECTOR_ERASE",
         NEW n \in Nat, n >= 1, Base + n - 1 < spiaddr, Byte(n)
  PROVE  chip'[Base + n - 1] = file[n]
<1>1. spiaddr \in 0..(CHIP - 1) /\ Whole(spiaddr, UNIT) /\ chip' = Erased(chip, spiaddr)
  BY Effect DEF Harmful
<1>2. Base \in Nat /\ CHIP \in Nat
  BY SpanType, EflasherAssumption DEF CInv, RangeInv, TInv
<1>3. PICK b \in 0..(CHIP - 1) : b = Base + n - 1
  BY <1>1, <1>2
<1>4. Erased(chip, spiaddr)[b] = chip[b]
  BY <1>1, <1>3, BelowKept
<1> QED  BY <1>1, <1>3, <1>4 DEF Byte

LEMMA FrontWrite ==
  ASSUME CInv, FrontInv, Suits, Complete, op = "WRITE"
  PROVE  /\ \A n \in Nat : n >= 1 /\ Byte(n) => (Byte(n))'
         /\ \A n \in Nat : n >= 1 /\ spiaddr = Base + n - 1 => (Byte(n))'
<1>1. spiaddr \in 0..(CHIP - 1) /\ chip' = [chip EXCEPT ![spiaddr] = spidata]
  BY Effect DEF Harmful
<1>2. Base \in Nat /\ CHIP \in Nat /\ Len(file) \in Nat /\ chip \in [0..(CHIP - 1) -> BYTE]
  BY SpanType, EflasherAssumption DEF CInv, RangeInv, TInv, TypeOK
<1>3. Base' = Base /\ file' = file
  BY Setting DEF Complete
<1>4. PICK x \in 1..Len(file) : spiaddr = Base + x - 1 /\ spidata = file[x]
  BY DEF FrontInv
<1>5. ASSUME NEW n \in Nat, n >= 1, spiaddr = Base + n - 1 PROVE (Byte(n))'
  <2>1. n = x
    BY <1>2, <1>4, <1>5
  <2>2. chip'[spiaddr] = spidata
    BY <1>1, <1>2
  <2> QED  BY <1>3, <1>4, <1>5, <2>1, <2>2 DEF Byte
<1>6. ASSUME NEW n \in Nat, n >= 1, Byte(n), spiaddr # Base + n - 1 PROVE (Byte(n))'
  <2>1. chip'[Base + n - 1] = chip[Base + n - 1]
    BY <1>1, <1>2, <1>6
  <2> QED  BY <1>3, <1>6, <2>1 DEF Byte
<1> QED  BY <1>5, <1>6

LEMMA CompleteFront == ASSUME CInv, FrontInv, Complete PROVE FrontInv'
<1>1. op' = "none" /\ UNCHANGED <<args, file, pc, i, k, buffer, eof>>
  BY DEF Complete, process
<1>2. Base' = Base /\ Suits' = Suits
  BY <1>1, Setting
<1> SUFFICES ASSUME Suits
             PROVE  /\ pc \in InSector \/ (pc = "sector" /\ ~eof) => \A n \in 1..i : (Byte(n))'
                    /\ pc \in {"wren", "write", "wrdi"} => \A n \in 1..(k - 1) : (Byte(i + n))'
  <2>1. Suits /\ pc \in InSector =>
          /\ i + Len(buffer) <= Len(file)
          /\ \A n \in 1..Len(buffer) : buffer[n] = file[i + n]
          /\ ~eof => Len(buffer) = UNIT
    BY DEF FrontInv
  <2> QED  BY <1>1, <1>2, <2>1 DEF FrontInv
<1>3. /\ i \in Nat /\ Base \in Nat /\ k \in Nat /\ k >= 1
  <2>1. k \in 1..(Len(buffer) + 1) /\ Len(buffer) \in Nat
    BY DEF CInv, RangeInv, TInv, TypeOK
  <2> QED  BY <2>1, SpanType DEF CInv, RangeInv, TInv, TypeOK
<1>4. CASE op \notin Harmful
  <2>1. chip' = chip
    BY <1>4, NoEffect
  <2> QED  BY <1>1, <1>2, <1>4, <2>1 DEF FrontInv, Byte, Harmful
<1>5. CASE op = "SECTOR_ERASE"
  <2>1. pc # "erase" /\ (pc \in {"sector", "erasable"} => i = 0)
        /\ (pc \in {"wren", "write", "wrdi"} => spiaddr = Base + i /\ k = 1)
    BY <1>5 DEF CInv, IInv, LatchInv, OrderInv, Harmful
  <2>2. ASSUME pc \in InSector \/ (pc = "sector" /\ ~eof), NEW n \in 1..i PROVE (Byte(n))'
    <3>1. n \in Nat /\ n >= 1 /\ n <= i /\ i # 0
      BY <1>3
    <3>2. Byte(n) /\ Base + n - 1 < spiaddr
      BY <1>3, <2>1, <2>2, <3>1 DEF FrontInv, InSector
    <3> QED  BY <1>1, <1>2, <1>5, <3>1, <3>2, FrontErase DEF Byte
  <2>3. pc \in {"wren", "write", "wrdi"} => 1..(k - 1) = {}
    BY <2>1
  <2> QED  BY <2>2, <2>3
<1>6. CASE op = "WRITE"
  <2>1. ASSUME pc \in InSector \/ (pc = "sector" /\ ~eof), NEW n \in 1..i PROVE (Byte(n))'
    <3>1. n \in Nat /\ n >= 1 /\ Byte(n)
      BY <1>3, <2>1 DEF FrontInv
    <3> QED  BY <1>6, <3>1, FrontWrite
  <2>2. ASSUME pc \in {"wren", "write", "wrdi"}, NEW n \in 1..(k - 1) PROVE (Byte(i + n))'
    <3>1. PICK x \in Nat : x = i + n /\ x >= 1
      BY <1>3
    <3>2. CASE Byte(i + n)
      <4>1. (Byte(x))'
        BY <1>6, <3>1, <3>2, FrontWrite
      <4> QED  BY <1>1, <3>1, <4>1 DEF Byte
    <3>3. CASE n = k - 1
      <4>1. spiaddr = Base + x - 1
        <5>1. spiaddr = Base + i + k - 2
          BY <1>6, <2>2 DEF CInv, OrderInv
        <5> QED  BY <1>3, <3>1, <3>3, <5>1
      <4>2. (Byte(x))'
        BY <1>6, <3>1, <4>1, FrontWrite
      <4> QED  BY <1>1, <3>1, <4>2 DEF Byte
    <3> QED  BY <2>2, <3>2, <3>3 DEF FrontInv
  <2> QED  BY <2>1, <2>2
<1> QED  BY <1>4, <1>5, <1>6 DEF Harmful

LEMMA FrontStep == ASSUME CInv, FrontInv, [Next]_vars PROVE FrontInv'
<1>1. CASE UNCHANGED vars
  <2>1. UNCHANGED <<args, file, pc, i, buffer, k, eof, spiaddr, spidata, op, chip>>
    BY <1>1 DEF vars, process, spi
  <2>2. Base' = Base /\ Suits' = Suits
    BY <2>1, Setting
  <2> QED  BY <2>1, <2>2 DEF FrontInv, Byte
<1>2. CASE Next
  BY <1>2, StartFront, NextSectorFront, WriteFront, CompleteFront DEF Next, Process
<1> QED  BY <1>1, <1>2

LEMMA FrontInvariant == Spec => [](CInv /\ FrontInv)
<1>1. Init => CInv /\ FrontInv
  BY InvInit, RangeInit, CInit, FrontInit DEF CInv
<1> QED  BY <1>1, CStep, FrontStep, PTL DEF Spec

(* The image, byte by byte.                                                 *)
Amount == Least(Len(file), RoundUp(Asked, UNIT))

Stored == SubSeq(file, 1, Amount)

LEMMA StoredBytes ==
  ASSUME CInv, Suits
  PROVE  /\ Amount \in Nat /\ Amount <= Len(file) /\ Amount <= RoundUp(Asked, UNIT)
         /\ RoundUp(Asked, UNIT) \in Nat /\ Len(file) \in Nat
         /\ Len(Stored) = Amount
         /\ \A n \in 1..Amount : Stored[n] = file[n]
<1>1. /\ Asked \in Nat /\ Len(file) \in Nat /\ file \in Seq(BYTE)
      /\ UNIT \in Nat /\ UNIT > 0
  BY SpanType, EflasherAssumption DEF CInv, RangeInv, TInv, TypeOK
<1>2. RoundUp(Asked, UNIT) \in Nat
  BY <1>1, RoundUpBounds
<1>3. Amount \in Nat /\ Amount <= Len(file) /\ Amount <= RoundUp(Asked, UNIT)
  BY <1>1, <1>2 DEF Amount, Least
<1>4. /\ Len(SubSeq(file, 0 + 1, Amount)) = (IF 0 < Amount THEN Amount - 0 ELSE 0)
      /\ \A j \in 1..Len(SubSeq(file, 0 + 1, Amount)) : SubSeq(file, 0 + 1, Amount)[j] = file[0 + j]
  BY <1>1, <1>3, SequenceType
<1>5. SubSeq(file, 0 + 1, Amount) = Stored
  BY DEF Stored
<1> HIDE DEF Stored, Amount
<1>6. Len(Stored) = Amount
  BY <1>3, <1>4, <1>5
<1> QED  BY <1>1, <1>2, <1>3, <1>4, <1>5, <1>6

LEMMA SpanWithin == ASSUME CInv, Suits PROVE Span <= RoundUp(Asked, UNIT)
<1>1. /\ Len(file) \in Nat /\ UNIT \in Nat /\ UNIT > 0 /\ args.sector = UNIT
      /\ RoundUp(Asked, UNIT) \in Nat
  BY StoredBytes, SpanType DEF CInv, RangeInv, TInv, Suits
<1>2. Len(file) \div UNIT + 1 \in Nat
  BY <1>1, Division
<1>3. (Len(file) \div UNIT + 1) * UNIT \in Nat
  BY <1>1, <1>2
<1> QED  BY <1>1, <1>3 DEF Span, Least

LEMMA StoredIn ==
  ASSUME CInv, Suits, NEW n \in Nat, n <= Amount, \A m \in 1..n : Byte(m)
  PROVE  Write!In(n)
<1>1. \A m \in 1..n : Stored[m] = file[m]
  BY StoredBytes
<1> QED  BY <1>1 DEF Write!In, Byte, Stored, Amount

(* The image and its place do not change.                                   *)
LEMMA ImageStays ==
  ASSUME UNCHANGED <<args, file>>
  PROVE  UNCHANGED <<Base, Span, SubSeq(file, 1, Least(Len(file), RoundUp(Asked, UNIT)))>>
<1>1. Base' = Base /\ Span' = Span /\ Asked' = Asked
  BY Setting
<1> QED  BY <1>1 DEF RoundUp, Least

LEMMA EraseRefined ==
  ASSUME CInv, FrontInv, Suits, Complete, op = "SECTOR_ERASE"
  PROVE  Write!Empty
<1>1. spiaddr \in 0..(CHIP - 1) /\ Whole(spiaddr, UNIT) /\ chip' = Erased(chip, spiaddr)
  BY Effect DEF Harmful
<1>2. PICK n \in 0..Len(file) : spiaddr = Base + n /\ \A m \in 1..n : Byte(m)
  BY DEF FrontInv
<1>3. /\ Base \in Nat /\ Span \in Nat /\ CHIP \in Nat /\ Len(file) \in Nat
      /\ UNIT \in Nat /\ UNIT > 0 /\ args.sector = UNIT
  BY SpanType, EflasherAssumption DEF CInv, RangeInv, TInv, Suits
<1>4. n \in Nat /\ n + UNIT <= Span
  <2>1. PICK q \in Nat : spiaddr = Base + q * UNIT /\ q * UNIT + UNIT <= Span
    BY <1>3 DEF CInv, RangeInv, AddressInv
  <2>2. q * UNIT \in Nat
    BY <1>3
  <2> QED  BY <1>2, <1>3, <2>1, <2>2
<1>5. n <= Amount /\ Amount = Len(Stored)
  <2>1. n <= RoundUp(Asked, UNIT) /\ n <= Len(file)
    BY <1>2, <1>3, <1>4, SpanWithin, StoredBytes
  <2> QED  BY <2>1, StoredBytes DEF Amount, Least
<1>6. (Base + n) % UNIT = 0
  <2>1. PICK q \in Nat : spiaddr = q * UNIT
    BY <1>1 DEF Whole
  <2>2. (q * UNIT + 0) % UNIT = 0
    BY <1>3, QuotientUnique
  <2>3. q * UNIT + 0 = Base + n
    BY <1>2, <1>3, <2>1
  <2> QED  BY <2>2, <2>3
<1>7. Write!In(n)
  BY <1>2, <1>4, <1>5, StoredIn
<1>8. chip' = [a \in 0..(CHIP - 1) |->
                 IF a \in (Base + n)..(Base + n + UNIT - 1) THEN 255 ELSE chip[a]]
  <2>1. ASSUME NEW a \in 0..(CHIP - 1)
        PROVE  a \div UNIT = spiaddr \div UNIT <=> a \in (Base + n)..(Base + n + UNIT - 1)
    <3>1. /\ a < spiaddr => a \div UNIT # spiaddr \div UNIT
          /\ spiaddr <= a /\ a < spiaddr + UNIT => a \div UNIT = spiaddr \div UNIT
          /\ spiaddr + UNIT <= a => a \div UNIT # spiaddr \div UNIT
      BY <1>1, UnitOf
    <3>2. a \in Nat
      BY <1>3
    <3>3. CASE a < spiaddr
      BY <1>2, <1>3, <1>4, <3>1, <3>2, <3>3
    <3>4. CASE spiaddr <= a /\ a < spiaddr + UNIT
      BY <1>2, <1>3, <1>4, <3>1, <3>2, <3>4
    <3>5. CASE spiaddr + UNIT <= a
      BY <1>2, <1>3, <1>4, <3>1, <3>2, <3>5
    <3> QED  BY <1>2, <1>3, <3>2, <3>3, <3>4, <3>5
  <2> QED  BY <1>1, <2>1 DEF Erased
<1>9. outcome # "ok" /\ UNCHANGED <<args, file, outcome, errors>>
  BY DEF Complete, process, CInv, OrderInv, Harmful
<1>10. n \in 0..Len(Stored)
  BY <1>4, <1>5, StoredBytes
<1> QED
  BY <1>4, <1>6, <1>7, <1>8, <1>9, <1>10, ImageStays DEF Write!Empty, Stored, Amount

LEMMA FillRefined ==
  ASSUME CInv, FrontInv, Suits, Complete, op = "WRITE"
  PROVE  Write!Fill
<1>1. spiaddr \in 0..(CHIP - 1) /\ chip' = [chip EXCEPT ![spiaddr] = spidata]
  BY Effect DEF Harmful
<1>2. PICK n \in 1..Len(file) : /\ spiaddr = Base + n - 1 /\ spidata = file[n]
                               /\ \A m \in 1..(n - 1) : Byte(m)
  BY DEF FrontInv
<1>3. /\ Base \in Nat /\ Span \in Nat /\ Len(file) \in Nat
      /\ UNIT \in Nat /\ UNIT > 0 /\ args.sector = UNIT
  BY SpanType, EflasherAssumption DEF CInv, RangeInv, TInv, Suits
<1>4. n \in Nat /\ n >= 1 /\ n - 1 \in Nat /\ n <= Span
  <2>1. spiaddr \in Base..(Base + Span - 1)
    BY DEF CInv, RangeInv, AddressInv
  <2> QED  BY <1>2, <1>3, <2>1
<1>5. n <= Amount /\ Amount \in Nat
  <2>1. n <= RoundUp(Asked, UNIT) /\ n <= Len(file)
    BY <1>2, <1>3, <1>4, SpanWithin, StoredBytes
  <2> QED  BY <2>1, StoredBytes DEF Amount, Least
<1>6. Write!In(n - 1)
  BY <1>2, <1>4, <1>5, StoredIn
<1>7. chip[Base + n - 1] = 255
  BY <1>2 DEF CInv, ErasedInv
<1>8. n \in 1..Len(Stored) /\ Stored[n] = file[n]
  BY <1>4, <1>5, StoredBytes
<1>9. outcome # "ok" /\ UNCHANGED <<args, file, outcome, errors>>
  BY DEF Complete, process, CInv, OrderInv, Harmful
<1> QED
  BY <1>1, <1>2, <1>4, <1>6, <1>7, <1>8, <1>9, ImageStays DEF Write!Fill, Stored, Amount

LEMMA LeaveRefined ==
  ASSUME CInv, CInv', Suits, Leave
  PROVE  Write!Finish \/ UNCHANGED Write!imageVars
<1>1. /\ UNCHANGED <<args, file, size, errors, chip>> /\ outcome' = "ok" /\ pc = "leave"
  BY DEF Leave, spi
<1>2. outcome = "none" /\ size = Asked
  BY <1>1 DEF CInv, RangeInv, PlaceInv, OrderInv, Talking
<1>3. Base' = Base /\ Suits' = Suits /\ Asked' = Asked
  BY <1>1, Setting
<1>4. CASE errors = 0
  <2>1. \A n \in 1..Least(Len(file), RoundUp(Asked, UNIT)) : Byte(n)
    <3>1. \A n \in 1..Least(Len(file'), RoundUp(size', UNIT)) : (Byte(n))'
      BY <1>1, <1>3, <1>4 DEF CInv, ContentInv
    <3> QED  BY <1>1, <1>2, <1>3, <3>1 DEF Byte
  <2>2. Write!In(Amount) /\ Len(Stored) = Amount
    BY <2>1, StoredIn, StoredBytes DEF Amount
  <2> QED
    BY <1>1, <1>4, <2>2, ImageStays DEF Write!Finish, Stored, Amount
<1>5. CASE errors # 0
  BY <1>1, <1>2, <1>5, ImageStays DEF Write!imageVars
<1> QED  BY <1>4, <1>5

(* The chip changes by itself only; and of the process only its end says    *)
(* that the image is in.                                                    *)
LEMMA OtherRefined ==
  ASSUME CInv, Suits, Start \/ Kill \/ (Process /\ ~Leave) \/ UNCHANGED vars
  PROVE  UNCHANGED Write!imageVars
<1>1. UNCHANGED <<args, file, chip>>
  <2>1. ~args.reads
    BY DEF Suits
  <2>2. ~(Fetch \/ Store)
    BY <2>1 DEF Fetch, Store, CInv, RangeInv, PlaceInv
  <2> QED
    BY <2>1, <2>2 DEF Start, Kill, Process, Enter, NextSector, WriteEnable, EraseSector, WriteByte,
                      WriteDisable, Untouched, spi, vars
<1>2. outcome' = "ok" /\ errors' = 0 <=> outcome = "ok" /\ errors = 0
  <2>1. CASE Start \/ Kill
    <3>1. outcome # "ok" /\ outcome' # "ok"
      BY <2>1 DEF Start, Kill, CInv, RangeInv, EnabledInv, OrderInv
    <3> QED  BY <3>1
  <2>2. CASE Process /\ ~Leave
    <3>1. outcome' = outcome /\ pc \in {"enter"} \cup Talking
      BY <2>2 DEF Process, Enter, Fetch, Store, NextSector, WriteEnable, Enable, EraseSector,
                  WriteByte, WriteDisable, Give, Goes, Talking
    <3> QED  BY <3>1 DEF CInv, OrderInv
  <2>3. CASE UNCHANGED vars
    BY <2>3 DEF vars, process
  <2> QED  BY <2>1, <2>2, <2>3
<1> QED  BY <1>1, <1>2, ImageStays DEF Write!imageVars

(* Writing a file by whole sectors of the chip, all of them on it, is the   *)
(* writing of an image: emptied and filled from the front, done only when   *)
(* all of it is in, and left alone from then on; for every chip and file,   *)
(* killed and begun again at any point, with reads of the file failing.     *)
THEOREM WriteRefined == Spec => WriteImplemented
<1>1. Init => (Suits => Write!Init)
  BY DEF Init, Write!Init
<1>2. ASSUME CInv, CInv', FrontInv, [Next]_vars
      PROVE  [Suits => Write!Next]_(Write!imageVars)
  <2> SUFFICES ASSUME Suits PROVE Write!Next \/ UNCHANGED Write!imageVars
    OBVIOUS
  <2>1. CASE Complete
    <3>1. CASE op = "SECTOR_ERASE"
      BY <1>2, <2>1, <3>1, EraseRefined DEF Write!Next
    <3>2. CASE op = "WRITE"
      BY <1>2, <2>1, <3>2, FillRefined DEF Write!Next
    <3>3. CASE op \notin Harmful
      <4>1. UNCHANGED <<args, file, outcome, errors, chip>>
        BY <2>1, <3>3, NoEffect DEF Complete, process
      <4> QED  BY <4>1, ImageStays DEF Write!imageVars
    <3> QED  BY <3>1, <3>2, <3>3 DEF Harmful
  <2>2. CASE Leave
    BY <1>2, <2>2, LeaveRefined DEF Write!Next
  <2>3. CASE Start \/ Kill \/ (Process /\ ~Leave) \/ UNCHANGED vars
    BY <1>2, <2>3, OtherRefined
  <2> QED  BY <1>2, <2>1, <2>2, <2>3 DEF Next, Process
<1> QED  BY <1>1, <1>2, FrontInvariant, PTL DEF Spec, WriteImplemented

(* So the whole behaviour of such a write is one of the abstract            *)
(* specification: what suits at first does so all the time.                 *)
THEOREM WriteIsImage == Spec /\ Suits => Write!Spec
<1>1. ASSUME CInv, Suits, [Next]_vars PROVE Suits'
  <2>1. ~args.reads
    BY <1>1 DEF Suits
  <2>2. ~(Fetch \/ Store)
    BY <1>1, <2>1 DEF Fetch, Store, CInv, RangeInv, PlaceInv
  <2>3. UNCHANGED <<args, file>>
    BY <1>1, <2>1, <2>2 DEF Next, Start, Process, Enter, NextSector, WriteEnable, EraseSector,
                            WriteByte, WriteDisable, Leave, Complete, Kill, Untouched, process, vars
  <2> QED  BY <1>1, <2>3, Setting
<1> QED  BY <1>1, CInvariant, WriteRefined, PTL DEF Spec, WriteImplemented, Write!Spec
=============================================================================
