------------------------------ MODULE Eflasher ------------------------------
(***************************************************************************)
(* eflasher: reads or writes the SPI flash behind the controller through   *)
(* its index I/O ports.  One action is a command to the SPI interface with *)
(* the wait before it and the computation up to the next wait; the chip    *)
(* completes commands in its own time.  A behaviour is about one command   *)
(* line, given again after the process was killed.                         *)
(*                                                                         *)
(* The chip and the SPI registers are the controller's, whose source is    *)
(* not here: they are modelled as the program uses them.                   *)
(***************************************************************************)
EXTENDS Naturals, Sequences

CONSTANTS
  CHIP,         \* bytes of the flash chip (0x20000)
  UNIT,         \* bytes command 0x20 erases (0x1000)
  BUFFER_SIZE,  \* bytes read before they are written to the file (0x1000)
  OldChip,      \* what the chip holds at first
  Files,        \* the files a write may be given
  Args,         \* the command lines
  MaxFaults     \* bound on the faults of a behaviour

BYTE == 0..255

ASSUME EflasherAssumption ==
  /\ CHIP \in Nat /\ UNIT \in Nat \ {0} /\ CHIP % UNIT = 0
  /\ BUFFER_SIZE \in Nat \ {0, 1}
  /\ OldChip \in [0..(CHIP - 1) -> BYTE]
  /\ Files \subseteq Seq(BYTE)
  /\ Args \subseteq [reads : BOOLEAN, address : 0..(CHIP - 1), sector : Nat \ {0},
                     word : {"absent", "number", "other"}, size : Nat]
  /\ MaxFaults \in Nat

VARIABLES
  args,     \* the command line
  file,     \* the file read from, or written to
  pc,       \* the command main is about to give; "off" when not running
  outcome,  \* how the last run ended
  size,     \* what is asked for, 0x20000 when nothing was
  i,        \* bytes done, rounded to sectors when writing
  buffer,   \* bytes read and not yet in the file, or the sector to write
  k,        \* byte of the sector being written
  eof,      \* feof or ferror of the file
  saved,    \* oldState
  kills, errors,  \* kills and read errors so far
  board,    \* PMU and WDTCFG: as they were found, or set for programming
  cfg,      \* bits set in SPICFG
  spiaddr, spidata,  \* SPIADDR0-2 and SPIDATA
  op,       \* command the SPI interface is carrying out, or "none"
  chip,     \* the flash
  latch     \* its write enable latch

process == <<pc, outcome, size, i, buffer, k, eof, saved>>
board_regs == <<board, cfg>>
spi == <<spiaddr, spidata, op, chip, latch>>
vars == <<args, file, process, kills, errors, board_regs, spi>>

Bits  == {"BUSYCHK", "DUMMYFLG", "SPICMDEN"}
Steps == {"off", "enter", "fetch", "got", "sector", "erasable", "erase", "wren",
          "write", "wrdi", "leave"}

TypeOK ==
  /\ args \in Args
  /\ file \in Seq(BYTE)
  /\ pc \in Steps
  /\ outcome \in {"none", "ok", "invalid", "killed"}
  /\ size \in Nat /\ i \in Nat
  /\ buffer \in Seq(BYTE)
  /\ k \in 1..(Len(buffer) + 1)
  /\ eof \in BOOLEAN
  /\ saved \in [board : {"found", "prog"}, cfg : SUBSET Bits]
  /\ kills \in 0..MaxFaults /\ errors \in 0..MaxFaults
  /\ board \in {"found", "prog"}
  /\ cfg \in SUBSET Bits
  /\ spiaddr \in Nat /\ spidata \in BYTE
  /\ op \in {"none", "FREAD", "WREN", "SECTOR_ERASE", "WRITE", "WRDSBL"}
  /\ chip \in [0..(CHIP - 1) -> BYTE]
  /\ latch \in BOOLEAN

Init ==
  /\ args \in Args
  /\ file \in Files
  /\ pc = "off"
  /\ outcome = "none"
  /\ size = 0
  /\ i = 0
  /\ buffer = <<>>
  /\ k = 1
  /\ eof = FALSE
  /\ board = "found"
  /\ cfg \in SUBSET Bits
  /\ saved = [board |-> "found", cfg |-> {}]
  /\ kills = 0
  /\ errors = 0
  /\ spiaddr = 0
  /\ spidata = 0
  /\ op = "none"
  /\ chip = OldChip
  /\ latch = FALSE
-----------------------------------------------------------------------------
(* The chip and the interface to it.                                        *)

Erased(c, a) == [b \in 0..(CHIP - 1) |-> IF b \div UNIT = a \div UNIT THEN 255 ELSE c[b]]

(* Programming what is not erased is taken at its worst.                    *)
Programmed(c, a) == [c EXCEPT ![a] = IF c[a] = 255 THEN spidata ELSE 0]

(* The chip looks at the address modulo its size, and at erase and write    *)
(* commands only when they were enabled; each disables the next.            *)
Complete ==
  LET a == spiaddr % CHIP
  IN  /\ op # "none"
      /\ op' = "none"
      /\ spidata' = IF op = "FREAD" THEN chip[a] ELSE spidata
      /\ chip' = CASE op = "SECTOR_ERASE" /\ latch -> Erased(chip, a)
                   [] op = "WRITE" /\ latch -> Programmed(chip, a)
                   [] OTHER -> chip
      /\ latch' = (op = "WREN" \/ (op = "FREAD" /\ latch))
      /\ UNCHANGED <<args, file, process, kills, errors, board_regs, spiaddr>>

(* ec_waitForSPI: the busy bit is only shown when BUSYCHK is set.  Mutant   *)
(* of Wait: the test is inverted.                                           *)
WaitInverted == op # "none" /\ "BUSYCHK" \in cfg

Wait == op = "none" \/ "BUSYCHK" \notin cfg

(* ec_sendSPICommand: without SPICMDEN there is no command.                 *)
Command(c) == op' = IF "SPICMDEN" \in cfg THEN c ELSE op

At(a, data) == spiaddr' = a /\ spidata' = data
Unaddressed == UNCHANGED <<spiaddr, spidata>>

(* A step of the process that leaves chip, files and registers alone but    *)
(* for what it names.                                                       *)
Goes(step) == pc' = step /\ UNCHANGED <<outcome, size, saved>>
Untouched  == UNCHANGED <<args, kills, errors, board_regs, chip, latch>>
-----------------------------------------------------------------------------
(* What is asked for: the whole chip when no size, or zero, is given.       *)
Asked == IF args.word = "number" /\ args.size > 0 THEN args.size ELSE CHIP

(* main: the word after the address is taken for a size.  When the command  *)
(* line ends before the address, main reads on past the end of argv, so the *)
(* word can be anything.  A size that parses is refused when reading.       *)
Start ==
  /\ pc = "off"
  /\ outcome \in {"none", "killed"}
  /\ IF args.word = (IF args.reads THEN "number" ELSE "other")
     THEN outcome' = "invalid" /\ UNCHANGED <<pc, size, file>>
     ELSE /\ pc' = "enter"
          /\ size' = Asked
          /\ file' = IF args.reads THEN <<>> ELSE file
          /\ outcome' = "none"
  /\ i' = 0
  /\ buffer' = <<>>
  /\ k' = 1
  /\ eof' = FALSE
  /\ UNCHANGED <<args, saved, kills, errors, board_regs, spi>>

(* The bits ec_enableSPI sets.  Mutant of EnableBits: BUSYCHK is left out.  *)
EnableBlind == {"SPICMDEN"}

EnableBits == {"BUSYCHK", "SPICMDEN"}

(* ec_enterProgMode, ec_enableSPI and, for reading, ec_enableDummyByte.     *)
Enter ==
  /\ pc = "enter"
  /\ saved' = [board |-> board, cfg |-> cfg]
  /\ board' = "prog"
  /\ cfg' = cfg \cup EnableBits \cup (IF args.reads THEN {"DUMMYFLG"} ELSE {})
  /\ pc' = IF args.reads THEN "fetch" ELSE "sector"
  /\ UNCHANGED <<args, file, outcome, size, i, buffer, k, eof, kills, errors, spi>>

(* readMain2: byte i of the chip, whatever the address asked for.           *)
Fetch ==
  /\ pc = "fetch"
  /\ IF i < size
     THEN Wait /\ Command("FREAD") /\ At(i, spidata) /\ Goes("got")
     ELSE UNCHANGED <<op, spiaddr, spidata>> /\ Goes("leave")
  /\ UNCHANGED <<file, i, buffer, k, eof>> /\ Untouched

(* Mutant of Store: the last, partial buffer is not flushed.                *)
StoreFullOnly ==
  LET got  == Append(buffer, spidata)
      full == Len(got) >= BUFFER_SIZE
  IN  /\ pc = "got"
      /\ Wait
      /\ i' = IF full THEN i ELSE i + 1
      /\ file' = IF full THEN file \o got ELSE file
      /\ buffer' = IF full THEN <<>> ELSE got
      /\ Goes("fetch")
      /\ Unaddressed
      /\ UNCHANGED <<k, eof, op>> /\ Untouched

(* A full buffer is flushed without counting its last byte: the second half *)
(* of the || that counts is not evaluated.                                  *)
Store ==
  LET got  == Append(buffer, spidata)
      full == Len(got) >= BUFFER_SIZE
      flushed == full \/ i + 1 >= size
  IN  /\ pc = "got"
      /\ Wait
      /\ i' = IF full THEN i ELSE i + 1
      /\ file' = IF flushed THEN file \o got ELSE file
      /\ buffer' = IF flushed THEN <<>> ELSE got
      /\ Goes("fetch")
      /\ Unaddressed
      /\ UNCHANGED <<k, eof, op>> /\ Untouched

(* writeMain2: the next sector of the file, if there may be one.  The end   *)
(* of the file is only known once a read came short; a read error ends the  *)
(* loop after what could be read is written.                                *)
Base == args.address - (args.address % args.sector)
Least(a, b) == IF a < b THEN a ELSE b

(* Mutants: a byte of the sector is lost; the loop runs one sector too far; *)
(* a failed read does not end it; the index is not reset.                   *)
SectorShort == SubSeq(file, i + 1, Least(Len(file), i + args.sector - 1))
MorePast    == i <= size /\ ~eof
EndOfFile   == Len(file) < i + args.sector
ByteLeft    == k

Sector    == SubSeq(file, i + 1, Least(Len(file), i + args.sector))
More      == i < size /\ ~eof
ShortRead == Len(buffer') < args.sector
FirstByte == 1

NextSector ==
  /\ pc = "sector"
  /\ IF More
     THEN /\ \/ buffer' = Sector /\ UNCHANGED errors
             \/ /\ kills + errors < MaxFaults
                /\ errors' = errors + 1
                /\ \E n \in 0..(Len(Sector) - 1) : buffer' = SubSeq(Sector, 1, n)
          /\ eof' = ShortRead
          /\ k' = FirstByte
          /\ Goes("erasable")
     ELSE UNCHANGED <<buffer, k, eof, errors>> /\ Goes("leave")
  /\ UNCHANGED <<args, file, i, kills, board_regs, spi>>

(* writeSector: enable, erase, then enable and write byte by byte.  Mutant  *)
(* of Enable: only erasing is enabled.                                      *)
Give(step, c, next) ==
  /\ pc = step
  /\ Wait
  /\ Command(c)
  /\ Goes(next)

EnableErase ==
  \/ Give("erasable", "WREN", "erase")
  \/ Give("wren", "WRDSBL", "write")

Enable ==
  \/ Give("erasable", "WREN", "erase")
  \/ Give("wren", "WREN", "write")

WriteEnable ==
  /\ Enable
  /\ Unaddressed
  /\ UNCHANGED <<file, i, buffer, k, eof>> /\ Untouched

EraseSector ==
  /\ Give("erase", "SECTOR_ERASE", IF buffer = <<>> THEN "wrdi" ELSE "wren")
  /\ At(Base + i, spidata)
  /\ UNCHANGED <<file, i, buffer, k, eof>> /\ Untouched

WriteByte ==
  /\ Give("write", "WRITE", IF k = Len(buffer) THEN "wrdi" ELSE "wren")
  /\ At(Base + i + k - 1, buffer[k])
  /\ k' = k + 1
  /\ UNCHANGED <<file, i, buffer, eof>> /\ Untouched

WriteDisable ==
  /\ Give("wrdi", "WRDSBL", "sector")
  /\ i' = i + args.sector
  /\ Unaddressed
  /\ UNCHANGED <<file, buffer, k, eof>> /\ Untouched

(* ec_disableSPI and ec_exitProgMode, without waiting for the last command. *)
(* Mutant of Restored: the SPI interface is left enabled.                   *)
RestoredBoard == [board |-> saved.board, cfg |-> cfg]

Restored == saved

Leave ==
  /\ pc = "leave"
  /\ board' = Restored.board
  /\ cfg' = Restored.cfg
  /\ pc' = "off"
  /\ outcome' = "ok"
  /\ UNCHANGED <<args, file, size, i, buffer, k, eof, saved, kills, errors, spi>>

Kill ==
  /\ pc # "off"
  /\ kills + errors < MaxFaults
  /\ kills' = kills + 1
  /\ pc' = "off"
  /\ outcome' = "killed"
  /\ UNCHANGED <<errors, args, file, size, i, buffer, k, eof, saved, board_regs, spi>>

Process ==
  \/ Enter
  \/ Fetch \/ Store
  \/ NextSector \/ WriteEnable \/ EraseSector \/ WriteByte \/ WriteDisable
  \/ Leave

Next == Start \/ Process \/ Complete \/ Kill

(* The process runs on, the chip finishes what it was told.                 *)
Spec == Init /\ [][Next]_vars /\ WF_vars(Process) /\ WF_vars(Complete)
-----------------------------------------------------------------------------
RoundUp(n, m) == ((n + m - 1) \div m) * m
Fits == args.sector % UNIT = 0

(* The sectors a write is about: as many as the size covers, and, when the  *)
(* file ends before, the one its end lies in.  A file of whole sectors ends *)
(* at the start of one more, which is erased and not written.               *)
Span == Least(RoundUp(Asked, args.sector), (Len(file) \div args.sector + 1) * args.sector)
Touched == {a % CHIP : a \in Base..(Base + Span - 1)}

(* The chip is never given a command while it carries out another, however  *)
(* slow it is, and also by a process started after one was killed.          *)
NoCommandWhileBusy ==
  [][(pc \in {"got", "erasable", "erase", "wren", "write", "wrdi"} /\ pc' \notin {pc, "off"})
       \/ (pc = "fetch" /\ pc' = "got")
     => op = "none"]_vars

(* No erase or write is issued that the chip would ignore, because the      *)
(* latch is taken back after each; none is programmed over what is there.   *)
NothingIgnored ==
  /\ op \in {"SECTOR_ERASE", "WRITE"} => latch
  /\ op = "WRITE" /\ args.sector = UNIT /\ Base + Span <= CHIP => chip[spiaddr] = 255

(* Killed or not, a write changes nothing but its own sectors.              *)
WriteKeepsOutside ==
  [][Fits /\ chip' # chip =>
       \A a \in 0..(CHIP - 1) \ Touched : chip'[a] = chip[a]]_vars

(* When a write ends and no read failed, the whole file is in the chip from *)
(* the start of the sector of the address on, also when earlier runs were   *)
(* killed.                                                                  *)
WrittenIsFile ==
  outcome = "ok" /\ op = "none" /\ ~args.reads /\ errors = 0
    /\ args.sector = UNIT /\ Base + Span <= CHIP =>
      \A n \in 1..Least(Len(file), RoundUp(size, UNIT)) : chip[Base + n - 1] = file[n]

(* What a read leaves in the file: the chip from its first byte on, with    *)
(* the last byte of each buffer again at the start of the next.             *)
ReadRepeats ==
  outcome = "ok" /\ args.reads =>
    /\ Len(file) = size + (size - 1) \div (BUFFER_SIZE - 1)
    /\ \A n \in 1..Len(file) : file[n] = OldChip[(n - 1) - (n - 1) \div BUFFER_SIZE]

(* What was found in PMU, WDTCFG and SPICFG is there again after a run, if  *)
(* none was killed: the next one saves what the killed one had set.         *)
RegistersRestored ==
  [][outcome' = "ok" /\ kills = 0 => board' = "found" /\ cfg' = saved.cfg]_vars

(* A write by whole sectors of the chip, all of them on it.                 *)
Suits == ~args.reads /\ args.sector = UNIT /\ Base + Span <= CHIP

(* What such a write is about, without the way it is done.  With a read     *)
(* error the image never counts as in.                                      *)
Write == INSTANCE FlashImage WITH
  place <- Base,
  room  <- Span,
  image <- SubSeq(file, 1, Least(Len(file), RoundUp(Asked, UNIT))),
  done  <- outcome = "ok" /\ errors = 0

(* Such a write implements the writing of an image, however slow the chip   *)
(* is, and killed and begun again at any point.                             *)
WriteImplemented ==
  /\ Suits => Write!Init
  /\ [][Suits => Write!Next]_(Write!imageVars)

(* Every run ends, for the chip is always done some time.                   *)
Termination == (pc # "off") ~> (pc = "off")

(* README: "-r <file> [address [size]] - read to file".                     *)
ReadIsRange ==
  outcome = "ok" /\ args.reads =>
    file = [n \in 1..(CHIP - args.address) |-> OldChip[args.address + n - 1]]
=============================================================================
