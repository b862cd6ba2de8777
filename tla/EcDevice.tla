------------------------------ MODULE EcDevice ------------------------------
(***************************************************************************)
(* The embedded controller (ENE KB3930) as the flasher meets it.  Its      *)
(* program is in the repository only as an image,                          *)
(* A310_02_0039_0089_SC.ec.hex: every definition below is read off the     *)
(* 8051 code of that image, and names the file offset of the routine.      *)
(* There are two programs in the image.  The boot block (0x0000) takes the *)
(* flash commands whenever it stays resident; the main firmware (entered   *)
(* at 0x4030) takes them otherwise, with handlers of its own that differ   *)
(* in SET_PHASE, in READ_STATUS and in what finalising does.               *)
(*                                                                         *)
(* Addresses are counted in blocks of the 32 bytes one checksum covers.    *)
(* A frame is the pair of bytes one sysfs write carries.                   *)
(***************************************************************************)
EXTENDS Crc8

CONSTANTS
  P,            \* data frames per block (16 on the device)
  ROM_SIZE,     \* blocks of the flash chip (0x20000 bytes)
  BASE,         \* first block of the main firmware (0x4000 bytes)
  MARKER,       \* block whose first byte is the update marker (0x1C000)
  EEPROM1,      \* first block of the EC EEPROM area (0x1D000)
  EEPROM2,      \* first block of the system EEPROM area (0x1E000)
  SectorStarts, \* the first block of every 4 KB erase sector
  OldImage      \* what the chip holds before the first run

Blocks  == 0..(ROM_SIZE - 1)
Frame   == BYTE \X BYTE
Buffer  == [1..P -> Frame]

(* Erased flash reads as 0xFF; programming a block that is not erased can   *)
(* only clear bits, and is taken at its worst: every bit cleared.           *)
Blank       == [j \in 1..P |-> <<255, 255>>]
Overprinted == [j \in 1..P |-> <<0, 0>>]

ASSUME GeometryAssumption ==
  /\ P \in Nat \ {0}
  /\ ROM_SIZE \in Nat
  /\ BASE \in Nat \ {0} /\ MARKER \in Nat /\ EEPROM1 \in Nat /\ EEPROM2 \in Nat
  /\ BASE < MARKER /\ MARKER < EEPROM1 /\ EEPROM1 < EEPROM2 /\ EEPROM2 < ROM_SIZE
  /\ SectorStarts \subseteq Blocks
  /\ {0, BASE, MARKER, EEPROM1, EEPROM2} \subseteq SectorStarts

(* The marker's sector is blank in the images the chip is shipped with.     *)
ASSUME OldImageAssumption ==
  /\ OldImage \in [Blocks -> Buffer]
  /\ OldImage[MARKER] = Blank

(* flash_status, the byte READ_PROGRESS (0xB6) returns.                     *)
RECEIVING == 0      \* a frame of a block has arrived, the block has not
READY     == 1      \* the block was programmed, or a phase was opened
BAD_CRC   == 2      \* the block was refused: send it again
FINALISE  == 3      \* the finalising command is waiting for the task
CHECKING  == 165    \* 0xA5: the last frame arrived, the sum is not checked
ACCEPTED  == 90     \* 0x5A: the sum was right, erasing or programming
Status    == {RECEIVING, READY, BAD_CRC, FINALISE, CHECKING, ACCEPTED}

MARK == 90          \* 0x5A, the byte that marks an update as unfinished

(* The answer to READ_STATUS (0xB0).                                        *)
IN_BOOT_BLOCK == 85     \* 0x55
IN_MAIN       == 170    \* 0xAA

VARIABLES
  flash,    \* the chip, block by block, but for the marker's byte
  marker,   \* the first byte at 0x1C000 is 0x5A: stay in the boot block
  mode,     \* which program runs: "boot" or "main"
  status,   \* flash_status, XRAM F220
  mask,     \* EEPROM areas to erase when finalising, XRAM FBF3
  addr,     \* block to be written next, XRAM F228
  erased,   \* the sector of addr has been erased, XRAM F225
  idx,      \* frames of the current block received, XRAM F224
  buf,      \* block buffer, XRAM F230..F24F
  crc,      \* checksum received with the block, XRAM F222
  armed,    \* main firmware: the jump countdown runs, XRAM F226
  reboot    \* reboot mode, XRAM F68A; 0 when none was asked for

deviceVars == <<flash, marker, mode, status, mask, addr, erased, idx, buf, crc,
                armed, reboot>>

DeviceTypeOK ==
  /\ flash \in [Blocks -> Buffer]
  /\ marker \in BOOLEAN
  /\ mode \in {"boot", "main"}
  /\ status \in Status
  /\ mask \in 0..3
  /\ addr \in Nat
  /\ erased \in BOOLEAN
  /\ idx \in 0..P
  /\ buf \in Buffer
  /\ crc \in BYTE
  /\ armed \in BOOLEAN
  /\ reboot \in 0..3

DeviceInit ==
  /\ flash = OldImage
  /\ marker = FALSE
  /\ mode = "main"
  /\ status = RECEIVING
  /\ mask = 0
  /\ addr = 0
  /\ erased = FALSE
  /\ idx = 0
  /\ buf = Overprinted
  /\ crc = 0
  /\ armed = FALSE
  /\ reboot = 0
-----------------------------------------------------------------------------
(* Commands the host writes.                                                *)

(* Mutant of RecvPhase: a block handed over before is not forgotten.        *)
RecvPhaseKeepsBlock(phase, eraseMask) ==
  /\ mask' = eraseMask
  /\ status' = IF phase = 4 THEN FINALISE
               ELSE IF status \in {CHECKING, ACCEPTED} THEN status ELSE READY
  /\ IF phase # 4 /\ mode = "main"
     THEN armed' = TRUE /\ addr' = (IF phase = 1 THEN BASE ELSE 0)
     ELSE UNCHANGED <<armed, addr>>
  /\ UNCHANGED <<flash, marker, mode, erased, idx, buf, crc, reboot>>

(* SET_PHASE (0xB7), boot block 0x952, main firmware 0x1565C.  The mask is  *)
(* taken from every such command, the finalising one included.  The main    *)
(* firmware also points addr at the area to come (without clearing erased)  *)
(* and starts the countdown to its jump into the boot block (0x15E6F).      *)
RecvPhase(phase, eraseMask) ==
  /\ mask' = eraseMask
  /\ \/ /\ phase \in {1, 2}
        /\ status' = READY
        /\ IF mode = "main"
           THEN /\ armed' = TRUE
                /\ addr' = IF phase = 1 THEN BASE ELSE 0
           ELSE UNCHANGED <<armed, addr>>
     \/ /\ phase = 4
        /\ status' = FINALISE
        /\ UNCHANGED <<armed, addr>>
  /\ UNCHANGED <<flash, marker, mode, erased, idx, buf, crc, reboot>>

(* Mutant of RecvOffset: the frames received so far are kept.               *)
RecvOffsetKeepsFrames(block) ==
  /\ addr' = block
  /\ erased' = FALSE
  /\ UNCHANGED <<flash, marker, mode, status, mask, idx, buf, crc, armed, reboot>>

(* SET_OFFSET (0xB8), 0x97B: a new address, nothing erased, no frame yet.   *)
RecvOffset(block) ==
  /\ addr' = block
  /\ erased' = FALSE
  /\ idx' = 0
  /\ UNCHANGED <<flash, marker, mode, status, mask, buf, crc, armed, reboot>>

(* Mutant of RecvData: the frame counter runs on past the checksum.         *)
RecvDataRunsOn(frame) ==
  /\ idx' = idx + 1
  /\ IF idx < P
     THEN buf' = [buf EXCEPT ![idx + 1] = frame] /\ status' = RECEIVING /\ UNCHANGED crc
     ELSE crc' = frame[1] /\ status' = CHECKING /\ UNCHANGED buf
  /\ UNCHANGED <<flash, marker, mode, mask, addr, erased, armed, reboot>>

(* WRITE_DATA (0xB9), 0x99E: P frames fill the buffer, one more brings the  *)
(* checksum (its second byte is not looked at) and hands the block over.    *)
RecvData(frame) ==
  /\ IF idx < P
     THEN /\ buf' = [buf EXCEPT ![idx + 1] = frame]
          /\ idx' = idx + 1
          /\ status' = RECEIVING
          /\ UNCHANGED crc
     ELSE /\ crc' = frame[1]
          /\ idx' = 0
          /\ status' = CHECKING
          /\ UNCHANGED buf
  /\ UNCHANGED <<flash, marker, mode, mask, addr, erased, armed, reboot>>

(* FINISH (0xBA), 0xA0B: the reboot mode is noted for the main loop.        *)
RecvFinish(kind) ==
  /\ reboot' = kind
  /\ UNCHANGED <<flash, marker, mode, status, mask, addr, erased, idx, buf, crc,
                 armed>>

(* READ_ID (0x30), 0x895: the boot block reads the byte at 0x4000 of the    *)
(* flash as it is now; the main firmware knows its own.                     *)
RamId == IF mode = "boot" THEN flash[BASE][1][1] ELSE OldImage[BASE][1][1]

(* READ_STATUS (0xB0), 0x8C4 and 0x15011.                                   *)
BootStatus == IF mode = "boot" THEN IN_BOOT_BLOCK ELSE IN_MAIN
-----------------------------------------------------------------------------
(* The flash task, one pass of the main loop at a time: 0xA14, 0x16B5D.     *)

CrcOf(b) == crc8_calculator([n \in 1..2 * P |-> b[(n + 1) \div 2][2 - (n % 2)]])

SameSector(a, b) == \A s \in SectorStarts : (s <= a) <=> (s <= b)

(* Mutant of EraseSectorOf: only the block itself is erased.                *)
EraseBlockOf(f, block) == [f EXCEPT ![block] = Blank]

EraseSectorOf(f, block) ==
  [b \in Blocks |-> IF SameSector(b, block) THEN Blank ELSE f[b]]

(* The sum is wrong: the block is refused.                                  *)
RefuseBlock ==
  /\ status = CHECKING
  /\ CrcOf(buf) # crc
  /\ status' = BAD_CRC
  /\ UNCHANGED <<flash, marker, mode, mask, addr, erased, idx, buf, crc, armed,
                 reboot>>

(* Mutant of BlockPending: the sum is not compared.                         *)
BlockPendingUnchecked == status \in {ACCEPTED, CHECKING}

BlockPending == status = ACCEPTED \/ (status = CHECKING /\ CrcOf(buf) = crc)

(* First pass over an accepted block: its sector is erased, unless the      *)
(* address has run off the chip, where the task waits for ever.             *)
EraseSector ==
  /\ BlockPending
  /\ ~erased
  /\ status' = ACCEPTED
  /\ IF addr < ROM_SIZE
     THEN /\ flash' = EraseSectorOf(flash, addr)
          /\ marker' = (marker /\ ~SameSector(MARKER, addr))
          /\ erased' = TRUE
     ELSE UNCHANGED <<flash, marker, erased>>
  /\ UNCHANGED <<mode, mask, addr, idx, buf, crc, armed, reboot>>

(* Next pass: the block is programmed and the address moves on; a new       *)
(* sector is to be erased before it is written.                             *)
ProgramBlock ==
  /\ BlockPending
  /\ erased
  /\ flash' = [flash EXCEPT ![addr] =
                 IF flash[addr] = Blank THEN buf ELSE Overprinted]
  /\ addr' = addr + 1
  /\ erased' = (addr + 1 \notin SectorStarts /\ addr + 1 < ROM_SIZE)
  /\ status' = READY
  /\ marker' = IF addr = MARKER THEN flash'[MARKER][1][1] = MARK ELSE marker
  /\ UNCHANGED <<mode, mask, idx, buf, crc, armed, reboot>>

(* Mutant of Finalise: the marker's sector is left out.                     *)
FinaliseKeepsMarker ==
  LET goes(b) == \/ mask \in {1, 3} /\ b \in EEPROM1..(EEPROM2 - 1)
                 \/ mask \in {2, 3} /\ b \in EEPROM2..(ROM_SIZE - 1)
  IN  /\ status = FINALISE
      /\ status' = RECEIVING
      /\ flash' = [b \in Blocks |-> IF mode = "boot" /\ goes(b) THEN Blank ELSE flash[b]]
      /\ UNCHANGED <<marker, mode, mask, addr, erased, idx, buf, crc, armed, reboot>>

(* Finalising.  The boot block (0xB38) erases the marker's sector and the   *)
(* EEPROM areas of the mask; the main firmware (0x16C7C) erases nothing.    *)
Finalise ==
  LET goes(b) == \/ SameSector(b, MARKER)
                 \/ mask \in {1, 3} /\ b \in EEPROM1..(EEPROM2 - 1)
                 \/ mask \in {2, 3} /\ b \in EEPROM2..(ROM_SIZE - 1)
  IN  /\ status = FINALISE
      /\ status' = RECEIVING
      /\ IF mode = "boot"
         THEN /\ flash' = [b \in Blocks |-> IF goes(b) THEN Blank ELSE flash[b]]
              /\ marker' = FALSE
         ELSE UNCHANGED <<flash, marker>>
      /\ UNCHANGED <<mode, mask, addr, erased, idx, buf, crc, armed, reboot>>

(* Mutant of JumpToBootBlock: the marker is not set.                        *)
JumpUnmarked ==
  /\ mode = "main"
  /\ armed
  /\ armed' = FALSE
  /\ mode' = IF addr = BASE THEN "boot" ELSE mode
  /\ UNCHANGED <<flash, marker, status, mask, addr, erased, idx, buf, crc, reboot>>

(* The countdown of the main firmware runs out (0x16B32): only if the next  *)
(* block is the first of the main firmware does it set the marker and enter *)
(* the boot block, whose RAM keeps the transfer state.  The marker can only *)
(* be programmed into a byte that is erased.                                *)
JumpToBootBlock ==
  /\ mode = "main"
  /\ armed
  /\ armed' = FALSE
  /\ IF addr = BASE THEN /\ marker' = (marker \/ flash[MARKER] = Blank)
                         /\ mode' = "boot"
                    ELSE UNCHANGED <<marker, mode>>
  /\ UNCHANGED <<flash, status, mask, addr, erased, idx, buf, crc, reboot>>

(* Reset (0xE85): RAM is cleared, mask lies above the cleared area, and the *)
(* marker decides which program runs.                                       *)
PowerOn ==
  /\ mode' = IF marker THEN "boot" ELSE "main"
  /\ status' = RECEIVING
  /\ addr' = 0
  /\ erased' = FALSE
  /\ idx' = 0
  /\ buf' = Overprinted
  /\ crc' = 0
  /\ armed' = FALSE
  /\ reboot' = 0
  /\ UNCHANGED <<flash, marker, mask>>

DeviceTask ==
  \/ RefuseBlock
  \/ EraseSector
  \/ ProgramBlock
  \/ Finalise

(* Nothing the device would still do by itself, but for a block it has no   *)
(* room for.                                                                *)
Settled ==
  /\ ~armed
  /\ reboot = 0
  /\ status \notin {CHECKING, FINALISE}
  /\ status = ACCEPTED => addr >= ROM_SIZE
=============================================================================
