# A formal model of the TPT1838 embedded controller flasher

The repository documents a Tegra 2 tablet (TPT1838) whose embedded controller, an
ENE KB3930, was reverse engineered. Its own programs are a flasher for that
controller (`EC_flash_c/ec_flash.c`), a second flasher that drives the same
chip through its SPI port (`eflasher-master`), and the shell scripts that
install Linux on the tablet (`L4T_R16_TPT1838`). Writing the controller's
firmware is where a mistake is expensive: a controller that starts a half
written image cannot be reached any more. That is the core of what is modelled and
proved about here; beside it stand eflasher with the SPI chip, and `flash.sh` with the board it
flashes and boots.

## 1. The system

### 1.1 Inventory

Paths are relative to `src/`; EC is `EC_flash_ReverseEngineering`.

| component | source | state | operations | correctness |
|---|---|---|---|---|
| EC flasher, first program | `EC/EC_flash_c/ec_flash.c` 1-493 | options, `remaining`, `temp`, `first_temp`, `need_rejump`, the block in hand | read ID, version, base, status; open a phase; set the offset; poll; stream a block and its sum; rejump; finalise; finish | every block lands at its own address; success means complete; the guard refuses only wrong files; every run ends |
| EC firmware, flash protocol | `EC/A310_02_0039_0089_SC.ec.hex` (boot block 0x0000, main firmware 0x4030) | flash, update marker at 0x1C000, status F220, mask FBF3, address F228, erased flag F225, frame index F224, buffer F230, sum F222, countdown F226, reboot mode F68A | command handlers, flash task, jump to the boot block, reset | a refused block is never programmed; the boot block is left only for a whole main firmware |
| block checksum | `ec_flash.c` 221-237, hex 0x1880 and 0x39A8 | none | `crc8_calculator` | what it can and cannot notice |
| EC flasher, second program | `ec_flash.c` 494-979 | as the first, with an 8-bit `temp` and global options | as the first; errors inside the loop leave the loop | as the first |
| eflasher | `EC/EC_flash_c/eflasher-master/src` | saved PMU, watchdog and SPI configuration; address; buffer | enter and leave programming mode, read the chip, erase and write a sector | what is read is the range asked for; a write touches the sectors of its range and no other; the saved registers come back |
| `flash.sh` | `L4T_R16_TPT1838/flash.sh` | options, board variables, the files it makes, `/dev/loop0` and its mount | validate options 134-407, board settings 501-733, checks 753-809, build `system.img` and `boot.img` 811-1146, `nvflash` 1148-1171 | what is flashed was built by this run; nobody else's file is touched; what a killed run leaves is not in the way |
| `apply_binaries.sh`, `zImage_to_uimg.sh` | same directory | target tree | unpack, copy, `mkimage` | each stops at the first failing step |
| `source_sync.sh` | same directory | checked-out trees, tags per tree | clone or fetch, check out a tag | the tree is at the tag asked for |
| hush scripts | `bootloader/ventana/*.hush` | U-Boot environment, what lies at `loadaddr` | set bootargs, `ext2load`, `bootm`, drive by drive | a kernel runs with the root of its own drive; what was flashed boots |
| partition tables, BCT | `bootloader/ventana/cfg`, `BCT` | data | read by `nvflash` | |
| everything else | `EC_flash.asm`, `EC_flash.elf.txt`, `Files`, `Datasheets`, ... | | listings of the vendor's executable, images, manuals, photographs | not programs of this repository |

### 1.2 How the parts of the core interact

`ec_flash` talks to the controller through three sysfs nodes of the kernel, one
command and at most two bytes at a time; the kernel turns them into SMBus
transfers. There is no sequence number and no acknowledgement of a write: the
only answer about a block is the status byte that POLL_PROGRESS (0xB6) reads.
The controller has two programs. The main firmware takes the first phase
command, starts a countdown, and, if the address to be written next is its own
first byte when the countdown ends, sets a marker at 0x1C000 and jumps into the
boot block, which keeps the transfer state in RAM. With `-bbl` the main firmware
writes the boot block first, and the program opens a second phase ("rejump") to
get it to the new one. A reset clears the RAM and enters the boot block if the
marker is set, else the main firmware: no sum is checked. Finalising in the boot block erases
the marker.

Three activities interleave: the program (one `kbc_cmd_datas` call at a time,
with sleeps of 50 ms to 2 s in between), the controller's command interrupt
(immediate) and the controller's main loop (flash task, countdown, reset). Any
call may fail, frames may be lost or damaged, the process may be killed, power
may fail, and the program may then be run again.

`flash.sh` is a pipeline over files in one directory that every run shares: most of them are left by the
run before, some commands are checked and some not, and `/dev/loop0`, which it formats and fills, belongs to the
whole machine. What it flashes for U-Boot is a boot script (`ventana_emmc.hush`) of lines in which the next
command is carried out whether or not the one before failed.

### 1.3 What is hard here

`PROJECT.json` lists the hazards line by line. The ones that shaped the model:

* the program never asks about the last block of a phase;
* the first READY answers the phase command and not a block;
* address, frame index and erased flag survive a killed process;
* sleeps stand for events that are never confirmed: the jump, the last block, finalising;
* the marker alone decides what starts after a power loss;
* the size arithmetic is `uint32_t`, the offset 16 bits, and `-nid` lets any file size through;
* `eflasher`: a chip that is busy for as long as it likes ignores what it is told meanwhile, and takes its
  write enable back after every byte;
* `flash.sh`: results of `umount` and `losetup -d` are ignored, pipes are checked at one end only, and two binaries are
  copied into one directory by file name;
* the boot script: after a load that fails, `bootm` starts what is in memory.

## 2. The modules

| module | what it is | state and actions against the code |
|---|---|---|
| `Crc8` | the checksum, as recursive functions | one turn of the bit loop (`ShiftIn`), the message bit, the register after each bit (`Register`), the sum |
| `MCCrc8` | the sum against a reference: remainder modulo x^8+x^2+x+1 | a state is a buffer and an error that may strike it |
| `EcDevice` | the controller | a variable for each XRAM cell named above, one operator for each command handler (`Recv...`), one action for each branch of the flash task, `JumpToBootBlock`, `PowerOn` |
| `EcFlash` | `parse_args` and `main` of the first program composed with `EcDevice` | a command line is the set of its words (`Parsed`, `Opens`); `pc` is the call main makes next; an action is one `kbc_cmd_datas` call with the computation up to the next one; `Kill`, `PowerLoss`, `Reset`, and `Start` for another run |
| `FirmwareUpdate` | the abstract specification: a main firmware that is held, emptied by sectors, filled from the front, released when whole | `image` is the main firmware's blocks of `flash`, `file` what `FileBlock` gives for them, `held` is `mode = "boot"` |
| `EcFlashMisled` | `EcFlash` with a history variable: `misled` remembers that the controller took a frame for a sum and it matched (`Mixture`), or the program a READY of the block before for an answer (`Unheard`) | every step is one of `EcFlash`; the properties are what lost frames leave of those of `EcFlash` |
| `EcFlashInvariant` | the inductive invariants: `TransferInv` (`CourseInv`, which survives lost frames, and `FrameInv`, which does not), `PlacedInv`, `PlainInv`, and with sleeps that suffice `SleepsInv` (`ModeInv`, `SpanInv`, `WholeInv`) and `HeldInv` | |
| `MCEcFlash`, `MCEcFlashMisled` | the instance TLC checks, without and with the history variable | |
| `EcFlashV2` | `main` of the second program over the same `EcDevice` | the actions of the calls before the loop are those of `EcFlash`; those of the loop break out of it where the code does, and `temp` wraps at `LAP` |
| `EcFlashV2Misled` | `EcFlashV2` with the history variable of `EcFlashMisled` | as there, for the block the second program sends |
| `MCEcFlashV2` | its instance | |
| `Eflasher` | `main`, `readMain2`, `writeMain2` and the SPI chip | an action is one command to the SPI interface with the wait before it; `Complete` is the chip finishing; `Kill`, and `Start` for the command line given again |
| `FlashImage` | the abstract specification of writing a file to a chip: emptied by sectors and filled byte by byte from the front, done when all is in | `chip` is the chip, `image` the file as far as the size asked for covers it, `done` that the process reported success |
| `MCEflasher` | its instance | |
| `FlashSh` | `flash.sh` from its checks to `nvflash` | `pc` is the command run next; an action is one command that makes, maps, mounts, copies or flashes something, with its checked failure and the one nobody sees; `disk`, `loop`, `mount`, `device` are the files, the loop device, its mount and the board's storage |
| `Install` | `FlashSh` composed with the board: the boot script over what was flashed | `SetBootargs`, `LoadKernel`, `Bootm` are the three commands of a line of the script; `Boot` is switching on or a reset that keeps the memory |
| `MCInstall` | its instance | |
| `EcFlashProofs` | type correctness | |
| `EcFlashTransferProofs` | no block ends up in another's place unless controller or program is misled; what is in place when the program finishes | |
| `EcFlashUpdateProofs` | what is left alone, what the sleeps buy, and that the abstract update is implemented | |
| `Crc8Proofs` | the checksum of a buffer of any length: what it is, what it notices; `EcFlashProofs` instantiates it | |
| `EcFlashV2Proofs` | the second program: type correctness, the boot block, whole laps and the running program unless one of the two is misled | |
| `EflasherProofs` | the conversation with the chip, what a write leaves in it, what a read leaves in the file; a write implements `FlashImage` | |
| `InstallProofs` | what every step of the script preserves; the composed system implements the script; the theorems about both | |
| `FirmwareUpdateProofs` | the abstract update never lets go of a damaged image | |

`Crc8 <- EcDevice <- EcFlash <- EcFlashInvariant <- MCEcFlash`; `EcFlash` instantiates
`FirmwareUpdate` with the flash of `EcDevice` seen through the ROM file. `EcFlashV2` EXTENDS `EcFlash`, and so does
`EcFlashMisled`; `EcFlashV2Misled` EXTENDS both.
`Eflasher` is another tool for the same chip and shares no state with them; it instantiates `FlashImage`. `FlashSh <- Install <- MCInstall`: the board reads the
`device` the script's `Flash` writes, and flashing takes it into recovery mode.

The controller's firmware is in the repository as an Intel-style listing of its
bytes, 32 to a line. `EcDevice` was read off a disassembly of those bytes; each
operator names the offset of the routine, and its map entry the lines of the
listing that hold it. Line of offset x: 2 + x/32 below 0x10000, else
2051 + (x - 0x10000)/32.

### 2.1 Abstractions

* Addresses count blocks of 32 bytes, the unit of a checksum. Every address in the
  protocol is a multiple of that, 0x4000 and 0x1C000 included. The first byte at
  0x1C000 is the variable `marker`; `flash` holds the rest of that block.
* A frame is a pair of bytes. All bytes of the block take part in the sum, which is
  computed by the definition of `Crc8`, not assumed.
* A command is taken at once and the flash task does one pass (refuse, erase,
  program, finalise) atomically: the controller's interrupt only writes RAM cells that
  the task reads at the start of a pass. What the task's pass takes in time is the
  interleaving with the program's calls.
* Programming a block that is not erased leaves `Overprinted`, the worst case.
* `SleepsSuffice`: when true, a call after a sleep of 50 ms or more waits until the
  controller has nothing begun left to do (`Slept`, `Settled`). The runs that say so
  show what the program's timing buys, the others hold without it. The 5 ms at the foot of the loop
  and the 100 us between frames are never relied on.
* A lost frame (`lost`) is a data frame the controller did not take although the
  write returned success; a damaged one (`corrupt`) arrives with one
  bit of a byte flipped, at most one in a block. Other commands are not lost or damaged.
* The answer to READ_BASE is the constant the image is built with.
* A damaged main firmware, once started, is taken to behave as an intact one. What it would
  do nobody can say; `Recovers` excludes the behaviours in which it is started, and for
  the other properties what follows such a start has no meaning.
* `Eflasher`: the chip completes a command at a moment of its own, looks at the address modulo its
  size, ignores erase and write when the latch is clear, and takes the latch back after each. The
  interface shows its busy bit only with BUSYCHK and passes commands on only with SPICMDEN. A word
  past the end of argv (`main` reads it when the address is missing) is any word.
* A command line of `ec_flash` is a set of words, as the order of the options does not matter. The name of the file
  is put into small letters before it is opened, so one with capitals ("ROM") is not found. A file may have any size,
  zero included. Version numbers and progress are printed only and left out, but for the division by the
  file's size, at which the process dies or does not.
* `FlashSh`: every file carries the number of the run that made it (kernel, root file system and settings may change
  between runs), and what of it is there: zeros, an empty file system, a part, the whole. A failing or killed tool
  leaves a part. `struck` is the set of faults that hit the run under way, so that a property can
  except one kind. `rootdev` "external" stands for network too. `-k` is the partition's number, and 5 or more, as in the
  script, means that only the kernel is updated.
* Other users of the machine only take `/dev/loop0` when it is free; a device they had before the first run may be mounted.
* `Install`: the board boots while no script is under way; `nvflash` would end what it does. USB stick and SD card
  hold nothing, a kernel or a file whose sum is wrong. `bootm` starts what has a right sum.

## 3. The runs

Instance of all `EcFlash` runs: 12 blocks of 2 frames, sectors of 2 blocks, in the
order of the real chip: boot block 0-1, main firmware 2-5, marker sector 6-7, EC
EEPROM 8-9, system EEPROM 10-11. Two sectors of main firmware and two blocks per
sector make every first/middle/last distinction (of a frame, a block, a sector
and a phase) occur; `WORD` 64 and `OFFSET_WORD` 16 wrap as 2^32 and 2^16 do, beyond the chip.
`MaxFaults` and `MaxRuns` bound the faults and the runs of a behaviour: two faults
let a second one strike the recovery from the first.

| run | faults (at most) | runs | sleeps | checks | shows |
|---|---|---|---|---|---|
| `crc8` | one byte error | | | `CrcIsRemainder`, `LaterByteErrorsSeen`, `FirstByteBlindSpot` | buffers of up to 3 bytes over 4 values, all 255 errors in each byte |
| `transfer` | fail, corrupt, open, kill, power (2) | 2 | no | `TypeOK`, `TransferInv`, `PlacedInv`, `NoForeignBlock`, `AtMostLastMissing`, `BootBlockKeptUnlessAsked`, `StoppedIsHarmless`, `Termination` | block numbering, recovery of a killed transfer, both phases; a run that says it stopped changes nothing of the main firmware; every run ends |
| `power` | open, power (3) | 4 | yes | `SleepsInv`, `HeldInv`, `FinishMeansComplete`, `NeverBootsDamaged`, `UpdateImplemented` | all command lines: the abstract update is implemented, a damaged main firmware never started, success means complete |
| `recovery` | fail, lost, open, kill, power (2) | 5 | yes | `ForeignOnlyMisled`, `RunningKeptUnlessMisled`, `MarkerGuardsUnlessMisled`, `Recovers`, `LeavesBootBlock` | files of 0, 1, 9, 12 and 14 blocks and `TreacherousRom`, with `-nid`; unless controller or program was misled, no foreign block, no program that rewrites itself, a marker that outlives the update; a user who tries again succeeds and is not left in the boot block |
| `erase` | none | 1 | yes | `EraseOptionsErase` violated | finding 1 |
| `complete` | corrupt (1) | 1 | yes | `FinishMeansComplete` violated | finding 2 |
| `v2_laps` | fail, lost, corrupt, open, kill, power (2) | 3 | yes | `WholeLapsUnlessMisled`, `RunningKeptUnlessMisled`, `BootBlockKeptUnlessAsked` | second program: files of 0, 1 and 12 blocks and `TreacherousRom`, `-d`, no file named; `LAP` 3 against 4 blocks of main firmware and 6 in all |
| `v2_wraps` | none | 1 | yes | `FinishMeansComplete` violated | finding 3 |
| `eflasher` | one kill or read error | 2 | | `TypeOK`, `NothingIgnored`, `WrittenIsFile`, `ReadRepeats`, `NoCommandWhileBusy`, `WriteKeepsOutside`, `RegistersRestored`, `WriteImplemented`, `Termination` | both commands, all states SPICFG may be found in; a write implements the abstract one |
| `eflasher_read` | none | 1 | | `ReadIsRange` violated | finding 4 |
| `install` | fail, source, busy, kill (2) | 2, 2 boots | | `TypeOK`, `FlashedIsBuilt`, `ForeignKept`, `NoFailureByLeftovers`, `RootMatchesKernel`, `FlashedBoots` | 14 command lines of every kind the script tells apart, the second run over what the first left, the board booting in between |
| `loader` | none | 1 | | `BootloaderIsFlashed` violated | finding 5 |

`eflasher` has a chip of 8 bytes, an erase unit of 2 and a buffer of 3: four units make a first, a
middle and a last one; files of 0 to 5 bytes end before, at and after a unit; the size of 4 needs
two buffers; addresses 0, 3 and 6 are aligned, unaligned and near the end (so that a write wraps);
`-s` gives sectors of 1, 2 and 4 bytes. One kill and one more run are enough to meet a chip that is
busy with what the killed run began.

`install` has two runs, because what can go wrong is one run meeting the leftovers of another; two faults, so that the
second run may be struck too or the first one twice (a `umount` that fails and somebody who takes the device, say). The
second boot is one without a loss of memory. USB and SD card hold no kernel, or the SD card one behind a damaged file on
USB. The four runs with most states take a minute or a few each: `transfer` has about 99 thousand, `recovery` 459 thousand,
`install` 674 thousand, `v2_laps` 899 thousand.

Deadlock is not an error in these runs: once `MaxRuns` runs are over (for `eflasher`, the one that ends) the system is at
rest. In `crc8` a behaviour is one step.

What the runs with fewer faults leave out, they leave out because the property
is false with them, and says so: `FinishMeansComplete` fails with a damaged
frame (finding 2); `NeverBootsDamaged` and `UpdateImplemented` fail when a process
is killed between finalising and FINISH, for the controller then stays in its
boot block without a marker; `MarkerGuardsUpdate` and `RunningProgramKept` fail
when the sleeps do not suffice; `Termination` fails with a lost frame (section 6).

**Lost frames and the 8-bit sum.** With a lost frame, and in the second program with a write that fails in mid-block, `NoForeignBlock` and
`WholeLapsOnly` are false of the code, whatever the file holds: one frame is enough (section 6). Most small contents never show
it, so these runs also have `TreacherousRom`, a file made so that both kinds of mixture match somewhere in it: that of a block with the
same block sent again, and that of a sum without enough data before it (`TreacherousAssumption` says which sums, and TLC evaluates
it). With it TLC finds `NoForeignBlock`, `RunningProgramKept` and `MarkerGuardsUpdate` violated of the first program, and
`WholeLapsOnly` and `RunningProgramKept` of the second. What is checked is therefore what is true of every file: a
mixture or a block out of its place comes about only by a sum that matched or by a stale READY, and the history variable `misled`
says at which step. Everything else a lost frame brings about does no harm: blocks half received, refused, sent again a frame late, an offset
that finds a frame counter in the middle.

**Fairness.** `WF_vars(Running)`: the kernel schedules the process, and every call returns.
`WF` of the flash task, the jump and the reset: the controller's main loop turns and its
countdown and watchdog expire. No fairness of `Start` in `FairSpec`: nothing makes a
user run the program. `Retrying` adds it, for `Recovers` and `LeavesBootBlock`, which are about a user
who does. In `Eflasher` the process runs on (`WF_vars(Process)`) and the chip finishes what it was told
(`WF_vars(Complete)`): the busy-wait has no limit of its own, so without the second nothing ends.
In `Install`, `WF_vars(BootScript)`: U-Boot carries its script out to the end. Neither the runs of `flash.sh` nor boots have
any, so `FlashedBoots` speaks of a board that was switched on.
Faults have no fairness: they may happen, and stop at `MaxFaults`.

## 4. Findings

1. `-e1` and `-e2` erase nothing (`erase`). The mask goes out with the opening
   phase command and is overwritten by the finalising one, which carries 0 and is
   the one the controller acts on.
2. "Flash Finish" is printed without the last block (`complete`) when a frame of that block was
   damaged: its refusal is never read.
3. The second program counts blocks in a `uint8_t` (`v2_wraps`): after 256 of the 3072 blocks of the main
   firmware it sends the file's first ones again, and reports success.
4. `eflasher -r file address size` does not read that range (`eflasher_read`): the address is
   ignored, a size that parses is refused, and a byte is doubled at each full buffer.
   `ReadRepeats` says exactly what is read.
5. The bootloader named with `-L` is not the one flashed when it is called as the flasher is (`loader`): both are copied
   into the nvflash directory under their own names, the flasher last.

Not findings, but worth knowing: "Process stopped!" is printed and the process goes on to finalise and to reboot the
controller; `StoppedIsHarmless` shows that this changes nothing of the main firmware. `-nid` with an empty file ends in a division by zero
or in four billion bytes to send; that no foreign block comes of it is part of `ForeignOnlyMisled`.

## 5. What is proved

For every geometry, ROM file, command line, mix of faults, number of runs and
of faults, with or without sleeps, by TLAPS:

* `TypeCorrect`: `Spec => []TypeOK` (`EcFlashProofs`). The type invariant is inductive
  but for two facts about the data that have to be carried along (`TInv`). One lemma
  per handler of the controller, one per action of the program.
* `StoppedSafe`: `Spec => StoppedIsHarmless`, and `BootBlockSafe`: `Spec => BootBlockKeptUnlessAsked`
  (`EcFlashUpdateProofs`), for every mix of faults, lost frames included.
* `BlocksInPlace`: `Spec => []NoForeignBlock` provided no data frame is lost
  (`NothingLost`, `EcFlashTransferProofs`). `Agreement`: `Spec => []TransferInv`, the invariant it rests on.
* `ForeignNeedsMisled`: `MisledSpec => []ForeignOnlyMisled`, for every mix of faults, lost frames included: the same, unless
  controller or program was misled before.
* `FinishPlaced`: `Spec => []AtMostLastMissing` for files of the chip's size (`ProperFiles`), from
  `CountedIsPlaced`: `Spec => []PlacedInv`.
* `RunningKept`: `MisledSpec => RunningKeptUnlessMisled`, and `MarkerKept`: `MisledSpec => MarkerGuardsUnlessMisled`
  (`EcFlashUpdateProofs`), when the sleeps suffice, for every mix of faults. `ProgramsKept`: `Spec => RunningProgramKept`,
  and `MarkerGuards`: `Spec => MarkerGuardsUpdate`, when moreover no frame is lost: then neither is ever misled.
* `FinishComplete`: `Spec => []FinishMeansComplete`, when moreover no frame is damaged (`NothingDamaged`; finding 2 is
  what happens otherwise) and files have the chip's size. Calls may fail, processes and power go at any moment.
* `BootsWhole`: `Spec => NeverBootsDamaged`, and `UpdateRefined`: `Spec => UpdateImplemented`, when nothing but the power
  fails (`OnlyPower`; a file that cannot be opened is allowed too). `WholeUnlessHeld` carries `HeldOrWhole` over: outside
  its boot block the controller's main firmware is all old or all new.
* `TypeCorrect2` and `BootBlockSafe2` (`EcFlashV2Proofs`): type correctness of the second program and
  `Spec2 => BootBlockKeptUnlessAsked`, for every mix of faults and every number of blocks at which `temp` wraps.
* `NeverBusy`, `AlwaysEnabled`, `RegistersCome` (`EflasherProofs`): `eflasher` waits before every command and
  enables every erase and write, for any number of kills and any chip; it restores
  what it found when none was killed. One inductive invariant: the busy bit is shown while the process
  talks to the chip, and the write enable is under way or set when an erase or write is due.
* `TypeCorrect`, `KeepsOutside`, `AlwaysErased`, `WriteCorrect` (`EflasherProofs`): type correctness of
  `eflasher`; a write leaves what is outside its sectors alone, programs only erased bytes, and when it ends the file is
  in the chip, for every chip, file, address and size, after any number of kills.
* `ReadOverlaps`: `Spec => []ReadRepeats` (`EflasherProofs`): what a read leaves in the file, for every chip and buffer.
* `ForeignSafe`, `NothingInTheWay`, `FlashedFresh`, `InstallTyped`, `RootRight` (`InstallProofs`): the safety properties
  of the run `install`, for every set of command lines, media, faults and any number of runs and boots.
* `ScriptImplemented`: `Install!Spec => ShSpec`. A step of the script with a board beside it is a step of the script or none,
  so the invariants proved of `flash.sh` alone hold in the composition.
* `WriteRefined`: `Spec => WriteImplemented`, and `WriteIsImage`: `Spec /\ Suits => Write!Spec` (`EflasherProofs`): a write by
  whole sectors of the chip, all of them on it (`Suits`), implements `FlashImage`, killed and begun again any number of times
  and with reads of the file failing.
* `SleepsHold`: `Spec => []SleepsInv`, and `HeldHolds`: `Spec => []HeldInv` (`EcFlashUpdateProofs`): the two inductive
  invariants the run `power` checks, under the hypotheses of `FinishComplete` and of `BootsWhole`.
* `MixturesNeedMisled`: `MisledSpec2 => []WholeLapsUnlessMisled`, and, when the sleeps suffice, `RunningKept2`:
  `MisledSpec2 => RunningKeptUnlessMisled` (`EcFlashV2Proofs`): for every mix of faults, for every number of blocks at which
  `temp` wraps and files of any size. `LapsOnly`: `Spec2 => []WholeLapsOnly`, and `ProgramsKept2`:
  `Spec2 => RunningProgramKept`, are the same without the exception, when no frame is lost and no call fails
  (`NothingLost`, `NoCallFails`).
* `SumIsRemainder`, `LaterSeen`, `FirstMissed` (`Crc8Proofs`): the three properties of the run `crc8`, for buffers of any
  length and of any bytes. `OneByteSeen`: two buffers that differ in one byte have the same sum if and only if it is the first
  byte and differs by 0xFD. `DamageNoticed` (`EcFlashProofs`) carries it over to the blocks of the protocol, so that what the theorems above
  need of the checksum is proved and not assumed.
* `HeldOrWhole`: in the abstract update, an image that is not held is all old or all new.

**The argument of `BlocksInPlace` and `ForeignNeedsMisled`.** `NoForeignBlock` is not inductive: whether the
block about to be programmed belongs at the controller's address depends on what
both ends counted. `CourseInv` adds, in named parts,

* `PreparedInv`: before the loop nothing is counted, and the phase has been opened;
* `CountInv`: the blocks counted and the blocks remaining add up to what there is to
  send, and the rejump comes due at the end of the boot block and nowhere else;
* `BlockInv`: controller and program agree on the block, the controller being a
  block ahead exactly when it has accepted a block the program has not asked about; and while a block is being sent, a sum the
  controller compares is one it refuses;
* `PendingInv`: a block whose sum is right is the file's block for the controller's address, also
  after the process that sent it is gone;
* `ErasedInv`: while a transfer is open, `erased` means that the rest of the sector is blank.

A step preserves them with frames lost as well, if it is neither a `Mixture` nor `Unheard`: this is `ForeignNeedsMisled`.
`FrameInv` is the agreement on the frame: the frame counter is where the program is in the block, and what
is in the buffer is the block's frames, one of them at most damaged (`NearPrefix`). No lost frame, and it is preserved, and no step
misleads anyone, because a buffer with one damaged frame has another sum (`DamageNoticed`): this is `BlocksInPlace`.
`TransferInv` is the two together.

Each part is disturbed by a few actions only; there is one lemma per action and under it one
step per part. `PlacedInv` adds to `CourseInv` that all blocks below the controller's
address are in place (but for the last of the boot block, which the program does not ask about), and
that a sector not yet erased begins at that address, so that erasing it destroys nothing.
TLC checks `TransferInv` and `PlacedInv` in the run `transfer`.

**What needs no assumption on the faults.** A lost frame breaks the agreement of program and controller but not the
direction in which the controller goes: `PlainInv` says that a plain update begins at the main firmware, and the address only moves
up from there. Hence `BootBlockSafe`. `StoppedSafe` rests on the program's stopping only where it has just opened a phase,
when the controller has no block in hand.

**What the sleeps buy.** Which of its two programs the controller is running is nowhere confirmed. `ModeInv`: it is the main
firmware exactly while the boot block is written; a block in hand, also of a process that is gone, belongs to the program that
is not running; an armed jump has happened when the program goes on after its sleep; a reset comes before
anything else is begun. It needs the count and the agreement on the block, but not on the frame, so with `CourseInv` it is preserved until
somebody is misled, and `RunningKept` follows. `SpanInv`: a file of the chip's size is sent up to the block before the marker's
sector and no further, so that the marker is erased by finalising only, when the count has reached the end; `MarkerKept` follows
with `PlacedInv`. `WholeInv`: without damaged frames no block is refused, and what nobody asks
about (the last block of the boot block, the last of the main firmware, finalising) is waited for by a sleep; at FINISH all is in
place. `SleepsInv` is the three together, checked by TLC in the run `power`.

**The abstract update.** `HeldInv` adds that without a marker the boot block runs only between finalising and the reset, and then the
main firmware is the new one. A step of the program maps to a stutter, whatever it does to the controller's RAM; the
jump to `Hold`; erasing to `Empty` and programming to `Fill`, because the blocks before the address are in place (`PlacedInv`,
and `WholeInv` for those not asked about) and what is programmed is blank (`ErasedInv`); erasing or programming outside the
main firmware to a stutter; a reset to `Hold`, `Release` or a stutter as the marker says.
TLC checks `HeldInv` in the run `power`. A process that is killed after finalising and before FINISH leaves the controller in its boot
block without a marker, and a later run can erase the first sector there: `HeldInv`, and the two properties, are false with
kills, which is why `OnlyPower` is assumed.

**The second program.** Its prologue and the controller are those of the first, so `TypeCorrect2` and `BootBlockSafe2` use the
same lemmas; only the actions of its loop needed new ones. For the blocks, `temp` says too little: it is the number of
blocks sent only up to whole laps. `Tally(n)` is the agreement of the first program with the true number `n` in place of `temp`
and `temp = n % LAP`; there is such an `n` at every step of the loop (`TallyInv`), and it grows by one where the controller accepts a block.
Then the controller's address is `n` past the start of the phase, the block sent is `temp` past it, and the two are a whole number
of laps apart: `PendingInv2`, from which `WholeLapsUnlessMisled` follows as `ForeignOnlyMisled` does. For `RunningKept2` the count
also says on which side of the main firmware's start the address is: the rejump comes with `n` at the last block of the
boot block (`need => n = BASE - 1`), before any address of the main firmware, however often `temp` has wrapped. What follows the
loop may be reached from anywhere in it; the loop is broken off where no jump is under way, so `ModeInv2` is `ModeInv` without its
claims about how the loop ends. `FrameInv2` is needed for `LapsOnly` and `ProgramsKept2` only.

**The checksum.** One turn of the bit loop is linear over GF(2) (`ShiftLinear`), so the register of a struck buffer and that of
the buffer differ by what the same loop makes of the error alone (`DifferenceStep`). Before the struck byte the difference is nothing, unless it
is the first, which is in the register from the start; after it zeros come in, and a difference that is not nothing never becomes nothing,
because a turn with a zero is one to one (`DifferenceStays`). So all is decided in the eight turns in which the struck byte comes in. A byte after the first
leaves its own error in the register (`LaterDifference`). The first byte meets itself, x^8 apart: what is left is its product
by x^2 + x modulo the polynomial, bit by bit in `TakenTwice`, and nothing for 0xFD alone (`Cancels`). `SumIsRemainder`: after each bit the register is the
parity, bit by bit, of the powers of x its terms name (`RegisterIsParity`); a turn raises every exponent by one and adds a term for the bit that
comes in. Both are inductions over the number of bits, made without an operator parameter: a set of numbers that holds zero
and with each number the next holds all of them (`Induction`), because the numbers outside it would have a least one.

**The argument of `WriteCorrect`.** What matters is where commands of a killed run can still strike. `OrderInv`: an erase or
a write still under way when a sector is begun is of a killed run, and then the sector is the first, of which nothing is
written yet; within a sector it is the command the process gave last. `RangeInv`: every erase and write, also of a
process since killed, is about one of the sectors of the write. `ErasedInv`: what is still to be written of the sector
in hand is erased, so programming stores the byte. `ContentInv` then says of each byte done that it is in the
chip, but for the last while it is being written; the sectors done are not disturbed because they lie below the sector in
hand and an erase is of that sector only. The arithmetic of sectors (`WrappedUnit`, `ErasedBytes`, `UnitOf`, `RoundUpLeast`) is in
lemmas of its own. `NothingIgnored` and `WrittenIsFile` ask for the sector size of the chip (`UNIT`) and a range that ends on
the chip; `KeepsOutside` for neither, but that `-s` names a multiple of `UNIT`.

**The argument of `WriteRefined`.** The abstract write may empty a sector or store a byte only behind a front: everything before it is
in already. `FrontInv` says where that front is at each step of the process, and that an erase or a write the chip has still to carry out, also
one of a process since killed or of a run with a read error, is about a place before which everything is in and, for a write,
stores the byte of that place. So the chip's completing of an erase maps to `Empty`, of a write to `Fill`, the end of a run without a read error to
`Finish`, and every other step to a stutter. It is more than `WrittenIsFile` says: a chip whose write was abandoned holds the front of the
image and of no other file.

**The argument of `ReadOverlaps`.** `readMain2` does not move its index when a buffer is full, so the last byte of the buffer is
fetched again as the first of the next, and every full buffer moves the index by one less than its size. `FileInv` carries how many buffers have been filled, that the byte being
fetched is the chip's at the index, and that the file is the chip with a byte repeated at each seam so far.

**The argument about the script.** Four inductive invariants of `FlashSh`. `LoopInv`: from the checked `losetup` to the
unmounting, `/dev/loop0` is the script's own image; what is mounted where follows from the step. `WayClear`: at
each command that could fail on a leftover, the leftover is gone or the run was struck (a `umount` that was refused,
a device that somebody took). `BuiltInv`: what each step up to the next one relies on was made by this run, the reason
being that every file on the way to `nvflash` is made anew or removed, and `-r` and "source" are the exceptions. `RootInv`, of
`Install`: from the bootargs to `bootm` of a line they name its drive, and a kernel at `loadaddr` was there before the reset
or has just been loaded from that drive, since any other would have been started.

**Assumptions.** `GeometryAssumption` (the areas are in order and start sectors),
`OldImageAssumption` (the marker's sector of the chip is blank at first, as in both
images of the repository), `HostAssumption` (files whose size fits
32 bits, the last 0x4000 bytes of the chip are those from the marker on),
`FaultAssumption`, and `DamageAssumption`: what arrives for a damaged frame is a frame with one byte wrong, and not its first byte by the
one pattern the sum can miss (0xFD). That such damage changes the sum of a block is a theorem (`DamageNoticed`).
`SamplesAssumption`: the buffers of `MCCrc8` are made of bytes, its errors are bytes other than zero.
`TreacherousAssumption` (`MCEcFlash`): the mixtures of `TreacherousRom` have the sums they were made for.
`EflasherAssumption`: the chip is a number of erase units, the buffer holds two bytes or more. `OptionsAssumption`,
`ScriptFaultAssumption` and `BoardAssumption` only say what kind of thing the constants are.
TLC evaluates all of them on the instance in every run. `NothingLost`, `NothingDamaged`, `NoCallFails`, `OnlyPower`, `SleepsSuffice` and
`ProperFiles` are not assumptions of a module but hypotheses of the theorems that name them.

Not within the prover's reach, and left to TLC: liveness under fairness
(`Termination`, `Recovers`, `LeavesBootBlock`, `FlashedBoots`) and ENABLED. Every invariant and every action property that a passing
run checks is stated by a theorem.

Each statement names the faults it excludes. `NeverBootsDamaged` and `UpdateImplemented` allow losses of power and devices that do not open; `FinishMeansComplete`
nothing lost or damaged; `NoForeignBlock`, `TransferInv`, `PlacedInv` and `AtMostLastMissing` nothing lost. The three `...UnlessMisled`
of the first program, `StoppedIsHarmless` and, of the second, its two and `BootBlockKeptUnlessAsked` exclude no fault.
What neither TLC nor the prover shows, because it is false, is that the sum keeps mixtures out (section 6).

## 6. What is not modelled, and known limits

* A lost data frame leaves the controller waiting for one more: it has 15 frames and, as the sixteenth, the sum and the block's number.
  The program reads RECEIVING and sends the block again; its first frame is taken for the sum, and the rest are each a frame late.
  As a rule the sum does not match, here and in all that follows, and the loop goes on for ever: nothing in it sends
  SET_OFFSET. But the sum is a one-to-one function of the last byte summed, the block's number, so whatever the block holds there is
  one number in 256 for which it matches, and then the mixture is programmed. Nothing in the code prevents it, and nothing is claimed
  against it: `ForeignOnlyMisled` says that a foreign block comes about in this way or in the next one and in no other.
  `Recovers` and `LeavesBootBlock` except the process that waits for ever.
* When no frame of a block arrives at all, the READY of the block before is taken for its own: the block is counted and missing, and
  the ones after it land one block early. In the second program one failing write and one lost frame do it.
* Files that do not fill their last block are taken as padded, as `fgetc` returning EOF does.
* A file longer than the chip (`-nid`) makes the controller wait at the chip's end and the program poll for ever.
* A sysfs read of fewer than two bytes counts as success and leaves an old answer in `resp`;
  the kernel driver is not in the repository.
* A good file is called broken (line 339) after a power loss while the first sector of the main firmware
  was erased: the boot block reads the controller's ID from that sector. Only `-nid` helps, which also
  drops the size guard; `Recovers` is therefore about a user who gives it.
* The second program finalises after any error in its loop, which removes the marker over a half-written
  image: `MarkerGuardsUpdate` and `NeverBootsDamaged` do not hold of it and are not claimed.
* `eflasher` never restores the fan register; nothing reads it, so it is left out.
* `flash.sh -r` flashes whatever `system.img` is there, a part of one included: the script cannot tell and promises
  nothing. A `tar` that fails at the feeding end of the pipe is not seen either. `FlashedIsBuilt` excepts both.
* A kernel update with u-boot is refused for an internal root device only (line 847); for an external one success
  is reported whatever was flashed. Excepted too.
* Of `flash.sh`, how options become the paths and sizes of the six boards (lines 330-745) and the kernel's
  command line are taken as done; so are the `sed` patterns by which the partition sizes of `flash.cfg` are edited (the one of
  the file system is not among the sizes they know for every board).
* A reset that keeps the memory lets the boot script start the kernel an earlier boot loaded, with the root of another drive:
  `RootMatchesKernel` excepts it (`fresh`).
* `ventana_net.hush` loads from a server that is not in the repository. `apply_binaries.sh`, `zImage_to_uimg.sh` and
  `source_sync.sh` are sequences of commands with no state between them that a later step could find stale.
* `tegra20-miniloader.h` is a binary of NVIDIA's as 8327 lines of hexadecimal, most of what the repository counts as C. No
  program of the repository includes it, and there is nothing in it to model. Of the programs that are the
  repository's own, what the models leave out is printing, wording and unused constants.
* Time is not modelled but for `SleepsSuffice`.
* The rest of the controller's firmware (keyboard, battery, thermal) does not take part in the protocol.
* The components without a module in section 1.1: see the plan.

## 7. Plan

Done, in this order: `EcDevice` and `EcFlash` (the core), `Crc8`, the abstract `FirmwareUpdate`
and the refinement run, type correctness, `BlocksInPlace`, `BootBlockSafe`, `FinishPlaced`; then
`EcFlashV2`, `Eflasher` and its first theorems; then the command lines and files of any size, `LeavesBootBlock`,
`FlashSh`, `Install` and their theorems, and what `eflasher` leaves in the chip; then the theorems of
`EcFlashUpdateProofs` (the refinement among them), those of the second program and `ReadOverlaps`; then the second
program's laps, `FlashImage` and the refinement by `Eflasher`, and the checksum for buffers of any length; then what lost frames and
failing writes can do, with the history variable of `EcFlashMisled`, checked and proved for every mix of faults.

To come: `SourceSync`, trees and tags under failing git commands, if `source_sync.sh` ever keeps state.
