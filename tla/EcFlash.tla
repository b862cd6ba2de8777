------------------------------- MODULE EcFlash ------------------------------
(***************************************************************************)
(* The flasher: main of ec_flash.c (the first program of that file) driving *)
(* the embedded controller through three sysfs nodes.  One action is one   *)
(* kbc_cmd_datas call with the local computation that follows it, up to    *)
(* the next call; the controller's own task, its jump and its resets       *)
(* interleave with them.  The process may be run again on what an earlier  *)
(* run left behind.                                                        *)
(***************************************************************************)
EXTENDS EcDevice

CONSTANTS
  TAIL,          \* blocks at the end of the file never sent (0x4000 bytes)
  WORD,          \* uint32_t wraps at this many blocks
  OFFSET_WORD,   \* the two bytes of SET_OFFSET wrap at this many blocks
  Roms,          \* the ROM files a behaviour may be about
  CommandLines,  \* the command lines a run may be given
  Corrupted(_),  \* what one damaged frame may arrive as
  FaultKinds,    \* which faults may happen
  MaxFaults,     \* bound on the faults of a behaviour
  MaxRuns,       \* bound on the runs of the program
  SleepsSuffice  \* the program's sleeps outlast what the device has begun

(* What a command line is made of: options, told by how they begin and in   *)
(* any case, and the name of the ROM file, with capitals in it or without.  *)
Words == {"-d", "-bbl", "-e1", "-e2", "-nid", "-ota", "-sd", "rom", "ROM"}

ASSUME HostAssumption ==
  /\ TAIL \in Nat /\ MARKER + TAIL = ROM_SIZE
  /\ WORD \in Nat /\ OFFSET_WORD \in Nat
  /\ BASE < OFFSET_WORD /\ OFFSET_WORD < WORD /\ ROM_SIZE < WORD
  /\ \A r \in Roms : /\ r.size \in 0..(WORD - 1)
                     /\ r.data \in [0..(r.size - 1) -> Buffer]
  /\ CommandLines \subseteq {line \in SUBSET Words : ~({"rom", "ROM"} \subseteq line)}
  /\ MaxFaults \in Nat /\ MaxRuns \in Nat
  /\ SleepsSuffice \in BOOLEAN

(* fail: a system call of the transfer returns an error                     *)
(* lost: a data frame is written and the controller misses it               *)
(* corrupt: a data frame arrives damaged, once in a block                   *)
(* open: the ROM file cannot be opened                                      *)
(* kill: the process dies; power: the tablet loses power                    *)
ASSUME FaultAssumption ==
  FaultKinds \subseteq
    {"fail", "lost", "corrupt", "open", "kill", "power"}

(* What may arrive for a frame is that frame with one byte wrong.  The one  *)
(* error of a byte that the sum of a block can miss is left out: its first  *)
(* byte xored with 0xFD (see Crc8Proofs).                                   *)
ASSUME DamageAssumption ==
  \A f \in Frame : \A damaged \in Corrupted(f) \ {f} :
    /\ damaged \in Frame
    /\ \/ damaged[1] = f[1]
       \/ damaged[2] = f[2] /\ XorByte(f[1], damaged[1]) # 253

VARIABLES
  pc,         \* the call main is about to make; "off" when not running
  outcome,    \* how the last run ended: the exit status and message
  args,       \* the options of this run
  rom,        \* the ROM file
  ram_id,     \* ctx.ram_id
  incl,       \* ctx.include_bootloader
  remaining,  \* blocks still to be accepted
  temp,       \* block of the file being sent, from the first one of the phase
  first,      \* first_temp: temp counts from the next accepted block on
  need,       \* need_rejump
  i,          \* frame of the block about to be written
  runs,       \* runs started, at most MaxRuns
  faults      \* faults so far, at most MaxFaults

hostVars == <<pc, outcome, args, rom, ram_id, incl, remaining, temp, first, need,
              i, runs, faults>>
vars == <<deviceVars, hostVars>>

(* parse_args: the order of the options does not matter.                    *)
Parsed(line) ==
  [bbl  |-> "-bbl" \in line,
   mask |-> (IF "-e1" \in line THEN 1 ELSE 0) + (IF "-e2" \in line THEN 2 ELSE 0),
   nid  |-> "-nid" \in line,
   ota  |-> "-ota" \in line,
   sd   |-> "-sd" \in line]

(* A file must be named; and as the name is put into small letters before   *)
(* it is used, a file whose name has capitals is not found.                 *)
Opens(line) == "rom" \in line

Args == {Parsed(line) : line \in {l \in CommandLines : Opens(l)}}

Steps == {"off", "id", "ver", "base", "status", "phase", "offset", "poll",
          "stream", "crc", "rephase", "restatus", "reoffset", "final", "finish"}

TypeOK ==
  /\ DeviceTypeOK
  /\ pc \in Steps
  /\ outcome \in {"none", "ok", "error", "broken", "killed"}
  /\ args \in Args
  /\ rom \in Roms
  /\ ram_id \in BYTE
  /\ incl \in BOOLEAN
  /\ remaining \in 0..(WORD - 1)
  /\ temp \in Nat
  /\ first \in BOOLEAN
  /\ need \in BOOLEAN
  /\ i \in 1..(P + 1)
  /\ runs \in 0..MaxRuns
  /\ faults \in 0..MaxFaults

Init ==
  /\ DeviceInit
  /\ pc = "off"
  /\ outcome = "none"
  /\ args \in Args
  /\ rom \in Roms
  /\ ram_id = 0
  /\ incl = FALSE
  /\ remaining = 0
  /\ temp = 0
  /\ first = FALSE
  /\ need = FALSE
  /\ i = 1
  /\ runs = 0
  /\ faults = 0
-----------------------------------------------------------------------------
(* uint32_t subtraction, and the 16 bits SET_OFFSET carries.                *)
Sub32(a, b) == IF a >= b THEN a - b ELSE a - b + WORD
Low16(a)    == a % OFFSET_WORD

(* What fseek, fgetc and the 0xFF padding give for block k of the file, and *)
(* the header byte at 0x4000, zero when the file is too short to have one.  *)
FileBlock(k) == IF k < rom.size THEN rom.data[k] ELSE Blank
HeaderId     == IF BASE < rom.size THEN rom.data[BASE][1][1] ELSE 0

FirstBlock == IF incl THEN 0 ELSE BASE
Current    == FirstBlock + temp

(* What there is to send.  Mutant of Volume: the base is not subtracted.    *)
WholeVolume(whole) == rom.size

Volume(whole) == IF whole THEN rom.size ELSE Sub32(rom.size, BASE)

(* The head of the while loop.  Mutant of LoopHead: the main firmware is    *)
(* never made to enter the boot block.                                      *)
LoopHeadStays(left, jump) == IF left = 0 THEN "final" ELSE "poll"

LoopHead(left, jump) ==
  IF left = 0 THEN "final" ELSE IF jump THEN "rephase" ELSE "poll"

Fault(kind) ==
  /\ kind \in FaultKinds
  /\ faults < MaxFaults
  /\ faults' = faults + 1

Leave(how) ==
  /\ pc' = "off"
  /\ outcome' = how
  /\ UNCHANGED <<args, ram_id, incl, remaining, temp, first, need, i>>

GoTo(step) ==
  /\ pc' = step
  /\ UNCHANGED <<outcome, args, ram_id, incl, remaining, temp, first, need, i>>

(* A usleep of 50 ms or more.  Mutant of Slept: the sleeps are left out.    *)
NotSlept == TRUE

Slept == SleepsSuffice => Settled

(* kbc_cmd_datas reading: the answer is used, or main returns 1.            *)
Read(use) ==
  /\ \/ use /\ UNCHANGED faults
     \/ Fault("fail") /\ Leave("error")
  /\ UNCHANGED <<deviceVars, rom, runs>>

(* kbc_cmd_datas writing: the frame arrives, or main returns 1.             *)
Write(arrive, go) ==
  /\ \/ arrive /\ go /\ UNCHANGED faults
     \/ UNCHANGED deviceVars /\ Leave("error") /\ Fault("fail")
  /\ UNCHANGED <<rom, runs>>
-----------------------------------------------------------------------------
(* A run begins: options parsed, the ROM file opened and measured, battery  *)
(* polling switched off (its result is ignored).                            *)
Start ==
  /\ pc = "off"
  /\ runs < MaxRuns
  /\ runs' = runs + 1
  /\ pc' = "id"
  /\ outcome' = "none"
  /\ args' \in Args
  /\ incl' = args'.bbl
  /\ ram_id' = 0
  /\ remaining' = 0
  /\ temp' = 0
  /\ first' = FALSE
  /\ need' = FALSE
  /\ i' = 1
  /\ UNCHANGED <<deviceVars, rom, faults>>

(* The usage text is printed, or the file cannot be opened.                 *)
OpenFails ==
  /\ pc = "off"
  /\ runs < MaxRuns
  /\ runs' = runs + 1
  /\ \/ Fault("open")
     \/ (\E line \in CommandLines : ~Opens(line)) /\ UNCHANGED faults
  /\ Leave("error")
  /\ UNCHANGED <<deviceVars, rom>>

ReadId ==
  /\ pc = "id"
  /\ Slept
  /\ Read(/\ ram_id' = RamId
          /\ pc' = "ver"
          /\ UNCHANGED <<outcome, args, incl, remaining, temp, first, need, i>>)

(* Mutant of ReadVer: -nid does not help a controller that cannot tell its  *)
(* name.                                                                    *)
ReadVerStrict ==
  /\ pc = "ver"
  /\ Read(IF HeaderId # ram_id \/ (rom.size # ROM_SIZE /\ ~args.nid)
          THEN Leave("broken")
          ELSE GoTo("base"))

(* The second version word is only printed; then the ROM file is judged.    *)
ReadVer ==
  /\ pc = "ver"
  /\ Read(IF (HeaderId # ram_id \/ rom.size # ROM_SIZE) /\ ~args.nid
          THEN Leave("broken")
          ELSE GoTo("base"))

(* The answer is BASE, the address the controller's image is built around.  *)
ReadBase == pc = "base" /\ Read(GoTo("status"))

(* A controller already in its boot block cannot rewrite it.                *)
ReadStatus ==
  /\ pc = "status"
  /\ Read(/\ incl' = (incl /\ BootStatus # IN_BOOT_BLOCK)
          /\ remaining' = Volume(incl')
          /\ pc' = "phase"
          /\ UNCHANGED <<outcome, args, ram_id, temp, first, need, i>>)

SendPhase ==
  /\ pc = "phase"
  /\ Write(RecvPhase(IF incl THEN 2 ELSE 1, args.mask),
           GoTo("offset"))

SendOffset ==
  /\ pc = "offset"
  /\ Slept
  /\ Write(RecvOffset(Low16(Sub32(rom.size, remaining))),
           GoTo(LoopHead(remaining, need)))

(* The boot block is written: the main firmware is to enter it, and the     *)
(* rest goes to the program there.                                          *)
RejumpPhase ==
  /\ pc = "rephase"
  /\ Slept
  /\ Write(RecvPhase(1, args.mask),
           /\ need' = FALSE
           /\ pc' = "restatus"
           /\ UNCHANGED <<outcome, args, ram_id, incl, remaining, temp, first, i>>)

(* "Failed to jump boot block. Process stopped!": the loop is left with     *)
(* blocks remaining, and what follows the loop is done all the same.        *)
RejumpStatus ==
  /\ pc = "restatus"
  /\ Slept
  /\ Read(GoTo(IF BootStatus = IN_BOOT_BLOCK THEN "reoffset" ELSE "final"))

RejumpOffset ==
  /\ pc = "reoffset"
  /\ Write(RecvOffset(Low16(BASE)), GoTo("poll"))

(* remaining < 0x4001: the marker and EEPROM areas are not sent.  Mutant of *)
(* OnlyTail: one block too many is left out.                                *)
OneMoreIsTail(left) == left <= TAIL + 1

OnlyTail(left) == left <= TAIL

(* The READY an opened phase reports stands for no block.  Mutant of        *)
(* NextTemp: it is taken for one.                                           *)
NextAlways == temp + 1

NextTemp == IF first THEN temp + 1 ELSE temp

(* An accepted block is counted off and the next one begun; a refused or    *)
(* unfinished one is sent again; a busy controller is asked again.  With an *)
(* empty file the percentage divides by zero: the process dies or goes on.  *)
BlockDone ==
  LET left  == Sub32(remaining, 1)
      jump  == Sub32(rom.size, BASE) = left
  IN  /\ need' = (need \/ jump)
      /\ remaining' = IF ~jump /\ OnlyTail(left) THEN 0 ELSE left
      /\ temp' = NextTemp
      /\ first' = TRUE

(* Mutant of ToResend: a refused block is not sent again.  Mutant of Done:  *)
(* a block that has not arrived whole is taken for done.                    *)
OnlyUnfinished   == {RECEIVING}
DoneOrUnfinished == {READY, RECEIVING}

ToResend == {RECEIVING, BAD_CRC}
Done     == {READY}

PollProgress ==
  /\ pc = "poll"
  /\ Read(\/ /\ status \in Done
             /\ BlockDone
             /\ pc' = "stream"
             /\ i' = 1
             /\ UNCHANGED <<outcome, args, ram_id, incl>>
          \/ /\ status \in ToResend
             /\ pc' = "stream"
             /\ i' = 1
             /\ UNCHANGED <<outcome, args, ram_id, incl, remaining, temp, first, need>>
          \/ /\ status \in {FINALISE, CHECKING, ACCEPTED}
             /\ GoTo("poll")
          \/ /\ rom.size = 0
             /\ status \in Done \cup ToResend
             /\ Leave("killed"))

(* The next frame of the block, and after the last of them its checksum.    *)
SendFrame(frame, go) ==
  \/ Write(RecvData(frame), go)
  \/ /\ Fault("lost")
     /\ UNCHANGED deviceVars
     /\ go
     /\ UNCHANGED <<rom, runs>>
  \/ /\ Fault("corrupt")
     /\ \A j \in 1..(i - 1) : buf[j] = FileBlock(Current)[j]
     /\ \E damaged \in Corrupted(frame) : RecvData(damaged)
     /\ go
     /\ UNCHANGED <<rom, runs>>

StreamData ==
  /\ pc = "stream"
  /\ SendFrame(FileBlock(Current)[i],
               /\ i' = i + 1
               /\ pc' = IF i = P THEN "crc" ELSE "stream"
               /\ UNCHANGED <<outcome, args, ram_id, incl, remaining, temp, first, need>>)

SendCrc ==
  /\ pc = "crc"
  /\ SendFrame(<<CrcOf(FileBlock(Current)), temp % 256>>,
               GoTo(LoopHead(remaining, need)))

(* The last block was sent and not asked about again.                       *)
SendFinalise ==
  /\ pc = "final"
  /\ Slept
  /\ Write(RecvPhase(4, 0), GoTo("finish"))

SendFinish ==
  /\ pc = "finish"
  /\ Slept
  /\ Write(RecvFinish(IF args.ota THEN 1 ELSE IF args.sd THEN 2 ELSE 3),
           Leave("ok"))

Host ==
  \/ Start \/ OpenFails
  \/ ReadId \/ ReadVer \/ ReadBase \/ ReadStatus
  \/ SendPhase \/ SendOffset
  \/ RejumpPhase \/ RejumpStatus \/ RejumpOffset
  \/ PollProgress \/ StreamData \/ SendCrc
  \/ SendFinalise \/ SendFinish
-----------------------------------------------------------------------------
(* The system goes down under the process.                                  *)
HostDies ==
  /\ pc' = "off"
  /\ outcome' = IF pc = "off" THEN outcome ELSE "killed"
  /\ UNCHANGED <<args, rom, ram_id, incl, remaining, temp, first, need, i, runs>>

Kill ==
  /\ pc # "off"
  /\ Fault("kill")
  /\ HostDies
  /\ UNCHANGED deviceVars

PowerLoss ==
  /\ Fault("power")
  /\ PowerOn
  /\ HostDies

(* The reboot FINISH asked for.                                             *)
Reset ==
  /\ reboot # 0
  /\ PowerOn
  /\ HostDies
  /\ UNCHANGED faults

Device ==
  \/ (DeviceTask \/ JumpToBootBlock) /\ UNCHANGED hostVars
  \/ Reset

Next == Host \/ Device \/ Kill \/ PowerLoss

Spec == Init /\ [][Next]_vars

(* The process is scheduled, the controller's loop turns, and its countdown *)
(* and watchdog run out; nothing makes a user start the program.            *)
Running == Host /\ pc # "off"

Fairness ==
  /\ WF_vars(Running)
  /\ WF_vars(DeviceTask /\ UNCHANGED hostVars)
  /\ WF_vars(JumpToBootBlock /\ UNCHANGED hostVars)
  /\ WF_vars(Reset)

FairSpec == Spec /\ Fairness

(* A user who runs the program again until it reports success.              *)
Retrying == FairSpec /\ WF_vars(Start)
-----------------------------------------------------------------------------
MainBlocks == BASE..(MARKER - 1)

(* Every block of the chip holds what it held before, nothing, or the block *)
(* of the ROM file that belongs there: no block is programmed with another  *)
(* block's data, with a mixture of two or with a damaged one, whichever     *)
(* calls fail, whoever dies and however often the program is run again.     *)
(* Lost frames are another matter: EcFlashMisled.                           *)
NoForeignBlock ==
  \A b \in Blocks : flash[b] \in {OldImage[b], Blank, FileBlock(b)}

(* When finalising has been sent and the loop was not broken off, every     *)
(* block but the last of each phase is in place: the program asks about     *)
(* every block it sends except the last of the boot block and the last of   *)
(* all.                                                                     *)
AtMostLastMissing ==
  pc = "finish" /\ remaining = 0 =>
    /\ \A b \in BASE..(MARKER - 2) : flash[b] = FileBlock(b)
    /\ incl => \A b \in 0..(BASE - 2) : flash[b] = FileBlock(b)

(* Without damaged or lost frames the report of success can be believed.    *)
FinishMeansComplete ==
  pc = "finish" /\ remaining = 0 =>
    /\ \A b \in MainBlocks : flash[b] = FileBlock(b)
    /\ incl => \A b \in 0..(BASE - 1) : flash[b] = FileBlock(b)

AllOld == \A b \in MainBlocks : flash[b] = OldImage[b]
AllNew == \A b \in MainBlocks : flash[b] = FileBlock(b)
MainKept == \A b \in MainBlocks : flash'[b] = flash[b]
BootBlockKept == \A b \in 0..(BASE - 1) : flash'[b] = flash[b]

(* The controller never rewrites the program it is executing: the boot      *)
(* block is written by the main firmware only, the main firmware by the     *)
(* boot block only.  The program relies on its sleeps for this: it asks     *)
(* which program runs once, and does not ask again before a plain update.   *)
RunningProgramKept ==
  [][/\ mode = "boot" => BootBlockKept
     /\ mode = "main" => MainKept]_vars

(* Without -bbl, or with it on a controller that cannot, the boot block is  *)
(* left alone from the first block on.                                      *)
BootBlockKeptUnlessAsked ==
  [][(pc \in {"poll", "stream", "crc"} /\ ~incl) => BootBlockKept]_vars

(* The marker that holds the controller in its boot block goes only when    *)
(* there is a main firmware to go to: all old, or new up to its last block. *)
MarkerGuardsUpdate ==
  [][(rom.size = ROM_SIZE /\ marker /\ ~marker') =>
       AllOld \/ \A b \in BASE..(MARKER - 2) : flash[b] = FileBlock(b)]_vars

(* A controller that leaves its boot block finds a whole main firmware,     *)
(* even if power fails anywhere in an update.                               *)
NeverBootsDamaged ==
  [][(mode = "boot" /\ mode' = "main") => AllOld \/ AllNew]_vars

(* Every run comes to an end.                                               *)
Termination == (pc # "off") ~> (pc = "off")

(* A user who keeps trying with -nid gets the image in, whatever two faults *)
(* left behind, unless they made the controller start a damaged firmware:   *)
(* what that does nobody can say; or a lost frame keeps the process in its  *)
(* loop for ever.                                                           *)
Recovers ==
  rom.size = ROM_SIZE =>
    \/ <>(pc = "finish" /\ remaining = 0 /\ AllNew)
    \/ <>(mode = "main" /\ ~AllOld /\ ~AllNew)
    \/ <>[](pc \in {"poll", "stream", "crc"})

(* The main firmware as an abstract update sees it.  It is held in the boot *)
(* block from the jump on: by the marker, or by the program being there.    *)
MainSectors == {{b \in MainBlocks : SameSector(b, s)} : s \in SectorStarts \cap MainBlocks}

Update == INSTANCE FirmwareUpdate WITH
  First   <- BASE,
  Last    <- MARKER - 1,
  Sectors <- MainSectors,
  Old     <- [b \in MainBlocks |-> OldImage[b]],
  image   <- [b \in MainBlocks |-> flash[b]],
  file    <- [b \in MainBlocks |-> FileBlock(b)],
  held    <- mode = "boot"

(* The flasher and the controller implement the abstract update: the boot   *)
(* block is entered before the main firmware is touched, sectors are        *)
(* emptied and blocks filled in order, and the boot block is only left for  *)
(* a whole firmware.                                                        *)
UpdateImplemented == Update!Spec

(* The usage text offers -e1 and -e2 to erase the EEPROM areas.             *)
EraseOptionsErase ==
  pc = "finish" /\ remaining = 0 /\ Settled =>
    /\ args.mask \in {1, 3} =>
         \A b \in EEPROM1..(EEPROM2 - 1) : flash[b] = Blank
    /\ args.mask \in {2, 3} =>
         \A b \in EEPROM2..(ROM_SIZE - 1) : flash[b] = Blank

(* After "Failed to jump boot block. Process stopped!" the process goes on  *)
(* to finalise and to reboot the controller; the main firmware, at least,   *)
(* stays what it was, even if the jump comes late.                          *)
StoppedIsHarmless ==
  [][(pc \in {"final", "finish"} /\ remaining # 0) => MainKept]_vars

(* A process that dies before FINISH leaves the controller in its boot      *)
(* block, with its marker or, after finalising, without; a user who runs    *)
(* the program once more than faults can strike gets it out of there, but   *)
(* for a process that waits for ever after a lost frame.                    *)
StuckInBoot ==
  /\ rom.size = ROM_SIZE
  /\ mode = "boot"
  /\ pc = "off"
  /\ runs + (MaxFaults - faults) < MaxRuns

LeavesBootBlock ==
  [](StuckInBoot => <>(mode = "main") \/ <>[](pc \in {"poll", "stream", "crc"}))
=============================================================================
