------------------------ MODULE EcFlashUpdateProofs -------------------------
(***************************************************************************)
(* What an update promises about the controller's programs, for every      *)
(* geometry, ROM file, command line and any number of runs and faults: a   *)
(* run that stopped is harmless; and, when the sleeps suffice, no program  *)
(* rewrites itself, the marker guards what is unfinished, success means    *)
(* complete, and the abstract update is implemented.                       *)
(***************************************************************************)
EXTENDS EcFlashTransferProofs

-----------------------------------------------------------------------------
(* Facts every part below uses.                                             *)

LEMMA Ranges ==
  ASSUME TInv
  PROVE  /\ P \in Nat \ {0} /\ BASE \in Nat \ {0} /\ MARKER \in Nat /\ ROM_SIZE \in Nat
         /\ BASE < MARKER /\ MARKER < ROM_SIZE /\ TAIL \in Nat /\ WORD \in Nat /\ ROM_SIZE < WORD
         /\ {0, BASE, MARKER} \subseteq SectorStarts
         /\ addr \in Nat /\ temp \in Nat /\ remaining \in Nat /\ rom.size \in 0..(WORD - 1)
         /\ incl \in BOOLEAN /\ armed \in BOOLEAN /\ first \in BOOLEAN
         /\ mode \in {"boot", "main"}
         /\ FirstBlock = (IF incl THEN 0 ELSE BASE)
         /\ Counted \in Nat
         /\ flash \in [Blocks -> Buffer]
<1>1. rom.size \in 0..(WORD - 1)
  BY TInvParts, HostAssumption DEF HostTypeOK
<1>2. /\ P \in Nat \ {0} /\ BASE \in Nat \ {0} /\ MARKER \in Nat /\ ROM_SIZE \in Nat
      /\ BASE < MARKER /\ MARKER < ROM_SIZE /\ {0, BASE, MARKER} \subseteq SectorStarts
  BY GeometryAssumption
<1>3. TAIL \in Nat /\ WORD \in Nat /\ ROM_SIZE < WORD
  BY <1>2, HostAssumption
<1>4. /\ addr \in Nat /\ temp \in Nat /\ remaining \in Nat
      /\ incl \in BOOLEAN /\ armed \in BOOLEAN /\ first \in BOOLEAN
      /\ mode \in {"boot", "main"} /\ flash \in [Blocks -> Buffer]
  BY TInvParts DEF HostTypeOK, DeviceTypeOK
<1>5. FirstBlock = (IF incl THEN 0 ELSE BASE) /\ Counted \in Nat
  BY <1>4 DEF FirstBlock, Counted
<1> QED  BY <1>1, <1>2, <1>3, <1>4, <1>5

LEMMA AreaBlocks ==
  /\ \A b \in MainBlocks : b \in Blocks /\ b \in Nat /\ BASE <= b /\ b < MARKER
  /\ \A b \in 0..(BASE - 1) : b \in Blocks /\ b \in Nat /\ b < BASE
  /\ MARKER \in Blocks
  BY GeometryAssumption DEF MainBlocks, Blocks

(* What a block that is handed over can do to the two programs.             *)
LEMMA WriteBelow ==
  ASSUME TInv, EraseSector \/ ProgramBlock, addr < BASE
  PROVE  MainKept
<1> SUFFICES ASSUME NEW b \in MainBlocks PROVE flash'[b] = flash[b]
  BY DEF MainKept
<1>1. b \in Blocks /\ b \in Nat /\ BASE <= b /\ ~SameSector(b, addr) /\ b # addr
  BY AreaBlocks, Ranges DEF SameSector
<1> QED  BY <1>1, Ranges DEF EraseSector, EraseSectorOf, ProgramBlock

LEMMA WriteAbove ==
  ASSUME TInv, EraseSector \/ ProgramBlock, BASE <= addr
  PROVE  BootBlockKept
<1> SUFFICES ASSUME NEW b \in 0..(BASE - 1) PROVE flash'[b] = flash[b]
  BY DEF BootBlockKept
<1>1. b \in Blocks /\ b \in Nat /\ b < BASE /\ ~SameSector(b, addr) /\ b # addr
  BY AreaBlocks, Ranges DEF SameSector
<1> QED  BY <1>1, Ranges DEF EraseSector, EraseSectorOf, ProgramBlock

LEMMA FinaliseKeeps ==
  ASSUME TInv, Finalise
  PROVE  \A b \in Blocks : b < MARKER => flash'[b] = flash[b]
<1> SUFFICES ASSUME NEW b \in Blocks, b < MARKER PROVE flash'[b] = flash[b]
  OBVIOUS
<1>1. b \in Nat /\ EEPROM1 \in Nat /\ EEPROM2 \in Nat /\ MARKER < EEPROM1 /\ EEPROM1 < EEPROM2
  BY GeometryAssumption DEF Blocks
<1>2. ~SameSector(b, MARKER) /\ b \notin EEPROM1..(EEPROM2 - 1) /\ b \notin EEPROM2..(ROM_SIZE - 1)
  BY <1>1, Ranges DEF SameSector
<1> QED  BY <1>2 DEF Finalise

LEMMA FinaliseKeepsPrograms == ASSUME TInv, Finalise PROVE MainKept /\ BootBlockKept
<1>1. \A b \in 0..(BASE - 1) : b < MARKER
  BY AreaBlocks, Ranges
<1> QED  BY <1>1, FinaliseKeeps, AreaBlocks DEF MainKept, BootBlockKept

LEMMA FlashSame == UNCHANGED flash => MainKept /\ BootBlockKept
  BY DEF MainKept, BootBlockKept

(* A task that does something to the flash has a block in hand, or          *)
(* finalises.                                                               *)
LEMMA TaskCases ==
  ASSUME DeviceTask
  PROVE  \/ RefuseBlock /\ Pending /\ UNCHANGED flash
         \/ (EraseSector \/ ProgramBlock) /\ Pending
         \/ Finalise /\ status = FINALISE
  BY DEF DeviceTask, RefuseBlock, EraseSector, ProgramBlock, Finalise, BlockPending, Pending
-----------------------------------------------------------------------------
(* The boot block in a plain update.                                        *)

LEMMA PlainWrites == ASSUME TInv, BASE <= addr, DeviceTask PROVE BootBlockKept
  BY TaskCases, WriteAbove, FinaliseKeepsPrograms, FlashSame

(* What the host does before the loop, and the second program does alike.   *)
LEMMA OpeningPlain ==
  ASSUME TInv, PlainInv, SendPhase \/ SendOffset \/ ReadStatus
  PROVE  PlainInv'
<1>1. CASE ReadStatus
  BY <1>1 DEF ReadStatus, Read, Leave, deviceVars, PlainInv, ToSend, Volume
<1>2. CASE SendPhase
  BY <1>2 DEF SendPhase, Write, Leave, GoTo, PlainInv, ToSend, Volume
<1>3. CASE SendOffset
  <2>1. UNCHANGED <<rom, incl>> /\ pc' \notin {"phase", "offset"}
        /\ (pc' # "off" => addr' = Low16(Sub32(rom.size, remaining)))
    BY <1>3 DEF SendOffset, Write, RecvOffset, Leave, GoTo, LoopHead
  <2>2. remaining = ToSend
    BY <1>3 DEF SendOffset, PlainInv
  <2>3. Low16(Sub32(rom.size, remaining)) = FirstBlock
    BY <2>2, FirstOffset
  <2> QED  BY <2>1, <2>3, Ranges DEF PlainInv, FirstBlock
<1> QED  BY <1>1, <1>2, <1>3

(* Steps that leave the address where it is, or move it up.                 *)
LEMMA LoopPlain ==
  ASSUME TInv, PlainInv, UNCHANGED incl, addr' = addr \/ addr' = addr + 1 \/ addr' = BASE,
         pc' \notin {"phase", "offset"},
         addr' = BASE \/ pc \in {"poll", "stream", "crc"} \/ pc' \notin {"poll", "stream", "crc"}
  PROVE  PlainInv'
  BY Ranges DEF PlainInv

LEMMA DevicePlain ==
  ASSUME TInv, PlainInv, Device \/ Kill \/ PowerLoss \/ UNCHANGED vars
  PROVE  PlainInv'
<1>1. CASE pc' = "off"
  BY <1>1 DEF PlainInv
<1>2. CASE pc' # "off"
  <2>1. (DeviceTask /\ UNCHANGED hostVars) \/ (JumpToBootBlock /\ UNCHANGED hostVars)
          \/ UNCHANGED vars
    BY <1>2 DEF Device, Reset, Kill, PowerLoss, HostDies
  <2>2. UNCHANGED <<pc, rom, incl, remaining>> /\ (addr' = addr \/ addr' = addr + 1)
    BY <2>1 DEF DeviceTask, RefuseBlock, EraseSector, ProgramBlock, Finalise, JumpToBootBlock,
                hostVars, deviceVars, vars
  <2> QED  BY <2>2, Ranges DEF PlainInv, ToSend, Volume
<1> QED  BY <1>1, <1>2

LEMMA PlainStep == ASSUME TInv, PlainInv, [Next]_vars PROVE PlainInv'
<1>1. CASE Start \/ OpenFails \/ ReadId \/ ReadVer \/ ReadBase
  <2>1. pc' \notin {"phase", "offset", "poll", "stream", "crc"}
    BY <1>1 DEF Start, OpenFails, ReadId, ReadVer, ReadBase, Read, Leave, GoTo
  <2> QED  BY <2>1 DEF PlainInv
<1>2. CASE RejumpPhase \/ RejumpStatus \/ SendFinalise \/ SendFinish
  <2>1. pc' \notin {"phase", "offset", "poll", "stream", "crc"}
    BY <1>2 DEF RejumpPhase, RejumpStatus, SendFinalise, SendFinish, Read, Write, Leave, GoTo
  <2> QED  BY <2>1 DEF PlainInv
<1>3. CASE RejumpOffset
  <2>1. pc' = "off" \/ (pc' = "poll" /\ addr' = BASE /\ UNCHANGED incl)
    BY <1>3, Low16Small DEF RejumpOffset, Write, RecvOffset, Leave, GoTo
  <2> QED  BY <2>1, LoopPlain DEF PlainInv
<1>4. CASE PollProgress \/ StreamData \/ SendCrc
  <2>1. UNCHANGED incl /\ addr' = addr /\ pc \in {"poll", "stream", "crc"}
        /\ pc' \notin {"phase", "offset"}
    BY <1>4 DEF PollProgress, StreamData, SendCrc, SendFrame, Read, Write, RecvData, Leave, GoTo,
                LoopHead, deviceVars
  <2> QED  BY <2>1, LoopPlain
<1> QED  BY <1>1, <1>2, <1>3, <1>4, OpeningPlain, DevicePlain DEF Next, Host

(* Without -bbl, and with it on a controller already in its boot block, no  *)
(* step of a transfer writes the boot block, whatever is lost, damaged or   *)
(* fails, however the process and the controller are scheduled and whatever *)
(* earlier runs left behind.                                                *)
THEOREM BootBlockSafe == Spec => BootBlockKeptUnlessAsked
<1> DEFINE IInv == TInv /\ PlainInv
           Kept == pc \in {"poll", "stream", "crc"} /\ ~incl => BootBlockKept
<1>1. Init => IInv
  BY TInvInit DEF Init, PlainInv
<1>2. IInv /\ [Next]_vars => IInv'
  BY TInvStep, PlainStep
<1>3. IInv /\ [Next]_vars => [Kept]_vars
  <2> SUFFICES ASSUME IInv, [Next]_vars PROVE Kept
    OBVIOUS
  <2>1. CASE UNCHANGED flash
    BY <2>1, FlashSame
  <2>2. CASE DeviceTask
    BY <2>2, PlainWrites DEF PlainInv
  <2> QED  BY <2>1, <2>2, OnlyTaskWrites
<1> QED  BY <1>1, <1>2, <1>3, PTL DEF Spec, BootBlockKeptUnlessAsked
-----------------------------------------------------------------------------
(* A run that stopped.  When the loop is broken off the controller has just *)
(* opened a phase, so it has no block in hand; and it is sent none after.   *)
StoppedInv ==
  /\ pc = "restatus" => status = READY
  /\ pc \in {"final", "finish"} /\ remaining # 0 => ~Pending

LEMMA StoppedHost == ASSUME StoppedInv, Host PROVE StoppedInv'
<1>1. CASE pc' \notin {"restatus", "final", "finish"}
  BY <1>1 DEF StoppedInv
<1>2. CASE SendOffset \/ SendCrc
  BY <1>2 DEF SendOffset, SendCrc, SendFrame, Write, GoTo, Leave, LoopHead, StoppedInv
<1>3. CASE RejumpPhase
  BY <1>3 DEF RejumpPhase, Write, Leave, RecvPhase, StoppedInv
<1>4. CASE RejumpStatus
  <2>1. status = READY /\ UNCHANGED status /\ pc' # "restatus"
    BY <1>4 DEF StoppedInv, RejumpStatus, Read, GoTo, Leave, deviceVars
  <2> QED  BY <2>1, StatusDistinct DEF StoppedInv, Pending
<1>5. CASE SendFinalise
  <2>1. pc' # "restatus" /\ (pc' = "off" \/ status' = FINALISE)
    BY <1>5 DEF SendFinalise, Write, GoTo, Leave, RecvPhase
  <2> QED  BY <2>1, StatusDistinct DEF StoppedInv, Pending
<1>6. Host => \/ pc' \notin {"restatus", "final", "finish"}
              \/ SendOffset \/ SendCrc \/ RejumpPhase \/ RejumpStatus \/ SendFinalise
  BY DEF Host, Start, OpenFails, ReadId, ReadVer, ReadBase, ReadStatus, SendPhase, RejumpOffset,
         PollProgress, StreamData, SendFrame, SendFinish, Read, Write, GoTo, Leave
<1> QED  BY <1>1, <1>2, <1>3, <1>4, <1>5, <1>6

LEMMA StoppedStep == ASSUME StoppedInv, [Next]_vars PROVE StoppedInv'
<1>1. CASE DeviceTask /\ UNCHANGED hostVars
  <2>1. UNCHANGED <<pc, remaining>>
    BY <1>1 DEF hostVars
  <2>2. CASE Pending
    <3>1. pc # "restatus" /\ ~(pc \in {"final", "finish"} /\ remaining # 0)
      BY <2>2, StatusDistinct DEF StoppedInv, Pending
    <3> QED  BY <2>1, <3>1 DEF StoppedInv
  <2>3. CASE Finalise /\ status = FINALISE
    <3>1. pc # "restatus" /\ status' = RECEIVING
      BY <2>3, StatusDistinct DEF StoppedInv, Finalise
    <3> QED  BY <2>1, <3>1, StatusDistinct DEF StoppedInv, Pending
  <2> QED  BY <1>1, <2>2, <2>3, TaskCases
<1>2. CASE JumpToBootBlock /\ UNCHANGED hostVars
  BY <1>2 DEF JumpToBootBlock, hostVars, StoppedInv, Pending
<1>3. CASE Reset \/ Kill \/ PowerLoss
  BY <1>3 DEF Reset, Kill, PowerLoss, HostDies, StoppedInv
<1>4. CASE UNCHANGED vars
  BY <1>4 DEF vars, hostVars, deviceVars, StoppedInv, Pending
<1> QED  BY <1>1, <1>2, <1>3, <1>4, StoppedHost DEF Next, Device

(* After "Process stopped!" the main firmware stays what it was, for every  *)
(* file, schedule and mix of faults, lost frames included, and with sleeps  *)
(* that may all be too short: this needs none of what follows.              *)
THEOREM StoppedSafe == Spec => StoppedIsHarmless
<1> DEFINE IInv == TInv /\ StoppedInv
           Kept == pc \in {"final", "finish"} /\ remaining # 0 => MainKept
<1>1. Init => IInv
  BY TInvInit DEF Init, StoppedInv
<1>2. IInv /\ [Next]_vars => IInv'
  BY TInvStep, StoppedStep
<1>3. IInv /\ [Next]_vars => [Kept]_vars
  <2> SUFFICES ASSUME IInv, [Next]_vars, pc \in {"final", "finish"}, remaining # 0
      PROVE  MainKept
    OBVIOUS
  <2>1. ~Pending
    BY DEF StoppedInv
  <2>2. CASE DeviceTask
    BY <2>1, <2>2, TaskCases, FinaliseKeepsPrograms
  <2> QED  BY <2>2, OnlyTaskWrites, FlashSame
<1> QED  BY <1>1, <1>2, <1>3, PTL DEF Spec, StoppedIsHarmless
-----------------------------------------------------------------------------
(* With sleeps that suffice: ModeInv.  First the steps of the program.      *)

LEMMA Awake ==
  ASSUME SleepsSuffice, Slept
  PROVE  /\ ~armed /\ reboot = 0 /\ status \notin {CHECKING, FINALISE}
         /\ (status = ACCEPTED => addr >= ROM_SIZE)
  BY DEF Slept, Settled

LEMMA ModeInvInit == Init => ModeInv
  BY StatusDistinct DEF Init, DeviceInit, ModeInv, JumpInv, SideInv, EndInv, Pending

(* A program that has not opened a phase, or is gone.                       *)
LEMMA ModeIdle ==
  ASSUME ModeInv, UNCHANGED <<mode, status, addr, armed, reboot>>,
         pc' \in {"off", "id", "ver", "base", "status"},
         pc' \in {"ver", "base", "status"} => ~armed /\ reboot = 0
  PROVE  ModeInv'
<1>1. JumpInv'
  BY DEF ModeInv, JumpInv
<1>2. SideInv'
  BY DEF ModeInv, SideInv, Pending
<1>3. EndInv'
  BY DEF ModeInv, EndInv, Pending
<1> QED  BY <1>1, <1>2, <1>3 DEF ModeInv

LEMMA ModeLeave ==
  ASSUME ModeInv, UNCHANGED deviceVars, NEW how, Leave(how)
  PROVE  ModeInv'
  BY ModeIdle DEF deviceVars, Leave

LEMMA OpeningMode ==
  ASSUME SleepsSuffice, TInv, ModeInv,
         Start \/ OpenFails \/ ReadId \/ ReadVer \/ ReadBase
  PROVE  ModeInv'
<1>1. UNCHANGED <<mode, status, addr, armed, reboot>>
  BY DEF Start, OpenFails, ReadId, ReadVer, ReadBase, Read, deviceVars
<1>2. CASE Start \/ OpenFails
  BY <1>1, <1>2, ModeIdle DEF Start, OpenFails, Leave
<1>3. CASE ReadId
  BY <1>1, <1>3, ModeIdle, Awake DEF ReadId, Read, Leave
<1>4. CASE ReadVer \/ ReadBase
  <2>1. ~armed /\ reboot = 0
    BY <1>4 DEF ReadVer, ReadBase, ModeInv, JumpInv, EndInv
  <2> QED  BY <1>1, <1>4, <2>1, ModeIdle DEF ReadVer, ReadBase, Read, GoTo, Leave
<1> QED  BY <1>2, <1>3, <1>4

(* The boot block is asked for of a controller in its main firmware only.   *)
LEMMA ReadStatusMode ==
  ASSUME TInv, ModeInv, ReadStatus
  PROVE  ModeInv'
<1>1. pc = "status" /\ UNCHANGED deviceVars
  BY DEF ReadStatus, Read
<1>2. CASE /\ incl' = (incl /\ BootStatus # IN_BOOT_BLOCK)
           /\ pc' = "phase"
  <2>1. ~armed /\ reboot = 0 /\ UNCHANGED <<mode, status, addr, armed, reboot>>
    BY <1>1 DEF ModeInv, JumpInv, EndInv, deviceVars
  <2>2. ASSUME incl' PROVE mode = "main"
    <3>1. BootStatus # IN_BOOT_BLOCK
      BY <1>2, <2>2
    <3>2. mode # "boot"
      BY <3>1 DEF BootStatus
    <3> QED  BY <3>2, Ranges
  <2>3. JumpInv'
    BY <1>2, <2>1, <2>2 DEF JumpInv
  <2>4. SideInv' /\ EndInv'
    BY <1>2, <2>1 DEF ModeInv, SideInv, EndInv, Pending
  <2> QED  BY <2>3, <2>4 DEF ModeInv
<1> QED  BY <1>1, <1>2, ModeLeave DEF ReadStatus, Read

LEMMA SendPhaseMode ==
  ASSUME TInv, ModeInv, SendPhase
  PROVE  ModeInv'
<1>1. pc = "phase" /\ ~armed /\ reboot = 0 /\ (incl => mode = "main")
  BY DEF SendPhase, ModeInv, JumpInv, EndInv
<1>2. CASE RecvPhase(IF incl THEN 2 ELSE 1, args.mask) /\ GoTo("offset")
  <2>1. pc' = "offset" /\ status' = READY /\ UNCHANGED <<mode, reboot, incl>>
    BY <1>2 DEF RecvPhase, GoTo
  <2>2. IF mode = "main" THEN armed' /\ addr' = FirstBlock ELSE ~armed'
    BY <1>1, <1>2 DEF RecvPhase, FirstBlock
  <2>3. JumpInv'
    BY <1>1, <2>1, <2>2, Ranges DEF JumpInv, FirstBlock
  <2>4. SideInv' /\ EndInv'
    BY <1>1, <2>1, StatusDistinct DEF SideInv, EndInv, Pending
  <2> QED  BY <2>3, <2>4 DEF ModeInv
<1> QED  BY <1>2, ModeLeave DEF SendPhase, Write

(* The first sleep of the loop: the jump, if one is due, has happened.      *)
LEMMA SendOffsetMode ==
  ASSUME SleepsSuffice, TInv, CourseInv, ModeInv, SendOffset
  PROVE  ModeInv'
<1>1. pc = "offset" /\ ~armed /\ reboot = 0 /\ (mode = "main" <=> incl)
  BY Awake DEF SendOffset, ModeInv, JumpInv
<1>2. temp = 0 /\ ~first /\ ~need /\ remaining = ToSend /\ status = READY
  BY <1>1 DEF CourseInv, PreparedInv
<1>3. CASE /\ RecvOffset(Low16(Sub32(rom.size, remaining)))
           /\ GoTo(LoopHead(remaining, need))
  <2>1. UNCHANGED <<mode, status, armed, reboot, incl, remaining, temp, first, need>>
    BY <1>3 DEF RecvOffset, GoTo
  <2>2. pc' = IF remaining = 0 THEN "final" ELSE "poll"
    BY <1>2, <1>3 DEF GoTo, LoopHead
  <2>3. Counted = 0 /\ Current = FirstBlock /\ Counted' = 0 /\ Current' = FirstBlock
    BY <1>2, <2>1, Ranges DEF Counted, Current, FirstBlock
  <2>4. JumpInv' /\ EndInv'
    BY <1>1, <1>2, <2>1, <2>2, StatusDistinct DEF JumpInv, EndInv, Pending
  <2>5. ~Pending'
    BY <1>2, <2>1, StatusDistinct DEF Pending
  <2>6. incl => SideInv'
    <3> SUFFICES ASSUME incl PROVE SideInv'
      OBVIOUS
    <3>1. mode' = "main" /\ incl' /\ Counted' <= BASE /\ Counted' # BASE
      BY <1>1, <2>1, <2>3, Ranges
    <3> QED  BY <2>5, <3>1 DEF SideInv
  <2>7. ~incl => SideInv'
    <3> SUFFICES ASSUME ~incl PROVE SideInv'
      OBVIOUS
    <3>1. mode' = "boot" /\ Current' >= BASE - 1 /\ Current' # BASE - 1
      BY <1>1, <2>1, <2>3, Ranges
    <3> QED  BY <2>5, <3>1 DEF SideInv
  <2> QED  BY <2>4, <2>6, <2>7 DEF ModeInv
<1> QED  BY <1>3, ModeLeave DEF SendOffset, Write

(* The rejump is made in the main firmware: the last block of the boot      *)
(* block has just been sent.                                                *)
LEMMA RejumpPhaseMode ==
  ASSUME SleepsSuffice, TInv, CourseInv, ModeInv, RejumpPhase
  PROVE  ModeInv'
<1>1. pc = "rephase" /\ ~armed /\ reboot = 0
  BY Awake DEF RejumpPhase
<1>2. mode = "main"
  <2>1. incl /\ first /\ temp = BASE - 1
    BY <1>1 DEF CourseInv, CountInv
  <2>2. Current = BASE - 1
    BY <2>1, Ranges DEF Current
  <2> QED  BY <1>1, <2>2 DEF ModeInv, SideInv
<1>3. CASE RecvPhase(1, args.mask) /\ pc' = "restatus"
  <2>1. armed' /\ addr' = BASE /\ status' = READY /\ UNCHANGED <<mode, reboot>>
    BY <1>2, <1>3 DEF RecvPhase
  <2> QED
    BY <1>1, <1>2, <1>3, <2>1, StatusDistinct DEF ModeInv, JumpInv, SideInv, EndInv, Pending
<1> QED  BY <1>3, ModeLeave DEF RejumpPhase, Write

(* After the sleep the controller has jumped: the program never stops here. *)
LEMMA RejumpStatusMode ==
  ASSUME SleepsSuffice, TInv, CourseInv, ModeInv, RejumpStatus
  PROVE  ModeInv'
<1>1. pc = "restatus" /\ ~armed /\ reboot = 0 /\ mode = "boot" /\ status = READY
  <2>1. pc = "restatus" /\ ~armed /\ reboot = 0
    BY Awake DEF RejumpStatus
  <2>2. mode # "main"
    BY <2>1 DEF ModeInv, JumpInv
  <2>3. status = READY
    BY <2>1 DEF CourseInv, CountInv
  <2> QED  BY <2>1, <2>2, <2>3, Ranges
<1>2. UNCHANGED deviceVars
  BY DEF RejumpStatus, Read
<1>3. CASE GoTo("reoffset")
  BY <1>1, <1>2, <1>3, StatusDistinct
  DEF deviceVars, GoTo, ModeInv, JumpInv, SideInv, EndInv, Pending
<1> QED  BY <1>1, <1>2, <1>3, ModeLeave DEF RejumpStatus, Read, BootStatus

LEMMA RejumpOffsetMode ==
  ASSUME TInv, CourseInv, ModeInv, RejumpOffset
  PROVE  ModeInv'
<1>1. /\ pc = "reoffset" /\ mode = "boot" /\ ~armed /\ reboot = 0
      /\ incl /\ first /\ temp = BASE - 1 /\ status = READY
  BY DEF RejumpOffset, ModeInv, JumpInv, EndInv, CourseInv, CountInv
<1>2. CASE RecvOffset(Low16(BASE)) /\ GoTo("poll")
  <2>1. /\ pc' = "poll" /\ UNCHANGED <<mode, armed, reboot, status, incl, first, temp>>
    BY <1>2 DEF RecvOffset, GoTo
  <2>2. Current' = BASE - 1
    BY <1>1, <2>1, Ranges DEF Current, FirstBlock
  <2> QED
    BY <1>1, <2>1, <2>2, StatusDistinct, Ranges DEF ModeInv, JumpInv, SideInv, EndInv, Pending
<1> QED  BY <1>2, ModeLeave DEF RejumpOffset, Write

LEMMA ModeQuiet ==
  ASSUME ModeInv,
         UNCHANGED <<pc, incl, remaining, temp, first, need, mode, status, addr, armed, reboot>>
  PROVE  ModeInv'
  BY DEF ModeInv, JumpInv, SideInv, EndInv, Pending, Counted, Current, FirstBlock

(* The count grows by one, so that the rejump is due when the boot block    *)
(* has been counted, and not later.                                         *)
LEMMA PollMode ==
  ASSUME TInv, CourseInv, ModeInv, PollProgress
  PROVE  ModeInv'
<1>1. UNCHANGED rom /\ UNCHANGED deviceVars /\ pc = "poll"
  BY DEF PollProgress, Read, Done, ToResend
<1>2. CASE GoTo("poll")
  BY <1>1, <1>2, ModeQuiet DEF GoTo, deviceVars
<1>3. CASE /\ pc' = "stream" /\ UNCHANGED incl
           /\ \/ status = READY /\ BlockDone
              \/ status \in {RECEIVING, BAD_CRC} /\ UNCHANGED <<remaining, temp, first, need>>
  <2>1. ~armed /\ reboot = 0 /\ UNCHANGED <<mode, status, armed, reboot, addr>>
    BY <1>1 DEF ModeInv, JumpInv, EndInv, deviceVars
  <2>2. JumpInv' /\ EndInv' /\ ~Pending'
    BY <1>3, <2>1, StatusDistinct DEF JumpInv, EndInv, Pending
  <2>3. remaining # 0 /\ ~need /\ ToSend = remaining + Counted
    BY <1>1 DEF CourseInv, CountInv
  <2>4. \/ /\ mode = "main" /\ incl /\ Counted < BASE
        \/ /\ mode = "boot" /\ Current >= BASE - 1
           /\ Current = BASE - 1 => first /\ status = READY
    BY <1>1, <2>3, Ranges DEF ModeInv, SideInv
  <2>5. CASE status \in {RECEIVING, BAD_CRC} /\ UNCHANGED <<remaining, temp, first, need>>
    <3>1. Counted' = Counted /\ Current' = Current
      BY <1>3, <2>5 DEF Counted, Current, FirstBlock
    <3>2. SideInv'
      BY <1>3, <2>1, <2>2, <2>4, <2>5, <3>1, StatusDistinct, Ranges DEF SideInv
    <3> QED  BY <2>2, <3>2 DEF ModeInv
  <2>6. CASE status = READY /\ BlockDone
    <3>1. first' /\ temp' = IF first THEN temp + 1 ELSE temp
      BY <2>6 DEF BlockDone, NextTemp
    <3>2. CASE mode = "main"
      <4>1. Counted' = Counted + 1 /\ incl /\ Counted < BASE
        BY <2>4, <3>1, <3>2, Ranges DEF Counted
      <4>2. ASSUME Counted' = BASE PROVE need'
        <5>1. Sub32(remaining, 1) = remaining - 1
          BY <2>3, Ranges DEF Sub32
        <5>2. rom.size = remaining + Counted
          BY <2>3, <4>1 DEF ToSend, Volume
        <5>3. Sub32(rom.size, BASE) = remaining - 1
          BY <2>3, <4>1, <4>2, <5>2, Ranges DEF Sub32
        <5> QED  BY <2>6, <5>1, <5>3 DEF BlockDone
      <4>3. SideInv'
        BY <1>3, <2>1, <2>2, <3>2, <4>1, <4>2, Ranges DEF SideInv
      <4> QED  BY <2>2, <4>3 DEF ModeInv
    <3>3. CASE mode = "boot"
      <4>1. Current' >= BASE - 1 /\ Current' # BASE - 1
        BY <1>3, <2>4, <3>1, <3>3, Ranges DEF Current, FirstBlock
      <4>2. SideInv'
        BY <1>3, <2>1, <2>2, <3>3, <4>1 DEF SideInv
      <4> QED  BY <2>2, <4>2 DEF ModeInv
    <3> QED  BY <2>4, <3>2, <3>3
  <2> QED  BY <1>3, <2>5, <2>6
<1> QED  BY <1>1, <1>2, <1>3, ModeLeave DEF PollProgress, Read, Done, ToResend

(* Frames of data for the program that is not its own, even one that is     *)
(* taken for their sum.                                                     *)
LEMMA StreamMode ==
  ASSUME TInv, CourseInv, ModeInv, StreamData
  PROVE  ModeInv'
<1>1. /\ pc = "stream" /\ ~armed /\ reboot = 0 /\ addr = Current /\ first
      /\ status \in {READY, BAD_CRC, RECEIVING, CHECKING}
  BY DEF StreamData, ModeInv, JumpInv, EndInv, CourseInv, BlockInv, CountInv
<1>2. \/ /\ mode = "main" /\ incl /\ Counted <= BASE
         /\ Counted = BASE => need \/ remaining = 0
      \/ mode = "boot" /\ Current >= BASE
  BY <1>1, Ranges DEF ModeInv, SideInv, Current
<1>3. mode = "main" <=> addr < BASE
  BY <1>1, <1>2, Ranges DEF Counted, Current
<1>4. CASE /\ (\E frame : RecvData(frame)) \/ UNCHANGED deviceVars
           /\ pc' \in {"stream", "crc"} /\ UNCHANGED <<incl, remaining, temp, first, need>>
  <2>1. UNCHANGED <<mode, armed, reboot, addr>>
    BY <1>4 DEF RecvData, deviceVars
  <2>2. Counted' = Counted /\ Current' = Current
    BY <1>4 DEF Counted, Current, FirstBlock
  <2>3. JumpInv' /\ EndInv'
    BY <1>1, <1>4, <2>1 DEF JumpInv, EndInv
  <2>4. \/ /\ mode' = "main" /\ incl' /\ Counted' <= BASE
           /\ Counted' = BASE => need' \/ remaining' = 0
        \/ mode' = "boot" /\ Current' >= BASE - 1 /\ Current' # BASE - 1
    BY <1>2, <1>4, <2>1, <2>2, Ranges DEF Current
  <2>5. mode' = "main" <=> addr' < BASE
    BY <1>3, <2>1
  <2> QED  BY <2>3, <2>4, <2>5 DEF ModeInv, SideInv
<1>5. CASE UNCHANGED deviceVars /\ Leave("error")
  BY <1>5, ModeLeave
<1> QED  BY <1>4, <1>5 DEF StreamData, SendFrame, Write

(* A block is handed over to the program that is not its own.               *)
LEMMA SendCrcMode ==
  ASSUME TInv, CourseInv, ModeInv, SendCrc
  PROVE  ModeInv'
<1>1. pc = "crc" /\ ~armed /\ reboot = 0 /\ addr = Current /\ first
  BY DEF SendCrc, ModeInv, JumpInv, EndInv, CourseInv, BlockInv, CountInv
<1>2. \/ /\ mode = "main" /\ incl /\ Counted <= BASE
         /\ Counted = BASE => need \/ remaining = 0
      \/ mode = "boot" /\ Current >= BASE
  BY <1>1, Ranges DEF ModeInv, SideInv, Current
<1>3. mode = "main" <=> addr < BASE
  BY <1>1, <1>2, Ranges DEF Counted, Current
<1>4. CASE /\ (\E frame : RecvData(frame)) \/ UNCHANGED deviceVars
           /\ GoTo(LoopHead(remaining, need))
  <2>1. UNCHANGED <<mode, armed, reboot, addr>>
    BY <1>4 DEF RecvData, deviceVars
  <2>2. pc' = LoopHead(remaining, need) /\ UNCHANGED <<incl, remaining, temp, first, need>>
    BY <1>4 DEF GoTo
  <2>3. Counted' = Counted /\ Current' = Current
    BY <2>2 DEF Counted, Current, FirstBlock
  <2>4. pc' \in {"poll", "rephase", "final"} /\ (pc' = "final" => remaining = 0)
    BY <2>2 DEF LoopHead
  <2>5. JumpInv' /\ EndInv'
    BY <1>1, <2>1, <2>2, <2>4 DEF JumpInv, EndInv
  <2>6. \/ /\ mode' = "main" /\ incl' /\ Counted' <= BASE
           /\ Counted' = BASE => need' \/ remaining' = 0
        \/ mode' = "boot" /\ Current' >= BASE - 1 /\ Current' # BASE - 1
    BY <1>2, <2>1, <2>2, <2>3, Ranges DEF Current
  <2>7. mode' = "main" <=> addr' < BASE
    BY <1>3, <2>1
  <2> QED  BY <2>5, <2>6, <2>7 DEF ModeInv, SideInv
<1>5. CASE UNCHANGED deviceVars /\ Leave("error")
  BY <1>5, ModeLeave
<1> QED  BY <1>4, <1>5 DEF SendCrc, SendFrame, Write

LEMMA ClosingMode ==
  ASSUME ModeInv, SendFinalise \/ SendFinish
  PROVE  ModeInv'
<1>1. pc \in {"final", "finish"} /\ ~armed /\ reboot = 0 /\ remaining = 0
  BY DEF SendFinalise, SendFinish, ModeInv, JumpInv, EndInv
<1>2. CASE RecvPhase(4, 0) /\ GoTo("finish")
  <2>1. pc' = "finish" /\ status' = FINALISE /\ UNCHANGED <<mode, armed, reboot, remaining>>
    BY <1>2 DEF GoTo, RecvPhase
  <2> QED
    BY <1>1, <2>1, StatusDistinct DEF ModeInv, JumpInv, SideInv, EndInv, Pending
<1>3. CASE pc = "finish" /\ (\E kind : RecvFinish(kind)) /\ Leave("ok")
  <2>1. pc' = "off" /\ UNCHANGED <<mode, armed, status>> /\ ~Pending
    BY <1>3, StatusDistinct DEF Leave, RecvFinish, ModeInv, EndInv, Pending
  <2> QED  BY <1>1, <2>1 DEF ModeInv, JumpInv, SideInv, EndInv, Pending
<1>4. CASE UNCHANGED deviceVars /\ Leave("error")
  BY <1>4, ModeLeave
<1> QED  BY <1>2, <1>3, <1>4 DEF SendFinalise, SendFinish, Write
-----------------------------------------------------------------------------
(* Steps of the controller, and those that stop the program.                *)

LEMMA TaskMode ==
  ASSUME ModeInv, DeviceTask, UNCHANGED hostVars
  PROVE  ModeInv'
<1>1. UNCHANGED <<pc, incl, remaining, temp, first, need, mode, armed, reboot>>
  BY DEF DeviceTask, RefuseBlock, EraseSector, ProgramBlock, Finalise, hostVars
<1>2. \/ Pending /\ status' \in {BAD_CRC, READY}
      \/ Pending /\ UNCHANGED addr /\ status' = ACCEPTED
      \/ status = FINALISE /\ status' = RECEIVING
  BY DEF DeviceTask, RefuseBlock, EraseSector, ProgramBlock, Finalise, BlockPending, Pending
<1>3. status # READY /\ ~armed /\ Counted' = Counted /\ Current' = Current
  BY <1>1, <1>2, StatusDistinct
  DEF ModeInv, JumpInv, Pending, Counted, Current, FirstBlock
<1>4. JumpInv'
  BY <1>1, <1>3 DEF ModeInv, JumpInv
<1>5. SideInv'
  BY <1>1, <1>2, <1>3, StatusDistinct DEF ModeInv, SideInv, Pending
<1>6. EndInv'
  BY <1>1, <1>2, StatusDistinct DEF ModeInv, EndInv, Pending
<1> QED  BY <1>4, <1>5, <1>6 DEF ModeInv

(* The jump is made for a main firmware to be written, not for a boot       *)
(* block.                                                                   *)
LEMMA JumpMode ==
  ASSUME TInv, ModeInv, JumpToBootBlock, UNCHANGED hostVars
  PROVE  ModeInv'
<1>1. /\ mode = "main" /\ status = READY /\ pc \in {"off", "id", "offset", "restatus"}
      /\ pc = "offset" => addr = FirstBlock
      /\ pc = "restatus" => addr = BASE
  BY DEF JumpToBootBlock, ModeInv, JumpInv
<1>2. UNCHANGED <<pc, incl, remaining, status, addr, reboot>> /\ ~armed'
      /\ mode' = IF addr = BASE THEN "boot" ELSE "main"
  BY <1>1 DEF JumpToBootBlock, hostVars
<1>3. FirstBlock = BASE <=> ~incl
  BY Ranges
<1>4. JumpInv'
  BY <1>1, <1>2, <1>3 DEF JumpInv
<1>5. SideInv' /\ EndInv'
  BY <1>1, <1>2, StatusDistinct DEF ModeInv, SideInv, EndInv, Pending
<1> QED  BY <1>4, <1>5 DEF ModeInv

LEMMA DiesMode ==
  ASSUME ModeInv, Reset \/ PowerLoss \/ Kill
  PROVE  ModeInv'
<1>1. CASE Kill
  BY <1>1, ModeIdle DEF Kill, HostDies, deviceVars
<1>2. CASE PowerOn /\ HostDies
  BY <1>2, StatusDistinct
  DEF PowerOn, HostDies, ModeInv, JumpInv, SideInv, EndInv, Pending
<1> QED  BY <1>1, <1>2 DEF Reset, PowerLoss

LEMMA ModeInvStep ==
  ASSUME SleepsSuffice, TInv, CourseInv, ModeInv, [Next]_vars
  PROVE  ModeInv'
<1>1. CASE Host
  BY <1>1, OpeningMode, ReadStatusMode, SendPhaseMode, SendOffsetMode, RejumpPhaseMode,
     RejumpStatusMode, RejumpOffsetMode, PollMode, StreamMode, SendCrcMode, ClosingMode DEF Host
<1>2. CASE Device
  BY <1>2, TaskMode, JumpMode, DiesMode DEF Device
<1>3. CASE Kill \/ PowerLoss
  BY <1>3, DiesMode
<1>4. CASE UNCHANGED vars
  BY <1>4, ModeQuiet DEF vars, hostVars, deviceVars
<1> QED  BY <1>1, <1>2, <1>3, <1>4 DEF Next

ModeIInv == TInv /\ CourseInv /\ ModeInv

LEMMA ModeInitially == Init => ModeIInv
  BY TInvInit, CourseInvInit, ModeInvInit DEF ModeIInv

LEMMA ModeStep ==
  ASSUME SleepsSuffice, ModeIInv, [Next]_vars, ~Mixture(FileBlock(Current)), ~Unheard
  PROVE  ModeIInv'
  BY TInvStep, CourseInvStep, ModeInvStep DEF ModeIInv

(* What a step of the specification with the history variable may do.       *)
LEMMA MisledCases ==
  ASSUME [Next /\ Remembered(FileBlock(Current))]_misledVars
  PROVE  /\ [Next]_vars
         /\ misled => misled'
         /\ ~misled' => UNCHANGED vars \/ (~Mixture(FileBlock(Current)) /\ ~Unheard)
<1>1. [Next]_vars
  BY DEF misledVars
<1>2. CASE UNCHANGED misledVars
  BY <1>1, <1>2 DEF misledVars
<1>3. CASE Remembered(FileBlock(Current))
  BY <1>1, <1>3 DEF Remembered
<1> QED  BY <1>2, <1>3

LEMMA ModeSame == ASSUME ModeIInv, UNCHANGED vars PROVE ModeIInv'
  BY TInvStep, CourseSame, ModeQuiet DEF ModeIInv, vars, hostVars, deviceVars

(* A block handed over to the program that is not its own harms neither.    *)
LEMMA TaskKeepsRunning ==
  ASSUME TInv, Pending => (mode = "main" <=> addr < BASE), DeviceTask
  PROVE  (mode = "boot" => BootBlockKept) /\ (mode = "main" => MainKept)
<1>1. CASE (EraseSector \/ ProgramBlock) /\ Pending
  <2>1. CASE mode = "main"
    BY <1>1, <2>1, WriteBelow
  <2>2. CASE mode # "main"
    <3>1. BASE <= addr
      BY <1>1, <2>2, Ranges
    <3> QED  BY <1>1, <2>2, <3>1, WriteAbove
  <2> QED  BY <2>1, <2>2
<1> QED  BY <1>1, TaskCases, FinaliseKeepsPrograms, FlashSame

OwnKept == (mode = "boot" => BootBlockKept) /\ (mode = "main" => MainKept)

LEMMA StepKeeps == ASSUME ModeIInv, [Next]_vars PROVE OwnKept
<1>1. CASE DeviceTask
  BY <1>1, TaskKeepsRunning DEF ModeIInv, ModeInv, SideInv, OwnKept
<1> QED  BY <1>1, OnlyTaskWrites, FlashSame DEF OwnKept

(* When the sleeps suffice, the controller never rewrites the program it is *)
(* executing, whatever fails, is lost, damaged or killed, for files of      *)
(* every size and however often the program is run, unless controller or    *)
(* program was misled before.                                               *)
THEOREM RunningKept ==
  ASSUME SleepsSuffice
  PROVE  MisledSpec => RunningKeptUnlessMisled
<1> DEFINE IInv == TInv /\ (misled \/ ModeIInv)
           MisledNext == [Next /\ Remembered(FileBlock(Current))]_misledVars
<1>1. MisledInit => IInv
  BY TInvInit, ModeInitially DEF MisledInit
<1>2. IInv /\ MisledNext => IInv'
  <2> SUFFICES ASSUME IInv, MisledNext PROVE IInv'
    OBVIOUS
  <2>1. TInv'
    BY MisledCases, TInvStep
  <2>2. CASE ~misled'
    BY <2>1, <2>2, SleepsSuffice, MisledCases, ModeSame, ModeStep
  <2> QED  BY <2>1, <2>2
<1>3. IInv /\ MisledNext => [misled' \/ OwnKept]_misledVars
  <2> SUFFICES ASSUME IInv, MisledNext, ~misled' PROVE OwnKept
    OBVIOUS
  <2>1. ModeIInv /\ [Next]_vars
    BY MisledCases
  <2> QED  BY <2>1, StepKeeps
<1> QED  BY <1>1, <1>2, <1>3, PTL DEF MisledSpec, RunningKeptUnlessMisled, OwnKept

(* Without a lost data frame neither is ever misled.                        *)
THEOREM ProgramsKept ==
  ASSUME NothingLost, SleepsSuffice
  PROVE  Spec => RunningProgramKept
<1> DEFINE IInv == ModeIInv /\ FrameInv
<1>1. Init => IInv
  BY ModeInitially, PlacedFrameInitially
<1>2. IInv /\ [Next]_vars => IInv'
  BY NothingLost, SleepsSuffice, ModeStep, FrameInvStep DEF ModeIInv, TransferInv
<1>3. IInv /\ [Next]_vars => [OwnKept]_vars
  BY StepKeeps
<1> QED  BY <1>1, <1>2, <1>3, PTL DEF Spec, RunningProgramKept, OwnKept
-----------------------------------------------------------------------------
(* How far a transfer of a file of the chip's size reaches: SpanInv.  What  *)
(* is sent starts at block FirstBlock and ends with the file.               *)

(* The program's part of it.                                                *)
SpanHost ==
  /\ pc \in {"phase", "offset"} => remaining > TAIL
  /\ pc \in {"poll", "stream", "crc", "rephase", "restatus", "reoffset"} =>
       remaining = 0 \/ remaining > TAIL
  /\ pc \in {"stream", "crc"} /\ remaining = 0 => Current = MARKER - 1

(* The controller's part.                                                   *)
SpanDevice ==
  /\ Pending => addr < MARKER
  /\ flash[MARKER] = Blank
  /\ status = FINALISE => \A b \in BASE..(MARKER - 2) : flash[b] = FileBlock(b)

LEMMA SpanParts == SpanInv <=> SpanHost /\ SpanDevice
  BY DEF SpanInv, SpanHost, SpanDevice

LEMMA SpanSame ==
  ASSUME SpanHost, UNCHANGED <<pc, incl, remaining, temp>>
  PROVE  SpanHost'
  BY DEF SpanHost, Current, FirstBlock

LEMMA PollSpan ==
  ASSUME Proper, TInv, CourseInv, SpanHost, PollProgress
  PROVE  SpanHost'
<1>1. UNCHANGED rom /\ pc = "poll"
  BY DEF PollProgress, Read
<1>2. remaining # 0 /\ ToSend = remaining + Counted /\ remaining > TAIL
  BY <1>1 DEF CourseInv, CountInv, SpanHost
<1>3. FirstBlock + ToSend = MARKER + TAIL /\ FirstBlock \in Nat /\ Counted \in Nat
  BY Sizes, Ranges
<1>4. CASE pc' = "stream" /\ UNCHANGED incl /\ BlockDone
  <2>1. Sub32(remaining, 1) = remaining - 1 /\ Sub32(rom.size, BASE) = ROM_SIZE - BASE
    BY <1>2, Sizes DEF Sub32
  <2>2. Current' = FirstBlock + Counted
    BY <1>4, Sizes DEF BlockDone, NextTemp, Current, FirstBlock, Counted
  <2>3. CASE remaining' = 0
    <3>1. remaining - 1 <= TAIL
      BY <1>2, <1>4, <2>1, <2>3, Sizes DEF BlockDone, OnlyTail
    <3>2. Current' = MARKER - 1
      BY <1>2, <1>3, <2>2, <3>1, Sizes
    <3> QED  BY <1>4, <2>3, <3>2 DEF SpanHost
  <2>4. CASE remaining' # 0
    <3>1. remaining' = remaining - 1 /\ (ROM_SIZE - BASE = remaining - 1 \/ ~(remaining - 1 <= TAIL))
      BY <1>4, <2>1, <2>4 DEF BlockDone, OnlyTail
    <3>2. remaining' > TAIL
      BY <3>1, Sizes
    <3> QED  BY <1>4, <2>4, <3>2 DEF SpanHost
  <2> QED  BY <2>3, <2>4
<1>5. CASE pc' = "stream" /\ UNCHANGED remaining
  BY <1>2, <1>5 DEF SpanHost
<1>6. CASE pc' = "poll" /\ UNCHANGED remaining
  BY <1>2, <1>6 DEF SpanHost
<1>7. CASE pc' = "off"
  BY <1>7 DEF SpanHost
<1> QED  BY <1>1, <1>4, <1>5, <1>6, <1>7 DEF PollProgress, Read, GoTo, Leave

LEMMA HostSpan ==
  ASSUME Proper, TInv, CourseInv, SpanHost, Host
  PROVE  SpanHost'
<1>1. CASE pc' \in {"off", "id", "ver", "base", "status", "final", "finish"}
  BY <1>1 DEF SpanHost
<1>2. CASE ReadStatus
  <2>1. ROM_SIZE > TAIL /\ ROM_SIZE - BASE > TAIL /\ Sub32(rom.size, BASE) = ROM_SIZE - BASE
    BY Sizes DEF Sub32
  <2>2. CASE pc' = "phase" /\ remaining' = Volume(incl')
    <3>1. remaining' > TAIL
      BY <2>1, <2>2, Sizes DEF Volume
    <3> QED  BY <2>2, <3>1 DEF SpanHost
  <2> QED  BY <1>1, <1>2, <2>2 DEF ReadStatus, Read, Leave
<1>3. CASE SendPhase \/ SendOffset
  BY <1>1, <1>3 DEF SendPhase, SendOffset, Write, GoTo, Leave, LoopHead, SpanHost
<1>4. CASE RejumpPhase \/ RejumpStatus \/ RejumpOffset
  BY <1>1, <1>4 DEF RejumpPhase, RejumpStatus, RejumpOffset, Write, Read, GoTo, Leave, SpanHost
<1>5. CASE StreamData
  BY <1>1, <1>5 DEF StreamData, SendFrame, Write, Leave, SpanHost, Current, FirstBlock
<1>6. CASE SendCrc
  BY <1>1, <1>6 DEF SendCrc, SendFrame, Write, GoTo, Leave, LoopHead, SpanHost
<1>7. Host => \/ pc' \in {"off", "id", "ver", "base", "status", "final", "finish"}
              \/ ReadStatus \/ SendPhase \/ SendOffset
              \/ RejumpPhase \/ RejumpStatus \/ RejumpOffset
              \/ PollProgress \/ StreamData \/ SendCrc
  BY DEF Host, Start, OpenFails, ReadId, ReadVer, ReadBase, SendFinalise, SendFinish,
         Read, Write, GoTo, Leave
<1> QED  BY <1>1, <1>2, <1>3, <1>4, <1>5, <1>6, <1>7, PollSpan

LEMMA SpanHostStep ==
  ASSUME Proper, TInv, CourseInv, SpanHost, [Next]_vars
  PROVE  SpanHost'
<1>1. CASE Device
  BY <1>1, SpanSame DEF Device, Reset, HostDies, hostVars, SpanHost
<1>2. CASE Kill \/ PowerLoss
  BY <1>2 DEF Kill, PowerLoss, HostDies, SpanHost
<1>3. CASE UNCHANGED vars
  BY <1>3, SpanSame DEF vars, hostVars
<1> QED  BY <1>1, <1>2, <1>3, HostSpan DEF Next

(* The flash is the task's; what the program tells the controller can hand  *)
(* over a block of the span, or finalise what is in place.                  *)
LEMMA SpanKept ==
  ASSUME TInv, SpanDevice, UNCHANGED <<rom, flash>>,
         Pending' => addr' < MARKER,
         status' = FINALISE => \A b \in BASE..(MARKER - 2) : flash[b] = FileBlock(b)
  PROVE  SpanDevice'
  BY DEF SpanDevice, FileBlock

LEMMA HostSpanDevice ==
  ASSUME Proper, TInv, CourseInv, PlacedInv, ModeInv, SpanInv, Host
  PROVE  SpanDevice'
<1>1. UNCHANGED rom
  BY RomKept DEF Next
<1>2. CASE UNCHANGED <<flash, status, addr>>
  BY <1>1, <1>2, SpanKept, SpanParts DEF SpanDevice, Pending
<1>3. CASE UNCHANGED flash /\ status' \in {READY, RECEIVING}
  BY <1>1, <1>3, SpanKept, SpanParts, StatusDistinct DEF Pending
<1>4. CASE SendPhase \/ RejumpPhase
  BY <1>2, <1>3, <1>4 DEF SendPhase, RejumpPhase, Write, RecvPhase, deviceVars
<1>5. CASE SendOffset \/ RejumpOffset
  <2>1. status = READY
    BY <1>5 DEF SendOffset, RejumpOffset, CourseInv, PreparedInv, CountInv
  <2> QED
    BY <1>2, <1>3, <1>5, <2>1 DEF SendOffset, RejumpOffset, Write, RecvOffset, deviceVars
<1>6. CASE StreamData \/ SendCrc
  <2>1. pc \in {"stream", "crc"} /\ addr = Current /\ first
    BY <1>6 DEF StreamData, SendCrc, CourseInv, BlockInv, CountInv
  <2>2. addr < MARKER
    <3>1. CASE remaining = 0
      BY <2>1, <3>1, Sizes DEF SpanInv
    <3>2. CASE remaining # 0
      <4>1. ToSend = remaining + Counted /\ remaining > TAIL
        BY <2>1, <3>2 DEF CourseInv, CountInv, SpanInv
      <4>2. FirstBlock + ToSend = MARKER + TAIL /\ FirstBlock \in Nat /\ Counted = temp + 1
        BY <2>1, Sizes, Ranges DEF Counted
      <4> QED  BY <2>1, <4>1, <4>2, Sizes DEF Current
    <3> QED  BY <3>1, <3>2
  <2>3. CASE UNCHANGED <<flash, addr>> /\ status' \in {RECEIVING, CHECKING}
    BY <1>1, <2>2, <2>3, SpanKept, SpanParts, StatusDistinct
  <2> QED
    BY <1>2, <1>6, <2>3 DEF StreamData, SendCrc, SendFrame, Write, RecvData, deviceVars
<1>7. CASE SendFinalise
  <2>1. remaining = 0 /\ Placed(MARKER - 1)
    BY <1>7 DEF SendFinalise, ModeInv, EndInv, PlacedInv
  <2>2. \A b \in BASE..(MARKER - 2) : flash[b] = FileBlock(b)
    <3> SUFFICES ASSUME NEW b \in BASE..(MARKER - 2) PROVE flash[b] = FileBlock(b)
      OBVIOUS
    <3>1. BASE \in Nat /\ MARKER \in Nat /\ ROM_SIZE \in Nat /\ MARKER < ROM_SIZE
          /\ (FirstBlock = 0 \/ FirstBlock = BASE)
      BY Ranges
    <3>2. b \in Nat /\ BASE <= b /\ b <= MARKER - 2
      BY <3>1
    <3>3. b \in Blocks /\ FirstBlock <= b /\ b < MARKER - 1 /\ b # BASE - 1
      BY <3>1, <3>2 DEF Blocks
    <3> QED  BY <2>1, <3>3 DEF Placed
  <2>3. CASE UNCHANGED flash /\ status' = FINALISE
    BY <1>1, <2>2, <2>3, SpanKept, SpanParts, StatusDistinct DEF Pending
  <2> QED  BY <1>2, <1>7, <2>3 DEF SendFinalise, Write, RecvPhase, deviceVars
<1>8. CASE SendFinish
  BY <1>2, <1>8 DEF SendFinish, Write, RecvFinish, deviceVars
<1> QED
  BY <1>2, <1>4, <1>5, <1>6, <1>7, <1>8
  DEF Host, Start, OpenFails, ReadId, ReadVer, ReadBase, ReadStatus, RejumpStatus, PollProgress,
      Read, deviceVars

(* A block of the span is not in the marker's sector.                       *)
LEMMA TaskSpan ==
  ASSUME TInv, SpanDevice, DeviceTask, UNCHANGED hostVars
  PROVE  SpanDevice'
<1>1. UNCHANGED rom
  BY DEF hostVars
<1>2. CASE RefuseBlock
  BY <1>1, <1>2, SpanKept, StatusDistinct DEF RefuseBlock, Pending
<1>3. CASE EraseSector
  <2>1. Pending /\ status' = ACCEPTED /\ addr' = addr
    BY <1>3 DEF EraseSector, BlockPending, Pending
  <2>2. flash'[MARKER] = Blank
    BY <1>3, AreaBlocks DEF EraseSector, EraseSectorOf, SpanDevice
  <2> QED  BY <2>1, <2>2, StatusDistinct DEF SpanDevice, Pending
<1>4. CASE ProgramBlock
  <2>1. addr < MARKER /\ status' = READY
    BY <1>4 DEF ProgramBlock, BlockPending, SpanDevice, Pending
  <2>2. flash'[MARKER] = Blank
    BY <1>4, <2>1, AreaBlocks, Ranges DEF ProgramBlock, SpanDevice
  <2> QED  BY <2>1, <2>2, StatusDistinct DEF SpanDevice, Pending
<1>5. CASE Finalise
  <2>1. status' = RECEIVING
    BY <1>5 DEF Finalise
  <2>2. flash'[MARKER] = Blank
    BY <1>5, AreaBlocks DEF Finalise, SpanDevice
  <2> QED  BY <2>1, <2>2, StatusDistinct DEF SpanDevice, Pending
<1> QED  BY <1>2, <1>3, <1>4, <1>5 DEF DeviceTask

LEMMA SpanInvStep ==
  ASSUME Proper, TInv, CourseInv, PlacedInv, ModeInv, SpanInv, [Next]_vars
  PROVE  SpanInv'
<1>0. SpanInv' <=> SpanHost' /\ SpanDevice'
  BY DEF SpanInv, SpanHost, SpanDevice
<1> SUFFICES SpanDevice'
  BY <1>0, SpanHostStep, SpanParts
<1>1. UNCHANGED rom
  BY RomKept
<1>2. CASE PowerOn
  BY <1>1, <1>2, SpanKept, SpanParts, StatusDistinct DEF PowerOn, Pending
<1>3. CASE UNCHANGED <<flash, status, addr>>
  BY <1>1, <1>3, SpanKept, SpanParts DEF SpanDevice, Pending
<1>4. CASE Host \/ (DeviceTask /\ UNCHANGED hostVars)
  BY <1>4, HostSpanDevice, TaskSpan, SpanParts
<1>5. CASE Kill \/ JumpToBootBlock \/ UNCHANGED vars
  BY <1>3, <1>5 DEF Kill, JumpToBootBlock, vars, hostVars, deviceVars
<1> QED
  BY <1>2, <1>4, <1>5 DEF Next, Device, Reset, PowerLoss

SpanIInv == PlacedIInv /\ ModeInv /\ (Proper => SpanInv)

LEMMA SpanInitially == Init => SpanIInv
<1> SUFFICES ASSUME Init PROVE SpanInv
  BY PlacedInitially, ModeInvInit DEF SpanIInv
<1>1. SpanHost
  BY DEF Init, SpanHost
<1>2. SpanDevice
  BY OldImageAssumption, StatusDistinct DEF Init, DeviceInit, SpanDevice, Pending
<1> QED  BY <1>1, <1>2, SpanParts

LEMMA SpanStep ==
  ASSUME SleepsSuffice, SpanIInv, [Next]_vars, ~Mixture(FileBlock(Current)), ~Unheard
  PROVE  SpanIInv'
<1>1. PlacedIInv' /\ ModeInv'
  BY PlacedStep, ModeInvStep DEF SpanIInv, PlacedIInv
<1>2. Proper' => Proper
  BY RomKept DEF Proper
<1>3. Proper => SpanInv'
  BY SpanInvStep DEF SpanIInv, PlacedIInv
<1> QED  BY <1>1, <1>2, <1>3 DEF SpanIInv

InPlace == \A b \in BASE..(MARKER - 2) : flash[b] = FileBlock(b)
Guarded == rom.size = ROM_SIZE /\ marker /\ ~marker' => AllOld \/ InPlace

LEMMA StepGuards == ASSUME SpanIInv, [Next]_vars PROVE Guarded
<1> SUFFICES ASSUME rom.size = ROM_SIZE, marker, ~marker' PROVE InPlace
  BY DEF Guarded
<1>1. TInv /\ SpanInv
  BY DEF SpanIInv, PlacedIInv, Proper
<1>2. CASE (EraseSector \/ ProgramBlock) /\ Pending
  <2>1. addr < MARKER /\ addr # MARKER
    BY <1>1, <1>2, Ranges DEF SpanInv
  <2>2. ~SameSector(MARKER, addr)
    BY <1>1, <2>1, Ranges DEF SameSector
  <2> QED  BY <1>2, <2>1, <2>2 DEF EraseSector, ProgramBlock
<1>3. CASE status = FINALISE
  BY <1>1, <1>3 DEF SpanInv, InPlace
<1>4. CASE RefuseBlock
  BY <1>4 DEF RefuseBlock
<1>5. CASE DeviceTask
  BY <1>2, <1>3, <1>4, <1>5, TaskCases
<1>6. CASE Host
  BY <1>6 DEF Host, Start, OpenFails, ReadId, ReadVer, ReadBase, ReadStatus, SendPhase, SendOffset,
     RejumpPhase, RejumpStatus, RejumpOffset, PollProgress, StreamData, SendCrc, SendFrame,
     SendFinalise, SendFinish, Read, Write, RecvPhase, RecvOffset, RecvData, RecvFinish, deviceVars
<1>7. CASE JumpToBootBlock \/ PowerOn \/ UNCHANGED deviceVars
  BY <1>7 DEF JumpToBootBlock, PowerOn, deviceVars
<1> QED  BY <1>5, <1>6, <1>7 DEF Next, Device, Reset, Kill, PowerLoss, vars

LEMMA SpanSteady == ASSUME SpanIInv, UNCHANGED vars PROVE SpanIInv'
<1>1. TInv' /\ CourseInv' /\ ModeInv'
  BY TInvStep, CourseSame, ModeSame DEF SpanIInv, PlacedIInv, ModeIInv
<1>2. UNCHANGED hostVars /\ UNCHANGED deviceVars
  BY DEF vars
<1>3. (Proper' => Proper) /\ (Proper => PlacedInv')
  BY <1>2, PlacedQuiet DEF SpanIInv, PlacedIInv, Proper, hostVars, deviceVars
<1>4. Proper => SpanInv'
  BY <1>1, <1>2, <1>3, SpanInvStep DEF SpanIInv, PlacedIInv
<1> QED  BY <1>1, <1>3, <1>4 DEF SpanIInv, PlacedIInv

(* When the sleeps suffice, the marker goes only when the main firmware is  *)
(* in place up to its last block: by finalising, never with the sector it   *)
(* lies in; whatever fails, is lost, damaged or killed, unless controller   *)
(* or program was misled before.                                            *)
THEOREM MarkerKept ==
  ASSUME SleepsSuffice
  PROVE  MisledSpec => MarkerGuardsUnlessMisled
<1> DEFINE IInv == TInv /\ (misled \/ SpanIInv)
           MisledNext == [Next /\ Remembered(FileBlock(Current))]_misledVars
<1>1. MisledInit => IInv
  BY TInvInit, SpanInitially DEF MisledInit
<1>2. IInv /\ MisledNext => IInv'
  <2> SUFFICES ASSUME IInv, MisledNext PROVE IInv'
    OBVIOUS
  <2>1. TInv'
    BY MisledCases, TInvStep
  <2>2. CASE ~misled'
    BY <2>1, <2>2, SleepsSuffice, MisledCases, SpanSteady, SpanStep
  <2> QED  BY <2>1, <2>2
<1>3. IInv /\ MisledNext => [misled' \/ Guarded]_misledVars
  <2> SUFFICES ASSUME IInv, MisledNext, ~misled' PROVE Guarded
    OBVIOUS
  <2>1. SpanIInv /\ [Next]_vars
    BY MisledCases
  <2> QED  BY <2>1, StepGuards
<1> QED
  BY <1>1, <1>2, <1>3, PTL DEF MisledSpec, MarkerGuardsUnlessMisled, Guarded, InPlace

LEMMA SpanFrameStep ==
  ASSUME NothingLost, SleepsSuffice, SpanIInv, FrameInv, [Next]_vars
  PROVE  SpanIInv' /\ FrameInv'
  BY SpanStep, FrameInvStep DEF SpanIInv, PlacedIInv, TransferInv

(* Without a lost data frame neither is ever misled.                        *)
THEOREM MarkerGuards ==
  ASSUME NothingLost, SleepsSuffice
  PROVE  Spec => MarkerGuardsUpdate
<1> DEFINE IInv == SpanIInv /\ FrameInv
<1>1. Init => IInv
  BY SpanInitially, PlacedFrameInitially
<1>2. IInv /\ [Next]_vars => IInv'
  BY NothingLost, SleepsSuffice, SpanFrameStep
<1>3. IInv /\ [Next]_vars => [Guarded]_vars
  BY StepGuards
<1> QED  BY <1>1, <1>2, <1>3, PTL DEF Spec, MarkerGuardsUpdate, Guarded, InPlace
-----------------------------------------------------------------------------
(* Nothing is missing: WholeInv, when no frame is damaged either.  The      *)
(* blocks the program does not ask about are waited for by a sleep.         *)

NothingDamaged == "corrupt" \notin FaultKinds

LEMMA WholeIdle ==
  ASSUME pc' \notin {"poll", "stream", "crc", "rephase", "restatus", "reoffset", "final", "finish"}
  PROVE  WholeInv'
  BY DEF WholeInv

LEMMA WholeQuiet ==
  ASSUME WholeInv, UNCHANGED <<pc, i, incl, temp, rom, flash, status, addr, buf, crc>>
  PROVE  WholeInv'
  BY DEF WholeInv, ExactPrefix, AllPlaced, Current, FirstBlock, FileBlock

(* The controller is done with the last block when its sleep is over.       *)
LEMMA SleptOver ==
  ASSUME SleepsSuffice, Proper, TInv, WholeInv, Slept
  PROVE  /\ pc = "rephase" => AllPlaced(BASE)
         /\ pc = "final" => AllPlaced(MARKER)
<1>1. status \notin {CHECKING, FINALISE} /\ (status = ACCEPTED => addr >= ROM_SIZE)
  BY Awake
<1>2. CASE pc = "rephase"
  <2>1. status \in {READY, CHECKING, ACCEPTED} /\ addr = IF status = READY THEN BASE ELSE BASE - 1
    BY <1>2 DEF WholeInv
  <2>2. addr = BASE
    BY <1>1, <2>1, Sizes
  <2> QED  BY <1>2, <2>2 DEF WholeInv
<1>3. CASE pc = "final"
  <2>1. status \in {READY, CHECKING, ACCEPTED} /\ addr = IF status = READY THEN MARKER ELSE MARKER - 1
    BY <1>3 DEF WholeInv
  <2>2. addr = MARKER
    BY <1>1, <2>1, Sizes
  <2> QED  BY <1>3, <2>2 DEF WholeInv
<1> QED  BY <1>2, <1>3

LEMMA SendOffsetWhole ==
  ASSUME Proper, TInv, TransferInv, SpanInv, SendOffset
  PROVE  WholeInv'
<1>1. pc = "offset" /\ ~need /\ remaining = ToSend /\ remaining # 0 /\ status = READY
  BY Sizes DEF SendOffset, TransferInv, CourseInv, PreparedInv
<1>2. CASE /\ RecvOffset(Low16(Sub32(rom.size, remaining)))
           /\ GoTo(LoopHead(remaining, need))
  <2>1. pc' = "poll" /\ addr' = FirstBlock /\ status' = READY /\ UNCHANGED incl
    BY <1>1, <1>2, FirstOffset DEF GoTo, LoopHead, RecvOffset
  <2>2. AllPlaced(addr)'
    <3>1. FirstBlock' = FirstBlock /\ FirstBlock \in Nat /\ \A b \in Blocks : b \in Nat
      BY <2>1, Sizes DEF FirstBlock, Blocks
    <3> QED  BY <2>1, <3>1 DEF AllPlaced
  <2> QED  BY <2>1, <2>2, StatusDistinct DEF WholeInv
<1> QED  BY <1>2, WholeIdle DEF SendOffset, Write, Leave

LEMMA RejumpWhole ==
  ASSUME SleepsSuffice, Proper, TInv, TransferInv, ModeInv', WholeInv,
         RejumpPhase \/ RejumpStatus \/ RejumpOffset
  PROVE  WholeInv'
<1>1. AllPlaced(BASE) /\ remaining # 0 /\ UNCHANGED <<rom, flash>>
  BY SleptOver DEF RejumpPhase, RejumpStatus, RejumpOffset, Write, Read, RecvPhase, RecvOffset,
     deviceVars, WholeInv, TransferInv, CourseInv, CountInv
<1>2. CASE pc' = "off"
  BY <1>2, WholeIdle
<1>3. CASE pc' # "off"
  <2>1. UNCHANGED <<incl, remaining>>
    BY <1>3 DEF RejumpPhase, RejumpStatus, RejumpOffset, Write, Read, GoTo, Leave
  <2>2. pc' # "final"
    BY <1>1, <2>1 DEF ModeInv, EndInv
  <2>3. AllPlaced(BASE)'
    BY <1>1, <2>1 DEF AllPlaced, FirstBlock, FileBlock
  <2>4. CASE pc' \in {"restatus", "reoffset"}
    BY <2>3, <2>4 DEF WholeInv
  <2>5. CASE pc' = "poll" /\ addr' = BASE /\ status' = READY
    <3>1. AllPlaced(addr)'
      BY <2>3, <2>5 DEF AllPlaced
    <3> QED  BY <2>5, <3>1, StatusDistinct DEF WholeInv
  <2>6. pc' \in {"restatus", "reoffset"} \/ (RejumpOffset /\ pc' = "poll" /\ addr' = BASE)
    BY <1>3, <2>2, Low16Small
    DEF RejumpPhase, RejumpStatus, RejumpOffset, Write, Read, GoTo, Leave, RecvOffset
  <2>7. RejumpOffset => status = READY /\ UNCHANGED status
    BY DEF RejumpOffset, TransferInv, CourseInv, CountInv, Write, RecvOffset, deviceVars
  <2> QED  BY <2>4, <2>5, <2>6, <2>7
<1> QED  BY <1>2, <1>3

(* Nothing is sent again.                                                   *)
LEMMA PollWhole ==
  ASSUME TInv, WholeInv, PollProgress
  PROVE  WholeInv'
<1>1. UNCHANGED rom /\ UNCHANGED deviceVars /\ pc = "poll"
  BY DEF PollProgress, Read
<1>2. CASE pc' = "stream" /\ i' = 1 /\ UNCHANGED incl
  <2>1. status # BAD_CRC /\ AllPlaced(addr)
    BY <1>1, StatusDistinct DEF WholeInv
  <2>2. AllPlaced(addr)'
    BY <1>1, <1>2, <2>1 DEF AllPlaced, FirstBlock, FileBlock, deviceVars
  <2>3. ExactPrefix'
    <3>1. 1..(i' - 1) = {}
      BY <1>2
    <3> QED  BY <3>1 DEF ExactPrefix
  <2>4. status' # BAD_CRC
    BY <1>1, <2>1 DEF deviceVars
  <2> QED  BY <1>2, <2>2, <2>3, <2>4 DEF WholeInv
<1>3. CASE GoTo("poll")
  BY <1>1, <1>3, WholeQuiet DEF GoTo, deviceVars
<1>4. CASE pc' = "off"
  BY <1>4, WholeIdle
<1> QED  BY <1>1, <1>2, <1>3, <1>4 DEF PollProgress, Read, Leave

LEMMA StreamWhole ==
  ASSUME NothingLost, NothingDamaged, TInv, TransferInv, WholeInv, StreamData
  PROVE  WholeInv'
<1>1. /\ pc = "stream" /\ UNCHANGED rom /\ AllPlaced(addr) /\ ExactPrefix
      /\ idx = i - 1 /\ i \in 1..P
  BY TInvParts
  DEF StreamData, SendFrame, Write, TransferInv, CourseInv, BlockInv, FrameInv, WholeInv, HostTypeOK
<1>2. CASE /\ RecvData(FileBlock(Current)[i])
           /\ i' = i + 1
           /\ pc' = (IF i = P THEN "crc" ELSE "stream")
           /\ UNCHANGED <<incl, temp>>
  <2>1. /\ buf' = [buf EXCEPT ![i] = FileBlock(Current)[i]] /\ status' = RECEIVING
        /\ UNCHANGED <<flash, addr>> /\ buf \in [1..P -> Frame]
    BY <1>1, <1>2, TInvParts, Ranges DEF RecvData, DeviceTypeOK, Buffer
  <2>2. FileBlock(Current)' = FileBlock(Current)
    BY <1>1, <1>2 DEF Current, FirstBlock, FileBlock
  <2>3. \A k \in 1..i : buf'[k] = FileBlock(Current)[k]
    BY <1>1, <2>1 DEF ExactPrefix
  <2>4. ExactPrefix'
    <3>1. 1..(i' - 1) = 1..i
      BY <1>1, <1>2
    <3> QED  BY <2>2, <2>3, <3>1 DEF ExactPrefix
  <2>5. AllPlaced(addr)'
    BY <1>1, <1>2, <2>1 DEF AllPlaced, FirstBlock, FileBlock
  <2> QED  BY <1>2, <2>1, <2>4, <2>5, StatusDistinct DEF WholeInv
<1>3. CASE Leave("error")
  BY <1>3, WholeIdle DEF Leave
<1> QED
  BY <1>2, <1>3 DEF StreamData, SendFrame, Write, Fault, NothingLost, NothingDamaged

(* The block that is handed over is the file's, and its sum is right.       *)
LEMMA SendCrcWhole ==
  ASSUME NothingLost, NothingDamaged, Proper, TInv, TransferInv, SpanInv, WholeInv, SendCrc
  PROVE  WholeInv'
<1>1. /\ pc = "crc" /\ UNCHANGED rom /\ AllPlaced(addr) /\ ExactPrefix
      /\ idx = P /\ i = P + 1 /\ addr = Current
  BY DEF SendCrc, SendFrame, Write, TransferInv, CourseInv, BlockInv, FrameInv, WholeInv
<1>2. buf = FileBlock(Current)
  <2>1. FileBlock(Current) \in Buffer /\ buf \in Buffer
    BY TInvParts, ArgsType, FileBlockIsBuffer DEF HostTypeOK, DeviceTypeOK
  <2>2. 1..(i - 1) = 1..P
    BY <1>1, Ranges
  <2> QED  BY <1>1, <2>1, <2>2, BuffersEqual DEF ExactPrefix
<1>3. CASE /\ RecvData(<<CrcOf(FileBlock(Current)), temp % 256>>)
           /\ GoTo(LoopHead(remaining, need))
  <2>1. status' = CHECKING /\ crc' = CrcOf(FileBlock(Current)) /\ UNCHANGED <<flash, addr, buf>>
    BY <1>1, <1>3, Ranges DEF RecvData
  <2>2. pc' = LoopHead(remaining, need) /\ UNCHANGED incl
    BY <1>3 DEF GoTo
  <2>3. CrcOf(buf') = crc'
    BY <1>2, <2>1
  <2>4. AllPlaced(addr)'
    BY <1>1, <2>1, <2>2 DEF AllPlaced, FirstBlock, FileBlock
  <2>5. pc' = "rephase" => addr' = BASE - 1
    <3>1. need => incl /\ temp = BASE - 1
      BY <1>1 DEF TransferInv, CourseInv, CountInv
    <3> QED  BY <1>1, <2>1, <2>2, <3>1, Ranges DEF LoopHead, Current
  <2>6. pc' = "final" => addr' = MARKER - 1
    BY <1>1, <2>1, <2>2 DEF LoopHead, SpanInv
  <2>7. pc' \in {"poll", "rephase", "final"}
    BY <2>2 DEF LoopHead
  <2> QED
    BY <2>1, <2>3, <2>4, <2>5, <2>6, <2>7, StatusDistinct DEF WholeInv
<1>4. CASE Leave("error")
  BY <1>4, WholeIdle DEF Leave
<1> QED
  BY <1>3, <1>4 DEF SendCrc, SendFrame, Write, Fault, NothingLost, NothingDamaged

LEMMA SendFinaliseWhole ==
  ASSUME SleepsSuffice, Proper, TInv, WholeInv, SendFinalise
  PROVE  WholeInv'
<1>1. AllPlaced(MARKER) /\ UNCHANGED <<rom, flash>>
  BY SleptOver DEF SendFinalise, Write, RecvPhase, deviceVars
<1>2. CASE GoTo("finish")
  <2>1. AllPlaced(MARKER)'
    BY <1>1, <1>2 DEF GoTo, AllPlaced, FirstBlock, FileBlock
  <2> QED  BY <1>2, <2>1 DEF GoTo, WholeInv
<1> QED  BY <1>2, WholeIdle DEF SendFinalise, Write, Leave

(* The controller works on a block only while the program polls or waits,   *)
(* and never refuses it.                                                    *)
LEMMA TaskWhole ==
  ASSUME Proper, TInv, TransferInv, PlacedInv, ModeInv, WholeInv, DeviceTask, UNCHANGED hostVars
  PROVE  WholeInv'
<1> SUFFICES ASSUME pc \in {"poll", "stream", "crc", "rephase", "restatus", "reoffset",
                            "final", "finish"}
    PROVE  WholeInv'
  BY WholeIdle DEF hostVars
<1>1. UNCHANGED <<pc, incl, rom>> /\ FirstBlock \in Nat /\ \A b \in Blocks : b \in Nat
  BY Sizes DEF hostVars, FirstBlock, Blocks
<1>2. ASSUME Pending
      PROVE  /\ pc \in {"poll", "rephase", "final"} /\ AllPlaced(addr)
             /\ status = CHECKING => CrcOf(buf) = crc
             /\ pc = "rephase" => addr = BASE - 1
             /\ pc = "final" => addr = MARKER - 1 /\ remaining = 0
  BY <1>2, StatusDistinct
  DEF Pending, TransferInv, CourseInv, CountInv, BlockInv, FrameInv, WholeInv, ModeInv, EndInv
<1>3. ASSUME Pending, EraseSector \/ ProgramBlock
      PROVE  \A b \in Blocks : b < addr => flash'[b] = flash[b]
  <2>1. Writing
    BY <1>2, <1>3 DEF Writing
  <2>2. erased \/ addr \in SectorStarts \/ addr >= ROM_SIZE
    BY <2>1 DEF PlacedInv
  <2> QED  BY <1>3, <2>2, BelowKept
<1>4. CASE RefuseBlock
  BY <1>2, <1>4 DEF RefuseBlock, Pending
<1>5. CASE EraseSector
  <2>1. Pending /\ status' = ACCEPTED /\ UNCHANGED addr
    BY <1>5 DEF EraseSector, BlockPending, Pending
  <2>2. AllPlaced(addr)'
    BY <1>1, <1>2, <1>3, <1>5, <2>1 DEF AllPlaced, FirstBlock, FileBlock
  <2> QED  BY <1>1, <1>2, <2>1, <2>2, StatusDistinct DEF WholeInv
<1>6. CASE ProgramBlock
  <2>1. Pending /\ status' = READY /\ addr' = addr + 1 /\ erased
    BY <1>6 DEF ProgramBlock, BlockPending, Pending
  <2>2. addr \in Blocks /\ flash[addr] = Blank /\ buf = FileBlock(addr)
    BY <1>6, <2>1, Sizes, SameSectorReflexive
    DEF TransferInv, CourseInv, ErasedInv, Transferring, PendingInv, ProgramBlock, Pending
  <2>3. flash'[addr] = FileBlock(addr)
    BY <1>6, <2>2, Sizes DEF ProgramBlock
  <2>4. AllPlaced(addr)'
    BY <1>1, <1>2, <1>3, <1>6, <2>1, <2>3, Sizes DEF AllPlaced, FirstBlock, FileBlock
  <2>5. (pc = "rephase" => addr' = BASE) /\ (pc = "final" => addr' = MARKER)
    BY <1>2, <2>1, Sizes
  <2> QED  BY <1>1, <1>2, <2>1, <2>4, <2>5, StatusDistinct DEF WholeInv
<1>7. CASE Finalise
  <2>1. status = FINALISE /\ pc = "finish"
    BY <1>7, StatusDistinct
    DEF Finalise, TransferInv, CourseInv, CountInv, BlockInv, FrameInv, WholeInv
  <2>2. AllPlaced(MARKER)'
    BY <1>1, <1>7, <2>1, FinaliseKeeps DEF WholeInv, AllPlaced, FirstBlock, FileBlock
  <2> QED  BY <1>1, <2>1, <2>2 DEF WholeInv
<1> QED  BY <1>4, <1>5, <1>6, <1>7 DEF DeviceTask

LEMMA WholeInvStep ==
  ASSUME NothingLost, NothingDamaged, SleepsSuffice, Proper, TInv, TransferInv, PlacedInv, ModeInv,
         ModeInv', SpanInv, WholeInv, [Next]_vars
  PROVE  WholeInv'
<1>1. CASE Start \/ OpenFails \/ ReadId \/ ReadVer \/ ReadBase \/ ReadStatus \/ SendPhase \/ SendFinish
  BY <1>1, WholeIdle
  DEF Start, OpenFails, ReadId, ReadVer, ReadBase, ReadStatus, SendPhase, SendFinish, Read, Write,
      GoTo, Leave
<1>2. CASE Host
  BY <1>1, <1>2, SendOffsetWhole, RejumpWhole, PollWhole, StreamWhole, SendCrcWhole,
     SendFinaliseWhole DEF Host
<1>3. CASE DeviceTask /\ UNCHANGED hostVars
  BY <1>3, TaskWhole
<1>4. CASE (JumpToBootBlock /\ UNCHANGED hostVars) \/ UNCHANGED vars
  BY <1>4, WholeQuiet DEF JumpToBootBlock, vars, hostVars, deviceVars
<1>5. CASE Reset \/ Kill \/ PowerLoss
  BY <1>5, WholeIdle DEF Reset, Kill, PowerLoss, HostDies
<1> QED  BY <1>2, <1>3, <1>4, <1>5 DEF Next, Device

WholeIInv == SpanIInv /\ TransferInv /\ (Proper => WholeInv)

LEMMA WholeInitially == Init => WholeIInv
  BY SpanInitially, TransferInvInit DEF Init, WholeIInv, WholeInv

LEMMA WholeStep ==
  ASSUME NothingLost, NothingDamaged, SleepsSuffice, WholeIInv, [Next]_vars
  PROVE  WholeIInv'
<1>1. SpanIInv' /\ TransferInv' /\ ModeInv'
  BY SpanStep, FrameInvStep DEF WholeIInv, SpanIInv, PlacedIInv, TransferInv
<1>2. Proper' => Proper
  BY RomKept DEF Proper
<1>3. Proper => WholeInv'
  BY <1>1, WholeInvStep DEF WholeIInv, SpanIInv, PlacedIInv
<1> QED  BY <1>1, <1>2, <1>3 DEF WholeIInv

(* For files of the right size, without lost or damaged frames and with     *)
(* sleeps that suffice: a program that gets to its last command has every   *)
(* block in place, whatever failed before, in this run or in earlier ones.  *)
THEOREM FinishComplete ==
  ASSUME NothingLost, NothingDamaged, SleepsSuffice, ProperFiles
  PROVE  Spec => []FinishMeansComplete
<1>1. WholeIInv /\ [Next]_vars => WholeIInv'
  BY NothingLost, NothingDamaged, SleepsSuffice, WholeStep
<1>2. WholeIInv => FinishMeansComplete
  <2> SUFFICES ASSUME WholeIInv, pc = "finish"
      PROVE  /\ \A b \in MainBlocks : flash[b] = FileBlock(b)
             /\ incl => \A b \in 0..(BASE - 1) : flash[b] = FileBlock(b)
    BY DEF FinishMeansComplete
  <2>1. TInv /\ AllPlaced(MARKER)
    BY ProperFiles, FilesProper DEF WholeIInv, SpanIInv, PlacedIInv, WholeInv
  <2>2. ASSUME NEW b \in MainBlocks PROVE flash[b] = FileBlock(b)
    BY <2>1, AreaBlocks, Ranges DEF AllPlaced
  <2>3. ASSUME incl, NEW b \in 0..(BASE - 1) PROVE flash[b] = FileBlock(b)
    <3>1. b \in Blocks /\ b \in Nat /\ b < MARKER /\ FirstBlock = 0
      BY <2>1, <2>3, AreaBlocks, Ranges
    <3> QED  BY <2>1, <3>1 DEF AllPlaced
  <2> QED  BY <2>2, <2>3
<1> QED  BY <1>1, <1>2, WholeInitially, PTL DEF Spec

(* The invariant itself: while the sleeps suffice and no frame is lost or   *)
(* damaged, the loop is never broken off, a block that is handed over       *)
(* belongs to the program that is not running, the marker's block is never  *)
(* sent, and what the program did not ask about is in place once it has     *)
(* slept.                                                                   *)
THEOREM SleepsHold ==
  ASSUME NothingLost, NothingDamaged, SleepsSuffice, ProperFiles
  PROVE  Spec => []SleepsInv
<1>1. WholeIInv /\ [Next]_vars => WholeIInv'
  BY NothingLost, NothingDamaged, SleepsSuffice, WholeStep
<1>2. WholeIInv => SleepsInv
  BY ProperFiles, FilesProper DEF WholeIInv, SpanIInv, PlacedIInv, SleepsInv
<1> QED  BY <1>1, <1>2, WholeInitially, PTL DEF Spec
-----------------------------------------------------------------------------
(* Nothing but the power stops a transfer: HeldInv, and the abstract update. *)

OnlyPower == FaultKinds \subseteq {"open", "power"}

LEMMA OnlyPowerFaults ==
  ASSUME OnlyPower
  PROVE  /\ NothingLost /\ NothingDamaged
         /\ ~Fault("fail") /\ ~Fault("lost") /\ ~Fault("corrupt") /\ ~Fault("kill")
  BY DEF OnlyPower, NothingLost, NothingDamaged, Fault

LEMMA HostKeepsPrograms == Host => UNCHANGED <<rom, flash, marker, mode>>
  BY DEF Host, Start, OpenFails, ReadId, ReadVer, ReadBase, ReadStatus, SendPhase, SendOffset,
     RejumpPhase, RejumpStatus, RejumpOffset, PollProgress, StreamData, SendCrc, SendFrame,
     SendFinalise, SendFinish, Read, Write, RecvPhase, RecvOffset, RecvData, RecvFinish, deviceVars

LEMMA NewSame == ASSUME AllNew, UNCHANGED <<rom, flash>> PROVE AllNew'
  BY DEF AllNew, FileBlock

(* A block has its process, and finalising too.                             *)
LEMMA HostHasBlock ==
  ASSUME OnlyPower, SleepsSuffice, Proper, TInv, TransferInv, HeldInv, Host
  PROVE  /\ Pending' => pc' \in {"poll", "rephase", "final"}
         /\ status' = FINALISE => pc' = "finish"
<1>1. CASE UNCHANGED status /\ pc \notin {"poll", "rephase", "final", "finish"}
  BY <1>1 DEF HeldInv, Pending
<1>2. CASE status' \in {READY, RECEIVING}
  BY <1>2, StatusDistinct DEF Pending
<1>3. CASE SendPhase \/ RejumpPhase
  BY <1>2, <1>3, OnlyPowerFaults DEF SendPhase, RejumpPhase, Write, RecvPhase
<1>4. CASE SendOffset \/ RejumpOffset
  BY <1>1, <1>4, OnlyPowerFaults DEF SendOffset, RejumpOffset, Write, RecvOffset
<1>5. CASE PollProgress
  <2>1. pc = "poll" /\ UNCHANGED status
    BY <1>5 DEF PollProgress, Read, deviceVars
  <2>2. CASE pc' = "poll"
    BY <2>1, <2>2, StatusDistinct DEF HeldInv
  <2>3. CASE pc' = "stream" /\ status \in {READY, RECEIVING, BAD_CRC}
    BY <2>1, <2>3, StatusDistinct DEF Pending
  <2>4. rom.size # 0
    BY Sizes
  <2> QED
    BY <1>5, <2>2, <2>3, <2>4, OnlyPowerFaults DEF PollProgress, Read, GoTo, Done, ToResend
<1>6. CASE StreamData
  <2>1. idx < P
    <3>1. idx = i - 1 /\ i \in 1..P
      BY <1>6, TInvParts DEF StreamData, TransferInv, CourseInv, BlockInv, FrameInv, HostTypeOK
    <3> QED  BY <3>1, Ranges
  <2> QED
    BY <1>2, <1>6, <2>1, OnlyPowerFaults DEF StreamData, SendFrame, Write, RecvData
<1>7. CASE SendCrc
  <2>1. status' \in {RECEIVING, CHECKING} /\ pc' \in {"poll", "rephase", "final"}
    BY <1>7, OnlyPowerFaults DEF SendCrc, SendFrame, Write, RecvData, GoTo, LoopHead
  <2> QED  BY <2>1, StatusDistinct
<1>8. CASE SendFinalise
  BY <1>8, OnlyPowerFaults, StatusDistinct
  DEF SendFinalise, Write, RecvPhase, GoTo, Pending
<1>9. CASE SendFinish
  <2>1. pc = "finish" /\ status # FINALISE /\ UNCHANGED status
    BY <1>9, Awake, OnlyPowerFaults DEF SendFinish, Write, RecvFinish
  <2> QED  BY <2>1 DEF HeldInv, Pending
<1>10. CASE Start \/ OpenFails \/ ReadId \/ ReadVer \/ ReadBase \/ ReadStatus \/ RejumpStatus
  BY <1>1, <1>10
  DEF Start, OpenFails, ReadId, ReadVer, ReadBase, ReadStatus, RejumpStatus, Read, deviceVars
<1> QED
  BY <1>3, <1>4, <1>5, <1>6, <1>7, <1>8, <1>9, <1>10 DEF Host

LEMMA HostHeld ==
  ASSUME OnlyPower, SleepsSuffice, Proper, TInv, TransferInv, ModeInv, HeldInv, Host
  PROVE  HeldInv'
<1>1. ASSUME mode' = "boot", ~marker'
      PROVE  AllNew' /\ (pc' = "finish" \/ reboot' # 0)
  <2>1. mode = "boot" /\ ~marker /\ UNCHANGED <<rom, flash>>
    BY <1>1, HostKeepsPrograms
  <2>2. AllNew /\ AllNew' /\ (pc = "finish" \/ reboot # 0)
    BY <2>1, NewSame DEF HeldInv
  <2>3. CASE pc = "finish"
    <3>1. SendFinish
      BY <2>3 DEF Host, Start, OpenFails, ReadId, ReadVer, ReadBase, ReadStatus, SendPhase,
         SendOffset, RejumpPhase, RejumpStatus, RejumpOffset, PollProgress, StreamData, SendCrc,
         SendFinalise
    <3>2. reboot' # 0
      BY <3>1, OnlyPowerFaults DEF SendFinish, Write, RecvFinish
    <3> QED  BY <2>2, <3>2
  <2>4. CASE reboot # 0
    <3>1. pc \in {"off", "id"}
      BY <2>4 DEF ModeInv, EndInv
    <3>2. ~ReadId
      BY <2>4, Awake DEF ReadId
    <3>3. Start \/ OpenFails
      BY <3>1, <3>2 DEF Host, ReadVer, ReadBase, ReadStatus, SendPhase,
         SendOffset, RejumpPhase, RejumpStatus, RejumpOffset, PollProgress, StreamData, SendCrc,
         SendFinalise, SendFinish
    <3>4. UNCHANGED reboot
      BY <3>3 DEF Start, OpenFails, deviceVars
    <3> QED  BY <2>2, <2>4, <3>4
  <2> QED  BY <2>2, <2>3, <2>4
<1> QED  BY <1>1, HostHasBlock DEF HeldInv

(* The marker is set by the jump, and goes by finalising.                   *)
LEMMA DeviceHeld ==
  ASSUME TInv, TransferInv, ModeInv, SpanInv, WholeInv, HeldInv,
         DeviceTask \/ JumpToBootBlock, UNCHANGED hostVars
  PROVE  HeldInv'
<1>1. UNCHANGED <<pc, rom, incl>>
  BY DEF hostVars
<1>2. CASE Pending /\ (RefuseBlock \/ EraseSector \/ ProgramBlock)
  <2>1. /\ pc \in {"poll", "rephase", "final"} /\ reboot = 0
        /\ status' \in {BAD_CRC, ACCEPTED, READY} /\ UNCHANGED mode
    BY <1>2 DEF HeldInv, ModeInv, EndInv, RefuseBlock, EraseSector, ProgramBlock
  <2>2. addr < MARKER /\ addr # MARKER /\ ~SameSector(MARKER, addr)
    BY <1>2, Ranges DEF SpanInv, SameSector
  <2>3. UNCHANGED marker \/ (marker' <=> marker)
    BY <1>2, <2>2 DEF RefuseBlock, EraseSector, ProgramBlock
  <2>4. mode = "boot" => marker
    BY <2>1 DEF HeldInv
  <2> QED  BY <1>1, <2>1, <2>3, <2>4, StatusDistinct DEF HeldInv, Pending
<1>3. CASE Finalise
  <2>1. status = FINALISE /\ status' = RECEIVING /\ pc = "finish"
    BY <1>3 DEF Finalise, HeldInv
  <2>2. AllNew'
    <3> SUFFICES ASSUME NEW b \in MainBlocks PROVE flash'[b] = FileBlock(b)
      BY <1>1 DEF AllNew, FileBlock
    <3>1. b \in Blocks /\ b \in Nat /\ BASE <= b /\ b < MARKER
      BY AreaBlocks
    <3>2. flash[b] = FileBlock(b)
      BY <2>1, <3>1, Ranges DEF WholeInv, AllPlaced
    <3> QED  BY <1>3, <3>1, <3>2, FinaliseKeeps
  <2> QED  BY <1>1, <2>1, <2>2, StatusDistinct DEF HeldInv, Pending
<1>4. CASE JumpToBootBlock
  <2>1. mode = "main" /\ status = READY /\ UNCHANGED status /\ (mode' = "boot" => marker')
    BY <1>4, Ranges DEF JumpToBootBlock, ModeInv, JumpInv, SpanInv
  <2> QED  BY <1>1, <2>1, StatusDistinct DEF HeldInv, Pending
<1> QED  BY <1>2, <1>3, <1>4, TaskCases

LEMMA HeldInvStep ==
  ASSUME OnlyPower, SleepsSuffice, Proper, TInv, TransferInv, ModeInv, SpanInv, WholeInv, HeldInv,
         [Next]_vars
  PROVE  HeldInv'
<1>1. CASE Reset \/ PowerLoss
  BY <1>1, StatusDistinct DEF Reset, PowerLoss, PowerOn, HeldInv, Pending
<1>2. CASE UNCHANGED vars
  BY <1>2 DEF vars, hostVars, deviceVars, HeldInv, Pending, AllNew, FileBlock
<1>3. ~Kill
  BY OnlyPowerFaults DEF Kill
<1> QED  BY <1>1, <1>2, <1>3, HostHeld, DeviceHeld DEF Next, Device

HeldIInv == WholeIInv /\ (Proper => HeldInv)

LEMMA HeldInitially == Init => HeldIInv
  BY WholeInitially, StatusDistinct DEF Init, DeviceInit, HeldIInv, HeldInv, Pending

LEMMA HeldStep ==
  ASSUME OnlyPower, SleepsSuffice, HeldIInv, [Next]_vars
  PROVE  HeldIInv'
<1>1. WholeIInv'
  BY WholeStep, OnlyPowerFaults DEF HeldIInv
<1>2. Proper' => Proper
  BY RomKept DEF Proper
<1>3. Proper => HeldInv'
  BY HeldInvStep DEF HeldIInv, WholeIInv, SpanIInv, PlacedIInv
<1> QED  BY <1>1, <1>2, <1>3 DEF HeldIInv

(* At any moment the power may go: a block handed over has its process, and *)
(* a controller in its boot block without the marker has a whole main       *)
(* firmware and a reset to come.                                            *)
THEOREM HeldHolds ==
  ASSUME OnlyPower, SleepsSuffice, ProperFiles
  PROVE  Spec => []HeldInv
<1>1. HeldIInv /\ [Next]_vars => HeldIInv'
  BY OnlyPower, SleepsSuffice, HeldStep
<1>2. HeldIInv => HeldInv
  BY ProperFiles, FilesProper DEF HeldIInv, WholeIInv, SpanIInv, PlacedIInv
<1> QED  BY <1>1, <1>2, HeldInitially, PTL DEF Spec

(* A controller leaves its boot block by a reset that finds no marker.      *)
LEMMA LeavesByPowerOn ==
  ASSUME TInv, [Next]_vars, mode = "boot", mode' = "main"
  PROVE  PowerOn /\ ~marker
<1>1. ~Host
  BY HostKeepsPrograms
<1>2. ~DeviceTask /\ ~JumpToBootBlock
  BY DEF DeviceTask, RefuseBlock, EraseSector, ProgramBlock, Finalise, JumpToBootBlock
<1>3. ~UNCHANGED deviceVars
  BY DEF deviceVars
<1>4. PowerOn
  BY <1>1, <1>2, <1>3 DEF Next, Device, Reset, Kill, PowerLoss, vars
<1> QED  BY <1>4 DEF PowerOn

(* For files of the right size, power losses at any moment and sleeps that  *)
(* suffice: no controller leaves its boot block for a damaged firmware.     *)
THEOREM BootsWhole ==
  ASSUME OnlyPower, SleepsSuffice, ProperFiles
  PROVE  Spec => NeverBootsDamaged
<1> DEFINE Boots == mode = "boot" /\ mode' = "main" => AllOld \/ AllNew
<1>1. HeldIInv /\ [Next]_vars => HeldIInv'
  BY OnlyPower, SleepsSuffice, HeldStep
<1>2. HeldIInv /\ [Next]_vars => [Boots]_vars
  <2> SUFFICES ASSUME HeldIInv, [Next]_vars, mode = "boot", mode' = "main" PROVE AllNew
    OBVIOUS
  <2>1. TInv /\ HeldInv
    BY ProperFiles, FilesProper DEF HeldIInv, WholeIInv, SpanIInv, PlacedIInv
  <2> QED  BY <2>1, LeavesByPowerOn DEF HeldInv
<1> QED  BY <1>1, <1>2, HeldInitially, PTL DEF Spec, NeverBootsDamaged
-----------------------------------------------------------------------------
(* The abstract update, step by step.                                       *)

(* What a step leaves of the mapped state.                                  *)
LEMMA ImageKept ==
  ASSUME MainKept
  PROVE  [b \in MainBlocks |-> flash'[b]] = [b \in MainBlocks |-> flash[b]]
  BY DEF MainKept

LEMMA FileKept ==
  ASSUME UNCHANGED rom
  PROVE  [b \in MainBlocks |-> FileBlock(b)'] = [b \in MainBlocks |-> FileBlock(b)]
  BY DEF FileBlock

LEMMA MapsToStutter ==
  ASSUME MainKept, UNCHANGED <<rom, mode>>
  PROVE  UNCHANGED Update!updateVars
  BY ImageKept, FileKept DEF Update!updateVars

LEMMA MapsToHold ==
  ASSUME MainKept, UNCHANGED rom, mode' = "boot"
  PROVE  Update!Hold
  BY ImageKept, FileKept DEF Update!Hold

LEMMA MapsToRelease ==
  ASSUME AllNew, MainKept, UNCHANGED rom, mode' = "main"
  PROVE  Update!Release
<1>1. [b \in MainBlocks |-> flash[b]] = [b \in MainBlocks |-> FileBlock(b)]
  BY DEF AllNew
<1>2. (mode' = "boot") = FALSE
  OBVIOUS
<1> QED  BY <1>1, <1>2, ImageKept, FileKept DEF Update!Release

(* A block of the main firmware that the task works on: its process is      *)
(* there, and all before it is in.                                          *)
LEMMA AboutToWrite ==
  ASSUME TInv, TransferInv, PlacedInv, ModeInv, SpanInv, WholeInv, HeldInv,
         Pending, mode = "boot"
  PROVE  /\ addr \in MainBlocks /\ AllPlaced(addr) /\ Writing
         /\ \A b \in MainBlocks : b < addr => flash[b] = FileBlock(b)
<1>1. BASE <= addr /\ addr < MARKER
  BY Ranges DEF ModeInv, SideInv, SpanInv
<1>2. pc \in {"poll", "rephase", "final"} /\ (pc = "final" => remaining = 0)
  BY DEF HeldInv, ModeInv, EndInv
<1>3. AllPlaced(addr) /\ Writing
  BY <1>2 DEF WholeInv, Writing
<1>4. addr \in MainBlocks
  BY <1>1, Ranges DEF MainBlocks
<1>5. \A b \in MainBlocks : b < addr => flash[b] = FileBlock(b)
  BY <1>3, AreaBlocks, Ranges DEF AllPlaced
<1> QED  BY <1>3, <1>4, <1>5

LEMMA EraseMaps ==
  ASSUME TInv, TransferInv, PlacedInv, ModeInv, SpanInv, WholeInv, HeldInv,
         EraseSector, UNCHANGED hostVars, mode = "boot"
  PROVE  Update!Empty
<1> DEFINE sector == {b \in MainBlocks : SameSector(b, addr)}
<1>1. Pending /\ ~erased /\ UNCHANGED <<rom, mode>>
  BY DEF EraseSector, BlockPending, Pending, hostVars
<1>2. /\ addr \in MainBlocks /\ addr \in Nat /\ addr < ROM_SIZE /\ Writing
      /\ \A b \in MainBlocks : b < addr => flash[b] = FileBlock(b)
  BY <1>1, AboutToWrite, AreaBlocks, Ranges
<1>3. addr \in SectorStarts
  BY <1>1, <1>2, Ranges DEF PlacedInv
<1>4. sector \in MainSectors
  BY <1>2, <1>3 DEF MainSectors
<1>5. \A b \in Update!Image : (\A x \in sector : b < x) =>
        [a \in MainBlocks |-> flash[a]][b] = [a \in MainBlocks |-> FileBlock(a)][b]
  <2> SUFFICES ASSUME NEW b \in MainBlocks, \A x \in sector : b < x
               PROVE  flash[b] = FileBlock(b)
    BY DEF Update!Image, MainBlocks
  <2>1. addr \in sector
    BY <1>2, SameSectorReflexive
  <2> QED  BY <1>2, <2>1
<1>6. [b \in MainBlocks |-> flash'[b]] =
        [b \in Update!Image |-> IF b \in sector THEN Blank ELSE [a \in MainBlocks |-> flash[a]][b]]
  <2>1. Update!Image = MainBlocks
    BY DEF Update!Image, MainBlocks
  <2>2. \A b \in MainBlocks : flash'[b] = IF b \in sector THEN Blank ELSE flash[b]
    BY <1>2, AreaBlocks DEF EraseSector, EraseSectorOf
  <2> QED  BY <2>1, <2>2
<1> HIDE DEF sector
<1> QED  BY <1>1, <1>4, <1>5, <1>6, FileKept DEF Update!Empty

LEMMA ProgramMaps ==
  ASSUME TInv, TransferInv, PlacedInv, ModeInv, SpanInv, WholeInv, HeldInv,
         ProgramBlock, UNCHANGED hostVars, mode = "boot"
  PROVE  Update!Fill
<1>1. Pending /\ erased /\ UNCHANGED <<rom, mode>>
  BY DEF ProgramBlock, BlockPending, Pending, hostVars
<1>2. /\ addr \in MainBlocks /\ addr \in Nat
      /\ \A b \in MainBlocks : b < addr => flash[b] = FileBlock(b)
  BY <1>1, AboutToWrite, Ranges
<1>3. addr \in Blocks /\ flash[addr] = Blank /\ buf = FileBlock(addr)
  BY <1>1, <1>2, SameSectorReflexive
  DEF TransferInv, CourseInv, ErasedInv, Transferring, PendingInv, ProgramBlock, Pending
<1>4. Update!Image = MainBlocks
  BY DEF Update!Image, MainBlocks
<1>5. \A a \in BASE..(addr - 1) : a \in MainBlocks /\ flash[a] = FileBlock(a)
  BY <1>2, Ranges DEF MainBlocks
<1>6. [b \in MainBlocks |-> flash'[b]] =
        [[b \in MainBlocks |-> flash[b]] EXCEPT ![addr] = [b \in MainBlocks |-> FileBlock(b)][addr]]
  <2>1. \A b \in MainBlocks : flash'[b] = IF b = addr THEN FileBlock(addr) ELSE flash[b]
    BY <1>3, AreaBlocks, Ranges DEF ProgramBlock
  <2> QED  BY <1>2, <2>1
<1> QED  BY <1>1, <1>2, <1>3, <1>4, <1>5, <1>6, FileKept DEF Update!Fill

(* Every step of the flasher and the controller is a step of the abstract   *)
(* update or changes nothing of it, as long as only the power fails: the    *)
(* boot block is entered before the main firmware is touched, sectors are   *)
(* emptied and blocks filled in order, and the boot block is only left for  *)
(* a whole firmware.                                                        *)
THEOREM UpdateRefined ==
  ASSUME OnlyPower, SleepsSuffice, ProperFiles
  PROVE  Spec => UpdateImplemented
<1>1. Init => Update!Init
  <2> SUFFICES ASSUME Init PROVE Update!Init
    OBVIOUS
  <2>1. flash = OldImage /\ (mode = "boot") = FALSE
    BY DEF Init, DeviceInit
  <2> QED  BY <2>1 DEF Update!Init
<1>2. HeldIInv /\ [Next]_vars => HeldIInv'
  BY OnlyPower, SleepsSuffice, HeldStep
<1>3. HeldIInv /\ [Next]_vars => [Update!Next]_(Update!updateVars)
  <2> SUFFICES ASSUME HeldIInv, [Next]_vars
               PROVE  Update!Next \/ UNCHANGED Update!updateVars
    OBVIOUS
  <2>1. /\ TInv /\ TransferInv /\ PlacedInv /\ ModeInv /\ SpanInv /\ WholeInv /\ HeldInv
        /\ UNCHANGED rom
    BY ProperFiles, FilesProper, RomKept DEF HeldIInv, WholeIInv, SpanIInv, PlacedIInv
  <2>2. CASE PowerOn
    <3>1. MainKept
      BY <2>2, FlashSame DEF PowerOn
    <3>2. CASE mode' = "boot"
      BY <2>1, <3>1, <3>2, MapsToHold DEF Update!Next
    <3>3. CASE mode = "boot" /\ mode' = "main"
      <4>1. AllNew
        BY <2>1, <2>2, <3>3 DEF PowerOn, HeldInv
      <4> QED  BY <2>1, <3>1, <3>3, <4>1, MapsToRelease DEF Update!Next
    <3>4. CASE mode = "main" /\ mode' = "main"
      BY <2>1, <3>1, <3>4, MapsToStutter
    <3> QED  BY <2>1, <2>2, <3>2, <3>3, <3>4, Ranges DEF PowerOn
  <2>3. CASE (EraseSector \/ ProgramBlock) /\ UNCHANGED hostVars /\ Pending
    <3>1. CASE mode = "boot"
      BY <2>1, <2>3, <3>1, EraseMaps, ProgramMaps DEF Update!Next
    <3>2. CASE mode = "main"
      <4>1. MainKept
        BY <2>1, <2>3, <3>2, WriteBelow DEF ModeInv, SideInv
      <4>2. UNCHANGED mode
        BY <2>3 DEF EraseSector, ProgramBlock
      <4> QED  BY <2>1, <4>1, <4>2, MapsToStutter
    <3> QED  BY <2>1, <3>1, <3>2, Ranges
  <2>4. CASE RefuseBlock \/ Finalise
    <3>1. MainKept /\ UNCHANGED mode
      BY <2>1, <2>4, FinaliseKeepsPrograms, FlashSame DEF RefuseBlock, Finalise
    <3> QED  BY <2>1, <3>1, MapsToStutter
  <2>5. CASE JumpToBootBlock
    <3>1. MainKept /\ (mode' = "boot" \/ UNCHANGED mode)
      BY <2>5, FlashSame DEF JumpToBootBlock
    <3> QED  BY <2>1, <3>1, MapsToHold, MapsToStutter DEF Update!Next
  <2>6. CASE Host \/ UNCHANGED deviceVars
    <3>1. UNCHANGED <<flash, mode>>
      BY <2>6, HostKeepsPrograms DEF deviceVars
    <3> QED  BY <2>1, <3>1, FlashSame, MapsToStutter
  <2> QED
    BY <2>2, <2>3, <2>4, <2>5, <2>6, TaskCases
    DEF Next, Device, DeviceTask, Reset, Kill, PowerLoss, vars
<1> QED
  BY <1>1, <1>2, <1>3, HeldInitially, PTL DEF Spec, UpdateImplemented, Update!Spec

(* What is known of the abstract update is known of this one.               *)
UpdateTheory == INSTANCE FirmwareUpdateProofs WITH
  First   <- BASE,
  Last    <- MARKER - 1,
  Sectors <- MainSectors,
  Old     <- [b \in MainBlocks |-> OldImage[b]],
  image   <- [b \in MainBlocks |-> flash[b]],
  file    <- [b \in MainBlocks |-> FileBlock(b)],
  held    <- mode = "boot"

(* Hence at any moment, and not only when it is left, a controller outside  *)
(* its boot block has a whole main firmware to run.                         *)
THEOREM WholeUnlessHeld ==
  ASSUME OnlyPower, SleepsSuffice, ProperFiles
  PROVE  Spec => [](mode = "boot" \/ AllOld \/ AllNew)
<1>1. UpdateImplemented => UpdateTheory!Spec
  BY DEF UpdateImplemented, Update!Spec, UpdateTheory!Spec, Update!Init, UpdateTheory!Init,
         Update!Next, UpdateTheory!Next, Update!Hold, UpdateTheory!Hold,
         Update!Empty, UpdateTheory!Empty, Update!Fill, UpdateTheory!Fill,
         Update!Release, UpdateTheory!Release, Update!Image, UpdateTheory!Image,
         Update!updateVars, UpdateTheory!updateVars
<1>2. UpdateTheory!WholeOrHeld => mode = "boot" \/ AllOld \/ AllNew
  BY DEF UpdateTheory!WholeOrHeld, AllOld, AllNew
<1> QED  BY <1>1, <1>2, UpdateRefined, UpdateTheory!HeldOrWhole, PTL
=============================================================================
