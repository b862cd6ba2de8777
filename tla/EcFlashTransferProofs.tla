----------------------- MODULE EcFlashTransferProofs ------------------------
(***************************************************************************)
(* Where blocks end up, for every geometry, file, command line, schedule,  *)
(* number of runs and mix of faults: none in the place of another, unless  *)
(* controller or program is misled; neither is when no data frame is lost, *)
(* and then, when the program finishes, the blocks it asked about are in   *)
(* their places.                                                           *)
(***************************************************************************)
EXTENDS EcFlashInvariant, EcFlashMisled, EcFlashProofs

NothingLost == "lost" \notin FaultKinds

LEMMA FileBlockSame ==
  ASSUME UNCHANGED rom, NEW k \in Nat
  PROVE  FileBlock(k)' = FileBlock(k)
  BY DEF FileBlock

LEMMA CourseInvInit == Init => CourseInv
<1> SUFFICES ASSUME Init PROVE CourseInv
  OBVIOUS
<1>1. pc = "off" /\ status = RECEIVING /\ flash = OldImage
  BY DEF Init, DeviceInit
<1>2. PreparedInv /\ CountInv /\ BlockInv
  BY <1>1 DEF PreparedInv, CountInv, BlockInv
<1>3. PendingInv /\ ErasedInv
  BY <1>1 DEF PendingInv, BlockPending, ErasedInv, Transferring, RECEIVING, CHECKING, ACCEPTED
<1>4. NoForeignBlock
  BY <1>1 DEF NoForeignBlock
<1> QED  BY <1>2, <1>3, <1>4 DEF CourseInv

(* The part of the invariant about the controller alone, which survives     *)
(* any step of the host that tells the controller nothing.                  *)
LEMMA DeviceUntouched ==
  ASSUME TInv, PendingInv, NoForeignBlock, UNCHANGED deviceVars, UNCHANGED rom
  PROVE  PendingInv' /\ NoForeignBlock'
<1>1. addr \in Nat /\ \A b \in Blocks : b \in Nat
  BY TInvParts, GeometryAssumption DEF DeviceTypeOK, Blocks
<1>2. PendingInv'
  BY <1>1 DEF PendingInv, BlockPending, deviceVars, FileBlock
<1>3. NoForeignBlock'
  BY <1>1 DEF NoForeignBlock, deviceVars, FileBlock
<1> QED  BY <1>2, <1>3

LEMMA ErasedUntouched ==
  ASSUME ErasedInv, UNCHANGED deviceVars, Transferring' => Transferring
  PROVE  ErasedInv'
  BY DEF ErasedInv, deviceVars

(* Leaving the transfer, whatever has been sent.                            *)
LEMMA HostStops ==
  ASSUME TInv, CourseInv, UNCHANGED deviceVars, UNCHANGED rom,
         pc' \in {"off", "final", "finish"}
  PROVE  CourseInv'
<1>1. PreparedInv' /\ CountInv' /\ BlockInv'
  BY DEF PreparedInv, CountInv, BlockInv
<1>2. PendingInv' /\ NoForeignBlock'
  BY DeviceUntouched DEF CourseInv
<1>3. ErasedInv'
  BY ErasedUntouched DEF CourseInv, Transferring, deviceVars
<1> QED  BY <1>1, <1>2, <1>3 DEF CourseInv

LEMMA PowerOnTransfer ==
  ASSUME TInv, CourseInv, PowerOn, HostDies
  PROVE  CourseInv'
<1>1. pc' = "off" /\ UNCHANGED rom /\ UNCHANGED flash /\ status' = RECEIVING
  BY DEF PowerOn, HostDies
<1>2. PreparedInv' /\ CountInv' /\ BlockInv'
  BY <1>1 DEF PreparedInv, CountInv, BlockInv
<1>3. PendingInv' /\ ErasedInv'
  BY <1>1 DEF PendingInv, BlockPending, ErasedInv, Transferring, RECEIVING, CHECKING, ACCEPTED
<1>4. NoForeignBlock'
  BY <1>1 DEF CourseInv, NoForeignBlock, FileBlock
<1> QED  BY <1>2, <1>3, <1>4 DEF CourseInv
-----------------------------------------------------------------------------
(* Steps of the controller.                                                 *)

LEMMA StatusDistinct ==
  /\ RECEIVING = 0 /\ READY = 1 /\ BAD_CRC = 2 /\ FINALISE = 3
  /\ CHECKING = 165 /\ ACCEPTED = 90
  BY DEF RECEIVING, READY, BAD_CRC, FINALISE, CHECKING, ACCEPTED

(* What a step of the controller has to respect for the host's part of the  *)
(* invariant: it acts on a block only while the host polls or has left.     *)
LEMMA TaskKeepsHostPart ==
  ASSUME CourseInv, UNCHANGED hostVars, UNCHANGED <<buf, crc>>,
         \/ /\ status \in {CHECKING, ACCEPTED}
            /\ status' = BAD_CRC \/ (status' = ACCEPTED /\ BlockPending)
            /\ UNCHANGED addr
         \/ BlockPending /\ status' = READY /\ addr' = addr + 1
         \/ status = FINALISE
  PROVE  PreparedInv' /\ CountInv' /\ BlockInv'
<1>1. pc \notin {"offset", "restatus", "reoffset"}
  BY StatusDistinct DEF CourseInv, PreparedInv, CountInv, BlockPending
<1>2. status = FINALISE => pc \notin {"poll", "stream", "crc"}
  BY StatusDistinct DEF CourseInv, BlockInv
<1>3. BlockPending => pc \notin {"stream", "crc"}
  BY StatusDistinct DEF CourseInv, BlockInv, BlockPending
<1>4. PreparedInv'
  BY <1>1 DEF CourseInv, PreparedInv, hostVars, ToSend, Volume
<1>5. CountInv'
  BY <1>1 DEF CourseInv, CountInv, hostVars, ToSend, Volume, Counted
<1>6. UNCHANGED <<pc, first, Current>>
  BY DEF hostVars, Current, FirstBlock
<1>7. BlockInv'
  BY <1>2, <1>3, <1>6, StatusDistinct DEF CourseInv, BlockInv, BlockPending
<1> QED  BY <1>4, <1>5, <1>7

LEMMA RefuseBlockTransfer ==
  ASSUME TInv, CourseInv, RefuseBlock, UNCHANGED hostVars
  PROVE  CourseInv'
<1>1. PreparedInv' /\ CountInv' /\ BlockInv'
  BY TaskKeepsHostPart DEF RefuseBlock
<1>2. PendingInv'
  BY StatusDistinct DEF RefuseBlock, PendingInv, BlockPending
<1>3. ErasedInv'
  BY StatusDistinct DEF RefuseBlock, CourseInv, ErasedInv, Transferring, hostVars
<1>4. NoForeignBlock'
  BY DEF RefuseBlock, CourseInv, NoForeignBlock, FileBlock, hostVars
<1> QED  BY <1>1, <1>2, <1>3, <1>4 DEF CourseInv

LEMMA EraseSectorTransfer ==
  ASSUME TInv, CourseInv, EraseSector, UNCHANGED hostVars
  PROVE  CourseInv'
<1>1. status \in {CHECKING, ACCEPTED} /\ status' = ACCEPTED /\ BlockPending
      /\ UNCHANGED <<addr, idx, buf, crc>>
  BY DEF EraseSector, BlockPending
<1>2. PreparedInv' /\ CountInv' /\ BlockInv'
  BY <1>1, StatusDistinct, TaskKeepsHostPart
<1>3. PendingInv'
  BY <1>1 DEF CourseInv, PendingInv, BlockPending, FileBlock, hostVars
<1>4. CASE addr < ROM_SIZE
  <2>1. flash' = EraseSectorOf(flash, addr) /\ addr \in Blocks
    BY <1>4, TInvParts, GeometryAssumption DEF EraseSector, DeviceTypeOK, Blocks
  <2>2. \A b \in Blocks : SameSector(b, addr) => flash'[b] = Blank
    BY <2>1 DEF EraseSectorOf
  <2>3. ErasedInv'
    BY <1>1, <2>1, <2>2 DEF ErasedInv, SameSector
  <2>4. \A b \in Blocks : flash'[b] = Blank \/ flash'[b] = flash[b]
    BY <2>1 DEF EraseSectorOf
  <2>5. NoForeignBlock'
    BY <2>4 DEF CourseInv, NoForeignBlock, FileBlock, hostVars
  <2> QED  BY <1>2, <1>3, <2>3, <2>5 DEF CourseInv
<1>5. CASE ~(addr < ROM_SIZE)
  <2>1. UNCHANGED <<flash, erased>> /\ ~erased
    BY <1>5 DEF EraseSector
  <2>2. ErasedInv' /\ NoForeignBlock'
    BY <2>1 DEF CourseInv, ErasedInv, NoForeignBlock, FileBlock, hostVars
  <2> QED  BY <1>2, <1>3, <2>2 DEF CourseInv
<1> QED  BY <1>4, <1>5

LEMMA SameSectorReflexive == ASSUME NEW a \in Nat PROVE SameSector(a, a)
  BY DEF SameSector

(* A sector starts nowhere between an address and the one after it, or at   *)
(* the latter.                                                              *)
LEMMA SameSectorNext ==
  ASSUME NEW a \in Nat, a + 1 \notin SectorStarts, NEW b \in Blocks, SameSector(b, a + 1)
  PROVE  SameSector(b, a)
<1> SUFFICES ASSUME NEW s \in SectorStarts PROVE (s <= b) <=> (s <= a)
  BY DEF SameSector
<1>1. s \in Nat /\ s # a + 1
  BY GeometryAssumption DEF Blocks
<1>2. (s <= b) <=> (s <= a + 1)
  BY DEF SameSector
<1> QED  BY <1>1, <1>2

LEMMA ProgramBlockTransfer ==
  ASSUME TInv, CourseInv, ProgramBlock, UNCHANGED hostVars
  PROVE  CourseInv'
<1>1. status \in {CHECKING, ACCEPTED} /\ status' = READY /\ addr' = addr + 1 /\ erased
      /\ BlockPending /\ buf = FileBlock(addr) /\ UNCHANGED <<idx, buf, crc>>
  BY DEF ProgramBlock, BlockPending, CourseInv, PendingInv
<1>2. addr \in Blocks /\ \A b \in Blocks : b >= addr /\ SameSector(b, addr) => flash[b] = Blank
  BY <1>1 DEF CourseInv, ErasedInv, Transferring
<1>3. addr \in Nat /\ flash \in [Blocks -> Buffer]
  BY TInvParts DEF DeviceTypeOK
<1>4. flash' = [flash EXCEPT ![addr] = FileBlock(addr)]
  <2>1. flash[addr] = Blank
    BY <1>2, <1>3, SameSectorReflexive
  <2>2. flash' = [flash EXCEPT ![addr] = IF flash[addr] = Blank THEN buf ELSE Overprinted]
    BY DEF ProgramBlock
  <2> QED  BY <1>1, <2>1, <2>2
<1>5. PreparedInv' /\ CountInv' /\ BlockInv'
  BY <1>1, StatusDistinct, TaskKeepsHostPart
<1>6. PendingInv'
  BY <1>1, StatusDistinct DEF PendingInv, BlockPending
<1>7. ErasedInv'
  <2> SUFFICES ASSUME erased' PROVE addr' \in Blocks
                 /\ \A b \in Blocks : b >= addr' /\ SameSector(b, addr') => flash'[b] = Blank
    BY DEF ErasedInv, SameSector
  <2>1. addr + 1 \notin SectorStarts /\ addr + 1 < ROM_SIZE
    BY DEF ProgramBlock
  <2>2. addr' \in Blocks
    BY <1>1, <1>3, <2>1, GeometryAssumption DEF Blocks
  <2>3. ASSUME NEW b \in Blocks, b >= addr', SameSector(b, addr') PROVE flash'[b] = Blank
    <3>1. b \in Nat /\ b > addr /\ SameSector(b, addr)
      BY <1>1, <1>3, <2>1, <2>3, SameSectorNext, GeometryAssumption DEF Blocks
    <3>2. flash[b] = Blank
      BY <1>2, <1>3, <3>1
    <3> QED  BY <1>3, <1>4, <3>1, <3>2
  <2> QED  BY <2>2, <2>3
<1>8. NoForeignBlock'
  BY <1>2, <1>3, <1>4 DEF CourseInv, NoForeignBlock, FileBlock, hostVars
<1> QED  BY <1>5, <1>6, <1>7, <1>8 DEF CourseInv

LEMMA FinaliseTransfer ==
  ASSUME TInv, CourseInv, Finalise, UNCHANGED hostVars
  PROVE  CourseInv'
<1>1. status = FINALISE /\ status' = RECEIVING /\ UNCHANGED <<addr, erased, idx, buf, crc>>
  BY DEF Finalise
<1>2. \A b \in Blocks : flash'[b] = Blank \/ flash'[b] = flash[b]
  BY DEF Finalise
<1>3. PreparedInv' /\ CountInv' /\ BlockInv'
  BY <1>1, StatusDistinct, TaskKeepsHostPart
<1>4. PendingInv'
  BY <1>1, StatusDistinct DEF PendingInv, BlockPending
<1>5. ErasedInv'
  BY <1>1, <1>2, StatusDistinct
  DEF CourseInv, ErasedInv, Transferring, SameSector, hostVars
<1>6. NoForeignBlock'
  BY <1>2 DEF CourseInv, NoForeignBlock, FileBlock, hostVars
<1> QED  BY <1>3, <1>4, <1>5, <1>6 DEF CourseInv

LEMMA JumpTransfer ==
  ASSUME TInv, CourseInv, JumpToBootBlock, UNCHANGED hostVars
  PROVE  CourseInv'
<1>1. UNCHANGED <<flash, status, mask, addr, erased, idx, buf, crc, reboot>>
  BY DEF JumpToBootBlock
<1>2. PreparedInv' /\ CountInv'
  BY <1>1 DEF CourseInv, PreparedInv, CountInv, hostVars, ToSend, Volume, Counted
<1>3. BlockInv'
  BY <1>1 DEF CourseInv, BlockInv, hostVars, Current, FirstBlock, FileBlock
<1>4. PendingInv' /\ ErasedInv'
  BY <1>1 DEF CourseInv, PendingInv, BlockPending, ErasedInv, Transferring, FileBlock, hostVars
<1>5. NoForeignBlock'
  BY <1>1 DEF CourseInv, NoForeignBlock, FileBlock, hostVars
<1> QED  BY <1>2, <1>3, <1>4, <1>5 DEF CourseInv
-----------------------------------------------------------------------------
(* Steps of the host.                                                       *)

LEMMA StartTransfer == ASSUME TInv, CourseInv, Start PROVE CourseInv'
<1>1. /\ UNCHANGED deviceVars /\ UNCHANGED rom
      /\ pc' = "id" /\ temp' = 0 /\ ~first' /\ ~need'
  BY DEF Start
<1>2. PreparedInv' /\ CountInv' /\ BlockInv'
  BY <1>1 DEF PreparedInv, CountInv, BlockInv
<1>3. PendingInv' /\ NoForeignBlock'
  BY <1>1, DeviceUntouched DEF CourseInv
<1>4. ErasedInv'
  BY <1>1, ErasedUntouched DEF CourseInv, Transferring, deviceVars
<1> QED  BY <1>2, <1>3, <1>4 DEF CourseInv

LEMMA PrepareTransfer ==
  ASSUME TInv, CourseInv, UNCHANGED deviceVars, UNCHANGED rom,
         pc \in {"id", "ver", "base", "status"},
         pc' \in {"ver", "base", "status", "phase"},
         UNCHANGED <<temp, first, need>>,
         pc' = "phase" => remaining' = ToSend'
  PROVE  CourseInv'
<1>1. PreparedInv'
  BY DEF CourseInv, PreparedInv
<1>2. CountInv' /\ BlockInv'
  BY DEF CountInv, BlockInv
<1>3. PendingInv' /\ NoForeignBlock'
  BY DeviceUntouched DEF CourseInv
<1>4. ErasedInv'
  BY ErasedUntouched DEF CourseInv, Transferring, deviceVars
<1> QED  BY <1>1, <1>2, <1>3, <1>4 DEF CourseInv

LEMMA ReadTransfer ==
  ASSUME TInv, CourseInv,
         ReadId \/ ReadVer \/ ReadBase \/ ReadStatus \/ OpenFails
  PROVE  CourseInv'
<1>1. UNCHANGED deviceVars /\ UNCHANGED rom
  BY DEF ReadId, ReadVer, ReadBase, ReadStatus, OpenFails, Read
<1>2. CASE pc' = "off"
  BY <1>1, <1>2, HostStops
<1>3. CASE pc' # "off"
  <2>1. /\ pc \in {"id", "ver", "base", "status"}
        /\ pc' \in {"ver", "base", "status", "phase"}
        /\ UNCHANGED <<temp, first, need>>
    BY <1>3 DEF ReadId, ReadVer, ReadBase, ReadStatus, OpenFails, Read, GoTo, Leave
  <2>2. pc' = "phase" => ReadStatus
    BY <1>3 DEF ReadId, ReadVer, ReadBase, OpenFails, Read, GoTo, Leave
  <2>3. pc' = "phase" => remaining' = ToSend'
    <3> SUFFICES ASSUME pc' = "phase" PROVE remaining' = ToSend'
      OBVIOUS
    <3>1. remaining' = Volume(incl')
      BY <1>3, <2>2 DEF ReadStatus, Read, Leave
    <3> QED  BY <1>1, <3>1 DEF ToSend, Volume, Sub32
  <2> QED  BY <1>1, <2>1, <2>3, PrepareTransfer
<1> QED  BY <1>2, <1>3

LEMMA SendPhaseTransfer == ASSUME TInv, CourseInv, SendPhase PROVE CourseInv'
<1>1. UNCHANGED rom /\ pc = "phase"
  BY DEF SendPhase, Write
<1>2. CASE UNCHANGED deviceVars /\ Leave("error")
  BY <1>1, <1>2, HostStops DEF Leave
<1>3. CASE RecvPhase(IF incl THEN 2 ELSE 1, args.mask) /\ GoTo("offset")
  <2>1. status' = READY /\ UNCHANGED <<flash, idx, buf, crc, erased>>
    BY <1>3 DEF RecvPhase
  <2>2. pc' = "offset" /\ UNCHANGED <<incl, remaining, temp, first, need, i>>
    BY <1>3 DEF GoTo
  <2>3. PreparedInv'
    BY <1>1, <2>1, <2>2 DEF CourseInv, PreparedInv, ToSend, Volume
  <2>4. CountInv' /\ BlockInv'
    BY <2>2 DEF CountInv, BlockInv
  <2>5. PendingInv' /\ ErasedInv'
    BY <2>1, <2>2, StatusDistinct DEF PendingInv, BlockPending, ErasedInv, Transferring
  <2>6. NoForeignBlock'
    BY <1>1, <2>1 DEF CourseInv, NoForeignBlock, FileBlock
  <2> QED  BY <2>3, <2>4, <2>5, <2>6 DEF CourseInv
<1> QED  BY <1>2, <1>3 DEF SendPhase, Write

(* The offset of the first command is the first block of the phase, also    *)
(* when the subtraction of the base wrapped.                                *)
LEMMA FirstOffset ==
  ASSUME TInv, remaining = ToSend
  PROVE  Low16(Sub32(rom.size, remaining)) = FirstBlock
<1>1. rom.size \in 0..(WORD - 1) /\ BASE \in 1..(WORD - 1)
  BY TInvParts, ArgsType, HostAssumption, GeometryAssumption
<1>2. Sub32(rom.size, remaining) = FirstBlock
  BY <1>1, HostAssumption DEF ToSend, Volume, FirstBlock, Sub32
<1> QED  BY <1>2, Low16Small DEF FirstBlock

LEMMA SendOffsetTransfer == ASSUME TInv, CourseInv, SendOffset PROVE CourseInv'
<1>1. UNCHANGED rom /\ pc = "offset"
  BY DEF SendOffset, Write
<1>2. CASE UNCHANGED deviceVars /\ Leave("error")
  BY <1>1, <1>2, HostStops DEF Leave
<1>3. CASE /\ RecvOffset(Low16(Sub32(rom.size, remaining)))
           /\ GoTo(LoopHead(remaining, need))
  <2>1. temp = 0 /\ ~first /\ ~need /\ remaining = ToSend /\ status = READY
    BY <1>1 DEF CourseInv, PreparedInv
  <2>2. addr' = FirstBlock /\ ~erased' /\ idx' = 0 /\ UNCHANGED <<flash, status, buf, crc>>
    BY <1>3, <2>1, FirstOffset DEF RecvOffset
  <2>3. UNCHANGED <<incl, remaining, temp, first, need, i>>
        /\ pc' = IF remaining = 0 THEN "final" ELSE "poll"
    BY <1>3, <2>1 DEF GoTo, LoopHead
  <2>4. remaining \in Nat /\ FirstBlock \in Nat
    BY TInvParts, ArgsType, HostAssumption DEF HostTypeOK
  <2>5. PreparedInv'
    BY <2>3 DEF PreparedInv
  <2>6. CountInv'
    BY <1>1, <2>1, <2>3, <2>4 DEF CountInv, Counted, ToSend, Volume
  <2>7. BlockInv'
    BY <2>1, <2>2, <2>3, <2>4 DEF BlockInv, Current, FirstBlock
  <2>8. PendingInv' /\ ErasedInv'
    BY <2>1, <2>2, StatusDistinct DEF PendingInv, BlockPending, ErasedInv
  <2>9. NoForeignBlock'
    BY <1>1, <2>2 DEF CourseInv, NoForeignBlock, FileBlock
  <2> QED  BY <2>5, <2>6, <2>7, <2>8, <2>9 DEF CourseInv
<1> QED  BY <1>2, <1>3 DEF SendOffset, Write

LEMMA RejumpPhaseTransfer == ASSUME TInv, CourseInv, RejumpPhase PROVE CourseInv'
<1>1. UNCHANGED rom /\ pc = "rephase"
  BY DEF RejumpPhase, Write
<1>2. CASE UNCHANGED deviceVars /\ Leave("error")
  BY <1>1, <1>2, HostStops DEF Leave
<1>3. CASE /\ RecvPhase(1, args.mask)
           /\ need' = FALSE
           /\ pc' = "restatus"
           /\ UNCHANGED <<outcome, args, ram_id, incl, remaining, temp, first, i>>
  <2>1. status' = READY /\ UNCHANGED <<flash, idx, buf, crc, erased>>
    BY <1>3 DEF RecvPhase
  <2>2. PreparedInv' /\ BlockInv'
    BY <1>3 DEF PreparedInv, BlockInv
  <2>3. CountInv'
    BY <1>1, <1>3, <2>1 DEF CourseInv, CountInv, Counted, ToSend, Volume
  <2>4. PendingInv' /\ ErasedInv'
    BY <1>3, <2>1, StatusDistinct DEF PendingInv, BlockPending, ErasedInv, Transferring
  <2>5. NoForeignBlock'
    BY <1>1, <2>1 DEF CourseInv, NoForeignBlock, FileBlock
  <2> QED  BY <2>2, <2>3, <2>4, <2>5 DEF CourseInv
<1> QED  BY <1>2, <1>3 DEF RejumpPhase, Write

LEMMA RejumpStatusTransfer == ASSUME TInv, CourseInv, RejumpStatus PROVE CourseInv'
<1>1. UNCHANGED rom /\ UNCHANGED deviceVars /\ pc = "restatus"
  BY DEF RejumpStatus, Read
<1>2. CASE pc' \in {"off", "final"}
  BY <1>1, <1>2, HostStops
<1>3. CASE GoTo("reoffset")
  <2>1. pc' = "reoffset" /\ UNCHANGED <<incl, remaining, temp, first, need, status>>
    BY <1>1, <1>3 DEF GoTo, deviceVars
  <2>2. PreparedInv' /\ BlockInv'
    BY <2>1 DEF PreparedInv, BlockInv
  <2>3. CountInv'
    BY <1>1, <2>1 DEF CourseInv, CountInv, Counted, ToSend, Volume
  <2>4. PendingInv' /\ NoForeignBlock'
    BY <1>1, DeviceUntouched DEF CourseInv
  <2>5. ErasedInv'
    BY <1>1, <2>1, ErasedUntouched DEF CourseInv, Transferring
  <2> QED  BY <2>2, <2>3, <2>4, <2>5 DEF CourseInv
<1> QED  BY <1>2, <1>3 DEF RejumpStatus, Read, GoTo, Leave

LEMMA RejumpOffsetTransfer == ASSUME TInv, CourseInv, RejumpOffset PROVE CourseInv'
<1>1. UNCHANGED rom /\ pc = "reoffset"
  BY DEF RejumpOffset, Write
<1>2. CASE UNCHANGED deviceVars /\ Leave("error")
  BY <1>1, <1>2, HostStops DEF Leave
<1>3. CASE RecvOffset(Low16(BASE)) /\ GoTo("poll")
  <2>1. incl /\ first /\ ~need /\ temp = BASE - 1 /\ status = READY /\ remaining # 0
    BY <1>1 DEF CourseInv, CountInv
  <2>2. addr' = BASE /\ ~erased' /\ idx' = 0 /\ UNCHANGED <<flash, status, buf, crc>>
    BY <1>3, Low16Small DEF RecvOffset
  <2>3. pc' = "poll" /\ UNCHANGED <<incl, remaining, temp, first, need, i>>
    BY <1>3 DEF GoTo
  <2>4. PreparedInv'
    BY <2>3 DEF PreparedInv
  <2>5. CountInv'
    BY <1>1, <2>1, <2>3 DEF CourseInv, CountInv, Counted, ToSend, Volume
  <2>6. BlockInv'
    BY <2>1, <2>2, <2>3, GeometryAssumption DEF BlockInv, Current, FirstBlock
  <2>7. PendingInv' /\ ErasedInv'
    BY <2>1, <2>2, StatusDistinct DEF PendingInv, BlockPending, ErasedInv
  <2>8. NoForeignBlock'
    BY <1>1, <2>2 DEF CourseInv, NoForeignBlock, FileBlock
  <2> QED  BY <2>4, <2>5, <2>6, <2>7, <2>8 DEF CourseInv
<1> QED  BY <1>2, <1>3 DEF RejumpOffset, Write

(* An accepted block advances the count by one, and makes the rejump due    *)
(* only with the last block of the boot block.                              *)
LEMMA BlockDoneCounts ==
  ASSUME TInv, pc = "poll", remaining # 0, ~need,
         ToSend = remaining + Counted, BlockDone, UNCHANGED <<incl, rom>>
  PROVE  /\ first'
         /\ temp' = IF first THEN temp + 1 ELSE temp
         /\ remaining' = 0 \/ ToSend' = remaining' + Counted'
         /\ need' => incl' /\ first' /\ temp' = BASE - 1
<1>1. rom.size \in 0..(WORD - 1) /\ remaining \in 1..(WORD - 1) /\ temp \in Nat
  BY TInvParts, ArgsType, HostAssumption DEF HostTypeOK
<1>2. BASE \in 1..(WORD - 1) /\ WORD \in Nat
  BY HostAssumption, GeometryAssumption
<1>3. Sub32(remaining, 1) = remaining - 1
  BY <1>1 DEF Sub32
<1>4. first' /\ temp' = IF first THEN temp + 1 ELSE temp
  BY DEF BlockDone, NextTemp
<1>5. Counted' = Counted + 1 /\ Counted' = temp' + 1 /\ ToSend' = ToSend
  BY <1>1, <1>4 DEF Counted, ToSend, Volume, Sub32
<1>6. remaining' = 0 \/ remaining' = remaining - 1
  BY <1>3 DEF BlockDone
<1>7. remaining' = 0 \/ ToSend' = remaining' + Counted'
  BY <1>1, <1>4, <1>5, <1>6 DEF Counted
<1>8. ASSUME need' PROVE incl /\ temp' = BASE - 1
  <2>1. Sub32(rom.size, BASE) = remaining - 1
    BY <1>3, <1>8 DEF BlockDone
  <2>2. ToSend = remaining - 1 + temp' + 1 /\ temp' \in Nat
    BY <1>1, <1>4, <1>5 DEF Counted
  <2>3. incl
    BY <1>1, <2>1, <2>2 DEF ToSend, Volume
  <2>4. rom.size = remaining - 1 + temp' + 1
    BY <2>2, <2>3 DEF ToSend, Volume
  <2>5. rom.size >= BASE
    <3> SUFFICES ASSUME ~(rom.size >= BASE) PROVE FALSE
      OBVIOUS
    <3>1. Sub32(rom.size, BASE) = rom.size - BASE + WORD
      BY DEF Sub32
    <3>2. BASE < WORD
      BY <1>2
    <3> QED  BY <1>1, <1>2, <2>1, <2>2, <2>4, <3>1, <3>2
  <2>6. Sub32(rom.size, BASE) = rom.size - BASE
    BY <2>5 DEF Sub32
  <2> QED  BY <1>1, <1>2, <2>1, <2>2, <2>3, <2>4, <2>6
<1> QED  BY <1>4, <1>7, <1>8

LEMMA PollProgressTransfer == ASSUME TInv, CourseInv, PollProgress PROVE CourseInv'
<1>1. UNCHANGED rom /\ UNCHANGED deviceVars /\ pc = "poll"
  BY DEF PollProgress, Read, Done, ToResend
<1>2. CASE Leave("error") \/ Leave("killed")
  BY <1>1, <1>2, HostStops DEF Leave
<1>3. CASE GoTo("poll")
  <2>1. UNCHANGED <<pc, incl, remaining, temp, first, need, i>>
    BY <1>1, <1>3 DEF GoTo
  <2>2. PreparedInv' /\ CountInv'
    BY <1>1, <2>1 DEF CourseInv, PreparedInv, CountInv, Counted, ToSend, Volume, deviceVars
  <2>3. BlockInv'
    BY <1>1, <2>1 DEF CourseInv, BlockInv, Current, FirstBlock, deviceVars
  <2>4. PendingInv' /\ NoForeignBlock'
    BY <1>1, DeviceUntouched DEF CourseInv
  <2>5. ErasedInv'
    BY <1>1, <2>1, ErasedUntouched DEF CourseInv, Transferring, deviceVars
  <2> QED  BY <2>2, <2>3, <2>4, <2>5 DEF CourseInv
<1>4. CASE /\ pc' = "stream" /\ i' = 1
           /\ UNCHANGED incl
           /\ \/ status = READY /\ BlockDone
              \/ status \in {RECEIVING, BAD_CRC} /\ UNCHANGED <<remaining, temp, first, need>>
  <2>1. /\ remaining # 0 /\ ~need
        /\ ToSend = remaining + Counted
        /\ status \in {READY, BAD_CRC, RECEIVING, CHECKING, ACCEPTED}
        /\ ~first => status = READY
        /\ addr = IF status = READY /\ first THEN Current + 1 ELSE Current
    BY <1>1 DEF CourseInv, CountInv, BlockInv
  <2>2. temp \in Nat /\ FirstBlock \in Nat
    BY TInvParts, ArgsType DEF HostTypeOK
  <2>3. PreparedInv'
    BY <1>4 DEF PreparedInv
  <2>4. CountInv' /\ first'
    <3>1. CASE status = READY /\ BlockDone
      BY <1>1, <1>4, <2>1, <3>1, BlockDoneCounts DEF CountInv
    <3>2. CASE status \in {RECEIVING, BAD_CRC} /\ UNCHANGED <<remaining, temp, first, need>>
      BY <1>1, <1>4, <2>1, <3>2, StatusDistinct DEF CountInv, Counted, ToSend, Volume
    <3> QED  BY <1>4, <3>1, <3>2
  <2>5. addr' = Current'
    <3>1. CASE status = READY /\ BlockDone
      BY <1>1, <1>4, <2>1, <2>2, <3>1 DEF BlockDone, NextTemp, Current, FirstBlock, deviceVars
    <3>2. CASE status \in {RECEIVING, BAD_CRC} /\ UNCHANGED <<remaining, temp, first, need>>
      BY <1>1, <1>4, <2>1, <3>2, StatusDistinct DEF Current, FirstBlock, deviceVars
    <3> QED  BY <1>4, <3>1, <3>2
  <2>7. BlockInv'
    BY <1>1, <1>4, <2>1, <2>5, StatusDistinct DEF BlockInv, deviceVars
  <2>8. PendingInv' /\ NoForeignBlock'
    BY <1>1, DeviceUntouched DEF CourseInv
  <2>9. ErasedInv'
    BY <1>1, <1>4, ErasedUntouched DEF CourseInv, Transferring, deviceVars
  <2> QED  BY <2>3, <2>4, <2>7, <2>8, <2>9 DEF CourseInv
<1> QED  BY <1>2, <1>3, <1>4 DEF PollProgress, Read, Done, ToResend

(* The controller takes a frame of the block, whichever it takes it for.    *)
LEMMA FrameArrives ==
  ASSUME TInv, CourseInv, pc = "stream", UNCHANGED rom,
         NEW frame, RecvData(frame), ~Mixture(FileBlock(Current)),
         i' = i + 1,
         pc' = IF i = P THEN "crc" ELSE "stream",
         UNCHANGED <<incl, remaining, temp, first, need>>
  PROVE  CourseInv'
<1>1. /\ status' \in {RECEIVING, CHECKING}
      /\ status' = CHECKING => CrcOf(buf') # crc'
      /\ UNCHANGED <<flash, addr, erased>>
  BY TInvParts, StatusDistinct, GeometryAssumption DEF RecvData, Mixture, DeviceTypeOK
<1>2. addr' = Current'
  BY <1>1 DEF CourseInv, BlockInv, Current, FirstBlock
<1>3. PreparedInv' /\ CountInv'
  BY DEF CourseInv, PreparedInv, CountInv, Counted, ToSend, Volume
<1>4. BlockInv'
  BY <1>1, <1>2, StatusDistinct DEF BlockInv
<1>5. PendingInv'
  BY <1>1, StatusDistinct DEF PendingInv, BlockPending
<1>6. ErasedInv'
  BY <1>1 DEF CourseInv, ErasedInv, Transferring
<1>7. NoForeignBlock'
  BY <1>1 DEF CourseInv, NoForeignBlock, FileBlock
<1> QED  BY <1>3, <1>4, <1>5, <1>6, <1>7 DEF CourseInv

(* Or it takes none.                                                        *)
LEMMA FrameLost ==
  ASSUME TInv, CourseInv, pc = "stream", UNCHANGED rom, UNCHANGED deviceVars,
         i' = i + 1,
         pc' = IF i = P THEN "crc" ELSE "stream",
         UNCHANGED <<incl, remaining, temp, first, need>>
  PROVE  CourseInv'
<1>1. PreparedInv' /\ CountInv'
  BY DEF CourseInv, PreparedInv, CountInv, Counted, ToSend, Volume
<1>2. Current' = Current
  BY DEF Current, FirstBlock
<1>3. BlockInv'
  BY <1>2 DEF CourseInv, BlockInv, deviceVars
<1>4. PendingInv' /\ NoForeignBlock'
  BY DeviceUntouched DEF CourseInv
<1>5. ErasedInv'
  BY ErasedUntouched DEF CourseInv, Transferring
<1> QED  BY <1>1, <1>3, <1>4, <1>5 DEF CourseInv

LEMMA StreamDataTransfer ==
  ASSUME TInv, CourseInv, StreamData, ~Mixture(FileBlock(Current))
  PROVE  CourseInv'
<1> DEFINE go == /\ i' = i + 1
                 /\ pc' = IF i = P THEN "crc" ELSE "stream"
                 /\ UNCHANGED <<outcome, args, ram_id, incl, remaining, temp, first, need>>
<1>1. UNCHANGED rom /\ pc = "stream"
  BY DEF StreamData, SendFrame, Write
<1>2. CASE UNCHANGED deviceVars /\ Leave("error")
  BY <1>1, <1>2, HostStops DEF Leave
<1>3. CASE RecvData(FileBlock(Current)[i]) /\ go
  BY <1>1, <1>3, FrameArrives
<1>4. CASE (\E damaged \in Corrupted(FileBlock(Current)[i]) : RecvData(damaged)) /\ go
  BY <1>1, <1>4, FrameArrives
<1>5. CASE UNCHANGED deviceVars /\ go
  BY <1>1, <1>5, FrameLost
<1> QED  BY <1>2, <1>3, <1>4, <1>5 DEF StreamData, SendFrame, Write

(* With the sum, or with what there is of it, the program goes on.          *)
LEMMA SumSent ==
  ASSUME TInv, CourseInv, pc = "crc", UNCHANGED <<rom, flash, addr, erased>>,
         GoTo(LoopHead(remaining, need)), ~Unheard,
         status' \in {READY, BAD_CRC, RECEIVING, CHECKING},
         BlockPending' => buf' = FileBlock(Current)
  PROVE  CourseInv'
<1>1. /\ pc' = LoopHead(remaining, need) /\ pc' \in {"final", "rephase", "poll"}
      /\ UNCHANGED <<incl, remaining, temp, first, need, i>>
  BY DEF GoTo, LoopHead
<1>2. Current' = Current /\ FileBlock(Current)' = FileBlock(Current) /\ addr = Current /\ first
  BY <1>1 DEF Current, FirstBlock, FileBlock, CourseInv, BlockInv, CountInv
<1>3. PreparedInv'
  BY <1>1 DEF PreparedInv
<1>4. CountInv'
  BY <1>1 DEF CourseInv, CountInv, Counted, ToSend, Volume, LoopHead
<1>5. BlockInv'
  BY <1>1, <1>2, StatusDistinct DEF BlockInv, Unheard
<1>6. PendingInv'
  BY <1>2 DEF PendingInv
<1>7. ErasedInv'
  BY DEF CourseInv, ErasedInv, Transferring
<1>8. NoForeignBlock'
  BY DEF CourseInv, NoForeignBlock, FileBlock
<1> QED  BY <1>3, <1>4, <1>5, <1>6, <1>7, <1>8 DEF CourseInv

LEMMA SumArrives ==
  ASSUME TInv, CourseInv, pc = "crc", UNCHANGED rom,
         NEW frame, RecvData(frame), ~Mixture(FileBlock(Current)), ~Unheard,
         GoTo(LoopHead(remaining, need))
  PROVE  CourseInv'
<1>1. status' \in {RECEIVING, CHECKING} /\ UNCHANGED <<flash, addr, erased>>
  BY DEF RecvData
<1>2. BlockPending' => buf' = FileBlock(Current)
  BY TInvParts, StatusDistinct, GeometryAssumption DEF RecvData, Mixture, BlockPending, DeviceTypeOK
<1> QED  BY <1>1, <1>2, SumSent

LEMMA SumLost ==
  ASSUME TInv, CourseInv, pc = "crc", UNCHANGED rom, UNCHANGED deviceVars, ~Unheard,
         GoTo(LoopHead(remaining, need))
  PROVE  CourseInv'
<1>1. UNCHANGED <<flash, addr, erased, status, buf, crc>>
  BY DEF deviceVars
<1>2. status \in {READY, BAD_CRC, RECEIVING, CHECKING} /\ ~BlockPending'
  BY <1>1, StatusDistinct DEF CourseInv, BlockInv, BlockPending
<1> QED  BY <1>1, <1>2, SumSent

LEMMA SendCrcTransfer ==
  ASSUME TInv, CourseInv, SendCrc, ~Mixture(FileBlock(Current)), ~Unheard
  PROVE  CourseInv'
<1>1. UNCHANGED rom /\ pc = "crc"
  BY DEF SendCrc, SendFrame, Write
<1> DEFINE frame == <<CrcOf(FileBlock(Current)), temp % 256>>
<1> HIDE DEF frame
<1>2. CASE UNCHANGED deviceVars /\ Leave("error")
  BY <1>1, <1>2, HostStops DEF Leave
<1>3. CASE RecvData(frame) /\ GoTo(LoopHead(remaining, need))
  BY <1>1, <1>3, SumArrives
<1>4. CASE /\ \E damaged \in Corrupted(frame) : RecvData(damaged)
           /\ GoTo(LoopHead(remaining, need))
  BY <1>1, <1>4, SumArrives
<1>5. CASE UNCHANGED deviceVars /\ GoTo(LoopHead(remaining, need))
  BY <1>1, <1>5, SumLost
<1> QED  BY <1>2, <1>3, <1>4, <1>5 DEF SendCrc, SendFrame, Write, frame

LEMMA SendFinaliseTransfer == ASSUME TInv, CourseInv, SendFinalise PROVE CourseInv'
<1>1. UNCHANGED rom
  BY DEF SendFinalise, Write
<1>2. CASE UNCHANGED deviceVars /\ Leave("error")
  BY <1>1, <1>2, HostStops DEF Leave
<1>3. CASE RecvPhase(4, 0) /\ GoTo("finish")
  <2>1. status' = FINALISE /\ pc' = "finish" /\ UNCHANGED flash
    BY <1>3 DEF RecvPhase, GoTo
  <2>2. PreparedInv' /\ CountInv' /\ BlockInv'
    BY <2>1 DEF PreparedInv, CountInv, BlockInv
  <2>3. PendingInv' /\ ErasedInv'
    BY <2>1, StatusDistinct DEF PendingInv, BlockPending, ErasedInv, Transferring
  <2>4. NoForeignBlock'
    BY <1>1, <2>1 DEF CourseInv, NoForeignBlock, FileBlock
  <2> QED  BY <2>2, <2>3, <2>4 DEF CourseInv
<1> QED  BY <1>2, <1>3 DEF SendFinalise, Write

LEMMA SendFinishTransfer == ASSUME TInv, CourseInv, SendFinish PROVE CourseInv'
<1>1. UNCHANGED rom /\ pc' = "off"
  BY DEF SendFinish, Write, Leave
<1>2. UNCHANGED <<flash, status, addr, erased, idx, buf, crc>>
  BY DEF SendFinish, Write, RecvFinish, deviceVars
<1>3. PreparedInv' /\ CountInv' /\ BlockInv'
  BY <1>1 DEF PreparedInv, CountInv, BlockInv
<1>4. PendingInv' /\ ErasedInv'
  BY <1>1, <1>2
  DEF CourseInv, PendingInv, BlockPending, ErasedInv, Transferring, FileBlock
<1>5. NoForeignBlock'
  BY <1>1, <1>2 DEF CourseInv, NoForeignBlock, FileBlock
<1> QED  BY <1>3, <1>4, <1>5 DEF CourseInv
-----------------------------------------------------------------------------
LEMMA CourseSame == ASSUME TInv, CourseInv, UNCHANGED vars PROVE CourseInv'
<1>1. UNCHANGED hostVars /\ UNCHANGED deviceVars
  BY DEF vars
<1>2. PreparedInv' /\ CountInv'
  BY <1>1 DEF CourseInv, PreparedInv, CountInv, hostVars, deviceVars, ToSend, Volume, Counted
<1>3. BlockInv'
  BY <1>1 DEF CourseInv, BlockInv, hostVars, deviceVars, Current, FirstBlock,
              FileBlock
<1>4. PendingInv' /\ NoForeignBlock'
  BY <1>1, DeviceUntouched DEF CourseInv, hostVars
<1>5. ErasedInv'
  BY <1>1, ErasedUntouched DEF CourseInv, Transferring, hostVars, deviceVars
<1> QED  BY <1>2, <1>3, <1>4, <1>5 DEF CourseInv

LEMMA CourseInvStep ==
  ASSUME TInv, CourseInv, [Next]_vars, ~Mixture(FileBlock(Current)), ~Unheard
  PROVE  CourseInv'
<1>1. CASE Host
  BY <1>1, StartTransfer, ReadTransfer, SendPhaseTransfer, SendOffsetTransfer,
     RejumpPhaseTransfer, RejumpStatusTransfer, RejumpOffsetTransfer,
     PollProgressTransfer, StreamDataTransfer, SendCrcTransfer,
     SendFinaliseTransfer, SendFinishTransfer
  DEF Host
<1>2. CASE (DeviceTask \/ JumpToBootBlock) /\ UNCHANGED hostVars
  BY <1>2, RefuseBlockTransfer, EraseSectorTransfer, ProgramBlockTransfer,
     FinaliseTransfer, JumpTransfer DEF DeviceTask
<1>3. CASE Reset \/ PowerLoss
  BY <1>3, PowerOnTransfer DEF Reset, PowerLoss
<1>4. CASE Kill
  BY <1>4, HostStops DEF Kill, HostDies
<1>5. CASE UNCHANGED vars
  BY <1>5, CourseSame
<1> QED  BY <1>1, <1>2, <1>3, <1>4, <1>5 DEF Next, Device

LEMMA BuffersEqual ==
  ASSUME NEW a \in Buffer, NEW b \in Buffer, \A k \in 1..P : a[k] = b[k]
  PROVE  a = b
<1>1. a = [k \in 1..P |-> a[k]] /\ b = [k \in 1..P |-> b[k]]
  BY DEF Buffer
<1>2. [k \in 1..P |-> a[k]] = [k \in 1..P |-> b[k]]
  OBVIOUS
<1> QED  BY <1>1, <1>2

(* A buffer with at most one damaged frame whose sum is the block's is the  *)
(* block.                                                                   *)
LEMMA SumDecides ==
  ASSUME TInv, NearPrefix, i = P + 1, CrcOf(buf) = CrcOf(FileBlock(Current))
  PROVE  buf = FileBlock(Current)
<1> DEFINE block == FileBlock(Current)
<1>0. block \in Buffer /\ buf \in Buffer
  BY TInvParts, ArgsType, FileBlockIsBuffer DEF HostTypeOK, DeviceTypeOK
<1>1. block \in [1..P -> Frame] /\ buf \in [1..P -> Frame]
  BY <1>0 DEF Buffer
<1>2. \A j \in 1..P : \A damaged \in Corrupted(block[j]) \ {block[j]} :
        CrcOf([block EXCEPT ![j] = damaged]) # CrcOf(block)
  BY TInvParts, ArgsType, FileBlockSum DEF HostTypeOK
<1>3. P \in Nat /\ 1..(i - 1) = 1..P
  BY GeometryAssumption
<1> HIDE DEF block
<1>4. PICK j \in 1..P : \A k \in 1..P :
        buf[k] = block[k] \/ (k = j /\ buf[k] \in Corrupted(block[k]))
  BY <1>3 DEF NearPrefix, block
<1>5. CASE buf[j] = block[j]
  <2>1. \A k \in 1..P : buf[k] = block[k]
    BY <1>4, <1>5
  <2>2. buf = block
    BY <1>0, <2>1, BuffersEqual
  <2> QED  BY <2>2 DEF block
<1>6. CASE buf[j] # block[j]
  <2>1. buf[j] \in Corrupted(block[j]) \ {block[j]}
    BY <1>4, <1>6
  <2>2. buf = [block EXCEPT ![j] = buf[j]]
    BY <1>1, <1>4
  <2>3. CrcOf([block EXCEPT ![j] = buf[j]]) # CrcOf(block)
    BY <1>2, <1>4, <2>1
  <2> QED  BY <2>2, <2>3 DEF block
<1> QED  BY <1>5, <1>6

(* A data frame arrives as sent, or as the one damaged frame of its block.  *)
LEMMA PrefixGrows ==
  ASSUME TInv, NearPrefix, i \in 1..P, UNCHANGED rom, UNCHANGED <<incl, temp>>,
         NEW frame,
         \/ frame = FileBlock(Current)[i]
         \/ /\ frame \in Corrupted(FileBlock(Current)[i])
            /\ \A j \in 1..(i - 1) : buf[j] = FileBlock(Current)[j],
         buf' = [buf EXCEPT ![i] = frame],
         i' = i + 1
  PROVE  NearPrefix'
<1>1. Current' = Current /\ FileBlock(Current)' = FileBlock(Current)
  BY DEF Current, FirstBlock, FileBlock
<1>2. buf \in [1..P -> Frame] /\ P \in Nat
  BY TInvParts, GeometryAssumption DEF DeviceTypeOK, Buffer
<1>3. \E j \in 1..P : \A k \in 1..i :
        \/ buf'[k] = FileBlock(Current)[k]
        \/ k = j /\ buf'[k] \in Corrupted(FileBlock(Current)[k])
  <2>1. CASE frame = FileBlock(Current)[i]
    <3>1. PICK j \in 1..P : \A k \in 1..(i - 1) :
            \/ buf[k] = FileBlock(Current)[k]
            \/ k = j /\ buf[k] \in Corrupted(FileBlock(Current)[k])
      BY DEF NearPrefix
    <3>2. \A k \in 1..i : \/ buf'[k] = FileBlock(Current)[k]
                          \/ k = j /\ buf'[k] \in Corrupted(FileBlock(Current)[k])
      BY <1>2, <2>1, <3>1
    <3> QED  BY <3>2
  <2>2. CASE /\ frame \in Corrupted(FileBlock(Current)[i])
             /\ \A j \in 1..(i - 1) : buf[j] = FileBlock(Current)[j]
    <3>1. \A k \in 1..i : \/ buf'[k] = FileBlock(Current)[k]
                          \/ k = i /\ buf'[k] \in Corrupted(FileBlock(Current)[k])
      BY <1>2, <2>2
    <3> QED  BY <3>1
  <2> QED  BY <2>1, <2>2
<1>4. 1..(i' - 1) = 1..i
  BY <1>2
<1> QED  BY <1>1, <1>3, <1>4 DEF NearPrefix

LEMMA PollFrame ==
  ASSUME TransferInv, PollProgress
  PROVE  FrameInv'
<1>1. /\ pc = "poll" /\ pc' \in {"off", "poll", "stream"}
      /\ pc' = "stream" => i' = 1
      /\ UNCHANGED deviceVars
  BY DEF PollProgress, Read, GoTo, Leave
<1>2. pc' = "stream" => status \in {READY, BAD_CRC}
  BY <1>1, StatusDistinct DEF TransferInv, FrameInv, PollProgress, Read, Done, ToResend, GoTo, Leave
<1>3. pc' = "stream" => NearPrefix'
  <2>1. 1 \in 1..P /\ 1..(1 - 1) = {}
    BY GeometryAssumption
  <2> QED  BY <1>1, <2>1 DEF NearPrefix
<1> QED  BY <1>1, <1>2, <1>3, StatusDistinct DEF TransferInv, FrameInv, deviceVars

LEMMA StreamFrame ==
  ASSUME NothingLost, TInv, TransferInv, StreamData
  PROVE  FrameInv' /\ ~Mixture(FileBlock(Current)) /\ ~Unheard
<1>1. /\ pc = "stream" /\ idx = i - 1 /\ i \in 1..P /\ P \in Nat /\ NearPrefix
      /\ UNCHANGED rom
  BY TInvParts, GeometryAssumption
  DEF StreamData, SendFrame, Write, TransferInv, FrameInv, HostTypeOK
<1>2. ~Mixture(FileBlock(Current)) /\ ~Unheard
  BY <1>1 DEF Mixture, Unheard
<1>3. ~Fault("lost")
  BY DEF NothingLost, Fault
<1>4. CASE Leave("error")
  BY <1>2, <1>4 DEF Leave, FrameInv
<1>5. ASSUME NEW frame, RecvData(frame),
             \/ frame = FileBlock(Current)[i]
             \/ /\ frame \in Corrupted(FileBlock(Current)[i])
                /\ \A j \in 1..(i - 1) : buf[j] = FileBlock(Current)[j],
             i' = i + 1,
             pc' = IF i = P THEN "crc" ELSE "stream",
             UNCHANGED <<incl, temp>>
      PROVE  FrameInv'
  <2>1. buf' = [buf EXCEPT ![i] = frame] /\ idx' = i /\ status' = RECEIVING
    BY <1>1, <1>5 DEF RecvData
  <2>2. NearPrefix'
    BY <1>1, <1>5, <2>1, PrefixGrows
  <2> QED  BY <1>1, <1>5, <2>1, <2>2, StatusDistinct DEF FrameInv
<1>6. CASE ~Leave("error")
  BY <1>2, <1>3, <1>5, <1>6 DEF StreamData, SendFrame, Write
<1> QED  BY <1>2, <1>4, <1>6

LEMMA SumOfFrames ==
  ASSUME NothingLost, TInv, TransferInv, SendCrc
  PROVE  FrameInv' /\ ~Mixture(FileBlock(Current)) /\ ~Unheard
<1>1. pc = "crc" /\ status = RECEIVING /\ idx = P /\ i = P + 1 /\ NearPrefix
  BY DEF SendCrc, TransferInv, FrameInv
<1>2. ~Fault("lost")
  BY DEF NothingLost, Fault
<1>3. CASE UNCHANGED deviceVars /\ Leave("error")
  BY <1>1, <1>3, StatusDistinct DEF Leave, FrameInv, Mixture, Unheard, deviceVars
<1>4. ASSUME NEW frame, RecvData(frame), GoTo(LoopHead(remaining, need)),
             \/ frame[1] = CrcOf(FileBlock(Current))
             \/ \A j \in 1..(i - 1) : buf[j] = FileBlock(Current)[j]
      PROVE  FrameInv' /\ ~Mixture(FileBlock(Current)) /\ ~Unheard
  <2>1. crc' = frame[1] /\ idx' = 0 /\ status' = CHECKING /\ UNCHANGED buf
    BY <1>1, <1>4, GeometryAssumption DEF RecvData
  <2>2. pc' \in {"final", "rephase", "poll"}
    BY <1>4 DEF GoTo, LoopHead
  <2>3. CrcOf(buf) = crc' => buf = FileBlock(Current)
    <3>1. CASE frame[1] = CrcOf(FileBlock(Current))
      BY <1>1, <2>1, <3>1, SumDecides
    <3>2. CASE \A j \in 1..(i - 1) : buf[j] = FileBlock(Current)[j]
      <4>1. FileBlock(Current) \in Buffer /\ buf \in Buffer
        BY TInvParts, ArgsType, FileBlockIsBuffer DEF HostTypeOK, DeviceTypeOK
      <4>2. 1..(i - 1) = 1..P
        BY <1>1, GeometryAssumption
      <4> QED  BY <3>2, <4>1, <4>2, BuffersEqual
    <3> QED  BY <1>4, <3>1, <3>2
  <2>4. FrameInv'
    BY <2>1, <2>2, StatusDistinct DEF FrameInv
  <2>5. ~Mixture(FileBlock(Current)) /\ ~Unheard
    BY <1>1, <2>1, <2>3, StatusDistinct DEF Mixture, Unheard
  <2> QED  BY <2>4, <2>5
<1> DEFINE frame == <<CrcOf(FileBlock(Current)), temp % 256>>
<1>5. frame[1] = CrcOf(FileBlock(Current))
  OBVIOUS
<1> HIDE DEF frame
<1>6. CASE RecvData(frame) /\ GoTo(LoopHead(remaining, need))
  BY <1>4, <1>5, <1>6
<1>7. CASE /\ \A j \in 1..(i - 1) : buf[j] = FileBlock(Current)[j]
           /\ \E damaged \in Corrupted(frame) : RecvData(damaged)
           /\ GoTo(LoopHead(remaining, need))
  BY <1>4, <1>7
<1> QED  BY <1>2, <1>3, <1>6, <1>7 DEF SendCrc, SendFrame, Write, frame

(* No other step has to do with frames.                                     *)
LEMMA OtherFrame ==
  ASSUME TInv, TransferInv, [Next]_vars, ~StreamData, ~SendCrc
  PROVE  FrameInv' /\ ~Mixture(FileBlock(Current)) /\ ~Unheard
<1>1. P # 0
  BY GeometryAssumption
<1>2. CASE PollProgress
  <2>1. UNCHANGED <<idx, status, buf>> /\ pc = "poll"
    BY <1>2 DEF PollProgress, Read, deviceVars
  <2> QED  BY <1>1, <1>2, <2>1, PollFrame DEF Mixture, Unheard
<1>3. CASE SendOffset \/ RejumpOffset
  <2>1. /\ pc \in {"offset", "reoffset"} /\ status = READY /\ UNCHANGED status
        /\ pc' \in {"off", "final", "rephase", "poll"}
        /\ pc' # "off" => idx' = 0
    BY <1>3 DEF SendOffset, RejumpOffset, Write, RecvOffset, Leave, GoTo, LoopHead, TransferInv,
                CourseInv, PreparedInv, CountInv, deviceVars
  <2> QED  BY <2>1, StatusDistinct DEF FrameInv, Mixture, Unheard
<1>4. CASE \/ Start \/ OpenFails \/ ReadId \/ ReadVer \/ ReadBase \/ ReadStatus
           \/ SendPhase \/ RejumpPhase \/ RejumpStatus \/ SendFinalise \/ SendFinish
  <2>1. UNCHANGED idx
    BY <1>4 DEF Start, OpenFails, ReadId, ReadVer, ReadBase, ReadStatus, SendPhase, RejumpPhase,
                RejumpStatus, SendFinalise, SendFinish, Read, Write, RecvPhase, RecvFinish, deviceVars
  <2>2. pc # "crc" /\ pc' \notin {"poll", "stream", "crc"}
    BY <1>4 DEF Start, OpenFails, ReadId, ReadVer, ReadBase, ReadStatus, SendPhase, RejumpPhase,
                RejumpStatus, SendFinalise, SendFinish, Read, Write, Leave, GoTo
  <2> QED  BY <1>1, <2>1, <2>2 DEF FrameInv, Mixture, Unheard
<1>5. CASE Reset \/ PowerLoss
  <2>1. pc' = "off" /\ status' = RECEIVING
    BY <1>5 DEF Reset, PowerLoss, PowerOn, HostDies
  <2> QED  BY <2>1, StatusDistinct DEF FrameInv, Mixture, Unheard
<1>6. CASE Kill
  <2>1. pc' = "off" /\ UNCHANGED idx
    BY <1>6 DEF Kill, HostDies, deviceVars
  <2> QED  BY <1>1, <2>1 DEF FrameInv, Mixture, Unheard
<1>7. CASE DeviceTask /\ UNCHANGED hostVars
  <2>1. /\ UNCHANGED <<pc, idx, buf>> /\ status \in {CHECKING, ACCEPTED, FINALISE}
        /\ status' \in {BAD_CRC, ACCEPTED, READY, RECEIVING}
        /\ status' = RECEIVING => status = FINALISE
    BY <1>7, StatusDistinct
    DEF DeviceTask, RefuseBlock, EraseSector, ProgramBlock, Finalise, BlockPending, hostVars
  <2>2. pc \notin {"stream", "crc"} /\ (pc = "poll" => status # FINALISE)
    BY <2>1, StatusDistinct DEF TransferInv, CourseInv, BlockInv, FrameInv
  <2> QED  BY <1>1, <2>1, <2>2, StatusDistinct DEF TransferInv, FrameInv, Mixture, Unheard
<1>8. CASE (JumpToBootBlock /\ UNCHANGED hostVars) \/ UNCHANGED vars
  <2>1. UNCHANGED <<idx, status, buf>> /\ UNCHANGED hostVars
    BY <1>8 DEF JumpToBootBlock, vars, deviceVars
  <2>2. FrameInv'
    BY <2>1 DEF TransferInv, FrameInv, NearPrefix, hostVars, Current, FirstBlock, FileBlock
  <2> QED  BY <1>1, <2>1, <2>2 DEF Mixture, Unheard, hostVars
<1> QED  BY <1>2, <1>3, <1>4, <1>5, <1>6, <1>7, <1>8 DEF Next, Host, Device

LEMMA FrameInvStep ==
  ASSUME NothingLost, TInv, TransferInv, [Next]_vars
  PROVE  FrameInv' /\ ~Mixture(FileBlock(Current)) /\ ~Unheard
<1>1. CASE StreamData
  BY <1>1, StreamFrame
<1>2. CASE SendCrc
  BY <1>2, SumOfFrames
<1>3. CASE ~StreamData /\ ~SendCrc
  BY <1>3, OtherFrame
<1> QED  BY <1>1, <1>2, <1>3

LEMMA TransferInvInit == Init => TransferInv
  BY CourseInvInit DEF TransferInv, FrameInv, Init

LEMMA TransferInvStep ==
  ASSUME NothingLost, TInv, TransferInv, [Next]_vars
  PROVE  TransferInv'
  BY CourseInvStep, FrameInvStep DEF TransferInv

(* However the process and the controller are scheduled, whichever calls    *)
(* fail, whoever dies, however frames are damaged one to a block, and       *)
(* however often the program is run again with whatever options: no block   *)
(* of the chip ever holds anything but what it held, nothing, or the file's *)
(* block for that address.                                                  *)
THEOREM BlocksInPlace ==
  ASSUME NothingLost
  PROVE  Spec => []NoForeignBlock
<1> DEFINE IInv == TInv /\ TransferInv
<1>1. Init => IInv
  BY TInvInit, TransferInvInit
<1>2. IInv /\ [Next]_vars => IInv'
  BY NothingLost, TInvStep, TransferInvStep
<1>3. IInv => NoForeignBlock
  BY DEF TransferInv, CourseInv
<1> QED  BY <1>1, <1>2, <1>3, PTL DEF Spec
-----------------------------------------------------------------------------
(* The same for every mix of faults, lost frames and failing calls among    *)
(* them: what NoForeignBlock forbids comes about only when the sum of a     *)
(* mixture happened to match, or the READY of the block before was taken    *)
(* for the answer to one of which no frame arrived.                         *)
THEOREM ForeignNeedsMisled == MisledSpec => []ForeignOnlyMisled
<1> DEFINE IInv == TInv /\ (misled \/ CourseInv)
<1>1. MisledInit => IInv
  BY TInvInit, CourseInvInit DEF MisledInit
<1>2. IInv /\ [Next /\ Remembered(FileBlock(Current))]_misledVars => IInv'
  <2> SUFFICES ASSUME IInv, [Next /\ Remembered(FileBlock(Current))]_misledVars PROVE IInv'
    OBVIOUS
  <2>1. [Next]_vars
    BY DEF misledVars
  <2>2. misled' \/ (~misled /\ ~Mixture(FileBlock(Current)) /\ ~Unheard) \/ UNCHANGED misledVars
    BY DEF Remembered
  <2>3. CASE UNCHANGED misledVars
    <3>1. UNCHANGED vars /\ UNCHANGED misled
      BY <2>3 DEF misledVars
    <3> QED  BY <2>1, <3>1, TInvStep, CourseSame
  <2> QED  BY <2>1, <2>2, <2>3, TInvStep, CourseInvStep
<1>3. IInv => ForeignOnlyMisled
  BY DEF CourseInv, ForeignOnlyMisled
<1> QED  BY <1>1, <1>2, <1>3, PTL DEF MisledSpec
-----------------------------------------------------------------------------
LEMMA OnlyTaskWrites ==
  ASSUME [Next]_vars, ~(DeviceTask /\ UNCHANGED hostVars)
  PROVE  UNCHANGED flash
<1>1. CASE Host
  <2>1. CASE \/ Start \/ OpenFails \/ ReadId \/ ReadVer \/ ReadBase \/ ReadStatus
             \/ RejumpStatus \/ PollProgress
    BY <2>1 DEF Start, OpenFails, ReadId, ReadVer, ReadBase, ReadStatus, RejumpStatus,
                PollProgress, Read, deviceVars
  <2>2. CASE SendPhase \/ RejumpPhase \/ SendFinalise
    BY <2>2 DEF SendPhase, RejumpPhase, SendFinalise, Write, RecvPhase, deviceVars
  <2>3. CASE SendOffset \/ RejumpOffset
    BY <2>3 DEF SendOffset, RejumpOffset, Write, RecvOffset, deviceVars
  <2>4. CASE StreamData \/ SendCrc
    BY <2>4 DEF StreamData, SendCrc, SendFrame, Write, RecvData, deviceVars
  <2>5. CASE SendFinish
    BY <2>5 DEF SendFinish, Write, RecvFinish, deviceVars
  <2> QED  BY <1>1, <2>1, <2>2, <2>3, <2>4, <2>5 DEF Host
<1>2. CASE Device
  BY <1>2 DEF Device, JumpToBootBlock, Reset, PowerOn
<1>3. CASE Kill \/ PowerLoss
  BY <1>3 DEF Kill, PowerLoss, PowerOn, deviceVars
<1>4. CASE UNCHANGED vars
  BY <1>4 DEF vars, deviceVars
<1> QED  BY <1>1, <1>2, <1>3, <1>4 DEF Next

(* Host and controller agree, count and frame, in every state of every run  *)
(* without a lost data frame: the invariant BlocksInPlace rests on, itself. *)
THEOREM Agreement ==
  ASSUME NothingLost
  PROVE  Spec => []TransferInv
<1> DEFINE IInv == TInv /\ TransferInv
<1>1. Init => IInv
  BY TInvInit, TransferInvInit
<1>2. IInv /\ [Next]_vars => IInv'
  BY NothingLost, TInvStep, TransferInvStep
<1> QED  BY <1>1, <1>2, PTL DEF Spec
-----------------------------------------------------------------------------
(* What the program may claim when it finishes, for files of the size of   *)
(* the chip: every block it asked about is in place.                       *)

(* The size guard was passed: the file is as long as the chip.              *)
Proper == rom.size = ROM_SIZE

ProperFiles == \A r \in Roms : r.size = ROM_SIZE

LEMMA Sizes ==
  ASSUME TInv, Proper
  PROVE  /\ rom.size = ROM_SIZE
         /\ P \in Nat \ {0} /\ BASE \in Nat \ {0} /\ MARKER \in Nat /\ ROM_SIZE \in Nat
         /\ BASE < MARKER /\ MARKER < ROM_SIZE /\ TAIL \in Nat /\ MARKER + TAIL = ROM_SIZE
         /\ ToSend = IF incl THEN ROM_SIZE ELSE ROM_SIZE - BASE
         /\ {BASE, MARKER, 0, EEPROM1, EEPROM2} \subseteq SectorStarts
         /\ MARKER < EEPROM1 /\ EEPROM1 \in Nat /\ EEPROM1 < EEPROM2 /\ EEPROM2 \in Nat
         /\ addr \in Nat /\ temp \in Nat /\ remaining \in Nat /\ incl \in BOOLEAN
         /\ flash \in [Blocks -> Buffer]
<1>1. rom.size = ROM_SIZE
  BY DEF Proper
<1>2. /\ P \in Nat \ {0} /\ BASE \in Nat \ {0} /\ MARKER \in Nat /\ ROM_SIZE \in Nat
      /\ BASE < MARKER /\ MARKER < ROM_SIZE
      /\ {BASE, MARKER, 0, EEPROM1, EEPROM2} \subseteq SectorStarts
      /\ MARKER < EEPROM1 /\ EEPROM1 \in Nat /\ EEPROM1 < EEPROM2 /\ EEPROM2 \in Nat
  BY GeometryAssumption
<1>3. TAIL \in Nat /\ MARKER + TAIL = ROM_SIZE /\ WORD \in Nat /\ ROM_SIZE < WORD
  BY <1>2, HostAssumption
<1>4. /\ addr \in Nat /\ temp \in Nat /\ remaining \in Nat /\ incl \in BOOLEAN
      /\ flash \in [Blocks -> Buffer]
  BY TInvParts DEF HostTypeOK, DeviceTypeOK
<1>5. ToSend = IF incl THEN ROM_SIZE ELSE ROM_SIZE - BASE
  BY <1>1, <1>2, <1>3, <1>4 DEF ToSend, Volume, Sub32
<1> QED  BY <1>1, <1>2, <1>3, <1>4, <1>5

(* PlacedInv is about the transfer only.                                    *)
LEMMA NothingToPlace ==
  ASSUME pc' \notin {"poll", "stream", "crc", "rephase", "restatus", "reoffset",
                     "final", "finish"}
  PROVE  PlacedInv'
  BY DEF PlacedInv, Writing

LEMMA PlacedQuiet ==
  ASSUME PlacedInv, UNCHANGED <<flash, addr, erased, status, rom, incl, remaining, pc>>
  PROVE  PlacedInv'
  BY DEF PlacedInv, Writing, Placed, FirstBlock, FileBlock
-----------------------------------------------------------------------------
(* Steps of the controller.  A block is programmed at the controller's      *)
(* address and its sector erased from there on, so that nothing below the   *)
(* address changes.                                                         *)
LEMMA BelowKept ==
  ASSUME TInv, EraseSector \/ ProgramBlock, erased \/ addr \in SectorStarts \/ addr >= ROM_SIZE,
         NEW b \in Blocks, b < addr
  PROVE  flash'[b] = flash[b]
<1>1. addr \in Nat /\ b \in Nat /\ flash \in [Blocks -> Buffer] /\ ROM_SIZE \in Nat
  BY TInvParts, GeometryAssumption DEF DeviceTypeOK, Blocks
<1>2. CASE EraseSector
  <2>1. CASE addr < ROM_SIZE
    <3>1. ~SameSector(b, addr)
      BY <1>1, <1>2, <2>1 DEF EraseSector, SameSector
    <3> QED  BY <1>2, <2>1, <3>1 DEF EraseSector, EraseSectorOf
  <2>2. CASE ~(addr < ROM_SIZE)
    BY <1>2, <2>2 DEF EraseSector
  <2> QED  BY <2>1, <2>2
<1>3. CASE ProgramBlock
  BY <1>1, <1>3 DEF ProgramBlock
<1> QED  BY <1>2, <1>3

LEMMA EraseSectorPlaced ==
  ASSUME Proper, TInv, CourseInv, PlacedInv, EraseSector, UNCHANGED hostVars
  PROVE  PlacedInv'
<1>1. BlockPending /\ status \in {CHECKING, ACCEPTED} /\ ~erased /\ UNCHANGED addr
      /\ UNCHANGED <<pc, rom, incl, remaining>>
  BY DEF EraseSector, BlockPending, hostVars
<1>2. pc \notin {"finish", "stream", "crc", "restatus", "reoffset"}
  BY <1>1, StatusDistinct DEF CourseInv, CountInv, BlockInv, BlockPending, PlacedInv
<1>3. Writing => \A b \in Blocks : b < addr => flash'[b] = flash[b]
  BY <1>1, BelowKept DEF PlacedInv
<1>4. \A b \in Blocks : b \in Nat
  BY Sizes DEF Blocks
<1>5. CASE pc = "poll"
  BY <1>1, <1>3, <1>4, <1>5 DEF PlacedInv, Writing, Placed, FirstBlock, FileBlock
<1>6. CASE pc = "rephase"
  <2>1. Placed(BASE) /\ addr >= BASE - 1 /\ Writing
    BY <1>6 DEF PlacedInv, Writing
  <2>2. Placed(BASE)'
    BY <1>1, <1>3, <1>4, <2>1, Sizes DEF Placed, FirstBlock, FileBlock
  <2> QED  BY <1>1, <1>6, <2>1, <2>2 DEF PlacedInv, Writing
<1>7. CASE pc = "final" /\ remaining = 0
  <2>1. Placed(MARKER - 1) /\ addr >= MARKER - 1 /\ Writing
    BY <1>7 DEF PlacedInv, Writing
  <2>2. Placed(MARKER - 1)'
    BY <1>1, <1>3, <1>4, <2>1, Sizes DEF Placed, FirstBlock, FileBlock
  <2> QED  BY <1>1, <1>7, <2>1, <2>2 DEF PlacedInv, Writing
<1> QED  BY <1>1, <1>2, <1>5, <1>6, <1>7 DEF PlacedInv, Writing

LEMMA ProgramBlockPlaced ==
  ASSUME Proper, TInv, CourseInv, PlacedInv, ProgramBlock, UNCHANGED hostVars
  PROVE  PlacedInv'
<1>1. BlockPending /\ status \in {CHECKING, ACCEPTED} /\ erased /\ addr' = addr + 1
      /\ UNCHANGED <<pc, rom, incl, remaining>>
  BY DEF ProgramBlock, BlockPending, hostVars
<1>2. pc \notin {"finish", "stream", "crc", "restatus", "reoffset"}
  BY <1>1, StatusDistinct DEF CourseInv, CountInv, BlockInv, BlockPending, PlacedInv
<1>3. \A b \in Blocks : b < addr => flash'[b] = flash[b]
  BY <1>1, BelowKept
<1>4. \A b \in Blocks : b \in Nat
  BY Sizes DEF Blocks
<1>5. addr \in Blocks => flash'[addr] = FileBlock(addr)
  <2>1. addr \in Blocks /\ flash[addr] = Blank /\ buf = FileBlock(addr)
    BY <1>1, Sizes, SameSectorReflexive
    DEF CourseInv, ErasedInv, Transferring, PendingInv, ProgramBlock
  <2> QED  BY <2>1, Sizes DEF ProgramBlock
<1>6. ~erased' => addr' \in SectorStarts \/ addr' >= ROM_SIZE
  <2>1. ~erased' => addr + 1 \in SectorStarts \/ ~(addr + 1 < ROM_SIZE)
    BY DEF ProgramBlock
  <2> QED  BY <1>1, <2>1, Sizes
<1>7. CASE pc = "poll"
  <2>1. Placed(addr)
    BY <1>7 DEF PlacedInv
  <2>2. Placed(addr)'
    BY <1>1, <1>3, <1>4, <1>5, <2>1, Sizes DEF Placed, FirstBlock, FileBlock
  <2> QED  BY <1>1, <1>6, <1>7, <2>2 DEF PlacedInv, Writing
<1>8. CASE pc = "rephase"
  <2>1. Placed(BASE) /\ addr >= BASE - 1 /\ addr' >= BASE - 1
    BY <1>1, <1>8, Sizes DEF PlacedInv
  <2>2. Placed(BASE)'
    BY <1>1, <1>3, <1>4, <2>1, Sizes DEF Placed, FirstBlock, FileBlock
  <2> QED  BY <1>1, <1>6, <1>8, <2>1, <2>2 DEF PlacedInv, Writing
<1>9. CASE pc = "final" /\ remaining = 0
  <2>1. Placed(MARKER - 1) /\ addr >= MARKER - 1 /\ addr' >= MARKER - 1
    BY <1>1, <1>9, Sizes DEF PlacedInv
  <2>2. Placed(MARKER - 1)'
    BY <1>1, <1>3, <1>4, <2>1, Sizes DEF Placed, FirstBlock, FileBlock
  <2> QED  BY <1>1, <1>6, <1>9, <2>1, <2>2 DEF PlacedInv, Writing
<1> QED  BY <1>1, <1>2, <1>7, <1>8, <1>9 DEF PlacedInv, Writing

(* Finalising erases from the marker on.                                    *)
LEMMA FinalisePlaced ==
  ASSUME Proper, TInv, CourseInv, PlacedInv, Finalise, UNCHANGED hostVars
  PROVE  PlacedInv'
<1>1. status = FINALISE /\ status' = RECEIVING /\ UNCHANGED <<addr, erased>>
      /\ UNCHANGED <<pc, rom, incl, remaining>>
  BY DEF Finalise, hostVars
<1>2. pc \notin {"poll", "stream", "crc", "restatus", "reoffset"}
  BY <1>1, StatusDistinct DEF CourseInv, CountInv, BlockInv
<1>3. \A b \in Blocks : b \in Nat
  BY Sizes DEF Blocks
<1>4. \A b \in Blocks : b < MARKER => flash'[b] = flash[b]
  <2> SUFFICES ASSUME NEW b \in Blocks, b < MARKER PROVE flash'[b] = flash[b]
    OBVIOUS
  <2>1. ~SameSector(b, MARKER) /\ b \notin EEPROM1..(EEPROM2 - 1)
        /\ b \notin EEPROM2..(ROM_SIZE - 1)
    BY <1>3, Sizes DEF SameSector
  <2> QED  BY <2>1 DEF Finalise
<1>5. \A n \in Nat : n <= MARKER /\ Placed(n) => Placed(n)'
  BY <1>1, <1>3, <1>4, Sizes DEF Placed, FirstBlock, FileBlock
<1>6. BASE \in Nat /\ BASE <= MARKER /\ MARKER - 1 \in Nat /\ MARKER - 1 <= MARKER
  BY Sizes
<1> QED  BY <1>1, <1>2, <1>5, <1>6, StatusDistinct DEF PlacedInv, Writing

LEMMA JumpPlaced ==
  ASSUME PlacedInv, JumpToBootBlock, UNCHANGED hostVars
  PROVE  PlacedInv'
  BY PlacedQuiet DEF JumpToBootBlock, hostVars

LEMMA TaskPlaced ==
  ASSUME Proper, TInv, CourseInv, PlacedInv, DeviceTask, UNCHANGED hostVars
  PROVE  PlacedInv'
<1>1. CASE RefuseBlock
  <2>1. UNCHANGED <<flash, addr, erased, rom, incl, remaining, pc>> /\ status = CHECKING
    BY <1>1 DEF RefuseBlock, hostVars
  <2>2. pc # "finish"
    BY <2>1, StatusDistinct DEF PlacedInv
  <2> QED  BY <2>1, <2>2 DEF PlacedInv, Writing, Placed, FirstBlock, FileBlock
<1> QED
  BY <1>1, EraseSectorPlaced, ProgramBlockPlaced, FinalisePlaced DEF DeviceTask
-----------------------------------------------------------------------------
(* Steps of the program.                                                    *)

LEMMA SendOffsetPlaced ==
  ASSUME Proper, TInv, CourseInv, PlacedInv, SendOffset
  PROVE  PlacedInv'
<1>1. UNCHANGED rom /\ pc = "offset"
  BY DEF SendOffset, Write
<1>2. CASE Leave("error")
  BY <1>2, NothingToPlace DEF Leave
<1>3. CASE /\ RecvOffset(Low16(Sub32(rom.size, remaining)))
           /\ GoTo(LoopHead(remaining, need))
  <2>1. ~need /\ remaining = ToSend /\ remaining # 0
    BY <1>1, Sizes DEF CourseInv, PreparedInv
  <2>2. addr' = FirstBlock /\ pc' = "poll" /\ UNCHANGED <<incl, flash>>
    BY <1>3, <2>1, FirstOffset DEF RecvOffset, GoTo, LoopHead
  <2>3. addr' \in SectorStarts
    BY <2>2, Sizes DEF FirstBlock
  <2>4. Placed(addr)'
    <3>1. FirstBlock' = FirstBlock /\ FirstBlock \in Nat /\ \A b \in Blocks : b \in Nat
      BY <2>2, Sizes DEF FirstBlock, Blocks
    <3> QED  BY <2>2, <3>1 DEF Placed
  <2> QED  BY <2>2, <2>3, <2>4 DEF PlacedInv, Writing
<1> QED  BY <1>2, <1>3 DEF SendOffset, Write

LEMMA RejumpPlaced ==
  ASSUME Proper, TInv, CourseInv, PlacedInv,
         RejumpPhase \/ RejumpStatus \/ RejumpOffset
  PROVE  PlacedInv'
<1>1. /\ UNCHANGED <<rom, flash>>
      /\ pc \in {"rephase", "restatus", "reoffset"}
      /\ remaining # 0 /\ Placed(BASE)
  BY DEF RejumpPhase, RejumpStatus, RejumpOffset, Write, Read, RecvPhase, RecvOffset, deviceVars,
         CourseInv, CountInv, PlacedInv
<1>2. CASE Leave("error")
  BY <1>2, NothingToPlace DEF Leave
<1>3. CASE ~Leave("error")
  <2>1. UNCHANGED <<incl, remaining>>
    BY <1>3 DEF RejumpPhase, RejumpStatus, RejumpOffset, Write, Read, GoTo
  <2>2. \/ pc' \in {"restatus", "reoffset"}
        \/ pc' = "final"
        \/ pc' = "poll" /\ addr' = BASE
    BY <1>3, Low16Small DEF RejumpPhase, RejumpStatus, RejumpOffset, Write, Read, GoTo, RecvOffset
  <2>3. Placed(BASE)'
    BY <1>1, <2>1 DEF Placed, FirstBlock, FileBlock
  <2>4. CASE pc' = "poll" /\ addr' = BASE
    <3>1. Placed(addr)'
      BY <2>3, <2>4 DEF Placed
    <3> QED  BY <2>4, <3>1, Sizes DEF PlacedInv, Writing
  <2> QED  BY <1>1, <2>1, <2>2, <2>3, <2>4 DEF PlacedInv, Writing
<1> QED  BY <1>2, <1>3

(* The last block asked about leaves the controller at the last block of    *)
(* the main firmware.                                                       *)
LEMMA PollPlaced ==
  ASSUME Proper, TInv, CourseInv, CourseInv', PlacedInv, PollProgress
  PROVE  PlacedInv'
<1>1. UNCHANGED rom /\ UNCHANGED deviceVars /\ pc = "poll"
  BY DEF PollProgress, Read, Done, ToResend
<1>2. CASE Leave("error") \/ Leave("killed")
  BY <1>2, NothingToPlace DEF Leave
<1>3. CASE GoTo("poll")
  BY <1>1, <1>3, PlacedQuiet DEF GoTo, deviceVars
<1>4. CASE /\ pc' = "stream" /\ UNCHANGED incl
           /\ \/ status = READY /\ BlockDone
              \/ status \in {RECEIVING, BAD_CRC} /\ UNCHANGED <<remaining, temp, first, need>>
  <2>1. /\ remaining # 0 /\ ToSend = remaining + Counted
        /\ Placed(addr) /\ (~erased => addr \in SectorStarts \/ addr >= ROM_SIZE)
    BY <1>1 DEF CourseInv, CountInv, PlacedInv, Writing
  <2>2. Placed(addr)' /\ (~erased' => addr' \in SectorStarts \/ addr' >= ROM_SIZE)
    BY <1>1, <1>4, <2>1 DEF Placed, FirstBlock, FileBlock, deviceVars
  <2>3. ASSUME remaining' = 0 PROVE addr' >= MARKER - 1
    <3>1. BlockDone
      BY <1>4, <2>1, <2>3
    <3>2. Sub32(remaining, 1) = remaining - 1
      BY <2>1, Sizes DEF Sub32
    <3>3. remaining - 1 <= TAIL
      BY <2>1, <2>3, <3>1, <3>2, Sizes DEF BlockDone, OnlyTail
    <3>4. temp' = Counted
      BY <3>1, Sizes DEF BlockDone, NextTemp, Counted
    <3>5. addr' = FirstBlock + temp'
      BY <1>4 DEF CourseInv, BlockInv, Current, FirstBlock
    <3>6. Counted \in Nat /\ FirstBlock = IF incl THEN 0 ELSE BASE
      BY Sizes DEF Counted, FirstBlock
    <3> QED  BY <2>1, <3>3, <3>4, <3>5, <3>6, Sizes
  <2> QED  BY <1>4, <2>2, <2>3 DEF PlacedInv, Writing
<1> QED  BY <1>2, <1>3, <1>4 DEF PollProgress, Read, Done, ToResend

LEMMA StreamPlaced ==
  ASSUME TInv, PlacedInv, StreamData
  PROVE  PlacedInv'
<1>1. UNCHANGED <<rom, flash, addr, erased>> /\ pc = "stream"
  BY DEF StreamData, SendFrame, Write, RecvData, deviceVars
<1>2. CASE Leave("error")
  BY <1>2, NothingToPlace DEF Leave
<1>3. CASE pc' \in {"stream", "crc"} /\ UNCHANGED <<incl, remaining>>
  BY <1>1, <1>3 DEF PlacedInv, Writing, Placed, FirstBlock, FileBlock
<1> QED  BY <1>2, <1>3 DEF StreamData, SendFrame, Write

LEMMA CrcPlaced ==
  ASSUME Proper, TInv, CourseInv, PlacedInv, SendCrc
  PROVE  PlacedInv'
<1>1. UNCHANGED <<rom, flash, addr, erased>> /\ pc = "crc"
  BY DEF SendCrc, SendFrame, Write, RecvData, deviceVars
<1>2. CASE Leave("error")
  BY <1>2, NothingToPlace DEF Leave
<1>3. CASE GoTo(LoopHead(remaining, need))
  <2>1. UNCHANGED <<incl, remaining>> /\ pc' = LoopHead(remaining, need)
    BY <1>3 DEF GoTo
  <2>2. Placed(addr) /\ (~erased => addr \in SectorStarts \/ addr >= ROM_SIZE)
        /\ (remaining = 0 => addr >= MARKER - 1)
    BY <1>1 DEF PlacedInv, Writing
  <2>3. \A b \in Blocks : b \in Nat
    BY Sizes DEF Blocks
  <2>4. CASE pc' = "final" /\ remaining = 0
    <3>1. Placed(MARKER - 1)'
      BY <1>1, <2>1, <2>2, <2>3, <2>4, Sizes DEF Placed, FirstBlock, FileBlock
    <3> QED  BY <1>1, <2>1, <2>2, <2>4, <3>1 DEF PlacedInv, Writing
  <2>5. CASE pc' = "rephase" /\ need
    <3>1. addr = BASE - 1
      BY <1>1, <2>5, Sizes DEF CourseInv, CountInv, BlockInv, Current, FirstBlock
    <3>2. Placed(BASE)'
      BY <1>1, <2>1, <2>2, <2>3, <3>1, Sizes DEF Placed, FirstBlock, FileBlock
    <3>3. addr' >= BASE - 1
      BY <1>1, <3>1, Sizes
    <3> QED  BY <1>1, <2>1, <2>2, <2>5, <3>2, <3>3 DEF PlacedInv, Writing
  <2>6. CASE pc' = "poll"
    BY <1>1, <2>1, <2>2, <2>6 DEF PlacedInv, Writing, Placed, FirstBlock, FileBlock
  <2> QED  BY <2>1, <2>4, <2>5, <2>6 DEF LoopHead
<1> QED  BY <1>2, <1>3 DEF SendCrc, SendFrame, Write

LEMMA FinalPlaced ==
  ASSUME TInv, PlacedInv, SendFinalise
  PROVE  PlacedInv'
<1>1. UNCHANGED <<rom, flash>> /\ pc = "final"
  BY DEF SendFinalise, Write, RecvPhase, deviceVars
<1>2. CASE Leave("error")
  BY <1>2, NothingToPlace DEF Leave
<1>3. CASE RecvPhase(4, 0) /\ GoTo("finish")
  <2>1. status' = FINALISE /\ pc' = "finish" /\ UNCHANGED <<incl, remaining>>
    BY <1>3 DEF RecvPhase, GoTo
  <2> QED  BY <1>1, <2>1 DEF PlacedInv, Writing, Placed, FirstBlock, FileBlock
<1> QED  BY <1>2, <1>3 DEF SendFinalise, Write
-----------------------------------------------------------------------------
LEMMA PlacedInvStep ==
  ASSUME Proper, TInv, CourseInv, CourseInv', PlacedInv, [Next]_vars
  PROVE  PlacedInv'
<1>1. CASE Start \/ OpenFails \/ ReadId \/ ReadVer \/ ReadBase \/ ReadStatus \/ SendPhase
  BY <1>1, NothingToPlace
  DEF Start, OpenFails, ReadId, ReadVer, ReadBase, ReadStatus, SendPhase, Read, Write, GoTo, Leave
<1>2. CASE SendFinish
  BY <1>2, NothingToPlace DEF SendFinish, Write, Leave
<1>3. CASE Host
  BY <1>1, <1>2, <1>3, SendOffsetPlaced, RejumpPlaced, PollPlaced, StreamPlaced, CrcPlaced,
     FinalPlaced DEF Host
<1>4. CASE (DeviceTask \/ JumpToBootBlock) /\ UNCHANGED hostVars
  BY <1>4, TaskPlaced, JumpPlaced
<1>5. CASE Reset \/ PowerLoss \/ Kill
  BY <1>5, NothingToPlace DEF Reset, PowerLoss, Kill, HostDies
<1>6. CASE UNCHANGED vars
  BY <1>6, PlacedQuiet DEF vars, hostVars, deviceVars
<1> QED  BY <1>3, <1>4, <1>5, <1>6 DEF Next, Device

(* The file is the same all the time.                                       *)
LEMMA RomKept == [Next]_vars => UNCHANGED rom
<1> SUFFICES ASSUME [Next]_vars PROVE UNCHANGED rom
  OBVIOUS
<1>1. CASE Host
  BY <1>1 DEF Host, Start, OpenFails, ReadId, ReadVer, ReadBase, ReadStatus, SendPhase, SendOffset,
     RejumpPhase, RejumpStatus, RejumpOffset, PollProgress, StreamData, SendCrc, SendFrame,
     SendFinalise, SendFinish, Read, Write
<1>2. CASE ~Host
  BY <1>2 DEF Next, Device, Kill, Reset, PowerLoss, HostDies, vars, hostVars
<1> QED  BY <1>1, <1>2

(* What holds of a transfer of a proper file; other files of the set make   *)
(* no difference.                                                           *)
PlacedIInv == TInv /\ CourseInv /\ (Proper => PlacedInv)

LEMMA PlacedInitially == Init => PlacedIInv
  BY TInvInit, CourseInvInit DEF Init, PlacedIInv, PlacedInv, Writing

LEMMA PlacedStep ==
  ASSUME PlacedIInv, [Next]_vars, ~Mixture(FileBlock(Current)), ~Unheard
  PROVE  PlacedIInv'
<1>1. TInv' /\ CourseInv'
  BY TInvStep, CourseInvStep DEF PlacedIInv
<1>2. Proper' => Proper
  BY RomKept DEF Proper
<1>3. Proper => PlacedInv'
  BY <1>1, PlacedInvStep DEF PlacedIInv
<1> QED  BY <1>1, <1>2, <1>3 DEF PlacedIInv

LEMMA PlacedFrameStep ==
  ASSUME NothingLost, PlacedIInv, FrameInv, [Next]_vars
  PROVE  PlacedIInv' /\ FrameInv'
  BY PlacedStep, FrameInvStep DEF PlacedIInv, TransferInv

LEMMA PlacedFrameInitially == Init => PlacedIInv /\ FrameInv
  BY PlacedInitially, TransferInvInit DEF TransferInv

LEMMA FilesProper == ASSUME ProperFiles, TInv PROVE Proper
  BY TInvParts DEF HostTypeOK, ProperFiles, Proper

(* For files of the right size, and provided no data frame is lost: when    *)
(* finalising has been sent after a loop that came to its end, every block  *)
(* but the last of each phase is in place, however often frames had to be   *)
(* sent again and whatever earlier runs left behind.                        *)
THEOREM FinishPlaced ==
  ASSUME NothingLost, ProperFiles
  PROVE  Spec => []AtMostLastMissing
<1> DEFINE IInv == PlacedIInv /\ FrameInv
<1>1. IInv /\ [Next]_vars => IInv'
  BY NothingLost, PlacedFrameStep
<1>2. PlacedIInv => AtMostLastMissing
  <2> SUFFICES ASSUME PlacedIInv, pc = "finish", remaining = 0
      PROVE  /\ \A b \in BASE..(MARKER - 2) : flash[b] = FileBlock(b)
             /\ incl => \A b \in 0..(BASE - 2) : flash[b] = FileBlock(b)
    BY DEF AtMostLastMissing
  <2>1. TInv /\ Proper /\ Placed(MARKER - 1)
    BY ProperFiles, FilesProper DEF PlacedIInv, PlacedInv
  <2>2. /\ ROM_SIZE \in Nat /\ BASE \in Nat \ {0} /\ MARKER \in Nat
        /\ BASE < MARKER /\ MARKER < ROM_SIZE
    BY <2>1, Sizes
  <2>3. ASSUME NEW b \in BASE..(MARKER - 2) PROVE flash[b] = FileBlock(b)
    <3>1. b \in Blocks /\ FirstBlock <= b /\ b < MARKER - 1 /\ b # BASE - 1
      BY <2>2 DEF Blocks, FirstBlock
    <3> QED  BY <2>1, <3>1 DEF Placed
  <2>4. ASSUME incl, NEW b \in 0..(BASE - 2) PROVE flash[b] = FileBlock(b)
    <3>1. b \in Blocks /\ FirstBlock <= b /\ b < MARKER - 1 /\ b # BASE - 1
      BY <2>2, <2>4 DEF Blocks, FirstBlock
    <3> QED  BY <2>1, <3>1 DEF Placed
  <2> QED  BY <2>3, <2>4
<1> QED  BY <1>1, <1>2, PlacedFrameInitially, PTL DEF Spec

(* At every step of a transfer what has been counted is in the chip, and no *)
(* sector with a block in place is going to be erased again.                *)
THEOREM CountedIsPlaced ==
  ASSUME NothingLost, ProperFiles
  PROVE  Spec => []PlacedInv
<1> DEFINE IInv == PlacedIInv /\ FrameInv
<1>1. IInv /\ [Next]_vars => IInv'
  BY NothingLost, PlacedFrameStep
<1>2. PlacedIInv => PlacedInv
  BY ProperFiles, FilesProper DEF PlacedIInv
<1> QED  BY <1>1, <1>2, PlacedFrameInitially, PTL DEF Spec
=============================================================================
