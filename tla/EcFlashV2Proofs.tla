--------------------------- MODULE EcFlashV2Proofs --------------------------
(***************************************************************************)
(* Proofs about the second program of ec_flash.c, for every geometry, ROM  *)
(* file, command line and any number of runs and faults.  Its prologue and *)
(* the controller are the first program's, so are the lemmas about them.   *)
(* First types and the boot block, then the blocks it puts a whole number  *)
(* of laps from where they belong and the program that is running, both    *)
(* as long as neither controller nor program is misled, and without the    *)
(* history variable when no frame is lost and no call fails.               *)
(***************************************************************************)
EXTENDS EcFlashV2Misled, EcFlashUpdateProofs

-----------------------------------------------------------------------------
(* Types.                                                                   *)

LEMMA TypesTogether == ASSUME DeviceTypeOK', HostTypeOK' PROVE TInv'
  BY DEF TInv, TypeOK, HostTypeOK

LEMMA FileBlock2IsBuffer ==
  ASSUME rom \in Roms, NEW k \in Nat
  PROVE  FileBlock2(k) \in Buffer /\ CrcOf(FileBlock2(k)) \in BYTE
<1>1. CASE k < rom.size
  <2>1. FileBlock2(k) = FileBlock(k)
    BY <1>1 DEF FileBlock2, FileBlock
  <2> QED  BY <2>1, FileBlockIsBuffer, BlockSum
<1>2. CASE ~(k < rom.size)
  <2>1. Zeros \in Buffer
    BY DEF Zeros, Buffer, Frame, BYTE
  <2> QED  BY <1>2, <2>1, BlockSum DEF FileBlock2
<1> QED  BY <1>1, <1>2

(* A step that says where main goes on, and what the controller becomes.    *)
LEMMA GoesOn ==
  ASSUME TInv, NEW step \in Steps, step # "stream", GoTo(step), DeviceTypeOK', UNCHANGED <<rom, runs>>,
         UNCHANGED faults \/ \E kind \in {"fail", "lost", "corrupt"} : Fault(kind)
  PROVE  TInv'
<1>1. faults' \in 0..MaxFaults /\ runs' \in 0..MaxRuns
  BY TInvParts, FaultType DEF HostTypeOK
<1>2. HostTypeOK'
  BY <1>1, TInvParts, GoToType
<1> QED  BY <1>2, TypesTogether

LEMMA Stops ==
  ASSUME TInv, NEW how \in {"none", "ok", "error", "broken", "killed"}, Leave(how), DeviceTypeOK',
         UNCHANGED <<rom, runs>>, UNCHANGED faults \/ Fault("fail")
  PROVE  TInv'
<1>1. faults' \in 0..MaxFaults /\ runs' \in 0..MaxRuns
  BY TInvParts, FaultType DEF HostTypeOK
<1>2. HostTypeOK'
  BY <1>1, TInvParts, LeaveType
<1> QED  BY <1>2, TypesTogether

(* break.                                                                   *)
LEMMA BreaksOff ==
  ASSUME TInv, Break, UNCHANGED deviceVars, UNCHANGED <<rom, runs>>,
         UNCHANGED faults \/ Fault("fail")
  PROVE  TInv'
<1>1. DeviceTypeOK'
  BY TInvParts, DeviceSame
<1> QED  BY <1>1, GoesOn DEF Break, Steps

LEMMA Prologue2Type == ASSUME TInv, Prologue2 PROVE TInv'
<1>1. CASE StartsNothing2
  <2>1. PICK how \in {"ok", "error"} : Leave(how)
    BY <1>1 DEF StartsNothing2
  <2>2. DeviceTypeOK' /\ UNCHANGED rom /\ runs' \in 0..MaxRuns
    BY <1>1, TInvParts, DeviceSame, HostAssumption DEF StartsNothing2, HostTypeOK
  <2>3. faults' \in 0..MaxFaults
    BY <1>1, TInvParts, FaultType DEF StartsNothing2, HostTypeOK
  <2>4. HostTypeOK'
    BY <2>1, <2>2, <2>3, TInvParts, LeaveType
  <2> QED  BY <2>2, <2>4, TypesTogether
<1> QED
  BY <1>1, StartType, ReadIdType, ReadVerType, ReadBaseType, ReadStatusType, SendPhaseType,
     SendOffsetType
  DEF Prologue2, Start2

LEMMA Rejump2Type == ASSUME TInv, RejumpPhase2 \/ RejumpStatus2 \/ RejumpOffset2 PROVE TInv'
<1>1. CASE RejumpPhase2
  <2>1. /\ UNCHANGED <<rom, runs, outcome, args, ram_id, incl, remaining, temp, first, i>>
        /\ need' = FALSE /\ pc' \in {"restatus", "final"}
        /\ UNCHANGED faults \/ Fault("fail")
        /\ RecvPhase(1, args.mask) \/ UNCHANGED deviceVars
    BY <1>1 DEF RejumpPhase2, Write2
  <2>2. DeviceTypeOK' /\ faults' \in 0..MaxFaults
    BY <2>1, TInvParts, ArgsType, RecvPhaseType, DeviceSame, FaultType DEF HostTypeOK
  <2>3. HostTypeOK'
    BY <2>1, <2>2, TInvParts DEF HostTypeOK, Steps
  <2> QED  BY <2>2, <2>3, TypesTogether
<1>2. CASE RejumpStatus2
  <2>1. PICK step \in {"reoffset", "final"} : GoTo(step)
    BY <1>2 DEF RejumpStatus2, Read2, Break
  <2>2. DeviceTypeOK' /\ UNCHANGED <<rom, runs>> /\ (UNCHANGED faults \/ Fault("fail"))
    BY <1>2, TInvParts, DeviceSame DEF RejumpStatus2, Read2
  <2> QED  BY <2>1, <2>2, GoesOn DEF Steps
<1>3. CASE RejumpOffset2
  <2>1. UNCHANGED <<rom, runs>>
    BY <1>3 DEF RejumpOffset2, Write2
  <2>2. CASE RecvOffset(Low16(BASE)) /\ GoTo("poll") /\ UNCHANGED faults
    <3>1. DeviceTypeOK'
      BY <2>2, TInvParts, RecvOffsetType, Low16Small, GeometryAssumption
    <3> QED  BY <2>1, <2>2, <3>1, GoesOn DEF Steps
  <2>3. CASE UNCHANGED deviceVars /\ Fault("fail") /\ Break
    BY <2>1, <2>3, BreaksOff
  <2> QED  BY <1>3, <2>2, <2>3 DEF RejumpOffset2, Write2
<1> QED  BY <1>1, <1>2, <1>3

LEMMA Poll2Type == ASSUME TInv, PollProgress2 PROVE TInv'
<1>1. DeviceTypeOK' /\ UNCHANGED deviceVars /\ UNCHANGED <<rom, runs>>
  BY TInvParts, DeviceSame DEF PollProgress2, Read2
<1>2. ASSUME pc' = "stream", i' = 1, UNCHANGED <<outcome, args, ram_id, incl, faults>>,
             BlockDone2 \/ UNCHANGED <<remaining, temp, first, need>>
      PROVE  TInv'
  <2>1. remaining \in 0..(WORD - 1) /\ 1 \in 0..(WORD - 1) /\ 0 \in 0..(WORD - 1)
    BY TInvParts, HostAssumption, GeometryAssumption DEF HostTypeOK
  <2>2. Sub32(remaining, 1) \in 0..(WORD - 1)
    BY <2>1, Sub32Type
  <2>3. remaining' \in 0..(WORD - 1)
    BY <1>2, <2>1, <2>2 DEF BlockDone2
  <2>4. temp' \in Nat
    <3>1. temp' = temp \/ temp' = (temp + 1) % LAP
      BY <1>2 DEF BlockDone2, NextTemp2
    <3> QED  BY <3>1, TInvParts, LapAssumption DEF HostTypeOK
  <2>5. need' \in BOOLEAN /\ first' \in BOOLEAN
    BY <1>2, TInvParts DEF BlockDone2, HostTypeOK
  <2>6. HostTypeOK'
    BY <1>1, <1>2, <2>3, <2>4, <2>5, TInvParts, GeometryAssumption DEF HostTypeOK, Steps
  <2> QED  BY <1>1, <2>6, TypesTogether
<1>3. CASE GoTo("poll") /\ UNCHANGED faults
  BY <1>1, <1>3, GoesOn DEF Steps
<1>4. CASE Leave("killed") /\ UNCHANGED faults
  BY <1>1, <1>4, Stops
<1>5. CASE Fault("fail") /\ Break
  BY <1>1, <1>5, BreaksOff
<1> QED  BY <1>2, <1>3, <1>4, <1>5 DEF PollProgress2, Read2

(* A frame arrives as sent, or damaged, or not at all.                      *)
LEMMA FrameType ==
  ASSUME TInv, NEW frame \in Frame,
         \/ RecvData(frame) \/ UNCHANGED deviceVars
         \/ \E damaged \in Corrupted(frame) : RecvData(damaged)
  PROVE  DeviceTypeOK'
<1>1. CASE RecvData(frame) \/ UNCHANGED deviceVars
  BY <1>1, TInvParts, RecvDataType, DeviceSame
<1>2. ASSUME NEW damaged \in Corrupted(frame), RecvData(damaged)
      PROVE  DeviceTypeOK'
  BY <1>2, TInvParts, DamagedIsFrame, RecvDataType
<1> QED  BY <1>1, <1>2

LEMMA Stream2Type == ASSUME TInv, StreamData2 PROVE TInv'
<1> DEFINE frame == FileBlock2(Current)[i]
           go == /\ i' = i + 1
                 /\ pc' = IF i = P THEN "crc" ELSE "stream"
                 /\ UNCHANGED <<outcome, args, ram_id, incl, remaining, temp, first, need>>
<1>1. pc = "stream" /\ i \in 1..P /\ UNCHANGED <<rom, runs>>
  BY TInvParts DEF StreamData2, SendFrame2, Write2, HostTypeOK
<1>2. frame \in Frame
  BY <1>1, TInvParts, ArgsType, FileBlock2IsBuffer, FrameOfBuffer DEF HostTypeOK
<1>3. /\ \/ RecvData(frame) \/ UNCHANGED deviceVars
         \/ \E damaged \in Corrupted(frame) : RecvData(damaged)
      /\ go \/ GoTo("crc")
      /\ UNCHANGED faults \/ Fault("fail") \/ Fault("lost") \/ Fault("corrupt")
  BY DEF StreamData2, SendFrame2, Write2
<1> HIDE DEF frame
<1>4. DeviceTypeOK'
  BY <1>2, <1>3, FrameType
<1>5. CASE go
  <2>1. i' \in 1..(P + 1) /\ (pc' = "stream" => i' \in 1..P) /\ pc' \in Steps
    BY <1>1, <1>5, GeometryAssumption DEF Steps
  <2>2. faults' \in 0..MaxFaults
    BY <1>3, TInvParts, FaultType DEF HostTypeOK
  <2>3. HostTypeOK'
    BY <1>1, <1>5, <2>1, <2>2, TInvParts DEF HostTypeOK
  <2> QED  BY <1>4, <2>3, TypesTogether
<1>6. CASE GoTo("crc")
  BY <1>1, <1>3, <1>4, <1>6, GoesOn DEF Steps
<1> QED  BY <1>3, <1>5, <1>6

LEMMA SendCrc2Type == ASSUME TInv, SendCrc2 PROVE TInv'
<1> DEFINE frame == <<CrcOf(FileBlock2(Current)), temp % 256>>
<1>1. UNCHANGED <<rom, runs>>
  BY DEF SendCrc2, SendFrame2, Write2
<1>2. frame \in Frame
  <2>1. CrcOf(FileBlock2(Current)) \in BYTE
    BY TInvParts, ArgsType, FileBlock2IsBuffer DEF HostTypeOK
  <2>2. temp % 256 \in BYTE
    BY TInvParts DEF HostTypeOK, BYTE
  <2> QED  BY <2>1, <2>2 DEF Frame
<1>3. /\ \/ RecvData(frame) \/ UNCHANGED deviceVars
         \/ \E damaged \in Corrupted(frame) : RecvData(damaged)
      /\ GoTo(LoopHead(remaining, need)) \/ GoTo("final")
      /\ UNCHANGED faults \/ Fault("fail") \/ Fault("lost") \/ Fault("corrupt")
  BY DEF SendCrc2, SendFrame2, Write2, Break
<1> HIDE DEF frame
<1>4. DeviceTypeOK'
  BY <1>2, <1>3, FrameType
<1>5. PICK step \in Steps \ {"stream"} : GoTo(step)
  BY <1>3, LoopHeadStep DEF Steps
<1> QED  BY <1>1, <1>3, <1>4, <1>5, GoesOn

LEMMA Closing2Type == ASSUME TInv, SendFinalise2 \/ SendFinish2 PROVE TInv'
<1>1. CASE SendFinalise2
  <2>1. /\ GoTo("finish") /\ UNCHANGED <<rom, runs>> /\ (UNCHANGED faults \/ Fault("fail"))
        /\ RecvPhase(4, 0) \/ UNCHANGED deviceVars
    BY <1>1 DEF SendFinalise2, Write2
  <2>2. DeviceTypeOK'
    BY <2>1, TInvParts, RecvPhaseType, DeviceSame
  <2> QED  BY <2>1, <2>2, GoesOn DEF Steps
<1>2. CASE SendFinish2
  <2>1. /\ Leave("ok") /\ UNCHANGED <<rom, runs>> /\ (UNCHANGED faults \/ Fault("fail"))
        /\ RecvFinish(IF args.ota THEN 1 ELSE IF args.sd THEN 2 ELSE 3) \/ UNCHANGED deviceVars
    BY <1>2 DEF SendFinish2, Write2
  <2>2. DeviceTypeOK'
    BY <2>1, TInvParts, RecvFinishType, DeviceSame
  <2> QED  BY <2>1, <2>2, Stops
<1> QED  BY <1>1, <1>2

(* The controller, the faults and standing still are the first program's.   *)
LEMMA OldSteps == Device \/ Kill \/ PowerLoss \/ UNCHANGED vars => [Next]_vars
  BY DEF Next

LEMMA TInvStep2 == TInv /\ [Next2]_vars => TInv'
<1> SUFFICES ASSUME TInv, [Next2]_vars PROVE TInv'
  OBVIOUS
<1>1. CASE Host2
  BY <1>1, Prologue2Type, Rejump2Type, Poll2Type, Stream2Type, SendCrc2Type, Closing2Type
  DEF Host2
<1>2. CASE Device \/ Kill \/ PowerLoss \/ UNCHANGED vars
  BY <1>2, OldSteps, TInvStep
<1> QED  BY <1>1, <1>2 DEF Next2

(* Also in the second program, whose failing calls leave host and           *)
(* controller out of step, the counters stay within their bounds: the       *)
(* controller's frame counter within its buffer, what is left within its    *)
(* 32-bit word.                                                             *)
THEOREM TypeCorrect2 == Spec2 => []TypeOK
<1>1. TInv => TypeOK
  BY DEF TInv
<1> QED  BY TInvInit, TInvStep2, <1>1, PTL DEF Spec2
-----------------------------------------------------------------------------
(* The boot block in a plain update.                                        *)

LEMMA OnlyTaskWrites2 ==
  ASSUME [Next2]_vars, ~(DeviceTask /\ UNCHANGED hostVars)
  PROVE  UNCHANGED flash
<1>1. CASE Prologue2
  BY <1>1 DEF Prologue2, Start2, Start, StartsNothing2, ReadId, ReadVer, ReadBase, ReadStatus, Read,
              SendPhase, SendOffset, Write, RecvPhase, RecvOffset, deviceVars
<1>2. CASE RejumpPhase2 \/ RejumpStatus2 \/ RejumpOffset2
  BY <1>2 DEF RejumpPhase2, RejumpStatus2, RejumpOffset2, Read2, Write2, RecvPhase, RecvOffset,
              deviceVars
<1>3. CASE PollProgress2 \/ StreamData2 \/ SendCrc2
  BY <1>3 DEF PollProgress2, StreamData2, SendCrc2, SendFrame2, Read2, Write2, RecvData, deviceVars
<1>4. CASE SendFinalise2 \/ SendFinish2
  BY <1>4 DEF SendFinalise2, SendFinish2, Write2, RecvPhase, RecvFinish, deviceVars
<1>5. CASE Device \/ Kill \/ PowerLoss \/ UNCHANGED vars
  BY <1>5, OldSteps, OnlyTaskWrites
<1> QED  BY <1>1, <1>2, <1>3, <1>4, <1>5 DEF Next2, Host2

LEMMA PlainStep2 == ASSUME TInv, PlainInv, [Next2]_vars PROVE PlainInv'
<1>1. CASE Prologue2
  <2>1. CASE Start2 \/ StartsNothing2 \/ ReadId \/ ReadVer \/ ReadBase
    <3>1. pc' \notin {"phase", "offset", "poll", "stream", "crc"}
      BY <2>1 DEF Start2, Start, StartsNothing2, ReadId, ReadVer, ReadBase, Read, Leave, GoTo
    <3> QED  BY <3>1 DEF PlainInv
  <2> QED  BY <1>1, <2>1, OpeningPlain DEF Prologue2
<1>2. CASE RejumpPhase2 \/ RejumpStatus2 \/ SendFinalise2 \/ SendFinish2
  <2>1. pc' \notin {"phase", "offset", "poll", "stream", "crc"}
    BY <1>2 DEF RejumpPhase2, RejumpStatus2, SendFinalise2, SendFinish2, Read2, Write2, Break,
                Leave, GoTo
  <2> QED  BY <2>1 DEF PlainInv
<1>3. CASE RejumpOffset2
  <2>1. pc' = "final" \/ (pc' = "poll" /\ addr' = BASE /\ UNCHANGED incl)
    BY <1>3, Low16Small DEF RejumpOffset2, Write2, RecvOffset, Break, GoTo
  <2> QED  BY <2>1, LoopPlain DEF PlainInv
<1>4. CASE PollProgress2 \/ StreamData2 \/ SendCrc2
  <2>1. UNCHANGED incl /\ addr' = addr /\ pc \in {"poll", "stream", "crc"}
        /\ pc' \notin {"phase", "offset"}
    BY <1>4 DEF PollProgress2, StreamData2, SendCrc2, SendFrame2, Read2, Write2, RecvData, Break,
                Leave, GoTo, LoopHead, deviceVars
  <2> QED  BY <2>1, LoopPlain
<1>5. CASE Device \/ Kill \/ PowerLoss \/ UNCHANGED vars
  BY <1>5, DevicePlain
<1> QED  BY <1>1, <1>2, <1>3, <1>4, <1>5 DEF Next2, Host2

(* The second program, too, leaves the boot block alone in a plain update,  *)
(* although a call that fails makes it go on with a controller that is      *)
(* somewhere else in the block, or in another block.                        *)
THEOREM BootBlockSafe2 == Spec2 => BootBlockKeptUnlessAsked
<1> DEFINE IInv == TInv /\ PlainInv
           Kept == pc \in {"poll", "stream", "crc"} /\ ~incl => BootBlockKept
<1>1. Init => IInv
  BY TInvInit DEF Init, PlainInv
<1>2. IInv /\ [Next2]_vars => IInv'
  BY TInvStep2, PlainStep2
<1>3. IInv /\ [Next2]_vars => [Kept]_vars
  <2> SUFFICES ASSUME IInv, [Next2]_vars PROVE Kept
    OBVIOUS
  <2>1. CASE UNCHANGED flash
    BY <2>1, FlashSame
  <2>2. CASE DeviceTask
    BY <2>2, PlainWrites DEF PlainInv
  <2> QED  BY <2>1, <2>2, OnlyTaskWrites2
<1> QED  BY <1>1, <1>2, <1>3, PTL DEF Spec2, BootBlockKeptUnlessAsked
-----------------------------------------------------------------------------
(* A whole number of laps.  The program's byte forgets how often it         *)
(* wrapped; the invariant says that there is a number it stands for, and    *)
(* that this number, not the byte, is the one the rest of the program and   *)
(* the controller agree about.                                              *)

Looping == {"poll", "stream", "crc", "rephase", "restatus", "reoffset"}

(* n blocks lie between the first one of the phase and the current one: the *)
(* counting and the agreement of the first program, with n for its temp.    *)
Tally(n) ==
  /\ temp = n % LAP
  /\ remaining = 0 \/ ToSend = remaining + n + (IF first THEN 1 ELSE 0)
  /\ need => incl /\ first /\ n = BASE - 1
  /\ pc \in {"poll", "rephase", "restatus", "reoffset"} => remaining # 0
  /\ pc = "poll" =>
       /\ status \in {READY, BAD_CRC, RECEIVING, CHECKING, ACCEPTED}
       /\ ~need
       /\ ~first => status = READY
       /\ addr = FirstBlock + n + (IF status = READY /\ first THEN 1 ELSE 0)
  /\ pc \in {"stream", "crc"} =>
       /\ first /\ addr = FirstBlock + n
       /\ status \in {READY, BAD_CRC, RECEIVING, CHECKING}
       /\ status = CHECKING => CrcOf(buf) # crc
  /\ pc = "rephase" => need
  /\ pc \in {"restatus", "reoffset"} =>
       incl /\ first /\ ~need /\ n = BASE - 1 /\ status = READY

TallyInv == pc \in Looping => \E n \in Nat : Tally(n)

PendingInv2 == BlockPending => buf \in LapsOf(addr)

LapsInv == PreparedInv /\ TallyInv /\ PendingInv2 /\ ErasedInv /\ WholeLapsOnly

LEMMA LapsInvInit == Init => LapsInv
<1> SUFFICES ASSUME Init PROVE LapsInv
  OBVIOUS
<1>1. pc = "off" /\ status = RECEIVING /\ flash = OldImage
  BY DEF Init, DeviceInit
<1>2. PreparedInv /\ TallyInv
  BY <1>1 DEF PreparedInv, TallyInv, Looping
<1>3. PendingInv2 /\ ErasedInv
  BY <1>1, StatusDistinct DEF PendingInv2, BlockPending, ErasedInv, Transferring
<1>4. WholeLapsOnly
  BY <1>1 DEF WholeLapsOnly
<1> QED  BY <1>2, <1>3, <1>4 DEF LapsInv

LEMMA LapsSame == ASSUME UNCHANGED rom, NEW b \in Nat PROVE LapsOf(b)' = LapsOf(b)
<1>1. \A k : FileBlock2(k)' = FileBlock2(k)
  BY DEF FileBlock2
<1> QED  BY <1>1 DEF LapsOf

LEMMA LapsKept ==
  ASSUME WholeLapsOnly, UNCHANGED <<flash, rom>>
  PROVE  WholeLapsOnly'
<1>1. \A b \in Blocks : LapsOf(b)' = LapsOf(b)
  BY LapsSame, GeometryAssumption DEF Blocks
<1> QED  BY <1>1 DEF WholeLapsOnly

(* Nothing the controller holds changes.                                    *)
LEMMA ChipUntouched ==
  ASSUME LapsInv, UNCHANGED deviceVars, UNCHANGED rom
  PROVE  PendingInv2' /\ WholeLapsOnly'
<1>1. PendingInv2'
  BY DEF LapsInv, PendingInv2, BlockPending, deviceVars, LapsOf, FileBlock2
<1> QED  BY <1>1, LapsKept DEF LapsInv, deviceVars

(* No block is pending and no sector erased, or none will be written.       *)
LEMMA ChipAtRest ==
  ASSUME LapsInv, UNCHANGED <<flash, rom>>, status' \notin {CHECKING, ACCEPTED},
         \/ ~erased'
         \/ UNCHANGED <<addr, erased>> /\ (Transferring' => Transferring)
  PROVE  PendingInv2' /\ ErasedInv' /\ WholeLapsOnly'
<1>1. PendingInv2'
  BY DEF PendingInv2, BlockPending
<1>2. ErasedInv'
  BY DEF LapsInv, ErasedInv, SameSector
<1> QED  BY <1>1, <1>2, LapsKept DEF LapsInv

(* Out of the transfer, whatever has been sent.                             *)
LEMMA LeavesLoop ==
  ASSUME LapsInv, UNCHANGED deviceVars, UNCHANGED rom, pc' \in {"off", "final", "finish"}
  PROVE  LapsInv'
<1>1. PreparedInv' /\ TallyInv'
  BY DEF PreparedInv, TallyInv, Looping
<1>2. ErasedInv'
  BY ErasedUntouched DEF LapsInv, Transferring, deviceVars
<1> QED  BY <1>1, <1>2, ChipUntouched DEF LapsInv

LEMMA PowerOnLaps == ASSUME LapsInv, PowerOn, HostDies PROVE LapsInv'
<1>1. pc' = "off" /\ UNCHANGED <<flash, rom>> /\ status' = RECEIVING /\ ~erased'
  BY DEF PowerOn, HostDies
<1>2. PreparedInv' /\ TallyInv'
  BY <1>1 DEF PreparedInv, TallyInv, Looping
<1> QED  BY <1>1, <1>2, ChipAtRest, StatusDistinct DEF LapsInv

LEMMA TallySame ==
  ASSUME NEW n \in Nat, Tally(n), UNCHANGED hostVars, UNCHANGED <<status, addr, buf, crc>>
  PROVE  Tally(n)'
<1>1. FirstBlock' = FirstBlock /\ ToSend' = ToSend
  BY DEF FirstBlock, ToSend, Volume, hostVars
<1>2. UNCHANGED <<pc, temp, remaining, first, need, incl>>
  BY DEF hostVars
<1> QED  BY <1>1, <1>2 DEF Tally

(* The host's part of the invariant under a step of the controller.         *)
LEMMA TaskKeepsTally ==
  ASSUME LapsInv, UNCHANGED hostVars, UNCHANGED <<buf, crc>>,
         \/ /\ status \in {CHECKING, ACCEPTED}
            /\ status' = BAD_CRC \/ (status' = ACCEPTED /\ BlockPending)
            /\ UNCHANGED addr
         \/ BlockPending /\ status' = READY /\ addr' = addr + 1
         \/ status = FINALISE
  PROVE  PreparedInv' /\ TallyInv'
<1>1. status \in {CHECKING, ACCEPTED, FINALISE}
  BY DEF BlockPending
<1>2. PreparedInv'
  BY <1>1, StatusDistinct DEF LapsInv, PreparedInv, hostVars, ToSend, Volume
<1>3. TallyInv'
  <2> SUFFICES ASSUME pc \in Looping PROVE \E n \in Nat : Tally(n)'
    BY DEF TallyInv, hostVars
  <2>1. PICK n \in Nat : Tally(n)
    BY DEF LapsInv, TallyInv
  <2>2. FirstBlock' = FirstBlock /\ ToSend' = ToSend /\ FirstBlock \in Nat
        /\ UNCHANGED <<pc, temp, remaining, first, need, incl>>
    BY GeometryAssumption DEF FirstBlock, ToSend, Volume, hostVars
  <2>3. CASE pc = "rephase"
    BY <2>1, <2>2, <2>3 DEF Tally
  <2>4. CASE pc = "poll"
    <3>1. first /\ addr = FirstBlock + n /\ status \in {CHECKING, ACCEPTED}
      BY <1>1, <2>1, <2>2, <2>4, StatusDistinct DEF Tally
    <3>2. status' \in {READY, BAD_CRC, ACCEPTED}
          /\ addr' = FirstBlock + n + (IF status' = READY THEN 1 ELSE 0)
      BY <2>2, <3>1, StatusDistinct
    <3> QED  BY <2>1, <2>2, <2>4, <3>1, <3>2, StatusDistinct DEF Tally
  <2>5. CASE pc \in {"stream", "crc"}
    <3>1. first /\ addr = FirstBlock + n /\ status = CHECKING /\ ~BlockPending
      BY <1>1, <2>1, <2>5, StatusDistinct DEF Tally, BlockPending
    <3>2. status' = BAD_CRC /\ UNCHANGED addr
      BY <3>1, StatusDistinct
    <3> QED  BY <2>1, <2>2, <2>5, <3>1, <3>2, StatusDistinct DEF Tally
  <2>6. pc \notin {"restatus", "reoffset"}
    BY <1>1, <2>1, StatusDistinct DEF Tally
  <2> QED  BY <2>3, <2>4, <2>5, <2>6 DEF Looping
<1> QED  BY <1>2, <1>3

LEMMA EmptiedLaps ==
  ASSUME WholeLapsOnly, UNCHANGED rom,
         \A b \in Blocks : flash'[b] = Blank \/ flash'[b] = flash[b]
  PROVE  WholeLapsOnly'
<1>1. \A b \in Blocks : LapsOf(b)' = LapsOf(b)
  BY LapsSame, GeometryAssumption DEF Blocks
<1> QED  BY <1>1 DEF WholeLapsOnly

(* Neither host nor controller is anywhere else than before.                *)
LEMMA QuietLaps ==
  ASSUME LapsInv, UNCHANGED hostVars,
         UNCHANGED <<flash, status, addr, erased, idx, buf, crc>>
  PROVE  LapsInv'
<1>1. PreparedInv'
  BY DEF LapsInv, PreparedInv, hostVars, ToSend, Volume
<1>2. TallyInv'
  BY TallySame DEF LapsInv, TallyInv, hostVars
<1>3. PendingInv2'
  BY DEF LapsInv, PendingInv2, BlockPending, LapsOf, FileBlock2, hostVars
<1>4. ErasedInv'
  BY DEF LapsInv, ErasedInv, Transferring, hostVars
<1>5. WholeLapsOnly'
  BY LapsKept DEF LapsInv, hostVars
<1> QED  BY <1>1, <1>2, <1>3, <1>4, <1>5 DEF LapsInv

LEMMA RefuseBlockLaps == ASSUME LapsInv, RefuseBlock, UNCHANGED hostVars PROVE LapsInv'
<1>1. PreparedInv' /\ TallyInv'
  BY TaskKeepsTally DEF RefuseBlock
<1>2. UNCHANGED <<flash, rom, addr, erased>> /\ status' = BAD_CRC
  BY DEF RefuseBlock, hostVars
<1>3. Transferring' => Transferring
  BY StatusDistinct DEF RefuseBlock, Transferring, hostVars
<1> QED  BY <1>1, <1>2, <1>3, ChipAtRest, StatusDistinct DEF LapsInv

LEMMA EraseSectorLaps == ASSUME TInv, LapsInv, EraseSector, UNCHANGED hostVars PROVE LapsInv'
<1>1. status \in {CHECKING, ACCEPTED} /\ status' = ACCEPTED /\ BlockPending
      /\ UNCHANGED <<addr, idx, buf, crc, rom>>
  BY DEF EraseSector, BlockPending, hostVars
<1>2. PreparedInv' /\ TallyInv'
  BY <1>1, StatusDistinct, TaskKeepsTally
<1>3. PendingInv2'
  <2>1. buf \in LapsOf(addr) /\ LapsOf(addr)' = LapsOf(addr)
    BY <1>1 DEF LapsInv, PendingInv2, LapsOf, FileBlock2
  <2> QED  BY <1>1, <2>1 DEF PendingInv2
<1>4. CASE addr < ROM_SIZE
  <2>1. flash' = EraseSectorOf(flash, addr) /\ addr \in Blocks
    BY <1>4, TInvParts, GeometryAssumption DEF EraseSector, DeviceTypeOK, Blocks
  <2>2. ErasedInv'
    BY <1>1, <2>1 DEF ErasedInv, SameSector, EraseSectorOf
  <2>3. \A b \in Blocks : flash'[b] = Blank \/ flash'[b] = flash[b]
    BY <2>1 DEF EraseSectorOf
  <2>4. WholeLapsOnly'
    BY <1>1, <2>3, EmptiedLaps DEF LapsInv
  <2> QED  BY <1>2, <1>3, <2>2, <2>4 DEF LapsInv
<1>5. CASE ~(addr < ROM_SIZE)
  <2>1. UNCHANGED <<flash, erased>> /\ ~erased
    BY <1>5 DEF EraseSector
  <2>2. ErasedInv' /\ WholeLapsOnly'
    BY <1>1, <2>1, LapsKept DEF LapsInv, ErasedInv
  <2> QED  BY <1>2, <1>3, <2>2 DEF LapsInv
<1> QED  BY <1>4, <1>5

LEMMA ProgramBlockLaps == ASSUME TInv, LapsInv, ProgramBlock, UNCHANGED hostVars PROVE LapsInv'
<1>1. status \in {CHECKING, ACCEPTED} /\ status' = READY /\ addr' = addr + 1 /\ erased
      /\ BlockPending /\ buf \in LapsOf(addr) /\ UNCHANGED <<idx, buf, crc, rom>>
  BY DEF ProgramBlock, BlockPending, LapsInv, PendingInv2, hostVars
<1>2. addr \in Blocks /\ \A b \in Blocks : b >= addr /\ SameSector(b, addr) => flash[b] = Blank
  BY <1>1 DEF LapsInv, ErasedInv, Transferring
<1>3. addr \in Nat /\ flash \in [Blocks -> Buffer]
  BY TInvParts DEF DeviceTypeOK
<1>4. flash' = [flash EXCEPT ![addr] = buf]
  <2>1. flash[addr] = Blank
    BY <1>2, <1>3, SameSectorReflexive
  <2>2. flash' = [flash EXCEPT ![addr] = IF flash[addr] = Blank THEN buf ELSE Overprinted]
    BY DEF ProgramBlock
  <2> QED  BY <2>1, <2>2
<1>5. PreparedInv' /\ TallyInv'
  BY <1>1, StatusDistinct, TaskKeepsTally
<1>6. PendingInv2'
  BY <1>1, StatusDistinct DEF PendingInv2, BlockPending
<1>7. ErasedInv'
  <2> SUFFICES ASSUME erased' PROVE addr' \in Blocks
                 /\ \A b \in Blocks : b >= addr' /\ SameSector(b, addr') => flash'[b] = Blank
    BY DEF ErasedInv, SameSector
  <2>1. addr + 1 \notin SectorStarts /\ addr + 1 < ROM_SIZE
    BY DEF ProgramBlock
  <2>2. addr' \in Blocks
    BY <1>1, <1>3, <2>1, GeometryAssumption DEF Blocks
  <2>3. ASSUME NEW b \in Blocks, b >= addr', SameSector(b, addr') PROVE flash'[b] = Blank
    <3>1. b \in Nat /\ b > addr /\ SameSector(b, addr)
      BY <1>1, <1>3, <2>1, <2>3, SameSectorNext, GeometryAssumption DEF Blocks
    <3>2. flash[b] = Blank
      BY <1>2, <1>3, <3>1
    <3> QED  BY <1>3, <1>4, <3>1, <3>2
  <2> QED  BY <2>2, <2>3
<1>8. WholeLapsOnly'
  <2> SUFFICES ASSUME NEW b \in Blocks PROVE flash'[b] \in {OldImage[b], Blank} \cup LapsOf(b)'
    BY DEF WholeLapsOnly
  <2>1. LapsOf(b)' = LapsOf(b)
    BY <1>1, LapsSame, GeometryAssumption DEF Blocks
  <2>2. flash'[b] = IF b = addr THEN buf ELSE flash[b]
    BY <1>3, <1>4
  <2> QED  BY <1>1, <2>1, <2>2 DEF LapsInv, WholeLapsOnly
<1> QED  BY <1>5, <1>6, <1>7, <1>8 DEF LapsInv

LEMMA FinaliseLaps == ASSUME LapsInv, Finalise, UNCHANGED hostVars PROVE LapsInv'
<1>1. status = FINALISE /\ status' = RECEIVING /\ UNCHANGED <<addr, erased, idx, buf, crc, rom>>
  BY DEF Finalise, hostVars
<1>2. \A b \in Blocks : flash'[b] = Blank \/ flash'[b] = flash[b]
  BY DEF Finalise
<1>3. PreparedInv' /\ TallyInv'
  BY <1>1, StatusDistinct, TaskKeepsTally
<1>4. PendingInv2'
  BY <1>1, StatusDistinct DEF PendingInv2, BlockPending
<1>5. ErasedInv'
  BY <1>1, <1>2, StatusDistinct DEF LapsInv, ErasedInv, Transferring, SameSector, hostVars
<1>6. WholeLapsOnly'
  BY <1>1, <1>2, EmptiedLaps DEF LapsInv
<1> QED  BY <1>3, <1>4, <1>5, <1>6 DEF LapsInv

LEMMA JumpLaps == ASSUME LapsInv, JumpToBootBlock, UNCHANGED hostVars PROVE LapsInv'
<1>1. UNCHANGED <<flash, status, mask, addr, erased, idx, buf, crc, reboot>> /\ UNCHANGED rom
  BY DEF JumpToBootBlock, hostVars
<1> QED  BY <1>1, QuietLaps

LEMMA StutterLaps == ASSUME LapsInv, UNCHANGED vars PROVE LapsInv'
<1>1. UNCHANGED hostVars /\ UNCHANGED <<flash, status, addr, erased, idx, buf, crc>>
  BY DEF vars, deviceVars
<1> QED  BY <1>1, QuietLaps

(* The prologue.                                                            *)

LEMMA OpeningLaps ==
  ASSUME TInv, LapsInv,
         Start2 \/ StartsNothing2 \/ ReadId \/ ReadVer \/ ReadBase \/ ReadStatus
  PROVE  LapsInv'
<1>1. UNCHANGED deviceVars /\ UNCHANGED rom
  BY DEF Start2, Start, StartsNothing2, ReadId, ReadVer, ReadBase, ReadStatus, Read
<1>2. CASE pc' = "off"
  BY <1>1, <1>2, LeavesLoop
<1>3. CASE pc' # "off"
  <2>1. ASSUME Start2 PROVE PreparedInv'
    BY <2>1 DEF Start2, Start, PreparedInv
  <2>2. ASSUME ReadId \/ ReadVer \/ ReadBase \/ ReadStatus PROVE PreparedInv'
    <3>1. /\ pc \in {"id", "ver", "base", "status"}
          /\ pc' \in {"ver", "base", "status", "phase"}
          /\ UNCHANGED <<temp, first, need>>
      BY <1>3, <2>2 DEF ReadId, ReadVer, ReadBase, ReadStatus, Read, GoTo, Leave
    <3>2. pc' = "phase" => ReadStatus
      BY <1>3, <2>2 DEF ReadId, ReadVer, ReadBase, Read, GoTo, Leave
    <3>3. pc' = "phase" => remaining' = Volume(incl')
      BY <1>3, <3>2 DEF ReadStatus, Read, Leave
    <3>4. Volume(incl') = ToSend'
      BY <1>1 DEF ToSend, Volume, Sub32
    <3> QED  BY <3>1, <3>3, <3>4 DEF LapsInv, PreparedInv
  <2>3. PreparedInv' /\ pc' \in {"id", "ver", "base", "status", "phase"}
    <3>1. ~StartsNothing2
      BY <1>3 DEF StartsNothing2, Leave
    <3>2. pc' \in {"id", "ver", "base", "status", "phase"}
      BY <1>3, <3>1 DEF Start2, Start, ReadId, ReadVer, ReadBase, ReadStatus, Read, GoTo, Leave
    <3> QED  BY <2>1, <2>2, <3>1, <3>2
  <2>4. TallyInv'
    BY <2>3 DEF TallyInv, Looping
  <2>5. ErasedInv'
    BY <1>1, <2>3, ErasedUntouched DEF LapsInv, Transferring, deviceVars
  <2> QED  BY <1>1, <2>3, <2>4, <2>5, ChipUntouched DEF LapsInv
<1> QED  BY <1>2, <1>3

LEMMA SendPhaseLaps == ASSUME TInv, LapsInv, SendPhase PROVE LapsInv'
<1> SUFFICES ASSUME RecvPhase(IF incl THEN 2 ELSE 1, args.mask), GoTo("offset") PROVE LapsInv'
  BY LeavesLoop DEF SendPhase, Write, Leave
<1>1. /\ pc = "phase" /\ UNCHANGED rom
      /\ RecvPhase(IF incl THEN 2 ELSE 1, args.mask) /\ GoTo("offset")
  BY DEF SendPhase, Write
<1>2. status' = READY /\ UNCHANGED <<flash, idx, buf, crc, erased>>
  BY <1>1 DEF RecvPhase
<1>3. pc' = "offset" /\ UNCHANGED <<incl, remaining, temp, first, need, i>>
  BY <1>1 DEF GoTo
<1>4. PreparedInv'
  BY <1>1, <1>2, <1>3 DEF LapsInv, PreparedInv, ToSend, Volume
<1>5. TallyInv' /\ ~Transferring'
  BY <1>2, <1>3, StatusDistinct DEF TallyInv, Looping, Transferring
<1>6. PendingInv2' /\ ErasedInv'
  BY <1>2, <1>5, StatusDistinct DEF PendingInv2, BlockPending, ErasedInv
<1> QED  BY <1>1, <1>2, <1>4, <1>5, <1>6, LapsKept DEF LapsInv

LEMMA ZeroTally == 0 % LAP = 0
  BY LapAssumption

LEMMA SendOffsetLaps == ASSUME TInv, LapsInv, SendOffset PROVE LapsInv'
<1> SUFFICES ASSUME RecvOffset(Low16(Sub32(rom.size, remaining))), GoTo(LoopHead(remaining, need))
             PROVE  LapsInv'
  BY LeavesLoop DEF SendOffset, Write, Leave
<1>1. /\ pc = "offset" /\ UNCHANGED rom
      /\ RecvOffset(Low16(Sub32(rom.size, remaining))) /\ GoTo(LoopHead(remaining, need))
  BY DEF SendOffset, Write
<1>2. temp = 0 /\ ~first /\ ~need /\ remaining = ToSend /\ status = READY
  BY <1>1 DEF LapsInv, PreparedInv
<1>3. addr' = FirstBlock /\ ~erased' /\ idx' = 0 /\ UNCHANGED <<flash, status, buf, crc>>
  BY <1>1, <1>2, FirstOffset DEF RecvOffset
<1>4. UNCHANGED <<incl, remaining, temp, first, need, i>>
      /\ pc' = IF remaining = 0 THEN "final" ELSE "poll"
  BY <1>1, <1>2 DEF GoTo, LoopHead
<1>5. remaining \in Nat /\ FirstBlock \in Nat /\ FirstBlock' = FirstBlock /\ ToSend' = ToSend
  BY <1>1, <1>4, TInvParts, ArgsType, HostAssumption DEF HostTypeOK, FirstBlock, ToSend, Volume
<1>6. PreparedInv'
  BY <1>4 DEF PreparedInv
<1>7. TallyInv'
  <2>1. pc' \in Looping => Tally(0)'
    BY <1>2, <1>3, <1>4, <1>5, ZeroTally DEF Tally, Looping
  <2> QED  BY <2>1 DEF TallyInv
<1>8. status' \notin {CHECKING, ACCEPTED}
  BY <1>2, <1>3, StatusDistinct
<1> QED  BY <1>1, <1>3, <1>6, <1>7, <1>8, ChipAtRest DEF LapsInv

(* The rejump.                                                              *)

LEMMA RejumpPhaseLaps == ASSUME TInv, LapsInv, RejumpPhase2 PROVE LapsInv'
<1> SUFFICES ASSUME RecvPhase(1, args.mask), ~need', pc' = "restatus",
                    UNCHANGED <<outcome, args, ram_id, incl, remaining, temp, first, i>>
             PROVE  LapsInv'
  BY LeavesLoop DEF RejumpPhase2, Write2
<1>1. /\ pc = "rephase" /\ UNCHANGED rom
      /\ RecvPhase(1, args.mask)
      /\ ~need' /\ pc' = "restatus"
      /\ UNCHANGED <<outcome, args, ram_id, incl, remaining, temp, first, i>>
  BY DEF RejumpPhase2, Write2
<1>2. status' = READY /\ UNCHANGED <<flash, idx, buf, crc, erased>>
  BY <1>1 DEF RecvPhase
<1>3. PICK n \in Nat : Tally(n)
  BY <1>1 DEF LapsInv, TallyInv, Looping
<1>4. ToSend' = ToSend
  BY <1>1 DEF ToSend, Volume
<1>5. PreparedInv'
  BY <1>1 DEF PreparedInv
<1>6. Tally(n)'
  BY <1>1, <1>2, <1>3, <1>4 DEF Tally
<1>7. TallyInv' /\ ~Transferring'
  BY <1>1, <1>2, <1>6, StatusDistinct DEF TallyInv, Transferring
<1>8. PendingInv2' /\ ErasedInv'
  BY <1>2, <1>7, StatusDistinct DEF PendingInv2, BlockPending, ErasedInv
<1> QED  BY <1>1, <1>2, <1>5, <1>7, <1>8, LapsKept DEF LapsInv

LEMMA RejumpStatusLaps == ASSUME TInv, LapsInv, RejumpStatus2 PROVE LapsInv'
<1>1. /\ pc = "restatus" /\ UNCHANGED rom /\ UNCHANGED deviceVars
      /\ GoTo("reoffset") \/ GoTo("final")
  BY DEF RejumpStatus2, Read2, Break
<1>2. CASE GoTo("final")
  BY <1>1, <1>2, LeavesLoop DEF GoTo
<1>3. CASE GoTo("reoffset")
  <2>1. pc' = "reoffset" /\ UNCHANGED <<incl, remaining, temp, first, need, i, status>>
    BY <1>1, <1>3 DEF GoTo, deviceVars
  <2>2. PICK n \in Nat : Tally(n)
    BY <1>1 DEF LapsInv, TallyInv, Looping
  <2>3. ToSend' = ToSend
    BY <1>1, <2>1 DEF ToSend, Volume
  <2>4. Tally(n)'
    BY <1>1, <2>1, <2>2, <2>3 DEF Tally
  <2>5. PreparedInv' /\ TallyInv'
    BY <2>1, <2>4 DEF PreparedInv, TallyInv
  <2>6. ErasedInv'
    BY <1>1, <2>1, ErasedUntouched DEF LapsInv, Transferring, deviceVars
  <2> QED  BY <1>1, <2>5, <2>6, ChipUntouched DEF LapsInv
<1> QED  BY <1>1, <1>2, <1>3

LEMMA RejumpOffsetLaps == ASSUME TInv, LapsInv, RejumpOffset2 PROVE LapsInv'
<1> SUFFICES ASSUME RecvOffset(Low16(BASE)), GoTo("poll") PROVE LapsInv'
  BY LeavesLoop DEF RejumpOffset2, Write2, Break, GoTo
<1>1. /\ pc = "reoffset" /\ UNCHANGED rom /\ RecvOffset(Low16(BASE)) /\ GoTo("poll")
  BY DEF RejumpOffset2, Write2
<1>2. addr' = BASE /\ ~erased' /\ idx' = 0 /\ UNCHANGED <<flash, status, buf, crc>>
  BY <1>1, Low16Small DEF RecvOffset
<1>3. pc' = "poll" /\ UNCHANGED <<incl, remaining, temp, first, need, i>>
  BY <1>1 DEF GoTo
<1>4. PICK n \in Nat : Tally(n)
  BY <1>1 DEF LapsInv, TallyInv, Looping
<1>5. incl /\ first /\ ~need /\ n = BASE - 1 /\ status = READY /\ remaining # 0
      /\ BASE \in Nat
  BY <1>1, <1>4, GeometryAssumption DEF Tally
<1>6. ToSend' = ToSend /\ FirstBlock' = 0
  BY <1>1, <1>3, <1>5 DEF ToSend, Volume, FirstBlock
<1>7. Tally(n)'
  BY <1>2, <1>3, <1>4, <1>5, <1>6 DEF Tally
<1>8. PreparedInv' /\ TallyInv'
  BY <1>3, <1>7 DEF PreparedInv, TallyInv
<1>9. status' \notin {CHECKING, ACCEPTED}
  BY <1>2, <1>5, StatusDistinct
<1> QED  BY <1>1, <1>2, <1>8, <1>9, ChipAtRest DEF LapsInv

(* The end.                                                                 *)

LEMMA ClosingLaps ==
  ASSUME TInv, LapsInv, SendFinalise2 \/ SendFinish2
  PROVE  LapsInv'
<1>1. CASE SendFinalise2
  <2> SUFFICES ASSUME RecvPhase(4, 0) PROVE LapsInv'
    BY <1>1, LeavesLoop DEF SendFinalise2, Write2, GoTo
  <2>1. RecvPhase(4, 0) /\ GoTo("finish") /\ UNCHANGED rom
    BY <1>1 DEF SendFinalise2, Write2
  <2>2. status' = FINALISE /\ pc' = "finish" /\ UNCHANGED flash
    BY <2>1 DEF RecvPhase, GoTo
  <2>3. PreparedInv' /\ TallyInv' /\ ~Transferring'
    BY <2>2, StatusDistinct DEF PreparedInv, TallyInv, Looping, Transferring
  <2>4. PendingInv2' /\ ErasedInv'
    BY <2>2, <2>3, StatusDistinct DEF PendingInv2, BlockPending, ErasedInv
  <2> QED  BY <2>1, <2>2, <2>3, <2>4, LapsKept DEF LapsInv
<1>2. CASE SendFinish2
  <2>1. UNCHANGED rom /\ pc' = "off" /\ UNCHANGED <<flash, status, addr, erased, idx, buf, crc>>
    BY <1>2 DEF SendFinish2, Write2, Leave, RecvFinish, deviceVars
  <2>2. PreparedInv' /\ TallyInv'
    BY <2>1 DEF PreparedInv, TallyInv, Looping
  <2>3. PendingInv2' /\ ErasedInv'
    BY <2>1 DEF LapsInv, PendingInv2, BlockPending, ErasedInv, Transferring, LapsOf, FileBlock2
  <2> QED  BY <2>1, <2>2, <2>3, LapsKept DEF LapsInv
<1> QED  BY <1>1, <1>2

(* Laps.                                                                    *)

LEMMA LapApart ==
  ASSUME NEW q \in Nat, NEW d \in Nat, NEW m \in Nat, q < d
  PROVE  q * m + m <= d * m
<1>1. PICK e \in Nat : d = q + 1 + e
  <2> WITNESS (d - q - 1) \in Nat
  <2> QED  OBVIOUS
<1>2. d * m = q * m + m + e * m /\ e * m \in Nat /\ q * m \in Nat
  BY <1>1
<1> QED  BY <1>1, <1>2

LEMMA RemainderUnique ==
  ASSUME NEW a \in Nat, NEW m \in Nat, m > 0, NEW q \in Nat, NEW r \in 0..(m - 1),
         a = q * m + r
  PROVE  a % m = r
<1> DEFINE d == a \div m
           e == a % m
<1>1. d \in Nat /\ e \in 0..(m - 1) /\ a = d * m + e
  OBVIOUS
<1>2. q * m \in Nat /\ d * m \in Nat
  BY <1>1
<1> HIDE DEF d, e
<1>3. ~(q < d) /\ ~(d < q)
  BY <1>1, <1>2, LapApart
<1>4. q = d
  BY <1>1, <1>3
<1>5. e = r
  BY <1>1, <1>2, <1>4
<1> QED  BY <1>5 DEF e

(* The byte plus one is the byte of the next number.                        *)
LEMMA NextInLap == ASSUME NEW n \in Nat PROVE ((n % LAP) + 1) % LAP = (n + 1) % LAP
<1> DEFINE q == n \div LAP
           r == n % LAP
<1>1. LAP \in Nat /\ LAP > 0
  BY LapAssumption
<1>2. q \in Nat /\ r \in 0..(LAP - 1) /\ n = q * LAP + r
  BY <1>1
<1> HIDE DEF q, r
<1>3. CASE r + 1 < LAP
  <2>1. n + 1 = q * LAP + (r + 1) /\ r + 1 \in 0..(LAP - 1)
    BY <1>1, <1>2, <1>3
  <2>2. (n + 1) % LAP = r + 1
    BY <1>1, <1>2, <2>1, RemainderUnique
  <2>3. r + 1 = 0 * LAP + (r + 1)
    BY <1>1, <1>2
  <2>4. (r + 1) % LAP = r + 1
    BY <1>1, <1>2, <2>1, <2>3, RemainderUnique
  <2> QED  BY <2>2, <2>4 DEF r
<1>4. CASE r + 1 = LAP
  <2>1. n + 1 = (q + 1) * LAP + 0 /\ q + 1 \in Nat /\ 0 \in 0..(LAP - 1)
    BY <1>1, <1>2, <1>4
  <2>2. (n + 1) % LAP = 0
    BY <1>1, <1>2, <2>1, RemainderUnique
  <2>3. r + 1 = 1 * LAP + 0
    BY <1>1, <1>4
  <2>4. (r + 1) % LAP = 0
    BY <1>1, <1>2, <2>1, <2>3, RemainderUnique
  <2> QED  BY <2>2, <2>4 DEF r
<1> QED  BY <1>1, <1>2, <1>3, <1>4

(* The block sent lies a whole number of laps from the block it is put at.  *)
LEMMA CurrentInLaps ==
  ASSUME TInv, NEW n \in Nat, temp = n % LAP
  PROVE  FileBlock2(Current) \in LapsOf(FirstBlock + n)
<1>1. FirstBlock \in {0, BASE} /\ FirstBlock \in Nat
  BY GeometryAssumption DEF FirstBlock
<1>2. FirstBlock <= FirstBlock + n /\ (FirstBlock + n) - FirstBlock = n
  BY <1>1
<1>3. Current = FirstBlock + (((FirstBlock + n) - FirstBlock) % LAP)
  BY <1>2 DEF Current
<1>4. FirstBlock \in {s \in {0, BASE} : s <= FirstBlock + n}
  BY <1>1, <1>2
<1> HIDE DEF FirstBlock
<1> QED  BY <1>3, <1>4 DEF LapsOf

(* An accepted block, counted on from n.                                    *)
LEMMA BlockDoneTally ==
  ASSUME TInv, pc = "poll", NEW n \in Nat, Tally(n), BlockDone2, UNCHANGED <<incl, rom>>
  PROVE  /\ first'
         /\ temp' = (IF first THEN n + 1 ELSE n) % LAP
         /\ remaining' = 0 \/ ToSend' = remaining' + (IF first THEN n + 1 ELSE n) + 1
         /\ need' => incl' /\ first' /\ (IF first THEN n + 1 ELSE n) = BASE - 1
<1> DEFINE m == IF first THEN n + 1 ELSE n
<1>1. rom.size \in 0..(WORD - 1) /\ remaining \in 1..(WORD - 1) /\ ~need /\ temp = n % LAP
      /\ ToSend = remaining + m
  <2>1. rom.size \in 0..(WORD - 1) /\ remaining \in 0..(WORD - 1)
    BY TInvParts, ArgsType DEF HostTypeOK
  <2>2. remaining # 0 /\ ToSend = remaining + n + (IF first THEN 1 ELSE 0) /\ ~need /\ temp = n % LAP
    BY DEF Tally
  <2> QED  BY <2>1, <2>2
<1>2. BASE \in 1..(WORD - 1) /\ WORD \in Nat /\ m \in Nat
  BY HostAssumption, GeometryAssumption
<1>3. Sub32(remaining, 1) = remaining - 1
  BY <1>1 DEF Sub32
<1>4. first' /\ temp' = m % LAP
  BY <1>1, NextInLap DEF BlockDone2, NextTemp2
<1>5. ToSend' = ToSend
  BY DEF ToSend, Volume, Sub32
<1> HIDE DEF m
<1>6. remaining' = 0 \/ remaining' = remaining - 1
  BY <1>3 DEF BlockDone2
<1>7. remaining' = 0 \/ ToSend' = remaining' + m + 1
  BY <1>1, <1>2, <1>5, <1>6
<1>8. ASSUME need' PROVE incl /\ m = BASE - 1
  <2>1. Sub32(rom.size, BASE) = remaining - 1
    BY <1>1, <1>3, <1>8 DEF BlockDone2
  <2>2. incl
    BY <1>1, <1>2, <2>1 DEF ToSend, Volume
  <2>3. rom.size = remaining + m
    BY <1>1, <2>2 DEF ToSend, Volume
  <2>4. rom.size >= BASE
    <3> SUFFICES ASSUME ~(rom.size >= BASE) PROVE FALSE
      OBVIOUS
    <3>1. Sub32(rom.size, BASE) = rom.size - BASE + WORD
      BY DEF Sub32
    <3> QED  BY <1>1, <1>2, <2>1, <2>3, <3>1
  <2>5. Sub32(rom.size, BASE) = rom.size - BASE
    BY <2>4 DEF Sub32
  <2> QED  BY <1>1, <1>2, <2>1, <2>2, <2>3, <2>5
<1>9. need' => incl' /\ first' /\ m = BASE - 1
  BY <1>4, <1>8
<1> QED  BY <1>4, <1>7, <1>9 DEF m

LEMMA PollLaps == ASSUME TInv, LapsInv, PollProgress2 PROVE LapsInv'
<1>1. /\ pc = "poll" /\ UNCHANGED rom /\ UNCHANGED deviceVars
      /\ UNCHANGED <<status, idx, addr, buf, crc>>
  BY DEF PollProgress2, Read2, deviceVars
<1>2. PICK n \in Nat : Tally(n)
  BY <1>1 DEF LapsInv, TallyInv, Looping
<1>3. CASE GoTo("poll")
  <2>1. UNCHANGED <<pc, incl, remaining, temp, first, need, i>>
    BY <1>1, <1>3 DEF GoTo
  <2>2. Tally(n)'
    BY <1>1, <1>2, <2>1 DEF Tally, ToSend, Volume, FirstBlock
  <2>3. PreparedInv' /\ TallyInv'
    BY <1>1, <2>1, <2>2 DEF PreparedInv, TallyInv
  <2>4. ErasedInv'
    BY <1>1, <2>1, ErasedUntouched DEF LapsInv, Transferring
  <2> QED  BY <1>1, <2>3, <2>4, ChipUntouched DEF LapsInv
<1>4. CASE Leave("killed") \/ Break
  BY <1>1, <1>4, LeavesLoop DEF Leave, Break, GoTo
<1>5. CASE /\ pc' = "stream" /\ i' = 1 /\ UNCHANGED incl
           /\ \/ status = READY /\ BlockDone2
              \/ status \in {RECEIVING, BAD_CRC} /\ UNCHANGED <<remaining, temp, first, need>>
  <2>1. /\ status \in {READY, BAD_CRC, RECEIVING, CHECKING, ACCEPTED} /\ remaining # 0
        /\ ~first => status = READY
        /\ addr = FirstBlock + n + (IF status = READY /\ first THEN 1 ELSE 0)
    BY <1>1, <1>2 DEF Tally
  <2>2. FirstBlock' = FirstBlock /\ FirstBlock \in Nat
    BY <1>5, TInvParts, ArgsType DEF FirstBlock
  <2>3. \E m \in Nat : Tally(m)'
    <3>1. CASE status = READY /\ BlockDone2
      <4>0. PICK m \in Nat : m = IF first THEN n + 1 ELSE n
        OBVIOUS
      <4>1. /\ first'
            /\ temp' = m % LAP
            /\ remaining' = 0 \/ ToSend' = remaining' + m + 1
            /\ need' => incl' /\ first' /\ m = BASE - 1
        BY <1>1, <1>2, <1>5, <3>1, <4>0, BlockDoneTally
      <4>2. addr' = FirstBlock' + m
        BY <1>1, <2>1, <2>2, <3>1, <4>0
      <4>3. Tally(m)'
        BY <1>1, <1>5, <2>1, <3>1, <4>1, <4>2, StatusDistinct DEF Tally
      <4> QED  BY <4>3
    <3>2. CASE status \in {RECEIVING, BAD_CRC} /\ UNCHANGED <<remaining, temp, first, need>>
      <4>1. first /\ addr' = FirstBlock' + n
        BY <1>1, <2>1, <2>2, <3>2, StatusDistinct
      <4>2. ToSend' = ToSend
        BY <1>1, <1>5 DEF ToSend, Volume
      <4>3. Tally(n)'
        BY <1>1, <1>2, <1>5, <2>1, <3>2, <4>1, <4>2, StatusDistinct DEF Tally
      <4> QED  BY <4>3
    <3> QED  BY <1>5, <3>1, <3>2
  <2>4. PreparedInv' /\ TallyInv'
    BY <1>5, <2>3 DEF PreparedInv, TallyInv
  <2>5. ErasedInv'
    BY <1>1, <1>5, ErasedUntouched DEF LapsInv, Transferring
  <2> QED  BY <1>1, <2>4, <2>5, ChipUntouched DEF LapsInv
<1> QED  BY <1>3, <1>4, <1>5 DEF PollProgress2, Read2, Done, ToResend

(* The controller takes a frame of the block, whichever it takes it for.    *)
LEMMA FrameArrives2 ==
  ASSUME TInv, LapsInv, pc = "stream", UNCHANGED rom,
         NEW frame, RecvData(frame), ~Mixture(FileBlock2(Current)),
         pc' \in {"stream", "crc"},
         UNCHANGED <<incl, remaining, temp, first, need>>
  PROVE  LapsInv'
<1>1. PICK n \in Nat : Tally(n)
  BY DEF LapsInv, TallyInv, Looping
<1>2. /\ status' \in {RECEIVING, CHECKING}
      /\ status' = CHECKING => CrcOf(buf') # crc'
      /\ UNCHANGED <<flash, addr, erased>>
  BY TInvParts, StatusDistinct, GeometryAssumption DEF RecvData, Mixture, DeviceTypeOK
<1>3. FirstBlock' = FirstBlock /\ ToSend' = ToSend
  BY DEF FirstBlock, ToSend, Volume
<1>4. Tally(n)'
  BY <1>1, <1>2, <1>3, StatusDistinct DEF Tally
<1>5. PreparedInv' /\ TallyInv'
  BY <1>4 DEF PreparedInv, TallyInv
<1>6. PendingInv2'
  BY <1>2, StatusDistinct DEF PendingInv2, BlockPending
<1>7. ErasedInv'
  BY <1>2 DEF LapsInv, ErasedInv, Transferring
<1> QED  BY <1>2, <1>5, <1>6, <1>7, LapsKept DEF LapsInv

(* Or it takes none: the frame is lost, or its write fails.                 *)
LEMMA NoFrame2 ==
  ASSUME TInv, LapsInv, pc = "stream", UNCHANGED rom, UNCHANGED deviceVars,
         pc' \in {"stream", "crc"},
         UNCHANGED <<incl, remaining, temp, first, need>>
  PROVE  LapsInv'
<1>1. PICK n \in Nat : Tally(n)
  BY DEF LapsInv, TallyInv, Looping
<1>2. FirstBlock' = FirstBlock /\ ToSend' = ToSend
  BY DEF FirstBlock, ToSend, Volume
<1>3. Tally(n)'
  BY <1>1, <1>2 DEF Tally, deviceVars
<1>4. PreparedInv' /\ TallyInv'
  BY <1>3 DEF PreparedInv, TallyInv
<1>5. ErasedInv'
  BY ErasedUntouched DEF LapsInv, Transferring
<1> QED  BY <1>4, <1>5, ChipUntouched DEF LapsInv

LEMMA StreamLaps ==
  ASSUME TInv, LapsInv, StreamData2, ~Mixture(FileBlock2(Current))
  PROVE  LapsInv'
<1>1. UNCHANGED rom /\ pc = "stream"
  BY DEF StreamData2, SendFrame2, Write2
<1>2. pc' \in {"stream", "crc"} /\ UNCHANGED <<incl, remaining, temp, first, need>>
  BY DEF StreamData2, SendFrame2, Write2, GoTo
<1>3. (\E frame : RecvData(frame)) \/ UNCHANGED deviceVars
  BY DEF StreamData2, SendFrame2, Write2
<1> QED  BY <1>1, <1>2, <1>3, FrameArrives2, NoFrame2

(* The sending of a block is over: what the controller has got is the block *)
(* and its sum, or something it is not going to program.                    *)
LEMMA SumSent2 ==
  ASSUME TInv, LapsInv, pc = "crc", UNCHANGED <<rom, flash, addr, erased>>,
         GoTo(LoopHead(remaining, need)), ~Unheard,
         status' \in {READY, BAD_CRC, RECEIVING, CHECKING},
         BlockPending' => buf' = FileBlock2(Current)
  PROVE  LapsInv'
<1>1. PICK n \in Nat : Tally(n)
  BY DEF LapsInv, TallyInv, Looping
<1>2. first /\ addr = FirstBlock + n /\ temp = n % LAP
  BY <1>1 DEF Tally
<1>3. /\ pc' = LoopHead(remaining, need)
      /\ UNCHANGED <<incl, remaining, temp, first, need, i>>
  BY DEF GoTo
<1>4. /\ pc' \in {"final", "rephase", "poll"}
      /\ pc' \in Looping => remaining # 0
      /\ pc' = "rephase" => need
      /\ pc' = "poll" => ~need
  BY <1>3 DEF LoopHead, Looping
<1>5. PreparedInv'
  BY <1>4 DEF PreparedInv
<1>6. TallyInv'
  <2>1. ToSend' = ToSend /\ FirstBlock' = FirstBlock /\ FirstBlock \in Nat
    BY <1>3, TInvParts, ArgsType DEF ToSend, Volume, FirstBlock
  <2>2. pc' = "poll" => status' # READY
    BY DEF Unheard
  <2>3. pc' \in Looping => Tally(n)'
    BY <1>1, <1>2, <1>3, <1>4, <2>1, <2>2, StatusDistinct DEF Tally
  <2> QED  BY <2>3 DEF TallyInv
<1>7. PendingInv2'
  <2>1. FileBlock2(Current) \in LapsOf(addr)
    BY <1>2, CurrentInLaps
  <2>2. LapsOf(addr)' = LapsOf(addr)
    BY DEF LapsOf, FileBlock2
  <2> QED  BY <2>1, <2>2 DEF PendingInv2
<1>8. ErasedInv'
  BY DEF LapsInv, ErasedInv, Transferring
<1> QED  BY <1>5, <1>6, <1>7, <1>8, LapsKept DEF LapsInv

LEMMA SendCrcLaps ==
  ASSUME TInv, LapsInv, SendCrc2, ~Mixture(FileBlock2(Current)), ~Unheard
  PROVE  LapsInv'
<1>1. UNCHANGED rom /\ pc = "crc"
  BY DEF SendCrc2, SendFrame2, Write2
<1>2. ASSUME NEW frame, RecvData(frame), GoTo(LoopHead(remaining, need)) PROVE LapsInv'
  <2>1. status' \in {RECEIVING, CHECKING} /\ UNCHANGED <<flash, addr, erased>>
    BY <1>2 DEF RecvData
  <2>2. BlockPending' => buf' = FileBlock2(Current)
    BY <1>2, TInvParts, StatusDistinct, GeometryAssumption
    DEF RecvData, Mixture, BlockPending, DeviceTypeOK
  <2> QED  BY <1>1, <1>2, <2>1, <2>2, SumSent2
<1>3. CASE UNCHANGED deviceVars /\ GoTo(LoopHead(remaining, need))
  <2>1. UNCHANGED <<flash, addr, erased, status, buf, crc>>
    BY <1>3 DEF deviceVars
  <2>2. PICK n \in Nat : Tally(n)
    BY <1>1 DEF LapsInv, TallyInv, Looping
  <2>3. status \in {READY, BAD_CRC, RECEIVING, CHECKING} /\ ~BlockPending'
    BY <1>1, <2>1, <2>2, StatusDistinct DEF Tally, BlockPending
  <2> QED  BY <1>1, <1>3, <2>1, <2>3, SumSent2
<1>4. CASE UNCHANGED deviceVars /\ Break
  BY <1>1, <1>4, LeavesLoop DEF Break, GoTo
<1>5. \/ (\E frame : RecvData(frame)) /\ GoTo(LoopHead(remaining, need))
      \/ UNCHANGED deviceVars /\ GoTo(LoopHead(remaining, need))
      \/ UNCHANGED deviceVars /\ Break
  BY DEF SendCrc2, SendFrame2, Write2
<1> QED  BY <1>2, <1>3, <1>4, <1>5

LEMMA LapsInvStep ==
  ASSUME TInv, LapsInv, [Next2]_vars, ~Mixture(FileBlock2(Current)), ~Unheard
  PROVE  LapsInv'
<1>1. CASE Host2
  BY <1>1, OpeningLaps, SendPhaseLaps, SendOffsetLaps, RejumpPhaseLaps, RejumpStatusLaps,
     RejumpOffsetLaps, PollLaps, StreamLaps, SendCrcLaps, ClosingLaps
  DEF Host2, Prologue2
<1>2. CASE (DeviceTask \/ JumpToBootBlock) /\ UNCHANGED hostVars
  BY <1>2, RefuseBlockLaps, EraseSectorLaps, ProgramBlockLaps, FinaliseLaps, JumpLaps
  DEF DeviceTask
<1>3. CASE Reset \/ PowerLoss
  BY <1>3, PowerOnLaps DEF Reset, PowerLoss
<1>4. CASE Kill
  BY <1>4, LeavesLoop DEF Kill, HostDies
<1>5. CASE UNCHANGED vars
  BY <1>5, StutterLaps
<1> QED  BY <1>1, <1>2, <1>3, <1>4, <1>5 DEF Next2, Device

(* What a step of the specification with the history variable may do.       *)
LEMMA MisledCases2 ==
  ASSUME [Next2 /\ Remembered(FileBlock2(Current))]_misledVars
  PROVE  /\ [Next2]_vars
         /\ misled => misled'
         /\ ~misled' => UNCHANGED vars \/ (~Mixture(FileBlock2(Current)) /\ ~Unheard)
<1>1. [Next2]_vars
  BY DEF misledVars
<1>2. CASE UNCHANGED misledVars
  BY <1>1, <1>2 DEF misledVars
<1>3. CASE Remembered(FileBlock2(Current))
  BY <1>1, <1>3 DEF Remembered
<1> QED  BY <1>2, <1>3

(* However often its byte wraps, whoever dies, whatever is lost or damaged  *)
(* and whichever calls fail: unless the sum of a mixture happened to match  *)
(* or the READY of the block before was taken for an answer, the second     *)
(* program puts whole blocks of the file on the chip, each a whole number   *)
(* of laps from where it belongs, and nothing else.                         *)
THEOREM MixturesNeedMisled == MisledSpec2 => []WholeLapsUnlessMisled
<1> DEFINE IInv == TInv /\ (misled \/ LapsInv)
           MisledNext == [Next2 /\ Remembered(FileBlock2(Current))]_misledVars
<1>1. MisledInit => IInv
  BY TInvInit, LapsInvInit DEF MisledInit
<1>2. IInv /\ MisledNext => IInv'
  <2> SUFFICES ASSUME IInv, MisledNext PROVE IInv'
    OBVIOUS
  <2>1. TInv'
    BY MisledCases2, TInvStep2
  <2>2. CASE ~misled'
    BY <2>1, <2>2, MisledCases2, StutterLaps, LapsInvStep
  <2> QED  BY <2>1, <2>2
<1>3. IInv => WholeLapsUnlessMisled
  BY DEF LapsInv, WholeLapsUnlessMisled
<1> QED  BY <1>1, <1>2, <1>3, PTL DEF MisledSpec2
-----------------------------------------------------------------------------
(* As long as no call fails and no frame is lost, neither is misled: they   *)
(* agree on the frame, too.                                                 *)

NoCallFails == "fail" \notin FaultKinds

(* As NearPrefix and FrameInv, for the blocks this program sends.           *)
NearPrefix2 ==
  \E j \in 1..P : \A k \in 1..(i - 1) :
    \/ buf[k] = FileBlock2(Current)[k]
    \/ k = j /\ buf[k] \in Corrupted(FileBlock2(Current)[k])

FrameInv2 ==
  /\ pc = "poll" => status # RECEIVING /\ idx = 0
  /\ pc = "stream" => status # CHECKING /\ idx = i - 1 /\ NearPrefix2
  /\ pc = "crc" => status = RECEIVING /\ idx = P /\ i = P + 1 /\ NearPrefix2

(* A data frame arrives as sent, or as the one damaged frame of its block.  *)
LEMMA PrefixGrows2 ==
  ASSUME TInv, NearPrefix2, i \in 1..P, UNCHANGED rom, UNCHANGED <<incl, temp>>,
         NEW frame,
         \/ frame = FileBlock2(Current)[i]
         \/ /\ frame \in Corrupted(FileBlock2(Current)[i])
            /\ \A j \in 1..(i - 1) : buf[j] = FileBlock2(Current)[j],
         buf' = [buf EXCEPT ![i] = frame],
         i' = i + 1
  PROVE  NearPrefix2'
<1>1. Current' = Current /\ FileBlock2(Current)' = FileBlock2(Current)
  BY DEF Current, FirstBlock, FileBlock2
<1>2. buf \in [1..P -> Frame] /\ P \in Nat
  BY TInvParts, GeometryAssumption DEF DeviceTypeOK, Buffer
<1>3. \E j \in 1..P : \A k \in 1..i :
        \/ buf'[k] = FileBlock2(Current)[k]
        \/ k = j /\ buf'[k] \in Corrupted(FileBlock2(Current)[k])
  <2>1. CASE frame = FileBlock2(Current)[i]
    <3>1. PICK j \in 1..P : \A k \in 1..(i - 1) :
            \/ buf[k] = FileBlock2(Current)[k]
            \/ k = j /\ buf[k] \in Corrupted(FileBlock2(Current)[k])
      BY DEF NearPrefix2
    <3>2. \A k \in 1..i : \/ buf'[k] = FileBlock2(Current)[k]
                          \/ k = j /\ buf'[k] \in Corrupted(FileBlock2(Current)[k])
      BY <1>2, <2>1, <3>1
    <3> QED  BY <3>2
  <2>2. CASE /\ frame \in Corrupted(FileBlock2(Current)[i])
             /\ \A j \in 1..(i - 1) : buf[j] = FileBlock2(Current)[j]
    <3>1. \A k \in 1..i : \/ buf'[k] = FileBlock2(Current)[k]
                          \/ k = i /\ buf'[k] \in Corrupted(FileBlock2(Current)[k])
      BY <1>2, <2>2
    <3> QED  BY <3>1
  <2> QED  BY <2>1, <2>2
<1>4. 1..(i' - 1) = 1..i
  BY <1>2
<1> QED  BY <1>1, <1>3, <1>4 DEF NearPrefix2

(* A buffer with at most one damaged frame whose sum is the block's is the  *)
(* block.                                                                   *)
LEMMA SumDecides2 ==
  ASSUME TInv, NearPrefix2, i = P + 1, CrcOf(buf) = CrcOf(FileBlock2(Current))
  PROVE  buf = FileBlock2(Current)
<1> DEFINE block == FileBlock2(Current)
<1>1. block \in Buffer /\ buf \in Buffer
  BY TInvParts, ArgsType, FileBlock2IsBuffer DEF HostTypeOK, DeviceTypeOK
<1>2. block \in [1..P -> Frame] /\ buf \in [1..P -> Frame]
  BY <1>1 DEF Buffer
<1>3. \A j \in 1..P : \A damaged \in Corrupted(block[j]) \ {block[j]} :
        CrcOf([block EXCEPT ![j] = damaged]) # CrcOf(block)
  BY <1>1, DamageNoticed
<1>4. P \in Nat /\ 1..(i - 1) = 1..P
  BY GeometryAssumption
<1> HIDE DEF block
<1>5. PICK j \in 1..P : \A k \in 1..P :
        buf[k] = block[k] \/ (k = j /\ buf[k] \in Corrupted(block[k]))
  BY <1>4 DEF NearPrefix2, block
<1>6. CASE buf[j] = block[j]
  <2>1. \A k \in 1..P : buf[k] = block[k]
    BY <1>5, <1>6
  <2>2. buf = block
    BY <1>1, <2>1, BuffersEqual
  <2> QED  BY <2>2 DEF block
<1>7. CASE buf[j] # block[j]
  <2>1. buf[j] \in Corrupted(block[j]) \ {block[j]}
    BY <1>5, <1>7
  <2>2. buf = [block EXCEPT ![j] = buf[j]]
    BY <1>2, <1>5
  <2>3. CrcOf([block EXCEPT ![j] = buf[j]]) # CrcOf(block)
    BY <1>3, <1>5, <2>1
  <2> QED  BY <2>2, <2>3 DEF block
<1> QED  BY <1>6, <1>7

LEMMA StreamFrame2 ==
  ASSUME NothingLost, NoCallFails, TInv, FrameInv2, StreamData2
  PROVE  FrameInv2' /\ ~Mixture(FileBlock2(Current)) /\ ~Unheard
<1>1. /\ pc = "stream" /\ idx = i - 1 /\ i \in 1..P /\ P \in Nat /\ NearPrefix2
      /\ UNCHANGED rom
  BY TInvParts, GeometryAssumption DEF StreamData2, SendFrame2, Write2, FrameInv2, HostTypeOK
<1>2. ~Mixture(FileBlock2(Current)) /\ ~Unheard
  BY <1>1 DEF Mixture, Unheard
<1>3. ~Fault("lost") /\ ~Fault("fail")
  BY DEF NothingLost, NoCallFails, Fault
<1>4. ASSUME NEW frame, RecvData(frame),
             \/ frame = FileBlock2(Current)[i]
             \/ /\ frame \in Corrupted(FileBlock2(Current)[i])
                /\ \A j \in 1..(i - 1) : buf[j] = FileBlock2(Current)[j],
             i' = i + 1,
             pc' = IF i = P THEN "crc" ELSE "stream",
             UNCHANGED <<incl, temp>>
      PROVE  FrameInv2'
  <2>1. buf' = [buf EXCEPT ![i] = frame] /\ idx' = i /\ status' = RECEIVING
    BY <1>1, <1>4 DEF RecvData
  <2>2. NearPrefix2'
    BY <1>1, <1>4, <2>1, PrefixGrows2
  <2> QED  BY <1>1, <1>4, <2>1, <2>2, StatusDistinct DEF FrameInv2
<1>5. FrameInv2'
  BY <1>3, <1>4 DEF StreamData2, SendFrame2, Write2
<1> QED  BY <1>2, <1>5

LEMMA SumOfFrames2 ==
  ASSUME NothingLost, NoCallFails, TInv, FrameInv2, SendCrc2
  PROVE  FrameInv2' /\ ~Mixture(FileBlock2(Current)) /\ ~Unheard
<1>1. pc = "crc" /\ status = RECEIVING /\ idx = P /\ i = P + 1 /\ NearPrefix2
  BY DEF SendCrc2, FrameInv2
<1>2. ~Fault("lost") /\ ~Fault("fail")
  BY DEF NothingLost, NoCallFails, Fault
<1>3. ASSUME NEW frame, RecvData(frame), GoTo(LoopHead(remaining, need)),
             \/ frame[1] = CrcOf(FileBlock2(Current))
             \/ \A j \in 1..(i - 1) : buf[j] = FileBlock2(Current)[j]
      PROVE  FrameInv2' /\ ~Mixture(FileBlock2(Current)) /\ ~Unheard
  <2>1. crc' = frame[1] /\ idx' = 0 /\ status' = CHECKING /\ UNCHANGED buf
    BY <1>1, <1>3, GeometryAssumption DEF RecvData
  <2>2. pc' \in {"final", "rephase", "poll"}
    BY <1>3 DEF GoTo, LoopHead
  <2>3. CrcOf(buf) = crc' => buf = FileBlock2(Current)
    <3>1. CASE frame[1] = CrcOf(FileBlock2(Current))
      BY <1>1, <2>1, <3>1, SumDecides2
    <3>2. CASE \A j \in 1..(i - 1) : buf[j] = FileBlock2(Current)[j]
      <4>1. FileBlock2(Current) \in Buffer /\ buf \in Buffer
        BY TInvParts, ArgsType, FileBlock2IsBuffer DEF HostTypeOK, DeviceTypeOK
      <4>2. 1..(i - 1) = 1..P
        BY <1>1, GeometryAssumption
      <4> QED  BY <3>2, <4>1, <4>2, BuffersEqual
    <3> QED  BY <1>3, <3>1, <3>2
  <2>4. FrameInv2'
    BY <2>1, <2>2, StatusDistinct DEF FrameInv2
  <2>5. ~Mixture(FileBlock2(Current)) /\ ~Unheard
    BY <1>1, <2>1, <2>3, StatusDistinct DEF Mixture, Unheard
  <2> QED  BY <2>4, <2>5
<1> DEFINE frame == <<CrcOf(FileBlock2(Current)), temp % 256>>
<1>4. frame[1] = CrcOf(FileBlock2(Current))
  OBVIOUS
<1> HIDE DEF frame
<1>5. CASE RecvData(frame) /\ GoTo(LoopHead(remaining, need))
  BY <1>3, <1>4, <1>5
<1>6. CASE /\ \A j \in 1..(i - 1) : buf[j] = FileBlock2(Current)[j]
           /\ \E damaged \in Corrupted(frame) : RecvData(damaged)
           /\ GoTo(LoopHead(remaining, need))
  BY <1>3, <1>6
<1> QED  BY <1>2, <1>5, <1>6 DEF SendCrc2, SendFrame2, Write2, frame

LEMMA PollFrame2 ==
  ASSUME NoCallFails, LapsInv, FrameInv2, PollProgress2
  PROVE  FrameInv2' /\ ~Mixture(FileBlock2(Current)) /\ ~Unheard
<1>1. /\ pc = "poll" /\ pc' \in {"off", "poll", "stream"}
      /\ pc' = "stream" => i' = 1 /\ status \in {READY, RECEIVING, BAD_CRC}
      /\ UNCHANGED deviceVars
  BY DEF PollProgress2, Read2, Done, ToResend, GoTo, Leave, NoCallFails, Fault
<1>2. pc' = "stream" => NearPrefix2'
  <2>1. 1 \in 1..P /\ 1..(1 - 1) = {}
    BY GeometryAssumption
  <2> QED  BY <1>1, <2>1 DEF NearPrefix2
<1>3. UNCHANGED <<idx, status, buf>> /\ P # 0
  BY <1>1, GeometryAssumption DEF deviceVars
<1>4. FrameInv2'
  BY <1>1, <1>2, <1>3, StatusDistinct DEF FrameInv2
<1> QED  BY <1>1, <1>3, <1>4 DEF Mixture, Unheard

(* No other step has to do with frames.                                     *)
LEMMA OtherFrame2 ==
  ASSUME NoCallFails, TInv, LapsInv, FrameInv2, [Next2]_vars,
         ~StreamData2, ~SendCrc2, ~PollProgress2
  PROVE  FrameInv2' /\ ~Mixture(FileBlock2(Current)) /\ ~Unheard
<1>1. P # 0
  BY GeometryAssumption
<1>2. CASE SendOffset \/ RejumpOffset2
  <2>1. pc = "reoffset" => status = READY
    BY DEF LapsInv, TallyInv, Looping, Tally
  <2>2. /\ pc \in {"offset", "reoffset"} /\ status = READY /\ UNCHANGED status
        /\ pc' \in {"off", "final", "rephase", "poll"}
        /\ pc' = "poll" => idx' = 0
        /\ idx' = 0 \/ UNCHANGED idx
    BY <1>2, <2>1 DEF SendOffset, RejumpOffset2, Write, Write2, RecvOffset, Leave, GoTo, Break,
                      LoopHead, LapsInv, PreparedInv, deviceVars
  <2> QED  BY <2>2, StatusDistinct DEF FrameInv2, Mixture, Unheard
<1>3. CASE \/ Start2 \/ StartsNothing2 \/ ReadId \/ ReadVer \/ ReadBase \/ ReadStatus
           \/ SendPhase \/ RejumpPhase2 \/ RejumpStatus2 \/ SendFinalise2 \/ SendFinish2
  <2>1. UNCHANGED idx
    BY <1>3 DEF Start2, Start, StartsNothing2, ReadId, ReadVer, ReadBase, ReadStatus, SendPhase,
                RejumpPhase2, RejumpStatus2, SendFinalise2, SendFinish2, Read, Write, Read2, Write2,
                RecvPhase, RecvFinish, deviceVars
  <2>2. pc # "crc" /\ pc' \notin {"poll", "stream", "crc"}
    BY <1>3 DEF Start2, Start, StartsNothing2, ReadId, ReadVer, ReadBase, ReadStatus, SendPhase,
                RejumpPhase2, RejumpStatus2, SendFinalise2, SendFinish2, Read, Write, Read2, Write2,
                Leave, GoTo, Break
  <2> QED  BY <1>1, <2>1, <2>2 DEF FrameInv2, Mixture, Unheard
<1>4. CASE Reset \/ PowerLoss
  <2>1. pc' = "off" /\ status' = RECEIVING
    BY <1>4 DEF Reset, PowerLoss, PowerOn, HostDies
  <2> QED  BY <2>1, StatusDistinct DEF FrameInv2, Mixture, Unheard
<1>5. CASE Kill
  <2>1. pc' = "off" /\ UNCHANGED idx
    BY <1>5 DEF Kill, HostDies, deviceVars
  <2> QED  BY <1>1, <2>1 DEF FrameInv2, Mixture, Unheard
<1>6. CASE DeviceTask /\ UNCHANGED hostVars
  <2>1. /\ UNCHANGED <<pc, idx, buf>> /\ status \in {CHECKING, ACCEPTED, FINALISE}
        /\ status' \in {BAD_CRC, ACCEPTED, READY, RECEIVING}
        /\ status' = RECEIVING => status = FINALISE
    BY <1>6, StatusDistinct
    DEF DeviceTask, RefuseBlock, EraseSector, ProgramBlock, Finalise, BlockPending, hostVars
  <2>2. pc \in {"poll", "stream", "crc"} => status \in {READY, BAD_CRC, RECEIVING, CHECKING, ACCEPTED}
        /\ (pc # "poll" => status # ACCEPTED)
    BY StatusDistinct DEF LapsInv, TallyInv, Looping, Tally
  <2>3. pc \notin {"stream", "crc"} /\ (pc = "poll" => status # FINALISE)
    BY <2>1, <2>2, StatusDistinct DEF FrameInv2
  <2> QED  BY <1>1, <2>1, <2>3, StatusDistinct DEF FrameInv2, Mixture, Unheard
<1>7. CASE (JumpToBootBlock /\ UNCHANGED hostVars) \/ UNCHANGED vars
  <2>1. UNCHANGED <<idx, status, buf>> /\ UNCHANGED hostVars
    BY <1>7 DEF JumpToBootBlock, vars, deviceVars
  <2>2. FrameInv2'
    BY <2>1 DEF FrameInv2, NearPrefix2, hostVars, Current, FirstBlock, FileBlock2
  <2> QED  BY <1>1, <2>1, <2>2 DEF Mixture, Unheard, hostVars
<1> QED
  BY <1>2, <1>3, <1>4, <1>5, <1>6, <1>7 DEF Next2, Host2, Prologue2, Device

LEMMA FrameInvStep2 ==
  ASSUME NothingLost, NoCallFails, TInv, LapsInv, FrameInv2, [Next2]_vars
  PROVE  FrameInv2' /\ ~Mixture(FileBlock2(Current)) /\ ~Unheard
  BY StreamFrame2, SumOfFrames2, PollFrame2, OtherFrame2

LapsIInv == TInv /\ LapsInv /\ FrameInv2

LEMMA LapsInitially == Init => LapsIInv
  BY TInvInit, LapsInvInit DEF LapsIInv, FrameInv2, Init

LEMMA LapsStep ==
  ASSUME NothingLost, NoCallFails, LapsIInv, [Next2]_vars
  PROVE  LapsIInv'
  BY TInvStep2, LapsInvStep, FrameInvStep2 DEF LapsIInv

(* As long as no call fails and no frame is lost, without exception.        *)
THEOREM LapsOnly ==
  ASSUME NothingLost, NoCallFails
  PROVE  Spec2 => []WholeLapsOnly
<1>1. LapsIInv /\ [Next2]_vars => LapsIInv'
  BY NothingLost, NoCallFails, LapsStep
<1>2. LapsIInv => WholeLapsOnly
  BY DEF LapsIInv, LapsInv
<1> QED  BY <1>1, <1>2, LapsInitially, PTL DEF Spec2
-----------------------------------------------------------------------------
(* The program that runs.  When the sleeps suffice, the second program,     *)
(* too, hands every block to the program that is not its own: whatever the  *)
(* byte says, the controller's address tells.  What follows the loop may be *)
(* reached from anywhere in it, with a block in hand or blocks to send.     *)

SideInv2 ==
  /\ pc \in {"poll", "stream", "crc", "rephase"} =>
       \/ /\ mode = "main" /\ incl
          /\ pc = "poll" => addr < BASE /\ (status # READY => addr + 1 < BASE)
          /\ pc \in {"stream", "crc"} =>
               \/ addr + 1 < BASE
               \/ addr + 1 = BASE /\ (need \/ remaining = 0)
       \/ mode = "boot" /\ pc # "rephase" /\ addr >= BASE
  /\ Pending => (mode = "main" <=> addr < BASE)

EndInv2 == reboot # 0 => pc \in {"off", "id"}

ModeInv2 == JumpInv /\ SideInv2 /\ EndInv2

LEMMA ModeInitially2 == Init => ModeInv2
  BY StatusDistinct DEF Init, DeviceInit, ModeInv2, JumpInv, SideInv2, EndInv2, Pending

LEMMA ModeIdle2 ==
  ASSUME ModeInv2, UNCHANGED <<mode, status, addr, armed, reboot>>,
         pc' \in {"off", "id", "ver", "base", "status"},
         pc' \in {"ver", "base", "status"} => ~armed /\ reboot = 0
  PROVE  ModeInv2'
<1>1. JumpInv'
  BY DEF ModeInv2, JumpInv
<1>2. SideInv2'
  BY DEF ModeInv2, SideInv2, Pending
<1>3. EndInv2'
  BY DEF ModeInv2, EndInv2, Pending
<1> QED  BY <1>1, <1>2, <1>3 DEF ModeInv2

LEMMA ModeQuiet2 ==
  ASSUME ModeInv2,
         UNCHANGED <<pc, incl, remaining, need, mode, status, addr, armed, reboot>>
  PROVE  ModeInv2'
  BY DEF ModeInv2, JumpInv, SideInv2, EndInv2, Pending, FirstBlock

(* The loop is left, or the program.                                        *)
LEMMA ModeBreak2 ==
  ASSUME ModeInv2, UNCHANGED deviceVars,
         Break \/ GoTo("finish") \/ \E how : Leave(how),
         pc' # "off" => ~armed /\ reboot = 0
  PROVE  ModeInv2'
<1>1. pc' \in {"off", "final", "finish"} /\ UNCHANGED <<mode, status, addr, armed, reboot>>
  BY DEF Break, GoTo, Leave, deviceVars
<1>2. JumpInv'
  BY <1>1 DEF ModeInv2, JumpInv
<1>3. SideInv2' /\ EndInv2'
  BY <1>1 DEF ModeInv2, SideInv2, EndInv2, Pending
<1> QED  BY <1>2, <1>3 DEF ModeInv2

LEMMA OpeningMode2 ==
  ASSUME SleepsSuffice, TInv, ModeInv2,
         Start2 \/ StartsNothing2 \/ ReadId \/ ReadVer \/ ReadBase
  PROVE  ModeInv2'
<1>1. UNCHANGED <<mode, status, addr, armed, reboot>>
  BY DEF Start2, Start, StartsNothing2, ReadId, ReadVer, ReadBase, Read, deviceVars
<1>2. CASE Start2 \/ StartsNothing2
  BY <1>1, <1>2, ModeIdle2 DEF Start2, Start, StartsNothing2, Leave
<1>3. CASE ReadId
  BY <1>1, <1>3, ModeIdle2, Awake DEF ReadId, Read, Leave
<1>4. CASE ReadVer \/ ReadBase
  <2>1. ~armed /\ reboot = 0
    BY <1>4 DEF ReadVer, ReadBase, ModeInv2, JumpInv, EndInv2
  <2> QED  BY <1>1, <1>4, <2>1, ModeIdle2 DEF ReadVer, ReadBase, Read, GoTo, Leave
<1> QED  BY <1>2, <1>3, <1>4

LEMMA ReadStatusMode2 ==
  ASSUME TInv, ModeInv2, ReadStatus
  PROVE  ModeInv2'
<1> SUFFICES ASSUME pc' = "phase", incl' = (incl /\ BootStatus # IN_BOOT_BLOCK) PROVE ModeInv2'
  BY ModeBreak2 DEF ReadStatus, Read, Leave
<1>1. /\ pc = "status" /\ pc' = "phase" /\ incl' = (incl /\ BootStatus # IN_BOOT_BLOCK)
      /\ UNCHANGED <<mode, status, addr, armed, reboot>>
  BY DEF ReadStatus, Read, deviceVars
<1>2. ~armed /\ reboot = 0
  BY <1>1 DEF ModeInv2, JumpInv, EndInv2
<1>3. ASSUME incl' PROVE mode = "main"
  <2>1. mode # "boot"
    BY <1>1, <1>3 DEF BootStatus
  <2> QED  BY <2>1, Ranges
<1>4. JumpInv'
  BY <1>1, <1>2, <1>3 DEF JumpInv
<1>5. SideInv2' /\ EndInv2'
  BY <1>1, <1>2 DEF ModeInv2, SideInv2, EndInv2, Pending
<1> QED  BY <1>4, <1>5 DEF ModeInv2

LEMMA SendPhaseMode2 == ASSUME TInv, ModeInv2, SendPhase PROVE ModeInv2'
<1> SUFFICES ASSUME RecvPhase(IF incl THEN 2 ELSE 1, args.mask), GoTo("offset") PROVE ModeInv2'
  BY ModeBreak2 DEF SendPhase, Write, Leave
<1>1. pc = "phase" /\ ~armed /\ reboot = 0 /\ (incl => mode = "main")
  BY DEF SendPhase, ModeInv2, JumpInv, EndInv2
<1>2. RecvPhase(IF incl THEN 2 ELSE 1, args.mask) /\ GoTo("offset")
  OBVIOUS
<1>3. pc' = "offset" /\ status' = READY /\ UNCHANGED <<mode, reboot, incl>>
  BY <1>2 DEF RecvPhase, GoTo
<1>4. IF mode = "main" THEN armed' /\ addr' = FirstBlock ELSE ~armed'
  BY <1>1, <1>2 DEF RecvPhase, FirstBlock
<1>5. JumpInv'
  BY <1>1, <1>3, <1>4, Ranges DEF JumpInv, FirstBlock
<1>6. SideInv2' /\ EndInv2'
  BY <1>1, <1>3, StatusDistinct DEF SideInv2, EndInv2, Pending
<1> QED  BY <1>5, <1>6 DEF ModeInv2

LEMMA SendOffsetMode2 ==
  ASSUME SleepsSuffice, TInv, LapsInv, ModeInv2, SendOffset
  PROVE  ModeInv2'
<1> SUFFICES ASSUME RecvOffset(Low16(Sub32(rom.size, remaining))), GoTo(LoopHead(remaining, need))
             PROVE  ModeInv2'
  BY ModeBreak2 DEF SendOffset, Write, Leave
<1>1. pc = "offset" /\ ~armed /\ reboot = 0 /\ (mode = "main" <=> incl)
  BY Awake DEF SendOffset, ModeInv2, JumpInv
<1>2. ~need /\ remaining = ToSend /\ status = READY
  BY <1>1 DEF LapsInv, PreparedInv
<1>3. RecvOffset(Low16(Sub32(rom.size, remaining))) /\ GoTo(LoopHead(remaining, need))
  OBVIOUS
<1>4. UNCHANGED <<mode, status, armed, reboot, incl, remaining, need>>
      /\ addr' = FirstBlock
  BY <1>2, <1>3, FirstOffset DEF RecvOffset, GoTo
<1>5. pc' = IF remaining = 0 THEN "final" ELSE "poll"
  BY <1>2, <1>3 DEF GoTo, LoopHead
<1>6. JumpInv' /\ EndInv2'
  BY <1>1, <1>2, <1>4, <1>5, StatusDistinct DEF JumpInv, EndInv2, Pending
<1>7. SideInv2'
  BY <1>1, <1>2, <1>4, <1>5, StatusDistinct, Ranges DEF SideInv2, Pending
<1> QED  BY <1>6, <1>7 DEF ModeInv2

LEMMA RejumpPhaseMode2 ==
  ASSUME SleepsSuffice, TInv, ModeInv2, RejumpPhase2
  PROVE  ModeInv2'
<1>1. pc = "rephase" /\ ~armed /\ reboot = 0 /\ mode = "main"
  BY Awake DEF RejumpPhase2, ModeInv2, SideInv2
<1>2. CASE RecvPhase(1, args.mask) /\ pc' = "restatus"
  <2>1. armed' /\ addr' = BASE /\ status' = READY /\ UNCHANGED <<mode, reboot>>
    BY <1>1, <1>2 DEF RecvPhase
  <2> QED
    BY <1>1, <1>2, <2>1, StatusDistinct DEF ModeInv2, JumpInv, SideInv2, EndInv2, Pending
<1>3. CASE UNCHANGED deviceVars /\ pc' = "final"
  BY <1>1, <1>3 DEF ModeInv2, JumpInv, SideInv2, EndInv2, Pending, deviceVars
<1> QED  BY <1>2, <1>3 DEF RejumpPhase2, Write2

LEMMA RejumpStatusMode2 ==
  ASSUME SleepsSuffice, TInv, LapsInv, ModeInv2, RejumpStatus2
  PROVE  ModeInv2'
<1>1. pc = "restatus" /\ ~armed /\ reboot = 0
  BY Awake DEF RejumpStatus2
<1>2. mode = "boot"
  BY <1>1, Ranges DEF ModeInv2, JumpInv
<1>3. status = READY
  BY <1>1 DEF LapsInv, TallyInv, Looping, Tally
<1>4. UNCHANGED deviceVars /\ (GoTo("reoffset") \/ Break)
  BY DEF RejumpStatus2, Read2
<1>5. CASE GoTo("reoffset")
  BY <1>1, <1>2, <1>3, <1>4, <1>5, StatusDistinct
  DEF deviceVars, GoTo, ModeInv2, JumpInv, SideInv2, EndInv2, Pending
<1> QED  BY <1>1, <1>4, <1>5, ModeBreak2

LEMMA RejumpOffsetMode2 ==
  ASSUME TInv, LapsInv, ModeInv2, RejumpOffset2
  PROVE  ModeInv2'
<1>1. pc = "reoffset" /\ mode = "boot" /\ ~armed /\ reboot = 0
  BY DEF RejumpOffset2, ModeInv2, JumpInv, EndInv2
<1>2. status = READY
  BY <1>1 DEF LapsInv, TallyInv, Looping, Tally
<1>3. CASE RecvOffset(Low16(BASE)) /\ GoTo("poll")
  <2>1. pc' = "poll" /\ addr' = BASE /\ UNCHANGED <<mode, armed, reboot, status>>
    BY <1>3, Low16Small DEF RecvOffset, GoTo
  <2> QED
    BY <1>1, <1>2, <2>1, StatusDistinct, Ranges DEF ModeInv2, JumpInv, SideInv2, EndInv2, Pending
<1>4. CASE UNCHANGED deviceVars /\ Break
  BY <1>1, <1>4, ModeBreak2
<1> QED  BY <1>3, <1>4 DEF RejumpOffset2, Write2

(* The rejump is due when the block at the end of the boot block is begun.  *)
LEMMA PollMode2 ==
  ASSUME TInv, LapsInv, ModeInv2, PollProgress2
  PROVE  ModeInv2'
<1>1. pc = "poll" /\ UNCHANGED rom /\ UNCHANGED deviceVars
  BY DEF PollProgress2, Read2
<1>2. CASE GoTo("poll")
  BY <1>1, <1>2, ModeQuiet2 DEF GoTo, deviceVars
<1>3. CASE Leave("killed")
  <2>1. UNCHANGED <<mode, status, addr, armed, reboot>> /\ pc' = "off"
    BY <1>1, <1>3 DEF Leave, deviceVars
  <2> QED  BY <2>1, ModeIdle2
<1>4. CASE /\ pc' = "stream" /\ UNCHANGED incl
           /\ \/ status = READY /\ BlockDone2
              \/ status \in {RECEIVING, BAD_CRC} /\ UNCHANGED <<remaining, temp, first, need>>
  <2>1. ~armed /\ reboot = 0 /\ UNCHANGED <<mode, status, armed, reboot, addr>>
    BY <1>1 DEF ModeInv2, JumpInv, EndInv2, deviceVars
  <2>2. JumpInv' /\ EndInv2' /\ ~Pending'
    BY <1>4, <2>1, StatusDistinct DEF JumpInv, EndInv2, Pending
  <2>3. \/ /\ mode = "main" /\ incl /\ addr < BASE
           /\ status # READY => addr + 1 < BASE
        \/ mode = "boot" /\ addr >= BASE
    BY <1>1 DEF ModeInv2, SideInv2
  <2>4. ASSUME mode = "main", addr + 1 = BASE PROVE need'
    <3>1. PICK n \in Nat : Tally(n)
      BY <1>1 DEF LapsInv, TallyInv, Looping
    <3>2. BlockDone2 /\ status = READY /\ incl
      BY <1>4, <2>3, <2>4, StatusDistinct, Ranges
    <3>3. /\ remaining # 0
          /\ ToSend = remaining + n + (IF first THEN 1 ELSE 0)
          /\ addr = n + (IF first THEN 1 ELSE 0)
      BY <1>1, <3>1, <3>2, Ranges DEF Tally
    <3>4. rom.size = remaining + addr
      BY <3>2, <3>3, Ranges DEF ToSend, Volume
    <3>5. Sub32(remaining, 1) = remaining - 1
      BY <3>3, Ranges DEF Sub32
    <3>6. Sub32(rom.size, BASE) = remaining - 1
      BY <2>4, <3>3, <3>4, Ranges DEF Sub32
    <3> QED  BY <3>2, <3>5, <3>6 DEF BlockDone2
  <2>5. SideInv2'
    BY <1>4, <2>1, <2>2, <2>3, <2>4, Ranges DEF SideInv2
  <2> QED  BY <2>2, <2>5 DEF ModeInv2
<1>5. CASE Break
  BY <1>1, <1>5, ModeBreak2 DEF ModeInv2, JumpInv, EndInv2
<1> QED  BY <1>1, <1>2, <1>3, <1>4, <1>5 DEF PollProgress2, Read2, Done, ToResend

LEMMA StreamMode2 ==
  ASSUME TInv, LapsInv, ModeInv2, StreamData2
  PROVE  ModeInv2'
<1>1. /\ pc = "stream" /\ ~armed /\ reboot = 0
      /\ \/ mode = "main" /\ incl
            /\ (addr + 1 < BASE \/ (addr + 1 = BASE /\ (need \/ remaining = 0)))
         \/ mode = "boot" /\ addr >= BASE
  BY DEF StreamData2, ModeInv2, JumpInv, SideInv2, EndInv2
<1>2. /\ (\E frame : RecvData(frame)) \/ UNCHANGED deviceVars
      /\ pc' \in {"stream", "crc"} /\ UNCHANGED <<incl, remaining, need>>
  BY DEF StreamData2, SendFrame2, Write2, GoTo
<1>3. UNCHANGED <<mode, armed, reboot, addr>>
  BY <1>2 DEF RecvData, deviceVars
<1>4. JumpInv' /\ EndInv2'
  BY <1>1, <1>2, <1>3 DEF JumpInv, EndInv2
<1>5. mode' = "main" <=> addr' < BASE
  BY <1>1, <1>3, Ranges
<1>6. SideInv2'
  BY <1>1, <1>2, <1>3, <1>5 DEF SideInv2
<1> QED  BY <1>4, <1>6 DEF ModeInv2

LEMMA SendCrcMode2 ==
  ASSUME TInv, LapsInv, ModeInv2, SendCrc2
  PROVE  ModeInv2'
<1>1. /\ pc = "crc" /\ ~armed /\ reboot = 0
  BY DEF SendCrc2, ModeInv2, JumpInv, EndInv2
<1>2. PICK n \in Nat : Tally(n)
  BY <1>1 DEF LapsInv, TallyInv, Looping
<1>3. addr = FirstBlock + n /\ (need => incl /\ n = BASE - 1)
  BY <1>1, <1>2 DEF Tally
<1>4. \/ /\ mode = "main" /\ incl
         /\ addr + 1 < BASE \/ (addr + 1 = BASE /\ (need \/ remaining = 0))
      \/ mode = "boot" /\ addr >= BASE
  BY <1>1 DEF ModeInv2, SideInv2
<1>5. mode = "boot" => ~need
  BY <1>3, <1>4, Ranges
<1>6. /\ (\E frame : RecvData(frame)) \/ UNCHANGED deviceVars
      /\ GoTo(LoopHead(remaining, need)) \/ (UNCHANGED deviceVars /\ Break)
  BY DEF SendCrc2, SendFrame2, Write2
<1>7. UNCHANGED <<mode, armed, reboot, addr>>
  BY <1>6 DEF RecvData, deviceVars
<1>8. CASE GoTo(LoopHead(remaining, need))
  <2>1. pc' = LoopHead(remaining, need) /\ UNCHANGED <<incl, remaining, need>>
    BY <1>8 DEF GoTo
  <2>2. /\ pc' \in {"poll", "rephase", "final"}
        /\ pc' = "poll" => ~need /\ remaining # 0
        /\ pc' = "rephase" => need
    BY <2>1 DEF LoopHead
  <2>3. JumpInv' /\ EndInv2'
    BY <1>1, <1>7, <2>2 DEF JumpInv, EndInv2
  <2>4. mode' = "main" <=> addr' < BASE
    BY <1>4, <1>7, Ranges
  <2>5. SideInv2'
    BY <1>4, <1>5, <1>7, <2>1, <2>2, <2>4, Ranges DEF SideInv2
  <2> QED  BY <2>3, <2>5 DEF ModeInv2
<1> QED  BY <1>1, <1>6, <1>8, ModeBreak2

LEMMA ClosingMode2 ==
  ASSUME ModeInv2, SendFinalise2 \/ SendFinish2
  PROVE  ModeInv2'
<1>1. ~armed /\ reboot = 0
  BY DEF SendFinalise2, SendFinish2, ModeInv2, JumpInv, EndInv2
<1>2. CASE RecvPhase(4, 0) /\ GoTo("finish")
  <2>1. pc' = "finish" /\ status' = FINALISE /\ UNCHANGED <<mode, armed, reboot>>
    BY <1>2 DEF GoTo, RecvPhase
  <2> QED
    BY <1>1, <2>1, StatusDistinct DEF ModeInv2, JumpInv, SideInv2, EndInv2, Pending
<1>3. CASE (\E kind : RecvFinish(kind)) /\ Leave("ok")
  <2>1. pc' = "off" /\ UNCHANGED <<mode, armed, status, addr>>
    BY <1>3 DEF Leave, RecvFinish
  <2> QED  BY <1>1, <2>1 DEF ModeInv2, JumpInv, SideInv2, EndInv2, Pending
<1>4. CASE UNCHANGED deviceVars /\ (GoTo("finish") \/ Leave("ok"))
  BY <1>1, <1>4, ModeBreak2
<1> QED  BY <1>2, <1>3, <1>4 DEF SendFinalise2, SendFinish2, Write2

LEMMA TaskMode2 ==
  ASSUME TInv, LapsInv, ModeInv2, DeviceTask, UNCHANGED hostVars
  PROVE  ModeInv2'
<1>1. UNCHANGED <<pc, incl, remaining, need, mode, armed, reboot>>
  BY DEF DeviceTask, RefuseBlock, EraseSector, ProgramBlock, Finalise, hostVars
<1>2. \/ Pending /\ UNCHANGED addr /\ status' \in {BAD_CRC, ACCEPTED}
      \/ BlockPending /\ Pending /\ addr' = addr + 1 /\ status' = READY
      \/ status = FINALISE /\ UNCHANGED addr /\ status' = RECEIVING
  BY DEF DeviceTask, RefuseBlock, EraseSector, ProgramBlock, Finalise, BlockPending, Pending
<1>3. status # READY /\ ~armed
  BY <1>2, StatusDistinct DEF ModeInv2, JumpInv, Pending
<1>4. JumpInv'
  BY <1>1, <1>3 DEF ModeInv2, JumpInv
<1>5. SideInv2'
  <2>1. pc \in {"stream", "crc"} => ~BlockPending
    BY StatusDistinct DEF LapsInv, TallyInv, Looping, Tally, BlockPending
  <2>2. CASE UNCHANGED addr
    BY <1>1, <1>2, <1>3, <2>2, StatusDistinct, Ranges DEF ModeInv2, SideInv2, Pending
  <2>3. CASE BlockPending /\ Pending /\ addr' = addr + 1 /\ status' = READY
    <3>2. pc \notin {"stream", "crc"}
      BY <2>1, <2>3
    <3>1. status # READY /\ ~Pending' /\ addr \in Nat /\ BASE \in Nat
      BY <1>3, <2>3, StatusDistinct, Ranges DEF Pending
    <3> QED  BY <1>1, <2>3, <3>1, <3>2 DEF ModeInv2, SideInv2
  <2> QED  BY <1>2, <2>2, <2>3
<1>6. EndInv2'
  BY <1>1, <1>2, StatusDistinct DEF ModeInv2, EndInv2, Pending
<1> QED  BY <1>4, <1>5, <1>6 DEF ModeInv2

LEMMA JumpMode2 ==
  ASSUME TInv, ModeInv2, JumpToBootBlock, UNCHANGED hostVars
  PROVE  ModeInv2'
<1>1. /\ mode = "main" /\ status = READY /\ pc \in {"off", "id", "offset", "restatus"}
      /\ pc = "offset" => addr = FirstBlock
      /\ pc = "restatus" => addr = BASE
  BY DEF JumpToBootBlock, ModeInv2, JumpInv
<1>2. UNCHANGED <<pc, incl, remaining, status, addr, reboot>> /\ ~armed'
      /\ mode' = IF addr = BASE THEN "boot" ELSE "main"
  BY <1>1 DEF JumpToBootBlock, hostVars
<1>3. FirstBlock = BASE <=> ~incl
  BY Ranges
<1>4. JumpInv'
  BY <1>1, <1>2, <1>3 DEF JumpInv
<1>5. SideInv2' /\ EndInv2'
  BY <1>1, <1>2, StatusDistinct DEF ModeInv2, SideInv2, EndInv2, Pending
<1> QED  BY <1>4, <1>5 DEF ModeInv2

LEMMA DiesMode2 == ASSUME ModeInv2, Reset \/ PowerLoss \/ Kill PROVE ModeInv2'
<1>1. CASE Kill
  BY <1>1, ModeIdle2 DEF Kill, HostDies, deviceVars
<1>2. CASE PowerOn /\ HostDies
  BY <1>2, StatusDistinct
  DEF PowerOn, HostDies, ModeInv2, JumpInv, SideInv2, EndInv2, Pending
<1> QED  BY <1>1, <1>2 DEF Reset, PowerLoss

LEMMA ModeInvStep2 ==
  ASSUME SleepsSuffice, TInv, LapsInv, ModeInv2, [Next2]_vars
  PROVE  ModeInv2'
<1>1. CASE Host2
  BY <1>1, OpeningMode2, ReadStatusMode2, SendPhaseMode2, SendOffsetMode2, RejumpPhaseMode2,
     RejumpStatusMode2, RejumpOffsetMode2, PollMode2, StreamMode2, SendCrcMode2, ClosingMode2
  DEF Host2, Prologue2
<1>2. CASE Device
  BY <1>2, TaskMode2, JumpMode2, DiesMode2 DEF Device
<1>3. CASE Kill \/ PowerLoss
  BY <1>3, DiesMode2
<1>4. CASE UNCHANGED vars
  BY <1>4, ModeQuiet2 DEF vars, hostVars, deviceVars
<1> QED  BY <1>1, <1>2, <1>3, <1>4 DEF Next2

RunningInv2 == TInv /\ LapsInv /\ ModeInv2

LEMMA RunningInitially2 == Init => RunningInv2
  BY TInvInit, LapsInvInit, ModeInitially2 DEF RunningInv2

LEMMA RunningStep2 ==
  ASSUME SleepsSuffice, RunningInv2, [Next2]_vars, ~Mixture(FileBlock2(Current)), ~Unheard
  PROVE  RunningInv2'
  BY TInvStep2, LapsInvStep, ModeInvStep2 DEF RunningInv2

LEMMA RunningSame2 == ASSUME RunningInv2, UNCHANGED vars PROVE RunningInv2'
  BY TInvStep2, StutterLaps, ModeQuiet2 DEF RunningInv2, vars, hostVars, deviceVars

LEMMA StepKeeps2 == ASSUME RunningInv2, [Next2]_vars PROVE OwnKept
<1>1. CASE DeviceTask
  BY <1>1, TaskKeepsRunning DEF RunningInv2, ModeInv2, SideInv2, OwnKept
<1> QED  BY <1>1, OnlyTaskWrites2, FlashSame DEF OwnKept

(* The controller does not rewrite the program it is executing under the    *)
(* second program either, whatever fails or is lost, when the sleeps        *)
(* suffice and neither was misled before: the byte puts wrong blocks in the *)
(* chip, but never on the wrong side of it.                                 *)
THEOREM RunningKept2 ==
  ASSUME SleepsSuffice
  PROVE  MisledSpec2 => RunningKeptUnlessMisled
<1> DEFINE IInv == TInv /\ (misled \/ RunningInv2)
           MisledNext == [Next2 /\ Remembered(FileBlock2(Current))]_misledVars
<1>1. MisledInit => IInv
  BY TInvInit, RunningInitially2 DEF MisledInit
<1>2. IInv /\ MisledNext => IInv'
  <2> SUFFICES ASSUME IInv, MisledNext PROVE IInv'
    OBVIOUS
  <2>1. TInv'
    BY MisledCases2, TInvStep2
  <2>2. CASE ~misled'
    BY <2>1, <2>2, SleepsSuffice, MisledCases2, RunningSame2, RunningStep2
  <2> QED  BY <2>1, <2>2
<1>3. IInv /\ MisledNext => [misled' \/ OwnKept]_misledVars
  <2> SUFFICES ASSUME IInv, MisledNext, ~misled' PROVE OwnKept
    OBVIOUS
  <2>1. RunningInv2 /\ [Next2]_vars
    BY MisledCases2
  <2> QED  BY <2>1, StepKeeps2
<1> QED  BY <1>1, <1>2, <1>3, PTL DEF MisledSpec2, RunningKeptUnlessMisled, OwnKept

(* Without a lost frame and a failing call neither ever is.                 *)
THEOREM ProgramsKept2 ==
  ASSUME NothingLost, NoCallFails, SleepsSuffice
  PROVE  Spec2 => RunningProgramKept
<1> DEFINE IInv == RunningInv2 /\ FrameInv2
<1>1. Init => IInv
  BY RunningInitially2, LapsInitially DEF LapsIInv
<1>2. IInv /\ [Next2]_vars => IInv'
  BY NothingLost, NoCallFails, SleepsSuffice, RunningStep2, FrameInvStep2 DEF RunningInv2
<1>3. IInv /\ [Next2]_vars => [OwnKept]_vars
  BY StepKeeps2
<1> QED  BY <1>1, <1>2, <1>3, PTL DEF Spec2, RunningProgramKept, OwnKept
=============================================================================
