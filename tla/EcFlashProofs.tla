---------------------------- MODULE EcFlashProofs ---------------------------
(***************************************************************************)
(* Proofs about EcFlash, for every geometry, ROM file, command line, fault *)
(* mix and bound.                                                          *)
(***************************************************************************)
EXTENDS EcFlash, TLAPS

-----------------------------------------------------------------------------
(* Facts about the data.                                                    *)

LEMMA BlankIsBuffer == Blank \in Buffer /\ Overprinted \in Buffer
  BY GeometryAssumption DEF Blank, Overprinted, Buffer, Frame, BYTE

LEMMA FileBlockIsBuffer ==
  ASSUME rom \in Roms, NEW k \in Nat
  PROVE  FileBlock(k) \in Buffer
<1>1. CASE k < rom.size
  <2>1. k \in 0..(rom.size - 1) /\ rom.data \in [0..(rom.size - 1) -> Buffer]
    BY <1>1, HostAssumption
  <2> QED  BY <1>1, <2>1 DEF FileBlock
<1>2. CASE ~(k < rom.size)
  BY <1>2, BlankIsBuffer DEF FileBlock
<1> QED  BY <1>1, <1>2

(* What is known of the checksum, of a buffer of any length.                *)
Checksum == INSTANCE Crc8Proofs WITH
  MaxLen <- 0, Samples <- {}, Patterns <- {}, buf <- <<>>, at <- 0, err <- 0

LEMMA SameSum ==
  /\ \A s : Checksum!crc8_calculator(s) = crc8_calculator(s)
  /\ \A x, y : Checksum!XorByte(x, y) = XorByte(x, y)
  /\ Checksum!Buffers = {s \in Seq(BYTE) : Len(s) > 0}
  /\ Checksum!BYTE = BYTE
  /\ Checksum!SamplesAssumption
<1>1. ASSUME NEW s PROVE Checksum!crc8_calculator(s) = crc8_calculator(s)
  BY DEF Checksum!crc8_calculator, crc8_calculator, Checksum!Register, Register,
         Checksum!ShiftIn, ShiftIn, Checksum!MessageBit, MessageBit,
         Checksum!XorPoly, XorPoly, Checksum!BYTE, BYTE
<1>2. ASSUME NEW x, NEW y PROVE Checksum!XorByte(x, y) = XorByte(x, y)
  BY DEF Checksum!XorByte, XorByte, Checksum!Bit, Bit
<1>3. Checksum!BYTE = BYTE /\ Checksum!Buffers = {s \in Seq(BYTE) : Len(s) > 0}
  BY DEF Checksum!Buffers, Checksum!BYTE, BYTE
<1>4. Checksum!SamplesAssumption
  BY DEF Checksum!SamplesAssumption, Checksum!BYTE
<1> QED  BY <1>1, <1>2, <1>3, <1>4

(* A block is summed as its bytes in a row.                                 *)
Bytes(b) == [n \in 1..2 * P |-> b[(n + 1) \div 2][2 - (n % 2)]]

LEMMA BytesType ==
  ASSUME NEW b \in Buffer
  PROVE  /\ Bytes(b) \in Checksum!Buffers /\ Len(Bytes(b)) = 2 * P
         /\ \A j \in 1..P : Bytes(b)[2 * j - 1] = b[j][1] /\ Bytes(b)[2 * j] = b[j][2]
<1>1. P \in Nat \ {0} /\ 2 * P \in Nat /\ 2 * P > 0
  BY GeometryAssumption
<1>2. b \in [1..P -> Frame] /\ \A f \in Frame : f[1] \in BYTE /\ f[2] \in BYTE
  BY DEF Buffer, Frame
<1>3. ASSUME NEW n \in 1..2 * P PROVE b[(n + 1) \div 2][2 - (n % 2)] \in BYTE
  <2>1. (n + 1) \div 2 \in 1..P /\ (2 - (n % 2) = 1 \/ 2 - (n % 2) = 2)
    BY <1>1
  <2> QED  BY <1>2, <2>1
<1>4. Bytes(b) \in [1..2 * P -> BYTE]
  BY <1>3 DEF Bytes
<1>5. Bytes(b) \in Seq(BYTE) /\ Len(Bytes(b)) = 2 * P
  BY <1>1, <1>4
<1>6. ASSUME NEW j \in 1..P
      PROVE  Bytes(b)[2 * j - 1] = b[j][1] /\ Bytes(b)[2 * j] = b[j][2]
  <2>1. /\ 2 * j - 1 \in 1..2 * P /\ ((2 * j - 1) + 1) \div 2 = j /\ 2 - ((2 * j - 1) % 2) = 1
        /\ 2 * j \in 1..2 * P /\ (2 * j + 1) \div 2 = j /\ 2 - ((2 * j) % 2) = 2
    BY <1>1
  <2> QED  BY <2>1 DEF Bytes
<1> QED  BY <1>1, <1>5, <1>6, SameSum

LEMMA BlockSum ==
  ASSUME NEW b \in Buffer
  PROVE  CrcOf(b) = crc8_calculator(Bytes(b)) /\ CrcOf(b) \in BYTE
<1>1. CrcOf(b) = crc8_calculator(Bytes(b))
  BY DEF CrcOf, Bytes
<1>2. Checksum!crc8_calculator(Bytes(b)) \in Checksum!BYTE
  BY BytesType, SameSum, Checksum!SumIsByte
<1> QED  BY <1>1, <1>2, SameSum

(* A frame arrives as sent, or damaged, or not at all: a frame all the same.*)
LEMMA DamagedIsFrame ==
  ASSUME NEW frame \in Frame, NEW damaged \in Corrupted(frame)
  PROVE  damaged \in Frame
  BY DamageAssumption

(* A damaged frame changes the sum of its block.                            *)
LEMMA DamageNoticed ==
  ASSUME NEW b \in Buffer, NEW j \in 1..P, NEW damaged \in Corrupted(b[j]) \ {b[j]}
  PROVE  CrcOf([b EXCEPT ![j] = damaged]) # CrcOf(b)
<1> DEFINE c == [b EXCEPT ![j] = damaged]
<1>1. b \in [1..P -> Frame] /\ b[j] \in Frame /\ damaged \in Frame /\ P \in Nat /\ j \in Nat
  BY DamagedIsFrame, GeometryAssumption DEF Buffer
<1>2. c \in Buffer /\ c[j] = damaged /\ \A k \in 1..P \ {j} : c[k] = b[k]
  BY <1>1 DEF Buffer
<1>3. /\ Bytes(b) \in Checksum!Buffers /\ Len(Bytes(b)) = 2 * P
      /\ Bytes(c) \in Checksum!Buffers /\ Len(Bytes(c)) = 2 * P
  BY <1>2, BytesType
<1>4. /\ Bytes(b)[2 * j - 1] = b[j][1] /\ Bytes(b)[2 * j] = b[j][2]
      /\ Bytes(c)[2 * j - 1] = damaged[1] /\ Bytes(c)[2 * j] = damaged[2]
  BY <1>2, BytesType
<1>5. ASSUME NEW n \in 1..2 * P, n # 2 * j - 1, n # 2 * j
      PROVE  Bytes(c)[n] = Bytes(b)[n]
  <2>1. (n + 1) \div 2 \in 1..P \ {j}
    BY <1>1, <1>5
  <2> HIDE DEF c
  <2> QED  BY <1>2, <2>1 DEF Bytes
<1>6. damaged # b[j]
  OBVIOUS
<1>7. \/ damaged[1] = b[j][1]
      \/ damaged[2] = b[j][2] /\ XorByte(b[j][1], damaged[1]) # 253
  BY <1>1, <1>6, DamageAssumption
<1>8. damaged[1] # b[j][1] \/ damaged[2] # b[j][2]
  BY <1>1, <1>6 DEF Frame
<1> HIDE DEF c
<1>9. ASSUME NEW p \in 1..2 * P, Bytes(c)[p] # Bytes(b)[p],
             \A q \in 1..2 * P \ {p} : Bytes(c)[q] = Bytes(b)[q],
             XorByte(Bytes(b)[p], Bytes(c)[p]) # 253 \/ p # 1
      PROVE  crc8_calculator(Bytes(c)) # crc8_calculator(Bytes(b))
  BY <1>3, <1>9, SameSum, Checksum!OneByteSeen
<1>10. CrcOf(c) = crc8_calculator(Bytes(c)) /\ CrcOf(b) = crc8_calculator(Bytes(b))
  BY <1>2, BlockSum
<1>11. CASE damaged[1] = b[j][1]
  <2>1. PICK p \in 1..2 * P : p = 2 * j /\ p # 1
    BY <1>1
  <2>2. \A q \in 1..2 * P \ {p} : Bytes(c)[q] = Bytes(b)[q]
    BY <1>4, <1>5, <1>11, <2>1
  <2>3. Bytes(c)[p] # Bytes(b)[p]
    BY <1>4, <1>8, <1>11, <2>1
  <2>4. crc8_calculator(Bytes(c)) # crc8_calculator(Bytes(b))
    BY <1>9, <2>1, <2>2, <2>3
  <2> QED  BY <1>10, <2>4 DEF c
<1>12. CASE damaged[2] = b[j][2] /\ XorByte(b[j][1], damaged[1]) # 253
  <2>1. PICK p \in 1..2 * P : p = 2 * j - 1
    BY <1>1
  <2>2. \A q \in 1..2 * P \ {p} : Bytes(c)[q] = Bytes(b)[q]
    BY <1>4, <1>5, <1>12, <2>1
  <2>3. Bytes(c)[p] # Bytes(b)[p] /\ XorByte(Bytes(b)[p], Bytes(c)[p]) # 253
    BY <1>4, <1>8, <1>12, <2>1
  <2>4. crc8_calculator(Bytes(c)) # crc8_calculator(Bytes(b))
    BY <1>9, <2>2, <2>3
  <2> QED  BY <1>10, <2>4 DEF c
<1> QED  BY <1>7, <1>11, <1>12

LEMMA FileBlockSum ==
  ASSUME rom \in Roms, NEW k \in Nat
  PROVE  /\ CrcOf(FileBlock(k)) \in BYTE
         /\ \A j \in 1..P : \A damaged \in Corrupted(FileBlock(k)[j]) \ {FileBlock(k)[j]} :
              CrcOf([FileBlock(k) EXCEPT ![j] = damaged]) # CrcOf(FileBlock(k))
  BY FileBlockIsBuffer, BlockSum, DamageNoticed

LEMMA FrameOfBuffer ==
  ASSUME NEW b \in Buffer, NEW j \in 1..P
  PROVE  b[j] \in Frame /\ b[j][1] \in BYTE
  BY DEF Buffer, Frame

LEMMA HeaderIsByte == ASSUME rom \in Roms PROVE HeaderId \in BYTE
<1>1. CASE BASE < rom.size
  <2>1. rom.data[BASE] \in Buffer
    BY <1>1, HostAssumption, GeometryAssumption
  <2> QED  BY <1>1, <2>1, FrameOfBuffer, GeometryAssumption DEF HeaderId
<1>2. CASE ~(BASE < rom.size)
  BY <1>2 DEF HeaderId, BYTE
<1> QED  BY <1>1, <1>2

LEMMA RamIdIsByte == ASSUME flash \in [Blocks -> Buffer] PROVE RamId \in BYTE
<1>1. BASE \in Blocks
  BY GeometryAssumption DEF Blocks
<1>2. flash[BASE] \in Buffer /\ OldImage[BASE] \in Buffer /\ 1 \in 1..P
  BY <1>1, OldImageAssumption, GeometryAssumption
<1> QED  BY <1>2, FrameOfBuffer DEF RamId

LEMMA Sub32Type ==
  ASSUME NEW a \in 0..(WORD - 1), NEW b \in 0..(WORD - 1)
  PROVE  Sub32(a, b) \in 0..(WORD - 1)
  BY HostAssumption DEF Sub32

LEMMA Low16Type == ASSUME NEW a \in Nat PROVE Low16(a) \in Nat
  BY HostAssumption, GeometryAssumption DEF Low16

LEMMA Low16Small == Low16(0) = 0 /\ Low16(BASE) = BASE
  BY HostAssumption, GeometryAssumption DEF Low16
-----------------------------------------------------------------------------
(* Types.  TypeOK is inductive once the frame counter is known to point at  *)
(* a frame of the block while one is being streamed.                        *)
TInv == TypeOK /\ (pc = "stream" => i \in 1..P)

LEMMA TInvInit == Init => TInv
<1> SUFFICES ASSUME Init PROVE TInv
  OBVIOUS
<1>1. marker \in BOOLEAN /\ erased \in BOOLEAN /\ armed \in BOOLEAN /\ incl \in BOOLEAN
      /\ first \in BOOLEAN /\ need \in BOOLEAN
  BY DEF Init, DeviceInit
<1>2. DeviceTypeOK
  BY <1>1, BlankIsBuffer, OldImageAssumption, GeometryAssumption
  DEF Init, DeviceInit, DeviceTypeOK, Status, RECEIVING, BYTE
<1> QED
  BY <1>1, <1>2, HostAssumption, GeometryAssumption DEF Init, TInv, TypeOK, Steps, BYTE

(* What each command and each step of the controller leaves well typed.     *)
LEMMA RecvPhaseType ==
  ASSUME DeviceTypeOK, NEW phase, NEW m \in 0..3, RecvPhase(phase, m)
  PROVE  DeviceTypeOK'
<1>1. armed' \in BOOLEAN
  BY DEF RecvPhase, DeviceTypeOK
<1>2. addr' \in Nat
  BY GeometryAssumption DEF RecvPhase, DeviceTypeOK
<1>3. status' \in Status
  BY DEF RecvPhase, Status
<1> QED
  BY <1>1, <1>2, <1>3 DEF RecvPhase, DeviceTypeOK

LEMMA RecvOffsetType ==
  ASSUME DeviceTypeOK, NEW block \in Nat, RecvOffset(block)
  PROVE  DeviceTypeOK'
<1>1. erased' \in BOOLEAN
  BY DEF RecvOffset
<1> QED
  BY <1>1, GeometryAssumption DEF RecvOffset, DeviceTypeOK

LEMMA RecvDataType ==
  ASSUME DeviceTypeOK, NEW frame \in Frame, RecvData(frame)
  PROVE  DeviceTypeOK'
<1>1. CASE idx < P
  <2>1. buf' = [buf EXCEPT ![idx + 1] = frame] /\ idx' = idx + 1
    BY <1>1 DEF RecvData
  <2>2. idx + 1 \in 1..P
    BY <1>1, GeometryAssumption DEF DeviceTypeOK
  <2>3. buf' \in Buffer
    BY <2>1, <2>2 DEF DeviceTypeOK, Buffer
  <2> QED
    BY <1>1, <2>1, <2>2, <2>3, GeometryAssumption
    DEF RecvData, DeviceTypeOK, Status, RECEIVING
<1>2. CASE ~(idx < P)
  <2>1. frame[1] \in BYTE
    BY DEF Frame
  <2> QED
    BY <1>2, <2>1, GeometryAssumption DEF RecvData, DeviceTypeOK, Status, CHECKING
<1> QED  BY <1>1, <1>2

LEMMA RecvFinishType ==
  ASSUME DeviceTypeOK, NEW kind \in 1..3, RecvFinish(kind)
  PROVE  DeviceTypeOK'
  BY DEF RecvFinish, DeviceTypeOK

LEMMA DeviceTaskType ==
  ASSUME DeviceTypeOK, DeviceTask
  PROVE  DeviceTypeOK'
<1>1. CASE RefuseBlock
  BY <1>1 DEF RefuseBlock, DeviceTypeOK, Status, BAD_CRC
<1>2. CASE EraseSector
  <2>1. EraseSectorOf(flash, addr) \in [Blocks -> Buffer]
    BY BlankIsBuffer DEF EraseSectorOf, DeviceTypeOK
  <2>2. flash' \in [Blocks -> Buffer] /\ marker' \in BOOLEAN /\ erased' \in BOOLEAN
    BY <1>2, <2>1 DEF EraseSector, DeviceTypeOK
  <2> QED
    BY <1>2, <2>2 DEF EraseSector, DeviceTypeOK, Status, ACCEPTED
<1>3. CASE ProgramBlock
  <2>1. flash' \in [Blocks -> Buffer]
    BY <1>3, BlankIsBuffer DEF ProgramBlock, DeviceTypeOK
  <2>2. marker' \in BOOLEAN /\ erased' \in BOOLEAN
    BY <1>3 DEF ProgramBlock, DeviceTypeOK
  <2> QED
    BY <1>3, <2>1, <2>2 DEF ProgramBlock, DeviceTypeOK, Status, READY
<1>4. CASE Finalise
  <2>1. flash' \in [Blocks -> Buffer] /\ marker' \in BOOLEAN
    BY <1>4, BlankIsBuffer DEF Finalise, DeviceTypeOK
  <2> QED
    BY <1>4, <2>1 DEF Finalise, DeviceTypeOK, Status, RECEIVING
<1> QED  BY <1>1, <1>2, <1>3, <1>4 DEF DeviceTask

LEMMA JumpType == ASSUME DeviceTypeOK, JumpToBootBlock PROVE DeviceTypeOK'
  BY DEF JumpToBootBlock, DeviceTypeOK

LEMMA PowerOnType == ASSUME DeviceTypeOK, PowerOn PROVE DeviceTypeOK'
<1>1. mode' \in {"boot", "main"}
  BY DEF PowerOn
<1>2. status' \in Status /\ crc' \in BYTE /\ idx' \in 0..P /\ buf' \in Buffer
  BY BlankIsBuffer, GeometryAssumption DEF PowerOn, Status, RECEIVING, BYTE
<1>3. /\ flash' \in [Blocks -> Buffer] /\ marker' \in BOOLEAN /\ mask' \in 0..3
      /\ addr' \in Nat /\ reboot' \in 0..3
  BY DEF PowerOn, DeviceTypeOK
<1>4. erased' \in BOOLEAN /\ armed' \in BOOLEAN
  BY DEF PowerOn
<1> QED
  BY <1>1, <1>2, <1>3, <1>4 DEF DeviceTypeOK

LEMMA DeviceSame == ASSUME DeviceTypeOK, UNCHANGED deviceVars PROVE DeviceTypeOK'
  BY DEF deviceVars, DeviceTypeOK

HostTypeOK ==
  /\ pc \in Steps
  /\ outcome \in {"none", "ok", "error", "broken", "killed"}
  /\ args \in Args
  /\ rom \in Roms
  /\ ram_id \in BYTE
  /\ incl \in BOOLEAN
  /\ remaining \in 0..(WORD - 1)
  /\ temp \in Nat
  /\ first \in BOOLEAN
  /\ need \in BOOLEAN
  /\ i \in 1..(P + 1)
  /\ runs \in 0..MaxRuns
  /\ faults \in 0..MaxFaults
  /\ pc = "stream" => i \in 1..P

LEMMA TInvParts == TInv <=> DeviceTypeOK /\ HostTypeOK
  BY DEF TInv, TypeOK, HostTypeOK

LEMMA FaultType ==
  ASSUME HostTypeOK, NEW kind, Fault(kind)
  PROVE  faults' \in 0..MaxFaults
  BY HostAssumption DEF HostTypeOK, Fault

LEMMA LeaveType ==
  ASSUME HostTypeOK, NEW how \in {"none", "ok", "error", "broken", "killed"}, Leave(how),
         faults' \in 0..MaxFaults, runs' \in 0..MaxRuns, UNCHANGED rom
  PROVE  HostTypeOK'
  BY DEF HostTypeOK, Leave, Steps

LEMMA GoToType ==
  ASSUME HostTypeOK, NEW step \in Steps, step # "stream", GoTo(step),
         faults' \in 0..MaxFaults, runs' \in 0..MaxRuns, UNCHANGED rom
  PROVE  HostTypeOK'
  BY DEF HostTypeOK, GoTo

(* What parse_args makes of a command line.                                 *)
LEMMA ParsedType ==
  ASSUME NEW line PROVE Parsed(line).mask \in 0..3 /\ Parsed(line).bbl \in BOOLEAN
<1>1. Parsed(line).bbl = ("-bbl" \in line)
  BY DEF Parsed
<1>2. Parsed(line).mask = (IF "-e1" \in line THEN 1 ELSE 0) + (IF "-e2" \in line THEN 2 ELSE 0)
  BY DEF Parsed
<1>3. Parsed(line).mask \in 0..3
  BY <1>2
<1> QED  BY <1>1, <1>3

LEMMA ArgsType ==
  ASSUME HostTypeOK
  PROVE  /\ args.mask \in 0..3 /\ args.bbl \in BOOLEAN
         /\ \A a \in Args : a.bbl \in BOOLEAN
         /\ rom.size \in 0..(WORD - 1)
         /\ FirstBlock \in Nat /\ Current \in Nat
<1>1. \A a \in Args : a.mask \in 0..3 /\ a.bbl \in BOOLEAN
  BY ParsedType DEF Args
<1>2. args \in Args /\ rom.size \in 0..(WORD - 1)
  BY HostAssumption DEF HostTypeOK
<1>3. FirstBlock \in Nat /\ Current \in Nat
  BY GeometryAssumption DEF HostTypeOK, FirstBlock, Current
<1> QED  BY <1>1, <1>2, <1>3

LEMMA LoopHeadStep ==
  ASSUME NEW left, NEW jump
  PROVE  LoopHead(left, jump) \in Steps \ {"stream"}
  BY DEF LoopHead, Steps
(* A system call fails: main returns 1 and the controller is left as it is. *)
LEMMA FailType ==
  ASSUME TInv, UNCHANGED deviceVars, Leave("error"), Fault("fail"), UNCHANGED <<rom, runs>>
  PROVE  TInv'
<1>1. DeviceTypeOK' /\ faults' \in 0..MaxFaults /\ runs' \in 0..MaxRuns /\ UNCHANGED rom
  BY TInvParts, DeviceSame, FaultType DEF HostTypeOK
<1>2. HostTypeOK'
  BY <1>1, TInvParts, LeaveType
<1> QED  BY <1>1, <1>2 DEF TInv, TypeOK, HostTypeOK

LEMMA StartType == ASSUME TInv, Start PROVE TInv'
<1>1. DeviceTypeOK'
  BY TInvParts, DeviceSame DEF Start
<1>2. incl' \in BOOLEAN /\ first' \in BOOLEAN /\ need' \in BOOLEAN
  BY ArgsType, TInvParts DEF Start
<1>3. HostTypeOK'
  BY <1>2, TInvParts, HostAssumption, GeometryAssumption
  DEF Start, HostTypeOK, Steps, BYTE
<1> QED  BY <1>1, <1>3 DEF TInv, TypeOK, HostTypeOK

LEMMA OpenFailsType == ASSUME TInv, OpenFails PROVE TInv'
<1>1. DeviceTypeOK' /\ faults' \in 0..MaxFaults /\ UNCHANGED rom /\ Leave("error")
  <2>1. DeviceTypeOK' /\ UNCHANGED rom /\ Leave("error")
    BY TInvParts, DeviceSame DEF OpenFails
  <2>2. faults' = faults \/ Fault("open")
    BY DEF OpenFails
  <2> QED  BY <2>1, <2>2, TInvParts, FaultType DEF HostTypeOK
<1>2. runs' \in 0..MaxRuns
  BY TInvParts, HostAssumption DEF OpenFails, HostTypeOK
<1>3. HostTypeOK'
  BY <1>1, <1>2, TInvParts, LeaveType
<1> QED  BY <1>1, <1>3 DEF TInv, TypeOK, HostTypeOK

LEMMA ReadIdType == ASSUME TInv, ReadId PROVE TInv'
<1>1. DeviceTypeOK' /\ UNCHANGED deviceVars /\ UNCHANGED <<rom, runs>>
  BY TInvParts, DeviceSame DEF ReadId, Read
<1>2. CASE ram_id' = RamId /\ pc' = "ver" /\ UNCHANGED faults
           /\ UNCHANGED <<outcome, args, incl, remaining, temp, first, need, i>>
  <2>1. RamId \in BYTE
    BY TInvParts, RamIdIsByte DEF DeviceTypeOK
  <2>2. HostTypeOK'
    BY <1>1, <1>2, <2>1, TInvParts DEF HostTypeOK, Steps
  <2> QED  BY <1>1, <2>2 DEF TInv, TypeOK, HostTypeOK
<1>3. CASE Fault("fail") /\ Leave("error")
  BY <1>1, <1>3, FailType
<1> QED  BY <1>2, <1>3 DEF ReadId, Read

LEMMA ReadVerType == ASSUME TInv, ReadVer PROVE TInv'
<1>1. DeviceTypeOK' /\ UNCHANGED deviceVars /\ UNCHANGED <<rom, runs>>
  BY TInvParts, DeviceSame DEF ReadVer, Read
<1>2. rom' = rom /\ runs' \in 0..MaxRuns /\ faults \in 0..MaxFaults
  BY <1>1, TInvParts DEF HostTypeOK
<1>3. CASE Leave("broken") /\ UNCHANGED faults
  <2>1. HostTypeOK'
    BY <1>2, <1>3, TInvParts, LeaveType
  <2> QED  BY <1>1, <2>1 DEF TInv, TypeOK, HostTypeOK
<1>4. CASE GoTo("base") /\ UNCHANGED faults
  <2>1. HostTypeOK'
    BY <1>2, <1>4, TInvParts, GoToType DEF Steps
  <2> QED  BY <1>1, <2>1 DEF TInv, TypeOK, HostTypeOK
<1>5. CASE Fault("fail") /\ Leave("error")
  BY <1>1, <1>5, FailType
<1> QED  BY <1>3, <1>4, <1>5 DEF ReadVer, Read

LEMMA ReadBaseType == ASSUME TInv, ReadBase PROVE TInv'
<1>1. DeviceTypeOK' /\ UNCHANGED deviceVars /\ UNCHANGED <<rom, runs>>
  BY TInvParts, DeviceSame DEF ReadBase, Read
<1>2. CASE GoTo("status") /\ UNCHANGED faults
  <2>1. HostTypeOK'
    BY <1>1, <1>2, TInvParts, GoToType DEF Steps, HostTypeOK
  <2> QED  BY <1>1, <2>1 DEF TInv, TypeOK, HostTypeOK
<1>3. CASE Fault("fail") /\ Leave("error")
  BY <1>1, <1>3, FailType
<1> QED  BY <1>2, <1>3 DEF ReadBase, Read

LEMMA ReadStatusType == ASSUME TInv, ReadStatus PROVE TInv'
<1>1. DeviceTypeOK' /\ UNCHANGED deviceVars /\ UNCHANGED <<rom, runs>>
  BY TInvParts, DeviceSame DEF ReadStatus, Read
<1>2. CASE /\ incl' = (incl /\ BootStatus # IN_BOOT_BLOCK)
           /\ remaining' = Volume(incl')
           /\ pc' = "phase"
           /\ UNCHANGED <<outcome, args, ram_id, temp, first, need, i, faults>>
  <2>1. rom.size \in 0..(WORD - 1) /\ BASE \in 0..(WORD - 1)
    BY TInvParts, ArgsType, HostAssumption, GeometryAssumption
  <2>2. remaining' \in 0..(WORD - 1)
    BY <1>2, <2>1, Sub32Type DEF Volume
  <2>3. incl' \in BOOLEAN
    BY <1>2
  <2>4. HostTypeOK'
    BY <1>1, <1>2, <2>2, <2>3, TInvParts DEF HostTypeOK, Steps
  <2> QED  BY <1>1, <2>4 DEF TInv, TypeOK, HostTypeOK
<1>3. CASE Fault("fail") /\ Leave("error")
  BY <1>1, <1>3, FailType
<1> QED  BY <1>2, <1>3 DEF ReadStatus, Read

LEMMA SendPhaseType == ASSUME TInv, SendPhase PROVE TInv'
<1>1. UNCHANGED <<rom, runs>>
  BY DEF SendPhase, Write
<1>2. CASE /\ RecvPhase(IF incl THEN 2 ELSE 1, args.mask)
           /\ GoTo("offset") /\ UNCHANGED faults
  <2>1. DeviceTypeOK'
    BY <1>2, TInvParts, ArgsType, RecvPhaseType
  <2>2. HostTypeOK'
    BY <1>1, <1>2, TInvParts, GoToType DEF Steps, HostTypeOK
  <2> QED  BY <2>1, <2>2 DEF TInv, TypeOK, HostTypeOK
<1>3. CASE UNCHANGED deviceVars /\ Leave("error") /\ Fault("fail")
  BY <1>1, <1>3, FailType
<1> QED  BY <1>2, <1>3 DEF SendPhase, Write

LEMMA SendOffsetType == ASSUME TInv, SendOffset PROVE TInv'
<1>1. UNCHANGED <<rom, runs>>
  BY DEF SendOffset, Write
<1>2. CASE /\ RecvOffset(Low16(Sub32(rom.size, remaining)))
           /\ GoTo(LoopHead(remaining, need)) /\ UNCHANGED faults
  <2>1. rom.size \in 0..(WORD - 1) /\ remaining \in 0..(WORD - 1)
    BY TInvParts, ArgsType, HostAssumption DEF HostTypeOK
  <2>2. Low16(Sub32(rom.size, remaining)) \in Nat
    BY <2>1, Sub32Type, Low16Type
  <2>3. DeviceTypeOK'
    BY <1>2, <2>2, TInvParts, RecvOffsetType
  <2>4. HostTypeOK'
    BY <1>1, <1>2, TInvParts, GoToType, LoopHeadStep DEF HostTypeOK
  <2> QED  BY <2>3, <2>4 DEF TInv, TypeOK, HostTypeOK
<1>3. CASE UNCHANGED deviceVars /\ Leave("error") /\ Fault("fail")
  BY <1>1, <1>3, FailType
<1> QED  BY <1>2, <1>3 DEF SendOffset, Write

LEMMA RejumpPhaseType == ASSUME TInv, RejumpPhase PROVE TInv'
<1>1. UNCHANGED <<rom, runs>>
  BY DEF RejumpPhase, Write
<1>2. CASE /\ RecvPhase(1, args.mask)
           /\ need' = FALSE
           /\ pc' = "restatus"
           /\ UNCHANGED <<outcome, args, ram_id, incl, remaining, temp, first, i, faults>>
  <2>1. DeviceTypeOK'
    BY <1>2, TInvParts, ArgsType, RecvPhaseType
  <2>2. need' \in BOOLEAN
    BY <1>2
  <2>3. HostTypeOK'
    BY <1>1, <1>2, <2>2, TInvParts DEF Steps, HostTypeOK
  <2> QED  BY <2>1, <2>3 DEF TInv, TypeOK, HostTypeOK
<1>3. CASE UNCHANGED deviceVars /\ Leave("error") /\ Fault("fail")
  BY <1>1, <1>3, FailType
<1> QED  BY <1>2, <1>3 DEF RejumpPhase, Write

LEMMA RejumpStatusType == ASSUME TInv, RejumpStatus PROVE TInv'
<1>1. DeviceTypeOK' /\ UNCHANGED deviceVars /\ UNCHANGED <<rom, runs>>
  BY TInvParts, DeviceSame DEF RejumpStatus, Read
<1>2. CASE /\ GoTo(IF BootStatus = IN_BOOT_BLOCK THEN "reoffset" ELSE "final")
           /\ UNCHANGED faults
  <2>1. HostTypeOK'
    BY <1>1, <1>2, TInvParts, GoToType DEF Steps, HostTypeOK
  <2> QED  BY <1>1, <2>1 DEF TInv, TypeOK, HostTypeOK
<1>3. CASE Fault("fail") /\ Leave("error")
  BY <1>1, <1>3, FailType
<1> QED  BY <1>2, <1>3 DEF RejumpStatus, Read

LEMMA RejumpOffsetType == ASSUME TInv, RejumpOffset PROVE TInv'
<1>1. UNCHANGED <<rom, runs>>
  BY DEF RejumpOffset, Write
<1>2. CASE RecvOffset(Low16(BASE)) /\ GoTo("poll") /\ UNCHANGED faults
  <2>1. DeviceTypeOK'
    BY <1>2, TInvParts, RecvOffsetType, Low16Small, GeometryAssumption
  <2>2. HostTypeOK'
    BY <1>1, <1>2, TInvParts, GoToType DEF Steps, HostTypeOK
  <2> QED  BY <2>1, <2>2 DEF TInv, TypeOK, HostTypeOK
<1>3. CASE UNCHANGED deviceVars /\ Leave("error") /\ Fault("fail")
  BY <1>1, <1>3, FailType
<1> QED  BY <1>2, <1>3 DEF RejumpOffset, Write

LEMMA BlockDoneType ==
  ASSUME TInv, BlockDone
  PROVE  /\ need' \in BOOLEAN /\ first' \in BOOLEAN
         /\ temp' \in Nat /\ remaining' \in 0..(WORD - 1)
<1>1. remaining \in 0..(WORD - 1) /\ 1 \in 0..(WORD - 1) /\ 0 \in 0..(WORD - 1)
  BY TInvParts, HostAssumption, GeometryAssumption DEF HostTypeOK
<1>2. Sub32(remaining, 1) \in 0..(WORD - 1)
  BY <1>1, Sub32Type
<1>3. remaining' = 0 \/ remaining' = Sub32(remaining, 1)
  BY DEF BlockDone
<1>4. temp' = temp + 1 \/ temp' = temp
  BY DEF BlockDone, NextTemp
<1>5. need' \in BOOLEAN /\ first' \in BOOLEAN
  BY TInvParts DEF BlockDone, HostTypeOK
<1> QED  BY <1>1, <1>2, <1>3, <1>4, <1>5, TInvParts DEF HostTypeOK

LEMMA PollProgressType == ASSUME TInv, PollProgress PROVE TInv'
<1>1. DeviceTypeOK' /\ UNCHANGED deviceVars /\ UNCHANGED <<rom, runs>>
  BY TInvParts, DeviceSame DEF PollProgress, Read
<1>2. CASE /\ BlockDone
           /\ pc' = "stream"
           /\ i' = 1
           /\ UNCHANGED <<outcome, args, ram_id, incl, faults>>
  <2>1. HostTypeOK'
    BY <1>1, <1>2, BlockDoneType, TInvParts, GeometryAssumption DEF HostTypeOK, Steps
  <2> QED  BY <1>1, <2>1 DEF TInv, TypeOK, HostTypeOK
<1>3. CASE /\ pc' = "stream"
           /\ i' = 1
           /\ UNCHANGED <<outcome, args, ram_id, incl, remaining, temp, first, need, faults>>
  <2>1. HostTypeOK'
    BY <1>1, <1>3, TInvParts, GeometryAssumption DEF HostTypeOK, Steps
  <2> QED  BY <1>1, <2>1 DEF TInv, TypeOK, HostTypeOK
<1>4. CASE GoTo("poll") /\ UNCHANGED faults
  <2>1. HostTypeOK'
    BY <1>1, <1>4, TInvParts, GoToType DEF Steps, HostTypeOK
  <2> QED  BY <1>1, <2>1 DEF TInv, TypeOK, HostTypeOK
<1>5. CASE Fault("fail") /\ Leave("error")
  BY <1>1, <1>5, FailType
<1>6. CASE Leave("killed") /\ UNCHANGED faults
  <2>1. HostTypeOK'
    BY <1>1, <1>6, TInvParts, LeaveType DEF HostTypeOK
  <2> QED  BY <1>1, <2>1 DEF TInv, TypeOK, HostTypeOK
<1> QED  BY <1>2, <1>3, <1>4, <1>5, <1>6 DEF PollProgress, Read

LEMMA StreamDataType == ASSUME TInv, StreamData PROVE TInv'
<1>1. UNCHANGED <<rom, runs>>
  BY DEF StreamData, SendFrame, Write
<1>2. FileBlock(Current)[i] \in Frame
  BY TInvParts, ArgsType, FileBlockIsBuffer, FrameOfBuffer DEF StreamData, HostTypeOK
<1> DEFINE go == /\ i' = i + 1
                 /\ pc' = IF i = P THEN "crc" ELSE "stream"
                 /\ UNCHANGED <<outcome, args, ram_id, incl, remaining, temp, first, need>>
<1>3. ASSUME go, faults' \in 0..MaxFaults PROVE HostTypeOK'
  <2>1. pc = "stream" /\ i \in 1..P
    BY TInvParts DEF StreamData, HostTypeOK
  <2>2. i' \in 1..(P + 1) /\ (pc' = "stream" => i' \in 1..P) /\ pc' \in Steps
    BY <1>3, <2>1, GeometryAssumption DEF Steps
  <2> QED  BY <1>1, <1>3, <2>2, TInvParts DEF HostTypeOK
<1>4. faults \in 0..MaxFaults
  BY TInvParts DEF HostTypeOK
<1>5. CASE RecvData(FileBlock(Current)[i]) /\ go /\ UNCHANGED faults
  <2>1. DeviceTypeOK' /\ HostTypeOK'
    BY <1>2, <1>3, <1>4, <1>5, TInvParts, RecvDataType
  <2> QED  BY <2>1 DEF TInv, TypeOK, HostTypeOK
<1>6. CASE UNCHANGED deviceVars /\ Leave("error") /\ Fault("fail")
  BY <1>1, <1>6, FailType
<1>7. CASE Fault("lost") /\ UNCHANGED deviceVars /\ go
  <2>1. DeviceTypeOK' /\ HostTypeOK'
    BY <1>3, <1>7, TInvParts, DeviceSame, FaultType
  <2> QED  BY <2>1 DEF TInv, TypeOK, HostTypeOK
<1>8. CASE /\ Fault("corrupt") /\ go
           /\ \E damaged \in Corrupted(FileBlock(Current)[i]) : RecvData(damaged)
  <2>1. PICK damaged \in Corrupted(FileBlock(Current)[i]) : RecvData(damaged)
    BY <1>8
  <2>2. DeviceTypeOK'
    BY <1>2, <2>1, DamagedIsFrame, TInvParts, RecvDataType
  <2>3. HostTypeOK'
    BY <1>3, <1>8, TInvParts, FaultType
  <2> QED  BY <2>2, <2>3 DEF TInv, TypeOK, HostTypeOK
<1> QED  BY <1>5, <1>6, <1>7, <1>8 DEF StreamData, SendFrame, Write

LEMMA SumFrame == ASSUME TInv PROVE <<CrcOf(FileBlock(Current)), temp % 256>> \in Frame
<1>1. CrcOf(FileBlock(Current)) \in BYTE
  BY TInvParts, ArgsType, FileBlockSum DEF HostTypeOK
<1>2. temp % 256 \in BYTE
  BY TInvParts DEF HostTypeOK, BYTE
<1> QED  BY <1>1, <1>2 DEF Frame

LEMMA SendCrcType == ASSUME TInv, SendCrc PROVE TInv'
<1>1. UNCHANGED <<rom, runs>>
  BY DEF SendCrc, SendFrame, Write
<1> DEFINE frame == <<CrcOf(FileBlock(Current)), temp % 256>>
           go == GoTo(LoopHead(remaining, need))
<1>2. frame \in Frame
  BY SumFrame
<1>3. ASSUME go, faults' \in 0..MaxFaults PROVE HostTypeOK'
  <2>1. runs' \in 0..MaxRuns
    BY <1>1, TInvParts DEF HostTypeOK
  <2> QED  BY <1>1, <1>3, <2>1, TInvParts, GoToType, LoopHeadStep
<1>4. faults \in 0..MaxFaults
  BY TInvParts DEF HostTypeOK
<1> HIDE DEF frame, go
<1>5. CASE RecvData(frame) /\ go /\ UNCHANGED faults
  <2>1. DeviceTypeOK' /\ HostTypeOK'
    BY <1>2, <1>3, <1>4, <1>5, TInvParts, RecvDataType
  <2> QED  BY <2>1 DEF TInv, TypeOK, HostTypeOK
<1>6. CASE UNCHANGED deviceVars /\ Leave("error") /\ Fault("fail")
  BY <1>1, <1>6, FailType
<1>7. CASE Fault("lost") /\ UNCHANGED deviceVars /\ go
  <2>1. DeviceTypeOK' /\ HostTypeOK'
    BY <1>3, <1>7, TInvParts, DeviceSame, FaultType
  <2> QED  BY <2>1 DEF TInv, TypeOK, HostTypeOK
<1>8. CASE /\ Fault("corrupt") /\ go
           /\ \E damaged \in Corrupted(frame) : RecvData(damaged)
  <2>1. PICK damaged \in Corrupted(frame) : RecvData(damaged)
    BY <1>8
  <2>2. DeviceTypeOK'
    BY <1>2, <2>1, DamagedIsFrame, TInvParts, RecvDataType
  <2>3. HostTypeOK'
    BY <1>3, <1>8, TInvParts, FaultType
  <2> QED  BY <2>2, <2>3 DEF TInv, TypeOK, HostTypeOK
<1> QED  BY <1>5, <1>6, <1>7, <1>8 DEF SendCrc, SendFrame, Write, frame, go

LEMMA SendFinaliseType == ASSUME TInv, SendFinalise PROVE TInv'
<1>1. UNCHANGED <<rom, runs>>
  BY DEF SendFinalise, Write
<1>2. CASE RecvPhase(4, 0) /\ GoTo("finish") /\ UNCHANGED faults
  <2>1. DeviceTypeOK'
    BY <1>2, TInvParts, RecvPhaseType
  <2>2. HostTypeOK'
    BY <1>1, <1>2, TInvParts, GoToType DEF Steps, HostTypeOK
  <2> QED  BY <2>1, <2>2 DEF TInv, TypeOK, HostTypeOK
<1>3. CASE UNCHANGED deviceVars /\ Leave("error") /\ Fault("fail")
  BY <1>1, <1>3, FailType
<1> QED  BY <1>2, <1>3 DEF SendFinalise, Write

LEMMA SendFinishType == ASSUME TInv, SendFinish PROVE TInv'
<1>1. UNCHANGED <<rom, runs>>
  BY DEF SendFinish, Write
<1>2. CASE /\ RecvFinish(IF args.ota THEN 1 ELSE IF args.sd THEN 2 ELSE 3)
           /\ Leave("ok") /\ UNCHANGED faults
  <2>1. DeviceTypeOK'
    BY <1>2, TInvParts, RecvFinishType
  <2>2. HostTypeOK'
    BY <1>1, <1>2, TInvParts, LeaveType DEF HostTypeOK
  <2> QED  BY <2>1, <2>2 DEF TInv, TypeOK, HostTypeOK
<1>3. CASE UNCHANGED deviceVars /\ Leave("error") /\ Fault("fail")
  BY <1>1, <1>3, FailType
<1> QED  BY <1>2, <1>3 DEF SendFinish, Write

LEMMA HostDiesType ==
  ASSUME TInv, HostDies, DeviceTypeOK', faults' \in 0..MaxFaults
  PROVE  TInv'
<1>1. outcome' \in {"none", "ok", "error", "broken", "killed"}
  BY TInvParts DEF HostDies, HostTypeOK
<1>2. HostTypeOK'
  BY <1>1, TInvParts DEF HostDies, HostTypeOK, Steps
<1> QED  BY <1>2 DEF TInv, TypeOK, HostTypeOK

LEMMA StutterType == ASSUME TInv, UNCHANGED hostVars, DeviceTypeOK' PROVE TInv'
  BY DEF TInv, TypeOK, hostVars

LEMMA HostType == ASSUME TInv, Host PROVE TInv'
  BY StartType, OpenFailsType, ReadIdType, ReadVerType, ReadBaseType, ReadStatusType,
     SendPhaseType, SendOffsetType, RejumpPhaseType, RejumpStatusType, RejumpOffsetType,
     PollProgressType, StreamDataType, SendCrcType, SendFinaliseType, SendFinishType
  DEF Host

LEMMA TInvStep == TInv /\ [Next]_vars => TInv'
<1> SUFFICES ASSUME TInv, [Next]_vars PROVE TInv'
  OBVIOUS
<1>1. CASE Host
  BY <1>1, HostType
<1>2. CASE (DeviceTask \/ JumpToBootBlock) /\ UNCHANGED hostVars
  BY <1>2, TInvParts, DeviceTaskType, JumpType, StutterType
<1>3. CASE Reset
  BY <1>3, TInvParts, PowerOnType, HostDiesType DEF Reset, HostTypeOK
<1>4. CASE Kill
  BY <1>4, TInvParts, DeviceSame, HostDiesType, FaultType DEF Kill
<1>5. CASE PowerLoss
  BY <1>5, TInvParts, PowerOnType, HostDiesType, FaultType DEF PowerLoss
<1>6. CASE UNCHANGED vars
  BY <1>6, TInvParts, DeviceSame, StutterType DEF vars
<1> QED  BY <1>1, <1>2, <1>3, <1>4, <1>5, <1>6 DEF Next, Device

(* Whatever is lost, damaged or interrupted, for every geometry: the frame  *)
(* counter of the controller stays within its 32-byte buffer, its status    *)
(* within the six values it uses, and the program's count of what is left   *)
(* within its 32-bit word.                                                  *)
THEOREM TypeCorrect == Spec => []TypeOK
<1>1. TInv => TypeOK
  BY DEF TInv
<1> QED  BY TInvInit, TInvStep, <1>1, PTL DEF Spec
=============================================================================
