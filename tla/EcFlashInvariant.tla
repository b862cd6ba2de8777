-------------------------- MODULE EcFlashInvariant --------------------------
(***************************************************************************)
(* The inductive invariants behind the properties of EcFlash.  CourseInv:  *)
(* why no block ends up in another's place unless controller or program is *)
(* misled; FrameInv, why neither is when no data frame is lost; PlacedInv: *)
(* why what was counted is in place, for files of the chip's size;         *)
(* PlainInv: why a plain update stays off the boot block, whatever is      *)
(* lost.  The others are about what the sleeps buy: which of the           *)
(* controller's programs takes a block (ModeInv), where the transfer ends  *)
(* (SpanInv), that nothing is missing (WholeInv) and that what is not      *)
(* finished is held (HeldInv).                                             *)
(***************************************************************************)
EXTENDS EcFlash

(* Blocks accepted in this phase, counted the way the program counts them:  *)
(* the READY of an opened phase is one of them.                             *)
Counted == temp + (IF first THEN 1 ELSE 0)
ToSend  == Volume(incl)

(* Before the loop nothing is counted and the phase is not yet open.        *)
PreparedInv ==
  /\ pc \in {"id", "ver", "base", "status", "phase", "offset"} =>
       temp = 0 /\ ~first /\ ~need
  /\ pc \in {"phase", "offset"} => remaining = ToSend
  /\ pc = "offset" => status = READY

(* In the loop the count agrees with the block being sent, and the rejump   *)
(* comes due exactly when the last block of the boot block is.              *)
CountInv ==
  /\ pc \in {"poll", "stream", "crc", "rephase", "restatus", "reoffset"} =>
       /\ remaining = 0 \/ ToSend = remaining + Counted
       /\ need => incl /\ first /\ temp = BASE - 1
       /\ pc \in {"poll", "rephase", "restatus", "reoffset"} => remaining # 0
       /\ pc = "poll" => ~need
       /\ pc = "rephase" => need
       /\ pc \in {"restatus", "reoffset"} =>
            incl /\ first /\ ~need /\ temp = BASE - 1 /\ status = READY
       /\ pc \in {"stream", "crc"} => first

(* The frames of the current block received so far: the block's own, but    *)
(* for at most one damaged on the way.                                      *)
NearPrefix ==
  \E j \in 1..P : \A k \in 1..(i - 1) :
    \/ buf[k] = FileBlock(Current)[k]
    \/ k = j /\ buf[k] \in Corrupted(FileBlock(Current)[k])

(* Host and controller agree on the block: the controller is one block      *)
(* ahead only once it has accepted one and was not asked.  Before the sum   *)
(* is sent, a sum is only compared to be refused.                           *)
BlockInv ==
  /\ pc = "poll" =>
       /\ status \in {READY, BAD_CRC, RECEIVING, CHECKING, ACCEPTED}
       /\ ~first => status = READY
       /\ addr = IF status = READY /\ first THEN Current + 1 ELSE Current
  /\ pc \in {"stream", "crc"} =>
       /\ status \in {READY, BAD_CRC, RECEIVING, CHECKING}
       /\ status = CHECKING => CrcOf(buf) # crc
       /\ addr = Current

(* As long as no frame is lost they agree on the frame, too.                *)
FrameInv ==
  /\ pc = "poll" => status # RECEIVING /\ idx = 0
  /\ pc = "stream" => status # CHECKING /\ idx = i - 1 /\ NearPrefix
  /\ pc = "crc" => status = RECEIVING /\ idx = P /\ i = P + 1 /\ NearPrefix

(* A block that will be programmed is the file's block for that address,    *)
(* even after the process that sent it is gone.                             *)
PendingInv == BlockPending => buf = FileBlock(addr)

(* While a transfer is open, "erased" is true of all that is left of the    *)
(* sector, so that programming never meets bits already cleared.            *)
Transferring ==
  pc \in {"poll", "stream", "crc", "rephase"} \/ status \in {CHECKING, ACCEPTED}

ErasedInv ==
  Transferring /\ erased =>
    /\ addr \in Blocks
    /\ \A b \in Blocks : b >= addr /\ SameSector(b, addr) => flash[b] = Blank

(* What holds also when frames are lost, as long as neither is misled.      *)
CourseInv ==
  PreparedInv /\ CountInv /\ BlockInv /\ PendingInv /\ ErasedInv /\ NoForeignBlock

TransferInv == CourseInv /\ FrameInv

(* What has been counted is in place.  The last block of the boot block is  *)
(* excepted: the program does not ask about it before the rejump.           *)
Placed(n) ==
  \A b \in Blocks : FirstBlock <= b /\ b < n => b = BASE - 1 \/ flash[b] = FileBlock(b)

(* The controller erases a sector before it writes the first block of it,   *)
(* so that no block in place is erased again; and the loop ends with the    *)
(* controller at the last block of the main firmware or beyond it.          *)
Writing == pc \in {"poll", "stream", "crc", "rephase"} \/ (pc = "final" /\ remaining = 0)

PlacedInv ==
  /\ pc \in {"poll", "stream", "crc"} => Placed(addr)
  /\ pc \in {"rephase", "restatus", "reoffset"} => Placed(BASE)
  /\ pc \in {"final", "finish"} /\ remaining = 0 => Placed(MARKER - 1)
  /\ pc \in {"stream", "crc", "final"} /\ remaining = 0 => addr >= MARKER - 1
  /\ pc = "rephase" => addr >= BASE - 1
  /\ pc = "finish" => status \in {FINALISE, RECEIVING}
  /\ Writing /\ ~erased => addr \in SectorStarts \/ addr >= ROM_SIZE

(* A plain update begins at the main firmware, and the controller's address *)
(* only moves up from there.                                                *)
PlainInv ==
  /\ pc \in {"phase", "offset"} => remaining = ToSend
  /\ pc \in {"poll", "stream", "crc"} /\ ~incl => BASE <= addr
-----------------------------------------------------------------------------
(* With sleeps that suffice.  The controller runs the main firmware exactly *)
(* while the boot block is written, and a block that is handed over belongs *)
(* to the other program, also after its process is gone.                    *)
Pending == status \in {CHECKING, ACCEPTED}

JumpInv ==
  /\ armed => /\ mode = "main" /\ status = READY
              /\ pc \in {"off", "id", "offset", "restatus"}
              /\ pc = "offset" => addr = FirstBlock
              /\ pc = "restatus" => addr = BASE
  /\ pc = "phase" /\ incl => mode = "main"
  /\ pc = "offset" => (mode = "main" <=> incl \/ armed)
  /\ pc = "restatus" => (mode = "main" <=> armed)
  /\ pc = "reoffset" => mode = "boot"

SideInv ==
  /\ pc \in {"poll", "stream", "crc", "rephase"} =>
       \/ /\ mode = "main" /\ incl /\ Counted <= BASE
          /\ Counted = BASE => need \/ remaining = 0
       \/ /\ mode = "boot" /\ Current >= BASE - 1
          /\ Current = BASE - 1 => pc = "poll" /\ first /\ status = READY
  /\ Pending => (mode = "main" <=> addr < BASE)

(* The loop is never broken off, and a reset that was asked for comes       *)
(* before anything else.                                                    *)
EndInv ==
  /\ pc \in {"final", "finish"} => remaining = 0
  /\ pc = "finish" => status \in {FINALISE, RECEIVING}
  /\ reboot # 0 => pc \in {"off", "id"} /\ ~Pending

ModeInv == JumpInv /\ SideInv /\ EndInv

(* A file of the chip's size is sent up to the marker and not beyond, so    *)
(* that the marker goes by finalising only, when all is sent.               *)
SpanInv ==
  /\ pc \in {"phase", "offset"} => remaining > TAIL
  /\ pc \in {"poll", "stream", "crc", "rephase", "restatus", "reoffset"} =>
       remaining = 0 \/ remaining > TAIL
  /\ pc \in {"stream", "crc"} /\ remaining = 0 => Current = MARKER - 1
  /\ Pending => addr < MARKER
  /\ flash[MARKER] = Blank
  /\ status = FINALISE => \A b \in BASE..(MARKER - 2) : flash[b] = FileBlock(b)

(* Without damaged frames no block is refused, and what the program does    *)
(* not ask about its sleeps wait for.                                       *)
AllPlaced(n) == \A b \in Blocks : FirstBlock <= b /\ b < n => flash[b] = FileBlock(b)

ExactPrefix == \A k \in 1..(i - 1) : buf[k] = FileBlock(Current)[k]

WholeInv ==
  /\ pc \in {"stream", "crc"} => status # BAD_CRC /\ ExactPrefix
  /\ pc \in {"poll", "rephase", "final"} =>
       /\ status \in {READY, CHECKING, ACCEPTED}
       /\ status = CHECKING => CrcOf(buf) = crc
  /\ pc \in {"poll", "stream", "crc", "rephase", "final"} => AllPlaced(addr)
  /\ pc = "rephase" => addr = IF status = READY THEN BASE ELSE BASE - 1
  /\ pc \in {"restatus", "reoffset"} => AllPlaced(BASE)
  /\ pc = "final" => addr = IF status = READY THEN MARKER ELSE MARKER - 1
  /\ pc = "finish" => AllPlaced(MARKER)

(* What holds as long as no frame is lost or damaged, whatever else fails.  *)
SleepsInv == ModeInv /\ SpanInv /\ WholeInv

(* When processes neither fail nor are killed, there is no block without    *)
(* its process, and the boot block is without its marker only once the main *)
(* firmware is whole and a reset is due.                                    *)
HeldInv ==
  /\ Pending => pc \in {"poll", "rephase", "final"}
  /\ status = FINALISE => pc = "finish"
  /\ mode = "boot" /\ ~marker => AllNew /\ (pc = "finish" \/ reboot # 0)
=============================================================================
