------------------------------ MODULE EcFlashV2 -----------------------------
(***************************************************************************)
(* The second program of ec_flash.c (lines 494 to 979), an older           *)
(* reconstruction of the same flasher.  Up to the loop it makes the calls  *)
(* of the first one, except that with -d it does nothing.  In the loop it  *)
(* differs in three ways: a failing call breaks out of a loop where the    *)
(* first program returns, the block number is a uint8_t, and the file is   *)
(* padded with zeros.                                                      *)
(***************************************************************************)
EXTENDS EcFlash

CONSTANT LAP    \* uint8_t temp wraps at this many blocks (256)

ASSUME LapAssumption == LAP \in Nat \ {0}

Zeros == [j \in 1..P |-> <<0, 0>>]

FileBlock2(k) == IF k < rom.size THEN rom.data[k] ELSE Zeros

(* Mutant of NextTemp2: the READY of the opened phase counts as a block.    *)
NextAlways2 == (temp + 1) % LAP

NextTemp2 == IF first THEN (temp + 1) % LAP ELSE temp

(* A failing call takes main somewhere else than out of the program.        *)
Read2(use, otherwise) ==
  /\ \/ use /\ UNCHANGED faults
     \/ Fault("fail") /\ otherwise
  /\ UNCHANGED <<deviceVars, rom, runs>>

Write2(arrive, go, otherwise) ==
  /\ \/ arrive /\ go /\ UNCHANGED faults
     \/ UNCHANGED deviceVars /\ Fault("fail") /\ otherwise
  /\ UNCHANGED <<rom, runs>>

(* break: what follows the loop finalises, whatever is left to send.        *)
Break == GoTo("final")
-----------------------------------------------------------------------------
(* mode 2: -d anywhere on the command line.                                 *)
Idle(line) == "-d" \in line

Flashes(line) == Opens(line) /\ ~Idle(line)

Start2 == Start /\ args' \in {Parsed(line) : line \in {l \in CommandLines : Flashes(l)}}

(* With -d the program ends at once and well; without it, and without a     *)
(* file it can open, with the usage text or a message.                      *)
StartsNothing2 ==
  /\ pc = "off"
  /\ runs < MaxRuns
  /\ runs' = runs + 1
  /\ \/ Fault("open") /\ Leave("error")
     \/ \E line \in CommandLines :
          /\ ~Flashes(line)
          /\ Leave(IF Idle(line) THEN "ok" ELSE "error")
          /\ UNCHANGED faults
  /\ UNCHANGED <<deviceVars, rom>>

(* Everything before the loop: here a failing call does end the program.    *)
Prologue2 ==
  \/ Start2 \/ StartsNothing2
  \/ ReadId \/ ReadVer \/ ReadBase \/ ReadStatus
  \/ SendPhase \/ SendOffset

RejumpPhase2 ==
  LET goes(step) == /\ need' = FALSE
                    /\ pc' = step
                    /\ UNCHANGED <<outcome, args, ram_id, incl, remaining, temp, first, i>>
  IN  /\ pc = "rephase"
      /\ Slept
      /\ Write2(RecvPhase(1, args.mask), goes("restatus"), goes("final"))

RejumpStatus2 ==
  /\ pc = "restatus"
  /\ Slept
  /\ Read2(IF BootStatus = IN_BOOT_BLOCK THEN GoTo("reoffset") ELSE Break, Break)

RejumpOffset2 ==
  /\ pc = "reoffset"
  /\ Write2(RecvOffset(Low16(BASE)), GoTo("poll"), Break)

BlockDone2 ==
  LET left == Sub32(remaining, 1)
      jump == Sub32(rom.size, BASE) = left
  IN  /\ need' = (need \/ jump)
      /\ remaining' = IF ~jump /\ OnlyTail(left) THEN 0 ELSE left
      /\ temp' = NextTemp2
      /\ first' = TRUE

PollProgress2 ==
  /\ pc = "poll"
  /\ Read2(\/ /\ status \in Done \cup ToResend
              /\ IF status \in Done THEN BlockDone2
                 ELSE UNCHANGED <<remaining, temp, first, need>>
              /\ pc' = "stream"
              /\ i' = 1
              /\ UNCHANGED <<outcome, args, ram_id, incl>>
           \/ /\ status \notin Done \cup ToResend
              /\ GoTo("poll")
           \/ /\ rom.size = 0
              /\ status \in Done \cup ToResend
              /\ Leave("killed"),
           Break)

SendFrame2(frame, go, otherwise) ==
  \/ Write2(RecvData(frame), go, otherwise)
  \/ /\ Fault("lost")
     /\ UNCHANGED deviceVars
     /\ go
     /\ UNCHANGED <<rom, runs>>
  \/ /\ Fault("corrupt")
     /\ \A j \in 1..(i - 1) : buf[j] = FileBlock2(Current)[j]
     /\ \E damaged \in Corrupted(frame) : RecvData(damaged)
     /\ go
     /\ UNCHANGED <<rom, runs>>

(* The break for a frame that could not be written leaves the loop over the *)
(* frames only: the sum of the whole block is sent next.                    *)
StreamData2 ==
  /\ pc = "stream"
  /\ SendFrame2(FileBlock2(Current)[i],
                /\ i' = i + 1
                /\ pc' = IF i = P THEN "crc" ELSE "stream"
                /\ UNCHANGED <<outcome, args, ram_id, incl, remaining, temp, first, need>>,
                GoTo("crc"))

SendCrc2 ==
  /\ pc = "crc"
  /\ SendFrame2(<<CrcOf(FileBlock2(Current)), temp % 256>>,
                GoTo(LoopHead(remaining, need)),
                Break)

(* The results of the last two calls are not looked at.                     *)
SendFinalise2 ==
  /\ pc = "final"
  /\ Slept
  /\ Write2(RecvPhase(4, 0), GoTo("finish"), GoTo("finish"))

SendFinish2 ==
  /\ pc = "finish"
  /\ Slept
  /\ Write2(RecvFinish(IF args.ota THEN 1 ELSE IF args.sd THEN 2 ELSE 3),
            Leave("ok"), Leave("ok"))

Host2 ==
  \/ Prologue2
  \/ RejumpPhase2 \/ RejumpStatus2 \/ RejumpOffset2
  \/ PollProgress2 \/ StreamData2 \/ SendCrc2
  \/ SendFinalise2 \/ SendFinish2

Next2 == Host2 \/ Device \/ Kill \/ PowerLoss

Spec2 == Init /\ [][Next2]_vars
-----------------------------------------------------------------------------
(* The blocks of the file this program may put where block b belongs: those *)
(* a whole number of laps away, counted from where the transfer began.      *)
LapsOf(b) ==
  {FileBlock2(start + ((b - start) % LAP)) : start \in {s \in {0, BASE} : s <= b}}

(* Blocks are programmed with a block of the file from a whole number of    *)
(* laps away, as long as no call fails and no frame is lost; EcFlashV2Misled *)
(* says what is left of it when they are.                                   *)
WholeLapsOnly == \A b \in Blocks : flash[b] \in {OldImage[b], Blank} \cup LapsOf(b)
=============================================================================
