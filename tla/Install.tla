------------------------------- MODULE Install ------------------------------
(***************************************************************************)
(* flash.sh and the board it flashes: the hush script the board's U-Boot   *)
(* runs (ventana_emmc.hush) looks for a kernel on USB, on the SD card and  *)
(* in the internal storage flash.sh has written.  Each line of the script  *)
(* is a sequence of commands that goes on after a failing one.             *)
(***************************************************************************)
EXTENDS FlashSh

CONSTANTS
  Media,      \* what USB stick and SD card may hold
  MaxBoots    \* bound on the boots of the board

ASSUME BoardAssumption ==
  /\ Media \subseteq [{"usb", "mmc1"} -> {"nothing", "kernel", "damaged"}]
  /\ MaxBoots \in Nat

VARIABLES
  media,     \* what USB stick and SD card hold
  board,     \* "recovery", "uboot" (in its boot script), "linux", "prompt"
  step,      \* the command of the boot script about to be run
  bootdev,   \* the device it is about
  root,      \* the device bootargs name as root
  ram,       \* what lies at loadaddr
  kernel,    \* the kernel that runs: where it was loaded from and who made it
  boots      \* boots so far

boardVars == <<media, board, step, bootdev, root, ram, kernel, boots>>
vars      == <<shVars, boardVars>>

Drives == {"usb", "mmc1", "mmc0"}

(* fresh: loaded since the last reset.                                      *)
Images == [what : {"nothing", "kernel", "damaged"}, from : Drives,
           made : 0..MaxRuns, fresh : BOOLEAN]
NoImage == [what |-> "nothing", from |-> "mmc0", made |-> 0, fresh |-> FALSE]

TypeOK ==
  /\ ShTypeOK
  /\ media \in Media
  /\ board \in {"recovery", "uboot", "linux", "prompt"}
  /\ step \in {"bootargs", "load", "bootm"}
  /\ bootdev \in Drives /\ root \in Drives
  /\ ram \in Images /\ kernel \in Images
  /\ boots \in 0..MaxBoots

Init ==
  /\ ShInit
  /\ media \in Media
  /\ board = "recovery"
  /\ step = "bootargs"
  /\ bootdev = "usb" /\ root = "mmc0"
  /\ ram = NoImage /\ kernel = NoImage
  /\ boots = 0
-----------------------------------------------------------------------------
(* The file /boot/vmlinux.uimg of a drive.  The internal one was made by    *)
(* mkimage, or is of the root file system's own; a part of a file system    *)
(* may hold it or not.                                                      *)
FileOn(drive) ==
  IF drive # "mmc0" THEN {[what |-> media[drive], made |-> 0]}
  ELSE CASE device.mixed -> [what : {"nothing", "kernel", "damaged"}, made : {0}]
         [] device.app.what = "whole" /\ device.app.kernel # 0 ->
              {[what |-> "kernel", made |-> device.app.kernel]}
         [] device.app.what \in {"whole", "partial"} ->
              [what : {"nothing", "kernel"}, made : {0}]
         [] OTHER -> {[what |-> "nothing", made |-> 0]}

(* Mutant of SetBootargs: the root device is left what it was.              *)
SetBootargsKeepsRoot ==
  /\ board = "uboot" /\ step = "bootargs"
  /\ step' = "load"
  /\ UNCHANGED <<shVars, media, board, bootdev, root, ram, kernel, boots>>

(* mmc_setup, usb_setup: root= is the first partition of the drive.         *)
SetBootargs ==
  /\ board = "uboot" /\ step = "bootargs"
  /\ root' = bootdev
  /\ step' = "load"
  /\ UNCHANGED <<shVars, media, board, bootdev, ram, kernel, boots>>

(* ext2load overwrites what is at loadaddr, or fails and leaves it there.   *)
LoadKernel ==
  /\ board = "uboot" /\ step = "load"
  /\ \E file \in FileOn(bootdev) :
       ram' = IF file.what = "nothing" THEN ram
              ELSE [what |-> file.what, from |-> bootdev, made |-> file.made, fresh |-> TRUE]
  /\ step' = "bootm"
  /\ UNCHANGED <<shVars, media, board, bootdev, root, kernel, boots>>

(* USB, then the SD card, then the internal storage.  Mutant of Order: the  *)
(* count does not begin at zero.                                            *)
OrderFromOne(drive) == IF drive = "usb" THEN "mmc1" ELSE "mmc2"

Order(drive) == IF drive = "usb" THEN "mmc1" ELSE "mmc0"

(* bootm starts what is at loadaddr if it is a kernel image whose sum is    *)
(* right, whoever put it there.  Mutant of Bootm: the script stops when it  *)
(* fails.                                                                   *)
BootmStops ==
  /\ board = "uboot" /\ step = "bootm"
  /\ step' = "bootargs"
  /\ IF ram.what = "kernel"
     THEN board' = "linux" /\ kernel' = ram
     ELSE board' = "prompt" /\ UNCHANGED kernel
  /\ UNCHANGED <<shVars, media, bootdev, root, ram, boots>>

Bootm ==
  /\ board = "uboot" /\ step = "bootm"
  /\ step' = "bootargs"
  /\ IF ram.what = "kernel"
     THEN board' = "linux" /\ kernel' = ram /\ UNCHANGED bootdev
     ELSE /\ board' = IF bootdev = "mmc0" THEN "prompt" ELSE "uboot"
          /\ bootdev' = Order(bootdev)
          /\ UNCHANGED kernel
  /\ UNCHANGED <<shVars, media, root, ram, boots>>

BootScript == SetBootargs \/ LoadKernel \/ Bootm

(* The board is switched on, or reset with or without its memory kept, and  *)
(* the bootloader flashed is U-Boot.  What the board does while a script is *)
(* under way touches nothing of the script's, and nvflash ends it: boots    *)
(* are left out then.                                                       *)
Boot ==
  /\ pc = "off"
  /\ boots < MaxBoots
  /\ boots' = boots + 1
  /\ device.loader = "u-boot.bin"
  /\ board' = "uboot"
  /\ step' = "bootargs"
  /\ bootdev' = "usb"
  /\ ram' \in {NoImage, [ram EXCEPT !.fresh = FALSE]}
  /\ kernel' = NoImage
  /\ UNCHANGED <<shVars, media, root>>

(* For nvflash the user puts the board into recovery mode.                  *)
InRecovery ==
  /\ board' = "recovery"
  /\ step' = "bootargs"
  /\ bootdev' = "usb"
  /\ ram' = NoImage
  /\ kernel' = NoImage
  /\ UNCHANGED <<media, root, boots>>

Installer ==
  \/ Flash /\ InRecovery
  \/ (StartRun \/ Build \/ Copy \/ KillScript \/ TakeLoop) /\ UNCHANGED boardVars

Next == Installer \/ BootScript \/ Boot

(* U-Boot runs its script to the end; nobody has to start or reset anything.*)
Spec == Init /\ [][Next]_vars /\ WF_vars(BootScript)
-----------------------------------------------------------------------------
(* A kernel runs with the root file system of the drive it was loaded from, *)
(* unless it is one the memory kept over a reset: a drive that has no       *)
(* kernel does not stop the commands that follow the load.                  *)
RootMatchesKernel == board = "linux" => kernel.from = root \/ ~kernel.fresh

(* When flash.sh has reported a board with u-boot flashed from internal     *)
(* storage, and neither USB nor SD card hold a kernel, a board switched on  *)
(* comes to run the kernel of that very run, with the internal storage as   *)
(* root unless it was reset on the way with that kernel already in memory.  *)
Ready ==
  /\ outcome = "flashed" /\ UBoot /\ Internal /\ ~opts.reuse
  /\ "source" \notin struck
  /\ "kernel" \notin {media["usb"], media["mmc1"]}

FlashedBoots ==
  (Ready /\ board = "uboot" /\ bootdev = "usb" /\ ram = NoImage) ~>
    \/ board = "linux" /\ kernel.made = runs /\ (kernel.fresh => root = "mmc0")
    \/ outcome # "flashed"
=============================================================================
