------------------------------- MODULE FlashSh ------------------------------
(***************************************************************************)
(* flash.sh: the files, mounts and tools between the options of the script *)
(* and the board.  One action is one command whose failure the script      *)
(* tells from its success, or would have to.  What a run makes carries the *)
(* number of that run, for kernel, root file system and settings may have  *)
(* changed since the run before: a file an earlier run left behind can be  *)
(* told from one this run made.                                            *)
(***************************************************************************)
EXTENDS Naturals

CONSTANTS
  Options,      \* the command lines a run may be given
  FaultKinds,   \* which faults may happen
  MaxFaults,    \* bound on the faults of a behaviour
  MaxRuns       \* bound on the runs of the script

MIN_KERN_PARTID == 5

(* A binary the options name: the board's, the user's own, or the one that  *)
(* lies in the nvflash directory; and the file's name.                      *)
Names == {"fastboot.bin", "u-boot.bin"}
Paths == [dir : {"board", "own", "here"}, name : Names]

(* rootdev: "external" stands for network too, for which the script only    *)
(* words the kernel's command line differently.  complete: the files the    *)
(* options name are there.  script: the boot script is there.  aligned: the *)
(* size is a positive multiple of 512.                                      *)
ASSUME OptionsAssumption ==
  /\ Options \subseteq
       [rootdev : {"internal", "external"}, fs : {"ext3", "yaffs2"},
        partid : Nat, reuse : BOOLEAN, aligned : BOOLEAN, complete : BOOLEAN,
        script : BOOLEAN, bootloader : Paths, flasher : Paths]
  /\ MaxRuns \in Nat /\ MaxFaults \in Nat

(* fail: a command the script checks fails                                  *)
(* source: the feeding end of a pipe, or a tool nobody checks, fails        *)
(* busy: a file system cannot be unmounted, or somebody else takes loop0    *)
(* kill: the script is interrupted                                          *)
ASSUME ScriptFaultAssumption == FaultKinds \subseteq {"fail", "source", "busy", "kill"}

VARIABLES
  pc,        \* the command about to be run; "off" when no run is under way
  opts,      \* the options of this run
  outcome,   \* how the last run ended
  struck,    \* the faults that struck this run
  runs,      \* runs started, and the number of this one
  faults,    \* faults so far
  disk,      \* the files the script makes, see Disks
  loop,      \* what /dev/loop0 is mapped to; "deleted" is a removed system.img
  mount,     \* where /dev/loop0 is mounted
  foreign,   \* the file of somebody else's that loop0 may be mapped to is intact
  device     \* what the board's storage holds, see Devices

processVars == <<opts, runs>>
loopVars    == <<loop, mount, foreign>>
shVars      == <<pc, outcome, struck, faults, disk, device, processVars, loopVars>>

(* A file: what it is, the run that made it and, of a file system image,    *)
(* the run that made the kernel inside; 0 is before all runs.               *)
Files == [what : {"none", "zeros", "empty", "partial", "whole", "kernel", "script"},
          made : 0..MaxRuns, kernel : 0..MaxRuns]
NoFile     == [what |-> "none", made |-> 0, kernel |-> 0]
File(what) == [what |-> what, made |-> runs, kernel |-> 0]

(* flash.cfg says whether boot.img and system.img are written.              *)
Configs == [what : {"none", "partial", "config"}, made : 0..MaxRuns,
            boot : BOOLEAN, system : BOOLEAN]
NoConfig == [what |-> "none", made |-> 0, boot |-> FALSE, system |-> FALSE]

Binaries == [dir : {"board", "own"}, made : 0..MaxRuns]

(* system.img, boot.img, initrd; the kernel in the boot directory of the    *)
(* root file system; flash.bct, flash.cfg; the copies of the bootloader and *)
(* the flasher in the nvflash directory.                                    *)
Disks == [system : Files, bootimg : Files, initrd : Files, tree : 0..MaxRuns,
          bct : 0..MaxRuns, cfg : Configs, folder : [Names -> Binaries]]

(* The bootloader (and its name), boot and file system partitions and the   *)
(* BCT; mixed: a flash was broken off.                                      *)
Devices == [ebt : Binaries, loader : Names, lnx : Files, app : Files, bct : 0..MaxRuns, mixed : BOOLEAN]

BuildSteps == {"kernel", "unmount", "detach", "clear", "dd", "map", "mkfs", "rmmnt",
               "mount", "tar", "unmount again", "detach again", "yaffs"}
CopySteps  == {"bct", "cfg", "loader", "flasher", "flashapp", "script", "initrd", "bootimg"}
ShSteps    == {"off", "flash"} \cup BuildSteps \cup CopySteps

ShTypeOK ==
  /\ pc \in ShSteps
  /\ opts \in Options
  /\ outcome \in {"none", "refused", "error", "killed", "updated", "flashed"}
  /\ struck \subseteq FaultKinds
  /\ runs \in 0..MaxRuns /\ faults \in 0..MaxFaults
  /\ disk \in Disks
  /\ loop \in {"free", "system", "deleted", "foreign"}
  /\ mount \in {"nowhere", "mnt", "elsewhere"}
  /\ foreign \in BOOLEAN
  /\ device \in Devices

ShInit ==
  /\ pc = "off" /\ opts \in Options /\ outcome = "none" /\ struck = {}
  /\ runs = 0 /\ faults = 0
  /\ disk = [system |-> NoFile, bootimg |-> NoFile, initrd |-> NoFile, tree |-> 0,
             bct |-> 0, cfg |-> NoConfig,
             folder |-> [n \in Names |-> [dir |-> "board", made |-> 0]]]
  /\ \/ loop = "free" /\ mount = "nowhere"
     \/ loop = "foreign" /\ mount \in {"nowhere", "elsewhere"}
  /\ foreign = TRUE
  /\ device = [ebt |-> [dir |-> "board", made |-> 0], loader |-> "fastboot.bin", lnx |-> NoFile, app |-> NoFile,
               bct |-> 0, mixed |-> FALSE]
-----------------------------------------------------------------------------
UBoot      == opts.bootloader.name = "u-boot.bin"
KernelOnly == opts.partid >= MIN_KERN_PARTID
Internal   == opts.rootdev = "internal"

Strike(kind) ==
  /\ kind \in FaultKinds
  /\ faults < MaxFaults
  /\ faults' = faults + 1
  /\ struck' = struck \cup {kind}

Unhurt == UNCHANGED <<faults, struck>>

GoOn(step) == pc' = step /\ UNCHANGED outcome
Exit(how)  == pc' = "off" /\ outcome' = how

(* What a tool that fails or is interrupted leaves of its output.           *)
Broken(step) ==
  CASE step = "kernel" -> [disk EXCEPT !.tree = 0]
    [] step \in {"dd", "yaffs"} -> [disk EXCEPT !.system = File("partial")]
    [] step = "bct"    -> [disk EXCEPT !.bct = 0]
    [] step = "cfg"    -> [disk EXCEPT !.cfg = [NoConfig EXCEPT !.what = "partial"]]
    [] step = "initrd" -> [disk EXCEPT !.initrd = File("partial")]
    [] step \in {"script", "bootimg"} -> [disk EXCEPT !.bootimg = File("partial")]
    [] OTHER -> disk

(* A checked command that makes a file.                                     *)
Tool(step, result, next) ==
  /\ pc = step
  /\ \/ disk' = result /\ GoOn(next) /\ Unhurt
     \/ disk' = Broken(step) /\ Exit("error") /\ Strike("fail")
  /\ UNCHANGED <<processVars, loopVars, device>>

(* A command whose failure goes unnoticed: the output is short, and the     *)
(* script goes on.                                                          *)
Unnoticed(step, next) ==
  /\ pc = step
  /\ disk' = Broken(step)
  /\ GoOn(next)
  /\ Strike("source")
  /\ UNCHANGED <<processVars, loopVars, device>>

(* What is written to /dev/loop0 goes to the file it is mapped to.          *)
ThroughLoop(content) ==
  /\ disk' = IF loop = "system" THEN [disk EXCEPT !.system = content] ELSE disk
  /\ foreign' = (foreign /\ loop # "foreign")
-----------------------------------------------------------------------------
(* The script's own checks, before it touches anything: for internal NAND   *)
(* there is no u-boot.  The device and its boot image decide what is built. *)
Acceptable(o) ==
  /\ o.complete
  /\ o.partid = 0 \/ o.partid >= MIN_KERN_PARTID
  /\ ~(o.rootdev = "internal" /\ o.fs = "yaffs2" /\ o.bootloader.name = "u-boot.bin")

FirstStep(o) ==
  CASE o.rootdev = "external" -> "bct"
    [] o.rootdev = "internal" /\ o.partid >= MIN_KERN_PARTID ->
         IF o.bootloader.name = "u-boot.bin" THEN "off" ELSE "bct"
    [] o.rootdev = "internal" /\ o.partid < MIN_KERN_PARTID /\ o.reuse ->
         IF disk.system.what = "none" THEN "off" ELSE "bct"
    [] OTHER -> IF o.fs = "yaffs2" THEN "yaffs"
                ELSE IF o.bootloader.name = "u-boot.bin" THEN "kernel" ELSE "unmount"

StartRun ==
  /\ pc = "off"
  /\ runs < MaxRuns
  /\ runs' = runs + 1
  /\ struck' = {}
  /\ \E o \in Options :
       /\ opts' = o
       /\ pc' = IF Acceptable(o) THEN FirstStep(o) ELSE "off"
       /\ outcome' = IF pc' = "off" THEN "refused" ELSE "none"
  /\ UNCHANGED <<faults, disk, loopVars, device>>

(* mkimage puts the kernel into the root file system, the old one removed.  *)
MakeTreeKernel == Tool("kernel", [disk EXCEPT !.tree = runs], "unmount")

(* Mutant of Unmount: only what this run mounted is unmounted.              *)
UnmountOwn ==
  /\ \/ pc = "unmount" /\ GoOn("detach") /\ UNCHANGED mount
     \/ pc = "unmount again" /\ GoOn("detach again") /\ mount' = "nowhere"
  /\ Unhurt
  /\ UNCHANGED <<processVars, disk, loop, foreign, device>>

(* umount /dev/loop0, its result ignored.                                   *)
Unmount ==
  /\ \/ pc = "unmount" /\ GoOn("detach")
     \/ pc = "unmount again" /\ GoOn("detach again")
  /\ \/ mount' = "nowhere" /\ Unhurt
     \/ mount # "nowhere" /\ UNCHANGED mount /\ Strike("busy")
  /\ UNCHANGED <<processVars, disk, loop, foreign, device>>

(* losetup -d /dev/loop0, its result ignored: it stays while mounted.       *)
Detach ==
  /\ \/ pc = "detach" /\ GoOn("clear")
     \/ pc = "detach again" /\ GoOn("bct")
  /\ \/ loop' = (IF mount = "nowhere" THEN "free" ELSE loop) /\ Unhurt
     \/ loop # "free" /\ UNCHANGED loop /\ Strike("busy")
  /\ UNCHANGED <<processVars, disk, mount, foreign, device>>

(* Removing an image does not unmap it.  Then the size is looked at.        *)
ClearImage ==
  /\ pc = "clear"
  /\ \/ /\ disk' = [disk EXCEPT !.system = NoFile]
        /\ loop' = IF loop = "system" THEN "deleted" ELSE loop
        /\ IF opts.aligned THEN GoOn("dd") ELSE Exit("refused")
        /\ Unhurt
     \/ Exit("error") /\ Strike("fail") /\ UNCHANGED <<disk, loop>>
  /\ UNCHANGED <<processVars, mount, foreign, device>>

MakeImage == Tool("dd", [disk EXCEPT !.system = File("zeros")], "map")

(* Mutant of MapImage: nobody looks whether the mapping succeeded.          *)
MapImageUnchecked ==
  /\ pc = "map"
  /\ loop' = IF loop = "free" THEN "system" ELSE loop
  /\ GoOn("mkfs")
  /\ Unhurt
  /\ UNCHANGED <<processVars, disk, mount, foreign, device>>

(* losetup fails on a loop device that is mapped.                           *)
MapImage ==
  /\ pc = "map"
  /\ \/ loop = "free" /\ loop' = "system" /\ GoOn("mkfs") /\ Unhurt
     \/ loop # "free" /\ Exit("error") /\ Unhurt /\ UNCHANGED loop
     \/ loop = "free" /\ Exit("error") /\ Strike("fail") /\ UNCHANGED loop
  /\ UNCHANGED <<processVars, disk, mount, foreign, device>>

(* mkfs refuses a mounted device.                                           *)
MakeFileSystem ==
  /\ pc = "mkfs"
  /\ \/ mount = "nowhere" /\ ThroughLoop(File("empty")) /\ GoOn("rmmnt") /\ Unhurt
     \/ mount = "nowhere" /\ ThroughLoop(File("partial")) /\ Exit("error") /\ Strike("fail")
     \/ mount # "nowhere" /\ UNCHANGED <<disk, foreign>> /\ Exit("error") /\ Unhurt
  /\ UNCHANGED <<processVars, loop, mount, device>>

(* rm -rf mnt: what is mounted there is emptied, and the directory stays.   *)
ClearMountPoint ==
  /\ pc = "rmmnt"
  /\ \/ mount # "mnt" /\ GoOn("mount") /\ Unhurt /\ UNCHANGED <<disk, foreign>>
     \/ mount # "mnt" /\ Exit("error") /\ Strike("fail") /\ UNCHANGED <<disk, foreign>>
     \/ mount = "mnt" /\ Exit("error") /\ Unhurt /\ ThroughLoop(File("empty"))
  /\ UNCHANGED <<processVars, loop, mount, device>>

MountImage ==
  /\ pc = "mount"
  /\ \/ mount' = "mnt" /\ GoOn("tar") /\ Unhurt
     \/ Exit("error") /\ Strike("fail") /\ UNCHANGED mount
  /\ UNCHANGED <<processVars, disk, loop, foreign, device>>

(* tar cf - | tar xf -: only the second one's failure is seen; either       *)
(* leaves a part of the files.                                              *)
Populate ==
  /\ pc = "tar"
  /\ \/ /\ ThroughLoop([File("whole") EXCEPT !.kernel = disk.tree])
        /\ GoOn("unmount again") /\ Unhurt
     \/ ThroughLoop(File("partial")) /\ Exit("error") /\ Strike("fail")
     \/ ThroughLoop(File("partial")) /\ GoOn("unmount again") /\ Strike("source")
  /\ UNCHANGED <<processVars, loop, mount, device>>

(* mkyaffs2image, whose result nobody checks.                               *)
MakeYaffsImage ==
  \/ /\ pc = "yaffs"
     /\ disk' = [disk EXCEPT !.system = [File("whole") EXCEPT !.kernel = disk.tree]]
     /\ GoOn("bct") /\ Unhurt
     /\ UNCHANGED <<processVars, loopVars, device>>
  \/ Unnoticed("yaffs", "bct")

Build ==
  \/ MakeTreeKernel \/ Unmount \/ Detach \/ ClearImage \/ MakeImage \/ MapImage
  \/ MakeFileSystem \/ ClearMountPoint \/ MountImage \/ Populate \/ MakeYaffsImage
-----------------------------------------------------------------------------
(* A kernel update removes the settings of a full flash.                    *)
CopyBct ==
  IF KernelOnly
  THEN /\ pc = "bct"
       /\ disk' = [disk EXCEPT !.bct = 0, !.cfg = NoConfig]
       /\ GoOn("loader") /\ Unhurt
       /\ UNCHANGED <<processVars, loopVars, device>>
  ELSE Tool("bct", [disk EXCEPT !.bct = runs], "cfg")

(* sed edits the settings: a boot image with fastboot, or with a script for *)
(* u-boot; a file system only for an internal device.  Mutant of            *)
(* ConvertedCfg: u-boot gets the boot image without a script too.           *)
ConvertedCfgAlways ==
  [what |-> "config", made |-> runs, boot |-> TRUE, system |-> Internal]

ConvertedCfg ==
  [what |-> "config", made |-> runs, boot |-> ~UBoot \/ opts.script, system |-> Internal]

CopyCfg ==
  \/ Tool("cfg", [disk EXCEPT !.cfg = ConvertedCfg], "loader")
  \/ Unnoticed("cfg", "loader")

CopyOf(path) == IF path.dir = "here" THEN disk.folder[path.name]
                ELSE [dir |-> path.dir, made |-> runs]

CopyLoader ==
  Tool("loader", [disk EXCEPT !.folder[opts.bootloader.name] = CopyOf(opts.bootloader)],
       "flasher")

AfterLoaders == IF ~UBoot THEN "initrd" ELSE IF opts.script THEN "script" ELSE "flash"

(* The flasher is not copied when it is the bootloader; when it only has    *)
(* the bootloader's name it takes the bootloader's place.                   *)
CopyFlasher ==
  Tool("flasher", IF opts.flasher = opts.bootloader THEN disk
                  ELSE [disk EXCEPT !.folder[opts.flasher.name] = CopyOf(opts.flasher)],
       "flashapp")

CopyFlashApp == Tool("flashapp", disk, AfterLoaders)

(* cat | sed > script, then mkubootscript, which is checked.                *)
MakeScript ==
  \/ Tool("script", [disk EXCEPT !.bootimg = File("script")], "flash")
  \/ Unnoticed("script", "flash")

MakeInitrd == Tool("initrd", [disk EXCEPT !.initrd = File("whole")], "bootimg")

MakeBootImage == Tool("bootimg", [disk EXCEPT !.bootimg = File("kernel")], "flash")

Copy ==
  \/ CopyBct \/ CopyCfg \/ CopyLoader \/ CopyFlasher \/ CopyFlashApp
  \/ MakeScript \/ MakeInitrd \/ MakeBootImage
-----------------------------------------------------------------------------
(* nvflash, told to download one partition, or to lay out the storage anew  *)
(* as flash.cfg says.  It may break off at any point.                       *)
Downloaded == [device EXCEPT !.lnx = disk.bootimg]

Created ==
  [ebt |-> disk.folder[opts.bootloader.name], loader |-> opts.bootloader.name,
   bct |-> disk.bct, mixed |-> FALSE,
   lnx |-> IF disk.cfg.boot THEN disk.bootimg ELSE NoFile,
   app |-> IF disk.cfg.system THEN disk.system ELSE NoFile]

Flash ==
  /\ pc = "flash"
  /\ \/ /\ device' = IF KernelOnly THEN Downloaded ELSE Created
        /\ Exit(IF KernelOnly THEN "updated" ELSE "flashed")
        /\ Unhurt
     \/ device' = [device EXCEPT !.mixed = TRUE] /\ Exit("error") /\ Strike("fail")
  /\ UNCHANGED <<processVars, disk, loopVars>>

Script == StartRun \/ Build \/ Copy \/ Flash

(* The script is interrupted in a command; mounts and mappings stay.        *)
KillScript ==
  /\ pc # "off"
  /\ Exit("killed")
  /\ Strike("kill")
  /\ IF pc \in {"mkfs", "tar"}
     THEN ThroughLoop(File("partial"))
     ELSE disk' = Broken(pc) /\ UNCHANGED foreign
  /\ device' = IF pc = "flash" THEN [device EXCEPT !.mixed = TRUE] ELSE device
  /\ UNCHANGED <<processVars, loop, mount>>

(* Somebody else maps a file of theirs to the first free loop device.       *)
TakeLoop ==
  /\ loop = "free"
  /\ loop' = "foreign"
  /\ Strike("busy")
  /\ UNCHANGED <<pc, outcome, processVars, disk, mount, foreign, device>>

ShNext == Script \/ KillScript \/ TakeLoop

ShSpec == ShInit /\ [][ShNext]_shVars

-----------------------------------------------------------------------------
(* What a run reports done was made by that run, whatever earlier runs,     *)
(* failed or interrupted ones included, left in the directory: the file     *)
(* system unless -r asked for an old one, with the kernel inside for        *)
(* u-boot; the boot image, or none where there is none to be; the BCT.      *)
(* Only a failure the script cannot see is excepted, and a kernel update    *)
(* with u-boot, which the script refuses for internal devices only.         *)
ByThisRun(file, what) == file.what = what /\ file.made = runs

FullyFlashed ==
  /\ device.bct = runs /\ ~device.mixed
  /\ Internal /\ ~opts.reuse =>
       ByThisRun(device.app, "whole") /\ (UBoot => device.app.kernel = runs)
  /\ ~Internal => device.app = NoFile
  /\ ~UBoot => ByThisRun(device.lnx, "kernel")
  /\ UBoot => IF opts.script THEN ByThisRun(device.lnx, "script") ELSE device.lnx = NoFile

FlashedIsBuilt ==
  "source" \notin struck =>
    /\ outcome = "flashed" => FullyFlashed
    /\ outcome = "updated" => UBoot \/ ByThisRun(device.lnx, "kernel")

(* The script never formats, fills or empties a file other than its own     *)
(* through /dev/loop0, although it ignores whether unmounting and unmapping *)
(* worked and somebody may take the device in between.                      *)
ForeignKept == foreign

(* What a killed or failed run left mapped, mounted or half made never      *)
(* makes a later run fail: a run fails only by something that struck it.    *)
NoFailureByLeftovers == outcome = "error" => struck # {}

(* "BOOTLOADER: Bootloader binary to be flashed": it is what is flashed.    *)
BootloaderIsFlashed ==
  outcome = "flashed" =>
    device.ebt.dir = opts.bootloader.dir \/ opts.bootloader.dir = "here"
=============================================================================
