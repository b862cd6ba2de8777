---------------------------- MODULE InstallProofs ---------------------------
(***************************************************************************)
(* Theorems about flash.sh and about the script with a board beside it,    *)
(* for every set of command lines, fault mix, set of media and number of   *)
(* runs and boots.  What each step of the script preserves comes first; a  *)
(* step of the whole is a step of the script or none, so it carries over.  *)
(***************************************************************************)
EXTENDS Install, TLAPS

-----------------------------------------------------------------------------
(* Types.                                                                   *)

LEMMA FileType ==
  ASSUME runs \in 0..MaxRuns, NEW what \in {"zeros", "empty", "partial", "whole", "kernel", "script"}
  PROVE  File(what) \in Files /\ File(what).what = what /\ File(what).made = runs
  BY OptionsAssumption DEF File, Files

LEMMA NoFileType == NoFile \in Files /\ NoConfig \in Configs
  BY OptionsAssumption DEF NoFile, Files, NoConfig, Configs

(* A copy of the files made with one of them replaced.                      *)
LEMMA DiskEdited ==
  ASSUME disk \in Disks, NEW f \in Files, NEW n \in 0..MaxRuns, NEW c \in Configs
  PROVE  /\ [disk EXCEPT !.system = f] \in Disks
         /\ [disk EXCEPT !.bootimg = f] \in Disks
         /\ [disk EXCEPT !.initrd = f] \in Disks
         /\ [disk EXCEPT !.tree = n] \in Disks
         /\ [disk EXCEPT !.bct = n] \in Disks
         /\ [disk EXCEPT !.cfg = c] \in Disks
         /\ [disk EXCEPT !.bct = n, !.cfg = c] \in Disks
  BY DEF Disks

LEMMA BrokenType ==
  ASSUME disk \in Disks, runs \in 0..MaxRuns, NEW here
  PROVE  Broken(here) \in Disks
<1>1. File("partial") \in Files /\ 0 \in 0..MaxRuns
  BY FileType, OptionsAssumption
<1>2. [NoConfig EXCEPT !.what = "partial"] \in Configs
  BY NoFileType DEF Configs
<1> QED  BY <1>1, <1>2, DiskEdited DEF Broken

LEMMA StrikeType ==
  ASSUME ShTypeOK, NEW kind, Strike(kind)
  PROVE  faults' \in 0..MaxFaults /\ struck' \subseteq FaultKinds
<1>1. faults' \in 0..MaxFaults
  BY OptionsAssumption DEF ShTypeOK, Strike
<1>2. struck' \subseteq FaultKinds
  BY DEF ShTypeOK, Strike
<1> QED  BY <1>1, <1>2

LEMMA UnhurtType ==
  ASSUME ShTypeOK, Unhurt
  PROVE  faults' \in 0..MaxFaults /\ struck' \subseteq FaultKinds
  BY DEF ShTypeOK, Unhurt

LEMMA GoOnType ==
  ASSUME ShTypeOK, NEW here \in ShSteps, GoOn(here)
  PROVE  pc' \in ShSteps /\ outcome' \in {"none", "refused", "error", "killed", "updated", "flashed"}
  BY DEF ShTypeOK, GoOn

LEMMA ExitType ==
  ASSUME NEW how \in {"none", "refused", "error", "killed", "updated", "flashed"}, Exit(how)
  PROVE  pc' \in ShSteps /\ outcome' \in {"none", "refused", "error", "killed", "updated", "flashed"}
  BY DEF Exit, ShSteps

(* A checked command, whatever it makes.                                    *)
LEMMA ToolType ==
  ASSUME ShTypeOK, NEW here, NEW result \in Disks, NEW next \in ShSteps,
         Tool(here, result, next)
  PROVE  ShTypeOK'
<1>1. disk' \in Disks
  BY BrokenType DEF Tool, ShTypeOK
<1>2. pc' \in ShSteps /\ outcome' \in {"none", "refused", "error", "killed", "updated", "flashed"}
  BY GoOnType, ExitType DEF Tool
<1>3. faults' \in 0..MaxFaults /\ struck' \subseteq FaultKinds
  BY StrikeType, UnhurtType DEF Tool
<1> QED
  BY <1>1, <1>2, <1>3 DEF Tool, ShTypeOK, processVars, loopVars

LEMMA UnnoticedType ==
  ASSUME ShTypeOK, NEW here, NEW next \in ShSteps, Unnoticed(here, next)
  PROVE  ShTypeOK'
<1>1. disk' \in Disks
  BY BrokenType DEF Unnoticed, ShTypeOK
<1>2. pc' \in ShSteps /\ outcome' \in {"none", "refused", "error", "killed", "updated", "flashed"}
  BY GoOnType DEF Unnoticed
<1>3. faults' \in 0..MaxFaults /\ struck' \subseteq FaultKinds
  BY StrikeType DEF Unnoticed
<1> QED
  BY <1>1, <1>2, <1>3 DEF Unnoticed, ShTypeOK, processVars, loopVars

LEMMA ThroughLoopType ==
  ASSUME ShTypeOK, NEW content \in Files, ThroughLoop(content)
  PROVE  disk' \in Disks /\ foreign' \in BOOLEAN
<1>1. disk' \in Disks
  BY DiskEdited, NoFileType, OptionsAssumption DEF ThroughLoop, ShTypeOK
<1>2. foreign' \in BOOLEAN
  BY DEF ThroughLoop
<1> QED  BY <1>1, <1>2

LEMMA WholeType ==
  ASSUME disk \in Disks, runs \in 0..MaxRuns
  PROVE  /\ [File("whole") EXCEPT !.kernel = disk.tree] \in Files
         /\ [File("whole") EXCEPT !.kernel = disk.tree].what = "whole"
         /\ [File("whole") EXCEPT !.kernel = disk.tree].made = runs
         /\ [File("whole") EXCEPT !.kernel = disk.tree].kernel = disk.tree
<1>1. disk.tree \in 0..MaxRuns
  BY DEF Disks
<1> QED  BY <1>1, FileType DEF File, Files

Outcomes == {"none", "refused", "error", "killed", "updated", "flashed"}

LEMMA StartRunType == ASSUME ShTypeOK, StartRun PROVE ShTypeOK'
<1>1. runs' \in 0..MaxRuns
  BY OptionsAssumption DEF StartRun, ShTypeOK
<1>2. opts' \in Options
  BY DEF StartRun
<1>3. pc' \in ShSteps
  BY DEF StartRun, FirstStep, ShSteps, BuildSteps, CopySteps
<1>4. outcome' \in Outcomes
  BY DEF StartRun, Outcomes
<1>5. struck' \subseteq FaultKinds /\ UNCHANGED <<faults, disk, loopVars, device>>
  BY DEF StartRun
<1> QED  BY <1>1, <1>2, <1>3, <1>4, <1>5 DEF ShTypeOK, loopVars, Outcomes

LEMMA BuildType == ASSUME ShTypeOK, Build PROVE ShTypeOK'
<1> USE DEF ShSteps, BuildSteps, CopySteps
<1>0. runs \in 0..MaxRuns /\ disk \in Disks /\ loop \in {"free", "system", "deleted", "foreign"}
      /\ mount \in {"nowhere", "mnt", "elsewhere"} /\ foreign \in BOOLEAN
  BY DEF ShTypeOK
<1>1. CASE MakeTreeKernel
  <2>1. [disk EXCEPT !.tree = runs] \in Disks
    BY <1>0, DiskEdited, NoFileType
  <2> QED  BY <1>1, <2>1, ToolType DEF MakeTreeKernel
<1>2. CASE Unmount
  <2>1. pc' \in ShSteps /\ outcome' \in Outcomes
    BY <1>2, GoOnType DEF Unmount, Outcomes
  <2>2. faults' \in 0..MaxFaults /\ struck' \subseteq FaultKinds
    BY <1>2, StrikeType, UnhurtType DEF Unmount
  <2>3. mount' \in {"nowhere", "mnt", "elsewhere"}
    BY <1>0, <1>2 DEF Unmount
  <2> QED  BY <1>2, <2>1, <2>2, <2>3 DEF Unmount, ShTypeOK, processVars, Outcomes
<1>3. CASE Detach
  <2>1. pc' \in ShSteps /\ outcome' \in Outcomes
    BY <1>3, GoOnType DEF Detach, Outcomes
  <2>2. faults' \in 0..MaxFaults /\ struck' \subseteq FaultKinds
    BY <1>3, StrikeType, UnhurtType DEF Detach
  <2>3. loop' \in {"free", "system", "deleted", "foreign"}
    BY <1>0, <1>3 DEF Detach
  <2> QED  BY <1>3, <2>1, <2>2, <2>3 DEF Detach, ShTypeOK, processVars, Outcomes
<1>4. CASE ClearImage
  <2>1. pc' \in ShSteps /\ outcome' \in Outcomes
    BY <1>4, GoOnType, ExitType DEF ClearImage, Outcomes
  <2>2. faults' \in 0..MaxFaults /\ struck' \subseteq FaultKinds
    BY <1>4, StrikeType, UnhurtType DEF ClearImage
  <2>3. loop' \in {"free", "system", "deleted", "foreign"}
    BY <1>0, <1>4 DEF ClearImage
  <2>4. disk' \in Disks
    BY <1>0, <1>4, DiskEdited, NoFileType DEF ClearImage
  <2> QED  BY <1>4, <2>1, <2>2, <2>3, <2>4 DEF ClearImage, ShTypeOK, processVars, Outcomes
<1>5. CASE MakeImage
  <2>1. [disk EXCEPT !.system = File("zeros")] \in Disks
    BY <1>0, DiskEdited, NoFileType, FileType
  <2> QED  BY <1>5, <2>1, ToolType DEF MakeImage
<1>6. CASE MapImage
  <2>1. pc' \in ShSteps /\ outcome' \in Outcomes
    BY <1>6, GoOnType, ExitType DEF MapImage, Outcomes
  <2>2. faults' \in 0..MaxFaults /\ struck' \subseteq FaultKinds
    BY <1>6, StrikeType, UnhurtType DEF MapImage
  <2>3. loop' \in {"free", "system", "deleted", "foreign"}
    BY <1>0, <1>6 DEF MapImage
  <2> QED  BY <1>6, <2>1, <2>2, <2>3 DEF MapImage, ShTypeOK, processVars, Outcomes
<1>7. CASE MakeFileSystem \/ ClearMountPoint
  <2>1. pc' \in ShSteps /\ outcome' \in Outcomes
    BY <1>7, GoOnType, ExitType DEF MakeFileSystem, ClearMountPoint, Outcomes
  <2>2. faults' \in 0..MaxFaults /\ struck' \subseteq FaultKinds
    BY <1>7, StrikeType, UnhurtType DEF MakeFileSystem, ClearMountPoint
  <2>3. disk' \in Disks /\ foreign' \in BOOLEAN
    BY <1>0, <1>7, FileType, ThroughLoopType DEF MakeFileSystem, ClearMountPoint
  <2> QED
    BY <1>7, <2>1, <2>2, <2>3 DEF MakeFileSystem, ClearMountPoint, ShTypeOK, processVars, Outcomes
<1>8. CASE MountImage
  <2>1. pc' \in ShSteps /\ outcome' \in Outcomes
    BY <1>8, GoOnType, ExitType DEF MountImage, Outcomes
  <2>2. faults' \in 0..MaxFaults /\ struck' \subseteq FaultKinds
    BY <1>8, StrikeType, UnhurtType DEF MountImage
  <2>3. mount' \in {"nowhere", "mnt", "elsewhere"}
    BY <1>0, <1>8 DEF MountImage
  <2> QED  BY <1>8, <2>1, <2>2, <2>3 DEF MountImage, ShTypeOK, processVars, Outcomes
<1>9. CASE Populate
  <2>1. pc' \in ShSteps /\ outcome' \in Outcomes
    BY <1>9, GoOnType, ExitType DEF Populate, Outcomes
  <2>2. faults' \in 0..MaxFaults /\ struck' \subseteq FaultKinds
    BY <1>9, StrikeType, UnhurtType DEF Populate
  <2>3. File("partial") \in Files /\ [File("whole") EXCEPT !.kernel = disk.tree] \in Files
    BY <1>0, WholeType, FileType
  <2>4. disk' \in Disks /\ foreign' \in BOOLEAN
    BY <1>9, <2>3, ThroughLoopType DEF Populate
  <2> QED  BY <1>9, <2>1, <2>2, <2>4 DEF Populate, ShTypeOK, processVars, Outcomes
<1>10. CASE MakeYaffsImage
  <2>1. CASE Unnoticed("yaffs", "bct")
    BY <2>1, UnnoticedType
  <2>2. CASE ~Unnoticed("yaffs", "bct")
    <3>1. disk' \in Disks
      BY <1>0, <1>10, <2>2, WholeType, DiskEdited, NoFileType DEF MakeYaffsImage
    <3>2. pc' \in ShSteps /\ outcome' \in Outcomes
      BY <1>10, <2>2, GoOnType DEF MakeYaffsImage, Outcomes
    <3>3. faults' \in 0..MaxFaults /\ struck' \subseteq FaultKinds
      BY <1>10, <2>2, UnhurtType DEF MakeYaffsImage
    <3> QED
      BY <1>10, <2>2, <3>1, <3>2, <3>3 DEF MakeYaffsImage, ShTypeOK, processVars, loopVars, Outcomes
  <2> QED  BY <2>1, <2>2
<1> QED
  BY <1>1, <1>2, <1>3, <1>4, <1>5, <1>6, <1>7, <1>8, <1>9, <1>10 DEF Build

LEMMA ConfigType ==
  ASSUME ShTypeOK
  PROVE  ConvertedCfg \in Configs
<1>1. (~UBoot \/ opts.script) \in BOOLEAN /\ Internal \in BOOLEAN
  BY OptionsAssumption DEF ShTypeOK, UBoot, Internal
<1> QED  BY <1>1, OptionsAssumption DEF ConvertedCfg, Configs, ShTypeOK

LEMMA CopiedType ==
  ASSUME ShTypeOK, NEW path \in Paths
  PROVE  /\ CopyOf(path) \in Binaries
         /\ [disk EXCEPT !.folder[path.name] = CopyOf(path)] \in Disks
<1>1. path.name \in Names /\ path.dir \in {"board", "own", "here"}
  BY DEF Paths
<1>2. disk.folder \in [Names -> Binaries] /\ runs \in 0..MaxRuns
  BY DEF ShTypeOK, Disks
<1>3. CopyOf(path) \in Binaries
  BY <1>1, <1>2 DEF CopyOf, Binaries
<1>4. [disk.folder EXCEPT ![path.name] = CopyOf(path)] \in [Names -> Binaries]
  BY <1>2, <1>3
<1>5. [disk EXCEPT !.folder[path.name] = CopyOf(path)] \in Disks
  BY <1>4 DEF ShTypeOK, Disks
<1> QED  BY <1>3, <1>5

LEMMA CopyType == ASSUME ShTypeOK, Copy PROVE ShTypeOK'
<1>0. /\ runs \in 0..MaxRuns /\ 0 \in 0..MaxRuns /\ disk \in Disks
      /\ opts.bootloader \in Paths /\ opts.flasher \in Paths
  <2>1. opts \in Options /\ MaxRuns \in Nat /\ runs \in 0..MaxRuns /\ disk \in Disks
    BY OptionsAssumption DEF ShTypeOK
  <2>2. opts.bootloader \in Paths /\ opts.flasher \in Paths
    BY <2>1, OptionsAssumption
  <2> QED  BY <2>1, <2>2
<1> USE DEF ShSteps, BuildSteps, CopySteps
<1>1. CASE CopyBct
  <2>1. CASE KernelOnly
    <3>1. disk' \in Disks
      BY <1>0, <1>1, <2>1, DiskEdited, NoFileType DEF CopyBct
    <3>2. pc' \in ShSteps /\ outcome' \in Outcomes
      BY <1>1, <2>1, GoOnType DEF CopyBct, Outcomes
    <3>3. faults' \in 0..MaxFaults /\ struck' \subseteq FaultKinds
      BY <1>1, <2>1, UnhurtType DEF CopyBct
    <3> QED
      BY <1>1, <2>1, <3>1, <3>2, <3>3 DEF CopyBct, ShTypeOK, processVars, loopVars, Outcomes
  <2>2. CASE ~KernelOnly
    <3>1. [disk EXCEPT !.bct = runs] \in Disks
      BY <1>0, DiskEdited, NoFileType
    <3> QED  BY <1>1, <2>2, <3>1, ToolType DEF CopyBct
  <2> QED  BY <2>1, <2>2
<1>2. CASE CopyCfg
  <2>1. [disk EXCEPT !.cfg = ConvertedCfg] \in Disks
    BY <1>0, ConfigType, DiskEdited, NoFileType
  <2> QED  BY <1>2, <2>1, ToolType, UnnoticedType DEF CopyCfg
<1>3. CASE CopyLoader
  <2>1. [disk EXCEPT !.folder[opts.bootloader.name] = CopyOf(opts.bootloader)] \in Disks
    BY <1>0, CopiedType
  <2> QED  BY <1>3, <2>1, ToolType DEF CopyLoader
<1>4. CASE CopyFlasher
  <2> DEFINE copied == IF opts.flasher = opts.bootloader THEN disk
                       ELSE [disk EXCEPT !.folder[opts.flasher.name] = CopyOf(opts.flasher)]
  <2>1. copied \in Disks
    BY <1>0, CopiedType
  <2>2. Tool("flasher", copied, "flashapp")
    BY <1>4 DEF CopyFlasher
  <2> HIDE DEF copied
  <2> QED  BY <2>1, <2>2, ToolType
<1>5. CASE CopyFlashApp
  <2>1. AfterLoaders \in ShSteps
    BY DEF AfterLoaders
  <2> QED  BY <1>0, <1>5, <2>1, ToolType DEF CopyFlashApp
<1>6. CASE MakeScript
  <2>1. [disk EXCEPT !.bootimg = File("script")] \in Disks
    BY <1>0, FileType, DiskEdited, NoFileType
  <2> QED  BY <1>6, <2>1, ToolType, UnnoticedType DEF MakeScript
<1>7. CASE MakeInitrd
  <2>1. [disk EXCEPT !.initrd = File("whole")] \in Disks
    BY <1>0, FileType, DiskEdited, NoFileType
  <2> QED  BY <1>7, <2>1, ToolType DEF MakeInitrd
<1>8. CASE MakeBootImage
  <2>1. [disk EXCEPT !.bootimg = File("kernel")] \in Disks
    BY <1>0, FileType, DiskEdited, NoFileType
  <2> QED  BY <1>8, <2>1, ToolType DEF MakeBootImage
<1> QED
  BY <1>1, <1>2, <1>3, <1>4, <1>5, <1>6, <1>7, <1>8 DEF Copy

LEMMA DevicesType ==
  ASSUME ShTypeOK
  PROVE  /\ Downloaded \in Devices /\ Created \in Devices
         /\ [device EXCEPT !.mixed = TRUE] \in Devices
<1>1. disk.bootimg \in Files /\ disk.system \in Files /\ disk.bct \in 0..MaxRuns
      /\ disk.folder \in [Names -> Binaries]
  BY DEF ShTypeOK, Disks
<1>2. opts.bootloader.name \in Names
  BY OptionsAssumption DEF ShTypeOK, Paths
<1>3. Downloaded \in Devices
  BY <1>1 DEF Downloaded, ShTypeOK, Devices
<1>4. Created \in Devices
  BY <1>1, <1>2, NoFileType DEF Created, Devices
<1>5. [device EXCEPT !.mixed = TRUE] \in Devices
  BY DEF ShTypeOK, Devices
<1> QED  BY <1>3, <1>4, <1>5

LEMMA FlashType == ASSUME ShTypeOK, Flash PROVE ShTypeOK'
<1>1. pc' \in ShSteps /\ outcome' \in Outcomes
  BY ExitType DEF Flash, Outcomes
<1>2. faults' \in 0..MaxFaults /\ struck' \subseteq FaultKinds
  BY StrikeType, UnhurtType DEF Flash
<1>3. device' \in Devices
  BY DevicesType DEF Flash
<1> QED  BY <1>1, <1>2, <1>3 DEF Flash, ShTypeOK, processVars, loopVars, Outcomes

LEMMA KillType == ASSUME ShTypeOK, KillScript PROVE ShTypeOK'
<1>1. pc' \in ShSteps /\ outcome' \in Outcomes
  BY ExitType DEF KillScript, Outcomes
<1>2. faults' \in 0..MaxFaults /\ struck' \subseteq FaultKinds
  BY StrikeType DEF KillScript
<1>3. device' \in Devices
  BY DevicesType DEF KillScript, ShTypeOK
<1>4. disk' \in Disks /\ foreign' \in BOOLEAN
  <2>1. CASE pc \in {"mkfs", "tar"}
    <3>1. File("partial") \in Files
      BY FileType DEF ShTypeOK
    <3> QED  BY <2>1, <3>1, ThroughLoopType DEF KillScript
  <2>2. CASE pc \notin {"mkfs", "tar"}
    BY <2>2, BrokenType DEF KillScript, ShTypeOK
  <2> QED  BY <2>1, <2>2
<1> QED  BY <1>1, <1>2, <1>3, <1>4 DEF KillScript, ShTypeOK, processVars, Outcomes

LEMMA TakeLoopType == ASSUME ShTypeOK, TakeLoop PROVE ShTypeOK'
<1>1. faults' \in 0..MaxFaults /\ struck' \subseteq FaultKinds
  BY StrikeType DEF TakeLoop
<1>2. loop' \in {"free", "system", "deleted", "foreign"} /\ UNCHANGED foreign
  BY DEF TakeLoop
<1> QED  BY <1>1, <1>2 DEF TakeLoop, ShTypeOK, processVars

LEMMA ShTypeInit == ShInit => ShTypeOK
<1> SUFFICES ASSUME ShInit PROVE ShTypeOK
  OBVIOUS
<1>1. disk \in Disks
  BY OptionsAssumption, NoFileType DEF ShInit, Disks, Binaries
<1>2. device \in Devices
  BY OptionsAssumption, NoFileType DEF ShInit, Devices, Binaries, Names
<1>3. foreign \in BOOLEAN /\ struck \subseteq FaultKinds
  BY DEF ShInit
<1> QED  BY <1>1, <1>2, <1>3, OptionsAssumption DEF ShInit, ShTypeOK, ShSteps

LEMMA ShTypeNext == ShTypeOK /\ [ShNext]_shVars => ShTypeOK'
<1> SUFFICES ASSUME ShTypeOK, [ShNext]_shVars PROVE ShTypeOK'
  OBVIOUS
<1>1. CASE UNCHANGED shVars
  BY <1>1 DEF shVars, processVars, loopVars, ShTypeOK
<1>2. CASE ShNext
  BY <1>2, StartRunType, BuildType, CopyType, FlashType, KillType, TakeLoopType
  DEF ShNext, Script
<1> QED  BY <1>1, <1>2
-----------------------------------------------------------------------------
(* The loop device.  Between mapping the image and unmounting it the device *)
(* is the script's own: nobody can take a device that is mapped.            *)
OwnLoop == pc \in {"mkfs", "rmmnt", "mount", "tar"} => loop = "system"

FreeIsUnmounted == loop = "free" => mount = "nowhere"

LoopInv == foreign = TRUE /\ OwnLoop /\ FreeIsUnmounted

LEMMA LoopInit == ShInit => LoopInv
  BY DEF ShInit, LoopInv, OwnLoop, FreeIsUnmounted

(* Tools, copies and the flash leave the loop device alone.                 *)
LEMMA ToolLoop ==
  ASSUME NEW here, NEW result, NEW next, Tool(here, result, next) \/ Unnoticed(here, next)
  PROVE  UNCHANGED loopVars /\ pc' \in {next, "off"}
  BY DEF Tool, Unnoticed, GoOn, Exit

LEMMA CopyLoop ==
  ASSUME Copy \/ Flash
  PROVE  UNCHANGED loopVars /\ pc' \in CopySteps \cup {"flash", "off"}
<1>1. CASE CopyBct
  <2>1. CASE KernelOnly
    BY <1>1, <2>1 DEF CopyBct, GoOn, CopySteps
  <2>2. CASE ~KernelOnly
    BY <1>1, <2>2, ToolLoop DEF CopyBct, CopySteps
  <2> QED  BY <2>1, <2>2
<1>2. CASE CopyCfg \/ CopyLoader \/ CopyFlasher
  BY <1>2, ToolLoop DEF CopyCfg, CopyLoader, CopyFlasher, CopySteps
<1>3. CASE CopyFlashApp
  BY <1>3, ToolLoop DEF CopyFlashApp, AfterLoaders, CopySteps
<1>4. CASE MakeScript \/ MakeInitrd \/ MakeBootImage
  BY <1>4, ToolLoop DEF MakeScript, MakeInitrd, MakeBootImage, CopySteps
<1>5. CASE Flash
  BY <1>5 DEF Flash, Exit
<1> QED  BY <1>1, <1>2, <1>3, <1>4, <1>5 DEF Copy

LEMMA LoopQuiet ==
  ASSUME LoopInv, UNCHANGED loopVars, pc' \notin {"mkfs", "rmmnt", "mount", "tar"}
  PROVE  LoopInv'
  BY DEF LoopInv, OwnLoop, FreeIsUnmounted, loopVars

LEMMA LoopNext == ShTypeOK /\ LoopInv /\ [ShNext]_shVars => LoopInv'
<1> SUFFICES ASSUME ShTypeOK, LoopInv, [ShNext]_shVars PROVE LoopInv'
  OBVIOUS
<1>1. CASE UNCHANGED shVars
  BY <1>1 DEF shVars, LoopInv, OwnLoop, FreeIsUnmounted, loopVars
<1>2. CASE StartRun
  <2>1. UNCHANGED loopVars /\ pc' \in {"off", "bct", "yaffs", "kernel", "unmount"}
    BY <1>2 DEF StartRun, FirstStep
  <2> QED  BY <2>1, LoopQuiet
<1>3. CASE Copy \/ Flash
  BY <1>3, CopyLoop, LoopQuiet DEF CopySteps
<1>4. CASE MakeTreeKernel \/ MakeImage \/ MakeYaffsImage
  <2>1. UNCHANGED loopVars /\ pc' \notin {"mkfs", "rmmnt", "mount", "tar"}
    BY <1>4, ToolLoop DEF MakeTreeKernel, MakeImage, MakeYaffsImage, GoOn
  <2> QED  BY <2>1, LoopQuiet
<1>5. CASE Unmount
  BY <1>5 DEF Unmount, GoOn, LoopInv, OwnLoop, FreeIsUnmounted
<1>6. CASE Detach
  BY <1>6 DEF Detach, GoOn, LoopInv, OwnLoop, FreeIsUnmounted
<1>7. CASE ClearImage
  BY <1>7 DEF ClearImage, GoOn, Exit, LoopInv, OwnLoop, FreeIsUnmounted
<1>8. CASE MapImage
  BY <1>8 DEF MapImage, GoOn, Exit, LoopInv, OwnLoop, FreeIsUnmounted
<1>9. CASE MakeFileSystem
  BY <1>9 DEF MakeFileSystem, ThroughLoop, GoOn, Exit, LoopInv, OwnLoop, FreeIsUnmounted
<1>10. CASE ClearMountPoint
  BY <1>10 DEF ClearMountPoint, ThroughLoop, GoOn, Exit, LoopInv, OwnLoop, FreeIsUnmounted
<1>11. CASE MountImage
  BY <1>11 DEF MountImage, GoOn, Exit, LoopInv, OwnLoop, FreeIsUnmounted
<1>12. CASE Populate
  BY <1>12 DEF Populate, ThroughLoop, GoOn, Exit, LoopInv, OwnLoop, FreeIsUnmounted
<1>13. CASE KillScript
  BY <1>13 DEF KillScript, ThroughLoop, Exit, LoopInv, OwnLoop, FreeIsUnmounted
<1>14. CASE TakeLoop
  BY <1>14 DEF TakeLoop, LoopInv, OwnLoop, FreeIsUnmounted
<1> QED
  BY <1>1, <1>2, <1>3, <1>4, <1>5, <1>6, <1>7, <1>8, <1>9, <1>10, <1>11, <1>12, <1>13, <1>14
  DEF ShNext, Script, Build
-----------------------------------------------------------------------------
(* What earlier runs left.  As long as nothing strikes, the two commands    *)
(* whose results are ignored clear the way for those that follow.           *)
WayClear ==
  struck = {} =>
    /\ pc = "detach" => mount = "nowhere"
    /\ pc \in {"clear", "dd", "map"} => loop = "free"
    /\ pc \in {"mkfs", "rmmnt"} => mount = "nowhere"
    /\ outcome # "error"

LEMMA WayInit == ShInit => WayClear
  BY DEF ShInit, WayClear

LEMMA StruckHurts == ASSUME NEW kind, Strike(kind) PROVE struck' # {}
  BY DEF Strike

LEMMA ToolWay ==
  ASSUME WayClear, NEW here, NEW result, NEW next,
         Tool(here, result, next) \/ Unnoticed(here, next),
         next \notin {"detach", "clear", "dd", "mkfs", "rmmnt"},
         next = "map" => here = "dd"
  PROVE  WayClear'
  BY StruckHurts DEF Tool, Unnoticed, GoOn, Exit, Unhurt, WayClear, loopVars

LEMMA WayNext == LoopInv /\ WayClear /\ [ShNext]_shVars => WayClear'
<1> SUFFICES ASSUME LoopInv, WayClear, [ShNext]_shVars PROVE WayClear'
  OBVIOUS
<1>1. CASE UNCHANGED shVars
  BY <1>1 DEF shVars, WayClear, loopVars
<1>2. CASE StartRun
  <2>1. pc' \in {"off", "bct", "yaffs", "kernel", "unmount"} /\ outcome' # "error"
    BY <1>2 DEF StartRun, FirstStep
  <2> QED  BY <2>1 DEF WayClear
<1>3. CASE Copy
  <2>1. CASE CopyBct
    BY <2>1, ToolWay DEF CopyBct, GoOn, Unhurt, WayClear, loopVars
  <2>2. CASE CopyCfg \/ CopyLoader \/ CopyFlasher
    BY <2>2, ToolWay DEF CopyCfg, CopyLoader, CopyFlasher
  <2>3. CASE CopyFlashApp
    BY <2>3, ToolWay DEF CopyFlashApp, AfterLoaders
  <2>4. CASE MakeScript \/ MakeInitrd \/ MakeBootImage
    BY <2>4, ToolWay DEF MakeScript, MakeInitrd, MakeBootImage
  <2> QED  BY <1>3, <2>1, <2>2, <2>3, <2>4 DEF Copy
<1>4. CASE Flash
  BY <1>4, StruckHurts DEF Flash, Exit, Unhurt, WayClear
<1>5. CASE MakeTreeKernel \/ MakeImage
  BY <1>5, ToolWay DEF MakeTreeKernel, MakeImage
<1>6. CASE MakeYaffsImage
  BY <1>6, ToolWay DEF MakeYaffsImage, GoOn, Unhurt, WayClear
<1>7. CASE Unmount
  BY <1>7, StruckHurts DEF Unmount, GoOn, Unhurt, WayClear
<1>8. CASE Detach
  BY <1>8, StruckHurts DEF Detach, GoOn, Unhurt, WayClear
<1>9. CASE ClearImage
  BY <1>9, StruckHurts DEF ClearImage, GoOn, Exit, Unhurt, WayClear
<1>10. CASE MapImage
  BY <1>10, StruckHurts DEF MapImage, GoOn, Exit, Unhurt, WayClear, LoopInv, FreeIsUnmounted
<1>11. CASE MakeFileSystem
  BY <1>11, StruckHurts DEF MakeFileSystem, GoOn, Exit, Unhurt, WayClear
<1>12. CASE ClearMountPoint
  BY <1>12, StruckHurts DEF ClearMountPoint, GoOn, Exit, Unhurt, WayClear
<1>13. CASE MountImage
  BY <1>13, StruckHurts DEF MountImage, GoOn, Exit, Unhurt, WayClear
<1>14. CASE Populate
  BY <1>14, StruckHurts DEF Populate, GoOn, Exit, Unhurt, WayClear
<1>15. CASE KillScript \/ TakeLoop
  BY <1>15, StruckHurts DEF KillScript, TakeLoop, WayClear
<1> QED
  BY <1>1, <1>2, <1>3, <1>4, <1>5, <1>6, <1>7, <1>8, <1>9, <1>10, <1>11, <1>12, <1>13, <1>14, <1>15
  DEF ShNext, Script, Build
-----------------------------------------------------------------------------
(* What a run has made so far, unless it missed a failing tool.             *)
ToBuild == Internal /\ ~KernelOnly /\ ~opts.reuse

SystemBuilt == ByThisRun(disk.system, "whole") /\ (UBoot => disk.system.kernel = runs)

AfterBuild == {"unmount again", "detach again", "flash"} \cup CopySteps
AfterCfg   == {"loader", "flasher", "flashapp", "script", "initrd", "bootimg", "flash"}

(* Where the run is.                                                        *)
OnCourse ==
  /\ pc # "off" => outcome = "none"
  /\ pc \in BuildSteps => ToBuild
  /\ pc = "yaffs" => ~UBoot
  /\ pc = "script" => UBoot /\ opts.script
  /\ pc \in {"initrd", "bootimg"} => ~UBoot

MadeSystem ==
  /\ UBoot /\ pc \in BuildSteps \ {"kernel"} => disk.tree = runs
  /\ ToBuild /\ pc \in AfterBuild => SystemBuilt

MadeSettings ==
  /\ pc = "cfg" => disk.bct = runs
  /\ ~KernelOnly /\ pc \in AfterCfg => disk.bct = runs /\ disk.cfg = ConvertedCfg

MadeBoot ==
  pc = "flash" =>
    /\ UBoot /\ opts.script => ByThisRun(disk.bootimg, "script")
    /\ ~UBoot => ByThisRun(disk.bootimg, "kernel")

BuiltInv ==
  /\ OnCourse
  /\ "source" \notin struck => MadeSystem /\ MadeSettings /\ MadeBoot
  /\ FlashedIsBuilt

LEMMA BuiltInit == ShInit => BuiltInv
  BY DEF ShInit, BuiltInv, OnCourse, MadeSystem, MadeSettings, MadeBoot, FlashedIsBuilt,
         BuildSteps, AfterBuild, AfterCfg, CopySteps

(* A run that has come to its end has nothing left to be shown, unless it   *)
(* reports success.                                                         *)
LEMMA EndsBadly ==
  ASSUME pc' = "off", outcome' \in {"none", "refused", "error", "killed"}
  PROVE  BuiltInv'
  BY DEF BuiltInv, OnCourse, MadeSystem, MadeSettings, MadeBoot, FlashedIsBuilt,
         BuildSteps, AfterBuild, AfterCfg, CopySteps

LEMMA StartBuilt == ASSUME StartRun PROVE BuiltInv'
<1>1. CASE pc' = "off"
  BY <1>1, EndsBadly DEF StartRun
<1>2. CASE pc' # "off"
  <2> USE DEF BuildSteps, AfterBuild, AfterCfg, CopySteps
  <2>1. PICK o \in Options : /\ opts' = o /\ outcome' = "none"
                             /\ Acceptable(o) /\ pc' = FirstStep(o)
    BY <1>2 DEF StartRun
  <2>2. pc' \in {"bct", "yaffs", "kernel", "unmount"}
    BY <1>2, <2>1 DEF FirstStep
  <2>3. pc' \in {"yaffs", "kernel", "unmount"} =>
          o.rootdev = "internal" /\ ~(o.partid >= MIN_KERN_PARTID) /\ ~o.reuse
    BY <2>1, OptionsAssumption DEF FirstStep, MIN_KERN_PARTID
  <2>4. /\ pc' = "bct" => \/ o.rootdev # "internal" \/ o.partid >= MIN_KERN_PARTID \/ o.reuse
        /\ pc' = "unmount" => o.bootloader.name # "u-boot.bin"
        /\ pc' = "yaffs" => o.fs = "yaffs2"
    BY <2>1, OptionsAssumption DEF FirstStep, MIN_KERN_PARTID
  <2>5. OnCourse'
    BY <2>1, <2>2, <2>3, <2>4 DEF OnCourse, ToBuild, Internal, KernelOnly, UBoot, Acceptable
  <2>6. MadeSystem'
    BY <2>1, <2>2, <2>3, <2>4
    DEF MadeSystem, ToBuild, Internal, KernelOnly, UBoot, Acceptable
  <2>7. MadeSettings' /\ MadeBoot'
    BY <2>2 DEF MadeSettings, MadeBoot
  <2>8. FlashedIsBuilt'
    BY <2>1 DEF FlashedIsBuilt
  <2> QED  BY <2>5, <2>6, <2>7, <2>8 DEF BuiltInv
<1> QED  BY <1>1, <1>2

(* A step that stays within the run, does not report success and makes what *)
(* comes next.                                                              *)
LEMMA GoesOnBuilt ==
  ASSUME BuiltInv, UNCHANGED <<opts, runs>>, outcome' = "none",
         "source" \notin struck' => "source" \notin struck,
         OnCourse',
         "source" \notin struck' => MadeSystem' /\ MadeSettings' /\ MadeBoot'
  PROVE  BuiltInv'
  BY DEF BuiltInv, FlashedIsBuilt


LEMMA BuildBuilt == ASSUME ShTypeOK, LoopInv, BuiltInv, Build PROVE BuiltInv'
<1> USE DEF BuildSteps, AfterBuild, AfterCfg, CopySteps
<1>0. disk \in Disks /\ runs \in 0..MaxRuns
  BY DEF ShTypeOK
<1>1. CASE pc' = "off"
  <2>1. outcome' \in {"none", "refused", "error", "killed"}
    BY <1>1 DEF Build, MakeTreeKernel, Unmount, Detach, ClearImage, MakeImage, MapImage,
       MakeFileSystem, ClearMountPoint, MountImage, Populate, MakeYaffsImage, Tool, Unnoticed,
       GoOn, Exit
  <2> QED  BY <1>1, <2>1, EndsBadly
<1>2. CASE pc' # "off"
  <2>1. /\ pc \in BuildSteps /\ outcome' = outcome /\ outcome = "none"
        /\ UNCHANGED <<opts, runs>>
    BY <1>2 DEF Build, MakeTreeKernel, Unmount, Detach, ClearImage, MakeImage, MapImage,
       MakeFileSystem, ClearMountPoint, MountImage, Populate, MakeYaffsImage, Tool, Unnoticed,
       GoOn, Exit, processVars, BuiltInv, OnCourse
  <2>2. "source" \notin struck' => "source" \notin struck
    BY <1>2 DEF Build, MakeTreeKernel, Unmount, Detach, ClearImage, MakeImage, MapImage,
       MakeFileSystem, ClearMountPoint, MountImage, Populate, MakeYaffsImage, Tool, Unnoticed,
       Strike, Unhurt
  <2>3. ToBuild /\ ToBuild' = ToBuild /\ UBoot' = UBoot
    BY <2>1 DEF BuiltInv, OnCourse, ToBuild, Internal, KernelOnly, UBoot
  <2>4. pc' \in BuildSteps \cup {"bct"} /\ pc' # "yaffs" /\ pc' # "kernel"
    BY <1>2 DEF Build, MakeTreeKernel, Unmount, Detach, ClearImage, MakeImage, MapImage,
       MakeFileSystem, ClearMountPoint, MountImage, Populate, MakeYaffsImage, Tool, Unnoticed,
       GoOn, Exit
  <2>5. OnCourse'
    BY <2>1, <2>3, <2>4 DEF OnCourse
  <2>6. MadeSettings' /\ MadeBoot'
    BY <2>4 DEF MadeSettings, MadeBoot
  <2>7. ASSUME "source" \notin struck' PROVE MadeSystem'
    <3>0. MadeSystem
      BY <2>2, <2>7 DEF BuiltInv
    <3>1. CASE MakeTreeKernel
      <4>1. pc' = "unmount" /\ disk' = [disk EXCEPT !.tree = runs]
        BY <1>2, <3>1 DEF MakeTreeKernel, Tool, GoOn, Exit
      <4>2. disk'.tree = runs
        BY <1>0, <4>1 DEF Disks
      <4> QED  BY <2>1, <4>1, <4>2 DEF MadeSystem
    <3>2. CASE Unmount \/ Detach \/ MapImage \/ MountImage
      <4>1. /\ UNCHANGED disk
            /\ pc' \in {"unmount again", "detach again", "bct"}
                 => pc \in {"unmount again", "detach again"}
            /\ pc # "kernel"
        BY <1>2, <3>2 DEF Unmount, Detach, MapImage, MountImage, GoOn, Exit
      <4> QED
        BY <2>1, <2>3, <2>4, <3>0, <4>1 DEF MadeSystem, SystemBuilt, ByThisRun
    <3>3. CASE ClearImage \/ MakeImage \/ MakeFileSystem \/ ClearMountPoint
      <4>1. pc \notin {"kernel", "yaffs"} /\ pc' \in {"dd", "map", "rmmnt", "mount"}
        BY <1>2, <3>3 DEF ClearImage, MakeImage, MakeFileSystem, ClearMountPoint, Tool, GoOn, Exit
      <4>2. disk' = disk \/ \E f : disk' = [disk EXCEPT !.system = f]
        BY <1>2, <3>3 DEF ClearImage, MakeImage, MakeFileSystem, ClearMountPoint, Tool,
           ThroughLoop, Exit
      <4>3. disk'.tree = disk.tree
        BY <1>0, <4>2 DEF Disks
      <4> QED  BY <2>1, <2>3, <3>0, <4>1, <4>3 DEF MadeSystem
    <3>4. CASE Populate
      <4>1. pc = "tar" /\ pc' = "unmount again" /\ loop = "system"
        BY <1>2, <3>4 DEF Populate, GoOn, Exit, LoopInv, OwnLoop
      <4>2. disk' = [disk EXCEPT !.system = [File("whole") EXCEPT !.kernel = disk.tree]]
        BY <1>2, <2>7, <3>4, <4>1 DEF Populate, ThroughLoop, GoOn, Exit, Strike
      <4>3. disk'.system = [File("whole") EXCEPT !.kernel = disk.tree] /\ disk'.tree = disk.tree
        BY <1>0, <4>2 DEF Disks
      <4>4. UBoot => disk.tree = runs
        BY <2>1, <3>0, <4>1 DEF MadeSystem
      <4> QED
        BY <1>0, <2>1, <2>3, <4>1, <4>3, <4>4, WholeType DEF MadeSystem, SystemBuilt, ByThisRun
    <3>5. CASE MakeYaffsImage
      <4>1. pc = "yaffs" /\ pc' = "bct" /\ ~UBoot
        BY <3>5, <1>2 DEF MakeYaffsImage, Unnoticed, GoOn, BuiltInv, OnCourse
      <4>2. disk' = [disk EXCEPT !.system = [File("whole") EXCEPT !.kernel = disk.tree]]
        BY <2>7, <3>5 DEF MakeYaffsImage, Unnoticed, Strike
      <4>3. disk'.system = [File("whole") EXCEPT !.kernel = disk.tree]
        BY <1>0, <4>2 DEF Disks
      <4> QED
        BY <1>0, <2>1, <2>3, <4>1, <4>3, WholeType DEF MadeSystem, SystemBuilt, ByThisRun
    <3> QED  BY <3>1, <3>2, <3>3, <3>4, <3>5 DEF Build
  <2> QED
    BY <2>1, <2>2, <2>5, <2>6, <2>7, GoesOnBuilt
<1> QED  BY <1>1, <1>2

(* A tool that comes to its end, and goes on.                               *)
LEMMA ToolGoesOn ==
  ASSUME BuiltInv, NEW here, NEW result, NEW next,
         Tool(here, result, next), here # "off", pc' # "off"
  PROVE  /\ pc = here /\ pc' = next /\ disk' = result
         /\ outcome' = "none" /\ UNCHANGED <<opts, runs, struck>>
  BY DEF Tool, GoOn, Exit, Unhurt, processVars, BuiltInv, OnCourse

LEMMA CopyBuilt == ASSUME ShTypeOK, BuiltInv, Copy PROVE BuiltInv'
<1> USE DEF BuildSteps, AfterBuild, AfterCfg, CopySteps
<1>0. disk \in Disks /\ runs \in 0..MaxRuns
  BY DEF ShTypeOK
<1>1. CASE pc' = "off"
  <2>1. outcome' \in {"none", "refused", "error", "killed"}
    BY <1>1 DEF Copy, CopyBct, CopyCfg, CopyLoader, CopyFlasher, CopyFlashApp, MakeScript,
       MakeInitrd, MakeBootImage, Tool, Unnoticed, GoOn, Exit, BuiltInv, OnCourse
  <2> QED  BY <1>1, <2>1, EndsBadly
<1>2. CASE pc' # "off" /\ Strike("source")
  <2>0. ~Unhurt
    BY <1>2, OptionsAssumption DEF Strike, Unhurt, ShTypeOK
  <2>1. /\ pc' = "loader" \/ (pc' = "flash" /\ pc = "script")
        /\ outcome' = "none" /\ UNCHANGED <<opts, runs>>
    BY <1>2, <2>0 DEF Copy, CopyBct, CopyCfg, CopyLoader, CopyFlasher, CopyFlashApp, MakeScript,
       MakeInitrd, MakeBootImage, Tool, Unnoticed, GoOn, Exit, processVars, BuiltInv, OnCourse
  <2>2. "source" \in struck'
    BY <1>2 DEF Strike
  <2>3. OnCourse'
    BY <2>1 DEF OnCourse
  <2> QED  BY <2>1, <2>2, <2>3, GoesOnBuilt
<1>3. CASE pc' # "off" /\ ~Strike("source")
  <2> SUFFICES /\ outcome' = "none" /\ UNCHANGED <<opts, runs, struck>>
               /\ OnCourse'
               /\ "source" \notin struck => MadeSystem' /\ MadeSettings' /\ MadeBoot'
    BY GoesOnBuilt
  <2>1. CASE CopyBct /\ KernelOnly
    <3>1. pc = "bct" /\ pc' = "loader" /\ outcome' = "none" /\ UNCHANGED <<opts, runs, struck>>
      BY <2>1 DEF CopyBct, GoOn, Unhurt, processVars, BuiltInv, OnCourse
    <3>2. KernelOnly'
      BY <2>1, <3>1 DEF KernelOnly
    <3> QED
      BY <3>1, <3>2 DEF OnCourse, MadeSystem, ToBuild, MadeSettings, MadeBoot
  <2>2. CASE CopyBct /\ ~KernelOnly
    <3>1. Tool("bct", [disk EXCEPT !.bct = runs], "cfg")
      BY <2>2 DEF CopyBct
    <3>2. /\ pc = "bct" /\ pc' = "cfg" /\ disk' = [disk EXCEPT !.bct = runs]
          /\ outcome' = "none" /\ UNCHANGED <<opts, runs, struck>>
      BY <1>3, <3>1, ToolGoesOn
    <3>3. disk'.bct = runs /\ disk'.system = disk.system
      BY <1>0, <3>2 DEF Disks
    <3>4. ToBuild' = ToBuild /\ UBoot' = UBoot
      BY <3>2 DEF ToBuild, Internal, KernelOnly, UBoot
    <3> QED
      BY <3>2, <3>3, <3>4
      DEF BuiltInv, OnCourse, MadeSystem, SystemBuilt, ByThisRun, MadeSettings, MadeBoot
  <2>3. CASE CopyCfg
    <3>1. Tool("cfg", [disk EXCEPT !.cfg = ConvertedCfg], "loader")
      BY <1>3, <2>3 DEF CopyCfg, Unnoticed
    <3>2. /\ pc = "cfg" /\ pc' = "loader" /\ disk' = [disk EXCEPT !.cfg = ConvertedCfg]
          /\ outcome' = "none" /\ UNCHANGED <<opts, runs, struck>>
      BY <1>3, <3>1, ToolGoesOn
    <3>3. disk'.bct = disk.bct /\ disk'.system = disk.system /\ disk'.cfg = ConvertedCfg
      BY <1>0, <3>2 DEF Disks
    <3>4. ToBuild' = ToBuild /\ UBoot' = UBoot /\ ConvertedCfg' = ConvertedCfg
      BY <3>2 DEF ToBuild, Internal, KernelOnly, UBoot, ConvertedCfg
    <3> QED
      BY <3>2, <3>3, <3>4
      DEF BuiltInv, OnCourse, MadeSystem, SystemBuilt, ByThisRun, MadeSettings, MadeBoot
  <2>4. CASE CopyLoader \/ CopyFlasher \/ CopyFlashApp
    <3> DEFINE moved == \/ pc = "loader" /\ pc' = "flasher"
                        \/ pc = "flasher" /\ pc' = "flashapp"
                        \/ pc = "flashapp" /\ pc' = AfterLoaders
    <3>1. moved /\ outcome' = "none" /\ UNCHANGED <<opts, runs, struck>>
      BY <1>3, <2>4, ToolGoesOn DEF CopyLoader, CopyFlasher, CopyFlashApp
    <3>2. \/ disk' = disk
          \/ disk' = [disk EXCEPT !.folder[opts.bootloader.name] = CopyOf(opts.bootloader)]
          \/ disk' = [disk EXCEPT !.folder[opts.flasher.name] = CopyOf(opts.flasher)]
      BY <1>3, <2>4, ToolGoesOn DEF CopyLoader, CopyFlasher, CopyFlashApp
    <3>3. disk'.bct = disk.bct /\ disk'.system = disk.system /\ disk'.cfg = disk.cfg
      BY <1>0, <3>2 DEF Disks
    <3>4. /\ ToBuild' = ToBuild /\ UBoot' = UBoot /\ ConvertedCfg' = ConvertedCfg
          /\ KernelOnly' = KernelOnly
      BY <3>1 DEF ToBuild, Internal, KernelOnly, UBoot, ConvertedCfg
    <3>5. OnCourse'
      BY <3>1, <3>4 DEF OnCourse, AfterLoaders
    <3>6. MadeBoot'
      BY <3>1, <3>4 DEF MadeBoot, AfterLoaders
    <3>7. MadeSystem => MadeSystem'
      BY <3>1, <3>3, <3>4 DEF MadeSystem, SystemBuilt, ByThisRun, AfterLoaders
    <3>8. MadeSettings => MadeSettings'
      BY <3>1, <3>3, <3>4 DEF MadeSettings, AfterLoaders
    <3> QED  BY <3>1, <3>5, <3>6, <3>7, <3>8 DEF BuiltInv
  <2>5. CASE MakeScript \/ MakeInitrd \/ MakeBootImage
    <3> DEFINE made == \/ /\ pc = "script" /\ pc' = "flash"
                          /\ disk' = [disk EXCEPT !.bootimg = File("script")]
                       \/ /\ pc = "initrd" /\ pc' = "bootimg"
                          /\ disk' = [disk EXCEPT !.initrd = File("whole")]
                       \/ /\ pc = "bootimg" /\ pc' = "flash"
                          /\ disk' = [disk EXCEPT !.bootimg = File("kernel")]
    <3>1. made /\ outcome' = "none" /\ UNCHANGED <<opts, runs, struck>>
      BY <1>3, <2>5, ToolGoesOn DEF MakeScript, MakeInitrd, MakeBootImage, Unnoticed
    <3>2. disk'.bct = disk.bct /\ disk'.system = disk.system /\ disk'.cfg = disk.cfg
      BY <1>0, <3>1 DEF Disks
    <3>3. /\ ToBuild' = ToBuild /\ UBoot' = UBoot /\ ConvertedCfg' = ConvertedCfg
          /\ KernelOnly' = KernelOnly
      BY <3>1 DEF ToBuild, Internal, KernelOnly, UBoot, ConvertedCfg
    <3>4. OnCourse'
      BY <3>1, <3>3 DEF BuiltInv, OnCourse
    <3>5. MadeBoot'
      <4>1. /\ pc = "script" => disk'.bootimg = File("script") /\ UBoot
            /\ pc = "bootimg" => disk'.bootimg = File("kernel") /\ ~UBoot
        BY <1>0, <3>1 DEF Disks, BuiltInv, OnCourse
      <4> QED  BY <1>0, <3>1, <3>3, <4>1, FileType DEF MadeBoot, ByThisRun
    <3>6. MadeSystem => MadeSystem'
      BY <3>1, <3>2, <3>3 DEF MadeSystem, SystemBuilt, ByThisRun
    <3>7. MadeSettings => MadeSettings'
      BY <3>1, <3>2, <3>3 DEF MadeSettings
    <3> QED  BY <3>1, <3>4, <3>5, <3>6, <3>7 DEF BuiltInv
  <2> QED  BY <1>3, <2>1, <2>2, <2>3, <2>4, <2>5 DEF Copy
<1> QED  BY <1>1, <1>2, <1>3

LEMMA FlashBuilt == ASSUME ShTypeOK, BuiltInv, Flash PROVE BuiltInv'
<1>1. pc = "flash" /\ pc' = "off" /\ UNCHANGED <<opts, runs, disk>>
  BY DEF Flash, Exit, processVars
<1>2. CASE outcome' = "error"
  BY <1>1, <1>2, EndsBadly
<1>3. CASE outcome' # "error"
  <2>1. /\ UNCHANGED struck
        /\ IF KernelOnly THEN outcome' = "updated" /\ device' = Downloaded
           ELSE outcome' = "flashed" /\ device' = Created
    BY <1>3 DEF Flash, Exit, Unhurt
  <2>2. UBoot' = UBoot /\ Internal' = Internal /\ opts.script \in BOOLEAN
    BY <1>1, OptionsAssumption DEF ShTypeOK, UBoot, Internal
  <2>3. OnCourse'
    BY <1>1 DEF OnCourse, BuildSteps
  <2>4. MadeSystem' /\ MadeSettings' /\ MadeBoot'
    BY <1>1 DEF MadeSystem, MadeSettings, MadeBoot, BuildSteps, AfterBuild, AfterCfg, CopySteps
  <2>5. ASSUME "source" \notin struck, outcome' = "flashed" PROVE FullyFlashed'
    <3>1. ~KernelOnly /\ device' = Created
      BY <2>1, <2>5
    <3>2. disk.bct = runs /\ disk.cfg = ConvertedCfg
      BY <1>1, <2>5, <3>1 DEF BuiltInv, MadeSettings, AfterCfg
    <3>3. device'.bct = runs /\ ~device'.mixed
      BY <3>1, <3>2 DEF Created
    <3>a. (disk.cfg.boot <=> ~UBoot \/ opts.script) /\ (disk.cfg.system <=> Internal)
      <4>1. ConvertedCfg.boot = (~UBoot \/ opts.script)
        BY DEF ConvertedCfg
      <4>2. ConvertedCfg.system = Internal
        BY DEF ConvertedCfg
      <4> QED  BY <3>2, <4>1, <4>2, Zenon
    <3>4. /\ device'.lnx = IF ~UBoot \/ opts.script THEN disk.bootimg ELSE NoFile
          /\ device'.app = IF Internal THEN disk.system ELSE NoFile
      BY <3>1, <3>a DEF Created
    <3>5. Internal /\ ~opts.reuse => SystemBuilt
      BY <1>1, <2>5, <3>1 DEF BuiltInv, MadeSystem, ToBuild, AfterBuild
    <3>6. MadeBoot
      BY <2>5 DEF BuiltInv
    <3> QED
      BY <1>1, <2>2, <3>3, <3>4, <3>5, <3>6
      DEF FullyFlashed, SystemBuilt, ByThisRun, MadeBoot
  <2>6. ASSUME "source" \notin struck, outcome' = "updated"
        PROVE  UBoot' \/ ByThisRun(device.lnx, "kernel")'
    <3>1. device'.lnx = disk.bootimg
      BY <2>1, <2>6 DEF Downloaded, ShTypeOK, Devices
    <3> QED
      BY <1>1, <2>2, <2>6, <3>1 DEF BuiltInv, MadeBoot, ByThisRun
  <2>7. FlashedIsBuilt'
    BY <1>1, <2>1, <2>5, <2>6 DEF FlashedIsBuilt, ByThisRun
  <2> QED  BY <2>3, <2>4, <2>7 DEF BuiltInv
<1> QED  BY <1>2, <1>3

LEMMA BuiltNext == ShTypeOK /\ LoopInv /\ BuiltInv /\ [ShNext]_shVars => BuiltInv'
<1> SUFFICES ASSUME ShTypeOK, LoopInv, BuiltInv, [ShNext]_shVars PROVE BuiltInv'
  OBVIOUS
<1>1. CASE \/ UNCHANGED shVars
           \/ TakeLoop
  <2>1. UNCHANGED <<pc, outcome, opts, runs, disk, device>>
    BY <1>1 DEF shVars, processVars, TakeLoop
  <2>2. "source" \notin struck' => "source" \notin struck
    BY <1>1 DEF shVars, TakeLoop, Strike
  <2> QED
    BY <2>1, <2>2
    DEF BuiltInv, OnCourse, MadeSystem, MadeSettings, MadeBoot, FlashedIsBuilt, FullyFlashed,
        ByThisRun, SystemBuilt, ToBuild, UBoot, Internal, KernelOnly, ConvertedCfg
<1>2. CASE KillScript
  BY <1>2, EndsBadly DEF KillScript, Exit
<1> QED
  BY <1>1, <1>2, StartBuilt, BuildBuilt, CopyBuilt, FlashBuilt DEF ShNext, Script
-----------------------------------------------------------------------------
(* The board's own steps leave the script alone.                            *)
LEMMA BoardQuiet == BootScript \/ Boot => UNCHANGED shVars
  BY DEF BootScript, SetBootargs, LoadKernel, Bootm, Boot

(* Each step of the whole is a step of the script or none.                  *)
LEMMA StepOfScript == [Next]_vars => [ShNext]_shVars
<1> SUFFICES ASSUME [Next]_vars PROVE [ShNext]_shVars
  OBVIOUS
<1>1. CASE UNCHANGED vars
  BY <1>1 DEF vars
<1>2. CASE BootScript \/ Boot
  BY <1>2, BoardQuiet
<1>3. CASE Installer
  BY <1>3 DEF Installer, ShNext, Script
<1> QED  BY <1>1, <1>2, <1>3 DEF Next

(* The script with a board beside it is the script.                         *)
THEOREM ScriptImplemented == Spec => ShSpec
<1>1. Init => ShInit
  BY DEF Init
<1> QED  BY <1>1, StepOfScript, PTL DEF Spec, ShSpec

ScriptInv == ShTypeOK /\ LoopInv /\ WayClear /\ BuiltInv

LEMMA ScriptAlways == Spec => []ScriptInv
<1>1. ShInit => ScriptInv
  BY ShTypeInit, LoopInit, WayInit, BuiltInit DEF ScriptInv
<1>2. ScriptInv /\ [ShNext]_shVars => ScriptInv'
  BY ShTypeNext, LoopNext, WayNext, BuiltNext DEF ScriptInv
<1> QED  BY <1>1, <1>2, ScriptImplemented, PTL DEF ShSpec

(* flash.sh formats, fills and empties no file but its own through          *)
(* /dev/loop0, whoever maps what there and whatever fails: from the mapping *)
(* of the image, the only one of these commands that is checked, to the     *)
(* unmounting nobody else can take the device.                              *)
THEOREM ForeignSafe == Spec => []ForeignKept
<1>1. ScriptInv => ForeignKept
  BY DEF ScriptInv, LoopInv, ForeignKept
<1> QED  BY <1>1, ScriptAlways, PTL

(* A run of flash.sh fails only by what strikes it, never by the mounts,    *)
(* mappings and half-made files of the runs before.                         *)
THEOREM NothingInTheWay == Spec => []NoFailureByLeftovers
<1>1. ScriptInv => NoFailureByLeftovers
  BY DEF ScriptInv, WayClear, NoFailureByLeftovers
<1> QED  BY <1>1, ScriptAlways, PTL

(* When flash.sh reports success the board holds what this run made, but    *)
(* for a failure the script does not look for.                              *)
THEOREM FlashedFresh == Spec => []FlashedIsBuilt
<1>1. ScriptInv => FlashedIsBuilt
  BY DEF ScriptInv, BuiltInv
<1> QED  BY <1>1, ScriptAlways, PTL
-----------------------------------------------------------------------------
(* Types of the board.                                                      *)
BoardTypeOK ==
  /\ media \in Media
  /\ board \in {"recovery", "uboot", "linux", "prompt"}
  /\ step \in {"bootargs", "load", "bootm"}
  /\ bootdev \in Drives /\ root \in Drives
  /\ ram \in Images /\ kernel \in Images
  /\ boots \in 0..MaxBoots

LEMMA NoImageType == NoImage \in Images
  BY OptionsAssumption DEF NoImage, Images, Drives

(* What ext2load may find.                                                  *)
LEMMA FileOnType ==
  ASSUME ShTypeOK, BoardTypeOK, NEW drive \in Drives, NEW file \in FileOn(drive)
  PROVE  file.what \in {"nothing", "kernel", "damaged"} /\ file.made \in 0..MaxRuns
<1>1. 0 \in 0..MaxRuns
  BY OptionsAssumption
<1>2. CASE drive # "mmc0"
  <2>1. media[drive] \in {"nothing", "kernel", "damaged"}
    BY <1>2, BoardAssumption DEF BoardTypeOK, Drives
  <2> QED  BY <1>1, <1>2, <2>1 DEF FileOn
<1>3. CASE drive = "mmc0"
  <2>1. device.app.kernel \in 0..MaxRuns
    BY DEF ShTypeOK, Devices, Files
  <2> QED  BY <1>1, <1>3, <2>1 DEF FileOn
<1> QED  BY <1>2, <1>3

LEMMA BoardTypeInit == Init => BoardTypeOK
  BY NoImageType, BoardAssumption DEF Init, BoardTypeOK, Drives

LEMMA BoardTypeNext == ShTypeOK /\ BoardTypeOK /\ [Next]_vars => BoardTypeOK'
<1> SUFFICES ASSUME ShTypeOK, BoardTypeOK, [Next]_vars PROVE BoardTypeOK'
  OBVIOUS
<1>1. CASE UNCHANGED boardVars
  BY <1>1 DEF boardVars, BoardTypeOK
<1>2. CASE SetBootargs
  BY <1>2 DEF SetBootargs, BoardTypeOK
<1>3. CASE LoadKernel
  <2>1. bootdev \in Drives /\ ram \in Images
    BY DEF BoardTypeOK
  <2>2. PICK file \in FileOn(bootdev) :
          ram' = IF file.what = "nothing" THEN ram
                 ELSE [what |-> file.what, from |-> bootdev, made |-> file.made, fresh |-> TRUE]
    BY <1>3 DEF LoadKernel
  <2>3. file.what \in {"nothing", "kernel", "damaged"} /\ file.made \in 0..MaxRuns
    BY <2>1, FileOnType
  <2>4. ram' \in Images
    BY <2>1, <2>2, <2>3 DEF Images
  <2> QED  BY <1>3, <2>4 DEF LoadKernel, BoardTypeOK
<1>4. CASE Bootm
  BY <1>4 DEF Bootm, BoardTypeOK, Order, Drives
<1>5. CASE Boot
  <2>1. ram' \in Images
    <3>1. [ram EXCEPT !.fresh = FALSE] \in Images
      BY DEF BoardTypeOK, Images
    <3> QED  BY <1>5, <3>1, NoImageType DEF Boot
  <2>2. boots' \in 0..MaxBoots
    BY <1>5, BoardAssumption DEF Boot, BoardTypeOK
  <2> QED  BY <1>5, <2>1, <2>2, NoImageType DEF Boot, BoardTypeOK, Drives
<1>6. CASE Flash /\ InRecovery
  BY <1>6, NoImageType DEF InRecovery, BoardTypeOK, Drives
<1> QED
  BY <1>1, <1>2, <1>3, <1>4, <1>5, <1>6 DEF Next, Installer, BootScript, vars

(* No step of script or board leaves the declared ranges.                   *)
THEOREM InstallTyped == Spec => []TypeOK
<1>1. ScriptInv /\ BoardTypeOK => TypeOK
  BY DEF ScriptInv, BoardTypeOK, TypeOK
<1>2. ScriptInv => ShTypeOK
  BY DEF ScriptInv
<1>3. ScriptInv /\ BoardTypeOK /\ [Next]_vars => BoardTypeOK'
  BY <1>2, BoardTypeNext
<1> QED  BY <1>1, <1>3, ScriptAlways, BoardTypeInit, PTL DEF Spec
-----------------------------------------------------------------------------
(* A kernel at loadaddr that was loaded since the reset has only just been  *)
(* loaded, from the drive the root device was set for.                      *)
RootInv ==
  /\ RootMatchesKernel
  /\ board = "uboot" /\ step \in {"load", "bootm"} => root = bootdev
  /\ board = "uboot" /\ ram.what = "kernel" =>
       ~ram.fresh \/ (step = "bootm" /\ ram.from = bootdev)

LEMMA RootInit == Init => RootInv
  BY DEF Init, RootInv, RootMatchesKernel

LEMMA RootNext == BoardTypeOK /\ RootInv /\ [Next]_vars => RootInv'
<1> SUFFICES ASSUME BoardTypeOK, RootInv, [Next]_vars PROVE RootInv'
  OBVIOUS
<1>1. CASE UNCHANGED boardVars
  BY <1>1 DEF boardVars, RootInv, RootMatchesKernel
<1>2. CASE SetBootargs
  BY <1>2 DEF SetBootargs, RootInv, RootMatchesKernel
<1>3. CASE LoadKernel
  <2>1. PICK file : ram' = IF file.what = "nothing" THEN ram
                           ELSE [what |-> file.what, from |-> bootdev, made |-> file.made,
                                 fresh |-> TRUE]
    BY <1>3 DEF LoadKernel
  <2>2. CASE ram' = ram
    BY <1>3, <2>2 DEF LoadKernel, RootInv, RootMatchesKernel
  <2>3. CASE ram'.from = bootdev
    BY <1>3, <2>3 DEF LoadKernel, RootInv, RootMatchesKernel
  <2> QED  BY <2>1, <2>2, <2>3
<1>4. CASE Bootm
  BY <1>4 DEF Bootm, RootInv, RootMatchesKernel
<1>5. CASE Boot
  <2>1. board' = "uboot" /\ step' = "bootargs"
    BY <1>5 DEF Boot
  <2>2. ram'.what = "kernel" => ~ram'.fresh
    <3>1. CASE ram' = NoImage
      BY <3>1 DEF NoImage
    <3>2. CASE ram' = [ram EXCEPT !.fresh = FALSE]
      BY <3>2 DEF BoardTypeOK, Images
    <3> QED  BY <1>5, <3>1, <3>2 DEF Boot
  <2> QED  BY <2>1, <2>2 DEF RootInv, RootMatchesKernel
<1>6. CASE Flash /\ InRecovery
  BY <1>6 DEF InRecovery, RootInv, RootMatchesKernel
<1> QED
  BY <1>1, <1>2, <1>3, <1>4, <1>5, <1>6 DEF Next, Installer, BootScript, vars

(* A kernel loaded in this boot runs with the root file system of the drive *)
(* it came from, on any board, with any media.                              *)
THEOREM RootRight == Spec => []RootMatchesKernel
<1>1. RootInv => RootMatchesKernel
  BY DEF RootInv
<1>2. TypeOK => BoardTypeOK
  BY DEF TypeOK, BoardTypeOK
<1>3. TypeOK /\ RootInv /\ [Next]_vars => RootInv'
  BY <1>2, RootNext
<1> QED  BY <1>1, <1>3, InstallTyped, RootInit, PTL DEF Spec
=============================================================================
