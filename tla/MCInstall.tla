----------------------------- MODULE MCInstall ------------------------------
(***************************************************************************)
(* Command lines of every kind the script tells apart, for TLC.            *)
(***************************************************************************)
EXTENDS Install

Path(d, n) == [dir |-> d, name |-> n]

Full(rootdev, fs, bootloader, flasher, script) ==
  [rootdev |-> rootdev, fs |-> fs, partid |-> 0, reuse |-> FALSE, aligned |-> TRUE,
   complete |-> TRUE, script |-> script, bootloader |-> bootloader, flasher |-> flasher]

Fastboot == Path("board", "fastboot.bin")
Uboot    == Path("own", "u-boot.bin")

Internals ==
  { Full("internal", "ext3", Uboot, Fastboot, TRUE),
    Full("internal", "ext3", Fastboot, Fastboot, TRUE) }

MCOptions ==
  Internals \cup
  { Full("external", "ext3", Uboot, Fastboot, s) : s \in BOOLEAN } \cup
  { Full("internal", "yaffs2", Fastboot, Path("here", "fastboot.bin"), TRUE) } \cup
  { [o EXCEPT !.reuse = TRUE] : o \in Internals } \cup
  { [o EXCEPT !.partid = 6] :
      o \in Internals \cup {Full("external", "ext3", Uboot, Fastboot, TRUE)} } \cup
  { [Full("internal", "ext3", Fastboot, Fastboot, TRUE) EXCEPT !.aligned = FALSE],
    [Full("internal", "ext3", Fastboot, Fastboot, TRUE) EXCEPT !.complete = FALSE],
    [Full("internal", "ext3", Fastboot, Fastboot, TRUE) EXCEPT !.partid = 3],
    Full("internal", "yaffs2", Uboot, Fastboot, TRUE) }

OwnLoader == {Full("internal", "ext3", Path("own", "fastboot.bin"), Fastboot, TRUE)}

(* No kernel but the internal one; and one that is found first.             *)
Cards == { [usb |-> "nothing", mmc1 |-> "damaged"], [usb |-> "damaged", mmc1 |-> "kernel"] }
=============================================================================
