-------------------------------- MODULE Volume --------------------------------
(***************************************************************************)
(* Opening one encrypted volume: internal/volume (volume.go, workspace.go, *)
(* worker.go) over internal/devicemapper.  The disk outlives the boot; the *)
(* mappings, mounts and the seal register do not.  Every step can fail,    *)
(* every undo of a failed call can fail, and the machine can go down       *)
(* between any two steps.                                                  *)
(*                                                                         *)
(* A volume is opened in one of three modes: by Mount during boot, by the  *)
(* volume worker that serves unlock requests, or by OpenWorkspace when a   *)
(* sandbox is enrolled.                                                    *)
(***************************************************************************)
EXTENDS Naturals, Sequences

CONSTANTS
  Keys,           \* volume keys callers may present
  NoKey,
  Modes,          \* the modes this instance looks at
  MaxBoots        \* bound: boots in one behaviour

ASSUME VolumeAssumption ==
  /\ NoKey \notin Keys
  /\ Modes \subseteq {"boot", "worker", "workspace"}
  /\ MaxBoots \in Nat

VARIABLES
  \* the image and its platform
  mode,
  register,   \* the platform has a seal register
  \* the disk
  disk,       \* zeros, an integrity superblock, a filesystem whose mkfs has reported
              \* success behind one, or other data: from the start of the disk
              \* ("foreign") or only behind its first MiB ("beyond")
  fsKey,      \* the key the filesystem was made under
  \* this boot
  boots,
  cache,      \* the start of the disk as the block cache holds it
  integ,      \* the dm-integrity mapping exists
  crypt,      \* the key of the dm-crypt mapping
  mounted,    \* the filesystem is mounted at the data path
  overlay,    \* the overlays are mounted
  exports,    \* bind exports in place (/workspace, then /nix)
  seals,      \* keys the register was extended with
  open,       \* a call returned success
  \* the call in progress
  pc, key, initialize, rollback,
  \* history
  called,     \* calls were made in this boot
  undoErr,    \* an undo step of this boot failed
  stranded    \* an initialization was cut off outside activateWith's rollback

imageVars == <<mode, register>>
diskVars == <<disk, fsKey>>
dmVars   == <<integ, crypt, mounted, overlay, exports>>
callVars == <<key, initialize, rollback>>
histVars == <<called, undoErr, stranded>>
vars == <<imageVars, diskVars, boots, cache, dmVars, seals, open, pc, callVars, histVars>>

\* A booted machine with nothing opened.  The disk is attached after the kernel
\* has enumerated an empty one in its place, and that is what the cache holds.
Fresh(n) ==
  /\ boots' = n /\ cache' = "blank"
  /\ integ' = FALSE /\ crypt' = NoKey /\ mounted' = FALSE /\ overlay' = FALSE
  /\ exports' = 0 /\ seals' = <<>> /\ open' = FALSE
  /\ pc' = "idle" /\ key' = NoKey /\ initialize' = FALSE /\ rollback' = FALSE
  /\ called' = FALSE /\ undoErr' = FALSE

Init ==
  /\ mode \in Modes /\ register \in BOOLEAN
  /\ \/ disk \in {"blank", "foreign", "beyond"} /\ fsKey = NoKey
     \/ disk = "fs" /\ fsKey \in Keys
  /\ boots = 1 /\ cache = "blank"
  /\ integ = FALSE /\ crypt = NoKey /\ mounted = FALSE /\ overlay = FALSE
  /\ exports = 0 /\ seals = <<>> /\ open = FALSE
  /\ pc = "idle" /\ key = NoKey /\ initialize = FALSE /\ rollback = FALSE
  /\ called = FALSE /\ undoErr = FALSE /\ stranded = FALSE

Goto(l) == pc' = l

-------------------------------------------------------------------------------
(* The callers, up to activateWith *)

\* A call with a key.  Boot mounts once; the worker serves unlock and initialize
\* requests until one succeeded; enrollment calls again until one succeeded, and
\* wants both exports unmounted.
Call(k) ==
  /\ pc = "idle" /\ ~open
  /\ mode = "boot" => ~called
  /\ key' = k /\ initialize' = FALSE /\ rollback' = FALSE /\ called' = TRUE
  /\ \/ mode = "worker" /\ Goto("integrity")
     \/ mode = "worker" /\ Goto("probe")
     \/ mode = "workspace" /\ exports = 0 /\ Goto("inspect")
     \/ mode = "boot" /\ Goto("inspect")
  /\ UNCHANGED <<imageVars, diskVars, boots, cache, dmVars, seals, open, undoErr,
                 stranded>>

\* inspect: a volume that is mounted from its mapping is already open, which
\* OpenWorkspace refuses.
InspectOpen ==
  /\ pc = "inspect" /\ crypt # NoKey /\ mounted
  /\ Goto("idle")
  /\ UNCHANGED <<imageVars, diskVars, boots, cache, dmVars, seals, open, callVars,
                 histVars>>

\* Otherwise mappings that a failed call left behind are removed, crypt first
\* because it holds the other open; a removal that fails ends the call.
InspectClean ==
  /\ pc = "inspect" /\ ~(crypt # NoKey /\ mounted)
  /\ \/ crypt' = NoKey /\ integ' = FALSE
        /\ Goto(IF mounted THEN "idle" ELSE "probe")   \* an unexpected mount
     \/ /\ crypt # NoKey \/ integ
        /\ crypt' \in {crypt, NoKey} /\ UNCHANGED integ /\ Goto("idle")
  /\ UNCHANGED <<imageVars, diskVars, boots, cache, mounted, overlay, exports, seals,
                 open, callVars, histVars>>

\* Mutant of ReadDisk: the cache is trusted.
ReadCache == UNCHANGED cache

\* What the first MiB shows, which is all that is ever read of a raw disk.
Start(d) == IF d = "beyond" THEN "blank" ELSE d

\* Both readers of the raw disk drop the cache before they read: BLKFLSBUF.
ReadDisk == cache' = Start(disk)

\* blockDeviceBlank.  The worker's initialize wants a blank disk, the other
\* callers format one if they find it; data behind the first MiB goes unseen.
Probe ==
  /\ pc = "probe" /\ ReadDisk
  /\ initialize' = (cache' = "blank")
  /\ Goto(IF mode = "worker" /\ ~initialize' THEN "idle" ELSE "integrity")
  /\ UNCHANGED <<imageVars, diskVars, boots, dmVars, seals, open, key, rollback,
                 histVars>>

-------------------------------------------------------------------------------
(* activateWith *)

\* IntegrityDataSectors looks for a superblock, which must be there exactly when
\* this call is not to write it.
Superblock(d) == d \in {"super", "fs"}

\* The kernel formats only a disk whose superblock area really is zero.
Formatted(d) == IF Start(d) = "blank" THEN "super" ELSE d

\* Mutant of Integrity: the superblock is never this call's to zero.
IntegrityKept ==
  /\ pc = "integrity" /\ ~integ /\ ReadDisk
  /\ Superblock(cache') = ~initialize
  /\ disk' = IF initialize THEN Formatted(disk) ELSE disk
  /\ integ' = TRUE /\ rollback' = FALSE /\ Goto("crypt")
  /\ UNCHANGED <<imageVars, fsKey, boots, crypt, mounted, overlay, exports, seals, open,
                 key, initialize, histVars>>

Integrity ==
  /\ pc = "integrity" /\ ~integ /\ ReadDisk
  /\ Superblock(cache') = ~initialize
  /\ disk' = IF initialize THEN Formatted(disk) ELSE disk
  /\ integ' = TRUE /\ rollback' = initialize /\ Goto("crypt")
  /\ UNCHANGED <<imageVars, fsKey, boots, crypt, mounted, overlay, exports, seals, open,
                 key, initialize, histVars>>

\* ActivateIntegrity fails: a mapping is in the way, the superblock is not as
\* expected, or an ioctl fails -- perhaps after the superblock was written, which
\* the caller's rollback does not cover, and perhaps leaving its mapping behind.
IntegrityFail ==
  /\ pc = "integrity" /\ ReadDisk /\ Goto("idle")
  /\ \/ UNCHANGED <<disk, integ, stranded, undoErr>>
     \/ /\ ~integ /\ Superblock(cache') = ~initialize
        /\ disk' = IF initialize THEN Formatted(disk) ELSE disk
        /\ stranded' = (stranded \/ initialize)
        /\ integ' \in BOOLEAN /\ undoErr' = (undoErr \/ integ')
  /\ UNCHANGED <<imageVars, fsKey, boots, crypt, mounted, overlay, exports, seals, open,
                 callVars, called>>

\* A later step fails with nothing done: the deferred undos run from the one named.
FailTo(l) == Goto(l) /\ UNCHANGED <<diskVars, dmVars, seals, open, rollback, undoErr>>

\* ActivateWritableCrypt, which may fail to remove its incomplete mapping.
Crypt ==
  /\ pc = "crypt"
  /\ \/ /\ crypt = NoKey /\ crypt' = key
        /\ \/ Goto(IF initialize THEN "format" ELSE "mount") /\ UNCHANGED undoErr
           \/ Goto("undoInteg") /\ undoErr' = TRUE
        /\ UNCHANGED <<diskVars, integ, mounted, overlay, exports, seals, open,
                       rollback>>
     \/ FailTo("undoInteg")
  /\ UNCHANGED <<imageVars, boots, cache, key, initialize, called, stranded>>

\* Mutant of Format: rollback survives mkfs.
FormatRollback ==
  /\ pc = "format"
  /\ \/ /\ disk' = "fs" /\ fsKey' = key /\ Goto("mount")
        /\ UNCHANGED <<dmVars, seals, open, rollback, undoErr>>
     \/ FailTo("undoCrypt")
  /\ UNCHANGED <<imageVars, boots, cache, key, initialize, called, stranded>>

\* prepareFormat and mkfs; once mkfs is through, the superblock is no longer
\* this call's to zero.
Format ==
  /\ pc = "format"
  /\ \/ /\ disk' = "fs" /\ fsKey' = key /\ rollback' = FALSE /\ Goto("mount")
        /\ UNCHANGED <<dmVars, seals, open, undoErr>>
     \/ FailTo("undoCrypt")
  /\ UNCHANGED <<imageVars, boots, cache, key, initialize, called, stranded>>

\* Only the right key authenticates the filesystem.
MountFS ==
  /\ pc = "mount"
  /\ \/ /\ disk = "fs" /\ fsKey = crypt
        /\ mounted' = TRUE /\ Goto("overlay")
        /\ UNCHANGED <<diskVars, integ, crypt, overlay, exports, seals, open,
                       rollback, undoErr>>
     \/ FailTo("undoCrypt")
  /\ UNCHANGED <<imageVars, boots, cache, key, initialize, called, stranded>>

\* Mutant of Overlays: a failed overlay is not noticed.
OverlaysUnchecked ==
  /\ pc = "overlay"
  /\ overlay' \in BOOLEAN /\ Goto(IF mode = "workspace" THEN "export" ELSE "finish")
  /\ UNCHANGED <<imageVars, diskVars, boots, cache, integ, crypt, mounted, exports,
                 seals, open, callVars, histVars>>

\* The check of the mounted device, then mountOverlays; a layer that was merged
\* is unwound on failure as well.
Overlays ==
  /\ pc = "overlay"
  /\ \/ overlay' = TRUE /\ Goto(IF mode = "workspace" THEN "export" ELSE "finish")
     \/ overlay' \in BOOLEAN /\ Goto("undoOverlay")
  /\ UNCHANGED <<imageVars, diskVars, boots, cache, integ, crypt, mounted, exports,
                 seals, open, callVars, histVars>>

\* workspaceLayout, then the bind mounts at /workspace and /nix.
Export ==
  /\ pc = "export"
  /\ \/ /\ exports' = exports + 1
        /\ Goto(IF exports' = 2 THEN "finish" ELSE "export")
        /\ UNCHANGED <<diskVars, integ, crypt, mounted, overlay, seals, open, rollback,
                       undoErr>>
     \/ FailTo("undoExport")
  /\ UNCHANGED <<imageVars, boots, cache, key, initialize, called, stranded>>

\* finish with nothing to extend: a volume of the boot, or no register.
FinishUnsealed ==
  /\ pc = "finish" /\ (mode = "boot" \/ ~register)
  /\ open' = TRUE /\ Goto("idle")
  /\ UNCHANGED <<imageVars, diskVars, boots, cache, dmVars, seals, callVars, histVars>>

\* Mutant of FinishSeal: the extend is not the last step that can fail.
FinishSealEarly ==
  /\ pc = "finish" /\ mode # "boot" /\ register
  /\ seals' = Append(seals, key)
  /\ \/ open' = TRUE /\ Goto("idle")
     \/ open' = open /\ Goto("undoExport")
  /\ UNCHANGED <<diskVars, dmVars, rollback, undoErr>>
  /\ UNCHANGED <<imageVars, boots, cache, key, initialize, called, stranded>>

\* keySeal and extendSeal: opening or writing the register fails, or the write
\* extends it.  Closing a file of sysfs has no error to report.
FinishSeal ==
  /\ pc = "finish" /\ mode # "boot" /\ register
  /\ \/ FailTo("undoExport")
     \/ /\ seals' = Append(seals, key) /\ open' = TRUE /\ Goto("idle")
        /\ UNCHANGED <<diskVars, dmVars, rollback, undoErr>>
  /\ UNCHANGED <<imageVars, boots, cache, key, initialize, called, stranded>>

-------------------------------------------------------------------------------
(* The deferred undos, last registered first; each may fail and the rest go on *)

\* What is held open by something that was not undone cannot go; and an undo may
\* report an error although its thing is gone.
Undo(l, blocked, undone, kept, next) ==
  /\ pc = l
  /\ \/ ~blocked /\ undone /\ undoErr' \in {undoErr, TRUE}
     \/ kept /\ undoErr' = TRUE
  /\ Goto(next)
  /\ UNCHANGED <<imageVars, boots, seals, open, callVars, called, stranded>>

\* exportAndSeal detaches the exports: each unmount on its own.
UndoExport ==
  /\ Undo("undoExport", FALSE, exports' = 0,
          exports > 0 /\ exports' \in 1..exports, "undoOverlay")
  /\ UNCHANGED <<diskVars, cache, integ, crypt, mounted, overlay>>

UndoOverlay ==
  /\ Undo("undoOverlay", FALSE, overlay' = FALSE, overlay /\ overlay' = overlay,
          "undoMount")
  /\ UNCHANGED <<diskVars, cache, integ, crypt, mounted, exports>>

UndoMount ==
  /\ Undo("undoMount", overlay, mounted' = FALSE, mounted' = mounted, "undoCrypt")
  /\ UNCHANGED <<diskVars, cache, integ, crypt, overlay, exports>>

UndoCrypt ==
  /\ Undo("undoCrypt", mounted \/ exports > 0, crypt' = NoKey, crypt' = crypt,
          "undoInteg")
  /\ UNCHANGED <<diskVars, cache, integ, mounted, overlay, exports>>

\* Mutant of UndoInteg: the integrity mapping is left behind.
UndoIntegSkipped ==
  /\ Undo("undoInteg", FALSE, integ' = integ, FALSE,
          IF rollback THEN "undoSuper" ELSE "idle")
  /\ UNCHANGED <<diskVars, cache, crypt, mounted, overlay, exports>>

UndoInteg ==
  /\ Undo("undoInteg", crypt # NoKey, integ' = FALSE, integ' = integ,
          IF rollback THEN "undoSuper" ELSE "idle")
  /\ UNCHANGED <<diskVars, cache, crypt, mounted, overlay, exports>>

\* restoreBlank writes through the cache.
UndoSuper ==
  /\ Undo("undoSuper", FALSE, disk' = "blank" /\ fsKey' = NoKey /\ cache' = "blank",
          UNCHANGED <<diskVars, cache>>, "idle")
  /\ UNCHANGED dmVars

-------------------------------------------------------------------------------
\* The machine goes down, in the middle of anything, and boots again.
Reboot ==
  /\ boots < MaxBoots
  /\ Fresh(boots + 1)
  /\ stranded' = (stranded \/ disk = "super")
  /\ UNCHANGED <<imageVars, diskVars>>

Next ==
  \/ \E k \in Keys : Call(k)
  \/ InspectOpen \/ InspectClean \/ Probe
  \/ Integrity \/ IntegrityFail \/ Crypt \/ Format \/ MountFS \/ Overlays
  \/ Export \/ FinishUnsealed \/ FinishSeal
  \/ UndoExport \/ UndoOverlay \/ UndoMount \/ UndoCrypt \/ UndoInteg \/ UndoSuper
  \/ Reboot

Spec == Init /\ [][Next]_vars

-------------------------------------------------------------------------------
(* Properties *)

\* "Any other disk must open with this key": neither a finished filesystem nor
\* foreign data that shows in the first MiB of the disk is ever wiped or formatted
\* over, by no order of failed calls, failed undos, retries with other keys and
\* reboots.  Data behind a zeroed first MiB has no such protection: the probe calls
\* that disk blank, and it is formatted.
DataNeverLost ==
  [][(disk \in {"fs", "foreign"}) => diskVars' = diskVars]_vars

\* "A failed disk unlock never reaches this extend" and "no fallible work follows
\* a successful seal": whatever was tried in this boot, a register that was
\* extended holds the key of this disk only, and the volume is open.
SealNamesDiskKey == seals # <<>> => open /\ seals = <<fsKey>>

\* A call that succeeded left every layer in place, under the right key, and
\* nothing that failed before it shows through.
OpenIsComplete ==
  open => /\ disk = "fs" /\ integ /\ crypt = fsKey /\ mounted /\ overlay
          /\ mode = "workspace" => exports = 2
          /\ mode # "boot" /\ register => seals = <<fsKey>>

\* A failed call whose undos all worked leaves no mapping and no mount, so the
\* next call starts from nothing.
FailureLeavesNothing ==
  pc = "idle" /\ ~open /\ ~undoErr =>
    ~integ /\ crypt = NoKey /\ ~mounted /\ ~overlay /\ exports = 0

\* A disk is left with a superblock and no filesystem, which no key opens again,
\* only by a machine that went down, an undo that failed, or ActivateIntegrity
\* failing after its own write; never by a failure activateWith could roll back.
HalfFormattedIsExcused ==
  pc = "idle" /\ disk = "super" => stranded \/ undoErr

\* The abstract workspace: a failed call, an undo or a crash is a stutter of it.
Abstract == INSTANCE Workspace WITH
  diskKey <- fsKey, opened <- IF open THEN fsKey ELSE NoKey

\* Opening a volume does what a caller may count on, in every mode: one key per
\* disk for good, opened by that key alone, sealed in the step that opens.
ImplementsWorkspace == Abstract!Spec
===============================================================================
