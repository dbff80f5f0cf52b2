----------------------------- MODULE Volume_proofs -----------------------------
(***************************************************************************)
(* Proofs about Volume, for any number of keys and boots.  A failed call   *)
(* may leave layers behind when an undo fails, and the next call of the    *)
(* boot starts on top of them; the invariant says which layer can be there *)
(* without which, what each place of a call has built, and whose rollback  *)
(* may still zero the superblock.                                          *)
(***************************************************************************)
EXTENDS Volume, TLAPS

PCs ==
  {"idle", "inspect", "probe", "integrity", "crypt", "format", "mount", "overlay",
   "export", "finish", "undoExport", "undoOverlay", "undoMount", "undoCrypt",
   "undoInteg", "undoSuper"}

\* The places of a call that has built nothing yet.
Before == {"inspect", "probe", "integrity"}

TypeOK ==
  /\ mode \in {"boot", "worker", "workspace"} /\ register \in BOOLEAN
  /\ disk \in {"blank", "super", "fs", "foreign", "beyond"}
  /\ fsKey \in Keys \cup {NoKey} /\ crypt \in Keys \cup {NoKey} /\ key \in Keys \cup {NoKey}
  /\ integ \in BOOLEAN /\ mounted \in BOOLEAN /\ overlay \in BOOLEAN
  /\ exports \in 0..2 /\ open \in BOOLEAN
  /\ pc \in PCs /\ initialize \in BOOLEAN /\ rollback \in BOOLEAN
  /\ undoErr \in BOOLEAN /\ stranded \in BOOLEAN

\* A disk has a key exactly when a filesystem was finished on it.
DiskInv == disk = "fs" <=> fsKey # NoKey

\* A layer is there only with the one below it, and a mounted filesystem is the
\* disk's own: this holds of what failed undos leave behind as well.
LayerInv ==
  /\ overlay => mounted
  /\ mounted => disk = "fs" /\ crypt = fsKey
  /\ crypt # NoKey => integ
  /\ exports > 0 => mode = "workspace" /\ crypt # NoKey
  /\ pc \in {"inspect", "probe"} => exports = 0

\* What a call has built where it stands, under the key it was given.
StepInv ==
  /\ pc # "idle" => key \in Keys /\ ~open
  /\ pc \in {"format", "mount", "overlay", "export", "finish"} => crypt = key
  /\ pc \in {"crypt", "format", "mount", "overlay", "export", "finish"} => integ
  /\ pc = "crypt" => crypt = NoKey
  /\ pc \in {"format", "mount"} => ~mounted
  /\ pc \in {"crypt", "format", "mount", "overlay"} => ~overlay /\ exports = 0
  /\ pc \in {"overlay", "export", "finish"} => mounted
  /\ pc \in {"export", "finish"} => overlay
  /\ pc = "export" => mode = "workspace" /\ exports < 2
  /\ pc = "finish" /\ mode = "workspace" => exports = 2

\* A call zeroes no disk but one that holds its own superblock and no filesystem.
RollInv ==
  /\ pc = "integrity" /\ initialize => disk \in {"blank", "beyond"}
  /\ pc \in Before \cup {"mount", "overlay", "export", "finish", "undoExport",
                        "undoOverlay", "undoMount"} => ~rollback
  /\ pc = "crypt" => rollback = initialize
  /\ pc \in {"format", "undoSuper"} => rollback
  /\ pc # "idle" /\ rollback => disk = "super"

\* The register is extended by the step that opens, once in a boot.
OpenInv ==
  /\ ~open => seals = <<>>
  /\ open => mounted /\ overlay
  /\ open /\ mode = "workspace" => exports = 2
  /\ open => seals = IF mode # "boot" /\ register THEN <<fsKey>> ELSE <<>>

\* While no undo of this boot has failed, each undo finds the layers above it gone.
CleanInv ==
  ~undoErr =>
    /\ pc \in Before \cup {"undoSuper"} => ~integ
    /\ pc = "idle" /\ ~open => ~integ
    /\ pc = "undoInteg" => crypt = NoKey
    /\ pc = "undoCrypt" => ~mounted
    /\ pc = "undoMount" => ~overlay
    /\ pc \in {"undoOverlay", "undoMount", "undoCrypt", "undoInteg"} => exports = 0

\* An unexcused superblock with no filesystem belongs to a call that will zero it.
HalfInv ==
  disk = "super" /\ ~stranded /\ ~undoErr => pc # "idle" /\ rollback
IInv ==
  /\ TypeOK /\ DiskInv /\ LayerInv /\ StepInv
  /\ RollInv /\ OpenInv /\ CleanInv /\ HalfInv

-------------------------------------------------------------------------------
(* One lemma per action *)

USE VolumeAssumption
  DEF IInv, TypeOK, DiskInv, LayerInv, StepInv, RollInv, OpenInv, CleanInv, HalfInv,
      PCs, Before, Goto, imageVars, diskVars, dmVars, callVars, histVars

\* A machine that booted with nothing opened, on any disk.
LEMMA InitEstablishes == Init => IInv
<1> SUFFICES ASSUME Init PROVE IInv  OBVIOUS
<1> USE DEF Init
<1>1. TypeOK
  <2>1. fsKey \in Keys \cup {NoKey} /\ mode \in {"boot", "worker", "workspace"}
    OBVIOUS
  <2>2. 0 \in 0..2 /\ "idle" \in PCs  OBVIOUS
  <2>3. disk \in {"blank", "super", "fs", "foreign", "beyond"}  OBVIOUS
  <2> QED BY <2>1, <2>2, <2>3, Zenon
<1>2. DiskInv /\ LayerInv /\ StepInv  OBVIOUS
<1>3. RollInv /\ OpenInv /\ CleanInv /\ HalfInv  OBVIOUS
<1> QED BY <1>1, <1>2, <1>3

\* A call with a key begins: what failed calls before it left is as it was.
LEMMA CallKeeps ==
  ASSUME IInv, NEW k \in Keys, Call(k)
  PROVE  IInv'
<1> USE DEF Call
<1>1. TypeOK'  OBVIOUS
<1>2. DiskInv'  OBVIOUS
<1>3. LayerInv'  OBVIOUS
<1>4. StepInv'  OBVIOUS
<1>5. RollInv'  OBVIOUS
<1>6. OpenInv'  OBVIOUS
<1>7. CleanInv'  OBVIOUS
<1>8. HalfInv'  OBVIOUS
<1> QED BY <1>1, <1>2, <1>3, <1>4, <1>5, <1>6, <1>7, <1>8

\* inspect finds the volume mounted from its mapping and the call ends.
LEMMA InspectOpenKeeps ==
  ASSUME IInv, InspectOpen
  PROVE  IInv'
<1> USE DEF InspectOpen
<1>1. TypeOK'  OBVIOUS
<1>2. DiskInv'  OBVIOUS
<1>3. LayerInv'  OBVIOUS
<1>4. StepInv'  OBVIOUS
<1>5. RollInv'  OBVIOUS
<1>6. OpenInv'  OBVIOUS
<1>7. CleanInv'  OBVIOUS
<1>8. HalfInv'  OBVIOUS
<1> QED BY <1>1, <1>2, <1>3, <1>4, <1>5, <1>6, <1>7, <1>8

\* inspect removes the mappings a failed call left behind; a mount over a missing
\* mapping, which it guards against, cannot be there.
LEMMA InspectCleanKeeps ==
  ASSUME IInv, InspectClean
  PROVE  IInv'
<1> USE DEF InspectClean
<1>1. TypeOK'  OBVIOUS
<1>2. DiskInv'  OBVIOUS
<1>3. LayerInv'  OBVIOUS
<1>4. StepInv'  OBVIOUS
<1>5. RollInv'  OBVIOUS
<1>6. OpenInv'  OBVIOUS
<1>7. CleanInv'  OBVIOUS
<1>8. HalfInv'  OBVIOUS
<1> QED BY <1>1, <1>2, <1>3, <1>4, <1>5, <1>6, <1>7, <1>8

\* blockDeviceBlank reads the disk itself, so an initialization is for one whose
\* first MiB is blank.
LEMMA ProbeKeeps ==
  ASSUME IInv, Probe
  PROVE  IInv'
<1> USE DEF Probe, ReadDisk, Start
<1>1. TypeOK'  OBVIOUS
<1>2. DiskInv'  OBVIOUS
<1>3. LayerInv'  OBVIOUS
<1>4. StepInv'  OBVIOUS
<1>5. RollInv'  OBVIOUS
<1>6. OpenInv'  OBVIOUS
<1>7. CleanInv'  OBVIOUS
<1>8. HalfInv'  OBVIOUS
<1> QED BY <1>1, <1>2, <1>3, <1>4, <1>5, <1>6, <1>7, <1>8

\* ActivateIntegrity takes a disk with nothing on top of it, and from here on a
\* superblock it wrote is this call's to zero.
LEMMA IntegrityKeeps ==
  ASSUME IInv, Integrity
  PROVE  IInv'
<1> USE DEF Integrity, ReadDisk, Start, Superblock, Formatted
<1>1. TypeOK'  OBVIOUS
<1>2. DiskInv'  OBVIOUS
<1>3. LayerInv'  OBVIOUS
<1>4. StepInv'  OBVIOUS
<1>5. RollInv'  OBVIOUS
<1>6. OpenInv'  OBVIOUS
<1>7. CleanInv'  OBVIOUS
<1>8. HalfInv'  OBVIOUS
<1> QED BY <1>1, <1>2, <1>3, <1>4, <1>5, <1>6, <1>7, <1>8

\* ActivateIntegrity fails, at worst behind its own write, which is recorded.
LEMMA IntegrityFailKeeps ==
  ASSUME IInv, IntegrityFail
  PROVE  IInv'
<1> USE DEF IntegrityFail, ReadDisk, Start, Superblock, Formatted
<1>1. TypeOK'  OBVIOUS
<1>2. DiskInv'  OBVIOUS
<1>3. LayerInv'  OBVIOUS
<1>4. StepInv'  OBVIOUS
<1>5. RollInv'  OBVIOUS
<1>6. OpenInv'  OBVIOUS
<1>7. CleanInv'  OBVIOUS
<1>8. HalfInv'  OBVIOUS
<1> QED BY <1>1, <1>2, <1>3, <1>4, <1>5, <1>6, <1>7, <1>8

\* ActivateWritableCrypt maps under the caller's key, or its mapping stays behind.
LEMMA CryptKeeps ==
  ASSUME IInv, Crypt
  PROVE  IInv'
<1>1. /\ pc = "crypt"
      /\ UNCHANGED <<mode, register, boots, cache, key, initialize, called, stranded>>
  BY DEF Crypt
<1>2. CASE FailTo("undoInteg")
  <2> USE <1>1, <1>2 DEF FailTo
  <2>1. TypeOK'  OBVIOUS
  <2>2. DiskInv'  OBVIOUS
  <2>3. LayerInv'  OBVIOUS
  <2>4. StepInv'  OBVIOUS
  <2>5. RollInv'  OBVIOUS
  <2>6. OpenInv'  OBVIOUS
  <2>7. CleanInv'  OBVIOUS
  <2>8. HalfInv'  OBVIOUS
  <2> QED BY <2>1, <2>2, <2>3, <2>4, <2>5, <2>6, <2>7, <2>8
<1>3. CASE ~FailTo("undoInteg")
  <2>0. /\ crypt' = key
        /\ \/ pc' = (IF initialize THEN "format" ELSE "mount") /\ undoErr' = undoErr
           \/ pc' = "undoInteg" /\ undoErr' = TRUE
        /\ UNCHANGED <<disk, fsKey, integ, mounted, overlay, exports, seals, open, rollback>>
    BY <1>3 DEF Crypt
  <2> USE <1>1, <2>0
  <2>1. TypeOK'  OBVIOUS
  <2>2. DiskInv'  OBVIOUS
  <2>3. LayerInv'  OBVIOUS
  <2>4. StepInv'  OBVIOUS
  <2>5. RollInv'  OBVIOUS
  <2>6. OpenInv'  OBVIOUS
  <2>7. CleanInv'  OBVIOUS
  <2>8. HalfInv'  OBVIOUS
  <2> QED BY <2>1, <2>2, <2>3, <2>4, <2>5, <2>6, <2>7, <2>8
<1> QED BY <1>2, <1>3

\* mkfs runs only behind a superblock this call wrote, and ends its rollback.
LEMMA FormatKeeps ==
  ASSUME IInv, Format
  PROVE  IInv'
<1>1. /\ pc = "format"
      /\ UNCHANGED <<mode, register, boots, cache, key, initialize, called, stranded>>
  BY DEF Format
<1>2. CASE FailTo("undoCrypt")
  <2> USE <1>1, <1>2 DEF FailTo
  <2>1. TypeOK'  OBVIOUS
  <2>2. DiskInv'  OBVIOUS
  <2>3. LayerInv'  OBVIOUS
  <2>4. StepInv'  OBVIOUS
  <2>5. RollInv'  OBVIOUS
  <2>6. OpenInv'  OBVIOUS
  <2>7. CleanInv'  OBVIOUS
  <2>8. HalfInv'  OBVIOUS
  <2> QED BY <2>1, <2>2, <2>3, <2>4, <2>5, <2>6, <2>7, <2>8
<1>3. CASE ~FailTo("undoCrypt")
  <2>0. /\ disk' = "fs" /\ fsKey' = key /\ rollback' = FALSE /\ pc' = "mount"
        /\ UNCHANGED <<integ, crypt, mounted, overlay, exports, seals, open, undoErr>>
    BY <1>3 DEF Format
  <2> USE <1>1, <2>0
  <2>1. TypeOK'  OBVIOUS
  <2>2. DiskInv'  OBVIOUS
  <2>3. LayerInv'  OBVIOUS
  <2>4. StepInv'  OBVIOUS
  <2>5. RollInv'  OBVIOUS
  <2>6. OpenInv'  OBVIOUS
  <2>7. CleanInv'  OBVIOUS
  <2>8. HalfInv'  OBVIOUS
  <2> QED BY <2>1, <2>2, <2>3, <2>4, <2>5, <2>6, <2>7, <2>8
<1> QED BY <1>2, <1>3

\* The mount authenticates the filesystem: the mapping's key is the disk's.
LEMMA MountFSKeeps ==
  ASSUME IInv, MountFS
  PROVE  IInv'
<1>1. /\ pc = "mount"
      /\ UNCHANGED <<mode, register, boots, cache, key, initialize, called, stranded>>
  BY DEF MountFS
<1>2. CASE FailTo("undoCrypt")
  <2> USE <1>1, <1>2 DEF FailTo
  <2>1. TypeOK'  OBVIOUS
  <2>2. DiskInv'  OBVIOUS
  <2>3. LayerInv'  OBVIOUS
  <2>4. StepInv'  OBVIOUS
  <2>5. RollInv'  OBVIOUS
  <2>6. OpenInv'  OBVIOUS
  <2>7. CleanInv'  OBVIOUS
  <2>8. HalfInv'  OBVIOUS
  <2> QED BY <2>1, <2>2, <2>3, <2>4, <2>5, <2>6, <2>7, <2>8
<1>3. CASE ~FailTo("undoCrypt")
  <2>0. /\ disk = "fs" /\ fsKey = crypt /\ mounted' = TRUE /\ pc' = "overlay"
        /\ UNCHANGED <<disk, fsKey, integ, crypt, overlay, exports, seals, open, rollback, undoErr>>
    BY <1>3 DEF MountFS
  <2> USE <1>1, <2>0
  <2>1. TypeOK'  OBVIOUS
  <2>2. DiskInv'  OBVIOUS
  <2>3. LayerInv'  OBVIOUS
  <2>4. StepInv'  OBVIOUS
  <2>5. RollInv'  OBVIOUS
  <2>6. OpenInv'  OBVIOUS
  <2>7. CleanInv'  OBVIOUS
  <2>8. HalfInv'  OBVIOUS
  <2> QED BY <2>1, <2>2, <2>3, <2>4, <2>5, <2>6, <2>7, <2>8
<1> QED BY <1>2, <1>3

\* mountOverlays, on a mounted filesystem.
LEMMA OverlaysKeeps ==
  ASSUME IInv, Overlays
  PROVE  IInv'
<1> USE DEF Overlays
<1>1. TypeOK'  OBVIOUS
<1>2. DiskInv'  OBVIOUS
<1>3. LayerInv'  OBVIOUS
<1>4. StepInv'  OBVIOUS
<1>5. RollInv'  OBVIOUS
<1>6. OpenInv'  OBVIOUS
<1>7. CleanInv'  OBVIOUS
<1>8. HalfInv'  OBVIOUS
<1> QED BY <1>1, <1>2, <1>3, <1>4, <1>5, <1>6, <1>7, <1>8

\* The bind exports, on the overlays of a workspace.
LEMMA ExportKeeps ==
  ASSUME IInv, Export
  PROVE  IInv'
<1>1. /\ pc = "export"
      /\ UNCHANGED <<mode, register, boots, cache, key, initialize, called, stranded>>
  BY DEF Export
<1>2. CASE FailTo("undoExport")
  <2> USE <1>1, <1>2 DEF FailTo
  <2>1. TypeOK'  OBVIOUS
  <2>2. DiskInv'  OBVIOUS
  <2>3. LayerInv'  OBVIOUS
  <2>4. StepInv'  OBVIOUS
  <2>5. RollInv'  OBVIOUS
  <2>6. OpenInv'  OBVIOUS
  <2>7. CleanInv'  OBVIOUS
  <2>8. HalfInv'  OBVIOUS
  <2> QED BY <2>1, <2>2, <2>3, <2>4, <2>5, <2>6, <2>7, <2>8
<1>3. CASE ~FailTo("undoExport")
  <2>0. /\ exports' = exports + 1 /\ pc' = (IF exports' = 2 THEN "finish" ELSE "export")
        /\ UNCHANGED <<disk, fsKey, integ, crypt, mounted, overlay, seals, open, rollback, undoErr>>
    BY <1>3 DEF Export
  <2> USE <1>1, <2>0
  <2>1. TypeOK'  OBVIOUS
  <2>2. DiskInv'  OBVIOUS
  <2>3. LayerInv'  OBVIOUS
  <2>4. StepInv'  OBVIOUS
  <2>5. RollInv'  OBVIOUS
  <2>6. OpenInv'  OBVIOUS
  <2>7. CleanInv'  OBVIOUS
  <2>8. HalfInv'  OBVIOUS
  <2> QED BY <2>1, <2>2, <2>3, <2>4, <2>5, <2>6, <2>7, <2>8
<1> QED BY <1>2, <1>3

\* finish with nothing to extend: every layer is in place.
LEMMA FinishUnsealedKeeps ==
  ASSUME IInv, FinishUnsealed
  PROVE  IInv'
<1> USE DEF FinishUnsealed
<1>1. TypeOK'  OBVIOUS
<1>2. DiskInv'  OBVIOUS
<1>3. LayerInv'  OBVIOUS
<1>4. StepInv'  OBVIOUS
<1>5. RollInv'  OBVIOUS
<1>6. OpenInv'  OBVIOUS
<1>7. CleanInv'  OBVIOUS
<1>8. HalfInv'  OBVIOUS
<1> QED BY <1>1, <1>2, <1>3, <1>4, <1>5, <1>6, <1>7, <1>8

\* The extend is the last step, names the mounted key and finds the register empty.
LEMMA FinishSealKeeps ==
  ASSUME IInv, FinishSeal
  PROVE  IInv'
<1>1. /\ pc = "finish"
      /\ UNCHANGED <<mode, register, boots, cache, key, initialize, called, stranded>>
  BY DEF FinishSeal
<1>2. CASE FailTo("undoExport")
  <2> USE <1>1, <1>2 DEF FailTo
  <2>1. TypeOK'  OBVIOUS
  <2>2. DiskInv'  OBVIOUS
  <2>3. LayerInv'  OBVIOUS
  <2>4. StepInv'  OBVIOUS
  <2>5. RollInv'  OBVIOUS
  <2>6. OpenInv'  OBVIOUS
  <2>7. CleanInv'  OBVIOUS
  <2>8. HalfInv'  OBVIOUS
  <2> QED BY <2>1, <2>2, <2>3, <2>4, <2>5, <2>6, <2>7, <2>8
<1>3. CASE ~FailTo("undoExport")
  <2>0. /\ mode # "boot" /\ register /\ seals' = Append(seals, key) /\ open' = TRUE /\ pc' = "idle"
        /\ UNCHANGED <<disk, fsKey, integ, crypt, mounted, overlay, exports, rollback, undoErr>>
    BY <1>3 DEF FinishSeal
  <2> USE <1>1, <2>0
  <2>1. TypeOK'  OBVIOUS
  <2>2. DiskInv'  OBVIOUS
  <2>3. LayerInv'  OBVIOUS
  <2>4. StepInv'  OBVIOUS
  <2>5. RollInv'  OBVIOUS
  <2>6. OpenInv'  OBVIOUS
  <2>7. CleanInv'  OBVIOUS
  <2>8. HalfInv'  OBVIOUS
  <2> QED BY <2>1, <2>2, <2>3, <2>4, <2>5, <2>6, <2>7, <2>8
<1> QED BY <1>2, <1>3

\* Detaching the exports: what stays is an undo that failed.
LEMMA UndoExportKeeps ==
  ASSUME IInv, UndoExport
  PROVE  IInv'
<1> USE DEF UndoExport, Undo
<1>0. /\ exports' \in 0..exports
      /\ UNCHANGED <<disk, fsKey, crypt, integ, mounted, overlay>>
  <2>1. \/ exports' = 0
        \/ exports > 0 /\ exports' \in 1..exports
    BY DEF UndoExport, Undo
  <2>2. exports \in 0..2  OBVIOUS
  <2>3. exports' \in 0..exports  BY ONLY <2>1, <2>2
  <2> QED BY <2>3
<1>1. TypeOK'
  <2>1. exports' \in 0..2  BY <1>0
  <2> QED BY <1>0, <2>1
<1>2. DiskInv'  OBVIOUS
<1>3. LayerInv'
  <2>1. exports' > 0 => exports > 0 BY <1>0
  <2>2. pc' = "undoOverlay" /\ mode' = mode OBVIOUS
  <2> QED BY ONLY <1>0, <2>1, <2>2, LayerInv DEF LayerInv
<1>4. StepInv'  OBVIOUS
<1>5. RollInv'  OBVIOUS
<1>6. OpenInv'  OBVIOUS
<1>7. CleanInv'  OBVIOUS
<1>8. HalfInv'  OBVIOUS
<1> QED BY <1>1, <1>2, <1>3, <1>4, <1>5, <1>6, <1>7, <1>8

\* Unmounting the overlays.
LEMMA UndoOverlayKeeps ==
  ASSUME IInv, UndoOverlay
  PROVE  IInv'
<1> USE DEF UndoOverlay, Undo
<1>1. TypeOK'
  <2>1. UNCHANGED <<imageVars, diskVars, boots, cache, integ, crypt, mounted, exports, seals, open,
                    callVars, called, stranded>>
    OBVIOUS
  <2>2. overlay' \in BOOLEAN  OBVIOUS
  <2>3. undoErr' \in BOOLEAN /\ pc' = "undoMount"  OBVIOUS
  <2> QED BY ONLY <2>1, <2>2, <2>3, TypeOK
          DEF TypeOK, imageVars, diskVars, callVars
<1>2. DiskInv'  OBVIOUS
<1>3. LayerInv'  OBVIOUS
<1>4. StepInv'  OBVIOUS
<1>5. RollInv'  OBVIOUS
<1>6. OpenInv'  OBVIOUS
<1>7. CleanInv'  OBVIOUS
<1>8. HalfInv'  OBVIOUS
<1> QED BY <1>1, <1>2, <1>3, <1>4, <1>5, <1>6, <1>7, <1>8

\* Unmounting the filesystem, which overlays above it prevent.
LEMMA UndoMountKeeps ==
  ASSUME IInv, UndoMount
  PROVE  IInv'
<1> USE DEF UndoMount, Undo
<1>0. mounted' \in BOOLEAN  OBVIOUS
<1>1. TypeOK'
  <2>1. UNCHANGED <<imageVars, diskVars, boots, cache, integ, crypt, overlay, exports, seals, open,
                    callVars, called, stranded>>
    OBVIOUS
  <2>2. mounted' \in BOOLEAN  OBVIOUS
  <2>3. undoErr' \in BOOLEAN /\ pc' = "undoCrypt"  OBVIOUS
  <2> QED BY ONLY <2>1, <2>2, <2>3, TypeOK
          DEF TypeOK, imageVars, diskVars, callVars
<1>2. DiskInv'  OBVIOUS
<1>3. LayerInv'
  <2>0. UNCHANGED <<disk, fsKey, crypt, integ, overlay, exports, mode>> /\ pc' = "undoCrypt"
    OBVIOUS
  <2>1. mounted' => mounted OBVIOUS
  <2>2. overlay => mounted' OBVIOUS
  <2> QED BY ONLY <2>0, <2>1, <2>2, LayerInv DEF LayerInv
<1>4. StepInv'  OBVIOUS
<1>5. RollInv'  OBVIOUS
<1>6. OpenInv'  OBVIOUS
<1>7. CleanInv'  OBVIOUS
<1>8. HalfInv'  OBVIOUS
<1> QED BY <1>1, <1>2, <1>3, <1>4, <1>5, <1>6, <1>7, <1>8

\* Removing the crypt mapping, which a mount or an export above it prevents.
LEMMA UndoCryptKeeps ==
  ASSUME IInv, UndoCrypt
  PROVE  IInv'
<1> USE DEF UndoCrypt, Undo
<1>1. TypeOK'  OBVIOUS
<1>2. DiskInv'  OBVIOUS
<1>3. LayerInv'  OBVIOUS
<1>4. StepInv'  OBVIOUS
<1>5. RollInv'  OBVIOUS
<1>6. OpenInv'  OBVIOUS
<1>7. CleanInv'  OBVIOUS
<1>8. HalfInv'  OBVIOUS
<1> QED BY <1>1, <1>2, <1>3, <1>4, <1>5, <1>6, <1>7, <1>8

\* Removing the integrity mapping, which a crypt mapping above it prevents; only a
\* call that wrote the superblock goes on to zero it.
LEMMA UndoIntegKeeps ==
  ASSUME IInv, UndoInteg
  PROVE  IInv'
<1> USE DEF UndoInteg, Undo
<1>1. TypeOK'
  <2>1. UNCHANGED <<imageVars, diskVars, boots, cache, crypt, mounted, overlay, exports, seals, open,
                    callVars, called, stranded>>
    OBVIOUS
  <2>2. integ' \in BOOLEAN  OBVIOUS
  <2>3. undoErr' \in BOOLEAN /\ pc' \in {"undoSuper", "idle"}  OBVIOUS
  <2> QED BY ONLY <2>1, <2>2, <2>3, TypeOK
          DEF TypeOK, imageVars, diskVars, callVars
<1>2. DiskInv'  OBVIOUS
<1>3. LayerInv'  OBVIOUS
<1>4. StepInv'  OBVIOUS
<1>5. RollInv'  OBVIOUS
<1>6. OpenInv'  OBVIOUS
<1>7. CleanInv'  OBVIOUS
<1>8. HalfInv'  OBVIOUS
<1> QED BY <1>1, <1>2, <1>3, <1>4, <1>5, <1>6, <1>7, <1>8

\* restoreBlank zeroes a superblock with no filesystem behind it.
LEMMA UndoSuperKeeps ==
  ASSUME IInv, UndoSuper
  PROVE  IInv'
<1> USE DEF UndoSuper, Undo
<1>1. TypeOK'  OBVIOUS
<1>2. DiskInv'  OBVIOUS
<1>3. LayerInv'  OBVIOUS
<1>4. StepInv'  OBVIOUS
<1>5. RollInv'  OBVIOUS
<1>6. OpenInv'  OBVIOUS
<1>7. CleanInv'  OBVIOUS
<1>8. HalfInv'  OBVIOUS
<1> QED BY <1>1, <1>2, <1>3, <1>4, <1>5, <1>6, <1>7, <1>8

\* The machine goes down: the disk stays, and a half-made one is recorded.
LEMMA RebootKeeps ==
  ASSUME IInv, Reboot
  PROVE  IInv'
<1> USE DEF Reboot, Fresh
<1>0. stranded' \in BOOLEAN BY DEF Reboot
<1>1. TypeOK'
  <2>1. 0 \in 0..2 /\ "idle" \in PCs  OBVIOUS
  <2> QED BY <1>0, <2>1, Zenon
<1>2. DiskInv'  OBVIOUS
<1>3. LayerInv'  OBVIOUS
<1>4. StepInv'  OBVIOUS
<1>5. RollInv'  OBVIOUS
<1>6. OpenInv'  OBVIOUS
<1>7. CleanInv'  OBVIOUS
<1>8. HalfInv'  OBVIOUS
<1> QED BY <1>1, <1>2, <1>3, <1>4, <1>5, <1>6, <1>7, <1>8

\* A step that changes nothing.
LEMMA StutterKeeps ==
  ASSUME IInv, UNCHANGED vars
  PROVE  IInv'
<1> USE DEF vars
<1>1. TypeOK' /\ DiskInv' /\ LayerInv'  OBVIOUS
<1>2. StepInv' /\ RollInv'  OBVIOUS
<1>3. OpenInv' /\ CleanInv' /\ HalfInv'  OBVIOUS
<1> QED BY <1>1, <1>2, <1>3

-------------------------------------------------------------------------------
(* The invariants *)

\* The parts of the invariant give what each property says of a state.
LEMMA InvImplies ==
  IInv => SealNamesDiskKey /\ OpenIsComplete /\ FailureLeavesNothing
            /\ HalfFormattedIsExcused
<1> SUFFICES ASSUME IInv
             PROVE  SealNamesDiskKey /\ OpenIsComplete /\ FailureLeavesNothing
                      /\ HalfFormattedIsExcused
  OBVIOUS
<1>1. SealNamesDiskKey  BY DEF SealNamesDiskKey
<1>2. OpenIsComplete  BY DEF OpenIsComplete
<1>3. FailureLeavesNothing  BY DEF FailureLeavesNothing
<1>4. HalfFormattedIsExcused  BY DEF HalfFormattedIsExcused
<1> QED BY <1>1, <1>2, <1>3, <1>4

HIDE DEF IInv, TypeOK, DiskInv, LayerInv, StepInv, RollInv, OpenInv, CleanInv, HalfInv,
         Goto, imageVars, diskVars, dmVars, callVars, histVars

\* Every step of a call, every undo and every crash keeps the invariant.
LEMMA NextKeeps ==
  ASSUME IInv, [Next]_vars
  PROVE  IInv'
<1>1. CASE UNCHANGED vars  BY <1>1, StutterKeeps
<1>2. CASE \E k \in Keys : Call(k)  BY <1>2, CallKeeps
<1>3. CASE InspectOpen  BY <1>3, InspectOpenKeeps
<1>4. CASE InspectClean  BY <1>4, InspectCleanKeeps
<1>5. CASE Probe  BY <1>5, ProbeKeeps
<1>6. CASE Integrity  BY <1>6, IntegrityKeeps
<1>7. CASE IntegrityFail  BY <1>7, IntegrityFailKeeps
<1>8. CASE Crypt  BY <1>8, CryptKeeps
<1>9. CASE Format  BY <1>9, FormatKeeps
<1>10. CASE MountFS  BY <1>10, MountFSKeeps
<1>11. CASE Overlays  BY <1>11, OverlaysKeeps
<1>12. CASE Export  BY <1>12, ExportKeeps
<1>13. CASE FinishUnsealed  BY <1>13, FinishUnsealedKeeps
<1>14. CASE FinishSeal  BY <1>14, FinishSealKeeps
<1>15. CASE UndoExport  BY <1>15, UndoExportKeeps
<1>16. CASE UndoOverlay  BY <1>16, UndoOverlayKeeps
<1>17. CASE UndoMount  BY <1>17, UndoMountKeeps
<1>18. CASE UndoCrypt  BY <1>18, UndoCryptKeeps
<1>19. CASE UndoInteg  BY <1>19, UndoIntegKeeps
<1>20. CASE UndoSuper  BY <1>20, UndoSuperKeeps
<1>21. CASE Reboot  BY <1>21, RebootKeeps
<1> QED BY <1>1, <1>2, <1>3, <1>4, <1>5, <1>6, <1>7, <1>8, <1>9, <1>10, <1>11, <1>12,
           <1>13, <1>14, <1>15, <1>16, <1>17, <1>18, <1>19, <1>20, <1>21 DEF Next

\* The invariant holds of every behaviour of activateWith and its callers.
THEOREM VolumeInvariant == Spec => []IInv
BY InitEstablishes, NextKeeps, PTL DEF Spec

\* The register is extended by nothing but the call that opens the disk, with the
\* key its filesystem was made under, after any number of failed unlocks.
THEOREM SealsNameDiskKey == Spec => []SealNamesDiskKey
BY VolumeInvariant, InvImplies, PTL

\* A call that returned success stands on every layer, under the disk's key, and
\* sealed where there is a register, whatever earlier calls left behind.
THEOREM OpensAreComplete == Spec => []OpenIsComplete
BY VolumeInvariant, InvImplies, PTL

\* A failed call whose undos worked leaves no mapping, mount or export.
THEOREM FailuresLeaveNothing == Spec => []FailureLeavesNothing
BY VolumeInvariant, InvImplies, PTL

\* A disk that no key opens again is never the result of a failure that
\* activateWith's rollback covers.
THEOREM HalfFormattedExcused == Spec => []HalfFormattedIsExcused
BY VolumeInvariant, InvImplies, PTL

-------------------------------------------------------------------------------
(* The action property *)

\* Only ActivateIntegrity on a disk that starts blank, mkfs behind this call's superblock and
\* the rollback of that superblock write to the disk.
LEMMA DataKeptByStep ==
  ASSUME IInv, [Next]_vars, disk \in {"fs", "foreign"}
  PROVE  diskVars' = diskVars
<1> USE DEF diskVars
<1>1. CASE Integrity
  <2>1. initialize => disk \in {"blank", "beyond"}  BY <1>1 DEF IInv, RollInv, Integrity
  <2> QED BY <1>1, <2>1 DEF Integrity
<1>2. CASE IntegrityFail
  <2>1. initialize => disk \in {"blank", "beyond"}  BY <1>2 DEF IInv, RollInv, IntegrityFail
  <2> QED BY <1>2, <2>1 DEF IntegrityFail
<1>3. CASE Format
  <2>1. disk = "super"  BY <1>3 DEF IInv, RollInv, Format
  <2> QED BY <2>1
<1>4. CASE UndoSuper
  <2>1. disk = "super"  BY <1>4 DEF IInv, RollInv, UndoSuper, Undo
  <2> QED BY <2>1
<1>5. CASE \E k \in Keys : Call(k)  BY <1>5 DEF Call
<1>6. CASE InspectOpen \/ InspectClean \/ Probe
  BY <1>6 DEF InspectOpen, InspectClean, Probe
<1>7. CASE Crypt \/ MountFS \/ Export \/ FinishSeal
  BY <1>7 DEF Crypt, MountFS, Export, FinishSeal, FailTo
<1>8. CASE Overlays \/ FinishUnsealed  BY <1>8 DEF Overlays, FinishUnsealed
<1>9. CASE UndoExport \/ UndoOverlay \/ UndoMount \/ UndoCrypt \/ UndoInteg
  BY <1>9 DEF UndoExport, UndoOverlay, UndoMount, UndoCrypt, UndoInteg
<1>10. CASE Reboot  BY <1>10 DEF Reboot
<1>11. CASE UNCHANGED vars  BY <1>11 DEF vars
<1> QED BY <1>1, <1>2, <1>3, <1>4, <1>5, <1>6, <1>7, <1>8, <1>9, <1>10, <1>11 DEF Next

\* No order of failed calls, failed undos, retries and reboots wipes or formats
\* over a finished filesystem, or foreign data that the probe of the first MiB sees.
THEOREM DataIsNeverLost == Spec => DataNeverLost
<1>1. IInv /\ [Next]_vars
        => [(disk \in {"fs", "foreign"}) => diskVars' = diskVars]_vars
  BY DataKeptByStep
<1> QED BY <1>1, VolumeInvariant, PTL DEF Spec, DataNeverLost

-------------------------------------------------------------------------------
(* The refinement *)

\* A booted machine is a closed workspace.
LEMMA InitRefines == Init => Abstract!Init
BY VolumeAssumption DEF Init, Abstract!Init

\* mkfs is the abstract Initialize: the disk had no key.
LEMMA FormatRefines ==
  ASSUME IInv, Format
  PROVE  [Abstract!Next]_(Abstract!wvars)
<1>1. key \in Keys /\ ~open /\ fsKey = NoKey
  BY DEF IInv, StepInv, RollInv, DiskInv, Format
<1>2. CASE FailTo("undoCrypt")
  BY <1>2 DEF FailTo, diskVars, Abstract!wvars
<1>3. CASE ~FailTo("undoCrypt")
  <2>1. fsKey' = key /\ UNCHANGED <<open, seals>>  BY <1>3 DEF Format
  <2>2. Abstract!Initialize(key)  BY <1>1, <2>1 DEF Abstract!Initialize
  <2> QED BY <1>1, <2>2 DEF Abstract!Next
<1> QED BY <1>2, <1>3

\* The step that returns success is the abstract Open, by the disk's key, and
\* extends the register in the same step or not at all.
LEMMA FinishRefines ==
  ASSUME IInv, FinishUnsealed \/ FinishSeal
  PROVE  [Abstract!Next]_(Abstract!wvars)
<1>1. fsKey \in Keys /\ key = fsKey /\ ~open
  BY DEF IInv, StepInv, LayerInv, FinishUnsealed, FinishSeal
<1>2. CASE FinishUnsealed
  <2>1. open' = TRUE /\ UNCHANGED <<fsKey, seals>>  BY <1>2 DEF FinishUnsealed, diskVars
  <2>2. Abstract!Open(fsKey)  BY <1>1, <2>1 DEF Abstract!Open
  <2> QED BY <1>1, <2>2 DEF Abstract!Next
<1>3. CASE FinishSeal /\ FailTo("undoExport")
  BY <1>3 DEF FailTo, diskVars, Abstract!wvars
<1>4. CASE FinishSeal /\ ~FailTo("undoExport")
  <2>1. open' = TRUE /\ seals' = Append(seals, key) /\ UNCHANGED fsKey
    BY <1>4 DEF FinishSeal, diskVars
  <2>2. Abstract!Open(fsKey)  BY <1>1, <2>1 DEF Abstract!Open
  <2> QED BY <1>1, <2>2 DEF Abstract!Next
<1> QED BY <1>2, <1>3, <1>4

\* A crash is the abstract Down.
LEMMA RebootRefines ==
  ASSUME Reboot
  PROVE  [Abstract!Next]_(Abstract!wvars)
<1>1. open' = FALSE /\ seals' = <<>> /\ UNCHANGED fsKey  BY DEF Reboot, Fresh, diskVars
<1> QED BY <1>1 DEF Abstract!Next, Abstract!Down

\* Zeroing the superblock is a stutter: the disk had no key.
LEMMA UndoSuperRefines ==
  ASSUME IInv, UndoSuper
  PROVE  [Abstract!Next]_(Abstract!wvars)
<1>1. fsKey = NoKey  BY DEF IInv, RollInv, DiskInv, UndoSuper, Undo
<1>2. fsKey' = fsKey  BY <1>1 DEF UndoSuper, Undo, diskVars
<1> QED BY <1>2 DEF UndoSuper, Undo, Abstract!wvars

\* Every other step of a call, the failed ones too, leaves the abstract state be.
LEMMA OthersStutter ==
  ASSUME \/ \E k \in Keys : Call(k)
         \/ InspectOpen \/ InspectClean \/ Probe \/ Integrity \/ IntegrityFail
         \/ Crypt \/ MountFS \/ Overlays \/ Export
         \/ UndoExport \/ UndoOverlay \/ UndoMount \/ UndoCrypt \/ UndoInteg
         \/ UNCHANGED vars
  PROVE  UNCHANGED <<fsKey, open, seals>>
<1> USE DEF diskVars
<1>1. CASE \E k \in Keys : Call(k)  BY <1>1 DEF Call
<1>2. CASE InspectOpen \/ InspectClean \/ Probe
  BY <1>2 DEF InspectOpen, InspectClean, Probe
<1>3. CASE Integrity \/ IntegrityFail  BY <1>3 DEF Integrity, IntegrityFail
<1>4. CASE Crypt \/ MountFS \/ Export  BY <1>4 DEF Crypt, MountFS, Export, FailTo
<1>5. CASE Overlays  BY <1>5 DEF Overlays
<1>6. CASE UndoExport \/ UndoOverlay \/ UndoMount \/ UndoCrypt \/ UndoInteg
  BY <1>6 DEF UndoExport, UndoOverlay, UndoMount, UndoCrypt, UndoInteg, Undo
<1>7. CASE UNCHANGED vars  BY <1>7 DEF vars
<1> QED BY <1>1, <1>2, <1>3, <1>4, <1>5, <1>6, <1>7

\* Every step of a call is a step of the abstract workspace or none.
LEMMA NextRefines ==
  ASSUME IInv, [Next]_vars
  PROVE  [Abstract!Next]_(Abstract!wvars)
<1>1. CASE Format  BY <1>1, FormatRefines
<1>2. CASE FinishUnsealed \/ FinishSeal  BY <1>2, FinishRefines
<1>3. CASE Reboot  BY <1>3, RebootRefines
<1>4. CASE UndoSuper  BY <1>4, UndoSuperRefines
<1>5. CASE ~(Format \/ FinishUnsealed \/ FinishSeal \/ Reboot \/ UndoSuper)
  <2>1. UNCHANGED <<fsKey, open, seals>>  BY <1>5, OthersStutter DEF Next
  <2> QED BY <2>1 DEF Abstract!wvars
<1> QED BY <1>1, <1>2, <1>3, <1>4, <1>5

\* activateWith and its callers implement the abstract workspace: one key per disk
\* for good, opened by that key alone, sealed in the step that opens.
THEOREM VolumeImplementsWorkspace == Spec => ImplementsWorkspace
<1>1. IInv /\ [Next]_vars => [Abstract!Next]_(Abstract!wvars)
  BY NextRefines
<1> QED BY <1>1, InitRefines, VolumeInvariant, PTL DEF Spec, ImplementsWorkspace, Abstract!Spec
===============================================================================
