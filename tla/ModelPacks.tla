------------------------------ MODULE ModelPacks ------------------------------
(***************************************************************************)
(* tinfoil-boot's models stage (boot/models.go over internal/devicemapper  *)
(* and internal/device): every model's disk is found at its measured slot, *)
(* mapped read-only, with dm-crypt below dm-verity if it is encrypted, and *)
(* mounted.  Every step can fail, and so can the removals that undo the    *)
(* ones before it.  Runs after the secrets are resolved, and the container *)
(* manager after it.                                                       *)
(***************************************************************************)
EXTENDS SecretHandoff

CONSTANTS
  FirstSlot, LastSlot,     \* PCI slots of model disks
  SectorSize, BlockSize,   \* bytes of a sector, of a block of data or hashes
  MaxOffset,               \* the largest offset that is representable
  CryptSectors,            \* sectors of one dm-crypt sector
  Sizes                    \* sizes of disks in sectors

ASSUME SizeAssumption ==
  /\ FirstSlot \in Nat /\ LastSlot \in Nat /\ MaxOffset \in Nat
  /\ SectorSize \in Nat \ {0} /\ BlockSize \in Nat \ {0} /\ BlockSize % SectorSize = 0

VARIABLES
  slots,    \* slot -> serial and size of the disk behind it
  cur,      \* the model in work, the step, the layer it is about
  seen,     \* root hashes so far
  dm,       \* device-mapper: name -> table
  mnodes,   \* nodes in /dev/mapper
  aliases,  \* root hashes with a legacy alias
  mounts,   \* mount point -> what is mounted
  stuck     \* an undo step failed

packVars == <<slots, cur, seen, dm, mnodes, aliases, mounts, stuck>>
vars == <<secretVars, packVars>>

SlotRange == FirstSlot..LastSlot

Init ==
  /\ HandoffInit
  /\ slots = <<>> /\ cur = [i |-> 1, at |-> "pick", layer |-> "alias"] /\ seen = {}
  /\ dm = <<>> /\ mnodes = {} /\ aliases = {} /\ mounts = <<>> /\ stuck = FALSE

Model == config.models[cur.i]
Encrypted == Model.kind = "emwp"

-------------------------------------------------------------------------------
(* Disks (internal/device/topology.go) *)

\* The host attaches a disk, with the serial and size it likes.
AttachDisk ==
  /\ \E s \in SlotRange \ DOMAIN slots, serial \in 1..Cardinality(SlotRange), size \in Sizes :
       slots' = [t \in DOMAIN slots \cup {s} |->
                   IF t = s THEN [serial |-> serial, size |-> size] ELSE slots[t]]
  /\ UNCHANGED <<secretVars, cur, seen, dm, mnodes, aliases, mounts, stuck>>

modelDiskPCIAddress(i) == FirstSlot + i - 1

\* A virtio disk alone at the address, with the serial of that position.
findDiskByPCIAddress(slot, serial) == slot \in DOMAIN slots /\ slots[slot].serial = serial

ModelDisk(i) ==
  modelDiskPCIAddress(i) <= LastSlot /\ findDiskByPCIAddress(modelDiskPCIAddress(i), i)

\* The disk, or its payload partition if the pack is encrypted.
SourceDevice == <<IF Encrypted THEN "partition" ELSE "disk", modelDiskPCIAddress(cur.i)>>

-------------------------------------------------------------------------------
(* Tables *)

MapperName(layer) == <<layer, Model.root>>

\* What lies under a layer.
Below(layer) == IF layer = "verity" /\ Encrypted THEN MapperName("crypt") ELSE SourceDevice

\* The empty name is no secret's.
encryptedModelKey == IF Model.keySecret = "" THEN "" ELSE GetSecret(ext, Model.keySecret)

\* The hash tree starts one block after the data: its superblock is not read.
verityTable ==
  [over |-> Below("verity"), root |-> Model.root, key |-> "", active |-> FALSE,
   blocks |-> Model.offset \div BlockSize, hashStart |-> Model.offset \div BlockSize + 1,
   len |-> Model.offset \div SectorSize]
validVerityTable ==
  Model.offset > 0 /\ Model.offset % BlockSize = 0 /\ Model.offset <= MaxOffset - BlockSize

cryptTable ==
  [over |-> Below("crypt"), root |-> "", key |-> encryptedModelKey, active |-> FALSE,
   blocks |-> 0, hashStart |-> 0, len |-> slots[modelDiskPCIAddress(cur.i)].size]
validCryptTable ==
  LET size == slots[modelDiskPCIAddress(cur.i)].size IN size > 0 /\ size % CryptSectors = 0

Table(layer) == IF layer = "verity" THEN verityTable ELSE cryptTable
ValidTable(layer) == IF layer = "verity" THEN validVerityTable ELSE validCryptTable
EmptyTable == [over |-> <<"none", 0>>, root |-> "", key |-> "", active |-> FALSE,
               blocks |-> 0, hashStart |-> 0, len |-> 0]

-------------------------------------------------------------------------------
(* mountModels *)

At(at) == pos = "models" /\ cur.i <= Len(config.models) /\ cur.at = at
To(at, layer) == cur' = [cur EXCEPT !.at = at, !.layer = layer]
Keep(v) == UNCHANGED <<confVars, fetchVars, handVars, mgr>> /\ UNCHANGED v
Leave == pos' = "failed" /\ UNCHANGED cur
On == UNCHANGED pos

\* Exactly one reference, of one of the three kinds.
modelPackRefForModel == Model.kind \in {"mpk", "mwp", "emwp"}

\* The reference must be one, and its root hash new; a directory is made.
PickModel ==
  /\ At("pick")
  /\ IF ~modelPackRefForModel \/ Model.root \in seen
     THEN Leave /\ UNCHANGED seen
     ELSE On /\ To("find", "alias") /\ seen' = seen \cup {Model.root}
  /\ Keep(<<slots, dm, mnodes, aliases, mounts, stuck>>)

\* The disk is waited for; salt and key are made; only then is anything mapped.
FindSource ==
  /\ At("find") /\ ModelDisk(cur.i)
  /\ IF Model.repo /\ (Encrypted => encryptedModelKey # "")
     THEN /\ On
          /\ CASE Encrypted -> To("open", "crypt")
               [] ~Encrypted /\ ~Model.isolated -> To("alias", "alias")
               [] OTHER -> To("open", "verity")
     ELSE Leave
  /\ Keep(<<slots, seen, dm, mnodes, aliases, mounts, stuck>>)

\* A stale link is replaced.
createLegacyModelPackAlias ==
  /\ At("alias") /\ On /\ To("open", "verity")
  /\ aliases' = aliases \cup {Model.root}
  /\ Keep(<<slots, seen, dm, mnodes, mounts, stuck>>)

\* Which layer is undone when a layer could not be opened.
Undo(layer) ==
  CASE layer = "verity" /\ Encrypted -> "crypt"
    [] layer = "verity" /\ ~Encrypted /\ ~Model.isolated -> "alias"
    [] OTHER -> "none"

FailTo(layer) == IF layer = "none" THEN Leave ELSE On /\ To("undo", layer)

\* The table is made from the device below; a bad one opens nothing.
OpenLayer ==
  /\ At("open")
  /\ IF ValidTable(cur.layer) THEN On /\ To("create", cur.layer) ELSE FailTo(Undo(cur.layer))
  /\ Keep(<<slots, seen, dm, mnodes, aliases, mounts, stuck>>)

CreateReadOnly ==
  /\ At("create") /\ MapperName(cur.layer) \notin DOMAIN dm
  /\ On /\ To("load", cur.layer)
  /\ dm' = [n \in DOMAIN dm \cup {MapperName(cur.layer)} |->
              IF n = MapperName(cur.layer) THEN EmptyTable ELSE dm[n]]
  /\ Keep(<<slots, seen, mnodes, aliases, mounts, stuck>>)

LoadReadOnlyTable ==
  /\ At("load") /\ On /\ To("resume", cur.layer)
  /\ dm' = [dm EXCEPT ![MapperName(cur.layer)] = Table(cur.layer)]
  /\ Keep(<<slots, seen, mnodes, aliases, mounts, stuck>>)

ResumeReadOnly ==
  /\ At("resume") /\ On /\ To("node", cur.layer)
  /\ dm' = [dm EXCEPT ![MapperName(cur.layer)].active = TRUE]
  /\ Keep(<<slots, seen, mnodes, aliases, mounts, stuck>>)

\* The status is looked at, and the node made under the number it names.
EnsureBlockNode ==
  /\ At("node") /\ dm[MapperName(cur.layer)].active
  /\ On /\ (IF cur.layer = "crypt" THEN To("open", "verity") ELSE To("mount", "verity"))
  /\ mnodes' = mnodes \cup {MapperName(cur.layer)}
  /\ Keep(<<slots, seen, dm, aliases, mounts, stuck>>)

modelMountTarget == IF Model.isolated THEN <<"private", cur.i>> ELSE <<"mwp", Model.root>>

mountModel ==
  /\ At("mount") /\ On
  /\ mounts' = [p \in DOMAIN mounts \cup {modelMountTarget} |->
       IF p = modelMountTarget
       THEN [dev |-> MapperName("verity"), model |-> cur.i] ELSE mounts[p]]
  /\ cur' = [i |-> cur.i + 1, at |-> "pick", layer |-> "alias"]
  /\ Keep(<<slots, seen, dm, mnodes, aliases, stuck>>)

\* Mutant of UndoFrom: a mapping whose table does not load is left behind.
UndoFromLoaded ==
  CASE cur.at \in {"pick", "find", "alias"} -> "none"
    [] cur.at \in {"open", "create", "load"} -> Undo(cur.layer)
    [] OTHER -> cur.layer

\* A mapping that was created is removed when a later step fails.
UndoFrom ==
  CASE cur.at \in {"pick", "find", "alias"} -> "none"
    [] cur.at \in {"open", "create"} -> Undo(cur.layer)
    [] OTHER -> cur.layer

StepFails ==
  /\ pos = "models" /\ cur.i <= Len(config.models) /\ cur.at # "undo" /\ FailTo(UndoFrom)
  /\ Keep(<<slots, seen, dm, mnodes, aliases, mounts, stuck>>)

\* The kernel refuses to remove a mapping that another one lies over.
InUse(name) == \E n \in DOMAIN dm : dm[n].over = name

\* Mapping and node go, or the mapping alone, or neither; the undo goes on.
Remove ==
  /\ At("undo") /\ cur.layer # "alias" /\ FailTo(Undo(cur.layer))
  /\ \/ /\ ~InUse(MapperName(cur.layer))
        /\ dm' = [n \in DOMAIN dm \ {MapperName(cur.layer)} |-> dm[n]]
        /\ \/ mnodes' = mnodes \ {MapperName(cur.layer)} /\ UNCHANGED stuck
           \/ mnodes' = mnodes /\ stuck' = TRUE
     \/ UNCHANGED <<dm, mnodes>> /\ stuck' = TRUE
  /\ Keep(<<slots, seen, aliases, mounts>>)

removeLegacyModelPackAlias ==
  /\ At("undo") /\ cur.layer = "alias" /\ Leave
  /\ \/ aliases' = aliases \ {Model.root} /\ UNCHANGED stuck
     \/ UNCHANGED aliases /\ stuck' = TRUE
  /\ Keep(<<slots, seen, dm, mnodes, mounts>>)

\* All models are mounted; volumes and the end of boot follow.
ModelsDone ==
  /\ pos = "models" /\ cur.i > Len(config.models) /\ pos' \in {"booted", "failed"}
  /\ Keep(packVars)

PackStep ==
  \/ AttachDisk \/ PickModel \/ FindSource \/ createLegacyModelPackAlias
  \/ OpenLayer \/ CreateReadOnly \/ LoadReadOnlyTable \/ ResumeReadOnly \/ EnsureBlockNode
  \/ mountModel \/ StepFails \/ Remove \/ removeLegacyModelPackAlias \/ ModelsDone

Next ==
  \/ SecretStep /\ UNCHANGED packVars
  \/ ManagerStep /\ UNCHANGED packVars
  \/ PackStep

Spec == Init /\ [][Next]_vars

-------------------------------------------------------------------------------
(* Properties *)

\* No value of another source reaches the workload or a disk: what a manager
\* instance uses and the key of every dm-crypt mapping come from the one source
\* that the measured configuration permits, and a configuration disk rewritten
\* after it was verified changes nothing (boot/secrets.go prepareSecretHandoff).
SecretsFromOneSource ==
  /\ confFile # "other"
  /\ \A n \in DOMAIN mgr.use : mgr.use[n] = PermittedSource
  /\ \A n \in DOMAIN dm : n[1] = "crypt" /\ dm[n].over[1] # "none" => dm[n].key = PermittedSource

\* What is mounted is an active verity mapping of the root hash at its place in
\* the configuration, whose data ends before its hash tree begins and fills the
\* mapping, over the disk at the measured slot or the crypt mapping over it.
Verified(m) ==
  LET model == config.models[m.model]
      v     == dm[m.dev]
      low   == IF model.kind = "emwp" THEN dm[v.over].over ELSE v.over
  IN  /\ m.dev = <<"verity", model.root>> /\ m.dev \in mnodes
      /\ v.active /\ v.root = model.root
      /\ v.len * SectorSize = v.blocks * BlockSize /\ v.len > 0
      /\ (v.hashStart - 1) * BlockSize = model.offset
      /\ model.kind = "emwp" => v.over = <<"crypt", model.root>> /\ dm[v.over].active
      /\ low[2] = FirstSlot + m.model - 1 /\ slots[low[2]].serial = m.model

\* A model is mounted only over its own verified disk, two models never share
\* a mapping, and a models stage that failed leaves the mappings, nodes and
\* aliases of the models mounted before and no others, unless an undo step
\* failed as well (boot/models.go mountModels).
MountedIsVerified ==
  /\ \A p \in DOMAIN mounts : Verified(mounts[p])
  /\ \A p, q \in DOMAIN mounts : mounts[p].dev = mounts[q].dev => p = q
  /\ pos \in {"failed", "booted"} /\ ~stuck =>
       LET held == {mounts[p].dev : p \in DOMAIN mounts}
           used == held \cup {dm[n].over : n \in held} IN
       /\ DOMAIN dm \subseteq used /\ mnodes = DOMAIN dm
       /\ \A r \in aliases : <<"mwp", r>> \in DOMAIN mounts
  /\ pos = "booted" => Cardinality(DOMAIN mounts) = Len(config.models)

=============================================================================
