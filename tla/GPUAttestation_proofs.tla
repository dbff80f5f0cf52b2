------------------------ MODULE GPUAttestation_proofs ------------------------
(***************************************************************************)
(* Proofs about GPUAttestation, for any GPUs, minors, identities, board    *)
(* and driver.  The bring-up is a long line of steps, each of which may    *)
(* fail, beside a driver and daemons that change on their own: the         *)
(* invariant says what the step at hand has behind it that nothing else    *)
(* can take away, and the status file stands for the last of them.         *)
(***************************************************************************)
EXTENDS GPUAttestation, FiniteSetTheorems, TLAPS

(* The bring-up: where it stands, and what is behind it *)

AfterFabric  == {"nvml", "cdi-temp", "cdi-generate", "publish", "ready"}
AfterMode    == {"start-fabric", "wait-fabric"} \cup AfterFabric
AfterNodes   == {"fabric-mode"} \cup AfterMode
AfterModeset == {"modeset-nodes"} \cup AfterNodes
AfterUVM     == {"uvm-nodes", "modeset"} \cup AfterModeset
AfterDaemon  == {"uvm"} \cup AfterUVM
AfterCore    == {"core-nodes", "start-persistenced", "wait-persistenced"} \cup AfterDaemon
BringUp      == {"hold", "power", "core"} \cup AfterCore
Written      == {"lock", "booting", "down"}

DaemonState == [alive : BOOLEAN, sock : BOOLEAN, kept : BOOLEAN]

TypeInv ==
  /\ pci \in [gpus : SUBSET GPUs, switch : BOOLEAN, nvl5 : BOOLEAN, arch : Arches]
  /\ DOMAIN drv \subseteq pci.gpus /\ \A g \in DOMAIN drv : drv[g] \in Minors
  /\ loaded \subseteq {"core", "uvm", "modeset"}
  /\ svc \in [Daemons -> DaemonState]
  /\ cdi \in [tmp : {"none", "empty", "partial", "whole"}, spec : {"none", "empty", "partial", "whole"}]
  /\ status \in [state : {"none", "no-gpu", "failed", "ready"}, gpus : Nat]
  /\ nv \in {"detect", "no-gpu", "failed", "cdi-ended"} \cup BringUp \cup Written

\* No driver probes before every enable reference is held.
HoldInv ==
  /\ nv \in {"detect", "hold", "power", "core"} => loaded = {}
  /\ nv \in {"power", "core"} \/ loaded # {} => held = pci.gpus

\* The work behind the step at hand.
WorkInv ==
  /\ nv \in BringUp => gpuCount > 0
  /\ nv \in AfterCore => "core" \in loaded
  /\ nv \in AfterUVM => "uvm" \in loaded
  /\ nv \in AfterModeset => "modeset" \in loaded
  /\ nv \in AfterDaemon => svc["persistenced"].sock
  /\ nv \in AfterNodes => Served
  /\ nv \in AfterMode => ~pci.nvl5
  /\ nv \in AfterFabric /\ pci.switch => svc["fabric"].sock

\* The temporary specification is gone after every end of its generation, and
\* what is published was whole.
CDIInv ==
  /\ nv \notin {"cdi-generate", "cdi-ended", "publish"} => cdi.tmp = "none"
  /\ nv = "publish" => cdi.tmp = "whole"
  /\ cdi.spec \in {"none", "whole"}
  /\ nv = "ready" => cdi.spec = "whole"

\* What a ready status stands for, which nothing undoes once it is written.
Earned ==
  /\ status.gpus = gpuCount /\ gpuCount > 0 /\ ~pci.nvl5
  /\ loaded = {"core", "uvm", "modeset"} /\ Served
  /\ svc["persistenced"].sock /\ (pci.switch => svc["fabric"].sock)
  /\ cdi.spec = "whole"

StatusInv ==
  /\ nv = "booting" => locked
  /\ status # NoFile => nv \in Written
  /\ status.state = "ready" => Earned

BInv == TypeInv /\ HoldInv /\ WorkInv /\ CDIInv /\ StatusInv

-----------------------------------------------------------------------------

\* The devices of one whole attempt are in place, each under its number and
\* with its link, whatever /dev held before.
LEMMA AttemptServes ==
  ASSUME TypeInv, "core" \in loaded, NEW n \in Nat, setupDeviceNodes(TRUE, TRUE, n),
         UNCHANGED hardware
  PROVE  Served'
<1> DEFINE D == discoverDeviceNodes(n)
<1>1. /\ Discoverable(TRUE) /\ validateCharDevices(D)
      /\ nodes' = ensureCharNode(D) /\ links' = ensureDevCharSymlink(D)
  BY DEF setupDeviceNodes
<1>2. ASSUME NEW d \in D PROVE Linked(d)'
  <2>1. d \in DOMAIN nodes' /\ nodes'[d] = Number(d)
    BY <1>1 DEF ensureCharNode
  <2>2. Number(d) \in {Number(e) : e \in D}  OBVIOUS
  <2>3. Number(d) \in DOMAIN links' /\ links'[Number(d)] = CHOOSE e \in D : Number(e) = Number(d)
    BY <1>1, <2>2, Zenon DEF ensureDevCharSymlink
  <2>4. (CHOOSE e \in D : Number(e) = Number(d)) = d
    BY <1>1 DEF validateCharDevices
  <2> QED BY <2>1, <2>3, <2>4 DEF Linked
<1>3. gpuCount' = gpuCount /\ pci' = pci
  BY DEF hardware, gpuCount, nvidiaPCIDevices
<1>4. "uvm" \in charDeviceMajors /\ allowedCapabilityFiles \subseteq caps
  BY <1>1 DEF Discoverable
<1>5. {<<"ctl", CtlMinor>>, <<"modeset", ModesetMinor>>, <<"uvm", 0>>, <<"uvm-tools", 1>>} \subseteq D
  BY <1>4 DEF discoverDeviceNodes
<1>6. {<<"cap", c>> : c \in allowedCapabilityFiles} \subseteq D
  BY <1>4 DEF discoverDeviceNodes, nvidiaCapabilityDevices
<1>7. pci.switch => {<<"nvswitchctl", CtlMinor>>, <<"nvlink", 0>>} \subseteq D
  BY <1>1 DEF Discoverable, hasNVSwitch, discoverDeviceNodes, nvidiaInterconnectDevices
<1>8. \A m \in Range(drv) : <<"nvidia", m>> \in D
  BY DEF discoverDeviceNodes, nvidiaDeviceMinors
<1>9. Range(drv) \in SUBSET Minors /\ Cardinality(Range(drv)) = gpuCount
  BY <1>1 DEF TypeInv, Range, Discoverable, nvidiaDeviceMinors
<1> HIDE DEF D
<1> QED BY <1>2, <1>3, <1>5, <1>6, <1>7, <1>8, <1>9 DEF Served

-----------------------------------------------------------------------------
(* Step by step *)

\* What only the device nodes and the bus decide stays while they do.
LEMMA DevicesStay ==
  ASSUME UNCHANGED <<pci, nodes, links>>
  PROVE  Served' = Served /\ gpuCount' = gpuCount
<1>1. gpuCount' = gpuCount  BY DEF gpuCount, nvidiaPCIDevices
<1>2. \A d : Linked(d)' <=> Linked(d)  BY DEF Linked
<1> QED BY <1>1, <1>2 DEF Served

\* The entry of a daemon keeps its shape.
LEMMA DaemonFields ==
  ASSUME NEW s \in DaemonState, NEW a \in BOOLEAN, NEW b \in BOOLEAN
  PROVE  /\ [s EXCEPT !.alive = a, !.sock = b] \in DaemonState
         /\ [s EXCEPT !.kept = b] \in DaemonState
         /\ [s EXCEPT !.alive = a] \in DaemonState
BY DEF DaemonState

LEMMA DaemonTypes ==
  ASSUME TypeInv, NEW d \in Daemons, NEW a \in BOOLEAN, NEW b \in BOOLEAN, Daemon(d, a, b)
  PROVE  svc' \in [Daemons -> DaemonState]
<1>1. svc \in [Daemons -> DaemonState] /\ svc' = [svc EXCEPT ![d].alive = a, ![d].sock = b]
  BY DEF TypeInv, Daemon
<1>2. svc' = [svc EXCEPT ![d] = [svc[d] EXCEPT !.alive = a, !.sock = b]]  BY <1>1
<1>3. [svc[d] EXCEPT !.alive = a, !.sock = b] \in DaemonState  BY <1>1, DaemonFields
<1> QED BY <1>1, <1>2, <1>3

LEMMA KeptTypes ==
  ASSUME TypeInv, NEW d \in Daemons, svc' = [svc EXCEPT ![d].kept = TRUE]
  PROVE  svc' \in [Daemons -> DaemonState]
<1>1. svc \in [Daemons -> DaemonState]  BY DEF TypeInv
<1>2. [svc[d] EXCEPT !.kept = TRUE] \in DaemonState  BY <1>1, DaemonFields
<1> QED BY <1>1, <1>2

LEMMA EndedTypes ==
  ASSUME TypeInv, svc' = [d \in Daemons |-> [svc[d] EXCEPT !.alive = @ /\ nv # Wait[d]]]
  PROVE  svc' \in [Daemons -> DaemonState]
<1>1. ASSUME NEW d \in Daemons
      PROVE  [svc[d] EXCEPT !.alive = @ /\ nv # Wait[d]] \in DaemonState
  <2> DEFINE a == svc[d].alive /\ nv # Wait[d]
  <2>1. svc[d] \in DaemonState  BY DEF TypeInv
  <2>2. a \in BOOLEAN  OBVIOUS
  <2> HIDE DEF a
  <2>3. [svc[d] EXCEPT !.alive = a] \in DaemonState  BY <2>1, <2>2, DaemonFields
  <2> QED BY <2>3, Zenon DEF a
<1> QED BY <1>1, Zenon

\* GPUs are counted.
LEMMA CountIsNat == ASSUME TypeInv PROVE gpuCount \in Nat
<1>1. pci.gpus \subseteq GPUs  BY DEF TypeInv
<1> QED BY <1>1, NvidiaAssumption, FS_Subset, FS_CardinalityType DEF gpuCount, nvidiaPCIDevices

USE NvidiaAssumption
  DEF BInv, TypeInv, HoldInv, WorkInv, CDIInv, StatusInv, Earned, AfterFabric, AfterMode,
      AfterNodes, AfterModeset, AfterUVM, AfterDaemon, AfterCore, BringUp, Written,
      Daemons, Start, Wait, NoFile, hardware, devVars, Only, Go

\* The driver binds one more GPU of the bus.
LEMMA BindKeeps ==
  ASSUME BInv, BindGPU
  PROVE  BInv'
<1> USE DEF BindGPU, Range
<1>1. UNCHANGED <<pci, nodes, links>>  OBVIOUS
<1>2. Served' = Served /\ gpuCount' = gpuCount  BY <1>1, DevicesStay
<1>3. TypeInv'
  <2>1. DOMAIN drv' \subseteq pci'.gpus /\ \A g \in DOMAIN drv' : drv'[g] \in Minors
    OBVIOUS
  <2> QED BY <1>1, <2>1
<1>4. HoldInv'  BY <1>1, <1>2
<1>5. WorkInv'  BY <1>1, <1>2
<1>6. CDIInv'  BY <1>1, <1>2
<1>7. StatusInv'  BY <1>1, <1>2
<1> QED BY <1>3, <1>4, <1>5, <1>6, <1>7

\* The driver publishes a capability.
LEMMA CapsKeeps ==
  ASSUME BInv, PublishCaps
  PROVE  BInv'
<1> USE DEF PublishCaps
<1>1. UNCHANGED <<pci, nodes, links>>  OBVIOUS
<1>2. Served' = Served /\ gpuCount' = gpuCount  BY <1>1, DevicesStay
<1>3. TypeInv'  BY <1>1, <1>2
<1>4. HoldInv'  BY <1>1, <1>2
<1>5. WorkInv'  BY <1>1, <1>2
<1>6. CDIInv'  BY <1>1, <1>2
<1>7. StatusInv'  BY <1>1, <1>2
<1> QED BY <1>3, <1>4, <1>5, <1>6, <1>7

\* A GPU that falls off the bus is not unlisted, and its node stays.
LEMMA LoseKeeps ==
  ASSUME BInv, LoseGPU
  PROVE  BInv'
<1> USE DEF LoseGPU
<1>1. UNCHANGED <<pci, nodes, links>>  OBVIOUS
<1>2. Served' = Served /\ gpuCount' = gpuCount  BY <1>1, DevicesStay
<1>3. TypeInv'  BY <1>1, <1>2
<1>4. HoldInv'  BY <1>1, <1>2
<1>5. WorkInv'  BY <1>1, <1>2
<1>6. CDIInv'  BY <1>1, <1>2
<1>7. StatusInv'  BY <1>1, <1>2
<1> QED BY <1>3, <1>4, <1>5, <1>6, <1>7

\* A daemon that dies leaves its socket, and one that comes back finds it.
LEMMA DaemonKeeps ==
  ASSUME BInv, NEW d \in Daemons, NEW a \in BOOLEAN, NEW b \in BOOLEAN, Daemon(d, a, b),
         UNCHANGED nv, svc[d].sock => b
  PROVE  BInv'
<1> USE DEF Daemon, DaemonState
<1>1. UNCHANGED <<pci, nodes, links>>  OBVIOUS
<1>2. Served' = Served /\ gpuCount' = gpuCount  BY <1>1, DevicesStay
<1>3. TypeInv'
  <2>1. svc' \in [Daemons -> DaemonState]
    BY DaemonTypes, Zenon
  <2> QED BY <1>1, <2>1
<1>4. HoldInv'  BY <1>1, <1>2
<1>5. WorkInv'  BY <1>1, <1>2
<1>6. CDIInv'  BY <1>1, <1>2
<1>7. StatusInv'  BY <1>1, <1>2
<1> QED BY <1>3, <1>4, <1>5, <1>6, <1>7

\* A machine without a GPU goes past all of the work.
LEMMA DetectKeeps ==
  ASSUME BInv, Detect
  PROVE  BInv'
<1> USE DEF Detect
<1>1. UNCHANGED <<pci, nodes, links>>  OBVIOUS
<1>2. Served' = Served /\ gpuCount' = gpuCount  BY <1>1, DevicesStay
<1>3. TypeInv'  BY <1>1, <1>2
<1>4. HoldInv'  BY <1>1, <1>2
<1>5. WorkInv'  BY <1>1, <1>2
<1>6. CDIInv'  BY <1>1, <1>2
<1>7. StatusInv'  BY <1>1, <1>2
<1> QED BY <1>3, <1>4, <1>5, <1>6, <1>7

\* Every reference is held, or the step has failed.
LEMMA HoldKeeps ==
  ASSUME BInv, HoldGPUEnableReferences
  PROVE  BInv'
<1> USE DEF HoldGPUEnableReferences, nvidiaPCIDevices
<1>1. UNCHANGED <<pci, nodes, links>>  OBVIOUS
<1>2. Served' = Served /\ gpuCount' = gpuCount  BY <1>1, DevicesStay
<1>3. TypeInv'  BY <1>1, <1>2
<1>4. HoldInv'  BY <1>1, <1>2
<1>5. WorkInv'  BY <1>1, <1>2
<1>6. CDIInv'  BY <1>1, <1>2
<1>7. StatusInv'  BY <1>1, <1>2
<1> QED BY <1>3, <1>4, <1>5, <1>6, <1>7

\* Power management changes nothing that later steps build on.
LEMMA PowerKeeps ==
  ASSUME BInv, EnableGPURuntimePowerManagement
  PROVE  BInv'
<1> USE DEF EnableGPURuntimePowerManagement
<1>1. UNCHANGED <<pci, nodes, links>>  OBVIOUS
<1>2. Served' = Served /\ gpuCount' = gpuCount  BY <1>1, DevicesStay
<1>3. TypeInv'  BY <1>1, <1>2
<1>4. HoldInv'  BY <1>1, <1>2
<1>5. WorkInv'  BY <1>1, <1>2
<1>6. CDIInv'  BY <1>1, <1>2
<1>7. StatusInv'  BY <1>1, <1>2
<1> QED BY <1>3, <1>4, <1>5, <1>6, <1>7

\* Modules are loaded behind the references, the core ones first.
LEMMA LoadKeeps ==
  ASSUME BInv, loadInventory("core", "core-nodes") \/ loadInventory("uvm", "uvm-nodes")
         \/ loadInventory("modeset", "modeset-nodes")
  PROVE  BInv'
<1> USE DEF loadInventory, Inventory
<1>1. UNCHANGED <<pci, nodes, links>>  OBVIOUS
<1>2. Served' = Served /\ gpuCount' = gpuCount  BY <1>1, DevicesStay
<1>3. TypeInv'
  <2>1. loaded' \subseteq {"core", "uvm", "modeset"}  OBVIOUS
  <2> QED BY <1>1, <2>1
<1>4. HoldInv'  BY <1>1, <1>2
<1>5. WorkInv'  BY <1>1, <1>2
<1>6. CDIInv'  BY <1>1, <1>2
<1>7. StatusInv'  BY <1>1, <1>2
<1> QED BY <1>3, <1>4, <1>5, <1>6, <1>7

\* Only a first start removes a socket, before anything waits for it.
LEMMA PrepareKeeps ==
  ASSUME BInv, NEW d \in Daemons, PrepareRuntime(d)
  PROVE  BInv'
<1> USE DEF PrepareRuntime, Daemon
<1>1. UNCHANGED <<pci, nodes, links>>  OBVIOUS
<1>2. Served' = Served /\ gpuCount' = gpuCount  BY <1>1, DevicesStay
<1>3. TypeInv'
  <2>1. svc' \in [Daemons -> DaemonState]
    BY DaemonTypes
  <2> QED BY <1>1, <2>1
<1>4. HoldInv'  BY <1>1, <1>2
<1>5. WorkInv'  BY <1>1, <1>2
<1>6. CDIInv'  BY <1>1, <1>2
<1>7. StatusInv'  BY <1>1, <1>2
<1> QED BY <1>3, <1>4, <1>5, <1>6, <1>7

\* A daemon was seen with its socket.
LEMMA ServiceKeeps ==
  ASSUME BInv, waitForService("persistenced", "uvm") \/ waitForService("fabric", "nvml")
  PROVE  BInv'
<1> USE DEF DaemonState, waitForService, validateServiceReadiness, validateUnixSocket
<1>1. UNCHANGED <<pci, nodes, links>>  OBVIOUS
<1>2. Served' = Served /\ gpuCount' = gpuCount  BY <1>1, DevicesStay
<1>3. TypeInv'
  <2>1. svc' \in [Daemons -> DaemonState]
    BY KeptTypes, Zenon
  <2> QED BY <1>1, <2>1
<1>4. HoldInv'  BY <1>1, <1>2
<1>5. WorkInv'  BY <1>1, <1>2
<1>6. CDIInv'  BY <1>1, <1>2
<1>7. StatusInv'  BY <1>1, <1>2
<1> QED BY <1>3, <1>4, <1>5, <1>6, <1>7

\* Without a switch there is no fabric to wait for; NVL5 ends here.
LEMMA ModeKeeps ==
  ASSUME BInv, DetectFabricMode
  PROVE  BInv'
<1> USE DEF DetectFabricMode, hasNVSwitch, hasSWManagementVPD
<1>1. UNCHANGED <<pci, nodes, links>>  OBVIOUS
<1>2. Served' = Served /\ gpuCount' = gpuCount  BY <1>1, DevicesStay
<1>3. TypeInv'  BY <1>1, <1>2
<1>4. HoldInv'  BY <1>1, <1>2
<1>5. WorkInv'  BY <1>1, <1>2
<1>6. CDIInv'  BY <1>1, <1>2
<1>7. StatusInv'  BY <1>1, <1>2
<1> QED BY <1>3, <1>4, <1>5, <1>6, <1>7

\* NVML has answered.
LEMMA NVMLKeeps ==
  ASSUME BInv, WaitForNVML
  PROVE  BInv'
<1> USE DEF WaitForNVML
<1>1. UNCHANGED <<pci, nodes, links>>  OBVIOUS
<1>2. Served' = Served /\ gpuCount' = gpuCount  BY <1>1, DevicesStay
<1>3. TypeInv'  BY <1>1, <1>2
<1>4. HoldInv'  BY <1>1, <1>2
<1>5. WorkInv'  BY <1>1, <1>2
<1>6. CDIInv'  BY <1>1, <1>2
<1>7. StatusInv'  BY <1>1, <1>2
<1> QED BY <1>3, <1>4, <1>5, <1>6, <1>7

\* A specification is published only if its tool ended well.
LEMMA CDIKeeps ==
  ASSUME BInv, CreateCDITemporary \/ GenerateCDI \/ CDIFailed \/ PublishCDI
  PROVE  BInv'
<1> USE DEF CreateCDITemporary, GenerateCDI, CDIFailed, PublishCDI
<1>1. UNCHANGED <<pci, nodes, links>>  OBVIOUS
<1>2. Served' = Served /\ gpuCount' = gpuCount  BY <1>1, DevicesStay
<1>3. TypeInv'  BY <1>1, <1>2
<1>4. HoldInv'  BY <1>1, <1>2
<1>5. WorkInv'  BY <1>1, <1>2
<1>6. CDIInv'  BY <1>1, <1>2
<1>7. StatusInv'  BY <1>1, <1>2
<1> QED BY <1>3, <1>4, <1>5, <1>6, <1>7

\* Whatever fails leaves no temporary file, and only the failed status ahead.
LEMMA FailsKeeps ==
  ASSUME BInv, StepFails
  PROVE  BInv'
<1> USE DEF StepFails, Fallible, Range
<1>1. UNCHANGED <<pci, nodes, links>>  OBVIOUS
<1>2. Served' = Served /\ gpuCount' = gpuCount  BY <1>1, DevicesStay
<1>3. TypeInv'
  <2>1. svc' \in [Daemons -> DaemonState]
    BY EndedTypes
  <2> QED BY <1>1, <2>1
<1>4. HoldInv'  BY <1>1, <1>2
<1>5. WorkInv'  BY <1>1, <1>2
<1>6. CDIInv'  BY <1>1, <1>2
<1>7. StatusInv'  BY <1>1, <1>2
<1> QED BY <1>3, <1>4, <1>5, <1>6, <1>7

\* The status of a machine without GPUs.
LEMMA NoGPUKeeps ==
  ASSUME BInv, WriteStatus("no-gpu", [state |-> "no-gpu", gpus |-> 0], "lock")
  PROVE  BInv'
<1> USE DEF WriteStatus
<1>1. UNCHANGED <<pci, nodes, links>>  OBVIOUS
<1>2. Served' = Served /\ gpuCount' = gpuCount  BY <1>1, DevicesStay
<1>3. TypeInv'  BY <1>1, <1>2
<1>4. HoldInv'  BY <1>1, <1>2
<1>5. WorkInv'  BY <1>1, <1>2
<1>6. CDIInv'  BY <1>1, <1>2
<1>7. StatusInv'  BY <1>1, <1>2
<1> QED BY <1>3, <1>4, <1>5, <1>6, <1>7

\* The status of a bring-up that failed.
LEMMA FailedKeeps ==
  ASSUME BInv, WriteStatus("failed", [state |-> "failed", gpus |-> 0], "lock")
  PROVE  BInv'
<1> USE DEF WriteStatus
<1>1. UNCHANGED <<pci, nodes, links>>  OBVIOUS
<1>2. Served' = Served /\ gpuCount' = gpuCount  BY <1>1, DevicesStay
<1>3. TypeInv'  BY <1>1, <1>2
<1>4. HoldInv'  BY <1>1, <1>2
<1>5. WorkInv'  BY <1>1, <1>2
<1>6. CDIInv'  BY <1>1, <1>2
<1>7. StatusInv'  BY <1>1, <1>2
<1> QED BY <1>3, <1>4, <1>5, <1>6, <1>7

\* The ready status is written with all of the work behind it, also when its
\* directory fails to sync.
LEMMA ReadyKeeps ==
  ASSUME BInv, WriteStatus("ready", [state |-> "ready", gpus |-> gpuCount], "lock")
  PROVE  BInv'
<1> USE DEF WriteStatus
<1>1. UNCHANGED <<pci, nodes, links>>  OBVIOUS
<1>2. Served' = Served /\ gpuCount' = gpuCount  BY <1>1, DevicesStay
<1>3. TypeInv'
  <2>1. gpuCount \in Nat  BY CountIsNat
  <2>2. status' \in [state : {"none", "no-gpu", "failed", "ready"}, gpus : Nat]
    BY <2>1
  <2> QED BY <1>1, <2>2
<1>4. HoldInv'  BY <1>1, <1>2
<1>5. WorkInv'  BY <1>1, <1>2
<1>6. CDIInv'  BY <1>1, <1>2
<1>7. StatusInv'
  <2>1. nv = "ready" /\ status = NoFile /\ nv' \in {"lock", "down"}  OBVIOUS
  <2>2. loaded = {"core", "uvm", "modeset"}  BY <2>1
  <2>3. status'.gpus = gpuCount \/ status' = NoFile  BY <2>1
  <2>4. status'.gpus = gpuCount => Earned'
    BY <1>1, <1>2, <2>1, <2>2
  <2> QED BY <2>1, <2>3, <2>4
<1> QED BY <1>3, <1>4, <1>5, <1>6, <1>7

\* tinfoil-boot starts behind the lock only.
LEMMA LockKeeps ==
  ASSUME BInv, lockKernelModules
  PROVE  BInv'
<1> USE DEF lockKernelModules
<1>1. UNCHANGED <<pci, nodes, links>>  OBVIOUS
<1>2. Served' = Served /\ gpuCount' = gpuCount  BY <1>1, DevicesStay
<1>3. TypeInv'  BY <1>1, <1>2
<1>4. HoldInv'  BY <1>1, <1>2
<1>5. WorkInv'  BY <1>1, <1>2
<1>6. CDIInv'  BY <1>1, <1>2
<1>7. StatusInv'  BY <1>1, <1>2
<1> QED BY <1>3, <1>4, <1>5, <1>6, <1>7

\* An attempt may stop anywhere; only a whole one of the last wait goes on to
\* the fabric, and no status is written yet.
LEMMA NodesKeeps ==
  ASSUME BInv, \/ waitForNVIDIADeviceNodes("core-nodes", "start-persistenced", FALSE)
               \/ waitForNVIDIADeviceNodes("uvm-nodes", "modeset", TRUE)
               \/ waitForNVIDIADeviceNodes("modeset-nodes", "fabric-mode", TRUE)
  PROVE  BInv'
<1> USE DEF waitForNVIDIADeviceNodes
<1>1. UNCHANGED <<hardware, loaded, locked, held, svc, cdi, status>>  OBVIOUS
<1>2. gpuCount' = gpuCount  BY <1>1 DEF gpuCount, nvidiaPCIDevices
<1>3. nv' \in AfterNodes => Served'
  <2>1. SUFFICES ASSUME nv' \in AfterNodes PROVE Served'  OBVIOUS
  <2>2. /\ nv = "modeset-nodes"
        /\ \E n \in 0..MaxNVSwitches : setupDeviceNodes(TRUE, TRUE, n)
    BY <2>1
  <2>3. TypeInv /\ "core" \in loaded  BY <2>2
  <2>4. 0..MaxNVSwitches \subseteq Nat  BY ONLY NvidiaAssumption DEF NvidiaAssumption
  <2>5. PICK n \in Nat : setupDeviceNodes(TRUE, TRUE, n)  BY ONLY <2>2, <2>4, Zenon
  <2> QED BY ONLY <1>1, <2>3, <2>5, AttemptServes
<1>4. status = NoFile  OBVIOUS
<1>5. TypeInv'  BY <1>1
<1>6. HoldInv'  BY <1>1
<1>7. WorkInv'  BY <1>1, <1>2, <1>3
<1>8. CDIInv'  BY <1>1
<1>9. StatusInv'  BY <1>1, <1>4
<1> QED BY <1>5, <1>6, <1>7, <1>8, <1>9

HIDE NvidiaAssumption
HIDE DEF BInv, TypeInv, HoldInv, WorkInv, CDIInv, StatusInv, Earned, AfterFabric, AfterMode,
         AfterNodes, AfterModeset, AfterUVM, AfterDaemon, AfterCore, BringUp, Written,
         Daemons, Start, Wait, NoFile, hardware, devVars, Only, Go

\* The driver and the daemons on their own.
LEMMA EnvironmentKeeps == ASSUME BInv, Environment PROVE BInv'
<1>1. CASE BindGPU \/ PublishCaps \/ LoseGPU  BY <1>1, BindKeeps, CapsKeeps, LoseKeeps
<1>2. CASE \E d \in Daemons : DaemonUp(d) \/ DaemonDies(d) \/ DaemonRestart(d)
  <2>1. PICK d \in Daemons : DaemonUp(d) \/ DaemonDies(d) \/ DaemonRestart(d)  BY <1>2
  <2>2. svc[d].sock \in BOOLEAN  BY DEF BInv, TypeInv, DaemonState
  <2>3. \E a, b \in BOOLEAN : Daemon(d, a, b) /\ UNCHANGED nv /\ (svc[d].sock => b)
    <3>1. CASE DaemonUp(d)  BY <3>1, Zenon DEF DaemonUp
    <3>2. CASE DaemonDies(d)  BY <2>2, <3>2, Zenon DEF DaemonDies
    <3>3. CASE DaemonRestart(d)  BY <2>2, <3>3, Zenon DEF DaemonRestart
    <3> QED BY <2>1, <3>1, <3>2, <3>3
  <2> QED BY <2>3, DaemonKeeps, Zenon
<1> QED BY <1>1, <1>2 DEF Environment

\* Every step of the bring-up.
LEMMA BootstrapKeeps == ASSUME BInv, BootstrapStep PROVE BInv'
<1>1. Start.persistenced = "start-persistenced"  BY DEF Start
<1>2. CASE Detect \/ HoldGPUEnableReferences \/ EnableGPURuntimePowerManagement
  BY <1>2, DetectKeeps, HoldKeeps, PowerKeeps
<1>3. CASE \/ loadInventory("core", "core-nodes") \/ loadInventory("uvm", "uvm-nodes")
           \/ loadInventory("modeset", "modeset-nodes")
  BY <1>3, LoadKeeps
<1>4. CASE \/ waitForNVIDIADeviceNodes("core-nodes", Start.persistenced, FALSE)
           \/ waitForNVIDIADeviceNodes("uvm-nodes", "modeset", TRUE)
           \/ waitForNVIDIADeviceNodes("modeset-nodes", "fabric-mode", TRUE)
  BY <1>1, <1>4, NodesKeeps, Zenon
<1>5. CASE \E d \in Daemons : PrepareRuntime(d)  BY <1>5, PrepareKeeps
<1>6. CASE waitForService("persistenced", "uvm") \/ waitForService("fabric", "nvml")
  BY <1>6, ServiceKeeps
<1>7. CASE DetectFabricMode \/ WaitForNVML  BY <1>7, ModeKeeps, NVMLKeeps
<1>8. CASE CreateCDITemporary \/ GenerateCDI \/ CDIFailed \/ PublishCDI  BY <1>8, CDIKeeps
<1>9. CASE StepFails \/ lockKernelModules  BY <1>9, FailsKeeps, LockKeeps
<1>10. CASE \/ WriteStatus("no-gpu", [state |-> "no-gpu", gpus |-> 0], "lock")
            \/ WriteStatus("failed", [state |-> "failed", gpus |-> 0], "lock")
            \/ WriteStatus("ready", [state |-> "ready", gpus |-> gpuCount], "lock")
  BY <1>10, NoGPUKeeps, FailedKeeps, ReadyKeeps
<1> QED
  BY <1>2, <1>3, <1>4, <1>5, <1>6, <1>7, <1>8, <1>9, <1>10, Zenon DEF BootstrapStep

\* tinfoil-boot changes nothing that the bring-up left.
LEMMA BootKeeps == ASSUME BInv, UNCHANGED nvVars PROVE BInv'
<1>1. UNCHANGED <<pci, drv, loaded, locked, held, nodes, links, svc, cdi, status, nv>>
  BY DEF nvVars, hardware, devVars
<1>2. Served' = Served /\ gpuCount' = gpuCount  BY <1>1, DevicesStay
<1> QED BY <1>1, <1>2 DEF BInv, TypeInv, HoldInv, WorkInv, CDIInv, StatusInv, Earned

LEMMA StepKeeps == BInv /\ [Next]_vars => BInv'
<1> SUFFICES ASSUME BInv, [Next]_vars PROVE BInv'  OBVIOUS
<1>1. CASE Environment  BY <1>1, EnvironmentKeeps
<1>2. CASE BootstrapStep  BY <1>2, BootstrapKeeps
<1>3. CASE UNCHANGED nvVars  BY <1>3, BootKeeps
<1>4. CASE loadAndVerifyConfig \/ attestDevices \/ collectGPUEvidence
           \/ collectSwitchEvidence \/ setReady \/ verifyFails \/ closeGPUs
  <2>1. UNCHANGED nvVars
    BY <1>4 DEF loadAndVerifyConfig, attestDevices, collectGPUEvidence, collectSwitchEvidence,
                setReady, verifyFails, closeGPUs, To, Stay
  <2> QED BY <2>1, BootKeeps
<1> QED BY <1>1, <1>2, <1>3, <1>4 DEF Next, vars

\* Nothing is loaded, made or written when PID 1 starts.
LEMMA BInit == Init => BInv
<1> SUFFICES ASSUME Init PROVE BInv  OBVIOUS
<1> USE DEF Init, BringUp, AfterCore, AfterDaemon, AfterUVM, AfterModeset, AfterNodes, AfterMode,
            AfterFabric, Written, NoFile
<1>1. TypeInv
  <2>1. svc \in [Daemons -> DaemonState]  BY DEF DaemonState
  <2>2. DOMAIN drv = {}  OBVIOUS
  <2>3. status \in [state : {"none", "no-gpu", "failed", "ready"}, gpus : Nat]  OBVIOUS
  <2> QED BY <2>1, <2>2, <2>3 DEF TypeInv
<1>2. HoldInv /\ WorkInv  BY DEF HoldInv, WorkInv
<1>3. CDIInv /\ StatusInv  BY DEF CDIInv, StatusInv
<1> QED BY <1>1, <1>2, <1>3 DEF BInv

\* What the bring-up has behind it, at every step of any machine.
THEOREM BringUpInvariant == Spec => []BInv
<1>1. AttInit => BInv  BY BInit DEF AttInit
<1> QED BY <1>1, StepKeeps, PTL DEF Spec

\* A ready status is written only after all of the bring-up, for any number of
\* GPUs and minors and whatever attempts failed halfway (runNVIDIABootstrapSteps).
THEOREM ReadyEarned == Spec => []ReadyIsEarned
<1>1. BInv => ReadyIsEarned
  BY DEF BInv, TypeInv, HoldInv, CDIInv, StatusInv, Earned, ReadyIsEarned
<1> QED BY <1>1, BringUpInvariant, PTL

-----------------------------------------------------------------------------
(* The attestation *)

Ready(n) == [state |-> "ready", gpus |-> n]

\* tinfoil-boot runs behind the bring-up; past the status it has a status that
\* agrees with its configuration, and each place has the evidence it needs.
AttInv ==
  /\ cfg \in [gpus : 0..HopperGPUs, dummy : BOOLEAN]
  /\ att \in {"config", "validate", "gpu", "switch", "open", "close", "done"}
  /\ att # "config" => nv = "booting"
  /\ att # "done" => stage = "pending"
  /\ att \notin {"close", "done"} => ~accepting
  /\ att \in {"gpu", "switch", "open", "close"} => ~cfg.dummy /\ cfg.gpus > 0 /\ status = Ready(cfg.gpus)
  /\ att \in {"switch", "open"} => Len(evidence.gpus) = cfg.gpus
  /\ att = "switch" =>
       /\ RequiresNVSwitchEvidence(archFamily, cfg.gpus) = "yes"
       /\ evidence = [gpus |-> evidence.gpus, switches |-> <<>>]
       /\ evidence.gpus \in [1..cfg.gpus -> GPUReport]
  /\ att = "open" /\ pci.arch = "HOPPER" /\ cfg.gpus > 1 => FullMesh

IInv == AttInv /\ AcceptingIsAttested

\* Evidence that passed validateTopology is of one full mesh: as many distinct
\* switches as a GPU sees, all among those it sees, are all that it sees.
LEMMA MeshIsFull ==
  ASSUME NEW gr \in [1..HopperGPUs -> GPUReport], NEW sr \in [1..HopperSwitches -> SwitchReport],
         cfg.gpus = HopperGPUs, HopperGPUs > 0, validateTopology(gr, sr)
  PROVE  \E S \in SUBSET SwitchPDIs, G \in SUBSET GPUPDIs :
           /\ Cardinality(S) = HopperSwitches /\ Cardinality(G) = HopperGPUs
           /\ S = {sr[i].pdi : i \in DOMAIN sr}
           /\ \A i \in DOMAIN sr : sr[i].gpus = G
           /\ \A i \in DOMAIN gr : gr[i] = S
<1> USE FabricAssumption
<1> DEFINE S == gr[1]
           G == sr[1].gpus
           f == [i \in 1..HopperSwitches |-> sr[i].pdi]
<1>1. 1 \in 1..HopperGPUs /\ 1 \in 1..HopperSwitches  OBVIOUS
<1>2. S \in SUBSET SwitchPDIs  BY <1>1 DEF GPUReport
<1>3. G \in SUBSET GPUPDIs  BY <1>1 DEF SwitchReport
<1>4. Cardinality(S) = HopperSwitches /\ \A i \in DOMAIN gr : gr[i] = S
  BY <1>1 DEF validateTopology
<1>5. Cardinality(G) = HopperGPUs /\ \A i \in DOMAIN sr : sr[i].gpus = G
  BY <1>1 DEF validateTopology
<1>6. f \in Injection(1..HopperSwitches, S)
  <2>1. \A i \in 1..HopperSwitches : sr[i].pdi \in S  BY DEF validateTopology
  <2>2. ASSUME NEW i \in 1..HopperSwitches, NEW j \in 1..HopperSwitches, sr[i].pdi = sr[j].pdi
        PROVE  i = j
    <3>1. ~(i < j)  BY <2>2 DEF validateTopology
    <3>2. ~(j < i)  BY <2>2 DEF validateTopology
    <3> QED BY <3>1, <3>2
  <2> QED BY <2>1, <2>2 DEF Injection, IsInjective
<1>7. f \in Surjection(1..HopperSwitches, S)
  <2>1. IsFiniteSet(S)  BY <1>2, FS_Subset
  <2>2. Cardinality(1..HopperSwitches) = HopperSwitches  BY FS_Interval
  <2> QED BY <1>4, <1>6, <2>1, <2>2, FS_Injection
<1>8. S = {sr[i].pdi : i \in DOMAIN sr}
  <2>1. \A x \in S : \E i \in 1..HopperSwitches : sr[i].pdi = x  BY <1>7 DEF Surjection
  <2>2. \A i \in 1..HopperSwitches : sr[i].pdi \in S  BY DEF validateTopology
  <2>3. DOMAIN sr = 1..HopperSwitches  OBVIOUS
  <2> HIDE DEF S, f
  <2> QED BY <2>1, <2>2, <2>3, Zenon
<1> HIDE DEF S, G
<1> QED BY <1>2, <1>3, <1>4, <1>5, <1>8

\* Once tinfoil-boot runs, the bring-up is over and its status stays.
LEMMA StatusStays ==
  ASSUME Environment \/ BootstrapStep
  PROVE  pci' = pci /\ (nv = "booting" => nv' = "booting" /\ status' = status)
<1>1. CASE Environment
  BY <1>1 DEF Environment, BindGPU, PublishCaps, LoseGPU, DaemonUp, DaemonDies, DaemonRestart,
              Daemon, hardware
<1>2. CASE BootstrapStep
  <2>1. CASE Detect \/ HoldGPUEnableReferences \/ EnableGPURuntimePowerManagement
    BY <2>1 DEF Detect, HoldGPUEnableReferences, EnableGPURuntimePowerManagement, Go, Only, hardware
  <2>2. CASE \/ loadInventory("core", "core-nodes") \/ loadInventory("uvm", "uvm-nodes")
             \/ loadInventory("modeset", "modeset-nodes")
    BY <2>2 DEF loadInventory, Go, Only, hardware
  <2>3. CASE \/ waitForNVIDIADeviceNodes("core-nodes", Start.persistenced, FALSE)
             \/ waitForNVIDIADeviceNodes("uvm-nodes", "modeset", TRUE)
             \/ waitForNVIDIADeviceNodes("modeset-nodes", "fabric-mode", TRUE)
    BY <2>3 DEF waitForNVIDIADeviceNodes, hardware
  <2>4. CASE \E d \in Daemons : PrepareRuntime(d)
    BY <2>4 DEF PrepareRuntime, Daemon, Daemons, Go, Start, hardware
  <2>5. CASE waitForService("persistenced", "uvm") \/ waitForService("fabric", "nvml")
    BY <2>5 DEF waitForService, Go, Only, Wait, hardware
  <2>6. CASE DetectFabricMode \/ WaitForNVML
    BY <2>6 DEF DetectFabricMode, WaitForNVML, Go, Only, hardware
  <2>7. CASE CreateCDITemporary \/ GenerateCDI \/ CDIFailed \/ PublishCDI
    BY <2>7 DEF CreateCDITemporary, GenerateCDI, CDIFailed, PublishCDI, Go, Only, hardware
  <2>8. CASE StepFails \/ lockKernelModules
    BY <2>8 DEF StepFails, lockKernelModules, Fallible, Range, Start, Wait, Only, hardware
  <2>9. CASE \/ WriteStatus("no-gpu", [state |-> "no-gpu", gpus |-> 0], "lock")
             \/ WriteStatus("failed", [state |-> "failed", gpus |-> 0], "lock")
             \/ WriteStatus("ready", [state |-> "ready", gpus |-> gpuCount], "lock")
    BY <2>9 DEF WriteStatus, hardware
  <2> QED
    BY <1>2, <2>1, <2>2, <2>3, <2>4, <2>5, <2>6, <2>7, <2>8, <2>9, Zenon DEF BootstrapStep
<1> QED BY <1>1, <1>2

\* The bring-up and the machine beside it: a boot that has begun does not see them.
LEMMA MachineKeeps ==
  ASSUME IInv, Environment \/ BootstrapStep, UNCHANGED attVars
  PROVE  IInv'
<1>1. pci' = pci /\ (att # "config" => nv' = "booting" /\ status' = status)
  BY StatusStays DEF IInv, AttInv
<1>2. FullMesh' <=> FullMesh  BY DEF attVars, FullMesh
<1>3. RequiresNVSwitchEvidence(archFamily, cfg.gpus)' = RequiresNVSwitchEvidence(archFamily, cfg.gpus)
  BY <1>1 DEF RequiresNVSwitchEvidence, archFamily, attVars
<1>4. AttInv'  BY <1>1, <1>2, <1>3 DEF IInv, AttInv, attVars
<1>5. AcceptingIsAttested'
  <2>1. CASE att = "config"  BY <2>1 DEF IInv, AttInv, AcceptingIsAttested, attVars
  <2>2. CASE att # "config"
    BY <1>1, <1>2, <2>2 DEF IInv, AcceptingIsAttested, attVars
  <2> QED BY <2>1, <2>2
<1> QED BY <1>4, <1>5 DEF IInv

\* The configuration is read before anything is decided.
LEMMA ConfigKeeps == ASSUME IInv, loadAndVerifyConfig PROVE IInv'
<1> USE FabricAssumption
    DEF IInv, AttInv, AcceptingIsAttested, loadAndVerifyConfig, To, Stay, Unset, nvVars, hardware
<1>1. AttInv'  OBVIOUS
<1>2. AcceptingIsAttested'  OBVIOUS
<1> QED BY <1>1, <1>2

\* The status decides: without one that agrees nothing is opened.
LEMMA ValidateKeeps == ASSUME BInv, IInv, attestDevices PROVE IInv'
<1> USE FabricAssumption
    DEF IInv, AttInv, attestDevices, To, Stay, Unset, nvVars, hardware, Ready
<1>1. ValidateBootstrapStatus /\ cfg.gpus > 0 => status = Ready(cfg.gpus)
  BY DEF ValidateBootstrapStatus, BInv, TypeInv
<1>2. /\ att = "validate" /\ ~accepting /\ nv = "booting" /\ stage = "pending"
      /\ UNCHANGED <<cfg, status, nv>>
  OBVIOUS
<1>3. CASE att' = "done" /\ ~accepting'
  BY <1>2, <1>3 DEF AcceptingIsAttested
<1>4. CASE /\ ValidateBootstrapStatus /\ cfg.gpus > 0 /\ cfg.dummy
           /\ att' = "done" /\ stage' = "skipped"
  BY <1>1, <1>2, <1>4 DEF AcceptingIsAttested
<1>5. CASE /\ ValidateBootstrapStatus /\ cfg.gpus > 0 /\ ~cfg.dummy
           /\ att' = "gpu" /\ stage' = "pending" /\ ~accepting'
  BY <1>1, <1>2, <1>5 DEF AcceptingIsAttested
<1>6. CASE \/ ~ValidateBootstrapStatus /\ To("validate", "done", None, "failed") /\ Unset
           \/ cfg.gpus = 0 /\ To("validate", "done", None, "skipped") /\ Unset
  BY <1>2, <1>3, <1>6
<1>7. CASE /\ ValidateBootstrapStatus /\ cfg.gpus > 0 /\ cfg.dummy
           /\ To("validate", "done", None, "skipped")
  BY <1>4, <1>7
<1>8. CASE /\ ValidateBootstrapStatus /\ cfg.gpus > 0 /\ ~cfg.dummy
           /\ To("validate", "gpu", None, "pending") /\ Unset
  BY <1>2, <1>5, <1>8
<1> HIDE DEF IInv, To
<1> QED BY <1>6, <1>7, <1>8, Zenon

\* One report of each GPU that the configuration asks for.
LEMMA GPUKeeps == ASSUME IInv, collectGPUEvidence PROVE IInv'
<1> USE FabricAssumption DEF IInv, AttInv, To, Stay, Unset, nvVars, hardware
<1>1. PICK gr \in [1..cfg.gpus -> GPUReport] :
        To("gpu", IF RequiresNVSwitchEvidence(archFamily, cfg.gpus) = "yes" THEN "switch" ELSE "open",
           [None EXCEPT !.gpus = gr], "pending")
  BY DEF collectGPUEvidence, collectEvidence
<1>2. evidence' = [gpus |-> gr, switches |-> <<>>] /\ Len(evidence'.gpus) = cfg.gpus
  BY <1>1 DEF None
<1>3. RequiresNVSwitchEvidence(archFamily, cfg.gpus) # "error"  BY DEF collectGPUEvidence
<1>4. pci.arch = "HOPPER" /\ cfg.gpus > 1 => RequiresNVSwitchEvidence(archFamily, cfg.gpus) = "yes"
  BY <1>3 DEF RequiresNVSwitchEvidence, archFamily
<1>5. UNCHANGED <<cfg, pci, status, nv, accepting>> /\ att = "gpu" /\ stage' = "pending"
  BY <1>1 DEF collectGPUEvidence
<1>6. RequiresNVSwitchEvidence(archFamily, cfg.gpus)' = RequiresNVSwitchEvidence(archFamily, cfg.gpus)
  BY <1>5 DEF RequiresNVSwitchEvidence, archFamily
<1>7. AttInv'
  <2>1. att' = IF RequiresNVSwitchEvidence(archFamily, cfg.gpus) = "yes" THEN "switch" ELSE "open"
    BY <1>1
  <2>2. evidence'.gpus = gr /\ evidence' = [gpus |-> evidence'.gpus, switches |-> <<>>]  BY <1>2
  <2>3. CASE att' = "switch"  BY <1>2, <1>5, <1>6, <2>1, <2>2, <2>3
  <2>4. CASE att' = "open"  BY <1>2, <1>4, <1>5, <2>1, <2>4
  <2> QED BY <2>1, <2>3, <2>4
<1>8. AcceptingIsAttested'  BY <1>5 DEF AcceptingIsAttested
<1> QED BY <1>7, <1>8

\* The switches' reports join only if the topology is a full mesh.
LEMMA SwitchKeeps == ASSUME IInv, collectSwitchEvidence PROVE IInv'
<1> USE FabricAssumption DEF IInv, AttInv, To, Stay, Unset, nvVars, hardware
<1>0. PICK n \in {HopperSwitches - 1, HopperSwitches} : \E sr \in [1..n -> SwitchReport] :
        /\ validateTopology(evidence.gpus, sr)
        /\ To("switch", "open", [evidence EXCEPT !.switches = sr], "pending")
  BY DEF collectSwitchEvidence, collectEvidence
<1>1. PICK sr \in [1..n -> SwitchReport] :
        /\ validateTopology(evidence.gpus, sr)
        /\ To("switch", "open", [evidence EXCEPT !.switches = sr], "pending")
  BY <1>0
<1>2. att = "switch" /\ cfg.gpus = HopperGPUs /\ cfg.gpus > 0
  BY <1>1 DEF RequiresNVSwitchEvidence
<1>3. n = HopperSwitches  BY <1>1 DEF validateTopology
<1>4. evidence' = [gpus |-> evidence.gpus, switches |-> sr]  BY <1>1, <1>2
<1>5. FullMesh'
  <2>1. evidence.gpus \in [1..HopperGPUs -> GPUReport] /\ sr \in [1..HopperSwitches -> SwitchReport]
    BY <1>1, <1>2, <1>3
  <2>2. HopperGPUs > 0 /\ validateTopology(evidence.gpus, sr)  BY <1>1, <1>2
  <2>3. evidence'.gpus = evidence.gpus /\ evidence'.switches = sr  BY <1>4
  <2> HIDE DEF IInv, AttInv
  <2> QED BY <1>2, <2>1, <2>2, <2>3, MeshIsFull DEF FullMesh
<1>6. UNCHANGED <<cfg, pci, status, nv, accepting>> /\ stage' = "pending" /\ att' = "open"
  BY <1>1 DEF collectSwitchEvidence
<1>7. AttInv'  BY <1>2, <1>4, <1>5, <1>6
<1>8. AcceptingIsAttested'  BY <1>2, <1>6 DEF AcceptingIsAttested
<1> QED BY <1>7, <1>8

\* The GPUs are opened from the last place only; a failure there goes by the
\* closing, and one before it finds them closed.
LEMMA OpenKeeps == ASSUME IInv, setReady \/ verifyFails PROVE IInv'
<1> USE FabricAssumption DEF IInv, AttInv, To, Stay, Unset, nvVars, hardware, Ready
<1>1. /\ UNCHANGED <<cfg, pci, status, nv, evidence, unclosed>> /\ ~accepting
      /\ att \in {"gpu", "switch", "open"}
  BY DEF setReady, verifyFails
<1>2. FullMesh' <=> FullMesh  BY <1>1 DEF FullMesh
<1>3. CASE setReady
  BY <1>1, <1>2, <1>3 DEF setReady, setGPUReadyState, AcceptingIsAttested
<1>4. CASE verifyFails
  <2>1. att' = "close" /\ stage' = "pending"  BY <1>4 DEF verifyFails
  <2>2. accepting' => att = "open"
    <3>1. att = "open" \/ UNCHANGED accepting  BY <1>4 DEF verifyFails
    <3> QED BY ONLY <1>1, <3>1
  <2> QED BY <1>1, <1>2, <2>1, <2>2 DEF AcceptingIsAttested
<1> QED BY <1>3, <1>4

\* The deferred call leaves GPUs open only with an error of its own.
LEMMA CloseKeeps == ASSUME IInv, closeGPUs PROVE IInv'
<1> USE FabricAssumption DEF IInv, AttInv, To, Stay, nvVars, hardware, Ready
<1>1. /\ UNCHANGED <<cfg, pci, status, nv, evidence>> /\ att = "close" /\ att' = "done"
      /\ stage' = "failed"
  BY DEF closeGPUs
<1>2. FullMesh' <=> FullMesh  BY <1>1 DEF FullMesh
<1>3. (accepting' => accepting) /\ (~accepting' \/ unclosed')
  <2>1. \/ accepting' = FALSE
        \/ accepting' \in {FALSE, accepting} /\ unclosed' = TRUE
    BY Zenon DEF closeGPUs, setGPUReadyState, setGPUReadyStateFails
  <2>2. CASE accepting' = FALSE  BY ONLY <2>2
  <2>3. CASE accepting' = accepting /\ unclosed' = TRUE  BY ONLY <2>3
  <2> QED BY ONLY <2>1, <2>2, <2>3
<1> QED BY <1>1, <1>2, <1>3 DEF AcceptingIsAttested

LEMMA AttStep == BInv /\ IInv /\ [Next]_vars => IInv'
<1> SUFFICES ASSUME BInv, IInv, [Next]_vars PROVE IInv'  OBVIOUS
<1>1. CASE (Environment \/ BootstrapStep) /\ UNCHANGED attVars  BY <1>1, MachineKeeps
<1>2. CASE loadAndVerifyConfig \/ attestDevices  BY <1>2, ConfigKeeps, ValidateKeeps
<1>3. CASE collectGPUEvidence \/ collectSwitchEvidence  BY <1>3, GPUKeeps, SwitchKeeps
<1>4. CASE setReady \/ verifyFails \/ closeGPUs  BY <1>4, OpenKeeps, CloseKeeps
<1>5. CASE UNCHANGED vars
  <2>1. FullMesh' <=> FullMesh  BY <1>5 DEF vars, attVars, FullMesh
  <2> QED
    BY <1>5, <2>1 DEF vars, nvVars, attVars, hardware, IInv, AttInv, AcceptingIsAttested,
                      RequiresNVSwitchEvidence, archFamily
<1> QED BY <1>1, <1>2, <1>3, <1>4, <1>5 DEF Next

\* GPUs accept work only behind a status and a configuration that agree, the
\* evidence of every GPU and, on a switched Hopper board, one full mesh, for
\* boards and identities of any number; and a stage that failed leaves them closed
\* unless the closing failed too (boot/gpuattest.go verifyGPUAttestation).
THEOREM AcceptingAttested == Spec => []AcceptingIsAttested
<1>1. AttInit => IInv
  BY FabricAssumption DEF AttInit, Init, IInv, AttInv, AcceptingIsAttested
<1>2. IInv => AcceptingIsAttested  BY DEF IInv
<1> QED BY <1>1, <1>2, AttStep, BringUpInvariant, PTL DEF Spec

=============================================================================
