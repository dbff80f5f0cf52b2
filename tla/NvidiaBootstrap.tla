--------------------------- MODULE NvidiaBootstrap ---------------------------
(***************************************************************************)
(* PID 1's NVIDIA bring-up (pid1/main.go, internal/nvidia): kernel         *)
(* modules, character devices, the two vendor daemons, NVML, the CDI       *)
(* specification and the status file that tinfoil-boot reads later; then   *)
(* the lock on kernel modules.  A failed bring-up does not fail PID 1's    *)
(* boot: it is written down as a status.  The driver binds GPUs while the  *)
(* bring-up waits, daemons come up and die on their own, and a GPU may     *)
(* fall off the bus at any time.                                           *)
(***************************************************************************)
EXTENDS Integers, FiniteSets, Sequences, Functions

CONSTANTS
  GPUs,          \* slots that may hold a GPU
  Minors,        \* minors the driver may report
  CtlMinor, ModesetMinor,
  MaxNVSwitches, \* the most switches the driver may list
  MaxReady,      \* the largest count the status file can name, 8 in the code
  Arches         \* architectures, "HOPPER" among them

ASSUME NvidiaAssumption ==
  /\ IsFiniteSet(GPUs) /\ Minors \subseteq Nat /\ MaxReady \in Nat /\ MaxNVSwitches \in Nat
  /\ CtlMinor \in Nat /\ ModesetMinor \in Nat \ {CtlMinor}

VARIABLES
  pci,      \* the hardware: GPUs, an NVSwitch, NVL5 management, architecture
  drv,      \* the driver: bound GPU -> minor
  caps,     \* capability descriptors the driver has published
  loaded,   \* kernel modules
  locked,   \* modules_disabled
  held,     \* GPUs whose PCI enable reference is held
  nodes,    \* /dev: device name -> number
  links,    \* /dev/char: number -> device name
  svc,      \* vendor daemon -> running, socket (and PID file) on disk, supervised
  cdi,      \* the temporary and the published CDI specification
  status,   \* the bootstrap status file
  nv        \* position of the lifecycle's thread

hardware == <<pci, drv, caps>>
devVars  == <<nodes, links>>
nvVars   == <<hardware, loaded, locked, held, devVars, svc, cdi, status, nv>>

Daemons == {"persistenced", "fabric"}
Start   == [persistenced |-> "start-persistenced", fabric |-> "start-fabric"]
Wait    == [persistenced |-> "wait-persistenced", fabric |-> "wait-fabric"]
NoFile  == [state |-> "none", gpus |-> 0]

Init ==
  /\ pci \in [gpus : SUBSET GPUs, switch : BOOLEAN, nvl5 : BOOLEAN, arch : Arches]
  /\ drv = <<>> /\ caps = {} /\ loaded = {} /\ locked = FALSE /\ held = {}
     \* a node under a number that will be another device's
  /\ nodes \in {<<>>, [n \in {<<"nvidia", 0>>} |-> <<"uvm", 0>>]}
  /\ links = [k \in {nodes[n] : n \in DOMAIN nodes} |-> <<"nvidia", 0>>]
  /\ svc = [d \in Daemons |-> [alive |-> FALSE, sock |-> FALSE, kept |-> FALSE]]
  /\ cdi = [tmp |-> "none", spec |-> "none"]
  /\ status = NoFile /\ nv = "detect"

\* What sysfs lists: functions of the vendor by class, and the vital product
\* data of an NVL5 management function.
nvidiaPCIDevices   == pci.gpus
hasNVSwitch        == pci.switch
hasSWManagementVPD == pci.nvl5
gpuCount           == Cardinality(nvidiaPCIDevices)

-------------------------------------------------------------------------------
(* The driver, the daemons and the hardware *)

\* The driver binds a GPU and lists it under /proc/driver/nvidia/gpus.
BindGPU ==
  /\ "core" \in loaded
  /\ \E g \in pci.gpus \ DOMAIN drv, m \in Minors \ Range(drv) :
       drv' = [h \in DOMAIN drv \cup {g} |-> IF h = g THEN m ELSE drv[h]]
  /\ UNCHANGED <<pci, caps, loaded, locked, held, devVars, svc, cdi, status, nv>>

allowedCapabilityFiles == {1, 2}

PublishCaps ==
  /\ "core" \in loaded /\ \E c \in allowedCapabilityFiles \ caps : caps' = caps \cup {c}
  /\ UNCHANGED <<pci, drv, loaded, locked, held, devVars, svc, cdi, status, nv>>

\* A GPU falls off the bus; its PCI function stays listed.
LoseGPU ==
  /\ \E g \in DOMAIN drv : drv' = [h \in DOMAIN drv \ {g} |-> drv[h]]
  /\ UNCHANGED <<pci, caps, loaded, locked, held, devVars, svc, cdi, status, nv>>

Daemon(d, alive, sock) ==
  /\ svc' = [svc EXCEPT ![d].alive = alive, ![d].sock = sock]
  /\ UNCHANGED <<hardware, loaded, locked, held, devVars, cdi, status>>

\* The daemon writes its PID file and socket; it dies and leaves both behind;
\* the supervisor starts it again once its first start has succeeded.
DaemonUp(d)      == svc[d].alive /\ ~svc[d].sock /\ Daemon(d, TRUE, TRUE) /\ UNCHANGED nv
DaemonDies(d)    == svc[d].alive /\ Daemon(d, FALSE, svc[d].sock) /\ UNCHANGED nv
DaemonRestart(d) ==
  svc[d].kept /\ ~svc[d].alive /\ Daemon(d, TRUE, svc[d].sock) /\ UNCHANGED nv

Environment ==
  \/ BindGPU \/ PublishCaps \/ LoseGPU
  \/ \E d \in Daemons : DaemonUp(d) \/ DaemonDies(d) \/ DaemonRestart(d)

-------------------------------------------------------------------------------
(* Character devices (internal/nvidia/devices.go) *)

\* A device is named by its kind and minor, and numbered by the major of its kind.
Major(kind) ==
  CASE kind \in {"ctl", "modeset", "nvidia"} -> "frontend"
    [] kind \in {"uvm", "uvm-tools"}         -> "uvm"
    [] kind = "cap"                          -> "caps"
    [] kind \in {"nvswitchctl", "nvswitch"}  -> "nvswitch"
    [] kind = "nvlink"                       -> "nvlink"
Number(d) == <<Major(d[1]), d[2]>>

\* The majors that the loaded modules have registered.
charDeviceMajors ==
  (IF "core" \in loaded
   THEN {"frontend", "caps"} \cup (IF hasNVSwitch THEN {"nvswitch", "nvlink"} ELSE {}) ELSE {})
  \cup (IF "uvm" \in loaded THEN {"uvm"} ELSE {})

\* What the driver lists: minors of bound GPUs, and capabilities.
nvidiaDeviceMinors      == Range(drv)
nvidiaCapabilityDevices == {<<"cap", c>> : c \in caps}

\* The driver lists the switches it has bound, without their minors: n of them are
\* numbered from zero.  The list may be short or empty; nothing compares it with the
\* switches on the bus.
nvidiaNVSwitchMinors(n) == 0..(n - 1)

\* The devices of the interconnect, by their majors.
nvidiaInterconnectDevices(n) ==
  IF {"nvswitch", "nvlink"} \subseteq charDeviceMajors
  THEN {<<"nvswitchctl", CtlMinor>>, <<"nvlink", 0>>}
       \cup {<<"nvswitch", m>> : m \in nvidiaNVSwitchMinors(n)}
  ELSE {}

\* The number of distinct minors must be the number of GPUs on the bus; UVM
\* and the capability descriptors must be there when they are required.
Discoverable(uvm) ==
  /\ gpuCount >= 1 /\ "frontend" \in charDeviceMajors
  /\ Cardinality(nvidiaDeviceMinors) = gpuCount
  /\ uvm => allowedCapabilityFiles \subseteq caps /\ "uvm" \in charDeviceMajors
  /\ caps # {} => "caps" \in charDeviceMajors
  /\ hasNVSwitch => {"nvswitch", "nvlink"} \subseteq charDeviceMajors

discoverDeviceNodes(n) ==
  {<<"ctl", CtlMinor>>, <<"modeset", ModesetMinor>>}
  \cup {<<"nvidia", m>> : m \in nvidiaDeviceMinors}
  \cup (IF "uvm" \in charDeviceMajors THEN {<<"uvm", 0>>, <<"uvm-tools", 1>>} ELSE {})
  \cup nvidiaCapabilityDevices \cup nvidiaInterconnectDevices(n)

\* The order in which they are made: by kind, then by minor.
Kinds == <<"ctl", "modeset", "nvidia", "uvm", "uvm-tools", "cap", "nvswitchctl", "nvswitch", "nvlink">>
Rank(d)       == CHOOSE i \in DOMAIN Kinds : Kinds[i] = d[1]
Earlier(d, e) == Rank(d) < Rank(e) \/ (Rank(d) = Rank(e) /\ d[2] < e[2])

\* No number may stand for two devices.
validateCharDevices(ds) == \A d, e \in ds : Number(d) = Number(e) => d = e

\* /dev and /dev/char once the devices ds are made: a node that exists under
\* another number is replaced, and so is a link that leads to another node;
\* what is right already is kept.
ensureCharNode(ds) ==
  [d \in DOMAIN nodes \cup ds |-> IF d \in ds THEN Number(d) ELSE nodes[d]]

\* Mutant of ensureDevCharSymlink: a link that exists is kept, wherever it leads.
ensureDevCharSymlinkKept(ds) ==
  LET numbers == {Number(d) : d \in ds} IN
  [k \in DOMAIN links \cup numbers |->
     IF k \in DOMAIN links THEN links[k] ELSE CHOOSE d \in ds : Number(d) = k]

ensureDevCharSymlink(ds) ==
  LET numbers == {Number(d) : d \in ds} IN
  [k \in DOMAIN links \cup numbers |->
     IF k \in numbers THEN CHOOSE d \in ds : Number(d) = k ELSE links[k]]

\* A wrong entry may be gone before the right one is made.
Halfway(f, x, v) ==
  {f} \cup IF x \in DOMAIN f /\ f[x] # v THEN {Restrict(f, DOMAIN f \ {x})} ELSE {}

\* The device d fails after those before it were made: at its node, or at its
\* link with the node made.
ensureCharDeviceFails(before, d) ==
  \/ /\ nodes' \in Halfway(ensureCharNode(before), d, Number(d))
     /\ links' = ensureDevCharSymlink(before)
  \/ /\ nodes' = ensureCharNode(before \cup {d})
     /\ links' \in Halfway(ensureDevCharSymlink(before), Number(d), d)
                   \cup {ensureDevCharSymlink(before \cup {d})}

\* One attempt, with n switches listed, makes all devices, or stops at the first
\* that fails.
setupDeviceNodes(uvm, whole, n) ==
  LET devices == discoverDeviceNodes(n) IN
  /\ Discoverable(uvm) /\ validateCharDevices(devices)
  /\ IF whole THEN nodes' = ensureCharNode(devices) /\ links' = ensureDevCharSymlink(devices)
     ELSE \E d \in devices : ensureCharDeviceFails({e \in devices : Earlier(e, d)}, d)

\* Tried again until an attempt succeeds or the time is over.
waitForNVIDIADeviceNodes(at, next, uvm) ==
  /\ nv = at
  /\ \E n \in 0..MaxNVSwitches :
       \/ setupDeviceNodes(uvm, TRUE, n) /\ nv' = next
       \/ setupDeviceNodes(uvm, FALSE, n) /\ nv' = at
  /\ UNCHANGED <<hardware, loaded, locked, held, svc, cdi, status>>

-------------------------------------------------------------------------------
(* runNVIDIABootstrap *)

Go(from, to) == nv = from /\ nv' = to
Only(v)      == UNCHANGED <<hardware, locked, devVars, status>> /\ UNCHANGED v

\* Counts that the status file has no text for cannot be written.
encodeBootstrapStatus(s) == s.gpus <= MaxReady

\* A temporary file renamed into place; the directory may fail to sync after.
WriteStatus(from, s, next) ==
  /\ nv = from
  /\ \/ encodeBootstrapStatus(s) /\ status' = s /\ nv' = next
     \/ encodeBootstrapStatus(s) /\ status' \in {s, status} /\ nv' = "down"
     \/ ~encodeBootstrapStatus(s) /\ status' = status /\ nv' = "down"
  /\ UNCHANGED <<hardware, loaded, locked, held, devVars, svc, cdi>>

Detect ==
  /\ nv = "detect"
  /\ nv' = CASE gpuCount > 0 -> "hold"
             [] gpuCount = 0 /\ ~hasNVSwitch -> "no-gpu"
             [] OTHER -> "failed"
  /\ Only(<<loaded, held, svc, cdi>>)

\* The enable references keep the devices enabled across the driver's probe.
HoldGPUEnableReferences ==
  /\ Go("hold", "power") /\ held' = nvidiaPCIDevices /\ Only(<<loaded, svc, cdi>>)

EnableGPURuntimePowerManagement == Go("power", "core") /\ Only(<<loaded, held, svc, cdi>>)

Inventory(name) == {"core"} \cup IF name = "core" THEN {} ELSE {name}

\* A module that is loaded already, or that someone loaded first, is no error;
\* nothing is loaded once the interface is closed.
loadInventory(name, next) ==
  /\ Go(name, next) /\ (locked => Inventory(name) \subseteq loaded)
  /\ loaded' = loaded \cup Inventory(name) /\ Only(<<held, svc, cdi>>)

\* Stale PID and socket files are removed before the first start.
PrepareRuntime(d) ==
  /\ Go(Start[d], Wait[d]) /\ Daemon(d, TRUE, FALSE)

validateLivePID(d)    == svc[d].alive
validateUnixSocket(d) == svc[d].sock

\* nvidia-persistenced must be alive behind its PID file; Fabric Manager runs
\* in the foreground and is judged by its socket alone.
validateServiceReadiness(d) == (d = "persistenced" => validateLivePID(d)) /\ validateUnixSocket(d)

waitForService(d, next) ==
  /\ Go(Wait[d], next) /\ validateServiceReadiness(d)
  /\ svc' = [svc EXCEPT ![d].kept = TRUE] /\ Only(<<loaded, held, cdi>>)

DetectFabricMode ==
  /\ nv = "fabric-mode"
  /\ nv' = CASE hasSWManagementVPD -> "failed"
             [] ~hasSWManagementVPD /\ hasNVSwitch -> Start.fabric
             [] OTHER -> "nvml"
  /\ Only(<<loaded, held, svc, cdi>>)

\* NVML must report exactly the GPUs on the bus.
probeNVML == Cardinality(DOMAIN drv) = gpuCount

WaitForNVML ==
  /\ Go("nvml", "cdi-temp") /\ probeNVML
  /\ Only(<<loaded, held, svc, cdi>>)

CreateCDITemporary ==
  /\ Go("cdi-temp", "cdi-generate") /\ cdi' = [cdi EXCEPT !.tmp = "empty"]
  /\ Only(<<loaded, held, svc>>)

\* nvidia-ctk ends well, or is ended halfway by an error or its time limit.
GenerateCDI ==
  /\ nv = "cdi-generate"
  /\ \E t \in {"empty", "partial", "whole"} :
       /\ cdi' = [cdi EXCEPT !.tmp = t] /\ nv' \in {"cdi-ended"} \cup IF t = "whole" THEN {"publish"} ELSE {}
  /\ Only(<<loaded, held, svc>>)

\* The deferred removal of the temporary file after a failed generation.
CDIFailed ==
  /\ Go("cdi-ended", "failed") /\ cdi' = [cdi EXCEPT !.tmp = "none"]
  /\ Only(<<loaded, held, svc>>)

\* Renamed over the specification; the directory may fail to sync after that.
PublishCDI ==
  /\ nv = "publish" /\ nv' \in {"ready", "failed"}
  /\ cdi' = [tmp |-> "none", spec |-> cdi.tmp]
  /\ Only(<<loaded, held, svc>>)

Fallible == {"detect", "hold", "power", "core", "core-nodes", "uvm", "uvm-nodes", "modeset",
             "modeset-nodes", "fabric-mode", "nvml", "cdi-temp", "publish"}
            \cup Range(Start) \cup Range(Wait)

\* Any step may fail, and every wait ends: its time is limited.  A daemon that
\* did not become ready is stopped and not started again.
StepFails ==
  /\ nv \in Fallible /\ nv' = "failed"
  /\ held' \in (IF nv = "hold" THEN SUBSET pci.gpus ELSE {held})
  /\ svc' = [d \in Daemons |-> [svc[d] EXCEPT !.alive = @ /\ nv # Wait[d]]]
  /\ cdi' = [cdi EXCEPT !.tmp = "none"] /\ Only(loaded)

\* LockKernelModules writes, and reads back; it may fail after the write.
lockKernelModules ==
  /\ nv = "lock"
  /\ \/ locked' = TRUE /\ nv' \in {"booting", "down"}
     \/ locked' = FALSE /\ nv' = "down"
  /\ UNCHANGED <<hardware, devVars, status, loaded, held, svc, cdi>>

BootstrapStep ==
  \/ Detect \/ HoldGPUEnableReferences \/ EnableGPURuntimePowerManagement
  \/ loadInventory("core", "core-nodes")
  \/ waitForNVIDIADeviceNodes("core-nodes", Start.persistenced, FALSE)
  \/ loadInventory("uvm", "uvm-nodes") \/ waitForNVIDIADeviceNodes("uvm-nodes", "modeset", TRUE)
  \/ loadInventory("modeset", "modeset-nodes")
  \/ waitForNVIDIADeviceNodes("modeset-nodes", "fabric-mode", TRUE)
  \/ \E d \in Daemons : PrepareRuntime(d)
  \/ waitForService("persistenced", "uvm") \/ waitForService("fabric", "nvml")
  \/ DetectFabricMode \/ WaitForNVML
  \/ CreateCDITemporary \/ GenerateCDI \/ CDIFailed \/ PublishCDI \/ StepFails
  \/ WriteStatus("no-gpu", [state |-> "no-gpu", gpus |-> 0], "lock")
  \/ WriteStatus("failed", [state |-> "failed", gpus |-> 0], "lock")
  \/ WriteStatus("ready", [state |-> "ready", gpus |-> gpuCount], "lock")
  \/ lockKernelModules

=============================================================================
