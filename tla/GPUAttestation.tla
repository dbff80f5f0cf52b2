--------------------------- MODULE GPUAttestation ---------------------------
(***************************************************************************)
(* tinfoil-boot's gpu-attestation stage (boot/main.go attestDevices,       *)
(* boot/gpuattest.go, boot/topology.go) after PID 1's NVIDIA bring-up: the *)
(* status file is held against the measured configuration, every GPU is    *)
(* attested, the fabric of an eight-GPU Hopper is cross-checked, and only  *)
(* then are the GPUs told to accept work.                                  *)
(***************************************************************************)
EXTENDS NvidiaBootstrap

CONSTANTS
  HopperGPUs, HopperSwitches,   \* the shape with NVSwitches: 8 and 4 in the code
  SwitchPDIs, GPUPDIs           \* identities that attestation reports may name

ASSUME FabricAssumption ==
  /\ HopperGPUs \in Nat /\ HopperSwitches \in Nat \ {0}
  /\ IsFiniteSet(SwitchPDIs) /\ IsFiniteSet(GPUPDIs)

VARIABLES
  cfg,        \* measured configuration: GPU count, dummy attestation
  att,        \* position in attestDevices
  evidence,   \* reports of the GPUs and of the switches
  accepting,  \* the GPUs accept client requests
  unclosed,   \* the closing of the GPUs after a failure reported an error
  stage       \* the stage's record

attVars == <<cfg, att, evidence, accepting, unclosed, stage>>
vars    == <<nvVars, attVars>>

\* A GPU reports the switches it sees; a switch itself and the GPUs it sees.
GPUReport    == SUBSET SwitchPDIs
SwitchReport == [pdi : SwitchPDIs, gpus : SUBSET GPUPDIs]
None == [gpus |-> <<>>, switches |-> <<>>]

AttInit ==
  /\ Init
  /\ cfg = [gpus |-> 0, dummy |-> FALSE]
  /\ att = "config" /\ evidence = None /\ accepting = FALSE
  /\ unclosed = FALSE /\ stage = "pending"

-------------------------------------------------------------------------------

\* A file that is missing or malformed is an error.
ReadBootstrapStatus == status # NoFile

ValidateBootstrapStatus ==
  /\ ReadBootstrapStatus
  /\ \/ status.state = "no-gpu" /\ cfg.gpus = 0
     \/ status.state = "ready" /\ cfg.gpus > 0 /\ status.gpus = cfg.gpus

\* The family of the first GPU's product; unknown products have none.
archFamily == IF pci.arch \in {"HOPPER", "BLACKWELL"} THEN pci.arch ELSE ""

\* Shapes: "yes" and "no" for evidence of the switches, "error" for a shape
\* the fleet does not have.
RequiresNVSwitchEvidence(arch, n) ==
  CASE arch = "HOPPER" /\ n = HopperGPUs -> "yes"
    [] arch = "HOPPER" /\ n = 1 -> "no"
    [] arch = "BLACKWELL" -> "no"
    [] arch \notin {"HOPPER", "BLACKWELL"} /\ n <= 1 -> "no"
    [] OTHER -> "error"

\* Mutant of validateTopology: a switch may report twice.
validateTopologyRepeated(gr, sr) ==
  /\ Len(gr) = cfg.gpus /\ Len(sr) = HopperSwitches
  /\ \A i \in DOMAIN gr : Cardinality(gr[i]) = HopperSwitches /\ gr[i] = gr[1]
  /\ \A i \in DOMAIN sr :
       sr[i].pdi \in gr[1] /\ Cardinality(sr[i].gpus) = cfg.gpus /\ sr[i].gpus = sr[1].gpus

\* Every GPU sees the same switches, as many as there should be; every switch
\* is one of them, reports once, and sees the same GPUs, as many as expected.
validateTopology(gr, sr) ==
  /\ Len(gr) = cfg.gpus /\ Len(sr) = HopperSwitches
  /\ \A i \in DOMAIN gr : Cardinality(gr[i]) = HopperSwitches /\ gr[i] = gr[1]
  /\ \A i \in DOMAIN sr :
       /\ sr[i].pdi \in gr[1] /\ \A j \in 1..(i - 1) : sr[j].pdi # sr[i].pdi
       /\ Cardinality(sr[i].gpus) = cfg.gpus /\ sr[i].gpus = sr[1].gpus

-------------------------------------------------------------------------------

\* nvattest verifies, and collects one report of each of n devices.
collectEvidence(n, reports) == [1..n -> reports]

\* NVML sets the state.  An error may come before that, from nvml.Init or the call
\* itself, or after it, from one GPU behind another.
setGPUReadyState(acc) == accepting' = acc
setGPUReadyStateFails(acc) == accepting' \in {acc, accepting}

Stay == UNCHANGED <<nvVars, cfg>>
To(from, next, ev, st) ==
  /\ nv = "booting" /\ att = from /\ att' = next
  /\ evidence' = ev /\ stage' = st /\ Stay

Unset == UNCHANGED <<accepting, unclosed>>

\* tinfoil-boot reads the measured configuration, or ends before this stage.
loadAndVerifyConfig ==
  \/ /\ nv = "booting" /\ att = "config" /\ att' = "validate"
     /\ cfg' \in [gpus : 0..HopperGPUs, dummy : BOOLEAN]
     /\ UNCHANGED <<nvVars, evidence, stage>> /\ Unset
  \/ To("config", "done", None, "pending") /\ Unset

\* The status decides first; without GPUs the stage is skipped, and dummy
\* attestation opens the GPUs unattested, or fails to with a warning.
attestDevices ==
  \/ ~ValidateBootstrapStatus /\ To("validate", "done", None, "failed") /\ Unset
  \/ /\ ValidateBootstrapStatus
     /\ \/ cfg.gpus = 0 /\ To("validate", "done", None, "skipped") /\ Unset
        \/ /\ cfg.gpus > 0 /\ cfg.dummy
           /\ setGPUReadyState(TRUE) \/ setGPUReadyStateFails(TRUE)
           /\ To("validate", "done", None, "skipped") /\ UNCHANGED unclosed
        \/ cfg.gpus > 0 /\ ~cfg.dummy /\ To("validate", "gpu", None, "pending") /\ Unset

\* nvattest for the GPUs and the evidence of as many as are bound.
collectGPUEvidence ==
  /\ att = "gpu" /\ Cardinality(DOMAIN drv) = cfg.gpus
  /\ RequiresNVSwitchEvidence(archFamily, cfg.gpus) # "error"
  /\ \E gr \in collectEvidence(Cardinality(DOMAIN drv), GPUReport) :
       To("gpu", IF RequiresNVSwitchEvidence(archFamily, cfg.gpus) = "yes" THEN "switch" ELSE "open",
          [None EXCEPT !.gpus = gr], "pending")
  /\ Unset

\* nvattest for the switches, their evidence and the topology.
collectSwitchEvidence ==
  /\ att = "switch" /\ Unset
  /\ \E n \in {HopperSwitches - 1, HopperSwitches} : \E sr \in collectEvidence(n, SwitchReport) :
     /\ validateTopology(evidence.gpus, sr)
     /\ To("switch", "open", [evidence EXCEPT !.switches = sr], "pending")

setReady ==
  setGPUReadyState(TRUE) /\ To("open", "done", evidence, "ok") /\ UNCHANGED unclosed

\* Any step fails, the opening perhaps after its effect.
verifyFails ==
  \/ \E at \in {"gpu", "switch"} : To(at, "close", evidence, "pending") /\ Unset
  \/ /\ setGPUReadyStateFails(TRUE) /\ UNCHANGED unclosed
     /\ To("open", "close", evidence, "pending")

\* Mutant of closeGPUs: a failure leaves the GPUs as they are.
closeGPUsDropped ==
  To("close", "done", evidence, "failed") /\ Unset

\* The deferred call after a failure: it closes the GPUs, or warns of an error.
closeGPUs ==
  /\ To("close", "done", evidence, "failed")
  /\ \/ setGPUReadyState(FALSE) /\ UNCHANGED unclosed
     \/ setGPUReadyStateFails(FALSE) /\ unclosed' = TRUE

Next ==
  \/ Environment /\ UNCHANGED attVars
  \/ BootstrapStep /\ UNCHANGED attVars
  \/ loadAndVerifyConfig \/ attestDevices
  \/ collectGPUEvidence \/ collectSwitchEvidence \/ setReady \/ verifyFails \/ closeGPUs

Spec == AttInit /\ [][Next]_vars

-------------------------------------------------------------------------------
(* Properties *)

\* The node of a device under its number, with the /dev/char link back to it.
Linked(d) ==
  /\ d \in DOMAIN nodes /\ nodes[d] = Number(d)
  /\ Number(d) \in DOMAIN links /\ links[Number(d)] = d

\* The devices that the ready status stands for: those of every machine, the
\* control devices of an interconnect, and those of as many minors as there are
\* GPUs.  Nodes of the switches themselves are not among them: they are made for
\* the switches that the driver lists.
Served ==
  /\ \A d \in {<<"ctl", CtlMinor>>, <<"modeset", ModesetMinor>>, <<"uvm", 0>>, <<"uvm-tools", 1>>}
              \cup {<<"cap", c>> : c \in allowedCapabilityFiles} : Linked(d)
  /\ pci.switch => \A d \in {<<"nvswitchctl", CtlMinor>>, <<"nvlink", 0>>} : Linked(d)
  /\ \E M \in SUBSET Minors : Cardinality(M) = gpuCount /\ \A m \in M : Linked(<<"nvidia", m>>)

\* A ready status names the GPUs on the bus and is written only after all of
\* the bring-up: references held before the driver probed, every module
\* loaded, the device nodes and one node per GPU under their numbers and with
\* their /dev/char links, whatever attempts failed halfway and whatever stood
\* in /dev before; both daemons seen up where they are needed; and a whole
\* CDI specification (pid1/main.go runNVIDIABootstrapSteps).
ReadyIsEarned ==
  /\ "core" \in loaded => held = pci.gpus
  /\ cdi.spec \in {"none", "whole"}
  /\ nv \in {"no-gpu", "failed", "ready", "lock", "booting"} => cdi.tmp = "none"
  /\ nv = "booting" => locked
  /\ status.state = "ready" =>
       /\ status.gpus = gpuCount /\ gpuCount > 0 /\ ~pci.nvl5
       /\ loaded = {"core", "uvm", "modeset"}
       /\ Served
       /\ svc["persistenced"].sock /\ (pci.switch => svc["fabric"].sock)
       /\ cdi.spec = "whole"

\* The reference for validateTopology: all switches of the fabric attested
\* themselves, and the fabric is one full mesh.
FullMesh ==
  \E S \in SUBSET SwitchPDIs, G \in SUBSET GPUPDIs :
     /\ Cardinality(S) = HopperSwitches /\ Cardinality(G) = HopperGPUs
     /\ S = {evidence.switches[i].pdi : i \in DOMAIN evidence.switches}
     /\ \A i \in DOMAIN evidence.switches : evidence.switches[i].gpus = G
     /\ \A i \in DOMAIN evidence.gpus : evidence.gpus[i] = S

\* GPUs accept work only if the measured configuration asks for exactly the
\* GPUs that the bring-up made ready, and (but for dummy attestation) each of
\* them was attested and the fabric of the switched shape is a full mesh.  A
\* stage that failed leaves them closed, the opening that failed after its
\* effect included, unless the closing call reported an error as well
\* (boot/gpuattest.go verifyGPUAttestation).
AcceptingIsAttested ==
  /\ accepting =>
       /\ status = [state |-> "ready", gpus |-> cfg.gpus] /\ cfg.gpus > 0
       /\ ~cfg.dummy =>
            /\ Len(evidence.gpus) = cfg.gpus
            /\ pci.arch = "HOPPER" /\ cfg.gpus > 1 => FullMesh
  /\ stage = "failed" => ~accepting \/ unclosed
  /\ stage = "ok" => accepting

=============================================================================
