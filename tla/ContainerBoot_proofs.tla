------------------------- MODULE ContainerBoot_proofs -------------------------
(***************************************************************************)
(* Proofs about ContainerBoot, for any configurations and any number of    *)
(* boots and egress processes.  The allow set is written by two actors,    *)
(* the boot and the daemon, and the daemon writes what it loaded when it   *)
(* started; so the invariant follows what the boot has installed where it  *)
(* stands, who holds a stopped daemon, and what a running one has loaded.  *)
(***************************************************************************)
EXTENDS ContainerBoot, TLAPS

\* The manager is a record of these fields; what a boot has launched is a function
\* whose domain changes, so the fields are not given sets.
MgrShape ==
  mgr = [pc |-> mgr.pc, cfg |-> mgr.cfg, held |-> mgr.held, frozen |-> mgr.frozen,
         keep |-> mgr.keep, todo |-> mgr.todo, bad |-> mgr.bad]

TypeOK ==
  /\ MgrShape /\ mgr.frozen \in BOOLEAN
  /\ files \in [runtime : Configs \cup {None}, egress : Configs \cup {None}]
  /\ eg \in [pid : Int, st : {"dead", "down", "load", "run"}, stopped : BOOLEAN,
             cfg : Configs \cup {None}, nft : BOOLEAN]
  /\ pids \in Int
  /\ booted \in BOOLEAN /\ missed \in BOOLEAN /\ killed \in BOOLEAN

\* The places of a boot, each list cut off where the step it is about is done.
Filled   == {"kill", "wait", "launch"}
Ruled    == {"populate"} \cup Filled
Allowed  == {"networks", "rules"} \cup Ruled
Written  == {"write-egress"} \cup Allowed
Removed  == {"write-runtime"} \cup Written
Checked  == {"freeze", "remove"} \cup Removed

\* What the boot has installed where it stands is of its own configuration.
InstallInv ==
  /\ mgr.pc \in {"begin"} \cup Checked => mgr.cfg \in Configs
  /\ mgr.pc \in Written => files.runtime = mgr.cfg
  /\ mgr.pc \in Allowed => files.egress = mgr.cfg
  /\ mgr.pc \in Ruled => rules = mgr.cfg
  /\ mgr.pc \in Filled /\ ~missed /\ rules \in Allowlist => allow = rules

\* Only the toolbox is kept, and the new configuration declares it; once the
\* removal is over nothing else is there until the launch, which makes what the
\* configuration declares.
KeepInv ==
  /\ mgr.pc \in Checked => mgr.keep \subseteq {Toolbox} \cap Containers[mgr.cfg]
  /\ mgr.pc \in Removed \ {"launch"} => DOMAIN docker \subseteq mgr.keep
  /\ mgr.pc = "launch" => DOMAIN mgr.todo \subseteq Containers[mgr.cfg]

\* Where a container runs, the files, the rules and the allow set are of the
\* configuration it was created for.
DockerInv ==
  /\ NothingOrphaned
  /\ DOMAIN docker \ {Toolbox} # {} =>
       /\ files.egress = files.runtime /\ rules = files.runtime
       /\ ~missed /\ rules \in Allowlist => allow = rules

\* A group that is stopped is alive and held by the boot under way, or by a
\* manager that was killed.
FrozenInv ==
  eg.stopped =>
    /\ Live \/ eg.nft
    /\ ~killed => /\ mgr.frozen /\ mgr.held.pid = eg.pid
                  /\ mgr.pc \in {"remove", "restore-kill"} \cup (Removed \ {"wait", "launch"})

Quiet == eg.stopped \/ (~Live /\ ~eg.nft)

\* No daemon acts for another configuration than the installed one: none acts
\* at all while the files are replaced, unless a boot was passed by one.
EngineInv ==
  /\ ~booted => eg.st = "down" /\ ~eg.nft /\ ~missed
  /\ ~missed /\ mgr.pc \in {"remove", "write-runtime", "write-egress"} => Quiet
  /\ ~missed /\ ~eg.stopped /\ (eg.st = "run" \/ eg.nft) => eg.cfg = files.egress

IInv == TypeOK /\ InstallInv /\ KeepInv /\ DockerInv /\ FrozenInv /\ EngineInv

-------------------------------------------------------------------------------
(* What the updates of the manager leave of its fields *)

\* To moves the boot on and leaves its other fields.
LEMMA ToFields ==
  ASSUME MgrShape, NEW l, To(l)
  PROVE  /\ MgrShape' /\ mgr'.pc = l /\ mgr'.cfg = mgr.cfg /\ mgr'.held = mgr.held
         /\ mgr'.frozen = mgr.frozen /\ mgr'.keep = mgr.keep /\ mgr'.todo = mgr.todo
BY DEF MgrShape, To

\* A manager that has no boot under way, at any place.
LEMMA IdleFields ==
  ASSUME NEW l, mgr' = [Idle EXCEPT !.pc = l]
  PROVE  MgrShape' /\ mgr'.pc = l /\ mgr'.frozen = FALSE
BY DEF MgrShape, Idle

\* A boot of a configuration begins.
LEMMA BeginFields ==
  ASSUME NEW c, mgr' = [Idle EXCEPT !.pc = "begin", !.cfg = c]
  PROVE  MgrShape' /\ mgr'.pc = "begin" /\ mgr'.cfg = c /\ mgr'.frozen = FALSE
BY DEF MgrShape, Idle

\* The idle manager.
LEMMA IdleShape ==
  ASSUME mgr' = Idle
  PROVE  MgrShape' /\ mgr'.pc = "idle" /\ mgr'.frozen = FALSE
BY DEF MgrShape, Idle

\* Fail goes to the restoration exactly when the boot holds a daemon.
LEMMA FailFields ==
  ASSUME MgrShape, mgr.frozen \in BOOLEAN, Fail
  PROVE  /\ MgrShape' /\ mgr'.frozen = mgr.frozen
         /\ \/ mgr.frozen /\ mgr'.pc = "restore-kill" /\ mgr'.held = mgr.held
            \/ ~mgr.frozen /\ mgr'.pc = "failed"
<1>1. CASE mgr.frozen
  <2>1. To("restore-kill") BY <1>1 DEF Fail
  <2> QED BY <1>1, <2>1, ToFields
<1>2. CASE ~mgr.frozen
  <2>1. mgr' = [Idle EXCEPT !.pc = "failed"] BY <1>2 DEF Fail
  <2> QED BY <1>2, <2>1, IdleFields
<1> QED BY <1>1, <1>2

-------------------------------------------------------------------------------
(* One lemma per action *)

USE ContainerBootAssumption
  DEF IInv, TypeOK, InstallInv, KeepInv, DockerInv, NothingOrphaned, FrozenInv, EngineInv,
      Quiet, Live, Filled, Ruled, Allowed, Written, Removed, Checked

\* A machine before its first boot.
LEMMA InitEstablishes == Init => IInv
<1> SUFFICES ASSUME Init PROVE IInv  OBVIOUS
<1>1. MgrShape /\ mgr.pc = "start" /\ mgr.frozen = FALSE  BY DEF Init, Idle, MgrShape
<1>2. DOMAIN docker = {}  BY DEF Init
<1> USE <1>1, <1>2 DEF Init, NoEgress
<1>3. TypeOK
  <2>1. files = [runtime |-> None, egress |-> None]  OBVIOUS
  <2>2. files \in [runtime : Configs \cup {None}, egress : Configs \cup {None}]
    BY <2>1
  <2>3. eg \in [pid : Int, st : {"dead", "down", "load", "run"}, stopped : BOOLEAN,
                cfg : Configs \cup {None}, nft : BOOLEAN]
    OBVIOUS
  <2> QED BY <2>2, <2>3
<1>4. InstallInv /\ KeepInv /\ DockerInv  OBVIOUS
<1>5. FrozenInv /\ EngineInv  OBVIOUS
<1> QED BY <1>3, <1>4, <1>5

\* A boot that fails goes on to restore the daemon if it holds one.  A removal that
\* failed may have taken containers with it.
LEMMA FailKeeps ==
  ASSUME IInv, Fail,
         UNCHANGED <<booted, files, eg, pidfile, pids, rules, allow, missed, killed>>,
         DOMAIN docker' \subseteq DOMAIN docker,
         \A n \in DOMAIN docker' : docker'[n] = docker[n]
  PROVE  IInv'
<1>0. /\ MgrShape' /\ mgr'.frozen = mgr.frozen
      /\ \/ mgr.frozen /\ mgr'.pc = "restore-kill" /\ mgr'.held = mgr.held
         \/ ~mgr.frozen /\ mgr'.pc = "failed"
  BY FailFields
<1> USE <1>0
<1>1. TypeOK'  OBVIOUS
<1>2. InstallInv'  OBVIOUS
<1>3. KeepInv'  OBVIOUS
<1>4. DockerInv'  OBVIOUS
<1>5. FrozenInv'  OBVIOUS
<1>6. EngineInv'  OBVIOUS
<1> QED BY <1>1, <1>2, <1>3, <1>4, <1>5, <1>6

\* A daemon starts with no configuration; in the window it is recorded.
LEMMA EgressStartKeeps ==
  ASSUME IInv, EgressStart
  PROVE  IInv'
<1> USE DEF Egress, MgrShape, EgressStart, NoEgress, BeforeNewFiles
<1>0. eg' = [pid |-> pids + 1, st |-> "load", stopped |-> FALSE, cfg |-> None, nft |-> FALSE]
  OBVIOUS
<1>1. TypeOK'
  <2>1. missed' \in BOOLEAN  BY DEF EgressStart
  <2>2. eg' \in [pid : Int, st : {"dead", "down", "load", "run"}, stopped : BOOLEAN,
                 cfg : Configs \cup {None}, nft : BOOLEAN]
    <3>1. pids + 1 \in Int  OBVIOUS
    <3> QED BY ONLY <1>0, <3>1
  <2>3. MgrShape' /\ mgr'.frozen \in BOOLEAN /\ pids' \in Int
        /\ UNCHANGED <<files, booted, killed>>
    OBVIOUS
  <2> QED BY <2>1, <2>2, <2>3
<1>2. InstallInv'  OBVIOUS
<1>3. KeepInv'  OBVIOUS
<1>4. DockerInv'  OBVIOUS
<1>5. FrozenInv'  OBVIOUS
<1>6. EngineInv'  OBVIOUS
<1> QED BY <1>1, <1>2, <1>3, <1>4, <1>5, <1>6

\* A daemon reads the installed configuration, and does so in no window.
LEMMA EgressLoadKeeps ==
  ASSUME IInv, EgressLoad
  PROVE  IInv'
<1> USE DEF Egress, MgrShape, EgressLoad
<1>1. TypeOK'  OBVIOUS
<1>2. InstallInv'  OBVIOUS
<1>3. KeepInv'  OBVIOUS
<1>4. DockerInv'  OBVIOUS
<1>5. FrozenInv'  OBVIOUS
<1>6. EngineInv'  OBVIOUS
<1> QED BY <1>1, <1>2, <1>3, <1>4, <1>5, <1>6

\* A refresh begins.
LEMMA RefreshResolveKeeps ==
  ASSUME IInv, RefreshResolve
  PROVE  IInv'
<1> USE DEF Egress, MgrShape, RefreshResolve
<1>1. TypeOK'  OBVIOUS
<1>2. InstallInv'  OBVIOUS
<1>3. KeepInv'  OBVIOUS
<1>4. DockerInv'  OBVIOUS
<1>5. FrozenInv'  OBVIOUS
<1>6. EngineInv'  OBVIOUS
<1> QED BY <1>1, <1>2, <1>3, <1>4, <1>5, <1>6

\* The addresses a refresh installs are of the configuration that is installed.
LEMMA RefreshApplyKeeps ==
  ASSUME IInv, RefreshApply
  PROVE  IInv'
<1> USE DEF Egress, MgrShape, RefreshApply
<1>1. TypeOK'  OBVIOUS
<1>2. InstallInv'  OBVIOUS
<1>3. KeepInv'  OBVIOUS
<1>4. DockerInv'  OBVIOUS
<1>5. FrozenInv'  OBVIOUS
<1>6. EngineInv'  OBVIOUS
<1> QED BY <1>1, <1>2, <1>3, <1>4, <1>5, <1>6

\* A refresh fails.
LEMMA RefreshFailsKeeps ==
  ASSUME IInv, RefreshFails
  PROVE  IInv'
<1> USE DEF Egress, MgrShape, RefreshFails
<1>1. TypeOK'  OBVIOUS
<1>2. InstallInv'  OBVIOUS
<1>3. KeepInv'  OBVIOUS
<1>4. DockerInv'  OBVIOUS
<1>5. FrozenInv'  OBVIOUS
<1>6. EngineInv'  OBVIOUS
<1> QED BY <1>1, <1>2, <1>3, <1>4, <1>5, <1>6

\* The daemon dies, stopped or not; a child of it may stay stopped.
LEMMA EgressDiesKeeps ==
  ASSUME IInv, EgressDies
  PROVE  IInv'
<1> USE DEF Egress, MgrShape, EgressDies
<1>1. TypeOK'  OBVIOUS
<1>2. InstallInv'  OBVIOUS
<1>3. KeepInv'  OBVIOUS
<1>4. DockerInv'  OBVIOUS
<1>5. FrozenInv'  OBVIOUS
<1>6. EngineInv'  OBVIOUS
<1> QED BY <1>1, <1>2, <1>3, <1>4, <1>5, <1>6

\* The supervisor removes the PID file.
LEMMA RemovePIDFileKeeps ==
  ASSUME IInv, RemovePIDFile
  PROVE  IInv'
<1> USE DEF Egress, MgrShape, RemovePIDFile
<1>1. TypeOK'  OBVIOUS
<1>2. InstallInv'  OBVIOUS
<1>3. KeepInv'  OBVIOUS
<1>4. DockerInv'  OBVIOUS
<1>5. FrozenInv'  OBVIOUS
<1>6. EngineInv'  OBVIOUS
<1> QED BY <1>1, <1>2, <1>3, <1>4, <1>5, <1>6

\* The supervisor clears the group.
LEMMA ClearGroupKeeps ==
  ASSUME IInv, ClearGroup
  PROVE  IInv'
<1> USE DEF Egress, MgrShape, ClearGroup
<1>1. TypeOK'  OBVIOUS
<1>2. InstallInv'  OBVIOUS
<1>3. KeepInv'  OBVIOUS
<1>4. DockerInv'  OBVIOUS
<1>5. FrozenInv'  OBVIOUS
<1>6. EngineInv'  OBVIOUS
<1> QED BY <1>1, <1>2, <1>3, <1>4, <1>5, <1>6

\* A manager starts, with the first boot or none.
LEMMA StartKeeps ==
  ASSUME IInv, Start
  PROVE  IInv'
<1>0. /\ MgrShape'
      /\ mgr'.frozen = FALSE
      /\ mgr'.pc = "idle" \/ (mgr'.pc = "begin" /\ mgr'.cfg = First)
      /\ mgr.pc = "start"
      /\ UNCHANGED <<booted, files, eg, pids, rules, allow, docker, missed, killed>>
  BY IdleFields, IdleShape, BeginFields DEF Start, egVars, fwVars, histVars, Same, At
<1> USE <1>0
<1>1. TypeOK'  OBVIOUS
<1>2. InstallInv'  OBVIOUS
<1>3. KeepInv'  OBVIOUS
<1>4. DockerInv'  OBVIOUS
<1>5. FrozenInv'  OBVIOUS
<1>6. EngineInv'  OBVIOUS
<1> QED BY <1>1, <1>2, <1>3, <1>4, <1>5, <1>6

\* A debug boot begins.
LEMMA handleBootKeeps ==
  ASSUME IInv, handleBoot
  PROVE  IInv'
<1>1. PICK c \in Configs : mgr' = [Idle EXCEPT !.pc = "begin", !.cfg = c]
  BY DEF handleBoot
<1>2. /\ MgrShape' /\ mgr'.frozen = FALSE /\ mgr'.pc = "begin" /\ mgr'.cfg = c
      /\ mgr.pc = "idle"
      /\ UNCHANGED <<booted, files, eg, pids, rules, allow, docker, missed, killed>>
  BY <1>1, BeginFields DEF handleBoot, At, egVars, fwVars, histVars
<1> USE <1>2
<1>3. TypeOK'  OBVIOUS
<1>4. InstallInv'  OBVIOUS
<1>5. KeepInv'  OBVIOUS
<1>6. DockerInv'  OBVIOUS
<1>7. FrozenInv'  OBVIOUS
<1>8. EngineInv'  OBVIOUS
<1> QED BY <1>3, <1>4, <1>5, <1>6, <1>7, <1>8

\* The bridges are made.
LEMMA setupContainerNetworkKeeps ==
  ASSUME IInv, setupContainerNetwork
  PROVE  IInv'
<1>0. /\ mgr.pc = "networks"
      /\ MgrShape'
      /\ mgr'.pc = "rules"
      /\ mgr'.cfg = mgr.cfg /\ mgr'.held = mgr.held /\ mgr'.frozen = mgr.frozen
      /\ mgr'.keep = mgr.keep /\ mgr'.todo = mgr.todo
      /\ UNCHANGED <<booted, files, eg, pids, rules, allow, docker, missed, killed>>
  BY ToFields DEF setupContainerNetwork, egVars, fwVars, histVars, Same, At
<1> USE <1>0
<1>1. TypeOK'  OBVIOUS
<1>2. InstallInv'  OBVIOUS
<1>3. KeepInv'  OBVIOUS
<1>4. DockerInv'  OBVIOUS
<1>5. FrozenInv'  OBVIOUS
<1>6. EngineInv'  OBVIOUS
<1> QED BY <1>1, <1>2, <1>3, <1>4, <1>5, <1>6

\* The rules are replaced while nothing but the toolbox is there.
LEMMA ApplyContainerNetworksKeeps ==
  ASSUME IInv, ApplyContainerNetworks
  PROVE  IInv'
<1>0. /\ mgr.pc = "rules"
      /\ MgrShape'
      /\ mgr'.pc = "populate"
      /\ mgr'.cfg = mgr.cfg /\ mgr'.held = mgr.held /\ mgr'.frozen = mgr.frozen
      /\ mgr'.keep = mgr.keep /\ mgr'.todo = mgr.todo
      /\ rules' = mgr.cfg
      /\ UNCHANGED <<booted, files, eg, pids, docker, missed, killed>>
  BY ToFields DEF ApplyContainerNetworks, egVars, fwVars, histVars, Same, At
<1> USE <1>0
<1>1. TypeOK'  OBVIOUS
<1>2. InstallInv'  OBVIOUS
<1>3. KeepInv'  OBVIOUS
<1>4. DockerInv'  OBVIOUS
<1>5. FrozenInv'  OBVIOUS
<1>6. EngineInv'  OBVIOUS
<1> QED BY <1>1, <1>2, <1>3, <1>4, <1>5, <1>6

\* The allow set is filled from the new egress file.
LEMMA PopulateKeeps ==
  ASSUME IInv, Populate
  PROVE  IInv'
<1>0. /\ mgr.pc = "populate"
      /\ MgrShape'
      /\ mgr'.pc = "kill"
      /\ mgr'.cfg = mgr.cfg /\ mgr'.held = mgr.held /\ mgr'.frozen = mgr.frozen
      /\ mgr'.keep = mgr.keep /\ mgr'.todo = mgr.todo
      /\ allow' = IF mgr.cfg \in Allowlist THEN files.egress ELSE allow
      /\ UNCHANGED <<booted, files, eg, pids, rules, docker, missed, killed>>
  BY ToFields DEF Populate, egVars, fwVars, histVars, Same, At
<1> USE <1>0
<1>1. TypeOK'  OBVIOUS
<1>2. InstallInv'  OBVIOUS
<1>3. KeepInv'  OBVIOUS
<1>4. DockerInv'  OBVIOUS
<1>5. FrozenInv'  OBVIOUS
<1>6. EngineInv'  OBVIOUS
<1> QED BY <1>1, <1>2, <1>3, <1>4, <1>5, <1>6

\* The shim is restarted and the boot is over.
LEMMA restartRuntimeServicesKeeps ==
  ASSUME IInv, restartRuntimeServices
  PROVE  IInv'
<1>0. /\ MgrShape'
      /\ mgr'.pc = "idle"
      /\ mgr'.frozen = FALSE
      /\ mgr.pc = "restart-shim"
      /\ booted' = TRUE
      /\ UNCHANGED <<files, eg, pids, rules, allow, docker, missed, killed>>
  BY IdleFields, IdleShape DEF restartRuntimeServices, egVars, fwVars, histVars, Same, At
<1> USE <1>0
<1>1. TypeOK'  OBVIOUS
<1>2. InstallInv'  OBVIOUS
<1>3. KeepInv'  OBVIOUS
<1>4. DockerInv'  OBVIOUS
<1>5. FrozenInv'  OBVIOUS
<1>6. EngineInv'  OBVIOUS
<1> QED BY <1>1, <1>2, <1>3, <1>4, <1>5, <1>6

\* A boot has failed.
LEMMA BootFailedKeeps ==
  ASSUME IInv, BootFailed
  PROVE  IInv'
<1>0. /\ MgrShape'
      /\ mgr'.pc \in {"idle", "off"}
      /\ mgr'.frozen = FALSE
      /\ mgr.pc = "failed"
      /\ UNCHANGED <<booted, files, eg, pids, rules, allow, docker, missed, killed>>
  BY IdleFields, IdleShape DEF BootFailed, egVars, fwVars, histVars, Same, At
<1> USE <1>0
<1>1. TypeOK'  OBVIOUS
<1>2. InstallInv'  OBVIOUS
<1>3. KeepInv'  OBVIOUS
<1>4. DockerInv'  OBVIOUS
<1>5. FrozenInv'  OBVIOUS
<1>6. EngineInv'  OBVIOUS
<1> QED BY <1>1, <1>2, <1>3, <1>4, <1>5, <1>6

\* The manager is killed and leaves everything as it stands.
LEMMA ManagerKilledKeeps ==
  ASSUME IInv, ManagerKilled
  PROVE  IInv'
<1>0. /\ MgrShape'
      /\ mgr'.pc = "start"
      /\ mgr'.frozen = FALSE
      /\ killed' = TRUE
      /\ UNCHANGED <<booted, files, eg, pids, rules, allow, docker, missed>>
  BY IdleFields, IdleShape DEF ManagerKilled, egVars, fwVars, histVars, Same, At
<1> USE <1>0
<1>1. TypeOK'  OBVIOUS
<1>2. InstallInv'  OBVIOUS
<1>3. KeepInv'  OBVIOUS
<1>4. DockerInv'  OBVIOUS
<1>5. FrozenInv'  OBVIOUS
<1>6. EngineInv'  OBVIOUS
<1> QED BY <1>1, <1>2, <1>3, <1>4, <1>5, <1>6

\* The PID file is looked at and the toolbox held against the new configuration.
LEMMA BeginBootKeeps ==
  ASSUME IInv, BeginBoot
  PROVE  IInv'
<1>1. UNCHANGED <<booted, files, eg, pidfile, pids, rules, allow, docker, missed, killed>>
  BY DEF BeginBoot, egVars, fwVars, Same
<1>2. CASE Fail  BY <1>1, <1>2, FailKeeps
<1>3. CASE ~Fail
  <2>1. /\ mgr.pc = "begin" /\ Preserved \subseteq Containers[mgr.cfg]
        /\ mgr' = [mgr EXCEPT !.pc = "freeze", !.held = pidfile, !.keep = Preserved]
    BY <1>3 DEF BeginBoot, At
  <2>2. /\ MgrShape' /\ mgr'.pc = "freeze" /\ mgr'.cfg = mgr.cfg
        /\ mgr'.frozen = mgr.frozen /\ mgr'.keep = Preserved
    BY <2>1 DEF MgrShape
  <2>3. Preserved \subseteq {Toolbox}  BY DEF Preserved
  <2> USE <1>1, <2>1, <2>2, <2>3
  <2>4. TypeOK' /\ InstallInv'  OBVIOUS
  <2>5. KeepInv'  OBVIOUS
  <2>6. DockerInv'  OBVIOUS
  <2>7. FrozenInv' /\ EngineInv'  OBVIOUS
  <2> QED BY <2>4, <2>5, <2>6, <2>7
<1> QED BY <1>2, <1>3

\* freezeFromPIDFile leaves no daemon acting, or the history says that one passed.
LEMMA freezeFromPIDFileKeeps ==
  ASSUME IInv, freezeFromPIDFile
  PROVE  IInv'
<1>1. /\ mgr.pc = "freeze"
      /\ UNCHANGED <<booted, files, pids, rules, allow, docker, killed>>
  BY DEF freezeFromPIDFile, At, fwVars, Same
<1>2. CASE mgr.held # NoFile /\ GroupExists(mgr.held.pid)
  <2>1. /\ mgr' = [mgr EXCEPT !.pc = "remove", !.frozen = TRUE]
        /\ eg' = [eg EXCEPT !.stopped = TRUE] /\ missed' = missed
    BY <1>2 DEF freezeFromPIDFile
  <2>2. /\ MgrShape' /\ mgr'.pc = "remove" /\ mgr'.cfg = mgr.cfg /\ mgr'.held = mgr.held
        /\ mgr'.frozen = TRUE /\ mgr'.keep = mgr.keep
    BY <2>1 DEF MgrShape
  <2>3. eg.pid = mgr.held.pid /\ (Live \/ eg.nft)  BY <1>2 DEF GroupExists
  <2> USE <1>1, <2>1, <2>2, <2>3
  <2>4. TypeOK' /\ InstallInv' /\ KeepInv'  OBVIOUS
  <2>5. DockerInv'  OBVIOUS
  <2>6. FrozenInv' /\ EngineInv'  OBVIOUS
  <2> QED BY <2>4, <2>5, <2>6
<1>3. CASE ~(mgr.held # NoFile /\ GroupExists(mgr.held.pid))
  <2>1. /\ mgr' = [mgr EXCEPT !.pc = "remove", !.held = NoFile]
        /\ eg' = eg /\ missed' = booted
    BY <1>3 DEF freezeFromPIDFile
  <2>2. /\ MgrShape' /\ mgr'.pc = "remove" /\ mgr'.cfg = mgr.cfg
        /\ mgr'.frozen = mgr.frozen /\ mgr'.keep = mgr.keep
    BY <2>1 DEF MgrShape
  <2> USE <1>1, <2>1, <2>2
  <2>4. TypeOK' /\ InstallInv' /\ KeepInv'  OBVIOUS
  <2>5. DockerInv'  OBVIOUS
  <2>6. FrozenInv' /\ EngineInv'  OBVIOUS
  <2> QED BY <2>4, <2>5, <2>6
<1> QED BY <1>2, <1>3

\* The removal goes on only when nothing but the toolbox is left.
LEMMA RemoveManagedExceptKeeps ==
  ASSUME IInv, RemoveManagedExcept
  PROVE  IInv'
<1>1. /\ mgr.pc = "remove"
      /\ UNCHANGED <<booted, files, eg, pidfile, pids, rules, allow, missed, killed>>
  BY DEF RemoveManagedExcept, At, egVars, fwVars, Same
<1>2. PICK gone \in SUBSET (Managed \cap DOMAIN docker) :
        /\ docker' = [n \in DOMAIN docker \ gone |-> docker[n]]
        /\ \/ Managed \cap DOMAIN docker \subseteq gone /\ To("write-runtime")
           \/ files.runtime # None /\ Fail
  BY DEF RemoveManagedExcept
<1>3. /\ DOMAIN docker' = DOMAIN docker \ gone
      /\ \A n \in DOMAIN docker' : docker'[n] = docker[n]
  BY <1>2
<1>4. CASE Fail  BY <1>1, <1>3, <1>4, FailKeeps
<1>5. CASE ~Fail
  <2>1. Managed \cap DOMAIN docker \subseteq gone /\ To("write-runtime")  BY <1>2, <1>5
  <2>2. /\ MgrShape' /\ mgr'.pc = "write-runtime" /\ mgr'.cfg = mgr.cfg
        /\ mgr'.held = mgr.held /\ mgr'.frozen = mgr.frozen /\ mgr'.keep = mgr.keep
    BY <2>1, ToFields
  <2>3. DOMAIN docker' \subseteq mgr.keep  BY <1>3, <2>1 DEF Managed
  <2> USE <1>1, <1>3, <2>2, <2>3
  <2>4. TypeOK' /\ InstallInv' /\ KeepInv'  OBVIOUS
  <2>5. DockerInv'  OBVIOUS
  <2>6. FrozenInv' /\ EngineInv'  OBVIOUS
  <2> QED BY <2>4, <2>5, <2>6
<1> QED BY <1>4, <1>5

\* The files are replaced while no daemon acts and no other container is there.
LEMMA writeRuntimeArtifactsKeeps ==
  ASSUME IInv, writeRuntimeArtifacts
  PROVE  IInv'
<1>1. UNCHANGED <<booted, eg, pids, rules, allow, docker, missed, killed>>
  BY DEF writeRuntimeArtifacts, egVars, fwVars, Same
<1>2. ASSUME NEW l, To(l)
      PROVE  /\ MgrShape' /\ mgr'.pc = l /\ mgr'.cfg = mgr.cfg /\ mgr'.held = mgr.held
             /\ mgr'.frozen = mgr.frozen /\ mgr'.keep = mgr.keep
  BY <1>2, ToFields
<1>3. CASE /\ mgr.pc = "write-runtime" /\ To("write-egress")
           /\ files' = [files EXCEPT !.runtime = mgr.cfg]
  <2> USE <1>1, <1>2, <1>3
  <2>1. TypeOK' /\ InstallInv' /\ KeepInv'  OBVIOUS
  <2>2. DockerInv'  OBVIOUS
  <2>3. FrozenInv' /\ EngineInv'  OBVIOUS
  <2> QED BY <2>1, <2>2, <2>3
<1>4. CASE /\ mgr.pc = "write-egress" /\ To("networks")
           /\ files' = [files EXCEPT !.egress = mgr.cfg]
  <2> USE <1>1, <1>2, <1>4
  <2>1. TypeOK' /\ InstallInv' /\ KeepInv'  OBVIOUS
  <2>2. DockerInv'  OBVIOUS
  <2>3. FrozenInv' /\ EngineInv'  OBVIOUS
  <2> QED BY <2>1, <2>2, <2>3
<1> QED BY <1>3, <1>4 DEF writeRuntimeArtifacts, At

\* The held group is killed: what was stopped does not run again.
LEMMA restartFrozenFromPIDFileKeeps ==
  ASSUME IInv, restartFrozenFromPIDFile
  PROVE  IInv'
<1>1. UNCHANGED <<booted, files, pids, rules, allow, docker, missed, killed>>
  BY DEF restartFrozenFromPIDFile, fwVars, Same
<1>2. \/ mgr.pc = "kill" /\ mgr'.pc = "wait"
      \/ mgr.pc = "restore-kill" /\ mgr'.pc = "restore-wait"
  BY ToFields DEF restartFrozenFromPIDFile, At
<1>3. /\ MgrShape' /\ mgr'.cfg = mgr.cfg /\ mgr'.held = mgr.held
      /\ mgr'.frozen = mgr.frozen /\ mgr'.keep = mgr.keep
  BY ToFields DEF restartFrozenFromPIDFile
<1>4. \/ eg' = [eg EXCEPT !.st = IF Live THEN "dead" ELSE @, !.nft = FALSE, !.stopped = FALSE]
      \/ eg' = eg /\ ~(mgr.frozen /\ GroupExists(mgr.held.pid))
  BY DEF restartFrozenFromPIDFile, Kill
<1>5. /\ ~killed => ~eg'.stopped
      /\ eg'.stopped => eg' = eg
      /\ eg' \in [pid : Int, st : {"dead", "down", "load", "run"}, stopped : BOOLEAN,
                  cfg : Configs \cup {None}, nft : BOOLEAN]
      /\ eg' = eg \/ (eg'.st \in {"dead", "down"} /\ ~eg'.nft /\ (eg.st = "down" => eg'.st = "down"))
  BY <1>4 DEF GroupExists
<1> USE <1>1, <1>2, <1>3, <1>5
<1>6. TypeOK'  OBVIOUS
<1>7. InstallInv' /\ KeepInv'  OBVIOUS
<1>8. DockerInv'  OBVIOUS
<1>9. FrozenInv'  OBVIOUS
<1>10. EngineInv'  OBVIOUS
<1> QED BY <1>6, <1>7, <1>8, <1>9, <1>10

\* The launch begins with what the configuration declares and is not kept.
LEMMA waitForReplacementPIDKeeps ==
  ASSUME IInv, waitForReplacementPID
  PROVE  IInv'
<1>1. UNCHANGED <<booted, files, eg, pids, rules, allow, docker, missed, killed>>
  BY DEF waitForReplacementPID, egVars, fwVars, Same
<1>2. CASE mgr.pc = "wait" /\ mgr' = Launching
  <2>1. /\ MgrShape' /\ mgr'.pc = "launch" /\ mgr'.cfg = mgr.cfg /\ mgr'.frozen = FALSE
        /\ mgr'.keep = mgr.keep
        /\ mgr'.todo = [n \in Containers[mgr.cfg] \ mgr.keep |-> "pull"]
    BY <1>2 DEF Launching, MgrShape
  <2>2. DOMAIN mgr'.todo \subseteq Containers[mgr.cfg]  BY <2>1
  <2> USE <1>1, <1>2, <2>1, <2>2
  <2>3. TypeOK' /\ InstallInv' /\ KeepInv'  OBVIOUS
  <2>4. DockerInv'  OBVIOUS
  <2>5. FrozenInv' /\ EngineInv'  OBVIOUS
  <2> QED BY <2>3, <2>4, <2>5
<1>3. CASE mgr.pc = "restore-wait" /\ mgr' = [Idle EXCEPT !.pc = "failed"]
  <2>1. MgrShape' /\ mgr'.pc = "failed" /\ mgr'.frozen = FALSE  BY <1>3, IdleFields
  <2> USE <1>1, <1>3, <2>1
  <2>3. TypeOK' /\ InstallInv' /\ KeepInv'  OBVIOUS
  <2>4. DockerInv'  OBVIOUS
  <2>5. FrozenInv' /\ EngineInv'  OBVIOUS
  <2> QED BY <2>3, <2>4, <2>5
<1> QED BY <1>2, <1>3 DEF waitForReplacementPID, At

\* A phase of one container leaves the others to do.
LEMMA PhaseFields ==
  ASSUME MgrShape, NEW n \in DOMAIN mgr.todo, NEW next, NEW bad, Phase(n, next, bad)
  PROVE  /\ MgrShape' /\ mgr'.pc = mgr.pc /\ mgr'.cfg = mgr.cfg /\ mgr'.held = mgr.held
         /\ mgr'.frozen = mgr.frozen /\ mgr'.keep = mgr.keep
         /\ DOMAIN mgr'.todo \subseteq DOMAIN mgr.todo
<1>1. mgr' = [mgr EXCEPT !.bad = @ \/ bad,
                !.todo = IF next = "over" THEN [m \in DOMAIN @ \ {n} |-> @[m]]
                                          ELSE [@ EXCEPT ![n] = next]]
  BY DEF Phase
<1>2. mgr'.todo = IF next = "over" THEN [m \in DOMAIN mgr.todo \ {n} |-> mgr.todo[m]]
                                   ELSE [mgr.todo EXCEPT ![n] = next]
  BY <1>1 DEF MgrShape
<1>3. DOMAIN mgr'.todo \subseteq DOMAIN mgr.todo  BY <1>2
<1> QED BY <1>1, <1>3 DEF MgrShape

\* A container is created for the configuration under launch, under a name it
\* declares, and only where the name is free.
LEMMA runContainerKeeps ==
  ASSUME IInv, runContainer
  PROVE  IInv'
<1>1. /\ mgr.pc = "launch"
      /\ UNCHANGED <<booted, files, eg, pids, rules, allow, missed, killed>>
  BY DEF runContainer, At, egVars, fwVars, Same
<1>2. PICK n \in DOMAIN mgr.todo :
        pullImage(n) \/ createAndStartContainer(n) \/ awaitHealthy(n)
  BY DEF runContainer
<1>3. \E next, bad : Phase(n, next, bad)
  BY <1>2 DEF pullImage, createAndStartContainer, awaitHealthy
<1>4. /\ MgrShape' /\ mgr'.pc = mgr.pc /\ mgr'.cfg = mgr.cfg /\ mgr'.held = mgr.held
      /\ mgr'.frozen = mgr.frozen /\ mgr'.keep = mgr.keep
      /\ DOMAIN mgr'.todo \subseteq DOMAIN mgr.todo
  BY <1>3, PhaseFields
<1>5. n \in Containers[mgr.cfg]  BY <1>1
<1>6. \/ docker' = docker
      \/ docker' = [m \in DOMAIN docker \cup {n} |-> IF m = n THEN mgr.cfg ELSE docker[m]]
  BY <1>2 DEF pullImage, createAndStartContainer, awaitHealthy
<1>7. /\ DOMAIN docker' \subseteq DOMAIN docker \cup {n}
      /\ \A m \in DOMAIN docker' :
           \/ docker'[m] = mgr.cfg
           \/ m \in DOMAIN docker /\ docker'[m] = docker[m]
  BY <1>6
<1> USE <1>1, <1>4, <1>5, <1>7
<1>8. TypeOK' /\ InstallInv' /\ KeepInv'  OBVIOUS
<1>9. DockerInv'
  <2>1. files.runtime = mgr.cfg /\ mgr.cfg # None  OBVIOUS
  <2>2. DOMAIN docker' \subseteq Containers[files.runtime]  BY <2>1
  <2>3. \A m \in DOMAIN docker' \ {Toolbox} : docker'[m] = files.runtime  BY <2>1
  <2> QED BY <2>1, <2>2, <2>3
<1>10. FrozenInv' /\ EngineInv'  OBVIOUS
<1> QED BY <1>8, <1>9, <1>10

\* The launch is over for every container.
LEMMA LaunchAndWaitHealthyExceptKeeps ==
  ASSUME IInv, LaunchAndWaitHealthyExcept
  PROVE  IInv'
<1>1. /\ mgr.pc = "launch"
      /\ UNCHANGED <<booted, files, eg, pidfile, pids, rules, allow, docker, missed, killed>>
  BY DEF LaunchAndWaitHealthyExcept, At, egVars, fwVars, Same
<1>2. CASE Fail  BY <1>1, <1>2, FailKeeps
<1>3. CASE To("restart-shim")
  <2>1. /\ MgrShape' /\ mgr'.pc = "restart-shim" /\ mgr'.cfg = mgr.cfg
        /\ mgr'.held = mgr.held /\ mgr'.frozen = mgr.frozen
    BY <1>3, ToFields
  <2> USE <1>1, <2>1
  <2>3. TypeOK' /\ InstallInv' /\ KeepInv'  OBVIOUS
  <2>4. DockerInv'  OBVIOUS
  <2>5. FrozenInv' /\ EngineInv'  OBVIOUS
  <2> QED BY <2>3, <2>4, <2>5
<1> QED BY <1>2, <1>3 DEF LaunchAndWaitHealthyExcept

\* A step of the boot fails.
LEMMA StepFailsKeeps ==
  ASSUME IInv, StepFails
  PROVE  IInv'
<1>1. UNCHANGED <<booted, files, eg, pidfile, pids, rules, allow, docker, missed, killed>>
  BY DEF StepFails, egVars, fwVars, Same
<1> QED BY <1>1, FailKeeps DEF StepFails

\* A step that changes nothing.
LEMMA StutterKeeps ==
  ASSUME IInv, UNCHANGED vars
  PROVE  IInv'
<1> USE DEF vars, egVars, fwVars, histVars, MgrShape
<1>1. TypeOK' /\ InstallInv' /\ KeepInv'  OBVIOUS
<1>2. DockerInv'  OBVIOUS
<1>3. FrozenInv' /\ EngineInv'  OBVIOUS
<1> QED BY <1>1, <1>2, <1>3

-------------------------------------------------------------------------------
(* The invariants *)

\* Where a container runs the policy is its own; and between boots no daemon is
\* stopped, so the one that runs has loaded what is installed.
LEMMA InvImplies == IInv => ContainersUnderPolicy
<1> SUFFICES ASSUME IInv, ~missed
             PROVE  UnderOwnPolicy /\ EngineFollowsConfig
  BY DEF ContainersUnderPolicy
<1>1. UnderOwnPolicy  BY DEF UnderOwnPolicy
<1>2. EngineFollowsConfig  BY DEF EngineFollowsConfig
<1> QED BY <1>1, <1>2

HIDE DEF IInv, TypeOK, InstallInv, KeepInv, DockerInv, NothingOrphaned, FrozenInv,
         EngineInv

\* Every step of the manager, the daemon and their supervisor keeps the invariant.
LEMMA NextKeeps ==
  ASSUME IInv, [Next]_vars
  PROVE  IInv'
<1>1. CASE Start  BY <1>1, StartKeeps
<1>2. CASE BeginBoot  BY <1>2, BeginBootKeeps
<1>3. CASE freezeFromPIDFile  BY <1>3, freezeFromPIDFileKeeps
<1>4. CASE RemoveManagedExcept  BY <1>4, RemoveManagedExceptKeeps
<1>5. CASE writeRuntimeArtifacts  BY <1>5, writeRuntimeArtifactsKeeps
<1>6. CASE setupContainerNetwork  BY <1>6, setupContainerNetworkKeeps
<1>7. CASE ApplyContainerNetworks  BY <1>7, ApplyContainerNetworksKeeps
<1>8. CASE Populate  BY <1>8, PopulateKeeps
<1>9. CASE restartFrozenFromPIDFile  BY <1>9, restartFrozenFromPIDFileKeeps
<1>10. CASE waitForReplacementPID  BY <1>10, waitForReplacementPIDKeeps
<1>11. CASE runContainer  BY <1>11, runContainerKeeps
<1>12. CASE LaunchAndWaitHealthyExcept  BY <1>12, LaunchAndWaitHealthyExceptKeeps
<1>13. CASE restartRuntimeServices  BY <1>13, restartRuntimeServicesKeeps
<1>14. CASE StepFails  BY <1>14, StepFailsKeeps
<1>15. CASE BootFailed  BY <1>15, BootFailedKeeps
<1>16. CASE handleBoot  BY <1>16, handleBootKeeps
<1>17. CASE ManagerKilled  BY <1>17, ManagerKilledKeeps
<1>18. CASE EgressStart  BY <1>18, EgressStartKeeps
<1>19. CASE RemovePIDFile  BY <1>19, RemovePIDFileKeeps
<1>20. CASE ClearGroup  BY <1>20, ClearGroupKeeps
<1>21. CASE EgressLoad  BY <1>21, EgressLoadKeeps
<1>22. CASE RefreshResolve  BY <1>22, RefreshResolveKeeps
<1>23. CASE RefreshApply  BY <1>23, RefreshApplyKeeps
<1>24. CASE RefreshFails  BY <1>24, RefreshFailsKeeps
<1>25. CASE EgressDies  BY <1>25, EgressDiesKeeps
<1>26. CASE UNCHANGED vars  BY <1>26, StutterKeeps
<1> QED BY <1>1, <1>2, <1>3, <1>4, <1>5, <1>6, <1>7, <1>8, <1>9, <1>10, <1>11,
           <1>12, <1>13, <1>14, <1>15, <1>16, <1>17, <1>18, <1>19, <1>20, <1>21,
           <1>22, <1>23, <1>24, <1>25, <1>26
       DEF Next, ManagerStep, SupervisorStep, EgressStep

\* The invariant holds of every interleaving of boots, failures, kills and daemons.
THEOREM ContainerBootInvariant == Spec => []IInv
BY InitEstablishes, NextKeeps, PTL DEF Spec

\* No boot, whatever step of it failed or was cut off by a kill, leaves a container
\* that the next boot could not find and remove.
THEOREM NothingIsOrphaned == Spec => []NothingOrphaned
<1>1. IInv => NothingOrphaned  BY DEF IInv, DockerInv
<1> QED BY <1>1, ContainerBootInvariant, PTL

\* A container runs only under the rules and addresses of its own configuration,
\* unless a boot was passed by a daemon it had not frozen.
THEOREM ContainersAreUnderPolicy == Spec => []ContainersUnderPolicy
BY ContainerBootInvariant, InvImplies, PTL
===============================================================================
