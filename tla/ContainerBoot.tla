---------------------------- MODULE ContainerBoot ----------------------------
(***************************************************************************)
(* The container manager's boot (cmd/containers, internal/containers,      *)
(* internal/firewall) against the egress daemon (cmd/egress,               *)
(* internal/egress) that PID 1 supervises next to it.  A boot installs a   *)
(* configuration: it stops the egress daemon where it stands, removes the  *)
(* old containers, writes the new files, replaces the firewall and fills   *)
(* its allow sets, kills the stopped daemon and waits for its replacement, *)
(* then launches the containers.  A debug machine may boot again with any  *)
(* configuration.  The daemon may die at any time, every step may fail,    *)
(* and the manager may be killed between two steps.                        *)
(***************************************************************************)
EXTENDS Integers, FiniteSets

CONSTANTS
  Configs,     \* identities of configurations
  First,       \* the measured one
  Containers,  \* what each declares
  Allowlist,   \* those with an allowlist network
  Toolbox,     \* the reserved debug container
  None,
  MaxBoots,    \* bound: boots after the first
  MaxPids      \* bound: egress processes

ASSUME ContainerBootAssumption ==
  /\ First \in Configs /\ Allowlist \subseteq Configs /\ None \notin Configs
  /\ MaxBoots \in Nat /\ MaxPids \in Nat

VARIABLES
  mgr,       \* the manager: position, configuration being installed, egress it holds
  boots,     \* boots asked for
  booted,    \* the marker of the first boot
  files,     \* installed files: runtime and egress configuration
  eg,        \* the egress daemon: process, state, configuration it loaded
  pidfile,   \* its PID file: process and file identity
  pids,      \* processes so far
  rules,     \* configuration whose firewall rules are in place
  allow,     \* whose addresses the allow set holds
  docker,    \* container -> configuration it was created for
  missed,    \* history: a later boot found no egress process to freeze, or another
             \* one started before the new files were there
  killed     \* history: the manager was killed

fwVars == <<rules, allow>>
egVars == <<eg, pidfile, pids>>
histVars == <<missed, killed>>
vars == <<mgr, boots, booted, files, egVars, fwVars, docker, histVars>>

NoEgress == [pid |-> 0, st |-> "down", stopped |-> FALSE, cfg |-> None, nft |-> FALSE]
NoFile == [pid |-> 0, ino |-> 0]
Idle == [pc |-> "idle", cfg |-> None, held |-> NoFile, frozen |-> FALSE, keep |-> {},
         todo |-> <<>>, bad |-> FALSE]

Init ==
  /\ mgr = [Idle EXCEPT !.pc = "start"] /\ boots = 0 /\ booted = FALSE
  /\ files = [runtime |-> None, egress |-> None]
  /\ eg = NoEgress /\ pidfile = NoFile /\ pids = 0
  /\ rules = None /\ allow = None /\ docker = [n \in {} |-> None]
  /\ missed = FALSE /\ killed = FALSE

-------------------------------------------------------------------------------
(* The egress daemon under its supervisor *)

Egress(e, p, n) ==
  /\ eg' = e /\ pidfile' = p /\ pids' = n
  /\ UNCHANGED <<mgr, boots, booted, files, rules, docker, killed>>

\* The part of a boot in which the old files are still there.
BeforeNewFiles == mgr.pc \in {"freeze", "remove", "write-runtime", "write-egress"}

\* A file that is still open keeps its identity from being used again.
FreshInode == CHOOSE i \in 1..3 : i \notin {pidfile.ino, mgr.held.ino}

\* PID 1 starts it after the first boot; the PID file is there before it runs, and
\* takes the place of one that could not be removed.
EgressStart ==
  /\ booted /\ eg.st = "down" /\ ~eg.nft /\ pids < MaxPids
  /\ Egress([NoEgress EXCEPT !.pid = pids + 1, !.st = "load"],
            [pid |-> pids + 1, ino |-> FreshInode], pids + 1)
  /\ missed' = (missed \/ BeforeNewFiles) /\ UNCHANGED allow

\* The configuration is read once, at the start.
EgressLoad ==
  /\ eg.st = "load" /\ ~eg.stopped
  /\ Egress([eg EXCEPT !.st = "run", !.cfg = files.egress], pidfile, pids) /\ UNCHANGED <<allow, missed>>

\* One refresh: every name is resolved first, then a child process replaces
\* the sets in one transaction; a set that is not there fails it.
RefreshResolve ==
  /\ eg.st = "run" /\ ~eg.stopped /\ ~eg.nft /\ eg.cfg \in Allowlist
  /\ Egress([eg EXCEPT !.nft = TRUE], pidfile, pids) /\ UNCHANGED <<allow, missed>>
RefreshApply ==
  /\ eg.nft /\ ~eg.stopped /\ Egress([eg EXCEPT !.nft = FALSE], pidfile, pids)
  /\ allow' = (IF allow = None THEN None ELSE eg.cfg) /\ UNCHANGED missed
RefreshFails ==
  /\ eg.nft /\ ~eg.stopped /\ Egress([eg EXCEPT !.nft = FALSE], pidfile, pids) /\ UNCHANGED <<allow, missed>>

\* The process dies; a child of it may live on until the supervisor, which has
\* tried to remove the PID file by then, clears the rest of the group.
Live == eg.st \in {"load", "run"}
EgressDies ==
  /\ Live /\ Egress([eg EXCEPT !.st = "dead", !.stopped = @ /\ eg.nft], pidfile, pids) /\ UNCHANGED <<allow, missed>>
RemovePIDFile ==
  /\ eg.st = "dead" /\ \E p \in {NoFile, pidfile} : Egress([eg EXCEPT !.st = "down"], p, pids)
  /\ UNCHANGED <<allow, missed>>
ClearGroup ==
  /\ eg.st = "down" /\ eg.nft
  /\ Egress([eg EXCEPT !.nft = FALSE, !.stopped = FALSE], pidfile, pids) /\ UNCHANGED <<allow, missed>>

GroupExists(pid) == eg.pid = pid /\ (Live \/ eg.nft)

SupervisorStep == EgressStart \/ RemovePIDFile \/ ClearGroup
EgressStep == EgressLoad \/ RefreshResolve \/ RefreshApply \/ RefreshFails \/ EgressDies

-------------------------------------------------------------------------------
(* The manager *)

At(pc) == mgr.pc = pc
To(pc) == mgr' = [mgr EXCEPT !.pc = pc]
\* Mutant of Fail: the daemon is restored only where the boot restarts it.
FailUnrestored ==
  IF mgr.pc \in {"kill", "wait"} THEN To("restore-kill") ELSE mgr' = [Idle EXCEPT !.pc = "failed"]

\* A boot that fails restores the egress daemon if it holds it.
Fail == IF mgr.frozen THEN To("restore-kill") ELSE mgr' = [Idle EXCEPT !.pc = "failed"]
Same(v) == UNCHANGED <<boots, booted, killed>> /\ UNCHANGED v

\* The first boot of a machine, or none if the marker says it was done.
Start ==
  /\ At("start")
  /\ mgr' = IF booted THEN Idle ELSE [Idle EXCEPT !.pc = "begin", !.cfg = First]
  /\ Same(<<files, egVars, fwVars, docker, missed>>)

\* The debug API, one boot at a time.
handleBoot ==
  /\ At("idle") /\ booted /\ boots < MaxBoots /\ boots' = boots + 1
  /\ \E c \in Configs : mgr' = [Idle EXCEPT !.pc = "begin", !.cfg = c]
  /\ UNCHANGED <<booted, files, egVars, fwVars, docker, histVars>>

Preserved ==
  IF files.runtime # None /\ Toolbox \in Containers[files.runtime] THEN {Toolbox} ELSE {}

\* The PID file is read and stays open; a configuration may not drop the toolbox.
BeginBoot ==
  /\ At("begin")
  /\ IF Preserved \subseteq Containers[mgr.cfg]
     THEN mgr' = [mgr EXCEPT !.pc = "freeze", !.held = pidfile, !.keep = Preserved]
     ELSE Fail
  /\ Same(<<files, egVars, fwVars, docker, missed>>)

\* The whole group is stopped, or it is gone and nothing is held.
freezeFromPIDFile ==
  /\ At("freeze")
  /\ IF mgr.held # NoFile /\ GroupExists(mgr.held.pid)
     THEN /\ mgr' = [mgr EXCEPT !.pc = "remove", !.frozen = TRUE]
          /\ eg' = [eg EXCEPT !.stopped = TRUE] /\ missed' = missed
     ELSE mgr' = [mgr EXCEPT !.pc = "remove", !.held = NoFile] /\ eg' = eg /\ missed' = booted
  /\ Same(<<files, pidfile, pids, fwVars, docker>>)

Managed == IF files.runtime = None THEN {} ELSE Containers[files.runtime] \ mgr.keep

\* Mutant of RemoveManagedExcept: the boot goes on when a removal failed.
RemoveManagedExceptIgnored ==
  /\ At("remove") /\ To("write-runtime")
  /\ \E gone \in SUBSET (Managed \cap DOMAIN docker) :
       docker' = [n \in DOMAIN docker \ gone |-> docker[n]]
  /\ Same(<<files, egVars, fwVars, missed>>)

\* Each is tried, and an error fails the boot, whether the container is gone or
\* not; without an installed configuration there is nothing to try.
RemoveManagedExcept ==
  /\ At("remove")
  /\ \E gone \in SUBSET (Managed \cap DOMAIN docker) :
       /\ docker' = [n \in DOMAIN docker \ gone |-> docker[n]]
       /\ \/ Managed \cap DOMAIN docker \subseteq gone /\ To("write-runtime")
          \/ files.runtime # None /\ Fail
  /\ Same(<<files, egVars, fwVars, missed>>)

\* Each file is written whole; the shim's, between these two, plays no part here.
writeRuntimeArtifacts ==
  /\ \/ At("write-runtime") /\ To("write-egress") /\ files' = [files EXCEPT !.runtime = mgr.cfg]
     \/ At("write-egress") /\ To("networks") /\ files' = [files EXCEPT !.egress = mgr.cfg]
  /\ Same(<<egVars, fwVars, docker, missed>>)

\* A bridge for every network of the configuration; those that exist are kept.
setupContainerNetwork ==
  /\ At("networks") /\ To("rules") /\ Same(<<files, egVars, fwVars, docker, missed>>)

\* One transaction replaces the rules and empties the sets.
ApplyContainerNetworks ==
  /\ At("rules") /\ To("populate") /\ rules' = mgr.cfg
  /\ allow' = IF mgr.cfg \in Allowlist THEN "empty" ELSE allow
  /\ Same(<<files, egVars, docker, missed>>)

\* The first population, in a limited time.
Populate ==
  /\ At("populate") /\ To("kill")
  /\ allow' = IF mgr.cfg \in Allowlist THEN files.egress ELSE allow
  /\ Same(<<files, egVars, rules, docker, missed>>)

\* The held group is killed, if it is there.
Kill ==
  eg' = IF mgr.frozen /\ GroupExists(mgr.held.pid)
        THEN [eg EXCEPT !.st = IF Live THEN "dead" ELSE @, !.nft = FALSE, !.stopped = FALSE] ELSE eg

\* Mutant of restartFrozenFromPIDFile: the daemon goes on where it stopped.
restartFrozenFromPIDFileContinued ==
  /\ \/ At("kill") /\ mgr' = [mgr EXCEPT !.pc = "wait", !.frozen = FALSE]
     \/ At("restore-kill") /\ To("restore-wait")
  /\ eg' = [eg EXCEPT !.stopped = FALSE]
  /\ Same(<<files, pidfile, pids, fwVars, docker, missed>>)

restartFrozenFromPIDFile ==
  /\ \/ At("kill") /\ To("wait")
     \/ At("restore-kill") /\ To("restore-wait")
  /\ Kill /\ Same(<<files, pidfile, pids, fwVars, docker, missed>>)

replacementPIDAvailable == pidfile # NoFile /\ pidfile.ino # mgr.held.ino

Launching == [mgr EXCEPT !.pc = "launch", !.held = NoFile, !.frozen = FALSE,
                         !.todo = [n \in Containers[mgr.cfg] \ mgr.keep |-> "pull"]]

\* A file of another identity is the replacement's; the wait is limited.
waitForReplacementPID ==
  /\ \/ At("wait") /\ (mgr.frozen => replacementPIDAvailable) /\ mgr' = Launching
     \/ At("restore-wait") /\ replacementPIDAvailable /\ mgr' = [Idle EXCEPT !.pc = "failed"]
     \/ At("restore-wait") /\ mgr' = [Idle EXCEPT !.pc = "failed"]
  /\ Same(<<files, egVars, fwVars, docker, missed>>)

Phase(n, next, bad) ==
  mgr' = [mgr EXCEPT !.bad = @ \/ bad,
            !.todo = IF next = "over" THEN [m \in DOMAIN @ \ {n} |-> @[m]] ELSE [@ EXCEPT ![n] = next]]

\* The image is there with the digest its reference names, or the launch fails.
pullImage(n) ==
  /\ mgr.todo[n] = "pull" /\ (Phase(n, "start", FALSE) \/ Phase(n, "over", TRUE))
  /\ UNCHANGED docker

\* Created and started, created and not started, or not created: a name that
\* exists already is refused.
createAndStartContainer(n) ==
  /\ mgr.todo[n] = "start"
  /\ \/ /\ n \notin DOMAIN docker
        /\ docker' = [m \in DOMAIN docker \cup {n} |-> IF m = n THEN mgr.cfg ELSE docker[m]]
        /\ Phase(n, "healthy", FALSE) \/ Phase(n, "over", TRUE)
     \/ Phase(n, "over", TRUE) /\ UNCHANGED docker

\* Docker's verdict on its health, for as long as it takes; without a health
\* check there is none to wait for.
awaitHealthy(n) ==
  /\ mgr.todo[n] = "healthy" /\ \E bad \in BOOLEAN : Phase(n, "over", bad)
  /\ UNCHANGED docker

\* One goroutine for each container.
runContainer ==
  /\ At("launch")
  /\ \E n \in DOMAIN mgr.todo : pullImage(n) \/ createAndStartContainer(n) \/ awaitHealthy(n)
  /\ Same(<<files, egVars, fwVars, missed>>)

LaunchAndWaitHealthyExcept ==
  /\ At("launch") /\ DOMAIN mgr.todo = {} /\ (IF mgr.bad THEN Fail ELSE To("restart-shim"))
  /\ Same(<<files, egVars, fwVars, docker, missed>>)

\* The shim is ended and another one awaited, in a limited time; then the boot is
\* over, and the first one leaves the marker and says ready.
restartRuntimeServices ==
  /\ At("restart-shim") /\ mgr' = Idle /\ booted' = TRUE
  /\ UNCHANGED <<boots, files, egVars, fwVars, docker, histVars>>

Fallible == {"begin", "freeze", "write-runtime", "write-egress", "networks", "rules", "populate",
             "kill", "wait", "restart-shim"}

\* A step fails, or a limited wait ends; the context of the manager may end too.
StepFails ==
  /\ mgr.pc \in Fallible /\ (mgr.pc \in {"kill", "wait"} => mgr.frozen) /\ Fail
  /\ Same(<<files, egVars, fwVars, docker, missed>>)

\* Without the marker a failed boot ends the machine's; with it, it is answered.
BootFailed ==
  /\ At("failed") /\ mgr' = IF booted THEN Idle ELSE [Idle EXCEPT !.pc = "off"]
  /\ Same(<<files, egVars, fwVars, docker, missed>>)

\* Killed at any point; the supervisor starts another one.
ManagerKilled ==
  /\ booted /\ mgr.pc \notin {"start", "off"} /\ ~killed /\ killed' = TRUE
  /\ mgr' = [Idle EXCEPT !.pc = "start"]
  /\ UNCHANGED <<boots, booted, files, egVars, fwVars, docker, missed>>

ManagerStep ==
  \/ Start \/ BeginBoot \/ freezeFromPIDFile \/ RemoveManagedExcept \/ writeRuntimeArtifacts
  \/ setupContainerNetwork \/ ApplyContainerNetworks \/ Populate \/ restartFrozenFromPIDFile \/ waitForReplacementPID
  \/ runContainer \/ LaunchAndWaitHealthyExcept \/ restartRuntimeServices
  \/ StepFails \/ BootFailed

Next == ManagerStep \/ handleBoot \/ ManagerKilled \/ SupervisorStep \/ EgressStep

\* Calls of Docker and nft, which nothing limits: those made while the boot holds the
\* egress daemon, and the launch.
HoldingCalls   == {"remove", "networks", "rules", "populate"}
UnlimitedCalls == HoldingCalls \cup {"launch"}

\* PID 1 restarts what ended.  The manager goes on, for its other waits are limited,
\* but any of those calls may hang.
Fairness ==
  /\ WF_vars(EgressStart) /\ WF_vars(RemovePIDFile) /\ WF_vars(ClearGroup) /\ WF_vars(EgressLoad)
  /\ WF_vars(mgr.pc \notin UnlimitedCalls /\ ManagerStep)

Spec == Init /\ [][Next]_vars
FairSpec == Spec /\ Fairness

-------------------------------------------------------------------------------
(* Properties *)

\* Every container but the toolbox, under the rules and addresses of its own.
UnderOwnPolicy ==
  \A n \in DOMAIN docker \ {Toolbox} :
     docker[n] = rules /\ (rules \in Allowlist => allow = rules)

\* What the comment on the egress engine says of it: between boots the daemon
\* works, for the containers there are, on the configuration that boot
\* generated (internal/egress/egress.go Engine).
EngineFollowsConfig ==
  mgr.pc = "idle" /\ ~killed /\ eg.st = "run" /\ DOMAIN docker \ {Toolbox} # {}
    => eg.cfg = files.egress

\* A container exists only under the firewall rules of its own configuration
\* with the allow set filled for it, and between boots the egress daemon keeps
\* that set to the same configuration, whatever boots failed before, if no
\* boot was passed by an egress daemon it had not frozen (cmd/containers/main.go
\* boot, internal/egress/egress.go Refresh).
ContainersUnderPolicy == ~missed => UnderOwnPolicy /\ EngineFollowsConfig

\* No container is left that the installed configuration does not declare: the
\* next boot could not remove it (cmd/containers/main.go boot).
NothingOrphaned ==
  /\ DOMAIN docker # {} => files.runtime # None /\ DOMAIN docker \subseteq Containers[files.runtime]
  /\ \A n \in DOMAIN docker \ {Toolbox} : docker[n] = files.runtime

\* An egress daemon that a boot stopped is followed by one that runs, however the
\* boot ends, if no call of Docker or nft that it makes meanwhile hangs for good and
\* the manager is not killed in between: the code has a limit for neither
\* (cmd/containers/main.go boot, the deferred restore).
FrozenEgressResumes ==
  []<>(mgr.pc \notin HoldingCalls) =>
    (eg.stopped ~> (eg.st = "run" /\ ~eg.stopped) \/ killed \/ pids = MaxPids)

=============================================================================
