------------------------------ MODULE BootStages ------------------------------
(***************************************************************************)
(* The boot state file and its writers.  The boot one-shot (boot/main.go)  *)
(* and after it the container manager (cmd/containers) keep the state in   *)
(* memory and flush all of it; the sandbox (cmd/sandbox) and the shim      *)
(* (shim/main.go) load the file, change one stage and write it back        *)
(* (internal/boot/state.go).  The shim runs beside all of them, reads the  *)
(* file to decide when to proxy workload traffic, and is restarted by      *)
(* PID 1 when it dies and by the container manager when containers are up. *)
(***************************************************************************)
EXTENDS Naturals, Sequences

CONSTANTS
  Images,     \* images, "inference" among them or not
  BootPlan,   \* the stages tinfoil-boot records, in order
  WorkPlan,   \* image -> the stages its workload records, in order
  Artifacts,  \* the stages whose files the shim waits for, in its order
  Shim,       \* the shim's own stage
  MaxShims    \* bound: instances of the shim

Names(plan) == {plan[i] : i \in DOMAIN plan}

ASSUME StageAssumption ==
  /\ WorkPlan \in [Images -> Seq(STRING)] /\ BootPlan \in Seq(STRING) /\ Shim \in STRING
  /\ Len(BootPlan) > 0 /\ \A m \in Images : Len(WorkPlan[m]) > 0
  /\ \A m \in Images : Shim \notin Names(BootPlan \o WorkPlan[m])
  /\ Artifacts \in Seq(Names(BootPlan)) /\ MaxShims \in Nat

VARIABLES
  \* chosen once
  image, faulty, \* reads and writes of the state file may fail
  broken,        \* whether, and when, the shim cannot build its handlers
  \* the state file
  exists, file,
  \* tinfoil-boot, then the workload
  work,          \* what the process is doing
  at,            \* position in the plan
  res,           \* result of the stage at that position
  mem,           \* the tracker's state, or the sandbox's copy of the file
  \* the shim
  shim, got, handler, copy, verdict, starts,
  \* history
  blind,         \* this shim's last look for failures could not read the file
  succeeded,     \* stages whose work ended well
  said           \* what the shim recorded last of itself once boot had exited

imageVars == <<image, faulty, broken>>
fileVars  == <<exists, file>>
workVars  == <<work, at, res, mem>>
shimVars  == <<shim, got, handler, copy, verdict, starts>>
histVars  == <<blind, succeeded, said>>
vars == <<imageVars, fileVars, workVars, shimVars, histVars>>

Plan    == BootPlan \o WorkPlan[image]
Known   == Names(Plan) \cup {Shim}
Managed == image = "inference"
Booting == at <= Len(BootPlan)

\* NewTracker.
Blank == [stages |-> [s \in Known |-> "pending"], complete |-> FALSE]

HasFailed(f) == \E s \in DOMAIN f.stages : f.stages[s] = "failed"

Recorded(f, s, status) == [f EXCEPT !.stages[s] = status]

Init ==
  /\ image \in Images /\ faulty \in BOOLEAN /\ broken \in {"no", "early", "late"}
  /\ exists = FALSE /\ file = Blank
  /\ work = "stage" /\ at = 1 /\ res = "pending" /\ mem = Blank
  /\ shim = "down" /\ got = 0 /\ handler = "none" /\ copy = Blank
  /\ verdict = "pending" /\ starts = 0
  /\ blind = FALSE /\ succeeded = {} /\ said = "none"

\* writeStateAtomic: the file is replaced as a whole, or not at all.
Written(f) == exists' = TRUE /\ file' = f
NotWritten == faulty /\ UNCHANGED fileVars
Write(f)   == Written(f) \/ NotWritten

\* Load fails without a file, and when it cannot be read.
Unread == ~exists \/ faulty

-------------------------------------------------------------------------------
(* tinfoil-boot and the container manager: one tracker after the other *)

\* The stage's own work, which leaves its files behind when it ends well.
DoStage ==
  /\ work = "stage" /\ res' \in {"ok", "failed"}
  /\ succeeded' = IF res' = "ok" THEN succeeded \cup {Plan[at]} ELSE succeeded
  /\ work' = IF Booting \/ Managed THEN "record" ELSE "load"
  /\ UNCHANGED <<imageVars, fileVars, at, mem, shimVars, blind, said>>

\* Tracker.Record.  A failed stage ends the process, and with it the boot.
Record ==
  /\ work = "record"
  /\ mem' = Recorded(mem, Plan[at], res) /\ Write(mem')
  /\ work' = IF res = "failed" THEN "exited"
             ELSE CASE at = Len(BootPlan) -> "booted"
                    [] at = Len(Plan)     -> "restart"
                    [] OTHER              -> "stage"
  /\ at' = IF res = "ok" THEN at + 1 ELSE at
  /\ UNCHANGED <<imageVars, res, shimVars, histVars>>

\* Tracker.RecordSubstages: the phases of the containers, while they launch.
RecordSubstages ==
  /\ work = "stage" /\ Managed /\ at = Len(Plan)
  /\ Write(mem)
  /\ UNCHANGED <<imageVars, workVars, shimVars, histVars>>

\* tinfoil-boot has exited and PID 1 starts the workload.
StartWorkload ==
  /\ work = "booted" /\ work' = IF Managed THEN "resume" ELSE "stage"
  /\ UNCHANGED <<imageVars, fileVars, at, res, mem, shimVars, histVars>>

\* Mutant of ResumeTracker: the manager begins with a new tracker.
ResumeTrackerAfresh ==
  /\ work = "resume" /\ mem' = Blank /\ work' = "stage"
  /\ UNCHANGED <<imageVars, fileVars, at, res, shimVars, histVars>>

\* ResumeTracker: the manager goes on from the file; without it, it exits.
ResumeTracker ==
  /\ work = "resume"
  /\ \/ exists /\ mem' = file /\ work' = "stage"
     \/ Unread /\ UNCHANGED mem /\ work' = "exited"
  /\ UNCHANGED <<imageVars, fileVars, at, res, shimVars, histVars>>

\* The containers are up: restartFromPIDFile ends the shim that the PID file names,
\* unless there is no such file or it names one that has just died, ...
RestartShim ==
  /\ work = "restart"
  /\ IF shim = "down" THEN work' \in {"up", "await"} /\ UNCHANGED <<shim, handler>>
                      ELSE work' = "await" /\ shim' = "down" /\ handler' = "none"
  /\ UNCHANGED <<imageVars, fileVars, at, res, mem, got, copy, verdict, starts, histVars>>

\* ... and waits for another one.
AwaitShim ==
  /\ work = "await" /\ shim # "down" /\ work' = "up"
  /\ UNCHANGED <<imageVars, fileVars, at, res, mem, shimVars, histVars>>

\* An error without a record, a death, or a wait that ran out: PID 1 gives the
\* boot up.  A manager that dies once it was up is started again and, with the
\* marker of the first boot there, touches the file no more.
WorkDies ==
  /\ work \notin {"up", "exited"} /\ work' = "exited"
  /\ UNCHANGED <<imageVars, fileVars, at, res, mem, shimVars, histVars>>

-------------------------------------------------------------------------------
(* The sandbox: RecordStage when its API listens, and again when it ends in an *)
(* error                                                                       *)

\* A record that fails is an error of the sandbox itself, to be recorded in turn.
Unrecorded ==
  work' = (IF res = "ok" THEN "load" ELSE "exited") /\ res' = "failed"

SandboxLoad ==
  /\ work = "load"
  /\ \/ exists /\ mem' = file /\ work' = "write" /\ UNCHANGED res
     \/ Unread /\ Unrecorded /\ UNCHANGED mem
  /\ UNCHANGED <<imageVars, fileVars, at, shimVars, histVars>>

SandboxWrite ==
  /\ work = "write"
  /\ \/ /\ Written(Recorded(mem, Plan[at], res))
        /\ work' = IF res = "ok" THEN "up" ELSE "exited"
        /\ UNCHANGED res
     \/ NotWritten /\ Unrecorded
  /\ UNCHANGED <<imageVars, at, mem, shimVars, histVars>>

SandboxFails ==
  /\ work = "up" /\ ~Managed
  /\ res' = "failed" /\ work' = "load"
  /\ UNCHANGED <<imageVars, fileVars, at, mem, shimVars, histVars>>

-------------------------------------------------------------------------------
(* The shim: upgradeWhenReady *)

\* PID 1 starts it before tinfoil-boot, and again whenever it died.
ShimStart ==
  /\ shim = "down" /\ starts < MaxShims
  /\ shim' = "artifacts" /\ got' = 0 /\ handler' = "stages" /\ starts' = starts + 1
  /\ blind' = FALSE /\ said' = "none"
  /\ UNCHANGED <<imageVars, fileVars, workVars, copy, verdict, succeeded>>

ShimCrash ==
  /\ shim # "down" /\ starts < MaxShims
  /\ shim' = "down" /\ handler' = "none"
  /\ UNCHANGED <<imageVars, fileVars, workVars, got, copy, verdict, starts, histVars>>

Fail == verdict' = "failed" /\ shim' = "load"

\* One poll of waitForArtifact: a failed stage ends it, a loaded file goes on.
\* A state file that cannot be read shows no failure.
WaitForArtifact ==
  /\ shim = "artifacts" /\ got < Len(Artifacts)
  /\ \/ exists /\ HasFailed(file) /\ Fail /\ UNCHANGED got
     \/ /\ Unread \/ ~HasFailed(file)
        /\ Artifacts[got + 1] \in succeeded
        /\ got' = got + 1 /\ UNCHANGED <<shim, verdict>>
  /\ UNCHANGED <<imageVars, fileVars, workVars, handler, copy, starts, histVars>>

\* The collaterals and the identity body, then the observability handler.
Observe ==
  /\ shim = "artifacts" /\ got = Len(Artifacts)
  /\ IF broken = "early"
     THEN Fail /\ UNCHANGED handler
     ELSE handler' = "observability" /\ shim' = "wait" /\ UNCHANGED verdict
  /\ UNCHANGED <<imageVars, fileVars, workVars, got, copy, starts, histVars>>

\* waitUntil no stage but the shim's is pending.
WaitUntil ==
  /\ shim = "wait" /\ exists
  /\ \A s \in DOMAIN file.stages \ {Shim} : file.stages[s] # "pending"
  /\ shim' = "check"
  /\ UNCHANGED <<imageVars, fileVars, workVars, got, handler, copy, verdict, starts, histVars>>

\* Mutant of Upgrade: stages that resolved count, however they did.
UpgradeResolved ==
  /\ shim = "check" /\ blind' = FALSE
  /\ IF broken = "late"
     THEN Fail /\ UNCHANGED handler
     ELSE handler' = "proxy" /\ verdict' = "ok" /\ shim' = "load"
  /\ UNCHANGED <<imageVars, fileVars, workVars, got, copy, starts, succeeded, said>>

\* The file is loaded once more for failures, and one that cannot be read counts as
\* without any; then the validator, the targets and the full handler.
Upgrade ==
  /\ shim = "check" /\ blind' \in {FALSE, faulty}
  /\ IF (~blind' /\ HasFailed(file)) \/ broken = "late"
     THEN Fail /\ UNCHANGED handler
     ELSE handler' = "proxy" /\ verdict' = "ok" /\ shim' = "load"
  /\ UNCHANGED <<imageVars, fileVars, workVars, got, copy, starts, succeeded, said>>

\* RecordStage and Complete each load the file, and give up without it: the error
\* that Load wraps is none that os.IsNotExist knows.
ShimLoad ==
  /\ shim \in {"load", "loadComplete"}
  /\ \/ exists /\ copy' = file /\ shim' = IF shim = "load" THEN "write" ELSE "complete"
     \/ Unread /\ UNCHANGED copy /\ shim' = IF shim = "load" THEN "loadComplete" ELSE "done"
  /\ UNCHANGED <<imageVars, fileVars, workVars, got, handler, verdict, starts, histVars>>

ShimRecord ==
  /\ shim = "write" /\ shim' = "loadComplete"
  /\ \/ /\ Written(Recorded(copy, Shim, verdict))
        /\ said' = IF Booting \/ work = "booted" THEN "none" ELSE verdict
     \/ NotWritten /\ UNCHANGED said
  /\ UNCHANGED <<imageVars, workVars, got, handler, copy, verdict, starts, blind, succeeded>>

Complete ==
  /\ shim = "complete" /\ shim' = "done"
  /\ Write([copy EXCEPT !.complete = TRUE])
  /\ UNCHANGED <<imageVars, workVars, got, handler, copy, verdict, starts, histVars>>

-------------------------------------------------------------------------------
WorkStep ==
  \/ DoStage \/ Record \/ StartWorkload \/ ResumeTracker \/ RestartShim \/ AwaitShim
  \/ SandboxLoad \/ SandboxWrite

ShimStep ==
  \/ ShimStart \/ WaitForArtifact \/ Observe \/ WaitUntil \/ Upgrade
  \/ ShimLoad \/ ShimRecord \/ Complete

Next ==
  WorkStep \/ ShimStep \/ RecordSubstages \/ WorkDies \/ SandboxFails \/ ShimCrash

Spec == Init /\ [][Next]_vars

\* Both processes run; nothing obliges a stage to fail or a process to die.
FairSpec == Spec /\ WF_vars(WorkStep) /\ WF_vars(ShimStep)

-------------------------------------------------------------------------------
(* Properties *)

Statuses == {"pending", "ok", "failed"}
State == [stages : [Known -> Statuses], complete : BOOLEAN]

\* Every variable has its shape.
TypeOK ==
  /\ image \in Images /\ faulty \in BOOLEAN /\ broken \in {"no", "early", "late"}
  /\ exists \in BOOLEAN /\ file \in State /\ mem \in State /\ copy \in State
  /\ work \in {"stage", "record", "booted", "resume", "restart", "await", "load",
               "write", "up", "exited"}
  /\ at \in 1..(Len(Plan) + 1) /\ res \in Statuses
  /\ shim \in {"down", "artifacts", "wait", "check", "load", "write", "loadComplete",
               "complete", "done"}
  /\ got \in 0..Len(Artifacts) /\ handler \in {"none", "stages", "observability", "proxy"}
  /\ verdict \in Statuses /\ starts \in 0..MaxShims
  /\ blind \in BOOLEAN /\ succeeded \subseteq Names(Plan) /\ said \in Statuses \cup {"none"}

\* "Wait for all boot stages (except shim) to resolve before proxying workload
\* traffic": however the writers overwrite each other, whatever flush is lost and
\* whoever is restarted, the shim proxies only when every stage really ended well.
\* The one exception is a last look for failures that could not read the file, which
\* lets the upgrade go on; even then no stage is still running, for the process that
\* would have gone on after the failed one has ended.
ProxyIsEarned ==
  handler = "proxy" => Names(Plan) \subseteq succeeded \/ (blind /\ work = "exited")

\* The workload is up, so the shim comes to proxy: the stages it waits for are
\* never erased from the file for good.  It needs a state file that can be written
\* and a shim that can be built.
UpgradeCompletes ==
  (work = "up" /\ ~faulty /\ broken = "no") ~> (handler = "proxy" \/ work # "up")

\* RecordStage is "safe to call from a separate process after boot has exited":
\* what the shim recorded of itself then is what the file says.
RecordedStays == said # "none" => file.stages[Shim] = said
===============================================================================
