-------------------------- MODULE BootStages_proofs --------------------------
(***************************************************************************)
(* For every image, every plan of stages and any number of shims, the shim *)
(* proxies only when every stage ended well, or when it could not read the *)
(* state file of a boot that has ended.  The argument follows one "ok"     *)
(* from the work it stands for through the tracker, the file and the       *)
(* copies other processes hold of it; and it needs that a failure of a     *)
(* stage ends the writing of the process that recorded it, so that no      *)
(* overwrite takes the failure back between the shim's two reads.          *)
(***************************************************************************)
EXTENDS BootStages, TLAPS

\* No copy of the state claims a success that did not happen.
Earned(f) == \A s \in Names(Plan) : f.stages[s] = "ok" => s \in succeeded

Fails(f) == \E s \in Names(Plan) : f.stages[s] = "failed"

\* The part of TypeOK that the argument uses.
Shapes ==
  /\ image \in Images /\ file \in State /\ mem \in State /\ copy \in State
  /\ at \in 1..(Len(Plan) + 1) /\ res \in Statuses /\ verdict \in Statuses

\* The stage whose result is at hand, or about to be, is one of the plan.
AtStage ==
  /\ work \in {"stage", "record", "load", "write", "booted", "resume"} => at \in 1..Len(Plan)
  /\ work = "up" /\ ~Managed => at \in 1..Len(Plan)
  /\ work = "record" => Booting \/ Managed
  /\ work \in {"restart", "await"} => Managed
  /\ work \in {"record", "load", "write"} /\ res = "ok" => Plan[at] \in succeeded

EarnedEverywhere == Earned(file) /\ Earned(mem) /\ Earned(copy)

FailureIsFinal == Fails(file) \/ Fails(mem) \/ Fails(copy) => work = "exited"

\* What the shim found before it looks at the file again.
Resolved ==
  shim = "check" => Names(Plan) \subseteq succeeded \/ Fails(file)

\* A shim that still waits does not proxy.
Waiting == shim \in {"wait", "check"} => handler # "proxy"

IInv ==
  /\ Shapes /\ AtStage /\ EarnedEverywhere /\ FailureIsFinal /\ Resolved
  /\ Waiting /\ ProxyIsEarned

-------------------------------------------------------------------------------
\* The plan of the image is a sequence of stages, none of which is the shim's.
LEMMA PlanFacts ==
  ASSUME image \in Images
  PROVE  /\ Plan \in Seq(STRING) /\ Len(Plan) > Len(BootPlan) /\ Len(BootPlan) \in Nat
         /\ Len(BootPlan) > 0
         /\ \A i \in 1..Len(Plan) : Plan[i] \in Names(Plan)
         /\ Names(Plan) \subseteq Known /\ Shim \in Known /\ Shim \notin Names(Plan)
<1>1. WorkPlan[image] \in Seq(STRING) /\ BootPlan \in Seq(STRING)
  BY StageAssumption DEF StageAssumption
<1>2. Len(BootPlan) > 0 /\ Len(WorkPlan[image]) > 0
  BY StageAssumption DEF StageAssumption
<1>3. Shim \notin Names(BootPlan \o WorkPlan[image])
  BY StageAssumption DEF StageAssumption
<1>4. /\ Plan \in Seq(STRING) /\ Len(Plan) = Len(BootPlan) + Len(WorkPlan[image])
      /\ Len(BootPlan) \in Nat /\ Len(WorkPlan[image]) \in Nat
  BY <1>1 DEF Plan
<1>5. \A i \in 1..Len(Plan) : Plan[i] \in Names(Plan)
  BY <1>4 DEF Names
<1> QED BY <1>2, <1>3, <1>4, <1>5 DEF Plan, Known

\* Nothing changes the image, and with it the plan.
LEMMA PlanConstant ==
  ASSUME UNCHANGED image
  PROVE  Plan' = Plan /\ Known' = Known /\ Managed' = Managed /\ State' = State
BY DEF Plan, Known, Managed, State

\* A new tracker is a state in which nothing is claimed.
LEMMA BlankFacts ==
  ASSUME image \in Images
  PROVE  Blank \in State /\ Earned(Blank) /\ ~Fails(Blank)
BY PlanFacts DEF Blank, State, Statuses, Earned, Fails

\* Recording a stage changes that stage and no other.
LEMMA RecordedFacts ==
  ASSUME image \in Images, NEW f \in State, NEW s \in Known, NEW status \in Statuses
  PROVE  /\ Recorded(f, s, status) \in State
         /\ Recorded(f, s, status).stages[s] = status
         /\ \A x \in Known \ {s} : Recorded(f, s, status).stages[x] = f.stages[x]
BY DEF Recorded, State

-------------------------------------------------------------------------------
\* Recording a success that happened, or a failure, keeps a state honest.
LEMMA RecordedEarned ==
  ASSUME image \in Images, NEW f \in State, Earned(f),
         NEW s \in Known, NEW status \in Statuses,
         s = Shim \/ (status = "ok" => s \in succeeded)
  PROVE  Earned(Recorded(f, s, status))
BY RecordedFacts, PlanFacts DEF Earned

\* Recording anything but a failure of a stage of the plan adds no failure.
LEMMA RecordedFails ==
  ASSUME image \in Images, NEW f \in State, NEW s \in Known, NEW status \in Statuses,
         ~Fails(f), s = Shim \/ status # "failed"
  PROVE  ~Fails(Recorded(f, s, status))
BY RecordedFacts, PlanFacts DEF Fails

\* The shim's record takes no failure of the plan away and adds none.
LEMMA ShimRecordFails ==
  ASSUME image \in Images, NEW f \in State, NEW status \in Statuses
  PROVE  Fails(Recorded(f, Shim, status)) <=> Fails(f)
BY RecordedFacts, PlanFacts DEF Fails

\* Initially nothing is claimed and nothing has failed.
LEMMA InitInv == Init => IInv
<1> SUFFICES ASSUME Init PROVE IInv
  OBVIOUS
<1>1. image \in Images /\ file = Blank /\ mem = Blank /\ copy = Blank
  BY DEF Init
<1>2. Blank \in State /\ Earned(Blank) /\ ~Fails(Blank)
  BY <1>1, BlankFacts
<1>3. Len(Plan) \in Nat /\ Len(Plan) > Len(BootPlan) /\ Len(BootPlan) \in Nat
  BY <1>1, PlanFacts
<1>4. Shapes
  BY <1>1, <1>2, <1>3 DEF Init, Shapes, Statuses
<1>5. AtStage
  BY <1>3 DEF Init, AtStage
<1>6. EarnedEverywhere /\ FailureIsFinal
  BY <1>1, <1>2 DEF EarnedEverywhere, FailureIsFinal
<1>7. Resolved /\ Waiting /\ ProxyIsEarned
  BY DEF Init, Resolved, Waiting, ProxyIsEarned
<1> QED BY <1>4, <1>5, <1>6, <1>7 DEF IInv

\* The upgrade finds every stage well, or a failure it cannot read, whose process
\* has ended; no other step makes a shim proxy, takes a success away or lets a
\* process go on that has ended.
LEMMA ProxyStays ==
  ASSUME IInv, [Next]_vars
  PROVE  Waiting' /\ ProxyIsEarned'
<1> USE DEF vars, imageVars, fileVars, workVars, shimVars, histVars
<1>0. Shapes /\ Resolved /\ FailureIsFinal /\ Waiting /\ ProxyIsEarned
  BY DEF IInv
<1>1. CASE Upgrade
  <2>1. /\ UNCHANGED <<image, work, succeeded>> /\ shim = "check" /\ shim' = "load"
        /\ handler' = "proxy" => blind' \/ ~HasFailed(file)
    BY <1>0, <1>1 DEF Upgrade, Fail, Waiting
  <2>2. Fails(file) => HasFailed(file) /\ work = "exited"
    BY <1>0, PlanFacts DEF Fails, HasFailed, Shapes, State, FailureIsFinal
  <2>3. Names(Plan) \subseteq succeeded \/ Fails(file)
    BY <1>0, <2>1 DEF Resolved
  <2> QED BY <1>0, <2>1, <2>2, <2>3, PlanConstant DEF Waiting, ProxyIsEarned
<1>2. CASE ~Upgrade
  <2>1. /\ UNCHANGED image /\ succeeded \subseteq succeeded'
        /\ work = "exited" => work' = "exited"
        /\ handler' = "proxy" => handler = "proxy" /\ blind' = blind
    <3>1. CASE WorkStep
      BY <3>1 DEF WorkStep, DoStage, Record, StartWorkload, ResumeTracker, RestartShim,
         AwaitShim, SandboxLoad, SandboxWrite, Unrecorded
    <3>2. CASE ShimStep
      BY <1>2, <3>2 DEF ShimStep, ShimStart, WaitForArtifact, Observe, WaitUntil, ShimLoad,
         ShimRecord, Complete
    <3>3. CASE RecordSubstages \/ WorkDies \/ SandboxFails \/ ShimCrash
      BY <3>3 DEF RecordSubstages, WorkDies, SandboxFails, ShimCrash
    <3>4. CASE UNCHANGED vars
      BY <3>4
    <3> QED BY <3>1, <3>2, <3>3, <3>4 DEF Next
  <2>2. Plan' = Plan
    BY <2>1, PlanConstant
  <2>3. Waiting'
    <3>1. CASE WorkStep
      BY <1>0, <3>1 DEF WorkStep, DoStage, Record, StartWorkload, ResumeTracker, RestartShim,
         AwaitShim, SandboxLoad, SandboxWrite, Waiting
    <3>2. CASE ShimStep
      BY <1>0, <1>2, <3>2 DEF ShimStep, ShimStart, WaitForArtifact, Observe, WaitUntil,
         ShimLoad, ShimRecord, Complete, Fail, Waiting
    <3>3. CASE RecordSubstages \/ WorkDies \/ SandboxFails \/ ShimCrash
      BY <1>0, <3>3 DEF RecordSubstages, WorkDies, SandboxFails, ShimCrash, Waiting
    <3>4. CASE UNCHANGED vars
      BY <1>0, <3>4 DEF Waiting
    <3> QED BY <3>1, <3>2, <3>3, <3>4 DEF Next
  <2> QED BY <1>0, <2>1, <2>2, <2>3 DEF ProxyIsEarned
<1> QED BY <1>1, <1>2

\* A step that moves neither the states, the stage, the successes nor the shim.
LEMMA Untouched ==
  ASSUME IInv, UNCHANGED <<image, file, mem, copy, at, res, verdict, succeeded>>,
         AtStage', Waiting', ProxyIsEarned', work = "exited" => work' = "exited",
         shim' = "check" => shim = "check"
  PROVE  IInv'
<1> USE DEF IInv
<1>1. Plan' = Plan /\ State' = State
  BY PlanConstant
<1>2. Shapes'
  BY <1>1 DEF Shapes
<1>3. EarnedEverywhere' /\ FailureIsFinal'
  BY <1>1 DEF EarnedEverywhere, FailureIsFinal, Earned, Fails
<1>4. Resolved'
  BY <1>1 DEF Resolved, Fails
<1> QED BY <1>2, <1>3, <1>4

\* The shim's position plays no part in where the work is.
LEMMA ShimLeavesStage ==
  ASSUME AtStage, UNCHANGED <<image, workVars, succeeded>>
  PROVE  AtStage'
BY PlanConstant DEF AtStage, workVars, Booting

\* Every step of the work, of the shim and of those that end them preserves it.
LEMMA NextInv == IInv /\ [Next]_vars => IInv'
<1> SUFFICES ASSUME IInv, [Next]_vars PROVE IInv'
  OBVIOUS
<1>s. Shapes /\ AtStage /\ EarnedEverywhere /\ FailureIsFinal /\ Resolved /\ ProxyIsEarned
  BY DEF IInv
<1>0. image \in Images /\ UNCHANGED image
  BY <1>s DEF Shapes, Next, WorkStep, ShimStep, vars, imageVars, DoStage, Record,
     StartWorkload, ResumeTracker, RestartShim, AwaitShim, SandboxLoad, SandboxWrite,
     ShimStart, WaitForArtifact, Observe, WaitUntil, Upgrade, ShimLoad, ShimRecord,
     Complete, RecordSubstages, WorkDies, SandboxFails, ShimCrash
<1>1. /\ Plan' = Plan /\ Known' = Known /\ Managed' = Managed /\ State' = State
      /\ Booting' = (at' <= Len(BootPlan))
  BY <1>0, PlanConstant DEF Booting
<1>2. /\ Len(Plan) \in Nat /\ Len(BootPlan) \in Nat /\ Len(Plan) > Len(BootPlan)
      /\ Len(BootPlan) > 0
      /\ \A i \in 1..Len(Plan) : Plan[i] \in Names(Plan)
      /\ Names(Plan) \subseteq Known /\ Shim \in Known /\ Shim \notin Names(Plan)
  BY <1>0, PlanFacts
<1>p. Waiting' /\ ProxyIsEarned'
  BY ProxyStays
<1>3. CASE DoStage
  <2>1. succeeded \subseteq succeeded' /\ (res' = "ok" => Plan[at] \in succeeded')
    BY <1>3 DEF DoStage
  <2>2. Shapes'
    BY <1>s, <1>1, <1>3 DEF DoStage, Shapes, Statuses, imageVars, fileVars, shimVars
  <2>3. AtStage'
    <3>1. at' = at /\ at \in 1..Len(Plan) /\ work' \in {"record", "load"}
      BY <1>s, <1>3 DEF DoStage, AtStage
    <3>2. work' = "record" => Booting \/ Managed
      BY <1>3 DEF DoStage
    <3> QED BY <2>1, <3>1, <3>2, <1>1 DEF AtStage, Booting
  <2>4. EarnedEverywhere'
    BY <2>1, <1>s, <1>1, <1>3 DEF DoStage, EarnedEverywhere, Earned, fileVars, shimVars
  <2>5. FailureIsFinal'
    BY <1>s, <1>1, <1>3 DEF DoStage, FailureIsFinal, Fails, fileVars, shimVars
  <2>6. Resolved'
    BY <2>1, <1>s, <1>1, <1>3 DEF DoStage, Resolved, Fails, fileVars, shimVars
  <2> QED BY <1>p, <2>2, <2>3, <2>4, <2>5, <2>6 DEF IInv
<1>4. CASE Record
  <2>1. /\ work = "record" /\ at \in 1..Len(Plan) /\ res \in Statuses /\ mem \in State
        /\ (res = "ok" => Plan[at] \in succeeded) /\ (Booting \/ Managed)
        /\ Plan[at] \in Names(Plan) /\ Plan[at] \in Known
    BY <1>s, <1>2, <1>4 DEF Record, AtStage, Shapes
  <2>2. /\ mem' = Recorded(mem, Plan[at], res) /\ (file' = mem' \/ file' = file)
        /\ UNCHANGED <<copy, succeeded, shim, handler, verdict, res>>
    BY <1>4 DEF Record, Write, Written, NotWritten, fileVars, shimVars, histVars
  <2>3. mem' \in State /\ Earned(mem')
    BY <1>0, <1>s, <2>1, <2>2, RecordedFacts, RecordedEarned DEF EarnedEverywhere
  <2>4. ~Fails(file) /\ ~Fails(mem) /\ ~Fails(copy)
    BY <1>s, <2>1 DEF FailureIsFinal
  <2>5. res # "failed" => ~Fails(mem')
    BY <1>0, <2>1, <2>2, <2>4, RecordedFails
  <2>6. res = "failed" => work' = "exited"
    BY <1>4 DEF Record
  <2>7. Shapes'
    BY <1>0, <1>s, <1>1, <1>2, <1>4, <2>1, <2>2, <2>3 DEF Record, Shapes
  <2>8. AtStage'
    <3>1. CASE res = "failed"
      BY <2>6, <3>1 DEF AtStage
    <3>2. CASE res # "failed" /\ at = Len(BootPlan)
      <4>1. work' = "booted" /\ at' \in 1..Len(Plan)
        BY <1>2, <1>4, <3>2 DEF Record
      <4> QED BY <4>1, <1>1 DEF AtStage
    <3>3. CASE res # "failed" /\ at # Len(BootPlan) /\ at = Len(Plan)
      <4>1. work' = "restart" /\ Managed
        BY <1>2, <1>4, <2>1, <3>3 DEF Record, Booting
      <4> QED BY <4>1, <1>1 DEF AtStage
    <3>4. CASE res # "failed" /\ at # Len(BootPlan) /\ at # Len(Plan)
      <4>1. work' = "stage" /\ at' \in 1..Len(Plan)
        BY <1>2, <1>4, <2>1, <3>4 DEF Record
      <4> QED BY <4>1, <1>1 DEF AtStage
    <3> QED BY <3>1, <3>2, <3>3, <3>4
  <2>9. EarnedEverywhere'
    BY <1>s, <1>1, <2>2, <2>3 DEF EarnedEverywhere, Earned
  <2>10. FailureIsFinal'
    BY <1>1, <2>2, <2>4, <2>5, <2>6 DEF FailureIsFinal, Fails
  <2>11. Resolved'
    BY <1>s, <1>1, <2>2, <2>4 DEF Resolved
  <2> QED BY <1>p, <2>7, <2>8, <2>9, <2>10, <2>11 DEF IInv
<1>5. CASE RecordSubstages
  <2>1. /\ work = "stage" /\ (file' = mem \/ file' = file)
        /\ UNCHANGED <<work, at, res, mem, copy, succeeded, shim, handler, verdict>>
    BY <1>5 DEF RecordSubstages, Write, Written, NotWritten, fileVars, workVars, shimVars,
       histVars
  <2>2. ~Fails(file) /\ ~Fails(mem) /\ ~Fails(copy)
    BY <1>s, <2>1 DEF FailureIsFinal
  <2>3. Shapes'
    BY <1>0, <1>s, <1>1, <2>1 DEF Shapes
  <2>4. AtStage'
    BY <1>s, <1>1, <2>1 DEF AtStage, Booting
  <2>5. EarnedEverywhere' /\ FailureIsFinal'
    BY <1>s, <1>1, <2>1, <2>2 DEF EarnedEverywhere, Earned, FailureIsFinal, Fails
  <2>6. Resolved'
    BY <1>s, <1>1, <2>1, <2>2 DEF Resolved
  <2> QED BY <1>p, <2>3, <2>4, <2>5, <2>6 DEF IInv
<1>6. CASE StartWorkload \/ RestartShim \/ AwaitShim \/ WorkDies
  <2>1. /\ UNCHANGED <<image, file, mem, copy, at, res, verdict, succeeded>>
        /\ work # "exited" /\ (shim' = "check" => shim = "check")
        /\ (handler' = "proxy" => handler = "proxy")
    BY <1>0, <1>6 DEF StartWorkload, RestartShim, AwaitShim, WorkDies, fileVars, shimVars,
       histVars, imageVars
  <2>2. AtStage'
    BY <1>s, <1>1, <1>6, <2>1
       DEF AtStage, StartWorkload, RestartShim, AwaitShim, WorkDies
  <2> QED BY <1>p, <2>1, <2>2, Untouched
<1>7. CASE ResumeTracker \/ SandboxLoad
  <2>1. /\ work \in {"resume", "load"} /\ (mem' = file \/ mem' = mem)
        /\ UNCHANGED <<file, at, copy, succeeded, shim, handler, verdict>>
        /\ res' \in {res, "failed"} /\ work' \in {"stage", "write", "load", "exited"}
        /\ (work = "resume" => work' \in {"stage", "exited"})
        /\ (work = "load" => work' # "stage")
    BY <1>7 DEF ResumeTracker, SandboxLoad, Unrecorded, fileVars, shimVars, histVars
  <2>2. ~Fails(file) /\ ~Fails(mem) /\ ~Fails(copy)
    BY <1>s, <2>1 DEF FailureIsFinal
  <2>3. Shapes'
    BY <1>0, <1>s, <1>1, <2>1 DEF Shapes, Statuses
  <2>4. AtStage'
    BY <1>s, <1>1, <2>1 DEF AtStage
  <2>5. EarnedEverywhere' /\ FailureIsFinal'
    BY <1>s, <1>1, <2>1, <2>2 DEF EarnedEverywhere, Earned, FailureIsFinal, Fails
  <2>6. Resolved'
    BY <1>s, <1>1, <2>1 DEF Resolved, Fails
  <2> QED BY <1>p, <2>3, <2>4, <2>5, <2>6 DEF IInv
<1>8. CASE SandboxWrite
  <2>1. /\ work = "write" /\ at \in 1..Len(Plan) /\ res \in Statuses /\ mem \in State
        /\ (res = "ok" => Plan[at] \in succeeded)
        /\ Plan[at] \in Names(Plan) /\ Plan[at] \in Known
    BY <1>s, <1>2, <1>8 DEF SandboxWrite, AtStage, Shapes
  <2>2. /\ UNCHANGED <<at, mem, copy, succeeded, shim, handler, verdict>>
        /\ \/ /\ file' = Recorded(mem, Plan[at], res) /\ res' = res
              /\ work' = IF res = "ok" THEN "up" ELSE "exited"
           \/ file' = file /\ work' \in {"load", "exited"} /\ res' = "failed"
    BY <1>8 DEF SandboxWrite, Unrecorded, Written, NotWritten, fileVars, shimVars, histVars
  <2>3. /\ Recorded(mem, Plan[at], res) \in State /\ Earned(Recorded(mem, Plan[at], res))
    BY <1>0, <1>s, <2>1, RecordedFacts, RecordedEarned DEF EarnedEverywhere
  <2>4. ~Fails(file) /\ ~Fails(mem) /\ ~Fails(copy)
    BY <1>s, <2>1 DEF FailureIsFinal
  <2>5. res = "ok" => ~Fails(Recorded(mem, Plan[at], res))
    BY <1>0, <2>1, <2>4, RecordedFails
  <2>6. Shapes'
    BY <1>0, <1>s, <1>1, <2>1, <2>2, <2>3 DEF Shapes, Statuses
  <2>7. AtStage'
    BY <1>1, <2>1, <2>2 DEF AtStage
  <2>8. EarnedEverywhere'
    BY <1>s, <1>1, <2>2, <2>3 DEF EarnedEverywhere, Earned
  <2>9. FailureIsFinal'
    BY <1>1, <2>2, <2>4, <2>5 DEF FailureIsFinal, Fails
  <2>10. Resolved'
    BY <1>s, <1>1, <2>2, <2>4 DEF Resolved
  <2> QED BY <1>p, <2>6, <2>7, <2>8, <2>9, <2>10 DEF IInv
<1>9. CASE SandboxFails
  <2>1. /\ work = "up" /\ ~Managed /\ work' = "load" /\ res' = "failed"
        /\ UNCHANGED <<file, mem, copy, at, succeeded, shim, handler, verdict>>
    BY <1>9 DEF SandboxFails, fileVars, shimVars, histVars
  <2>2. Shapes' /\ AtStage'
    BY <1>0, <1>s, <1>1, <2>1 DEF Shapes, AtStage, Statuses
  <2>3. EarnedEverywhere' /\ FailureIsFinal' /\ Resolved'
    BY <1>s, <1>1, <2>1
       DEF EarnedEverywhere, Earned, FailureIsFinal, Fails, Resolved
  <2> QED BY <1>p, <2>2, <2>3 DEF IInv
<1>10. CASE ShimStart \/ ShimCrash
  <2>1. /\ UNCHANGED <<image, file, workVars, copy, verdict, succeeded>>
        /\ shim' # "check" /\ handler' # "proxy"
    BY <1>0, <1>10 DEF ShimStart, ShimCrash, fileVars, histVars
  <2>2. AtStage'
    BY <1>s, <2>1, ShimLeavesStage
  <2> QED BY <1>p, <2>1, <2>2, Untouched DEF workVars
<1>11. CASE WaitForArtifact \/ Observe
  <2>1. /\ UNCHANGED <<image, file, workVars, copy, succeeded>>
        /\ shim' # "check" /\ verdict' \in {verdict, "failed"}
        /\ (handler' = "proxy" => handler = "proxy")
    BY <1>0, <1>11 DEF WaitForArtifact, Observe, Fail, fileVars, histVars
  <2>2. AtStage'
    BY <1>s, <2>1, ShimLeavesStage
  <2>3. Shapes' /\ EarnedEverywhere'
    BY <1>s, <1>1, <2>1 DEF Shapes, Statuses, workVars, EarnedEverywhere, Earned
  <2>4. FailureIsFinal' /\ Resolved'
    BY <1>s, <1>1, <2>1 DEF FailureIsFinal, Fails, Resolved, workVars
  <2> QED BY <1>p, <2>2, <2>3, <2>4 DEF IInv
<1>12. CASE WaitUntil
  <2>1. /\ UNCHANGED <<image, file, workVars, copy, verdict, succeeded, handler>>
        /\ \A s \in DOMAIN file.stages \ {Shim} : file.stages[s] # "pending"
    BY <1>0, <1>12 DEF WaitUntil, fileVars, histVars
  <2>2. \A s \in Names(Plan) : file.stages[s] \in {"ok", "failed"}
    BY <1>s, <1>2, <2>1 DEF Shapes, State, Statuses
  <2>3. Names(Plan) \subseteq succeeded \/ Fails(file)
    BY <1>s, <2>2 DEF EarnedEverywhere, Earned, Fails
  <2>4. AtStage'
    BY <1>s, <2>1, ShimLeavesStage
  <2>5. Shapes' /\ EarnedEverywhere'
    BY <1>s, <1>1, <2>1 DEF Shapes, workVars, EarnedEverywhere, Earned
  <2>6. FailureIsFinal' /\ Resolved'
    BY <1>s, <1>1, <2>1, <2>3 DEF FailureIsFinal, Fails, Resolved, workVars
  <2> QED BY <1>p, <2>4, <2>5, <2>6 DEF IInv
<1>13. CASE Upgrade
  <2>1. /\ UNCHANGED <<image, file, workVars, copy, succeeded>>
        /\ shim' # "check" /\ verdict' \in {"ok", "failed"}
    BY <1>0, <1>13 DEF Upgrade, Fail, fileVars
  <2>2. AtStage'
    BY <1>s, <2>1, ShimLeavesStage
  <2>3. Shapes' /\ EarnedEverywhere'
    BY <1>s, <1>1, <2>1 DEF Shapes, Statuses, workVars, EarnedEverywhere, Earned
  <2>4. FailureIsFinal' /\ Resolved'
    BY <1>s, <1>1, <2>1 DEF FailureIsFinal, Fails, Resolved, workVars
  <2> QED BY <1>p, <2>2, <2>3, <2>4 DEF IInv
<1>14. CASE ShimLoad
  <2>1. /\ UNCHANGED <<image, file, workVars, verdict, succeeded, handler>>
        /\ copy' \in {file, copy} /\ shim' # "check"
    BY <1>0, <1>14 DEF ShimLoad, fileVars, histVars
  <2>2. AtStage'
    BY <1>s, <2>1, ShimLeavesStage
  <2>3. Shapes' /\ EarnedEverywhere'
    BY <1>s, <1>1, <2>1 DEF Shapes, workVars, EarnedEverywhere, Earned
  <2>4. FailureIsFinal' /\ Resolved'
    BY <1>s, <1>1, <2>1 DEF FailureIsFinal, Fails, Resolved, workVars
  <2> QED BY <1>p, <2>2, <2>3, <2>4 DEF IInv
<1>15. CASE ShimRecord \/ Complete
  <2> DEFINE g == Recorded(copy, Shim, verdict)
             c == [copy EXCEPT !.complete = TRUE]
  <2>1. /\ UNCHANGED <<image, workVars, copy, verdict, succeeded, handler>>
        /\ file' \in {file, g, c} /\ shim' # "check"
    BY <1>0, <1>15 DEF ShimRecord, Complete, Write, Written, NotWritten, fileVars, histVars
  <2>2. copy \in State /\ verdict \in Statuses
    BY <1>s DEF Shapes
  <2>3. g \in State /\ Earned(g) /\ (Fails(g) <=> Fails(copy))
    BY <1>0, <1>s, <1>2, <2>2, RecordedFacts, RecordedEarned, ShimRecordFails
       DEF EarnedEverywhere
  <2>4. c \in State /\ c.stages = copy.stages
    BY <2>2 DEF State
  <2>5. Earned(c) /\ (Fails(c) <=> Fails(copy))
    BY <1>s, <2>4 DEF EarnedEverywhere, Earned, Fails
  <2>6. AtStage'
    BY <1>s, <2>1, ShimLeavesStage
  <2> HIDE DEF g, c
  <2>7. Shapes'
    BY <1>s, <1>1, <2>1, <2>3, <2>4 DEF Shapes, workVars
  <2>8. EarnedEverywhere'
    <3>1. Earned(file') /\ Earned(mem) /\ Earned(copy)
      BY <1>s, <2>1, <2>3, <2>5 DEF EarnedEverywhere
    <3> QED BY <1>1, <2>1, <3>1 DEF EarnedEverywhere, Earned, workVars
  <2>9. FailureIsFinal'
    <3>1. Fails(file') \/ Fails(mem) \/ Fails(copy) => work = "exited"
      BY <1>s, <2>1, <2>3, <2>5 DEF FailureIsFinal
    <3> QED BY <1>1, <2>1, <3>1 DEF FailureIsFinal, Fails, workVars
  <2>10. Resolved'
    BY <1>s, <1>1, <2>1 DEF Resolved
  <2> QED BY <1>p, <2>6, <2>7, <2>8, <2>9, <2>10 DEF IInv
<1>16. CASE UNCHANGED vars
  <2>1. UNCHANGED <<image, file, workVars, copy, verdict, succeeded, shim, handler>>
    BY <1>16 DEF vars, imageVars, fileVars, shimVars, histVars
  <2>2. AtStage'
    BY <1>s, <2>1, ShimLeavesStage
  <2> QED BY <1>p, <2>1, <2>2, Untouched DEF workVars
<1> QED
  BY <1>3, <1>4, <1>5, <1>6, <1>7, <1>8, <1>9, <1>10, <1>11, <1>12, <1>13, <1>14, <1>15, <1>16
     DEF Next, WorkStep, ShimStep

\* For every image, plan and number of shims, and whatever reads and writes fail or
\* overwrite each other, the shim proxies only when every stage really ended well, or
\* when its last look for failures could not read the file of a boot that has ended.
THEOREM ProxyEarned == Spec => []ProxyIsEarned
<1>1. IInv => ProxyIsEarned
  BY DEF IInv
<1> QED BY <1>1, InitInv, NextInv, PTL DEF Spec

\* Once a stage of the plan is recorded as failed, in the file, in the tracker or in
\* the shim's copy, the process that recorded it has ended: a boot or a workload never
\* goes on after a failed stage, and only a stale copy can still hide the failure.
THEOREM FailureEndsWork == Spec => []FailureIsFinal
<1>1. IInv => FailureIsFinal
  BY DEF IInv
<1> QED BY <1>1, InitInv, NextInv, PTL DEF Spec

-------------------------------------------------------------------------------
\* The rest of TypeOK: the Boolean variables, and the ones with few values.
Flags == faulty \in BOOLEAN /\ exists \in BOOLEAN /\ blind \in BOOLEAN

Positions ==
  /\ broken \in {"no", "early", "late"}
  /\ work \in {"stage", "record", "booted", "resume", "restart", "await", "load",
               "write", "up", "exited"}
  /\ shim \in {"down", "artifacts", "wait", "check", "load", "write", "loadComplete",
               "complete", "done"}
  /\ got \in 0..Len(Artifacts) /\ handler \in {"none", "stages", "observability", "proxy"}
  /\ starts \in 0..MaxShims /\ said \in Statuses \cup {"none"}
  /\ succeeded \subseteq Names(Plan)

\* The flags stay Boolean: the file appears once, the rest is chosen at the start.
LEMMA FlagsStep == Flags /\ [Next]_vars => Flags'
<1> SUFFICES ASSUME Flags, [Next]_vars PROVE Flags'
  OBVIOUS
<1>1. UNCHANGED faulty /\ (exists' = TRUE \/ UNCHANGED exists)
      /\ blind' \in {blind, FALSE, faulty}
  BY DEF Next, WorkStep, ShimStep, vars, imageVars, fileVars, DoStage, Record,
     StartWorkload, ResumeTracker, RestartShim, AwaitShim, SandboxLoad, SandboxWrite,
     ShimStart, WaitForArtifact, Observe, WaitUntil, Upgrade, ShimLoad, ShimRecord,
     Complete, RecordSubstages, WorkDies, SandboxFails, ShimCrash, Write, Written, NotWritten,
     histVars
<1> QED BY <1>1, Zenon DEF Flags

\* Every process stays at one of its own steps.
LEMMA PositionsStep == IInv /\ Positions /\ [Next]_vars => Positions'
<1> SUFFICES ASSUME IInv, Positions, [Next]_vars PROVE Positions'
  OBVIOUS
<1> USE DEF Positions
<1>0. Shapes /\ AtStage
  BY DEF IInv
<1>1. Len(Artifacts) \in Nat /\ MaxShims \in Nat
  BY StageAssumption DEF StageAssumption
<1>2. CASE DoStage
  <2>1. at \in 1..Len(Plan) /\ Plan' = Plan
    BY <1>0, <1>2, PlanConstant DEF DoStage, AtStage, imageVars
  <2>2. Plan[at] \in Names(Plan)
    BY <1>0, <2>1, PlanFacts DEF Shapes
  <2>3. succeeded' \subseteq Names(Plan)
    BY <1>2, <2>2 DEF DoStage
  <2> QED BY <1>2, <2>1, <2>3 DEF DoStage, imageVars, shimVars
<1>3. UNCHANGED image /\ ~DoStage => UNCHANGED <<broken, succeeded>>
  BY DEF Next, WorkStep, ShimStep, vars, imageVars, histVars, Record,
     StartWorkload, ResumeTracker, RestartShim, AwaitShim, SandboxLoad, SandboxWrite,
     ShimStart, WaitForArtifact, Observe, WaitUntil, Upgrade, ShimLoad, ShimRecord,
     Complete, RecordSubstages, WorkDies, SandboxFails, ShimCrash
<1>4. UNCHANGED image
  BY DEF Next, WorkStep, ShimStep, vars, imageVars, DoStage, Record,
     StartWorkload, ResumeTracker, RestartShim, AwaitShim, SandboxLoad, SandboxWrite,
     ShimStart, WaitForArtifact, Observe, WaitUntil, Upgrade, ShimLoad, ShimRecord,
     Complete, RecordSubstages, WorkDies, SandboxFails, ShimCrash
<1>5. ~DoStage => Plan' = Plan /\ UNCHANGED <<broken, succeeded>>
  BY <1>3, <1>4, PlanConstant
<1>6. CASE \/ Record \/ StartWorkload \/ ResumeTracker \/ AwaitShim \/ SandboxLoad
           \/ SandboxWrite \/ RecordSubstages \/ WorkDies \/ SandboxFails
  <2>1. /\ UNCHANGED <<shim, got, handler, starts, said>>
        /\ work' \in {work, "exited", "booted", "restart", "stage", "resume", "up", "write",
                     "load"}
    BY <1>6 DEF Record, StartWorkload, ResumeTracker, AwaitShim, SandboxLoad,
       SandboxWrite, Unrecorded, RecordSubstages, WorkDies, SandboxFails, shimVars, histVars,
       workVars
  <2> QED BY <1>2, <1>5, <2>1
<1>7. CASE RestartShim
  <2>1. /\ UNCHANGED <<got, starts, said>> /\ work' \in {"up", "await"}
        /\ shim' \in {shim, "down"} /\ handler' \in {handler, "none"}
    BY <1>7 DEF RestartShim, histVars
  <2> QED BY <1>2, <1>5, <2>1
<1>8. CASE \/ ShimStart \/ ShimCrash \/ WaitForArtifact \/ Observe \/ WaitUntil \/ Upgrade
           \/ ShimLoad
  <2>1. UNCHANGED work /\ said' \in {said, "none"}
    BY <1>8 DEF ShimStart, ShimCrash, WaitForArtifact, Observe, WaitUntil, Upgrade, ShimLoad,
       workVars, histVars
  <2>2. got' \in 0..Len(Artifacts) /\ starts' \in 0..MaxShims
    <3>1. CASE WaitForArtifact
      <4>1. starts' = starts /\ (got' = got \/ (got < Len(Artifacts) /\ got' = got + 1))
        BY <3>1 DEF WaitForArtifact
      <4> QED BY <1>1, <4>1
    <3>2. CASE ShimStart \/ ShimCrash \/ Observe \/ WaitUntil \/ Upgrade \/ ShimLoad
      <4>1. /\ got' = got \/ got' = 0
            /\ starts' = starts \/ (starts < MaxShims /\ starts' = starts + 1)
        BY <3>2 DEF ShimStart, ShimCrash, Observe, WaitUntil, Upgrade, ShimLoad
      <4> QED BY <1>1, <4>1
    <3> QED BY <1>8, <3>1, <3>2
  <2>3. /\ shim' \in {shim, "down", "artifacts", "wait", "check", "load", "write",
                      "complete", "loadComplete", "done"}
        /\ handler' \in {handler, "stages", "none", "observability", "proxy"}
    BY <1>8 DEF ShimStart, ShimCrash, WaitForArtifact, Observe, WaitUntil, Upgrade, ShimLoad,
       Fail
  <2> QED BY <1>2, <1>5, <2>1, <2>2, <2>3
<1>9. CASE ShimRecord \/ Complete
  <2>1. /\ UNCHANGED <<work, got, handler, starts>> /\ shim' \in {"loadComplete", "done"}
        /\ said' \in {said, "none", verdict}
    BY <1>9 DEF ShimRecord, Complete, workVars, histVars, NotWritten
  <2> QED BY <1>0, <1>2, <1>5, <2>1 DEF Shapes
<1>10. CASE UNCHANGED vars
  BY <1>2, <1>5, <1>10 DEF vars, workVars, shimVars, histVars
<1> QED BY <1>2, <1>6, <1>7, <1>8, <1>9, <1>10 DEF Next, WorkStep, ShimStep

\* The variables keep their shape for every image, plan and number of shims.
THEOREM TypeCorrect == Spec => []TypeOK
<1>1. Init => Flags
  BY Zenon DEF Init, Flags
<1>2. Init => Positions
  BY StageAssumption DEF StageAssumption, Init, Positions
<1>3. Shapes /\ Flags /\ Positions => TypeOK
  BY Zenon DEF Shapes, Flags, Positions, TypeOK
<1>4. IInv => Shapes
  BY DEF IInv
<1> QED
  BY <1>1, <1>2, <1>3, <1>4, InitInv, NextInv, FlagsStep, PositionsStep, PTL DEF Spec
===============================================================================
