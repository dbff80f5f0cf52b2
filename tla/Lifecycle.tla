------------------------------- MODULE Lifecycle -------------------------------
(***************************************************************************)
(* runLifecycle of pid1/main.go over the supervisor and the readiness      *)
(* gate.  One thread starts the services in order, publishes readiness,    *)
(* waits for the shutdown signal, and in its deferred calls fails          *)
(* readiness closed and drains.                                            *)
(***************************************************************************)
EXTENDS Supervisor

CONSTANTS
  Plan,      \* the boot: a sequence of services to start and opaque steps
  Step,      \* an element of Plan that is a one-shot or a setup call
  Optional,  \* services whose failed start does not fail the boot
  Required,  \* Spec.RequiredServices
  SetMayFail, \* the readiness file may be unwritable
  Debug      \* the image has a debug console, which parks a failed boot

ASSUME LifecycleAssumption ==
  /\ Plan \in Seq(Services \cup {Step}) /\ Step \notin Services
  /\ Optional \subseteq Services
  /\ Required \subseteq Services \ Forking
  /\ Debug \in BOOLEAN /\ SetMayFail \in BOOLEAN

VARIABLES
  required, published, failed, readyFile, setErr,
  parentDone,  \* SIGINT or SIGTERM arrived
  at,          \* position in Plan
  stage,       \* where runLifecycle is
  result       \* the error runLifecycle is about to return

Gate == INSTANCE Readiness
gateVars == <<required, published, failed, readyFile, setErr>>
lifeVars == <<parentDone, at, stage, result>>
allVars == <<vars, gateVars, lifeVars>>

LInit ==
  /\ Init /\ Gate!Init
  /\ parentDone = FALSE /\ at = 1 /\ stage = "boot" /\ result = "nil"

-------------------------------------------------------------------------------
\* A failed step runs the deferred calls, after a park on a debug image whose
\* console was already started.
Fail == /\ result' = "err"
        /\ stage' \in IF Debug THEN {"debug", "unwind"} ELSE {"unwind"}

InPlan == stage = "boot" /\ at \in DOMAIN Plan
Booting(s) == InPlan /\ Plan[at] = s

\* A setup call or one-shot succeeds, or fails (its context may be done).
PlainStep ==
  /\ InPlan /\ Plan[at] = Step
  /\ \/ at' = at + 1 /\ UNCHANGED <<stage, result>>
     \/ Fail /\ UNCHANGED at
  /\ UNCHANGED <<vars, gateVars, parentDone>>

\* services.Start is entered; its own steps follow in Supervisor.
CallStart(s) ==
  /\ Booting(s)
  /\ Start(s)
  /\ UNCHANGED <<gateVars, at, stage, result, parentDone>>

\* services.Start has returned, with the report it emitted last.
StartReturned(s) ==
  \/ /\ outcome'[s] = "ok" \/ s \in Optional
     /\ at' = at + 1 /\ UNCHANGED <<stage, result>>
  \/ /\ outcome'[s] = "err" /\ s \notin Optional
     /\ Fail /\ UNCHANGED at

\* Mutant of Observe: only ready reports reach the gate.
ObserveReadyOnly(s, ready) ==
  IF s \in Required /\ ~failed /\ ready
  THEN Gate!Update(s, ready)
  ELSE UNCHANGED gateVars

\* Observe: the emitting thread runs readiness.Update before it goes on.
Observe(s, ready) == Gate!Update(s, ready) \/ Gate!UpdateIgnored(s)

LEmitReady(s) ==
  /\ EmitReady(s) /\ Observe(s, TRUE)
  /\ IF fresh[s] THEN StartReturned(s) ELSE UNCHANGED <<at, stage, result>>
  /\ UNCHANGED parentDone

LEmitFailed(s) ==
  /\ EmitFailed(s) /\ Observe(s, FALSE)
  /\ StartReturned(s) /\ UNCHANGED parentDone

LEmitDown(s) ==
  /\ EmitDown(s) \/ EmitUnready(s)
  /\ Observe(s, FALSE)
  /\ UNCHANGED lifeVars

PublishReadiness ==
  /\ stage = "boot" /\ at = Len(Plan) + 1
  /\ Gate!Publish
  /\ \/ setErr' = setErr /\ stage' = "serve" /\ UNCHANGED result
     \/ setErr' /\ Fail
  /\ UNCHANGED <<vars, at, parentDone>>

\* The signal arrives: the supervisor's context derives from this one.
Signal ==
  /\ ~parentDone /\ parentDone' = TRUE
  /\ cancelled' = TRUE
  /\ UNCHANGED <<kernelVars, mgrVars, mu, recVars, thrVars, stopVars,
                 draining, group, drainErr, gateVars, at, stage, result>>

\* Mutant of ShutdownRequested: a parked debug image does not watch the signal.
ShutdownRequestedServing ==
  /\ stage = "serve" /\ parentDone
  /\ stage' = "unwind"
  /\ UNCHANGED <<vars, gateVars, at, result, parentDone>>

ShutdownRequested ==
  /\ stage \in {"serve", "debug"} /\ parentDone
  /\ stage' = "unwind"
  /\ UNCHANGED <<vars, gateVars, at, result, parentDone>>

CloseReadiness ==
  /\ stage = "unwind" /\ Gate!FailClosed
  /\ stage' = "drain"
  /\ UNCHANGED <<vars, at, result, parentDone>>

CallDrain ==
  /\ stage = "drain" /\ DrainBegin
  /\ UNCHANGED <<gateVars, lifeVars>>

\* Mutant of DrainReturned: a failed boot counts as a clean end.
DrainReturnedClean ==
  /\ stage = "drain" /\ Drained
  /\ result' = IF drainErr THEN "err" ELSE "nil"
  /\ stage' = IF result' = "nil" THEN "off" ELSE "park"
  /\ UNCHANGED <<vars, gateVars, at, parentDone>>

\* Drain returned: once a shutdown was requested only its own error counts.  The
\* debug console is stopped last, and its error counts again.
DrainReturned ==
  /\ stage = "drain" /\ Drained
  /\ \E console \in IF Debug THEN {"nil", "err"} ELSE {"nil"} :
       result' = IF drainErr \/ (result = "err" /\ ~parentDone) THEN "err" ELSE console
  /\ stage' = IF result' = "nil" THEN "off" ELSE "park"
  /\ UNCHANGED <<vars, gateVars, at, parentDone>>

LNext ==
  \/ InternalStep /\ UNCHANGED <<gateVars, lifeVars>>
  \/ \E s \in Services :
       CallStart(s) \/ LEmitReady(s) \/ LEmitFailed(s) \/ LEmitDown(s)
  \/ PlainStep \/ PublishReadiness \/ Signal \/ ShutdownRequested
  \/ CloseReadiness \/ CallDrain \/ DrainReturned

LSpec == LInit /\ [][LNext]_allVars

\* Mutexes are starvation free, timers fire, a child that was sent SIGKILL dies,
\* the manager's goroutine and the lifecycle's own thread are scheduled.  No child
\* is otherwise obliged to do anything, and nothing obliges the signal to arrive.
Internal(A) == A /\ UNCHANGED <<gateVars, lifeVars>>
LFairness ==
  /\ WF_allVars(Internal(ManagerStep)) /\ WF_allVars(Internal(DrainStep))
  /\ \A t \in Threads : WF_allVars(Internal(StopStep(t)))
  /\ \A s \in Services :
       /\ SF_allVars(Internal(ThreadStep(s)))
       /\ WF_allVars(LEmitReady(s) \/ LEmitFailed(s) \/ LEmitDown(s))
       /\ WF_allVars(Internal(doomed[s] /\ DescendantsExit(s)))
       /\ SF_allVars(CallStart(s))
  /\ \A p \in Pids : WF_allVars(Internal(LauncherExit(p) /\ doomed[svc[p]]))
  /\ WF_allVars(PlainStep \/ PublishReadiness \/ ShutdownRequested
                 \/ CloseReadiness \/ DrainReturned)
  /\ SF_allVars(CallDrain)

LFairSpec == LSpec /\ LFairness

-------------------------------------------------------------------------------
(* Properties *)

\* The file the host reads implies a finished boot and, for every required
\* service, an instance monitor watches or is just about to report down: no
\* order of crashes, restarts, reports and publication shows a ready VM whose
\* required service is waiting for a restart or has ended for good.
ReadyMeansServing ==
  readyFile /\ ~setErr =>
    /\ stage = "serve" \/ (stage = "unwind" /\ parentDone)
    /\ \A s \in Required : pc[s] \in {"wait", "settle", "sweep", "emitDown"}

\* While the file system obeys, the file the host reads says exactly that the boot
\* published readiness, has not failed it, and that the last report of every
\* required service was ready, whatever threads the reports came from.
FileIsTruth == Gate!FileIsTruth

\* Once runLifecycle has failed readiness closed, no report a monitor still makes
\* while services are stopped brings the file back.
NeverReadyAgain == Gate!NeverReadyAgain

\* The machine powers itself off only when it was asked to, and then nothing
\* is left running that Drain or a failed start did not report.
PowerOffIsClean ==
  stage = "off" => parentDone /\ Drained
                   /\ \A s \in Services : ~Populated(s) \/ s \in unstopped

\* Start waits, without a limit, for an instance that it could not kill.
StartHangs ==
  \E s \in Services : fresh[s] /\ pc[s] = "discardWait" /\ Running(proc[s]) /\ ~doomed[s]

\* Once the signal has arrived the lifecycle ends, whatever a boot in progress,
\* a restart or a failing cleanup is doing; the one exception is a boot whose Start
\* waits for ever for an instance that ignored SIGTERM and whose cgroup.kill could
\* not be written.
ShutdownCompletes == []<>~StartHangs => (parentDone ~> stage \in {"off", "park"})

\* A required service that died takes the readiness file with it.
CrashClosesGate ==
  \A s \in Required :
    (readyFile /\ pc[s] = "wait" /\ Done(proc[s])) ~> (~readyFile \/ setErr)
================================================================================
