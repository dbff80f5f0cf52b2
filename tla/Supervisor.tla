------------------------------ MODULE Supervisor ------------------------------
(***************************************************************************)
(* PID 1's service supervisor: internal/pid1/supervisor/supervisor.go.     *)
(*                                                                         *)
(* Actors: the Manager goroutine, sole owner of wait4; one thread per      *)
(* service, which is the caller of Supervisor.Start until Start returns    *)
(* and the monitor goroutine from then on; the caller of Drain; and the    *)
(* kernel, which ends processes whenever it likes.  A service's processes  *)
(* live in one persistent cgroup, reused by every instance of the service. *)
(***************************************************************************)
EXTENDS Integers, Sequences, FiniteSets

CONSTANTS
  Services,     \* service names
  Restart,      \* services with Service.Restart
  Forking,      \* services with Service.Forking
  HasPidFile,   \* services with a Service.PIDFile
  Spawning,     \* services whose launchers create further processes
  Groups,       \* Drain's groups: a sequence of sets of services
  Base, Max,    \* Config.RestartBase and Config.RestartMax, in one time unit
  MaxPid,       \* bound: processes created in one behaviour
  Drainer,      \* the thread that calls Drain
  Nobody        \* the holder of a free mutex

ASSUME ServiceAssumption ==
  /\ Restart \subseteq Services /\ Forking \subseteq Services
  /\ HasPidFile \subseteq Services /\ Spawning \subseteq Services
  /\ Groups \in Seq(SUBSET Services)
  /\ Drainer \notin Services /\ Nobody \notin Services /\ Drainer # Nobody
ASSUME DelayAssumption == Base \in Nat \ {0} /\ Max \in Nat /\ Base <= Max
ASSUME PidAssumption == MaxPid \in Nat

Pids    == 1..MaxPid
NoPid   == 0
Threads == Services \cup {Drainer}

VARIABLES
  \* kernel
  nextPid,    \* pids below it have been created
  svc,        \* pid -> the service whose cgroup it was started in
  life,       \* pid -> its life as PID 1 can see it
  daemon,     \* service -> the launcher whose descendants its cgroup holds, or NoPid
  doomed,     \* service -> cgroup.kill has been written for its members
  \* Manager
  mgr,        \* what the manager loop is doing
  children,   \* pids the manager knows
  sigchld,    \* the SIGCHLD channel, capacity one
  adopted,    \* pids reaped without being in children
  \* Supervisor and its records
  mu,         \* holder of Supervisor.mu
  draining,
  cancelled,  \* the supervisor's context is done
  registered, \* names in Supervisor.services
  proc,       \* serviceRecord.process, as a pid
  delay,      \* serviceRecord.delay
  pidfile,    \* content of the PID file, NoPid when there is none
  unremoved,  \* services whose PID file outlived a removePIDFile
  \* threads
  pc,         \* where each service's thread is
  fresh,      \* the thread is still the caller of Start
  sawDrain,   \* monitor's local copy of draining
  outcome,    \* what the last call of Start returned
  group,      \* Drain's current group; 0 before, Len(Groups) + 2 after
  drainErr,   \* a stopProcesses call of Drain failed
  \* calls of stopProcesses
  stop,       \* thread -> step of its call
  pend,       \* thread -> processes still pending in its call
  lock,       \* pid -> holder of Process.stop
  unstopped   \* services whose cgroup outlived a stopProcesses call

kernelVars == <<nextPid, svc, life, daemon, doomed>>
mgrVars    == <<mgr, children, sigchld, adopted>>
fileVars   == <<pidfile, unremoved>>
recVars    == <<registered, proc, delay, fileVars>>
thrVars    == <<pc, fresh, sawDrain, outcome>>
stopVars   == <<stop, pend, lock, unstopped>>
drainVars  == <<draining, cancelled, group, drainErr>>
vars == <<kernelVars, mgrVars, mu, recVars, thrVars, stopVars, drainVars>>

-------------------------------------------------------------------------------
(* State predicates and helpers *)

Lives == {"unborn", "running", "zombieOk", "zombieErr", "ok", "err"}
Running(p) == life[p] = "running"
Zombie(p)  == life[p] \in {"zombieOk", "zombieErr"}
Done(p)    == life[p] \in {"ok", "err"}   \* Process.done is closed

\* cgroupScope.populated: zombies do not count, a live launcher or descendant does
Populated(s) == daemon[s] # NoPid \/ \E p \in Pids : svc[p] = s /\ Running(p)

nextDelay(current, maximum) ==
  IF current >= maximum \/ current > maximum \div 2 THEN maximum ELSE current * 2

Goto(s, l) == pc' = [pc EXCEPT ![s] = l]

\* Mutant of removePIDFile: the file of an ended instance stays.
removePIDFileForgotten(s) == UNCHANGED fileVars

\* removePIDFile: a file that still names this instance is removed.  When it cannot
\* be read or removed it stays, and nobody is told.
removePIDFile(s) ==
  \/ /\ pidfile' = [pidfile EXCEPT ![s] = IF @ = proc[s] THEN NoPid ELSE @]
     /\ UNCHANGED unremoved
  \/ /\ pidfile[s] # NoPid /\ unremoved' = unremoved \cup {s}
     /\ UNCHANGED pidfile

\* Both places that compare the time since the start with StableAfter: the
\* instance may or may not have lived that long.
resetIfStable(s) ==
  \E ran \in {delay[s], Base} : delay' = [delay EXCEPT ![s] = ran]

Init ==
  /\ nextPid = 1
  /\ svc = [p \in Pids |-> Nobody] /\ life = [p \in Pids |-> "unborn"]
  /\ daemon = [s \in Services |-> NoPid] /\ doomed = [s \in Services |-> FALSE]
  /\ mgr = "loop" /\ children = {} /\ sigchld = FALSE /\ adopted = {}
  /\ mu = Nobody /\ draining = FALSE /\ cancelled = FALSE
  /\ registered = {} /\ proc = [s \in Services |-> NoPid]
  /\ delay = [s \in Services |-> Base]
  /\ pidfile = [s \in Services |-> NoPid] /\ unremoved = {}
  /\ pc = [s \in Services |-> "off"] /\ fresh = [s \in Services |-> TRUE]
  /\ sawDrain = [s \in Services |-> FALSE]
  /\ outcome = [s \in Services |-> "none"] /\ group = 0 /\ drainErr = FALSE
  /\ stop = [t \in Threads |-> "none"] /\ pend = [t \in Threads |-> {}]
  /\ lock = [p \in Pids |-> Nobody] /\ unstopped = {}

-------------------------------------------------------------------------------
(* The kernel and the children it runs *)

\* A launcher leaves a descendant in its cgroup.
SpawnDescendant(s) ==
  /\ s \in Spawning /\ ~doomed[s] /\ daemon[s] = NoPid
  /\ \E p \in Pids : svc[p] = s /\ Running(p) /\ daemon' = [daemon EXCEPT ![s] = p]
  /\ UNCHANGED <<nextPid, svc, life, doomed, mgrVars, mu, recVars,
                 thrVars, stopVars, drainVars>>

\* The descendants of a service are gone, and with the last member of a killed
\* cgroup the kill.
DescendantsExit(s) ==
  /\ daemon[s] # NoPid
  /\ daemon' = [daemon EXCEPT ![s] = NoPid]
  /\ doomed' = [doomed EXCEPT ![s] = @ /\ \E p \in Pids : svc[p] = s /\ Running(p)]
  /\ UNCHANGED <<nextPid, svc, life, mgrVars, mu, recVars, thrVars, stopVars,
                 drainVars>>

\* A launcher ends.  Whether its status is clean matters to a forking service
\* alone, and a killed launcher's is not.
LauncherExit(p) ==
  /\ Running(p)
  /\ \E z \in {"zombieOk", "zombieErr"} :
       /\ z = "zombieOk" => svc[p] \in Forking /\ ~doomed[svc[p]]
       /\ life' = [life EXCEPT ![p] = z]
  /\ doomed' = [doomed EXCEPT ![svc[p]] = @ /\ daemon[svc[p]] # NoPid]
  /\ sigchld' = TRUE
  /\ UNCHANGED <<nextPid, svc, daemon, mgr, children, adopted, mu, recVars,
                 thrVars, stopVars, drainVars>>

-------------------------------------------------------------------------------
(* Manager: loop, start and reapChildren *)

\* The loop takes the pending SIGCHLD and enters reapChildren.
ReapBegin ==
  /\ mgr = "loop" /\ sigchld
  /\ sigchld' = FALSE /\ mgr' = "reap"
  /\ UNCHANGED <<kernelVars, children, adopted, mu, recVars, thrVars,
                 stopVars, drainVars>>

\* Mutant of ReapOne: children are also collected while the loop creates one.
ReapOneAnytime(p) ==
  /\ Zombie(p)
  /\ life' = [life EXCEPT ![p] = IF @ = "zombieOk" THEN "ok" ELSE "err"]
  /\ children' = children \ {p}
  /\ adopted' = IF p \in children THEN adopted ELSE adopted \cup {p}
  /\ UNCHANGED <<nextPid, svc, daemon, doomed, mgr, sigchld, mu, recVars,
                 thrVars, stopVars, drainVars>>

\* Mutant of ReapOne: one wait4 for each SIGCHLD, although signals coalesce.
ReapOneOnly(p) ==
  /\ mgr = "reap" /\ Zombie(p)
  /\ life' = [life EXCEPT ![p] = IF @ = "zombieOk" THEN "ok" ELSE "err"]
  /\ children' = children \ {p} /\ mgr' = "loop"
  /\ adopted' = IF p \in children THEN adopted ELSE adopted \cup {p}
  /\ UNCHANGED <<nextPid, svc, daemon, doomed, sigchld, mu, recVars,
                 thrVars, stopVars, drainVars>>

\* wait4 returns one zombie: an owned one is completed, any other only logged.
ReapOne(p) ==
  /\ mgr = "reap" /\ Zombie(p)
  /\ life' = [life EXCEPT ![p] = IF @ = "zombieOk" THEN "ok" ELSE "err"]
  /\ children' = children \ {p}
  /\ adopted' = IF p \in children THEN adopted ELSE adopted \cup {p}
  /\ UNCHANGED <<nextPid, svc, daemon, doomed, mgr, sigchld, mu, recVars,
                 thrVars, stopVars, drainVars>>

\* wait4 has nothing more to report.
ReapEnd ==
  /\ mgr = "reap" /\ \A p \in Pids : ~Zombie(p)
  /\ mgr' = "loop"
  /\ UNCHANGED <<kernelVars, children, sigchld, adopted, mu, recVars,
                 thrVars, stopVars, drainVars>>

\* Mutant of Fork: a populated cgroup is reused.
ForkIntoPopulated(s) ==
  /\ pc[s] = "fork" /\ mgr = "loop" /\ nextPid \in Pids
  /\ life' = [life EXCEPT ![nextPid] = "running"]
  /\ svc' = [svc EXCEPT ![nextPid] = s]
  /\ nextPid' = nextPid + 1
  /\ mgr' = "start" /\ Goto(s, "register")
  /\ UNCHANGED <<daemon, doomed, children, sigchld, adopted, mu, recVars, fresh,
                 sawDrain, outcome, stopVars, drainVars>>

\* Manager.start runs as an operation of the loop.  createCgroup refuses a
\* cgroup that is still populated; otherwise the launcher is created in it.
Fork(s) ==
  /\ pc[s] = "fork" /\ mgr = "loop" /\ nextPid \in Pids
  /\ ~Populated(s)
  /\ life' = [life EXCEPT ![nextPid] = "running"]
  /\ svc' = [svc EXCEPT ![nextPid] = s]
  /\ nextPid' = nextPid + 1
  /\ mgr' = "start" /\ Goto(s, "register")
  /\ UNCHANGED <<daemon, doomed, children, sigchld, adopted, mu, recVars, fresh,
                 sawDrain, outcome, stopVars, drainVars>>

\* The same operation registers the child before the loop can reap again.
Register(s) ==
  /\ pc[s] = "register"
  /\ children' = children \cup {nextPid - 1} /\ mgr' = "loop"
  /\ proc' = [proc EXCEPT ![s] = nextPid - 1]
  /\ Goto(s, "write")
  /\ UNCHANGED <<kernelVars, sigchld, adopted, mu, registered, delay, fileVars,
                 fresh, sawDrain, outcome, stopVars, drainVars>>

\* startLocked failed and left process p in the record: Start retires a record
\* without a process, and both callers free the mutex and report the error.
StartFailed(s, p) ==
  /\ mu' = Nobody
  /\ registered' = IF fresh[s] /\ p = NoPid THEN registered \ {s} ELSE registered
  /\ Goto(s, IF fresh[s] THEN "emitFailed" ELSE "emitDown")

\* The start fails: a populated cgroup, or any error of cgroup setup or exec.
ForkFail(s) ==
  /\ pc[s] = "fork" /\ mgr = "loop"
  /\ StartFailed(s, proc[s])
  /\ UNCHANGED <<kernelVars, mgrVars, proc, delay, fileVars, fresh, sawDrain,
                 outcome, stopVars, drainVars>>

-------------------------------------------------------------------------------
(* stopProcesses, called by service threads and by Drain *)

\* The call: Process.stop of every process is then taken in pid order.
CallStop(t, processes) ==
  /\ stop' = [stop EXCEPT ![t] = "lock"]
  /\ pend' = [pend EXCEPT ![t] = processes]

Holds(t) == {p \in Pids : lock[p] = t}

StopLock(t) ==
  /\ stop[t] = "lock"
  /\ \E p \in pend[t] \ Holds(t) :
       /\ \A q \in pend[t] \ Holds(t) : p <= q
       /\ lock[p] = Nobody
       /\ lock' = [lock EXCEPT ![p] = t]
  /\ UNCHANGED <<kernelVars, mgrVars, mu, recVars, thrVars, stop, pend,
                 unstopped, drainVars>>

\* First check, then SIGTERM to the groups of what is left.  The signal itself
\* obliges nobody, so it leaves no state behind.
StopTerm(t) ==
  LET left == {p \in pend[t] : Populated(svc[p])} IN
  /\ stop[t] = "lock" /\ pend[t] \subseteq Holds(t)
  /\ pend' = [pend EXCEPT ![t] = left]
  /\ stop' = [stop EXCEPT ![t] = IF left = {} THEN "done" ELSE "term"]
  /\ UNCHANGED <<kernelVars, mgrVars, mu, recVars, thrVars, lock, unstopped,
                 drainVars>>

\* A tick of waitCgroups finds a cgroup empty.  The call that ends here is still
\* an error when a signal, a kill or an earlier read of cgroup.events failed.
StopPoll(t) ==
  LET left == {p \in pend[t] : Populated(svc[p])} IN
  /\ stop[t] \in {"term", "kill", "unkilled"} /\ left # pend[t]
  /\ pend' = [pend EXCEPT ![t] = left]
  /\ \E step \in IF left # {} THEN {stop[t]}
                ELSE {"error"} \cup (IF stop[t] = "unkilled" THEN {} ELSE {"done"}) :
       stop' = [stop EXCEPT ![t] = step]
  /\ UNCHANGED <<kernelVars, mgrVars, mu, recVars, thrVars, lock, unstopped,
                 drainVars>>

\* termGrace is over: cgroup.kill for every process still pending.  Where the file
\* cannot be written nothing dies, and the call goes on to wait, an error already.
StopKill(t) ==
  /\ stop[t] = "term"
  /\ \E killed \in SUBSET {svc[p] : p \in pend[t]} :
       /\ stop' = [stop EXCEPT ![t] =
                     IF \A p \in pend[t] : svc[p] \in killed THEN "kill" ELSE "unkilled"]
       /\ doomed' = [s \in Services |-> doomed[s] \/ (Populated(s) /\ s \in killed)]
  /\ UNCHANGED <<nextPid, svc, life, daemon, mgrVars, mu, recVars, thrVars,
                 pend, lock, unstopped, drainVars>>

\* killGrace is over: what is left is an error of the call.
StopTimeout(t) ==
  /\ stop[t] \in {"kill", "unkilled"}
  /\ stop' = [stop EXCEPT ![t] = "error"]
  /\ unstopped' = unstopped \cup {svc[p] : p \in pend[t]}
  /\ UNCHANGED <<kernelVars, mgrVars, mu, recVars, thrVars, pend, lock,
                 drainVars>>

Stopped(t) == stop[t] \in {"done", "error"}

\* The call returns: the deferred unlocks.
StopReturn(t) ==
  /\ stop' = [stop EXCEPT ![t] = "none"]
  /\ pend' = [pend EXCEPT ![t] = {}]
  /\ lock' = [p \in Pids |-> IF lock[p] = t THEN Nobody ELSE lock[p]]
  /\ UNCHANGED unstopped

-------------------------------------------------------------------------------
(* Start *)

\* Draining, or a name that is still registered: Start returns an error.
StartRefused(s) ==
  /\ pc[s] = "off" /\ mu = Nobody
  /\ draining \/ s \in registered
  /\ outcome' = [outcome EXCEPT ![s] = "err"]
  /\ UNCHANGED <<kernelVars, mgrVars, mu, recVars, pc, fresh, sawDrain,
                 stopVars, drainVars>>

\* A new record is registered and startLocked entered under the mutex.
Start(s) ==
  /\ pc[s] = "off" /\ mu = Nobody
  /\ ~draining /\ s \notin registered
  /\ mu' = s /\ registered' = registered \cup {s}
  /\ proc' = [proc EXCEPT ![s] = NoPid]
  /\ delay' = [delay EXCEPT ![s] = Base]
  /\ fresh' = [fresh EXCEPT ![s] = TRUE]
  /\ outcome' = [outcome EXCEPT ![s] = "none"]
  /\ Goto(s, "fork")
  /\ UNCHANGED <<kernelVars, mgrVars, fileVars, sawDrain, stopVars,
                 drainVars>>

\* startLocked's tail: the PID file names the new instance, the mutex is freed.
WritePIDFile(s) ==
  /\ pc[s] = "write"
  /\ IF s \in HasPidFile
     THEN /\ pidfile' = [pidfile EXCEPT ![s] = proc[s]]
          /\ unremoved' = unremoved \ {s}
     ELSE UNCHANGED fileVars
  /\ mu' = Nobody /\ Goto(s, "ready")
  /\ UNCHANGED <<kernelVars, mgrVars, registered, proc, delay, fresh,
                 sawDrain, outcome, stopVars, drainVars>>

\* The PID file cannot be written: the instance is stopped, mutex held.
WritePIDFileFail(s) ==
  /\ pc[s] = "write" /\ s \in HasPidFile
  /\ CallStop(s, {proc[s]}) /\ Goto(s, "undo")
  /\ UNCHANGED <<kernelVars, mgrVars, mu, recVars, fresh, sawDrain, outcome,
                 lock, unstopped, drainVars>>

\* stopProcesses returned, then Wait did or its timer ran out; the record keeps
\* a process that may still be there.
UndoStart(s) ==
  /\ pc[s] = "undo" /\ Stopped(s)
  /\ \E waited \in {Done(proc[s]), FALSE} :
       LET left == IF stop[s] = "done" /\ waited THEN NoPid ELSE proc[s] IN
       proc' = [proc EXCEPT ![s] = left] /\ StartFailed(s, left)
  /\ StopReturn(s)
  /\ UNCHANGED <<kernelVars, mgrVars, delay, fileVars, fresh, sawDrain,
                 outcome, drainVars>>

\* ready's verdict once the probe answered: an instance that has ended counts
\* only when it was a launcher that ended well and left its service behind.
UsableAfterProbe(s) ==
  Done(proc[s]) => life[proc[s]] = "ok" /\ s \in Forking /\ Populated(s)

\* The probe succeeded and the instance is still usable.
ReadyOk(s) ==
  /\ pc[s] = "ready" /\ UsableAfterProbe(s)
  /\ Goto(s, "emitReady")
  /\ UNCHANGED <<kernelVars, mgrVars, mu, recVars, fresh, sawDrain, outcome,
                 stopVars, drainVars>>

\* The probe failed (or was cancelled), or the instance ended: Start cleans up
\* first and reports afterwards, monitor reports first.
ReadyFail(s) ==
  /\ pc[s] = "ready"
  /\ IF fresh[s]
     THEN CallStop(s, {proc[s]}) /\ Goto(s, "discard")
     ELSE UNCHANGED <<stop, pend>> /\ Goto(s, "emitUnready")
  /\ UNCHANGED <<kernelVars, mgrVars, mu, recVars, fresh, sawDrain, outcome,
                 lock, unstopped, drainVars>>

\* stopInitial and the same lines of monitor: stopProcesses returned and the
\* launcher is reaped, however long that takes.
DiscardStopped(s) ==
  /\ pc[s] = "discard" /\ Stopped(s)
  /\ StopReturn(s) /\ Goto(s, "discardWait")
  /\ UNCHANGED <<kernelVars, mgrVars, mu, recVars, fresh, sawDrain, outcome,
                 drainVars>>

DiscardReaped(s) ==
  /\ pc[s] = "discardWait" /\ Done(proc[s])
  /\ removePIDFile(s) /\ Goto(s, "discardSettle")
  /\ UNCHANGED <<kernelVars, mgrVars, mu, registered, proc, delay,
                 fresh, sawDrain, outcome, stopVars, drainVars>>


DiscardSettle(s) ==
  /\ pc[s] = "discardSettle" /\ mu = Nobody
  /\ IF fresh[s]
     THEN /\ registered' = registered \ {s} /\ UNCHANGED delay
          /\ Goto(s, "emitFailed")
     ELSE /\ resetIfStable(s)
          /\ UNCHANGED registered /\ Goto(s, "backoff")
  /\ UNCHANGED <<kernelVars, mgrVars, mu, proc, fileVars, fresh,
                 sawDrain, outcome, stopVars, drainVars>>

-------------------------------------------------------------------------------
(* emit, always outside the mutex *)

EmitReady(s) ==
  /\ pc[s] = "emitReady"
  /\ outcome' = [outcome EXCEPT ![s] = IF fresh[s] THEN "ok" ELSE @]
  /\ fresh' = [fresh EXCEPT ![s] = FALSE]
  /\ Goto(s, "wait")
  /\ UNCHANGED <<kernelVars, mgrVars, mu, recVars, sawDrain, stopVars, drainVars>>

\* Start reports its failure and returns it.
EmitFailed(s) ==
  /\ pc[s] = "emitFailed"
  /\ outcome' = [outcome EXCEPT ![s] = "err"]
  /\ Goto(s, "off")
  /\ UNCHANGED <<kernelVars, mgrVars, mu, recVars, fresh, sawDrain, stopVars, drainVars>>

\* monitor reports an instance that never became ready, then stops it.
EmitUnready(s) ==
  /\ pc[s] = "emitUnready"
  /\ CallStop(s, {proc[s]}) /\ Goto(s, "discard")
  /\ UNCHANGED <<kernelVars, mgrVars, mu, recVars, fresh, sawDrain, outcome, lock,
                 unstopped, drainVars>>

\* monitor reports the end of an instance, or a restart that failed.
EmitDown(s) ==
  /\ pc[s] = "emitDown"
  /\ Goto(s, IF sawDrain[s] \/ s \notin Restart THEN "over" ELSE "backoff")
  /\ UNCHANGED <<kernelVars, mgrVars, mu, recVars, fresh, sawDrain, outcome, stopVars,
                 drainVars>>

-------------------------------------------------------------------------------
(* monitor *)

\* The instance is over for monitor: its PID file goes.
Ended(s) == removePIDFile(s) /\ Goto(s, "settle")

\* Wait returns; a forking service lives on in its cgroup after a clean exit.
WaitExit(s) ==
  /\ pc[s] = "wait" /\ Done(proc[s])
  /\ IF life[proc[s]] = "ok" /\ s \in Forking
     THEN Goto(s, "cgroup") /\ UNCHANGED fileVars
     ELSE Ended(s)
  /\ UNCHANGED <<kernelVars, mgrVars, mu, registered, proc, delay, fresh,
                 sawDrain, outcome, stopVars, drainVars>>

\* waitCgroupEmpty returns because the cgroup is empty.
CgroupEnded(s) ==
  /\ pc[s] = "cgroup" /\ ~Populated(s)
  /\ Ended(s)
  /\ UNCHANGED <<kernelVars, mgrVars, mu, registered, proc, delay, fresh,
                 sawDrain, outcome, stopVars, drainVars>>

\* cgroup.events cannot be read: monitor gives the instance up, and sweeps it.
CgroupUnreadable(s) ==
  /\ pc[s] = "cgroup" /\ ~cancelled
  /\ Ended(s)
  /\ UNCHANGED <<kernelVars, mgrVars, mu, registered, proc, delay, fresh,
                 sawDrain, outcome, stopVars, drainVars>>

\* The context is done while the cgroup is populated: monitor just returns.
CgroupCancelled(s) ==
  /\ pc[s] = "cgroup" /\ cancelled /\ Populated(s)
  /\ Goto(s, "over")
  /\ UNCHANGED <<kernelVars, mgrVars, mu, recVars, fresh, sawDrain, outcome,
                 stopVars, drainVars>>

\* Under the mutex monitor reads draining and may reset the delay; unless
\* draining it then stops whatever the instance left in its cgroup.
Settle(s) ==
  /\ pc[s] = "settle" /\ mu = Nobody
  /\ sawDrain' = [sawDrain EXCEPT ![s] = draining]
  /\ resetIfStable(s)
  /\ IF draining
     THEN UNCHANGED <<stop, pend>> /\ Goto(s, "emitDown")
     ELSE CallStop(s, {proc[s]}) /\ Goto(s, "sweep")
  /\ UNCHANGED <<kernelVars, mgrVars, mu, registered, proc, fileVars,
                 fresh, outcome, lock, unstopped, drainVars>>

Swept(s) ==
  /\ pc[s] = "sweep" /\ Stopped(s)
  /\ StopReturn(s) /\ Goto(s, "emitDown")
  /\ UNCHANGED <<kernelVars, mgrVars, mu, recVars, fresh, sawDrain, outcome,
                 drainVars>>

\* The wait is cut short by the context, or its end finds it done.
BackoffOver(s) ==
  /\ pc[s] = "backoff" /\ cancelled
  /\ Goto(s, "over")
  /\ UNCHANGED <<kernelVars, mgrVars, mu, recVars, fresh, sawDrain, outcome,
                 stopVars, drainVars>>

\* Mutant of RestartService: draining is not read again after the delay.
RestartServiceBlindly(s) ==
  /\ pc[s] = "backoff" /\ mu = Nobody
  /\ delay' = [delay EXCEPT ![s] = nextDelay(@, Max)]
  /\ mu' = s /\ Goto(s, "fork")
  /\ UNCHANGED <<kernelVars, mgrVars, registered, proc, fileVars, fresh,
                 sawDrain, outcome, stopVars, drainVars>>

\* The delay is over: draining is read under the mutex that startLocked holds.
RestartService(s) ==
  /\ pc[s] = "backoff" /\ mu = Nobody
  /\ ~draining /\ ~cancelled
  /\ delay' = [delay EXCEPT ![s] = nextDelay(@, Max)]
  /\ mu' = s /\ Goto(s, "fork")
  /\ UNCHANGED <<kernelVars, mgrVars, registered, proc, fileVars, fresh,
                 sawDrain, outcome, stopVars, drainVars>>

-------------------------------------------------------------------------------
(* Drain, and the parent context *)

\* PID 1 is asked to stop: the context every supervisor wait watches is done.
CancelParent ==
  /\ ~cancelled /\ cancelled' = TRUE
  /\ UNCHANGED <<kernelVars, mgrVars, mu, recVars, thrVars, stopVars,
                 draining, group, drainErr>>

DrainBegin ==
  /\ group = 0 /\ mu = Nobody
  /\ draining' = TRUE /\ cancelled' = TRUE /\ group' = 1
  /\ UNCHANGED <<kernelVars, mgrVars, mu, recVars, thrVars, stopVars, drainErr>>

\* Mutant of GroupNames: the services no group names are left out.
GroupNamesListed(g) == IF g <= Len(Groups) THEN Groups[g] ELSE {}

\* The names of a group; the last one is every registered service not named before.
GroupNames(g) ==
  IF g <= Len(Groups) THEN Groups[g]
  ELSE registered \ UNION {Groups[i] : i \in DOMAIN Groups}

\* drainGroup: the processes of the group's records, snapshot under the mutex.
DrainGroup ==
  LET found == {proc[s] : s \in GroupNames(group) \cap registered} \ {NoPid} IN
  /\ group \in 1..(Len(Groups) + 1) /\ stop[Drainer] = "none" /\ mu = Nobody
  /\ IF found = {}
     THEN group' = group + 1 /\ UNCHANGED <<stop, pend>>
     ELSE CallStop(Drainer, found) /\ UNCHANGED group
  /\ UNCHANGED <<kernelVars, mgrVars, mu, recVars, thrVars, lock, unstopped,
                 draining, cancelled, drainErr>>

DrainNext ==
  /\ Stopped(Drainer)
  /\ StopReturn(Drainer) /\ group' = group + 1
  /\ drainErr' = (drainErr \/ stop[Drainer] = "error")
  /\ UNCHANGED <<kernelVars, mgrVars, mu, recVars, thrVars, draining,
                 cancelled>>

Drained == group = Len(Groups) + 2

-------------------------------------------------------------------------------
StopStep(t) ==
  StopLock(t) \/ StopTerm(t) \/ StopPoll(t) \/ StopKill(t) \/ StopTimeout(t)

\* The steps of a service's thread that neither emit nor begin a call of Start.
ThreadStep(s) ==
  \/ Fork(s) \/ Register(s) \/ ForkFail(s)
  \/ WritePIDFile(s) \/ WritePIDFileFail(s) \/ UndoStart(s)
  \/ ReadyOk(s) \/ ReadyFail(s)
  \/ DiscardStopped(s) \/ DiscardReaped(s) \/ DiscardSettle(s)
  \/ WaitExit(s) \/ CgroupEnded(s)
  \/ CgroupUnreadable(s) \/ CgroupCancelled(s)
  \/ Settle(s) \/ Swept(s)
  \/ BackoffOver(s) \/ RestartService(s)

ManagerStep == ReapBegin \/ ReapEnd \/ \E p \in Pids : ReapOne(p)

KernelStep ==
  \/ \E s \in Services : SpawnDescendant(s) \/ DescendantsExit(s)
  \/ \E p \in Pids : LauncherExit(p)

DrainStep == DrainGroup \/ DrainNext

\* The supervisor without the calls its users make and without emit.
InternalStep ==
  \/ KernelStep \/ ManagerStep \/ DrainStep
  \/ \E t \in Threads : StopStep(t)
  \/ \E s \in Services : ThreadStep(s)

\* What a service's thread reports to the observer.
EmitStep(s) == EmitReady(s) \/ EmitFailed(s) \/ EmitUnready(s) \/ EmitDown(s)

Next ==
  \/ InternalStep
  \/ \E s \in Services : Start(s) \/ StartRefused(s) \/ EmitStep(s)
  \/ CancelParent \/ DrainBegin

Spec == Init /\ [][Next]_vars

-------------------------------------------------------------------------------
(* Properties *)

Locations == {"off", "fork", "register", "write", "undo", "ready",
  "discard", "discardWait", "discardSettle", "emitReady", "emitFailed", "emitUnready",
  "emitDown", "wait", "cgroup", "settle", "sweep", "backoff", "over"}

\* "Persistent cgroups" are shared by all instances of a service, yet no two of
\* them ever run side by side: there is one running launcher at most, and beside
\* it only descendants of its own, although a cleanup that ran out of time leaves
\* launchers or descendants of an ended instance behind.
OneInstance ==
  /\ \A p, q \in Pids : Running(p) /\ Running(q) /\ svc[p] = svc[q] => p = q
  /\ \A p \in Pids, s \in Services :
       Running(p) /\ svc[p] = s => daemon[s] \in {NoPid, p}

\* The manager never collects one of its own children as an adopted one, so no
\* Wait hangs on a status that was thrown away: creation excludes reaping.
NoLostStatus == adopted = {}

\* A PID file never names another instance than the record's, unless a removal of
\* the file failed, and then the instance it names has ended and been collected;
\* and the file of an instance that is reported ready names it, whatever was left
\* behind: what the containers manager relies on when it signals a service and
\* waits for its replacement.
PIDFileCurrent ==
  \A s \in Services :
    /\ pidfile[s] \in {NoPid, proc[s]} \/ (s \in unremoved /\ Done(pidfile[s]))
    /\ s \in HasPidFile /\ pc[s] \in {"emitReady", "wait"} => pidfile[s] = proc[s]

\* When Drain has moved past a group, and at the end past everything, the
\* cgroups of those services are empty and stay so, except where a bounded stop
\* ran out of time and was reported: no restart slips in behind the drain.
DrainedGroupsStayEmpty ==
  /\ \A i \in DOMAIN Groups : i < group =>
       \A s \in Groups[i] : ~Populated(s) \/ s \in unstopped
  /\ Drained => \A s \in Services : ~Populated(s) \/ s \in unstopped

\* Drain "prevents new starts": no process is created once draining is set.
NoStartWhileDraining == [][draining => nextPid' = nextPid]_vars

\* No dead child is forgotten: as long as there is one, a SIGCHLD is pending or the
\* manager is in reapChildren, although the channel holds one signal and a burst
\* of exits coalesces in it, and a child may die between any two wait4 calls.
NoZombieForgotten == (\E p \in Pids : Zombie(p)) => sigchld \/ mgr = "reap"

\* The launcher of the record's instance runs, or its forked service does.
Alive(s) == \/ proc[s] # NoPid /\ Running(proc[s])
            \/ pc[s] = "cgroup" /\ Populated(s)


===============================================================================
