--------------------------- MODULE Lifecycle_proofs ---------------------------
(***************************************************************************)
(* The supervisor first, for any services, any number of processes and any *)
(* groups: its safety properties rest on the manager's loop, the mutex,    *)
(* the refusal of a populated cgroup, and on the records, which lead Drain *)
(* and every cleanup to whatever still runs in a cgroup.  Then the gate.   *)
(* The lifecycle drives both only by their own steps, for every image, so  *)
(* that what is proved of each alone holds in the machine; and its own     *)
(* thread, between the two, makes the readiness file and the power-off     *)
(* mean what the host takes them to mean.                                  *)
(***************************************************************************)
EXTENDS Lifecycle, TLAPS

-------------------------------------------------------------------------------
(* The mutex: a thread that creates a process holds it, and Drain takes it.   *)

Holding == {"fork", "register", "write", "undo"}

MutexInv ==
  /\ pc \in [Services -> Locations]
  /\ \A s \in Services : pc[s] \in Holding => mu = s
  /\ draining => \A s \in Services : pc[s] \notin {"fork", "register"}

\* A step of one thread outside the mutex keeps the invariant: it moves that
\* thread to a place that is not inside either.
LEMMA OutsideMutex ==
  ASSUME MutexInv, NEW s \in Services, NEW l \in Locations \ Holding, Goto(s, l),
         UNCHANGED <<mu, draining>>
  PROVE  MutexInv'
BY DEF MutexInv, Goto, Holding, Locations

\* So does a step that leaves the mutex ...
LEMMA LeaveMutex ==
  ASSUME MutexInv, NEW s \in Services, NEW l \in Locations \ Holding, Goto(s, l),
         pc[s] \in Holding, mu' = Nobody, UNCHANGED draining
  PROVE  MutexInv'
<1>1. \A d \in Services \ {s} : pc[d] \notin Holding
  BY ServiceAssumption DEF MutexInv
<1> QED BY <1>1 DEF MutexInv, Goto, Holding, Locations

\* ... one that goes on inside it ...
LEMMA InsideMutex ==
  ASSUME MutexInv, NEW s \in Services, NEW l \in Holding, Goto(s, l),
         pc[s] \in Holding, draining => l \notin {"fork", "register"},
         UNCHANGED <<mu, draining>>
  PROVE  MutexInv'
BY DEF MutexInv, Goto, Holding, Locations

\* ... and one that enters it, which only happens before draining.
LEMMA EnterMutex ==
  ASSUME MutexInv, NEW s \in Services, Goto(s, "fork"), mu = Nobody, mu' = s, ~draining,
         UNCHANGED draining
  PROVE  MutexInv'
<1>1. \A d \in Services : pc[d] \notin Holding
  BY ServiceAssumption DEF MutexInv
<1> QED BY <1>1 DEF MutexInv, Goto, Holding, Locations

\* The steps of a thread and of its calls of Start and emit.
LEMMA ThreadMutex ==
  ASSUME MutexInv, NEW s \in Services,
         ThreadStep(s) \/ Start(s) \/ StartRefused(s) \/ EmitStep(s)
  PROVE  MutexInv'
<1> USE DEF drainVars
<1>1. ASSUME Start(s) \/ RestartService(s) PROVE MutexInv'
  BY <1>1, EnterMutex DEF Start, RestartService
<1>2. ASSUME Fork(s) PROVE MutexInv'
  <2>1. ~draining
    BY <1>2 DEF Fork, MutexInv
  <2> QED BY <1>2, <2>1, InsideMutex DEF Fork, Holding
<1>3. ASSUME Register(s) PROVE MutexInv'
  BY <1>3, InsideMutex DEF Register, Holding
<1>4. ASSUME WritePIDFileFail(s) PROVE MutexInv'
  BY <1>4, InsideMutex DEF WritePIDFileFail, Holding
<1>5. ASSUME WritePIDFile(s) PROVE MutexInv'
  BY <1>5, LeaveMutex DEF WritePIDFile, Holding, Locations
<1>6. ASSUME ForkFail(s) \/ UndoStart(s) PROVE MutexInv'
  <2>1. pc[s] \in Holding /\ mu' = Nobody /\ UNCHANGED draining
        /\ Goto(s, IF fresh[s] THEN "emitFailed" ELSE "emitDown")
    BY <1>6 DEF ForkFail, UndoStart, StartFailed, Holding
  <2> QED BY <2>1, LeaveMutex DEF Holding, Locations
<1>7. ASSUME ReadyOk(s) \/ ReadyFail(s) \/ DiscardStopped(s) \/ DiscardReaped(s)
             \/ DiscardSettle(s)
      PROVE  MutexInv'
  BY <1>7, OutsideMutex DEF ReadyOk, ReadyFail, DiscardStopped, DiscardReaped,
     DiscardSettle, Holding, Locations
<1>8. ASSUME WaitExit(s) \/ CgroupEnded(s) \/ CgroupUnreadable(s) \/ CgroupCancelled(s)
      PROVE  MutexInv'
  BY <1>8, OutsideMutex DEF WaitExit, CgroupEnded, CgroupUnreadable, CgroupCancelled,
     Ended, Holding, Locations
<1>9. ASSUME Settle(s) \/ Swept(s) \/ BackoffOver(s) PROVE MutexInv'
  BY <1>9, OutsideMutex DEF Settle, Swept, BackoffOver, Holding, Locations
<1>10. ASSUME EmitStep(s) PROVE MutexInv'
  BY <1>10, OutsideMutex DEF EmitStep, EmitReady, EmitFailed, EmitUnready, EmitDown,
     Holding, Locations
<1>11. ASSUME StartRefused(s) PROVE MutexInv'
  BY <1>11 DEF StartRefused, MutexInv
<1> QED BY <1>1, <1>2, <1>3, <1>4, <1>5, <1>6, <1>7, <1>8, <1>9, <1>10, <1>11
     DEF ThreadStep

(* Every step keeps the lock discipline of the manager's mutex. *)
LEMMA MutexStep == MutexInv /\ [Next]_vars => MutexInv'
<1> SUFFICES ASSUME MutexInv, [Next]_vars PROVE MutexInv'
  OBVIOUS
<1>1. ASSUME KernelStep \/ ManagerStep \/ CancelParent PROVE MutexInv'
  <2>1. UNCHANGED <<pc, mu, draining>>
    BY <1>1 DEF KernelStep, ManagerStep, CancelParent, SpawnDescendant, DescendantsExit,
       LauncherExit, ReapBegin, ReapOne, ReapEnd, thrVars, drainVars
  <2> QED BY <2>1 DEF MutexInv
<1>2. ASSUME (\E t \in Threads : StopStep(t)) \/ DrainStep PROVE MutexInv'
  <2>1. UNCHANGED <<pc, mu, draining>>
    BY <1>2 DEF StopStep, StopLock, StopTerm, StopPoll, StopKill, StopTimeout, DrainStep,
       DrainGroup, DrainNext, thrVars, drainVars
  <2> QED BY <2>1 DEF MutexInv
<1>3. ASSUME DrainBegin PROVE MutexInv'
  <2>1. \A s \in Services : pc[s] \notin Holding
    BY <1>3, ServiceAssumption DEF DrainBegin, MutexInv
  <2> QED BY <1>3, <2>1 DEF DrainBegin, MutexInv, Holding, thrVars
<1>4. CASE UNCHANGED vars
  BY <1>4 DEF vars, thrVars, drainVars, MutexInv
<1> QED BY <1>1, <1>2, <1>3, <1>4, ThreadMutex DEF Next, InternalStep, EmitStep

(* Nobody holds the mutex at the start. *)
LEMMA MutexInit == Init => MutexInv
BY DEF Init, MutexInv, Holding, Locations

-------------------------------------------------------------------------------
(* The manager: every process that is not reaped yet is a child it knows, but *)
(* for the one that the operation in progress has just created.               *)

Unreaped(p) == Running(p) \/ Zombie(p)

ChildInv ==
  /\ nextPid \in 1..(MaxPid + 1)
  /\ svc \in [Pids -> Services \cup {Nobody}] /\ life \in [Pids -> Lives]
  /\ daemon \in [Services -> Pids \cup {NoPid}]
  /\ \A s \in Services : pc[s] = "register" => mgr = "start"
  /\ \A p \in Pids : Unreaped(p) => p \in children \/ (mgr = "start" /\ p = nextPid - 1)
  /\ NoLostStatus
  /\ OneInstance

\* A step that moves one thread to a place other than "register".
LEMMA ChildStable ==
  ASSUME ChildInv, UNCHANGED <<nextPid, svc, life, daemon, mgr, children, adopted>>,
         \A s \in Services : pc'[s] = "register" => pc[s] = "register"
  PROVE  ChildInv'
BY DEF ChildInv, Unreaped, Running, Zombie, NoLostStatus, OneInstance

(* A fork into an empty cgroup adds one process, the one that the operation in
   progress will put in the table. *)
LEMMA ForkChild == ASSUME MutexInv, ChildInv, NEW s \in Services, Fork(s) PROVE ChildInv'
<1> USE PidAssumption DEF ChildInv, Fork
<1>1. nextPid \in Pids /\ nextPid' = nextPid + 1 /\ mgr = "loop" /\ mgr' = "start"
      /\ UNCHANGED <<children, adopted, daemon>>
  OBVIOUS
<1>2. \A p \in Pids : /\ life'[p] = IF p = nextPid THEN "running" ELSE life[p]
                      /\ svc'[p] = IF p = nextPid THEN s ELSE svc[p]
  BY <1>1
<1>3. nextPid' \in 1..(MaxPid + 1) /\ nextPid' - 1 = nextPid
  BY <1>1 DEF Pids
<1>4. svc' \in [Pids -> Services \cup {Nobody}] /\ life' \in [Pids -> Lives]
  BY <1>1 DEF Lives
<1>5. \A p \in Pids : Unreaped(p)' => p \in children' \/ p = nextPid' - 1
  BY <1>1, <1>2, <1>3 DEF Unreaped, Running, Zombie
<1>6. OneInstance'
  <2>1. daemon[s] = NoPid /\ \A p \in Pids : svc[p] = s => ~Running(p)
    BY DEF Populated
  <2> QED BY <1>1, <1>2, <2>1 DEF OneInstance, Running
<1> QED BY <1>1, <1>3, <1>4, <1>5, <1>6 DEF NoLostStatus

(* The operation that created the child ends by putting it in the table: every
   process that is not reaped is known again. *)
LEMMA RegisterChild ==
  ASSUME MutexInv, ChildInv, NEW s \in Services, Register(s) PROVE ChildInv'
<1> USE DEF ChildInv, Register, kernelVars
<1>1. UNCHANGED <<nextPid, svc, life, daemon, adopted>> /\ mgr = "start" /\ mgr' = "loop"
      /\ children' = children \cup {nextPid - 1}
  OBVIOUS
<1>2. \A d \in Services : pc'[d] # "register"
  <2>1. ASSUME NEW d \in Services, d # s PROVE pc[d] # "register"
    BY <2>1 DEF MutexInv, Holding
  <2> QED BY <2>1 DEF MutexInv, Goto
<1>3. \A p \in Pids : Unreaped(p)' => p \in children'
  BY <1>1 DEF Unreaped, Running, Zombie
<1> QED BY <1>1, <1>2, <1>3 DEF OneInstance, NoLostStatus, Running

(* The manager collects a child it knows, between two of its operations, and
   forgets it. *)
LEMMA ReapChild == ASSUME ChildInv, NEW p \in Pids, ReapOne(p) PROVE ChildInv'
<1> USE DEF ChildInv, ReapOne
<1>1. \A q \in Pids : life'[q] = IF q # p THEN life[q]
                                 ELSE IF life[p] = "zombieOk" THEN "ok" ELSE "err"
  OBVIOUS
<1>2. life' \in [Pids -> Lives]
  BY DEF Lives
<1>3. p \in children
  BY DEF Unreaped
<1>4. \A q \in Pids : Unreaped(q)' => q # p /\ Unreaped(q)
  BY <1>1 DEF Unreaped, Running, Zombie
<1>5. OneInstance'
  BY <1>1 DEF OneInstance, Running
<1> QED BY <1>2, <1>3, <1>4, <1>5 DEF NoLostStatus, thrVars

(* A child that exits stays registered until it is collected. *)
LEMMA ExitChild == ASSUME ChildInv, NEW p \in Pids, LauncherExit(p) PROVE ChildInv'
<1> USE DEF ChildInv
<1>1. PICK z \in {"zombieOk", "zombieErr"} : life' = [life EXCEPT ![p] = z]
  BY DEF LauncherExit
<1>2. life' \in [Pids -> Lives]
  BY <1>1 DEF Lives
<1>3. \A q \in Pids : life'[q] = IF q = p THEN z ELSE life[q]
  BY <1>1
<1>4. \A q \in Pids : Unreaped(q)' => Unreaped(q)
  BY <1>3 DEF Unreaped, Running, LauncherExit, Zombie
<1>5. \A q \in Pids : Running(q)' => Running(q)
  BY <1>3 DEF Running
<1> QED BY <1>2, <1>4, <1>5 DEF LauncherExit, OneInstance, NoLostStatus, thrVars, Running

\* A descendant is its launcher's, the only one that runs in its cgroup.
LEMMA DaemonChild ==
  ASSUME ChildInv, NEW s \in Services, SpawnDescendant(s) \/ DescendantsExit(s)
  PROVE  ChildInv'
<1>1. UNCHANGED <<nextPid, svc, life, mgr, children, adopted, pc>>
  BY DEF SpawnDescendant, DescendantsExit, mgrVars, thrVars
<1>2. daemon \in [Services -> Pids \cup {NoPid}] /\ OneInstance
  BY DEF ChildInv
<1>3. PICK d \in Pids \cup {NoPid} : /\ daemon' = [daemon EXCEPT ![s] = d]
                                     /\ d = NoPid \/ (svc[d] = s /\ Running(d))
  BY DEF SpawnDescendant, DescendantsExit
<1>4. daemon' \in [Services -> Pids \cup {NoPid}]
  BY <1>2, <1>3
<1>5. \A r \in Services : daemon'[r] = IF r = s THEN d ELSE daemon[r]
  BY <1>2, <1>3
<1>6. OneInstance'
  <2>1. ASSUME NEW p \in Pids, NEW r \in Services, Running(p)', svc'[p] = r
        PROVE  daemon'[r] \in {NoPid, p}
    BY <1>1, <1>2, <1>3, <1>5, <2>1 DEF OneInstance, Running
  <2> QED BY <1>1, <1>2, <2>1 DEF OneInstance, Running
<1> QED BY <1>1, <1>4, <1>6 DEF ChildInv, Unreaped, Running, Zombie, NoLostStatus

\* Every other step of a thread leaves the processes and the manager alone.
LEMMA ThreadChild ==
  ASSUME MutexInv, ChildInv, NEW s \in Services,
         ThreadStep(s) \/ Start(s) \/ StartRefused(s) \/ EmitStep(s)
  PROVE  ChildInv'
<1>1. CASE Fork(s)
  BY <1>1, ForkChild
<1>2. CASE Register(s)
  BY <1>2, RegisterChild
<1>3. ASSUME ~Fork(s), ~Register(s)
      PROVE  /\ UNCHANGED <<nextPid, svc, life, daemon, mgr, children, adopted>>
             /\ (\E l \in Locations \ {"register"} : Goto(s, l)) \/ UNCHANGED pc
  <2> USE DEF kernelVars, mgrVars, Locations
  <2>1. CASE Start(s) \/ StartRefused(s) \/ RestartService(s)
    BY <2>1 DEF Start, StartRefused, RestartService
  <2>2. CASE ForkFail(s) \/ UndoStart(s) \/ WritePIDFile(s) \/ WritePIDFileFail(s)
    BY <2>2 DEF ForkFail, UndoStart, StartFailed, WritePIDFile, WritePIDFileFail
  <2>3. CASE ReadyOk(s) \/ ReadyFail(s) \/ DiscardStopped(s) \/ DiscardReaped(s)
             \/ DiscardSettle(s)
    BY <2>3 DEF ReadyOk, ReadyFail, DiscardStopped, DiscardReaped, DiscardSettle
  <2>4. CASE WaitExit(s) \/ CgroupEnded(s) \/ CgroupUnreadable(s) \/ CgroupCancelled(s)
    BY <2>4 DEF WaitExit, CgroupEnded, CgroupUnreadable, CgroupCancelled, Ended
  <2>5. CASE Settle(s) \/ Swept(s) \/ BackoffOver(s)
    BY <2>5 DEF Settle, Swept, BackoffOver
  <2>6. CASE EmitStep(s)
    BY <2>6 DEF EmitStep, EmitReady, EmitFailed, EmitUnready, EmitDown
  <2> QED BY <1>3, <2>1, <2>2, <2>3, <2>4, <2>5, <2>6 DEF ThreadStep
<1>4. ASSUME ~Fork(s), ~Register(s) PROVE ChildInv'
  BY <1>3, <1>4, ChildStable DEF Goto, MutexInv
<1> QED BY <1>1, <1>2, <1>4

(* Every step keeps the account of children. *)
LEMMA ChildStep == MutexInv /\ ChildInv /\ [Next]_vars => ChildInv'
<1> SUFFICES ASSUME MutexInv, ChildInv, [Next]_vars PROVE ChildInv'
  OBVIOUS
<1>1. ASSUME NEW p \in Pids, ReapOne(p) \/ LauncherExit(p) PROVE ChildInv'
  BY <1>1, ReapChild, ExitChild
<1>2. ASSUME ReapBegin \/ ReapEnd PROVE ChildInv'
  <2>1. mgr # "start" /\ mgr' # "start"
        /\ UNCHANGED <<nextPid, svc, life, daemon, pc, children, adopted>>
    BY <1>2 DEF ReapBegin, ReapEnd, kernelVars, thrVars
  <2> QED BY <2>1 DEF ChildInv, Unreaped, Running, Zombie, NoLostStatus, OneInstance
<1>3. ASSUME NEW s \in Services, SpawnDescendant(s) \/ DescendantsExit(s) PROVE ChildInv'
  BY <1>3, DaemonChild
<1>4. ASSUME \/ \E t \in Threads : StopStep(t)
             \/ DrainStep \/ CancelParent \/ DrainBegin \/ UNCHANGED vars
      PROVE  ChildInv'
  <2>1. UNCHANGED <<nextPid, svc, life, mgr, children, adopted, pc, daemon>>
    BY <1>4 DEF StopStep, StopLock, StopTerm, StopPoll,
       StopKill, StopTimeout, DrainStep, DrainGroup, DrainNext, CancelParent, DrainBegin,
       vars, kernelVars, mgrVars, thrVars
  <2> QED BY <2>1, ChildStable
<1> QED BY <1>1, <1>2, <1>3, <1>4, ThreadChild
     DEF Next, InternalStep, KernelStep, ManagerStep, EmitStep

(* There are no children at the start. *)
LEMMA ChildInit == Init => ChildInv
BY PidAssumption DEF Init, ChildInv, Unreaped, Running, Zombie, Lives, NoLostStatus,
   OneInstance, Pids

-------------------------------------------------------------------------------
(* The record of a service and its cgroup *)

\* A cgroup is empty, or a bounded stop of it ran out of time and said so.
Empty(s) == ~Populated(s) \/ s \in unstopped

\* Where the record names the instance the thread is about.
HasInstance == {"write", "undo", "ready", "discard", "discardWait", "discardSettle",
                "emitReady", "emitUnready", "wait", "cgroup", "settle", "sweep"}
Stopping == {"undo", "discard", "sweep"}

\* What the record of a service says of its cgroup, and its thread's call of
\* stopProcesses.
Recorded(s) ==
  /\ proc[s] \in 0..(nextPid - 1)
  /\ pc[s] \notin {"off", "emitFailed"} => s \in registered
  /\ pc[s] = "register" => nextPid - 1 \in Pids /\ svc[nextPid - 1] = s
  /\ pc[s] \in HasInstance => proc[s] \in Pids /\ svc[proc[s]] = s
  /\ \/ Empty(s) \/ pc[s] = "register"
     \/ s \in registered /\ proc[s] \in Pids /\ svc[proc[s]] = s
  /\ pc[s] \in {"discardWait", "discardSettle"} => Empty(s)
  /\ pc[s] \notin Stopping => stop[s] = "none"
  /\ pc[s] \in Stopping =>
       \/ stop[s] \in {"lock", "term", "kill", "unkilled"} /\ (Empty(s) \/ proc[s] \in pend[s])
       \/ Stopped(s) /\ Empty(s)

StopSteps == {"none", "lock", "term", "kill", "unkilled", "done", "error"}

RecordInv ==
  /\ registered \subseteq Services /\ proc \in [Services -> Int]
  /\ stop \in [Threads -> StopSteps]
  /\ pend \in [Threads -> SUBSET Int]
  /\ \A s \in Services : Recorded(s)

\* Only Fork changes whose a pid is, and only for the next one.
LEMMA PidsKept ==
  ASSUME ChildInv, [Next]_vars
  PROVE  /\ \A p \in Pids : p # nextPid => svc'[p] = svc[p]
         /\ nextPid' \in {nextPid, nextPid + 1}
         /\ (\A s \in Services : ~Fork(s)) => UNCHANGED <<nextPid, svc>>
<1>1. CASE \E s \in Services : Fork(s)
  <2>1. PICK s \in Services : Fork(s)  BY <1>1
  <2>2. svc' = [svc EXCEPT ![nextPid] = s] /\ nextPid' = nextPid + 1  BY <2>1 DEF Fork
  <2> QED BY <1>1, <2>2 DEF ChildInv
<1>2. ASSUME \A s \in Services : ~Fork(s) PROVE UNCHANGED <<nextPid, svc>>
  <2> USE DEF kernelVars
  <2>1. ASSUME NEW s \in Services, ThreadStep(s) \/ Start(s) \/ StartRefused(s) \/ EmitStep(s)
        PROVE  UNCHANGED <<nextPid, svc>>
    BY <1>2, <2>1 DEF ThreadStep, Start, StartRefused, EmitStep, EmitReady,
       EmitFailed, EmitUnready, EmitDown, Register, ForkFail, WritePIDFile,
       WritePIDFileFail, UndoStart, ReadyOk, ReadyFail, DiscardStopped, DiscardReaped,
       DiscardSettle, WaitExit, CgroupEnded, CgroupUnreadable, CgroupCancelled, Settle,
       Swept, BackoffOver, RestartService
  <2>2. ASSUME \/ KernelStep \/ ManagerStep \/ DrainStep \/ CancelParent \/ DrainBegin
               \/ \E t \in Threads : StopStep(t)
        PROVE  UNCHANGED <<nextPid, svc>>
    BY <2>2 DEF KernelStep, SpawnDescendant, DescendantsExit, LauncherExit, ManagerStep,
       ReapBegin, ReapOne, ReapEnd, DrainStep, DrainGroup, DrainNext, CancelParent,
       DrainBegin, StopStep, StopLock, StopTerm, StopPoll, StopKill, StopTimeout
  <2>3. CASE UNCHANGED vars  BY <2>3 DEF vars
  <2> QED BY <2>1, <2>2, <2>3 DEF Next, InternalStep
<1> QED BY <1>1, <1>2

\* A cgroup in which nothing runs and that gets nothing new stays empty.
LEMMA EmptyKept ==
  ASSUME NEW s, Empty(s), unstopped \subseteq unstopped', daemon'[s] # NoPid => Populated(s),
         \A p \in Pids : svc'[p] = s /\ Running(p)' => svc[p] = s /\ Running(p)
  PROVE  Empty(s)'
BY DEF Empty, Populated

\* An empty cgroup is populated by nothing but a new instance of its service:
\* descendants have a running launcher.
LEMMA EmptyStays ==
  ASSUME ChildInv, [Next]_vars, NEW s \in Services, ~Fork(s), Empty(s)
  PROVE  Empty(s)'
<1>1. ASSUME UNCHANGED <<svc, life, daemon>>, unstopped \subseteq unstopped'
      PROVE  Empty(s)'
  BY <1>1 DEF Empty, Populated, Running
<1>2. ASSUME NEW d \in Services, Fork(d) PROVE Empty(s)'
  <2>1. d # s  BY <1>2
  <2>2. nextPid \in Pids /\ UNCHANGED <<daemon, unstopped>>
    BY <1>2 DEF Fork, stopVars
  <2>3. \A p \in Pids : /\ life'[p] = IF p = nextPid THEN "running" ELSE life[p]
                        /\ svc'[p] = IF p = nextPid THEN d ELSE svc[p]
    BY <1>2 DEF Fork, ChildInv
  <2>4. \A p \in Pids : svc'[p] = s /\ Running(p)' => svc[p] = s /\ Running(p)
    BY <2>1, <2>3 DEF Running
  <2>5. daemon'[s] # NoPid => Populated(s)  BY <2>2 DEF Populated
  <2> QED BY <2>2, <2>4, <2>5, EmptyKept
<1>3. ASSUME NEW d \in Services, ThreadStep(d) \/ Start(d) \/ StartRefused(d) \/ EmitStep(d)
      PROVE  Empty(s)'
  <2> USE DEF kernelVars, stopVars, StopReturn
  <2>1. CASE Fork(d)  BY <1>2, <2>1
  <2>2. ASSUME ~Fork(d) PROVE UNCHANGED <<svc, life, daemon, unstopped>>
    <3>1. CASE Register(d) \/ ForkFail(d) \/ WritePIDFile(d) \/ WritePIDFileFail(d) \/ UndoStart(d)
      BY <3>1 DEF Register, ForkFail, WritePIDFile, WritePIDFileFail, UndoStart
    <3>2. CASE \/ ReadyOk(d) \/ ReadyFail(d) \/ DiscardStopped(d) \/ DiscardReaped(d)
               \/ DiscardSettle(d)
      BY <3>2 DEF ReadyOk, ReadyFail, DiscardStopped, DiscardReaped, DiscardSettle
    <3>3. CASE WaitExit(d) \/ CgroupEnded(d) \/ CgroupUnreadable(d) \/ CgroupCancelled(d)
      BY <3>3 DEF WaitExit, CgroupEnded, CgroupUnreadable, CgroupCancelled
    <3>4. CASE Settle(d) \/ Swept(d) \/ BackoffOver(d) \/ RestartService(d)
      BY <3>4 DEF Settle, Swept, BackoffOver, RestartService
    <3>5. CASE Start(d) \/ StartRefused(d) \/ EmitStep(d)
      BY <3>5 DEF Start, StartRefused, EmitStep, EmitReady, EmitFailed, EmitUnready, EmitDown
    <3> QED BY <1>3, <2>2, <3>1, <3>2, <3>3, <3>4, <3>5 DEF ThreadStep
  <2> QED BY <1>1, <2>1, <2>2
<1>4. ASSUME NEW p \in Pids, LauncherExit(p) \/ ReapOne(p) PROVE Empty(s)'
  <2>1. UNCHANGED <<svc, daemon, unstopped>>
    BY <1>4 DEF LauncherExit, ReapOne, stopVars
  <2>2. \A q \in Pids : Running(q)' => Running(q)
    BY <1>4 DEF LauncherExit, ReapOne, Running, ChildInv
  <2>3. daemon'[s] # NoPid => Populated(s)  BY <2>1 DEF Populated
  <2> QED BY <2>1, <2>2, <2>3, EmptyKept
<1>5. ASSUME NEW d \in Services, SpawnDescendant(d) \/ DescendantsExit(d) PROVE Empty(s)'
  <2>1. UNCHANGED <<svc, life, unstopped>>
    BY <1>5 DEF SpawnDescendant, DescendantsExit, stopVars
  <2>2. daemon'[s] # NoPid => Populated(s)
    BY <1>5 DEF SpawnDescendant, DescendantsExit, Populated, ChildInv
  <2> QED BY <2>1, <2>2, EmptyKept DEF Running
<1>6. ASSUME \/ ReapBegin \/ ReapEnd \/ DrainStep \/ CancelParent \/ DrainBegin
             \/ UNCHANGED vars
      PROVE  Empty(s)'
  <2>1. UNCHANGED <<svc, life, daemon, unstopped>>
    BY <1>6 DEF ReapBegin, ReapEnd, DrainStep, DrainGroup, DrainNext, StopReturn, CancelParent,
       DrainBegin, vars, kernelVars, stopVars
  <2> QED BY <1>1, <2>1
<1>7. ASSUME NEW t \in Threads, StopStep(t) PROVE Empty(s)'
  <2>1. UNCHANGED <<svc, life, daemon>> /\ unstopped \subseteq unstopped'
    BY <1>7 DEF StopStep, StopLock, StopTerm, StopPoll, StopKill, StopTimeout, kernelVars
  <2> QED BY <1>1, <2>1
<1> QED BY <1>3, <1>4, <1>5, <1>6, <1>7 DEF Next, InternalStep, KernelStep, ManagerStep

\* What every step leaves to a service that creates no process in it: an empty
\* cgroup stays empty, and pids keep their service.
LEMMA RecordFacts ==
  ASSUME MutexInv, ChildInv, [Next]_vars, NEW s \in Services, ~Fork(s)
  PROVE  /\ Empty(s) => Empty(s)'
         /\ nextPid \in Int /\ nextPid' \in Int /\ nextPid <= nextPid'
         /\ \A p \in Pids : p <= nextPid - 1 => svc'[p] = svc[p]
         /\ pc[s] = "register" => nextPid' = nextPid
<1>1. nextPid \in Int /\ nextPid' \in {nextPid, nextPid + 1}
  BY PidsKept DEF ChildInv
<1>2. \A p \in Pids : p <= nextPid - 1 => svc'[p] = svc[p]
  BY <1>1, PidsKept DEF Pids
<1>3. ASSUME pc[s] = "register" PROVE nextPid' = nextPid
  <2>1. \A d \in Services : ~Fork(d)
    <3> SUFFICES ASSUME NEW d \in Services, Fork(d) PROVE FALSE  OBVIOUS
    <3>1. pc[d] = "fork"  BY DEF Fork
    <3>2. mu = d /\ mu = s  BY <1>3, <3>1 DEF MutexInv, Holding
    <3> QED BY <1>3, <3>1, <3>2
  <2> QED BY <2>1, PidsKept
<1> QED BY <1>1, <1>2, <1>3, EmptyStays

\* A step that leaves a service's thread and record alone.
LEMMA RecordedOther ==
  ASSUME MutexInv, ChildInv, [Next]_vars, NEW s \in Services, ~Fork(s), Recorded(s),
         pc'[s] = pc[s], proc'[s] = proc[s], (s \in registered') = (s \in registered),
         stop'[s] = stop[s], pend'[s] = pend[s]
  PROVE  Recorded(s)'
<1> USE RecordFacts
<1>1. proc'[s] \in 0..(nextPid' - 1)  BY DEF Recorded
<1>2. proc[s] \in Pids => svc'[proc[s]] = svc[proc[s]]  BY DEF Recorded, Pids
<1>3. pc[s] = "register" => nextPid' - 1 \in Pids /\ svc'[nextPid' - 1] = s  BY DEF Recorded
<1>4. pc'[s] \in Stopping =>
       \/ stop'[s] \in {"lock", "term", "kill", "unkilled"} /\ (Empty(s)' \/ proc'[s] \in pend'[s])
       \/ Stopped(s)' /\ Empty(s)'
  BY DEF Recorded, Stopped
<1> QED BY <1>1, <1>2, <1>3, <1>4 DEF Recorded

\* A service whose record and kernel state stay, and whose thread goes to a place
\* without a call of stopProcesses.
LEMMA RecordedMove ==
  ASSUME MutexInv, ChildInv, [Next]_vars, RecordInv, NEW s \in Services, Recorded(s),
         NEW l, Goto(s, l), pc[s] # "register", l \notin {"register"} \cup Stopping,
         proc'[s] = proc[s], UNCHANGED nextPid, stop'[s] = "none",
         l \notin {"off", "emitFailed"} => s \in registered',
         l \in HasInstance => pc[s] \in HasInstance,
         l \in {"discardWait", "discardSettle"} => Empty(s),
         s \in registered' \/ Empty(s)
  PROVE  Recorded(s)'
<1>1. pc'[s] = l  BY DEF MutexInv, Goto
<1>2. ~Fork(s)
  BY <1>1 DEF Fork, Goto, MutexInv
<1> USE RecordFacts
<1>3. proc[s] \in Pids => svc'[proc[s]] = svc[proc[s]]  BY <1>2 DEF Recorded, Pids
<1>4. Empty(s) => Empty(s)'  BY <1>2
<1> QED BY <1>1, <1>3, <1>4 DEF Recorded

\* A service whose thread calls stopProcesses for its instance.
LEMMA RecordedCall ==
  ASSUME MutexInv, ChildInv, [Next]_vars, RecordInv, NEW s \in Services, Recorded(s),
         NEW l \in Stopping, Goto(s, l), pc[s] \in HasInstance, CallStop(s, {proc[s]}),
         UNCHANGED <<nextPid, registered, proc>>
  PROVE  Recorded(s)'
<1>1. pc'[s] = l  BY DEF MutexInv, Goto
<1>2. ~Fork(s)
  BY <1>1 DEF Fork, Stopping, Goto, MutexInv
<1>3. stop'[s] = "lock" /\ pend'[s] = {proc[s]}
  BY DEF RecordInv, CallStop, Threads
<1> USE RecordFacts
<1>4. proc[s] \in Pids => svc'[proc[s]] = svc[proc[s]]  BY <1>2 DEF Recorded, Pids
<1>5. Empty(s) => Empty(s)'  BY <1>2
<1> QED BY <1>1, <1>3, <1>4, <1>5 DEF Recorded, HasInstance, Stopping

\* A step of a call of stopProcesses: what it drops is empty, what it gives up on
\* is named.
LEMMA RecordedStop ==
  ASSUME MutexInv, ChildInv, RecordInv, NEW s \in Services, StopStep(s)
  PROVE  Recorded(s)'
<1> USE DEF recVars, fileVars, thrVars, kernelVars
<1>0. [Next]_vars /\ s \in Threads
  BY DEF Next, InternalStep, Threads
<1>1. Recorded(s) /\ pc[s] \in Stopping /\ stop[s] # "none"
  BY DEF RecordInv, Recorded, StopStep, StopLock, StopTerm, StopPoll, StopKill, StopTimeout
<1>2. stop[s] \in {"lock", "term", "kill", "unkilled"} /\ (Empty(s) \/ proc[s] \in pend[s])
  BY <1>1 DEF Recorded, Stopped, StopStep, StopLock, StopTerm, StopPoll, StopKill, StopTimeout
<1>3. proc[s] \in Pids /\ svc[proc[s]] = s
  BY <1>1 DEF Recorded, Stopping, HasInstance
<1>4. UNCHANGED <<pc, proc, registered, svc, nextPid>>
  BY DEF StopStep, StopLock, StopTerm, StopPoll, StopKill, StopTimeout
<1>5. Empty(s) => Empty(s)'
  BY <1>0, <1>1, EmptyStays DEF Fork, Stopping
<1>6. \/ stop'[s] \in {"lock", "term", "kill", "unkilled"} /\ (Empty(s)' \/ proc[s] \in pend'[s])
      \/ Stopped(s)' /\ Empty(s)'
  <2> USE <1>0 DEF RecordInv
  <2>1. CASE StopLock(s)  BY <1>2, <1>5, <2>1 DEF StopLock
  <2>2. CASE StopKill(s)
    <3>1. stop'[s] \in {"kill", "unkilled"} /\ pend'[s] = pend[s]  BY <2>2 DEF StopKill
    <3> QED BY <1>2, <1>5, <3>1
  <2>3. CASE StopTimeout(s)
    <3>1. stop'[s] = "error" /\ unstopped' = unstopped \cup {svc[p] : p \in pend[s]}
      BY <2>3 DEF StopTimeout
    <3>2. Empty(s)'  BY <1>2, <1>3, <1>5, <3>1 DEF Empty
    <3> QED BY <3>1, <3>2 DEF Stopped
  <2>4. CASE StopTerm(s) \/ StopPoll(s)
    <3> DEFINE left == {p \in pend[s] : Populated(svc[p])}
    <3>1. pend'[s] = left /\ stop'[s] \in {"term", "kill", "unkilled", "done", "error"}
          /\ (stop'[s] \in {"done", "error"} => left = {})
      BY <1>2, <2>4 DEF StopTerm, StopPoll
    <3>2. Empty(s) \/ proc[s] \in left  BY <1>2, <1>3 DEF Empty
    <3> QED BY <1>5, <3>1, <3>2 DEF Stopped
  <2> QED BY <2>1, <2>2, <2>3, <2>4 DEF StopStep
<1>7. pc[s] \notin {"off", "emitFailed", "register", "discardWait", "discardSettle"}
  BY <1>1 DEF Stopping
<1> QED BY <1>1, <1>3, <1>4, <1>6, <1>7 DEF Recorded

\* The steps of a thread, for its own record ...
LEMMA ThreadRecord ==
  ASSUME MutexInv, ChildInv, RecordInv, NEW s \in Services,
         ThreadStep(s) \/ Start(s) \/ StartRefused(s) \/ EmitStep(s)
  PROVE  Recorded(s)'
<1> USE DEF recVars, fileVars, stopVars, thrVars, kernelVars
<1>0. [Next]_vars /\ Recorded(s) /\ s \in Threads
  BY DEF Next, InternalStep, Threads, RecordInv
<1>a. pc[s] \notin Stopping => stop[s] = "none"  BY <1>0 DEF Recorded
<1>b. pc[s] \notin {"off", "emitFailed"} => s \in registered  BY <1>0 DEF Recorded
<1>1. CASE Fork(s)
  <2>1. /\ nextPid \in Pids /\ nextPid' = nextPid + 1 /\ pc'[s] = "register"
        /\ UNCHANGED <<proc, registered, stop>>
    BY <1>1 DEF Fork, Goto, MutexInv
  <2>2. svc'[nextPid] = s  BY <1>1 DEF Fork, ChildInv
  <2>3. nextPid' - 1 = nextPid /\ proc[s] \in 0..(nextPid' - 1)
    BY <1>0, <2>1 DEF Recorded, ChildInv
  <2>4. stop[s] = "none" /\ s \in registered
    BY <1>a, <1>b, <1>1 DEF Fork, Stopping
  <2> QED BY <2>1, <2>2, <2>3, <2>4 DEF Recorded, HasInstance, Stopping
<1>2. CASE Start(s)
  <2>1. Empty(s) /\ stop[s] = "none" /\ pc[s] = "off"
    BY <1>0, <1>a, <1>2 DEF Recorded, Start, Stopping
  <2>2. /\ pc'[s] = "fork" /\ proc'[s] = 0 /\ s \in registered'
        /\ UNCHANGED <<nextPid, stop>>
    BY <1>2 DEF Start, Goto, MutexInv, RecordInv, NoPid
  <2>3. Empty(s)'  BY <1>0, <2>1, EmptyStays DEF Fork
  <2>4. 0 \in 0..(nextPid - 1)  BY PidAssumption DEF ChildInv
  <2> QED BY <2>1, <2>2, <2>3, <2>4 DEF Recorded, HasInstance, Stopping
<1>3. CASE Register(s)
  <2>1. /\ pc[s] = "register" /\ pc'[s] = "write" /\ UNCHANGED <<nextPid, svc, registered, stop>>
        /\ proc' = [proc EXCEPT ![s] = nextPid - 1]
    BY <1>3 DEF Register, Goto, MutexInv
  <2>2. proc'[s] = nextPid - 1  BY <2>1 DEF RecordInv
  <2>3. nextPid - 1 \in Pids /\ svc[nextPid - 1] = s /\ nextPid - 1 \in 0..(nextPid - 1)
    BY <1>0, <2>1, PidAssumption DEF Recorded, ChildInv
  <2>4. stop[s] = "none" /\ s \in registered
    BY <1>a, <1>b, <2>1 DEF Stopping
  <2> QED BY <2>1, <2>2, <2>3, <2>4 DEF Recorded, HasInstance, Stopping
<1>4. CASE ForkFail(s)
  <2>1. PICK l \in {"emitFailed", "emitDown"} :
           /\ Goto(s, l) /\ pc[s] = "fork" /\ (l = "emitDown" => registered' = registered)
           /\ (s \in registered' \/ proc[s] = NoPid)
    BY <1>4, <1>b DEF ForkFail, StartFailed
  <2>2. s \in registered' \/ Empty(s)
    BY <1>0, <2>1 DEF Recorded, NoPid, Pids
  <2>3. UNCHANGED <<proc, nextPid, stop>>  BY <1>4 DEF ForkFail
  <2> QED BY <1>0, <1>a, <1>b, <2>1, <2>2, <2>3, RecordedMove DEF HasInstance, Stopping
<1>5. CASE WritePIDFileFail(s)
  BY <1>0, <1>5, RecordedCall DEF WritePIDFileFail, Stopping, HasInstance
<1>6. CASE UndoStart(s)
  <2>1. PICK l \in {"emitFailed", "emitDown"}, p \in {NoPid, proc[s]} :
           /\ Goto(s, l) /\ pc[s] = "undo" /\ proc' = [proc EXCEPT ![s] = p]
           /\ (l = "emitDown" => registered' = registered)
    BY <1>6 DEF UndoStart, StartFailed
  <2>2. pc'[s] = l /\ stop'[s] = "none" /\ UNCHANGED <<svc, nextPid>>
    BY <1>0, <1>6, <2>1 DEF UndoStart, StopReturn, Goto, MutexInv, RecordInv
  <2>3. Empty(s)
    BY <1>0, <1>6, <2>1 DEF Recorded, UndoStart, Stopped, Stopping
  <2>4. Empty(s)'  BY <1>0, <2>1, <2>3, EmptyStays DEF Fork
  <2>5. proc'[s] = p /\ p \in 0..(nextPid - 1)
    <3>1. NoPid \in 0..(nextPid - 1)  BY PidAssumption DEF ChildInv, NoPid
    <3>2. proc[s] \in 0..(nextPid - 1)  BY <1>0 DEF Recorded
    <3> QED BY <2>1, <3>1, <3>2 DEF RecordInv
  <2> QED BY <1>b, <2>1, <2>2, <2>4, <2>5 DEF Recorded, HasInstance, Stopping
<1>7. CASE WritePIDFile(s) \/ ReadyOk(s)
  BY <1>0, <1>a, <1>b, <1>7, RecordedMove DEF WritePIDFile, ReadyOk, Stopping, HasInstance
<1>8. CASE ReadyFail(s)
  <2>1. CASE fresh[s]
    BY <1>0, <1>8, <2>1, RecordedCall DEF ReadyFail, Stopping, HasInstance
  <2>2. CASE ~fresh[s]
    BY <1>0, <1>a, <1>b, <1>8, <2>2, RecordedMove DEF ReadyFail, Stopping, HasInstance
  <2> QED BY <2>1, <2>2
<1>9. CASE DiscardStopped(s) \/ Swept(s)
  <2>1. Empty(s) /\ pc[s] \in {"discard", "sweep"}
    BY <1>0, <1>9 DEF Recorded, DiscardStopped, Swept, Stopped, Stopping
  <2>2. stop'[s] = "none" /\ UNCHANGED <<proc, nextPid, registered>>
    BY <1>0, <1>9 DEF DiscardStopped, Swept, StopReturn, RecordInv
  <2>3. PICK l \in {"discardWait", "emitDown"} : Goto(s, l)
    BY <1>9 DEF DiscardStopped, Swept
  <2> QED BY <1>0, <1>b, <2>1, <2>2, <2>3, RecordedMove DEF Stopping, HasInstance
<1>10. CASE DiscardReaped(s)
  <2>1. Empty(s)  BY <1>0, <1>10 DEF Recorded, DiscardReaped
  <2> QED BY <1>0, <1>a, <1>b, <1>10, <2>1, RecordedMove DEF DiscardReaped, Stopping, HasInstance
<1>11. CASE DiscardSettle(s)
  <2>1. Empty(s) /\ pc[s] = "discardSettle"
    BY <1>0, <1>11 DEF Recorded, DiscardSettle
  <2>2. PICK l \in {"emitFailed", "backoff"} :
          Goto(s, l) /\ (l = "backoff" => registered' = registered)
    BY <1>11 DEF DiscardSettle
  <2>3. UNCHANGED <<proc, nextPid, stop>>  BY <1>11 DEF DiscardSettle
  <2> QED BY <1>0, <1>a, <1>b, <2>1, <2>2, <2>3, RecordedMove DEF Stopping, HasInstance
<1>12. CASE WaitExit(s) \/ CgroupEnded(s) \/ CgroupUnreadable(s) \/ CgroupCancelled(s)
  <2>1. pc[s] \in {"wait", "cgroup"} /\ UNCHANGED <<proc, nextPid, registered, stop>>
    BY <1>12 DEF WaitExit, CgroupEnded, CgroupUnreadable, CgroupCancelled
  <2>2. PICK l \in {"cgroup", "settle", "over"} : Goto(s, l)
    BY <1>12 DEF WaitExit, CgroupEnded, CgroupUnreadable, CgroupCancelled, Ended
  <2> QED BY <1>0, <1>a, <1>b, <2>1, <2>2, RecordedMove DEF Stopping, HasInstance
<1>13. CASE Settle(s)
  <2>1. CASE draining
    BY <1>0, <1>a, <1>b, <1>13, <2>1, RecordedMove DEF Settle, Stopping, HasInstance
  <2>2. CASE ~draining
    BY <1>0, <1>13, <2>2, RecordedCall DEF Settle, Stopping, HasInstance
  <2> QED BY <2>1, <2>2
<1>14. CASE BackoffOver(s) \/ RestartService(s)
  BY <1>0, <1>a, <1>b, <1>14, RecordedMove DEF BackoffOver, RestartService, Stopping, HasInstance
<1>15. CASE EmitReady(s)
  BY <1>0, <1>a, <1>b, <1>15, RecordedMove DEF EmitReady, Stopping, HasInstance
<1>16. CASE EmitFailed(s)
  <2>1. s \in registered \/ Empty(s)  BY <1>0, <1>16 DEF Recorded, EmitFailed
  <2> QED BY <1>0, <1>a, <1>16, <2>1, RecordedMove DEF EmitFailed, Stopping, HasInstance
<1>17. CASE EmitUnready(s)
  BY <1>0, <1>17, RecordedCall DEF EmitUnready, Stopping, HasInstance
<1>18. CASE EmitDown(s)
  <2>1. PICK l \in {"over", "backoff"} : Goto(s, l)  BY <1>18 DEF EmitDown
  <2> QED BY <1>0, <1>a, <1>b, <1>18, <2>1, RecordedMove DEF EmitDown, Stopping, HasInstance
<1>19. CASE StartRefused(s)
  BY <1>0, <1>19, RecordedOther DEF StartRefused, Fork
<1> QED BY <1>1, <1>2, <1>3, <1>4, <1>5, <1>6, <1>7, <1>8, <1>9, <1>10, <1>11, <1>12,
           <1>13, <1>14, <1>15, <1>16, <1>17, <1>18, <1>19 DEF ThreadStep, EmitStep

\* ... and for everyone else's, which it does not touch.
LEMMA ThreadApart ==
  ASSUME MutexInv, ChildInv, RecordInv, NEW s \in Services,
         ThreadStep(s) \/ Start(s) \/ StartRefused(s) \/ EmitStep(s)
  PROVE  /\ registered' \in SUBSET Services /\ proc' \in [Services -> Int]
         /\ stop' \in [Threads -> StopSteps]
         /\ pend' \in [Threads -> SUBSET Int]
         /\ \A d \in Services \ {s} :
              /\ pc'[d] = pc[d] /\ proc'[d] = proc[d]
              /\ (d \in registered') = (d \in registered)
         /\ \A t \in Threads \ {s} : stop'[t] = stop[t] /\ pend'[t] = pend[t]
<1> USE DEF recVars, fileVars, stopVars, thrVars
<1>0. s \in Threads /\ proc[s] \in Int /\ {proc[s]} \in SUBSET Int
  BY DEF Threads, RecordInv
<1>1. \A d \in Services \ {s} : pc'[d] = pc[d]
  <2>1. UNCHANGED pc \/ \E l \in Locations : Goto(s, l)
    <3> USE DEF Locations
    <3>1. CASE Fork(s) \/ Register(s) \/ ForkFail(s) \/ WritePIDFile(s) \/ WritePIDFileFail(s)
               \/ UndoStart(s)
      BY <3>1 DEF Fork, Register, ForkFail, WritePIDFile, WritePIDFileFail, UndoStart,
         StartFailed
    <3>2. CASE ReadyOk(s) \/ ReadyFail(s) \/ DiscardStopped(s) \/ DiscardReaped(s)
               \/ DiscardSettle(s)
      BY <3>2 DEF ReadyOk, ReadyFail, DiscardStopped, DiscardReaped, DiscardSettle
    <3>3. CASE WaitExit(s) \/ CgroupEnded(s) \/ CgroupUnreadable(s) \/ CgroupCancelled(s)
      BY <3>3 DEF WaitExit, CgroupEnded, CgroupUnreadable, CgroupCancelled, Ended
    <3>4. CASE Settle(s) \/ Swept(s) \/ BackoffOver(s) \/ RestartService(s)
      BY <3>4 DEF Settle, Swept, BackoffOver, RestartService
    <3>5. CASE Start(s) \/ StartRefused(s)  BY <3>5 DEF Start, StartRefused
    <3>6. CASE EmitStep(s)
      BY <3>6 DEF EmitStep, EmitReady, EmitFailed, EmitUnready, EmitDown
    <3> QED BY <3>1, <3>2, <3>3, <3>4, <3>5, <3>6 DEF ThreadStep
  <2> QED BY <2>1 DEF Goto, MutexInv
<1>2. \A d \in Services \ {s} : proc'[d] = proc[d] /\ (d \in registered') = (d \in registered)
  <2>1. CASE Register(s) \/ UndoStart(s) \/ Start(s)
    BY <2>1 DEF Register, UndoStart, Start, StartFailed, RecordInv
  <2>2. CASE ForkFail(s) \/ DiscardSettle(s)
    BY <2>2 DEF ForkFail, DiscardSettle, StartFailed
  <2>3. CASE EmitStep(s) \/ StartRefused(s)
    BY <2>3 DEF EmitStep, EmitReady, EmitFailed, EmitUnready, EmitDown, StartRefused
  <2>4. CASE Fork(s) \/ WritePIDFile(s) \/ WritePIDFileFail(s) \/ ReadyOk(s) \/ ReadyFail(s)
             \/ DiscardStopped(s) \/ DiscardReaped(s)
    BY <2>4 DEF Fork, WritePIDFile, WritePIDFileFail, ReadyOk, ReadyFail, DiscardStopped,
       DiscardReaped
  <2>5. CASE WaitExit(s) \/ CgroupEnded(s) \/ CgroupUnreadable(s) \/ CgroupCancelled(s)
             \/ Settle(s) \/ Swept(s) \/ BackoffOver(s) \/ RestartService(s)
    BY <2>5 DEF WaitExit, CgroupEnded, CgroupUnreadable, CgroupCancelled, Settle, Swept,
       BackoffOver, RestartService
  <2> QED BY <2>1, <2>2, <2>3, <2>4, <2>5 DEF ThreadStep
<1>3. registered' \in SUBSET Services
  <2>1. registered' \in {registered, registered \ {s}, registered \cup {s}}
    <3>1. CASE UndoStart(s) \/ Start(s) \/ ForkFail(s) \/ DiscardSettle(s)
      BY <3>1 DEF UndoStart, Start, ForkFail, DiscardSettle, StartFailed
    <3>2. CASE EmitStep(s) \/ StartRefused(s)
      BY <3>2 DEF EmitStep, EmitReady, EmitFailed, EmitUnready, EmitDown, StartRefused
    <3>3. CASE Fork(s) \/ Register(s) \/ WritePIDFile(s) \/ WritePIDFileFail(s) \/ ReadyOk(s)
               \/ ReadyFail(s) \/ DiscardStopped(s) \/ DiscardReaped(s)
      BY <3>3 DEF Fork, Register, WritePIDFile, WritePIDFileFail, ReadyOk, ReadyFail,
         DiscardStopped, DiscardReaped
    <3>4. CASE WaitExit(s) \/ CgroupEnded(s) \/ CgroupUnreadable(s) \/ CgroupCancelled(s)
               \/ Settle(s) \/ Swept(s) \/ BackoffOver(s) \/ RestartService(s)
      BY <3>4 DEF WaitExit, CgroupEnded, CgroupUnreadable, CgroupCancelled, Settle, Swept,
         BackoffOver, RestartService
    <3> QED BY <3>1, <3>2, <3>3, <3>4 DEF ThreadStep
  <2> QED BY <2>1 DEF RecordInv
<1>6. proc' \in [Services -> Int]
  <2>1. nextPid - 1 \in Int /\ NoPid \in Int  BY PidAssumption DEF ChildInv, NoPid
  <2>2. CASE Register(s) \/ UndoStart(s) \/ Start(s)
    <3>1. \E p \in {nextPid - 1, NoPid, proc[s]} : proc' = [proc EXCEPT ![s] = p]
      BY <2>2 DEF Register, UndoStart, Start
    <3> QED BY <1>0, <2>1, <3>1 DEF RecordInv
  <2>3. CASE UNCHANGED proc  BY <2>3 DEF RecordInv
  <2>4. CASE EmitStep(s) \/ StartRefused(s) \/ ForkFail(s) \/ DiscardSettle(s)
    BY <2>3, <2>4 DEF EmitStep, EmitReady, EmitFailed, EmitUnready, EmitDown, StartRefused,
       ForkFail, DiscardSettle
  <2>5. CASE Fork(s) \/ WritePIDFile(s) \/ WritePIDFileFail(s) \/ ReadyOk(s) \/ ReadyFail(s)
             \/ DiscardStopped(s) \/ DiscardReaped(s)
    BY <2>3, <2>5 DEF Fork, WritePIDFile, WritePIDFileFail, ReadyOk, ReadyFail, DiscardStopped,
       DiscardReaped
  <2>6. CASE WaitExit(s) \/ CgroupEnded(s) \/ CgroupUnreadable(s) \/ CgroupCancelled(s)
             \/ Settle(s) \/ Swept(s) \/ BackoffOver(s) \/ RestartService(s)
    BY <2>3, <2>6 DEF WaitExit, CgroupEnded, CgroupUnreadable, CgroupCancelled, Settle, Swept,
       BackoffOver, RestartService
  <2> QED BY <2>2, <2>4, <2>5, <2>6 DEF ThreadStep
<1>4. UNCHANGED <<stop, pend>> \/ CallStop(s, {proc[s]}) \/ StopReturn(s)
  <2>1. CASE EmitStep(s) \/ StartRefused(s) \/ Start(s)
    BY <2>1 DEF EmitStep, EmitReady, EmitFailed, EmitUnready, EmitDown, StartRefused, Start
  <2>2. CASE Fork(s) \/ Register(s) \/ ForkFail(s) \/ WritePIDFile(s) \/ WritePIDFileFail(s)
             \/ UndoStart(s) \/ ReadyOk(s) \/ ReadyFail(s)
    BY <2>2 DEF Fork, Register, ForkFail, WritePIDFile, WritePIDFileFail, UndoStart, ReadyOk,
       ReadyFail
  <2>3. CASE DiscardStopped(s) \/ DiscardReaped(s) \/ DiscardSettle(s) \/ WaitExit(s)
             \/ CgroupEnded(s) \/ CgroupUnreadable(s) \/ CgroupCancelled(s)
    BY <2>3 DEF DiscardStopped, DiscardReaped, DiscardSettle, WaitExit, CgroupEnded,
       CgroupUnreadable, CgroupCancelled
  <2>4. CASE Settle(s) \/ Swept(s) \/ BackoffOver(s) \/ RestartService(s)
    BY <2>4 DEF Settle, Swept, BackoffOver, RestartService
  <2> QED BY <2>1, <2>2, <2>3, <2>4 DEF ThreadStep
<1>5. /\ stop' \in [Threads -> StopSteps]
      /\ pend' \in [Threads -> SUBSET Int]
      /\ \A t \in Threads \ {s} : stop'[t] = stop[t] /\ pend'[t] = pend[t]
  BY <1>0, <1>4 DEF CallStop, StopReturn, RecordInv, StopSteps
<1> QED BY <1>1, <1>2, <1>3, <1>5, <1>6

\* A step of a call of stopProcesses concerns the caller alone.
LEMMA StopApart ==
  ASSUME RecordInv, NEW t \in Threads, StopStep(t)
  PROVE  /\ UNCHANGED <<pc, proc, registered>>
         /\ stop' \in [Threads -> StopSteps]
         /\ pend' \in [Threads -> SUBSET Int]
         /\ \A u \in Threads \ {t} : stop'[u] = stop[u] /\ pend'[u] = pend[u]
<1> USE DEF RecordInv, StopSteps, recVars, fileVars, thrVars
<1>1. CASE StopLock(t)  BY <1>1 DEF StopLock
<1>2. CASE StopKill(t)  BY <1>2 DEF StopKill
<1>3. CASE StopTimeout(t)  BY <1>3 DEF StopTimeout
<1>4. CASE StopTerm(t)
  <2> DEFINE left == {p \in pend[t] : Populated(svc[p])}
  <2>1. left \in SUBSET Int  OBVIOUS
  <2>2. pend' = [pend EXCEPT ![t] = left] /\ UNCHANGED <<pc, proc, registered>>
        /\ \E l \in {"term", "done"} : stop' = [stop EXCEPT ![t] = l]
    BY <1>4 DEF StopTerm
  <2> HIDE DEF left
  <2> QED BY <2>1, <2>2
<1>5. CASE StopPoll(t)
  <2> DEFINE left == {p \in pend[t] : Populated(svc[p])}
  <2>1. left \in SUBSET Int  OBVIOUS
  <2>2. pend' = [pend EXCEPT ![t] = left] /\ UNCHANGED <<pc, proc, registered>>
        /\ \E l \in {"term", "kill", "unkilled", "done", "error"} : stop' = [stop EXCEPT ![t] = l]
    BY <1>5 DEF StopPoll
  <2> HIDE DEF left
  <2> QED BY <2>1, <2>2
<1> QED BY <1>1, <1>2, <1>3, <1>4, <1>5 DEF StopStep

\* A step of Drain concerns its own call alone.
LEMMA DrainApart ==
  ASSUME RecordInv, DrainStep
  PROVE  /\ UNCHANGED <<pc, proc, registered>>
         /\ stop' \in [Threads -> StopSteps]
         /\ pend' \in [Threads -> SUBSET Int]
         /\ \A s \in Services : stop'[s] = stop[s] /\ pend'[s] = pend[s]
<1> USE ServiceAssumption DEF RecordInv, StopSteps, recVars, fileVars, thrVars
<1>1. CASE DrainGroup
  <2> DEFINE found == {proc[s] : s \in GroupNames(group) \cap registered} \ {NoPid}
  <2>1. found \in SUBSET Int  BY DEF RecordInv
  <2>2. UNCHANGED <<pc, proc, registered>>
        /\ (UNCHANGED <<stop, pend>> \/ CallStop(Drainer, found))
    BY <1>1 DEF DrainGroup
  <2> HIDE DEF found
  <2> QED BY <2>1, <2>2 DEF CallStop, Threads
<1>2. CASE DrainNext
  BY <1>2 DEF DrainNext, StopReturn, Threads
<1> QED BY <1>1, <1>2 DEF DrainStep

\* Every step keeps what the records say.
LEMMA RecordStep == MutexInv /\ ChildInv /\ RecordInv /\ [Next]_vars => RecordInv'
<1> SUFFICES ASSUME MutexInv, ChildInv, RecordInv, [Next]_vars PROVE RecordInv'
  OBVIOUS
<1>0. \A s \in Services : Recorded(s) /\ s \in Threads  BY DEF RecordInv, Threads
<1>1. ASSUME NEW s \in Services, ThreadStep(s) \/ Start(s) \/ StartRefused(s) \/ EmitStep(s)
      PROVE  RecordInv'
  <2>1. Recorded(s)'  BY <1>1, ThreadRecord
  <2>2. ASSUME NEW d \in Services, d # s PROVE Recorded(d)'
    <3>1. ~Fork(d)
      <4>1. pc'[d] = pc[d]  BY <1>1, <2>2, ThreadApart
      <4> QED BY <4>1 DEF Fork, Goto, MutexInv
    <3> QED BY <1>0, <1>1, <2>2, <3>1, ThreadApart, RecordedOther
  <2> QED BY <1>1, <2>1, <2>2, ThreadApart DEF RecordInv
<1>2. ASSUME NEW t \in Threads, StopStep(t) PROVE RecordInv'
  <2>1. ASSUME NEW s \in Services PROVE Recorded(s)'
    <3>1. CASE s = t  BY <1>2, <3>1, RecordedStop
    <3>2. CASE s # t
      <4>1. ~Fork(s)  BY <1>2, StopApart DEF Fork, Goto, MutexInv
      <4> QED BY <1>0, <1>2, <3>2, <4>1, StopApart, RecordedOther
    <3> QED BY <3>1, <3>2
  <2> QED BY <1>2, <2>1, StopApart DEF RecordInv
<1>3. CASE DrainStep
  <2>1. \A s \in Services : ~Fork(s)  BY <1>3, DrainApart DEF Fork, Goto, MutexInv
  <2>2. \A s \in Services : Recorded(s)'  BY <1>0, <1>3, <2>1, DrainApart, RecordedOther
  <2> QED BY <1>3, <2>2, DrainApart DEF RecordInv
<1>4. CASE KernelStep \/ ManagerStep \/ CancelParent \/ DrainBegin \/ UNCHANGED vars
  <2>1. UNCHANGED <<pc, proc, registered, stop, pend>>
    BY <1>4 DEF KernelStep, SpawnDescendant, DescendantsExit, LauncherExit, ManagerStep,
       ReapBegin, ReapOne, ReapEnd, CancelParent, DrainBegin, vars, thrVars, recVars, fileVars, stopVars
  <2>2. \A s \in Services : ~Fork(s)  BY <2>1 DEF Fork, Goto, MutexInv
  <2>3. \A s \in Services : Recorded(s)'  BY <1>0, <2>1, <2>2, RecordedOther
  <2> QED BY <2>1, <2>3 DEF RecordInv
<1> QED BY <1>1, <1>2, <1>3, <1>4 DEF Next, InternalStep

\* There are no records at the start.
LEMMA RecordInit == Init => RecordInv
<1> SUFFICES ASSUME Init PROVE RecordInv  OBVIOUS
<1> USE DEF Init
<1>1. ASSUME NEW s \in Services PROVE Recorded(s)
  <2>1. Empty(s)  BY DEF Empty, Populated, Running
  <2>2. proc[s] = 0 /\ pc[s] = "off" /\ stop[s] = "none" /\ nextPid = 1
    BY DEF NoPid, Threads
  <2> QED BY <2>1, <2>2 DEF Recorded, HasInstance, Stopping
<1> QED BY <1>1 DEF RecordInv, StopSteps, NoPid

-------------------------------------------------------------------------------
(* The PID file *)

\* Where the PID file has been removed or was never written, and where it stands.
FileGone   == {"off", "fork", "register", "write", "undo", "discardSettle", "emitFailed",
               "emitDown", "settle", "sweep", "backoff"}
FileStands == {"ready", "emitReady", "wait"}

\* The file outlived the removal of an instance that had ended.
Stale(s) ==
  s \in unremoved /\ pidfile[s] \in Pids /\ pidfile[s] <= nextPid - 1 /\ Done(pidfile[s])

FileInv ==
  /\ pidfile \in [Services -> Int]
  /\ \A s \in Services :
       /\ pidfile[s] \in {NoPid, proc[s]} \/ Stale(s)
       /\ pc[s] \in FileGone => pidfile[s] = NoPid \/ Stale(s)
       /\ pc[s] = "cgroup" => Done(proc[s])
       /\ s \in HasPidFile /\ pc[s] \in FileStands => pidfile[s] = proc[s]

\* A collected process stays collected: pids are given out once.
LEMMA DoneStays ==
  ASSUME ChildInv, [Next]_vars, NEW p \in Pids, p <= nextPid - 1, Done(p)
  PROVE  Done(p)' /\ p <= nextPid' - 1
<1>1. p <= nextPid' - 1
  BY PidsKept DEF ChildInv, Pids
<1>2. ASSUME NEW s \in Services, ThreadStep(s) \/ Start(s) \/ StartRefused(s) \/ EmitStep(s)
      PROVE  Done(p)'
  <2> USE DEF kernelVars
  <2>1. CASE Fork(s)
    <3>1. life' = [life EXCEPT ![nextPid] = "running"] /\ p # nextPid
      BY <2>1 DEF Fork, ChildInv, Pids
    <3> QED BY <3>1 DEF Done, ChildInv
  <2>2. ASSUME ~Fork(s) PROVE UNCHANGED life
    BY <1>2, <2>2 DEF ThreadStep, Start, StartRefused, EmitStep, EmitReady,
       EmitFailed, EmitUnready, EmitDown, Register, ForkFail, WritePIDFile,
       WritePIDFileFail, UndoStart, ReadyOk, ReadyFail, DiscardStopped, DiscardReaped,
       DiscardSettle, WaitExit, CgroupEnded, CgroupUnreadable, CgroupCancelled, Settle,
       Swept, BackoffOver, RestartService
  <2> QED BY <2>1, <2>2 DEF Done
<1>3. ASSUME NEW q \in Pids, ReapOne(q) \/ LauncherExit(q) PROVE Done(p)'
  <2>1. q # p  BY <1>3 DEF ReapOne, LauncherExit, Zombie, Running, Done
  <2>2. life'[p] = life[p]  BY <1>3, <2>1 DEF ReapOne, LauncherExit, ChildInv
  <2> QED BY <2>2 DEF Done
<1>4. ASSUME \/ ReapBegin \/ ReapEnd \/ DrainStep \/ CancelParent \/ DrainBegin
             \/ \E s \in Services : SpawnDescendant(s) \/ DescendantsExit(s)
             \/ \E t \in Threads : StopStep(t)
             \/ UNCHANGED vars
      PROVE  Done(p)'
  <2>1. UNCHANGED life
    BY <1>4 DEF ReapBegin, ReapEnd, DrainStep, DrainGroup, DrainNext, CancelParent, DrainBegin,
       SpawnDescendant, DescendantsExit, StopStep, StopLock, StopTerm, StopPoll, StopKill,
       StopTimeout, vars, kernelVars
  <2> QED BY <2>1 DEF Done
<1> QED BY <1>1, <1>2, <1>3, <1>4 DEF Next, InternalStep, KernelStep, ManagerStep

\* So a stale file names an ended instance for as long as nobody touches it.
LEMMA StaleStays ==
  ASSUME ChildInv, [Next]_vars, NEW s \in Services, Stale(s),
         pidfile'[s] = pidfile[s], s \in unremoved'
  PROVE  Stale(s)'
BY DoneStays DEF Stale

\* What a step leaves to the services whose thread, record and file it does not touch.
LEMMA FileApart ==
  ASSUME ChildInv, RecordInv, FileInv, [Next]_vars, NEW d \in Services,
         pc'[d] = pc[d], proc'[d] = proc[d], pidfile'[d] = pidfile[d],
         d \in unremoved => d \in unremoved'
  PROVE  /\ pidfile'[d] \in {NoPid, proc'[d]} \/ Stale(d)'
         /\ pc'[d] \in FileGone => pidfile'[d] = NoPid \/ Stale(d)'
         /\ pc'[d] = "cgroup" => Done(proc[d])'
         /\ d \in HasPidFile /\ pc'[d] \in FileStands => pidfile'[d] = proc'[d]
<1>1. Stale(d) => Stale(d)'  BY StaleStays DEF Stale
<1>2. pc[d] = "cgroup" => proc[d] \in Pids /\ proc[d] <= nextPid - 1 /\ Done(proc[d])
  BY DEF RecordInv, Recorded, HasInstance, FileInv, ChildInv
<1>3. pc[d] = "cgroup" => Done(proc[d])'
  BY <1>2, DoneStays DEF Done
<1> QED BY <1>1, <1>3 DEF FileInv

\* Where a thread goes without touching its file, the file must be as that place
\* wants it, and a file that names the record's instance keeps it there.
LEMMA FileStays ==
  ASSUME MutexInv, ChildInv, RecordInv, FileInv, [Next]_vars, NEW s \in Services, NEW l,
         Goto(s, l), UNCHANGED <<pidfile, unremoved>>,
         \A d \in Services \ {s} : proc'[d] = proc[d],
         proc'[s] = proc[s] \/ pc[s] \in FileGone,
         l \in FileGone => pc[s] \in FileGone,
         l \in FileStands => pc[s] \in FileStands /\ proc'[s] = proc[s],
         l # "cgroup" \/ (Done(proc[s]) /\ pc[s] \in HasInstance /\ proc'[s] = proc[s])
  PROVE  FileInv'
<1>1. \A d \in Services : pc'[d] = IF d = s THEN l ELSE pc[d]
  BY DEF MutexInv, Goto
<1>2. \A d \in Services \ {s} :
         /\ pidfile'[d] \in {NoPid, proc'[d]} \/ Stale(d)'
         /\ pc'[d] \in FileGone => pidfile'[d] = NoPid \/ Stale(d)'
         /\ pc'[d] = "cgroup" => Done(proc[d])'
         /\ d \in HasPidFile /\ pc'[d] \in FileStands => pidfile'[d] = proc'[d]
  BY <1>1, FileApart
<1>3. Stale(s) => Stale(s)'  BY StaleStays DEF Stale
<1>4. l = "cgroup" => Done(proc[s])'
  BY DoneStays DEF RecordInv, Recorded, ChildInv, Done
<1>5. /\ pidfile[s] \in {NoPid, proc[s]} \/ Stale(s)
      /\ pc[s] \in FileGone => pidfile[s] = NoPid \/ Stale(s)
      /\ s \in HasPidFile /\ pc[s] \in FileStands => pidfile[s] = proc[s]
  BY DEF FileInv
<1>6. pidfile' \in [Services -> Int]  BY DEF FileInv
<1>7. /\ pidfile'[s] \in {NoPid, proc'[s]} \/ Stale(s)'
      /\ pc'[s] \in FileGone => pidfile'[s] = NoPid \/ Stale(s)'
      /\ pc'[s] = "cgroup" => Done(proc[s])'
      /\ s \in HasPidFile /\ pc'[s] \in FileStands => pidfile'[s] = proc'[s]
  BY <1>1, <1>3, <1>4, <1>5
<1> QED BY <1>2, <1>6, <1>7 DEF FileInv

\* removePIDFile of an ended instance: no file names it any more, or it is stale.
LEMMA FileRemoved ==
  ASSUME MutexInv, ChildInv, RecordInv, FileInv, [Next]_vars, NEW s \in Services, NEW l,
         Goto(s, l), UNCHANGED proc, removePIDFile(s), l \notin FileStands, l # "cgroup",
         pc[s] \in HasInstance, Done(proc[s])
  PROVE  FileInv'
<1>1. \A d \in Services : pc'[d] = IF d = s THEN l ELSE pc[d]
  BY DEF MutexInv, Goto
<1>2. \A d \in Services \ {s} : pidfile'[d] = pidfile[d] /\ (d \in unremoved => d \in unremoved')
  BY DEF FileInv, removePIDFile
<1>3. \A d \in Services \ {s} :
         /\ pidfile'[d] \in {NoPid, proc'[d]} \/ Stale(d)'
         /\ pc'[d] \in FileGone => pidfile'[d] = NoPid \/ Stale(d)'
         /\ pc'[d] = "cgroup" => Done(proc[d])'
         /\ d \in HasPidFile /\ pc'[d] \in FileStands => pidfile'[d] = proc'[d]
  BY <1>1, <1>2, FileApart
<1>4. pidfile' \in [Services -> Int]
  BY DEF FileInv, removePIDFile, NoPid
<1>5. proc[s] \in Pids /\ proc[s] <= nextPid - 1 /\ Done(proc[s])' /\ proc[s] <= nextPid' - 1
  <2>1. proc[s] \in Pids /\ proc[s] <= nextPid - 1
    BY DEF RecordInv, Recorded, ChildInv
  <2> QED BY <2>1, DoneStays DEF Done
<1>6. pidfile[s] \in {NoPid, proc[s]} \/ Stale(s)  BY DEF FileInv
<1>7. pidfile'[s] = NoPid \/ Stale(s)'
  <2>1. CASE Stale(s) /\ pidfile[s] # proc[s]
    <3>1. pidfile'[s] = pidfile[s] /\ s \in unremoved'
      BY <2>1 DEF removePIDFile, Stale, FileInv
    <3> QED BY <2>1, <3>1, StaleStays
  <2>2. CASE pidfile[s] \in {NoPid, proc[s]}
    <3>1. \/ pidfile'[s] = NoPid
          \/ pidfile'[s] = proc[s] /\ s \in unremoved'
      BY <2>2 DEF removePIDFile, FileInv
    <3> QED BY <1>5, <3>1 DEF Stale, Done
  <2> QED BY <1>6, <2>1, <2>2
<1> QED BY <1>1, <1>3, <1>4, <1>7 DEF FileInv

\* The steps of a service's thread.
LEMMA ThreadFile ==
  ASSUME MutexInv, ChildInv, RecordInv, FileInv, NEW s \in Services,
         ThreadStep(s) \/ Start(s) \/ StartRefused(s) \/ EmitStep(s)
  PROVE  FileInv'
<1> USE DEF recVars, fileVars, FileGone, FileStands
<1>0. [Next]_vars /\ proc \in [Services -> Int]
  BY DEF Next, InternalStep, RecordInv
<1>1. CASE Start(s)
  <2>1. proc' = [proc EXCEPT ![s] = NoPid] /\ Goto(s, "fork") /\ pc[s] = "off"
        /\ UNCHANGED <<pidfile, unremoved>>
    BY <1>1 DEF Start
  <2> QED BY <1>0, <2>1, FileStays
<1>2. CASE Fork(s) \/ RestartService(s)
  BY <1>0, <1>2, FileStays DEF Fork, RestartService
<1>3. CASE Register(s)
  <2>1. proc' = [proc EXCEPT ![s] = nextPid - 1] /\ Goto(s, "write") /\ pc[s] = "register"
        /\ UNCHANGED <<pidfile, unremoved>>
    BY <1>3 DEF Register
  <2> QED BY <1>0, <2>1, FileStays
<1>4. CASE ForkFail(s)
  <2>1. PICK l \in {"emitFailed", "emitDown"} : Goto(s, l)
    BY <1>4 DEF ForkFail, StartFailed
  <2> QED BY <1>0, <1>4, <2>1, FileStays DEF ForkFail
<1>5. CASE WritePIDFile(s)
  <2>1. \A d \in Services : pc'[d] = IF d = s THEN "ready" ELSE pc[d]
    BY <1>5 DEF MutexInv, Goto, WritePIDFile
  <2>2. UNCHANGED proc /\ pc[s] = "write"  BY <1>5 DEF WritePIDFile
  <2>3. \A d \in Services \ {s} : pidfile'[d] = pidfile[d] /\ (d \in unremoved => d \in unremoved')
    BY <1>5 DEF FileInv, WritePIDFile
  <2>4. \A d \in Services \ {s} :
         /\ pidfile'[d] \in {NoPid, proc'[d]} \/ Stale(d)'
         /\ pc'[d] \in FileGone => pidfile'[d] = NoPid \/ Stale(d)'
         /\ pc'[d] = "cgroup" => Done(proc[d])'
         /\ d \in HasPidFile /\ pc'[d] \in FileStands => pidfile'[d] = proc'[d]
    BY <1>0, <2>1, <2>2, <2>3, FileApart
  <2>5. CASE s \in HasPidFile
    <3>1. pidfile' = [pidfile EXCEPT ![s] = proc[s]]  BY <1>5, <2>5 DEF WritePIDFile
    <3>2. pidfile' \in [Services -> Int] /\ pidfile'[s] = proc[s]
      BY <1>0, <3>1 DEF FileInv
    <3> QED BY <2>1, <2>2, <2>4, <3>2 DEF FileInv
  <2>6. CASE s \notin HasPidFile
    <3>1. UNCHANGED <<pidfile, unremoved>>  BY <1>5, <2>6 DEF WritePIDFile
    <3>2. Stale(s) => Stale(s)'  BY <1>0, <3>1, StaleStays DEF Stale
    <3>3. pidfile' \in [Services -> Int] /\ (pidfile'[s] \in {NoPid, proc'[s]} \/ Stale(s)')
      BY <2>2, <3>1, <3>2 DEF FileInv
    <3> QED BY <2>1, <2>4, <2>6, <3>3 DEF FileInv
  <2> QED BY <2>5, <2>6
<1>6. CASE WritePIDFileFail(s)
  BY <1>0, <1>6, FileStays DEF WritePIDFileFail
<1>7. CASE UndoStart(s)
  <2>1. PICK p \in {NoPid, proc[s]}, l \in {"emitFailed", "emitDown"} :
          proc' = [proc EXCEPT ![s] = p] /\ Goto(s, l)
    BY <1>7 DEF UndoStart, StartFailed
  <2>2. pc[s] = "undo" /\ UNCHANGED <<pidfile, unremoved>>  BY <1>7 DEF UndoStart
  <2> QED BY <1>0, <2>1, <2>2, FileStays
<1>8. CASE ReadyOk(s)
  BY <1>0, <1>8, FileStays DEF ReadyOk
<1>9. CASE ReadyFail(s)
  <2>1. PICK l \in {"discard", "emitUnready"} : Goto(s, l)  BY <1>9 DEF ReadyFail
  <2> QED BY <1>0, <1>9, <2>1, FileStays DEF ReadyFail
<1>10. CASE DiscardStopped(s) \/ EmitUnready(s)
  BY <1>0, <1>10, FileStays DEF DiscardStopped, EmitUnready
<1>11. CASE DiscardReaped(s)
  BY <1>0, <1>11, FileRemoved DEF DiscardReaped, HasInstance
<1>12. CASE DiscardSettle(s)
  <2>1. PICK l \in {"emitFailed", "backoff"} : Goto(s, l)  BY <1>12 DEF DiscardSettle
  <2> QED BY <1>0, <1>12, <2>1, FileStays DEF DiscardSettle
<1>13. CASE WaitExit(s)
  <2>1. CASE Goto(s, "cgroup") /\ UNCHANGED fileVars
    BY <1>0, <1>13, <2>1, FileStays DEF WaitExit, HasInstance
  <2>2. CASE Ended(s)
    BY <1>0, <1>13, <2>2, FileRemoved DEF WaitExit, Ended, HasInstance
  <2> QED BY <1>13, <2>1, <2>2 DEF WaitExit
<1>14. CASE CgroupEnded(s) \/ CgroupUnreadable(s)
  <2>1. pc[s] = "cgroup" /\ Ended(s) /\ UNCHANGED proc
    BY <1>14 DEF CgroupEnded, CgroupUnreadable
  <2>2. Done(proc[s])  BY <2>1 DEF FileInv
  <2> QED BY <1>0, <2>1, <2>2, FileRemoved DEF Ended, HasInstance
<1>15. CASE CgroupCancelled(s) \/ BackoffOver(s)
  BY <1>0, <1>15, FileStays DEF CgroupCancelled, BackoffOver
<1>16. CASE Settle(s)
  <2>1. PICK l \in {"emitDown", "sweep"} : Goto(s, l)  BY <1>16 DEF Settle
  <2> QED BY <1>0, <1>16, <2>1, FileStays DEF Settle
<1>17. CASE Swept(s)
  BY <1>0, <1>17, FileStays DEF Swept
<1>18. CASE EmitReady(s) \/ EmitFailed(s)
  BY <1>0, <1>18, FileStays DEF EmitReady, EmitFailed
<1>19. CASE EmitDown(s)
  <2>1. PICK l \in {"over", "backoff"} : Goto(s, l)  BY <1>19 DEF EmitDown
  <2> QED BY <1>0, <1>19, <2>1, FileStays DEF EmitDown
<1>20. CASE StartRefused(s)
  BY <1>0, <1>20, FileApart DEF StartRefused, FileInv
<1> QED BY <1>1, <1>2, <1>3, <1>4, <1>5, <1>6, <1>7, <1>8, <1>9, <1>10, <1>11, <1>12,
           <1>13, <1>14, <1>15, <1>16, <1>17, <1>18, <1>19, <1>20 DEF ThreadStep, EmitStep

\* Nobody but its thread touches a service's record and file.
LEMMA FileStep == MutexInv /\ ChildInv /\ RecordInv /\ FileInv /\ [Next]_vars => FileInv'
<1> SUFFICES ASSUME MutexInv, ChildInv, RecordInv, FileInv, [Next]_vars PROVE FileInv'
  OBVIOUS
<1>1. ASSUME \/ KernelStep \/ ManagerStep \/ DrainStep \/ CancelParent \/ DrainBegin
             \/ \E t \in Threads : StopStep(t)
             \/ UNCHANGED vars
      PROVE  FileInv'
  <2>1. UNCHANGED <<pc, proc, pidfile, unremoved>>
    BY <1>1 DEF KernelStep, SpawnDescendant, DescendantsExit, LauncherExit, ManagerStep,
       ReapBegin, ReapOne, ReapEnd, DrainStep, DrainGroup, DrainNext, CancelParent,
       DrainBegin, StopStep, StopLock, StopTerm, StopPoll, StopKill, StopTimeout,
       vars, thrVars, recVars, fileVars
  <2> QED BY <2>1, FileApart DEF FileInv
<1> QED BY <1>1, ThreadFile DEF Next, InternalStep

\* There are no PID files at the start.
LEMMA FileInit == Init => FileInv
BY DEF Init, FileInv, FileGone, FileStands, NoPid

-------------------------------------------------------------------------------
(* The signal of a dead child *)

\* A child that dies leaves a signal, and the loop that takes the signal calls
\* wait4 until there is nothing more to collect.
LEMMA ZombieStep == NoZombieForgotten /\ ChildInv /\ [Next]_vars => NoZombieForgotten'
<1> SUFFICES ASSUME NoZombieForgotten, ChildInv, [Next]_vars PROVE NoZombieForgotten'
  OBVIOUS
<1> USE DEF NoZombieForgotten
<1>1. ASSUME UNCHANGED <<life, sigchld, mgr>> PROVE NoZombieForgotten'
  BY <1>1 DEF Zombie
<1>2. ASSUME NEW p \in Pids, LauncherExit(p) \/ ReapOne(p) PROVE NoZombieForgotten'
  BY <1>2 DEF LauncherExit, ReapOne
<1>3. CASE ReapBegin \/ ReapEnd
  BY <1>3 DEF ReapBegin, ReapEnd, kernelVars, Zombie
<1>4. ASSUME NEW s \in Services, ThreadStep(s) \/ Start(s) \/ StartRefused(s) \/ EmitStep(s)
      PROVE  NoZombieForgotten'
  <2> USE DEF kernelVars, mgrVars
  <2>1. CASE Fork(s)
    <3>1. mgr = "loop" /\ UNCHANGED sigchld /\ \A p \in Pids : Zombie(p)' => Zombie(p)
      BY <2>1 DEF Fork, Zombie, ChildInv
    <3> QED BY <3>1
  <2>2. CASE Register(s)
    <3>1. mgr # "reap" /\ UNCHANGED <<life, sigchld>>
      BY <2>2 DEF Register, ChildInv
    <3> QED BY <3>1 DEF Zombie
  <2>3. ASSUME ~Fork(s), ~Register(s) PROVE UNCHANGED <<life, sigchld, mgr>>
    BY <1>4, <2>3 DEF ThreadStep, Start, StartRefused, EmitStep, EmitReady,
       EmitFailed, EmitUnready, EmitDown, ForkFail, WritePIDFile,
       WritePIDFileFail, UndoStart, ReadyOk, ReadyFail, DiscardStopped, DiscardReaped,
       DiscardSettle, WaitExit, CgroupEnded, CgroupUnreadable, CgroupCancelled, Settle,
       Swept, BackoffOver, RestartService
  <2> QED BY <1>1, <2>1, <2>2, <2>3
<1>5. ASSUME \/ DrainStep \/ CancelParent \/ DrainBegin
             \/ \E s \in Services : SpawnDescendant(s) \/ DescendantsExit(s)
             \/ \E t \in Threads : StopStep(t)
             \/ UNCHANGED vars
      PROVE  NoZombieForgotten'
  <2>1. UNCHANGED <<life, sigchld, mgr>>
    BY <1>5 DEF DrainStep, DrainGroup, DrainNext, CancelParent, DrainBegin,
       SpawnDescendant, DescendantsExit, StopStep, StopLock, StopTerm, StopPoll, StopKill,
       StopTimeout, vars, kernelVars, mgrVars
  <2> QED BY <1>1, <2>1
<1> QED BY <1>2, <1>3, <1>4, <1>5 DEF Next, InternalStep, KernelStep, ManagerStep

-------------------------------------------------------------------------------
(* Drain's groups *)

\* The services of a group, the last one the services no group names.
Members(g) ==
  IF g \in 1..Len(Groups) THEN Groups[g]
  ELSE Services \ UNION {Groups[i] : i \in DOMAIN Groups}

\* What Drain has passed is empty, and of the group it is stopping, what is not
\* empty is still pending.
DrainInv ==
  /\ group \in 0..(Len(Groups) + 2)
  /\ group > 0 => draining
  /\ stop[Drainer] # "none" => group \in 1..(Len(Groups) + 1)
  /\ \A i \in 1..(Len(Groups) + 1) : i < group => \A s \in Members(i) : Empty(s)
  /\ stop[Drainer] \in {"lock", "term", "kill", "unkilled"} =>
       \A s \in Members(group) : Empty(s) \/ \E p \in pend[Drainer] : svc[p] = s
  /\ Stopped(Drainer) => \A s \in Members(group) : Empty(s)

\* The groups are sets of services, and together they name every one.
LEMMA GroupsCover ==
  /\ Len(Groups) \in Nat /\ DOMAIN Groups = 1..Len(Groups)
  /\ \A g : Members(g) \in SUBSET Services
  /\ \A s \in Services : \E g \in 1..(Len(Groups) + 1) : s \in Members(g)
<1>1. Len(Groups) \in Nat /\ DOMAIN Groups = 1..Len(Groups)
      /\ \A g \in 1..Len(Groups) : Groups[g] \in SUBSET Services
  BY ServiceAssumption
<1>2. \A g : Members(g) \in SUBSET Services  BY <1>1 DEF Members
<1>3. ASSUME NEW s \in Services PROVE \E g \in 1..(Len(Groups) + 1) : s \in Members(g)
  <2>1. CASE \E g \in DOMAIN Groups : s \in Groups[g]
    BY <1>1, <2>1 DEF Members
  <2>2. CASE \A g \in DOMAIN Groups : s \notin Groups[g]
    <3>1. Len(Groups) + 1 \in 1..(Len(Groups) + 1) /\ Len(Groups) + 1 \notin 1..Len(Groups)
      BY <1>1
    <3>2. s \in Members(Len(Groups) + 1)  BY <2>2, <3>1 DEF Members
    <3> QED BY <3>1, <3>2
  <2> QED BY <2>1, <2>2
<1> QED BY <1>1, <1>2, <1>3

\* Nobody forks under a drain.
LEMMA NoForkWhileDraining ==
  ASSUME MutexInv, draining, NEW s \in Services PROVE ~Fork(s)
BY DEF MutexInv, Fork

\* A step that is not one of Drain's, nor of its call of stopProcesses.
LEMMA DrainStays ==
  ASSUME MutexInv, ChildInv, DrainInv, [Next]_vars,
         group' = group, draining => draining',
         stop'[Drainer] = stop[Drainer], pend'[Drainer] = pend[Drainer]
  PROVE  DrainInv'
<1>1. CASE group = 0
  <2>1. stop[Drainer] = "none"  BY <1>1, GroupsCover DEF DrainInv
  <2> QED BY <1>1, <2>1, GroupsCover DEF DrainInv, Stopped
<1>2. CASE group # 0
  <2>1. draining /\ group > 0  BY <1>2, GroupsCover DEF DrainInv
  <2>2. \A s \in Services : Empty(s) => Empty(s)'
    BY <2>1, EmptyStays, NoForkWhileDraining
  <2>3. UNCHANGED svc  BY <2>1, PidsKept, NoForkWhileDraining
  <2>4. \A i \in 1..(Len(Groups) + 1) : i < group => \A s \in Members(i) : Empty(s)'
    BY <2>2, GroupsCover DEF DrainInv
  <2>5. stop[Drainer] \in {"lock", "term", "kill", "unkilled"} =>
           \A s \in Members(group) : Empty(s)' \/ \E p \in pend[Drainer] : svc'[p] = s
    BY <2>2, <2>3, GroupsCover DEF DrainInv
  <2>6. Stopped(Drainer) => \A s \in Members(group) : Empty(s)'
    BY <2>2, GroupsCover DEF DrainInv
  <2>7. /\ group \in 0..(Len(Groups) + 2)
        /\ stop[Drainer] # "none" => group \in 1..(Len(Groups) + 1)
    BY DEF DrainInv
  <2> QED BY <2>1, <2>4, <2>5, <2>6, <2>7 DEF DrainInv, Members, Stopped
<1> QED BY <1>1, <1>2

\* A step of Drain's call of stopProcesses: what it drops is empty, what it gives
\* up on is named.
LEMMA DrainStop ==
  ASSUME MutexInv, ChildInv, RecordInv, DrainInv, StopStep(Drainer) PROVE DrainInv'
<1> USE DEF kernelVars, drainVars, thrVars
<1>0. [Next]_vars /\ Drainer \in Threads  BY DEF Next, InternalStep, Threads
<1>1. stop[Drainer] \in {"lock", "term", "kill", "unkilled"}
  BY DEF StopStep, StopLock, StopTerm, StopPoll, StopKill, StopTimeout
<1>2. UNCHANGED <<group, draining, svc>>
  BY DEF StopStep, StopLock, StopTerm, StopPoll, StopKill, StopTimeout
<1>3. group \in 1..(Len(Groups) + 1) /\ draining
  BY <1>1, GroupsCover DEF DrainInv
<1>4. \A s \in Services : Empty(s) => Empty(s)'
  BY <1>0, <1>3, EmptyStays, NoForkWhileDraining
<1>5. \A i \in 1..(Len(Groups) + 1) : i < group => \A s \in Members(i) : Empty(s)'
  BY <1>4, GroupsCover DEF DrainInv
<1>6. ASSUME NEW s \in Members(group)
      PROVE  \/ stop'[Drainer] \in {"lock", "term", "kill", "unkilled"}
                /\ (Empty(s)' \/ \E p \in pend'[Drainer] : svc[p] = s)
             \/ Stopped(Drainer)' /\ Empty(s)'
  <2> USE <1>0 DEF RecordInv
  <2>0. (Empty(s) \/ \E p \in pend[Drainer] : svc[p] = s) /\ (Empty(s) => Empty(s)')
    BY <1>1, <1>4, GroupsCover DEF DrainInv
  <2>1. CASE StopLock(Drainer)  BY <1>1, <2>0, <2>1 DEF StopLock
  <2>2. CASE StopKill(Drainer)
    <3>1. stop'[Drainer] \in {"kill", "unkilled"} /\ pend'[Drainer] = pend[Drainer]  BY <2>2 DEF StopKill
    <3> QED BY <2>0, <3>1
  <2>3. CASE StopTimeout(Drainer)
    <3>1. stop'[Drainer] = "error" /\ unstopped' = unstopped \cup {svc[p] : p \in pend[Drainer]}
      BY <2>3 DEF StopTimeout
    <3>2. Empty(s)'  BY <2>0, <3>1 DEF Empty
    <3> QED BY <3>1, <3>2 DEF Stopped
  <2>4. CASE StopTerm(Drainer) \/ StopPoll(Drainer)
    <3> DEFINE left == {p \in pend[Drainer] : Populated(svc[p])}
    <3>1. pend'[Drainer] = left /\ stop'[Drainer] \in {"term", "kill", "unkilled", "done", "error"}
          /\ (stop'[Drainer] \in {"done", "error"} => left = {})
      BY <1>1, <2>4 DEF StopTerm, StopPoll
    <3>2. Empty(s) \/ \E p \in left : svc[p] = s  BY <2>0 DEF Empty
    <3> HIDE DEF left
    <3> QED BY <2>0, <3>1, <3>2 DEF Stopped
  <2> QED BY <2>1, <2>2, <2>3, <2>4 DEF StopStep
<1>7. stop'[Drainer] # "none"
  <2>1. CASE StopPoll(Drainer)  BY <1>0, <1>1, <2>1 DEF StopPoll, RecordInv
  <2>2. CASE StopLock(Drainer) \/ StopTerm(Drainer) \/ StopKill(Drainer) \/ StopTimeout(Drainer)
    BY <1>0, <1>1, <2>2 DEF StopLock, StopTerm, StopKill, StopTimeout, RecordInv
  <2> QED BY <2>1, <2>2 DEF StopStep
<1>8. Members(group)' = Members(group)  BY <1>2 DEF Members
<1>9. group \in 0..(Len(Groups) + 2)  BY DEF DrainInv
<1> QED BY <1>2, <1>3, <1>5, <1>6, <1>7, <1>8, <1>9 DEF DrainInv, Stopped, Members

\* Drain takes a group's instances under the mutex: a member that is not among
\* them has an empty cgroup.
LEMMA DrainTakes ==
  ASSUME MutexInv, ChildInv, RecordInv, DrainInv, DrainGroup PROVE DrainInv'
<1> USE DEF kernelVars, drainVars, thrVars
<1> DEFINE found == {proc[s] : s \in GroupNames(group) \cap registered} \ {NoPid}
<1>0. [Next]_vars  BY DEF Next, InternalStep, DrainStep
<1>1. /\ group \in 1..(Len(Groups) + 1) /\ stop[Drainer] = "none" /\ mu = Nobody
      /\ UNCHANGED <<svc, draining>>
      /\ \/ found = {} /\ group' = group + 1 /\ UNCHANGED <<stop, pend>>
         \/ CallStop(Drainer, found) /\ group' = group
  BY DEF DrainGroup
<1>2. draining  BY <1>1, GroupsCover DEF DrainInv
<1>3. \A s \in Services : Empty(s) => Empty(s)'
  BY <1>0, <1>2, EmptyStays, NoForkWhileDraining
<1>4. \A i \in 1..(Len(Groups) + 1) : i < group => \A s \in Members(i) : Empty(s)'
  BY <1>3, GroupsCover DEF DrainInv
<1>5. ASSUME NEW s \in Members(group) PROVE Empty(s) \/ \E p \in found : svc[p] = s
  <2> SUFFICES ASSUME ~Empty(s) PROVE \E p \in found : svc[p] = s
    OBVIOUS
  <2>1. s \in Services  BY GroupsCover
  <2>2. pc[s] # "register"
    BY <1>1, <2>1, ServiceAssumption DEF MutexInv, Holding
  <2>3. s \in registered /\ proc[s] \in Pids /\ svc[proc[s]] = s
    BY <2>1, <2>2 DEF RecordInv, Recorded
  <2>4. s \in GroupNames(group)
    BY <1>1, <2>3, GroupsCover DEF GroupNames, Members
  <2>5. proc[s] \in found  BY <2>3, <2>4 DEF NoPid, Pids
  <2> QED BY <2>3, <2>5
<1> HIDE DEF found
<1>6. CASE found = {} /\ group' = group + 1 /\ UNCHANGED <<stop, pend>>
  <2>1. \A i \in 1..(Len(Groups) + 1) : i < group' => i < group \/ i = group
    BY <1>1, <1>6, GroupsCover
  <2>2. \A s \in Members(group) : Empty(s)'
    BY <1>3, <1>5, <1>6, GroupsCover
  <2>3. group' \in 0..(Len(Groups) + 2)  BY <1>1, <1>6, GroupsCover
  <2> QED BY <1>1, <1>2, <1>4, <1>6, <2>1, <2>2, <2>3 DEF DrainInv, Stopped, Members
<1>7. CASE CallStop(Drainer, found) /\ group' = group
  <2>1. stop'[Drainer] = "lock" /\ pend'[Drainer] = found
    BY <1>7 DEF CallStop, RecordInv, Threads
  <2>2. \A s \in Members(group) : Empty(s)' \/ \E p \in pend'[Drainer] : svc'[p] = s
    BY <1>1, <1>3, <1>5, <2>1, GroupsCover
  <2>3. group \in 0..(Len(Groups) + 2)  BY DEF DrainInv
  <2> QED BY <1>1, <1>2, <1>4, <1>7, <2>1, <2>2, <2>3 DEF DrainInv, Stopped, Members
<1> QED BY <1>1, <1>6, <1>7

\* The call is over: the group it was for is empty.
LEMMA DrainPasses ==
  ASSUME MutexInv, ChildInv, RecordInv, DrainInv, DrainNext PROVE DrainInv'
<1> USE DEF kernelVars
<1>0. [Next]_vars  BY DEF Next, InternalStep, DrainStep
<1>1. Stopped(Drainer) /\ group' = group + 1 /\ stop'[Drainer] = "none" /\ UNCHANGED draining
  BY DEF DrainNext, StopReturn, RecordInv, Threads
<1>2. group \in 1..(Len(Groups) + 1) /\ draining
  BY <1>1, GroupsCover DEF DrainInv, Stopped
<1>3. \A s \in Services : Empty(s) => Empty(s)'
  BY <1>0, <1>2, EmptyStays, NoForkWhileDraining
<1>4. \A i \in 1..(Len(Groups) + 1) : i < group => \A s \in Members(i) : Empty(s)'
  BY <1>3, GroupsCover DEF DrainInv
<1>5. \A s \in Members(group) : Empty(s)'
  BY <1>1, <1>3, GroupsCover DEF DrainInv
<1>6. \A i \in 1..(Len(Groups) + 1) : i < group' => i < group \/ i = group
  BY <1>1, <1>2, GroupsCover
<1>7. group' \in 0..(Len(Groups) + 2)  BY <1>1, <1>2, GroupsCover
<1> QED BY <1>1, <1>2, <1>4, <1>5, <1>6, <1>7 DEF DrainInv, Stopped, Members

\* Every step keeps what Drain has achieved.
LEMMA DrainKept ==
  MutexInv /\ ChildInv /\ RecordInv /\ DrainInv /\ [Next]_vars => DrainInv'
<1> SUFFICES ASSUME MutexInv, ChildInv, RecordInv, DrainInv, [Next]_vars PROVE DrainInv'
  OBVIOUS
<1>0. Drainer \in Threads /\ Drainer \notin Services  BY ServiceAssumption DEF Threads
<1>1. ASSUME NEW s \in Services, ThreadStep(s) \/ Start(s) \/ StartRefused(s) \/ EmitStep(s)
      PROVE  DrainInv'
  <2>1. stop'[Drainer] = stop[Drainer] /\ pend'[Drainer] = pend[Drainer]
    BY <1>0, <1>1, ThreadApart
  <2>2. UNCHANGED <<group, draining>>
    <3> USE DEF drainVars
    <3>1. CASE EmitStep(s) \/ StartRefused(s) \/ Start(s)
      BY <3>1 DEF EmitStep, EmitReady, EmitFailed, EmitUnready, EmitDown, StartRefused, Start
    <3>2. CASE Fork(s) \/ Register(s) \/ ForkFail(s) \/ WritePIDFile(s) \/ WritePIDFileFail(s)
               \/ UndoStart(s) \/ ReadyOk(s) \/ ReadyFail(s)
      BY <3>2 DEF Fork, Register, ForkFail, WritePIDFile, WritePIDFileFail, UndoStart, ReadyOk,
         ReadyFail
    <3>3. CASE DiscardStopped(s) \/ DiscardReaped(s) \/ DiscardSettle(s) \/ WaitExit(s)
               \/ CgroupEnded(s) \/ CgroupUnreadable(s) \/ CgroupCancelled(s)
      BY <3>3 DEF DiscardStopped, DiscardReaped, DiscardSettle, WaitExit, CgroupEnded,
         CgroupUnreadable, CgroupCancelled
    <3>4. CASE Settle(s) \/ Swept(s) \/ BackoffOver(s) \/ RestartService(s)
      BY <3>4 DEF Settle, Swept, BackoffOver, RestartService
    <3> QED BY <1>1, <3>1, <3>2, <3>3, <3>4 DEF ThreadStep
  <2> QED BY <2>1, <2>2, DrainStays
<1>2. ASSUME NEW t \in Threads, StopStep(t), t # Drainer PROVE DrainInv'
  <2>1. stop'[Drainer] = stop[Drainer] /\ pend'[Drainer] = pend[Drainer]
    BY <1>0, <1>2, StopApart
  <2>2. UNCHANGED <<group, draining>>
    BY <1>2 DEF StopStep, StopLock, StopTerm, StopPoll, StopKill, StopTimeout, drainVars
  <2> QED BY <2>1, <2>2, DrainStays
<1>3. CASE KernelStep \/ ManagerStep \/ CancelParent \/ UNCHANGED vars
  <2>1. UNCHANGED <<group, draining, stop, pend>>
    BY <1>3 DEF KernelStep, SpawnDescendant, DescendantsExit, LauncherExit, ManagerStep,
       ReapBegin, ReapOne, ReapEnd, CancelParent, vars, drainVars, stopVars
  <2> QED BY <2>1, DrainStays
<1>4. CASE DrainBegin
  <2>1. group = 0 /\ group' = 1 /\ draining' /\ UNCHANGED stop
    BY <1>4 DEF DrainBegin, stopVars
  <2>2. stop[Drainer] = "none"  BY <2>1, GroupsCover DEF DrainInv
  <2>3. group' \in 0..(Len(Groups) + 2) /\ \A i \in 1..(Len(Groups) + 1) : ~(i < group')
    BY <2>1, GroupsCover
  <2> QED BY <2>1, <2>2, <2>3 DEF DrainInv, Stopped
<1> QED BY <1>1, <1>2, <1>3, <1>4, DrainStop, DrainTakes, DrainPasses
     DEF Next, InternalStep, DrainStep

\* Nothing is drained at the start.
LEMMA DrainInit == Init => DrainInv
<1> SUFFICES ASSUME Init PROVE DrainInv  OBVIOUS
<1>1. group = 0 /\ stop[Drainer] = "none"  BY DEF Init, Threads
<1> QED BY <1>1, GroupsCover DEF DrainInv, Stopped

-------------------------------------------------------------------------------
(* The inductive invariant: the mutex, the manager's table, the records, the  *)
(* PID files and the drain, each part resting on the ones before it.          *)

IInv == MutexInv /\ ChildInv /\ RecordInv /\ FileInv /\ DrainInv

\* All the parts hold throughout.
LEMMA Invariance == Spec => []IInv
<1>1. Init => IInv
  BY MutexInit, ChildInit, FileInit, RecordInit, DrainInit DEF IInv
<1>2. IInv /\ [Next]_vars => IInv'
  BY MutexStep, ChildStep, FileStep, RecordStep, DrainKept DEF IInv
<1> QED BY <1>1, <1>2, PTL DEF Spec

-------------------------------------------------------------------------------
\* However restarts, failed cleanups and the drain interleave, createCgroup's
\* refusal of a populated cgroup keeps a service to one instance.
THEOREM SingleInstance == Spec => []OneInstance
<1>1. IInv => OneInstance
  BY DEF IInv, ChildInv
<1> QED BY <1>1, Invariance, PTL

\* Since the loop that reaps is the loop that creates and registers, no status of
\* a child is ever thrown away as an adopted process's.
THEOREM NoStatusLost == Spec => []NoLostStatus
<1>1. IInv => NoLostStatus
  BY DEF IInv, ChildInv
<1> QED BY <1>1, Invariance, PTL

\* Once draining is set no process is created: whoever creates one holds the
\* mutex under which Drain set it.
THEOREM DrainPreventsStarts == Spec => NoStartWhileDraining
<1>1. IInv /\ [Next]_vars => [draining => nextPid' = nextPid]_vars
  <2> SUFFICES ASSUME MutexInv, Next, draining PROVE nextPid' = nextPid
    BY DEF IInv
  <2>1. ASSUME NEW s \in Services, ThreadStep(s) \/ Start(s) \/ StartRefused(s) \/ EmitStep(s)
        PROVE  nextPid' = nextPid
    <3>1. ~Fork(s)
      BY DEF Fork, MutexInv
    <3> QED BY <2>1, <3>1 DEF ThreadStep, Start, StartRefused, EmitStep, EmitReady,
         EmitFailed, EmitUnready, EmitDown, Register, ForkFail, WritePIDFile,
         WritePIDFileFail, UndoStart, ReadyOk, ReadyFail, DiscardStopped, DiscardReaped,
         DiscardSettle, WaitExit, CgroupEnded, CgroupUnreadable, CgroupCancelled, Settle,
         Swept, BackoffOver, RestartService, kernelVars
  <2>2. ASSUME \/ KernelStep \/ ManagerStep \/ DrainStep \/ CancelParent \/ DrainBegin
               \/ \E t \in Threads : StopStep(t)
        PROVE  nextPid' = nextPid
    BY <2>2 DEF KernelStep, SpawnDescendant, DescendantsExit, LauncherExit, ManagerStep,
       ReapBegin, ReapOne, ReapEnd, DrainStep, DrainGroup, DrainNext, CancelParent,
       DrainBegin, StopStep, StopLock, StopTerm, StopPoll, StopKill, StopTimeout,
       kernelVars
  <2> QED BY <2>1, <2>2 DEF Next, InternalStep, EmitStep
<1> QED BY <1>1, Invariance, PTL DEF Spec, NoStartWhileDraining

\* Whatever way an instance ends or fails to start, removePIDFile runs after it was
\* collected and before the record takes another process; where that fails, the
\* file names an ended instance until the next one overwrites it, and an instance
\* that is reported ready has its file.
THEOREM PIDFileIsCurrent == Spec => []PIDFileCurrent
<1>1. IInv => PIDFileCurrent
  BY DEF IInv, FileInv, Stale, PIDFileCurrent, FileStands
<1> QED BY <1>1, Invariance, PTL

\* Whatever number of children die under one signal, the one who takes it collects
\* them all, and no death falls between the last wait4 and the next signal.
THEOREM ZombiesRemembered == Spec => []NoZombieForgotten
<1>1. Init => NoZombieForgotten
  BY DEF Init, NoZombieForgotten, Zombie
<1>2. IInv /\ NoZombieForgotten /\ [Next]_vars => NoZombieForgotten'
  BY ZombieStep DEF IInv
<1> QED BY <1>1, <1>2, Invariance, PTL DEF Spec

\* Whatever runs in a cgroup is the instance its record names, so that the drain of
\* its group finds it, however late a restart or a cleanup comes; but for a stop
\* that ran out of time and was reported, nothing runs there again.
THEOREM DrainedStayEmpty == Spec => []DrainedGroupsStayEmpty
<1>1. IInv => DrainedGroupsStayEmpty
  <2> SUFFICES ASSUME IInv PROVE DrainedGroupsStayEmpty
    OBVIOUS
  <2>1. \A i \in 1..(Len(Groups) + 1) : i < group => \A s \in Members(i) : Empty(s)
    BY DEF IInv, DrainInv
  <2>2. ASSUME NEW i \in DOMAIN Groups, i < group, NEW s \in Groups[i] PROVE Empty(s)
    <3>1. i \in 1..Len(Groups) /\ i \in 1..(Len(Groups) + 1)  BY GroupsCover
    <3> QED BY <2>1, <2>2, <3>1 DEF Members
  <2>3. ASSUME Drained, NEW s \in Services PROVE Empty(s)
    <3>1. PICK g \in 1..(Len(Groups) + 1) : s \in Members(g)  BY GroupsCover
    <3>2. g < group  BY <2>3, <3>1, GroupsCover DEF Drained
    <3> QED BY <2>1, <3>1, <3>2
  <2> QED BY <2>2, <2>3 DEF DrainedGroupsStayEmpty, Empty
<1> QED BY <1>1, Invariance, PTL

-------------------------------------------------------------------------------
(* The gate alone, for every set of required services.                       *)

\* Update, Publish and FailClosed keep the shape of readinessState.
THEOREM GateTypeCorrect == Gate!Spec => []Gate!TypeOK
<1>1. Gate!Init => Gate!TypeOK
  BY DEF Gate!Init, Gate!TypeOK
<1>2. Gate!TypeOK /\ [Gate!Next]_(Gate!rvars) => Gate!TypeOK'
  <2> SUFFICES ASSUME Gate!TypeOK, [Gate!Next]_(Gate!rvars) PROVE Gate!TypeOK'
    OBVIOUS
  <2> USE DEF Gate!TypeOK, Gate!setReady
  <2>1. ASSUME NEW n \in Required, NEW ready \in BOOLEAN, Gate!Update(n, ready) PROVE Gate!TypeOK'
    <3>1. required' \in [Required -> BOOLEAN]
      BY <2>1 DEF Gate!Update
    <3>2. Gate!allReady(required') \in BOOLEAN
      BY DEF Gate!allReady
    <3>3. readyFile' \in BOOLEAN /\ setErr' \in BOOLEAN
      BY <2>1, <3>2 DEF Gate!Update
    <3>4. published' \in BOOLEAN /\ failed' \in BOOLEAN
      BY <2>1 DEF Gate!Update
    <3> QED BY <3>1, <3>3, <3>4
  <2>2. CASE Gate!Publish
    <3>1. (~failed /\ Gate!allReady(required)) \in BOOLEAN
      BY DEF Gate!allReady
    <3> QED BY <2>2, <3>1 DEF Gate!Publish
  <2>3. CASE Gate!FailClosed
    BY <2>3 DEF Gate!FailClosed
  <2>4. CASE UNCHANGED Gate!rvars
    BY <2>4 DEF Gate!rvars
  <2> QED BY <2>1, <2>2, <2>3, <2>4 DEF Gate!Next
<1> QED BY <1>1, <1>2, PTL DEF Gate!Spec

\* Whatever order reports, Publish and FailClosed come in, the readiness file is
\* there exactly when it should be, as long as no call of setReady failed.
THEOREM FileTruth == Gate!Spec => []Gate!FileIsTruth
<1>1. Gate!Init => Gate!FileIsTruth
  BY DEF Gate!Init, Gate!FileIsTruth
<1>2. Gate!TypeOK /\ Gate!FileIsTruth /\ [Gate!Next]_(Gate!rvars) => Gate!FileIsTruth'
  <2> SUFFICES ASSUME Gate!TypeOK, Gate!FileIsTruth, [Gate!Next]_(Gate!rvars), ~setErr' PROVE
        readyFile' <=> published' /\ ~failed' /\ Gate!allReady(required')
    BY DEF Gate!FileIsTruth, Gate!allReady
  <2> USE DEF Gate!setReady
  <2>1. ASSUME NEW n \in Required, NEW ready \in BOOLEAN, Gate!Update(n, ready) PROVE
          readyFile' <=> published' /\ ~failed' /\ Gate!allReady(required')
    <3>1. CASE published
      BY <2>1, <3>1 DEF Gate!Update
    <3>2. CASE ~published
      BY <2>1, <3>2 DEF Gate!Update, Gate!FileIsTruth
    <3> QED BY <3>1, <3>2
  <2>2. CASE Gate!Publish
    BY <2>2 DEF Gate!Publish
  <2>3. CASE Gate!FailClosed
    BY <2>3 DEF Gate!FailClosed
  <2>4. CASE UNCHANGED Gate!rvars
    BY <2>4 DEF Gate!rvars, Gate!FileIsTruth, Gate!allReady
  <2> QED BY <2>1, <2>2, <2>3, <2>4 DEF Gate!Next
<1> QED BY <1>1, <1>2, GateTypeCorrect, PTL DEF Gate!Spec

\* FailClosed is final, failing file system included: nothing brings the file
\* back and nothing reopens the gate.
THEOREM FailClosedIsFinal == Gate!Spec => Gate!NeverReadyAgain
<1>1. Gate!TypeOK /\ [Gate!Next]_(Gate!rvars) =>
        [failed => failed' /\ (readyFile' => readyFile)]_(Gate!rvars)
  <2> SUFFICES ASSUME Gate!TypeOK, Gate!Next, failed PROVE failed' /\ (readyFile' => readyFile)
    OBVIOUS
  <2> USE DEF Gate!setReady, Gate!TypeOK
  <2>1. ASSUME NEW n \in Required, NEW ready \in BOOLEAN, Gate!Update(n, ready) PROVE FALSE
    BY <2>1 DEF Gate!Update
  <2>2. CASE Gate!Publish
    BY <2>2 DEF Gate!Publish
  <2>3. CASE Gate!FailClosed
    BY <2>3 DEF Gate!FailClosed
  <2> QED BY <2>1, <2>2, <2>3 DEF Gate!Next
<1> QED BY <1>1, GateTypeCorrect, PTL DEF Gate!Spec, Gate!NeverReadyAgain

-------------------------------------------------------------------------------
(* The lifecycle is a user of the gate.                                      *)

\* A report reaches the gate as one of its updates, or is dropped.
LEMMA ObserveIsUpdate ==
  ASSUME NEW s, NEW ready \in BOOLEAN, Observe(s, ready)
  PROVE  [Gate!Next]_gateVars
<1>1. CASE Gate!Update(s, ready)
  <2>1. s \in Required
    BY <1>1 DEF Gate!Update
  <2> QED BY <1>1, <2>1 DEF Gate!Next
<1>2. CASE Gate!UpdateIgnored(s)
  BY <1>2 DEF Gate!UpdateIgnored, Gate!rvars, gateVars
<1> QED BY <1>1, <1>2 DEF Observe

\* Every step of the lifecycle is a step of the gate or leaves it alone.
LEMMA StepOfGate == ASSUME [LNext]_allVars PROVE [Gate!Next]_gateVars
<1>1. CASE InternalStep /\ UNCHANGED <<gateVars, lifeVars>>
  BY <1>1
<1>2. ASSUME NEW s \in Services, CallStart(s) \/ LEmitReady(s) \/ LEmitFailed(s) \/ LEmitDown(s)
      PROVE  [Gate!Next]_gateVars
  <2>1. CASE CallStart(s)
    BY <2>1 DEF CallStart
  <2>2. CASE LEmitReady(s)
    BY <2>2, ObserveIsUpdate DEF LEmitReady
  <2>3. CASE LEmitFailed(s)
    BY <2>3, ObserveIsUpdate DEF LEmitFailed
  <2>4. CASE LEmitDown(s)
    BY <2>4, ObserveIsUpdate DEF LEmitDown
  <2> QED BY <1>2, <2>1, <2>2, <2>3, <2>4
<1>3. CASE PublishReadiness
  BY <1>3 DEF PublishReadiness, Gate!Next
<1>4. CASE CloseReadiness
  BY <1>4 DEF CloseReadiness, Gate!Next
<1>5. CASE PlainStep \/ Signal \/ ShutdownRequested \/ CallDrain \/ DrainReturned
  BY <1>5 DEF PlainStep, Signal, ShutdownRequested, CallDrain, DrainReturned
<1>6. CASE UNCHANGED allVars
  BY <1>6 DEF allVars
<1> QED BY <1>1, <1>2, <1>3, <1>4, <1>5, <1>6 DEF LNext

\* The lifecycle implements the gate: Observe, Publish and FailClosed are the
\* only calls that runLifecycle and the monitors make of readinessState.
LEMMA DrivesGate == LSpec => Gate!Spec
<1>1. LInit => Gate!Init
  BY DEF LInit
<1>2. [LNext]_allVars => [Gate!Next]_(Gate!rvars)
  BY StepOfGate DEF Gate!rvars, gateVars
<1> QED BY <1>1, <1>2, PTL DEF LSpec, Gate!Spec

\* In the machine, whatever monitors, the boot and the shutdown do, the
\* readiness file says what was published, failed and reported, as long as no
\* call of setReady failed.
THEOREM FileTruthInMachine == LSpec => []FileIsTruth
<1>1. Gate!FileIsTruth => FileIsTruth
  BY DEF FileIsTruth
<1> QED BY <1>1, FileTruth, DrivesGate, PTL

\* In the machine, no report that a monitor makes after runLifecycle has failed
\* readiness closed brings the file back.
THEOREM NeverReadyAgainInMachine == LSpec => NeverReadyAgain
BY FailClosedIsFinal, DrivesGate, PTL DEF NeverReadyAgain

-------------------------------------------------------------------------------
(* runLifecycle's invariant, in parts.                                       *)

\* The lifecycle's own variables, and the two of the supervisor it reads, have their
\* shape.
LTypeOK ==
  /\ parentDone \in BOOLEAN /\ cancelled \in BOOLEAN
  /\ at \in 1..(Len(Plan) + 1) /\ result \in {"nil", "err"}
  /\ stage \in {"boot", "serve", "debug", "unwind", "drain", "off", "park"}
  /\ fresh \in [Services -> BOOLEAN]

\* A thread whose service has not become ready yet is the caller of Start, and
\* runLifecycle is waiting for it.
StartInv ==
  \A s \in Services :
    /\ pc[s] = "emitFailed" => fresh[s]
    /\ fresh[s] /\ pc[s] # "off" => Booting(s)

\* What each stage of runLifecycle has behind it.
StageInv ==
  /\ stage \in {"boot", "serve"} => result = "nil"
  /\ stage \in {"unwind", "drain"} /\ result = "nil" => parentDone
  /\ stage = "off" => parentDone /\ Drained
  /\ stage = "boot" => ~published
  /\ stage \in {"drain", "off", "park"} => failed
  /\ published /\ ~failed /\ ~setErr => stage = "serve" \/ (stage = "unwind" /\ parentDone)

\* Where the thread of a required service is while its last report was ready.
Up == {"wait", "settle", "sweep", "emitDown"}

ReportInv == \A s \in Required : ~failed /\ required[s] => pc[s] \in Up

-------------------------------------------------------------------------------
(* What the supervisor's own steps may do to what runLifecycle relies on.    *)

\* A step of a service's thread: it never begins nor ends a call of Start, only
\* the caller of Start reports a failed start, and a thread that watches its
\* instance goes down to its report, unless the service forks.
LEMMA ThreadMoves ==
  ASSUME NEW s \in Services, ThreadStep(s)
  PROVE  /\ UNCHANGED <<fresh, cancelled>> /\ pc[s] # "off"
         /\ \E l \in Locations \ {"off"} :
              /\ Goto(s, l) /\ (l = "emitFailed" => fresh[s])
              /\ s \notin Forking /\ pc[s] \in Up => l \in Up
<1> USE DEF drainVars, thrVars, Locations, Up
<1>1. CASE Fork(s) \/ Register(s) \/ ForkFail(s) \/ WritePIDFile(s) \/ WritePIDFileFail(s)
           \/ UndoStart(s)
  BY <1>1 DEF Fork, Register, ForkFail, WritePIDFile, WritePIDFileFail, UndoStart, StartFailed
<1>2. CASE ReadyOk(s) \/ ReadyFail(s) \/ DiscardStopped(s) \/ DiscardReaped(s)
           \/ DiscardSettle(s)
  BY <1>2 DEF ReadyOk, ReadyFail, DiscardStopped, DiscardReaped, DiscardSettle
<1>3. CASE WaitExit(s) \/ CgroupEnded(s) \/ CgroupUnreadable(s) \/ CgroupCancelled(s)
  BY <1>3 DEF WaitExit, CgroupEnded, CgroupUnreadable, CgroupCancelled, Ended
<1>4. CASE Settle(s) \/ Swept(s) \/ BackoffOver(s) \/ RestartService(s)
  BY <1>4 DEF Settle, Swept, BackoffOver, RestartService
<1> QED BY <1>1, <1>2, <1>3, <1>4 DEF ThreadStep

\* The same of every step the supervisor takes by itself.
LEMMA InternalMoves ==
  ASSUME MutexInv, InternalStep, NEW s \in Services
  PROVE  /\ UNCHANGED <<fresh, cancelled>>
         /\ pc[s] = "off" => pc'[s] = "off"
         /\ pc'[s] = "emitFailed" => pc[s] = "emitFailed" \/ fresh[s]
         /\ s \notin Forking /\ pc[s] \in Up => pc'[s] \in Up
<1>1. ASSUME KernelStep \/ ManagerStep \/ DrainStep \/ \E t \in Threads : StopStep(t)
      PROVE  UNCHANGED <<pc, fresh, cancelled>>
  BY <1>1 DEF KernelStep, SpawnDescendant, DescendantsExit, LauncherExit, ManagerStep,
     ReapBegin, ReapOne, ReapEnd, DrainStep, DrainGroup, DrainNext, StopStep, StopLock,
     StopTerm, StopPoll, StopKill, StopTimeout, thrVars, drainVars
<1>2. ASSUME NEW d \in Services, ThreadStep(d)
      PROVE  /\ UNCHANGED <<fresh, cancelled>>
             /\ pc[s] = "off" => pc'[s] = "off"
             /\ pc'[s] = "emitFailed" => pc[s] = "emitFailed" \/ fresh[s]
             /\ s \notin Forking /\ pc[s] \in Up => pc'[s] \in Up
  <2>1. PICK l \in Locations \ {"off"} :
           /\ Goto(d, l) /\ (l = "emitFailed" => fresh[d])
           /\ d \notin Forking /\ pc[d] \in Up => l \in Up
    BY <1>2, ThreadMoves
  <2>2. pc'[s] = IF s = d THEN l ELSE pc[s]  BY <2>1 DEF Goto, MutexInv
  <2> QED BY <1>2, <2>1, <2>2, ThreadMoves
<1> QED BY <1>1, <1>2 DEF InternalStep

\* A report: it leaves Drain and the context alone, and says where the thread goes.
LEMMA EmitMoves ==
  ASSUME MutexInv, LTypeOK, NEW s \in Services, EmitStep(s)
  PROVE  /\ UNCHANGED <<cancelled, group>>
         /\ \A d \in Services \ {s} : pc'[d] = pc[d] /\ fresh'[d] = fresh[d]
         /\ fresh' \in [Services -> BOOLEAN]
         /\ EmitReady(s) => pc'[s] = "wait" /\ fresh'[s] = FALSE
         /\ EmitFailed(s) => pc'[s] = "off" /\ fresh' = fresh
         /\ EmitUnready(s) \/ EmitDown(s) =>
              pc[s] # "off" /\ pc'[s] \notin {"off", "emitFailed"} /\ fresh' = fresh
<1> USE DEF drainVars, LTypeOK, MutexInv, Goto
<1>1. CASE EmitReady(s)
  BY <1>1 DEF EmitReady, EmitFailed, EmitUnready, EmitDown
<1>2. CASE EmitFailed(s)
  BY <1>2 DEF EmitReady, EmitFailed, EmitUnready, EmitDown
<1>3. CASE EmitUnready(s)
  BY <1>3 DEF EmitReady, EmitFailed, EmitUnready, EmitDown
<1>4. CASE EmitDown(s)
  BY <1>4 DEF EmitReady, EmitFailed, EmitUnready, EmitDown
<1> QED BY <1>1, <1>2, <1>3, <1>4 DEF EmitStep

-------------------------------------------------------------------------------
(* The lifecycle is a user of the supervisor.                                *)

\* Every step of the lifecycle is a step of the supervisor or leaves it alone.
LEMMA StepOfSupervisor ==
  ASSUME cancelled \in BOOLEAN, [LNext]_allVars PROVE [Next]_vars
<1>1. CASE InternalStep  BY <1>1 DEF Next
<1>2. ASSUME NEW s \in Services, CallStart(s) \/ LEmitReady(s) \/ LEmitFailed(s) \/ LEmitDown(s)
      PROVE  Next
  BY <1>2 DEF CallStart, LEmitReady, LEmitFailed, LEmitDown, Next, EmitStep
<1>3. CASE PlainStep \/ PublishReadiness \/ ShutdownRequested \/ CloseReadiness \/ DrainReturned
  BY <1>3 DEF PlainStep, PublishReadiness, ShutdownRequested, CloseReadiness, DrainReturned
<1>4. CASE CallDrain  BY <1>4 DEF CallDrain, Next
<1>5. CASE Signal
  <2>1. CASE cancelled
    <3>1. cancelled' = cancelled  BY <1>5, <2>1 DEF Signal
    <3> QED BY <1>5, <3>1 DEF Signal, vars, drainVars
  <2>2. CASE ~cancelled
    BY <1>5, <2>2 DEF Signal, CancelParent, Next
  <2> QED BY <2>1, <2>2
<1>6. CASE UNCHANGED allVars  BY <1>6 DEF allVars
<1> QED BY <1>1, <1>2, <1>3, <1>4, <1>5, <1>6 DEF LNext

\* The context is done or is not.
LEMMA CancelledStays ==
  ASSUME cancelled \in BOOLEAN, [Next]_vars PROVE cancelled' \in BOOLEAN
<1> USE DEF drainVars
<1>1. ASSUME NEW s \in Services, ThreadStep(s) PROVE UNCHANGED cancelled
  BY <1>1, ThreadMoves
<1>2. ASSUME NEW s \in Services, Start(s) \/ StartRefused(s) \/ EmitStep(s)
      PROVE  UNCHANGED cancelled
  BY <1>2 DEF Start, StartRefused, EmitStep, EmitReady, EmitFailed, EmitUnready, EmitDown
<1>3. CASE \/ KernelStep \/ ManagerStep \/ DrainStep \/ UNCHANGED vars
           \/ \E t \in Threads : StopStep(t)
  BY <1>3 DEF KernelStep, SpawnDescendant, DescendantsExit, LauncherExit, ManagerStep,
     ReapBegin, ReapOne, ReapEnd, DrainStep, DrainGroup, DrainNext, StopStep, StopLock,
     StopTerm, StopPoll, StopKill, StopTimeout, vars
<1>4. CASE CancelParent \/ DrainBegin  BY <1>4 DEF CancelParent, DrainBegin
<1> QED BY <1>1, <1>2, <1>3, <1>4 DEF Next, InternalStep

-------------------------------------------------------------------------------
(* runLifecycle's invariant, action by action.                               *)

LInv == LTypeOK /\ StartInv /\ StageInv /\ ReportInv

\* The plan's positions.
LEMMA PlanFacts ==
  /\ Len(Plan) \in Nat /\ DOMAIN Plan = 1..Len(Plan)
  /\ \A i \in DOMAIN Plan : i + 1 \in 1..(Len(Plan) + 1)
  /\ Len(Plan) + 1 \notin DOMAIN Plan
  /\ 1 \in 1..(Len(Plan) + 1)
<1>1. Len(Plan) \in Nat /\ DOMAIN Plan = 1..Len(Plan)  BY LifecycleAssumption
<1> QED BY <1>1

\* Drained, once reached, stays: Drain is called once.
LEMMA DrainedStays == ASSUME IInv, [Next]_vars, Drained PROVE Drained'
<1>0. Len(Groups) \in Nat /\ group = Len(Groups) + 2 /\ group # 0
      /\ group \notin 1..(Len(Groups) + 1)
  BY GroupsCover DEF Drained
<1>1. stop[Drainer] = "none"  BY <1>0 DEF IInv, DrainInv
<1>2. ~DrainBegin /\ ~DrainGroup /\ ~DrainNext
  BY <1>0, <1>1 DEF DrainBegin, DrainGroup, DrainNext, Stopped
<1>3. UNCHANGED group
  <2> USE DEF drainVars
  <2>1. ASSUME NEW s \in Services, ThreadStep(s) PROVE UNCHANGED group
    <3>1. CASE Fork(s) \/ Register(s) \/ ForkFail(s) \/ WritePIDFile(s) \/ WritePIDFileFail(s)
               \/ UndoStart(s) \/ ReadyOk(s) \/ ReadyFail(s)
      BY <3>1 DEF Fork, Register, ForkFail, WritePIDFile, WritePIDFileFail, UndoStart, ReadyOk,
         ReadyFail
    <3>2. CASE DiscardStopped(s) \/ DiscardReaped(s) \/ DiscardSettle(s) \/ WaitExit(s)
               \/ CgroupEnded(s) \/ CgroupUnreadable(s) \/ CgroupCancelled(s)
      BY <3>2 DEF DiscardStopped, DiscardReaped, DiscardSettle, WaitExit, CgroupEnded,
         CgroupUnreadable, CgroupCancelled
    <3>3. CASE Settle(s) \/ Swept(s) \/ BackoffOver(s) \/ RestartService(s)
      BY <3>3 DEF Settle, Swept, BackoffOver, RestartService
    <3> QED BY <2>1, <3>1, <3>2, <3>3 DEF ThreadStep
  <2>2. ASSUME NEW s \in Services, Start(s) \/ StartRefused(s) \/ EmitStep(s)
        PROVE  UNCHANGED group
    BY <2>2 DEF Start, StartRefused, EmitStep, EmitReady, EmitFailed, EmitUnready, EmitDown
  <2>3. CASE \/ KernelStep \/ ManagerStep \/ CancelParent \/ UNCHANGED vars
             \/ \E t \in Threads : StopStep(t)
    BY <2>3 DEF KernelStep, SpawnDescendant, DescendantsExit, LauncherExit, ManagerStep,
       ReapBegin, ReapOne, ReapEnd, CancelParent, StopStep, StopLock, StopTerm, StopPoll,
       StopKill, StopTimeout, vars
  <2> QED BY <1>2, <2>1, <2>2, <2>3 DEF Next, InternalStep, DrainStep
<1> QED BY <1>0, <1>3 DEF Drained

\* The supervisor's own steps.
LEMMA InternalKeeps ==
  ASSUME IInv, LInv, InternalStep, UNCHANGED <<gateVars, lifeVars>> PROVE LInv'
<1>0. MutexInv /\ [Next]_vars  BY DEF IInv, Next
<1>1. UNCHANGED <<required, published, failed, setErr, parentDone, at, stage, result>>
  BY DEF gateVars, lifeVars
<1>2. LTypeOK' /\ StartInv'
  <2>1. CASE Services = {}
    <3>1. ASSUME InternalStep PROVE UNCHANGED <<fresh, cancelled>>
      BY <2>1 DEF InternalStep, KernelStep, LauncherExit, ManagerStep, ReapBegin, ReapOne,
         ReapEnd, DrainStep, DrainGroup, DrainNext, StopStep, StopLock, StopTerm, StopPoll,
         StopKill, StopTimeout, thrVars, drainVars
    <3> QED BY <1>1, <2>1, <3>1 DEF LInv, LTypeOK, StartInv
  <2>2. CASE Services # {}
    <3>1. UNCHANGED <<fresh, cancelled>>  BY <1>0, <2>2, InternalMoves
    <3> QED BY <1>0, <1>1, <3>1, InternalMoves DEF LInv, LTypeOK, StartInv, Booting, InPlan
  <2> QED BY <2>1, <2>2
<1>3. StageInv'
  BY <1>0, <1>1, DrainedStays DEF LInv, StageInv
<1>4. ReportInv'
  BY <1>0, <1>1, InternalMoves, LifecycleAssumption DEF LInv, ReportInv
<1> QED BY <1>2, <1>3, <1>4 DEF LInv

\* The gate's steps, as far as the lifecycle needs them.
LEMMA ObserveFields ==
  ASSUME Gate!TypeOK, NEW s, NEW ready \in BOOLEAN, Observe(s, ready)
  PROVE  /\ UNCHANGED <<published, failed>> /\ (setErr => setErr')
         /\ \A d \in Required : required'[d] = IF d = s /\ ~failed THEN ready ELSE required[d]
<1>1. CASE Gate!Update(s, ready)
  BY <1>1 DEF Gate!Update, Gate!TypeOK, Gate!setReady
<1>2. CASE Gate!UpdateIgnored(s)
  BY <1>2 DEF Gate!UpdateIgnored, Gate!rvars
<1> QED BY <1>1, <1>2 DEF Observe

\* services.Start is entered.
LEMMA CallStartKeeps ==
  ASSUME IInv, LInv, NEW s \in Services, CallStart(s) PROVE LInv'
<1>0. MutexInv /\ [Next]_vars /\ Start(s)  BY DEF IInv, Next, CallStart
<1>1. UNCHANGED <<required, published, failed, setErr, parentDone, at, stage, result, cancelled>>
  BY DEF CallStart, Start, gateVars, drainVars
<1>2. /\ \A d \in Services : pc'[d] = IF d = s THEN "fork" ELSE pc[d]
      /\ \A d \in Services \ {s} : fresh'[d] = fresh[d]
      /\ pc[s] = "off" /\ fresh' \in [Services -> BOOLEAN]
  BY <1>0 DEF Start, Goto, MutexInv, LInv, LTypeOK
<1>3. Booting(s) /\ Booting(s)'  BY <1>1 DEF CallStart, Booting, InPlan
<1>4. LTypeOK'  BY <1>1, <1>2 DEF LInv, LTypeOK
<1>5. StartInv'  BY <1>1, <1>2, <1>3 DEF LInv, StartInv, Booting, InPlan
<1>6. StageInv'  BY <1>0, <1>1, DrainedStays DEF LInv, StageInv
<1>7. ReportInv'  BY <1>1, <1>2, LifecycleAssumption DEF LInv, ReportInv, Up
<1> QED BY <1>4, <1>5, <1>6, <1>7 DEF LInv

\* Start returned to the boot: the boot goes on or fails, and no other call of
\* Start is under way.
LEMMA ReturnKeeps ==
  ASSUME IInv, LInv, NEW s \in Services, EmitReady(s) \/ EmitFailed(s), fresh[s],
         StartReturned(s), UNCHANGED <<published, failed, parentDone>>, setErr => setErr'
  PROVE  LTypeOK' /\ StartInv' /\ StageInv'
<1>0. MutexInv /\ LTypeOK /\ EmitStep(s)  BY DEF IInv, LInv, EmitStep
<1>1. pc[s] # "off" /\ Booting(s)
  <2>1. pc[s] # "off"  BY DEF EmitReady, EmitFailed
  <2> QED BY <2>1 DEF LInv, StartInv
<1>2. stage = "boot" /\ at \in DOMAIN Plan /\ Plan[at] = s /\ result = "nil" /\ ~published
  BY <1>1 DEF Booting, InPlan, LInv, StageInv
<1>3. \/ at' = at + 1 /\ stage' = "boot" /\ result' = "nil"
      \/ at' = at /\ stage' \in {"debug", "unwind"} /\ result' = "err"
  BY <1>2 DEF StartReturned, Fail
<1>4. LTypeOK'
  <2>1. at' \in 1..(Len(Plan) + 1)  BY <1>0, <1>2, <1>3, PlanFacts DEF LTypeOK
  <2>2. UNCHANGED cancelled /\ fresh' \in [Services -> BOOLEAN]  BY <1>0, EmitMoves
  <2> QED BY <1>0, <1>3, <2>1, <2>2 DEF LTypeOK
<1>5. StartInv'
  <2>1. ASSUME NEW d \in Services, d # s PROVE ~(fresh[d] /\ pc[d] # "off") /\ pc[d] # "emitFailed"
    BY <1>2, <2>1 DEF LInv, StartInv, Booting
  <2>2. \A d \in Services \ {s} : pc'[d] = pc[d] /\ fresh'[d] = fresh[d]
    BY <1>0, EmitMoves
  <2>3. pc'[s] = "off" \/ (pc'[s] = "wait" /\ ~fresh'[s])  BY <1>0, EmitMoves
  <2> QED BY <2>1, <2>2, <2>3 DEF StartInv
<1>6. StageInv'
  BY <1>2, <1>3 DEF StageInv
<1> QED BY <1>4, <1>5, <1>6

\* A monitor's report leaves the boot where it is.
LEMMA ReportKeeps ==
  ASSUME IInv, LInv, NEW s \in Services, EmitStep(s), ~EmitFailed(s), EmitReady(s) => ~fresh[s],
         UNCHANGED <<published, failed, lifeVars>>, setErr => setErr'
  PROVE  LTypeOK' /\ StartInv' /\ StageInv'
<1>0. MutexInv /\ LTypeOK /\ [Next]_vars  BY DEF IInv, LInv, Next
<1>1. UNCHANGED <<parentDone, at, stage, result>>  BY DEF lifeVars
<1>2. LTypeOK'  BY <1>0, <1>1, EmitMoves DEF LTypeOK
<1>3. StartInv'
  <2>1. fresh'[s] => fresh[s] /\ pc[s] # "off"  BY <1>0, EmitMoves DEF EmitStep
  <2>2. pc'[s] # "emitFailed"  BY <1>0, EmitMoves DEF EmitStep
  <2>3. \A d \in Services \ {s} : pc'[d] = pc[d] /\ fresh'[d] = fresh[d]
    BY <1>0, EmitMoves
  <2> QED BY <1>1, <2>1, <2>2, <2>3 DEF LInv, StartInv, Booting, InPlan
<1>4. StageInv'  BY <1>0, <1>1, DrainedStays DEF LInv, StageInv
<1> QED BY <1>2, <1>3, <1>4

\* Reports, with what the gate makes of them.
LEMMA EmitKeeps ==
  ASSUME IInv, LInv, Gate!TypeOK, NEW s \in Services,
         LEmitReady(s) \/ LEmitFailed(s) \/ LEmitDown(s)
  PROVE  LInv'
<1>0. MutexInv /\ LTypeOK  BY DEF IInv, LInv
<1>1. CASE LEmitReady(s)
  <2>0. EmitReady(s) /\ EmitStep(s) /\ Observe(s, TRUE) /\ UNCHANGED parentDone
    BY <1>1 DEF LEmitReady, EmitStep
  <2>1. LTypeOK' /\ StartInv' /\ StageInv'
    <3>1. CASE fresh[s]
      BY <1>1, <2>0, <3>1, ObserveFields, ReturnKeeps DEF LEmitReady
    <3>2. CASE ~fresh[s]
      <4>1. UNCHANGED lifeVars  BY <1>1, <3>2 DEF LEmitReady, lifeVars
      <4>2. ~EmitFailed(s)  BY <2>0 DEF EmitReady, EmitFailed
      <4> QED BY <2>0, <3>2, <4>1, <4>2, ObserveFields, ReportKeeps
    <3> QED BY <3>1, <3>2
  <2>2. /\ UNCHANGED failed
        /\ \A d \in Required : required'[d] = IF d = s /\ ~failed THEN TRUE ELSE required[d]
    BY <2>0, ObserveFields
  <2>3. \A d \in Services \ {s} : pc'[d] = pc[d]  BY <1>0, <2>0, EmitMoves
  <2>4. pc'[s] \in Up  BY <1>0, <2>0, EmitMoves DEF Up
  <2>5. ReportInv'
    BY <2>2, <2>3, <2>4, LifecycleAssumption DEF LInv, ReportInv
  <2> QED BY <2>1, <2>5 DEF LInv
<1>2. CASE LEmitFailed(s)
  <2>0. /\ EmitFailed(s) /\ EmitStep(s) /\ Observe(s, FALSE) /\ UNCHANGED parentDone
        /\ StartReturned(s) /\ fresh[s]
    BY <1>2 DEF LEmitFailed, EmitStep, EmitFailed, LInv, StartInv
  <2>1. LTypeOK' /\ StartInv' /\ StageInv'  BY <2>0, ObserveFields, ReturnKeeps
  <2>2. /\ UNCHANGED failed
        /\ \A d \in Required : required'[d] = IF d = s /\ ~failed THEN FALSE ELSE required[d]
    BY <2>0, ObserveFields
  <2>3. \A d \in Services \ {s} : pc'[d] = pc[d]  BY <1>0, <2>0, EmitMoves
  <2>5. ReportInv'
    BY <2>2, <2>3, LifecycleAssumption DEF LInv, ReportInv
  <2> QED BY <2>1, <2>5 DEF LInv
<1>3. CASE LEmitDown(s)
  <2>0. EmitStep(s) /\ Observe(s, FALSE) /\ UNCHANGED lifeVars /\ ~EmitFailed(s) /\ ~EmitReady(s)
    BY <1>3 DEF LEmitDown, EmitStep, EmitDown, EmitUnready, EmitFailed, EmitReady
  <2>1. LTypeOK' /\ StartInv' /\ StageInv'  BY <2>0, ObserveFields, ReportKeeps
  <2>2. /\ UNCHANGED failed
        /\ \A d \in Required : required'[d] = IF d = s /\ ~failed THEN FALSE ELSE required[d]
    BY <2>0, ObserveFields
  <2>3. \A d \in Services \ {s} : pc'[d] = pc[d]  BY <1>0, <2>0, EmitMoves
  <2>5. ReportInv'
    BY <2>2, <2>3, LifecycleAssumption DEF LInv, ReportInv
  <2> QED BY <2>1, <2>5 DEF LInv
<1> QED BY <1>1, <1>2, <1>3

\* runLifecycle's own steps.
LEMMA StageKeeps ==
  ASSUME IInv, LInv, Gate!TypeOK,
         \/ PlainStep \/ PublishReadiness \/ Signal \/ ShutdownRequested
         \/ CloseReadiness \/ CallDrain \/ DrainReturned
  PROVE  LInv'
<1> USE PlanFacts DEF LInv, gateVars, lifeVars
<1>0. UNCHANGED <<pc, fresh>>
  BY DEF PlainStep, PublishReadiness, Signal, ShutdownRequested, CloseReadiness, CallDrain,
     DrainReturned, DrainBegin, vars, thrVars
<1>1. CASE PlainStep
  <2>1. UNCHANGED <<cancelled, group, required, published, failed, setErr, parentDone>>
    BY <1>1 DEF PlainStep, vars, drainVars
  <2>2. stage = "boot" /\ at \in DOMAIN Plan /\ Plan[at] \notin Services
    BY <1>1, LifecycleAssumption DEF PlainStep, InPlan
  <2>3. \/ at' = at + 1 /\ stage' = "boot" /\ result' = result
        \/ at' = at /\ stage' \in {"debug", "unwind"} /\ result' = "err"
    BY <1>1, <2>2 DEF PlainStep, Fail
  <2>4. \A s \in Services : ~(fresh[s] /\ pc[s] # "off")
    BY <2>2 DEF StartInv, Booting
  <2>5. LTypeOK'  BY <1>0, <2>1, <2>2, <2>3 DEF LTypeOK
  <2>6. StartInv'  BY <1>0, <2>4 DEF StartInv
  <2>7. StageInv'  BY <2>1, <2>2, <2>3 DEF StageInv
  <2>8. ReportInv'  BY <1>0, <2>1 DEF ReportInv
  <2> QED BY <2>5, <2>6, <2>7, <2>8
<1>2. CASE PublishReadiness
  <2>1. UNCHANGED <<cancelled, group, required, failed, parentDone, at>>
    BY <1>2 DEF PublishReadiness, vars, drainVars, Gate!Publish
  <2>2. stage = "boot" /\ at \notin DOMAIN Plan
    BY <1>2 DEF PublishReadiness
  <2>3. \/ stage' = "serve" /\ result' = result
        \/ setErr' /\ stage' \in {"debug", "unwind"} /\ result' = "err"
    BY <1>2 DEF PublishReadiness, Fail
  <2>4. \A s \in Services : ~(fresh[s] /\ pc[s] # "off")
    BY <2>2 DEF StartInv, Booting, InPlan
  <2>5. LTypeOK'  BY <1>0, <2>1, <2>3 DEF LTypeOK
  <2>6. StartInv'  BY <1>0, <2>4 DEF StartInv
  <2>7. StageInv'  BY <2>1, <2>2, <2>3 DEF StageInv
  <2>8. ReportInv'  BY <1>0, <2>1 DEF ReportInv
  <2> QED BY <2>5, <2>6, <2>7, <2>8
<1>3. CASE Signal
  <2>1. /\ UNCHANGED <<group, required, published, failed, setErr, at, stage, result>>
        /\ parentDone' = TRUE /\ cancelled' = TRUE
    BY <1>3 DEF Signal
  <2>2. LTypeOK'  BY <1>0, <2>1 DEF LTypeOK
  <2>3. StartInv'  BY <1>0, <2>1 DEF StartInv, Booting, InPlan
  <2>4. StageInv'  BY <2>1 DEF StageInv, Drained
  <2>5. ReportInv'  BY <1>0, <2>1 DEF ReportInv
  <2> QED BY <2>2, <2>3, <2>4, <2>5
<1>4. CASE ShutdownRequested
  <2>1. /\ UNCHANGED <<cancelled, group, required, published, failed, setErr, at, result, parentDone>>
        /\ stage \in {"serve", "debug"} /\ stage' = "unwind" /\ parentDone
    BY <1>4 DEF ShutdownRequested, vars, drainVars
  <2>2. LTypeOK'  BY <1>0, <2>1 DEF LTypeOK
  <2>3. StartInv'  BY <1>0, <2>1 DEF StartInv, Booting, InPlan
  <2>4. StageInv'  BY <2>1 DEF StageInv
  <2>5. ReportInv'  BY <1>0, <2>1 DEF ReportInv
  <2> QED BY <2>2, <2>3, <2>4, <2>5
<1>5. CASE CloseReadiness
  <2>1. /\ UNCHANGED <<cancelled, group, required, published, at, result, parentDone>>
        /\ stage = "unwind" /\ stage' = "drain" /\ failed' = TRUE
    BY <1>5 DEF CloseReadiness, vars, drainVars, Gate!FailClosed
  <2>2. LTypeOK'  BY <1>0, <2>1 DEF LTypeOK
  <2>3. StartInv'  BY <1>0, <2>1 DEF StartInv, Booting, InPlan
  <2>4. StageInv'  BY <2>1 DEF StageInv
  <2>5. ReportInv'  BY <2>1 DEF ReportInv
  <2> QED BY <2>2, <2>3, <2>4, <2>5
<1>6. CASE CallDrain
  <2>1. /\ UNCHANGED <<required, published, failed, setErr, parentDone, at, stage, result>>
        /\ stage = "drain" /\ cancelled' = TRUE
    BY <1>6 DEF CallDrain, DrainBegin
  <2>2. LTypeOK'  BY <1>0, <2>1 DEF LTypeOK
  <2>3. StartInv'  BY <1>0, <2>1 DEF StartInv, Booting, InPlan
  <2>4. StageInv'  BY <2>1 DEF StageInv
  <2>5. ReportInv'  BY <1>0, <2>1 DEF ReportInv
  <2> QED BY <2>2, <2>3, <2>4, <2>5
<1>7. CASE DrainReturned
  <2>1. /\ UNCHANGED <<cancelled, group, required, published, failed, setErr, parentDone, at>>
        /\ stage = "drain" /\ Drained
        /\ result' \in {"nil", "err"} /\ stage' = IF result' = "nil" THEN "off" ELSE "park"
        /\ result' = "nil" => ~(result = "err" /\ ~parentDone)
    BY <1>7 DEF DrainReturned, vars, drainVars
  <2>2. LTypeOK'  BY <1>0, <2>1 DEF LTypeOK
  <2>3. StartInv'  BY <1>0, <2>1 DEF StartInv, Booting, InPlan
  <2>4. StageInv'  BY <2>1 DEF StageInv, LTypeOK, Drained
  <2>5. ReportInv'  BY <1>0, <2>1 DEF ReportInv
  <2> QED BY <2>2, <2>3, <2>4, <2>5
<1> QED BY <1>1, <1>2, <1>3, <1>4, <1>5, <1>6, <1>7

\* Every step keeps it.
LEMMA LifeStep == IInv /\ LInv /\ Gate!TypeOK /\ [LNext]_allVars => LInv'
<1> SUFFICES ASSUME IInv, LInv, Gate!TypeOK, [LNext]_allVars PROVE LInv'
  OBVIOUS
<1>1. CASE UNCHANGED allVars
  BY <1>1 DEF allVars, vars, thrVars, drainVars, gateVars, lifeVars, LInv, LTypeOK, StartInv,
     StageInv, ReportInv, Booting, InPlan, Drained
<1> QED BY <1>1, InternalKeeps, CallStartKeeps, EmitKeeps, StageKeeps DEF LNext

\* It holds at the start of PID 1.
LEMMA LifeInit == LInit => LInv
BY PlanFacts DEF LInit, Init, Gate!Init, LInv, LTypeOK, StartInv, StageInv, ReportInv

-------------------------------------------------------------------------------
\* The lifecycle implements the supervisor's specification: Start, Drain, the
\* cancelled context and the reports are all it does to it, so that what is proved
\* of the supervisor alone holds in the machine.
LEMMA DrivesSupervisor == LSpec => Spec
<1>1. LInit => Init
  BY DEF LInit
<1>2. LInit => cancelled \in BOOLEAN
  BY DEF LInit, Init
<1>3. cancelled \in BOOLEAN /\ [LNext]_allVars => [Next]_vars
  BY StepOfSupervisor
<1>4. cancelled \in BOOLEAN /\ [LNext]_allVars => (cancelled \in BOOLEAN)'
  BY <1>3, CancelledStays
<1> QED BY <1>1, <1>2, <1>3, <1>4, PTL DEF LSpec, Spec

\* The supervisor's invariant, the gate's types and runLifecycle's own invariant,
\* together.
LEMMA LifeInvariance == LSpec => [](IInv /\ Gate!TypeOK /\ LInv)
<1>1. LSpec => []Gate!TypeOK
  BY GateTypeCorrect, DrivesGate, PTL
<1>2. LSpec => []IInv
  BY DrivesSupervisor, Invariance, PTL
<1> QED BY <1>1, <1>2, LifeInit, LifeStep, PTL DEF LSpec

\* A readiness file, written without an error, means that the boot is over, nobody
\* has begun to stop the machine but on request, and the thread of every required
\* service is watching an instance or about to report its end.
THEOREM ReadyIsServing == LSpec => []ReadyMeansServing
<1>1. LInv /\ FileIsTruth => ReadyMeansServing
  BY LifecycleAssumption DEF LInv, FileIsTruth, Gate!FileIsTruth, Gate!allReady, StageInv,
     ReportInv, Up, ReadyMeansServing
<1> QED BY <1>1, LifeInvariance, FileTruthInMachine, PTL

\* PID 1 powers the machine off only on request and after a complete drain, and
\* nothing runs then but what a bounded stop reported.
THEOREM PowerOffClean == LSpec => []PowerOffIsClean
<1>1. Spec => []DrainedGroupsStayEmpty
  BY DrainedStayEmpty
<1>2. LInv /\ DrainedGroupsStayEmpty => PowerOffIsClean
  BY DEF LInv, StageInv, DrainedGroupsStayEmpty, PowerOffIsClean
<1> QED BY <1>1, <1>2, LifeInvariance, DrivesSupervisor, PTL
===============================================================================
