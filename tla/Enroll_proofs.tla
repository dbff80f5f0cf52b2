----------------------------- MODULE Enroll_proofs -----------------------------
(***************************************************************************)
(* Enrollment, for any number of callers, permits, keys and boots.         *)
(***************************************************************************)
EXTENDS Enroll, TLAPS

-------------------------------------------------------------------------------
(* The inductive invariant: what the enrolling mutex protects, and what the   *)
(* requests inside and outside it may rely on.                                *)

SealSteps   == {"seal", "start", "await", "hostkey", "watch"}
LockedSteps == {"owned", "open", "claim"} \cup SealSteps

\* What holds of one caller's request.
RequestInv(c) ==
  /\ pc[c] \in LockedSteps => enrolling = c
  /\ pc[c] # "idle" => permit[c] \in Permits /\ vkey[c] \in Keys
  /\ pc[c] \in {"lock"} \cup LockedSteps => aud[permit[c]] = boot
  /\ pc[c] = "open" => owner = Nobody
  /\ pc[c] = "claim" => owner = Nobody /\ opener = c /\ opened # NoKey
  /\ pc[c] \in SealSteps => owner = c
  /\ pc[c] \in {"start", "await", "hostkey", "watch"} => authorized = c
  /\ status[c] = 204 => owner = c

OwnerInv ==
  /\ owner # Nobody => /\ opened # NoKey /\ opener = owner
                       /\ spent \in Permits /\ aud[spent] = boot
  /\ opened # NoKey /\ owner = Nobody =>
       ~alive \/ (opener \in Callers /\ pc[opener] = "claim")

DoorInv ==
  /\ authorized # Nobody => owner # Nobody
  /\ authorized \in Callers => authorized = owner
  /\ sshd = "running" => owner # Nobody /\ authorized = owner
  /\ listening => ~hostKey /\ owner # Nobody

RegisterInv == seals = <<>> \/ (opened # NoKey /\ seals = <<opened>>)

IInv ==
  TypeOK /\ (\A c \in Callers : RequestInv(c)) /\ OwnerInv /\ DoorInv /\ RegisterInv

\* A reply other than 204 ends one request and leaves the owner, the workspace
\* and every other request alone; the failed steps of seal that end in one leave
\* a torn file or a dead daemon at most.
LEMMA ReplyInv ==
  ASSUME IInv, NEW c \in Callers, NEW code \in {400, 403, 409, 503}, Reply(c, code),
         pc[c] # "claim",
         UNCHANGED <<volVars, hostVars, boxVars, hostKey, histVars>>,
         sshd' \in {sshd, "dead"},
         authorized' = authorized \/ (authorized' = Torn /\ authorized = Nobody /\ owner # Nobody)
  PROVE  IInv'
<1> USE EnrollAssumption DEF IInv
<1> USE DEF volVars, hostVars, boxVars, histVars
<1>1. TypeOK'
  BY DEF TypeOK, Reply, Goto, HandlerSteps
<1>2. ASSUME NEW d \in Callers PROVE RequestInv(d)'
  <2>1. CASE d = c
    BY <2>1 DEF TypeOK, RequestInv, Reply, Goto, SealSteps, LockedSteps
  <2>2. CASE d # c
    <3>1. UNCHANGED <<pc[d], permit[d], vkey[d], status[d]>>
      BY <2>2 DEF TypeOK, Reply, Goto
    <3>2. RequestInv(d)
      OBVIOUS
    <3>3. pc[d] \in LockedSteps => enrolling' = d
      BY <2>2, <3>2 DEF RequestInv, Reply
    <3>4. authorized = d => authorized' = d
      BY DEF TypeOK
    <3> QED BY <3>1, <3>2, <3>3, <3>4 DEF RequestInv
  <2> QED BY <2>1, <2>2
<1>3. OwnerInv'
  <2>1. ASSUME NEW d \in Callers, pc[d] = "claim" PROVE pc'[d] = "claim"
    BY <2>1 DEF TypeOK, Reply, Goto
  <2> QED BY <2>1 DEF OwnerInv
<1>4. DoorInv' /\ RegisterInv'
  BY DEF TypeOK, DoorInv, RegisterInv
<1> QED BY <1>1, <1>2, <1>3, <1>4

(* The orchestrator issuing a permit keeps the invariant. *)
LEMMA MintInv == ASSUME IInv, NEW p \in Permits, Mint(p) PROVE IInv'
BY EnrollAssumption DEF IInv, TypeOK, RequestInv, OwnerInv, DoorInv, RegisterInv, SealSteps,
   LockedSteps, HandlerSteps,
   volVars, hostVars, boxVars, sshVars, reqVars, histVars, Mint, Goto

(* A permit running out keeps the invariant: an owner keeps what it bought. *)
LEMMA ExpireInv == ASSUME IInv, NEW p \in Permits, Expire(p) PROVE IInv'
BY EnrollAssumption DEF IInv, TypeOK, RequestInv, OwnerInv, DoorInv, RegisterInv, SealSteps,
   LockedSteps, HandlerSteps,
   volVars, hostVars, boxVars, sshVars, reqVars, histVars, Expire, Goto

(* A request arriving at the handler keeps the invariant. *)
LEMMA PostInv ==
  ASSUME IInv, NEW c \in Callers, NEW p \in Permits, NEW k \in Keys, Post(c, p, k)
  PROVE  IInv'
BY EnrollAssumption DEF IInv, TypeOK, RequestInv, OwnerInv, DoorInv, RegisterInv, SealSteps,
   LockedSteps, HandlerSteps,
   volVars, hostVars, boxVars, sshVars, reqVars, histVars, Post, Goto

(* A permit accepted by check names this boot, which a later claim relies on. *)
LEMMA CheckInv == ASSUME IInv, NEW c \in Callers, Check(c) PROVE IInv'
BY EnrollAssumption DEF IInv, TypeOK, RequestInv, OwnerInv, DoorInv, RegisterInv, SealSteps,
   LockedSteps, HandlerSteps,
   volVars, hostVars, boxVars, sshVars, reqVars, histVars, Check, Goto, check

(* A request refused by check changes nothing that the invariant speaks of. *)
LEMMA RefuseInv == ASSUME IInv, NEW c \in Callers, Refuse(c) PROVE IInv'
BY ReplyInv DEF Refuse, volVars, hostVars, boxVars, sshVars, histVars

(* Taking the mutex keeps the invariant: the holder is the only caller in the
   critical section. *)
LEMMA LockInv == ASSUME IInv, NEW c \in Callers, Lock(c) PROVE IInv'
BY EnrollAssumption DEF IInv, TypeOK, RequestInv, OwnerInv, DoorInv, RegisterInv, SealSteps,
   LockedSteps, HandlerSteps,
   volVars, hostVars, boxVars, sshVars, reqVars, histVars, Lock, Goto

(* Finding an owner and answering 409 releases the mutex and changes nothing
   else. *)
LEMMA OwnedInv == ASSUME IInv, NEW c \in Callers, Owned(c) PROVE IInv'
BY ReplyInv DEF Owned, volVars, hostVars, boxVars, sshVars, histVars

(* Finding no owner carries that fact into the critical section. *)
LEMMA UnownedInv == ASSUME IInv, NEW c \in Callers, Unowned(c) PROVE IInv'
BY EnrollAssumption DEF IInv, TypeOK, RequestInv, OwnerInv, DoorInv, RegisterInv, SealSteps,
   LockedSteps, HandlerSteps,
   volVars, hostVars, boxVars, sshVars, reqVars, histVars, Unowned, Goto

(* Formatting the disk under the mutex keeps the invariant. *)
LEMMA InitializeInv == ASSUME IInv, NEW c \in Callers, Initialize(c) PROVE IInv'
BY EnrollAssumption DEF IInv, TypeOK, RequestInv, OwnerInv, DoorInv, RegisterInv, SealSteps,
   LockedSteps, HandlerSteps,
   volVars, hostVars, boxVars, sshVars, reqVars, histVars, Initialize, Goto, W!Initialize

(* Opening the workspace seals the register once, with the key that opened
   it. *)
LEMMA OpenOkInv == ASSUME IInv, NEW c \in Callers, OpenOk(c) PROVE IInv'
<1> USE EnrollAssumption DEF IInv, OpenOk, Goto
<1> USE DEF hostVars, boxVars, sshVars, reqVars
<1>1. vkey[c] \in Keys /\ owner = Nobody /\ enrolling = c
  BY DEF RequestInv, LockedSteps
<1>2. opened = NoKey /\ opened' = vkey[c] /\ diskKey' = diskKey
  BY DEF W!Open
<1>3. seals = <<>> /\ seals' \in {<<>>, <<vkey[c]>>}
  BY <1>2 DEF W!Open, RegisterInv
<1>4. TypeOK'
  <2>1. <<>> \in Seq(Keys) /\ <<vkey[c]>> \in Seq(Keys)
    BY <1>1
  <2>2. seals' \in Seq(Keys)
    BY <1>3, <2>1
  <2> QED BY <1>1, <1>2, <2>2 DEF TypeOK, HandlerSteps
<1>5. ASSUME NEW d \in Callers PROVE RequestInv(d)'
  BY <1>1, <1>2 DEF TypeOK, RequestInv, SealSteps, LockedSteps
<1>6. OwnerInv'
  BY <1>1, <1>2 DEF TypeOK, OwnerInv
<1>7. DoorInv' /\ RegisterInv'
  BY <1>1, <1>2, <1>3 DEF DoorInv, RegisterInv
<1> QED BY <1>4, <1>5, <1>6, <1>7

(* A workspace that does not open releases the mutex and leaves no owner. *)
LEMMA OpenFailInv == ASSUME IInv, NEW c \in Callers, OpenFail(c) PROVE IInv'
BY ReplyInv DEF OpenFail, volVars, hostVars, boxVars, sshVars, histVars

(* claim names the caller that has just opened the workspace. *)
LEMMA ClaimInv == ASSUME IInv, NEW c \in Callers, Claim(c) PROVE IInv'
BY EnrollAssumption DEF IInv, TypeOK, RequestInv, OwnerInv, DoorInv, RegisterInv, SealSteps,
   LockedSteps, HandlerSteps,
   volVars, hostVars, boxVars, sshVars, reqVars, histVars, Claim, Goto, Reply

(* seal writes the key of the owner. *)
LEMMA WriteKeyInv == ASSUME IInv, NEW c \in Callers, WriteKey(c) PROVE IInv'
<1>1. owner = c /\ enrolling = c /\ pc[c] # "claim"
  BY DEF WriteKey, IInv, RequestInv, SealSteps, LockedSteps
<1>2. CASE authorized' = c /\ Goto(c, "start") /\ UNCHANGED <<enrolling, reqVars, status>>
  <2> USE EnrollAssumption, <1>1, <1>2
      DEF WriteKey, IInv, Goto, volVars, hostVars, boxVars, reqVars, histVars
  <2>1. TypeOK'
    BY DEF TypeOK, HandlerSteps
  <2>2. ASSUME NEW d \in Callers PROVE RequestInv(d)'
    BY DEF TypeOK, RequestInv, SealSteps, LockedSteps
  <2>3. OwnerInv' /\ DoorInv' /\ RegisterInv'
    BY DEF TypeOK, OwnerInv, DoorInv, RegisterInv, RequestInv, SealSteps, LockedSteps
  <2> QED BY <2>1, <2>2, <2>3
<1>3. CASE authorized' = Torn /\ Reply(c, 503)
  BY <1>1, <1>3, ReplyInv, EnrollAssumption
     DEF WriteKey, volVars, hostVars, boxVars, sshVars, histVars
<1> QED BY <1>2, <1>3 DEF WriteKey

(* A failed or torn write of the key ends the enrollment without a daemon. *)
LEMMA WriteKeyFailInv == ASSUME IInv, NEW c \in Callers, WriteKeyFail(c) PROVE IInv'
BY ReplyInv DEF WriteKeyFail, volVars, hostVars, boxVars, sshVars, histVars

(* sshd starts only behind the owner's key and an open workspace. *)
LEMMA StartSSHInv == ASSUME IInv, NEW c \in Callers, StartSSH(c) PROVE IInv'
<1>1. owner = c /\ enrolling = c /\ pc[c] # "claim"
  BY DEF StartSSH, IInv, RequestInv, SealSteps, LockedSteps
<1>2. CASE sshd' = "running" /\ Goto(c, "await") /\ UNCHANGED <<enrolling, reqVars, status>>
  <2> USE EnrollAssumption, <1>1, <1>2
      DEF StartSSH, IInv, Goto, volVars, hostVars, boxVars, reqVars, histVars
  <2>1. TypeOK'
    BY DEF TypeOK, HandlerSteps
  <2>2. ASSUME NEW d \in Callers PROVE RequestInv(d)'
    BY DEF TypeOK, RequestInv, SealSteps, LockedSteps
  <2>3. OwnerInv' /\ DoorInv' /\ RegisterInv'
    BY DEF TypeOK, OwnerInv, DoorInv, RegisterInv, RequestInv, SealSteps, LockedSteps
  <2> QED BY <2>1, <2>2, <2>3
<1>3. CASE UNCHANGED sshd /\ Reply(c, 503)
  BY <1>1, <1>3, ReplyInv, EnrollAssumption
     DEF StartSSH, volVars, hostVars, boxVars, sshVars, histVars
<1> QED BY <1>2, <1>3 DEF StartSSH

(* Waiting for the listener, successful or not, keeps the invariant. *)
LEMMA AwaitInv == ASSUME IInv, NEW c \in Callers, Await(c) PROVE IInv'
<1>1. owner = c /\ enrolling = c /\ pc[c] # "claim"
  BY DEF Await, IInv, RequestInv, SealSteps, LockedSteps
<1>2. CASE sshd = "running" /\ Goto(c, "hostkey")
          /\ UNCHANGED <<sshd, enrolling, reqVars, status>>
  <2> USE EnrollAssumption, <1>1, <1>2
      DEF Await, IInv, Goto, volVars, hostVars, boxVars, reqVars, histVars
  <2>1. TypeOK'
    BY DEF TypeOK, HandlerSteps
  <2>2. ASSUME NEW d \in Callers PROVE RequestInv(d)'
    BY DEF TypeOK, RequestInv, SealSteps, LockedSteps
  <2>3. OwnerInv' /\ DoorInv' /\ RegisterInv'
    BY DEF TypeOK, OwnerInv, DoorInv, RegisterInv, RequestInv, SealSteps, LockedSteps
  <2> QED BY <2>1, <2>2, <2>3
<1>3. CASE sshd' = "dead" /\ Reply(c, 503)
  BY <1>1, <1>3, ReplyInv, EnrollAssumption
     DEF Await, volVars, hostVars, boxVars, sshVars, histVars
<1> QED BY <1>2, <1>3 DEF Await

(* The host key leaves the disk before the listener is announced. *)
LEMMA RemoveHostKeyInv == ASSUME IInv, NEW c \in Callers, RemoveHostKey(c) PROVE IInv'
<1>1. owner = c /\ enrolling = c /\ pc[c] # "claim"
  BY DEF RemoveHostKey, IInv, RequestInv, SealSteps, LockedSteps
<1>2. CASE hostKey' = FALSE /\ listening' = TRUE /\ Goto(c, "watch")
          /\ UNCHANGED <<sshd, enrolling, reqVars, status>>
  <2> USE EnrollAssumption, <1>1, <1>2
      DEF RemoveHostKey, IInv, Goto, volVars, hostVars, boxVars, reqVars, histVars
  <2>1. TypeOK'
    <3>1. listening' \in BOOLEAN /\ hostKey' \in BOOLEAN
      OBVIOUS
    <3>2. pc' \in [Callers -> HandlerSteps]
      BY DEF TypeOK, HandlerSteps
    <3> QED BY <3>1, <3>2 DEF TypeOK
  <2>2. ASSUME NEW d \in Callers PROVE RequestInv(d)'
    BY DEF TypeOK, RequestInv, SealSteps, LockedSteps
  <2>3. OwnerInv' /\ DoorInv' /\ RegisterInv'
    BY DEF TypeOK, OwnerInv, DoorInv, RegisterInv, RequestInv, SealSteps, LockedSteps
  <2> QED BY <2>1, <2>2, <2>3
<1>3. CASE sshd' = "dead" /\ Reply(c, 503) /\ UNCHANGED <<hostKey, listening>>
  BY <1>1, <1>3, ReplyInv, EnrollAssumption
     DEF RemoveHostKey, volVars, hostVars, boxVars, sshVars, histVars
<1> QED BY <1>2, <1>3 DEF RemoveHostKey

(* Announcing the listener and starting the goroutine that waits for sshd
   keeps the invariant. *)
LEMMA WatchInv == ASSUME IInv, NEW c \in Callers, Watch(c) PROVE IInv'
BY EnrollAssumption DEF IInv, TypeOK, RequestInv, OwnerInv, DoorInv, RegisterInv, SealSteps,
   LockedSteps, HandlerSteps,
   volVars, hostVars, boxVars, sshVars, reqVars, histVars, Watch, Goto, Reply

(* The death of sshd keeps the invariant. *)
LEMMA SshdDiesInv == ASSUME IInv, SshdDies PROVE IInv'
BY EnrollAssumption DEF IInv, TypeOK, RequestInv, OwnerInv, DoorInv, RegisterInv, SealSteps,
   LockedSteps, HandlerSteps,
   volVars, hostVars, boxVars, sshVars, reqVars, histVars, SshdDies, Goto

(* The goroutine that collects sshd withdraws the announcement. *)
LEMMA SshdCollectedInv == ASSUME IInv, SshdCollected PROVE IInv'
<1> USE DEF IInv, SshdCollected, volVars, hostVars, sshVars, reqVars, histVars
<1>1. TypeOK'
  <2>1. listening' \in BOOLEAN /\ watched' \in BOOLEAN /\ alive' \in BOOLEAN
    BY DEF TypeOK
  <2> QED BY <2>1 DEF TypeOK
<1>2. ASSUME NEW d \in Callers PROVE RequestInv(d)'
  BY DEF RequestInv
<1>3. OwnerInv' /\ DoorInv' /\ RegisterInv'
  BY DEF OwnerInv, DoorInv, RegisterInv
<1> QED BY <1>1, <1>2, <1>3

(* The death of the sandbox process keeps the invariant: the owner is not
   forgotten within a boot. *)
LEMMA ExitInv == ASSUME IInv, Exit PROVE IInv'
<1> USE EnrollAssumption DEF IInv, Exit, DropRequests, volVars, hostVars, histVars
<1>1. TypeOK'
  <2>1. sshd' \in {"none", "running", "dead"}
    BY DEF TypeOK
  <2>2. alive' \in BOOLEAN /\ listening' \in BOOLEAN /\ watched' \in BOOLEAN
    OBVIOUS
  <2>3. /\ enrolling' \in Callers \cup {Nobody} /\ pc' \in [Callers -> HandlerSteps]
        /\ permit' \in [Callers -> Permits \cup {NoPermit}]
        /\ vkey' \in [Callers -> Keys \cup {NoKey}]
    BY DEF HandlerSteps
  <2> QED BY <2>1, <2>2, <2>3 DEF TypeOK
<1>2. ASSUME NEW d \in Callers PROVE RequestInv(d)'
  BY DEF TypeOK, RequestInv, SealSteps, LockedSteps
<1>3. OwnerInv' /\ DoorInv' /\ RegisterInv'
  BY DEF OwnerInv, DoorInv, RegisterInv
<1> QED BY <1>1, <1>2, <1>3

(* A reboot starts from no owner, no open workspace and an empty register. *)
LEMMA RebootInv == ASSUME IInv, Reboot PROVE IInv'
<1> USE EnrollAssumption DEF IInv, Reboot, DropRequests, W!Down, hostVars
<1>1. TypeOK'
  <2>1. seals' \in Seq(Keys)
    OBVIOUS
  <2>2. boot' \in 1..MaxBoots
    BY DEF TypeOK
  <2> QED BY <2>1, <2>2 DEF TypeOK, HandlerSteps
<1>2. ASSUME NEW d \in Callers PROVE RequestInv(d)'
  BY DEF TypeOK, RequestInv, SealSteps, LockedSteps
<1>3. OwnerInv' /\ DoorInv' /\ RegisterInv'
  BY DEF OwnerInv, DoorInv, RegisterInv
<1> QED BY <1>1, <1>2, <1>3

(* The first boot satisfies the invariant. *)
LEMMA InitInv == ASSUME Init PROVE IInv
<1> USE EnrollAssumption DEF Init, W!Init
<1>1. TypeOK
  <2>1. seals \in Seq(Keys)
    OBVIOUS
  <2>2. boot \in 1..MaxBoots /\ aud \in [Permits -> 0..MaxBoots]
    OBVIOUS
  <2>3. /\ listening \in BOOLEAN /\ watched \in BOOLEAN
        /\ alive \in BOOLEAN /\ hostKey \in BOOLEAN
    OBVIOUS
  <2>4. pc \in [Callers -> HandlerSteps]
    BY DEF HandlerSteps
  <2>5. status \in [Callers -> {0, 204, 400, 403, 409, 503}]
    OBVIOUS
  <2>6. /\ permit \in [Callers -> Permits \cup {NoPermit}]
        /\ vkey \in [Callers -> Keys \cup {NoKey}]
    OBVIOUS
  <2> QED BY <2>1, <2>2, <2>3, <2>4, <2>5, <2>6 DEF TypeOK
<1>2. ASSUME NEW d \in Callers PROVE RequestInv(d)
  BY DEF RequestInv, SealSteps, LockedSteps
<1>3. OwnerInv /\ DoorInv /\ RegisterInv
  BY DEF OwnerInv, DoorInv, RegisterInv
<1> QED BY <1>1, <1>2, <1>3 DEF IInv

(* Every step keeps the invariant. *)
LEMMA StepInv == IInv /\ [Next]_vars => IInv'
<1> SUFFICES ASSUME IInv, [Next]_vars PROVE IInv'
  OBVIOUS
<1>1. ASSUME NEW p \in Permits, Mint(p) \/ Expire(p) PROVE IInv'
  BY <1>1, MintInv, ExpireInv
<1>2. ASSUME NEW c \in Callers, HandlerStep(c) PROVE IInv'
  BY <1>2, CheckInv, RefuseInv, LockInv, OwnedInv, UnownedInv, InitializeInv, OpenOkInv,
     OpenFailInv, ClaimInv, WriteKeyInv, WriteKeyFailInv, StartSSHInv, AwaitInv,
     RemoveHostKeyInv, WatchInv
     DEF HandlerStep
<1>3. ASSUME NEW c \in Callers, NEW p \in Permits, NEW k \in Keys, Post(c, p, k)
      PROVE  IInv'
  BY <1>3, PostInv
<1>4. CASE SshdDies \/ SshdCollected \/ Exit \/ Reboot
  BY <1>4, SshdDiesInv, SshdCollectedInv, ExitInv, RebootInv
<1>5. CASE UNCHANGED vars
  <2> USE <1>5 DEF vars, volVars, hostVars, boxVars, sshVars, reqVars, histVars, IInv
  <2>1. TypeOK'
    BY DEF TypeOK
  <2>2. ASSUME NEW d \in Callers PROVE RequestInv(d)'
    BY DEF RequestInv
  <2>3. OwnerInv' /\ DoorInv' /\ RegisterInv'
    BY DEF OwnerInv, DoorInv, RegisterInv
  <2> QED BY <2>1, <2>2, <2>3
<1> QED BY <1>1, <1>2, <1>3, <1>4, <1>5 DEF Next

(* The inductive invariant holds throughout; the theorems below are read off
   it. *)
LEMMA Invariance == Spec => []IInv
BY InitInv, StepInv, PTL DEF Spec

-------------------------------------------------------------------------------
\* Handlers, failures and reboots keep the shape of the sandbox's state.
THEOREM TypeCorrect == Spec => []TypeOK
<1>1. IInv => TypeOK
  BY DEF IInv
<1> QED BY <1>1, Invariance, PTL

\* A failed unlock leaves ownership unclaimed, and the workspace opened by one
\* caller's request belongs to that caller.
THEOREM OwnerOpened == Spec => []OwnerOpenedWorkspace
<1>1. IInv => OwnerOpenedWorkspace
  BY DEF IInv, OwnerInv, OwnerOpenedWorkspace
<1> QED BY <1>1, Invariance, PTL

\* The key file, the daemon and the announced listener are the owner's.
THEOREM DoorIsOwners == Spec => []SealedToOwner
<1>1. IInv => SealedToOwner
  BY DEF IInv, OwnerInv, DoorInv, SealedToOwner
<1> QED BY <1>1, Invariance, PTL

\* Ownership was bought with a permit of this boot, and only the owner was told so.
THEOREM PermitBuysOnce == Spec => []PermitSpentOnce
<1>1. IInv => PermitSpentOnce
  BY DEF IInv, OwnerInv, RequestInv, PermitSpentOnce
<1> QED BY <1>1, Invariance, PTL

\* The register carries one key at most, the workspace's.
THEOREM RegisterSealedOnce == Spec => []SealedOnce
<1>1. IInv => SealedOnce
  BY DEF IInv, RegisterInv, SealedOnce
<1> QED BY <1>1, Invariance, PTL

\* No step of a boot replaces its owner: claim happens under the mutex, behind a
\* test that nobody has claimed.
THEOREM OwnerIsFinal == Spec => OneOwnerPerBoot
<1>1. IInv /\ [Next]_vars => [owner # Nobody => owner' = owner \/ boot' # boot]_vars
  <2> SUFFICES ASSUME IInv, Next, owner # Nobody PROVE owner' = owner \/ boot' # boot
    OBVIOUS
  <2>1. ASSUME NEW p \in Permits, Mint(p) \/ Expire(p) PROVE owner' = owner
    BY <2>1 DEF Mint, Expire, boxVars
  <2>2. ASSUME NEW c \in Callers, NEW p \in Permits, NEW k \in Keys, Post(c, p, k)
        PROVE  owner' = owner
    BY <2>2 DEF Post, boxVars
  <2>3. ASSUME NEW c \in Callers, HandlerStep(c) PROVE owner' = owner
    BY <2>3 DEF HandlerStep, Check, Refuse, Lock, Owned, Unowned, Initialize, OpenOk,
       OpenFail, Claim, WriteKey, WriteKeyFail, StartSSH, Await, RemoveHostKey, Watch,
       boxVars
  <2>4. CASE SshdDies \/ SshdCollected \/ Exit
    BY <2>4 DEF SshdDies, SshdCollected, Exit, boxVars
  <2>5. CASE Reboot
    BY <2>5 DEF Reboot, IInv, TypeOK
  <2> QED BY <2>1, <2>2, <2>3, <2>4, <2>5 DEF Next
<1> QED BY <1>1, Invariance, PTL DEF Spec, OneOwnerPerBoot
================================================================================
