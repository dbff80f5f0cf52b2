-------------------------------- MODULE Enroll --------------------------------
(***************************************************************************)
(* cmd/sandbox/main.go: the enrollment API of a sandbox.  The orchestrator *)
(* mints permits bound to a boot's nonce; callers race to spend one on     *)
(* naming the owner; the winner's call opens the workspace volume, claims  *)
(* ownership, seals the key into the file sshd reads and starts sshd.      *)
(* Processes die and the machine reboots between any two steps.            *)
(***************************************************************************)
EXTENDS Naturals, Sequences, FiniteSets

CONSTANTS
  Callers,   \* parties that call /enroll, each with its own SSH key
  Nobody,    \* no caller
  Torn,      \* the content of a key file whose write failed
  Permits,   \* permits the orchestrator can mint
  NoPermit,
  Keys,      \* volume keys
  NoKey,
  MaxBoots   \* bound: boots in one behaviour

ASSUME EnrollAssumption ==
  /\ Nobody \notin Callers /\ Torn \notin Callers /\ Nobody # Torn
  /\ NoKey \notin Keys /\ NoPermit \notin Permits
  /\ MaxBoots \in Nat \ {0}

VARIABLES
  \* the volume: see Workspace
  diskKey, opened, seals,
  \* the orchestrator
  aud,        \* permit -> the boot whose nonce it names, 0 before it is minted
  expired,    \* permits past their expiry
  \* the sandbox process, one per boot
  boot,       \* the nonce
  alive,
  enrolling,  \* holder of the enrolling mutex
  owner,
  listening,
  watched,    \* the goroutine that waits for sshd runs
  \* its surroundings
  authorized, \* whose key the authorized_keys file holds: Nobody when there is
              \* no file, Torn when its write failed
  hostKey,    \* the private host key is on disk
  sshd,       \* the daemon
  \* requests in progress
  pc,         \* caller -> step of its request
  permit,     \* caller -> permit of the request in progress
  vkey,       \* caller -> volume key of the request in progress
  status,     \* caller -> status of the last reply in this boot, 0 for none
  \* history
  opener,     \* the caller whose request opened the workspace in this boot
  spent       \* the permit that bought the ownership

W == INSTANCE Workspace

volVars  == <<diskKey, opened, seals>>
hostVars == <<aud, expired>>
boxVars  == <<boot, alive, owner, listening, watched>>
sshVars  == <<authorized, hostKey, sshd>>
reqVars  == <<permit, vkey>>
histVars == <<opener, spent>>
vars == <<volVars, hostVars, boxVars, enrolling, sshVars, pc, reqVars, status, histVars>>

Goto(c, l) == pc' = [pc EXCEPT ![c] = l]

\* Mutant of Reply: the mutex stays locked.
ReplyLocked(c, code) ==
  /\ status' = [status EXCEPT ![c] = code]
  /\ Goto(c, "idle")
  /\ permit' = [permit EXCEPT ![c] = NoPermit] /\ vkey' = [vkey EXCEPT ![c] = NoKey]
  /\ UNCHANGED enrolling

\* The handler replies and returns, which clears the key and frees the mutex if
\* it holds it.
Reply(c, code) ==
  /\ status' = [status EXCEPT ![c] = code]
  /\ Goto(c, "idle")
  /\ permit' = [permit EXCEPT ![c] = NoPermit] /\ vkey' = [vkey EXCEPT ![c] = NoKey]
  /\ enrolling' = IF enrolling = c THEN Nobody ELSE enrolling

Init ==
  /\ W!Init
  /\ aud = [p \in Permits |-> 0] /\ expired = {}
  /\ boot = 1 /\ alive = TRUE /\ enrolling = Nobody
  /\ owner = Nobody /\ listening = FALSE /\ watched = FALSE
  /\ authorized = Nobody /\ hostKey = TRUE /\ sshd = "none"
  /\ pc = [c \in Callers |-> "idle"]
  /\ permit = [c \in Callers |-> NoPermit] /\ vkey = [c \in Callers |-> NoKey]
  /\ status = [c \in Callers |-> 0]
  /\ opener = Nobody /\ spent = NoPermit

-------------------------------------------------------------------------------
(* The orchestrator: it reads the nonce from /healthz and signs *)

Mint(p) ==
  /\ alive /\ aud[p] = 0
  /\ aud' = [aud EXCEPT ![p] = boot]
  /\ UNCHANGED <<volVars, expired, boxVars, enrolling, sshVars, pc, reqVars, status,
                 histVars>>

Expire(p) ==
  /\ aud[p] # 0 /\ p \notin expired
  /\ expired' = expired \cup {p}
  /\ UNCHANGED <<volVars, aud, boxVars, enrolling, sshVars, pc, reqVars, status,
                 histVars>>

-------------------------------------------------------------------------------
(* enroll *)

\* A caller posts a permit and a volume key, once more or for the first time.
Post(c, p, k) ==
  /\ alive /\ pc[c] = "idle" /\ aud[p] # 0
  /\ permit' = [permit EXCEPT ![c] = p] /\ vkey' = [vkey EXCEPT ![c] = k]
  /\ Goto(c, "check")
  /\ UNCHANGED <<volVars, hostVars, boxVars, enrolling, sshVars, status, histVars>>

\* Mutant of check: the nonce is not compared.
checkAnyBoot(p) == p \notin expired

\* check: the claims that tie a signed permit to this boot.
check(p) == aud[p] = boot /\ p \notin expired

Check(c) ==
  /\ pc[c] = "check" /\ check(permit[c])
  /\ Goto(c, "lock")
  /\ UNCHANGED <<volVars, hostVars, boxVars, enrolling, sshVars, reqVars, status,
                 histVars>>

\* The permit is refused, or it is accepted and the body is not.
Refuse(c) ==
  /\ pc[c] = "check"
  /\ \/ ~check(permit[c]) /\ Reply(c, 403)
     \/ check(permit[c]) /\ Reply(c, 400)
  /\ UNCHANGED <<volVars, hostVars, boxVars, sshVars, histVars>>

Lock(c) ==
  /\ pc[c] = "lock" /\ enrolling = Nobody
  /\ enrolling' = c /\ Goto(c, "owned")
  /\ UNCHANGED <<volVars, hostVars, boxVars, sshVars, reqVars, status, histVars>>

\* A valid permit that comes after the one that was spent.
Owned(c) ==
  /\ pc[c] = "owned" /\ owner # Nobody
  /\ Reply(c, 409)
  /\ UNCHANGED <<volVars, hostVars, boxVars, sshVars, histVars>>

Unowned(c) ==
  /\ pc[c] = "owned" /\ owner = Nobody
  /\ Goto(c, "open")
  /\ UNCHANGED <<volVars, hostVars, boxVars, enrolling, sshVars, reqVars, status,
                 histVars>>

\* OpenWorkspace, by what it promises: it may format a blank disk, ...
Initialize(c) ==
  /\ pc[c] = "open" /\ W!Initialize(vkey[c])
  /\ UNCHANGED <<hostVars, boxVars, enrolling, sshVars, pc, reqVars, status, histVars>>

\* ... succeeds with the disk's key on a volume that is not open yet, ...
OpenOk(c) ==
  /\ pc[c] = "open" /\ W!Open(vkey[c])
  /\ opener' = c /\ Goto(c, "claim")
  /\ UNCHANGED <<hostVars, boxVars, enrolling, sshVars, reqVars, status, spent>>

\* Mutant of OpenFail: the handler goes on after its reply.
OpenFailGoesOn(c) ==
  /\ pc[c] = "open" /\ Goto(c, "claim")
  /\ UNCHANGED <<volVars, hostVars, boxVars, enrolling, sshVars, reqVars, status,
                 histVars>>

\* ... or fails, with the wrong key or with the right one.
OpenFail(c) ==
  /\ pc[c] = "open" /\ Reply(c, 403)
  /\ UNCHANGED <<volVars, hostVars, boxVars, sshVars, histVars>>

\* claim refuses a sandbox that has an owner, once more.
Claim(c) ==
  /\ pc[c] = "claim"
  /\ IF owner = Nobody
     THEN /\ owner' = c /\ spent' = permit[c] /\ Goto(c, "seal")
          /\ UNCHANGED <<enrolling, reqVars, status>>
     ELSE Reply(c, 409) /\ UNCHANGED <<owner, spent>>
  /\ UNCHANGED <<volVars, hostVars, boot, alive, listening, watched, sshVars, opener>>

-------------------------------------------------------------------------------
(* seal: the owner stays claimed whatever fails in it *)

\* The file is created exclusively, so it is written at most once in a boot.
WriteKey(c) ==
  /\ pc[c] = "seal" /\ authorized = Nobody
  /\ \/ authorized' = c /\ Goto(c, "start") /\ UNCHANGED <<enrolling, reqVars, status>>
     \/ authorized' = Torn /\ Reply(c, 503)
  /\ UNCHANGED <<volVars, hostVars, boxVars, hostKey, sshd, histVars>>

\* The file exists or cannot be created.
WriteKeyFail(c) ==
  /\ pc[c] = "seal" /\ Reply(c, 503)
  /\ UNCHANGED <<volVars, hostVars, boxVars, sshVars, histVars>>

StartSSH(c) ==
  /\ pc[c] = "start"
  /\ \/ sshd' = "running" /\ Goto(c, "await") /\ UNCHANGED <<enrolling, reqVars, status>>
     \/ UNCHANGED sshd /\ Reply(c, 503)
  /\ UNCHANGED <<volVars, hostVars, boxVars, authorized, hostKey, histVars>>

\* awaitListening: only a daemon that runs accepts the connection.
Await(c) ==
  /\ pc[c] = "await"
  /\ \/ sshd = "running" /\ Goto(c, "hostkey") /\ UNCHANGED <<sshd, enrolling, reqVars, status>>
     \/ sshd' = "dead" /\ Reply(c, 503)
  /\ UNCHANGED <<volVars, hostVars, boxVars, authorized, hostKey, histVars>>

\* Mutant of RemoveHostKey: a failed removal is ignored.
RemoveHostKeyUnchecked(c) ==
  /\ pc[c] = "hostkey"
  /\ hostKey' \in BOOLEAN /\ listening' = TRUE /\ Goto(c, "watch")
  /\ UNCHANGED <<sshd, enrolling, reqVars, status>>
  /\ UNCHANGED <<volVars, hostVars, boot, alive, owner, watched, authorized, histVars>>

\* The private host key leaves the disk before anyone is told of the listener,
\* whether or not the daemon still lives.
RemoveHostKey(c) ==
  /\ pc[c] = "hostkey"
  /\ \/ hostKey' = FALSE /\ listening' = TRUE /\ Goto(c, "watch")
        /\ UNCHANGED <<sshd, enrolling, reqVars, status>>
     \/ sshd' = "dead" /\ Reply(c, 503) /\ UNCHANGED <<hostKey, listening>>
  /\ UNCHANGED <<volVars, hostVars, boot, alive, owner, watched, authorized, histVars>>

\* Mutant of Watch: nobody waits for the daemon.
WatchNobody(c) ==
  /\ pc[c] = "watch" /\ Reply(c, 204)
  /\ UNCHANGED <<volVars, hostVars, boxVars, sshVars, histVars>>

\* The goroutine that waits for the daemon is started, and the call succeeds.
Watch(c) ==
  /\ pc[c] = "watch"
  /\ watched' = TRUE /\ Reply(c, 204)
  /\ UNCHANGED <<volVars, hostVars, boot, alive, owner, listening, sshVars, histVars>>

-------------------------------------------------------------------------------
(* Failures *)

SshdDies ==
  /\ sshd = "running" /\ sshd' = "dead"
  /\ UNCHANGED <<volVars, hostVars, boxVars, enrolling, authorized, hostKey, pc, reqVars,
                 status, histVars>>

\* The goroutine collects the daemon.
SshdCollected ==
  /\ alive /\ watched /\ sshd = "dead"
  /\ listening' = FALSE /\ watched' = FALSE
  /\ UNCHANGED <<volVars, hostVars, boot, alive, owner, enrolling, sshVars, pc, reqVars,
                 status, histVars>>

DropRequests ==
  /\ pc' = [c \in Callers |-> "idle"] /\ enrolling' = Nobody
  /\ permit' = [c \in Callers |-> NoPermit] /\ vkey' = [c \in Callers |-> NoKey]

\* Mutant of Exit: PID 1 starts the service again in the same boot.
ExitRestarted ==
  /\ alive
  /\ sshd' = IF sshd = "running" THEN "dead" ELSE sshd
  /\ DropRequests
  /\ owner' = Nobody /\ listening' = FALSE /\ watched' = FALSE
  /\ UNCHANGED <<volVars, hostVars, boot, alive, authorized, hostKey, status, histVars>>

\* The sandbox process exits: its death signal takes sshd along, PID 1 does not
\* start it again in this boot, and requests in progress are gone.
Exit ==
  /\ alive /\ alive' = FALSE
  /\ sshd' = IF sshd = "running" THEN "dead" ELSE sshd
  /\ DropRequests
  /\ listening' = FALSE /\ watched' = FALSE
  /\ UNCHANGED <<volVars, hostVars, boot, owner, authorized, hostKey, status, histVars>>

\* A new boot: prepare mints a new host key and run a new nonce.
Reboot ==
  /\ boot < MaxBoots /\ boot' = boot + 1
  /\ W!Down
  /\ alive' = TRUE /\ DropRequests
  /\ owner' = Nobody /\ listening' = FALSE /\ watched' = FALSE
  /\ authorized' = Nobody /\ hostKey' = TRUE /\ sshd' = "none"
  /\ status' = [c \in Callers |-> 0]
  /\ opener' = Nobody /\ spent' = NoPermit
  /\ UNCHANGED hostVars

-------------------------------------------------------------------------------
HandlerStep(c) ==
  \/ Check(c) \/ Refuse(c) \/ Lock(c) \/ Owned(c) \/ Unowned(c)
  \/ Initialize(c) \/ OpenOk(c) \/ OpenFail(c) \/ Claim(c)
  \/ WriteKey(c) \/ WriteKeyFail(c) \/ StartSSH(c) \/ Await(c)
  \/ RemoveHostKey(c) \/ Watch(c)

Next ==
  \/ \E p \in Permits : Mint(p) \/ Expire(p)
  \/ \E c \in Callers : HandlerStep(c)
  \/ \E c \in Callers, p \in Permits, k \in Keys : Post(c, p, k)
  \/ SshdDies \/ SshdCollected \/ Exit \/ Reboot

Spec == Init /\ [][Next]_vars

\* Handlers run, the mutex is starvation free, OpenWorkspace returns (nothing
\* bounds it) and the goroutine that waits for sshd is scheduled.
Fairness ==
  /\ \A c \in Callers : SF_vars(HandlerStep(c))
  /\ WF_vars(SshdCollected)

FairSpec == Spec /\ Fairness

-------------------------------------------------------------------------------
(* Properties *)

HandlerSteps == {"idle", "check", "lock", "owned", "open", "claim", "seal", "start",
                 "await", "hostkey", "watch"}

\* Every variable has its shape.
TypeOK ==
  /\ diskKey \in Keys \cup {NoKey} /\ opened \in Keys \cup {NoKey}
  /\ seals \in Seq(Keys)
  /\ aud \in [Permits -> 0..MaxBoots] /\ expired \subseteq Permits
  /\ boot \in 1..MaxBoots /\ alive \in BOOLEAN
  /\ enrolling \in Callers \cup {Nobody} /\ owner \in Callers \cup {Nobody}
  /\ listening \in BOOLEAN /\ watched \in BOOLEAN
  /\ authorized \in Callers \cup {Nobody, Torn} /\ hostKey \in BOOLEAN
  /\ sshd \in {"none", "running", "dead"}
  /\ pc \in [Callers -> HandlerSteps]
  /\ permit \in [Callers -> Permits \cup {NoPermit}]
  /\ vkey \in [Callers -> Keys \cup {NoKey}]
  /\ status \in [Callers -> {0, 204, 400, 403, 409, 503}]
  /\ opener \in Callers \cup {Nobody} /\ spent \in Permits \cup {NoPermit}

\* "Ownership remains claimed if sshd fails; a retry cannot replace it": within a
\* boot the owner never changes, through failures of sshd, retries, replays and
\* the death of the process.
OneOwnerPerBoot == [][owner # Nobody => owner' = owner \/ boot' # boot]_vars

\* "A failed unlock leaves ownership unclaimed", and the workspace one caller's
\* key opened never serves another caller: the owner is the caller whose request
\* opened it, and an open workspace has its owner as soon as the request goes on.
OwnerOpenedWorkspace ==
  /\ owner # Nobody => opened # NoKey /\ opener = owner
  /\ opened # NoKey /\ owner = Nobody => ~alive \/ pc[opener] = "claim"

\* The sealed file and the daemon follow the owner: what is sealed is the owner's
\* key, a daemon runs only behind a complete file and an open workspace, and a
\* listener is announced only once the host key has left the disk.
SealedToOwner ==
  /\ authorized \in Callers => authorized = owner
  /\ sshd = "running" => authorized = owner /\ opened # NoKey
  /\ listening => ~hostKey /\ owner # Nobody

\* "The right to name the public key that owns this sandbox" is bound to a boot
\* and bought once: the permit spent names this boot, and at most one caller was
\* told 204, the owner.
PermitSpentOnce ==
  /\ owner # Nobody => aud[spent] = boot
  /\ \A c \in Callers : status[c] = 204 => owner = c

\* The register of a boot is extended with at most one key, the one that opened
\* the workspace of the caller that owns it.
SealedOnce == Len(seals) <= 1 /\ \A i \in DOMAIN seals : seals[i] = opened

\* No request hangs on the mutex of one that failed.
RequestsAnswered == \A c \in Callers : (pc[c] # "idle") ~> (pc[c] = "idle")

\* A daemon that died is not announced for ever, although it may die between
\* awaitListening and the goroutine that waits for it.
DoorReportedClosed == (sshd = "dead") ~> ~listening
===============================================================================
