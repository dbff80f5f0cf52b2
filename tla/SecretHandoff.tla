---------------------------- MODULE SecretHandoff ----------------------------
(***************************************************************************)
(* How secrets reach the workload (boot/config.go, boot/secrets.go,        *)
(* boot/keyserver.go, internal/secretstore, cmd/containers/main.go run).   *)
(* tinfoil-boot reads the measured and the host's configuration from their *)
(* disks, resolves every declared secret from one source, writes the       *)
(* workload's into a memfd that PID 1 made, and seals it.  Every instance  *)
(* of the container manager inherits the same open file, with its one      *)
(* offset, reads it, and may be killed and replaced at any point.  The     *)
(* host may rewrite the configuration disk whenever it likes.              *)
(***************************************************************************)
EXTENDS Integers, FiniteSets, Sequences

CONSTANTS
  Names,       \* secret names
  Undeclared,  \* a name outside the configuration that an answer may hold
  Configs,     \* measured configurations: keyserver, debug, workload, volumes, models
  Chunks       \* reads and writes it takes to pass the payload

ASSUME HandoffAssumption == Undeclared \notin Names /\ Chunks \in Nat \ {0}

\* A model of the configuration: one reference of some kind with its root hash and
\* the offset of its hash tree, and the secret its key is under, if any.
ModelSpec ==
  [kind : {"none", "mpk", "mwp", "emwp"}, root : STRING, keySecret : Names \cup {""},
   repo : BOOLEAN, offset : Nat, isolated : BOOLEAN]

ASSUME ConfigAssumption ==
  Configs \subseteq [keyserver : BOOLEAN, debug : BOOLEAN, workload : SUBSET Names,
                     volumes : SUBSET Names, models : Seq(ModelSpec)]

VARIABLES
  config,    \* the configuration that the kernel command line's hash names
  confDisk,  \* the configuration disk: measured or other
  confFile,  \* its copy on the ramdisk
  host,      \* the host's secrets in the external configuration file
  ext,       \* the secrets of boot's external configuration in memory
  nonce,     \* the keyserver's challenge and what the document is bound to
  file,      \* the memfd: chunks written, offset, seals
  store,     \* the secrets the payload holds
  pos,       \* position of boot
  mgr        \* the running container manager: position, chunks read, secrets

confVars == <<config, confDisk, confFile, host>>
fetchVars == <<ext, nonce>>
handVars == <<file, store>>
secretVars == <<confVars, fetchVars, handVars, pos, mgr>>

Values == {"", "null", "host", "keyserver"}
NoManager == [pc |-> "off", data |-> <<>>, use |-> <<>>]

\* NewHandoffFile: PID 1 makes the memfd empty and unsealed.
HandoffInit ==
  /\ config \in Configs /\ confDisk \in {"measured", "other"} /\ confFile = "none"
  /\ host = [n \in Names |-> ""] /\ ext = host
  /\ nonce = [challenge |-> "none", document |-> "none"]
  /\ file = [len |-> 0, off |-> 0, sealed |-> FALSE] /\ store = <<>>
  /\ pos = "config" /\ mgr = NoManager

GetSecret(e, n) == IF e[n] = "null" THEN "" ELSE e[n]

WorkloadReferences == config.workload
AllReferences ==
  config.workload \cup config.volumes
  \cup {config.models[i].keySecret : i \in {j \in DOMAIN config.models : config.models[j].keySecret # ""}}
MissingReferences == {n \in AllReferences : GetSecret(ext, n) = ""}
WorkloadStore == [n \in WorkloadReferences |-> GetSecret(ext, n)]

BootAt(from, to) == pos = from /\ pos' = to
BootFails(at) ==
  /\ BootAt(at, "failed") /\ UNCHANGED <<confVars, fetchVars, handVars, mgr>>

-------------------------------------------------------------------------------
(* The two configuration disks (boot/config.go) *)

HostRewrites ==
  /\ confDisk' \in {"measured", "other"} \ {confDisk}
  /\ UNCHANGED <<config, confFile, host, fetchVars, handVars, pos, mgr>>

\* The bytes read are hashed, compared, written down and decoded: the disk is
\* not read again.
loadAndVerifyConfig ==
  /\ pos = "config"
  /\ \/ confDisk = "measured" /\ pos' = "external" /\ confFile' = confDisk
     \/ confDisk # "measured" /\ pos' = "failed" /\ UNCHANGED confFile
  /\ UNCHANGED <<config, confDisk, host, fetchVars, handVars, mgr>>

\* The host's values, whatever they are, are written down and read from there.
loadExternalConfig ==
  /\ BootAt("external", "resolve")
  /\ host' \in [Names -> {"", "null", "host"}] /\ ext' = host'
  /\ UNCHANGED <<config, confDisk, confFile, nonce, handVars, mgr>>

-------------------------------------------------------------------------------
(* prepareSecretHandoff *)

UsesKeyserver == config.keyserver /\ ~config.debug

\* Mutant of prepareSecretHandoff: what the host supplied is not asked for.
prepareSecretHandoffMerged ==
  /\ pos = "resolve"
  /\ pos' = IF UsesKeyserver /\ MissingReferences # {} THEN "collateral" ELSE "handoff"
  /\ UNCHANGED <<confVars, fetchVars, handVars, mgr>>

prepareSecretHandoff ==
  /\ pos = "resolve"
  /\ pos' = CASE ~UsesKeyserver -> "handoff"
              [] UsesKeyserver /\ MissingReferences # AllReferences -> "failed"
              [] UsesKeyserver /\ AllReferences = {} -> "handoff"
              [] OTHER -> "collateral"
  /\ UNCHANGED <<confVars, fetchVars, handVars, mgr>>

\* The collateral is fetched before the short-lived challenge.
prefetchKeyserverCollateral ==
  /\ BootAt("collateral", "challenge") /\ UNCHANGED <<confVars, fetchVars, handVars, mgr>>

keyserverChallenge ==
  /\ BootAt("challenge", "document") /\ nonce' = [nonce EXCEPT !.challenge = "live"]
  /\ UNCHANGED <<confVars, ext, handVars, mgr>>

\* Device evidence and document, over the nonce.
BuildAttestation ==
  /\ BootAt("document", "fetch") /\ nonce' = [nonce EXCEPT !.document = "challenge"]
  /\ UNCHANGED <<confVars, ext, handVars, mgr>>

\* The keyserver forgets a challenge after a while.
ChallengeExpires ==
  /\ nonce.challenge = "live" /\ nonce' = [nonce EXCEPT !.challenge = "expired"]
  /\ UNCHANGED <<confVars, ext, handVars, pos, mgr>>

\* What the keyserver may answer.
Answers == UNION {[S -> {"", "null", "keyserver"}] : S \in SUBSET (Names \cup {Undeclared})}

\* As many as declared, every declared name, none of them empty.
mergeKeyserverSecrets(a) ==
  /\ Cardinality(DOMAIN a) = Cardinality(AllReferences)
  /\ \A n \in AllReferences : n \in DOMAIN a /\ a[n] \notin {"", "null"}
  /\ ext' = [n \in Names |-> IF n \in DOMAIN a THEN a[n] ELSE ext[n]]

keyserverFetch ==
  /\ BootAt("fetch", "handoff") /\ nonce = [challenge |-> "live", document |-> "challenge"]
  /\ \E a \in Answers : mergeKeyserverSecrets(a)
  /\ UNCHANGED <<confVars, nonce, handVars, mgr>>

\* Nothing declared may be missing; the payload is encoded and the file cleared.
EncodeHandoff ==
  /\ pos = "handoff" /\ MissingReferences = {}
  /\ pos' = "write" /\ store' = WorkloadStore
  /\ file' = [file EXCEPT !.len = 0, !.off = 0]
  /\ UNCHANGED <<confVars, fetchVars, mgr>>

\* A write is whole, or an error.
WriteHandoff ==
  /\ pos = "write"
  /\ \E k \in 0..Chunks :
       /\ file' = [file EXCEPT !.len = k, !.off = k]
       /\ pos' = IF k = Chunks THEN "seal" ELSE "failed"
  /\ UNCHANGED <<confVars, fetchVars, store, mgr>>

SealHandoff ==
  /\ BootAt("seal", "models") /\ file' = [file EXCEPT !.sealed = TRUE]
  /\ UNCHANGED <<confVars, fetchVars, store, mgr>>

SecretStep ==
  \/ HostRewrites \/ loadAndVerifyConfig \/ loadExternalConfig
  \/ prepareSecretHandoff \/ prefetchKeyserverCollateral \/ keyserverChallenge \/ BuildAttestation
  \/ ChallengeExpires \/ keyserverFetch
  \/ EncodeHandoff \/ WriteHandoff \/ SealHandoff
  \/ \E at \in {"config", "external", "collateral", "challenge", "document", "fetch", "handoff", "write", "seal"} :
        BootFails(at)

-------------------------------------------------------------------------------
(* The container manager (cmd/containers/main.go) *)

Manager(m) == mgr' = m /\ UNCHANGED <<confVars, fetchVars, store, pos>>

\* PID 1 starts the manager after boot has succeeded, and the supervisor starts
\* another when it ended; it ends on its own or by a signal, at any time.
StartManager == pos = "booted" /\ mgr.pc = "off" /\ Manager([NoManager EXCEPT !.pc = "seek"]) /\ UNCHANGED file
ManagerEnds  == mgr.pc # "off" /\ Manager(NoManager) /\ UNCHANGED file

\* Mutant of SeekHandoff: the reader goes on where the offset is.
SeekHandoffNot ==
  /\ mgr.pc = "seek" /\ Manager([mgr EXCEPT !.pc = IF file.sealed THEN "read" ELSE "refused"])
  /\ UNCHANGED file

\* The seals are looked at, then the shared offset goes back to the start.
SeekHandoff ==
  /\ mgr.pc = "seek"
  /\ IF file.sealed
     THEN Manager([mgr EXCEPT !.pc = "read"]) /\ file' = [file EXCEPT !.off = 0]
     ELSE Manager([mgr EXCEPT !.pc = "refused"]) /\ UNCHANGED file

ReadChunk ==
  /\ mgr.pc = "read" /\ file.off < file.len
  /\ Manager([mgr EXCEPT !.data = Append(@, file.off + 1)])
  /\ file' = [file EXCEPT !.off = @ + 1]

\* Debug boots take what the host's file holds instead.
HostStore == [n \in {m \in Names : GetSecret(host, m) # ""} |-> GetSecret(host, n)]

\* At the end of the file the payload must decode, carry the digest of the
\* configuration on the ramdisk, and name exactly its secrets, none empty.
ReadHandoff ==
  /\ mgr.pc = "read" /\ file.off >= file.len
  /\ IF /\ mgr.data = [i \in 1..Chunks |-> i] /\ confFile = "measured"
        /\ DOMAIN store = WorkloadReferences
        /\ \A n \in DOMAIN store : store[n] \notin {"", "null"}
     THEN Manager([mgr EXCEPT !.pc = "up", !.use = IF config.debug THEN HostStore ELSE store])
     ELSE Manager([mgr EXCEPT !.pc = "refused"])
  /\ UNCHANGED file

ManagerStep == StartManager \/ ManagerEnds \/ SeekHandoff \/ ReadChunk \/ ReadHandoff

-------------------------------------------------------------------------------
(* Properties *)

\* The one source that the configuration permits.
PermittedSource == IF UsesKeyserver THEN "keyserver" ELSE "host"

\* Every instance of the manager, the first and each that replaces one killed
\* halfway through reading, accepts the handoff and has what boot resolved: the
\* shared offset of the memfd, a write cut short and the seals are never in the
\* way (internal/secretstore/handoff.go ReadHandoff).
ReadersAgree ==
  /\ mgr.pc # "refused"
  /\ file.sealed => file.len = Chunks /\ MissingReferences = {}
  /\ mgr.pc = "up" => WorkloadReferences \subseteq DOMAIN mgr.use

=============================================================================
