-------------------------- MODULE ModelPacks_proofs --------------------------
(***************************************************************************)
(* Proofs about SecretHandoff and ModelPacks, for every configuration. The *)
(* invariant has two parts. SecretInv says whose the secrets in boot's     *)
(* memory are, what the memfd holds at each position of boot and what an   *)
(* instance of the manager has read of it. PackInv says the same of the    *)
(* device mapper: the models before the one in work are open and mounted,  *)
(* the one in work has what its position says, and as long as no undo step *)
(* failed there is nothing else. SecretInv is inductive by itself; PackInv *)
(* rests on it where the key of a dm-crypt table is taken.                 *)
(***************************************************************************)
EXTENDS ModelPacks, FiniteSetTheorems, TLAPS

\* Boot's positions in order, those after the secrets are resolved, and those
\* after the payload is encoded.
Resolved == {"handoff", "write", "seal", "models", "booted"}
Encoded  == {"write", "seal", "models", "booted"}
Fetching == {"collateral", "challenge", "document", "fetch"}

\* Past its first stage boot has the measured configuration on the ramdisk.
ConfigInv ==
  /\ config \in Configs
  /\ confFile \in {"none", "measured"}
  /\ pos \in {"config", "external", "resolve", "failed"} \cup Fetching \cup Resolved
  /\ pos \notin {"config", "failed"} => confFile = "measured"

\* Whose the secrets in memory are.
SourceInv ==
  /\ host \in [Names -> {"", "null", "host"}]
  /\ ext \in [Names -> Values]
  /\ pos \in Fetching => UsesKeyserver
  /\ ~UsesKeyserver => ext = host
  /\ pos \in Resolved /\ UsesKeyserver => \A n \in AllReferences : GetSecret(ext, n) = "keyserver"

\* What the memfd holds.
FileInv ==
  /\ file = [len |-> file.len, off |-> file.off, sealed |-> file.sealed]
  /\ file.sealed \in BOOLEAN /\ file.len \in 0..Chunks /\ file.off \in 0..Chunks
  /\ pos \in Encoded => MissingReferences = {} /\ store = WorkloadStore
  /\ pos \in {"seal", "models", "booted"} => file.len = Chunks
  /\ file.sealed => pos \in {"models", "booted", "failed"} /\ file.len = Chunks /\ MissingReferences = {}
  /\ pos \in {"models", "booted"} => file.sealed

\* What an instance of the manager has read.
ManagerInv ==
  /\ mgr = [pc |-> mgr.pc, data |-> mgr.data, use |-> mgr.use]
  /\ mgr.pc \in {"off", "seek", "read", "up"}
  /\ mgr.pc # "off" => pos = "booted"
  /\ mgr.data \in Seq(Nat) /\ \A i \in 1..Len(mgr.data) : mgr.data[i] = i
  /\ mgr.pc = "seek" => Len(mgr.data) = 0
  /\ mgr.pc = "read" => Len(mgr.data) = file.off
  /\ mgr.use = IF mgr.pc # "up" THEN <<>> ELSE IF config.debug THEN HostStore ELSE store

\* The inductive invariant of the secrets.
SecretInv == ConfigInv /\ SourceInv /\ FileInv /\ ManagerInv

\* A configuration has its shape, and its references are names of secrets.
LEMMA ConfigFacts ==
  ASSUME config \in Configs
  PROVE  /\ config.workload \subseteq Names /\ config.models \in Seq(ModelSpec)
         /\ config.debug \in BOOLEAN
         /\ AllReferences \subseteq Names /\ WorkloadReferences \subseteq AllReferences
         /\ \A i \in DOMAIN config.models : config.models[i].keySecret \in AllReferences \cup {""}
<1>1. config \in [keyserver : BOOLEAN, debug : BOOLEAN, workload : SUBSET Names,
                  volumes : SUBSET Names, models : Seq(ModelSpec)]
  BY ConfigAssumption
<1>2. \A i \in DOMAIN config.models : config.models[i] \in ModelSpec
  BY <1>1
<1>3. \A i \in DOMAIN config.models : config.models[i].keySecret \in Names \cup {""}
  BY <1>2 DEF ModelSpec
<1> QED BY <1>1, <1>3 DEF AllReferences, WorkloadReferences

\* What is derived from variables that stay, stays.
LEMMA SameReferences ==
  ASSUME UNCHANGED config
  PROVE  /\ AllReferences' = AllReferences /\ WorkloadReferences' = WorkloadReferences
         /\ UsesKeyserver' = UsesKeyserver /\ PermittedSource' = PermittedSource
BY DEF AllReferences, WorkloadReferences, UsesKeyserver, PermittedSource

\* So does what is missing and what the two stores hold.
LEMMA SameSecrets ==
  ASSUME UNCHANGED <<config, ext, host>>
  PROVE  /\ MissingReferences' = MissingReferences /\ WorkloadStore' = WorkloadStore
         /\ HostStore' = HostStore
BY DEF MissingReferences, WorkloadStore, HostStore, AllReferences, WorkloadReferences, GetSecret

\* Secrets that stay are still whose they were.
LEMMA SourceStays ==
  ASSUME SourceInv, UNCHANGED <<config, ext, host>>, pos' \in Fetching => UsesKeyserver,
         pos' \in Resolved /\ UsesKeyserver =>
           \A n \in AllReferences : GetSecret(ext, n) = "keyserver"
  PROVE  SourceInv'
<1>1. AllReferences' = AllReferences /\ UsesKeyserver' = UsesKeyserver  BY SameReferences
<1>2. \A n : GetSecret(ext', n) = GetSecret(ext, n)  BY DEF GetSecret
<1>3. /\ host' \in [Names -> {"", "null", "host"}] /\ ext' \in [Names -> Values]
      /\ ~UsesKeyserver => ext' = host'
  BY DEF SourceInv
<1> QED BY <1>1, <1>2, <1>3 DEF SourceInv

\* A step of boot that leaves secrets, file and manager alone and goes on to a
\* place that wants nothing new of them, or fails.
LEMMA BootGoesOn ==
  ASSUME SecretInv, UNCHANGED <<config, confFile, host, ext, file, store, mgr>>,
         \/ pos' = pos
         \/ pos # "booted" /\ pos' = "failed"
         \/ pos = "models" /\ pos' = "booted"
         \/ pos = "resolve" /\ pos' \in {"collateral", "handoff"}
            /\ (pos' = "collateral" => UsesKeyserver)
            /\ (pos' = "handoff" => ~UsesKeyserver \/ AllReferences = {})
         \/ pos \in Fetching /\ pos' \in Fetching
  PROVE  SecretInv'
<1> USE SameReferences, SameSecrets DEF SecretInv
<1>1. ConfigInv'  BY DEF ConfigInv, Fetching, Resolved
<1>2. SourceInv'
  <2>1. pos' \in Fetching => UsesKeyserver  BY DEF SourceInv, Fetching
  <2>2. pos' \in Resolved /\ UsesKeyserver =>
          \A n \in AllReferences : GetSecret(ext, n) = "keyserver"
    BY DEF SourceInv, Fetching, Resolved
  <2> QED BY <2>1, <2>2, SourceStays
<1>3. FileInv'  BY DEF FileInv, Fetching, Encoded
<1>4. ManagerInv'  BY DEF ManagerInv, Fetching
<1> QED BY <1>1, <1>2, <1>3, <1>4

\* Reading the configuration disks.
LEMMA ConfigKeeps ==
  ASSUME SecretInv, loadAndVerifyConfig \/ loadExternalConfig \/ HostRewrites
  PROVE  SecretInv'
<1> USE DEF confVars, fetchVars, handVars, SecretInv
<1>1. CASE HostRewrites
  BY <1>1, BootGoesOn DEF HostRewrites
<1>2. CASE loadAndVerifyConfig
  <2>1. UNCHANGED <<config, host, ext, file, store, mgr>> /\ pos = "config"
        /\ \/ pos' = "external" /\ confFile' = "measured"
           \/ pos' = "failed" /\ confFile' = confFile
    BY <1>2 DEF loadAndVerifyConfig
  <2>2. ConfigInv'  BY <2>1 DEF ConfigInv
  <2>3. SourceInv'  BY <2>1, SameReferences DEF SourceInv, Fetching, Resolved
  <2>4. FileInv'  BY <2>1, SameSecrets DEF FileInv, Encoded
  <2>5. ManagerInv'  BY <2>1, SameSecrets DEF ManagerInv
  <2> QED BY <2>2, <2>3, <2>4, <2>5
<1>3. CASE loadExternalConfig
  <2>1. /\ UNCHANGED <<config, confFile, file, store, mgr>> /\ pos = "external" /\ pos' = "resolve"
        /\ host' \in [Names -> {"", "null", "host"}] /\ ext' = host'
    BY <1>3 DEF loadExternalConfig, BootAt
  <2>2. ConfigInv'  BY <2>1 DEF ConfigInv
  <2>3. SourceInv'  BY <2>1 DEF SourceInv, Fetching, Resolved, Values
  <2>4. FileInv'  BY <2>1 DEF FileInv, Encoded
  <2>5. ManagerInv'  BY <2>1 DEF ManagerInv
  <2> QED BY <2>2, <2>3, <2>4, <2>5
<1> QED BY <1>1, <1>2, <1>3

\* The keyserver's answer fills every reference with a value of its own.
LEMMA FetchKeeps == ASSUME SecretInv, keyserverFetch PROVE SecretInv'
<1> USE DEF confVars, handVars, SecretInv
<1>1. UNCHANGED <<config, confFile, host, file, store, mgr>> /\ pos = "fetch" /\ pos' = "handoff"
  BY DEF keyserverFetch, BootAt
<1>2. PICK a \in Answers : mergeKeyserverSecrets(a)
  BY DEF keyserverFetch
<1>3. PICK S \in SUBSET (Names \cup {Undeclared}) : a \in [S -> {"", "null", "keyserver"}]
  BY <1>2 DEF Answers
<1>4. ext' = [n \in Names |-> IF n \in S THEN a[n] ELSE ext[n]]
  BY <1>2, <1>3 DEF mergeKeyserverSecrets
<1>5. ext' \in [Names -> Values]
  <2>1. \A n \in Names : (IF n \in S THEN a[n] ELSE ext[n]) \in Values
    BY <1>3 DEF SourceInv, Values
  <2> QED BY <1>4, <2>1
<1>6. \A n \in AllReferences : n \in Names /\ ext'[n] = "keyserver"
  <2>1. \A n \in AllReferences : n \in S /\ a[n] = "keyserver"
    BY <1>2, <1>3 DEF mergeKeyserverSecrets
  <2>2. AllReferences \subseteq Names  BY ConfigFacts DEF ConfigInv
  <2> QED BY <1>4, <2>1, <2>2
<1>7. UsesKeyserver  BY <1>1 DEF SourceInv, Fetching
<1>8. ConfigInv'  BY <1>1 DEF ConfigInv, Resolved, Fetching
<1>9. SourceInv'
  BY <1>1, <1>5, <1>6, <1>7, SameReferences DEF SourceInv, Fetching, GetSecret
<1>10. FileInv'  BY <1>1 DEF FileInv, Encoded
<1>11. ManagerInv'  BY <1>1 DEF ManagerInv
<1> QED BY <1>8, <1>9, <1>10, <1>11

\* The payload is encoded, written and sealed.
LEMMA HandoffKeeps ==
  ASSUME SecretInv, EncodeHandoff \/ WriteHandoff \/ SealHandoff PROVE SecretInv'
<1> USE HandoffAssumption DEF confVars, fetchVars, SecretInv
<1>0. UNCHANGED <<config, confFile, host, ext, mgr>>
  BY DEF EncodeHandoff, WriteHandoff, SealHandoff
<1>1. pos \in {"handoff", "write", "seal"} /\ pos' \in {"write", "seal", "models", "failed"}
  BY DEF EncodeHandoff, WriteHandoff, SealHandoff, BootAt
<1>2. ConfigInv'  BY <1>0, <1>1 DEF ConfigInv, Resolved
<1>3. SourceInv'
  <2>1. pos' \notin Fetching /\ pos \in Resolved  BY <1>1 DEF Fetching, Resolved
  <2>2. UsesKeyserver => \A n \in AllReferences : GetSecret(ext, n) = "keyserver"
    BY <2>1 DEF SourceInv
  <2> QED BY <1>0, <2>1, <2>2, SourceStays
<1>4. ManagerInv'
  <2>1. mgr.pc = "off"  BY <1>1 DEF ManagerInv
  <2> QED BY <1>0, <2>1 DEF ManagerInv
<1>5. FileInv'
  <2>1. CASE EncodeHandoff
    <3>1. /\ file' = [file EXCEPT !.len = 0, !.off = 0] /\ pos = "handoff" /\ pos' = "write"
          /\ store' = WorkloadStore /\ MissingReferences = {}
      BY <2>1 DEF EncodeHandoff
    <3>2. file'.len = 0 /\ file'.off = 0 /\ file'.sealed = file.sealed
          /\ file' = [len |-> 0, off |-> 0, sealed |-> file.sealed]
      BY <3>1 DEF FileInv
    <3>3. ~file.sealed /\ file.sealed \in BOOLEAN /\ 0 \in 0..Chunks  BY <3>1 DEF FileInv
    <3>4. MissingReferences' = {} /\ store' = WorkloadStore'  BY <1>0, <3>1, SameSecrets
    <3> QED BY <3>1, <3>2, <3>3, <3>4 DEF FileInv
  <2>2. CASE WriteHandoff
    <3>1. PICK k \in 0..Chunks : file' = [file EXCEPT !.len = k, !.off = k]
             /\ pos' = IF k = Chunks THEN "seal" ELSE "failed"
      BY <2>2 DEF WriteHandoff
    <3>2. file'.len = k /\ file'.off = k /\ file'.sealed = file.sealed
          /\ file' = [len |-> k, off |-> k, sealed |-> file.sealed]
      BY <3>1 DEF FileInv
    <3>3. pos = "write" /\ UNCHANGED store  BY <2>2 DEF WriteHandoff
    <3> QED BY <1>0, <3>1, <3>2, <3>3, SameSecrets DEF FileInv, Encoded
  <2>3. CASE SealHandoff
    <3>1. file' = [file EXCEPT !.sealed = TRUE] /\ pos = "seal" /\ pos' = "models" /\ UNCHANGED store
      BY <2>3 DEF SealHandoff, BootAt
    <3>2. file'.len = file.len /\ file'.off = file.off /\ file'.sealed = TRUE
          /\ file' = [len |-> file.len, off |-> file.off, sealed |-> TRUE]
      BY <3>1 DEF FileInv
    <3> QED BY <1>0, <3>1, <3>2, SameSecrets DEF FileInv, Encoded
  <2> QED BY <2>1, <2>2, <2>3
<1> QED BY <1>2, <1>3, <1>4, <1>5

\* Every step up to the models.
LEMMA SecretStepKeeps == ASSUME SecretInv, SecretStep PROVE SecretInv'
<1> USE DEF confVars, fetchVars, handVars
<1>1. CASE prepareSecretHandoff
  <2>1. UNCHANGED <<config, confFile, host, ext, file, store, mgr>> /\ pos = "resolve"
    BY <1>1 DEF prepareSecretHandoff
  <2>2. \/ pos' = "failed"
        \/ pos' = "handoff" /\ (~UsesKeyserver \/ AllReferences = {})
        \/ pos' = "collateral" /\ UsesKeyserver
    BY <1>1 DEF prepareSecretHandoff
  <2> QED BY <2>1, <2>2, BootGoesOn
<1>2. CASE prefetchKeyserverCollateral \/ keyserverChallenge \/ BuildAttestation \/ ChallengeExpires
  <2>1. UNCHANGED <<config, confFile, host, ext, file, store, mgr>>
    BY <1>2 DEF prefetchKeyserverCollateral, keyserverChallenge, BuildAttestation, ChallengeExpires
  <2>2. pos' = pos \/ (pos \in Fetching /\ pos' \in Fetching)
    BY <1>2 DEF prefetchKeyserverCollateral, keyserverChallenge, BuildAttestation,
       ChallengeExpires, BootAt, Fetching
  <2> QED BY <2>1, <2>2, BootGoesOn
<1>3. ASSUME NEW at \in {"config", "external", "collateral", "challenge", "document", "fetch",
                         "handoff", "write", "seal"}, BootFails(at)
      PROVE  SecretInv'
  BY <1>3, BootGoesOn DEF BootFails, BootAt
<1> QED BY <1>1, <1>2, <1>3, ConfigKeeps, FetchKeeps, HandoffKeeps DEF SecretStep

\* What reached the handoff is whole and has a value for every reference, so that
\* a reader that has read it all accepts it.
LEMMA StoreFacts ==
  ASSUME SecretInv, pos \in Encoded
  PROVE  /\ DOMAIN store = WorkloadReferences
         /\ \A n \in AllReferences : GetSecret(ext, n) = PermittedSource
         /\ \A n \in DOMAIN store : store[n] = PermittedSource
         /\ PermittedSource \in {"host", "keyserver"}
<1> USE DEF SecretInv
<1>1. MissingReferences = {} /\ store = WorkloadStore  BY DEF FileInv
<1>2. AllReferences \subseteq Names /\ WorkloadReferences \subseteq AllReferences
  BY ConfigFacts DEF ConfigInv
<1>3. ASSUME NEW n \in AllReferences PROVE GetSecret(ext, n) = PermittedSource
  <2>1. GetSecret(ext, n) # ""  BY <1>1 DEF MissingReferences
  <2>2. CASE UsesKeyserver
    BY <2>2 DEF SourceInv, Encoded, Resolved, PermittedSource
  <2>3. CASE ~UsesKeyserver
    <3>1. ext[n] \in {"", "null", "host"}  BY <1>2, <2>3 DEF SourceInv
    <3> QED BY <2>1, <2>3, <3>1 DEF GetSecret, PermittedSource
  <2> QED BY <2>2, <2>3
<1>4. \A n \in WorkloadReferences : store[n] = GetSecret(ext, n)
  BY <1>1 DEF WorkloadStore
<1> QED BY <1>1, <1>2, <1>3, <1>4 DEF WorkloadStore, PermittedSource

\* The instances of the manager.
LEMMA ManagerKeeps == ASSUME SecretInv, ManagerStep PROVE SecretInv'
<1> USE DEF confVars, fetchVars, SecretInv, Manager
<1>0. UNCHANGED <<config, confFile, host, ext, store, pos>>
  BY DEF ManagerStep, StartManager, ManagerEnds, SeekHandoff, ReadChunk, ReadHandoff
<1>1. ConfigInv' /\ SourceInv'
  <2>1. ConfigInv'  BY <1>0 DEF ConfigInv
  <2>2. /\ pos' \in Fetching => UsesKeyserver
        /\ pos' \in Resolved /\ UsesKeyserver =>
             \A n \in AllReferences : GetSecret(ext, n) = "keyserver"
    BY <1>0 DEF SourceInv
  <2>3. SourceInv'  BY <1>0, <2>2, SourceStays
  <2> QED BY <2>1, <2>3
<1>2. CASE StartManager \/ ManagerEnds
  <2>1. UNCHANGED file  BY <1>2 DEF StartManager, ManagerEnds
  <2>2. PICK c \in {"off", "seek"} : mgr' = [pc |-> c, data |-> <<>>, use |-> <<>>]
                                      /\ (c = "seek" => pos = "booted")
    BY <1>2 DEF StartManager, ManagerEnds, NoManager
  <2>3. mgr'.pc = c /\ mgr'.data = <<>> /\ mgr'.use = <<>>  BY <2>2
  <2>4. FileInv'  BY <1>0, <2>1, SameSecrets DEF FileInv
  <2>5. ManagerInv'  BY <1>0, <2>1, <2>2, <2>3 DEF ManagerInv
  <2> QED BY <1>1, <2>4, <2>5
<1>3. CASE SeekHandoff
  <2>1. mgr.pc = "seek" /\ pos = "booted" /\ file.sealed
    BY <1>3 DEF SeekHandoff, ManagerInv, FileInv
  <2>2. mgr' = [mgr EXCEPT !.pc = "read"] /\ file' = [file EXCEPT !.off = 0]
    BY <1>3, <2>1 DEF SeekHandoff
  <2>3. mgr'.pc = "read" /\ mgr'.data = mgr.data /\ mgr'.use = mgr.use
        /\ mgr' = [pc |-> "read", data |-> mgr.data, use |-> mgr.use]
    BY <2>2 DEF ManagerInv
  <2>4. file'.len = file.len /\ file'.off = 0 /\ file'.sealed = file.sealed
        /\ file' = [len |-> file.len, off |-> 0, sealed |-> file.sealed]
    BY <2>2 DEF FileInv
  <2>5. FileInv'  BY <1>0, <2>4, SameSecrets, HandoffAssumption DEF FileInv
  <2>6. ManagerInv'  BY <1>0, <2>1, <2>3, <2>4 DEF ManagerInv
  <2> QED BY <1>1, <2>5, <2>6
<1>4. CASE ReadChunk
  <2>1. /\ mgr.pc = "read" /\ file.off < file.len
        /\ mgr' = [mgr EXCEPT !.data = Append(mgr.data, file.off + 1)]
        /\ file' = [file EXCEPT !.off = file.off + 1]
    BY <1>4 DEF ReadChunk
  <2>2. mgr'.pc = "read" /\ mgr'.data = Append(mgr.data, file.off + 1) /\ mgr'.use = mgr.use
        /\ mgr' = [pc |-> "read", data |-> Append(mgr.data, file.off + 1), use |-> mgr.use]
    BY <2>1 DEF ManagerInv
  <2>3. file'.len = file.len /\ file'.off = file.off + 1 /\ file'.sealed = file.sealed
        /\ file' = [len |-> file.len, off |-> file.off + 1, sealed |-> file.sealed]
    BY <2>1 DEF FileInv
  <2>4. file.off + 1 \in 0..Chunks  BY <2>1, HandoffAssumption DEF FileInv
  <2>5. FileInv'  BY <1>0, <2>3, <2>4, SameSecrets, HandoffAssumption DEF FileInv
  <2>6. /\ mgr'.data \in Seq(Nat) /\ Len(mgr'.data) = file.off + 1
        /\ \A i \in 1..Len(mgr'.data) : mgr'.data[i] = i
    <3>1. mgr.data \in Seq(Nat) /\ Len(mgr.data) = file.off /\ file.off \in Nat
          /\ \A i \in 1..Len(mgr.data) : mgr.data[i] = i
      BY <2>1, HandoffAssumption DEF ManagerInv, FileInv
    <3>2. /\ Append(mgr.data, file.off + 1) \in Seq(Nat)
          /\ Len(Append(mgr.data, file.off + 1)) = file.off + 1
          /\ \A i \in 1..file.off : Append(mgr.data, file.off + 1)[i] = mgr.data[i]
          /\ Append(mgr.data, file.off + 1)[file.off + 1] = file.off + 1
      BY <3>1
    <3>3. \A i \in 1..(file.off + 1) : i \in 1..file.off \/ i = file.off + 1
      BY <3>1
    <3> QED BY <2>2, <3>1, <3>2, <3>3
  <2>7. ManagerInv'  BY <1>0, <2>1, <2>2, <2>3, <2>6 DEF ManagerInv
  <2> QED BY <1>1, <2>5, <2>7
<1>5. CASE ReadHandoff
  <2>1. mgr.pc = "read" /\ file.off >= file.len /\ pos = "booted" /\ UNCHANGED file
    BY <1>5 DEF ReadHandoff, ManagerInv
  <2>2. file.len = Chunks /\ file.off = Chunks
    BY <2>1, HandoffAssumption DEF FileInv
  <2>3. mgr.data = [i \in 1..Chunks |-> i]
    <3>1. mgr.data \in Seq(Nat) /\ Len(mgr.data) = Chunks /\ \A i \in 1..Chunks : mgr.data[i] = i
      BY <2>1, <2>2 DEF ManagerInv
    <3> QED BY <3>1
  <2>4. confFile = "measured"  BY <2>1 DEF ConfigInv
  <2>5. DOMAIN store = WorkloadReferences /\ \A n \in DOMAIN store : store[n] \notin {"", "null"}
    BY <2>1, StoreFacts DEF Encoded
  <2>6. mgr' = [mgr EXCEPT !.pc = "up", !.use = IF config.debug THEN HostStore ELSE store]
    BY <1>5, <2>3, <2>4, <2>5 DEF ReadHandoff
  <2>7. mgr'.pc = "up" /\ mgr'.data = mgr.data
        /\ mgr'.use = (IF config.debug THEN HostStore ELSE store)
        /\ mgr' = [pc |-> "up", data |-> mgr.data, use |-> IF config.debug THEN HostStore ELSE store]
    BY <2>6 DEF ManagerInv
  <2>8. FileInv'  BY <1>0, <2>1, SameSecrets DEF FileInv
  <2>9. ManagerInv'  BY <1>0, <2>1, <2>7, SameSecrets DEF ManagerInv
  <2> QED BY <1>1, <2>8, <2>9
<1> QED BY <1>2, <1>3, <1>4, <1>5 DEF ManagerStep

\* The models' stage moves boot on, and leaves the secrets alone.
LEMMA PackLeavesSecrets ==
  ASSUME PackStep
  PROVE  /\ UNCHANGED <<config, confFile, host, ext, file, store, mgr>>
         /\ pos' = pos \/ (pos = "models" /\ pos' \in {"failed", "booted"})
<1> USE DEF confVars, fetchVars, handVars, Keep, On, Leave, FailTo, At
<1>1. CASE AttachDisk  BY <1>1 DEF AttachDisk, secretVars
<1>2. CASE PickModel \/ FindSource \/ createLegacyModelPackAlias \/ OpenLayer \/ CreateReadOnly
  BY <1>2 DEF PickModel, FindSource, createLegacyModelPackAlias, OpenLayer, CreateReadOnly
<1>3. CASE LoadReadOnlyTable \/ ResumeReadOnly \/ EnsureBlockNode \/ mountModel \/ StepFails
  BY <1>3 DEF LoadReadOnlyTable, ResumeReadOnly, EnsureBlockNode, mountModel, StepFails
<1>4. CASE Remove \/ removeLegacyModelPackAlias \/ ModelsDone
  BY <1>4 DEF Remove, removeLegacyModelPackAlias, ModelsDone
<1> QED BY <1>1, <1>2, <1>3, <1>4 DEF PackStep

\* Every step keeps what is known of the secrets.
LEMMA SecretKept == SecretInv /\ [Next]_vars => SecretInv'
<1> SUFFICES ASSUME SecretInv, [Next]_vars PROVE SecretInv'
  OBVIOUS
<1>1. CASE PackStep
  BY <1>1, PackLeavesSecrets, BootGoesOn
<1>2. CASE UNCHANGED vars
  BY <1>2, BootGoesOn DEF vars, secretVars, confVars, fetchVars, handVars
<1> QED BY <1>1, <1>2, SecretStepKeeps, ManagerKeeps DEF Next

\* It holds when boot begins.
LEMMA SecretInit == Init => SecretInv
<1> SUFFICES ASSUME Init PROVE SecretInv  OBVIOUS
<1> USE HandoffAssumption DEF Init, HandoffInit
<1>1. ConfigInv  BY DEF ConfigInv
<1>2. SourceInv  BY DEF SourceInv, Values, Fetching, Resolved
<1>3. file = [len |-> 0, off |-> 0, sealed |-> FALSE] /\ pos = "config"  OBVIOUS
<1>4. file.len = 0 /\ file.off = 0 /\ file.sealed = FALSE  BY ONLY <1>3
<1>5. 0 \in 0..Chunks  BY ONLY HandoffAssumption
<1>6. FileInv  BY ONLY <1>3, <1>4, <1>5 DEF FileInv, Encoded
<1>7. mgr = [pc |-> "off", data |-> <<>>, use |-> <<>>]  BY DEF NoManager
<1>8. mgr.pc = "off" /\ mgr.data = <<>> /\ mgr.use = <<>>  BY ONLY <1>7
<1>9. ManagerInv  BY ONLY <1>7, <1>8 DEF ManagerInv
<1> QED BY <1>1, <1>2, <1>6, <1>9 DEF SecretInv

\* What the manager uses is of the one source, and holds what the workload names.
LEMMA UseFacts ==
  ASSUME SecretInv
  PROVE  /\ \A n \in DOMAIN mgr.use : mgr.use[n] = PermittedSource
         /\ mgr.pc = "up" => WorkloadReferences \subseteq DOMAIN mgr.use
<1> USE DEF SecretInv
<1>1. CASE mgr.pc # "up"  BY <1>1 DEF ManagerInv
<1>2. CASE mgr.pc = "up" /\ ~config.debug
  <2>1. mgr.use = store /\ pos \in Encoded  BY <1>2 DEF ManagerInv, Encoded
  <2> QED BY <2>1, StoreFacts
<1>3. CASE mgr.pc = "up" /\ config.debug
  <2>1. mgr.use = HostStore /\ pos \in Encoded  BY <1>3 DEF ManagerInv, Encoded
  <2>2. PermittedSource = "host" /\ ext = host
    BY <1>3 DEF PermittedSource, UsesKeyserver, SourceInv
  <2>3. \A n \in DOMAIN HostStore : HostStore[n] = "host"
    <3>1. \A n \in Names : host[n] \in {"", "null", "host"}  BY DEF SourceInv
    <3> QED BY <3>1 DEF HostStore, GetSecret
  <2>4. \A n \in WorkloadReferences : n \in Names /\ GetSecret(host, n) # ""
    <3>1. AllReferences \subseteq Names /\ WorkloadReferences \subseteq AllReferences
      BY ConfigFacts DEF ConfigInv
    <3>2. \A n \in AllReferences : GetSecret(ext, n) = PermittedSource  BY <2>1, StoreFacts
    <3> QED BY <2>2, <3>1, <3>2
  <2>5. WorkloadReferences \subseteq DOMAIN HostStore  BY <2>4 DEF HostStore
  <2> QED BY <2>1, <2>2, <2>3, <2>5
<1> QED BY <1>1, <1>2, <1>3

\* Whatever the order in which boot, the keyserver and the killed and restarted
\* instances of the manager take their steps, and whatever the configuration, no
\* instance refuses the handoff and each has a value for every secret of the
\* workload (internal/secretstore/handoff.go).
THEOREM EveryReaderAgrees == Spec => []ReadersAgree
<1>1. SecretInv => ReadersAgree
  <2> SUFFICES ASSUME SecretInv PROVE ReadersAgree  OBVIOUS
  <2>1. mgr.pc # "refused"  BY DEF SecretInv, ManagerInv
  <2>2. file.sealed => file.len = Chunks /\ MissingReferences = {}  BY DEF SecretInv, FileInv
  <2> QED BY <2>1, <2>2, UseFacts DEF ReadersAgree
<1> QED BY <1>1, SecretInit, SecretKept, PTL DEF Spec

-------------------------------------------------------------------------------
(* The models *)

\* Of the model at place j: its slot, its disk, its mappings and its mount point.
IsEncrypted(j) == config.models[j].kind = "emwp"
Slot(j) == FirstSlot + j - 1
DiskFound(j) == Slot(j) \in DOMAIN slots /\ slots[Slot(j)].serial = j
Layer(layer, j) == <<layer, config.models[j].root>>
Layers(j) == {Layer("verity", j)} \cup (IF IsEncrypted(j) THEN {Layer("crypt", j)} ELSE {})
Target(j) == IF config.models[j].isolated THEN <<"private", j>> ELSE <<"mwp", config.models[j].root>>

\* A layer's table is the one that model j wants.
CryptFits(j, t) == t.over = <<"partition", Slot(j)>>
VerityFits(j, t) ==
  /\ t.over = IF IsEncrypted(j) THEN Layer("crypt", j) ELSE <<"disk", Slot(j)>>
  /\ t.root = config.models[j].root
  /\ t.blocks = config.models[j].offset \div BlockSize
  /\ t.hashStart = config.models[j].offset \div BlockSize + 1
  /\ t.len = config.models[j].offset \div SectorSize
Fits(layer, j, t) == IF layer = "crypt" THEN CryptFits(j, t) ELSE VerityFits(j, t)
OffsetFits(j) == config.models[j].offset > 0 /\ config.models[j].offset % BlockSize = 0

\* The models mounted so far, and their mappings.
Mounted == 1..(cur.i - 1)
Earlier == UNION {Layers(j) : j \in Mounted}

\* Where the stage is.
Opening == {"open", "create", "load", "resume", "node", "mount"}
CurInv ==
  /\ cur = [i |-> cur.i, at |-> cur.at, layer |-> cur.layer]
  /\ cur.i \in 1..(Len(config.models) + 1)
  /\ cur.at \in {"pick", "find", "alias", "undo"} \cup Opening
  /\ cur.layer \in {"alias", "crypt", "verity"}
  /\ cur.at # "pick" => cur.i <= Len(config.models)
  /\ cur.at \in Opening => cur.layer # "alias"
  /\ cur.layer = "crypt" => cur.at # "pick" /\ Encrypted
  /\ cur.at = "mount" => cur.layer = "verity"
  /\ cur.at = "alias" => ~Encrypted /\ ~Model.isolated
  /\ pos = "booted" => cur.i = Len(config.models) + 1
  /\ pos \notin {"models", "booted", "failed"} => cur.at = "pick" /\ ~stuck
  /\ pos = "models" /\ cur.at # "undo" => ~stuck

\* Root hashes are told apart.
Picked == IF cur.at = "pick" THEN Mounted ELSE 1..cur.i
SeenInv ==
  /\ \A j \in Picked : config.models[j].root \in seen
  /\ \A j, k \in Picked : config.models[j].root = config.models[k].root => j = k

\* Every entry of the device mapper is a table, and a loaded dm-crypt table has a
\* key of the permitted source.
TableInv ==
  /\ dm = [n \in DOMAIN dm |-> dm[n]]
  /\ \A n \in DOMAIN dm :
       dm[n] = [over |-> dm[n].over, root |-> dm[n].root, key |-> dm[n].key,
                active |-> dm[n].active, blocks |-> dm[n].blocks,
                hashStart |-> dm[n].hashStart, len |-> dm[n].len]
  /\ \A n \in DOMAIN dm : n[1] = "crypt" /\ dm[n].over[1] # "none" => dm[n].key = PermittedSource

\* A layer of model j has its table; it is open.
Up(layer, j) == Layer(layer, j) \in DOMAIN dm /\ Fits(layer, j, dm[Layer(layer, j)])
Open(layer, j) == Up(layer, j) /\ dm[Layer(layer, j)].active /\ Layer(layer, j) \in mnodes

\* The mounted models.
MountInv ==
  /\ DOMAIN mounts = {Target(j) : j \in Mounted}
  /\ \A j \in Mounted :
       /\ mounts[Target(j)] = [dev |-> Layer("verity", j), model |-> j]
       /\ DiskFound(j) /\ OffsetFits(j)
       /\ Open("verity", j)
       /\ IsEncrypted(j) => Open("crypt", j)

\* The model in work.
OverCrypt == cur.layer = "verity" /\ Encrypted
WorkInv ==
  pos = "models" /\ cur.at \in Opening \cup {"alias"} =>
  /\ DiskFound(cur.i) /\ (Encrypted => Model.keySecret # "")
  /\ cur.layer = "verity" /\ cur.at # "open" => OffsetFits(cur.i)
  /\ cur.at = "load" => Layer(cur.layer, cur.i) \in DOMAIN dm
  /\ cur.at \in {"resume", "node"} => Up(cur.layer, cur.i)
  /\ cur.at = "mount" => Open("verity", cur.i)
  /\ OverCrypt => Open("crypt", cur.i)

\* What the model in work has in the device mapper, and which node of it may be
\* missing.
Present ==
  IF pos # "models" \/ cur.at \in {"pick", "find", "alias"} \/ cur.layer = "alias" THEN {}
  ELSE (IF OverCrypt THEN {Layer("crypt", cur.i)} ELSE {})
       \cup (IF cur.at \in {"open", "create"} THEN {} ELSE {Layer(cur.layer, cur.i)})
Pending == IF pos = "models" /\ cur.at \in {"load", "resume", "node", "undo"} /\ cur.layer # "alias"
           THEN {Layer(cur.layer, cur.i)} ELSE {}

\* As long as no undo step failed there is nothing else.
LeftInv ==
  ~stuck =>
    /\ DOMAIN dm = Earlier \cup Present
    /\ mnodes \cup Pending = DOMAIN dm
    /\ \A r \in aliases :
         \/ \E j \in Mounted : r = config.models[j].root /\ ~config.models[j].isolated
         \/ /\ pos = "models" /\ cur.at \in Opening \cup {"undo"}
            /\ r = Model.root /\ ~Encrypted /\ ~Model.isolated

\* The inductive invariant of the models.
PackInv == CurInv /\ SeenInv /\ TableInv /\ MountInv /\ WorkInv /\ LeftInv

\* What is a multiple is its quotient times the divisor.
LEMMA Multiple ==
  ASSUME NEW a \in Nat, NEW b \in Nat \ {0}, a % b = 0
  PROVE  a \div b \in Nat /\ a = b * (a \div b)
OBVIOUS

\* Division undoes multiplication.
LEMMA Quotient == ASSUME NEW q \in Nat, NEW b \in Nat \ {0} PROVE (b * q) \div b = q
OBVIOUS

\* Sectors and blocks count the same bytes.
LEMMA Blocks ==
  ASSUME NEW a \in Nat \ {0}, NEW b \in Nat \ {0}, NEW s \in Nat \ {0}, a % b = 0, b % s = 0
  PROVE  /\ a \div s \in Nat \ {0} /\ (a \div s) * s = a
         /\ a \div b \in Nat /\ (a \div b) * b = a
<1>1. PICK k \in Nat : b = s * k  BY Multiple
<1>2. PICK q \in Nat : a = b * q /\ q = a \div b  BY Multiple
<1>3. a = s * (k * q) /\ k * q \in Nat  BY <1>1, <1>2
<1>4. a \div s = k * q  BY <1>3, Quotient
<1>5. k * q # 0  BY <1>3
<1> QED BY <1>1, <1>2, <1>3, <1>4, <1>5

\* The model's operators, by its place.
LEMMA InPlace ==
  /\ \A l : MapperName(l) = Layer(l, cur.i)
  /\ Encrypted = IsEncrypted(cur.i)
  /\ modelMountTarget = Target(cur.i)
  /\ modelDiskPCIAddress(cur.i) = Slot(cur.i)
BY DEF MapperName, Layer, Model, Encrypted, IsEncrypted, modelMountTarget, Target,
   modelDiskPCIAddress, Slot

\* What a place in the configuration says does not change.
LEMMA SameModels ==
  ASSUME UNCHANGED config
  PROVE  /\ \A j : IsEncrypted(j)' = IsEncrypted(j) /\ Target(j)' = Target(j)
         /\ \A j : Layers(j)' = Layers(j) /\ OffsetFits(j)' = OffsetFits(j) /\ Slot(j)' = Slot(j)
         /\ \A l, j : Layer(l, j)' = Layer(l, j)
         /\ \A l, j, t : Fits(l, j, t)' = Fits(l, j, t)
<1>1. \A j : IsEncrypted(j)' = IsEncrypted(j) /\ Slot(j)' = Slot(j)  BY DEF IsEncrypted, Slot
<1>2. \A l, j : Layer(l, j)' = Layer(l, j)  BY DEF Layer
<1>3. \A j : Target(j)' = Target(j) /\ OffsetFits(j)' = OffsetFits(j)  BY DEF Target, OffsetFits
<1>4. \A j : Layers(j)' = Layers(j)  BY <1>1, <1>2 DEF Layers
<1>5. \A l, j, t : Fits(l, j, t)' = Fits(l, j, t)
  BY <1>1, <1>2 DEF Fits, CryptFits, VerityFits
<1> QED BY <1>1, <1>2, <1>3, <1>4, <1>5

\* Within a model, what is mounted and mapped so far is the same.
LEMMA SamePlace ==
  ASSUME UNCHANGED config, cur'.i = cur.i
  PROVE  /\ Mounted' = Mounted /\ Earlier' = Earlier
         /\ Model' = Model /\ Encrypted' = Encrypted
<1>1. Mounted' = Mounted  BY DEF Mounted
<1>2. Earlier' = Earlier  BY <1>1, SameModels DEF Earlier
<1> QED BY <1>1, <1>2 DEF Model, Encrypted

\* The mappings of the model in work are not those of one before.
LEMMA Apart ==
  ASSUME CurInv, SeenInv, cur.at # "pick" PROVE \A l : Layer(l, cur.i) \notin Earlier
<1>1. cur.i \in Nat \ {0}  BY DEF CurInv
<1>2. cur.i \in Picked /\ \A j \in Mounted : j \in Picked /\ j # cur.i
  BY <1>1 DEF Picked, Mounted
<1>3. \A j \in Mounted : config.models[j].root # config.models[cur.i].root
  BY <1>2 DEF SeenInv
<1>4. ASSUME NEW l, NEW j \in Mounted PROVE Layer(l, cur.i) \notin Layers(j)
  BY <1>3 DEF Layer, Layers
<1> QED BY <1>4 DEF Earlier

\* A step to another position of the same model.
LEMMA Goes ==
  ASSUME CurInv, NEW a, NEW l, To(a, l)
  PROVE  /\ cur'.i = cur.i /\ cur'.at = a /\ cur'.layer = l
         /\ cur' = [i |-> cur'.i, at |-> cur'.at, layer |-> cur'.layer]
<1>1. cur' = [cur EXCEPT !.at = a, !.layer = l]  BY DEF To
<1>2. cur = [i |-> cur.i, at |-> cur.at, layer |-> cur.layer]  BY DEF CurInv
<1>3. cur' = [i |-> cur.i, at |-> a, layer |-> l]  BY ONLY <1>1, <1>2
<1> QED BY <1>3

\* A mapping that stays is open as it was.
LEMMA OpenStays ==
  ASSUME UNCHANGED config, NEW l, NEW j, Layer(l, j) \in DOMAIN dm',
         dm'[Layer(l, j)] = dm[Layer(l, j)], Layer(l, j) \in mnodes => Layer(l, j) \in mnodes'
  PROVE  /\ Up(l, j) => Up(l, j)'
         /\ Open(l, j) => Open(l, j)'
<1>1. Layer(l, j)' = Layer(l, j)  BY SameModels
<1>2. (dm[Layer(l, j)])' = dm[Layer(l, j)]  BY <1>1
<1>3. Up(l, j) => Up(l, j)'  BY <1>1, <1>2, SameModels DEF Up, Fits, CryptFits, VerityFits
<1> QED BY <1>1, <1>2, <1>3 DEF Open

\* Steps of one model leave the mounted ones as they are.
LEMMA MountStays ==
  ASSUME MountInv, UNCHANGED <<config, mounts>>, cur'.i = cur.i,
         \A s \in DOMAIN slots : s \in DOMAIN slots' /\ slots'[s] = slots[s],
         \A n \in Earlier \cap DOMAIN dm : n \in DOMAIN dm' /\ dm'[n] = dm[n],
         \A n \in Earlier : n \in mnodes => n \in mnodes'
  PROVE  MountInv'
<1>1. Mounted' = Mounted /\ \A j : Target(j)' = Target(j)  BY SamePlace, SameModels
<1>2. DOMAIN mounts' = {Target(j)' : j \in Mounted'}  BY <1>1 DEF MountInv
<1>3. ASSUME NEW j \in Mounted
      PROVE  /\ mounts'[Target(j)'] = [dev |-> Layer("verity", j)', model |-> j]
             /\ DiskFound(j)' /\ OffsetFits(j)'
  <2>1. mounts[Target(j)] = [dev |-> Layer("verity", j), model |-> j] /\ DiskFound(j) /\ OffsetFits(j)
    BY DEF MountInv
  <2>2. Slot(j)' = Slot(j) /\ OffsetFits(j)' = OffsetFits(j) /\ Layer("verity", j)' = Layer("verity", j)
    BY SameModels
  <2> QED BY <1>1, <2>1, <2>2 DEF DiskFound
<1>4. ASSUME NEW j \in Mounted, NEW l \in {"verity", "crypt"}, Layer(l, j) \in Layers(j), Open(l, j)
      PROVE  Open(l, j)'
  <2>1. Layer(l, j) \in Earlier  BY <1>4 DEF Earlier
  <2>2. Layer(l, j) \in DOMAIN dm' /\ dm'[Layer(l, j)] = dm[Layer(l, j)]
    BY <1>4, <2>1 DEF Open, Up
  <2>3. Layer(l, j) \in mnodes => Layer(l, j) \in mnodes'  BY <2>1
  <2> QED BY <1>4, <2>2, <2>3, OpenStays
<1>5. ASSUME NEW j \in Mounted PROVE Open("verity", j)' /\ (IsEncrypted(j)' => Open("crypt", j)')
  <2>1. Open("verity", j) /\ (IsEncrypted(j) => Open("crypt", j))  BY DEF MountInv
  <2>2. Layer("verity", j) \in Layers(j) /\ (IsEncrypted(j) => Layer("crypt", j) \in Layers(j))
    BY DEF Layers
  <2>3. IsEncrypted(j)' = IsEncrypted(j)  BY SameModels
  <2> QED BY <1>4, <2>1, <2>2, <2>3
<1> QED BY <1>1, <1>2, <1>3, <1>5 DEF MountInv

\* So it is with the root hashes seen.
LEMMA SeenStays ==
  ASSUME SeenInv, UNCHANGED <<config, seen>>, cur'.i = cur.i, cur'.at = "pick" <=> cur.at = "pick"
  PROVE  SeenInv'
<1>1. Picked' = Picked  BY DEF Picked, Mounted
<1> QED BY <1>1 DEF SeenInv

\* And with the tables.
LEMMA TableStays == ASSUME TableInv, UNCHANGED <<config, dm>> PROVE TableInv'
<1>1. PermittedSource' = PermittedSource  BY SameReferences
<1> QED BY <1>1 DEF TableInv

\* A disk that is attached takes no slot from another.
LEMMA AttachKeeps == ASSUME PackInv, AttachDisk PROVE PackInv'
<1> USE DEF PackInv, secretVars, confVars
<1>1. UNCHANGED <<config, pos, cur, seen, dm, mnodes, aliases, mounts, stuck>>  BY DEF AttachDisk
<1>2. \A s \in DOMAIN slots : s \in DOMAIN slots' /\ slots'[s] = slots[s]
  <2>1. PICK s \in SlotRange \ DOMAIN slots, serial \in 1..Cardinality(SlotRange), size \in Sizes :
          slots' = [t \in DOMAIN slots \cup {s} |->
                      IF t = s THEN [serial |-> serial, size |-> size] ELSE slots[t]]
    BY DEF AttachDisk
  <2> QED BY <2>1
<1>3. Model' = Model /\ Encrypted' = Encrypted /\ Mounted' = Mounted /\ Earlier' = Earlier
  BY <1>1, SamePlace
<1>4. CurInv'  BY <1>1, <1>3 DEF CurInv
<1>5. SeenInv' /\ TableInv' /\ MountInv'  BY <1>1, <1>2, SeenStays, TableStays, MountStays
<1>6. WorkInv'
  <2>1. DiskFound(cur.i) => DiskFound(cur.i)'  BY <1>1, <1>2, SameModels DEF DiskFound
  <2>2. \A l, j : /\ Up(l, j)' = Up(l, j) /\ Open(l, j)' = Open(l, j)
                  /\ Layer(l, j)' = Layer(l, j)
    BY <1>1, SameModels DEF Up, Open, Fits, CryptFits, VerityFits
  <2>3. OffsetFits(cur.i)' = OffsetFits(cur.i)  BY <1>1 DEF OffsetFits
  <2> QED BY <1>1, <1>3, <2>1, <2>2, <2>3 DEF WorkInv, OverCrypt
<1>7. LeftInv'
  <2>1. Present' = Present /\ Pending' = Pending
    BY <1>1, <1>3, SameModels DEF Present, Pending, OverCrypt
  <2> QED BY <1>1, <1>3, <2>1 DEF LeftInv
<1> QED BY <1>4, <1>5, <1>6, <1>7

\* The stage fails where there is nothing left to undo.
LEMMA LeaveKeeps ==
  ASSUME PackInv, pos = "models", Leave, UNCHANGED <<config, seen>>,
         TableInv', MountInv', LeftInv'
  PROVE  PackInv'
<1> USE DEF PackInv, Leave
<1>1. Model' = Model /\ Encrypted' = Encrypted  BY SamePlace
<1>2. CurInv'  BY <1>1 DEF CurInv
<1>3. SeenInv'  BY SeenStays
<1>4. WorkInv'  BY DEF WorkInv
<1> QED BY <1>2, <1>3, <1>4

\* The stage goes on to undo a layer.
LEMMA UndoKeeps ==
  ASSUME PackInv, pos = "models", UNCHANGED <<pos, config, seen>>, cur.i <= Len(config.models),
         cur.at # "pick", NEW l \in {"alias", "crypt", "verity"}, To("undo", l),
         l = "crypt" => Encrypted, TableInv', MountInv', LeftInv'
  PROVE  PackInv'
<1> USE DEF PackInv
<1>1. /\ cur'.i = cur.i /\ cur'.at = "undo" /\ cur'.layer = l
      /\ cur' = [i |-> cur'.i, at |-> cur'.at, layer |-> cur'.layer]
  BY Goes
<1>2. Model' = Model /\ Encrypted' = Encrypted  BY <1>1, SamePlace
<1>3. CurInv'  BY <1>1, <1>2 DEF CurInv, Opening
<1>4. SeenInv'  BY <1>1, SeenStays
<1>5. WorkInv'  BY <1>1 DEF WorkInv, Opening
<1> QED BY <1>3, <1>4, <1>5

\* A step that fails: the layer it was about is undone, or the one below.
LEMMA FailKeeps ==
  ASSUME PackInv, pos = "models", cur.i <= Len(config.models), cur.at # "undo", FailTo(UndoFrom),
         UNCHANGED <<config, slots, seen, dm, mnodes, aliases, mounts, stuck>>
  PROVE  PackInv'
<1> USE DEF PackInv
<1>1. ~stuck /\ ~stuck'  BY DEF CurInv
<1>2. TableInv'  BY TableStays
<1>3. cur.at \in {"pick", "find", "alias"} \cup Opening /\ cur.layer \in {"alias", "crypt", "verity"}
  BY DEF CurInv
<1>4. CASE Leave
  <2>1. pos' = "failed" /\ UNCHANGED cur  BY <1>4 DEF Leave
  <2>2. MountInv'  BY <2>1, MountStays
  <2>3. UndoFrom = "none"
    <3>1. UndoFrom # "none" => pos' = pos  BY DEF FailTo, On
    <3> QED BY <2>1, <3>1
  <2>4. \/ cur.at \in {"pick", "find", "alias"}
        \/ cur.at \in {"open", "create"} /\ Undo(cur.layer) = "none"
    BY <1>3, <2>3 DEF UndoFrom, CurInv, Opening
  <2>5. cur.at \in {"open", "create"} =>
          (cur.layer = "crypt" /\ Encrypted) \/ (cur.layer = "verity" /\ ~Encrypted /\ Model.isolated)
    BY <2>4 DEF Undo, CurInv, Opening
  <2>6. Present = {} /\ Pending = {}
    BY <2>4, <2>5 DEF Present, Pending, OverCrypt
  <2>7. Present' = {} /\ Pending' = {}  BY <2>1 DEF Present, Pending
  <2>8. Mounted' = Mounted /\ Earlier' = Earlier  BY <2>1, SamePlace
  <2>9. \A r \in aliases : \E j \in Mounted : r = config.models[j].root /\ ~config.models[j].isolated
    BY <1>1, <2>4, <2>5 DEF LeftInv, Opening
  <2>10. LeftInv'  BY <1>1, <2>6, <2>7, <2>8, <2>9 DEF LeftInv
  <2> QED BY <1>2, <1>4, <2>2, <2>10, LeaveKeeps
<1>5. CASE UndoFrom # "none"
  <2> DEFINE l == UndoFrom
  <2>1. pos' = pos /\ To("undo", l)  BY <1>5 DEF FailTo, On
  <2>2. cur.at \in Opening  BY <1>3, <1>5 DEF UndoFrom
  <2>3. /\ cur.at \in {"open", "create"} => l = Undo(cur.layer)
        /\ cur.at \notin {"open", "create"} => l = cur.layer
    BY <2>2 DEF UndoFrom, Opening
  <2>4. cur.layer \in {"crypt", "verity"} /\ (cur.layer = "crypt" => Encrypted)
    BY <1>3, <2>2 DEF CurInv
  <2>5. \/ /\ l = "crypt" /\ Encrypted /\ cur.layer = "verity" /\ cur.at \in {"open", "create"}
        \/ /\ l = "alias" /\ ~Encrypted /\ ~Model.isolated /\ cur.layer = "verity"
           /\ cur.at \in {"open", "create"}
        \/ /\ l = cur.layer /\ cur.at \notin {"open", "create"}
    BY <1>5, <2>3, <2>4 DEF Undo
  <2>6. cur'.i = cur.i /\ cur'.at = "undo" /\ cur'.layer = l  BY <2>1, Goes
  <2>7. MountInv'  BY <2>6, MountStays
  <2>8. Mounted' = Mounted /\ Earlier' = Earlier /\ Model' = Model /\ Encrypted' = Encrypted
    BY <2>6, SamePlace
  <2>9. \A k : Layer(k, cur.i)' = Layer(k, cur.i)  BY <2>6 DEF Layer
  <2>10. Present' = Present
    BY <2>1, <2>2, <2>4, <2>5, <2>6, <2>8, <2>9 DEF Present, OverCrypt, Opening
  <2>11. Pending' = IF l = "alias" THEN {} ELSE {Layer(l, cur.i)}
    BY <2>1, <2>6, <2>9 DEF Pending
  <2>12. Pending \subseteq Pending' /\ Pending' \subseteq Present
    BY <2>2, <2>4, <2>5, <2>11 DEF Pending, Present, OverCrypt, Opening
  <2>13. \A r \in aliases' :
           \/ \E j \in Mounted' : r = config.models[j]'.root /\ ~config.models[j]'.isolated
           \/ /\ pos' = "models" /\ cur'.at \in Opening \cup {"undo"}
              /\ r = Model'.root /\ ~Encrypted' /\ ~Model'.isolated
    BY <1>1, <2>1, <2>6, <2>8 DEF LeftInv
  <2>14. DOMAIN dm' = Earlier' \cup Present' /\ mnodes' \cup Pending' = DOMAIN dm'
    <3>1. DOMAIN dm = Earlier \cup Present /\ mnodes \cup Pending = DOMAIN dm
      BY <1>1 DEF LeftInv
    <3> QED BY <2>8, <2>10, <2>12, <3>1
  <2>15. LeftInv'  BY <2>13, <2>14 DEF LeftInv
  <2>16. l \in {"alias", "crypt", "verity"} /\ (l = "crypt" => Encrypted) /\ cur.at # "pick"
    BY <2>2, <2>4, <2>5 DEF Opening
  <2> QED BY <1>2, <2>1, <2>7, <2>15, <2>16, UndoKeeps
<1> QED BY <1>4, <1>5 DEF FailTo

\* The stage goes on opening.
LEMMA OpeningKeeps ==
  ASSUME PackInv, pos = "models", UNCHANGED <<pos, config, seen, stuck>>, cur.i <= Len(config.models),
         cur.at \notin {"pick", "undo"}, NEW a \in Opening, NEW l \in {"crypt", "verity"}, To(a, l),
         l = "crypt" => Encrypted, a = "mount" => l = "verity",
         TableInv', MountInv', WorkInv', LeftInv'
  PROVE  PackInv'
<1> USE DEF PackInv
<1>1. /\ cur'.i = cur.i /\ cur'.at = a /\ cur'.layer = l
      /\ cur' = [i |-> cur'.i, at |-> cur'.at, layer |-> cur'.layer]
  BY Goes
<1>2. Model' = Model /\ Encrypted' = Encrypted  BY <1>1, SamePlace
<1>3. CurInv'
  <2>1. ~stuck'  BY DEF CurInv
  <2> QED BY <1>1, <1>2, <2>1 DEF CurInv, Opening
<1>4. SeenInv'  BY <1>1, SeenStays DEF Opening
<1> QED BY <1>3, <1>4

\* A model is taken up if its reference is one and its root hash is new.
LEMMA PickKeeps == ASSUME PackInv, PickModel PROVE PackInv'
<1> USE DEF PackInv, Keep, confVars, At
<1>1. /\ pos = "models" /\ cur.i <= Len(config.models) /\ cur.at = "pick"
      /\ UNCHANGED <<config, slots, dm, mnodes, aliases, mounts, stuck>>
  BY DEF PickModel
<1>2. CASE Leave /\ UNCHANGED seen
  <2>1. FailTo(UndoFrom)  BY <1>1, <1>2 DEF FailTo, UndoFrom
  <2> QED BY <1>1, <1>2, <2>1, FailKeeps
<1>3. CASE On /\ To("find", "alias") /\ Model.root \notin seen /\ seen' = seen \cup {Model.root}
  <2>1. pos' = pos /\ cur'.i = cur.i /\ cur'.at = "find" /\ cur'.layer = "alias"
        /\ cur' = [i |-> cur'.i, at |-> cur'.at, layer |-> cur'.layer]
    BY <1>3, Goes DEF On
  <2>2. Mounted' = Mounted /\ Earlier' = Earlier /\ Model' = Model /\ Encrypted' = Encrypted
    BY <1>1, <2>1, SamePlace
  <2>3. CurInv'  BY <1>1, <2>1, <2>2 DEF CurInv, Opening
  <2>4. SeenInv'
    <3>1. Picked = Mounted /\ Picked' = 1..cur.i  BY <1>1, <2>1 DEF Picked
    <3>2. cur.i \in Nat \ {0}  BY DEF CurInv
    <3>3. \A j \in Picked' : j \in Mounted \/ j = cur.i  BY <3>1, <3>2 DEF Mounted
    <3>4. \A j \in Mounted : config.models[j].root \in seen  BY <3>1 DEF SeenInv
    <3>5. \A j, k \in Mounted : config.models[j].root = config.models[k].root => j = k
      BY <3>1 DEF SeenInv
    <3>6. config.models[cur.i].root \notin seen /\ seen' = seen \cup {config.models[cur.i].root}
      BY <1>3 DEF Model
    <3> QED BY <1>1, <3>3, <3>4, <3>5, <3>6 DEF SeenInv
  <2>5. TableInv' /\ MountInv'  BY <1>1, <2>1, TableStays, MountStays
  <2>6. WorkInv'  BY <2>1 DEF WorkInv, Opening
  <2>7. Present = {} /\ Present' = {} /\ Pending = {} /\ Pending' = {}
    BY <1>1, <2>1 DEF Present, Pending
  <2>8. LeftInv'  BY <1>1, <2>1, <2>2, <2>7 DEF LeftInv, Opening
  <2> QED BY <2>3, <2>4, <2>5, <2>6, <2>8
<1> QED BY <1>2, <1>3 DEF PickModel

\* Its disk is found and its key is there.
LEMMA FindKeeps == ASSUME PackInv, FindSource PROVE PackInv'
<1> USE DEF PackInv, Keep, confVars, At
<1>1. /\ pos = "models" /\ cur.i <= Len(config.models) /\ cur.at = "find" /\ ModelDisk(cur.i)
      /\ UNCHANGED <<config, slots, seen, dm, mnodes, aliases, mounts, stuck>>
  BY DEF FindSource
<1>2. CASE Leave
  <2>1. FailTo(UndoFrom)  BY <1>1, <1>2 DEF FailTo, UndoFrom
  <2> QED BY <1>1, <2>1, FailKeeps
<1>3. CASE /\ On /\ (Encrypted => encryptedModelKey # "")
           /\ \/ Encrypted /\ To("open", "crypt")
              \/ ~Encrypted /\ ~Model.isolated /\ To("alias", "alias")
              \/ ~Encrypted /\ To("open", "verity")
  <2>1. pos' = pos /\ cur'.i = cur.i
        /\ cur' = [i |-> cur'.i, at |-> cur'.at, layer |-> cur'.layer]
        /\ \/ Encrypted /\ cur'.at = "open" /\ cur'.layer = "crypt"
           \/ ~Encrypted /\ ~Model.isolated /\ cur'.at = "alias" /\ cur'.layer = "alias"
           \/ ~Encrypted /\ cur'.at = "open" /\ cur'.layer = "verity"
    BY <1>3, Goes DEF On
  <2>2. Mounted' = Mounted /\ Earlier' = Earlier /\ Model' = Model /\ Encrypted' = Encrypted
    BY <1>1, <2>1, SamePlace
  <2>3. CurInv'  BY <1>1, <2>1, <2>2 DEF CurInv, Opening
  <2>4. SeenInv' /\ TableInv' /\ MountInv'
    BY <1>1, <2>1, SeenStays, TableStays, MountStays
  <2>5. WorkInv'
    <3>1. DiskFound(cur.i)  BY <1>1, InPlace DEF ModelDisk, findDiskByPCIAddress, DiskFound
    <3>2. DiskFound(cur.i)'  BY <1>1, <2>1, <3>1 DEF DiskFound, Slot
    <3>3. Encrypted => Model.keySecret # ""  BY <1>3 DEF encryptedModelKey
    <3> QED BY <2>1, <2>2, <3>2, <3>3 DEF WorkInv, OverCrypt
  <2>6. Present = {} /\ Present' = {} /\ Pending = {} /\ Pending' = {}
    BY <1>1, <2>1, <2>2 DEF Present, Pending, OverCrypt
  <2>7. LeftInv'  BY <1>1, <2>1, <2>2, <2>6 DEF LeftInv, Opening
  <2> QED BY <2>3, <2>4, <2>5, <2>7
<1> QED BY <1>2, <1>3 DEF FindSource

\* The legacy alias is made.
LEMMA AliasKeeps == ASSUME PackInv, createLegacyModelPackAlias PROVE PackInv'
<1> USE DEF PackInv, Keep, confVars, At, On
<1>1. /\ pos = "models" /\ cur.i <= Len(config.models) /\ cur.at = "alias"
      /\ UNCHANGED <<config, slots, seen, dm, mnodes, mounts, stuck>> /\ pos' = pos
      /\ To("open", "verity") /\ aliases' = aliases \cup {Model.root}
  BY DEF createLegacyModelPackAlias
<1>2. cur'.i = cur.i /\ cur'.at = "open" /\ cur'.layer = "verity"  BY <1>1, Goes
<1>3. Mounted' = Mounted /\ Earlier' = Earlier /\ Model' = Model /\ Encrypted' = Encrypted
  BY <1>1, <1>2, SamePlace
<1>4. ~Encrypted /\ ~Model.isolated /\ ~stuck  BY <1>1 DEF CurInv
<1>5. TableInv' /\ MountInv'  BY <1>1, <1>2, TableStays, MountStays
<1>6. WorkInv'
  <2>1. DiskFound(cur.i)  BY <1>1 DEF WorkInv
  <2>2. DiskFound(cur.i)'  BY <1>1, <1>2, <2>1 DEF DiskFound, Slot
  <2> QED BY <1>2, <1>3, <1>4, <2>2 DEF WorkInv, OverCrypt
<1>7. Present = {} /\ Present' = {} /\ Pending = {} /\ Pending' = {}
  BY <1>1, <1>2, <1>3, <1>4 DEF Present, Pending, OverCrypt
<1>8. LeftInv'  BY <1>1, <1>2, <1>3, <1>4, <1>7 DEF LeftInv, Opening
<1>9. "open" \in Opening  BY DEF Opening
<1> QED BY <1>1, <1>5, <1>6, <1>8, <1>9, OpeningKeeps

\* A layer's table is made and is good, or there is none.
LEMMA OpenKeeps == ASSUME PackInv, OpenLayer PROVE PackInv'
<1> USE DEF PackInv, Keep, confVars, At, On
<1>1. /\ pos = "models" /\ cur.i <= Len(config.models) /\ cur.at = "open"
      /\ UNCHANGED <<config, slots, seen, dm, mnodes, aliases, mounts, stuck>>
  BY DEF OpenLayer
<1>2. CASE ValidTable(cur.layer) /\ pos' = pos /\ To("create", cur.layer)
  <2>1. cur'.i = cur.i /\ cur'.at = "create" /\ cur'.layer = cur.layer  BY <1>2, Goes
  <2>2. Mounted' = Mounted /\ Earlier' = Earlier /\ Model' = Model /\ Encrypted' = Encrypted
    BY <1>1, <2>1, SamePlace
  <2>3. cur.layer \in {"crypt", "verity"} /\ (cur.layer = "crypt" => Encrypted)
    BY <1>1 DEF CurInv, Opening
  <2>4. TableInv' /\ MountInv'  BY <1>1, <2>1, TableStays, MountStays
  <2>5. WorkInv'
    <3>1. DiskFound(cur.i)' = DiskFound(cur.i) /\ OffsetFits(cur.i)' = OffsetFits(cur.i)
          /\ Open("crypt", cur.i)' = Open("crypt", cur.i)
      BY <1>1, <2>1 DEF DiskFound, Slot, OffsetFits, Open, Up, Fits, CryptFits, Layer
    <3>2. cur.layer = "verity" => OffsetFits(cur.i)
      BY <1>2 DEF ValidTable, validVerityTable, OffsetFits, Model
    <3> QED BY <1>1, <1>2, <2>1, <2>2, <3>1, <3>2 DEF WorkInv, OverCrypt, Opening
  <2>6. Present' = Present /\ Pending' = Pending
    BY <1>1, <1>2, <2>1, <2>2 DEF Present, Pending, OverCrypt, Layer
  <2>7. LeftInv'  BY <1>1, <1>2, <2>1, <2>2, <2>6 DEF LeftInv, Opening
  <2>8. "create" \in Opening  BY DEF Opening
  <2> QED BY <1>1, <1>2, <2>3, <2>4, <2>5, <2>7, <2>8, OpeningKeeps
<1>3. CASE FailTo(Undo(cur.layer))
  <2>1. FailTo(UndoFrom)  BY <1>1, <1>3 DEF UndoFrom
  <2> QED BY <1>1, <2>1, FailKeeps
<1> QED BY <1>2, <1>3 DEF OpenLayer

\* The mapping is created, with no table.
LEMMA CreateKeeps == ASSUME PackInv, CreateReadOnly PROVE PackInv'
<1> USE DEF PackInv, Keep, confVars, At, On
<1> DEFINE name == Layer(cur.layer, cur.i)
<1>1. /\ pos = "models" /\ cur.i <= Len(config.models) /\ cur.at = "create"
      /\ UNCHANGED <<config, slots, seen, mnodes, aliases, mounts, stuck>> /\ pos' = pos
      /\ To("load", cur.layer) /\ name \notin DOMAIN dm
      /\ dm' = [n \in DOMAIN dm \cup {name} |-> IF n = name THEN EmptyTable ELSE dm[n]]
  BY InPlace DEF CreateReadOnly
<1>2. cur'.i = cur.i /\ cur'.at = "load" /\ cur'.layer = cur.layer  BY <1>1, Goes
<1>3. Mounted' = Mounted /\ Earlier' = Earlier /\ Model' = Model /\ Encrypted' = Encrypted
  BY <1>1, <1>2, SamePlace
<1>4. cur.layer \in {"crypt", "verity"} /\ (cur.layer = "crypt" => Encrypted) /\ ~stuck
  BY <1>1 DEF CurInv, Opening
<1>5. /\ DOMAIN dm' = DOMAIN dm \cup {name} /\ dm'[name] = EmptyTable
      /\ \A n \in DOMAIN dm : dm'[n] = dm[n]
  BY <1>1
<1>6. TableInv'
  <2>1. PermittedSource' = PermittedSource  BY <1>1, SameReferences
  <2>2. EmptyTable.over[1] = "none"
        /\ EmptyTable = [over |-> EmptyTable.over, root |-> EmptyTable.root, key |-> EmptyTable.key,
                active |-> EmptyTable.active, blocks |-> EmptyTable.blocks,
                hashStart |-> EmptyTable.hashStart, len |-> EmptyTable.len]
    BY DEF EmptyTable
  <2>3. dm' = [n \in DOMAIN dm' |-> dm'[n]]  BY <1>1
  <2> QED BY <1>5, <2>1, <2>2, <2>3 DEF TableInv
<1>7. MountInv'  BY <1>1, <1>2, <1>5, MountStays
<1>8. WorkInv'
  <2>1. DiskFound(cur.i)' = DiskFound(cur.i) /\ OffsetFits(cur.i)' = OffsetFits(cur.i)
        /\ name' = name
    BY <1>1, <1>2 DEF DiskFound, Slot, OffsetFits, Layer
  <2>2. Open("crypt", cur.i) => Open("crypt", cur.i)'
    BY <1>1, <1>2, <1>5 DEF Open, Up, Fits, CryptFits, Layer, Slot
  <2> QED BY <1>1, <1>2, <1>3, <1>5, <2>1, <2>2 DEF WorkInv, OverCrypt, Opening
<1>9. Present' = Present \cup {name} /\ Pending = {} /\ Pending' = {name}
  BY <1>1, <1>2, <1>3, <1>4 DEF Present, Pending, OverCrypt, Layer
<1>10. LeftInv'  BY <1>1, <1>2, <1>3, <1>5, <1>9 DEF LeftInv, Opening
<1>11. "load" \in Opening  BY DEF Opening
<1> QED BY <1>1, <1>4, <1>6, <1>7, <1>8, <1>10, <1>11, OpeningKeeps

\* The table that is loaded is the one the model wants, under its own key.
LEMMA TableFits ==
  ASSUME SecretInv, PackInv, pos = "models", cur.at = "load"
  PROVE  LET t == Table(cur.layer) IN
         /\ Fits(cur.layer, cur.i, t)
         /\ t = [over |-> t.over, root |-> t.root, key |-> t.key, active |-> t.active,
                 blocks |-> t.blocks, hashStart |-> t.hashStart, len |-> t.len]
         /\ cur.layer = "crypt" => t.key = PermittedSource
<1> USE DEF PackInv
<1>1. cur.layer \in {"crypt", "verity"} /\ (cur.layer = "crypt" => Encrypted)
      /\ cur.i \in DOMAIN config.models
  <2>1. config.models \in Seq(ModelSpec)  BY ConfigFacts DEF SecretInv, ConfigInv
  <2>2. cur.i \in 1..Len(config.models)  BY <2>1 DEF CurInv
  <2> QED BY <2>1, <2>2 DEF CurInv, Opening
<1>2. CASE cur.layer = "verity"
  <2>1. Table(cur.layer) = verityTable  BY <1>2 DEF Table
  <2>2. Below("verity") = IF IsEncrypted(cur.i) THEN Layer("crypt", cur.i) ELSE <<"disk", Slot(cur.i)>>
    BY InPlace DEF Below, SourceDevice
  <2>3. VerityFits(cur.i, verityTable)  BY <2>2 DEF VerityFits, verityTable, Model
  <2> QED BY <1>2, <2>1, <2>3 DEF Fits, verityTable
<1>3. CASE cur.layer = "crypt"
  <2>1. Table(cur.layer) = cryptTable  BY <1>3 DEF Table
  <2>2. Below("crypt") = <<"partition", Slot(cur.i)>>  BY <1>1, <1>3, InPlace DEF Below, SourceDevice
  <2>3. CryptFits(cur.i, cryptTable)  BY <2>2 DEF CryptFits, cryptTable
  <2>4. Model.keySecret # ""  BY <1>1, <1>3 DEF WorkInv, Opening
  <2>5. Model.keySecret \in AllReferences
    <3>1. \A i \in DOMAIN config.models : config.models[i].keySecret \in AllReferences \cup {""}
      BY ConfigFacts DEF SecretInv, ConfigInv
    <3> QED BY <1>1, <2>4, <3>1 DEF Model
  <2>6. GetSecret(ext, Model.keySecret) = PermittedSource
    <3>1. pos \in Encoded  BY DEF Encoded
    <3> QED BY <2>5, <3>1, StoreFacts
  <2>7. cryptTable.key = PermittedSource  BY <2>4, <2>6 DEF cryptTable, encryptedModelKey
  <2> QED BY <1>3, <2>1, <2>3, <2>7 DEF Fits, cryptTable
<1> QED BY <1>1, <1>2, <1>3

\* It is loaded.
LEMMA LoadKeeps == ASSUME SecretInv, PackInv, LoadReadOnlyTable PROVE PackInv'
<1> USE DEF PackInv, Keep, confVars, At, On
<1> DEFINE name == Layer(cur.layer, cur.i)
           t == Table(cur.layer)
<1>1. /\ pos = "models" /\ cur.i <= Len(config.models) /\ cur.at = "load"
      /\ UNCHANGED <<config, slots, seen, mnodes, aliases, mounts, stuck>> /\ pos' = pos
      /\ To("resume", cur.layer) /\ dm' = [dm EXCEPT ![name] = t]
  BY InPlace DEF LoadReadOnlyTable
<1>2. cur'.i = cur.i /\ cur'.at = "resume" /\ cur'.layer = cur.layer  BY <1>1, Goes
<1>3. Mounted' = Mounted /\ Earlier' = Earlier /\ Model' = Model /\ Encrypted' = Encrypted
  BY <1>1, <1>2, SamePlace
<1>4. cur.layer \in {"crypt", "verity"} /\ (cur.layer = "crypt" => Encrypted) /\ ~stuck
  BY <1>1 DEF CurInv, Opening
<1>5. /\ Fits(cur.layer, cur.i, t)
      /\ t = [over |-> t.over, root |-> t.root, key |-> t.key, active |-> t.active,
              blocks |-> t.blocks, hashStart |-> t.hashStart, len |-> t.len]
      /\ cur.layer = "crypt" => t.key = PermittedSource
  BY <1>1, TableFits
<1> HIDE DEF t
<1>6. name \in DOMAIN dm  BY <1>1 DEF WorkInv, Opening
<1>7. /\ DOMAIN dm' = DOMAIN dm /\ dm'[name] = t
      /\ \A n \in DOMAIN dm : n # name => dm'[n] = dm[n]
      /\ dm' = [n \in DOMAIN dm' |-> dm'[n]]
  <2>1. dm = [n \in DOMAIN dm |-> dm[n]]  BY DEF TableInv
  <2> QED BY <1>1, <1>6, <2>1
<1>8. TableInv'
  <2>1. PermittedSource' = PermittedSource  BY <1>1, SameReferences
  <2>2. name[1] = cur.layer  BY DEF Layer
  <2> QED BY <1>5, <1>7, <2>1, <2>2 DEF TableInv
<1>9. name \notin Earlier  BY <1>1, Apart
<1>10. MountInv'  BY <1>1, <1>2, <1>7, <1>9, MountStays
<1>11. WorkInv'
  <2>1. DiskFound(cur.i)' = DiskFound(cur.i) /\ OffsetFits(cur.i)' = OffsetFits(cur.i) /\ name' = name
    BY <1>1, <1>2 DEF DiskFound, Slot, OffsetFits, Layer
  <2>2. Up(cur.layer, cur.i)'
    <3>1. Fits(cur.layer, cur.i, t) = Fits(cur.layer, cur.i, dm[name])'
      BY <1>1, <1>2, <1>7, <2>1 DEF Fits, CryptFits, VerityFits, Slot, Layer, IsEncrypted
    <3> QED BY <1>5, <1>6, <1>7, <2>1, <3>1 DEF Up
  <2>3. OverCrypt => (Open("crypt", cur.i) => Open("crypt", cur.i)')
    <3>1. OverCrypt => Layer("crypt", cur.i) # name  BY DEF OverCrypt, Layer
    <3> QED BY <1>1, <1>2, <1>7, <3>1 DEF Open, Up, Fits, CryptFits, Layer, Slot
  <2> QED BY <1>1, <1>2, <1>3, <2>1, <2>2, <2>3 DEF WorkInv, OverCrypt, Opening
<1>12. Present' = Present /\ Pending' = Pending
  BY <1>1, <1>2, <1>3, <1>4 DEF Present, Pending, OverCrypt, Layer
<1>13. LeftInv'  BY <1>1, <1>2, <1>3, <1>7, <1>12 DEF LeftInv, Opening
<1>14. "resume" \in Opening  BY DEF Opening
<1> QED BY <1>1, <1>4, <1>8, <1>10, <1>11, <1>13, <1>14, OpeningKeeps

\* The mapping becomes active.
LEMMA ResumeKeeps == ASSUME PackInv, ResumeReadOnly PROVE PackInv'
<1> USE DEF PackInv, Keep, confVars, At, On
<1> DEFINE name == Layer(cur.layer, cur.i)
<1>1. /\ pos = "models" /\ cur.i <= Len(config.models) /\ cur.at = "resume"
      /\ UNCHANGED <<config, slots, seen, mnodes, aliases, mounts, stuck>> /\ pos' = pos
      /\ To("node", cur.layer) /\ dm' = [dm EXCEPT ![name].active = TRUE]
  BY InPlace DEF ResumeReadOnly
<1>2. cur'.i = cur.i /\ cur'.at = "node" /\ cur'.layer = cur.layer  BY <1>1, Goes
<1>3. Mounted' = Mounted /\ Earlier' = Earlier /\ Model' = Model /\ Encrypted' = Encrypted
  BY <1>1, <1>2, SamePlace
<1>4. cur.layer \in {"crypt", "verity"} /\ (cur.layer = "crypt" => Encrypted) /\ ~stuck
  BY <1>1 DEF CurInv, Opening
<1>5. Up(cur.layer, cur.i) /\ name \in DOMAIN dm  BY <1>1 DEF WorkInv, Opening, Up
<1>6. dm'[name] = [over |-> dm[name].over, root |-> dm[name].root, key |-> dm[name].key,
                   active |-> TRUE, blocks |-> dm[name].blocks,
                   hashStart |-> dm[name].hashStart, len |-> dm[name].len]
  <2>1. dm[name] = [over |-> dm[name].over, root |-> dm[name].root, key |-> dm[name].key,
                    active |-> dm[name].active, blocks |-> dm[name].blocks,
                    hashStart |-> dm[name].hashStart, len |-> dm[name].len]
    BY <1>5 DEF TableInv
  <2>2. dm'[name] = [dm[name] EXCEPT !.active = TRUE]  BY <1>1, <1>5
  <2> QED BY <2>1, <2>2
<1>7. /\ DOMAIN dm' = DOMAIN dm
      /\ \A n \in DOMAIN dm : n # name => dm'[n] = dm[n]
      /\ dm' = [n \in DOMAIN dm' |-> dm'[n]]
  <2>1. dm = [n \in DOMAIN dm |-> dm[n]]  BY DEF TableInv
  <2> QED BY <1>1, <1>5, <2>1
<1>8. /\ dm'[name].over = dm[name].over /\ dm'[name].root = dm[name].root
       /\ dm'[name].key = dm[name].key /\ dm'[name].active = TRUE
       /\ dm'[name].blocks = dm[name].blocks /\ dm'[name].hashStart = dm[name].hashStart
       /\ dm'[name].len = dm[name].len
  BY <1>6
<1>9. TableInv'
  <2>1. PermittedSource' = PermittedSource  BY <1>1, SameReferences
  <2> QED BY <1>5, <1>6, <1>7, <1>8, <2>1 DEF TableInv
<1>10. name \notin Earlier  BY <1>1, Apart
<1>11. MountInv'  BY <1>1, <1>2, <1>7, <1>10, MountStays
<1>12. WorkInv'
  <2>1. DiskFound(cur.i)' = DiskFound(cur.i) /\ OffsetFits(cur.i)' = OffsetFits(cur.i) /\ name' = name
    BY <1>1, <1>2 DEF DiskFound, Slot, OffsetFits, Layer
  <2>2. Up(cur.layer, cur.i)'
    <3>1. Fits(cur.layer, cur.i, dm[name])  BY <1>5 DEF Up
    <3>2. Fits(cur.layer, cur.i, dm[name])'
      BY <1>1, <1>2, <1>8, <2>1, <3>1 DEF Fits, CryptFits, VerityFits, Slot, Layer, IsEncrypted
    <3> QED BY <1>5, <1>7, <2>1, <3>2 DEF Up
  <2>3. OverCrypt => (Open("crypt", cur.i) => Open("crypt", cur.i)')
    <3>1. OverCrypt => Layer("crypt", cur.i) # name  BY DEF OverCrypt, Layer
    <3> QED BY <1>1, <1>2, <1>7, <3>1 DEF Open, Up, Fits, CryptFits, Layer, Slot
  <2> QED BY <1>1, <1>2, <1>3, <2>1, <2>2, <2>3 DEF WorkInv, OverCrypt, Opening
<1>13. Present' = Present /\ Pending' = Pending
  BY <1>1, <1>2, <1>3, <1>4 DEF Present, Pending, OverCrypt, Layer
<1>14. LeftInv'  BY <1>1, <1>2, <1>3, <1>7, <1>13 DEF LeftInv, Opening
<1>15. "node" \in Opening  BY DEF Opening
<1> QED BY <1>1, <1>4, <1>9, <1>11, <1>12, <1>14, <1>15, OpeningKeeps

\* Its node is made: dm-verity goes over dm-crypt, or the file system is mounted.
LEMMA NodeKeeps == ASSUME PackInv, EnsureBlockNode PROVE PackInv'
<1> USE DEF PackInv, Keep, confVars, At, On
<1> DEFINE name == Layer(cur.layer, cur.i)
           next == IF cur.layer = "crypt" THEN "open" ELSE "mount"
<1>1. /\ pos = "models" /\ cur.i <= Len(config.models) /\ cur.at = "node" /\ dm[name].active
      /\ UNCHANGED <<config, slots, seen, dm, aliases, mounts, stuck>> /\ pos' = pos
      /\ To(next, "verity") /\ mnodes' = mnodes \cup {name}
  BY InPlace DEF EnsureBlockNode
<1>2. cur'.i = cur.i /\ cur'.at = next /\ cur'.layer = "verity"  BY <1>1, Goes
<1>3. Mounted' = Mounted /\ Earlier' = Earlier /\ Model' = Model /\ Encrypted' = Encrypted
  BY <1>1, <1>2, SamePlace
<1>4. cur.layer \in {"crypt", "verity"} /\ (cur.layer = "crypt" => Encrypted) /\ ~stuck
  BY <1>1 DEF CurInv, Opening
<1>5. Up(cur.layer, cur.i) /\ DiskFound(cur.i) /\ (Encrypted => Model.keySecret # "")
  BY <1>1 DEF WorkInv, Opening
<1>6. TableInv' /\ MountInv'  BY <1>1, <1>2, TableStays, MountStays
<1>7. WorkInv'
  <2>1. DiskFound(cur.i)' = DiskFound(cur.i) /\ OffsetFits(cur.i)' = OffsetFits(cur.i)
    BY <1>1, <1>2 DEF DiskFound, Slot, OffsetFits
  <2>2. ASSUME NEW l, Up(l, cur.i), dm[Layer(l, cur.i)].active, Layer(l, cur.i) \in mnodes'
        PROVE  Open(l, cur.i)'
    BY <1>1, <1>2, <2>2 DEF Open, Up, Fits, CryptFits, VerityFits, Slot, Layer, IsEncrypted
  <2>3. OverCrypt => Open("crypt", cur.i)'
    <3>1. OverCrypt => Open("crypt", cur.i)  BY <1>1 DEF WorkInv, Opening
    <3> QED BY <1>1, <2>2, <3>1 DEF Open
  <2>4. CASE cur.layer = "crypt"
    <3>1. Open("crypt", cur.i)'  BY <1>1, <1>5, <2>2, <2>4
    <3> QED BY <1>1, <1>2, <1>3, <1>5, <2>1, <2>4, <3>1 DEF WorkInv, OverCrypt, Opening
  <2>5. CASE cur.layer = "verity"
    <3>1. Open("verity", cur.i)'  BY <1>1, <1>5, <2>2, <2>5
    <3>2. OffsetFits(cur.i)  BY <1>1, <2>5 DEF WorkInv, Opening
    <3> QED BY <1>1, <1>2, <1>3, <1>5, <2>1, <2>3, <2>5, <3>1, <3>2 DEF WorkInv, OverCrypt, Opening
  <2> QED BY <1>4, <2>4, <2>5
<1>8. Present' = Present /\ Pending = {name} /\ Pending' = {} /\ name \in Present
  BY <1>1, <1>2, <1>3, <1>4 DEF Present, Pending, OverCrypt, Layer
<1>9. LeftInv'
  <2>1. DOMAIN dm' = Earlier' \cup Present' /\ mnodes' \cup Pending' = DOMAIN dm'
    BY <1>1, <1>3, <1>4, <1>8 DEF LeftInv
  <2>2. cur.at \in Opening /\ next \in Opening  BY <1>1 DEF Opening
  <2> QED BY <1>1, <1>2, <1>3, <1>4, <2>1, <2>2 DEF LeftInv
<1>10. next \in Opening /\ cur.at \notin {"pick", "undo"}  BY <1>1 DEF Opening
<1> QED BY <1>1, <1>6, <1>7, <1>9, <1>10, OpeningKeeps

\* The file system is mounted, and the next model is up.
LEMMA MountKeeps == ASSUME SecretInv, PackInv, mountModel PROVE PackInv'
<1> USE DEF PackInv, Keep, confVars, At, On
<1> DEFINE i == cur.i
<1>1. /\ pos = "models" /\ i <= Len(config.models) /\ cur.at = "mount"
      /\ UNCHANGED <<config, slots, seen, dm, mnodes, aliases, stuck>> /\ pos' = pos
      /\ mounts' = [p \in DOMAIN mounts \cup {Target(i)} |->
                      IF p = Target(i) THEN [dev |-> Layer("verity", i), model |-> i] ELSE mounts[p]]
      /\ cur' = [i |-> i + 1, at |-> "pick", layer |-> "alias"]
  BY InPlace DEF mountModel
<1>2. cur'.i = i + 1 /\ cur'.at = "pick" /\ cur'.layer = "alias"
      /\ cur' = [i |-> cur'.i, at |-> cur'.at, layer |-> cur'.layer]
  BY <1>1
<1>3. i \in Nat \ {0} /\ Len(config.models) \in Nat
  <2>1. config.models \in Seq(ModelSpec)  BY ConfigFacts DEF SecretInv, ConfigInv
  <2> QED BY <2>1 DEF CurInv
<1>4. Mounted' = Mounted \cup {i} /\ i \notin Mounted /\ Picked = Mounted' /\ Picked' = Mounted'
      /\ \A j \in Mounted : j \in Nat
  BY <1>1, <1>2, <1>3 DEF Mounted, Picked
<1>5. ~stuck /\ cur.layer = "verity" /\ DiskFound(i) /\ OffsetFits(i) /\ Open("verity", i)
      /\ (IsEncrypted(i) => Open("crypt", i))
  BY <1>1, InPlace DEF CurInv, WorkInv, Opening, OverCrypt
<1>6. CurInv'
  <2>1. cur'.i \in 1..(Len(config.models) + 1)  BY <1>1, <1>2, <1>3
  <2> QED BY <1>1, <1>2, <1>5, <2>1 DEF CurInv, Opening
<1>7. SeenInv'  BY <1>1, <1>4 DEF SeenInv
<1>8. TableInv'  BY <1>1, TableStays
<1>9. \A j : /\ Target(j)' = Target(j) /\ DiskFound(j)' = DiskFound(j) /\ OffsetFits(j)' = OffsetFits(j)
             /\ Open("verity", j)' = Open("verity", j) /\ Open("crypt", j)' = Open("crypt", j)
             /\ IsEncrypted(j)' = IsEncrypted(j) /\ Layer("verity", j)' = Layer("verity", j)
  BY <1>1 DEF Target, DiskFound, Slot, OffsetFits, Open, Up, Fits, CryptFits, VerityFits, Layer,
     IsEncrypted
<1>10. \A j \in Mounted : Target(j) # Target(i)
  <2>1. \A j \in Mounted : config.models[j].root # config.models[i].root /\ j # i
    BY <1>4 DEF SeenInv
  <2> QED BY <2>1 DEF Target
<1>11. MountInv'
  <2>1. DOMAIN mounts' = {Target(j)' : j \in Mounted'}
    BY <1>1, <1>4, <1>9 DEF MountInv
  <2>2. \A j \in Mounted' : mounts'[Target(j)] = [dev |-> Layer("verity", j), model |-> j]
    BY <1>1, <1>4, <1>10 DEF MountInv
  <2>3. \A j \in Mounted' : /\ DiskFound(j) /\ OffsetFits(j) /\ Open("verity", j)
                            /\ IsEncrypted(j) => Open("crypt", j)
    BY <1>4, <1>5 DEF MountInv
  <2> QED BY <1>9, <2>1, <2>2, <2>3 DEF MountInv
<1>12. WorkInv'  BY <1>2 DEF WorkInv, Opening
<1>13. LeftInv'
  <2>1. Present' = {} /\ Pending' = {} /\ Pending = {}  BY <1>1, <1>2 DEF Present, Pending
  <2>2. Present = Layers(i)
    BY <1>1, <1>5, InPlace DEF Present, Layers, OverCrypt
  <2>3. Earlier' = Earlier \cup Layers(i)
    <3>1. \A j : Layers(j)' = Layers(j)  BY <1>1, SameModels
    <3> QED BY <1>4, <3>1 DEF Earlier
  <2>4. \A r \in aliases' : \E j \in Mounted' :
           r = config.models[j]'.root /\ ~config.models[j]'.isolated
    BY <1>1, <1>4, <1>5 DEF LeftInv, Model
  <2>5. DOMAIN dm' = Earlier' \cup Present' /\ mnodes' \cup Pending' = DOMAIN dm'
    BY <1>1, <1>5, <2>1, <2>2, <2>3 DEF LeftInv
  <2> QED BY <2>4, <2>5 DEF LeftInv
<1> QED BY <1>6, <1>7, <1>8, <1>11, <1>12, <1>13

\* A mapping is removed, with its node or without, or is not.
LEMMA RemoveKeeps == ASSUME PackInv, Remove PROVE PackInv'
<1> USE DEF PackInv, Keep, confVars, At, On
<1> DEFINE name == Layer(cur.layer, cur.i)
           below == Undo(cur.layer)
<1>1. /\ pos = "models" /\ cur.i <= Len(config.models) /\ cur.at = "undo" /\ cur.layer # "alias"
      /\ UNCHANGED <<config, slots, seen, aliases, mounts>> /\ FailTo(below)
  BY DEF Remove
<1>2. \/ /\ dm' = [n \in DOMAIN dm \ {name} |-> dm[n]]
         /\ mnodes' = mnodes \ {name} /\ UNCHANGED stuck
      \/ /\ dm' = [n \in DOMAIN dm \ {name} |-> dm[n]]
         /\ mnodes' = mnodes /\ stuck' = TRUE
      \/ UNCHANGED <<dm, mnodes>> /\ stuck' = TRUE
  BY InPlace DEF Remove
<1>3. cur.layer \in {"crypt", "verity"} /\ (cur.layer = "crypt" => Encrypted)  BY <1>1 DEF CurInv
<1>4. \/ below = "crypt" /\ cur.layer = "verity" /\ Encrypted
      \/ below = "alias" /\ cur.layer = "verity" /\ ~Encrypted /\ ~Model.isolated
      \/ below = "none" /\ ~OverCrypt /\ (Encrypted \/ Model.isolated)
  BY <1>3 DEF Undo, OverCrypt
<1>5. cur'.i = cur.i /\ \/ below = "none" /\ Leave
                        \/ /\ below # "none" /\ pos' = pos /\ To("undo", below)
                           /\ cur'.at = "undo" /\ cur'.layer = below
  BY <1>1, Goes DEF FailTo, Leave
<1>6. Mounted' = Mounted /\ Earlier' = Earlier /\ Model' = Model /\ Encrypted' = Encrypted
  BY <1>1, <1>5, SamePlace
<1>7. \A n \in DOMAIN dm : n # name => n \in DOMAIN dm' /\ dm'[n] = dm[n]
  BY <1>2
<1>8. TableInv'
  <2>1. PermittedSource' = PermittedSource  BY <1>1, SameReferences
  <2>2. DOMAIN dm' \subseteq DOMAIN dm /\ \A n \in DOMAIN dm' : dm'[n] = dm[n]  BY <1>2
  <2>3. dm' = [n \in DOMAIN dm' |-> dm'[n]]
    <3>1. dm = [n \in DOMAIN dm |-> dm[n]]  BY DEF TableInv
    <3> QED BY <1>2, <3>1
  <2> QED BY <2>1, <2>2, <2>3 DEF TableInv
<1>9. name \notin Earlier  BY <1>1, Apart
<1>10. MountInv'  BY <1>1, <1>2, <1>5, <1>7, <1>9, MountStays
<1>11. LeftInv'
  <2> SUFFICES ASSUME ~stuck' PROVE LeftInv'  BY DEF LeftInv
  <2>1. DOMAIN dm' = DOMAIN dm \ {name} /\ mnodes' = mnodes \ {name} /\ ~stuck  BY <1>2
  <2>2. Present = (IF OverCrypt THEN {Layer("crypt", cur.i)} ELSE {}) \cup {name}
    BY <1>1 DEF Present
  <2>3. Pending = {name}  BY <1>1 DEF Pending
  <2>4. DOMAIN dm = Earlier \cup Present /\ mnodes \cup {name} = DOMAIN dm  BY <2>1, <2>3 DEF LeftInv
  <2>5. OverCrypt => Layer("crypt", cur.i) # name  BY DEF OverCrypt, Layer
  <2>6. DOMAIN dm' = Earlier \cup (IF OverCrypt THEN {Layer("crypt", cur.i)} ELSE {})
        /\ mnodes' = DOMAIN dm'
    BY <1>9, <2>1, <2>2, <2>4, <2>5
  <2>7. Present' = (IF OverCrypt THEN {Layer("crypt", cur.i)} ELSE {}) /\ Pending' \subseteq Present'
    <3>1. Layer("crypt", cur.i)' = Layer("crypt", cur.i)  BY <1>1, <1>5 DEF Layer
    <3>2. CASE below = "none"
      BY <1>4, <1>5, <3>2 DEF Leave, Present, Pending
    <3>3. CASE below = "alias"
      <4>1. ~OverCrypt  BY <1>4, <3>3 DEF OverCrypt
      <4> QED BY <1>5, <3>3, <4>1 DEF Present, Pending
    <3>4. CASE below = "crypt"
      <4>1. OverCrypt /\ pos' = "models" /\ cur'.layer = "crypt" /\ cur'.at = "undo"
        BY <1>1, <1>4, <1>5, <3>4 DEF OverCrypt
      <4>2. Layer(cur.layer, cur.i)' = Layer("crypt", cur.i)  BY <1>1, <1>5, <4>1 DEF Layer
      <4>3. Present' = {Layer("crypt", cur.i)} /\ Pending' = {Layer("crypt", cur.i)}
        BY <4>1, <4>2 DEF Present, Pending, OverCrypt
      <4> QED BY <4>1, <4>3
    <3> QED BY <1>4, <3>2, <3>3, <3>4
  <2>8. \A r \in aliases' :
          \/ \E j \in Mounted' : r = config.models[j]'.root /\ ~config.models[j]'.isolated
          \/ /\ pos' = "models" /\ cur'.at \in Opening \cup {"undo"}
             /\ r = Model'.root /\ ~Encrypted' /\ ~Model'.isolated
    BY <1>1, <1>4, <1>5, <1>6, <2>1 DEF LeftInv
  <2>9. DOMAIN dm' = Earlier' \cup Present' /\ mnodes' \cup Pending' = DOMAIN dm'
    BY <1>6, <2>6, <2>7
  <2> QED BY <2>8, <2>9 DEF LeftInv
<1>12. CASE below = "none"
  BY <1>1, <1>5, <1>8, <1>10, <1>11, <1>12, LeaveKeeps
<1>13. CASE below # "none"
  <2>1. below \in {"alias", "crypt", "verity"} /\ (below = "crypt" => Encrypted) /\ cur.at # "pick"
    BY <1>1, <1>4, <1>13
  <2> HIDE DEF below
  <2> QED BY <1>1, <1>5, <1>8, <1>10, <1>11, <1>13, <2>1, UndoKeeps
<1> QED BY <1>12, <1>13

\* The alias is taken away, or is not, and the stage has failed.
LEMMA UnaliasKeeps == ASSUME PackInv, removeLegacyModelPackAlias PROVE PackInv'
<1> USE DEF PackInv, Keep, confVars, At
<1>1. /\ pos = "models" /\ cur.at = "undo" /\ cur.layer = "alias" /\ Leave
      /\ UNCHANGED <<config, slots, seen, dm, mnodes, mounts>>
      /\ \/ aliases' = aliases \ {Model.root} /\ UNCHANGED stuck
         \/ stuck' = TRUE
  BY DEF removeLegacyModelPackAlias
<1>2. pos' = "failed" /\ UNCHANGED cur  BY <1>1 DEF Leave
<1>3. Mounted' = Mounted /\ Earlier' = Earlier  BY <1>1, <1>2, SamePlace
<1>4. TableInv' /\ MountInv'  BY <1>1, <1>2, TableStays, MountStays
<1>5. Present = {} /\ Present' = {} /\ Pending = {} /\ Pending' = {}
  BY <1>1, <1>2 DEF Present, Pending
<1>6. LeftInv'  BY <1>1, <1>3, <1>5 DEF LeftInv
<1> QED BY <1>1, <1>4, <1>6, LeaveKeeps

\* Boot reaches the models' stage, leaves it when all are mounted, or another
\* process takes a step.
LEMMA BesidePacks ==
  ASSUME PackInv, UNCHANGED <<config, packVars>>,
         \/ pos' = pos
         \/ pos \notin {"models", "booted", "failed"} /\ pos' # "booted"
         \/ pos = "models" /\ cur.i = Len(config.models) + 1 /\ cur.at = "pick"
            /\ pos' \in {"booted", "failed"}
  PROVE  PackInv'
<1> USE DEF PackInv, packVars
<1>1. Mounted' = Mounted /\ Earlier' = Earlier /\ Model' = Model /\ Encrypted' = Encrypted
  BY SamePlace
<1>2. pos' = pos \/ (cur.at = "pick" /\ cur'.at = "pick")  BY DEF CurInv
<1>3. CurInv'  BY <1>1 DEF CurInv
<1>4. SeenInv' /\ TableInv' /\ MountInv'  BY SeenStays, TableStays, MountStays
<1>5. WorkInv'
  <2>1. CASE pos' # pos  BY <1>2, <2>1 DEF WorkInv, Opening
  <2>2. CASE pos' = pos
    <3>1. \A l, j : /\ Up(l, j)' = Up(l, j) /\ Open(l, j)' = Open(l, j)
                    /\ Layer(l, j)' = Layer(l, j)
      BY SameModels DEF Up, Open, Fits, CryptFits, VerityFits
    <3>2. OffsetFits(cur.i)' = OffsetFits(cur.i) /\ DiskFound(cur.i)' = DiskFound(cur.i)
      BY DEF OffsetFits, DiskFound, Slot
    <3> QED BY <1>1, <2>2, <3>1, <3>2 DEF WorkInv, OverCrypt
  <2> QED BY <2>1, <2>2
<1>6. Present' = Present /\ Pending' = Pending
  BY <1>1, <1>2, SameModels DEF Present, Pending, OverCrypt
<1>7. LeftInv'  BY <1>1, <1>2, <1>6 DEF LeftInv, Opening
<1> QED BY <1>3, <1>4, <1>5, <1>7

\* Every step keeps what is known of the models.
LEMMA PackKept == SecretInv /\ PackInv /\ [Next]_vars => PackInv'
<1> SUFFICES ASSUME SecretInv, PackInv, [Next]_vars PROVE PackInv'  OBVIOUS
<1>1. CASE UNCHANGED vars
  BY <1>1, BesidePacks DEF vars, secretVars, confVars
<1>2. CASE SecretStep /\ UNCHANGED packVars
  <2>1. UNCHANGED config
    BY <1>2 DEF SecretStep, HostRewrites, loadAndVerifyConfig, loadExternalConfig,
       prepareSecretHandoff, prefetchKeyserverCollateral, keyserverChallenge, BuildAttestation,
       ChallengeExpires, keyserverFetch, EncodeHandoff, WriteHandoff, SealHandoff, BootFails, confVars
  <2>2. pos' = pos \/ (pos \notin {"models", "booted", "failed"} /\ pos' # "booted")
    BY <1>2 DEF SecretStep, HostRewrites, loadAndVerifyConfig, loadExternalConfig,
       prepareSecretHandoff, prefetchKeyserverCollateral, keyserverChallenge, BuildAttestation,
       ChallengeExpires, keyserverFetch, EncodeHandoff, WriteHandoff, SealHandoff, BootFails, BootAt
  <2> QED BY <1>2, <2>1, <2>2, BesidePacks
<1>3. CASE ManagerStep /\ UNCHANGED packVars
  <2>1. UNCHANGED <<config, pos>>
    BY <1>3 DEF ManagerStep, StartManager, ManagerEnds, SeekHandoff, ReadChunk, ReadHandoff,
       Manager, confVars
  <2> QED BY <1>3, <2>1, BesidePacks
<1>4. CASE StepFails
  <2>1. /\ pos = "models" /\ cur.i <= Len(config.models) /\ cur.at # "undo" /\ FailTo(UndoFrom)
        /\ UNCHANGED <<config, slots, seen, dm, mnodes, aliases, mounts, stuck>>
    BY <1>4 DEF StepFails, Keep, confVars
  <2> QED BY <2>1, FailKeeps
<1>5. CASE ModelsDone
  <2>1. UNCHANGED <<config, packVars>> /\ pos = "models" /\ cur.i > Len(config.models)
        /\ pos' \in {"booted", "failed"}
    BY <1>5 DEF ModelsDone, Keep, confVars
  <2>2. config.models \in Seq(ModelSpec)  BY ConfigFacts DEF SecretInv, ConfigInv
  <2>3. cur.i = Len(config.models) + 1 /\ cur.at = "pick"
    BY <2>1, <2>2 DEF PackInv, CurInv
  <2> QED BY <2>1, <2>3, BesidePacks
<1> QED BY <1>1, <1>2, <1>3, <1>4, <1>5, AttachKeeps, PickKeeps, FindKeeps, AliasKeeps, OpenKeeps,
         CreateKeeps, LoadKeeps, ResumeKeeps, NodeKeeps, MountKeeps, RemoveKeeps, UnaliasKeeps
      DEF Next, PackStep

\* It holds when boot begins.
LEMMA PackInit == Init => PackInv
<1> SUFFICES ASSUME Init PROVE PackInv  OBVIOUS
<1>1. /\ cur = [i |-> 1, at |-> "pick", layer |-> "alias"] /\ seen = {} /\ dm = <<>> /\ mnodes = {}
      /\ aliases = {} /\ mounts = <<>> /\ stuck = FALSE /\ pos = "config" /\ config \in Configs
  BY DEF Init, HandoffInit
<1>2. cur.i = 1 /\ cur.at = "pick" /\ cur.layer = "alias"  BY <1>1
<1>3. DOMAIN dm = {} /\ DOMAIN mounts = {} /\ dm = [n \in DOMAIN dm |-> dm[n]]  BY <1>1
<1>4. Mounted = {}  BY <1>2 DEF Mounted
<1>5. CurInv
  <2>1. config.models \in Seq(ModelSpec)  BY <1>1, ConfigFacts
  <2>2. 1 \in 1..(Len(config.models) + 1)  BY <2>1
  <2> QED BY <1>1, <1>2, <2>2 DEF CurInv, Opening
<1>6. SeenInv  BY <1>2, <1>4 DEF SeenInv, Picked
<1>7. TableInv  BY <1>3 DEF TableInv
<1>8. MountInv  BY <1>3, <1>4 DEF MountInv
<1>9. WorkInv  BY <1>1 DEF WorkInv
<1>10. LeftInv
  <2>1. Present = {} /\ Pending = {} /\ Earlier = {}  BY <1>1, <1>4 DEF Present, Pending, Earlier
  <2> QED BY <1>1, <1>3, <2>1 DEF LeftInv
<1> QED BY <1>5, <1>6, <1>7, <1>8, <1>9, <1>10 DEF PackInv

\* The inductive invariant of secrets and models together.
LEMMA ProvisionInvariance == Spec => [](SecretInv /\ PackInv)
<1>1. Init => SecretInv /\ PackInv  BY SecretInit, PackInit
<1>2. SecretInv /\ PackInv /\ [Next]_vars => SecretInv' /\ PackInv'  BY SecretKept, PackKept
<1> QED BY <1>1, <1>2, PTL DEF Spec

\* For every configuration, whatever the host writes to the disks, however the
\* fetch from the keyserver ends and wherever the models stage fails: every value
\* a manager uses and every loaded dm-crypt key comes from the one permitted
\* source (boot/secrets.go prepareSecretHandoff, boot/models.go).
THEOREM SecretsHaveOneSource == Spec => []SecretsFromOneSource
<1>1. SecretInv /\ PackInv => SecretsFromOneSource
  <2> SUFFICES ASSUME SecretInv, PackInv PROVE SecretsFromOneSource  OBVIOUS
  <2>1. confFile # "other"  BY DEF SecretInv, ConfigInv
  <2>2. \A n \in DOMAIN mgr.use : mgr.use[n] = PermittedSource  BY UseFacts
  <2> QED BY <2>1, <2>2 DEF PackInv, TableInv, SecretsFromOneSource
<1> QED BY <1>1, ProvisionInvariance, PTL

\* What is mounted at a place is verified there.
LEMMA MountedOne ==
  ASSUME SecretInv, PackInv, NEW j \in Mounted PROVE Verified(mounts[Target(j)])
<1> USE DEF PackInv
<1> DEFINE m == mounts[Target(j)]
           model == config.models[j]
           v == dm[Layer("verity", j)]
<1>1. m = [dev |-> Layer("verity", j), model |-> j] /\ DiskFound(j) /\ OffsetFits(j)
      /\ Open("verity", j) /\ (IsEncrypted(j) => Open("crypt", j))
  BY DEF MountInv
<1>2. m.dev = Layer("verity", j) /\ m.model = j  BY <1>1
<1>3. VerityFits(j, v) /\ v.active /\ Layer("verity", j) \in mnodes
  BY <1>1 DEF Open, Up, Fits
<1>4. model.offset \in Nat
  <2>1. config.models \in Seq(ModelSpec)  BY ConfigFacts DEF SecretInv, ConfigInv
  <2>2. j \in 1..Len(config.models)  BY <2>1 DEF Mounted, CurInv
  <2>3. model \in ModelSpec  BY <2>1, <2>2
  <2> QED BY <2>3 DEF ModelSpec
<1>5. /\ model.offset \div SectorSize \in Nat \ {0}
      /\ (model.offset \div SectorSize) * SectorSize = model.offset
      /\ model.offset \div BlockSize \in Nat
      /\ (model.offset \div BlockSize) * BlockSize = model.offset
  <2>1. model.offset \in Nat \ {0} /\ model.offset % BlockSize = 0
    BY <1>1, <1>4 DEF OffsetFits
  <2>2. BlockSize \in Nat \ {0} /\ SectorSize \in Nat \ {0} /\ BlockSize % SectorSize = 0
    BY SizeAssumption
  <2> HIDE DEF model
  <2> QED BY ONLY <2>1, <2>2, Blocks
<1>6. v.len * SectorSize = v.blocks * BlockSize /\ v.len > 0
      /\ (v.hashStart - 1) * BlockSize = model.offset
  <2>1. v.len = model.offset \div SectorSize /\ v.blocks = model.offset \div BlockSize
        /\ v.hashStart = model.offset \div BlockSize + 1
    BY <1>3 DEF VerityFits
  <2>2. v.hashStart - 1 = model.offset \div BlockSize  BY <1>5, <2>1
  <2> QED BY <1>5, <2>1, <2>2
<1>7. CASE IsEncrypted(j)
  <2>1. v.over = Layer("crypt", j) /\ v.root = model.root  BY <1>3, <1>7 DEF VerityFits
  <2>2. dm[Layer("crypt", j)].active /\ dm[Layer("crypt", j)].over = <<"partition", Slot(j)>>
    BY <1>1, <1>7 DEF Open, Up, Fits, CryptFits
  <2>3. model.kind = "emwp"  BY <1>7 DEF IsEncrypted
  <2>4. v.over = <<"crypt", model.root>> /\ dm[v.over].active  BY <2>1, <2>2 DEF Layer
  <2>5. dm[v.over].over[2] = FirstSlot + j - 1 /\ slots[dm[v.over].over[2]].serial = j
    BY <1>1, <2>1, <2>2 DEF DiskFound, Slot
  <2>6. m.dev = <<"verity", model.root>> /\ m.dev \in mnodes /\ dm[m.dev] = v
    BY <1>2, <1>3 DEF Layer
  <2> QED BY <1>2, <1>3, <1>6, <2>1, <2>3, <2>4, <2>5, <2>6 DEF Verified
<1>8. CASE ~IsEncrypted(j)
  <2>1. v.over = <<"disk", Slot(j)>> /\ v.root = model.root  BY <1>3, <1>8 DEF VerityFits
  <2>2. model.kind # "emwp"  BY <1>8 DEF IsEncrypted
  <2> QED BY <1>1, <1>2, <1>3, <1>6, <2>1, <2>2 DEF Verified, Layer, DiskFound, Slot
<1> QED BY <1>7, <1>8

\* When the stage is over, only the mounted models' mappings, nodes and aliases
\* are there.
LEMMA LeftOnes ==
  ASSUME PackInv, pos \in {"failed", "booted"}, ~stuck
  PROVE  LET held == {mounts[p].dev : p \in DOMAIN mounts}
             used == held \cup {dm[n].over : n \in held} IN
         /\ DOMAIN dm \subseteq used /\ mnodes = DOMAIN dm
         /\ \A r \in aliases : <<"mwp", r>> \in DOMAIN mounts
<1> USE DEF PackInv
<1> DEFINE held == {mounts[p].dev : p \in DOMAIN mounts}
<1>1. Present = {} /\ Pending = {}  BY DEF Present, Pending
<1>2. DOMAIN dm = Earlier /\ mnodes = DOMAIN dm  BY <1>1 DEF LeftInv
<1>3. ASSUME NEW j \in Mounted
      PROVE  Target(j) \in DOMAIN mounts /\ mounts[Target(j)].dev = Layer("verity", j)
  <2>1. mounts[Target(j)] = [dev |-> Layer("verity", j), model |-> j]  BY DEF MountInv
  <2>2. Target(j) \in DOMAIN mounts  BY DEF MountInv
  <2> QED BY <2>1, <2>2
<1>4. \A j \in Mounted : Layer("verity", j) \in held  BY <1>3
<1>5. \A j \in Mounted : IsEncrypted(j) => dm[Layer("verity", j)].over = Layer("crypt", j)
  BY DEF MountInv, Open, Up, Fits, VerityFits
<1>6. ASSUME NEW n \in DOMAIN dm PROVE n \in held \cup {dm[h].over : h \in held}
  <2>1. PICK j \in Mounted : n \in Layers(j)  BY <1>2 DEF Earlier
  <2>2. n = Layer("verity", j) \/ (IsEncrypted(j) /\ n = Layer("crypt", j))  BY <2>1 DEF Layers
  <2> HIDE DEF held
  <2> QED BY <1>4, <1>5, <2>2
<1>7. ASSUME NEW r \in aliases PROVE <<"mwp", r>> \in DOMAIN mounts
  <2>1. PICK j \in Mounted : r = config.models[j].root /\ ~config.models[j].isolated
    BY DEF LeftInv
  <2> QED BY <1>3, <2>1 DEF Target
<1> QED BY <1>2, <1>6, <1>7

\* As many are mounted as there are models.
LEMMA AllMounted ==
  ASSUME SecretInv, PackInv, pos = "booted"
  PROVE  Cardinality(DOMAIN mounts) = Len(config.models)
<1> USE DEF PackInv
<1> DEFINE N == Len(config.models)
           f == [j \in 1..N |-> Target(j)]
<1>1. N \in Nat
  <2>1. config.models \in Seq(ModelSpec)  BY ConfigFacts DEF SecretInv, ConfigInv
  <2> QED BY <2>1
<1>2. Mounted = 1..N  BY <1>1 DEF CurInv, Mounted
<1>3. DOMAIN mounts = {Target(j) : j \in 1..N}  BY <1>2 DEF MountInv
<1>4. f \in Bijection(1..N, DOMAIN mounts)
  <2>1. \A j, k \in 1..N : Target(j) = Target(k) => j = k
    <3>1. \A j \in Mounted : j \in Picked  BY DEF Picked, CurInv, Mounted
    <3>2. \A j, k \in 1..N : config.models[j].root = config.models[k].root => j = k
      BY <1>2, <3>1 DEF SeenInv
    <3> QED BY <3>2 DEF Target
  <2>2. f \in [1..N -> DOMAIN mounts]  BY <1>3
  <2>3. f \in Injection(1..N, DOMAIN mounts)  BY <2>1, <2>2 DEF Injection, IsInjective
  <2>4. f \in Surjection(1..N, DOMAIN mounts)  BY <1>3, <2>2 DEF Surjection
  <2> QED BY <2>3, <2>4 DEF Bijection
<1>5. IsFiniteSet(1..N) /\ Cardinality(1..N) = N
  BY <1>1, FS_Interval
<1>6. ExistsBijection(1..N, DOMAIN mounts)  BY <1>4 DEF ExistsBijection
<1> QED BY <1>5, <1>6, FS_Bijection

\* For every list of models, size of a block and disk the host attaches, and
\* wherever the stage and its undo steps fail: a model is mounted only over its own
\* verified disk, and a stage that is over holds nothing else
\* (boot/models.go mountModels).
THEOREM MountsAreVerified == Spec => []MountedIsVerified
<1>1. SecretInv /\ PackInv => MountedIsVerified
  <2> SUFFICES ASSUME SecretInv, PackInv PROVE MountedIsVerified  OBVIOUS
  <2>1. \A p \in DOMAIN mounts : \E j \in Mounted : p = Target(j)  BY DEF PackInv, MountInv
  <2>2. \A p \in DOMAIN mounts : Verified(mounts[p])  BY <2>1, MountedOne
  <2>3. ASSUME NEW p \in DOMAIN mounts, NEW q \in DOMAIN mounts, mounts[p].dev = mounts[q].dev
        PROVE  p = q
    <3>1. PICK j \in Mounted : p = Target(j)  BY <2>1
    <3>2. PICK k \in Mounted : q = Target(k)  BY <2>1
    <3>3. Layer("verity", j) = Layer("verity", k)
      <4>1. mounts[p] = [dev |-> Layer("verity", j), model |-> j]  BY <3>1 DEF PackInv, MountInv
      <4>2. mounts[q] = [dev |-> Layer("verity", k), model |-> k]  BY <3>2 DEF PackInv, MountInv
      <4> QED BY <2>3, <4>1, <4>2
    <3>4. j \in Picked /\ k \in Picked  BY DEF Picked, PackInv, CurInv, Mounted
    <3>5. j = k  BY <3>3, <3>4 DEF PackInv, SeenInv, Layer
    <3> QED BY <3>1, <3>2, <3>5
  <2> QED BY <2>2, <2>3, LeftOnes, AllMounted DEF MountedIsVerified
<1> QED BY <1>1, ProvisionInvariance, PTL

=============================================================================
