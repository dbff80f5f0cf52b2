------------------------------- MODULE Readiness -------------------------------
(***************************************************************************)
(* readinessState of pid1/main.go: the gate between what the supervisor    *)
(* reports of the required services and the readiness file the host sees.  *)
(* Update runs on the threads that emit, Publish and FailClosed on the     *)
(* lifecycle's; each holds the state's mutex throughout.                   *)
(***************************************************************************)
EXTENDS Naturals

CONSTANTS
  Required,    \* the names newReadiness was given
  SetMayFail   \* calls of setReady may fail in this instance

VARIABLES
  required,   \* name -> the last reported readiness
  published,
  failed,
  readyFile,  \* the readiness file exists
  setErr      \* some call of set has failed

rvars == <<required, published, failed, readyFile, setErr>>

allReady(r) == \A n \in Required : r[n]

\* setReady: removing the file or writing it.  A failed removal leaves it; a
\* failed write may have created it already.
setReady(ready) ==
  \/ readyFile' = ready /\ UNCHANGED setErr
  \/ SetMayFail /\ setErr' = TRUE /\ readyFile' \in {readyFile, readyFile \/ ready}

Init ==
  /\ required = [n \in Required |-> FALSE]
  /\ published = FALSE /\ failed = FALSE /\ readyFile = FALSE /\ setErr = FALSE

\* A report for a name that is not expected, or after FailClosed, is dropped.
UpdateIgnored(n) ==
  /\ n \notin Required \/ failed
  /\ UNCHANGED rvars

\* Mutant of Update: the last report alone decides.
UpdateLastReport(n, ready) ==
  /\ n \in Required /\ ~failed
  /\ required' = [required EXCEPT ![n] = ready]
  /\ IF published THEN setReady(ready) ELSE UNCHANGED <<readyFile, setErr>>
  /\ UNCHANGED <<published, failed>>

\* Mutant of Update: a report that comes after FailClosed counts.
UpdateAfterFailure(n, ready) ==
  /\ n \in Required
  /\ required' = [required EXCEPT ![n] = ready]
  /\ IF published THEN setReady(allReady(required')) ELSE UNCHANGED <<readyFile, setErr>>
  /\ UNCHANGED <<published, failed>>

Update(n, ready) ==
  /\ n \in Required /\ ~failed
  /\ required' = [required EXCEPT ![n] = ready]
  /\ IF published THEN setReady(allReady(required')) ELSE UNCHANGED <<readyFile, setErr>>
  /\ UNCHANGED <<published, failed>>

Publish ==
  /\ published' = TRUE
  /\ setReady(~failed /\ allReady(required))
  /\ UNCHANGED <<required, failed>>

FailClosed ==
  /\ failed' = TRUE
  /\ setReady(FALSE)
  /\ UNCHANGED <<required, published>>

Next ==
  \/ \E n \in Required, ready \in BOOLEAN : Update(n, ready)
  \/ Publish
  \/ FailClosed

Spec == Init /\ [][Next]_rvars

-------------------------------------------------------------------------------
\* Every variable has its shape.
TypeOK ==
  /\ required \in [Required -> BOOLEAN]
  /\ published \in BOOLEAN /\ failed \in BOOLEAN
  /\ readyFile \in BOOLEAN /\ setErr \in BOOLEAN

\* While the file system obeys, the file says exactly this: readiness was
\* published, has not been failed, and every required service's last report was
\* ready, whatever order reports, Publish and FailClosed came in.
FileIsTruth ==
  ~setErr => (readyFile <=> published /\ ~failed /\ allReady(required))

\* FailClosed is final even when the file system fails: no later report or
\* publication brings the file back.
NeverReadyAgain == [][failed => failed' /\ (readyFile' => readyFile)]_rvars
================================================================================
