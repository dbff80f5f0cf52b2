------------------------------- MODULE Workspace -------------------------------
(***************************************************************************)
(* What opening an encrypted volume promises its caller: a disk takes the  *)
(* first key it is formatted under and keeps it; only that key opens it;   *)
(* it is open at most once in a boot; and the seal register is extended,   *)
(* where it is at all, in the step that opens.  Volume implements this     *)
(* specification and Enroll is built on it.                                *)
(***************************************************************************)
EXTENDS Sequences

CONSTANTS Keys, NoKey

VARIABLES
  diskKey,   \* the key of the disk's filesystem
  opened,    \* the key the volume was opened with in this boot
  seals      \* what the register was extended with in this boot

wvars == <<diskKey, opened, seals>>

Init ==
  /\ diskKey \in Keys \cup {NoKey}
  /\ opened = NoKey /\ seals = <<>>

\* A blank disk is formatted; the call that did it may still fail.
Initialize(k) ==
  /\ diskKey = NoKey /\ opened = NoKey
  /\ diskKey' = k /\ UNCHANGED <<opened, seals>>

Open(k) ==
  /\ diskKey = k /\ opened = NoKey
  /\ opened' = k /\ seals' \in {seals, Append(seals, k)}
  /\ UNCHANGED diskKey

\* The machine goes down: what it was opened with and sealed to is forgotten.
Down ==
  /\ opened' = NoKey /\ seals' = <<>>
  /\ UNCHANGED diskKey

Next == (\E k \in Keys : Initialize(k) \/ Open(k)) \/ Down

Spec == Init /\ [][Next]_wvars
================================================================================
