------------------------------- MODULE MCEnroll -------------------------------
(* Two callers race with one permit, of one boot or of the other, over one   *)
(* disk, two volume keys and two boots.                                      *)
EXTENDS Enroll
===============================================================================
