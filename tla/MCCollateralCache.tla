-------------------------- MODULE MCCollateralCache --------------------------
(* Two callers; lifetimes on both sides of the refresh lead, and none at all. *)
EXTENDS CollateralCache
==============================================================================
