------------------------------- MODULE MCVolume -------------------------------
(* Every mode, with and without a register; two keys, so that a wrong one can *)
(* be tried; two boots.                                                       *)
EXTENDS Volume
===============================================================================
