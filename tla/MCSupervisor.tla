---------------------------- MODULE MCSupervisor ----------------------------
(* A small instance of Supervisor: "shim" has a PID file, "gpu" forks and    *)
(* leaves descendants, both restart; the shim is drained first, the rest     *)
(* after it.                                                                 *)
EXTENDS Supervisor

ShimOnly == <<{"shim"}>>
=============================================================================
