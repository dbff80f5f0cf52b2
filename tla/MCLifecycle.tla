----------------------------- MODULE MCLifecycle -----------------------------
(* The two images of PID 1, cut down to two services each.                  *)
EXTENDS Lifecycle

\* The sandbox image: the shim, the boot one-shot, then the sandbox itself.
SandboxPlan   == <<"shim", Step, "sandbox">>
SandboxGroups == <<{"shim"}, {"sandbox"}>>
\* The inference image's start: an optional GPU daemon, then the shim.
DevicePlan   == <<"gpu", "shim">>
DeviceGroups == <<{"shim"}>>
\* One service, for the temporal properties.
ShimPlan   == <<Step, "shim">>
=============================================================================
