---------------------------- MODULE MCBootStages ----------------------------
(* The two images, with the stages that write what the shim waits for.     *)
EXTENDS BootStages

TwoImages      == {"inference", "sandbox"}
ShortBootPlan  == <<"identity", "certificate", "models">>
ShortWorkPlan  == [m \in TwoImages |->
                     IF m = "inference" THEN <<"firewall", "containers">> ELSE <<"sandbox">>]
ShimArtifacts  == <<"certificate", "identity">>
=============================================================================
