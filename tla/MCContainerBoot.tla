--------------------------- MODULE MCContainerBoot ---------------------------
(* Two policies for one network, a closed one, and the toolbox in two.      *)
EXTENDS ContainerBoot, TLC

Declared == [c1 |-> {"a", "t"}, c2 |-> {"b", "t"}, c3 |-> {"a"}]
=============================================================================
