-------------------------- MODULE MCGPUAttestation --------------------------
(* Two GPUs for the eight of an HGX board, two switches for its four.      *)
EXTENDS GPUAttestation, TLC

BothArches  == {"HOPPER", "BLACKWELL"}
FewMinors   == 0..2
GPUSymmetry == Permutations(GPUs)
=============================================================================
