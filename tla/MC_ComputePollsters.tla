-------------------------- MODULE MC_ComputePollsters --------------------------
(* Instantiation of ComputePollsters for TLC: three instances. *)
EXTENDS ComputePollsters

CONSTANTS r1, r2, r3

Three == <<r1, r2, r3>>
=============================================================================
