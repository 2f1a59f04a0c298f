------------------------ MODULE MCSituationalMemory ------------------------
(* One conversation and one situation for TLC.                             *)
EXTENDS SituationalMemory, TLC

Symmetry == Permutations(Reasons)
=============================================================================
