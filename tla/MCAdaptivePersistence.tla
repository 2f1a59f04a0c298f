------------------------ MODULE MCAdaptivePersistence ------------------------
(* Several processes on one persisted stream, for TLC.                     *)
EXTENDS AdaptivePersistence, TLC

\* The processes run the same code; the properties checked are safety.
Symmetry == Permutations(Procs)
=============================================================================
