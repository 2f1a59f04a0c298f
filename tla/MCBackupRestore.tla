--------------------------- MODULE MCBackupRestore ---------------------------
(* Backups of one runtime and restores from them, for TLC.                 *)
EXTENDS BackupRestore, TLC

\* The callers of one function run the same code; the properties are safety.
Symmetry == Permutations(Backups) \cup Permutations(Restores)
=============================================================================
