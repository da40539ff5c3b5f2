-------------------------- MODULE MCBackupRestore --------------------------
(* Instances of BackupRestore for TLC.                                       *)
EXTENDS BackupRestore, TLC

Symmetry == Permutations(Req) \cup Permutations(Ino)

\* The clock between two snapshots: a second or more, less than a second, or an
\* hour back at the end of summer time.
Apart == {1}
SameSecond == {0, 1}

=============================================================================
