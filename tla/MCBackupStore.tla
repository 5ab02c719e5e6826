---------------------------- MODULE MCBackupStore ---------------------------
(* BackupStore on small instances.                                         *)
EXTENDS BackupStore, TLC

\* Requests are interchangeable.
WriterSymmetry == Permutations(Writers)
=============================================================================
