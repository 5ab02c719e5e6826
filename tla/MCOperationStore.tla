-------------------------- MODULE MCOperationStore --------------------------
(* OperationStore on small instances.                                      *)
EXTENDS OperationStore, TLC
=============================================================================
