---------------------------- MODULE MCCleanerRun ----------------------------
(* CleanerRun on small instances.                                          *)
EXTENDS CleanerRun, TLC
=============================================================================
