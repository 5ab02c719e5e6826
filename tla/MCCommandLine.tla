---------------------------- MODULE MCCommandLine ---------------------------
(* CommandLine on small instances.                                         *)
EXTENDS CommandLine
=============================================================================
