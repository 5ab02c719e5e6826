-------------------------- MODULE MCDatabaseSession -------------------------
(* DatabaseSession on small instances.                                     *)
EXTENDS DatabaseSession, TLC
=============================================================================
