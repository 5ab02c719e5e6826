------------------------------- MODULE MCLogHub -------------------------------
(* LogHub on small instances.                                              *)
EXTENDS LogHub, TLC

\* The second event is of a level without a filter.
SecondDiffers == [e \in 1..MaxEvents |-> IF e = 2 THEN "debug" ELSE "info"]
=============================================================================
