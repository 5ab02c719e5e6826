------------------------------ MODULE MCBrowsing ------------------------------
(* Browsing on small instances.                                            *)
EXTENDS Browsing

\* The first deck has three notes, one of them with two cards in it.
MCCards ==
  { [id |-> 1, nid |-> 1, did |-> 1], [id |-> 2, nid |-> 2, did |-> 1],
    [id |-> 3, nid |-> 2, did |-> 1], [id |-> 4, nid |-> 3, did |-> 1],
    [id |-> 5, nid |-> 3, did |-> 2] }
=============================================================================
