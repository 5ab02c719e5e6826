----------------------------- MODULE MCCollection ----------------------------
(* Collection on small instances.                                          *)
EXTENDS Collection, TLC

MCInitialName ==
  [d \in Decks |-> [base |-> IF d = 1 THEN "a" ELSE "b", upper |-> FALSE]]
\* Note 1 has one field, note 2 has two and two cards in the first deck.
MCFields == [n \in Notes |-> n]
MCCards ==
  { [id |-> 1, nid |-> 1, did |-> 1], [id |-> 2, nid |-> 2, did |-> 1],
    [id |-> 3, nid |-> 2, did |-> 1], [id |-> 4, nid |-> 1, did |-> 2] }
Symmetry == Permutations(Requests)
=============================================================================
