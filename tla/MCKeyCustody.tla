---------------------------- MODULE MCKeyCustody ----------------------------
(* KeyCustody on small instances.                                          *)
EXTENDS KeyCustody, TLC

Symmetry == Permutations(Consoles) \cup Permutations(LocalKeys \ Genesis)

=============================================================================
