------------------------------ MODULE MCTrust ------------------------------
(* Instances of Trust for TLC.  Machines are interchangeable. *)
EXTENDS Trust, TLC

Symmetry == Permutations(Machines)
=============================================================================
