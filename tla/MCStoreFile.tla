---------------------------- MODULE MCStoreFile ----------------------------
(* Instances of StoreFile for TLC.  Sessions and backups are interchangeable. *)
EXTENDS StoreFile, TLC

Symmetry == Permutations(Writers) \cup Permutations(Backups)
=============================================================================
