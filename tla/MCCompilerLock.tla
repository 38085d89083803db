--------------------------- MODULE MCCompilerLock ---------------------------
(* CompilerLock on small instances.                                        *)
EXTENDS CompilerLock, TLC

\* Every process runs on one host.
SameHost == [p \in Compilers \cup Recoverers |-> "local"]

Symmetry == Permutations(Compilers) \cup Permutations(Recoverers)

=============================================================================
