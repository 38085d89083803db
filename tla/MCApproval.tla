----------------------------- MODULE MCApproval -----------------------------
(* Approval on a small instance.                                           *)
EXTENDS Approval, TLC

CONSTANTS a, b, e

\* A typed proposal, a captured candidate, and a proposed relation of them.
MCEndsOf == e :> {a, b}
MCFirstStatus == a :> "proposed" @@ b :> "candidate" @@ e :> "proposed"

Symmetry == Permutations(Ops) \cup Permutations(Nonces)

=============================================================================
