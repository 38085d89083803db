----------------------------- MODULE MCOntology -----------------------------
(* Instances of Ontology for TLC. *)
EXTENDS Ontology

CONSTANTS r1, r2

\* r2 is related to r1, contradicts it and supersedes it.
SecondForFirst == {<<r2, r1>>}

\* A grant that has ended when the records begin that name it, and one that does not end
ShortAndLong == {<<1, 2>>, <<1, Forever>>}
=============================================================================
