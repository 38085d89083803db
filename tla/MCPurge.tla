------------------------------ MODULE MCPurge ------------------------------
(* Instances of Purge for TLC: a capture and what is derived from it, an   *)
(* ingest item scoped to the capture, and a business node.                *)
EXTENDS Purge, TLC

CONSTANTS c1, p1, s1, i1, b1, w1, x1, x2, q1, v1, v2, op

MCWordsOf == [c \in Captures |-> w1]
MCSessionOf == [c \in Captures \cup {i1} |-> IF c = c1 THEN x1 ELSE x2]
MCSourceOf == [p \in {p1} |-> c1]
MCSuccessorOf == [p \in {p1} |-> s1]
MCScopeNodeOf == [i \in {i1} |-> c1]
MCRelatable == {<<p1, c1>>, <<b1, c1>>}
MCReviewable == {p1}

Alike == Permutations(Derivers)
=============================================================================
