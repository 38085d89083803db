------------------------------ MODULE CanonOnce ------------------------------
(* What the canonical store promises about captures: the set of captured   *)
(* envelopes only grows, and no two of them are the same input event or    *)
(* the same operator words.                                                *)

CONSTANTS Envelopes, EventOf, TextOf

VARIABLE captured

Distinct(S) ==
    \A e, f \in S : e # f => EventOf[e] # EventOf[f] /\ TextOf[e] # TextOf[f]

Init == captured = {}

\* One committed batch.
Append ==
    \E S \in SUBSET Envelopes :
        /\ Distinct(captured \cup S)
        /\ captured' = captured \cup S

Spec == Init /\ [][Append]_captured

=============================================================================
