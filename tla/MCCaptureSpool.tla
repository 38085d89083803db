--------------------------- MODULE MCCaptureSpool ---------------------------
(* CaptureSpool on small instances.                                        *)
EXTENDS CaptureSpool, TLC

CONSTANTS a, a2, b, x, n1, t1, t2

\* a and a2: one event id, different bytes.  b repeats a's words under another
\* event id and has a node id of a2's.  x is malformed.  A copy of a may lie
\* under b's name.
ReusedPathOf == a :> 1 @@ a2 :> 1 @@ b :> 2 @@ x :> 2
ReusedTextOf == a :> t1 @@ a2 :> t2 @@ b :> t1 @@ x :> t2
ReusedStampOf == a :> 1 @@ a2 :> 2 @@ b :> 1 @@ x :> 2
ReusedSharesNode == {<<a2, b>>, <<b, a2>>}
ReusedForeignFiles == {<<2, x>>, <<2, a>>}

\* Event ids are unique; b, the older one, repeats a's words.
UniquePathOf == a :> 1 @@ b :> 2 @@ x :> 2
UniqueTextOf == a :> t1 @@ b :> t1 @@ x :> t2
UniqueStampOf == a :> 2 @@ b :> 1 @@ x :> 2
UniqueForeignFiles == {<<2, x>>}

\* One installation.
OneNode == [p \in Paths |-> n1]

Symmetry == Permutations(Passes)

=============================================================================
