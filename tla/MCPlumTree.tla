------------------------------ MODULE MCPlumTree ------------------------------
(***************************************************************************)
(* Three nodes, each a peer of the others, and a message from each of two. *)
(* Earlier messages have made the link of n1 and n3 lazy.  One peering may *)
(* be dropped and made again, one node may be reset.                       *)
(***************************************************************************)
EXTENDS PlumTree

CONSTANTS n1, n2, n3, m1, m2

Pruned == [n \in Node |-> [p \in Node \ {n} |-> IF n2 \in {n, p} THEN EAGER ELSE LAZY]]

MCChurn == {<<n1, n2>>}

MCOrigins == {<<n1, m1>>, <<n2, m2>>}
=============================================================================
