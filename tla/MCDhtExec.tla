----------------------------- MODULE MCDhtExec ------------------------------
(* Instances of DhtExec: rings with exact successor lists. *)
EXTENDS DhtExec

CONSTANTS a, b, v1, v2

Ref == INSTANCE RingReference WITH Modulus <- 16

ExactLists == [n \in Node |-> Ref!ExactSuccessors(Node, n)]

\* The hash of a is the key of a node, the hash of b is on the arc that wraps
\* around; hash_string of a name with bytes above 127 can be negative.
TwoHashes == [k \in {a, b} |-> IF k = a THEN 3 ELSE -4]
=============================================================================
