----------------------------- MODULE MCDhtCrash -----------------------------
(* Instances of DhtCrash: a ring with exact successor lists. *)
EXTENDS DhtCrash, TLC

CONSTANTS a, b, v1, c1, c2, p1

Ref == INSTANCE RingReference WITH Modulus <- 16

ExactLists == [n \in Node |-> Ref!ExactSuccessors(Node, n)]

\* The hash of a is the key of a node, that of b on the arc that wraps around.
TwoHashes == [k \in Name |-> IF k = a THEN 3 ELSE -4]

OneServer == [c \in Client |-> p1]

Put == [op |-> "add", name |-> a, val |-> v1]
Remove == [op |-> "delete", name |-> a, val |-> Absent]
Read == [op |-> "get", name |-> a, val |-> Absent]

OneDeletesOneReads == (c1 :> {Put, Remove}) @@ (c2 :> {Put, Read})
=============================================================================
