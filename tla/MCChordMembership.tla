------------------------- MODULE MCChordMembership --------------------------
(* Instances of ChordMembership. *)
EXTENDS ChordMembership

CONSTANTS a, b, v1, v2

\* The hash of a is the key of a node, the hash of b is on the arc that wraps
\* around; hash_string of a name with bytes above 127 can be negative.
TwoHashes == [k \in {a, b} |-> IF k = a THEN 3 ELSE -4]
=============================================================================
