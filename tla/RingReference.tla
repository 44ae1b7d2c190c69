--------------------------- MODULE RingReference ----------------------------
(***************************************************************************)
(* The neighbour lists a settled ring should have, defined by clockwise    *)
(* distance and without the code's arc test: the reference the list        *)
(* operations of ChordLists are checked against.                           *)
(***************************************************************************)
EXTENDS Integers, FiniteSets

CONSTANTS Level,    \* DHT_FAULT_TOLERANCE_LEVEL
          Modulus   \* larger than the distance of any two keys

\* How far b is from a, going up and around.
Distance(a, b) == (b - a) % Modulus

\* The j-th node clockwise from n on the ring of those nodes.
NthAfter(ring, n, j) ==
    CHOOSE m \in ring \ {n} :
        Cardinality({x \in ring \ {n} : Distance(n, x) <= Distance(n, m)}) = j

\* Successors of n: the nearest ones clockwise, then n itself.
ExactSuccessors(ring, n) ==
    [j \in 1 .. Level + 1 |-> IF j < Cardinality(ring) THEN NthAfter(ring, n, j) ELSE n]

\* Predecessors of n: the nearest ones counterclockwise, then n itself.
ExactPredecessors(ring, n) ==
    [j \in 1 .. Level + 1 |->
        IF j < Cardinality(ring)
        THEN NthAfter(ring, n, Cardinality(ring) - j) ELSE n]

\* The node a hash belongs to: the nearest node at or after it.
ExactOwner(ring, h) ==
    CHOOSE m \in ring : \A x \in ring : Distance(h, m) <= Distance(h, x)

\* The owner and the nodes that replicate for it.
ExactHolders(ring, h) ==
    LET o == ExactOwner(ring, h)
    IN  {o} \cup {NthAfter(ring, o, j) : j \in {i \in 1 .. Level : i < Cardinality(ring)}}
=============================================================================
