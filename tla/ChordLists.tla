----------------------------- MODULE ChordLists -----------------------------
(***************************************************************************)
(* The arithmetic of the Chord ring: the half-open arc test on node keys,  *)
(* the predecessor test, and the three list operations every membership    *)
(* handler is built from (insert a node, deprecate a node, shift left).    *)
(*                                                                         *)
(* A node is identified with its ring key (node_key).  The code keeps two  *)
(* parallel vectors, one of addresses and one of keys, and updates them    *)
(* together; one list of node keys stands for both.  Lists are sequences   *)
(* of length ListLen indexed from 1; a slot with no neighbour holds the    *)
(* owner of the list itself, as in the code.                               *)
(***************************************************************************)
EXTENDS Integers, Sequences

CONSTANT Level   \* DHT_FAULT_TOLERANCE_LEVEL

ASSUME LevelAssumption == Level \in Nat \ {0}

\* Number of slots of every neighbour list.
ListLen == Level + 1

-----------------------------------------------------------------------------

\* Mutant: the arc test loses its closed end, (a, b) instead of (a, b].
IsInBetweenOpenEnd(n, a, b) ==
    \/ a < b /\ a < n /\ n < b
    \/ b < a /\ (a < n \/ n < b)

\* is_in_between_modular: n lies on the arc (a, b] of the ring.  The arc is
\* empty when a = b.
IsInBetweenModular(n, a, b) ==
    \/ a < b /\ a < n /\ n <= b
    \/ b < a /\ (a < n \/ n <= b)

\* i_am_predecessor_of_key for node self whose immediate successor is succ.
IAmPredecessorOfKey(self, succ, key) ==
    \/ succ = self
    \/ self <= succ /\ self < key /\ key <= succ
    \/ succ < self /\ (self < key \/ key <= succ)

-----------------------------------------------------------------------------

\* shift_left_ereasing_index: drop slot i and fill the last slot with def.
ShiftLeftErasingIndex(l, i, def) ==
    [j \in 1 .. Len(l) |->
        IF j < i THEN l[j] ELSE IF j < Len(l) THEN l[j + 1] ELSE def]

\* The shifting loop of both INSERT handlers: x at slot p, the rest moved
\* right, the last one falls off.
InsertAt(l, p, x) ==
    [j \in 1 .. Len(l) |->
        IF j < p THEN l[j] ELSE IF j = p THEN x ELSE l[j - 1]]

\* The smallest of a nonempty set of slots.
First(slots) == CHOOSE i \in slots : \A j \in slots : i <= j

\* The slot after the first of those whose arc takes the new node; slot 1 when
\* there is none.
FirstPlace(slots) == IF slots = {} THEN 1 ELSE 1 + First(slots)

\* Mutant: the search for the place is skipped, the new node always goes first.
InsertSuccessorFirst(self, l, x) == InsertAt(l, 1, x)

\* CMD_INSERT_SUCCESOR on the successor list l of node self.
InsertSuccessor(self, l, x) ==
    LET arcs  == {i \in 1 .. Len(l) - 1 : IsInBetweenModular(x, l[i], l[i + 1])}
        place == IF l[1] = self THEN 1 ELSE FirstPlace(arcs)
    IN  InsertAt(l, place, x)

\* Mutant: the arc is walked in the direction of the successors.
InsertPredecessorForward(self, l, x) == InsertSuccessor(self, l, x)

\* CMD_INSERT_PREDECESSOR on the predecessor list l of node self.
InsertPredecessor(self, l, x) ==
    LET arcs  == {i \in 1 .. Len(l) - 1 : IsInBetweenModular(x, l[i + 1], l[i])}
        place == IF l[1] = self THEN 1 ELSE FirstPlace(arcs)
    IN  InsertAt(l, place, x)

\* CMD_DEPRECATE_SUCCESORS and CMD_DEPRECATE_PREDECESSORS: erase the first
\* occurrence of x in the list l of node self; nothing when x is not there.
Deprecate(self, l, x) ==
    LET slots == {i \in 1 .. Len(l) : l[i] = x}
    IN  IF slots = {} THEN l ELSE ShiftLeftErasingIndex(l, First(slots), self)
=============================================================================
