----------------------- MODULE ChordMembershipProofs ------------------------
(***************************************************************************)
(* The neighbour lists of ChordMembership, for every set of nodes, any     *)
(* order of joins and crashes and any files: once a join or a repair is    *)
(* over they are exactly those of the ring.                                *)
(*                                                                         *)
(* The argument is about what the calls still to be made will do.  Beside  *)
(* the lists as they are stand the calls that will change them (Calls, To) *)
(* and an order among those that matter (InOrder); a list is as good as    *)
(* exact if the calls that are left put into it what it lacks and take out *)
(* what does not belong there (SuccsWill, PredsWill).  A call at the head  *)
(* of todo keeps that, and when todo is empty nothing is left to be done.  *)
(***************************************************************************)
EXTENDS ChordMembership, FiniteSetTheorems, SequenceTheorems, WellFoundedInduction, TLAPS

USE ThreeSlots, NodeAssumption DEF ListLen

-----------------------------------------------------------------------------
(* Rings *)

\* Going up and around from m, x comes before n.
Passed(m, x, n) ==
    IF m < n THEN m < x /\ x < n ELSE m < x \/ x < n

\* n is the first node of R after m.
IsNext(R, m, n) == n \in R /\ \A x \in R : ~Passed(m, x, n)

LEMMA NextUnique ==
    ASSUME NEW R \in SUBSET Int, NEW m \in Int, NEW n, NEW o, IsNext(R, m, n), IsNext(R, m, o)
    PROVE  n = o
BY DEF IsNext, Passed

LEMMA PrevUnique ==
    ASSUME NEW R \in SUBSET Int, NEW m \in R, NEW n \in R, NEW o \in Int,
           IsNext(R, m, o), IsNext(R, n, o)
    PROVE  m = n
BY DEF IsNext, Passed

\* A node that is its own successor is alone.
LEMMA NextAlone ==
    ASSUME NEW R \in SUBSET Int, NEW m \in R, IsNext(R, m, m)
    PROVE  R \subseteq {m}
BY DEF IsNext, Passed

LEMMA NextPair ==
    ASSUME NEW R \in SUBSET Int, NEW m \in R, NEW n \in R, IsNext(R, m, n), IsNext(R, n, m)
    PROVE  R \subseteq {m, n}
BY DEF IsNext, Passed

LEMMA NextTriple ==
    ASSUME NEW R \in SUBSET Int, NEW m \in R, NEW n \in R, NEW o \in R, m # n, n # o, m # o,
           IsNext(R, m, n), IsNext(R, n, o), IsNext(R, o, m)
    PROVE  R \subseteq {m, n, o}
BY DEF IsNext, Passed

\* A node d leaves R \cup {d}.
LEMMA NextWithout ==
    ASSUME NEW R \in SUBSET Int, NEW d \in Int, NEW m \in Int, NEW n,
           IsNext(R \cup {d}, m, n), n # d
    PROVE  IsNext(R, m, n)
BY DEF IsNext

LEMMA NextOver ==
    ASSUME NEW R \in SUBSET Int, NEW d \in Int, d \notin R, NEW m \in R, NEW n \in R,
           IsNext(R \cup {d}, m, d), IsNext(R \cup {d}, d, n)
    PROVE  IsNext(R, m, n)
BY DEF IsNext, Passed

\* A node d joins R, after m.
LEMMA NextWith ==
    ASSUME NEW R \in SUBSET Int, NEW d \in Int, d \notin R, NEW m \in R,
           IsNext(R \cup {d}, m, d), NEW i \in R, NEW j \in R, IsNext(R, i, j), i # m
    PROVE  IsNext(R \cup {d}, i, j)
BY DEF IsNext, Passed

LEMMA NextAfter ==
    ASSUME NEW R \in SUBSET Int, NEW d \in Int, d \notin R, NEW m \in R,
           IsNext(R \cup {d}, m, d), NEW n \in R, IsNext(R, m, n)
    PROVE  IsNext(R \cup {d}, d, n)
BY DEF IsNext, Passed

\* Arcs.
LEMMA ArcNext ==
    ASSUME NEW R \in SUBSET Int, NEW m \in Int, NEW n \in R, NEW x \in R, m # n, IsNext(R, m, n)
    PROVE  IsInBetweenModular(x, m, n) <=> x = n
BY DEF IsNext, Passed, IsInBetweenModular

LEMMA ArcFirst ==
    ASSUME NEW R \in SUBSET Int, NEW m \in R, NEW n \in R, NEW x \in R, m # x, IsNext(R, m, n)
    PROVE  IsInBetweenModular(n, m, x)
BY DEF IsNext, Passed, IsInBetweenModular

LEMMA ArcLast ==
    ASSUME NEW R \in SUBSET Int, NEW m \in R, NEW n \in R, NEW x \in R, m # x, x # n, IsNext(R, m, n)
    PROVE  IsInBetweenModular(m, x, n)
BY DEF IsNext, Passed, IsInBetweenModular

LEMMA ArcGap ==
    ASSUME NEW R \in SUBSET Int, NEW d \in Int, d \notin R, NEW m \in R,
           IsNext(R \cup {d}, m, d), NEW i \in R, NEW j \in R, i # j, IsNext(R, i, j)
    PROVE  IsInBetweenModular(d, i, j) <=> i = m
BY DEF IsNext, Passed, IsInBetweenModular

LEMMA ArcEmpty == ASSUME NEW x \in Int, NEW m \in Int PROVE ~IsInBetweenModular(x, m, m)
BY DEF IsInBetweenModular

-----------------------------------------------------------------------------
(* The lists of a settled ring *)

\* x, y and z are the successors of n on R, one after the other, until n comes
\* round.
Follow(R, n, x, y, z) ==
    /\ IsNext(R, n, x)
    /\ IF x = n THEN y = n ELSE IsNext(R, x, y)
    /\ IF y = n THEN z = n ELSE IsNext(R, y, z)

\* x, y and z are the predecessors of n on R, one after the other, until n comes
\* round.
Precede(R, n, x, y, z) ==
    /\ x \in R /\ y \in R /\ z \in R
    /\ IsNext(R, x, n)
    /\ IF x = n THEN y = n ELSE IsNext(R, y, x)
    /\ IF y = n THEN z = n ELSE IsNext(R, z, y)

IsSuccs(R, n, l) == Follow(R, n, l[1], l[2], l[3])
IsPreds(R, n, l) == Precede(R, n, l[1], l[2], l[3])

\* Clockwise distance without the remainder.
LEMMA SmallRemainder ==
    ASSUME NEW k \in Nat, k < Modulus PROVE k % Modulus = k /\ (k - Modulus) % Modulus = k
BY ModulusAssumption

LEMMA DistanceValue ==
    ASSUME NEW m \in Node, NEW n \in Node
    PROVE  Ref!Distance(m, n) = IF m <= n THEN n - m ELSE (n - m) + Modulus
<1>1. m \in Int /\ n \in Int /\ m - n < Modulus /\ n - m < Modulus /\ Modulus \in Nat
  BY ModulusAssumption
<1>2. CASE m <= n
  <2>1. n - m \in Nat
    BY <1>1, <1>2
  <2> QED
    BY <1>1, <1>2, <2>1, SmallRemainder DEF Ref!Distance
<1>3. CASE ~(m <= n)
  <2> DEFINE k == (n - m) + Modulus
  <2>1. k \in Nat /\ k < Modulus /\ k - Modulus = n - m
    BY <1>1, <1>3
  <2>2. (k - Modulus) % Modulus = k
    BY <2>1, SmallRemainder
  <2> QED
    BY <1>3, <2>1, <2>2 DEF Ref!Distance
<1> QED
  BY <1>2, <1>3

LEMMA SameCardinality ==
    ASSUME NEW S PROVE Ref!Cardinality(S) = Cardinality(S)
BY Zenon DEF Ref!Cardinality, Cardinality, Ref!IsFiniteSet, IsFiniteSet

\* The nodes of R passed on the way from n to m, and m.
UpTo(R, n, m) == {x \in R \ {n} : Ref!Distance(n, x) <= Ref!Distance(n, m)}

LEMMA NearerPassed ==
    ASSUME NEW n \in Node, NEW x \in Node \ {n}, NEW m \in Node \ {n}
    PROVE  Ref!Distance(n, x) <= Ref!Distance(n, m) <=> ~Passed(n, m, x)
<1>1. m \in Int /\ n \in Int /\ x \in Int /\ Modulus \in Nat
      /\ m - n < Modulus /\ n - m < Modulus /\ x - n < Modulus /\ n - x < Modulus
      /\ m - x < Modulus /\ x - m < Modulus
  BY ModulusAssumption
<1> QED
  BY <1>1, DistanceValue DEF Passed

LEMMA NthIs ==
    ASSUME NEW R \in SUBSET Node, NEW n \in R, NEW m \in R \ {n}, NEW j,
           Cardinality(UpTo(R, n, m)) = j
    PROVE  Ref!NthAfter(R, n, j) = m
<1> DEFINE P(o) == Cardinality({x \in R \ {n} : Ref!Distance(n, x) <= Ref!Distance(n, o)}) = j
<1>1. P(m)
  BY DEF UpTo
<1>2. ASSUME NEW o \in R \ {n}, P(o) PROVE o = m
  <2>1. IsFiniteSet(UpTo(R, n, o)) /\ IsFiniteSet(UpTo(R, n, m))
    BY FS_Subset DEF UpTo
  <2>2. Cardinality(UpTo(R, n, o)) = Cardinality(UpTo(R, n, m))
    BY <1>2 DEF UpTo
  <2>3. \A x \in R \ {n} : Ref!Distance(n, x) \in Int
    BY DistanceValue, ModulusAssumption
  <2>4. UpTo(R, n, o) \subseteq UpTo(R, n, m) \/ UpTo(R, n, m) \subseteq UpTo(R, n, o)
    <3>1. Ref!Distance(n, o) \in Int /\ Ref!Distance(n, m) \in Int
      BY <2>3
    <3>2. CASE Ref!Distance(n, o) <= Ref!Distance(n, m)
      <4>1. \A x \in UpTo(R, n, o) : x \in UpTo(R, n, m)
        BY <2>3, <3>1, <3>2 DEF UpTo
      <4> QED
        BY <4>1
    <3>3. CASE Ref!Distance(n, m) <= Ref!Distance(n, o)
      <4>1. \A x \in UpTo(R, n, m) : x \in UpTo(R, n, o)
        BY <2>3, <3>1, <3>3 DEF UpTo
      <4> QED
        BY <4>1
    <3> QED
      BY <3>1, <3>2, <3>3
  <2>5. UpTo(R, n, o) = UpTo(R, n, m)
    BY <2>1, <2>2, <2>4, FS_Subset
  <2>6. o \in UpTo(R, n, m) /\ m \in UpTo(R, n, o)
    BY <2>3, <2>5 DEF UpTo
  <2>7. ~Passed(n, m, o) /\ ~Passed(n, o, m)
    BY <2>6, NearerPassed DEF UpTo
  <2> QED
    BY <2>7 DEF Passed
<1> HIDE DEF P
<1>3. (CHOOSE o \in R \ {n} : P(o)) = m
  BY <1>1, <1>2
<1> QED
  BY <1>3, SameCardinality DEF P, Ref!NthAfter

LEMMA UpToIs ==
    ASSUME NEW R \in SUBSET Node, NEW n \in R, NEW m \in R \ {n}
    PROVE  UpTo(R, n, m) = {x \in R \ {n} : ~Passed(n, m, x)}
<1>1. \A x \in R \ {n} : Ref!Distance(n, x) <= Ref!Distance(n, m) <=> ~Passed(n, m, x)
  BY NearerPassed
<1> QED
  BY <1>1 DEF UpTo

LEMMA CountTwo ==
    ASSUME NEW x, NEW y, x # y
    PROVE  IsFiniteSet({x, y}) /\ Cardinality({x, y}) = 2
<1>1. IsFiniteSet({x}) /\ Cardinality({x}) = 1
  BY FS_Singleton
<1>2. {x, y} = {x} \cup {y} /\ y \notin {x}
  OBVIOUS
<1>3. Cardinality({x} \cup {y}) = Cardinality({x}) + 1 /\ IsFiniteSet({x} \cup {y})
  BY <1>1, <1>2, FS_AddElement
<1> QED
  BY <1>1, <1>2, <1>3

LEMMA CountThree ==
    ASSUME NEW x, NEW y, NEW z, x # y, y # z, x # z
    PROVE  IsFiniteSet({x, y, z}) /\ Cardinality({x, y, z}) = 3
<1>1. {x, y, z} = {x, y} \cup {z} /\ z \notin {x, y}
  OBVIOUS
<1>2. IsFiniteSet({x, y}) /\ Cardinality({x, y}) = 2
  BY CountTwo
<1>3. Cardinality({x, y} \cup {z}) = Cardinality({x, y}) + 1 /\ IsFiniteSet({x, y} \cup {z})
  BY <1>1, <1>2, FS_AddElement
<1> QED
  BY <1>1, <1>2, <1>3

LEMMA CountFour ==
    ASSUME NEW w, NEW x, NEW y, NEW z, w # x, w # y, w # z, x # y, x # z, y # z
    PROVE  Cardinality({w, x, y, z}) = 4
<1>1. {w, x, y, z} = {w, x, y} \cup {z} /\ z \notin {w, x, y}
  OBVIOUS
<1>2. IsFiniteSet({w, x, y}) /\ Cardinality({w, x, y}) = 3
  BY CountThree
<1>3. Cardinality({w, x, y} \cup {z}) = Cardinality({w, x, y}) + 1
  BY <1>1, <1>2, FS_AddElement
<1> QED
  BY <1>1, <1>2, <1>3

\* The nodes that are passed on the way to the first three after n.
LEMMA FirstThree ==
    ASSUME NEW R \in SUBSET Int, NEW n \in R, NEW x \in R, NEW y \in R, NEW z \in R,
           x # n, IsNext(R, n, x)
    PROVE  /\ \A o \in R \ {n} : ~Passed(n, x, o) <=> o = x
           /\ y # n /\ IsNext(R, x, y) =>
                 x # y /\ \A o \in R \ {n} : ~Passed(n, y, o) <=> o = x \/ o = y
           /\ y # n /\ IsNext(R, x, y) /\ z # n /\ IsNext(R, y, z) =>
                 /\ x # y /\ y # z /\ x # z
                 /\ \A o \in R \ {n} : ~Passed(n, z, o) <=> o = x \/ o = y \/ o = z
<1>1. \A o \in R \ {n} : ~Passed(n, x, o) <=> o = x
  BY DEF IsNext, Passed
<1>2. ASSUME y # n, IsNext(R, x, y)
      PROVE  x # y /\ \A o \in R \ {n} : ~Passed(n, y, o) <=> o = x \/ o = y
  BY <1>2 DEF IsNext, Passed
<1>3. ASSUME y # n, IsNext(R, x, y), z # n, IsNext(R, y, z)
      PROVE  /\ x # y /\ y # z /\ x # z
             /\ \A o \in R \ {n} : ~Passed(n, z, o) <=> o = x \/ o = y \/ o = z
  <2>1. x # y /\ y # z /\ x # z
    BY <1>3 DEF IsNext, Passed
  <2> QED
    BY <1>3, <2>1 DEF IsNext, Passed
<1> QED
  BY <1>1, <1>2, <1>3

\* The nodes that are not passed on the way to the last three before n.
LEMMA LastThree ==
    ASSUME NEW R \in SUBSET Int, NEW n \in R, NEW x \in R, NEW y \in R, NEW z \in R,
           x # n, IsNext(R, x, n)
    PROVE  /\ \A o \in R \ {n} : ~Passed(n, x, o)
           /\ y # n /\ IsNext(R, y, x) =>
                 x # y /\ \A o \in R \ {n} : ~Passed(n, y, o) <=> o # x
           /\ y # n /\ IsNext(R, y, x) /\ z # n /\ IsNext(R, z, y) =>
                 /\ x # y /\ y # z /\ x # z
                 /\ \A o \in R \ {n} : ~Passed(n, z, o) <=> o # x /\ o # y
<1>1. \A o \in R \ {n} : ~Passed(n, x, o)
  BY DEF IsNext, Passed
<1>2. ASSUME y # n, IsNext(R, y, x)
      PROVE  x # y /\ \A o \in R \ {n} : ~Passed(n, y, o) <=> o # x
  BY <1>2 DEF IsNext, Passed
<1>3. ASSUME y # n, IsNext(R, y, x), z # n, IsNext(R, z, y)
      PROVE  /\ x # y /\ y # z /\ x # z
             /\ \A o \in R \ {n} : ~Passed(n, z, o) <=> o # x /\ o # y
  <2>1. x # y /\ y # z /\ x # z
    BY <1>3 DEF IsNext, Passed
  <2> QED
    BY <1>3, <2>1 DEF IsNext, Passed
<1> QED
  BY <1>1, <1>2, <1>3

LEMMA AtLeastFour ==
    ASSUME NEW R \in SUBSET Node, NEW w \in R, NEW x \in R, NEW y \in R, NEW z \in R,
           w # x, w # y, w # z, x # y, x # z, y # z
    PROVE  Cardinality(R) \in Nat /\ Cardinality(R) >= 4
<1>1. IsFiniteSet(R)
  BY FS_Subset
<1>2. {w, x, y, z} \subseteq R
  OBVIOUS
<1>3. Cardinality({w, x, y, z}) = 4
  BY CountFour
<1>4. Cardinality({w, x, y, z}) <= Cardinality(R)
  BY <1>1, <1>2, FS_Subset
<1>5. Cardinality(R) \in Nat
  BY <1>1, FS_CardinalityType
<1> QED
  BY <1>3, <1>4, <1>5

\* Successors counted one by one are those of the reference.
LEMMA FollowExact ==
    ASSUME NEW R \in SUBSET Node, NEW n \in R, NEW x, NEW y, NEW z, Follow(R, n, x, y, z)
    PROVE  Ref!ExactSuccessors(R, n) =
               [j \in 1 .. 3 |-> IF j = 1 THEN x ELSE IF j = 2 THEN y ELSE z]
<1> DEFINE slot(j) == IF j < Cardinality(R) THEN Ref!NthAfter(R, n, j) ELSE n
           e == [j \in 1 .. 3 |-> slot(j)]
<1>1. Ref!ExactSuccessors(R, n) = e
  BY SameCardinality DEF Ref!ExactSuccessors
<1>2. R \in SUBSET Int /\ n \in R /\ x \in R /\ y \in R /\ z \in R
  BY DEF Follow, IsNext
<1>3. SUFFICES slot(1) = x /\ slot(2) = y /\ slot(3) = z
  BY <1>1, <1>3
<1>4. CASE x = n
  <2>1. y = n /\ z = n
    BY <1>4 DEF Follow
  <2>2. R \subseteq {n}
    BY <1>2, <1>4, NextAlone DEF Follow
  <2>3. R = {n}
    BY <2>2
  <2>4. Cardinality(R) = 1
    BY <2>3, FS_Singleton
  <2> QED
    BY <1>4, <2>1, <2>4
<1>5. ASSUME x # n PROVE Ref!NthAfter(R, n, 1) = x
  <2>1. \A o \in R \ {n} : ~Passed(n, x, o) <=> o = x
    BY <1>2, <1>5, FirstThree DEF Follow
  <2>2. UpTo(R, n, x) = {o \in R \ {n} : ~Passed(n, x, o)}
    BY <1>2, <1>5, UpToIs
  <2>3. UpTo(R, n, x) = {x}
    BY <1>2, <1>5, <2>1, <2>2
  <2>4. Cardinality(UpTo(R, n, x)) = 1
    BY <2>3, FS_Singleton
  <2>5. x \in R \ {n}
    BY <1>2, <1>5
  <2> QED
    BY <2>4, <2>5, NthIs
<1>6. ASSUME x # n, y # n PROVE x # y /\ Ref!NthAfter(R, n, 2) = y
  <2>1. x # y /\ \A o \in R \ {n} : ~Passed(n, y, o) <=> o = x \/ o = y
    BY <1>2, <1>6, FirstThree DEF Follow
  <2>2. UpTo(R, n, y) = {o \in R \ {n} : ~Passed(n, y, o)}
    BY <1>2, <1>6, UpToIs
  <2>3. UpTo(R, n, y) = {x, y}
    BY <1>2, <1>6, <2>1, <2>2
  <2>4. Cardinality(UpTo(R, n, y)) = 2
    BY <2>1, <2>3, CountTwo
  <2>5. y \in R \ {n}
    BY <1>2, <1>6
  <2>6. Ref!NthAfter(R, n, 2) = y
    BY <2>4, <2>5, NthIs
  <2> QED
    BY <2>1, <2>6
<1>7. ASSUME x # n, y # n, z # n PROVE x # z /\ y # z /\ Ref!NthAfter(R, n, 3) = z
  <2>1. /\ x # y /\ y # z /\ x # z
        /\ \A o \in R \ {n} : ~Passed(n, z, o) <=> o = x \/ o = y \/ o = z
    BY <1>2, <1>7, FirstThree DEF Follow
  <2>2. UpTo(R, n, z) = {o \in R \ {n} : ~Passed(n, z, o)}
    BY <1>2, <1>7, UpToIs
  <2>3. UpTo(R, n, z) = {x, y, z}
    BY <1>2, <1>7, <2>1, <2>2
  <2>4. Cardinality(UpTo(R, n, z)) = 3
    BY <2>1, <2>3, CountThree
  <2>5. z \in R \ {n}
    BY <1>2, <1>7
  <2>6. Ref!NthAfter(R, n, 3) = z
    BY <2>4, <2>5, NthIs
  <2> QED
    BY <2>1, <2>6
<1>8. CASE x # n /\ y = n
  <2>1. z = n
    BY <1>8 DEF Follow
  <2>2. R \subseteq {n, x}
    BY <1>2, <1>8, NextPair DEF Follow
  <2>3. R = {n, x}
    BY <1>2, <2>2
  <2>4. Cardinality(R) = 2
    BY <1>8, <2>3, CountTwo
  <2> QED
    BY <1>5, <1>8, <2>1, <2>4
<1>9. CASE x # n /\ y # n /\ z = n
  <2>1. IsNext(R, n, x) /\ IsNext(R, x, y) /\ IsNext(R, y, n)
    BY <1>9 DEF Follow
  <2>2. R \subseteq {n, x, y}
    BY <1>2, <1>6, <1>9, <2>1, NextTriple
  <2>3. R = {n, x, y}
    BY <1>2, <2>2
  <2>4. Cardinality(R) = 3
    BY <1>6, <1>9, <2>3, CountThree
  <2> QED
    BY <1>5, <1>6, <1>9, <2>4
<1>10. CASE x # n /\ y # n /\ z # n
  <2>1. Cardinality(R) \in Nat /\ Cardinality(R) >= 4
    BY <1>2, <1>6, <1>7, <1>10, AtLeastFour
  <2> QED
    BY <1>5, <1>6, <1>7, <1>10, <2>1
<1> QED
  BY <1>4, <1>8, <1>9, <1>10

LEMMA CountWithout ==
    ASSUME NEW R \in SUBSET Node, NEW x \in R
    PROVE  /\ IsFiniteSet(R \ {x}) /\ Cardinality(R) \in Nat
           /\ Cardinality(R \ {x}) = Cardinality(R) - 1
<1>1. IsFiniteSet(R)
  BY FS_Subset
<1> QED
  BY <1>1, FS_RemoveElement, FS_CardinalityType, FS_Subset

\* Predecessors counted one by one are those of the reference.
LEMMA PrecedeExact ==
    ASSUME NEW R \in SUBSET Node, NEW n \in R, NEW x, NEW y, NEW z, Precede(R, n, x, y, z)
    PROVE  Ref!ExactPredecessors(R, n) =
               [j \in 1 .. 3 |-> IF j = 1 THEN x ELSE IF j = 2 THEN y ELSE z]
<1> DEFINE C == Cardinality(R)
           slot(j) == IF j < C THEN Ref!NthAfter(R, n, C - j) ELSE n
           e == [j \in 1 .. 3 |-> slot(j)]
<1>1. Ref!ExactPredecessors(R, n) = e
  BY SameCardinality DEF Ref!ExactPredecessors
<1>2. R \in SUBSET Int /\ n \in R /\ x \in R /\ y \in R /\ z \in R
  BY DEF Precede
<1>3. SUFFICES slot(1) = x /\ slot(2) = y /\ slot(3) = z
  BY <1>1, <1>3
<1>4. CASE x = n
  <2>1. y = n /\ z = n
    BY <1>4 DEF Precede
  <2>2. R \subseteq {n}
    BY <1>2, <1>4, NextAlone DEF Precede
  <2>3. R = {n}
    BY <2>2
  <2>4. C = 1
    BY <2>3, FS_Singleton
  <2> QED
    BY <1>4, <2>1, <2>4
<1>5. C \in Nat /\ Cardinality(R \ {n}) = C - 1
  BY CountWithout
<1>6. ASSUME x # n PROVE Ref!NthAfter(R, n, C - 1) = x
  <2>1. \A o \in R \ {n} : ~Passed(n, x, o)
    BY <1>2, <1>6, LastThree DEF Precede
  <2>2. UpTo(R, n, x) = {o \in R \ {n} : ~Passed(n, x, o)}
    BY <1>2, <1>6, UpToIs
  <2>3. UpTo(R, n, x) = R \ {n}
    BY <2>1, <2>2
  <2>4. x \in R \ {n} /\ Cardinality(UpTo(R, n, x)) = C - 1
    BY <1>2, <1>5, <1>6, <2>3
  <2> QED
    BY <2>4, NthIs
<1>7. ASSUME x # n, y # n PROVE x # y /\ Ref!NthAfter(R, n, C - 2) = y
  <2>1. x # y /\ \A o \in R \ {n} : ~Passed(n, y, o) <=> o # x
    BY <1>2, <1>7, LastThree DEF Precede
  <2>2. UpTo(R, n, y) = {o \in R \ {n} : ~Passed(n, y, o)}
    BY <1>2, <1>7, UpToIs
  <2>3. UpTo(R, n, y) = (R \ {n}) \ {x}
    BY <2>1, <2>2
  <2>4. Cardinality((R \ {n}) \ {x}) = Cardinality(R \ {n}) - 1
    BY <1>2, <1>7, CountWithout
  <2>5. Cardinality(UpTo(R, n, y)) = C - 2
    BY <1>5, <2>3, <2>4
  <2>6. y \in R \ {n}
    BY <1>2, <1>7
  <2>7. Ref!NthAfter(R, n, C - 2) = y
    BY <2>5, <2>6, NthIs
  <2> QED
    BY <2>1, <2>7
<1>8. ASSUME x # n, y # n, z # n PROVE x # z /\ y # z /\ Ref!NthAfter(R, n, C - 3) = z
  <2>1. /\ x # y /\ y # z /\ x # z
        /\ \A o \in R \ {n} : ~Passed(n, z, o) <=> o # x /\ o # y
    BY <1>2, <1>8, LastThree DEF Precede
  <2>2. UpTo(R, n, z) = {o \in R \ {n} : ~Passed(n, z, o)}
    BY <1>2, <1>8, UpToIs
  <2>3. UpTo(R, n, z) = ((R \ {n}) \ {x}) \ {y}
    BY <2>1, <2>2
  <2>4. Cardinality((R \ {n}) \ {x}) = Cardinality(R \ {n}) - 1
    BY <1>2, <1>8, CountWithout
  <2>5. Cardinality(((R \ {n}) \ {x}) \ {y}) = Cardinality((R \ {n}) \ {x}) - 1
    BY <1>2, <1>8, <2>1, CountWithout
  <2>6. Cardinality(UpTo(R, n, z)) = C - 3
    BY <1>5, <2>3, <2>4, <2>5
  <2>7. z \in R \ {n}
    BY <1>2, <1>8
  <2>8. Ref!NthAfter(R, n, C - 3) = z
    BY <2>6, <2>7, NthIs
  <2> QED
    BY <2>1, <2>8
<1>9. CASE x # n /\ y = n
  <2>1. z = n
    BY <1>9 DEF Precede
  <2>2. R \subseteq {n, x}
    BY <1>2, <1>9, NextPair DEF Precede
  <2>3. R = {n, x}
    BY <1>2, <2>2
  <2>4. C = 2
    BY <1>9, <2>3, CountTwo
  <2> QED
    BY <1>6, <1>9, <2>1, <2>4
<1>10. CASE x # n /\ y # n /\ z = n
  <2>1. IsNext(R, n, y) /\ IsNext(R, y, x) /\ IsNext(R, x, n)
    BY <1>10 DEF Precede
  <2>2. R \subseteq {n, y, x}
    BY <1>2, <1>7, <1>10, <2>1, NextTriple
  <2>3. R = {n, y, x}
    BY <1>2, <2>2
  <2>4. C = 3
    BY <1>7, <1>10, <2>3, CountThree
  <2> QED
    BY <1>6, <1>7, <1>10, <2>4
<1>11. CASE x # n /\ y # n /\ z # n
  <2>1. C \in Nat /\ C >= 4
    BY <1>2, <1>7, <1>8, <1>11, AtLeastFour
  <2> QED
    BY <1>6, <1>7, <1>8, <1>11, <2>1
<1> QED
  BY <1>4, <1>9, <1>10, <1>11

-----------------------------------------------------------------------------
(* What the operations on lists do, slot by slot *)

List == [1 .. 3 -> Node]

LEMMA ListLength == ASSUME NEW l \in List PROVE Len(l) = 3 /\ l \in Seq(Node)
<1>1. l \in Seq(Node)
  BY SeqDef DEF List
<1>2. DOMAIN l = 1 .. 3 /\ DOMAIN l = 1 .. Len(l) /\ Len(l) \in Nat
  BY <1>1, LenProperties DEF List
<1> QED
  BY <1>1, <1>2

LEMMA FirstOf ==
    ASSUME NEW S \in SUBSET (1 .. 3), S # {}
    PROVE  First(S) = IF 1 \in S THEN 1 ELSE IF 2 \in S THEN 2 ELSE 3
<1> DEFINE f == IF 1 \in S THEN 1 ELSE IF 2 \in S THEN 2 ELSE 3
<1>1. f \in S /\ \A j \in S : f <= j
  <2>1. \A j \in S : j = 1 \/ j = 2 \/ j = 3
    OBVIOUS
  <2>2. PICK k \in S : TRUE
    OBVIOUS
  <2>3. f \in S
    BY <2>1, <2>2
  <2>4. \A j \in S : f <= j
    BY <2>1
  <2> QED
    BY <2>3, <2>4
<1>2. \A i \in S : (\A j \in S : i <= j) => i = f
  BY <1>1
<1> HIDE DEF f
<1>3. (CHOOSE i \in S : \A j \in S : i <= j) = f
  BY <1>1, <1>2
<1> QED
  BY <1>3 DEF First, f

\* The list of those three.
Three(x, y, z) == [j \in 1 .. 3 |-> IF j = 1 THEN x ELSE IF j = 2 THEN y ELSE z]

LEMMA ThreeSame ==
    ASSUME NEW l \in List PROVE l = Three(l[1], l[2], l[3])
BY DEF List, Three

LEMMA InsertAtThree ==
    ASSUME NEW l \in List, NEW x \in Node
    PROVE  /\ InsertAt(l, 1, x) = Three(x, l[1], l[2])
           /\ InsertAt(l, 2, x) = Three(l[1], x, l[2])
           /\ InsertAt(l, 3, x) = Three(l[1], l[2], x)
<1>1. ASSUME NEW p \in 1 .. 3 PROVE InsertAt(l, p, x) = [j \in 1 .. 3 |->
                              IF j < p THEN l[j] ELSE IF j = p THEN x ELSE l[j - 1]]
  BY ListLength DEF InsertAt
<1> QED
  BY <1>1 DEF Three

LEMMA InsertSuccessorThree ==
    ASSUME NEW l \in List, NEW x \in Node, NEW m \in Node
    PROVE  InsertSuccessor(m, l, x) =
               IF l[1] = m THEN Three(x, l[1], l[2])
               ELSE IF IsInBetweenModular(x, l[1], l[2]) THEN Three(l[1], x, l[2])
               ELSE IF IsInBetweenModular(x, l[2], l[3]) THEN Three(l[1], l[2], x)
               ELSE Three(x, l[1], l[2])
<1> DEFINE arcs == {i \in 1 .. Len(l) - 1 : IsInBetweenModular(x, l[i], l[i + 1])}
<1>1. arcs \in SUBSET (1 .. 2) /\ (1 \in arcs <=> IsInBetweenModular(x, l[1], l[2]))
      /\ (2 \in arcs <=> IsInBetweenModular(x, l[2], l[3]))
  BY ListLength
<1> HIDE DEF arcs
<1>2. arcs # {} => FirstPlace(arcs) = IF 1 \in arcs THEN 2 ELSE 3
  <2>1. arcs # {} => First(arcs) = IF 1 \in arcs THEN 1 ELSE IF 2 \in arcs THEN 2 ELSE 3
    BY <1>1, FirstOf
  <2>2. ASSUME NEW i \in arcs PROVE 1 \in arcs \/ 2 \in arcs
    BY <1>1
  <2> QED
    BY <2>1, <2>2 DEF FirstPlace
<1>3. arcs = {} => FirstPlace(arcs) = 1
  BY DEF FirstPlace
<1>4. InsertSuccessor(m, l, x) = InsertAt(l, IF l[1] = m THEN 1 ELSE FirstPlace(arcs), x)
  BY DEF InsertSuccessor, arcs
<1>5. CASE l[1] = m
  BY <1>4, <1>5, InsertAtThree
<1>6. CASE l[1] # m /\ 1 \in arcs
  BY <1>1, <1>2, <1>4, <1>6, InsertAtThree
<1>7. CASE l[1] # m /\ 1 \notin arcs /\ 2 \in arcs
  BY <1>1, <1>2, <1>4, <1>7, InsertAtThree
<1>8. CASE l[1] # m /\ 1 \notin arcs /\ 2 \notin arcs
  <2>1. arcs = {}
    BY <1>1, <1>8
  <2> QED
    BY <1>1, <1>3, <1>4, <1>8, <2>1, InsertAtThree
<1> QED
  BY <1>5, <1>6, <1>7, <1>8

LEMMA InsertPredecessorThree ==
    ASSUME NEW l \in List, NEW x \in Node, NEW m \in Node
    PROVE  InsertPredecessor(m, l, x) =
               IF l[1] = m THEN Three(x, l[1], l[2])
               ELSE IF IsInBetweenModular(x, l[2], l[1]) THEN Three(l[1], x, l[2])
               ELSE IF IsInBetweenModular(x, l[3], l[2]) THEN Three(l[1], l[2], x)
               ELSE Three(x, l[1], l[2])
<1> DEFINE arcs == {i \in 1 .. Len(l) - 1 : IsInBetweenModular(x, l[i + 1], l[i])}
<1>1. arcs \in SUBSET (1 .. 2) /\ (1 \in arcs <=> IsInBetweenModular(x, l[2], l[1]))
      /\ (2 \in arcs <=> IsInBetweenModular(x, l[3], l[2]))
  BY ListLength
<1> HIDE DEF arcs
<1>2. arcs # {} => FirstPlace(arcs) = IF 1 \in arcs THEN 2 ELSE 3
  <2>1. arcs # {} => First(arcs) = IF 1 \in arcs THEN 1 ELSE IF 2 \in arcs THEN 2 ELSE 3
    BY <1>1, FirstOf
  <2>2. ASSUME NEW i \in arcs PROVE 1 \in arcs \/ 2 \in arcs
    BY <1>1
  <2> QED
    BY <2>1, <2>2 DEF FirstPlace
<1>3. arcs = {} => FirstPlace(arcs) = 1
  BY DEF FirstPlace
<1>4. InsertPredecessor(m, l, x) = InsertAt(l, IF l[1] = m THEN 1 ELSE FirstPlace(arcs), x)
  BY DEF InsertPredecessor, arcs
<1>5. CASE l[1] = m
  BY <1>4, <1>5, InsertAtThree
<1>6. CASE l[1] # m /\ 1 \in arcs
  BY <1>1, <1>2, <1>4, <1>6, InsertAtThree
<1>7. CASE l[1] # m /\ 1 \notin arcs /\ 2 \in arcs
  BY <1>1, <1>2, <1>4, <1>7, InsertAtThree
<1>8. CASE l[1] # m /\ 1 \notin arcs /\ 2 \notin arcs
  <2>1. arcs = {}
    BY <1>1, <1>8
  <2> QED
    BY <1>1, <1>3, <1>4, <1>8, <2>1, InsertAtThree
<1> QED
  BY <1>5, <1>6, <1>7, <1>8

LEMMA ShiftThree ==
    ASSUME NEW l \in List, NEW m \in Node
    PROVE  /\ ShiftLeftErasingIndex(l, 1, m) = Three(l[2], l[3], m)
           /\ ShiftLeftErasingIndex(l, 2, m) = Three(l[1], l[3], m)
           /\ ShiftLeftErasingIndex(l, 3, m) = Three(l[1], l[2], m)
<1>1. ASSUME NEW p \in 1 .. 3 PROVE ShiftLeftErasingIndex(l, p, m) = [j \in 1 .. 3 |->
                              IF j < p THEN l[j] ELSE IF j < 3 THEN l[j + 1] ELSE m]
  BY ListLength DEF ShiftLeftErasingIndex
<1> QED
  BY <1>1 DEF Three

LEMMA DeprecateThree ==
    ASSUME NEW l \in List, NEW d \in Node, NEW m \in Node
    PROVE  Deprecate(m, l, d) =
               IF l[1] = d THEN Three(l[2], l[3], m)
               ELSE IF l[2] = d THEN Three(l[1], l[3], m)
               ELSE IF l[3] = d THEN Three(l[1], l[2], m) ELSE l
<1> DEFINE slots == {i \in 1 .. Len(l) : l[i] = d}
<1>1. slots \in SUBSET (1 .. 3) /\ (1 \in slots <=> l[1] = d) /\ (2 \in slots <=> l[2] = d)
      /\ (3 \in slots <=> l[3] = d)
  BY ListLength
<1> HIDE DEF slots
<1>2. slots # {} => First(slots) = IF 1 \in slots THEN 1 ELSE IF 2 \in slots THEN 2 ELSE 3
  BY <1>1, FirstOf
<1>3. Deprecate(m, l, d) = IF slots = {} THEN l ELSE ShiftLeftErasingIndex(l, First(slots), m)
  BY DEF Deprecate, slots
<1>4. CASE slots = {}
  BY <1>1, <1>3, <1>4
<1>5. CASE 1 \in slots
  BY <1>1, <1>2, <1>3, <1>5, ShiftThree
<1>6. CASE 1 \notin slots /\ 2 \in slots
  BY <1>1, <1>2, <1>3, <1>6, ShiftThree
<1>7. CASE 1 \notin slots /\ 2 \notin slots /\ 3 \in slots
  BY <1>1, <1>2, <1>3, <1>7, ShiftThree
<1> QED
  BY <1>1, <1>4, <1>5, <1>6, <1>7

LEMMA ReplaceFirstThree ==
    ASSUME NEW l \in List, NEW d \in Node, NEW m \in Node
    PROVE  ReplaceFirst(l, d, m) =
               IF l[1] = d THEN Three(m, l[2], l[3])
               ELSE IF l[2] = d THEN Three(l[1], m, l[3])
               ELSE IF l[3] = d THEN Three(l[1], l[2], m) ELSE l
<1> DEFINE slots == {i \in 1 .. Len(l) : l[i] = d}
<1>1. slots \in SUBSET (1 .. 3) /\ (1 \in slots <=> l[1] = d) /\ (2 \in slots <=> l[2] = d)
      /\ (3 \in slots <=> l[3] = d)
  BY ListLength
<1> HIDE DEF slots
<1>2. slots # {} => First(slots) = IF 1 \in slots THEN 1 ELSE IF 2 \in slots THEN 2 ELSE 3
  BY <1>1, FirstOf
<1>3. ReplaceFirst(l, d, m) = IF slots = {} THEN l ELSE [l EXCEPT ![First(slots)] = m]
  BY DEF ReplaceFirst, slots
<1>4. /\ [l EXCEPT ![1] = m] = Three(m, l[2], l[3])
      /\ [l EXCEPT ![2] = m] = Three(l[1], m, l[3])
      /\ [l EXCEPT ![3] = m] = Three(l[1], l[2], m)
  <2>1. ASSUME NEW p \in 1 .. 3
        PROVE  [l EXCEPT ![p] = m] = [j \in 1 .. 3 |-> IF j = p THEN m ELSE l[j]]
    BY DEF List
  <2> QED
    BY <2>1 DEF Three
<1>5. CASE slots = {}
  BY <1>1, <1>3, <1>5
<1>6. CASE 1 \in slots
  BY <1>1, <1>2, <1>3, <1>4, <1>6
<1>7. CASE 1 \notin slots /\ 2 \in slots
  BY <1>1, <1>2, <1>3, <1>4, <1>7
<1>8. CASE 1 \notin slots /\ 2 \notin slots /\ 3 \in slots
  BY <1>1, <1>2, <1>3, <1>4, <1>8
<1> QED
  BY <1>1, <1>5, <1>6, <1>7, <1>8

-----------------------------------------------------------------------------
(* A node joins *)

\* A new node n takes its place among the first three successors of m.
LEMMA PlaceFollows ==
    ASSUME NEW R \in SUBSET Int, NEW n \in Int, n \notin R, NEW p \in R, IsNext(R \cup {n}, p, n),
           NEW m \in R, NEW x \in R, NEW y \in R, NEW z \in R, Follow(R, m, x, y, z),
           m = p \/ x = p \/ y = p
    PROVE  IF x = m THEN Follow(R \cup {n}, m, n, x, y)
           ELSE IF IsInBetweenModular(n, x, y) THEN Follow(R \cup {n}, m, x, n, y)
           ELSE IF IsInBetweenModular(n, y, z) THEN Follow(R \cup {n}, m, x, y, n)
           ELSE Follow(R \cup {n}, m, n, x, y)
<1> DEFINE T == R \cup {n}
<1>1. \A i, j \in R : IsNext(R, i, j) /\ i # p => IsNext(T, i, j)
  BY NextWith
<1>2. \A j \in R : IsNext(R, p, j) => IsNext(T, n, j)
  BY NextAfter
<1>3. \A i, j \in R : i # j /\ IsNext(R, i, j) => (IsInBetweenModular(n, i, j) <=> i = p)
  BY ArcGap
<1>4. IsNext(R, m, x) /\ IsNext(T, p, n) /\ n # m
  BY DEF Follow
<1>5. CASE x = m
  <2>1. y = m /\ z = m
    BY <1>5 DEF Follow
  <2>2. p = m
    BY <1>5, <2>1
  <2>3. IsNext(T, m, n) /\ IsNext(T, n, m)
    BY <1>2, <1>4, <1>5, <2>2
  <2>4. Follow(T, m, n, x, y)
    BY <1>4, <1>5, <2>1, <2>3 DEF Follow
  <2> QED
    BY <1>5, <2>4
<1>6. CASE x # m
  <2>1. IsNext(R, x, y)
    BY <1>6 DEF Follow
  <2>2. x # y
    BY <1>6, <2>1, NextAlone
  <2>3. ASSUME y # m PROVE IsNext(R, y, z) /\ y # z
    <3>1. IsNext(R, y, z)
      BY <2>3 DEF Follow
    <3> QED
      BY <2>2, <3>1, NextAlone
  <2>4. CASE m = p
    <3>1. ~IsInBetweenModular(n, x, y)
      BY <1>3, <1>6, <2>1, <2>2, <2>4
    <3>2. ~IsInBetweenModular(n, y, z)
      <4>1. CASE y = m
        <5>1. z = y
          BY <4>1 DEF Follow
        <5> QED
          BY <5>1, ArcEmpty
      <4>2. CASE y # m
        BY <1>3, <2>3, <2>4, <4>2
      <4> QED
        BY <4>1, <4>2
    <3>3. Follow(T, m, n, x, y)
      BY <1>1, <1>2, <1>4, <1>6, <2>1, <2>4 DEF Follow
    <3> QED
      BY <1>6, <3>1, <3>2, <3>3
  <2>5. CASE m # p /\ x = p
    <3>1. IsInBetweenModular(n, x, y)
      BY <1>3, <2>1, <2>2, <2>5
    <3>2. Follow(T, m, x, n, y)
      BY <1>1, <1>2, <1>4, <1>6, <2>1, <2>5 DEF Follow
    <3> QED
      BY <1>6, <3>1, <3>2
  <2>6. CASE m # p /\ x # p /\ y = p
    <3>1. ~IsInBetweenModular(n, x, y)
      BY <1>3, <2>1, <2>2, <2>6
    <3>2. IsInBetweenModular(n, y, z)
      BY <1>3, <2>3, <2>6
    <3>3. Follow(T, m, x, y, n)
      BY <1>1, <1>2, <1>4, <1>6, <2>1, <2>6 DEF Follow
    <3> QED
      BY <1>6, <3>1, <3>2, <3>3
  <2> QED
    BY <2>4, <2>5, <2>6
<1> QED
  BY <1>5, <1>6

\* Nothing changes for a node that has three successors before n.
LEMMA KeepsFollowing ==
    ASSUME NEW R \in SUBSET Int, NEW n \in Int, n \notin R, NEW p \in R, IsNext(R \cup {n}, p, n),
           NEW m \in R, NEW x, NEW y, NEW z, Follow(R, m, x, y, z), m # p, x # p, y # p
    PROVE  Follow(R \cup {n}, m, x, y, z)
<1>1. R \in SUBSET Int /\ n \in Int /\ x \in R /\ y \in R /\ z \in R
  BY DEF Follow, IsNext
<1>2. \A i, j \in R : IsNext(R, i, j) /\ i # p => IsNext(R \cup {n}, i, j)
  BY <1>1, NextWith
<1> QED
  BY <1>1, <1>2 DEF Follow

\* A new node n takes its place among the first three predecessors of m.
LEMMA PlacePrecedes ==
    ASSUME NEW R \in SUBSET Int, NEW n \in Int, n \notin R, NEW p \in R, IsNext(R \cup {n}, p, n),
           NEW q \in R, IsNext(R \cup {n}, n, q),
           NEW m \in R, NEW x \in R, NEW y \in R, NEW z \in R, Precede(R, m, x, y, z),
           m = q \/ x = q \/ y = q
    PROVE  IF x = m THEN Precede(R \cup {n}, m, n, x, y)
           ELSE IF IsInBetweenModular(n, y, x) THEN Precede(R \cup {n}, m, x, n, y)
           ELSE IF IsInBetweenModular(n, z, y) THEN Precede(R \cup {n}, m, x, y, n)
           ELSE Precede(R \cup {n}, m, n, x, y)
<1> DEFINE T == R \cup {n}
<1>1. \A i, j \in R : IsNext(R, i, j) /\ i # p => IsNext(T, i, j)
  BY NextWith
<1>2. IsNext(R, p, q)
  BY NextOver
<1>3. \A i, j \in R : i # j /\ IsNext(R, i, j) => (IsInBetweenModular(n, i, j) <=> i = p)
  BY ArcGap
<1>4. IsNext(R, x, m) /\ IsNext(T, p, n) /\ IsNext(T, n, q) /\ n # m
  BY DEF Precede
<1>5. \A i \in R : IsNext(R, i, q) => i = p
  BY <1>2, PrevUnique
<1>6. \A j \in R : IsNext(R, p, j) => j = q
  BY <1>2, NextUnique
<1>7. CASE x = m
  <2>1. y = m /\ z = m
    BY <1>7 DEF Precede
  <2>2. q = m
    BY <1>7, <2>1
  <2>3. p = m
    BY <1>4, <1>5, <1>7, <2>2
  <2>4. Precede(T, m, n, x, y)
    BY <1>4, <1>7, <2>1, <2>2, <2>3 DEF Precede
  <2> QED
    BY <1>7, <2>4
<1>8. CASE x # m
  <2>1. IsNext(R, y, x)
    BY <1>8 DEF Precede
  <2>2. x # y
    BY <1>8, <2>1, NextAlone
  <2>3. ASSUME y # m PROVE IsNext(R, z, y) /\ y # z
    <3>1. IsNext(R, z, y)
      BY <1>8, <2>3 DEF Precede
    <3> QED
      BY <2>2, <3>1, NextAlone
  <2>4. p # q
    BY <1>2, <2>2, NextAlone
  <2>5. CASE m = q
    <3>1. x = p
      BY <1>4, <1>5, <2>5
    <3>2. ~IsInBetweenModular(n, y, x)
      BY <1>3, <2>1, <2>2, <3>1
    <3>3. ~IsInBetweenModular(n, z, y)
      <4>1. CASE y = m
        <5>1. z = y
          BY <1>8, <4>1 DEF Precede
        <5> QED
          BY <5>1, ArcEmpty
      <4>2. CASE y # m
        <5>1. z # p
          BY <1>6, <2>3, <2>5, <4>2
        <5> QED
          BY <1>3, <2>3, <4>2, <5>1
      <4> QED
        BY <4>1, <4>2
    <3>4. IsNext(T, y, x)
      BY <1>1, <2>1, <2>2, <3>1
    <3>5. Precede(T, m, n, x, y)
      BY <1>4, <1>8, <2>5, <3>1, <3>4 DEF Precede
    <3> QED
      BY <1>8, <3>2, <3>3, <3>5
  <2>6. CASE m # q /\ x = q
    <3>1. y = p
      BY <1>5, <2>1, <2>6
    <3>2. IsInBetweenModular(n, y, x)
      BY <1>3, <2>1, <2>2, <3>1
    <3>3. IsNext(T, x, m)
      BY <1>1, <1>4, <2>2, <2>6, <3>1
    <3>4. Precede(T, m, x, n, y)
      BY <1>4, <1>8, <2>6, <3>1, <3>3 DEF Precede
    <3> QED
      BY <1>8, <3>2, <3>4
  <2>7. CASE m # q /\ x # q /\ y = q
    <3>1. y # m /\ z = p
      BY <1>5, <2>3, <2>7
    <3>2. ~IsInBetweenModular(n, y, x)
      BY <1>3, <2>1, <2>2, <2>4, <2>7
    <3>3. IsInBetweenModular(n, z, y)
      BY <1>3, <2>3, <3>1
    <3>4. IsNext(T, x, m)
      BY <1>1, <1>4, <1>6, <2>7
    <3>5. IsNext(T, y, x)
      BY <1>1, <2>1, <2>4, <2>7
    <3>6. Precede(T, m, x, y, n)
      BY <1>4, <1>8, <2>7, <3>1, <3>4, <3>5 DEF Precede
    <3> QED
      BY <1>8, <3>2, <3>3, <3>6
  <2> QED
    BY <2>5, <2>6, <2>7
<1> QED
  BY <1>7, <1>8

\* Nothing changes for a node that has three predecessors after n.
LEMMA KeepsPreceding ==
    ASSUME NEW R \in SUBSET Int, NEW n \in Int, n \notin R, NEW p \in R, IsNext(R \cup {n}, p, n),
           NEW q \in R, IsNext(R \cup {n}, n, q),
           NEW m \in R, NEW x, NEW y, NEW z, Precede(R, m, x, y, z), m # q, x # q, y # q
    PROVE  Precede(R \cup {n}, m, x, y, z)
<1>1. x \in R /\ y \in R /\ z \in R
  BY DEF Precede
<1>2. \A i, j \in R : IsNext(R, i, j) /\ i # p => IsNext(R \cup {n}, i, j)
  BY NextWith
<1>3. IsNext(R, p, q)
  BY NextOver
<1>4. \A j \in R : IsNext(R, p, j) => j = q
  BY <1>3, NextUnique
<1>5. \A i, j \in R : IsNext(R, i, j) /\ j # q => IsNext(R \cup {n}, i, j)
  BY <1>2, <1>4
<1> QED
  BY <1>1, <1>5 DEF Precede

\* The lists of the new node, from those of its predecessor.
LEMMA NewFollows ==
    ASSUME NEW R \in SUBSET Int, NEW n \in Int, n \notin R, NEW p \in R, IsNext(R \cup {n}, p, n),
           NEW x, NEW y, NEW z, Follow(R, p, x, y, z)
    PROVE  Follow(R \cup {n}, n, x, IF x = p THEN n ELSE y, IF x = p \/ y = p THEN n ELSE z)
<1>1. x \in R /\ y \in R /\ z \in R
  BY DEF Follow, IsNext
<1>2. \A i, j \in R : IsNext(R, i, j) /\ i # p => IsNext(R \cup {n}, i, j)
  BY NextWith
<1>3. \A j \in R : IsNext(R, p, j) => IsNext(R \cup {n}, n, j)
  BY NextAfter
<1> QED
  BY <1>1, <1>2, <1>3 DEF Follow

LEMMA NewPrecedes ==
    ASSUME NEW R \in SUBSET Int, NEW n \in Int, n \notin R, NEW p \in R, IsNext(R \cup {n}, p, n),
           NEW x, NEW y, NEW z, Precede(R, p, x, y, z)
    PROVE  Precede(R \cup {n}, n, p, IF x = p THEN n ELSE x, IF x = p \/ y = p THEN n ELSE y)
<1>1. x \in R /\ y \in R /\ z \in R
  BY DEF Precede
<1>2. \A i, j \in R : IsNext(R, i, j) /\ i # p => IsNext(R \cup {n}, i, j)
  BY NextWith
<1>3. \A j \in R : IsNext(R, p, j) => IsNext(R \cup {n}, n, j)
  BY NextAfter
<1> QED
  BY <1>1, <1>2, <1>3 DEF Precede

\* Those that have n among their first successors are its first predecessors.
LEMMA ReachedFrom ==
    ASSUME NEW R \in SUBSET Int, NEW n \in Int, n \notin R,
           NEW p \in R, NEW p2, NEW p3, Precede(R \cup {n}, n, p, p2, p3),
           NEW m \in R, NEW x, NEW y, NEW z, Follow(R, m, x, y, z)
    PROVE  m \in {p, p2, p3} <=> m = p \/ x = p \/ y = p
<1> DEFINE T == R \cup {n}
<1>1. x \in R /\ y \in R /\ p2 \in T /\ p3 \in T /\ IsNext(T, p, n) /\ p # n /\ m # n
  BY DEF Follow, IsNext, Precede
<1>2. IsNext(T, p2, p) /\ (IF p2 = n THEN p3 = n ELSE IsNext(T, p3, p2))
  BY <1>1 DEF Precede
<1>3. \A i, j \in R : IsNext(R, i, j) /\ i # p => IsNext(T, i, j)
  BY <1>1, NextWith
<1>4. \A i, j \in R : IsNext(T, i, j) => IsNext(R, i, j)
  BY NextWithout
<1>5. \A i, j \in T : \A k \in T : IsNext(T, i, k) /\ IsNext(T, j, k) => i = j
  <2>1. T \in SUBSET Int
    OBVIOUS
  <2> QED
    BY <2>1, PrevUnique
<1>6. \A i, j, k \in R : IsNext(R, i, j) /\ IsNext(R, i, k) => j = k
  BY NextUnique
<1>7. IsNext(R, m, x) /\ (IF x = m THEN y = m ELSE IsNext(R, x, y))
  BY DEF Follow
<1>8. ASSUME m = p2, m # p PROVE x = p
  BY <1>1, <1>2, <1>4, <1>6, <1>7, <1>8
<1>9. ASSUME m = p3, m # p, m # p2 PROVE y = p
  <2>1. p2 \in R /\ IsNext(R, p3, p2) /\ IsNext(R, p2, p)
    BY <1>1, <1>2, <1>4, <1>9
  <2>2. x = p2
    BY <1>1, <1>6, <1>7, <1>9, <2>1
  <2> QED
    BY <1>1, <1>6, <1>7, <1>9, <2>1, <2>2
<1>10. ASSUME m # p, x = p PROVE m = p2
  BY <1>1, <1>2, <1>3, <1>5, <1>7, <1>10
<1>11. ASSUME m # p, x # p, y = p PROVE m = p3
  <2>1. x # m /\ IsNext(T, x, p) /\ IsNext(T, m, x)
    BY <1>1, <1>3, <1>7, <1>11
  <2>2. x = p2
    BY <1>1, <1>2, <1>5, <2>1
  <2> QED
    BY <1>1, <1>2, <1>5, <2>1, <2>2
<1> QED
  BY <1>8, <1>9, <1>10, <1>11

\* Those that have n among their first predecessors are its first successors.
LEMMA ReachedBy ==
    ASSUME NEW R \in SUBSET Int, NEW n \in Int, n \notin R, NEW p \in R, IsNext(R \cup {n}, p, n),
           NEW q \in R, NEW s2, NEW s3, Follow(R \cup {n}, n, q, s2, s3),
           NEW m \in R, NEW x, NEW y, NEW z, Precede(R, m, x, y, z)
    PROVE  m \in {q, s2, s3} <=> m = q \/ x = q \/ y = q
<1> DEFINE T == R \cup {n}
<1>1. x \in R /\ y \in R /\ s2 \in T /\ s3 \in T /\ IsNext(T, n, q) /\ q # n /\ m # n
  BY DEF Follow, IsNext, Precede
<1>2. IsNext(T, q, s2) /\ (IF s2 = n THEN s3 = n ELSE IsNext(T, s2, s3))
  BY <1>1 DEF Follow
<1>3. \A i, j \in R : IsNext(R, i, j) /\ i # p => IsNext(T, i, j)
  BY NextWith
<1>4. \A i, j \in R : IsNext(T, i, j) => IsNext(R, i, j)
  BY NextWithout
<1>5. \A i, j, k \in R : IsNext(R, i, k) /\ IsNext(R, j, k) => i = j
  BY PrevUnique
<1>6. \A i, j, k \in T : IsNext(T, i, j) /\ IsNext(T, i, k) => j = k
  <2>1. T \in SUBSET Int
    OBVIOUS
  <2> QED
    BY <2>1, NextUnique
<1>7. IsNext(R, x, m) /\ (IF x = m THEN y = m ELSE IsNext(R, y, x))
  BY DEF Precede
<1>8. IsNext(R, p, q)
  BY <1>1, NextOver
<1>9. \A i, j \in R : IsNext(R, i, j) /\ j # q => IsNext(T, i, j)
  <2>1. \A j \in R : IsNext(R, p, j) => j = q
    BY <1>8, NextUnique
  <2> QED
    BY <1>3, <2>1
<1>10. ASSUME m = s2, m # q PROVE x = q
  BY <1>1, <1>2, <1>4, <1>5, <1>7, <1>10
<1>11. ASSUME m = s3, m # q, m # s2 PROVE y = q
  <2>1. s2 \in R /\ IsNext(R, s2, s3) /\ IsNext(R, q, s2)
    BY <1>1, <1>2, <1>4, <1>11
  <2>2. x = s2
    BY <1>1, <1>5, <1>7, <1>11, <2>1
  <2> QED
    BY <1>1, <1>5, <1>7, <1>11, <2>1, <2>2
<1>12. ASSUME m # q, x = q PROVE m = s2
  BY <1>1, <1>2, <1>6, <1>7, <1>9, <1>12
<1>13. ASSUME m # q, x # q, y = q PROVE m = s3
  <2>1. x # m /\ IsNext(T, q, x) /\ IsNext(T, x, m)
    BY <1>1, <1>7, <1>9, <1>13
  <2>2. x = s2
    BY <1>1, <1>2, <1>6, <2>1
  <2> QED
    BY <1>1, <1>2, <1>6, <2>1, <2>2
<1> QED
  BY <1>10, <1>11, <1>12, <1>13

-----------------------------------------------------------------------------
(* A node has crashed *)

\* R is not a pair of nodes.
NotTwo(R) == \A i, j \in R : R \subseteq {i, j} => i = j

\* d, which has crashed, comes after n; s and p are the lists of n without it.
Mended(R, d, n, s1, s2, s3, p1, p2, p3) ==
    /\ d \notin R /\ IsNext(R \cup {d}, n, d)
    /\ Follow(R, n, s1, s2, s3) /\ Precede(R, n, p1, p2, p3)
    /\ NotTwo(R)

\* The successors of the two nodes before n.
LEMMA MendFollows ==
    ASSUME NEW R \in SUBSET Int, NEW d \in Int, NEW n \in R,
           NEW s1, NEW s2, NEW s3, NEW p1, NEW p2, NEW p3, Mended(R, d, n, s1, s2, s3, p1, p2, p3),
           NEW m \in R \ {n}, NEW x, NEW y, NEW z, Follow(R \cup {d}, m, x, y, z)
    PROVE  /\ m = p1 => /\ x = n /\ y = d /\ z = s1
                        /\ s1 # s2 /\ s1 # p1 /\ Follow(R, m, n, s1, s2)
                        /\ ~IsInBetweenModular(s2, n, s1)
                        /\ s2 # p1 => IsInBetweenModular(s2, s1, p1)
           /\ m = p2 => /\ p1 # p2 /\ x = p1 /\ y = n /\ z = d
                        /\ Follow(R, m, p1, n, s1)
                        /\ ~IsInBetweenModular(s1, p1, n) /\ IsInBetweenModular(s1, n, p2)
           /\ m # p1 /\ m # p2 => Follow(R, m, x, y, z) /\ x # d /\ y # d /\ z # d
<1> DEFINE T == R \cup {d}
<1>1. /\ d \notin R /\ IsNext(T, n, d) /\ d # n /\ d # m
      /\ s1 \in R /\ s2 \in R /\ s3 \in R /\ p1 \in R /\ p2 \in R /\ p3 \in R
      /\ x \in T /\ y \in T /\ z \in T
      /\ IsNext(R, n, s1) /\ IsNext(R, p1, n) /\ IsNext(T, m, x)
      /\ T \in SUBSET Int
  BY DEF Mended, Follow, Precede, IsNext
<1>2. /\ IF s1 = n THEN s2 = n ELSE IsNext(R, s1, s2)
      /\ IF p1 = n THEN p2 = n ELSE IsNext(R, p2, p1)
      /\ IF x = m THEN y = m ELSE IsNext(T, x, y)
      /\ IF y = m THEN z = m ELSE IsNext(T, y, z)
  BY DEF Mended, Follow, Precede
<1>3. \A i, j \in R : IsNext(R, i, j) /\ i # n => IsNext(T, i, j)
  BY <1>1, NextWith
<1>4. IsNext(T, d, s1)
  BY <1>1, NextAfter
<1>5. \A i, j, k \in T : IsNext(T, i, j) /\ IsNext(T, i, k) => j = k
  BY <1>1, NextUnique
<1>6. \A i, j, k \in T : IsNext(T, i, k) /\ IsNext(T, j, k) => i = j
  BY <1>1, PrevUnique
<1>7. \A i, j \in T : IsNext(T, i, j) /\ j # d /\ i # d => IsNext(R, i, j)
  BY <1>1, NextWithout
<1>8. \A i, j, k \in R : IsNext(R, i, j) /\ IsNext(R, i, k) => j = k
  BY NextUnique
<1>9. \A i, j, k \in R : IsNext(R, i, k) /\ IsNext(R, j, k) => i = j
  BY PrevUnique
<1>10. \A i, j \in R : IsNext(R, i, j) /\ IsNext(R, j, i) => i = j
  <2>1. \A i, j \in R : R \subseteq {i, j} => i = j
    BY DEF Mended, NotTwo
  <2> QED
    BY <2>1, NextPair
<1>11. \A i \in R : IsNext(R, i, i) => R \subseteq {i}
  BY NextAlone
<1>12. p1 # n /\ s1 # n /\ p1 # s1 /\ p2 # p1 /\ s1 # s2
  <2>1. p1 # n /\ s1 # n
    BY <1>1, <1>11
  <2>2. p1 # s1
    BY <1>1, <1>10, <2>1
  <2> QED
    BY <1>1, <1>2, <1>11, <2>1, <2>2
<1>13. \A i, j, k \in R : i # j /\ IsNext(R, i, j) => (IsInBetweenModular(k, i, j) <=> k = j)
  BY ArcNext
<1>14. \A i, j, k \in R : i # k /\ IsNext(R, i, j) => IsInBetweenModular(j, i, k)
  BY ArcFirst
<1>15. ASSUME m = p1
       PROVE  /\ x = n /\ y = d /\ z = s1
              /\ Follow(R, m, n, s1, s2)
              /\ ~IsInBetweenModular(s2, n, s1)
              /\ s2 # p1 => IsInBetweenModular(s2, s1, p1)
  <2>1. x = n
    BY <1>1, <1>3, <1>5, <1>12, <1>15
  <2>2. y = d
    BY <1>1, <1>2, <1>5, <1>12, <1>15, <2>1
  <2>3. z = s1
    BY <1>1, <1>2, <1>4, <1>5, <2>2
  <2>4. Follow(R, m, n, s1, s2)
    BY <1>1, <1>2, <1>12, <1>15 DEF Follow
  <2>5. ~IsInBetweenModular(s2, n, s1)
    BY <1>1, <1>12, <1>13
  <2>6. IsInBetweenModular(s2, s1, p1)
    BY <1>1, <1>2, <1>12, <1>14
  <2> QED
    BY <2>1, <2>2, <2>3, <2>4, <2>5, <2>6
<1>16. ASSUME m = p2
       PROVE  /\ x = p1 /\ y = n /\ z = d
              /\ Follow(R, m, p1, n, s1)
              /\ ~IsInBetweenModular(s1, p1, n) /\ IsInBetweenModular(s1, n, p2)
  <2>1. x = p1
    BY <1>1, <1>2, <1>3, <1>5, <1>12, <1>16
  <2>2. y = n
    BY <1>1, <1>2, <1>3, <1>5, <1>12, <1>16, <2>1
  <2>3. z = d
    BY <1>1, <1>2, <1>5, <1>16, <2>2
  <2>4. Follow(R, m, p1, n, s1)
    BY <1>1, <1>2, <1>12, <1>16 DEF Follow
  <2>5. ~IsInBetweenModular(s1, p1, n)
    BY <1>1, <1>12, <1>13
  <2>6. IsInBetweenModular(s1, n, p2)
    BY <1>1, <1>14, <1>16
  <2> QED
    BY <2>1, <2>2, <2>3, <2>4, <2>5, <2>6
<1>17. ASSUME m # p1, m # p2 PROVE Follow(R, m, x, y, z) /\ x # d /\ y # d /\ z # d
  <2>1. x # d
    BY <1>1, <1>6
  <2>2. x # n
    BY <1>1, <1>7, <1>9, <1>17
  <2>3. y # d
    BY <1>1, <1>2, <1>6, <2>1, <2>2
  <2>4. y # n
    <3>1. ASSUME y = n PROVE FALSE
      <4>1. x # m /\ IsNext(T, x, n)
        BY <1>2, <3>1
      <4>2. IsNext(R, x, n) /\ x \in R
        BY <1>1, <1>7, <2>1, <4>1
      <4>3. x = p1
        BY <1>1, <1>9, <4>2
      <4>4. IsNext(R, m, p1)
        BY <1>1, <1>7, <4>2, <4>3
      <4> QED
        BY <1>1, <1>2, <1>9, <1>12, <1>17, <4>4
    <3> QED
      BY <3>1
  <2>5. z # d
    BY <1>1, <1>2, <1>6, <2>3, <2>4
  <2> QED
    BY <1>1, <1>2, <1>7, <2>1, <2>3, <2>5 DEF Follow
<1> QED
  BY <1>12, <1>15, <1>16, <1>17

\* The predecessors of the three nodes after n, and of n.
LEMMA MendPrecedes ==
    ASSUME NEW R \in SUBSET Int, NEW d \in Int, NEW n \in R,
           NEW s1, NEW s2, NEW s3, NEW p1, NEW p2, NEW p3, Mended(R, d, n, s1, s2, s3, p1, p2, p3),
           NEW m \in R \ {n}, NEW x, NEW y, NEW z, Precede(R \cup {d}, m, x, y, z)
    PROVE  /\ m = s1 => /\ x = d /\ y = n /\ z = p1
                        /\ p1 # p2 /\ p1 # s1 /\ Precede(R, m, n, p1, p2)
                        /\ ~IsInBetweenModular(p2, p1, n)
                        /\ s1 # p2 => IsInBetweenModular(p2, s1, p1)
           /\ m = s2 => /\ s1 # s2 /\ x = s1 /\ y = d /\ z = n
                        /\ Precede(R, m, s1, n, p1)
                        /\ ~IsInBetweenModular(p1, n, s1)
                        /\ s2 # p1 => IsInBetweenModular(p1, s2, n)
           /\ m = s3 => /\ s1 # s3 /\ s2 # s3 /\ s1 # s2 /\ s2 # n /\ x = s2 /\ y = s1 /\ z = d
                        /\ Precede(R, m, s2, s1, n)
                        /\ ~IsInBetweenModular(n, s1, s2) /\ IsInBetweenModular(n, s3, s1)
           /\ m # s1 /\ m # s2 /\ m # s3 => Precede(R, m, x, y, z) /\ x # d /\ y # d /\ z # d
<1> DEFINE T == R \cup {d}
<1>1. /\ d \notin R /\ IsNext(T, n, d) /\ d # n /\ d # m
      /\ s1 \in R /\ s2 \in R /\ s3 \in R /\ p1 \in R /\ p2 \in R /\ p3 \in R
      /\ x \in T /\ y \in T /\ z \in T
      /\ IsNext(R, n, s1) /\ IsNext(R, p1, n) /\ IsNext(T, x, m)
      /\ T \in SUBSET Int
  BY DEF Mended, Follow, Precede, IsNext
<1>2. /\ IF s1 = n THEN s2 = n ELSE IsNext(R, s1, s2)
      /\ IF s2 = n THEN s3 = n ELSE IsNext(R, s2, s3)
      /\ IF p1 = n THEN p2 = n ELSE IsNext(R, p2, p1)
      /\ IF x = m THEN y = m ELSE IsNext(T, y, x)
      /\ IF y = m THEN z = m ELSE IsNext(T, z, y)
  BY DEF Mended, Follow, Precede
<1>3. \A i, j \in R : IsNext(R, i, j) /\ i # n => IsNext(T, i, j)
  BY <1>1, NextWith
<1>4. IsNext(T, d, s1)
  BY <1>1, NextAfter
<1>5. \A i, j, k \in T : IsNext(T, i, j) /\ IsNext(T, i, k) => j = k
  BY <1>1, NextUnique
<1>6. \A i, j, k \in T : IsNext(T, i, k) /\ IsNext(T, j, k) => i = j
  BY <1>1, PrevUnique
<1>7. \A i, j \in T : IsNext(T, i, j) /\ j # d /\ i # d => IsNext(R, i, j)
  BY <1>1, NextWithout
<1>8. \A i, j, k \in R : IsNext(R, i, j) /\ IsNext(R, i, k) => j = k
  BY NextUnique
<1>9. \A i, j, k \in R : IsNext(R, i, k) /\ IsNext(R, j, k) => i = j
  BY PrevUnique
<1>10. \A i, j \in R : IsNext(R, i, j) /\ IsNext(R, j, i) => i = j
  <2>1. \A i, j \in R : R \subseteq {i, j} => i = j
    BY DEF Mended, NotTwo
  <2> QED
    BY <2>1, NextPair
<1>11. \A i \in R : IsNext(R, i, i) => R \subseteq {i}
  BY NextAlone
<1>12. p1 # n /\ s1 # n /\ p1 # s1 /\ p2 # p1 /\ s1 # s2 /\ p2 # n /\ s2 # n
  <2>1. p1 # n /\ s1 # n
    BY <1>1, <1>11
  <2>2. p1 # s1
    BY <1>1, <1>10, <2>1
  <2>3. p2 # n /\ s2 # n
    BY <1>1, <1>2, <1>10, <2>1
  <2> QED
    BY <1>1, <1>2, <1>11, <2>1, <2>2, <2>3
<1>13. \A i, j, k \in R : i # j /\ IsNext(R, i, j) => (IsInBetweenModular(k, i, j) <=> k = j)
  BY ArcNext
<1>14. \A i, j, k \in R : i # k /\ k # j /\ IsNext(R, i, j) => IsInBetweenModular(i, k, j)
  BY ArcLast
<1>15. ASSUME m = s1
       PROVE  /\ x = d /\ y = n /\ z = p1
              /\ Precede(R, m, n, p1, p2)
              /\ ~IsInBetweenModular(p2, p1, n)
              /\ s1 # p2 => IsInBetweenModular(p2, s1, p1)
  <2>1. x = d
    BY <1>1, <1>4, <1>6, <1>15
  <2>2. y = n
    BY <1>1, <1>2, <1>6, <2>1
  <2>3. z = p1
    BY <1>1, <1>2, <1>3, <1>6, <1>12, <2>2
  <2>4. Precede(R, m, n, p1, p2)
    BY <1>1, <1>2, <1>12, <1>15 DEF Precede
  <2>5. ~IsInBetweenModular(p2, p1, n)
    BY <1>1, <1>12, <1>13
  <2>6. s1 # p2 => IsInBetweenModular(p2, s1, p1)
    BY <1>1, <1>2, <1>12, <1>14
  <2> QED
    BY <2>1, <2>2, <2>3, <2>4, <2>5, <2>6
<1>16. ASSUME m = s2
       PROVE  /\ x = s1 /\ y = d /\ z = n
              /\ Precede(R, m, s1, n, p1)
              /\ ~IsInBetweenModular(p1, n, s1)
              /\ s2 # p1 => IsInBetweenModular(p1, s2, n)
  <2>1. x = s1
    BY <1>1, <1>2, <1>3, <1>6, <1>12, <1>16
  <2>2. y = d
    BY <1>1, <1>2, <1>4, <1>6, <1>12, <1>16, <2>1
  <2>3. z = n
    BY <1>1, <1>2, <1>6, <2>2
  <2>4. Precede(R, m, s1, n, p1)
    BY <1>1, <1>2, <1>12, <1>16 DEF Precede
  <2>5. ~IsInBetweenModular(p1, n, s1)
    BY <1>1, <1>12, <1>13
  <2>6. s2 # p1 => IsInBetweenModular(p1, s2, n)
    BY <1>1, <1>12, <1>14
  <2> QED
    BY <2>1, <2>2, <2>3, <2>4, <2>5, <2>6
<1>17. ASSUME m = s3
       PROVE  /\ s1 # s3 /\ s2 # s3 /\ x = s2 /\ y = s1 /\ z = d
              /\ Precede(R, m, s2, s1, n)
              /\ ~IsInBetweenModular(n, s1, s2) /\ IsInBetweenModular(n, s3, s1)
  <2>1. IsNext(R, s1, s2) /\ IsNext(R, s2, s3) /\ IsNext(R, n, s1)
    BY <1>1, <1>2, <1>12
  <2>2. s1 # s3 /\ s2 # s3
    BY <1>1, <1>10, <1>11, <1>12, <2>1
  <2>3. x = s2
    BY <1>1, <1>3, <1>6, <1>12, <1>17, <2>1
  <2>4. y = s1
    BY <1>1, <1>2, <1>3, <1>6, <1>12, <1>17, <2>1, <2>2, <2>3
  <2>5. z = d
    BY <1>1, <1>2, <1>4, <1>6, <1>17, <2>2, <2>4
  <2>6. Precede(R, m, s2, s1, n)
    BY <1>1, <1>17, <2>1, <2>2 DEF Precede
  <2>7. ~IsInBetweenModular(n, s1, s2)
    BY <1>1, <1>12, <1>13, <2>1
  <2>8. IsInBetweenModular(n, s3, s1)
    BY <1>1, <1>14, <1>17, <2>1, <2>2
  <2> QED
    BY <2>2, <2>3, <2>4, <2>5, <2>6, <2>7, <2>8
<1>18. ASSUME m # s1, m # s2, m # s3 PROVE Precede(R, m, x, y, z) /\ x # d /\ y # d /\ z # d
  <2>1. x # d
    BY <1>1, <1>4, <1>5, <1>18
  <2>2. y # d
    <3>1. ASSUME y = d PROVE FALSE
      <4>1. x # m /\ x = s1
        BY <1>1, <1>2, <1>4, <1>5, <3>1
      <4>2. IsNext(R, s1, m)
        BY <1>1, <1>7, <2>1, <4>1
      <4> QED
        BY <1>1, <1>2, <1>8, <1>12, <1>18, <4>2
    <3> QED
      BY <3>1
  <2>3. z # d
    <3>1. ASSUME z = d PROVE FALSE
      <4>1. y # m /\ x # m /\ y = s1
        BY <1>1, <1>2, <1>4, <1>5, <3>1
      <4>2. IsNext(R, s1, x) /\ IsNext(R, x, m) /\ x \in R
        BY <1>1, <1>2, <1>7, <2>1, <4>1
      <4>3. x = s2
        BY <1>1, <1>2, <1>8, <1>12, <4>2
      <4> QED
        BY <1>1, <1>2, <1>8, <1>12, <1>18, <4>2, <4>3
    <3> QED
      BY <3>1
  <2> QED
    BY <1>1, <1>2, <1>7, <2>1, <2>2, <2>3 DEF Precede
<1> QED
  BY <1>12, <1>15, <1>16, <1>17, <1>18

\* The predecessors of n itself, whose first slot that holds d is given to n.
LEMMA MendOwn ==
    ASSUME NEW R \in SUBSET Int, NEW d \in Int, d \notin R, NEW n \in R, IsNext(R \cup {d}, n, d),
           NotTwo(R), NEW x, NEW y, NEW z, Precede(R \cup {d}, n, x, y, z)
    PROVE  IF x = d THEN Precede(R, n, n, y, z)
           ELSE IF y = d THEN Precede(R, n, x, n, z)
           ELSE IF z = d THEN Precede(R, n, x, y, n) ELSE Precede(R, n, x, y, z)
<1> DEFINE T == R \cup {d}
<1>1. /\ x \in T /\ y \in T /\ z \in T /\ d # n /\ T \in SUBSET Int
      /\ IsNext(T, n, d) /\ IsNext(T, x, n)
      /\ IF x = n THEN y = n ELSE IsNext(T, y, x)
      /\ IF y = n THEN z = n ELSE IsNext(T, z, y)
  BY DEF Precede
<1>2. \A i, j, k \in T : IsNext(T, i, k) /\ IsNext(T, j, k) => i = j
  BY <1>1, PrevUnique
<1>3. \A i, j \in T : IsNext(T, i, j) /\ j # d /\ i # d => IsNext(R, i, j)
  BY <1>1, NextWithout
<1>4. \A j \in R : IsNext(T, d, j) => IsNext(R, n, j)
  BY <1>1, NextOver
<1>5. CASE x = d
  <2>1. IsNext(R, n, n)
    BY <1>1, <1>4, <1>5
  <2>2. y = n /\ z = n
    BY <1>1, <1>2, <1>5
  <2> QED
    BY <1>5, <2>1, <2>2 DEF Precede
<1>6. x # d => y # d
  <2>1. ASSUME x # d, y = d PROVE FALSE
    <3>1. x # n /\ x \in R /\ IsNext(R, n, x) /\ IsNext(R, x, n)
      BY <1>1, <1>3, <1>4, <2>1
    <3>2. R \subseteq {n, x}
      BY <3>1, NextPair
    <3> QED
      BY <3>1, <3>2 DEF NotTwo
  <2> QED
    BY <2>1
<1>7. CASE x # d /\ z = d
  <2>1. y # n /\ x # n /\ y \in R /\ x \in R
    BY <1>1, <1>6, <1>7
  <2>2. IsNext(R, x, n) /\ IsNext(R, y, x) /\ IsNext(R, n, y)
    BY <1>1, <1>3, <1>4, <1>7, <2>1
  <2> QED
    BY <1>6, <1>7, <2>1, <2>2 DEF Precede
<1>8. CASE x # d /\ z # d
  BY <1>1, <1>3, <1>6, <1>8 DEF Precede
<1> QED
  BY <1>5, <1>6, <1>7, <1>8

-----------------------------------------------------------------------------
(* Induction: what is false of some number is false of a least one *)

LEMMA LeastNumber ==
    ASSUME NEW S \in SUBSET Nat, S # {}
    PROVE  \E n \in S : \A m \in S : n <= m
<1> DEFINE R == OpToRel(<, Nat)
<1>1. IsWellFoundedOn(R, Nat)
  BY NatLessThanWellFounded
<1> HIDE DEF R
<1>2. PICK n \in S : \A m \in S : ~(<<m, n>> \in R)
  BY <1>1, WFMin
<1>3. \A m \in S : m < n => <<m, n>> \in R
  BY DEF R, OpToRel
<1>4. \A m \in S : ~(m < n)
  BY <1>2, <1>3
<1>5. \A m \in S : m \in Nat /\ n \in Nat
  OBVIOUS
<1>6. \A m \in S : n <= m
  BY <1>4, <1>5
<1> QED
  BY <1>6

\* What holds of no least number holds of none.
LEMMA NoLeast ==
    ASSUME NEW S \in SUBSET Nat, NEW k \in Nat, \A n \in k .. k : n \notin S,
           \A n \in Nat : n > k /\ n \in S => n - 1 \in S
    PROVE  \A n \in Nat : n >= k => n \notin S
<1> DEFINE B == {n \in S : n >= k}
<1>1. ASSUME B # {} PROVE FALSE
  <2>1. PICK n \in B : \A m \in B : n <= m
    BY <1>1, LeastNumber
  <2>2. n \in Nat /\ n >= k /\ n # k /\ n \in S
    BY <2>1
  <2>3. n - 1 \in B
    BY <2>2
  <2> QED
    BY <2>1, <2>2, <2>3
<1> QED
  BY <1>1

\* The concatenation of the first i sequences of seqs is in F[i].
LEMMA FlattenSteps ==
    ASSUME NEW A, NEW seqs \in Seq(A), NEW F,
           Len(seqs) = 0 => <<>> \in F[0],
           Len(seqs) # 0 => seqs[1] \in F[1],
           \A i \in 2 .. Len(seqs) : \A s \in F[i - 1] : s \o seqs[i] \in F[i]
    PROVE  Seqs!FlattenSeq(seqs) \in F[Len(seqs)]
<1> DEFINE N == Len(seqs)
           Eqn(g, k) == g = [i \in 1 .. k |-> IF i = 1 THEN seqs[i] ELSE g[i - 1] \o seqs[i]]
<1>1. N \in Nat
  BY LenProperties
<1>2. CASE N = 0
  <2>1. seqs = <<>>
    BY <1>2, EmptySeq
  <2> QED
    BY <1>2, <2>1 DEF Seqs!FlattenSeq
<1>3. CASE N # 0
  <2> DEFINE S == {k \in Nat : ~\E g : Eqn(g, k)}
  <2>1. 1 \notin S
    <3> DEFINE g == [i \in 1 .. 1 |-> seqs[1]]
    <3>1. Eqn(g, 1)
      OBVIOUS
    <3> QED
      BY <3>1
  <2>2. ASSUME NEW k \in Nat, k > 1, k \in S PROVE k - 1 \in S
    <3>1. SUFFICES ASSUME k - 1 \notin S PROVE FALSE
      OBVIOUS
    <3>2. PICK g : Eqn(g, k - 1)
      <4>1. k - 1 \in Nat
        BY <2>2
      <4> HIDE DEF Eqn
      <4> QED
        BY <3>1, <4>1
    <3> DEFINE h == [i \in 1 .. k |-> IF i < k THEN g[i] ELSE g[k - 1] \o seqs[k]]
    <3>3. \A i \in 1 .. (k - 1) : g[i] = IF i = 1 THEN seqs[i] ELSE g[i - 1] \o seqs[i]
      BY <3>2
    <3>4. ASSUME NEW i \in 1 .. k PROVE h[i] = IF i = 1 THEN seqs[i] ELSE h[i - 1] \o seqs[i]
      <4>1. CASE i < k
        <5>1. i \in 1 .. (k - 1) /\ h[i] = g[i]
          BY <2>2, <4>1
        <5>2. i # 1 => i - 1 \in 1 .. k /\ i - 1 < k /\ h[i - 1] = g[i - 1]
          BY <2>2, <4>1
        <5> QED
          BY <3>3, <5>1, <5>2
      <4>2. CASE i = k
        <5>1. k - 1 \in 1 .. k /\ k - 1 < k /\ h[k - 1] = g[k - 1]
          BY <2>2
        <5> QED
          BY <2>2, <4>2, <5>1
      <4> QED
        BY <2>2, <4>1, <4>2
    <3>5. Eqn(h, k)
      <4>1. h = [i \in 1 .. k |-> h[i]]
        OBVIOUS
      <4> HIDE DEF h
      <4> QED
        BY <3>4, <4>1
    <3> QED
      BY <2>2, <3>5
  <2> HIDE DEF S
  <2>3. N \notin S
    <3>1. S \in SUBSET Nat /\ 1 \in Nat /\ \A n \in 1 .. 1 : n \notin S
      <4> HIDE DEF Eqn
      <4>1. S \in SUBSET Nat
        BY DEF S
      <4> QED
        BY <2>1, <4>1
    <3>2. \A n \in Nat : n > 1 /\ n \in S => n - 1 \in S
      BY <2>2
    <3>3. \A n \in Nat : n >= 1 => n \notin S
      BY <3>1, <3>2, NoLeast
    <3> QED
      BY <1>1, <1>3, <3>3
  <2>4. \E g : Eqn(g, N)
    BY <1>1, <2>3 DEF S
  <2> DEFINE f == CHOOSE g : Eqn(g, N)
  <2>5. Eqn(f, N)
    BY <2>4
  <2>6. Seqs!FlattenSeq(seqs) = f[N]
    BY <1>3 DEF Seqs!FlattenSeq
  <2> HIDE DEF f
  <2> DEFINE Q == {k \in 1 .. N : f[k] \notin F[k]}
  <2>7. \A i \in 1 .. N : f[i] = IF i = 1 THEN seqs[i] ELSE f[i - 1] \o seqs[i]
    BY <2>5
  <2>8. 1 \notin Q
    BY <1>1, <1>3, <2>7
  <2>9. ASSUME NEW k \in Nat, k > 1, k \in Q PROVE k - 1 \in Q
    <3>1. SUFFICES ASSUME f[k - 1] \in F[k - 1] PROVE FALSE
      BY <2>9
    <3>2. k \in 2 .. N /\ k # 1 /\ k \in 1 .. N /\ f[k] \notin F[k]
      BY <2>9
    <3>3. f[k] = f[k - 1] \o seqs[k]
      BY <2>7, <3>2
    <3>4. f[k - 1] \o seqs[k] \in F[k]
      BY <3>1, <3>2
    <3> QED
      BY <3>2, <3>3, <3>4
  <2> HIDE DEF Q
  <2>10. N \notin Q
    <3>1. Q \in SUBSET Nat /\ 1 \in Nat /\ \A n \in 1 .. 1 : n \notin Q
      BY <2>8 DEF Q
    <3>2. \A n \in Nat : n > 1 /\ n \in Q => n - 1 \in Q
      BY <2>9
    <3>3. \A n \in Nat : n >= 1 => n \notin Q
      BY <3>1, <3>2, NoLeast
    <3> QED
      BY <1>1, <1>3, <3>3
  <2> QED
    BY <1>1, <1>3, <2>6, <2>10 DEF Q
<1> QED
  BY <1>2, <1>3

LEMMA FlattenType ==
    ASSUME NEW T, <<>> \in T, \A s, t \in T : s \o t \in T, NEW seqs \in Seq(T)
    PROVE  Seqs!FlattenSeq(seqs) \in T
<1> DEFINE F == [i \in 0 .. Len(seqs) |-> T]
<1>1. Len(seqs) \in Nat /\ \A i \in 1 .. Len(seqs) : seqs[i] \in T
  BY ElementOfSeq, LenProperties
<1>2. \A i \in 0 .. Len(seqs) : F[i] = T
  OBVIOUS
<1> HIDE DEF F
<1>3. /\ Len(seqs) = 0 => <<>> \in F[0]
      /\ Len(seqs) # 0 => seqs[1] \in F[1]
  BY <1>1, <1>2
<1>4. \A i \in 2 .. Len(seqs) : \A s \in F[i - 1] : s \o seqs[i] \in F[i]
  <2>1. \A i \in 2 .. Len(seqs) : i - 1 \in 0 .. Len(seqs) /\ i \in 0 .. Len(seqs) /\ i \in 1 .. Len(seqs)
    BY <1>1
  <2> QED
    BY <1>1, <1>2, <2>1
<1>5. Seqs!FlattenSeq(seqs) \in F[Len(seqs)]
  BY <1>3, <1>4, FlattenSteps
<1> QED
  BY <1>1, <1>2, <1>5

\* A finite set in some order.
LEMMA SetToSeqProperties ==
    ASSUME NEW S, IsFiniteSet(S)
    PROVE  /\ Seqs!SetToSeq(S) \in Seq(S)
           /\ S = {Seqs!SetToSeq(S)[i] : i \in 1 .. Len(Seqs!SetToSeq(S))}
           /\ \A i, j \in 1 .. Len(Seqs!SetToSeq(S)) :
                  Seqs!SetToSeq(S)[i] = Seqs!SetToSeq(S)[j] => i = j
<1> DEFINE N == Cardinality(S)
           q == Seqs!SetToSeq(S)
<1>1. N \in Nat /\ ExistsBijection(1 .. N, S)
  BY FS_CardinalityType
<1>2. PICK g \in [1 .. N -> S] : \A i, j \in 1 .. N : g[i] = g[j] => i = j
  BY <1>1 DEF ExistsBijection, Bijection, Injection, IsInjective
<1>3. Seqs!Cardinality(S) = N
  BY Zenon DEF Seqs!Cardinality, Cardinality, Seqs!IsFiniteSet, IsFiniteSet
<1>4. q = CHOOSE f \in [1 .. N -> S] : \A i, j \in DOMAIN f : f[i] = f[j] => i = j
  BY <1>3 DEF Seqs!SetToSeq, Seqs!IsInjective
<1>5. q \in [1 .. N -> S] /\ \A i, j \in 1 .. N : q[i] = q[j] => i = j
  BY <1>2, <1>4
<1> HIDE DEF q
<1>6. q \in Seq(S) /\ Len(q) = N
  BY <1>1, <1>5, SeqDef, LenProperties
<1>7. q \in Injection(1 .. N, S)
  BY <1>5 DEF Injection, IsInjective
<1>8. IsFiniteSet(1 .. N) /\ Cardinality(1 .. N) = N
  BY <1>1, FS_Interval
<1>9. q \in Surjection(1 .. N, S)
  BY <1>7, <1>8, FS_Injection
<1>10. S = {q[i] : i \in 1 .. N}
  BY <1>5, <1>9 DEF Surjection
<1>11. /\ q \in Seq(S) /\ S = {q[i] : i \in 1 .. Len(q)}
       /\ \A i, j \in 1 .. Len(q) : q[i] = q[j] => i = j
  BY <1>5, <1>6, <1>10
<1> QED
  BY <1>11 DEF q

-----------------------------------------------------------------------------
(* The calls the agent has still to make *)

Calls(q) == {q[i] : i \in 1 .. Len(q)}

SuccCall(c) == c.do \in {"insert succesor", "deprecate succesor"}
PredCall(c) == c.do \in {"insert predecessor", "deprecate predecessor"}

\* c and, later, d change the same list, and are not a removal and an insertion.
Conflict(c, d) ==
    /\ c.at = d.at
    /\ \/ SuccCall(c) /\ SuccCall(d) /\ ~(c.do = "deprecate succesor" /\ d.do = "insert succesor")
       \/ PredCall(c) /\ PredCall(d) /\ ~(c.do = "deprecate predecessor" /\ d.do = "insert predecessor")

\* No list is called for twice, but for an insertion after a removal.
InOrder(q) == \A i, j \in 1 .. Len(q) : i < j => ~Conflict(q[i], q[j])

\* The calls in q of one kind to one node.
To(q, op, m) == {c \in Calls(q) : c.do = op /\ c.at = m}

LEMMA CallsConcat ==
    ASSUME NEW S, NEW q \in Seq(S), NEW r \in Seq(S)
    PROVE  q \o r \in Seq(S) /\ Calls(q \o r) = Calls(q) \cup Calls(r)
<1>1. /\ q \o r \in Seq(S) /\ Len(q \o r) = Len(q) + Len(r) /\ Len(q) \in Nat /\ Len(r) \in Nat
      /\ \A i \in 1 .. Len(q) + Len(r) : (q \o r)[i] = IF i <= Len(q) THEN q[i] ELSE r[i - Len(q)]
  BY ConcatProperties, LenProperties
<1>2. \A c \in Calls(q \o r) : c \in Calls(q) \cup Calls(r)
  <2>1. ASSUME NEW i \in 1 .. Len(q) + Len(r) PROVE (q \o r)[i] \in Calls(q) \cup Calls(r)
    <3>1. CASE i <= Len(q)
      BY <1>1, <3>1 DEF Calls
    <3>2. CASE i > Len(q)
      <4>1. i - Len(q) \in 1 .. Len(r) /\ (q \o r)[i] = r[i - Len(q)]
        BY <1>1, <3>2
      <4> QED
        BY <4>1 DEF Calls
    <3> QED
      BY <1>1, <3>1, <3>2
  <2> QED
    BY <1>1, <2>1 DEF Calls
<1>3. \A i \in 1 .. Len(q) : q[i] \in Calls(q \o r)
  <2>1. \A i \in 1 .. Len(q) : i \in 1 .. Len(q) + Len(r) /\ (q \o r)[i] = q[i]
    BY <1>1
  <2> QED
    BY <1>1, <2>1 DEF Calls
<1>4. \A i \in 1 .. Len(r) : r[i] \in Calls(q \o r)
  <2>1. \A i \in 1 .. Len(r) : i + Len(q) \in 1 .. Len(q) + Len(r) /\ (q \o r)[i + Len(q)] = r[i]
    BY <1>1
  <2> QED
    BY <1>1, <2>1 DEF Calls
<1>5. \A c \in Calls(q) : c \in Calls(q \o r)
  BY <1>3 DEF Calls
<1>6. \A c \in Calls(r) : c \in Calls(q \o r)
  BY <1>4 DEF Calls
<1> QED
  BY <1>1, <1>2, <1>5, <1>6

LEMMA InOrderConcat ==
    ASSUME NEW S, NEW q \in Seq(S), NEW r \in Seq(S), InOrder(q), InOrder(r),
           \A c \in Calls(q), d \in Calls(r) : ~Conflict(c, d)
    PROVE  InOrder(q \o r)
<1>1. /\ Len(q \o r) = Len(q) + Len(r) /\ Len(q) \in Nat /\ Len(r) \in Nat
      /\ \A i \in 1 .. Len(q) + Len(r) : (q \o r)[i] = IF i <= Len(q) THEN q[i] ELSE r[i - Len(q)]
  BY ConcatProperties, LenProperties
<1>2. SUFFICES ASSUME NEW i \in 1 .. Len(q) + Len(r), NEW j \in 1 .. Len(q) + Len(r), i < j
               PROVE  ~Conflict((q \o r)[i], (q \o r)[j])
  BY <1>1 DEF InOrder
<1>3. CASE j <= Len(q)
  <2>1. i \in 1 .. Len(q) /\ j \in 1 .. Len(q) /\ (q \o r)[i] = q[i] /\ (q \o r)[j] = q[j]
    BY <1>1, <1>2, <1>3
  <2> QED
    BY <1>2, <2>1 DEF InOrder
<1>4. CASE i <= Len(q) /\ j > Len(q)
  <2>1. i \in 1 .. Len(q) /\ j - Len(q) \in 1 .. Len(r)
        /\ (q \o r)[i] = q[i] /\ (q \o r)[j] = r[j - Len(q)]
    BY <1>1, <1>4
  <2> QED
    BY <2>1 DEF Calls
<1>5. CASE i > Len(q)
  <2> DEFINE u == i - Len(q)
             v == j - Len(q)
  <2>1. u \in 1 .. Len(r) /\ v \in 1 .. Len(r) /\ u < v
        /\ (q \o r)[i] = r[u] /\ (q \o r)[j] = r[v]
    BY <1>1, <1>2, <1>5
  <2> HIDE DEF u, v
  <2> QED
    BY <2>1 DEF InOrder
<1> QED
  BY <1>1, <1>2, <1>3, <1>4, <1>5

LEMMA CallsTail ==
    ASSUME NEW S, NEW q \in Seq(S), q # <<>>
    PROVE  /\ Head(q) \in S /\ Tail(q) \in Seq(S)
           /\ Calls(q) = {Head(q)} \cup Calls(Tail(q))
           /\ InOrder(q) => InOrder(Tail(q)) /\ \A c \in Calls(Tail(q)) : ~Conflict(Head(q), c)
<1>1. /\ Head(q) \in S /\ Tail(q) \in Seq(S) /\ Len(Tail(q)) = Len(q) - 1
      /\ \A i \in 1 .. Len(Tail(q)) : Tail(q)[i] = q[i + 1]
      /\ Len(q) \in Nat /\ Len(q) # 0 /\ Head(q) = q[1]
  BY HeadTailProperties, LenProperties, EmptySeq
<1>2. \A i \in 1 .. Len(Tail(q)) : i + 1 \in 1 .. Len(q) /\ Tail(q)[i] = q[i + 1]
  BY <1>1
<1>3. \A i \in 1 .. Len(q) : i = 1 \/ (i - 1 \in 1 .. Len(Tail(q)) /\ q[i] = Tail(q)[i - 1])
  BY <1>1
<1>4. \A c \in Calls(q) : c = Head(q) \/ c \in Calls(Tail(q))
  BY <1>1, <1>3 DEF Calls
<1>5. \A c \in Calls(Tail(q)) : c \in Calls(q)
  BY <1>2 DEF Calls
<1>6. Head(q) \in Calls(q)
  BY <1>1 DEF Calls
<1>7. ASSUME InOrder(q) PROVE InOrder(Tail(q))
  <2>1. ASSUME NEW i \in 1 .. Len(Tail(q)), NEW j \in 1 .. Len(Tail(q)), i < j
        PROVE  ~Conflict(Tail(q)[i], Tail(q)[j])
    <3>1. i + 1 \in 1 .. Len(q) /\ j + 1 \in 1 .. Len(q) /\ i + 1 < j + 1
      BY <1>2, <2>1
    <3>2. ~Conflict(q[i + 1], q[j + 1])
      BY <1>7, <3>1 DEF InOrder
    <3> QED
      BY <1>2, <3>2
  <2> QED
    BY <2>1 DEF InOrder
<1>8. ASSUME InOrder(q), NEW c \in Calls(Tail(q)) PROVE ~Conflict(Head(q), c)
  <2>1. PICK i \in 1 .. Len(Tail(q)) : c = Tail(q)[i]
    BY <1>8 DEF Calls
  <2>2. 1 \in 1 .. Len(q) /\ i + 1 \in 1 .. Len(q) /\ 1 < i + 1
    BY <1>1, <1>2
  <2>3. ~Conflict(q[1], q[i + 1])
    BY <1>8, <2>2 DEF InOrder
  <2> QED
    BY <1>1, <1>2, <2>1, <2>3
<1> QED
  BY <1>1, <1>4, <1>5, <1>6, <1>7, <1>8

SuccIn(m, x) == [do |-> "insert succesor", at |-> m, x |-> x]
PredIn(m, x) == [do |-> "insert predecessor", at |-> m, x |-> x]
SuccOut(m, x) == [do |-> "deprecate succesor", at |-> m, x |-> x]
PredOut(m, x) == [do |-> "deprecate predecessor", at |-> m, x |-> x]

LEMMA ListCalls ==
    ASSUME NEW m \in Node, NEW x \in Node
    PROVE  /\ SuccIn(m, x) \in Call /\ PredIn(m, x) \in Call
           /\ SuccOut(m, x) \in Call /\ PredOut(m, x) \in Call
BY DEF SuccIn, PredIn, SuccOut, PredOut, Call

\* The calls of q are those of C, and no two are in each other's way.
Plan(q, C) == q \in Seq(Call) /\ Calls(q) = C /\ InOrder(q)

LEMMA PlanOne ==
    ASSUME NEW c \in Call
    PROVE  Plan(<<c>>, {c})
<1>1. <<c>> \in Seq(Call) /\ Len(<<c>>) = 1 /\ <<c>>[1] = c
  OBVIOUS
<1>2. Calls(<<c>>) = {c}
  BY <1>1 DEF Calls
<1> QED
  BY <1>1, <1>2 DEF Plan, InOrder

LEMMA PlanWhen ==
    ASSUME NEW b \in BOOLEAN, NEW q, NEW C, Plan(q, C)
    PROVE  Plan(When(b, q), {c \in C : b})
<1>1. CASE b
  BY <1>1 DEF When
<1>2. CASE ~b
  <2>1. <<>> \in Seq(Call) /\ Calls(<<>>) = {} /\ InOrder(<<>>)
    BY DEF Calls, InOrder
  <2>2. {c \in C : b} = {}
    BY <1>2
  <2>3. When(b, q) = <<>>
    BY <1>2 DEF When
  <2> QED
    BY <2>1, <2>2, <2>3 DEF Plan
<1> QED
  BY <1>1, <1>2

LEMMA PlanConcat ==
    ASSUME NEW q, NEW r, NEW C, NEW D, Plan(q, C), Plan(r, D),
           \A c \in C, d \in D : ~Conflict(c, d)
    PROVE  Plan(q \o r, C \cup D)
BY CallsConcat, InOrderConcat DEF Plan

\* The calls that move files.
Moving(c) == c.do \in {"keys", "get", "force get", "put", "drop"}

LEMMA MovingApart ==
    ASSUME NEW c, NEW d, Moving(c) \/ Moving(d)
    PROVE  ~Conflict(c, d)
BY DEF Moving, Conflict, SuccCall, PredCall

MovePlanned(q) == Plan(q, Calls(q)) /\ \A c \in Calls(q) : c.do = "keys"

LEMMA MovePlan ==
    ASSUME NEW m \in Node, NEW i \in Node, NEW j \in Node, NEW by \in {"get", "force get"},
           NEW o \in Node, NEW r \in Node \cup {None}
    PROVE  MovePlanned(MoveFiles(m, i, j, by, o, r))
<1> DEFINE c == [do |-> "keys", at |-> m, a |-> i, b |-> j, by |-> by, to |-> o, drop |-> r]
<1>1. c \in Call /\ c.do = "keys"
  BY DEF Call
<1>2. MoveFiles(m, i, j, by, o, r) = <<c>>
  BY DEF MoveFiles
<1> HIDE DEF c
<1>3. Plan(<<c>>, {c})
  BY <1>1, PlanOne
<1> QED
  BY <1>1, <1>2, <1>3 DEF Plan, MovePlanned

\* The slots of a list, those that hold its owner n apart, hold different nodes.
Distinct(l, n) == \A i, j \in 1 .. 3 : i # j /\ l[i] # n => l[i] # l[j]

LEMMA JoinPlan ==
    ASSUME NEW n \in Node, NEW s \in List, NEW p \in List, Distinct(s, n), Distinct(p, n)
    PROVE  /\ JoinCalls(n, s, p) \in Seq(Call) /\ InOrder(JoinCalls(n, s, p))
           /\ \A c \in Calls(JoinCalls(n, s, p)) :
                 \/ c.do = "keys"
                 \/ \E i \in 1 .. 3 : p[i] # n /\ c = SuccIn(p[i], n)
                 \/ \E i \in 1 .. 3 : s[i] # n /\ c = PredIn(s[i], n)
           /\ \A i \in 1 .. 3 : /\ p[i] # n => SuccIn(p[i], n) \in Calls(JoinCalls(n, s, p))
                                /\ s[i] # n => PredIn(s[i], n) \in Calls(JoinCalls(n, s, p))
<1> DEFINE last == s[3]
           own == MoveFiles(s[1], p[1], n, "force get", n, IF last # n THEN last ELSE None)
           extra(i) == IF last # n /\ s[3 - i] # p[i] THEN s[3 - i] ELSE None
           replicas(i) == MoveFiles(p[i], p[i + 1], p[i], "force get", n, extra(i))
           a(i) == When(p[i] # n, InsertInSuccessors(p[i], n))
           b(i) == When(s[i] # n, InsertInPredecessors(s[i], n))
           A(i) == {c \in {SuccIn(p[i], n)} : p[i] # n}
           B(i) == {c \in {PredIn(s[i], n)} : s[i] # n}
           q0 == own \o When(p[1] # n, replicas(1))
           q1 == q0 \o When(p[1] # n /\ p[2] # n, replicas(2))
           K == {c \in Calls(q1) : TRUE}
<1>0. /\ \A i \in 1 .. 3 : s[i] \in Node /\ p[i] \in Node
      /\ 1 \in 1 .. 3 /\ 2 \in 1 .. 3 /\ 3 \in 1 .. 3
  BY DEF List
<1>1. JoinCalls(n, s, p) = q1 \o (a(1) \o b(1)) \o (a(2) \o b(2)) \o (a(3) \o b(3))
  BY DEF JoinCalls
<1>2. Plan(q1, Calls(q1)) /\ \A c \in Calls(q1) : c.do = "keys"
  <2>1. MovePlanned(own)
    <3> DEFINE r == IF last # n THEN last ELSE None
    <3>1. r \in Node \cup {None} /\ "force get" \in {"get", "force get"}
      BY <1>0
    <3> HIDE DEF r
    <3>2. s[1] \in Node /\ p[1] \in Node
      BY <1>0
    <3> QED
      BY <3>1, <3>2, MovePlan DEF r
  <2>2. /\ 3 - 1 \in 1 .. 3 /\ 3 - 2 \in 1 .. 3 /\ 1 + 1 \in 1 .. 3 /\ 2 + 1 \in 1 .. 3
        /\ extra(1) \in Node \cup {None} /\ extra(2) \in Node \cup {None}
    BY <1>0
  <2>3. \A i \in 1 .. 2 : MovePlanned(replicas(i))
    <3>1. SUFFICES ASSUME NEW i \in 1 .. 2 PROVE MovePlanned(replicas(i))
      OBVIOUS
    <3>2. i \in 1 .. 3 /\ i + 1 \in 1 .. 3 /\ 3 - i \in 1 .. 3
      OBVIOUS
    <3>3. extra(i) \in Node \cup {None} /\ p[i] \in Node /\ p[i + 1] \in Node
      BY <1>0, <3>2
    <3>4. "force get" \in {"get", "force get"}
      OBVIOUS
    <3> HIDE DEF extra
    <3> QED
      BY <3>3, <3>4, MovePlan
  <2>4. 1 \in 1 .. 2 /\ 2 \in 1 .. 2 /\ (p[1] # n) \in BOOLEAN /\ (p[1] # n /\ p[2] # n) \in BOOLEAN
    OBVIOUS
  <2> HIDE DEF own, replicas
  <2> DEFINE R1 == {c \in Calls(replicas(1)) : p[1] # n}
             R2 == {c \in Calls(replicas(2)) : p[1] # n /\ p[2] # n}
  <2>5. Plan(When(p[1] # n, replicas(1)), R1)
    BY <2>3, <2>4, PlanWhen DEF MovePlanned
  <2>6. Plan(When(p[1] # n /\ p[2] # n, replicas(2)), R2)
    BY <2>3, <2>4, PlanWhen DEF MovePlanned
  <2>7. (\A c \in R1 : c.do = "keys") /\ \A c \in R2 : c.do = "keys"
    BY <2>3, <2>4 DEF MovePlanned
  <2> HIDE DEF R1, R2
  <2>8. Plan(q0, Calls(own) \cup R1)
    <3>1. \A c \in Calls(own), d \in R1 : ~Conflict(c, d)
      BY <2>1, MovingApart DEF Moving, MovePlanned
    <3> QED
      BY <2>1, <2>5, <3>1, PlanConcat DEF MovePlanned
  <2> HIDE DEF q0
  <2>9. Plan(q1, (Calls(own) \cup R1) \cup R2)
    <3>1. \A c \in Calls(own) \cup R1, d \in R2 : ~Conflict(c, d)
      BY <2>1, <2>7, MovingApart DEF Moving, MovePlanned
    <3> QED
      BY <2>6, <2>8, <3>1, PlanConcat
  <2> HIDE DEF q1
  <2> QED
    BY <2>1, <2>7, <2>9 DEF Plan, MovePlanned
<1>3. ASSUME NEW i \in 1 .. 3 PROVE Plan(a(i) \o b(i), A(i) \cup B(i))
  <2>1. SuccIn(p[i], n) \in Call /\ PredIn(s[i], n) \in Call
    BY <1>0, ListCalls
  <2>2. Plan(InsertInSuccessors(p[i], n), {SuccIn(p[i], n)})
    BY <2>1, PlanOne DEF InsertInSuccessors, SuccIn
  <2>3. Plan(InsertInPredecessors(s[i], n), {PredIn(s[i], n)})
    BY <2>1, PlanOne DEF InsertInPredecessors, PredIn
  <2>4. Plan(a(i), A(i))
    BY <2>2, PlanWhen, (p[i] # n) \in BOOLEAN
  <2>5. Plan(b(i), B(i))
    BY <2>3, PlanWhen, (s[i] # n) \in BOOLEAN
  <2>6. \A c \in A(i), d \in B(i) : ~Conflict(c, d)
    <3>1. ~Conflict(SuccIn(p[i], n), PredIn(s[i], n))
      BY DEF SuccIn, PredIn, Conflict, SuccCall, PredCall
    <3> QED
      BY <3>1
  <2> HIDE DEF a, b, A, B
  <2> QED
    BY <2>4, <2>5, <2>6, PlanConcat
<1>4. \A i, j \in 1 .. 3 : i # j => \A c \in A(i) \cup B(i), d \in A(j) \cup B(j) : ~Conflict(c, d)
  <2>1. ASSUME NEW x, NEW y, x # y
        PROVE  /\ ~Conflict(SuccIn(x, n), SuccIn(y, n)) /\ ~Conflict(PredIn(x, n), PredIn(y, n))
    BY <2>1 DEF SuccIn, PredIn, Conflict, SuccCall, PredCall
  <2>2. ASSUME NEW x, NEW y
        PROVE  /\ ~Conflict(SuccIn(x, n), PredIn(y, n)) /\ ~Conflict(PredIn(x, n), SuccIn(y, n))
    BY DEF SuccIn, PredIn, Conflict, SuccCall, PredCall
  <2>3. SUFFICES ASSUME NEW i \in 1 .. 3, NEW j \in 1 .. 3, i # j,
                        NEW c \in A(i) \cup B(i), NEW d \in A(j) \cup B(j)
                 PROVE  ~Conflict(c, d)
    OBVIOUS
  <2>4. (p[i] # n => p[i] # p[j]) /\ (s[i] # n => s[i] # s[j])
    BY <2>3 DEF Distinct
  <2>5. (c \in A(i) /\ p[i] # n /\ c = SuccIn(p[i], n)) \/ (c \in B(i) /\ s[i] # n /\ c = PredIn(s[i], n))
    OBVIOUS
  <2>6. (d = SuccIn(p[j], n)) \/ (d = PredIn(s[j], n))
    OBVIOUS
  <2> HIDE DEF A, B
  <2> QED
    BY <2>1, <2>2, <2>4, <2>5, <2>6, Zenon
<1>5. \A i \in 1 .. 3 : \A c \in Calls(q1), d \in A(i) \cup B(i) : ~Conflict(c, d)
  BY <1>2, MovingApart DEF Moving
<1> HIDE DEF q1, a, b, A, B
<1>6. Plan(q1 \o (a(1) \o b(1)), Calls(q1) \cup (A(1) \cup B(1)))
  BY <1>0, <1>2, <1>3, <1>5, PlanConcat
<1>7. Plan(q1 \o (a(1) \o b(1)) \o (a(2) \o b(2)), (Calls(q1) \cup (A(1) \cup B(1))) \cup (A(2) \cup B(2)))
  <2>1. \A c \in Calls(q1) \cup (A(1) \cup B(1)), d \in A(2) \cup B(2) : ~Conflict(c, d)
    BY <1>0, <1>4, <1>5
  <2> QED
    BY <1>0, <1>3, <1>6, <2>1, PlanConcat
<1>8. Plan(JoinCalls(n, s, p),
           ((Calls(q1) \cup (A(1) \cup B(1))) \cup (A(2) \cup B(2))) \cup (A(3) \cup B(3)))
  <2>1. \A c \in (Calls(q1) \cup (A(1) \cup B(1))) \cup (A(2) \cup B(2)),
            d \in A(3) \cup B(3) : ~Conflict(c, d)
    BY <1>0, <1>4, <1>5
  <2> QED
    BY <1>0, <1>1, <1>3, <1>7, <2>1, PlanConcat, SMTT(30)
<1>9. \A c : c \in Calls(JoinCalls(n, s, p)) <=>
                \/ c \in Calls(q1)
                \/ \E i \in 1 .. 3 : c \in A(i) \cup B(i)
  <2>1. \A c : (\E i \in 1 .. 3 : c \in A(i) \cup B(i)) <=>
                  c \in A(1) \cup B(1) \/ c \in A(2) \cup B(2) \/ c \in A(3) \cup B(3)
    <3>1. \A i \in 1 .. 3 : i = 1 \/ i = 2 \/ i = 3
      OBVIOUS
    <3> QED
      BY <1>0, <3>1, Zenon
  <2> QED
    BY <1>8, <2>1 DEF Plan
<1>10. \A i \in 1 .. 3 : /\ p[i] # n => SuccIn(p[i], n) \in A(i)
                         /\ s[i] # n => PredIn(s[i], n) \in B(i)
                         /\ \A c \in A(i) : p[i] # n /\ c = SuccIn(p[i], n)
                         /\ \A c \in B(i) : s[i] # n /\ c = PredIn(s[i], n)
  BY DEF A, B
<1>11. /\ JoinCalls(n, s, p) \in Seq(Call) /\ InOrder(JoinCalls(n, s, p))
  BY <1>8 DEF Plan
<1>12. ASSUME NEW c \in Calls(JoinCalls(n, s, p)) PROVE
                 \/ c.do = "keys"
                 \/ \E i \in 1 .. 3 : p[i] # n /\ c = SuccIn(p[i], n)
                 \/ \E i \in 1 .. 3 : s[i] # n /\ c = PredIn(s[i], n)
  BY <1>2, <1>9, <1>10
<1>13. ASSUME NEW i \in 1 .. 3 PROVE
                      /\ p[i] # n => SuccIn(p[i], n) \in Calls(JoinCalls(n, s, p))
                      /\ s[i] # n => PredIn(s[i], n) \in Calls(JoinCalls(n, s, p))
  BY <1>9, <1>10
<1> QED
  BY <1>11, <1>12, <1>13

LEMMA Apart ==
    ASSUME NEW c, NEW d, c.at # d.at \/ (SuccCall(c) /\ PredCall(d)) \/ (PredCall(c) /\ SuccCall(d))
    PROVE  ~Conflict(c, d)
BY DEF Conflict, SuccCall, PredCall

\* A removal and, under a condition, an insertion in the same list.
LEMMA PairPlan ==
    ASSUME NEW b \in BOOLEAN, NEW e \in BOOLEAN, NEW c \in Call, NEW d \in Call, ~Conflict(c, d)
    PROVE  Plan(When(b, <<c>> \o When(e, <<d>>)), {x \in {c} \cup {y \in {d} : e} : b})
<1> DEFINE D == {y \in {d} : e}
           r == When(e, <<d>>)
<1>1. Plan(r, D)
  BY PlanOne, PlanWhen
<1>2. Plan(<<c>>, {c})
  BY PlanOne
<1>3. \A x \in {c}, y \in D : ~Conflict(x, y)
  OBVIOUS
<1> HIDE DEF D, r
<1>4. Plan(<<c>> \o r, {c} \cup D)
  BY <1>1, <1>2, <1>3, PlanConcat
<1> DEFINE q == <<c>> \o r
           C == {c} \cup D
<1>5. Plan(q, C)
  BY <1>4
<1> HIDE DEF q, C
<1>6. Plan(When(b, q), {x \in C : b})
  BY <1>5, PlanWhen
<1> QED
  BY <1>6 DEF q, C, r, D

LEMMA RepairPlan ==
    ASSUME NEW n \in Node, NEW d \in Node, NEW s \in List, NEW p \in List,
           Distinct(s, n), Distinct(p, n)
    PROVE  LET q == RepairCalls(n, s, p, d)
           IN  /\ q \in Seq(Call) /\ InOrder(q)
               /\ \A c \in Calls(q) :
                     \/ c.do = "keys"
                     \/ p[1] # n /\ c = SuccOut(p[1], d)
                     \/ p[1] # n /\ p[1] # s[2] /\ c = SuccIn(p[1], s[2])
                     \/ p[2] # n /\ c = SuccOut(p[2], d)
                     \/ p[2] # n /\ p[2] # s[1] /\ c = SuccIn(p[2], s[1])
                     \/ s[1] # n /\ c = PredOut(s[1], d)
                     \/ s[1] # n /\ s[1] # p[2] /\ c = PredIn(s[1], p[2])
                     \/ s[2] # n /\ c = PredOut(s[2], d)
                     \/ s[2] # n /\ s[2] # p[1] /\ c = PredIn(s[2], p[1])
                     \/ s[3] # n /\ c = PredOut(s[3], d)
                     \/ s[3] # n /\ c = PredIn(s[3], n)
               /\ p[1] # n => SuccOut(p[1], d) \in Calls(q)
               /\ p[1] # n /\ p[1] # s[2] => SuccIn(p[1], s[2]) \in Calls(q)
               /\ p[2] # n => SuccOut(p[2], d) \in Calls(q)
               /\ p[2] # n /\ p[2] # s[1] => SuccIn(p[2], s[1]) \in Calls(q)
               /\ s[1] # n => PredOut(s[1], d) \in Calls(q)
               /\ s[1] # n /\ s[1] # p[2] => PredIn(s[1], p[2]) \in Calls(q)
               /\ s[2] # n => PredOut(s[2], d) \in Calls(q)
               /\ s[2] # n /\ s[2] # p[1] => PredIn(s[2], p[1]) \in Calls(q)
               /\ s[3] # n => PredOut(s[3], d) \in Calls(q) /\ PredIn(s[3], n) \in Calls(q)
<1> DEFINE w1 == When(p[1] # n, DeprecateInSuccessors(p[1], d)
                   \o When(p[1] # s[2], InsertInSuccessors(p[1], s[2])))
           w2 == When(p[2] # n, DeprecateInSuccessors(p[2], d)
                      \o When(p[2] # s[1], InsertInSuccessors(p[2], s[1])))
           w3 == When(s[1] # n, DeprecateInPredecessors(s[1], d)
                      \o When(s[1] # p[2], InsertInPredecessors(s[1], p[2])))
           w4 == When(s[2] # n, DeprecateInPredecessors(s[2], d)
                      \o When(s[2] # p[1], InsertInPredecessors(s[2], p[1])))
           w5 == When(s[3] # n, DeprecateInPredecessors(s[3], d) \o InsertInPredecessors(s[3], n))
           w6 == MoveFiles(s[1], n, d, "get", s[3], None)
           w7 == When(s[2] # n, MoveFiles(n, p[1], n, "force get", s[2], None))
           w8 == When(p[1] # n, MoveFiles(p[1], p[2], p[1], "get", s[1], None))
           W1 == {x \in {SuccOut(p[1], d)} \cup {y \in {SuccIn(p[1], s[2])} : p[1] # s[2]} : p[1] # n}
           W2 == {x \in {SuccOut(p[2], d)} \cup {y \in {SuccIn(p[2], s[1])} : p[2] # s[1]} : p[2] # n}
           W3 == {x \in {PredOut(s[1], d)} \cup {y \in {PredIn(s[1], p[2])} : s[1] # p[2]} : s[1] # n}
           W4 == {x \in {PredOut(s[2], d)} \cup {y \in {PredIn(s[2], p[1])} : s[2] # p[1]} : s[2] # n}
           W5 == {x \in {PredOut(s[3], d)} \cup {y \in {PredIn(s[3], n)} : TRUE} : s[3] # n}
           q == RepairCalls(n, s, p, d)
<1>1. \A i \in 1 .. 3 : s[i] \in Node /\ p[i] \in Node
  BY DEF List
<1>2. 1 \in 1 .. 3 /\ 2 \in 1 .. 3 /\ 3 \in 1 .. 3
  OBVIOUS
<1>3. q = w1 \o w2 \o w3 \o w4 \o w5 \o w6 \o w7 \o w8
  BY DEF RepairCalls
<1>4. ASSUME NEW m \in Node, NEW x \in Node, NEW y \in Node
      PROVE  /\ SuccOut(m, x) \in Call /\ SuccIn(m, y) \in Call
             /\ PredOut(m, x) \in Call /\ PredIn(m, y) \in Call
             /\ ~Conflict(SuccOut(m, x), SuccIn(m, y)) /\ ~Conflict(PredOut(m, x), PredIn(m, y))
  <2>1. ~Conflict(SuccOut(m, x), SuccIn(m, y)) /\ ~Conflict(PredOut(m, x), PredIn(m, y))
    BY DEF Conflict, SuccOut, SuccIn, PredOut, PredIn, SuccCall, PredCall
  <2> QED
    BY <2>1, ListCalls
<1>5. Plan(w1, W1)
  <2>1. w1 = When(p[1] # n, <<SuccOut(p[1], d)>> \o When(p[1] # s[2], <<SuccIn(p[1], s[2])>>))
    BY DEF DeprecateInSuccessors, InsertInSuccessors, SuccOut, SuccIn
  <2>2. /\ SuccOut(p[1], d) \in Call /\ SuccIn(p[1], s[2]) \in Call /\ ~Conflict(SuccOut(p[1], d), SuccIn(p[1], s[2]))
        /\ (p[1] # n) \in BOOLEAN /\ (p[1] # s[2]) \in BOOLEAN
    BY <1>1, <1>2, <1>4
  <2> HIDE DEF w1
  <2> QED
    BY <2>1, <2>2, PairPlan
<1>6. Plan(w2, W2)
  <2>1. w2 = When(p[2] # n, <<SuccOut(p[2], d)>> \o When(p[2] # s[1], <<SuccIn(p[2], s[1])>>))
    BY DEF DeprecateInSuccessors, InsertInSuccessors, SuccOut, SuccIn
  <2>2. /\ SuccOut(p[2], d) \in Call /\ SuccIn(p[2], s[1]) \in Call /\ ~Conflict(SuccOut(p[2], d), SuccIn(p[2], s[1]))
        /\ (p[2] # n) \in BOOLEAN /\ (p[2] # s[1]) \in BOOLEAN
    BY <1>1, <1>2, <1>4
  <2> HIDE DEF w2
  <2> QED
    BY <2>1, <2>2, PairPlan
<1>7. Plan(w3, W3)
  <2>1. w3 = When(s[1] # n, <<PredOut(s[1], d)>> \o When(s[1] # p[2], <<PredIn(s[1], p[2])>>))
    BY DEF DeprecateInPredecessors, InsertInPredecessors, PredOut, PredIn
  <2>2. /\ PredOut(s[1], d) \in Call /\ PredIn(s[1], p[2]) \in Call /\ ~Conflict(PredOut(s[1], d), PredIn(s[1], p[2]))
        /\ (s[1] # n) \in BOOLEAN /\ (s[1] # p[2]) \in BOOLEAN
    BY <1>1, <1>2, <1>4
  <2> HIDE DEF w3
  <2> QED
    BY <2>1, <2>2, PairPlan
<1>8. Plan(w4, W4)
  <2>1. w4 = When(s[2] # n, <<PredOut(s[2], d)>> \o When(s[2] # p[1], <<PredIn(s[2], p[1])>>))
    BY DEF DeprecateInPredecessors, InsertInPredecessors, PredOut, PredIn
  <2>2. /\ PredOut(s[2], d) \in Call /\ PredIn(s[2], p[1]) \in Call /\ ~Conflict(PredOut(s[2], d), PredIn(s[2], p[1]))
        /\ (s[2] # n) \in BOOLEAN /\ (s[2] # p[1]) \in BOOLEAN
    BY <1>1, <1>2, <1>4
  <2> HIDE DEF w4
  <2> QED
    BY <2>1, <2>2, PairPlan
<1>9. Plan(w5, W5)
  <2>1. w5 = When(s[3] # n, <<PredOut(s[3], d)>> \o When(TRUE, <<PredIn(s[3], n)>>))
    BY DEF DeprecateInPredecessors, InsertInPredecessors, PredOut, PredIn, When
  <2>2. /\ PredOut(s[3], d) \in Call /\ PredIn(s[3], n) \in Call /\ ~Conflict(PredOut(s[3], d), PredIn(s[3], n))
        /\ (s[3] # n) \in BOOLEAN /\ TRUE \in BOOLEAN
    BY <1>1, <1>2, <1>4
  <2> HIDE DEF w5
  <2> QED
    BY <2>1, <2>2, PairPlan
<1>10. MovePlanned(w6)
  <2>1. None \in Node \cup {None} /\ "get" \in {"get", "force get"}
    OBVIOUS
  <2> QED
    BY <1>1, <1>2, <2>1, MovePlan
<1>11. MovePlanned(w7) /\ MovePlanned(w8)
  <2> DEFINE u == MoveFiles(n, p[1], n, "force get", s[2], None)
             v == MoveFiles(p[1], p[2], p[1], "get", s[1], None)
  <2>1. None \in Node \cup {None} /\ "get" \in {"get", "force get"} /\ "force get" \in {"get", "force get"}
    OBVIOUS
  <2>2. MovePlanned(u)
    BY <1>1, <1>2, <2>1, MovePlan
  <2>3. MovePlanned(v)
    BY <1>1, <1>2, <2>1, MovePlan
  <2>4. ASSUME NEW b \in BOOLEAN, NEW r, MovePlanned(r) PROVE MovePlanned(When(b, r))
    <3>1. Plan(When(b, r), {c \in Calls(r) : b})
      BY <2>4, PlanWhen DEF MovePlanned
    <3> QED
      BY <2>4, <3>1 DEF MovePlanned, Plan
  <2> HIDE DEF u, v
  <2>5. MovePlanned(When(s[2] # n, u)) /\ MovePlanned(When(p[1] # n, v))
    BY <2>2, <2>3, <2>4, (s[2] # n) \in BOOLEAN, (p[1] # n) \in BOOLEAN
  <2> QED
    BY <2>5 DEF u, v
<1>12. /\ \A c \in W1 : p[1] # n /\ (c = SuccOut(p[1], d) \/ (p[1] # s[2] /\ c = SuccIn(p[1], s[2])))
       /\ \A c \in W2 : p[2] # n /\ (c = SuccOut(p[2], d) \/ (p[2] # s[1] /\ c = SuccIn(p[2], s[1])))
       /\ \A c \in W3 : s[1] # n /\ (c = PredOut(s[1], d) \/ (s[1] # p[2] /\ c = PredIn(s[1], p[2])))
       /\ \A c \in W4 : s[2] # n /\ (c = PredOut(s[2], d) \/ (s[2] # p[1] /\ c = PredIn(s[2], p[1])))
       /\ \A c \in W5 : s[3] # n /\ (c = PredOut(s[3], d) \/ c = PredIn(s[3], n))
  OBVIOUS
<1>13. /\ p[1] # n => SuccOut(p[1], d) \in W1
       /\ p[1] # n /\ p[1] # s[2] => SuccIn(p[1], s[2]) \in W1
       /\ p[2] # n => SuccOut(p[2], d) \in W2
       /\ p[2] # n /\ p[2] # s[1] => SuccIn(p[2], s[1]) \in W2
       /\ s[1] # n => PredOut(s[1], d) \in W3
       /\ s[1] # n /\ s[1] # p[2] => PredIn(s[1], p[2]) \in W3
       /\ s[2] # n => PredOut(s[2], d) \in W4
       /\ s[2] # n /\ s[2] # p[1] => PredIn(s[2], p[1]) \in W4
       /\ s[3] # n => PredOut(s[3], d) \in W5 /\ PredIn(s[3], n) \in W5
  OBVIOUS
<1> HIDE DEF w1, w2, w3, w4, w5, w6, w7, w8, W1, W2, W3, W4, W5, q
<1>14. ASSUME NEW m, NEW x
       PROVE  /\ SuccOut(m, x).at = m /\ SuccCall(SuccOut(m, x))
              /\ SuccIn(m, x).at = m /\ SuccCall(SuccIn(m, x))
              /\ PredOut(m, x).at = m /\ PredCall(PredOut(m, x))
              /\ PredIn(m, x).at = m /\ PredCall(PredIn(m, x))
  BY DEF SuccOut, SuccIn, PredOut, PredIn, SuccCall, PredCall
<1>15. /\ \A c \in W1 : p[1] # n /\ c.at = p[1] /\ SuccCall(c)
       /\ \A c \in W2 : p[2] # n /\ c.at = p[2] /\ SuccCall(c)
       /\ \A c \in W3 : s[1] # n /\ c.at = s[1] /\ PredCall(c)
       /\ \A c \in W4 : s[2] # n /\ c.at = s[2] /\ PredCall(c)
       /\ \A c \in W5 : s[3] # n /\ c.at = s[3] /\ PredCall(c)
  BY <1>12, <1>14
<1>16. /\ p[1] # n => p[1] # p[2]
       /\ s[1] # n => s[1] # s[2] /\ s[1] # s[3]
       /\ s[2] # n => s[2] # s[3]
  BY <1>2 DEF Distinct
<1>17. Plan(w1 \o w2, W1 \cup W2)
  <2>1. \A c \in W1, e \in W2 : ~Conflict(c, e)
    BY <1>15, <1>16, Apart
  <2> QED
    BY <1>5, <1>6, <2>1, PlanConcat
<1>18. Plan(w1 \o w2 \o w3, (W1 \cup W2) \cup W3)
  <2>1. \A c \in W1 \cup W2, e \in W3 : ~Conflict(c, e)
    BY <1>15, Apart
  <2> QED
    BY <1>7, <1>17, <2>1, PlanConcat
<1>19. Plan(w1 \o w2 \o w3 \o w4, ((W1 \cup W2) \cup W3) \cup W4)
  <2>1. \A c \in (W1 \cup W2) \cup W3, e \in W4 : ~Conflict(c, e)
    BY <1>15, <1>16, Apart
  <2> QED
    BY <1>8, <1>18, <2>1, PlanConcat
<1>20. Plan(w1 \o w2 \o w3 \o w4 \o w5, (((W1 \cup W2) \cup W3) \cup W4) \cup W5)
  <2>1. \A c \in ((W1 \cup W2) \cup W3) \cup W4, e \in W5 : ~Conflict(c, e)
    BY <1>15, <1>16, Apart
  <2> QED
    BY <1>9, <1>19, <2>1, PlanConcat
<1> DEFINE C == (((W1 \cup W2) \cup W3) \cup W4) \cup W5
           r == w1 \o w2 \o w3 \o w4 \o w5
<1>21. \A c : c \in C <=> c \in W1 \/ c \in W2 \/ c \in W3 \/ c \in W4 \/ c \in W5
  OBVIOUS
<1>22. Plan(r, C) /\ q = ((r \o w6) \o w7) \o w8
  BY <1>3, <1>20
<1> HIDE DEF C, r
<1>23. ASSUME NEW u, NEW v, NEW D, Plan(u, D), MovePlanned(v) PROVE Plan(u \o v, D \cup Calls(v))
  <2>1. \A c \in D, e \in Calls(v) : ~Conflict(c, e)
    BY <1>23, MovingApart DEF MovePlanned, Moving
  <2> QED
    BY <1>23, <2>1, PlanConcat DEF MovePlanned
<1>24. Plan(q, ((C \cup Calls(w6)) \cup Calls(w7)) \cup Calls(w8))
  <2>1. Plan(r \o w6, C \cup Calls(w6))
    BY <1>10, <1>22, <1>23
  <2>2. Plan((r \o w6) \o w7, (C \cup Calls(w6)) \cup Calls(w7))
    BY <1>11, <1>23, <2>1
  <2> QED
    BY <1>11, <1>22, <1>23, <2>2
<1>25. q \in Seq(Call) /\ InOrder(q)
       /\ Calls(q) = ((C \cup Calls(w6)) \cup Calls(w7)) \cup Calls(w8)
  BY <1>24 DEF Plan
<1>26. \A c \in Calls(q) : c.do = "keys" \/ c \in W1 \/ c \in W2 \/ c \in W3 \/ c \in W4 \/ c \in W5
  BY <1>10, <1>11, <1>21, <1>25 DEF MovePlanned
<1>27. \A c : c \in W1 \/ c \in W2 \/ c \in W3 \/ c \in W4 \/ c \in W5 => c \in Calls(q)
  BY <1>21, <1>25
<1> QED
  <2>1. \A c \in Calls(q) :
                     \/ c.do = "keys"
                     \/ p[1] # n /\ c = SuccOut(p[1], d)
                     \/ p[1] # n /\ p[1] # s[2] /\ c = SuccIn(p[1], s[2])
                     \/ p[2] # n /\ c = SuccOut(p[2], d)
                     \/ p[2] # n /\ p[2] # s[1] /\ c = SuccIn(p[2], s[1])
                     \/ s[1] # n /\ c = PredOut(s[1], d)
                     \/ s[1] # n /\ s[1] # p[2] /\ c = PredIn(s[1], p[2])
                     \/ s[2] # n /\ c = PredOut(s[2], d)
                     \/ s[2] # n /\ s[2] # p[1] /\ c = PredIn(s[2], p[1])
                     \/ s[3] # n /\ c = PredOut(s[3], d)
                     \/ s[3] # n /\ c = PredIn(s[3], n)
    BY <1>12, <1>26, Zenon
  <2>2. /\ p[1] # n => SuccOut(p[1], d) \in Calls(q)
        /\ p[1] # n /\ p[1] # s[2] => SuccIn(p[1], s[2]) \in Calls(q)
        /\ p[2] # n => SuccOut(p[2], d) \in Calls(q)
        /\ p[2] # n /\ p[2] # s[1] => SuccIn(p[2], s[1]) \in Calls(q)
        /\ s[1] # n => PredOut(s[1], d) \in Calls(q)
        /\ s[1] # n /\ s[1] # p[2] => PredIn(s[1], p[2]) \in Calls(q)
        /\ s[2] # n => PredOut(s[2], d) \in Calls(q)
        /\ s[2] # n /\ s[2] # p[1] => PredIn(s[2], p[1]) \in Calls(q)
        /\ s[3] # n => PredOut(s[3], d) \in Calls(q) /\ PredIn(s[3], n) \in Calls(q)
    BY <1>13, <1>27
  <2> QED
    BY <1>25, <2>1, <2>2, Zenon DEF q

\* Once the calls of q are made, the list l of successors of m is the one its
\* place in T calls for.
SuccsWill(T, m, l, q) ==
    /\ To(q, "insert succesor", m) = {} /\ To(q, "deprecate succesor", m) = {} => IsSuccs(T, m, l)
    /\ To(q, "deprecate succesor", m) = {} =>
           \A c \in To(q, "insert succesor", m) : IsSuccs(T, m, InsertSuccessor(m, l, c.x))
    /\ To(q, "insert succesor", m) = {} =>
           \A e \in To(q, "deprecate succesor", m) : IsSuccs(T, m, Deprecate(m, l, e.x))
    /\ \A e \in To(q, "deprecate succesor", m), c \in To(q, "insert succesor", m) :
           IsSuccs(T, m, InsertSuccessor(m, Deprecate(m, l, e.x), c.x))

PredsWill(T, m, l, q) ==
    /\ To(q, "insert predecessor", m) = {} /\ To(q, "deprecate predecessor", m) = {} => IsPreds(T, m, l)
    /\ To(q, "deprecate predecessor", m) = {} =>
           \A c \in To(q, "insert predecessor", m) : IsPreds(T, m, InsertPredecessor(m, l, c.x))
    /\ To(q, "insert predecessor", m) = {} =>
           \A e \in To(q, "deprecate predecessor", m) : IsPreds(T, m, Deprecate(m, l, e.x))
    /\ \A e \in To(q, "deprecate predecessor", m), c \in To(q, "insert predecessor", m) :
           IsPreds(T, m, InsertPredecessor(m, Deprecate(m, l, e.x), c.x))

LEMMA SuccsWillSame ==
    ASSUME NEW T, NEW m, NEW l, NEW q, NEW r, SuccsWill(T, m, l, q),
           To(q, "insert succesor", m) = To(r, "insert succesor", m),
           To(q, "deprecate succesor", m) = To(r, "deprecate succesor", m)
    PROVE  SuccsWill(T, m, l, r)
BY DEF SuccsWill

LEMMA PredsWillSame ==
    ASSUME NEW T, NEW m, NEW l, NEW q, NEW r, PredsWill(T, m, l, q),
           To(q, "insert predecessor", m) = To(r, "insert predecessor", m),
           To(q, "deprecate predecessor", m) = To(r, "deprecate predecessor", m)
    PROVE  PredsWill(T, m, l, r)
BY DEF PredsWill

LEMMA ToTail ==
    ASSUME NEW S, NEW q \in Seq(S), q # <<>>, NEW m, NEW op, ~(Head(q).do = op /\ Head(q).at = m)
    PROVE  To(q, op, m) = To(Tail(q), op, m)
<1>1. Calls(q) = {Head(q)} \cup Calls(Tail(q))
  BY CallsTail
<1> QED
  BY <1>1 DEF To

LEMMA SuccsWillHead ==
    ASSUME NEW S, NEW q \in Seq(S), q # <<>>, InOrder(q), NEW T, NEW l,
           NEW m, m = Head(q).at, SuccsWill(T, m, l, q)
    PROVE  /\ Head(q).do = "insert succesor" =>
                  SuccsWill(T, m, InsertSuccessor(m, l, Head(q).x), Tail(q))
           /\ Head(q).do = "deprecate succesor" =>
                  SuccsWill(T, m, Deprecate(m, l, Head(q).x), Tail(q))
<1>1. /\ Calls(q) = {Head(q)} \cup Calls(Tail(q))
      /\ \A c \in Calls(Tail(q)) : ~Conflict(Head(q), c)
  BY CallsTail
<1>2. ASSUME Head(q).do = "insert succesor"
      PROVE  SuccsWill(T, m, InsertSuccessor(m, l, Head(q).x), Tail(q))
  <2>1. \A c \in Calls(Tail(q)) : c.at = m => ~SuccCall(c)
    BY <1>1, <1>2 DEF Conflict, SuccCall
  <2>2. To(Tail(q), "insert succesor", m) = {} /\ To(Tail(q), "deprecate succesor", m) = {}
    BY <2>1 DEF To, SuccCall
  <2>3. Head(q) \in To(q, "insert succesor", m) /\ To(q, "deprecate succesor", m) = {}
    BY <1>1, <1>2, <2>2 DEF To
  <2>4. IsSuccs(T, m, InsertSuccessor(m, l, Head(q).x))
    BY <2>3 DEF SuccsWill
  <2> QED
    BY <2>2, <2>4 DEF SuccsWill
<1>3. ASSUME Head(q).do = "deprecate succesor"
      PROVE  SuccsWill(T, m, Deprecate(m, l, Head(q).x), Tail(q))
  <2>1. \A c \in Calls(Tail(q)) : c.at = m => c.do # "deprecate succesor"
    BY <1>1, <1>3 DEF Conflict, SuccCall
  <2>2. To(Tail(q), "deprecate succesor", m) = {}
    BY <2>1 DEF To
  <2>3. Head(q) \in To(q, "deprecate succesor", m)
    BY <1>1, <1>3 DEF To
  <2>4. To(q, "insert succesor", m) = To(Tail(q), "insert succesor", m)
    BY <1>3, ToTail
  <2>5. To(Tail(q), "insert succesor", m) = {} => IsSuccs(T, m, Deprecate(m, l, Head(q).x))
    BY <2>3, <2>4 DEF SuccsWill
  <2>6. \A c \in To(Tail(q), "insert succesor", m) :
            IsSuccs(T, m, InsertSuccessor(m, Deprecate(m, l, Head(q).x), c.x))
    BY <2>3, <2>4 DEF SuccsWill
  <2> QED
    BY <2>2, <2>5, <2>6 DEF SuccsWill
<1> QED
  BY <1>2, <1>3

LEMMA PredsWillHead ==
    ASSUME NEW S, NEW q \in Seq(S), q # <<>>, InOrder(q), NEW T, NEW l,
           NEW m, m = Head(q).at, PredsWill(T, m, l, q)
    PROVE  /\ Head(q).do = "insert predecessor" =>
                  PredsWill(T, m, InsertPredecessor(m, l, Head(q).x), Tail(q))
           /\ Head(q).do = "deprecate predecessor" =>
                  PredsWill(T, m, Deprecate(m, l, Head(q).x), Tail(q))
<1>1. /\ Calls(q) = {Head(q)} \cup Calls(Tail(q))
      /\ \A c \in Calls(Tail(q)) : ~Conflict(Head(q), c)
  BY CallsTail
<1>2. ASSUME Head(q).do = "insert predecessor"
      PROVE  PredsWill(T, m, InsertPredecessor(m, l, Head(q).x), Tail(q))
  <2>1. \A c \in Calls(Tail(q)) : c.at = m => ~PredCall(c)
    BY <1>1, <1>2 DEF Conflict, PredCall
  <2>2. To(Tail(q), "insert predecessor", m) = {} /\ To(Tail(q), "deprecate predecessor", m) = {}
    BY <2>1 DEF To, PredCall
  <2>3. Head(q) \in To(q, "insert predecessor", m) /\ To(q, "deprecate predecessor", m) = {}
    BY <1>1, <1>2, <2>2 DEF To
  <2>4. IsPreds(T, m, InsertPredecessor(m, l, Head(q).x))
    BY <2>3 DEF PredsWill
  <2> QED
    BY <2>2, <2>4 DEF PredsWill
<1>3. ASSUME Head(q).do = "deprecate predecessor"
      PROVE  PredsWill(T, m, Deprecate(m, l, Head(q).x), Tail(q))
  <2>1. \A c \in Calls(Tail(q)) : c.at = m => c.do # "deprecate predecessor"
    BY <1>1, <1>3 DEF Conflict, PredCall
  <2>2. To(Tail(q), "deprecate predecessor", m) = {}
    BY <2>1 DEF To
  <2>3. Head(q) \in To(q, "deprecate predecessor", m)
    BY <1>1, <1>3 DEF To
  <2>4. To(q, "insert predecessor", m) = To(Tail(q), "insert predecessor", m)
    BY <1>3, ToTail
  <2>5. To(Tail(q), "insert predecessor", m) = {} => IsPreds(T, m, Deprecate(m, l, Head(q).x))
    BY <2>3, <2>4 DEF PredsWill
  <2>6. \A c \in To(Tail(q), "insert predecessor", m) :
            IsPreds(T, m, InsertPredecessor(m, Deprecate(m, l, Head(q).x), c.x))
    BY <2>3, <2>4 DEF PredsWill
  <2> QED
    BY <2>2, <2>5, <2>6 DEF PredsWill
<1> QED
  BY <1>2, <1>3

LEMMA FollowDistinct ==
    ASSUME NEW R \in SUBSET Int, NEW n \in R, NEW x, NEW y, NEW z, Follow(R, n, x, y, z)
    PROVE  /\ x \in R /\ y \in R /\ z \in R
           /\ x # n => x # y /\ x # z
           /\ y # n => y # x /\ y # z
           /\ z # n => z # x /\ z # y
<1>1. x \in R /\ y \in R /\ z \in R
  BY DEF Follow, IsNext
<1> QED
  BY <1>1, FirstThree DEF Follow

LEMMA PrecedeDistinct ==
    ASSUME NEW R \in SUBSET Int, NEW n \in R, NEW x, NEW y, NEW z, Precede(R, n, x, y, z)
    PROVE  /\ x # n => x # y /\ x # z
           /\ y # n => y # x /\ y # z
           /\ z # n => z # x /\ z # y
<1>1. x \in R /\ y \in R /\ z \in R
  BY DEF Precede
<1> QED
  BY <1>1, LastThree DEF Precede

LEMMA ListDistinct ==
    ASSUME NEW R \in SUBSET Int, NEW n \in R, NEW l, IsSuccs(R, n, l) \/ IsPreds(R, n, l)
    PROVE  Distinct(l, n)
<1>1. /\ l[1] # n => l[1] # l[2] /\ l[1] # l[3]
      /\ l[2] # n => l[2] # l[1] /\ l[2] # l[3]
      /\ l[3] # n => l[3] # l[1] /\ l[3] # l[2]
  BY FollowDistinct, PrecedeDistinct DEF IsSuccs, IsPreds
<1>2. \A i \in 1 .. 3 : i = 1 \/ i = 2 \/ i = 3
  OBVIOUS
<1>3. ASSUME NEW i \in 1 .. 3, NEW j \in 1 .. 3, i # j, l[i] # n PROVE l[i] # l[j]
  <2>1. (i = 1 \/ i = 2 \/ i = 3) /\ (j = 1 \/ j = 2 \/ j = 3)
    BY <1>2
  <2> QED
    BY <1>1, <1>3, <2>1
<1> QED
  BY <1>3 DEF Distinct

LEMMA ThreeList ==
    ASSUME NEW x \in Node, NEW y \in Node, NEW z \in Node
    PROVE  /\ Three(x, y, z) \in List
           /\ Three(x, y, z)[1] = x /\ Three(x, y, z)[2] = y /\ Three(x, y, z)[3] = z
BY DEF Three, List

LEMMA ThreeFollow ==
    ASSUME NEW T, NEW m, NEW x, NEW y, NEW z
    PROVE  /\ IsSuccs(T, m, Three(x, y, z)) <=> Follow(T, m, x, y, z)
           /\ IsPreds(T, m, Three(x, y, z)) <=> Precede(T, m, x, y, z)
<1>1. Three(x, y, z)[1] = x /\ Three(x, y, z)[2] = y /\ Three(x, y, z)[3] = z
  BY DEF Three
<1> QED
  BY <1>1 DEF IsSuccs, IsPreds

LEMMA JoinLists ==
    ASSUME NEW n \in Node, NEW p \in Node, NEW l \in List
    PROVE  /\ JoinSuccessors(n, p, l) = Three(l[1], IF l[1] = p THEN n ELSE l[2],
                                             IF l[1] = p \/ l[2] = p THEN n ELSE l[3])
           /\ JoinPredecessors(n, p, l) = Three(p, IF l[1] = p THEN n ELSE l[1],
                                               IF l[1] = p \/ l[2] = p THEN n ELSE l[2])
<1>1. /\ 1 .. (1 - 1) = {} /\ \A j \in 1 .. (2 - 1) : j = 1 /\ 1 \in 1 .. (2 - 1)
      /\ (\A j \in 1 .. (3 - 1) : j = 1 \/ j = 2) /\ 1 \in 1 .. (3 - 1) /\ 2 \in 1 .. (3 - 1)
      /\ \A i \in 1 .. 3 : i = 1 \/ i = 2 \/ i = 3
      /\ Level + 1 = 3
  OBVIOUS
<1>2. ASSUME NEW i \in 1 .. 3
      PROVE  (\A j \in 1 .. (i - 1) : l[j] # p) <=>
                 IF i = 1 THEN TRUE ELSE IF i = 2 THEN l[1] # p ELSE l[1] # p /\ l[2] # p
  <2>1. CASE i = 1
    BY <2>1
  <2>2. CASE i = 2
    BY <2>2
  <2>3. CASE i = 3
    <3>1. \A j \in 1 .. (i - 1) : j = 1 \/ j = 2
      BY <2>3
    <3>2. 1 \in 1 .. (i - 1) /\ 2 \in 1 .. (i - 1)
      BY <2>3
    <3> QED
      BY <2>3, <3>1, <3>2
  <2> QED
    BY <2>1, <2>2, <2>3
<1>3. ASSUME NEW i \in 1 .. 3
      PROVE  (IF \A j \in 1 .. (i - 1) : l[j] # p THEN l[i] ELSE n) =
             (IF i = 1 THEN l[1] ELSE IF i = 2 THEN IF l[1] = p THEN n ELSE l[2]
              ELSE IF l[1] = p \/ l[2] = p THEN n ELSE l[3])
  <2>1. i = 1 \/ i = 2 \/ i = 3
    OBVIOUS
  <2> QED
    BY <1>2, <2>1
<1>4. ASSUME NEW i \in 1 .. 3
      PROVE  (IF i = 1 THEN p ELSE IF \A j \in 1 .. (i - 1) : l[j] # p THEN l[i - 1] ELSE n) =
             (IF i = 1 THEN p ELSE IF i = 2 THEN IF l[1] = p THEN n ELSE l[1]
              ELSE IF l[1] = p \/ l[2] = p THEN n ELSE l[2])
  <2>1. i = 1 \/ i = 2 \/ i = 3
    OBVIOUS
  <2>2. i = 2 => i - 1 = 1
    OBVIOUS
  <2>3. i = 3 => i - 1 = 2
    OBVIOUS
  <2> QED
    BY <1>2, <2>1, <2>2, <2>3
<1> DEFINE y1 == IF l[1] = p THEN n ELSE l[2]
           z1 == IF l[1] = p \/ l[2] = p THEN n ELSE l[3]
           y2 == IF l[1] = p THEN n ELSE l[1]
           z2 == IF l[1] = p \/ l[2] = p THEN n ELSE l[2]
           F(i) == IF \A j \in 1 .. (i - 1) : l[j] # p THEN l[i] ELSE n
           G(i) == IF i = 1 THEN p ELSE IF \A j \in 1 .. (i - 1) : l[j] # p THEN l[i - 1] ELSE n
<1>5. JoinSuccessors(n, p, l) = [i \in 1 .. 3 |-> F(i)] /\ JoinPredecessors(n, p, l) = [i \in 1 .. 3 |-> G(i)]
  BY DEF JoinSuccessors, JoinPredecessors
<1>6. \A i \in 1 .. 3 : F(i) = IF i = 1 THEN l[1] ELSE IF i = 2 THEN y1 ELSE z1
  BY <1>3
<1>7. \A i \in 1 .. 3 : G(i) = IF i = 1 THEN p ELSE IF i = 2 THEN y2 ELSE z2
  BY <1>4
<1> HIDE DEF F, G, y1, z1, y2, z2
<1>8. [i \in 1 .. 3 |-> F(i)] = Three(l[1], y1, z1)
  BY <1>6 DEF Three
<1>9. [i \in 1 .. 3 |-> G(i)] = Three(p, y2, z2)
  BY <1>7 DEF Three
<1> QED
  BY <1>5, <1>8, <1>9 DEF y1, z1, y2, z2

LEMMA Members == \A R \in SUBSET Node : R \in SUBSET Int /\ \A n \in Node : R \cup {n} \in SUBSET Int
OBVIOUS

\* What the newcomer learns from its predecessor p, and what it does with it,
\* makes the lists right.
\* The calls q of a join make the lists of R those of R and n.
JoinDone(R, n, sl, pl, s, r, q) ==
    /\ s \in List /\ r \in List
    /\ q \in Seq(Call) /\ InOrder(q)
    /\ \A c \in Calls(q) : c.do \notin {"lists", "third", "put"}
    /\ SuccsWill(R \cup {n}, n, s, q) /\ PredsWill(R \cup {n}, n, r, q)
    /\ \A m \in R : SuccsWill(R \cup {n}, m, sl[m], q) /\ PredsWill(R \cup {n}, m, pl[m], q)

LEMMA JoinSettles ==
    ASSUME NEW R \in SUBSET Node, NEW n \in Node, n \notin R, NEW p \in R, IsNext(R \cup {n}, p, n),
           NEW sl \in [R -> List], NEW pl \in [R -> List],
           \A m \in R : IsSuccs(R, m, sl[m]) /\ IsPreds(R, m, pl[m]),
           NEW s, s = JoinSuccessors(n, p, sl[p]), NEW r, r = JoinPredecessors(n, p, pl[p]),
           NEW q, q = JoinCalls(n, s, r)
    PROVE  JoinDone(R, n, sl, pl, s, r, q)
<1> DEFINE T == R \cup {n}
<1>0. R \in SUBSET Int /\ T \in SUBSET Int /\ n \in Int /\ p \in Node /\ n \in T
  OBVIOUS
<1>1. sl[p] \in List /\ pl[p] \in List /\ IsSuccs(R, p, sl[p]) /\ IsPreds(R, p, pl[p])
  OBVIOUS
<1> DEFINE s1 == sl[p][1]
           s2 == IF sl[p][1] = p THEN n ELSE sl[p][2]
           s3 == IF sl[p][1] = p \/ sl[p][2] = p THEN n ELSE sl[p][3]
           r2 == IF pl[p][1] = p THEN n ELSE pl[p][1]
           r3 == IF pl[p][1] = p \/ pl[p][2] = p THEN n ELSE pl[p][2]
<1>2. s = Three(s1, s2, s3) /\ r = Three(p, r2, r3)
  BY <1>0, <1>1, JoinLists
<1>3. Follow(T, n, s1, s2, s3)
  BY <1>0, <1>1, NewFollows DEF IsSuccs
<1>4. Precede(T, n, p, r2, r3)
  BY <1>0, <1>1, NewPrecedes DEF IsPreds
<1>5. s1 \in R
  BY <1>1 DEF IsSuccs, Follow, IsNext
<1> HIDE DEF s1, s2, s3, r2, r3
<1>6. /\ s1 \in Node /\ s2 \in Node /\ s3 \in Node /\ r2 \in Node /\ r3 \in Node
  <2>1. s1 \in T /\ s2 \in T /\ s3 \in T
    BY <1>0, <1>3, FollowDistinct
  <2>2. r2 \in T /\ r3 \in T
    BY <1>4 DEF Precede
  <2> QED
    BY <2>1, <2>2
<1>7. /\ s \in List /\ s[1] = s1 /\ s[2] = s2 /\ s[3] = s3
      /\ r \in List /\ r[1] = p /\ r[2] = r2 /\ r[3] = r3
  <2>1. /\ Three(s1, s2, s3) \in List /\ Three(s1, s2, s3)[1] = s1
        /\ Three(s1, s2, s3)[2] = s2 /\ Three(s1, s2, s3)[3] = s3
    BY <1>6, ThreeList
  <2>2. /\ Three(p, r2, r3) \in List /\ Three(p, r2, r3)[1] = p
        /\ Three(p, r2, r3)[2] = r2 /\ Three(p, r2, r3)[3] = r3
    BY <1>0, <1>6, ThreeList
  <2> QED
    BY <1>2, <2>1, <2>2
<1>8. IsSuccs(T, n, s) /\ IsPreds(T, n, r)
  BY <1>3, <1>4, <1>7 DEF IsSuccs, IsPreds
<1>9. Distinct(s, n) /\ Distinct(r, n)
  BY <1>0, <1>8, ListDistinct
<1>10. /\ q \in Seq(Call) /\ InOrder(q)
       /\ \A c \in Calls(q) : \/ c.do = "keys"
                              \/ \E i \in 1 .. 3 : r[i] # n /\ c = SuccIn(r[i], n)
                              \/ \E i \in 1 .. 3 : s[i] # n /\ c = PredIn(s[i], n)
       /\ \A i \in 1 .. 3 : /\ r[i] # n => SuccIn(r[i], n) \in Calls(q)
                            /\ s[i] # n => PredIn(s[i], n) \in Calls(q)
  BY <1>7, <1>9, JoinPlan
<1>11. ASSUME NEW x PROVE /\ SuccIn(x, n).do = "insert succesor" /\ SuccIn(x, n).at = x /\ SuccIn(x, n).x = n
                          /\ PredIn(x, n).do = "insert predecessor" /\ PredIn(x, n).at = x /\ PredIn(x, n).x = n
  BY DEF SuccIn, PredIn
<1>12. \A c \in Calls(q) : c.do \in {"keys", "insert succesor", "insert predecessor"}
  <2>1. SUFFICES ASSUME NEW c \in Calls(q)
                 PROVE  c.do \in {"keys", "insert succesor", "insert predecessor"}
    OBVIOUS
  <2>2. CASE c.do = "keys"
    BY <2>2
  <2>3. CASE \E i \in 1 .. 3 : r[i] # n /\ c = SuccIn(r[i], n)
    <3>1. PICK i \in 1 .. 3 : c = SuccIn(r[i], n)
      BY <2>3
    <3>2. SuccIn(r[i], n).do = "insert succesor"
      BY <1>11
    <3> QED
      BY <3>1, <3>2
  <2>4. CASE \E i \in 1 .. 3 : s[i] # n /\ c = PredIn(s[i], n)
    <3>1. PICK i \in 1 .. 3 : c = PredIn(s[i], n)
      BY <2>4
    <3>2. PredIn(s[i], n).do = "insert predecessor"
      BY <1>11
    <3> QED
      BY <3>1, <3>2
  <2> QED
    BY <1>10, <2>2, <2>3, <2>4
<1>13. \A m : To(q, "deprecate succesor", m) = {} /\ To(q, "deprecate predecessor", m) = {}
  BY <1>12 DEF To
<1>14. \A c \in Calls(q) : /\ c.do = "insert succesor" => c.x = n /\ \E i \in 1 .. 3 : r[i] # n /\ c.at = r[i]
                           /\ c.do = "insert predecessor" => c.x = n /\ \E i \in 1 .. 3 : s[i] # n /\ c.at = s[i]
  <2>1. SUFFICES ASSUME NEW c \in Calls(q)
                 PROVE  /\ c.do = "insert succesor" => c.x = n /\ \E i \in 1 .. 3 : r[i] # n /\ c.at = r[i]
                        /\ c.do = "insert predecessor" => c.x = n /\ \E i \in 1 .. 3 : s[i] # n /\ c.at = s[i]
    OBVIOUS
  <2>2. CASE c.do = "keys"
    BY <2>2
  <2>3. CASE \E i \in 1 .. 3 : r[i] # n /\ c = SuccIn(r[i], n)
    <3>1. PICK i \in 1 .. 3 : r[i] # n /\ c = SuccIn(r[i], n)
      BY <2>3
    <3>2. c.do = "insert succesor" /\ c.at = r[i] /\ c.x = n
      BY <1>11, <3>1
    <3> QED
      BY <3>1, <3>2
  <2>4. CASE \E i \in 1 .. 3 : s[i] # n /\ c = PredIn(s[i], n)
    <3>1. PICK i \in 1 .. 3 : s[i] # n /\ c = PredIn(s[i], n)
      BY <2>4
    <3>2. c.do = "insert predecessor" /\ c.at = s[i] /\ c.x = n
      BY <1>11, <3>1
    <3> QED
      BY <3>1, <3>2
  <2> QED
    BY <1>10, <2>2, <2>3, <2>4
<1>15. \A i \in 1 .. 3 : i = 1 \/ i = 2 \/ i = 3
  OBVIOUS
<1>16. To(q, "insert succesor", n) = {} /\ To(q, "insert predecessor", n) = {}
  <2>1. \A c \in Calls(q) : c.do \in {"insert succesor", "insert predecessor"} => c.at # n
    BY <1>14, ZenonT(60)
  <2> QED
    BY <2>1 DEF To
<1>17. SuccsWill(T, n, s, q) /\ PredsWill(T, n, r, q)
  BY <1>8, <1>13, <1>16 DEF SuccsWill, PredsWill
<1>18. ASSUME NEW m \in R PROVE SuccsWill(T, m, sl[m], q)
  <2>0. m # n /\ sl[m] \in List /\ m \in Node
    OBVIOUS
  <2>1. PICK x \in R, y \in R, z \in R : sl[m] = Three(x, y, z) /\ Follow(R, m, x, y, z)
                                         /\ sl[m][1] = x /\ sl[m][2] = y /\ sl[m][3] = z
    <3>1. Follow(R, m, sl[m][1], sl[m][2], sl[m][3])
      BY DEF IsSuccs
    <3>2. sl[m][1] \in R /\ sl[m][2] \in R /\ sl[m][3] \in R
      BY <1>0, <3>1, FollowDistinct
    <3>3. sl[m] = Three(sl[m][1], sl[m][2], sl[m][3])
      BY <2>0, ThreeSame
    <3> QED
      BY <3>1, <3>2, <3>3
  <2>2. m \in {p, r2, r3} <=> m = p \/ x = p \/ y = p
    BY <1>0, <1>4, <2>1, ReachedFrom
  <2>3. CASE m \in {p, r2, r3}
    <3>1. IsSuccs(T, m, InsertSuccessor(m, sl[m], n))
      <4>1. InsertSuccessor(m, sl[m], n) =
               IF x = m THEN Three(n, x, y)
               ELSE IF IsInBetweenModular(n, x, y) THEN Three(x, n, y)
               ELSE IF IsInBetweenModular(n, y, z) THEN Three(x, y, n)
               ELSE Three(n, x, y)
        BY <2>0, <2>1, InsertSuccessorThree
      <4>2. IF x = m THEN Follow(T, m, n, x, y)
            ELSE IF IsInBetweenModular(n, x, y) THEN Follow(T, m, x, n, y)
            ELSE IF IsInBetweenModular(n, y, z) THEN Follow(T, m, x, y, n)
            ELSE Follow(T, m, n, x, y)
        BY <1>0, <2>1, <2>2, <2>3, PlaceFollows
      <4> QED
        BY <4>1, <4>2, ThreeFollow
    <3>2. SuccIn(m, n) \in To(q, "insert succesor", m)
      <4>1. \E i \in 1 .. 3 : r[i] = m
        BY <1>7, <1>15, <2>3
      <4>2. SuccIn(m, n) \in Calls(q)
        BY <1>10, <2>0, <4>1
      <4> QED
        BY <1>11, <4>2 DEF To
    <3>3. \A c \in To(q, "insert succesor", m) : c.x = n
      BY <1>14 DEF To
    <3> QED
      BY <1>13, <3>1, <3>2, <3>3 DEF SuccsWill
  <2>4. CASE m \notin {p, r2, r3}
    <3>1. IsSuccs(T, m, sl[m])
      <4>1. Follow(T, m, x, y, z)
        BY <1>0, <2>1, <2>2, <2>4, KeepsFollowing
      <4> QED
        BY <2>1, <4>1 DEF IsSuccs
    <3>2. To(q, "insert succesor", m) = {}
      <4>1. \A i \in 1 .. 3 : r[i] # m
        BY <1>7, <1>15, <2>4
      <4>2. ASSUME NEW c \in Calls(q), c.do = "insert succesor" PROVE c.at # m
        BY <1>14, <4>1, <4>2, ZenonT(60)
      <4> QED
        BY <4>2 DEF To
    <3> QED
      BY <1>13, <3>1, <3>2 DEF SuccsWill
  <2> QED
    BY <2>3, <2>4
<1>19. ASSUME NEW m \in R PROVE PredsWill(T, m, pl[m], q)
  <2>0. m # n /\ pl[m] \in List /\ m \in Node
    OBVIOUS
  <2>1. PICK x \in R, y \in R, z \in R : pl[m] = Three(x, y, z) /\ Precede(R, m, x, y, z)
                                         /\ pl[m][1] = x /\ pl[m][2] = y /\ pl[m][3] = z
    BY <1>0, <2>0, ThreeSame DEF IsPreds, Precede
  <2>2. IsNext(T, n, s1)
    BY <1>3 DEF Follow
  <2>3. m \in {s1, s2, s3} <=> m = s1 \/ x = s1 \/ y = s1
    BY <1>0, <1>3, <1>5, <2>1, ReachedBy
  <2>4. CASE m \in {s1, s2, s3}
    <3>1. IsPreds(T, m, InsertPredecessor(m, pl[m], n))
      <4>1. InsertPredecessor(m, pl[m], n) =
               IF x = m THEN Three(n, x, y)
               ELSE IF IsInBetweenModular(n, y, x) THEN Three(x, n, y)
               ELSE IF IsInBetweenModular(n, z, y) THEN Three(x, y, n)
               ELSE Three(n, x, y)
        BY <2>0, <2>1, InsertPredecessorThree
      <4>2. IF x = m THEN Precede(T, m, n, x, y)
            ELSE IF IsInBetweenModular(n, y, x) THEN Precede(T, m, x, n, y)
            ELSE IF IsInBetweenModular(n, z, y) THEN Precede(T, m, x, y, n)
            ELSE Precede(T, m, n, x, y)
        <5>1. m = s1 \/ x = s1 \/ y = s1
          BY <2>3, <2>4
        <5> QED
          BY <1>0, <1>5, <2>1, <2>2, <5>1, PlacePrecedes
      <4> QED
        BY <4>1, <4>2, ThreeFollow
    <3>2. PredIn(m, n) \in To(q, "insert predecessor", m)
      <4>1. \E i \in 1 .. 3 : s[i] = m
        BY <1>7, <1>15, <2>4
      <4>2. PredIn(m, n) \in Calls(q)
        BY <1>10, <2>0, <4>1
      <4> QED
        BY <1>11, <4>2 DEF To
    <3>3. \A c \in To(q, "insert predecessor", m) : c.x = n
      BY <1>14 DEF To
    <3> QED
      BY <1>13, <3>1, <3>2, <3>3 DEF PredsWill
  <2>5. CASE m \notin {s1, s2, s3}
    <3>1. IsPreds(T, m, pl[m])
      <4>1. Precede(T, m, x, y, z)
        BY <1>0, <1>5, <2>1, <2>2, <2>3, <2>5, KeepsPreceding
      <4> QED
        BY <2>1, <4>1 DEF IsPreds
    <3>2. To(q, "insert predecessor", m) = {}
      <4>1. \A i \in 1 .. 3 : s[i] # m
        BY <1>7, <1>15, <2>5
      <4>2. ASSUME NEW c \in Calls(q), c.do = "insert predecessor" PROVE c.at # m
        BY <1>14, <4>1, <4>2, ZenonT(60)
      <4> QED
        BY <4>2 DEF To
    <3> QED
      BY <1>13, <3>1, <3>2 DEF PredsWill
  <2> QED
    BY <2>4, <2>5
<1>20. \A c \in Calls(q) : c.do \notin {"lists", "third", "put"}
  BY <1>12
<1> QED
  BY <1>7, <1>10, <1>17, <1>18, <1>19, <1>20 DEF JoinDone

\* What the repair calls for: removals of d, and the insertions that follow.
RepairCallsOnly(q, n, d, s1, s2, s3, p1, p2) ==
    \A c \in Calls(q) :
        /\ c.do \in {"keys", "insert succesor", "deprecate succesor",
                     "insert predecessor", "deprecate predecessor"}
        /\ c.do = "deprecate succesor" => c.x = d /\ c.at # n /\ c.at \in {p1, p2}
        /\ c.do = "insert succesor" =>
              \/ c.at = p1 /\ p1 # n /\ p1 # s2 /\ c.x = s2
              \/ c.at = p2 /\ p2 # n /\ p2 # s1 /\ c.x = s1
        /\ c.do = "deprecate predecessor" => c.x = d /\ c.at # n /\ c.at \in {s1, s2, s3}
        /\ c.do = "insert predecessor" =>
              \/ c.at = s1 /\ s1 # n /\ s1 # p2 /\ c.x = p2
              \/ c.at = s2 /\ s2 # n /\ s2 # p1 /\ c.x = p1
              \/ c.at = s3 /\ s3 # n /\ c.x = n

RepairCallsAll(q, n, s1, s2, s3, p1, p2) ==
    \A m : m # n =>
        /\ m \in {p1, p2} => \E c \in To(q, "deprecate succesor", m) : TRUE
        /\ (m = p1 /\ m # s2) \/ (m = p2 /\ m # s1) =>
               \E c \in To(q, "insert succesor", m) : TRUE
        /\ m \in {s1, s2, s3} => \E c \in To(q, "deprecate predecessor", m) : TRUE
        /\ (m = s1 /\ m # p2) \/ (m = s2 /\ m # p1) \/ m = s3 =>
               \E c \in To(q, "insert predecessor", m) : TRUE

LEMMA RepairCallsTo ==
    ASSUME NEW n \in Node, NEW d \in Node, NEW s \in List, NEW p \in List,
           Distinct(s, n), Distinct(p, n), NEW q, q = RepairCalls(n, s, p, d)
    PROVE  /\ q \in Seq(Call) /\ InOrder(q)
           /\ RepairCallsOnly(q, n, d, s[1], s[2], s[3], p[1], p[2])
<1>1. ASSUME NEW m, NEW x
      PROVE  /\ SuccIn(m, x).do = "insert succesor" /\ SuccIn(m, x).at = m /\ SuccIn(m, x).x = x
             /\ PredIn(m, x).do = "insert predecessor" /\ PredIn(m, x).at = m /\ PredIn(m, x).x = x
             /\ SuccOut(m, x).do = "deprecate succesor" /\ SuccOut(m, x).at = m /\ SuccOut(m, x).x = x
             /\ PredOut(m, x).do = "deprecate predecessor" /\ PredOut(m, x).at = m /\ PredOut(m, x).x = x
  BY DEF SuccIn, PredIn, SuccOut, PredOut
<1>2. q \in Seq(Call) /\ InOrder(q)
  BY RepairPlan, SMTT(30)
<1>3. SUFFICES ASSUME NEW c \in Calls(q)
               PROVE
                 /\ c.do \in {"keys", "insert succesor", "deprecate succesor",
                              "insert predecessor", "deprecate predecessor"}
                 /\ c.do = "deprecate succesor" => c.x = d /\ c.at # n /\ c.at \in {p[1], p[2]}
                 /\ c.do = "insert succesor" =>
                       \/ c.at = p[1] /\ p[1] # n /\ p[1] # s[2] /\ c.x = s[2]
                       \/ c.at = p[2] /\ p[2] # n /\ p[2] # s[1] /\ c.x = s[1]
                 /\ c.do = "deprecate predecessor" => c.x = d /\ c.at # n /\ c.at \in {s[1], s[2], s[3]}
                 /\ c.do = "insert predecessor" =>
                       \/ c.at = s[1] /\ s[1] # n /\ s[1] # p[2] /\ c.x = p[2]
                       \/ c.at = s[2] /\ s[2] # n /\ s[2] # p[1] /\ c.x = p[1]
                       \/ c.at = s[3] /\ s[3] # n /\ c.x = n
  BY <1>2, <1>3 DEF RepairCallsOnly
<1>4.                \/ c.do = "keys"
                     \/ p[1] # n /\ c = SuccOut(p[1], d)
                     \/ p[1] # n /\ p[1] # s[2] /\ c = SuccIn(p[1], s[2])
                     \/ p[2] # n /\ c = SuccOut(p[2], d)
                     \/ p[2] # n /\ p[2] # s[1] /\ c = SuccIn(p[2], s[1])
                     \/ s[1] # n /\ c = PredOut(s[1], d)
                     \/ s[1] # n /\ s[1] # p[2] /\ c = PredIn(s[1], p[2])
                     \/ s[2] # n /\ c = PredOut(s[2], d)
                     \/ s[2] # n /\ s[2] # p[1] /\ c = PredIn(s[2], p[1])
                     \/ s[3] # n /\ c = PredOut(s[3], d)
                     \/ s[3] # n /\ c = PredIn(s[3], n)
  BY RepairPlan, SMTT(30)
<1>5. CASE c.do = "keys"
  BY <1>5
<1>6. CASE p[1] # n /\ c = SuccOut(p[1], d)
  <2>0. SuccOut(p[1], d).do = "deprecate succesor" /\ SuccOut(p[1], d).at = p[1] /\ SuccOut(p[1], d).x = d
    BY DEF SuccOut
  <2>1. c.do = "deprecate succesor" /\ c.at = p[1] /\ c.x = d
    BY <1>6, <2>0
  <2> QED
    BY <1>6, <2>1
<1>7. CASE p[2] # n /\ c = SuccOut(p[2], d)
  <2>0. SuccOut(p[2], d).do = "deprecate succesor" /\ SuccOut(p[2], d).at = p[2] /\ SuccOut(p[2], d).x = d
    BY DEF SuccOut
  <2>1. c.do = "deprecate succesor" /\ c.at = p[2] /\ c.x = d
    BY <1>7, <2>0
  <2> QED
    BY <1>7, <2>1
<1>8. CASE p[1] # n /\ p[1] # s[2] /\ c = SuccIn(p[1], s[2])
  <2>0. SuccIn(p[1], s[2]).do = "insert succesor" /\ SuccIn(p[1], s[2]).at = p[1] /\ SuccIn(p[1], s[2]).x = s[2]
    BY DEF SuccIn
  <2>1. c.do = "insert succesor" /\ c.at = p[1] /\ c.x = s[2]
    BY <1>8, <2>0
  <2> QED
    BY <1>8, <2>1
<1>9. CASE p[2] # n /\ p[2] # s[1] /\ c = SuccIn(p[2], s[1])
  <2>0. SuccIn(p[2], s[1]).do = "insert succesor" /\ SuccIn(p[2], s[1]).at = p[2] /\ SuccIn(p[2], s[1]).x = s[1]
    BY DEF SuccIn
  <2>1. c.do = "insert succesor" /\ c.at = p[2] /\ c.x = s[1]
    BY <1>9, <2>0
  <2> QED
    BY <1>9, <2>1
<1>10. CASE s[1] # n /\ c = PredOut(s[1], d)
  <2>0. PredOut(s[1], d).do = "deprecate predecessor" /\ PredOut(s[1], d).at = s[1] /\ PredOut(s[1], d).x = d
    BY DEF PredOut
  <2>1. c.do = "deprecate predecessor" /\ c.at = s[1] /\ c.x = d
    BY <1>10, <2>0
  <2> QED
    BY <1>10, <2>1
<1>11. CASE s[2] # n /\ c = PredOut(s[2], d)
  <2>0. PredOut(s[2], d).do = "deprecate predecessor" /\ PredOut(s[2], d).at = s[2] /\ PredOut(s[2], d).x = d
    BY DEF PredOut
  <2>1. c.do = "deprecate predecessor" /\ c.at = s[2] /\ c.x = d
    BY <1>11, <2>0
  <2> QED
    BY <1>11, <2>1
<1>12. CASE s[3] # n /\ c = PredOut(s[3], d)
  <2>0. PredOut(s[3], d).do = "deprecate predecessor" /\ PredOut(s[3], d).at = s[3] /\ PredOut(s[3], d).x = d
    BY DEF PredOut
  <2>1. c.do = "deprecate predecessor" /\ c.at = s[3] /\ c.x = d
    BY <1>12, <2>0
  <2> QED
    BY <1>12, <2>1
<1>13. CASE s[1] # n /\ s[1] # p[2] /\ c = PredIn(s[1], p[2])
  <2>0. PredIn(s[1], p[2]).do = "insert predecessor" /\ PredIn(s[1], p[2]).at = s[1] /\ PredIn(s[1], p[2]).x = p[2]
    BY DEF PredIn
  <2>1. c.do = "insert predecessor" /\ c.at = s[1] /\ c.x = p[2]
    BY <1>13, <2>0
  <2> QED
    BY <1>13, <2>1
<1>14. CASE s[2] # n /\ s[2] # p[1] /\ c = PredIn(s[2], p[1])
  <2>0. PredIn(s[2], p[1]).do = "insert predecessor" /\ PredIn(s[2], p[1]).at = s[2] /\ PredIn(s[2], p[1]).x = p[1]
    BY DEF PredIn
  <2>1. c.do = "insert predecessor" /\ c.at = s[2] /\ c.x = p[1]
    BY <1>14, <2>0
  <2> QED
    BY <1>14, <2>1
<1>15. CASE s[3] # n /\ c = PredIn(s[3], n)
  <2>0. PredIn(s[3], n).do = "insert predecessor" /\ PredIn(s[3], n).at = s[3] /\ PredIn(s[3], n).x = n
    BY DEF PredIn
  <2>1. c.do = "insert predecessor" /\ c.at = s[3] /\ c.x = n
    BY <1>15, <2>0
  <2> QED
    BY <1>15, <2>1
<1> QED
  BY <1>4, <1>5, <1>6, <1>7, <1>8, <1>9, <1>10, <1>11, <1>12, <1>13, <1>14, <1>15

LEMMA RepairCallsFor ==
    ASSUME NEW n \in Node, NEW d \in Node, NEW s \in List, NEW p \in List,
           Distinct(s, n), Distinct(p, n), NEW q, q = RepairCalls(n, s, p, d)
    PROVE  RepairCallsAll(q, n, s[1], s[2], s[3], p[1], p[2])
<1> SUFFICES ASSUME NEW m, m # n
             PROVE  /\ m \in {p[1], p[2]} => \E c \in To(q, "deprecate succesor", m) : TRUE
                    /\ (m = p[1] /\ m # s[2]) \/ (m = p[2] /\ m # s[1]) =>
                           \E c \in To(q, "insert succesor", m) : TRUE
                    /\ m \in {s[1], s[2], s[3]} => \E c \in To(q, "deprecate predecessor", m) : TRUE
                    /\ (m = s[1] /\ m # p[2]) \/ (m = s[2] /\ m # p[1]) \/ m = s[3] =>
                           \E c \in To(q, "insert predecessor", m) : TRUE
  BY DEF RepairCallsAll
<1>1. ASSUME NEW x
      PROVE  /\ SuccIn(m, x).do = "insert succesor" /\ SuccIn(m, x).at = m
             /\ PredIn(m, x).do = "insert predecessor" /\ PredIn(m, x).at = m
             /\ SuccOut(m, x).do = "deprecate succesor" /\ SuccOut(m, x).at = m
             /\ PredOut(m, x).do = "deprecate predecessor" /\ PredOut(m, x).at = m
  BY DEF SuccIn, PredIn, SuccOut, PredOut
<1>2. ASSUME NEW x
      PROVE  /\ SuccIn(m, x) \in Calls(q) => SuccIn(m, x) \in To(q, "insert succesor", m)
             /\ PredIn(m, x) \in Calls(q) => PredIn(m, x) \in To(q, "insert predecessor", m)
             /\ SuccOut(m, x) \in Calls(q) => SuccOut(m, x) \in To(q, "deprecate succesor", m)
             /\ PredOut(m, x) \in Calls(q) => PredOut(m, x) \in To(q, "deprecate predecessor", m)
  BY <1>1 DEF To
<1>3. /\ p[1] # n => SuccOut(p[1], d) \in Calls(q)
      /\ p[1] # n /\ p[1] # s[2] => SuccIn(p[1], s[2]) \in Calls(q)
      /\ p[2] # n => SuccOut(p[2], d) \in Calls(q)
      /\ p[2] # n /\ p[2] # s[1] => SuccIn(p[2], s[1]) \in Calls(q)
      /\ s[1] # n => PredOut(s[1], d) \in Calls(q)
      /\ s[1] # n /\ s[1] # p[2] => PredIn(s[1], p[2]) \in Calls(q)
      /\ s[2] # n => PredOut(s[2], d) \in Calls(q)
      /\ s[2] # n /\ s[2] # p[1] => PredIn(s[2], p[1]) \in Calls(q)
      /\ s[3] # n => PredOut(s[3], d) \in Calls(q) /\ PredIn(s[3], n) \in Calls(q)
  BY RepairPlan, SMTT(30)
<1>4. m \in {p[1], p[2]} => SuccOut(m, d) \in Calls(q)
  BY <1>3
<1>5. /\ m = p[1] /\ m # s[2] => SuccIn(m, s[2]) \in Calls(q)
      /\ m = p[2] /\ m # s[1] => SuccIn(m, s[1]) \in Calls(q)
  BY <1>3
<1>6. m \in {s[1], s[2], s[3]} => PredOut(m, d) \in Calls(q)
  BY <1>3
<1>7. /\ m = s[1] /\ m # p[2] => PredIn(m, p[2]) \in Calls(q)
      /\ m = s[2] /\ m # p[1] => PredIn(m, p[1]) \in Calls(q)
      /\ m = s[3] => PredIn(m, n) \in Calls(q)
  BY <1>3
<1> QED
  BY <1>2, <1>4, <1>5, <1>6, <1>7

LEMMA ListIs ==
    ASSUME NEW l \in List
    PROVE  \E x, y, z \in Node : l[1] = x /\ l[2] = y /\ l[3] = z /\ l = Three(x, y, z)
<1>1. l[1] \in Node /\ l[2] \in Node /\ l[3] \in Node
  BY DEF List
<1> QED
  BY <1>1, ThreeSame

\* The agent n, whose list of successors is s again, mends its list of
\* predecessors and makes the lists of all others right, for the crash of d.
LEMMA RepairSettles ==
    ASSUME NEW R \in SUBSET Node, NEW d \in Node, d \notin R, NEW n \in R,
           IsNext(R \cup {d}, n, d), NotTwo(R),
           NEW sl \in [R -> List], NEW pl \in [R -> List],
           \A m \in R : IsPreds(R \cup {d}, m, pl[m]),
           \A m \in R \ {n} : IsSuccs(R \cup {d}, m, sl[m]),
           NEW s \in List, IsSuccs(R, n, s),
           NEW p, p = ReplaceFirst(pl[n], d, n),
           NEW q, q = RepairCalls(n, s, p, d)
    PROVE  /\ p \in List
           /\ q \in Seq(Call) /\ InOrder(q)
           /\ \A c \in Calls(q) : c.do \notin {"lists", "third", "put"}
           /\ SuccsWill(R, n, s, q) /\ PredsWill(R, n, p, q)
           /\ \A m \in R \ {n} : SuccsWill(R, m, sl[m], q) /\ PredsWill(R, m, pl[m], q)
<1>0. R \in SUBSET Int /\ d \in Int /\ n \in Node /\ n # d
  OBVIOUS
<1>1. p \in List /\ IsPreds(R, n, p)
  <2>1. pl[n] \in List /\ IsPreds(R \cup {d}, n, pl[n])
    OBVIOUS
  <2>2. PICK x \in Node, y \in Node, z \in Node :
            pl[n][1] = x /\ pl[n][2] = y /\ pl[n][3] = z /\ pl[n] = Three(x, y, z)
    BY <2>1, ListIs
  <2>3. Precede(R \cup {d}, n, x, y, z)
    BY <2>1, <2>2 DEF IsPreds
  <2>4. IF x = d THEN Precede(R, n, n, y, z)
        ELSE IF y = d THEN Precede(R, n, x, n, z)
        ELSE IF z = d THEN Precede(R, n, x, y, n) ELSE Precede(R, n, x, y, z)
    BY <1>0, <2>3, MendOwn
  <2>5. p = IF x = d THEN Three(n, y, z)
            ELSE IF y = d THEN Three(x, n, z)
            ELSE IF z = d THEN Three(x, y, n) ELSE Three(x, y, z)
    BY <1>0, <2>1, <2>2, ReplaceFirstThree
  <2>6. p \in List
    BY <1>0, <2>5, ThreeList
  <2>7. IsPreds(R, n, p)
    BY <2>4, <2>5, ThreeFollow
  <2> QED
    BY <2>6, <2>7
<1>2. Distinct(s, n) /\ Distinct(p, n)
  BY <1>0, <1>1, ListDistinct
<1> DEFINE s1 == s[1] s2 == s[2] s3 == s[3] p1 == p[1] p2 == p[2] p3 == p[3]
<1>3. Mended(R, d, n, s1, s2, s3, p1, p2, p3)
  BY <1>1 DEF Mended, IsSuccs, IsPreds
<1>4. /\ s1 \in Node /\ s2 \in Node /\ s3 \in Node /\ p1 \in Node /\ p2 \in Node /\ p3 \in Node
  BY <1>1 DEF List
<1>5. /\ q \in Seq(Call) /\ InOrder(q)
      /\ RepairCallsOnly(q, n, d, s1, s2, s3, p1, p2)
  BY <1>0, <1>1, <1>2, RepairCallsTo
<1>6. RepairCallsAll(q, n, s1, s2, s3, p1, p2)
  BY <1>0, <1>1, <1>2, RepairCallsFor
<1> HIDE DEF s1, s2, s3, p1, p2, p3
<1>7. ASSUME NEW m
      PROVE  /\ \A c \in To(q, "deprecate succesor", m) : c.x = d /\ m # n /\ m \in {p1, p2}
             /\ \A c \in To(q, "insert succesor", m) :
                   \/ m = p1 /\ p1 # n /\ p1 # s2 /\ c.x = s2
                   \/ m = p2 /\ p2 # n /\ p2 # s1 /\ c.x = s1
             /\ \A c \in To(q, "deprecate predecessor", m) : c.x = d /\ m # n /\ m \in {s1, s2, s3}
             /\ \A c \in To(q, "insert predecessor", m) :
                   \/ m = s1 /\ s1 # n /\ s1 # p2 /\ c.x = p2
                   \/ m = s2 /\ s2 # n /\ s2 # p1 /\ c.x = p1
                   \/ m = s3 /\ s3 # n /\ c.x = n
  <2>1. ASSUME NEW op, NEW c \in To(q, op, m) PROVE c \in Calls(q) /\ c.do = op /\ c.at = m
    BY <2>1 DEF To
  <2>2. ASSUME NEW c \in To(q, "deprecate succesor", m) PROVE c.x = d /\ m # n /\ m \in {p1, p2}
    <3>1. c \in Calls(q) /\ c.do = "deprecate succesor" /\ c.at = m
      BY <2>1
    <3> QED
      BY <1>5, <3>1 DEF RepairCallsOnly
  <2>3. ASSUME NEW c \in To(q, "insert succesor", m)
        PROVE  \/ m = p1 /\ p1 # n /\ p1 # s2 /\ c.x = s2
               \/ m = p2 /\ p2 # n /\ p2 # s1 /\ c.x = s1
    <3>1. c \in Calls(q) /\ c.do = "insert succesor" /\ c.at = m
      BY <2>1
    <3> QED
      BY <1>5, <3>1 DEF RepairCallsOnly
  <2>4. ASSUME NEW c \in To(q, "deprecate predecessor", m)
        PROVE  c.x = d /\ m # n /\ m \in {s1, s2, s3}
    <3>1. c \in Calls(q) /\ c.do = "deprecate predecessor" /\ c.at = m
      BY <2>1
    <3> QED
      BY <1>5, <3>1 DEF RepairCallsOnly
  <2>5. ASSUME NEW c \in To(q, "insert predecessor", m)
        PROVE  \/ m = s1 /\ s1 # n /\ s1 # p2 /\ c.x = p2
               \/ m = s2 /\ s2 # n /\ s2 # p1 /\ c.x = p1
               \/ m = s3 /\ s3 # n /\ c.x = n
    <3>1. c \in Calls(q) /\ c.do = "insert predecessor" /\ c.at = m
      BY <2>1
    <3> QED
      BY <1>5, <3>1 DEF RepairCallsOnly
  <2> QED
    BY <2>2, <2>3, <2>4, <2>5
<1>8. SuccsWill(R, n, s, q) /\ PredsWill(R, n, p, q)
  <2>1. /\ To(q, "deprecate succesor", n) = {} /\ To(q, "insert succesor", n) = {}
        /\ To(q, "deprecate predecessor", n) = {} /\ To(q, "insert predecessor", n) = {}
    BY <1>7
  <2> QED
    BY <1>1, <2>1 DEF SuccsWill, PredsWill
<1>9. ASSUME NEW m \in R \ {n} PROVE SuccsWill(R, m, sl[m], q)
  <2>0. m \in Node /\ m # n /\ sl[m] \in List /\ IsSuccs(R \cup {d}, m, sl[m])
    OBVIOUS
  <2>1. PICK x \in Node, y \in Node, z \in Node :
            sl[m][1] = x /\ sl[m][2] = y /\ sl[m][3] = z /\ sl[m] = Three(x, y, z)
    BY <2>0, ListIs
  <2>2. Follow(R \cup {d}, m, x, y, z)
    BY <2>0, <2>1 DEF IsSuccs
  <2>3. /\ m = p1 => /\ x = n /\ y = d /\ z = s1
                     /\ s1 # s2 /\ s1 # p1 /\ Follow(R, m, n, s1, s2)
                     /\ ~IsInBetweenModular(s2, n, s1)
                     /\ s2 # p1 => IsInBetweenModular(s2, s1, p1)
        /\ m = p2 => /\ p1 # p2 /\ x = p1 /\ y = n /\ z = d
                     /\ Follow(R, m, p1, n, s1)
                     /\ ~IsInBetweenModular(s1, p1, n) /\ IsInBetweenModular(s1, n, p2)
        /\ m # p1 /\ m # p2 => Follow(R, m, x, y, z) /\ x # d /\ y # d /\ z # d
    BY <1>0, <1>3, <2>2, MendFollows
  <2>4. Deprecate(m, sl[m], d) = IF x = d THEN Three(y, z, m) ELSE IF y = d THEN Three(x, z, m)
                                 ELSE IF z = d THEN Three(x, y, m) ELSE sl[m]
    BY <2>0, <2>1, DeprecateThree
  <2>5. CASE m = p1
    <3>1. p1 # p2
      BY <1>0, <2>0, <2>3, <2>5
    <3>2. Deprecate(m, sl[m], d) = Three(n, s1, m)
      BY <1>0, <2>3, <2>4, <2>5
    <3>3. \A c \in To(q, "insert succesor", m) : p1 # s2 /\ c.x = s2
      BY <1>7, <2>5, <3>1
    <3>4. ASSUME p1 # s2 PROVE IsSuccs(R, m, InsertSuccessor(m, Deprecate(m, sl[m], d), s2))
      <4>1. /\ Three(n, s1, m) \in List /\ Three(n, s1, m)[1] = n
            /\ Three(n, s1, m)[2] = s1 /\ Three(n, s1, m)[3] = m
        BY <1>0, <1>4, <2>0, ThreeList
      <4>2. InsertSuccessor(m, Three(n, s1, m), s2) = Three(n, s1, s2)
        BY <1>4, <2>0, <2>3, <2>5, <3>4, <4>1, InsertSuccessorThree
      <4> QED
        BY <2>3, <2>5, <3>2, <4>2, ThreeFollow
    <3>5. ASSUME p1 = s2 PROVE IsSuccs(R, m, Deprecate(m, sl[m], d))
      BY <2>3, <2>5, <3>2, <3>5, ThreeFollow
    <3>6. To(q, "insert succesor", m) = {} => p1 = s2
      BY <1>6, <2>0, <2>5 DEF RepairCallsAll
    <3>7. /\ \A c \in To(q, "deprecate succesor", m) : c.x = d
          /\ To(q, "deprecate succesor", m) # {}
      BY <1>6, <1>7, <2>0, <2>5 DEF RepairCallsAll
    <3> QED
      BY <3>3, <3>4, <3>5, <3>6, <3>7 DEF SuccsWill
  <2>6. CASE m = p2
    <3>1. p1 # p2
      BY <2>3, <2>6
    <3>2. Deprecate(m, sl[m], d) = Three(p1, n, m)
      <4>1. p1 # d
        BY <1>0, <1>3 DEF Mended, Precede
      <4> QED
        BY <1>0, <2>3, <2>4, <2>6, <4>1
    <3>3. \A c \in To(q, "insert succesor", m) : p2 # s1 /\ c.x = s1
      BY <1>7, <2>6, <3>1
    <3>4. ASSUME p2 # s1 PROVE IsSuccs(R, m, InsertSuccessor(m, Deprecate(m, sl[m], d), s1))
      <4>1. /\ Three(p1, n, m) \in List /\ Three(p1, n, m)[1] = p1
            /\ Three(p1, n, m)[2] = n /\ Three(p1, n, m)[3] = m
        BY <1>0, <1>4, <2>0, ThreeList
      <4>2. InsertSuccessor(m, Three(p1, n, m), s1) = Three(p1, n, s1)
        BY <1>4, <2>0, <2>3, <2>6, <3>4, <4>1, InsertSuccessorThree
      <4> QED
        BY <2>3, <2>6, <3>2, <4>2, ThreeFollow
    <3>5. ASSUME p2 = s1 PROVE IsSuccs(R, m, Deprecate(m, sl[m], d))
      BY <2>3, <2>6, <3>2, <3>5, ThreeFollow
    <3>6. To(q, "insert succesor", m) = {} => p2 = s1
      BY <1>6, <2>0, <2>6 DEF RepairCallsAll
    <3>7. /\ \A c \in To(q, "deprecate succesor", m) : c.x = d
          /\ To(q, "deprecate succesor", m) # {}
      BY <1>6, <1>7, <2>0, <2>6 DEF RepairCallsAll
    <3> QED
      BY <3>3, <3>4, <3>5, <3>6, <3>7 DEF SuccsWill
  <2>7. CASE m # p1 /\ m # p2
    <3>1. To(q, "insert succesor", m) = {} /\ To(q, "deprecate succesor", m) = {}
      BY <1>7, <2>7
    <3>2. IsSuccs(R, m, sl[m])
      BY <2>1, <2>3, <2>7 DEF IsSuccs
    <3> QED
      BY <3>1, <3>2 DEF SuccsWill
  <2> QED
    BY <2>5, <2>6, <2>7
<1>10. ASSUME NEW m \in R \ {n} PROVE PredsWill(R, m, pl[m], q)
  <2>0. m \in Node /\ m # n /\ pl[m] \in List /\ IsPreds(R \cup {d}, m, pl[m])
    OBVIOUS
  <2>1. PICK x \in Node, y \in Node, z \in Node :
            pl[m][1] = x /\ pl[m][2] = y /\ pl[m][3] = z /\ pl[m] = Three(x, y, z)
    BY <2>0, ListIs
  <2>2. Precede(R \cup {d}, m, x, y, z)
    BY <2>0, <2>1 DEF IsPreds
  <2>3. /\ m = s1 => /\ x = d /\ y = n /\ z = p1
                     /\ p1 # p2 /\ p1 # s1 /\ Precede(R, m, n, p1, p2)
                     /\ ~IsInBetweenModular(p2, p1, n)
                     /\ s1 # p2 => IsInBetweenModular(p2, s1, p1)
        /\ m = s2 => /\ s1 # s2 /\ x = s1 /\ y = d /\ z = n
                     /\ Precede(R, m, s1, n, p1)
                     /\ ~IsInBetweenModular(p1, n, s1)
                     /\ s2 # p1 => IsInBetweenModular(p1, s2, n)
        /\ m = s3 => /\ s1 # s3 /\ s2 # s3 /\ s1 # s2 /\ s2 # n /\ x = s2 /\ y = s1 /\ z = d
                     /\ Precede(R, m, s2, s1, n)
                     /\ ~IsInBetweenModular(n, s1, s2) /\ IsInBetweenModular(n, s3, s1)
        /\ m # s1 /\ m # s2 /\ m # s3 => Precede(R, m, x, y, z) /\ x # d /\ y # d /\ z # d
    BY <1>0, <1>3, <2>2, MendPrecedes
  <2>4. Deprecate(m, pl[m], d) = IF x = d THEN Three(y, z, m) ELSE IF y = d THEN Three(x, z, m)
                                 ELSE IF z = d THEN Three(x, y, m) ELSE pl[m]
    BY <2>0, <2>1, DeprecateThree
  <2>5. s1 # d /\ s2 # d /\ s3 # d
    BY <1>0, <1>3, FollowDistinct DEF Mended
  <2>6. CASE m = s1
    <3>1. s1 # s2 /\ s1 # s3
      BY <2>0, <2>3, <2>6, <1>0, <1>3, FollowDistinct DEF Mended
    <3>2. Deprecate(m, pl[m], d) = Three(n, p1, m)
      BY <1>0, <2>3, <2>4, <2>6
    <3>3. \A c \in To(q, "insert predecessor", m) : s1 # p2 /\ c.x = p2
      BY <1>7, <2>6, <3>1
    <3>4. ASSUME s1 # p2 PROVE IsPreds(R, m, InsertPredecessor(m, Deprecate(m, pl[m], d), p2))
      <4>1. /\ Three(n, p1, m) \in List /\ Three(n, p1, m)[1] = n
            /\ Three(n, p1, m)[2] = p1 /\ Three(n, p1, m)[3] = m
        BY <1>0, <1>4, <2>0, ThreeList
      <4>2. InsertPredecessor(m, Three(n, p1, m), p2) = Three(n, p1, p2)
        BY <1>4, <2>0, <2>3, <2>6, <3>4, <4>1, InsertPredecessorThree
      <4> QED
        BY <2>3, <2>6, <3>2, <4>2, ThreeFollow
    <3>5. ASSUME s1 = p2 PROVE IsPreds(R, m, Deprecate(m, pl[m], d))
      BY <2>3, <2>6, <3>2, <3>5, ThreeFollow
    <3>6. To(q, "insert predecessor", m) = {} => s1 = p2
      BY <1>6, <2>0, <2>6 DEF RepairCallsAll
    <3>7. /\ \A c \in To(q, "deprecate predecessor", m) : c.x = d
          /\ To(q, "deprecate predecessor", m) # {}
      BY <1>6, <1>7, <2>0, <2>6 DEF RepairCallsAll
    <3> QED
      BY <3>3, <3>4, <3>5, <3>6, <3>7 DEF PredsWill
  <2>7. CASE m = s2
    <3>1. s1 # s2 /\ s2 # s3
      BY <2>0, <2>3, <2>7, <1>0, <1>3, FollowDistinct DEF Mended
    <3>2. Deprecate(m, pl[m], d) = Three(s1, n, m)
      BY <1>0, <2>3, <2>4, <2>5, <2>7
    <3>3. \A c \in To(q, "insert predecessor", m) : s2 # p1 /\ c.x = p1
      BY <1>7, <2>7, <3>1
    <3>4. ASSUME s2 # p1 PROVE IsPreds(R, m, InsertPredecessor(m, Deprecate(m, pl[m], d), p1))
      <4>1. /\ Three(s1, n, m) \in List /\ Three(s1, n, m)[1] = s1
            /\ Three(s1, n, m)[2] = n /\ Three(s1, n, m)[3] = m
        BY <1>0, <1>4, <2>0, ThreeList
      <4>2. InsertPredecessor(m, Three(s1, n, m), p1) = Three(s1, n, p1)
        BY <1>4, <2>0, <2>3, <2>7, <3>4, <4>1, InsertPredecessorThree
      <4> QED
        BY <2>3, <2>7, <3>2, <4>2, ThreeFollow
    <3>5. ASSUME s2 = p1 PROVE IsPreds(R, m, Deprecate(m, pl[m], d))
      BY <2>3, <2>7, <3>2, <3>5, ThreeFollow
    <3>6. To(q, "insert predecessor", m) = {} => s2 = p1
      BY <1>6, <2>0, <2>7 DEF RepairCallsAll
    <3>7. /\ \A c \in To(q, "deprecate predecessor", m) : c.x = d
          /\ To(q, "deprecate predecessor", m) # {}
      BY <1>6, <1>7, <2>0, <2>7 DEF RepairCallsAll
    <3> QED
      BY <3>3, <3>4, <3>5, <3>6, <3>7 DEF PredsWill
  <2>8. CASE m = s3
    <3>1. s1 # s3 /\ s2 # s3
      BY <2>3, <2>8
    <3>2. Deprecate(m, pl[m], d) = Three(s2, s1, m)
      BY <1>0, <2>3, <2>4, <2>5, <2>8
    <3>3. \A c \in To(q, "insert predecessor", m) : c.x = n
      BY <1>7, <2>8, <3>1
    <3>4. IsPreds(R, m, InsertPredecessor(m, Deprecate(m, pl[m], d), n))
      <4>1. /\ Three(s2, s1, m) \in List /\ Three(s2, s1, m)[1] = s2
            /\ Three(s2, s1, m)[2] = s1 /\ Three(s2, s1, m)[3] = m
        BY <1>0, <1>4, <2>0, ThreeList
      <4>2. InsertPredecessor(m, Three(s2, s1, m), n) = Three(s2, s1, n)
        BY <1>0, <1>4, <2>0, <2>3, <2>8, <4>1, InsertPredecessorThree
      <4> QED
        BY <2>3, <2>8, <3>2, <4>2, ThreeFollow
    <3>5. To(q, "insert predecessor", m) # {}
      BY <1>6, <2>0, <2>8 DEF RepairCallsAll
    <3>6. /\ \A c \in To(q, "deprecate predecessor", m) : c.x = d
          /\ To(q, "deprecate predecessor", m) # {}
      BY <1>6, <1>7, <2>0, <2>8 DEF RepairCallsAll
    <3> QED
      BY <3>3, <3>4, <3>5, <3>6 DEF PredsWill
  <2>9. CASE m # s1 /\ m # s2 /\ m # s3
    <3>1. To(q, "insert predecessor", m) = {} /\ To(q, "deprecate predecessor", m) = {}
      BY <1>7, <2>9
    <3>2. IsPreds(R, m, pl[m])
      BY <2>1, <2>3, <2>9 DEF IsPreds
    <3> QED
      BY <3>1, <3>2 DEF PredsWill
  <2> QED
    BY <2>6, <2>7, <2>8, <2>9
<1>11. \A c \in Calls(q) : c.do \notin {"lists", "third", "put"}
  <2>1. \A c \in Calls(q) : c.do \in {"keys", "insert succesor", "deprecate succesor",
                         "insert predecessor", "deprecate predecessor"}
    BY <1>5 DEF RepairCallsOnly
  <2> QED
    BY <2>1
<1> QED
  BY <1>1, <1>5, <1>8, <1>9, <1>10, <1>11

\* Every file that is put down in q has been fetched just before.
Fetched(q) ==
    \A i \in 1 .. Len(q) :
        q[i].do = "put" => i > 1 /\ q[i - 1].do \in {"get", "force get"}

\* So it is in q, but for the first call: that file is the one in hand, h.
Ready(q, h) ==
    \A i \in 1 .. Len(q) :
        q[i].do = "put" =>
            IF i = 1 THEN h \in Value \cup {Empty} ELSE q[i - 1].do \in {"get", "force get"}

LEMMA ReadyTail ==
    ASSUME NEW S, NEW q \in Seq(S), q # <<>>, NEW h, Ready(q, h)
    PROVE  /\ Head(q).do \notin {"get", "force get"} => Fetched(Tail(q))
           /\ \A j : j \in Value \cup {Empty} => Ready(Tail(q), j)
<1>1. /\ Len(Tail(q)) = Len(q) - 1
      /\ \A i \in 1 .. Len(Tail(q)) : Tail(q)[i] = q[i + 1]
      /\ Len(q) \in Nat /\ Len(q) # 0 /\ Head(q) = q[1]
  BY HeadTailProperties, LenProperties, EmptySeq
<1>2. ASSUME NEW i \in 1 .. Len(Tail(q)), Tail(q)[i].do = "put"
      PROVE  IF i = 1 THEN Head(q).do \in {"get", "force get"}
             ELSE Tail(q)[i - 1].do \in {"get", "force get"}
  <2>1. i + 1 \in 1 .. Len(q) /\ i + 1 # 1 /\ (i + 1) - 1 = i /\ i \in 1 .. Len(q)
    BY <1>1
  <2>2. q[i + 1].do = "put"
    BY <1>1, <1>2
  <2>3. q[(i + 1) - 1].do \in {"get", "force get"}
    BY <2>1, <2>2 DEF Ready
  <2>4. q[i].do \in {"get", "force get"}
    BY <2>1, <2>3
  <2>5. i # 1 => i - 1 \in 1 .. Len(Tail(q)) /\ (i - 1) + 1 = i
    BY <1>1
  <2> QED
    BY <1>1, <2>4, <2>5
<1>3. ASSUME Head(q).do \notin {"get", "force get"} PROVE Fetched(Tail(q))
  <2>1. SUFFICES ASSUME NEW i \in 1 .. Len(Tail(q)), Tail(q)[i].do = "put"
                 PROVE  i > 1 /\ Tail(q)[i - 1].do \in {"get", "force get"}
    BY DEF Fetched
  <2>2. i # 1
    BY <1>2, <1>3, <2>1
  <2>3. i > 1
    BY <2>2
  <2> QED
    BY <1>2, <2>1, <2>2, <2>3
<1>4. ASSUME NEW j, j \in Value \cup {Empty} PROVE Ready(Tail(q), j)
  BY <1>2, <1>4 DEF Ready
<1> QED
  BY <1>3, <1>4

LEMMA FetchedReady ==
    ASSUME NEW q, NEW h, Fetched(q) PROVE Ready(q, h)
<1>1. SUFFICES ASSUME NEW i \in 1 .. Len(q), q[i].do = "put"
               PROVE  IF i = 1 THEN h \in Value \cup {Empty} ELSE q[i - 1].do \in {"get", "force get"}
  BY DEF Ready
<1>2. i > 1 /\ q[i - 1].do \in {"get", "force get"}
  BY <1>1 DEF Fetched
<1>3. i # 1
  <2>1. i > 1
    BY <1>2, Zenon
  <2> QED
    BY <2>1
<1> QED
  BY <1>2, <1>3

LEMMA FetchedConcat ==
    ASSUME NEW S, NEW q \in Seq(S), NEW r \in Seq(S), Fetched(q), Fetched(r)
    PROVE  Fetched(q \o r)
<1>1. /\ Len(q \o r) = Len(q) + Len(r) /\ Len(q) \in Nat /\ Len(r) \in Nat
      /\ \A i \in 1 .. Len(q) + Len(r) : (q \o r)[i] = IF i <= Len(q) THEN q[i] ELSE r[i - Len(q)]
  BY ConcatProperties, LenProperties
<1>2. SUFFICES ASSUME NEW i \in 1 .. Len(q) + Len(r), (q \o r)[i].do = "put"
               PROVE  i > 1 /\ (q \o r)[i - 1].do \in {"get", "force get"}
  BY <1>1 DEF Fetched
<1>3. CASE i <= Len(q)
  <2>1. i \in 1 .. Len(q) /\ q[i].do = "put"
    BY <1>1, <1>2, <1>3
  <2>2. i > 1 /\ q[i - 1].do \in {"get", "force get"}
    BY <2>1 DEF Fetched
  <2>3. i - 1 \in 1 .. Len(q) + Len(r) /\ i - 1 <= Len(q)
    <3>1. i > 1
      BY <2>2, Zenon
    <3>2. i \in Int /\ i <= Len(q) /\ Len(q) \in Int /\ Len(r) \in Nat
      BY <1>1, <1>3
    <3> QED
      BY <3>1, <3>2
  <2>4. (q \o r)[i - 1] = q[i - 1]
    BY <1>1, <2>3
  <2> QED
    BY <2>2, <2>4
<1>4. CASE i > Len(q)
  <2> DEFINE j == i - Len(q)
  <2>1. j \in 1 .. Len(r) /\ r[j].do = "put"
    BY <1>1, <1>2, <1>4
  <2>2. j > 1 /\ r[j - 1].do \in {"get", "force get"}
    <3> HIDE DEF j
    <3> QED
      BY <2>1 DEF Fetched
  <2>3. i - 1 \in 1 .. Len(q) + Len(r) /\ i - 1 > Len(q) /\ (i - 1) - Len(q) = j - 1 /\ i > 1
    <3>0. i \in Int /\ Len(q) \in Int /\ i <= Len(q) + Len(r)
      BY <1>1, <1>2
    <3>1. j > 1
      BY <2>2
    <3>2. i \in Int /\ j \in Int /\ j > 1 /\ i <= Len(q) + Len(r)
      BY <3>0, <3>1
    <3> QED
      BY <1>1, <1>4, <3>2
  <2>4. (q \o r)[i - 1] = r[(i - 1) - Len(q)]
    BY <1>1, <2>3
  <2> QED
    BY <2>2, <2>3, <2>4
<1> QED
  <2>1. i \in Int /\ Len(q) \in Int
    BY <1>1
  <2>2. i <= Len(q) \/ i > Len(q)
    BY <2>1
  <2> QED
    BY <1>3, <1>4, <2>2

\* The calls for single files.
FileCall == [do : {"get", "force get", "put", "drop"}, at : Node, k : Name]

FileCalls == {q \in Seq(FileCall) : Fetched(q)}

LEMMA FileCallsIn ==
    /\ FileCall \subseteq Call
    /\ Seq(FileCall) \subseteq Seq(Call)
    /\ <<>> \in FileCalls
    /\ \A q, r \in FileCalls : q \o r \in FileCalls
<1>1. FileCall \subseteq Call
  BY DEF FileCall, Call
<1>2. Seq(FileCall) \subseteq Seq(Call)
  BY <1>1
<1>3. <<>> \in FileCalls
  <2>1. <<>> \in Seq(FileCall) /\ Len(<<>>) = 0 /\ 1 .. 0 = {}
    OBVIOUS
  <2> QED
    BY <2>1 DEF FileCalls, Fetched
<1>4. ASSUME NEW q \in FileCalls, NEW r \in FileCalls PROVE q \o r \in FileCalls
  <2>1. q \in Seq(FileCall) /\ r \in Seq(FileCall) /\ Fetched(q) /\ Fetched(r)
    BY DEF FileCalls
  <2>2. q \o r \in Seq(FileCall)
    BY <2>1
  <2> QED
    BY <2>1, <2>2, FetchedConcat DEF FileCalls
<1> QED
  BY <1>1, <1>2, <1>3, <1>4

KeysCall == [do : {"keys"}, at : Node, a : Node, b : Node, by : {"get", "force get"},
             to : Node, drop : Node \cup {None}]

LEMMA MoveFileCalls ==
    ASSUME NEW c \in KeysCall, NEW k \in Name
    PROVE  MoveFile(c, k) \in FileCalls
<1> DEFINE f == [do |-> c.by, at |-> c.at, k |-> k]
           p == [do |-> "put", at |-> c.to, k |-> k]
           e == [do |-> "drop", at |-> c.drop, k |-> k]
           x == <<f>> \o <<p>>
<1>0. c.at \in Node /\ c.by \in {"get", "force get"} /\ c.to \in Node /\ c.drop \in Node \cup {None}
  BY DEF KeysCall
<1>1. f \in FileCall /\ p \in FileCall /\ f.do \in {"get", "force get"}
      /\ (c.drop # None => e \in FileCall) /\ p.do = "put" /\ e.do # "put" /\ f.do # "put"
  BY <1>0 DEF FileCall
<1>2. MoveFile(c, k) = x \o (IF c.drop # None THEN <<e>> ELSE <<>>)
  BY DEF MoveFile, Fetch, Put, Drop, When
<1> HIDE DEF f, p, e
<1>3. x \in Seq(FileCall) /\ Len(x) = 2 /\ x[1] = f /\ x[2] = p
  <2>1. f \in FileCall /\ p \in FileCall
    BY <1>1
  <2> QED
    BY <2>1
<1>4. Fetched(x)
  <2>1. \A i \in 1 .. Len(x) : i = 1 \/ (i = 2 /\ i - 1 = 1)
    BY <1>3
  <2>2. SUFFICES ASSUME NEW i \in 1 .. Len(x), x[i].do = "put"
                 PROVE  i > 1 /\ x[i - 1].do \in {"get", "force get"}
    BY DEF Fetched
  <2>3. i # 1
    BY <1>1, <1>3, <2>2
  <2>4. i = 2 /\ i - 1 = 1
    BY <2>1, <2>3
  <2>5. x[i - 1] = f
    BY <1>3, <2>4
  <2> QED
    <3>1. x[i - 1].do \in {"get", "force get"}
      BY <1>1, <2>5
    <3>2. i > 1
      BY <2>4
    <3> QED
      BY <3>1, <3>2
<1>5. c.drop # None => <<e>> \in Seq(FileCall) /\ Fetched(<<e>>)
  <2>1. SUFFICES ASSUME c.drop # None PROVE <<e>> \in Seq(FileCall) /\ Fetched(<<e>>)
    OBVIOUS
  <2>2. <<e>> \in Seq(FileCall) /\ Len(<<e>>) = 1 /\ <<e>>[1] = e
    <3>1. e \in FileCall
      BY <1>1, <2>1
    <3> QED
      BY <3>1
  <2>3. \A i \in 1 .. Len(<<e>>) : <<e>>[i].do # "put"
    <3>1. \A i \in 1 .. 1 : i = 1
      OBVIOUS
    <3>2. e.do # "put"
      BY <1>1
    <3> QED
      BY <2>2, <3>1, <3>2
  <2> QED
    BY <2>2, <2>3 DEF Fetched
<1> HIDE DEF x
<1>6. x \in FileCalls /\ (c.drop # None => <<e>> \in FileCalls)
  BY <1>3, <1>4, <1>5 DEF FileCalls
<1> QED
  BY <1>2, <1>6, FileCallsIn

LEMMA KeysCalls ==
    ASSUME NEW c \in KeysCall, NEW K \in SUBSET Name, NEW ks, ks = Seqs!SetToSeq(K)
    PROVE  Seqs!FlattenSeq([i \in 1 .. Len(ks) |-> MoveFile(c, ks[i])]) \in FileCalls
<1>1. IsFiniteSet(K)
  BY FileAssumption, FS_Subset
<1>2. ks \in Seq(K)
  BY <1>1, SetToSeqProperties
<1>3. Len(ks) \in Nat /\ \A i \in 1 .. Len(ks) : ks[i] \in Name
  BY <1>2, LenProperties, ElementOfSeq
<1> DEFINE seqs == [i \in 1 .. Len(ks) |-> MoveFile(c, ks[i])]
<1>4. \A i \in 1 .. Len(ks) : MoveFile(c, ks[i]) \in FileCalls
  BY <1>3, MoveFileCalls
<1>5. seqs \in Seq(FileCalls)
  BY <1>3, <1>4
<1> HIDE DEF seqs
<1> QED
  BY <1>5, FileCallsIn, FlattenType DEF seqs

-----------------------------------------------------------------------------
\* Calls none of which puts a file down.
Plain(q) == q \in Seq(Call) /\ \A c \in Calls(q) : c.do # "put"

LEMMA PlainOne == ASSUME NEW c \in Call, c.do # "put" PROVE Plain(<<c>>)
BY PlanOne DEF Plan, Plain

LEMMA PlainWhen == ASSUME NEW b \in BOOLEAN, NEW q, Plain(q) PROVE Plain(When(b, q))
BY PlanWhen DEF Plan, Plain, When, Calls

LEMMA PlainConcat == ASSUME NEW q, NEW r, Plain(q), Plain(r) PROVE Plain(q \o r)
BY CallsConcat DEF Plain

LEMMA PlainFetched == ASSUME NEW q, Plain(q) PROVE q \in Seq(Call) /\ Fetched(q)
BY DEF Plain, Fetched, Calls

LEMMA PlainCalls ==
    ASSUME NEW m \in Node, NEW x \in Node
    PROVE  /\ Plain(InsertInSuccessors(m, x)) /\ Plain(InsertInPredecessors(m, x))
           /\ Plain(DeprecateInSuccessors(m, x)) /\ Plain(DeprecateInPredecessors(m, x))
<1>1. ASSUME NEW op \in {"insert succesor", "insert predecessor", "deprecate succesor", "deprecate predecessor"}
      PROVE  Plain(<<[do |-> op, at |-> m, x |-> x]>>)
  <2>1. [do |-> op, at |-> m, x |-> x] \in Call /\ [do |-> op, at |-> m, x |-> x].do # "put"
    BY DEF Call
  <2> QED
    BY <2>1, PlainOne
<1> QED
  BY <1>1 DEF InsertInSuccessors, InsertInPredecessors, DeprecateInSuccessors, DeprecateInPredecessors

LEMMA PlainMove ==
    ASSUME NEW m \in Node, NEW i \in Node, NEW j \in Node, NEW by \in {"get", "force get"},
           NEW o \in Node, NEW r \in Node \cup {None}
    PROVE  Plain(MoveFiles(m, i, j, by, o, r))
BY MovePlan DEF MovePlanned, Plan, Plain

LEMMA PlainJoin ==
    ASSUME NEW n \in Node, NEW s \in List, NEW p \in List
    PROVE  Plain(JoinCalls(n, s, p))
<1> DEFINE last == s[3]
           own == MoveFiles(s[1], p[1], n, "force get", n, IF last # n THEN last ELSE None)
           extra(i) == IF last # n /\ s[3 - i] # p[i] THEN s[3 - i] ELSE None
           replicas(i) == MoveFiles(p[i], p[i + 1], p[i], "force get", n, extra(i))
           announce(i) == When(p[i] # n, InsertInSuccessors(p[i], n))
                          \o When(s[i] # n, InsertInPredecessors(s[i], n))
<1>0. /\ \A i \in 1 .. 3 : s[i] \in Node /\ p[i] \in Node
      /\ 1 \in 1 .. 3 /\ 2 \in 1 .. 3 /\ 3 \in 1 .. 3
  BY DEF List
<1>1. JoinCalls(n, s, p) = own \o When(p[1] # n, replicas(1)) \o When(p[1] # n /\ p[2] # n, replicas(2))
                           \o announce(1) \o announce(2) \o announce(3)
  BY DEF JoinCalls
<1>2. Plain(own)
  <2> DEFINE r == IF last # n THEN last ELSE None
  <2>1. r \in Node \cup {None} /\ "force get" \in {"get", "force get"} /\ s[1] \in Node /\ p[1] \in Node
    BY <1>0
  <2> HIDE DEF r
  <2> QED
    BY <2>1, PlainMove DEF r
<1>3. ASSUME NEW i \in 1 .. 2 PROVE Plain(replicas(i))
  <2>1. i \in 1 .. 3 /\ i + 1 \in 1 .. 3 /\ 3 - i \in 1 .. 3
    OBVIOUS
  <2>2. extra(i) \in Node \cup {None} /\ p[i] \in Node /\ p[i + 1] \in Node
        /\ "force get" \in {"get", "force get"}
    BY <1>0, <2>1
  <2> HIDE DEF extra
  <2> QED
    BY <2>2, PlainMove
<1>4. ASSUME NEW i \in 1 .. 3 PROVE Plain(announce(i))
  <2>1. Plain(InsertInSuccessors(p[i], n)) /\ Plain(InsertInPredecessors(s[i], n))
    BY <1>0, PlainCalls
  <2>2. Plain(When(p[i] # n, InsertInSuccessors(p[i], n)))
    BY <2>1, PlainWhen, (p[i] # n) \in BOOLEAN
  <2>3. Plain(When(s[i] # n, InsertInPredecessors(s[i], n)))
    BY <2>1, PlainWhen, (s[i] # n) \in BOOLEAN
  <2> QED
    BY <2>2, <2>3, PlainConcat
<1>5. Plain(replicas(1)) /\ Plain(replicas(2)) /\ Plain(announce(1)) /\ Plain(announce(2)) /\ Plain(announce(3))
  <2>1. 1 \in 1 .. 2 /\ 2 \in 1 .. 2 /\ 1 \in 1 .. 3 /\ 2 \in 1 .. 3 /\ 3 \in 1 .. 3
    OBVIOUS
  <2> HIDE DEF own, replicas, announce
  <2> QED
    BY <1>3, <1>4, <2>1
<1> HIDE DEF own, replicas, announce
<1>6. Plain(When(p[1] # n, replicas(1))) /\ Plain(When(p[1] # n /\ p[2] # n, replicas(2)))
  BY <1>5, PlainWhen, (p[1] # n) \in BOOLEAN, (p[1] # n /\ p[2] # n) \in BOOLEAN
<1> DEFINE q1 == own \o When(p[1] # n, replicas(1))
           q2 == q1 \o When(p[1] # n /\ p[2] # n, replicas(2))
           q3 == q2 \o announce(1)
           q4 == q3 \o announce(2)
<1>7. Plain(q1)
  BY <1>2, <1>6, PlainConcat
<1>8. Plain(q2)
  BY <1>6, <1>7, PlainConcat
<1>9. Plain(q3) /\ Plain(q4)
  BY <1>5, <1>8, PlainConcat
<1> HIDE DEF q4
<1>10. Plain(q4 \o announce(3))
  BY <1>5, <1>9, PlainConcat
<1> QED
  BY <1>1, <1>10 DEF q4

LEMMA PlainRepair ==
    ASSUME NEW n \in Node, NEW d \in Node, NEW s \in List, NEW p \in List
    PROVE  Plain(RepairCalls(n, s, p, d))
<1>1. \A i \in 1 .. 3 : s[i] \in Node /\ p[i] \in Node
  BY DEF List
<1>2. 1 \in 1 .. 3 /\ 2 \in 1 .. 3 /\ 3 \in 1 .. 3
  OBVIOUS
<1>3. /\ s[1] \in Node /\ s[2] \in Node /\ s[3] \in Node
      /\ p[1] \in Node /\ p[2] \in Node /\ p[3] \in Node
  BY <1>1, <1>2
<1> DEFINE w1 == When(p[1] # n, DeprecateInSuccessors(p[1], d)
                   \o When(p[1] # s[2], InsertInSuccessors(p[1], s[2])))
           w2 == When(p[2] # n, DeprecateInSuccessors(p[2], d)
                      \o When(p[2] # s[1], InsertInSuccessors(p[2], s[1])))
           w3 == When(s[1] # n, DeprecateInPredecessors(s[1], d)
                      \o When(s[1] # p[2], InsertInPredecessors(s[1], p[2])))
           w4 == When(s[2] # n, DeprecateInPredecessors(s[2], d)
                      \o When(s[2] # p[1], InsertInPredecessors(s[2], p[1])))
           w5 == When(s[3] # n, DeprecateInPredecessors(s[3], d) \o InsertInPredecessors(s[3], n))
           w6 == MoveFiles(s[1], n, d, "get", s[3], None)
           w7 == When(s[2] # n, MoveFiles(n, p[1], n, "force get", s[2], None))
           w8 == When(p[1] # n, MoveFiles(p[1], p[2], p[1], "get", s[1], None))
<1>4. RepairCalls(n, s, p, d) = w1 \o w2 \o w3 \o w4 \o w5 \o w6 \o w7 \o w8
  BY DEF RepairCalls
<1>5. ASSUME NEW b \in BOOLEAN, NEW e \in BOOLEAN, NEW q, NEW r, Plain(q), Plain(r)
      PROVE  Plain(When(b, q \o When(e, r)))
  <2>1. Plain(When(e, r))
    BY <1>5, PlainWhen
  <2>2. Plain(q \o When(e, r))
    BY <1>5, <2>1, PlainConcat
  <2> QED
    BY <2>2, PlainWhen
<1>6. Plain(w1)
  <2>1. Plain(DeprecateInSuccessors(p[1], d)) /\ Plain(InsertInSuccessors(p[1], s[2]))
    BY <1>3, PlainCalls
  <2> QED
    BY <1>5, <2>1, (p[1] # n) \in BOOLEAN, (p[1] # s[2]) \in BOOLEAN
<1>7. Plain(w2)
  <2>1. Plain(DeprecateInSuccessors(p[2], d)) /\ Plain(InsertInSuccessors(p[2], s[1]))
    BY <1>3, PlainCalls
  <2> QED
    BY <1>5, <2>1, (p[2] # n) \in BOOLEAN, (p[2] # s[1]) \in BOOLEAN
<1>8. Plain(w3)
  <2>1. Plain(DeprecateInPredecessors(s[1], d)) /\ Plain(InsertInPredecessors(s[1], p[2]))
    BY <1>3, PlainCalls
  <2> QED
    BY <1>5, <2>1, (s[1] # n) \in BOOLEAN, (s[1] # p[2]) \in BOOLEAN
<1>9. Plain(w4)
  <2>1. Plain(DeprecateInPredecessors(s[2], d)) /\ Plain(InsertInPredecessors(s[2], p[1]))
    BY <1>3, PlainCalls
  <2> QED
    BY <1>5, <2>1, (s[2] # n) \in BOOLEAN, (s[2] # p[1]) \in BOOLEAN
<1>10. Plain(w5)
  <2>1. Plain(DeprecateInPredecessors(s[3], d)) /\ Plain(InsertInPredecessors(s[3], n))
    BY <1>3, PlainCalls
  <2>2. Plain(DeprecateInPredecessors(s[3], d) \o InsertInPredecessors(s[3], n))
    BY <2>1, PlainConcat
  <2> QED
    BY <2>2, PlainWhen, (s[3] # n) \in BOOLEAN
<1>11. None \in Node \cup {None} /\ "get" \in {"get", "force get"} /\ "force get" \in {"get", "force get"}
  OBVIOUS
<1>12. Plain(w6)
  BY <1>3, <1>11, PlainMove
<1>13. Plain(w7)
  <2>1. Plain(MoveFiles(n, p[1], n, "force get", s[2], None))
    BY <1>3, <1>11, PlainMove
  <2> QED
    BY <2>1, PlainWhen, (s[2] # n) \in BOOLEAN
<1>14. Plain(w8)
  <2>1. Plain(MoveFiles(p[1], p[2], p[1], "get", s[1], None))
    BY <1>3, <1>11, PlainMove
  <2> QED
    BY <2>1, PlainWhen, (p[1] # n) \in BOOLEAN
<1> HIDE DEF w1, w2, w3, w4, w5, w6, w7, w8
<1>15. Plain(w1 \o w2)
  BY <1>6, <1>7, PlainConcat
<1>16. Plain(w1 \o w2 \o w3)
  BY <1>8, <1>15, PlainConcat
<1>17. Plain(w1 \o w2 \o w3 \o w4)
  BY <1>9, <1>16, PlainConcat
<1>18. Plain(w1 \o w2 \o w3 \o w4 \o w5)
  BY <1>10, <1>17, PlainConcat
<1>19. Plain(w1 \o w2 \o w3 \o w4 \o w5 \o w6)
  BY <1>12, <1>18, PlainConcat
<1>20. Plain(w1 \o w2 \o w3 \o w4 \o w5 \o w6 \o w7)
  BY <1>13, <1>19, PlainConcat
<1> QED
  BY <1>4, <1>14, <1>20, PlainConcat

-----------------------------------------------------------------------------
(* Types *)

TypeInv == TypeOK /\ Ready(todo, hand)

LEMMA CallTypes ==
    ASSUME NEW c \in Call
    PROVE  /\ c.at \in Node
           /\ c.do = "keys" => c \in KeysCall /\ c.a \in Node /\ c.b \in Node
           /\ c.do \in {"insert succesor", "insert predecessor", "deprecate succesor",
                        "deprecate predecessor", "third"} => c.x \in Node
           /\ c.do \in {"get", "force get", "put", "drop"} => c.k \in Name
BY DEF Call, KeysCall

LEMMA ListOps ==
    ASSUME NEW l \in List, NEW m \in Node, NEW x \in Node
    PROVE  /\ InsertSuccessor(m, l, x) \in List /\ InsertPredecessor(m, l, x) \in List
           /\ Deprecate(m, l, x) \in List /\ ReplaceFirst(l, x, m) \in List
           /\ ShiftLeftErasingIndex(l, 1, m) \in List
<1>1. l[1] \in Node /\ l[2] \in Node /\ l[3] \in Node
  BY DEF List
<1> DEFINE a == l[1] b == l[2] c == l[3]
<1>2. a \in Node /\ b \in Node /\ c \in Node
  BY <1>1
<1> HIDE DEF a, b, c
<1>3. /\ Three(x, a, b) \in List /\ Three(a, x, b) \in List /\ Three(a, b, x) \in List
      /\ Three(b, c, m) \in List /\ Three(a, c, m) \in List /\ Three(a, b, m) \in List
      /\ Three(m, b, c) \in List /\ Three(a, m, c) \in List
  BY <1>2, ThreeList
<1>4. InsertSuccessor(m, l, x) \in {Three(x, a, b), Three(a, x, b), Three(a, b, x)}
  BY InsertSuccessorThree DEF a, b, c
<1>5. InsertPredecessor(m, l, x) \in {Three(x, a, b), Three(a, x, b), Three(a, b, x)}
  BY InsertPredecessorThree DEF a, b, c
<1>6. Deprecate(m, l, x) \in {Three(b, c, m), Three(a, c, m), Three(a, b, m), l}
  BY DeprecateThree DEF a, b, c
<1>7. ReplaceFirst(l, x, m) \in {Three(m, b, c), Three(a, m, c), Three(a, b, m), l}
  BY ReplaceFirstThree DEF a, b, c
<1>8. ShiftLeftErasingIndex(l, 1, m) = Three(b, c, m)
  BY ShiftThree DEF a, b, c
<1> QED
  BY <1>3, <1>4, <1>5, <1>6, <1>7, <1>8

LEMMA JoinListTypes ==
    ASSUME NEW n \in Node, NEW p \in Node, NEW l \in List
    PROVE  JoinSuccessors(n, p, l) \in List /\ JoinPredecessors(n, p, l) \in List
<1>1. l[1] \in Node /\ l[2] \in Node /\ l[3] \in Node
  BY DEF List
<1>2. /\ (IF l[1] = p THEN n ELSE l[2]) \in Node
      /\ (IF l[1] = p \/ l[2] = p THEN n ELSE l[3]) \in Node
      /\ (IF l[1] = p THEN n ELSE l[1]) \in Node
      /\ (IF l[1] = p \/ l[2] = p THEN n ELSE l[2]) \in Node
  BY <1>1
<1> QED
  <2> DEFINE a == l[1]
             y == IF l[1] = p THEN n ELSE l[2]
             z == IF l[1] = p \/ l[2] = p THEN n ELSE l[3]
             v == IF l[1] = p THEN n ELSE l[1]
             w == IF l[1] = p \/ l[2] = p THEN n ELSE l[2]
  <2>1. a \in Node /\ y \in Node /\ z \in Node /\ v \in Node /\ w \in Node
    BY <1>1, <1>2
  <2>2. JoinSuccessors(n, p, l) = Three(a, y, z) /\ JoinPredecessors(n, p, l) = Three(p, v, w)
    BY JoinLists
  <2> HIDE DEF a, y, z, v, w
  <2>3. Three(a, y, z) \in List
    BY <2>1, ThreeList
  <2>4. Three(p, v, w) \in List
    BY <2>1, ThreeList
  <2> QED
    BY <2>2, <2>3, <2>4

\* The parts of TypeOK about the lists and the calls.
ListsOK == succ \in [Node -> List] /\ pred \in [Node -> List]

LEMMA TypeParts ==
    TypeOK <=> /\ status \in [Node -> {"down", "joining", "member"}]
               /\ ListsOK
               /\ store \in [Node -> [Name -> Content]]
               /\ agent \in Node \cup {None}
               /\ hand \in Value \cup {Empty, None}
               /\ latest \in [Name -> Value \cup {Absent}]
               /\ todo \in Seq(Call)
<1>1. 1 .. ListLen = 1 .. 3
  OBVIOUS
<1> QED
  BY <1>1 DEF TypeOK, ListsOK, List

LEMMA HeadCall ==
    ASSUME NEW q \in Seq(Call), q # <<>>
    PROVE  /\ Head(q) \in Call /\ Tail(q) \in Seq(Call)
           /\ \A h, j : /\ Ready(q, h) /\ Head(q).do \notin {"get", "force get"} => Ready(Tail(q), j)
                        /\ Ready(q, h) /\ j \in Value \cup {Empty} => Ready(Tail(q), j)
                        /\ Ready(q, h) /\ Head(q).do = "put" => h \in Value \cup {Empty}
<1>1. Head(q) \in Call /\ Tail(q) \in Seq(Call)
  BY CallsTail
<1>2. ASSUME NEW h, NEW j, Ready(q, h), Head(q).do \notin {"get", "force get"} PROVE Ready(Tail(q), j)
  BY <1>2, ReadyTail, FetchedReady
<1>3. ASSUME NEW h, NEW j, Ready(q, h), j \in Value \cup {Empty} PROVE Ready(Tail(q), j)
  BY <1>3, ReadyTail
<1>4. ASSUME NEW h, Ready(q, h), Head(q).do = "put" PROVE h \in Value \cup {Empty}
  <2>1. Len(q) \in Nat /\ Len(q) # 0 /\ Head(q) = q[1]
    BY HeadTailProperties, LenProperties, EmptySeq
  <2>2. 1 \in 1 .. Len(q)
    BY <2>1
  <2>3. q[1].do = "put"
    BY <1>4, <2>1
  <2> QED
    BY <1>4, <2>2, <2>3 DEF Ready
<1> QED
  BY <1>1, <1>2, <1>3, <1>4

LEMMA TypeInit == Init => TypeInv
<1> SUFFICES ASSUME Init PROVE TypeInv
  OBVIOUS
<1>1. \A n \in Node : Alone(n) \in List
  BY DEF Alone, List
<1>2. ListsOK
  BY <1>1 DEF Init, ListsOK
<1>3. status \in [Node -> {"down", "joining", "member"}]
  BY DEF Init
<1>4. NoFiles \in [Name -> Content] /\ NoFiles \in [Name -> Value \cup {Absent}]
  BY DEF NoFiles, Content
<1>5. /\ store \in [Node -> [Name -> Content]] /\ latest \in [Name -> Value \cup {Absent}]
      /\ agent \in Node \cup {None} /\ hand \in Value \cup {Empty, None}
  BY <1>4 DEF Init
<1>6. todo \in Seq(Call) /\ Ready(todo, hand)
  <2>1. todo = <<>> /\ <<>> \in Seq(Call) /\ Len(<<>>) = 0 /\ 1 .. 0 = {}
    BY DEF Init
  <2> QED
    BY <2>1 DEF Ready
<1> QED
  BY <1>2, <1>3, <1>5, <1>6, TypeParts DEF TypeInv

\* One list is replaced.
LEMMA ReplaceList ==
    ASSUME NEW f \in [Node -> List], NEW n \in Node, NEW l \in List
    PROVE  [f EXCEPT ![n] = l] \in [Node -> List]
OBVIOUS

LEMMA ReplaceFile ==
    ASSUME NEW n \in Node, NEW k \in Name, NEW v \in Content,
           NEW s \in [Node -> [Name -> Content]]
    PROVE  [s EXCEPT ![n][k] = v] \in [Node -> [Name -> Content]]
OBVIOUS

LEMMA CallingHead ==
    ASSUME TypeInv, NEW n \in Node, NEW ops, Calling(n, ops)
    PROVE  /\ Head(todo) \in Call /\ Head(todo).at \in Node /\ Tail(todo) \in Seq(Call)
           /\ agent = n /\ todo # <<>> /\ Head(todo).do \in ops /\ Head(todo).at \in Member
BY HeadCall, CallTypes, TypeParts DEF Calling, TypeInv

LEMMA TypeStep == TypeInv /\ [Next]_vars => TypeInv'
<1> SUFFICES ASSUME TypeInv, [Next]_vars PROVE TypeInv'
  OBVIOUS
<1>0. /\ status \in [Node -> {"down", "joining", "member"}]
      /\ ListsOK /\ succ \in [Node -> List] /\ pred \in [Node -> List]
      /\ store \in [Node -> [Name -> Content]]
      /\ agent \in Node \cup {None}
      /\ hand \in Value \cup {Empty, None}
      /\ latest \in [Name -> Value \cup {Absent}]
      /\ todo \in Seq(Call) /\ Ready(todo, hand)
  BY TypeParts DEF TypeInv, ListsOK
<1>T. ASSUME /\ status' \in [Node -> {"down", "joining", "member"}]
             /\ succ' \in [Node -> List] /\ pred' \in [Node -> List]
             /\ store' \in [Node -> [Name -> Content]]
             /\ agent' \in Node \cup {None}
             /\ hand' \in Value \cup {Empty, None}
             /\ latest' \in [Name -> Value \cup {Absent}]
             /\ todo' \in Seq(Call) /\ Ready(todo', hand')
      PROVE  TypeInv'
  <2>1. (1 .. ListLen)' = 1 .. 3
    OBVIOUS
  <2> QED
    BY <1>T, <2>1 DEF TypeInv, TypeOK, List, Ready, Content, Call
<1>1. ASSUME NEW e \in Node, NEW k \in Name, NEW v \in Value \cup {Absent}, Write(e, k, v)
      PROVE  TypeInv'
  <2>1. store' \in [Node -> [Name -> Content]]
    <3>1. \A n \in Node : [store[n] EXCEPT ![k] = v] \in [Name -> Content]
      BY <1>0 DEF Content
    <3> QED
      BY <1>0, <1>1, <3>1 DEF Write
  <2>2. latest' \in [Name -> Value \cup {Absent}]
    BY <1>0, <1>1 DEF Write
  <2> QED
    BY <1>0, <1>1, <1>T, <2>1, <2>2 DEF Write
<1>2. ASSUME NEW n \in Node, Crash(n) PROVE TypeInv'
  <2>1. Alone(n) \in List /\ NoFiles \in [Name -> Content]
    BY DEF Alone, List, NoFiles, Content
  <2>2. succ' \in [Node -> List] /\ pred' \in [Node -> List]
    BY <1>0, <1>2, <2>1 DEF Crash
  <2>3. store' \in [Node -> [Name -> Content]] /\ status' \in [Node -> {"down", "joining", "member"}]
    BY <1>0, <1>2, <2>1 DEF Crash
  <2> QED
    BY <1>0, <1>2, <1>T, <2>2, <2>3 DEF Crash
<1>3. ASSUME NEW n \in Node, NEW e \in Node, StartJoin(n, e) PROVE TypeInv'
  <2>1. PredecessorOf(e, n) \in Node
    BY <1>3 DEF StartJoin, Answered, Member
  <2> DEFINE c == [do |-> "lists", at |-> PredecessorOf(e, n)]
  <2>2. c \in Call /\ c.do # "put"
    BY <2>1 DEF Call
  <2>3. todo' = <<c>>
    BY <1>3 DEF StartJoin
  <2> HIDE DEF c
  <2>4. todo' \in Seq(Call) /\ Ready(todo', hand')
    BY <2>2, <2>3, PlainOne, PlainFetched, FetchedReady
  <2>5. status' \in [Node -> {"down", "joining", "member"}] /\ agent' \in Node \cup {None}
    BY <1>0, <1>3 DEF StartJoin
  <2> QED
    BY <1>0, <1>3, <1>T, <2>4, <2>5 DEF StartJoin
<1>4. ASSUME NEW n \in Node, DetectDown(n) PROVE TypeInv'
  <2>1. ShiftLeftErasingIndex(succ[n], 1, n) \in List
    BY <1>0, ListOps
  <2>2. succ' \in [Node -> List]
    BY <1>0, <1>4, <2>1 DEF DetectDown
  <2>3. succ'[n][2] \in Node /\ succ[n][1] \in Node
    BY <1>0, <2>2 DEF List
  <2> DEFINE c == [do |-> "third", at |-> succ'[n][2], x |-> succ[n][1]]
  <2>4. c \in Call /\ c.do # "put"
    BY <2>3 DEF Call
  <2>5. todo' = <<c>>
    BY <1>4 DEF DetectDown
  <2> HIDE DEF c
  <2>6. todo' \in Seq(Call) /\ Ready(todo', hand')
    BY <2>4, <2>5, PlainOne, PlainFetched, FetchedReady
  <2> QED
    BY <1>0, <1>4, <1>T, <2>2, <2>6 DEF DetectDown
<1>5. ASSUME NEW n \in Node, TakeLists(n) PROVE TypeInv'
  <2> DEFINE p == Head(todo).at
  <2>1. p \in Node
    BY <1>5, CallingHead DEF TakeLists
  <2>2. JoinSuccessors(n, p, succ[p]) \in List /\ JoinPredecessors(n, p, pred[p]) \in List
    BY <1>0, <2>1, JoinListTypes
  <2>3. succ' \in [Node -> List] /\ pred' \in [Node -> List]
    BY <1>0, <1>5, <2>2, ReplaceList DEF TakeLists
  <2>4. succ'[n] \in List /\ pred'[n] \in List
    BY <2>3
  <2>5. todo' \in Seq(Call) /\ Ready(todo', hand')
    <3>1. todo' = JoinCalls(n, succ'[n], pred'[n])
      BY <1>5 DEF TakeLists
    <3> QED
      BY <2>4, <3>1, PlainJoin, PlainFetched, FetchedReady
  <2> QED
    BY <1>0, <1>5, <1>T, <2>3, <2>5 DEF TakeLists
<1>P. ASSUME NEW n \in Node, NEW d \in Node, succ' \in [Node -> List], PlanRepair(n, d)
      PROVE  TypeInv'
  <2>1. pred' \in [Node -> List]
    BY <1>0, <1>P, ListOps, ReplaceList DEF PlanRepair
  <2>2. succ'[n] \in List /\ pred'[n] \in List
    BY <1>P, <2>1
  <2>3. todo' \in Seq(Call) /\ Ready(todo', hand')
    <3>1. todo' = RepairCalls(n, succ'[n], pred'[n], d)
      BY <1>P DEF PlanRepair
    <3> QED
      BY <2>2, <3>1, PlainRepair, PlainFetched, FetchedReady
  <2> QED
    BY <1>0, <1>P, <1>T, <2>1, <2>3 DEF PlanRepair
<1>6. ASSUME NEW n \in Node, FindThird(n) PROVE TypeInv'
  <2>1. Head(todo).x \in Node /\ Head(todo).at \in Node
    BY <1>6, CallingHead, CallTypes DEF FindThird
  <2> DEFINE h == Head(todo).at + 1
             z == SuccessorOf(Head(todo).at, h)
  <2>2. PredecessorOf(Head(todo).at, h) \in Node
    BY <1>6 DEF FindThird, Answered, Member
  <2>3. z \in Node
    <3>1. succ[PredecessorOf(Head(todo).at, h)] \in List
      BY <1>0, <2>2
    <3>2. succ[PredecessorOf(Head(todo).at, h)][1] \in Node
      BY <3>1 DEF List
    <3> QED
      BY <3>2 DEF SuccessorOf
  <2>4. succ' = [succ EXCEPT ![n][3] = z] /\ PlanRepair(n, Head(todo).x)
    BY <1>6 DEF FindThird
  <2> HIDE DEF z
  <2>5. [succ[n] EXCEPT ![3] = z] \in List
    BY <1>0, <2>3 DEF List
  <2>6. succ' \in [Node -> List]
    BY <1>0, <2>4, <2>5
  <2> QED
    BY <1>P, <2>1, <2>4, <2>6
<1>7. ASSUME NEW n \in Node, NoThird(n) PROVE TypeInv'
  <2>1. Head(todo).x \in Node
    BY <1>7, CallingHead, CallTypes DEF NoThird
  <2> QED
    BY <1>0, <1>7, <1>P, <2>1 DEF NoThird
<1>8. ASSUME NEW n \in Node, ChangeSuccessors(n) PROVE TypeInv'
  <2> DEFINE c == Head(todo)
             l == IF c.do = "insert succesor" THEN InsertSuccessor(c.at, succ[c.at], c.x)
                  ELSE Deprecate(c.at, succ[c.at], c.x)
  <2>1. c.x \in Node /\ c.at \in Node /\ c.do \notin {"get", "force get"} /\ Tail(todo) \in Seq(Call) /\ todo # <<>>
    <3>1. Calling(n, {"insert succesor", "deprecate succesor"})
      BY <1>8 DEF ChangeSuccessors
    <3>2. /\ Head(todo) \in Call /\ Head(todo).at \in Node /\ Tail(todo) \in Seq(Call) /\ todo # <<>>
          /\ Head(todo).do \in {"insert succesor", "deprecate succesor"}
      BY <3>1, CallingHead
    <3>3. Head(todo).x \in Node
      BY <3>2, CallTypes
    <3> QED
      BY <3>2, <3>3
  <2>2. l \in List
    BY <1>0, <2>1, ListOps
  <2>3. succ' = [succ EXCEPT ![c.at] = l]
    BY <1>8 DEF ChangeSuccessors
  <2> HIDE DEF l
  <2>4. succ' \in [Node -> List]
    BY <1>0, <2>1, <2>2, <2>3, ReplaceList
  <2>5. Ready(Tail(todo), hand)
    BY <1>0, <2>1, HeadCall
  <2> QED
    BY <1>0, <1>8, <1>T, <2>1, <2>4, <2>5 DEF ChangeSuccessors
<1>9. ASSUME NEW n \in Node, ChangePredecessors(n) PROVE TypeInv'
  <2> DEFINE c == Head(todo)
             l == IF c.do = "insert predecessor" THEN InsertPredecessor(c.at, pred[c.at], c.x)
                  ELSE Deprecate(c.at, pred[c.at], c.x)
  <2>1. c.x \in Node /\ c.at \in Node /\ c.do \notin {"get", "force get"} /\ Tail(todo) \in Seq(Call) /\ todo # <<>>
    <3>1. Calling(n, {"insert predecessor", "deprecate predecessor"})
      BY <1>9 DEF ChangePredecessors
    <3>2. /\ Head(todo) \in Call /\ Head(todo).at \in Node /\ Tail(todo) \in Seq(Call) /\ todo # <<>>
          /\ Head(todo).do \in {"insert predecessor", "deprecate predecessor"}
      BY <3>1, CallingHead
    <3>3. Head(todo).x \in Node
      BY <3>2, CallTypes
    <3> QED
      BY <3>2, <3>3
  <2>2. l \in List
    BY <1>0, <2>1, ListOps
  <2>3. pred' = [pred EXCEPT ![c.at] = l]
    BY <1>9 DEF ChangePredecessors
  <2> HIDE DEF l
  <2>4. pred' \in [Node -> List]
    BY <1>0, <2>1, <2>2, <2>3, ReplaceList
  <2>5. Ready(Tail(todo), hand)
    BY <1>0, <2>1, HeadCall
  <2> QED
    BY <1>0, <1>9, <1>T, <2>1, <2>4, <2>5 DEF ChangePredecessors
<1>10. ASSUME NEW n \in Node, ListKeys(n) PROVE TypeInv'
  <2> DEFINE c == Head(todo)
             K == KeysInRange(c.at, c.a, c.b)
             ks == Seqs!SetToSeq(K)
             f == Seqs!FlattenSeq([i \in 1 .. Len(ks) |-> MoveFile(c, ks[i])])
  <2>1. c \in KeysCall /\ c.do = "keys" /\ Tail(todo) \in Seq(Call) /\ todo # <<>>
    <3>1. Calling(n, {"keys"})
      BY <1>10 DEF ListKeys
    <3>2. Head(todo) \in Call /\ Tail(todo) \in Seq(Call) /\ todo # <<>> /\ Head(todo).do \in {"keys"}
      BY <3>1, CallingHead
    <3>3. Head(todo).do = "keys"
      BY <3>2
    <3>4. Head(todo) \in KeysCall
      BY <3>2, <3>3, CallTypes
    <3> QED
      BY <3>2, <3>3, <3>4
  <2>2. K \in SUBSET Name
    BY DEF KeysInRange
  <2>3. todo' = f \o Tail(todo)
    BY <1>10 DEF ListKeys
  <2> HIDE DEF K
  <2>4. f \in FileCalls
    BY <2>1, <2>2, KeysCalls
  <2>5. Fetched(Tail(todo))
    <3>1. c.do \notin {"get", "force get"}
      BY <2>1
    <3> HIDE DEF c
    <3> QED
      BY <1>0, <2>1, <3>1, ReadyTail DEF c
  <2> HIDE DEF f, c
  <2>6. f \in Seq(Call) /\ Fetched(f)
    BY <2>4, FileCallsIn DEF FileCalls
  <2>7. todo' \in Seq(Call) /\ Ready(todo', hand')
    <3>1. f \o Tail(todo) \in Seq(Call)
      BY <2>1, <2>6
    <3>2. Fetched(f \o Tail(todo))
      BY <2>1, <2>5, <2>6, FetchedConcat
    <3> QED
      BY <2>3, <3>1, <3>2, FetchedReady
  <2> QED
    BY <1>0, <1>10, <1>T, <2>7 DEF ListKeys
<1>11. ASSUME NEW m \in Node, NEW k \in Name PROVE ReadAt(m, k) \in Value \cup {Empty}
  BY <1>0 DEF ReadAt, Content
<1>12. ASSUME NEW n \in Node, FetchFile(n) PROVE TypeInv'
  <2>1. Head(todo).k \in Name /\ Head(todo).at \in Node /\ Tail(todo) \in Seq(Call) /\ todo # <<>>
    BY <1>12, CallingHead, CallTypes DEF FetchFile
  <2>2. hand' \in Value \cup {Empty}
    BY <1>11, <1>12, <2>1 DEF FetchFile
  <2>3. Ready(Tail(todo), hand')
    BY <1>0, <2>1, <2>2, HeadCall
  <2> QED
    BY <1>0, <1>12, <1>T, <2>1, <2>2, <2>3 DEF FetchFile
<1>13. ASSUME NEW n \in Node, GetFile(n) PROVE TypeInv'
  <2>1. Head(todo).k \in Name /\ Head(todo).at \in Node /\ Tail(todo) \in Seq(Call) /\ todo # <<>>
    BY <1>13, CallingHead, CallTypes DEF GetFile
  <2> DEFINE o == SuccessorOf(Head(todo).at, Hash[Head(todo).k])
  <2>2. o \in Node /\ hand' = ReadAt(o, Head(todo).k)
    BY <1>13 DEF GetFile, Member
  <2> HIDE DEF o
  <2>3. hand' \in Value \cup {Empty}
    BY <1>11, <2>1, <2>2
  <2>4. Ready(Tail(todo), hand')
    BY <1>0, <2>1, <2>3, HeadCall
  <2> QED
    BY <1>0, <1>13, <1>T, <2>1, <2>3, <2>4 DEF GetFile
<1>14. ASSUME NEW n \in Node, PutFile(n) PROVE TypeInv'
  <2>0. todo # <<>> /\ Head(todo).do = "put"
    BY <1>14 DEF PutFile
  <2>1. Head(todo) \in Call /\ Tail(todo) \in Seq(Call) /\ hand \in Value \cup {Empty}
        /\ Ready(Tail(todo), hand')
    BY <1>0, <2>0, HeadCall
  <2>2. Head(todo).k \in Name /\ Head(todo).at \in Node
    BY <2>0, <2>1, CallTypes
  <2>3. store' \in [Node -> [Name -> Content]]
    <3>1. hand \in Content
      BY <2>1 DEF Content
    <3> QED
      BY <1>0, <1>14, <2>2, <3>1, ReplaceFile DEF PutFile
  <2> QED
    BY <1>0, <1>14, <1>T, <2>1, <2>3 DEF PutFile
<1>15. ASSUME NEW n \in Node, DropFile(n) PROVE TypeInv'
  <2>1. Head(todo).k \in Name /\ Head(todo).at \in Node /\ Tail(todo) \in Seq(Call) /\ todo # <<>>
        /\ Head(todo).do = "drop"
    <3>1. Calling(n, {"drop"})
      BY <1>15 DEF DropFile
    <3>2. Head(todo) \in Call /\ Head(todo).at \in Node /\ Tail(todo) \in Seq(Call) /\ todo # <<>>
          /\ Head(todo).do \in {"drop"}
      BY <3>1, CallingHead
    <3>3. Head(todo).do = "drop"
      BY <3>2
    <3> QED
      BY <3>2, <3>3, CallTypes
  <2>2. store' \in [Node -> [Name -> Content]]
    <3>1. Absent \in Content
      BY DEF Content
    <3> QED
      BY <1>0, <1>15, <2>1, <3>1, ReplaceFile DEF DropFile
  <2>3. Ready(Tail(todo), hand)
    BY <1>0, <2>1, HeadCall
  <2> QED
    BY <1>0, <1>15, <1>T, <2>1, <2>2, <2>3 DEF DropFile
<1>16. ASSUME NEW n \in Node, Finish(n) PROVE TypeInv'
  BY <1>0, <1>16, <1>T DEF Finish
<1>17. CASE UNCHANGED vars
  BY <1>0, <1>17, <1>T DEF vars
<1> QED
  BY <1>1, <1>2, <1>3, <1>4, <1>5, <1>6, <1>7, <1>8, <1>9, <1>10, <1>12, <1>13, <1>14, <1>15, <1>16,
     <1>17 DEF Next, AgentStep

\* Every variable keeps its type; in particular no file is put down that has
\* not been fetched: the calls of a join and of a repair come in pairs.
THEOREM MembershipTypes == Spec => []TypeOK
<1>1. TypeInv => TypeOK
  BY DEF TypeInv
<1> QED
  BY <1>1, TypeInit, TypeStep, PTL DEF Spec

-----------------------------------------------------------------------------
(* The lists of the members M, with successors s and predecessors p, while *)
(* the calls q are still to be made                                        *)

\* The lists are those of the ring T.
Exact(T, M, s, p) == \A m \in M : IsSuccs(T, m, s[m]) /\ IsPreds(T, m, p[m])

\* Once q is made the lists are those of the ring R.
Settling(R, q, s, p) ==
    /\ \A c \in Calls(q) : c.do \notin {"lists", "third"}
    /\ InOrder(q)
    /\ \A m \in R : SuccsWill(R, m, s[m], q) /\ PredsWill(R, m, p[m], q)

\* d has crashed, and a member expects it to be its successor.
Broken(M, s, p, d) ==
    /\ d \in Node \ M /\ NotTwo(M)
    /\ Exact(M \cup {d}, M, s, p)
    /\ \E n \in M : s[n][1] = d

\* n is about to ask m, its predecessor, for its lists.
Asking(M, n, q, s, p, m) ==
    /\ n \in Node \ M /\ m \in M
    /\ q = <<[do |-> "lists", at |-> m]>>
    /\ IsNext(M \cup {n}, m, n)
    /\ Exact(M, M, s, p)

\* n knows that d has crashed, and is about to look for a third successor.
Looking(M, n, q, s, p, d) ==
    /\ n \in M /\ d \in Node \ M /\ NotTwo(M)
    /\ q = <<[do |-> "third", at |-> s[n][2], x |-> d]>>
    /\ IsNext(M \cup {d}, n, d)
    /\ \A m \in M : IsPreds(M \cup {d}, m, p[m])
    /\ \A m \in M \ {n} : IsSuccs(M \cup {d}, m, s[m])
    /\ IsNext(M, n, s[n][1])
    /\ IF s[n][1] = n THEN s[n][2] = n ELSE IsNext(M, s[n][1], s[n][2])
    /\ s[n][3] = n

\* One of these is the case when the agent is a.
Standing(M, a, q, s, p) ==
    \/ Settling(M \cup ({a} \ {None}), q, s, p)
    \/ a = None /\ \E d \in Node : Broken(M, s, p, d)
    \/ a # None /\ \E m \in Node : Asking(M, a, q, s, p, m)
    \/ a # None /\ \E d \in Node : Looking(M, a, q, s, p, d)

OneAgent ==
    /\ \A m \in Node : status[m] = "joining" <=> m = agent /\ m \notin Member
    /\ agent = None => todo = <<>>

ListInv == OneAgent /\ Standing(Member, agent, todo, succ, pred)

LEMMA SettlingDone ==
    ASSUME NEW R, NEW s, NEW p
    PROVE  Settling(R, <<>>, s, p) <=> Exact(R, R, s, p)
<1>1. Calls(<<>>) = {} /\ InOrder(<<>>)
  BY DEF Calls, InOrder
<1>2. \A op, m : To(<<>>, op, m) = {}
  BY <1>1 DEF To
<1>3. \A m, l : (SuccsWill(R, m, l, <<>>) <=> IsSuccs(R, m, l)) /\ (PredsWill(R, m, l, <<>>) <=> IsPreds(R, m, l))
  BY <1>2 DEF SuccsWill, PredsWill
<1> QED
  BY <1>1, <1>3 DEF Settling, Exact

\* A call for a file changes nothing.
LEMMA SettlingTail ==
    ASSUME NEW R, NEW q \in Seq(Call), q # <<>>, NEW s, NEW p, Settling(R, q, s, p), Moving(Head(q))
    PROVE  Settling(R, Tail(q), s, p)
<1>1. /\ Calls(q) = {Head(q)} \cup Calls(Tail(q)) /\ InOrder(Tail(q))
  BY CallsTail DEF Settling
<1>2. ASSUME NEW m, NEW op \in {"insert succesor", "insert predecessor", "deprecate succesor", "deprecate predecessor"}
      PROVE  To(q, op, m) = To(Tail(q), op, m)
  BY ToTail DEF Moving
<1>3. \A m \in R : SuccsWill(R, m, s[m], Tail(q)) /\ PredsWill(R, m, p[m], Tail(q))
  BY <1>2, SuccsWillSame, PredsWillSame DEF Settling
<1> QED
  BY <1>1, <1>3 DEF Settling

LEMMA SettlingFiles ==
    ASSUME NEW R, NEW q \in Seq(Call), NEW f \in Seq(FileCall), NEW s, NEW p, Settling(R, q, s, p)
    PROVE  Settling(R, f \o q, s, p)
<1>1. f \in Seq(Call) /\ \A c \in Calls(f) : Moving(c)
  <2>1. \A i \in 1 .. Len(f) : f[i] \in FileCall
    BY ElementOfSeq
  <2>2. \A c \in FileCall : Moving(c)
    BY DEF FileCall, Moving
  <2> QED
    BY <2>1, <2>2, FileCallsIn DEF Calls
<1>2. Calls(f \o q) = Calls(f) \cup Calls(q)
  BY <1>1, CallsConcat
<1>3. InOrder(f \o q)
  <2>1. InOrder(f)
    BY <1>1, MovingApart DEF InOrder, Calls
  <2>2. \A c \in Calls(f), d \in Calls(q) : ~Conflict(c, d)
    BY <1>1, MovingApart
  <2> QED
    BY <1>1, <2>1, <2>2, InOrderConcat DEF Settling
<1>4. ASSUME NEW m, NEW op \in {"insert succesor", "insert predecessor", "deprecate succesor", "deprecate predecessor"}
      PROVE  To(q, op, m) = To(f \o q, op, m)
  <2>1. \A c \in Calls(f) : c.do # op
    BY <1>1 DEF Moving
  <2> QED
    BY <1>2, <2>1 DEF To
<1>5. \A m \in R : SuccsWill(R, m, s[m], f \o q) /\ PredsWill(R, m, p[m], f \o q)
  BY <1>4, SuccsWillSame, PredsWillSame DEF Settling
<1>6. \A c \in Calls(f \o q) : c.do \notin {"lists", "third"}
  BY <1>1, <1>2 DEF Settling, Moving
<1> QED
  BY <1>3, <1>5, <1>6 DEF Settling

LEMMA SettlingSuccs ==
    ASSUME NEW R \in SUBSET Node, NEW q \in Seq(Call), q # <<>>, NEW s \in [Node -> List], NEW p,
           Settling(R, q, s, p), NEW c, c = Head(q), c.do \in {"insert succesor", "deprecate succesor"},
           c.at \in Node,
           NEW t, t = [s EXCEPT ![c.at] = IF c.do = "insert succesor" THEN InsertSuccessor(c.at, s[c.at], c.x)
                                          ELSE Deprecate(c.at, s[c.at], c.x)]
    PROVE  Settling(R, Tail(q), t, p)
<1>1. /\ Calls(q) = {c} \cup Calls(Tail(q)) /\ InOrder(Tail(q)) /\ InOrder(q)
  BY CallsTail DEF Settling
<1>2. ASSUME NEW m \in R PROVE SuccsWill(R, m, t[m], Tail(q))
  <2>0. SuccsWill(R, m, s[m], q) /\ m \in Node
    BY DEF Settling
  <2>1. CASE m # c.at
    <3>1. t[m] = s[m]
      BY <2>0, <2>1
    <3>2. /\ To(q, "insert succesor", m) = To(Tail(q), "insert succesor", m)
          /\ To(q, "deprecate succesor", m) = To(Tail(q), "deprecate succesor", m)
      BY <2>1, ToTail
    <3>3. SuccsWill(R, m, s[m], Tail(q))
      BY <2>0, <3>2, SuccsWillSame
    <3> QED
      BY <3>1, <3>3
  <2>2. CASE m = c.at /\ c.do = "insert succesor"
    <3>1. t[m] = InsertSuccessor(m, s[m], c.x)
      BY <2>0, <2>2
    <3> QED
      BY <1>1, <2>0, <2>2, <3>1, SuccsWillHead
  <2>3. CASE m = c.at /\ c.do = "deprecate succesor"
    <3>1. t[m] = Deprecate(m, s[m], c.x)
      BY <2>0, <2>3
    <3> QED
      BY <1>1, <2>0, <2>3, <3>1, SuccsWillHead
  <2> QED
    BY <2>1, <2>2, <2>3
<1>3. ASSUME NEW m \in R PROVE PredsWill(R, m, p[m], Tail(q))
  <2>1. ASSUME NEW op \in {"insert predecessor", "deprecate predecessor"}
        PROVE  To(q, op, m) = To(Tail(q), op, m)
    BY ToTail
  <2> QED
    BY <2>1, PredsWillSame DEF Settling
<1> QED
  BY <1>1, <1>2, <1>3 DEF Settling

LEMMA SettlingPreds ==
    ASSUME NEW R \in SUBSET Node, NEW q \in Seq(Call), q # <<>>, NEW s, NEW p \in [Node -> List],
           Settling(R, q, s, p), NEW c, c = Head(q), c.do \in {"insert predecessor", "deprecate predecessor"},
           c.at \in Node,
           NEW t, t = [p EXCEPT ![c.at] = IF c.do = "insert predecessor" THEN InsertPredecessor(c.at, p[c.at], c.x)
                                          ELSE Deprecate(c.at, p[c.at], c.x)]
    PROVE  Settling(R, Tail(q), s, t)
<1>1. /\ Calls(q) = {c} \cup Calls(Tail(q)) /\ InOrder(Tail(q)) /\ InOrder(q)
  BY CallsTail DEF Settling
<1>2. ASSUME NEW m \in R PROVE PredsWill(R, m, t[m], Tail(q))
  <2>0. PredsWill(R, m, p[m], q) /\ m \in Node
    BY DEF Settling
  <2>1. CASE m # c.at
    <3>1. t[m] = p[m]
      BY <2>0, <2>1
    <3>2. /\ To(q, "insert predecessor", m) = To(Tail(q), "insert predecessor", m)
          /\ To(q, "deprecate predecessor", m) = To(Tail(q), "deprecate predecessor", m)
      BY <2>1, ToTail
    <3>3. PredsWill(R, m, p[m], Tail(q))
      BY <2>0, <3>2, PredsWillSame
    <3> QED
      BY <3>1, <3>3
  <2>2. CASE m = c.at /\ c.do = "insert predecessor"
    <3>1. t[m] = InsertPredecessor(m, p[m], c.x)
      BY <2>0, <2>2
    <3> QED
      BY <1>1, <2>0, <2>2, <3>1, PredsWillHead
  <2>3. CASE m = c.at /\ c.do = "deprecate predecessor"
    <3>1. t[m] = Deprecate(m, p[m], c.x)
      BY <2>0, <2>3
    <3> QED
      BY <1>1, <2>0, <2>3, <3>1, PredsWillHead
  <2> QED
    BY <2>1, <2>2, <2>3
<1>3. ASSUME NEW m \in R PROVE SuccsWill(R, m, s[m], Tail(q))
  <2>1. ASSUME NEW op \in {"insert succesor", "deprecate succesor"}
        PROVE  To(q, op, m) = To(Tail(q), op, m)
    BY ToTail
  <2> QED
    BY <2>1, SuccsWillSame DEF Settling
<1> QED
  BY <1>1, <1>2, <1>3 DEF Settling

LEMMA AnsweredNext ==
    ASSUME NEW R \in SUBSET Int, NEW n \in Int, n \notin R, NEW m \in R, NEW x \in R,
           IsNext(R, m, x), IAmPredecessorOfKey(m, x, n)
    PROVE  IsNext(R \cup {n}, m, n)
BY DEF IsNext, Passed, IAmPredecessorOfKey

\* The lookup of the key after i ends at i.
LEMMA AnsweredSelf ==
    ASSUME NEW R \in SUBSET Int, NEW i \in R, NEW m \in R, NEW x \in R,
           IsNext(R, m, x), IAmPredecessorOfKey(m, x, i + 1)
    PROVE  m = i
BY DEF IsNext, Passed, IAmPredecessorOfKey

\* What start a join finds: a settled ring and a node between two members.
LEMMA AskingStarts ==
    ASSUME NEW M \in SUBSET Node, NEW n \in Node \ M, NEW s, NEW p, Exact(M, M, s, p),
           NEW m \in M, IAmPredecessorOfKey(m, s[m][1], n)
    PROVE  Asking(M, n, <<[do |-> "lists", at |-> m]>>, s, p, m)
<1>1. IsNext(M, m, s[m][1])
  BY DEF Exact, IsSuccs, Follow
<1>2. s[m][1] \in M /\ M \in SUBSET Int /\ n \in Int
  BY <1>1 DEF IsNext
<1>3. IsNext(M \cup {n}, m, n)
  BY <1>1, <1>2, AnsweredNext
<1> QED
  BY <1>3 DEF Asking

LEMMA AskingPlan ==
    ASSUME NEW M \in SUBSET Node, NEW n, NEW m, NEW q0, NEW s \in [Node -> List], NEW p \in [Node -> List],
           Asking(M, n, q0, s, p, m),
           NEW t, t = JoinSuccessors(n, m, s[m]), NEW r, r = JoinPredecessors(n, m, p[m]),
           NEW q, q = JoinCalls(n, t, r)
    PROVE  /\ InOrder(q)
           /\ \A c \in Calls(q) : c.do \notin {"lists", "third"}
           /\ SuccsWill(M \cup {n}, n, t, q) /\ PredsWill(M \cup {n}, n, r, q)
           /\ \A i \in M : SuccsWill(M \cup {n}, i, s[i], q) /\ PredsWill(M \cup {n}, i, p[i], q)
<1>1. n \in Node /\ n \notin M /\ m \in M /\ IsNext(M \cup {n}, m, n) /\ Exact(M, M, s, p)
  BY DEF Asking
<1> DEFINE sl == [i \in M |-> s[i]]
           pl == [i \in M |-> p[i]]
<1>2. sl \in [M -> List] /\ pl \in [M -> List] /\ \A i \in M : sl[i] = s[i] /\ pl[i] = p[i]
  OBVIOUS
<1>3. t = JoinSuccessors(n, m, sl[m]) /\ r = JoinPredecessors(n, m, pl[m])
  BY <1>1
<1>5. \A i \in M : IsSuccs(M, i, sl[i]) /\ IsPreds(M, i, pl[i])
  BY <1>1 DEF Exact
<1> HIDE DEF sl, pl
<1>6. /\ InOrder(q)
      /\ \A c \in Calls(q) : c.do \notin {"lists", "third", "put"}
      /\ SuccsWill(M \cup {n}, n, t, q) /\ PredsWill(M \cup {n}, n, r, q)
      /\ \A i \in M : SuccsWill(M \cup {n}, i, sl[i], q) /\ PredsWill(M \cup {n}, i, pl[i], q)
  <2>1. JoinDone(M, n, sl, pl, t, r, q)
    BY <1>1, <1>2, <1>3, <1>5, JoinSettles, ZenonT(20)
  <2> QED
    BY <2>1 DEF JoinDone
<1> QED
  BY <1>2, <1>6

\* The lists of n are written, and the calls to the others follow.
LEMMA AskingEnds ==
    ASSUME NEW M \in SUBSET Node, NEW n, NEW m, NEW q0, NEW s \in [Node -> List], NEW p \in [Node -> List],
           Asking(M, n, q0, s, p, m),
           NEW t, t = [s EXCEPT ![n] = JoinSuccessors(n, m, s[m])],
           NEW r, r = [p EXCEPT ![n] = JoinPredecessors(n, m, p[m])],
           NEW q, q = JoinCalls(n, t[n], r[n])
    PROVE  Settling(M \cup {n}, q, t, r)
<1>1. n \in Node /\ n \notin M
  BY DEF Asking
<1> DEFINE tn == t[n]
           rn == r[n]
<1>2. tn = JoinSuccessors(n, m, s[m]) /\ rn = JoinPredecessors(n, m, p[m]) /\ q = JoinCalls(n, tn, rn)
  BY <1>1
<1>3. \A i \in M : t[i] = s[i] /\ r[i] = p[i]
  BY <1>1
<1> HIDE DEF tn, rn
<1>4. /\ InOrder(q)
      /\ \A c \in Calls(q) : c.do \notin {"lists", "third"}
      /\ SuccsWill(M \cup {n}, n, tn, q) /\ PredsWill(M \cup {n}, n, rn, q)
      /\ \A i \in M : SuccsWill(M \cup {n}, i, s[i], q) /\ PredsWill(M \cup {n}, i, p[i], q)
  BY <1>2, AskingPlan
<1>5. \A i \in M \cup {n} : SuccsWill(M \cup {n}, i, t[i], q) /\ PredsWill(M \cup {n}, i, r[i], q)
  BY <1>3, <1>4 DEF tn, rn
<1> QED
  BY <1>4, <1>5 DEF Settling

LEMMA LookingEnds ==
    ASSUME NEW M \in SUBSET Node, NEW n, NEW d, NEW q0, NEW s \in [Node -> List], NEW p \in [Node -> List],
           Looking(M, n, q0, s, p, d),
           NEW t \in [Node -> List], \A m \in M \ {n} : t[m] = s[m], IsSuccs(M, n, t[n]),
           NEW r, r = [p EXCEPT ![n] = ReplaceFirst(p[n], d, n)],
           NEW q, q = RepairCalls(n, t[n], r[n], d)
    PROVE  Settling(M, q, t, r)
<1>1. /\ n \in M /\ d \in Node /\ d \notin M /\ NotTwo(M) /\ IsNext(M \cup {d}, n, d)
      /\ \A m \in M : IsPreds(M \cup {d}, m, p[m])
      /\ \A m \in M \ {n} : IsSuccs(M \cup {d}, m, s[m])
  BY DEF Looking
<1> DEFINE sl == [i \in M |-> s[i]]
           pl == [i \in M |-> p[i]]
<1>2. sl \in [M -> List] /\ pl \in [M -> List] /\ \A i \in M : sl[i] = s[i] /\ pl[i] = p[i]
  OBVIOUS
<1>3. r[n] = ReplaceFirst(pl[n], d, n) /\ t[n] \in List
  BY <1>1
<1>4. \A i \in M \ {n} : t[i] = sl[i] /\ r[i] = pl[i]
  BY <1>1
<1>5. (\A m \in M : IsPreds(M \cup {d}, m, pl[m])) /\ \A m \in M \ {n} : IsSuccs(M \cup {d}, m, sl[m])
  BY <1>1
<1> HIDE DEF sl, pl
<1>6. /\ InOrder(q)
      /\ \A c \in Calls(q) : c.do \notin {"lists", "third", "put"}
      /\ SuccsWill(M, n, t[n], q) /\ PredsWill(M, n, r[n], q)
      /\ \A i \in M \ {n} : SuccsWill(M, i, sl[i], q) /\ PredsWill(M, i, pl[i], q)
  BY <1>1, <1>2, <1>3, <1>5, RepairSettles, ZenonT(30)
<1>7. \A i \in M : SuccsWill(M, i, t[i], q) /\ PredsWill(M, i, r[i], q)
  BY <1>4, <1>6
<1>8. \A c \in Calls(q) : c.do \notin {"lists", "third"}
  BY <1>6
<1> QED
  BY <1>6, <1>7, <1>8 DEF Settling

\* The successor of the second successor is found by a lookup.
LEMMA LookingThird ==
    ASSUME NEW M \in SUBSET Node, NEW n, NEW d, NEW q0, NEW s \in [Node -> List], NEW p,
           Looking(M, n, q0, s, p, d),
           NEW i, i = s[n][2], i # n, NEW m \in M, NEW z, z = s[m][1], IAmPredecessorOfKey(m, z, i + 1),
           NEW t, t = [s EXCEPT ![n][3] = z]
    PROVE  t \in [Node -> List] /\ (\A o \in M \ {n} : t[o] = s[o]) /\ IsSuccs(M, n, t[n])
<1>1. /\ n \in M /\ d \in Node /\ d \notin M /\ IsNext(M \cup {d}, n, d)
      /\ \A o \in M \ {n} : IsSuccs(M \cup {d}, o, s[o])
      /\ IsNext(M, n, s[n][1])
      /\ IF s[n][1] = n THEN s[n][2] = n ELSE IsNext(M, s[n][1], s[n][2])
  BY DEF Looking
<1> DEFINE x == s[n][1]
           T == M \cup {d}
<1>2. IsNext(M, n, x) /\ x # n /\ IsNext(M, x, i) /\ i \in M /\ x \in M
  BY <1>1 DEF IsNext
<1>3. m = n => z = x
  OBVIOUS
<1>4. m # n => IsNext(T, m, z)
  BY <1>1 DEF IsSuccs, Follow
<1>5. IAmPredecessorOfKey(m, z, i + 1) /\ M \in SUBSET Int /\ T \in SUBSET Int /\ m \in T /\ i \in T
  <2>1. IAmPredecessorOfKey(m, z, i + 1)
    OBVIOUS
  <2>2. M \in SUBSET Int /\ d \in Int
    BY <1>1
  <2>3. m \in T /\ i \in T
    BY <1>2
  <2>4. T \in SUBSET Int
    BY <2>2
  <2> QED
    BY <2>1, <2>2, <2>3, <2>4
<1> HIDE DEF x, T
<1>6. m # n
  <2>1. SUFFICES ASSUME m = n PROVE FALSE
    OBVIOUS
  <2>2. IsNext(M, m, z) /\ z \in M
    BY <1>2, <1>3, <2>1
  <2>3. m = i
    BY <1>2, <1>5, <2>2, AnsweredSelf
  <2> QED
    BY <2>1, <2>3
<1>7. m = i /\ z \in T
  <2>1. IsNext(T, m, z) /\ z \in T
    BY <1>4, <1>6 DEF IsNext
  <2> QED
    BY <1>5, <2>1, AnsweredSelf
<1>8. z # d
  <2>1. IsNext(T, n, d) /\ n \in T /\ d \in Int
    BY <1>1 DEF T
  <2> QED
    BY <1>4, <1>5, <1>6, <2>1, PrevUnique
<1>9. z \in M /\ IsNext(M, i, z)
  <2>1. IsNext(M \cup {d}, i, z)
    BY <1>4, <1>6, <1>7 DEF T
  <2> QED
    BY <1>1, <1>2, <1>5, <1>7, <1>8, <2>1, NextWithout DEF T
<1>10. Follow(M, n, x, i, z)
  BY <1>2, <1>9 DEF Follow
<1>11. t = [s EXCEPT ![n] = [s[n] EXCEPT ![3] = z]] /\ [s[n] EXCEPT ![3] = z] \in List
  <2>1. n \in Node /\ s[n] \in List /\ z \in Node
    BY <1>1, <1>9
  <2>2. [s[n] EXCEPT ![3] = z] \in List
    BY <2>1 DEF List
  <2>3. t = [s EXCEPT ![n] = [s[n] EXCEPT ![3] = z]]
    BY <2>1
  <2> QED
    BY <2>2, <2>3
<1>12. t[n] = [s[n] EXCEPT ![3] = z] /\ t \in [Node -> List] /\ \A o \in M \ {n} : t[o] = s[o]
  BY <1>1, <1>11
<1>13. t[n][1] = x /\ t[n][2] = i /\ t[n][3] = z
  <2>1. s[n] \in List
    BY <1>1
  <2> QED
    BY <1>12, <2>1 DEF List, x
<1> QED
  BY <1>10, <1>12, <1>13 DEF IsSuccs

\* There is none: n is alone.
LEMMA LookingAlone ==
    ASSUME NEW M \in SUBSET Node, NEW n, NEW d, NEW q0, NEW s \in [Node -> List], NEW p,
           Looking(M, n, q0, s, p, d), s[n][2] = n
    PROVE  IsSuccs(M, n, s[n])
<1>1. /\ n \in M /\ NotTwo(M) /\ IsNext(M, n, s[n][1]) /\ s[n][3] = n
      /\ IF s[n][1] = n THEN s[n][2] = n ELSE IsNext(M, s[n][1], s[n][2])
  BY DEF Looking
<1> DEFINE x == s[n][1]
<1>2. x \in M /\ IsNext(M, n, x) /\ (x = n \/ IsNext(M, x, n)) /\ M \in SUBSET Int
  BY <1>1 DEF IsNext
<1> HIDE DEF x
<1>3. x = n
  <2>1. SUFFICES ASSUME x # n PROVE FALSE
    OBVIOUS
  <2>2. M \subseteq {n, x}
    BY <1>1, <1>2, <2>1, NextPair
  <2> QED
    BY <1>1, <1>2, <2>1, <2>2 DEF NotTwo
<1>4. Follow(M, n, x, n, n)
  BY <1>2, <1>3 DEF Follow
<1> QED
  BY <1>1, <1>4 DEF IsSuccs, x

\* The first three probes fail.
LEMMA LookingStarts ==
    ASSUME NEW M \in SUBSET Node, NEW n \in M, NEW d, NEW s \in [Node -> List], NEW p,
           Broken(M, s, p, d), s[n][1] \notin M,
           NEW t, t = [s EXCEPT ![n] = ShiftLeftErasingIndex(s[n], 1, n)]
    PROVE  Looking(M, n, <<[do |-> "third", at |-> t[n][2], x |-> s[n][1]]>>, t, p, s[n][1])
<1>1. /\ d \in Node /\ d \notin M /\ NotTwo(M) /\ Exact(M \cup {d}, M, s, p)
  BY DEF Broken
<1> DEFINE y == s[n][2]
           z == s[n][3]
           T == M \cup {d}
<1>2. Follow(T, n, s[n][1], y, z)
  BY <1>1 DEF Exact, IsSuccs
<1>3. s[n][1] = d
  BY <1>2 DEF Follow, IsNext
<1>4. t[n] = Three(y, z, n) /\ \A m \in M \ {n} : t[m] = s[m]
  BY ShiftThree
<1>5. t[n][1] = y /\ t[n][2] = z /\ t[n][3] = n
  BY <1>4 DEF Three
<1>6. Follow(T, n, d, y, z) /\ n \in T /\ T \in SUBSET Int /\ M \in SUBSET Int /\ d \in Int /\ d \in T /\ n # d
  BY <1>1, <1>2, <1>3
<1> HIDE DEF y, z, T
<1>7. IsNext(T, n, d) /\ IsNext(T, d, y) /\ (IF y = n THEN z = n ELSE IsNext(T, y, z)) /\ y \in T
  BY <1>6 DEF Follow, IsNext
<1>8. y # d
  <2>1. SUFFICES ASSUME y = d PROVE FALSE
    OBVIOUS
  <2>2. T \subseteq {d}
    BY <1>6, <1>7, <2>1, NextAlone
  <2> QED
    BY <1>6, <2>2
<1>9. y \in M /\ IsNext(M, n, y)
  <2>1. y \in M
    BY <1>7, <1>8 DEF T
  <2>2. IsNext(M \cup {d}, n, d) /\ IsNext(M \cup {d}, d, y)
    BY <1>7 DEF T
  <2> QED
    BY <1>1, <1>6, <2>1, <2>2, NextOver
<1>10. IF y = n THEN z = n ELSE IsNext(M, y, z)
  <2>1. SUFFICES ASSUME y # n PROVE IsNext(M, y, z)
    BY <1>7
  <2>2. IsNext(T, y, z)
    BY <1>7, <2>1
  <2>3. z # d
    BY <1>6, <1>7, <2>1, <2>2, PrevUnique
  <2> QED
    BY <1>6, <1>9, <2>2, <2>3, NextWithout DEF T
<1>11. (\A m \in M : IsPreds(T, m, p[m])) /\ \A m \in M \ {n} : IsSuccs(T, m, t[m])
  BY <1>1, <1>4 DEF Exact, T
<1> QED
  BY <1>1, <1>3, <1>5, <1>7, <1>9, <1>10, <1>11 DEF Looking, T

LEMMA NotTwoWithout ==
    ASSUME NEW M, NEW n \in M, Cardinality(M) # 3
    PROVE  NotTwo(M \ {n})
<1>1. SUFFICES ASSUME NEW i \in M \ {n}, NEW j \in M \ {n}, M \ {n} \subseteq {i, j}, i # j PROVE FALSE
  BY DEF NotTwo
<1>2. M = {n, i, j}
  <2>1. \A o \in M : o \in {n, i, j}
    BY <1>1
  <2>2. n \in M /\ i \in M /\ j \in M
    BY <1>1
  <2> QED
    BY <2>1, <2>2
<1>3. n # i /\ i # j /\ n # j
  BY <1>1
<1>4. Cardinality({n, i, j}) = 3
  BY <1>3, CountThree
<1> QED
  BY <1>2, <1>4

\* t and r agree on what is left of M without n with s and p, the exact lists of M,
\* which has two members or more than three.
Leaves(M, n, s, p, t, r) ==
    /\ M \in SUBSET Node /\ n \in M
    /\ Exact(M, M, s, p)
    /\ Cardinality(M) \notin {1, 3}
    /\ \A m \in M \ {n} : t[m] = s[m] /\ r[m] = p[m]

\* A member n of a settled ring of two nodes, or of more than three, crashes.
LEMMA BrokenStarts ==
    ASSUME NEW M, NEW n, NEW s, NEW p, NEW t, NEW r, Leaves(M, n, s, p, t, r)
    PROVE  Broken(M \ {n}, t, r, n)
<1>a. /\ M \in SUBSET Node /\ n \in M
      /\ Exact(M, M, s, p)
      /\ Cardinality(M) # 1 /\ Cardinality(M) # 3
      /\ \A m \in M \ {n} : t[m] = s[m] /\ r[m] = p[m]
  BY DEF Leaves
<1> DEFINE R == M \ {n}
<1>0. n \in Node \ R /\ R \cup {n} = M /\ M \in SUBSET Int
  BY <1>a
<1>1. NotTwo(R)
  BY <1>a, NotTwoWithout
<1>2. Exact(M, R, t, r)
  BY <1>a DEF Exact
<1>3. \E m \in R : t[m][1] = n
  <2> DEFINE x == p[n][1]
  <2>1. x \in M /\ IsNext(M, x, n)
    BY <1>a DEF Exact, IsPreds, Precede
  <2> HIDE DEF x
  <2>2. x # n
    <3>1. SUFFICES ASSUME x = n PROVE FALSE
      OBVIOUS
    <3>2. M \subseteq {n}
      BY <1>0, <2>1, <3>1, NextAlone
    <3>3. M = {n}
      BY <1>a, <3>2
    <3> QED
      BY <1>a, <3>3, FS_Singleton
  <2>3. t[x][1] = s[x][1] /\ x \in R
    BY <1>a, <2>1, <2>2
  <2>4. IsNext(M, x, s[x][1])
    BY <1>a, <2>1 DEF Exact, IsSuccs, Follow
  <2>5. s[x][1] = n
    BY <1>0, <2>1, <2>4, NextUnique
  <2> QED
    BY <2>3, <2>5
<1> QED
  BY <1>0, <1>1, <1>2, <1>3 DEF Broken

LEMMA ListInit == TypeInv /\ Init => ListInv
<1> SUFFICES ASSUME TypeInv, Init PROVE ListInv
  OBVIOUS
<1>1. Member = {Founder} /\ agent = None /\ todo = <<>>
  BY DEF Init, Member
<1>2. OneAgent
  BY <1>1 DEF Init, OneAgent
<1>3. succ[Founder] = Alone(Founder) /\ pred[Founder] = Alone(Founder)
  BY DEF Init
<1> DEFINE f == Founder
           l == Alone(f)
<1>4. l[1] = f /\ l[2] = f /\ l[3] = f
  BY DEF Alone
<1> HIDE DEF l
<1>5. IsNext({f}, f, f) /\ IsPreds({f}, f, l) /\ IsSuccs({f}, f, l)
  <2>1. IsNext({f}, f, f)
    BY DEF IsNext, Passed
  <2> HIDE DEF f
  <2>2. Follow({f}, f, f, f, f) /\ Precede({f}, f, f, f, f)
    BY <2>1 DEF Follow, Precede
  <2> QED
    BY <1>4, <2>1, <2>2 DEF IsSuccs, IsPreds
<1>6. Exact({f}, {f}, succ, pred)
  BY <1>3, <1>5 DEF Exact, l
<1>7. Settling({f}, <<>>, succ, pred)
  BY <1>6, SettlingDone
<1>8. {f} \cup ({None} \ {None}) = {f}
  OBVIOUS
<1>9. Standing({f}, None, <<>>, succ, pred)
  BY <1>7, <1>8 DEF Standing
<1> QED
  BY <1>1, <1>2, <1>9 DEF ListInv

\* With nobody at work and no crashed node in the lists the lists are exact.
LEMMA QuietExact ==
    TypeInv /\ ListInv /\ Quiet => Exact(Member, Member, succ, pred)
<1> SUFFICES ASSUME TypeInv, ListInv, Quiet PROVE Exact(Member, Member, succ, pred)
  OBVIOUS
<1>1. agent = None /\ Gone = {} /\ todo = <<>> /\ OneAgent
  BY DEF Quiet, ListInv, OneAgent
<1>2. status \in [Node -> {"down", "joining", "member"}]
  BY TypeParts DEF TypeInv
<1>3. ASSUME NEW d \in Node, Broken(Member, succ, pred, d) PROVE FALSE
  <2>1. d \notin Member
    BY <1>3 DEF Broken
  <2>2. PICK n \in Member : succ[n][1] = d
    BY <1>3 DEF Broken
  <2>3. status[d] # "joining" /\ status[d] # "member"
    BY <1>1, <2>1 DEF OneAgent, Member
  <2>4. status[d] = "down"
    BY <1>2, <2>3
  <2>5. 1 \in 1 .. ListLen
    OBVIOUS
  <2>6. d \in Gone
    BY <2>2, <2>4, <2>5 DEF Gone
  <2> QED
    BY <1>1, <2>6
<1>4. Standing(Member, None, <<>>, succ, pred)
  BY <1>1 DEF ListInv
<1>5. Settling(Member \cup ({None} \ {None}), <<>>, succ, pred)
  BY <1>3, <1>4 DEF Standing
<1>6. Member \cup ({None} \ {None}) = Member
  OBVIOUS
<1> QED
  BY <1>5, <1>6, SettlingDone

LEMMA HeadIn ==
    ASSUME NEW q \in Seq(Call), q # <<>> PROVE Head(q) \in Calls(q)
BY CallsTail

\* The second slot of a list.
Second(l) == l[2]

\* The next call of n is the lookup of a third successor.
ThirdCall(M, n, q, s, p) ==
    Looking(M, n, q, s, p, Head(q).x) /\ Head(q).x \in Node /\ Head(q).at = Second(s[n])

\* The next call tells which case it is.
LEMMA StandingHead ==
    ASSUME NEW M, NEW n \in Node, NEW q \in Seq(Call), q # <<>>, NEW s, NEW p, Standing(M, n, q, s, p)
    PROVE  /\ Head(q).do \notin {"lists", "third"} => Settling(M \cup {n}, q, s, p)
           /\ Head(q).do = "lists" => Asking(M, n, q, s, p, Head(q).at)
           /\ Head(q).do = "third" => ThirdCall(M, n, q, s, p)
<1>0. n # None /\ M \cup ({n} \ {None}) = M \cup {n}
  OBVIOUS
<1>1. Settling(M \cup {n}, q, s, p) => Head(q).do \notin {"lists", "third"}
  BY HeadIn DEF Settling
<1>2. ASSUME NEW m, Asking(M, n, q, s, p, m)
      PROVE  Head(q).do = "lists" /\ Head(q).at = m
  <2>1. q = <<[do |-> "lists", at |-> m]>>
    BY <1>2 DEF Asking
  <2>2. Head(q) = [do |-> "lists", at |-> m]
    BY <2>1
  <2> QED
    BY <2>2
<1>3. ASSUME NEW d, Looking(M, n, q, s, p, d)
      PROVE  Head(q).do = "third" /\ Head(q).at = Second(s[n]) /\ Head(q).x = d
  <2> DEFINE i == s[n][2]
  <2>1. q = <<[do |-> "third", at |-> i, x |-> d]>>
    BY <1>3 DEF Looking
  <2> HIDE DEF i
  <2>2. Head(q) = [do |-> "third", at |-> i, x |-> d]
    BY <2>1
  <2> QED
    BY <2>2 DEF i, Second
<1>4. \/ Settling(M \cup {n}, q, s, p)
      \/ \E m \in Node : Asking(M, n, q, s, p, m)
      \/ \E d \in Node : Looking(M, n, q, s, p, d)
  BY <1>0 DEF Standing
<1>5. Head(q).do = "third" => ThirdCall(M, n, q, s, p)
  BY <1>1, <1>2, <1>3, <1>4 DEF ThirdCall
<1> QED
  BY <1>1, <1>2, <1>3, <1>4, <1>5

\* What is settling goes on settling.
LEMMA StandingGoesOn ==
    ASSUME NEW M, NEW n \in Node, NEW q, NEW s, NEW p, Settling(M \cup {n}, q, s, p)
    PROVE  Standing(M, n, q, s, p)
<1>1. M \cup ({n} \ {None}) = M \cup {n}
  OBVIOUS
<1> QED
  BY <1>1 DEF Standing

-----------------------------------------------------------------------------
(* The steps *)

LEMMA QuietStarts ==
    ASSUME CrashLimit = 1, Cardinality(Gone) < CrashLimit
    PROVE  Gone = {}
<1>1. IsFiniteSet(Node) /\ Gone \subseteq Node
  BY DEF Gone
<1>2. IsFiniteSet(Gone) /\ Cardinality(Gone) \in Nat
  BY <1>1, FS_Subset, FS_CardinalityType
<1>3. Cardinality(Gone) = 0
  BY <1>2
<1> QED
  BY <1>2, <1>3, FS_EmptySet

LEMMA CrashBreaks ==
    ASSUME CrashLimit = 1, 3 \notin CrashSizes, TypeInv, ListInv, NEW n \in Node, Crash(n)
    PROVE  /\ Exact(Member, Member, succ, pred) /\ todo = <<>> /\ n \in Member
           /\ Member' = Member \ {n} /\ Broken(Member', succ', pred', n)
<1>1. agent = None /\ agent' = None /\ todo' = todo /\ n \in Member /\ Gone = {}
  BY QuietStarts DEF Crash
<1>2. Exact(Member, Member, succ, pred) /\ todo = <<>> /\ OneAgent
  BY <1>1, QuietExact DEF Quiet, ListInv, OneAgent
<1>3. status \in [Node -> {"down", "joining", "member"}] /\ succ \in [Node -> List] /\ pred \in [Node -> List]
  BY TypeParts DEF TypeInv, ListsOK
<1>4. status' = [status EXCEPT ![n] = "down"] /\ succ' = [succ EXCEPT ![n] = Alone(n)]
      /\ pred' = [pred EXCEPT ![n] = Alone(n)]
  BY DEF Crash
<1>5. Member' = Member \ {n} /\ Member \in SUBSET Node
  BY <1>3, <1>4 DEF Member
<1>6. Cardinality(Member) # 1 /\ Cardinality(Member) # 3
  BY QuietAssumption DEF Crash
<1>7. \A m \in Member \ {n} : succ'[m] = succ[m] /\ pred'[m] = pred[m]
  BY <1>3, <1>4
<1> DEFINE M == Member
<1>8. Broken(M \ {n}, succ', pred', n)
  <2> HIDE DEF M
  <2>1. M \in SUBSET Node /\ n \in M /\ Exact(M, M, succ, pred) /\ Cardinality(M) # 1 /\ Cardinality(M) # 3
    BY <1>1, <1>2, <1>5, <1>6 DEF M
  <2>2. \A m \in M \ {n} : succ'[m] = succ[m] /\ pred'[m] = pred[m]
    BY <1>7 DEF M
  <2> QED
    <3> DEFINE t == succ'
               r == pred'
    <3>1. \A m \in M \ {n} : t[m] = succ[m] /\ r[m] = pred[m]
      BY <2>2
    <3> HIDE DEF t, r
    <3>2. Leaves(M, n, succ, pred, t, r)
      BY <2>1, <3>1 DEF Leaves
    <3>3. Broken(M \ {n}, t, r, n)
      BY <3>2, BrokenStarts, Zenon
    <3> QED
      BY <3>3 DEF t, r
<1> QED
  BY <1>1, <1>2, <1>5, <1>8

LEMMA CrashStep ==
    ASSUME CrashLimit = 1, 3 \notin CrashSizes, TypeInv, ListInv, NEW n \in Node, Crash(n)
    PROVE  ListInv'
<1>1. agent = None /\ agent' = None /\ todo' = todo
  BY DEF Crash
<1>2. todo = <<>> /\ OneAgent
  BY <1>1 DEF ListInv, OneAgent
<1>3. status \in [Node -> {"down", "joining", "member"}]
  BY TypeParts DEF TypeInv
<1>4. status' = [status EXCEPT ![n] = "down"]
  BY DEF Crash
<1>8. Broken(Member', succ', pred', n)
  BY CrashBreaks
<1>9. Standing(Member', agent', todo', succ', pred')
  BY <1>1, <1>8 DEF Standing
<1>10. OneAgent'
  <2>1. \A m \in Node : status'[m] # "joining" /\ m # agent'
    BY <1>1, <1>2, <1>3, <1>4 DEF OneAgent
  <2> QED
    BY <1>1, <1>2, <2>1 DEF OneAgent
<1> QED
  BY <1>9, <1>10 DEF ListInv

LEMMA StartJoinAsks ==
    ASSUME EarlyRejoin = FALSE, TypeInv, ListInv, NEW n \in Node, NEW e \in Node, StartJoin(n, e)
    PROVE  /\ Exact(Member, Member, succ, pred) /\ Member' = Member /\ n \notin Member
           /\ \E m \in Member : /\ Asking(Member, n, <<[do |-> "lists", at |-> m]>>, succ, pred, m)
                                /\ todo' = <<[do |-> "lists", at |-> m]>>
<1>1. agent = None /\ Gone = {} /\ status[n] = "down" /\ agent' = n /\ succ' = succ /\ pred' = pred
  BY DEF StartJoin
<1>2. Exact(Member, Member, succ, pred) /\ OneAgent
  BY <1>1, QuietExact DEF Quiet, ListInv
<1> DEFINE m == PredecessorOf(e, n)
<1>3. m \in Member /\ IAmPredecessorOfKey(m, succ[m][1], n) /\ todo' = <<[do |-> "lists", at |-> m]>>
  BY DEF StartJoin, Answered
<1> HIDE DEF m
<1>4. status \in [Node -> {"down", "joining", "member"}] /\ status' = [status EXCEPT ![n] = "joining"]
  BY TypeParts DEF TypeInv, StartJoin
<1>5. Member' = Member /\ Member \in SUBSET Node /\ n \notin Member
  BY <1>1, <1>4 DEF Member
<1> DEFINE M == Member
<1>6. Asking(M, n, <<[do |-> "lists", at |-> m]>>, succ, pred, m)
  <2>1. M \in SUBSET Node /\ n \in Node \ M /\ Exact(M, M, succ, pred) /\ m \in M
    BY <1>2, <1>3, <1>5
  <2> HIDE DEF M
  <2> QED
    BY <1>3, <2>1, AskingStarts
<1> QED
  BY <1>2, <1>3, <1>5, <1>6

LEMMA StartJoinStep ==
    ASSUME EarlyRejoin = FALSE, TypeInv, ListInv, NEW n \in Node, NEW e \in Node, StartJoin(n, e)
    PROVE  ListInv'
<1>1. agent = None /\ status[n] = "down" /\ agent' = n /\ succ' = succ /\ pred' = pred
  BY DEF StartJoin
<1>2. OneAgent
  BY DEF ListInv
<1>4. status \in [Node -> {"down", "joining", "member"}] /\ status' = [status EXCEPT ![n] = "joining"]
  BY TypeParts DEF TypeInv, StartJoin
<1>5. Member' = Member /\ n \notin Member
  BY StartJoinAsks
<1>6. PICK m \in Member : /\ Asking(Member, n, <<[do |-> "lists", at |-> m]>>, succ, pred, m)
                          /\ todo' = <<[do |-> "lists", at |-> m]>>
  BY StartJoinAsks
<1>7. Standing(Member', agent', todo', succ', pred')
  <2>1. m \in Node /\ n # None
    BY DEF Member
  <2>2. Standing(Member, n, <<[do |-> "lists", at |-> m]>>, succ, pred)
    BY <1>6, <2>1 DEF Standing
  <2> QED
    BY <1>1, <1>5, <1>6, <2>2
<1>8. OneAgent'
  <2>1. \A o \in Node : status'[o] = "joining" <=> o = n
    BY <1>1, <1>2, <1>4 DEF OneAgent
  <2>2. n \notin Member' /\ agent' # None
    BY <1>1, <1>5
  <2> QED
    BY <1>1, <2>1, <2>2 DEF OneAgent
<1> QED
  BY <1>7, <1>8 DEF ListInv

LEMMA DetectDownLooks ==
    ASSUME TypeInv, ListInv, NEW n \in Node, DetectDown(n)
    PROVE  /\ n \in Member /\ succ[n][1] \in Node \ Member /\ Member' = Member
           /\ Looking(Member, n, todo', succ', pred', succ[n][1])
<1>1. agent = None /\ agent' = n /\ n \in Member /\ status[succ[n][1]] = "down" /\ status' = status /\ pred' = pred
  BY DEF DetectDown
<1>2. succ \in [Node -> List] /\ Member \in SUBSET Node /\ Member' = Member
  BY <1>1, TypeParts DEF TypeInv, ListsOK, Member
<1>3. succ[n][1] \notin Member
  BY <1>1 DEF Member
<1>4. OneAgent /\ todo = <<>> /\ Standing(Member, None, <<>>, succ, pred)
  BY <1>1 DEF ListInv, OneAgent
<1> DEFINE M == Member
<1>5. \E d \in Node : Broken(M, succ, pred, d)
  <2>1. SUFFICES ASSUME Settling(M \cup ({None} \ {None}), <<>>, succ, pred) PROVE FALSE
    BY <1>4 DEF Standing
  <2>2. M \cup ({None} \ {None}) = M
    OBVIOUS
  <2>3. Exact(M, M, succ, pred)
    BY <2>1, <2>2, SettlingDone
  <2>4. succ[n][1] \in M
    BY <1>1, <2>3 DEF Exact, IsSuccs, Follow, IsNext
  <2> QED
    BY <1>3, <2>4
<1>6. PICK d \in Node : Broken(M, succ, pred, d)
  BY <1>5
<1>7. succ' = [succ EXCEPT ![n] = ShiftLeftErasingIndex(succ[n], 1, n)]
  BY DEF DetectDown
<1>8. todo' = <<[do |-> "third", at |-> succ'[n][2], x |-> succ[n][1]]>>
  BY DEF DetectDown
<1> DEFINE x == succ[n][1]
<1>9. Looking(M, n, todo', succ', pred', x)
  <2>1. M \in SUBSET Node /\ n \in M /\ succ[n][1] \notin M
    BY <1>1, <1>2, <1>3
  <2> HIDE DEF M
  <2> QED
    BY <1>1, <1>2, <1>6, <1>7, <1>8, <2>1, LookingStarts
<1>10. x \in Node
  BY <1>2 DEF List
<1> QED
  BY <1>1, <1>2, <1>3, <1>9, <1>10

LEMMA DetectDownStep ==
    ASSUME TypeInv, ListInv, NEW n \in Node, DetectDown(n)
    PROVE  ListInv'
<1>1. agent = None /\ agent' = n /\ status' = status /\ n # None
  BY DEF DetectDown
<1> DEFINE x == succ[n][1]
<1>2. n \in Member /\ x \in Node /\ Member' = Member /\ Looking(Member, n, todo', succ', pred', x)
  BY DetectDownLooks
<1> HIDE DEF x
<1>3. Standing(Member', n, todo', succ', pred')
  BY <1>1, <1>2 DEF Standing
<1>4. OneAgent'
  BY <1>1, <1>2 DEF OneAgent, ListInv
<1> QED
  BY <1>1, <1>3, <1>4 DEF ListInv

\* A step of the agent in which the members stay the same.
LEMMA SameMembers ==
    ASSUME ListInv, NEW n \in Node, agent = n, agent' = n, status' = status,
           Standing(Member, n, todo', succ', pred')
    PROVE  ListInv'
<1>1. Member' = Member
  BY DEF Member
<1>2. OneAgent'
  BY <1>1 DEF ListInv, OneAgent
<1> QED
  BY <1>1, <1>2 DEF ListInv

LEMMA TakeListsAsks ==
    ASSUME TypeInv, ListInv, NEW n \in Node, TakeLists(n)
    PROVE  Asking(Member, n, todo, succ, pred, Head(todo).at) /\ Settling(Member \cup {n}, todo', succ', pred')
<1> DEFINE m == Head(todo).at
<1>1. Calling(n, {"lists"}) /\ agent = n /\ agent' = n /\ status' = status
  BY DEF TakeLists, Calling
<1>2. /\ succ' = [succ EXCEPT ![n] = JoinSuccessors(n, m, succ[m])]
      /\ pred' = [pred EXCEPT ![n] = JoinPredecessors(n, m, pred[m])]
      /\ todo' = JoinCalls(n, succ'[n], pred'[n])
  BY DEF TakeLists
<1>3. todo \in Seq(Call) /\ todo # <<>> /\ Head(todo).do = "lists" /\ succ \in [Node -> List] /\ pred \in [Node -> List]
  BY <1>1, CallingHead, TypeParts DEF TypeInv, ListsOK
<1> HIDE DEF m
<1>4. Asking(Member, n, todo, succ, pred, m)
  <2>1. Standing(Member, n, todo, succ, pred)
    BY <1>1 DEF ListInv
  <2> QED
    BY <1>3, <2>1, StandingHead DEF m
<1> DEFINE M == Member
<1>5. Settling(M \cup {n}, todo', succ', pred')
  <2>1. M \in SUBSET Node /\ Asking(M, n, todo, succ, pred, m)
    BY <1>4 DEF Member
  <2> HIDE DEF M
  <2> QED
    BY <1>2, <1>3, <2>1, AskingEnds
<1> QED
  BY <1>4, <1>5 DEF m

LEMMA TakeListsStep ==
    ASSUME TypeInv, ListInv, NEW n \in Node, TakeLists(n)
    PROVE  ListInv'
<1>1. agent = n /\ agent' = n /\ status' = status
  BY DEF TakeLists, Calling
<1>2. Settling(Member \cup {n}, todo', succ', pred')
  BY TakeListsAsks
<1> QED
  BY <1>1, <1>2, StandingGoesOn, SameMembers

\* The repair is planned once the successors of n are known.
LEMMA PlanRepairStep ==
    ASSUME TypeInv, ListInv, NEW n \in Node, NEW d \in Node, agent = n,
           Looking(Member, n, todo, succ, pred, d),
           succ' \in [Node -> List], \A m \in Member \ {n} : succ'[m] = succ[m], IsSuccs(Member, n, succ'[n]),
           PlanRepair(n, d)
    PROVE  ListInv'
<1>1. agent' = n /\ status' = status /\ pred' = [pred EXCEPT ![n] = ReplaceFirst(pred[n], d, n)]
      /\ todo' = RepairCalls(n, succ'[n], pred'[n], d)
  BY DEF PlanRepair
<1>2. succ \in [Node -> List] /\ pred \in [Node -> List]
  BY TypeParts DEF TypeInv, ListsOK
<1> DEFINE M == Member
<1>3. /\ M \in SUBSET Node /\ Looking(M, n, todo, succ, pred, d)
      /\ \A m \in M \ {n} : succ'[m] = succ[m]
      /\ IsSuccs(M, n, succ'[n])
  BY DEF Member
<1>4. Settling(M, todo', succ', pred')
  <2> HIDE DEF M
  <2> QED
    BY <1>1, <1>2, <1>3, LookingEnds
<1>5. M \cup {n} = M
  BY <1>3 DEF Looking
<1>6. Standing(M, n, todo', succ', pred')
  <2> HIDE DEF M
  <2> QED
    BY <1>4, <1>5, StandingGoesOn
<1> QED
  BY <1>1, <1>6, SameMembers

\* t are the successors when those of n are mended.
SuccsMended(M, n, q, s, p, d, t) ==
    /\ Looking(M, n, q, s, p, d) /\ d \in Node
    /\ t \in [Node -> List] /\ (\A o \in M \ {n} : t[o] = s[o]) /\ IsSuccs(M, n, t[n])

LEMMA ThirdFound ==
    ASSUME NEW M \in SUBSET Node, NEW n \in Node, NEW q \in Seq(Call), q # <<>>, Head(q).do = "third",
           NEW s \in [Node -> List], NEW p, Standing(M, n, q, s, p),
           NEW d, d = Head(q).x, NEW i, i = Head(q).at, i # n,
           NEW m \in M, NEW z, z = s[m][1], IAmPredecessorOfKey(m, z, i + 1),
           NEW t, t = [s EXCEPT ![n][3] = z]
    PROVE  SuccsMended(M, n, q, s, p, d, t)
<1>1. Looking(M, n, q, s, p, d) /\ d \in Node /\ i = Second(s[n])
  <2>1. ThirdCall(M, n, q, s, p)
    BY StandingHead, Zenon
  <2> QED
    BY <2>1 DEF ThirdCall
<1>2. i = s[n][2]
  BY <1>1 DEF Second
<1> QED
  BY <1>1, <1>2, LookingThird, ZenonT(60) DEF SuccsMended

LEMMA ThirdMissing ==
    ASSUME NEW M \in SUBSET Node, NEW n \in Node, NEW q \in Seq(Call), q # <<>>, Head(q).do = "third",
           NEW s \in [Node -> List], NEW p, Standing(M, n, q, s, p),
           NEW d, d = Head(q).x, Head(q).at = n
    PROVE  Looking(M, n, q, s, p, d) /\ d \in Node /\ IsSuccs(M, n, s[n])
<1>1. Looking(M, n, q, s, p, d) /\ d \in Node /\ n = Second(s[n])
  <2>1. ThirdCall(M, n, q, s, p)
    BY StandingHead, Zenon
  <2> QED
    BY <2>1 DEF ThirdCall
<1>2. n = s[n][2]
  BY <1>1 DEF Second
<1> QED
  BY <1>1, <1>2, LookingAlone

\* The successors of n are mended, and the rest of the repair is planned.
ThirdKnown(n, d) ==
    /\ agent = n /\ PlanRepair(n, d)
    /\ SuccsMended(Member, n, todo, succ, pred, d, succ')

LEMMA FindThirdMends ==
    ASSUME TypeInv, ListInv, NEW n \in Node, FindThird(n)
    PROVE  ThirdKnown(n, Head(todo).x)
<1>1. Calling(n, {"third"}) /\ agent = n /\ Head(todo).at # n /\ PlanRepair(n, Head(todo).x)
  BY DEF FindThird, Calling
<1> DEFINE i == Head(todo).at
           d == Head(todo).x
           m == PredecessorOf(i, i + 1)
           z == succ[m][1]
           t == succ'
           M == Member
<1>2. m \in M /\ IAmPredecessorOfKey(m, z, i + 1) /\ t = [succ EXCEPT ![n][3] = z]
  BY DEF FindThird, Answered, SuccessorOf
<1>3. todo \in Seq(Call) /\ todo # <<>> /\ Head(todo).do = "third"
  BY <1>1, CallingHead, TypeParts DEF TypeInv
<1>4. Standing(M, n, todo, succ, pred) /\ M \in SUBSET Node /\ ListsOK
  BY <1>1, TypeParts DEF ListInv, Member, TypeInv, ListsOK
<1>5. i # n /\ i = Head(todo).at /\ d = Head(todo).x /\ z = succ[m][1]
  BY <1>1
<1> HIDE DEF i, d, m, z, t, M
<1>6. SuccsMended(M, n, todo, succ, pred, d, t)
  BY <1>2, <1>3, <1>4, <1>5, ThirdFound, Zenon DEF ListsOK
<1> QED
  BY <1>1, <1>6 DEF M, t, d, ThirdKnown

LEMMA NoThirdMends ==
    ASSUME TypeInv, ListInv, NEW n \in Node, NoThird(n)
    PROVE  ThirdKnown(n, Head(todo).x)
<1>1. Calling(n, {"third"}) /\ agent = n /\ Head(todo).at = n /\ PlanRepair(n, Head(todo).x) /\ succ' = succ
  BY DEF NoThird, Calling
<1> DEFINE d == Head(todo).x
           M == Member
<1>2. todo \in Seq(Call) /\ todo # <<>> /\ Head(todo).do = "third"
  BY <1>1, CallingHead, TypeParts DEF TypeInv
<1>3. Standing(M, n, todo, succ, pred) /\ M \in SUBSET Node /\ ListsOK
  BY <1>1, TypeParts DEF ListInv, Member, TypeInv, ListsOK
<1>4. Head(todo).at = n /\ d = Head(todo).x
  BY <1>1
<1> HIDE DEF d, M
<1>5. Looking(M, n, todo, succ, pred, d) /\ d \in Node /\ IsSuccs(M, n, succ[n])
  BY <1>2, <1>3, <1>4, ThirdMissing DEF ListsOK
<1>6. succ' \in [Node -> List] /\ (\A m \in M \ {n} : succ'[m] = succ[m]) /\ IsSuccs(M, n, succ'[n])
  BY <1>1, <1>3, <1>5 DEF ListsOK
<1> QED
  BY <1>1, <1>5, <1>6 DEF M, d, ThirdKnown, SuccsMended

LEMMA ThirdStep ==
    ASSUME TypeInv, ListInv, NEW n \in Node, FindThird(n) \/ NoThird(n)
    PROVE  ListInv'
<1> DEFINE d == Head(todo).x
<1>1. ThirdKnown(n, d)
  BY FindThirdMends, NoThirdMends
<1> HIDE DEF d
<1> QED
  BY <1>1, PlanRepairStep DEF ThirdKnown, SuccsMended

LEMMA ChangeSuccessorsStep ==
    ASSUME TypeInv, ListInv, NEW n \in Node, ChangeSuccessors(n)
    PROVE  ListInv'
<1> DEFINE c == Head(todo)
           R == Member \cup {n}
<1>1. Calling(n, {"insert succesor", "deprecate succesor"}) /\ agent = n /\ agent' = n /\ status' = status
      /\ pred' = pred /\ todo' = Tail(todo)
  BY DEF ChangeSuccessors, Calling
<1>2. succ' = [succ EXCEPT ![c.at] = IF c.do = "insert succesor" THEN InsertSuccessor(c.at, succ[c.at], c.x)
                                     ELSE Deprecate(c.at, succ[c.at], c.x)]
  BY DEF ChangeSuccessors
<1>3. todo \in Seq(Call) /\ todo # <<>> /\ c.do \in {"insert succesor", "deprecate succesor"} /\ c.at \in Node
      /\ succ \in [Node -> List] /\ R \in SUBSET Node
  BY <1>1, CallingHead, TypeParts DEF TypeInv, ListsOK, Member
<1>4. Settling(R, todo, succ, pred)
  BY <1>1, <1>3, StandingHead DEF ListInv
<1>5. Settling(R, Tail(todo), succ', pred)
  <2>1. c = Head(todo)
    OBVIOUS
  <2> HIDE DEF c, R
  <2> QED
    BY <1>2, <1>3, <1>4, <2>1, SettlingSuccs
<1> QED
  BY <1>1, <1>5, StandingGoesOn, SameMembers

LEMMA ChangePredecessorsStep ==
    ASSUME TypeInv, ListInv, NEW n \in Node, ChangePredecessors(n)
    PROVE  ListInv'
<1> DEFINE c == Head(todo)
           R == Member \cup {n}
<1>1. Calling(n, {"insert predecessor", "deprecate predecessor"}) /\ agent = n /\ agent' = n /\ status' = status
      /\ succ' = succ /\ todo' = Tail(todo)
  BY DEF ChangePredecessors, Calling
<1>2. pred' = [pred EXCEPT ![c.at] = IF c.do = "insert predecessor" THEN InsertPredecessor(c.at, pred[c.at], c.x)
                                     ELSE Deprecate(c.at, pred[c.at], c.x)]
  BY DEF ChangePredecessors
<1>3. todo \in Seq(Call) /\ todo # <<>> /\ c.do \in {"insert predecessor", "deprecate predecessor"} /\ c.at \in Node
      /\ pred \in [Node -> List] /\ R \in SUBSET Node
  BY <1>1, CallingHead, TypeParts DEF TypeInv, ListsOK, Member
<1>4. Settling(R, todo, succ, pred)
  BY <1>1, <1>3, StandingHead DEF ListInv
<1>5. Settling(R, Tail(todo), succ, pred')
  <2>1. c = Head(todo)
    OBVIOUS
  <2> HIDE DEF c, R
  <2> QED
    BY <1>2, <1>3, <1>4, <2>1, SettlingPreds
<1> QED
  BY <1>1, <1>5, StandingGoesOn, SameMembers

LEMMA ListKeysStep ==
    ASSUME TypeInv, ListInv, NEW n \in Node, ListKeys(n)
    PROVE  ListInv'
<1> DEFINE c == Head(todo)
           R == Member \cup {n}
           K == KeysInRange(c.at, c.a, c.b)
           ks == Seqs!SetToSeq(K)
           f == Seqs!FlattenSeq([i \in 1 .. Len(ks) |-> MoveFile(c, ks[i])])
<1>1. Calling(n, {"keys"}) /\ agent = n /\ agent' = n /\ status' = status /\ succ' = succ /\ pred' = pred
  BY DEF ListKeys, Calling
<1>2. todo' = f \o Tail(todo)
  BY DEF ListKeys
<1>3. todo \in Seq(Call) /\ todo # <<>> /\ c.do = "keys" /\ c \in Call /\ Tail(todo) \in Seq(Call)
  BY <1>1, CallingHead DEF TypeInv, TypeOK
<1>4. c \in KeysCall
  BY <1>3, CallTypes
<1>5. K \in SUBSET Name
  BY DEF KeysInRange
<1>6. Settling(R, todo, succ, pred)
  BY <1>1, <1>3, StandingHead DEF ListInv
<1> HIDE DEF K
<1>7. f \in FileCalls
  BY <1>4, <1>5, KeysCalls
<1> HIDE DEF f, ks
<1>8. f \in Seq(FileCall)
  BY <1>7 DEF FileCalls
<1>9. Settling(R, Tail(todo), succ, pred)
  <2>1. Moving(Head(todo))
    BY <1>3 DEF Moving
  <2> HIDE DEF R, c
  <2> QED
    BY <1>3, <1>6, <2>1, SettlingTail
<1>10. Settling(R, f \o Tail(todo), succ, pred)
  <2> HIDE DEF R, c
  <2> QED
    BY <1>3, <1>8, <1>9, SettlingFiles
<1> QED
  BY <1>1, <1>2, <1>10, StandingGoesOn, SameMembers

\* The calls that read and write files.
LEMMA FileStep ==
    ASSUME TypeInv, ListInv, NEW n \in Node, FetchFile(n) \/ GetFile(n) \/ PutFile(n) \/ DropFile(n)
    PROVE  ListInv'
<1> DEFINE R == Member \cup {n}
<1>1. agent = n /\ agent' = n /\ status' = status /\ succ' = succ /\ pred' = pred /\ todo' = Tail(todo)
      /\ todo # <<>> /\ Head(todo).do \in {"force get", "get", "put", "drop"}
  BY DEF FetchFile, GetFile, PutFile, DropFile, Calling
<1>2. todo \in Seq(Call)
  BY DEF TypeInv, TypeOK
<1>3. Settling(R, todo, succ, pred) /\ Moving(Head(todo))
  BY <1>1, <1>2, StandingHead DEF ListInv, Moving
<1>4. Settling(R, Tail(todo), succ, pred)
  <2> HIDE DEF R
  <2> QED
    BY <1>1, <1>2, <1>3, SettlingTail
<1> QED
  BY <1>1, <1>4, StandingGoesOn, SameMembers

LEMMA FinishStep ==
    ASSUME TypeInv, ListInv, NEW n \in Node, Finish(n)
    PROVE  ListInv'
<1>1. agent = n /\ agent' = None /\ todo = <<>> /\ todo' = <<>> /\ succ' = succ /\ pred' = pred
      /\ status' = [status EXCEPT ![n] = "member"] /\ n # None
  BY DEF Finish
<1>2. status \in [Node -> {"down", "joining", "member"}]
  BY TypeParts DEF TypeInv
<1>3. Member' = Member \cup {n}
  BY <1>1, <1>2 DEF Member
<1> DEFINE M == Member
<1>4. Standing(M, n, <<>>, succ, pred)
  BY <1>1 DEF ListInv
<1> HIDE DEF M
<1>5. Settling(M \cup ({n} \ {None}), <<>>, succ, pred)
  <2>1. \A m : ~Asking(M, n, <<>>, succ, pred, m)
    BY DEF Asking
  <2>2. \A d : ~Looking(M, n, <<>>, succ, pred, d)
    BY DEF Looking
  <2> QED
    BY <1>1, <1>4, <2>1, <2>2 DEF Standing
<1>6. M \cup ({n} \ {None}) = (M \cup {n}) \cup ({None} \ {None})
  BY <1>1
<1>7. Standing(M \cup {n}, None, <<>>, succ, pred)
  BY <1>5, <1>6 DEF Standing
<1>8. Standing(Member', agent', todo', succ', pred')
  BY <1>1, <1>3, <1>7 DEF M
<1>9. OneAgent'
  <2>1. \A m \in Node : status'[m] # "joining" /\ m # agent'
    BY <1>1, <1>2, <1>3 DEF ListInv, OneAgent, Member
  <2> QED
    BY <1>1, <2>1 DEF OneAgent
<1> QED
  BY <1>8, <1>9 DEF ListInv

\* Neither the lists nor the calls change.
LEMMA ListStays ==
    ASSUME ListInv, UNCHANGED <<status, succ, pred, agent, todo>>
    PROVE  ListInv'
BY DEF ListInv, OneAgent, Member

\* One crash at a time, not in a ring of three, and no start before its repair.
QuietEnough == CrashLimit = 1 /\ EarlyRejoin = FALSE /\ 3 \notin CrashSizes

LEMMA ListStep ==
    ASSUME QuietEnough, TypeInv, ListInv, [Next]_vars
    PROVE  ListInv'
<1>1. ASSUME NEW e \in Node, NEW k \in Name, NEW v \in Value \cup {Absent}, Write(e, k, v)
      PROVE  ListInv'
  BY <1>1, ListStays DEF Write
<1>2. CASE UNCHANGED vars
  BY <1>2, ListStays DEF vars
<1>3. ASSUME NEW n \in Node, Crash(n) PROVE ListInv'
  BY <1>3, CrashStep DEF QuietEnough
<1>4. ASSUME NEW n \in Node, NEW e \in Node, StartJoin(n, e) PROVE ListInv'
  BY <1>4, StartJoinStep DEF QuietEnough
<1>5. ASSUME NEW n \in Node, DetectDown(n) PROVE ListInv'
  BY <1>5, DetectDownStep
<1>6. ASSUME NEW n \in Node, AgentStep(n) PROVE ListInv'
  BY <1>6, TakeListsStep, ThirdStep, ChangeSuccessorsStep, ChangePredecessorsStep,
     ListKeysStep, FileStep, FinishStep DEF AgentStep
<1> QED
  BY <1>1, <1>2, <1>3, <1>4, <1>5, <1>6 DEF Next

\* What Exact says of a list is what the reference ring says it is.
LEMMA ExactLists ==
    ASSUME NEW M \in SUBSET Node, NEW s \in [Node -> List], NEW p \in [Node -> List], Exact(M, M, s, p),
           NEW n \in M
    PROVE  s[n] = Ref!ExactSuccessors(M, n) /\ p[n] = Ref!ExactPredecessors(M, n)
<1>1. IsSuccs(M, n, s[n]) /\ IsPreds(M, n, p[n]) /\ s[n] \in List /\ p[n] \in List
  BY DEF Exact
<1> DEFINE l == s[n]
           r == p[n]
<1>2. l \in List /\ r \in List /\ Follow(M, n, l[1], l[2], l[3]) /\ Precede(M, n, r[1], r[2], r[3])
  BY <1>1 DEF IsSuccs, IsPreds
<1> HIDE DEF l, r
<1>3. l = Three(l[1], l[2], l[3]) /\ r = Three(r[1], r[2], r[3])
  BY <1>2, ThreeSame
<1>4. Ref!ExactSuccessors(M, n) = Three(l[1], l[2], l[3])
  BY <1>2, FollowExact DEF Three
<1>5. Ref!ExactPredecessors(M, n) = Three(r[1], r[2], r[3])
  BY <1>2, PrecedeExact DEF Three
<1> QED
  BY <1>3, <1>4, <1>5 DEF l, r

LEMMA ListsExact ==
    TypeInv /\ ListInv => SuccessorsExact /\ PredecessorsExact
<1>1. SUFFICES ASSUME TypeInv, ListInv, Quiet
               PROVE  \A n \in Member : /\ succ[n] = Ref!ExactSuccessors(Member, n)
                                        /\ pred[n] = Ref!ExactPredecessors(Member, n)
  BY DEF SuccessorsExact, PredecessorsExact
<1> DEFINE M == Member
<1>2. Exact(M, M, succ, pred) /\ succ \in [Node -> List] /\ pred \in [Node -> List] /\ M \in SUBSET Node
  BY <1>1, QuietExact, TypeParts DEF TypeInv, ListsOK, Member
<1> HIDE DEF M
<1>3. \A n \in M : succ[n] = Ref!ExactSuccessors(M, n) /\ pred[n] = Ref!ExactPredecessors(M, n)
  BY <1>2, ExactLists
<1> QED
  BY <1>3 DEF M

\* In a ring of any size, after any joins and repairs, successors_key and
\* successors_ip of a node that serves name the nodes that follow it: what
\* update_succesors_or_predecessors and handle_succesors_down are there for.
THEOREM ExactSuccessorLists ==
    ASSUME QuietEnough PROVE Spec => []SuccessorsExact
<1>1. Init => TypeInv /\ ListInv
  BY TypeInit, ListInit
<1>2. TypeInv /\ ListInv /\ [Next]_vars => (TypeInv /\ ListInv)'
  BY TypeStep, ListStep
<1>3. TypeInv /\ ListInv => SuccessorsExact
  BY ListsExact
<1> QED
  BY <1>1, <1>2, <1>3, PTL DEF Spec

\* The same for predecessors_key and predecessors_ip, under the same conditions.
THEOREM ExactPredecessorLists ==
    ASSUME QuietEnough PROVE Spec => []PredecessorsExact
<1>1. Init => TypeInv /\ ListInv
  BY TypeInit, ListInit
<1>2. TypeInv /\ ListInv /\ [Next]_vars => (TypeInv /\ ListInv)'
  BY TypeStep, ListStep
<1>3. TypeInv /\ ListInv => PredecessorsExact
  BY ListsExact
<1> QED
  BY <1>1, <1>2, <1>3, PTL DEF Spec

-----------------------------------------------------------------------------
(* Lookups *)

\* g[i] is where i applications of F lead from n.
Steps(F, n, C, g) == g = [i \in 0 .. C |-> IF i = 0 THEN n ELSE F[g[i - 1]]]

LEMMA StepsExist ==
    ASSUME NEW F, NEW n, NEW C \in Nat
    PROVE  \E g : Steps(F, n, C, g)
<1> DEFINE S == {k \in Nat : ~\E g : Steps(F, n, k, g)}
<1>1. \A k \in 0 .. 0 : k \notin S
  <2> DEFINE g == [i \in 0 .. 0 |-> n]
  <2>1. Steps(F, n, 0, g)
    BY DEF Steps
  <2> QED
    BY <2>1
<1>2. ASSUME NEW k \in Nat, k > 0, k \in S PROVE k - 1 \in S
  <2>1. SUFFICES ASSUME k - 1 \notin S PROVE FALSE
    OBVIOUS
  <2>2. PICK g : Steps(F, n, k - 1, g)
    <3>1. k - 1 \in Nat
      BY <1>2
    <3> QED
      BY <2>1, <3>1
  <2> DEFINE h == [i \in 0 .. k |-> IF i < k THEN g[i] ELSE F[g[k - 1]]]
  <2>3. \A i \in 0 .. (k - 1) : g[i] = IF i = 0 THEN n ELSE F[g[i - 1]]
    BY <2>2 DEF Steps
  <2>4. ASSUME NEW i \in 0 .. k PROVE h[i] = IF i = 0 THEN n ELSE F[h[i - 1]]
    <3>1. CASE i < k
      <4>1. i \in 0 .. (k - 1) /\ h[i] = g[i]
        BY <1>2, <3>1
      <4>2. i # 0 => i - 1 \in 0 .. k /\ i - 1 < k /\ h[i - 1] = g[i - 1]
        BY <1>2, <3>1
      <4> QED
        BY <2>3, <4>1, <4>2
    <3>2. CASE i = k
      <4>1. k - 1 \in 0 .. k /\ k - 1 < k /\ h[k - 1] = g[k - 1]
        BY <1>2
      <4> QED
        BY <1>2, <3>2, <4>1
    <3> QED
      BY <1>2, <3>1, <3>2
  <2>5. Steps(F, n, k, h)
    <3>1. h = [i \in 0 .. k |-> h[i]]
      OBVIOUS
    <3> HIDE DEF h
    <3> QED
      BY <2>4, <3>1 DEF Steps
  <2> QED
    BY <1>2, <2>5
<1> HIDE DEF S
<1>3. \A k \in Nat : k >= 0 => k \notin S
  <2>1. S \in SUBSET Nat /\ 0 \in Nat
    BY DEF S
  <2>2. \A k \in Nat : k > 0 /\ k \in S => k - 1 \in S
    BY <1>2
  <2> QED
    BY <1>1, <2>1, <2>2, NoLeast
<1> QED
  BY <1>3 DEF S

StepsThrough(S, F, n, C, g) ==
    g \in [0 .. C -> S] /\ g[0] = n /\ \A i \in 1 .. C : g[i] = F[g[i - 1]]

LEMMA StepsIn ==
    ASSUME NEW S, NEW F \in [S -> S], NEW n \in S, NEW C \in Nat, NEW g, Steps(F, n, C, g)
    PROVE  StepsThrough(S, F, n, C, g)
<1>1. \A i \in 0 .. C : g[i] = IF i = 0 THEN n ELSE F[g[i - 1]]
  BY DEF Steps
<1> DEFINE B == {k \in 0 .. C : g[k] \notin S}
<1>2. \A k \in 0 .. 0 : k \notin B
  BY <1>1
<1>3. ASSUME NEW k \in Nat, k > 0, k \in B PROVE k - 1 \in B
  <2>1. k \in 0 .. C /\ k # 0 /\ k - 1 \in 0 .. C
    BY <1>3
  <2>2. g[k] = F[g[k - 1]]
    BY <1>1, <2>1
  <2> QED
    BY <1>3, <2>1, <2>2
<1> HIDE DEF B
<1>4. \A k \in Nat : k >= 0 => k \notin B
  <2>1. B \in SUBSET Nat /\ 0 \in Nat
    BY DEF B
  <2>2. \A k \in Nat : k > 0 /\ k \in B => k - 1 \in B
    BY <1>3
  <2> QED
    BY <1>2, <2>1, <2>2, NoLeast
<1>5. \A k \in 0 .. C : g[k] \in S
  BY <1>4 DEF B
<1>6. g = [k \in 0 .. C |-> g[k]]
  BY DEF Steps
<1>7. g \in [0 .. C -> S]
  BY <1>5, <1>6
<1> QED
  BY <1>1, <1>7 DEF StepsThrough

\* Where m sends a lookup of h, or m itself when it answers or is not there.
Onward(m, h) ==
    IF m \notin Member \/ IAmPredecessorOfKey(m, succ[m][1], h) THEN m ELSE succ[m][1]

LEMMA WalkIs ==
    ASSUME succ \in [Node -> List], NEW n \in Node, NEW h
    PROVE  /\ Walk(n, h) \in [0 .. Cardinality(Node) -> Node] /\ Walk(n, h)[0] = n
           /\ \A i \in 1 .. Cardinality(Node) : Walk(n, h)[i] = Onward(Walk(n, h)[i - 1], h)
           /\ Cardinality(Node) \in Nat
<1> DEFINE F == [m \in Node |-> IF m \notin Member \/ IAmPredecessorOfKey(m, succ[m][1], h)
                                THEN m ELSE succ[m][1]]
           C == Cardinality(Node)
           g == CHOOSE f : f = [i \in 0 .. C |-> IF i = 0 THEN n ELSE F[f[i - 1]]]
<1>1. C \in Nat
  BY FS_CardinalityType
<1>2. Walk(n, h) = g
  BY DEF Walk
<1>3. F \in [Node -> Node]
  <2>1. \A m \in Node : succ[m][1] \in Node
    BY DEF List
  <2> QED
    BY <2>1
<1>4. \A m \in Node : F[m] = Onward(m, h)
  BY DEF Onward
<1> HIDE DEF F, C
<1>5. Steps(F, n, C, g)
  <2>1. \E f : Steps(F, n, C, f)
    BY <1>1, StepsExist
  <2> DEFINE e == CHOOSE f : Steps(F, n, C, f)
  <2>2. Steps(F, n, C, e)
    BY <2>1
  <2>3. e = g
    BY DEF Steps
  <2> HIDE DEF e, g
  <2> QED
    BY <2>2, <2>3
<1> HIDE DEF g
<1>6. g \in [0 .. C -> Node] /\ g[0] = n /\ \A i \in 1 .. C : g[i] = F[g[i - 1]]
  <2>1. StepsThrough(Node, F, n, C, g)
    BY <1>1, <1>3, <1>5, StepsIn, Zenon
  <2> QED
    BY <2>1 DEF StepsThrough
<1>7. \A i \in 1 .. C : g[i] = Onward(g[i - 1], h)
  <2>1. \A i \in 1 .. C : i - 1 \in 0 .. C
    BY <1>1
  <2> QED
    BY <1>4, <1>6, <2>1
<1> QED
  BY <1>1, <1>2, <1>6, <1>7 DEF C

LEMMA LookupTypes ==
    ASSUME succ \in [Node -> List], NEW n \in Node, NEW h
    PROVE  PredecessorOf(n, h) \in Node /\ SuccessorOf(n, h) \in Node
<1>1. PredecessorOf(n, h) \in Node
  <2> DEFINE C == Cardinality(Node)
             w == Walk(n, h)
  <2>1. w \in [0 .. C -> Node] /\ C \in Nat
    BY WalkIs
  <2>2. PredecessorOf(n, h) = w[C]
    BY DEF PredecessorOf
  <2> HIDE DEF C, w
  <2>3. C \in 0 .. C
    BY <2>1
  <2> QED
    BY <2>1, <2>2, <2>3
<1>2. \A m \in Node : succ[m][1] \in Node
  BY DEF List
<1> QED
  BY <1>1, <1>2 DEF SuccessorOf
=============================================================================
