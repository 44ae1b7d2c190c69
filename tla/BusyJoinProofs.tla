--------------------------- MODULE BusyJoinProofs ----------------------------
(***************************************************************************)
(* Proofs about BusyJoin, for every set of nodes, any order of joins and   *)
(* crashes and any files.                                                  *)
(*                                                                         *)
(* A request changes neither who is a member nor a list nor a call of the  *)
(* agent, so that what ChordMembershipProofs shows of them goes on holding *)
(* when clients do not wait.  That settles the lists.                      *)
(*                                                                         *)
(* Where the files are is the inductive invariant FileInv: which of six    *)
(* situations a behaviour is in (Serving, Bereft, Arriving, Noticing,      *)
(* TakingOver, Mending) and, in each of them, how far every file is on its *)
(* way from those that held it to those that are to hold it (Stage).       *)
(*                                                                         *)
(* Four parts lead up to it.  JoinRoutes and RepairRoutes: the arcs of a   *)
(* plan move a file exactly if its holders change, and from where to       *)
(* where.  JoinFiles and RepairFiles: the calls of a plan do that, each    *)
(* file with its own calls and in the right order.  StageNames to          *)
(* StageDrop: each call takes a file one stage further.  LookupEnds: where *)
(* a lookup ends while the lists change.                                   *)
(*                                                                         *)
(* Then there is one lemma per action (FileWrite to FileReplicate), and    *)
(* the properties follow from FileInv.                                     *)
(***************************************************************************)
EXTENDS BusyJoin, ChordMembershipProofs

USE ThreeSlots, NodeAssumption DEF ListLen

RequestInv ==
    /\ request \in Request \cup {None}
    /\ blocked \subseteq Member
    /\ late \subseteq Name
    /\ request = None => blocked = {}

BusyInv == TypeInv /\ RequestInv

LEMMA BusyTypes == BusyInv => BusyTypeOK
BY DEF BusyInv, RequestInv, TypeInv, BusyTypeOK, Request

LEMMA BusyInit1 == BusyInit => BusyInv /\ ListInv
<1> SUFFICES ASSUME BusyInit PROVE BusyInv /\ ListInv
  OBVIOUS
<1>1. TypeInv /\ ListInv
  BY TypeInit, ListInit DEF BusyInit
<1>2. RequestInv
  BY DEF BusyInit, RequestInv
<1> QED
  BY <1>1, <1>2 DEF BusyInv

LEMMA WriteTypes ==
    ASSUME store \in [Node -> [Name -> Content]], NEW ns, NEW k \in Name, NEW v \in Content, WriteAt(ns, k, v)
    PROVE  store' \in [Node -> [Name -> Content]]
<1>1. \A n \in Node : [store[n] EXCEPT ![k] = v] \in [Name -> Content]
  OBVIOUS
<1> QED
  BY <1>1 DEF WriteAt

LEMMA RequestTypes ==
    ASSUME RequestInv, request # None
    PROVE  /\ request.do \in {"find", "force", "replicate"}
           /\ request.at \in Node /\ request.k \in Name /\ request.v \in Value \cup {Absent}
BY DEF RequestInv, Request

LEMMA BusyBase ==
    [BusyNext]_busyVars => [Next]_vars \/ ForceCall \/ Replicate
<1> SUFFICES ASSUME [BusyNext]_busyVars PROVE [Next]_vars \/ ForceCall \/ Replicate
  OBVIOUS
<1>1. ASSUME NEW e \in Node, NEW k \in Name, NEW v \in Value \cup {Absent}, Write(e, k, v) PROVE [Next]_vars
  BY <1>1 DEF Next
<1>2. ASSUME NEW n \in Node, Crash(n) \/ DetectDown(n) \/ AgentStep(n) PROVE [Next]_vars
  BY <1>2 DEF Next
<1>3. ASSUME NEW n \in Node, NEW e \in Node, StartJoin(n, e) PROVE [Next]_vars
  BY <1>3 DEF Next
<1>4. UNCHANGED busyVars \/ FindGoesOn \/ (\E e \in Node : \E w \in Wanted : Ask(e, w[1], w[2])) => [Next]_vars
  BY DEF busyVars, FindGoesOn, Ask
<1> QED
  BY <1>1, <1>2, <1>3, <1>4 DEF BusyNext, Detect, AgentGoesOn, ClientStep

LEMMA ClientTypes ==
    ASSUME BusyInv, ForceCall \/ Replicate
    PROVE  TypeInv'
<1>0. /\ status \in [Node -> {"down", "joining", "member"}]
      /\ ListsOK /\ store \in [Node -> [Name -> Content]]
      /\ agent \in Node \cup {None} /\ hand \in Value \cup {Empty, None}
      /\ latest \in [Name -> Value \cup {Absent}] /\ todo \in Seq(Call) /\ Ready(todo, hand)
  BY TypeParts DEF BusyInv, TypeInv
<1>1. request # None /\ request.k \in Name /\ request.v \in Value \cup {Absent}
  BY RequestTypes DEF BusyInv, ForceCall, Replicate
<1>2. store' \in [Node -> [Name -> Content]]
  <2>1. request.v \in Content
    BY <1>1 DEF Content
  <2> QED
    BY <1>0, <1>1, <2>1, WriteTypes DEF ForceCall, Replicate
<1>3. latest' \in [Name -> Value \cup {Absent}]
  BY <1>0, <1>1 DEF ForceCall, Replicate
<1>4. UNCHANGED <<status, succ, pred, agent, todo, hand>>
  BY DEF ForceCall, Replicate
<1>5. (1 .. ListLen)' = 1 .. 3
  OBVIOUS
<1> QED
  BY <1>0, <1>2, <1>3, <1>4, <1>5 DEF TypeInv, TypeOK, ListsOK, List, Ready, Content, Call

\* What a lookup leaves.
LEMMA FindAtTypes ==
    ASSUME BusyInv, NEW m \in Node, NEW k \in Name, NEW v \in Value \cup {Absent}, FindAt(m, k, v)
    PROVE  request' \in Request /\ blocked' \subseteq Member
<1>1. succ \in [Node -> List]
  BY TypeParts DEF BusyInv, TypeInv, ListsOK
<1>2. PredecessorOf(m, Hash[k]) \in Node /\ SuccessorOf(m, Hash[k]) \in Node
  BY <1>1, LookupTypes
<1>3. Path(m, Hash[k]) \subseteq Member
  BY DEF Path
<1> QED
  BY <1>2, <1>3 DEF FindAt, Request

LEMMA BusyStep == BusyInv /\ [BusyNext]_busyVars => BusyInv'
<1> SUFFICES ASSUME BusyInv, [BusyNext]_busyVars PROVE BusyInv'
  OBVIOUS
<1>1. TypeInv'
  <2>1. CASE [Next]_vars
    BY <2>1, TypeStep DEF BusyInv
  <2>2. CASE ForceCall \/ Replicate
    BY <2>2, ClientTypes
  <2> QED
    BY <2>1, <2>2, BusyBase
<1>0. request \in Request \cup {None} /\ blocked \subseteq Member /\ late \subseteq Name
      /\ (request = None => blocked = {}) /\ Member \subseteq Node
      /\ status \in [Node -> {"down", "joining", "member"}]
  BY TypeParts DEF BusyInv, RequestInv, TypeInv, Member
<1>2. RequestInv'
  <2>1. ASSUME UNCHANGED <<request, blocked, late>>, Member \subseteq Member' \/ request = None
        PROVE  RequestInv'
    BY <1>0, <2>1 DEF RequestInv, Request
  <2>2. ASSUME NEW e \in Node, NEW k \in Name, NEW v \in Value \cup {Absent}, Idle, Write(e, k, v)
        PROVE  RequestInv'
    BY <2>1, <2>2 DEF Idle
  <2>3. ASSUME NEW n \in Node, Idle PROVE RequestInv'
    BY <2>1, <2>3 DEF Idle
  <2>4. CASE Detect
    BY <2>1, <2>4 DEF Detect, DetectDown, Member
  <2>5. ASSUME NEW n \in Node, AgentGoesOn(n) PROVE RequestInv'
    <3>1. status' = status \/ status' = [status EXCEPT ![n] = "member"]
      BY <2>5 DEF AgentGoesOn, AgentStep, TakeLists, FindThird, NoThird, PlanRepair, ChangeSuccessors,
         ChangePredecessors, ListKeys, FetchFile, GetFile, PutFile, DropFile, Finish
    <3>2. Member \subseteq Member'
      BY <1>0, <3>1 DEF Member
    <3> QED
      BY <2>1, <2>5, <3>2 DEF AgentGoesOn
  <2>6. ASSUME NEW m \in Node, NEW k \in Name, NEW v \in Value \cup {Absent}, FindAt(m, k, v),
               UNCHANGED <<vars, late>>
        PROVE  RequestInv'
    <3>1. request' \in Request /\ blocked' \subseteq Member
      BY <2>6, FindAtTypes
    <3>2. Member' = Member /\ late' = late
      BY <2>6 DEF vars, Member
    <3> QED
      BY <1>0, <3>1, <3>2, RequestAssumption DEF RequestInv, Request
  <2>7. ASSUME NEW e \in Node, NEW w \in Wanted, Ask(e, w[1], w[2]) PROVE RequestInv'
    <3>1. w[1] \in Name /\ w[2] \in Value \cup {Absent}
      BY LoadAssumption
    <3> QED
      BY <2>6, <2>7, <3>1 DEF Ask
  <2>8. CASE FindGoesOn
    <3>1. request.at \in Node /\ request.k \in Name /\ request.v \in Value \cup {Absent}
      BY <2>8, RequestTypes DEF FindGoesOn, BusyInv
    <3> QED
      BY <2>6, <2>8, <3>1 DEF FindGoesOn
  <2>9. CASE ForceCall
    <3>1. request # None /\ request \in Request /\ request.at \in Member /\ request.k \in Name
      BY <1>0, <2>9, RequestTypes DEF ForceCall, BusyInv
    <3>2. Member' = Member /\ late' \subseteq Name
      BY <1>0, <2>9, <3>1 DEF ForceCall, Member
    <3>3. \/ request' = None /\ blocked' = {}
          \/ request' = [request EXCEPT !.do = "replicate"] /\ blocked' = {request.at}
      BY <2>9 DEF ForceCall
    <3>4. [request EXCEPT !.do = "replicate"] \in Request
      BY <3>1 DEF Request
    <3>5. (request' = None /\ blocked' = {}) \/ (request' \in Request /\ request' # None /\ blocked' \subseteq Member)
      BY <3>1, <3>3, <3>4, RequestAssumption
    <3> QED
      BY <3>2, <3>5 DEF RequestInv, Request
  <2>10. CASE Replicate
    BY <1>0, <2>10 DEF Replicate, RequestInv, Request, Member
  <2>11. CASE UNCHANGED busyVars
    BY <2>1, <2>11 DEF busyVars, vars, Member
  <2> QED
    BY <2>2, <2>3, <2>4, <2>5, <2>7, <2>8, <2>9, <2>10, <2>11 DEF BusyNext, ClientStep
<1> QED
  BY <1>1, <1>2 DEF BusyInv

LEMMA BusyListStep ==
    ASSUME QuietEnough, BusyInv, ListInv, [BusyNext]_busyVars
    PROVE  ListInv'
<1>1. CASE [Next]_vars
  BY <1>1, ListStep DEF BusyInv
<1>2. CASE ForceCall \/ Replicate
  BY <1>2, ListStays DEF ForceCall, Replicate
<1> QED
  BY <1>1, <1>2, BusyBase

\* Every variable keeps its type with requests in the middle of joins as well:
\* no loop waits for the newcomer unless a client's request is under way.
THEOREM BusyTyped == BusySpec => []BusyTypeOK
<1>1. BusyInit => BusyInv
  BY BusyInit1
<1> QED
  BY <1>1, BusyStep, BusyTypes, PTL DEF BusySpec

\* Clients that do not wait for the end of a join do not disturb it: the lists
\* of successors are those of the ring when it is over.
THEOREM BusyExactSuccessors ==
    ASSUME QuietEnough PROVE BusySpec => []SuccessorsExact
<1>1. BusyInit => BusyInv /\ ListInv
  BY BusyInit1
<1>2. BusyInv /\ ListInv /\ [BusyNext]_busyVars => (BusyInv /\ ListInv)'
  BY BusyStep, BusyListStep
<1>3. BusyInv /\ ListInv => SuccessorsExact
  BY ListsExact DEF BusyInv
<1> QED
  BY <1>1, <1>2, <1>3, PTL DEF BusySpec
\* The same for the lists of predecessors.
THEOREM BusyExactPredecessors ==
    ASSUME QuietEnough PROVE BusySpec => []PredecessorsExact
<1>1. BusyInit => BusyInv /\ ListInv
  BY BusyInit1
<1>2. BusyInv /\ ListInv /\ [BusyNext]_busyVars => (BusyInv /\ ListInv)'
  BY BusyStep, BusyListStep
<1>3. BusyInv /\ ListInv => PredecessorsExact
  BY ListsExact DEF BusyInv
<1> QED
  BY <1>1, <1>2, <1>3, PTL DEF BusySpec

-----------------------------------------------------------------------------
(* Owners and holders *)

\* o is the owner of the file k on the ring R: the first node after the key
\* before its hash.
Own(R, k, o) == IsNext(R, Hash[k] - 1, o)

Hold(R, k) == Ref!ExactHolders(R, Hash[k])

\* The owner of the hash h and the two nodes after it, until it comes round.
Trio(R, h, o, x, y) ==
    /\ IsNext(R, h - 1, o)
    /\ IsNext(R, o, x)
    /\ IF x = o THEN y = o ELSE IsNext(R, x, y)

LEMMA KeyDistances ==
    ASSUME NEW k \in Name
    PROVE  /\ Hash[k] \in Int /\ Modulus \in Nat \ {0}
           /\ \A m \in Node : m \in Int /\ Hash[k] - m < Modulus /\ m - Hash[k] < Modulus
           /\ \A m, n \in Node : m - n < Modulus
<1>1. Hash[k] \in Int /\ Hash[k] \in {Hash[j] : j \in Name}
  BY FileAssumption
<1> QED
  BY <1>1, ModulusAssumption

LEMMA NextExists ==
    ASSUME NEW R \in SUBSET Node, R # {}, NEW m \in Int, \A x \in R : m - x <= Modulus
    PROVE  \E n \in R : IsNext(R, m, n)
<1> DEFINE far(x) == IF m < x THEN x - m ELSE (x - m) + Modulus
           S == {far(x) : x \in R}
<1>1. \A x \in R : x \in Int /\ far(x) \in Nat
  BY ModulusAssumption
<1>2. S \in SUBSET Nat /\ S # {}
  BY <1>1
<1>3. PICK d \in S : \A e \in S : d <= e
  BY <1>2, LeastNumber
<1>4. PICK n \in R : d = far(n)
  BY <1>3
<1>5. \A x \in R : far(n) <= far(x)
  BY <1>3, <1>4
<1>6. \A x \in R : ~Passed(m, x, n)
  <2>1. SUFFICES ASSUME NEW x \in R PROVE ~Passed(m, x, n)
    OBVIOUS
  <2>2. far(n) <= far(x) /\ x \in Int /\ n \in Int /\ m - x <= Modulus /\ m - n <= Modulus /\ Modulus \in Int
        /\ x - n < Modulus
    BY <1>1, <1>5, ModulusAssumption
  <2> QED
    BY <2>2 DEF Passed
<1> QED
  BY <1>6 DEF IsNext

LEMMA OwnExists ==
    ASSUME NEW R \in SUBSET Node, R # {}, NEW k \in Name
    PROVE  \E o \in R : Own(R, k, o)
<1>1. Hash[k] - 1 \in Int /\ \A x \in R : (Hash[k] - 1) - x <= Modulus
  <2>1. \A x \in R : x \in Int /\ Hash[k] - x < Modulus
    BY KeyDistances
  <2>2. Hash[k] \in Int /\ Modulus \in Int
    BY KeyDistances
  <2> QED
    BY <2>1, <2>2
<1> QED
  BY <1>1, NextExists DEF Own

LEMMA NodeNext ==
    ASSUME NEW R \in SUBSET Node, R # {}, NEW m \in Node
    PROVE  \E n \in R : IsNext(R, m, n)
<1>1. m \in Int /\ \A x \in R : m - x <= Modulus
  <2>1. \A x \in R : x \in Int /\ m - x < Modulus
    BY ModulusAssumption
  <2> QED
    BY <2>1, ModulusAssumption
<1> QED
  BY <1>1, NextExists

LEMMA OwnerIs ==
    ASSUME NEW R \in SUBSET Node, NEW k \in Name, NEW o, Own(R, k, o)
    PROVE  Ref!ExactOwner(R, Hash[k]) = o
<1> DEFINE h == Hash[k]
           far(x) == IF h <= x THEN x - h ELSE (x - h) + Modulus
<1>1. h \in Int /\ Modulus \in Nat \ {0} /\ o \in R
      /\ \A x \in R : x \in Int /\ h - x < Modulus /\ x - h < Modulus
  BY KeyDistances DEF Own, IsNext
<1>2. \A x \in R : Ref!Distance(h, x) = far(x)
  <2>1. SUFFICES ASSUME NEW x \in R PROVE Ref!Distance(h, x) = far(x)
    OBVIOUS
  <2>2. CASE h <= x
    <3>1. x - h \in Nat
      BY <1>1, <2>2
    <3> QED
      BY <1>1, <2>2, <3>1, SmallRemainder DEF Ref!Distance
  <2>3. CASE ~(h <= x)
    <3> DEFINE j == (x - h) + Modulus
    <3>1. j \in Nat /\ j < Modulus /\ j - Modulus = x - h
      BY <1>1, <2>3
    <3>2. (j - Modulus) % Modulus = j
      BY <3>1, SmallRemainder
    <3> QED
      BY <2>3, <3>1, <3>2 DEF Ref!Distance
  <2> QED
    BY <2>2, <2>3
<1> HIDE DEF h
<1>3. \A x \in R : ~Passed(h - 1, x, o)
  BY DEF Own, IsNext, h
<1>4. \A x \in R : far(o) <= far(x)
  <2>1. SUFFICES ASSUME NEW x \in R PROVE far(o) <= far(x)
    OBVIOUS
  <2>2. ~Passed(h - 1, x, o) /\ x - o < Modulus /\ o - x < Modulus /\ o \in Int /\ x \in Int
    BY <1>1, <1>3, KeyDistances
  <2> QED
    BY <1>1, <2>2 DEF Passed
<1>5. ASSUME NEW m \in R, \A x \in R : far(m) <= far(x) PROVE m = o
  <2>1. far(m) <= far(o) /\ far(o) <= far(m) /\ m \in Int /\ o \in Int /\ h - m < Modulus /\ m - h < Modulus
        /\ h - o < Modulus /\ o - h < Modulus /\ m - o < Modulus /\ o - m < Modulus
    BY <1>1, <1>4, <1>5, KeyDistances
  <2> QED
    BY <1>1, <2>1
<1> DEFINE P(m) == \A x \in R : Ref!Distance(h, m) <= Ref!Distance(h, x)
<1>6. P(o) /\ \A m \in R : P(m) => m = o
  BY <1>1, <1>2, <1>4, <1>5
<1> HIDE DEF P
<1>7. (CHOOSE m \in R : P(m)) = o
  BY <1>1, <1>6
<1> QED
  BY <1>7 DEF P, h, Ref!ExactOwner

\* o, x and y hold the file k on the ring R, and o owns it.
AreHolders(R, k, o, x, y) ==
    Hold(R, k) = {o, x, y} /\ o \in R /\ x \in R /\ y \in R /\ Own(R, k, o)

LEMMA HoldIs ==
    ASSUME NEW R \in SUBSET Node, NEW k \in Name, NEW o, NEW x, NEW y, Trio(R, Hash[k], o, x, y)
    PROVE  AreHolders(R, k, o, x, y)
<1>1. Own(R, k, o) /\ o \in R /\ x \in R /\ y \in R
  BY DEF Trio, Own, IsNext
<1>2. Ref!ExactOwner(R, Hash[k]) = o
  BY <1>1, OwnerIs
<1>3. \E z \in R : IF y = o THEN z = o ELSE IsNext(R, y, z)
  BY <1>1, NodeNext
<1>4. PICK z \in R : IF y = o THEN z = o ELSE IsNext(R, y, z)
  BY <1>3
<1>5. Follow(R, o, x, y, z)
  BY <1>4 DEF Trio, Follow
<1> DEFINE e == Ref!ExactSuccessors(R, o)
           C == Cardinality(R)
<1>6. e = [j \in 1 .. 3 |-> IF j = 1 THEN x ELSE IF j = 2 THEN y ELSE z]
  BY <1>1, <1>5, FollowExact
<1>7. e = [j \in 1 .. 3 |-> IF j < C THEN Ref!NthAfter(R, o, j) ELSE o]
  BY SameCardinality DEF Ref!ExactSuccessors
<1>8. e[1] = x /\ e[2] = y
  BY <1>6
<1>9. /\ e[1] = IF 1 < C THEN Ref!NthAfter(R, o, 1) ELSE o
      /\ e[2] = IF 2 < C THEN Ref!NthAfter(R, o, 2) ELSE o
  BY <1>7
<1> HIDE DEF e
<1>10. Hold(R, k) = {o} \cup {Ref!NthAfter(R, o, j) : j \in {i \in 1 .. 2 : i < C}}
  BY <1>2, SameCardinality DEF Hold, Ref!ExactHolders
<1> DEFINE N(j) == Ref!NthAfter(R, o, j)
<1>11. Hold(R, k) = {o} \cup {N(j) : j \in {i \in 1 .. 2 : i < C}}
  BY <1>10
<1>12. x = (IF 1 < C THEN N(1) ELSE o) /\ y = (IF 2 < C THEN N(2) ELSE o)
  BY <1>8, <1>9
<1> HIDE DEF N, C
<1>13. \A i \in 1 .. 2 : i = 1 \/ i = 2
  OBVIOUS
<1>14. \A v : v \in Hold(R, k) <=> v = o \/ (1 < C /\ v = N(1)) \/ (2 < C /\ v = N(2))
  BY <1>11, <1>13
<1>15. \A v : v \in Hold(R, k) <=> v \in {o, x, y}
  BY <1>12, <1>14
<1>16. Hold(R, k) = {o, x, y}
  BY <1>15
<1> QED
  BY <1>1, <1>16 DEF AreHolders

LEMMA TrioExists ==
    ASSUME NEW R \in SUBSET Node, R # {}, NEW k \in Name
    PROVE  \E o, x, y \in R : Trio(R, Hash[k], o, x, y)
<1>1. PICK o \in R : Own(R, k, o)
  BY OwnExists
<1>2. PICK x \in R : IsNext(R, o, x)
  BY NodeNext
<1>3. PICK y \in R : IsNext(R, x, y)
  BY NodeNext
<1>4. CASE x = o
  BY <1>1, <1>2, <1>4 DEF Trio, Own
<1>5. CASE x # o
  BY <1>1, <1>2, <1>3, <1>5 DEF Trio, Own
<1> QED
  BY <1>4, <1>5

LEMMA HoldIn ==
    ASSUME NEW R \in SUBSET Node, R # {}, NEW k \in Name
    PROVE  Hold(R, k) \subseteq R /\ \A o : Own(R, k, o) => o \in Hold(R, k)
<1>1. PICK o \in R, x \in R, y \in R : Trio(R, Hash[k], o, x, y)
  BY TrioExists
<1>0. AreHolders(R, k, o, x, y)
  BY <1>1, HoldIs, Zenon
<1>2. o \in R /\ x \in R /\ y \in R /\ Hold(R, k) = {o, x, y} /\ Own(R, k, o)
  BY <1>0 DEF AreHolders
<1>3. \A m : Own(R, k, m) => m = o
  BY <1>2, NextUnique, KeyDistances DEF Own
<1> QED
  BY <1>2, <1>3

\* A hash on the arc before n belongs to n.
LEMMA ArcOwner ==
    ASSUME NEW R \in SUBSET Int, NEW m \in R, NEW n \in R, m # n, IsNext(R, m, n), NEW h \in Int
    PROVE  IsInBetweenModular(h, m, n) <=> IsNext(R, h - 1, n)
BY DEF IsNext, Passed, IsInBetweenModular

LEMMA PredecessorOwner ==
    ASSUME NEW R \in SUBSET Int, NEW m \in R, NEW n \in R, IsNext(R, m, n), NEW h \in Int
    PROVE  IAmPredecessorOfKey(m, n, h) <=> IsNext(R, h - 1, n)
<1>1. CASE m = n
  <2>1. R \subseteq {n}
    BY <1>1, NextAlone
  <2>2. IsNext(R, h - 1, n)
    BY <2>1 DEF IsNext, Passed
  <2> QED
    BY <1>1, <2>2 DEF IAmPredecessorOfKey
<1>2. CASE m # n
  BY <1>2 DEF IsNext, Passed, IAmPredecessorOfKey
<1> QED
  BY <1>1, <1>2

\* A node n comes to R: its files.  Those it owns were its successor's.
LEMMA TrioOwn ==
    ASSUME NEW R \in SUBSET Int, NEW n \in Int, n \notin R, NEW T, T = R \cup {n},
           NEW x, NEW y, NEW z, NEW p1, NEW p2, NEW p3, NEW h \in Int, R # {},
           Follow(T, n, x, y, z), Precede(T, n, p1, p2, p3), IsInBetweenModular(h, p1, n)
    PROVE  /\ Trio(T, h, n, x, y)
           /\ Trio(R, h, x, IF y = n THEN x ELSE y, IF y = n \/ z = n THEN x ELSE z)
<1>1. T \in SUBSET Int /\ n \in T /\ x \in T /\ y \in T /\ z \in T /\ p1 \in T
      /\ IsNext(T, n, x) /\ IsNext(T, p1, n)
  BY DEF Follow, Precede, IsNext
<1>2. x # n /\ p1 # n
  <2>1. ~(T \subseteq {n})
    OBVIOUS
  <2> QED
    BY <1>1, <2>1, NextAlone
<1>3. IsNext(T, h - 1, n)
  BY <1>1, <1>2, ArcOwner
<1>4. IsNext(T, x, y)
  BY <1>2 DEF Follow
<1>5. Trio(T, h, n, x, y)
  BY <1>1, <1>2, <1>3, <1>4 DEF Trio
<1>6. x \in R
  BY <1>1, <1>2
<1>7. IsNext(R, h - 1, x)
  <2>1. IsNext(R \cup {n}, h - 1, n) /\ IsNext(R \cup {n}, n, x) /\ h - 1 \in Int
    BY <1>1, <1>3
  <2> QED
    BY <1>6, <2>1 DEF IsNext, Passed
<1>8. CASE y = n
  <2>1. T \subseteq {n, x}
    BY <1>1, <1>4, <1>8, NextPair
  <2>2. R \subseteq {x}
    BY <2>1
  <2>3. IsNext(R, x, x)
    BY <1>6, <2>2 DEF IsNext, Passed
  <2> QED
    BY <1>5, <1>7, <1>8, <2>3 DEF Trio
<1>9. CASE y # n
  <2>1. y \in R /\ IsNext(T, y, z)
    BY <1>1, <1>9 DEF Follow
  <2>2. IsNext(R, x, y)
    BY <1>1, <1>4, <1>9, NextWithout
  <2>3. y # x
    <3>1. y = x => T \subseteq {x}
      BY <1>1, <1>4, NextAlone
    <3> QED
      BY <1>2, <3>1
  <2>4. IsNext(R, y, IF z = n THEN x ELSE z)
    <3>1. CASE z = n
      <4>1. IsNext(R, y, x)
        BY <1>1, <1>6, <2>1, <3>1, NextOver
      <4> QED
        BY <3>1, <4>1
    <3>2. CASE z # n
      <4>1. IsNext(R, y, z)
        BY <1>1, <2>1, <3>2, NextWithout
      <4> QED
        BY <3>2, <4>1
    <3> QED
      BY <3>1, <3>2
  <2> QED
    BY <1>5, <1>7, <1>9, <2>2, <2>3, <2>4 DEF Trio
<1> QED
  BY <1>8, <1>9

\* The files of the node before n have their first copy on n then.
LEMMA TrioBefore ==
    ASSUME NEW R \in SUBSET Int, NEW n \in Int, n \notin R, NEW T, T = R \cup {n},
           NEW x, NEW y, NEW z, NEW p1, NEW p2, NEW p3, NEW h \in Int, R # {},
           Follow(T, n, x, y, z), Precede(T, n, p1, p2, p3), IsInBetweenModular(h, p2, p1)
    PROVE  /\ p1 \in R /\ Trio(T, h, p1, n, x)
           /\ Trio(R, h, p1, x, IF x = p1 \/ y = n THEN p1 ELSE y)
<1>1. T \in SUBSET Int /\ n \in T /\ x \in T /\ y \in T /\ z \in T /\ p1 \in T /\ p2 \in T
      /\ IsNext(T, n, x) /\ IsNext(T, p1, n)
  BY DEF Follow, Precede, IsNext
<1>2. x # n /\ p1 # n
  <2>1. ~(T \subseteq {n})
    OBVIOUS
  <2> QED
    BY <1>1, <2>1, NextAlone
<1>3. IsNext(T, p2, p1) /\ p1 \in R /\ x \in R
  BY <1>1, <1>2 DEF Precede
<1>4. p2 # p1
  BY <1>1, ArcEmpty
<1>5. IsNext(T, h - 1, p1)
  BY <1>1, <1>3, <1>4, ArcOwner
<1>6. Trio(T, h, p1, n, x)
  BY <1>1, <1>2, <1>5 DEF Trio
<1>7. h - 1 \in Int /\ IsNext(R, h - 1, p1)
  BY <1>2, <1>5, NextWithout
<1>8. IsNext(R, p1, x)
  BY <1>1, <1>3, NextOver
<1>9. CASE x = p1
  BY <1>3, <1>6, <1>7, <1>8, <1>9 DEF Trio
<1>10. CASE x # p1
  <2>1. IsNext(T, x, y)
    BY <1>2 DEF Follow
  <2>2. CASE y = n
    <3>1. x = p1
      BY <1>1, <1>3, <2>1, <2>2, PrevUnique
    <3> QED
      BY <1>10, <3>1
  <2>3. CASE y # n
    <3>1. IsNext(R, x, y)
      BY <1>1, <2>1, <2>3, NextWithout
    <3> QED
      BY <1>3, <1>6, <1>7, <1>8, <1>10, <2>3, <3>1 DEF Trio
  <2> QED
    BY <2>2, <2>3
<1> QED
  BY <1>9, <1>10

\* The files of the node before that one have their second copy on n then.
LEMMA TrioBeforeThat ==
    ASSUME NEW R \in SUBSET Int, NEW n \in Int, n \notin R, NEW T, T = R \cup {n},
           NEW x, NEW y, NEW z, NEW p1, NEW p2, NEW p3, NEW h \in Int, R # {}, p2 # n,
           Follow(T, n, x, y, z), Precede(T, n, p1, p2, p3), IsInBetweenModular(h, p3, p2)
    PROVE  p2 \in R /\ Trio(T, h, p2, p1, n) /\ Trio(R, h, p2, p1, x)
<1>1. T \in SUBSET Int /\ n \in T /\ x \in T /\ y \in T /\ z \in T /\ p1 \in T /\ p2 \in T /\ p3 \in T
      /\ IsNext(T, n, x) /\ IsNext(T, p1, n)
  BY DEF Follow, Precede, IsNext
<1>2. x # n /\ p1 # n
  <2>1. ~(T \subseteq {n})
    OBVIOUS
  <2> QED
    BY <1>1, <2>1, NextAlone
<1>3. IsNext(T, p2, p1) /\ IsNext(T, p3, p2) /\ p1 \in R /\ x \in R /\ p2 \in R
  BY <1>1, <1>2 DEF Precede
<1>4. p3 # p2
  BY <1>1, ArcEmpty
<1>5. IsNext(T, h - 1, p2)
  BY <1>1, <1>3, <1>4, ArcOwner
<1>6. p1 # p2
  <2>1. p1 = p2 => T \subseteq {p1}
    BY <1>1, <1>3, NextAlone
  <2> QED
    BY <1>2, <2>1
<1>7. Trio(T, h, p2, p1, n)
  BY <1>1, <1>3, <1>5, <1>6 DEF Trio
<1>8. h - 1 \in Int /\ IsNext(R, h - 1, p2)
  BY <1>3, <1>5, NextWithout
<1>9. IsNext(R, p1, x)
  BY <1>1, <1>3, NextOver
<1>10. IsNext(R, p2, p1)
  BY <1>1, <1>2, <1>3, NextWithout
<1> QED
  BY <1>3, <1>6, <1>7, <1>8, <1>9, <1>10 DEF Trio

\* No other file is moved for n.
LEMMA TrioApart ==
    ASSUME NEW R \in SUBSET Int, NEW n \in Int, n \notin R, NEW T, T = R \cup {n},
           NEW p1, NEW p2, NEW p3, NEW h \in Int, R # {}, Precede(T, n, p1, p2, p3),
           ~IsInBetweenModular(h, p1, n), ~IsInBetweenModular(h, p2, p1),
           p2 # n => ~IsInBetweenModular(h, p3, p2),
           NEW o, NEW x, NEW y, Trio(T, h, o, x, y)
    PROVE  Trio(R, h, o, x, y) /\ n \notin {o, x, y}
<1>1. T \in SUBSET Int /\ n \in T /\ x \in T /\ y \in T /\ p1 \in T /\ p2 \in T /\ p3 \in T /\ o \in T
      /\ IsNext(T, p1, n) /\ IsNext(T, o, x) /\ IsNext(T, h - 1, o)
  BY DEF Trio, Precede, IsNext
<1>2. p1 # n
  <2>1. ~(T \subseteq {n})
    OBVIOUS
  <2> QED
    BY <1>1, <2>1, NextAlone
<1>3. IsNext(T, p2, p1) /\ p1 \in R
  BY <1>1, <1>2 DEF Precede
<1>4. p2 # p1
  <2>1. p2 = p1 => T \subseteq {p1}
    BY <1>1, <1>3, NextAlone
  <2> QED
    BY <1>2, <2>1
<1>5. o # n
  BY <1>1, <1>2, ArcOwner
<1>6. o # p1
  BY <1>1, <1>3, <1>4, ArcOwner
<1>7. p2 # n
  <2>1. p2 = n => T \subseteq {n, p1}
    BY <1>1, <1>3, NextPair
  <2> QED
    BY <1>1, <1>5, <1>6, <2>1
<1>8. IsNext(T, p3, p2)
  BY <1>7 DEF Precede
<1>9. p3 # p2
  <2>1. p3 = p2 => T \subseteq {p2}
    BY <1>1, <1>8, NextAlone
  <2> QED
    BY <1>1, <1>7, <2>1
<1>10. o # p2
  BY <1>1, <1>7, <1>8, <1>9, ArcOwner
<1>11. x # n
  BY <1>1, <1>6, PrevUnique
<1>12. x # o
  <2>1. x = o => T \subseteq {o}
    BY <1>1, NextAlone
  <2> QED
    BY <1>1, <1>5, <2>1
<1>13. IsNext(T, x, y)
  BY <1>12 DEF Trio
<1>14. x # p1
  BY <1>1, <1>3, <1>10, PrevUnique
<1>15. y # n
  BY <1>1, <1>13, <1>14, PrevUnique
<1>16. IsNext(R, h - 1, o) /\ IsNext(R, o, x) /\ IsNext(R, x, y)
  <2>1. h - 1 \in Int
    OBVIOUS
  <2> QED
    BY <1>1, <1>5, <1>11, <1>13, <1>15, <2>1, NextWithout
<1> QED
  BY <1>5, <1>11, <1>12, <1>15, <1>16 DEF Trio

\* A node d has left R \cup {d}, where it came after n.
LEMMA GoneOwn ==
    ASSUME NEW R \in SUBSET Int, NEW d \in Int, d \notin R, NEW T, T = R \cup {d}, NotTwo(R), NEW n \in R,
           NEW x, NEW y, NEW z, NEW h \in Int, IsNext(T, n, d), Follow(R, n, x, y, z),
           IsInBetweenModular(h, n, d)
    PROVE  Trio(T, h, d, x, IF x = n THEN d ELSE y) /\ Trio(R, h, x, y, z)
<1>1. T \in SUBSET Int /\ n \in T /\ d \in T /\ n # d /\ x \in R /\ y \in R /\ z \in R /\ IsNext(R, n, x)
  BY DEF Follow, IsNext
<1>2. IsNext(T, h - 1, d)
  BY <1>1, ArcOwner
<1>3. IsNext(T, d, x)
  BY <1>1, NextAfter
<1>4. IsNext(R, h - 1, x)
  BY <1>1, <1>2, <1>3 DEF IsNext, Passed
<1>5. CASE x = n
  <2>1. y = n /\ z = n /\ R \subseteq {n}
    BY <1>1, <1>5, NextAlone DEF Follow
  <2>2. IsNext(T, n, d)
    OBVIOUS
  <2> QED
    BY <1>1, <1>2, <1>3, <1>4, <1>5, <2>1 DEF Trio
<1>6. CASE x # n
  <2>1. IsNext(R, x, y)
    BY <1>6 DEF Follow
  <2>2. y # n
    <3>1. y = n => R \subseteq {n, x}
      BY <1>1, <2>1, NextPair
    <3> QED
      BY <1>1, <1>6, <3>1 DEF NotTwo
  <2>3. IsNext(R, y, z)
    BY <2>2 DEF Follow
  <2>4. IsNext(T, x, y)
    BY <1>1, <1>6, <2>1, NextWith
  <2>5. y # x
    <3>1. y = x => R \subseteq {x}
      BY <1>1, <2>1, NextAlone
    <3> QED
      BY <1>1, <1>6, <3>1
  <2> QED
    BY <1>1, <1>2, <1>3, <1>4, <1>6, <2>1, <2>3, <2>4, <2>5 DEF Trio
<1> QED
  BY <1>5, <1>6

LEMMA GoneNext ==
    ASSUME NEW R \in SUBSET Int, NEW d \in Int, d \notin R, NEW T, T = R \cup {d}, NEW n \in R,
           NEW x, NEW y, NEW z, NEW p1, NEW p2, NEW p3, NEW h \in Int, IsNext(T, n, d),
           Follow(R, n, x, y, z), Precede(R, n, p1, p2, p3), y # n, IsInBetweenModular(h, p1, n)
    PROVE  Trio(T, h, n, d, x) /\ Trio(R, h, n, x, y)
<1>1. T \in SUBSET Int /\ n \in T /\ d \in T /\ n # d /\ x \in R /\ y \in R /\ IsNext(R, n, x)
      /\ p1 \in R /\ IsNext(R, p1, n) /\ p1 \in T
  BY DEF Follow, Precede, IsNext
<1>2. x # n /\ IsNext(R, x, y)
  BY DEF Follow
<1>3. p1 # n
  BY ArcEmpty
<1>4. IsNext(T, p1, n)
  BY <1>1, <1>3, NextWith
<1>5. IsNext(T, h - 1, n) /\ IsNext(R, h - 1, n)
  BY <1>1, <1>3, <1>4, ArcOwner
<1>6. IsNext(T, d, x)
  BY <1>1, NextAfter
<1> QED
  BY <1>1, <1>2, <1>5, <1>6 DEF Trio

LEMMA GoneAfter ==
    ASSUME NEW R \in SUBSET Int, NEW d \in Int, d \notin R, NEW T, T = R \cup {d}, NotTwo(R), NEW n \in R,
           NEW x, NEW y, NEW z, NEW p1, NEW p2, NEW p3, NEW h \in Int, IsNext(T, n, d),
           Follow(R, n, x, y, z), Precede(R, n, p1, p2, p3), p1 # n, IsInBetweenModular(h, p2, p1)
    PROVE  Trio(T, h, p1, n, d) /\ Trio(R, h, p1, n, x)
<1>1. T \in SUBSET Int /\ n \in T /\ d \in T /\ n # d /\ x \in R /\ IsNext(R, n, x)
      /\ p1 \in R /\ IsNext(R, p1, n) /\ p1 \in T /\ p2 \in R /\ p2 \in T
  BY DEF Follow, Precede, IsNext
<1>2. IsNext(R, p2, p1)
  BY DEF Precede
<1>3. p2 # p1
  BY <1>1, ArcEmpty
<1>4. p2 # n
  <2>1. p2 = n => R \subseteq {n, p1}
    BY <1>1, <1>2, NextPair
  <2> QED
    BY <1>1, <2>1 DEF NotTwo
<1>5. IsNext(T, p1, n) /\ IsNext(T, p2, p1)
  BY <1>1, <1>2, <1>4, NextWith
<1>6. IsNext(T, h - 1, p1) /\ IsNext(R, h - 1, p1)
  BY <1>1, <1>2, <1>3, <1>5, ArcOwner
<1> QED
  BY <1>1, <1>5, <1>6 DEF Trio

\* No other file has a copy on d.
LEMMA GoneApart ==
    ASSUME NEW R \in SUBSET Int, NEW d \in Int, d \notin R, NEW T, T = R \cup {d}, NotTwo(R), NEW n \in R,
           NEW p1, NEW p2, NEW p3, NEW h \in Int, IsNext(T, n, d), Precede(R, n, p1, p2, p3), p1 # n,
           ~IsInBetweenModular(h, n, d), ~IsInBetweenModular(h, p1, n), ~IsInBetweenModular(h, p2, p1),
           NEW o, NEW x, NEW y, Trio(T, h, o, x, y)
    PROVE  Trio(R, h, o, x, y) /\ d \notin {o, x, y}
<1>1. T \in SUBSET Int /\ n \in T /\ d \in T /\ n # d
      /\ p1 \in R /\ IsNext(R, p1, n) /\ p1 \in T /\ p2 \in R /\ p2 \in T
  BY DEF Precede, IsNext
<1>2. IsNext(R, p2, p1)
  BY DEF Precede
<1>4. p2 # n
  <2>1. p2 = n => R \subseteq {n, p1}
    BY <1>1, <1>2, NextPair
  <2> QED
    BY <1>1, <2>1 DEF NotTwo
<1>5. IsNext(T, p1, n) /\ IsNext(T, p2, p1)
  BY <1>1, <1>2, <1>4, NextWith
<1>6. Precede(T, d, n, p1, p2)
  BY <1>1, <1>5 DEF Precede
<1> QED
  BY <1>6, TrioApart

\* The owner of a file on R holds it on every ring with one more node.
LEMMA OwnStays ==
    ASSUME NEW R \in SUBSET Node, NEW n \in Node, NEW k \in Name, NEW o, Own(R, k, o)
    PROVE  o \in Hold(R \cup {n}, k)
<1> DEFINE T == R \cup {n}
           h == Hash[k]
<1>1. T \in SUBSET Node /\ T # {} /\ h \in Int /\ R \in SUBSET Int /\ T \in SUBSET Int
  BY KeyDistances
<1>2. \E i, x, y \in T : Trio(T, h, i, x, y)
  <2> HIDE DEF T
  <2> QED
    BY <1>1, TrioExists DEF h
<1>3. PICK i \in T, x \in T, y \in T : Trio(T, h, i, x, y)
  BY <1>2
<1>4. AreHolders(T, k, i, x, y)
  <2> HIDE DEF T
  <2> QED
    BY <1>1, <1>3, HoldIs DEF h
<1> HIDE DEF h
<1>5. IsNext(R, h - 1, o) /\ o \in R
  BY DEF Own, IsNext, h
<1>6. IsNext(T, h - 1, i) /\ IsNext(T, i, x) /\ i \in Int /\ x \in Int /\ h - 1 \in Int
  BY <1>1, <1>3 DEF Trio
<1>7. CASE i \in R
  <2>1. IsNext(R, h - 1, i)
    BY <1>6, <1>7 DEF IsNext
  <2>2. i = o
    BY <1>1, <1>5, <1>6, <2>1, NextUnique
  <2> QED
    BY <1>4, <2>2 DEF AreHolders
<1>8. CASE i \notin R
  <2>1. i = n
    BY <1>3, <1>8
  <2>2. x # n
    <3>1. x = n => T \subseteq {n}
      BY <1>1, <1>6, <2>1, NextAlone
    <3> QED
      BY <1>5, <1>8, <2>1, <3>1
  <2>3. x \in R
    BY <1>3, <2>2
  <2>4. IsNext(R, h - 1, x)
    <3>1. IsNext(R \cup {n}, h - 1, n) /\ IsNext(R \cup {n}, n, x) /\ n \in Int /\ h - 1 \in Int
      BY <1>6, <2>1
    <3>2. ASSUME NEW j \in R PROVE ~Passed(h - 1, j, x)
      <4>1. j \in Int /\ x \in Int /\ j \in R \cup {n} /\ x \in R \cup {n}
        BY <1>1, <1>6, <2>3
      <4>2. ~Passed(h - 1, j, n) /\ ~Passed(n, j, x) /\ ~Passed(h - 1, x, n)
        BY <3>1, <4>1 DEF IsNext
      <4> DEFINE g == h - 1
      <4>3. g \in Int /\ ~Passed(g, j, n) /\ ~Passed(n, j, x) /\ ~Passed(g, x, n) /\ x # n /\ j # n
        BY <1>8, <2>1, <2>3, <3>1, <4>2
      <4> HIDE DEF g
      <4>4. ~Passed(g, j, x)
        BY <3>1, <4>1, <4>3 DEF Passed
      <4> QED
        BY <4>4 DEF g
    <3> QED
      BY <2>3, <3>2 DEF IsNext
  <2>5. x = o
    BY <1>1, <1>5, <1>6, <2>4, NextUnique
  <2> QED
    BY <1>4, <2>5 DEF AreHolders
<1> QED
  BY <1>7, <1>8

-----------------------------------------------------------------------------
(* Which way a file goes *)

\* k is copied from its owner o, one of those of F that hold it, B, to the node
\* to, and deleted at x: after that A holds it.
Route(M, F, B, A, k, o, to, x) ==
    /\ Own(M, k, o) /\ o \in B /\ B \subseteq F
    /\ to \in F /\ x \in F \cup {None} /\ to # x
    /\ A = (B \cup {to}) \ {x}

\* The three arcs of a join, from the third predecessor to the newcomer n: of the
\* files on each, n becomes a holder and one node at most ceases to be one.  The holders
\* of the others do not change.
LEMMA JoinRoutes ==
    ASSUME NEW M \in SUBSET Node, M # {}, NEW n \in Node \ M, NEW T, T = M \cup {n}, NEW k \in Name,
           NEW s1, NEW s2, NEW s3, NEW p1, NEW p2, NEW p3,
           Follow(T, n, s1, s2, s3), Precede(T, n, p1, p2, p3)
    PROVE  /\ IsInBetweenModular(Hash[k], p1, n) =>
                 Route(M, T, Hold(M, k), Hold(T, k), k, s1, n, IF s3 # n THEN s3 ELSE None)
           /\ IsInBetweenModular(Hash[k], p2, p1) =>
                 Route(M, T, Hold(M, k), Hold(T, k), k, p1, n, IF s3 # n /\ s2 # p1 THEN s2 ELSE None)
           /\ p2 # n /\ IsInBetweenModular(Hash[k], p3, p2) =>
                 Route(M, T, Hold(M, k), Hold(T, k), k, p2, n, IF s3 # n /\ s1 # p2 THEN s1 ELSE None)
           /\ /\ ~IsInBetweenModular(Hash[k], p1, n) /\ ~IsInBetweenModular(Hash[k], p2, p1)
              /\ p2 # n => ~IsInBetweenModular(Hash[k], p3, p2)
              => Hold(T, k) = Hold(M, k)
<1> DEFINE h == Hash[k]
<1>1. /\ T \in SUBSET Node /\ T # {} /\ h \in Int /\ M \in SUBSET Int /\ T \in SUBSET Int /\ n \in Int /\ n \notin M
      /\ None \notin T
  BY KeyDistances
<1>2. /\ s1 \in T /\ s2 \in T /\ s3 \in T /\ p1 \in T /\ p2 \in T /\ p3 \in T /\ n \in T
      /\ IsNext(T, n, s1) /\ IsNext(T, p1, n)
  BY DEF Follow, Precede, IsNext
<1>3. s1 # n /\ p1 # n /\ IsNext(T, s1, s2) /\ IsNext(T, p2, p1)
  <2>1. ~(T \subseteq {n})
    BY <1>1
  <2>2. s1 # n /\ p1 # n
    BY <1>1, <1>2, <2>1, NextAlone
  <2> QED
    BY <2>2 DEF Follow, Precede
<1>4. \A o, x, y : Trio(T, h, o, x, y) => AreHolders(T, k, o, x, y)
  BY <1>1, HoldIs DEF h
<1>5. \A o, x, y : Trio(M, h, o, x, y) => AreHolders(M, k, o, x, y)
  BY HoldIs DEF h
<1> HIDE DEF h
\* With less than three others the last slot is the node's own.
<1>6. s2 # n => IsNext(T, s2, s3)
  BY DEF Follow
<1>7. s3 = n => s2 = n \/ s2 = p1
  BY <1>1, <1>2, <1>6, PrevUnique
<1>8. s2 = n => s1 = p1 /\ s3 = n
  <2>1. s2 = n => s1 = p1
    BY <1>1, <1>2, <1>3, PrevUnique
  <2> QED
    BY <2>1 DEF Follow
<1>9. s2 = p1 => s1 = p2 /\ s3 = n
  <2>1. s2 = p1 => s1 = p2
    BY <1>1, <1>2, <1>3, PrevUnique
  <2>2. s2 = p1 => s3 = n
    BY <1>1, <1>2, <1>3, <1>6, NextUnique
  <2> QED
    BY <2>1, <2>2
<1>10. s1 = p1 => s2 = n
  BY <1>1, <1>2, <1>3, NextUnique
<1>11. s1 = p2 => s2 = p1
  BY <1>1, <1>2, <1>3, NextUnique
<1>12. s1 # s2 /\ (s3 # n => s3 # s1 /\ s3 # s2)
  <2>1. s1 # s2
    <3>1. s1 = s2 => T \subseteq {s1}
      BY <1>1, <1>2, <1>3, NextAlone
    <3> QED
      BY <1>2, <1>3, <3>1
  <2>2. s3 # n => s2 # n
    BY <1>8
  <2>3. s3 # n => s3 # s2
    <3>1. s2 # n /\ s3 = s2 => T \subseteq {s2}
      BY <1>1, <1>2, <1>6, NextAlone
    <3> QED
      BY <1>2, <2>2, <3>1
  <2>4. s3 # n => s3 # s1
    <3>1. s2 # n /\ s3 = s1 => T \subseteq {s1, s2}
      BY <1>1, <1>2, <1>3, <1>6, NextPair
    <3> QED
      BY <1>2, <1>3, <2>2, <3>1
  <2> QED
    BY <2>1, <2>3, <2>4
<1>13. ASSUME IsInBetweenModular(h, p1, n)
       PROVE  Route(M, T, Hold(M, k), Hold(T, k), k, s1, n, IF s3 # n THEN s3 ELSE None)
  <2>1. /\ Trio(T, h, n, s1, s2)
        /\ Trio(M, h, s1, IF s2 = n THEN s1 ELSE s2, IF s2 = n \/ s3 = n THEN s1 ELSE s3)
    BY <1>1, <1>13, TrioOwn
  <2>2. AreHolders(T, k, n, s1, s2)
        /\ AreHolders(M, k, s1, IF s2 = n THEN s1 ELSE s2, IF s2 = n \/ s3 = n THEN s1 ELSE s3)
    BY <1>4, <1>5, <2>1
  <2>3. Own(M, k, s1) /\ Hold(T, k) = {n, s1, s2}
        /\ Hold(M, k) = {s1, IF s2 = n THEN s1 ELSE s2, IF s2 = n \/ s3 = n THEN s1 ELSE s3}
    BY <2>2 DEF AreHolders
  <2>4. Hold(M, k) \subseteq T /\ s1 \in Hold(M, k)
    BY <1>2, <2>3
  <2>5. CASE s3 # n
    BY <1>1, <1>2, <1>3, <1>8, <1>12, <2>3, <2>4, <2>5 DEF Route
  <2>6. CASE s3 = n
    <3>1. Hold(T, k) = (Hold(M, k) \cup {n}) \ {None}
      BY <1>1, <1>2, <2>3, <2>6
    <3> QED
      BY <1>1, <1>2, <2>3, <2>4, <2>6, <3>1 DEF Route
  <2> QED
    BY <2>5, <2>6
<1>14. ASSUME IsInBetweenModular(h, p2, p1)
       PROVE  Route(M, T, Hold(M, k), Hold(T, k), k, p1, n, IF s3 # n /\ s2 # p1 THEN s2 ELSE None)
  <2>1. p1 \in M /\ Trio(T, h, p1, n, s1) /\ Trio(M, h, p1, s1, IF s1 = p1 \/ s2 = n THEN p1 ELSE s2)
    BY <1>1, <1>14, TrioBefore
  <2>2. AreHolders(T, k, p1, n, s1) /\ AreHolders(M, k, p1, s1, IF s1 = p1 \/ s2 = n THEN p1 ELSE s2)
    BY <1>4, <1>5, <2>1
  <2>3. Own(M, k, p1) /\ Hold(T, k) = {p1, n, s1}
        /\ Hold(M, k) = {p1, s1, IF s1 = p1 \/ s2 = n THEN p1 ELSE s2}
    BY <2>2 DEF AreHolders
  <2>4. Hold(M, k) \subseteq T /\ p1 \in Hold(M, k)
    BY <1>2, <2>3
  <2>5. CASE s3 # n
    <3>1. s2 # n /\ s2 # p1 /\ s1 # p1
      BY <1>8, <1>9, <1>10, <2>5
    <3> QED
      BY <1>1, <1>2, <1>3, <1>12, <2>3, <2>4, <2>5, <3>1 DEF Route
  <2>6. CASE s3 = n
    <3>1. Hold(T, k) = (Hold(M, k) \cup {n}) \ {None}
      BY <1>1, <1>2, <1>7, <2>3, <2>6
    <3> QED
      BY <1>1, <1>2, <2>3, <2>4, <2>6, <3>1 DEF Route
  <2> QED
    BY <2>5, <2>6
<1>15. ASSUME p2 # n, IsInBetweenModular(h, p3, p2)
       PROVE  Route(M, T, Hold(M, k), Hold(T, k), k, p2, n, IF s3 # n /\ s1 # p2 THEN s1 ELSE None)
  <2>1. p2 \in M /\ Trio(T, h, p2, p1, n) /\ Trio(M, h, p2, p1, s1)
    BY <1>1, <1>15, TrioBeforeThat
  <2>2. AreHolders(T, k, p2, p1, n) /\ AreHolders(M, k, p2, p1, s1)
    BY <1>4, <1>5, <2>1
  <2>3. Own(M, k, p2) /\ Hold(T, k) = {p2, p1, n} /\ Hold(M, k) = {p2, p1, s1}
    BY <2>2 DEF AreHolders
  <2>4. Hold(M, k) \subseteq T /\ p2 \in Hold(M, k)
    BY <1>2, <2>3
  <2>5. CASE s3 # n
    <3>1. s1 # p1 /\ s1 # p2
      BY <1>8, <1>9, <1>10, <1>11, <2>5
    <3> QED
      BY <1>1, <1>2, <1>3, <2>3, <2>4, <2>5, <3>1 DEF Route
  <2>6. CASE s3 = n
    <3>1. s1 = p1 \/ s1 = p2
      BY <1>7, <1>8, <1>9, <2>6
    <3>2. Hold(T, k) = (Hold(M, k) \cup {n}) \ {None}
      BY <1>1, <1>2, <2>3, <3>1
    <3> QED
      BY <1>1, <1>2, <2>3, <2>4, <2>6, <3>2 DEF Route
  <2> QED
    BY <2>5, <2>6
<1>16. ASSUME ~IsInBetweenModular(h, p1, n), ~IsInBetweenModular(h, p2, p1),
              p2 # n => ~IsInBetweenModular(h, p3, p2)
       PROVE  Hold(T, k) = Hold(M, k)
  <2>1. PICK o \in T, x \in T, y \in T : Trio(T, h, o, x, y)
    BY <1>1, TrioExists DEF h
  <2>2. Trio(M, h, o, x, y)
    BY <1>1, <1>16, <2>1, TrioApart
  <2>3. AreHolders(T, k, o, x, y) /\ AreHolders(M, k, o, x, y)
    BY <1>4, <1>5, <2>1, <2>2
  <2> QED
    BY <2>3 DEF AreHolders
<1> QED
  BY <1>13, <1>14, <1>15, <1>16 DEF h

\* Where the files of the ring M with d go that have lost a copy with d: those of
\* d itself, of n, the node before it, and of the node before n.
RepairGoes(M, T, n, d, k, s1, s2, s3, p1, p2) ==
    /\ IsInBetweenModular(Hash[k], n, d) =>
          Route(M, M, Hold(T, k) \cap M, Hold(M, k), k, s1, s3, None)
    /\ s2 # n /\ IsInBetweenModular(Hash[k], p1, n) =>
          Route(M, M, Hold(T, k) \cap M, Hold(M, k), k, n, s2, None)
    /\ p1 # n /\ IsInBetweenModular(Hash[k], p2, p1) =>
          Route(M, M, Hold(T, k) \cap M, Hold(M, k), k, p1, s1, None)
    /\ /\ ~IsInBetweenModular(Hash[k], n, d)
       /\ s2 # n => ~IsInBetweenModular(Hash[k], p1, n)
       /\ p1 # n => ~IsInBetweenModular(Hash[k], p2, p1)
       => Hold(T, k) \cap M = Hold(M, k)

LEMMA RepairRoutes ==
    ASSUME NEW M \in SUBSET Node, NEW d \in Node \ M, NEW T, T = M \cup {d}, NotTwo(M), NEW n \in M,
           NEW k \in Name, IsNext(T, n, d),
           NEW s1, NEW s2, NEW s3, NEW p1, NEW p2, NEW p3,
           Follow(M, n, s1, s2, s3), Precede(M, n, p1, p2, p3)
    PROVE  RepairGoes(M, T, n, d, k, s1, s2, s3, p1, p2)
<1> DEFINE h == Hash[k]
<1>1. /\ T \in SUBSET Node /\ T # {} /\ h \in Int /\ M \in SUBSET Int /\ T \in SUBSET Int /\ d \in Int /\ d \notin M
      /\ None \notin T /\ M # {} /\ n \in T /\ d \in T /\ n \in Int
  BY KeyDistances
<1>2. /\ s1 \in M /\ s2 \in M /\ s3 \in M /\ p1 \in M /\ p2 \in M /\ p3 \in M
      /\ IsNext(M, n, s1) /\ IsNext(M, p1, n)
  BY DEF Follow, Precede, IsNext
<1>3. \A o, x, y : Trio(T, h, o, x, y) => AreHolders(T, k, o, x, y)
  BY <1>1, HoldIs DEF h
<1>4. \A o, x, y : Trio(M, h, o, x, y) => AreHolders(M, k, o, x, y)
  BY HoldIs DEF h
<1> HIDE DEF h
<1>5. s2 = n => s1 = n /\ p1 = n /\ M \subseteq {n}
  <2>1. s1 # n => IsNext(M, s1, s2)
    BY DEF Follow
  <2>2. s1 # n /\ s2 = n => M \subseteq {n, s1}
    BY <1>1, <1>2, <2>1, NextPair
  <2>3. s2 = n => s1 = n
    BY <1>2, <2>2 DEF NotTwo
  <2>4. s1 = n => M \subseteq {n}
    BY <1>1, <1>2, NextAlone
  <2> QED
    BY <1>2, <2>3, <2>4
<1>6. s2 # n => p1 # n
  <2>1. p1 = n => M \subseteq {n}
    BY <1>1, <1>2, NextAlone
  <2> QED
    BY <1>2, <2>1
<1>7. ASSUME IsInBetweenModular(h, n, d)
      PROVE  Route(M, M, Hold(T, k) \cap M, Hold(M, k), k, s1, s3, None)
  <2>1. Trio(T, h, d, s1, IF s1 = n THEN d ELSE s2) /\ Trio(M, h, s1, s2, s3)
    BY <1>1, <1>7, GoneOwn
  <2>2. AreHolders(T, k, d, s1, IF s1 = n THEN d ELSE s2) /\ AreHolders(M, k, s1, s2, s3)
    BY <1>3, <1>4, <2>1
  <2>3. /\ Own(M, k, s1) /\ Hold(T, k) = {d, s1, IF s1 = n THEN d ELSE s2} /\ Hold(M, k) = {s1, s2, s3}
    BY <2>2 DEF AreHolders
  <2>4. s1 = n => s2 = n
    BY DEF Follow
  <2>5. Hold(T, k) \cap M = {s1, s2}
    BY <1>1, <1>2, <2>3, <2>4
  <2>6. Hold(M, k) = ((Hold(T, k) \cap M) \cup {s3}) \ {None}
    BY <1>1, <1>2, <2>3, <2>5
  <2> QED
    BY <1>1, <1>2, <2>3, <2>5, <2>6 DEF Route
<1>8. ASSUME s2 # n, IsInBetweenModular(h, p1, n)
      PROVE  Route(M, M, Hold(T, k) \cap M, Hold(M, k), k, n, s2, None)
  <2>1. Trio(T, h, n, d, s1) /\ Trio(M, h, n, s1, s2)
    BY <1>1, <1>8, GoneNext
  <2>2. AreHolders(T, k, n, d, s1) /\ AreHolders(M, k, n, s1, s2)
    BY <1>3, <1>4, <2>1
  <2>3. Own(M, k, n) /\ Hold(T, k) = {n, d, s1} /\ Hold(M, k) = {n, s1, s2}
    BY <2>2 DEF AreHolders
  <2>4. Hold(T, k) \cap M = {n, s1}
    BY <1>1, <1>2, <2>3
  <2>5. Hold(M, k) = ((Hold(T, k) \cap M) \cup {s2}) \ {None}
    BY <1>1, <1>2, <2>3, <2>4
  <2> QED
    BY <1>1, <1>2, <2>3, <2>4, <2>5 DEF Route
<1>9. ASSUME p1 # n, IsInBetweenModular(h, p2, p1)
      PROVE  Route(M, M, Hold(T, k) \cap M, Hold(M, k), k, p1, s1, None)
  <2>1. Trio(T, h, p1, n, d) /\ Trio(M, h, p1, n, s1)
    BY <1>1, <1>9, GoneAfter
  <2>2. AreHolders(T, k, p1, n, d) /\ AreHolders(M, k, p1, n, s1)
    BY <1>3, <1>4, <2>1
  <2>3. Own(M, k, p1) /\ Hold(T, k) = {p1, n, d} /\ Hold(M, k) = {p1, n, s1}
    BY <2>2 DEF AreHolders
  <2>4. Hold(T, k) \cap M = {p1, n}
    BY <1>1, <1>2, <2>3
  <2>5. Hold(M, k) = ((Hold(T, k) \cap M) \cup {s1}) \ {None}
    BY <1>1, <1>2, <2>3, <2>4
  <2> QED
    BY <1>1, <1>2, <2>3, <2>4, <2>5 DEF Route
<1>10. ASSUME ~IsInBetweenModular(h, n, d), s2 # n => ~IsInBetweenModular(h, p1, n),
              p1 # n => ~IsInBetweenModular(h, p2, p1)
       PROVE  Hold(T, k) \cap M = Hold(M, k)
  <2>0. PICK o \in T, x \in T, y \in T : Trio(T, h, o, x, y)
    BY <1>1, TrioExists DEF h
  <2>1. AreHolders(T, k, o, x, y) /\ IsNext(T, h - 1, o)
    BY <1>3, <2>0 DEF Trio
  <2>2. CASE s2 # n
    <3>1. Trio(M, h, o, x, y) /\ d \notin {o, x, y}
      BY <1>1, <1>6, <1>10, <2>0, <2>2, GoneApart
    <3>2. AreHolders(M, k, o, x, y)
      BY <1>4, <3>1
    <3> QED
      BY <2>1, <3>1, <3>2 DEF AreHolders
  <2>3. CASE s2 = n
    <3>1. M = {n}
      BY <1>5, <2>3
    <3>2. o # d
      BY <1>1, <1>10, <2>1, ArcOwner
    <3>3. o = n
      BY <2>0, <3>1, <3>2
    <3>4. Hold(M, k) = {n}
      <4>1. Hold(M, k) \subseteq M /\ M # {} /\ \E i \in M : Own(M, k, i)
        BY <1>1, HoldIn, OwnExists
      <4>2. n \in Hold(M, k)
        BY <3>1, <4>1, HoldIn
      <4> QED
        BY <3>1, <4>1, <4>2
    <3>5. Hold(T, k) = {o, x, y}
      BY <2>1 DEF AreHolders
    <3> QED
      BY <1>1, <3>1, <3>3, <3>4, <3>5
  <2> QED
    BY <2>2, <2>3
<1> QED
  BY <1>7, <1>8, <1>9, <1>10 DEF h, RepairGoes

-----------------------------------------------------------------------------
(* The order of the calls for files *)

\* No pair of X stands in q in that order.
Ordered(q, X) == \A i, j \in 1 .. Len(q) : i < j => <<q[i], q[j]>> \notin X

\* The call c is for the file k, or for files k is one of.
Concerns(c, k) ==
    \/ c.do = "keys" /\ IsInBetweenModular(Hash[k], c.a, c.b)
    \/ c.do \in {"get", "force get", "put", "drop"} /\ c.k = k

Concern(q, k) == {c \in Calls(q) : Concerns(c, k)}

\* A file is fetched, then put down, then deleted.
Turn(op) == IF op \in {"get", "force get"} THEN 1 ELSE IF op = "put" THEN 2 ELSE 3

\* Calls for the same file that do not stand in that order.
Tangles ==
    {z \in Call \X Call :
        \E k \in Name : /\ Concerns(z[1], k) /\ Concerns(z[2], k)
                        /\ ~(z[1].do # "keys" /\ z[2].do # "keys" /\ Turn(z[1].do) < Turn(z[2].do))}

\* A newcomer is announced before the files are moved.
Early == {z \in Call \X Call : SuccCall(z[1]) /\ Moving(z[2])}

\* A file is put down right after it has been fetched.
Paired(q) ==
    \A i \in 2 .. Len(q) :
        q[i].do = "put" => q[i - 1].do \in {"get", "force get"} /\ q[i - 1].k = q[i].k

LEMMA OrderedConcat ==
    ASSUME NEW S, NEW q \in Seq(S), NEW r \in Seq(S), NEW X, Ordered(q, X), Ordered(r, X),
           \A c \in Calls(q), d \in Calls(r) : <<c, d>> \notin X
    PROVE  Ordered(q \o r, X)
<1>1. /\ Len(q \o r) = Len(q) + Len(r) /\ Len(q) \in Nat /\ Len(r) \in Nat
      /\ \A i \in 1 .. Len(q) + Len(r) : (q \o r)[i] = IF i <= Len(q) THEN q[i] ELSE r[i - Len(q)]
  BY ConcatProperties, LenProperties
<1>2. SUFFICES ASSUME NEW i \in 1 .. Len(q) + Len(r), NEW j \in 1 .. Len(q) + Len(r), i < j
               PROVE  <<(q \o r)[i], (q \o r)[j]>> \notin X
  BY <1>1 DEF Ordered
<1>3. CASE j <= Len(q)
  <2>1. i \in 1 .. Len(q) /\ j \in 1 .. Len(q) /\ (q \o r)[i] = q[i] /\ (q \o r)[j] = q[j]
    BY <1>1, <1>2, <1>3
  <2> QED
    BY <1>2, <2>1 DEF Ordered
<1>4. CASE i <= Len(q) /\ j > Len(q)
  <2>1. i \in 1 .. Len(q) /\ j - Len(q) \in 1 .. Len(r)
        /\ (q \o r)[i] = q[i] /\ (q \o r)[j] = r[j - Len(q)]
    BY <1>1, <1>4
  <2> QED
    BY <2>1 DEF Calls
<1>5. CASE i > Len(q)
  <2> DEFINE u == i - Len(q)
             v == j - Len(q)
  <2>1. u \in 1 .. Len(r) /\ v \in 1 .. Len(r) /\ u < v
        /\ (q \o r)[i] = r[u] /\ (q \o r)[j] = r[v]
    BY <1>1, <1>2, <1>5
  <2> HIDE DEF u, v
  <2> QED
    BY <2>1 DEF Ordered
<1>6. j <= Len(q) \/ (i <= Len(q) /\ j > Len(q)) \/ i > Len(q)
  BY <1>1, <1>2
<1> QED
  BY <1>3, <1>4, <1>5, <1>6

LEMMA OrderedTail ==
    ASSUME NEW S, NEW q \in Seq(S), q # <<>>, NEW X, Ordered(q, X)
    PROVE  Ordered(Tail(q), X) /\ \A c \in Calls(Tail(q)) : <<Head(q), c>> \notin X
<1>1. /\ Head(q) \in S /\ Tail(q) \in Seq(S) /\ Len(Tail(q)) = Len(q) - 1
      /\ \A i \in 1 .. Len(Tail(q)) : Tail(q)[i] = q[i + 1]
      /\ Len(q) \in Nat /\ Len(q) # 0 /\ Head(q) = q[1]
  BY HeadTailProperties, LenProperties, EmptySeq
<1>2. \A i \in 1 .. Len(Tail(q)) : i + 1 \in 1 .. Len(q) /\ Tail(q)[i] = q[i + 1]
  BY <1>1
<1>3. ASSUME NEW i \in 1 .. Len(Tail(q)), NEW j \in 1 .. Len(Tail(q)), i < j
      PROVE  <<Tail(q)[i], Tail(q)[j]>> \notin X
  <2>1. i + 1 \in 1 .. Len(q) /\ j + 1 \in 1 .. Len(q) /\ i + 1 < j + 1
    BY <1>2, <1>3
  <2>2. <<q[i + 1], q[j + 1]>> \notin X
    BY <2>1 DEF Ordered
  <2> QED
    BY <1>2, <2>2
<1>4. ASSUME NEW c \in Calls(Tail(q)) PROVE <<Head(q), c>> \notin X
  <2>1. PICK i \in 1 .. Len(Tail(q)) : c = Tail(q)[i]
    BY DEF Calls
  <2>2. 1 \in 1 .. Len(q) /\ i + 1 \in 1 .. Len(q) /\ 1 < i + 1
    BY <1>1, <1>2
  <2>3. <<q[1], q[i + 1]>> \notin X
    BY <2>2 DEF Ordered
  <2> QED
    BY <1>1, <1>2, <2>1, <2>3
<1> QED
  BY <1>3, <1>4 DEF Ordered

LEMMA OrderedNone ==
    ASSUME NEW q, NEW X, \A c \in Calls(q), d \in Calls(q) : <<c, d>> \notin X
    PROVE  Ordered(q, X)
BY DEF Ordered, Calls

LEMMA OrderedOne ==
    ASSUME NEW c, NEW X
    PROVE  Ordered(<<c>>, X) /\ Calls(<<c>>) = {c}
<1>1. Len(<<c>>) = 1 /\ <<c>>[1] = c
  OBVIOUS
<1>2. \A i, j \in 1 .. 1 : ~(i < j)
  OBVIOUS
<1> QED
  BY <1>1, <1>2 DEF Ordered, Calls

LEMMA PairedTail ==
    ASSUME NEW S, NEW q \in Seq(S), q # <<>>, Paired(q)
    PROVE  /\ Paired(Tail(q))
           /\ \A c \in Calls(q) : c.do = "put" /\ c # Head(q) =>
                 \E d \in Calls(q) : d.do \in {"get", "force get"} /\ d.k = c.k
<1>1. /\ Head(q) \in S /\ Tail(q) \in Seq(S) /\ Len(Tail(q)) = Len(q) - 1
      /\ \A i \in 1 .. Len(Tail(q)) : Tail(q)[i] = q[i + 1]
      /\ Len(q) \in Nat /\ Len(q) # 0 /\ Head(q) = q[1]
  BY HeadTailProperties, LenProperties, EmptySeq
<1>2. ASSUME NEW i \in 2 .. Len(Tail(q)), Tail(q)[i].do = "put"
      PROVE  Tail(q)[i - 1].do \in {"get", "force get"} /\ Tail(q)[i - 1].k = Tail(q)[i].k
  <2>1. i + 1 \in 2 .. Len(q) /\ i - 1 \in 1 .. Len(Tail(q)) /\ i \in 1 .. Len(Tail(q)) /\ (i + 1) - 1 = i /\ (i - 1) + 1 = i
    BY <1>1
  <2>2. Tail(q)[i] = q[i + 1] /\ Tail(q)[i - 1] = q[i]
    BY <1>1, <2>1
  <2>3. q[i + 1].do = "put" => q[i].do \in {"get", "force get"} /\ q[i].k = q[i + 1].k
    BY <2>1 DEF Paired
  <2> QED
    BY <1>2, <2>2, <2>3
<1>3. ASSUME NEW c \in Calls(q), c.do = "put", c # Head(q)
      PROVE  \E d \in Calls(q) : d.do \in {"get", "force get"} /\ d.k = c.k
  <2>1. PICK i \in 1 .. Len(q) : c = q[i]
    BY DEF Calls
  <2>2. i \in 2 .. Len(q) /\ i - 1 \in 1 .. Len(q)
    BY <1>1, <1>3, <2>1
  <2>3. q[i - 1].do \in {"get", "force get"} /\ q[i - 1].k = q[i].k
    BY <1>3, <2>1, <2>2 DEF Paired
  <2> QED
    BY <2>1, <2>2, <2>3 DEF Calls
<1> QED
  BY <1>2, <1>3 DEF Paired

LEMMA PairedConcat ==
    ASSUME NEW S, NEW q \in Seq(S), NEW r \in Seq(S), Paired(q), Paired(r),
           r # <<>> => r[1].do # "put"
    PROVE  Paired(q \o r)
<1>1. /\ Len(q \o r) = Len(q) + Len(r) /\ Len(q) \in Nat /\ Len(r) \in Nat
      /\ \A i \in 1 .. Len(q) + Len(r) : (q \o r)[i] = IF i <= Len(q) THEN q[i] ELSE r[i - Len(q)]
  BY ConcatProperties, LenProperties
<1>2. SUFFICES ASSUME NEW i \in 2 .. Len(q) + Len(r), (q \o r)[i].do = "put"
               PROVE  (q \o r)[i - 1].do \in {"get", "force get"} /\ (q \o r)[i - 1].k = (q \o r)[i].k
  BY <1>1 DEF Paired
<1>3. i - 1 \in 1 .. Len(q) + Len(r) /\ i \in 1 .. Len(q) + Len(r)
  BY <1>1
<1>4. CASE i <= Len(q)
  <2>1. i \in 2 .. Len(q) /\ (q \o r)[i] = q[i] /\ (q \o r)[i - 1] = q[i - 1]
    BY <1>1, <1>3, <1>4
  <2> QED
    BY <1>2, <2>1 DEF Paired
<1>5. CASE i = Len(q) + 1
  <2>1. (q \o r)[i] = r[1] /\ r # <<>>
    BY <1>1, <1>3, <1>5
  <2> QED
    BY <1>2, <2>1
<1>6. CASE i > Len(q) + 1
  <2> DEFINE u == i - Len(q)
  <2>1. u \in 2 .. Len(r) /\ (q \o r)[i] = r[u] /\ (q \o r)[i - 1] = r[u - 1]
    BY <1>1, <1>3, <1>6
  <2> HIDE DEF u
  <2> QED
    BY <1>2, <2>1 DEF Paired
<1>7. i <= Len(q) \/ i = Len(q) + 1 \/ i > Len(q) + 1
  BY <1>1, <1>3
<1> QED
  BY <1>4, <1>5, <1>6, <1>7

LEMMA PairedNone ==
    ASSUME NEW q, \A c \in Calls(q) : c.do # "put"
    PROVE  Paired(q)
<1>1. \A i \in 2 .. Len(q) : i \in 1 .. Len(q)
  OBVIOUS
<1> QED
  BY <1>1 DEF Paired, Calls

\* Which calls for k are left when the head has been made.
LEMMA ConcernTail ==
    ASSUME NEW q \in Seq(Call), q # <<>>, Ordered(q, Tangles), NEW k \in Name
    PROVE  /\ ~Concerns(Head(q), k) => Concern(q, k) = Concern(Tail(q), k)
           /\ Concerns(Head(q), k) =>
                 /\ Concern(Tail(q), k) = Concern(q, k) \ {Head(q)}
                 /\ Head(q) \in Concern(q, k)
                 /\ \A c \in Concern(q, k) : c = Head(q) \/
                       (Head(q).do # "keys" /\ c.do # "keys" /\ Turn(Head(q).do) < Turn(c.do))
<1>1. Head(q) \in Call /\ Tail(q) \in Seq(Call) /\ Calls(q) = {Head(q)} \cup Calls(Tail(q))
  BY CallsTail
<1>2. \A c \in Calls(Tail(q)) : <<Head(q), c>> \notin Tangles
  BY OrderedTail
<1>3. Calls(Tail(q)) \subseteq Call
  <2>1. \A i \in 1 .. Len(Tail(q)) : Tail(q)[i] \in Call
    BY <1>1, ElementOfSeq
  <2> QED
    BY <2>1 DEF Calls
<1>4. ASSUME Concerns(Head(q), k), NEW c \in Concern(Tail(q), k)
      PROVE  Head(q).do # "keys" /\ c.do # "keys" /\ Turn(Head(q).do) < Turn(c.do)
  <2>1. c \in Calls(Tail(q)) /\ Concerns(c, k) /\ c \in Call
    BY <1>3 DEF Concern
  <2>2. <<Head(q), c>> \in Call \X Call /\ <<Head(q), c>>[1] = Head(q) /\ <<Head(q), c>>[2] = c
    BY <1>1, <2>1
  <2>3. <<Head(q), c>> \notin Tangles
    BY <1>2, <2>1
  <2> QED
    BY <1>4, <2>1, <2>2, <2>3 DEF Tangles
<1>5. Turn(Head(q).do) \in Int
  BY DEF Turn
<1>6. ASSUME Concerns(Head(q), k) PROVE Head(q) \notin Concern(Tail(q), k)
  BY <1>4, <1>5, <1>6
<1>7. Concern(q, k) = Concern(Tail(q), k) \cup {c \in {Head(q)} : Concerns(c, k)}
  BY <1>1 DEF Concern
<1> QED
  BY <1>4, <1>6, <1>7

FetchOf(by, m, k) == [do |-> by, at |-> m, k |-> k]
PutOf(m, k) == [do |-> "put", at |-> m, k |-> k]
DropAt(m, k) == [do |-> "drop", at |-> m, k |-> k]

\* The calls for a deletion at x, None where there is nothing to delete.
DropOf(x, k) == {c \in {DropAt(x, k)} : x # None}

\* The calls the call c for a list of names is followed by, for the name k.
FileSteps(c, k) == {FetchOf(c.by, c.at, k), PutOf(c.to, k)} \cup DropOf(c.drop, k)

\* The sequence q of calls, of the set C, with no pair of X.
Orderly(q, C, X) == q \in Seq(Call) /\ Calls(q) = C /\ Ordered(q, X)

LEMMA OrderlyOne ==
    ASSUME NEW c \in Call, NEW X
    PROVE  Orderly(<<c>>, {c}, X)
<1>1. <<c>> \in Seq(Call) /\ Calls(<<c>>) = {c} /\ Ordered(<<c>>, X)
  BY OrderedOne
<1> QED
  BY <1>1 DEF Orderly

LEMMA OrderlyWhen ==
    ASSUME NEW b \in BOOLEAN, NEW q, NEW C, NEW X, Orderly(q, C, X)
    PROVE  Orderly(When(b, q), {c \in C : b}, X)
<1>1. CASE b
  BY <1>1 DEF When
<1>2. CASE ~b
  <2>1. <<>> \in Seq(Call) /\ Calls(<<>>) = {} /\ Ordered(<<>>, X)
    BY DEF Calls, Ordered
  <2>2. {c \in C : b} = {} /\ When(b, q) = <<>>
    BY <1>2 DEF When
  <2> QED
    BY <2>1, <2>2 DEF Orderly
<1> QED
  BY <1>1, <1>2

LEMMA OrderlyConcat ==
    ASSUME NEW q, NEW r, NEW C, NEW D, NEW X, Orderly(q, C, X), Orderly(r, D, X),
           \A c \in C, d \in D : <<c, d>> \notin X
    PROVE  Orderly(q \o r, C \cup D, X)
<1>1. q \in Seq(Call) /\ r \in Seq(Call) /\ Calls(q) = C /\ Calls(r) = D /\ Ordered(q, X) /\ Ordered(r, X)
  BY DEF Orderly
<1>2. q \o r \in Seq(Call) /\ Calls(q \o r) = C \cup D
  BY <1>1, CallsConcat
<1>3. Ordered(q \o r, X)
  BY <1>1, OrderedConcat
<1> QED
  BY <1>2, <1>3 DEF Orderly

\* Only moves of files are in each other's way.
LEMMA MovesTangle ==
    ASSUME NEW c, NEW d
    PROVE  /\ <<c, d>> \in Tangles => Moving(c) /\ Moving(d)
           /\ <<c, d>> \in Early => SuccCall(c) /\ Moving(d)
<1>1. <<c, d>>[1] = c /\ <<c, d>>[2] = d
  OBVIOUS
<1> QED
  BY <1>1 DEF Tangles, Early, Concerns, Moving

LEMMA FilesApart ==
    ASSUME NEW c \in FileCall, NEW d \in FileCall, c.k # d.k
    PROVE  <<c, d>> \notin Tangles
<1>1. <<c, d>>[1] = c /\ <<c, d>>[2] = d /\ c.do # "keys" /\ d.do # "keys"
  BY DEF FileCall
<1> QED
  BY <1>1 DEF Tangles, Concerns

LEMMA InTurn ==
    ASSUME NEW c \in FileCall, NEW d \in FileCall, Turn(c.do) < Turn(d.do)
    PROVE  <<c, d>> \notin Tangles
<1>1. <<c, d>>[1] = c /\ <<c, d>>[2] = d /\ c.do # "keys" /\ d.do # "keys"
  BY DEF FileCall
<1> QED
  BY <1>1 DEF Tangles

\* c and d ask for the names of arcs without a common name.
LEMMA KeysApart ==
    ASSUME NEW c, NEW d, c.do = "keys", d.do = "keys",
           \A k \in Name : ~(IsInBetweenModular(Hash[k], c.a, c.b) /\ IsInBetweenModular(Hash[k], d.a, d.b))
    PROVE  <<c, d>> \notin Tangles
<1>1. <<c, d>>[1] = c /\ <<c, d>>[2] = d
  OBVIOUS
<1> QED
  BY <1>1 DEF Tangles, Concerns

LEMMA FileCallIs ==
    ASSUME NEW by \in {"get", "force get"}, NEW m \in Node, NEW k \in Name
    PROVE  /\ FetchOf(by, m, k) \in FileCall /\ PutOf(m, k) \in FileCall /\ DropAt(m, k) \in FileCall
           /\ FetchOf(by, m, k).do = by /\ PutOf(m, k).do = "put" /\ DropAt(m, k).do = "drop"
           /\ FetchOf(by, m, k).k = k /\ PutOf(m, k).k = k /\ DropAt(m, k).k = k
           /\ FetchOf(by, m, k).at = m /\ PutOf(m, k).at = m /\ DropAt(m, k).at = m
BY DEF FetchOf, PutOf, DropAt, FileCall

LEMMA MoveFileOrder ==
    ASSUME NEW c \in KeysCall, NEW k \in Name
    PROVE  /\ MoveFile(c, k) \in Seq(FileCall) /\ MoveFile(c, k) # <<>> /\ MoveFile(c, k)[1].do # "put"
           /\ Calls(MoveFile(c, k)) = FileSteps(c, k)
           /\ Ordered(MoveFile(c, k), Tangles) /\ Paired(MoveFile(c, k))
           /\ \A x \in FileSteps(c, k) : x \in FileCall /\ x.k = k
<1> DEFINE f == FetchOf(c.by, c.at, k)
           p == PutOf(c.to, k)
           e == DropAt(c.drop, k)
           x == <<f>> \o <<p>>
           y == IF c.drop # None THEN <<e>> ELSE <<>>
<1>0. c.at \in Node /\ c.by \in {"get", "force get"} /\ c.to \in Node /\ c.drop \in Node \cup {None}
  BY DEF KeysCall
<1>1. /\ f \in FileCall /\ p \in FileCall /\ (c.drop # None => e \in FileCall)
      /\ f.do \in {"get", "force get"} /\ p.do = "put" /\ e.do = "drop"
      /\ f.k = k /\ p.k = k /\ e.k = k
  <2>1. f \in FileCall /\ f.do = c.by /\ f.k = k
    BY <1>0 DEF FetchOf, FileCall
  <2>2. p \in FileCall /\ p.do = "put" /\ p.k = k
    BY <1>0 DEF PutOf, FileCall
  <2>3. c.drop # None => e \in FileCall
    BY <1>0 DEF DropAt, FileCall
  <2>4. e.do = "drop" /\ e.k = k
    BY DEF DropAt
  <2> QED
    BY <1>0, <2>1, <2>2, <2>3, <2>4
<1>2. MoveFile(c, k) = x \o y
  BY DEF MoveFile, Fetch, Put, Drop, When, FetchOf, PutOf, DropAt
<1>8. FileSteps(c, k) = {f, p} \cup {z \in {e} : c.drop # None}
  BY DEF FileSteps, DropOf
<1> HIDE DEF f, p, e
<1>3. /\ x \in Seq(FileCall) /\ Len(x) = 2 /\ x[1] = f /\ x[2] = p /\ x # <<>>
      /\ Calls(x) = {f, p}
  <2>1. f \in FileCall /\ p \in FileCall
    BY <1>1
  <2>2. x \in Seq(FileCall) /\ Len(x) = 2 /\ x[1] = f /\ x[2] = p
    BY <2>1
  <2>3. 1 .. 2 = {1, 2}
    OBVIOUS
  <2> HIDE DEF x
  <2>4. Calls(x) = {f, p}
    BY <2>2, <2>3 DEF Calls
  <2>5. x # <<>>
    BY <2>2
  <2> QED
    BY <2>2, <2>4, <2>5
<1>4. /\ y \in Seq(FileCall) /\ Calls(y) = {z \in {e} : c.drop # None}
      /\ (y # <<>> => y[1] = e)
  <2>1. CASE c.drop # None
    <3>1. e \in FileCall /\ y = <<e>>
      BY <1>1, <2>1
    <3>2. <<e>> \in Seq(FileCall) /\ <<e>>[1] = e
      BY <3>1
    <3>3. Calls(<<e>>) = {e}
      BY OrderedOne
    <3>4. {z \in {e} : c.drop # None} = {e}
      BY <2>1
    <3> HIDE DEF y
    <3> QED
      BY <3>1, <3>2, <3>3, <3>4
  <2>2. CASE c.drop = None
    <3>1. y = <<>> /\ <<>> \in Seq(FileCall) /\ Calls(<<>>) = {}
      BY <2>2 DEF Calls
    <3>2. {z \in {e} : c.drop # None} = {}
      BY <2>2
    <3> HIDE DEF y
    <3> QED
      BY <3>1, <3>2
  <2> QED
    BY <2>1, <2>2
<1>15. Turn(f.do) = 1 /\ Turn(p.do) = 2 /\ Turn(e.do) = 3
  <2>1. "put" \notin {"get", "force get"} /\ "drop" \notin {"get", "force get"} /\ "drop" # "put"
    OBVIOUS
  <2> QED
    BY <1>1, <2>1, Zenon DEF Turn
<1>5. Ordered(x, Tangles) /\ Ordered(y, Tangles)
  <2>1. Ordered(<<f>>, Tangles) /\ Ordered(<<p>>, Tangles) /\ Ordered(<<e>>, Tangles)
        /\ Calls(<<f>>) = {f} /\ Calls(<<p>>) = {p}
    BY OrderedOne
  <2>2. <<f, p>> \notin Tangles
    <3>1. Turn(f.do) < Turn(p.do)
      BY <1>15
    <3> QED
      BY <1>1, <3>1, InTurn
  <2>3. <<f>> \in Seq(FileCall) /\ <<p>> \in Seq(FileCall)
    <3>1. f \in FileCall /\ p \in FileCall
      BY <1>1
    <3> QED
      BY <3>1
  <2>4. Ordered(x, Tangles)
    BY <2>1, <2>2, <2>3, OrderedConcat
  <2>5. Ordered(<<>>, Tangles)
    BY DEF Ordered
  <2> QED
    BY <2>1, <2>4, <2>5
<1>6. Paired(x) /\ Paired(y)
  <2>1. Paired(x)
    <3>1. \A i \in 2 .. 2 : i = 2 /\ i - 1 = 1
      OBVIOUS
    <3>2. SUFFICES ASSUME NEW i \in 2 .. Len(x), x[i].do = "put"
                   PROVE  x[i - 1].do \in {"get", "force get"} /\ x[i - 1].k = x[i].k
      BY DEF Paired
    <3>3. i = 2 /\ i - 1 = 1
      BY <1>3, <3>1
    <3>4. x[i - 1] = f /\ x[i] = p
      BY <1>3, <3>3
    <3> HIDE DEF x
    <3> QED
      BY <1>1, <3>4
  <2>2. \A z \in Calls(y) : z.do # "put"
    BY <1>1, <1>4
  <2> QED
    BY <2>1, <2>2, PairedNone
<1>7. \A g \in Calls(x), z \in Calls(y) : <<g, z>> \notin Tangles
  <2>1. SUFFICES ASSUME c.drop # None PROVE <<f, e>> \notin Tangles /\ <<p, e>> \notin Tangles
    BY <1>3, <1>4
  <2> QED
    <3>1. Turn(f.do) < Turn(e.do) /\ Turn(p.do) < Turn(e.do)
      BY <1>15
    <3>2. f \in FileCall /\ p \in FileCall /\ e \in FileCall
      BY <1>1, <2>1
    <3> QED
      BY <3>1, <3>2, InTurn
<1> HIDE DEF x, y
<1>9. x \o y \in Seq(FileCall) /\ Calls(x \o y) = Calls(x) \cup Calls(y)
  BY <1>3, <1>4, CallsConcat
<1>10. Ordered(x \o y, Tangles)
  BY <1>3, <1>4, <1>5, <1>7, OrderedConcat
<1>11. Paired(x \o y)
  <2>1. y # <<>> => y[1].do # "put"
    BY <1>1, <1>4
  <2> QED
    BY <1>3, <1>4, <1>6, <2>1, PairedConcat
<1>12. (x \o y)[1] = f /\ x \o y # <<>>
  <2>1. /\ Len(x \o y) = Len(x) + Len(y) /\ Len(y) \in Nat
        /\ \A i \in 1 .. Len(x) + Len(y) : (x \o y)[i] = IF i <= Len(x) THEN x[i] ELSE y[i - Len(x)]
    <3>1. x \in Seq(FileCall) /\ y \in Seq(FileCall)
      BY <1>3, <1>4
    <3> QED
      BY <3>1, ConcatProperties, LenProperties
  <2>2. 1 \in 1 .. Len(x) + Len(y) /\ 1 <= Len(x)
    BY <1>3, <2>1
  <2> QED
    BY <1>3, <1>9, <2>1, <2>2
<1>13. \A z \in FileSteps(c, k) : z \in FileCall /\ z.k = k
  BY <1>1, <1>8
<1>14. f.do # "put"
  BY <1>1
<1> QED
  BY <1>2, <1>3, <1>4, <1>8, <1>9, <1>10, <1>11, <1>12, <1>13, <1>14

\* The calls of q are those for the files of K, in the order they are due.
FilesListed(q, c, K) ==
    /\ q \in Seq(FileCall) /\ Calls(q) = UNION {FileSteps(c, k) : k \in K}
    /\ Ordered(q, Tangles) /\ Paired(q)

LEMMA ListedCalls ==
    ASSUME NEW c \in KeysCall, NEW K \in SUBSET Name, NEW ks, ks = Seqs!SetToSeq(K)
    PROVE  FilesListed(Seqs!FlattenSeq([i \in 1 .. Len(ks) |-> MoveFile(c, ks[i])]), c, K)
<1>1. IsFiniteSet(K)
  BY FileAssumption, FS_Subset
<1> DEFINE ls == Seqs!SetToSeq(K)
<1>2. ls \in Seq(K) /\ K = {ls[i] : i \in 1 .. Len(ls)} /\ \A i, j \in 1 .. Len(ls) : ls[i] = ls[j] => i = j
  BY <1>1, SetToSeqProperties
<1>14. ls = ks
  OBVIOUS
<1> HIDE DEF ls
<1>3. Len(ls) \in Nat /\ \A i \in 1 .. Len(ls) : ls[i] \in Name
  BY <1>2, LenProperties, ElementOfSeq
<1> DEFINE N == Len(ls)
           seqs == [i \in 1 .. N |-> MoveFile(c, ls[i])]
           F == [i \in 0 .. N |-> {q \in Seq(FileCall) : FilesListed(q, c, {ls[j] : j \in 1 .. i})}]
<1>4. \A i \in 1 .. N : MoveFile(c, ls[i]) \in Seq(FileCall)
  BY <1>3, MoveFileOrder
<1>5. seqs \in Seq(Seq(FileCall)) /\ Len(seqs) = N /\ \A i \in 1 .. N : seqs[i] = MoveFile(c, ls[i])
  BY <1>3, <1>4
<1>6. \A i \in 0 .. N : \A q : q \in F[i] <=> FilesListed(q, c, {ls[j] : j \in 1 .. i})
  BY DEF FilesListed
<1> HIDE DEF seqs, F
<1>7. N = 0 => <<>> \in F[0]
  <2>1. FilesListed(<<>>, c, {ls[j] : j \in 1 .. 0})
    <3>1. <<>> \in Seq(FileCall) /\ Calls(<<>>) = {} /\ {ls[j] : j \in 1 .. 0} = {}
      BY DEF Calls
    <3>2. \A z \in Calls(<<>>) : FALSE
      BY <3>1
    <3>3. Ordered(<<>>, Tangles) /\ Paired(<<>>)
      BY <3>2, OrderedNone, PairedNone
    <3>4. UNION {FileSteps(c, k) : k \in {}} = {}
      OBVIOUS
    <3> QED
      BY <3>1, <3>3, <3>4 DEF FilesListed
  <2>2. 0 \in 0 .. N
    BY <1>3
  <2> QED
    BY <1>6, <2>1, <2>2
<1>8. N # 0 => seqs[1] \in F[1]
  <2>1. SUFFICES ASSUME N # 0 PROVE seqs[1] \in F[1]
    OBVIOUS
  <2>2. 1 \in 1 .. N /\ 1 \in 0 .. N /\ {ls[j] : j \in 1 .. 1} = {ls[1]}
    <3>1. 1 .. 1 = {1}
      OBVIOUS
    <3> QED
      BY <1>3, <2>1, <3>1
  <2>3. UNION {FileSteps(c, k) : k \in {ls[1]}} = FileSteps(c, ls[1])
    OBVIOUS
  <2>4. FilesListed(MoveFile(c, ls[1]), c, {ls[1]})
    BY <1>3, <2>2, <2>3, MoveFileOrder DEF FilesListed
  <2> QED
    BY <1>5, <1>6, <2>2, <2>4
<1>9. ASSUME NEW i \in 2 .. N, NEW s \in F[i - 1] PROVE s \o seqs[i] \in F[i]
  <2> DEFINE m == MoveFile(c, ls[i])
             A == {ls[j] : j \in 1 .. (i - 1)}
  <2>1. i \in 1 .. N /\ i \in 0 .. N /\ i - 1 \in 0 .. N /\ ls[i] \in Name /\ seqs[i] = m
    BY <1>3, <1>5
  <2>2. FilesListed(s, c, A)
    BY <1>6, <2>1
  <2>3. /\ m \in Seq(FileCall) /\ m # <<>> /\ m[1].do # "put" /\ Calls(m) = FileSteps(c, ls[i])
        /\ Ordered(m, Tangles) /\ Paired(m) /\ \A x \in FileSteps(c, ls[i]) : x \in FileCall /\ x.k = ls[i]
    BY <2>1, MoveFileOrder
  <2>4. {ls[j] : j \in 1 .. i} = A \cup {ls[i]}
    <3>1. 1 .. i = (1 .. (i - 1)) \cup {i}
      BY <2>1
    <3> QED
      BY <3>1
  <2>5. ls[i] \notin A
    <3>1. \A j \in 1 .. (i - 1) : j \in 1 .. N /\ j # i
      BY <2>1
    <3> QED
      BY <1>2, <2>1, <3>1
  <2>6. A \subseteq Name
    <3>1. \A j \in 1 .. (i - 1) : j \in 1 .. N
      BY <2>1
    <3> QED
      BY <1>3, <3>1
  <2> HIDE DEF m, A
  <2>7. ASSUME NEW x \in Calls(s), NEW y \in Calls(m) PROVE <<x, y>> \notin Tangles
    <3>1. PICK k \in A : x \in FileSteps(c, k)
      BY <2>2 DEF FilesListed
    <3>2. x \in FileCall /\ x.k = k
      BY <2>6, <3>1, MoveFileOrder
    <3>3. y \in FileCall /\ y.k = ls[i]
      BY <2>3
    <3>4. k # ls[i]
      BY <2>5
    <3> QED
      BY <3>2, <3>3, <3>4, FilesApart
  <2>8. s \o m \in Seq(FileCall) /\ Calls(s \o m) = Calls(s) \cup Calls(m)
    BY <2>2, <2>3, CallsConcat DEF FilesListed
  <2>9. Ordered(s \o m, Tangles) /\ Paired(s \o m)
    BY <2>2, <2>3, <2>7, OrderedConcat, PairedConcat DEF FilesListed
  <2>10. UNION {FileSteps(c, k) : k \in A \cup {ls[i]}} = (UNION {FileSteps(c, k) : k \in A}) \cup FileSteps(c, ls[i])
    <3> DEFINE D == {FileSteps(c, k) : k \in A}
    <3>1. {FileSteps(c, k) : k \in A \cup {ls[i]}} = D \cup {FileSteps(c, ls[i])}
      <4>1. \A e : e \in {FileSteps(c, k) : k \in A \cup {ls[i]}} <=>
                       e \in D \/ e = FileSteps(c, ls[i])
        BY Zenon
      <4> HIDE DEF D
      <4> QED
        BY <4>1
    <3> HIDE DEF D
    <3>2. UNION (D \cup {FileSteps(c, ls[i])}) = (UNION D) \cup FileSteps(c, ls[i])
      OBVIOUS
    <3> QED
      BY <3>1, <3>2 DEF D
  <2>11. FilesListed(s \o m, c, A \cup {ls[i]})
    BY <2>2, <2>3, <2>8, <2>9, <2>10 DEF FilesListed
  <2> QED
    BY <1>6, <2>1, <2>4, <2>11
<1>10. Seqs!FlattenSeq(seqs) \in F[N]
  BY <1>5, <1>7, <1>8, <1>9, FlattenSteps
<1>11. FilesListed(Seqs!FlattenSeq(seqs), c, K)
  <2>1. N \in 0 .. N
    BY <1>3
  <2> QED
    BY <1>2, <1>6, <1>10, <2>1
<1> QED
  BY <1>11, <1>14, Zenon DEF seqs

\* The call for the names on the arc (i, j].
KeysFor(m, i, j, by, to, x) ==
    [do |-> "keys", at |-> m, a |-> i, b |-> j, by |-> by, to |-> to, drop |-> x]

LEMMA KeysForIs ==
    ASSUME NEW m \in Node, NEW i \in Node, NEW j \in Node, NEW by \in {"get", "force get"},
           NEW o \in Node, NEW x \in Node \cup {None}
    PROVE  /\ KeysFor(m, i, j, by, o, x) \in KeysCall /\ KeysFor(m, i, j, by, o, x) \in Call
           /\ MoveFiles(m, i, j, by, o, x) = <<KeysFor(m, i, j, by, o, x)>>
BY DEF KeysFor, KeysCall, Call, MoveFiles

\* The calls of q that move files are those of K, and none stands in another's way.
Shape(q, K) == q \in Seq(Call) /\ {c \in Calls(q) : Moving(c)} = K /\ Ordered(q, Tangles)

\* Calls none of which moves a file.
Listing(q) == q \in Seq(Call) /\ \A c \in Calls(q) : ~Moving(c)

LEMMA ShapeConcat ==
    ASSUME NEW q, NEW r, NEW K, NEW L, Shape(q, K), Shape(r, L),
           \A c \in K, d \in L : <<c, d>> \notin Tangles
    PROVE  Shape(q \o r, K \cup L)
<1>1. q \in Seq(Call) /\ r \in Seq(Call) /\ Ordered(q, Tangles) /\ Ordered(r, Tangles)
      /\ {c \in Calls(q) : Moving(c)} = K /\ {c \in Calls(r) : Moving(c)} = L
  BY DEF Shape
<1>2. q \o r \in Seq(Call) /\ Calls(q \o r) = Calls(q) \cup Calls(r)
  BY <1>1, CallsConcat
<1>3. \A c \in Calls(q), d \in Calls(r) : <<c, d>> \notin Tangles
  BY <1>1, MovesTangle
<1>4. Ordered(q \o r, Tangles)
  BY <1>1, <1>3, OrderedConcat
<1>5. {c \in Calls(q \o r) : Moving(c)} = K \cup L
  BY <1>1, <1>2
<1> QED
  BY <1>2, <1>4, <1>5 DEF Shape

LEMMA ShapeWhen ==
    ASSUME NEW b \in BOOLEAN, NEW q, NEW K, Shape(q, K)
    PROVE  Shape(When(b, q), {c \in K : b})
<1>1. CASE b
  BY <1>1 DEF When
<1>2. CASE ~b
  <2>1. <<>> \in Seq(Call) /\ Calls(<<>>) = {} /\ Ordered(<<>>, Tangles)
    BY DEF Calls, Ordered
  <2>2. {c \in K : b} = {} /\ When(b, q) = <<>>
    BY <1>2 DEF When
  <2> QED
    BY <2>1, <2>2 DEF Shape
<1> QED
  BY <1>1, <1>2

LEMMA ShapeKeys ==
    ASSUME NEW c \in Call, c.do = "keys"
    PROVE  Shape(<<c>>, {c})
<1>1. <<c>> \in Seq(Call) /\ Calls(<<c>>) = {c} /\ Ordered(<<c>>, Tangles)
  BY OrderedOne
<1>2. Moving(c)
  BY DEF Moving
<1> QED
  BY <1>1, <1>2 DEF Shape

LEMMA ShapeListing ==
    ASSUME NEW q, Listing(q)
    PROVE  Shape(q, {})
<1>1. q \in Seq(Call) /\ {c \in Calls(q) : Moving(c)} = {}
  BY DEF Listing
<1>2. Ordered(q, Tangles)
  BY MovesTangle, OrderedNone DEF Listing
<1> QED
  BY <1>1, <1>2 DEF Shape

LEMMA ListingOne == ASSUME NEW c \in Call, ~Moving(c) PROVE Listing(<<c>>)
<1>1. <<c>> \in Seq(Call) /\ Calls(<<c>>) = {c}
  BY OrderedOne
<1> QED
  BY <1>1 DEF Listing

LEMMA ListingWhen == ASSUME NEW b \in BOOLEAN, NEW q, Listing(q) PROVE Listing(When(b, q))
<1>1. <<>> \in Seq(Call) /\ Calls(<<>>) = {}
  BY DEF Calls
<1> QED
  BY <1>1 DEF Listing, When

LEMMA ListingConcat == ASSUME NEW q, NEW r, Listing(q), Listing(r) PROVE Listing(q \o r)
BY CallsConcat DEF Listing

LEMMA ListingCalls ==
    ASSUME NEW m \in Node, NEW x \in Node
    PROVE  /\ Listing(InsertInSuccessors(m, x)) /\ Listing(InsertInPredecessors(m, x))
           /\ Listing(DeprecateInSuccessors(m, x)) /\ Listing(DeprecateInPredecessors(m, x))
<1>1. ASSUME NEW op \in {"insert succesor", "insert predecessor", "deprecate succesor", "deprecate predecessor"}
      PROVE  Listing(<<[do |-> op, at |-> m, x |-> x]>>)
  <2>1. [do |-> op, at |-> m, x |-> x] \in Call /\ ~Moving([do |-> op, at |-> m, x |-> x])
    BY DEF Call, Moving
  <2> QED
    BY <2>1, ListingOne
<1> QED
  BY <1>1 DEF InsertInSuccessors, InsertInPredecessors, DeprecateInSuccessors, DeprecateInPredecessors

\* A join moves its files first, then it is announced.
MovesFirst(q, K) == Shape(q, K) /\ Ordered(q, Early)

LEMMA MovesFirstThen ==
    ASSUME NEW q, NEW K, NEW r, MovesFirst(q, K), Listing(r)
    PROVE  MovesFirst(q \o r, K)
<1>1. Shape(q, K) /\ Ordered(q, Early) /\ Shape(r, {})
  BY ShapeListing DEF MovesFirst
<1>2. Shape(q \o r, K \cup {})
  BY <1>1, ShapeConcat
<1>3. q \in Seq(Call) /\ r \in Seq(Call)
  BY <1>1 DEF Shape
<1>4. (\A c \in Calls(q), d \in Calls(r) : <<c, d>> \notin Early) /\ (\A c, d \in Calls(r) : <<c, d>> \notin Early)
  BY MovesTangle DEF Listing
<1>5. Ordered(r, Early)
  BY <1>4, OrderedNone
<1>6. Ordered(q \o r, Early)
  BY <1>1, <1>3, <1>4, <1>5, OrderedConcat
<1>7. K \cup {} = K
  OBVIOUS
<1> QED
  BY <1>2, <1>6, <1>7 DEF MovesFirst

\* The files of n itself, those of the node before it, and of the node before that.
Join1(n, s, p) == KeysFor(s[1], p[1], n, "force get", n, IF s[3] # n THEN s[3] ELSE None)
Join2(n, s, p) ==
    KeysFor(p[1], p[2], p[1], "force get", n, IF s[3] # n /\ s[2] # p[1] THEN s[2] ELSE None)
Join3(n, s, p) ==
    KeysFor(p[2], p[3], p[2], "force get", n, IF s[3] # n /\ s[1] # p[2] THEN s[1] ELSE None)
JoinMoves(n, s, p) ==
    {Join1(n, s, p)} \cup {c \in {Join2(n, s, p)} : p[1] # n}
    \cup {c \in {Join3(n, s, p)} : p[1] # n /\ p[2] # n}

LEMMA JoinShape ==
    ASSUME NEW n \in Node, NEW s \in List, NEW p \in List,
           p[1] # n => <<Join1(n, s, p), Join2(n, s, p)>> \notin Tangles,
           p[1] # n /\ p[2] # n => /\ <<Join1(n, s, p), Join3(n, s, p)>> \notin Tangles
                                  /\ <<Join2(n, s, p), Join3(n, s, p)>> \notin Tangles
    PROVE  MovesFirst(JoinCalls(n, s, p), JoinMoves(n, s, p))
<1> DEFINE announce(i) == When(p[i] # n, InsertInSuccessors(p[i], n))
                          \o When(s[i] # n, InsertInPredecessors(s[i], n))
           k1 == Join1(n, s, p)
           k2 == Join2(n, s, p)
           k3 == Join3(n, s, p)
           w2 == When(p[1] # n, <<k2>>)
           w3 == When(p[1] # n /\ p[2] # n, <<k3>>)
           K2 == {c \in {k2} : p[1] # n}
           K3 == {c \in {k3} : p[1] # n /\ p[2] # n}
<1>0. /\ \A i \in 1 .. 3 : s[i] \in Node /\ p[i] \in Node
      /\ 1 \in 1 .. 3 /\ 2 \in 1 .. 3 /\ 3 \in 1 .. 3
  BY DEF List
<1>1. /\ s[1] \in Node /\ s[2] \in Node /\ s[3] \in Node
      /\ p[1] \in Node /\ p[2] \in Node /\ p[3] \in Node /\ "force get" \in {"get", "force get"}
  BY <1>0
<1>2. JoinCalls(n, s, p) = <<k1>> \o w2 \o w3 \o announce(1) \o announce(2) \o announce(3)
  <2> DEFINE x1 == IF s[3] # n THEN s[3] ELSE None
             x2 == IF s[3] # n /\ s[2] # p[1] THEN s[2] ELSE None
             x3 == IF s[3] # n /\ s[1] # p[2] THEN s[1] ELSE None
  <2>1. JoinCalls(n, s, p) = MoveFiles(s[1], p[1], n, "force get", n, x1)
                             \o When(p[1] # n, MoveFiles(p[1], p[2], p[1], "force get", n, x2))
                             \o When(p[1] # n /\ p[2] # n, MoveFiles(p[2], p[3], p[2], "force get", n, x3))
                             \o announce(1) \o announce(2) \o announce(3)
    BY DEF JoinCalls
  <2>2. /\ MoveFiles(s[1], p[1], n, "force get", n, x1) = <<k1>>
        /\ MoveFiles(p[1], p[2], p[1], "force get", n, x2) = <<k2>>
        /\ MoveFiles(p[2], p[3], p[2], "force get", n, x3) = <<k3>>
    BY Zenon DEF MoveFiles, KeysFor, Join1, Join2, Join3
  <2> HIDE DEF announce, k1, k2, k3, x1, x2, x3
  <2> QED
    BY <2>1, <2>2
<1>3. /\ k1 \in Call /\ k1.do = "keys" /\ k2 \in Call /\ k2.do = "keys" /\ k3 \in Call /\ k3.do = "keys"
  <2>1. k1 \in Call /\ k1.do = "keys"
    BY <1>1 DEF KeysFor, Call, Join1
  <2>2. k2 \in Call /\ k2.do = "keys"
    BY <1>1 DEF KeysFor, Call, Join2
  <2>3. k3 \in Call /\ k3.do = "keys"
    BY <1>1 DEF KeysFor, Call, Join3
  <2> QED
    BY <2>1, <2>2, <2>3
<1>14. JoinMoves(n, s, p) = {k1} \cup K2 \cup K3
  BY DEF JoinMoves
<1>15. /\ p[1] # n => <<k1, k2>> \notin Tangles
       /\ p[1] # n /\ p[2] # n => <<k1, k3>> \notin Tangles /\ <<k2, k3>> \notin Tangles
  OBVIOUS
<1> HIDE DEF k1, k2, k3
<1>4. ASSUME NEW i \in 1 .. 3 PROVE Listing(announce(i))
  <2>1. Listing(InsertInSuccessors(p[i], n)) /\ Listing(InsertInPredecessors(s[i], n))
    BY <1>0, ListingCalls
  <2>2. Listing(When(p[i] # n, InsertInSuccessors(p[i], n)))
    BY <2>1, ListingWhen, (p[i] # n) \in BOOLEAN
  <2>3. Listing(When(s[i] # n, InsertInPredecessors(s[i], n)))
    BY <2>1, ListingWhen, (s[i] # n) \in BOOLEAN
  <2> QED
    BY <2>2, <2>3, ListingConcat
<1>5. Shape(<<k1>>, {k1}) /\ Shape(w2, K2) /\ Shape(w3, K3)
  <2>1. Shape(<<k1>>, {k1}) /\ Shape(<<k2>>, {k2}) /\ Shape(<<k3>>, {k3})
    BY <1>3, ShapeKeys
  <2>2. Shape(w2, K2)
    BY <2>1, ShapeWhen, (p[1] # n) \in BOOLEAN
  <2>3. Shape(w3, K3)
    BY <2>1, ShapeWhen, (p[1] # n /\ p[2] # n) \in BOOLEAN
  <2> QED
    BY <2>1, <2>2, <2>3
<1>6. /\ \A c \in {k1}, d \in K2 : <<c, d>> \notin Tangles
      /\ \A c \in {k1} \cup K2, d \in K3 : <<c, d>> \notin Tangles
  BY <1>15
<1>7. Listing(announce(1)) /\ Listing(announce(2)) /\ Listing(announce(3))
  <2> HIDE DEF announce
  <2> QED
    BY <1>0, <1>4
<1> HIDE DEF announce, w2, w3, K2, K3
<1>8. Shape(<<k1>> \o w2, {k1} \cup K2)
  BY <1>5, <1>6, ShapeConcat
<1>9. Shape(<<k1>> \o w2 \o w3, {k1} \cup K2 \cup K3)
  BY <1>5, <1>6, <1>8, ShapeConcat
<1> DEFINE q1 == <<k1>> \o w2 \o w3
           K == {k1} \cup K2 \cup K3
<1>10. MovesFirst(q1, K)
  <2>1. \A c \in Calls(q1) : ~SuccCall(c)
    <3>1. ASSUME NEW b \in BOOLEAN, NEW c \in Call PROVE Calls(When(b, <<c>>)) \subseteq {c} /\ When(b, <<c>>) \in Seq(Call)
      <4>1. Calls(<<c>>) = {c} /\ <<c>> \in Seq(Call) /\ <<>> \in Seq(Call)
        BY OrderedOne
      <4>2. Calls(<<>>) = {}
        BY DEF Calls
      <4> QED
        BY <4>1, <4>2 DEF When
    <3>2. Calls(w2) \subseteq {k2} /\ w2 \in Seq(Call)
      BY <1>3, <3>1, (p[1] # n) \in BOOLEAN DEF w2
    <3>3. Calls(w3) \subseteq {k3} /\ w3 \in Seq(Call)
      BY <1>3, <3>1, (p[1] # n /\ p[2] # n) \in BOOLEAN DEF w3
    <3>4. Calls(<<k1>>) = {k1} /\ <<k1>> \in Seq(Call)
      BY <1>3, OrderedOne
    <3>5. Calls(<<k1>> \o w2) = Calls(<<k1>>) \cup Calls(w2) /\ <<k1>> \o w2 \in Seq(Call)
      <4> DEFINE w1 == <<k1>>
      <4>1. w1 \in Seq(Call) /\ w2 \in Seq(Call)
        BY <3>2, <3>4
      <4> HIDE DEF w1
      <4>2. w1 \o w2 \in Seq(Call) /\ Calls(w1 \o w2) = Calls(w1) \cup Calls(w2)
        BY <4>1, CallsConcat
      <4> QED
        BY <4>2 DEF w1
    <3>6. Calls(q1) = Calls(<<k1>> \o w2) \cup Calls(w3)
      <4> DEFINE w1 == <<k1>> \o w2
      <4>1. w1 \in Seq(Call) /\ w3 \in Seq(Call)
        BY <3>3, <3>5
      <4> HIDE DEF w1
      <4>2. Calls(w1 \o w3) = Calls(w1) \cup Calls(w3)
        BY <4>1, CallsConcat
      <4> QED
        BY <4>2 DEF w1
    <3> HIDE DEF q1
    <3> QED
      BY <1>3, <3>2, <3>3, <3>4, <3>5, <3>6 DEF SuccCall
  <2>2. Ordered(q1, Early)
    BY <2>1, MovesTangle, OrderedNone
  <2> QED
    BY <1>9, <2>2 DEF MovesFirst
<1> HIDE DEF q1, K
<1>11. MovesFirst(q1 \o announce(1), K)
  BY <1>7, <1>10, MovesFirstThen
<1>12. MovesFirst(q1 \o announce(1) \o announce(2), K)
  BY <1>7, <1>11, MovesFirstThen
<1>13. MovesFirst(q1 \o announce(1) \o announce(2) \o announce(3), K)
  BY <1>7, <1>12, MovesFirstThen
<1> QED
  BY <1>2, <1>13, <1>14 DEF q1, K

\* The files of d, which has crashed, those of n, and of the node before n.
Repair1(n, s, p, d) == KeysFor(s[1], n, d, "get", s[3], None)
Repair2(n, s, p) == KeysFor(n, p[1], n, "force get", s[2], None)
Repair3(n, s, p) == KeysFor(p[1], p[2], p[1], "get", s[1], None)
RepairMoves(n, s, p, d) ==
    {Repair1(n, s, p, d)} \cup {c \in {Repair2(n, s, p)} : s[2] # n} \cup {c \in {Repair3(n, s, p)} : p[1] # n}

LEMMA RepairShape ==
    ASSUME NEW n \in Node, NEW d \in Node, NEW s \in List, NEW p \in List,
           s[2] # n => <<Repair1(n, s, p, d), Repair2(n, s, p)>> \notin Tangles,
           p[1] # n => <<Repair1(n, s, p, d), Repair3(n, s, p)>> \notin Tangles,
           s[2] # n /\ p[1] # n => <<Repair2(n, s, p), Repair3(n, s, p)>> \notin Tangles
    PROVE  Shape(RepairCalls(n, s, p, d), RepairMoves(n, s, p, d))
<1>1. \A i \in 1 .. 3 : s[i] \in Node /\ p[i] \in Node
  BY DEF List
<1>2. 1 \in 1 .. 3 /\ 2 \in 1 .. 3 /\ 3 \in 1 .. 3
  OBVIOUS
<1>3. /\ s[1] \in Node /\ s[2] \in Node /\ s[3] \in Node
      /\ p[1] \in Node /\ p[2] \in Node /\ p[3] \in Node
  BY <1>1, <1>2
<1> DEFINE w1 == When(p[1] # n, DeprecateInSuccessors(p[1], d)
                   \o When(p[1] # s[2], InsertInSuccessors(p[1], s[2])))
           w2 == When(p[2] # n, DeprecateInSuccessors(p[2], d)
                      \o When(p[2] # s[1], InsertInSuccessors(p[2], s[1])))
           w3 == When(s[1] # n, DeprecateInPredecessors(s[1], d)
                      \o When(s[1] # p[2], InsertInPredecessors(s[1], p[2])))
           w4 == When(s[2] # n, DeprecateInPredecessors(s[2], d)
                      \o When(s[2] # p[1], InsertInPredecessors(s[2], p[1])))
           w5 == When(s[3] # n, DeprecateInPredecessors(s[3], d) \o InsertInPredecessors(s[3], n))
           k1 == Repair1(n, s, p, d)
           k2 == Repair2(n, s, p)
           k3 == Repair3(n, s, p)
           w7 == When(s[2] # n, <<k2>>)
           w8 == When(p[1] # n, <<k3>>)
           K2 == {c \in {k2} : s[2] # n}
           K3 == {c \in {k3} : p[1] # n}
<1>4. RepairCalls(n, s, p, d) = w1 \o w2 \o w3 \o w4 \o w5 \o <<k1>> \o w7 \o w8
  BY DEF RepairCalls, MoveFiles, KeysFor, Repair1, Repair2, Repair3
<1>5. ASSUME NEW b \in BOOLEAN, NEW e \in BOOLEAN, NEW q, NEW r, Listing(q), Listing(r)
      PROVE  Listing(When(b, q \o When(e, r)))
  <2>1. Listing(When(e, r))
    BY <1>5, ListingWhen
  <2>2. Listing(q \o When(e, r))
    BY <1>5, <2>1, ListingConcat
  <2> QED
    BY <2>2, ListingWhen
<1>6. Listing(w1)
  <2>1. Listing(DeprecateInSuccessors(p[1], d)) /\ Listing(InsertInSuccessors(p[1], s[2]))
    BY <1>3, ListingCalls
  <2> QED
    BY <1>5, <2>1, (p[1] # n) \in BOOLEAN, (p[1] # s[2]) \in BOOLEAN
<1>7. Listing(w2)
  <2>1. Listing(DeprecateInSuccessors(p[2], d)) /\ Listing(InsertInSuccessors(p[2], s[1]))
    BY <1>3, ListingCalls
  <2> QED
    BY <1>5, <2>1, (p[2] # n) \in BOOLEAN, (p[2] # s[1]) \in BOOLEAN
<1>8. Listing(w3)
  <2>1. Listing(DeprecateInPredecessors(s[1], d)) /\ Listing(InsertInPredecessors(s[1], p[2]))
    BY <1>3, ListingCalls
  <2> QED
    BY <1>5, <2>1, (s[1] # n) \in BOOLEAN, (s[1] # p[2]) \in BOOLEAN
<1>9. Listing(w4)
  <2>1. Listing(DeprecateInPredecessors(s[2], d)) /\ Listing(InsertInPredecessors(s[2], p[1]))
    BY <1>3, ListingCalls
  <2> QED
    BY <1>5, <2>1, (s[2] # n) \in BOOLEAN, (s[2] # p[1]) \in BOOLEAN
<1>10. Listing(w5)
  <2>1. Listing(DeprecateInPredecessors(s[3], d)) /\ Listing(InsertInPredecessors(s[3], n))
    BY <1>3, ListingCalls
  <2>2. Listing(DeprecateInPredecessors(s[3], d) \o InsertInPredecessors(s[3], n))
    BY <2>1, ListingConcat
  <2> QED
    BY <2>2, ListingWhen, (s[3] # n) \in BOOLEAN
<1>11. None \in Node \cup {None} /\ "get" \in {"get", "force get"} /\ "force get" \in {"get", "force get"}
  OBVIOUS
<1>12. /\ k1 \in Call /\ k1.do = "keys" /\ k2 \in Call /\ k2.do = "keys" /\ k3 \in Call /\ k3.do = "keys"
  <2>1. k1 \in Call /\ k1.do = "keys"
    BY <1>3, <1>11 DEF KeysFor, Call, Repair1
  <2>2. k2 \in Call /\ k2.do = "keys"
    BY <1>3, <1>11 DEF KeysFor, Call, Repair2
  <2>3. k3 \in Call /\ k3.do = "keys"
    BY <1>3, <1>11 DEF KeysFor, Call, Repair3
  <2> QED
    BY <2>1, <2>2, <2>3
<1>24. RepairMoves(n, s, p, d) = {k1} \cup K2 \cup K3
  BY DEF RepairMoves
<1>25. /\ s[2] # n => <<k1, k2>> \notin Tangles
       /\ p[1] # n => <<k1, k3>> \notin Tangles
       /\ s[2] # n /\ p[1] # n => <<k2, k3>> \notin Tangles
  OBVIOUS
<1> HIDE DEF k1, k2, k3
<1>13. Shape(<<k1>>, {k1}) /\ Shape(w7, K2) /\ Shape(w8, K3)
  <2>1. Shape(<<k1>>, {k1}) /\ Shape(<<k2>>, {k2}) /\ Shape(<<k3>>, {k3})
    BY <1>12, ShapeKeys
  <2>2. Shape(w7, K2)
    BY <2>1, ShapeWhen, (s[2] # n) \in BOOLEAN
  <2>3. Shape(w8, K3)
    BY <2>1, ShapeWhen, (p[1] # n) \in BOOLEAN
  <2> QED
    BY <2>1, <2>2, <2>3
<1>14. /\ \A c \in {k1}, e \in K2 : <<c, e>> \notin Tangles
       /\ \A c \in {k1} \cup K2, e \in K3 : <<c, e>> \notin Tangles
  BY <1>25
<1> HIDE DEF w1, w2, w3, w4, w5, w7, w8, K2, K3
<1>15. Listing(w1 \o w2)
  BY <1>6, <1>7, ListingConcat
<1>16. Listing(w1 \o w2 \o w3)
  BY <1>8, <1>15, ListingConcat
<1>17. Listing(w1 \o w2 \o w3 \o w4)
  BY <1>9, <1>16, ListingConcat
<1>18. Listing(w1 \o w2 \o w3 \o w4 \o w5)
  BY <1>10, <1>17, ListingConcat
<1> DEFINE q == w1 \o w2 \o w3 \o w4 \o w5
<1>19. Shape(q, {})
  BY <1>18, ShapeListing
<1> HIDE DEF q
<1>20. Shape(q \o <<k1>>, {} \cup {k1})
  BY <1>13, <1>19, ShapeConcat
<1>21. {} \cup {k1} = {k1}
  OBVIOUS
<1>22. Shape(q \o <<k1>> \o w7, {k1} \cup K2)
  BY <1>13, <1>14, <1>20, <1>21, ShapeConcat
<1>23. Shape(q \o <<k1>> \o w7 \o w8, {k1} \cup K2 \cup K3)
  BY <1>13, <1>14, <1>22, ShapeConcat
<1> QED
  BY <1>4, <1>23, <1>24 DEF q

-----------------------------------------------------------------------------
(* How far a file is on its way *)

\* Of the nodes F those of S have the file k with the contents v.
Placed(st, F, S, k, v) == \A m \in F : st[m][k] = IF m \in S THEN v ELSE Absent

\* q has still to list the names of the files of o, with that of k.
Waiting(q, k, o, to, x) ==
    \E c \in Concern(q, k) : /\ Concern(q, k) = {c}
                             /\ c.do = "keys" /\ c.at = o /\ c.to = to /\ c.drop = x

\* It has still to fetch k from o.
Fetching(q, k, o, to, x) ==
    \E by \in {"get", "force get"} :
        Concern(q, k) = {FetchOf(by, o, k), PutOf(to, k)} \cup DropOf(x, k)

\* It has fetched k and has still to put it down.
Writing1(C, k, to, x) == C = {PutOf(to, k)} \cup DropOf(x, k)
Writing(q, k, to, x) == Writing1(Concern(q, k), k, to, x)

Arrived(F, A, k, q, st, v) == Concern(q, k) = {} /\ Placed(st, F, A, k, v)

OnItsWay(M, F, B, A, k, q, st, h, v) ==
    \E o \in B, to \in F, x \in F \cup {None} :
        /\ Route(M, F, B, A, k, o, to, x) /\ Placed(st, F, B, k, v)
        /\ \/ Waiting(q, k, o, to, x)
           \/ v # Absent /\ Fetching(q, k, o, to, x)
           \/ v # Absent /\ h = v /\ Writing(q, k, to, x)

\* The copy on x has still to be deleted.
LeftBehind(F, A, k, q, st, v) ==
    \E x \in F \ A : Concern(q, k) = DropOf(x, k) /\ Placed(st, F \ {x}, A, k, v)

Stage(M, F, B, A, k, q, st, h, v) ==
    \/ Arrived(F, A, k, q, st, v)
    \/ OnItsWay(M, F, B, A, k, q, st, h, v)
    \/ LeftBehind(F, A, k, q, st, v)

\* The calls q of a plan move k from where it is to where it belongs.
Moves(M, F, B, A, k, q) ==
    \/ Concern(q, k) = {} /\ A = B
    \/ \E o \in B, to \in F, x \in F \cup {None} :
           Route(M, F, B, A, k, o, to, x) /\ Waiting(q, k, o, to, x)

LEMMA MovesStage ==
    ASSUME NEW M, NEW F, NEW B, NEW A, NEW k, NEW q, NEW st, NEW h, NEW v,
           Moves(M, F, B, A, k, q), Placed(st, F, B, k, v)
    PROVE  Stage(M, F, B, A, k, q, st, h, v)
BY DEF Moves, Stage, Arrived, OnItsWay

LEMMA ArcsApart ==
    ASSUME NEW T \in SUBSET Int, NEW i \in T, NEW j \in T, NEW m \in T, NEW n \in T,
           IsNext(T, i, j), IsNext(T, m, n), j # n, NEW h \in Int, IsInBetweenModular(h, i, j)
    PROVE  ~IsInBetweenModular(h, m, n)
<1>1. i # j
  BY ArcEmpty
<1>2. i \in Int /\ j \in Int /\ m \in Int /\ n \in Int /\ h - 1 \in Int
  OBVIOUS
<1>3. IsNext(T, h - 1, j)
  BY <1>1, ArcOwner
<1>4. CASE m = n
  BY <1>2, <1>4, ArcEmpty
<1>5. CASE m # n
  <2>1. SUFFICES ASSUME IsInBetweenModular(h, m, n) PROVE FALSE
    OBVIOUS
  <2>2. IsNext(T, h - 1, n)
    BY <1>5, <2>1, ArcOwner
  <2> QED
    BY <1>2, <1>3, <2>2, NextUnique
<1> QED
  BY <1>4, <1>5

KeysFields(c, m, i, j, o, x) ==
    /\ c.do = "keys" /\ c.at = m /\ c.a = i /\ c.b = j /\ c.to = o /\ c.drop = x
    /\ \A k : Concerns(c, k) <=> IsInBetweenModular(Hash[k], i, j)

LEMMA KeysForFields ==
    ASSUME NEW m, NEW i, NEW j, NEW by, NEW o, NEW x
    PROVE  KeysFields(KeysFor(m, i, j, by, o, x), m, i, j, o, x)
<1> DEFINE c == KeysFor(m, i, j, by, o, x)
<1>1. c.do = "keys" /\ c.at = m /\ c.a = i /\ c.b = j /\ c.to = o /\ c.drop = x
  BY DEF KeysFor
<1> HIDE DEF c
<1>2. \A k : Concerns(c, k) <=> IsInBetweenModular(Hash[k], i, j)
  BY <1>1, Zenon DEF Concerns
<1>3. KeysFields(c, m, i, j, o, x)
  BY <1>1, <1>2, Zenon DEF KeysFields
<1> QED
  BY <1>3 DEF c

LEMMA ConcernShape ==
    ASSUME NEW q, NEW K, Shape(q, K), NEW k
    PROVE  Concern(q, k) = {c \in K : Concerns(c, k)}
<1>1. \A c : Concerns(c, k) => Moving(c)
  BY DEF Concerns, Moving
<1> QED
  BY <1>1 DEF Concern, Shape

\* The first of three calls, and the others where they are made: at most one is for k.
OneFor(k, k1, k2, k3, b2, b3) ==
    /\ k1.do = "keys" /\ k2.do = "keys" /\ k3.do = "keys"
    /\ b2 => ~(Concerns(k1, k) /\ Concerns(k2, k))
    /\ b3 => ~(Concerns(k1, k) /\ Concerns(k3, k))
    /\ b2 /\ b3 => ~(Concerns(k2, k) /\ Concerns(k3, k))

\* It goes the way k goes.
OneGoes(M, F, B, A, k, k1, k2, k3, b2, b3) ==
    /\ Concerns(k1, k) => Route(M, F, B, A, k, k1.at, k1.to, k1.drop)
    /\ b2 /\ Concerns(k2, k) => Route(M, F, B, A, k, k2.at, k2.to, k2.drop)
    /\ b3 /\ Concerns(k3, k) => Route(M, F, B, A, k, k3.at, k3.to, k3.drop)
    /\ ~Concerns(k1, k) /\ ~(b2 /\ Concerns(k2, k)) /\ ~(b3 /\ Concerns(k3, k)) => A = B

LEMMA OneOfThree ==
    ASSUME NEW q, NEW k, NEW k1, NEW k2, NEW k3, NEW b2 \in BOOLEAN, NEW b3 \in BOOLEAN,
           Shape(q, {k1} \cup {c \in {k2} : b2} \cup {c \in {k3} : b3}),
           OneFor(k, k1, k2, k3, b2, b3),
           NEW M, NEW F, NEW B, NEW A, OneGoes(M, F, B, A, k, k1, k2, k3, b2, b3)
    PROVE  Moves(M, F, B, A, k, q)
<1> DEFINE K == {k1} \cup {c \in {k2} : b2} \cup {c \in {k3} : b3}
<1>0. K = {k1} \cup {c \in {k2} : b2} \cup {c \in {k3} : b3} /\ Shape(q, K)
  OBVIOUS
<1> HIDE DEF K
<1>1. Concern(q, k) = {c \in K : Concerns(c, k)}
  BY <1>0, ConcernShape
<1>2. ASSUME NEW c, Concern(q, k) = {c}, c.do = "keys", Route(M, F, B, A, k, c.at, c.to, c.drop)
      PROVE  Moves(M, F, B, A, k, q)
  <2>1. Waiting(q, k, c.at, c.to, c.drop)
    BY <1>2 DEF Waiting
  <2>2. c.at \in B /\ c.to \in F /\ c.drop \in F \cup {None}
    BY <1>2 DEF Route
  <2> QED
    BY <1>2, <2>1, <2>2 DEF Moves
<1>3. CASE Concerns(k1, k)
  <2>1. Concern(q, k) = {k1}
    BY <1>0, <1>1, <1>3 DEF OneFor
  <2> QED
    BY <1>2, <1>3, <2>1 DEF OneFor, OneGoes
<1>4. CASE b2 /\ Concerns(k2, k)
  <2>1. Concern(q, k) = {k2}
    BY <1>0, <1>1, <1>4 DEF OneFor
  <2> QED
    BY <1>2, <1>4, <2>1 DEF OneFor, OneGoes
<1>5. CASE b3 /\ Concerns(k3, k)
  <2>1. Concern(q, k) = {k3}
    BY <1>0, <1>1, <1>5 DEF OneFor
  <2> QED
    BY <1>2, <1>5, <2>1 DEF OneFor, OneGoes
<1>6. CASE ~Concerns(k1, k) /\ ~(b2 /\ Concerns(k2, k)) /\ ~(b3 /\ Concerns(k3, k))
  <2>1. Concern(q, k) = {}
    BY <1>0, <1>1, <1>6
  <2> QED
    BY <1>6, <2>1 DEF Moves, OneGoes
<1> QED
  BY <1>3, <1>4, <1>5, <1>6

Tidy(q) == q \in Seq(Call) /\ Ordered(q, Tangles) /\ Paired(q)

LEMMA ShapeTidy ==
    ASSUME NEW q, NEW K, Shape(q, K), \A c \in K : c.do = "keys"
    PROVE  Tidy(q) /\ \A c \in Calls(q) : Moving(c) => c \in K
<1>1. q \in Seq(Call) /\ {c \in Calls(q) : Moving(c)} = K /\ Ordered(q, Tangles)
  BY DEF Shape
<1>2. \A c \in Calls(q) : c.do # "put"
  BY <1>1 DEF Moving
<1> QED
  BY <1>1, <1>2, PairedNone DEF Tidy

\* The calls q with which n joins M move each file where it belongs, to n.
JoinMovesFiles(M, n, q) ==
    /\ Tidy(q) /\ Ordered(q, Early)
    /\ \A c \in Calls(q) : Moving(c) => c.do = "keys" /\ c.to = n
    /\ \A k \in Name : Moves(M, M \cup {n}, Hold(M, k), Hold(M \cup {n}, k), k, q)

LEMMA JoinFiles ==
    ASSUME NEW M \in SUBSET Node, M # {}, NEW n \in Node \ M, NEW s \in List, NEW p \in List,
           IsSuccs(M \cup {n}, n, s), IsPreds(M \cup {n}, n, p)
    PROVE  JoinMovesFiles(M, n, JoinCalls(n, s, p))
<1> DEFINE T == M \cup {n}
           q == JoinCalls(n, s, p)
           k1 == Join1(n, s, p)
           k2 == Join2(n, s, p)
           k3 == Join3(n, s, p)
           b2 == p[1] # n
           b3 == p[1] # n /\ p[2] # n
           x1 == IF s[3] # n THEN s[3] ELSE None
           x2 == IF s[3] # n /\ s[2] # p[1] THEN s[2] ELSE None
           x3 == IF s[3] # n /\ s[1] # p[2] THEN s[1] ELSE None
<1>1. PICK s1, s2, s3 \in Node : s[1] = s1 /\ s[2] = s2 /\ s[3] = s3
  BY ListIs
<1>2. PICK p1, p2, p3 \in Node : p[1] = p1 /\ p[2] = p2 /\ p[3] = p3
  BY ListIs
<1>3. Follow(T, n, s1, s2, s3) /\ Precede(T, n, p1, p2, p3)
  BY <1>1, <1>2 DEF IsSuccs, IsPreds
<1>4. /\ T \in SUBSET Node /\ T \in SUBSET Int /\ T # {} /\ n \in T
      /\ \A k \in Name : Hash[k] \in Int
  BY KeyDistances
<1>5. /\ p1 \in T /\ p2 \in T /\ p3 \in T /\ IsNext(T, p1, n)
  BY <1>3 DEF Precede
<1>6. p1 # n /\ IsNext(T, p2, p1) /\ p2 # p1
  <2>1. p1 # n
    <3>1. p1 = n => T \subseteq {n}
      BY <1>4, <1>5, NextAlone
    <3> QED
      BY <3>1
  <2>2. IsNext(T, p2, p1)
    BY <1>3, <2>1 DEF Precede
  <2>3. p2 = p1 => T \subseteq {p1}
    BY <1>4, <1>5, <2>2, NextAlone
  <2> QED
    BY <1>4, <1>5, <2>1, <2>2, <2>3
<1>7. p2 # n => IsNext(T, p3, p2)
  BY <1>3 DEF Precede
<1>8. /\ k1 = KeysFor(s1, p1, n, "force get", n, x1) /\ k2 = KeysFor(p1, p2, p1, "force get", n, x2)
      /\ k3 = KeysFor(p2, p3, p2, "force get", n, x3)
  BY <1>1, <1>2, Zenon DEF Join1, Join2, Join3
<1>9. /\ x1 = IF s3 # n THEN s3 ELSE None
      /\ x2 = IF s3 # n /\ s2 # p1 THEN s2 ELSE None
      /\ x3 = IF s3 # n /\ s1 # p2 THEN s1 ELSE None
  BY <1>1, <1>2
<1>10. b2 /\ (b3 <=> p2 # n) /\ b2 \in BOOLEAN /\ b3 \in BOOLEAN
  BY <1>2, <1>6
<1>11. JoinMoves(n, s, p) = {k1} \cup {c \in {k2} : b2} \cup {c \in {k3} : b3}
  BY DEF JoinMoves
<1>12. (b2 => <<k1, k2>> \notin Tangles) /\ (b3 => <<k1, k3>> \notin Tangles /\ <<k2, k3>> \notin Tangles)
       => MovesFirst(q, JoinMoves(n, s, p))
  BY JoinShape
<1> HIDE DEF T, q, k1, k2, k3, b2, b3, x1, x2, x3
<1>13. /\ k1.do = "keys" /\ k1.at = s1 /\ k1.a = p1 /\ k1.b = n /\ k1.to = n /\ k1.drop = x1
       /\ \A k : Concerns(k1, k) <=> IsInBetweenModular(Hash[k], p1, n)
  <2>1. KeysFields(k1, s1, p1, n, n, x1)
    BY <1>8, KeysForFields, Zenon
  <2> QED
    BY <2>1, Zenon DEF KeysFields
<1>14. /\ k2.do = "keys" /\ k2.at = p1 /\ k2.a = p2 /\ k2.b = p1 /\ k2.to = n /\ k2.drop = x2
       /\ \A k : Concerns(k2, k) <=> IsInBetweenModular(Hash[k], p2, p1)
  <2>1. KeysFields(k2, p1, p2, p1, n, x2)
    BY <1>8, KeysForFields, Zenon
  <2> QED
    BY <2>1, Zenon DEF KeysFields
<1>15. /\ k3.do = "keys" /\ k3.at = p2 /\ k3.a = p3 /\ k3.b = p2 /\ k3.to = n /\ k3.drop = x3
       /\ \A k : Concerns(k3, k) <=> IsInBetweenModular(Hash[k], p3, p2)
  <2>1. KeysFields(k3, p2, p3, p2, n, x3)
    BY <1>8, KeysForFields, Zenon
  <2> QED
    BY <2>1, Zenon DEF KeysFields
<1>16. ASSUME NEW k \in Name
       PROVE  /\ ~(IsInBetweenModular(Hash[k], p1, n) /\ IsInBetweenModular(Hash[k], p2, p1))
              /\ b3 => ~(IsInBetweenModular(Hash[k], p1, n) /\ IsInBetweenModular(Hash[k], p3, p2))
              /\ b3 => ~(IsInBetweenModular(Hash[k], p2, p1) /\ IsInBetweenModular(Hash[k], p3, p2))
  <2>1. Hash[k] \in Int
    BY <1>4
  <2>2. ~(IsInBetweenModular(Hash[k], p1, n) /\ IsInBetweenModular(Hash[k], p2, p1))
    BY <1>4, <1>5, <1>6, <2>1, ArcsApart
  <2>3. b3 => ~(IsInBetweenModular(Hash[k], p1, n) /\ IsInBetweenModular(Hash[k], p3, p2))
    BY <1>4, <1>5, <1>7, <1>10, <2>1, ArcsApart
  <2>4. b3 => ~(IsInBetweenModular(Hash[k], p2, p1) /\ IsInBetweenModular(Hash[k], p3, p2))
    BY <1>4, <1>5, <1>6, <1>7, <1>10, <2>1, ArcsApart
  <2> QED
    BY <2>2, <2>3, <2>4
<1>17. <<k1, k2>> \notin Tangles /\ (b3 => <<k1, k3>> \notin Tangles /\ <<k2, k3>> \notin Tangles)
  <2>1. <<k1, k2>> \notin Tangles
    BY <1>13, <1>14, <1>16, KeysApart
  <2>2. b3 => <<k1, k3>> \notin Tangles
    BY <1>13, <1>15, <1>16, KeysApart
  <2>3. b3 => <<k2, k3>> \notin Tangles
    BY <1>14, <1>15, <1>16, KeysApart
  <2> QED
    BY <2>1, <2>2, <2>3
<1> DEFINE K == {k1} \cup {c \in {k2} : b2} \cup {c \in {k3} : b3}
<1>18. MovesFirst(q, K)
  BY <1>11, <1>12, <1>17
<1>19. Shape(q, K) /\ Ordered(q, Early)
  BY <1>18 DEF MovesFirst
<1>20. \A c \in K : c.do = "keys" /\ c.to = n
  BY <1>13, <1>14, <1>15
<1>21. ASSUME NEW k \in Name PROVE Moves(M, T, Hold(M, k), Hold(T, k), k, q)
  <2> DEFINE A == Hold(T, k)
             B == Hold(M, k)
  <2>1. /\ IsInBetweenModular(Hash[k], p1, n) => Route(M, T, B, A, k, s1, n, x1)
        /\ IsInBetweenModular(Hash[k], p2, p1) => Route(M, T, B, A, k, p1, n, x2)
        /\ p2 # n /\ IsInBetweenModular(Hash[k], p3, p2) => Route(M, T, B, A, k, p2, n, x3)
        /\ /\ ~IsInBetweenModular(Hash[k], p1, n) /\ ~IsInBetweenModular(Hash[k], p2, p1)
           /\ p2 # n => ~IsInBetweenModular(Hash[k], p3, p2)
           => A = B
    <3>1. T = M \cup {n}
      BY DEF T
    <3> QED
      BY <1>3, <1>9, <3>1, JoinRoutes
  <2> HIDE DEF A, B
  <2>2. /\ b2 => ~(Concerns(k1, k) /\ Concerns(k2, k))
        /\ b3 => ~(Concerns(k1, k) /\ Concerns(k3, k))
        /\ b2 /\ b3 => ~(Concerns(k2, k) /\ Concerns(k3, k))
    BY <1>13, <1>14, <1>15, <1>16
  <2>3. /\ Concerns(k1, k) => Route(M, T, B, A, k, k1.at, k1.to, k1.drop)
        /\ b2 /\ Concerns(k2, k) => Route(M, T, B, A, k, k2.at, k2.to, k2.drop)
        /\ b3 /\ Concerns(k3, k) => Route(M, T, B, A, k, k3.at, k3.to, k3.drop)
    BY <1>10, <1>13, <1>14, <1>15, <2>1
  <2>4. ~Concerns(k1, k) /\ ~(b2 /\ Concerns(k2, k)) /\ ~(b3 /\ Concerns(k3, k)) => A = B
    BY <1>10, <1>13, <1>14, <1>15, <2>1
  <2>5. k1.do = "keys" /\ k2.do = "keys" /\ k3.do = "keys"
    BY <1>13, <1>14, <1>15
  <2>6. OneFor(k, k1, k2, k3, b2, b3) /\ OneGoes(M, T, B, A, k, k1, k2, k3, b2, b3)
    BY <2>2, <2>3, <2>4, <2>5, Zenon DEF OneFor, OneGoes
  <2>7. Moves(M, T, B, A, k, q)
    BY <1>10, <1>19, <2>6, OneOfThree, Zenon
  <2> QED
    BY <2>7 DEF A, B
<1> HIDE DEF K
<1>22. Tidy(q) /\ \A c \in Calls(q) : Moving(c) => c \in K
  BY <1>19, <1>20, ShapeTidy
<1>23. \A c \in Calls(q) : Moving(c) => c.do = "keys" /\ c.to = n
  BY <1>20, <1>22
<1>24. \A k \in Name : Moves(M, M \cup {n}, Hold(M, k), Hold(M \cup {n}, k), k, q)
  BY <1>21 DEF T
<1>25. JoinMovesFiles(M, n, q)
  BY <1>19, <1>22, <1>23, <1>24 DEF JoinMovesFiles
<1> QED
  BY <1>25 DEF q

\* The calls q with which the crash of d is mended copy each file to where it belongs.
RepairMovesFiles(M, d, q) ==
    /\ Tidy(q)
    /\ \A c \in Calls(q) : Moving(c) => c.do = "keys"
    /\ \A k \in Name : Moves(M, M, Hold(M \cup {d}, k) \cap M, Hold(M, k), k, q)

\* The arcs before n, once d has left.
LEMMA GoneArcs ==
    ASSUME NEW M \in SUBSET Int, NEW d \in Int, d \notin M, NEW n \in M, IsNext(M \cup {d}, n, d), NotTwo(M),
           NEW p1, NEW p2, NEW p3, Precede(M, n, p1, p2, p3), p1 # n
    PROVE  IsNext(M \cup {d}, p1, n) /\ p2 # p1 /\ IsNext(M \cup {d}, p2, p1) /\ p2 # n
<1>1. p1 \in M /\ p2 \in M /\ IsNext(M, p1, n) /\ IsNext(M, p2, p1)
  BY DEF Precede
<1>2. IsNext(M \cup {d}, p1, n)
  BY <1>1, NextWith
<1>3. p2 # p1
  <2>1. p2 = p1 => M \subseteq {p1}
    BY <1>1, NextAlone
  <2> QED
    BY <2>1
<1>4. p2 # n
  <2>1. p2 = n => M \subseteq {p1, n}
    BY <1>1, NextPair
  <2>2. p2 = n => p1 = n
    BY <1>1, <2>1 DEF NotTwo
  <2> QED
    BY <2>2
<1>5. IsNext(M \cup {d}, p2, p1)
  BY <1>1, <1>4, NextWith
<1> QED
  BY <1>2, <1>3, <1>4, <1>5

LEMMA RepairFiles ==
    ASSUME NEW M \in SUBSET Node, NEW d \in Node \ M, NotTwo(M), NEW n \in M, IsNext(M \cup {d}, n, d),
           NEW s \in List, NEW p \in List, IsSuccs(M, n, s), IsPreds(M, n, p)
    PROVE  RepairMovesFiles(M, d, RepairCalls(n, s, p, d))
<1> DEFINE T == M \cup {d}
           q == RepairCalls(n, s, p, d)
           k1 == Repair1(n, s, p, d)
           k2 == Repair2(n, s, p)
           k3 == Repair3(n, s, p)
           b2 == s[2] # n
           b3 == p[1] # n
<1>1. PICK s1, s2, s3 \in Node : s[1] = s1 /\ s[2] = s2 /\ s[3] = s3
  BY ListIs
<1>2. PICK p1, p2, p3 \in Node : p[1] = p1 /\ p[2] = p2 /\ p[3] = p3
  BY ListIs
<1>3. Follow(M, n, s1, s2, s3) /\ Precede(M, n, p1, p2, p3)
  BY <1>1, <1>2 DEF IsSuccs, IsPreds
<1>4. /\ M \in SUBSET Int /\ T \in SUBSET Int /\ n \in T /\ d \in T /\ d \in Int /\ n # d
      /\ \A k \in Name : Hash[k] \in Int
  BY KeyDistances
<1>5. p1 \in M /\ p2 \in M /\ p3 \in M
  BY <1>3 DEF Precede
<1>6. p1 # n => IsNext(T, p1, n) /\ p2 # p1 /\ IsNext(T, p2, p1) /\ p2 # n
  BY <1>3, <1>4, GoneArcs
<1>7. s2 # n => p1 # n
  <2>1. p1 = n => M \subseteq {n}
    BY <1>3, <1>4, NextAlone DEF Precede
  <2>2. s2 \in M
    BY <1>3, <1>4, FollowDistinct
  <2> QED
    BY <2>1, <2>2
<1>8. /\ k1 = KeysFor(s1, n, d, "get", s3, None) /\ k2 = KeysFor(n, p1, n, "force get", s2, None)
      /\ k3 = KeysFor(p1, p2, p1, "get", s1, None)
  BY <1>1, <1>2, Zenon DEF Repair1, Repair2, Repair3
<1>10. (b2 <=> s2 # n) /\ (b3 <=> p1 # n) /\ b2 \in BOOLEAN /\ b3 \in BOOLEAN
  BY <1>1, <1>2
<1>11. RepairMoves(n, s, p, d) = {k1} \cup {c \in {k2} : b2} \cup {c \in {k3} : b3}
  BY DEF RepairMoves
<1>12. /\ b2 => <<k1, k2>> \notin Tangles
       /\ b3 => <<k1, k3>> \notin Tangles
       /\ b2 /\ b3 => <<k2, k3>> \notin Tangles
       => Shape(q, RepairMoves(n, s, p, d))
  BY RepairShape
<1> HIDE DEF T, q, k1, k2, k3, b2, b3
<1>13. /\ k1.do = "keys" /\ k1.at = s1 /\ k1.to = s3 /\ k1.drop = None /\ k1.a = n /\ k1.b = d
       /\ \A k : Concerns(k1, k) <=> IsInBetweenModular(Hash[k], n, d)
  <2>1. KeysFields(k1, s1, n, d, s3, None)
    BY <1>8, KeysForFields, Zenon
  <2> QED
    BY <2>1, Zenon DEF KeysFields
<1>14. /\ k2.do = "keys" /\ k2.at = n /\ k2.to = s2 /\ k2.drop = None /\ k2.a = p1 /\ k2.b = n
       /\ \A k : Concerns(k2, k) <=> IsInBetweenModular(Hash[k], p1, n)
  <2>1. KeysFields(k2, n, p1, n, s2, None)
    BY <1>8, KeysForFields, Zenon
  <2> QED
    BY <2>1, Zenon DEF KeysFields
<1>15. /\ k3.do = "keys" /\ k3.at = p1 /\ k3.to = s1 /\ k3.drop = None /\ k3.a = p2 /\ k3.b = p1
       /\ \A k : Concerns(k3, k) <=> IsInBetweenModular(Hash[k], p2, p1)
  <2>1. KeysFields(k3, p1, p2, p1, s1, None)
    BY <1>8, KeysForFields, Zenon
  <2> QED
    BY <2>1, Zenon DEF KeysFields
<1>16. ASSUME NEW k \in Name
       PROVE  /\ b2 => ~(IsInBetweenModular(Hash[k], n, d) /\ IsInBetweenModular(Hash[k], p1, n))
              /\ b3 => ~(IsInBetweenModular(Hash[k], n, d) /\ IsInBetweenModular(Hash[k], p2, p1))
              /\ b2 /\ b3 => ~(IsInBetweenModular(Hash[k], p1, n) /\ IsInBetweenModular(Hash[k], p2, p1))
  <2>1. Hash[k] \in Int /\ IsNext(T, n, d) /\ p1 \in T /\ p2 \in T
    BY <1>4, <1>5 DEF T
  <2>2. b2 => ~(IsInBetweenModular(Hash[k], n, d) /\ IsInBetweenModular(Hash[k], p1, n))
    BY <1>4, <1>6, <1>7, <1>10, <2>1, ArcsApart
  <2>3. b3 => ~(IsInBetweenModular(Hash[k], n, d) /\ IsInBetweenModular(Hash[k], p2, p1))
    <3>1. b3 => d # p1
      BY <1>5
    <3> QED
      BY <1>4, <1>6, <1>10, <2>1, <3>1, ArcsApart
  <2>4. b3 => ~(IsInBetweenModular(Hash[k], p1, n) /\ IsInBetweenModular(Hash[k], p2, p1))
    BY <1>4, <1>6, <1>10, <2>1, ArcsApart
  <2> QED
    BY <2>2, <2>3, <2>4
<1>17. /\ b2 => <<k1, k2>> \notin Tangles
       /\ b3 => <<k1, k3>> \notin Tangles
       /\ b2 /\ b3 => <<k2, k3>> \notin Tangles
  <2>1. b2 => <<k1, k2>> \notin Tangles
    BY <1>13, <1>14, <1>16, KeysApart
  <2>2. b3 => <<k1, k3>> \notin Tangles
    BY <1>13, <1>15, <1>16, KeysApart
  <2>3. b2 /\ b3 => <<k2, k3>> \notin Tangles
    BY <1>14, <1>15, <1>16, KeysApart
  <2> QED
    BY <2>1, <2>2, <2>3
<1> DEFINE K == {k1} \cup {c \in {k2} : b2} \cup {c \in {k3} : b3}
<1>18. Shape(q, K)
  BY <1>11, <1>12, <1>17
<1>20. \A c \in K : c.do = "keys"
  BY <1>13, <1>14, <1>15
<1>21. ASSUME NEW k \in Name PROVE Moves(M, M, Hold(T, k) \cap M, Hold(M, k), k, q)
  <2> DEFINE A == Hold(M, k)
             B == Hold(T, k) \cap M
  <2>1. /\ IsInBetweenModular(Hash[k], n, d) => Route(M, M, B, A, k, s1, s3, None)
        /\ s2 # n /\ IsInBetweenModular(Hash[k], p1, n) => Route(M, M, B, A, k, n, s2, None)
        /\ p1 # n /\ IsInBetweenModular(Hash[k], p2, p1) => Route(M, M, B, A, k, p1, s1, None)
        /\ /\ ~IsInBetweenModular(Hash[k], n, d)
           /\ s2 # n => ~IsInBetweenModular(Hash[k], p1, n)
           /\ p1 # n => ~IsInBetweenModular(Hash[k], p2, p1)
           => B = A
    <3>1. T = M \cup {d} /\ IsNext(T, n, d)
      BY DEF T
    <3>2. RepairGoes(M, T, n, d, k, s1, s2, s3, p1, p2)
      BY <1>3, <3>1, RepairRoutes
    <3> QED
      BY <3>2, Zenon DEF RepairGoes
  <2> HIDE DEF A, B
  <2>2. /\ b2 => ~(Concerns(k1, k) /\ Concerns(k2, k))
        /\ b3 => ~(Concerns(k1, k) /\ Concerns(k3, k))
        /\ b2 /\ b3 => ~(Concerns(k2, k) /\ Concerns(k3, k))
    BY <1>13, <1>14, <1>15, <1>16
  <2>3. /\ Concerns(k1, k) => Route(M, M, B, A, k, k1.at, k1.to, k1.drop)
        /\ b2 /\ Concerns(k2, k) => Route(M, M, B, A, k, k2.at, k2.to, k2.drop)
        /\ b3 /\ Concerns(k3, k) => Route(M, M, B, A, k, k3.at, k3.to, k3.drop)
    BY <1>10, <1>13, <1>14, <1>15, <2>1
  <2>4. ~Concerns(k1, k) /\ ~(b2 /\ Concerns(k2, k)) /\ ~(b3 /\ Concerns(k3, k)) => A = B
    BY <1>10, <1>13, <1>14, <1>15, <2>1
  <2>5. k1.do = "keys" /\ k2.do = "keys" /\ k3.do = "keys"
    BY <1>13, <1>14, <1>15
  <2>6. OneFor(k, k1, k2, k3, b2, b3) /\ OneGoes(M, M, B, A, k, k1, k2, k3, b2, b3)
    BY <2>2, <2>3, <2>4, <2>5, Zenon DEF OneFor, OneGoes
  <2>7. Moves(M, M, B, A, k, q)
    BY <1>10, <1>18, <2>6, OneOfThree, Zenon
  <2> QED
    BY <2>7 DEF A, B
<1> HIDE DEF K
<1>22. Tidy(q) /\ \A c \in Calls(q) : Moving(c) => c \in K
  BY <1>18, <1>20, ShapeTidy
<1>23. \A c \in Calls(q) : Moving(c) => c.do = "keys"
  BY <1>20, <1>22
<1>24. \A k \in Name : Moves(M, M, Hold(M \cup {d}, k) \cap M, Hold(M, k), k, q)
  BY <1>21 DEF T
<1>25. RepairMovesFiles(M, d, q)
  BY <1>22, <1>23, <1>24 DEF RepairMovesFiles
<1> QED
  BY <1>25 DEF q

-----------------------------------------------------------------------------
(* Lookups that neither go round nor name the wrong node *)

\* The nodes of S between m and the owner o.
Left(S, m, o) == {x \in S : Passed(m, x, o)}

\* A node that is not the predecessor of h sends the lookup nearer to the owner.
LEMMA LookupNearer ==
    ASSUME NEW S \in SUBSET Int, IsFiniteSet(S), NEW m \in S, NEW x \in S, NEW h \in Int, NEW o \in S,
           IsNext(S, h - 1, o), IsNext(S, m, x), ~IAmPredecessorOfKey(m, x, h)
    PROVE  /\ x \in Left(S, m, o)
           /\ Cardinality(Left(S, m, o)) \in Nat /\ Cardinality(Left(S, x, o)) \in Nat
           /\ Cardinality(Left(S, x, o)) < Cardinality(Left(S, m, o))
<1>1. x # o
  BY PredecessorOwner
<1>2. x # m
  BY DEF IAmPredecessorOfKey
<1>3. x \in Left(S, m, o)
  BY <1>1, <1>2 DEF Left, IsNext, Passed
<1>4. x \notin Left(S, x, o)
  BY <1>1 DEF Left, Passed
<1>5. Left(S, x, o) \subseteq Left(S, m, o)
  <2>1. ASSUME NEW y \in S, Passed(x, y, o) PROVE Passed(m, y, o)
    <3>1. ~Passed(m, o, x) /\ x \in Int /\ m \in Int /\ o \in Int /\ y \in Int
      BY DEF IsNext
    <3> QED
      BY <1>1, <1>2, <2>1, <3>1 DEF Passed
  <2> QED
    BY <2>1 DEF Left
<1>6. IsFiniteSet(Left(S, m, o)) /\ IsFiniteSet(Left(S, x, o))
  BY FS_Subset DEF Left
<1>7. Cardinality(Left(S, m, o)) \in Nat /\ Cardinality(Left(S, x, o)) \in Nat
  BY <1>6, FS_CardinalityType
<1>8. /\ Cardinality(Left(S, x, o)) <= Cardinality(Left(S, m, o))
      /\ Cardinality(Left(S, x, o)) = Cardinality(Left(S, m, o)) => Left(S, x, o) = Left(S, m, o)
  BY <1>5, <1>6, FS_Subset
<1>9. Left(S, x, o) # Left(S, m, o)
  BY <1>3, <1>4
<1> QED
  BY <1>3, <1>7, <1>8, <1>9

\* The first successors of the members are those of the ring S.
FirstOn(S) == Member \subseteq S /\ \A m \in Member : IsNext(S, m, succ[m][1])

\* The lookup of k ends at p.
Ends(S, k, p) ==
    p \in S /\ (p \in Member => IAmPredecessorOfKey(p, succ[p][1], Hash[k]) /\ Own(S, k, succ[p][1]))

\* A lookup ends, after at most as many steps as there are nodes, and at the
\* owner of the file on the ring S.
LEMMA LookupEnds ==
    ASSUME succ \in [Node -> List], NEW S \in SUBSET Node, FirstOn(S), NEW n \in Member, NEW k \in Name
    PROVE  Ends(S, k, PredecessorOf(n, Hash[k]))
<1> DEFINE h == Hash[k]
           w == Walk(n, h)
           C == Cardinality(Node)
           p == w[C]
<1>1. /\ S \in SUBSET Int /\ IsFiniteSet(S) /\ n \in S /\ S # {} /\ h \in Int /\ Cardinality(S) \in Nat
      /\ Cardinality(S) <= C /\ n \in Node
  <2>1. IsFiniteSet(S) /\ Cardinality(S) <= Cardinality(Node)
    BY FS_Subset
  <2> QED
    BY <2>1, FS_CardinalityType, KeyDistances DEF FirstOn
<1>2. /\ w \in [0 .. C -> Node] /\ w[0] = n /\ C \in Nat
      /\ \A i \in 1 .. C : w[i] = Onward(w[i - 1], h)
  BY <1>1, WalkIs
<1>3. PredecessorOf(n, Hash[k]) = p
  BY DEF PredecessorOf
<1>4. PICK o \in S : IsNext(S, h - 1, o)
  BY <1>1, OwnExists DEF Own
<1> HIDE DEF w, h, C, p
<1>5. \A i \in Nat : i > 0 /\ i <= C => i \in 1 .. C /\ i - 1 \in 0 .. C
  BY <1>2
<1>6. \A i \in 0 .. C : w[i] \in S
  <2> DEFINE Q == {i \in 0 .. C : w[i] \notin S}
  <2>1. Q \in SUBSET Nat /\ \A i \in 0 .. 0 : i \notin Q
    BY <1>1, <1>2
  <2>2. ASSUME NEW i \in Nat, i > 0, i \in Q PROVE i - 1 \in Q
    <3>1. i \in 1 .. C /\ i - 1 \in 0 .. C
      BY <2>2, <1>5
    <3>2. w[i] = Onward(w[i - 1], h)
      BY <1>2, <3>1
    <3>3. w[i - 1] \in S => w[i] \in S
      BY <3>2 DEF Onward, FirstOn, IsNext
    <3> QED
      BY <2>2, <3>1, <3>3
  <2> HIDE DEF Q
  <2>3. \A i \in Nat : i >= 0 => i \notin Q
    BY <2>1, <2>2, NoLeast
  <2> QED
    BY <2>3 DEF Q
\* p is not a member, or the predecessor of h, or nobody before it was.
<1> DEFINE Stops(m) == m \notin Member \/ IAmPredecessorOfKey(m, succ[m][1], h)
<1>7. \A m : Onward(m, h) = IF Stops(m) THEN m ELSE succ[m][1]
  BY DEF Onward
<1> HIDE DEF Stops
<1>8. ASSUME ~Stops(p) PROVE \A i \in 0 .. C : ~Stops(w[i])
  <2> DEFINE Q == {j \in 0 .. C : Stops(w[C - j])}
  <2>1. Q \in SUBSET Nat
    OBVIOUS
  <2>2. \A j \in 0 .. 0 : j \notin Q
    <3>1. w[C - 0] = p
      BY <1>2 DEF p
    <3> QED
      BY <1>8, <3>1
  <2>3. ASSUME NEW j \in Nat, j > 0, j \in Q PROVE j - 1 \in Q
    <3>1. PICK i \in 0 .. C : i = C - j /\ i + 1 \in 1 .. C /\ i + 1 = C - (j - 1) /\ (i + 1) - 1 = i /\ j - 1 \in 0 .. C
      BY <1>2, <2>3
    <3>2. Stops(w[i])
      BY <2>3, <3>1
    <3>3. w[i + 1] = Onward(w[i], h)
      BY <1>2, <3>1
    <3>4. w[i + 1] = w[i]
      BY <1>7, <3>2, <3>3
    <3> QED
      BY <3>1, <3>2, <3>4
  <2> HIDE DEF Q
  <2>4. \A j \in Nat : j >= 0 => j \notin Q
    BY <2>1, <2>2, <2>3, NoLeast
  <2>5. ASSUME NEW i \in 0 .. C PROVE ~Stops(w[i])
    <3>1. PICK j \in Nat : j = C - i /\ j \in 0 .. C /\ C - j = i
      BY <1>2, <2>5
    <3> QED
      BY <2>4, <3>1 DEF Q
  <2> QED
    BY <2>5
<1>9. Stops(p)
  <2>1. SUFFICES ASSUME ~Stops(p) PROVE FALSE
    OBVIOUS
  <2> DEFINE L(i) == Cardinality(Left(S, w[i], o))
             Q == {i \in 0 .. C : ~(L(i) + i <= C)}
  <2>2. ASSUME NEW m \in S, ~Stops(m)
        PROVE  /\ L(0) = L(0) /\ succ[m][1] \in Left(S, m, o)
               /\ Cardinality(Left(S, m, o)) \in Nat /\ Cardinality(Left(S, succ[m][1], o)) \in Nat
               /\ Cardinality(Left(S, succ[m][1], o)) < Cardinality(Left(S, m, o))
    <3>1. m \in Member /\ ~IAmPredecessorOfKey(m, succ[m][1], h) /\ IsNext(S, m, succ[m][1]) /\ succ[m][1] \in S
      BY <2>2 DEF Stops, FirstOn, IsNext
    <3> QED
      BY <1>1, <1>4, <3>1, LookupNearer
  <2>3. L(0) <= C /\ L(0) \in Nat
    <3>1. Left(S, w[0], o) \subseteq S
      BY DEF Left
    <3>2. L(0) <= Cardinality(S) /\ L(0) \in Nat
      BY <1>1, <3>1, FS_Subset, FS_CardinalityType
    <3> QED
      BY <1>1, <1>2, <3>2
  <2>4. Q \in SUBSET Nat /\ \A i \in 0 .. 0 : i \notin Q
    BY <1>2, <2>3
  <2>5. ASSUME NEW i \in Nat, i > 0, i \in Q PROVE i - 1 \in Q
    <3>1. i \in 1 .. C /\ i - 1 \in 0 .. C /\ i \in 0 .. C
      BY <2>5, <1>5
    <3>2. w[i] = succ[w[i - 1]][1] /\ ~Stops(w[i - 1]) /\ w[i - 1] \in S
      BY <1>2, <1>6, <1>7, <1>8, <2>1, <3>1
    <3>3. L(i - 1) \in Nat /\ L(i) \in Nat /\ L(i) < L(i - 1)
      BY <2>2, <3>2
    <3>4. ~(L(i) + i <= C)
      BY <2>5
    <3> HIDE DEF L
    <3>5. ~(L(i - 1) + (i - 1) <= C)
      BY <1>2, <3>3, <3>4
    <3> QED
      BY <3>1, <3>5
  <2> HIDE DEF Q
  <2>6. \A i \in Nat : i >= 0 => i \notin Q
    BY <2>4, <2>5, NoLeast
  <2>7. C \in 0 .. C /\ C \in Nat
    BY <1>2
  <2>8. L(C) + C <= C
    BY <2>6, <2>7 DEF Q
  <2>9. /\ succ[p][1] \in Left(S, p, o) /\ Cardinality(Left(S, p, o)) \in Nat
        /\ Cardinality(Left(S, succ[p][1], o)) \in Nat
        /\ Cardinality(Left(S, succ[p][1], o)) < Cardinality(Left(S, p, o))
    BY <1>6, <2>1, <2>2, <2>7 DEF p
  <2>10. L(C) = Cardinality(Left(S, p, o))
    BY DEF p
  <2> HIDE DEF L
  <2> QED
    BY <1>2, <2>8, <2>9, <2>10
<1>10. p \in S
  BY <1>2, <1>6 DEF p
<1>11. ASSUME p \in Member PROVE IAmPredecessorOfKey(p, succ[p][1], h) /\ IsNext(S, h - 1, succ[p][1])
  <2>1. IAmPredecessorOfKey(p, succ[p][1], h)
    BY <1>9, <1>11 DEF Stops
  <2>2. IsNext(S, p, succ[p][1]) /\ succ[p][1] \in S
    BY <1>11 DEF FirstOn, IsNext
  <2> QED
    BY <1>1, <1>10, <2>1, <2>2, PredecessorOwner
<1> QED
  BY <1>3, <1>10, <1>11 DEF Ends, Own, h

-----------------------------------------------------------------------------
(* A file goes on its way *)

\* The contents of k are not in hand to be put down: it has still to be fetched.
NotInHand(q, k) ==
    \A c \in Concern(q, k) : c.do = "put" => \E d \in Concern(q, k) : d.do \in {"get", "force get"}

IsKeys(c) == c.do = "keys" /\ c.do \notin {"get", "force get", "put", "drop"}
IsFetch(c) == c.do \in {"get", "force get"} /\ c.do \notin {"keys", "put", "drop"}
IsPut(c) == c.do = "put" /\ c.do \notin {"keys", "get", "force get", "drop"}
IsDrop(c) == c.do = "drop" /\ c.do \notin {"keys", "get", "force get", "put"}

LEMMA Kinds ==
    \A c : /\ IsKeys(c) => ~IsFetch(c) /\ ~IsPut(c) /\ ~IsDrop(c)
           /\ IsFetch(c) => ~IsPut(c) /\ ~IsDrop(c)
           /\ IsPut(c) => ~IsDrop(c)
BY DEF IsKeys, IsFetch, IsPut, IsDrop

LEMMA OpKinds ==
    ASSUME NEW c
    PROVE  /\ c.do = "keys" <=> IsKeys(c)
           /\ c.do \in {"get", "force get"} <=> IsFetch(c)
           /\ c.do = "put" <=> IsPut(c)
           /\ c.do = "drop" <=> IsDrop(c)
<1>1. PICK op : op = c.do
  OBVIOUS
<1>2. c.do = "keys" <=> IsKeys(c)
  BY <1>1 DEF IsKeys
<1>3. c.do \in {"get", "force get"} <=> IsFetch(c)
  BY <1>1 DEF IsFetch
<1>4. c.do = "put" <=> IsPut(c)
  BY <1>1 DEF IsPut
<1>5. c.do = "drop" <=> IsDrop(c)
  BY <1>1 DEF IsDrop
<1> QED
  BY <1>2, <1>3, <1>4, <1>5

\* A later turn is that of a later kind of call.
LEMMA TurnKinds ==
    ASSUME NEW c, NEW d, Turn(c.do) < Turn(d.do)
    PROVE  /\ IsPut(c) => ~IsFetch(d)
           /\ IsDrop(c) => ~IsFetch(d) /\ ~IsPut(d) /\ ~IsDrop(d)
<1>1. /\ IsFetch(d) => Turn(d.do) = 1
      /\ IsPut(d) => Turn(d.do) = 2
      /\ IsDrop(d) => Turn(d.do) = 3
  BY DEF Turn, IsFetch, IsPut, IsDrop
<1>2. /\ IsPut(c) => Turn(c.do) = 2
      /\ IsDrop(c) => Turn(c.do) = 3
  BY DEF Turn, IsPut, IsDrop
<1> QED
  BY <1>1, <1>2

LEMMA FetchKind == \A by \in {"get", "force get"} : \A o, k : IsFetch(FetchOf(by, o, k)) /\ FetchOf(by, o, k).at = o
BY DEF FetchOf, IsFetch

LEMMA PutKind == \A o, k : IsPut(PutOf(o, k)) /\ PutOf(o, k).at = o
BY DEF PutOf, IsPut

LEMMA DropKind == \A x, k, c : c \in DropOf(x, k) => IsDrop(c) /\ c.at = x /\ x # None
<1>1. ASSUME NEW x, NEW k PROVE IsDrop(DropAt(x, k)) /\ DropAt(x, k).at = x
  BY DEF DropAt, IsDrop
<1>2. \A x, k, c : c \in DropOf(x, k) => c = DropAt(x, k) /\ x # None
  BY DEF DropOf
<1> QED
  BY <1>1, <1>2

LEMMA WaitingKinds ==
    ASSUME NEW q, NEW k, NEW o, NEW to, NEW x, Waiting(q, k, o, to, x)
    PROVE  \A c \in Concern(q, k) : IsKeys(c)
<1>1. PICK e : Concern(q, k) = {e} /\ e.do = "keys"
  BY DEF Waiting
<1>2. IsKeys(e)
  BY <1>1, OpKinds
<1> QED
  BY <1>1, <1>2

LEMMA FetchingKinds ==
    ASSUME NEW q, NEW k, NEW o, NEW to, NEW x, Fetching(q, k, o, to, x)
    PROVE  /\ \A c \in Concern(q, k) : IsFetch(c) \/ IsPut(c) \/ IsDrop(c)
           /\ \A c \in Concern(q, k) : IsFetch(c) => c.at = o /\ Writing1(Concern(q, k) \ {c}, k, to, x)
           /\ \E c \in Concern(q, k) : IsFetch(c)
<1>1. PICK by \in {"get", "force get"} : Concern(q, k) = {FetchOf(by, o, k), PutOf(to, k)} \cup DropOf(x, k)
  BY DEF Fetching
<1>2. PICK e : e = FetchOf(by, o, k) /\ IsFetch(e) /\ e.at = o
  BY FetchKind
<1>3. PICK D : D = DropOf(x, k) /\ \A c \in D : IsDrop(c)
  BY DropKind
<1>4. PICK p : p = PutOf(to, k) /\ IsPut(p)
  BY PutKind
<1>5. Concern(q, k) = {e, p} \cup D
  BY <1>1, <1>2, <1>3, <1>4
<1>6. p # e /\ e \notin D /\ p \notin D
  BY <1>2, <1>3, <1>4, Kinds
<1>7. Concern(q, k) \ {e} = {p} \cup D
  BY <1>5, <1>6
<1>8. \A c \in Concern(q, k) : IsFetch(c) => c = e
  BY <1>3, <1>4, <1>5, Kinds
<1> QED
  BY <1>2, <1>3, <1>4, <1>5, <1>7, <1>8 DEF Writing1

LEMMA WritingKinds ==
    ASSUME NEW q, NEW k, NEW to, NEW x, Writing(q, k, to, x)
    PROVE  /\ \A c \in Concern(q, k) : IsPut(c) \/ IsDrop(c)
           /\ \A c \in Concern(q, k) : IsPut(c) => c.at = to /\ Concern(q, k) \ {c} = DropOf(x, k)
           /\ \E c \in Concern(q, k) : IsPut(c)
<1>3. PICK D : D = DropOf(x, k) /\ \A c \in D : IsDrop(c)
  BY DropKind
<1>4. PICK p : p = PutOf(to, k) /\ IsPut(p) /\ p.at = to
  BY PutKind
<1>5. Concern(q, k) = {p} \cup D
  BY <1>3, <1>4 DEF Writing, Writing1
<1>6. p \notin D
  BY <1>3, <1>4, Kinds
<1>7. Concern(q, k) \ {p} = D
  BY <1>5, <1>6
<1>8. \A c \in Concern(q, k) : IsPut(c) => c = p
  BY <1>3, <1>5, Kinds
<1> QED
  BY <1>3, <1>4, <1>5, <1>7, <1>8

LEMMA LeftKinds ==
    ASSUME NEW q, NEW k, NEW F, NEW A, NEW st, NEW v, LeftBehind(F, A, k, q, st, v)
    PROVE  \A c \in Concern(q, k) : /\ IsDrop(c) /\ c.at \in F \ A
                                    /\ Concern(q, k) \ {c} = {} /\ Placed(st, F \ {c.at}, A, k, v)
<1>1. PICK x \in F \ A : Concern(q, k) = DropOf(x, k) /\ Placed(st, F \ {x}, A, k, v)
  BY DEF LeftBehind
<1>2. \A c \in Concern(q, k) : IsDrop(c) /\ c.at = x
  BY <1>1, DropKind
<1>3. \A c \in Concern(q, k) : c = DropAt(x, k)
  BY <1>1 DEF DropOf
<1> QED
  BY <1>1, <1>2, <1>3

\* A step that is not for k.
LEMMA StageSame ==
    ASSUME NEW M, NEW F, NEW B, NEW A, NEW k, NEW q, NEW st, NEW h, NEW v, Stage(M, F, B, A, k, q, st, h, v),
           NEW r, Concern(r, k) = Concern(q, k), NEW st2, \A m \in F : st2[m][k] = st[m][k],
           NEW h2, h2 = h \/ NotInHand(q, k)
    PROVE  Stage(M, F, B, A, k, r, st2, h2, v)
<1>1. \A S : \A G \in SUBSET F : Placed(st, G, S, k, v) => Placed(st2, G, S, k, v)
  BY DEF Placed
<1>2. CASE Arrived(F, A, k, q, st, v)
  <2>1. Arrived(F, A, k, r, st2, v)
    BY <1>1, <1>2 DEF Arrived
  <2> QED
    BY <2>1 DEF Stage
<1>3. CASE OnItsWay(M, F, B, A, k, q, st, h, v)
  <2>1. PICK o \in B, to \in F, x \in F \cup {None} :
            /\ Route(M, F, B, A, k, o, to, x) /\ Placed(st, F, B, k, v)
            /\ \/ Waiting(q, k, o, to, x)
               \/ v # Absent /\ Fetching(q, k, o, to, x)
               \/ v # Absent /\ h = v /\ Writing(q, k, to, x)
    BY <1>3 DEF OnItsWay
  <2>2. Placed(st2, F, B, k, v)
    BY <1>1, <2>1
  <2>3. /\ Waiting(q, k, o, to, x) => Waiting(r, k, o, to, x)
        /\ Fetching(q, k, o, to, x) => Fetching(r, k, o, to, x)
        /\ Writing(q, k, to, x) => Writing(r, k, to, x)
    BY DEF Waiting, Fetching, Writing, Writing1
  <2>4. Writing(q, k, to, x) => ~NotInHand(q, k)
    <3>1. PutOf(to, k).do = "put" /\ \A c \in DropOf(x, k) : c.do = "drop"
      BY DEF FetchOf, PutOf, DropOf, DropAt
    <3> QED
      BY <3>1 DEF Writing, Writing1, NotInHand
  <2>5. OnItsWay(M, F, B, A, k, r, st2, h2, v)
    BY <2>1, <2>2, <2>3, <2>4 DEF OnItsWay
  <2> QED
    BY <2>5 DEF Stage
<1>4. CASE LeftBehind(F, A, k, q, st, v)
  <2>1. LeftBehind(F, A, k, r, st2, v)
    BY <1>1, <1>4 DEF LeftBehind
  <2> QED
    BY <2>1 DEF Stage
<1> QED
  BY <1>2, <1>3, <1>4 DEF Stage

LEMMA HeadForOther ==
    ASSUME NEW q \in Seq(Call), q # <<>>, Tidy(q), NEW k \in Name, ~Concerns(Head(q), k)
    PROVE  Concern(Tail(q), k) = Concern(q, k) /\ NotInHand(q, k)
<1>1. Ordered(q, Tangles) /\ Paired(q)
  BY DEF Tidy
<1>2. Concern(Tail(q), k) = Concern(q, k)
  BY <1>1, ConcernTail
<1>3. NotInHand(q, k)
  <2>1. SUFFICES ASSUME NEW c \in Concern(q, k), c.do = "put"
                 PROVE  \E d \in Concern(q, k) : d.do \in {"get", "force get"}
    BY DEF NotInHand
  <2>2. c \in Calls(q) /\ Concerns(c, k) /\ c # Head(q)
    BY DEF Concern
  <2>3. c.k = k
    BY <2>1, <2>2 DEF Concerns
  <2>4. PICK d \in Calls(q) : d.do \in {"get", "force get"} /\ d.k = c.k
    BY <1>1, <2>1, <2>2, PairedTail
  <2>5. Concerns(d, k)
    BY <2>3, <2>4 DEF Concerns
  <2> QED
    BY <2>4, <2>5 DEF Concern
<1> QED
  BY <1>2, <1>3

\* The head of q is for k: the others for k come after it.
HeadFor(q, k) ==
    /\ Concern(Tail(q), k) = Concern(q, k) \ {Head(q)}
    /\ Head(q) \in Concern(q, k)
    /\ \A c \in Concern(q, k) : c = Head(q) \/
          (Head(q).do # "keys" /\ c.do # "keys" /\ Turn(Head(q).do) < Turn(c.do))

LEMMA HeadForIt ==
    ASSUME NEW q \in Seq(Call), q # <<>>, Tidy(q), NEW k \in Name, Concerns(Head(q), k)
    PROVE  HeadFor(q, k)
<1>1. Ordered(q, Tangles)
  BY DEF Tidy
<1> QED
  BY <1>1, ConcernTail DEF HeadFor

\* The names at c.at are listed next.
NamesNext(M, F, B, A, k, c, q, st, v) ==
    /\ Route(M, F, B, A, k, c.at, c.to, c.drop) /\ Placed(st, F, B, k, v)
    /\ Concern(q, k) = {}

LEMMA StageNames ==
    ASSUME NEW q, NEW k, HeadFor(q, k), Head(q).do = "keys",
           NEW M, NEW F, NEW B, NEW A, NEW st, NEW h, NEW v, Stage(M, F, B, A, k, q, st, h, v)
    PROVE  NamesNext(M, F, B, A, k, Head(q), Tail(q), st, v)
<1> DEFINE c == Head(q)
<1>1. c \in Concern(q, k) /\ Concern(Tail(q), k) = Concern(q, k) \ {c}
  BY DEF HeadFor
<1>2. IsKeys(c)
  BY OpKinds
<1> HIDE DEF c
<1>3. ~LeftBehind(F, A, k, q, st, v) /\ ~Arrived(F, A, k, q, st, v)
  BY <1>1, <1>2, LeftKinds, Kinds DEF Arrived
<1>4. PICK o \in B, to \in F, x \in F \cup {None} :
          /\ Route(M, F, B, A, k, o, to, x) /\ Placed(st, F, B, k, v)
          /\ Waiting(q, k, o, to, x) \/ Fetching(q, k, o, to, x) \/ Writing(q, k, to, x)
  BY <1>3 DEF Stage, OnItsWay
<1>5. ~Fetching(q, k, o, to, x) /\ ~Writing(q, k, to, x)
  BY <1>1, <1>2, FetchingKinds, WritingKinds, Kinds
<1>6. Concern(q, k) = {c} /\ c.at = o /\ c.to = to /\ c.drop = x
  BY <1>1, <1>4, <1>5 DEF Waiting
<1>7. NamesNext(M, F, B, A, k, c, Tail(q), st, v)
  BY <1>1, <1>4, <1>6 DEF NamesNext
<1> QED
  BY <1>7 DEF c

\* The file has been fetched from its owner o.
FetchNext(M, F, B, A, k, q, st, v, o, to, x) ==
    /\ Route(M, F, B, A, k, o, to, x) /\ Placed(st, F, B, k, v) /\ v # Absent
    /\ Writing(q, k, to, x)

LEMMA StageFetch ==
    ASSUME NEW q, NEW k, HeadFor(q, k), Head(q).do \in {"get", "force get"},
           NEW M, NEW F, NEW B, NEW A, NEW st, NEW h, NEW v, Stage(M, F, B, A, k, q, st, h, v)
    PROVE  \E to, x : FetchNext(M, F, B, A, k, Tail(q), st, v, Head(q).at, to, x)
<1> DEFINE c == Head(q)
<1>1. c \in Concern(q, k) /\ Concern(Tail(q), k) = Concern(q, k) \ {c}
  BY DEF HeadFor
<1>2. IsFetch(c)
  BY OpKinds
<1> HIDE DEF c
<1>3. ~LeftBehind(F, A, k, q, st, v) /\ ~Arrived(F, A, k, q, st, v)
  BY <1>1, <1>2, LeftKinds, Kinds DEF Arrived
<1>4. PICK o \in B, to \in F, x \in F \cup {None} :
          /\ Route(M, F, B, A, k, o, to, x) /\ Placed(st, F, B, k, v)
          /\ Waiting(q, k, o, to, x) \/ (v # Absent /\ Fetching(q, k, o, to, x)) \/ Writing(q, k, to, x)
  BY <1>3 DEF Stage, OnItsWay
<1>5. ~Waiting(q, k, o, to, x) /\ ~Writing(q, k, to, x)
  BY <1>1, <1>2, WaitingKinds, WritingKinds, Kinds
<1>6. c.at = o /\ Writing1(Concern(q, k) \ {c}, k, to, x)
  BY <1>1, <1>2, <1>4, <1>5, FetchingKinds
<1>7. Writing(Tail(q), k, to, x)
  BY <1>1, <1>6 DEF Writing
<1>8. FetchNext(M, F, B, A, k, Tail(q), st, v, c.at, to, x)
  BY <1>4, <1>5, <1>6, <1>7 DEF FetchNext
<1> QED
  BY <1>8 DEF c

\* The file has been put down at to.
PutNext(M, F, B, A, k, q, st, h, v, o, to, x) ==
    /\ Route(M, F, B, A, k, o, to, x) /\ Placed(st, F, B, k, v) /\ v # Absent /\ h = v
    /\ Concern(q, k) = DropOf(x, k)

LEMMA StagePut ==
    ASSUME NEW q, NEW k, HeadFor(q, k), Head(q).do = "put",
           NEW M, NEW F, NEW B, NEW A, NEW st, NEW h, NEW v, Stage(M, F, B, A, k, q, st, h, v)
    PROVE  \E o, x : PutNext(M, F, B, A, k, Tail(q), st, h, v, o, Head(q).at, x)
<1> DEFINE c == Head(q)
<1>1. c \in Concern(q, k) /\ Concern(Tail(q), k) = Concern(q, k) \ {c}
  BY DEF HeadFor
<1>2. IsPut(c)
  BY OpKinds
<1>3. \A e \in Concern(q, k) : ~IsFetch(e)
  <2>1. ASSUME NEW e \in Concern(q, k) PROVE ~IsFetch(e)
    <3>1. e = c \/ Turn(c.do) < Turn(e.do)
      BY DEF HeadFor
    <3> HIDE DEF c
    <3> QED
      BY <1>2, <3>1, TurnKinds, Kinds
  <2> QED
    BY <2>1
<1> HIDE DEF c
<1>4. ~LeftBehind(F, A, k, q, st, v) /\ ~Arrived(F, A, k, q, st, v)
  BY <1>1, <1>2, LeftKinds, Kinds DEF Arrived
<1>5. PICK o \in B, to \in F, x \in F \cup {None} :
          /\ Route(M, F, B, A, k, o, to, x) /\ Placed(st, F, B, k, v)
          /\ \/ Waiting(q, k, o, to, x) \/ Fetching(q, k, o, to, x)
             \/ v # Absent /\ h = v /\ Writing(q, k, to, x)
  BY <1>4 DEF Stage, OnItsWay
<1>6. ~Waiting(q, k, o, to, x) /\ ~Fetching(q, k, o, to, x)
  BY <1>1, <1>2, <1>3, WaitingKinds, FetchingKinds, Kinds
<1>7. c.at = to /\ Concern(Tail(q), k) = DropOf(x, k)
  BY <1>1, <1>2, <1>5, <1>6, WritingKinds
<1>8. PutNext(M, F, B, A, k, Tail(q), st, h, v, o, c.at, x)
  BY <1>5, <1>6, <1>7 DEF PutNext
<1> QED
  BY <1>8 DEF c

\* The copy on x has been deleted.
DropNext(F, A, k, q, st, v, x) ==
    x \in F \ A /\ Placed(st, F \ {x}, A, k, v) /\ Concern(q, k) = {}

LEMMA StageDrop ==
    ASSUME NEW q, NEW k, HeadFor(q, k), Head(q).do = "drop",
           NEW M, NEW F, NEW B, NEW A, NEW st, NEW h, NEW v, Stage(M, F, B, A, k, q, st, h, v)
    PROVE  DropNext(F, A, k, Tail(q), st, v, Head(q).at)
<1> DEFINE c == Head(q)
<1>1. c \in Concern(q, k) /\ Concern(Tail(q), k) = Concern(q, k) \ {c}
  BY DEF HeadFor
<1>2. IsDrop(c)
  BY OpKinds
<1>3. \A e \in Concern(q, k) : ~IsFetch(e) /\ ~IsPut(e)
  <2>1. ASSUME NEW e \in Concern(q, k) PROVE ~IsFetch(e) /\ ~IsPut(e)
    <3>1. e = c \/ Turn(c.do) < Turn(e.do)
      BY DEF HeadFor
    <3> HIDE DEF c
    <3> QED
      BY <1>2, <3>1, TurnKinds, Kinds
  <2> QED
    BY <2>1
<1> HIDE DEF c
<1>4. \A o, to, x : ~Waiting(q, k, o, to, x) /\ ~Fetching(q, k, o, to, x) /\ ~Writing(q, k, to, x)
  BY <1>1, <1>2, <1>3, WaitingKinds, FetchingKinds, WritingKinds, Kinds
<1>5. LeftBehind(F, A, k, q, st, v)
  BY <1>1, <1>4 DEF Stage, OnItsWay, Arrived
<1>6. DropNext(F, A, k, Tail(q), st, v, c.at)
  BY <1>1, <1>5, LeftKinds DEF DropNext
<1> QED
  BY <1>6 DEF c

\* The request r is for the replicas of k, and waits for the newcomer.
HeldBy(r, k) == r # None /\ r.do = "replicate" /\ r.k = k

\* The owner in r knows, from its list in s, that A hold k on the ring T; nobody
\* else has a copy, and nobody moves one.
Held(T, M, A, k, q, r, s, st, v) ==
    /\ Concern(q, k) = {}
    /\ r.at \in M /\ r.v = v
    /\ IsSuccs(T, r.at, s[r.at])
    /\ {r.at, s[r.at][1], s[r.at][2]} = A
    /\ \A m \in T \ A : st[m][k] = Absent

\* k is held up, or on its way from B to A, as far as the nodes F are concerned.
OnTrack(M, F, B, A, k, q, r, s, st, h, v) ==
    IF HeldBy(r, k) THEN Held(F, M, A, k, q, r, s, st, v) ELSE Stage(M, F, B, A, k, q, st, h, v)

LEMMA TrackSame ==
    ASSUME NEW M, NEW F, NEW B, NEW A, NEW k, NEW q, NEW r, NEW s, NEW st, NEW h, NEW v,
           OnTrack(M, F, B, A, k, q, r, s, st, h, v),
           NEW q2, Concern(q2, k) = Concern(q, k), NEW st2, \A m \in F : st2[m][k] = st[m][k],
           NEW h2, h2 = h \/ NotInHand(q, k)
    PROVE  OnTrack(M, F, B, A, k, q2, r, s, st2, h2, v)
<1>1. CASE HeldBy(r, k)
  <2>1. Held(F, M, A, k, q, r, s, st, v)
    BY <1>1 DEF OnTrack
  <2>2. Held(F, M, A, k, q2, r, s, st2, v)
    BY <2>1 DEF Held
  <2> QED
    BY <1>1, <2>2 DEF OnTrack
<1>2. CASE ~HeldBy(r, k)
  <2>1. Stage(M, F, B, A, k, q, st, h, v)
    BY <1>2 DEF OnTrack
  <2>2. Stage(M, F, B, A, k, q2, st2, h2, v)
    BY <2>1, StageSame
  <2> QED
    BY <1>2, <2>2 DEF OnTrack
<1> QED
  BY <1>1, <1>2

\* The call made is not for k.
LEMMA TrackOther ==
    ASSUME NEW M, NEW F, NEW B, NEW A, NEW k \in Name, NEW q \in Seq(Call), q # <<>>, Tidy(q),
           NEW r, NEW s, NEW st, NEW h, NEW v,
           OnTrack(M, F, B, A, k, q, r, s, st, h, v), ~Concerns(Head(q), k),
           NEW st2, \A m \in F : st2[m][k] = st[m][k], NEW h2
    PROVE  OnTrack(M, F, B, A, k, Tail(q), r, s, st2, h2, v)
<1>1. Concern(Tail(q), k) = Concern(q, k) /\ NotInHand(q, k)
  BY HeadForOther
<1> QED
  BY <1>1, TrackSame

\* A call for k: k is not held up.
LEMMA TrackHead ==
    ASSUME NEW M, NEW F, NEW B, NEW A, NEW k \in Name, NEW q \in Seq(Call), q # <<>>, Tidy(q),
           NEW r, NEW s, NEW st, NEW h, NEW v,
           OnTrack(M, F, B, A, k, q, r, s, st, h, v), Concerns(Head(q), k)
    PROVE  ~HeldBy(r, k) /\ Stage(M, F, B, A, k, q, st, h, v) /\ HeadFor(q, k)
<1>1. HeadFor(q, k)
  BY HeadForIt
<1>2. ~Held(F, M, A, k, q, r, s, st, v)
  BY <1>1 DEF Held, HeadFor
<1> QED
  BY <1>1, <1>2 DEF OnTrack

LEMMA StageTrack ==
    ASSUME NEW M, NEW F, NEW B, NEW A, NEW k, NEW q, NEW r, NEW s, NEW st, NEW h, NEW v,
           ~HeldBy(r, k), Stage(M, F, B, A, k, q, st, h, v)
    PROVE  OnTrack(M, F, B, A, k, q, r, s, st, h, v)
BY DEF OnTrack

\* The names that concern k.
Adds(f, c, K, q, k) ==
    /\ f \o q \in Seq(Call) /\ Calls(f \o q) = Calls(f) \cup Calls(q)
    /\ k \in K => Concern(f \o q, k) = FileSteps(c, k) \cup Concern(q, k)
    /\ k \notin K => Concern(f \o q, k) = Concern(q, k)

LEMMA ListedFor ==
    ASSUME NEW c \in KeysCall, NEW K \in SUBSET Name, NEW f, FilesListed(f, c, K),
           NEW q \in Seq(Call), NEW k \in Name
    PROVE  Adds(f, c, K, q, k)
<1>1. f \in Seq(FileCall) /\ Calls(f) = UNION {FileSteps(c, i) : i \in K}
  BY DEF FilesListed
<1>2. FileCall \subseteq Call
  BY DEF FileCall, Call
<1>3. f \in Seq(Call)
  BY <1>1, <1>2
<1>4. f \o q \in Seq(Call) /\ Calls(f \o q) = Calls(f) \cup Calls(q)
  BY <1>3, CallsConcat
<1>5. Concern(f \o q, k) = Concern(f, k) \cup Concern(q, k)
  BY <1>4 DEF Concern
<1>6. \A i \in Name : \A x \in FileSteps(c, i) : x \in FileCall /\ x.k = i
  BY MoveFileOrder
<1>7. \A x \in FileCall : Concerns(x, k) <=> x.k = k
  <2>1. SUFFICES ASSUME NEW x \in FileCall PROVE Concerns(x, k) <=> x.k = k
    OBVIOUS
  <2>2. x.do \in {"get", "force get", "put", "drop"}
    BY DEF FileCall
  <2>3. x.do # "keys"
    BY <2>2
  <2> QED
    BY <2>2, <2>3, Zenon DEF Concerns
<1>8. \A x : x \in Calls(f) <=> \E i \in K : x \in FileSteps(c, i)
  BY <1>1, Zenon
<1>9. k \in K => Concern(f, k) = FileSteps(c, k)
  <2>1. ASSUME k \in K, NEW x \in FileSteps(c, k) PROVE x \in Concern(f, k)
    <3>1. x \in FileCall /\ x.k = k /\ x \in Calls(f)
      BY <1>6, <1>8, <2>1, Zenon
    <3> QED
      BY <1>7, <3>1 DEF Concern
  <2>2. ASSUME NEW x \in Concern(f, k) PROVE x \in FileSteps(c, k)
    <3>1. x \in Calls(f) /\ Concerns(x, k)
      BY DEF Concern
    <3>2. PICK i \in K : x \in FileSteps(c, i)
      BY <1>8, <3>1, Zenon
    <3>3. i \in Name
      OBVIOUS
    <3>4. x \in FileCall /\ x.k = i
      BY <1>6, <3>2, <3>3, Zenon
    <3>5. i = k
      BY <1>7, <3>1, <3>4
    <3> QED
      BY <3>2, <3>5
  <2> QED
    BY <2>1, <2>2
<1>10. k \notin K => Concern(f, k) = {}
  <2>1. ASSUME k \notin K, NEW x PROVE x \notin Concern(f, k)
    <3>1. SUFFICES ASSUME x \in Concern(f, k) PROVE FALSE
      OBVIOUS
    <3>2. x \in Calls(f) /\ Concerns(x, k)
      BY <3>1 DEF Concern
    <3>3. PICK i \in K : x \in FileSteps(c, i)
      BY <1>8, <3>2, Zenon
    <3>4. i \in Name
      OBVIOUS
    <3>5. x \in FileCall /\ x.k = i
      BY <1>6, <3>3, <3>4, Zenon
    <3>6. i = k
      BY <1>7, <3>2, <3>5
    <3> QED
      BY <2>1, <3>6
  <2> QED
    BY <2>1
<1> QED
  BY <1>4, <1>5, <1>9, <1>10 DEF Adds

\* The names at c.at are listed, and the calls for the files are due.
Listed(q, q2, st) ==
    \E f : /\ FilesListed(f, Head(q), {k \in Name : st[Head(q).at][k] # Absent /\
                                        IsInBetweenModular(Hash[k], Head(q).a, Head(q).b)})
          /\ q2 = f \o Tail(q)

LEMMA TrackKeys ==
    ASSUME NEW M, NEW F, NEW B, NEW A, NEW k \in Name, NEW q \in Seq(Call), q # <<>>, Tidy(q),
           Head(q) \in KeysCall, Head(q).do = "keys",
           NEW r, NEW s, NEW st, NEW h, NEW v, OnTrack(M, F, B, A, k, q, r, s, st, h, v),
           NEW q2, Listed(q, q2, st)
    PROVE  OnTrack(M, F, B, A, k, q2, r, s, st, h, v)
<1> DEFINE c == Head(q)
           K == {i \in Name : st[c.at][i] # Absent /\ IsInBetweenModular(Hash[i], c.a, c.b)}
<1>1. PICK f : FilesListed(f, c, K) /\ q2 = f \o Tail(q)
  BY DEF Listed
<1>2. K \in SUBSET Name /\ c \in KeysCall /\ Tail(q) \in Seq(Call)
  BY CallsTail
<1>3. k \in K <=> st[c.at][k] # Absent /\ IsInBetweenModular(Hash[k], c.a, c.b)
  OBVIOUS
<1>4. Concerns(c, k) <=> IsInBetweenModular(Hash[k], c.a, c.b)
  <2>1. c.do = "keys"
    OBVIOUS
  <2> HIDE DEF c
  <2>2. c.do \notin {"get", "force get", "put", "drop"}
    BY <2>1
  <2> QED
    BY <2>1, <2>2, Zenon DEF Concerns
<1>5. ~Concerns(c, k) => Concern(Tail(q), k) = Concern(q, k)
  BY HeadForOther
<1> HIDE DEF K
<1>6. /\ k \in K => Concern(q2, k) = FileSteps(c, k) \cup Concern(Tail(q), k)
      /\ k \notin K => Concern(q2, k) = Concern(Tail(q), k)
  <2>1. Adds(f, c, K, Tail(q), k)
    BY <1>1, <1>2, ListedFor
  <2> QED
    BY <1>1, <2>1 DEF Adds
<1>7. CASE ~Concerns(c, k)
  <2>1. Concern(q2, k) = Concern(q, k)
    BY <1>3, <1>4, <1>5, <1>6, <1>7
  <2> QED
    BY <2>1, TrackSame
<1>8. CASE Concerns(c, k)
  <2>1. ~HeldBy(r, k) /\ Stage(M, F, B, A, k, q, st, h, v) /\ HeadFor(q, k)
    BY <1>8, TrackHead
  <2>2. NamesNext(M, F, B, A, k, c, Tail(q), st, v)
    BY <2>1, StageNames
  <2>3. /\ Route(M, F, B, A, k, c.at, c.to, c.drop) /\ Placed(st, F, B, k, v)
        /\ Concern(Tail(q), k) = {}
    BY <2>2 DEF NamesNext
  <2>4. c.at \in B /\ c.at \in F /\ B \subseteq F /\ c.to \in F /\ c.drop \in F \cup {None}
    BY <2>3 DEF Route
  <2>5. st[c.at][k] = v
    BY <2>3, <2>4 DEF Placed
  <2>6. CASE v = Absent
    <3>1. Concern(q2, k) = {}
      BY <1>3, <1>6, <2>3, <2>5, <2>6
    <3>2. Placed(st, F, A, k, v)
      BY <2>3, <2>6 DEF Placed
    <3>3. Stage(M, F, B, A, k, q2, st, h, v)
      BY <3>1, <3>2 DEF Stage, Arrived
    <3> QED
      BY <2>1, <3>3, StageTrack
  <2>7. CASE v # Absent
    <3>1. Concern(q2, k) = FileSteps(c, k)
      BY <1>3, <1>4, <1>6, <1>8, <2>3, <2>5, <2>7
    <3>2. c.by \in {"get", "force get"}
      BY <1>2 DEF KeysCall
    <3> HIDE DEF c
    <3>3. Fetching(q2, k, c.at, c.to, c.drop)
      BY <3>1, <3>2 DEF Fetching, FileSteps
    <3>4. OnItsWay(M, F, B, A, k, q2, st, h, v)
      BY <2>3, <2>4, <2>7, <3>3 DEF OnItsWay
    <3>5. Stage(M, F, B, A, k, q2, st, h, v)
      BY <3>4 DEF Stage
    <3> QED
      BY <2>1, <3>5, StageTrack
  <2> QED
    BY <2>6, <2>7
<1> QED
  BY <1>7, <1>8

LEMMA FileConcern ==
    ASSUME NEW c, NEW k, IsFetch(c) \/ IsPut(c) \/ IsDrop(c)
    PROVE  Concerns(c, k) <=> c.k = k
<1>1. c.do # "keys" /\ c.do \in {"get", "force get", "put", "drop"}
  BY DEF IsFetch, IsPut, IsDrop
<1> QED
  BY <1>1, Zenon DEF Concerns

\* k is fetched from its owner.
LEMMA TrackFetch ==
    ASSUME NEW M, NEW F, NEW B, NEW A, NEW k \in Name, NEW q \in Seq(Call), q # <<>>, Tidy(q),
           Head(q).do \in {"get", "force get"},
           NEW r, NEW s, NEW st, NEW h, NEW v, OnTrack(M, F, B, A, k, q, r, s, st, h, v),
           NEW h2, Head(q).k = k /\ Own(M, k, Head(q).at) /\ v # Absent /\ st[Head(q).at][k] = v => h2 = v
    PROVE  OnTrack(M, F, B, A, k, Tail(q), r, s, st, h2, v)
<1>1. Concerns(Head(q), k) <=> Head(q).k = k
  <2>1. IsFetch(Head(q)) \/ IsPut(Head(q)) \/ IsDrop(Head(q))
    BY OpKinds, Zenon
  <2> QED
    BY <2>1, FileConcern, Zenon
<1>2. CASE ~Concerns(Head(q), k)
  BY <1>2, TrackOther
<1>3. CASE Concerns(Head(q), k)
  <2>1. ~HeldBy(r, k) /\ Stage(M, F, B, A, k, q, st, h, v) /\ HeadFor(q, k)
    BY <1>3, TrackHead
  <2>2. PICK to, x : FetchNext(M, F, B, A, k, Tail(q), st, v, Head(q).at, to, x)
    BY <2>1, StageFetch
  <2> DEFINE o == Head(q).at
  <2>3. /\ Route(M, F, B, A, k, o, to, x) /\ Placed(st, F, B, k, v) /\ v # Absent
        /\ Writing(Tail(q), k, to, x)
    BY <2>2 DEF FetchNext
  <2>4. Own(M, k, o) /\ o \in B /\ B \subseteq F /\ to \in F /\ x \in F \cup {None}
    BY <2>3 DEF Route
  <2>5. st[o][k] = v
    BY <2>3, <2>4 DEF Placed
  <2>6. h2 = v
    BY <1>1, <1>3, <2>3, <2>4, <2>5
  <2>7. OnItsWay(M, F, B, A, k, Tail(q), st, h2, v)
    BY <2>3, <2>4, <2>6 DEF OnItsWay
  <2>8. Stage(M, F, B, A, k, Tail(q), st, h2, v)
    BY <2>7 DEF Stage
  <2> QED
    BY <2>1, <2>8, StageTrack
<1> QED
  BY <1>2, <1>3

\* k is put down where it belongs.
LEMMA TrackPut ==
    ASSUME NEW M, NEW F \in SUBSET Node, NEW B, NEW A, NEW k \in Name, NEW q \in Seq(Call), q # <<>>, Tidy(q),
           Head(q).do = "put",
           NEW r, NEW s, NEW st, NEW h, NEW v, OnTrack(M, F, B, A, k, q, r, s, st, h, v),
           NEW st2, \A m \in F : st2[m][k] = IF m = Head(q).at /\ k = Head(q).k THEN h ELSE st[m][k],
           NEW h2
    PROVE  OnTrack(M, F, B, A, k, Tail(q), r, s, st2, h2, v)
<1>1. Concerns(Head(q), k) <=> Head(q).k = k
  <2>1. IsFetch(Head(q)) \/ IsPut(Head(q)) \/ IsDrop(Head(q))
    BY OpKinds, Zenon
  <2> QED
    BY <2>1, FileConcern, Zenon
<1>2. CASE ~Concerns(Head(q), k)
  BY <1>1, <1>2, TrackOther
<1>3. CASE Concerns(Head(q), k)
  <2>1. ~HeldBy(r, k) /\ Stage(M, F, B, A, k, q, st, h, v) /\ HeadFor(q, k)
    BY <1>3, TrackHead
  <2> DEFINE to == Head(q).at
  <2>2. PICK o, x : PutNext(M, F, B, A, k, Tail(q), st, h, v, o, to, x)
    BY <2>1, StagePut
  <2>3. /\ Route(M, F, B, A, k, o, to, x) /\ Placed(st, F, B, k, v) /\ h = v
        /\ Concern(Tail(q), k) = DropOf(x, k)
    BY <2>2 DEF PutNext
  <2>4. /\ o \in B /\ B \subseteq F /\ to \in F /\ x \in F \cup {None} /\ to # x
        /\ A = (B \cup {to}) \ {x}
    BY <2>3 DEF Route
  <2>5. \A m \in F : st2[m][k] = IF m = to THEN v ELSE st[m][k]
    BY <1>1, <1>3, <2>3
  <2> HIDE DEF to
  <2>6. \A m \in F \ {x} : st2[m][k] = IF m \in A THEN v ELSE Absent
    BY <2>3, <2>4, <2>5 DEF Placed
  <2>7. CASE x = None
    <3>1. Concern(Tail(q), k) = {}
      BY <2>3, <2>7 DEF DropOf
    <3>2. Placed(st2, F, A, k, v)
      BY <2>6, <2>7 DEF Placed
    <3>3. Stage(M, F, B, A, k, Tail(q), st2, h2, v)
      BY <3>1, <3>2 DEF Stage, Arrived
    <3> QED
      BY <2>1, <3>3, StageTrack
  <2>8. CASE x # None
    <3>1. x \in F \ A /\ Placed(st2, F \ {x}, A, k, v)
      BY <2>4, <2>6, <2>8 DEF Placed
    <3>2. LeftBehind(F, A, k, Tail(q), st2, v)
      BY <2>3, <3>1 DEF LeftBehind
    <3>3. Stage(M, F, B, A, k, Tail(q), st2, h2, v)
      BY <3>2 DEF Stage
    <3> QED
      BY <2>1, <3>3, StageTrack
  <2> QED
    BY <2>7, <2>8
<1> QED
  BY <1>2, <1>3

\* The copy that is not needed any more is deleted.
LEMMA TrackDrop ==
    ASSUME NEW M, NEW F, NEW B, NEW A, NEW k \in Name, NEW q \in Seq(Call), q # <<>>, Tidy(q),
           Head(q).do = "drop",
           NEW r, NEW s, NEW st, NEW h, NEW v, OnTrack(M, F, B, A, k, q, r, s, st, h, v),
           NEW st2, \A m \in F : st2[m][k] = IF m = Head(q).at /\ k = Head(q).k THEN Absent ELSE st[m][k]
    PROVE  OnTrack(M, F, B, A, k, Tail(q), r, s, st2, h, v)
<1>1. Concerns(Head(q), k) <=> Head(q).k = k
  <2>1. IsFetch(Head(q)) \/ IsPut(Head(q)) \/ IsDrop(Head(q))
    BY OpKinds, Zenon
  <2> QED
    BY <2>1, FileConcern, Zenon
<1>2. CASE ~Concerns(Head(q), k)
  BY <1>1, <1>2, TrackOther
<1>3. CASE Concerns(Head(q), k)
  <2>1. ~HeldBy(r, k) /\ Stage(M, F, B, A, k, q, st, h, v) /\ HeadFor(q, k)
    BY <1>3, TrackHead
  <2> DEFINE x == Head(q).at
  <2>2. DropNext(F, A, k, Tail(q), st, v, x)
    BY <2>1, StageDrop
  <2>3. x \in F \ A /\ Placed(st, F \ {x}, A, k, v) /\ Concern(Tail(q), k) = {}
    BY <2>2 DEF DropNext
  <2>4. \A m \in F : st2[m][k] = IF m = x THEN Absent ELSE st[m][k]
    BY <1>1, <1>3
  <2> HIDE DEF x
  <2>5. Placed(st2, F, A, k, v)
    BY <2>3, <2>4 DEF Placed
  <2>6. Stage(M, F, B, A, k, Tail(q), st2, h, v)
    BY <2>3, <2>5 DEF Stage, Arrived
  <2> QED
    BY <2>1, <2>6, StageTrack
<1> QED
  BY <1>2, <1>3

-----------------------------------------------------------------------------
(* Where all files are *)

\* On the ring R, M of which are there, the nodes F have the latest contents l.
AllPlaced(F, R, st, l) == \A k \in Name : Placed(st, F, Hold(R, k), k, l[k])

\* Every file not in L is on its way from the members M of the ring R to the ring T.
AllOnTrack(M, R, T, L, q, r, s, st, h, l) ==
    \A k \in Name \ L : OnTrack(M, T, Hold(R, k) \cap M, Hold(T, k), k, q, r, s, st, h, l[k])

Settled(q) == \A c \in Calls(q) : c.do \notin {"lists", "third"}

\* No client is at work.
Calm == request = None /\ late = {}

\* Nothing is being changed.
Serving ==
    /\ agent = None /\ Exact(Member, Member, succ, pred)
    /\ AllOnTrack(Member, Member, Member, late, todo, request, succ, store, hand, latest)

\* A member has crashed: the copies the others have are those of the old ring.
Bereft ==
    /\ agent = None /\ Calm
    /\ \E d \in Node : /\ Broken(Member, succ, pred, d)
                       /\ AllPlaced(Member, Member \cup {d}, store, latest)

\* A newcomer is about to ask for its lists.
Arriving ==
    /\ agent # None /\ late = {}
    /\ request # None => /\ request.do # "replicate"
                         /\ request.do = "force" => Own(Member, request.k, request.at)
    /\ \E m \in Node : Asking(Member, agent, todo, succ, pred, m)
    /\ AllPlaced(Member \cup {agent}, Member, store, latest)

\* A member has noticed the crash of d.
Noticing ==
    /\ agent # None /\ Calm
    /\ \E d \in Node : /\ Looking(Member, agent, todo, succ, pred, d)
                       /\ AllPlaced(Member, Member \cup {d}, store, latest)

\* The lists of the members, M, are those of M, or of T where the newcomer has been
\* announced, which is done when all files have been moved.
HalfTold(M, T, q, s) ==
    /\ \A m \in M : IsSuccs(M, m, s[m]) \/ IsSuccs(T, m, s[m])
    /\ (\E c \in Calls(q) : Moving(c)) => \A m \in M : IsSuccs(M, m, s[m])

\* The calls q move files to a, and announce it.
ForNewcomer(a, q) ==
    /\ Settled(q) /\ Ordered(q, Early)
    /\ \A c \in Calls(q) : /\ c.do = "keys" => c.to = a
                           /\ c.do = "put" => c.at = a
                           /\ SuccCall(c) => c.do = "insert succesor" /\ c.x = a

\* A newcomer takes over its files and is announced.
TakingOver ==
    /\ agent \in Node \ Member
    /\ HalfTold(Member, Member \cup {agent}, todo, succ)
    /\ ForNewcomer(agent, todo)
    /\ AllOnTrack(Member, Member, Member \cup {agent}, late, todo, request, succ, store, hand, latest)

\* The calls q take only crashed nodes from the lists of the members M.
ForCrash(M, q) ==
    /\ Settled(q)
    /\ \A c \in Calls(q) : c.do = "deprecate succesor" => c.x \notin M

\* A member takes a crashed node d from the lists of others, and copies the files
\* of which d had a copy.
Mending ==
    /\ agent \in Member /\ Calm
    /\ ForCrash(Member, todo)
    /\ FirstOn(Member)
    /\ \E d \in Node \ Member :
          AllOnTrack(Member, Member \cup {d}, Member, late, todo, request, succ, store, hand, latest)

\* Nodes that are down have lost their folders.
Bare == \A n \in Node : status[n] = "down" => store[n] = NoFiles

(***************************************************************************)
(* Placement alone is not inductive: it says nothing while files move.     *)
(* Tidy keeps the calls for one file together and in order: fetched, put   *)
(* down, deleted.                                                          *)
(***************************************************************************)
FileInv ==
    /\ Bare /\ Tidy(todo)
    /\ Serving \/ Bereft \/ Arriving \/ Noticing \/ TakingOver \/ Mending

-----------------------------------------------------------------------------

LEMMA HoldCap ==
    ASSUME NEW R \in SUBSET Node, R # {}, NEW k \in Name
    PROVE  Hold(R, k) \cap R = Hold(R, k)
BY HoldIn

LEMMA SuccsUnique ==
    ASSUME NEW R \in SUBSET Node, NEW n \in R, NEW l, NEW i, IsSuccs(R, n, l), IsSuccs(R, n, i)
    PROVE  l[1] = i[1] /\ l[2] = i[2] /\ l[3] = i[3]
<1>1. R \in SUBSET Int /\ n \in Int
  OBVIOUS
<1>2. l[1] = i[1] /\ l[1] \in R
  BY <1>1, NextUnique DEF IsSuccs, Follow, IsNext
<1>3. l[2] = i[2] /\ l[2] \in R
  BY <1>1, <1>2, NextUnique DEF IsSuccs, Follow, IsNext
<1>4. l[3] = i[3]
  BY <1>1, <1>3, NextUnique DEF IsSuccs, Follow, IsNext
<1> QED
  BY <1>2, <1>3, <1>4

\* The nodes o writes to.
LEMMA HoldersThree ==
    ASSUME NEW o, succ[o][1] = o => succ[o][2] = o
    PROVE  Holders(o) = {o, succ[o][1], succ[o][2]}
<1> DEFINE J == {j \in 1 .. Level : \A h \in 1 .. j : succ[o][h] # o}
<1>1. \A j : j \in J <=> (j = 1 /\ succ[o][1] # o) \/ (j = 2 /\ succ[o][1] # o /\ succ[o][2] # o)
  OBVIOUS
<1> HIDE DEF J
<1>2. Holders(o) = {o} \cup {succ[o][i] : i \in J}
  BY DEF Holders, J
<1>3. \A x : x \in Holders(o) <=> x = o \/ \E i \in J : x = succ[o][i]
  BY <1>2
<1>4. \A x : x \in Holders(o) <=> x = o \/ x = succ[o][1] \/ x = succ[o][2]
  <2>1. ASSUME NEW x \in Holders(o) PROVE x = o \/ x = succ[o][1] \/ x = succ[o][2]
    BY <1>1, <1>3
  <2>2. ASSUME NEW x, x = o \/ x = succ[o][1] \/ x = succ[o][2] PROVE x \in Holders(o)
    <3>1. succ[o][1] # o => 1 \in J
      BY <1>1
    <3>2. succ[o][1] # o /\ succ[o][2] # o => 2 \in J
      BY <1>1
    <3> QED
      BY <1>3, <2>2, <3>1, <3>2
  <2> QED
    BY <2>1, <2>2
<1> QED
  BY <1>4

LEMMA ReachedWhole ==
    ASSUME NEW o \in Member
    PROVE  /\ Reached(o) \subseteq Holders(o) /\ Reached(o) \subseteq Member /\ o \in Reached(o)
           /\ Holders(o) \subseteq Member => Reached(o) = Holders(o)
<1> DEFINE J == {j \in 1 .. Level : \A h \in 1 .. j : succ[o][h] # o}
           K == {j \in 1 .. Level : \A h \in 1 .. j : succ[o][h] # o /\ succ[o][h] \in Member}
<1>1. K \subseteq J /\ \A j \in K : succ[o][j] \in Member
  OBVIOUS
<1>2. ASSUME \A j \in J : succ[o][j] \in Member PROVE J \subseteq K
  <2>1. ASSUME NEW j \in J, NEW h \in 1 .. j PROVE succ[o][h] # o /\ succ[o][h] \in Member
    <3>1. h \in J
      BY <2>1
    <3> QED
      BY <1>2, <3>1
  <2> QED
    BY <2>1
<1> HIDE DEF J, K
<1>3. Holders(o) = {o} \cup {succ[o][i] : i \in J} /\ Reached(o) = {o} \cup {succ[o][i] : i \in K}
  BY DEF Holders, Reached, J, K
<1>4. Reached(o) \subseteq Holders(o) /\ Reached(o) \subseteq Member /\ o \in Reached(o)
  BY <1>1, <1>3, Zenon
<1>5. Holders(o) \subseteq Member => J \subseteq K
  BY <1>2, <1>3
<1>6. Holders(o) \subseteq Member => Reached(o) = Holders(o)
  BY <1>1, <1>3, <1>5
<1> QED
  BY <1>4, <1>6

LEMMA HoldersAre ==
    ASSUME NEW R \in SUBSET Node, NEW k \in Name, NEW o, Own(R, k, o), IsSuccs(R, o, succ[o])
    PROVE  Holders(o) = Hold(R, k) /\ Hold(R, k) = {o, succ[o][1], succ[o][2]}
<1>1. Trio(R, Hash[k], o, succ[o][1], succ[o][2])
  BY DEF IsSuccs, Follow, Trio, Own
<1>2. Hold(R, k) = {o, succ[o][1], succ[o][2]}
  BY <1>1, HoldIs DEF AreHolders
<1>3. succ[o][1] = o => succ[o][2] = o
  BY DEF IsSuccs, Follow
<1> QED
  BY <1>2, <1>3, HoldersThree

LEMMA FileTypes ==
    ASSUME BusyInv
    PROVE  /\ succ \in [Node -> List] /\ pred \in [Node -> List]
           /\ status \in [Node -> {"down", "joining", "member"}] /\ Member \in SUBSET Node
           /\ store \in [Node -> [Name -> Content]] /\ latest \in [Name -> Value \cup {Absent}]
           /\ todo \in Seq(Call) /\ agent \in Node \cup {None}
           /\ late \subseteq Name /\ request \in Request \cup {None}
BY TypeParts DEF BusyInv, RequestInv, TypeInv, ListsOK, Member

LEMMA NothingConcerns == \A k : Concern(<<>>, k) = {} /\ Calls(<<>>) = {}
BY DEF Concern, Calls

LEMMA TidyOne ==
    ASSUME NEW c \in Call, c.do # "put"
    PROVE  Tidy(<<c>>)
<1>1. <<c>> \in Seq(Call) /\ Calls(<<c>>) = {c}
  BY OrderedOne
<1>2. Paired(<<c>>)
  BY <1>1, PairedNone
<1>3. Ordered(<<c>>, Tangles)
  BY OrderedOne
<1> QED
  BY <1>1, <1>2, <1>3 DEF Tidy

\* No call for k is due any more: it has arrived.
LEMMA StageDone ==
    ASSUME NEW M, NEW F \in SUBSET Node, NEW B, NEW A, NEW k, NEW q, NEW st, NEW h, NEW v,
           Stage(M, F, B, A, k, q, st, h, v), Concern(q, k) = {}
    PROVE  Placed(st, F, A, k, v)
<1>1. CASE Arrived(F, A, k, q, st, v)
  BY <1>1 DEF Arrived
<1>2. CASE OnItsWay(M, F, B, A, k, q, st, h, v)
  <2>1. \A o, to, x : ~Waiting(q, k, o, to, x) /\ ~Fetching(q, k, o, to, x) /\ ~Writing(q, k, to, x)
    BY DEF Waiting, Fetching, Writing, Writing1
  <2> QED
    BY <1>2, <2>1 DEF OnItsWay
<1>3. CASE LeftBehind(F, A, k, q, st, v)
  <2>1. PICK x \in F \ A : Concern(q, k) = DropOf(x, k)
    BY <1>3 DEF LeftBehind
  <2>2. x # None
    OBVIOUS
  <2>3. DropAt(x, k) \in DropOf(x, k)
    BY <2>2 DEF DropOf
  <2> QED
    BY <2>1, <2>3
<1> QED
  BY <1>1, <1>2, <1>3 DEF Stage

LEMMA TrackDone ==
    ASSUME NEW M, NEW F \in SUBSET Node, NEW B, NEW A, NEW k, NEW q, NEW r, NEW s, NEW st, NEW h, NEW v,
           OnTrack(M, F, B, A, k, q, r, s, st, h, v), Concern(q, k) = {}, ~HeldBy(r, k)
    PROVE  Placed(st, F, A, k, v)
BY StageDone DEF OnTrack

\* k is where it belongs: it has been written.
LEMMA TrackPlaced ==
    ASSUME NEW M, NEW F, NEW B, NEW A, NEW k, NEW q, NEW r, NEW s, NEW st, NEW h, NEW v,
           Placed(st, F, A, k, v), Concern(q, k) = {}, ~HeldBy(r, k)
    PROVE  OnTrack(M, F, B, A, k, q, r, s, st, h, v)
BY DEF OnTrack, Stage, Arrived

\* A request that has nothing to do with k comes or goes, and lists change.
LEMMA TrackRequest ==
    ASSUME NEW M, NEW F, NEW B, NEW A, NEW k, NEW q, NEW r, NEW s, NEW st, NEW h, NEW v,
           OnTrack(M, F, B, A, k, q, r, s, st, h, v), ~HeldBy(r, k), NEW r2, ~HeldBy(r2, k), NEW s2
    PROVE  OnTrack(M, F, B, A, k, q, r2, s2, st, h, v)
BY DEF OnTrack

\* In a quiet ring all files are where they belong.
LEMMA QuietServing ==
    ASSUME BusyInv, ListInv, FileInv, Quiet
    PROVE  Serving /\ todo = <<>>
<1>1. agent = None /\ todo = <<>> /\ Exact(Member, Member, succ, pred)
  BY QuietExact DEF Quiet, BusyInv, ListInv, OneAgent
<1>2. Member \subseteq Node
  BY FileTypes
<1>3. ~Bereft
  <2>1. SUFFICES ASSUME NEW d \in Node, Broken(Member, succ, pred, d) PROVE FALSE
    BY DEF Bereft
  <2>2. PICK n \in Member : succ[n][1] = d /\ d \notin Member
    BY <2>1 DEF Broken
  <2>3. succ[n][1] \in Member
    BY <1>1, <2>2 DEF Exact, IsSuccs, Follow, IsNext
  <2> QED
    BY <2>2, <2>3
<1>4. ~Arriving /\ ~Noticing /\ ~TakingOver /\ ~Mending
  BY <1>1, <1>2 DEF Arriving, Noticing, TakingOver, Mending
<1> QED
  BY <1>1, <1>3, <1>4 DEF FileInv

\* Of the files of a ring that serves.
ServedFiles == \A k \in Name \ late : ~HeldUp(k) => Placed(store, Member, Hold(Member, k), k, latest[k])

LEMMA ServingPlaced ==
    ASSUME BusyInv, Serving, todo = <<>>
    PROVE  ServedFiles
<1>1. SUFFICES ASSUME NEW k \in Name \ late, ~HeldUp(k)
               PROVE  Placed(store, Member, Hold(Member, k), k, latest[k])
  BY DEF ServedFiles
<1>2. OnTrack(Member, Member, Hold(Member, k) \cap Member, Hold(Member, k), k, todo, request, succ, store,
              hand, latest[k])
  BY <1>1 DEF Serving, AllOnTrack
<1>3. Concern(todo, k) = {} /\ ~HeldBy(request, k) /\ Member \in SUBSET Node
  BY <1>1, NothingConcerns, FileTypes DEF HeldUp, HeldBy
<1> QED
  BY <1>2, <1>3, TrackDone

LEMMA FileWrite ==
    ASSUME BusyInv, ListInv, FileInv, NEW e \in Node, NEW i \in Name, NEW v \in Value \cup {Absent},
           Idle, Write(e, i, v)
    PROVE  FileInv'
<1>1. Quiet /\ request = None /\ late = {} /\ request' = request /\ late' = late
  BY DEF Idle, Write
<1>2. Serving /\ todo = <<>>
  BY <1>1, QuietServing
<1>3. UNCHANGED <<status, succ, pred, agent, todo, hand>> /\ Member' = Member
  BY DEF Write, Member
<1>4. Member \in SUBSET Node /\ store \in [Node -> [Name -> Content]] /\ latest \in [Name -> Value \cup {Absent}]
      /\ succ \in [Node -> List] /\ Member \in SUBSET Int
  BY FileTypes
<1> DEFINE p == PredecessorOf(e, Hash[i])
           o == SuccessorOf(e, Hash[i])
<1>5. p \in Member /\ IAmPredecessorOfKey(p, o, Hash[i]) /\ o = succ[p][1]
  BY DEF Write, Answered, SuccessorOf
<1>6. Exact(Member, Member, succ, pred)
  BY <1>2 DEF Serving
<1>7. store' = [n \in Node |-> IF n \in Holders(o) THEN [store[n] EXCEPT ![i] = v] ELSE store[n]]
      /\ latest' = [latest EXCEPT ![i] = v]
  BY DEF Write
<1>8. Hash[i] \in Int
  BY KeyDistances
<1> HIDE DEF p, o
<1>9. IsNext(Member, p, o)
  BY <1>5, <1>6 DEF Exact, IsSuccs, Follow
<1>10. o \in Member
  BY <1>9 DEF IsNext
<1>11. Own(Member, i, o)
  BY <1>4, <1>5, <1>8, <1>9, <1>10, PredecessorOwner DEF Own
<1>12. Holders(o) = Hold(Member, i)
  BY <1>4, <1>6, <1>10, <1>11, HoldersAre DEF Exact
<1>13. ASSUME NEW k \in Name
       PROVE  OnTrack(Member, Member, Hold(Member, k) \cap Member, Hold(Member, k), k, todo, request, succ,
                      store', hand, latest'[k])
  <2>1. Placed(store, Member, Hold(Member, k), k, latest[k])
    BY <1>1, <1>2, ServingPlaced DEF ServedFiles, HeldUp
  <2>2. Placed(store', Member, Hold(Member, k), k, latest'[k])
    <3>1. CASE k = i
      <4>1. latest'[k] = v
        BY <1>4, <1>7, <3>1
      <4>2. \A n \in Member : store'[n][k] = IF n \in Hold(Member, k) THEN v ELSE store[n][k]
        BY <1>4, <1>7, <1>12, <3>1
      <4> QED
        BY <2>1, <4>1, <4>2 DEF Placed
    <3>2. CASE k # i
      <4>1. latest'[k] = latest[k]
        BY <1>4, <1>7, <3>2
      <4>2. \A n \in Member : store'[n][k] = store[n][k]
        BY <1>4, <1>7, <3>2
      <4> QED
        BY <2>1, <4>1, <4>2 DEF Placed
    <3> QED
      BY <3>1, <3>2
  <2>3. Concern(todo, k) = {} /\ ~HeldBy(request, k)
    BY <1>1, <1>2, NothingConcerns DEF HeldBy
  <2> QED
    BY <2>2, <2>3, TrackPlaced
<1>14. Serving'
  BY <1>1, <1>2, <1>3, <1>13 DEF Serving, AllOnTrack
<1>15. Bare'
  <2>1. ASSUME NEW n \in Node, status'[n] = "down" PROVE store'[n] = NoFiles
    <3>1. store[n] = NoFiles /\ n \notin Member
      BY <1>3, <2>1 DEF FileInv, Bare, Member
    <3>2. n \notin Holders(o)
      <4>1. Member # {}
        BY <1>10
      <4>2. Hold(Member, i) \subseteq Member
        BY <1>4, <4>1, HoldIn
      <4> QED
        BY <1>12, <3>1, <4>2
    <3> QED
      BY <1>7, <3>1, <3>2
  <2> QED
    BY <2>1 DEF Bare, NoFiles
<1>16. Tidy(todo)'
  BY <1>3 DEF FileInv, Tidy, Ordered, Tangles, Paired, Call
<1> QED
  BY <1>14, <1>15, <1>16 DEF FileInv

LEMMA FileCrash ==
    ASSUME QuietEnough, BusyInv, ListInv, FileInv, NEW n \in Node, Idle, Crash(n)
    PROVE  FileInv'
<1>1. agent = None /\ Gone = {} /\ request = None /\ late = {} /\ request' = request /\ late' = late
  BY QuietStarts DEF Idle, Crash, QuietEnough
<1>2. Serving /\ todo = <<>>
  BY <1>1, QuietServing DEF Quiet
<1>3. /\ UNCHANGED <<agent, todo, latest>> /\ n \in Member
      /\ Member' = Member \ {n} /\ Broken(Member', succ', pred', n)
  BY CrashBreaks DEF QuietEnough, BusyInv, Crash
<1>4. Member \in SUBSET Node /\ store \in [Node -> [Name -> Content]]
      /\ status \in [Node -> {"down", "joining", "member"}]
  BY FileTypes
<1>5. store' = [store EXCEPT ![n] = NoFiles] /\ status' = [status EXCEPT ![n] = "down"]
  BY DEF Crash
<1>6. Member' \cup {n} = Member
  BY <1>3
<1>7. AllPlaced(Member', Member' \cup {n}, store', latest')
  <2>1. ASSUME NEW k \in Name PROVE Placed(store', Member', Hold(Member, k), k, latest[k])
    <3>1. Placed(store, Member, Hold(Member, k), k, latest[k])
      BY <1>1, <1>2, ServingPlaced DEF ServedFiles, HeldUp
    <3>2. \A m \in Member' : m \in Member /\ store'[m] = store[m]
      BY <1>3, <1>4, <1>5
    <3> QED
      BY <3>1, <3>2 DEF Placed
  <2> QED
    BY <1>3, <1>6, <2>1 DEF AllPlaced
<1>8. Bereft'
  BY <1>1, <1>3, <1>7 DEF Bereft, Calm
<1>9. Bare'
  <2>1. ASSUME NEW m \in Node, status'[m] = "down" PROVE store'[m] = NoFiles
    BY <1>4, <1>5, <2>1 DEF FileInv, Bare
  <2> QED
    BY <2>1 DEF Bare, NoFiles
<1>10. Tidy(todo)'
  BY <1>3 DEF FileInv, Tidy, Ordered, Tangles, Paired, Call
<1> QED
  BY <1>8, <1>9, <1>10 DEF FileInv

LEMMA FileStartJoin ==
    ASSUME QuietEnough, BusyInv, ListInv, FileInv, NEW n \in Node, NEW e \in Node, Idle, StartJoin(n, e)
    PROVE  FileInv'
<1>1. agent = None /\ Gone = {} /\ request = None /\ late = {} /\ request' = request /\ late' = late
      /\ status[n] = "down"
  BY DEF Idle, StartJoin, QuietEnough
<1>2. Serving /\ todo = <<>>
  BY <1>1, QuietServing DEF Quiet
<1>3. Member' = Member /\ n \notin Member
  BY StartJoinAsks DEF QuietEnough, BusyInv
<1>4. PICK m \in Member : /\ Asking(Member, n, <<[do |-> "lists", at |-> m]>>, succ, pred, m)
                          /\ todo' = <<[do |-> "lists", at |-> m]>>
  BY StartJoinAsks DEF QuietEnough, BusyInv
<1>5. /\ UNCHANGED <<succ, pred, store, latest>> /\ agent' = n
      /\ status' = [status EXCEPT ![n] = "joining"]
  BY DEF StartJoin
<1>6. Member \in SUBSET Node /\ store \in [Node -> [Name -> Content]]
      /\ status \in [Node -> {"down", "joining", "member"}]
  BY FileTypes
<1>7. AllPlaced(Member \cup {n}, Member, store, latest)
  <2>1. ASSUME NEW k \in Name PROVE Placed(store, Member \cup {n}, Hold(Member, k), k, latest[k])
    <3>1. Placed(store, Member, Hold(Member, k), k, latest[k])
      BY <1>1, <1>2, ServingPlaced DEF ServedFiles, HeldUp
    <3>2. store[n] = NoFiles
      BY <1>1 DEF FileInv, Bare
    <3>3. Member # {}
      BY <1>4
    <3>4. Hold(Member, k) \subseteq Member
      BY <1>6, <3>3, HoldIn
    <3>5. store[n][k] = Absent /\ n \notin Hold(Member, k)
      BY <1>3, <3>2, <3>4 DEF NoFiles
    <3> QED
      BY <3>1, <3>5 DEF Placed
  <2> QED
    BY <2>1 DEF AllPlaced
<1>8. m \in Node /\ n # None
  BY <1>6
<1>9. Arriving'
  BY <1>1, <1>3, <1>4, <1>5, <1>7, <1>8 DEF Arriving
<1>10. Bare'
  <2>1. ASSUME NEW i \in Node, status'[i] = "down" PROVE store'[i] = NoFiles
    BY <1>5, <1>6, <2>1 DEF FileInv, Bare
  <2> QED
    BY <2>1 DEF Bare, NoFiles
<1>11. Tidy(todo)'
  <2> DEFINE c == [do |-> "lists", at |-> m]
  <2>1. c \in Call /\ c.do # "put"
    BY <1>8 DEF Call
  <2>2. todo' = <<c>>
    BY <1>4
  <2> HIDE DEF c
  <2>3. Tidy(<<c>>)
    BY <2>1, TidyOne
  <2> QED
    BY <2>2, <2>3
<1> QED
  BY <1>9, <1>10, <1>11 DEF FileInv

\* Only requests come and go.
LEMMA FileRequest ==
    ASSUME BusyInv, ListInv, FileInv, UNCHANGED <<vars, late>>,
           request # None => request.do # "replicate",
           request' # None /\ request'.do # "replicate",
           Serving \/ Arriving \/ TakingOver,
           Arriving /\ request'.do = "force" => Own(Member, request'.k, request'.at)
    PROVE  FileInv'
<1>1. UNCHANGED <<status, succ, pred, store, agent, todo, hand, latest, late>> /\ Member' = Member
  BY DEF vars, Member
<1>2. \A k : ~HeldBy(request, k) /\ ~HeldBy(request', k)
  BY DEF HeldBy
<1>3. ASSUME NEW R, NEW T, AllOnTrack(Member, R, T, late, todo, request, succ, store, hand, latest)
      PROVE  AllOnTrack(Member, R, T, late, todo, request', succ, store, hand, latest)
  <2>1. ASSUME NEW k \in Name \ late
        PROVE  OnTrack(Member, T, Hold(R, k) \cap Member, Hold(T, k), k, todo, request', succ, store, hand, latest[k])
    <3>1. OnTrack(Member, T, Hold(R, k) \cap Member, Hold(T, k), k, todo, request, succ, store, hand, latest[k])
      BY <1>3 DEF AllOnTrack
    <3> QED
      BY <1>2, <3>1, TrackRequest
  <2> QED
    BY <2>1 DEF AllOnTrack
<1>4. CASE Serving
  <2>1. Serving'
    BY <1>1, <1>3, <1>4 DEF Serving
  <2> QED
    BY <1>1, <2>1 DEF FileInv, Bare, NoFiles, Tidy, Ordered, Tangles, Paired, Call
<1>5. CASE TakingOver
  <2>1. TakingOver'
    BY <1>1, <1>3, <1>5 DEF TakingOver
  <2> QED
    BY <1>1, <2>1 DEF FileInv, Bare, NoFiles, Tidy, Ordered, Tangles, Paired, Call
<1>6. CASE Arriving
  <2>1. Arriving'
    BY <1>1, <1>6 DEF Arriving
  <2> QED
    BY <1>1, <2>1 DEF FileInv, Bare, NoFiles, Tidy, Ordered, Tangles, Paired, Call
<1> QED
  BY <1>4, <1>5, <1>6

LEMMA ExactFirst ==
    ASSUME NEW S, S = Member, Exact(S, S, succ, pred)
    PROVE  FirstOn(S)
BY DEF FirstOn, Exact, IsSuccs, Follow

LEMMA FileFindAt ==
    ASSUME BusyInv, ListInv, FileInv, NEW m \in Member, NEW k \in Name,
           NEW v \in Value \cup {Absent}, FindAt(m, k, v),
           UNCHANGED <<vars, late>>, request # None => request.do # "replicate",
           Serving \/ Arriving \/ TakingOver
    PROVE  FileInv'
<1>1. /\ request' # None /\ request'.do # "replicate"
      /\ request'.do = "force" => request'.k = k /\ request'.at = SuccessorOf(m, Hash[k])
                                  /\ PredecessorOf(m, Hash[k]) \in Member
  <2>1. PredecessorOf(m, Hash[k]) \in Node /\ SuccessorOf(m, Hash[k]) \in Node
    BY FileTypes, LookupTypes
  <2> DEFINE a1 == [do |-> "force", at |-> SuccessorOf(m, Hash[k]), k |-> k, v |-> v]
             a2 == [do |-> "find", at |-> PredecessorOf(m, Hash[k]), k |-> k, v |-> v]
  <2>2. (request' = a1 /\ PredecessorOf(m, Hash[k]) \in Member) \/ request' = a2
    BY DEF FindAt
  <2>3. request' # None
    <3>1. m \in Node
      BY DEF Member
    <3> QED
      BY <3>1, FindAtTypes, RequestAssumption
  <2> QED
    BY <2>2, <2>3
<1>2. ASSUME Arriving, request'.do = "force" PROVE Own(Member, request'.k, request'.at)
  <2>1. FirstOn(Member)
    BY <1>2, ExactFirst DEF Arriving, Asking
  <2>2. Ends(Member, k, PredecessorOf(m, Hash[k]))
    BY <2>1, FileTypes, LookupEnds
  <2> QED
    BY <1>1, <1>2, <2>2 DEF Ends, SuccessorOf
<1> QED
  BY <1>1, <1>2, FileRequest

LEMMA FileAsk ==
    ASSUME BusyInv, ListInv, FileInv, NEW e \in Node, NEW w \in Wanted, Ask(e, w[1], w[2])
    PROVE  FileInv'
<1>1. /\ agent # None /\ status[agent] = "joining" /\ request = None /\ e \in Member
      /\ FindAt(e, w[1], w[2]) /\ UNCHANGED <<vars, late>>
  BY DEF Ask, Joining
<1>2. w[1] \in Name /\ w[2] \in Value \cup {Absent}
  BY LoadAssumption
<1>3. agent \notin Member
  BY <1>1 DEF Member
<1>4. Arriving \/ TakingOver
  BY <1>1, <1>3 DEF FileInv, Serving, Bereft, Noticing, Looking, Mending
<1> QED
  BY <1>1, <1>2, <1>4, FileFindAt

LEMMA FileFindGoesOn ==
    ASSUME BusyInv, ListInv, FileInv, FindGoesOn
    PROVE  FileInv'
<1>1. /\ request # None /\ request.do = "find" /\ request.at \in Member
      /\ FindAt(request.at, request.k, request.v) /\ UNCHANGED <<vars, late>>
  BY DEF FindGoesOn
<1>2. request.k \in Name /\ request.v \in Value \cup {Absent}
  BY <1>1, RequestTypes DEF BusyInv
<1>3. Serving \/ Arriving \/ TakingOver
  BY <1>1 DEF FileInv, Bereft, Noticing, Mending, Calm
<1>4. request.do # "replicate"
  BY <1>1
<1> QED
  BY <1>1, <1>2, <1>3, <1>4, FileFindAt

LEMMA FileStays ==
    ASSUME BusyInv, ListInv, FileInv, UNCHANGED busyVars
    PROVE  FileInv'
<1>1. UNCHANGED <<status, succ, pred, store, agent, todo, hand, latest, late, request>> /\ Member' = Member
  BY DEF busyVars, vars, Member
<1>2. Bare' /\ Tidy(todo)'
  BY <1>1 DEF FileInv, Bare, NoFiles, Tidy, Ordered, Tangles, Paired, Call
<1>3. Serving => Serving'
  BY <1>1 DEF Serving
<1>4. Bereft => Bereft'
  BY <1>1 DEF Bereft, Calm
<1>5. Arriving => Arriving'
  BY <1>1 DEF Arriving
<1>6. Noticing => Noticing'
  BY <1>1 DEF Noticing, Calm
<1>7. TakingOver => TakingOver'
  BY <1>1 DEF TakingOver
<1>8. Mending => Mending'
  BY <1>1 DEF Mending, Calm, FirstOn
<1> QED
  BY <1>2, <1>3, <1>4, <1>5, <1>6, <1>7, <1>8 DEF FileInv

LEMMA FileDetect ==
    ASSUME BusyInv, ListInv, FileInv, NEW n \in Node, DetectDown(n), UNCHANGED <<request, blocked, late>>
    PROVE  FileInv'
<1> DEFINE x == succ[n][1]
<1>1. /\ n \in Member /\ x \in Node \ Member /\ Member' = Member
      /\ Looking(Member, n, todo', succ', pred', x)
  BY DetectDownLooks DEF BusyInv
<1>2. /\ agent = None /\ agent' = n /\ UNCHANGED <<status, store, latest>>
      /\ todo' = <<[do |-> "third", at |-> succ'[n][2], x |-> x]>>
  BY DEF DetectDown
<1>3. Member \in SUBSET Node
  BY FileTypes
<1>4. ~Serving
  BY <1>1 DEF Serving, Exact, IsSuccs, Follow, IsNext
<1>5. Bereft
  BY <1>2, <1>3, <1>4 DEF FileInv, Arriving, Noticing, TakingOver, Mending
<1>6. PICK d \in Node : /\ Broken(Member, succ, pred, d)
                        /\ AllPlaced(Member, Member \cup {d}, store, latest)
  BY <1>5 DEF Bereft
<1>7. x = d
  BY <1>1, <1>6 DEF Broken, Exact, IsSuccs, Follow, IsNext
<1>8. Noticing'
  <2>1. AllPlaced(Member, Member \cup {x}, store, latest)
    BY <1>6, <1>7
  <2> HIDE DEF x
  <2> QED
    BY <1>1, <1>2, <1>5, <2>1 DEF Noticing, Bereft, Calm
<1>9. Tidy(todo)'
  <2> DEFINE c == [do |-> "third", at |-> succ'[n][2], x |-> x]
  <2>1. BusyInv'
    <3>1. Detect
      BY DEF Detect
    <3> QED
      BY <3>1, BusyStep DEF BusyNext
  <2>2. todo' \in Seq(Call)
    BY <2>1, TypeParts DEF BusyInv, TypeInv, TypeOK
  <2>3. todo' = <<c>> /\ c.do = "third"
    BY <1>2
  <2> HIDE DEF c
  <2>4. Ordered(<<c>>, Tangles) /\ Calls(<<c>>) = {c}
    BY OrderedOne
  <2>5. Paired(<<c>>)
    BY <2>3, <2>4, PairedNone
  <2>6. Tidy(<<c>>)
    BY <2>2, <2>3, <2>4, <2>5 DEF Tidy
  <2> QED
    BY <2>3, <2>6
<1>10. Bare'
  BY <1>2 DEF FileInv, Bare, NoFiles
<1> QED
  BY <1>8, <1>9, <1>10 DEF FileInv

\* The next call tells what the agent is about.
LEMMA AgentCases ==
    ASSUME BusyInv, FileInv, NEW n \in Node, agent = n
    PROVE  /\ todo = <<>> => TakingOver \/ Mending
           /\ todo # <<>> /\ Head(todo).do = "lists" => Arriving
           /\ todo # <<>> /\ Head(todo).do = "third" => Noticing
           /\ todo # <<>> /\ Head(todo).do \notin {"lists", "third"} => TakingOver \/ Mending
<1>1. ~Serving /\ ~Bereft /\ todo \in Seq(Call)
  BY FileTypes DEF Serving, Bereft
<1>2. Arriving => todo # <<>> /\ Head(todo).do = "lists"
  <2>1. SUFFICES ASSUME NEW m, Asking(Member, n, todo, succ, pred, m)
                 PROVE  todo # <<>> /\ Head(todo).do = "lists"
    BY DEF Arriving
  <2> QED
    BY <2>1 DEF Asking
<1>3. Noticing => todo # <<>> /\ Head(todo).do = "third"
  <2>1. SUFFICES ASSUME NEW d, Looking(Member, n, todo, succ, pred, d)
                 PROVE  todo # <<>> /\ Head(todo).do = "third"
    BY DEF Noticing
  <2> QED
    BY <2>1 DEF Looking
<1>4. (TakingOver \/ Mending) /\ todo # <<>> => Head(todo).do \notin {"lists", "third"}
  <2>1. todo # <<>> => Head(todo) \in Calls(todo)
    BY <1>1, HeadIn
  <2>2. TakingOver \/ Mending => Settled(todo)
    BY DEF TakingOver, Mending, ForNewcomer, ForCrash
  <2> QED
    BY <2>1, <2>2 DEF Settled
<1> QED
  BY <1>1, <1>2, <1>3, <1>4 DEF FileInv

\* The newcomer n knows its lists, and the calls for its files and its announcement.
LEMMA NewcomerPlans ==
    ASSUME NEW M \in SUBSET Node, NEW n, NEW m, NEW q0, NEW s \in [Node -> List], NEW p \in [Node -> List],
           Asking(M, n, q0, s, p, m),
           NEW t, t = JoinSuccessors(n, m, s[m]), NEW r, r = JoinPredecessors(n, m, p[m]),
           Settled(JoinCalls(n, t, r))
    PROVE  /\ JoinMovesFiles(M, n, JoinCalls(n, t, r))
           /\ ForNewcomer(n, JoinCalls(n, t, r))
<1>1. n \in Node \ M /\ m \in M /\ IsNext(M \cup {n}, m, n) /\ Exact(M, M, s, p)
  BY DEF Asking
<1>2. M \in SUBSET Int /\ n \in Int /\ s[m] \in List /\ p[m] \in List /\ m \in Node
  BY <1>1
<1>3. t \in List /\ r \in List
  BY <1>1, <1>2, JoinListTypes
<1>4. IsSuccs(M \cup {n}, n, t)
  <2>1. Follow(M, m, s[m][1], s[m][2], s[m][3])
    BY <1>1 DEF Exact, IsSuccs
  <2>2. PICK x, y, z \in Node : s[m][1] = x /\ s[m][2] = y /\ s[m][3] = z
    BY <1>2, ListIs
  <2>3. Follow(M, m, x, y, z) /\ t = Three(x, IF x = m THEN n ELSE y, IF x = m \/ y = m THEN n ELSE z)
    BY <1>1, <1>2, <2>1, <2>2, JoinLists
  <2>4. Follow(M \cup {n}, n, x, IF x = m THEN n ELSE y, IF x = m \/ y = m THEN n ELSE z)
    BY <1>1, <1>2, <2>3, NewFollows
  <2> QED
    BY <2>3, <2>4, ThreeFollow
<1>5. IsPreds(M \cup {n}, n, r)
  <2>1. Precede(M, m, p[m][1], p[m][2], p[m][3])
    BY <1>1 DEF Exact, IsPreds
  <2>2. PICK x, y, z \in Node : p[m][1] = x /\ p[m][2] = y /\ p[m][3] = z
    BY <1>2, ListIs
  <2>3. Precede(M, m, x, y, z) /\ r = Three(m, IF x = m THEN n ELSE x, IF x = m \/ y = m THEN n ELSE y)
    BY <1>1, <1>2, <2>1, <2>2, JoinLists
  <2>4. Precede(M \cup {n}, n, m, IF x = m THEN n ELSE x, IF x = m \/ y = m THEN n ELSE y)
    BY <1>1, <1>2, <2>3, NewPrecedes
  <2> QED
    BY <2>3, <2>4, ThreeFollow
<1> DEFINE q == JoinCalls(n, t, r)
<1>6. JoinMovesFiles(M, n, q)
  BY <1>1, <1>3, <1>4, <1>5, JoinFiles
<1>7. Distinct(t, n) /\ Distinct(r, n)
  <2>1. M \cup {n} \in SUBSET Int /\ n \in M \cup {n}
    BY <1>2
  <2> QED
    BY <1>4, <1>5, <2>1, ListDistinct
<1>8. \A c \in Calls(q) : c.do = "keys" \/ (\E i \in 1 .. 3 : c = SuccIn(r[i], n)) \/ \E i \in 1 .. 3 : c = PredIn(t[i], n)
  BY <1>1, <1>3, <1>7, JoinPlan
<1> HIDE DEF q
<1>9. \A c \in Calls(q) : SuccCall(c) => c.do = "insert succesor" /\ c.x = n
  <2>1. SUFFICES ASSUME NEW c \in Calls(q), SuccCall(c) PROVE c.do = "insert succesor" /\ c.x = n
    OBVIOUS
  <2>2. c.do # "keys" /\ \A i : c # PredIn(t[i], n)
    <3>1. c.do # "keys" /\ c.do # "insert predecessor"
      BY <2>1 DEF SuccCall
    <3>2. \A x : PredIn(x, n).do = "insert predecessor"
      BY DEF PredIn
    <3> QED
      BY <3>1, <3>2, Zenon
  <2>3. PICK i \in 1 .. 3 : c = SuccIn(r[i], n)
    BY <1>8, <2>2
  <2> QED
    BY <2>3 DEF SuccIn
<1>10. \A c \in Calls(q) : (c.do = "keys" => c.to = n) /\ c.do # "put"
  <2>1. SUFFICES ASSUME NEW c \in Calls(q), c.do \in {"keys", "put"} PROVE c.do = "keys" /\ c.to = n
    OBVIOUS
  <2>2. Moving(c)
    BY <2>1 DEF Moving
  <2> QED
    BY <1>6, <2>2 DEF JoinMovesFiles
<1> QED
  BY <1>6, <1>9, <1>10 DEF ForNewcomer, JoinMovesFiles, q

LEMMA FileTakeLists ==
    ASSUME BusyInv, ListInv, FileInv, NEW n \in Node, TakeLists(n), UNCHANGED <<request, late>>
    PROVE  FileInv'
<1> DEFINE m == Head(todo).at
<1>1. Asking(Member, n, todo, succ, pred, m) /\ Settling(Member \cup {n}, todo', succ', pred')
  BY TakeListsAsks DEF BusyInv
<1>2. agent = n /\ todo # <<>> /\ Head(todo).do = "lists"
  BY DEF TakeLists, Calling
<1>3. Arriving
  BY <1>2, AgentCases
<1>4. /\ succ' = [succ EXCEPT ![n] = JoinSuccessors(n, m, succ[m])]
      /\ pred' = [pred EXCEPT ![n] = JoinPredecessors(n, m, pred[m])]
      /\ todo' = JoinCalls(n, succ'[n], pred'[n])
      /\ UNCHANGED <<status, store, agent, hand, latest>> /\ Member' = Member
  BY DEF TakeLists, Member
<1> HIDE DEF m
<1>5. /\ succ \in [Node -> List] /\ pred \in [Node -> List] /\ Member \in SUBSET Node
      /\ late = {} /\ n \in Node \ Member /\ m \in Member
      /\ Exact(Member, Member, succ, pred)
  BY <1>1, <1>3, FileTypes DEF Arriving, Asking
<1>6. Settled(todo')
  BY <1>1 DEF Settling, Settled
<1> DEFINE t == JoinSuccessors(n, m, succ[m])
           r == JoinPredecessors(n, m, pred[m])
<1>7. todo' = JoinCalls(n, t, r)
  BY <1>4, <1>5
<1> HIDE DEF t, r
<1>8. JoinMovesFiles(Member, n, todo') /\ ForNewcomer(n, todo')
  BY <1>1, <1>5, <1>6, <1>7, NewcomerPlans DEF t, r
<1>9. AllOnTrack(Member, Member, Member \cup {n}, {}, todo', request, succ', store, hand, latest)
  <2>1. SUFFICES ASSUME NEW k \in Name
                 PROVE  OnTrack(Member, Member \cup {n}, Hold(Member, k) \cap Member, Hold(Member \cup {n}, k), k,
                                todo', request, succ', store, hand, latest[k])
    BY DEF AllOnTrack
  <2>2. Moves(Member, Member \cup {n}, Hold(Member, k), Hold(Member \cup {n}, k), k, todo')
    BY <1>8 DEF JoinMovesFiles
  <2>3. Placed(store, Member \cup {n}, Hold(Member, k), k, latest[k])
    BY <1>2, <1>3 DEF Arriving, AllPlaced
  <2>4. Stage(Member, Member \cup {n}, Hold(Member, k), Hold(Member \cup {n}, k), k, todo', store, hand, latest[k])
    BY <2>2, <2>3, MovesStage
  <2>5. ~HeldBy(request, k)
    BY <1>3 DEF Arriving, HeldBy
  <2>6. Member # {}
    BY <1>5
  <2>7. Hold(Member, k) \cap Member = Hold(Member, k)
    BY <1>5, <2>6, HoldCap
  <2> QED
    BY <2>4, <2>5, <2>7, StageTrack
<1>10. HalfTold(Member, Member \cup {n}, todo', succ')
  <2>1. \A i \in Member : succ'[i] = succ[i] /\ IsSuccs(Member, i, succ[i])
    BY <1>4, <1>5 DEF Exact
  <2> QED
    BY <2>1 DEF HalfTold
<1>11. TakingOver'
  BY <1>2, <1>4, <1>5, <1>8, <1>9, <1>10 DEF TakingOver
<1>12. Bare' /\ Tidy(todo)'
  BY <1>4, <1>8 DEF FileInv, Bare, NoFiles, JoinMovesFiles, Tidy, Ordered, Tangles, Paired, Call
<1> QED
  BY <1>11, <1>12 DEF FileInv

\* What the repair of the crash of d will do, with the calls q and the successors t.
RepairPlanned(M, d, q, t) ==
    /\ RepairMovesFiles(M, d, q) /\ ForCrash(M, q)
    /\ \A m \in M : IsNext(M, m, t[m][1])

LEMMA RepairPlans ==
    ASSUME NEW M \in SUBSET Node, NEW n, NEW d, NEW q0, NEW s \in [Node -> List], NEW p \in [Node -> List],
           NEW t, SuccsMended(M, n, q0, s, p, d, t), NEW r, r = ReplaceFirst(p[n], d, n)
    PROVE  RepairPlanned(M, d, RepairCalls(n, t[n], r, d), t)
<1>1. /\ n \in M /\ d \in Node \ M /\ NotTwo(M) /\ IsNext(M \cup {d}, n, d)
      /\ IsPreds(M \cup {d}, n, p[n])
      /\ \A m \in M \ {n} : IsSuccs(M \cup {d}, m, s[m]) /\ t[m] = s[m]
      /\ t \in [Node -> List] /\ IsSuccs(M, n, t[n])
  BY DEF SuccsMended, Looking
<1>2. M \in SUBSET Int /\ d \in Int /\ n \in Node /\ p[n] \in List /\ t[n] \in List /\ M \cup {d} \in SUBSET Int
  BY <1>1
<1>3. r \in List /\ IsPreds(M, n, r)
  <2>1. PICK x, y, z \in Node : p[n][1] = x /\ p[n][2] = y /\ p[n][3] = z
    BY <1>2, ListIs
  <2>2. Precede(M \cup {d}, n, x, y, z)
    BY <1>1, <2>1 DEF IsPreds
  <2>3. r = IF x = d THEN Three(n, y, z)
            ELSE IF y = d THEN Three(x, n, z)
            ELSE IF z = d THEN Three(x, y, n) ELSE Three(x, y, z)
    BY <1>1, <1>2, <2>1, ReplaceFirstThree, ThreeSame
  <2>4. IF x = d THEN Precede(M, n, n, y, z)
        ELSE IF y = d THEN Precede(M, n, x, n, z)
        ELSE IF z = d THEN Precede(M, n, x, y, n) ELSE Precede(M, n, x, y, z)
    BY <1>1, <1>2, <2>2, MendOwn
  <2>5. r \in List
    <3>1. /\ Three(n, y, z) \in List /\ Three(x, n, z) \in List
          /\ Three(x, y, n) \in List /\ Three(x, y, z) \in List
      BY <1>2, ThreeList
    <3> QED
      BY <2>3, <3>1
  <2>6. IsPreds(M, n, r)
    BY <2>3, <2>4, ThreeFollow
  <2> QED
    BY <2>5, <2>6
<1> DEFINE l == t[n]
           q == RepairCalls(n, l, r, d)
<1>4. RepairMovesFiles(M, d, q)
  <2> HIDE DEF l
  <2>1. l \in List /\ IsSuccs(M, n, l)
    BY <1>1, <1>2 DEF l
  <2> QED
    BY <1>1, <1>3, <2>1, RepairFiles
<1>5. RepairCallsOnly(q, n, d, l[1], l[2], l[3], r[1], r[2])
  <2> HIDE DEF l
  <2>1. l \in List /\ IsSuccs(M, n, l)
    BY <1>1, <1>2 DEF l
  <2>2. Distinct(l, n) /\ Distinct(r, n)
    BY <1>1, <1>2, <1>3, <2>1, ListDistinct
  <2> QED
    BY <1>1, <1>2, <1>3, <2>1, <2>2, RepairCallsTo
<1> HIDE DEF q, l
<1>6. ForCrash(M, q)
  <2>1. \A c \in Calls(q) : c.do \notin {"lists", "third"}
    BY <1>5 DEF RepairCallsOnly
  <2>2. \A c \in Calls(q) : c.do = "deprecate succesor" => c.x \notin M
    BY <1>1, <1>5 DEF RepairCallsOnly
  <2> QED
    BY <2>1, <2>2 DEF ForCrash, Settled
<1>7. ASSUME NEW m \in M PROVE IsNext(M, m, t[m][1])
  <2>1. CASE m = n
    BY <1>1, <2>1 DEF IsSuccs, Follow
  <2>2. CASE m # n
    <3>1. IsNext(M \cup {d}, m, t[m][1])
      BY <1>1, <2>2 DEF IsSuccs, Follow
    <3>2. t[m][1] # d
      BY <1>1, <1>2, <2>2, <3>1, PrevUnique
    <3> QED
      BY <1>2, <3>1, <3>2, NextWithout
  <2> QED
    BY <2>1, <2>2
<1> QED
  BY <1>4, <1>6, <1>7 DEF RepairPlanned, q, l

LEMMA FileThird ==
    ASSUME BusyInv, ListInv, FileInv, NEW n \in Node, FindThird(n) \/ NoThird(n), UNCHANGED <<request, late>>
    PROVE  FileInv'
<1> DEFINE d == Head(todo).x
<1>1. ThirdKnown(n, d)
  BY FindThirdMends, NoThirdMends DEF BusyInv
<1>2. agent = n /\ todo # <<>> /\ Head(todo).do = "third"
  BY DEF FindThird, NoThird, Calling
<1>3. Noticing
  BY <1>2, AgentCases
<1>4. PICK e \in Node : Looking(Member, n, todo, succ, pred, e) /\ AllPlaced(Member, Member \cup {e}, store, latest)
  BY <1>2, <1>3 DEF Noticing
<1>5. e = d
  BY <1>4 DEF Looking
<1> HIDE DEF d
<1>6. /\ SuccsMended(Member, n, todo, succ, pred, d, succ') /\ PlanRepair(n, d)
      /\ pred' = [pred EXCEPT ![n] = ReplaceFirst(pred[n], d, n)]
      /\ todo' = RepairCalls(n, succ'[n], pred'[n], d)
      /\ UNCHANGED <<status, store, agent, hand, latest>> /\ Member' = Member
  BY <1>1 DEF ThirdKnown, PlanRepair, Member
<1>7. /\ succ \in [Node -> List] /\ pred \in [Node -> List] /\ Member \in SUBSET Node
      /\ n \in Member /\ d \in Node \ Member
  BY <1>4, <1>5, FileTypes DEF Looking
<1>8. RepairPlanned(Member, d, todo', succ')
  <2> DEFINE r == ReplaceFirst(pred[n], d, n)
             t == succ'
  <2>1. todo' = RepairCalls(n, t[n], r, d)
    BY <1>6, <1>7
  <2>2. SuccsMended(Member, n, todo, succ, pred, d, t)
    BY <1>6
  <2> HIDE DEF r, t
  <2>3. RepairPlanned(Member, d, RepairCalls(n, t[n], r, d), t)
    BY <1>7, <2>2, RepairPlans DEF r
  <2> QED
    BY <2>1, <2>3 DEF t
<1>9. AllOnTrack(Member, Member \cup {d}, Member, late, todo', request, succ', store, hand, latest)
  <2>1. SUFFICES ASSUME NEW k \in Name
                 PROVE  OnTrack(Member, Member, Hold(Member \cup {d}, k) \cap Member, Hold(Member, k), k,
                                todo', request, succ', store, hand, latest[k])
    BY DEF AllOnTrack
  <2>2. Moves(Member, Member, Hold(Member \cup {d}, k) \cap Member, Hold(Member, k), k, todo')
    BY <1>8 DEF RepairPlanned, RepairMovesFiles
  <2>3. Placed(store, Member, Hold(Member \cup {d}, k) \cap Member, k, latest[k])
    BY <1>4, <1>5 DEF AllPlaced, Placed
  <2>4. Stage(Member, Member, Hold(Member \cup {d}, k) \cap Member, Hold(Member, k), k, todo', store, hand, latest[k])
    BY <2>2, <2>3, MovesStage
  <2>5. ~HeldBy(request, k)
    BY <1>3 DEF Noticing, Calm, HeldBy
  <2> QED
    BY <2>4, <2>5, StageTrack
<1>10. FirstOn(Member)'
  BY <1>6, <1>8 DEF FirstOn, RepairPlanned
<1>11. Mending'
  BY <1>2, <1>3, <1>6, <1>7, <1>8, <1>9, <1>10 DEF Mending, Noticing, Calm, RepairPlanned
<1>12. Bare'
  BY <1>6 DEF FileInv, Bare, NoFiles
<1>13. Tidy(todo)'
  BY <1>8 DEF RepairPlanned, RepairMovesFiles
<1> QED
  BY <1>11, <1>12, <1>13 DEF FileInv

-----------------------------------------------------------------------------
(* A call of the agent is made *)

\* The calls q2 that are left of q are no worse.
LeftOver(q, q2) ==
    /\ Tidy(q2)
    /\ \A a : ForNewcomer(a, q) => ForNewcomer(a, q2)
    /\ \A M : ForCrash(M, q) => ForCrash(M, q2)
    /\ (\E c \in Calls(q2) : Moving(c)) => \E c \in Calls(q) : Moving(c)

LEMMA LeftTail ==
    ASSUME NEW q \in Seq(Call), q # <<>>, Tidy(q)
    PROVE  LeftOver(q, Tail(q))
<1>1. Tail(q) \in Seq(Call) /\ \A c \in Calls(Tail(q)) : c \in Calls(q)
  BY CallsTail
<1>2. Tidy(Tail(q))
  BY <1>1, OrderedTail, PairedTail DEF Tidy
<1>3. \A X : Ordered(q, X) => Ordered(Tail(q), X)
  BY OrderedTail
<1>4. Settled(q) => Settled(Tail(q))
  BY <1>1 DEF Settled
<1>5. \A a : ForNewcomer(a, q) => ForNewcomer(a, Tail(q))
  BY <1>1, <1>3, <1>4 DEF ForNewcomer
<1>6. \A M : ForCrash(M, q) => ForCrash(M, Tail(q))
  BY <1>1, <1>4 DEF ForCrash
<1> QED
  BY <1>1, <1>2, <1>5, <1>6 DEF LeftOver

\* Calls for single files.
LEMMA FileStepsAre ==
    ASSUME NEW c \in KeysCall, NEW k \in Name, NEW x \in FileSteps(c, k)
    PROVE  /\ x \in FileCall /\ x.k = k /\ Moving(x) /\ ~SuccCall(x)
           /\ x.do \notin {"lists", "third", "keys"}
           /\ x.do = "put" => x.at = c.to
<1>1. x \in FileCall /\ x.k = k
  BY MoveFileOrder
<1>2. x.do \in {"get", "force get", "put", "drop"}
  BY <1>1 DEF FileCall
<1>3. Moving(x) /\ ~SuccCall(x) /\ x.do \notin {"lists", "third", "keys"}
  BY <1>2 DEF Moving, SuccCall
<1>4. x.do = "put" => x.at = c.to
  <2>1. x = FetchOf(c.by, c.at, k) \/ x = PutOf(c.to, k) \/ x = DropAt(c.drop, k)
    BY DEF FileSteps, DropOf
  <2>2. c.by # "put"
    BY DEF KeysCall
  <2> QED
    BY <2>1, <2>2 DEF FetchOf, PutOf, DropAt
<1> QED
  BY <1>1, <1>3, <1>4

LEMMA LeftListed ==
    ASSUME NEW q \in Seq(Call), q # <<>>, Tidy(q), Head(q) \in KeysCall, NEW st, NEW q2, Listed(q, q2, st)
    PROVE  LeftOver(q, q2)
<1> DEFINE c == Head(q)
           K == {i \in Name : st[c.at][i] # Absent /\ IsInBetweenModular(Hash[i], c.a, c.b)}
<1>1. PICK f : FilesListed(f, c, K) /\ q2 = f \o Tail(q)
  BY DEF Listed
<1>2. c.do = "keys" /\ ~(c.do \in {"get", "force get"}) /\ Moving(c)
  BY DEF KeysCall, Moving
<1>3. \A k \in K : k \in Name /\ Concerns(c, k)
  BY <1>2 DEF Concerns
<1>4. /\ Tail(q) \in Seq(Call) /\ c \in Calls(q) /\ \A d \in Calls(Tail(q)) : d \in Calls(q)
  BY CallsTail, HeadIn
<1>5. \A d \in Calls(Tail(q)) : d \in Call /\ <<c, d>> \notin Tangles
  <2>1. Calls(Tail(q)) \subseteq Call
    BY <1>4, ElementOfSeq DEF Calls
  <2> QED
    BY <2>1, OrderedTail DEF Tidy
<1>6. Tail(q) # <<>> => Tail(q)[1].do # "put"
  <2>1. SUFFICES ASSUME Tail(q) # <<>>, Tail(q)[1].do = "put" PROVE FALSE
    OBVIOUS
  <2>2. Len(q) \in Nat /\ 2 \in 2 .. Len(q) /\ q[2] = Tail(q)[1] /\ q[1] = c
    BY <2>1, HeadTailProperties, LenProperties, EmptySeq
  <2>3. q[2].do = "put" => q[2 - 1].do \in {"get", "force get"}
    BY <2>2 DEF Tidy, Paired
  <2>4. 2 - 1 = 1
    OBVIOUS
  <2>5. q[2].do = "put" => q[1].do \in {"get", "force get"}
    BY <2>3, <2>4
  <2> HIDE DEF c
  <2>6. c.do \in {"get", "force get"}
    BY <2>1, <2>2, <2>5
  <2> QED
    BY <1>2, <2>6
<1> HIDE DEF c, K
<1>7. c \in KeysCall
  BY DEF c
<1>8. f \in Seq(FileCall) /\ Ordered(f, Tangles) /\ Paired(f)
      /\ \A x \in Calls(f) : \E k \in K : x \in FileSteps(c, k)
  <2>1. \A x : x \in UNION {FileSteps(c, k) : k \in K} => \E k \in K : x \in FileSteps(c, k)
    BY Zenon
  <2> QED
    BY <1>1, <2>1 DEF FilesListed
<1>9. FileCall \subseteq Call /\ f \in Seq(Call)
  BY <1>8, FileCallsIn
<1>10. ASSUME NEW x \in Calls(f)
       PROVE  /\ Moving(x) /\ ~SuccCall(x) /\ x.do \notin {"lists", "third", "keys"}
              /\ x.do = "put" => x.at = c.to
              /\ x \in Call
              /\ \A d \in Calls(Tail(q)) : <<x, d>> \notin Tangles
  <2>1. PICK i \in K : x \in FileSteps(c, i)
    BY <1>8, <1>10
  <2>2. /\ x \in FileCall /\ x.k = i /\ Moving(x) /\ ~SuccCall(x)
        /\ x.do \notin {"lists", "third", "keys"} /\ (x.do = "put" => x.at = c.to)
    BY <1>3, <1>7, <2>1, FileStepsAre
  <2>3. ASSUME NEW d \in Calls(Tail(q)), <<x, d>> \in Tangles PROVE FALSE
    <3>1. PICK k \in Name : Concerns(x, k) /\ Concerns(d, k)
      BY <2>3 DEF Tangles
    <3>2. x.k = k
      BY <2>2, <3>1, Zenon DEF Concerns
    <3>3. Concerns(c, k)
      BY <1>3, <2>1, <2>2, <3>2
    <3>4. c \in Call /\ d \in Call
      BY <1>5, <1>7 DEF KeysCall, Call
    <3>5. <<c, d>> \in Tangles
      BY <1>2, <3>1, <3>3, <3>4 DEF Tangles
    <3> QED
      BY <1>5, <3>5
  <2> QED
    BY <1>9, <2>2, <2>3
<1>11. q2 \in Seq(Call) /\ Calls(q2) = Calls(f) \cup Calls(Tail(q))
  BY <1>1, <1>4, <1>9, CallsConcat
<1>12. Tidy(q2)
  <2>1. Ordered(Tail(q), Tangles) /\ Paired(Tail(q))
    BY LeftTail DEF LeftOver, Tidy
  <2>2. Ordered(q2, Tangles)
    BY <1>1, <1>4, <1>8, <1>9, <1>10, <2>1, OrderedConcat
  <2>3. Paired(q2)
    BY <1>1, <1>4, <1>6, <1>8, <1>9, <2>1, PairedConcat
  <2> QED
    BY <1>11, <2>2, <2>3 DEF Tidy
<1>13. ASSUME NEW a, ForNewcomer(a, q) PROVE ForNewcomer(a, q2)
  <2>1. Ordered(Tail(q), Early)
    BY <1>13, OrderedTail DEF ForNewcomer
  <2>2. \A x \in Calls(f) : \A d : <<x, d>> \notin Early
    BY <1>10 DEF Early
  <2>3. Ordered(f, Early)
    BY <2>2, OrderedNone
  <2>4. Ordered(q2, Early)
    BY <1>1, <1>4, <1>9, <2>1, <2>2, <2>3, OrderedConcat
  <2>5. c.to = a
    BY <1>2, <1>4, <1>13 DEF ForNewcomer
  <2>6. Settled(q2)
    BY <1>4, <1>10, <1>11, <1>13 DEF Settled, ForNewcomer
  <2>7. ASSUME NEW x \in Calls(q2)
        PROVE  /\ x.do = "keys" => x.to = a
               /\ x.do = "put" => x.at = a
               /\ SuccCall(x) => x.do = "insert succesor" /\ x.x = a
    <3>1. CASE x \in Calls(f)
      BY <1>10, <2>5, <3>1
    <3>2. CASE x \in Calls(q)
      BY <1>13, <3>2 DEF ForNewcomer
    <3> QED
      BY <1>4, <1>11, <3>1, <3>2
  <2> QED
    BY <2>4, <2>6, <2>7 DEF ForNewcomer
<1>14. ASSUME NEW M, ForCrash(M, q) PROVE ForCrash(M, q2)
  <2>1. ASSUME NEW x \in Calls(q2)
        PROVE  x.do \notin {"lists", "third"} /\ (x.do = "deprecate succesor" => x.x \notin M)
    <3>1. CASE x \in Calls(f)
      BY <1>10, <3>1 DEF SuccCall
    <3>2. CASE x \in Calls(q)
      BY <1>14, <3>2 DEF ForCrash, Settled
    <3> QED
      BY <1>4, <1>11, <3>1, <3>2
  <2> QED
    BY <2>1 DEF ForCrash, Settled
<1>15. \E d \in Calls(q) : Moving(d)
  BY <1>2, <1>4
<1> QED
  BY <1>12, <1>13, <1>14, <1>15 DEF LeftOver

\* A call that concerns files, or the predecessors, has been made.
LEMMA FileGoesOn ==
    ASSUME BusyInv, FileInv, NEW n \in Node, agent = n, TakingOver \/ Mending,
           UNCHANGED <<status, succ, agent, request, late, latest>>, Bare', LeftOver(todo, todo'),
           \A R : \A T \in {Member, Member \cup {n}} :
               AllOnTrack(Member, R, T, late, todo, request, succ, store, hand, latest)
                   => AllOnTrack(Member, R, T, late, todo', request, succ, store', hand', latest)
    PROVE  FileInv'
<1>1. Member' = Member
  BY DEF Member
<1>2. CASE TakingOver
  <2>1. AllOnTrack(Member, Member, Member \cup {n}, late, todo', request, succ, store', hand', latest)
    BY <1>2 DEF TakingOver
  <2>2. HalfTold(Member, Member \cup {n}, todo', succ)
    BY <1>2 DEF TakingOver, HalfTold, LeftOver
  <2>3. ForNewcomer(n, todo')
    BY <1>2 DEF TakingOver, LeftOver
  <2>4. TakingOver'
    BY <1>1, <1>2, <2>1, <2>2, <2>3 DEF TakingOver
  <2> QED
    BY <2>4 DEF FileInv, LeftOver
<1>3. CASE Mending
  <2>1. PICK d \in Node \ Member :
            AllOnTrack(Member, Member \cup {d}, Member, late, todo, request, succ, store, hand, latest)
    BY <1>3 DEF Mending
  <2>2. AllOnTrack(Member, Member \cup {d}, Member, late, todo', request, succ, store', hand', latest)
    BY <2>1
  <2>3. ForCrash(Member, todo') /\ FirstOn(Member)'
    BY <1>1, <1>3 DEF Mending, LeftOver, FirstOn
  <2>4. Mending'
    BY <1>1, <1>3, <2>2, <2>3 DEF Mending, Calm
  <2> QED
    BY <2>4 DEF FileInv, LeftOver
<1> QED
  BY <1>2, <1>3

LEMMA NotMoving ==
    ASSUME NEW c, NEW k, Concerns(c, k)
    PROVE  Moving(c)
<1>1. c.do = "keys" \/ c.do \in {"get", "force get", "put", "drop"}
  BY Zenon DEF Concerns
<1> QED
  BY <1>1 DEF Moving

LEMMA AgentCalls ==
    ASSUME BusyInv, FileInv, NEW n \in Node, agent = n, todo # <<>>, Head(todo).do \notin {"lists", "third"}
    PROVE  /\ TakingOver \/ Mending
           /\ Tidy(todo) /\ LeftOver(todo, Tail(todo)) /\ todo \in Seq(Call) /\ Head(todo) \in Call
           /\ Member \in SUBSET Node /\ \A T \in {Member, Member \cup {n}} : T \in SUBSET Node
           /\ store \in [Node -> [Name -> Content]]
<1>1. todo \in Seq(Call) /\ Tidy(todo) /\ Head(todo) \in Call
  BY FileTypes, HeadCall DEF FileInv
<1> QED
  BY <1>1, AgentCases, LeftTail, FileTypes

LEMMA FileChangePredecessors ==
    ASSUME BusyInv, ListInv, FileInv, NEW n \in Node, ChangePredecessors(n), UNCHANGED <<request, late>>
    PROVE  FileInv'
<1>1. /\ agent = n /\ todo # <<>> /\ todo' = Tail(todo)
      /\ Head(todo).do \in {"insert predecessor", "deprecate predecessor"}
      /\ UNCHANGED <<status, succ, store, agent, hand, latest>>
  BY DEF ChangePredecessors, Calling
<1>2. Head(todo).do \notin {"lists", "third"} /\ ~Moving(Head(todo))
  BY <1>1 DEF Moving
<1>3. /\ TakingOver \/ Mending
      /\ Tidy(todo) /\ LeftOver(todo, Tail(todo)) /\ todo \in Seq(Call)
  BY <1>1, <1>2, AgentCalls
<1>4. \A R, T : AllOnTrack(Member, R, T, late, todo, request, succ, store, hand, latest)
                    => AllOnTrack(Member, R, T, late, todo', request, succ, store', hand', latest)
  <2>1. SUFFICES ASSUME NEW R, NEW T, AllOnTrack(Member, R, T, late, todo, request, succ, store, hand, latest),
                        NEW k \in Name \ late
                 PROVE  OnTrack(Member, T, Hold(R, k) \cap Member, Hold(T, k), k, Tail(todo), request, succ,
                                store, hand, latest[k])
    BY <1>1 DEF AllOnTrack
  <2>2. OnTrack(Member, T, Hold(R, k) \cap Member, Hold(T, k), k, todo, request, succ, store, hand, latest[k])
    BY <2>1 DEF AllOnTrack
  <2>3. ~Concerns(Head(todo), k)
    BY <1>2, NotMoving
  <2> QED
    BY <1>1, <1>3, <2>2, <2>3, TrackOther
<1>5. Bare'
  BY <1>1 DEF FileInv, Bare, NoFiles
<1> QED
  BY <1>1, <1>3, <1>4, <1>5, FileGoesOn

LEMMA FileListKeys ==
    ASSUME BusyInv, ListInv, FileInv, NEW n \in Node, ListKeys(n), UNCHANGED <<request, late>>
    PROVE  FileInv'
<1>1. /\ agent = n /\ todo # <<>> /\ Head(todo).do = "keys"
      /\ UNCHANGED <<status, succ, store, agent, hand, latest>>
  BY DEF ListKeys, Calling
<1>2. /\ TakingOver \/ Mending
      /\ Tidy(todo) /\ todo \in Seq(Call) /\ Head(todo) \in Call
  BY <1>1, AgentCalls
<1>3. Head(todo) \in KeysCall
  BY <1>1, <1>2, CallTypes
<1>4. Listed(todo, todo', store)
  <2> DEFINE c == Head(todo)
             K == KeysInRange(c.at, c.a, c.b)
             ks == Seqs!SetToSeq(K)
             f == Seqs!FlattenSeq([i \in 1 .. Len(ks) |-> MoveFile(c, ks[i])])
  <2>1. todo' = f \o Tail(todo)
    BY DEF ListKeys
  <2>2. K = {k \in Name : store[c.at][k] # Absent /\ IsInBetweenModular(Hash[k], c.a, c.b)}
    BY DEF KeysInRange
  <2>3. FilesListed(f, c, K)
    <3> HIDE DEF c
    <3>1. K \in SUBSET Name /\ c \in KeysCall
      BY <1>3 DEF KeysInRange, c
    <3> HIDE DEF K
    <3> QED
      BY <3>1, ListedCalls
  <2> HIDE DEF f
  <2> QED
    BY <2>1, <2>2, <2>3 DEF Listed
<1>5. LeftOver(todo, todo')
  BY <1>1, <1>2, <1>3, <1>4, LeftListed
<1>6. \A R, T : AllOnTrack(Member, R, T, late, todo, request, succ, store, hand, latest)
                    => AllOnTrack(Member, R, T, late, todo', request, succ, store', hand', latest)
  <2>1. SUFFICES ASSUME NEW R, NEW T, AllOnTrack(Member, R, T, late, todo, request, succ, store, hand, latest),
                        NEW k \in Name \ late
                 PROVE  OnTrack(Member, T, Hold(R, k) \cap Member, Hold(T, k), k, todo', request, succ,
                                store, hand, latest[k])
    BY <1>1 DEF AllOnTrack
  <2>2. OnTrack(Member, T, Hold(R, k) \cap Member, Hold(T, k), k, todo, request, succ, store, hand, latest[k])
    BY <2>1 DEF AllOnTrack
  <2> QED
    BY <1>1, <1>2, <1>3, <1>4, <2>2, TrackKeys
<1>7. Bare'
  BY <1>1 DEF FileInv, Bare, NoFiles
<1> QED
  BY <1>1, <1>2, <1>5, <1>6, <1>7, FileGoesOn

\* k, if it is what is asked for, has been read at its owner.
LEMMA FileFetched ==
    ASSUME BusyInv, FileInv, NEW n \in Node, agent = n, todo # <<>>, Head(todo).do \in {"get", "force get"},
           UNCHANGED <<status, succ, store, agent, latest, request, late>>, todo' = Tail(todo),
           NEW o, hand' = ReadAt(o, Head(todo).k),
           Own(Member, Head(todo).k, Head(todo).at) => o = Head(todo).at
    PROVE  FileInv'
<1>1. Head(todo).do \notin {"lists", "third"}
  OBVIOUS
<1>2. /\ TakingOver \/ Mending
      /\ Tidy(todo) /\ LeftOver(todo, Tail(todo)) /\ todo \in Seq(Call)
  BY <1>1, AgentCalls
<1>3. \A R, T : AllOnTrack(Member, R, T, late, todo, request, succ, store, hand, latest)
                    => AllOnTrack(Member, R, T, late, todo', request, succ, store', hand', latest)
  <2>1. SUFFICES ASSUME NEW R, NEW T, AllOnTrack(Member, R, T, late, todo, request, succ, store, hand, latest),
                        NEW k \in Name \ late
                 PROVE  OnTrack(Member, T, Hold(R, k) \cap Member, Hold(T, k), k, Tail(todo), request, succ,
                                store, hand', latest[k])
    BY DEF AllOnTrack
  <2>2. OnTrack(Member, T, Hold(R, k) \cap Member, Hold(T, k), k, todo, request, succ, store, hand, latest[k])
    BY <2>1 DEF AllOnTrack
  <2>3. Head(todo).k = k /\ Own(Member, k, Head(todo).at) /\ latest[k] # Absent
        /\ store[Head(todo).at][k] = latest[k] => hand' = latest[k]
    <3>1. SUFFICES ASSUME Head(todo).k = k, Own(Member, k, Head(todo).at), latest[k] # Absent,
                          store[Head(todo).at][k] = latest[k]
                   PROVE  hand' = latest[k]
      OBVIOUS
    <3>2. o = Head(todo).at /\ hand' = ReadAt(o, k) /\ store[o][k] = latest[k]
      BY <3>1
    <3> QED
      BY <3>1, <3>2 DEF ReadAt
  <2> QED
    BY <1>2, <2>2, <2>3, TrackFetch
<1>4. Bare'
  BY DEF FileInv, Bare, NoFiles
<1> QED
  BY <1>2, <1>3, <1>4, FileGoesOn

LEMMA FileFetchFile ==
    ASSUME BusyInv, ListInv, FileInv, NEW n \in Node, FetchFile(n), UNCHANGED <<request, late>>
    PROVE  FileInv'
<1>1. /\ agent = n /\ todo # <<>> /\ Head(todo).do = "force get" /\ todo' = Tail(todo)
      /\ hand' = ReadAt(Head(todo).at, Head(todo).k)
      /\ UNCHANGED <<status, succ, store, agent, latest>>
  BY DEF FetchFile, Calling
<1> QED
  BY <1>1, FileFetched

\* While files are moved the first successors of the members are members.
LEMMA MovingFirst ==
    ASSUME FileInv, TakingOver \/ Mending, NEW c \in Calls(todo), Moving(c)
    PROVE  FirstOn(Member)
<1>1. CASE Mending
  BY <1>1 DEF Mending
<1>2. CASE TakingOver
  <2>1. \A m \in Member : IsSuccs(Member, m, succ[m])
    BY <1>2 DEF TakingOver, HalfTold
  <2> QED
    BY <2>1 DEF FirstOn, IsSuccs, Follow
<1> QED
  BY <1>1, <1>2

LEMMA FileGetFile ==
    ASSUME BusyInv, ListInv, FileInv, NEW n \in Node, GetFile(n), UNCHANGED <<request, late>>
    PROVE  FileInv'
<1> DEFINE c == Head(todo)
           p == PredecessorOf(c.at, Hash[c.k])
           o == SuccessorOf(c.at, Hash[c.k])
<1>1. /\ agent = n /\ todo # <<>> /\ c.do = "get" /\ todo' = Tail(todo)
      /\ hand' = ReadAt(o, c.k) /\ c.at \in Member /\ p \in Member /\ o = succ[p][1]
      /\ UNCHANGED <<status, succ, store, agent, latest>>
  BY DEF GetFile, Calling, Answered, SuccessorOf
<1>2. /\ TakingOver \/ Mending
      /\ todo \in Seq(Call) /\ c \in Call /\ Member \in SUBSET Node /\ Member \in SUBSET Int
  BY <1>1, AgentCalls
<1>3. c \in Calls(todo) /\ Moving(c) /\ c.k \in Name
  BY <1>1, <1>2, HeadIn, CallTypes DEF Moving
<1>4. FirstOn(Member)
  BY <1>2, <1>3, MovingFirst
<1>5. Ends(Member, c.k, p)
  <2>1. succ \in [Node -> List]
    BY FileTypes
  <2> HIDE DEF c
  <2> QED
    BY <1>1, <1>2, <1>3, <1>4, <2>1, LookupEnds
<1> HIDE DEF o, p
<1>6. Own(Member, c.k, c.at) => o = c.at
  <2>1. Own(Member, c.k, o)
    BY <1>1, <1>5 DEF Ends
  <2>2. Hash[c.k] - 1 \in Int
    BY <1>3, KeyDistances
  <2> QED
    BY <1>2, <2>1, <2>2, NextUnique DEF Own
<1> QED
  BY <1>1, <1>6, FileFetched

\* One file of a node that is not down is written.
LEMMA BareStays ==
    ASSUME BusyInv, ListInv, FileInv, NEW n \in Node, agent = n, NEW m \in Member \cup {n}, NEW k, NEW v,
           store' = [store EXCEPT ![m][k] = v], UNCHANGED status
    PROVE  Bare'
<1>1. store \in [Node -> [Name -> Content]]
  BY FileTypes
<1>2. status[m] # "down"
  BY DEF ListInv, OneAgent, Member
<1>3. \A i \in Node : i # m => store'[i] = store[i]
  BY <1>1
<1> QED
  BY <1>2, <1>3 DEF FileInv, Bare, NoFiles

LEMMA FilePutFile ==
    ASSUME BusyInv, ListInv, FileInv, NEW n \in Node, PutFile(n), UNCHANGED <<request, late>>
    PROVE  FileInv'
<1>1. /\ agent = n /\ todo # <<>> /\ Head(todo).do = "put" /\ todo' = Tail(todo)
      /\ Head(todo).at \in Member \cup {n}
      /\ store' = [store EXCEPT ![Head(todo).at][Head(todo).k] = hand]
      /\ UNCHANGED <<status, succ, agent, latest>>
  BY DEF PutFile
<1>2. Head(todo).do \notin {"lists", "third"}
  BY <1>1
<1>3. /\ TakingOver \/ Mending
      /\ Tidy(todo) /\ LeftOver(todo, Tail(todo)) /\ todo \in Seq(Call) /\ Head(todo) \in Call
      /\ \A T \in {Member, Member \cup {n}} : T \in SUBSET Node
  BY <1>1, <1>2, AgentCalls
<1>4. Head(todo).at \in Node /\ Head(todo).k \in Name
  BY <1>1, <1>3, CallTypes
<1>5. ASSUME NEW R, NEW T \in {Member, Member \cup {n}},
             AllOnTrack(Member, R, T, late, todo, request, succ, store, hand, latest)
      PROVE  AllOnTrack(Member, R, T, late, todo', request, succ, store', hand', latest)
  <2>1. SUFFICES ASSUME NEW k \in Name \ late
                 PROVE  OnTrack(Member, T, Hold(R, k) \cap Member, Hold(T, k), k, Tail(todo), request, succ,
                                store', hand', latest[k])
    BY <1>1 DEF AllOnTrack
  <2>2. OnTrack(Member, T, Hold(R, k) \cap Member, Hold(T, k), k, todo, request, succ, store, hand, latest[k])
    BY <1>5 DEF AllOnTrack
  <2>3. T \in SUBSET Node
    BY <1>3
  <2>4. \A m \in T : store'[m][k] = IF m = Head(todo).at /\ k = Head(todo).k THEN hand ELSE store[m][k]
    <3>1. \A o \in Node, i \in Name : store'[o][i] = IF o = Head(todo).at /\ i = Head(todo).k THEN hand ELSE store[o][i]
      <4>1. store \in [Node -> [Name -> Content]]
        BY FileTypes
      <4> QED
        BY <1>1, <1>4, <4>1
    <3> QED
      BY <2>3, <3>1
  <2> QED
    BY <1>1, <1>3, <2>2, <2>3, <2>4, TrackPut
<1>6. Bare'
  BY <1>1, BareStays
<1> QED
  BY <1>1, <1>3, <1>5, <1>6, FileGoesOn

LEMMA FileDropFile ==
    ASSUME BusyInv, ListInv, FileInv, NEW n \in Node, DropFile(n), UNCHANGED <<request, late>>
    PROVE  FileInv'
<1>1. /\ agent = n /\ todo # <<>> /\ Head(todo).do = "drop" /\ todo' = Tail(todo)
      /\ Head(todo).at \in Member
      /\ store' = [store EXCEPT ![Head(todo).at][Head(todo).k] = Absent]
      /\ UNCHANGED <<status, succ, agent, hand, latest>>
  BY DEF DropFile, Calling
<1>2. Head(todo).do \notin {"lists", "third"}
  BY <1>1
<1>3. /\ TakingOver \/ Mending
      /\ Tidy(todo) /\ LeftOver(todo, Tail(todo)) /\ todo \in Seq(Call) /\ Head(todo) \in Call
      /\ \A T \in {Member, Member \cup {n}} : T \in SUBSET Node
  BY <1>1, <1>2, AgentCalls
<1>4. Head(todo).at \in Node /\ Head(todo).k \in Name
  BY <1>1, <1>3, CallTypes
<1>5. ASSUME NEW R, NEW T \in {Member, Member \cup {n}},
             AllOnTrack(Member, R, T, late, todo, request, succ, store, hand, latest)
      PROVE  AllOnTrack(Member, R, T, late, todo', request, succ, store', hand', latest)
  <2>1. SUFFICES ASSUME NEW k \in Name \ late
                 PROVE  OnTrack(Member, T, Hold(R, k) \cap Member, Hold(T, k), k, Tail(todo), request, succ,
                                store', hand, latest[k])
    BY <1>1 DEF AllOnTrack
  <2>2. OnTrack(Member, T, Hold(R, k) \cap Member, Hold(T, k), k, todo, request, succ, store, hand, latest[k])
    BY <1>5 DEF AllOnTrack
  <2>3. T \in SUBSET Node
    BY <1>3
  <2>4. \A m \in T : store'[m][k] = IF m = Head(todo).at /\ k = Head(todo).k THEN Absent ELSE store[m][k]
    <3>1. \A o \in Node, i \in Name : store'[o][i] = IF o = Head(todo).at /\ i = Head(todo).k THEN Absent ELSE store[o][i]
      <4>1. store \in [Node -> [Name -> Content]]
        BY FileTypes
      <4> QED
        BY <1>1, <1>4, <4>1
    <3> QED
      BY <2>3, <3>1
  <2> QED
    BY <1>1, <1>3, <2>2, <2>3, <2>4, TrackDrop
<1>6. Bare'
  BY <1>1, BareStays
<1> QED
  BY <1>1, <1>3, <1>5, <1>6, FileGoesOn

\* Whether c is an insertion in a list of successors, or a removal: what it makes of l.
SuccAfter(c, l) ==
    IF c.do = "insert succesor" THEN InsertSuccessor(c.at, l, c.x) ELSE Deprecate(c.at, l, c.x)

\* Nobody is called twice for an insertion: the list is right then.
LEMMA InsertLast ==
    ASSUME NEW R \in SUBSET Node, NEW q \in Seq(Call), q # <<>>, NEW s \in [Node -> List], NEW p,
           Settling(R, q, s, p), NEW c, c = Head(q), c.do = "insert succesor", c.at \in R,
           NEW t, t = [s EXCEPT ![c.at] = SuccAfter(c, s[c.at])]
    PROVE  IsSuccs(R, c.at, t[c.at])
<1>1. c.do \in {"insert succesor", "deprecate succesor"} /\ c.at \in Node
  OBVIOUS
<1>2. t = [s EXCEPT ![c.at] = IF c.do = "insert succesor" THEN InsertSuccessor(c.at, s[c.at], c.x)
                              ELSE Deprecate(c.at, s[c.at], c.x)]
  BY DEF SuccAfter
<1>3. Settling(R, Tail(q), t, p)
  BY <1>1, <1>2, SettlingSuccs
<1>4. SuccsWill(R, c.at, t[c.at], Tail(q))
  BY <1>3 DEF Settling
<1>5. InOrder(q)
  BY DEF Settling
<1>6. \A d \in Calls(Tail(q)) : ~Conflict(c, d)
  BY <1>5, CallsTail
<1>7. \A d \in Calls(Tail(q)) : d.at = c.at => d.do # "insert succesor" /\ d.do # "deprecate succesor"
  BY <1>6 DEF Conflict, SuccCall
<1>8. To(Tail(q), "insert succesor", c.at) = {} /\ To(Tail(q), "deprecate succesor", c.at) = {}
  BY <1>7 DEF To
<1> QED
  BY <1>4, <1>8 DEF SuccsWill

\* A list of successors changes, which is not a call for k.
LEMMA TrackSuccs ==
    ASSUME NEW M \in SUBSET Node, NEW F \in SUBSET Node, M \subseteq F, NEW B, NEW A, NEW k \in Name,
           NEW q \in Seq(Call), q # <<>>, Tidy(q), ~Concerns(Head(q), k),
           NEW r, NEW s, NEW st, NEW h, NEW v, OnTrack(M, F, B, A, k, q, r, s, st, h, v),
           NEW t, HeldBy(r, k) => \A m \in M : t[m] = s[m] \/ IsSuccs(F, m, t[m])
    PROVE  OnTrack(M, F, B, A, k, Tail(q), r, t, st, h, v)
<1>1. OnTrack(M, F, B, A, k, Tail(q), r, s, st, h, v)
  BY TrackOther
<1>2. CASE ~HeldBy(r, k)
  BY <1>1, <1>2, TrackRequest
<1>3. CASE HeldBy(r, k)
  <2>1. Held(F, M, A, k, Tail(q), r, s, st, v)
    BY <1>1, <1>3 DEF OnTrack
  <2>2. /\ Concern(Tail(q), k) = {} /\ r.at \in M /\ r.v = v /\ IsSuccs(F, r.at, s[r.at])
        /\ {r.at, s[r.at][1], s[r.at][2]} = A /\ \A m \in F \ A : st[m][k] = Absent
    BY <2>1 DEF Held
  <2>3. IsSuccs(F, r.at, t[r.at]) /\ t[r.at][1] = s[r.at][1] /\ t[r.at][2] = s[r.at][2]
    <3>1. CASE t[r.at] = s[r.at]
      BY <2>2, <3>1
    <3>2. CASE IsSuccs(F, r.at, t[r.at])
      <4>1. r.at \in F
        BY <2>2
      <4> DEFINE o == r.at
                 l == t[o]
                 i == s[o]
      <4>2. o \in F /\ IsSuccs(F, o, l) /\ IsSuccs(F, o, i)
        BY <2>2, <3>2, <4>1
      <4> HIDE DEF o, l, i
      <4>3. l[1] = i[1] /\ l[2] = i[2]
        BY <4>2, SuccsUnique
      <4> USE DEF o, l, i
      <4> QED
        BY <3>2, <4>3
    <3> QED
      BY <1>3, <2>2, <3>1, <3>2
  <2>4. Held(F, M, A, k, Tail(q), r, t, st, v)
    BY <2>2, <2>3 DEF Held
  <2> QED
    BY <1>3, <2>4 DEF OnTrack
<1> QED
  BY <1>2, <1>3

\* The call c of the agent n changes lists of successors.
SuccsChange(n, c) ==
    /\ agent = n /\ todo # <<>> /\ c = Head(todo) /\ todo' = Tail(todo)
    /\ c.do \in {"insert succesor", "deprecate succesor"} /\ c.at \in Member
    /\ succ' = [succ EXCEPT ![c.at] = SuccAfter(c, succ[c.at])]
    /\ UNCHANGED <<status, store, agent, hand, latest>>

LEMMA SuccsChangeTypes ==
    ASSUME BusyInv, ListInv, FileInv, NEW n \in Node, NEW c, SuccsChange(n, c)
    PROVE  /\ TakingOver \/ Mending
           /\ Tidy(todo) /\ LeftOver(todo, Tail(todo)) /\ todo \in Seq(Call) /\ c \in Call /\ c \in Calls(todo)
           /\ Member \in SUBSET Node /\ Member \cup {n} \in SUBSET Node
           /\ \A k : ~Concerns(c, k)
           /\ Settling(Member \cup {n}, todo, succ, pred)
           /\ \A m \in Node : m # c.at => succ'[m] = succ[m]
           /\ succ'[c.at] = SuccAfter(c, succ[c.at])
           /\ c.do = "insert succesor" => IsSuccs(Member \cup {n}, c.at, succ'[c.at])
<1>1. /\ agent = n /\ todo # <<>> /\ c = Head(todo)
      /\ c.do \in {"insert succesor", "deprecate succesor"} /\ c.at \in Member
      /\ succ' = [succ EXCEPT ![c.at] = SuccAfter(c, succ[c.at])]
  BY DEF SuccsChange
<1>2. c.do \notin {"lists", "third"} /\ ~Moving(c)
  BY <1>1 DEF Moving
<1>3. /\ TakingOver \/ Mending
      /\ Tidy(todo) /\ LeftOver(todo, Tail(todo)) /\ todo \in Seq(Call) /\ c \in Call
      /\ Member \in SUBSET Node /\ Member \cup {n} \in SUBSET Node
  BY <1>1, <1>2, AgentCalls
<1>4. c \in Calls(todo)
  BY <1>1, <1>3, HeadIn
<1>5. \A k : ~Concerns(c, k)
  BY <1>2, NotMoving
<1>6. Settling(Member \cup {n}, todo, succ, pred)
  <2>1. Standing(Member, n, todo, succ, pred)
    BY <1>1 DEF ListInv
  <2> QED
    BY <1>1, <1>2, <1>3, <2>1, StandingHead
<1>7. succ \in [Node -> List]
  BY FileTypes
<1>8. (\A m \in Node : m # c.at => succ'[m] = succ[m]) /\ succ'[c.at] = SuccAfter(c, succ[c.at])
  BY <1>1, <1>3, <1>7
<1>9. c.do = "insert succesor" => IsSuccs(Member \cup {n}, c.at, succ'[c.at])
  <2>1. c.at \in Member \cup {n}
    BY <1>1
  <2> DEFINE R == Member \cup {n}
             t == [succ EXCEPT ![c.at] = SuccAfter(c, succ[c.at])]
  <2>2. R \in SUBSET Node /\ c.at \in R /\ Settling(R, todo, succ, pred) /\ t = succ'
    BY <1>1, <1>3, <1>6, <2>1
  <2> HIDE DEF R
  <2>3. c.do = "insert succesor" => IsSuccs(R, c.at, t[c.at])
    BY <1>1, <1>3, <1>7, <2>2, InsertLast
  <2> HIDE DEF t
  <2> QED
    BY <2>2, <2>3 DEF R
<1> QED
  BY <1>3, <1>4, <1>5, <1>6, <1>8, <1>9

\* The newcomer is announced to c.at.
LEMMA AnnounceOne ==
    ASSUME BusyInv, ListInv, FileInv, NEW n \in Node, NEW c, SuccsChange(n, c), TakingOver,
           UNCHANGED <<request, late>>
    PROVE  TakingOver'
<1> DEFINE T == Member \cup {n}
<1>1. /\ Tidy(todo) /\ LeftOver(todo, Tail(todo)) /\ todo \in Seq(Call) /\ c \in Call /\ c \in Calls(todo)
      /\ Member \in SUBSET Node /\ T \in SUBSET Node /\ \A k : ~Concerns(c, k)
      /\ \A m \in Node : m # c.at => succ'[m] = succ[m]
      /\ c.do = "insert succesor" => IsSuccs(T, c.at, succ'[c.at])
  BY SuccsChangeTypes
<1>2. /\ agent = n /\ todo # <<>> /\ c = Head(todo) /\ todo' = Tail(todo) /\ SuccCall(c)
      /\ c.at \in Member /\ UNCHANGED <<status, store, agent, hand, latest>>
  BY DEF SuccsChange, SuccCall
<1>3. Member' = Member
  BY <1>2 DEF Member
<1>4. ForNewcomer(n, todo) /\ HalfTold(Member, T, todo, succ) /\ n \in Node \ Member
  BY <1>2 DEF TakingOver
<1>5. \A m \in Member : succ'[m] = succ[m] \/ IsSuccs(T, m, succ'[m])
  <2>1. c.do = "insert succesor"
    BY <1>1, <1>2, <1>4 DEF ForNewcomer
  <2> QED
    BY <1>1, <2>1
<1>6. \A d \in Calls(Tail(todo)) : ~Moving(d)
  <2>1. Ordered(todo, Early)
    BY <1>4 DEF ForNewcomer
  <2>2. \A d \in Calls(Tail(todo)) : <<c, d>> \notin Early
    BY <1>1, <1>2, <2>1, OrderedTail
  <2>3. Tail(todo) \in Seq(Call)
    BY <1>1, <1>2, CallsTail
  <2>4. \A d \in Calls(Tail(todo)) : d \in Call
    BY <2>3 DEF Calls
  <2> QED
    BY <1>1, <1>2, <2>2, <2>4 DEF Early
<1>7. HalfTold(Member, T, Tail(todo), succ')
  BY <1>4, <1>5, <1>6 DEF HalfTold
<1>8. ForNewcomer(n, Tail(todo))
  BY <1>1, <1>4 DEF LeftOver
<1>9. AllOnTrack(Member, Member, T, late, Tail(todo), request, succ', store, hand, latest)
  <2>1. SUFFICES ASSUME NEW k \in Name \ late
                 PROVE  OnTrack(Member, T, Hold(Member, k) \cap Member, Hold(T, k), k, Tail(todo), request, succ',
                                store, hand, latest[k])
    BY DEF AllOnTrack
  <2>2. OnTrack(Member, T, Hold(Member, k) \cap Member, Hold(T, k), k, todo, request, succ, store, hand, latest[k])
    BY <1>2 DEF TakingOver, AllOnTrack
  <2>3. Member \subseteq T
    OBVIOUS
  <2>4. ~Concerns(Head(todo), k)
    BY <1>1, <1>2
  <2> HIDE DEF T
  <2> QED
    BY <1>1, <1>2, <1>5, <2>2, <2>3, <2>4, TrackSuccs
<1> QED
  BY <1>2, <1>3, <1>4, <1>7, <1>8, <1>9 DEF TakingOver

\* The first successor of a member is not taken from its list.
LEMMA FirstStays ==
    ASSUME NEW M \in SUBSET Node, NEW m \in M, NEW l \in List, IsNext(M, m, l[1]), NEW x \in Node \ M
    PROVE  Deprecate(m, l, x)[1] = l[1]
<1>1. l[1] # x
  BY DEF IsNext
<1>2. PICK a, b, c \in Node : l[1] = a /\ l[2] = b /\ l[3] = c /\ l = Three(a, b, c)
  BY ListIs
<1>3. Deprecate(m, l, x) = IF b = x THEN Three(a, c, m) ELSE IF c = x THEN Three(a, b, m) ELSE l
  <2>1. m \in Node
    OBVIOUS
  <2> QED
    BY <1>1, <1>2, <2>1, DeprecateThree
<1>4. Three(a, c, m)[1] = a /\ Three(a, b, m)[1] = a
  BY ThreeList
<1> QED
  BY <1>2, <1>3, <1>4

LEMMA MendOne ==
    ASSUME BusyInv, ListInv, FileInv, NEW n \in Node, NEW c, SuccsChange(n, c), Mending,
           UNCHANGED <<request, late>>
    PROVE  Mending'
<1>1. /\ Tidy(todo) /\ LeftOver(todo, Tail(todo)) /\ todo \in Seq(Call) /\ c \in Call /\ c \in Calls(todo)
      /\ Member \in SUBSET Node /\ \A k : ~Concerns(c, k)
      /\ \A m \in Node : m # c.at => succ'[m] = succ[m]
      /\ succ'[c.at] = SuccAfter(c, succ[c.at])
      /\ c.do = "insert succesor" => IsSuccs(Member \cup {n}, c.at, succ'[c.at])
  BY SuccsChangeTypes
<1>2. /\ agent = n /\ todo # <<>> /\ c = Head(todo) /\ todo' = Tail(todo)
      /\ c.do \in {"insert succesor", "deprecate succesor"}
      /\ c.at \in Member /\ UNCHANGED <<status, store, agent, hand, latest>>
  BY DEF SuccsChange
<1>3. Member' = Member
  BY <1>2 DEF Member
<1>4. n \in Member /\ ForCrash(Member, todo) /\ FirstOn(Member) /\ Calm
  BY <1>2 DEF Mending
<1>5. \A m \in Member : IsNext(Member, m, succ'[m][1])
  <2>1. ASSUME NEW m \in Member, m # c.at PROVE IsNext(Member, m, succ'[m][1])
    BY <1>1, <1>4, <2>1 DEF FirstOn
  <2>2. c.do = "insert succesor" => IsNext(Member, c.at, succ'[c.at][1])
    <3>1. Member \cup {n} = Member
      BY <1>4
    <3> QED
      BY <1>1, <3>1 DEF IsSuccs, Follow
  <2>3. c.do = "deprecate succesor" => IsNext(Member, c.at, succ'[c.at][1])
    <3>1. SUFFICES ASSUME c.do = "deprecate succesor"
                   PROVE  IsNext(Member, c.at, succ'[c.at][1])
      OBVIOUS
    <3>2. c.do # "insert succesor"
      BY <3>1
    <3>3. c.x \in Node \ Member
      BY <1>1, <1>4, <3>1, CallTypes DEF ForCrash
    <3> DEFINE m == c.at
               l == succ[m]
    <3>4. m \in Member /\ l \in List /\ IsNext(Member, m, l[1])
      BY <1>1, <1>2, <1>4, FileTypes DEF FirstOn
    <3>5. succ'[m] = Deprecate(m, l, c.x)
      BY <1>1, <3>2 DEF SuccAfter
    <3> HIDE DEF m, l
    <3>6. succ'[m][1] = l[1]
      <4>1. Deprecate(m, l, c.x)[1] = l[1]
        BY <1>1, <3>3, <3>4, FirstStays
      <4> QED
        BY <3>5, <4>1
    <3> QED
      BY <3>4, <3>6 DEF m
  <2> QED
    BY <1>2, <2>1, <2>2, <2>3
<1>6. FirstOn(Member)'
  BY <1>3, <1>5 DEF FirstOn
<1>7. ForCrash(Member, Tail(todo))
  BY <1>1, <1>4 DEF LeftOver
<1>8. PICK d \in Node \ Member :
          AllOnTrack(Member, Member \cup {d}, Member, late, todo, request, succ, store, hand, latest)
  BY DEF Mending
<1>9. AllOnTrack(Member, Member \cup {d}, Member, late, Tail(todo), request, succ', store, hand, latest)
  <2> DEFINE R == Member \cup {d}
  <2>1. SUFFICES ASSUME NEW k \in Name \ late
                 PROVE  OnTrack(Member, Member, Hold(R, k) \cap Member, Hold(Member, k), k, Tail(todo), request,
                                succ', store, hand, latest[k])
    BY DEF AllOnTrack
  <2>2. OnTrack(Member, Member, Hold(R, k) \cap Member, Hold(Member, k), k, todo, request, succ, store, hand,
                latest[k])
    BY <1>8 DEF AllOnTrack
  <2>3. ~Concerns(Head(todo), k)
    BY <1>1, <1>2
  <2>4. ~HeldBy(request, k)
    BY <1>4 DEF Calm, HeldBy
  <2> HIDE DEF R
  <2> QED
    BY <1>1, <1>2, <2>2, <2>3, <2>4, TrackSuccs
<1> QED
  BY <1>2, <1>3, <1>4, <1>6, <1>7, <1>8, <1>9 DEF Mending, Calm

LEMMA FileChangeSuccessors ==
    ASSUME BusyInv, ListInv, FileInv, NEW n \in Node, ChangeSuccessors(n), UNCHANGED <<request, late>>
    PROVE  FileInv'
<1> DEFINE c == Head(todo)
<1>1. SuccsChange(n, c)
  BY DEF ChangeSuccessors, Calling, SuccsChange, SuccAfter
<1> HIDE DEF c
<1>2. (TakingOver \/ Mending) /\ LeftOver(todo, Tail(todo))
  BY <1>1, SuccsChangeTypes
<1>3. TakingOver' \/ Mending'
  BY <1>1, <1>2, AnnounceOne, MendOne
<1>4. Tidy(todo)'
  BY <1>1, <1>2 DEF SuccsChange, LeftOver
<1>5. Bare'
  BY <1>1 DEF SuccsChange, FileInv, Bare, NoFiles
<1> QED
  BY <1>3, <1>4, <1>5 DEF FileInv

\* All calls are made.
LEMMA TrackFinish ==
    ASSUME NEW M, NEW F \in SUBSET Node, M \subseteq F, NEW B, NEW A, NEW k, NEW r, NEW s, NEW st, NEW h, NEW v,
           OnTrack(M, F, B, A, k, <<>>, r, s, st, h, v), NEW B2
    PROVE  OnTrack(F, F, B2, A, k, <<>>, r, s, st, h, v)
<1>1. Concern(<<>>, k) = {}
  BY NothingConcerns
<1>2. CASE HeldBy(r, k)
  BY <1>2 DEF OnTrack, Held
<1>3. CASE ~HeldBy(r, k)
  <2>1. Placed(st, F, A, k, v)
    BY <1>1, <1>3, TrackDone
  <2> QED
    BY <1>1, <1>3, <2>1, TrackPlaced
<1> QED
  BY <1>2, <1>3

LEMMA ExactDone ==
    ASSUME NEW M, NEW n \in Node, NEW s, NEW p, Standing(M, n, <<>>, s, p)
    PROVE  Exact(M \cup {n}, M \cup {n}, s, p)
<1>1. \A m : ~Asking(M, n, <<>>, s, p, m)
  BY DEF Asking
<1>2. \A d : ~Looking(M, n, <<>>, s, p, d)
  BY DEF Looking
<1>3. Settling(M \cup {n}, <<>>, s, p)
  <2>1. n # None
    OBVIOUS
  <2> QED
    BY <1>1, <1>2, <2>1 DEF Standing
<1> QED
  BY <1>3, SettlingDone

LEMMA FileFinish ==
    ASSUME BusyInv, ListInv, FileInv, NEW n \in Node, Finish(n), UNCHANGED <<request, late>>
    PROVE  FileInv'
<1>1. /\ agent = n /\ agent' = None /\ todo = <<>> /\ todo' = <<>>
      /\ UNCHANGED <<succ, pred, store, hand, latest>>
      /\ status' = [status EXCEPT ![n] = "member"]
  BY DEF Finish
<1>2. TakingOver \/ Mending
  BY <1>1, AgentCases
<1>3. Member \in SUBSET Node /\ status \in [Node -> {"down", "joining", "member"}]
  BY FileTypes
<1> DEFINE T == Member \cup {n}
<1>4. Member' = T
  BY <1>1, <1>3 DEF Member
<1>5. Exact(T, T, succ, pred)
  <2>1. Standing(Member, n, <<>>, succ, pred)
    BY <1>1 DEF ListInv
  <2> QED
    BY <2>1, ExactDone
<1>6. \E R : AllOnTrack(Member, R, T, late, todo, request, succ, store, hand, latest)
  <2>1. CASE TakingOver
    BY <1>1, <2>1 DEF TakingOver
  <2>2. CASE Mending
    <3>1. T = Member
      BY <1>1, <2>2 DEF Mending
    <3> HIDE DEF T
    <3> QED
      BY <2>2, <3>1 DEF Mending
  <2> QED
    BY <1>2, <2>1, <2>2
<1>7. AllOnTrack(T, T, T, late, todo', request, succ, store, hand, latest)
  <2>1. PICK R : AllOnTrack(Member, R, T, late, todo, request, succ, store, hand, latest)
    BY <1>6
  <2>2. SUFFICES ASSUME NEW k \in Name \ late
                 PROVE  OnTrack(T, T, Hold(T, k) \cap T, Hold(T, k), k, <<>>, request, succ, store, hand, latest[k])
    BY <1>1 DEF AllOnTrack
  <2>3. OnTrack(Member, T, Hold(R, k) \cap Member, Hold(T, k), k, <<>>, request, succ, store, hand, latest[k])
    BY <1>1, <2>1 DEF AllOnTrack
  <2>4. T \in SUBSET Node /\ Member \subseteq T
    BY <1>3
  <2> HIDE DEF T
  <2> QED
    BY <2>3, <2>4, TrackFinish
<1>8. Serving'
  <2> HIDE DEF T
  <2> QED
    BY <1>1, <1>4, <1>5, <1>7 DEF Serving
<1>9. Bare'
  BY <1>1, <1>3 DEF FileInv, Bare, NoFiles
<1>10. Tidy(todo)'
  BY <1>1 DEF FileInv, Tidy, Ordered, Tangles, Paired, Call
<1> QED
  BY <1>8, <1>9, <1>10 DEF FileInv

LEMMA FileAgent ==
    ASSUME BusyInv, ListInv, FileInv, NEW n \in Node, AgentGoesOn(n)
    PROVE  FileInv'
<1>1. UNCHANGED <<request, late>>
  BY DEF AgentGoesOn
<1>2. AgentStep(n)
  BY DEF AgentGoesOn
<1>3. CASE TakeLists(n)
  BY <1>1, <1>3, FileTakeLists
<1>4. CASE FindThird(n) \/ NoThird(n)
  BY <1>1, <1>4, FileThird
<1>5. CASE ChangeSuccessors(n)
  BY <1>1, <1>5, FileChangeSuccessors
<1>6. CASE ChangePredecessors(n)
  BY <1>1, <1>6, FileChangePredecessors
<1>7. CASE ListKeys(n)
  BY <1>1, <1>7, FileListKeys
<1>8. CASE FetchFile(n)
  BY <1>1, <1>8, FileFetchFile
<1>9. CASE GetFile(n)
  BY <1>1, <1>9, FileGetFile
<1>10. CASE PutFile(n)
  BY <1>1, <1>10, FilePutFile
<1>11. CASE DropFile(n)
  BY <1>1, <1>11, FileDropFile
<1>12. CASE Finish(n)
  BY <1>1, <1>12, FileFinish
<1> QED
  BY <1>2, <1>3, <1>4, <1>5, <1>6, <1>7, <1>8, <1>9, <1>10, <1>11, <1>12 DEF AgentStep

-----------------------------------------------------------------------------
(* A client writes a file while it is moved *)

\* Copies of k are moved with the contents they have when they are fetched.
Rewrites(M, F, B, A, k, q, h, o, v) ==
    /\ Own(M, k, o) /\ B \subseteq F
    /\ \A st : Placed(st, F, B, k, v) => Stage(M, F, B, A, k, q, st, h, v)

\* k has still to be fetched, at c.at: there it is where it was.
LEMMA StageUnfetched ==
    ASSUME NEW M, NEW F, NEW B, NEW A, NEW k, NEW q, NEW st, NEW h, NEW l,
           Stage(M, F, B, A, k, q, st, h, l),
           NEW v, NEW c \in Concern(q, k), IsKeys(c) \/ (IsFetch(c) /\ v # Absent)
    PROVE  Placed(st, F, B, k, l) /\ Rewrites(M, F, B, A, k, q, h, c.at, v)
<1>1. ~LeftBehind(F, A, k, q, st, l) /\ ~Arrived(F, A, k, q, st, l)
  <2>1. ~IsDrop(c)
    BY Kinds
  <2>2. ~LeftBehind(F, A, k, q, st, l)
    BY <2>1, LeftKinds
  <2> QED
    BY <2>2 DEF Arrived
<1>2. PICK o \in B, to \in F, x \in F \cup {None} :
          /\ Route(M, F, B, A, k, o, to, x) /\ Placed(st, F, B, k, l)
          /\ Waiting(q, k, o, to, x) \/ Fetching(q, k, o, to, x) \/ Writing(q, k, to, x)
  BY <1>1 DEF Stage, OnItsWay
<1>3. ~Writing(q, k, to, x)
  BY WritingKinds, Kinds
<1>4. c.at = o
  <2>1. CASE Waiting(q, k, o, to, x)
    BY <2>1 DEF Waiting
  <2>2. CASE Fetching(q, k, o, to, x)
    BY <2>2, FetchingKinds, Kinds
  <2> QED
    BY <1>2, <1>3, <2>1, <2>2
<1>5. Waiting(q, k, o, to, x) \/ (v # Absent /\ Fetching(q, k, o, to, x))
  <2>1. CASE IsKeys(c)
    BY <1>2, <1>3, <2>1, FetchingKinds, Kinds
  <2>2. CASE IsFetch(c) /\ v # Absent
    BY <1>2, <1>3, <2>2, WaitingKinds, Kinds
  <2> QED
    BY <2>1, <2>2
<1>6. ASSUME NEW i, Placed(i, F, B, k, v) PROVE Stage(M, F, B, A, k, q, i, h, v)
  BY <1>2, <1>5, <1>6 DEF Stage, OnItsWay
<1>7. Own(M, k, o) /\ B \subseteq F
  BY <1>2 DEF Route
<1> QED
  BY <1>2, <1>4, <1>6, <1>7 DEF Rewrites

\* The copies go to n, which does not get one: k is where it belongs.
LEMMA StageNotFor ==
    ASSUME NEW M, NEW F, NEW B, NEW A, NEW k, NEW q, NEW st, NEW h, NEW l,
           Stage(M, F, B, A, k, q, st, h, l),
           NEW n, n \notin A,
           \A c \in Concern(q, k) : (IsKeys(c) => c.to = n) /\ (IsPut(c) => c.at = n)
    PROVE  Arrived(F, A, k, q, st, l) \/ LeftBehind(F, A, k, q, st, l)
<1>1. SUFFICES ASSUME OnItsWay(M, F, B, A, k, q, st, h, l) PROVE FALSE
  BY DEF Stage
<1>2. PICK o \in B, to \in F, x \in F \cup {None} :
          /\ Route(M, F, B, A, k, o, to, x)
          /\ Waiting(q, k, o, to, x) \/ Fetching(q, k, o, to, x) \/ Writing(q, k, to, x)
  BY <1>1 DEF OnItsWay
<1>3. to \in A
  BY <1>2 DEF Route
<1>4. to = n
  <2>1. CASE Waiting(q, k, o, to, x)
    <3>1. PICK c \in Concern(q, k) : c.to = to
      BY <2>1 DEF Waiting
    <3> QED
      BY <2>1, <3>1, WaitingKinds
  <2>2. CASE Fetching(q, k, o, to, x) \/ Writing(q, k, to, x)
    <3>1. PutOf(to, k) \in Concern(q, k)
      BY <2>2 DEF Fetching, Writing, Writing1
    <3> QED
      BY <3>1, PutKind
  <2> QED
    BY <1>2, <2>1, <2>2
<1> QED
  BY <1>3, <1>4

\* All those that are to have it are written.
LEMMA StageRewritten ==
    ASSUME NEW F, NEW A, NEW k, NEW q, NEW st, NEW l,
           Arrived(F, A, k, q, st, l) \/ LeftBehind(F, A, k, q, st, l),
           NEW v, NEW st2, \A m \in F : st2[m][k] = IF m \in A THEN v ELSE st[m][k],
           NEW M, NEW B, NEW h
    PROVE  Stage(M, F, B, A, k, q, st2, h, v)
<1>1. CASE Arrived(F, A, k, q, st, l)
  BY <1>1 DEF Arrived, Placed, Stage
<1>2. CASE LeftBehind(F, A, k, q, st, l)
  <2>1. PICK x \in F \ A : Concern(q, k) = DropOf(x, k) /\ Placed(st, F \ {x}, A, k, l)
    BY <1>2 DEF LeftBehind
  <2>2. Placed(st2, F \ {x}, A, k, v)
    BY <2>1 DEF Placed
  <2> QED
    BY <2>1, <2>2 DEF LeftBehind, Stage
<1> QED
  BY <1>1, <1>2

\* A file is written by its owner and those of its replicas that answer.
ClientWrites(o, i, v) ==
    /\ o \in Member /\ i \in Name /\ v \in Value \cup {Absent}
    /\ \A m \in Node, k \in Name :
          store'[m][k] = IF m \in Reached(o) /\ k = i THEN v ELSE store[m][k]
    /\ \A k \in Name : latest'[k] = IF k = i THEN v ELSE latest[k]
    /\ late' = IF InTime(o, i, v) THEN late ELSE late \cup {i}
    /\ ~HeldBy(request, i) /\ \A k : k # i => ~HeldBy(request, k) /\ ~HeldBy(request', k)
    /\ IF Holders(o) \subseteq Member
       THEN ~HeldBy(request', i) /\ request' = None
       ELSE HeldBy(request', i) /\ request'.at = o /\ request'.v = v
    /\ UNCHANGED <<status, succ, pred, agent, todo, hand>> /\ Member' = Member

LEMMA ForceCallWrites ==
    ASSUME BusyInv, ForceCall
    PROVE  request # None /\ request.do = "force" /\ ClientWrites(request.at, request.k, request.v)
<1> DEFINE o == request.at
           i == request.k
           v == request.v
<1>1. /\ request # None /\ request.do = "force" /\ o \in Member
      /\ UNCHANGED <<status, succ, pred, agent, todo, hand>>
      /\ store' = [n \in Node |-> IF n \in Reached(o) THEN [store[n] EXCEPT ![i] = v] ELSE store[n]]
      /\ latest' = [latest EXCEPT ![i] = v]
      /\ late' = IF InTime(o, i, v) THEN late ELSE late \cup {i}
      /\ IF Holders(o) \subseteq Member
         THEN request' = None
         ELSE request' = [request EXCEPT !.do = "replicate"]
  BY DEF ForceCall, WriteAt
<1>2. Member' = Member
  BY <1>1 DEF Member
<1>3. store \in [Node -> [Name -> Content]] /\ latest \in [Name -> Value \cup {Absent}]
      /\ request \in Request
  BY <1>1, FileTypes
<1>4. i \in Name /\ v \in Value \cup {Absent}
  BY <1>3 DEF Request
<1>5. \A k : ~HeldBy(request, k)
  BY <1>1 DEF HeldBy
<1>6. \A k : k # i => ~HeldBy(request', k)
  <2>1. CASE Holders(o) \subseteq Member
    BY <1>1, <2>1 DEF HeldBy
  <2>2. CASE ~(Holders(o) \subseteq Member)
    <3>1. request'.k = i
      BY <1>1, <1>3, <2>2 DEF Request
    <3> QED
      BY <3>1 DEF HeldBy
  <2> QED
    BY <2>1, <2>2
<1>7. IF Holders(o) \subseteq Member
      THEN ~HeldBy(request', i) /\ request' = None
      ELSE HeldBy(request', i) /\ request'.at = o /\ request'.v = v
  <2>1. CASE Holders(o) \subseteq Member
    BY <1>1, <2>1 DEF HeldBy
  <2>2. CASE ~(Holders(o) \subseteq Member)
    <3>1. request' \in Request /\ request'.at = o /\ request'.v = v /\ request'.k = i /\ request'.do = "replicate"
      BY <1>1, <1>3, <2>2 DEF Request
    <3>2. HeldBy(request', i)
      BY <3>1, RequestAssumption DEF HeldBy
    <3> QED
      BY <2>2, <3>1, <3>2
  <2> QED
    BY <2>1, <2>2
<1>8. \A m \in Node, k \in Name :
          store'[m][k] = IF m \in Reached(o) /\ k = i THEN v ELSE store[m][k]
  <2> DEFINE W == Reached(o)
  <2> HIDE DEF W, o, i, v
  <2>1. store' = [n \in Node |-> IF n \in W THEN [store[n] EXCEPT ![i] = v] ELSE store[n]]
    BY <1>1 DEF W
  <2>2. \A m \in Node, k \in Name : store'[m][k] = IF m \in W /\ k = i THEN v ELSE store[m][k]
    BY <1>3, <1>4, <2>1
  <2> QED
    BY <2>2 DEF W
<1>9. \A k \in Name : latest'[k] = IF k = i THEN v ELSE latest[k]
  BY <1>1, <1>3, <1>4
<1> HIDE DEF o, i, v
<1>10. ClientWrites(o, i, v)
  BY <1>1, <1>2, <1>4, <1>5, <1>6, <1>7, <1>8, <1>9 DEF ClientWrites
<1> QED
  BY <1>1, <1>10 DEF o, i, v

\* Where the others go does not change.
LEMMA WriteOthers ==
    ASSUME NEW o, NEW i, NEW v, ClientWrites(o, i, v), NEW R, NEW T \in SUBSET Node,
           AllOnTrack(Member, R, T, late, todo, request, succ, store, hand, latest),
           i \notin late' => OnTrack(Member, T, Hold(R, i) \cap Member, Hold(T, i), i, todo, request', succ,
                                     store', hand, v)
    PROVE  AllOnTrack(Member, R, T, late', todo, request', succ, store', hand, latest')
<1>1. SUFFICES ASSUME NEW k \in Name \ late'
               PROVE  OnTrack(Member, T, Hold(R, k) \cap Member, Hold(T, k), k, todo, request', succ, store',
                              hand, latest'[k])
  BY DEF AllOnTrack
<1>2. latest'[k] = IF k = i THEN v ELSE latest[k]
  BY DEF ClientWrites
<1>3. CASE k = i
  BY <1>2, <1>3
<1>4. CASE k # i
  <2>1. k \in Name \ late
    BY DEF ClientWrites
  <2>2. OnTrack(Member, T, Hold(R, k) \cap Member, Hold(T, k), k, todo, request, succ, store, hand, latest[k])
    BY <2>1 DEF AllOnTrack
  <2>3. ~HeldBy(request, k) /\ ~HeldBy(request', k)
    BY <1>4 DEF ClientWrites
  <2>4. OnTrack(Member, T, Hold(R, k) \cap Member, Hold(T, k), k, todo, request', succ, store, hand, latest[k])
    BY <2>2, <2>3, TrackRequest
  <2>5. \A m \in T : store'[m][k] = store[m][k]
    BY <1>4 DEF ClientWrites
  <2>6. latest'[k] = latest[k]
    BY <1>2, <1>4
  <2>7. OnTrack(Member, T, Hold(R, k) \cap Member, Hold(T, k), k, todo, request', succ, store', hand, latest[k])
    BY <2>4, <2>5, TrackSame
  <2> QED
    BY <2>6, <2>7
<1> QED
  BY <1>3, <1>4

\* All holders are members: they have the file then.
LEMMA WriteHolders ==
    ASSUME NEW o, NEW i, NEW v, ClientWrites(o, i, v), Holders(o) \subseteq Member
    PROVE  /\ request' = None /\ ~HeldBy(request', i)
           /\ \A m \in Node : store'[m][i] = IF m \in Holders(o) THEN v ELSE store[m][i]
           /\ \A F \in SUBSET Node : \A l : Placed(store, F, Holders(o), i, l) => Placed(store', F, Holders(o), i, v)
<1>1. o \in Member /\ i \in Name
  BY DEF ClientWrites
<1>2. Reached(o) = Holders(o)
  BY <1>1, ReachedWhole
<1>3. \A m \in Node : store'[m][i] = IF m \in Holders(o) THEN v ELSE store[m][i]
  BY <1>1, <1>2 DEF ClientWrites
<1>4. ASSUME NEW F \in SUBSET Node, NEW l, Placed(store, F, Holders(o), i, l)
      PROVE  Placed(store', F, Holders(o), i, v)
  BY <1>3, <1>4 DEF Placed
<1> QED
  BY <1>3, <1>4 DEF ClientWrites

LEMMA WriteBare ==
    ASSUME FileInv, BusyInv, NEW o, NEW i, NEW v, ClientWrites(o, i, v), store' \in [Node -> [Name -> Content]]
    PROVE  Bare' /\ Tidy(todo)'
<1>1. Bare'
  <2>1. ASSUME NEW n \in Node, status'[n] = "down" PROVE store'[n] = NoFiles
    <3>1. store[n] = NoFiles /\ n \notin Member
      BY <2>1 DEF FileInv, Bare, Member, ClientWrites
    <3>2. n \notin Reached(o)
      BY <3>1, ReachedWhole DEF ClientWrites
    <3>3. \A k \in Name : store'[n][k] = Absent
      BY <3>1, <3>2 DEF ClientWrites, NoFiles
    <3> QED
      BY <3>3 DEF NoFiles
  <2> QED
    BY <2>1 DEF Bare, NoFiles
<1>2. Tidy(todo)'
  BY DEF ClientWrites, FileInv, Tidy, Ordered, Tangles, Paired, Call
<1> QED
  BY <1>1, <1>2

\* Nobody joins.
LEMMA WriteServing ==
    ASSUME BusyInv, ListInv, Serving, NEW o, NEW i, NEW v, ClientWrites(o, i, v)
    PROVE  Serving'
<1>1. agent = None /\ todo = <<>> /\ Exact(Member, Member, succ, pred)
      /\ AllOnTrack(Member, Member, Member, late, todo, request, succ, store, hand, latest)
  BY DEF Serving, ListInv, OneAgent
<1>2. Member \in SUBSET Node /\ o \in Member /\ i \in Name
  BY FileTypes DEF ClientWrites
<1>3. ASSUME i \notin late'
      PROVE  OnTrack(Member, Member, Hold(Member, i) \cap Member, Hold(Member, i), i, todo, request', succ,
                     store', hand, v)
  <2>1. InTime(o, i, v) /\ i \notin late
    BY <1>3 DEF ClientWrites
  <2>2. ~FetchToCome(o, i, v)
    BY <1>1 DEF FetchToCome
  <2>3. Holders(o) = Hold(Member, i)
    <3>1. Member \cup ({agent} \ {None}) = Member
      BY <1>1
    <3>2. Holders(o) = Ref!ExactHolders(Member \cup ({agent} \ {None}), Hash[i])
      BY <2>1, <2>2 DEF InTime
    <3> QED
      BY <3>1, <3>2 DEF Hold
  <2>4. Holders(o) \subseteq Member
    <3>1. Member # {}
      BY <1>2
    <3> QED
      BY <1>2, <2>3, <3>1, HoldIn
  <2>5. Placed(store, Member, Hold(Member, i), i, latest[i])
    <3>1. OnTrack(Member, Member, Hold(Member, i) \cap Member, Hold(Member, i), i, todo, request, succ, store,
                  hand, latest[i])
      BY <1>1, <1>2, <2>1 DEF AllOnTrack
    <3>2. Concern(todo, i) = {} /\ ~HeldBy(request, i)
      BY <1>1, NothingConcerns DEF ClientWrites
    <3> QED
      BY <1>2, <3>1, <3>2, TrackDone
  <2>6. Placed(store', Member, Hold(Member, i), i, v) /\ ~HeldBy(request', i)
    BY <1>2, <2>3, <2>4, <2>5, WriteHolders
  <2>7. Concern(todo, i) = {}
    BY <1>1, NothingConcerns
  <2> QED
    BY <2>6, <2>7, TrackPlaced
<1>4. AllOnTrack(Member, Member, Member, late', todo, request', succ, store', hand, latest')
  BY <1>1, <1>2, <1>3, WriteOthers
<1> QED
  BY <1>1, <1>4 DEF Serving, ClientWrites

\* The newcomer has not yet asked for its lists.
LEMMA WriteArriving ==
    ASSUME BusyInv, ListInv, Arriving, NEW o, NEW i, NEW v, ClientWrites(o, i, v), Own(Member, i, o)
    PROVE  Arriving'
<1>1. PICK m \in Node : Asking(Member, agent, todo, succ, pred, m)
  BY DEF Arriving
<1>2. /\ agent # None /\ agent \in Node \ Member /\ late = {} /\ Exact(Member, Member, succ, pred)
      /\ todo = <<[do |-> "lists", at |-> m]>>
      /\ AllPlaced(Member \cup {agent}, Member, store, latest)
  BY <1>1 DEF Arriving, Asking
<1>3. Member \in SUBSET Node /\ o \in Member /\ i \in Name
  BY FileTypes DEF ClientWrites
<1>4. late' = {}
  <2>1. 1 \in DOMAIN todo /\ todo[1].do = "lists"
    BY <1>2
  <2>2. FetchToCome(o, i, v)
    BY <2>1 DEF FetchToCome
  <2> QED
    BY <1>2, <2>2 DEF ClientWrites, InTime
<1>5. Holders(o) = Hold(Member, i) /\ Holders(o) \subseteq Member
  <2>1. IsSuccs(Member, o, succ[o])
    BY <1>2, <1>3 DEF Exact
  <2>2. Member # {}
    BY <1>3
  <2> QED
    <3>1. Holders(o) = Hold(Member, i)
      BY <1>3, <2>1, HoldersAre
    <3>2. Hold(Member, i) \subseteq Member
      BY <1>3, <2>2, HoldIn
    <3> QED
      BY <3>1, <3>2
<1>6. AllPlaced(Member \cup {agent}, Member, store', latest')
  <2> DEFINE F == Member \cup {agent}
  <2>1. F \in SUBSET Node
    BY <1>2, <1>3
  <2> HIDE DEF F
  <2>2. ASSUME NEW k \in Name PROVE Placed(store', F, Hold(Member, k), k, latest'[k])
    <3>1. Placed(store, F, Hold(Member, k), k, latest[k])
      BY <1>2 DEF AllPlaced, F
    <3>2. CASE k = i
      <4>1. latest'[k] = v
        BY <3>2 DEF ClientWrites
      <4>2. Placed(store', F, Hold(Member, i), i, v)
        BY <1>5, <2>1, <3>1, <3>2, WriteHolders
      <4> QED
        BY <3>2, <4>1, <4>2
    <3>3. CASE k # i
      <4>1. latest'[k] = latest[k] /\ \A j \in F : store'[j][k] = store[j][k]
        BY <2>1, <3>3 DEF ClientWrites
      <4> QED
        BY <3>1, <4>1 DEF Placed
    <3> QED
      BY <3>2, <3>3
  <2> QED
    BY <2>2 DEF AllPlaced, F
<1>7. request' = None
  BY <1>5, WriteHolders
<1>8. Asking(Member, agent, todo, succ, pred, m)'
  BY <1>1 DEF Asking, Exact, IsSuccs, IsPreds, Follow, Precede, IsNext, ClientWrites
<1> QED
  BY <1>2, <1>4, <1>6, <1>7, <1>8 DEF Arriving, ClientWrites

\* What a newcomer n that takes over its files has still to do for k.
LEMMA TakesOver ==
    ASSUME NEW n, NEW q, ForNewcomer(n, q), NEW k
    PROVE  /\ \A c \in Concern(q, k) : (IsKeys(c) => c.to = n) /\ (IsPut(c) => c.at = n)
           /\ \A c \in Concern(q, k) : Moving(c) /\ c \in Calls(q)
<1>1. \A c \in Concern(q, k) : Moving(c) /\ c \in Calls(q)
  BY NotMoving DEF Concern
<1>2. \A c \in Concern(q, k) : (IsKeys(c) => c.to = n) /\ (IsPut(c) => c.at = n)
  BY <1>1 DEF ForNewcomer, IsKeys, IsPut
<1> QED
  BY <1>1, <1>2

\* The newcomer will fetch the file that is written.
LEMMA ToComeConcern ==
    ASSUME BusyInv, NEW o, NEW k, NEW v, FetchToCome(o, k, v), Settled(todo)
    PROVE  \E c \in Concern(todo, k) : c.at = o /\ (IsKeys(c) \/ (IsFetch(c) /\ v # Absent))
<1>1. PICK i \in DOMAIN todo :
          \/ todo[i].do = "lists"
          \/ /\ todo[i].do = "keys" /\ todo[i].at = o
             /\ IsInBetweenModular(Hash[k], todo[i].a, todo[i].b)
          \/ /\ todo[i].do = "force get" /\ todo[i].at = o /\ todo[i].k = k
             /\ v # Absent
  BY DEF FetchToCome
<1> DEFINE c == todo[i]
<1>2. c \in Calls(todo)
  <2>1. todo \in Seq(Call)
    BY FileTypes
  <2>2. i \in 1 .. Len(todo)
    BY <2>1, LenProperties
  <2> QED
    BY <2>2 DEF Calls
<1>3. c.do # "lists"
  BY <1>2 DEF Settled
<1> HIDE DEF c
<1>4. \/ c.do = "keys" /\ c.at = o /\ IsInBetweenModular(Hash[k], c.a, c.b)
      \/ c.do = "force get" /\ c.at = o /\ c.k = k /\ v # Absent
  BY <1>1, <1>3 DEF c
<1>5. CASE c.do = "keys" /\ c.at = o /\ IsInBetweenModular(Hash[k], c.a, c.b)
  <2>1. c \in Concern(todo, k)
    BY <1>2, <1>5 DEF Concern, Concerns
  <2>2. IsKeys(c)
    BY <1>5, OpKinds
  <2> QED
    BY <1>5, <2>1, <2>2
<1>6. CASE c.do = "force get" /\ c.at = o /\ c.k = k /\ v # Absent
  <2>1. c \in Concern(todo, k)
    BY <1>2, <1>6 DEF Concern, Concerns
  <2>2. c.do \in {"get", "force get"}
    BY <1>6
  <2>3. IsFetch(c)
    BY <2>2, OpKinds
  <2> QED
    BY <1>6, <2>1, <2>3
<1> QED
  BY <1>4, <1>5, <1>6

\* What a write finds while a newcomer takes over.
Taking(M, T) ==
    /\ T = M \cup {agent} /\ agent \in Node \ M /\ M \in SUBSET Node /\ T \in SUBSET Node
    /\ M = Member /\ M # {}
    /\ ForNewcomer(agent, todo) /\ HalfTold(M, T, todo, succ)
    /\ AllOnTrack(M, M, T, late, todo, request, succ, store, hand, latest)

\* The write is in time: the newcomer fetches the file later.
LEMMA WriteBefore ==
    ASSUME BusyInv, NEW o, NEW i, NEW v, ClientWrites(o, i, v), NEW M, NEW T, Taking(M, T),
           i \notin late, FetchToCome(o, i, v)
    PROVE  OnTrack(M, T, Hold(M, i) \cap M, Hold(T, i), i, todo, request', succ, store', hand, v)
<1>1. o \in M /\ i \in Name /\ M \in SUBSET Node /\ T \in SUBSET Node /\ M # {}
      /\ M = Member /\ ForNewcomer(agent, todo) /\ HalfTold(M, T, todo, succ) /\ ~HeldBy(request, i)
  BY DEF ClientWrites, Taking
<1>2. PICK c \in Concern(todo, i) : c.at = o /\ (IsKeys(c) \/ (IsFetch(c) /\ v # Absent))
  BY <1>1, ToComeConcern DEF ForNewcomer
<1> DEFINE B == Hold(M, i) \cap M
           A == Hold(T, i)
<1>3. Stage(M, T, B, A, i, todo, store, hand, latest[i])
  BY <1>1 DEF Taking, AllOnTrack, OnTrack
<1>4. B = Hold(M, i) /\ B \subseteq M
  BY <1>1, HoldCap
<1> HIDE DEF A, B
<1>5. Placed(store, T, B, i, latest[i]) /\ Rewrites(M, T, B, A, i, todo, hand, o, v)
  <2>1. IsKeys(c) \/ (IsFetch(c) /\ v # Absent)
    BY <1>2
  <2>2. Placed(store, T, B, i, latest[i]) /\ Rewrites(M, T, B, A, i, todo, hand, c.at, v)
    BY <1>3, <2>1, StageUnfetched
  <2> QED
    BY <1>2, <2>2
<1>6. Own(M, i, o)
  BY <1>5 DEF Rewrites
<1>7. IsSuccs(M, o, succ[o])
  <2>1. \E d \in Calls(todo) : Moving(d)
    BY <1>1, <1>2, TakesOver
  <2> QED
    BY <1>1, <2>1 DEF HalfTold
<1>8. Holders(o) = B
  BY <1>1, <1>4, <1>6, <1>7, HoldersAre
<1>9. Placed(store', T, B, i, v) /\ ~HeldBy(request', i)
  BY <1>1, <1>4, <1>5, <1>8, WriteHolders
<1>10. Stage(M, T, B, A, i, todo, store', hand, v)
  BY <1>5, <1>9 DEF Rewrites
<1>11. OnTrack(M, T, B, A, i, todo, request', succ, store', hand, v)
  BY <1>9, <1>10, StageTrack
<1> QED
  BY <1>11 DEF A, B

\* The owner writes to those that are to hold the file, and they are all there.
LEMMA WriteAfter ==
    ASSUME BusyInv, NEW o, NEW i, NEW v, ClientWrites(o, i, v), NEW M, NEW T, Taking(M, T),
           i \notin late, Holders(o) = Hold(T, i), Holders(o) \subseteq M
    PROVE  OnTrack(M, T, Hold(M, i) \cap M, Hold(T, i), i, todo, request', succ, store', hand, v)
<1>1. o \in M /\ i \in Name /\ M \in SUBSET Node /\ T \in SUBSET Node /\ agent \notin M
      /\ M = Member /\ ForNewcomer(agent, todo) /\ ~HeldBy(request, i)
  BY DEF ClientWrites, Taking
<1> DEFINE B == Hold(M, i) \cap M
           A == Hold(T, i)
<1>3. Stage(M, T, B, A, i, todo, store, hand, latest[i])
  BY <1>1 DEF Taking, AllOnTrack, OnTrack
<1> HIDE DEF A, B
<1>4. agent \notin A
  BY <1>1 DEF A
<1>5. Arrived(T, A, i, todo, store, latest[i]) \/ LeftBehind(T, A, i, todo, store, latest[i])
  BY <1>1, <1>3, <1>4, TakesOver, StageNotFor
<1>6. \A m \in T : store'[m][i] = IF m \in A THEN v ELSE store[m][i]
  BY <1>1, WriteHolders DEF A
<1>7. ~HeldBy(request', i)
  BY <1>1, WriteHolders
<1>8. Stage(M, T, B, A, i, todo, store', hand, v)
  BY <1>5, <1>6, StageRewritten
<1>9. OnTrack(M, T, B, A, i, todo, request', succ, store', hand, v)
  BY <1>7, <1>8, StageTrack
<1> QED
  BY <1>9 DEF A, B

\* What the owner o holds, from its list of successors on the ring T.
LEMMA OwnHolders ==
    ASSUME NEW T \in SUBSET Node, NEW o \in T, IsSuccs(T, o, succ[o])
    PROVE  Holders(o) = {o, succ[o][1], succ[o][2]} /\ Holders(o) \subseteq T
<1>1. succ[o][1] = o => succ[o][2] = o
  BY DEF IsSuccs, Follow
<1>2. succ[o][1] \in T /\ succ[o][2] \in T
  BY DEF IsSuccs, Follow, IsNext
<1>3. Holders(o) = {o, succ[o][1], succ[o][2]}
  BY <1>1, HoldersThree
<1> QED
  BY <1>2, <1>3

\* The newcomer is to hold the file: its owner waits for it, knowing its place.
LEMMA WriteHeldUp ==
    ASSUME BusyInv, NEW o, NEW i, NEW v, ClientWrites(o, i, v), NEW M, NEW T, Taking(M, T),
           i \notin late, Holders(o) = Hold(T, i), ~(Holders(o) \subseteq M)
    PROVE  OnTrack(M, T, Hold(M, i) \cap M, Hold(T, i), i, todo, request', succ, store', hand, v)
<1>1. /\ o \in M /\ i \in Name /\ M \in SUBSET Node /\ T \in SUBSET Node /\ M \subseteq T
      /\ M = Member /\ ForNewcomer(agent, todo) /\ HalfTold(M, T, todo, succ) /\ ~HeldBy(request, i)
      /\ HeldBy(request', i) /\ request'.at = o /\ request'.v = v
  BY DEF ClientWrites, Taking
<1> DEFINE B == Hold(M, i) \cap M
           A == Hold(T, i)
<1>2. Stage(M, T, B, A, i, todo, store, hand, latest[i])
  BY <1>1 DEF Taking, AllOnTrack, OnTrack
<1> HIDE DEF A, B
<1>3. ~IsSuccs(M, o, succ[o])
  BY <1>1, OwnHolders
<1>4. IsSuccs(T, o, succ[o])
  BY <1>1, <1>3 DEF HalfTold
<1>5. {o, succ[o][1], succ[o][2]} = A
  <2>1. o \in T
    BY <1>1
  <2> QED
    BY <1>1, <1>4, <2>1, OwnHolders DEF A
<1>6. Concern(todo, i) = {}
  <2>1. ~(\E c \in Calls(todo) : Moving(c))
    BY <1>1, <1>3 DEF HalfTold
  <2> QED
    BY <1>1, <2>1, TakesOver
<1>7. Placed(store, T, A, i, latest[i])
  BY <1>1, <1>2, <1>6, StageDone
<1>8. \A m \in T \ A : store'[m][i] = Absent
  <2>1. Reached(o) \subseteq A
    BY <1>1, ReachedWhole DEF A
  <2>2. \A m \in T \ A : store'[m][i] = store[m][i]
    BY <1>1, <2>1 DEF ClientWrites
  <2> QED
    BY <1>7, <2>2 DEF Placed
<1>9. Held(T, M, A, i, todo, request', succ, store', v)
  <2> DEFINE r == request'
  <2>1. r.at = o /\ r.v = v
    BY <1>1
  <2> HIDE DEF r
  <2>2. Held(T, M, A, i, todo, r, succ, store', v)
    BY <1>1, <1>4, <1>5, <1>6, <1>8, <2>1 DEF Held
  <2> QED
    BY <2>2 DEF r
<1>10. OnTrack(M, T, B, A, i, todo, request', succ, store', hand, v)
  BY <1>1, <1>9 DEF OnTrack
<1> QED
  BY <1>10 DEF A, B

\* A newcomer takes over its files.
LEMMA WriteTaking ==
    ASSUME BusyInv, ListInv, TakingOver, NEW o, NEW i, NEW v, ClientWrites(o, i, v)
    PROVE  TakingOver'
<1> DEFINE M == Member
           T == Member \cup {agent}
<1>1. Taking(M, T) /\ agent # None
  <2>1. Member # {} /\ Member \in SUBSET Node
    BY FileTypes DEF ClientWrites
  <2> QED
    BY <2>1 DEF Taking, TakingOver
<1> HIDE DEF M, T
<1>2. ASSUME i \notin late'
      PROVE  OnTrack(M, T, Hold(M, i) \cap M, Hold(T, i), i, todo, request', succ, store', hand, v)
  <2>1. InTime(o, i, v) /\ i \notin late
    BY <1>2 DEF ClientWrites
  <2>2. CASE FetchToCome(o, i, v)
    BY <1>1, <2>1, <2>2, WriteBefore
  <2>3. CASE Holders(o) = Hold(T, i)
    BY <1>1, <2>1, <2>3, WriteAfter, WriteHeldUp
  <2>4. Member \cup ({agent} \ {None}) = T
    BY <1>1 DEF T
  <2>5. FetchToCome(o, i, v) \/ Holders(o) = Hold(T, i)
    BY <2>1, <2>4 DEF InTime, Hold
  <2> QED
    BY <2>2, <2>3, <2>5
<1>3. AllOnTrack(M, M, T, late, todo, request, succ, store, hand, latest) /\ T \in SUBSET Node /\ M = Member
  BY <1>1 DEF Taking
<1>4. AllOnTrack(M, M, T, late', todo, request', succ, store', hand, latest')
  BY <1>2, <1>3, WriteOthers
<1> QED
  BY <1>4 DEF TakingOver, ClientWrites, M, T

LEMMA FileForceCall ==
    ASSUME BusyInv, ListInv, FileInv, ForceCall
    PROVE  FileInv'
<1>1. PICK o, i, v : /\ o = request.at /\ i = request.k /\ ClientWrites(o, i, v)
                     /\ request # None /\ request.do = "force"
  BY ForceCallWrites
<1>2. store' \in [Node -> [Name -> Content]]
  BY ClientTypes DEF TypeInv, TypeOK
<1>3. Bare' /\ Tidy(todo)'
  BY <1>1, <1>2, WriteBare
<1>4. Serving \/ Arriving \/ TakingOver
  BY <1>1 DEF FileInv, Bereft, Noticing, Mending, Calm
<1>5. CASE Serving
  BY <1>1, <1>3, <1>5, WriteServing DEF FileInv
<1>6. CASE Arriving
  <2>1. Own(Member, i, o)
    BY <1>1, <1>6 DEF Arriving
  <2>2. Arriving'
    BY <1>1, <1>6, <2>1, WriteArriving
  <2> QED
    BY <1>3, <2>2 DEF FileInv
<1>7. CASE TakingOver
  BY <1>1, <1>3, <1>7, WriteTaking DEF FileInv
<1> QED
  BY <1>4, <1>5, <1>6, <1>7

\* The owner writes to all that are to hold the file k: it is held up no longer.
LEMMA HeldWritten ==
    ASSUME BusyInv, NEW M \in SUBSET Node, M = Member, NEW T \in SUBSET Node, M \subseteq T, NEW B, NEW A,
           NEW k \in Name, NEW l, OnTrack(M, T, B, A, k, todo, request, succ, store, hand, l),
           HeldBy(request, k), Holders(request.at) \subseteq M,
           \A m \in Node : store'[m][k] = IF m \in Holders(request.at) THEN request.v ELSE store[m][k]
    PROVE  OnTrack(M, T, B, A, k, todo, None, succ, store', hand, l)
<1> DEFINE o == request.at
<1>1. /\ Concern(todo, k) = {} /\ o \in M /\ request.v = l /\ IsSuccs(T, o, succ[o])
      /\ {o, succ[o][1], succ[o][2]} = A /\ \A m \in T \ A : store[m][k] = Absent
  BY DEF OnTrack, Held
<1>2. \A m \in Node : store'[m][k] = IF m \in Holders(o) THEN l ELSE store[m][k]
  BY <1>1
<1> HIDE DEF o
<1>3. Holders(o) = A
  <2>1. o \in T
    BY <1>1
  <2> QED
    BY <1>1, <2>1, OwnHolders
<1>4. Placed(store', T, A, k, l)
  BY <1>1, <1>2, <1>3 DEF Placed
<1>5. ~HeldBy(None, k)
  BY DEF HeldBy
<1> QED
  BY <1>1, <1>4, <1>5, TrackPlaced

LEMMA FileReplicate ==
    ASSUME BusyInv, ListInv, FileInv, Replicate
    PROVE  FileInv'
<1> DEFINE o == request.at
           i == request.k
           v == request.v
<1>1. /\ request # None /\ request.do = "replicate" /\ Holders(o) \subseteq Member
      /\ UNCHANGED <<status, succ, pred, agent, todo, hand, latest, late>>
      /\ store' = [n \in Node |-> IF n \in Holders(o) THEN [store[n] EXCEPT ![i] = v] ELSE store[n]]
      /\ request' = None
  BY DEF Replicate, WriteAt
<1>2. Member' = Member
  BY <1>1 DEF Member
<1>3. store \in [Node -> [Name -> Content]] /\ request \in Request /\ Member \in SUBSET Node
  BY <1>1, FileTypes
<1>4. i \in Name
  BY <1>3 DEF Request
<1>5. \A m \in Node, k \in Name : store'[m][k] = IF m \in Holders(o) /\ k = i THEN v ELSE store[m][k]
  <2> DEFINE W == Holders(o)
  <2> HIDE DEF W, o, i, v
  <2>1. store' = [n \in Node |-> IF n \in W THEN [store[n] EXCEPT ![i] = v] ELSE store[n]]
    BY <1>1 DEF W
  <2>2. \A m \in Node, k \in Name : store'[m][k] = IF m \in W /\ k = i THEN v ELSE store[m][k]
    BY <1>3, <1>4, <2>1
  <2> QED
    BY <2>2 DEF W
<1>6. \A m \in Node : m \notin Member => store'[m] = store[m]
  BY <1>1, <1>3
<1>7. (\A k : k # i => ~HeldBy(request, k)) /\ (\A k : ~HeldBy(None, k)) /\ HeldBy(request, i)
  BY <1>1 DEF HeldBy
<1> HIDE DEF i
<1>8. ASSUME NEW R, NEW T \in SUBSET Node, Member \subseteq T,
             AllOnTrack(Member, R, T, late, todo, request, succ, store, hand, latest)
      PROVE  AllOnTrack(Member, R, T, late, todo, None, succ, store', hand, latest)
  <2>1. SUFFICES ASSUME NEW k \in Name \ late
                 PROVE  OnTrack(Member, T, Hold(R, k) \cap Member, Hold(T, k), k, todo, None, succ, store', hand,
                                latest[k])
    BY DEF AllOnTrack
  <2>2. OnTrack(Member, T, Hold(R, k) \cap Member, Hold(T, k), k, todo, request, succ, store, hand, latest[k])
    BY <1>8 DEF AllOnTrack
  <2>3. CASE k = i
    <3>1. HeldBy(request, k)
      BY <1>7, <2>3
    <3>2. \A m \in Node : store'[m][k] = IF m \in Holders(request.at) THEN request.v ELSE store[m][k]
      BY <1>5, <2>3
    <3>3. Member \in SUBSET Node /\ Holders(request.at) \subseteq Member
      BY <1>1, <1>3
    <3> QED
      BY <1>8, <2>2, <3>1, <3>2, <3>3, HeldWritten
  <2>4. CASE k # i
    <3>1. OnTrack(Member, T, Hold(R, k) \cap Member, Hold(T, k), k, todo, None, succ, store, hand, latest[k])
      BY <1>7, <2>2, <2>4, TrackRequest
    <3>2. \A m \in T : store'[m][k] = store[m][k]
      BY <1>5, <1>8, <2>4
    <3> QED
      BY <3>1, <3>2, TrackSame
  <2> QED
    BY <2>3, <2>4
<1>9. Serving \/ TakingOver
  BY <1>1 DEF FileInv, Bereft, Noticing, Mending, Calm, Arriving
<1>10. ASSUME Serving PROVE Serving'
  <2>1. AllOnTrack(Member, Member, Member, late, todo, None, succ, store', hand, latest)
    BY <1>3, <1>8, <1>10 DEF Serving
  <2> QED
    BY <1>1, <1>2, <1>10, <2>1 DEF Serving
<1>11. ASSUME TakingOver PROVE TakingOver'
  <2> DEFINE T == Member \cup {agent}
  <2>1. T \in SUBSET Node /\ Member \subseteq T
    BY <1>3, <1>11 DEF TakingOver
  <2>2. AllOnTrack(Member, Member, T, late, todo, request, succ, store, hand, latest)
    BY <1>11 DEF TakingOver
  <2> HIDE DEF T
  <2>3. AllOnTrack(Member, Member, T, late, todo, None, succ, store', hand, latest)
    BY <1>8, <2>1, <2>2
  <2> QED
    BY <1>1, <1>2, <1>11, <2>3 DEF TakingOver, T
<1>12. Bare'
  BY <1>1, <1>6 DEF FileInv, Bare, Member, NoFiles
<1>13. Tidy(todo)'
  BY <1>1 DEF FileInv, Tidy, Ordered, Tangles, Paired, Call
<1> QED
  BY <1>9, <1>10, <1>11, <1>12, <1>13 DEF FileInv

-----------------------------------------------------------------------------
(* All steps *)

LEMMA FileStarts == BusyInit => FileInv
<1>1. SUFFICES ASSUME BusyInit PROVE FileInv
  OBVIOUS
<1>2. BusyInv /\ ListInv
  BY <1>1, BusyInit1
<1>3. /\ status = [n \in Node |-> IF n = Founder THEN "member" ELSE "down"]
      /\ succ = [n \in Node |-> Alone(n)] /\ pred = [n \in Node |-> Alone(n)]
      /\ store = [n \in Node |-> NoFiles] /\ agent = None /\ todo = <<>> /\ latest = NoFiles
      /\ request = None /\ late = {}
  BY <1>1 DEF BusyInit, Init
<1>4. Exact(Member, Member, succ, pred)
  <2>1. Member = {Founder}
    BY <1>3 DEF Member
  <2>2. \A i \in 1 .. ListLen : succ[Founder][i] = Founder /\ pred[Founder][i] = Founder
    BY <1>3 DEF Alone
  <2>3. Gone = {}
    BY <1>3, <2>1, <2>2 DEF Gone
  <2> QED
    BY <1>2, <1>3, <2>3, QuietExact DEF BusyInv, Quiet
<1>5. ASSUME NEW k \in Name
      PROVE  OnTrack(Member, Member, Hold(Member, k) \cap Member, Hold(Member, k), k, todo, request, succ, store,
                     hand, latest[k])
  <2>1. \A m \in Member : store[m][k] = Absent
    BY <1>3 DEF NoFiles, Member
  <2>2. latest[k] = Absent
    BY <1>3 DEF NoFiles
  <2>3. Placed(store, Member, Hold(Member, k), k, latest[k])
    BY <2>1, <2>2 DEF Placed
  <2>4. Concern(todo, k) = {} /\ ~HeldBy(request, k)
    BY <1>3, NothingConcerns DEF HeldBy
  <2> QED
    BY <2>3, <2>4, TrackPlaced
<1>6. Serving
  BY <1>3, <1>4, <1>5 DEF Serving, AllOnTrack
<1>7. Bare
  BY <1>3 DEF Bare
<1>8. Tidy(todo)
  <2>1. todo \in Seq(Call) /\ Len(todo) = 0
    BY <1>3
  <2> QED
    BY <2>1 DEF Tidy, Ordered, Paired
<1> QED
  BY <1>6, <1>7, <1>8 DEF FileInv

\* A step of a client, of a node that comes or goes, or of the agent keeps FileInv.
LEMMA FileKept ==
    ASSUME QuietEnough, BusyInv, ListInv, FileInv, [BusyNext]_busyVars
    PROVE  FileInv'
<1>1. CASE \E e \in Node, k \in Name, v \in Value \cup {Absent} : Idle /\ Write(e, k, v)
  BY <1>1, FileWrite
<1>2. CASE \E n \in Node : Idle /\ Crash(n)
  BY <1>2, FileCrash
<1>3. CASE \E n, e \in Node : Idle /\ StartJoin(n, e)
  BY <1>3, FileStartJoin
<1>4. CASE Detect
  BY <1>4, FileDetect DEF Detect
<1>5. CASE \E n \in Node : AgentGoesOn(n)
  BY <1>5, FileAgent
<1>6. CASE \E e \in Node : \E w \in Wanted : Ask(e, w[1], w[2])
  BY <1>6, FileAsk
<1>7. CASE ClientStep
  BY <1>7, FileFindGoesOn, FileForceCall, FileReplicate DEF ClientStep
<1>8. CASE UNCHANGED busyVars
  BY <1>8, FileStays
<1> QED
  BY <1>1, <1>2, <1>3, <1>4, <1>5, <1>6, <1>7, <1>8 DEF BusyNext

LEMMA FileSafe ==
    ASSUME QuietEnough
    PROVE  BusySpec => [](BusyInv /\ ListInv /\ FileInv)
<1>1. BusyInit => BusyInv /\ ListInv /\ FileInv
  BY BusyInit1, FileStarts
<1>2. BusyInv /\ ListInv /\ FileInv /\ [BusyNext]_busyVars => (BusyInv /\ ListInv /\ FileInv)'
  BY BusyStep, BusyListStep, FileKept
<1> QED
  BY <1>1, <1>2, PTL DEF BusySpec

LEMMA FilesPlaced ==
    ASSUME BusyInv, ListInv, FileInv
    PROVE  Placement
<1>1. SUFFICES ASSUME Quiet, NEW n \in Member, NEW k \in Name \ late, ~HeldUp(k)
               PROVE  store[n][k] = IF n \in Ref!ExactHolders(Member, Hash[k]) THEN latest[k] ELSE Absent
  BY DEF Placement
<1>2. Placed(store, Member, Hold(Member, k), k, latest[k])
  BY <1>1, QuietServing, ServingPlaced DEF ServedFiles
<1> QED
  BY <1>2 DEF Placed, Hold

\* In a ring of any size, after any joins, crashes and repairs, with clients
\* that write in the middle of joins: every file is where it belongs, and
\* nowhere else, whenever nobody is at work.
THEOREM FilesWhereTheyBelong ==
    ASSUME QuietEnough PROVE BusySpec => []Placement
<1>1. BusyInv /\ ListInv /\ FileInv => Placement
  BY FilesPlaced
<1> QED
  BY <1>1, FileSafe, PTL

-----------------------------------------------------------------------------
(* What lookups find in the middle of it all *)

\* The owner of a file has it as long as it is on its way, if it is to hold it.
LEMMA OwnerHas ==
    ASSUME NEW M \in SUBSET Node, NEW F, NEW B, NEW A, NEW k \in Name, NEW q, NEW st, NEW h, NEW v,
           Stage(M, F, B, A, k, q, st, h, v), NEW o \in F, Own(M, k, o), o \in A
    PROVE  st[o][k] = v
<1>1. CASE Arrived(F, A, k, q, st, v)
  BY <1>1 DEF Arrived, Placed
<1>2. CASE LeftBehind(F, A, k, q, st, v)
  <2>1. PICK x \in F \ A : Placed(st, F \ {x}, A, k, v)
    BY <1>2 DEF LeftBehind
  <2> QED
    BY <2>1 DEF Placed
<1>3. CASE OnItsWay(M, F, B, A, k, q, st, h, v)
  <2>1. PICK i \in B : Own(M, k, i) /\ Placed(st, F, B, k, v)
    BY <1>3 DEF OnItsWay, Route
  <2>2. i = o
    <3>1. M \in SUBSET Int /\ Hash[k] - 1 \in Int
      BY KeyDistances
    <3> QED
      BY <2>1, <3>1, NextUnique DEF Own
  <2> QED
    BY <2>1, <2>2 DEF Placed
<1> QED
  BY <1>1, <1>2, <1>3 DEF Stage

\* The node o a lookup of k has named has k.
Hits(k, o) == o \in Member /\ k \notin late /\ ~HeldUp(k) => store[o][k] = latest[k]

\* Where a lookup ends on the ring S, whose owners of files have them.
RightOn(S) == S \in SUBSET Node /\ FirstOn(S) /\ \A k \in Name : \A o : Own(S, k, o) => Hits(k, o)

LEMMA LookupRight ==
    ASSUME BusyInv, NEW S, RightOn(S), NEW n \in Member, NEW k \in Name,
           NEW p, p = PredecessorOf(n, Hash[k]), p \in Member
    PROVE  IAmPredecessorOfKey(p, succ[p][1], Hash[k]) /\ Hits(k, succ[p][1])
<1>1. succ \in [Node -> List]
  BY FileTypes
<1>2. Ends(S, k, p)
  BY <1>1, LookupEnds DEF RightOn
<1> QED
  BY <1>2 DEF Ends, RightOn

LEMMA RightServing ==
    ASSUME BusyInv, ListInv, Serving
    PROVE  RightOn(Member)
<1>1. FirstOn(Member) /\ Member \in SUBSET Node
  BY ExactFirst, FileTypes DEF Serving
<1>2. ServedFiles
  BY ServingPlaced DEF Serving, ListInv, OneAgent
<1>3. ASSUME NEW k \in Name, NEW o, Own(Member, k, o) PROVE Hits(k, o)
  <2>1. o \in Member /\ Member # {}
    BY <1>3 DEF Own, IsNext
  <2>2. o \in Hold(Member, k)
    BY <1>1, <1>3, <2>1, HoldIn
  <2> QED
    BY <1>2, <2>2 DEF ServedFiles, Placed, Hits
<1> QED
  BY <1>1, <1>3 DEF RightOn

LEMMA RightBereft ==
    ASSUME BusyInv, NEW d \in Node, Broken(Member, succ, pred, d),
           AllPlaced(Member, Member \cup {d}, store, latest)
    PROVE  RightOn(Member \cup {d})
<1> DEFINE S == Member \cup {d}
<1>1. S \in SUBSET Node /\ Member \subseteq S /\ S # {}
  BY FileTypes
<1>2. FirstOn(S)
  BY DEF Broken, Exact, IsSuccs, Follow, FirstOn
<1>3. AllPlaced(Member, S, store, latest)
  OBVIOUS
<1> HIDE DEF S
<1>4. ASSUME NEW k \in Name, NEW o, Own(S, k, o) PROVE Hits(k, o)
  <2>1. o \in Hold(S, k)
    BY <1>1, <1>4, HoldIn
  <2> QED
    BY <1>3, <2>1 DEF AllPlaced, Placed, Hits
<1>5. RightOn(S)
  BY <1>1, <1>2, <1>4 DEF RightOn
<1> QED
  BY <1>5 DEF S

LEMMA RightArriving ==
    ASSUME BusyInv, Arriving
    PROVE  RightOn(Member)
<1>1. Exact(Member, Member, succ, pred) /\ AllPlaced(Member \cup {agent}, Member, store, latest)
  BY DEF Arriving, Asking
<1>2. FirstOn(Member) /\ Member \in SUBSET Node
  BY <1>1, ExactFirst, FileTypes
<1>3. ASSUME NEW k \in Name, NEW o, Own(Member, k, o) PROVE Hits(k, o)
  <2>1. o \in Member /\ Member # {}
    BY <1>3 DEF Own, IsNext
  <2>2. o \in Hold(Member, k)
    BY <1>2, <1>3, <2>1, HoldIn
  <2> QED
    BY <1>1, <2>1, <2>2 DEF AllPlaced, Placed, Hits
<1> QED
  BY <1>2, <1>3 DEF RightOn

LEMMA RightNoticing ==
    ASSUME BusyInv, NEW d \in Node, Looking(Member, agent, todo, succ, pred, d),
           AllPlaced(Member, Member \cup {d}, store, latest)
    PROVE  RightOn(Member)
<1>1. Member \in SUBSET Node
  BY FileTypes
<1>2. FirstOn(Member)
  <2>1. /\ agent \in Member /\ d \in Node \ Member /\ IsNext(Member \cup {d}, agent, d)
        /\ \A m \in Member \ {agent} : IsNext(Member \cup {d}, m, succ[m][1])
        /\ IsNext(Member, agent, succ[agent][1])
    BY DEF Looking, IsSuccs, Follow
  <2>2. ASSUME NEW m \in Member \ {agent} PROVE IsNext(Member, m, succ[m][1])
    <3> DEFINE R == Member \cup {d}
    <3>1. R \in SUBSET Int /\ m \in R /\ agent \in R /\ d \in Int /\ IsNext(R, agent, d)
          /\ Member \in SUBSET Int /\ m \in Int
      BY <1>1, <2>1
    <3>2. IsNext(R, m, succ[m][1])
      BY <2>1
    <3> HIDE DEF R
    <3>3. succ[m][1] # d
      BY <3>1, <3>2, PrevUnique
    <3> QED
      BY <3>1, <3>2, <3>3, NextWithout DEF R
  <2> QED
    BY <2>1, <2>2 DEF FirstOn
<1>3. ASSUME NEW k \in Name, NEW o, Own(Member, k, o) PROVE Hits(k, o)
  <2>1. o \in Hold(Member \cup {d}, k)
    BY <1>1, <1>3, OwnStays
  <2> QED
    BY <2>1 DEF AllPlaced, Placed, Hits
<1> QED
  BY <1>1, <1>2, <1>3 DEF RightOn

LEMMA RightMending ==
    ASSUME BusyInv, Mending
    PROVE  RightOn(Member)
<1>1. Member \in SUBSET Node /\ FirstOn(Member) /\ Calm
  BY FileTypes DEF Mending
<1>2. PICK d \in Node \ Member :
          AllOnTrack(Member, Member \cup {d}, Member, late, todo, request, succ, store, hand, latest)
  BY DEF Mending
<1> DEFINE R == Member \cup {d}
<1>3. ASSUME NEW k \in Name, NEW o, Own(Member, k, o) PROVE Hits(k, o)
  <2>1. o \in Member /\ Member # {}
    BY <1>3 DEF Own, IsNext
  <2>2. o \in Hold(Member, k)
    BY <1>1, <1>3, <2>1, HoldIn
  <2>3. ~HeldBy(request, k) /\ k \notin late
    BY <1>1 DEF Calm, HeldBy
  <2>4. Stage(Member, Member, Hold(R, k) \cap Member, Hold(Member, k), k, todo, store, hand, latest[k])
    BY <1>2, <2>3 DEF AllOnTrack, OnTrack
  <2> HIDE DEF R
  <2>5. store[o][k] = latest[k]
    BY <1>1, <1>3, <2>1, <2>2, <2>4, OwnerHas
  <2> QED
    BY <2>5 DEF Hits
<1> QED
  BY <1>1, <1>3 DEF RightOn

\* A newcomer takes over its files: nobody is led to it before they are all there.
LEMMA RightTaking ==
    ASSUME BusyInv, TakingOver
    PROVE  RightOn(Member) \/ RightOn(Member \cup {agent})
<1> DEFINE T == Member \cup {agent}
<1>1. /\ Member \in SUBSET Node /\ agent \in Node \ Member /\ T \in SUBSET Node /\ Member \subseteq T
      /\ Member \in SUBSET Int /\ agent \in Int /\ T \in SUBSET Int
      /\ HalfTold(Member, T, todo, succ) /\ ForNewcomer(agent, todo)
      /\ AllOnTrack(Member, Member, T, late, todo, request, succ, store, hand, latest)
  <2>1. Member \in SUBSET Node
    BY FileTypes
  <2> QED
    BY <2>1 DEF TakingOver
<1>2. \A m \in Member : IsNext(Member, m, succ[m][1]) \/ IsNext(T, m, succ[m][1])
  BY <1>1 DEF HalfTold, IsSuccs, Follow
<1>3. CASE \E m \in Member : succ[m][1] = agent
  <2>1. PICK m \in Member : succ[m][1] = agent
    BY <1>3
  <2>2. ~IsNext(Member, m, succ[m][1])
    BY <1>1, <2>1 DEF IsNext
  <2>3. IsNext(T, m, agent)
    BY <1>2, <2>1, <2>2
  <2>4. ASSUME NEW i \in Member PROVE IsNext(T, i, succ[i][1])
    <3>1. CASE IsNext(T, i, succ[i][1])
      BY <3>1
    <3>2. CASE i = m
      BY <2>1, <2>3, <3>2
    <3>3. CASE i # m /\ IsNext(Member, i, succ[i][1])
      <4> DEFINE x == succ[i][1]
      <4>1. x \in Member /\ IsNext(Member, i, x)
        BY <3>3 DEF IsNext
      <4> HIDE DEF x
      <4>2. IsNext(T, i, x)
        BY <1>1, <2>3, <3>3, <4>1, NextWith
      <4> QED
        BY <4>2 DEF x
    <3> QED
      BY <1>2, <3>1, <3>2, <3>3
  <2>5. FirstOn(T)
    BY <1>1, <2>4 DEF FirstOn
  <2>6. ~(\E c \in Calls(todo) : Moving(c))
    BY <1>1, <2>1, <2>2 DEF HalfTold, IsSuccs, Follow
  <2>7. ASSUME NEW k \in Name, NEW o, Own(T, k, o) PROVE Hits(k, o)
    <3>1. SUFFICES ASSUME o \in Member, k \notin late, ~HeldUp(k) PROVE store[o][k] = latest[k]
      BY DEF Hits
    <3>2. OnTrack(Member, T, Hold(Member, k) \cap Member, Hold(T, k), k, todo, request, succ, store, hand, latest[k])
      BY <1>1, <3>1 DEF AllOnTrack
    <3>3. Concern(todo, k) = {}
      BY <1>1, <2>6, TakesOver
    <3>4. ~HeldBy(request, k)
      BY <3>1 DEF HeldBy, HeldUp
    <3> HIDE DEF T
    <3>5. Placed(store, T, Hold(T, k), k, latest[k])
      BY <1>1, <3>2, <3>3, <3>4, TrackDone
    <3>6. o \in Hold(T, k) /\ o \in T
      <4>1. T # {}
        BY <1>1, <3>1
      <4> QED
        BY <1>1, <2>7, <3>1, <4>1, HoldIn
    <3> QED
      BY <3>5, <3>6 DEF Placed
  <2> HIDE DEF T
  <2>8. RightOn(T)
    BY <1>1, <2>5, <2>7 DEF RightOn
  <2> QED
    BY <2>8 DEF T
<1>4. CASE \A m \in Member : succ[m][1] # agent
  <2>1. ASSUME NEW i \in Member PROVE IsNext(Member, i, succ[i][1])
    <3>1. CASE IsNext(Member, i, succ[i][1])
      BY <3>1
    <3>2. CASE IsNext(T, i, succ[i][1])
      <4>1. succ[i][1] # agent /\ i \in Int
        BY <1>1, <1>4
      <4> QED
        BY <1>1, <3>2, <4>1, NextWithout
    <3> QED
      BY <1>2, <3>1, <3>2
  <2>2. FirstOn(Member)
    BY <2>1 DEF FirstOn
  <2>3. ASSUME NEW k \in Name, NEW o, Own(Member, k, o) PROVE Hits(k, o)
    <3>1. SUFFICES ASSUME o \in Member, k \notin late, ~HeldUp(k) PROVE store[o][k] = latest[k]
      BY DEF Hits
    <3>2. OnTrack(Member, T, Hold(Member, k) \cap Member, Hold(T, k), k, todo, request, succ, store, hand, latest[k])
      BY <1>1, <3>1 DEF AllOnTrack
    <3>3. ~HeldBy(request, k)
      BY <3>1 DEF HeldBy, HeldUp
    <3>4. Stage(Member, T, Hold(Member, k) \cap Member, Hold(T, k), k, todo, store, hand, latest[k])
      BY <3>2, <3>3 DEF OnTrack
    <3>5. o \in Hold(T, k) /\ o \in T
      BY <1>1, <2>3, <3>1, OwnStays
    <3> HIDE DEF T
    <3> QED
      BY <1>1, <2>3, <3>4, <3>5, OwnerHas
  <2>4. RightOn(Member)
    BY <1>1, <2>2, <2>3 DEF RightOn
  <2> QED
    BY <2>4
<1> QED
  BY <1>3, <1>4

LEMMA NothingMissed ==
    ASSUME BusyInv, ListInv, FileInv
    PROVE  NoFalseMiss
<1>1. \E S : RightOn(S)
  <2>1. CASE Serving
    BY <2>1, RightServing
  <2>2. CASE Bereft
    BY <2>2, RightBereft DEF Bereft
  <2>3. CASE Arriving
    BY <2>3, RightArriving
  <2>4. CASE Noticing
    BY <2>4, RightNoticing DEF Noticing
  <2>5. CASE TakingOver
    BY <2>5, RightTaking
  <2>6. CASE Mending
    BY <2>6, RightMending
  <2> QED
    BY <2>1, <2>2, <2>3, <2>4, <2>5, <2>6 DEF FileInv
<1>2. PICK S : RightOn(S)
  BY <1>1
<1>3. ASSUME NEW n \in Member, NEW k \in Name, PredecessorOf(n, Hash[k]) \in Member
      PROVE  /\ IAmPredecessorOfKey(PredecessorOf(n, Hash[k]), succ[PredecessorOf(n, Hash[k])][1], Hash[k])
             /\ Hits(k, succ[PredecessorOf(n, Hash[k])][1])
  <2> DEFINE p == PredecessorOf(n, Hash[k])
  <2>1. p \in Member
    BY <1>3
  <2> HIDE DEF p
  <2>2. p = PredecessorOf(n, Hash[k]) => IAmPredecessorOfKey(p, succ[p][1], Hash[k]) /\ Hits(k, succ[p][1])
    BY <1>2, <2>1, LookupRight
  <2> QED
    BY <2>2 DEF p
<1> QED
  BY <1>3, Zenon DEF NoFalseMiss, Hits

\* In a ring of any size, in the middle of joins and repairs as well, a lookup
\* ends, and the node it names, if it is reachable, has what was written last:
\* rpc_find_succesor misses nothing while join_dht and handle_succesors_down move files.
THEOREM LookupsMissNothing ==
    ASSUME QuietEnough PROVE BusySpec => []NoFalseMiss
<1>1. BusyInv /\ ListInv /\ FileInv => NoFalseMiss
  BY NothingMissed
<1> QED
  BY <1>1, FileSafe, PTL

-----------------------------------------------------------------------------
(* Copies while a node joins *)

\* A file has three holders, or all there are.
LEMMA HoldEnough ==
    ASSUME NEW R \in SUBSET Node, R # {}, NEW k \in Name
    PROVE  IsFiniteSet(Hold(R, k)) /\ (R \subseteq Hold(R, k) \/ Cardinality(Hold(R, k)) = 3)
<1>1. PICK o, x, y \in R : Trio(R, Hash[k], o, x, y)
  BY TrioExists
<1>2. Hold(R, k) = {o, x, y}
  <2>1. AreHolders(R, k, o, x, y)
    BY <1>1, HoldIs, Zenon
  <2> QED
    BY <2>1 DEF AreHolders
<1>3. IsNext(R, o, x) /\ IF x = o THEN y = o ELSE IsNext(R, x, y)
  BY <1>1 DEF Trio
<1>4. R \in SUBSET Int
  OBVIOUS
<1>5. CASE x = o
  BY <1>2, <1>3, <1>4, <1>5, NextAlone, FS_Singleton
<1>6. CASE x # o /\ y = x
  BY <1>3, <1>4, <1>6, NextAlone
<1>7. CASE x # o /\ y = o
  <2>1. R \subseteq {o, x}
    BY <1>3, <1>4, <1>7, NextPair
  <2>2. Hold(R, k) = {o, x}
    BY <1>2, <1>7
  <2> QED
    BY <1>7, <2>1, <2>2, CountTwo
<1>8. CASE x # o /\ y # x /\ y # o
  <2>1. o # x /\ x # y /\ o # y
    BY <1>8
  <2>2. IsFiniteSet({o, x, y}) /\ Cardinality({o, x, y}) = 3
    BY <2>1, CountThree, Zenon
  <2> QED
    BY <1>2, <2>2
<1> QED
  BY <1>5, <1>6, <1>7, <1>8

\* The nodes of F that have the file k as it was written last.
Good(F, k) == {m \in F : store[m][k] = latest[k]}

\* Where R has its copies there are enough.
LEMMA GoodEnough ==
    ASSUME NEW F \in SUBSET Node, NEW R \in SUBSET Node, R # {}, Member \subseteq R, NEW k \in Name,
           Hold(R, k) \subseteq Good(F, k)
    PROVE  Cardinality(Good(F, k)) >= ListLen \/ Member \subseteq Good(F, k)
<1> DEFINE C == Hold(R, k)
           G == Good(F, k)
<1>1. G \in SUBSET Node
  BY DEF Good
<1>2. IsFiniteSet(G)
  BY <1>1, FS_Subset
<1>3. C \subseteq G /\ (R \subseteq C \/ Cardinality(C) = 3)
  BY HoldEnough
<1> HIDE DEF C, G
<1>4. Cardinality(C) <= Cardinality(G) /\ Cardinality(G) \in Nat
  BY <1>2, <1>3, FS_Subset, FS_CardinalityType
<1>5. Cardinality(G) >= ListLen \/ Member \subseteq G
  BY <1>3, <1>4
<1> QED
  BY <1>5 DEF G

LEMMA CopiesKept ==
    ASSUME BusyInv, ListInv, FileInv
    PROVE  JoinKeepsCopies
<1>1. SUFFICES ASSUME NEW j \in Node, status[j] = "joining", NEW k \in Name \ late, latest[k] # Absent, ~HeldUp(k)
               PROVE  Cardinality(Good(Member \cup {j}, k)) >= ListLen \/ Member \subseteq Good(Member \cup {j}, k)
  BY Zenon DEF JoinKeepsCopies, Good
<1> DEFINE T == Member \cup {j}
<1>2. agent = j /\ j \notin Member /\ Member \in SUBSET Node /\ T \in SUBSET Node /\ T # {} /\ Member \subseteq T
  BY <1>1, FileTypes DEF ListInv, OneAgent
<1>3. Arriving \/ TakingOver
  <2>1. agent # None
    BY <1>2
  <2>2. ~Serving /\ ~Bereft
    BY <2>1 DEF Serving, Bereft
  <2>3. ~Noticing /\ ~Mending
    BY <1>2 DEF Noticing, Looking, Mending
  <2> QED
    BY <2>2, <2>3 DEF FileInv
<1>4. SUFFICES ASSUME Member # {}
               PROVE  Cardinality(Good(T, k)) >= ListLen \/ Member \subseteq Good(T, k)
  OBVIOUS
<1>5. \E R \in {Member, T} : Hold(R, k) \subseteq Good(T, k)
  <2>1. CASE Arriving
    <3>1. Placed(store, T, Hold(Member, k), k, latest[k])
      BY <1>2, <2>1 DEF Arriving, AllPlaced
    <3>2. Hold(Member, k) \subseteq T
      BY <1>2, <1>4, HoldIn
    <3> QED
      BY <3>1, <3>2 DEF Placed, Good
  <2>2. CASE TakingOver
    <3>1. OnTrack(Member, T, Hold(Member, k) \cap Member, Hold(T, k), k, todo, request, succ, store, hand, latest[k])
      BY <1>2, <2>2 DEF TakingOver, AllOnTrack
    <3>2. ~HeldBy(request, k)
      BY <1>1 DEF HeldBy, HeldUp
    <3> DEFINE B == Hold(Member, k) \cap Member
               A == Hold(T, k)
    <3>3. Stage(Member, T, B, A, k, todo, store, hand, latest[k])
      BY <3>1, <3>2 DEF OnTrack
    <3>4. B = Hold(Member, k) /\ B \subseteq T /\ A \subseteq T
      BY <1>2, <1>4, HoldCap, HoldIn
    <3> HIDE DEF T, A, B
    <3>5. CASE Arrived(T, A, k, todo, store, latest[k])
      <4>1. A \subseteq Good(T, k)
        BY <3>4, <3>5 DEF Arrived, Placed, Good
      <4> QED
        BY <4>1 DEF A
    <3>6. CASE LeftBehind(T, A, k, todo, store, latest[k])
      <4>1. PICK x \in T \ A : Placed(store, T \ {x}, A, k, latest[k])
        BY <3>6 DEF LeftBehind
      <4>2. A \subseteq Good(T, k)
        BY <3>4, <4>1 DEF Placed, Good
      <4> QED
        BY <4>2 DEF A
    <3>7. CASE OnItsWay(Member, T, B, A, k, todo, store, hand, latest[k])
      <4>1. Placed(store, T, B, k, latest[k])
        BY <3>7 DEF OnItsWay
      <4>2. B \subseteq Good(T, k)
        BY <3>4, <4>1 DEF Placed, Good
      <4> QED
        BY <3>4, <4>2
    <3> QED
      BY <3>3, <3>5, <3>6, <3>7 DEF Stage
  <2> QED
    BY <1>3, <2>1, <2>2
<1> QED
  BY <1>2, <1>4, <1>5, GoodEnough

\* In a ring of any size a join never leaves a file with fewer good copies than
\* a settled ring has: join_dht writes a copy before it deletes one.
THEOREM JoinsKeepCopies ==
    ASSUME QuietEnough PROVE BusySpec => []JoinKeepsCopies
<1>1. BusyInv /\ ListInv /\ FileInv => JoinKeepsCopies
  BY CopiesKept
<1> QED
  BY <1>1, FileSafe, PTL
=============================================================================
