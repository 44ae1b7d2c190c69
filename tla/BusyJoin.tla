------------------------------ MODULE BusyJoin -------------------------------
(***************************************************************************)
(* ChordMembership with clients that do not wait until a join is over.     *)
(*                                                                         *)
(* A request of a client is a lookup and, some time later, a FORCE call to *)
(* the node the lookup named.  A loop that calls the newcomer, which opens *)
(* its command port only when it has joined, waits for it and serves       *)
(* nobody, and so do the loops that wait for that loop.                    *)
(*                                                                         *)
(* One request is under way at a time; the lookup of a get is that of a    *)
(* write.  What a write does at its owner and at the replicas that answer  *)
(* is one step: nobody reads a replica, and the newcomer copies from       *)
(* owners, whose loops are busy until the replicas are written.            *)
(***************************************************************************)
EXTENDS ChordMembership

CONSTANTS Newcomer,   \* bound: the nodes whose joins clients do not wait for
          Wanted      \* bound: the writes they make then, pairs of a name and contents

ASSUME LoadAssumption ==
    /\ Newcomer \subseteq Node
    /\ Wanted \subseteq Name \X (Value \cup {Absent})

Request == [do : {"find", "force", "replicate"}, at : Node, k : Name,
            v : Value \cup {Absent}]

ASSUME RequestAssumption == None \notin Request

VARIABLES request,  \* the client's request, or None
          blocked,  \* the nodes whose loops wait for the newcomer
          late      \* history: files whose last write the newcomer has missed

busyVars == <<vars, request, blocked, late>>

BusyInit ==
    /\ Init
    /\ request = None /\ blocked = {} /\ late = {}

-----------------------------------------------------------------------------
(* Requests *)

Joining == agent # None /\ status[agent] = "joining"

\* The loops that hold a lookup of h made at e until the last of them is answered.
Path(e, h) == {Walk(e, h)[i] : i \in 0 .. Cardinality(Node)} \cap Member

\* The lookup of h continues at m: it is answered, or meets the closed port.
FindAt(m, k, v) ==
    LET p == PredecessorOf(m, Hash[k])
    IN  IF p \in Member
        THEN /\ request' = [do |-> "force", at |-> SuccessorOf(m, Hash[k]), k |-> k, v |-> v]
             /\ blocked' = {}
        ELSE /\ request' = [do |-> "find", at |-> p, k |-> k, v |-> v]
             /\ blocked' = Path(m, Hash[k])

\* Bound: nothing is asked for after a write that came too late.
Ask(e, k, v) ==
    /\ Joining /\ agent \in Newcomer
    /\ request = None /\ late = {}
    /\ e \in Member
    /\ FindAt(e, k, v)
    /\ UNCHANGED <<vars, late>>

\* Mutant: connect is repeated although it came through.
FindTriedAgain ==
    /\ request # None /\ request.do = "find"
    /\ request.at \in Member
    /\ UNCHANGED busyVars

\* The newcomer has opened its port, and takes the lookup.
FindGoesOn ==
    /\ request # None /\ request.do = "find"
    /\ request.at \in Member
    /\ FindAt(request.at, request.k, request.v)
    /\ UNCHANGED <<vars, late>>

\* The nodes the replication loop of o comes to before one that does not answer.
Reached(o) ==
    {o} \cup {succ[o][i] : i \in {j \in 1 .. Level : \A h \in 1 .. j :
                                      succ[o][h] # o /\ succ[o][h] \in Member}}

WriteAt(ns, k, v) ==
    store' = [n \in Node |-> IF n \in ns THEN [store[n] EXCEPT ![k] = v] ELSE store[n]]

\* The newcomer has still to fetch k from o: as a file whose name it knows, or
\* after a list of names it has not yet asked for.
FetchToCome(o, k, v) ==
    \E i \in DOMAIN todo :
        \/ todo[i].do = "lists"
        \/ /\ todo[i].do = "keys" /\ todo[i].at = o
           /\ IsInBetweenModular(Hash[k], todo[i].a, todo[i].b)
        \/ /\ todo[i].do = "force get" /\ todo[i].at = o /\ todo[i].k = k
           /\ v # Absent

\* A write by o of k is in time for a join that is under way: the newcomer will
\* fetch it, or o writes to those that hold the file when the join is over.
InTime(o, k, v) ==
    \/ FetchToCome(o, k, v)
    \/ Holders(o) = Ref!ExactHolders(Member \cup ({agent} \ {None}), Hash[k])

\* The owner takes the FORCE call, and waits if a replica is to go to the newcomer.
ForceCall ==
    /\ request # None /\ request.do = "force"
    /\ request.at \in Member
    /\ LET o == request.at
           k == request.k
           v == request.v
       IN  /\ WriteAt(Reached(o), k, v)
           /\ latest' = [latest EXCEPT ![k] = v]
           /\ late' = IF InTime(o, k, v) THEN late ELSE late \cup {k}
           /\ IF Holders(o) \subseteq Member
              THEN request' = None /\ blocked' = {}
              ELSE request' = [request EXCEPT !.do = "replicate"] /\ blocked' = {o}
    /\ UNCHANGED <<status, succ, pred, agent, todo, hand>>

\* The newcomer has opened its port: the loop of the owner goes on.
Replicate ==
    /\ request # None /\ request.do = "replicate"
    /\ Holders(request.at) \subseteq Member
    /\ WriteAt(Holders(request.at), request.k, request.v)
    /\ request' = None /\ blocked' = {}
    /\ UNCHANGED <<status, succ, pred, agent, todo, hand, latest, late>>

ClientStep == FindGoesOn \/ ForceCall \/ Replicate

-----------------------------------------------------------------------------

\* A quiet network, but for the request.
Idle == request = None /\ late = {} /\ UNCHANGED <<request, blocked, late>>

\* A loop that waits for the newcomer does not serve it.
Served == todo # <<>> => Head(todo).at \notin blocked

AgentGoesOn(n) == Served /\ AgentStep(n) /\ UNCHANGED <<request, blocked, late>>

Detect == \E n \in Node : DetectDown(n) /\ UNCHANGED <<request, blocked, late>>

BusyNext ==
    \/ \E e \in Node, k \in Name, v \in Value \cup {Absent} : Idle /\ Write(e, k, v)
    \/ \E n \in Node : Idle /\ Crash(n)
    \/ \E n, e \in Node : Idle /\ StartJoin(n, e)
    \/ Detect
    \/ \E n \in Node : AgentGoesOn(n)
    \/ \E e \in Node : \E w \in Wanted : Ask(e, w[1], w[2])
    \/ ClientStep

BusySpec == BusyInit /\ [][BusyNext]_busyVars

\* As in ChordMembership: there is one agent.  A request goes on when it can.
BusyFairness ==
    /\ WF_busyVars(Detect)
    /\ WF_busyVars(\E n \in Node : AgentGoesOn(n))
    /\ WF_busyVars(ClientStep)

FairBusySpec == BusySpec /\ BusyFairness

-----------------------------------------------------------------------------
(* Properties *)

BusyTypeOK ==
    /\ TypeOK
    /\ request \in Request \cup {None}
    /\ blocked \subseteq Member
    /\ late \subseteq Name

\* The replication of k is under way.
HeldUp(k) == request # None /\ request.do = "replicate" /\ request.k = k

(***************************************************************************)
(* When no reconfiguration is under way every file is, with its latest     *)
(* contents, on its owner and the two nodes after it and nowhere else,     *)
(* unless it was written too late for a join: the copies a join or a       *)
(* repair makes are as many as those it deletes, and a write in the        *)
(* middle of a join finds its way to all of them.                          *)
(***************************************************************************)
Placement ==
    Quiet =>
        \A n \in Member, k \in Name \ late :
            ~HeldUp(k) =>
                store[n][k] = IF n \in Ref!ExactHolders(Member, Hash[k])
                              THEN latest[k] ELSE Absent

(***************************************************************************)
(* Whenever a lookup is made, in the middle of a join or of a repair too,  *)
(* it does not go round in circles, and if the node it names is reachable  *)
(* then that node has the latest contents of the file.  A reconfiguration  *)
(* never makes a file unavailable or stale, but for a write that is not    *)
(* finished, and one that the newcomer has missed because it had fetched   *)
(* the file before.                                                        *)
(***************************************************************************)
NoFalseMiss ==
    \A n \in Member, k \in Name :
        LET p == PredecessorOf(n, Hash[k])
            o == succ[p][1]
        IN  p \in Member =>
                /\ IAmPredecessorOfKey(p, o, Hash[k])
                /\ o \in Member /\ k \notin late /\ ~HeldUp(k) => store[o][k] = latest[k]

(***************************************************************************)
(* A join moves copies, it never thins them out: at each of its steps a    *)
(* file has as many good copies as before, the one of the new node         *)
(* included, unless it is being written or was written too late.           *)
(***************************************************************************)
JoinKeepsCopies ==
    \A j \in Node : status[j] = "joining" =>
        \A k \in Name \ late : latest[k] # Absent /\ ~HeldUp(k) =>
            LET copies == {n \in Member \cup {j} : store[n][k] = latest[k]}
            IN  \/ Cardinality(copies) >= ListLen
                \/ Member \subseteq copies

(***************************************************************************)
(* The newcomer calls a loop that waits for the newcomer: neither goes on, *)
(* and the join never ends.                                                *)
(***************************************************************************)
Entangled == todo # <<>> /\ Head(todo).at \in blocked

(***************************************************************************)
(* "Enter the network, and set right predecessors and successors": a join  *)
(* that has begun ends, unless a request made in its last part entangles   *)
(* it with the node it calls next.                                         *)
(***************************************************************************)
JoinsEnd == Joining ~> ~Joining \/ Entangled

(***************************************************************************)
(* A request made while a node joins is answered in the end, with the same *)
(* exception: loops that wait for the newcomer go on when it has joined.   *)
(***************************************************************************)
RequestsEnd == request # None ~> request = None \/ Entangled
=============================================================================
