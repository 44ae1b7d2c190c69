-------------------------- MODULE ChordMembership ---------------------------
(***************************************************************************)
(* How the nodes of one DHT keep their neighbour lists and their files     *)
(* while nodes join (join_dht) and crash (handle_succesors_down).          *)
(*                                                                         *)
(* Both procedures are long sequences of synchronous calls that one node,  *)
(* the agent, makes to the execution loops of the others.  Each call is a  *)
(* step here, so that every list and every file can be seen half changed.  *)
(* Like the code ("kind of assumes the network is quiet") the module has   *)
(* one agent at a time, and clients that write between reconfigurations    *)
(* (in BusyJoin they do not wait).  CrashLimit and EarlyRejoin loosen what *)
(* "quiet" means.                                                          *)
(*                                                                         *)
(* The calls the agent has still to make are the sequence todo.  A call to *)
(* a node whose command port is closed is repeated for ever by             *)
(* connect_to_sever_by_ip: it is a step that is never enabled.             *)
(***************************************************************************)
EXTENDS ChordLists, FiniteSets

Seqs == INSTANCE SequencesExt

CONSTANTS Node,         \* the machines, each named by its node_key
          Founder,      \* the node started with "Y"
          Name,         \* file names, the keys of the DHT
          Value,        \* file contents
          Hash,         \* hash_string, a function on Name
          CrashSizes,   \* sizes of the ring at which a node may crash
          CrashLimit,   \* crashed nodes that may be in the lists at once
          EarlyRejoin,  \* may a node be started while lists hold crashed nodes
          Modulus,      \* of the reference ring, larger than any distance of keys
          Absent,       \* no such file
          Empty,        \* the file written from the answer to a get that missed
          None          \* no agent, no file in hand

ASSUME NodeAssumption ==
    /\ Node \subseteq Int /\ IsFiniteSet(Node)
    /\ Founder \in Node
    /\ None \notin Node

ASSUME FileAssumption ==
    /\ IsFiniteSet(Name)
    /\ Hash \in [Name -> Int]
    /\ Absent \notin Value /\ Empty \notin Value

ASSUME ModulusAssumption ==
    /\ Modulus \in Nat \ {0}
    /\ LET keys == Node \cup {Hash[k] : k \in Name}
       IN  \A m, n \in keys : m - n < Modulus

\* handle_succesors_down names the slots 0, 1 and 2 of the lists one by one.
ASSUME ThreeSlots == Level = 2

ASSUME QuietAssumption ==
    /\ CrashSizes \subseteq Nat \ {0, 1}
    /\ CrashLimit \in Nat \ {0}
    /\ EarlyRejoin \in BOOLEAN

VARIABLES status,   \* "down", "joining" (command port closed) or "member"
          succ,     \* successors_key (and successors_ip) of each node
          pred,     \* predecessors_key (and predecessors_ip) of each node
          store,    \* the files in main_folder_name of each node
          agent,    \* the node that runs join_dht or handle_succesors_down
          todo,     \* the calls it has still to make
          hand,     \* the contents of the file it has fetched
          latest    \* what clients wrote last (history)

vars == <<status, succ, pred, store, agent, todo, hand, latest>>

Member == {n \in Node : status[n] = "member"}

Content == Value \cup {Absent, Empty}

NoFiles == [k \in Name |-> Absent]

\* The default lists: the node itself in every slot.
Alone(n) == [i \in 1 .. ListLen |-> n]

Init ==
    /\ status = [n \in Node |-> IF n = Founder THEN "member" ELSE "down"]
    /\ succ = [n \in Node |-> Alone(n)]
    /\ pred = [n \in Node |-> Alone(n)]
    /\ store = [n \in Node |-> NoFiles]
    /\ agent = None
    /\ todo = <<>>
    /\ hand = None
    /\ latest = NoFiles

-----------------------------------------------------------------------------
(* Lookups: CMD_FIND_PREDECESSOR, forwarded from node to node *)

\* The node asked after i forwards of a lookup of h that starts at n.
Walk(n, h) ==
    LET forward == [m \in Node |->
                       IF m \notin Member \/ IAmPredecessorOfKey(m, succ[m][1], h)
                       THEN m ELSE succ[m][1]]
        asked[i \in 0 .. Cardinality(Node)] == IF i = 0 THEN n ELSE forward[asked[i - 1]]
    IN  asked

\* rpc_find_predecessor and rpc_find_succesor.
PredecessorOf(n, h) == Walk(n, h)[Cardinality(Node)]

SuccessorOf(n, h) == succ[PredecessorOf(n, h)][1]

\* The lookup is answered: it neither meets a closed port nor goes round.
Answered(n, h) ==
    LET p == PredecessorOf(n, h)
    IN  p \in Member /\ IAmPredecessorOfKey(p, succ[p][1], h)

-----------------------------------------------------------------------------
(* The calls of the two procedures *)

When(condition, calls) == IF condition THEN calls ELSE <<>>

InsertInSuccessors(at, x) == <<[do |-> "insert succesor", at |-> at, x |-> x]>>
InsertInPredecessors(at, x) == <<[do |-> "insert predecessor", at |-> at, x |-> x]>>
DeprecateInSuccessors(at, x) == <<[do |-> "deprecate succesor", at |-> at, x |-> x]>>
DeprecateInPredecessors(at, x) == <<[do |-> "deprecate predecessor", at |-> at, x |-> x]>>

\* rpc_get_keys_in_range(at, a, b), then for each key: its file is fetched from
\* at (by rpc_get through a lookup, or by _rpc_force_get), written at to, and
\* deleted at drop.
MoveFiles(at, a, b, by, to, drop) ==
    <<[do |-> "keys", at |-> at, a |-> a, b |-> b, by |-> by, to |-> to, drop |-> drop]>>

Fetch(at, k, by) == <<[do |-> by, at |-> at, k |-> k]>>
Put(at, k) == <<[do |-> "put", at |-> at, k |-> k]>>
Drop(at, k) == <<[do |-> "drop", at |-> at, k |-> k]>>

\* Mutant: the last replica is deleted before the file has been copied.
MoveFileDropFirst(c, k) ==
    When(c.drop # None, Drop(c.drop, k)) \o Fetch(c.at, k, c.by) \o Put(c.to, k)

\* Mutant: the last replica is deleted without asking whether there is one.
MoveFileDropAlways(c, k) ==
    Fetch(c.at, k, c.by) \o Put(c.to, k) \o Drop(c.drop, k)

\* Mutant: the last replica is not deleted.
MoveFileNoDrop(c, k) == Fetch(c.at, k, c.by) \o Put(c.to, k)

\* The calls for one key of c = MoveFiles(...).
MoveFile(c, k) ==
    Fetch(c.at, k, c.by) \o Put(c.to, k) \o When(c.drop # None, Drop(c.drop, k))

\* The files of n whose hash is on the arc (a, b].
KeysInRange(n, a, b) ==
    {k \in Name : store[n][k] # Absent /\ IsInBetweenModular(Hash[k], a, b)}

\* join_dht of node n once its lists are s and p: the files of its own arc, the
\* files of the arcs it replicates, the announcement to its neighbours.
JoinCalls(n, s, p) ==
    LET last == s[ListLen]
        own  == MoveFiles(s[1], p[1], n, "force get", n, IF last # n THEN last ELSE None)
        extra(i) == IF last # n /\ s[ListLen - i] # p[i] THEN s[ListLen - i] ELSE None
        replicas(i) == MoveFiles(p[i], p[i + 1], p[i], "force get", n, extra(i))
        announce(i) == When(p[i] # n, InsertInSuccessors(p[i], n))
                       \o When(s[i] # n, InsertInPredecessors(s[i], n))
    IN  own
        \o When(p[1] # n, replicas(1)) \o When(p[1] # n /\ p[2] # n, replicas(2))
        \o announce(1) \o announce(2) \o announce(3)

\* handle_succesors_down of node n once its lists are s and p, for the crash of
\* d: the lists of its neighbours, then the replicas d held.
RepairCalls(n, s, p, d) ==
    When(p[1] # n, DeprecateInSuccessors(p[1], d)
                   \o When(p[1] # s[2], InsertInSuccessors(p[1], s[2])))
    \o When(p[2] # n, DeprecateInSuccessors(p[2], d)
                      \o When(p[2] # s[1], InsertInSuccessors(p[2], s[1])))
    \o When(s[1] # n, DeprecateInPredecessors(s[1], d)
                      \o When(s[1] # p[2], InsertInPredecessors(s[1], p[2])))
    \o When(s[2] # n, DeprecateInPredecessors(s[2], d)
                      \o When(s[2] # p[1], InsertInPredecessors(s[2], p[1])))
    \o When(s[3] # n, DeprecateInPredecessors(s[3], d) \o InsertInPredecessors(s[3], n))
    \o MoveFiles(s[1], n, d, "get", s[3], None)
    \o When(s[2] # n, MoveFiles(n, p[1], n, "force get", s[2], None))
    \o When(p[1] # n, MoveFiles(p[1], p[2], p[1], "get", s[1], None))

-----------------------------------------------------------------------------
(* The environment: clients, crashes *)

\* The crashed nodes some member still has in its lists.
Gone ==
    {d \in Node : status[d] = "down" /\ \E n \in Member, i \in 1 .. ListLen :
                                            succ[n][i] = d \/ pred[n][i] = d}

Quiet == agent = None /\ Gone = {}

\* The owner o of a file and the nodes its replication loop visits.
Holders(o) ==
    {o} \cup {succ[o][i] : i \in {j \in 1 .. Level : \A h \in 1 .. j : succ[o][h] # o}}

\* rpc_add (v is the contents) or rpc_delete (v is Absent) through node e: the
\* protocol DhtExec describes step by step, in a quiet network.
Write(e, k, v) ==
    /\ Quiet
    /\ e \in Member
    /\ Answered(e, Hash[k])
    /\ Holders(SuccessorOf(e, Hash[k])) \subseteq Member
    /\ store' = [n \in Node |-> IF n \in Holders(SuccessorOf(e, Hash[k]))
                                THEN [store[n] EXCEPT ![k] = v] ELSE store[n]]
    /\ latest' = [latest EXCEPT ![k] = v]
    /\ UNCHANGED <<status, succ, pred, agent, todo, hand>>

\* The process and its container end: lists and files are gone.
Crash(n) ==
    /\ agent = None
    /\ Cardinality(Gone) < CrashLimit
    /\ n \in Member
    /\ Cardinality(Member) \in CrashSizes
    /\ status' = [status EXCEPT ![n] = "down"]
    /\ succ' = [succ EXCEPT ![n] = Alone(n)]
    /\ pred' = [pred EXCEPT ![n] = Alone(n)]
    /\ store' = [store EXCEPT ![n] = NoFiles]
    /\ UNCHANGED <<agent, todo, hand, latest>>

-----------------------------------------------------------------------------
(* The two procedures begin *)

\* join_dht of node n: e has answered on the multicast address and finds the
\* predecessor of n, whose lists are asked for next.
StartJoin(n, e) ==
    /\ agent = None
    /\ EarlyRejoin \/ Gone = {}
    /\ status[n] = "down"
    /\ e \in Member
    /\ Answered(e, n)
    /\ status' = [status EXCEPT ![n] = "joining"]
    /\ agent' = n
    /\ todo' = <<[do |-> "lists", at |-> PredecessorOf(e, n)]>>
    /\ UNCHANGED <<succ, pred, store, hand, latest>>

\* The successors of the new node: those of its predecessor p, up to p.
JoinSuccessors(n, p, sp) ==
    [i \in 1 .. ListLen |-> IF \A j \in 1 .. (i - 1) : sp[j] # p THEN sp[i] ELSE n]

\* Its predecessors: p and those of p, until they come round to p.
JoinPredecessors(n, p, pp) ==
    [i \in 1 .. ListLen |->
        IF i = 1 THEN p ELSE IF \A j \in 1 .. (i - 1) : pp[j] # p THEN pp[i - 1] ELSE n]

\* The call at the head of todo, made by n to a node whose command port is open.
Calling(n, ops) ==
    /\ agent = n
    /\ todo # <<>>
    /\ Head(todo).do \in ops
    /\ Head(todo).at \in Member

\* get_all_predecesors and get_all_succesors of the predecessor.
TakeLists(n) ==
    /\ Calling(n, {"lists"})
    /\ LET p == Head(todo).at
       IN  /\ succ' = [succ EXCEPT ![n] = JoinSuccessors(n, p, succ[p])]
           /\ pred' = [pred EXCEPT ![n] = JoinPredecessors(n, p, pred[p])]
    /\ todo' = JoinCalls(n, succ'[n], pred'[n])
    /\ UNCHANGED <<status, store, agent, hand, latest>>

\* Three probes of the immediate successor of n have failed: it leaves the list.
DetectDown(n) ==
    /\ agent = None
    /\ n \in Member
    /\ succ[n][1] # n /\ status[succ[n][1]] = "down"
    /\ succ' = [succ EXCEPT ![n] = ShiftLeftErasingIndex(@, 1, n)]
    /\ agent' = n
    /\ todo' = <<[do |-> "third", at |-> succ'[n][2], x |-> succ[n][1]]>>
    /\ UNCHANGED <<status, pred, store, hand, latest>>

\* The first slot of l that holds the node d is given to n, its owner.
ReplaceFirst(l, d, n) ==
    LET slots == {i \in 1 .. Len(l) : l[i] = d}
    IN  IF slots = {} THEN l ELSE [l EXCEPT ![First(slots)] = n]

\* The lists of n are mended, and the rest of the repair is known.
PlanRepair(n, d) ==
    /\ pred' = [pred EXCEPT ![n] = ReplaceFirst(@, d, n)]
    /\ todo' = RepairCalls(n, succ'[n], pred'[n], d)
    /\ UNCHANGED <<status, store, agent, hand, latest>>

\* There is a new second successor: its successor, found by a lookup, is the third.
FindThird(n) ==
    /\ Calling(n, {"third"})
    /\ Head(todo).at # n
    /\ Answered(Head(todo).at, Head(todo).at + 1)
    /\ succ' = [succ EXCEPT ![n][3] = SuccessorOf(Head(todo).at, Head(todo).at + 1)]
    /\ PlanRepair(n, Head(todo).x)

\* Mutant: the repair waits until there is a second successor again.
NoThirdWaits(n) ==
    /\ Calling(n, {"third"})
    /\ Head(todo).at = n
    /\ UNCHANGED vars

\* There is no second successor any more.
NoThird(n) ==
    /\ Calling(n, {"third"})
    /\ Head(todo).at = n
    /\ UNCHANGED succ
    /\ PlanRepair(n, Head(todo).x)

-----------------------------------------------------------------------------
(* The calls *)

\* CMD_INSERT_SUCCESOR and CMD_DEPRECATE_SUCCESORS.
ChangeSuccessors(n) ==
    /\ Calling(n, {"insert succesor", "deprecate succesor"})
    /\ LET c == Head(todo)
       IN  succ' = [succ EXCEPT ![c.at] =
                       IF c.do = "insert succesor" THEN InsertSuccessor(c.at, @, c.x)
                       ELSE Deprecate(c.at, @, c.x)]
    /\ todo' = Tail(todo)
    /\ UNCHANGED <<status, pred, store, agent, hand, latest>>

\* CMD_INSERT_PREDECESSOR and CMD_DEPRECATE_PREDECESSORS.
ChangePredecessors(n) ==
    /\ Calling(n, {"insert predecessor", "deprecate predecessor"})
    /\ LET c == Head(todo)
       IN  pred' = [pred EXCEPT ![c.at] =
                       IF c.do = "insert predecessor" THEN InsertPredecessor(c.at, @, c.x)
                       ELSE Deprecate(c.at, @, c.x)]
    /\ todo' = Tail(todo)
    /\ UNCHANGED <<status, succ, store, agent, hand, latest>>

\* Mutant: an answer without keys is taken for no answer, and asked for again.
ListKeysAgain(n) ==
    /\ Calling(n, {"keys"})
    /\ LET c  == Head(todo)
           ks == Seqs!SetToSeq(KeysInRange(c.at, c.a, c.b))
       IN  todo' = IF ks = <<>> THEN todo
                   ELSE Seqs!FlattenSeq([i \in 1 .. Len(ks) |-> MoveFile(c, ks[i])])
                        \o Tail(todo)
    /\ UNCHANGED <<status, succ, pred, store, agent, hand, latest>>

\* CMD_GET_KEYS_IN_RANGE: the keys, in the order of the directory, become the
\* calls for their files.
ListKeys(n) ==
    /\ Calling(n, {"keys"})
    /\ LET c  == Head(todo)
           ks == Seqs!SetToSeq(KeysInRange(c.at, c.a, c.b))
       IN  todo' = Seqs!FlattenSeq([i \in 1 .. Len(ks) |-> MoveFile(c, ks[i])]) \o Tail(todo)
    /\ UNCHANGED <<status, succ, pred, store, agent, hand, latest>>

\* CMD_FORCE_GET at node m: a get that misses leaves nothing to write.
ReadAt(m, k) == IF store[m][k] = Absent THEN Empty ELSE store[m][k]

\* _rpc_force_get, or reading a file of the agent's own.
FetchFile(n) ==
    /\ Calling(n, {"force get"})
    /\ hand' = ReadAt(Head(todo).at, Head(todo).k)
    /\ todo' = Tail(todo)
    /\ UNCHANGED <<status, succ, pred, store, agent, latest>>

\* rpc_get: the file is fetched from the successor of its hash.
GetFile(n) ==
    /\ Calling(n, {"get"})
    /\ LET c == Head(todo)
           o == SuccessorOf(c.at, Hash[c.k])
       IN  /\ Answered(c.at, Hash[c.k])
           /\ o \in Member
           /\ hand' = ReadAt(o, c.k)
    /\ todo' = Tail(todo)
    /\ UNCHANGED <<status, succ, pred, store, agent, latest>>

\* fwrite in the agent's own folder, or _rpc_force_add without replication.
PutFile(n) ==
    /\ agent = n /\ todo # <<>> /\ Head(todo).do = "put"
    /\ Head(todo).at \in Member \cup {n}
    /\ store' = [store EXCEPT ![Head(todo).at][Head(todo).k] = hand]
    /\ hand' = None
    /\ todo' = Tail(todo)
    /\ UNCHANGED <<status, succ, pred, agent, latest>>

\* _rpc_force_delete without its replicas.
DropFile(n) ==
    /\ Calling(n, {"drop"})
    /\ store' = [store EXCEPT ![Head(todo).at][Head(todo).k] = Absent]
    /\ todo' = Tail(todo)
    /\ UNCHANGED <<status, succ, pred, agent, hand, latest>>

\* join_dht returns and the command port is opened, or handle_succesors_down
\* returns to the heartbeat thread.
Finish(n) ==
    /\ agent = n
    /\ todo = <<>>
    /\ status' = [status EXCEPT ![n] = "member"]
    /\ agent' = None
    /\ UNCHANGED <<succ, pred, store, todo, hand, latest>>

-----------------------------------------------------------------------------

AgentStep(n) ==
    \/ TakeLists(n) \/ FindThird(n) \/ NoThird(n)
    \/ ChangeSuccessors(n) \/ ChangePredecessors(n)
    \/ ListKeys(n) \/ FetchFile(n) \/ GetFile(n) \/ PutFile(n) \/ DropFile(n)
    \/ Finish(n)

Next ==
    \/ \E e \in Node, k \in Name, v \in Value \cup {Absent} : Write(e, k, v)
    \/ \E n \in Node : Crash(n)
    \/ \E n, e \in Node : StartJoin(n, e)
    \/ \E n \in Node : DetectDown(n) \/ AgentStep(n)

Spec == Init /\ [][Next]_vars

(***************************************************************************)
(* The heartbeat thread of every node probes for ever, and the agent goes  *)
(* on as long as the node it calls answers.  Nothing makes a client write, *)
(* a node join or a node crash.                                            *)
(***************************************************************************)
Fairness == \A n \in Node : WF_vars(DetectDown(n)) /\ WF_vars(AgentStep(n))

FairSpec == Spec /\ Fairness

-----------------------------------------------------------------------------
(* Properties *)

Ref == INSTANCE RingReference WITH Modulus <- Modulus

Call ==
         [do : {"insert succesor", "insert predecessor",
                "deprecate succesor", "deprecate predecessor", "third"},
          at : Node, x : Node]
    \cup [do : {"lists"}, at : Node]
    \cup [do : {"keys"}, at : Node, a : Node, b : Node, by : {"get", "force get"},
          to : Node, drop : Node \cup {None}]
    \cup [do : {"get", "force get", "put", "drop"}, at : Node, k : Name]

TypeOK ==
    /\ status \in [Node -> {"down", "joining", "member"}]
    /\ succ \in [Node -> [1 .. ListLen -> Node]]
    /\ pred \in [Node -> [1 .. ListLen -> Node]]
    /\ store \in [Node -> [Name -> Content]]
    /\ agent \in Node \cup {None}
    /\ hand \in Value \cup {Empty, None}
    /\ latest \in [Name -> Value \cup {Absent}]
    /\ todo \in Seq(Call)

(***************************************************************************)
(* "Fix my predecessor's successors": when no reconfiguration is under way *)
(* every member's list of successors is the one its place in the ring      *)
(* calls for.                                                              *)
(***************************************************************************)
SuccessorsExact ==
    Quiet => \A n \in Member : succ[n] = Ref!ExactSuccessors(Member, n)

(***************************************************************************)
(* "Fix my successor's predecessors": and so is its list of predecessors.  *)
(***************************************************************************)
PredecessorsExact ==
    Quiet => \A n \in Member : pred[n] = Ref!ExactPredecessors(Member, n)

\* A node is gone, or the hole it left is being mended.
Repairing == Gone # {} \/ (agent # None /\ status[agent] = "member")

(***************************************************************************)
(* A crash is noticed and repaired: the crashed node leaves every list, no *)
(* call of the repair is made to a node that will not answer.              *)
(***************************************************************************)
Settles == Repairing ~> Quiet
=============================================================================
