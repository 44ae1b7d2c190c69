------------------------------ MODULE DhtExec -------------------------------
(***************************************************************************)
(* The command execution loops of the nodes of one DHT whose ring is       *)
(* settled, and the threads that call rpc_add, rpc_delete and rpc_get on   *)
(* it.                                                                     *)
(*                                                                         *)
(* Every node runs one execution loop.  It takes one command at a time     *)
(* from its queue and runs the handler to its end; a handler that calls    *)
(* another node (a forwarded CMD_FIND_PREDECESSOR, the replication loops   *)
(* of CMD_FORCE_ADD and CMD_FORCE_DELETE) blocks the loop until that node  *)
(* has answered.  A caller, thread or loop, has one connection at a time:  *)
(*   "closed"   no call                                                    *)
(*   "sent"     the command is in the callee's queue                       *)
(*   "taken"    the callee's loop is running its handler                   *)
(*   "answered" the answer can be read.                                    *)
(***************************************************************************)
EXTENDS ChordLists, FiniteSets

CONSTANTS Node,     \* the nodes of the ring, each named by its node_key
          Client,   \* the threads of the controller servers
          Name,     \* file names, the keys of the DHT
          Value,    \* file contents
          Hash,     \* hash_string, a function on Name
          Succs,    \* successors_ip/successors_key of every node
          Absent,   \* no such file
          None      \* no call, no command, no answer

Caller == Client \cup Node

(***************************************************************************)
(* What a settled ring is, as far as the handlers below rely on it: the    *)
(* first successor of a node is the next node clockwise, and the arcs from *)
(* the nodes to their first successors cover the ring.                     *)
(***************************************************************************)
ASSUME NodeAssumption ==
    /\ Node \subseteq Int
    /\ Client \cap Node = {}
    /\ None \notin Caller \cup Value
    /\ Absent \notin Value
    /\ None # Absent

ASSUME HashAssumption == Hash \in [Name -> Int]

ASSUME RingAssumption ==
    /\ Succs \in [Node -> [1 .. ListLen -> Node]]
    /\ \A n, m \in Node :
        /\ Succs[n][1] = n => m = n
        /\ m # Succs[n][1] => ~IsInBetweenModular(m, n, Succs[n][1])
    /\ \A k \in Name : \E n \in Node :
           Succs[n][1] = n \/ IsInBetweenModular(Hash[k], n, Succs[n][1])

VARIABLES want,     \* the request a client is carrying out
          call,     \* the command a caller has sent
          sock,     \* the state of that call
          answer,   \* the answer to it
          queue,    \* command_queue of each node: callers in order of arrival
          exec,     \* the caller whose command the loop of a node is running
          loop,     \* the loop variable i of the replication loops
          store     \* the files in main_folder_name of each node

vars == <<want, call, sock, answer, queue, exec, loop, store>>

Request ==
         [op : {"add"}, name : Name, val : Value]
    \cup [op : {"delete", "get"}, name : Name, val : {Absent}]

Message ==
         [to : Node, op : {"add"}, name : Name, val : Value, rep : BOOLEAN]
    \cup [to : Node, op : {"find", "delete", "get"}, name : Name, val : {Absent},
          rep : BOOLEAN]

\* The immediate successor, successors_ip[0].
Next1(n) == Succs[n][1]

TypeOK ==
    /\ want \in [Client -> Request \cup {None}]
    /\ call \in [Caller -> Message \cup {None}]
    /\ sock \in [Caller -> {"closed", "sent", "taken", "answered"}]
    /\ answer \in [Caller -> Node \cup Value \cup {Absent, None}]
    /\ queue \in [Node -> Seq(Caller)]
    /\ exec \in [Node -> Caller \cup {None}]
    /\ loop \in [Node -> 1 .. ListLen]
    /\ store \in [Node -> [Name -> Value \cup {Absent}]]

Init ==
    /\ want = [c \in Client |-> None]
    /\ call = [c \in Caller |-> None]
    /\ sock = [c \in Caller |-> "closed"]
    /\ answer = [c \in Caller |-> None]
    /\ queue = [n \in Node |-> <<>>]
    /\ exec = [n \in Node |-> None]
    /\ loop = [n \in Node |-> 1]
    /\ store = [n \in Node |-> [k \in Name |-> Absent]]

-----------------------------------------------------------------------------
(* The calling side: rpcs.h *)

\* rpc_find_predecessor only carries the hash of the name.
FindMessage(to, name) ==
    [to |-> to, op |-> "find", name |-> name, val |-> Absent, rep |-> FALSE]

\* A caller connects, sends its command and the callee's accept thread queues it.
Send(c, m) ==
    /\ call' = [call EXCEPT ![c] = m]
    /\ sock' = [sock EXCEPT ![c] = "sent"]
    /\ queue' = [queue EXCEPT ![m.to] = Append(@, c)]

\* rpc_add, rpc_delete or rpc_get begins: rpc_find_succesor asks the node whose
\* multicast beacon the thread has heard.
StartOp(c, r, entry) ==
    /\ sock[c] = "closed"
    /\ want' = [want EXCEPT ![c] = r]
    /\ Send(c, FindMessage(entry, r.name))
    /\ UNCHANGED <<answer, exec, loop, store>>

\* The request as the FORCE command sent to the node that was found.
ForceMessage(to, r) ==
    [to |-> to, op |-> r.op, name |-> r.name, val |-> r.val, rep |-> r.op # "get"]

\* The successor of the key has been found: the FORCE call is made to it.
CallOwner(c) ==
    /\ sock[c] = "answered"
    /\ call[c].op = "find"
    /\ Send(c, ForceMessage(answer[c], want[c]))
    /\ answer' = [answer EXCEPT ![c] = None]
    /\ UNCHANGED <<want, exec, loop, store>>

\* The FORCE call has been answered and the rpc returns.
FinishOp(c) ==
    /\ sock[c] = "answered"
    /\ call[c].op # "find"
    /\ want' = [want EXCEPT ![c] = None]
    /\ call' = [call EXCEPT ![c] = None]
    /\ sock' = [sock EXCEPT ![c] = "closed"]
    /\ answer' = [answer EXCEPT ![c] = None]
    /\ UNCHANGED <<queue, exec, loop, store>>

-----------------------------------------------------------------------------
(* The execution loop of node n *)

\* dequeue: the loop is free and c's command is the oldest in the queue.
CanTake(n, c, ops) ==
    /\ exec[n] = None
    /\ queue[n] # <<>>
    /\ c = Head(queue[n])
    /\ call[c].op \in ops

\* Mutant: the key that was asked for is returned, not that of a node.
AnswerFindKey(n, c) ==
    /\ CanTake(n, c, {"find"})
    /\ IAmPredecessorOfKey(n, Next1(n), Hash[call[c].name])
    /\ queue' = [queue EXCEPT ![n] = Tail(@)]
    /\ sock' = [sock EXCEPT ![c] = "answered"]
    /\ answer' = [answer EXCEPT ![c] = Hash[call[c].name]]
    /\ UNCHANGED <<want, call, exec, loop, store>>

\* Mutant: the predecessor itself is returned as the place of the key.
AnswerFindSelf(n, c) ==
    /\ CanTake(n, c, {"find"})
    /\ IAmPredecessorOfKey(n, Next1(n), Hash[call[c].name])
    /\ queue' = [queue EXCEPT ![n] = Tail(@)]
    /\ sock' = [sock EXCEPT ![c] = "answered"]
    /\ answer' = [answer EXCEPT ![c] = n]
    /\ UNCHANGED <<want, call, exec, loop, store>>

\* CMD_FIND_PREDECESSOR, the key is on the arc of n: answer at once.
AnswerFind(n, c) ==
    /\ CanTake(n, c, {"find"})
    /\ IAmPredecessorOfKey(n, Next1(n), Hash[call[c].name])
    /\ queue' = [queue EXCEPT ![n] = Tail(@)]
    /\ sock' = [sock EXCEPT ![c] = "answered"]
    /\ answer' = [answer EXCEPT ![c] = Next1(n)]
    /\ UNCHANGED <<want, call, exec, loop, store>>

\* Mutant: the lookup is forwarded to the node's own address.
ForwardFindOwn(n, c) ==
    /\ CanTake(n, c, {"find"})
    /\ ~IAmPredecessorOfKey(n, Next1(n), Hash[call[c].name])
    /\ exec' = [exec EXCEPT ![n] = c]
    /\ call' = [call EXCEPT ![n] = FindMessage(n, call[c].name)]
    /\ sock' = [sock EXCEPT ![c] = "taken", ![n] = "sent"]
    /\ queue' = [queue EXCEPT ![n] = Append(Tail(@), n)]
    /\ UNCHANGED <<want, answer, loop, store>>

\* CMD_FIND_PREDECESSOR otherwise: ask the successor and block on its answer.
ForwardFind(n, c) ==
    /\ CanTake(n, c, {"find"})
    /\ ~IAmPredecessorOfKey(n, Next1(n), Hash[call[c].name])
    /\ exec' = [exec EXCEPT ![n] = c]
    /\ call' = [call EXCEPT ![n] = FindMessage(Next1(n), call[c].name)]
    /\ sock' = [sock EXCEPT ![c] = "taken", ![n] = "sent"]
    /\ queue' = [queue EXCEPT ![n] = Tail(@), ![Next1(n)] = Append(@, n)]
    /\ UNCHANGED <<want, answer, loop, store>>

\* Mutant: the answer is not passed on, the successor is asked again.
ReturnFindRetry(n, c) ==
    /\ exec[n] = c /\ c # None
    /\ call[c].op = "find"
    /\ sock[n] = "answered"
    /\ Send(n, call[n])
    /\ answer' = [answer EXCEPT ![n] = None]
    /\ UNCHANGED <<want, exec, loop, store>>

\* The successor has answered: pass its answer on.
ReturnFind(n, c) ==
    /\ exec[n] = c /\ c # None
    /\ call[c].op = "find"
    /\ sock[n] = "answered"
    /\ exec' = [exec EXCEPT ![n] = None]
    /\ call' = [call EXCEPT ![n] = None]
    /\ sock' = [sock EXCEPT ![n] = "closed", ![c] = "answered"]
    /\ answer' = [answer EXCEPT ![n] = None, ![c] = answer[n]]
    /\ UNCHANGED <<want, queue, loop, store>>

\* Mutant: CMD_FORCE_ADD creates the file only when it does not exist yet.
TakeAddKeepOld(n, c) ==
    /\ CanTake(n, c, {"add"})
    /\ queue' = [queue EXCEPT ![n] = Tail(@)]
    /\ sock' = [sock EXCEPT ![c] = "taken"]
    /\ exec' = [exec EXCEPT ![n] = c]
    /\ loop' = [loop EXCEPT ![n] = 1]
    /\ store' = [store EXCEPT ![n][call[c].name] =
                    IF @ = Absent THEN call[c].val ELSE @]
    /\ UNCHANGED <<want, call, answer>>

\* CMD_FORCE_ADD: the file is written, then the replicas are made.
TakeAdd(n, c) ==
    /\ CanTake(n, c, {"add"})
    /\ queue' = [queue EXCEPT ![n] = Tail(@)]
    /\ sock' = [sock EXCEPT ![c] = "taken"]
    /\ exec' = [exec EXCEPT ![n] = c]
    /\ loop' = [loop EXCEPT ![n] = 1]
    /\ store' = [store EXCEPT ![n][call[c].name] = call[c].val]
    /\ UNCHANGED <<want, call, answer>>

\* CMD_FORCE_DELETE: the file is removed, then its replicas are deleted.
TakeDelete(n, c) ==
    /\ CanTake(n, c, {"delete"})
    /\ queue' = [queue EXCEPT ![n] = Tail(@)]
    /\ sock' = [sock EXCEPT ![c] = "taken"]
    /\ exec' = [exec EXCEPT ![n] = c]
    /\ loop' = [loop EXCEPT ![n] = 1]
    /\ store' = [store EXCEPT ![n][call[c].name] = Absent]
    /\ UNCHANGED <<want, call, answer>>

\* CMD_FORCE_GET: the file is read and sent.
TakeGet(n, c) ==
    /\ CanTake(n, c, {"get"})
    /\ queue' = [queue EXCEPT ![n] = Tail(@)]
    /\ sock' = [sock EXCEPT ![c] = "answered"]
    /\ answer' = [answer EXCEPT ![c] = store[n][call[c].name]]
    /\ UNCHANGED <<want, call, exec, loop, store>>

\* The loop of n is running a write for c.
Writing(n, c) ==
    /\ exec[n] = c /\ c # None
    /\ call[c].op \in {"add", "delete"}

\* Mutant: one replica too few.
LoopOverShort(n, rep) == ~rep \/ loop[n] >= Level \/ Succs[n][loop[n]] = n

\* Mutant: the loop runs to size() instead of size() - 1.
LoopOverLong(n, rep) == ~rep \/ loop[n] > ListLen \/ Succs[n][loop[n]] = n

\* The replication loop of n is not wanted (should_replicate, and in a delete
\* should_delete_replicas, is false), or has reached the end of the list or the
\* node itself.
LoopOver(n, rep) == ~rep \/ loop[n] > Level \/ Succs[n][loop[n]] = n

\* The next _rpc_force_add or _rpc_force_delete of the replication loop.
Replicate(n, c) ==
    /\ Writing(n, c)
    /\ sock[n] = "closed"
    /\ ~LoopOver(n, call[c].rep)
    /\ Send(n, [call[c] EXCEPT !.to = Succs[n][loop[n]], !.rep = FALSE])
    /\ UNCHANGED <<want, answer, exec, loop, store>>

\* The replica has answered.
ReplicaDone(n, c) ==
    /\ Writing(n, c)
    /\ sock[n] = "answered"
    /\ call' = [call EXCEPT ![n] = None]
    /\ sock' = [sock EXCEPT ![n] = "closed"]
    /\ answer' = [answer EXCEPT ![n] = None]
    /\ loop' = [loop EXCEPT ![n] = @ + 1]
    /\ UNCHANGED <<want, queue, exec, store>>

\* Mutant: the loop is freed and the ok response is not sent.
AnswerWriteSilent(n, c) ==
    /\ Writing(n, c)
    /\ sock[n] = "closed"
    /\ LoopOver(n, call[c].rep)
    /\ exec' = [exec EXCEPT ![n] = None]
    /\ loop' = [loop EXCEPT ![n] = 1]
    /\ UNCHANGED <<want, call, sock, answer, queue, store>>

\* The ok response; the loop is free again.
AnswerWrite(n, c) ==
    /\ Writing(n, c)
    /\ sock[n] = "closed"
    /\ LoopOver(n, call[c].rep)
    /\ exec' = [exec EXCEPT ![n] = None]
    /\ loop' = [loop EXCEPT ![n] = 1]
    /\ sock' = [sock EXCEPT ![c] = "answered"]
    /\ UNCHANGED <<want, call, answer, queue, store>>

-----------------------------------------------------------------------------

ClientStep(c) == CallOwner(c) \/ FinishOp(c)

NodeStep(n, c) ==
    \/ AnswerFind(n, c) \/ ForwardFind(n, c) \/ ReturnFind(n, c)
    \/ TakeAdd(n, c) \/ TakeDelete(n, c) \/ TakeGet(n, c)
    \/ Replicate(n, c) \/ ReplicaDone(n, c) \/ AnswerWrite(n, c)

Next ==
    \/ \E c \in Client, r \in Request, n \in Node : StartOp(c, r, n)
    \/ \E c \in Client : ClientStep(c)
    \/ \E n \in Node, c \in Caller : NodeStep(n, c)

Spec == Init /\ [][Next]_vars

(***************************************************************************)
(* Every thread that can run eventually does; nothing makes a client start *)
(* another request.                                                        *)
(***************************************************************************)
Fairness ==
    /\ \A c \in Client : WF_vars(ClientStep(c))
    /\ \A n \in Node : WF_vars(\E c \in Caller : NodeStep(n, c))

FairSpec == Spec /\ Fairness

-----------------------------------------------------------------------------
(* Properties *)

\* The node a key belongs to: the successor every lookup of it ends at.
Owner(k) ==
    CHOOSE s \in Node : \E n \in Node :
        s = Next1(n) /\ IAmPredecessorOfKey(n, Next1(n), Hash[k])

\* The nodes the replication loop of o visits.
Replicas(o) ==
    {Succs[o][i] : i \in {j \in 1 .. Level : \A h \in 1 .. j : Succs[o][h] # o}}

\* The loop of o is running a write of k.
WritingKey(o, k) == \E c \in Caller : Writing(o, c) /\ call[c].name = k

(***************************************************************************)
(* The fault tolerance of the DHT rests on this: unless the owner of a     *)
(* file is in the middle of a write of that very file, each of its         *)
(* replicas holds exactly what the owner holds, however many clients       *)
(* write, and wherever the replication messages are.                       *)
(***************************************************************************)
ReplicasAgree ==
    \A k \in Name :
        ~WritingKey(Owner(k), k) =>
            \A r \in Replicas(Owner(k)) : store[r][k] = store[Owner(k)][k]

(***************************************************************************)
(* A file is never left outside its owner and the owner's replicas: such a *)
(* copy would not be updated and would come back when a node later         *)
(* inherits the key.                                                       *)
(***************************************************************************)
NoStrayCopy ==
    \A n \in Node, k \in Name :
        store[n][k] # Absent => n = Owner(k) \/ n \in Replicas(Owner(k))

(***************************************************************************)
(* What command_queue must have room for: a caller has at most one command *)
(* in all the queues together, and no node waits in its own queue.         *)
(***************************************************************************)
QueuesBounded ==
    /\ \A n, m \in Node : \A i \in 1 .. Len(queue[n]), j \in 1 .. Len(queue[m]) :
           queue[n][i] = queue[m][j] => n = m /\ i = j
    /\ \A n \in Node : \A i \in 1 .. Len(queue[n]) : queue[n][i] # n

\* The loop of n is blocked in a call.
Blocked(n) == exec[n] # None /\ sock[n] \in {"sent", "taken"}

\* Some loops are blocked in calls to each other.
WaitCycle ==
    \E S \in (SUBSET Node) \ {{}} : \A n \in S : Blocked(n) /\ call[n].to \in S

\* Neither a loop nor a client has anything left to do.
Halted ==
    /\ \A n \in Node : IF exec[n] = None THEN queue[n] = <<>> ELSE Blocked(n)
    /\ \A c \in Client : sock[c] # "answered"

(***************************************************************************)
(* A call is stuck for one reason only.  If nothing can run while a client *)
(* still waits for an answer, then execution loops are blocked in calls to *)
(* each other: no command is ever dropped, no answer forgotten, no loop    *)
(* left waiting for a call it did not make.                                *)
(***************************************************************************)
HaltOnlyInCycle ==
    Halted /\ (\E c \in Client : sock[c] # "closed") => WaitCycle

(***************************************************************************)
(* "Send ok response": the handler of CMD_FORCE_ADD, once started, answers *)
(* and gives the execution loop back.                                      *)
(***************************************************************************)
AddSendsOk ==
    \A n \in Node :
        (exec[n] # None /\ \E c \in Client : exec[n] = c /\ call[c].op = "add")
            ~> exec[n] = None

(***************************************************************************)
(* The loops together implement one atomic map: a request takes effect     *)
(* when the owner's loop takes its FORCE command, so two clients never see *)
(* the effects of concurrent writes and reads in different orders.         *)
(***************************************************************************)
Applied(c) ==
    /\ sock[c] \in {"taken", "answered"}
    /\ call[c].op # "find"

KV == INSTANCE KeyValue WITH
          kv    <- [k \in Name |-> store[Owner(k)][k]],
          req   <- want,
          stage <- [c \in Client |->
                        IF sock[c] = "closed" THEN "idle"
                        ELSE IF Applied(c) THEN "applied" ELSE "pending"],
          res   <- [c \in Client |->
                        IF Applied(c) /\ call[c].op = "get" THEN answer[c] ELSE None]

\* Every behaviour of the loops is one of the atomic map.
AtomicMap == KV!Spec
=============================================================================
