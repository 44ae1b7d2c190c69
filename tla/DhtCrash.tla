------------------------------ MODULE DhtCrash ------------------------------
(***************************************************************************)
(* DhtExec with processes that die: nodes, and controller servers with all *)
(* their threads.  The lists of the survivors are still those from before: *)
(* this is what happens until a heartbeat thread has noticed.              *)
(*                                                                         *)
(* The connections of a dead process break.  Who waits for its answer gets *)
(* an error; who connects to it afterwards tries again for ever.  Two more *)
(* states of a call:                                                       *)
(*   "failed"  recv has returned an error                                  *)
(*   "short"   the length of the answer has come, and nothing will follow  *)
(* In the states "sent" and "taken" of a call to a dead node the caller is *)
(* the one that tries for ever.                                            *)
(*                                                                         *)
(* A node that answers a dead caller may die of it: an answer is sent in   *)
(* two parts, the first makes the host of the caller reset the connection, *)
(* and SIGPIPE, which no program here ignores, comes with the second.      *)
(***************************************************************************)
EXTENDS DhtExec

CONSTANTS Process,      \* the controller servers
          ProcessOf,    \* the server each client thread belongs to
          Wanted,       \* bound: the requests each client makes
          CrashLimit    \* bound: processes killed from outside

ASSUME ProcessAssumption == ProcessOf \in [Client -> Process] /\ Process \cap Node = {}

ASSUME WantedAssumption == Wanted \in [Client -> SUBSET Request]

ASSUME CrashAssumption ==
    /\ CrashLimit \in Nat
    /\ IsFiniteSet(Client) /\ IsFiniteSet(Node)
    /\ None \notin Name

VARIABLES dead,     \* the nodes and threads that have died
          crashes,  \* processes killed from outside so far
          torn      \* the file a node was writing when it died

crashVars == <<vars, dead, crashes, torn>>

CrashTypeOK ==
    /\ want \in [Client -> Request \cup {None}]
    /\ call \in [Caller -> Message \cup {None}]
    /\ sock \in [Caller -> {"closed", "sent", "taken", "answered", "failed", "short"}]
    /\ answer \in [Caller -> Node \cup Value \cup {Absent, None}]
    /\ queue \in [Node -> Seq(Caller)]
    /\ exec \in [Node -> Caller \cup {None}]
    /\ loop \in [Node -> 1 .. ListLen]
    /\ store \in [Node -> [Name -> Value \cup {Absent}]]
    /\ dead \subseteq Caller
    /\ crashes \in 0 .. CrashLimit
    /\ torn \in [Node -> Name \cup {None}]

CrashInit ==
    /\ Init
    /\ dead = {} /\ crashes = 0
    /\ torn = [n \in Node |-> None]

-----------------------------------------------------------------------------
(* Death *)

\* The processes a caller belongs to: a node, or the threads of a server.
Fellows(x) == IF x \in Node THEN {x} ELSE {c \in Client : ProcessOf[c] = ProcessOf[x]}

\* Waits for an answer of one of xs.
Awaiting(xs) == {c \in Caller : sock[c] \in {"sent", "taken"} /\ call[c].to \in xs}

\* Has got an answer of one of xs, which may be lost as long as it is not read.
Holding(xs) == {c \in Caller : sock[c] = "answered" /\ call[c].to \in xs}

\* Waits for the rest of an answer of one of xs.
Expecting(xs) == {c \in Caller : sock[c] = "short" /\ call[c].to \in xs}

\* The loop of n is running a write.
Writes(n) == \E c \in Caller : Writing(n, c)

(***************************************************************************)
(* The callers xs, none of them dead, die.  What a dead node holds, and    *)
(* how far its last write has come, stays in store, loop, sock and call.   *)
(* For a short answer memory has been allocated, which is read as it is,   *)
(* None here, when recv fails.                                             *)
(***************************************************************************)
Die(xs) ==
    \E lost \in SUBSET (Holding(xs) \ xs) :
        /\ dead' = dead \cup xs
        /\ queue' = [n \in Node |-> IF n \in xs THEN <<>> ELSE queue[n]]
        /\ sock' = [c \in Caller |->
                       IF c \in (Awaiting(xs) \cup lost) \ xs THEN "failed"
                       ELSE IF c \in Expecting(xs) \ xs THEN "answered"
                       ELSE sock[c]]
        /\ exec' = [n \in Node |-> IF n \in xs THEN None ELSE exec[n]]
        /\ torn' = [n \in Node |->
                       IF n \in xs /\ Writes(n) THEN call[exec[n]].name ELSE torn[n]]
        /\ answer' = [c \in Caller |-> IF c \in lost THEN None ELSE answer[c]]
        /\ UNCHANGED <<want, call, loop, store>>

\* A process is killed from outside.
Crash(x) ==
    /\ crashes < CrashLimit /\ crashes' = crashes + 1
    /\ x \notin dead
    /\ Die(Fellows(x))

\* rpc_find_predecessor returns NULL and rpc_find_succesor reads through it.
FindFailed(c) ==
    /\ sock[c] = "failed" /\ call[c].op = "find"
    /\ Die(Fellows(c))
    /\ UNCHANGED crashes

\* The next thing the loop of n sends is an answer of two parts for c.
Answering(n, c) ==
    \/ CanTake(n, c, {"find"}) /\ IAmPredecessorOfKey(n, Next1(n), Hash[call[c].name])
    \/ CanTake(n, c, {"get"}) /\ store[n][call[c].name] # Absent
    \/ exec[n] = c /\ c # None /\ call[c].op = "find" /\ sock[n] \in {"answered", "failed"}
    \/ Writing(n, c) /\ sock[n] = "closed" /\ LoopOver(n, call[c].rep)

DieAnswering(n, c) ==
    /\ c \in dead
    /\ Answering(n, c)
    /\ Die({n})
    /\ UNCHANGED crashes

-----------------------------------------------------------------------------
(* Errors that are survived *)

\* A FORCE call: nobody looks at what recv returned, and the rpc returns.  The
\* flag of a get is not initialised, but no contents follow: no file either way.
ForceFailed(c) ==
    /\ sock[c] = "failed" /\ call[c].op # "find"
    /\ want' = [want EXCEPT ![c] = None]
    /\ call' = [call EXCEPT ![c] = None]
    /\ sock' = [sock EXCEPT ![c] = "closed"]
    /\ UNCHANGED <<answer, queue, exec, loop, store, dead, crashes, torn>>

\* Mutant: the loop forgets the caller.
ForwardFailedSilent(n, c) ==
    /\ exec[n] = c /\ c # None
    /\ call[c].op = "find"
    /\ sock[n] = "failed"
    /\ exec' = [exec EXCEPT ![n] = None]
    /\ call' = [call EXCEPT ![n] = None]
    /\ sock' = [sock EXCEPT ![n] = "closed"]
    /\ answer' = [answer EXCEPT ![n] = None]
    /\ UNCHANGED <<want, queue, loop, store, dead, crashes, torn>>

\* A forwarded lookup: the length of an answer is sent, and then, from NULL,
\* nothing.  The connection stays open.
ForwardFailed(n, c) ==
    /\ exec[n] = c /\ c # None
    /\ call[c].op = "find"
    /\ sock[n] = "failed"
    /\ exec' = [exec EXCEPT ![n] = None]
    /\ call' = [call EXCEPT ![n] = None]
    /\ sock' = [sock EXCEPT ![n] = "closed", ![c] = "short"]
    /\ answer' = [answer EXCEPT ![n] = None]
    /\ UNCHANGED <<want, queue, loop, store, dead, crashes, torn>>

\* Mutant: the replication ends with the first replica that fails.
ReplicaFailedEnds(n, c) ==
    /\ Writing(n, c)
    /\ sock[n] = "failed"
    /\ call' = [call EXCEPT ![n] = None]
    /\ sock' = [sock EXCEPT ![n] = "closed"]
    /\ loop' = [loop EXCEPT ![n] = ListLen]
    /\ UNCHANGED <<want, answer, queue, exec, store, dead, crashes, torn>>

\* Mutant: the missing answer is read.
ReplicaFailedReads(n, c) ==
    /\ Writing(n, c)
    /\ sock[n] = "failed"
    /\ Die({n})
    /\ UNCHANGED crashes

\* A replica: the loop goes on to the next one.
ReplicaFailed(n, c) ==
    /\ Writing(n, c)
    /\ sock[n] = "failed"
    /\ call' = [call EXCEPT ![n] = None]
    /\ sock' = [sock EXCEPT ![n] = "closed"]
    /\ loop' = [loop EXCEPT ![n] = @ + 1]
    /\ UNCHANGED <<want, answer, queue, exec, store, dead, crashes, torn>>

-----------------------------------------------------------------------------

Survives == UNCHANGED <<dead, crashes, torn>>

\* The beacon a thread hears is that of a running node.
Start(c, r, n) ==
    /\ n \notin dead
    /\ StartOp(c, r, n)
    /\ Survives

\* Uninitialised memory is taken for the address of a node: connect never ends.
ClientGoesOn(c) ==
    \/ (sock[c] = "answered" /\ call[c].op = "find" => answer[c] # None)
           /\ ClientStep(c) /\ Survives
    \/ FindFailed(c)
    \/ ForceFailed(c)

NodeGoesOn(n, c) ==
    \/ NodeStep(n, c) /\ Survives
    \/ ForwardFailed(n, c)
    \/ ReplicaFailed(n, c)
    \/ DieAnswering(n, c)

CrashNext ==
    \/ \E c \in Client \ dead, n \in Node : \E r \in Wanted[c] : Start(c, r, n)
    \/ \E c \in Client \ dead : ClientGoesOn(c)
    \/ \E n \in Node \ dead, c \in Caller : NodeGoesOn(n, c)
    \/ \E x \in Caller : Crash(x)

CrashSpec == CrashInit /\ [][CrashNext]_crashVars

\* As in DhtExec, for the processes that live.
CrashFairness ==
    /\ \A c \in Client : WF_crashVars(c \notin dead /\ ClientGoesOn(c))
    /\ \A n \in Node : WF_crashVars(n \notin dead /\ \E c \in Caller : NodeGoesOn(n, c))

FairCrashSpec == CrashSpec /\ CrashFairness

-----------------------------------------------------------------------------
(* Properties *)

\* The first replicas of o that its replication loop is through with.
Visited(o) == {Succs[o][i] : i \in 1 .. (loop[o] - 1)}

\* The replicas r and s hold the same of k.
Same(r, s, k) == store[r][k] = store[s][k]

(***************************************************************************)
(* Whoever dies, a file survives in the state the repair counts on.  Live  *)
(* replicas hold what the owner holds, or held when it died.  In the       *)
(* middle of a write, or when the owner died there, the write has reached  *)
(* all the live replicas before some place of the list, and perhaps the    *)
(* one at it, and none behind, and those agree.                            *)
(***************************************************************************)
WritesInOrder ==
    \A k \in Name :
        LET o == Owner(k)
            live == Replicas(o) \ dead
            busy == WritingKey(o, k) \/ torn[o] = k
            at == IF busy /\ sock[o] # "closed" THEN {call[o].to} ELSE {}
        IN  /\ \A r \in live : ~busy \/ r \in Visited(o) => Same(r, o, k)
            /\ busy => \A r, s \in live \ (Visited(o) \cup at) : Same(r, s, k)

\* The loop of n is blocked in a call.
CrashBlocked(n) == n \notin dead /\ exec[n] # None /\ sock[n] \in {"sent", "taken", "short"}

\* x has called a node that will not answer: it was dead before, or has sent
\* its answer without contents, or has answered with no node's address.
Abandoned(x) ==
    \/ sock[x] = "sent" /\ call[x].to \in dead
    \/ sock[x] = "short"
    \/ sock[x] = "answered" /\ answer[x] = None /\ call[x].op = "find"

\* Some loops are blocked in calls, each to another one of them or abandoned.
StuckTogether(S) ==
    \A n \in S : CrashBlocked(n) /\ (Abandoned(n) \/ call[n].to \in S)

\* No process that lives can go on.
CrashHalted ==
    /\ \A n \in Node \ dead :
           IF exec[n] = None THEN queue[n] = <<>> ELSE CrashBlocked(n)
    /\ \A c \in Client \ dead : sock[c] \in {"closed", "sent", "taken", "short"} \/ Abandoned(c)

(***************************************************************************)
(* A crash blocks no one for a reason of its own: if a thread that lives   *)
(* waits for ever, it has called a dead node, or has been left with a      *)
(* short answer, or waits for a loop that is blocked so, or for a cycle of *)
(* loops.                                                                  *)
(***************************************************************************)
StuckForAReason ==
    CrashHalted =>
        \A c \in Client \ dead :
            \/ sock[c] = "closed"
            \/ Abandoned(c)
            \/ \E S \in SUBSET Node : call[c].to \in S /\ StuckTogether(S)

\* n has died of answering a dead caller: the call of that caller has failed.
AnsweredTheDead(n) == \E c \in dead : sock[c] = "failed" /\ call[c].to = n

(***************************************************************************)
(* The death toll of crashes.  A crash kills the threads that wait for the *)
(* dead node to find a file, these their servers, and the dead callers the *)
(* loops that answer them.  But no node dies of anything else, and none of *)
(* a caller that has already killed one: a crash takes one more node with  *)
(* it, and so does every thread that dies, no more.                        *)
(***************************************************************************)
DeathToll ==
    /\ Cardinality({n \in dead \cap Node : ~AnsweredTheDead(n)}) <= crashes
    /\ Cardinality(dead \cap Node) <= 2 * crashes + Cardinality(dead \cap Client)

(***************************************************************************)
(* As long as nobody has died and no loops block each other, every rpc     *)
(* returns.                                                                *)
(***************************************************************************)
CrashlessCallsReturn ==
    \A c \in Client : sock[c] # "closed" ~> sock[c] = "closed" \/ dead # {} \/ WaitCycle
=============================================================================
