--------------------------- MODULE DhtCrashProofs ---------------------------
(***************************************************************************)
(* What survives of the calls and of the files when processes die, for     *)
(* every ring, every number of clients and every number of crashes.        *)
(***************************************************************************)
EXTENDS DhtCrash, DhtExecProofs, FiniteSetTheorems

CrashStates == {"closed", "sent", "taken", "answered", "failed", "short"}

\* A node that lives calls for the command its loop runs, and has not died in the
\* middle of a write; a dead one runs nothing.
LiveInv == \A n \in Node \ dead : NodeOK(n) /\ torn[n] = None
DeadInv == \A n \in Node \cap dead : exec[n] = None

\* There is an answer only where one has come and is not yet read, and that to a
\* lookup is the owner.
ReplyInv ==
    \A c \in Caller : answer[c] # None =>
        /\ sock[c] = "answered"
        /\ call[c].op \in {"find", "get"}
        /\ call[c].op = "find" => answer[c] = Owner(call[c].name)

\* Only calls to the dead fail, and only lookups are answered short.
FailInv ==
    \A c \in Caller :
        /\ sock[c] = "failed" => call[c].to \in dead
        /\ sock[c] = "short" => call[c].op = "find"

\* What the calls are like.
Talk ==
    /\ CrashTypeOK
    /\ SockInv
    /\ QueueInv
    /\ ExecInv
    /\ ClientInv
    /\ LiveInv
    /\ DeadInv
    /\ ReplyInv
    /\ FailInv

\* No replication loop has gone past its own node.
LoopInv == \A o \in Node : \A h \in 1 .. loop[o] - 1 : Succs[o][h] # o

\* The call of o is a write.
CallsWrite(o) == sock[o] # "closed" /\ call[o].op \in {"add", "delete"}

\* The loop of o is in the middle of a write of k, or was when it died.
BusyWith(o, k) == WritingKey(o, k) \/ torn[o] = k

\* A node calls for a write of a file only as its owner, of what it holds of it;
\* a replica that lives and has taken the call holds the same.
CopyInv ==
    \A o \in Node : CallsWrite(o) =>
        /\ o = Owner(call[o].name) /\ BusyWith(o, call[o].name)
        /\ ~call[o].rep /\ loop[o] <= Level
        /\ call[o].to = Succs[o][loop[o]] /\ call[o].to # o
        /\ call[o].val = store[o][call[o].name]
        /\ sock[o] \in {"taken", "answered"} /\ call[o].to \notin dead
              => Same(call[o].to, o, call[o].name)

\* What a loop is writing it has written to its own disk.
BusyInv == \A o \in Node : Busy(o) => store[o][call[exec[o]].name] = call[exec[o]].val

\* The call of a node that died in the middle of a write is part of that write.
TornInv ==
    \A o \in Node : torn[o] # None /\ sock[o] # "closed" =>
        CallsWrite(o) /\ call[o].name = torn[o]

\* What the disks are like.
Files ==
    /\ LoopInv
    /\ CopyInv
    /\ BusyInv
    /\ TornInv
    /\ WritesInOrder
    /\ NoStrayCopy

\* The inductive invariant.
CrashInv == Talk /\ Files

-----------------------------------------------------------------------------
(* What the actions have in common *)

\* The types of the variables of the calls, in one place.
LEMMA CallTypes ==
    ASSUME CrashTypeOK
    PROVE  /\ call \in [Caller -> Message \cup {None}]
           /\ sock \in [Caller -> CrashStates]
           /\ answer \in [Caller -> Node \cup Value \cup {Absent, None}]
           /\ queue \in [Node -> Seq(Caller)]
           /\ exec \in [Node -> Caller \cup {None}]
           /\ Client \subseteq Caller /\ Node \subseteq Caller /\ Client \cap Node = {}
           /\ None \notin Caller
BY NodeAssumption DEF CrashTypeOK, CrashStates, Caller

\* The node o has a write to finish: its loop is at one, or it died in one.
Unfinished(o) == Busy(o) \/ torn[o] # None

\* A node that has a write to finish calls for nothing but that write.
LEMMA UnfinishedCalls ==
    ASSUME Talk, Files, NEW o \in Node, Unfinished(o), sock[o] # "closed"
    PROVE  CallsWrite(o)
<1>1. CASE torn[o] # None
  BY <1>1 DEF Files, TornInv
<1>2. CASE torn[o] = None
  <2>1. Busy(o) /\ o \notin dead
    BY <1>2 DEF Unfinished, Busy, Talk, DeadInv
  <2>2. NodeOK(o)
    BY <2>1 DEF Talk, LiveInv
  <2>3. call[o].op \in {"find", "add", "delete"} /\ call[o].op = call[exec[o]].op
    BY <2>2, NodeCalling, CallTypes DEF Talk
  <2> QED
    BY <2>1, <2>3 DEF Busy, CallsWrite
<1> QED
  BY <1>1, <1>2

\* A node that has none to finish calls for no write.
LEMMA IdleCalls ==
    ASSUME Talk, Files, NEW o \in Node, ~Unfinished(o)
    PROVE  ~CallsWrite(o)
<1> SUFFICES ASSUME CallsWrite(o) PROVE FALSE
  OBVIOUS
<1>1. BusyWith(o, call[o].name) /\ call[o].name \in Name
  BY DEF Files, CopyInv, Talk, SockInv, CallsWrite, Message, Caller
<1>2. WritingKey(o, call[o].name) => Busy(o)
  BY WritingBusy, CallTypes DEF Talk
<1> QED
  BY <1>1, <1>2, CrashAssumption DEF BusyWith, Unfinished

\* The loop of o and its call, as far as writes are concerned, are left alone.
WriteKept(o) ==
    /\ Busy(o)' <=> Busy(o)
    /\ Busy(o) => exec'[o] = exec[o] /\ call'[exec[o]] = call[exec[o]]
    /\ Unfinished(o) =>
          /\ call'[o] = call[o]
          /\ sock'[o] = "closed" <=> sock[o] = "closed"
          /\ sock'[o] \in {"taken", "answered"} => sock[o] \in {"taken", "answered"}
    /\ ~Unfinished(o) => ~CallsWrite(o)'

\* A step that leaves disks and writes alone keeps what is said of the disks.
LEMMA FilesKept ==
    ASSUME Talk, Files, CrashTypeOK', ExecInv',
           UNCHANGED <<store, loop, dead, torn>>,
           \A o \in Node : WriteKept(o)
    PROVE  Files'
<1>1. /\ store' = store /\ loop' = loop /\ dead' = dead /\ torn' = torn
      /\ CrashTypeOK /\ ExecInv
  BY DEF Talk
<1>2. ASSUME NEW o \in Node, NEW k \in Name
      PROVE  (WritingKey(o, k)' <=> WritingKey(o, k)) /\ (BusyWith(o, k)' <=> BusyWith(o, k))
  <2>1. WritingKey(o, k)' <=> Busy(o)' /\ call'[exec'[o]].name = k
    BY <1>1, WritingBusyNext DEF CrashTypeOK
  <2>2. WritingKey(o, k) <=> Busy(o) /\ call[exec[o]].name = k
    BY <1>1, WritingBusy DEF CrashTypeOK
  <2>3. /\ Busy(o)' <=> Busy(o)
        /\ Busy(o) => exec'[o] = exec[o] /\ call'[exec[o]] = call[exec[o]]
    BY DEF WriteKept
  <2>4. WritingKey(o, k)' <=> WritingKey(o, k)
    BY <2>1, <2>2, <2>3
  <2> QED
    BY <1>1, <2>4 DEF BusyWith
<1>3. LoopInv'
  BY <1>1 DEF Files, LoopInv
<1>4. BusyInv'
  BY <1>1 DEF Files, BusyInv, WriteKept
<1>5. ASSUME NEW o \in Node, CallsWrite(o)'
      PROVE  /\ CallsWrite(o) /\ call'[o] = call[o]
             /\ sock'[o] \in {"taken", "answered"} => sock[o] \in {"taken", "answered"}
  <2>1. Unfinished(o)
    BY <1>5 DEF WriteKept, CallsWrite
  <2> QED
    BY <1>5, <2>1 DEF WriteKept, CallsWrite
<1>6. ASSUME NEW r, NEW s, NEW k PROVE Same(r, s, k)' <=> Same(r, s, k)
  BY <1>1 DEF Same
<1>7. CopyInv'
  <2> SUFFICES ASSUME NEW o \in Node, CallsWrite(o)'
               PROVE  /\ o = Owner(call'[o].name) /\ BusyWith(o, call[o].name)'
                      /\ ~call'[o].rep /\ loop'[o] <= Level
                      /\ call'[o].to = Succs[o][loop'[o]] /\ call'[o].to # o
                      /\ call'[o].val = store'[o][call'[o].name]
                      /\ sock'[o] \in {"taken", "answered"} /\ call'[o].to \notin dead'
                            => Same(call[o].to, o, call[o].name)'
    BY DEF CopyInv
  <2>1. /\ CallsWrite(o) /\ call'[o] = call[o]
        /\ sock'[o] \in {"taken", "answered"} => sock[o] \in {"taken", "answered"}
    BY <1>5
  <2>2. /\ o = Owner(call[o].name) /\ BusyWith(o, call[o].name)
        /\ ~call[o].rep /\ loop[o] <= Level
        /\ call[o].to = Succs[o][loop[o]] /\ call[o].to # o
        /\ call[o].val = store[o][call[o].name]
        /\ sock[o] \in {"taken", "answered"} /\ call[o].to \notin dead
              => Same(call[o].to, o, call[o].name)
    BY <2>1 DEF Files, CopyInv
  <2>3. call[o].name \in Name
    BY <2>1 DEF Talk, SockInv, CallsWrite, Message, Caller
  <2>4. BusyWith(o, call[o].name)'
    BY <1>1, <1>2, <2>1, <2>2, <2>3 DEF BusyWith, WritingKey
  <2> QED
    BY <1>1, <2>1, <2>2, <2>4 DEF Same
<1>8. TornInv'
  <2> SUFFICES ASSUME NEW o \in Node, torn'[o] # None, sock'[o] # "closed"
               PROVE  CallsWrite(o)' /\ call'[o].name = torn'[o]
    BY DEF TornInv
  <2>1. Unfinished(o) /\ torn[o] # None
    BY <1>1 DEF Unfinished
  <2>2. call'[o] = call[o] /\ sock[o] # "closed"
    BY <2>1 DEF WriteKept
  <2>3. CallsWrite(o) /\ call[o].name = torn[o]
    BY <2>1, <2>2 DEF Files, TornInv
  <2> QED
    BY <1>1, <2>2, <2>3 DEF CallsWrite
<1>9. WritesInOrder'
  <2> SUFFICES ASSUME NEW k \in Name
               PROVE  LET o == Owner(k)
                          live == Replicas(o) \ dead'
                          busy == WritingKey(o, k)' \/ torn'[o] = k
                          at == IF busy /\ sock'[o] # "closed" THEN {call'[o].to} ELSE {}
                      IN  /\ \A r \in live : ~busy \/ r \in Visited(o)' => Same(r, o, k)'
                          /\ busy => \A r, s \in live \ (Visited(o)' \cup at) : Same(r, s, k)'
    BY DEF WritesInOrder
  <2>1. Owner(k) \in Node
    BY OwnerFound
  <2>2. /\ WritingKey(Owner(k), k)' <=> WritingKey(Owner(k), k)
        /\ Visited(Owner(k))' = Visited(Owner(k))
    BY <1>1, <1>2, <2>1 DEF Visited
  <2>3. WritingKey(Owner(k), k) \/ torn[Owner(k)] = k =>
           /\ call'[Owner(k)] = call[Owner(k)]
           /\ sock'[Owner(k)] = "closed" <=> sock[Owner(k)] = "closed"
    <3>1. WritingKey(Owner(k), k) => Busy(Owner(k))
      BY <1>1, <2>1, WritingBusy DEF CrashTypeOK
    <3>2. k # None
      BY CrashAssumption
    <3> QED
      BY <2>1, <3>1, <3>2 DEF WriteKept, Unfinished
  <2> QED
    BY <1>1, <1>6, <2>2, <2>3 DEF Files, WritesInOrder
<1>10. NoStrayCopy'
  BY <1>1 DEF Files, NoStrayCopy
<1> QED
  BY <1>3, <1>4, <1>7, <1>8, <1>9, <1>10 DEF Files

-----------------------------------------------------------------------------
(* The calling side *)

\* A client thread sends m for its request r: the lookup, or the call the lookup
\* was for.
ClientSends(c, r, m) ==
    /\ sock[c] \in {"closed", "answered"}
    /\ want' = [want EXCEPT ![c] = r]
    /\ Send(c, m)
    /\ answer' = [answer EXCEPT ![c] = None]
    /\ UNCHANGED <<exec, loop, store, dead, crashes, torn>>

LEMMA ClientSendsStep ==
    ASSUME Talk, Files, NEW c \in Client, NEW r \in Request, NEW m \in Message,
           m = FindMessage(m.to, r.name) \/ m = ForceMessage(Owner(r.name), r),
           ClientSends(c, r, m)
    PROVE  Talk' /\ Files'
<1>1. /\ CrashTypeOK /\ SockInv /\ QueueInv /\ ExecInv /\ ClientInv /\ LiveInv /\ DeadInv
      /\ ReplyInv /\ FailInv /\ c \in Caller /\ c \notin Node
  BY CallTypes DEF Talk
<1>2. /\ sock[c] \in {"closed", "answered"} /\ want' = [want EXCEPT ![c] = r] /\ Send(c, m)
      /\ answer' = [answer EXCEPT ![c] = None]
      /\ exec' = exec /\ loop' = loop /\ store' = store
      /\ dead' = dead /\ crashes' = crashes /\ torn' = torn
  BY DEF ClientSends
<1>3. /\ call' \in [Caller -> Message \cup {None}]
      /\ sock' \in [Caller -> CrashStates]
      /\ queue' \in [Node -> Seq(Caller)]
      /\ SockInv' /\ QueueInv'
      /\ call'[c] = m /\ sock'[c] = "sent"
      /\ \A d \in Caller : d # c => call'[d] = call[d] /\ sock'[d] = sock[d]
  <2>1. "sent" \in CrashStates /\ sock[c] # "sent"
    BY <1>2 DEF CrashStates
  <2> QED
    BY <1>1, <1>2, <2>1, CallTypes, SendQueued
<1>4. CrashTypeOK'
  BY <1>1, <1>2, <1>3 DEF CrashTypeOK, CrashStates
<1>5. /\ answer'[c] = None /\ \A d \in Caller : d # c => answer'[d] = answer[d]
      /\ want'[c] = r /\ \A d \in Client : d # c => want'[d] = want[d]
  BY <1>1, <1>2 DEF CrashTypeOK
<1>6. \A n \in Node : exec[n] # c /\ n # c /\ n \in Caller /\ exec[n] \in Caller \cup {None}
  BY <1>1, <1>2, NotRunning, CallTypes
<1>7. ExecInv'
  BY <1>1, <1>2, <1>3, <1>6 DEF ExecInv
<1>8. LiveInv' /\ DeadInv'
  BY <1>1, <1>2, <1>3, <1>6, NodeKept DEF LiveInv, DeadInv
<1>9. ClientInv'
  BY <1>1, <1>3, <1>5, CallTypes DEF ClientInv
<1>10. ReplyInv' /\ FailInv'
  BY <1>1, <1>2, <1>3, <1>5 DEF ReplyInv, FailInv
<1>11. Files'
  <2>1. ASSUME NEW o \in Node PROVE WriteKept(o)
    <3>1. Busy(o)' <=> Busy(o)
      BY <1>2, <1>3, <1>6 DEF Busy
    <3>2. Busy(o) => call'[exec[o]] = call[exec[o]]
      BY <1>3, <1>6 DEF Busy
    <3>3. call'[o] = call[o] /\ sock'[o] = sock[o]
      BY <1>3, <1>6
    <3> QED
      BY <1>2, <3>1, <3>2, <3>3, IdleCalls DEF WriteKept, CallsWrite
  <2> QED
    BY <1>1, <1>2, <1>4, <1>7, <2>1, FilesKept
<1> QED
  BY <1>3, <1>4, <1>7, <1>8, <1>9, <1>10, <1>11 DEF Talk

\* The call of a client thread is over, with an answer or an error.
ClientEnds(c) ==
    /\ want' = [want EXCEPT ![c] = None]
    /\ call' = [call EXCEPT ![c] = None]
    /\ sock' = [sock EXCEPT ![c] = "closed"]
    /\ answer' = [answer EXCEPT ![c] = None]
    /\ UNCHANGED <<queue, exec, loop, store, dead, crashes, torn>>

LEMMA ClientEndsStep ==
    ASSUME Talk, Files, NEW c \in Client, sock[c] \notin {"sent", "taken"}, ClientEnds(c)
    PROVE  Talk' /\ Files'
<1>1. /\ CrashTypeOK /\ SockInv /\ QueueInv /\ ExecInv /\ ClientInv /\ LiveInv /\ DeadInv
      /\ ReplyInv /\ FailInv /\ c \in Caller /\ c \notin Node
  BY CallTypes DEF Talk
<1>2. /\ want' = [want EXCEPT ![c] = None] /\ call' = [call EXCEPT ![c] = None]
      /\ sock' = [sock EXCEPT ![c] = "closed"] /\ answer' = [answer EXCEPT ![c] = None]
      /\ queue' = queue /\ exec' = exec /\ loop' = loop /\ store' = store
      /\ dead' = dead /\ crashes' = crashes /\ torn' = torn
  BY DEF ClientEnds
<1>3. CrashTypeOK'
  BY <1>1, <1>2 DEF CrashTypeOK
<1>4. /\ sock'[c] = "closed" /\ answer'[c] = None
      /\ \A d \in Caller : d # c => /\ call'[d] = call[d] /\ sock'[d] = sock[d]
                                   /\ answer'[d] = answer[d]
      /\ \A d \in Client : d # c => want'[d] = want[d]
  BY <1>1, <1>2 DEF CrashTypeOK
<1>5. \A n \in Node : exec[n] # c /\ n # c /\ n \in Caller /\ exec[n] \in Caller \cup {None}
  BY <1>1, <1>2, NotRunning, CallTypes
<1>6. SockInv'
  BY <1>1, <1>4 DEF SockInv
<1>7. QueueInv'
  <2>1. \A n \in Node : c \notin Elems(queue[n]) /\ Elems(queue[n]) \subseteq Caller
    BY <1>1, ElemsType, CallTypes DEF QueueInv
  <2> QED
    BY <1>1, <1>2, <1>4, <2>1 DEF QueueInv
<1>8. ExecInv'
  BY <1>1, <1>2, <1>4, <1>5 DEF ExecInv
<1>9. LiveInv' /\ DeadInv'
  BY <1>1, <1>2, <1>4, <1>5, NodeKept DEF LiveInv, DeadInv
<1>10. ClientInv'
  BY <1>1, <1>4, CallTypes DEF ClientInv
<1>11. ReplyInv' /\ FailInv'
  BY <1>1, <1>2, <1>4 DEF ReplyInv, FailInv
<1>12. Files'
  <2>1. ASSUME NEW o \in Node PROVE WriteKept(o)
    <3>1. Busy(o)' <=> Busy(o)
      BY <1>2, <1>4, <1>5 DEF Busy
    <3>2. Busy(o) => call'[exec[o]] = call[exec[o]]
      BY <1>4, <1>5 DEF Busy
    <3>3. call'[o] = call[o] /\ sock'[o] = sock[o]
      BY <1>4, <1>5
    <3> QED
      BY <1>2, <3>1, <3>2, <3>3, IdleCalls DEF WriteKept, CallsWrite
  <2> QED
    BY <1>1, <1>2, <1>3, <1>8, <2>1, FilesKept
<1> QED
  BY <1>3, <1>6, <1>7, <1>8, <1>9, <1>10, <1>11, <1>12 DEF Talk

-----------------------------------------------------------------------------
(* Lookups and reads *)

\* The loop of n answers the oldest command of its queue, c's, at once with a.
AnswersNow(n, c, a) ==
    /\ exec[n] = None /\ queue[n] # <<>> /\ c = Head(queue[n])
    /\ call[c].op \in {"find", "get"}
    /\ queue' = Dequeued(n)
    /\ sock' = [sock EXCEPT ![c] = "answered"]
    /\ answer' = [answer EXCEPT ![c] = a]
    /\ UNCHANGED <<want, call, exec, loop, store, dead, crashes, torn>>

\* A caller whose call is open and no write has no write to finish.
LEMMA NoWriteOpen ==
    ASSUME Talk, Files, NEW o \in Node, sock[o] # "closed",
           call[o].op \notin {"add", "delete"}
    PROVE  ~Unfinished(o)
BY UnfinishedCalls DEF CallsWrite

LEMMA AnswersNowStep ==
    ASSUME Talk, Files, NEW n \in Node \ dead, NEW c \in Caller,
           NEW a \in Node \cup Value \cup {Absent},
           call[c].op = "find" => a = Owner(call[c].name),
           AnswersNow(n, c, a)
    PROVE  Talk' /\ Files'
<1>1. /\ CrashTypeOK /\ SockInv /\ QueueInv /\ ExecInv /\ ClientInv /\ LiveInv /\ DeadInv
      /\ ReplyInv /\ FailInv
  BY DEF Talk
<1>2. /\ exec[n] = None /\ queue[n] # <<>> /\ c = Head(queue[n])
      /\ call[c].op \in {"find", "get"} /\ queue' = Dequeued(n)
      /\ sock' = [sock EXCEPT ![c] = "answered"] /\ answer' = [answer EXCEPT ![c] = a]
      /\ want' = want /\ call' = call /\ exec' = exec /\ loop' = loop /\ store' = store
      /\ dead' = dead /\ crashes' = crashes /\ torn' = torn
  BY DEF AnswersNow
<1>3. /\ sock[c] = "sent" /\ call[c] \in Message
      /\ queue' \in [Node -> Seq(Caller)]
      /\ \A m \in Node : /\ Distinct(queue'[m])
                         /\ Elems(queue'[m]) \subseteq Elems(queue[m]) \ {c}
  <2>1. HeadOK(n, c)
    BY <1>1, <1>2, HeadTaken, CallTypes DEF LiveInv
  <2> QED
    BY <1>2, <2>1 DEF HeadOK
<1>4. CrashTypeOK'
  BY <1>1, <1>2, <1>3 DEF CrashTypeOK
<1>5. /\ sock'[c] = "answered" /\ answer'[c] = a
      /\ \A d \in Caller : d # c => sock'[d] = sock[d] /\ answer'[d] = answer[d]
  BY <1>1, <1>2 DEF CrashTypeOK
<1>6. \A m \in Node : exec[m] # c /\ m \in Caller /\ exec[m] \in Caller \cup {None}
  BY <1>1, <1>3, NotRunning, CallTypes
<1>7. SockInv'
  BY <1>1, <1>2, <1>3, <1>5 DEF SockInv
<1>8. QueueInv'
  <2>1. \A m \in Node : Elems(queue[m]) \subseteq Caller
    BY <1>1, ElemsType, CallTypes
  <2> QED
    BY <1>1, <1>2, <1>3, <1>5, <2>1 DEF QueueInv
<1>9. ExecInv'
  BY <1>1, <1>2, <1>5, <1>6 DEF ExecInv
<1>10. LiveInv' /\ DeadInv'
  <2>1. \A m \in Node : sock'[m] # "closed" => sock[m] # "closed"
    BY <1>3, <1>5, <1>6
  <2> QED
    BY <1>1, <1>2, <2>1, NodeKept DEF LiveInv, DeadInv
<1>11. ClientInv'
  BY <1>1, <1>2, <1>3, <1>5, CallTypes DEF ClientInv
<1>12. ReplyInv' /\ FailInv'
  BY <1>1, <1>2, <1>5 DEF ReplyInv, FailInv
<1>13. Files'
  <2>1. ASSUME NEW o \in Node PROVE WriteKept(o)
    <3>1. (Busy(o)' <=> Busy(o)) /\ (CallsWrite(o)' <=> CallsWrite(o))
      BY <1>2, <1>3, <1>5, <1>6 DEF Busy, CallsWrite
    <3>2. Unfinished(o) => sock'[o] = sock[o]
      <4>1. Unfinished(o) => o # c
        BY <1>2, <1>3, NoWriteOpen
      <4> QED
        BY <1>5, <1>6, <4>1
    <3> QED
      BY <1>2, <3>1, <3>2, IdleCalls DEF WriteKept
  <2> QED
    BY <1>1, <1>2, <1>4, <1>9, <2>1, FilesKept
<1> QED
  BY <1>4, <1>7, <1>8, <1>9, <1>10, <1>11, <1>12, <1>13 DEF Talk

LEMMA ForwardCrashStep ==
    ASSUME Talk, Files, NEW n \in Node \ dead, NEW c \in Caller,
           ForwardFind(n, c), Survives
    PROVE  Talk' /\ Files'
<1> DEFINE q == Dequeued(n)
           m == FindMessage(Next1(n), call[c].name)
<1>1. /\ CrashTypeOK /\ SockInv /\ QueueInv /\ ExecInv /\ ClientInv /\ LiveInv /\ DeadInv
      /\ ReplyInv /\ FailInv /\ n \in Caller /\ n \notin Client /\ n \notin dead
  BY CallTypes DEF Talk
<1>2. /\ queue' = [queue EXCEPT ![n] = Tail(@), ![Next1(n)] = Append(@, n)]
      /\ exec' = [exec EXCEPT ![n] = c] /\ call' = [call EXCEPT ![n] = m]
      /\ sock' = [sock EXCEPT ![c] = "taken", ![n] = "sent"]
      /\ want' = want /\ answer' = answer /\ loop' = loop /\ store' = store
      /\ dead' = dead /\ crashes' = crashes /\ torn' = torn
  BY DEF ForwardFind, Survives
<1>3. /\ c # n /\ sock[c] = "sent" /\ call[c] \in Message /\ call[c].to = n
      /\ sock[n] = "closed" /\ exec[n] = None /\ call[c].op = "find"
      /\ q \in [Node -> Seq(Caller)]
      /\ \A o \in Node : /\ Distinct(q[o])
                         /\ Elems(q[o]) \subseteq Elems(queue[o]) \ {c}
  <2> HIDE DEF m
  <2>1. /\ exec[n] = None /\ queue[n] # <<>> /\ c = Head(queue[n])
        /\ call[c].op = "find"
    BY DEF ForwardFind, CanTake
  <2>2. HeadOK(n, c)
    BY <1>1, <2>1, HeadTaken, CallTypes DEF LiveInv
  <2> QED
    BY <2>1, <2>2 DEF HeadOK
<1>4. /\ m \in Message /\ m.to = Next1(n) /\ m.op = "find" /\ m.name = call[c].name
      /\ Next1(n) \in Node /\ Next1(n) # n
  <2>1. Next1(n) # n
    BY DEF ForwardFind, IAmPredecessorOfKey
  <2> QED
    BY <1>3, <2>1, SuccsType DEF FindMessage, Message
<1>5. queue' = [q EXCEPT ![Next1(n)] = Append(q[Next1(n)], n)]
  <2>1. queue \in [Node -> Seq(Caller)]
    BY <1>1, CallTypes
  <2> QED
    BY <1>2, <1>4, <2>1 DEF Dequeued
<1> HIDE DEF q, m
<1>6. /\ call' \in [Caller -> Message \cup {None}]
      /\ sock' \in [Caller -> {"closed", "sent", "taken", "answered", "failed", "short"}]
      /\ exec' \in [Node -> Caller \cup {None}]
      /\ call'[n] = m /\ sock'[n] = "sent" /\ sock'[c] = "taken" /\ exec'[n] = c
      /\ \A d \in Caller : d # n => call'[d] = call[d]
      /\ \A d \in Caller : d # n /\ d # c => sock'[d] = sock[d]
      /\ \A o \in Node : o # n => exec'[o] = exec[o]
  BY <1>1, <1>2, <1>3, <1>4 DEF CrashTypeOK
<1>7. \A o \in Node : /\ o \in Caller /\ exec[o] \in Caller \cup {None}
                      /\ exec[o] # c /\ exec[o] # n
  BY <1>1, <1>3, NotRunning, CallTypes
<1>8. queue' \in [Node -> Seq(Caller)] /\ QueueInv'
  <2>1. \A o \in Node : n \notin Elems(queue[o]) /\ Elems(queue[o]) \subseteq Caller
    BY <1>1, <1>3, ElemsType, CallTypes DEF QueueInv
  <2>2. \A o \in Node : /\ q[o] \in Seq(Caller) /\ Distinct(q[o]) /\ n \notin Elems(q[o])
    BY <1>3, <2>1
  <2>3. LET a == Append(q[Next1(n)], n)
        IN  /\ a \in Seq(Caller) /\ Distinct(a)
            /\ Elems(a) = Elems(q[Next1(n)]) \cup {n}
    BY <1>1, <1>4, <2>2, EnqueueElems
  <2>4. queue' \in [Node -> Seq(Caller)]
    BY <1>3, <1>4, <1>5, <2>3
  <2>5. ASSUME NEW o \in Node
        PROVE  /\ Distinct(queue'[o])
               /\ \A d \in Elems(queue'[o]) : sock'[d] = "sent" /\ call'[d].to = o
    <3>1. ASSUME NEW d \in Elems(q[o])
          PROVE  d # n /\ d # c /\ sock'[d] = "sent" /\ call'[d].to = o
      <4>1. d \in Elems(queue[o]) /\ d # c /\ d # n /\ d \in Caller
        BY <1>3, <2>1
      <4>2. sock[d] = "sent" /\ call[d].to = o
        BY <1>1, <4>1 DEF QueueInv
      <4> QED
        BY <1>6, <4>1, <4>2
    <3>2. CASE o = Next1(n)
      BY <1>3, <1>4, <1>5, <1>6, <2>3, <3>1, <3>2
    <3>3. CASE o # Next1(n)
      BY <1>3, <1>4, <1>5, <2>2, <3>1, <3>3
    <3> QED
      BY <3>2, <3>3
  <2> QED
    BY <2>4, <2>5 DEF QueueInv
<1>9. CrashTypeOK'
  BY <1>1, <1>2, <1>6, <1>8 DEF CrashTypeOK
<1>10. SockInv'
  BY <1>1, <1>3, <1>4, <1>6 DEF SockInv
<1>11. ExecInv'
  BY <1>1, <1>3, <1>6, <1>7 DEF ExecInv
<1>12. LiveInv' /\ DeadInv'
  <2>1. Onward(n, c)' = m
    BY <1>3, <1>6 DEF Onward, m, FindMessage, Next1
  <2>2. NodeOK(n)' /\ torn[n] = None
    BY <1>1, <1>4, <1>6, <2>1, CallTypes DEF NodeOK, LiveInv
  <2>3. ASSUME NEW o \in Node \ dead, o # n PROVE NodeOK(o)'
    BY <1>1, <1>2, <1>3, <1>6, <1>7, <2>3, NodeKept DEF LiveInv
  <2> QED
    BY <1>1, <1>2, <1>6, <2>2, <2>3 DEF LiveInv, DeadInv
<1>13. ClientInv'
  <2>1. ASSUME NEW d \in Client
        PROVE  /\ call'[d] = call[d] /\ want'[d] = want[d]
               /\ sock'[d] # "closed" => sock[d] # "closed"
    <3>1. d \in Caller /\ d # n
      BY <1>1, CallTypes
    <3> QED
      BY <1>2, <1>3, <1>6, <3>1
  <2> QED
    BY <1>1, <2>1 DEF ClientInv
<1>14. ReplyInv' /\ FailInv'
  BY <1>1, <1>2, <1>3, <1>6 DEF ReplyInv, FailInv
<1>15. Files'
  <2>1. ~Busy(n) /\ ~Busy(n)' /\ ~Unfinished(n) /\ ~CallsWrite(n)'
    BY <1>1, <1>3, <1>4, <1>6 DEF Busy, Unfinished, LiveInv, CallsWrite
  <2>2. ASSUME NEW o \in Node, o # n PROVE WriteKept(o)
    <3>1. /\ Busy(o)' <=> Busy(o)
          /\ Busy(o) => exec'[o] = exec[o] /\ call'[exec[o]] = call[exec[o]]
      BY <1>6, <1>7, <2>2 DEF Busy
    <3>2. call'[o] = call[o] /\ (sock'[o] = "closed" <=> sock[o] = "closed")
      BY <1>3, <1>6, <1>7, <2>2
    <3>3. Unfinished(o) => sock'[o] = sock[o]
      <4>1. Unfinished(o) => o # c
        BY <1>3, NoWriteOpen
      <4> QED
        BY <1>6, <1>7, <2>2, <4>1
    <3> QED
      BY <3>1, <3>2, <3>3, IdleCalls DEF WriteKept, CallsWrite
  <2>3. WriteKept(n)
    BY <2>1 DEF WriteKept
  <2> QED
    BY <1>1, <1>2, <1>9, <1>11, <2>2, <2>3, FilesKept
<1> QED
  BY <1>8, <1>9, <1>10, <1>11, <1>12, <1>13, <1>14, <1>15 DEF Talk

\* The loop of n passes the answer to its lookup on to c, or the lack of one.
PassesOn(n, c, state, a) ==
    /\ exec[n] = c /\ c # None /\ call[c].op = "find"
    /\ sock[n] \in {"answered", "failed"}
    /\ exec' = [exec EXCEPT ![n] = None]
    /\ call' = [call EXCEPT ![n] = None]
    /\ sock' = [sock EXCEPT ![n] = "closed", ![c] = state]
    /\ answer' = [answer EXCEPT ![n] = None, ![c] = a]
    /\ UNCHANGED <<want, queue, loop, store, dead, crashes, torn>>

LEMMA PassesOnStep ==
    ASSUME Talk, Files, NEW n \in Node \ dead, NEW c \in Caller,
           NEW state \in {"answered", "short"}, NEW a \in {Owner(call[c].name), None},
           state = "short" => a = None,
           PassesOn(n, c, state, a)
    PROVE  Talk' /\ Files'
<1>1. /\ CrashTypeOK /\ SockInv /\ QueueInv /\ ExecInv /\ ClientInv /\ LiveInv /\ DeadInv
      /\ ReplyInv /\ FailInv /\ n \in Caller /\ n \notin Client /\ n \notin dead
  BY CallTypes DEF Talk
<1>2. /\ exec[n] = c /\ c # None /\ call[c].op = "find" /\ sock[n] \in {"answered", "failed"}
      /\ exec' = [exec EXCEPT ![n] = None] /\ call' = [call EXCEPT ![n] = None]
      /\ sock' = [sock EXCEPT ![n] = "closed", ![c] = state]
      /\ answer' = [answer EXCEPT ![n] = None, ![c] = a]
      /\ want' = want /\ queue' = queue /\ loop' = loop /\ store' = store
      /\ dead' = dead /\ crashes' = crashes /\ torn' = torn
  BY DEF PassesOn
<1>3. /\ sock[c] = "taken" /\ call[c] \in Message /\ c # n /\ call[c].to = n
  BY <1>1, <1>2 DEF ExecInv, SockInv
<1>4. a \in Node \cup {None} /\ (a # None => a = Owner(call[c].name))
  BY <1>3, OwnerFound DEF Message
<1>5. /\ sock'[n] = "closed" /\ sock'[c] = state /\ exec'[n] = None
      /\ answer'[n] = None /\ answer'[c] = a
      /\ \A d \in Caller : d # n => call'[d] = call[d]
      /\ \A d \in Caller : d # n /\ d # c => sock'[d] = sock[d] /\ answer'[d] = answer[d]
      /\ \A o \in Node : o # n => exec'[o] = exec[o]
  BY <1>1, <1>2, <1>3 DEF CrashTypeOK
<1>6. CrashTypeOK'
  BY <1>1, <1>2, <1>4 DEF CrashTypeOK
<1>7. ASSUME NEW o \in Node
      PROVE  /\ o \in Caller /\ exec[o] \in Caller \cup {None} /\ exec[o] # n
             /\ o # n => exec[o] # c
  <2>1. o \in Caller /\ exec[o] \in Caller \cup {None} /\ exec[o] # n
    BY <1>1, <1>2, NotRunning, CallTypes
  <2> QED
    BY <1>1, <1>2, <1>3, <2>1 DEF ExecInv
<1>8. SockInv'
  BY <1>1, <1>3, <1>5 DEF SockInv
<1>9. QueueInv'
  <2> SUFFICES ASSUME NEW o \in Node
               PROVE  /\ Distinct(queue[o])
                      /\ \A d \in Elems(queue[o]) : sock'[d] = "sent" /\ call'[d].to = o
    BY <1>2 DEF QueueInv
  <2>1. Distinct(queue[o]) /\ Elems(queue[o]) \subseteq Caller
    BY <1>1, ElemsType, CallTypes DEF QueueInv
  <2>2. ASSUME NEW d \in Elems(queue[o]) PROVE sock'[d] = "sent" /\ call'[d].to = o
    <3>1. sock[d] = "sent" /\ call[d].to = o
      BY <1>1 DEF QueueInv
    <3>2. d # n /\ d # c /\ d \in Caller
      BY <1>2, <1>3, <2>1, <3>1
    <3> QED
      BY <1>5, <3>1, <3>2
  <2> QED
    BY <2>1, <2>2
<1>10. ExecInv'
  BY <1>1, <1>5, <1>7 DEF ExecInv
<1>11. LiveInv' /\ DeadInv'
  <2>1. NodeOK(n)'
    BY <1>5 DEF NodeOK
  <2>2. ASSUME NEW o \in Node \ dead, o # n PROVE NodeOK(o)'
    <3>1. sock'[o] # "closed" => sock[o] # "closed"
      BY <1>3, <1>5, <1>7, <2>2
    <3> QED
      BY <1>1, <1>2, <1>5, <1>7, <2>2, <3>1, NodeKept DEF LiveInv
  <2> QED
    BY <1>1, <1>2, <1>5, <2>1, <2>2 DEF LiveInv, DeadInv
<1>12. ClientInv'
  BY <1>1, <1>2, <1>3, <1>5, CallTypes DEF ClientInv
<1>13. ReplyInv' /\ FailInv'
  <2>1. ASSUME NEW d \in Caller, d # n, d # c
        PROVE  call'[d] = call[d] /\ sock'[d] = sock[d] /\ answer'[d] = answer[d]
    BY <1>5, <2>1
  <2>2. call'[c] = call[c]
    BY <1>3, <1>5
  <2>3. a # None => state = "answered"
    OBVIOUS
  <2>4. state # "failed" /\ state # "closed"
    OBVIOUS
  <2>5. ReplyInv'
    <3> SUFFICES ASSUME NEW d \in Caller, answer'[d] # None
                 PROVE  /\ sock'[d] = "answered" /\ call'[d].op \in {"find", "get"}
                        /\ call'[d].op = "find" => answer'[d] = Owner(call'[d].name)
      BY DEF ReplyInv
    <3>1. d # n
      BY <1>5
    <3>2. CASE d = c
      BY <1>2, <1>4, <1>5, <2>2, <2>3, <3>2
    <3>3. CASE d # c
      BY <1>1, <2>1, <3>1, <3>3 DEF ReplyInv
    <3> QED
      BY <3>2, <3>3
  <2>6. FailInv'
    <3> SUFFICES ASSUME NEW d \in Caller
                 PROVE  /\ sock'[d] = "failed" => call'[d].to \in dead
                        /\ sock'[d] = "short" => call'[d].op = "find"
      BY <1>2 DEF FailInv
    <3>1. CASE d = n
      BY <1>5, <3>1
    <3>2. CASE d = c
      BY <1>2, <1>5, <2>2, <2>4, <3>2
    <3>3. CASE d # n /\ d # c
      BY <1>1, <2>1, <3>3 DEF FailInv
    <3> QED
      BY <3>1, <3>2, <3>3
  <2> QED
    BY <2>5, <2>6
<1>14. Files'
  <2>1. ~Busy(n) /\ ~Busy(n)' /\ ~Unfinished(n) /\ ~CallsWrite(n)'
    BY <1>1, <1>2, <1>5 DEF Busy, Unfinished, LiveInv, CallsWrite
  <2>2. ASSUME NEW o \in Node, o # n PROVE WriteKept(o)
    <3>1. /\ Busy(o)' <=> Busy(o)
          /\ Busy(o) => exec'[o] = exec[o] /\ call'[exec[o]] = call[exec[o]]
      BY <1>5, <1>7, <2>2 DEF Busy
    <3>2. call'[o] = call[o] /\ (sock'[o] = "closed" <=> sock[o] = "closed")
      BY <1>3, <1>5, <1>7, <2>2
    <3>3. Unfinished(o) => sock'[o] = sock[o]
      <4>1. Unfinished(o) => o # c
        BY <1>2, <1>3, NoWriteOpen
      <4> QED
        BY <1>5, <1>7, <2>2, <4>1
    <3> QED
      BY <3>1, <3>2, <3>3, IdleCalls DEF WriteKept, CallsWrite
  <2>3. WriteKept(n)
    BY <2>1 DEF WriteKept
  <2> QED
    BY <1>1, <1>2, <1>6, <1>10, <2>2, <2>3, FilesKept
<1> QED
  BY <1>6, <1>8, <1>9, <1>10, <1>11, <1>12, <1>13, <1>14 DEF Talk
-----------------------------------------------------------------------------
(* Writes *)

\* Who may ask for a write of k: a client asks the owner, with replicas, and the
\* owner, while it writes k itself, asks the replica it has come to.
LEMMA CrashWriters ==
    ASSUME Talk, Files, NEW c \in Caller, sock[c] # "closed",
           call[c].op \in {"add", "delete"}
    PROVE  \/ c \notin Node /\ call[c].rep /\ call[c].to = Owner(call[c].name)
           \/ /\ c \in Node /\ ~call[c].rep /\ c = Owner(call[c].name)
              /\ BusyWith(c, call[c].name)
              /\ call[c].to = Succs[c][loop[c]] /\ call[c].to # c /\ loop[c] <= Level
              /\ call[c].val = store[c][call[c].name]
<1>1. CASE c \in Node
  BY <1>1 DEF Files, CopyInv, CallsWrite
<1>2. CASE c \notin Node
  <2>1. c \in Client
    BY <1>2 DEF Caller
  <2>2. \/ call[c] = FindMessage(call[c].to, want[c].name)
        \/ call[c] = ForceMessage(Owner(want[c].name), want[c])
    BY <2>1 DEF Talk, ClientInv
  <2>3. \A t, x : FindMessage(t, x).op = "find"
    BY DEF FindMessage
  <2>4. \A t, r : LET m == ForceMessage(t, r)
                 IN  m.to = t /\ m.name = r.name /\ m.op = r.op /\ (r.op # "get" => m.rep)
    BY DEF ForceMessage
  <2> QED
    BY <1>2, <2>2, <2>3, <2>4
<1> QED
  BY <1>1, <1>2

\* The replica a loop has come to is one of those it visits.
LEMMA AtReplica ==
    ASSUME CrashTypeOK, LoopInv, NEW o \in Node, loop[o] <= Level,
           Succs[o][loop[o]] # o
    PROVE  Succs[o][loop[o]] \in Replicas(o)
<1>1. loop[o] \in 1 .. Level
  BY SuccsType DEF CrashTypeOK
<1>2. ASSUME NEW h \in 1 .. loop[o] PROVE Succs[o][h] # o
  <2>1. loop[o] \in Nat /\ (h = loop[o] \/ h \in 1 .. loop[o] - 1)
    BY <1>1, LevelAssumption
  <2> QED
    BY <2>1 DEF LoopInv
<1> QED
  BY <1>1, <1>2 DEF Replicas

\* Replicas are nodes, and not the node itself.
LEMMA ReplicaNode ==
    ASSUME NEW o \in Node, NEW r \in Replicas(o)
    PROVE  r \in Node /\ r # o
<1>1. PICK j \in 1 .. Level : r = Succs[o][j] /\ \A h \in 1 .. j : Succs[o][h] # o
  BY DEF Replicas
<1> QED
  BY <1>1, SuccsType

LEMMA TakeWriteTalk ==
    ASSUME Talk, NEW n \in Node \ dead, NEW c \in Caller, TakeWrite(n, c), Survives
    PROVE  Talk'
<1> DEFINE k == call[c].name
           v == call[c].val
<1>1. /\ CrashTypeOK /\ SockInv /\ QueueInv /\ ExecInv /\ ClientInv /\ LiveInv /\ DeadInv
      /\ ReplyInv /\ FailInv /\ n \in Caller /\ n \notin Client /\ n \notin dead
  BY CallTypes DEF Talk
<1>2. /\ exec[n] = None /\ queue[n] # <<>> /\ c = Head(queue[n])
      /\ call[c].op \in {"add", "delete"} /\ queue' = Dequeued(n)
  BY DEF TakeWrite
<1>3. /\ sock' = [sock EXCEPT ![c] = "taken"] /\ exec' = [exec EXCEPT ![n] = c]
      /\ loop' = [loop EXCEPT ![n] = 1] /\ store' = [store EXCEPT ![n][k] = v]
      /\ want' = want /\ call' = call /\ answer' = answer
      /\ dead' = dead /\ crashes' = crashes /\ torn' = torn
  BY DEF TakeWrite, Survives
<1>4. /\ c # n /\ sock[c] = "sent" /\ call[c] \in Message /\ call[c].to = n
      /\ sock[n] = "closed"
      /\ queue' \in [Node -> Seq(Caller)]
      /\ \A o \in Node : /\ Distinct(queue'[o])
                         /\ Elems(queue'[o]) \subseteq Elems(queue[o]) \ {c}
  <2>1. HeadOK(n, c)
    BY <1>1, <1>2, HeadTaken, CallTypes DEF LiveInv
  <2> QED
    BY <1>2, <2>1 DEF HeadOK
<1>5. CrashTypeOK'
  <2>1. k \in Name /\ v \in Value \cup {Absent}
    BY <1>4 DEF Message
  <2>2. store' \in [Node -> [Name -> Value \cup {Absent}]]
    BY <1>1, <1>3, <2>1 DEF CrashTypeOK
  <2>3. loop' \in [Node -> 1 .. ListLen]
    BY <1>1, <1>3, SuccsType DEF CrashTypeOK
  <2> QED
    BY <1>1, <1>3, <1>4, <2>2, <2>3 DEF CrashTypeOK
<1>6. /\ sock'[c] = "taken" /\ exec'[n] = c
      /\ \A d \in Caller : d # c => sock'[d] = sock[d]
      /\ \A o \in Node : o # n => exec'[o] = exec[o] /\ loop'[o] = loop[o]
  BY <1>1, <1>3 DEF CrashTypeOK
<1> HIDE DEF k, v
<1>7. \A o \in Node : exec[o] # c /\ o \in Caller /\ exec[o] \in Caller \cup {None}
  BY <1>1, <1>4, NotRunning, CallTypes
<1>8. SockInv'
  BY <1>1, <1>3, <1>4, <1>6 DEF SockInv
<1>9. QueueInv'
  <2>1. \A o \in Node : Elems(queue[o]) \subseteq Caller
    BY <1>1, ElemsType, CallTypes
  <2> QED
    BY <1>1, <1>3, <1>4, <1>6, <2>1 DEF QueueInv
<1>10. ExecInv'
  BY <1>1, <1>2, <1>3, <1>4, <1>6, <1>7 DEF ExecInv
<1>11. LiveInv' /\ DeadInv'
  <2>1. NodeOK(n)'
    BY <1>1, <1>4, <1>6 DEF NodeOK
  <2>2. ASSUME NEW o \in Node \ dead, o # n PROVE NodeOK(o)'
    <3>1. sock'[o] # "closed" => sock[o] # "closed"
      BY <1>4, <1>6, <1>7
    <3> QED
      BY <1>1, <1>3, <1>6, <2>2, <3>1, NodeKept DEF LiveInv
  <2> QED
    BY <1>1, <1>3, <1>6, <2>1, <2>2 DEF LiveInv, DeadInv
<1>12. ClientInv'
  BY <1>1, <1>3, <1>4, <1>6, CallTypes DEF ClientInv
<1>13. ReplyInv' /\ FailInv'
  BY <1>1, <1>3, <1>4, <1>6 DEF ReplyInv, FailInv
<1> QED
  BY <1>5, <1>8, <1>9, <1>10, <1>11, <1>12, <1>13 DEF Talk

LEMMA TakeWriteFiles ==
    ASSUME Talk, Files, Talk', NEW n \in Node \ dead, NEW c \in Caller,
           TakeWrite(n, c), Survives
    PROVE  Files'
<1> DEFINE k == call[c].name
           v == call[c].val
<1>1. /\ CrashTypeOK /\ ExecInv /\ CrashTypeOK' /\ ExecInv' /\ n \in Node /\ n \notin dead
      /\ exec \in [Node -> Caller \cup {None}] /\ exec' \in [Node -> Caller \cup {None}]
  BY DEF Talk, CrashTypeOK
<1>2. /\ LoopInv /\ CopyInv /\ BusyInv /\ TornInv /\ WritesInOrder /\ NoStrayCopy
  BY DEF Files
<1>3. /\ exec[n] = None /\ call[c].op \in {"add", "delete"}
      /\ sock' = [sock EXCEPT ![c] = "taken"] /\ exec' = [exec EXCEPT ![n] = c]
      /\ loop' = [loop EXCEPT ![n] = 1] /\ store' = [store EXCEPT ![n][k] = v]
      /\ call' = call /\ dead' = dead /\ torn' = torn
  BY DEF TakeWrite, Survives
<1>4. /\ c # n /\ sock[c] = "sent" /\ call[c] \in Message /\ call[c].to = n
      /\ sock[n] = "closed" /\ torn[n] = None
  <2>1. NodeOK(n) /\ torn[n] = None
    BY <1>1 DEF Talk, LiveInv
  <2>2. HeadOK(n, c)
    BY <2>1, HeadTaken, CallTypes DEF Talk, TakeWrite
  <2> QED
    BY <2>1, <2>2 DEF HeadOK
<1>5. /\ sock'[c] = "taken" /\ exec'[n] = c /\ loop'[n] = 1 /\ sock'[n] = "closed"
      /\ \A d \in Caller : d # c => sock'[d] = sock[d]
      /\ \A o \in Node : o # n => exec'[o] = exec[o] /\ loop'[o] = loop[o]
  BY <1>1, <1>3, <1>4, CallTypes DEF CrashTypeOK, Talk
<1>6. k \in Name /\ v \in Value \cup {Absent} /\ store'[n][k] = v
  BY <1>1, <1>3, <1>4 DEF CrashTypeOK, Message
<1>7. \A o \in Node : \A x \in Name : o # n \/ x # k => store'[o][x] = store[o][x]
  BY <1>1, <1>3, <1>6 DEF CrashTypeOK
<1> HIDE DEF k, v
<1>8. \A o \in Node : /\ o \in Caller /\ exec[o] # c
                      /\ (sock'[o] = "closed" <=> sock[o] = "closed")
                      /\ (CallsWrite(o)' <=> CallsWrite(o))
  <2>1. \A o \in Node : o \in Caller /\ exec[o] # c
    BY <1>1, <1>4, NotRunning, CallTypes
  <2> QED
    BY <1>3, <1>4, <1>5, <2>1 DEF CallsWrite
<1>9. /\ \A o \in Node : o # n => (Busy(o)' <=> Busy(o))
      /\ ~Busy(n) /\ Busy(n)'
  <2>1. c # None
    BY CallTypes DEF Talk
  <2> QED
    BY <1>3, <1>5, <2>1 DEF Busy
<1>10. ASSUME NEW o \in Node, NEW x \in Name
       PROVE  /\ o # n => (WritingKey(o, x)' <=> WritingKey(o, x))
              /\ o = n => ~WritingKey(o, x) /\ (WritingKey(o, x)' <=> x = k)
              /\ BusyWith(o, x) => o # n /\ BusyWith(o, x)'
  <2>1. WritingKey(o, x)' <=> Busy(o)' /\ call[exec'[o]].name = x
    BY <1>1, <1>3, WritingBusyNext
  <2>2. WritingKey(o, x) <=> Busy(o) /\ call[exec[o]].name = x
    BY <1>1, WritingBusy
  <2>3. o # n => (WritingKey(o, x)' <=> WritingKey(o, x))
    BY <1>5, <1>9, <2>1, <2>2
  <2>4. o = n => ~WritingKey(o, x) /\ (WritingKey(o, x)' <=> x = k)
    BY <1>5, <1>9, <2>1, <2>2 DEF k
  <2>5. BusyWith(o, x) => o # n
    BY <1>4, <2>4, CrashAssumption DEF BusyWith
  <2> QED
    BY <1>3, <2>3, <2>4, <2>5 DEF BusyWith
<1>11. \/ c \notin Node /\ n = Owner(k)
       \/ /\ c \in Node /\ c = Owner(k) /\ BusyWith(c, k)
          /\ n = Succs[c][loop[c]] /\ n \in Replicas(c) /\ v = store[c][k]
  <2>1. CASE c \notin Node
    BY <1>3, <1>4, <2>1, CrashWriters DEF k
  <2>2. CASE c \in Node
    <3>1. /\ c = Owner(k) /\ BusyWith(c, k) /\ n = Succs[c][loop[c]]
          /\ loop[c] <= Level /\ v = store[c][k]
      BY <1>3, <1>4, <2>2, CrashWriters DEF k, v
    <3>2. n \in Replicas(c)
      BY <1>1, <1>2, <1>4, <2>2, <3>1, AtReplica
    <3> QED
      BY <2>2, <3>1, <3>2
  <2> QED
    BY <2>1, <2>2
<1>12. LoopInv'
  BY <1>2, <1>5 DEF LoopInv
<1>13. BusyInv'
  <2> SUFFICES ASSUME NEW o \in Node, Busy(o)'
               PROVE  store'[o][call[exec'[o]].name] = call[exec'[o]].val
    BY <1>3 DEF BusyInv
  <2>1. CASE o = n
    BY <1>5, <1>6, <2>1 DEF k, v
  <2>2. CASE o # n
    <3>1. Busy(o) /\ exec'[o] = exec[o]
      BY <1>5, <1>9, <2>2
    <3>2. call[exec[o]].name \in Name
      <4>1. sock[exec[o]] = "taken" /\ exec[o] \in Caller
        BY <1>1, <3>1 DEF ExecInv, Busy
      <4> QED
        BY <4>1 DEF Talk, SockInv, Message
    <3> QED
      BY <1>2, <1>7, <2>2, <3>1, <3>2 DEF BusyInv
  <2> QED
    BY <2>1, <2>2
<1>14. TornInv'
  BY <1>2, <1>3, <1>8 DEF TornInv
<1>15. CopyInv'
  <2> SUFFICES ASSUME NEW o \in Node, CallsWrite(o),
                      NEW x, x = call[o].name, NEW r, r = call[o].to
               PROVE  /\ o = Owner(x) /\ BusyWith(o, x)'
                      /\ ~call[o].rep /\ loop'[o] <= Level
                      /\ r = Succs[o][loop'[o]] /\ r # o /\ call[o].val = store'[o][x]
                      /\ sock'[o] \in {"taken", "answered"} /\ r \notin dead
                            => store'[r][x] = store'[o][x]
    BY <1>3, <1>8 DEF CopyInv, Same, BusyWith, WritingKey, Writing
  <2>1. /\ o = Owner(x) /\ BusyWith(o, x) /\ ~call[o].rep /\ loop[o] <= Level
        /\ r = Succs[o][loop[o]] /\ r # o /\ call[o].val = store[o][x]
        /\ sock[o] \in {"taken", "answered"} /\ r \notin dead => store[r][x] = store[o][x]
    BY <1>2 DEF CopyInv, Same
  <2>2. x \in Name /\ r \in Node
    BY <1>8 DEF Talk, SockInv, CallsWrite, Message
  <2>3. o # n /\ BusyWith(o, x)'
    BY <1>10, <2>1, <2>2
  <2>4. loop'[o] = loop[o] /\ store'[o][x] = store[o][x]
    BY <1>5, <1>7, <2>2, <2>3
  <2>5. ASSUME sock'[o] \in {"taken", "answered"}, r \notin dead
        PROVE  store'[r][x] = store'[o][x]
    <3>1. CASE o = c
      BY <1>4, <1>6, <2>1, <2>4, <3>1 DEF k, v
    <3>2. CASE o # c
      <4>1. store[r][x] = store[o][x]
        BY <1>5, <1>8, <2>1, <2>5, <3>2
      <4>2. r # n \/ x # k
        BY <1>11, <2>1, <2>3, <3>2
      <4> QED
        BY <1>7, <2>2, <2>4, <4>1, <4>2
    <3> QED
      BY <3>1, <3>2
  <2> QED
    BY <2>1, <2>3, <2>4, <2>5
<1>16. WritesInOrder'
  <2> SUFFICES ASSUME NEW x \in Name
               PROVE  LET o == Owner(x)
                          live == Replicas(o) \ dead
                          busy == WritingKey(o, x)' \/ torn[o] = x
                          at == IF busy /\ sock'[o] # "closed" THEN {call[o].to} ELSE {}
                      IN  /\ \A r \in live : ~busy \/ r \in Visited(o)'
                                => store'[r][x] = store'[o][x]
                          /\ busy => \A r, s \in live \ (Visited(o)' \cup at) :
                                store'[r][x] = store'[s][x]
    BY <1>3 DEF WritesInOrder, Same
  <2>1. Owner(x) \in Node /\ \A r \in Replicas(Owner(x)) : r \in Node /\ r # Owner(x)
    BY OwnerFound, ReplicaNode
  <2> DEFINE o == Owner(x)
             live == Replicas(o) \ dead
             busy == WritingKey(o, x) \/ torn[o] = x
             at == IF busy /\ sock[o] # "closed" THEN {call[o].to} ELSE {}
  <2>2. /\ \A r \in live : ~busy \/ r \in Visited(o) => store[r][x] = store[o][x]
        /\ busy => \A r, s \in live \ (Visited(o) \cup at) : store[r][x] = store[s][x]
    BY <1>2 DEF WritesInOrder, Same
  <2>3. /\ o # n => /\ WritingKey(o, x)' <=> WritingKey(o, x)
                    /\ Visited(o)' = Visited(o)
        /\ o = n => ~WritingKey(o, x) /\ (WritingKey(o, x)' <=> x = k) /\ torn[o] # x
        /\ sock'[o] = "closed" <=> sock[o] = "closed"
    BY <1>4, <1>5, <1>8, <1>10, <2>1, CrashAssumption DEF Visited
  <2>4. CASE x # k
    <3>1. \A r \in Replicas(o) \cup {o} : store'[r][x] = store[r][x]
      BY <1>7, <2>1, <2>4
    <3>2. CASE o = n
      BY <2>2, <2>3, <2>4, <3>1, <3>2
    <3>3. CASE o # n
      BY <2>2, <2>3, <3>1, <3>3
    <3> QED
      BY <3>2, <3>3
  <2>5. CASE x = k /\ o = n
    <3>1. \A r \in Replicas(o) : store'[r][x] = store[r][x]
      BY <1>7, <2>1, <2>5
    <3>2. ~busy /\ WritingKey(o, x)' /\ sock'[o] = "closed"
      BY <1>5, <2>3, <2>5
    <3>3. Visited(o)' = {}
      BY <1>5, <2>5 DEF Visited
    <3> QED
      BY <2>2, <3>1, <3>2, <3>3
  <2>6. CASE x = k /\ o # n
    <3>1. /\ c = o /\ BusyWith(o, x) /\ v = store[o][x] /\ call[o].to = n
      BY <1>4, <1>11, <2>6
    <3>2. busy /\ at = {n} /\ sock'[o] # "closed" /\ (WritingKey(o, x)' \/ torn[o] = x)
      BY <1>4, <2>3, <2>6, <3>1 DEF BusyWith
    <3>3. store'[o][x] = store[o][x] /\ store'[n][x] = store'[o][x]
      BY <1>6, <1>7, <2>1, <2>6, <3>1
    <3>4. \A r \in Replicas(o) : r # n => store'[r][x] = store[r][x]
      BY <1>7, <2>1
    <3> HIDE DEF o, busy, at
    <3>5. \A r \in live : r \in Visited(o)' => store'[r][x] = store'[o][x]
      BY <2>2, <2>3, <2>6, <3>2, <3>3, <3>4
    <3>6. \A r, s \in live \ (Visited(o)' \cup {n}) : store'[r][x] = store'[s][x]
      BY <2>2, <2>3, <2>6, <3>2, <3>4
    <3> QED
      BY <3>1, <3>2, <3>5, <3>6 DEF o
  <2> QED
    BY <2>4, <2>5, <2>6
<1>17. NoStrayCopy'
  <2>1. n = Owner(k) \/ n \in Replicas(Owner(k))
    BY <1>11
  <2> QED
    BY <1>2, <1>7, <2>1 DEF NoStrayCopy
<1> QED
  BY <1>12, <1>13, <1>14, <1>15, <1>16, <1>17 DEF Files

LEMMA ReplicateCrashTalk ==
    ASSUME Talk, NEW n \in Node \ dead, NEW c \in Caller, Replicate(n, c), Survives
    PROVE  /\ Talk'
           /\ call'[n] = [call[c] EXCEPT !.to = Succs[n][loop[n]], !.rep = FALSE]
           /\ sock'[n] = "sent"
           /\ \A d \in Caller : d # n => call'[d] = call[d] /\ sock'[d] = sock[d]
<1> DEFINE m == [call[c] EXCEPT !.to = Succs[n][loop[n]], !.rep = FALSE]
<1>1. /\ CrashTypeOK /\ SockInv /\ QueueInv /\ ExecInv /\ ClientInv /\ LiveInv /\ DeadInv
      /\ ReplyInv /\ FailInv /\ n \in Caller /\ n \notin Client /\ n \notin dead
  BY CallTypes DEF Talk
<1>2. /\ exec[n] = c /\ c # None /\ call[c].op \in {"add", "delete"}
      /\ sock[n] = "closed" /\ ~LoopOver(n, call[c].rep) /\ Send(n, m)
      /\ want' = want /\ answer' = answer /\ exec' = exec /\ loop' = loop /\ store' = store
      /\ dead' = dead /\ crashes' = crashes /\ torn' = torn
  BY DEF Replicate, Writing, Survives
<1>3. /\ sock[c] = "taken" /\ c # n /\ call[c] \in Message
      /\ loop[n] \in 1 .. Level
  BY <1>1, <1>2, LevelAssumption DEF ExecInv, SockInv, CrashTypeOK, LoopOver, ListLen
<1>4. m \in Message /\ m.op = call[c].op /\ m.op # "find"
  BY <1>2, <1>3, SuccsType DEF Message
<1> HIDE DEF m
<1>5. /\ call' \in [Caller -> Message \cup {None}]
      /\ sock' \in [Caller -> CrashStates]
      /\ queue' \in [Node -> Seq(Caller)]
      /\ SockInv' /\ QueueInv'
      /\ call'[n] = m /\ sock'[n] = "sent"
      /\ \A d \in Caller : d # n => call'[d] = call[d] /\ sock'[d] = sock[d]
  <2>1. "sent" \in CrashStates /\ sock[n] # "sent"
    BY <1>2 DEF CrashStates
  <2> QED
    BY <1>1, <1>2, <1>4, <2>1, CallTypes, SendQueued
<1>6. CrashTypeOK'
  BY <1>1, <1>2, <1>5 DEF CrashTypeOK, CrashStates
<1>7. \A o \in Node : exec[o] # n /\ o \in Caller /\ exec[o] \in Caller \cup {None}
  BY <1>1, <1>2, NotRunning, CallTypes
<1>8. ExecInv'
  BY <1>1, <1>2, <1>5, <1>7 DEF ExecInv
<1>9. LiveInv' /\ DeadInv'
  <2>1. call'[c] = call[c]
    BY <1>3, <1>5
  <2>2. Onward(n, c)' = m
    BY <1>2, <2>1 DEF Onward, m
  <2>3. m.to # n
    BY <1>2, <1>3 DEF m, LoopOver, Message
  <2>4. NodeOK(n)'
    BY <1>2, <1>5, <2>1, <2>2, <2>3 DEF NodeOK, LoopOver
  <2>5. ASSUME NEW o \in Node \ dead, o # n PROVE NodeOK(o)'
    BY <1>1, <1>2, <1>5, <1>7, <2>5, NodeKept DEF LiveInv
  <2> QED
    BY <1>1, <1>2, <2>4, <2>5 DEF LiveInv, DeadInv
<1>10. ClientInv'
  BY <1>1, <1>2, <1>5, CallTypes DEF ClientInv
<1>11. ReplyInv' /\ FailInv'
  BY <1>1, <1>2, <1>5 DEF ReplyInv, FailInv
<1> QED
  BY <1>5, <1>6, <1>8, <1>9, <1>10, <1>11 DEF Talk, m

LEMMA ReplicateCrashStep ==
    ASSUME Talk, Files, NEW n \in Node \ dead, NEW c \in Caller, Replicate(n, c), Survives
    PROVE  Talk' /\ Files'
<1> DEFINE k == call[c].name
           m == [call[c] EXCEPT !.to = Succs[n][loop[n]], !.rep = FALSE]
<1>1. /\ CrashTypeOK /\ ExecInv /\ n \in Node /\ n \in Caller /\ n \notin dead
      /\ torn[n] = None /\ exec \in [Node -> Caller \cup {None}]
  BY CallTypes DEF Talk, LiveInv
<1>2. /\ LoopInv /\ CopyInv /\ BusyInv /\ TornInv /\ WritesInOrder /\ NoStrayCopy
  BY DEF Files
<1>3. /\ exec[n] = c /\ c # None /\ call[c].op \in {"add", "delete"}
      /\ sock[n] = "closed" /\ ~LoopOver(n, call[c].rep)
      /\ exec' = exec /\ loop' = loop /\ store' = store /\ dead' = dead /\ torn' = torn
  BY DEF Replicate, Writing, Survives
<1>4. /\ Talk' /\ call'[n] = m /\ sock'[n] = "sent"
      /\ \A d \in Caller : d # n => call'[d] = call[d] /\ sock'[d] = sock[d]
  BY ReplicateCrashTalk
<1>5. /\ sock[c] = "taken" /\ call[c] \in Message /\ call[c].to = n /\ call[c].rep
      /\ c # n /\ Busy(n)
  BY <1>1, <1>3 DEF ExecInv, Talk, SockInv, LoopOver, Busy
<1>6. n = Owner(k)
  BY <1>3, <1>5, CrashWriters
<1>7. /\ m.name = k /\ m.op = call[c].op /\ m.val = store[n][k] /\ ~m.rep
      /\ m.to = Succs[n][loop[n]] /\ m.to # n /\ loop[n] <= Level /\ k \in Name
  <2>1. store[n][k] = call[c].val
    BY <1>2, <1>3, <1>5 DEF BusyInv
  <2>2. loop[n] \in 1 .. ListLen /\ Succs[n][loop[n]] # n /\ loop[n] <= Level
    BY <1>1, <1>3, <1>5, LevelAssumption DEF CrashTypeOK, LoopOver, ListLen
  <2> QED
    BY <1>5, <2>1, <2>2 DEF Message
<1> HIDE DEF m, k
<1>8. \A o \in Node : o \in Caller /\ exec[o] # n /\ exec[o] \in Caller \cup {None}
  BY <1>1, <1>3, NotRunning, CallTypes DEF Talk
<1>9. \A o \in Node : /\ Busy(o)' <=> Busy(o)
                      /\ Busy(o) => call'[exec[o]] = call[exec[o]]
  BY <1>3, <1>4, <1>8 DEF Busy
<1>10. ASSUME NEW o \in Node, NEW x PROVE WritingKey(o, x)' <=> WritingKey(o, x)
  <2>1. exec' \in [Node -> Caller \cup {None}] /\ ExecInv'
    BY <1>1, <1>3, <1>4 DEF Talk
  <2>2. WritingKey(o, x)' <=> Busy(o)' /\ call'[exec'[o]].name = x
    BY <2>1, WritingBusyNext
  <2>3. WritingKey(o, x) <=> Busy(o) /\ call[exec[o]].name = x
    BY <1>1, WritingBusy
  <2> QED
    BY <1>3, <1>9, <2>2, <2>3
<1>11. ASSUME NEW x PROVE WritingKey(n, x) <=> x = k
  BY <1>1, <1>3, <1>5, WritingBusy DEF k
<1>12. LoopInv' /\ BusyInv' /\ NoStrayCopy'
  BY <1>2, <1>3, <1>9 DEF LoopInv, BusyInv, NoStrayCopy
<1>13. TornInv'
  BY <1>1, <1>2, <1>3, <1>4, <1>8 DEF TornInv, CallsWrite
<1>14. CopyInv'
  <2> SUFFICES ASSUME NEW o \in Node, CallsWrite(o)', NEW x, x = call'[o].name
               PROVE  /\ o = Owner(x) /\ BusyWith(o, x)'
                      /\ ~call'[o].rep /\ loop[o] <= Level
                      /\ call'[o].to = Succs[o][loop[o]] /\ call'[o].to # o
                      /\ call'[o].val = store[o][x]
                      /\ sock'[o] \in {"taken", "answered"} /\ call'[o].to \notin dead
                            => store[call'[o].to][x] = store[o][x]
    BY <1>3 DEF CopyInv, Same, BusyWith, WritingKey, Writing
  <2>1. CASE o = n
    <3>1. x = k /\ BusyWith(o, x)'
      BY <1>4, <1>7, <1>10, <1>11, <2>1 DEF BusyWith
    <3> QED
      BY <1>4, <1>6, <1>7, <2>1, <3>1
  <2>2. CASE o # n
    <3>1. call'[o] = call[o] /\ sock'[o] = sock[o] /\ CallsWrite(o)
      BY <1>4, <1>8, <2>2 DEF CallsWrite
    <3>2. BusyWith(o, x)' <=> BusyWith(o, x)
      BY <1>3, <1>10 DEF BusyWith
    <3> QED
      BY <1>2, <3>1, <3>2 DEF CopyInv, Same
  <2> QED
    BY <2>1, <2>2
<1>15. WritesInOrder'
  <2> SUFFICES ASSUME NEW x \in Name
               PROVE  LET o == Owner(x)
                          live == Replicas(o) \ dead
                          busy == WritingKey(o, x) \/ torn[o] = x
                          at == IF busy /\ sock'[o] # "closed" THEN {call'[o].to} ELSE {}
                      IN  /\ \A r \in live : ~busy \/ r \in Visited(o)
                                => store[r][x] = store[o][x]
                          /\ busy => \A r, s \in live \ (Visited(o) \cup at) :
                                store[r][x] = store[s][x]
    BY <1>3, <1>10, OwnerFound DEF WritesInOrder, Same, Visited
  <2> DEFINE o == Owner(x)
             live == Replicas(o) \ dead
             busy == WritingKey(o, x) \/ torn[o] = x
             at == IF busy /\ sock[o] # "closed" THEN {call[o].to} ELSE {}
  <2>1. /\ \A r \in live : ~busy \/ r \in Visited(o) => store[r][x] = store[o][x]
        /\ busy => \A r, s \in live \ (Visited(o) \cup at) : store[r][x] = store[s][x]
    BY <1>2 DEF WritesInOrder, Same
  <2>2. o \in Node
    BY OwnerFound
  <2>3. CASE o # n
    BY <1>4, <1>8, <2>1, <2>2, <2>3
  <2>4. CASE o = n
    <3>1. at = {}
      BY <1>3, <2>4
    <3> QED
      BY <2>1, <3>1
  <2> QED
    BY <2>3, <2>4
<1> QED
  BY <1>4, <1>12, <1>13, <1>14, <1>15 DEF Files

\* The replication loop of n goes on to its next replica, whether the last one has
\* answered or died.
Advance(n, c) ==
    /\ exec[n] = c /\ c # None /\ call[c].op \in {"add", "delete"}
    /\ sock[n] \in {"answered", "failed"}
    /\ call' = [call EXCEPT ![n] = None]
    /\ sock' = [sock EXCEPT ![n] = "closed"]
    /\ answer' = [answer EXCEPT ![n] = None]
    /\ loop' = [loop EXCEPT ![n] = @ + 1]
    /\ UNCHANGED <<want, queue, exec, store, dead, crashes, torn>>

LEMMA AdvanceTalk ==
    ASSUME Talk, NEW n \in Node \ dead, NEW c \in Caller, Advance(n, c)
    PROVE  /\ Talk' /\ sock'[n] = "closed"
           /\ \A d \in Caller : d # n => call'[d] = call[d] /\ sock'[d] = sock[d]
           /\ loop[n] \in 1 .. Level /\ loop'[n] = loop[n] + 1
           /\ Succs[n][loop[n]] # n
           /\ \A o \in Node : o # n => loop'[o] = loop[o]
<1>1. /\ CrashTypeOK /\ SockInv /\ QueueInv /\ ExecInv /\ ClientInv /\ LiveInv /\ DeadInv
      /\ ReplyInv /\ FailInv /\ n \in Caller /\ n \notin Client /\ n \notin dead
      /\ exec \in [Node -> Caller \cup {None}]
  BY CallTypes DEF Talk
<1>2. /\ exec[n] = c /\ c # None /\ call[c].op \in {"add", "delete"}
      /\ sock[n] \in {"answered", "failed"}
      /\ call' = [call EXCEPT ![n] = None] /\ sock' = [sock EXCEPT ![n] = "closed"]
      /\ answer' = [answer EXCEPT ![n] = None] /\ loop' = [loop EXCEPT ![n] = @ + 1]
      /\ want' = want /\ queue' = queue /\ exec' = exec /\ store' = store
      /\ dead' = dead /\ crashes' = crashes /\ torn' = torn
  BY DEF Advance
<1>3. sock[c] = "taken" /\ c # n /\ call[n].op # "find" /\ ~LoopOver(n, call[c].rep)
  <2>1. NodeOK(n)
    BY <1>1 DEF LiveInv
  <2> QED
    BY <1>1, <1>2, <2>1, NodeCalling DEF NodeOK
<1>4. /\ loop[n] \in 1 .. Level /\ loop[n] + 1 \in 1 .. ListLen /\ Succs[n][loop[n]] # n
  BY <1>1, <1>3, LevelAssumption DEF CrashTypeOK, LoopOver, ListLen
<1>5. CrashTypeOK'
  BY <1>1, <1>2, <1>4 DEF CrashTypeOK
<1>6. /\ sock'[n] = "closed" /\ loop'[n] = loop[n] + 1 /\ answer'[n] = None
      /\ \A d \in Caller : d # n => /\ call'[d] = call[d] /\ sock'[d] = sock[d]
                                   /\ answer'[d] = answer[d]
      /\ \A o \in Node : o # n => loop'[o] = loop[o]
  BY <1>1, <1>2 DEF CrashTypeOK
<1>7. \A o \in Node : exec[o] # n /\ o \in Caller /\ exec[o] \in Caller \cup {None}
  BY <1>1, <1>2, NotRunning, CallTypes
<1>8. SockInv'
  BY <1>1, <1>6 DEF SockInv
<1>9. QueueInv'
  <2>1. \A o \in Node : n \notin Elems(queue[o]) /\ Elems(queue[o]) \subseteq Caller
    BY <1>1, <1>2, ElemsType, CallTypes DEF QueueInv
  <2> QED
    BY <1>1, <1>2, <1>6, <2>1 DEF QueueInv
<1>10. ExecInv'
  BY <1>1, <1>2, <1>6, <1>7 DEF ExecInv
<1>11. LiveInv' /\ DeadInv'
  <2>1. NodeOK(n)'
    BY <1>6 DEF NodeOK
  <2>2. ASSUME NEW o \in Node \ dead, o # n PROVE NodeOK(o)'
    BY <1>1, <1>2, <1>6, <1>7, <2>2, NodeKept DEF LiveInv
  <2> QED
    BY <1>1, <1>2, <2>1, <2>2 DEF LiveInv, DeadInv
<1>12. ClientInv'
  BY <1>1, <1>2, <1>6, CallTypes DEF ClientInv
<1>13. ReplyInv' /\ FailInv'
  BY <1>1, <1>2, <1>6 DEF ReplyInv, FailInv
<1> QED
  BY <1>4, <1>5, <1>6, <1>8, <1>9, <1>10, <1>11, <1>12, <1>13 DEF Talk

LEMMA AdvanceStep ==
    ASSUME Talk, Files, NEW n \in Node \ dead, NEW c \in Caller, Advance(n, c)
    PROVE  Talk' /\ Files'
<1> DEFINE k == call[c].name
<1>1. /\ CrashTypeOK /\ ExecInv /\ n \in Node /\ n \in Caller /\ n \notin dead
      /\ torn[n] = None /\ exec \in [Node -> Caller \cup {None}] /\ NodeOK(n)
  BY CallTypes DEF Talk, LiveInv
<1>2. /\ LoopInv /\ CopyInv /\ BusyInv /\ TornInv /\ WritesInOrder /\ NoStrayCopy
  BY DEF Files
<1>3. /\ exec[n] = c /\ c # None /\ call[c].op \in {"add", "delete"}
      /\ sock[n] \in {"answered", "failed"}
      /\ exec' = exec /\ store' = store /\ dead' = dead /\ torn' = torn
  BY DEF Advance
<1>4. /\ Talk' /\ sock'[n] = "closed"
      /\ \A d \in Caller : d # n => call'[d] = call[d] /\ sock'[d] = sock[d]
      /\ loop[n] \in 1 .. Level /\ loop'[n] = loop[n] + 1 /\ Succs[n][loop[n]] # n
      /\ \A o \in Node : o # n => loop'[o] = loop[o]
  BY AdvanceTalk
<1>5. Busy(n) /\ call[n].name = k /\ CallsWrite(n)
  BY <1>1, <1>3, NodeCalling DEF Busy, CallsWrite, Talk
<1>6. /\ n = Owner(k) /\ call[n].to = Succs[n][loop[n]]
      /\ call[n].to \notin dead => store[call[n].to][k] = store[n][k]
  <2>1. /\ n = Owner(k) /\ call[n].to = Succs[n][loop[n]]
        /\ sock[n] = "answered" /\ call[n].to \notin dead => store[call[n].to][k] = store[n][k]
    BY <1>2, <1>5 DEF CopyInv, Same
  <2>2. sock[n] = "failed" => call[n].to \in dead
    BY <1>1 DEF Talk, FailInv
  <2> QED
    BY <1>3, <2>1, <2>2
<1> HIDE DEF k
<1>7. \A o \in Node : o \in Caller /\ exec[o] # n /\ exec[o] \in Caller \cup {None}
  BY <1>1, <1>3, NotRunning, CallTypes DEF Talk
<1>8. \A o \in Node : /\ Busy(o)' <=> Busy(o)
                      /\ Busy(o) => call'[exec[o]] = call[exec[o]]
  BY <1>3, <1>4, <1>7 DEF Busy
<1>9. ASSUME NEW o \in Node, NEW x PROVE WritingKey(o, x)' <=> WritingKey(o, x)
  <2>1. exec' \in [Node -> Caller \cup {None}] /\ ExecInv'
    BY <1>1, <1>3, <1>4 DEF Talk
  <2>2. WritingKey(o, x)' <=> Busy(o)' /\ call'[exec'[o]].name = x
    BY <2>1, WritingBusyNext
  <2>3. WritingKey(o, x) <=> Busy(o) /\ call[exec[o]].name = x
    BY <1>1, WritingBusy
  <2> QED
    BY <1>3, <1>8, <2>2, <2>3
<1>10. ASSUME NEW x PROVE WritingKey(n, x) <=> x = k
  BY <1>1, <1>3, <1>5, WritingBusy DEF k
<1>11. LoopInv'
  <2> SUFFICES ASSUME NEW o \in Node, NEW h \in 1 .. loop'[o] - 1 PROVE Succs[o][h] # o
    BY DEF LoopInv
  <2>1. CASE o # n
    BY <1>2, <1>4, <2>1 DEF LoopInv
  <2>2. CASE o = n
    <3>1. h = loop[n] \/ h \in 1 .. loop[n] - 1
      BY <1>4, <2>2, LevelAssumption
    <3> QED
      BY <1>2, <1>4, <2>2, <3>1 DEF LoopInv
  <2> QED
    BY <2>1, <2>2
<1>12. BusyInv' /\ NoStrayCopy'
  BY <1>2, <1>3, <1>8 DEF BusyInv, NoStrayCopy
<1>13. TornInv'
  BY <1>1, <1>2, <1>3, <1>4, <1>7 DEF TornInv, CallsWrite
<1>14. CopyInv'
  <2> SUFFICES ASSUME NEW o \in Node, CallsWrite(o)', NEW x, x = call'[o].name
               PROVE  /\ o = Owner(x) /\ BusyWith(o, x)'
                      /\ ~call'[o].rep /\ loop'[o] <= Level
                      /\ call'[o].to = Succs[o][loop'[o]] /\ call'[o].to # o
                      /\ call'[o].val = store[o][x]
                      /\ sock'[o] \in {"taken", "answered"} /\ call'[o].to \notin dead
                            => store[call'[o].to][x] = store[o][x]
    BY <1>3 DEF CopyInv, Same, BusyWith, WritingKey, Writing
  <2>1. o # n
    BY <1>4 DEF CallsWrite
  <2>2. /\ call'[o] = call[o] /\ sock'[o] = sock[o] /\ loop'[o] = loop[o] /\ CallsWrite(o)
    BY <1>4, <1>7, <2>1 DEF CallsWrite
  <2>3. BusyWith(o, x)' <=> BusyWith(o, x)
    BY <1>3, <1>9 DEF BusyWith
  <2> QED
    BY <1>2, <2>2, <2>3 DEF CopyInv, Same
<1>15. WritesInOrder'
  <2> SUFFICES ASSUME NEW x \in Name
               PROVE  LET o == Owner(x)
                          live == Replicas(o) \ dead
                          busy == WritingKey(o, x) \/ torn[o] = x
                          at == IF busy /\ sock'[o] # "closed" THEN {call'[o].to} ELSE {}
                      IN  /\ \A r \in live : ~busy \/ r \in Visited(o)'
                                => store[r][x] = store[o][x]
                          /\ busy => \A r, s \in live \ (Visited(o)' \cup at) :
                                store[r][x] = store[s][x]
    BY <1>3, <1>9, OwnerFound DEF WritesInOrder, Same
  <2> DEFINE o == Owner(x)
             live == Replicas(o) \ dead
             busy == WritingKey(o, x) \/ torn[o] = x
             at == IF busy /\ sock[o] # "closed" THEN {call[o].to} ELSE {}
  <2>1. /\ \A r \in live : ~busy \/ r \in Visited(o) => store[r][x] = store[o][x]
        /\ busy => \A r, s \in live \ (Visited(o) \cup at) : store[r][x] = store[s][x]
    BY <1>2 DEF WritesInOrder, Same
  <2>2. o \in Node
    BY OwnerFound
  <2>3. CASE o # n
    <3>1. Visited(o)' = Visited(o)
      BY <1>4, <2>2, <2>3 DEF Visited
    <3> QED
      BY <1>4, <1>7, <2>1, <2>2, <2>3, <3>1
  <2>4. CASE o = n /\ x # k
    <3>1. ~busy
      BY <1>1, <1>10, <2>4, CrashAssumption
    <3> QED
      BY <2>1, <3>1
  <2>5. CASE o = n /\ x = k
    <3>1. busy /\ at = {call[n].to}
      BY <1>3, <1>10, <2>5
    <3>2. Visited(o)' = Visited(o) \cup {call[n].to}
      <4>1. 1 .. loop'[n] - 1 = (1 .. loop[n] - 1) \cup {loop[n]}
        BY <1>4, LevelAssumption
      <4> QED
        BY <1>6, <2>5, <4>1 DEF Visited
    <3>3. \A r \in live : r \in Visited(o)' => store[r][x] = store[o][x]
      BY <1>6, <2>1, <2>5, <3>1, <3>2
    <3> QED
      BY <1>4, <2>1, <2>5, <3>1, <3>2, <3>3
  <2> QED
    BY <2>3, <2>4, <2>5
<1> QED
  BY <1>4, <1>11, <1>12, <1>13, <1>14, <1>15 DEF Files

LEMMA AnswerWriteTalk ==
    ASSUME Talk, NEW n \in Node \ dead, NEW c \in Caller, AnswerWrite(n, c), Survives
    PROVE  Talk'
<1>1. /\ CrashTypeOK /\ SockInv /\ QueueInv /\ ExecInv /\ ClientInv /\ LiveInv /\ DeadInv
      /\ ReplyInv /\ FailInv /\ n \in Caller /\ n \notin Client /\ n \notin dead
  BY CallTypes DEF Talk
<1>2. /\ exec[n] = c /\ c # None /\ call[c].op \in {"add", "delete"} /\ sock[n] = "closed"
      /\ exec' = [exec EXCEPT ![n] = None] /\ loop' = [loop EXCEPT ![n] = 1]
      /\ sock' = [sock EXCEPT ![c] = "answered"]
      /\ want' = want /\ call' = call /\ answer' = answer /\ queue' = queue /\ store' = store
      /\ dead' = dead /\ crashes' = crashes /\ torn' = torn
  BY DEF AnswerWrite, Writing, Survives
<1>3. sock[c] = "taken" /\ c # n /\ call[c] \in Message /\ call[c].to = n
  BY <1>1, <1>2 DEF ExecInv, SockInv
<1>4. CrashTypeOK'
  BY <1>1, <1>2, SuccsType DEF CrashTypeOK
<1>5. /\ sock'[c] = "answered" /\ exec'[n] = None
      /\ \A d \in Caller : d # c => sock'[d] = sock[d]
      /\ \A o \in Node : o # n => exec'[o] = exec[o] /\ loop'[o] = loop[o]
  BY <1>1, <1>2 DEF CrashTypeOK
<1>6. \A o \in Node : o # n => exec[o] # c
  BY <1>1, <1>2, <1>3 DEF ExecInv
<1>7. \A o \in Node : o \in Caller /\ exec[o] \in Caller \cup {None}
  BY <1>1, CallTypes
<1>8. SockInv'
  BY <1>1, <1>2, <1>3, <1>5 DEF SockInv
<1>9. QueueInv'
  <2>1. \A o \in Node : c \notin Elems(queue[o]) /\ Elems(queue[o]) \subseteq Caller
    BY <1>1, <1>3, ElemsType, CallTypes DEF QueueInv
  <2> QED
    BY <1>1, <1>2, <1>5, <2>1 DEF QueueInv
<1>10. ExecInv'
  BY <1>1, <1>2, <1>5, <1>6, <1>7 DEF ExecInv
<1>11. LiveInv' /\ DeadInv'
  <2>1. NodeOK(n)'
    BY <1>2, <1>3, <1>5, <1>7 DEF NodeOK
  <2>2. ASSUME NEW o \in Node \ dead, o # n PROVE NodeOK(o)'
    <3>1. sock'[o] # "closed" => sock[o] # "closed"
      BY <1>3, <1>5, <1>7
    <3> QED
      BY <1>1, <1>2, <1>5, <1>6, <2>2, <3>1, NodeKept DEF LiveInv
  <2> QED
    BY <1>1, <1>2, <1>5, <2>1, <2>2 DEF LiveInv, DeadInv
<1>12. ClientInv'
  BY <1>1, <1>2, <1>3, <1>5, CallTypes DEF ClientInv
<1>13. ReplyInv' /\ FailInv'
  BY <1>1, <1>2, <1>3, <1>5 DEF ReplyInv, FailInv
<1> QED
  BY <1>4, <1>8, <1>9, <1>10, <1>11, <1>12, <1>13 DEF Talk

LEMMA AnswerWriteFiles ==
    ASSUME Talk, Files, Talk', NEW n \in Node \ dead, NEW c \in Caller,
           AnswerWrite(n, c), Survives
    PROVE  Files'
<1> DEFINE k == call[c].name
<1>1. /\ CrashTypeOK /\ ExecInv /\ n \in Node /\ n \in Caller /\ n \notin dead
      /\ torn[n] = None /\ exec \in [Node -> Caller \cup {None}]
      /\ exec' \in [Node -> Caller \cup {None}] /\ ExecInv'
  BY CallTypes DEF Talk, LiveInv, CrashTypeOK
<1>2. /\ LoopInv /\ CopyInv /\ BusyInv /\ TornInv /\ WritesInOrder /\ NoStrayCopy
  BY DEF Files
<1>3. /\ exec[n] = c /\ c # None /\ call[c].op \in {"add", "delete"} /\ sock[n] = "closed"
      /\ LoopOver(n, call[c].rep)
      /\ exec' = [exec EXCEPT ![n] = None] /\ loop' = [loop EXCEPT ![n] = 1]
      /\ sock' = [sock EXCEPT ![c] = "answered"]
      /\ call' = call /\ store' = store /\ dead' = dead /\ torn' = torn
  BY DEF AnswerWrite, Writing, Survives
<1>4. sock[c] = "taken" /\ c # n /\ call[c] \in Message /\ call[c].to = n /\ Busy(n)
  BY <1>1, <1>3 DEF ExecInv, Talk, SockInv, Busy
<1>5. /\ sock'[c] = "answered" /\ exec'[n] = None /\ loop'[n] = 1
      /\ \A d \in Caller : d # c => sock'[d] = sock[d]
      /\ \A o \in Node : o # n => exec'[o] = exec[o] /\ loop'[o] = loop[o]
  BY <1>1, <1>3 DEF CrashTypeOK
<1> HIDE DEF k
<1>6. \A o \in Node : /\ o \in Caller
                      /\ (sock'[o] = "closed" <=> sock[o] = "closed")
                      /\ (CallsWrite(o)' <=> CallsWrite(o))
                      /\ sock'[o] \in {"taken", "answered"}
                            <=> sock[o] \in {"taken", "answered"}
  <2>1. \A o \in Node : o \in Caller
    BY CallTypes DEF Talk
  <2>2. ASSUME NEW o \in Node
        PROVE  /\ (sock'[o] = "closed" <=> sock[o] = "closed")
               /\ sock'[o] \in {"taken", "answered"} <=> sock[o] \in {"taken", "answered"}
    BY <1>4, <1>5, <2>1
  <2> QED
    BY <1>3, <2>1, <2>2 DEF CallsWrite
<1>7. /\ ~Busy(n)' /\ \A o \in Node : o # n => (Busy(o)' <=> Busy(o))
  BY <1>3, <1>5 DEF Busy
<1>8. ASSUME NEW o \in Node, NEW x \in Name
      PROVE  /\ o # n => (WritingKey(o, x)' <=> WritingKey(o, x))
             /\ o = n => ~WritingKey(o, x)' /\ (WritingKey(o, x) <=> x = k)
  <2>1. WritingKey(o, x)' <=> Busy(o)' /\ call[exec'[o]].name = x
    BY <1>1, <1>3, WritingBusyNext
  <2>2. WritingKey(o, x) <=> Busy(o) /\ call[exec[o]].name = x
    BY <1>1, WritingBusy
  <2> QED
    BY <1>3, <1>4, <1>5, <1>7, <2>1, <2>2 DEF k
<1>9. LoopInv' /\ BusyInv' /\ NoStrayCopy'
  <2>1. LoopInv'
    BY <1>2, <1>5 DEF LoopInv
  <2>2. BusyInv'
    BY <1>2, <1>3, <1>5, <1>7 DEF BusyInv
  <2> QED
    BY <1>2, <1>3, <2>1, <2>2 DEF NoStrayCopy
<1>10. TornInv'
  BY <1>2, <1>3, <1>6 DEF TornInv
<1>11. CopyInv'
  <2> SUFFICES ASSUME NEW o \in Node, CallsWrite(o), NEW x, x = call[o].name
               PROVE  /\ o = Owner(x) /\ BusyWith(o, x)'
                      /\ ~call[o].rep /\ loop'[o] <= Level
                      /\ call[o].to = Succs[o][loop'[o]] /\ call[o].to # o
                      /\ call[o].val = store[o][x]
                      /\ sock'[o] \in {"taken", "answered"} /\ call[o].to \notin dead
                            => store[call[o].to][x] = store[o][x]
    BY <1>3, <1>6 DEF CopyInv, Same, BusyWith, WritingKey, Writing
  <2>1. o # n /\ x \in Name
    BY <1>3, <1>6 DEF CallsWrite, Talk, SockInv, Message
  <2>2. loop'[o] = loop[o]
    BY <1>5, <2>1
  <2>3. BusyWith(o, x)' <=> BusyWith(o, x)
    BY <1>3, <1>8, <2>1 DEF BusyWith
  <2>4. sock'[o] \in {"taken", "answered"} <=> sock[o] \in {"taken", "answered"}
    BY <1>6
  <2> QED
    BY <1>2, <2>2, <2>3, <2>4 DEF CopyInv, Same
<1>12. n = Owner(k) => \A r \in Replicas(n) : r \in Visited(n)
  <2> SUFFICES ASSUME n = Owner(k), NEW j \in 1 .. Level, \A h \in 1 .. j : Succs[n][h] # n
               PROVE  Succs[n][j] \in Visited(n)
    BY DEF Replicas
  <2>1. call[c].rep
    BY <1>3, <1>4, CrashWriters DEF k
  <2>2. loop[n] \in 1 .. ListLen
    BY <1>1 DEF CrashTypeOK
  <2>3. j \in 1 .. loop[n] - 1
    <3>1. CASE loop[n] > Level
      BY <2>2, <3>1, LevelAssumption DEF ListLen
    <3>2. CASE Succs[n][loop[n]] = n
      BY <2>2, <3>2, LevelAssumption DEF ListLen
    <3> QED
      BY <1>3, <2>1, <3>1, <3>2 DEF LoopOver
  <2> QED
    BY <2>3 DEF Visited
<1>13. WritesInOrder'
  <2> SUFFICES ASSUME NEW x \in Name
               PROVE  LET o == Owner(x)
                          live == Replicas(o) \ dead
                          busy == WritingKey(o, x)' \/ torn[o] = x
                          at == IF busy /\ sock'[o] # "closed" THEN {call[o].to} ELSE {}
                      IN  /\ \A r \in live : ~busy \/ r \in Visited(o)'
                                => store[r][x] = store[o][x]
                          /\ busy => \A r, s \in live \ (Visited(o)' \cup at) :
                                store[r][x] = store[s][x]
    BY <1>3 DEF WritesInOrder, Same
  <2> DEFINE o == Owner(x)
             live == Replicas(o) \ dead
             busy == WritingKey(o, x) \/ torn[o] = x
             at == IF busy /\ sock[o] # "closed" THEN {call[o].to} ELSE {}
  <2>1. /\ \A r \in live : ~busy \/ r \in Visited(o) => store[r][x] = store[o][x]
        /\ busy => \A r, s \in live \ (Visited(o) \cup at) : store[r][x] = store[s][x]
    BY <1>2 DEF WritesInOrder, Same
  <2>2. o \in Node
    BY OwnerFound
  <2>3. CASE o # n
    <3>1. Visited(o)' = Visited(o) /\ (WritingKey(o, x)' <=> WritingKey(o, x))
      BY <1>5, <1>8, <2>2, <2>3 DEF Visited
    <3> QED
      BY <1>6, <2>1, <2>2, <3>1
  <2>4. CASE o = n
    <3>1. ~WritingKey(o, x)' /\ torn[o] # x /\ (busy <=> x = k)
      BY <1>1, <1>8, <2>4, CrashAssumption
    <3>2. \A r \in live : store[r][x] = store[o][x]
      BY <1>12, <2>1, <2>4, <3>1
    <3> QED
      BY <3>1, <3>2
  <2> QED
    BY <2>3, <2>4
<1> QED
  BY <1>9, <1>10, <1>11, <1>13 DEF Files

-----------------------------------------------------------------------------
(* Death *)

\* What Die does, with the answers that are lost.
DieLosing(xs, lost) ==
    /\ lost \subseteq Holding(xs) \ xs
    /\ dead' = dead \cup xs
    /\ queue' = [n \in Node |-> IF n \in xs THEN <<>> ELSE queue[n]]
    /\ sock' = [c \in Caller |->
                   IF c \in (Awaiting(xs) \cup lost) \ xs THEN "failed"
                   ELSE IF c \in Expecting(xs) \ xs THEN "answered"
                   ELSE sock[c]]
    /\ exec' = [n \in Node |-> IF n \in xs THEN None ELSE exec[n]]
    /\ torn' = [n \in Node |-> IF n \in xs /\ Writes(n) THEN call[exec[n]].name ELSE torn[n]]
    /\ answer' = [c \in Caller |-> IF c \in lost THEN None ELSE answer[c]]
    /\ UNCHANGED <<want, call, loop, store>>

\* How the state of a call changes: it fails, or the rest of a short answer, none,
\* is given up.
LEMMA DieSock ==
    ASSUME Talk, NEW xs, NEW lost, DieLosing(xs, lost), NEW c \in Caller
    PROVE  \/ sock'[c] = sock[c] /\ sock[c] # "short" /\ c \notin lost
              /\ (sock[c] \in {"sent", "taken"} => call[c].to \notin xs \/ c \in xs)
           \/ sock'[c] = sock[c] /\ sock[c] = "short" /\ c \notin lost
           \/ sock'[c] = "failed" /\ sock[c] \in {"sent", "taken"} /\ call[c].to \in xs
              /\ c \notin lost /\ c \notin xs
           \/ sock'[c] = "failed" /\ sock[c] = "answered" /\ call[c].to \in xs
              /\ c \in lost /\ c \notin xs
           \/ sock'[c] = "answered" /\ sock[c] = "short" /\ c \notin lost
<1>1. sock[c] \in CrashStates /\ sock'[c] =
         IF c \in (Awaiting(xs) \cup lost) \ xs THEN "failed"
         ELSE IF c \in Expecting(xs) \ xs THEN "answered" ELSE sock[c]
  BY CallTypes DEF DieLosing, Talk
<1>2. /\ c \in Awaiting(xs) <=> sock[c] \in {"sent", "taken"} /\ call[c].to \in xs
      /\ c \in Expecting(xs) => sock[c] = "short"
      /\ c \in lost => sock[c] = "answered" /\ call[c].to \in xs /\ c \notin xs
  BY DEF Awaiting, Expecting, Holding, DieLosing
<1> QED
  BY <1>1, <1>2

LEMMA DieTalk ==
    ASSUME Talk, NEW xs \in SUBSET Caller, NEW lost, DieLosing(xs, lost),
           crashes' \in 0 .. CrashLimit
    PROVE  Talk'
<1>1. /\ CrashTypeOK /\ SockInv /\ QueueInv /\ ExecInv /\ ClientInv /\ LiveInv /\ DeadInv
      /\ ReplyInv /\ FailInv
  BY DEF Talk
<1>2. /\ dead' = dead \cup xs
      /\ queue' = [n \in Node |-> IF n \in xs THEN <<>> ELSE queue[n]]
      /\ exec' = [n \in Node |-> IF n \in xs THEN None ELSE exec[n]]
      /\ torn' = [n \in Node |->
                     IF n \in xs /\ Writes(n) THEN call[exec[n]].name ELSE torn[n]]
      /\ answer' = [c \in Caller |-> IF c \in lost THEN None ELSE answer[c]]
      /\ want' = want /\ call' = call /\ loop' = loop /\ store' = store
  BY DEF DieLosing
<1>3. sock' \in [Caller -> CrashStates]
  <2>1. sock' = [c \in Caller |-> sock'[c]]
    BY DEF DieLosing
  <2>2. \A c \in Caller : sock'[c] \in CrashStates
    <3> SUFFICES ASSUME NEW c \in Caller PROVE sock'[c] \in CrashStates
      OBVIOUS
    <3>1. sock[c] \in CrashStates
      BY <1>1, CallTypes
    <3>2. sock'[c] \in {sock[c], "failed", "answered"}
      BY DieSock
    <3> QED
      BY <3>1, <3>2 DEF CrashStates
  <2> QED
    BY <2>1, <2>2
<1>4. torn' \in [Node -> Name \cup {None}]
  <2>1. ASSUME NEW n \in Node, Writes(n) PROVE call[exec[n]].name \in Name
    <3>1. exec[n] \in Caller /\ exec[n] # None
      BY <2>1 DEF Writes, Writing
    <3>2. sock[exec[n]] = "taken"
      BY <1>1, <3>1 DEF ExecInv
    <3> QED
      BY <1>1, <3>1, <3>2 DEF SockInv, Message
  <2>2. torn \in [Node -> Name \cup {None}]
    BY <1>1 DEF CrashTypeOK
  <2> QED
    BY <1>2, <2>1, <2>2
<1>5. CrashTypeOK'
  <2>1. queue' \in [Node -> Seq(Caller)]
    <3>1. queue \in [Node -> Seq(Caller)] /\ <<>> \in Seq(Caller)
      BY <1>1, CallTypes
    <3> QED
      BY <1>2, <3>1
  <2>2. exec' \in [Node -> Caller \cup {None}]
    BY <1>1, <1>2, CallTypes
  <2>3. answer' \in [Caller -> Node \cup Value \cup {Absent, None}]
    BY <1>1, <1>2, CallTypes
  <2>4. dead' \subseteq Caller
    BY <1>1, <1>2 DEF CrashTypeOK
  <2> QED
    BY <1>1, <1>2, <1>3, <1>4, <2>1, <2>2, <2>3, <2>4 DEF CrashTypeOK, CrashStates
<1>6. \A c \in Caller : /\ sock'[c] = "closed" <=> sock[c] = "closed"
                        /\ sock'[c] \in {"sent", "taken"} => sock'[c] = sock[c]
  <2> SUFFICES ASSUME NEW c \in Caller
               PROVE  /\ sock'[c] = "closed" <=> sock[c] = "closed"
                      /\ sock'[c] \in {"sent", "taken"} => sock'[c] = sock[c]
    OBVIOUS
  <2> QED
    BY DieSock
<1>7. \A c \in Caller : sock[c] \in {"sent", "taken"} /\ call[c].to \notin xs
                            => sock'[c] = sock[c]
  <2> SUFFICES ASSUME NEW c \in Caller, sock[c] \in {"sent", "taken"}, call[c].to \notin xs
               PROVE  sock'[c] = sock[c]
    OBVIOUS
  <2> QED
    BY DieSock
<1>8. SockInv'
  BY <1>1, <1>2, <1>6 DEF SockInv
<1>9. QueueInv'
  <2> SUFFICES ASSUME NEW n \in Node
               PROVE  /\ Distinct(queue'[n])
                      /\ \A c \in Elems(queue'[n]) : sock'[c] = "sent" /\ call[c].to = n
    BY <1>2 DEF QueueInv
  <2>1. CASE n \in xs
    <3>1. queue'[n] = <<>>
      BY <1>2, <2>1
    <3>2. Distinct(<<>>) /\ Elems(<<>>) = {}
      BY DEF Distinct, Elems
    <3> QED
      BY <3>1, <3>2
  <2>2. CASE n \notin xs
    <3>1. queue'[n] = queue[n] /\ Elems(queue[n]) \subseteq Caller
      BY <1>1, <1>2, <2>2, ElemsType, CallTypes
    <3>2. /\ Distinct(queue[n])
          /\ \A c \in Elems(queue[n]) : sock[c] = "sent" /\ call[c].to = n
      BY <1>1 DEF QueueInv
    <3>3. \A c \in Elems(queue[n]) : sock'[c] = "sent"
      BY <1>7, <2>2, <3>1, <3>2
    <3> QED
      BY <3>1, <3>2, <3>3
  <2> QED
    BY <2>1, <2>2
<1>10. \A n \in Node : exec'[n] # None => n \notin xs /\ exec'[n] = exec[n]
  BY <1>2
<1>11. ExecInv'
  <2> SUFFICES ASSUME NEW n \in Node, exec'[n] # None
               PROVE  /\ sock'[exec'[n]] = "taken" /\ call[exec'[n]].to = n
                      /\ call[exec'[n]].op \in {"find", "add", "delete"}
    BY <1>2 DEF ExecInv
  <2>1. n \notin xs /\ exec'[n] = exec[n] /\ exec[n] \in Caller
    BY <1>1, <1>10, CallTypes
  <2>2. /\ sock[exec[n]] = "taken" /\ call[exec[n]].to = n
        /\ call[exec[n]].op \in {"find", "add", "delete"}
    BY <1>1, <2>1 DEF ExecInv
  <2> QED
    BY <1>7, <2>1, <2>2
<1>12. LiveInv' /\ DeadInv'
  <2>1. ASSUME NEW n \in Node, n \notin dead'
        PROVE  NodeOK(n)' /\ torn'[n] = None
    <3>1. n \notin dead /\ n \notin xs /\ n \in Caller
      BY <1>1, <1>2, <2>1, CallTypes
    <3>2. exec'[n] = exec[n] /\ torn'[n] = torn[n]
      BY <1>2, <3>1
    <3> QED
      BY <1>1, <1>2, <1>6, <3>1, <3>2, NodeKept DEF LiveInv
  <2>2. DeadInv'
    BY <1>1, <1>2 DEF DeadInv
  <2> QED
    BY <2>1, <2>2 DEF LiveInv
<1>13. ClientInv'
  BY <1>1, <1>2, <1>6, CallTypes DEF ClientInv
<1>14. ReplyInv'
  <2> SUFFICES ASSUME NEW c \in Caller, answer'[c] # None
               PROVE  /\ sock'[c] = "answered" /\ call[c].op \in {"find", "get"}
                      /\ call[c].op = "find" => answer'[c] = Owner(call[c].name)
    BY <1>2 DEF ReplyInv
  <2>1. c \notin lost /\ answer'[c] = answer[c]
    BY <1>2
  <2>2. /\ sock[c] = "answered" /\ call[c].op \in {"find", "get"}
        /\ call[c].op = "find" => answer[c] = Owner(call[c].name)
    BY <1>1, <2>1 DEF ReplyInv
  <2>3. sock'[c] = "answered"
    BY <2>1, <2>2, DieSock
  <2> QED
    BY <2>1, <2>2, <2>3
<1>15. FailInv'
  <2> SUFFICES ASSUME NEW c \in Caller
               PROVE  /\ sock'[c] = "failed" => call[c].to \in dead'
                      /\ sock'[c] = "short" => call[c].op = "find"
    BY <1>2 DEF FailInv
  <2>1. /\ sock[c] = "failed" => call[c].to \in dead
        /\ sock[c] = "short" => call[c].op = "find"
    BY <1>1 DEF FailInv
  <2>2. /\ sock'[c] = "failed" => sock[c] = "failed" \/ call[c].to \in xs
        /\ sock'[c] = "short" => sock[c] = "short"
    BY DieSock
  <2> QED
    BY <1>2, <2>1, <2>2
<1> QED
  BY <1>5, <1>8, <1>9, <1>11, <1>12, <1>13, <1>14, <1>15 DEF Talk

LEMMA DieFiles ==
    ASSUME Talk, Files, Talk', NEW xs \in SUBSET Caller, NEW lost, DieLosing(xs, lost)
    PROVE  Files'
<1>1. /\ CrashTypeOK /\ ExecInv /\ LiveInv /\ DeadInv /\ FailInv
      /\ exec \in [Node -> Caller \cup {None}]
      /\ exec' \in [Node -> Caller \cup {None}] /\ ExecInv'
  BY DEF Talk, CrashTypeOK
<1>2. /\ LoopInv /\ CopyInv /\ BusyInv /\ TornInv /\ WritesInOrder /\ NoStrayCopy
  BY DEF Files
<1>3. /\ dead' = dead \cup xs
      /\ exec' = [n \in Node |-> IF n \in xs THEN None ELSE exec[n]]
      /\ torn' = [n \in Node |->
                     IF n \in xs /\ Writes(n) THEN call[exec[n]].name ELSE torn[n]]
      /\ call' = call /\ loop' = loop /\ store' = store
  BY DEF DieLosing
<1>4. ASSUME NEW o \in Node
      PROVE  /\ o \in Caller
             /\ sock'[o] = "closed" <=> sock[o] = "closed"
             /\ CallsWrite(o)' <=> CallsWrite(o)
             /\ CallsWrite(o) /\ sock'[o] \in {"taken", "answered"}
                    => sock[o] \in {"taken", "answered"}
  <2>1. o \in Caller
    BY CallTypes DEF Talk
  <2>2. sock'[o] = "closed" <=> sock[o] = "closed"
    BY <2>1, DieSock
  <2>3. CallsWrite(o) => sock[o] # "short"
    BY <1>1, <2>1 DEF FailInv, CallsWrite
  <2>4. sock[o] # "short" /\ sock'[o] \in {"taken", "answered"}
            => sock[o] \in {"taken", "answered"}
    BY <2>1, DieSock
  <2> QED
    BY <1>3, <2>1, <2>2, <2>3, <2>4 DEF CallsWrite
<1>5. \A o \in Node : Busy(o) => torn[o] = None /\ o \notin dead
  BY <1>1 DEF Busy, LiveInv, DeadInv
<1>6. \A o \in Node : Writes(o) <=> Busy(o)
  BY <1>1 DEF Writes, Writing, Busy, ExecInv
<1>7. \A o \in Node : /\ Busy(o)' <=> Busy(o) /\ o \notin xs
                      /\ o \notin xs => exec'[o] = exec[o] /\ torn'[o] = torn[o]
                      /\ ~Busy(o) => torn'[o] = torn[o]
                      /\ o \in xs /\ Busy(o) => torn'[o] = call[exec[o]].name
  <2>1. \A o \in Node : Busy(o)' <=> Busy(o) /\ o \notin xs
    BY <1>3 DEF Busy
  <2> QED
    BY <1>3, <1>6, <2>1
<1>8. ASSUME NEW o \in Node, NEW x \in Name
      PROVE  BusyWith(o, x)' <=> BusyWith(o, x)
  <2>1. WritingKey(o, x)' <=> Busy(o)' /\ call[exec'[o]].name = x
    BY <1>1, <1>3, WritingBusyNext
  <2>2. WritingKey(o, x) <=> Busy(o) /\ call[exec[o]].name = x
    BY <1>1, WritingBusy
  <2>3. CASE Busy(o)
    BY <1>5, <1>7, <2>1, <2>2, <2>3, CrashAssumption DEF BusyWith
  <2>4. CASE ~Busy(o)
    BY <1>7, <2>1, <2>2, <2>4 DEF BusyWith
  <2> QED
    BY <2>3, <2>4
<1>9. LoopInv' /\ BusyInv' /\ NoStrayCopy'
  <2>1. LoopInv' /\ NoStrayCopy'
    BY <1>2, <1>3 DEF LoopInv, NoStrayCopy
  <2>2. BusyInv'
    BY <1>2, <1>3, <1>7 DEF BusyInv
  <2> QED
    BY <2>1, <2>2
<1>10. TornInv'
  <2> SUFFICES ASSUME NEW o \in Node, torn'[o] # None, sock'[o] # "closed"
               PROVE  CallsWrite(o) /\ call[o].name = torn'[o]
    BY <1>3, <1>4 DEF TornInv
  <2>1. sock[o] # "closed"
    BY <1>4
  <2>2. CASE o \in xs /\ Busy(o)
    <3>1. NodeOK(o)
      BY <1>1, <1>5, <2>2 DEF LiveInv
    <3>2. /\ call[o].op = call[exec[o]].op /\ call[o].name = call[exec[o]].name
          /\ call[o].op \in {"find", "add", "delete"}
      BY <1>1, <2>1, <3>1, NodeCalling DEF Talk
    <3>3. torn'[o] = call[exec[o]].name
      BY <1>7, <2>2
    <3> QED
      BY <2>1, <2>2, <3>2, <3>3 DEF Busy, CallsWrite
  <2>3. CASE ~(o \in xs /\ Busy(o))
    <3>1. torn'[o] = torn[o]
      BY <1>7, <2>3
    <3> QED
      BY <1>2, <2>1, <3>1 DEF TornInv
  <2> QED
    BY <2>2, <2>3
<1>11. CopyInv'
  <2> SUFFICES ASSUME NEW o \in Node, CallsWrite(o), NEW x, x = call[o].name
               PROVE  /\ o = Owner(x) /\ BusyWith(o, x)'
                      /\ ~call[o].rep /\ loop[o] <= Level
                      /\ call[o].to = Succs[o][loop[o]] /\ call[o].to # o
                      /\ call[o].val = store[o][x]
                      /\ sock'[o] \in {"taken", "answered"} /\ call[o].to \notin dead'
                            => store[call[o].to][x] = store[o][x]
    BY <1>3, <1>4 DEF CopyInv, Same, BusyWith, WritingKey, Writing
  <2>1. x \in Name
    BY <1>4 DEF CallsWrite, Talk, SockInv, Message
  <2>2. BusyWith(o, x)' <=> BusyWith(o, x)
    BY <1>8, <2>1
  <2>3. sock'[o] \in {"taken", "answered"} => sock[o] \in {"taken", "answered"}
    BY <1>4
  <2>4. call[o].to \notin dead' => call[o].to \notin dead
    BY <1>3
  <2> QED
    BY <1>2, <2>2, <2>3, <2>4 DEF CopyInv, Same
<1>12. WritesInOrder'
  <2> SUFFICES ASSUME NEW x \in Name
               PROVE  LET o == Owner(x)
                          live == Replicas(o) \ dead'
                          busy == BusyWith(o, x)'
                          at == IF busy /\ sock'[o] # "closed" THEN {call[o].to} ELSE {}
                      IN  /\ \A r \in live : ~busy \/ r \in Visited(o)
                                => store[r][x] = store[o][x]
                          /\ busy => \A r, s \in live \ (Visited(o) \cup at) :
                                store[r][x] = store[s][x]
    BY <1>3 DEF WritesInOrder, Same, Visited, BusyWith
  <2> DEFINE o == Owner(x)
             live == Replicas(o) \ dead
             busy == BusyWith(o, x)
             at == IF busy /\ sock[o] # "closed" THEN {call[o].to} ELSE {}
  <2>1. /\ \A r \in live : ~busy \/ r \in Visited(o) => store[r][x] = store[o][x]
        /\ busy => \A r, s \in live \ (Visited(o) \cup at) : store[r][x] = store[s][x]
    BY <1>2 DEF WritesInOrder, Same, BusyWith
  <2>2. o \in Node
    BY OwnerFound
  <2>3. /\ BusyWith(o, x)' <=> BusyWith(o, x)
        /\ sock'[o] = "closed" <=> sock[o] = "closed"
    BY <1>4, <1>8, <2>2
  <2>4. \A r : r \notin dead' => r \notin dead
    BY <1>3
  <2> QED
    BY <2>1, <2>3, <2>4
<1> QED
  BY <1>9, <1>10, <1>11, <1>12 DEF Files

LEMMA DieStep ==
    ASSUME Talk, Files, NEW xs \in SUBSET Caller, Die(xs), crashes' \in 0 .. CrashLimit
    PROVE  Talk' /\ Files'
<1>1. PICK lost \in SUBSET (Holding(xs) \ xs) : DieLosing(xs, lost)
  BY DEF Die, DieLosing
<1>2. Talk'
  BY <1>1, DieTalk
<1> QED
  BY <1>1, <1>2, DieFiles

-----------------------------------------------------------------------------
(* The theorems *)

LEMMA CrashInitHolds == CrashInit => CrashInv
<1> SUFFICES ASSUME CrashInit PROVE CrashInv
  OBVIOUS
<1>1. Init /\ dead = {} /\ crashes = 0 /\ torn = [n \in Node |-> None]
  BY DEF CrashInit
<1>2. /\ \A n \in Node : queue[n] = <<>> /\ exec[n] = None /\ loop[n] = 1
      /\ \A c \in Caller : sock[c] = "closed" /\ answer[c] = None
      /\ \A n \in Node : \A k \in Name : store[n][k] = Absent
      /\ Node \subseteq Caller /\ Client \subseteq Caller
  BY <1>1 DEF Init, Caller
<1>3. CrashTypeOK
  <2>1. TypeOK
    BY <1>1, InitHolds DEF IInv
  <2>2. crashes \in 0 .. CrashLimit /\ torn \in [Node -> Name \cup {None}]
    BY <1>1, CrashAssumption
  <2>3. sock \in [Caller -> {"closed", "sent", "taken", "answered", "failed", "short"}]
    BY <1>1 DEF Init
  <2> QED
    BY <1>1, <2>1, <2>2, <2>3 DEF TypeOK, CrashTypeOK
<1>4. SockInv /\ ClientInv /\ ReplyInv /\ FailInv
  BY <1>2 DEF SockInv, ClientInv, ReplyInv, FailInv
<1>5. QueueInv /\ ExecInv
  BY <1>2 DEF QueueInv, Distinct, Elems, ExecInv
<1>6. LiveInv /\ DeadInv
  BY <1>1, <1>2 DEF LiveInv, DeadInv, NodeOK
<1>7. LoopInv /\ CopyInv /\ BusyInv /\ TornInv /\ NoStrayCopy
  BY <1>1, <1>2 DEF LoopInv, CopyInv, CallsWrite, BusyInv, Busy, TornInv, NoStrayCopy
<1>8. WritesInOrder
  <2>1. \A k \in Name : \A r \in Replicas(Owner(k)) \cup {Owner(k)} : store[r][k] = Absent
    BY <1>2, OwnerFound, ReplicaNode
  <2> QED
    BY <2>1 DEF WritesInOrder, Same
<1> QED
  BY <1>3, <1>4, <1>5, <1>6, <1>7, <1>8 DEF CrashInv, Talk, Files

LEMMA CrashStutter ==
    ASSUME Talk, Files, UNCHANGED crashVars
    PROVE  Talk' /\ Files'
<1>1. /\ want' = want /\ call' = call /\ sock' = sock /\ answer' = answer
      /\ queue' = queue /\ exec' = exec /\ loop' = loop /\ store' = store
      /\ dead' = dead /\ crashes' = crashes /\ torn' = torn
  BY DEF crashVars, vars
<1>2. CrashTypeOK' /\ SockInv' /\ QueueInv' /\ ExecInv' /\ ClientInv' /\ ReplyInv' /\ FailInv'
  BY <1>1 DEF Talk, CrashTypeOK, SockInv, QueueInv, ExecInv, ClientInv, ReplyInv, FailInv
<1>3. LiveInv' /\ DeadInv'
  BY <1>1, NodeKept DEF Talk, LiveInv, DeadInv
<1>4. \A o \in Node : WriteKept(o)
  BY <1>1, IdleCalls DEF WriteKept, Busy, CallsWrite
<1> QED
  BY <1>1, <1>2, <1>3, <1>4, FilesKept DEF Talk

\* The threads of a server, or a node, that go with x.
LEMMA FellowsType ==
    ASSUME NEW x \in Caller
    PROVE  Fellows(x) \in SUBSET Caller
BY DEF Fellows, Caller

LEMMA ClientGoesOnStep ==
    ASSUME Talk, Files, NEW c \in Client, ClientGoesOn(c)
    PROVE  Talk' /\ Files'
<1>1. CrashTypeOK /\ c \in Caller
  BY CallTypes DEF Talk
<1>2. CASE /\ sock[c] = "answered" /\ call[c].op = "find" => answer[c] # None
           /\ CallOwner(c) /\ Survives
  <2>1. sock[c] = "answered" /\ call[c].op = "find" /\ answer[c] # None
    BY <1>2 DEF CallOwner
  <2>2. answer[c] = Owner(call[c].name)
    BY <1>1, <2>1 DEF Talk, ReplyInv
  <2>3. /\ want[c] \in Request
        /\ call[c] = FindMessage(call[c].to, want[c].name)
    <3>1. /\ want[c] \in Request
          /\ \/ call[c] = FindMessage(call[c].to, want[c].name)
             \/ call[c] = ForceMessage(Owner(want[c].name), want[c])
      BY <2>1 DEF Talk, ClientInv
    <3>2. ForceMessage(Owner(want[c].name), want[c]).op # "find"
      BY <3>1 DEF ForceMessage, Request
    <3> QED
      BY <2>1, <3>1, <3>2
  <2>4. answer[c] = Owner(want[c].name) /\ answer[c] \in Node /\ want[c].name \in Name
    <3>1. call[c].name = want[c].name
      BY <2>3 DEF FindMessage
    <3>2. want[c].name \in Name
      BY <2>3 DEF Request
    <3> QED
      BY <2>2, <3>1, <3>2, OwnerFound
  <2> DEFINE r == want[c]
             m == ForceMessage(Owner(want[c].name), want[c])
  <2>5. m \in Message /\ m.to = Owner(r.name)
    BY <2>3, <2>4 DEF ForceMessage, Message, Request
  <2>6. ClientSends(c, r, m)
    <3>1. want' = [want EXCEPT ![c] = r]
      BY <1>1, <1>2 DEF CallOwner, CrashTypeOK
    <3> QED
      BY <1>2, <2>1, <2>4, <3>1 DEF CallOwner, ClientSends, Survives
  <2> HIDE DEF m
  <2>7. m = ForceMessage(Owner(r.name), r)
    BY DEF m
  <2> QED
    BY <2>3, <2>5, <2>6, <2>7, ClientSendsStep
<1>3. CASE FinishOp(c) /\ Survives
  <2>1. ClientEnds(c) /\ sock[c] \notin {"sent", "taken"}
    BY <1>3 DEF FinishOp, Survives, ClientEnds
  <2> QED
    BY <2>1, ClientEndsStep
<1>4. CASE FindFailed(c)
  <2>1. Die(Fellows(c)) /\ crashes' \in 0 .. CrashLimit /\ Fellows(c) \in SUBSET Caller
    BY <1>1, <1>4, FellowsType DEF FindFailed, CrashTypeOK
  <2> QED
    BY <2>1, DieStep
<1>5. CASE ForceFailed(c)
  <2>1. sock[c] = "failed" /\ answer[c] = None
    BY <1>1, <1>5 DEF ForceFailed, Talk, ReplyInv
  <2>2. answer = [answer EXCEPT ![c] = None]
    BY <1>1, <2>1 DEF CrashTypeOK
  <2>3. ClientEnds(c)
    BY <1>5, <2>2 DEF ForceFailed, ClientEnds
  <2> QED
    BY <2>1, <2>3, ClientEndsStep
<1> QED
  BY <1>2, <1>3, <1>4, <1>5 DEF ClientGoesOn, ClientStep

LEMMA NodeGoesOnStep ==
    ASSUME Talk, Files, NEW n \in Node \ dead, NEW c \in Caller, NodeGoesOn(n, c)
    PROVE  Talk' /\ Files'
<1>1. CrashTypeOK /\ n \in Node /\ n \in Caller
  BY CallTypes DEF Talk
<1>2. ASSUME CanTake(n, c, {"find", "add", "delete", "get"})
      PROVE  call[c] \in Message
  <2>1. HeadOK(n, c)
    BY <1>1, <1>2, HeadTaken, CallTypes DEF Talk, LiveInv, CanTake
  <2> QED
    BY <2>1 DEF HeadOK
<1>3. CASE AnswerFind(n, c) /\ Survives
  <2>1. call[c] \in Message /\ call[c].op = "find"
    BY <1>2, <1>3 DEF AnswerFind, CanTake
  <2>2. Next1(n) = Owner(call[c].name) /\ Next1(n) \in Node
    <3>1. call[c].name \in Name
      BY <2>1 DEF Message
    <3> QED
      BY <1>1, <1>3, <3>1, OwnerFound, SuccsType DEF AnswerFind
  <2>3. AnswersNow(n, c, Next1(n))
    BY <1>3 DEF AnswerFind, CanTake, Survives, AnswersNow, Dequeued
  <2> QED
    BY <2>2, <2>3, AnswersNowStep
<1>4. CASE ForwardFind(n, c) /\ Survives
  BY <1>4, ForwardCrashStep
<1>5. CASE ReturnFind(n, c) /\ Survives
  <2>1. exec[n] = c /\ c # None /\ call[c].op = "find" /\ sock[n] = "answered"
    BY <1>5 DEF ReturnFind
  <2>2. call[n].op = "find" /\ call[n].name = call[c].name
    BY <1>1, <2>1, NodeCalling, CallTypes DEF Talk, LiveInv
  <2>3. answer[n] \in {Owner(call[c].name), None}
    BY <1>1, <2>2 DEF Talk, ReplyInv
  <2>4. PassesOn(n, c, "answered", answer[n])
    BY <1>5 DEF ReturnFind, Survives, PassesOn
  <2> QED
    BY <2>3, <2>4, PassesOnStep
<1>6. CASE TakeAdd(n, c) /\ Survives
  <2>1. TakeWrite(n, c)
    BY <1>6 DEF TakeAdd, TakeWrite, CanTake, Dequeued
  <2>2. Talk'
    BY <1>6, <2>1, TakeWriteTalk
  <2> QED
    BY <1>6, <2>1, <2>2, TakeWriteFiles
<1>7. CASE TakeDelete(n, c) /\ Survives
  <2>1. call[c] \in Message /\ call[c].op = "delete"
    BY <1>2, <1>7 DEF TakeDelete, CanTake
  <2>2. call[c].val = Absent
    BY <2>1 DEF Message
  <2>3. TakeWrite(n, c)
    BY <1>7, <2>2 DEF TakeDelete, TakeWrite, CanTake, Dequeued
  <2>4. Talk'
    BY <1>7, <2>3, TakeWriteTalk
  <2> QED
    BY <1>7, <2>3, <2>4, TakeWriteFiles
<1>8. CASE TakeGet(n, c) /\ Survives
  <2>1. call[c] \in Message /\ call[c].op = "get"
    BY <1>2, <1>8 DEF TakeGet, CanTake
  <2>2. store[n][call[c].name] \in Node \cup Value \cup {Absent}
    BY <1>1, <2>1 DEF CrashTypeOK, Message
  <2>3. AnswersNow(n, c, store[n][call[c].name])
    BY <1>8 DEF TakeGet, CanTake, Survives, AnswersNow, Dequeued
  <2> QED
    BY <2>1, <2>2, <2>3, AnswersNowStep
<1>9. CASE Replicate(n, c) /\ Survives
  BY <1>9, ReplicateCrashStep
<1>10. CASE ReplicaDone(n, c) /\ Survives
  <2>1. Advance(n, c)
    BY <1>10 DEF ReplicaDone, Writing, Survives, Advance
  <2> QED
    BY <2>1, AdvanceStep
<1>11. CASE AnswerWrite(n, c) /\ Survives
  <2>1. Talk'
    BY <1>11, AnswerWriteTalk
  <2> QED
    BY <1>11, <2>1, AnswerWriteFiles
<1>12. ASSUME sock[n] = "failed" PROVE answer = [answer EXCEPT ![n] = None]
  <2>1. answer[n] = None
    BY <1>1, <1>12 DEF Talk, ReplyInv
  <2> QED
    BY <1>1, <2>1 DEF CrashTypeOK
<1>13. CASE ForwardFailed(n, c)
  <2>1. /\ exec[n] = c /\ c # None /\ call[c].op = "find" /\ sock[n] = "failed"
        /\ answer' = [answer EXCEPT ![n] = None]
    BY <1>13 DEF ForwardFailed
  <2>2. sock[c] = "taken" /\ answer[c] = None
    BY <2>1 DEF Talk, ExecInv, ReplyInv
  <2>3. answer' = [answer EXCEPT ![n] = None, ![c] = None]
    BY <1>1, <2>1, <2>2 DEF CrashTypeOK
  <2>4. PassesOn(n, c, "short", None)
    BY <1>13, <2>3 DEF ForwardFailed, PassesOn
  <2> QED
    BY <2>4, PassesOnStep
<1>14. CASE ReplicaFailed(n, c)
  <2>1. Advance(n, c)
    BY <1>12, <1>14 DEF ReplicaFailed, Writing, Advance
  <2> QED
    BY <2>1, AdvanceStep
<1>15. CASE DieAnswering(n, c)
  <2>1. Die({n}) /\ crashes' \in 0 .. CrashLimit /\ {n} \in SUBSET Caller
    BY <1>1, <1>15 DEF DieAnswering, CrashTypeOK
  <2> QED
    BY <2>1, DieStep
<1>16. CASE NodeStep(n, c) /\ Survives
  BY <1>3, <1>4, <1>5, <1>6, <1>7, <1>8, <1>9, <1>10, <1>11, <1>16 DEF NodeStep
<1> QED
  BY <1>13, <1>14, <1>15, <1>16 DEF NodeGoesOn

LEMMA CrashNextStep == CrashInv /\ [CrashNext]_crashVars => CrashInv'
<1> SUFFICES ASSUME Talk, Files, [CrashNext]_crashVars PROVE Talk' /\ Files'
  BY DEF CrashInv
<1>1. CrashTypeOK
  BY DEF Talk
<1>2. ASSUME NEW c \in Client \ dead, NEW n \in Node, NEW r \in Wanted[c], Start(c, r, n)
      PROVE  Talk' /\ Files'
  <2>1. c \in Client /\ c \in Caller /\ r \in Request
    BY CallTypes, WantedAssumption DEF Talk
  <2> DEFINE m == FindMessage(n, r.name)
  <2>2. m \in Message /\ m.to = n
    BY <2>1 DEF FindMessage, Message, Request
  <2>3. sock[c] = "closed" /\ answer[c] = None
    BY <1>2, <2>1 DEF Start, StartOp, Talk, ReplyInv
  <2>4. answer = [answer EXCEPT ![c] = None]
    BY <1>1, <2>1, <2>3 DEF CrashTypeOK
  <2>5. ClientSends(c, r, m)
    BY <1>2, <2>3, <2>4 DEF Start, StartOp, Survives, ClientSends
  <2> HIDE DEF m
  <2>6. m = FindMessage(m.to, r.name)
    BY <2>2 DEF m
  <2> QED
    BY <2>1, <2>2, <2>5, <2>6, ClientSendsStep
<1>3. ASSUME NEW c \in Client \ dead, ClientGoesOn(c) PROVE Talk' /\ Files'
  BY <1>3, ClientGoesOnStep
<1>4. ASSUME NEW n \in Node \ dead, NEW c \in Caller, NodeGoesOn(n, c) PROVE Talk' /\ Files'
  BY <1>4, NodeGoesOnStep
<1>5. ASSUME NEW x \in Caller, Crash(x) PROVE Talk' /\ Files'
  <2>1. Die(Fellows(x)) /\ Fellows(x) \in SUBSET Caller
    BY <1>5, FellowsType DEF Crash
  <2>2. crashes' \in 0 .. CrashLimit
    BY <1>1, <1>5, CrashAssumption DEF Crash, CrashTypeOK
  <2> QED
    BY <2>1, <2>2, DieStep
<1>6. CASE UNCHANGED crashVars
  BY <1>6, CrashStutter
<1> QED
  BY <1>2, <1>3, <1>4, <1>5, <1>6 DEF CrashNext

\* The invariant holds of every ring, whoever dies.
THEOREM CrashInvariance == CrashSpec => []CrashInv
<1>1. CrashInv /\ [CrashNext]_crashVars => CrashInv'
  BY CrashNextStep
<1> QED
  BY <1>1, CrashInitHolds, PTL DEF CrashSpec

\* The variables keep their types: whatever is lost with a process, an answer a
\* loop passes on is a node's address, a file, no file, or visibly none.
THEOREM CrashTypeCorrect == CrashSpec => []CrashTypeOK
<1>1. CrashInv => CrashTypeOK
  BY DEF CrashInv, Talk
<1> QED
  BY <1>1, CrashInvariance, PTL

\* Whoever dies, and however often: the live replicas of a file hold what the
\* owner holds, or held when it died, up to one write that is stopped somewhere on
\* the list of CMD_FORCE_ADD or CMD_FORCE_DELETE.
THEOREM WritesSurviveInOrder == CrashSpec => []WritesInOrder
<1>1. CrashInv => WritesInOrder
  BY DEF CrashInv, Files
<1> QED
  BY <1>1, CrashInvariance, PTL

\* No death leaves a file outside its owner and the owner's replicas.
THEOREM NeverStrayCopy == CrashSpec => []NoStrayCopy
<1>1. CrashInv => NoStrayCopy
  BY DEF CrashInv, Files
<1> QED
  BY <1>1, CrashInvariance, PTL

-----------------------------------------------------------------------------
(* The death toll *)

\* The nodes that have not died of answering a dead caller.
Unanswered == {n \in dead \cap Node : ~AnsweredTheDead(n)}

\* The dead callers that wait for a node that lives: it may die of answering.
Deadly == {c \in dead : sock[c] \in {"sent", "taken"} /\ call[c].to \notin dead}

\* Every crash takes a node and leaves one caller, every thread is one caller,
\* and a caller is used up by the node that dies of answering it.
Toll ==
    /\ Cardinality(Unanswered) <= crashes
    /\ Cardinality(dead \cap Node) + Cardinality(Deadly)
          <= 2 * crashes + Cardinality(dead \cap Client)

\* The dead are finitely many.
LEMMA FiniteDead ==
    ASSUME CrashTypeOK
    PROVE  /\ IsFiniteSet(dead) /\ IsFiniteSet(dead \cap Node) /\ IsFiniteSet(dead \cap Client)
           /\ IsFiniteSet(Unanswered) /\ IsFiniteSet(Deadly)
<1>1. IsFiniteSet(Caller)
  BY CrashAssumption, FS_Union DEF Caller
<1>2. IsFiniteSet(dead)
  BY <1>1, FS_Subset DEF CrashTypeOK
<1>3. /\ dead \cap Node \in SUBSET dead /\ dead \cap Client \in SUBSET dead
      /\ Unanswered \in SUBSET dead /\ Deadly \in SUBSET dead
  BY DEF Unanswered, Deadly
<1> QED
  BY <1>2, <1>3, FS_Subset

\* The same of the next state.
LEMMA FiniteDeadNext ==
    ASSUME CrashTypeOK'
    PROVE  /\ IsFiniteSet(dead') /\ IsFiniteSet(dead' \cap Node) /\ IsFiniteSet(dead' \cap Client)
           /\ IsFiniteSet(Unanswered') /\ IsFiniteSet(Deadly')
<1>1. IsFiniteSet(Caller)
  BY CrashAssumption, FS_Union DEF Caller
<1>2. IsFiniteSet(dead')
  BY <1>1, FS_Subset DEF CrashTypeOK
<1>3. /\ dead' \cap Node \in SUBSET dead' /\ dead' \cap Client \in SUBSET dead'
      /\ Unanswered' \in SUBSET dead' /\ Deadly' \in SUBSET dead'
  BY DEF Unanswered, Deadly
<1> QED
  BY <1>2, <1>3, FS_Subset

\* What a step adds to the nodes and callers that count is paid for by the crashes
\* and the threads it adds.
LEMMA TollMoves ==
    ASSUME CrashTypeOK, CrashTypeOK', Toll, NEW i \in Nat, NEW j \in Nat,
           crashes' = crashes + i,
           Cardinality(dead' \cap Client) = Cardinality(dead \cap Client) + j,
           Cardinality(Unanswered') <= Cardinality(Unanswered) + i,
           Cardinality(dead' \cap Node) + Cardinality(Deadly')
              <= Cardinality(dead \cap Node) + Cardinality(Deadly) + 2 * i + j
    PROVE  Toll'
<1> DEFINE u == Cardinality(Unanswered)
           w == Cardinality(Deadly)
           d == Cardinality(dead \cap Node)
           t == Cardinality(dead \cap Client)
           u1 == Cardinality(Unanswered')
           w1 == Cardinality(Deadly')
           d1 == Cardinality(dead' \cap Node)
           t1 == Cardinality(dead' \cap Client)
<1>1. /\ u \in Nat /\ w \in Nat /\ d \in Nat /\ t \in Nat
      /\ u1 \in Nat /\ w1 \in Nat /\ d1 \in Nat /\ t1 \in Nat
  BY FiniteDead, FiniteDeadNext, FS_CardinalityType
<1>2. crashes \in Nat /\ crashes' = crashes + i
  BY CrashAssumption DEF CrashTypeOK
<1>3. u <= crashes /\ d + w <= 2 * crashes + t
  BY DEF Toll
<1>4. t1 = t + j /\ u1 <= u + i /\ d1 + w1 <= d + w + 2 * i + j
  OBVIOUS
<1> HIDE DEF u, w, d, t, u1, w1, d1, t1
<1>5. u1 <= crashes' /\ d1 + w1 <= 2 * crashes' + t1
  BY <1>1, <1>2, <1>3, <1>4
<1> QED
  BY <1>5 DEF u1, w1, d1, t1, Toll

\* What no step does to the call of a dead caller: it makes none, and a call that
\* has failed stays failed.
DeadStill ==
    \A c \in dead :
        /\ call'[c] = call[c]
        /\ sock[c] = "failed" => sock'[c] = "failed"
        /\ sock'[c] \in {"sent", "taken"} => sock[c] \in {"sent", "taken"}

\* A step in which nobody dies adds neither to the dead nor to their calls.
LEMMA TollKept ==
    ASSUME CrashTypeOK, CrashTypeOK', Toll, DeadStill,
           dead' = dead, crashes' = crashes
    PROVE  Toll'
<1>1. Unanswered' \in SUBSET Unanswered
  BY DEF Unanswered, AnsweredTheDead, DeadStill
<1>2. Deadly' \in SUBSET Deadly
  BY DEF Deadly, DeadStill
<1>3. /\ Cardinality(Unanswered') <= Cardinality(Unanswered)
      /\ Cardinality(Deadly') <= Cardinality(Deadly)
  BY <1>1, <1>2, FiniteDead, FS_Subset
<1>4. /\ Cardinality(Unanswered') \in Nat /\ Cardinality(Unanswered) \in Nat
      /\ Cardinality(Deadly') \in Nat /\ Cardinality(Deadly) \in Nat
      /\ Cardinality(dead \cap Node) \in Nat /\ Cardinality(dead \cap Client) \in Nat
      /\ crashes \in Nat
  BY FiniteDead, FiniteDeadNext, FS_CardinalityType, CrashAssumption DEF CrashTypeOK
<1>5. /\ Cardinality(Unanswered') <= Cardinality(Unanswered) + 0
      /\ Cardinality(dead' \cap Node) + Cardinality(Deadly')
            <= Cardinality(dead \cap Node) + Cardinality(Deadly) + 2 * 0 + 0
  BY <1>3, <1>4
<1>6. /\ Cardinality(dead' \cap Client) = Cardinality(dead \cap Client) + 0
      /\ crashes' = crashes + 0
  BY <1>4
<1> QED
  BY <1>5, <1>6, TollMoves

\* Death leaves the calls of the dead as they are.
LEMMA DeadStillDying ==
    ASSUME Talk, NEW xs \in SUBSET Caller, NEW lost, DieLosing(xs, lost)
    PROVE  DeadStill
<1> SUFFICES ASSUME NEW c \in dead
             PROVE  /\ call'[c] = call[c]
                    /\ sock[c] = "failed" => sock'[c] = "failed"
                    /\ sock'[c] \in {"sent", "taken"} => sock[c] \in {"sent", "taken"}
  BY DEF DeadStill
<1>1. c \in Caller /\ call'[c] = call[c]
  BY DEF Talk, CrashTypeOK, DieLosing
<1> QED
  BY <1>1, DieSock

\* Threads that die are no nodes, and each may kill one.
LEMMA ClientsDie ==
    ASSUME Talk, Talk', Toll, NEW xs \in SUBSET Client, NEW lost, DieLosing(xs, lost),
           crashes' \in Nat, crashes' >= crashes
    PROVE  Toll'
<1>1. CrashTypeOK /\ CrashTypeOK' /\ dead' = dead \cup xs /\ DeadStill /\ call' = call
      /\ xs \in SUBSET Caller /\ xs \cap Node = {}
  <2>1. xs \in SUBSET Caller /\ xs \cap Node = {}
    BY CallTypes DEF Talk
  <2> QED
    BY <2>1, DeadStillDying DEF Talk, DieLosing
<1> DEFINE new == (dead' \cap Client) \ (dead \cap Client)
<1>2. Unanswered' \in SUBSET Unanswered
  <2>1. dead' \cap Node = dead \cap Node
    BY <1>1
  <2> QED
    BY <1>1, <2>1 DEF Unanswered, AnsweredTheDead, DeadStill
<1>3. Deadly' \in SUBSET (Deadly \cup new)
  <2> SUFFICES ASSUME NEW c \in Deadly', c \notin new PROVE c \in Deadly
    OBVIOUS
  <2>1. c \in dead' /\ sock'[c] \in {"sent", "taken"} /\ call[c].to \notin dead'
    BY <1>1 DEF Deadly
  <2>2. c \in dead
    BY <1>1, <2>1
  <2> QED
    BY <1>1, <2>1, <2>2 DEF Deadly, DeadStill
<1>4. IsFiniteSet(new) /\ dead' \cap Client = (dead \cap Client) \cup new
      /\ (dead \cap Client) \cap new = {} /\ dead' \cap Node = dead \cap Node
  <2>1. IsFiniteSet(new)
    BY <1>1, FiniteDeadNext, FS_Difference
  <2> QED
    BY <1>1, <2>1
<1> HIDE DEF new
<1>5. Cardinality(new) \in Nat
  BY <1>4, FS_CardinalityType
<1>6. Cardinality(Deadly') <= Cardinality(Deadly) + Cardinality(new)
  <2>1. IsFiniteSet(Deadly) /\ IsFiniteSet(Deadly \cup new)
    BY <1>1, <1>4, FiniteDead, FS_Union
  <2>2. Deadly \cap new \in SUBSET new
    OBVIOUS
  <2>3. Cardinality(Deadly \cap new) \in Nat
    BY <1>4, <2>2, FS_Subset, FS_CardinalityType
  <2>4. Cardinality(Deadly') <= Cardinality(Deadly \cup new)
    BY <1>3, <2>1, FS_Subset
  <2>5. Cardinality(Deadly \cup new) =
           Cardinality(Deadly) + Cardinality(new) - Cardinality(Deadly \cap new)
    BY <1>4, <2>1, FS_Union
  <2>6. Cardinality(Deadly') \in Nat /\ Cardinality(Deadly) \in Nat
    BY <1>1, FiniteDead, FiniteDeadNext, FS_CardinalityType
  <2> QED
    BY <1>5, <2>3, <2>4, <2>5, <2>6
<1>7. Cardinality(dead' \cap Client) = Cardinality(dead \cap Client) + Cardinality(new)
  <2>1. IsFiniteSet(dead \cap Client) /\ Cardinality(dead \cap Client) \in Nat
    BY <1>1, FiniteDead, FS_CardinalityType
  <2>2. Cardinality((dead \cap Client) \cup new) =
           Cardinality(dead \cap Client) + Cardinality(new)
              - Cardinality((dead \cap Client) \cap new)
    BY <1>4, <2>1, FS_Union
  <2>3. Cardinality((dead \cap Client) \cap new) = 0
    BY <1>4, FS_EmptySet
  <2>4. Cardinality((dead \cap Client) \cup new)
           = Cardinality(dead \cap Client) + Cardinality(new)
    BY <1>5, <2>1, <2>2, <2>3
  <2> QED
    BY <1>4, <2>4
<1>8. Cardinality(Unanswered') <= Cardinality(Unanswered)
  BY <1>1, <1>2, FiniteDead, FS_Subset
<1>9. /\ Cardinality(Unanswered') \in Nat /\ Cardinality(Unanswered) \in Nat
      /\ Cardinality(Deadly') \in Nat /\ Cardinality(Deadly) \in Nat
      /\ Cardinality(dead \cap Node) \in Nat /\ crashes \in Nat
  BY <1>1, FiniteDead, FiniteDeadNext, FS_CardinalityType, CrashAssumption DEF CrashTypeOK
<1>10. Cardinality(dead' \cap Node) = Cardinality(dead \cap Node)
  BY <1>4
<1>11. PICK i \in Nat : crashes' = crashes + i
  <2>1. \A x, y \in Nat : y >= x => \E i \in Nat : y = x + i
    <3>1. ASSUME NEW x \in Nat, NEW y \in Nat, y >= x
          PROVE  y - x \in Nat /\ y = x + (y - x)
      BY <3>1
    <3> QED
      BY <3>1
  <2> QED
    BY <1>9, <2>1
<1> HIDE DEF new
<1>12. /\ Cardinality(Unanswered') <= Cardinality(Unanswered) + i
       /\ Cardinality(dead' \cap Node) + Cardinality(Deadly')
             <= Cardinality(dead \cap Node) + Cardinality(Deadly) + 2 * i + Cardinality(new)
  BY <1>5, <1>6, <1>8, <1>9, <1>10
<1> QED
  BY <1>1, <1>5, <1>7, <1>11, <1>12, TollMoves

\* A node that is killed may leave a call to a node that lives.
LEMMA NodeKilled ==
    ASSUME Talk, Talk', Toll, NEW n \in Node \ dead, NEW lost, DieLosing({n}, lost),
           crashes' = crashes + 1
    PROVE  Toll'
<1>1. CrashTypeOK /\ CrashTypeOK' /\ dead' = dead \cup {n} /\ DeadStill /\ call' = call
      /\ n \in Caller /\ n \notin Client
  <2>1. {n} \in SUBSET Caller /\ n \in Caller /\ n \notin Client
    BY CallTypes DEF Talk
  <2> QED
    BY <2>1, DeadStillDying DEF Talk, DieLosing
<1>2. Unanswered' \in SUBSET (Unanswered \cup {n})
  BY <1>1 DEF Unanswered, AnsweredTheDead, DeadStill
<1>3. Deadly' \in SUBSET (Deadly \cup {n})
  BY <1>1 DEF Deadly, DeadStill
<1>4. dead' \cap Node = (dead \cap Node) \cup {n} /\ dead' \cap Client = dead \cap Client
  BY <1>1
<1>5. /\ Cardinality(Unanswered') <= Cardinality(Unanswered) + 1
      /\ Cardinality(Deadly') <= Cardinality(Deadly) + 1
      /\ Cardinality(dead' \cap Node) = Cardinality(dead \cap Node) + 1
  <2>1. ASSUME NEW S, IsFiniteSet(S), NEW T \in SUBSET (S \cup {n})
        PROVE  Cardinality(T) <= Cardinality(S) + 1
    <3>1. IsFiniteSet(S \cup {n}) /\ Cardinality(S \cup {n}) <= Cardinality(S) + 1
      BY <2>1, FS_AddElement, FS_CardinalityType
    <3>2. IsFiniteSet(T) /\ Cardinality(T) <= Cardinality(S \cup {n})
      BY <3>1, FS_Subset
    <3> QED
      BY <2>1, <3>1, <3>2, FS_CardinalityType
  <2>2. Cardinality((dead \cap Node) \cup {n}) = Cardinality(dead \cap Node) + 1
    BY <1>1, FiniteDead, FS_AddElement
  <2> QED
    BY <1>1, <1>2, <1>3, <1>4, <2>1, <2>2, FiniteDead
<1>6. /\ Cardinality(Deadly') \in Nat /\ Cardinality(Deadly) \in Nat
      /\ Cardinality(dead \cap Node) \in Nat /\ Cardinality(dead \cap Client) \in Nat
  BY <1>1, FiniteDead, FiniteDeadNext, FS_CardinalityType
<1>7. Cardinality(dead' \cap Client) = Cardinality(dead \cap Client) + 0
  <2>1. Cardinality(dead' \cap Client) = Cardinality(dead \cap Client)
    BY <1>4
  <2> QED
    BY <1>6, <2>1
<1>8. Cardinality(dead' \cap Node) + Cardinality(Deadly')
         <= Cardinality(dead \cap Node) + Cardinality(Deadly) + 2 * 1 + 0
  BY <1>5, <1>6
<1> QED
  BY <1>1, <1>5, <1>7, <1>8, TollMoves

\* A node that dies of answering uses up the dead caller, and leaves no call: it
\* has none when it answers.
LEMMA NodeAnswered ==
    ASSUME Talk, Talk', Toll, NEW n \in Node \ dead, NEW c \in dead, Answering(n, c),
           NEW lost, DieLosing({n}, lost), crashes' = crashes
    PROVE  Toll'
<1>1. CrashTypeOK /\ CrashTypeOK' /\ dead' = dead \cup {n} /\ DeadStill /\ call' = call
      /\ n \in Caller /\ n \notin Client /\ c \in Caller /\ c # n /\ n \notin dead
  <2>1. {n} \in SUBSET Caller /\ n \in Caller /\ n \notin Client
    BY CallTypes DEF Talk
  <2>2. dead' = dead \cup {n} /\ call' = call /\ DeadStill
    BY <2>1, DeadStillDying DEF DieLosing
  <2> QED
    BY <2>1, <2>2 DEF Talk, CrashTypeOK
<1>2. /\ sock[c] \in {"sent", "taken"} /\ call[c].to = n
      /\ sock[n] \notin {"sent", "taken"}
  <2>1. NodeOK(n) /\ SockInv /\ QueueInv /\ ExecInv /\ queue \in [Node -> Seq(Caller)]
    BY CallTypes DEF Talk, LiveInv
  <2>2. CASE exec[n] = None /\ queue[n] # <<>> /\ c = Head(queue[n])
    <3>1. HeadOK(n, c)
      BY <1>1, <2>1, <2>2, HeadTaken
    <3> QED
      BY <3>1 DEF HeadOK
  <2>3. CASE exec[n] = c /\ c # None /\ sock[n] \in {"answered", "failed", "closed"}
    BY <2>1, <2>3 DEF ExecInv
  <2> QED
    BY <2>2, <2>3 DEF Answering, CanTake, Writing
<1>3. sock'[c] = "failed"
  BY <1>1, <1>2, DieSock
<1>4. Unanswered' \in SUBSET Unanswered
  <2>1. AnsweredTheDead(n)'
    BY <1>1, <1>2, <1>3 DEF AnsweredTheDead
  <2> QED
    BY <1>1, <2>1 DEF Unanswered, AnsweredTheDead, DeadStill
<1>5. Deadly' \in SUBSET (Deadly \ {c})
  <2>1. sock'[n] \notin {"sent", "taken"}
    BY <1>1, <1>2, DieSock
  <2> QED
    BY <1>1, <1>3, <2>1 DEF Deadly, DeadStill
<1>6. c \in Deadly
  BY <1>1, <1>2 DEF Deadly
<1>7. dead' \cap Node = (dead \cap Node) \cup {n} /\ dead' \cap Client = dead \cap Client
  BY <1>1
<1>8. /\ Cardinality(Unanswered') <= Cardinality(Unanswered)
      /\ Cardinality(Deadly') <= Cardinality(Deadly) - 1
      /\ Cardinality(dead' \cap Node) = Cardinality(dead \cap Node) + 1
  <2>1. Cardinality(Unanswered') <= Cardinality(Unanswered)
    BY <1>1, <1>4, FiniteDead, FS_Subset
  <2>2. IsFiniteSet(Deadly \ {c}) /\ Cardinality(Deadly \ {c}) = Cardinality(Deadly) - 1
    BY <1>1, <1>6, FiniteDead, FS_RemoveElement
  <2>3. Cardinality(Deadly') <= Cardinality(Deadly \ {c})
    BY <1>5, <2>2, FS_Subset
  <2>4. Cardinality((dead \cap Node) \cup {n}) = Cardinality(dead \cap Node) + 1
    BY <1>1, FiniteDead, FS_AddElement
  <2> QED
    BY <1>7, <2>1, <2>2, <2>3, <2>4
<1>9. /\ Cardinality(Unanswered') \in Nat /\ Cardinality(Unanswered) \in Nat
      /\ Cardinality(Deadly') \in Nat /\ Cardinality(Deadly) \in Nat
      /\ Cardinality(dead \cap Node) \in Nat /\ Cardinality(dead \cap Client) \in Nat
      /\ crashes \in Nat
  <2>1. Cardinality(Unanswered') \in Nat /\ Cardinality(Deadly') \in Nat
    BY <1>1, FiniteDeadNext, FS_CardinalityType
  <2>2. /\ Cardinality(Unanswered) \in Nat /\ Cardinality(Deadly) \in Nat
        /\ Cardinality(dead \cap Node) \in Nat /\ Cardinality(dead \cap Client) \in Nat
    BY <1>1, FiniteDead, FS_CardinalityType
  <2>3. crashes \in Nat
    BY <1>1, CrashAssumption DEF CrashTypeOK
  <2> QED
    BY <2>1, <2>2, <2>3
<1>10. Cardinality(dead' \cap Client) = Cardinality(dead \cap Client) + 0
  <2>1. Cardinality(dead' \cap Client) = Cardinality(dead \cap Client)
    BY <1>7
  <2> QED
    BY <1>9, <2>1
<1>11. /\ Cardinality(Unanswered') <= Cardinality(Unanswered) + 0
       /\ Cardinality(dead' \cap Node) + Cardinality(Deadly')
             <= Cardinality(dead \cap Node) + Cardinality(Deadly) + 2 * 0 + 0
  BY <1>8, <1>9
<1>12. crashes' = crashes + 0
  BY <1>9
<1> QED
  BY <1>1, <1>10, <1>11, <1>12, TollMoves

\* A step of a thread that lives, in which nobody dies.
LEMMA ClientStill ==
    ASSUME CrashTypeOK, NEW c \in Client \ dead,
           NEW m, NEW state,
           call' = [call EXCEPT ![c] = m], sock' = [sock EXCEPT ![c] = state]
    PROVE  DeadStill
BY DEF DeadStill, CrashTypeOK

\* A step of a loop that lives, in which nobody dies.
LEMMA NodeStill ==
    ASSUME Talk, NEW n \in Node \ dead, NEW c \in Caller,
           \/ NodeStep(n, c) \/ ForwardFailed(n, c) \/ ReplicaFailed(n, c)
    PROVE  DeadStill
<1>1. /\ call \in [Caller -> Message \cup {None}] /\ sock \in [Caller -> CrashStates]
      /\ dead \subseteq Caller /\ n \in Caller /\ n \notin dead
  BY CallTypes DEF Talk, CrashTypeOK
<1>2. sock[c] \in {"sent", "taken"}
  <2>1. NodeOK(n) /\ SockInv /\ QueueInv /\ ExecInv /\ queue \in [Node -> Seq(Caller)]
    BY CallTypes DEF Talk, LiveInv
  <2>2. CASE exec[n] = None /\ queue[n] # <<>> /\ c = Head(queue[n])
    BY <2>1, <2>2, HeadTaken DEF HeadOK
  <2>3. CASE exec[n] = c /\ c # None
    BY <2>1, <2>3 DEF ExecInv
  <2> QED
    BY <2>2, <2>3 DEF NodeStep, AnswerFind, ForwardFind, ReturnFind, TakeAdd, TakeDelete,
       TakeGet, Replicate, ReplicaDone, AnswerWrite, ForwardFailed, ReplicaFailed,
       CanTake, Writing
<1>3. \A d \in Caller : d # n => /\ call'[d] = call[d]
                                 /\ d # c => sock'[d] = sock[d]
  <2>1. CASE AnswerFind(n, c)
    BY <1>1, <2>1 DEF AnswerFind
  <2>2. CASE ForwardFind(n, c)
    BY <1>1, <2>2 DEF ForwardFind
  <2>3. CASE ReturnFind(n, c)
    BY <1>1, <2>3 DEF ReturnFind
  <2>4. CASE TakeAdd(n, c)
    BY <1>1, <2>4 DEF TakeAdd
  <2>5. CASE TakeDelete(n, c)
    BY <1>1, <2>5 DEF TakeDelete
  <2>6. CASE TakeGet(n, c)
    BY <1>1, <2>6 DEF TakeGet
  <2>7. CASE Replicate(n, c)
    BY <1>1, <2>7 DEF Replicate, Send
  <2>8. CASE ReplicaDone(n, c)
    BY <1>1, <2>8 DEF ReplicaDone
  <2>9. CASE AnswerWrite(n, c)
    BY <1>1, <2>9 DEF AnswerWrite
  <2>10. CASE ForwardFailed(n, c)
    BY <1>1, <2>10 DEF ForwardFailed
  <2>11. CASE ReplicaFailed(n, c)
    BY <1>1, <2>11 DEF ReplicaFailed
  <2> QED
    BY <2>1, <2>2, <2>3, <2>4, <2>5, <2>6, <2>7, <2>8, <2>9, <2>10, <2>11 DEF NodeStep
<1> QED
  BY <1>1, <1>2, <1>3 DEF DeadStill

\* Whoever dies in a step, the bounds on the dead hold.
LEMMA DieToll ==
    ASSUME Talk, Talk', Toll, NEW xs, Die(xs),
           \/ xs \in SUBSET Client /\ crashes' \in {crashes, crashes + 1}
           \/ \E n \in Node \ dead : xs = {n} /\ crashes' = crashes + 1
           \/ \E n \in Node \ dead, c \in dead :
                  xs = {n} /\ crashes' = crashes /\ Answering(n, c)
    PROVE  Toll'
<1>1. PICK lost : DieLosing(xs, lost)
  BY DEF Die, DieLosing
<1>2. CASE xs \in SUBSET Client /\ crashes' \in {crashes, crashes + 1}
  <2>1. crashes \in Nat
    BY CrashAssumption DEF Talk, CrashTypeOK
  <2>2. crashes' \in Nat /\ crashes' >= crashes
    BY <1>2, <2>1
  <2> QED
    BY <1>1, <1>2, <2>2, ClientsDie
<1>3. ASSUME NEW n \in Node \ dead, xs = {n}, crashes' = crashes + 1
      PROVE  Toll'
  <2>1. DieLosing({n}, lost)
    BY <1>1, <1>3
  <2> QED
    BY <1>3, <2>1, NodeKilled
<1>4. ASSUME NEW n \in Node \ dead, NEW c \in dead, xs = {n}, crashes' = crashes,
             Answering(n, c)
      PROVE  Toll'
  <2>1. DieLosing({n}, lost)
    BY <1>1, <1>4
  <2> QED
    BY <1>4, <2>1, NodeAnswered
<1> QED
  BY <1>2, <1>3, <1>4

LEMMA TollStep ==
    ASSUME Talk, Talk', Toll, [CrashNext]_crashVars
    PROVE  Toll'
<1>1. CrashTypeOK /\ CrashTypeOK' /\ Client \cap Node = {}
  BY CallTypes DEF Talk
<1>2. CASE DeadStill /\ dead' = dead /\ crashes' = crashes
  BY <1>1, <1>2, TollKept
<1>3. ASSUME NEW c \in Client \ dead, NEW n \in Node, NEW r \in Wanted[c], Start(c, r, n)
      PROVE  Toll'
  <2>1. /\ call' = [call EXCEPT ![c] = FindMessage(n, r.name)]
        /\ sock' = [sock EXCEPT ![c] = "sent"] /\ dead' = dead /\ crashes' = crashes
    BY <1>3 DEF Start, StartOp, Send, Survives
  <2> QED
    BY <1>1, <1>2, <2>1, ClientStill
<1>4. ASSUME NEW c \in Client \ dead, ClientGoesOn(c) PROVE Toll'
  <2>1. CASE CallOwner(c) /\ Survives
    <3>1. /\ call' = [call EXCEPT ![c] = ForceMessage(answer[c], want[c])]
          /\ sock' = [sock EXCEPT ![c] = "sent"] /\ dead' = dead /\ crashes' = crashes
      BY <2>1 DEF CallOwner, Send, Survives
    <3> QED
      BY <1>1, <1>2, <3>1, ClientStill
  <2>2. CASE FinishOp(c) /\ Survives
    <3>1. /\ call' = [call EXCEPT ![c] = None] /\ sock' = [sock EXCEPT ![c] = "closed"]
          /\ dead' = dead /\ crashes' = crashes
      BY <2>2 DEF FinishOp, Survives
    <3> QED
      BY <1>1, <1>2, <3>1, ClientStill
  <2>3. CASE ForceFailed(c)
    <3>1. /\ call' = [call EXCEPT ![c] = None] /\ sock' = [sock EXCEPT ![c] = "closed"]
          /\ dead' = dead /\ crashes' = crashes
      BY <2>3 DEF ForceFailed
    <3> QED
      BY <1>1, <1>2, <3>1, ClientStill
  <2>4. CASE FindFailed(c)
    <3>1. Die(Fellows(c)) /\ Fellows(c) \in SUBSET Client /\ crashes' = crashes
      BY <1>1, <2>4 DEF FindFailed, Fellows
    <3> QED
      BY <3>1, DieToll
  <2> QED
    BY <1>4, <2>1, <2>2, <2>3, <2>4 DEF ClientGoesOn, ClientStep
<1>5. ASSUME NEW n \in Node \ dead, NEW c \in Caller, NodeGoesOn(n, c) PROVE Toll'
  <2>1. CASE (NodeStep(n, c) /\ Survives) \/ ForwardFailed(n, c) \/ ReplicaFailed(n, c)
    <3>1. dead' = dead /\ crashes' = crashes
      BY <2>1 DEF Survives, ForwardFailed, ReplicaFailed
    <3>2. DeadStill
      BY <2>1, NodeStill
    <3> QED
      BY <1>2, <3>1, <3>2
  <2>2. CASE DieAnswering(n, c)
    <3>1. c \in dead /\ Answering(n, c) /\ Die({n}) /\ crashes' = crashes
      BY <2>2 DEF DieAnswering
    <3> QED
      BY <3>1, DieToll
  <2> QED
    BY <1>5, <2>1, <2>2 DEF NodeGoesOn
<1>6. ASSUME NEW x \in Caller, Crash(x) PROVE Toll'
  <2>1. crashes' = crashes + 1 /\ x \notin dead /\ Die(Fellows(x))
    BY <1>6 DEF Crash
  <2>2. CASE x \in Node
    <3>1. Fellows(x) = {x}
      BY <2>2 DEF Fellows
    <3> QED
      BY <2>1, <2>2, <3>1, DieToll
  <2>3. CASE x \notin Node
    <3>1. Fellows(x) \in SUBSET Client
      BY <2>3 DEF Fellows
    <3> QED
      BY <2>1, <3>1, DieToll
  <2> QED
    BY <2>2, <2>3
<1>7. CASE UNCHANGED crashVars
  <2>1. call' = call /\ sock' = sock /\ dead' = dead /\ crashes' = crashes
    BY <1>7 DEF crashVars, vars
  <2> QED
    BY <1>2, <2>1 DEF DeadStill
<1> QED
  BY <1>3, <1>4, <1>5, <1>6, <1>7 DEF CrashNext

\* However many processes die: every node was killed from outside or died of
\* answering a caller that was dead, each such caller took one node with it, and no
\* node dies of anything else.
THEOREM DeathTollBounded == CrashSpec => []DeathToll
<1>1. CrashInit => Toll
  <2> SUFFICES ASSUME CrashInit PROVE Toll
    OBVIOUS
  <2>1. dead = {} /\ crashes = 0
    BY DEF CrashInit
  <2>2. Unanswered = {} /\ Deadly = {} /\ dead \cap Node = {} /\ dead \cap Client = {}
    BY <2>1 DEF Unanswered, Deadly
  <2>3. Cardinality({}) = 0
    BY FS_EmptySet
  <2>4. /\ Cardinality(Unanswered) = 0 /\ Cardinality(Deadly) = 0
        /\ Cardinality(dead \cap Node) = 0 /\ Cardinality(dead \cap Client) = 0
    BY <2>2, <2>3
  <2> QED
    BY <2>1, <2>4 DEF Toll
<1>2. CrashInv /\ Toll /\ [CrashNext]_crashVars => CrashInv' /\ Toll'
  <2> SUFFICES ASSUME CrashInv, Toll, [CrashNext]_crashVars PROVE CrashInv' /\ Toll'
    OBVIOUS
  <2>1. CrashInv'
    BY CrashNextStep
  <2>2. Talk /\ Talk'
    BY <2>1 DEF CrashInv
  <2> QED
    BY <2>1, <2>2, TollStep
<1>3. CrashInv /\ Toll => DeathToll
  <2> SUFFICES ASSUME CrashTypeOK, Toll PROVE DeathToll
    BY DEF CrashInv, Talk
  <2>1. /\ Cardinality(Deadly) \in Nat /\ Cardinality(dead \cap Node) \in Nat
        /\ Cardinality(dead \cap Client) \in Nat /\ crashes \in Nat
    BY FiniteDead, FS_CardinalityType, CrashAssumption DEF CrashTypeOK
  <2>2. /\ Cardinality(Unanswered) <= crashes
        /\ Cardinality(dead \cap Node) + Cardinality(Deadly)
              <= 2 * crashes + Cardinality(dead \cap Client)
    BY DEF Toll
  <2>3. Cardinality(dead \cap Node) <= 2 * crashes + Cardinality(dead \cap Client)
    BY <2>1, <2>2
  <2> QED
    BY <2>2, <2>3 DEF DeathToll, Unanswered
<1> QED
  BY <1>1, <1>2, <1>3, CrashInitHolds, PTL DEF CrashSpec

-----------------------------------------------------------------------------
(* What the living wait for *)

\* Calls as DhtExecProofs speaks of them: PendingInv goes on holding, of the
\* calls of the dead too.
LEMMA CrashCalling ==
    ASSUME Talk
    PROVE  Calling
BY CallTypes DEF Talk, CrashTypeOK, CrashStates, Calling

\* Of the callers that die none waits for another one of them; who waits for one of
\* them waits no longer, and the queues and loops of the others are left alone.
LEMMA PendingDie ==
    ASSUME Talk, PendingInv, NEW xs, NEW lost, DieLosing(xs, lost),
           \A d \in Caller \cap xs : sock[d] \in {"sent", "taken"} => call[d].to \notin xs
    PROVE  PendingInv'
<1> SUFFICES ASSUME NEW d \in Caller PROVE Pending(d)'
  BY DEF PendingInv
<1> DEFINE n == call[d].to
<1>1. CASE sock'[d] \in {"sent", "taken"}
  <2>1. sock[d] = sock'[d] /\ n \notin xs
    BY <1>1, DieSock
  <2>2. n \in Node
    BY <1>1, <2>1, CalleeType DEF Talk
  <2>3. queue'[n] = queue[n] /\ exec'[n] = exec[n] /\ call'[d] = call[d]
    BY <2>1, <2>2 DEF DieLosing
  <2> QED
    BY <2>1, <2>3 DEF PendingInv, Pending
<1>2. CASE sock'[d] \notin {"sent", "taken"}
  BY <1>2 DEF Pending
<1> QED
  BY <1>1, <1>2

\* A node that lives calls another one.
LEMMA NodeCallsOther ==
    ASSUME Talk, NEW n \in Node \ dead, sock[n] # "closed"
    PROVE  call[n].to # n
BY DEF Talk, LiveInv, NodeOK

LEMMA PendingDying ==
    ASSUME Talk, PendingInv, NEW xs, Die(xs),
           xs \in SUBSET Client \/ \E n \in Node \ dead : xs = {n}
    PROVE  PendingInv'
<1> PICK lost : DieLosing(xs, lost)
  BY DEF Die, DieLosing
<1>1. CASE xs \in SUBSET Client
  <2>1. \A d \in Caller : sock[d] \in {"sent", "taken"} => call[d].to \notin Client
    BY CallTypes, CalleeType DEF Talk
  <2> QED
    BY <1>1, <2>1, PendingDie
<1>2. ASSUME NEW n \in Node \ dead, xs = {n} PROVE PendingInv'
  <2>1. sock[n] \in {"sent", "taken"} => call[n].to # n
    BY NodeCallsOther
  <2> QED
    BY <1>2, <2>1, PendingDie
<1> QED
  BY <1>1, <1>2

LEMMA PendingClientGoesOn ==
    ASSUME Talk, PendingInv, NEW c \in Client, ClientGoesOn(c)
    PROVE  PendingInv'
<1>1. Calling /\ c \in Caller /\ Client \cap Node = {}
  BY CrashCalling, CallTypes DEF Talk
<1>2. CASE /\ sock[c] = "answered" /\ call[c].op = "find" => answer[c] # None
           /\ CallOwner(c)
  <2> DEFINE m == ForceMessage(answer[c], want[c])
  <2>1. sock[c] = "answered" /\ call[c].op = "find" /\ Send(c, m) /\ exec' = exec
        /\ answer[c] # None
    BY <1>2 DEF CallOwner
  <2>2. /\ want[c] \in Request
        /\ \/ call[c] = FindMessage(call[c].to, want[c].name)
           \/ call[c] = ForceMessage(Owner(want[c].name), want[c])
    BY <2>1 DEF Talk, ClientInv
  <2>3. call[c].name = want[c].name
    BY <2>2 DEF FindMessage, ForceMessage
  <2>4. answer[c] \in Node
    <3>1. answer[c] = Owner(want[c].name)
      BY <1>1, <2>1, <2>3 DEF Talk, ReplyInv
    <3> QED
      BY <2>2, <3>1, OwnerFound DEF Request
  <2>5. m \in Message
    BY <2>2, <2>4 DEF ForceMessage, Message, Request
  <2> HIDE DEF m
  <2> QED
    BY <1>1, <2>1, <2>5, PendingSend
<1>3. CASE FinishOp(c)
  BY <1>1, <1>3, PendingClose DEF FinishOp
<1>4. CASE FindFailed(c)
  <2>1. Die(Fellows(c)) /\ Fellows(c) \in SUBSET Client
    BY <1>1, <1>4 DEF FindFailed, Fellows
  <2> QED
    BY <2>1, PendingDying
<1>5. CASE ForceFailed(c)
  BY <1>1, <1>5, PendingClose DEF ForceFailed
<1> QED
  BY <1>2, <1>3, <1>4, <1>5 DEF ClientGoesOn, ClientStep

LEMMA PendingNodeGoesOn ==
    ASSUME Talk, PendingInv, NEW n \in Node \ dead, NEW c \in Caller, NodeGoesOn(n, c)
    PROVE  PendingInv'
<1>1. Calling /\ NodeOK(n) /\ n \in Caller
  BY CrashCalling, CallTypes DEF Talk, LiveInv
<1>2. CASE NodeStep(n, c)
  BY <1>1, <1>2, PendingNodeStep
<1>3. CASE ForwardFailed(n, c)
  <2>1. /\ exec[n] = c /\ c # None /\ queue' = queue
        /\ exec' = [exec EXCEPT ![n] = None] /\ call' = [call EXCEPT ![n] = None]
        /\ sock' = [sock EXCEPT ![n] = "closed", ![c] = "short"]
    BY <1>3 DEF ForwardFailed
  <2>2. /\ \A e \in Caller : e # n => call'[e] = call[e]
        /\ sock'[n] \notin {"sent", "taken"} /\ sock'[c] \notin {"sent", "taken"}
        /\ \A e \in Caller : e # n /\ e # c => sock'[e] = sock[e]
    BY <1>1, <2>1 DEF Calling
  <2> QED
    BY <1>1, <2>1, <2>2, PendingReturn
<1>4. CASE ReplicaFailed(n, c)
  BY <1>1, <1>4, PendingClose DEF ReplicaFailed
<1>5. CASE DieAnswering(n, c)
  BY <1>5, PendingDying DEF DieAnswering
<1> QED
  BY <1>2, <1>3, <1>4, <1>5 DEF NodeGoesOn

LEMMA PendingCrashNext ==
    ASSUME Talk, PendingInv, [CrashNext]_crashVars
    PROVE  PendingInv'
<1>1. Calling /\ Client \subseteq Caller
  BY CrashCalling, CallTypes DEF Talk
<1>2. ASSUME NEW c \in Client \ dead, NEW n \in Node, NEW r \in Wanted[c], Start(c, r, n)
      PROVE  PendingInv'
  <2> DEFINE m == FindMessage(n, r.name)
  <2>1. sock[c] = "closed" /\ Send(c, m) /\ exec' = exec /\ r \in Request /\ c \in Caller
    BY <1>1, <1>2, WantedAssumption DEF Start, StartOp
  <2>2. m \in Message
    BY <2>1 DEF FindMessage, Message, Request
  <2> HIDE DEF m
  <2> QED
    BY <1>1, <2>1, <2>2, PendingSend
<1>3. ASSUME NEW c \in Client \ dead, ClientGoesOn(c) PROVE PendingInv'
  BY <1>3, PendingClientGoesOn
<1>4. ASSUME NEW n \in Node \ dead, NEW c \in Caller, NodeGoesOn(n, c) PROVE PendingInv'
  BY <1>4, PendingNodeGoesOn
<1>5. ASSUME NEW x \in Caller, Crash(x) PROVE PendingInv'
  <2>1. x \notin dead /\ Die(Fellows(x))
    BY <1>5 DEF Crash
  <2>2. CASE x \in Node
    <3>1. Fellows(x) = {x}
      BY <2>2 DEF Fellows
    <3> QED
      BY <2>1, <2>2, <3>1, PendingDying
  <2>3. CASE x \notin Node
    <3>1. Fellows(x) \in SUBSET Client
      BY <2>3 DEF Fellows
    <3> QED
      BY <2>1, <3>1, PendingDying
  <2> QED
    BY <2>2, <2>3
<1>6. CASE UNCHANGED crashVars
  BY <1>6 DEF crashVars, vars, PendingInv, Pending
<1> QED
  BY <1>2, <1>3, <1>4, <1>5, <1>6 DEF CrashNext

\* A call that waits for a node that lives waits for a loop that is blocked; so, when
\* nothing can go on, does the call of that loop, or the loop has been abandoned.
LEMMA StuckTogetherOrAbandoned ==
    ASSUME Talk, PendingInv, CrashHalted, NEW d \in Caller,
           sock[d] \in {"sent", "taken"}, ~Abandoned(d)
    PROVE  call[d].to \in Node /\ CrashBlocked(call[d].to)
<1> DEFINE n == call[d].to
<1>1. n \in Node /\ d # None
  BY CalleeType, CallTypes DEF Talk
<1>2. n \notin dead
  <2>1. CASE sock[d] = "sent"
    BY <2>1 DEF Abandoned
  <2>2. CASE sock[d] = "taken"
    BY <1>1, <2>2 DEF PendingInv, Pending, Talk, DeadInv
  <2> QED
    BY <2>1, <2>2
<1>3. exec[n] # None \/ queue[n] # <<>>
  <2>1. CASE sock[d] = "sent"
    <3>1. d \in Elems(queue[n])
      BY <2>1 DEF PendingInv, Pending
    <3> QED
      BY <3>1 DEF Elems
  <2>2. CASE sock[d] = "taken"
    BY <1>1, <2>2 DEF PendingInv, Pending
  <2> QED
    BY <2>1, <2>2
<1> QED
  BY <1>1, <1>2, <1>3 DEF CrashHalted

LEMMA Stuck ==
    ASSUME Talk, PendingInv
    PROVE  StuckForAReason
<1> SUFFICES ASSUME CrashHalted, NEW c \in Client \ dead, sock[c] # "closed", ~Abandoned(c)
             PROVE  \E S \in SUBSET Node : call[c].to \in S /\ StuckTogether(S)
  BY DEF StuckForAReason
<1> DEFINE S == {n \in Node : CrashBlocked(n)}
<1>1. call[c].to \in S
  <2>1. sock[c] \in {"sent", "taken"} /\ c \in Caller
    BY CallTypes DEF CrashHalted, Abandoned, Talk
  <2> QED
    BY <2>1, StuckTogetherOrAbandoned
<1>2. \A n \in S : CrashBlocked(n) /\ (Abandoned(n) \/ call[n].to \in S)
  <2> SUFFICES ASSUME NEW n \in Node, CrashBlocked(n), ~Abandoned(n) PROVE call[n].to \in S
    OBVIOUS
  <2>1. sock[n] \in {"sent", "taken"} /\ n \in Caller
    BY CallTypes DEF CrashBlocked, Abandoned, Talk
  <2> QED
    BY <2>1, StuckTogetherOrAbandoned
<1>3. S \in SUBSET Node
  OBVIOUS
<1> HIDE DEF S
<1> QED
  BY <1>1, <1>2, <1>3 DEF StuckTogether

\* A crash blocks no one for a reason of its own: in any ring, whoever dies, a
\* thread that lives waits for ever only for a dead node, for the rest of an answer
\* that is not sent, or for loops that do, or that wait for each other.
THEOREM BlocksForAReason == CrashSpec => []StuckForAReason
<1>1. CrashInit => PendingInv
  BY DEF CrashInit, Init, PendingInv, Pending
<1>2. CrashInv /\ PendingInv /\ [CrashNext]_crashVars => PendingInv'
  BY PendingCrashNext DEF CrashInv
<1>3. CrashInv /\ PendingInv => StuckForAReason
  BY Stuck DEF CrashInv
<1> QED
  BY <1>1, <1>2, <1>3, CrashInvariance, PTL DEF CrashSpec
=============================================================================
