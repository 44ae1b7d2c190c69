--------------------------- MODULE DhtExecProofs ----------------------------
(***************************************************************************)
(* Proofs about DhtExec, for every ring, every number of clients and every *)
(* fault tolerance level: its invariants, that the execution loops         *)
(* implement the atomic map of KeyValue, and that nothing waits but for a  *)
(* cycle of loops blocked in calls to each other.                          *)
(***************************************************************************)
EXTENDS DhtExec, SequenceTheorems, TLAPS

\* A caller with a call open has sent a message.
SockInv == \A c \in Caller : sock[c] # "closed" => call[c] \in Message

\* The callers waiting in a queue, and that none of them waits twice.
Elems(q) == {q[i] : i \in 1 .. Len(q)}
Distinct(q) == \A i, j \in 1 .. Len(q) : q[i] = q[j] => i = j

\* What is queued at n was sent to n, and nothing has been done with it.
QueueInv ==
    \A n \in Node :
        /\ Distinct(queue[n])
        /\ \A c \in Elems(queue[n]) : sock[c] = "sent" /\ call[c].to = n

\* What the loop of n is running was sent to n, and is not a read.
ExecInv ==
    \A n \in Node : exec[n] # None =>
        /\ sock[exec[n]] = "taken"
        /\ call[exec[n]].to = n
        /\ call[exec[n]].op \in {"find", "add", "delete"}

\* The message the loop of n sends on behalf of c.
Onward(n, c) ==
    IF call[c].op = "find" THEN FindMessage(Next1(n), call[c].name)
    ELSE [call[c] EXCEPT !.to = Succs[n][loop[n]], !.rep = FALSE]

\* A node calls only for the command its loop is running, and never itself; a
\* write goes on to a replica only when the replicas were asked for.
NodeOK(n) ==
    sock[n] # "closed" =>
        /\ exec[n] # None
        /\ call[n] = Onward(n, exec[n])
        /\ call[n].to # n
        /\ call[n].op # "find" => ~LoopOver(n, call[exec[n]].rep)

NodeInv == \A n \in Node : NodeOK(n)

\* A client looks for the owner of its key, then calls the owner.
ClientInv ==
    \A c \in Client : sock[c] # "closed" =>
        /\ want[c] \in Request
        /\ \/ call[c] = FindMessage(call[c].to, want[c].name)
           \/ call[c] = ForceMessage(Owner(want[c].name), want[c])

\* A lookup that has been answered has found the owner.
AnswerInv ==
    \A c \in Caller :
        sock[c] = "answered" /\ call[c].op = "find" => answer[c] = Owner(call[c].name)

\* The replica in slot j of o's list, which the loop of o has already written.
Reached(o, j) ==
    /\ j < loop[o] \/ (j = loop[o] /\ sock[o] \in {"taken", "answered"})
    /\ \A h \in 1 .. j : Succs[o][h] # o

\* The loop of o is running a write.
Busy(o) == exec[o] # None /\ call[exec[o]].op # "find"

\* How far that write has come.
WriteInv ==
    \A o \in Node : Busy(o) =>
        /\ store[o][call[exec[o]].name] = call[exec[o]].val
        /\ call[exec[o]].rep =>
              \A j \in 1 .. Level : Reached(o, j) =>
                  store[Succs[o][j]][call[exec[o]].name] = call[exec[o]].val

\* The inductive invariant.
IInv ==
    /\ TypeOK
    /\ SockInv
    /\ QueueInv
    /\ ExecInv
    /\ NodeInv
    /\ ClientInv
    /\ AnswerInv
    /\ WriteInv
    /\ ReplicasAgree

-----------------------------------------------------------------------------
(* The ring *)

\* The first successor of a node is a node, and a replica is a node.
LEMMA SuccsType ==
    /\ \A n \in Node : Next1(n) \in Node
    /\ \A n \in Node : \A j \in 1 .. Level : Succs[n][j] \in Node
    /\ ListLen \in Nat /\ ListLen >= 2 /\ Level \in 1 .. ListLen
BY LevelAssumption, RingAssumption DEF Next1, ListLen

\* Two nodes that both claim a key have the same first successor.
LEMMA SameOwner ==
    ASSUME NEW n \in Node, NEW m \in Node, NEW h \in Int,
           IAmPredecessorOfKey(n, Next1(n), h),
           IAmPredecessorOfKey(m, Next1(m), h)
    PROVE  Next1(n) = Next1(m)
<1> DEFINE s == Next1(n)
           t == Next1(m)
<1>1. n \in Int /\ m \in Int /\ s \in Int /\ t \in Int /\ s \in Node /\ t \in Node
  BY SuccsType, NodeAssumption
<1>2. SUFFICES ASSUME s # t PROVE FALSE
  OBVIOUS
<1>3. n # m
  BY <1>2
<1>4. s # n /\ t # m
  BY <1>1, <1>2, <1>3, RingAssumption DEF Next1
<1>5. /\ m # s => ~IsInBetweenModular(m, n, s)
      /\ t # s => ~IsInBetweenModular(t, n, s)
      /\ n # t => ~IsInBetweenModular(n, m, t)
      /\ s # t => ~IsInBetweenModular(s, m, t)
  BY <1>1, RingAssumption DEF Next1
<1> HIDE DEF s, t
<1>6. IAmPredecessorOfKey(n, s, h) /\ IAmPredecessorOfKey(m, t, h)
  BY DEF s, t
<1> QED
  BY <1>1, <1>2, <1>3, <1>4, <1>5, <1>6 DEF IsInBetweenModular, IAmPredecessorOfKey

\* Every key has one owner, a node, and it is what its predecessor answers.
LEMMA OwnerFound ==
    /\ \A k \in Name : Owner(k) \in Node
    /\ \A k \in Name : \A n \in Node :
          IAmPredecessorOfKey(n, Next1(n), Hash[k]) => Next1(n) = Owner(k)
<1> SUFFICES ASSUME NEW k \in Name
             PROVE  /\ Owner(k) \in Node
                    /\ \A n \in Node : IAmPredecessorOfKey(n, Next1(n), Hash[k])
                                         => Next1(n) = Owner(k)
  OBVIOUS
<1> DEFINE P(s) == \E n \in Node : s = Next1(n) /\ IAmPredecessorOfKey(n, Next1(n), Hash[k])
<1>1. Hash[k] \in Int
  BY HashAssumption
<1>2. PICK n \in Node : Next1(n) = n \/ IsInBetweenModular(Hash[k], n, Next1(n))
  BY RingAssumption DEF Next1
<1>3. n \in Int /\ Next1(n) \in Int /\ Next1(n) \in Node
  BY SuccsType, NodeAssumption
<1>4. IAmPredecessorOfKey(n, Next1(n), Hash[k])
  BY <1>1, <1>2, <1>3 DEF IsInBetweenModular, IAmPredecessorOfKey
<1>5. Owner(k) = (CHOOSE s \in Node : P(s))
  BY DEF Owner
<1>6. Owner(k) \in Node /\ P(Owner(k))
  BY <1>3, <1>4, <1>5
<1>7. ASSUME NEW m \in Node, IAmPredecessorOfKey(m, Next1(m), Hash[k])
      PROVE  Next1(m) = Owner(k)
  BY <1>1, <1>6, <1>7, SameOwner
<1> QED
  BY <1>6, <1>7
-----------------------------------------------------------------------------
(* Queues *)

\* The elements of a sequence over S are in S.
LEMMA ElemsType ==
    ASSUME NEW S, NEW q \in Seq(S)
    PROVE  Elems(q) \subseteq S
BY DEF Elems

\* Taking the head of a queue without repetitions takes it out for good.
LEMMA DequeueElems ==
    ASSUME NEW S, NEW q \in Seq(S), q # <<>>, Distinct(q)
    PROVE  /\ Head(q) \in S /\ Head(q) \in Elems(q)
           /\ Tail(q) \in Seq(S) /\ Distinct(Tail(q))
           /\ Elems(Tail(q)) = Elems(q) \ {Head(q)}
<1>1. /\ Len(q) \in Nat /\ Len(q) >= 1 /\ Head(q) = q[1] /\ Head(q) \in S
      /\ Tail(q) \in Seq(S) /\ Len(Tail(q)) = Len(q) - 1
      /\ \A i \in 1 .. Len(Tail(q)) : Tail(q)[i] = q[i + 1]
  BY HeadTailProperties, EmptySeq
<1>2. Distinct(Tail(q))
  BY <1>1 DEF Distinct
<1>3. Elems(Tail(q)) = Elems(q) \ {Head(q)}
  <2>1. ASSUME NEW x \in Elems(Tail(q)) PROVE x \in Elems(q) \ {Head(q)}
    <3>1. PICK i \in 1 .. Len(Tail(q)) : x = q[i + 1]
      BY <1>1 DEF Elems
    <3>2. i + 1 \in 1 .. Len(q) /\ 1 \in 1 .. Len(q) /\ i + 1 # 1
      BY <1>1
    <3> QED
      BY <1>1, <3>1, <3>2 DEF Elems, Distinct
  <2>2. ASSUME NEW x \in Elems(q) \ {Head(q)} PROVE x \in Elems(Tail(q))
    <3>1. PICK i \in 1 .. Len(q) : x = q[i] /\ i # 1
      BY <1>1 DEF Elems
    <3>2. i - 1 \in 1 .. Len(Tail(q)) /\ Tail(q)[i - 1] = q[i]
      BY <1>1, <3>1
    <3> QED
      BY <3>1, <3>2 DEF Elems
  <2> QED
    BY <2>1, <2>2
<1>4. 1 \in 1 .. Len(q) /\ Head(q) = q[1]
  BY <1>1
<1>5. Head(q) \in Elems(q)
  BY <1>4 DEF Elems
<1> QED
  BY <1>1, <1>2, <1>3, <1>5

\* A caller that is not yet in a queue is added to it.
LEMMA EnqueueElems ==
    ASSUME NEW S, NEW q \in Seq(S), NEW e \in S, Distinct(q), e \notin Elems(q)
    PROVE  /\ Append(q, e) \in Seq(S) /\ Distinct(Append(q, e))
           /\ Elems(Append(q, e)) = Elems(q) \cup {e}
<1>1. /\ Len(q) \in Nat /\ Append(q, e) \in Seq(S)
      /\ Len(Append(q, e)) = Len(q) + 1
      /\ \A i \in 1 .. Len(q) : Append(q, e)[i] = q[i]
      /\ Append(q, e)[Len(q) + 1] = e
  BY AppendProperties
<1>2. \A i \in 1 .. Len(q) + 1 : i \in 1 .. Len(q) \/ i = Len(q) + 1
  BY <1>1
<1> QED
  BY <1>1, <1>2 DEF Elems, Distinct

-----------------------------------------------------------------------------
(* What the actions have in common *)

\* A call, of a caller with any states of calls, is added to a queue: the
\* invariant says nothing of the caller before but that it is in no queue.
LEMMA SendQueued ==
    ASSUME NEW States, "sent" \in States, sock \in [Caller -> States],
           call \in [Caller -> Message \cup {None}], queue \in [Node -> Seq(Caller)],
           SockInv, QueueInv,
           NEW c \in Caller, sock[c] # "sent", NEW m \in Message, Send(c, m)
    PROVE  /\ call' \in [Caller -> Message \cup {None}]
           /\ sock' \in [Caller -> States]
           /\ queue' \in [Node -> Seq(Caller)]
           /\ SockInv'
           /\ QueueInv'
           /\ call'[c] = m /\ sock'[c] = "sent"
           /\ \A d \in Caller : d # c => call'[d] = call[d] /\ sock'[d] = sock[d]
<1>1. m.to \in Node
  BY DEF Message
<1>2. /\ call' \in [Caller -> Message \cup {None}]
      /\ sock' \in [Caller -> States]
      /\ call'[c] = m /\ sock'[c] = "sent"
      /\ \A d \in Caller : d # c => call'[d] = call[d] /\ sock'[d] = sock[d]
  BY DEF Send
<1>3. /\ queue' = [queue EXCEPT ![m.to] = Append(queue[m.to], c)]
      /\ queue \in [Node -> Seq(Caller)]
  BY DEF Send
<1>4. \A n \in Node : c \notin Elems(queue[n]) /\ queue[n] \in Seq(Caller)
  BY <1>3 DEF QueueInv
<1>5. \A n \in Node : Elems(queue[n]) \subseteq Caller
  BY <1>4 DEF Elems
<1>6. /\ Append(queue[m.to], c) \in Seq(Caller)
      /\ Distinct(Append(queue[m.to], c))
      /\ Elems(Append(queue[m.to], c)) = Elems(queue[m.to]) \cup {c}
  BY <1>1, <1>4, EnqueueElems DEF QueueInv
<1>7. queue' \in [Node -> Seq(Caller)]
  BY <1>1, <1>3, <1>6
<1>8. \A n \in Node : queue'[n] = IF n = m.to THEN Append(queue[n], c) ELSE queue[n]
  BY <1>1, <1>3
<1>9. QueueInv'
  <2> SUFFICES ASSUME NEW n \in Node
               PROVE  /\ Distinct(queue'[n])
                      /\ \A d \in Elems(queue'[n]) : sock'[d] = "sent" /\ call'[d].to = n
    BY DEF QueueInv
  <2>a. \A d \in Elems(queue[n]) : d # c /\ sock'[d] = "sent" /\ call'[d].to = n
    BY <1>2, <1>4, <1>5 DEF QueueInv
  <2>1. CASE n = m.to
    BY <1>2, <1>6, <1>8, <2>a, <2>1
  <2>2. CASE n # m.to
    BY <1>8, <2>a, <2>2 DEF QueueInv
  <2> QED
    BY <2>1, <2>2
<1>10. SockInv'
  BY <1>2 DEF SockInv
<1> QED
  BY <1>2, <1>7, <1>9, <1>10

\* The same of the calls of DhtExec.
LEMMA SendStep ==
    ASSUME TypeOK, SockInv, QueueInv,
           NEW c \in Caller, sock[c] # "sent", NEW m \in Message, Send(c, m)
    PROVE  /\ call' \in [Caller -> Message \cup {None}]
           /\ sock' \in [Caller -> {"closed", "sent", "taken", "answered"}]
           /\ queue' \in [Node -> Seq(Caller)]
           /\ SockInv'
           /\ QueueInv'
           /\ call'[c] = m /\ sock'[c] = "sent"
           /\ \A d \in Caller : d # c => call'[d] = call[d] /\ sock'[d] = sock[d]
<1> DEFINE States == {"closed", "sent", "taken", "answered"}
<1>1. /\ "sent" \in States /\ sock \in [Caller -> States]
      /\ call \in [Caller -> Message \cup {None}] /\ queue \in [Node -> Seq(Caller)]
  BY DEF TypeOK
<1> HIDE DEF States
<1>2. sock' \in [Caller -> States]
  BY <1>1, SendQueued
<1> QED
  BY <1>1, <1>2, SendQueued DEF States

\* The queues once the head of n's has been taken.
Dequeued(n) == [queue EXCEPT ![n] = Tail(@)]

\* The command of c at the head of n's queue is in no other place.
HeadOK(n, c) ==
    /\ c # n
    /\ sock[c] = "sent" /\ call[c] \in Message /\ call[c].to = n
    /\ sock[n] = "closed"
    /\ Dequeued(n) \in [Node -> Seq(Caller)]
    /\ \A m \in Node : /\ Distinct(Dequeued(n)[m])
                       /\ Elems(Dequeued(n)[m]) \subseteq Elems(queue[m]) \ {c}

\* The loop of n takes the command of c out of its queue.
LEMMA HeadTaken ==
    ASSUME queue \in [Node -> Seq(Caller)], SockInv, QueueInv,
           NEW n \in Node, NodeOK(n), NEW c \in Caller,
           exec[n] = None, queue[n] # <<>>, c = Head(queue[n])
    PROVE  HeadOK(n, c)
<1>1. /\ queue \in [Node -> Seq(Caller)]
      /\ queue[n] \in Seq(Caller) /\ queue[n] # <<>> /\ c = Head(queue[n])
      /\ Distinct(queue[n]) /\ exec[n] = None
  BY DEF QueueInv
<1>2. /\ c \in Caller /\ c \in Elems(queue[n])
      /\ Tail(queue[n]) \in Seq(Caller) /\ Distinct(Tail(queue[n]))
      /\ Elems(Tail(queue[n])) = Elems(queue[n]) \ {c}
  BY <1>1, DequeueElems
<1>3. sock[c] = "sent" /\ call[c].to = n /\ call[c] \in Message
  BY <1>2 DEF QueueInv, SockInv
<1>4. sock[n] = "closed"
  BY <1>1 DEF NodeOK
<1>5. /\ Dequeued(n) \in [Node -> Seq(Caller)]
      /\ \A m \in Node : Dequeued(n)[m] = IF m = n THEN Tail(queue[n]) ELSE queue[m]
  BY <1>1, <1>2 DEF Dequeued
<1>6. ASSUME NEW m \in Node, m # n PROVE c \notin Elems(queue[m])
  BY <1>3, <1>6 DEF QueueInv
<1>7. ASSUME NEW m \in Node
      PROVE  Distinct(Dequeued(n)[m]) /\ Elems(Dequeued(n)[m]) \subseteq Elems(queue[m]) \ {c}
  <2>1. CASE m = n
    BY <1>2, <1>5, <2>1
  <2>2. CASE m # n
    <3>1. Dequeued(n)[m] = queue[m] /\ c \notin Elems(queue[m])
      BY <1>5, <1>6, <2>2
    <3>2. Distinct(queue[m])
      BY DEF QueueInv
    <3> QED
      BY <3>1, <3>2
  <2> QED
    BY <2>1, <2>2
<1>8. c # n
  BY <1>3, <1>4
<1> QED
  BY <1>3, <1>4, <1>5, <1>7, <1>8 DEF HeadOK

\* The same of the loops of DhtExec.
LEMMA TakeStep ==
    ASSUME TypeOK, SockInv, QueueInv, ExecInv, NodeInv,
           NEW n \in Node, NEW c \in Caller,
           exec[n] = None, queue[n] # <<>>, c = Head(queue[n])
    PROVE  HeadOK(n, c)
<1>1. queue \in [Node -> Seq(Caller)] /\ NodeOK(n)
  BY DEF TypeOK, NodeInv
<1> QED
  BY <1>1, HeadTaken

\* The call of a node is its loop's command, handed on.
LEMMA NodeCalling ==
    ASSUME exec \in [Node -> Caller \cup {None}], SockInv, ExecInv,
           NEW n \in Node, NodeOK(n), sock[n] # "closed"
    PROVE  /\ exec[n] \in Caller /\ exec[n] # None
           /\ sock[exec[n]] = "taken" /\ call[exec[n]] \in Message
           /\ call[n] = Onward(n, exec[n])
           /\ call[n].op = call[exec[n]].op /\ call[n].name = call[exec[n]].name
           /\ call[n].val = call[exec[n]].val
           /\ call[n].op \in {"find", "add", "delete"}
<1>1. /\ exec[n] \in Caller /\ exec[n] # None
      /\ sock[exec[n]] = "taken" /\ call[exec[n]] \in Message
      /\ call[exec[n]].op \in {"find", "add", "delete"}
      /\ call[n] = Onward(n, exec[n])
  BY DEF SockInv, ExecInv, NodeOK
<1>2. CASE call[exec[n]].op = "find"
  <2>1. call[n] = FindMessage(Next1(n), call[exec[n]].name)
    BY <1>1, <1>2 DEF Onward
  <2>2. call[exec[n]].val = Absent
    BY <1>1, <1>2 DEF Message
  <2> QED
    BY <1>1, <1>2, <2>1, <2>2 DEF FindMessage
<1>3. CASE call[exec[n]].op # "find"
  <2>1. call[n] = [call[exec[n]] EXCEPT !.to = Succs[n][loop[n]], !.rep = FALSE]
    BY <1>1, <1>3 DEF Onward
  <2> QED
    BY <1>1, <1>3, <2>1 DEF Message
<1> QED
  BY <1>2, <1>3

\* The same of the loops of DhtExec.
LEMMA NodeCalls ==
    ASSUME TypeOK, SockInv, ExecInv, NodeInv, NEW n \in Node, sock[n] # "closed"
    PROVE  /\ exec[n] \in Caller /\ exec[n] # None
           /\ sock[exec[n]] = "taken" /\ call[exec[n]] \in Message
           /\ call[n] = Onward(n, exec[n])
           /\ call[n].op = call[exec[n]].op /\ call[n].name = call[exec[n]].name
           /\ call[n].val = call[exec[n]].val
           /\ call[n].op \in {"find", "add", "delete"}
<1>1. exec \in [Node -> Caller \cup {None}] /\ NodeOK(n)
  BY DEF TypeOK, NodeInv
<1> QED
  BY <1>1, NodeCalling

\* A node whose loop and call a step leaves alone.
LEMMA NodeKept ==
    ASSUME NEW n \in Node, NodeOK(n),
           sock'[n] # "closed" => sock[n] # "closed",
           exec'[n] = exec[n], loop'[n] = loop[n],
           exec[n] # None => call'[n] = call[n] /\ call'[exec[n]] = call[exec[n]]
    PROVE  NodeOK(n)'
<1> SUFFICES ASSUME sock'[n] # "closed"
             PROVE  /\ exec'[n] # None
                    /\ call'[n] = Onward(n, exec[n])'
                    /\ call'[n].to # n
                    /\ call'[n].op # "find" => ~LoopOver(n, call[exec[n]].rep)'
  BY DEF NodeOK
<1>1. /\ exec[n] # None
      /\ call[n] = Onward(n, exec[n])
      /\ call[n].to # n
      /\ call[n].op # "find" => ~LoopOver(n, call[exec[n]].rep)
  BY DEF NodeOK
<1>2. call'[n] = call[n] /\ call'[exec'[n]] = call[exec[n]]
  BY <1>1
<1>3. Onward(n, exec[n])' = Onward(n, exec[n])
  BY <1>2 DEF Onward
<1>4. LoopOver(n, call[exec[n]].rep)' <=> LoopOver(n, call[exec[n]].rep)
  BY <1>2 DEF LoopOver
<1> QED
  BY <1>1, <1>2, <1>3, <1>4

\* WritingKey, said with exec.
LEMMA WritingBusy ==
    ASSUME exec \in [Node -> Caller \cup {None}], ExecInv, NEW o \in Node, NEW k
    PROVE  WritingKey(o, k) <=> Busy(o) /\ call[exec[o]].name = k
BY DEF ExecInv, WritingKey, Writing, Busy

LEMMA WritingIsBusy ==
    ASSUME TypeOK, ExecInv, NEW o \in Node, NEW k
    PROVE  WritingKey(o, k) <=> Busy(o) /\ call[exec[o]].name = k
BY WritingBusy DEF TypeOK

\* The same, of the next state.
LEMMA WritingBusyNext ==
    ASSUME exec' \in [Node -> Caller \cup {None}], ExecInv', NEW o \in Node, NEW k
    PROVE  WritingKey(o, k)' <=> Busy(o)' /\ call'[exec'[o]].name = k
BY DEF ExecInv, WritingKey, Writing, Busy

LEMMA WritingIsBusyNext ==
    ASSUME TypeOK', ExecInv', NEW o \in Node, NEW k
    PROVE  WritingKey(o, k)' <=> Busy(o)' /\ call'[exec'[o]].name = k
BY WritingBusyNext DEF TypeOK

\* A step that changes no file and no write in progress keeps the two parts of
\* the invariant that are about files.
LEMMA QuietStep ==
    ASSUME TypeOK, ExecInv, WriteInv, ReplicasAgree, TypeOK', ExecInv',
           store' = store,
           \A n \in Node : Busy(n)' <=> Busy(n),
           \A n \in Node : Busy(n) =>
               /\ exec'[n] = exec[n] /\ loop'[n] = loop[n]
               /\ call'[exec[n]] = call[exec[n]]
               /\ sock'[n] \in {"taken", "answered"} => sock[n] \in {"taken", "answered"}
    PROVE  WriteInv' /\ ReplicasAgree'
<1>1. WriteInv'
  <2> SUFFICES ASSUME NEW o \in Node, Busy(o)'
               PROVE  /\ store'[o][call'[exec'[o]].name] = call'[exec'[o]].val
                      /\ call'[exec'[o]].rep =>
                            \A j \in 1 .. Level : Reached(o, j)' =>
                                store'[Succs[o][j]][call'[exec'[o]].name] = call'[exec'[o]].val
    BY DEF WriteInv
  <2>1. \A j \in 1 .. Level : Reached(o, j)' => Reached(o, j)
    BY DEF Reached
  <2> QED
    BY <2>1 DEF WriteInv
<1>2. ReplicasAgree'
  <2> SUFFICES ASSUME NEW k \in Name, ~WritingKey(Owner(k), k)'
               PROVE  \A r \in Replicas(Owner(k)) : store'[r][k] = store'[Owner(k)][k]
    BY DEF ReplicasAgree
  <2>1. Owner(k) \in Node
    BY OwnerFound
  <2>2. WritingKey(Owner(k), k)' <=> Busy(Owner(k))' /\ call'[exec'[Owner(k)]].name = k
    BY <2>1, WritingIsBusyNext
  <2>3. ~WritingKey(Owner(k), k)
    BY <2>1, <2>2, WritingIsBusy
  <2> QED
    BY <2>3 DEF ReplicasAgree
<1> QED
  BY <1>1, <1>2
-----------------------------------------------------------------------------
(* Each action preserves the invariant *)

\* Who the loops are running for, and who they are themselves, is not c.
LEMMA NotRunning ==
    ASSUME ExecInv, NEW c \in Caller, sock[c] # "taken", NEW n \in Node
    PROVE  exec[n] # c
BY NodeAssumption DEF ExecInv, Caller

LEMMA StartOpStep ==
    ASSUME IInv, NEW c \in Client, NEW r \in Request, NEW entry \in Node,
           StartOp(c, r, entry)
    PROVE  IInv'
<1> DEFINE m == FindMessage(entry, r.name)
<1>1. /\ TypeOK /\ SockInv /\ QueueInv /\ ExecInv /\ NodeInv /\ ClientInv /\ AnswerInv
      /\ WriteInv /\ ReplicasAgree /\ c \in Caller /\ c \notin Node
  BY NodeAssumption DEF IInv, Caller
<1>2. /\ sock[c] = "closed" /\ want' = [want EXCEPT ![c] = r] /\ Send(c, m)
      /\ answer' = answer /\ exec' = exec /\ loop' = loop /\ store' = store
  BY DEF StartOp
<1>3. m \in Message /\ m = FindMessage(m.to, r.name)
  BY DEF FindMessage, Message, Request
<1> HIDE DEF m
<1>4. /\ call' \in [Caller -> Message \cup {None}]
      /\ sock' \in [Caller -> {"closed", "sent", "taken", "answered"}]
      /\ queue' \in [Node -> Seq(Caller)]
      /\ SockInv' /\ QueueInv'
      /\ call'[c] = m /\ sock'[c] = "sent"
      /\ \A d \in Caller : d # c => call'[d] = call[d] /\ sock'[d] = sock[d]
  BY <1>1, <1>2, <1>3, SendStep
<1>5. TypeOK'
  BY <1>1, <1>2, <1>4 DEF TypeOK
<1>6. \A n \in Node : exec[n] # c /\ n # c /\ n \in Caller /\ exec[n] \in Caller \cup {None}
  BY <1>1, <1>2, NotRunning DEF TypeOK, Caller
<1>7. ExecInv'
  BY <1>1, <1>2, <1>4, <1>6 DEF ExecInv
<1>8. NodeInv'
  BY <1>1, <1>2, <1>4, <1>6, NodeKept DEF NodeInv
<1>9. ClientInv'
  <2>1. want'[c] = r /\ \A d \in Client : d # c => want'[d] = want[d]
    BY <1>1, <1>2 DEF TypeOK
  <2> QED
    BY <1>1, <1>3, <1>4, <2>1 DEF ClientInv, Caller
<1>10. AnswerInv'
  BY <1>1, <1>2, <1>4 DEF AnswerInv
<1>11. WriteInv' /\ ReplicasAgree'
  <2>1. \A n \in Node : Busy(n)' <=> Busy(n)
    BY <1>2, <1>4, <1>6 DEF Busy
  <2>2. \A n \in Node : Busy(n) => call'[exec[n]] = call[exec[n]] /\ sock'[n] = sock[n]
    BY <1>4, <1>6 DEF Busy
  <2> QED
    BY <1>1, <1>2, <1>5, <1>7, <2>1, <2>2, QuietStep
<1> QED
  BY <1>4, <1>5, <1>7, <1>8, <1>9, <1>10, <1>11 DEF IInv
LEMMA CallOwnerStep ==
    ASSUME IInv, NEW c \in Client, CallOwner(c)
    PROVE  IInv'
<1> DEFINE m == ForceMessage(answer[c], want[c])
<1>1. /\ TypeOK /\ SockInv /\ QueueInv /\ ExecInv /\ NodeInv /\ ClientInv /\ AnswerInv
      /\ WriteInv /\ ReplicasAgree /\ c \in Caller /\ c \notin Node
  BY NodeAssumption DEF IInv, Caller
<1>2. /\ sock[c] = "answered" /\ call[c].op = "find" /\ Send(c, m)
      /\ answer' = [answer EXCEPT ![c] = None] /\ want' = want
      /\ exec' = exec /\ loop' = loop /\ store' = store
  BY DEF CallOwner
<1>3. /\ want[c] \in Request
      /\ call[c] = FindMessage(call[c].to, want[c].name)
  <2>1. /\ want[c] \in Request
        /\ \/ call[c] = FindMessage(call[c].to, want[c].name)
           \/ call[c] = ForceMessage(Owner(want[c].name), want[c])
    BY <1>1, <1>2 DEF ClientInv
  <2>2. ForceMessage(Owner(want[c].name), want[c]).op # "find"
    BY <2>1 DEF ForceMessage, Request
  <2> QED
    BY <1>2, <2>1, <2>2
<1>4. answer[c] = Owner(want[c].name) /\ answer[c] \in Node
  BY <1>1, <1>2, <1>3, OwnerFound DEF AnswerInv, FindMessage, Request
<1>5. m \in Message /\ m = ForceMessage(Owner(want[c].name), want[c])
  BY <1>3, <1>4 DEF ForceMessage, Message, Request
<1> HIDE DEF m
<1>6. /\ call' \in [Caller -> Message \cup {None}]
      /\ sock' \in [Caller -> {"closed", "sent", "taken", "answered"}]
      /\ queue' \in [Node -> Seq(Caller)]
      /\ SockInv' /\ QueueInv'
      /\ call'[c] = m /\ sock'[c] = "sent"
      /\ \A d \in Caller : d # c => call'[d] = call[d] /\ sock'[d] = sock[d]
  BY <1>1, <1>2, <1>5, SendStep
<1>7. TypeOK'
  BY <1>1, <1>2, <1>6 DEF TypeOK
<1>8. \A n \in Node : exec[n] # c /\ n # c /\ n \in Caller /\ exec[n] \in Caller \cup {None}
  BY <1>1, <1>2, NotRunning DEF TypeOK, Caller
<1>9. ExecInv'
  BY <1>1, <1>2, <1>6, <1>8 DEF ExecInv
<1>10. NodeInv'
  BY <1>1, <1>2, <1>6, <1>8, NodeKept DEF NodeInv
<1>11. ClientInv'
  BY <1>1, <1>2, <1>3, <1>5, <1>6 DEF ClientInv, Caller
<1>12. AnswerInv'
  <2>1. \A d \in Caller : d # c => answer'[d] = answer[d]
    BY <1>1, <1>2 DEF TypeOK
  <2> QED
    BY <1>1, <1>6, <2>1 DEF AnswerInv
<1>13. WriteInv' /\ ReplicasAgree'
  <2>1. \A n \in Node : Busy(n)' <=> Busy(n)
    BY <1>2, <1>6, <1>8 DEF Busy
  <2>2. \A n \in Node : Busy(n) => call'[exec[n]] = call[exec[n]] /\ sock'[n] = sock[n]
    BY <1>6, <1>8 DEF Busy
  <2> QED
    BY <1>1, <1>2, <1>7, <1>9, <2>1, <2>2, QuietStep
<1> QED
  BY <1>6, <1>7, <1>9, <1>10, <1>11, <1>12, <1>13 DEF IInv

LEMMA FinishOpStep ==
    ASSUME IInv, NEW c \in Client, FinishOp(c)
    PROVE  IInv'
<1>1. /\ TypeOK /\ SockInv /\ QueueInv /\ ExecInv /\ NodeInv /\ ClientInv /\ AnswerInv
      /\ WriteInv /\ ReplicasAgree /\ c \in Caller /\ c \notin Node
  BY NodeAssumption DEF IInv, Caller
<1>2. /\ sock[c] = "answered"
      /\ want' = [want EXCEPT ![c] = None] /\ call' = [call EXCEPT ![c] = None]
      /\ sock' = [sock EXCEPT ![c] = "closed"] /\ answer' = [answer EXCEPT ![c] = None]
      /\ queue' = queue /\ exec' = exec /\ loop' = loop /\ store' = store
  BY DEF FinishOp
<1>3. TypeOK'
  BY <1>1, <1>2 DEF TypeOK
<1>4. /\ sock'[c] = "closed"
      /\ \A d \in Caller : d # c => /\ call'[d] = call[d] /\ sock'[d] = sock[d]
                                   /\ answer'[d] = answer[d]
      /\ \A d \in Client : d # c => want'[d] = want[d]
  BY <1>1, <1>2 DEF TypeOK
<1>5. \A n \in Node : exec[n] # c /\ n # c /\ n \in Caller /\ exec[n] \in Caller \cup {None}
  BY <1>1, <1>2, NotRunning DEF TypeOK, Caller
<1>6. SockInv'
  BY <1>1, <1>4 DEF SockInv
<1>7. QueueInv'
  <2>1. \A n \in Node : c \notin Elems(queue[n]) /\ Elems(queue[n]) \subseteq Caller
    BY <1>1, <1>2, ElemsType DEF QueueInv, TypeOK
  <2> QED
    BY <1>1, <1>2, <1>4, <2>1 DEF QueueInv
<1>8. ExecInv'
  BY <1>1, <1>2, <1>4, <1>5 DEF ExecInv
<1>9. NodeInv'
  BY <1>1, <1>2, <1>4, <1>5, NodeKept DEF NodeInv
<1>10. ClientInv'
  BY <1>1, <1>4 DEF ClientInv, Caller
<1>11. AnswerInv'
  BY <1>1, <1>4 DEF AnswerInv
<1>12. WriteInv' /\ ReplicasAgree'
  <2>1. \A n \in Node : Busy(n)' <=> Busy(n)
    BY <1>2, <1>4, <1>5 DEF Busy
  <2>2. \A n \in Node : Busy(n) => call'[exec[n]] = call[exec[n]] /\ sock'[n] = sock[n]
    BY <1>4, <1>5 DEF Busy
  <2> QED
    BY <1>1, <1>2, <1>3, <1>8, <2>1, <2>2, QuietStep
<1> QED
  BY <1>3, <1>6, <1>7, <1>8, <1>9, <1>10, <1>11, <1>12 DEF IInv

LEMMA AnswerFindStep ==
    ASSUME IInv, NEW n \in Node, NEW c \in Caller, AnswerFind(n, c)
    PROVE  IInv'
<1>1. /\ TypeOK /\ SockInv /\ QueueInv /\ ExecInv /\ NodeInv /\ ClientInv /\ AnswerInv
      /\ WriteInv /\ ReplicasAgree
  BY DEF IInv
<1>2. /\ exec[n] = None /\ queue[n] # <<>> /\ c = Head(queue[n])
      /\ queue' = Dequeued(n) /\ call[c].op = "find"
      /\ IAmPredecessorOfKey(n, Next1(n), Hash[call[c].name])
      /\ sock' = [sock EXCEPT ![c] = "answered"]
      /\ answer' = [answer EXCEPT ![c] = Next1(n)]
      /\ want' = want /\ call' = call /\ exec' = exec /\ loop' = loop /\ store' = store
  BY DEF AnswerFind, CanTake, Dequeued
<1>3. /\ sock[c] = "sent" /\ call[c] \in Message /\ call[c].op = "find"
      /\ queue' \in [Node -> Seq(Caller)]
      /\ \A m \in Node : /\ Distinct(queue'[m])
                         /\ Elems(queue'[m]) \subseteq Elems(queue[m]) \ {c}
  <2>1. HeadOK(n, c)
    BY <1>1, <1>2, TakeStep
  <2> QED
    BY <1>2, <2>1 DEF HeadOK
<1>4. Next1(n) \in Node /\ Next1(n) = Owner(call[c].name)
  BY <1>2, <1>3, OwnerFound, SuccsType DEF Message
<1>5. TypeOK'
  BY <1>1, <1>2, <1>3, <1>4 DEF TypeOK
<1>6. /\ sock'[c] = "answered" /\ answer'[c] = Next1(n)
      /\ \A d \in Caller : d # c => sock'[d] = sock[d] /\ answer'[d] = answer[d]
  BY <1>1, <1>2 DEF TypeOK
<1>7. \A m \in Node : exec[m] # c /\ m \in Caller /\ exec[m] \in Caller \cup {None}
  BY <1>1, <1>3, NotRunning DEF TypeOK, Caller
<1>8. SockInv'
  BY <1>1, <1>2, <1>3, <1>6 DEF SockInv
<1>9. QueueInv'
  <2>1. \A m \in Node : Elems(queue[m]) \subseteq Caller
    BY <1>1, ElemsType DEF TypeOK
  <2> QED
    BY <1>1, <1>2, <1>3, <1>6, <2>1 DEF QueueInv
<1>10. ExecInv'
  BY <1>1, <1>2, <1>6, <1>7 DEF ExecInv
<1>11. NodeInv'
  <2>1. \A m \in Node : sock'[m] # "closed" => sock[m] # "closed"
    BY <1>3, <1>6, <1>7
  <2> QED
    BY <1>1, <1>2, <2>1, NodeKept DEF NodeInv
<1>12. ClientInv'
  BY <1>1, <1>2, <1>3, <1>6 DEF ClientInv, Caller
<1>13. AnswerInv'
  BY <1>1, <1>2, <1>4, <1>6 DEF AnswerInv
<1>14. WriteInv' /\ ReplicasAgree'
  <2>1. \A m \in Node : Busy(m)' <=> Busy(m)
    BY <1>2 DEF Busy
  <2>2. ASSUME NEW m \in Node, Busy(m) PROVE sock'[m] = sock[m]
    <3>1. CASE m = c
      BY <1>1, <1>3, <2>2, <3>1, NodeCalls DEF Busy
    <3> QED
      BY <1>6, <1>7, <3>1
  <2> QED
    BY <1>1, <1>2, <1>5, <1>10, <2>1, <2>2, QuietStep
<1> QED
  BY <1>5, <1>8, <1>9, <1>10, <1>11, <1>12, <1>13, <1>14 DEF IInv
LEMMA ForwardFindStep ==
    ASSUME IInv, NEW n \in Node, NEW c \in Caller, ForwardFind(n, c)
    PROVE  IInv'
<1> DEFINE q == Dequeued(n)
           m == FindMessage(Next1(n), call[c].name)
<1>1. /\ TypeOK /\ SockInv /\ QueueInv /\ ExecInv /\ NodeInv /\ ClientInv /\ AnswerInv
      /\ WriteInv /\ ReplicasAgree /\ n \in Caller /\ n \notin Client
  BY NodeAssumption DEF IInv, Caller
<1>2. /\ queue' = [queue EXCEPT ![n] = Tail(@), ![Next1(n)] = Append(@, n)]
      /\ exec' = [exec EXCEPT ![n] = c] /\ call' = [call EXCEPT ![n] = m]
      /\ sock' = [sock EXCEPT ![c] = "taken", ![n] = "sent"]
      /\ want' = want /\ answer' = answer /\ loop' = loop /\ store' = store
  BY DEF ForwardFind
<1>3. /\ c # n /\ sock[c] = "sent" /\ call[c] \in Message /\ call[c].to = n
      /\ sock[n] = "closed" /\ exec[n] = None /\ call[c].op = "find"
      /\ q \in [Node -> Seq(Caller)]
      /\ \A o \in Node : /\ Distinct(q[o])
                         /\ Elems(q[o]) \subseteq Elems(queue[o]) \ {c}
  <2> HIDE DEF m
  <2>1. /\ exec[n] = None /\ queue[n] # <<>> /\ c = Head(queue[n])
        /\ call[c].op = "find"
    BY DEF ForwardFind, CanTake
  <2>2. HeadOK(n, c)
    BY <1>1, <2>1, TakeStep
  <2> QED
    BY <2>1, <2>2 DEF HeadOK
<1>4. /\ m \in Message /\ m.to = Next1(n) /\ m.op = "find" /\ m.name = call[c].name
      /\ Next1(n) \in Node /\ Next1(n) # n
  <2>1. Next1(n) # n
    BY DEF ForwardFind, IAmPredecessorOfKey
  <2> QED
    BY <1>3, <2>1, SuccsType DEF FindMessage, Message
<1>5. queue' = [q EXCEPT ![Next1(n)] = Append(q[Next1(n)], n)]
  <2>1. queue \in [Node -> Seq(Caller)]
    BY <1>1 DEF TypeOK
  <2> QED
    BY <1>2, <1>4, <2>1 DEF Dequeued
<1> HIDE DEF q, m
<1>6. /\ call' \in [Caller -> Message \cup {None}]
      /\ sock' \in [Caller -> {"closed", "sent", "taken", "answered"}]
      /\ exec' \in [Node -> Caller \cup {None}]
      /\ call'[n] = m /\ sock'[n] = "sent" /\ sock'[c] = "taken" /\ exec'[n] = c
      /\ \A d \in Caller : d # n => call'[d] = call[d]
      /\ \A d \in Caller : d # n /\ d # c => sock'[d] = sock[d]
      /\ \A o \in Node : o # n => exec'[o] = exec[o]
  BY <1>1, <1>2, <1>3, <1>4 DEF TypeOK
<1>7. \A o \in Node : /\ o \in Caller /\ exec[o] \in Caller \cup {None}
                      /\ exec[o] # c /\ exec[o] # n
  BY <1>1, <1>3, NotRunning DEF TypeOK, Caller
<1>8. queue' \in [Node -> Seq(Caller)] /\ QueueInv'
  <2>1. \A o \in Node : n \notin Elems(queue[o]) /\ Elems(queue[o]) \subseteq Caller
    BY <1>1, <1>3, ElemsType DEF QueueInv, TypeOK
  <2>2. \A o \in Node : /\ q[o] \in Seq(Caller) /\ Distinct(q[o]) /\ n \notin Elems(q[o])
    BY <1>3, <2>1
  <2>3. LET a == Append(q[Next1(n)], n)
        IN  /\ a \in Seq(Caller) /\ Distinct(a)
            /\ Elems(a) = Elems(q[Next1(n)]) \cup {n}
    BY <1>1, <1>4, <2>2, EnqueueElems
  <2>4. queue' \in [Node -> Seq(Caller)]
    BY <1>3, <1>4, <1>5, <2>3
  <2>5. ASSUME NEW o \in Node
        PROVE  /\ Distinct(queue'[o])
               /\ \A d \in Elems(queue'[o]) : sock'[d] = "sent" /\ call'[d].to = o
    <3>1. ASSUME NEW d \in Elems(q[o])
          PROVE  d # n /\ d # c /\ sock'[d] = "sent" /\ call'[d].to = o
      <4>1. d \in Elems(queue[o]) /\ d # c /\ d # n /\ d \in Caller
        BY <1>3, <2>1
      <4>2. sock[d] = "sent" /\ call[d].to = o
        BY <1>1, <4>1 DEF QueueInv
      <4> QED
        BY <1>6, <4>1, <4>2
    <3>2. CASE o = Next1(n)
      BY <1>3, <1>4, <1>5, <1>6, <2>3, <3>1, <3>2
    <3>3. CASE o # Next1(n)
      BY <1>3, <1>4, <1>5, <2>2, <3>1, <3>3
    <3> QED
      BY <3>2, <3>3
  <2> QED
    BY <2>4, <2>5 DEF QueueInv
<1>9. TypeOK'
  BY <1>1, <1>2, <1>6, <1>8 DEF TypeOK
<1>10. SockInv'
  BY <1>1, <1>3, <1>4, <1>6 DEF SockInv
<1>11. ExecInv'
  BY <1>1, <1>3, <1>6, <1>7 DEF ExecInv
<1>12. NodeInv'
  <2>1. Onward(n, c)' = m
    BY <1>3, <1>6 DEF Onward, m, FindMessage, Next1
  <2>2. NodeOK(n)'
    BY <1>1, <1>4, <1>6, <2>1, NodeAssumption DEF NodeOK
  <2>3. ASSUME NEW o \in Node, o # n PROVE NodeOK(o)'
    BY <1>1, <1>2, <1>3, <1>6, <1>7, <2>3, NodeKept DEF NodeInv
  <2> QED
    BY <2>2, <2>3 DEF NodeInv
<1>13. ClientInv'
  BY <1>1, <1>2, <1>3, <1>6 DEF ClientInv, Caller
<1>14. AnswerInv'
  BY <1>1, <1>2, <1>3, <1>6 DEF AnswerInv
<1>15. WriteInv' /\ ReplicasAgree'
  <2>1. ~Busy(n) /\ ~Busy(n)'
    BY <1>3, <1>6 DEF Busy
  <2>2. ASSUME NEW o \in Node, o # n
        PROVE  /\ Busy(o)' <=> Busy(o)
               /\ Busy(o) => exec'[o] = exec[o] /\ call'[exec[o]] = call[exec[o]]
    BY <1>6, <1>7, <2>2 DEF Busy
  <2>3. ASSUME NEW o \in Node, Busy(o) PROVE sock'[o] = sock[o]
    <3>1. CASE o = c
      BY <1>1, <1>3, <2>3, <3>1, NodeCalls DEF Busy
    <3> QED
      BY <1>6, <1>7, <2>1, <2>3, <3>1
  <2> QED
    BY <1>1, <1>2, <1>9, <1>11, <2>1, <2>2, <2>3, QuietStep
<1> QED
  BY <1>8, <1>9, <1>10, <1>11, <1>12, <1>13, <1>14, <1>15 DEF IInv

LEMMA ReturnFindStep ==
    ASSUME IInv, NEW n \in Node, NEW c \in Caller, ReturnFind(n, c)
    PROVE  IInv'
<1>1. /\ TypeOK /\ SockInv /\ QueueInv /\ ExecInv /\ NodeInv /\ ClientInv /\ AnswerInv
      /\ WriteInv /\ ReplicasAgree /\ n \in Caller /\ n \notin Client
  BY NodeAssumption DEF IInv, Caller
<1>2. /\ exec[n] = c /\ c # None /\ call[c].op = "find" /\ sock[n] = "answered"
      /\ exec' = [exec EXCEPT ![n] = None] /\ call' = [call EXCEPT ![n] = None]
      /\ sock' = [sock EXCEPT ![n] = "closed", ![c] = "answered"]
      /\ answer' = [answer EXCEPT ![n] = None, ![c] = answer[n]]
      /\ want' = want /\ queue' = queue /\ loop' = loop /\ store' = store
  BY DEF ReturnFind
<1>3. /\ sock[c] = "taken" /\ c # n /\ call[n].op = "find" /\ call[n].name = call[c].name
      /\ call[c] \in Message
  BY <1>1, <1>2, NodeCalls DEF ExecInv
<1>4. answer[n] = Owner(call[c].name)
  BY <1>1, <1>2, <1>3 DEF AnswerInv
<1>5. TypeOK'
  BY <1>1, <1>2 DEF TypeOK
<1>6. /\ sock'[n] = "closed" /\ sock'[c] = "answered" /\ exec'[n] = None
      /\ answer'[c] = answer[n]
      /\ \A d \in Caller : d # n => call'[d] = call[d]
      /\ \A d \in Caller : d # n /\ d # c => sock'[d] = sock[d] /\ answer'[d] = answer[d]
      /\ \A o \in Node : o # n => exec'[o] = exec[o]
  BY <1>1, <1>2, <1>3 DEF TypeOK
<1>7. \A o \in Node : /\ o \in Caller /\ exec[o] \in Caller \cup {None} /\ exec[o] # n
                      /\ exec[o] = c => o = n
  <2>1. \A o \in Node : exec[o] # None => call[exec[o]].to = o
    BY <1>1 DEF ExecInv
  <2>2. \A o \in Node : exec[o] = c => o = n
    BY <1>2, <2>1
  <2>3. sock[n] # "taken"
    BY <1>2
  <2> QED
    BY <1>1, <2>2, <2>3, NotRunning DEF TypeOK, Caller
<1>8. SockInv'
  BY <1>1, <1>3, <1>6 DEF SockInv
<1>9. QueueInv'
  <2>1. \A o \in Node : /\ c \notin Elems(queue[o]) /\ n \notin Elems(queue[o])
                        /\ Elems(queue[o]) \subseteq Caller
    BY <1>1, <1>2, <1>3, ElemsType DEF QueueInv, TypeOK
  <2>2. ASSUME NEW o \in Node, NEW d \in Elems(queue[o])
        PROVE  sock'[d] = sock[d] /\ call'[d] = call[d]
    BY <1>6, <2>1, <2>2
  <2>3. ASSUME NEW o \in Node, NEW d \in Elems(queue[o])
        PROVE  sock'[d] = "sent" /\ call'[d].to = o
    BY <1>1, <2>2, <2>3 DEF QueueInv
  <2> QED
    BY <1>1, <1>2, <2>3 DEF QueueInv
<1>10. ASSUME NEW o \in Node, o # n, exec[o] # None
       PROVE  call'[exec[o]] = call[exec[o]] /\ sock'[exec[o]] = sock[exec[o]]
  BY <1>6, <1>7, <1>10
<1>11. ExecInv'
  <2> SUFFICES ASSUME NEW o \in Node, exec'[o] # None
               PROVE  /\ sock'[exec'[o]] = "taken" /\ call'[exec'[o]].to = o
                      /\ call'[exec'[o]].op \in {"find", "add", "delete"}
    BY DEF ExecInv
  <2>1. o # n /\ exec'[o] = exec[o]
    BY <1>6
  <2> QED
    BY <1>1, <1>10, <2>1 DEF ExecInv
<1>12. NodeInv'
  <2>1. NodeOK(n)'
    BY <1>6 DEF NodeOK
  <2>2. ASSUME NEW o \in Node, o # n PROVE NodeOK(o)'
    <3>1. /\ NodeOK(o) /\ exec'[o] = exec[o] /\ loop'[o] = loop[o] /\ call'[o] = call[o]
      BY <1>1, <1>2, <1>6, <1>7, <2>2 DEF NodeInv
    <3>2. sock'[o] # "closed" => sock[o] # "closed"
      BY <1>3, <1>6, <1>7, <2>2
    <3> QED
      BY <1>10, <2>2, <3>1, <3>2, NodeKept
  <2> QED
    BY <2>1, <2>2 DEF NodeInv
<1>13. ClientInv'
  BY <1>1, <1>2, <1>3, <1>6 DEF ClientInv, Caller
<1>14. AnswerInv'
  BY <1>1, <1>3, <1>4, <1>6 DEF AnswerInv
<1>15. WriteInv' /\ ReplicasAgree'
  <2>1. ~Busy(n) /\ ~Busy(n)'
    BY <1>2, <1>6 DEF Busy
  <2>2. ASSUME NEW o \in Node, o # n
        PROVE  /\ Busy(o)' <=> Busy(o)
               /\ Busy(o) => exec'[o] = exec[o] /\ call'[exec[o]] = call[exec[o]]
    BY <1>6, <1>10, <2>2 DEF Busy
  <2>3. ASSUME NEW o \in Node, Busy(o)
        PROVE  sock'[o] = sock[o]
    <3>1. CASE o = c
      BY <1>1, <1>2, <1>3, <2>3, <3>1, NodeCalls DEF Busy
    <3>2. CASE o # c
      <4>1. o # n /\ o \in Caller
        BY <1>7, <2>1, <2>3
      <4> QED
        BY <1>6, <3>2, <4>1
    <3> QED
      BY <3>1, <3>2
  <2> QED
    BY <1>1, <1>2, <1>5, <1>11, <2>1, <2>2, <2>3, QuietStep
<1> QED
  BY <1>5, <1>8, <1>9, <1>11, <1>12, <1>13, <1>14, <1>15 DEF IInv
LEMMA TakeGetStep ==
    ASSUME IInv, NEW n \in Node, NEW c \in Caller, TakeGet(n, c)
    PROVE  IInv'
<1>1. /\ TypeOK /\ SockInv /\ QueueInv /\ ExecInv /\ NodeInv /\ ClientInv /\ AnswerInv
      /\ WriteInv /\ ReplicasAgree
  BY DEF IInv
<1>2. /\ exec[n] = None /\ queue[n] # <<>> /\ c = Head(queue[n])
      /\ queue' = Dequeued(n) /\ call[c].op = "get"
      /\ sock' = [sock EXCEPT ![c] = "answered"]
      /\ answer' = [answer EXCEPT ![c] = store[n][call[c].name]]
      /\ want' = want /\ call' = call /\ exec' = exec /\ loop' = loop /\ store' = store
  BY DEF TakeGet, CanTake, Dequeued
<1>3. /\ sock[c] = "sent" /\ call[c] \in Message
      /\ queue' \in [Node -> Seq(Caller)]
      /\ \A m \in Node : /\ Distinct(queue'[m])
                         /\ Elems(queue'[m]) \subseteq Elems(queue[m]) \ {c}
  <2>1. HeadOK(n, c)
    BY <1>1, <1>2, TakeStep
  <2> QED
    BY <1>2, <2>1 DEF HeadOK
<1>4. c \notin Node
  BY <1>1, <1>2, <1>3, NodeCalls
<1>5. TypeOK'
  <2>1. store[n][call[c].name] \in Value \cup {Absent}
    BY <1>1, <1>3 DEF TypeOK, Message
  <2> QED
    BY <1>1, <1>2, <1>3, <2>1 DEF TypeOK
<1>6. /\ sock'[c] = "answered"
      /\ \A d \in Caller : d # c => sock'[d] = sock[d] /\ answer'[d] = answer[d]
  BY <1>1, <1>2 DEF TypeOK
<1>7. \A m \in Node : exec[m] # c /\ m \in Caller /\ exec[m] \in Caller \cup {None}
  BY <1>1, <1>3, NotRunning DEF TypeOK, Caller
<1>8. SockInv'
  BY <1>1, <1>2, <1>3, <1>6 DEF SockInv
<1>9. QueueInv'
  <2>1. \A m \in Node : Elems(queue[m]) \subseteq Caller
    BY <1>1, ElemsType DEF TypeOK
  <2> QED
    BY <1>1, <1>2, <1>3, <1>6, <2>1 DEF QueueInv
<1>10. ExecInv'
  BY <1>1, <1>2, <1>6, <1>7 DEF ExecInv
<1>11. NodeInv'
  BY <1>1, <1>2, <1>4, <1>6, <1>7, NodeKept DEF NodeInv
<1>12. ClientInv'
  BY <1>1, <1>2, <1>3, <1>6 DEF ClientInv, Caller
<1>13. AnswerInv'
  BY <1>1, <1>2, <1>6 DEF AnswerInv
<1>14. WriteInv' /\ ReplicasAgree'
  <2>1. \A m \in Node : Busy(m)' <=> Busy(m)
    BY <1>2 DEF Busy
  <2>2. \A m \in Node : sock'[m] = sock[m]
    BY <1>4, <1>6, <1>7
  <2> QED
    BY <1>1, <1>2, <1>5, <1>10, <2>1, <2>2, QuietStep
<1> QED
  BY <1>5, <1>8, <1>9, <1>10, <1>11, <1>12, <1>13, <1>14 DEF IInv

LEMMA ReplicateStep ==
    ASSUME IInv, NEW n \in Node, NEW c \in Caller, Replicate(n, c)
    PROVE  IInv'
<1> DEFINE m == [call[c] EXCEPT !.to = Succs[n][loop[n]], !.rep = FALSE]
<1>1. /\ TypeOK /\ SockInv /\ QueueInv /\ ExecInv /\ NodeInv /\ ClientInv /\ AnswerInv
      /\ WriteInv /\ ReplicasAgree /\ n \in Caller /\ n \notin Client
  BY NodeAssumption DEF IInv, Caller
<1>2. /\ exec[n] = c /\ c # None /\ call[c].op \in {"add", "delete"}
      /\ sock[n] = "closed" /\ ~LoopOver(n, call[c].rep) /\ Send(n, m)
      /\ want' = want /\ answer' = answer /\ exec' = exec /\ loop' = loop /\ store' = store
  BY DEF Replicate, Writing
<1>3. /\ sock[c] = "taken" /\ c # n /\ call[c] \in Message
      /\ loop[n] \in 1 .. Level
  BY <1>1, <1>2, LevelAssumption DEF ExecInv, SockInv, TypeOK, LoopOver, ListLen
<1>4. m \in Message /\ m.op = call[c].op /\ m.op # "find"
  BY <1>2, <1>3, SuccsType DEF Message
<1> HIDE DEF m
<1>5. /\ call' \in [Caller -> Message \cup {None}]
      /\ sock' \in [Caller -> {"closed", "sent", "taken", "answered"}]
      /\ queue' \in [Node -> Seq(Caller)]
      /\ SockInv' /\ QueueInv'
      /\ call'[n] = m /\ sock'[n] = "sent"
      /\ \A d \in Caller : d # n => call'[d] = call[d] /\ sock'[d] = sock[d]
  BY <1>1, <1>2, <1>4, SendStep
<1>6. TypeOK'
  BY <1>1, <1>2, <1>5 DEF TypeOK
<1>7. \A o \in Node : exec[o] # n /\ o \in Caller /\ exec[o] \in Caller \cup {None}
  BY <1>1, <1>2, NotRunning DEF TypeOK, Caller
<1>8. ExecInv'
  BY <1>1, <1>2, <1>5, <1>7 DEF ExecInv
<1>9. NodeInv'
  <2>1. call'[c] = call[c]
    BY <1>3, <1>5
  <2>2. Onward(n, c)' = m
    BY <1>2, <2>1 DEF Onward, m
  <2>3. m.to # n
    BY <1>2, <1>3 DEF m, LoopOver, Message
  <2>4. NodeOK(n)'
    BY <1>2, <1>5, <2>1, <2>2, <2>3 DEF NodeOK, LoopOver
  <2>5. ASSUME NEW o \in Node, o # n PROVE NodeOK(o)'
    BY <1>1, <1>2, <1>5, <1>7, <2>5, NodeKept DEF NodeInv
  <2> QED
    BY <2>4, <2>5 DEF NodeInv
<1>10. ClientInv'
  BY <1>1, <1>2, <1>5 DEF ClientInv, Caller
<1>11. AnswerInv'
  BY <1>1, <1>2, <1>5 DEF AnswerInv
<1>12. WriteInv' /\ ReplicasAgree'
  <2>1. \A o \in Node : Busy(o)' <=> Busy(o)
    BY <1>2, <1>5, <1>7 DEF Busy
  <2>2. \A o \in Node : Busy(o) => call'[exec[o]] = call[exec[o]]
    BY <1>5, <1>7 DEF Busy
  <2>3. \A o \in Node : o # n => sock'[o] = sock[o]
    BY <1>5, <1>7
  <2> QED
    BY <1>1, <1>2, <1>5, <1>6, <1>8, <2>1, <2>2, <2>3, QuietStep
<1> QED
  BY <1>5, <1>6, <1>8, <1>9, <1>10, <1>11, <1>12 DEF IInv

LEMMA ReplicaDoneStep ==
    ASSUME IInv, NEW n \in Node, NEW c \in Caller, ReplicaDone(n, c)
    PROVE  IInv'
<1>1. /\ TypeOK /\ SockInv /\ QueueInv /\ ExecInv /\ NodeInv /\ ClientInv /\ AnswerInv
      /\ WriteInv /\ ReplicasAgree /\ n \in Caller /\ n \notin Client
  BY NodeAssumption DEF IInv, Caller
<1>2. /\ exec[n] = c /\ c # None /\ call[c].op \in {"add", "delete"} /\ sock[n] = "answered"
      /\ call' = [call EXCEPT ![n] = None] /\ sock' = [sock EXCEPT ![n] = "closed"]
      /\ answer' = [answer EXCEPT ![n] = None] /\ loop' = [loop EXCEPT ![n] = @ + 1]
      /\ want' = want /\ queue' = queue /\ exec' = exec /\ store' = store
  BY DEF ReplicaDone, Writing
<1>3. sock[c] = "taken" /\ c # n /\ call[n].op # "find" /\ ~LoopOver(n, call[c].rep)
  BY <1>1, <1>2, NodeCalls DEF NodeInv, NodeOK
<1>4. loop[n] \in 1 .. Level /\ loop[n] + 1 \in 1 .. ListLen
  BY <1>1, <1>3, LevelAssumption DEF TypeOK, LoopOver, ListLen
<1>5. TypeOK'
  BY <1>1, <1>2, <1>4 DEF TypeOK
<1>6. /\ sock'[n] = "closed" /\ loop'[n] = loop[n] + 1
      /\ \A d \in Caller : d # n => /\ call'[d] = call[d] /\ sock'[d] = sock[d]
                                   /\ answer'[d] = answer[d]
      /\ \A o \in Node : o # n => loop'[o] = loop[o]
  BY <1>1, <1>2 DEF TypeOK
<1>7. \A o \in Node : exec[o] # n /\ o \in Caller /\ exec[o] \in Caller \cup {None}
  BY <1>1, <1>2, NotRunning DEF TypeOK, Caller
<1>8. SockInv'
  BY <1>1, <1>6 DEF SockInv
<1>9. QueueInv'
  <2>1. \A o \in Node : n \notin Elems(queue[o]) /\ Elems(queue[o]) \subseteq Caller
    BY <1>1, <1>2, ElemsType DEF QueueInv, TypeOK
  <2> QED
    BY <1>1, <1>2, <1>6, <2>1 DEF QueueInv
<1>10. ExecInv'
  BY <1>1, <1>2, <1>6, <1>7 DEF ExecInv
<1>11. NodeInv'
  <2>1. NodeOK(n)'
    BY <1>6 DEF NodeOK
  <2>2. ASSUME NEW o \in Node, o # n PROVE NodeOK(o)'
    BY <1>1, <1>2, <1>6, <1>7, <2>2, NodeKept DEF NodeInv
  <2> QED
    BY <2>1, <2>2 DEF NodeInv
<1>12. ClientInv'
  BY <1>1, <1>2, <1>6 DEF ClientInv, Caller
<1>13. AnswerInv'
  BY <1>1, <1>6 DEF AnswerInv
<1>14. \A o \in Node : exec[o] # None => call'[exec[o]] = call[exec[o]]
  BY <1>6, <1>7
<1>15. \A o \in Node : Busy(o)' <=> Busy(o)
  BY <1>2, <1>14 DEF Busy
<1>16. WriteInv'
  <2>1. ASSUME NEW o \in Node, NEW j \in 1 .. Level, Reached(o, j)'
        PROVE  Reached(o, j)
    <3>1. CASE o = n
      BY <1>2, <1>4, <1>6, <2>1, <3>1 DEF Reached
    <3>2. CASE o # n
      BY <1>6, <1>7, <2>1, <3>2 DEF Reached
    <3> QED
      BY <3>1, <3>2
  <2> QED
    BY <1>1, <1>2, <1>14, <1>15, <2>1 DEF WriteInv, Busy
<1>17. ReplicasAgree'
  <2> SUFFICES ASSUME NEW k \in Name, ~WritingKey(Owner(k), k)'
               PROVE  \A r \in Replicas(Owner(k)) : store'[r][k] = store'[Owner(k)][k]
    BY DEF ReplicasAgree
  <2>1. Owner(k) \in Node
    BY OwnerFound
  <2>2. ~WritingKey(Owner(k), k)
    BY <1>1, <1>2, <1>5, <1>10, <1>14, <1>15, <2>1, WritingIsBusy, WritingIsBusyNext DEF Busy
  <2> QED
    BY <1>1, <1>2, <2>2 DEF ReplicasAgree
<1> QED
  BY <1>5, <1>8, <1>9, <1>10, <1>11, <1>12, <1>13, <1>16, <1>17 DEF IInv
\* Who may ask for a write of k: a client asks the owner, with replicas, and the
\* owner, while it writes k itself, asks the replica it has come to.
LEMMA Writers ==
    ASSUME TypeOK, SockInv, ExecInv, NodeInv, ClientInv,
           NEW c \in Caller, sock[c] # "closed", call[c].op \in {"add", "delete"}
    PROVE  \/ c \notin Node /\ call[c].rep /\ call[c].to = Owner(call[c].name)
           \/ /\ ~call[c].rep /\ c \in Node /\ c = Owner(call[c].name)
              /\ Busy(c) /\ call[exec[c]].rep
              /\ call[exec[c]].name = call[c].name /\ call[exec[c]].val = call[c].val
              /\ call[c].to = Succs[c][loop[c]] /\ call[c].to # c
<1>1. ASSUME NEW d \in Client, sock[d] # "closed", call[d].op # "find"
      PROVE  /\ call[d].op # "get" => call[d].rep
             /\ call[d].to = Owner(call[d].name)
  <2>1. /\ want[d] \in Request
        /\ \/ call[d] = FindMessage(call[d].to, want[d].name)
           \/ call[d] = ForceMessage(Owner(want[d].name), want[d])
    BY <1>1 DEF ClientInv
  <2>2. \A t, x : FindMessage(t, x).op = "find"
    BY DEF FindMessage
  <2>3. \A t, r : LET m == ForceMessage(t, r)
                 IN  m.to = t /\ m.name = r.name /\ m.op = r.op /\ (r.op # "get" => m.rep)
    BY DEF ForceMessage
  <2> QED
    BY <1>1, <2>1, <2>2, <2>3
<1>2. ASSUME NEW n \in Node, sock[n] # "closed", call[n].op # "find"
      PROVE  /\ exec[n] \in Caller /\ sock[exec[n]] = "taken"
             /\ call[exec[n]].to = n /\ call[exec[n]].op = call[n].op
             /\ call[exec[n]].name = call[n].name /\ call[exec[n]].val = call[n].val
             /\ call[exec[n]].rep /\ Busy(n)
             /\ ~call[n].rep /\ call[n].to = Succs[n][loop[n]] /\ call[n].to # n
  <2>1. /\ exec[n] \in Caller /\ exec[n] # None /\ sock[exec[n]] = "taken"
        /\ call[exec[n]] \in Message
        /\ call[n] = Onward(n, exec[n])
        /\ call[n].op = call[exec[n]].op /\ call[n].name = call[exec[n]].name
        /\ call[n].val = call[exec[n]].val
    BY <1>2, NodeCalls
  <2>2. /\ call[exec[n]].to = n
        /\ ~LoopOver(n, call[exec[n]].rep)
    BY <1>2, <2>1 DEF ExecInv, NodeInv, NodeOK
  <2>3. call[n] = [call[exec[n]] EXCEPT !.to = Succs[n][loop[n]], !.rep = FALSE]
    BY <1>2, <2>1 DEF Onward
  <2>4. call[n].to = Succs[n][loop[n]] /\ ~call[n].rep
    BY <2>1, <2>3 DEF Message
  <2>5. Succs[n][loop[n]] # n /\ call[exec[n]].rep
    BY <2>2 DEF LoopOver
  <2> QED
    BY <1>2, <2>1, <2>2, <2>4, <2>5 DEF Busy
<1>3. CASE c \in Client
  BY <1>1, <1>3, NodeAssumption
<1>4. CASE c \in Node
  <2>1. exec[c] \notin Node
    BY <1>2, <1>4
  <2>2. exec[c] \in Client
    BY <1>2, <1>4, <2>1 DEF Caller
  <2>3. call[exec[c]].to = Owner(call[exec[c]].name)
    BY <1>1, <1>2, <1>4, <2>2
  <2> QED
    BY <1>2, <1>4, <2>3
<1> QED
  BY <1>3, <1>4 DEF Caller

\* What TakeAdd and TakeDelete have in common.
TakeWrite(n, c) ==
    /\ exec[n] = None /\ queue[n] # <<>> /\ c = Head(queue[n])
    /\ call[c].op \in {"add", "delete"}
    /\ queue' = Dequeued(n)
    /\ sock' = [sock EXCEPT ![c] = "taken"]
    /\ exec' = [exec EXCEPT ![n] = c]
    /\ loop' = [loop EXCEPT ![n] = 1]
    /\ store' = [store EXCEPT ![n][call[c].name] = call[c].val]
    /\ UNCHANGED <<want, call, answer>>

LEMMA TakeWriteStep ==
    ASSUME IInv, NEW n \in Node, NEW c \in Caller, TakeWrite(n, c)
    PROVE  IInv'
<1> DEFINE k == call[c].name
           v == call[c].val
<1>1. /\ TypeOK /\ SockInv /\ QueueInv /\ ExecInv /\ NodeInv /\ ClientInv /\ AnswerInv
      /\ WriteInv /\ ReplicasAgree /\ n \in Caller /\ n \notin Client
  BY NodeAssumption DEF IInv, Caller
<1>2. /\ exec[n] = None /\ queue[n] # <<>> /\ c = Head(queue[n])
      /\ call[c].op \in {"add", "delete"} /\ queue' = Dequeued(n)
  BY DEF TakeWrite
<1>3. /\ sock' = [sock EXCEPT ![c] = "taken"] /\ exec' = [exec EXCEPT ![n] = c]
      /\ loop' = [loop EXCEPT ![n] = 1] /\ store' = [store EXCEPT ![n][k] = v]
      /\ want' = want /\ call' = call /\ answer' = answer
  BY DEF TakeWrite
<1>4. /\ c # n /\ sock[c] = "sent" /\ call[c] \in Message /\ call[c].to = n
      /\ sock[n] = "closed"
      /\ queue' \in [Node -> Seq(Caller)]
      /\ \A o \in Node : /\ Distinct(queue'[o])
                         /\ Elems(queue'[o]) \subseteq Elems(queue[o]) \ {c}
  <2>1. HeadOK(n, c)
    BY <1>1, <1>2, TakeStep
  <2> QED
    BY <1>2, <2>1 DEF HeadOK
<1>5. k \in Name /\ v \in Value \cup {Absent}
  BY <1>4 DEF Message
<1>6. TypeOK'
  <2>1. store' \in [Node -> [Name -> Value \cup {Absent}]]
    BY <1>1, <1>3, <1>5 DEF TypeOK
  <2>2. loop' \in [Node -> 1 .. ListLen]
    BY <1>1, <1>3, SuccsType DEF TypeOK
  <2> QED
    BY <1>1, <1>3, <1>4, <2>1, <2>2 DEF TypeOK
<1>7. /\ sock'[c] = "taken" /\ exec'[n] = c /\ loop'[n] = 1 /\ store'[n][k] = v
      /\ \A d \in Caller : d # c => sock'[d] = sock[d]
      /\ \A o \in Node : o # n => exec'[o] = exec[o] /\ loop'[o] = loop[o]
  BY <1>1, <1>3, <1>5 DEF TypeOK
<1>8. \A o \in Node : \A x \in Name : o # n \/ x # k => store'[o][x] = store[o][x]
  BY <1>1, <1>3, <1>5 DEF TypeOK
<1> HIDE DEF k, v
<1>9. \A o \in Node : exec[o] # c /\ o \in Caller /\ exec[o] \in Caller \cup {None}
  BY <1>1, <1>4, NotRunning DEF TypeOK, Caller
<1>10. SockInv'
  BY <1>1, <1>3, <1>4, <1>7 DEF SockInv
<1>11. QueueInv'
  <2>1. \A o \in Node : Elems(queue[o]) \subseteq Caller
    BY <1>1, ElemsType DEF TypeOK
  <2> QED
    BY <1>1, <1>3, <1>4, <1>7, <2>1 DEF QueueInv
<1>12. ExecInv'
  BY <1>1, <1>2, <1>3, <1>4, <1>7, <1>9 DEF ExecInv
<1>13. NodeInv'
  <2>1. NodeOK(n)'
    BY <1>1, <1>4, <1>7 DEF NodeOK
  <2>2. ASSUME NEW o \in Node, o # n PROVE NodeOK(o)'
    BY <1>1, <1>3, <1>4, <1>7, <1>9, <2>2, NodeKept DEF NodeInv
  <2> QED
    BY <2>1, <2>2 DEF NodeInv
<1>14. ClientInv'
  BY <1>1, <1>3, <1>4, <1>7 DEF ClientInv, Caller
<1>15. AnswerInv'
  BY <1>1, <1>3, <1>7 DEF AnswerInv
<1>16. \A o \in Node : o # n => (Busy(o)' <=> Busy(o))
  BY <1>3, <1>7 DEF Busy
<1>17. \/ c \notin Node /\ n = Owner(k)
       \/ /\ c \in Node /\ c = Owner(k) /\ Busy(c) /\ call[exec[c]].name = k
          /\ call[exec[c]].val = v /\ n = Succs[c][loop[c]]
  BY <1>1, <1>2, <1>4, Writers DEF k, v
<1>18. WriteInv'
  <2> SUFFICES ASSUME NEW o \in Node, Busy(o)'
               PROVE  /\ store'[o][call'[exec'[o]].name] = call'[exec'[o]].val
                      /\ call'[exec'[o]].rep =>
                            \A j \in 1 .. Level : Reached(o, j)' =>
                                store'[Succs[o][j]][call'[exec'[o]].name] = call'[exec'[o]].val
    BY DEF WriteInv
  <2>1. CASE o = n
    <3>1. sock'[n] = "closed"
      BY <1>1, <1>4, <1>7
    <3>2. \A j \in 1 .. Level : ~Reached(n, j)'
      BY <1>7, <3>1 DEF Reached
    <3> QED
      BY <1>3, <1>7, <2>1, <3>2 DEF k, v
  <2>2. CASE o # n
    <3> DEFINE x == call[exec[o]].name
               w == call[exec[o]].val
    <3>1. /\ Busy(o) /\ exec'[o] = exec[o] /\ loop'[o] = loop[o] /\ exec[o] \in Caller
          /\ sock[exec[o]] = "taken" /\ call[exec[o]].op \in {"add", "delete"}
          /\ call[exec[o]].to = o /\ x \in Name
      BY <1>1, <1>7, <1>9, <1>16, <2>2 DEF Busy, ExecInv, SockInv, Message
    <3>2. store[o][x] = w /\ store'[o][x] = store[o][x]
      BY <1>1, <1>8, <2>2, <3>1 DEF WriteInv
    <3>3. ASSUME call[exec[o]].rep, NEW j \in 1 .. Level, Reached(o, j)'
          PROVE  store'[Succs[o][j]][x] = w
      <4>1. x = k => o = Owner(k)
        BY <1>1, <3>1, <3>3, Writers
      <4>2. Succs[o][j] \in Node
        BY SuccsType
      <4>3. CASE o = c
        <5>1. x = k /\ w = v /\ n = Succs[o][loop[o]]
          BY <1>17, <4>3
        <5>2. CASE j = loop[o]
          BY <1>7, <5>1, <5>2
        <5>3. CASE j # loop[o]
          <6>1. Reached(o, j)
            BY <3>1, <3>3, <5>3 DEF Reached
          <6>2. store[Succs[o][j]][x] = w
            BY <1>1, <3>1, <3>3, <6>1 DEF WriteInv
          <6> QED
            BY <1>7, <1>8, <3>1, <4>2, <5>1, <6>2
        <5> QED
          BY <5>2, <5>3
      <4>4. CASE o # c
        <5>1. sock'[o] = sock[o]
          BY <1>7, <1>9, <4>4
        <5>2. Reached(o, j)
          BY <3>1, <3>3, <5>1 DEF Reached
        <5>3. store[Succs[o][j]][x] = w
          BY <1>1, <3>1, <3>3, <5>2 DEF WriteInv
        <5>4. x # k
          BY <1>17, <2>2, <4>1, <4>4
        <5> QED
          BY <1>8, <3>1, <4>2, <5>3, <5>4
      <4> QED
        BY <4>3, <4>4
    <3> QED
      BY <1>3, <3>1, <3>2, <3>3
  <2> QED
    BY <2>1, <2>2
<1>19. ReplicasAgree'
  <2> SUFFICES ASSUME NEW x \in Name, ~WritingKey(Owner(x), x)'
               PROVE  \A r \in Replicas(Owner(x)) : store'[r][x] = store'[Owner(x)][x]
    BY DEF ReplicasAgree
  <2>1. Owner(x) \in Node
    BY OwnerFound
  <2>2. ~(Busy(Owner(x))' /\ call[exec'[Owner(x)]].name = x)
    BY <1>3, <1>6, <1>12, <2>1, WritingIsBusyNext
  <2>3. x # k
    <3>1. SUFFICES ASSUME x = k PROVE FALSE
      OBVIOUS
    <3>2. CASE n = Owner(k)
      <4>1. Busy(n)'
        BY <1>2, <1>3, <1>7, NodeAssumption DEF Busy
      <4> QED
        BY <1>7, <2>2, <3>1, <3>2, <4>1 DEF k
    <3>3. CASE n # Owner(k)
      BY <1>7, <1>16, <1>17, <2>2, <3>1, <3>3
    <3> QED
      BY <3>2, <3>3
  <2>4. ~WritingKey(Owner(x), x)
    <3>1. ~Busy(n)
      BY <1>2 DEF Busy
    <3> QED
      BY <1>1, <1>7, <1>16, <2>1, <2>2, <3>1, WritingIsBusy
  <2>5. \A r \in Replicas(Owner(x)) : r \in Node
    BY <2>1, SuccsType DEF Replicas
  <2> QED
    BY <1>1, <1>8, <2>1, <2>3, <2>4, <2>5 DEF ReplicasAgree
<1> QED
  BY <1>6, <1>10, <1>11, <1>12, <1>13, <1>14, <1>15, <1>18, <1>19 DEF IInv
LEMMA AnswerWriteStep ==
    ASSUME IInv, NEW n \in Node, NEW c \in Caller, AnswerWrite(n, c)
    PROVE  IInv'
<1> DEFINE k == call[c].name
<1>1. /\ TypeOK /\ SockInv /\ QueueInv /\ ExecInv /\ NodeInv /\ ClientInv /\ AnswerInv
      /\ WriteInv /\ ReplicasAgree /\ n \in Caller /\ n \notin Client
  BY NodeAssumption DEF IInv, Caller
<1>2. /\ exec[n] = c /\ c # None /\ call[c].op \in {"add", "delete"}
      /\ sock[n] = "closed" /\ LoopOver(n, call[c].rep)
      /\ exec' = [exec EXCEPT ![n] = None] /\ loop' = [loop EXCEPT ![n] = 1]
      /\ sock' = [sock EXCEPT ![c] = "answered"]
      /\ want' = want /\ call' = call /\ answer' = answer /\ queue' = queue /\ store' = store
  BY DEF AnswerWrite, Writing
<1>3. sock[c] = "taken" /\ c # n /\ call[c] \in Message /\ call[c].to = n /\ Busy(n)
  BY <1>1, <1>2 DEF ExecInv, SockInv, Busy
<1>4. TypeOK'
  BY <1>1, <1>2, SuccsType DEF TypeOK
<1>5. /\ sock'[c] = "answered" /\ exec'[n] = None
      /\ \A d \in Caller : d # c => sock'[d] = sock[d]
      /\ \A o \in Node : o # n => exec'[o] = exec[o] /\ loop'[o] = loop[o]
  BY <1>1, <1>2 DEF TypeOK
<1>6. \A o \in Node : o # n => exec[o] # c
  BY <1>1, <1>2, <1>3 DEF ExecInv
<1>7. \A o \in Node : o \in Caller /\ exec[o] \in Caller \cup {None}
  BY <1>1 DEF TypeOK, Caller
<1>8. SockInv'
  BY <1>1, <1>2, <1>3, <1>5 DEF SockInv
<1>9. QueueInv'
  <2>1. \A o \in Node : c \notin Elems(queue[o]) /\ Elems(queue[o]) \subseteq Caller
    BY <1>1, <1>3, ElemsType DEF QueueInv, TypeOK
  <2> QED
    BY <1>1, <1>2, <1>5, <2>1 DEF QueueInv
<1>10. ExecInv'
  BY <1>1, <1>2, <1>5, <1>6, <1>7 DEF ExecInv
<1>11. NodeInv'
  <2>1. NodeOK(n)'
    BY <1>2, <1>3, <1>5, <1>7 DEF NodeOK
  <2>2. ASSUME NEW o \in Node, o # n PROVE NodeOK(o)'
    BY <1>1, <1>2, <1>3, <1>5, <1>6, <1>7, <2>2, NodeKept DEF NodeInv
  <2> QED
    BY <2>1, <2>2 DEF NodeInv
<1>12. ClientInv'
  BY <1>1, <1>2, <1>3, <1>5 DEF ClientInv, Caller
<1>13. AnswerInv'
  BY <1>1, <1>2, <1>5 DEF AnswerInv
<1>14. /\ ~Busy(n)'
       /\ \A o \in Node : o # n => (Busy(o)' <=> Busy(o))
  BY <1>2, <1>5 DEF Busy
<1>15. WriteInv'
  <2> SUFFICES ASSUME NEW o \in Node, Busy(o)'
               PROVE  /\ store'[o][call'[exec'[o]].name] = call'[exec'[o]].val
                      /\ call'[exec'[o]].rep =>
                            \A j \in 1 .. Level : Reached(o, j)' =>
                                store'[Succs[o][j]][call'[exec'[o]].name] = call'[exec'[o]].val
    BY DEF WriteInv
  <2>1. o # n /\ Busy(o) /\ exec'[o] = exec[o] /\ loop'[o] = loop[o]
    BY <1>5, <1>14
  <2>2. sock'[o] \in {"taken", "answered"} => sock[o] \in {"taken", "answered"}
    BY <1>3, <1>5, <1>7
  <2>3. \A j \in 1 .. Level : Reached(o, j)' => Reached(o, j)
    BY <2>1, <2>2 DEF Reached
  <2> QED
    BY <1>1, <1>2, <2>1, <2>3 DEF WriteInv
<1>16. \A r \in Replicas(n) : call[c].rep => store[r][k] = call[c].val
  <2> SUFFICES ASSUME NEW j \in 1 .. Level, \A h \in 1 .. j : Succs[n][h] # n, call[c].rep
               PROVE  store[Succs[n][j]][k] = call[c].val
    BY DEF Replicas
  <2>1. loop[n] \in 1 .. ListLen
    BY <1>1 DEF TypeOK
  <2>2. j < loop[n]
    <3>1. CASE loop[n] > Level
      BY <2>1, <3>1, LevelAssumption DEF ListLen
    <3>2. CASE Succs[n][loop[n]] = n
      BY <2>1, <3>2, LevelAssumption DEF ListLen
    <3> QED
      BY <1>2, <3>1, <3>2 DEF LoopOver
  <2>3. Reached(n, j)
    BY <2>2 DEF Reached
  <2> QED
    BY <1>1, <1>2, <1>3, <2>3 DEF WriteInv
<1>17. n = Owner(k) => call[c].rep
  BY <1>1, <1>2, <1>3, Writers
<1>18. ReplicasAgree'
  <2> SUFFICES ASSUME NEW x \in Name, ~WritingKey(Owner(x), x)'
               PROVE  \A r \in Replicas(Owner(x)) : store[r][x] = store[Owner(x)][x]
    BY <1>2 DEF ReplicasAgree
  <2>1. Owner(x) \in Node
    BY OwnerFound
  <2>2. CASE ~WritingKey(Owner(x), x)
    BY <1>1, <2>2 DEF ReplicasAgree
  <2>3. CASE WritingKey(Owner(x), x)
    <3>1. Busy(Owner(x)) /\ call[exec[Owner(x)]].name = x
      BY <1>1, <2>1, <2>3, WritingIsBusy
    <3>2. ~(Busy(Owner(x))' /\ call[exec'[Owner(x)]].name = x)
      BY <1>2, <1>4, <1>10, <2>1, WritingIsBusyNext
    <3>3. Owner(x) = n /\ x = k
      BY <1>2, <1>5, <1>14, <2>1, <3>1, <3>2
    <3>4. store[n][k] = call[c].val
      BY <1>1, <1>2, <1>3 DEF WriteInv
    <3> QED
      BY <1>16, <1>17, <3>3, <3>4
  <2> QED
    BY <2>2, <2>3
<1> QED
  BY <1>4, <1>8, <1>9, <1>10, <1>11, <1>12, <1>13, <1>15, <1>18 DEF IInv

-----------------------------------------------------------------------------
(* The theorems *)

LEMMA InitHolds == Init => IInv
<1> SUFFICES ASSUME Init PROVE IInv
  OBVIOUS
<1>1. TypeOK
  BY SuccsType DEF Init, TypeOK
<1>2. /\ \A n \in Node : queue[n] = <<>> /\ exec[n] = None
      /\ \A c \in Caller : sock[c] = "closed"
      /\ \A n \in Node : \A k \in Name : store[n][k] = Absent
  BY DEF Init
<1>3. SockInv /\ ClientInv /\ AnswerInv
  BY <1>2 DEF SockInv, ClientInv, AnswerInv, Caller
<1>4. QueueInv
  BY <1>2 DEF QueueInv, Distinct, Elems
<1>5. ExecInv /\ NodeInv
  BY <1>2 DEF ExecInv, NodeInv, NodeOK, Caller
<1>6. WriteInv
  BY <1>2 DEF WriteInv, Busy
<1>7. ReplicasAgree
  BY <1>2, OwnerFound, SuccsType DEF ReplicasAgree, Replicas
<1> QED
  BY <1>1, <1>3, <1>4, <1>5, <1>6, <1>7 DEF IInv

LEMMA StutterStep == IInv /\ UNCHANGED vars => IInv'
<1> SUFFICES ASSUME IInv, UNCHANGED vars PROVE IInv'
  OBVIOUS
<1>1. /\ want' = want /\ call' = call /\ sock' = sock /\ answer' = answer
      /\ queue' = queue /\ exec' = exec /\ loop' = loop /\ store' = store
  BY DEF vars
<1>2. TypeOK' /\ SockInv' /\ QueueInv' /\ ExecInv' /\ ClientInv' /\ AnswerInv'
  BY <1>1 DEF IInv, TypeOK, SockInv, QueueInv, ExecInv, ClientInv, AnswerInv
<1>3. NodeInv'
  BY <1>1, NodeKept DEF IInv, NodeInv
<1>4. WriteInv' /\ ReplicasAgree'
  BY <1>1, <1>2, QuietStep DEF IInv, Busy
<1> QED
  BY <1>2, <1>3, <1>4 DEF IInv

LEMMA NextStep == IInv /\ [Next]_vars => IInv'
<1> SUFFICES ASSUME IInv, [Next]_vars PROVE IInv'
  OBVIOUS
<1>1. ASSUME NEW c \in Client, NEW r \in Request, NEW n \in Node, StartOp(c, r, n)
      PROVE  IInv'
  BY <1>1, StartOpStep
<1>2. ASSUME NEW c \in Client, ClientStep(c) PROVE IInv'
  BY <1>2, CallOwnerStep, FinishOpStep DEF ClientStep
<1>3. ASSUME NEW n \in Node, NEW c \in Caller, NodeStep(n, c) PROVE IInv'
  <2>1. CASE AnswerFind(n, c)
    BY <2>1, AnswerFindStep
  <2>2. CASE ForwardFind(n, c)
    BY <2>2, ForwardFindStep
  <2>3. CASE ReturnFind(n, c)
    BY <2>3, ReturnFindStep
  <2>4. CASE TakeAdd(n, c)
    <3>1. TakeWrite(n, c)
      BY <2>4 DEF TakeAdd, TakeWrite, CanTake, Dequeued
    <3> QED
      BY <3>1, TakeWriteStep
  <2>5. CASE TakeDelete(n, c)
    <3>1. /\ exec[n] = None /\ queue[n] # <<>> /\ c = Head(queue[n])
          /\ call[c].op = "delete"
      BY <2>5 DEF TakeDelete, CanTake
    <3>2. call[c] \in Message
      BY <3>1, TakeStep DEF IInv, HeadOK
    <3>3. call[c].val = Absent
      BY <3>1, <3>2 DEF Message
    <3>4. TakeWrite(n, c)
      BY <2>5, <3>1, <3>3 DEF TakeDelete, TakeWrite, Dequeued
    <3> QED
      BY <3>4, TakeWriteStep
  <2>6. CASE TakeGet(n, c)
    BY <2>6, TakeGetStep
  <2>7. CASE Replicate(n, c)
    BY <2>7, ReplicateStep
  <2>8. CASE ReplicaDone(n, c)
    BY <2>8, ReplicaDoneStep
  <2>9. CASE AnswerWrite(n, c)
    BY <2>9, AnswerWriteStep
  <2> QED
    BY <1>3, <2>1, <2>2, <2>3, <2>4, <2>5, <2>6, <2>7, <2>8, <2>9 DEF NodeStep
<1>4. CASE UNCHANGED vars
  BY <1>4, StutterStep
<1> QED
  BY <1>1, <1>2, <1>3, <1>4 DEF Next

\* The invariant holds of the execution loops of every settled ring.
THEOREM Invariance == Spec => []IInv
<1>1. IInv /\ [Next]_vars => IInv'
  BY NextStep
<1> QED
  BY <1>1, InitHolds, PTL DEF Spec

\* The variables keep their types: in particular a write never leaves the
\* replication loop past the end of the successor list.
THEOREM TypeCorrect == Spec => []TypeOK
<1>1. IInv => TypeOK
  BY DEF IInv
<1> QED
  BY <1>1, Invariance, PTL

\* A file that its owner is not writing is the same on the owner and on all the
\* nodes its CMD_FORCE_ADD and CMD_FORCE_DELETE handlers replicate it to.
THEOREM ReplicasAlwaysAgree == Spec => []ReplicasAgree
<1>1. IInv => ReplicasAgree
  BY DEF IInv
<1> QED
  BY <1>1, Invariance, PTL
\* No caller is in two places of the queues, and no node is in its own: with one
\* call per caller, command_queue of a node never holds more commands than
\* there are callers.
THEOREM QueuesAlwaysBounded == Spec => []QueuesBounded
<1>1. IInv => QueuesBounded
  <2> SUFFICES ASSUME IInv PROVE QueuesBounded
    OBVIOUS
  <2>1. \A n \in Node : \A i \in 1 .. Len(queue[n]) :
            queue[n][i] \in Elems(queue[n])
    BY DEF Elems
  <2>2. \A n \in Node : \A i \in 1 .. Len(queue[n]) :
            sock[queue[n][i]] = "sent" /\ call[queue[n][i]].to = n
    BY <2>1 DEF IInv, QueueInv
  <2>3. \A n \in Node : Distinct(queue[n])
    BY DEF IInv, QueueInv
  <2>4. ASSUME NEW n \in Node, NEW m \in Node,
               NEW i \in 1 .. Len(queue[n]), NEW j \in 1 .. Len(queue[m]),
               queue[n][i] = queue[m][j]
        PROVE  n = m /\ i = j
    <3>1. n = m
      BY <2>2, <2>4
    <3> QED
      BY <2>3, <2>4, <3>1 DEF Distinct
  <2>5. ASSUME NEW n \in Node, NEW i \in 1 .. Len(queue[n]), queue[n][i] = n
        PROVE  FALSE
    <3>1. sock[n] # "closed" /\ call[n].to = n
      BY <2>2, <2>5
    <3> QED
      BY <3>1 DEF IInv, NodeInv, NodeOK
  <2> QED
    BY <2>4, <2>5 DEF QueuesBounded
<1> QED
  BY <1>1, Invariance, PTL

-----------------------------------------------------------------------------
(* The atomic map: every step of a loop or a client is a step of the map or *)
(* changes nothing of it.                                                   *)

\* The map as its callers see it: what the owner of each name holds.
Held == [k \in Name |-> store[Owner(k)][k]]

\* How far the request of a client is, and what it has read.
StageOf(c) ==
    IF sock[c] = "closed" THEN "idle" ELSE IF Applied(c) THEN "applied" ELSE "pending"

ResultOf(c) == IF Applied(c) /\ call[c].op = "get" THEN answer[c] ELSE None

Stage == [c \in Client |-> StageOf(c)]
Result == [c \in Client |-> ResultOf(c)]

\* A client looks the same to the map before and after a step.
SameClient(c) == StageOf(c)' = StageOf(c) /\ ResultOf(c)' = ResultOf(c)

-----------------------------------------------------------------------------
(* Which clients a step concerns *)

\* A client whose call is left alone.
LEMMA Untouched ==
    ASSUME NEW c \in Client, sock'[c] = sock[c], call'[c] = call[c], answer'[c] = answer[c]
    PROVE  SameClient(c)
BY DEF SameClient, StageOf, ResultOf, Applied

\* A client that is looking for the owner, and goes on doing so.
LEMMA StillLooking ==
    ASSUME NEW c \in Client, sock[c] # "closed", call[c].op = "find",
           sock'[c] # "closed", call'[c].op = "find"
    PROVE  SameClient(c)
BY DEF SameClient, StageOf, ResultOf, Applied

\* A step that no client notices is none of the map.
LEMMA NoneNotices ==
    ASSUME want' = want, Held' = Held, \A c \in Client : SameClient(c)
    PROVE  UNCHANGED <<Held, want, Stage, Result>>
BY DEF SameClient, Stage, Result

\* A step that one client notices.
LEMMA OneNotices ==
    ASSUME NEW c \in Client, \A d \in Client : d # c => SameClient(d)
    PROVE  /\ Stage' = [Stage EXCEPT ![c] = StageOf(c)']
           /\ Result' = [Result EXCEPT ![c] = ResultOf(c)']
BY DEF SameClient, Stage, Result

\* The map holds the same as long as the disks do.
LEMMA HeldKept == store' = store => Held' = Held
BY DEF Held

\* What is written to a node's disk changes the map only under the names it owns.
LEMMA HeldWritten ==
    ASSUME TypeOK, NEW n \in Node, NEW k \in Name, NEW v,
           store' = [store EXCEPT ![n][k] = v]
    PROVE  Held' = IF n = Owner(k) THEN [Held EXCEPT ![k] = v] ELSE Held
<1>1. \A m \in Node, j \in Name : store'[m][j] = IF m = n /\ j = k THEN v ELSE store[m][j]
  BY DEF TypeOK
<1>2. \A j \in Name : Owner(j) \in Node
  BY OwnerFound
<1> QED
  BY <1>1, <1>2 DEF Held

-----------------------------------------------------------------------------
(* The steps of a client *)

LEMMA MapBegin ==
    ASSUME IInv, NEW c \in Client, NEW r \in Request, NEW n \in Node, StartOp(c, r, n)
    PROVE  KV!Begin(c, r)
<1>1. /\ sock[c] = "closed" /\ want' = [want EXCEPT ![c] = r]
      /\ call' = [call EXCEPT ![c] = FindMessage(n, r.name)]
      /\ sock' = [sock EXCEPT ![c] = "sent"]
      /\ UNCHANGED <<answer, store>> /\ c \in Caller
  BY DEF StartOp, Send, Caller
<1>2. /\ \A d \in Caller : d # c => sock'[d] = sock[d] /\ call'[d] = call[d]
      /\ sock'[c] = "sent" /\ call'[c].op = "find"
  BY <1>1 DEF IInv, TypeOK, FindMessage
<1>3. \A d \in Client : d # c => SameClient(d)
  BY <1>1, <1>2, Untouched DEF Caller
<1>4. /\ StageOf(c) = "idle" /\ StageOf(c)' = "pending"
      /\ ResultOf(c) = None /\ ResultOf(c)' = None
  BY <1>1, <1>2 DEF StageOf, ResultOf, Applied
<1>5. Stage[c] = "idle" /\ Stage' = [Stage EXCEPT ![c] = "pending"] /\ Result' = Result
  BY <1>3, <1>4, OneNotices DEF Stage, Result
<1> QED
  BY <1>1, <1>5, HeldKept DEF KV!Begin, Held, Stage, Result, StageOf, ResultOf

LEMMA MapCallOwner ==
    ASSUME IInv, NEW c \in Client, CallOwner(c)
    PROVE  UNCHANGED <<Held, want, Stage, Result>>
<1> DEFINE m == ForceMessage(answer[c], want[c])
<1>1. /\ sock[c] = "answered" /\ call[c].op = "find" /\ want' = want
      /\ call' = [call EXCEPT ![c] = m] /\ sock' = [sock EXCEPT ![c] = "sent"]
      /\ answer' = [answer EXCEPT ![c] = None] /\ store' = store /\ c \in Caller
  BY DEF CallOwner, Send, Caller
<1> HIDE DEF m
<1>2. /\ \A d \in Caller : d # c => /\ sock'[d] = sock[d] /\ call'[d] = call[d]
                                    /\ answer'[d] = answer[d]
      /\ sock'[c] = "sent"
  BY <1>1 DEF IInv, TypeOK
<1>3. SameClient(c)
  BY <1>1, <1>2 DEF SameClient, StageOf, ResultOf, Applied
<1>4. \A d \in Client : SameClient(d)
  BY <1>2, <1>3, Untouched DEF Caller
<1> QED
  BY <1>1, <1>4, HeldKept, NoneNotices

LEMMA MapEnd ==
    ASSUME IInv, NEW c \in Client, FinishOp(c)
    PROVE  KV!End(c)
<1>1. /\ sock[c] = "answered" /\ call[c].op # "find" /\ want' = [want EXCEPT ![c] = None]
      /\ call' = [call EXCEPT ![c] = None] /\ sock' = [sock EXCEPT ![c] = "closed"]
      /\ answer' = [answer EXCEPT ![c] = None] /\ store' = store /\ c \in Caller
  BY DEF FinishOp, Caller
<1>2. /\ \A d \in Caller : d # c => /\ sock'[d] = sock[d] /\ call'[d] = call[d]
                                    /\ answer'[d] = answer[d]
      /\ sock'[c] = "closed"
  BY <1>1 DEF IInv, TypeOK
<1>3. \A d \in Client : d # c => SameClient(d)
  BY <1>2, Untouched DEF Caller
<1>4. StageOf(c) = "applied" /\ StageOf(c)' = "idle" /\ ResultOf(c)' = None
  BY <1>1, <1>2 DEF StageOf, ResultOf, Applied
<1>5. /\ Stage[c] = "applied" /\ Stage' = [Stage EXCEPT ![c] = "idle"]
      /\ Result' = [Result EXCEPT ![c] = None]
  BY <1>3, <1>4, OneNotices DEF Stage
<1> QED
  BY <1>1, <1>5, HeldKept DEF KV!End, Held, Stage, Result, StageOf, ResultOf

-----------------------------------------------------------------------------
(* The steps of a loop *)

\* The head of n's queue: a caller with a message sent to n.
LEMMA HeadSent ==
    ASSUME IInv, NEW n \in Node, NEW c \in Caller,
           exec[n] = None, queue[n] # <<>>, c = Head(queue[n])
    PROVE  /\ sock[c] = "sent" /\ call[c].to = n /\ c # n /\ sock[n] = "closed"
           /\ call[c] \in Message
<1>1. queue \in [Node -> Seq(Caller)] /\ SockInv /\ QueueInv /\ NodeOK(n)
  BY DEF IInv, TypeOK, NodeInv
<1>2. HeadOK(n, c)
  BY <1>1, HeadTaken
<1> QED
  BY <1>2 DEF HeadOK

\* A client that has sent a FORCE command has sent its request to the owner.
LEMMA Forced ==
    ASSUME IInv, NEW c \in Client, sock[c] # "closed", call[c].op # "find"
    PROVE  /\ want[c] \in Request /\ call[c].op = want[c].op
           /\ call[c].name = want[c].name /\ call[c].val = want[c].val
           /\ call[c].to = Owner(call[c].name)
<1>1. /\ want[c] \in Request
      /\ \/ call[c] = FindMessage(call[c].to, want[c].name)
         \/ call[c] = ForceMessage(Owner(want[c].name), want[c])
  BY DEF IInv, ClientInv
<1> QED
  BY <1>1 DEF FindMessage, ForceMessage

\* A lookup: whatever the loop does with it, no client notices.
LEMMA MapFind ==
    ASSUME IInv, NEW n \in Node, NEW c \in Caller,
           AnswerFind(n, c) \/ ForwardFind(n, c) \/ ReturnFind(n, c)
    PROVE  UNCHANGED <<Held, want, Stage, Result>>
<1>1. /\ call \in [Caller -> Message \cup {None}]
      /\ answer \in [Caller -> Node \cup Value \cup {Absent, None}]
      /\ sock \in [Caller -> {"closed", "sent", "taken", "answered"}]
      /\ Client \subseteq Caller /\ n \in Caller /\ n \notin Client
  BY NodeAssumption DEF IInv, TypeOK, Caller
<1>2. want' = want /\ store' = store
  BY DEF AnswerFind, ForwardFind, ReturnFind
<1>3. call[c].op = "find" /\ sock[c] # "closed"
  <2>1. CASE AnswerFind(n, c) \/ ForwardFind(n, c)
    BY <2>1, HeadSent DEF AnswerFind, ForwardFind, CanTake
  <2>2. CASE ReturnFind(n, c)
    BY <2>2 DEF ReturnFind, IInv, ExecInv
  <2> QED
    BY <2>1, <2>2
<1>4. \A d \in Caller : d # n => call'[d] = call[d]
  BY <1>1 DEF AnswerFind, ForwardFind, ReturnFind
<1>5. \A d \in Caller : d # n /\ d # c => sock'[d] = sock[d]
  BY <1>1 DEF AnswerFind, ForwardFind, ReturnFind
<1>6. \A d \in Caller : d # n /\ d # c => answer'[d] = answer[d]
  BY <1>1 DEF AnswerFind, ForwardFind, ReturnFind
<1>7. c # n => sock'[c] # "closed"
  BY <1>1 DEF AnswerFind, ForwardFind, ReturnFind
<1>8. ASSUME NEW d \in Client PROVE SameClient(d)
  <2>1. CASE d = c
    BY <1>1, <1>3, <1>4, <1>7, <2>1, StillLooking
  <2>2. CASE d # c
    BY <1>1, <1>4, <1>5, <1>6, <2>2, Untouched
  <2> QED
    BY <2>1, <2>2
<1> QED
  BY <1>2, <1>8, HeldKept, NoneNotices

\* The owner takes a write: that is when it takes effect.
LEMMA MapWrite ==
    ASSUME IInv, NEW n \in Node, NEW c \in Client, TakeWrite(n, c)
    PROVE  KV!ApplyWrite(c)
<1>1. /\ exec[n] = None /\ queue[n] # <<>> /\ c = Head(queue[n])
      /\ call[c].op \in {"add", "delete"} /\ sock' = [sock EXCEPT ![c] = "taken"]
      /\ store' = [store EXCEPT ![n][call[c].name] = call[c].val]
      /\ UNCHANGED <<want, call, answer>> /\ c \in Caller
  BY DEF TakeWrite, Caller
<1>2. sock[c] = "sent" /\ call[c].to = n
  BY <1>1, HeadSent
<1>3. /\ call[c].op = want[c].op /\ call[c].name = want[c].name
      /\ call[c].val = want[c].val /\ n = Owner(call[c].name) /\ call[c].name \in Name
  BY <1>1, <1>2, Forced DEF Request
<1>4. (\A d \in Caller : d # c => sock'[d] = sock[d]) /\ sock'[c] = "taken"
  BY <1>1 DEF IInv, TypeOK
<1>5. \A d \in Client : d # c => SameClient(d)
  BY <1>1, <1>4, Untouched DEF Caller
<1>6. /\ StageOf(c) = "pending" /\ StageOf(c)' = "applied"
      /\ ResultOf(c) = None /\ ResultOf(c)' = None
  BY <1>1, <1>2, <1>4 DEF StageOf, ResultOf, Applied
<1>7. Stage[c] = "pending" /\ Stage' = [Stage EXCEPT ![c] = "applied"] /\ Result' = Result
  BY <1>5, <1>6, OneNotices DEF Stage, Result
<1>8. Held' = [Held EXCEPT ![want[c].name] = want[c].val]
  <2>1. TypeOK
    BY DEF IInv
  <2>2. Held' = [Held EXCEPT ![call[c].name] = call[c].val]
    BY <1>1, <1>3, <2>1, HeldWritten
  <2> QED
    BY <1>3, <2>2
<1> QED
  BY <1>1, <1>3, <1>7, <1>8 DEF KV!ApplyWrite, Held, Stage, Result, StageOf, ResultOf

\* A replica takes a write: its node is not the owner of the name.
LEMMA MapReplicaWrite ==
    ASSUME IInv, NEW n \in Node, NEW c \in Node, TakeWrite(n, c)
    PROVE  UNCHANGED <<Held, want, Stage, Result>>
<1>1. /\ exec[n] = None /\ queue[n] # <<>> /\ c = Head(queue[n])
      /\ call[c].op \in {"add", "delete"} /\ sock' = [sock EXCEPT ![c] = "taken"]
      /\ store' = [store EXCEPT ![n][call[c].name] = call[c].val]
      /\ UNCHANGED <<want, call, answer>> /\ c \in Caller
  BY DEF TakeWrite, Caller
<1>2. sock[c] = "sent" /\ call[c].to = n /\ c # n /\ call[c] \in Message
  BY <1>1, HeadSent
<1>3. c = Owner(call[c].name) /\ call[c].name \in Name
  BY <1>1, <1>2, Writers DEF IInv, Message
<1>4. \A d \in Caller : d # c => sock'[d] = sock[d]
  BY <1>1 DEF IInv, TypeOK
<1>5. \A d \in Client : SameClient(d)
  BY <1>1, <1>4, Untouched, NodeAssumption DEF Caller
<1>6. Held' = Held
  BY <1>1, <1>2, <1>3, HeldWritten DEF IInv
<1> QED
  BY <1>1, <1>5, <1>6, NoneNotices

\* The owner takes a read, which only a client asks for.
LEMMA MapRead ==
    ASSUME IInv, NEW n \in Node, NEW c \in Caller, TakeGet(n, c)
    PROVE  c \in Client /\ KV!ApplyGet(c)
<1>1. /\ exec[n] = None /\ queue[n] # <<>> /\ c = Head(queue[n]) /\ call[c].op = "get"
      /\ sock' = [sock EXCEPT ![c] = "answered"]
      /\ answer' = [answer EXCEPT ![c] = store[n][call[c].name]]
      /\ UNCHANGED <<want, call, store>>
  BY DEF TakeGet, CanTake
<1>2. sock[c] = "sent" /\ call[c].to = n
  BY <1>1, HeadSent
<1>3. c \in Client
  <2>1. ASSUME c \in Node PROVE FALSE
    BY <1>1, <1>2, <2>1, NodeCalls DEF IInv
  <2> QED
    BY <2>1 DEF Caller
<1>4. call[c].op = want[c].op /\ call[c].name = want[c].name /\ n = Owner(call[c].name)
      /\ call[c].name \in Name
  BY <1>1, <1>2, <1>3, Forced DEF Request
<1>5. /\ \A d \in Caller : d # c => sock'[d] = sock[d] /\ answer'[d] = answer[d]
      /\ sock'[c] = "answered" /\ answer'[c] = store[n][call[c].name]
  BY <1>1 DEF IInv, TypeOK
<1>6. \A d \in Client : d # c => SameClient(d)
  BY <1>1, <1>5, Untouched DEF Caller
<1>7. /\ StageOf(c) = "pending" /\ StageOf(c)' = "applied"
      /\ ResultOf(c)' = store[n][call[c].name]
  BY <1>1, <1>2, <1>5 DEF StageOf, ResultOf, Applied
<1>8. Held[want[c].name] = store[n][call[c].name]
  BY <1>4 DEF Held
<1>9. /\ Stage[c] = "pending" /\ Stage' = [Stage EXCEPT ![c] = "applied"]
      /\ Result' = [Result EXCEPT ![c] = Held[want[c].name]]
  BY <1>3, <1>6, <1>7, <1>8, OneNotices DEF Stage
<1> QED
  BY <1>1, <1>3, <1>4, <1>9, HeldKept DEF KV!ApplyGet, Held, Stage, Result, StageOf, ResultOf

\* The replication loop, up to the ok response: no client notices any of it.
LEMMA MapReplicate ==
    ASSUME IInv, NEW n \in Node, NEW c \in Caller,
           Replicate(n, c) \/ ReplicaDone(n, c) \/ AnswerWrite(n, c)
    PROVE  UNCHANGED <<Held, want, Stage, Result>>
<1>1. /\ call \in [Caller -> Message \cup {None}]
      /\ answer \in [Caller -> Node \cup Value \cup {Absent, None}]
      /\ sock \in [Caller -> {"closed", "sent", "taken", "answered"}]
      /\ Client \subseteq Caller /\ n \in Caller /\ n \notin Client
  BY NodeAssumption DEF IInv, TypeOK, Caller
<1>2. want' = want /\ store' = store
  BY DEF Replicate, ReplicaDone, AnswerWrite
<1>3. \A d \in Caller : d # n => call'[d] = call[d] /\ answer'[d] = answer[d]
  BY <1>1 DEF Replicate, ReplicaDone, AnswerWrite, Send
<1>4. CASE Replicate(n, c) \/ ReplicaDone(n, c)
  <2>1. \A d \in Caller : d # n => sock'[d] = sock[d]
    BY <1>1, <1>4 DEF Replicate, ReplicaDone, Send
  <2>2. \A d \in Client : SameClient(d)
    BY <1>1, <1>3, <2>1, Untouched
  <2> QED
    BY <1>2, <2>2, HeldKept, NoneNotices
<1>5. CASE AnswerWrite(n, c)
  <2>1. sock[c] = "taken" /\ call[c].op \in {"add", "delete"}
    BY <1>5 DEF AnswerWrite, Writing, IInv, ExecInv
  <2>2. sock'[c] = "answered" /\ \A d \in Caller : d # c => sock'[d] = sock[d]
    BY <1>1, <1>5 DEF AnswerWrite
  <2>3. ASSUME NEW d \in Client PROVE SameClient(d)
    <3>1. CASE d = c
      BY <1>1, <1>3, <2>1, <2>2, <3>1 DEF SameClient, StageOf, ResultOf, Applied
    <3>2. CASE d # c
      BY <1>1, <1>3, <2>2, <3>2, Untouched
    <3> QED
      BY <3>1, <3>2
  <2> QED
    BY <1>2, <2>3, HeldKept, NoneNotices
<1> QED
  BY <1>4, <1>5

-----------------------------------------------------------------------------
(* The refinement *)

LEMMA MapInit == Init => KV!Init
<1> SUFFICES ASSUME Init PROVE KV!Init
  OBVIOUS
<1>1. \A k \in Name : store[Owner(k)][k] = Absent
  BY OwnerFound DEF Init
<1>2. \A c \in Client : sock[c] = "closed"
  BY DEF Init, Caller
<1>3. want = [c \in Client |-> None]
  BY DEF Init
<1> QED
  BY <1>1, <1>2, <1>3 DEF KV!Init, Applied

LEMMA MapNodeStep ==
    ASSUME IInv, NEW n \in Node, NEW c \in Caller, NodeStep(n, c)
    PROVE  [KV!Next]_<<Held, want, Stage, Result>>
<1>1. CASE TakeAdd(n, c) \/ TakeDelete(n, c)
  <2>1. TakeWrite(n, c)
    <3>1. CASE TakeAdd(n, c)
      BY <3>1 DEF TakeAdd, TakeWrite, CanTake, Dequeued
    <3>2. CASE TakeDelete(n, c)
      <4>1. call[c].val = Absent
        BY <3>2, HeadSent DEF TakeDelete, CanTake, Message
      <4> QED
        BY <3>2, <4>1 DEF TakeDelete, TakeWrite, CanTake, Dequeued
    <3> QED
      BY <1>1, <3>1, <3>2
  <2>2. CASE c \in Client
    <3>1. KV!ApplyWrite(c)
      BY <2>1, <2>2, MapWrite
    <3> QED
      BY <2>2, <3>1 DEF KV!Next
  <2>3. CASE c \in Node
    BY <2>1, <2>3, MapReplicaWrite
  <2> QED
    BY <2>2, <2>3 DEF Caller
<1>2. CASE TakeGet(n, c)
  <2>1. c \in Client /\ KV!ApplyGet(c)
    BY <1>2, MapRead
  <2> QED
    BY <2>1 DEF KV!Next
<1>3. CASE AnswerFind(n, c) \/ ForwardFind(n, c) \/ ReturnFind(n, c)
  BY <1>3, MapFind
<1>4. CASE Replicate(n, c) \/ ReplicaDone(n, c) \/ AnswerWrite(n, c)
  BY <1>4, MapReplicate
<1> QED
  BY <1>1, <1>2, <1>3, <1>4 DEF NodeStep

LEMMA MapStep == IInv /\ [Next]_vars => [KV!Next]_<<Held, want, Stage, Result>>
<1> SUFFICES ASSUME IInv, [Next]_vars PROVE [KV!Next]_<<Held, want, Stage, Result>>
  OBVIOUS
<1>1. ASSUME NEW c \in Client, NEW r \in Request, NEW n \in Node, StartOp(c, r, n)
      PROVE  [KV!Next]_<<Held, want, Stage, Result>>
  <2>1. KV!Begin(c, r) /\ r \in KV!Request
    BY <1>1, MapBegin DEF KV!Request, Request
  <2> QED
    BY <2>1 DEF KV!Next
<1>2. ASSUME NEW c \in Client, ClientStep(c)
      PROVE  [KV!Next]_<<Held, want, Stage, Result>>
  <2>1. CASE CallOwner(c)
    BY <2>1, MapCallOwner
  <2>2. CASE FinishOp(c)
    <3>1. KV!End(c)
      BY <2>2, MapEnd
    <3> QED
      BY <3>1 DEF KV!Next
  <2> QED
    BY <1>2, <2>1, <2>2 DEF ClientStep
<1>3. ASSUME NEW n \in Node, NEW c \in Caller, NodeStep(n, c)
      PROVE  [KV!Next]_<<Held, want, Stage, Result>>
  BY <1>3, MapNodeStep
<1>4. CASE UNCHANGED vars
  BY <1>4 DEF vars, Held, Stage, Result, StageOf, ResultOf, Applied
<1> QED
  BY <1>1, <1>2, <1>3, <1>4 DEF Next

\* In every ring and with any number of clients, rpc_add, rpc_delete and rpc_get
\* act on one map, each at one instant between its call and its return: the instant
\* at which the execution loop of the owner takes the FORCE command.
THEOREM MapImplemented == Spec => AtomicMap
<1>1. Init => KV!Init
  BY MapInit
<1>2. IInv /\ [Next]_vars => [KV!Next]_<<Held, want, Stage, Result>>
  BY MapStep
<1> QED
  BY <1>1, <1>2, Invariance, PTL
  DEF Spec, AtomicMap, KV!Spec, KV!vars, Held, Stage, Result, StageOf, ResultOf

-----------------------------------------------------------------------------
(* What stops a DHT *)

\* A call that has been sent is in the queue of the node it was sent to, and one
\* that has been taken is the one that node's loop is running.
Pending(c) ==
    /\ sock[c] = "sent" => c \in Elems(queue[call[c].to])
    /\ sock[c] = "taken" => exec[call[c].to] = c

PendingInv == \A c \in Caller : Pending(c)

\* What the steps below rely on of calls and queues, whatever states calls have.
Calling ==
    /\ call \in [Caller -> Message \cup {None}]
    /\ sock \in [Caller -> {"closed", "sent", "taken", "answered", "failed", "short"}]
    /\ queue \in [Node -> Seq(Caller)]
    /\ exec \in [Node -> Caller \cup {None}]
    /\ loop \in [Node -> 1 .. ListLen]
    /\ SockInv /\ QueueInv /\ ExecInv

LEMMA CallingHolds == IInv => Calling /\ NodeInv
<1> SUFFICES ASSUME IInv PROVE Calling /\ NodeInv
  OBVIOUS
<1>1. TypeOK
  BY DEF IInv
<1>2. sock \in [Caller -> {"closed", "sent", "taken", "answered", "failed", "short"}]
  BY <1>1 DEF TypeOK
<1> QED
  BY <1>1, <1>2 DEF IInv, TypeOK, Calling

\* After a call has been sent the queues hold what they held, and the caller.
LEMMA SendElems ==
    ASSUME Calling, NEW c \in Caller, sock[c] # "sent", NEW m \in Message, Send(c, m)
    PROVE  /\ call'[c] = m /\ sock'[c] = "sent"
           /\ \A d \in Caller : d # c => call'[d] = call[d] /\ sock'[d] = sock[d]
           /\ c \in Elems(queue'[m.to])
           /\ \A n \in Node : Elems(queue[n]) \subseteq Elems(queue'[n])
<1>1. Calling /\ m.to \in Node
  BY DEF Message
<1>2. /\ call'[c] = m /\ sock'[c] = "sent"
      /\ \A d \in Caller : d # c => call'[d] = call[d] /\ sock'[d] = sock[d]
  BY DEF Send, Calling
<1>3. \A n \in Node : /\ queue[n] \in Seq(Caller) /\ Distinct(queue[n])
                      /\ c \notin Elems(queue[n])
  BY DEF Calling, QueueInv
<1>4. Elems(Append(queue[m.to], c)) = Elems(queue[m.to]) \cup {c}
  BY <1>1, <1>3, EnqueueElems
<1>5. \A n \in Node : queue'[n] = IF n = m.to THEN Append(queue[n], c) ELSE queue[n]
  BY <1>1 DEF Send, Calling
<1> QED
  BY <1>1, <1>2, <1>4, <1>5

\* Taking the head of n's queue takes nothing else out of any queue.
LEMMA TakeElems ==
    ASSUME Calling, NEW n \in Node, NodeOK(n), NEW c \in Caller,
           exec[n] = None, queue[n] # <<>>, c = Head(queue[n])
    PROVE  /\ sock[c] = "sent" /\ call[c].to = n /\ c # n /\ sock[n] = "closed"
           /\ call[c] \in Message
           /\ \A m \in Node : Elems(queue[m]) \ {c} \subseteq Elems(Dequeued(n)[m])
<1>1. queue \in [Node -> Seq(Caller)] /\ SockInv /\ QueueInv
  BY DEF Calling
<1>2. /\ sock[c] = "sent" /\ call[c].to = n /\ c # n /\ sock[n] = "closed"
      /\ call[c] \in Message
  BY <1>1, HeadTaken DEF HeadOK
<1>3. queue[n] \in Seq(Caller) /\ Distinct(queue[n])
  BY <1>1 DEF QueueInv
<1>4. Elems(Tail(queue[n])) = Elems(queue[n]) \ {c}
  BY <1>3, DequeueElems
<1>5. \A m \in Node : Dequeued(n)[m] = IF m = n THEN Tail(queue[n]) ELSE queue[m]
  BY <1>1 DEF Dequeued
<1> QED
  BY <1>2, <1>4, <1>5

\* Whom an open call was made to.
LEMMA CalleeType ==
    ASSUME SockInv, NEW c \in Caller, sock[c] # "closed"
    PROVE  call[c].to \in Node
BY DEF SockInv, Message

-----------------------------------------------------------------------------
(* Each action preserves PendingInv *)

\* A call is sent, nothing else happens.
LEMMA PendingSend ==
    ASSUME Calling, PendingInv, NEW c \in Caller, sock[c] # "sent", NEW m \in Message,
           Send(c, m), exec' = exec
    PROVE  PendingInv'
<1> SUFFICES ASSUME NEW d \in Caller PROVE Pending(d)'
  BY DEF PendingInv
<1>1. /\ call'[c] = m /\ sock'[c] = "sent" /\ c \in Elems(queue'[m.to])
      /\ \A e \in Caller : e # c => call'[e] = call[e] /\ sock'[e] = sock[e]
      /\ \A n \in Node : Elems(queue[n]) \subseteq Elems(queue'[n])
  BY SendElems
<1>2. CASE d = c
  BY <1>1, <1>2 DEF Pending
<1>3. CASE d # c
  BY <1>1, <1>3, CalleeType DEF Calling, Pending, PendingInv
<1> QED
  BY <1>2, <1>3

\* The head of n's queue is taken and answered at once.
LEMMA PendingAnswer ==
    ASSUME Calling, PendingInv, NEW n \in Node, NodeOK(n), NEW c \in Caller,
           exec[n] = None, queue[n] # <<>>, c = Head(queue[n]),
           queue' = Dequeued(n), sock' = [sock EXCEPT ![c] = "answered"],
           call' = call, exec' = exec
    PROVE  PendingInv'
<1> SUFFICES ASSUME NEW d \in Caller PROVE Pending(d)'
  BY DEF PendingInv
<1>1. \A m \in Node : Elems(queue[m]) \ {c} \subseteq Elems(queue'[m])
  BY TakeElems
<1>2. sock'[c] = "answered" /\ \A e \in Caller : e # c => sock'[e] = sock[e]
  BY DEF Calling
<1>3. CASE d = c
  BY <1>2, <1>3 DEF Pending
<1>4. CASE d # c
  BY <1>1, <1>2, <1>4, CalleeType DEF Calling, Pending, PendingInv
<1> QED
  BY <1>3, <1>4

\* The head of n's queue is taken and n's loop runs it.
LEMMA PendingTake ==
    ASSUME Calling, PendingInv, NEW n \in Node, NodeOK(n), NEW c \in Caller,
           exec[n] = None, queue[n] # <<>>, c = Head(queue[n]),
           queue' = Dequeued(n), sock' = [sock EXCEPT ![c] = "taken"],
           call' = call, exec' = [exec EXCEPT ![n] = c]
    PROVE  PendingInv'
<1> SUFFICES ASSUME NEW d \in Caller PROVE Pending(d)'
  BY DEF PendingInv
<1>1. /\ call[c].to = n
      /\ \A m \in Node : Elems(queue[m]) \ {c} \subseteq Elems(queue'[m])
  BY TakeElems
<1>2. /\ sock'[c] = "taken" /\ exec'[n] = c
      /\ \A e \in Caller : e # c => sock'[e] = sock[e]
      /\ \A m \in Node : m # n => exec'[m] = exec[m]
  BY DEF Calling
<1>3. CASE d = c
  BY <1>1, <1>2, <1>3 DEF Pending
<1>4. CASE d # c
  <2>1. d # None
    BY NodeAssumption
  <2>2. sock[d] = "taken" => call[d].to # n
    BY <2>1 DEF PendingInv, Pending
  <2> QED
    BY <1>1, <1>2, <1>4, <2>2, CalleeType DEF Calling, Pending, PendingInv
<1> QED
  BY <1>3, <1>4

LEMMA PendingForward ==
    ASSUME Calling, PendingInv, NEW n \in Node, NodeOK(n), NEW c \in Caller, ForwardFind(n, c)
    PROVE  PendingInv'
<1> SUFFICES ASSUME NEW d \in Caller PROVE Pending(d)'
  BY DEF PendingInv
<1> DEFINE s == Next1(n)
<1>1. exec[n] = None /\ queue[n] # <<>> /\ c = Head(queue[n]) /\ s # n
  BY DEF ForwardFind, CanTake, IAmPredecessorOfKey
<1>2. /\ sock[c] = "sent" /\ call[c].to = n /\ c # n /\ sock[n] = "closed"
      /\ \A m \in Node : Elems(queue[m]) \ {c} \subseteq Elems(Dequeued(n)[m])
  BY <1>1, TakeElems
<1>3. s \in Node /\ n \in Caller
  BY SuccsType DEF Caller
<1>4. /\ call'[n].to = s /\ sock'[n] = "sent" /\ sock'[c] = "taken" /\ exec'[n] = c
      /\ \A e \in Caller : e # n => call'[e] = call[e]
      /\ \A e \in Caller : e # n /\ e # c => sock'[e] = sock[e]
      /\ \A m \in Node : m # n => exec'[m] = exec[m]
  <2>1. /\ exec' = [exec EXCEPT ![n] = c]
        /\ call' = [call EXCEPT ![n] = FindMessage(s, call[c].name)]
        /\ sock' = [sock EXCEPT ![c] = "taken", ![n] = "sent"]
    BY DEF ForwardFind
  <2>2. FindMessage(s, call[c].name).to = s
    BY DEF FindMessage
  <2> QED
    BY <1>2, <1>3, <2>1, <2>2 DEF Calling
<1>5. /\ queue'[s] = Append(Dequeued(n)[s], n)
      /\ \A m \in Node : m # s => queue'[m] = Dequeued(n)[m]
  <2>1. queue' = [queue EXCEPT ![n] = Tail(@), ![s] = Append(@, n)]
    BY DEF ForwardFind
  <2> QED
    BY <1>1, <1>3, <2>1 DEF Calling, Dequeued
<1>6. Elems(queue'[s]) = Elems(Dequeued(n)[s]) \cup {n}
  <2>1. queue[s] \in Seq(Caller) /\ Distinct(queue[s]) /\ n \notin Elems(queue[s])
    BY <1>2, <1>3 DEF Calling, QueueInv
  <2>2. Dequeued(n)[s] = queue[s]
    BY <1>1, <1>3 DEF Calling, Dequeued
  <2> QED
    BY <1>3, <1>5, <2>1, <2>2, EnqueueElems
<1> HIDE DEF s
<1>7. CASE d = n
  BY <1>4, <1>6, <1>7 DEF Pending
<1>8. CASE d = c
  BY <1>2, <1>4, <1>8 DEF Pending
<1>9. CASE d # n /\ d # c
  <2>1. sock[d] = "taken" => call[d].to # n
    BY <1>1, NodeAssumption DEF PendingInv, Pending
  <2>2. \A m \in Node : Elems(queue[m]) \ {c} \subseteq Elems(queue'[m])
    BY <1>2, <1>5, <1>6
  <2> QED
    BY <1>4, <1>9, <2>1, <2>2, CalleeType DEF Calling, Pending, PendingInv
<1> QED
  BY <1>7, <1>8, <1>9

\* A caller n gets its answer back and closes; the loop it may have been running
\* the command of c in is free again, and c is answered.
LEMMA PendingReturn ==
    ASSUME Calling, PendingInv, NEW n \in Node, NEW c \in Caller, exec[n] = c,
           exec' = [exec EXCEPT ![n] = None], queue' = queue,
           \A e \in Caller : e # n => call'[e] = call[e],
           sock'[n] \notin {"sent", "taken"}, sock'[c] \notin {"sent", "taken"},
           \A e \in Caller : e # n /\ e # c => sock'[e] = sock[e]
    PROVE  PendingInv'
<1> SUFFICES ASSUME NEW d \in Caller, d # n, d # c PROVE Pending(d)'
  BY DEF PendingInv, Pending
<1>1. \A m \in Node : m # n => exec'[m] = exec[m]
  BY DEF Calling
<1>2. sock[d] = "taken" => call[d].to # n
  BY DEF PendingInv, Pending
<1> QED
  BY <1>1, <1>2, CalleeType DEF PendingInv, Pending

\* A caller reads its answer and closes.
LEMMA PendingClose ==
    ASSUME Calling, PendingInv, NEW c \in Caller, exec' = exec, queue' = queue,
           call' = [call EXCEPT ![c] = None], sock' = [sock EXCEPT ![c] = "closed"]
    PROVE  PendingInv'
<1> SUFFICES ASSUME NEW d \in Caller PROVE Pending(d)'
  BY DEF PendingInv
<1>1. /\ sock'[c] = "closed"
      /\ \A e \in Caller : e # c => call'[e] = call[e] /\ sock'[e] = sock[e]
  BY DEF Calling
<1> QED
  BY <1>1 DEF PendingInv, Pending
-----------------------------------------------------------------------------
(* The theorem *)

LEMMA PendingNodeStep ==
    ASSUME Calling, PendingInv, NEW n \in Node, NodeOK(n), NEW c \in Caller, NodeStep(n, c)
    PROVE  PendingInv'
<1>1. SockInv /\ ExecInv /\ n \in Caller
  BY DEF Calling, Caller
<1>2. CASE AnswerFind(n, c)
  BY <1>2, PendingAnswer DEF AnswerFind, CanTake, Dequeued
<1>3. CASE ForwardFind(n, c)
  BY <1>3, PendingForward
<1>4. CASE ReturnFind(n, c)
  <2>1. /\ exec[n] = c /\ sock[n] = "answered"
        /\ exec' = [exec EXCEPT ![n] = None] /\ call' = [call EXCEPT ![n] = None]
        /\ sock' = [sock EXCEPT ![n] = "closed", ![c] = "answered"] /\ queue' = queue
    BY <1>4 DEF ReturnFind
  <2>2. /\ \A e \in Caller : e # n => call'[e] = call[e]
        /\ sock'[n] \notin {"sent", "taken"} /\ sock'[c] = "answered"
        /\ \A e \in Caller : e # n /\ e # c => sock'[e] = sock[e]
    BY <1>1, <2>1 DEF Calling
  <2> QED
    BY <2>1, <2>2, PendingReturn
<1>5. CASE TakeAdd(n, c)
  BY <1>5, PendingTake DEF TakeAdd, CanTake, Dequeued
<1>6. CASE TakeDelete(n, c)
  BY <1>6, PendingTake DEF TakeDelete, CanTake, Dequeued
<1>7. CASE TakeGet(n, c)
  BY <1>7, PendingAnswer DEF TakeGet, CanTake, Dequeued
<1>8. CASE Replicate(n, c)
  <2> DEFINE m == [call[c] EXCEPT !.to = Succs[n][loop[n]], !.rep = FALSE]
  <2>1. /\ exec[n] = c /\ c # None /\ sock[n] = "closed" /\ Send(n, m) /\ exec' = exec
        /\ call[c].op \in {"add", "delete"} /\ ~LoopOver(n, call[c].rep)
    BY <1>8 DEF Replicate, Writing
  <2>2. call[c] \in Message /\ loop[n] \in 1 .. Level
    BY <1>1, <2>1, LevelAssumption DEF Calling, ExecInv, SockInv, LoopOver, ListLen
  <2>3. m \in Message
    BY <2>1, <2>2, SuccsType DEF Message
  <2> HIDE DEF m
  <2> QED
    BY <1>1, <2>1, <2>3, PendingSend
<1>9. CASE ReplicaDone(n, c)
  BY <1>1, <1>9, PendingClose DEF ReplicaDone
<1>10. CASE AnswerWrite(n, c)
  <2>1. /\ exec[n] = c /\ c # None /\ sock[n] = "closed"
        /\ exec' = [exec EXCEPT ![n] = None] /\ call' = call
        /\ sock' = [sock EXCEPT ![c] = "answered"] /\ queue' = queue
    BY <1>10 DEF AnswerWrite, Writing
  <2>2. c # n
    BY <1>1, <2>1 DEF ExecInv
  <2>3. /\ sock'[n] = "closed" /\ sock'[c] = "answered"
        /\ \A e \in Caller : e # n /\ e # c => sock'[e] = sock[e]
    BY <1>1, <2>1, <2>2 DEF Calling
  <2> QED
    BY <2>1, <2>3, PendingReturn
<1> QED
  BY <1>2, <1>3, <1>4, <1>5, <1>6, <1>7, <1>8, <1>9, <1>10 DEF NodeStep

LEMMA PendingClientStep ==
    ASSUME IInv, PendingInv, NEW c \in Client, ClientStep(c)
    PROVE  PendingInv'
<1>1. c \in Caller
  BY DEF Caller
<1>2. CASE CallOwner(c)
  <2> DEFINE m == ForceMessage(answer[c], want[c])
  <2>1. sock[c] = "answered" /\ call[c].op = "find" /\ Send(c, m) /\ exec' = exec
    BY <1>2 DEF CallOwner
  <2>2. /\ want[c] \in Request
        /\ \/ call[c] = FindMessage(call[c].to, want[c].name)
           \/ call[c] = ForceMessage(Owner(want[c].name), want[c])
    BY <2>1 DEF IInv, ClientInv
  <2>3. call[c].name = want[c].name
    BY <2>2 DEF FindMessage, ForceMessage
  <2>4. answer[c] \in Node
    BY <1>1, <2>1, <2>2, <2>3, OwnerFound DEF IInv, AnswerInv, Request
  <2>5. m \in Message
    BY <2>2, <2>4 DEF ForceMessage, Message, Request
  <2> HIDE DEF m
  <2> QED
    BY <1>1, <2>1, <2>5, CallingHolds, PendingSend
<1>3. CASE FinishOp(c)
  BY <1>1, <1>3, CallingHolds, PendingClose DEF FinishOp
<1> QED
  BY <1>2, <1>3 DEF ClientStep

LEMMA PendingNext == IInv /\ PendingInv /\ [Next]_vars => PendingInv'
<1> SUFFICES ASSUME IInv, PendingInv, [Next]_vars PROVE PendingInv'
  OBVIOUS
<1>1. ASSUME NEW c \in Client, NEW r \in Request, NEW n \in Node, StartOp(c, r, n)
      PROVE  PendingInv'
  <2> DEFINE m == FindMessage(n, r.name)
  <2>1. sock[c] = "closed" /\ Send(c, m) /\ exec' = exec /\ c \in Caller
    BY <1>1 DEF StartOp, Caller
  <2>2. m \in Message
    BY DEF FindMessage, Message, Request
  <2> HIDE DEF m
  <2> QED
    BY <2>1, <2>2, CallingHolds, PendingSend
<1>2. ASSUME NEW c \in Client, ClientStep(c) PROVE PendingInv'
  BY <1>2, PendingClientStep
<1>3. ASSUME NEW n \in Node, NEW c \in Caller, NodeStep(n, c) PROVE PendingInv'
  BY <1>3, CallingHolds, PendingNodeStep DEF NodeInv
<1>4. CASE UNCHANGED vars
  BY <1>4 DEF vars, PendingInv, Pending
<1> QED
  BY <1>1, <1>2, <1>3, <1>4 DEF Next

\* Every call that is waiting leads to a loop that is blocked; when nothing can
\* run, so does the call that loop is blocked in, and the blocked loops are the
\* cycle.
LEMMA HaltedInCycle == IInv /\ PendingInv => HaltOnlyInCycle
<1> SUFFICES ASSUME IInv, PendingInv, Halted, NEW c \in Client, sock[c] # "closed"
             PROVE  WaitCycle
  BY DEF HaltOnlyInCycle
<1>1. ASSUME NEW d \in Caller, sock[d] \in {"sent", "taken"}
      PROVE  call[d].to \in Node /\ Blocked(call[d].to)
  <2> DEFINE n == call[d].to
  <2>1. n \in Node
    BY <1>1, CalleeType DEF IInv
  <2>2. exec[n] # None
    <3>1. CASE sock[d] = "sent"
      <4>1. d \in Elems(queue[n])
        BY <3>1 DEF PendingInv, Pending
      <4>2. queue[n] # <<>>
        BY <4>1 DEF Elems
      <4> QED
        BY <2>1, <4>2 DEF Halted
    <3>2. CASE sock[d] = "taken"
      BY <3>2, NodeAssumption DEF PendingInv, Pending
    <3> QED
      BY <1>1, <3>1, <3>2
  <2> QED
    BY <2>1, <2>2 DEF Halted
<1>2. sock[c] \in {"sent", "taken"} /\ c \in Caller
  BY DEF Halted, IInv, TypeOK, Caller
<1> DEFINE S == {n \in Node : Blocked(n)}
<1>3. S \in (SUBSET Node) \ {{}}
  <2>1. call[c].to \in S
    BY <1>1, <1>2
  <2>2. S \subseteq Node
    OBVIOUS
  <2> QED
    BY <2>1, <2>2
<1>4. \A n \in S : Blocked(n) /\ call[n].to \in S
  <2> SUFFICES ASSUME NEW n \in Node, Blocked(n)
               PROVE  call[n].to \in Node /\ Blocked(call[n].to)
    OBVIOUS
  <2> QED
    BY <1>1 DEF Blocked, Caller
<1> HIDE DEF S
<1> QED
  BY <1>3, <1>4 DEF WaitCycle

\* No command is dropped and no answer forgotten, in any ring and with any number
\* of clients: a DHT stops with a client waiting only when execution loops are
\* blocked in calls to each other.
THEOREM HaltsOnlyInCycle == Spec => []HaltOnlyInCycle
<1>1. Init => PendingInv
  BY DEF Init, PendingInv, Pending
<1>2. IInv /\ PendingInv /\ [Next]_vars => PendingInv'
  BY PendingNext
<1>3. IInv /\ PendingInv => HaltOnlyInCycle
  BY HaltedInCycle
<1> QED
  BY <1>1, <1>2, <1>3, Invariance, PTL DEF Spec
=============================================================================
