------------------------ MODULE ClientSessionProofs -------------------------
(***************************************************************************)
(* The two ends of a connection agree on what comes next, the commands of  *)
(* a client do not overlap, and a death spreads only along open commands:  *)
(* for every set of clients, servers and lines, and any number of faults.  *)
(*                                                                         *)
(* The invariant says of one connection how far both ends are (ConnOK),    *)
(* and a step changes few connections: that of the client or of the thread *)
(* that takes it, or all those of a process that ends.                     *)
(*                                                                         *)
(* What both programs make of a line (TypedLines) comes after that.        *)
(***************************************************************************)
EXTENDS ClientSession, TypedLines, SequenceTheorems, FiniteSetTheorems,
        WellFoundedInduction, TLAPS

\* The places of a client that is at a connection.
Places == {"prompt", "send", "upload", "response", "count", "download"}

\* Client c is past k: it takes nothing more from it and sends nothing more over it.
Past(k) == k[2] < turn[k[1]] \/ (k[2] = turn[k[1]] /\ pc[k[1]] = "connect")

\* The files of k that are still to be sent, by the client and by the thread.
ToSend(k) == IF Doing(k, {"upload"}) THEN todo[k[1]] ELSE 0

Owed(k) == IF far[k] = "files" THEN left[k] ELSE 0

\* A connection before its line is read, and after.
Opened(k) ==
    IF k[2] <= turn[k[1]]
    THEN at[k] \in Server /\ near[k] # "none" /\ far[k] # "none"
    ELSE /\ at[k] = None /\ near[k] = "none" /\ far[k] = "none" /\ cmd[k] = None
         /\ up[k] = <<>> /\ down[k] = <<>> /\ k \notin cut

\* A line that is sent is a command, not the exit.
Commanded(k) ==
    /\ Doing(k, {"prompt"}) => cmd[k] = None
    /\ Doing(k, {"send", "upload", "response", "count", "download"}) => cmd[k] # None
    /\ (up[k] # <<>> \/ far[k] \in {"upload", "execute", "response", "count", "files"})
          => cmd[k] # None
    /\ cmd[k] # None => (cmd[k] \in Line /\ ~Reading[cmd[k]].refused)
    /\ (Doing(k, {"upload"}) \/ far[k] = "upload") => Op(k) = "add"
    /\ (Doing(k, {"count", "download"}) \/ far[k] \in {"count", "files"}) => Op(k) = "get"

\* What is under way to the thread: nothing, or the command and then files, or files.
Upward(k) ==
    /\ far[k] \notin {"backlog", "recv", "upload"} => up[k] = <<>>
    /\ (far[k] \in {"backlog", "recv"} /\ up[k] # <<>>) =>
          /\ up[k][1] = "command"
          /\ \A i \in 2 .. Len(up[k]) : up[k][i] = "file"
          /\ Len(up[k]) - 1 + ToSend(k) <= Files(k)
          /\ (Op(k) = "add" /\ Sound(k)) => Len(up[k]) - 1 + ToSend(k) = Files(k)
    /\ far[k] = "upload" =>
          /\ \A i \in 1 .. Len(up[k]) : up[k][i] = "file"
          /\ left[k] >= 1
          /\ Len(up[k]) + ToSend(k) <= left[k]
          /\ Sound(k) => Len(up[k]) + ToSend(k) = left[k]
    /\ Doing(k, {"prompt", "send"}) =>
          (up[k] = <<>> /\ far[k] \in {"backlog", "recv", "ended", "gone"})
    /\ Doing(k, {"upload"}) =>
          /\ todo[k[1]] >= 1
          /\ far[k] \in {"backlog", "recv", "upload", "ended", "gone"}
          /\ (far[k] \in {"backlog", "recv"} /\ k \notin cut) => up[k] # <<>>

\* The thread has begun to answer.
Answered(k) == far[k] \in {"count", "files", "recv", "ended", "gone"} /\ up[k] = <<>>

\* What is under way to the client: the response, the number of files, and the files.
Downward(k) ==
    /\ down[k] # <<>> => (Answered(k) /\ near[k] = "open")
    /\ Doing(k, {"prompt", "send", "upload"}) => down[k] = <<>>
    /\ Doing(k, {"response"}) =>
          /\ down[k] # <<>> => down[k][1].kind = "response"
          /\ Len(down[k]) > 1 =>
                /\ Op(k) = "get" /\ far[k] # "count"
                /\ down[k][2].kind = "count" /\ Len(down[k]) - 2 + Owed(k) <= down[k][2].n
          /\ \A i \in 3 .. Len(down[k]) : down[k][i].kind = "pair"
          /\ k \notin cut => /\ far[k] = "count" => Len(down[k]) = 1
                             /\ far[k] = "files" => Len(down[k]) > 1
    /\ Doing(k, {"count"}) =>
          /\ Answered(k)
          /\ down[k] # <<>> =>
                /\ far[k] # "count"
                /\ down[k][1].kind = "count" /\ Len(down[k]) - 1 + Owed(k) <= down[k][1].n
          /\ \A i \in 2 .. Len(down[k]) : down[k][i].kind = "pair"
          /\ (k \notin cut /\ far[k] = "files") => down[k] # <<>>
    /\ Doing(k, {"download"}) =>
          /\ Answered(k) /\ far[k] # "count"
          /\ \A i \in 1 .. Len(down[k]) : down[k][i].kind = "pair"
          /\ Len(down[k]) + Owed(k) <= todo[k[1]] /\ todo[k[1]] >= 1
    /\ far[k] \in {"response", "count"} => left[k] <= Found
    /\ far[k] = "files" => left[k] >= 1

\* What is over: the client has closed its end, has left the connection behind, or
\* the thread has ended.
Ended(k) ==
    /\ Doing(k, Places) => near[k] = "open"
    /\ near[k] = "closed" =>
          \/ pc[k[1]] = "dead"
          \/ (far[k] \in {"recv", "ended", "gone"} /\ up[k] = <<>>)
    /\ (Past(k) /\ k \notin cut) =>
          /\ ~Working(k)
          /\ far[k] \in {"backlog", "recv"} => up[k] = <<>>
    /\ far[k] = "ended" => (near[k] = "closed" \/ k \in cut)

Busy(c) == pc[c] \notin {"connect", "dead"} => turn[c] >= 1 /\ fds[c] >= 1

ConnOK(k) == Opened(k) /\ Commanded(k) /\ Upward(k) /\ Downward(k) /\ Ended(k)

IInv ==
    /\ TypeOK
    /\ IsFiniteSet(cut)
    /\ \A c \in Client : Busy(c)
    /\ \A k \in Conn : ConnOK(k)

-----------------------------------------------------------------------------
(* Names of connections, lines, files *)

\* A connection is the client and the number of one of its lines.
LEMMA ConnNames ==
    /\ \A k \in Conn :
          /\ k[1] \in Client /\ k[2] \in 1 .. Turns(k[1])
          /\ k[2] \in Nat /\ k[2] >= 1 /\ k[2] <= Turns(k[1])
          /\ k = <<k[1], k[2]>>
    /\ \A c \in Client : \A t \in 1 .. Turns(c) : <<c, t>> \in Conn
    /\ \A c \in Client : Turns(c) \in Nat
<1>1. \A c \in Client : Turns(c) \in Nat
  BY ScriptAssumption, LenProperties DEF Turns
<1>2. ASSUME NEW k \in Conn
      PROVE  \E c \in Client : \E t \in 1 .. Turns(c) : k = <<c, t>>
  BY DEF Conn
<1>3. ASSUME NEW c \in Client, NEW t \in 1 .. Turns(c)
      PROVE  <<c, t>> \in Conn
  BY DEF Conn
<1> QED BY <1>1, <1>2, <1>3

\* What a client types is a line.
LEMMA TypedIsLine ==
    ASSUME TypeOK, NEW c \in Client, NEW l \in Typed(c)
    PROVE  l \in Line
<1>1. turn[c] \in Nat /\ turn[c] # 0 /\ turn[c] <= Turns(c) /\ l \in Script[c][turn[c]]
  BY DEF TypeOK, Typed
<1>2. turn[c] \in 1 .. Len(Script[c]) /\ Script[c] \in Seq(SUBSET Seq(STRING))
  BY <1>1, ScriptAssumption DEF Turns
<1>3. Script[c][turn[c]] \in ToSet(Script[c])
  BY <1>2, LenProperties DEF ToSet
<1> QED BY <1>1, <1>3 DEF Line

\* A list that is accepted has a name at least, and a list of files counts only
\* for an add.
LEMMA ReadingFiles ==
    ASSUME NEW l \in Line
    PROVE  /\ Reading[l].files \in Nat
           /\ Reading[l].op = "add" /\ ~Reading[l].refused => Reading[l].files >= 1
           /\ Reading[l].op # "add" => Reading[l].files = 0
<1> DEFINE tk == Tokens(l)
           end == CloseFrom(tk, 3)
<1>1. /\ Reading[l].op = OpOf(tk)
      /\ Reading[l].refused = Refused(tk)
      /\ Reading[l].files = IF OpOf(tk) = "add" /\ IsMessageCorrect(tk)
                            THEN Len(FirstList(tk)) ELSE 0
  BY DEF Reading
<1> HIDE DEF tk
<1>2. ASSUME OpOf(tk) = "add", IsMessageCorrect(tk)
      PROVE  Len(FirstList(tk)) \in Nat /\ Len(FirstList(tk)) >= 1
  <2>1. IsTokenList(tk, 2) # NotAList
    BY <1>2 DEF IsMessageCorrect, QueryOp, PairOp
  <2>2. end \in Int /\ end >= 4
    BY <2>1 DEF IsTokenList
  <2> HIDE DEF end
  <2>3. FirstList(tk) = SubSeq(tk, 3, end - 1)
    BY DEF FirstList, NamesFrom, end
  <2>4. Len(SubSeq(tk, 3, end - 1)) = end - 3
    <3> DEFINE S == {tk[i] : i \in 3 .. end - 1}
    <3>1. \A i \in 3 .. end - 1 : tk[i] \in S  OBVIOUS
    <3> HIDE DEF S
    <3>2. end - 1 \in Int /\ 3 \in Int /\ 3 <= end - 1 /\ (end - 1) - 3 + 1 = end - 3
      BY <2>2
    <3> QED BY <3>1, <3>2, SubSeqProperties
  <2> QED BY <2>2, <2>3, <2>4
<1>3. ~Refused(tk) => IsMessageCorrect(tk)  BY DEF Refused
<1> QED BY <1>1, <1>2, <1>3

\* A stream of files has as many of them as it has messages.
LEMMA AllFiles ==
    ASSUME NEW s \in Seq(ToServer), \A i \in 1 .. Len(s) : s[i] = "file"
    PROVE  FilesIn(s) = Len(s)
<1>1. Len(s) \in Nat /\ DOMAIN s = 1 .. Len(s)  BY LenProperties
<1>2. {i \in DOMAIN s : s[i] = "file"} = 1 .. Len(s)  BY <1>1
<1>3. Cardinality(1 .. Len(s)) = Len(s)  BY <1>1, FS_Interval
<1> QED BY <1>2, <1>3 DEF FilesIn

-----------------------------------------------------------------------------
(* Connections a step leaves alone *)

\* Nothing of connection k itself changes.
Still(k) ==
    /\ at'[k] = at[k] /\ near'[k] = near[k] /\ far'[k] = far[k] /\ cmd'[k] = cmd[k]
    /\ left'[k] = left[k] /\ up'[k] = up[k] /\ down'[k] = down[k]
    /\ k \in cut' <=> k \in cut

\* Its client is not at k, before the step and after it.
Aside(k) == ~Doing(k, Places) /\ ~Doing(k, Places)'

\* Neither k nor its client changes.
LEMMA StillConn ==
    ASSUME NEW k \in Conn, ConnOK(k), Still(k),
           pc'[k[1]] = pc[k[1]], turn'[k[1]] = turn[k[1]], todo'[k[1]] = todo[k[1]]
    PROVE  ConnOK(k)'
<1>1. Current(k[1])' = Current(k[1])  BY DEF Current
<1>2. (Op(k)' = Op(k)) /\ (Files(k)' = Files(k))  BY DEF Op, Files, Still
<1>3. (Sound(k)' <=> Sound(k)) /\ (Past(k)' <=> Past(k)) /\ (Working(k)' <=> Working(k))
      /\ (Answered(k)' <=> Answered(k)) /\ (Owed(k)' = Owed(k)) /\ (ToSend(k)' = ToSend(k))
  BY <1>1 DEF Sound, Past, Working, Answered, Owed, ToSend, Still, Doing
<1>4. Opened(k)'  BY DEF ConnOK, Opened, Still
<1>5. Commanded(k)'  BY <1>1, <1>2 DEF ConnOK, Commanded, Still, Doing
<1>6. Upward(k)'  BY <1>1, <1>2, <1>3 DEF ConnOK, Upward, Still, Doing
<1>7. Downward(k)'  BY <1>1, <1>2, <1>3 DEF ConnOK, Downward, Still, Doing
<1>8. Ended(k)'  BY <1>1, <1>3 DEF ConnOK, Ended, Still, Doing
<1> QED BY <1>4, <1>5, <1>6, <1>7, <1>8 DEF ConnOK

\* k does not change, and its client is at another connection.
LEMMA AsideConn ==
    ASSUME NEW k \in Conn, ConnOK(k), Still(k), Aside(k),
           (k[2] <= turn'[k[1]]) <=> (k[2] <= turn[k[1]]),
           Past(k)' => Past(k),
           pc[k[1]] = "dead" => pc'[k[1]] = "dead"
    PROVE  ConnOK(k)'
<1>2. (Op(k)' = Op(k)) /\ (Files(k)' = Files(k))  BY DEF Op, Files, Still
<1>3. (Sound(k)' <=> Sound(k)) /\ (Working(k)' <=> Working(k))
      /\ (Answered(k)' <=> Answered(k)) /\ (Owed(k)' = Owed(k)) /\ (ToSend(k)' = ToSend(k))
  BY DEF Sound, Working, Answered, Owed, ToSend, Still, Aside, Doing, Places
<1>4. Opened(k)'  BY DEF ConnOK, Opened, Still
<1>5. Commanded(k)'  BY <1>2 DEF ConnOK, Commanded, Still, Aside, Doing, Places
<1>6. Upward(k)'  BY <1>2, <1>3 DEF ConnOK, Upward, Still, Aside, Doing, Places
<1>7. Downward(k)'  BY <1>2, <1>3 DEF ConnOK, Downward, Still, Aside, Doing, Places
<1>8. Ended(k)'  BY <1>3 DEF ConnOK, Ended, Still, Aside, Doing, Places
<1> QED BY <1>4, <1>5, <1>6, <1>7, <1>8 DEF ConnOK

-----------------------------------------------------------------------------
(* What the invariant gives, and where it starts *)

LEMMA InitOK == Init => IInv
<1> SUFFICES ASSUME Init PROVE IInv  OBVIOUS
<1>1. TypeOK
  <2>1. \A c \in Client : 0 <= Turns(c)  BY ConnNames
  <2>2. 1 \in DOMAIN ServerIps  BY IpsAssumption, EmptySeq, LenProperties
  <2>3. Cardinality({}) = 0  BY FS_EmptySet
  <2>4. <<>> \in Seq(ToServer) /\ <<>> \in Seq(ToClient)  BY EmptySeq
  <2> QED BY <2>1, <2>2, <2>3, <2>4, BoundAssumption DEF Init, TypeOK
<1>2. IsFiniteSet(cut)  BY FS_EmptySet DEF Init
<1>3. ASSUME NEW c \in Client PROVE Busy(c)  BY DEF Init, Busy
<1>4. ASSUME NEW k \in Conn PROVE ConnOK(k)
  <2>1. pc[k[1]] = "connect" /\ turn[k[1]] = 0 /\ ~(k[2] <= turn[k[1]])
        /\ at[k] = None /\ near[k] = "none" /\ far[k] = "none" /\ cmd[k] = None
        /\ up[k] = <<>> /\ down[k] = <<>> /\ k \notin cut /\ left[k] = 0
    BY ConnNames DEF Init
  <2>2. ~Past(k)  BY <2>1, ConnNames DEF Past
  <2>3. \A ps : Doing(k, ps) => "connect" \in ps  BY <2>1 DEF Doing
  <2>4. Opened(k)  BY <2>1 DEF Opened
  <2>5. Commanded(k)  BY <2>1, <2>3 DEF Commanded
  <2>6. Upward(k)  BY <2>1, <2>3 DEF Upward
  <2>7. Downward(k)  BY <2>1, <2>3 DEF Downward
  <2>8. Ended(k)  BY <2>1, <2>2, <2>3 DEF Ended, Places
  <2> QED BY <2>4, <2>5, <2>6, <2>7, <2>8 DEF ConnOK
<1> QED BY <1>1, <1>2, <1>3, <1>4 DEF IInv

LEMMA InSync == IInv => StreamsInSync
<1> SUFFICES ASSUME IInv, NEW k \in Conn
             PROVE  /\ up[k] # <<>> =>
                          /\ far[k] = "recv" => Head(up[k]) = "command"
                          /\ far[k] = "upload" => Head(up[k]) = "file"
                          /\ far[k] \in {"backlog", "recv", "upload"}
                    /\ far[k] = "upload" /\ Sound(k) =>
                          left[k] = FilesIn(up[k])
                                  + (IF Doing(k, {"upload"}) THEN todo[k[1]] ELSE 0)
                    /\ down[k] # <<>> /\ Doing(k, {"response", "count", "download"}) =>
                          Head(down[k]).kind =
                              CASE pc[k[1]] = "response" -> "response"
                                [] pc[k[1]] = "count"    -> "count"
                                [] pc[k[1]] = "download" -> "pair"
  BY DEF StreamsInSync
<1>1. up[k] \in Seq(ToServer) /\ down[k] \in Seq(ToClient)  BY DEF IInv, TypeOK
<1>2. Upward(k) /\ Downward(k)  BY DEF IInv, ConnOK
<1>3. up[k] # <<>> => (Len(up[k]) \in Nat \ {0} /\ Head(up[k]) = up[k][1])
  BY <1>1, EmptySeq
<1>4. down[k] # <<>> => (Len(down[k]) \in Nat \ {0} /\ Head(down[k]) = down[k][1])
  BY <1>1, EmptySeq
<1>5. ASSUME up[k] # <<>>
      PROVE  /\ far[k] = "recv" => Head(up[k]) = "command"
             /\ far[k] = "upload" => Head(up[k]) = "file"
             /\ far[k] \in {"backlog", "recv", "upload"}
  BY <1>2, <1>3, <1>5 DEF Upward
<1>6. ASSUME far[k] = "upload", Sound(k)
      PROVE  left[k] = FilesIn(up[k]) + (IF Doing(k, {"upload"}) THEN todo[k[1]] ELSE 0)
  <2>1. \A i \in 1 .. Len(up[k]) : up[k][i] = "file"  BY <1>2, <1>6 DEF Upward
  <2>2. FilesIn(up[k]) = Len(up[k])  BY <1>1, <2>1, AllFiles
  <2>3. Len(up[k]) + ToSend(k) = left[k]  BY <1>2, <1>6 DEF Upward
  <2> QED BY <2>2, <2>3 DEF ToSend
<1>7. ASSUME down[k] # <<>>, Doing(k, {"response", "count", "download"})
      PROVE  Head(down[k]).kind = CASE pc[k[1]] = "response" -> "response"
                                    [] pc[k[1]] = "count"    -> "count"
                                    [] pc[k[1]] = "download" -> "pair"
  <2>1. CASE pc[k[1]] = "response"
    <3>1. Doing(k, {"response"})  BY <1>7, <2>1 DEF Doing
    <3> QED BY <1>2, <1>4, <1>7, <2>1, <3>1 DEF Downward
  <2>2. CASE pc[k[1]] = "count"
    <3>1. Doing(k, {"count"})  BY <1>7, <2>2 DEF Doing
    <3> QED BY <1>2, <1>4, <1>7, <2>2, <3>1 DEF Downward
  <2>3. CASE pc[k[1]] = "download"
    <3>1. Doing(k, {"download"})  BY <1>7, <2>3 DEF Doing
    <3> QED BY <1>2, <1>4, <1>7, <2>3, <3>1 DEF Downward
  <2> QED BY <1>7, <2>1, <2>2, <2>3 DEF Doing
<1> QED BY <1>5, <1>6, <1>7

\* A thread that works on a connection the client has left has lost its link.
LEMMA NoOverlap == IInv => OneAtATime
<1> SUFFICES ASSUME IInv, NEW c \in Client, NEW t \in 1 .. Turns(c), NEW u \in 1 .. Turns(c),
                    t < u, Working(<<c, t>>), Working(<<c, u>>)
             PROVE  <<c, t>> \in cut
  BY DEF OneAtATime
<1>1. <<c, t>> \in Conn /\ <<c, u>> \in Conn  BY ConnNames
<1>2. <<c, t>>[1] = c /\ <<c, t>>[2] = t /\ <<c, u>>[1] = c /\ <<c, u>>[2] = u  OBVIOUS
<1>3. Opened(<<c, u>>) /\ Ended(<<c, t>>)  BY <1>1 DEF IInv, ConnOK
<1>4. u <= turn[c]  BY <1>2, <1>3 DEF Opened, Working
<1>5. t \in Nat /\ u \in Nat /\ turn[c] \in Nat
  BY ConnNames DEF IInv, TypeOK
<1>6. Past(<<c, t>>)  BY <1>2, <1>4, <1>5 DEF Past
<1> QED BY <1>3, <1>6 DEF Ended

-----------------------------------------------------------------------------
(* The steps of a thread *)

\* A step of the thread of k changes no other connection.
LEMMA OneThread ==
    ASSUME IInv, NEW k \in Conn, Thread(k),
           \A j \in Conn \ {k} :
               far'[j] = far[j] /\ left'[j] = left[j] /\ up'[j] = up[j] /\ down'[j] = down[j],
           TypeOK', ConnOK(k)'
    PROVE  IInv'
<1>1. UNCHANGED <<pc, turn, ip, fds, todo, at, near, cmd, cut, deaths>>
  BY DEF Thread, clientVars, faultVars
<1>2. IsFiniteSet(cut')  BY <1>1 DEF IInv
<1>3. ASSUME NEW c \in Client PROVE Busy(c)'  BY <1>1 DEF IInv, Busy
<1>4. ASSUME NEW j \in Conn PROVE ConnOK(j)'
  <2>1. CASE j = k  BY <2>1
  <2>2. CASE j # k
    <3>1. Still(j)  BY <1>1, <2>2 DEF Still
    <3>2. ConnOK(j)  BY DEF IInv
    <3> QED BY <1>1, <3>1, <3>2, StillConn
  <2> QED BY <2>1, <2>2
<1> QED BY <1>2, <1>3, <1>4 DEF IInv

LEMMA AcceptOK ==
    ASSUME IInv, NEW k \in Conn, Accept(k)
    PROVE  IInv'
<1>1. UNCHANGED <<pc, turn, ip, fds, todo, at, near, cmd, cut, deaths, alive, left, up, down>>
  BY DEF Accept, Thread, clientVars, faultVars
<1>2. far[k] = "backlog" /\ far'[k] = "recv" /\ (\A j \in Conn \ {k} : far'[j] = far[j])
  BY DEF Accept, IInv, TypeOK
<1>3. ConnOK(k)  BY DEF IInv
<1>4. TypeOK'
  <2>1. at[k] \in Server  BY <1>2, <1>3 DEF ConnOK, Opened
  <2>2. used' \in [Server -> 0 .. ServerFds]
    BY <2>1, BoundAssumption DEF Accept, IInv, TypeOK
  <2>3. far' \in [Conn -> {"none", "backlog", "recv", "upload", "execute",
                           "response", "count", "files", "ended", "gone"}]
    BY DEF Accept, IInv, TypeOK
  <2> QED BY <1>1, <2>2, <2>3 DEF IInv, TypeOK
<1>5. Opened(k)'  BY <1>1, <1>2, <1>3 DEF ConnOK, Opened
<1>6. Commanded(k)'  BY <1>1, <1>2, <1>3 DEF ConnOK, Commanded, Doing, Current, Op, Files
<1>7. Upward(k)'
  BY <1>1, <1>2, <1>3 DEF ConnOK, Upward, Doing, Current, Op, Files, Sound, ToSend
<1>8. Downward(k)'
  BY <1>1, <1>2, <1>3 DEF ConnOK, Downward, Doing, Current, Op, Answered, Owed
<1>9. Ended(k)'
  BY <1>1, <1>2, <1>3 DEF ConnOK, Ended, Doing, Current, Past, Working
<1> QED BY <1>1, <1>2, <1>4, <1>5, <1>6, <1>7, <1>8, <1>9, OneThread DEF ConnOK, Accept

LEMMA TakeCommandOK ==
    ASSUME IInv, NEW k \in Conn, TakeCommand(k)
    PROVE  IInv'
<1>1. UNCHANGED <<pc, turn, ip, fds, todo, at, near, cmd, cut, deaths, alive, used, down>>
  BY DEF TakeCommand, Thread, clientVars, faultVars
<1>2. /\ far[k] = "recv" /\ up[k] # <<>>
      /\ far'[k] = IF Op(k) = "add" THEN "upload" ELSE "execute"
      /\ left'[k] = IF Op(k) = "add" THEN Files(k) ELSE 0
      /\ up'[k] = Tail(up[k])
      /\ \A j \in Conn \ {k} : far'[j] = far[j] /\ left'[j] = left[j] /\ up'[j] = up[j]
  BY DEF TakeCommand, IInv, TypeOK
<1>3. ConnOK(k)  BY DEF IInv
<1>4. cmd[k] \in Line /\ ~Reading[cmd[k]].refused  BY <1>2, <1>3 DEF ConnOK, Commanded
<1>5. /\ Files(k) \in Nat
      /\ Op(k) = "add" => Files(k) >= 1
      /\ Op(k) # "add" => Files(k) = 0
  BY <1>4, ReadingFiles DEF Op, Files
<1>6. up[k] \in Seq(ToServer) /\ Len(up[k]) \in Nat /\ Len(up[k]) >= 1
      /\ up'[k] \in Seq(ToServer) /\ Len(up'[k]) = Len(up[k]) - 1
      /\ \A i \in 1 .. Len(up'[k]) : up'[k][i] = up[k][i + 1]
  BY <1>2, EmptySeq, HeadTailProperties DEF IInv, TypeOK
<1>7. TypeOK'
  <2>1. far' \in [Conn -> {"none", "backlog", "recv", "upload", "execute",
                           "response", "count", "files", "ended", "gone"}]
        /\ left' \in [Conn -> Nat]
    BY <1>5 DEF TakeCommand, IInv, TypeOK
  <2>2. up' \in [Conn -> Seq(ToServer)]
    BY <1>2, <1>6 DEF TakeCommand, IInv, TypeOK
  <2> QED BY <1>1, <2>1, <2>2 DEF IInv, TypeOK
<1>8. ToSend(k)' = ToSend(k) /\ ToSend(k) \in Nat
  BY <1>1, ConnNames DEF ToSend, Doing, Current, IInv, TypeOK
<1>9. Sound(k)' <=> Sound(k)  BY <1>1, <1>2 DEF Sound
<1>10. /\ up[k][1] = "command"
       /\ \A i \in 2 .. Len(up[k]) : up[k][i] = "file"
       /\ Len(up[k]) - 1 + ToSend(k) <= Files(k)
       /\ (Op(k) = "add" /\ Sound(k)) => Len(up[k]) - 1 + ToSend(k) = Files(k)
  BY <1>2, <1>3 DEF ConnOK, Upward
<1>11. \A i \in 1 .. Len(up'[k]) : up'[k][i] = "file"
  <2>1. SUFFICES ASSUME NEW i \in 1 .. Len(up'[k]) PROVE up'[k][i] = "file"
    OBVIOUS
  <2>2. up'[k][i] = up[k][i + 1]  BY <1>6
  <2>3. i + 1 \in 2 .. Len(up[k])
    <3>1. Len(up[k]) \in Nat /\ Len(up'[k]) = Len(up[k]) - 1  BY <1>6
    <3> QED BY <3>1
  <2> QED BY <1>10, <2>2, <2>3
<1>12. Op(k) # "add" => up'[k] = <<>>  BY <1>5, <1>6, <1>8, <1>10, EmptySeq
<1>13. ~Doing(k, {"prompt", "send"}) /\ down[k] = <<>>
       /\ ~Doing(k, {"count", "download"})
  BY <1>2, <1>3 DEF ConnOK, Upward, Downward, Answered, Doing
<1>14. Opened(k)'  BY <1>1, <1>2, <1>3 DEF ConnOK, Opened
<1>15. Commanded(k)'
  BY <1>1, <1>2, <1>3, <1>13 DEF ConnOK, Commanded, Doing, Current, Op, Files
<1>16. Upward(k)'
  <2>1. ~Doing(k, {"prompt", "send"})'  BY <1>1, <1>13 DEF Doing, Current
  <2>2. CASE Op(k) = "add"
    <3>1. far'[k] = "upload" /\ left'[k] = Files(k)  BY <1>2, <2>2
    <3>2. Sound(k)' => Len(up'[k]) + ToSend(k)' = left'[k]
      BY <1>6, <1>8, <1>9, <1>10, <2>2, <3>1
    <3>3. Len(up'[k]) + ToSend(k)' <= left'[k]  BY <1>6, <1>8, <1>10, <3>1
    <3>4. Doing(k, {"upload"})' => todo'[k[1]] >= 1
      BY <1>1, <1>3 DEF ConnOK, Upward, Doing, Current
    <3> QED BY <1>5, <1>11, <2>1, <2>2, <3>1, <3>2, <3>3, <3>4 DEF Upward
  <2>3. CASE Op(k) # "add"
    <3>1. far'[k] = "execute" /\ up'[k] = <<>>  BY <1>2, <1>12, <2>3
    <3>2. ~Doing(k, {"upload"})'
      BY <1>1, <1>3, <2>3 DEF ConnOK, Commanded, Doing, Current
    <3> QED BY <2>1, <3>1, <3>2 DEF Upward
  <2> QED BY <2>2, <2>3
<1>17. Downward(k)'
  BY <1>1, <1>2, <1>3, <1>13, EmptySeq DEF ConnOK, Downward, Doing, Current, Op, Answered, Owed
<1>18. Ended(k)'
  BY <1>1, <1>2, <1>3 DEF ConnOK, Ended, Doing, Current, Past, Working
<1> QED BY <1>1, <1>2, <1>7, <1>14, <1>15, <1>16, <1>17, <1>18, OneThread DEF ConnOK, TakeCommand

LEMMA TakeFileOK ==
    ASSUME IInv, NEW k \in Conn, TakeFile(k)
    PROVE  IInv'
<1>1. UNCHANGED <<pc, turn, ip, fds, todo, at, near, cmd, cut, deaths, alive, used, down>>
  BY DEF TakeFile, Thread, clientVars, faultVars
<1>2. /\ far[k] = "upload" /\ up[k] # <<>>
      /\ far'[k] = IF left[k] = 1 THEN "execute" ELSE "upload"
      /\ left'[k] = left[k] - 1
      /\ up'[k] = Tail(up[k])
      /\ \A j \in Conn \ {k} : far'[j] = far[j] /\ left'[j] = left[j] /\ up'[j] = up[j]
  BY DEF TakeFile, IInv, TypeOK
<1>3. ConnOK(k)  BY DEF IInv
<1>4. up[k] \in Seq(ToServer) /\ Len(up[k]) \in Nat /\ Len(up[k]) >= 1
      /\ up'[k] \in Seq(ToServer) /\ Len(up'[k]) = Len(up[k]) - 1
      /\ \A i \in 1 .. Len(up'[k]) : up'[k][i] = up[k][i + 1]
  BY <1>2, EmptySeq, HeadTailProperties DEF IInv, TypeOK
<1>5. left[k] \in Nat /\ left[k] >= 1  BY <1>2, <1>3 DEF ConnOK, Upward, IInv, TypeOK
<1>6. TypeOK'
  <2>1. far' \in [Conn -> {"none", "backlog", "recv", "upload", "execute",
                           "response", "count", "files", "ended", "gone"}]
        /\ left' \in [Conn -> Nat]
    BY <1>5 DEF TakeFile, IInv, TypeOK
  <2>2. up' \in [Conn -> Seq(ToServer)]
    BY <1>2, <1>4 DEF TakeFile, IInv, TypeOK
  <2> QED BY <1>1, <2>1, <2>2 DEF IInv, TypeOK
<1>7. ToSend(k)' = ToSend(k) /\ ToSend(k) \in Nat
  BY <1>1, ConnNames DEF ToSend, Doing, Current, IInv, TypeOK
<1>8. Sound(k)' <=> Sound(k)  BY <1>1, <1>2 DEF Sound
<1>9. /\ \A i \in 1 .. Len(up[k]) : up[k][i] = "file"
      /\ Len(up[k]) + ToSend(k) <= left[k]
      /\ Sound(k) => Len(up[k]) + ToSend(k) = left[k]
      /\ Doing(k, {"upload"}) => todo[k[1]] >= 1
  BY <1>2, <1>3 DEF ConnOK, Upward
<1>10. \A i \in 1 .. Len(up'[k]) : up'[k][i] = "file"  BY <1>4, <1>9
<1>11. left[k] = 1 => (up'[k] = <<>> /\ ToSend(k) = 0)
  BY <1>4, <1>5, <1>7, <1>9, EmptySeq
<1>12. ~Doing(k, {"prompt", "send"}) /\ down[k] = <<>> /\ ~Doing(k, {"count", "download"})
  BY <1>2, <1>3 DEF ConnOK, Upward, Downward, Answered, Doing
<1>13. Opened(k)'  BY <1>1, <1>2, <1>3 DEF ConnOK, Opened
<1>14. Commanded(k)'
  BY <1>1, <1>2, <1>3, <1>12 DEF ConnOK, Commanded, Doing, Current, Op, Files
<1>15. Upward(k)'
  <2>1. ~Doing(k, {"prompt", "send"})'  BY <1>1, <1>12 DEF Doing, Current
  <2>2. CASE left[k] = 1
    <3>1. far'[k] = "execute" /\ up'[k] = <<>>  BY <1>2, <1>11, <2>2
    <3>2. ~Doing(k, {"upload"})'
      BY <1>1, <1>9, <1>11, <2>2 DEF ToSend, Doing, Current
    <3> QED BY <2>1, <3>1, <3>2 DEF Upward
  <2>3. CASE left[k] # 1
    <3>1. far'[k] = "upload" /\ left'[k] = left[k] - 1 /\ left'[k] >= 1
      BY <1>2, <1>5, <2>3
    <3>2. Sound(k)' => Len(up'[k]) + ToSend(k)' = left'[k]
      BY <1>4, <1>5, <1>7, <1>8, <1>9, <3>1
    <3>3. Len(up'[k]) + ToSend(k)' <= left'[k]  BY <1>4, <1>5, <1>7, <1>9, <3>1
    <3>4. Doing(k, {"upload"})' => todo'[k[1]] >= 1  BY <1>1, <1>9 DEF Doing, Current
    <3> QED BY <1>10, <2>1, <3>1, <3>2, <3>3, <3>4 DEF Upward
  <2> QED BY <2>2, <2>3
<1>16. Downward(k)'
  BY <1>1, <1>2, <1>3, <1>12, EmptySeq DEF ConnOK, Downward, Doing, Current, Op, Answered, Owed
<1>17. Ended(k)'
  BY <1>1, <1>2, <1>3 DEF ConnOK, Ended, Doing, Current, Past, Working
<1> QED BY <1>1, <1>2, <1>6, <1>13, <1>14, <1>15, <1>16, <1>17, OneThread DEF ConnOK, TakeFile

LEMMA ThreadFailsOK ==
    ASSUME IInv, NEW k \in Conn, ThreadFails(k)
    PROVE  IInv'
<1>1. UNCHANGED <<pc, turn, ip, fds, todo, at, near, cmd, cut, deaths, alive, used, down>>
  BY DEF ThreadFails, Thread, clientVars, faultVars
<1>2. /\ far[k] \in {"recv", "upload"} /\ (near[k] = "closed" \/ k \in cut)
      /\ far'[k] = "ended" /\ left'[k] = 0 /\ up'[k] = <<>>
      /\ \A j \in Conn \ {k} : far'[j] = far[j] /\ left'[j] = left[j] /\ up'[j] = up[j]
  BY DEF ThreadFails, ClientGone, IInv, TypeOK
<1>3. ConnOK(k)  BY DEF IInv
<1>4. TypeOK'
  <2>1. <<>> \in Seq(ToServer)  BY EmptySeq
  <2>2. /\ far' \in [Conn -> {"none", "backlog", "recv", "upload", "execute",
                              "response", "count", "files", "ended", "gone"}]
        /\ left' \in [Conn -> Nat] /\ up' \in [Conn -> Seq(ToServer)]
    BY <2>1 DEF ThreadFails, IInv, TypeOK
  <2> QED BY <1>1, <2>2 DEF IInv, TypeOK
<1>5. Opened(k)'  BY <1>1, <1>2, <1>3 DEF ConnOK, Opened
<1>6. Commanded(k)'  BY <1>1, <1>2, <1>3 DEF ConnOK, Commanded, Doing, Current, Op, Files
<1>7. Upward(k)'
  BY <1>1, <1>2, <1>3 DEF ConnOK, Upward, Doing, Current, Sound, ToSend
<1>8. Downward(k)'
  BY <1>1, <1>2, <1>3 DEF ConnOK, Downward, Doing, Current, Op, Answered, Owed
<1>9. Ended(k)'
  BY <1>1, <1>2, <1>3 DEF ConnOK, Ended, Doing, Current, Past, Working
<1> QED BY <1>1, <1>2, <1>4, <1>5, <1>6, <1>7, <1>8, <1>9, OneThread DEF ConnOK, ThreadFails

LEMMA ExecuteOK ==
    ASSUME IInv, NEW k \in Conn, Execute(k)
    PROVE  IInv'
<1>1. UNCHANGED <<pc, turn, ip, fds, todo, at, near, cmd, cut, deaths, alive, up, down>>
  BY DEF Execute, Thread, clientVars, faultVars
<1>2. PICK n \in 0 .. Found : left' = [left EXCEPT ![k] = IF Op(k) = "get" THEN n ELSE 0]
  BY DEF Execute
<1>3. /\ far[k] = "execute" /\ far'[k] = "response"
      /\ left'[k] \in Nat /\ left'[k] <= Found
      /\ \A j \in Conn \ {k} : far'[j] = far[j] /\ left'[j] = left[j]
  BY <1>2, BoundAssumption DEF Execute, IInv, TypeOK
<1>4. ConnOK(k)  BY DEF IInv
<1>5. TypeOK'
  <2>1. at[k] \in Server  BY <1>3, <1>4 DEF ConnOK, Opened
  <2>2. used' \in [Server -> 0 .. ServerFds]
    BY <2>1, BoundAssumption DEF Execute, IInv, TypeOK
  <2>3. far' \in [Conn -> {"none", "backlog", "recv", "upload", "execute",
                           "response", "count", "files", "ended", "gone"}]
        /\ left' \in [Conn -> Nat]
    BY <1>2, BoundAssumption DEF Execute, IInv, TypeOK
  <2> QED BY <1>1, <2>2, <2>3 DEF IInv, TypeOK
<1>6. Opened(k)'  BY <1>1, <1>3, <1>4 DEF ConnOK, Opened
<1>7. Commanded(k)'  BY <1>1, <1>3, <1>4 DEF ConnOK, Commanded, Doing, Current, Op, Files
<1>8. Upward(k)'
  BY <1>1, <1>3, <1>4 DEF ConnOK, Upward, Doing, Current, Sound, ToSend
<1>9. Downward(k)'
  BY <1>1, <1>3, <1>4 DEF ConnOK, Downward, Doing, Current, Op, Answered, Owed
<1>10. Ended(k)'
  BY <1>1, <1>3, <1>4 DEF ConnOK, Ended, Doing, Current, Past, Working
<1> QED BY <1>1, <1>3, <1>5, <1>6, <1>7, <1>8, <1>9, <1>10, OneThread DEF ConnOK, Execute

\* The numbers in messages.
LEMMA MessageNumbers ==
    ASSUME NEW s \in Seq(ToClient)
    PROVE  \A i \in 1 .. Len(s) : s[i].n \in Nat /\ s[i].n <= Found
<1> SUFFICES ASSUME NEW i \in 1 .. Len(s) PROVE s[i].n \in Nat /\ s[i].n <= Found
  OBVIOUS
<1>1. s[i] \in ToClient  BY ElementOfSeq
<1>2. s[i].n \in 0 .. Found  BY <1>1 DEF ToClient
<1> QED BY <1>2, BoundAssumption

\* A thread that stops answering owes nothing more.
LEMMA OwesNothing ==
    ASSUME IInv, NEW k \in Conn,
           UNCHANGED <<pc, turn, todo, near, cmd, down, cut>>,
           far'[k] \in {"recv", "gone"}, up'[k] = <<>>
    PROVE  Downward(k)'
<1>1. Downward(k)  BY DEF IInv, ConnOK
<1>2. /\ left[k] \in Nat /\ todo[k[1]] \in Nat
      /\ down[k] \in Seq(ToClient) /\ Len(down[k]) \in Nat
  BY ConnNames, LenProperties DEF IInv, TypeOK
<1>3. Answered(k)' /\ Owed(k)' = 0  BY DEF Answered, Owed
<1>4. Owed(k) \in Nat  BY <1>2 DEF Owed
<1>5. \A i \in 1 .. Len(down[k]) : down[k][i].n \in Nat  BY <1>2, MessageNumbers
<1>6. \A ps : Doing(k, ps)' <=> Doing(k, ps)  BY DEF Doing, Current
<1>7. Op(k)' = Op(k)  BY DEF Op
<1>8. ASSUME Doing(k, {"response"}), Len(down[k]) > 1
      PROVE  Len(down[k]) - 2 + 0 <= down[k][2].n
  <2>1. Len(down[k]) - 2 + Owed(k) <= down[k][2].n  BY <1>1, <1>8 DEF Downward
  <2>2. down[k][2].n \in Nat  BY <1>2, <1>5, <1>8
  <2> QED BY <1>2, <1>4, <2>1, <2>2
<1>9. ASSUME Doing(k, {"count"}), down[k] # <<>>
      PROVE  Len(down[k]) - 1 + 0 <= down[k][1].n
  <2>1. Len(down[k]) - 1 + Owed(k) <= down[k][1].n  BY <1>1, <1>9 DEF Downward
  <2>2. Len(down[k]) >= 1  BY <1>2, <1>9, EmptySeq
  <2>3. down[k][1].n \in Nat  BY <1>2, <1>5, <2>2
  <2> QED BY <1>2, <1>4, <2>1, <2>3
<1>10. Doing(k, {"download"}) => Len(down[k]) + 0 <= todo[k[1]]
  BY <1>1, <1>2, <1>4 DEF Downward
<1>11. /\ (down[k] # <<>> => near[k] = "open")'
       /\ (Doing(k, {"prompt", "send", "upload"}) => down[k] = <<>>)'
  BY <1>1, <1>6 DEF Downward
<1>12. (Doing(k, {"response"}) =>
          /\ down[k] # <<>> => down[k][1].kind = "response"
          /\ Len(down[k]) > 1 =>
                /\ Op(k) = "get" /\ far[k] # "count"
                /\ down[k][2].kind = "count" /\ Len(down[k]) - 2 + Owed(k) <= down[k][2].n
          /\ \A i \in 3 .. Len(down[k]) : down[k][i].kind = "pair")'
  BY <1>1, <1>3, <1>6, <1>7, <1>8 DEF Downward
<1>13. (Doing(k, {"count"}) =>
          /\ down[k] # <<>> =>
                /\ down[k][1].kind = "count" /\ Len(down[k]) - 1 + Owed(k) <= down[k][1].n
          /\ \A i \in 2 .. Len(down[k]) : down[k][i].kind = "pair")'
  BY <1>1, <1>3, <1>6, <1>9 DEF Downward
<1>14. (Doing(k, {"download"}) =>
          /\ \A i \in 1 .. Len(down[k]) : down[k][i].kind = "pair"
          /\ Len(down[k]) + Owed(k) <= todo[k[1]] /\ todo[k[1]] >= 1)'
  BY <1>1, <1>3, <1>6, <1>10 DEF Downward
<1> QED BY <1>3, <1>11, <1>12, <1>13, <1>14 DEF Downward

\* The end of a server ends its threads and leaves nothing under way to them.
LEMMA ServerEndsOK ==
    ASSUME IInv, NEW s \in Server, ServerEnds(s),
           UNCHANGED <<clientVars, at, near, cmd, left, down, cut>>,
           deaths' \in Nat, deaths' + Cardinality(cut') <= Faults
    PROVE  IInv'
<1>1. UNCHANGED <<pc, turn, ip, fds, todo, at, near, cmd, left, down, cut>>
  BY DEF clientVars
<1>2. TypeOK'
  <2>1. <<>> \in Seq(ToServer)  BY EmptySeq
  <2>2. /\ far' \in [Conn -> {"none", "backlog", "recv", "upload", "execute",
                              "response", "count", "files", "ended", "gone"}]
        /\ up' \in [Conn -> Seq(ToServer)]
        /\ alive' \in [Server -> BOOLEAN] /\ used' \in [Server -> 0 .. ServerFds]
    BY <2>1, BoundAssumption DEF ServerEnds, IInv, TypeOK
  <2> QED BY <1>1, <2>2 DEF IInv, TypeOK
<1>3. IsFiniteSet(cut')  BY <1>1 DEF IInv
<1>4. ASSUME NEW c \in Client PROVE Busy(c)'  BY <1>1 DEF IInv, Busy
<1>5. ASSUME NEW j \in Conn PROVE ConnOK(j)'
  <2>1. ConnOK(j)  BY DEF IInv
  <2>2. CASE at[j] # s
    <3>1. Still(j)  BY <1>1, <2>2 DEF Still, ServerEnds
    <3> QED BY <1>1, <2>1, <3>1, StillConn
  <2>3. CASE at[j] = s
    <3>1. far'[j] = "gone" /\ up'[j] = <<>>  BY <2>3 DEF ServerEnds
    <3>2. ~Sound(j)' /\ Owed(j)' = 0  BY <3>1 DEF Sound, Owed
    <3>3. Opened(j)'  BY <1>1, <2>1, <2>3, <3>1, NoneAssumption DEF ConnOK, Opened
    <3>4. Commanded(j)'  BY <1>1, <2>1, <3>1 DEF ConnOK, Commanded, Doing, Current, Op
    <3>5. Upward(j)'  BY <1>1, <2>1, <3>1 DEF ConnOK, Upward, Doing, Current
    <3>6. Downward(j)'  BY <1>1, <3>1, OwesNothing
    <3>7. Ended(j)'  BY <1>1, <2>1, <3>1 DEF ConnOK, Ended, Doing, Current, Past, Working
    <3> QED BY <3>3, <3>4, <3>5, <3>6, <3>7 DEF ConnOK
  <2> QED BY <2>2, <2>3
<1> QED BY <1>2, <1>3, <1>4, <1>5 DEF IInv

\* A send that fails: the thread waits for the next command.
LEMMA ReplyFails ==
    ASSUME IInv, NEW k \in Conn, Thread(k),
           far[k] \in {"response", "count", "files"},
           near[k] = "closed" \/ k \in cut,
           far' = [far EXCEPT ![k] = "recv"],
           left' = [left EXCEPT ![k] = 0],
           UNCHANGED <<alive, used, up, down>>
    PROVE  IInv'
<1>1. UNCHANGED <<pc, turn, ip, fds, todo, at, near, cmd, cut, deaths, alive, used, up, down>>
  BY DEF Thread, clientVars, faultVars
<1>2. /\ far'[k] = "recv" /\ left'[k] = 0
      /\ \A j \in Conn \ {k} : far'[j] = far[j] /\ left'[j] = left[j]
  BY DEF IInv, TypeOK
<1>3. ConnOK(k)  BY DEF IInv
<1>4. TypeOK'
  <2>1. /\ far' \in [Conn -> {"none", "backlog", "recv", "upload", "execute",
                              "response", "count", "files", "ended", "gone"}]
        /\ left' \in [Conn -> Nat]
    BY DEF IInv, TypeOK
  <2> QED BY <1>1, <2>1 DEF IInv, TypeOK
<1>5. up[k] = <<>>  BY <1>3 DEF ConnOK, Upward
<1>6. Opened(k)'  BY <1>1, <1>2, <1>3 DEF ConnOK, Opened
<1>7. Commanded(k)'
  BY <1>1, <1>2, <1>3, <1>5 DEF ConnOK, Commanded, Doing, Current, Op, Files
<1>8. Upward(k)'
  BY <1>1, <1>2, <1>3, <1>5 DEF ConnOK, Upward, Doing, Current, Sound, ToSend
<1>9. Downward(k)'  BY <1>1, <1>2, <1>5, OwesNothing
<1>10. Ended(k)'
  BY <1>1, <1>2, <1>3, <1>5 DEF ConnOK, Ended, Doing, Current, Past, Working
<1> QED BY <1>1, <1>2, <1>4, <1>6, <1>7, <1>8, <1>9, <1>10, OneThread DEF ConnOK

\* A send of the thread fails, ends the process, or goes through.
LEMMA ReplyCases ==
    ASSUME IInv, NEW k \in Conn, far[k] \in {"response", "count", "files"},
           NEW m, NEW next, Reply(k, m, next)
    PROVE  \/ IInv'
           \/ /\ Thread(k) /\ UNCHANGED <<alive, used, up>>
              /\ far' = [far EXCEPT ![k] = next]
              /\ left' = [left EXCEPT ![k] = IF m.kind = "pair" THEN @ - 1 ELSE @]
              /\ down' = Delivered(k, ClientGone(k), down, m)
<1>1. PICK o \in Outcomes(k, ClientGone(k)) :
           \/ /\ o = "error"
              /\ far' = [far EXCEPT ![k] = "recv"]
              /\ left' = [left EXCEPT ![k] = 0]
              /\ UNCHANGED <<alive, used, up, down>>
           \/ /\ o = "killed"
              /\ ServerEnds(at[k])
              /\ UNCHANGED <<left, down>>
           \/ /\ o = "ok"
              /\ far' = [far EXCEPT ![k] = next]
              /\ left' = [left EXCEPT ![k] = IF m.kind = "pair" THEN @ - 1 ELSE @]
              /\ down' = Delivered(k, ClientGone(k), down, m)
              /\ UNCHANGED <<alive, used, up>>
  BY DEF Reply
<1>2. Thread(k)  BY DEF Reply
<1>3. CASE o = "error"
  <2>1. near[k] = "closed" \/ k \in cut  BY <1>3 DEF Outcomes, ClientGone
  <2> QED BY <1>1, <1>2, <1>3, <2>1, ReplyFails
<1>4. CASE o = "killed"
  <2>1. at[k] \in Server  BY DEF IInv, ConnOK, Opened
  <2>2. ServerEnds(at[k]) /\ UNCHANGED <<clientVars, at, near, cmd, left, down, cut>>
    BY <1>1, <1>2, <1>4 DEF Thread, faultVars
  <2>3. deaths' \in Nat /\ deaths' + Cardinality(cut') <= Faults
    BY <1>2 DEF Thread, faultVars, IInv, TypeOK
  <2> QED BY <2>1, <2>2, <2>3, ServerEndsOK
<1>5. CASE o = "ok"  BY <1>1, <1>2, <1>5
<1> QED BY <1>1, <1>3, <1>4, <1>5

\* What arrives of a message, and where.
LEMMA Arrival ==
    ASSUME IInv, NEW k \in Conn, NEW m \in ToClient,
           down' = Delivered(k, ClientGone(k), down, m)
    PROVE  /\ down' \in [Conn -> Seq(ToClient)]
           /\ \A j \in Conn \ {k} : down'[j] = down[j]
           /\ near[k] = "closed" \/ k \in cut => down'[k] = down[k]
           /\ ~(near[k] = "closed" \/ k \in cut) =>
                 /\ down'[k] # <<>> /\ Len(down'[k]) = Len(down[k]) + 1
                 /\ down'[k][Len(down[k]) + 1] = m
                 /\ \A i \in 1 .. Len(down[k]) : down'[k][i] = down[k][i]
           /\ Len(down[k]) \in Nat /\ down[k] \in Seq(ToClient)
           /\ Len(down'[k]) \in Nat /\ down'[k] \in Seq(ToClient)
<1>1. down \in [Conn -> Seq(ToClient)] /\ down[k] \in Seq(ToClient)
  BY DEF IInv, TypeOK
<1>2. CASE near[k] = "closed" \/ k \in cut
  <2>1. down' = down  BY <1>2 DEF Delivered, ClientGone
  <2> QED BY <1>1, <1>2, <2>1, LenProperties
<1>3. CASE ~(near[k] = "closed" \/ k \in cut)
  <2>1. down' = [down EXCEPT ![k] = Append(down[k], m)]
    BY <1>3 DEF Delivered, ClientGone
  <2>2. /\ Append(down[k], m) \in Seq(ToClient) /\ Append(down[k], m) # <<>>
        /\ Len(Append(down[k], m)) = Len(down[k]) + 1
        /\ Append(down[k], m)[Len(down[k]) + 1] = m
        /\ \A i \in 1 .. Len(down[k]) : Append(down[k], m)[i] = down[k][i]
    BY <1>1, AppendProperties
  <2>3. down'[k] = Append(down[k], m) /\ \A j \in Conn \ {k} : down'[j] = down[j]
    BY <1>1, <2>1
  <2>4. down' \in [Conn -> Seq(ToClient)]  BY <1>1, <2>1, <2>2
  <2>5. Len(down[k]) \in Nat  BY <1>1, LenProperties
  <2> QED BY <1>1, <1>3, <2>2, <2>3, <2>4, <2>5
<1> QED BY <1>2, <1>3

LEMMA SendResponseOK ==
    ASSUME IInv, NEW k \in Conn, SendResponse(k)
    PROVE  IInv'
<1> DEFINE m == Message("response", 0)
           next == IF Op(k) = "get" THEN "count" ELSE "recv"
<1>1. far[k] = "response" /\ Reply(k, m, next)  BY DEF SendResponse
<1>2. m \in ToClient /\ m.kind = "response"  BY BoundAssumption DEF ToClient, Message
<1> HIDE DEF m, next
<1> SUFFICES ASSUME Thread(k), UNCHANGED <<alive, used, up>>,
                    far' = [far EXCEPT ![k] = next],
                    left' = [left EXCEPT ![k] = IF m.kind = "pair" THEN @ - 1 ELSE @],
                    down' = Delivered(k, ClientGone(k), down, m)
             PROVE  IInv'
  BY <1>1, ReplyCases
<1>3. UNCHANGED <<pc, turn, ip, fds, todo, at, near, cmd, cut, deaths, alive, used, up>>
  BY DEF Thread, clientVars, faultVars
<1>4. /\ far'[k] = next /\ left'[k] = left[k] /\ left' = left
      /\ \A j \in Conn \ {k} : far'[j] = far[j] /\ left'[j] = left[j]
  BY <1>2 DEF IInv, TypeOK
<1>5. next \in {"count", "recv"} /\ (next = "count" <=> Op(k) = "get")  BY DEF next
<1>6. ConnOK(k)  BY DEF IInv
<1>7. TypeOK'
  <2>1. down' \in [Conn -> Seq(ToClient)]  BY <1>2, Arrival
  <2>2. far' \in [Conn -> {"none", "backlog", "recv", "upload", "execute",
                           "response", "count", "files", "ended", "gone"}]
    BY <1>5 DEF IInv, TypeOK
  <2> QED BY <1>3, <1>4, <2>1, <2>2 DEF IInv, TypeOK
<1>8. up[k] = <<>> /\ down[k] = <<>> /\ ~Doing(k, {"count", "download"})
      /\ ~Doing(k, {"prompt", "send", "upload"})
  BY <1>1, <1>6 DEF ConnOK, Upward, Downward, Answered, Doing
<1>9. /\ near[k] = "closed" \/ k \in cut => down'[k] = <<>>
      /\ ~(near[k] = "closed" \/ k \in cut) =>
            Len(down'[k]) = 1 /\ down'[k][1].kind = "response"
      /\ Len(down'[k]) <= 1 /\ Len(down'[k]) \in Nat
  <2>1. Len(down[k]) = 0  BY <1>8, EmptySeq
  <2>2. /\ near[k] = "closed" \/ k \in cut => down'[k] = down[k]
        /\ ~(near[k] = "closed" \/ k \in cut) =>
              Len(down'[k]) = Len(down[k]) + 1 /\ down'[k][Len(down[k]) + 1] = m
    BY <1>2, Arrival
  <2>3. CASE near[k] = "closed" \/ k \in cut  BY <1>8, <2>1, <2>2, <2>3
  <2>4. CASE ~(near[k] = "closed" \/ k \in cut)
    <3>1. Len(down'[k]) = 1 /\ down'[k][1] = m  BY <2>1, <2>2, <2>4
    <3> QED BY <1>2, <2>4, <3>1
  <2> QED BY <2>3, <2>4
<1>10. Opened(k)'  BY <1>3, <1>4, <1>5, <1>1, <1>6, <1>9 DEF ConnOK, Opened
<1>11. Commanded(k)'
  BY <1>1, <1>3, <1>4, <1>5, <1>6, <1>8 DEF ConnOK, Commanded, Doing, Current, Op
<1>12. Upward(k)'
  BY <1>1, <1>3, <1>4, <1>5, <1>6, <1>8 DEF ConnOK, Upward, Doing, Current, Sound, ToSend
<1>13. Downward(k)'
  <2>1. \A ps : Doing(k, ps)' <=> Doing(k, ps)  BY <1>3 DEF Doing, Current
  <2>2. Answered(k)'  BY <1>3, <1>4, <1>5, <1>8 DEF Answered
  <2>3. down'[k] # <<>> => near'[k] = "open"
    BY <1>1, <1>3, <1>6, <1>9, ConnNames DEF ConnOK, Opened, IInv, TypeOK
  <2>4. Doing(k, {"response"}) => near[k] = "open"
    BY <1>6 DEF ConnOK, Ended, Doing, Places
  <2>5. left'[k] <= Found  BY <1>1, <1>4, <1>6 DEF ConnOK, Downward
  <2>6. ~Doing(k, {"count"}) /\ ~Doing(k, {"download"})  BY <1>8 DEF Doing
  <2>7. \A i \in 3 .. Len(down'[k]) : FALSE  BY <1>9
  <2> QED BY <1>3, <1>4, <1>5, <1>8, <1>9, <2>1, <2>2, <2>3, <2>4, <2>5, <2>6, <2>7 DEF Downward
<1>14. Ended(k)'
  BY <1>1, <1>3, <1>4, <1>5, <1>6, <1>8 DEF ConnOK, Ended, Doing, Current, Past, Working
<1> QED BY <1>2, <1>3, <1>4, <1>7, <1>10, <1>11, <1>12, <1>13, <1>14, Arrival, OneThread DEF ConnOK

LEMMA SendCountOK ==
    ASSUME IInv, NEW k \in Conn, SendCount(k)
    PROVE  IInv'
<1> DEFINE m == Message("count", left[k])
           next == IF left[k] = 0 THEN "recv" ELSE "files"
<1>1. far[k] = "count" /\ Reply(k, m, next)  BY DEF SendCount
<1>2. ConnOK(k) /\ left[k] \in Nat  BY DEF IInv, TypeOK
<1>3. m \in ToClient /\ m.kind = "count" /\ m.n = left[k]
  BY <1>1, <1>2, BoundAssumption DEF ConnOK, Downward, ToClient, Message
<1> HIDE DEF m, next
<1> SUFFICES ASSUME Thread(k), UNCHANGED <<alive, used, up>>,
                    far' = [far EXCEPT ![k] = next],
                    left' = [left EXCEPT ![k] = IF m.kind = "pair" THEN @ - 1 ELSE @],
                    down' = Delivered(k, ClientGone(k), down, m)
             PROVE  IInv'
  BY <1>1, ReplyCases
<1>4. UNCHANGED <<pc, turn, ip, fds, todo, at, near, cmd, cut, deaths, alive, used, up>>
  BY DEF Thread, clientVars, faultVars
<1>5. /\ far'[k] = next /\ left'[k] = left[k] /\ left' = left
      /\ \A j \in Conn \ {k} : far'[j] = far[j] /\ left'[j] = left[j]
  BY <1>3 DEF IInv, TypeOK
<1>6. next \in {"files", "recv"} /\ (next = "files" => left[k] >= 1)
      /\ (next = "files" <=> left[k] # 0)
  BY <1>2 DEF next
<1>7. TypeOK'
  <2>1. down' \in [Conn -> Seq(ToClient)]  BY <1>3, Arrival
  <2>2. far' \in [Conn -> {"none", "backlog", "recv", "upload", "execute",
                           "response", "count", "files", "ended", "gone"}]
    BY <1>6 DEF IInv, TypeOK
  <2> QED BY <1>4, <1>5, <2>1, <2>2 DEF IInv, TypeOK
<1>8. /\ up[k] = <<>> /\ ~Doing(k, {"download"}) /\ ~Doing(k, {"prompt", "send", "upload"})
      /\ Op(k) = "get" /\ cmd[k] # None
  BY <1>1, <1>2 DEF ConnOK, Commanded, Upward, Downward, Doing
<1>9. Owed(k)' = left[k]  BY <1>2, <1>5, <1>6 DEF Owed
<1>10. Opened(k)'  BY <1>1, <1>2, <1>4, <1>5, <1>6, Arrival, <1>3 DEF ConnOK, Opened
<1>11. Commanded(k)'
  BY <1>1, <1>2, <1>4, <1>5, <1>6, <1>8 DEF ConnOK, Commanded, Doing, Current, Op
<1>12. Upward(k)'
  BY <1>1, <1>2, <1>4, <1>5, <1>6, <1>8 DEF ConnOK, Upward, Doing, Current, Sound, ToSend
<1>13. Downward(k)'
  <2>1. \A ps : Doing(k, ps)' <=> Doing(k, ps)  BY <1>4 DEF Doing, Current
  <2>2. Answered(k)'  BY <1>4, <1>5, <1>6, <1>8 DEF Answered
  <2>3. Doing(k, {"response"}) \/ Doing(k, {"count"}) => near[k] = "open"
    BY <1>2 DEF ConnOK, Ended, Doing, Places
  <2>4. down'[k] # <<>> => near'[k] = "open"
    <3>1. near[k] \in {"open", "closed"}
      BY <1>1, <1>2, ConnNames DEF ConnOK, Opened, IInv, TypeOK
    <3>2. down[k] # <<>> => near[k] = "open"  BY <1>2 DEF ConnOK, Downward
    <3>3. near[k] = "closed" => down'[k] = down[k]  BY <1>3, Arrival
    <3> QED BY <1>4, <3>1, <3>2, <3>3
  <2>5. Len(down[k]) \in Nat /\ down[k] \in Seq(ToClient)
        /\ (Len(down[k]) = 0 <=> down[k] = <<>>)
    BY <1>3, Arrival, EmptySeq
  <2>6. ASSUME Doing(k, {"response"})
        PROVE  /\ down'[k] # <<>> => down'[k][1].kind = "response"
               /\ Len(down'[k]) > 1 =>
                     down'[k][2].kind = "count"
                     /\ Len(down'[k]) - 2 + left[k] <= down'[k][2].n
               /\ Len(down'[k]) <= 2
               /\ k \notin cut => Len(down'[k]) > 1
    <3>1. Len(down[k]) <= 1 /\ (down[k] # <<>> => down[k][1].kind = "response")
          /\ (k \notin cut => Len(down[k]) = 1)
      BY <1>1, <1>2, <2>5, <2>6 DEF ConnOK, Downward
    <3>2. CASE k \in cut
      <4>1. down'[k] = down[k]  BY <1>3, <3>2, Arrival
      <4> QED BY <2>5, <3>1, <3>2, <4>1
    <3>3. CASE k \notin cut
      <4>1. Len(down[k]) = 1 /\ down[k] # <<>>  BY <2>5, <3>1, <3>3
      <4>2. /\ Len(down'[k]) = Len(down[k]) + 1
            /\ down'[k][Len(down[k]) + 1] = m
            /\ \A i \in 1 .. Len(down[k]) : down'[k][i] = down[k][i]
        BY <1>3, <2>3, <2>6, <3>3, Arrival
      <4>3. Len(down'[k]) = 2 /\ down'[k][2] = m /\ down'[k][1] = down[k][1]
        BY <4>1, <4>2
      <4> QED BY <1>2, <1>3, <3>1, <4>1, <4>3
    <3> QED BY <3>2, <3>3
  <2>7. ASSUME Doing(k, {"count"})
        PROVE  /\ down'[k] # <<>> =>
                     down'[k][1].kind = "count"
                     /\ Len(down'[k]) - 1 + left[k] <= down'[k][1].n
               /\ Len(down'[k]) <= 1
               /\ k \notin cut => down'[k] # <<>>
    <3>1. down[k] = <<>> /\ Len(down[k]) = 0
      BY <1>1, <1>2, <2>5, <2>7 DEF ConnOK, Downward
    <3>2. CASE k \in cut
      <4>1. down'[k] = down[k]  BY <1>3, <3>2, Arrival
      <4> QED BY <2>5, <3>1, <3>2, <4>1
    <3>3. CASE k \notin cut
      <4>1. /\ down'[k] # <<>> /\ Len(down'[k]) = Len(down[k]) + 1
            /\ down'[k][Len(down[k]) + 1] = m
        BY <1>3, <2>3, <2>7, <3>3, Arrival
      <4>2. Len(down'[k]) = 1 /\ down'[k][1] = m  BY <3>1, <4>1
      <4> QED BY <1>2, <1>3, <4>1, <4>2
    <3> QED BY <3>2, <3>3
  <2>8. ~Doing(k, {"download"})  BY <1>8
  <2>9. (Op(k)' = "get") /\ far'[k] # "count" /\ far'[k] # "response"
    BY <1>4, <1>5, <1>6, <1>8 DEF Op
  <2>10. (Doing(k, {"response"}) =>
          /\ down[k] # <<>> => down[k][1].kind = "response"
          /\ Len(down[k]) > 1 =>
                /\ Op(k) = "get" /\ far[k] # "count"
                /\ down[k][2].kind = "count" /\ Len(down[k]) - 2 + Owed(k) <= down[k][2].n
          /\ \A i \in 3 .. Len(down[k]) : down[k][i].kind = "pair"
          /\ k \notin cut => /\ far[k] = "count" => Len(down[k]) = 1
                             /\ far[k] = "files" => Len(down[k]) > 1)'
    <3>1. Len(down'[k]) \in Nat  BY <1>3, Arrival
    <3> QED BY <1>4, <1>9, <2>1, <2>6, <2>9, <3>1
  <2>11. (Doing(k, {"count"}) =>
          /\ Answered(k)
          /\ down[k] # <<>> =>
                /\ far[k] # "count"
                /\ down[k][1].kind = "count" /\ Len(down[k]) - 1 + Owed(k) <= down[k][1].n
          /\ \A i \in 2 .. Len(down[k]) : down[k][i].kind = "pair"
          /\ (k \notin cut /\ far[k] = "files") => down[k] # <<>>)'
    <3>1. Len(down'[k]) \in Nat  BY <1>3, Arrival
    <3> QED BY <1>4, <1>9, <2>1, <2>2, <2>7, <2>9, <3>1
  <2>12. far'[k] = "files" => left'[k] >= 1  BY <1>5, <1>6
  <2> QED BY <1>8, <2>1, <2>2, <2>4, <2>8, <2>9, <2>10, <2>11, <2>12 DEF Downward
<1>14. Ended(k)'
  BY <1>1, <1>2, <1>4, <1>5, <1>6, <1>8 DEF ConnOK, Ended, Doing, Current, Past, Working
<1> QED BY <1>3, <1>4, <1>5, <1>7, <1>10, <1>11, <1>12, <1>13, <1>14, Arrival, OneThread DEF ConnOK

LEMMA SendPairOK ==
    ASSUME IInv, NEW k \in Conn, SendPair(k)
    PROVE  IInv'
<1> DEFINE m == Message("pair", 0)
           next == IF left[k] = 1 THEN "recv" ELSE "files"
<1>1. far[k] = "files" /\ Reply(k, m, next)  BY DEF SendPair
<1>2. ConnOK(k) /\ left[k] \in Nat  BY DEF IInv, TypeOK
<1>3. m \in ToClient /\ m.kind = "pair"  BY BoundAssumption DEF ToClient, Message
<1> HIDE DEF m, next
<1> SUFFICES ASSUME Thread(k), UNCHANGED <<alive, used, up>>,
                    far' = [far EXCEPT ![k] = next],
                    left' = [left EXCEPT ![k] = IF m.kind = "pair" THEN @ - 1 ELSE @],
                    down' = Delivered(k, ClientGone(k), down, m)
             PROVE  IInv'
  BY <1>1, ReplyCases
<1>4. UNCHANGED <<pc, turn, ip, fds, todo, at, near, cmd, cut, deaths, alive, used, up>>
  BY DEF Thread, clientVars, faultVars
<1>5. /\ far'[k] = next /\ left'[k] = left[k] - 1
      /\ \A j \in Conn \ {k} : far'[j] = far[j] /\ left'[j] = left[j]
  BY <1>3 DEF IInv, TypeOK
<1>6. left[k] >= 1  BY <1>1, <1>2 DEF ConnOK, Downward
<1>7. next \in {"files", "recv"} /\ (next = "files" <=> left[k] # 1)
  BY DEF next
<1>8. TypeOK'
  <2>1. down' \in [Conn -> Seq(ToClient)]  BY <1>3, Arrival
  <2>2. far' \in [Conn -> {"none", "backlog", "recv", "upload", "execute",
                           "response", "count", "files", "ended", "gone"}]
    BY <1>7 DEF IInv, TypeOK
  <2>3. left' \in [Conn -> Nat]  BY <1>2, <1>3, <1>6 DEF IInv, TypeOK
  <2> QED BY <1>4, <2>1, <2>2, <2>3 DEF IInv, TypeOK
<1>9. /\ up[k] = <<>> /\ ~Doing(k, {"prompt", "send", "upload"})
      /\ Op(k) = "get" /\ cmd[k] # None
  BY <1>1, <1>2 DEF ConnOK, Commanded, Upward, Downward, Doing
<1>10. Owed(k) = left[k] /\ Owed(k)' = left[k] - 1
  BY <1>1, <1>2, <1>5, <1>6, <1>7 DEF Owed
<1>11. Opened(k)'  BY <1>1, <1>2, <1>3, <1>4, <1>5, <1>7, Arrival DEF ConnOK, Opened
<1>12. Commanded(k)'
  BY <1>1, <1>2, <1>4, <1>5, <1>7, <1>9 DEF ConnOK, Commanded, Doing, Current, Op
<1>13. Upward(k)'
  BY <1>1, <1>2, <1>4, <1>5, <1>7, <1>9 DEF ConnOK, Upward, Doing, Current, Sound, ToSend
<1>14. Downward(k)'
  <2>1. \A ps : Doing(k, ps)' <=> Doing(k, ps)  BY <1>4 DEF Doing, Current
  <2>2. Answered(k)'  BY <1>4, <1>5, <1>7, <1>9 DEF Answered
  <2>3. Doing(k, {"response"}) \/ Doing(k, {"count"}) \/ Doing(k, {"download"})
        => near[k] = "open"
    BY <1>2 DEF ConnOK, Ended, Doing, Places
  <2>4. down'[k] # <<>> => near'[k] = "open"
    <3>1. near[k] \in {"open", "closed"}
      BY <1>1, <1>2, ConnNames DEF ConnOK, Opened, IInv, TypeOK
    <3>2. down[k] # <<>> => near[k] = "open"  BY <1>2 DEF ConnOK, Downward
    <3>3. near[k] = "closed" => down'[k] = down[k]  BY <1>3, Arrival
    <3> QED BY <1>4, <3>1, <3>2, <3>3
  <2>5. Len(down[k]) \in Nat /\ down[k] \in Seq(ToClient)
        /\ (Len(down[k]) = 0 <=> down[k] = <<>>)
        /\ Len(down'[k]) \in Nat /\ down'[k] \in Seq(ToClient)
    BY <1>3, Arrival, EmptySeq
  \* Either nothing arrives, or the file comes last.
  <2>6. \/ down'[k] = down[k] /\ (k \in cut \/ near[k] = "closed")
        \/ /\ Len(down'[k]) = Len(down[k]) + 1
           /\ down'[k][Len(down[k]) + 1].kind = "pair"
           /\ \A i \in 1 .. Len(down[k]) : down'[k][i] = down[k][i]
    BY <1>3, Arrival
  <2>7. \A i \in 1 .. Len(down[k]) : down[k][i].n \in Nat  BY <2>5, MessageNumbers
  <2>8. (Op(k)' = "get") /\ Op(k) = "get" /\ far'[k] # "count" /\ far'[k] # "response"
    BY <1>4, <1>5, <1>7, <1>9 DEF Op
  <2>9. ASSUME Doing(k, {"response"})
        PROVE  /\ down'[k] # <<>> => down'[k][1].kind = "response"
               /\ Len(down'[k]) > 1 =>
                     down'[k][2].kind = "count"
                     /\ Len(down'[k]) - 2 + (left[k] - 1) <= down'[k][2].n
               /\ \A i \in 3 .. Len(down'[k]) : down'[k][i].kind = "pair"
               /\ k \notin cut => Len(down'[k]) > 1
    <3>1. /\ down[k] # <<>> => down[k][1].kind = "response"
          /\ Len(down[k]) > 1 =>
                down[k][2].kind = "count" /\ Len(down[k]) - 2 + left[k] <= down[k][2].n
          /\ \A i \in 3 .. Len(down[k]) : down[k][i].kind = "pair"
          /\ k \notin cut => Len(down[k]) > 1
      BY <1>1, <1>2, <1>10, <2>9 DEF ConnOK, Downward
    <3>2. CASE down'[k] = down[k]
      <4>1. Len(down[k]) > 1 => Len(down[k]) - 2 + (left[k] - 1) <= down[k][2].n
        <5> SUFFICES ASSUME Len(down[k]) > 1
                     PROVE  Len(down[k]) - 2 + (left[k] - 1) <= down[k][2].n
          OBVIOUS
        <5>1. down[k][2].n \in Nat  BY <2>5, <2>7
        <5>2. Len(down[k]) - 2 + left[k] <= down[k][2].n  BY <3>1
        <5> QED BY <1>2, <2>5, <5>1, <5>2
      <4> QED BY <3>1, <3>2, <4>1
    <3>3. CASE down'[k] # down[k]
      <4>1. /\ Len(down'[k]) = Len(down[k]) + 1
            /\ down'[k][Len(down[k]) + 1].kind = "pair"
            /\ \A i \in 1 .. Len(down[k]) : down'[k][i] = down[k][i]
        BY <2>6, <3>3
      <4>2. k \notin cut  BY <1>3, <3>3, Arrival
      <4>3. Len(down[k]) > 1 /\ down[k] # <<>>  BY <2>5, <3>1, <4>2
      <4>4. down'[k][1] = down[k][1] /\ down'[k][2] = down[k][2]
        BY <2>5, <4>1, <4>3
      <4>5. \A i \in 3 .. Len(down'[k]) : down'[k][i].kind = "pair"
        <5>1. SUFFICES ASSUME NEW i \in 3 .. Len(down'[k]) PROVE down'[k][i].kind = "pair"
          OBVIOUS
        <5>2. i \in 3 .. Len(down[k]) \/ i = Len(down[k]) + 1
          <6>1. Len(down[k]) \in Nat /\ Len(down'[k]) = Len(down[k]) + 1  BY <2>5, <4>1
          <6> QED BY <6>1
        <5>3. i \in 3 .. Len(down[k]) => down'[k][i] = down[k][i]
          <6>1. i \in 3 .. Len(down[k]) => i \in 1 .. Len(down[k])  BY <2>5
          <6> QED BY <4>1, <6>1
        <5> QED BY <3>1, <4>1, <5>2, <5>3
      <4>6. Len(down'[k]) - 2 + (left[k] - 1) <= down'[k][2].n
        <5>1. down[k][2].n \in Nat  BY <2>5, <2>7, <4>3
        <5>2. Len(down[k]) - 2 + left[k] <= down[k][2].n  BY <3>1, <4>3
        <5>3. Len(down'[k]) - 2 + (left[k] - 1) = Len(down[k]) - 2 + left[k]
          BY <1>2, <2>5, <4>1
        <5> QED BY <4>4, <5>2, <5>3
      <4> QED BY <2>5, <3>1, <4>1, <4>3, <4>4, <4>5, <4>6
    <3> QED BY <3>2, <3>3
  <2>10. ASSUME Doing(k, {"count"})
        PROVE  /\ down'[k] # <<>> =>
                     down'[k][1].kind = "count"
                     /\ Len(down'[k]) - 1 + (left[k] - 1) <= down'[k][1].n
               /\ \A i \in 2 .. Len(down'[k]) : down'[k][i].kind = "pair"
               /\ k \notin cut => down'[k] # <<>>
    <3>1. /\ down[k] # <<>> =>
                down[k][1].kind = "count" /\ Len(down[k]) - 1 + left[k] <= down[k][1].n
          /\ \A i \in 2 .. Len(down[k]) : down[k][i].kind = "pair"
          /\ k \notin cut => down[k] # <<>>
      BY <1>1, <1>2, <1>10, <2>10 DEF ConnOK, Downward
    <3>2. CASE down'[k] = down[k]
      <4>1. down[k] # <<>> => Len(down[k]) - 1 + (left[k] - 1) <= down[k][1].n
        <5> SUFFICES ASSUME down[k] # <<>>
                     PROVE  Len(down[k]) - 1 + (left[k] - 1) <= down[k][1].n
          OBVIOUS
        <5>1. down[k][1].n \in Nat /\ Len(down[k]) \in Nat  BY <2>5, <2>7
        <5>2. Len(down[k]) - 1 + left[k] <= down[k][1].n  BY <3>1
        <5> QED BY <1>2, <5>1, <5>2
      <4> QED BY <3>1, <3>2, <4>1
    <3>3. CASE down'[k] # down[k]
      <4>1. /\ Len(down'[k]) = Len(down[k]) + 1
            /\ down'[k][Len(down[k]) + 1].kind = "pair"
            /\ \A i \in 1 .. Len(down[k]) : down'[k][i] = down[k][i]
        BY <2>6, <3>3
      <4>2. k \notin cut  BY <1>3, <3>3, Arrival
      <4>3. Len(down[k]) >= 1 /\ down[k] # <<>>  BY <2>5, <3>1, <4>2
      <4>4. down'[k][1] = down[k][1]  BY <2>5, <4>1, <4>3
      <4>5. \A i \in 2 .. Len(down'[k]) : down'[k][i].kind = "pair"
        <5>1. SUFFICES ASSUME NEW i \in 2 .. Len(down'[k]) PROVE down'[k][i].kind = "pair"
          OBVIOUS
        <5>2. i \in 2 .. Len(down[k]) \/ i = Len(down[k]) + 1
          <6>1. Len(down[k]) \in Nat /\ Len(down'[k]) = Len(down[k]) + 1  BY <2>5, <4>1
          <6> QED BY <6>1
        <5>3. i \in 2 .. Len(down[k]) => down'[k][i] = down[k][i]
          <6>1. i \in 2 .. Len(down[k]) => i \in 1 .. Len(down[k])  BY <2>5
          <6> QED BY <4>1, <6>1
        <5> QED BY <3>1, <4>1, <5>2, <5>3
      <4>6. Len(down'[k]) - 1 + (left[k] - 1) <= down'[k][1].n
        <5>1. down[k][1].n \in Nat  BY <2>5, <2>7, <4>3
        <5>2. Len(down[k]) - 1 + left[k] <= down[k][1].n  BY <3>1, <4>3
        <5>3. Len(down'[k]) - 1 + (left[k] - 1) = Len(down[k]) - 1 + left[k]
          BY <1>2, <2>5, <4>1
        <5> QED BY <4>4, <5>2, <5>3
      <4>7. down'[k] # <<>>  BY <2>5, <4>1, EmptySeq
      <4> QED BY <3>1, <4>3, <4>4, <4>5, <4>6, <4>7
    <3> QED BY <3>2, <3>3
  <2>11. ASSUME Doing(k, {"download"})
        PROVE  /\ \A i \in 1 .. Len(down'[k]) : down'[k][i].kind = "pair"
               /\ Len(down'[k]) + (left[k] - 1) <= todo[k[1]] /\ todo[k[1]] >= 1
    <3>1. /\ \A i \in 1 .. Len(down[k]) : down[k][i].kind = "pair"
          /\ Len(down[k]) + left[k] <= todo[k[1]] /\ todo[k[1]] >= 1
      BY <1>1, <1>2, <1>10, <2>11 DEF ConnOK, Downward
    <3>2. todo[k[1]] \in Nat  BY ConnNames DEF IInv, TypeOK
    <3>3. Len(down'[k]) <= Len(down[k]) + 1  BY <2>5, <2>6
    <3>4. Len(down'[k]) + (left[k] - 1) <= todo[k[1]]  BY <1>2, <2>5, <3>1, <3>2, <3>3
    <3>5. \A i \in 1 .. Len(down'[k]) : down'[k][i].kind = "pair"
      BY <2>5, <2>6, <3>1
    <3> QED BY <3>1, <3>4, <3>5
  <2>12. (Doing(k, {"response"}) =>
          /\ down[k] # <<>> => down[k][1].kind = "response"
          /\ Len(down[k]) > 1 =>
                /\ Op(k) = "get" /\ far[k] # "count"
                /\ down[k][2].kind = "count" /\ Len(down[k]) - 2 + Owed(k) <= down[k][2].n
          /\ \A i \in 3 .. Len(down[k]) : down[k][i].kind = "pair"
          /\ k \notin cut => /\ far[k] = "count" => Len(down[k]) = 1
                             /\ far[k] = "files" => Len(down[k]) > 1)'
    BY <1>4, <1>10, <2>1, <2>8, <2>9
  <2>13. (Doing(k, {"count"}) =>
          /\ Answered(k)
          /\ down[k] # <<>> =>
                /\ far[k] # "count"
                /\ down[k][1].kind = "count" /\ Len(down[k]) - 1 + Owed(k) <= down[k][1].n
          /\ \A i \in 2 .. Len(down[k]) : down[k][i].kind = "pair"
          /\ (k \notin cut /\ far[k] = "files") => down[k] # <<>>)'
    BY <1>4, <1>10, <2>1, <2>2, <2>8, <2>10
  <2>14. (Doing(k, {"download"}) =>
          /\ Answered(k) /\ far[k] # "count"
          /\ \A i \in 1 .. Len(down[k]) : down[k][i].kind = "pair"
          /\ Len(down[k]) + Owed(k) <= todo[k[1]] /\ todo[k[1]] >= 1)'
    BY <1>4, <1>10, <2>1, <2>2, <2>8, <2>11
  <2>15. far'[k] = "files" => left'[k] >= 1  BY <1>2, <1>5, <1>6, <1>7
  <2> QED BY <1>9, <2>1, <2>2, <2>4, <2>8, <2>12, <2>13, <2>14, <2>15 DEF Downward
<1>15. Ended(k)'
  BY <1>1, <1>2, <1>4, <1>5, <1>7, <1>9 DEF ConnOK, Ended, Doing, Current, Past, Working
<1> QED BY <1>3, <1>4, <1>5, <1>8, <1>11, <1>12, <1>13, <1>14, <1>15, Arrival, OneThread
        DEF ConnOK

LEMMA ThreadOK ==
    ASSUME IInv, NEW k \in Conn, ThreadStep(k)
    PROVE  IInv'
BY AcceptOK, TakeCommandOK, TakeFileOK, ThreadFailsOK, ExecuteOK, SendResponseOK,
   SendCountOK, SendPairOK DEF ThreadStep

-----------------------------------------------------------------------------
(* Faults *)

\* A client that leaves a connection sends nothing more over it.
LEMMA SendsNoMore ==
    ASSUME IInv, NEW k \in Conn, UNCHANGED <<far, left, cmd, up>>,
           ~Doing(k, Places)', Sound(k)' => (Sound(k) /\ ToSend(k) = 0)
    PROVE  Upward(k)'
<1>1. ConnOK(k) /\ Len(up[k]) \in Nat /\ left[k] \in Nat
  BY LenProperties DEF IInv, TypeOK
<1>2. ToSend(k) \in Nat  BY ConnNames DEF ToSend, IInv, TypeOK
<1>3. cmd[k] # None => Files(k) \in Nat
  BY <1>1, ReadingFiles DEF ConnOK, Commanded, Files
<1>4. (Files(k)' = Files(k)) /\ (Op(k)' = Op(k)) /\ (ToSend(k)' = 0)
  BY DEF Files, Op, ToSend, Doing, Places
<1>5. ~Doing(k, {"prompt", "send"})' /\ ~Doing(k, {"upload"})'
  BY DEF Doing, Places
<1>6. ASSUME far[k] \in {"backlog", "recv"}, up[k] # <<>>
      PROVE  /\ up[k][1] = "command"
             /\ \A i \in 2 .. Len(up[k]) : up[k][i] = "file"
             /\ Len(up[k]) - 1 + 0 <= Files(k)
             /\ (Op(k) = "add" /\ Sound(k)') => Len(up[k]) - 1 + 0 = Files(k)
  <2>1. /\ up[k][1] = "command"
        /\ \A i \in 2 .. Len(up[k]) : up[k][i] = "file"
        /\ Len(up[k]) - 1 + ToSend(k) <= Files(k)
        /\ (Op(k) = "add" /\ Sound(k)) => Len(up[k]) - 1 + ToSend(k) = Files(k)
    BY <1>1, <1>6 DEF ConnOK, Upward
  <2>2. Files(k) \in Nat  BY <1>1, <1>3, <1>6 DEF ConnOK, Commanded
  <2>3. Len(up[k]) - 1 + 0 <= Files(k)  BY <1>1, <1>2, <2>1, <2>2
  <2> QED BY <2>1, <2>3
<1>7. ASSUME far[k] = "upload"
      PROVE  /\ \A i \in 1 .. Len(up[k]) : up[k][i] = "file"
             /\ left[k] >= 1
             /\ Len(up[k]) + 0 <= left[k]
             /\ Sound(k)' => Len(up[k]) + 0 = left[k]
  <2>1. /\ \A i \in 1 .. Len(up[k]) : up[k][i] = "file"
        /\ left[k] >= 1 /\ Len(up[k]) + ToSend(k) <= left[k]
        /\ Sound(k) => Len(up[k]) + ToSend(k) = left[k]
    BY <1>1, <1>7 DEF ConnOK, Upward
  <2>2. Len(up[k]) + 0 <= left[k]  BY <1>1, <1>2, <2>1
  <2> QED BY <2>1, <2>2
<1>8. far[k] \notin {"backlog", "recv", "upload"} => up[k] = <<>>
  BY <1>1 DEF ConnOK, Upward
<1> QED BY <1>4, <1>5, <1>6, <1>7, <1>8 DEF Upward

\* The end of a client closes its connections; nothing is under way to it.
LEMMA ClientEndsOK ==
    ASSUME IInv, NEW c \in Client, pc[c] # "dead", ClientEnds(c),
           UNCHANGED <<serverVars, at, far, cmd, left, up, cut>>,
           deaths' \in Nat, deaths' + Cardinality(cut') <= Faults
    PROVE  IInv'
<1>1. /\ UNCHANGED <<turn, ip, fds, todo, alive, used, at, far, cmd, left, up, cut>>
      /\ pc'[c] = "dead" /\ \A d \in Client \ {c} : pc'[d] = pc[d]
  BY DEF ClientEnds, serverVars, IInv, TypeOK
<1>2. TypeOK'
  <2>1. <<>> \in Seq(ToClient)  BY EmptySeq
  <2>2. /\ pc' \in [Client -> {"connect", "prompt", "send", "upload", "response",
                               "count", "download", "dead"}]
        /\ near' \in [Conn -> {"none", "open", "closed"}]
        /\ down' \in [Conn -> Seq(ToClient)]
    BY <2>1 DEF ClientEnds, IInv, TypeOK
  <2> QED BY <1>1, <2>2 DEF IInv, TypeOK
<1>3. IsFiniteSet(cut')  BY <1>1 DEF IInv
<1>4. ASSUME NEW d \in Client PROVE Busy(d)'
  BY <1>1 DEF IInv, Busy
<1>5. ASSUME NEW k \in Conn PROVE ConnOK(k)'
  <2>1. ConnOK(k)  BY DEF IInv
  <2>2. CASE k[1] # c
    <3>1. Still(k)  BY <1>1, <2>2 DEF Still, ClientEnds
    <3> QED BY <1>1, <2>1, <2>2, <3>1, StillConn, ConnNames
  <2>3. CASE k[1] = c
    <3>1. /\ near'[k] = IF near[k] = "open" THEN "closed" ELSE near[k]
          /\ down'[k] = <<>> /\ pc'[k[1]] = "dead"
      BY <1>1, <2>3 DEF ClientEnds
    <3>2. ~Doing(k, Places)' /\ ~Sound(k)' /\ ToSend(k)' = 0
      BY <3>1 DEF Doing, Places, Sound, ToSend
    <3>3. Past(k)' => Past(k)  BY <1>1, <3>1 DEF Past
    <3>4. Opened(k)'  BY <1>1, <2>1, <3>1 DEF ConnOK, Opened
    <3>5. Commanded(k)'
      BY <1>1, <2>1, <3>1, <3>2 DEF ConnOK, Commanded, Doing, Places, Op
    <3>6. Upward(k)'  BY <1>1, <3>2, SendsNoMore
    <3>7. Downward(k)'
      BY <1>1, <2>1, <3>1, <3>2 DEF ConnOK, Downward, Doing, Places
    <3>8. Ended(k)'
      BY <1>1, <2>1, <3>1, <3>2, <3>3 DEF ConnOK, Ended, Working
    <3> QED BY <3>4, <3>5, <3>6, <3>7, <3>8 DEF ConnOK
  <2> QED BY <2>2, <2>3
<1> QED BY <1>2, <1>3, <1>4, <1>5 DEF IInv

LEMMA KillClientOK ==
    ASSUME IInv, NEW c \in Client, KillClient(c)
    PROVE  IInv'
<1>1. Cardinality(cut) \in Nat  BY FS_CardinalityType DEF IInv
<1>2. deaths \in Nat /\ Faults \in Nat  BY BoundAssumption DEF IInv, TypeOK
<1>3. deaths' = deaths + 1 /\ cut' = cut /\ deaths + Cardinality(cut) < Faults
  BY DEF KillClient
<1>4. deaths' \in Nat /\ deaths' + Cardinality(cut') <= Faults  BY <1>1, <1>2, <1>3
<1> QED BY <1>4, ClientEndsOK DEF KillClient

LEMMA KillServerOK ==
    ASSUME IInv, NEW s \in Server, KillServer(s)
    PROVE  IInv'
<1>1. Cardinality(cut) \in Nat  BY FS_CardinalityType DEF IInv
<1>2. deaths \in Nat /\ Faults \in Nat  BY BoundAssumption DEF IInv, TypeOK
<1>3. deaths' = deaths + 1 /\ cut' = cut /\ deaths + Cardinality(cut) < Faults
  BY DEF KillServer
<1>4. deaths' \in Nat /\ deaths' + Cardinality(cut') <= Faults  BY <1>1, <1>2, <1>3
<1> QED BY <1>4, ServerEndsOK DEF KillServer

LEMMA RestartServerOK ==
    ASSUME IInv, NEW s \in Server, RestartServer(s)
    PROVE  IInv'
<1>1. UNCHANGED <<pc, turn, ip, fds, todo, used, at, near, far, cmd, left, up, down,
                  cut, deaths>>
  BY DEF RestartServer, clientVars, faultVars
<1>2. TypeOK'
  <2>1. alive' \in [Server -> BOOLEAN]  BY DEF RestartServer, IInv, TypeOK
  <2> QED BY <1>1, <2>1 DEF IInv, TypeOK
<1>3. IsFiniteSet(cut')  BY <1>1 DEF IInv
<1>4. ASSUME NEW c \in Client PROVE Busy(c)'  BY <1>1 DEF IInv, Busy
<1>5. ASSUME NEW k \in Conn PROVE ConnOK(k)'
  <2>1. Still(k) /\ ConnOK(k)  BY <1>1 DEF Still, IInv
  <2> QED BY <1>1, <2>1, StillConn
<1> QED BY <1>2, <1>3, <1>4, <1>5 DEF IInv

LEMMA CutLinkOK ==
    ASSUME IInv, NEW k \in Conn, CutLink(k)
    PROVE  IInv'
<1>1. /\ UNCHANGED <<pc, turn, ip, fds, todo, alive, used, at, near, far, cmd, left, up,
                     down, deaths>>
      /\ cut' = cut \cup {k} /\ near[k] = "open"
      /\ deaths + Cardinality(cut) < Faults
  BY DEF CutLink, clientVars, serverVars
<1>2. IsFiniteSet(cut')  BY <1>1, FS_AddElement DEF IInv
<1>3. TypeOK'
  <2>1. Cardinality(cut) \in Nat  BY FS_CardinalityType DEF IInv
  <2>2. Cardinality(cut') <= Cardinality(cut) + 1 /\ Cardinality(cut') \in Nat
    BY <1>1, <1>2, <2>1, FS_AddElement, FS_CardinalityType DEF IInv
  <2>3. deaths \in Nat /\ Faults \in Nat  BY BoundAssumption DEF IInv, TypeOK
  <2>4. deaths' + Cardinality(cut') <= Faults  BY <1>1, <2>1, <2>2, <2>3
  <2>5. cut' \subseteq Conn  BY <1>1 DEF IInv, TypeOK
  <2> QED BY <1>1, <2>4, <2>5 DEF IInv, TypeOK
<1>4. ASSUME NEW c \in Client PROVE Busy(c)'  BY <1>1 DEF IInv, Busy
<1>5. ASSUME NEW j \in Conn PROVE ConnOK(j)'
  <2>1. ConnOK(j)  BY DEF IInv
  <2>2. CASE j # k
    <3>1. Still(j)  BY <1>1, <2>2 DEF Still
    <3> QED BY <1>1, <2>1, <3>1, StillConn
  <2>3. CASE j = k
    <3>1. k \in cut' /\ ~Sound(k)'  BY <1>1 DEF Sound
    <3>2. ConnOK(k)  BY <2>1, <2>3
    <3>3. \A ps : Doing(k, ps)' <=> Doing(k, ps)  BY <1>1 DEF Doing, Current
    <3>4. (Op(k)' = Op(k)) /\ (Files(k)' = Files(k)) /\ (ToSend(k)' = ToSend(k))
          /\ (Owed(k)' = Owed(k)) /\ (Answered(k)' <=> Answered(k))
      BY <1>1, <3>3 DEF Op, Files, ToSend, Owed, Answered
    <3>5. Opened(k)'  BY <1>1, <3>2 DEF ConnOK, Opened
    <3>6. Commanded(k)'  BY <1>1, <3>2, <3>3, <3>4 DEF ConnOK, Commanded
    <3>7. Upward(k)'  BY <1>1, <3>1, <3>2, <3>3, <3>4 DEF ConnOK, Upward
    <3>8. Downward(k)'  BY <1>1, <3>1, <3>2, <3>3, <3>4 DEF ConnOK, Downward
    <3>9. Ended(k)'  BY <1>1, <3>1, <3>2, <3>3 DEF ConnOK, Ended
    <3> QED BY <2>3, <3>5, <3>6, <3>7, <3>8, <3>9 DEF ConnOK
  <2> QED BY <2>2, <2>3
<1> QED BY <1>2, <1>3, <1>4, <1>5 DEF IInv

-----------------------------------------------------------------------------
(* The steps of a client *)

\* Where client c is: at its current connection.
LEMMA AtConn ==
    ASSUME IInv, NEW c \in Client, pc[c] \in Places
    PROVE  /\ Current(c) \in Conn /\ Current(c)[1] = c /\ Current(c)[2] = turn[c]
           /\ \A ps : Doing(Current(c), ps) <=> pc[c] \in ps
           /\ turn[c] \in Nat /\ turn[c] >= 1 /\ fds[c] \in Nat /\ fds[c] >= 1
           /\ near[Current(c)] = "open" /\ at[Current(c)] \in Server /\ far[Current(c)] # "none"
           /\ ConnOK(Current(c))
<1>1. turn[c] \in Nat /\ turn[c] >= 1 /\ turn[c] <= Turns(c) /\ Turns(c) \in Nat
  BY ConnNames DEF IInv, TypeOK, Busy, Places
<1>2. Current(c) \in Conn /\ Current(c)[1] = c /\ Current(c)[2] = turn[c]
  BY <1>1, ConnNames DEF Current
<1>3. \A ps : Doing(Current(c), ps) <=> pc[c] \in ps  BY <1>2 DEF Doing
<1>4. fds[c] \in Nat /\ fds[c] >= 1
  <2>1. Busy(c) /\ fds[c] \in 0 .. ClientFds  BY DEF IInv, TypeOK
  <2>2. pc[c] \notin {"connect", "dead"}  BY DEF Places
  <2> QED BY <2>1, <2>2 DEF Busy
<1>5. ConnOK(Current(c))  BY <1>2 DEF IInv
<1>6. near[Current(c)] = "open"  BY <1>3, <1>5 DEF ConnOK, Ended
<1>7. at[Current(c)] \in Server /\ far[Current(c)] # "none"
  BY <1>1, <1>2, <1>5 DEF ConnOK, Opened
<1> QED BY <1>1, <1>2, <1>3, <1>4, <1>5, <1>6, <1>7

\* A step of client c on its current connection changes no other connection.
LEMMA OneClient ==
    ASSUME IInv, NEW c \in Client, pc[c] \in Places,
           UNCHANGED <<turn, at, far, left, cut>>,
           \A d \in Client \ {c} :
               pc'[d] = pc[d] /\ todo'[d] = todo[d] /\ fds'[d] = fds[d],
           \A j \in Conn \ {Current(c)} :
               near'[j] = near[j] /\ cmd'[j] = cmd[j] /\ up'[j] = up[j] /\ down'[j] = down[j],
           pc'[c] \in Places => fds'[c] = fds[c],
           TypeOK', ConnOK(Current(c))'
    PROVE  IInv'
<1> DEFINE k == Current(c)
<1>1. k \in Conn /\ k = <<c, turn[c]>> /\ k[1] = c /\ k[2] = turn[c]
      /\ turn[c] >= 1 /\ fds[c] >= 1
  BY AtConn DEF Current
<1>2. k' = k  BY <1>1 DEF Current
<1>3. ConnOK(k)'  OBVIOUS
<1> HIDE DEF k
<1>4. ASSUME NEW d \in Client PROVE Busy(d)'
  <2>1. CASE d = c
    <3>1. pc'[c] \in {"connect", "dead"} \/ pc'[c] \in Places
      BY DEF TypeOK, Places
    <3> QED BY <1>1, <2>1, <3>1 DEF Busy
  <2>2. CASE d # c
    <3>1. Busy(d)  BY DEF IInv
    <3> QED BY <2>2, <3>1 DEF Busy
  <2> QED BY <2>1, <2>2
<1>5. ASSUME NEW j \in Conn, j # k PROVE ConnOK(j)'
  <2>1. ConnOK(j) /\ Still(j)  BY <1>5 DEF IInv, Still, k
  <2>2. j[1] \in Client /\ j = <<j[1], j[2]>>  BY ConnNames
  <2>3. CASE j[1] # c  BY <2>1, <2>2, <2>3, StillConn
  <2>4. CASE j[1] = c
    <3>1. j[2] # turn[c]  BY <1>1, <1>5, <2>2, <2>4
    <3>2. Aside(j)  BY <1>1, <2>2, <2>4, <3>1 DEF Aside, Doing, Current
    <3>3. Past(j)' => Past(j)  BY <2>4, <3>1 DEF Past
    <3>4. pc[j[1]] # "dead"  BY <2>4 DEF Places
    <3> QED BY <2>1, <3>2, <3>3, <3>4, AsideConn
  <2> QED BY <2>3, <2>4
<1>6. IsFiniteSet(cut')  BY DEF IInv
<1> QED BY <1>2, <1>3, <1>4, <1>5, <1>6 DEF IInv, k

LEMMA ConnectOK ==
    ASSUME IInv, NEW c \in Client, Connect(c)
    PROVE  IInv'
<1> DEFINE s == ServerIps[ip[c]]
           k == <<c, turn[c] + 1>>
<1>1. /\ UNCHANGED <<todo, alive, used, cmd, left, up, down, cut, deaths>>
      /\ pc[c] = "connect" /\ turn[c] < Turns(c) /\ fds[c] < ClientFds
      /\ pc' = [pc EXCEPT ![c] = "prompt"]
      /\ turn' = [turn EXCEPT ![c] = turn[c] + 1]
      /\ ip' = [ip EXCEPT ![c] = 1]
      /\ fds' = [fds EXCEPT ![c] = fds[c] + 1]
      /\ at' = [at EXCEPT ![k] = s]
      /\ near' = [near EXCEPT ![k] = "open"]
      /\ far' = [far EXCEPT ![k] = "backlog"]
  BY DEF Connect, serverVars, faultVars
<1>2. turn[c] \in Nat /\ Turns(c) \in Nat /\ fds[c] \in Nat /\ ClientFds \in Nat
  BY ConnNames, BoundAssumption DEF IInv, TypeOK
<1>3. k \in Conn /\ k[1] = c /\ k[2] = turn[c] + 1  BY <1>1, <1>2, ConnNames
<1>4. s \in Server  BY IpsAssumption, LenProperties DEF IInv, TypeOK
<1>5. 1 \in DOMAIN ServerIps  BY IpsAssumption, EmptySeq, LenProperties
<1> HIDE DEF s, k
<1>6. /\ pc'[c] = "prompt" /\ turn'[c] = turn[c] + 1 /\ fds'[c] = fds[c] + 1
      /\ \A d \in Client \ {c} : pc'[d] = pc[d] /\ turn'[d] = turn[d] /\ fds'[d] = fds[d]
      /\ at'[k] = s /\ near'[k] = "open" /\ far'[k] = "backlog"
      /\ \A j \in Conn \ {k} : at'[j] = at[j] /\ near'[j] = near[j] /\ far'[j] = far[j]
  BY <1>1, <1>3 DEF IInv, TypeOK
<1>7. TypeOK'
  <2>1. pc' \in [Client -> {"connect", "prompt", "send", "upload", "response",
                            "count", "download", "dead"}]
    BY <1>1 DEF IInv, TypeOK
  <2>2. turn' \in [Client -> Nat] /\ \A d \in Client : turn'[d] <= Turns(d)
    BY <1>1, <1>2, <1>6 DEF IInv, TypeOK
  <2>3. ip' \in [Client -> DOMAIN ServerIps]  BY <1>1, <1>5 DEF IInv, TypeOK
  <2>4. fds' \in [Client -> 0 .. ClientFds]  BY <1>1, <1>2 DEF IInv, TypeOK
  <2>5. /\ at' \in [Conn -> Server \cup {None}]
        /\ near' \in [Conn -> {"none", "open", "closed"}]
        /\ far' \in [Conn -> {"none", "backlog", "recv", "upload", "execute",
                              "response", "count", "files", "ended", "gone"}]
    BY <1>1, <1>4 DEF IInv, TypeOK
  <2> QED BY <1>1, <2>1, <2>2, <2>3, <2>4, <2>5 DEF IInv, TypeOK
<1>8. IsFiniteSet(cut')  BY <1>1 DEF IInv
<1>9. ASSUME NEW d \in Client PROVE Busy(d)'
  <2>1. CASE d = c  BY <1>2, <1>6, <2>1 DEF Busy
  <2>2. CASE d # c
    <3>1. Busy(d)  BY DEF IInv
    <3> QED BY <1>6, <2>2, <3>1 DEF Busy
  <2> QED BY <2>1, <2>2
<1>10. ASSUME NEW j \in Conn PROVE ConnOK(j)'
  <2>1. ConnOK(j) /\ j[1] \in Client /\ j[2] \in Nat /\ j = <<j[1], j[2]>>
    BY ConnNames DEF IInv
  <2>2. CASE j = k
    <3>1. /\ j[1] = c /\ j[2] = turn[c] + 1
          /\ at'[j] = s /\ near'[j] = "open" /\ far'[j] = "backlog"
      BY <1>3, <1>6, <2>2
    <3>2. /\ at[j] = None /\ cmd[j] = None /\ up[j] = <<>> /\ down[j] = <<>> /\ j \notin cut
      BY <1>2, <2>1, <3>1 DEF ConnOK, Opened
    <3>4. Opened(j)'  BY <1>2, <1>4, <1>6, <3>1 DEF Opened
    <3>5. Commanded(j)'  BY <1>1, <1>6, <3>1, <3>2 DEF Commanded, Doing
    <3>6. Upward(j)'  BY <1>1, <1>6, <3>1, <3>2 DEF Upward, Doing
    <3>7. Downward(j)'  BY <1>1, <1>6, <3>1, <3>2 DEF Downward, Doing
    <3>8. ~Past(j)'  BY <1>2, <1>6, <3>1 DEF Past
    <3>9. Ended(j)'  BY <3>1, <3>8 DEF Ended
    <3> QED BY <3>4, <3>5, <3>6, <3>7, <3>9 DEF ConnOK
  <2>3. CASE j # k /\ j[1] # c
    <3>1. Still(j)  BY <1>1, <1>6, <2>3 DEF Still
    <3> QED BY <1>1, <1>6, <2>1, <2>3, <3>1, StillConn
  <2>4. CASE j # k /\ j[1] = c
    <3>1. Still(j)  BY <1>1, <1>6, <2>4 DEF Still
    <3>2. j[2] # turn[c] + 1  BY <2>1, <2>4 DEF k
    <3>3. ~Doing(j, Places)  BY <1>1, <2>4 DEF Doing, Places
    <3>4. ~Doing(j, Places)'
      <4>1. j # <<c, turn[c] + 1>>  BY <2>4 DEF k
      <4> QED BY <1>6, <2>4, <4>1 DEF Doing, Current
    <3>5. (j[2] <= turn'[j[1]]) <=> (j[2] <= turn[j[1]])
      BY <1>2, <1>6, <2>1, <2>4, <3>2
    <3>6. Past(j)' => Past(j)
      BY <1>1, <1>2, <1>6, <2>1, <2>4 DEF Past
    <3>7. pc[j[1]] # "dead"  BY <1>1, <2>4
    <3> QED BY <2>1, <3>1, <3>3, <3>4, <3>5, <3>6, <3>7, AsideConn DEF Aside
  <2> QED BY <2>2, <2>3, <2>4
<1> QED BY <1>7, <1>8, <1>9, <1>10 DEF IInv

LEMMA ConnectFailsOK ==
    ASSUME IInv, NEW c \in Client, ConnectFails(c)
    PROVE  IInv'
<1>1. /\ UNCHANGED <<pc, turn, todo, alive, used, at, near, far, cmd, left, up, down,
                     cut, deaths>>
      /\ pc[c] = "connect"
      /\ ip' = [ip EXCEPT ![c] = (ip[c] % Len(ServerIps)) + 1]
      /\ fds' = [fds EXCEPT ![c] = IF fds[c] = ClientFds THEN fds[c] ELSE fds[c] + 1]
  BY DEF ConnectFails, serverVars, faultVars
<1>2. TypeOK'
  <2>1. Len(ServerIps) \in Nat \ {0} /\ DOMAIN ServerIps = 1 .. Len(ServerIps)
    BY IpsAssumption, EmptySeq, LenProperties
  <2>2. ip[c] \in Nat  BY <2>1 DEF IInv, TypeOK
  <2>3. (ip[c] % Len(ServerIps)) + 1 \in 1 .. Len(ServerIps)  BY <2>1, <2>2
  <2>4. ip' \in [Client -> DOMAIN ServerIps]  BY <1>1, <2>1, <2>3 DEF IInv, TypeOK
  <2>5. fds' \in [Client -> 0 .. ClientFds]  BY <1>1, BoundAssumption DEF IInv, TypeOK
  <2> QED BY <1>1, <2>4, <2>5 DEF IInv, TypeOK
<1>3. IsFiniteSet(cut')  BY <1>1 DEF IInv
<1>4. ASSUME NEW d \in Client PROVE Busy(d)'
  BY <1>1 DEF IInv, TypeOK, Busy
<1>5. ASSUME NEW j \in Conn PROVE ConnOK(j)'
  <2>1. ConnOK(j) /\ Still(j)  BY <1>1 DEF IInv, Still
  <2> QED BY <1>1, <2>1, StillConn
<1> QED BY <1>2, <1>3, <1>4, <1>5 DEF IInv

\* The client goes back to the beginning of its loop and leaves the connection open.
LEMMA LeavesOK ==
    ASSUME IInv, NEW c \in Client, pc[c] \in Places,
           pc' = [pc EXCEPT ![c] = "connect"],
           todo' \in [Client -> Nat], \A d \in Client \ {c} : todo'[d] = todo[d],
           UNCHANGED <<turn, ip, fds, serverVars, at, near, far, cmd, left, up, down,
                       faultVars>>,
           \/ Current(c) \in cut
           \/ far[Current(c)] = "gone"
           \/ pc[c] = "prompt"
    PROVE  IInv'
<1>1. UNCHANGED <<turn, ip, fds, alive, used, at, near, far, cmd, left, up, down,
                  cut, deaths>>
  BY DEF serverVars, faultVars
<1>2. pc'[c] = "connect" /\ \A d \in Client \ {c} : pc'[d] = pc[d]
  BY DEF IInv, TypeOK
<1>3. TypeOK'
  <2>1. pc' \in [Client -> {"connect", "prompt", "send", "upload", "response",
                            "count", "download", "dead"}]
    BY DEF IInv, TypeOK
  <2> QED BY <1>1, <2>1 DEF IInv, TypeOK
<1>4. ASSUME NEW k, k = Current(c) PROVE ConnOK(k)'
  <2>1. /\ k \in Conn /\ k[1] = c /\ k[2] = turn[c] /\ ConnOK(k)
        /\ \A ps : Doing(k, ps) <=> pc[c] \in ps
    BY <1>4, AtConn
  <2>2. ~Doing(k, Places)' /\ (Op(k)' = Op(k))
    BY <1>1, <1>2, <2>1 DEF Doing, Places, Op
  <2>3. \/ ~Sound(k)
        \/ ToSend(k) = 0 /\ up[k] = <<>> /\ ~Working(k)
    <3>1. CASE pc[c] = "prompt"
      <4>1. Doing(k, {"prompt"}) /\ ~Doing(k, {"upload"}) /\ Doing(k, {"prompt", "send"})
        BY <2>1, <3>1
      <4> QED BY <2>1, <4>1 DEF ToSend, Working, ConnOK, Upward
    <3>2. CASE pc[c] # "prompt"  BY <1>4, <3>2 DEF Sound
    <3> QED BY <3>1, <3>2
  <2>4. Sound(k)' <=> Sound(k)  BY <1>1 DEF Sound
  <2>5. Opened(k)'  BY <1>1, <2>1 DEF ConnOK, Opened
  <2>6. Commanded(k)'  BY <1>1, <2>1, <2>2 DEF ConnOK, Commanded, Doing, Places
  <2>7. Upward(k)'  BY <1>1, <2>1, <2>2, <2>3, <2>4, SendsNoMore
  <2>8. Downward(k)'
    BY <1>1, <2>1, <2>2 DEF ConnOK, Downward, Answered, Doing, Places
  <2>9. Ended(k)'
    <3>1. k \notin cut => (~Working(k) /\ (far[k] \in {"backlog", "recv"} => up[k] = <<>>))
      BY <1>4, <2>1, <2>3 DEF Working, Sound, ConnOK, Upward
    <3>2. pc[k[1]] # "dead"  BY <2>1 DEF Places
    <3> QED BY <1>1, <2>1, <2>2, <3>1, <3>2 DEF ConnOK, Ended, Working
  <2> QED BY <2>5, <2>6, <2>7, <2>8, <2>9 DEF ConnOK
<1>5. Current(c)' = Current(c)  BY <1>1 DEF Current
<1>6. ConnOK(Current(c))'  BY <1>4, <1>5
<1>7. pc'[c] \notin Places  BY <1>2 DEF Places
<1> QED BY <1>1, <1>2, <1>3, <1>6, <1>7, OneClient

LEMMA ReadLineOK ==
    ASSUME IInv, NEW c \in Client, NEW l \in Typed(c), ReadLine(c, l)
    PROVE  IInv'
<1>1. l \in Line /\ l # None  BY TypedIsLine, NoneAssumption DEF IInv
<1>2. pc[c] = "prompt" /\ pc[c] \in Places
  BY DEF ReadLine, RefuseLine, Exit, TakeLine, Places
<1>3. CASE RefuseLine(c, l)
  <2>1. todo' \in [Client -> Nat] /\ todo' = todo  BY <1>3 DEF RefuseLine, IInv, TypeOK
  <2> QED BY <1>2, <1>3, <2>1, LeavesOK DEF RefuseLine
<1>4. CASE Exit(c, l)
  <2>1. deaths' \in Nat /\ deaths' + Cardinality(cut') <= Faults
    BY <1>4 DEF Exit, faultVars, IInv, TypeOK
  <2> QED BY <1>2, <1>4, <2>1, ClientEndsOK DEF Exit, faultVars
<1>5. CASE TakeLine(c, l)
  <2>1. /\ UNCHANGED <<turn, ip, fds, todo, alive, used, at, near, far, left, up, down,
                       cut, deaths>>
        /\ ~Reading[l].refused
        /\ pc' = [pc EXCEPT ![c] = "send"]
        /\ cmd' = [cmd EXCEPT ![Current(c)] = l]
    BY <1>5 DEF TakeLine, serverVars, faultVars
  <2>2. pc'[c] = "send" /\ \A d \in Client \ {c} : pc'[d] = pc[d]
    BY <2>1 DEF IInv, TypeOK
  <2>3. TypeOK'
    <3>1. pc' \in [Client -> {"connect", "prompt", "send", "upload", "response",
                              "count", "download", "dead"}]
          /\ cmd' \in [Conn -> Line \cup {None}]
      BY <1>1, <2>1 DEF IInv, TypeOK
    <3> QED BY <2>1, <3>1 DEF IInv, TypeOK
  <2>4. ASSUME NEW k, k = Current(c) PROVE ConnOK(k)'
    <3>1. /\ k \in Conn /\ k = <<c, turn[c]>> /\ k[1] = c /\ k[2] = turn[c] /\ ConnOK(k)
          /\ \A ps : Doing(k, ps) <=> pc[c] \in ps
      BY <1>2, <2>4, AtConn DEF Current
    <3>2. cmd'[k] = l  BY <2>1, <2>4, <3>1 DEF IInv, TypeOK
    <3>3. Doing(k, {"prompt"}) /\ Doing(k, {"prompt", "send"})
          /\ Doing(k, {"prompt", "send", "upload"}) /\ Doing(k, Places)
      BY <1>2, <3>1 DEF Places
    <3>4. up[k] = <<>> /\ down[k] = <<>> /\ far[k] \in {"backlog", "recv", "ended", "gone"}
      BY <3>1, <3>3 DEF ConnOK, Upward, Downward
    <3>6. Opened(k)'
      BY <1>2, <2>1, <2>4, <3>1, AtConn DEF ConnOK, Opened
    <3>7. Commanded(k)'
      BY <1>1, <2>1, <2>2, <3>1, <3>2, <3>4 DEF Commanded, Doing
    <3>8. Upward(k)'
      BY <2>1, <2>2, <3>1, <3>4 DEF Upward, Doing, Current
    <3>9. Downward(k)'
      BY <2>1, <2>2, <3>1, <3>4 DEF Downward, Doing, Current
    <3>10. Ended(k)'
      BY <1>2, <2>1, <2>2, <3>1, <3>3, <3>4 DEF ConnOK, Ended, Past, Working
    <3> QED BY <3>6, <3>7, <3>8, <3>9, <3>10 DEF ConnOK
  <2>5. Current(c)' = Current(c)  BY <2>1 DEF Current
  <2>6. ConnOK(Current(c))'  BY <2>4, <2>5
  <2>7. \A j \in Conn \ {Current(c)} : cmd'[j] = cmd[j]  BY <2>1 DEF IInv, TypeOK
  <2> QED BY <1>2, <2>1, <2>2, <2>3, <2>6, <2>7, OneClient
<1> QED BY <1>3, <1>4, <1>5 DEF ReadLine

LEMMA GiveUpOK ==
    ASSUME IInv, NEW c \in Client, pc[c] \in Places, GiveUp(c),
           UNCHANGED <<serverVars, at, far, cmd, left, up, faultVars>>,
           Current(c) \in cut \/ far[Current(c)] = "gone"
    PROVE  IInv'
<1>1. todo' \in [Client -> Nat] /\ \A d \in Client \ {c} : todo'[d] = todo[d]
  BY DEF GiveUp, IInv, TypeOK
<1> QED BY <1>1, LeavesOK DEF GiveUp

\* What arrives of a command or a file.
LEMMA Departure ==
    ASSUME IInv, NEW k \in Conn, NEW m \in ToServer,
           up' = Delivered(k, ServerGone(k), up, m)
    PROVE  /\ up' \in [Conn -> Seq(ToServer)]
           /\ \A j \in Conn \ {k} : up'[j] = up[j]
           /\ Len(up[k]) \in Nat /\ (up[k] = <<>> <=> Len(up[k]) = 0)
           /\ Len(up'[k]) \in Nat
           /\ (far[k] = "gone" \/ k \in cut) => up'[k] = up[k]
           /\ ~(far[k] = "gone" \/ k \in cut) =>
                 /\ up'[k] # <<>> /\ Len(up'[k]) = Len(up[k]) + 1
                 /\ up'[k][Len(up[k]) + 1] = m
                 /\ \A i \in 1 .. Len(up[k]) : up'[k][i] = up[k][i]
<1>1. up \in [Conn -> Seq(ToServer)] /\ up[k] \in Seq(ToServer)
  BY DEF IInv, TypeOK
<1>2. Len(up[k]) \in Nat /\ (up[k] = <<>> <=> Len(up[k]) = 0)
  BY <1>1, EmptySeq, LenProperties
<1>3. CASE far[k] = "gone" \/ k \in cut
  <2>1. up' = up  BY <1>3 DEF Delivered, ServerGone
  <2> QED BY <1>1, <1>2, <1>3, <2>1
<1>4. CASE ~(far[k] = "gone" \/ k \in cut)
  <2>1. up' = [up EXCEPT ![k] = Append(up[k], m)]
    BY <1>4 DEF Delivered, ServerGone
  <2>2. /\ Append(up[k], m) \in Seq(ToServer) /\ Append(up[k], m) # <<>>
        /\ Len(Append(up[k], m)) = Len(up[k]) + 1
        /\ Append(up[k], m)[Len(up[k]) + 1] = m
        /\ \A i \in 1 .. Len(up[k]) : Append(up[k], m)[i] = up[k][i]
    BY <1>1, AppendProperties
  <2>3. up'[k] = Append(up[k], m) /\ \A j \in Conn \ {k} : up'[j] = up[j]
    BY <1>1, <2>1
  <2>4. up' \in [Conn -> Seq(ToServer)]  BY <1>1, <2>1, <2>2
  <2> QED BY <1>2, <1>4, <2>2, <2>3, <2>4
<1> QED BY <1>3, <1>4

LEMMA SendCommandOK ==
    ASSUME IInv, NEW c \in Client, SendCommand(c)
    PROVE  IInv'
<1>1. pc[c] = "send" /\ pc[c] \in Places
      /\ UNCHANGED <<serverVars, at, far, cmd, left, faultVars>>
  BY DEF SendCommand, Places
<1>2. PICK o \in Outcomes(Current(c), ServerGone(Current(c))) :
           \/ o = "error" /\ GiveUp(c) /\ UNCHANGED up
           \/ o = "killed" /\ ClientEnds(c) /\ UNCHANGED up
           \/ /\ o = "ok"
              /\ up' = Delivered(Current(c), ServerGone(Current(c)), up, "command")
              /\ pc' = [pc EXCEPT ![c] = IF Op(Current(c)) = "add" THEN "upload" ELSE "response"]
              /\ todo' = [todo EXCEPT ![c] = IF Op(Current(c)) = "add" THEN Files(Current(c)) ELSE 0]
              /\ UNCHANGED <<turn, ip, fds, near, down>>
  BY DEF SendCommand
<1>3. CASE o = "error"
  <2>1. Current(c) \in cut \/ far[Current(c)] = "gone"
    BY <1>3 DEF Outcomes, ServerGone
  <2> QED BY <1>1, <1>2, <1>3, <2>1, GiveUpOK
<1>4. CASE o = "killed"
  <2>1. deaths' \in Nat /\ deaths' + Cardinality(cut') <= Faults
    BY <1>1 DEF faultVars, IInv, TypeOK
  <2> QED BY <1>1, <1>2, <1>4, <2>1, ClientEndsOK DEF faultVars
<1>5. CASE o = "ok"
  <2>1. UNCHANGED <<turn, ip, fds, alive, used, at, near, far, cmd, left, down, cut, deaths>>
    BY <1>1, <1>2, <1>5 DEF serverVars, faultVars
  <2>2. ASSUME NEW k, k = Current(c)
        PROVE  /\ ConnOK(k)' /\ TypeOK'
               /\ \A j \in Conn \ {k} : up'[j] = up[j]
    <3>1. /\ k \in Conn /\ k = <<c, turn[c]>> /\ k[1] = c /\ k[2] = turn[c] /\ ConnOK(k)
          /\ at[k] \in Server /\ near[k] = "open" /\ far[k] # "none"
          /\ \A ps : Doing(k, ps) <=> pc[c] \in ps
      BY <1>1, <2>2, AtConn DEF Current
    <3>2. "command" \in ToServer  BY DEF ToServer
    <3>3. up' = Delivered(k, ServerGone(k), up, "command")
      BY <1>2, <1>5, <2>2
    <3>4. Doing(k, {"send", "upload", "response", "count", "download"})
          /\ Doing(k, {"prompt", "send"}) /\ Doing(k, {"prompt", "send", "upload"})
          /\ Doing(k, Places)
      BY <1>1, <3>1
    <3>5. /\ cmd[k] # None /\ cmd[k] \in Line /\ ~Reading[cmd[k]].refused
          /\ up[k] = <<>> /\ down[k] = <<>>
          /\ far[k] \in {"backlog", "recv", "ended", "gone"}
      BY <3>1, <3>4 DEF ConnOK, Commanded, Upward, Downward
    <3>6. Files(k) \in Nat /\ (Op(k) = "add" => Files(k) >= 1)
          /\ (Op(k) # "add" => Files(k) = 0)
      BY <3>5, ReadingFiles DEF Files, Op
    <3>7. /\ pc'[c] = IF Op(k) = "add" THEN "upload" ELSE "response"
          /\ todo'[c] = Files(k)
          /\ \A d \in Client \ {c} : pc'[d] = pc[d] /\ todo'[d] = todo[d]
      BY <1>2, <1>5, <2>2, <3>6 DEF IInv, TypeOK
    <3>8. TypeOK'
      <4>1. up' \in [Conn -> Seq(ToServer)]  BY <3>1, <3>2, <3>3, Departure
      <4>2. pc' \in [Client -> {"connect", "prompt", "send", "upload", "response",
                                "count", "download", "dead"}]
            /\ todo' \in [Client -> Nat]
        <5> DEFINE n == IF Op(k) = "add" THEN Files(k) ELSE 0
                   p == IF Op(k) = "add" THEN "upload" ELSE "response"
        <5>1. n \in Nat /\ p \in {"upload", "response"}  BY <3>6
        <5>2. pc' = [pc EXCEPT ![c] = p] /\ todo' = [todo EXCEPT ![c] = n]
          BY <1>2, <1>5, <2>2
        <5> HIDE DEF n, p
        <5> QED BY <5>1, <5>2 DEF IInv, TypeOK
      <4> QED BY <2>1, <4>1, <4>2 DEF IInv, TypeOK
    <3>9. far[k] = "ended" => k \in cut  BY <3>1 DEF ConnOK, Ended
    <3>10. /\ Len(up[k]) = 0 /\ Len(up'[k]) \in Nat
           /\ (far[k] = "gone" \/ k \in cut) => up'[k] = <<>>
           /\ ~(far[k] = "gone" \/ k \in cut) =>
                 up'[k] # <<>> /\ Len(up'[k]) = 1 /\ up'[k][1] = "command"
      <4>1. Len(up[k]) = 0  BY <3>5, EmptySeq
      <4>2. /\ Len(up'[k]) \in Nat
            /\ (far[k] = "gone" \/ k \in cut) => up'[k] = up[k]
            /\ ~(far[k] = "gone" \/ k \in cut) =>
                  /\ up'[k] # <<>> /\ Len(up'[k]) = Len(up[k]) + 1
                  /\ up'[k][Len(up[k]) + 1] = "command"
        BY <3>1, <3>2, <3>3, Departure
      <4>3. CASE far[k] = "gone" \/ k \in cut  BY <3>5, <4>1, <4>2, <4>3
      <4>4. CASE ~(far[k] = "gone" \/ k \in cut)
        <5>1. Len(up'[k]) = 1 /\ up'[k][1] = "command"  BY <4>1, <4>2, <4>4
        <5> QED BY <4>1, <4>2, <4>4, <5>1
      <4> QED BY <4>3, <4>4
    <3>11. (Op(k)' = Op(k)) /\ (Files(k)' = Files(k))  BY <2>1 DEF Op, Files
    <3>12. Opened(k)'  BY <2>1, <3>1, <3>7 DEF ConnOK, Opened, IInv, TypeOK
    <3>13. Commanded(k)'
      BY <2>1, <3>1, <3>5, <3>7, <3>11 DEF Commanded, Doing
    <3>14. Upward(k)'
      <4>1. ToSend(k)' = IF Op(k) = "add" THEN Files(k) ELSE 0
        BY <2>1, <3>1, <3>7 DEF ToSend, Doing, Current
      <4>2. ~Doing(k, {"prompt", "send"})'  BY <3>1, <3>7 DEF Doing
      <4>3. Doing(k, {"upload"})' => Op(k) = "add"  BY <3>1, <3>7 DEF Doing
      <4>4. up'[k] # <<>> =>
              /\ up'[k][1] = "command"
              /\ \A i \in 2 .. Len(up'[k]) : up'[k][i] = "file"
              /\ Len(up'[k]) - 1 + ToSend(k)' <= Files(k)
              /\ Op(k) = "add" => Len(up'[k]) - 1 + ToSend(k)' = Files(k)
        <5> SUFFICES ASSUME up'[k] # <<>>
                     PROVE  /\ up'[k][1] = "command"
                            /\ \A i \in 2 .. Len(up'[k]) : up'[k][i] = "file"
                            /\ Len(up'[k]) - 1 + ToSend(k)' <= Files(k)
                            /\ Op(k) = "add" => Len(up'[k]) - 1 + ToSend(k)' = Files(k)
          OBVIOUS
        <5>1. Len(up'[k]) = 1 /\ up'[k][1] = "command"  BY <3>10
        <5>2. Len(up'[k]) - 1 + ToSend(k)' = ToSend(k)'  BY <3>6, <4>1, <5>1
        <5>3. \A i \in 2 .. Len(up'[k]) : FALSE  BY <5>1
        <5> QED BY <3>6, <4>1, <5>1, <5>2, <5>3
      <4>5. far[k] \notin {"backlog", "recv"} => up'[k] = <<>>
        <5>1. CASE far[k] = "gone"  BY <3>10, <5>1
        <5>2. CASE far[k] = "ended"
          <6>1. k \in cut  BY <3>9, <5>2
          <6> QED BY <3>10, <6>1
        <5> QED BY <3>5, <5>1, <5>2
      <4>6. far[k] \in {"backlog", "recv"} /\ k \notin cut => up'[k] # <<>>
        BY <3>10
      <4> QED BY <2>1, <3>1, <3>5, <3>6, <3>7, <3>11, <4>2, <4>3, <4>4, <4>5, <4>6 DEF Upward
    <3>15. Downward(k)'
      <4>1. Len(down[k]) = 0  BY <3>5, EmptySeq
      <4>2. ~Doing(k, {"count"})' /\ ~Doing(k, {"download"})'  BY <3>1, <3>7 DEF Doing
      <4>3. ~(Len(down[k]) > 1) /\ \A i \in 3 .. Len(down[k]) : FALSE  BY <4>1
      <4>4. down'[k] = <<>> /\ far'[k] \in {"backlog", "recv", "ended", "gone"} /\ left' = left
        BY <2>1, <3>5
      <4> QED BY <2>1, <4>2, <4>3, <4>4 DEF Downward
    <3>16. Ended(k)'
      <4>1. turn[c] \in Nat  BY <1>1, AtConn
      <4>2. ~Past(k)'  BY <2>1, <3>1, <3>7, <4>1 DEF Past
      <4> QED BY <2>1, <3>1, <3>9, <4>2 DEF Ended
    <3> QED BY <3>1, <3>2, <3>3, <3>8, <3>12, <3>13, <3>14, <3>15, <3>16, Departure DEF ConnOK
  <2>3. Current(c)' = Current(c)  BY <2>1 DEF Current
  <2>4. ConnOK(Current(c))' /\ TypeOK' /\ \A j \in Conn \ {Current(c)} : up'[j] = up[j]
    BY <2>2, <2>3
  <2>5. \A d \in Client \ {c} : pc'[d] = pc[d] /\ todo'[d] = todo[d]
    BY <1>2, <1>5 DEF IInv, TypeOK
  <2> QED BY <1>1, <2>1, <2>4, <2>5, OneClient
<1> QED BY <1>2, <1>3, <1>4, <1>5

LEMMA SendFileOK ==
    ASSUME IInv, NEW c \in Client, SendFile(c)
    PROVE  IInv'
<1>1. pc[c] = "upload" /\ pc[c] \in Places
      /\ UNCHANGED <<serverVars, at, far, cmd, left, faultVars>>
  BY DEF SendFile, Places
<1>2. PICK o \in Outcomes(Current(c), ServerGone(Current(c))) :
           \/ o = "error" /\ GiveUp(c) /\ UNCHANGED up
           \/ o = "killed" /\ ClientEnds(c) /\ UNCHANGED up
           \/ /\ o = "ok"
              /\ up' = Delivered(Current(c), ServerGone(Current(c)), up, "file")
              /\ pc' = [pc EXCEPT ![c] = IF todo[c] = 1 THEN "response" ELSE "upload"]
              /\ todo' = [todo EXCEPT ![c] = @ - 1]
              /\ UNCHANGED <<turn, ip, fds, near, down>>
  BY DEF SendFile
<1>3. CASE o = "error"
  <2>1. Current(c) \in cut \/ far[Current(c)] = "gone"
    BY <1>3 DEF Outcomes, ServerGone
  <2> QED BY <1>1, <1>2, <1>3, <2>1, GiveUpOK
<1>4. CASE o = "killed"
  <2>1. deaths' \in Nat /\ deaths' + Cardinality(cut') <= Faults
    BY <1>1 DEF faultVars, IInv, TypeOK
  <2> QED BY <1>1, <1>2, <1>4, <2>1, ClientEndsOK DEF faultVars
<1>5. CASE o = "ok"
  <2>1. UNCHANGED <<turn, ip, fds, alive, used, at, near, far, cmd, left, down, cut, deaths>>
    BY <1>1, <1>2, <1>5 DEF serverVars, faultVars
  <2>2. /\ pc' = [pc EXCEPT ![c] = IF todo[c] = 1 THEN "response" ELSE "upload"]
        /\ todo' = [todo EXCEPT ![c] = todo[c] - 1]
    BY <1>2, <1>5
  <2>3. /\ pc'[c] = IF todo[c] = 1 THEN "response" ELSE "upload"
        /\ todo'[c] = todo[c] - 1
        /\ \A d \in Client \ {c} : pc'[d] = pc[d] /\ todo'[d] = todo[d]
    BY <2>2 DEF IInv, TypeOK
  <2>4. ASSUME NEW k, k = Current(c)
        PROVE  /\ ConnOK(k)' /\ TypeOK'
               /\ \A j \in Conn \ {k} : up'[j] = up[j]
    <3>1. /\ k \in Conn /\ k = <<c, turn[c]>> /\ k[1] = c /\ k[2] = turn[c] /\ ConnOK(k)
          /\ at[k] \in Server /\ near[k] = "open" /\ far[k] # "none"
          /\ turn[c] \in Nat
          /\ \A ps : Doing(k, ps) <=> pc[c] \in ps
      BY <1>1, <2>4, AtConn DEF Current
    <3>2. "file" \in ToServer  BY DEF ToServer
    <3>3. up' = Delivered(k, ServerGone(k), up, "file")  BY <1>2, <1>5, <2>4
    <3>4. Doing(k, {"send", "upload", "response", "count", "download"})
          /\ Doing(k, {"upload"}) /\ Doing(k, {"prompt", "send", "upload"})
      BY <1>1, <3>1
    <3>5. /\ cmd[k] # None /\ cmd[k] \in Line /\ ~Reading[cmd[k]].refused
          /\ Op(k) = "add" /\ todo[c] >= 1 /\ down[k] = <<>>
          /\ far[k] \in {"backlog", "recv", "upload", "ended", "gone"}
          /\ (far[k] \in {"backlog", "recv"} /\ k \notin cut) => up[k] # <<>>
      BY <3>1, <3>4 DEF ConnOK, Commanded, Upward, Downward
    <3>6. todo[c] \in Nat  BY DEF IInv, TypeOK
    <3>7. TypeOK'
      <4>1. up' \in [Conn -> Seq(ToServer)]  BY <3>1, <3>2, <3>3, Departure
      <4>2. pc' \in [Client -> {"connect", "prompt", "send", "upload", "response",
                                "count", "download", "dead"}]
            /\ todo' \in [Client -> Nat]
        BY <2>2, <3>5, <3>6 DEF IInv, TypeOK
      <4> QED BY <2>1, <4>1, <4>2 DEF IInv, TypeOK
    <3>8. far[k] = "ended" => k \in cut  BY <3>1 DEF ConnOK, Ended
    <3>9. /\ Len(up[k]) \in Nat /\ (up[k] = <<>> <=> Len(up[k]) = 0) /\ Len(up'[k]) \in Nat
          /\ (far[k] = "gone" \/ k \in cut) => up'[k] = up[k]
          /\ ~(far[k] = "gone" \/ k \in cut) =>
                /\ up'[k] # <<>> /\ Len(up'[k]) = Len(up[k]) + 1
                /\ up'[k][Len(up[k]) + 1] = "file"
                /\ \A i \in 1 .. Len(up[k]) : up'[k][i] = up[k][i]
      BY <3>1, <3>2, <3>3, Departure
    <3>10. (Op(k)' = Op(k)) /\ (Files(k)' = Files(k)) /\ (Sound(k)' <=> Sound(k))
      BY <2>1 DEF Op, Files, Sound
    <3>11. Files(k) \in Nat  BY <3>5, ReadingFiles DEF Files
    <3>12. ToSend(k) = todo[c] /\ ToSend(k)' = todo[c] - 1
      BY <2>1, <2>3, <3>1, <3>4 DEF ToSend, Doing, Current
    <3>13. Opened(k)'  BY <2>1, <3>1 DEF ConnOK, Opened, IInv, TypeOK
    <3>14. Commanded(k)'
      BY <2>1, <2>3, <3>1, <3>5, <3>10 DEF ConnOK, Commanded, Doing
    <3>15. Upward(k)'
      <4>1. ~Doing(k, {"prompt", "send"})'  BY <2>3, <3>1 DEF Doing
      <4>2. Doing(k, {"upload"})' => todo'[c] >= 1
        BY <2>3, <3>1, <3>5, <3>6 DEF Doing
      <4>3. far[k] \notin {"backlog", "recv", "upload"} => up'[k] = <<>>
        <5>1. far[k] \notin {"backlog", "recv", "upload"} => up[k] = <<>>
          BY <3>1 DEF ConnOK, Upward
        <5>2. CASE far[k] = "gone"  BY <3>9, <5>1, <5>2
        <5>3. CASE far[k] = "ended"
          <6>1. k \in cut  BY <3>8, <5>3
          <6> QED BY <3>9, <5>1, <5>3, <6>1
        <5> QED BY <3>5, <5>2, <5>3
      <4>4. far[k] \in {"backlog", "recv"} /\ k \notin cut => up'[k] # <<>>
        BY <3>9
      <4>5. ASSUME far[k] \in {"backlog", "recv"}, up'[k] # <<>>
            PROVE  /\ up'[k][1] = "command"
                   /\ \A i \in 2 .. Len(up'[k]) : up'[k][i] = "file"
                   /\ Len(up'[k]) - 1 + (todo[c] - 1) <= Files(k)
                   /\ Sound(k) => Len(up'[k]) - 1 + (todo[c] - 1) = Files(k)
        <5>1. up[k] # <<>>  BY <3>5, <3>9, <4>5
        <5>2. Len(up[k]) >= 1  BY <3>9, <5>1
        <5>3. /\ up[k][1] = "command"
              /\ \A i \in 2 .. Len(up[k]) : up[k][i] = "file"
              /\ Len(up[k]) - 1 + todo[c] <= Files(k)
              /\ Sound(k) => Len(up[k]) - 1 + todo[c] = Files(k)
          BY <3>1, <3>5, <3>12, <4>5, <5>1 DEF ConnOK, Upward
        <5>4. CASE k \in cut
          <6>1. up'[k] = up[k] /\ ~Sound(k)  BY <3>9, <5>4 DEF Sound
          <6>2. Len(up[k]) - 1 + (todo[c] - 1) <= Files(k)
            BY <3>6, <3>9, <3>11, <5>3
          <6> QED BY <5>3, <6>1, <6>2
        <5>5. CASE k \notin cut
          <6>1. /\ Len(up'[k]) = Len(up[k]) + 1
                /\ up'[k][Len(up[k]) + 1] = "file"
                /\ \A i \in 1 .. Len(up[k]) : up'[k][i] = up[k][i]
            BY <3>9, <4>5, <5>5
          <6>2. Len(up'[k]) - 1 + (todo[c] - 1) = Len(up[k]) - 1 + todo[c]
            <7>1. Len(up'[k]) = Len(up[k]) + 1 /\ Len(up[k]) \in Nat /\ todo[c] \in Nat
              BY <3>6, <3>9, <6>1
            <7> QED BY <7>1
          <6>3. up'[k][1] = "command"  BY <3>9, <5>2, <5>3, <6>1
          <6>4. \A i \in 2 .. Len(up'[k]) : up'[k][i] = "file"  BY <3>9, <5>3, <6>1
          <6> QED BY <5>3, <6>2, <6>3, <6>4
        <5> QED BY <5>4, <5>5
      <4>6. ASSUME far[k] = "upload"
            PROVE  /\ \A i \in 1 .. Len(up'[k]) : up'[k][i] = "file"
                   /\ left[k] >= 1
                   /\ Len(up'[k]) + (todo[c] - 1) <= left[k]
                   /\ Sound(k) => Len(up'[k]) + (todo[c] - 1) = left[k]
        <5>1. /\ \A i \in 1 .. Len(up[k]) : up[k][i] = "file"
              /\ left[k] >= 1 /\ left[k] \in Nat
              /\ Len(up[k]) + todo[c] <= left[k]
              /\ Sound(k) => Len(up[k]) + todo[c] = left[k]
          BY <3>1, <3>12, <4>6 DEF ConnOK, Upward, IInv, TypeOK
        <5>2. CASE k \in cut
          <6>1. up'[k] = up[k] /\ ~Sound(k)  BY <3>9, <5>2 DEF Sound
          <6>2. Len(up[k]) + (todo[c] - 1) <= left[k]  BY <3>6, <3>9, <5>1
          <6> QED BY <5>1, <6>1, <6>2
        <5>3. CASE k \notin cut
          <6>1. /\ Len(up'[k]) = Len(up[k]) + 1
                /\ up'[k][Len(up[k]) + 1] = "file"
                /\ \A i \in 1 .. Len(up[k]) : up'[k][i] = up[k][i]
            <7>1. ~(far[k] = "gone" \/ k \in cut)  BY <4>6, <5>3
            <7> QED BY <3>9, <7>1
          <6>2. Len(up'[k]) + (todo[c] - 1) = Len(up[k]) + todo[c]
            <7>1. Len(up'[k]) = Len(up[k]) + 1 /\ Len(up[k]) \in Nat /\ todo[c] \in Nat
              BY <3>6, <3>9, <6>1
            <7> QED BY <7>1
          <6>3. \A i \in 1 .. Len(up'[k]) : up'[k][i] = "file"
            <7>1. SUFFICES ASSUME NEW i \in 1 .. Len(up'[k]) PROVE up'[k][i] = "file"
              OBVIOUS
            <7>2. i \in 1 .. Len(up[k]) \/ i = Len(up[k]) + 1
              <8>1. Len(up[k]) \in Nat /\ Len(up'[k]) = Len(up[k]) + 1  BY <3>9, <6>1
              <8> QED BY <8>1
            <7> QED BY <5>1, <6>1, <7>2
          <6> QED BY <5>1, <6>2, <6>3
        <5> QED BY <5>2, <5>3
      <4> QED BY <2>1, <3>1, <3>5, <3>10, <3>12, <4>1, <4>2, <4>3, <4>4, <4>5, <4>6 DEF Upward
    <3>16. Downward(k)'
      <4>1. Len(down[k]) = 0  BY <3>5, EmptySeq
      <4>2. ~Doing(k, {"count"})' /\ ~Doing(k, {"download"})'  BY <2>3, <3>1 DEF Doing
      <4>3. ~(Len(down[k]) > 1) /\ \A i \in 3 .. Len(down[k]) : FALSE  BY <4>1
      <4>4. /\ down'[k] = <<>> /\ left' = left
            /\ far'[k] \in {"backlog", "recv", "upload", "ended", "gone"}
        BY <2>1, <3>5
      <4> QED BY <2>1, <4>2, <4>3, <4>4 DEF Downward
    <3>17. Ended(k)'
      <4>1. ~Past(k)'  BY <2>1, <2>3, <3>1 DEF Past
      <4> QED BY <2>1, <3>1, <3>8, <4>1 DEF Ended
    <3> QED BY <3>1, <3>2, <3>3, <3>7, <3>13, <3>14, <3>15, <3>16, <3>17, Departure DEF ConnOK
  <2>5. Current(c)' = Current(c)  BY <2>1 DEF Current
  <2>6. ConnOK(Current(c))' /\ TypeOK' /\ \A j \in Conn \ {Current(c)} : up'[j] = up[j]
    BY <2>4, <2>5
  <2> QED BY <1>1, <2>1, <2>3, <2>6, OneClient
<1> QED BY <1>2, <1>3, <1>4, <1>5

\* The end of the loop closes a connection whose thread has nothing left to do.
LEMMA DoneOK ==
    ASSUME IInv, NEW c \in Client, pc[c] \in Places, Done(c),
           UNCHANGED <<serverVars, at, far, cmd, left, up, faultVars>>,
           far[Current(c)] \in {"recv", "ended", "gone"}, up[Current(c)] = <<>>
    PROVE  IInv'
<1>1. UNCHANGED <<turn, ip, alive, used, at, far, cmd, left, up, cut, deaths>>
  BY DEF Done, serverVars, faultVars
<1>2. fds[c] \in Nat /\ fds[c] >= 1 /\ Current(c) \in Conn  BY AtConn
<1>3. /\ pc'[c] = "connect" /\ todo'[c] = 0 /\ fds'[c] = fds[c] - 1
      /\ \A d \in Client \ {c} : pc'[d] = pc[d] /\ todo'[d] = todo[d] /\ fds'[d] = fds[d]
      /\ near'[Current(c)] = "closed" /\ down'[Current(c)] = <<>>
      /\ \A j \in Conn \ {Current(c)} : near'[j] = near[j] /\ down'[j] = down[j]
  BY <1>2 DEF Done, IInv, TypeOK
<1>4. TypeOK'
  <2>1. <<>> \in Seq(ToClient)  BY EmptySeq
  <2>2. fds[c] - 1 \in 0 .. ClientFds
    BY <1>2, BoundAssumption DEF IInv, TypeOK
  <2>3. fds' \in [Client -> 0 .. ClientFds]  BY <2>2 DEF Done, IInv, TypeOK
  <2>4. /\ pc' \in [Client -> {"connect", "prompt", "send", "upload", "response",
                               "count", "download", "dead"}]
        /\ todo' \in [Client -> Nat]
        /\ near' \in [Conn -> {"none", "open", "closed"}]
        /\ down' \in [Conn -> Seq(ToClient)]
    BY <2>1 DEF Done, IInv, TypeOK
  <2> QED BY <1>1, <2>3, <2>4 DEF IInv, TypeOK
<1>5. ASSUME NEW k, k = Current(c) PROVE ConnOK(k)'
  <2>1. /\ k \in Conn /\ k[1] = c /\ k[2] = turn[c] /\ ConnOK(k)
        /\ near'[k] = "closed" /\ down'[k] = <<>>
        /\ far[k] \in {"recv", "ended", "gone"} /\ up[k] = <<>>
    BY <1>3, <1>5, AtConn
  <2>2. ~Doing(k, Places)' /\ ~Sound(k)' /\ (Op(k)' = Op(k))
    BY <1>1, <1>3, <2>1 DEF Doing, Places, Sound, Op
  <2>3. Opened(k)'  BY <1>1, <2>1 DEF ConnOK, Opened
  <2>4. Commanded(k)'  BY <1>1, <2>1, <2>2 DEF ConnOK, Commanded, Doing, Places
  <2>5. Upward(k)'  BY <1>1, <2>1, <2>2, SendsNoMore
  <2>6. Downward(k)'  BY <1>1, <2>1, <2>2 DEF ConnOK, Downward, Doing, Places
  <2>7. Ended(k)'  BY <1>1, <2>1, <2>2 DEF Ended, Working
  <2> QED BY <2>3, <2>4, <2>5, <2>6, <2>7 DEF ConnOK
<1>6. Current(c)' = Current(c)  BY <1>1 DEF Current
<1>7. ConnOK(Current(c))'  BY <1>5, <1>6
<1>8. pc'[c] \notin Places  BY <1>3 DEF Places
<1> QED BY <1>1, <1>3, <1>4, <1>7, <1>8, OneClient

\* A message is read, and the client waits for the next.
LEMMA ReadsOK ==
    ASSUME IInv, NEW c \in Client, pc[c] \in {"response", "count", "download"},
           down[Current(c)] # <<>>,
           NEW p \in {"count", "download"}, NEW n \in Nat,
           pc' = [pc EXCEPT ![c] = p], todo' = [todo EXCEPT ![c] = n],
           down' = [down EXCEPT ![Current(c)] = Tail(@)],
           UNCHANGED <<turn, ip, fds, near, serverVars, at, far, cmd, left, up, faultVars>>,
           Op(Current(c)) = "get",
           p = "count" => pc[c] = "response",
           p = "download" =>
              \/ pc[c] = "count" /\ n = Head(down[Current(c)]).n /\ n > 0
              \/ pc[c] = "download" /\ n = todo[c] - 1 /\ n > 0
    PROVE  IInv'
<1>1. UNCHANGED <<turn, ip, fds, near, alive, used, at, far, cmd, left, up, cut, deaths>>
  BY DEF serverVars, faultVars
<1>2. pc[c] \in Places  BY DEF Places
<1>3. /\ pc'[c] = p /\ todo'[c] = n
      /\ \A d \in Client \ {c} : pc'[d] = pc[d] /\ todo'[d] = todo[d]
  BY DEF IInv, TypeOK
<1>4. ASSUME NEW k, k = Current(c)
      PROVE  /\ ConnOK(k)' /\ TypeOK'
             /\ \A j \in Conn \ {k} : down'[j] = down[j]
  <2>1. /\ k \in Conn /\ k = <<c, turn[c]>> /\ k[1] = c /\ k[2] = turn[c] /\ ConnOK(k)
        /\ near[k] = "open" /\ turn[c] \in Nat
        /\ \A ps : Doing(k, ps) <=> pc[c] \in ps
    BY <1>2, <1>4, AtConn DEF Current
  <2>2. /\ down'[k] = Tail(down[k]) /\ down[k] # <<>> /\ Op(k) = "get"
        /\ \A j \in Conn \ {k} : down'[j] = down[j]
    BY <1>4, <2>1 DEF IInv, TypeOK
  <2>3. /\ down[k] \in Seq(ToClient) /\ Len(down[k]) \in Nat /\ Len(down[k]) >= 1
        /\ down'[k] \in Seq(ToClient) /\ Len(down'[k]) = Len(down[k]) - 1
        /\ \A i \in 1 .. Len(down'[k]) : down'[k][i] = down[k][i + 1]
        /\ Head(down[k]) = down[k][1]
        /\ (down'[k] = <<>> <=> Len(down'[k]) = 0)
    <3>1. down[k] \in Seq(ToClient)  BY <2>1 DEF IInv, TypeOK
    <3>2. Len(down[k]) \in Nat /\ Len(down[k]) >= 1 /\ Head(down[k]) = down[k][1]
      BY <2>2, <3>1, EmptySeq
    <3>3. /\ Tail(down[k]) \in Seq(ToClient) /\ Len(Tail(down[k])) = Len(down[k]) - 1
          /\ \A i \in 1 .. Len(Tail(down[k])) : Tail(down[k])[i] = down[k][i + 1]
      BY <2>2, <3>1, HeadTailProperties
    <3>4. Tail(down[k]) = <<>> <=> Len(Tail(down[k])) = 0  BY <3>3, EmptySeq
    <3> QED BY <2>2, <3>1, <3>2, <3>3, <3>4
  <2>4. TypeOK'
    <3>1. pc' \in [Client -> {"connect", "prompt", "send", "upload", "response",
                              "count", "download", "dead"}]
          /\ todo' \in [Client -> Nat]
      BY DEF IInv, TypeOK
    <3>2. down' \in [Conn -> Seq(ToClient)]
      <4> DEFINE t == Tail(down[k])
      <4>1. t \in Seq(ToClient) /\ down' = [down EXCEPT ![k] = t]
        BY <1>4, <2>2, <2>3
      <4>2. down \in [Conn -> Seq(ToClient)]  BY DEF IInv, TypeOK
      <4> HIDE DEF t
      <4> QED BY <4>1, <4>2
    <3> QED BY <1>1, <3>1, <3>2 DEF IInv, TypeOK
  <2>5. Answered(k) /\ (Answered(k)' <=> Answered(k)) /\ up[k] = <<>>
    BY <1>1, <2>1, <2>2 DEF ConnOK, Downward, Answered
  <2>6. Doing(k, {"response", "count", "download"})
        /\ Doing(k, {"send", "upload", "response", "count", "download"})
    BY <2>1
  <2>7. ~Doing(k, {"prompt"})' /\ ~Doing(k, {"upload"})' /\ ~Doing(k, {"prompt", "send"})'
        /\ ~Doing(k, {"prompt", "send", "upload"})' /\ ~Doing(k, {"response"})'
        /\ ~Doing(k, {"upload"})
    BY <1>3, <2>1 DEF Doing
  <2>8. (Op(k)' = Op(k)) /\ (ToSend(k)' = 0) /\ ToSend(k) = 0
        /\ (Owed(k)' = Owed(k)) /\ (Sound(k)' <=> Sound(k)) /\ (Files(k)' = Files(k))
    BY <1>1, <2>7 DEF Op, ToSend, Owed, Sound, Files
  <2>9. Opened(k)'
    BY <1>1, <2>1, <2>2, <2>3 DEF ConnOK, Opened, IInv, TypeOK
  <2>10. Commanded(k)'
    BY <1>1, <2>1, <2>2, <2>6, <2>7, <2>8 DEF ConnOK, Commanded
  <2>11. Upward(k)'
    <3>1. Upward(k)  BY <2>1 DEF ConnOK
    <3>2. up'[k] = up[k] /\ far'[k] = far[k] /\ left'[k] = left[k] /\ (k \in cut' <=> k \in cut)
      BY <1>1
    <3> QED BY <2>7, <2>8, <3>1, <3>2 DEF Upward
  <2>12. Downward(k)'
    <3>1. left[k] \in Nat /\ Owed(k) \in Nat
      <4>1. left[k] \in Nat  BY <2>1 DEF IInv, TypeOK
      <4> QED BY <4>1 DEF Owed
    <3>2. /\ far[k] \in {"response", "count"} => left[k] <= Found
          /\ far[k] = "files" => left[k] >= 1
      BY <2>1 DEF ConnOK, Downward
    <3>3. far[k] = "files" => Owed(k) >= 1  BY <3>1, <3>2 DEF Owed
    <3>4. CASE p = "count"
      <4>1. Doing(k, {"response"})  BY <2>1, <3>4
      <4>2. /\ Len(down[k]) > 1 =>
                  /\ far[k] # "count"
                  /\ down[k][2].kind = "count" /\ Len(down[k]) - 2 + Owed(k) <= down[k][2].n
            /\ \A i \in 3 .. Len(down[k]) : down[k][i].kind = "pair"
            /\ k \notin cut => (far[k] = "files" => Len(down[k]) > 1)
        BY <2>1, <4>1 DEF ConnOK, Downward
      <4>3. down'[k] # <<>> => Len(down[k]) > 1  BY <2>3
      <4>4. Len(down[k]) > 1 => down'[k][1] = down[k][2]  BY <2>3
      <4>5. Len(down'[k]) - 1 = Len(down[k]) - 2  BY <2>3
      <4>6. \A i \in 2 .. Len(down'[k]) : down'[k][i].kind = "pair"  BY <2>3, <4>2
      <4>7. Len(down[k]) > 1 => down'[k] # <<>>  BY <2>3
      <4>8. ~Doing(k, {"download"})'  BY <1>3, <2>1, <3>4 DEF Doing
      <4> QED BY <1>1, <2>1, <2>5, <2>7, <2>8, <3>2, <4>2, <4>3, <4>4, <4>5, <4>6, <4>7, <4>8
              DEF Downward
    <3>5. CASE p = "download"
      <4>1. ~Doing(k, {"count"})'  BY <1>3, <2>1, <3>5 DEF Doing
      <4>2. CASE pc[c] = "count"
        <5>1. Doing(k, {"count"})  BY <2>1, <4>2
        <5>2. /\ far[k] # "count"
              /\ Len(down[k]) - 1 + Owed(k) <= down[k][1].n
              /\ \A i \in 2 .. Len(down[k]) : down[k][i].kind = "pair"
          BY <2>1, <2>2, <5>1 DEF ConnOK, Downward
        <5>3. n = down[k][1].n /\ n > 0  BY <1>4, <2>3, <3>5, <4>2
        <5>4. Len(down'[k]) + Owed(k) <= n /\ n >= 1  BY <2>3, <5>2, <5>3
        <5>5. \A i \in 1 .. Len(down'[k]) : down'[k][i].kind = "pair"  BY <2>3, <5>2
        <5> QED BY <1>1, <1>3, <2>1, <2>5, <2>7, <2>8, <3>2, <4>1, <5>2, <5>4, <5>5
                DEF Downward
      <4>3. CASE pc[c] = "download"
        <5>1. Doing(k, {"download"})  BY <2>1, <4>3
        <5>2. /\ far[k] # "count"
              /\ \A i \in 1 .. Len(down[k]) : down[k][i].kind = "pair"
              /\ Len(down[k]) + Owed(k) <= todo[c] /\ todo[c] \in Nat
          <6>1. todo[c] \in Nat  BY DEF IInv, TypeOK
          <6>2. Downward(k)  BY <2>1 DEF ConnOK
          <6> QED BY <2>1, <5>1, <6>1, <6>2 DEF Downward
        <5>3. n = todo[c] - 1 /\ n > 0  BY <3>5, <4>3
        <5>4. Len(down'[k]) + Owed(k) <= n /\ n >= 1
          <6>1. Len(down[k]) \in Nat /\ Len(down'[k]) = Len(down[k]) - 1  BY <2>3
          <6>2. Owed(k) \in Nat  BY <3>1
          <6> QED BY <5>2, <5>3, <6>1, <6>2
        <5>5. \A i \in 1 .. Len(down'[k]) : down'[k][i].kind = "pair"  BY <2>3, <5>2
        <5> QED BY <1>1, <1>3, <2>1, <2>5, <2>7, <2>8, <3>2, <4>1, <5>2, <5>4, <5>5
                DEF Downward
      <4> QED BY <3>5, <4>2, <4>3
    <3> QED BY <3>4, <3>5
  <2>13. Ended(k)'
    <3>1. ~Past(k)'  BY <1>1, <1>3, <2>1 DEF Past
    <3> QED BY <1>1, <2>1, <3>1 DEF ConnOK, Ended
  <2> QED BY <2>2, <2>4, <2>9, <2>10, <2>11, <2>12, <2>13 DEF ConnOK
<1>5. Current(c)' = Current(c)  BY <1>1 DEF Current
<1>6. ConnOK(Current(c))' /\ TypeOK' /\ \A j \in Conn \ {Current(c)} : down'[j] = down[j]
  BY <1>4, <1>5
<1> QED BY <1>1, <1>2, <1>3, <1>6, OneClient

LEMMA ReceiveOK ==
    ASSUME IInv, NEW c \in Client, Receive(c)
    PROVE  IInv'
<1> DEFINE k == Current(c)
           m == Head(down[k])
<1>1. /\ pc[c] \in {"response", "count", "download"} /\ down[k] # <<>>
      /\ UNCHANGED <<serverVars, at, far, cmd, left, up, faultVars>>
  BY DEF Receive
<1>2. \/ pc[c] = "response" /\ Op(k) # "get" /\ Done(c)
      \/ pc[c] = "count" /\ m.n = 0 /\ Done(c)
      \/ pc[c] = "download" /\ todo[c] = 1 /\ Done(c)
      \/ /\ pc[c] = "response" /\ Op(k) = "get"
         /\ pc' = [pc EXCEPT ![c] = "count"]
         /\ down' = [down EXCEPT ![k] = Tail(@)]
         /\ UNCHANGED <<turn, ip, fds, todo, near>>
      \/ /\ pc[c] = "count" /\ m.n > 0
         /\ pc' = [pc EXCEPT ![c] = "download"]
         /\ todo' = [todo EXCEPT ![c] = m.n]
         /\ down' = [down EXCEPT ![k] = Tail(@)]
         /\ UNCHANGED <<turn, ip, fds, near>>
      \/ /\ pc[c] = "download" /\ todo[c] > 1
         /\ todo' = [todo EXCEPT ![c] = @ - 1]
         /\ down' = [down EXCEPT ![k] = Tail(@)]
         /\ UNCHANGED <<pc, turn, ip, fds, near>>
  BY DEF Receive
<1>3. pc[c] \in Places  BY <1>1 DEF Places
<1>4. /\ k \in Conn /\ k[1] = c /\ ConnOK(k)
      /\ \A ps : Doing(k, ps) <=> pc[c] \in ps
  BY <1>3, AtConn
<1>5. down[k] \in Seq(ToClient) /\ left[k] \in Nat  BY <1>4 DEF IInv, TypeOK
<1>6. /\ Len(down[k]) \in Nat /\ Len(down[k]) >= 1 /\ m = down[k][1]
      /\ m.n \in Nat
  <2>1. Len(down[k]) \in Nat /\ Len(down[k]) >= 1 /\ m = down[k][1]
    BY <1>1, <1>5, EmptySeq
  <2> QED BY <1>5, <2>1, MessageNumbers
<1>7. Answered(k)  BY <1>1, <1>4 DEF ConnOK, Downward
<1>8. Owed(k) \in Nat /\ (far[k] = "files" => Owed(k) >= 1)
  <2>1. far[k] = "files" => left[k] >= 1  BY <1>4 DEF ConnOK, Downward
  <2> QED BY <1>5, <2>1 DEF Owed
<1>9. pc[c] \in {"count", "download"} => Op(k) = "get"
  <2>1. pc[c] \in {"count", "download"} => Doing(k, {"count", "download"})  BY <1>4
  <2> QED BY <1>4, <2>1 DEF ConnOK, Commanded
<1>10. todo[c] \in Nat  BY DEF IInv, TypeOK
<1> HIDE DEF k
\* The connection is closed: the answer is complete.
<1>11. CASE pc[c] = "response" /\ Op(k) # "get" /\ Done(c)
  <2>1. far[k] \notin {"count", "files"}  BY <1>4, <1>11 DEF ConnOK, Commanded
  <2>2. far[k] \in {"recv", "ended", "gone"} /\ up[k] = <<>>  BY <1>7, <2>1 DEF Answered
  <2> QED BY <1>1, <1>3, <1>11, <2>2, DoneOK DEF k
<1>12. CASE pc[c] = "count" /\ m.n = 0 /\ Done(c)
  <2>1. far[k] # "count" /\ Len(down[k]) - 1 + Owed(k) <= m.n
    <3>1. Doing(k, {"count"})  BY <1>4, <1>12
    <3> QED BY <1>1, <1>4, <1>6, <3>1 DEF ConnOK, Downward
  <2>2. far[k] # "files"  BY <1>6, <1>8, <1>12, <2>1
  <2>3. far[k] \in {"recv", "ended", "gone"} /\ up[k] = <<>>
    BY <1>7, <2>1, <2>2 DEF Answered
  <2> QED BY <1>1, <1>3, <1>12, <2>3, DoneOK DEF k
<1>13. CASE pc[c] = "download" /\ todo[c] = 1 /\ Done(c)
  <2>1. far[k] # "count" /\ Len(down[k]) + Owed(k) <= todo[c]
    <3>1. Doing(k, {"download"})  BY <1>4, <1>13
    <3> QED BY <1>4, <3>1 DEF ConnOK, Downward
  <2>2. far[k] # "files"  BY <1>6, <1>8, <1>13, <2>1
  <2>3. far[k] \in {"recv", "ended", "gone"} /\ up[k] = <<>>
    BY <1>7, <2>1, <2>2 DEF Answered
  <2> QED BY <1>1, <1>3, <1>13, <2>3, DoneOK DEF k
\* The client waits for the next message.
<1>14. CASE /\ pc[c] = "response" /\ Op(k) = "get"
            /\ pc' = [pc EXCEPT ![c] = "count"]
            /\ down' = [down EXCEPT ![k] = Tail(@)]
            /\ UNCHANGED <<turn, ip, fds, todo, near>>
  <2>1. todo' = [todo EXCEPT ![c] = todo[c]]  BY <1>14 DEF IInv, TypeOK
  <2> QED BY <1>1, <1>10, <1>14, <2>1, ReadsOK DEF k
<1>15. CASE /\ pc[c] = "count" /\ m.n > 0
            /\ pc' = [pc EXCEPT ![c] = "download"]
            /\ todo' = [todo EXCEPT ![c] = m.n]
            /\ down' = [down EXCEPT ![k] = Tail(@)]
            /\ UNCHANGED <<turn, ip, fds, near>>
  BY <1>1, <1>6, <1>9, <1>15, ReadsOK DEF k
<1>16. CASE /\ pc[c] = "download" /\ todo[c] > 1
            /\ todo' = [todo EXCEPT ![c] = @ - 1]
            /\ down' = [down EXCEPT ![k] = Tail(@)]
            /\ UNCHANGED <<pc, turn, ip, fds, near>>
  <2>1. pc' = [pc EXCEPT ![c] = "download"]  BY <1>16 DEF IInv, TypeOK
  <2>2. todo[c] - 1 \in Nat /\ todo[c] - 1 > 0  BY <1>10, <1>16
  <2> QED BY <1>1, <1>9, <1>16, <2>1, <2>2, ReadsOK DEF k
<1> QED BY <1>2, <1>11, <1>12, <1>13, <1>14, <1>15, <1>16 DEF k

LEMMA ClientOK ==
    ASSUME IInv, NEW c \in Client, ClientStep(c)
    PROVE  IInv'
<1>1. ASSUME ReceiveFails(c) PROVE IInv'
  <2>1. pc[c] \in Places /\ (Current(c) \in cut \/ far[Current(c)] = "gone")
    BY <1>1 DEF ReceiveFails, ServerGone, Places
  <2> QED BY <1>1, <2>1, GiveUpOK DEF ReceiveFails
<1> QED BY <1>1, ConnectOK, ConnectFailsOK, SendCommandOK, SendFileOK, ReceiveOK
        DEF ClientStep

LEMMA StepOK == IInv /\ [Next]_vars => IInv'
<1> SUFFICES ASSUME IInv, [Next]_vars PROVE IInv'  OBVIOUS
<1>1. CASE Next
  BY <1>1, ClientOK, KillClientOK, ReadLineOK, ThreadOK, CutLinkOK, KillServerOK,
     RestartServerOK DEF Next
<1>2. CASE UNCHANGED vars
  <2>1. UNCHANGED <<pc, turn, ip, fds, todo, alive, used, at, near, far, cmd, left, up, down,
                    cut, deaths>>
    BY <1>2 DEF vars
  <2>2. TypeOK'  BY <2>1 DEF IInv, TypeOK
  <2>3. IsFiniteSet(cut')  BY <2>1 DEF IInv
  <2>4. ASSUME NEW d \in Client PROVE Busy(d)'  BY <2>1 DEF IInv, Busy
  <2>5. ASSUME NEW j \in Conn PROVE ConnOK(j)'
    <3>1. ConnOK(j) /\ Still(j)  BY <2>1 DEF IInv, Still
    <3> QED BY <2>1, <3>1, StillConn
  <2> QED BY <2>2, <2>3, <2>4, <2>5 DEF IInv
<1> QED BY <1>1, <1>2

-----------------------------------------------------------------------------
(* How a death spreads *)

\* A server dies of a send to a client that has died before its answer was out.
LEMMA ServerDies ==
    ASSUME IInv, NEW k \in Conn, ThreadStep(k),
           NEW s \in Server, alive[s], ~alive'[s]
    PROVE  at[k] = s /\ far[k] \in {"response", "count", "files"} /\ pc[k[1]] = "dead"
<1>1. ASSUME NEW m, NEW next, Reply(k, m, next)
      PROVE  near[k] = "closed" /\ at[k] = s
  <2>1. PICK o \in Outcomes(k, ClientGone(k)) :
             \/ /\ o = "error"
                /\ far' = [far EXCEPT ![k] = "recv"]
                /\ left' = [left EXCEPT ![k] = 0]
                /\ UNCHANGED <<alive, used, up, down>>
             \/ /\ o = "killed"
                /\ ServerEnds(at[k])
                /\ UNCHANGED <<left, down>>
             \/ /\ o = "ok"
                /\ far' = [far EXCEPT ![k] = next]
                /\ left' = [left EXCEPT ![k] = IF m.kind = "pair" THEN @ - 1 ELSE @]
                /\ down' = Delivered(k, ClientGone(k), down, m)
                /\ UNCHANGED <<alive, used, up>>
    BY <1>1 DEF Reply
  <2>2. o = "killed" /\ ServerEnds(at[k])  BY <2>1
  <2>3. near[k] = "closed"  BY <2>2 DEF Outcomes, ClientGone
  <2>4. alive' = [alive EXCEPT ![at[k]] = FALSE]  BY <2>2 DEF ServerEnds
  <2>5. at[k] = s  BY <2>4 DEF IInv, TypeOK
  <2> QED BY <2>3, <2>5
<1>2. ASSUME UNCHANGED alive PROVE FALSE  BY <1>2
<1>3. far[k] \in {"response", "count", "files"} /\ near[k] = "closed" /\ at[k] = s
  <2>1. CASE SendResponse(k)  BY <1>1, <2>1 DEF SendResponse
  <2>2. CASE SendCount(k)  BY <1>1, <2>2 DEF SendCount
  <2>3. CASE SendPair(k)  BY <1>1, <2>3 DEF SendPair
  <2>4. ~(Accept(k) \/ TakeCommand(k) \/ TakeFile(k) \/ ThreadFails(k) \/ Execute(k))
    BY <1>2 DEF Accept, TakeCommand, TakeFile, ThreadFails, Execute
  <2> QED BY <2>1, <2>2, <2>3, <2>4 DEF ThreadStep
<1>4. pc[k[1]] = "dead"  BY <1>3 DEF IInv, ConnOK, Ended
<1> QED BY <1>3, <1>4

\* A client dies of a send, of its command or a file, to a server that has died.
LEMMA ClientDies ==
    ASSUME IInv, NEW d \in Client, ClientStep(d),
           NEW c \in Client, pc[c] # "dead", pc'[c] = "dead"
    PROVE  pc[c] \in {"send", "upload"} /\ ServerGone(Current(c))
<1>1. ASSUME NEW p \in {"connect", "prompt", "upload", "response", "count", "download"},
             pc' = [pc EXCEPT ![d] = p]
      PROVE  FALSE
  BY <1>1 DEF IInv, TypeOK
<1>2. pc' # pc  OBVIOUS
<1>3. ~GiveUp(d) /\ ~Done(d)  BY <1>1 DEF GiveUp, Done
<1>4. ~Connect(d) /\ ~ConnectFails(d)  BY <1>1, <1>2 DEF Connect, ConnectFails
<1>5. ~Receive(d) /\ ~ReceiveFails(d)  BY <1>1, <1>2, <1>3 DEF Receive, ReceiveFails
<1>6. \E o \in Outcomes(Current(d), ServerGone(Current(d))) : o = "killed" /\ ClientEnds(d)
  <2>1. CASE SendCommand(d)
    <3>1. ASSUME pc' = [pc EXCEPT ![d] = IF Op(Current(d)) = "add" THEN "upload" ELSE "response"]
          PROVE  FALSE
      BY <1>1, <3>1
    <3> QED BY <1>3, <2>1, <3>1 DEF SendCommand
  <2>2. CASE SendFile(d)
    <3>1. ASSUME pc' = [pc EXCEPT ![d] = IF todo[d] = 1 THEN "response" ELSE "upload"]
          PROVE  FALSE
      BY <1>1, <3>1
    <3> QED BY <1>3, <2>2, <3>1 DEF SendFile
  <2> QED BY <1>4, <1>5, <2>1, <2>2 DEF ClientStep
<1>7. ServerGone(Current(d))  BY <1>6 DEF Outcomes
<1>8. c = d  BY <1>6 DEF ClientEnds, IInv, TypeOK
<1>9. pc[d] \in {"send", "upload"}  BY <1>4, <1>5 DEF ClientStep, SendCommand, SendFile
<1> QED BY <1>7, <1>8, <1>9

LEMMA DeathStep ==
    ASSUME IInv, [Next]_vars, deaths' = deaths
    PROVE  /\ \A s \in Server : alive[s] /\ ~alive'[s] =>
                 \E k \in Conn :
                     at[k] = s /\ far[k] \in {"response", "count", "files"} /\ pc[k[1]] = "dead"
           /\ \A c \in Client : pc[c] \notin {"prompt", "dead"} /\ pc'[c] = "dead" =>
                 pc[c] \in {"send", "upload"} /\ ServerGone(Current(c))
<1>1. deaths \in Nat  BY DEF IInv, TypeOK
<1>2. ~(\E c \in Client : KillClient(c)) /\ ~(\E s \in Server : KillServer(s))
  BY <1>1 DEF KillClient, KillServer
<1>3. ASSUME NEW s \in Server, alive[s], ~alive'[s]
      PROVE  \E k \in Conn :
                 at[k] = s /\ far[k] \in {"response", "count", "files"} /\ pc[k[1]] = "dead"
  <2>1. ASSUME UNCHANGED alive PROVE FALSE  BY <1>3, <2>1
  <2>2. Next  BY <2>1 DEF vars
  <2>3. ~(\E c \in Client : ClientStep(c))
    <3>1. \A c \in Client : ClientStep(c) => UNCHANGED alive
      BY DEF ClientStep, Connect, ConnectFails, SendCommand, SendFile, Receive,
             ReceiveFails, serverVars
    <3> QED BY <2>1, <3>1
  <2>4. ~(\E c \in Client : \E l \in Typed(c) : ReadLine(c, l))
    BY <2>1 DEF ReadLine, RefuseLine, Exit, TakeLine, serverVars
  <2>5. ~(\E k \in Conn : CutLink(k))  BY <2>1 DEF CutLink, serverVars
  <2>6. ~(\E r \in Server : RestartServer(r))
    BY <1>3 DEF RestartServer, IInv, TypeOK
  <2>7. PICK k \in Conn : ThreadStep(k)
    BY <1>2, <2>2, <2>3, <2>4, <2>5, <2>6 DEF Next
  <2> QED BY <1>3, <2>7, ServerDies
<1>4. ASSUME NEW c \in Client, pc[c] \notin {"prompt", "dead"}, pc'[c] = "dead"
      PROVE  pc[c] \in {"send", "upload"} /\ ServerGone(Current(c))
  <2>1. ASSUME UNCHANGED pc PROVE FALSE  BY <1>4, <2>1
  <2>2. Next  BY <2>1 DEF vars
  <2>3. ~(\E d \in Client : \E l \in Typed(d) : ReadLine(d, l))
    <3>1. ASSUME NEW d \in Client, NEW l, ReadLine(d, l) PROVE FALSE
      <4>1. pc[d] = "prompt"  BY <3>1 DEF ReadLine, RefuseLine, Exit, TakeLine
      <4>2. \A e \in Client \ {d} : pc'[e] = pc[e]
        BY <3>1 DEF ReadLine, RefuseLine, Exit, TakeLine, ClientEnds, IInv, TypeOK
      <4> QED BY <1>4, <4>1, <4>2
    <3> QED BY <3>1
  <2>4. ~(\E k \in Conn : ThreadStep(k) \/ CutLink(k))
    <3>1. \A k \in Conn : ThreadStep(k) => UNCHANGED pc
      BY DEF ThreadStep, Accept, TakeCommand, TakeFile, ThreadFails, Execute,
             SendResponse, SendCount, SendPair, Reply, Thread, clientVars
    <3>2. \A k \in Conn : CutLink(k) => UNCHANGED pc  BY DEF CutLink, clientVars
    <3> QED BY <2>1, <3>1, <3>2
  <2>5. ~(\E s \in Server : RestartServer(s))  BY <2>1 DEF RestartServer, clientVars
  <2>6. PICK d \in Client : ClientStep(d)
    BY <1>2, <2>2, <2>3, <2>4, <2>5 DEF Next
  <2> QED BY <1>4, <2>6, ClientDies
<1> QED BY <1>3, <1>4

-----------------------------------------------------------------------------

(***************************************************************************)
(* The invariant of the sessions holds throughout: of every connection, how *)
(* far the client (client.cpp) and the thread of the server (server_loop,   *)
(* execute_command) are, and what is under way between them, fit together.  *)
(***************************************************************************)
THEOREM Invariance == Spec => []IInv
<1> QED BY InitOK, StepOK, PTL DEF Spec

(***************************************************************************)
(* The variables stay in their types: no client and no server ever counts  *)
(* more descriptors than it has, and no file is counted below zero.        *)
(***************************************************************************)
THEOREM TypeCorrect == Spec => []TypeOK
<1>1. IInv => TypeOK  BY DEF IInv
<1> QED BY Invariance, <1>1, PTL

(***************************************************************************)
(* The messages between client and server carry no tag, and yet neither    *)
(* end ever takes one for another: a thread waits for a file only when     *)
(* files come, and a client that waits for a response, a number or a file  *)
(* finds just that.                                                        *)
(***************************************************************************)
THEOREM EndsAgree == Spec => []StreamsInSync
<1> QED BY Invariance, InSync, PTL

(***************************************************************************)
(* Two commands of one client are carried out at the same time only if the *)
(* link of the first broke: the client waits for the response, and a       *)
(* thread is at work on nothing the client has given up otherwise.         *)
(***************************************************************************)
THEOREM CommandsInTurn == Spec => []OneAtATime
<1> QED BY Invariance, NoOverlap, PTL

(***************************************************************************)
(* No program ignores SIGPIPE, and any message may meet the reset that     *)
(* raises it, the first on a connection too (send_all, keepalive).  Still  *)
(* a server dies only of a client that died before its answer was out, and *)
(* a client only of a server that died and that it is sending to.          *)
(***************************************************************************)
THEOREM DeathsStay == Spec => DeathsSpread
<1> DEFINE A == deaths' = deaths =>
                   /\ \A s \in Server : alive[s] /\ ~alive'[s] =>
                         \E k \in Conn :
                             /\ at[k] = s /\ far[k] \in {"response", "count", "files"}
                             /\ pc[k[1]] = "dead"
                   /\ \A c \in Client : pc[c] \notin {"prompt", "dead"} /\ pc'[c] = "dead" =>
                         pc[c] \in {"send", "upload"} /\ ServerGone(Current(c))
<1>1. IInv /\ [Next]_vars => [A]_vars  BY DeathStep
<1> QED BY Invariance, <1>1, PTL DEF Spec, DeathsSpread

-----------------------------------------------------------------------------
(* The lines, for any set of characters *)

Keyword == QueryOp \cup PairOp \cup {"exit"}

Char == Character \cup Keyword \cup Bracket

-----------------------------------------------------------------------------
(* Numbers *)

LEMMA LeastNumber ==
    ASSUME NEW S \in SUBSET Nat, S # {}
    PROVE  \E n \in S : \A m \in S : n <= m
<1> DEFINE R == OpToRel(<, Nat)
<1>1. IsWellFoundedOn(R, Nat)
  BY NatLessThanWellFounded
<1> HIDE DEF R
<1>2. PICK n \in S : \A m \in S : ~(<<m, n>> \in R)
  BY <1>1, WFMin
<1>3. \A m \in S : m < n => <<m, n>> \in R
  BY DEF R, OpToRel
<1>4. \A m \in S : ~(m < n)
  BY <1>2, <1>3
<1>5. \A m \in S : m \in Nat /\ n \in Nat
  OBVIOUS
<1>6. \A m \in S : n <= m
  BY <1>4, <1>5
<1> QED
  BY <1>6

\* What no number from 0 up to n fails first, n does not fail.
LEMMA NoneFails ==
    ASSUME NEW S \in SUBSET Nat, 0 \notin S, \A i \in S : i > 0 => i - 1 \in S
    PROVE  S = {}
<1>1. SUFFICES ASSUME S # {} PROVE FALSE
  OBVIOUS
<1>2. PICK n \in S : \A m \in S : n <= m
  BY <1>1, LeastNumber
<1>3. n > 0 /\ n - 1 \in S
  BY <1>2
<1> QED
  BY <1>2, <1>3

-----------------------------------------------------------------------------
(* The loop of tokenize_command *)

Start == [tokens |-> <<>>, word |-> <<>>]

\* g[i] is what the loop has after the first i characters of the line.
Reads(line, n, g) ==
    g = [i \in 0 .. n |-> IF i = 0 THEN Start ELSE ReadCharacter(g[i - 1], line[i])]

LEMMA ReadsExist ==
    ASSUME NEW line, NEW n \in Nat
    PROVE  \E g : Reads(line, n, g)
<1> DEFINE S == {k \in Nat : ~\E g : Reads(line, k, g)}
<1>1. 0 \notin S
  <2> DEFINE g == [i \in 0 .. 0 |-> Start]
  <2>1. Reads(line, 0, g)
    BY DEF Reads
  <2> QED
    BY <2>1
<1>2. ASSUME NEW k \in Nat, k > 0, k - 1 \notin S PROVE k \notin S
  <2>1. PICK g : Reads(line, k - 1, g)
    <3>1. k - 1 \in Nat
      BY <1>2
    <3> QED
      BY <1>2, <3>1
  <2> DEFINE h == [i \in 0 .. k |-> IF i < k THEN g[i] ELSE ReadCharacter(g[k - 1], line[k])]
  <2>2. \A i \in 0 .. (k - 1) : g[i] = IF i = 0 THEN Start ELSE ReadCharacter(g[i - 1], line[i])
    BY <2>1 DEF Reads
  <2>3. ASSUME NEW i \in 0 .. k
        PROVE  h[i] = IF i = 0 THEN Start ELSE ReadCharacter(h[i - 1], line[i])
    <3>1. CASE i < k
      <4>1. i \in 0 .. (k - 1) /\ h[i] = g[i]
        BY <1>2, <3>1
      <4>2. i # 0 => i - 1 \in 0 .. k /\ i - 1 < k /\ h[i - 1] = g[i - 1]
        BY <1>2, <3>1
      <4> QED
        BY <2>2, <4>1, <4>2
    <3>2. CASE i = k
      <4>1. k - 1 \in 0 .. k /\ k - 1 < k /\ h[k - 1] = g[k - 1]
        BY <1>2
      <4> QED
        BY <1>2, <3>2, <4>1
    <3> QED
      BY <1>2, <3>1, <3>2
  <2>4. Reads(line, k, h)
    <3>1. h = [i \in 0 .. k |-> h[i]]
      OBVIOUS
    <3> HIDE DEF h
    <3> QED
      BY <2>3, <3>1 DEF Reads
  <2> QED
    BY <1>2, <2>4
<1> HIDE DEF S
<1>3. S = {}
  <2>1. S \in SUBSET Nat
    BY DEF S
  <2>2. \A i \in S : i > 0 => i - 1 \in S
    BY <1>2, <2>1
  <2> QED
    BY <1>1, <2>1, <2>2, NoneFails
<1> QED
  BY <1>3 DEF S

LEMMA TokensAre ==
    ASSUME NEW line \in Seq(Char)
    PROVE  \E g : Reads(line, Len(line), g) /\ Tokens(line) = EndWord(g[Len(line)]).tokens
<1> DEFINE n == Len(line)
           g == CHOOSE f : Reads(line, n, f)
<1>1. n \in Nat
  BY LenProperties
<1>2. Reads(line, n, g)
  BY <1>1, ReadsExist
<1>3. Tokens(line) = EndWord(g[n]).tokens
  BY DEF Tokens, Reads, Start
<1> QED
  BY <1>2, <1>3

-----------------------------------------------------------------------------
(* Where tokens begin *)

\* The number of tokens that begin at or before i.
Rank(line, i) == Cardinality({j \in Starts(line) : j <= i})

LEMMA StartsAre ==
    ASSUME NEW line \in Seq(Char)
    PROVE  /\ Starts(line) \in SUBSET (1 .. Len(line))
           /\ \A i \in 1 .. Len(line) :
                 i \in Starts(line) <=> line[i] \in Bracket \/ (IsWordAt(line, i) /\ ~IsWordAt(line, i - 1))
<1>1. DOMAIN line = 1 .. Len(line)
  BY LenProperties
<1> QED
  BY <1>1 DEF Starts

LEMMA WordsAre ==
    ASSUME NEW line \in Seq(Char)
    PROVE  /\ \A i \in 1 .. Len(line) : IsWordAt(line, i) <=> line[i] \notin Blank \cup Bracket
           /\ ~IsWordAt(line, 0) /\ ~IsWordAt(line, Len(line) + 1)
<1>1. DOMAIN line = 1 .. Len(line) /\ Len(line) \in Nat
  BY LenProperties
<1> QED
  BY <1>1 DEF IsWordAt

LEMMA RankStep ==
    ASSUME NEW line \in Seq(Char)
    PROVE  /\ Rank(line, 0) = 0
           /\ \A i \in 0 .. Len(line) : Rank(line, i) \in Nat
           /\ Rank(line, Len(line)) = Cardinality(Starts(line))
           /\ \A i \in 1 .. Len(line) :
                 Rank(line, i) = IF i \in Starts(line) THEN Rank(line, i - 1) + 1 ELSE Rank(line, i - 1)
<1> DEFINE T(i) == {j \in Starts(line) : j <= i}
<1>1. Len(line) \in Nat /\ Starts(line) \in SUBSET (1 .. Len(line))
  BY LenProperties, StartsAre
<1>2. IsFiniteSet(1 .. Len(line))
  BY <1>1, FS_Interval
<1>3. ASSUME NEW i \in 0 .. Len(line) PROVE IsFiniteSet(T(i)) /\ Cardinality(T(i)) \in Nat
  <2>1. T(i) \subseteq 1 .. Len(line)
    BY <1>1
  <2> QED
    BY <1>2, <2>1, FS_Subset, FS_CardinalityType
<1>4. T(0) = {} /\ T(Len(line)) = Starts(line)
  BY <1>1
<1>5. ASSUME NEW i \in 1 .. Len(line)
      PROVE  Cardinality(T(i)) = IF i \in Starts(line) THEN Cardinality(T(i - 1)) + 1 ELSE Cardinality(T(i - 1))
  <2>1. CASE i \in Starts(line)
    <3>1. T(i) = T(i - 1) \cup {i} /\ i \notin T(i - 1)
      BY <1>1, <2>1
    <3>2. IsFiniteSet(T(i - 1))
      BY <1>3
    <3> QED
      BY <2>1, <3>1, <3>2, FS_AddElement
  <2>2. CASE i \notin Starts(line)
    <3>1. T(i) = T(i - 1)
      BY <1>1, <2>2
    <3> QED
      BY <2>2, <3>1
  <2> QED
    BY <2>1, <2>2
<1>6. \A i : Rank(line, i) = Cardinality(T(i))
  BY DEF Rank
<1> HIDE DEF T
<1> QED
  BY <1>3, <1>4, <1>5, <1>6, <1>1, FS_EmptySet

\* Ranks tell the starts apart.
LEMMA RankGrows ==
    ASSUME NEW line \in Seq(Char), NEW i \in 1 .. Len(line), NEW j \in 1 .. Len(line), i < j
    PROVE  /\ Rank(line, i) <= Rank(line, j - 1)
           /\ j \in Starts(line) => Rank(line, i) < Rank(line, j)
<1> DEFINE T(m) == {x \in Starts(line) : x <= m}
<1>1. Len(line) \in Nat /\ Starts(line) \in SUBSET (1 .. Len(line))
  BY LenProperties, StartsAre
<1>2. IsFiniteSet(1 .. Len(line))
  BY <1>1, FS_Interval
<1>3. T(i) \subseteq T(j - 1) /\ T(j - 1) \subseteq 1 .. Len(line)
  BY <1>1
<1>4. Cardinality(T(i)) <= Cardinality(T(j - 1))
  BY <1>2, <1>3, FS_Subset
<1>5. Rank(line, i) <= Rank(line, j - 1)
  BY <1>4 DEF Rank
<1>6. Rank(line, i) \in Nat /\ Rank(line, j - 1) \in Nat
      /\ (j \in Starts(line) => Rank(line, j) = Rank(line, j - 1) + 1)
  <2>1. j - 1 \in 0 .. Len(line) /\ i \in 0 .. Len(line)
    BY <1>1
  <2> QED
    BY <2>1, RankStep
<1> QED
  BY <1>5, <1>6

\* Every number up to that of the starts is the rank of one.
LEMMA RankedStart ==
    ASSUME NEW line \in Seq(Char), NEW m \in 1 .. Cardinality(Starts(line))
    PROVE  \E j \in Starts(line) : Rank(line, j) = m
<1> DEFINE n == Len(line)
           S == {i \in 0 .. n : \E x \in 1 .. Rank(line, i) : \A j \in Starts(line) : Rank(line, j) # x}
<1>0. n \in Nat /\ S \in SUBSET Nat
  BY LenProperties
<1>1. 0 \notin S
  BY RankStep
<1>2. ASSUME NEW i \in S, i > 0 PROVE i - 1 \in S
  <2>1. i \in 1 .. n /\ i - 1 \in 0 .. n
    BY <1>0, <1>2
  <2>2. PICK x \in 1 .. Rank(line, i) : \A j \in Starts(line) : Rank(line, j) # x
    OBVIOUS
  <2>3. Rank(line, i) = IF i \in Starts(line) THEN Rank(line, i - 1) + 1 ELSE Rank(line, i - 1)
    BY <2>1, RankStep
  <2>4. Rank(line, i - 1) \in Nat /\ Rank(line, i) \in Nat
    BY <2>1, RankStep
  <2>5. x \in 1 .. Rank(line, i - 1)
    BY <2>2, <2>3, <2>4
  <2> QED
    BY <2>1, <2>2, <2>5
<1> HIDE DEF S
<1>3. S = {}
  BY <1>0, <1>1, <1>2, NoneFails
<1>4. m \in 1 .. Rank(line, n)
  BY RankStep
<1>5. n \in 0 .. n
  BY <1>0
<1> QED
  BY <1>3, <1>4, <1>5 DEF S

-----------------------------------------------------------------------------
(* What stands at a start *)

LEMMA OnlyOne ==
    ASSUME NEW T, NEW c \in T, NEW s \in Seq(T), Len(s) = 1, s[1] = c
    PROVE  s = <<c>>
<1>1. s \in [1 .. 1 -> T]
  BY LenProperties
<1>2. s = [i \in 1 .. 1 |-> c]
  BY <1>1
<1>3. <<c>> = [i \in 1 .. 1 |-> c]
  OBVIOUS
<1> QED
  BY <1>2, <1>3

LEMMA BracketToken ==
    ASSUME NEW line \in Seq(Char), NEW i \in 1 .. Len(line), line[i] \in Bracket
    PROVE  TokenAt(line, i) = <<line[i]>>
<1> DEFINE ends == {j \in i .. Len(line) : ~IsWordAt(line, j + 1) \/ line[i] \in Bracket}
           e == CHOOSE j \in ends : \A k \in ends : j <= k
<1>0. Len(line) \in Nat /\ line[i] \in Char
  BY LenProperties, ElementOfSeq
<1>1. i \in ends /\ \A k \in ends : i <= k
  BY <1>0
<1>2. \A j \in ends : (\A k \in ends : j <= k) => j = i
  BY <1>0, <1>1
<1>3. e = i
  BY <1>1, <1>2
<1>4. TokenAt(line, i) = SubSeq(line, i, e)
  BY DEF TokenAt
<1>5. SubSeq(line, i, i) = <<line[i]>>
  <2>1. \A j \in i .. i : line[j] \in Char
    BY <1>0
  <2>2. /\ SubSeq(line, i, i) \in Seq(Char) /\ Len(SubSeq(line, i, i)) = 1
        /\ SubSeq(line, i, i)[1] = line[i]
    BY <2>1, SubSeqProperties
  <2> QED
    BY <1>0, <2>2, OnlyOne
<1> QED
  BY <1>3, <1>4, <1>5

\* A word ends where it is followed by something else.
LEMMA WordToken ==
    ASSUME NEW line \in Seq(Char), NEW i \in 1 .. Len(line), NEW e \in i .. Len(line),
           \A j \in i .. e : IsWordAt(line, j), ~IsWordAt(line, e + 1)
    PROVE  TokenAt(line, i) = SubSeq(line, i, e)
<1> DEFINE ends == {j \in i .. Len(line) : ~IsWordAt(line, j + 1) \/ line[i] \in Bracket}
           f == CHOOSE j \in ends : \A k \in ends : j <= k
<1>0. Len(line) \in Nat
  BY LenProperties
<1>1. line[i] \notin Bracket
  <2>1. i \in i .. e
    BY <1>0
  <2> QED
    BY <2>1, WordsAre
<1>2. e \in ends
  BY <1>0
<1>3. \A k \in ends : e <= k
  <2>1. ASSUME NEW k \in ends, k < e PROVE FALSE
    <3>1. k + 1 \in i .. e /\ ~IsWordAt(line, k + 1)
      BY <1>0, <1>1, <2>1
    <3> QED
      BY <3>1
  <2>2. \A k \in ends : k \in Int /\ e \in Int
    BY <1>0
  <2> QED
    BY <2>1, <2>2
<1>4. \A j \in ends : (\A k \in ends : j <= k) => j = e
  BY <1>0, <1>2, <1>3
<1>5. f = e
  BY <1>2, <1>3, <1>4
<1> QED
  BY <1>5 DEF TokenAt

-----------------------------------------------------------------------------
(* What the loop has read *)

Word == Seq(Char)

\* The tokens that begin up to i are read and no others.
ReadTo(line, i, toks) ==
    /\ toks \in Seq(Word) /\ Len(toks) = Rank(line, i)
    /\ \A j \in Starts(line) : j <= i => toks[Rank(line, j)] = TokenAt(line, j)

\* The word that begins at b is in hand up to i.
InHand(line, i, b, a) ==
    /\ b \in 1 .. i /\ b \in Starts(line) /\ Rank(line, i) = Rank(line, b)
    /\ \A j \in b .. i : IsWordAt(line, j)
    /\ a.word = SubSeq(line, b, i)
    /\ ReadTo(line, b - 1, a.tokens)

ReadInv(line, i, a) ==
    /\ a \in [tokens : Seq(Word), word : Word]
    /\ IsWordAt(line, i) => \E b : InHand(line, i, b, a)
    /\ ~IsWordAt(line, i) => a.word = <<>> /\ ReadTo(line, i, a.tokens)

LEMMA ReadInit ==
    ASSUME NEW line \in Seq(Char) PROVE ReadInv(line, 0, Start)
<1>1. Start \in [tokens : Seq(Word), word : Word] /\ Start.tokens = <<>> /\ Start.word = <<>>
  BY EmptySeq DEF Start, Word
<1>2. Starts(line) \in SUBSET (1 .. Len(line)) /\ Rank(line, 0) = 0 /\ ~IsWordAt(line, 0)
  BY StartsAre, RankStep, WordsAre
<1>3. ReadTo(line, 0, <<>>)
  BY <1>2, EmptySeq DEF ReadTo
<1> QED
  BY <1>1, <1>2, <1>3 DEF ReadInv

\* One more token.
LEMMA ReadOneMore ==
    ASSUME NEW line \in Seq(Char), NEW b \in 1 .. Len(line), b \in Starts(line),
           NEW toks, ReadTo(line, b - 1, toks), NEW w \in Word, w = TokenAt(line, b),
           NEW i \in b .. Len(line), Rank(line, i) = Rank(line, b)
    PROVE  ReadTo(line, i, Append(toks, w))
<1>0. Len(line) \in Nat /\ Starts(line) \in SUBSET (1 .. Len(line)) /\ b - 1 \in 0 .. Len(line)
  BY LenProperties, StartsAre
<1>1. Rank(line, b) = Rank(line, b - 1) + 1 /\ Rank(line, b - 1) \in Nat
  BY <1>0, RankStep
<1>2. toks \in Seq(Word) /\ Len(toks) = Rank(line, b - 1)
  BY DEF ReadTo
<1> DEFINE t == Append(toks, w)
<1>3. t \in Seq(Word) /\ Len(t) = Len(toks) + 1 /\ t[Len(toks) + 1] = w
      /\ \A m \in 1 .. Len(toks) : t[m] = toks[m]
  BY <1>2, AppendProperties
<1> HIDE DEF t
<1>4. ASSUME NEW j \in Starts(line), j <= i PROVE t[Rank(line, j)] = TokenAt(line, j)
  <2>1. CASE j < b
    <3>1. Rank(line, j) <= Rank(line, b - 1) /\ Rank(line, j) \in Nat
      <4>1. j \in 1 .. Len(line) /\ j \in 0 .. Len(line)
        BY <1>0
      <4> QED
        BY <2>1, <4>1, RankGrows, RankStep
    <3>2. Rank(line, j) >= 1
      <4>1. j \in 1 .. Len(line) /\ j - 1 \in 0 .. Len(line)
        BY <1>0
      <4>2. Rank(line, j) = Rank(line, j - 1) + 1 /\ Rank(line, j - 1) \in Nat
        BY <4>1, RankStep
      <4> QED
        BY <4>2
    <3>3. Rank(line, j) \in 1 .. Len(toks)
      BY <1>2, <3>1, <3>2
    <3>4. toks[Rank(line, j)] = TokenAt(line, j)
      BY <1>0, <2>1 DEF ReadTo
    <3> QED
      BY <1>3, <3>3, <3>4
  <2>2. CASE j = b
    BY <1>1, <1>2, <1>3, <2>2
  <2>3. CASE j > b
    <3>1. j \in 1 .. Len(line) /\ i \in 1 .. Len(line) /\ j \in 0 .. Len(line) /\ i \in 0 .. Len(line)
      BY <1>0
    <3>2. Rank(line, b) < Rank(line, j)
      BY <2>3, <3>1, RankGrows
    <3>3. Rank(line, j) <= Rank(line, i)
      <4>1. CASE j = i
        BY <3>1, <4>1, RankStep
      <4>2. CASE j < i
        <5>1. Rank(line, j) <= Rank(line, i - 1)
          BY <3>1, <4>2, RankGrows
        <5>2. Rank(line, i - 1) <= Rank(line, i) /\ Rank(line, i - 1) \in Nat /\ Rank(line, i) \in Nat /\ Rank(line, j) \in Nat
          <6>1. i - 1 \in 0 .. Len(line)
            BY <3>1
          <6>2. Rank(line, i - 1) \in Nat /\ Rank(line, i) \in Nat /\ Rank(line, j) \in Nat
            BY <3>1, <6>1, RankStep
          <6>3. Rank(line, i) = IF i \in Starts(line) THEN Rank(line, i - 1) + 1 ELSE Rank(line, i - 1)
            BY <3>1, RankStep
          <6> QED
            BY <6>2, <6>3
        <5> QED
          BY <5>1, <5>2
      <4> QED
        BY <1>4, <3>1, <4>1, <4>2
    <3>4. Rank(line, j) \in Nat /\ Rank(line, i) \in Nat
      BY <3>1, RankStep
    <3> QED
      BY <3>2, <3>3, <3>4
  <2> QED
    BY <1>0, <2>1, <2>2, <2>3
<1>5. Len(t) = Rank(line, i)
  BY <1>1, <1>2, <1>3
<1>6. ReadTo(line, i, t)
  BY <1>3, <1>4, <1>5 DEF ReadTo
<1> QED
  BY <1>6 DEF t

\* After the end of a word all tokens up to here are read.
LEMMA WordEnded ==
    ASSUME NEW line \in Seq(Char), NEW i \in 0 .. Len(line), ~IsWordAt(line, i + 1),
           NEW a, ReadInv(line, i, a)
    PROVE  /\ EndWord(a) = [tokens |-> EndWord(a).tokens, word |-> <<>>]
           /\ ReadTo(line, i, EndWord(a).tokens)
<1>0. Len(line) \in Nat
  BY LenProperties
<1>1. EndWord(a) = [tokens |-> EndWord(a).tokens, word |-> <<>>]
  BY DEF EndWord
<1>2. CASE ~IsWordAt(line, i)
  BY <1>2 DEF ReadInv, EndWord
<1>3. CASE IsWordAt(line, i)
  <2>1. PICK b : InHand(line, i, b, a)
    BY <1>3 DEF ReadInv
  <2>2. b \in 1 .. Len(line) /\ i \in b .. Len(line) /\ b \in Starts(line) /\ b \in 1 .. i
    BY <1>0, <2>1 DEF InHand
  <2>3. TokenAt(line, b) = SubSeq(line, b, i)
    BY <2>1, <2>2, WordToken DEF InHand
  <2>4. SubSeq(line, b, i) \in Seq(Char) /\ Len(SubSeq(line, b, i)) = i - b + 1
    <3>1. \A j \in b .. i : line[j] \in Char
      BY <1>0, <2>2, ElementOfSeq
    <3> QED
      BY <2>2, <3>1, SubSeqProperties
  <2>5. a.word = TokenAt(line, b) /\ a.word \in Word /\ a.word # <<>>
    <3>1. Len(a.word) # 0
      BY <1>0, <2>1, <2>2, <2>4 DEF InHand
    <3> QED
      BY <2>1, <2>3, <2>4, <3>1, EmptySeq DEF InHand, Word
  <2>6. EndWord(a).tokens = Append(a.tokens, a.word)
    BY <2>5 DEF EndWord
  <2>7. ReadTo(line, b - 1, a.tokens) /\ Rank(line, i) = Rank(line, b)
    BY <2>1 DEF InHand
  <2>8. ReadTo(line, i, Append(a.tokens, a.word))
    BY <2>2, <2>5, <2>7, ReadOneMore
  <2> QED
    BY <1>1, <2>6, <2>8
<1> QED
  BY <1>1, <1>2, <1>3

LEMMA ReadStep ==
    ASSUME NEW line \in Seq(Char), NEW i \in 1 .. Len(line), NEW a, ReadInv(line, i - 1, a)
    PROVE  ReadInv(line, i, ReadCharacter(a, line[i]))
<1> DEFINE ch == line[i]
<1>0. /\ Len(line) \in Nat /\ i - 1 \in 0 .. Len(line) /\ i - 1 + 1 = i /\ ch \in Char
      /\ i \in i .. Len(line) /\ Starts(line) \in SUBSET (1 .. Len(line))
  BY LenProperties, ElementOfSeq, StartsAre
<1>1. /\ Rank(line, i) = IF i \in Starts(line) THEN Rank(line, i - 1) + 1 ELSE Rank(line, i - 1)
      /\ IsWordAt(line, i) <=> ch \notin Blank \cup Bracket
      /\ i \in Starts(line) <=> ch \in Bracket \/ (IsWordAt(line, i) /\ ~IsWordAt(line, i - 1))
  BY RankStep, WordsAre, StartsAre
<1>2. a \in [tokens : Seq(Word), word : Word]
  BY DEF ReadInv
<1>3. ASSUME ~IsWordAt(line, i)
      PROVE  /\ EndWord(a) = [tokens |-> EndWord(a).tokens, word |-> <<>>]
             /\ ReadTo(line, i - 1, EndWord(a).tokens)
  BY <1>0, <1>3, WordEnded
<1>4. <<>> \in Word
  BY EmptySeq DEF Word
<1> SUFFICES ReadInv(line, i, ReadCharacter(a, ch))
  OBVIOUS
<1> HIDE DEF ch
<1>5. CASE ch \in Blank
  <2>1. ch \notin Bracket /\ ~IsWordAt(line, i) /\ i \notin Starts(line)
    BY <1>1, <1>5 DEF Blank, Bracket
  <2>2. ReadCharacter(a, ch) = EndWord(a)
    BY <1>5 DEF ReadCharacter, Blank, Bracket
  <2>3. ReadTo(line, i, EndWord(a).tokens)
    <3>1. \A j \in Starts(line) : j <= i => j <= i - 1
      BY <1>0, <2>1
    <3> QED
      BY <1>1, <1>3, <2>1, <3>1 DEF ReadTo
  <2>4. EndWord(a) \in [tokens : Seq(Word), word : Word] /\ EndWord(a).word = <<>>
    BY <1>3, <1>4, <2>1 DEF ReadTo
  <2> QED
    BY <2>1, <2>2, <2>3, <2>4 DEF ReadInv
<1>6. CASE ch \in Bracket
  <2>1. ch \notin Blank /\ ~IsWordAt(line, i) /\ i \in Starts(line)
    BY <1>1, <1>6 DEF Blank, Bracket
  <2> DEFINE t == EndWord(a).tokens
             r == [tokens |-> Append(t, <<ch>>), word |-> <<>>]
  <2>2. EndWord(a) = [tokens |-> t, word |-> <<>>] /\ ReadTo(line, i - 1, t)
    BY <1>3, <2>1
  <2>4. ReadCharacter(a, ch) = r
    BY <1>6, <2>1 DEF ReadCharacter
  <2> HIDE DEF t
  <2>5. <<ch>> \in Word /\ <<ch>> = TokenAt(line, i)
    BY <1>0, <1>6, BracketToken DEF Word, ch
  <2>6. ReadTo(line, i, Append(t, <<ch>>))
    BY <1>0, <2>1, <2>2, <2>5, ReadOneMore
  <2>7. Append(t, <<ch>>) \in Seq(Word)
    BY <2>6 DEF ReadTo
  <2>8. r \in [tokens : Seq(Word), word : Word]
    BY <1>4, <2>7
  <2> QED
    BY <2>1, <2>4, <2>6, <2>8 DEF ReadInv
<1>7. CASE ch \notin Blank \cup Bracket
  <2>1. IsWordAt(line, i)
    BY <1>1, <1>7
  <2> DEFINE w == Append(a.word, ch)
             r == [tokens |-> a.tokens, word |-> w]
  <2>2. ReadCharacter(a, ch) = r
    BY <1>2, <1>7 DEF ReadCharacter
  <2>3. w \in Word
    BY <1>0, <1>2, AppendProperties DEF Word
  <2>4. r \in [tokens : Seq(Word), word : Word] /\ r.tokens = a.tokens /\ r.word = w
    BY <1>2, <2>3
  <2> HIDE DEF w, r
  <2>5. \E b : InHand(line, i, b, r)
    <3>1. CASE ~IsWordAt(line, i - 1)
      <4>1. i \in Starts(line) /\ a.word = <<>> /\ ReadTo(line, i - 1, a.tokens)
        BY <1>1, <2>1, <3>1 DEF ReadInv
      <4>2. w = SubSeq(line, i, i)
        <5>1. SubSeq(line, i, i) = SubSeq(line, i, i - 1) \o <<line[i]>>
          BY <1>0, SubSeqRecursiveSecond
        <5>2. SubSeq(line, i, i - 1) = <<>>
          BY <1>0, SubSeqEmpty
        <5>3. w = <<>> \o <<ch>>
          BY <1>0, <4>1, EmptySeq, AppendIsConcat DEF w
        <5> QED
          BY <5>1, <5>2, <5>3 DEF ch
      <4>3. \A j \in i .. i : IsWordAt(line, j)
        BY <2>1
      <4>4. InHand(line, i, i, r)
        BY <1>0, <2>4, <4>1, <4>2, <4>3 DEF InHand
      <4> QED
        BY <4>4
    <3>2. CASE IsWordAt(line, i - 1)
      <4>1. PICK b : InHand(line, i - 1, b, a)
        BY <3>2 DEF ReadInv
      <4>2. /\ b \in 1 .. i - 1 /\ b \in Starts(line) /\ Rank(line, i - 1) = Rank(line, b)
            /\ \A j \in b .. i - 1 : IsWordAt(line, j)
            /\ a.word = SubSeq(line, b, i - 1)
            /\ ReadTo(line, b - 1, a.tokens)
        BY <4>1 DEF InHand
      <4>3. i \notin Starts(line)
        BY <1>1, <1>7, <3>2
      <4>4. w = SubSeq(line, b, i)
        <5>1. SubSeq(line, b, i) = SubSeq(line, b, i - 1) \o <<line[i]>>
          <6>1. b \in 1 .. Len(line) /\ i \in b .. Len(line)
            BY <1>0, <4>2
          <6> QED
            BY <6>1, SubSeqRecursiveSecond
        <5>2. w = a.word \o <<ch>>
          BY <1>0, <1>2, AppendIsConcat DEF w, Word
        <5> QED
          BY <4>2, <5>1, <5>2 DEF ch
      <4>5. \A j \in b .. i : IsWordAt(line, j)
        <5>1. \A j \in b .. i : j = i \/ j \in b .. i - 1
          BY <1>0, <4>2
        <5> QED
          BY <2>1, <4>2, <5>1
      <4>6. b \in 1 .. i /\ Rank(line, i) = Rank(line, b)
        BY <1>0, <1>1, <4>2, <4>3
      <4>7. InHand(line, i, b, r)
        BY <2>4, <4>2, <4>4, <4>5, <4>6 DEF InHand
      <4> QED
        BY <4>7
    <3> QED
      BY <3>1, <3>2
  <2> QED
    BY <2>1, <2>2, <2>4, <2>5 DEF ReadInv
<1> QED
  BY <1>5, <1>6, <1>7

LEMMA ReadAll ==
    ASSUME NEW line \in Seq(Char), NEW g, Reads(line, Len(line), g)
    PROVE  \A i \in 0 .. Len(line) : ReadInv(line, i, g[i])
<1> DEFINE S == {i \in 0 .. Len(line) : ~ReadInv(line, i, g[i])}
<1>0. Len(line) \in Nat /\ S \in SUBSET Nat
  BY LenProperties
<1>1. \A i \in 0 .. Len(line) : g[i] = IF i = 0 THEN Start ELSE ReadCharacter(g[i - 1], line[i])
  BY DEF Reads
<1>2. 0 \notin S
  <2>1. 0 \in 0 .. Len(line)
    BY <1>0
  <2>2. g[0] = Start
    BY <1>1, <2>1
  <2> QED
    BY <2>2, ReadInit
<1>3. ASSUME NEW i \in S, i > 0 PROVE i - 1 \in S
  <2>1. i \in 1 .. Len(line) /\ i - 1 \in 0 .. Len(line) /\ i \in 0 .. Len(line)
    BY <1>0, <1>3
  <2>2. g[i] = ReadCharacter(g[i - 1], line[i])
    BY <1>1, <1>3, <2>1
  <2>3. ReadInv(line, i - 1, g[i - 1]) => ReadInv(line, i, ReadCharacter(g[i - 1], line[i]))
    BY <2>1, ReadStep
  <2> QED
    BY <2>1, <2>2, <2>3
<1> HIDE DEF S
<1>4. S = {}
  BY <1>0, <1>2, <1>3, NoneFails
<1> QED
  BY <1>4 DEF S

\* The tokens the loop makes of a line are the ones that are written in it.
LEMMA TokensWritten ==
    ASSUME NEW line \in Seq(Char)
    PROVE  Tokens(line) = WrittenTokens(line) /\ Tokens(line) \in Seq(Word)
<1> DEFINE n == Len(line)
           N == Cardinality(Starts(line))
<1>0. n \in Nat /\ n \in 0 .. n /\ ~IsWordAt(line, n + 1) /\ Rank(line, n) = N
      /\ Starts(line) \in SUBSET (1 .. n)
  BY LenProperties, WordsAre, RankStep, StartsAre
<1>1. PICK g : Reads(line, n, g) /\ Tokens(line) = EndWord(g[n]).tokens
  BY TokensAre
<1>2. ReadInv(line, n, g[n])
  BY <1>0, <1>1, ReadAll
<1> DEFINE T == Tokens(line)
<1>3. ReadTo(line, n, T)
  BY <1>0, <1>1, <1>2, WordEnded
<1>4. T \in Seq(Word) /\ Len(T) = N /\ \A j \in Starts(line) : T[Rank(line, j)] = TokenAt(line, j)
  BY <1>0, <1>3 DEF ReadTo
<1>5. T = [m \in 1 .. N |-> T[m]]
  BY <1>4, LenProperties
<1> HIDE DEF T
<1>6. ASSUME NEW m \in 1 .. N
      PROVE  T[m] = TokenAt(line, CHOOSE i \in Starts(line) : Cardinality({j \in Starts(line) : j <= i}) = m)
  <2>1. PICK s \in Starts(line) : Rank(line, s) = m
    BY RankedStart
  <2> DEFINE c == CHOOSE i \in Starts(line) : Rank(line, i) = m
  <2>2. c \in Starts(line) /\ Rank(line, c) = m
    BY <2>1
  <2>3. c = CHOOSE i \in Starts(line) : Cardinality({j \in Starts(line) : j <= i}) = m
    BY DEF Rank
  <2> HIDE DEF c
  <2>4. T[m] = TokenAt(line, c)
    BY <1>4, <2>2
  <2> QED
    BY <2>3, <2>4
<1>7. T = WrittenTokens(line)
  BY <1>5, <1>6 DEF WrittenTokens
<1> QED
  BY <1>4, <1>7 DEF T

-----------------------------------------------------------------------------
(* Lists of tokens *)

\* The tokens from p to q are a bracket, one or more names, and a bracket.
ListFrom(tk, p, q) ==
    /\ p + 2 <= q /\ q <= Len(tk)
    /\ tk[p] = Open /\ tk[q] = Close
    /\ \A k \in (p + 1) .. (q - 1) : tk[k] # Close

LEMMA CloseIs ==
    ASSUME NEW tk \in Seq(Word), NEW i \in 1 .. Len(tk) + 1
    PROVE  /\ CloseFrom(tk, i) \in i .. Len(tk) + 1
           /\ CloseFrom(tk, i) <= Len(tk) => tk[CloseFrom(tk, i)] = Close
           /\ \A k \in i .. Len(tk) : k < CloseFrom(tk, i) => tk[k] # Close
<1> DEFINE places == {j \in i .. Len(tk) : tk[j] = Close}
<1>0. Len(tk) \in Nat
  BY LenProperties
<1>1. CASE places = {}
  <2>1. CloseFrom(tk, i) = Len(tk) + 1
    BY <1>1 DEF CloseFrom
  <2> QED
    BY <1>0, <1>1, <2>1
<1>2. CASE places # {}
  <2>1. PICK m \in places : \A k \in places : m <= k
    <3>1. places \in SUBSET Nat
      BY <1>0
    <3> QED
      BY <1>2, <3>1, LeastNumber
  <2> DEFINE c == CHOOSE j \in places : \A k \in places : j <= k
  <2>2. c \in places /\ \A k \in places : c <= k
    BY <2>1
  <2>3. CloseFrom(tk, i) = c
    BY <1>2 DEF CloseFrom
  <2> HIDE DEF c
  <2>4. c \in i .. Len(tk) /\ tk[c] = Close
    BY <2>2
  <2>5. ASSUME NEW k \in i .. Len(tk), k < c PROVE tk[k] # Close
    <3>1. k \notin places
      BY <1>0, <2>2, <2>4, <2>5
    <3> QED
      BY <3>1
  <2> QED
    BY <1>0, <2>3, <2>4, <2>5
<1> QED
  BY <1>1, <1>2

LEMMA CloseFound ==
    ASSUME NEW tk \in Seq(Word), NEW p \in Nat \ {0}, NEW q \in Nat, ListFrom(tk, p, q)
    PROVE  CloseFrom(tk, p + 1) = q
<1>1. Len(tk) \in Nat /\ p + 1 \in 1 .. Len(tk) + 1 /\ q \in p + 1 .. Len(tk) /\ tk[q] = Close
  BY LenProperties DEF ListFrom
<1> DEFINE c == CloseFrom(tk, p + 1)
<1>2. /\ c \in p + 1 .. Len(tk) + 1
      /\ c <= Len(tk) => tk[c] = Close
      /\ \A k \in p + 1 .. Len(tk) : k < c => tk[k] # Close
  BY <1>1, CloseIs
<1> HIDE DEF c
<1>3. ~(q < c)
  BY <1>1, <1>2
<1>4. c < q => FALSE
  <2>1. SUFFICES ASSUME c < q PROVE FALSE
    OBVIOUS
  <2>2. c \in (p + 1) .. (q - 1) /\ c <= Len(tk)
    BY <1>1, <1>2, <2>1
  <2> QED
    BY <1>2, <2>2 DEF ListFrom
<1>5. c = q
  BY <1>1, <1>2, <1>3, <1>4
<1> QED
  BY <1>5 DEF c

LEMMA TokenListIs ==
    ASSUME NEW tk \in Seq(Word), NEW p \in Nat \ {0}
    PROVE  /\ \A q \in Nat : IsTokenList(tk, p) = q + 1 <=> ListFrom(tk, p, q)
           /\ IsTokenList(tk, p) = NotAList \/ \E q \in Nat : IsTokenList(tk, p) = q + 1
<1>0. Len(tk) \in Nat
  BY LenProperties
<1> DEFINE c == CloseFrom(tk, p + 1)
           good == p <= Len(tk) /\ tk[p] = Open /\ c \in (p + 2) .. Len(tk)
<1>1. IsTokenList(tk, p) = IF good THEN c + 1 ELSE NotAList
  <2>1. p + 1 + 1 = p + 2
    OBVIOUS
  <2> QED
    BY DEF IsTokenList
<1>2. ASSUME good PROVE ListFrom(tk, p, c) /\ c \in Nat
  <2>1. p + 1 \in 1 .. Len(tk) + 1 /\ c \in (p + 2) .. Len(tk) /\ tk[p] = Open
    BY <1>0, <1>2
  <2>2. /\ c <= Len(tk) => tk[c] = Close
        /\ \A k \in p + 1 .. Len(tk) : k < c => tk[k] # Close
    BY <2>1, CloseIs
  <2> HIDE DEF c
  <2>3. \A k \in (p + 1) .. (c - 1) : k \in p + 1 .. Len(tk) /\ k < c
    BY <1>0, <2>1
  <2> QED
    BY <1>0, <2>1, <2>2, <2>3 DEF ListFrom
<1>3. ASSUME NEW q \in Nat, ListFrom(tk, p, q) PROVE good /\ c = q
  <2>1. c = q
    BY <1>3, CloseFound
  <2> HIDE DEF c
  <2>2. p <= Len(tk) /\ tk[p] = Open /\ q \in (p + 2) .. Len(tk)
    BY <1>0, <1>3 DEF ListFrom
  <2> QED
    BY <2>1, <2>2
<1> HIDE DEF c, good
<1>4. ASSUME NEW q \in Nat, IsTokenList(tk, p) = q + 1 PROVE ListFrom(tk, p, q)
  <2>1. good /\ c + 1 = q + 1
    BY <1>1, <1>4 DEF NotAList
  <2>2. c \in Nat /\ ListFrom(tk, p, c)
    BY <1>2, <2>1
  <2>3. c = q
    BY <2>1, <2>2
  <2> QED
    BY <2>2, <2>3
<1>5. ASSUME NEW q \in Nat, ListFrom(tk, p, q) PROVE IsTokenList(tk, p) = q + 1
  BY <1>1, <1>3, <1>5
<1>6. IsTokenList(tk, p) = NotAList \/ \E q \in Nat : IsTokenList(tk, p) = q + 1
  BY <1>1, <1>2
<1> QED
  BY <1>4, <1>5, <1>6

LEMMA PieceIs ==
    ASSUME NEW tk \in Seq(Word), NEW p \in Nat \ {0}, NEW q \in Nat, q <= Len(tk)
    PROVE  /\ SubSeq(tk, p, q) \in Seq(Word)
           /\ Len(SubSeq(tk, p, q)) = IF p <= q THEN q - p + 1 ELSE 0
           /\ \A i \in 1 .. q - p + 1 : SubSeq(tk, p, q)[i] = tk[p + i - 1]
<1>1. \A i \in p .. q : tk[i] \in Word
  <2>1. \A i \in p .. q : i \in 1 .. Len(tk)
    BY LenProperties
  <2> QED
    BY <2>1, ElementOfSeq
<1> QED
  BY <1>1, SubSeqProperties

LEMMA BracketedIs ==
    ASSUME NEW tk \in Seq(Word), NEW p \in Nat \ {0}, NEW q \in Nat, q <= Len(tk)
    PROVE  Bracketed(SubSeq(tk, p, q)) <=> ListFrom(tk, p, q)
<1> DEFINE s == SubSeq(tk, p, q)
<1>1. /\ s \in Seq(Word) /\ Len(s) = IF p <= q THEN q - p + 1 ELSE 0
      /\ \A i \in 1 .. q - p + 1 : s[i] = tk[p + i - 1]
  BY PieceIs
<1>0. Len(tk) \in Nat
  BY LenProperties
<1> HIDE DEF s
<1>2. Bracketed(s) <=> p + 2 <= q /\ s[1] = Open /\ s[Len(s)] = Close
                       /\ \A i \in 2 .. (Len(s) - 1) : s[i] # Close
  BY <1>1 DEF Bracketed
<1>3. ASSUME p + 2 <= q
      PROVE  /\ Len(s) = q - p + 1 /\ s[1] = tk[p] /\ s[Len(s)] = tk[q]
             /\ \A i \in 2 .. (Len(s) - 1) : s[i] = tk[p + i - 1] /\ p + i - 1 \in (p + 1) .. (q - 1)
             /\ \A k \in (p + 1) .. (q - 1) : tk[k] = s[k - p + 1] /\ k - p + 1 \in 2 .. (Len(s) - 1)
  <2>1. Len(s) = q - p + 1
    BY <1>1, <1>3
  <2>2. s[1] = tk[p]
    <3>1. 1 \in 1 .. q - p + 1 /\ p + 1 - 1 = p
      BY <1>3
    <3> QED
      BY <1>1, <3>1
  <2>3. s[Len(s)] = tk[q]
    <3>1. Len(s) \in 1 .. q - p + 1 /\ p + Len(s) - 1 = q
      BY <1>3, <2>1
    <3> QED
      BY <1>1, <3>1
  <2>4. ASSUME NEW i \in 2 .. (Len(s) - 1)
        PROVE  s[i] = tk[p + i - 1] /\ p + i - 1 \in (p + 1) .. (q - 1)
    <3>1. i \in 1 .. q - p + 1 /\ p + i - 1 \in (p + 1) .. (q - 1)
      BY <1>3, <2>1
    <3> QED
      BY <1>1, <3>1
  <2>5. ASSUME NEW k \in (p + 1) .. (q - 1)
        PROVE  tk[k] = s[k - p + 1] /\ k - p + 1 \in 2 .. (Len(s) - 1)
    <3>1. k - p + 1 \in 1 .. q - p + 1 /\ k - p + 1 \in 2 .. (Len(s) - 1) /\ p + (k - p + 1) - 1 = k
      BY <1>3, <2>1
    <3> QED
      BY <1>1, <3>1
  <2> QED
    BY <2>1, <2>2, <2>3, <2>4, <2>5
<1>4. ASSUME ListFrom(tk, p, q) PROVE Bracketed(s)
  <2>1. p + 2 <= q /\ tk[p] = Open /\ tk[q] = Close /\ \A k \in (p + 1) .. (q - 1) : tk[k] # Close
    BY <1>4 DEF ListFrom
  <2> QED
    BY <1>2, <1>3, <2>1
<1>5. ASSUME Bracketed(s) PROVE ListFrom(tk, p, q)
  <2>1. p + 2 <= q /\ s[1] = Open /\ s[Len(s)] = Close /\ \A i \in 2 .. (Len(s) - 1) : s[i] # Close
    BY <1>2, <1>5
  <2>2. \A k \in (p + 1) .. (q - 1) : tk[k] # Close
    BY <1>3, <2>1
  <2> QED
    BY <1>3, <2>1, <2>2 DEF ListFrom
<1> QED
  BY <1>4, <1>5 DEF s

\* A piece of a piece.
LEMMA PieceOfPiece ==
    ASSUME NEW tk \in Seq(Word), NEW p \in Nat \ {0}, NEW q \in Nat, p <= q, q <= Len(tk),
           NEW a \in Nat \ {0}, NEW b \in Nat, b <= q - p + 1
    PROVE  SubSeq(SubSeq(tk, p, q), a, b) = SubSeq(tk, p + a - 1, p + b - 1)
<1>0. Len(tk) \in Nat /\ p + a - 1 \in Nat \ {0} /\ p + b - 1 \in Nat /\ p + b - 1 <= Len(tk)
  BY LenProperties
<1> DEFINE s == SubSeq(tk, p, q)
           u == SubSeq(s, a, b)
           v == SubSeq(tk, p + a - 1, p + b - 1)
<1>1. s \in Seq(Word) /\ Len(s) = q - p + 1 /\ \A i \in 1 .. q - p + 1 : s[i] = tk[p + i - 1]
  BY PieceIs
<1> HIDE DEF s
<1>2. u \in Seq(Word) /\ Len(u) = (IF a <= b THEN b - a + 1 ELSE 0)
      /\ \A i \in 1 .. b - a + 1 : u[i] = s[a + i - 1]
  BY <1>1, PieceIs
<1>3. v \in Seq(Word) /\ Len(v) = (IF p + a - 1 <= p + b - 1 THEN (p + b - 1) - (p + a - 1) + 1 ELSE 0)
      /\ \A i \in 1 .. (p + b - 1) - (p + a - 1) + 1 : v[i] = tk[(p + a - 1) + i - 1]
  BY <1>0, PieceIs
<1> HIDE DEF u, v
<1>4. Len(u) = Len(v)
  BY <1>2, <1>3
<1>5. ASSUME NEW i \in 1 .. Len(u) PROVE u[i] = v[i]
  <2>1. i \in 1 .. b - a + 1 /\ i \in 1 .. (p + b - 1) - (p + a - 1) + 1 /\ a + i - 1 \in 1 .. q - p + 1
        /\ p + (a + i - 1) - 1 = (p + a - 1) + i - 1
    BY <1>2
  <2> QED
    BY <1>1, <1>2, <1>3, <2>1
<1>6. u = v
  BY <1>2, <1>3, <1>4, <1>5, SeqEqual
<1> QED
  BY <1>6 DEF u, v, s

LEMMA InnerIs ==
    ASSUME NEW tk \in Seq(Word), NEW p \in Nat \ {0}, NEW q \in Nat, ListFrom(tk, p, q)
    PROVE  Inner(SubSeq(tk, p, q)) = SubSeq(tk, p + 1, q - 1)
<1>1. p <= q /\ q <= Len(tk) /\ q - p \in Nat /\ q - p <= q - p + 1
  BY DEF ListFrom
<1>2. Len(SubSeq(tk, p, q)) - 1 = q - p
  BY <1>1, PieceIs
<1>3. SubSeq(SubSeq(tk, p, q), 2, q - p) = SubSeq(tk, p + 2 - 1, p + (q - p) - 1)
  BY <1>1, PieceOfPiece
<1>4. p + 2 - 1 = p + 1 /\ p + (q - p) - 1 = q - 1
  OBVIOUS
<1> QED
  BY <1>2, <1>3, <1>4 DEF Inner

-----------------------------------------------------------------------------
(* The grammar *)

\* The first token is the keyword op.
LEMMA KeywordIs ==
    ASSUME NEW tk \in Seq(Word), tk # <<>>, NEW op \in Keyword
    PROVE  OpOf(tk) = op <=> tk[1] = <<op>>
<1>1. tk[1] \in Word /\ Len(tk) \in Nat \ {0}
  <2>1. Len(tk) \in Nat \ {0}
    BY EmptySeq
  <2> QED
    BY <2>1, ElementOfSeq
<1> DEFINE w == tk[1]
<1>2. w \in Seq(Char)
  BY <1>1 DEF Word
<1>3. OpOf(tk) = IF Len(w) = 1 /\ w[1] \in Keyword THEN w[1] ELSE "none"
  BY DEF OpOf, Keyword
<1>4. op \in Char /\ op # "none"
  BY DEF Char, Keyword, QueryOp, PairOp
<1> HIDE DEF w
<1>5. Len(w) = 1 /\ w[1] = op => w = <<op>>
  BY <1>2, <1>4, OnlyOne
<1>6. Len(<<op>>) = 1 /\ <<op>>[1] = op
  OBVIOUS
<1>7. OpOf(tk) = op <=> w = <<op>>
  BY <1>3, <1>4, <1>5, <1>6
<1> QED
  BY <1>7 DEF w

LEMMA RestIs ==
    ASSUME NEW tk \in Seq(Word), tk # <<>>
    PROVE  /\ Tail(tk) = SubSeq(tk, 2, Len(tk)) /\ Tail(tk) \in Seq(Word)
           /\ Len(Tail(tk)) = Len(tk) - 1 /\ Len(tk) \in Nat \ {0}
BY TailIsSubSeq, HeadTailProperties, EmptySeq

\* Two lists follow the first token, and one ends at token i + 1.
LEMMA SplitsAre ==
    ASSUME NEW tk \in Seq(Word), tk # <<>>, NEW i
    PROVE  i \in Splits(Tail(tk)) <=>
              i \in Nat /\ ListFrom(tk, 2, i + 1) /\ ListFrom(tk, i + 2, Len(tk))
<1> DEFINE n == Len(tk)
           rest == Tail(tk)
<1>1. rest = SubSeq(tk, 2, n) /\ rest \in Seq(Word) /\ Len(rest) = n - 1 /\ n \in Nat \ {0}
  BY RestIs
<1>2. ASSUME NEW j \in 1 .. (n - 2)
      PROVE  /\ SubSeq(rest, 1, j) = SubSeq(tk, 2, j + 1)
             /\ SubSeq(rest, j + 1, n - 1) = SubSeq(tk, j + 2, n)
             /\ Bracketed(SubSeq(rest, 1, j)) <=> ListFrom(tk, 2, j + 1)
             /\ Bracketed(SubSeq(rest, j + 1, n - 1)) <=> ListFrom(tk, j + 2, n)
  <2>0. 2 <= n /\ j \in Nat /\ j <= n - 2 + 1 /\ j + 1 \in Nat \ {0} /\ n - 1 \in Nat /\ n - 1 <= n - 2 + 1
        /\ 2 + 1 - 1 = 2 /\ 2 + j - 1 = j + 1 /\ 2 + (j + 1) - 1 = j + 2 /\ 2 + (n - 1) - 1 = n /\ n \in Nat
        /\ n <= n
    BY <1>1
  <2>1. SubSeq(SubSeq(tk, 2, n), 1, j) = SubSeq(tk, 2 + 1 - 1, 2 + j - 1)
    BY <2>0, PieceOfPiece
  <2>2. SubSeq(SubSeq(tk, 2, n), j + 1, n - 1) = SubSeq(tk, 2 + (j + 1) - 1, 2 + (n - 1) - 1)
    BY <2>0, PieceOfPiece
  <2>3. SubSeq(rest, 1, j) = SubSeq(tk, 2, j + 1) /\ SubSeq(rest, j + 1, n - 1) = SubSeq(tk, j + 2, n)
    BY <1>1, <2>0, <2>1, <2>2
  <2>4. Bracketed(SubSeq(tk, 2, j + 1)) <=> ListFrom(tk, 2, j + 1)
    <3>1. j + 1 \in Nat /\ j + 1 <= Len(tk)
      BY <2>0
    <3> QED
      BY <3>1, BracketedIs
  <2>5. Bracketed(SubSeq(tk, j + 2, n)) <=> ListFrom(tk, j + 2, n)
    <3>1. j + 2 \in Nat \ {0} /\ n \in Nat /\ n <= Len(tk)
      BY <2>0
    <3> QED
      BY <3>1, BracketedIs
  <2> QED
    BY <2>3, <2>4, <2>5
<1>3. i \in Splits(rest) <=> i \in 1 .. (n - 2) /\ Bracketed(SubSeq(rest, 1, i)) /\ Bracketed(SubSeq(rest, i + 1, n - 1))
  <2>1. n - 1 - 1 = n - 2
    BY <1>1
  <2> QED
    BY <1>1, <2>1 DEF Splits
<1>4. i \in Nat /\ ListFrom(tk, 2, i + 1) /\ ListFrom(tk, i + 2, n) => i \in 1 .. (n - 2)
  BY <1>1 DEF ListFrom
<1>5. i \in 1 .. (n - 2) => i \in Nat
  OBVIOUS
<1> QED
  BY <1>2, <1>3, <1>4, <1>5

\* The two lists of is_message_correct.
LEMMA PairIs ==
    ASSUME NEW tk \in Seq(Word), tk # <<>>
    PROVE  IsTokenList(tk, 2) # NotAList /\ IsTokenList(tk, IsTokenList(tk, 2)) = Len(tk) + 1
              <=> Splits(Tail(tk)) # {}
<1> DEFINE n == Len(tk)
<1>0. n \in Nat \ {0}
  BY RestIs
<1>1. ASSUME IsTokenList(tk, 2) # NotAList, IsTokenList(tk, IsTokenList(tk, 2)) = n + 1
      PROVE  Splits(Tail(tk)) # {}
  <2>1. PICK q \in Nat : IsTokenList(tk, 2) = q + 1
    BY <1>1, TokenListIs
  <2>2. ListFrom(tk, 2, q)
    BY <2>1, TokenListIs
  <2>3. IsTokenList(tk, q + 1) = n + 1
    BY <1>1, <2>1
  <2>4. q + 1 \in Nat \ {0} /\ n \in Nat
    BY <1>0
  <2>5. ListFrom(tk, q + 1, n)
    BY <2>3, <2>4, TokenListIs
  <2>6. q - 1 \in Nat /\ (q - 1) + 1 = q /\ (q - 1) + 2 = q + 1
    BY <2>2 DEF ListFrom
  <2>7. q - 1 \in Splits(Tail(tk))
    BY <2>2, <2>5, <2>6, SplitsAre
  <2> QED
    BY <2>7
<1>2. ASSUME Splits(Tail(tk)) # {}
      PROVE  IsTokenList(tk, 2) # NotAList /\ IsTokenList(tk, IsTokenList(tk, 2)) = n + 1
  <2>1. PICK i : i \in Splits(Tail(tk))
    BY <1>2
  <2>2. i \in Nat /\ ListFrom(tk, 2, i + 1) /\ ListFrom(tk, i + 2, n)
    BY <2>1, SplitsAre
  <2>3. i + 1 \in Nat /\ i + 2 \in Nat \ {0} /\ n \in Nat
    BY <1>0, <2>2
  <2>4. IsTokenList(tk, 2) = (i + 1) + 1
    BY <2>2, <2>3, TokenListIs
  <2>5. IsTokenList(tk, i + 2) = n + 1
    BY <2>2, <2>3, TokenListIs
  <2>6. (i + 1) + 1 = i + 2 /\ i + 2 # NotAList
    BY <2>2 DEF NotAList
  <2> QED
    BY <2>4, <2>5, <2>6
<1> QED
  BY <1>1, <1>2

\* is_message_correct decides the grammar, whatever the tokens are.
LEMMA GrammarIs ==
    ASSUME NEW tk \in Seq(Word)
    PROVE  IsMessageCorrect(tk) <=> InGrammar(tk)
<1>1. CASE tk = <<>>
  <2>1. OpOf(tk) = "none" /\ "none" \notin Keyword /\ tk # <<<<"exit">>>>
    <3>1. Len(<<>>) = 0 /\ Len(<<<<"exit">>>>) = 1
      OBVIOUS
    <3> QED
      BY <1>1, <3>1 DEF OpOf, Keyword, QueryOp, PairOp
  <2> QED
    BY <1>1, <2>1 DEF IsMessageCorrect, InGrammar, Keyword
<1>2. CASE tk # <<>>
  <2>0. Tail(tk) = SubSeq(tk, 2, Len(tk)) /\ Len(tk) \in Nat \ {0} /\ tk[1] \in Word
    BY <1>2, RestIs, ElementOfSeq
  <2>1. OpOf(tk) \in QueryOp <=> tk[1] \in {<<op>> : op \in QueryOp}
    BY <1>2, KeywordIs DEF Keyword
  <2>2. OpOf(tk) \in PairOp <=> tk[1] \in {<<op>> : op \in PairOp}
    BY <1>2, KeywordIs DEF Keyword
  <2>3. OpOf(tk) = "exit" /\ Len(tk) = 1 <=> tk = <<<<"exit">>>>
    <3>1. OpOf(tk) = "exit" <=> tk[1] = <<"exit">>
      BY <1>2, KeywordIs DEF Keyword
    <3>2. <<"exit">> \in Word
      <4>1. "exit" \in Char
        BY DEF Char, Keyword
      <4> QED
        BY <4>1 DEF Word
    <3>3. Len(tk) = 1 /\ tk[1] = <<"exit">> => tk = <<<<"exit">>>>
      BY <3>2, OnlyOne
    <3> QED
      BY <3>1, <3>3
  <2>4. IsTokenList(tk, 2) = Len(tk) + 1 <=> Bracketed(Tail(tk))
    <3>1. IsTokenList(tk, 2) = Len(tk) + 1 <=> ListFrom(tk, 2, Len(tk))
      BY <2>0, TokenListIs
    <3>2. Bracketed(SubSeq(tk, 2, Len(tk))) <=> ListFrom(tk, 2, Len(tk))
      BY <2>0, BracketedIs
    <3> QED
      BY <2>0, <3>1, <3>2
  <2>5. IsTokenList(tk, 2) # NotAList /\ IsTokenList(tk, IsTokenList(tk, 2)) = Len(tk) + 1
          <=> Splits(Tail(tk)) # {}
    BY <1>2, PairIs
  <2> QED
    BY <1>2, <2>1, <2>2, <2>3, <2>4, <2>5 DEF IsMessageCorrect, InGrammar
<1> QED
  BY <1>1, <1>2

\* The loops of execute_command end at the brackets.
LEMMA NamesAre ==
    ASSUME NEW tk \in Seq(Word), NEW p \in Nat \ {0}, NEW q \in Nat, ListFrom(tk, p, q)
    PROVE  NamesFrom(tk, p + 1) = Inner(SubSeq(tk, p, q))
BY CloseFound, InnerIs DEF NamesFrom

LEMMA LoopsRead ==
    ASSUME NEW tk \in Seq(Word), IsMessageCorrect(tk)
    PROVE  /\ OpOf(tk) \in QueryOp => FirstList(tk) = Inner(Tail(tk))
           /\ OpOf(tk) \in PairOp =>
                 \A i \in Splits(Tail(tk)) :
                    /\ FirstList(tk) = Inner(SubSeq(Tail(tk), 1, i))
                    /\ SecondList(tk) = Inner(SubSeq(Tail(tk), i + 1, Len(Tail(tk))))
<1>1. tk # <<>>
  <2>1. SUFFICES ASSUME tk = <<>> PROVE FALSE
    OBVIOUS
  <2>2. OpOf(tk) = "none"
    BY <2>1 DEF OpOf
  <2> QED
    BY <2>2 DEF IsMessageCorrect, QueryOp, PairOp
<1>2. Tail(tk) = SubSeq(tk, 2, Len(tk)) /\ Len(Tail(tk)) = Len(tk) - 1 /\ Len(tk) \in Nat \ {0}
  BY <1>1, RestIs
<1>3. ASSUME OpOf(tk) \in QueryOp PROVE FirstList(tk) = Inner(Tail(tk))
  <2>1. OpOf(tk) # "exit" /\ OpOf(tk) \notin PairOp
    BY <1>3 DEF QueryOp, PairOp
  <2>2. IsTokenList(tk, 2) = Len(tk) + 1
    BY <2>1 DEF IsMessageCorrect
  <2>3. ListFrom(tk, 2, Len(tk))
    BY <1>2, <2>2, TokenListIs
  <2>4. NamesFrom(tk, 2 + 1) = Inner(SubSeq(tk, 2, Len(tk)))
    BY <1>2, <2>3, NamesAre
  <2>5. 2 + 1 = 3
    OBVIOUS
  <2> QED
    BY <1>2, <2>4, <2>5 DEF FirstList
<1>4. ASSUME NEW i \in Splits(Tail(tk))
      PROVE  /\ FirstList(tk) = Inner(SubSeq(Tail(tk), 1, i))
             /\ SecondList(tk) = Inner(SubSeq(Tail(tk), i + 1, Len(Tail(tk))))
  <2> DEFINE n == Len(tk)
  <2>1. i \in Nat /\ ListFrom(tk, 2, i + 1) /\ ListFrom(tk, i + 2, n)
    BY <1>1, SplitsAre
  <2>2. i + 4 <= n /\ i >= 1 /\ i \in Nat /\ n \in Nat
    BY <1>2, <2>1 DEF ListFrom
  <2>3. SubSeq(Tail(tk), 1, i) = SubSeq(tk, 2, i + 1)
    <3>1. 2 <= n /\ i <= n - 2 + 1 /\ 2 + 1 - 1 = 2 /\ 2 + i - 1 = i + 1
      BY <2>2
    <3>2. SubSeq(SubSeq(tk, 2, n), 1, i) = SubSeq(tk, 2 + 1 - 1, 2 + i - 1)
      BY <2>2, <3>1, PieceOfPiece
    <3> QED
      BY <1>2, <3>1, <3>2
  <2>4. SubSeq(Tail(tk), i + 1, Len(Tail(tk))) = SubSeq(tk, i + 2, n)
    <3>1. 2 <= n /\ i + 1 \in Nat \ {0} /\ n - 1 \in Nat /\ n - 1 <= n - 2 + 1
          /\ 2 + (i + 1) - 1 = i + 2 /\ 2 + (n - 1) - 1 = n
      BY <2>2
    <3>2. SubSeq(SubSeq(tk, 2, n), i + 1, n - 1) = SubSeq(tk, 2 + (i + 1) - 1, 2 + (n - 1) - 1)
      BY <2>2, <3>1, PieceOfPiece
    <3> QED
      BY <1>2, <3>1, <3>2
  <2>5. NamesFrom(tk, 2 + 1) = Inner(SubSeq(tk, 2, i + 1))
    <3>1. i + 1 \in Nat
      BY <2>2
    <3> QED
      BY <2>1, <3>1, NamesAre
  <2>6. NamesFrom(tk, (i + 2) + 1) = Inner(SubSeq(tk, i + 2, n))
    <3>1. i + 2 \in Nat \ {0}
      BY <2>2
    <3> QED
      BY <2>1, <2>2, <3>1, NamesAre
  <2>7. CloseFrom(tk, 2 + 1) = i + 1
    <3>1. i + 1 \in Nat
      BY <2>2
    <3> QED
      BY <2>1, <3>1, CloseFound
  <2>8. 2 + 1 = 3 /\ (i + 1) + 2 = (i + 2) + 1
    BY <2>2
  <2>9. FirstList(tk) = NamesFrom(tk, 2 + 1) /\ SecondList(tk) = NamesFrom(tk, (i + 2) + 1)
    BY <2>7, <2>8 DEF FirstList, SecondList
  <2> QED
    BY <2>3, <2>4, <2>5, <2>6, <2>9
<1> QED
  BY <1>3, <1>4

LEMMA AnyLine ==
    ASSUME NEW line \in Seq(Char)
    PROVE  AcceptsLine(line) /\ ReadsLine(line)
<1> DEFINE tk == Tokens(line)
<1>1. tk = WrittenTokens(line) /\ tk \in Seq(Word)
  BY TokensWritten
<1> HIDE DEF tk
<1>2. IsMessageCorrect(tk) <=> InGrammar(tk)
  BY <1>1, GrammarIs
<1>3. AcceptsLine(line)
  BY <1>1, <1>2 DEF AcceptsLine, tk
<1>4. IsMessageCorrect(tk) =>
         /\ OpOf(tk) \in QueryOp => FirstList(tk) = Inner(Tail(tk))
         /\ OpOf(tk) \in PairOp =>
               \A i \in Splits(Tail(tk)) :
                  /\ FirstList(tk) = Inner(SubSeq(Tail(tk), 1, i))
                  /\ SecondList(tk) = Inner(SubSeq(Tail(tk), i + 1, Len(Tail(tk))))
  BY <1>1, LoopsRead
<1>5. ReadsLine(line)
  BY <1>1, <1>4 DEF ReadsLine, tk
<1> QED
  BY <1>3, <1>5

\* For whatever characters: is_message_correct accepts the lines of the grammar
\* and no others, after tokenize_command has made tokens of them.
THEOREM EveryLineAccepted == TypedSpec => []LinesAccepted
<1>1. typed \in Seq(Character) => LinesAccepted
  <2>1. Character \subseteq Char
    BY DEF Char
  <2>2. typed \in Seq(Character) => typed \in Seq(Char)
    BY <2>1, SeqMonotonic
  <2> QED
    BY <2>2, AnyLine DEF LinesAccepted
<1>2. typed \in Seq(Character) /\ [FALSE]_typed => (typed \in Seq(Character))'
  OBVIOUS
<1> QED
  BY <1>1, <1>2, PTL DEF TypedSpec

\* For whatever characters: on an accepted line the loops of execute_command end
\* before the last token does, and take the names between the brackets.
THEOREM EveryLineRead == TypedSpec => []LinesRead
<1>1. typed \in Seq(Character) => LinesRead
  <2>1. Character \subseteq Char
    BY DEF Char
  <2>2. typed \in Seq(Character) => typed \in Seq(Char)
    BY <2>1, SeqMonotonic
  <2> QED
    BY <2>2, AnyLine DEF LinesRead
<1>2. typed \in Seq(Character) /\ [FALSE]_typed => (typed \in Seq(Character))'
  OBVIOUS
<1> QED
  BY <1>1, <1>2, PTL DEF TypedSpec
=============================================================================
