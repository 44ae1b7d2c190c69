--------------------------- MODULE ClientSession ----------------------------
(***************************************************************************)
(* Client programs (client.cpp) and controller servers (main, server_loop  *)
(* and the parts of execute_command that talk to the client, server.cpp).  *)
(*                                                                         *)
(* A client opens a connection for every line it reads, so a connection is *)
(* named <<c, t>>, the client and the number of the line.  Of the messages *)
(* only the kind matters: the command, a file of an add, the response, the *)
(* number of files of a get, a file of a get.                              *)
(*                                                                         *)
(* Processes die and links break.  What was sent before is then delivered  *)
(* or not.  A send afterwards succeeds all the same or fails, and if the   *)
(* process at the other end is gone it may kill the sender: the peer's     *)
(* host has answered what was sent before, or a probe of keepalive, with a *)
(* reset, and no program here ignores SIGPIPE.                             *)
(***************************************************************************)
EXTENDS CommandLine

CONSTANTS Client,       \* the client programs
          Server,       \* the controller servers
          ServerIps,    \* server_ips, the order in which a client tries them
          Script,       \* bound: the lines a user may type, first, second and so on
          Unreadable,   \* the names of files that a client cannot open
          Found,        \* bound: files a get finds
          Backlog,      \* connections that wait for accept
          ClientFds,    \* descriptors a client has for connections
          ServerFds,    \* descriptors a server has for connections
          Faults,       \* bound: processes killed from outside, and broken links
          None

ASSUME IpsAssumption == ServerIps \in Seq(Server) /\ ServerIps # <<>>

ASSUME ScriptAssumption == Script \in [Client -> Seq(SUBSET Seq(STRING))]

ASSUME BoundAssumption ==
    /\ Found \in Nat /\ Backlog \in Nat
    /\ ClientFds \in Nat /\ ServerFds \in Nat
    /\ Faults \in Nat

Turns(c) == Len(Script[c])

Line == UNION UNION {ToSet(Script[c]) : c \in Client}

ASSUME NoneAssumption == None \notin Server \cup Line

Conn == UNION {{c} \X (1 .. Turns(c)) : c \in Client}

VARIABLES pc,      \* where each client is in its loop
          turn,    \* the number of its line
          ip,      \* its server_ip_index
          fds,     \* its descriptors in use
          todo,    \* files it has still to send or to receive
          alive,   \* is the server process running
          used,    \* its descriptors in use
          at,      \* the server of each connection
          near,    \* the client's end of it
          far,     \* the server's end: where the thread is
          cmd,     \* the line that is sent as a command
          left,    \* files the thread has still to receive or to send
          up,      \* what is under way to the thread
          down,    \* what is under way to the client
          cut,     \* the broken links
          deaths   \* processes killed from outside so far

clientVars == <<pc, turn, ip, fds, todo>>
serverVars == <<alive, used>>
faultVars == <<cut, deaths>>
vars == <<pc, turn, ip, fds, todo, alive, used, at, near, far, cmd, left, up, down,
          cut, deaths>>

ToServer == {"command", "file"}

\* The number of files is part of the message that announces it.
ToClient == [kind : {"response", "count", "pair"}, n : 0 .. Found]

TypeOK ==
    /\ pc \in [Client -> {"connect", "prompt", "send", "upload", "response",
                          "count", "download", "dead"}]
    /\ turn \in [Client -> Nat] /\ \A c \in Client : turn[c] <= Turns(c)
    /\ ip \in [Client -> DOMAIN ServerIps]
    /\ fds \in [Client -> 0 .. ClientFds]
    /\ todo \in [Client -> Nat]
    /\ alive \in [Server -> BOOLEAN]
    /\ used \in [Server -> 0 .. ServerFds]
    /\ at \in [Conn -> Server \cup {None}]
    /\ near \in [Conn -> {"none", "open", "closed"}]
    /\ far \in [Conn -> {"none", "backlog", "recv", "upload", "execute",
                         "response", "count", "files", "ended", "gone"}]
    /\ cmd \in [Conn -> Line \cup {None}]
    /\ left \in [Conn -> Nat]
    /\ up \in [Conn -> Seq(ToServer)]
    /\ down \in [Conn -> Seq(ToClient)]
    /\ cut \subseteq Conn
    /\ deaths \in Nat /\ deaths + Cardinality(cut) <= Faults

Init ==
    /\ pc = [c \in Client |-> "connect"]
    /\ turn = [c \in Client |-> 0]
    /\ ip = [c \in Client |-> 1]
    /\ fds = [c \in Client |-> 0]
    /\ todo = [c \in Client |-> 0]
    /\ alive = [s \in Server |-> TRUE]
    /\ used = [s \in Server |-> 0]
    /\ at = [k \in Conn |-> None]
    /\ near = [k \in Conn |-> "none"]
    /\ far = [k \in Conn |-> "none"]
    /\ cmd = [k \in Conn |-> None]
    /\ left = [k \in Conn |-> 0]
    /\ up = [k \in Conn |-> <<>>]
    /\ down = [k \in Conn |-> <<>>]
    /\ cut = {}
    /\ deaths = 0

\* The connection of the line the client is at.
Current(c) == <<c, turn[c]>>

\* A line that is never sent: it is empty or no command, or a file of it
\* cannot be opened.
Refused(tk) ==
    \/ ~IsMessageCorrect(tk)
    \/ OpOf(tk) = "add" /\ ToSet(FirstList(tk)) \cap {<<n>> : n \in Unreadable} # {}

\* What the programs do with each line.
Reading ==
    [l \in Line |->
        LET tk == Tokens(l)
        IN  [refused |-> Refused(tk),
             op      |-> OpOf(tk),
             files   |-> IF OpOf(tk) = "add" /\ IsMessageCorrect(tk)
                         THEN Len(FirstList(tk)) ELSE 0]]

Op(k) == Reading[cmd[k]].op

Files(k) == Reading[cmd[k]].files

Message(kind, n) == [kind |-> kind, n |-> n]

-----------------------------------------------------------------------------
(* What becomes of a send.  peerGone: the process at the other end is.     *)
(* Every message is sent in two parts or more, and keepalive is on: even   *)
(* the first message on a connection can meet a reset.  If only the link   *)
(* is broken the sender gets an error, and sends nothing after it.         *)

Outcomes(k, peerGone) ==
    IF ~peerGone /\ k \notin cut THEN {"ok"}
    ELSE {"ok", "error"} \cup (IF peerGone THEN {"killed"} ELSE {})

Delivered(k, peerGone, items, x) ==
    IF peerGone \/ k \in cut THEN items ELSE [items EXCEPT ![k] = Append(@, x)]

\* The process of client c ends: the kernel closes its connections.
ClientEnds(c) ==
    /\ pc' = [pc EXCEPT ![c] = "dead"]
    /\ near' = [k \in Conn |-> IF k[1] = c /\ near[k] = "open" THEN "closed" ELSE near[k]]
    /\ down' = [k \in Conn |-> IF k[1] = c THEN <<>> ELSE down[k]]
    /\ UNCHANGED <<turn, ip, fds, todo>>

\* The process of server s ends, with all its threads.
ServerEnds(s) ==
    /\ alive' = [alive EXCEPT ![s] = FALSE]
    /\ used' = [used EXCEPT ![s] = 0]
    /\ far' = [k \in Conn |-> IF at[k] = s THEN "gone" ELSE far[k]]
    /\ up' = [k \in Conn |-> IF at[k] = s THEN <<>> ELSE up[k]]

-----------------------------------------------------------------------------
(* The main loop of a client *)

\* accept has to be called before more than Backlog connections wait.
Reachable(s) ==
    alive[s] /\ Cardinality({k \in Conn : at[k] = s /\ far[k] = "backlog"}) < Backlog

Connect(c) ==
    LET s == ServerIps[ip[c]]
        k == <<c, turn[c] + 1>>
    IN  /\ pc[c] = "connect" /\ turn[c] < Turns(c)
        /\ Reachable(s) /\ fds[c] < ClientFds
        /\ pc' = [pc EXCEPT ![c] = "prompt"]
        /\ turn' = [turn EXCEPT ![c] = @ + 1]
        /\ ip' = [ip EXCEPT ![c] = 1]
        /\ fds' = [fds EXCEPT ![c] = @ + 1]
        /\ at' = [at EXCEPT ![k] = s]
        /\ near' = [near EXCEPT ![k] = "open"]
        /\ far' = [far EXCEPT ![k] = "backlog"]
        /\ UNCHANGED <<todo, serverVars, cmd, left, up, down, faultVars>>

\* Mutant: the same address is tried again.
ConnectFailsSame(c) ==
    /\ pc[c] = "connect" /\ turn[c] < Turns(c)
    /\ ~Reachable(ServerIps[ip[c]]) \/ fds[c] = ClientFds
    /\ fds' = [fds EXCEPT ![c] = IF @ = ClientFds THEN @ ELSE @ + 1]
    /\ UNCHANGED <<pc, turn, ip, todo, serverVars, at, near, far, cmd, left, up, down,
                   faultVars>>

\* The socket of the failed attempt is not closed; the next address is tried.
ConnectFails(c) ==
    /\ pc[c] = "connect" /\ turn[c] < Turns(c)
    /\ ~Reachable(ServerIps[ip[c]]) \/ fds[c] = ClientFds
    /\ ip' = [ip EXCEPT ![c] = (@ % Len(ServerIps)) + 1]
    /\ fds' = [fds EXCEPT ![c] = IF @ = ClientFds THEN @ ELSE @ + 1]
    /\ UNCHANGED <<pc, turn, todo, serverVars, at, near, far, cmd, left, up, down, faultVars>>

\* continue: the connection stays open.
RefuseLine(c, l) ==
    /\ pc[c] = "prompt"
    /\ Reading[l].refused
    /\ pc' = [pc EXCEPT ![c] = "connect"]
    /\ UNCHANGED <<turn, ip, fds, todo, serverVars, at, near, far, cmd, left, up, down,
                   faultVars>>

Exit(c, l) ==
    /\ pc[c] = "prompt"
    /\ ~Reading[l].refused /\ Reading[l].op = "exit"
    /\ ClientEnds(c)
    /\ UNCHANGED <<serverVars, at, far, cmd, left, up, faultVars>>

TakeLine(c, l) ==
    /\ pc[c] = "prompt"
    /\ ~Reading[l].refused /\ Reading[l].op # "exit"
    /\ pc' = [pc EXCEPT ![c] = "send"]
    /\ cmd' = [cmd EXCEPT ![Current(c)] = l]
    /\ UNCHANGED <<turn, ip, fds, todo, serverVars, at, near, far, left, up, down, faultVars>>

\* Mutant: the connection of a command that is given up is closed.
GiveUpCloses(c) ==
    /\ pc' = [pc EXCEPT ![c] = "connect"]
    /\ todo' = [todo EXCEPT ![c] = 0]
    /\ fds' = [fds EXCEPT ![c] = @ - 1]
    /\ near' = [near EXCEPT ![Current(c)] = "closed"]
    /\ down' = [down EXCEPT ![Current(c)] = <<>>]
    /\ UNCHANGED <<turn, ip>>

\* "CONNECTION ERROR!!!": the command is given up, the connection stays open.
GiveUp(c) ==
    /\ pc' = [pc EXCEPT ![c] = "connect"]
    /\ todo' = [todo EXCEPT ![c] = 0]
    /\ UNCHANGED <<turn, ip, fds, near, down>>

\* The end of the loop: free_token_list and close.
Done(c) ==
    /\ pc' = [pc EXCEPT ![c] = "connect"]
    /\ todo' = [todo EXCEPT ![c] = 0]
    /\ fds' = [fds EXCEPT ![c] = @ - 1]
    /\ near' = [near EXCEPT ![Current(c)] = "closed"]
    /\ down' = [down EXCEPT ![Current(c)] = <<>>]
    /\ UNCHANGED <<turn, ip>>

ServerGone(k) == far[k] = "gone"

SendCommand(c) ==
    LET k == Current(c)
    IN  /\ pc[c] = "send"
        /\ \E o \in Outcomes(k, ServerGone(k)) :
               \/ o = "error" /\ GiveUp(c) /\ UNCHANGED up
               \/ o = "killed" /\ ClientEnds(c) /\ UNCHANGED up
               \/ /\ o = "ok"
                  /\ up' = Delivered(k, ServerGone(k), up, "command")
                  /\ pc' = [pc EXCEPT ![c] = IF Op(k) = "add" THEN "upload" ELSE "response"]
                  /\ todo' = [todo EXCEPT ![c] = IF Op(k) = "add" THEN Files(k) ELSE 0]
                  /\ UNCHANGED <<turn, ip, fds, near, down>>
        /\ UNCHANGED <<serverVars, at, far, cmd, left, faultVars>>

\* Mutant: the response to an add is not waited for.
SendFileNoWait(c) ==
    LET k == Current(c)
    IN  /\ pc[c] = "upload"
        /\ \E o \in Outcomes(k, ServerGone(k)) :
               \/ o = "error" /\ GiveUp(c) /\ UNCHANGED up
               \/ o = "killed" /\ ClientEnds(c) /\ UNCHANGED up
               \/ /\ o = "ok"
                  /\ up' = Delivered(k, ServerGone(k), up, "file")
                  /\ pc' = [pc EXCEPT ![c] = IF todo[c] = 1 THEN "connect" ELSE "upload"]
                  /\ todo' = [todo EXCEPT ![c] = @ - 1]
                  /\ UNCHANGED <<turn, ip, fds, near, down>>
        /\ UNCHANGED <<serverVars, at, far, cmd, left, faultVars>>

\* The size and the contents of one file of an add.
SendFile(c) ==
    LET k == Current(c)
    IN  /\ pc[c] = "upload"
        /\ \E o \in Outcomes(k, ServerGone(k)) :
               \/ o = "error" /\ GiveUp(c) /\ UNCHANGED up
               \/ o = "killed" /\ ClientEnds(c) /\ UNCHANGED up
               \/ /\ o = "ok"
                  /\ up' = Delivered(k, ServerGone(k), up, "file")
                  /\ pc' = [pc EXCEPT ![c] = IF todo[c] = 1 THEN "response" ELSE "upload"]
                  /\ todo' = [todo EXCEPT ![c] = @ - 1]
                  /\ UNCHANGED <<turn, ip, fds, near, down>>
        /\ UNCHANGED <<serverVars, at, far, cmd, left, faultVars>>

\* recv_to_fill or recv_length_then_message returns a whole message.
Receive(c) ==
    LET k == Current(c)
        m == Head(down[k])
    IN  /\ pc[c] \in {"response", "count", "download"}
        /\ down[k] # <<>>
        /\ \/ /\ pc[c] = "response" /\ Op(k) # "get"
              /\ Done(c)
           \/ /\ pc[c] = "count" /\ m.n = 0
              /\ Done(c)
           \/ /\ pc[c] = "download" /\ todo[c] = 1
              /\ Done(c)
           \/ /\ pc[c] = "response" /\ Op(k) = "get"
              /\ pc' = [pc EXCEPT ![c] = "count"]
              /\ down' = [down EXCEPT ![k] = Tail(@)]
              /\ UNCHANGED <<turn, ip, fds, todo, near>>
           \/ /\ pc[c] = "count" /\ m.n > 0
              /\ pc' = [pc EXCEPT ![c] = "download"]
              /\ todo' = [todo EXCEPT ![c] = m.n]
              /\ down' = [down EXCEPT ![k] = Tail(@)]
              /\ UNCHANGED <<turn, ip, fds, near>>
           \/ /\ pc[c] = "download" /\ todo[c] > 1
              /\ todo' = [todo EXCEPT ![c] = @ - 1]
              /\ down' = [down EXCEPT ![k] = Tail(@)]
              /\ UNCHANGED <<pc, turn, ip, fds, near>>
        /\ UNCHANGED <<serverVars, at, far, cmd, left, up, faultVars>>

\* recv returns 0 or -1, whatever was under way before.
ReceiveFails(c) ==
    /\ pc[c] \in {"response", "count", "download"}
    /\ ServerGone(Current(c)) \/ Current(c) \in cut
    /\ GiveUp(c)
    /\ UNCHANGED <<serverVars, at, far, cmd, left, up, faultVars>>

-----------------------------------------------------------------------------
(* The accept loop and the threads of a server *)

ClientGone(k) == near[k] = "closed"

\* The thread of k takes a step.
Thread(k) == UNCHANGED <<clientVars, at, near, cmd, faultVars>>

\* Mutant: accept never lacks a descriptor.
AcceptAlways(k) ==
    /\ far[k] = "backlog"
    /\ \A t \in 1 .. (k[2] - 1) : far[<<k[1], t>>] = "backlog" => at[<<k[1], t>>] # at[k]
    /\ used' = [used EXCEPT ![at[k]] = @ + 1]
    /\ far' = [far EXCEPT ![k] = "recv"]
    /\ Thread(k) /\ UNCHANGED <<alive, left, up, down>>

\* accept, which takes the connections in their order (of different clients:
\* in any order), and a thread for it.  The descriptor is never closed.
Accept(k) ==
    /\ far[k] = "backlog"
    /\ \A t \in 1 .. (k[2] - 1) : far[<<k[1], t>>] = "backlog" => at[<<k[1], t>>] # at[k]
    /\ used[at[k]] < ServerFds
    /\ used' = [used EXCEPT ![at[k]] = @ + 1]
    /\ far' = [far EXCEPT ![k] = "recv"]
    /\ Thread(k) /\ UNCHANGED <<alive, left, up, down>>

\* The command is received; the files of an add follow.
TakeCommand(k) ==
    /\ far[k] = "recv"
    /\ up[k] # <<>>
    /\ up' = [up EXCEPT ![k] = Tail(@)]
    /\ far' = [far EXCEPT ![k] = IF Op(k) = "add" THEN "upload" ELSE "execute"]
    /\ left' = [left EXCEPT ![k] = IF Op(k) = "add" THEN Files(k) ELSE 0]
    /\ Thread(k) /\ UNCHANGED <<alive, used, down>>

\* Mutant: the loop over the files ends one too early.
TakeFileShort(k) ==
    /\ far[k] = "upload"
    /\ up[k] # <<>>
    /\ up' = [up EXCEPT ![k] = Tail(@)]
    /\ far' = [far EXCEPT ![k] = IF left[k] <= 2 THEN "execute" ELSE "upload"]
    /\ left' = [left EXCEPT ![k] = @ - 1]
    /\ Thread(k) /\ UNCHANGED <<alive, used, down>>

\* A file of an add is received and stored.
TakeFile(k) ==
    /\ far[k] = "upload"
    /\ up[k] # <<>>
    /\ up' = [up EXCEPT ![k] = Tail(@)]
    /\ far' = [far EXCEPT ![k] = IF left[k] = 1 THEN "execute" ELSE "upload"]
    /\ left' = [left EXCEPT ![k] = @ - 1]
    /\ Thread(k) /\ UNCHANGED <<alive, used, down>>

\* Mutant: an error does not end the thread, it waits for the next command.
ThreadFailsGoesOn(k) ==
    /\ far[k] \in {"recv", "upload"}
    /\ ClientGone(k) \/ k \in cut
    /\ far' = [far EXCEPT ![k] = "recv"]
    /\ left' = [left EXCEPT ![k] = 0]
    /\ up' = [up EXCEPT ![k] = <<>>]
    /\ Thread(k) /\ UNCHANGED <<alive, used, down>>

\* recv fails; in the middle of an upload the command is given up first, and
\* the next recv fails too.  The thread ends.
ThreadFails(k) ==
    /\ far[k] \in {"recv", "upload"}
    /\ ClientGone(k) \/ k \in cut
    /\ far' = [far EXCEPT ![k] = "ended"]
    /\ left' = [left EXCEPT ![k] = 0]
    /\ up' = [up EXCEPT ![k] = <<>>]
    /\ Thread(k) /\ UNCHANGED <<alive, used, down>>

\* Mutant: an add returns without a response.
ExecuteSilent(k) ==
    /\ far[k] = "execute"
    /\ used[at[k]] < ServerFds
    /\ used' = [used EXCEPT ![at[k]] = @ + 1]
    /\ far' = [far EXCEPT ![k] = IF Op(k) = "add" THEN "recv" ELSE "response"]
    /\ \E n \in 0 .. Found : left' = [left EXCEPT ![k] = IF Op(k) = "get" THEN n ELSE 0]
    /\ Thread(k) /\ UNCHANGED <<alive, up, down>>

\* The calls to the DHTs (Controller).  Each FORCE call leaves its socket open,
\* here one for all of them; without a descriptor connect is retried for ever.
Execute(k) ==
    /\ far[k] = "execute"
    /\ used[at[k]] < ServerFds
    /\ used' = [used EXCEPT ![at[k]] = @ + 1]
    /\ far' = [far EXCEPT ![k] = "response"]
    /\ \E n \in 0 .. Found : left' = [left EXCEPT ![k] = IF Op(k) = "get" THEN n ELSE 0]
    /\ Thread(k) /\ UNCHANGED <<alive, up, down>>

\* A send of the thread that leads to next, or ends the answer, or the process.
Reply(k, m, next) ==
    /\ \E o \in Outcomes(k, ClientGone(k)) :
           \/ /\ o = "error"
              /\ far' = [far EXCEPT ![k] = "recv"]
              /\ left' = [left EXCEPT ![k] = 0]
              /\ UNCHANGED <<alive, used, up, down>>
           \/ /\ o = "killed"
              /\ ServerEnds(at[k])
              /\ UNCHANGED <<left, down>>
           \/ /\ o = "ok"
              /\ far' = [far EXCEPT ![k] = next]
              /\ left' = [left EXCEPT ![k] = IF m.kind = "pair" THEN @ - 1 ELSE @]
              /\ down' = Delivered(k, ClientGone(k), down, m)
              /\ UNCHANGED <<alive, used, up>>
    /\ Thread(k)

SendResponse(k) ==
    /\ far[k] = "response"
    /\ Reply(k, Message("response", 0), IF Op(k) = "get" THEN "count" ELSE "recv")

SendCount(k) ==
    /\ far[k] = "count"
    /\ Reply(k, Message("count", left[k]), IF left[k] = 0 THEN "recv" ELSE "files")

\* The name and the contents of one file of a get.
SendPair(k) ==
    /\ far[k] = "files"
    /\ Reply(k, Message("pair", 0), IF left[k] = 1 THEN "recv" ELSE "files")

-----------------------------------------------------------------------------
(* Faults *)

KillClient(c) ==
    /\ deaths + Cardinality(cut) < Faults /\ deaths' = deaths + 1
    /\ pc[c] # "dead"
    /\ ClientEnds(c)
    /\ UNCHANGED <<serverVars, at, far, cmd, left, up, cut>>

KillServer(s) ==
    /\ deaths + Cardinality(cut) < Faults /\ deaths' = deaths + 1
    /\ alive[s]
    /\ ServerEnds(s)
    /\ UNCHANGED <<clientVars, at, near, cmd, left, down, cut>>

RestartServer(s) ==
    /\ ~alive[s]
    /\ alive' = [alive EXCEPT ![s] = TRUE]
    /\ UNCHANGED <<clientVars, used, at, near, far, cmd, left, up, down, faultVars>>

\* The two hosts no longer reach each other; keepalive tells both in the end.
CutLink(k) ==
    /\ deaths + Cardinality(cut) < Faults
    /\ near[k] = "open" /\ far[k] \notin {"ended", "gone"}
    /\ cut' = cut \cup {k}
    /\ UNCHANGED <<clientVars, serverVars, at, near, far, cmd, left, up, down, deaths>>

-----------------------------------------------------------------------------

ClientStep(c) ==
    \/ Connect(c) \/ ConnectFails(c)
    \/ SendCommand(c) \/ SendFile(c) \/ Receive(c) \/ ReceiveFails(c)

\* What its user types now.
Typed(c) == IF turn[c] = 0 THEN {} ELSE Script[c][turn[c]]

ReadLine(c, l) == RefuseLine(c, l) \/ Exit(c, l) \/ TakeLine(c, l)

ThreadStep(k) ==
    \/ Accept(k) \/ TakeCommand(k) \/ TakeFile(k) \/ ThreadFails(k)
    \/ Execute(k) \/ SendResponse(k) \/ SendCount(k) \/ SendPair(k)

Next ==
    \/ \E c \in Client : ClientStep(c) \/ KillClient(c)
    \/ \E c \in Client : \E l \in Typed(c) : ReadLine(c, l)
    \/ \E k \in Conn : ThreadStep(k) \/ CutLink(k)
    \/ \E s \in Server : KillServer(s) \/ RestartServer(s)

Spec == Init /\ [][Next]_vars

(***************************************************************************)
(* A client goes on except at the prompt, a thread as long as it can; the  *)
(* calls to the DHTs are taken to return.                                  *)
(***************************************************************************)
Fairness ==
    /\ \A c \in Client : WF_vars(ClientStep(c))
    /\ \A k \in Conn : WF_vars(ThreadStep(k))

FairSpec == Spec /\ Fairness

-----------------------------------------------------------------------------
(* Properties *)

\* Nothing has gone wrong with connection k.
Sound(k) == near[k] = "open" /\ far[k] \notin {"none", "gone"} /\ k \notin cut

\* Client c is at connection k, at one of the places ps of its loop.
Doing(k, ps) == k = Current(k[1]) /\ pc[k[1]] \in ps

FilesIn(items) == Cardinality({i \in DOMAIN items : items[i] = "file"})

(***************************************************************************)
(* The two programs agree on what the next bytes are, although messages    *)
(* carry no tag: a thread that waits for a command never finds a file, one *)
(* that waits for a file never a command, and the files still to come are  *)
(* those the thread counts; a client that waits for a response, a number   *)
(* of files or a file finds just that.                                     *)
(***************************************************************************)
StreamsInSync ==
    \A k \in Conn :
        /\ up[k] # <<>> =>
              /\ far[k] = "recv" => Head(up[k]) = "command"
              /\ far[k] = "upload" => Head(up[k]) = "file"
              /\ far[k] \in {"backlog", "recv", "upload"}
        /\ far[k] = "upload" /\ Sound(k) =>
              left[k] = FilesIn(up[k]) + (IF Doing(k, {"upload"}) THEN todo[k[1]] ELSE 0)
        /\ down[k] # <<>> /\ Doing(k, {"response", "count", "download"}) =>
              Head(down[k]).kind = CASE pc[k[1]] = "response" -> "response"
                                     [] pc[k[1]] = "count"    -> "count"
                                     [] pc[k[1]] = "download" -> "pair"

\* A thread that is changing files or tags.
Working(k) == far[k] \in {"upload", "execute"}

(***************************************************************************)
(* The commands of one client are carried out one after the other, which   *)
(* is what keeps a single user from losing his own updates: two of them    *)
(* overlap only if the link of the first broke while it was carried out.   *)
(***************************************************************************)
OneAtATime ==
    \A c \in Client : \A t, u \in 1 .. Turns(c) :
        t < u /\ Working(<<c, t>>) /\ Working(<<c, u>>) => <<c, t>> \in cut

(***************************************************************************)
(* A process that dies takes others with it only along open commands.  A   *)
(* server dies of a client that died before its answer was out, and not of *)
(* one that lives: a client that gives a command up, and one that is done  *)
(* with it, leaves no thread that still sends to a closed connection.  A   *)
(* client dies of a server that died while it sends a command or its files *)
(* to it, and not while it looks for a server or waits for an answer.      *)
(***************************************************************************)
DeathsSpread ==
    [][deaths' = deaths =>
          /\ \A s \in Server : alive[s] /\ ~alive'[s] =>
                \E k \in Conn :
                    /\ at[k] = s /\ far[k] \in {"response", "count", "files"}
                    /\ pc[k[1]] = "dead"
          /\ \A c \in Client : pc[c] \notin {"prompt", "dead"} /\ pc'[c] = "dead" =>
                pc[c] \in {"send", "upload"} /\ ServerGone(Current(c))]_vars

\* The server of k has no descriptor for the next step of its thread.
Starved(k) ==
    far[k] \in {"backlog", "execute"} /\ used[at[k]] = ServerFds

(***************************************************************************)
(* A line that has been sent ends, with a response or an error message,    *)
(* unless the server has used up its descriptors, which it never closes.   *)
(***************************************************************************)
LinesEnd ==
    \A c \in Client :
        pc[c] \in {"send", "upload", "response", "count", "download"} ~>
            pc[c] \in {"connect", "dead"} \/ Starved(Current(c))

(***************************************************************************)
(* A thread ends some time after its client has closed the connection or   *)
(* died, or the link has broken, with the same exception.                  *)
(***************************************************************************)
ThreadsEnd ==
    \A k \in Conn :
        near[k] = "closed" \/ k \in cut ~> far[k] \in {"ended", "gone"} \/ Starved(k)

(***************************************************************************)
(* A client with a descriptor for an attempt at each address connects, if  *)
(* some server stays within reach: it does not get stuck at one that is    *)
(* down.  (Each failed attempt keeps a descriptor, and nothing slows them  *)
(* down, so a client that finds no server for a moment never finds one.)   *)
(***************************************************************************)
FindsServer ==
    \A c \in Client, s \in Server :
        /\ pc[c] = "connect" /\ turn[c] < Turns(c)
        /\ fds[c] + Len(ServerIps) <= ClientFds
        /\ Reachable(s)
        ~> pc[c] # "connect" \/ ~Reachable(s)
=============================================================================
