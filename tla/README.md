# Verification of the distributed tag filesystem

A client stores files under names and tags. Its commands go to a controller
server, which keeps three maps (contents of a file, tags of a file, files of a
tag), each of them in a distributed hash table of its own. A DHT is a Chord-like
ring of processes: a file belongs to the first node at or after its hash and is
copied to the next two nodes. This directory holds TLA+ models of the DHT, of the
controller, and of the client and its conversation with the controller, the TLC
configurations that check them, and TLAPS proofs.

    tlc  -config MCDhtExec_Concurrent.cfg MCDhtExec.tla     # one run
    tlapm DhtExecProofs.tla                               # one proof module

## 1. Inventory

| Component | State | Operations | Talks to |
|---|---|---|---|
| Execution loop of a DHT node (`chord_server_main.cpp` 476-795) | files in `main_folder_name`; `successors_*`, `predecessors_*`; the command in hand | `CMD_FIND_PREDECESSOR`, `CMD_FORCE_ADD/DELETE/GET`, `CMD_INSERT_*`, `CMD_DEPRECATE_*`, `CMD_GET_ALL_*`, `CMD_GET_KEYS_IN_RANGE` | other loops, by synchronous calls made inside a handler |
| Command queue and accept thread (`threadsafe_queue.h`, 23-48) | ring buffer, two indices, a mutex | `enqueue`, `dequeue` | accept thread and execution loop |
| Callers (`rpcs.h`) | one open connection | `rpc_add`, `rpc_delete`, `rpc_get`: a lookup, then a call to the owner | execution loops |
| Join (`join_dht`, 240-340) | the new node's lists and files | lists from the predecessor, files copied, last replicas deleted, neighbours told | execution loops |
| Heartbeat and repair (50-238) | failed probes; the node's lists | probe the successor; `handle_succesors_down` | execution loops; shares the lists with its own loop, without a lock |
| List arithmetic (`globals.h` 390-412, 386-395) | - | arc tests, insertion, deprecation, shift | used by all of the above |
| Controller (`server.cpp`) | none of its own; one thread per client | `add`, `list`, `delete`, `add-tags`, `delete-tags`, `get`: sequences of reads and writes in three DHTs | DHTs, clients |
| Client (`client.cpp`) | connection, current command | read, check, send, transfer files | controller |
| Tokenizer and grammar (`globals.h` 25-197) | - | `tokenize_command`, `is_message_correct` | client, controller |
| Transport, discovery (`globals.h` 107-133, 199-219, 262-331) | - | length-prefixed messages, connect with endless retry, multicast beacon | everything |

What is hard here: execution loops that block in calls to each other; a poll
loop that sleeps with the mutex held; lists changed by three procedures, one of
which runs in a thread of its own; joins and repairs that are long sequences of
calls, with lookups served in between; crashes at any time and a connect that
never gives up; read-modify-write sequences of several controllers. The list,
line by line, is under `hazards` in `PROJECT.json`.

What makes each part correct:

* loops: one atomic map (a read never goes back in time), replicas equal to the
  owner outside its writes, no copy outside the holders, every call returns;
* queue: FIFO, nothing lost or repeated, never full, every accepted command is run
  if the accept thread ever gets the mutex;
* join and repair: exact lists and exact placement whenever the ring is quiet,
  no lookup in between that ends at a node without the file, every join ends,
  every crash is repaired;
* crashes inside calls: the survivors agree on every file up to the place the
  last write had reached; who is blocked for ever has called a dead node or
  waits for one that has; a death does not spread without bound;
* heartbeat: a crashed successor is noticed as long as the thread is not held up
  in a repair, a running one is not taken for down without a reason;
* conversation: the two ends of a connection agree on what comes next, commands
  of one client do not overlap, every command that is sent ends, every thread
  whose client has gone ends;
* tokenizer: a line is accepted exactly if it is a command, and the server takes
  from it exactly the names between the brackets;
* controller: the two indices (tags of files, files of tags) agree with each
  other; a query returns the files that have all its tags.

## 2. Modules

| Module | Models | Depends on |
|---|---|---|
| `ChordLists` | arc tests and list operations, as operators on sequences of keys | |
| `RingReference` | what lists, owner and holders should be, by clockwise distance | |
| `KeyValue` | abstract: a map with atomic `add`, `delete`, `get` | |
| `DhtExec` | execution loops, queues, replication and callers on a settled ring | `ChordLists`; refines `KeyValue` |
| `DhtCrash` | `DhtExec` with nodes and servers that die anywhere in a call | `DhtExec` |
| `CommandFifo` | abstract: a FIFO of commands and the one that is run | |
| `CommandQueue` | ring buffer, mutex, accept thread, polling consumer | refines `CommandFifo` |
| `ChordMembership` | joins, crashes and repairs, one call per step | `ChordLists`, `RingReference` |
| `BusyJoin` | `ChordMembership` with clients that look up and write while a node joins | `ChordMembership` |
| `Heartbeat` | the failure detector of one node: probes, counts, descriptors, and the calls of its repairs | its decision is `DetectDown` of `ChordMembership` |
| `TagStore` | abstract: a table of files with contents and tags, one step per command | |
| `Controller` | the threads of `server.cpp` over three atomic maps, one call per step | the maps are what `KeyValue` promises |
| `ControllerSerial` | `Controller` with what users see while a command runs | refines `TagStore` |
| `CommandLine` | tokenizer, grammar and the server's loops over the tokens, as operators; and the reference | |
| `TypedLines` | any line, as a user types it, and what the two programs make of it | `CommandLine` |
| `ClientSession` | clients, connections, accept loop and threads of the servers, with deaths and broken links | `CommandLine`; its step `Execute` is a command of `Controller` |
| `MC*` | constants of the instances; `MCNodeThreads` puts `CommandQueue` and `Heartbeat` side by side, `MCClientSession` puts `ClientSession` and the lines of `TypedLines` side by side | |
| `DhtExecProofs` | proofs about `DhtExec` | `SequenceTheorems` |
| `DhtCrashProofs` | proofs about `DhtCrash` | `DhtExecProofs` |
| `NodeThreadsProofs` | proofs about `CommandQueue` and `Heartbeat` | |
| `ChordMembershipProofs` | proofs about `ChordMembership` | `FiniteSetTheorems`, `WellFoundedInduction` |
| `BusyJoinProofs` | proofs about `BusyJoin` | `ChordMembershipProofs` |
| `ClientSessionProofs` | proofs about `ClientSession` and `TypedLines` | `SequenceTheorems`, `WellFoundedInduction` |
| `ControllerProofs` | proofs about `Controller` | |
| `ControllerSerialProofs` | that `ControllerSerial` implements `TagStore` | `ControllerProofs` |

The layers meet in `KeyValue`: `DhtExec` implements one such map (`AtomicMap`),
`Controller` uses three. `DhtExec` in turn takes the ring as settled, which is
what `ChordMembership` establishes, and calls as FIFO queues, which is what
`CommandQueue` establishes.

A definition whose comment begins with "Mutant:" is not part of a model: it is a
wrong version of the definition after it, and a property is only kept if TLC
finds it violated when the wrong version takes its place (`mutants` in
`PROJECT.json`).

### DhtExec

A node is named by its `node_key`; parallel vectors of addresses and keys are
one list. `queue[n]` is `command_queue`, `exec[n]` the command in the loop's
hand, `loop[n]` the index of the replication loop, `store[n]` the folder. A
caller (client thread or loop) has one connection: `call` (what it has sent),
`sock` (how far that is) and `answer`. Each handler is split exactly where it
blocks: a find is answered at once or forwarded (`AnswerFind`, `ForwardFind`,
`ReturnFind`), a write is taken, replicated node by node and answered
(`TakeAdd`/`TakeDelete`, `Replicate`/`ReplicaDone`, `AnswerWrite`). Connecting,
sending and being queued are one step; `CommandQueue` looks inside it. The
address a client starts from (multicast) is any node.

### DhtCrash

`dead` are the nodes and client threads that have died; a client thread dies
with its whole server (`Fellows`). A connection to a dead process breaks: who
waits for its answer goes to `"failed"`, and then the code decides. A lookup by a
client dereferences the missing answer (`rpcs.h` 69) and kills its server
(`FindFailed`); a forwarded lookup sends the length of an answer and nothing
after it (`ForwardFailed`, the caller's `"short"`); a FORCE call returns as if
done (`ForceFailed`, `ReplicaFailed`). A call to a node that was dead before is
repeated for ever, which is a call that stays `"sent"`. An answer in two parts
to a dead caller may kill the node with SIGPIPE (`DieAnswering`). The lists are
still those from before the crash: the heartbeat, which takes a second or more,
has not noticed yet. A call is sent in one step, so a caller never dies between
its parts (a hazard, see `PROJECT.json`).

### Heartbeat

`target` is the node a probe is under way to, `failed` is `failed_attempts`,
`open` the descriptors, of which every probe keeps one. While a probe is under
way machines crash, and a machine that joins may get in front of the list
(`Join`, done by the execution loop). The counter runs on after a repair and
from one node to the next, as in the code (it is only reset when the outer loop
starts anew). `missed` and `own` are history variables for `NoFalseAlarm`.

The thread that probes also runs `handle_succesors_down`, and probes nobody
meanwhile. `Repair` takes the node in front out of the list; then come its calls
in the order of the code (`Calls`), each to whatever node its slot holds at that
moment (`Callees`): the lookup for the third successor, the predecessors, the
three successors, and the calls that copy files, of which the list of names is
asked for even when the node is alone, of itself (line 138). A call to a node that
is down, or without a descriptor, is repeated for ever: no step is enabled
(`Connected`). A call may also stay unanswered (`NoAnswer`, `thread = "stuck"`):
the callee's machine crashes while it has it, or its loop waits itself, which
`DhtCrash` and `DhtExec` look into. Two calls to one neighbour, and all copies to
or from one node, are one call here, so a repair leaves fewer sockets open than
in the code. What the calls do to the ring is in `ChordMembership`. Of the
predecessors only `behind` is kept: all of them run, one is down, or there are none.

### CommandQueue

The buffer with its two indices as in `threadsafe_queue.h`, the mutex, and
program counters for the accept thread and the execution loop. The sleep with
the mutex held (line 48) is the step `SleepLocked`. A caller connects when it
has no command open, which is how `rpcs.h` uses connections.

### ChordMembership

`agent` is the node that runs `join_dht` or `handle_succesors_down`; `todo` is
the sequence of calls it has still to make, computed from its lists, which no
other node changes meanwhile. Listing keys replaces the call by those for the
files found (`MoveFile`: fetch, write, delete the last replica). A call is a
step guarded by the callee's command port being open (`status = "member"`);
otherwise `connect_to_sever_by_ip` repeats it for ever and the step is never
enabled. Client writes are atomic here and happen when no reconfiguration is
under way ("kind of assumes the network is quiet", `rpcs.h` 207). A crashed
process loses its folder, because its container is started with `--rm`. A get
that misses yields the contents `Empty`, which is written.

### BusyJoin

`request` is what one client has asked: a lookup that is with a node (`"find"`),
a FORCE call to the node the lookup named (`"force"`), any time later, or a write
whose replication waits (`"replicate"`). `blocked` are the loops that wait for the
newcomer, whose port is still closed: the one that calls it, and those that have
forwarded a lookup to that one (`Path`). They serve no call of the newcomer
(`Served`). `late` is a history variable: the files of which a write was not
`InTime`, that is, when the owner took it the newcomer, or the node whose copy it
deletes, was not among those it goes to, and the fetch of the file was over. After
such a write the behaviour goes on to the end of the join and no further.

### Controller

`files`, `tagsOf` and `filesOf` are the three DHTs (`server.cpp` 16-23),
`thread[c]` the local variables of the thread that runs `execute_command` for
client `c`: `pc` is the loop it is in, `found` is `target_file_names` (or the
files of an `add`), `left`, `file`, `tags` and `tag` say how far the loops have
come, `hand` is a list that was read and not yet written back. Each action makes
one call of `rpcs.h`, with the computation up to the next one, so that threads
interleave, and the process can be killed, between any two calls. A list of names
is the set of its members: the code skips repetitions, and a loop over a list
takes them in any order here.

`delete-tags` is as in the code: the list of the i-th tag is written under the
name of the i-th file (line 340), any file not used yet (`keys`) because the
order is abstracted; past the end of the vector the memory holds anything in
`PastEnd`, a name or an invalid address (`None`), which ends the process. So
`filesOf` has file names as keys too.

`use` says how the server is used during a behaviour: by one client at a time or
several, with which commands, whether an `add` of an existing file may drop tags
of it, whether queries name unknown tags, whether connections break and the
process is killed. The code is the same for all; each property names the uses it
is about, and that is the only place where `use` restricts anything apart from
which commands arrive (`Expected`) and which failures happen.

`ControllerSerial` adds the history variable `before`: the table at the arrival
of the command. While the command runs its users are taken to see `before`,
afterwards the table computed from the DHTs; under that mapping each command is
one step of `TagStore`.

### CommandLine

`Tokens` applies `ReadCharacter` to the characters of a line one by one, as the
loop of `tokenize_command` does; `IsTokenList`, `IsMessageCorrect`, `FirstList` and `SecondList` are the
functions and loops over the tokens. A keyword and a piece of a name count as
one character. The reference says without a loop where tokens begin and end
(`WrittenTokens`) and which sequences of them are commands (`InGrammar`).
`TypedLines` has one variable, the line: `LinesAccepted` and `LinesRead` compare
the code with the reference on it.

### ClientSession

A client opens a connection for every line, before it reads it, so connections
are `<<client, line number>>`. `pc[c]` is the place in the main loop, `far[k]`
the place of the server's thread, `up[k]` and `down[k]` the messages under way.
A refused line, a send or receive that fails, and a file that cannot be opened
go back to `connect` and leave the connection open (`continue`); only the end of
the loop closes it. Servers never close a connection. `ServerFds` and `ClientFds`
count descriptors: `accept` and the calls to the DHTs need one, each failed
connect of a client keeps one. `Faults` processes are killed or links cut;
`Outcomes` says how a send ends after that: it succeeds all the same, fails, or,
if the process at the other end is gone, kills the sender with SIGPIPE. That can
happen to the first message on a connection too: `send_all` sends it in parts, and
both programs turn keepalive on (`client.cpp` 70-74, `server.cpp` 441-445), whose
probes draw the reset while nobody sends. If only the link broke the sender gets an
error and sends no more. Servers are restarted. `Execute` stands for a whole command of `Controller`.

## 3. Runs

| Run | Instance | Checks |
|---|---|---|
| `dht_crash` | 4 nodes, 2 threads of 1 server, 1 name, 1 content, 1 death from outside | `CrashTypeOK`, `NoStrayCopy`, `WritesInOrder`, `StuckForAReason`, `DeathToll`, `CrashlessCallsReturn` (fair) |
| `dht_concurrent` | 3 nodes, 2 clients, 2 names, 2 contents | `TypeOK`, `ReplicasAgree`, `HaltOnlyInCycle`, `QueuesBounded`, `AtomicMap` |
| `dht_deadlock` | 2 nodes, 2 clients | **violates** `AddSendsOk` |
| `node_threads` | 3 callers, 4 slots; 3 machines, 10 descriptors | `TypeOK`, `OnePlace`, `Ordered`, `Answered` (fair); `NoFalseAlarm`, `Noticed` (fair) |
| `ring_settled` | 6 nodes, crashes at sizes 2, 4, 5, 6, writes during joins of 2 of them | `BusyTypeOK`, `SuccessorsExact`, `PredecessorsExact`, `Placement`, `NoFalseMiss`, `JoinKeepsCopies`, `JoinsEnd`, `RequestsEnd`, `Settles` (fair) |
| `ring_crash3` | 3 nodes, crash at size 3 | **violates** `SuccessorsExact` |
| `ring_two_crashes` | 5 nodes, two crashes at once | **violates** `Settles` |
| `ctl_uses` | 2 clients, 2 files, 2 tags; uses `Serial`, `Failing`, `Careless`, `Crowd` | `TypeOK`, `IndexTruthful`, `TagsFindFiles`, `ContentsBehindIndex`, `ServesTable` |
| `ctl_lost_update` | 2 clients that only add | **violates** `TagsFindFiles` |
| `ctl_untag` | 1 client, `add` and `delete-tags` | **violates** `Untagged` |
| `ctl_query` | 1 client, queries with unknown tags | **violates** `Intersects` |
| `session` | 2 clients with 3 lines, 2 servers, 1 death or cut; 29 000 lines of text | `TypeOK`, `StreamsInSync`, `OneAtATime`, `DeathsSpread`, `LinesEnd`, `ThreadsEnd`, `FindsServer` (fair); `LinesAccepted`, `LinesRead` |

Bounds. Three nodes hold a file, so a ring of four has a node that must not; a
ring of three has full lists, a ring of two has lists that end early. The two
hashes are one equal to a node's key (the closed end of an arc) and one, a
negative number, on the arc that wraps around. Two clients are the fewest that
block the loops. In `dht_crash` the ring has a node that is neither owner nor
replica and another one between the reader and the owner, one client adds and
deletes the file the other adds and reads, and the death may come at any step;
the deaths that follow from it are not counted. In `ring_settled` rings
of five and six nodes are those whose lists of length three do not close round.
Clients write during the joins of node 3, to whose arc one of the hashes always
belongs, and of node 9, which lookups of both may have to pass.
`TotalSize` is the number of callers plus one, the smallest the assumption
allows; the program's 10000 and its handful of callers are far from it.
`Modulus` only has to exceed every distance of keys in the reference.
Two files and two tags are the fewest for which a command works on several
files, a list has several names, a query intersects, and a list keeps a name when
another one is removed; queries have at most two tags, because the third goes
through the same step as the second. Two clients suffice for a lost update.
In `ctl_uses` one value of `use` is chosen per behaviour: `Serial` is one
client that asks for nothing the code gets wrong, with two contents, `Failing` one
client with kills and broken uploads, `Careless` one client that may use every
command on anything, `Crowd` two clients on one tag without `delete`.

In `node_threads` a behaviour is about one of the threads and the other stands
still (`observed`): they share no state. Three machines are the fewest with which
a repair looks for a third successor; they crash and join again without bound, and
any probe may be lost. With ten descriptors a repair happens by count, by count
carried over from another node, and at the limit, and one repair can end before a
second begins; `failed` and `missed` stop at 3, beyond which the code makes no
difference.
In `session` one client's lines are refused in both ways, exit, add and list, the
other's get finds no file or one; four descriptors are one more than a client's
lines need and as many as let a server run out. A line of text has up to five
characters of any kind, or a keyword and up to eight brackets and names, enough
for two lists with something before, between and after them.

Deadlock is checked except where the program really stops: in the runs with two
clients of a DHT (that is the finding `dht_deadlock`), in the runs where an
agent or a loop may call a closed port for ever, and in `session`, where users stop typing. A controller never stops: it can always receive.

Fairness. Every loop and every client thread that can run eventually does (weak
fairness: they are threads of a preemptive scheduler). In `CommandQueue` that is
all: `pthread_mutex_init(&mutex, NULL)` (`threadsafe_queue.h` 25) promises nothing
to a thread that waits while another one takes the mutex back at once, so nothing
of the kind is assumed, and `accept` may take connections in any order. In `ChordMembership` every
heartbeat thread probes for ever and an agent goes on while its callee answers.
In `BusyJoin` a request goes on
when it can. Nothing makes a client call, a node join or a node crash. The
heartbeat thread goes on when one of its steps is possible; a call that its callee
does not take is not. In `session` a client goes on except
at the prompt and every thread goes on; that includes `Execute`, so the calls to
the DHTs are taken to return, which `CrashlessCallsReturn` gives as long as no
loops block each other. Nothing restarts a dead server.

## 4. What the runs show

With a settled ring the loops are one atomic map whatever the interleaving, and
replicas follow their owner. But they may stop: a loop that calls another loop
serves nothing, two clients are enough for a cycle, and `HaltOnlyInCycle` says
that a cycle is the only way. The ring buffer is a FIFO as long as there are
fewer callers than slots. An accepted command is answered with one exception that
weak fairness leaves (`Answered`): the loop polls an empty buffer for ever and the
accept thread, with the command in its hand, is passed over whenever the mutex is
free. While there are commands in the buffer that cannot go on, for their callers
wait. Joins and single crashes leave exact lists and exact
placement in rings of two, four, five and six nodes, and at every call in
between a lookup ends, and at a node with the latest contents.

Clients that do not wait for the end of a join may pay for it in two ways. A write
is lost, or leaves a stray copy, if the newcomer has fetched the file or the list
of names when the old owner takes it; this holds of a client, too, that looked up
the owner before the join was announced and calls it after. `late` collects these
files, and `NoFalseMiss`, `Placement` and `JoinKeepsCopies` say that no others are
touched; a file deleted at that point comes back, with its contents or empty. And
from its first announcement to the opening of its port one lookup or write is
enough to entangle the newcomer for ever with a loop that waits for it; in every
other case joins and requests end (`JoinsEnd`, `RequestsEnd`).

For one client at a time that does not use `delete-tags`, drops no tag when it
adds a file again and queries for tags in use, the controller is a table on which
each command takes effect at once (`ServesTable`). The order of its writes is
safe against kills: a tag never leads to a file without contents or without that
tag (`IndexTruthful`), and without `delete` not even several clients can make it
(`ContentsBehindIndex`). The other direction, that a tag leads to every file that
has it, holds for one client whatever it does (`TagsFindFiles`), but not for
two.

A crash leaves the replicas of a file as a repair needs them: a write that is cut
short, by whichever death, has reached the live ones up to one place of the list
and none behind it (`WritesInOrder`), and nothing is written where it does not
belong (`NoStrayCopy`). Who waits for ever afterwards has called a dead node, has
been left with half an answer, or waits for loops that have
(`StuckForAReason`). But crashes spread: a thread that loses the answer to a
lookup reads through a null pointer and takes its server with it, and a loop
that answers such a dead caller may get SIGPIPE. `DeathToll` is how far that
goes, and it is not one node per crash: a node that has not died of answering a
dead caller was killed from outside, one that has used that caller up, so a crash
accounts for two nodes and every dead thread for one more. The file a killed node was writing is in the
model either whole or untouched.

The heartbeat takes a running node for down without three lost probes of it in
two cases: the count was begun against another node (it is not reset after a
repair, nor when a node joins in front), or there are no descriptors left, of
which every probe leaks one (`NoFalseAlarm`). A crash is noticed, whatever was
lost and counted before, unless the thread is held up in the repair of an earlier
one (`Noticed`): in a call to another node that is down, without a descriptor for a
call, or in a call that is never answered. That is how `ring_two_crashes` ends, seen
from the thread: the second crashed node stays in front of the list.

A client and its thread agree on what is sent next whatever dies
(`StreamsInSync`), and a client has one command running at a time unless a link
was cut, after which an abandoned command and its repetition may run together
(`OneAtATime`). A server that is not killed dies only by answering a client that
died before its answer was out, and a client only by sending a command or its files
to a server that died (`DeathsSpread`). That clients leave the connection of a
command they give up open is what keeps a server alive that still answers it: were
it closed, a client that lives could end the server. A
line ends, a thread ends and a client finds a live server (`LinesEnd`,
`ThreadsEnd`, `FindsServer`) unless descriptors have run out, which they do,
since servers close no connection and clients none that failed. The tokenizer and
the checks accept exactly the lines of the grammar (`LinesAccepted`), and the
server's loops then read exactly the names in them (`LinesRead`).

Findings (each a run that is expected to fail):

* `dht_deadlock`: a started `CMD_FORCE_ADD` may never send its response
  (`chord_server_main.cpp` 612, 616).
* `ring_crash3`: after a crash in a ring of three the survivors' lists hold a
  duplicate (guards at 105 and 120).
* `ring_two_crashes`: two crashes before the first is repaired stop the repair,
  although `DHT_FAULT_TOLERANCE_LEVEL` is 2.
* `ctl_lost_update`: two clients that add files with a common tag lose one of
  them from its list (`server.cpp` 181-201; the lock at 101 is commented out).
* `ctl_untag`: `delete-tags` leaves the tag's list as it was (line 340).
* `ctl_query`: a tag without files is ignored by a query instead of emptying its
  result (line 51), and `delete` then deletes what the query found.

`EarlyRejoin = TRUE` in `ChordMembership` is a hazard the runs leave out: a node
restarted before its crash was noticed is told that it is its own successor and
waits for itself (`JoinsEnd` fails with three nodes).

## 5. Proofs

Eight modules prove, for every value of the constants that satisfies the
assumptions of the modules they extend, what the runs check on one instance.
Every safety argument has the same form: an inductive invariant, one lemma per
action that keeps it, and a last step that puts them together with PTL. The
inductive invariants were checked by TLC on the instances of the runs before they
were proved.

### Joins, crashes and repairs

`ChordMembershipProofs`, for every set of nodes (each a key), any files, and any
sequence of joins, crashes and repairs:

* `MembershipTypes`: `TypeOK` is not inductive, for a file that is put down must
  have been fetched. `TypeInv` adds that every `"put"` among the calls comes
  after the fetch of the same file, or is the next call and the file in hand
  (`Ready`, `Fetched`).
* `ExactSuccessorLists` (`SuccessorsExact`), `ExactPredecessorLists`
  (`PredecessorsExact`). Between the first and the last call of a join or a repair
  the lists are those of no ring, so the invariant is about the calls still to be
  made: applied to the list of a member they make it the one its place in the
  ring calls for (`SuccsWill`, `PredsWill`). That needs no two calls to change
  one list in conflicting ways (`InOrder`). `Standing` says which of four cases
  holds: the calls settle the lists (`Settling`); a crash has not been noticed
  (`Broken`: the lists are those of the ring with the crashed node); a newcomer is
  about to ask for its predecessor's lists (`Asking`); a repair is about to look
  up its third successor (`Looking`). `OneAgent` ties `status` to `agent`.
  Lists are compared with the ring by `IsNext` (no node is passed on the way),
  and only at the end with the distances of `RingReference` (`FollowExact`,
  `PrecedeExact`). The heart is two lemmas: `JoinSettles`, that the calls of
  `JoinCalls` make the lists of `R` those of `R \cup {n}`, and `RepairSettles`,
  that those of `RepairCalls` make them the lists without the crashed node.

The two theorems about lists assume `QuietEnough`: at most one crashed node in
the lists at a time, no crash in a ring of three, no start before a repair is
over. Each of the three is needed: `ring_two_crashes`, `ring_crash3` and the
hazard `EarlyRejoin` (end of section 4) are what happens without it.

`BusyJoinProofs` carries this over to clients that do not wait (`BusyTyped`,
`BusyExactSuccessors`, `BusyExactPredecessors`): their requests change neither
lists nor calls. On top of it, and again under `QuietEnough`, it proves where the
files are:

* `FilesWhereTheyBelong` (`Placement`): on the owner and the two nodes after it
  whenever nothing is being changed, and nowhere else.
* `LookupsMissNothing` (`NoFalseMiss`): at every call of a join or a repair a lookup
  ends, at a node that has the latest contents.
* `JoinsKeepCopies` (`JoinKeepsCopies`): no step of a join thins the copies out.

None of the three is inductive: `Placement` says nothing while files move, and the
others nothing of the calls still to come. `FileInv` says for every file how far it
is on its way from the nodes that held it, through one list of names, one fetch, one
put and one deletion, to those that are to hold it (`Stage`: `OnItsWay`, that is
`Waiting`, `Fetching` or `Writing`; `LeftBehind`; `Arrived`), or that its owner holds
up the replication (`Held`). Six situations say from which ring to which: `Serving`;
`Bereft` and `Noticing` (a crash not yet noticed, or not yet looked up), `Mending`,
from the ring with the crashed node to the one without; `Arriving` and `TakingOver`,
from the ring without the newcomer to the one with it. The argument:

1. A file changes its holders exactly if it lies on one of the three arcs of the
   plan, and each arc moves it from its owner to one node and deletes it on at most
   one other (`JoinRoutes`, `RepairRoutes`). The arcs do not overlap (`ArcsApart`),
   not even in a ring of one or two nodes.
2. So among the calls of `JoinCalls` and `RepairCalls` at most one list of names is
   for a given file, and the newcomer is announced only after the last of them
   (`JoinFiles`, `RepairFiles`). What a list is replaced by is one fetch, put and
   deletion of each file in that order, each put right after its fetch (`Tidy`,
   `ListedCalls`, `LeftListed`).
3. Each call takes its file one stage further and leaves the others where they are
   (`StageNames`, `StageFetch`, `StagePut`, `StageDrop`, `TrackOther`).
4. A write in the middle of a join is seen by the fetch still to come, or goes to
   all holders of the ring to come, or is in `late` (`WriteHolders`, `WriteTaking`,
   `FileReplicate`).
5. The first successors of the members are always those of one ring, the old or
   the new, so that a lookup comes nearer to the file with each step and ends at its
   owner there (`FirstOn`, `LookupEnds`), and that owner still has, or already has,
   the file (`OwnerHas`, `NothingMissed`).

Assumptions: `NodeAssumption`, `FileAssumption`, `LoadAssumption`,
`RequestAssumption` (types and finiteness; `None` is no data), `ModulusAssumption`
(it exceeds every distance), `ThreeSlots` (the code names the slots one by one),
`QuietAssumption`.

### The execution loops

`DhtExecProofs`, for every set of nodes and clients, every hash and every level of
replication:

* `Invariance`: `Spec => []IInv`. `TypeOK` and `ReplicasAgree` are not
  inductive: that a replica gets the owner's contents depends on what the
  message in flight carries and on how far the loop has come. `IInv` adds which
  socket states go with which calls (`SockInv`), that a caller is in exactly the
  queue it has sent to and only once (`QueueInv`), that a command in a loop's
  hand is that caller's and the loop's own call is the one its handler makes
  (`ExecInv`, `NodeInv`), what clients' calls carry (`ClientInv`), where lookups
  end (`AnswerInv`), and that during a write the replicas before the loop index
  already agree with the owner (`WriteInv`).
* `TypeCorrect`, `ReplicasAlwaysAgree`, `QueuesAlwaysBounded` follow from it.
* `MapImplemented`: `Spec => AtomicMap`, the refinement of `KeyValue`. A request
  takes effect when the owner takes its FORCE call; every other step of a loop, and
  every other step of a client between the call and the response, is a stutter of
  the map. What has to be known is that the node the client calls is the owner
  (`IInv`), that a write of a replica is not seen by the map (`MapReplicaWrite`),
  and that a step changes the stage of one client at most (`NoneNotices`,
  `OneNotices`).
* `HaltsOnlyInCycle` (`HaltOnlyInCycle`) adds that a caller with an unanswered
  call is in a queue or in a loop's hand (`PendingInv`); if nothing can run, the
  loops that are not free form a set closed under "calls".

`DhtCrashProofs`, the same for processes that die anywhere in a call, for every
number of crashes:

* `CrashInvariance`: much of `IInv` is false when callees die, so `CrashInv` says
  it anew: of calls (`Talk`: the living only call for the command in their hand,
  the dead run nothing, only calls to the dead fail) and of files (`Files`: a call
  for a write carries what its owner holds, is for the place of the loop index,
  and leaves the replica that has taken it equal to the owner). `WritesInOrder`
  and `NoStrayCopy` are parts of `Files`.
* `CrashTypeCorrect`, `WritesSurviveInOrder`, `NeverStrayCopy` follow from it.
* `DeathTollBounded` (`DeathToll`). The account (`Toll`) charges each node that
  died of an answer to the dead caller it answered: the dead nodes, together with
  the dead callers that may still kill one (`Deadly`), are at most two per crash
  and one per dead thread.
* `BlocksForAReason` (`StuckForAReason`) takes `PendingInv` and the argument about
  closed sets from `DhtExecProofs`: who waits and has not been abandoned
  is in a set of loops that all wait for each other or for the dead.

Assumptions: `RingAssumption` (each node's first successor is the next node
clockwise, the arcs cover the hashes) is what `ring_settled` establishes for
quiet rings; `ProcessAssumption` gives each client thread one process;
`HashAssumption`, `NodeAssumption`, `LevelAssumption`, `WantedAssumption` and
`CrashAssumption` are types and finiteness.

These proofs changed the model twice. An answer that is lost because its sender
dies before it is read stayed in `answer`, so that a failed call still had one;
`Die` now takes it away. And the earlier, smaller bound of `DeathToll` is false when
two processes crash, which the run, with one crash, could not show; the new bound is
the one the account supports.

### The command queue

`NodeThreadsProofs`, for every number of callers and every buffer larger than
that:

* `Invariance`, with which thread is between lock and unlock (`MutexInv`), what
  each has in its hand where (`HandInv`), and that the buffer, the two hands and
  the connected callers are apart (`Apart`). The indices are remainders, so the
  lemmas are about which slots lie between them (`Slots`, `RoomLeft`).
* `TypeCorrect`, `NoCommandLost` (`OnePlace`), `MutexExcludes`: the two threads are
  never both between lock and unlock, which is why one step may stand for what
  they do there.
* `QueueImplemented`: `Spec => Ordered`. The refinement mapping reads the buffer
  from `bottom` to `top` as the FIFO of `CommandFifo`.

Assumptions: `CallerAssumption`, `SizeAssumption` (fewer callers than slots).

### The heartbeat

`NodeThreadsProofs!AlarmsHaveReasons` proves `NoFalseAlarm` for every set of
machines, any initial list and number of descriptors, and any losses. The
property speaks of the step of a repair that shortens the list, long after the failures it
is about, so the invariant keeps the account: as long as `own` holds, the
failures counted are the probes lost, or the descriptors are used up
(`CountsMissed`), and a repair begins with a full count (`RepairsWhenFull`); no
call of a repair changes the count.
Assumptions: `StartAssumption`, `BoundAssumption` (types, and `Nobody` is no
machine).

### The controller

`ControllerProofs`, for every set of clients, files, tags and contents and for
every set of uses:

* `TypeCorrect`: `TypeOK` needs to know which command is in which loop and what
  `hand` holds there, files or tags (`ThreadOK`); `TInv` is both.
* `IndexBacked` (`ContentsBehindIndex`). What a thread will
  write to a list it found or read earlier, so the invariant `CInv` is about
  those: everything listed, found or held in an index loop has contents, in an
  upload what has been uploaded (`Holds`). Without `delete` contents never
  disappear, so other threads cannot falsify it, lost updates included.
* `IndexIsTruthful` (`IndexTruthful`). The invariant `SInv`
  says for each loop what its prefix has established: in an upload the files done
  have contents and tags and the others are in no list the command will not
  write (`SafeUpload`); after the tag loop every file has the new tags
  (`SafeRetag`, `SafeIndex`); in a delete the file is only in lists that are
  still to come, and in none when its contents go (`SafeDelete`). A kill at any
  step leaves `Index`, which is the property.
* `TagsAlwaysFind` (`TagsFindFiles`, for one client at a time). The invariant
  `LInv` is a debt: a tag that a file has leads to it, or the running command is
  still going to enter it there or to take the tag away (`Owing`), and what its
  thread holds of a list is the list (`Fresh`). Between commands nothing is owed.
  The theorem needs a hypothesis the run meets without showing it: `delete-tags`
  stores a list under a name that may be any file's, and no such name may be that of a
  tag too, or the list of the tag is overwritten. With that excepted the property
  holds for every use, a `delete-tags` that ends the server included.

`ControllerSerialProofs!TableServed`: `SerialSpec => ServesTable`, the refinement of
`TagStore`. Each command is one step of the table, at the moment the response is
ready; before that the table users see is `before`. The invariant `Serves` says how
far the DHTs are from that table in each loop: what the search has kept
(`Searching`), what the lists lead to (`Listing`), which contents are new
(`Holding`), what the response holds (`Replying`). It rests on the two invariants
before: that the lists say the same as the tags of the files is `IndexTruthful` in
one direction and `TagsFindFiles` in the other (`IndexesAgree`).

Assumptions: `NoneAssumption`, `AbsentAssumption`, `SerialAssumption` (the values
that stand for "nothing" are not data), `UsesAssumption` and `PastEndAssumption`
(types).

### The conversation

`ClientSessionProofs`, for every set of clients, servers and scripts and any number
of faults:

* `Invariance`. The invariant says of each connection what is under way in both
  directions and how far its ends are (`ConnOK`): upwards the command and then as
  many files as the thread still expects, unless the link is cut or the client
  gone (`Upward`); downwards the response, the number of files and the files, in
  that order (`Downward`); what is over (`Ended`). A step of a client or thread
  touches one connection, and two lemmas say that the others stay as they are
  (`StillConn`, `AsideConn`).
* `TypeCorrect`, `EndsAgree` (`StreamsInSync`), `CommandsInTurn` (`OneAtATime`)
  follow from it.
* `DeathsStay` (`DeathsSpread`) proves the action property from the same invariant:
  a process that dies without being killed has sent to one that is gone, and what
  `ConnOK` says of a connection that is closed before its answer is out (`Ended`)
  is that its client is dead.

Assumptions: `IpsAssumption`, `ScriptAssumption`, `BoundAssumption` (types),
`NoneAssumption` (`None` is no server and no line).

### The lines

`ClientSessionProofs!EveryLineAccepted` (`LinesAccepted`) and `EveryLineRead`
(`LinesRead`) hold for every line over any set of characters, of which nothing is
assumed. What the loops of the code compute is a function on the prefixes of the
line. `ReadInv` says what it is after each: the tokens that begin in the prefix
and, if the last one goes on, as much of it as has been read (`ReadTo`); a token
is found by the number of starts up to it (`Rank`). A claim about all prefixes is
proved by its least counterexample (`LeastNumber`, `NoneFails`), with the
well-foundedness of the numbers: the induction theorems of the library take an
operator. Then `TokenListIs`: the loop of `is_token_list` comes to the end of a
list exactly if there is one in the grammar (`ListFrom`).

### Only model-checked

Liveness, for it needs fairness and `ENABLED`: `CrashlessCallsReturn`, `Answered`,
`Noticed`, `JoinsEnd`, `RequestsEnd`, `Settles`, `LinesEnd`, `ThreadsEnd`,
`FindsServer`. Every invariant and every action property that holds is proved, and
so are the three refinements (`AtomicMap`, `Ordered`, `ServesTable`).

## 6. Not modelled, and plan

Not modelled yet, in the order they would be added:

1. Two reconfigurations at once, writes during a repair, and the lists shared
   without a lock by the heartbeat thread and the execution loop
   (`chord_server_main.cpp` 78).
2. Loops that wait for one another and for the newcomer at once: `BusyJoin` has
   one request at a time.
3. `server.cpp` 169 and 258 under several clients: `add` of an existing file
   and `delete` leave tags behind. `ctl_uses` excludes them through `use`.

Left out for good: the byte framing of messages and the sizes of buffers (a
message is taken as a whole, in order, or not at all), a call that is cut between
its parts, logging, memory management, build files and container scripts.
