-------------------------- MODULE ControllerProofs --------------------------
(***************************************************************************)
(* Proofs about Controller, for every set of clients, files, tags and      *)
(* contents: the types, for every way the server may be used; then what    *)
(* the tags lead to.  As long as nobody deletes, to files with contents;   *)
(* with one client that drops no tag, to files that have the tag, at every *)
(* prefix of every command; and with one client, between commands, to      *)
(* every file that has the tag.                                            *)
(***************************************************************************)
EXTENDS Controller, SequenceTheorems, TLAPS

USE NoneAssumption, AbsentAssumption, UsesAssumption, PastEndAssumption

\* What a thread has in its hands in each loop of execute_command.
ThreadOK(me) ==
    /\ me.pc # "idle" => me.cmd \in Command /\ me.cmd.op \in use.ops
    /\ me.pc = "query" => me.cmd.op # "add" /\ me.query # <<>>
    /\ me.pc = "upload" => me.cmd.op = "add" /\ me.left \subseteq me.cmd.names
    /\ me.pc = "retag" => me.cmd.op \in {"add-tags", "delete-tags"} /\ me.hand \subseteq Tag
    /\ me.pc = "index" => me.cmd.op \in {"add", "add-tags", "delete-tags"}
    /\ me.pc \in {"index", "unlist"} => me.hand \subseteq File
    /\ me.pc \in {"delete", "unlist", "forget"} => me.cmd.op = "delete"
    /\ me.pc \in {"unlist", "forget"} => me.file \in File
    /\ me.hand # {} => \/ me.pc = "retag" /\ me.file # None
                       \/ me.pc \in {"index", "unlist"} /\ me.tag # None

TInv == TypeOK /\ \A c \in Client : ThreadOK(thread[c])

-----------------------------------------------------------------------------
LEMMA QueryIsSequence ==
    ASSUME NEW q \in Query
    PROVE  q \in Seq(Tag) /\ q # <<>>
<1>1. CASE \E t \in Tag : q = <<t>>
  BY <1>1
<1>2. CASE q \in Tag \X Tag
  <2>1. q = <<q[1], q[2]>> /\ q[1] \in Tag /\ q[2] \in Tag
    BY <1>2
  <2>2. \A s, t \in Tag : <<s, t>> \in Seq(Tag) /\ <<s, t>> # <<>>
    OBVIOUS
  <2> QED
    BY <2>1, <2>2
<1> QED
  BY <1>1, <1>2 DEF Query

LEMMA CommandFields ==
    ASSUME NEW m \in Command
    PROVE  /\ m.op \in Op
           /\ m.op = "add" => /\ m.names \in SUBSET File
                              /\ m.contents \in [m.names -> Content]
                              /\ m.tags \in SUBSET Tag
           /\ m.op # "add" => m.query \in Seq(Tag) /\ m.query # <<>>
           /\ m.op \in {"add-tags", "delete-tags"} => m.tags \in SUBSET Tag
<1>1. CASE m \in [op : {"list", "delete", "get"}, query : Query]
  <2>1. m.op \in {"list", "delete", "get"} /\ m.query \in Query
    BY <1>1
  <2> QED
    BY <2>1, QueryIsSequence DEF Op
<1>2. CASE m \in [op : {"add-tags", "delete-tags"}, query : Query, tags : Some(Tag)]
  <2>1. m.op \in {"add-tags", "delete-tags"} /\ m.query \in Query /\ m.tags \in SUBSET Tag
    BY <1>2 DEF Some
  <2> QED
    BY <2>1, QueryIsSequence DEF Op
<1>3. CASE \E S \in Some(File) :
              m \in [op : {"add"}, names : {S}, contents : [S -> Content], tags : Some(Tag)]
  BY <1>3 DEF Op, Some
<1> QED
  BY <1>1, <1>2, <1>3 DEF Command

LEMMA IdleOK == Idle \in Thread /\ ThreadOK(Idle)
  BY DEF Idle, Thread, Loops, NoReply, ThreadOK

\* One thread moves.
LEMMA ThreadChange ==
    ASSUME TInv, NEW c \in Client, NEW me \in Thread,
           thread' = [thread EXCEPT ![c] = me], use' = use, ThreadOK(me)
    PROVE  /\ thread' \in [Client -> Thread]
           /\ \A d \in Client : ThreadOK(thread[d])'
  BY DEF TInv, TypeOK, ThreadOK

LEMMA ListTypes ==
    ASSUME TypeOK
    PROVE  /\ \A f \in File : ListOf(tagsOf[f]) \in SUBSET Tag
           /\ \A n \in Name : ListOf(filesOf[n]) \in SUBSET File
  BY DEF TypeOK, ListOf

-----------------------------------------------------------------------------
LEMMA PutContentsType ==
    ASSUME TInv, NEW c \in Client, NEW f \in File, PutContents(c, f)
    PROVE  TInv'
<1> DEFINE me == [thread[c] EXCEPT !.file = f, !.left = @ \ {f}]
<1>1. thread[c] \in Thread /\ ThreadOK(thread[c])
  BY DEF TInv, TypeOK
<1>2. thread' = [thread EXCEPT ![c] = me]
  BY DEF PutContents, TInv, TypeOK
<1>3. me \in Thread
  BY <1>1 DEF Thread
<1>4. ThreadOK(me)
  BY <1>1 DEF ThreadOK, PutContents, Thread
<1>5. files' \in [File -> Content \cup {Absent}]
  BY <1>1, CommandFields DEF PutContents, TInv, TypeOK, ThreadOK, Thread
<1> HIDE DEF me
<1> QED
  BY <1>2, <1>3, <1>4, <1>5, ThreadChange DEF TInv, TypeOK, PutContents

LEMMA PutTagsType ==
    ASSUME TInv, NEW c \in Client, PutTags(c)
    PROVE  TInv'
<1> DEFINE me == [thread[c] EXCEPT !.file = None]
<1>1. thread[c] \in Thread /\ ThreadOK(thread[c])
  BY DEF TInv, TypeOK
<1>2. thread' = [thread EXCEPT ![c] = me]
  BY DEF PutTags, TInv, TypeOK
<1>3. me \in Thread
  BY <1>1 DEF Thread
<1>4. ThreadOK(me)
  BY <1>1 DEF ThreadOK, PutTags, Thread
<1>5. tagsOf' \in [File -> (SUBSET Tag) \cup {Absent}]
  BY <1>1, CommandFields DEF PutTags, TInv, TypeOK, ThreadOK, Thread
<1> HIDE DEF me
<1> QED
  BY <1>2, <1>3, <1>4, <1>5, ThreadChange DEF TInv, TypeOK, PutTags

LEMMA UploadBrokenType ==
    ASSUME TInv, NEW c \in Client, UploadBroken(c)
    PROVE  TInv'
<1> DEFINE me == Idle
<1>1. thread[c] \in Thread /\ ThreadOK(thread[c])
  BY DEF TInv, TypeOK
<1>2. thread' = [thread EXCEPT ![c] = me]
  BY DEF UploadBroken, TInv, TypeOK
<1>3. me \in Thread
  BY IdleOK
<1>4. ThreadOK(me)
  BY IdleOK
<1> HIDE DEF me
<1> QED
  BY <1>2, <1>3, <1>4, ThreadChange DEF TInv, TypeOK, UploadBroken

LEMMA ReadTagsType ==
    ASSUME TInv, NEW c \in Client, NEW f \in File, ReadTags(c, f)
    PROVE  TInv'
<1> DEFINE me == [thread[c] EXCEPT !.file = f, !.left = @ \ {f}, !.hand = ListOf(tagsOf[f])]
<1>1. thread[c] \in Thread /\ ThreadOK(thread[c])
  BY DEF TInv, TypeOK
<1>2. thread' = [thread EXCEPT ![c] = me]
  BY DEF ReadTags, TInv, TypeOK
<1>3. me \in Thread
  BY <1>1, ListTypes DEF Thread, TInv, Name
<1>4. ThreadOK(me)
  BY <1>1, ListTypes DEF ThreadOK, ReadTags, Thread, TInv, Name
<1> HIDE DEF me
<1> QED
  BY <1>2, <1>3, <1>4, ThreadChange DEF TInv, TypeOK, ReadTags

LEMMA WriteTagsType ==
    ASSUME TInv, NEW c \in Client, WriteTags(c)
    PROVE  TInv'
<1> DEFINE me == [thread[c] EXCEPT !.file = None, !.hand = {}]
<1>1. thread[c] \in Thread /\ ThreadOK(thread[c])
  BY DEF TInv, TypeOK
<1>2. thread' = [thread EXCEPT ![c] = me]
  BY DEF WriteTags, TInv, TypeOK
<1>3. me \in Thread
  BY <1>1 DEF Thread
<1>4. ThreadOK(me)
  BY <1>1 DEF ThreadOK, WriteTags, Thread
<1>5. tagsOf' \in [File -> (SUBSET Tag) \cup {Absent}]
  BY <1>1, CommandFields DEF WriteTags, TInv, TypeOK, ThreadOK, Thread, Retagged
<1> HIDE DEF me
<1> QED
  BY <1>2, <1>3, <1>4, <1>5, ThreadChange DEF TInv, TypeOK, WriteTags

LEMMA ReadFilesType ==
    ASSUME TInv, NEW c \in Client, NEW t \in Tag, ReadFiles(c, t)
    PROVE  TInv'
<1> DEFINE me == [thread[c] EXCEPT !.tag = t, !.tags = @ \ {t}, !.hand = ListOf(filesOf[t])]
<1>1. thread[c] \in Thread /\ ThreadOK(thread[c])
  BY DEF TInv, TypeOK
<1>2. thread' = [thread EXCEPT ![c] = me]
  BY DEF ReadFiles, TInv, TypeOK
<1>3. me \in Thread
  BY <1>1, ListTypes DEF Thread, TInv, Name
<1>4. ThreadOK(me)
  BY <1>1, ListTypes DEF ThreadOK, ReadFiles, Thread, TInv, Name
<1> HIDE DEF me
<1> QED
  BY <1>2, <1>3, <1>4, ThreadChange DEF TInv, TypeOK, ReadFiles

LEMMA WriteFilesType ==
    ASSUME TInv, NEW c \in Client, WriteFiles(c)
    PROVE  TInv'
<1> DEFINE me == [thread[c] EXCEPT !.tag = None, !.hand = {}]
<1>1. thread[c] \in Thread /\ ThreadOK(thread[c])
  BY DEF TInv, TypeOK
<1>2. thread' = [thread EXCEPT ![c] = me]
  BY DEF WriteFiles, TInv, TypeOK
<1>3. me \in Thread
  BY <1>1 DEF Thread
<1>4. ThreadOK(me)
  BY <1>1 DEF ThreadOK, WriteFiles, Thread
<1>5. filesOf' \in [Name -> (SUBSET File) \cup {Absent}]
  BY <1>1 DEF WriteFiles, TInv, TypeOK, ThreadOK, Thread, Enlisted, Name
<1> HIDE DEF me
<1> QED
  BY <1>2, <1>3, <1>4, <1>5, ThreadChange DEF TInv, TypeOK, WriteFiles

LEMMA WriteUnderFileType ==
    ASSUME TInv, NEW c \in Client, NEW key \in Name, WriteUnderFile(c, key)
    PROVE  TInv'
<1> DEFINE me == [thread[c] EXCEPT !.tag = None, !.hand = {}, !.keys = @ \ {key}]
<1>1. thread[c] \in Thread /\ ThreadOK(thread[c])
  BY DEF TInv, TypeOK
<1>2. thread' = [thread EXCEPT ![c] = me]
  BY DEF WriteUnderFile, TInv, TypeOK
<1>3. me \in Thread
  BY <1>1 DEF Thread
<1>4. ThreadOK(me)
  BY <1>1 DEF ThreadOK, WriteUnderFile, Thread
<1>5. filesOf' \in [Name -> (SUBSET File) \cup {Absent}]
  BY <1>1 DEF WriteUnderFile, TInv, TypeOK, ThreadOK, Thread, Name
<1> HIDE DEF me
<1> QED
  BY <1>2, <1>3, <1>4, <1>5, ThreadChange DEF TInv, TypeOK, WriteUnderFile

LEMMA ReadTagsToDeleteType ==
    ASSUME TInv, NEW c \in Client, NEW f \in File, ReadTagsToDelete(c, f)
    PROVE  TInv'
<1> DEFINE me == [thread[c] EXCEPT !.pc = "unlist", !.file = f, !.left = @ \ {f},
                                   !.tags = ListOf(tagsOf[f])]
<1>1. thread[c] \in Thread /\ ThreadOK(thread[c])
  BY DEF TInv, TypeOK
<1>2. thread' = [thread EXCEPT ![c] = me]
  BY DEF ReadTagsToDelete, TInv, TypeOK
<1>3. me \in Thread
  BY <1>1, ListTypes DEF Thread, TInv, Loops
<1>4. ThreadOK(me)
  BY <1>1 DEF ThreadOK, ReadTagsToDelete, Thread
<1> HIDE DEF me
<1> QED
  BY <1>2, <1>3, <1>4, ThreadChange DEF TInv, TypeOK, ReadTagsToDelete

LEMMA UnlistType ==
    ASSUME TInv, NEW c \in Client, Unlist(c)
    PROVE  TInv'
<1> DEFINE me == [thread[c] EXCEPT !.tag = None, !.hand = {}]
<1>1. thread[c] \in Thread /\ ThreadOK(thread[c])
  BY DEF TInv, TypeOK
<1>2. thread' = [thread EXCEPT ![c] = me]
  BY DEF Unlist, TInv, TypeOK
<1>3. me \in Thread
  BY <1>1 DEF Thread
<1>4. ThreadOK(me)
  BY <1>1 DEF ThreadOK, Unlist, Thread
<1>5. filesOf' \in [Name -> (SUBSET File) \cup {Absent}]
  BY <1>1 DEF Unlist, TInv, TypeOK, ThreadOK, Thread, Without, Name
<1> HIDE DEF me
<1> QED
  BY <1>2, <1>3, <1>4, <1>5, ThreadChange DEF TInv, TypeOK, Unlist

LEMMA DeleteContentsType ==
    ASSUME TInv, NEW c \in Client, DeleteContents(c)
    PROVE  TInv'
<1> DEFINE me == [thread[c] EXCEPT !.pc = "forget"]
<1>1. thread[c] \in Thread /\ ThreadOK(thread[c])
  BY DEF TInv, TypeOK
<1>2. thread' = [thread EXCEPT ![c] = me]
  BY DEF DeleteContents, TInv, TypeOK
<1>3. me \in Thread
  BY <1>1 DEF Thread, Loops
<1>4. ThreadOK(me)
  BY <1>1 DEF ThreadOK, DeleteContents, Thread
<1>5. files' \in [File -> Content \cup {Absent}]
  BY DEF DeleteContents, TInv, TypeOK
<1> HIDE DEF me
<1> QED
  BY <1>2, <1>3, <1>4, <1>5, ThreadChange DEF TInv, TypeOK, DeleteContents

LEMMA DeleteTagListType ==
    ASSUME TInv, NEW c \in Client, DeleteTagList(c)
    PROVE  TInv'
<1> DEFINE me == [thread[c] EXCEPT !.pc = "delete", !.file = None]
<1>1. thread[c] \in Thread /\ ThreadOK(thread[c])
  BY DEF TInv, TypeOK
<1>2. thread' = [thread EXCEPT ![c] = me]
  BY DEF DeleteTagList, TInv, TypeOK
<1>3. me \in Thread
  BY <1>1 DEF Thread, Loops
<1>4. ThreadOK(me)
  BY <1>1 DEF ThreadOK, DeleteTagList, Thread
<1>5. tagsOf' \in [File -> (SUBSET Tag) \cup {Absent}]
  BY DEF DeleteTagList, TInv, TypeOK
<1> HIDE DEF me
<1> QED
  BY <1>2, <1>3, <1>4, <1>5, ThreadChange DEF TInv, TypeOK, DeleteTagList

LEMMA ReadOneType ==
    ASSUME TInv, NEW c \in Client, NEW f \in File, ReadOne(c, f)
    PROVE  TInv'
<1> DEFINE value == IF thread[c].pc = "list" THEN ListOf(tagsOf[f]) ELSE files[f]
           me == [thread[c] EXCEPT !.left = @ \ {f}, !.reply[f] = value]
<1>1. thread[c] \in Thread /\ ThreadOK(thread[c])
  BY DEF TInv, TypeOK
<1>2. thread' = [thread EXCEPT ![c].left = @ \ {f}, ![c].reply[f] = value]
  BY DEF ReadOne
<1>3. value \in (SUBSET Tag) \cup Content \cup {Absent, None}
  BY ListTypes DEF TInv, TypeOK
<1> HIDE DEF value
<1>4. thread' = [thread EXCEPT ![c] = me]
  BY <1>2, ZenonT(40) DEF TInv, TypeOK
<1>5. me \in Thread
  BY <1>1, <1>3 DEF Thread
<1>6. ThreadOK(me)
  BY <1>1 DEF ThreadOK, ReadOne, Thread
<1> HIDE DEF me
<1> QED
  BY <1>4, <1>5, <1>6, ThreadChange DEF TInv, TypeOK, ReadOne

LEMMA EndTagsType ==
    ASSUME TInv, NEW c \in Client, EndTags(c)
    PROVE  TInv'
<1> DEFINE me == [thread[c] EXCEPT !.pc = "reply"]
<1>1. thread[c] \in Thread /\ ThreadOK(thread[c])
  BY DEF TInv, TypeOK
<1>2. thread' = [thread EXCEPT ![c] = me]
  BY DEF EndTags, TInv, TypeOK
<1>3. me \in Thread
  BY <1>1 DEF Thread, Loops
<1>4. ThreadOK(me)
  BY <1>1 DEF ThreadOK, EndTags, Thread
<1> HIDE DEF me
<1> QED
  BY <1>2, <1>3, <1>4, ThreadChange DEF TInv, TypeOK, EndTags

LEMMA RespondType ==
    ASSUME TInv, NEW c \in Client, Respond(c)
    PROVE  TInv'
<1> DEFINE me == Idle
<1>1. thread[c] \in Thread /\ ThreadOK(thread[c])
  BY DEF TInv, TypeOK
<1>2. thread' = [thread EXCEPT ![c] = me]
  BY DEF Respond, TInv, TypeOK
<1>3. me \in Thread
  BY IdleOK
<1>4. ThreadOK(me)
  BY IdleOK
<1> HIDE DEF me
<1> QED
  BY <1>2, <1>3, <1>4, ThreadChange DEF TInv, TypeOK, Respond

LEMMA SearchType ==
    ASSUME TInv, NEW c \in Client, Search(c)
    PROVE  TInv'
<1> DEFINE old == thread[c]
           hits == Intersect(old.found, filesOf[Head(old.query)], old.query = old.cmd.query)
           loop == IF Len(old.query) = 1 THEN LoopOf(old.cmd.op) ELSE "query"
           me == [old EXCEPT !.pc = loop, !.query = Tail(old.query), !.found = hits,
                             !.left = hits, !.keys = hits]
<1>1. old \in Thread /\ ThreadOK(old)
  BY DEF TInv, TypeOK
<1>2. thread' = [thread EXCEPT ![c] = me]
  BY DEF Search, TInv, TypeOK
<1>3. /\ old.query \in Seq(Tag) /\ old.query # <<>>
      /\ old.cmd.op \in Op \ {"add"}
      /\ old.cmd \in Command /\ old.cmd.op \in use.ops
      /\ old.hand = {}
  BY <1>1, CommandFields DEF ThreadOK, Thread, Search
<1>4. /\ Head(old.query) \in Name
      /\ Tail(old.query) \in Seq(Tag)
      /\ Len(old.query) # 1 => Tail(old.query) # <<>>
  <2> DEFINE q == old.query
  <2>1. q \in Seq(Tag) /\ q # <<>>
    BY <1>3
  <2> HIDE DEF q
  <2>2. Head(q) \in Tag /\ Tail(q) \in Seq(Tag) /\ Len(Tail(q)) = Len(q) - 1 /\ Len(q) \in Nat
    BY <2>1, HeadTailProperties
  <2> DEFINE r == Tail(q)
  <2>3. r \in Seq(Tag) /\ Len(r) = Len(q) - 1
    BY <2>2
  <2> HIDE DEF r
  <2>4. Len(q) # 1 => r # <<>>
    BY <2>2, <2>3, EmptySeq
  <2> QED
    BY <2>2, <2>4 DEF Name, q, r
<1>5. hits \in SUBSET File
  <2>1. /\ filesOf[Head(old.query)] \in (SUBSET File) \cup {Absent}
        /\ old.found \in SUBSET File
    BY <1>1, <1>4 DEF TInv, TypeOK, Thread
  <2> QED
    BY <2>1 DEF Intersect
<1>6. /\ loop \in {"query", "list", "fetch", "delete", "retag"}
      /\ loop = "query" => Tail(old.query) # <<>>
      /\ loop = "retag" => old.cmd.op \in {"add-tags", "delete-tags"}
      /\ loop = "delete" => old.cmd.op = "delete"
  BY <1>3, <1>4 DEF LoopOf, Op
<1> HIDE DEF hits, loop
<1>7. me \in Thread
  BY <1>1, <1>4, <1>5, <1>6 DEF Thread, Loops
<1>8. ThreadOK(me)
  BY <1>1, <1>3, <1>6 DEF ThreadOK, Thread
<1> HIDE DEF me
<1> QED
  BY <1>2, <1>7, <1>8, ThreadChange DEF TInv, TypeOK, Search

LEMMA ReceiveType ==
    ASSUME TInv, NEW c \in Client, NEW m \in Command, Receive(c, m)
    PROVE  TInv'
<1> DEFINE me == IF m.op = "add"
                 THEN [Idle EXCEPT !.pc = "upload", !.cmd = m, !.found = m.names, !.left = m.names]
                 ELSE [Idle EXCEPT !.pc = "query", !.cmd = m, !.query = m.query]
<1>1. thread' = [thread EXCEPT ![c] = me]
  BY DEF Receive
<1>2. m.op \in use.ops
  BY DEF Receive, Expected
<1>3. me \in Thread /\ ThreadOK(me)
  <2>1. Idle.hand = {} /\ Idle \in Thread
    BY IdleOK DEF Idle
  <2>2. CASE m.op = "add"
    <3>1. m.names \in SUBSET File
      BY <2>2, CommandFields
    <3>2. me \in Thread
      BY <2>1, <2>2, <3>1 DEF Thread, Loops
    <3>3. me.pc = "upload" /\ me.cmd = m /\ me.left = m.names /\ me.hand = {}
      BY <2>1, <2>2 DEF Thread
    <3> QED
      BY <1>2, <2>2, <3>2, <3>3 DEF ThreadOK
  <2>3. CASE m.op # "add"
    <3>1. m.query \in Seq(Tag) /\ m.query # <<>>
      BY <2>3, CommandFields
    <3>2. me \in Thread
      BY <2>1, <2>3, <3>1 DEF Thread, Loops
    <3>3. me.pc = "query" /\ me.cmd = m /\ me.query = m.query /\ me.hand = {}
      BY <2>1, <2>3 DEF Thread
    <3> QED
      BY <1>2, <2>3, <3>1, <3>2, <3>3 DEF ThreadOK
  <2> QED
    BY <2>2, <2>3
<1> HIDE DEF me
<1> QED
  BY <1>1, <1>3, ThreadChange DEF TInv, TypeOK, Receive

LEMMA EndFilesType ==
    ASSUME TInv, NEW c \in Client, EndFiles(c)
    PROVE  TInv'
<1> DEFINE old == thread[c]
           me == IF old.pc \in {"upload", "retag"}
                 THEN [old EXCEPT !.pc = "index", !.tags = old.cmd.tags]
                 ELSE [old EXCEPT !.pc = "reply"]
<1>1. old \in Thread /\ ThreadOK(old)
  BY DEF TInv, TypeOK
<1>2. thread' = [thread EXCEPT ![c] = me]
  BY DEF EndFiles, TInv, TypeOK
<1>3. old.pc \in {"upload", "retag"} => old.cmd.tags \in SUBSET Tag
  BY <1>1, CommandFields DEF ThreadOK
<1>4. me \in Thread
  BY <1>1, <1>3 DEF Thread, Loops
<1>5. ThreadOK(me)
  BY <1>1 DEF ThreadOK, EndFiles, Thread
<1> HIDE DEF me
<1> QED
  BY <1>2, <1>4, <1>5, ThreadChange DEF TInv, TypeOK, EndFiles

LEMMA AllIdleType ==
    ASSUME TInv, thread' = [c \in Client |-> Idle], UNCHANGED <<files, tagsOf, filesOf, use>>
    PROVE  TInv'
  BY IdleOK DEF TInv, TypeOK, ThreadOK

-----------------------------------------------------------------------------
\* TypeOK, with the strengthening it needs: which command is in which loop.
THEOREM Typing == Spec => []TInv
<1>1. Init => TInv
  BY IdleOK DEF Init, TInv, TypeOK
<1>2. TInv /\ [Next]_vars => TInv'
  <2> SUFFICES ASSUME TInv, [Next]_vars PROVE TInv'
    OBVIOUS
  <2>1. CASE UNCHANGED vars
    BY <2>1 DEF TInv, TypeOK, ThreadOK, vars
  <2>2. CASE Crash
    BY <2>2, AllIdleType DEF Crash
  <2>3. ASSUME NEW c \in Client, NEW m \in Command, Receive(c, m) PROVE TInv'
    BY <2>3, ReceiveType
  <2>4. ASSUME NEW c \in Client, ThreadStep(c) PROVE TInv'
    <3>1. ASSUME NEW f \in File,
                 PutContents(c, f) \/ ReadTags(c, f) \/ ReadTagsToDelete(c, f) \/ ReadOne(c, f)
          PROVE  TInv'
      BY <3>1, PutContentsType, ReadTagsType, ReadTagsToDeleteType, ReadOneType
    <3>2. ASSUME NEW t \in Tag, ReadFiles(c, t) PROVE TInv'
      BY <3>2, ReadFilesType
    <3>3. ASSUME NEW key \in Name, WriteUnderFile(c, key) PROVE TInv'
      BY <3>3, WriteUnderFileType
    <3>4. CASE ReadPastEnd(c)
      BY <3>4, AllIdleType DEF ReadPastEnd
    <3>5. CASE Search(c) \/ PutTags(c) \/ UploadBroken(c) \/ WriteTags(c) \/ WriteFiles(c)
      BY <3>5, SearchType, PutTagsType, UploadBrokenType, WriteTagsType, WriteFilesType
    <3>6. CASE \/ Unlist(c) \/ DeleteContents(c) \/ DeleteTagList(c)
               \/ EndFiles(c) \/ EndTags(c) \/ Respond(c)
      BY <3>6, UnlistType, DeleteContentsType, DeleteTagListType, EndFilesType,
         EndTagsType, RespondType
    <3> QED
      BY <2>4, <3>1, <3>2, <3>3, <3>4, <3>5, <3>6 DEF ThreadStep
  <2> QED
    BY <2>1, <2>2, <2>3, <2>4 DEF Next
<1> QED
  BY <1>1, <1>2, PTL DEF Spec

\* The type invariant, for every use of the server.
THEOREM TypeCorrect == Spec => []TypeOK
<1>1. TInv => TypeOK
  BY DEF TInv
<1> QED
  BY <1>1, Typing, PTL

-----------------------------------------------------------------------------
(* Any number of clients that delete nothing: what tags lead to has contents *)

Stored == {f \in File : files[f] # Absent}

\* What a thread has found, read or uploaded, and may still write to the list of
\* a tag, has contents in S.
Holds(me, S) ==
    /\ me.pc = "upload" => me.found \ me.left \subseteq S
    /\ me.pc # "upload" => me.found \subseteq S
    /\ me.pc = "index" => me.hand \subseteq S

Backed ==
    /\ \A n \in Name : ListOf(filesOf[n]) \subseteq Stored
    /\ \A c \in Client : Holds(thread[c], Stored)

CInv == "delete" \notin use.ops => Backed

\* One thread moves, and no file loses its contents.
LEMMA BackedChange ==
    ASSUME TInv, Backed, NEW c \in Client, Stored \subseteq Stored',
           \A n \in Name : ListOf(filesOf'[n]) \subseteq Stored',
           \A d \in Client \ {c} : thread'[d] = thread[d],
           Holds(thread'[c], Stored')
    PROVE  Backed'
<1>1. \A d \in Client \ {c} : Holds(thread'[d], Stored')
  BY DEF Backed, Holds
<1> QED
  BY <1>1 DEF Backed

LEMMA IdleHolds == ASSUME NEW S PROVE Holds(Idle, S)
  BY DEF Holds, Idle

LEMMA SearchFinds ==
    ASSUME TInv, Backed, NEW c \in Client, Search(c)
    PROVE  /\ thread'[c].found \subseteq Stored
           /\ thread'[c].pc \notin {"upload", "index"}
<1> DEFINE old == thread[c]
<1>1. old \in Thread /\ ThreadOK(old) /\ old.pc = "query" /\ Holds(old, Stored)
  BY DEF TInv, TypeOK, Search, Backed
<1>2. /\ Head(old.query) \in Name
      /\ old.cmd.op \in Op \ {"add"}
  <2>1. old.query \in Seq(Tag) /\ old.query # <<>> /\ old.cmd \in Command /\ old.cmd.op # "add"
    BY <1>1 DEF ThreadOK, Thread
  <2> QED
    BY <2>1, CommandFields DEF Name
<1>3. /\ thread'[c].found =
           Intersect(old.found, filesOf[Head(old.query)], old.query = old.cmd.query)
      /\ thread'[c].pc \in {LoopOf(old.cmd.op), "query"}
  BY <1>1 DEF Search, TInv, TypeOK, Thread
<1>4. Intersect(old.found, filesOf[Head(old.query)], old.query = old.cmd.query) \subseteq Stored
  BY <1>1, <1>2 DEF Intersect, Backed, Holds, ListOf
<1> QED
  BY <1>2, <1>3, <1>4 DEF LoopOf, Op

LEMMA ReceiveBacked ==
    ASSUME TInv, Backed, NEW c \in Client, NEW m \in Command, Receive(c, m)
    PROVE  Backed'
<1>1. thread[c] \in Thread /\ ThreadOK(thread[c]) /\ Holds(thread[c], Stored)
  BY DEF TInv, TypeOK, Backed
<1>2. Stored \subseteq Stored'
  BY DEF Receive, Stored
<1>3. \A n \in Name : ListOf(filesOf'[n]) \subseteq Stored'
  BY <1>2 DEF Receive, Backed
<1>4. \A d \in Client \ {c} : thread'[d] = thread[d]
  BY DEF Receive, TInv, TypeOK
<1>5. Holds(thread'[c], Stored')
  BY CommandFields DEF Receive, Holds, TInv, TypeOK, Idle
<1> QED
  BY <1>2, <1>3, <1>4, <1>5, BackedChange

LEMMA SearchBacked ==
    ASSUME TInv, Backed, NEW c \in Client, Search(c)
    PROVE  Backed'
<1>1. thread[c] \in Thread /\ ThreadOK(thread[c]) /\ Holds(thread[c], Stored)
  BY DEF TInv, TypeOK, Backed
<1>2. Stored \subseteq Stored'
  BY DEF Search, Stored
<1>3. \A n \in Name : ListOf(filesOf'[n]) \subseteq Stored'
  BY <1>2 DEF Search, Backed
<1>4. \A d \in Client \ {c} : thread'[d] = thread[d]
  BY DEF Search, TInv, TypeOK
<1>5. Holds(thread'[c], Stored')
  BY <1>1, <1>2, SearchFinds DEF Search, Holds, TInv, TypeOK, Thread
<1> QED
  BY <1>2, <1>3, <1>4, <1>5, BackedChange

LEMMA PutContentsBacked ==
    ASSUME TInv, Backed, NEW c \in Client, NEW f \in File, PutContents(c, f)
    PROVE  Backed'
<1>1. thread[c] \in Thread /\ ThreadOK(thread[c]) /\ Holds(thread[c], Stored)
  BY DEF TInv, TypeOK, Backed
<1>2. Stored \subseteq Stored' /\ f \in Stored'
  <2>1. thread[c].cmd.contents[f] \in Content
    BY <1>1, CommandFields DEF PutContents, ThreadOK
  <2>2. files' = [files EXCEPT ![f] = thread[c].cmd.contents[f]]
    BY DEF PutContents
  <2> QED
    BY <2>1, <2>2, AbsentAssumption DEF Stored, TInv, TypeOK
<1>3. \A n \in Name : ListOf(filesOf'[n]) \subseteq Stored'
  BY <1>2 DEF PutContents, Backed
<1>4. \A d \in Client \ {c} : thread'[d] = thread[d]
  BY DEF PutContents, TInv, TypeOK
<1>5. Holds(thread'[c], Stored')
  <2>1. /\ thread'[c].pc = "upload"
        /\ thread'[c].found = thread[c].found
        /\ thread'[c].left = thread[c].left \ {f}
    BY DEF PutContents, TInv, TypeOK, Thread
  <2>2. thread[c].found \ thread[c].left \subseteq Stored
    BY <1>1 DEF Holds, PutContents
  <2> QED
    BY <1>2, <2>1, <2>2 DEF Holds
<1> QED
  BY <1>2, <1>3, <1>4, <1>5, BackedChange

LEMMA PutTagsBacked ==
    ASSUME TInv, Backed, NEW c \in Client, PutTags(c)
    PROVE  Backed'
<1>1. thread[c] \in Thread /\ ThreadOK(thread[c]) /\ Holds(thread[c], Stored)
  BY DEF TInv, TypeOK, Backed
<1>2. Stored \subseteq Stored'
  BY DEF PutTags, Stored
<1>3. \A n \in Name : ListOf(filesOf'[n]) \subseteq Stored'
  BY <1>2 DEF PutTags, Backed
<1>4. \A d \in Client \ {c} : thread'[d] = thread[d]
  BY DEF PutTags, TInv, TypeOK
<1>5. Holds(thread'[c], Stored')
  BY <1>1, <1>2 DEF PutTags, Holds, ThreadOK, TInv, TypeOK, Thread
<1> QED
  BY <1>2, <1>3, <1>4, <1>5, BackedChange

LEMMA UploadBrokenBacked ==
    ASSUME TInv, Backed, NEW c \in Client, UploadBroken(c)
    PROVE  Backed'
<1>1. thread[c] \in Thread /\ ThreadOK(thread[c]) /\ Holds(thread[c], Stored)
  BY DEF TInv, TypeOK, Backed
<1>2. Stored \subseteq Stored'
  BY DEF UploadBroken, Stored
<1>3. \A n \in Name : ListOf(filesOf'[n]) \subseteq Stored'
  BY <1>2 DEF UploadBroken, Backed
<1>4. \A d \in Client \ {c} : thread'[d] = thread[d]
  BY DEF UploadBroken, TInv, TypeOK
<1>5. Holds(thread'[c], Stored')
  BY IdleHolds DEF UploadBroken, TInv, TypeOK
<1> QED
  BY <1>2, <1>3, <1>4, <1>5, BackedChange

LEMMA ReadTagsBacked ==
    ASSUME TInv, Backed, NEW c \in Client, NEW f \in File, ReadTags(c, f)
    PROVE  Backed'
<1>1. thread[c] \in Thread /\ ThreadOK(thread[c]) /\ Holds(thread[c], Stored)
  BY DEF TInv, TypeOK, Backed
<1>2. Stored \subseteq Stored'
  BY DEF ReadTags, Stored
<1>3. \A n \in Name : ListOf(filesOf'[n]) \subseteq Stored'
  BY <1>2 DEF ReadTags, Backed
<1>4. \A d \in Client \ {c} : thread'[d] = thread[d]
  BY DEF ReadTags, TInv, TypeOK
<1>5. Holds(thread'[c], Stored')
  BY <1>1, <1>2 DEF ReadTags, Holds, ThreadOK, TInv, TypeOK, Thread
<1> QED
  BY <1>2, <1>3, <1>4, <1>5, BackedChange

LEMMA WriteTagsBacked ==
    ASSUME TInv, Backed, NEW c \in Client, WriteTags(c)
    PROVE  Backed'
<1>1. thread[c] \in Thread /\ ThreadOK(thread[c]) /\ Holds(thread[c], Stored)
  BY DEF TInv, TypeOK, Backed
<1>2. Stored \subseteq Stored'
  BY DEF WriteTags, Stored
<1>3. \A n \in Name : ListOf(filesOf'[n]) \subseteq Stored'
  BY <1>2 DEF WriteTags, Backed
<1>4. \A d \in Client \ {c} : thread'[d] = thread[d]
  BY DEF WriteTags, TInv, TypeOK
<1>5. Holds(thread'[c], Stored')
  BY <1>1, <1>2 DEF WriteTags, Holds, ThreadOK, TInv, TypeOK, Thread
<1> QED
  BY <1>2, <1>3, <1>4, <1>5, BackedChange

LEMMA ReadFilesBacked ==
    ASSUME TInv, Backed, NEW c \in Client, NEW t \in Tag, ReadFiles(c, t)
    PROVE  Backed'
<1>1. thread[c] \in Thread /\ ThreadOK(thread[c]) /\ Holds(thread[c], Stored)
  BY DEF TInv, TypeOK, Backed
<1>2. Stored \subseteq Stored'
  BY DEF ReadFiles, Stored
<1>3. \A n \in Name : ListOf(filesOf'[n]) \subseteq Stored'
  BY <1>2 DEF ReadFiles, Backed
<1>4. \A d \in Client \ {c} : thread'[d] = thread[d]
  BY DEF ReadFiles, TInv, TypeOK
<1>5. Holds(thread'[c], Stored')
  BY <1>1, <1>2 DEF ReadFiles, Backed, Holds, ThreadOK, TInv, TypeOK, Thread, Name
<1> QED
  BY <1>2, <1>3, <1>4, <1>5, BackedChange

LEMMA WriteFilesBacked ==
    ASSUME TInv, Backed, NEW c \in Client, WriteFiles(c)
    PROVE  Backed'
<1>1. thread[c] \in Thread /\ ThreadOK(thread[c]) /\ Holds(thread[c], Stored)
  BY DEF TInv, TypeOK, Backed
<1>2. Stored \subseteq Stored'
  BY DEF WriteFiles, Stored
<1>3. \A n \in Name : ListOf(filesOf'[n]) \subseteq Stored'
  BY <1>1, <1>2 DEF WriteFiles, Backed, Holds, ListOf, Enlisted, TInv, TypeOK, ThreadOK
<1>4. \A d \in Client \ {c} : thread'[d] = thread[d]
  BY DEF WriteFiles, TInv, TypeOK
<1>5. Holds(thread'[c], Stored')
  BY <1>1, <1>2 DEF WriteFiles, Holds, ThreadOK, TInv, TypeOK, Thread
<1> QED
  BY <1>2, <1>3, <1>4, <1>5, BackedChange

LEMMA WriteUnderFileBacked ==
    ASSUME TInv, Backed, NEW c \in Client, NEW key \in Name, WriteUnderFile(c, key)
    PROVE  Backed'
<1>1. thread[c] \in Thread /\ ThreadOK(thread[c]) /\ Holds(thread[c], Stored)
  BY DEF TInv, TypeOK, Backed
<1>2. Stored \subseteq Stored'
  BY DEF WriteUnderFile, Stored
<1>3. \A n \in Name : ListOf(filesOf'[n]) \subseteq Stored'
  BY <1>1, <1>2 DEF WriteUnderFile, Backed, Holds, ListOf, TInv, TypeOK, ThreadOK
<1>4. \A d \in Client \ {c} : thread'[d] = thread[d]
  BY DEF WriteUnderFile, TInv, TypeOK
<1>5. Holds(thread'[c], Stored')
  BY <1>1, <1>2 DEF WriteUnderFile, Holds, ThreadOK, TInv, TypeOK, Thread
<1> QED
  BY <1>2, <1>3, <1>4, <1>5, BackedChange

LEMMA ReadOneBacked ==
    ASSUME TInv, Backed, NEW c \in Client, NEW f \in File, ReadOne(c, f)
    PROVE  Backed'
<1>1. thread[c] \in Thread /\ ThreadOK(thread[c]) /\ Holds(thread[c], Stored)
  BY DEF TInv, TypeOK, Backed
<1>2. Stored \subseteq Stored'
  BY DEF ReadOne, Stored
<1>3. \A n \in Name : ListOf(filesOf'[n]) \subseteq Stored'
  BY <1>2 DEF ReadOne, Backed
<1>4. \A d \in Client \ {c} : thread'[d] = thread[d]
  BY DEF ReadOne, TInv, TypeOK
<1>5. Holds(thread'[c], Stored')
  BY <1>1, <1>2 DEF ReadOne, Holds, ThreadOK, TInv, TypeOK, Thread
<1> QED
  BY <1>2, <1>3, <1>4, <1>5, BackedChange

LEMMA EndFilesBacked ==
    ASSUME TInv, Backed, NEW c \in Client, EndFiles(c)
    PROVE  Backed'
<1>1. thread[c] \in Thread /\ ThreadOK(thread[c]) /\ Holds(thread[c], Stored)
  BY DEF TInv, TypeOK, Backed
<1>2. Stored \subseteq Stored'
  BY DEF EndFiles, Stored
<1>3. \A n \in Name : ListOf(filesOf'[n]) \subseteq Stored'
  BY <1>2 DEF EndFiles, Backed
<1>4. \A d \in Client \ {c} : thread'[d] = thread[d]
  BY DEF EndFiles, TInv, TypeOK
<1>5. Holds(thread'[c], Stored')
  BY <1>1, <1>2 DEF EndFiles, Holds, ThreadOK, TInv, TypeOK, Thread
<1> QED
  BY <1>2, <1>3, <1>4, <1>5, BackedChange

LEMMA EndTagsBacked ==
    ASSUME TInv, Backed, NEW c \in Client, EndTags(c)
    PROVE  Backed'
<1>1. thread[c] \in Thread /\ ThreadOK(thread[c]) /\ Holds(thread[c], Stored)
  BY DEF TInv, TypeOK, Backed
<1>2. Stored \subseteq Stored'
  BY DEF EndTags, Stored
<1>3. \A n \in Name : ListOf(filesOf'[n]) \subseteq Stored'
  BY <1>2 DEF EndTags, Backed
<1>4. \A d \in Client \ {c} : thread'[d] = thread[d]
  BY DEF EndTags, TInv, TypeOK
<1>5. Holds(thread'[c], Stored')
  BY <1>1, <1>2 DEF EndTags, Holds, ThreadOK, TInv, TypeOK, Thread
<1> QED
  BY <1>2, <1>3, <1>4, <1>5, BackedChange

LEMMA RespondBacked ==
    ASSUME TInv, Backed, NEW c \in Client, Respond(c)
    PROVE  Backed'
<1>1. thread[c] \in Thread /\ ThreadOK(thread[c]) /\ Holds(thread[c], Stored)
  BY DEF TInv, TypeOK, Backed
<1>2. Stored \subseteq Stored'
  BY DEF Respond, Stored
<1>3. \A n \in Name : ListOf(filesOf'[n]) \subseteq Stored'
  BY <1>2 DEF Respond, Backed
<1>4. \A d \in Client \ {c} : thread'[d] = thread[d]
  BY DEF Respond, TInv, TypeOK
<1>5. Holds(thread'[c], Stored')
  BY IdleHolds DEF Respond, TInv, TypeOK
<1> QED
  BY <1>2, <1>3, <1>4, <1>5, BackedChange

-----------------------------------------------------------------------------
\* CInv is an invariant: while nobody deletes, what tags lead to and what a thread
\* may still enlist has contents.
THEOREM ContentInvariance == Spec => [](TInv /\ CInv)
<1>1. Init => CInv
  BY IdleHolds DEF Init, CInv, Backed, ListOf
<1>2. TInv /\ CInv /\ [Next]_vars => CInv'
  <2> SUFFICES ASSUME TInv, CInv, [Next]_vars, "delete" \notin use'.ops PROVE Backed'
    BY DEF CInv
  <2>1. CASE UNCHANGED vars
    BY <2>1 DEF CInv, Backed, Holds, Stored, vars
  <2>2. ASSUME thread' = [c \in Client |-> Idle], UNCHANGED <<files, tagsOf, filesOf, use>>
        PROVE  Backed'
    BY <2>2, IdleHolds DEF CInv, Backed, Stored
  <2>3. ASSUME NEW c \in Client, NEW m \in Command, Receive(c, m) PROVE Backed'
    BY <2>3, ReceiveBacked DEF CInv, Receive
  <2>4. ASSUME NEW c \in Client, ThreadStep(c) PROVE Backed'
    <3>1. "delete" \notin use.ops /\ Backed
      BY <2>4 DEF ThreadStep, CInv, Search, PutContents, ReadTags, ReadTagsToDelete, ReadOne,
         PutTags, UploadBroken, WriteTags, ReadFiles, WriteFiles, WriteUnderFile, ReadPastEnd,
         Unlist, DeleteContents, DeleteTagList, EndFiles, EndTags, Respond
    <3>2. thread[c].pc \notin {"delete", "unlist", "forget"}
      BY <3>1 DEF TInv, ThreadOK
    <3>3. ASSUME NEW f \in File, PutContents(c, f) \/ ReadTags(c, f) \/ ReadOne(c, f)
          PROVE  Backed'
      BY <3>1, <3>3, PutContentsBacked, ReadTagsBacked, ReadOneBacked
    <3>4. ASSUME NEW t \in Tag, ReadFiles(c, t) PROVE Backed'
      BY <3>1, <3>4, ReadFilesBacked
    <3>5. ASSUME NEW key \in Name, WriteUnderFile(c, key) PROVE Backed'
      BY <3>1, <3>5, WriteUnderFileBacked
    <3>6. CASE ReadPastEnd(c)
      BY <2>2, <3>6 DEF ReadPastEnd
    <3>7. CASE Search(c) \/ PutTags(c) \/ UploadBroken(c) \/ WriteTags(c) \/ WriteFiles(c)
      BY <3>1, <3>7, SearchBacked, PutTagsBacked, UploadBrokenBacked, WriteTagsBacked,
         WriteFilesBacked
    <3>8. CASE EndFiles(c) \/ EndTags(c) \/ Respond(c)
      BY <3>1, <3>8, EndFilesBacked, EndTagsBacked, RespondBacked
    <3>9. /\ ~Unlist(c) /\ ~DeleteContents(c) /\ ~DeleteTagList(c)
          /\ \A f \in File : ~ReadTagsToDelete(c, f)
      BY <3>2 DEF Unlist, DeleteContents, DeleteTagList, ReadTagsToDelete
    <3> QED
      BY <2>4, <3>3, <3>4, <3>5, <3>6, <3>7, <3>8, <3>9 DEF ThreadStep
  <2> QED
    BY <2>1, <2>2, <2>3, <2>4 DEF Next, Crash
<1> QED
  BY <1>1, <1>2, Typing, PTL DEF Spec

\* ContentsBehindIndex: for any number of clients that delete nothing, with lost
\* updates, kills and broken uploads, no tag ever leads to a file without contents.
THEOREM IndexBacked == Spec => []ContentsBehindIndex
<1>1. TInv /\ CInv => ContentsBehindIndex
  BY DEF CInv, Backed, Stored, ContentsBehindIndex
<1> QED
  BY <1>1, ContentInvariance, PTL

-----------------------------------------------------------------------------
(* One client that drops no tag: the order of the writes *)

\* The uses of the server that IndexTruthful is about.
Careful == use.alone /\ use.readd # "any" /\ "delete-tags" \notin use.ops

Index ==
    \A n \in Name : \A f \in ListOf(filesOf[n]) :
        files[f] # Absent /\ n \in ListOf(tagsOf[f])

OneBusy == \A c, d \in Client : thread[c].pc # "idle" /\ thread[d].pc # "idle" => c = d

\* add: a file of the command is listed under no other tags; contents are
\* written first, tags second.
SafeUpload(me) ==
    me.pc = "upload" =>
        /\ me.left \subseteq me.found
        /\ me.file \in (me.found \ me.left) \cup {None}
        /\ \A f \in me.found, n \in Name : f \in ListOf(filesOf[n]) => n \in me.cmd.tags
        /\ \A f \in me.found \ me.left : files[f] # Absent
        /\ \A f \in me.found \ (me.left \cup {me.file}) : me.cmd.tags \subseteq ListOf(tagsOf[f])

\* add-tags, first loop: the files done have the new tags, and keep their own.
SafeRetag(me) ==
    me.pc = "retag" =>
        /\ me.left \subseteq me.found
        /\ me.file \in me.found \cup {None}
        /\ \A f \in me.found \ (me.left \cup {me.file}) : me.cmd.tags \subseteq ListOf(tagsOf[f])
        /\ me.file # None => me.hand = ListOf(tagsOf[me.file])

\* add and add-tags, last loop: every file to be listed has contents and tags.
SafeIndex(me) ==
    me.pc = "index" =>
        /\ me.tags \subseteq me.cmd.tags
        /\ me.tag \in me.cmd.tags \cup {None}
        /\ \A f \in me.found : files[f] # Absent /\ me.cmd.tags \subseteq ListOf(tagsOf[f])
        /\ me.tag # None => me.hand = ListOf(filesOf[me.tag])

\* delete: the file is only in lists that are still to be shortened; contents
\* and tags go when it is in no list.
SafeDelete(me) ==
    /\ me.pc = "unlist" =>
         /\ \A n \in Name : me.file \in ListOf(filesOf[n]) => n \in me.tags \cup {me.tag}
         /\ me.tag # None => me.hand = ListOf(filesOf[me.tag])
    /\ me.pc = "forget" => \A n \in Name : me.file \notin ListOf(filesOf[n])

Safe(me) ==
    /\ me.pc \notin {"index", "unlist"} => me.tag = None
    /\ me.pc = "query" => me.file = None
    /\ me.pc \in {"query", "retag"} => \A f \in me.found : files[f] # Absent
    /\ SafeUpload(me)
    /\ SafeRetag(me)
    /\ SafeIndex(me)
    /\ SafeDelete(me)

Truthful == Index /\ OneBusy /\ \A c \in Client : Safe(thread[c])

SInv == Careful => Truthful

-----------------------------------------------------------------------------
LEMMA IdleSafe == Safe(Idle)
  BY DEF Idle, Safe, SafeUpload, SafeRetag, SafeIndex, SafeDelete

\* The thread that moves is the only busy one.
LEMMA MoverState ==
    ASSUME TInv, Truthful, NEW c \in Client, thread[c].pc # "idle"
    PROVE  /\ thread[c] \in Thread /\ ThreadOK(thread[c]) /\ Safe(thread[c]) /\ Index
           /\ \A d \in Client \ {c} : thread[d].pc = "idle"
  BY DEF TInv, TypeOK, Truthful, OneBusy

LEMMA TruthfulChange ==
    ASSUME TInv, Truthful, NEW c \in Client,
           \A d \in Client \ {c} : thread'[d] = thread[d] /\ thread[d].pc = "idle",
           Index', Safe(thread[c])'
    PROVE  Truthful'
<1>1. \A d \in Client \ {c} : thread'[d].pc = "idle" /\ thread'[d].tag = None
  BY DEF Truthful, Safe
<1>2. OneBusy'
  BY <1>1 DEF OneBusy
<1>3. \A d \in Client \ {c} : Safe(thread[d])'
  BY <1>1 DEF Safe, SafeUpload, SafeRetag, SafeIndex, SafeDelete
<1> QED
  BY <1>2, <1>3 DEF Truthful

\* A list of names is not taken for the absence of one.
LEMMA ListOfList == \A S \in SUBSET Name : ListOf(S) = S
  BY DEF ListOf

LEMMA Lists ==
    ASSUME TInv
    PROVE  /\ \A f \in File : ListOf(tagsOf[f]) \in SUBSET Tag
           /\ \A n \in Name : ListOf(filesOf[n]) \in SUBSET File
  BY ListTypes DEF TInv

-----------------------------------------------------------------------------
LEMMA SearchTruthful ==
    ASSUME TInv, Truthful, Careful, NEW c \in Client, Search(c)
    PROVE  Truthful'
<1> DEFINE old == thread[c]
           list == filesOf[Head(old.query)]
           hits == Intersect(old.found, list, old.query = old.cmd.query)
           loop == IF Len(old.query) = 1 THEN LoopOf(old.cmd.op) ELSE "query"
           rest == Tail(old.query)
<1>1. /\ old \in Thread /\ ThreadOK(old) /\ Safe(old) /\ Index
      /\ \A d \in Client \ {c} : thread'[d] = thread[d] /\ thread[d].pc = "idle"
  BY MoverState DEF Search, TInv, TypeOK
<1>2. /\ old.pc = "query"
      /\ thread' = [thread EXCEPT ![c].pc = loop, ![c].query = rest, ![c].found = hits,
                                  ![c].left = hits, ![c].keys = hits]
      /\ UNCHANGED <<files, tagsOf, filesOf>>
  BY DEF Search
<1>3. old.tag = None /\ old.file = None
  BY <1>1, <1>2 DEF Safe
<1>4. Index'
  BY <1>1, <1>2 DEF Index
<1>5. \A f \in hits : files[f] # Absent
  <2>1. Head(old.query) \in Name
    <3>1. old.query \in Seq(Tag) /\ old.query # <<>>
      BY <1>1, <1>2 DEF ThreadOK, Thread
    <3> QED
      BY <3>1, HeadTailProperties DEF Name
  <2>2. \A f \in ListOf(list) \cup old.found : files[f] # Absent
    BY <1>1, <1>2, <2>1 DEF Index, Safe
  <2>3. hits \subseteq old.found \cup ListOf(list)
    <3> HIDE DEF list
    <3>1. CASE list = Absent
      BY <3>1 DEF Intersect
    <3>2. CASE list # Absent /\ old.query = old.cmd.query
      BY <3>2 DEF Intersect, ListOf
    <3>3. CASE list # Absent /\ old.query # old.cmd.query
      BY <3>3 DEF Intersect, ListOf
    <3> QED
      BY <3>1, <3>2, <3>3
  <2> HIDE DEF hits, list
  <2> QED
    BY <2>2, <2>3
<1>6. loop \in {"query", "list", "fetch", "delete", "retag"}
  <2>1. old.cmd.op \in Op \ {"add"}
    BY <1>1, <1>2, CommandFields DEF ThreadOK
  <2> QED
    BY <2>1 DEF LoopOf, Op
<1> HIDE DEF hits, loop, rest
<1>7. /\ thread'[c].pc = loop /\ thread'[c].found = hits /\ thread'[c].left = hits
      /\ thread'[c].file = None /\ thread'[c].tag = None
  BY <1>1, <1>2, <1>3 DEF TInv, TypeOK, Thread
<1>8. SafeRetag(thread[c])'
  BY <1>7 DEF SafeRetag
<1>9. Safe(thread[c])'
  BY <1>2, <1>5, <1>6, <1>7, <1>8 DEF Safe, SafeUpload, SafeIndex, SafeDelete
<1> QED
  BY <1>1, <1>4, <1>9, TruthfulChange

LEMMA PutContentsTruthful ==
    ASSUME TInv, Truthful, Careful, NEW c \in Client, NEW f \in File, PutContents(c, f)
    PROVE  Truthful'
<1> DEFINE old == thread[c]
<1>1. /\ old \in Thread /\ ThreadOK(old) /\ Safe(old) /\ Index
      /\ \A d \in Client \ {c} : thread'[d] = thread[d] /\ thread[d].pc = "idle"
  BY MoverState DEF PutContents, TInv, TypeOK
<1>2. /\ old.pc = "upload"
      /\ old.file = None
      /\ f \in old.left
      /\ thread'[c].file = f
      /\ thread'[c].left = old.left \ {f}
      /\ thread'[c].pc = old.pc
      /\ thread'[c].found = old.found
      /\ thread'[c].cmd = old.cmd
      /\ thread'[c].tag = old.tag
  BY <1>1 DEF PutContents, TInv, TypeOK, Thread
<1>3. files'[f] # Absent /\ \A g \in File \ {f} : files'[g] = files[g]
  <2>1. old.cmd.contents[f] \in Content
    BY <1>1, <1>2, CommandFields DEF ThreadOK
  <2> QED
    BY <2>1 DEF PutContents, TInv, TypeOK
<1>4. Index'
  BY <1>1, <1>3, Lists DEF PutContents, Index
<1>5. SafeUpload(thread[c])'
  <2>1. /\ old.left \subseteq old.found /\ old.found \subseteq File
        /\ \A g \in old.found, n \in Name : g \in ListOf(filesOf[n]) => n \in old.cmd.tags
        /\ \A g \in old.found \ old.left : files[g] # Absent
        /\ \A g \in old.found \ old.left : old.cmd.tags \subseteq ListOf(tagsOf[g])
    BY <1>1, <1>2 DEF Safe, SafeUpload, Thread, Name
  <2>2. \A g \in old.found \ thread'[c].left : files'[g] # Absent
    BY <1>2, <1>3, <2>1
  <2>3. UNCHANGED <<tagsOf, filesOf>>
    BY DEF PutContents
  <2> QED
    BY <1>2, <2>1, <2>2, <2>3 DEF SafeUpload
<1>6. Safe(thread[c])'
  BY <1>1, <1>2, <1>5 DEF Safe, SafeRetag, SafeIndex, SafeDelete
<1> QED
  BY <1>1, <1>4, <1>6, TruthfulChange

LEMMA PutTagsTruthful ==
    ASSUME TInv, Truthful, Careful, NEW c \in Client, PutTags(c)
    PROVE  Truthful'
<1> DEFINE old == thread[c]
<1>1. /\ old \in Thread /\ ThreadOK(old) /\ Safe(old) /\ Index
      /\ \A d \in Client \ {c} : thread'[d] = thread[d] /\ thread[d].pc = "idle"
  BY MoverState DEF PutTags, TInv, TypeOK
<1>2. /\ old.pc = "upload"
      /\ old.file # None
      /\ thread'[c].file = None
      /\ thread'[c].pc = old.pc
      /\ thread'[c].found = old.found
      /\ thread'[c].left = old.left
      /\ thread'[c].cmd = old.cmd
      /\ thread'[c].tag = old.tag
  BY <1>1 DEF PutTags, TInv, TypeOK, Thread
<1>3. SafeUpload(old) /\ old.file \in File /\ old.found \subseteq File
  BY <1>1, <1>2 DEF Safe, SafeUpload, Thread
<1>4. /\ ListOf(tagsOf'[old.file]) = old.cmd.tags
      /\ \A g \in File \ {old.file} : tagsOf'[g] = tagsOf[g]
  <2>1. old.cmd.tags \in SUBSET Name
    BY <1>1, <1>2, CommandFields DEF ThreadOK, Name
  <2> QED
    BY <1>3, <2>1, ListOfList DEF PutTags, TInv, TypeOK
<1>5. Index'
  <2> SUFFICES ASSUME NEW n \in Name, NEW f \in ListOf(filesOf[n])
               PROVE  files[f] # Absent /\ n \in ListOf(tagsOf'[f])
    BY DEF PutTags, Index
  <2>1. files[f] # Absent /\ n \in ListOf(tagsOf[f]) /\ f \in File
    BY <1>1, Lists DEF Index
  <2>2. f = old.file => n \in old.cmd.tags
    BY <1>2, <1>3 DEF SafeUpload
  <2> QED
    BY <1>4, <2>1, <2>2
<1>6. SafeUpload(thread[c])'
  BY <1>2, <1>3, <1>4 DEF SafeUpload, PutTags, Name
<1>7. Safe(thread[c])'
  BY <1>1, <1>2, <1>6 DEF Safe, SafeRetag, SafeIndex, SafeDelete
<1> QED
  BY <1>1, <1>5, <1>7, TruthfulChange

LEMMA UploadBrokenTruthful ==
    ASSUME TInv, Truthful, Careful, NEW c \in Client, UploadBroken(c)
    PROVE  Truthful'
<1> DEFINE old == thread[c]
<1>1. /\ old \in Thread /\ ThreadOK(old) /\ Safe(old) /\ Index
      /\ \A d \in Client \ {c} : thread'[d] = thread[d] /\ thread[d].pc = "idle"
  BY MoverState DEF UploadBroken, TInv, TypeOK
<1>2. /\ old.pc = "upload"
      /\ thread'[c] = Idle
  BY <1>1 DEF UploadBroken, TInv, TypeOK, Thread
<1>3. Index'
  BY <1>1 DEF UploadBroken, Index
<1>4. Safe(thread[c])'
  BY <1>2, IdleSafe DEF Safe, SafeUpload, SafeRetag, SafeIndex, SafeDelete, Idle
<1> QED
  BY <1>1, <1>3, <1>4, TruthfulChange

LEMMA ReadTagsTruthful ==
    ASSUME TInv, Truthful, Careful, NEW c \in Client, NEW f \in File, ReadTags(c, f)
    PROVE  Truthful'
<1> DEFINE old == thread[c]
<1>1. /\ old \in Thread /\ ThreadOK(old) /\ Safe(old) /\ Index
      /\ \A d \in Client \ {c} : thread'[d] = thread[d] /\ thread[d].pc = "idle"
  BY MoverState DEF ReadTags, TInv, TypeOK
<1>2. /\ old.pc = "retag"
      /\ old.file = None
      /\ f \in old.left
      /\ thread'[c].file = f
      /\ thread'[c].left = old.left \ {f}
      /\ thread'[c].hand = ListOf(tagsOf[f])
      /\ thread'[c].pc = old.pc
      /\ thread'[c].found = old.found
      /\ thread'[c].cmd = old.cmd
      /\ thread'[c].tag = old.tag
  BY <1>1 DEF ReadTags, TInv, TypeOK, Thread
<1>3. Index'
  BY <1>1 DEF ReadTags, Index
<1>4. SafeRetag(thread[c])'
  <2>1. SafeRetag(old) /\ files' = files /\ tagsOf' = tagsOf
    BY <1>1 DEF Safe, ReadTags
  <2>2. old.found \subseteq File /\ None \notin File
    BY <1>1 DEF Thread, Name
  <2>3. /\ old.left \subseteq old.found
        /\ \A g \in old.found \ old.left : old.cmd.tags \subseteq ListOf(tagsOf[g])
    BY <1>2, <2>1, <2>2 DEF SafeRetag
  <2>4. old.left \ {f} \subseteq old.found /\ f \in old.found
    BY <1>2, <2>3
  <2>5. \A g \in old.found \ ((old.left \ {f}) \cup {f}) :
            old.cmd.tags \subseteq ListOf(tagsOf[g])
    BY <2>3
  <2> QED
    BY <1>2, <2>1, <2>4, <2>5 DEF SafeRetag
<1>5. Safe(thread[c])'
  BY <1>1, <1>2, <1>4 DEF Safe, SafeUpload, SafeIndex, SafeDelete, ReadTags
<1> QED
  BY <1>1, <1>3, <1>5, TruthfulChange

LEMMA WriteTagsTruthful ==
    ASSUME TInv, Truthful, Careful, NEW c \in Client, WriteTags(c)
    PROVE  Truthful'
<1> DEFINE old == thread[c]
<1>1. /\ old \in Thread /\ ThreadOK(old) /\ Safe(old) /\ Index
      /\ \A d \in Client \ {c} : thread'[d] = thread[d] /\ thread[d].pc = "idle"
  BY MoverState DEF WriteTags, TInv, TypeOK
<1>2. /\ old.pc = "retag"
      /\ old.file # None
      /\ thread'[c].file = None
      /\ thread'[c].pc = old.pc
      /\ thread'[c].found = old.found
      /\ thread'[c].left = old.left
      /\ thread'[c].cmd = old.cmd
      /\ thread'[c].tag = old.tag
  BY <1>1 DEF WriteTags, TInv, TypeOK, Thread
<1>3. SafeRetag(old) /\ old.file \in File /\ old.found \subseteq File
  BY <1>1, <1>2 DEF Safe, SafeRetag, Thread
<1>4. /\ ListOf(tagsOf'[old.file]) = ListOf(tagsOf[old.file]) \cup old.cmd.tags
      /\ \A g \in File \ {old.file} : tagsOf'[g] = tagsOf[g]
  <2>1. old.cmd.op = "add-tags" /\ old.cmd.tags \in SUBSET Name
    BY <1>1, <1>2, CommandFields DEF ThreadOK, Careful, Name
  <2>2. Retagged(old.cmd, old.hand) = ListOf(tagsOf[old.file]) \cup old.cmd.tags
    BY <1>2, <1>3, <2>1 DEF Retagged, SafeRetag
  <2>3. ListOf(tagsOf[old.file]) \cup old.cmd.tags \in SUBSET Name
    BY <1>3, <2>1, Lists DEF Name
  <2> QED
    BY <1>3, <2>2, <2>3, ListOfList DEF WriteTags, TInv, TypeOK
<1>5. Index'
  <2> SUFFICES ASSUME NEW n \in Name, NEW f \in ListOf(filesOf[n])
               PROVE  files[f] # Absent /\ n \in ListOf(tagsOf'[f])
    BY DEF WriteTags, Index
  <2>1. files[f] # Absent /\ n \in ListOf(tagsOf[f]) /\ f \in File
    BY <1>1, Lists DEF Index
  <2> QED
    BY <1>4, <2>1
<1>6. SafeRetag(thread[c])'
  BY <1>2, <1>3, <1>4 DEF SafeRetag, WriteTags
<1>7. Safe(thread[c])'
  BY <1>1, <1>2, <1>6 DEF Safe, SafeUpload, SafeIndex, SafeDelete, WriteTags
<1> QED
  BY <1>1, <1>5, <1>7, TruthfulChange

LEMMA ReadFilesTruthful ==
    ASSUME TInv, Truthful, Careful, NEW c \in Client, NEW t \in Tag, ReadFiles(c, t)
    PROVE  Truthful'
<1> DEFINE old == thread[c]
<1>1. /\ old \in Thread /\ ThreadOK(old) /\ Safe(old) /\ Index
      /\ \A d \in Client \ {c} : thread'[d] = thread[d] /\ thread[d].pc = "idle"
  BY MoverState DEF ReadFiles, TInv, TypeOK
<1>2. /\ old.pc \in {"index", "unlist"}
      /\ old.tag = None
      /\ t \in old.tags
      /\ thread'[c].tag = t
      /\ thread'[c].tags = old.tags \ {t}
      /\ thread'[c].hand = ListOf(filesOf[t])
      /\ thread'[c].pc = old.pc
      /\ thread'[c].found = old.found
      /\ thread'[c].cmd = old.cmd
      /\ thread'[c].file = old.file
  BY <1>1 DEF ReadFiles, TInv, TypeOK, Thread
<1>3. Index'
  BY <1>1 DEF ReadFiles, Index
<1>4. SafeIndex(thread[c])'
  <2>1. SafeIndex(old) /\ UNCHANGED <<files, tagsOf, filesOf>>
    BY <1>1 DEF Safe, ReadFiles
  <2> QED
    BY <1>2, <2>1 DEF SafeIndex
<1>5. SafeDelete(thread[c])'
  <2>1. SafeDelete(old) /\ UNCHANGED <<files, tagsOf, filesOf>>
    BY <1>1 DEF Safe, ReadFiles
  <2> QED
    BY <1>2, <2>1 DEF SafeDelete
<1>6. Safe(thread[c])'
  BY <1>2, <1>4, <1>5 DEF Safe, SafeUpload, SafeRetag
<1> QED
  BY <1>1, <1>3, <1>6, TruthfulChange

LEMMA WriteFilesTruthful ==
    ASSUME TInv, Truthful, Careful, NEW c \in Client, WriteFiles(c)
    PROVE  Truthful'
<1> DEFINE old == thread[c]
<1>1. /\ old \in Thread /\ ThreadOK(old) /\ Safe(old) /\ Index
      /\ \A d \in Client \ {c} : thread'[d] = thread[d] /\ thread[d].pc = "idle"
  BY MoverState DEF WriteFiles, TInv, TypeOK
<1>2. /\ old.pc = "index"
      /\ old.tag # None
      /\ thread'[c].tag = None
      /\ thread'[c].pc = old.pc
      /\ thread'[c].tags = old.tags
      /\ thread'[c].found = old.found
      /\ thread'[c].cmd = old.cmd
  BY <1>1 DEF WriteFiles, TInv, TypeOK, Thread
<1>3. SafeIndex(old) /\ old.tag \in Name /\ old.found \subseteq File
  BY <1>1, <1>2 DEF Safe, Thread, Name
<1>4. /\ ListOf(filesOf'[old.tag]) = ListOf(filesOf[old.tag]) \cup old.found
      /\ \A n \in Name \ {old.tag} : filesOf'[n] = filesOf[n]
  <2>1. Enlisted(old.hand, old.found) = ListOf(filesOf[old.tag]) \cup old.found
    BY <1>2, <1>3 DEF Enlisted, SafeIndex
  <2>2. ListOf(filesOf[old.tag]) \cup old.found \in SUBSET Name
    BY <1>3, Lists DEF Name
  <2> QED
    BY <1>3, <2>1, <2>2, ListOfList DEF WriteFiles, TInv, TypeOK
<1>5. Index'
  <2> SUFFICES ASSUME NEW n \in Name, NEW f \in ListOf(filesOf'[n])
               PROVE  files[f] # Absent /\ n \in ListOf(tagsOf[f])
    BY DEF WriteFiles, Index
  <2>1. CASE f \in ListOf(filesOf[n])
    BY <1>1, <2>1 DEF Index
  <2>2. CASE f \notin ListOf(filesOf[n])
    <3>1. n = old.tag /\ f \in old.found
      BY <1>4, <2>2
    <3> QED
      BY <1>2, <1>3, <3>1 DEF SafeIndex
  <2> QED
    BY <2>1, <2>2
<1>6. SafeIndex(thread[c])'
  <2>1. files' = files /\ tagsOf' = tagsOf
    BY DEF WriteFiles
  <2> QED
    BY <1>2, <1>3, <2>1 DEF SafeIndex
<1>7. Safe(thread[c])'
  BY <1>2, <1>6 DEF Safe, SafeUpload, SafeRetag, SafeDelete
<1> QED
  BY <1>1, <1>5, <1>7, TruthfulChange

LEMMA ReadTagsToDeleteTruthful ==
    ASSUME TInv, Truthful, Careful, NEW c \in Client, NEW f \in File, ReadTagsToDelete(c, f)
    PROVE  Truthful'
<1> DEFINE old == thread[c]
<1>1. /\ old \in Thread /\ ThreadOK(old) /\ Safe(old) /\ Index
      /\ \A d \in Client \ {c} : thread'[d] = thread[d] /\ thread[d].pc = "idle"
  BY MoverState DEF ReadTagsToDelete, TInv, TypeOK
<1>2. /\ old.pc = "delete"
      /\ thread'[c].pc = "unlist"
      /\ thread'[c].file = f
      /\ thread'[c].tags = ListOf(tagsOf[f])
      /\ thread'[c].tag = old.tag
  BY <1>1 DEF ReadTagsToDelete, TInv, TypeOK, Thread
<1>3. Index'
  BY <1>1 DEF ReadTagsToDelete, Index
<1>4. old.tag = None
  BY <1>1, <1>2 DEF Safe
<1>5. SafeDelete(thread[c])'
  <2>1. filesOf' = filesOf /\ \A n \in Name : f \in ListOf(filesOf[n]) => n \in ListOf(tagsOf[f])
    BY <1>1 DEF Index, ReadTagsToDelete
  <2> QED
    BY <1>2, <1>4, <2>1 DEF SafeDelete
<1>6. Safe(thread[c])'
  BY <1>2, <1>4, <1>5 DEF Safe, SafeUpload, SafeRetag, SafeIndex
<1> QED
  BY <1>1, <1>3, <1>6, TruthfulChange

LEMMA UnlistTruthful ==
    ASSUME TInv, Truthful, Careful, NEW c \in Client, Unlist(c)
    PROVE  Truthful'
<1> DEFINE old == thread[c]
<1>1. /\ old \in Thread /\ ThreadOK(old) /\ Safe(old) /\ Index
      /\ \A d \in Client \ {c} : thread'[d] = thread[d] /\ thread[d].pc = "idle"
  BY MoverState DEF Unlist, TInv, TypeOK
<1>2. /\ old.pc = "unlist"
      /\ old.tag # None
      /\ thread'[c].tag = None
      /\ thread'[c].pc = old.pc
      /\ thread'[c].tags = old.tags
      /\ thread'[c].file = old.file
  BY <1>1 DEF Unlist, TInv, TypeOK, Thread
<1>3. SafeDelete(old) /\ old.tag \in Name
  BY <1>1, <1>2 DEF Safe, Thread, Name
<1>4. /\ ListOf(filesOf'[old.tag]) = ListOf(filesOf[old.tag]) \ {old.file}
      /\ \A n \in Name \ {old.tag} : filesOf'[n] = filesOf[n]
  <2>1. old.hand = ListOf(filesOf[old.tag])
    BY <1>2, <1>3 DEF SafeDelete
  <2>2. old.hand \ {old.file} \in SUBSET Name
    BY <1>3, <2>1, Lists DEF Name
  <2>3. ListOf(Without(old.hand, old.file)) = old.hand \ {old.file}
    <3>1. CASE old.hand \subseteq {old.file}
      BY <3>1 DEF Without, ListOf
    <3>2. CASE ~(old.hand \subseteq {old.file})
      BY <2>2, <3>2, ListOfList DEF Without
    <3> QED
      BY <3>1, <3>2
  <2> QED
    BY <1>3, <2>1, <2>3 DEF Unlist, TInv, TypeOK
<1>5. Index'
  <2> SUFFICES ASSUME NEW n \in Name, NEW f \in ListOf(filesOf'[n])
               PROVE  files[f] # Absent /\ n \in ListOf(tagsOf[f])
    BY DEF Unlist, Index
  <2>1. f \in ListOf(filesOf[n])
    BY <1>4
  <2> QED
    BY <1>1, <2>1 DEF Index
<1>6. SafeDelete(thread[c])'
  BY <1>2, <1>3, <1>4 DEF SafeDelete
<1>7. Safe(thread[c])'
  BY <1>2, <1>6 DEF Safe, SafeUpload, SafeRetag, SafeIndex
<1> QED
  BY <1>1, <1>5, <1>7, TruthfulChange

LEMMA DeleteContentsTruthful ==
    ASSUME TInv, Truthful, Careful, NEW c \in Client, DeleteContents(c)
    PROVE  Truthful'
<1> DEFINE old == thread[c]
<1>1. /\ old \in Thread /\ ThreadOK(old) /\ Safe(old) /\ Index
      /\ \A d \in Client \ {c} : thread'[d] = thread[d] /\ thread[d].pc = "idle"
  BY MoverState DEF DeleteContents, TInv, TypeOK
<1>2. /\ old.pc = "unlist"
      /\ old.tag = None
      /\ old.tags = {}
      /\ thread'[c].pc = "forget"
      /\ thread'[c].tag = old.tag
      /\ thread'[c].file = old.file
  BY <1>1 DEF DeleteContents, TInv, TypeOK, Thread
<1>3. \A n \in Name : old.file \notin ListOf(filesOf[n])
  <2>1. SafeDelete(old)
    BY <1>1 DEF Safe
  <2> QED
    BY <1>2, <2>1 DEF SafeDelete
<1>4. Index'
  <2> SUFFICES ASSUME NEW n \in Name, NEW f \in ListOf(filesOf[n])
               PROVE  files'[f] # Absent /\ n \in ListOf(tagsOf[f])
    BY DEF DeleteContents, Index
  <2>1. f # old.file /\ f \in File
    BY <1>3, Lists
  <2> QED
    BY <1>1, <2>1 DEF Index, DeleteContents, TInv, TypeOK
<1>5. SafeDelete(thread[c])'
  <2>1. filesOf' = filesOf
    BY DEF DeleteContents
  <2> QED
    BY <1>2, <1>3, <2>1 DEF SafeDelete
<1>6. Safe(thread[c])'
  BY <1>2, <1>5 DEF Safe, SafeUpload, SafeRetag, SafeIndex
<1> QED
  BY <1>1, <1>4, <1>6, TruthfulChange

LEMMA DeleteTagListTruthful ==
    ASSUME TInv, Truthful, Careful, NEW c \in Client, DeleteTagList(c)
    PROVE  Truthful'
<1> DEFINE old == thread[c]
<1>1. /\ old \in Thread /\ ThreadOK(old) /\ Safe(old) /\ Index
      /\ \A d \in Client \ {c} : thread'[d] = thread[d] /\ thread[d].pc = "idle"
  BY MoverState DEF DeleteTagList, TInv, TypeOK
<1>2. /\ old.pc = "forget"
      /\ thread'[c].pc = "delete"
      /\ thread'[c].file = None
      /\ thread'[c].tag = old.tag
  BY <1>1 DEF DeleteTagList, TInv, TypeOK, Thread
<1>3. \A n \in Name : old.file \notin ListOf(filesOf[n])
  <2>1. SafeDelete(old)
    BY <1>1 DEF Safe
  <2> QED
    BY <1>2, <2>1 DEF SafeDelete
<1>4. Index'
  <2> SUFFICES ASSUME NEW n \in Name, NEW f \in ListOf(filesOf[n])
               PROVE  files[f] # Absent /\ n \in ListOf(tagsOf'[f])
    BY DEF DeleteTagList, Index
  <2>1. f # old.file /\ f \in File
    BY <1>3, Lists
  <2> QED
    BY <1>1, <2>1 DEF Index, DeleteTagList, TInv, TypeOK
<1>5. Safe(thread[c])'
  BY <1>1, <1>2 DEF Safe, SafeUpload, SafeRetag, SafeIndex, SafeDelete
<1> QED
  BY <1>1, <1>4, <1>5, TruthfulChange

LEMMA ReadOneTruthful ==
    ASSUME TInv, Truthful, Careful, NEW c \in Client, NEW f \in File, ReadOne(c, f)
    PROVE  Truthful'
<1> DEFINE old == thread[c]
<1>1. /\ old \in Thread /\ ThreadOK(old) /\ Safe(old) /\ Index
      /\ \A d \in Client \ {c} : thread'[d] = thread[d] /\ thread[d].pc = "idle"
  BY MoverState DEF ReadOne, TInv, TypeOK
<1>2. /\ old.pc \in {"list", "fetch"}
      /\ thread'[c].pc = old.pc
      /\ thread'[c].tag = old.tag
  BY <1>1 DEF ReadOne, TInv, TypeOK, Thread
<1>3. Index'
  BY <1>1 DEF ReadOne, Index
<1>4. Safe(thread[c])'
  BY <1>1, <1>2 DEF Safe, SafeUpload, SafeRetag, SafeIndex, SafeDelete
<1> QED
  BY <1>1, <1>3, <1>4, TruthfulChange

LEMMA EndFilesTruthful ==
    ASSUME TInv, Truthful, Careful, NEW c \in Client, EndFiles(c)
    PROVE  Truthful'
<1> DEFINE old == thread[c]
<1>1. /\ old \in Thread /\ ThreadOK(old) /\ Safe(old) /\ Index
      /\ \A d \in Client \ {c} : thread'[d] = thread[d] /\ thread[d].pc = "idle"
  BY MoverState DEF EndFiles, TInv, TypeOK
<1>2. /\ old.file = None
      /\ old.left = {}
      /\ old.pc \in {"upload", "retag", "delete", "list", "fetch"}
      /\ thread'[c].pc = IF old.pc \in {"upload", "retag"} THEN "index" ELSE "reply"
      /\ old.pc \in {"upload", "retag"} => thread'[c].tags = old.cmd.tags
      /\ thread'[c].found = old.found
      /\ thread'[c].cmd = old.cmd
      /\ thread'[c].tag = old.tag
  BY <1>1 DEF EndFiles, TInv, TypeOK, Thread
<1>3. Index'
  BY <1>1 DEF EndFiles, Index
<1>4. SafeUpload(old) /\ SafeRetag(old) /\ old.tag = None /\ old.found \subseteq File
  BY <1>1, <1>2 DEF Safe, Thread
<1>5. ASSUME old.pc \in {"upload", "retag"}
      PROVE  \A f \in old.found : files[f] # Absent /\ old.cmd.tags \subseteq ListOf(tagsOf[f])
  <2>1. CASE old.pc = "upload"
    BY <1>2, <1>4, <2>1 DEF SafeUpload, Name
  <2>2. CASE old.pc = "retag"
    BY <1>1, <1>2, <1>4, <2>2 DEF Safe, SafeRetag, Name
  <2> QED
    BY <1>2, <1>5, <2>1, <2>2
<1>6. SafeIndex(thread[c])'
  <2>1. files' = files /\ tagsOf' = tagsOf
    BY DEF EndFiles
  <2> QED
    BY <1>2, <1>4, <1>5, <2>1 DEF SafeIndex
<1>7. Safe(thread[c])'
  BY <1>2, <1>4, <1>6 DEF Safe, SafeUpload, SafeRetag, SafeDelete
<1> QED
  BY <1>1, <1>3, <1>7, TruthfulChange

LEMMA EndTagsTruthful ==
    ASSUME TInv, Truthful, Careful, NEW c \in Client, EndTags(c)
    PROVE  Truthful'
<1> DEFINE old == thread[c]
<1>1. /\ old \in Thread /\ ThreadOK(old) /\ Safe(old) /\ Index
      /\ \A d \in Client \ {c} : thread'[d] = thread[d] /\ thread[d].pc = "idle"
  BY MoverState DEF EndTags, TInv, TypeOK
<1>2. /\ old.tag = None
      /\ old.pc = "index"
      /\ thread'[c].pc = "reply"
      /\ thread'[c].tag = old.tag
  BY <1>1 DEF EndTags, TInv, TypeOK, Thread
<1>3. Index'
  BY <1>1 DEF EndTags, Index
<1>4. Safe(thread[c])'
  BY <1>1, <1>2 DEF Safe, SafeUpload, SafeRetag, SafeIndex, SafeDelete
<1> QED
  BY <1>1, <1>3, <1>4, TruthfulChange

LEMMA RespondTruthful ==
    ASSUME TInv, Truthful, Careful, NEW c \in Client, Respond(c)
    PROVE  Truthful'
<1> DEFINE old == thread[c]
<1>1. /\ old \in Thread /\ ThreadOK(old) /\ Safe(old) /\ Index
      /\ \A d \in Client \ {c} : thread'[d] = thread[d] /\ thread[d].pc = "idle"
  BY MoverState DEF Respond, TInv, TypeOK
<1>2. /\ old.pc = "reply"
      /\ thread'[c] = Idle
  BY <1>1 DEF Respond, TInv, TypeOK, Thread
<1>3. Index'
  BY <1>1 DEF Respond, Index
<1>4. Safe(thread[c])'
  BY <1>2, IdleSafe DEF Safe, SafeUpload, SafeRetag, SafeIndex, SafeDelete, Idle
<1> QED
  BY <1>1, <1>3, <1>4, TruthfulChange

\* A command starts: what it adds is in no list that it will not write.
LEMMA ReceiveTruthful ==
    ASSUME TInv, Truthful, Careful, NEW c \in Client, NEW m \in Command, Receive(c, m)
    PROVE  Truthful'
<1> DEFINE new == thread'[c]
<1>1. Expected(m) /\ Index /\ UNCHANGED <<files, tagsOf, filesOf>>
  BY DEF Receive, Truthful
<1>2. \A d \in Client \ {c} : thread'[d] = thread[d] /\ thread[d].pc = "idle"
  BY <1>1 DEF Receive, Expected, Careful, TInv, TypeOK
<1>3. Index'
  BY <1>1 DEF Index
<1>4. CASE m.op = "add"
  <2>1. /\ new.pc = "upload" /\ new.cmd = m /\ new.file = None /\ new.tag = None
        /\ new.found = m.names /\ new.left = m.names
    BY <1>4 DEF Receive, TInv, TypeOK, Idle
  <2>2. m.names \subseteq File
    BY <1>4, CommandFields
  <2>3. \A f \in m.names : ListedUnder(f) \subseteq m.tags
    BY <1>1, <1>4 DEF Expected, Careful
  <2>4. \A f \in m.names, n \in Name : f \in ListOf(filesOf[n]) => n \in m.tags
    BY <1>1, <2>2, <2>3, Lists DEF Index, ListedUnder
  <2>5. SafeUpload(thread[c])'
    BY <1>1, <2>1, <2>4 DEF SafeUpload
  <2>6. Safe(thread[c])'
    BY <2>1, <2>5 DEF Safe, SafeRetag, SafeIndex, SafeDelete
  <2> QED
    BY <1>2, <1>3, <2>6, TruthfulChange
<1>5. CASE m.op # "add"
  <2>1. new.pc = "query" /\ new.found = {} /\ new.file = None /\ new.tag = None
    BY <1>5 DEF Receive, TInv, TypeOK, Idle
  <2>2. Safe(thread[c])'
    BY <2>1 DEF Safe, SafeUpload, SafeRetag, SafeIndex, SafeDelete
  <2> QED
    BY <1>2, <1>3, <2>2, TruthfulChange
<1> QED
  BY <1>4, <1>5

\* Every thread stops, by a kill or by an invalid address.
LEMMA StopTruthful ==
    ASSUME Truthful, thread' = [c \in Client |-> Idle],
           UNCHANGED <<files, tagsOf, filesOf>>
    PROVE  Truthful'
<1>1. \A c \in Client : thread'[c].pc = "idle" /\ thread'[c].tag = None
  BY DEF Idle
<1>2. OneBusy'
  BY <1>1 DEF OneBusy
<1>3. \A c \in Client : Safe(thread[c])'
  BY <1>1 DEF Safe, SafeUpload, SafeRetag, SafeIndex, SafeDelete
<1>4. Index'
  BY DEF Truthful, Index
<1> QED
  BY <1>2, <1>3, <1>4 DEF Truthful

LEMMA ThreadTruthful ==
    ASSUME TInv, Truthful, Careful, NEW c \in Client, ThreadStep(c)
    PROVE  Truthful'
<1>1. CASE Search(c) \/ PutTags(c) \/ UploadBroken(c) \/ WriteTags(c) \/ WriteFiles(c)
  BY <1>1, SearchTruthful, PutTagsTruthful, UploadBrokenTruthful, WriteTagsTruthful,
     WriteFilesTruthful
<1>2. CASE Unlist(c) \/ DeleteContents(c) \/ DeleteTagList(c)
  BY <1>2, UnlistTruthful, DeleteContentsTruthful, DeleteTagListTruthful
<1>3. CASE EndFiles(c) \/ EndTags(c) \/ Respond(c)
  BY <1>3, EndFilesTruthful, EndTagsTruthful, RespondTruthful
<1>4. ASSUME NEW f \in File,
             PutContents(c, f) \/ ReadTags(c, f) \/ ReadTagsToDelete(c, f) \/ ReadOne(c, f)
      PROVE  Truthful'
  BY <1>4, PutContentsTruthful, ReadTagsTruthful, ReadTagsToDeleteTruthful, ReadOneTruthful
<1>5. ASSUME NEW t \in Tag, ReadFiles(c, t) PROVE Truthful'
  BY <1>5, ReadFilesTruthful
<1>6. ~ReadPastEnd(c) /\ \A key \in Name : ~WriteUnderFile(c, key)
  <2>1. ASSUME thread[c].pc = "index" PROVE thread[c].cmd.op # "delete-tags"
    BY <2>1 DEF TInv, ThreadOK, Careful
  <2> QED
    BY <2>1 DEF ReadPastEnd, WriteUnderFile
<1> QED
  BY <1>1, <1>2, <1>3, <1>4, <1>5, <1>6 DEF ThreadStep

-----------------------------------------------------------------------------
\* The use of the server never changes.
LEMMA UseFixed == ASSUME [Next]_vars PROVE use' = use
<1>1. ASSUME NEW c \in Client, ThreadStep(c) PROVE use' = use
  BY <1>1 DEF ThreadStep, Search, PutContents, ReadTags, ReadTagsToDelete, ReadOne, PutTags,
     UploadBroken, WriteTags, ReadFiles, WriteFiles, WriteUnderFile, ReadPastEnd, Unlist,
     DeleteContents, DeleteTagList, EndFiles, EndTags, Respond
<1>2. ASSUME NEW c \in Client, NEW m \in Command, Receive(c, m) PROVE use' = use
  BY <1>2 DEF Receive
<1>3. CASE Crash \/ UNCHANGED vars
  BY <1>3 DEF Crash, vars
<1> QED
  BY <1>1, <1>2, <1>3 DEF Next

\* SInv is an invariant: in every state that one careful client reaches, kills and
\* broken uploads included, the index is truthful and the running command is at a
\* place where it may stop.
THEOREM OrderInvariance == Spec => [](TInv /\ SInv)
<1>1. Init => SInv
  <2> SUFFICES ASSUME Init PROVE Truthful
    BY DEF SInv
  <2>1. Index
    BY DEF Init, Index, ListOf
  <2> QED
    BY <2>1, IdleSafe DEF Init, Truthful, OneBusy, Idle
<1>2. TInv /\ SInv /\ [Next]_vars => SInv'
  <2> SUFFICES ASSUME TInv, SInv, [Next]_vars, Careful' PROVE Truthful'
    BY DEF SInv
  <2>1. Careful /\ Truthful
    BY UseFixed DEF Careful, SInv
  <2>2. CASE UNCHANGED vars
    BY <2>1, <2>2 DEF vars, Truthful, Index, OneBusy, Safe, SafeUpload, SafeRetag, SafeIndex,
       SafeDelete
  <2>3. CASE \E c \in Client : \E m \in Command : Receive(c, m)
    BY <2>1, <2>3, ReceiveTruthful
  <2>4. CASE \E c \in Client : ThreadStep(c)
    BY <2>1, <2>4, ThreadTruthful
  <2>5. CASE Crash
    BY <2>1, <2>5, StopTruthful DEF Crash
  <2> QED
    BY <2>2, <2>3, <2>4, <2>5 DEF Next
<1> QED
  BY <1>1, <1>2, Typing, PTL DEF Spec

\* IndexTruthful, for any files, tags and contents: the order of the writes in add
\* (contents, tags, index) and in delete (index, contents, tags) makes every prefix
\* of them safe, so that neither a kill nor a broken upload makes a tag lead to a
\* file that has no contents or lacks the tag.
THEOREM IndexIsTruthful == Spec => []IndexTruthful
<1>1. SInv => IndexTruthful
  BY DEF SInv, Careful, Truthful, Index, IndexTruthful
<1> QED
  BY <1>1, OrderInvariance, PTL

-----------------------------------------------------------------------------
(* One client: what has a tag is found by it *)

\* The uses of the server in which no command runs beside another or is left
\* unfinished, and in which delete-tags, which stores lists under the names of files,
\* does not hit one of a tag.
Lone ==
    /\ use.alone /\ ~use.breaks /\ ~use.crashes
    /\ "delete-tags" \in use.ops => (File \cup PastEnd) \cap Tag = {}

\* The tags of f that the thread is still going to put f in the lists of, or to take
\* from f.
Owing(me, f) ==
    {t \in Tag :
        \/ /\ me.pc \in {"upload", "retag"} /\ me.cmd.op # "delete-tags"
           /\ f \in me.found /\ t \in me.cmd.tags
        \/ /\ me.pc = "index" /\ me.cmd.op # "delete-tags"
           /\ f \in me.found /\ t \in me.tags \cup {me.tag}
        \/ me.pc \in {"unlist", "forget"} /\ f = me.file}

\* Every other tag that a file has leads to it.
Paid(me) ==
    \A f \in File : \A t \in ListOf(tagsOf[f]) : f \in ListOf(filesOf[t]) \/ t \in Owing(me, f)

\* What the thread has read is still so.
Fresh(me) ==
    /\ me.pc = "query" => me.file = None
    /\ me.pc \notin {"index", "unlist"} => me.tag = None
    /\ me.pc \in {"upload", "retag"} =>
          me.left \subseteq me.found /\ me.file \in me.found \cup {None}
    /\ me.pc = "retag" /\ me.file # None => me.hand = ListOf(tagsOf[me.file])
    /\ me.pc \in {"index", "unlist"} /\ me.tag # None => me.hand = ListOf(filesOf[me.tag])

Complete ==
    /\ OneBusy
    /\ \A c \in Client : Fresh(thread[c])
    /\ \A f \in File : \A t \in ListOf(tagsOf[f]) :
           f \in ListOf(filesOf[t]) \/ \E c \in Client : t \in Owing(thread[c], f)

LInv == Lone => Complete

\* An idle thread owes nothing.
LEMMA IdleOwes ==
    ASSUME NEW me, me.pc = "idle", NEW f
    PROVE  Owing(me, f) = {}
BY DEF Owing

LEMMA LoneMover ==
    ASSUME TInv, Complete, NEW c \in Client, thread[c].pc # "idle"
    PROVE  /\ thread[c] \in Thread /\ ThreadOK(thread[c])
           /\ Fresh(thread[c]) /\ Paid(thread[c])
           /\ \A d \in Client \ {c} : thread[d].pc = "idle"
<1>1. \A d \in Client \ {c} : thread[d].pc = "idle"
  BY DEF Complete, OneBusy
<1>2. \A d \in Client \ {c}, f \in File : Owing(thread[d], f) = {}
  BY <1>1, IdleOwes
<1>3. Paid(thread[c])
  BY <1>2 DEF Complete, Paid
<1> QED
  BY <1>1, <1>3 DEF TInv, TypeOK, Complete

LEMMA LoneChange ==
    ASSUME Complete, NEW c \in Client,
           \A d \in Client \ {c} : thread'[d] = thread[d] /\ thread[d].pc = "idle",
           Fresh(thread[c])', Paid(thread[c])'
    PROVE  Complete'
<1>1. OneBusy'
  BY DEF OneBusy
<1>2. ASSUME NEW d \in Client \ {c} PROVE Fresh(thread[d])'
  <2>1. Fresh(thread[d]) /\ thread'[d] = thread[d] /\ thread[d].pc = "idle"
    BY DEF Complete
  <2> QED
    BY <2>1 DEF Fresh
<1>3. \A f \in File : \A t \in ListOf(tagsOf'[f]) :
          f \in ListOf(filesOf'[t]) \/ t \in Owing(thread'[c], f)
  BY DEF Paid
<1> QED
  BY <1>1, <1>2, <1>3 DEF Complete

\* A step of c, which leaves the lists alone, and after which it owes what it owed.
LEMMA LoneQuiet ==
    ASSUME TInv, Complete, NEW c \in Client, thread[c].pc # "idle",
           tagsOf' = tagsOf, filesOf' = filesOf,
           \A d \in Client \ {c} : thread'[d] = thread[d],
           Fresh(thread[c])',
           \A f \in File : Owing(thread[c], f) \subseteq Owing(thread'[c], f)
    PROVE  Complete'
<1>1. /\ Paid(thread[c])
      /\ \A d \in Client \ {c} : thread'[d] = thread[d] /\ thread[d].pc = "idle"
  BY LoneMover
<1>2. Paid(thread[c])'
  BY <1>1 DEF Paid
<1> QED
  BY <1>1, <1>2, LoneChange

\* Commands arrive when nothing is owed.
LEMMA ReceiveComplete ==
    ASSUME TInv, Complete, Lone, NEW c \in Client, NEW m \in Command, Receive(c, m)
    PROVE  Complete'
<1> DEFINE new == thread'[c]
<1>1. /\ tagsOf' = tagsOf /\ filesOf' = filesOf
      /\ \A d \in Client : thread[d].pc = "idle"
      /\ \A d \in Client \ {c} : thread'[d] = thread[d]
  BY DEF Receive, Expected, Lone, TInv, TypeOK
<1>2. Paid(thread[c])'
  <2>1. \A d \in Client, f \in File : Owing(thread[d], f) = {}
    BY <1>1, IdleOwes
  <2>2. \A f \in File : \A t \in ListOf(tagsOf[f]) : f \in ListOf(filesOf[t])
    BY <2>1 DEF Complete
  <2> QED
    BY <1>1, <2>2 DEF Paid
<1>3. CASE m.op = "add"
  <2>1. /\ new.pc = "upload" /\ new.file = None /\ new.tag = None
        /\ new.found = m.names /\ new.left = m.names
    BY <1>3 DEF Receive, TInv, TypeOK, Idle
  <2>2. Fresh(thread[c])'
    BY <2>1 DEF Fresh
  <2> QED
    BY <1>1, <1>2, <2>2, LoneChange
<1>4. CASE m.op # "add"
  <2>1. new.pc = "query" /\ new.file = None /\ new.tag = None
    BY <1>4 DEF Receive, TInv, TypeOK, Idle
  <2>2. Fresh(thread[c])'
    BY <2>1 DEF Fresh
  <2> QED
    BY <1>1, <1>2, <2>2, LoneChange
<1> QED
  BY <1>3, <1>4

LEMMA SearchComplete ==
    ASSUME TInv, Complete, NEW c \in Client, Search(c)
    PROVE  Complete'
<1> DEFINE old == thread[c]
           new == thread'[c]
<1>1. /\ old \in Thread /\ old.pc = "query" /\ ThreadOK(old) /\ Fresh(old)
      /\ tagsOf' = tagsOf /\ filesOf' = filesOf
      /\ \A d \in Client \ {c} : thread'[d] = thread[d]
  BY LoneMover DEF Search, TInv, TypeOK
<1>2. /\ new.pc \in {LoopOf(old.cmd.op), "query"} /\ new.left = new.found
      /\ new.file = old.file /\ new.tag = old.tag
  <2> DEFINE hits == Intersect(old.found, filesOf[Head(old.query)], old.query = old.cmd.query)
             next == IF Len(old.query) = 1 THEN LoopOf(old.cmd.op) ELSE "query"
  <2>1. thread' = [thread EXCEPT ![c].pc = next, ![c].query = Tail(old.query),
                                 ![c].found = hits, ![c].left = hits, ![c].keys = hits]
    BY DEF Search
  <2>2. next \in {LoopOf(old.cmd.op), "query"}
    OBVIOUS
  <2>3. thread \in [Client -> Thread]
    BY DEF TInv, TypeOK
  <2> HIDE DEF hits, next
  <2> QED
    BY <2>1, <2>2, <2>3 DEF Thread
<1>3. LoopOf(old.cmd.op) \in {"list", "fetch", "delete", "retag"}
  <2>1. old.cmd.op \in Op \ {"add"}
    BY <1>1, CommandFields DEF ThreadOK
  <2>2. \A op \in Op \ {"add"} : LoopOf(op) \in {"list", "fetch", "delete", "retag"}
    BY DEF LoopOf, Op
  <2> QED
    BY <2>1, <2>2
<1>4. Fresh(thread[c])'
  BY <1>1, <1>2, <1>3 DEF Fresh
<1>5. \A f \in File : Owing(old, f) = {}
  BY <1>1 DEF Owing
<1> QED
  BY <1>1, <1>4, <1>5, LoneQuiet

\* The loop of add, and the end of its list.
LEMMA PutContentsComplete ==
    ASSUME TInv, Complete, NEW c \in Client, NEW f \in File, PutContents(c, f)
    PROVE  Complete'
<1> DEFINE old == thread[c]
           new == thread'[c]
<1>1. /\ old \in Thread /\ old.pc = "upload" /\ Fresh(old)
      /\ tagsOf' = tagsOf /\ filesOf' = filesOf
      /\ \A d \in Client \ {c} : thread'[d] = thread[d]
  BY LoneMover DEF PutContents, TInv, TypeOK
<1>2. /\ new.pc = old.pc /\ new.cmd = old.cmd /\ new.found = old.found
      /\ new.file = f /\ new.left = old.left \ {f} /\ new.tag = old.tag /\ f \in old.left
  BY <1>1 DEF PutContents, TInv, TypeOK, Thread
<1>3. Fresh(thread[c])'
  BY <1>1, <1>2 DEF Fresh
<1>4. \A g \in File : Owing(old, g) = Owing(new, g)
  BY <1>1, <1>2 DEF Owing
<1> QED
  BY <1>1, <1>3, <1>4, LoneQuiet

LEMMA PutTagsComplete ==
    ASSUME TInv, Complete, NEW c \in Client, PutTags(c)
    PROVE  Complete'
<1> DEFINE old == thread[c]
           new == thread'[c]
<1>1. /\ old \in Thread /\ old.pc = "upload" /\ ThreadOK(old) /\ Fresh(old) /\ Paid(old)
      /\ \A d \in Client \ {c} : thread'[d] = thread[d] /\ thread[d].pc = "idle"
  BY LoneMover DEF PutTags, TInv, TypeOK
<1>2. /\ new.pc = old.pc /\ new.cmd = old.cmd /\ new.found = old.found
      /\ new.file = None /\ new.left = old.left /\ new.tag = old.tag
      /\ old.file \in old.found /\ old.file \in File /\ filesOf' = filesOf
  BY <1>1 DEF PutTags, TInv, TypeOK, Thread, Fresh
<1>3. Fresh(thread[c])'
  BY <1>1, <1>2 DEF Fresh
<1>4. old.cmd.op = "add" /\ old.cmd.tags \in SUBSET Tag
  BY <1>1, CommandFields DEF ThreadOK
<1>5. \A g \in File : Owing(old, g) = Owing(new, g)
  BY <1>1, <1>2 DEF Owing
<1>6. \A t \in old.cmd.tags : t \in Owing(new, old.file)
  BY <1>1, <1>2, <1>4 DEF Owing
<1>7. /\ ListOf(tagsOf'[old.file]) = old.cmd.tags
      /\ \A g \in File \ {old.file} : tagsOf'[g] = tagsOf[g]
  <2>1. ListOf(old.cmd.tags) = old.cmd.tags
    BY <1>4, ListOfList DEF Name
  <2> QED
    BY <1>2, <2>1 DEF PutTags, TInv, TypeOK
<1>8. Paid(thread[c])'
  <2> SUFFICES ASSUME NEW g \in File, NEW t \in ListOf(tagsOf'[g])
               PROVE  g \in ListOf(filesOf'[t]) \/ t \in Owing(new, g)
    BY DEF Paid
  <2>1. CASE g = old.file
    BY <1>6, <1>7, <2>1
  <2>2. CASE g # old.file
    BY <1>1, <1>2, <1>5, <1>7, <2>2 DEF Paid
  <2> QED
    BY <2>1, <2>2
<1> QED
  BY <1>1, <1>3, <1>8, LoneChange

\* The loop of add-tags and delete-tags.
LEMMA ReadTagsComplete ==
    ASSUME TInv, Complete, NEW c \in Client, NEW f \in File, ReadTags(c, f)
    PROVE  Complete'
<1> DEFINE old == thread[c]
           new == thread'[c]
<1>1. /\ old \in Thread /\ old.pc = "retag" /\ Fresh(old)
      /\ tagsOf' = tagsOf /\ filesOf' = filesOf
      /\ \A d \in Client \ {c} : thread'[d] = thread[d]
  BY LoneMover DEF ReadTags, TInv, TypeOK
<1>2. /\ new.pc = old.pc /\ new.cmd = old.cmd /\ new.found = old.found
      /\ new.file = f /\ new.left = old.left \ {f} /\ new.tag = old.tag /\ f \in old.left
      /\ new.hand = ListOf(tagsOf[f])
  BY <1>1 DEF ReadTags, TInv, TypeOK, Thread
<1>3. Fresh(thread[c])'
  BY <1>1, <1>2 DEF Fresh
<1>4. \A g \in File : Owing(old, g) = Owing(new, g)
  BY <1>1, <1>2 DEF Owing
<1> QED
  BY <1>1, <1>3, <1>4, LoneQuiet

LEMMA WriteTagsComplete ==
    ASSUME TInv, Complete, NEW c \in Client, WriteTags(c)
    PROVE  Complete'
<1> DEFINE old == thread[c]
           new == thread'[c]
           list == Retagged(old.cmd, old.hand)
<1>1. /\ old \in Thread /\ old.pc = "retag" /\ ThreadOK(old) /\ Fresh(old) /\ Paid(old)
      /\ \A d \in Client \ {c} : thread'[d] = thread[d] /\ thread[d].pc = "idle"
  BY LoneMover DEF WriteTags, TInv, TypeOK
<1>2. /\ new.pc = old.pc /\ new.cmd = old.cmd /\ new.found = old.found
      /\ new.file = None /\ new.left = old.left /\ new.tag = old.tag
      /\ old.file \in old.found /\ old.file \in File /\ filesOf' = filesOf
      /\ old.hand = ListOf(tagsOf[old.file])
  BY <1>1 DEF WriteTags, TInv, TypeOK, Thread, Fresh
<1>3. Fresh(thread[c])'
  BY <1>1, <1>2 DEF Fresh
<1>4. /\ old.cmd.op \in {"add-tags", "delete-tags"} /\ old.cmd.tags \in SUBSET Tag
      /\ old.hand \in SUBSET Tag
  BY <1>1, CommandFields DEF ThreadOK
<1>5. \A g \in File : Owing(old, g) = Owing(new, g)
  BY <1>1, <1>2 DEF Owing
<1>6. \A t \in list : t \in old.hand \/ t \in Owing(new, old.file)
  BY <1>1, <1>2, <1>4 DEF Owing, Retagged
<1>7. /\ ListOf(tagsOf'[old.file]) = list
      /\ \A g \in File \ {old.file} : tagsOf'[g] = tagsOf[g]
  <2>1. list \in SUBSET Name
    BY <1>4 DEF Retagged, Name
  <2>2. ListOf(list) = list
    BY <2>1, ListOfList
  <2>3. tagsOf' = [tagsOf EXCEPT ![old.file] = list]
    BY DEF WriteTags
  <2> HIDE DEF list
  <2> QED
    BY <1>2, <2>2, <2>3 DEF TInv, TypeOK
<1> HIDE DEF list
<1>8. Paid(thread[c])'
  <2> SUFFICES ASSUME NEW g \in File, NEW t \in ListOf(tagsOf'[g])
               PROVE  g \in ListOf(filesOf'[t]) \/ t \in Owing(new, g)
    BY DEF Paid
  <2>1. CASE g = old.file
    BY <1>1, <1>2, <1>5, <1>6, <1>7, <2>1 DEF Paid
  <2>2. CASE g # old.file
    BY <1>1, <1>2, <1>5, <1>7, <2>2 DEF Paid
  <2> QED
    BY <2>1, <2>2
<1> QED
  BY <1>1, <1>3, <1>8, LoneChange

\* The lists of the tags.
LEMMA ReadFilesComplete ==
    ASSUME TInv, Complete, NEW c \in Client, NEW t \in Tag, ReadFiles(c, t)
    PROVE  Complete'
<1> DEFINE old == thread[c]
           new == thread'[c]
<1>1. /\ old \in Thread /\ old.pc \in {"index", "unlist"} /\ Fresh(old)
      /\ tagsOf' = tagsOf /\ filesOf' = filesOf
      /\ \A d \in Client \ {c} : thread'[d] = thread[d]
  BY LoneMover DEF ReadFiles, TInv, TypeOK
<1>2. /\ new.pc = old.pc /\ new.cmd = old.cmd /\ new.found = old.found
      /\ new.file = old.file /\ new.tag = t /\ new.tags = old.tags \ {t}
      /\ new.hand = ListOf(filesOf[t]) /\ old.tag = None
  BY <1>1 DEF ReadFiles, TInv, TypeOK, Thread
<1>3. Fresh(thread[c])'
  BY <1>1, <1>2 DEF Fresh
<1>4. \A g \in File : Owing(old, g) \subseteq Owing(new, g)
  BY <1>1, <1>2 DEF Owing, Name
<1> QED
  BY <1>1, <1>3, <1>4, LoneQuiet

\* A list of file names is put where a tag's list, or a file's, was.
LEMMA ListPut ==
    ASSUME TInv, NEW n \in Name, NEW S \in SUBSET File, filesOf' = [filesOf EXCEPT ![n] = S]
    PROVE  /\ ListOf(filesOf'[n]) = S
           /\ \A k \in Name \ {n} : filesOf'[k] = filesOf[k]
<1>1. ListOf(S) = S
  BY ListOfList DEF Name
<1> QED
  BY <1>1 DEF TInv, TypeOK

LEMMA WriteFilesComplete ==
    ASSUME TInv, Complete, NEW c \in Client, WriteFiles(c)
    PROVE  Complete'
<1> DEFINE old == thread[c]
           new == thread'[c]
<1>1. /\ old \in Thread /\ old.pc = "index" /\ ThreadOK(old) /\ Fresh(old) /\ Paid(old)
      /\ \A d \in Client \ {c} : thread'[d] = thread[d] /\ thread[d].pc = "idle"
  BY LoneMover DEF WriteFiles, TInv, TypeOK
<1>2. /\ new.pc = old.pc /\ new.cmd = old.cmd /\ new.found = old.found
      /\ new.tag = None /\ new.tags = old.tags /\ old.tag \in Tag /\ tagsOf' = tagsOf
      /\ old.cmd.op \in {"add", "add-tags"}
      /\ old.hand = ListOf(filesOf[old.tag]) /\ old.found \in SUBSET File
  BY <1>1 DEF WriteFiles, TInv, TypeOK, Thread, Fresh
<1>3. Fresh(thread[c])'
  BY <1>1, <1>2 DEF Fresh
<1>4. /\ ListOf(filesOf'[old.tag]) = old.hand \cup old.found
      /\ \A n \in Name \ {old.tag} : filesOf'[n] = filesOf[n]
  <2>1. old.hand \cup old.found \in SUBSET File
    BY <1>1, <1>2 DEF ThreadOK
  <2>2. filesOf' = [filesOf EXCEPT ![old.tag] = old.hand \cup old.found]
    BY DEF WriteFiles, Enlisted
  <2> QED
    BY <1>2, <2>1, <2>2, ListPut DEF Name
<1>5. \A g \in File : Owing(old, g) \subseteq Owing(new, g) \cup {t \in {old.tag} : g \in old.found}
  BY <1>1, <1>2 DEF Owing
<1>6. Paid(thread[c])'
  <2> SUFFICES ASSUME NEW g \in File, NEW t \in ListOf(tagsOf[g])
               PROVE  g \in ListOf(filesOf'[t]) \/ t \in Owing(new, g)
    BY <1>2 DEF Paid
  <2>1. t \in Name
    BY Lists DEF Name
  <2>2. CASE t = old.tag
    BY <1>1, <1>2, <1>4, <1>5, <2>2 DEF Paid
  <2>3. CASE t # old.tag
    BY <1>1, <1>4, <1>5, <2>1, <2>3 DEF Paid
  <2> QED
    BY <2>2, <2>3
<1> QED
  BY <1>1, <1>3, <1>6, LoneChange

\* delete-tags owes nothing, and its lists are not those of tags.
LEMMA WriteUnderFileComplete ==
    ASSUME TInv, Complete, Lone, NEW c \in Client, NEW key \in Name, WriteUnderFile(c, key)
    PROVE  Complete'
<1> DEFINE old == thread[c]
           new == thread'[c]
<1>1. /\ old \in Thread /\ old.pc = "index" /\ ThreadOK(old) /\ Fresh(old) /\ Paid(old)
      /\ \A d \in Client \ {c} : thread'[d] = thread[d] /\ thread[d].pc = "idle"
  BY LoneMover DEF WriteUnderFile, TInv, TypeOK
<1>2. /\ new.pc = old.pc /\ new.tag = None /\ tagsOf' = tagsOf
      /\ old.cmd.op = "delete-tags" /\ key \in old.keys \cup PastEnd
      /\ filesOf' = [filesOf EXCEPT ![key] = old.hand \ old.found]
  BY <1>1 DEF WriteUnderFile, TInv, TypeOK, Thread
<1>3. Fresh(thread[c])'
  BY <1>1, <1>2 DEF Fresh
<1>4. key \notin Tag
  BY <1>1, <1>2 DEF Lone, ThreadOK, Thread
<1>5. \A t \in Tag : filesOf'[t] = filesOf[t]
  BY <1>2, <1>4 DEF TInv, TypeOK, Name
<1>6. \A g \in File : Owing(old, g) = {}
  BY <1>1, <1>2 DEF Owing
<1>7. Paid(thread[c])'
  BY <1>1, <1>2, <1>5, <1>6, Lists DEF Paid
<1> QED
  BY <1>1, <1>3, <1>7, LoneChange

LEMMA ReadPastEndComplete ==
    ASSUME TInv, Complete, NEW c \in Client, ReadPastEnd(c)
    PROVE  Complete'
<1> DEFINE old == thread[c]
<1>1. /\ old.pc = "index" /\ old.cmd.op = "delete-tags" /\ Paid(old)
      /\ thread' = [d \in Client |-> Idle] /\ tagsOf' = tagsOf /\ filesOf' = filesOf
  BY LoneMover DEF ReadPastEnd
<1>2. \A d \in Client : thread'[d].pc = "idle" /\ thread'[d].tag = None
  BY <1>1 DEF Idle
<1>3. OneBusy' /\ \A d \in Client : Fresh(thread[d])'
  BY <1>2 DEF OneBusy, Fresh
<1>4. \A g \in File : Owing(old, g) = {}
  BY <1>1 DEF Owing
<1> QED
  BY <1>1, <1>3, <1>4 DEF Complete, Paid

\* delete.
LEMMA ReadTagsToDeleteComplete ==
    ASSUME TInv, Complete, NEW c \in Client, NEW f \in File, ReadTagsToDelete(c, f)
    PROVE  Complete'
<1> DEFINE old == thread[c]
           new == thread'[c]
<1>1. /\ old \in Thread /\ old.pc = "delete" /\ Fresh(old)
      /\ tagsOf' = tagsOf /\ filesOf' = filesOf
      /\ \A d \in Client \ {c} : thread'[d] = thread[d]
  BY LoneMover DEF ReadTagsToDelete, TInv, TypeOK
<1>2. new.pc = "unlist" /\ new.tag = old.tag
  BY <1>1 DEF ReadTagsToDelete, TInv, TypeOK, Thread
<1>3. Fresh(thread[c])'
  BY <1>1, <1>2 DEF Fresh
<1>4. \A g \in File : Owing(old, g) = {}
  BY <1>1 DEF Owing
<1> QED
  BY <1>1, <1>3, <1>4, LoneQuiet

LEMMA UnlistComplete ==
    ASSUME TInv, Complete, NEW c \in Client, Unlist(c)
    PROVE  Complete'
<1> DEFINE old == thread[c]
           new == thread'[c]
<1>1. /\ old \in Thread /\ old.pc = "unlist" /\ ThreadOK(old) /\ Fresh(old) /\ Paid(old)
      /\ \A d \in Client \ {c} : thread'[d] = thread[d] /\ thread[d].pc = "idle"
  BY LoneMover DEF Unlist, TInv, TypeOK
<1>2. /\ new.pc = old.pc /\ new.file = old.file /\ new.tag = None
      /\ old.tag \in Tag /\ tagsOf' = tagsOf
      /\ old.hand = ListOf(filesOf[old.tag]) /\ old.hand \in SUBSET File
  BY <1>1 DEF Unlist, TInv, TypeOK, Thread, Fresh, ThreadOK
<1>3. Fresh(thread[c])'
  BY <1>1, <1>2 DEF Fresh
<1>4. /\ ListOf(filesOf'[old.tag]) = old.hand \ {old.file}
      /\ \A n \in Name \ {old.tag} : filesOf'[n] = filesOf[n]
  <2>1. filesOf' = [filesOf EXCEPT ![old.tag] = Without(old.hand, old.file)]
    BY DEF Unlist
  <2>2. ListOf(Without(old.hand, old.file)) = old.hand \ {old.file}
    <3>1. CASE old.hand \subseteq {old.file}
      BY <3>1 DEF Without, ListOf
    <3>2. CASE ~(old.hand \subseteq {old.file})
      <4>1. old.hand \ {old.file} \in SUBSET Name
        BY <1>2 DEF Name
      <4> QED
        BY <3>2, <4>1, ListOfList DEF Without
    <3> QED
      BY <3>1, <3>2
  <2> QED
    BY <1>2, <2>1, <2>2 DEF TInv, TypeOK, Name
<1>5. /\ \A g \in File : Owing(old, g) = Owing(new, g)
      /\ Owing(new, old.file) = Tag
  BY <1>1, <1>2 DEF Owing
<1>6. Paid(thread[c])'
  <2> SUFFICES ASSUME NEW g \in File, NEW t \in ListOf(tagsOf[g])
               PROVE  g \in ListOf(filesOf'[t]) \/ t \in Owing(new, g)
    BY <1>2 DEF Paid
  <2>1. t \in Tag /\ t \in Name
    BY Lists DEF Name
  <2>2. CASE g = old.file
    BY <1>5, <2>1, <2>2
  <2>3. CASE g # old.file
    BY <1>1, <1>2, <1>4, <1>5, <2>1, <2>3 DEF Paid
  <2> QED
    BY <2>2, <2>3
<1> QED
  BY <1>1, <1>3, <1>6, LoneChange

LEMMA DeleteContentsComplete ==
    ASSUME TInv, Complete, NEW c \in Client, DeleteContents(c)
    PROVE  Complete'
<1> DEFINE old == thread[c]
           new == thread'[c]
<1>1. /\ old \in Thread /\ old.pc = "unlist" /\ old.tag = None
      /\ tagsOf' = tagsOf /\ filesOf' = filesOf
      /\ \A d \in Client \ {c} : thread'[d] = thread[d]
  BY LoneMover DEF DeleteContents, TInv, TypeOK
<1>2. new.pc = "forget" /\ new.tag = None /\ new.file = old.file
  BY <1>1 DEF DeleteContents, TInv, TypeOK, Thread
<1>3. Fresh(thread[c])'
  BY <1>1, <1>2 DEF Fresh
<1>4. \A g \in File : Owing(old, g) = Owing(new, g)
  BY <1>1, <1>2 DEF Owing
<1> QED
  BY <1>1, <1>3, <1>4, LoneQuiet

LEMMA DeleteTagListComplete ==
    ASSUME TInv, Complete, NEW c \in Client, DeleteTagList(c)
    PROVE  Complete'
<1> DEFINE old == thread[c]
           new == thread'[c]
<1>1. /\ old \in Thread /\ old.pc = "forget" /\ ThreadOK(old) /\ Fresh(old) /\ Paid(old)
      /\ \A d \in Client \ {c} : thread'[d] = thread[d] /\ thread[d].pc = "idle"
  BY LoneMover DEF DeleteTagList, TInv, TypeOK
<1>2. /\ new.pc = "delete" /\ new.tag = None /\ filesOf' = filesOf
      /\ tagsOf' = [tagsOf EXCEPT ![old.file] = Absent]
  BY <1>1 DEF DeleteTagList, TInv, TypeOK, Thread, Fresh
<1>3. Fresh(thread[c])'
  BY <1>2 DEF Fresh
<1>4. \A g \in File : ListOf(tagsOf'[g]) = IF g = old.file THEN {} ELSE ListOf(tagsOf[g])
  BY <1>2 DEF ListOf, TInv, TypeOK
<1>5. \A g \in File : g # old.file => Owing(old, g) = {}
  BY <1>1 DEF Owing
<1>6. Paid(thread[c])'
  BY <1>1, <1>2, <1>4, <1>5 DEF Paid
<1> QED
  BY <1>1, <1>3, <1>6, LoneChange

LEMMA ReadOneComplete ==
    ASSUME TInv, Complete, NEW c \in Client, NEW f \in File, ReadOne(c, f)
    PROVE  Complete'
<1> DEFINE old == thread[c]
           new == thread'[c]
<1>1. /\ old \in Thread /\ old.pc \in {"list", "fetch"} /\ Fresh(old)
      /\ tagsOf' = tagsOf /\ filesOf' = filesOf
      /\ \A d \in Client \ {c} : thread'[d] = thread[d]
  BY LoneMover DEF ReadOne, TInv, TypeOK
<1>2. new.pc = old.pc /\ new.tag = old.tag
  BY <1>1 DEF ReadOne, TInv, TypeOK, Thread
<1>3. Fresh(thread[c])'
  BY <1>1, <1>2 DEF Fresh
<1>4. \A g \in File : Owing(old, g) = {}
  BY <1>1 DEF Owing
<1> QED
  BY <1>1, <1>3, <1>4, LoneQuiet

\* The ends of the loops.
LEMMA EndFilesComplete ==
    ASSUME TInv, Complete, NEW c \in Client, EndFiles(c)
    PROVE  Complete'
<1> DEFINE old == thread[c]
           new == thread'[c]
<1>1. /\ old \in Thread /\ old.pc \in {"upload", "retag", "delete", "list", "fetch"}
      /\ Fresh(old) /\ tagsOf' = tagsOf /\ filesOf' = filesOf
      /\ \A d \in Client \ {c} : thread'[d] = thread[d]
  BY LoneMover DEF EndFiles, TInv, TypeOK
<1>2. /\ new.pc = IF old.pc \in {"upload", "retag"} THEN "index" ELSE "reply"
      /\ old.pc \in {"upload", "retag"} => new.tags = old.cmd.tags
      /\ new.cmd = old.cmd /\ new.found = old.found /\ new.tag = old.tag
  BY <1>1 DEF EndFiles, TInv, TypeOK, Thread
<1>3. Fresh(thread[c])'
  BY <1>1, <1>2 DEF Fresh
<1>4. \A g \in File : Owing(old, g) \subseteq Owing(new, g)
  BY <1>1, <1>2 DEF Owing
<1> QED
  BY <1>1, <1>3, <1>4, LoneQuiet

LEMMA EndTagsComplete ==
    ASSUME TInv, Complete, NEW c \in Client, EndTags(c)
    PROVE  Complete'
<1> DEFINE old == thread[c]
           new == thread'[c]
<1>1. /\ old \in Thread /\ old.pc = "index" /\ old.tag = None /\ old.tags = {}
      /\ tagsOf' = tagsOf /\ filesOf' = filesOf
      /\ \A d \in Client \ {c} : thread'[d] = thread[d]
  BY LoneMover DEF EndTags, TInv, TypeOK
<1>2. new.pc = "reply" /\ new.tag = None
  BY <1>1 DEF EndTags, TInv, TypeOK, Thread
<1>3. Fresh(thread[c])'
  BY <1>2 DEF Fresh
<1>4. \A g \in File : Owing(old, g) = {}
  BY <1>1 DEF Owing, Name
<1> QED
  BY <1>1, <1>3, <1>4, LoneQuiet

LEMMA RespondComplete ==
    ASSUME TInv, Complete, NEW c \in Client, Respond(c)
    PROVE  Complete'
<1> DEFINE old == thread[c]
<1>1. /\ old.pc = "reply" /\ thread'[c] = Idle
      /\ tagsOf' = tagsOf /\ filesOf' = filesOf
      /\ \A d \in Client \ {c} : thread'[d] = thread[d]
  BY DEF Respond, TInv, TypeOK
<1>2. Fresh(thread[c])'
  BY <1>1 DEF Fresh, Idle
<1>3. \A g \in File : Owing(old, g) = {}
  BY <1>1 DEF Owing
<1> QED
  BY <1>1, <1>2, <1>3, LoneQuiet

LEMMA ThreadComplete ==
    ASSUME TInv, Complete, Lone, NEW c \in Client, ThreadStep(c)
    PROVE  Complete'
<1>1. CASE Search(c) \/ PutTags(c) \/ WriteTags(c) \/ WriteFiles(c) \/ ReadPastEnd(c)
  BY <1>1, SearchComplete, PutTagsComplete, WriteTagsComplete, WriteFilesComplete,
     ReadPastEndComplete
<1>2. CASE Unlist(c) \/ DeleteContents(c) \/ DeleteTagList(c)
  BY <1>2, UnlistComplete, DeleteContentsComplete, DeleteTagListComplete
<1>3. CASE EndFiles(c) \/ EndTags(c) \/ Respond(c)
  BY <1>3, EndFilesComplete, EndTagsComplete, RespondComplete
<1>4. ASSUME NEW f \in File,
             PutContents(c, f) \/ ReadTags(c, f) \/ ReadTagsToDelete(c, f) \/ ReadOne(c, f)
      PROVE  Complete'
  BY <1>4, PutContentsComplete, ReadTagsComplete, ReadTagsToDeleteComplete, ReadOneComplete
<1>5. ASSUME NEW t \in Tag, ReadFiles(c, t) PROVE Complete'
  BY <1>5, ReadFilesComplete
<1>6. ASSUME NEW key \in Name, WriteUnderFile(c, key) PROVE Complete'
  BY <1>6, WriteUnderFileComplete
<1>7. ~UploadBroken(c)
  BY DEF UploadBroken, Lone
<1> QED
  BY <1>1, <1>2, <1>3, <1>4, <1>5, <1>6, <1>7 DEF ThreadStep

\* LInv is an invariant: with one command at a time, each tag of a file leads to it
\* already, or is among those the running command has still to do.
THEOREM DebtInvariance == Spec => [](TInv /\ LInv)
<1>1. Init => LInv
  BY DEF Init, LInv, Complete, OneBusy, Fresh, Idle, ListOf
<1>2. TInv /\ LInv /\ [Next]_vars => LInv'
  <2> SUFFICES ASSUME TInv, LInv, [Next]_vars, Lone' PROVE Complete'
    BY DEF LInv
  <2>1. Lone /\ Complete
    BY UseFixed DEF Lone, LInv
  <2>2. CASE UNCHANGED vars
    BY <2>1, <2>2 DEF vars, Complete, OneBusy, Fresh
  <2>3. CASE \E c \in Client : \E m \in Command : Receive(c, m)
    BY <2>1, <2>3, ReceiveComplete
  <2>4. CASE \E c \in Client : ThreadStep(c)
    BY <2>1, <2>4, ThreadComplete
  <2>5. ~Crash
    BY <2>1 DEF Crash, Lone
  <2> QED
    BY <2>2, <2>3, <2>4, <2>5 DEF Next
<1> QED
  BY <1>1, <1>2, Typing, PTL DEF Spec

\* TagsFindFiles, for any files, tags and contents, as long as commands come one at
\* a time (with two at a time an update is lost) and delete-tags does not hit the
\* list of a tag: add, add-tags and delete leave no file that one of its tags does not
\* find, an add of a file that exists and a delete-tags that ends the server included.
THEOREM TagsAlwaysFind ==
    Spec => [](/\ use.alone
               /\ "delete-tags" \in use.ops => (File \cup PastEnd) \cap Tag = {}
               => TagsFindFiles)
<1>1. TInv /\ LInv /\ use.alone
      /\ ("delete-tags" \in use.ops => (File \cup PastEnd) \cap Tag = {}) => TagsFindFiles
  <2> SUFFICES ASSUME TInv, Complete, \A c \in Client : thread[c].pc \in {"idle", "reply"},
                      NEW f \in File, NEW t \in ListOf(tagsOf[f])
               PROVE  t \in ListedUnder(f)
    BY DEF LInv, Lone, TagsFindFiles
  <2>1. \A c \in Client : Owing(thread[c], f) = {}
    BY DEF Owing
  <2>2. f \in ListOf(filesOf[t]) /\ t \in Tag
    BY <2>1, Lists DEF Complete
  <2> QED
    BY <2>2 DEF ListedUnder
<1> QED
  BY <1>1, DebtInvariance, PTL
=============================================================================
