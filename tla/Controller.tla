----------------------------- MODULE Controller -----------------------------
(***************************************************************************)
(* The controller server (server.cpp): one thread per client executes the  *)
(* client's commands as sequences of reads and writes in three DHTs, each  *)
(* taken as an atomic map (KeyValue). One action is one call of rpcs.h and *)
(* the computation up to the next one. A list of names is the set of its   *)
(* members: it has no duplicates, and where a loop follows its order any   *)
(* order is allowed here.                                                  *)
(***************************************************************************)
EXTENDS Naturals, SequencesExt

CONSTANTS Client,        \* the connected clients, each with its thread
          File, Tag,     \* names of files and of tags
          Content,       \* contents of files
          Absent,        \* what a DHT has for a name it does not hold
          None,
          Uses,          \* the ways the server may be used, see Use
          PastEnd        \* what the memory past the end of target_file_names
                         \* may hold: names, or None for an invalid address

Name == File \cup Tag

Op == {"add", "list", "delete", "add-tags", "delete-tags", "get"}

\* ops, tags, contents: the commands, tags and contents that clients use; alone: one
\* command at a time; readd: an add is of files without tags ("new"), or drops no tag of a file
\* ("keep"), or is anything; unknown: a query may have tags nobody uses after its
\* first; breaks: connections may break during an upload; crashes: the process may
\* be killed.
Use == [ops : SUBSET Op, tags : SUBSET Tag, contents : SUBSET Content, alone : BOOLEAN,
        readd : {"new", "keep", "any"}, unknown : BOOLEAN,
        breaks : BOOLEAN, crashes : BOOLEAN]

ASSUME NoneAssumption == None \notin Name \cup Content
ASSUME AbsentAssumption == Absent \notin Content /\ \A S \in SUBSET Name : Absent # S
ASSUME UsesAssumption == Uses \subseteq Use
ASSUME PastEndAssumption == PastEnd \subseteq Name \cup {None}

VARIABLES files,    \* the files DHT: contents by file name
          tagsOf,   \* the files_to_tags DHT: tags by file name
          filesOf,  \* the tags_to_files DHT: file names by tag
          thread,   \* the local state of each client's thread
          use       \* how the server is used, fixed for each behaviour

vars == <<files, tagsOf, filesOf, thread, use>>
-----------------------------------------------------------------------------
\* Commands, as the client's grammar allows them: no list is empty. The tags of
\* a query are taken without repetition (lines 33-35).
Query == {<<t>> : t \in Tag} \cup {q \in Tag \X Tag : q[1] # q[2]}

Some(S) == (SUBSET S) \ {{}}

Command ==
       (UNION {[op : {"add"}, names : {S}, contents : [S -> Content], tags : Some(Tag)] :
                  S \in Some(File)})
  \cup [op : {"list", "delete", "get"}, query : Query]
  \cup [op : {"add-tags", "delete-tags"}, query : Query, tags : Some(Tag)]

NoReply == [f \in File |-> None]

\* pc    which loop of execute_command the thread is in;
\* query the tags still to look up; found is target_file_names (or file_names);
\* left  the files the loop has not come to, file the one it is at;
\* tags  the tags the loop has not come to, tag the one it is at;
\* keys  the entries of target_file_names not yet used by line 340;
\* hand  the list just read; reply what the response says of each file.
Idle == [pc |-> "idle", cmd |-> None, query |-> <<>>, found |-> {}, left |-> {},
         file |-> None, tags |-> {}, tag |-> None, keys |-> {}, hand |-> {},
         reply |-> NoReply]

Loops == {"idle", "query", "upload", "retag", "index", "list", "fetch",
          "delete", "unlist", "forget", "reply"}

Thread == [pc : Loops, cmd : Command \cup {None}, query : Seq(Tag),
           found : SUBSET File, left : SUBSET File, file : File \cup {None},
           tags : SUBSET Tag, tag : Tag \cup {None}, keys : SUBSET File,
           hand : SUBSET Name,
           reply : [File -> (SUBSET Tag) \cup Content \cup {Absent, None}]]

TypeOK ==
    /\ files \in [File -> Content \cup {Absent}]
    /\ tagsOf \in [File -> (SUBSET Tag) \cup {Absent}]
    /\ filesOf \in [Name -> (SUBSET File) \cup {Absent}]
    /\ thread \in [Client -> Thread]
    /\ use \in Uses

Init ==
    /\ files = [f \in File |-> Absent]
    /\ tagsOf = [f \in File |-> Absent]
    /\ filesOf = [n \in Name |-> Absent]
    /\ thread = [c \in Client |-> Idle]
    /\ use \in Uses

\* file_lines_to_list: no file, no lines.
ListOf(value) == IF value = Absent THEN {} ELSE value

ListedUnder(f) == {t \in Tag : f \in ListOf(filesOf[t])}
-----------------------------------------------------------------------------
\* server_loop receives a command and execute_command begins.
TagsIn(m) == (IF m.op = "add" THEN {} ELSE ToSet(m.query))
             \cup (IF "tags" \in DOMAIN m THEN m.tags ELSE {})

Expected(m) ==
    /\ m.op \in use.ops
    /\ TagsIn(m) \subseteq use.tags
    /\ m.op = "add" => Range(m.contents) \subseteq use.contents
    /\ m.op = "add" =>
         \A f \in m.names :
             \/ use.readd = "new" /\ ListedUnder(f) = {}
             \/ use.readd = "keep" /\ ListedUnder(f) \subseteq m.tags
             \/ use.readd = "any"
    /\ m.op # "add" /\ ~use.unknown =>
         \A i \in 2 .. Len(m.query) : filesOf[m.query[i]] # Absent
    /\ use.alone => \A d \in Client : thread[d].pc = "idle"

Receive(c, m) ==
    /\ thread[c].pc = "idle"
    /\ Expected(m)
    /\ thread' = [thread EXCEPT ![c] =
          IF m.op = "add"
          THEN [Idle EXCEPT !.pc = "upload", !.cmd = m, !.found = m.names, !.left = m.names]
          ELSE [Idle EXCEPT !.pc = "query", !.cmd = m, !.query = m.query]]
    /\ UNCHANGED <<files, tagsOf, filesOf, use>>

\* The loop that works on the files of a query.
LoopOf(op) ==
    CASE op = "list" -> "list"
      [] op = "get" -> "fetch"
      [] op = "delete" -> "delete"
      [] op \in {"add-tags", "delete-tags"} -> "retag"

\* Line 51: a tag without a list is skipped.
Intersect(found, list, first) ==
    CASE list = Absent -> found
      [] list # Absent /\ first -> list
      [] list # Absent /\ ~first -> found \cap list

\* get_file_names_from_query, one tag.
Search(c) ==
    /\ thread[c].pc = "query"
    /\ LET me == thread[c]
           hits == Intersect(me.found, filesOf[Head(me.query)], me.query = me.cmd.query)
       IN thread' = [thread EXCEPT
              ![c].pc = IF Len(me.query) = 1 THEN LoopOf(me.cmd.op) ELSE "query",
              ![c].query = Tail(me.query),
              ![c].found = hits, ![c].left = hits, ![c].keys = hits]
    /\ UNCHANGED <<files, tagsOf, filesOf, use>>
-----------------------------------------------------------------------------
\* add, lines 153-173: contents, then tags, of each file.
PutContents(c, f) ==
    /\ thread[c].pc = "upload"
    /\ thread[c].file = None
    /\ f \in thread[c].left
    /\ files' = [files EXCEPT ![f] = thread[c].cmd.contents[f]]
    /\ thread' = [thread EXCEPT ![c].file = f, ![c].left = @ \ {f}]
    /\ UNCHANGED <<tagsOf, filesOf, use>>

\* Mutant: the list of line 150 is built from the wrong vector.
PutTagsOfFiles(c) ==
    /\ thread[c].pc = "upload"
    /\ thread[c].file # None
    /\ tagsOf' = [tagsOf EXCEPT ![thread[c].file] = thread[c].cmd.names]
    /\ thread' = [thread EXCEPT ![c].file = None]
    /\ UNCHANGED <<files, filesOf, use>>

PutTags(c) ==
    /\ thread[c].pc = "upload"
    /\ thread[c].file # None
    /\ tagsOf' = [tagsOf EXCEPT ![thread[c].file] = thread[c].cmd.tags]
    /\ thread' = [thread EXCEPT ![c].file = None]
    /\ UNCHANGED <<files, filesOf, use>>

\* Mutant: the error is noticed, but the command goes on with its tags.
UploadBrokenGoesOn(c) ==
    /\ use.breaks
    /\ thread[c].pc = "upload"
    /\ thread[c].file = None
    /\ thread[c].left # {}
    /\ thread' = [thread EXCEPT ![c].pc = "index", ![c].tags = thread[c].cmd.tags]
    /\ UNCHANGED <<files, tagsOf, filesOf, use>>

\* Lines 157 and 162: the command is given up without a response.
UploadBroken(c) ==
    /\ use.breaks
    /\ thread[c].pc = "upload"
    /\ thread[c].file = None
    /\ thread[c].left # {}
    /\ thread' = [thread EXCEPT ![c] = Idle]
    /\ UNCHANGED <<files, tagsOf, filesOf, use>>

\* add-tags and delete-tags, lines 283-293 and 316-327: the tags of each file.
ReadTags(c, f) ==
    /\ thread[c].pc = "retag"
    /\ thread[c].file = None
    /\ f \in thread[c].left
    /\ thread' = [thread EXCEPT ![c].file = f, ![c].left = @ \ {f},
                                ![c].hand = ListOf(tagsOf[f])]
    /\ UNCHANGED <<files, tagsOf, filesOf, use>>

Retagged(m, old) == IF m.op = "add-tags" THEN old \cup m.tags ELSE old \ m.tags

WriteTags(c) ==
    /\ thread[c].pc = "retag"
    /\ thread[c].file # None
    /\ tagsOf' = [tagsOf EXCEPT ![thread[c].file] =
                     Retagged(thread[c].cmd, thread[c].hand)]
    /\ thread' = [thread EXCEPT ![c].file = None, ![c].hand = {}]
    /\ UNCHANGED <<files, filesOf, use>>
-----------------------------------------------------------------------------
\* The list of a tag is read: add 176-187, delete 241-246, add-tags 297 and
\* delete-tags 331.
ReadFiles(c, t) ==
    /\ thread[c].pc \in {"index", "unlist"}
    /\ thread[c].tag = None
    /\ t \in thread[c].tags
    /\ thread' = [thread EXCEPT ![c].tag = t, ![c].tags = @ \ {t},
                                ![c].hand = ListOf(filesOf[t])]
    /\ UNCHANGED <<files, tagsOf, filesOf, use>>

\* Mutant: the list is written with the new files only.
EnlistedReplaces(list, found) == found

\* "Append the file to the list if not repeated", lines 190-194 and 299-304.
Enlisted(list, found) == list \cup found

\* add 196-202 and add-tags 306: the list is written back with the new files.
WriteFiles(c) ==
    /\ thread[c].pc = "index"
    /\ thread[c].tag # None
    /\ thread[c].cmd.op \in {"add", "add-tags"}
    /\ filesOf' = [filesOf EXCEPT ![thread[c].tag] = Enlisted(thread[c].hand, thread[c].found)]
    /\ thread' = [thread EXCEPT ![c].tag = None, ![c].hand = {}]
    /\ UNCHANGED <<files, tagsOf, use>>

\* delete-tags, lines 333-340: the shortened list is written under the name
\* target_file_names[i], i the index of the tag.
WriteUnderFile(c, key) ==
    /\ thread[c].pc = "index"
    /\ thread[c].tag # None
    /\ thread[c].cmd.op = "delete-tags"
    /\ \/ key \in thread[c].keys
       \/ thread[c].keys = {} /\ key \in PastEnd \ {None}
    /\ filesOf' = [filesOf EXCEPT ![key] = thread[c].hand \ thread[c].found]
    /\ thread' = [thread EXCEPT ![c].tag = None, ![c].hand = {}, ![c].keys = @ \ {key}]
    /\ UNCHANGED <<files, tagsOf, use>>

\* Line 340 with fewer files than tags reads past the end of the vector; an
\* invalid address there ends the process.
ReadPastEnd(c) ==
    /\ thread[c].pc = "index"
    /\ thread[c].tag # None
    /\ thread[c].cmd.op = "delete-tags"
    /\ thread[c].keys = {}
    /\ None \in PastEnd
    /\ thread' = [d \in Client |-> Idle]
    /\ UNCHANGED <<files, tagsOf, filesOf, use>>
-----------------------------------------------------------------------------
\* delete, lines 235-239: the tags of one file, from the tag index of files.
ReadTagsToDelete(c, f) ==
    /\ thread[c].pc = "delete"
    /\ f \in thread[c].left
    /\ thread' = [thread EXCEPT ![c].pc = "unlist", ![c].file = f, ![c].left = @ \ {f},
                                ![c].tags = ListOf(tagsOf[f])]
    /\ UNCHANGED <<files, tagsOf, filesOf, use>>

\* Mutant: the list is deleted with its first file.
WithoutDrops(list, f) == Absent

\* Mutant: the file is left in a list that it does not empty.
WithoutKeeps(list, f) == IF list \subseteq {f} THEN Absent ELSE list

\* Lines 249-265: a list that becomes empty is deleted.
Without(list, f) == IF list \subseteq {f} THEN Absent ELSE list \ {f}

Unlist(c) ==
    /\ thread[c].pc = "unlist"
    /\ thread[c].tag # None
    /\ filesOf' = [filesOf EXCEPT ![thread[c].tag] = Without(thread[c].hand, thread[c].file)]
    /\ thread' = [thread EXCEPT ![c].tag = None, ![c].hand = {}]
    /\ UNCHANGED <<files, tagsOf, use>>

\* Lines 272-274: "the easy stuff".
DeleteContents(c) ==
    /\ thread[c].pc = "unlist"
    /\ thread[c].tag = None
    /\ thread[c].tags = {}
    /\ files' = [files EXCEPT ![thread[c].file] = Absent]
    /\ thread' = [thread EXCEPT ![c].pc = "forget"]
    /\ UNCHANGED <<tagsOf, filesOf, use>>

DeleteTagList(c) ==
    /\ thread[c].pc = "forget"
    /\ tagsOf' = [tagsOf EXCEPT ![thread[c].file] = Absent]
    /\ thread' = [thread EXCEPT ![c].pc = "delete", ![c].file = None]
    /\ UNCHANGED <<files, filesOf, use>>
-----------------------------------------------------------------------------
\* list 208-228 and get 352-360: one file of the response. A file without tags
\* or contents is reported as empty.
ReadOne(c, f) ==
    /\ thread[c].pc \in {"list", "fetch"}
    /\ f \in thread[c].left
    /\ thread' = [thread EXCEPT
          ![c].left = @ \ {f},
          ![c].reply[f] = IF thread[c].pc = "list" THEN ListOf(tagsOf[f]) ELSE files[f]]
    /\ UNCHANGED <<files, tagsOf, filesOf, use>>

\* A loop over files is over: add, add-tags and delete-tags go on to the tags.
EndFiles(c) ==
    /\ thread[c].pc \in {"upload", "retag", "delete", "list", "fetch"}
    /\ thread[c].file = None
    /\ thread[c].left = {}
    /\ thread' = IF thread[c].pc \in {"upload", "retag"}
                 THEN [thread EXCEPT ![c].pc = "index", ![c].tags = thread[c].cmd.tags]
                 ELSE [thread EXCEPT ![c].pc = "reply"]
    /\ UNCHANGED <<files, tagsOf, filesOf, use>>

EndTags(c) ==
    /\ thread[c].pc = "index"
    /\ thread[c].tag = None
    /\ thread[c].tags = {}
    /\ thread' = [thread EXCEPT ![c].pc = "reply"]
    /\ UNCHANGED <<files, tagsOf, filesOf, use>>

\* Lines 368-386: the response is sent.
Respond(c) ==
    /\ thread[c].pc = "reply"
    /\ thread' = [thread EXCEPT ![c] = Idle]
    /\ UNCHANGED <<files, tagsOf, filesOf, use>>

\* The process is killed: every command ends where it is. The DHTs stay.
Crash ==
    /\ use.crashes
    /\ \E c \in Client : thread[c].pc # "idle"
    /\ thread' = [c \in Client |-> Idle]
    /\ UNCHANGED <<files, tagsOf, filesOf, use>>
-----------------------------------------------------------------------------
ThreadStep(c) ==
    \/ Search(c)
    \/ \E f \in File :
           PutContents(c, f) \/ ReadTags(c, f) \/ ReadTagsToDelete(c, f) \/ ReadOne(c, f)
    \/ PutTags(c)
    \/ UploadBroken(c)
    \/ WriteTags(c)
    \/ \E t \in Tag : ReadFiles(c, t)
    \/ WriteFiles(c)
    \/ \E key \in Name : WriteUnderFile(c, key)
    \/ ReadPastEnd(c)
    \/ Unlist(c)
    \/ DeleteContents(c)
    \/ DeleteTagList(c)
    \/ EndFiles(c)
    \/ EndTags(c)
    \/ Respond(c)

Next ==
    \/ \E c \in Client : (\E m \in Command : Receive(c, m)) \/ ThreadStep(c)
    \/ Crash

Spec == Init /\ [][Next]_vars
-----------------------------------------------------------------------------
\* What a user would be told is wrong: a file is listed under a tag that the
\* file's own list lacks, or has no contents. Even if the process is killed or
\* an upload breaks: the order of the writes in add (contents, tags, index) and
\* in delete (index, contents, tags) must make every prefix of them safe.
IndexTruthful ==
    use.alone /\ use.readd # "any" /\ "delete-tags" \notin use.ops =>
        \A n \in Name : \A f \in ListOf(filesOf[n]) :
            files[f] # Absent /\ n \in ListOf(tagsOf[f])

\* Between commands, a file is found by each of its tags. The update of a tag's
\* list (read, extend or shorten, write) must not lose what others have put in.
TagsFindFiles ==
    ~use.breaks /\ ~use.crashes /\ (\A c \in Client : thread[c].pc \in {"idle", "reply"}) =>
        \A f \in File : ListOf(tagsOf[f]) \subseteq ListedUnder(f)

\* As long as nobody deletes, no file that a tag leads to lacks contents, with
\* any number of clients, lost updates, broken uploads and kills.
ContentsBehindIndex ==
    "delete" \notin use.ops =>
        \A n \in Name : \A f \in ListOf(filesOf[n]) : files[f] # Absent

\* server.cpp:329 "Delete from tags_to_files": when delete-tags is answered, the
\* tags no longer lead to the files.
Untagged ==
    \A c \in Client :
        thread[c].pc = "reply" /\ thread[c].cmd.op = "delete-tags" =>
            \A t \in thread[c].cmd.tags : ListOf(filesOf[t]) \cap thread[c].found = {}

\* server.cpp:42 "Get separated file lists and intersect them": the files of a
\* query are listed under each of its tags.
Intersects ==
    [][\A c \in Client :
           Search(c) /\ thread'[c].pc # "query" =>
               \A t \in ToSet(thread[c].cmd.query) :
                   thread'[c].found \subseteq ListOf(filesOf[t])]_vars
=============================================================================
