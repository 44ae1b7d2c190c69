----------------------- MODULE ControllerSerialProofs -----------------------
(***************************************************************************)
(* ServesTable, for any clients, files, tags and contents: the controller, *)
(* used by one client at a time, implements the table of TagStore.  The    *)
(* step that a user sees is the last of a command, at which the response   *)
(* is ready; the invariant says how far the DHTs are then from the table   *)
(* the command found.                                                      *)
(***************************************************************************)
EXTENDS ControllerSerial, ControllerProofs

USE NoneAssumption, AbsentAssumption

\* The tags f was found by when the running command arrived.
ListedThen(f) == IF before[f] = Absent THEN {} ELSE before[f].tags

\* The files that command was to find.
Hit(m) == {f \in File : ToSet(m.query) \subseteq ListedThen(f)}

\* f has kept the contents it had then.
KeptContent(f) == before[f] # Absent => files[f] = before[f].content

\* Where the thread is with its files.
Steady(me) ==
    /\ me.pc # "query" =>
          /\ me.found = IF me.cmd.op = "add" THEN me.cmd.names ELSE Hit(me.cmd)
          /\ me.left \subseteq me.found
    /\ me.pc = "list" => me.cmd.op = "list"
    /\ me.pc = "fetch" => me.cmd.op = "get"
    /\ me.pc = "delete" => me.file = None
    /\ me.pc = "index" => me.left = {}
    /\ me.pc \in {"unlist", "forget"} => me.file \in me.found
    /\ me.cmd.op = "add" => \A f \in me.cmd.names : ListedThen(f) \subseteq me.cmd.tags

\* What get_file_names_from_query has found are the files with the tags it has done.
Searching(me) ==
    me.pc = "query" =>
        /\ Len(me.query) <= Len(me.cmd.query)
        /\ me.query = me.cmd.query => me.found = {}
        /\ \A t \in ToSet(IF me.query = me.cmd.query THEN Tail(me.query) ELSE me.query) :
               filesOf[t] # Absent
        /\ \A f \in File :
               f \in Hit(me.cmd) <=> /\ me.query = me.cmd.query \/ f \in me.found
                                     /\ ToSet(me.query) \subseteq ListedThen(f)

\* How far the response is.
Replying(me) ==
    me.reply = [f \in File |->
                   IF f \notin me.found \ me.left THEN None
                   ELSE CASE me.pc = "list" -> ListedThen(f)
                          [] me.pc = "fetch" -> before[f].content
                          [] me.pc \notin {"list", "fetch"} -> None]

\* How far the lists of the tags are from what they were.
Listing(me, f) ==
    /\ f \notin me.found \/ me.pc \in {"query", "upload", "retag", "list", "fetch"}
          => ListedUnder(f) = ListedThen(f)
    /\ me.pc = "index" /\ f \in me.found =>
          /\ ListedThen(f) \subseteq ListedUnder(f)
          /\ me.cmd.tags \subseteq ListedUnder(f) \cup me.tags \cup {me.tag}
          /\ ListedUnder(f) \subseteq ListedThen(f) \cup me.cmd.tags
    /\ me.pc \in {"delete", "unlist", "forget"} /\ f \in me.found \ (me.left \cup {me.file})
          => ListedUnder(f) = {}

\* How far the contents are.
Holding(me, f) ==
    /\ me.pc = "query" \/ me.cmd.op \notin {"add", "delete"} \/ f \notin me.found => KeptContent(f)
    /\ me.cmd.op = "add" /\ f \in me.found \ me.left => files[f] = me.cmd.contents[f]

Serving(me) ==
    /\ me.pc = "idle" => me.cmd = None
    /\ me.pc \notin {"idle", "reply"} =>
          /\ Steady(me) /\ Searching(me) /\ Replying(me)
          /\ \A f \in File : Listing(me, f) /\ Holding(me, f)

Entry == [content : Content, tags : Some(Tag)]

Serves ==
    /\ before \in [File -> Entry \cup {Absent}]
    /\ \A c \in Client : Serving(thread[c])

\* The invariant, for the uses ServesTable is about.
Sound == TInv /\ Truthful /\ Complete /\ Serves
-----------------------------------------------------------------------------
\* What is known of the thread that has a command.
LEMMA Server ==
    ASSUME Sound, Orderly, NEW c \in Client, thread[c].pc \notin {"idle", "reply"}
    PROVE  /\ thread[c] \in Thread /\ ThreadOK(thread[c])
           /\ Safe(thread[c]) /\ Fresh(thread[c]) /\ Index
           /\ Steady(thread[c]) /\ Searching(thread[c]) /\ Replying(thread[c])
           /\ \A f \in File : Listing(thread[c], f) /\ Holding(thread[c], f)
           /\ thread[c].cmd \in Command /\ thread[c].cmd.op # "delete-tags"
           /\ \A d \in Client \ {c} : thread[d].pc = "idle"
<1>1. /\ thread[c] \in Thread /\ ThreadOK(thread[c])
      /\ \A d \in Client \ {c} : thread[d].pc = "idle"
  BY MoverState DEF Sound
<1>2. Safe(thread[c]) /\ Fresh(thread[c]) /\ Index
  BY DEF Sound, Truthful, Complete
<1>3. Serving(thread[c])
  BY DEF Sound, Serves
<1>4. thread[c].cmd \in Command /\ thread[c].cmd.op # "delete-tags"
  BY <1>1 DEF ThreadOK, Orderly
<1> QED
  BY <1>1, <1>2, <1>3, <1>4 DEF Serving

\* A step of the one busy thread.
LEMMA ServesChange ==
    ASSUME Serves, NEW c \in Client, before' = before,
           \A d \in Client \ {c} : thread'[d] = thread[d] /\ thread[d].pc = "idle",
           Serving(thread[c])'
    PROVE  Serves'
<1>1. ASSUME NEW d \in Client \ {c} PROVE Serving(thread[d])'
  <2>1. Serving(thread[d]) /\ thread'[d] = thread[d] /\ thread[d].pc = "idle"
    BY DEF Serves
  <2> QED
    BY <2>1 DEF Serving
<1> QED
  BY <1>1 DEF Serves

\* The loops that write.
Writing == {"upload", "retag", "index", "delete", "unlist", "forget"}

\* A step from one of them to another, once it is known where it leaves the lists
\* and the contents.
LEMMA WritingStep ==
    ASSUME NEW c \in Client, before' = before,
           thread[c].pc \in Writing, thread'[c].pc \in Writing,
           Steady(thread[c]), Replying(thread[c]),
           thread'[c].cmd = thread[c].cmd, thread'[c].found = thread[c].found,
           thread'[c].reply = thread[c].reply, thread'[c].left \subseteq thread[c].left,
           thread'[c].pc = "delete" => thread'[c].file = None,
           thread'[c].pc = "index" => thread'[c].left = {},
           thread'[c].pc \in {"unlist", "forget"} => thread'[c].file \in thread[c].found,
           \A f \in File : (Listing(thread[c], f) /\ Holding(thread[c], f))'
    PROVE  Serving(thread[c])'
<1>1. Steady(thread[c])'
  BY DEF Steady, Writing, Hit, ListedThen
<1>2. Searching(thread[c])'
  BY DEF Searching, Writing
<1>3. Replying(thread[c])'
  <2>1. thread[c].reply = [f \in File |-> None]
    <3>1. thread[c].pc \notin {"list", "fetch"}
      BY DEF Writing
    <3> QED
      BY <3>1 DEF Replying
  <2>2. thread'[c].pc \notin {"list", "fetch"} /\ thread'[c].reply = [f \in File |-> None]
    BY <2>1 DEF Writing
  <2> QED
    BY <2>2 DEF Replying
<1>4. thread'[c].pc \notin {"idle", "reply"}
  BY DEF Writing
<1> QED
  BY <1>1, <1>2, <1>3, <1>4 DEF Serving

-----------------------------------------------------------------------------
(* The steps within a command *)

LEMMA PutContentsServes ==
    ASSUME Sound, Orderly, NEW c \in Client, NEW f \in File, PutContents(c, f),
           before' = before
    PROVE  Serving(thread[c])'
<1> DEFINE old == thread[c]
           new == thread'[c]
<1>1. old.pc = "upload" /\ f \in old.left
  BY DEF PutContents
<1>2. /\ old \in Thread /\ ThreadOK(old) /\ Steady(old) /\ Replying(old)
      /\ \A g \in File : Listing(old, g) /\ Holding(old, g)
  BY <1>1, Server
<1>3. /\ new.pc = "upload" /\ new.cmd = old.cmd /\ new.found = old.found
      /\ new.left = old.left \ {f} /\ new.reply = old.reply
  BY <1>1, <1>2 DEF PutContents, Sound, TInv, TypeOK, Thread
<1>4. old.cmd.op = "add" /\ f \in old.found
  BY <1>1, <1>2 DEF ThreadOK, Steady
<1>5. filesOf' = filesOf /\ files'[f] = old.cmd.contents[f] /\ \A g \in File \ {f} : files'[g] = files[g]
  BY DEF PutContents, Sound, TInv, TypeOK
<1>6. ASSUME NEW g \in File PROVE (Listing(thread[c], g) /\ Holding(thread[c], g))'
  <2>1. Listing(thread[c], g)'
    BY <1>1, <1>2, <1>3, <1>5 DEF Listing, ListedUnder, ListedThen
  <2>2. Holding(thread[c], g)'
    BY <1>1, <1>2, <1>3, <1>4, <1>5 DEF Holding, KeptContent
  <2> QED
    BY <2>1, <2>2
<1> QED
  BY <1>1, <1>2, <1>3, <1>6, WritingStep DEF Writing

LEMMA PutTagsServes ==
    ASSUME Sound, Orderly, NEW c \in Client, PutTags(c), before' = before
    PROVE  Serving(thread[c])'
<1> DEFINE old == thread[c]
           new == thread'[c]
<1>1. old.pc = "upload"
  BY DEF PutTags
<1>2. /\ old \in Thread /\ ThreadOK(old) /\ Steady(old) /\ Replying(old)
      /\ \A g \in File : Listing(old, g) /\ Holding(old, g)
  BY <1>1, Server
<1>3. /\ new.pc = "upload" /\ new.cmd = old.cmd /\ new.found = old.found
      /\ new.left = old.left /\ new.reply = old.reply /\ files' = files /\ filesOf' = filesOf
  BY <1>1, <1>2 DEF PutTags, Sound, TInv, TypeOK, Thread
<1>4. ASSUME NEW g \in File PROVE (Listing(thread[c], g) /\ Holding(thread[c], g))'
  <2>1. Listing(thread[c], g)'
    BY <1>1, <1>2, <1>3 DEF Listing, ListedUnder, ListedThen
  <2>2. Holding(thread[c], g)'
    BY <1>1, <1>2, <1>3 DEF Holding, KeptContent
  <2> QED
    BY <2>1, <2>2
<1> QED
  BY <1>1, <1>2, <1>3, <1>4, WritingStep DEF Writing

\* The first loop of add-tags works on the tag lists of files, which no query reads.
LEMMA RetagServes ==
    ASSUME Sound, Orderly, NEW c \in Client, before' = before,
           WriteTags(c) \/ \E f \in File : ReadTags(c, f)
    PROVE  Serving(thread[c])'
<1> DEFINE old == thread[c]
           new == thread'[c]
<1>1. old.pc = "retag"
  BY DEF WriteTags, ReadTags
<1>2. /\ old \in Thread /\ ThreadOK(old) /\ Steady(old) /\ Replying(old)
      /\ \A g \in File : Listing(old, g) /\ Holding(old, g)
  BY <1>1, Server
<1>3. /\ new.pc = "retag" /\ new.cmd = old.cmd /\ new.found = old.found
      /\ new.left \subseteq old.left /\ new.reply = old.reply
      /\ files' = files /\ filesOf' = filesOf
  <2>1. CASE WriteTags(c)
    BY <1>1, <1>2, <2>1 DEF WriteTags, Sound, TInv, TypeOK, Thread
  <2>2. ASSUME NEW f \in File, ReadTags(c, f)
        PROVE  /\ new.pc = "retag" /\ new.cmd = old.cmd /\ new.found = old.found
               /\ new.left \subseteq old.left /\ new.reply = old.reply
               /\ files' = files /\ filesOf' = filesOf
    BY <1>1, <1>2, <2>2 DEF ReadTags, Sound, TInv, TypeOK, Thread
  <2> QED
    BY <2>1, <2>2
<1>4. old.cmd.op # "add"
  BY <1>1, <1>2 DEF ThreadOK
<1>5. ASSUME NEW g \in File PROVE (Listing(thread[c], g) /\ Holding(thread[c], g))'
  <2>1. Listing(thread[c], g)'
    BY <1>1, <1>2, <1>3 DEF Listing, ListedUnder, ListedThen
  <2>2. Holding(thread[c], g)'
    BY <1>1, <1>2, <1>3, <1>4 DEF Holding, KeptContent
  <2> QED
    BY <2>1, <2>2
<1> QED
  BY <1>1, <1>2, <1>3, <1>5, WritingStep DEF Writing

LEMMA ReadFilesServes ==
    ASSUME Sound, Orderly, NEW c \in Client, NEW t \in Tag, ReadFiles(c, t), before' = before
    PROVE  Serving(thread[c])'
<1> DEFINE old == thread[c]
           new == thread'[c]
<1>1. old.pc \in {"index", "unlist"}
  BY DEF ReadFiles
<1>2. /\ old \in Thread /\ ThreadOK(old) /\ Steady(old) /\ Replying(old)
      /\ \A g \in File : Listing(old, g) /\ Holding(old, g)
  BY <1>1, Server
<1>3. /\ new.pc = old.pc /\ new.cmd = old.cmd /\ new.found = old.found
      /\ new.left = old.left /\ new.reply = old.reply /\ new.file = old.file
      /\ new.tag = t /\ new.tags = old.tags \ {t} /\ old.tag = None /\ t \in old.tags
      /\ files' = files /\ filesOf' = filesOf
  BY <1>1, <1>2 DEF ReadFiles, Sound, TInv, TypeOK, Thread
<1>4. old.tags \cup {old.tag} = new.tags \cup {new.tag} \cup {None}
  BY <1>3
<1>5. ASSUME NEW g \in File PROVE (Listing(thread[c], g) /\ Holding(thread[c], g))'
  <2>1. ListedUnder(g)' = ListedUnder(g) /\ ListedThen(g)' = ListedThen(g)
    BY <1>3 DEF ListedUnder, ListedThen
  <2>2. None \notin old.cmd.tags \/ old.pc # "index"
    <3>1. CASE old.pc = "index"
      <4>1. old.cmd.tags \in SUBSET Tag
        BY <1>2, <3>1, CommandFields DEF ThreadOK
      <4> QED
        BY <4>1 DEF Name
    <3> QED
      BY <3>1
  <2>3. Listing(old, g)
    BY <1>2
  <2>4. Listing(thread[c], g)'
    BY <1>1, <1>3, <1>4, <2>1, <2>2, <2>3 DEF Listing
  <2>5. Holding(thread[c], g)'
    BY <1>1, <1>2, <1>3 DEF Holding, KeptContent
  <2> QED
    BY <2>4, <2>5
<1>6. new.pc = "index" => new.left = {}
  BY <1>2, <1>3 DEF Steady
<1>7. new.pc \in {"unlist", "forget"} => new.file \in old.found
  BY <1>2, <1>3 DEF Steady
<1> QED
  BY <1>1, <1>2, <1>3, <1>5, <1>6, <1>7, WritingStep DEF Writing

\* One more list of a tag of the command has its files.
LEMMA WriteFilesServes ==
    ASSUME Sound, Orderly, NEW c \in Client, WriteFiles(c), before' = before
    PROVE  Serving(thread[c])'
<1> DEFINE old == thread[c]
           new == thread'[c]
<1>1. old.pc = "index" /\ old.tag # None
  BY DEF WriteFiles
<1>2. /\ old \in Thread /\ ThreadOK(old) /\ Steady(old) /\ Replying(old)
      /\ \A g \in File : Listing(old, g) /\ Holding(old, g)
      /\ Safe(old) /\ Fresh(old)
  BY <1>1, Server
<1>3. /\ new.pc = old.pc /\ new.cmd = old.cmd /\ new.found = old.found
      /\ new.left = old.left /\ new.reply = old.reply
      /\ new.tag = None /\ new.tags = old.tags /\ files' = files /\ old.tag \in Tag
  BY <1>1, <1>2 DEF WriteFiles, Sound, TInv, TypeOK, Thread
<1>4. old.hand = ListOf(filesOf[old.tag]) /\ old.tag \in old.cmd.tags /\ old.left = {}
  BY <1>1, <1>2 DEF Fresh, Safe, SafeIndex, Steady
<1>5. /\ ListOf(filesOf'[old.tag]) = old.hand \cup old.found
      /\ \A n \in Name \ {old.tag} : filesOf'[n] = filesOf[n]
  <2>1. old.hand \cup old.found \in SUBSET File
    BY <1>1, <1>2 DEF ThreadOK, Thread
  <2>2. filesOf' = [filesOf EXCEPT ![old.tag] = old.hand \cup old.found]
    BY DEF WriteFiles, Enlisted
  <2> QED
    BY <1>3, <2>1, <2>2, ListPut DEF Name, Sound
<1>6. ASSUME NEW g \in File PROVE (Listing(thread[c], g) /\ Holding(thread[c], g))'
  <2>1. ListedUnder(g)' = ListedUnder(g) \cup {t \in {old.tag} : g \in old.found}
    <3>1. \A t \in Tag \ {old.tag} : filesOf'[t] = filesOf[t]
      BY <1>5 DEF Name
    <3> QED
      BY <1>3, <1>4, <1>5, <3>1 DEF ListedUnder
  <2>2. ListedThen(g)' = ListedThen(g)
    BY DEF ListedThen
  <2>3. Listing(old, g)
    BY <1>2
  <2>4. Listing(thread[c], g)'
    BY <1>1, <1>3, <1>4, <2>1, <2>2, <2>3 DEF Listing
  <2>5. Holding(thread[c], g)'
    BY <1>1, <1>2, <1>3 DEF Holding, KeptContent
  <2> QED
    BY <2>4, <2>5
<1> QED
  BY <1>1, <1>2, <1>3, <1>4, <1>6, WritingStep DEF Writing

-----------------------------------------------------------------------------
LEMMA ReadTagsToDeleteServes ==
    ASSUME Sound, Orderly, NEW c \in Client, NEW f \in File, ReadTagsToDelete(c, f),
           before' = before
    PROVE  Serving(thread[c])'
<1> DEFINE old == thread[c]
           new == thread'[c]
<1>1. old.pc = "delete" /\ f \in old.left
  BY DEF ReadTagsToDelete
<1>2. /\ old \in Thread /\ ThreadOK(old) /\ Steady(old) /\ Replying(old)
      /\ \A g \in File : Listing(old, g) /\ Holding(old, g)
  BY <1>1, Server
<1>3. /\ new.pc = "unlist" /\ new.cmd = old.cmd /\ new.found = old.found
      /\ new.left = old.left \ {f} /\ new.reply = old.reply /\ new.file = f
      /\ files' = files /\ filesOf' = filesOf
  BY <1>1, <1>2 DEF ReadTagsToDelete, Sound, TInv, TypeOK, Thread
<1>4. old.file = None /\ f \in old.found /\ old.found \subseteq File
  BY <1>1, <1>2 DEF Steady, Thread
<1>5. ASSUME NEW g \in File PROVE (Listing(thread[c], g) /\ Holding(thread[c], g))'
  <2>1. ListedUnder(g)' = ListedUnder(g) /\ ListedThen(g)' = ListedThen(g)
    BY <1>3 DEF ListedUnder, ListedThen
  <2>2. Listing(old, g) /\ g # None
    BY <1>2 DEF Name
  <2>3. Listing(thread[c], g)'
    BY <1>1, <1>3, <1>4, <2>1, <2>2 DEF Listing
  <2>4. old.cmd.op = "delete"
    BY <1>1, <1>2 DEF ThreadOK
  <2>5. Holding(thread[c], g)'
    BY <1>1, <1>2, <1>3, <2>4 DEF Holding, KeptContent
  <2> QED
    BY <2>3, <2>5
<1> QED
  BY <1>1, <1>2, <1>3, <1>4, <1>5, WritingStep DEF Writing

\* The file leaves the list of one of its tags.
LEMMA UnlistServes ==
    ASSUME Sound, Orderly, NEW c \in Client, Unlist(c), before' = before
    PROVE  Serving(thread[c])'
<1> DEFINE old == thread[c]
           new == thread'[c]
<1>1. old.pc = "unlist" /\ old.tag # None
  BY DEF Unlist
<1>2. /\ old \in Thread /\ ThreadOK(old) /\ Steady(old) /\ Replying(old)
      /\ \A g \in File : Listing(old, g) /\ Holding(old, g)
      /\ Fresh(old)
  BY <1>1, Server
<1>3. /\ new.pc = old.pc /\ new.cmd = old.cmd /\ new.found = old.found
      /\ new.left = old.left /\ new.reply = old.reply /\ new.file = old.file
      /\ files' = files /\ old.tag \in Tag
  BY <1>1, <1>2 DEF Unlist, Sound, TInv, TypeOK, Thread
<1>4. old.hand = ListOf(filesOf[old.tag]) /\ old.file \in old.found /\ old.cmd.op = "delete"
  BY <1>1, <1>2 DEF Fresh, Steady, ThreadOK
<1>5. /\ ListOf(filesOf'[old.tag]) = old.hand \ {old.file}
      /\ \A n \in Name \ {old.tag} : filesOf'[n] = filesOf[n]
  <2>1. filesOf' = [filesOf EXCEPT ![old.tag] = Without(old.hand, old.file)]
    BY DEF Unlist
  <2>2. ListOf(Without(old.hand, old.file)) = old.hand \ {old.file}
    <3>1. CASE old.hand \subseteq {old.file}
      BY <3>1 DEF Without, ListOf
    <3>2. CASE ~(old.hand \subseteq {old.file})
      <4>1. old.hand \ {old.file} \in SUBSET Name
        BY <1>1, <1>2 DEF ThreadOK, Name
      <4> QED
        BY <3>2, <4>1, ListOfList DEF Without
    <3> QED
      BY <3>1, <3>2
  <2> QED
    BY <1>3, <2>1, <2>2 DEF Name, Sound, TInv, TypeOK
<1>6. ASSUME NEW g \in File PROVE (Listing(thread[c], g) /\ Holding(thread[c], g))'
  <2>1. ListedUnder(g)' = ListedUnder(g) \ {t \in {old.tag} : g = old.file}
    <3>1. \A t \in Tag \ {old.tag} : filesOf'[t] = filesOf[t]
      BY <1>5 DEF Name
    <3> QED
      BY <1>3, <1>4, <1>5, <3>1 DEF ListedUnder
  <2>2. ListedThen(g)' = ListedThen(g) /\ Listing(old, g)
    BY <1>2 DEF ListedThen
  <2>3. Listing(thread[c], g)'
    BY <1>1, <1>3, <1>4, <2>1, <2>2 DEF Listing
  <2>4. Holding(thread[c], g)'
    BY <1>1, <1>2, <1>3 DEF Holding, KeptContent
  <2> QED
    BY <2>3, <2>4
<1> QED
  BY <1>1, <1>2, <1>3, <1>4, <1>6, WritingStep DEF Writing

LEMMA DeleteContentsServes ==
    ASSUME Sound, Orderly, NEW c \in Client, DeleteContents(c), before' = before
    PROVE  Serving(thread[c])'
<1> DEFINE old == thread[c]
           new == thread'[c]
<1>1. old.pc = "unlist"
  BY DEF DeleteContents
<1>2. /\ old \in Thread /\ ThreadOK(old) /\ Steady(old) /\ Replying(old)
      /\ \A g \in File : Listing(old, g) /\ Holding(old, g)
  BY <1>1, Server
<1>3. /\ new.pc = "forget" /\ new.cmd = old.cmd /\ new.found = old.found
      /\ new.left = old.left /\ new.reply = old.reply /\ new.file = old.file
      /\ filesOf' = filesOf
  BY <1>1, <1>2 DEF DeleteContents, Sound, TInv, TypeOK, Thread
<1>4. old.file \in old.found /\ old.cmd.op = "delete"
  BY <1>1, <1>2 DEF Steady, ThreadOK
<1>5. \A g \in File \ {old.file} : files'[g] = files[g]
  BY DEF DeleteContents, Sound, TInv, TypeOK
<1>6. ASSUME NEW g \in File PROVE (Listing(thread[c], g) /\ Holding(thread[c], g))'
  <2>1. ListedUnder(g)' = ListedUnder(g) /\ ListedThen(g)' = ListedThen(g)
    BY <1>3 DEF ListedUnder, ListedThen
  <2>2. Listing(old, g)
    BY <1>2
  <2>3. Listing(thread[c], g)'
    BY <1>1, <1>3, <2>1, <2>2 DEF Listing
  <2>4. Holding(thread[c], g)'
    BY <1>1, <1>2, <1>3, <1>4, <1>5 DEF Holding, KeptContent
  <2> QED
    BY <2>3, <2>4
<1> QED
  BY <1>1, <1>2, <1>3, <1>4, <1>6, WritingStep DEF Writing

\* The file is in no list any more.
LEMMA DeleteTagListServes ==
    ASSUME Sound, Orderly, NEW c \in Client, DeleteTagList(c), before' = before
    PROVE  Serving(thread[c])'
<1> DEFINE old == thread[c]
           new == thread'[c]
<1>1. old.pc = "forget"
  BY DEF DeleteTagList
<1>2. /\ old \in Thread /\ ThreadOK(old) /\ Steady(old) /\ Replying(old)
      /\ \A g \in File : Listing(old, g) /\ Holding(old, g)
      /\ Safe(old)
  BY <1>1, Server
<1>3. /\ new.pc = "delete" /\ new.cmd = old.cmd /\ new.found = old.found
      /\ new.left = old.left /\ new.reply = old.reply /\ new.file = None
      /\ files' = files /\ filesOf' = filesOf
  BY <1>1, <1>2 DEF DeleteTagList, Sound, TInv, TypeOK, Thread
<1>4. ListedUnder(old.file) = {}
  <2>1. \A t \in Tag : old.file \notin ListOf(filesOf[t])
    BY <1>1, <1>2 DEF Safe, SafeDelete, Name
  <2> QED
    BY <2>1 DEF ListedUnder
<1>5. ASSUME NEW g \in File PROVE (Listing(thread[c], g) /\ Holding(thread[c], g))'
  <2>1. ListedUnder(g)' = ListedUnder(g) /\ ListedThen(g)' = ListedThen(g)
    BY <1>3 DEF ListedUnder, ListedThen
  <2>2. Listing(old, g)
    BY <1>2
  <2>3. Listing(thread[c], g)'
    BY <1>1, <1>3, <1>4, <2>1, <2>2 DEF Listing
  <2>4. Holding(thread[c], g)'
    BY <1>1, <1>2, <1>3 DEF Holding, KeptContent
  <2> QED
    BY <2>3, <2>4
<1> QED
  BY <1>1, <1>2, <1>3, <1>5, WritingStep DEF Writing

\* The loop over the files of add or add-tags is over.
LEMMA EndFilesServes ==
    ASSUME Sound, Orderly, NEW c \in Client, EndFiles(c), thread[c].pc \in {"upload", "retag"},
           before' = before
    PROVE  Serving(thread[c])'
<1> DEFINE old == thread[c]
           new == thread'[c]
<1>1. old.pc \in {"upload", "retag"} /\ old.left = {}
  BY DEF EndFiles
<1>2. /\ old \in Thread /\ ThreadOK(old) /\ Steady(old) /\ Replying(old)
      /\ \A g \in File : Listing(old, g) /\ Holding(old, g)
  BY <1>1, Server
<1>3. /\ new.pc = "index" /\ new.cmd = old.cmd /\ new.found = old.found
      /\ new.left = {} /\ new.reply = old.reply /\ new.tags = old.cmd.tags
      /\ files' = files /\ filesOf' = filesOf
  BY <1>1, <1>2 DEF EndFiles, Sound, TInv, TypeOK, Thread
<1>4. ASSUME NEW g \in File PROVE (Listing(thread[c], g) /\ Holding(thread[c], g))'
  <2>1. ListedUnder(g)' = ListedUnder(g) /\ ListedThen(g)' = ListedThen(g)
    BY <1>3 DEF ListedUnder, ListedThen
  <2>2. Listing(old, g)
    BY <1>2
  <2>3. Listing(thread[c], g)'
    BY <1>1, <1>3, <2>1, <2>2 DEF Listing
  <2>4. Holding(thread[c], g)'
    BY <1>1, <1>2, <1>3 DEF Holding, KeptContent
  <2> QED
    BY <2>3, <2>4
<1> QED
  BY <1>1, <1>2, <1>3, <1>4, WritingStep DEF Writing

-----------------------------------------------------------------------------
(* The answers *)

\* Every query has a tag, so what it finds has one.
LEMMA HitListed ==
    ASSUME NEW m \in Command, m.op # "add", NEW f \in Hit(m)
    PROVE  ListedThen(f) # {} /\ before[f] # Absent
<1>1. m.query \in Seq(Tag) /\ m.query # <<>>
  BY CommandFields
<1>2. m.query[1] \in ToSet(m.query)
  BY <1>1, EmptySeq, LenProperties DEF ToSet
<1> QED
  BY <1>2 DEF Hit, ListedThen

\* With nothing owed, the two tag indexes agree.
LEMMA IndexesAgree ==
    ASSUME Sound, NEW c \in Client, NEW f \in File, Index,
           thread[c].pc \in {"list", "fetch"},
           \A d \in Client \ {c} : thread[d].pc = "idle"
    PROVE  ListOf(tagsOf[f]) = ListedUnder(f)
<1>1. \A d \in Client : Owing(thread[d], f) = {}
  BY DEF Owing
<1>2. ListOf(tagsOf[f]) \subseteq Tag
  BY Lists DEF Sound
<1>3. \A t \in ListOf(tagsOf[f]) : f \in ListOf(filesOf[t])
  BY <1>1 DEF Sound, Complete
<1>4. \A t \in Tag : f \in ListOf(filesOf[t]) => t \in ListOf(tagsOf[f])
  BY DEF Index, Name
<1> QED
  BY <1>2, <1>3, <1>4 DEF ListedUnder

LEMMA ReadOneServes ==
    ASSUME Sound, Orderly, NEW c \in Client, NEW f \in File, ReadOne(c, f), before' = before
    PROVE  Serving(thread[c])'
<1> DEFINE old == thread[c]
           new == thread'[c]
           value == IF old.pc = "list" THEN ListOf(tagsOf[f]) ELSE files[f]
<1>1. old.pc \in {"list", "fetch"} /\ f \in old.left
  BY DEF ReadOne
<1>2. /\ old \in Thread /\ Steady(old) /\ Replying(old) /\ Index
      /\ \A g \in File : Listing(old, g) /\ Holding(old, g)
      /\ old.cmd \in Command
      /\ \A d \in Client \ {c} : thread[d].pc = "idle"
  BY <1>1, Server
<1>3. /\ new.pc = old.pc /\ new.cmd = old.cmd /\ new.found = old.found
      /\ new.left = old.left \ {f} /\ files' = files /\ filesOf' = filesOf
      /\ new.reply = [old.reply EXCEPT ![f] = value]
  BY <1>1, <1>2 DEF ReadOne, Sound, TInv, TypeOK, Thread
<1>4. f \in old.found /\ old.cmd.op \notin {"add", "delete"} /\ old.found = Hit(old.cmd)
  BY <1>1, <1>2 DEF Steady
<1>5. value = IF old.pc = "list" THEN ListedThen(f) ELSE before[f].content
  <2>1. CASE old.pc = "list"
    BY <1>1, <1>2, <2>1, IndexesAgree DEF Listing
  <2>2. CASE old.pc = "fetch"
    <3>1. before[f] # Absent
      BY <1>2, <1>4, HitListed
    <3> QED
      BY <1>2, <1>4, <2>2, <3>1 DEF Holding, KeptContent
  <2> QED
    BY <1>1, <2>1, <2>2
<1> HIDE DEF value
<1>6. Replying(thread[c])'
  <2>1. CASE old.pc = "list"
    <3>1. old.reply = [g \in File |-> IF g \notin old.found \ old.left THEN None ELSE ListedThen(g)]
      BY <1>2, <2>1 DEF Replying
    <3>2. new.reply = [g \in File |-> IF g \notin new.found \ new.left THEN None ELSE ListedThen(g)]
      BY <1>3, <1>4, <1>5, <2>1, <3>1
    <3> QED
      BY <1>3, <2>1, <3>2 DEF Replying, ListedThen
  <2>2. CASE old.pc = "fetch"
    <3>1. old.reply = [g \in File |-> IF g \notin old.found \ old.left THEN None ELSE before[g].content]
      BY <1>2, <2>2 DEF Replying
    <3>2. new.reply = [g \in File |-> IF g \notin new.found \ new.left THEN None ELSE before[g].content]
      BY <1>3, <1>4, <1>5, <2>2, <3>1
    <3> QED
      BY <1>3, <2>2, <3>2 DEF Replying
  <2> QED
    BY <1>1, <2>1, <2>2
<1>7. Steady(thread[c])'
  BY <1>1, <1>2, <1>3 DEF Steady, Hit, ListedThen
<1>8. Searching(thread[c])'
  BY <1>1, <1>3 DEF Searching
<1>9. ASSUME NEW g \in File PROVE (Listing(thread[c], g) /\ Holding(thread[c], g))'
  <2>1. ListedUnder(g)' = ListedUnder(g) /\ ListedThen(g)' = ListedThen(g)
    BY <1>3 DEF ListedUnder, ListedThen
  <2>2. Listing(old, g)
    BY <1>2
  <2>3. Listing(thread[c], g)'
    BY <1>1, <1>3, <2>1, <2>2 DEF Listing
  <2>4. Holding(thread[c], g)'
    BY <1>2, <1>3, <1>4, <1>1 DEF Holding, KeptContent
  <2> QED
    BY <2>3, <2>4
<1> QED
  BY <1>1, <1>3, <1>6, <1>7, <1>8, <1>9 DEF Serving

\* The first tag of a query and the others.
LEMMA QueryTags ==
    ASSUME NEW q \in Seq(Tag), q # <<>>
    PROVE  /\ Head(q) \in Tag /\ Tail(q) \in Seq(Tag) /\ Len(Tail(q)) = Len(q) - 1
           /\ Len(q) \in Nat
           /\ ToSet(q) = {Head(q)} \cup ToSet(Tail(q))
           /\ ToSet(Tail(q)) = {q[i] : i \in 2 .. Len(q)}
           /\ Len(q) = 1 => ToSet(Tail(q)) = {}
<1>1. /\ Len(q) \in Nat /\ Len(q) >= 1 /\ Head(q) = q[1] /\ Tail(q) \in Seq(Tag)
      /\ DOMAIN q = 1 .. Len(q) /\ q[1] \in Tag
  BY EmptySeq, LenProperties, HeadTailProperties
<1>2. Len(Tail(q)) = Len(q) - 1 /\ \A i \in 1 .. Len(q) - 1 : Tail(q)[i] = q[i + 1]
  BY HeadTailProperties
<1>3. DOMAIN Tail(q) = 1 .. Len(q) - 1
  BY <1>1, <1>2, LenProperties
<1>4. ToSet(Tail(q)) = {q[i] : i \in 2 .. Len(q)}
  <2>1. ASSUME NEW i \in 1 .. Len(q) - 1 PROVE Tail(q)[i] \in {q[j] : j \in 2 .. Len(q)}
    BY <1>1, <1>2, <2>1
  <2>2. ASSUME NEW i \in 2 .. Len(q) PROVE q[i] = Tail(q)[i - 1] /\ i - 1 \in 1 .. Len(q) - 1
    BY <1>1, <1>2, <2>2
  <2> QED
    BY <1>3, <2>1, <2>2 DEF ToSet
<1>5. ToSet(q) = {q[1]} \cup {q[i] : i \in 2 .. Len(q)}
  <2>1. ToSet(q) = {q[i] : i \in 1 .. Len(q)}
    BY <1>1 DEF ToSet
  <2>2. 1 \in 1 .. Len(q) /\ \A i \in 1 .. Len(q) : i = 1 \/ i \in 2 .. Len(q)
    BY <1>1
  <2>3. \A i \in 2 .. Len(q) : i \in 1 .. Len(q)
    BY <1>1
  <2> QED
    BY <2>1, <2>2, <2>3
<1>6. Len(q) = 1 => 2 .. Len(q) = {}
  OBVIOUS
<1> QED
  BY <1>1, <1>2, <1>4, <1>5, <1>6

\* get_file_names_from_query: one more tag, or the last, when what it has found is
\* what the command was to find.
LEMMA SearchServes ==
    ASSUME Sound, Orderly, NEW c \in Client, Search(c), before' = before
    PROVE  Serving(thread[c])'
<1> DEFINE old == thread[c]
           new == thread'[c]
           q == old.query
           list == filesOf[Head(q)]
           hits == Intersect(old.found, list, q = old.cmd.query)
           loop == IF Len(q) = 1 THEN LoopOf(old.cmd.op) ELSE "query"
           rest == Tail(q)
<1>1. old.pc = "query"
  BY DEF Search
<1>2. /\ old \in Thread /\ ThreadOK(old) /\ Fresh(old) /\ Searching(old) /\ Replying(old)
      /\ Steady(old)
      /\ \A g \in File : Listing(old, g) /\ Holding(old, g)
      /\ old.cmd \in Command /\ old.cmd.op # "delete-tags"
  BY <1>1, Server
<1>3. /\ q \in Seq(Tag) /\ q # <<>> /\ old.cmd.op \in {"list", "delete", "add-tags", "get"}
      /\ old.file = None
  <2>1. old.cmd.op \in Op \ {"add", "delete-tags"}
    BY <1>1, <1>2, CommandFields DEF ThreadOK
  <2> QED
    BY <1>1, <1>2, <2>1 DEF ThreadOK, Thread, Fresh, Op
<1>4. /\ Head(q) \in Tag /\ Len(rest) = Len(q) - 1 /\ Len(q) \in Nat
      /\ ToSet(q) = {Head(q)} \cup ToSet(rest)
      /\ Len(q) = 1 => ToSet(rest) = {}
  BY <1>3, QueryTags
<1>5. \A g \in File : /\ Head(q) \in ListedThen(g) <=> g \in ListOf(list)
                      /\ KeptContent(g)
  <2>1. \A g \in File : ListedThen(g) = ListedUnder(g)
    BY <1>1, <1>2 DEF Listing
  <2>2. \A g \in File : KeptContent(g)
    BY <1>1, <1>2 DEF Holding
  <2> QED
    BY <1>4, <2>1, <2>2 DEF ListedUnder
<1>6. hits \in SUBSET File
  <2>1. ListOf(list) \in SUBSET File
    BY <1>4, Lists DEF Sound, Name
  <2>2. old.found \in SUBSET File
    BY <1>2 DEF Thread
  <2> HIDE DEF list, q
  <2>3. CASE list = Absent
    BY <2>2, <2>3 DEF Intersect
  <2>4. CASE list # Absent /\ q = old.cmd.query
    BY <2>1, <2>4 DEF Intersect, ListOf
  <2>5. CASE list # Absent /\ q # old.cmd.query
    BY <2>1, <2>2, <2>5 DEF Intersect, ListOf
  <2> QED
    BY <2>3, <2>4, <2>5
<1>7. ASSUME NEW g \in File
      PROVE  g \in Hit(old.cmd) <=> g \in hits /\ ToSet(rest) \subseteq ListedThen(g)
  <2>1. g \in Hit(old.cmd) <=> /\ q = old.cmd.query \/ g \in old.found
                               /\ Head(q) \in ListedThen(g) /\ ToSet(rest) \subseteq ListedThen(g)
    BY <1>1, <1>2, <1>4 DEF Searching
  <2>2. g \in ListOf(list) <=> Head(q) \in ListedThen(g)
    BY <1>5
  <2>3. q = old.cmd.query => old.found = {}
    BY <1>1, <1>2 DEF Searching
  <2>4. q # old.cmd.query => list # Absent
    BY <1>1, <1>2, <1>4 DEF Searching
  <2> HIDE DEF list, q, rest
  <2>5. CASE list = Absent
    BY <2>1, <2>2, <2>3, <2>4, <2>5 DEF Intersect, ListOf
  <2>6. CASE list # Absent /\ q = old.cmd.query
    BY <2>1, <2>2, <2>6 DEF Intersect, ListOf
  <2>7. CASE list # Absent /\ q # old.cmd.query
    BY <2>1, <2>2, <2>7 DEF Intersect, ListOf
  <2> QED
    BY <2>5, <2>6, <2>7
<1>8. \A t \in ToSet(rest) : filesOf[t] # Absent
  BY <1>1, <1>2, <1>4 DEF Searching
<1>9. Len(q) <= Len(old.cmd.query) /\ Len(old.cmd.query) \in Nat
  <2>1. old.cmd.query \in Seq(Tag)
    BY <1>2, <1>3, CommandFields
  <2> QED
    BY <1>1, <1>2, <2>1, LenProperties DEF Searching
<1>10. rest # old.cmd.query /\ Len(rest) <= Len(old.cmd.query)
  <2> HIDE DEF rest, q
  <2>1. Len(rest) < Len(old.cmd.query)
    BY <1>4, <1>9
  <2> QED
    BY <1>4, <1>9, <2>1
<1>11. loop \in {"query", "list", "fetch", "delete", "retag"}
       /\ (loop = "list" => old.cmd.op = "list") /\ (loop = "fetch" => old.cmd.op = "get")
       /\ (loop # "query" => Len(q) = 1)
  BY <1>3 DEF LoopOf
<1>12. old.reply = [g \in File |-> None]
  BY <1>1, <1>2 DEF Replying
<1> HIDE DEF list, hits, rest, loop
<1>13. /\ new.pc = loop /\ new.cmd = old.cmd /\ new.query = rest /\ new.found = hits
       /\ new.left = hits /\ new.file = None /\ new.reply = old.reply
       /\ files' = files /\ filesOf' = filesOf
  <2>1. /\ thread' = [thread EXCEPT ![c].pc = loop, ![c].query = rest, ![c].found = hits,
                                    ![c].left = hits, ![c].keys = hits]
        /\ files' = files /\ filesOf' = filesOf
    BY DEF Search, loop, hits, rest, list
  <2> QED
    BY <1>2, <1>3, <2>1 DEF Sound, TInv, TypeOK, Thread
<1>14. \A g \in File : /\ ListedUnder(g)' = ListedThen(g)
                       /\ ListedThen(g)' = ListedThen(g)
  BY <1>1, <1>2, <1>13 DEF ListedUnder, ListedThen, Listing
<1>15. Hit(old.cmd) = {g \in hits : ToSet(rest) \subseteq ListedThen(g)}
  BY <1>6, <1>7 DEF Hit
<1>16. Hit(thread[c].cmd)' = Hit(old.cmd)
  BY <1>13 DEF Hit, ListedThen
<1>17. Steady(thread[c])'
  <2>1. loop # "query" => Hit(old.cmd) = hits
    BY <1>4, <1>11, <1>15 DEF rest
  <2> QED
    BY <1>3, <1>11, <1>13, <1>16, <2>1 DEF Steady
<1>18. Searching(thread[c])'
  <2>1. /\ Len(new.query) <= Len(new.cmd.query)
        /\ new.query # new.cmd.query
        /\ \A t \in ToSet(new.query) : filesOf'[t] # Absent
    BY <1>8, <1>10, <1>13
  <2>2. \A g \in File : g \in Hit(old.cmd) <=>
            g \in new.found /\ ToSet(new.query) \subseteq ListedThen(g)'
    BY <1>7, <1>13, <1>14
  <2> QED
    BY <1>16, <2>1, <2>2 DEF Searching
<1>19. Replying(thread[c])'
  BY <1>12, <1>13 DEF Replying
<1>20. ASSUME NEW g \in File PROVE (Listing(thread[c], g) /\ Holding(thread[c], g))'
  <2>1. Listing(thread[c], g)'
    BY <1>11, <1>13, <1>14 DEF Listing
  <2>2. Holding(thread[c], g)'
    BY <1>3, <1>5, <1>13 DEF Holding, KeptContent
  <2> QED
    BY <2>1, <2>2
<1>21. new.pc \notin {"idle", "reply"}
  BY <1>11, <1>13
<1> QED
  BY <1>17, <1>18, <1>19, <1>20, <1>21 DEF Serving

-----------------------------------------------------------------------------
(* The arrival of a command *)

\* The table as it can be: what is listed has contents and a tag.
LEMMA TableType ==
    ASSUME Sound
    PROVE  Table \in [File -> Entry \cup {Absent}]
<1> SUFFICES ASSUME NEW f \in File, ListedUnder(f) # {}
             PROVE  files[f] \in Content /\ ListedUnder(f) \in Some(Tag)
  BY DEF Table, Entry
<1>1. PICK t \in Tag : f \in ListOf(filesOf[t])
  BY DEF ListedUnder
<1>2. files[f] # Absent
  BY <1>1 DEF Sound, Truthful, Index, Name
<1> QED
  BY <1>2 DEF Sound, TInv, TypeOK, ListedUnder, Some

\* The table and the DHTs.
LEMMA TableMeaning ==
    ASSUME Sound, NEW f \in File
    PROVE  /\ Table[f] = Absent <=> ListedUnder(f) = {}
           /\ Table[f] # Absent => Table[f].tags = ListedUnder(f) /\ Table[f].content = files[f]
<1>1. ASSUME ListedUnder(f) # {}
      PROVE  /\ Table[f] = [content |-> files[f], tags |-> ListedUnder(f)]
             /\ Table[f] \in [content : Content, tags : SUBSET Tag]
  <2>1. Table[f] \in Entry \cup {Absent}
    BY TableType
  <2>2. Table[f] = [content |-> files[f], tags |-> ListedUnder(f)]
    BY <1>1 DEF Table
  <2>3. files[f] \in Content
    <3>1. PICK t \in Tag : f \in ListOf(filesOf[t])
      BY <1>1 DEF ListedUnder
    <3>2. files[f] # Absent
      BY <3>1 DEF Sound, Truthful, Index, Name
    <3> QED
      BY <3>2 DEF Sound, TInv, TypeOK
  <2> QED
    BY <2>2, <2>3 DEF ListedUnder
<1>2. ListedUnder(f) = {} => Table[f] = Absent
  BY DEF Table
<1> QED
  BY <1>1, <1>2, SerialAssumption

LEMMA ReceiveServes ==
    ASSUME Sound, Orderly, NEW c \in Client, NEW m \in Command, Receive(c, m),
           before' = Table
    PROVE  Serves'
<1> DEFINE new == thread'[c]
<1>1. /\ \A d \in Client : thread[d].pc = "idle"
      /\ \A d \in Client \ {c} : thread'[d] = thread[d]
      /\ thread' = [thread EXCEPT ![c] = new]
      /\ files' = files /\ filesOf' = filesOf
  BY DEF Receive, Expected, Orderly, Sound, TInv, TypeOK
<1>2. \A f \in File : /\ ListedThen(f)' = ListedUnder(f) /\ ListedUnder(f)' = ListedUnder(f)
                      /\ KeptContent(f)'
  <2> SUFFICES ASSUME NEW f \in File
               PROVE  /\ ListedThen(f)' = ListedUnder(f) /\ ListedUnder(f)' = ListedUnder(f)
                      /\ KeptContent(f)'
    OBVIOUS
  <2>1. /\ Table[f] = Absent <=> ListedUnder(f) = {}
        /\ Table[f] # Absent => Table[f].tags = ListedUnder(f) /\ Table[f].content = files[f]
    BY TableMeaning
  <2>2. ListedUnder(f)' = ListedUnder(f)
    BY <1>1 DEF ListedUnder
  <2> HIDE DEF Table
  <2> QED
    BY <1>1, <2>1, <2>2 DEF ListedThen, KeptContent
<1>3. ASSUME m.op = "add" PROVE Serving(thread[c])'
  <2>1. /\ new.pc = "upload" /\ new.cmd = m /\ new.found = m.names /\ new.left = m.names
        /\ new.reply = NoReply
    BY <1>3 DEF Receive, Sound, TInv, TypeOK, Idle
  <2>2. \A f \in m.names : ListedUnder(f) \subseteq m.tags
    BY <1>3 DEF Receive, Expected, Orderly
  <2>3. m.names \subseteq File
    BY <1>3, CommandFields
  <2>4. Steady(thread[c])'
    BY <1>2, <1>3, <2>1, <2>2, <2>3 DEF Steady
  <2>5. Replying(thread[c])' /\ Searching(thread[c])'
    BY <2>1 DEF Replying, Searching, NoReply
  <2>6. ASSUME NEW f \in File PROVE (Listing(thread[c], f) /\ Holding(thread[c], f))'
    BY <1>2, <1>3, <2>1 DEF Listing, Holding
  <2> QED
    BY <2>1, <2>4, <2>5, <2>6 DEF Serving
<1>4. ASSUME m.op # "add" PROVE Serving(thread[c])'
  <2>1. /\ new.pc = "query" /\ new.cmd = m /\ new.found = {} /\ new.left = {}
        /\ new.reply = NoReply /\ new.query = m.query
    BY <1>4 DEF Receive, Sound, TInv, TypeOK, Idle
  <2>2. Steady(thread[c])'
    BY <1>4, <2>1 DEF Steady
  <2>3. Replying(thread[c])'
    BY <2>1 DEF Replying, NoReply
  <2>4. \A t \in ToSet(Tail(m.query)) : filesOf[t] # Absent
    <3>1. m.query \in Seq(Tag) /\ m.query # <<>>
      BY <1>4, CommandFields
    <3>2. ToSet(Tail(m.query)) = {m.query[i] : i \in 2 .. Len(m.query)}
      BY <3>1, QueryTags
    <3>3. \A i \in 2 .. Len(m.query) : filesOf[m.query[i]] # Absent
      BY <1>4 DEF Receive, Expected, Orderly
    <3> QED
      BY <3>2, <3>3
  <2>5. Searching(thread[c])'
    <3>1. Len(m.query) \in Nat
      BY <1>4, CommandFields, LenProperties
    <3>2. \A f \in File : f \in Hit(thread[c].cmd)' <=> ToSet(m.query) \subseteq ListedThen(f)'
      BY <2>1 DEF Hit
    <3> QED
      BY <1>1, <2>1, <2>4, <3>1, <3>2 DEF Searching
  <2>6. ASSUME NEW f \in File PROVE (Listing(thread[c], f) /\ Holding(thread[c], f))'
    BY <1>2, <1>4, <2>1 DEF Listing, Holding
  <2> QED
    BY <2>1, <2>2, <2>3, <2>5, <2>6 DEF Serving
<1>5. ASSUME NEW d \in Client \ {c} PROVE Serving(thread[d])'
  <2>1. Serving(thread[d]) /\ thread'[d] = thread[d] /\ thread[d].pc = "idle"
    BY <1>1 DEF Sound, Serves
  <2> QED
    BY <2>1 DEF Serving
<1>6. before' \in [File -> Entry \cup {Absent}]
  BY TableType
<1>7. (before \in [File -> Entry \cup {Absent}])'
  BY <1>6
<1> QED
  BY <1>3, <1>4, <1>5, <1>7 DEF Serves

-----------------------------------------------------------------------------
(* The promise *)

\* What ServesTable takes for the table, the commands and the responses.
Shown == IF Orderly /\ Quiet THEN Table ELSE before

Asked == [c \in Client |-> IF Orderly THEN thread[c].cmd ELSE None]

Answered == [c \in Client |->
                IF Orderly /\ thread[c].pc = "reply" THEN thread[c].reply ELSE None]

Promise == [Store!Next]_<<Shown, Asked, Answered>>

\* An arrival is when the command is asked.
LEMMA ReceiveAsks ==
    ASSUME Sound, Orderly, Orderly', NEW c \in Client, NEW m \in Command, Receive(c, m),
           before' = Table
    PROVE  Promise
<1>1. /\ \A d \in Client : thread[d].pc = "idle"
      /\ \A d \in Client \ {c} : thread'[d] = thread[d]
      /\ thread'[c].pc \in {"upload", "query"} /\ thread'[c].cmd = m
  BY DEF Receive, Expected, Orderly, Sound, TInv, TypeOK, Idle
<1>2. Quiet /\ ~Quiet'
  BY <1>1 DEF Quiet
<1>3. Shown' = Shown
  BY <1>2 DEF Shown
<1>4. \A d \in Client : thread[d].cmd = None
  BY <1>1 DEF Sound, Serves, Serving
<1>5. /\ Asked[c] = None /\ Asked'[c] = m /\ Asked' = [Asked EXCEPT ![c] = m]
      /\ Asked \in [Client -> Command \cup {None}]
  BY <1>1, <1>4 DEF Asked
<1>6. Answered' = Answered
  BY <1>1 DEF Answered
<1>7. Store!Ask(c)
  BY <1>3, <1>5, <1>6 DEF Store!Ask, Shown, Asked, Answered
<1> QED
  BY <1>7 DEF Promise, Store!Next

\* Until the response is ready nobody sees a difference.
LEMMA Unseen ==
    ASSUME Orderly, Orderly', NEW c \in Client, before' = before,
           thread[c].pc \notin {"idle", "reply"}, thread'[c].pc \notin {"idle", "reply"},
           thread'[c].cmd = thread[c].cmd,
           \A d \in Client \ {c} : thread'[d] = thread[d]
    PROVE  Promise
<1>1. ~Quiet /\ ~Quiet'
  BY DEF Quiet
<1>2. Shown' = Shown
  BY <1>1 DEF Shown
<1>3. Asked' = Asked
  BY DEF Asked
<1>4. Answered' = Answered
  BY DEF Answered
<1> QED
  BY <1>2, <1>3, <1>4 DEF Promise

\* When a response is sent, the table is what it was.
LEMMA RespondSeen ==
    ASSUME Sound, Orderly, Orderly', NEW c \in Client, Respond(c), before' = before
    PROVE  Serves' /\ Promise
<1>1. /\ thread[c].pc = "reply" /\ thread[c] \in Thread
      /\ \A d \in Client \ {c} : thread'[d] = thread[d] /\ thread[d].pc = "idle"
      /\ thread'[c] = Idle
      /\ files' = files /\ filesOf' = filesOf
  BY MoverState DEF Respond, Sound, TInv, TypeOK
<1> thread'[c].pc = "idle" /\ thread'[c].cmd = None
  BY <1>1 DEF Idle
<1>2. Serving(thread[c])'
  BY DEF Serving
<1>3. Serves'
  BY <1>1, <1>2, ServesChange DEF Sound
<1>4. Quiet /\ Quiet' /\ Table' = Table
  BY <1>1 DEF Quiet, Table, ListedUnder
<1>5. Shown' = Shown
  BY <1>4 DEF Shown
<1>6. Asked' = [Asked EXCEPT ![c] = None]
  BY <1>1 DEF Asked
<1>7. /\ Answered' = [Answered EXCEPT ![c] = None]
      /\ Answered[c] # None
  <2>1. thread[c].reply # None
    BY <1>1, SerialAssumption DEF Thread
  <2> QED
    BY <1>1, <2>1 DEF Answered
<1>8. Store!Respond(c)
  BY <1>5, <1>6, <1>7 DEF Store!Respond, Shown, Asked, Answered
<1>9. Promise
  BY <1>8 DEF Promise, Store!Next
<1> QED
  BY <1>3, <1>9

-----------------------------------------------------------------------------
(* The steps at which a command takes effect *)

\* The last loop of a command is over: its response is ready, and the table is seen
\* as it has made it.
Ends(c) ==
    /\ thread[c].pc \notin {"idle", "reply"}
    /\ thread' = [thread EXCEPT ![c].pc = "reply"]
    /\ UNCHANGED <<files, tagsOf, filesOf, use, before>>

LEMMA EndServes ==
    ASSUME Sound, Orderly, NEW c \in Client, Ends(c)
    PROVE  Serves'
<1>1. /\ thread'[c].pc = "reply"
      /\ \A d \in Client \ {c} : thread'[d] = thread[d] /\ thread[d].pc = "idle"
  BY Server DEF Ends, Sound, TInv, TypeOK, Thread
<1>2. Serving(thread[c])'
  BY <1>1 DEF Serving
<1> QED
  BY <1>1, <1>2, ServesChange DEF Ends, Sound

LEMMA EndSeen ==
    ASSUME Sound, Orderly, Orderly', NEW c \in Client, Ends(c)
    PROVE  /\ Shown = before /\ Shown' = Table
           /\ Asked[c] = thread[c].cmd /\ Asked[c] # None /\ Asked' = Asked
           /\ Answered[c] = None
           /\ Answered' = [Answered EXCEPT ![c] = thread[c].reply]
<1>1. /\ thread[c].pc \notin {"idle", "reply"} /\ thread[c] \in Thread
      /\ thread'[c].pc = "reply" /\ thread'[c].cmd = thread[c].cmd
      /\ thread'[c].reply = thread[c].reply
      /\ thread[c].cmd \in Command
      /\ \A d \in Client \ {c} : thread'[d] = thread[d] /\ thread[d].pc = "idle"
      /\ files' = files /\ filesOf' = filesOf
  BY Server DEF Ends, Sound, TInv, TypeOK, Thread
<1>2. ~Quiet /\ Quiet'
  BY <1>1 DEF Quiet
<1>3. Table' = Table
  BY <1>1 DEF Table, ListedUnder
<1>4. Shown = before /\ Shown' = Table
  BY <1>2, <1>3 DEF Shown
<1>5. Asked[c] = thread[c].cmd /\ Asked[c] # None /\ Asked' = Asked
  BY <1>1, SerialAssumption DEF Asked
<1>6. Answered[c] = None /\ Answered' = [Answered EXCEPT ![c] = thread[c].reply]
  BY <1>1 DEF Answered
<1> QED
  BY <1>4, <1>5, <1>6

\* What has kept its contents and its tags is in the table as it was.
LEMMA TableKept ==
    ASSUME Serves, NEW f \in File, ListedUnder(f) = ListedThen(f), KeptContent(f)
    PROVE  Table[f] = before[f]
<1>1. CASE before[f] = Absent
  BY <1>1 DEF Table, ListedThen
<1>2. CASE before[f] # Absent
  <2>1. before[f] \in Entry
    BY <1>2 DEF Serves
  <2>2. ListedUnder(f) = before[f].tags /\ files[f] = before[f].content
    BY <1>2 DEF ListedThen, KeptContent
  <2>3. before[f] = [content |-> before[f].content, tags |-> before[f].tags]
        /\ before[f].tags # {}
    BY <2>1 DEF Entry, Some
  <2> QED
    BY <2>2, <2>3 DEF Table
<1> QED
  BY <1>1, <1>2

\* The files the table has for a query are those the command was to find.
LEMMA MatchingHit ==
    ASSUME NEW m \in Command, m.op # "add", Shown = before
    PROVE  Store!Matching(m) = Hit(m)
<1>1. Store!Matching(m) = {f \in File : before[f] # Absent /\ ToSet(m.query) \subseteq before[f].tags}
  <2>1. ASSUME NEW f
        PROVE  f \in Store!Matching(m)
               <=> f \in File /\ Shown[f] # Absent /\ ToSet(m.query) \subseteq Shown[f].tags
    BY DEF Store!Matching, Shown, Store!ToSet, ToSet
  <2> QED
    BY <2>1
<1>2. \A f \in Hit(m) : before[f] # Absent
  BY HitListed
<1> QED
  BY <1>1, <1>2 DEF Hit, ListedThen

LEMMA ListAnswered ==
    ASSUME Sound, Orderly, Orderly', NEW c \in Client, Ends(c), thread[c].pc = "list",
           thread[c].left = {}
    PROVE  Promise
<1> DEFINE me == thread[c]
<1>1. /\ Steady(me) /\ Replying(me) /\ me.cmd \in Command
      /\ \A f \in File : Listing(me, f) /\ Holding(me, f)
  BY Server
<1>2. me.cmd.op = "list" /\ me.found = Hit(me.cmd)
  BY <1>1 DEF Steady
<1>3. /\ Shown = before /\ Shown' = Table
      /\ Asked[c] = me.cmd /\ Asked[c] # None /\ Asked' = Asked
      /\ Answered[c] = None /\ Answered' = [Answered EXCEPT ![c] = me.reply]
  BY EndSeen
<1>4. Table = before
  <2>1. \A f \in File : Table[f] = before[f]
    BY <1>1, <1>2, TableKept DEF Sound, Listing, Holding
  <2>2. before \in [File -> Entry \cup {Absent}] /\ Table \in [File -> Entry \cup {Absent}]
    BY TableType DEF Sound, Serves
  <2> QED
    BY <2>1, <2>2
<1>5. me.reply = [f \in File |->
                     IF f \in Store!Matching(me.cmd) THEN before[f].tags ELSE None]
  <2>1. me.reply = [f \in File |-> IF f \notin Hit(me.cmd) THEN None ELSE ListedThen(f)]
    BY <1>1, <1>2 DEF Replying
  <2>2. \A f \in Hit(me.cmd) : ListedThen(f) = before[f].tags
    BY <1>1, <1>2, HitListed DEF ListedThen
  <2>3. Store!Matching(me.cmd) = Hit(me.cmd)
    BY <1>1, <1>2, <1>3, MatchingHit
  <2> QED
    BY <2>1, <2>2, <2>3
<1>6. Store!List(c)
  <2>1. Store!Waiting(c, "list")
    BY <1>2, <1>3 DEF Store!Waiting, Asked, Answered
  <2>2. Answered' = [Answered EXCEPT ![c] =
            [f \in File |-> IF f \in Store!Matching(Asked[c]) THEN Shown[f].tags ELSE None]]
    BY <1>3, <1>5
  <2>3. Shown' = Shown
    BY <1>3, <1>4
  <2> QED
    BY <2>1, <2>2, <2>3 DEF Store!List, Shown, Asked, Answered
<1> QED
  BY <1>6 DEF Promise, Store!Next

LEMMA GetAnswered ==
    ASSUME Sound, Orderly, Orderly', NEW c \in Client, Ends(c), thread[c].pc = "fetch",
           thread[c].left = {}
    PROVE  Promise
<1> DEFINE me == thread[c]
<1>1. /\ Steady(me) /\ Replying(me) /\ me.cmd \in Command
      /\ \A f \in File : Listing(me, f) /\ Holding(me, f)
  BY Server
<1>2. me.cmd.op = "get" /\ me.found = Hit(me.cmd)
  BY <1>1 DEF Steady
<1>3. /\ Shown = before /\ Shown' = Table
      /\ Asked[c] = me.cmd /\ Asked[c] # None /\ Asked' = Asked
      /\ Answered[c] = None /\ Answered' = [Answered EXCEPT ![c] = me.reply]
  BY EndSeen
<1>4. Table = before
  <2>1. \A f \in File : Table[f] = before[f]
    BY <1>1, <1>2, TableKept DEF Sound, Listing, Holding
  <2>2. before \in [File -> Entry \cup {Absent}] /\ Table \in [File -> Entry \cup {Absent}]
    BY TableType DEF Sound, Serves
  <2> QED
    BY <2>1, <2>2
<1>5. me.reply = [f \in File |->
                     IF f \in Store!Matching(me.cmd) THEN before[f].content ELSE None]
  <2>1. me.reply = [f \in File |-> IF f \notin Hit(me.cmd) THEN None ELSE before[f].content]
    BY <1>1, <1>2 DEF Replying
  <2>2. Store!Matching(me.cmd) = Hit(me.cmd)
    BY <1>1, <1>2, <1>3, MatchingHit
  <2> QED
    BY <2>1, <2>2
<1>6. Store!Get(c)
  <2>1. Store!Waiting(c, "get")
    BY <1>2, <1>3 DEF Store!Waiting, Asked, Answered
  <2>2. Answered' = [Answered EXCEPT ![c] =
            [f \in File |-> IF f \in Store!Matching(Asked[c]) THEN Shown[f].content ELSE None]]
    BY <1>3, <1>5
  <2>3. Shown' = Shown
    BY <1>3, <1>4
  <2> QED
    BY <2>1, <2>2, <2>3 DEF Store!Get, Shown, Asked, Answered
<1> QED
  BY <1>6 DEF Promise, Store!Next

\* A command that writes answers with its success alone.
LEMMA WriterReply ==
    ASSUME NEW me, Replying(me), me.pc \in Writing
    PROVE  me.reply = [f \in File |-> None]
<1>1. me.pc \notin {"list", "fetch"}
  BY DEF Writing
<1> QED
  BY <1>1 DEF Replying

LEMMA DeleteAnswered ==
    ASSUME Sound, Orderly, Orderly', NEW c \in Client, Ends(c), thread[c].pc = "delete",
           thread[c].left = {}
    PROVE  Promise
<1> DEFINE me == thread[c]
<1>1. /\ Steady(me) /\ Replying(me) /\ me.cmd \in Command /\ ThreadOK(me)
      /\ \A f \in File : Listing(me, f) /\ Holding(me, f)
  BY Server
<1>2. me.cmd.op = "delete" /\ me.found = Hit(me.cmd) /\ me.file = None
  BY <1>1 DEF Steady, ThreadOK
<1>3. /\ Shown = before /\ Shown' = Table
      /\ Asked[c] = me.cmd /\ Asked[c] # None /\ Asked' = Asked
      /\ Answered[c] = None /\ Answered' = [Answered EXCEPT ![c] = me.reply]
  BY EndSeen
<1>4. Table = [f \in File |-> IF f \in Hit(me.cmd) THEN Absent ELSE before[f]]
  <2>1. ASSUME NEW f \in Hit(me.cmd) PROVE Table[f] = Absent
    <3>1. f \in File /\ f # None
      BY DEF Hit, Name
    <3>2. ListedUnder(f) = {}
      BY <1>1, <1>2, <3>1 DEF Listing
    <3> QED
      BY <3>1, <3>2 DEF Table
  <2>2. ASSUME NEW f \in File \ Hit(me.cmd) PROVE Table[f] = before[f]
    BY <1>1, <1>2, TableKept DEF Sound, Listing, Holding
  <2>3. Table \in [File -> Entry \cup {Absent}]
    BY TableType
  <2> QED
    BY <2>1, <2>2, <2>3
<1>5. Store!Matching(me.cmd) = Hit(me.cmd)
  BY <1>1, <1>2, <1>3, MatchingHit
<1>6. Store!Delete(c)
  <2>1. Store!Waiting(c, "delete")
    BY <1>2, <1>3 DEF Store!Waiting, Asked, Answered
  <2>2. Shown' = [f \in File |-> IF f \in Store!Matching(Asked[c]) THEN Absent ELSE Shown[f]]
    BY <1>3, <1>4, <1>5
  <2>3. Answered' = [Answered EXCEPT ![c] = Store!NoReply]
    BY <1>1, <1>3, WriterReply DEF Writing, Store!NoReply
  <2> QED
    BY <2>1, <2>2, <2>3 DEF Store!Delete, Shown, Asked, Answered
<1> QED
  BY <1>6 DEF Promise, Store!Next

\* An add has tags.
LEMMA AddHasTags == \A m \in Command : m.op = "add" => m.tags # {}
<1> SUFFICES ASSUME NEW m \in Command, m.op = "add" PROVE m.tags # {}
  OBVIOUS
<1>1. CASE m \in [op : {"list", "delete", "get"}, query : Query]
  BY <1>1
<1>2. CASE m \in [op : {"add-tags", "delete-tags"}, query : Query, tags : Some(Tag)]
  BY <1>2
<1>3. CASE \E S \in Some(File) :
              m \in [op : {"add"}, names : {S}, contents : [S -> Content], tags : Some(Tag)]
  BY <1>3 DEF Some
<1> QED
  BY <1>1, <1>2, <1>3 DEF Command

LEMMA AddAnswered ==
    ASSUME Sound, Orderly, Orderly', NEW c \in Client, Ends(c), thread[c].pc = "index",
           thread[c].tag = None, thread[c].tags = {}, thread[c].cmd.op = "add"
    PROVE  Promise
<1> DEFINE me == thread[c]
           m == me.cmd
<1>1. /\ Steady(me) /\ Replying(me) /\ m \in Command
      /\ \A f \in File : Listing(me, f) /\ Holding(me, f)
  BY Server
<1>2. /\ m.names \in SUBSET File /\ m.tags \in SUBSET Tag /\ m.tags # {}
      /\ me.found = m.names /\ me.left = {}
  BY <1>1, CommandFields, AddHasTags DEF Steady
<1>3. /\ Shown = before /\ Shown' = Table
      /\ Asked[c] = m /\ Asked[c] # None /\ Asked' = Asked
      /\ Answered[c] = None /\ Answered' = [Answered EXCEPT ![c] = me.reply]
  BY EndSeen
<1>4. Table = [f \in File |-> IF f \in m.names THEN [content |-> m.contents[f], tags |-> m.tags]
                                              ELSE before[f]]
  <2>1. ASSUME NEW f \in m.names PROVE Table[f] = [content |-> m.contents[f], tags |-> m.tags]
    <3>1. Listing(me, f) /\ Holding(me, f) /\ f \in File /\ ListedThen(f) \subseteq m.tags
      BY <1>1, <1>2 DEF Steady
    <3>2. None \notin m.tags
      BY <1>2 DEF Name
    <3>3. ListedUnder(f) = m.tags
      BY <1>2, <3>1, <3>2 DEF Listing
    <3>4. files[f] = m.contents[f]
      BY <1>2, <3>1 DEF Holding
    <3> QED
      BY <1>2, <3>1, <3>3, <3>4 DEF Table
  <2>2. ASSUME NEW f \in File \ m.names PROVE Table[f] = before[f]
    BY <1>1, <1>2, TableKept DEF Sound, Listing, Holding
  <2>3. Table \in [File -> Entry \cup {Absent}]
    BY TableType
  <2> QED
    BY <1>2, <2>1, <2>2, <2>3
<1>5. Store!Add(c)
  <2>1. Store!Waiting(c, "add")
    BY <1>3 DEF Store!Waiting, Asked, Answered
  <2>2. Shown' = [f \in File |->
                     IF f \in Asked[c].names
                     THEN [content |-> Asked[c].contents[f], tags |-> Asked[c].tags]
                     ELSE Shown[f]]
    BY <1>3, <1>4
  <2>3. Answered' = [Answered EXCEPT ![c] = Store!NoReply]
    BY <1>1, <1>3, WriterReply DEF Writing, Store!NoReply
  <2> QED
    BY <2>1, <2>2, <2>3 DEF Store!Add, Shown, Asked, Answered
<1> QED
  BY <1>5 DEF Promise, Store!Next

LEMMA AddTagsAnswered ==
    ASSUME Sound, Orderly, Orderly', NEW c \in Client, Ends(c), thread[c].pc = "index",
           thread[c].tag = None, thread[c].tags = {}, thread[c].cmd.op = "add-tags"
    PROVE  Promise
<1> DEFINE me == thread[c]
           m == me.cmd
<1>1. /\ Steady(me) /\ Replying(me) /\ m \in Command
      /\ \A f \in File : Listing(me, f) /\ Holding(me, f)
  BY Server
<1>2. m.tags \in SUBSET Tag /\ me.found = Hit(m)
  BY <1>1, CommandFields DEF Steady
<1>3. /\ Shown = before /\ Shown' = Table
      /\ Asked[c] = m /\ Asked[c] # None /\ Asked' = Asked
      /\ Answered[c] = None /\ Answered' = [Answered EXCEPT ![c] = me.reply]
  BY EndSeen
<1>4. Table = [f \in File |-> IF f \in Hit(m) THEN [before[f] EXCEPT !.tags = @ \cup m.tags]
                                             ELSE before[f]]
  <2>1. ASSUME NEW f \in Hit(m) PROVE Table[f] = [before[f] EXCEPT !.tags = @ \cup m.tags]
    <3>1. Listing(me, f) /\ Holding(me, f) /\ f \in File
      BY <1>1 DEF Hit
    <3>2. before[f] # Absent /\ before[f] \in Entry /\ ListedThen(f) = before[f].tags
      BY <1>1, <3>1, HitListed DEF Sound, Serves, ListedThen
    <3>3. None \notin m.tags
      BY <1>2 DEF Name
    <3>4. ListedUnder(f) = before[f].tags \cup m.tags
      BY <1>2, <3>1, <3>2, <3>3 DEF Listing
    <3>5. files[f] = before[f].content
      BY <3>1, <3>2 DEF Holding, KeptContent
    <3>6. ListedUnder(f) # {}
      BY <3>2, <3>4 DEF Entry, Some
    <3>7. Table[f] = [content |-> before[f].content, tags |-> before[f].tags \cup m.tags]
      BY <3>1, <3>4, <3>5, <3>6 DEF Table
    <3>8. ASSUME NEW e \in Entry, NEW S
          PROVE  [e EXCEPT !.tags = @ \cup S] = [content |-> e.content, tags |-> e.tags \cup S]
      BY DEF Entry
    <3> QED
      BY <3>2, <3>7, <3>8
  <2>2. ASSUME NEW f \in File \ Hit(m) PROVE Table[f] = before[f]
    BY <1>1, <1>2, TableKept DEF Sound, Listing, Holding
  <2>3. Table \in [File -> Entry \cup {Absent}]
    BY TableType
  <2> QED
    BY <2>1, <2>2, <2>3 DEF Hit
<1>5. Store!Matching(m) = Hit(m)
  BY <1>1, <1>3, MatchingHit
<1>6. Store!AddTags(c)
  <2>1. Store!Waiting(c, "add-tags")
    BY <1>3 DEF Store!Waiting, Asked, Answered
  <2>2. Shown' = [f \in File |->
                     IF f \in Store!Matching(Asked[c])
                     THEN [Shown[f] EXCEPT !.tags = @ \cup Asked[c].tags]
                     ELSE Shown[f]]
    BY <1>3, <1>4, <1>5
  <2>3. Answered' = [Answered EXCEPT ![c] = Store!NoReply]
    BY <1>1, <1>3, WriterReply DEF Writing, Store!NoReply
  <2> QED
    BY <2>1, <2>2, <2>3 DEF Store!AddTags, Shown, Asked, Answered
<1> QED
  BY <1>6 DEF Promise, Store!Next

-----------------------------------------------------------------------------
(* The refinement *)

\* The steps within a command keep the invariant, and nobody sees them.
LEMMA InnerStep ==
    ASSUME Sound, Orderly, Orderly', NEW c \in Client, before' = before,
           thread[c].pc \notin {"idle", "reply"},
           \/ Search(c) \/ PutTags(c) \/ WriteTags(c) \/ WriteFiles(c)
           \/ Unlist(c) \/ DeleteContents(c) \/ DeleteTagList(c)
           \/ EndFiles(c) /\ thread[c].pc \in {"upload", "retag"}
           \/ \E f \in File :
                 PutContents(c, f) \/ ReadTags(c, f) \/ ReadTagsToDelete(c, f) \/ ReadOne(c, f)
           \/ \E t \in Tag : ReadFiles(c, t)
    PROVE  Serves' /\ Promise
<1>1. Serving(thread[c])'
  BY SearchServes, PutTagsServes, RetagServes, WriteFilesServes, UnlistServes,
     DeleteContentsServes, DeleteTagListServes, EndFilesServes, PutContentsServes,
     ReadTagsToDeleteServes, ReadOneServes, ReadFilesServes
<1>2. \A d \in Client \ {c} : thread'[d] = thread[d] /\ thread[d].pc = "idle"
  <2>1. thread \in [Client -> Thread]
    BY DEF Sound, TInv, TypeOK
  <2>2. \A d \in Client \ {c} : thread'[d] = thread[d]
    <3>1. CASE Search(c) \/ PutTags(c) \/ WriteTags(c) \/ WriteFiles(c)
      BY <2>1, <3>1 DEF Search, PutTags, WriteTags, WriteFiles
    <3>2. CASE Unlist(c) \/ DeleteContents(c) \/ DeleteTagList(c)
      BY <2>1, <3>2 DEF Unlist, DeleteContents, DeleteTagList
    <3>3. CASE EndFiles(c) /\ thread[c].pc \in {"upload", "retag"}
      BY <2>1, <3>3 DEF EndFiles
    <3>4. ASSUME NEW f \in File,
                 PutContents(c, f) \/ ReadTags(c, f) \/ ReadTagsToDelete(c, f) \/ ReadOne(c, f)
          PROVE  \A d \in Client \ {c} : thread'[d] = thread[d]
      BY <2>1, <3>4 DEF PutContents, ReadTags, ReadTagsToDelete, ReadOne
    <3>5. ASSUME NEW t \in Tag, ReadFiles(c, t)
          PROVE  \A d \in Client \ {c} : thread'[d] = thread[d]
      BY <2>1, <3>5 DEF ReadFiles
    <3> QED
      BY <3>1, <3>2, <3>3, <3>4, <3>5
  <2> QED
    BY <2>2, Server
<1>3. thread'[c].pc \notin {"idle", "reply"} /\ thread'[c].cmd = thread[c].cmd
  <2>1. /\ thread \in [Client -> Thread] /\ thread[c] \in Thread /\ ThreadOK(thread[c])
        /\ thread[c].cmd \in Command /\ thread[c].cmd.op # "delete-tags"
    BY Server DEF Sound, TInv, TypeOK
  <2>2. CASE Search(c)
    <3>1. thread[c].cmd.op \in Op \ {"add", "delete-tags"}
      BY <2>1, <2>2, CommandFields DEF ThreadOK, Search
    <3>2. LoopOf(thread[c].cmd.op) \in {"list", "fetch", "delete", "retag"}
      BY <3>1 DEF LoopOf, Op
    <3> QED
      BY <2>1, <2>2, <3>2 DEF Search, Thread
  <2>3. CASE PutTags(c) \/ WriteTags(c) \/ WriteFiles(c)
    BY <2>1, <2>3 DEF PutTags, WriteTags, WriteFiles, Thread
  <2>4. CASE Unlist(c) \/ DeleteContents(c) \/ DeleteTagList(c)
    BY <2>1, <2>4 DEF Unlist, DeleteContents, DeleteTagList, Thread
  <2>5. CASE EndFiles(c) /\ thread[c].pc \in {"upload", "retag"}
    BY <2>1, <2>5 DEF EndFiles, Thread
  <2>6. ASSUME NEW f \in File,
               PutContents(c, f) \/ ReadTags(c, f) \/ ReadTagsToDelete(c, f) \/ ReadOne(c, f)
        PROVE  thread'[c].pc \notin {"idle", "reply"} /\ thread'[c].cmd = thread[c].cmd
    <3>1. CASE PutContents(c, f)
      BY <2>1, <3>1 DEF PutContents, Thread
    <3>2. CASE ReadTags(c, f)
      BY <2>1, <3>2 DEF ReadTags, Thread
    <3>3. CASE ReadTagsToDelete(c, f)
      BY <2>1, <3>3 DEF ReadTagsToDelete, Thread
    <3>4. CASE ReadOne(c, f)
      BY <2>1, <3>4 DEF ReadOne, Thread
    <3> QED
      BY <2>6, <3>1, <3>2, <3>3, <3>4
  <2>7. ASSUME NEW t \in Tag, ReadFiles(c, t)
        PROVE  thread'[c].pc \notin {"idle", "reply"} /\ thread'[c].cmd = thread[c].cmd
    BY <2>1, <2>7 DEF ReadFiles, Thread
  <2> QED
    BY <2>2, <2>3, <2>4, <2>5, <2>6, <2>7
<1>4. Serves'
  BY <1>1, <1>2, ServesChange DEF Sound
<1>5. Promise
  BY <1>2, <1>3, Unseen
<1> QED
  BY <1>4, <1>5

\* The last steps of the loops do the whole command at once.
LEMMA LastStep ==
    ASSUME Sound, Orderly, Orderly', NEW c \in Client, before' = before,
           EndTags(c) \/ (EndFiles(c) /\ thread[c].pc \notin {"upload", "retag"})
    PROVE  Serves' /\ Promise
<1>1. Ends(c)
  BY DEF EndTags, EndFiles, Ends
<1>2. Serves'
  BY <1>1, EndServes
<1>3. ThreadOK(thread[c]) /\ thread[c].cmd.op # "delete-tags"
  BY <1>1, Server DEF Ends
<1>4. CASE EndTags(c)
  <2>1. /\ thread[c].pc = "index" /\ thread[c].tag = None /\ thread[c].tags = {}
        /\ thread[c].cmd.op \in {"add", "add-tags"}
    BY <1>3, <1>4 DEF EndTags, ThreadOK
  <2> QED
    BY <1>1, <1>2, <2>1, AddAnswered, AddTagsAnswered
<1>5. CASE EndFiles(c) /\ thread[c].pc \notin {"upload", "retag"}
  <2>1. thread[c].pc \in {"delete", "list", "fetch"} /\ thread[c].left = {}
    BY <1>5 DEF EndFiles
  <2> QED
    BY <1>1, <1>2, <2>1, DeleteAnswered, ListAnswered, GetAnswered
<1> QED
  BY <1>4, <1>5

\* The uses ServesTable is about are careful ones, of one client at a time.
LEMMA OrderlyUses == Orderly => Careful /\ Lone
  BY DEF Orderly, Careful, Lone

LEMMA ThreadServes ==
    ASSUME Sound, Orderly, Orderly', NEW c \in Client, ThreadStep(c), before' = before
    PROVE  Serves' /\ Promise
<1>1. CASE Respond(c)
  BY <1>1, RespondSeen
<1>2. CASE EndTags(c) \/ (EndFiles(c) /\ thread[c].pc \notin {"upload", "retag"})
  BY <1>2, LastStep
<1>3. ~UploadBroken(c) /\ ~ReadPastEnd(c) /\ \A key \in Name : ~WriteUnderFile(c, key)
  <2>1. ASSUME thread[c].pc = "index" PROVE thread[c].cmd.op # "delete-tags"
    BY <2>1 DEF Sound, TInv, ThreadOK, Orderly
  <2> QED
    BY <2>1 DEF UploadBroken, ReadPastEnd, WriteUnderFile, Orderly
<1>4. CASE \/ Search(c) \/ PutTags(c) \/ WriteTags(c) \/ WriteFiles(c)
           \/ Unlist(c) \/ DeleteContents(c) \/ DeleteTagList(c)
  <2>1. thread[c].pc \notin {"idle", "reply"}
    BY <1>4 DEF Search, PutTags, WriteTags, WriteFiles, Unlist, DeleteContents, DeleteTagList
  <2> QED
    BY <1>4, <2>1, InnerStep
<1>5. CASE EndFiles(c)
  <2>1. CASE thread[c].pc \in {"upload", "retag"}
    <3>1. thread[c].pc \notin {"idle", "reply"}
      BY <2>1
    <3> QED
      BY <1>5, <2>1, <3>1, InnerStep
  <2> QED
    BY <1>2, <1>5, <2>1
<1>6. ASSUME NEW f \in File,
             PutContents(c, f) \/ ReadTags(c, f) \/ ReadTagsToDelete(c, f) \/ ReadOne(c, f)
      PROVE  Serves' /\ Promise
  <2>1. thread[c].pc \notin {"idle", "reply"}
    BY <1>6 DEF PutContents, ReadTags, ReadTagsToDelete, ReadOne
  <2> QED
    BY <1>6, <2>1, InnerStep
<1>7. ASSUME NEW t \in Tag, ReadFiles(c, t)
      PROVE  Serves' /\ Promise
  <2>1. thread[c].pc \notin {"idle", "reply"}
    BY <1>7 DEF ReadFiles
  <2> QED
    BY <1>7, <2>1, InnerStep
<1> QED
  BY <1>1, <1>2, <1>3, <1>4, <1>5, <1>6, <1>7 DEF ThreadStep

\* Under other uses the table stands for nothing, and does not change.
LEMMA DisorderUnseen ==
    ASSUME ~Orderly, ~Orderly', before' = before
    PROVE  Promise
<1>1. Shown' = Shown
  BY DEF Shown
<1>2. Asked' = Asked /\ Answered' = Answered
  BY DEF Asked, Answered
<1> QED
  BY <1>1, <1>2 DEF Promise

\* A thread moves alone.
LEMMA OthersRest ==
    ASSUME Orderly, Sound, NEW c \in Client, ThreadStep(c)
    PROVE  \A d \in Client \ {c} : thread'[d] = thread[d]
<1>1. thread \in [Client -> Thread]
  BY DEF Sound, TInv, TypeOK
<1>2. ~ReadPastEnd(c)
  <2>1. ASSUME thread[c].pc = "index" PROVE thread[c].cmd.op # "delete-tags"
    BY <2>1 DEF Sound, TInv, ThreadOK, Orderly
  <2> QED
    BY <2>1 DEF ReadPastEnd
<1>3. CASE Search(c) \/ PutTags(c) \/ UploadBroken(c) \/ WriteTags(c) \/ WriteFiles(c)
  BY <1>1, <1>3 DEF Search, PutTags, UploadBroken, WriteTags, WriteFiles
<1>4. CASE Unlist(c) \/ DeleteContents(c) \/ DeleteTagList(c)
  BY <1>1, <1>4 DEF Unlist, DeleteContents, DeleteTagList
<1>5. CASE EndFiles(c) \/ EndTags(c) \/ Respond(c)
  BY <1>1, <1>5 DEF EndFiles, EndTags, Respond
<1>6. ASSUME NEW f \in File,
             PutContents(c, f) \/ ReadTags(c, f) \/ ReadTagsToDelete(c, f) \/ ReadOne(c, f)
      PROVE  \A d \in Client \ {c} : thread'[d] = thread[d]
  BY <1>1, <1>6 DEF PutContents, ReadTags, ReadTagsToDelete, ReadOne
<1>7. ASSUME NEW t \in Tag, ReadFiles(c, t)
      PROVE  \A d \in Client \ {c} : thread'[d] = thread[d]
  BY <1>1, <1>7 DEF ReadFiles
<1>8. ASSUME NEW key \in Name, WriteUnderFile(c, key)
      PROVE  \A d \in Client \ {c} : thread'[d] = thread[d]
  BY <1>1, <1>8 DEF WriteUnderFile
<1> QED
  BY <1>2, <1>3, <1>4, <1>5, <1>6, <1>7, <1>8 DEF ThreadStep

LEMMA PromiseStep ==
    ASSUME Orderly => Sound, [SerialNext]_<<vars, before>>
    PROVE  (Orderly => Serves)' /\ Promise
<1>1. Orderly' = Orderly
  <2>1. [Next]_vars
    BY DEF SerialNext
  <2> QED
    BY <2>1, UseFixed DEF Orderly
<1>2. CASE UNCHANGED <<vars, before>>
  <2>1. UNCHANGED <<files, tagsOf, filesOf, thread, use, before>>
    BY <1>2 DEF vars
  <2>2. Shown' = Shown /\ Asked' = Asked /\ Answered' = Answered
    BY <1>1, <2>1 DEF Shown, Asked, Answered, Quiet, Table, ListedUnder
  <2>3. (Orderly => Serves)'
    <3> SUFFICES ASSUME Serves PROVE Serves'
      BY <1>1 DEF Sound
    <3>1. ASSUME NEW c \in Client PROVE Serving(thread[c])'
      <4>1. Serving(thread[c])
        BY DEF Serves
      <4>2. Steady(thread[c])' = Steady(thread[c])
        BY <2>1 DEF Steady, Hit, ListedThen
      <4>3. Searching(thread[c])' = Searching(thread[c])
        BY <2>1 DEF Searching, Hit, ListedThen
      <4>4. Replying(thread[c])' = Replying(thread[c])
        BY <2>1 DEF Replying, ListedThen
      <4>5. \A f \in File : Listing(thread[c], f)' = Listing(thread[c], f)
        BY <2>1 DEF Listing, ListedThen, ListedUnder
      <4>6. \A f \in File : Holding(thread[c], f)' = Holding(thread[c], f)
        BY <2>1 DEF Holding, KeptContent
      <4> QED
        BY <2>1, <4>1, <4>2, <4>3, <4>4, <4>5, <4>6 DEF Serving
    <3> QED
      BY <2>1, <3>1 DEF Serves
  <2> QED
    BY <2>2, <2>3 DEF Promise
<1>3. CASE SerialNext /\ ~Orderly
  <2>1. before' = before
    BY <1>3 DEF SerialNext
  <2> QED
    BY <1>1, <1>3, <2>1, DisorderUnseen
<1>4. CASE SerialNext /\ Orderly
  <2>1. Sound /\ Orderly /\ Orderly' /\ Next /\ thread \in [Client -> Thread]
        /\ before' = IF Arrival THEN Table ELSE before
    BY <1>1, <1>4 DEF SerialNext, Sound, TInv, TypeOK
  <2>2. ASSUME NEW c \in Client, NEW m \in Command, Receive(c, m)
        PROVE  Serves' /\ Promise
    <3>1. Arrival
      <4>1. thread[c].pc = "idle" /\ thread'[c].pc # "idle"
        BY <2>1, <2>2 DEF Receive, Idle
      <4> QED
        BY <4>1 DEF Arrival
    <3>2. before' = Table
      BY <2>1, <3>1
    <3> QED
      BY <2>1, <2>2, <3>2, ReceiveServes, ReceiveAsks
  <2>3. ASSUME NEW c \in Client, ThreadStep(c)
        PROVE  Serves' /\ Promise
    <3>1. ~Arrival
      <4>1. thread[c].pc # "idle"
        BY <2>3 DEF ThreadStep, Search, PutTags, UploadBroken, WriteTags, WriteFiles, Unlist,
           DeleteContents, DeleteTagList, PutContents, ReadTags, ReadTagsToDelete, ReadOne,
           ReadFiles, WriteUnderFile, ReadPastEnd, EndFiles, EndTags, Respond
      <4>2. \A d \in Client \ {c} : thread'[d].pc = thread[d].pc
        BY <2>1, <2>3, <4>1, OthersRest
      <4> QED
        BY <4>1, <4>2 DEF Arrival
    <3>2. before' = before
      BY <2>1, <3>1
    <3> QED
      BY <2>1, <2>3, <3>2, ThreadServes
  <2>4. ~Crash
    BY <2>1 DEF Crash, Orderly
  <2>5. Serves' /\ Promise
    BY <2>1, <2>2, <2>3, <2>4 DEF Next
  <2> QED
    BY <2>5
<1> QED
  BY <1>2, <1>3, <1>4

\* Every command has exactly its effect on the table of files, contents and tags, at
\* one instant between its arrival and its response, whatever the sets of clients,
\* files, tags and contents: with one client at a time, adds that drop no tag, queries
\* of known tags, and no failures.
THEOREM TableServed == SerialSpec => ServesTable
<1>1. SerialInit => Init /\ (Orderly => Serves) /\ Store!Init
  <2> SUFFICES ASSUME SerialInit PROVE Serves /\ Store!Init
    BY DEF SerialInit
  <2>1. /\ Init /\ before = Table /\ \A f \in File : ListedUnder(f) = {}
    BY DEF SerialInit, Init, ListedUnder, ListOf, Name
  <2>2. before = [f \in File |-> Absent] /\ Shown = [f \in File |-> Absent]
    BY <2>1 DEF Table, Shown
  <2>3. Serves
    BY <2>1, <2>2 DEF Serves, Serving, Init, Idle
  <2>4. Store!Init
    BY <2>1, <2>2 DEF Store!Init, Shown, Init, Idle
  <2> QED
    BY <2>3, <2>4
<1>2. [SerialNext]_<<vars, before>> => [Next]_vars
  BY DEF SerialNext
<1>3. (TInv /\ SInv) /\ (TInv /\ LInv) /\ (Orderly => Serves) => (Orderly => Sound)
  BY OrderlyUses DEF Sound, SInv, LInv
<1>4. (Orderly => Sound) /\ [SerialNext]_<<vars, before>>
      => (Orderly => Serves)' /\ [Store!Next]_<<Shown, Asked, Answered>>
  BY PromiseStep DEF Promise
<1> QED
  BY <1>1, <1>2, <1>3, <1>4, OrderInvariance, DebtInvariance, PTL
  DEF SerialSpec, Spec, ServesTable, Store!Spec, Shown, Asked, Answered
=============================================================================
