------------------------------ MODULE TagStore ------------------------------
(***************************************************************************)
(* What the controller promises a user: one table of files with their      *)
(* contents and tags, on which every command takes effect at one instant   *)
(* between its arrival and its response. delete-tags is not part of it:    *)
(* see Controller!Untagged.                                                *)
(***************************************************************************)
EXTENDS SequencesExt

CONSTANTS Client, File, Tag, Content, Absent, None,
          Command   \* records [op, query or names, contents, tags]

VARIABLES store,    \* the table: of each file Absent, or its contents and tags
          asked,    \* the command each client waits for
          reply     \* what the response says of each file

NoReply == [f \in File |-> None]

Init ==
    /\ store = [f \in File |-> Absent]
    /\ asked = [c \in Client |-> None]
    /\ reply = [c \in Client |-> None]

\* The files that have every tag of the query.
Matching(m) == {f \in File : store[f] # Absent /\ ToSet(m.query) \subseteq store[f].tags}

Ask(c) ==
    /\ asked[c] = None
    /\ asked'[c] \in Command
    /\ asked' = [asked EXCEPT ![c] = asked'[c]]
    /\ UNCHANGED <<store, reply>>

Waiting(c, op) ==
    /\ asked[c] # None
    /\ reply[c] = None
    /\ asked[c].op = op
    /\ UNCHANGED asked

Add(c) ==
    /\ Waiting(c, "add")
    /\ LET m == asked[c] IN
           store' = [f \in File |->
                        IF f \in m.names THEN [content |-> m.contents[f], tags |-> m.tags]
                                         ELSE store[f]]
    /\ reply' = [reply EXCEPT ![c] = NoReply]

Delete(c) ==
    /\ Waiting(c, "delete")
    /\ store' = [f \in File |-> IF f \in Matching(asked[c]) THEN Absent ELSE store[f]]
    /\ reply' = [reply EXCEPT ![c] = NoReply]

AddTags(c) ==
    /\ Waiting(c, "add-tags")
    /\ LET m == asked[c] IN
           store' = [f \in File |->
                        IF f \in Matching(m) THEN [store[f] EXCEPT !.tags = @ \cup m.tags]
                                             ELSE store[f]]
    /\ reply' = [reply EXCEPT ![c] = NoReply]

List(c) ==
    /\ Waiting(c, "list")
    /\ reply' = [reply EXCEPT ![c] =
                    [f \in File |-> IF f \in Matching(asked[c]) THEN store[f].tags ELSE None]]
    /\ UNCHANGED store

Get(c) ==
    /\ Waiting(c, "get")
    /\ reply' = [reply EXCEPT ![c] =
                    [f \in File |-> IF f \in Matching(asked[c]) THEN store[f].content ELSE None]]
    /\ UNCHANGED store

Respond(c) ==
    /\ reply[c] # None
    /\ asked' = [asked EXCEPT ![c] = None]
    /\ reply' = [reply EXCEPT ![c] = None]
    /\ UNCHANGED store

Next == \E c \in Client :
            Ask(c) \/ Add(c) \/ Delete(c) \/ AddTags(c) \/ List(c) \/ Get(c) \/ Respond(c)

Spec == Init /\ [][Next]_<<store, asked, reply>>
=============================================================================
