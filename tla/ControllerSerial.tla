-------------------------- MODULE ControllerSerial --------------------------
(***************************************************************************)
(* The controller with one command at a time, and what its users saw when  *)
(* that command arrived. Until the response is ready they are taken to see *)
(* that still: so every command takes effect at one instant (TagStore).    *)
(***************************************************************************)
EXTENDS Controller

\* What the table holds is not taken for the lack of it, nor a response for none.
ASSUME SerialAssumption ==
    /\ Absent \notin [content : Content, tags : SUBSET Tag]
    /\ None \notin Command
    /\ None \notin [File -> (SUBSET Tag) \cup Content \cup {Absent, None}]

VARIABLE before    \* the table at the last Receive, a history variable

\* The table as queries see it: a file with the tags that lead to it.
Table ==
    [f \in File |-> IF ListedUnder(f) = {} THEN Absent
                    ELSE [content |-> files[f], tags |-> ListedUnder(f)]]

Quiet == \A c \in Client : thread[c].pc \in {"idle", "reply"}

\* The uses under which the promise is made: one client at a time that asks for
\* nothing of which the code makes something else, and no failures.
Orderly ==
    /\ use.alone /\ "delete-tags" \notin use.ops
    /\ use.readd # "any" /\ ~use.unknown
    /\ ~use.breaks /\ ~use.crashes

Arrival == \E c \in Client : thread[c].pc = "idle" /\ thread'[c].pc # "idle"

SerialInit == Init /\ before = Table

SerialNext == Next /\ before' = IF Orderly /\ Arrival THEN Table ELSE before

SerialSpec == SerialInit /\ [][SerialNext]_<<vars, before>>

\* The clients wait for a response from Receive to Respond; it is ready in "reply".
\* Under the other uses the table stands for nothing.
Store == INSTANCE TagStore WITH
    store <- IF Orderly /\ Quiet THEN Table ELSE before,
    asked <- [c \in Client |-> IF Orderly THEN thread[c].cmd ELSE None],
    reply <- [c \in Client |->
                 IF Orderly /\ thread[c].pc = "reply" THEN thread[c].reply ELSE None]

\* Every command has exactly its effect on files, contents and tags, on the
\* files it names or finds and on no other, and list and get answer with all of
\* the table's files that match: although it is up to a dozen calls to three
\* DHTs, and delete and add-tags find the lists to change in a different DHT
\* from the one the query was answered from.
ServesTable == Store!Spec
=============================================================================
