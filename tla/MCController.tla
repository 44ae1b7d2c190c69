---------------------------- MODULE MCController ----------------------------
(* Instances of Controller. *)
EXTENDS ControllerSerial

CONSTANTS f, g, t, u, v1, v2

\* ServesTable is about this use only; two contents show which write is in effect.
Serial == [ops |-> Op \ {"delete-tags"}, tags |-> Tag, contents |-> Content, alone |-> TRUE,
           readd |-> "keep", unknown |-> FALSE, breaks |-> FALSE, crashes |-> FALSE]
Plain(v) == [Serial EXCEPT !.contents = {v}]
Failing(v) == [Plain(v) EXCEPT !.unknown = TRUE, !.breaks = TRUE, !.crashes = TRUE]
Careless(v) == [Plain(v) EXCEPT !.ops = Op, !.readd = "any", !.unknown = TRUE]
Crowd(v, x) == [Failing(v) EXCEPT !.ops = Op \ {"delete"}, !.tags = {x}, !.alone = FALSE,
                                  !.readd = "any"]

AllUses == {Serial, Failing(v1), Careless(v1)} \cup {Crowd(v1, x) : x \in Tag}
TwoAdders == {[Plain(v1) EXCEPT !.ops = {"add"}, !.alone = FALSE]}
Untaggers == {[Plain(v1) EXCEPT !.ops = {"add", "delete-tags"}]}
Searchers == {[Plain(v1) EXCEPT !.ops = {"add", "list"}, !.unknown = TRUE]}

\* File names, tag names and clients are interchangeable.
Interchange == Permutations(File) \cup Permutations(Tag) \cup Permutations(Client)
=============================================================================
