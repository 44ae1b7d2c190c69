----------------------------- MODULE TypedLines -----------------------------
(***************************************************************************)
(* What a user types at the prompt of the client, any characters in any    *)
(* order, and what the two programs make of it.                            *)
(***************************************************************************)
EXTENDS CommandLine

CONSTANT Character  \* those the user can type, and the keywords

VARIABLE typed

\* A line is typed, and stands.
TypedSpec == typed \in Seq(Character) /\ [][FALSE]_typed

(***************************************************************************)
(* is_message_correct accepts the typed line exactly if it is a command    *)
(* with the lists of names that belong to it (AcceptsLine).                *)
(***************************************************************************)
LinesAccepted == AcceptsLine(typed)

(***************************************************************************)
(* execute_command takes from the tokens of an accepted line the names     *)
(* that stand between its brackets, and never runs past their end          *)
(* (ReadsLine).                                                            *)
(***************************************************************************)
LinesRead == ReadsLine(typed)
=============================================================================
