---------------------------- MODULE CommandLine -----------------------------
(***************************************************************************)
(* The lines a user types, as both programs read them: tokenize_command    *)
(* and is_message_correct (globals.h), and the loops of execute_command    *)
(* that take the names out of the tokens (server.cpp).                     *)
(*                                                                         *)
(* A line is a sequence of characters; a keyword, and a piece of a name,   *)
(* counts as one character.  A token is a non-empty sequence of them, so   *)
(* <<"add">> is the keyword and <<"add", "x">> a name that begins so.      *)
(***************************************************************************)
EXTENDS Integers, SequencesExt

Blank == {" ", ","}

Bracket == {"[", "]"}

Open == <<"[">>
Close == <<"]">>

-----------------------------------------------------------------------------
(* tokenize_command *)

\* The word in hand becomes a token.
EndWord(acc) ==
    [tokens |-> IF acc.word = <<>> THEN acc.tokens ELSE Append(acc.tokens, acc.word),
     word   |-> <<>>]

ReadCharacter(acc, ch) ==
    CASE ch \in Blank   -> EndWord(acc)
      [] ch \in Bracket -> [tokens |-> Append(EndWord(acc).tokens, <<ch>>), word |-> <<>>]
      [] OTHER          -> [acc EXCEPT !.word = Append(@, ch)]

Tokens(line) ==
    LET read[i \in 0 .. Len(line)] ==
            IF i = 0 THEN [tokens |-> <<>>, word |-> <<>>]
                     ELSE ReadCharacter(read[i - 1], line[i])
    IN  EndWord(read[Len(line)]).tokens

-----------------------------------------------------------------------------
(* is_token_list and is_message_correct.  Token i of the code is tk[i + 1]. *)

\* The place of the first "]" from i on, or one after the last token.
CloseFrom(tk, i) ==
    LET places == {j \in i .. Len(tk) : tk[j] = Close}
    IN  IF places = {} THEN Len(tk) + 1 ELSE CHOOSE j \in places : \A k \in places : j <= k

NotAList == -1

\* Mutant: an empty list is a list.
IsTokenListEmpty(tk, start) ==
    IF /\ start <= Len(tk)
       /\ tk[start] = Open
       /\ CloseFrom(tk, start + 1) <= Len(tk)
    THEN CloseFrom(tk, start + 1) + 1
    ELSE NotAList

\* The place after the list that begins at start.
IsTokenList(tk, start) ==
    IF /\ start <= Len(tk)
       /\ tk[start] = Open
       /\ CloseFrom(tk, start + 1) \in (start + 2) .. Len(tk)
    THEN CloseFrom(tk, start + 1) + 1
    ELSE NotAList

QueryOp == {"delete", "list", "get"}
PairOp == {"add", "add-tags", "delete-tags"}

\* The keyword tk[1], if it is one.
OpOf(tk) ==
    IF tk # <<>> /\ Len(tk[1]) = 1 /\ tk[1][1] \in QueryOp \cup PairOp \cup {"exit"}
    THEN tk[1][1] ELSE "none"

\* The lists a, then b, are all of tk after the keyword.
IsMessageCorrect(tk) ==
    LET first == IsTokenList(tk, 2)
    IN  \/ OpOf(tk) = "exit" /\ Len(tk) = 1
        \/ OpOf(tk) \in QueryOp /\ first = Len(tk) + 1
        \/ /\ OpOf(tk) \in PairOp
           /\ first # NotAList /\ IsTokenList(tk, first) = Len(tk) + 1

-----------------------------------------------------------------------------
(* execute_command: the loops over the tokens *)

\* From i up to the next "]".
NamesFrom(tk, i) == SubSeq(tk, i, CloseFrom(tk, i) - 1)

\* The files of an add, the tags of a query.
FirstList(tk) == NamesFrom(tk, 3)

\* Mutant: the second loop begins one token early.
SecondListEarly(tk) == NamesFrom(tk, CloseFrom(tk, 3) + 1)

\* The tags of an add, get_tag_list for the others.
SecondList(tk) == NamesFrom(tk, CloseFrom(tk, 3) + 2)

-----------------------------------------------------------------------------
(* The reference: what a line says, without going through it. *)

IsWordAt(line, i) == i \in DOMAIN line /\ line[i] \notin Blank \cup Bracket

\* Tokens are the brackets and the longest runs of other characters.
Starts(line) ==
    {i \in DOMAIN line : line[i] \in Bracket \/ (IsWordAt(line, i) /\ ~IsWordAt(line, i - 1))}

TokenAt(line, i) ==
    LET ends == {j \in i .. Len(line) : ~IsWordAt(line, j + 1) \/ line[i] \in Bracket}
    IN  SubSeq(line, i, CHOOSE j \in ends : \A k \in ends : j <= k)

WrittenTokens(line) ==
    LET starts == Starts(line)
        start(n) == CHOOSE i \in starts : Cardinality({j \in starts : j <= i}) = n
    IN  [n \in 1 .. Cardinality(starts) |-> TokenAt(line, start(n))]

\* s is a bracketed list of names; a name is anything but "]".
Bracketed(s) ==
    /\ Len(s) >= 3
    /\ s[1] = Open /\ s[Len(s)] = Close
    /\ \A i \in 2 .. (Len(s) - 1) : s[i] # Close

Inner(s) == SubSeq(s, 2, Len(s) - 1)

\* Where the first of two lists that make up s ends.
Splits(s) ==
    {i \in 1 .. (Len(s) - 1) :
        Bracketed(SubSeq(s, 1, i)) /\ Bracketed(SubSeq(s, i + 1, Len(s)))}

\* tk is the keyword of a command followed by as many lists as it takes.
InGrammar(tk) ==
    \/ tk = <<<<"exit">>>>
    \/ /\ tk # <<>>
       /\ \/ tk[1] \in {<<op>> : op \in QueryOp} /\ Bracketed(Tail(tk))
          \/ tk[1] \in {<<op>> : op \in PairOp} /\ Splits(Tail(tk)) # {}

(***************************************************************************)
(* A line is accepted exactly when it is a command followed by the         *)
(* bracketed, non-empty lists of names that the command takes: spaces and  *)
(* commas only separate.                                                   *)
(***************************************************************************)
AcceptsLine(line) == IsMessageCorrect(Tokens(line)) <=> InGrammar(WrittenTokens(line))

(***************************************************************************)
(* The server does not check a command again.  On every command the client *)
(* lets pass its loops end before the last token does, and take from it    *)
(* exactly the names between the brackets.                                 *)
(***************************************************************************)
ReadsLine(line) ==
    LET tk   == Tokens(line)
        rest == Tail(WrittenTokens(line))
    IN  /\ IsMessageCorrect(tk) /\ OpOf(tk) \in QueryOp => FirstList(tk) = Inner(rest)
        /\ IsMessageCorrect(tk) /\ OpOf(tk) \in PairOp =>
               \A i \in Splits(rest) :
                   /\ FirstList(tk) = Inner(SubSeq(rest, 1, i))
                   /\ SecondList(tk) = Inner(SubSeq(rest, i + 1, Len(rest)))
=============================================================================
