-------------------------- MODULE MCClientSession ---------------------------
(***************************************************************************)
(* Instances of ClientSession.  The lines TypedLines is tried on are       *)
(* initial states beside that of the session, where typed is empty.        *)
(***************************************************************************)
EXTENDS ClientSession, TypedLines

CONSTANTS s1, s2, c1, c2

TwoIps == <<s1, s2>>

Add == <<"add", "[", "x", " ", "y", "]", "[", "x", "]">>
List == <<"list", "[", "x", "]">>
Get == <<"get", "[", "x", "]">>

\* A file of it does not exist.
Unsent == <<"add", "[", "z", "]", "[", "x", "]">>

Users == (c1 :> <<{Unsent, <<"exit">>, Add}, {List}>>) @@ (c2 :> <<{Get}>>)

-----------------------------------------------------------------------------

UpTo(S, n) == UNION {[1 .. m -> S] : m \in 0 .. n}

\* Any characters.
ShortLines == UpTo(Character \ {"get", ","}, 5)

\* A keyword and any tokens, where blanks separate the names.
LongLines ==
    LET spaced(r) == FlattenSeq([i \in DOMAIN r |-> IF r[i] = "x" THEN <<"x", ",">> ELSE <<r[i]>>])
    IN  {<<k>> \o spaced(r) : k \in {"add", "get"}, r \in UpTo({"x", "[", "]"}, 8)}

MCInit ==
    /\ Init
    /\ typed \in ShortLines \cup LongLines

MCNext == typed = <<>> /\ Next /\ UNCHANGED typed

MCSpec == MCInit /\ [][MCNext]_<<vars, typed>> /\ Fairness
=============================================================================
