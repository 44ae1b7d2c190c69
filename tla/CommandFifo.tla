---------------------------- MODULE CommandFifo -----------------------------
(***************************************************************************)
(* What command_queue promises the two threads that share it: commands are *)
(* run in the order in which they were accepted, each of them once.        *)
(***************************************************************************)
EXTENDS Sequences

CONSTANTS Caller, None

VARIABLES fifo,     \* the commands accepted and not yet run, oldest first
          running   \* the command the execution loop has in hand

vars == <<fifo, running>>

Init == fifo = <<>> /\ running = None

Put(c) == fifo' = Append(fifo, c) /\ UNCHANGED running

Take ==
    /\ fifo # <<>> /\ running = None
    /\ fifo' = Tail(fifo)
    /\ running' = Head(fifo)

Finish == running # None /\ running' = None /\ UNCHANGED fifo

Next == (\E c \in Caller : Put(c)) \/ Take \/ Finish

Spec == Init /\ [][Next]_vars
=============================================================================
