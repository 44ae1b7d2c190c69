--------------------------- MODULE MCNodeThreads ----------------------------
(***************************************************************************)
(* The two threads of a node beside its execution loop, which share no     *)
(* state: the one that fills command_queue (CommandQueue) and the one that *)
(* watches the successor (Heartbeat).  observed says which of them this    *)
(* behaviour is about; the other stands still.                             *)
(***************************************************************************)
EXTENDS CommandQueue, Heartbeat

CONSTANTS c1, c2, c3, x1, x2, x3

VARIABLE observed

TwoNodes == <<x1, x2>>

Both == Init /\ WatchInit /\ observed \in {"command_queue", "heart_beat"}

QueueStep == observed = "command_queue" /\ Next /\ UNCHANGED <<watchVars, observed>>

WatchStep == observed = "heart_beat" /\ WatchNext /\ UNCHANGED <<vars, observed>>

\* Fairness and WatchFairness, each for its thread.
BothFair ==
    /\ WF_vars(observed = "command_queue" /\ AcceptStep)
    /\ WF_vars(observed = "command_queue" /\ ExecStep)
    /\ WF_watchVars(observed = "heart_beat" /\ HeartBeat)

MCSpec ==
    /\ Both
    /\ [][QueueStep \/ WatchStep]_<<vars, watchVars, observed>>
    /\ BothFair
=============================================================================
