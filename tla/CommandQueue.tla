---------------------------- MODULE CommandQueue ----------------------------
(***************************************************************************)
(* command_queue, the ring buffer between the thread that accepts commands *)
(* and the execution loop of one node, with its mutex.                     *)
(*                                                                         *)
(* The buffer has no counter and no test for being full: it is empty when  *)
(* its two indices are equal, so that it must never hold total_size        *)
(* commands.  What keeps it from that is that a caller waits for the       *)
(* answer to its command: there are never more commands than callers.      *)
(***************************************************************************)
EXTENDS Integers, FiniteSets, Sequences

CONSTANTS Caller,     \* the threads and nodes that send commands to this node
          TotalSize,  \* the size of the buffer, 10000 in the program
          None

ASSUME CallerAssumption ==
    IsFiniteSet(Caller) /\ None \notin Caller \cup {"accept thread", "execution loop"}

ASSUME SizeAssumption == TotalSize \in Nat /\ Cardinality(Caller) < TotalSize

VARIABLES connected,            \* callers whose connection is not yet accepted
          new_command,          \* what the accept thread has in hand
          accept_pc,            \* "accept", "lock", "enqueue" or "unlock"
          mutex,                \* the thread that holds it, or None
          array,                \* the buffer
          last_free_space,
          first_ocupied_space,
          cmd,                  \* what the execution loop has in hand
          exec_pc               \* "lock", "dequeue", "found", "empty" or "run"

vars == <<connected, new_command, accept_pc, mutex, array, last_free_space,
          first_ocupied_space, cmd, exec_pc>>

Index == 0 .. TotalSize - 1

TypeOK ==
    /\ connected \subseteq Caller
    /\ new_command \in Caller \cup {None}
    /\ accept_pc \in {"accept", "lock", "enqueue", "unlock"}
    /\ mutex \in {"accept thread", "execution loop", None}
    /\ array \in [Index -> Caller \cup {None}]
    /\ last_free_space \in Index
    /\ first_ocupied_space \in Index
    /\ cmd \in Caller \cup {None}
    /\ exec_pc \in {"lock", "dequeue", "found", "empty", "run"}

Init ==
    /\ connected = {}
    /\ new_command = None
    /\ accept_pc = "accept"
    /\ mutex = None
    /\ array = [i \in Index |-> None]
    /\ last_free_space = 0
    /\ first_ocupied_space = 0
    /\ cmd = None
    /\ exec_pc = "lock"

\* The slots that hold a command, from first_ocupied_space on.
Held == (last_free_space - first_ocupied_space) % TotalSize

\* The commands in the buffer, oldest first.
Content == [i \in 1 .. Held |-> array[(first_ocupied_space + i - 1) % TotalSize]]

\* A caller whose command has been sent and not yet been run.
Waiting(c) ==
    \/ c \in connected
    \/ c = new_command
    \/ \E i \in 1 .. Held : Content[i] = c
    \/ c = cmd

-----------------------------------------------------------------------------
(* The callers *)

\* A caller connects; it has no other command open.
Connect(c) ==
    /\ ~Waiting(c)
    /\ connected' = connected \cup {c}
    /\ UNCHANGED <<new_command, accept_pc, mutex, array, last_free_space,
                   first_ocupied_space, cmd, exec_pc>>

-----------------------------------------------------------------------------
(* command_accept_thread *)

\* accept, then the command is received.
Accept(c) ==
    /\ accept_pc = "accept"
    /\ c \in connected
    /\ connected' = connected \ {c}
    /\ new_command' = c
    /\ accept_pc' = "lock"
    /\ UNCHANGED <<mutex, array, last_free_space, first_ocupied_space, cmd, exec_pc>>

LockToEnqueue ==
    /\ accept_pc = "lock"
    /\ mutex = None
    /\ mutex' = "accept thread"
    /\ accept_pc' = "enqueue"
    /\ UNCHANGED <<connected, new_command, array, last_free_space,
                   first_ocupied_space, cmd, exec_pc>>

\* Mutant: the index is advanced before the slot is filled.
EnqueueAhead ==
    /\ accept_pc = "enqueue"
    /\ last_free_space' = (last_free_space + 1) % TotalSize
    /\ array' = [array EXCEPT ![last_free_space'] = new_command]
    /\ new_command' = None
    /\ accept_pc' = "unlock"
    /\ UNCHANGED <<connected, mutex, first_ocupied_space, cmd, exec_pc>>

\* Mutant: the index does not wrap around.
EnqueueNoWrap ==
    /\ accept_pc = "enqueue"
    /\ array' = [array EXCEPT ![last_free_space] = new_command]
    /\ last_free_space' = last_free_space + 1
    /\ new_command' = None
    /\ accept_pc' = "unlock"
    /\ UNCHANGED <<connected, mutex, first_ocupied_space, cmd, exec_pc>>

\* enqueue: no test for a full buffer.
Enqueue ==
    /\ accept_pc = "enqueue"
    /\ array' = [array EXCEPT ![last_free_space] = new_command]
    /\ last_free_space' = (last_free_space + 1) % TotalSize
    /\ new_command' = None
    /\ accept_pc' = "unlock"
    /\ UNCHANGED <<connected, mutex, first_ocupied_space, cmd, exec_pc>>

UnlockEnqueue ==
    /\ accept_pc = "unlock"
    /\ mutex' = None
    /\ accept_pc' = "accept"
    /\ UNCHANGED <<connected, new_command, array, last_free_space,
                   first_ocupied_space, cmd, exec_pc>>

-----------------------------------------------------------------------------
(* The execution loop *)

LockToDequeue ==
    /\ exec_pc = "lock"
    /\ mutex = None
    /\ mutex' = "execution loop"
    /\ exec_pc' = "dequeue"
    /\ UNCHANGED <<connected, new_command, accept_pc, array, last_free_space,
                   first_ocupied_space, cmd>>

\* Mutant: the indices are compared as if the buffer did not wrap around.
NotEmptyNoWrap == last_free_space > first_ocupied_space

\* There is a command in the buffer.
NotEmpty == last_free_space # first_ocupied_space

\* Mutant: the first slot is not given back.
DequeueKeep ==
    /\ exec_pc = "dequeue"
    /\ NotEmpty
    /\ cmd' = array[first_ocupied_space]
    /\ exec_pc' = "found"
    /\ UNCHANGED <<connected, new_command, accept_pc, mutex, array,
                   last_free_space, first_ocupied_space>>

\* dequeue finds a command.
Dequeue ==
    /\ exec_pc = "dequeue"
    /\ NotEmpty
    /\ cmd' = array[first_ocupied_space]
    /\ first_ocupied_space' = (first_ocupied_space + 1) % TotalSize
    /\ exec_pc' = "found"
    /\ UNCHANGED <<connected, new_command, accept_pc, mutex, array, last_free_space>>

\* dequeue finds none and sleeps, with the mutex held.
SleepLocked ==
    /\ exec_pc = "dequeue"
    /\ ~NotEmpty
    /\ exec_pc' = "empty"
    /\ UNCHANGED <<connected, new_command, accept_pc, mutex, array,
                   last_free_space, first_ocupied_space, cmd>>

\* The mutex is released, to run the command or to try again.
UnlockDequeue ==
    /\ exec_pc \in {"found", "empty"}
    /\ mutex' = None
    /\ exec_pc' = IF exec_pc = "found" THEN "run" ELSE "lock"
    /\ UNCHANGED <<connected, new_command, accept_pc, array, last_free_space,
                   first_ocupied_space, cmd>>

\* The handler runs and answers the caller.
Run ==
    /\ exec_pc = "run"
    /\ cmd' = None
    /\ exec_pc' = "lock"
    /\ UNCHANGED <<connected, new_command, accept_pc, mutex, array,
                   last_free_space, first_ocupied_space>>

-----------------------------------------------------------------------------

AcceptStep == (\E c \in Caller : Accept(c)) \/ LockToEnqueue \/ Enqueue \/ UnlockEnqueue

ExecStep == LockToDequeue \/ Dequeue \/ SleepLocked \/ UnlockDequeue \/ Run

Next == (\E c \in Caller : Connect(c)) \/ AcceptStep \/ ExecStep

Spec == Init /\ [][Next]_vars

(***************************************************************************)
(* Both threads run whenever they can.  Nothing more: accept may take      *)
(* pending connections in any order, and a mutex that is initialised with  *)
(* no attributes is given to any thread that asks for it, so that the loop *)
(* may lock it again before the accept thread, which waits, ever gets it.  *)
(***************************************************************************)
Fairness == WF_vars(AcceptStep) /\ WF_vars(ExecStep)

FairSpec == Spec /\ Fairness

-----------------------------------------------------------------------------
(* Properties *)

(***************************************************************************)
(* No command is lost and none is there twice: the places where a command  *)
(* can be (not yet accepted, in the accept thread's hand, in the buffer,   *)
(* in the loop's hand) never share one, and the buffer, which cannot tell  *)
(* full from empty, always has a free slot left.                           *)
(***************************************************************************)
OnePlace ==
    /\ \A i, j \in 1 .. Held : Content[i] = Content[j] => i = j
    /\ \A i \in 1 .. Held : Content[i] \notin connected \cup {new_command, cmd, None}
    /\ connected \cap {new_command, cmd} = {}
    /\ new_command = cmd => cmd = None
    /\ Held + Cardinality(connected) < TotalSize

(***************************************************************************)
(* The buffer is a queue: commands are run in the order in which they were *)
(* accepted.  This is what DhtExec takes for granted of its queues.        *)
(***************************************************************************)
Fifo == INSTANCE CommandFifo WITH fifo <- Content, running <- cmd

Ordered == Fifo!Spec

(***************************************************************************)
(* An accepted command is answered, with one exception: for ever the loop  *)
(* polls an empty buffer, releases the mutex and takes it again, and the   *)
(* accept thread with the command in its hand is never the one to get it.  *)
(* While the loop has commands to run it cannot keep that thread out: the  *)
(* callers wait for their answers, and the buffer runs empty.              *)
(***************************************************************************)
Answered ==
    \A c \in Caller :
        Waiting(c) /\ c \notin connected
            ~> ~Waiting(c) \/ ([](c = new_command /\ Content = <<>>) /\ []<>(mutex = None))
=============================================================================
