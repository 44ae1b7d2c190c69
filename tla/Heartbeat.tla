----------------------------- MODULE Heartbeat ------------------------------
(***************************************************************************)
(* heart_beat_send_thread of one node: how it decides that its immediate   *)
(* successor is down, and whether it lives to decide it.  ChordMembership  *)
(* takes that decision for right; this module says when it is.             *)
(*                                                                         *)
(* A probe is a connection to the address successors_ip[0] held when it    *)
(* began.  While it is under way, up to some seconds, the execution loop   *)
(* may put a node that joins in front of the list.  The sockets of probes, *)
(* good and bad, are never closed.                                         *)
(*                                                                         *)
(* The same thread makes the calls of a repair, one after the other, to    *)
(* the successors that are left and to the predecessors.  While it waits   *)
(* for one of them it probes nobody, and it waits for ever if the callee   *)
(* is down.                                                                *)
(*                                                                         *)
(* The list is without the entries that are the node itself.  A machine    *)
(* that crashed joins again only when it has left the list.  Of the        *)
(* predecessors only what a call to them meets is kept.                    *)
(***************************************************************************)
EXTENDS Integers, Sequences, FiniteSets

CONSTANTS Successor,    \* the machines that may follow this node in the ring
          Start,        \* the successors it begins with, the nearest first
          Descriptors,  \* how many sockets the process can open
          Nobody

\* The length of successors_ip.
ListLen == 3

ASSUME StartAssumption ==
    Start \in Seq(Successor) /\ Len(Start) <= ListLen /\ Nobody \notin Successor

ASSUME BoundAssumption == Descriptors \in Nat

\* max_failed_attempts
MaxFailedAttempts == 3

\* Bound: counts go no further than the program tells them apart.
More(count) == IF count = MaxFailedAttempts THEN count ELSE count + 1

VARIABLES list,     \* the nodes after this one, as far as it knows
          up,       \* the machines that run
          failed,   \* failed_attempts
          target,   \* the node a probe is under way to, or Nobody
          open,     \* descriptors in use
          behind,   \* the predecessors: "up", "down" if one of them is, or "none"
          thread,   \* "probing", "repairing", "calling" or "stuck"
          made,     \* calls of the repair that are made or left out
          callee,   \* whom the call under way goes to, or Nobody
          missed,   \* history: how many were lost since the count or a repair began
          own       \* history: all failures counted were of the node in front, while it ran

callVars == <<made, callee>>

watchVars == <<list, up, failed, target, open, behind, thread, callVars, missed, own>>

WatchInit ==
    /\ list = Start
    /\ up = {Start[i] : i \in DOMAIN Start}
    /\ failed = 0
    /\ target = Nobody
    /\ open = 0
    /\ behind = IF Start = <<>> THEN "none" ELSE "up"
    /\ thread = "probing"
    /\ made = 0
    /\ callee = Nobody
    /\ missed = 0
    /\ own = TRUE

\* One more socket that stays open, if there is one.
OneMore == open' = IF open = Descriptors THEN open ELSE open + 1

-----------------------------------------------------------------------------
(* Probes *)

\* try_connect_to_sever_by_ip(successors_ip[0], ...) begins.
Probe ==
    /\ thread = "probing" /\ target = Nobody
    /\ list # <<>>
    /\ target' = Head(list)
    /\ UNCHANGED <<list, up, failed, open, behind, thread, callVars, missed, own>>

\* Mutant: failed_attempts is not set back to 0 after a probe that came through.
ReachedKeepsCount ==
    /\ target \in up
    /\ open < Descriptors
    /\ OneMore
    /\ target' = Nobody
    /\ missed' = 0
    /\ own' = TRUE
    /\ UNCHANGED <<list, up, failed, behind, thread, callVars>>

\* connect returns: break, and the outer loop starts counting anew.
Reached ==
    /\ target \in up
    /\ open < Descriptors
    /\ OneMore
    /\ target' = Nobody
    /\ failed' = 0
    /\ missed' = 0
    /\ own' = TRUE
    /\ UNCHANGED <<list, up, behind, thread, callVars>>

\* One failed attempt, perhaps one too many.
Count ==
    /\ failed' = More(failed)
    /\ thread' = IF failed' >= MaxFailedAttempts THEN "repairing" ELSE "probing"
    /\ OneMore
    /\ target' = Nobody
    /\ UNCHANGED <<list, up, behind, callVars>>

\* The probe of a running node is lost, or not answered in time.
Lost ==
    /\ target \in up
    /\ missed' = More(missed)
    /\ own' = (own /\ list # <<>> /\ target = Head(list))
    /\ Count

\* Mutant: an attempt that is refused at once is not counted.
RefusedFree ==
    /\ target # Nobody
    /\ target \notin up \/ open = Descriptors
    /\ OneMore
    /\ target' = Nobody
    /\ UNCHANGED <<list, up, failed, behind, thread, callVars, missed, own>>

\* The node is down, or there is no descriptor for a socket.
Refused ==
    /\ target # Nobody
    /\ target \notin up \/ open = Descriptors
    /\ Count
    /\ own' = (own /\ target \in up)
    /\ UNCHANGED missed

-----------------------------------------------------------------------------
(* Repairs *)

\* handle_succesors_down begins: successors_ip[0], whichever node that is by now,
\* leaves the list.  failed_attempts is not set back.
Repair ==
    /\ thread = "repairing"
    /\ list # <<>>
    /\ list' = Tail(list)
    /\ thread' = "calling"
    /\ made' = 0
    /\ missed' = 0
    /\ own' = FALSE
    /\ UNCHANGED <<up, failed, target, open, behind, callee>>

(***************************************************************************)
(* Whom the calls of a repair go to, in order: i > 0 is successors_ip[i-1] *)
(* as the list then is, 0 a predecessor.  The two calls that tell one      *)
(* neighbour of the crash are one here, and so are all those that copy     *)
(* files to or from one node.                                              *)
(***************************************************************************)
Calls == <<2, 0, 0, 1, 2, 3, 1, 3, 2, 0, 1>>

\* rpc_find_succesor, which gives the third successor.
Lookup == 1

\* The calls that only files to copy cause.
ForFiles == {8, 9, 11}

\* rpc_get_keys_in_range, made to the node itself if it has no successor left.
KeysOfSuccessor == 7

\* The nodes call n may go to; none if the slot holds the node itself.
Callees(n) ==
    LET i == Calls[n]
    IN  CASE i \in DOMAIN list                      -> {list[i]}
          [] i = 0 /\ behind = "up"                 -> {"predecessor"}
          [] i = 0 /\ behind = "down"               -> {"predecessor", "crashed"}
          [] n = KeysOfSuccessor /\ list = <<>>     -> {"itself"}
          [] OTHER                                  -> {}

\* The callee accepts connections.
Reachable(n) == n \in up \cup {"predecessor", "itself"}

\* connect_to_sever_by_ip begins.
Call ==
    /\ thread = "calling" /\ callee = Nobody
    /\ made < Len(Calls)
    /\ callee' \in Callees(made + 1)
    /\ UNCHANGED <<list, up, failed, target, open, behind, thread, made, missed, own>>

\* There is nobody to call, or no file to copy.
LeaveOut ==
    /\ thread = "calling" /\ callee = Nobody
    /\ made < Len(Calls)
    /\ Callees(made + 1) = {} \/ made + 1 \in ForFiles
    /\ made' = made + 1
    /\ UNCHANGED <<list, up, failed, target, open, behind, thread, callee, missed, own>>

\* The connection is made; without a descriptor, or to a node that is down, it is
\* tried again for ever.
Connected ==
    /\ thread = "calling"
    /\ Reachable(callee)
    /\ open < Descriptors

\* The lookup is answered and its socket closed: successors_ip[2] is the node
\* found, which may be this one.
Found ==
    LET nearest == SubSeq(list, 1, IF Len(list) < ListLen THEN Len(list) ELSE ListLen - 1)
        others  == {x \in Successor : \A i \in DOMAIN nearest : nearest[i] # x}
    IN  /\ Connected /\ made + 1 = Lookup
        /\ list' \in {nearest} \cup {Append(nearest, x) : x \in others}
        /\ made' = made + 1
        /\ callee' = Nobody
        /\ UNCHANGED <<up, failed, target, open, behind, thread, missed, own>>

\* Another call is answered; its socket stays open.
Answer ==
    /\ Connected /\ made + 1 # Lookup
    /\ OneMore
    /\ made' = made + 1
    /\ callee' = Nobody
    /\ UNCHANGED <<list, up, failed, target, behind, thread, missed, own>>

\* The call is never answered: the callee's machine crashes while it has it, its
\* execution loop waits for ever itself, or the owner of a file that rpc_get then
\* goes to is down.
NoAnswer ==
    /\ Connected
    /\ OneMore
    /\ thread' = "stuck"
    /\ made' = 0 /\ callee' = Nobody
    /\ UNCHANGED <<list, up, failed, target, behind, missed, own>>

\* handle_succesors_down returns.
Repaired ==
    /\ thread = "calling" /\ made = Len(Calls)
    /\ thread' = "probing"
    /\ made' = 0
    /\ UNCHANGED <<list, up, failed, target, open, behind, callee, missed, own>>

\* The node is alone: break, and the outer loop starts counting anew.
Alone ==
    /\ thread = "probing" /\ target = Nobody
    /\ list = <<>> /\ failed # 0
    /\ failed' = 0 /\ missed' = 0 /\ own' = TRUE
    /\ UNCHANGED <<list, up, target, open, behind, thread, callVars>>

-----------------------------------------------------------------------------
(* The others *)

Crash(x) ==
    /\ x \in up
    /\ up' = up \ {x}
    /\ UNCHANGED <<list, failed, target, open, behind, thread, callVars, missed, own>>

\* A predecessor crashes, perhaps the one that is being called.
CrashBehind ==
    /\ behind = "up"
    /\ behind' = "down"
    /\ callee' \in IF callee = "predecessor" THEN {"predecessor", "crashed"} ELSE {callee}
    /\ UNCHANGED <<list, up, failed, target, open, thread, made, missed, own>>

\* CMD_DEPRECATE_PREDECESSORS and CMD_INSERT_PREDECESSOR: the execution loop puts
\* running nodes, if there are any, in the place of those behind.
ReplaceBehind ==
    /\ behind' \in {"up", "none"} \ {behind}
    /\ UNCHANGED <<list, up, failed, target, open, thread, callVars, missed, own>>

\* CMD_INSERT_SUCCESOR: the execution loop puts a node that joins in front.
Join(x) ==
    /\ x \notin up /\ \A i \in DOMAIN list : list[i] # x
    /\ list' = IF Len(list) < ListLen THEN <<x>> \o list
                                      ELSE <<x>> \o SubSeq(list, 1, ListLen - 1)
    /\ up' = up \cup {x}
    /\ own' = (own /\ failed = 0)
    /\ UNCHANGED <<failed, target, open, behind, thread, callVars, missed>>

(***************************************************************************)
(* CMD_DEPRECATE_SUCCESORS: the node before list[i] takes it for down.     *)
(* The insertion that follows is left out: the list only gets shorter.     *)
(***************************************************************************)
Deprecate(i) ==
    /\ i \in 2 .. Len(list)
    /\ list[i] \notin up
    /\ list' = SubSeq(list, 1, i - 1) \o SubSeq(list, i + 1, Len(list))
    /\ UNCHANGED <<up, failed, target, open, behind, thread, callVars, missed, own>>

RepairStep == Repair \/ Call \/ LeaveOut \/ Found \/ Answer \/ NoAnswer \/ Repaired

HeartBeat == Probe \/ Reached \/ Lost \/ Refused \/ RepairStep \/ Alone

Others ==
    \/ \E x \in Successor : Crash(x) \/ Join(x)
    \/ CrashBehind
    \/ ReplaceBehind
    \/ \E i \in 2 .. ListLen : Deprecate(i)

WatchNext == HeartBeat \/ Others

WatchSpec == WatchInit /\ [][WatchNext]_watchVars

\* The thread waits for nothing but its own calls: as long as one of its steps is
\* possible it is running, and a call that nobody can take is not such a step.
WatchFairness == WF_watchVars(HeartBeat)

FairWatchSpec == WatchSpec /\ WatchFairness

-----------------------------------------------------------------------------
(* Properties *)

(***************************************************************************)
(* "Succesor Down! I repeat, succesor down!": a running node is taken for  *)
(* down only if three probes of it in a row were lost, if a failure was    *)
(* held against it that was not its own (of the node that was in front of  *)
(* it before a repair, or behind it before it joined), or if there is no   *)
(* descriptor left to probe it with.                                       *)
(***************************************************************************)
NoFalseAlarm ==
    [][(thread = "repairing" /\ list # <<>> /\ list' = Tail(list)) =>
          \/ Head(list) \notin up
          \/ missed >= MaxFailedAttempts
          \/ ~own
          \/ open = Descriptors]_watchVars

\* The call of a repair that is under way cannot be made, or will not be answered.
Stranded ==
    \/ thread = "calling" /\ callee # Nobody /\ (~Reachable(callee) \/ open = Descriptors)
    \/ thread = "stuck"

(***************************************************************************)
(* A crash of the immediate successor does not go unnoticed: the crashed   *)
(* node does not stay in front of the list, whatever was lost, counted or  *)
(* repaired before.  The one exception is a crash that falls into a repair *)
(* of an earlier one whose calls cannot be made, since another node they   *)
(* go to is down or the descriptors are used up, or are not answered: then *)
(* nobody probes any more.                                                 *)
(***************************************************************************)
Noticed ==
    \A x \in Successor :
        list # <<>> /\ Head(list) = x /\ x \notin up
            ~> (list = <<>> \/ Head(list) # x) \/ []<>Stranded
=============================================================================
