------------------------------ MODULE KeyValue ------------------------------
(***************************************************************************)
(* What one DHT promises its callers: a map from file names to values on   *)
(* which every rpc_add, rpc_delete and rpc_get takes effect at one instant *)
(* between its call and its return.                                        *)
(***************************************************************************)
CONSTANTS Client,   \* the threads that call rpc_add, rpc_delete, rpc_get
          Name,     \* file names
          Value,    \* file contents
          Absent,   \* no file of that name
          None      \* no request, no result

VARIABLES kv,       \* the map
          req,      \* the request of each client
          stage,    \* how far that request is
          res       \* what a get has read

vars == <<kv, req, stage, res>>

Request ==
         [op : {"add"}, name : Name, val : Value]
    \cup [op : {"delete", "get"}, name : Name, val : {Absent}]

TypeOK ==
    /\ kv \in [Name -> Value \cup {Absent}]
    /\ req \in [Client -> Request \cup {None}]
    /\ stage \in [Client -> {"idle", "pending", "applied"}]
    /\ res \in [Client -> Value \cup {Absent, None}]

Init ==
    /\ kv = [k \in Name |-> Absent]
    /\ req = [c \in Client |-> None]
    /\ stage = [c \in Client |-> "idle"]
    /\ res = [c \in Client |-> None]

Begin(c, r) ==
    /\ stage[c] = "idle"
    /\ stage' = [stage EXCEPT ![c] = "pending"]
    /\ req' = [req EXCEPT ![c] = r]
    /\ UNCHANGED <<kv, res>>

ApplyGet(c) ==
    /\ stage[c] = "pending"
    /\ req[c].op = "get"
    /\ stage' = [stage EXCEPT ![c] = "applied"]
    /\ res' = [res EXCEPT ![c] = kv[req[c].name]]
    /\ UNCHANGED <<kv, req>>

ApplyWrite(c) ==
    /\ stage[c] = "pending"
    /\ req[c].op \in {"add", "delete"}
    /\ stage' = [stage EXCEPT ![c] = "applied"]
    /\ kv' = [kv EXCEPT ![req[c].name] = req[c].val]
    /\ UNCHANGED <<req, res>>

End(c) ==
    /\ stage[c] = "applied"
    /\ stage' = [stage EXCEPT ![c] = "idle"]
    /\ req' = [req EXCEPT ![c] = None]
    /\ res' = [res EXCEPT ![c] = None]
    /\ UNCHANGED kv

Next ==
    \E c \in Client :
        \/ \E r \in Request : Begin(c, r)
        \/ ApplyGet(c)
        \/ ApplyWrite(c)
        \/ End(c)

Spec == Init /\ [][Next]_vars
=============================================================================
