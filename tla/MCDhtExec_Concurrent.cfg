SPECIFICATION Spec
CONSTANTS
    Level = 2
    Node = {1, 3, 5}
    Client = {c1, c2}
    a = a
    b = b
    v1 = v1
    v2 = v2
    Name = {a, b}
    Value = {v1, v2}
    Hash <- TwoHashes
    Succs <- ExactLists
    Absent = Absent
    None = None
INVARIANTS TypeOK ReplicasAgree HaltOnlyInCycle QueuesBounded
PROPERTIES AtomicMap
CHECK_DEADLOCK FALSE
