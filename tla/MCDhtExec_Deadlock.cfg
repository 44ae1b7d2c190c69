SPECIFICATION FairSpec
CONSTANTS
    Level = 2
    Node = {1, 3}
    Client = {c1, c2}
    a = a
    b = b
    v1 = v1
    v2 = v2
    Name = {a, b}
    Value = {v1}
    Hash <- TwoHashes
    Succs <- ExactLists
    Absent = Absent
    None = None
PROPERTIES AddSendsOk
CHECK_DEADLOCK FALSE
