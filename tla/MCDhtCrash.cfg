SPECIFICATION FairCrashSpec
CONSTANTS
    Level = 2
    Node = {1, 3, 5, 7}
    c1 = c1
    c2 = c2
    p1 = p1
    Client = {c1, c2}
    a = a
    b = b
    v1 = v1
    Name = {a}
    Value = {v1}
    Hash <- TwoHashes
    Succs <- ExactLists
    Absent = Absent
    None = None
    Process = {p1}
    ProcessOf <- OneServer
    Wanted <- OneDeletesOneReads
    CrashLimit = 1
INVARIANTS CrashTypeOK NoStrayCopy WritesInOrder StuckForAReason 
PROPERTIES CrashlessCallsReturn
CHECK_DEADLOCK FALSE
