SPECIFICATION FairBusySpec
CONSTANTS
    Level = 2
    Modulus = 16
    Node = {1, 3, 5, 7, 9, 11}
    Founder = 5
    CrashSizes = {2, 4, 5, 6}
    CrashLimit = 1
    EarlyRejoin = FALSE
    Newcomer = {3, 9}
    Wanted <- SomeWrites
    a = a
    b = b
    v1 = v1
    v2 = v2
    Name = {a, b}
    Value = {v1, v2}
    Hash <- TwoHashes
    Absent = Absent
    Empty = Empty
    None = None
INVARIANTS BusyTypeOK SuccessorsExact PredecessorsExact Placement NoFalseMiss JoinKeepsCopies
PROPERTIES JoinsEnd RequestsEnd Settles
CHECK_DEADLOCK FALSE
