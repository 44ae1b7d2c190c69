SPECIFICATION FairSpec
CONSTANTS
    Level = 2
    Modulus = 16
    Node = {1, 3, 5, 7, 9}
    Founder = 5
    CrashSizes = {4, 5}
    CrashLimit = 2
    EarlyRejoin = FALSE
    a = a
    b = b
    v1 = v1
    v2 = v2
    Name = {a, b}
    Value = {v1}
    Hash <- TwoHashes
    Absent = Absent
    Empty = Empty
    None = None
PROPERTIES Settles
CHECK_DEADLOCK FALSE
