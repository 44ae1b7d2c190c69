SPECIFICATION Spec
CONSTANTS
    Level = 2
    Modulus = 16
    Node = {1, 3, 5}
    Founder = 5
    CrashSizes = {3}
    CrashLimit = 1
    EarlyRejoin = FALSE
    a = a
    b = b
    v1 = v1
    v2 = v2
    Name = {a, b}
    Value = {v1}
    Hash <- TwoHashes
    Absent = Absent
    Empty = Empty
    None = None
INVARIANTS SuccessorsExact
