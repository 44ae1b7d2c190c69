SPECIFICATION MCSpec
CONSTANTS
    c1 = c1
    c2 = c2
    c3 = c3
    Caller = {c1, c2, c3}
    TotalSize = 4
    x1 = x1
    x2 = x2
    x3 = x3
    Successor = {x1, x2, x3}
    Start <- TwoNodes
    Descriptors = 10
    None = None
    Nobody = Nobody
INVARIANTS TypeOK OnePlace
PROPERTIES Ordered Answered NoFalseAlarm Noticed
