SPECIFICATION MCSpec
CONSTANTS
    c1 = c1
    c2 = c2
    s1 = s1
    s2 = s2
    Character = {"add", "get", "exit", "x", " ", ",", "[", "]"}
    Client = {c1, c2}
    Server = {s1, s2}
    ServerIps <- TwoIps
    Script <- Users
    Unreadable = {"z"}
    Found = 1
    Backlog = 2
    ClientFds = 4
    ServerFds = 4
    Faults = 1
    None = None
INVARIANTS TypeOK StreamsInSync OneAtATime LinesAccepted LinesRead
PROPERTIES DeathsSpread LinesEnd ThreadsEnd FindsServer
CHECK_DEADLOCK FALSE
