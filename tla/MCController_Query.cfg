SPECIFICATION SerialSpec
CONSTANTS
    f = f
    g = g
    t = t
    u = u
    v1 = v1
    v2 = v2
    Client = {c1}
    File = {f, g}
    Tag = {t, u}
    Content = {v1}
    Absent = Absent
    None = None
    Uses <- Searchers
    PastEnd = {}
PROPERTIES Intersects
