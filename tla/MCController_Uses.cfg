SPECIFICATION SerialSpec
CONSTANTS
    f = f
    g = g
    t = t
    u = u
    v1 = v1
    v2 = v2
    Client = {c1, c2}
    File = {f, g}
    Tag = {t, u}
    Content = {v1, v2}
    Absent = Absent
    None = None
    Uses <- AllUses
    PastEnd = {f, g, None}
SYMMETRY Interchange
INVARIANTS TypeOK IndexTruthful TagsFindFiles ContentsBehindIndex
PROPERTIES ServesTable
