SPECIFICATION Spec
CONSTANTS
    p1 = p1
    p2 = p2
    j1 = j1
    j2 = j2
    k1 = k1
    ta = ta
    tb = tb
    tc = tc
    Nobody = Nobody
    Process = {p1, p2}
    Project = {j1, j2}
    ProjectOf <- OneProject
    Text = {ta, tb, tc}
    Sim <- MCSim
    Terms <- Mutable
    Task = {k1}
    MaxNote = 2
    MaxReport = 1
    Window = 50
    Seeds <- PastSeeds
SYMMETRY Twins
INVARIANTS TypeOK ArchivedWhenVisible OutcomesKept OneCheckpoint EdgesAreReal
CHECK_DEADLOCK FALSE
