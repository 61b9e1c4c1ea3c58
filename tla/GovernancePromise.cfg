SPECIFICATION FairSpec
CONSTANTS
    p1 = p1
    p2 = p2
    a1 = a1
    a2 = a2
    a3 = a3
    l1 = l1
    l2 = l2
    l3 = l3
    c1 = c1
    c2 = c2
    r1 = r1
    r2 = r2
    j1 = j1
    j2 = j2
    Nobody = Nobody
    Process = {p1, p2}
    Actor = {a1, a2, a3}
    Label = {l1, l2, l3}
    Change = {c1}
    Row = {r1, r2}
    Project = {j1, j2}
    ProjectOf <- OneProject
    Needed = 3
    Legacy <- OldLists
    NewPos = 3
    Seeded = {r1}
    CommitBusy = FALSE
INVARIANT AckedIsDurable
PROPERTIES KeepsPromise LockReleased
CHECK_DEADLOCK FALSE
