SPECIFICATION Spec
CONSTANTS
    p1 = p1
    p2 = p2
    a1 = a1
    a2 = a2
    a3 = a3
    l1 = l1
    l2 = l2
    l3 = l3
    c1 = c1
    c2 = c2
    r1 = r1
    r2 = r2
    j1 = j1
    j2 = j2
    Nobody = Nobody
    Process = {p1, p2}
    Actor = {a1, a2}
    Label = {l1, l2}
    Change = {c1, c2}
    Row = {r1, r2}
    Project = {j1, j2}
    ProjectOf <- MCProjectOf
    Needed = 2
    Legacy <- NoLegacy
    NewPos = 3
    Seeded = {r1}
    CommitBusy = TRUE
SYMMETRY Interchangeable
INVARIANTS TypeOK AppliedByQuorum RowsMatchChanges
PROPERTY RulesChangeByEnactment
CHECK_DEADLOCK FALSE
