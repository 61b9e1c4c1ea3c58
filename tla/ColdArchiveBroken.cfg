SPECIFICATION Spec
CONSTANTS
    Cut = Cut
    Newline = Newline
    Nobody = Nobody
    Process = {p1, p2}
    Note = {n1, n2, n3}
    LastMonth = 2
    MaxRecover = 2
    MaxCut = 1
INVARIANT AlwaysRecoverable
CHECK_DEADLOCK FALSE
