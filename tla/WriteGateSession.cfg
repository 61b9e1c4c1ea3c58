SPECIFICATION Spec
CONSTANTS
    Absent = Absent
    a1 = a1
    a2 = a2
    n1 = n1
    t1 = t1
    r1 = r1
    r2 = r2
    r3 = r3
    r4 = r4
    Actor = {a1, a2}
    Name = {n1}
    Token = {t1}
    Request = {r1, r2}
    Wants <- MCWants
    Queue = 1
    PerWindow = 1
    Window = 2
    TTL = {1, 2}
    MaxTime = 4
INVARIANT OwnSessionIsAccepted
CHECK_DEADLOCK FALSE
