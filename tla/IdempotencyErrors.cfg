SPECIFICATION Spec
CONSTANTS
    r1 = r1
    r2 = r2
    r3 = r3
    s1 = s1
    s2 = s2
    k1 = k1
    b1 = b1
    b2 = b2
    Nobody = Nobody
    Attempt = {r1, r2}
    Server = {s1, s2}
    Key = {k1}
    Body = {b1, b2}
    ServerOf <- MCServerOf
    KeyOf <- MCKeyOf
    BodyOf <- SameBody
    TTL = 1
    MaxTime = 1
INVARIANT ErrorsNotReplayed
CHECK_DEADLOCK FALSE
