SPECIFICATION Spec
CONSTANTS
    t1 = t1
    t2 = t2
    s1 = s1
    s2 = s2
    s3 = s3
    Turns = {t1, t2}
    NoTurn = NoTurn
    Specialists = {s1, s2, s3}
    Picks <- OnePick
    Refusing <- NoneRefuses
    Fallible <- FirstFallible
    MaxConc = 2
INVARIANTS ReportsReachTheirTurn
CHECK_DEADLOCK FALSE
