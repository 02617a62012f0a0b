SPECIFICATION ServerSpec
CONSTANTS
    d1 = d1
    d2 = d2
    h1 = h1
    h2 = h2
    j1 = j1
    j2 = j2
    a1 = a1
    a2 = a2
    u1 = u1
    u2 = u2
    e1 = e1
    e2 = e2
    w1 = w1
    r1 = r1
    r2 = r2
    m1 = m1
    m2 = m2
    t1 = t1
    s1 = s1
    s2 = s2
    s3 = s3
    s4 = s4
    None = None
    Turns = {t1}
    NoTurn = NoTurn
    Specialists = {s1, s2, s3, s4}
    Picks <- AllPicked
    Refusing = {s3}
    Fallible = {s2}
    MaxConc = 2
INVARIANTS
    TypeOK
    BoundedPanel
    QuietAfterMerge
PROPERTIES
    SuccessBeforeEnd
    EveryPanelEnds
    EventuallyStored
    ExecutionsEnd
    TurnsSettle
CHECK_DEADLOCK FALSE
