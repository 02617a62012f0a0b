SPECIFICATION Spec
CONSTANTS
    r1 = r1
    r2 = r2
    r3 = r3
    m1 = m1
    m2 = m2
    Requests = {r1, r2, r3}
    Msgs = {m1, m2}
    MsgOf <- MCMsgOf
    Acked <- NoneAcked
    MaxRestarts = 1
SYMMETRY Symmetry
INVARIANTS TypeOK AnsweredOnce CancelledStoresNothing ReplayIsOwn DoneHasAnswer
CHECK_DEADLOCK FALSE
