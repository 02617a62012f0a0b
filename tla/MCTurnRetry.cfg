SPECIFICATION Spec
CONSTANTS
    r1 = r1
    r2 = r2
    r3 = r3
    m1 = m1
    m2 = m2
    Requests = {r1, r2}
    Msgs = {m1, m2}
    MsgOf <- MCMsgOf
    Acked <- NoneAcked
    MaxRestarts = 0
INVARIANTS OneAnswerPerMessage
CHECK_DEADLOCK FALSE
