SPECIFICATION Spec
CONSTANTS
    a1 = a1
    a2 = a2
    u1 = u1
    u2 = u2
    u3 = u3
    Actions = {a1}
    Users = {u1, u2, u3}
    NoUser = NoUser
    Executors = {e1}
    NoAction = NoAction
    NoStep = NoStep
    Writes = {w1}
    Approvers <- MCApprovers
    Requester <- MCRequester
    Shape <- ShapeInjected
    Blocked <- NoneBlocked
    MaxRestarts = 1
SYMMETRY Symmetry
INVARIANTS WritesThenRun
CHECK_DEADLOCK FALSE
