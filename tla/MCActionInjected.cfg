SPECIFICATION Spec
CONSTANTS
    a1 = a1
    a2 = a2
    u1 = u1
    u2 = u2
    u3 = u3
    Actions = {a1, a2}
    Users = {u1, u2}
    NoUser = NoUser
    Executors = {e1, e2}
    NoAction = NoAction
    NoStep = NoStep
    Writes = {w1, w2}
    Approvers <- OneApprover
    Requester <- MCRequester
    Shape <- ShapeInjectedCall
    Blocked <- NoneBlocked
    MaxRestarts = 1
SYMMETRY Symmetry
INVARIANTS TypeOK StatusesAgree OnlyApprovedRuns StepSucceedsOnce
           RunFollowsWrites TaskDoneAgrees
PROPERTIES DecisionIsFinal
CHECK_DEADLOCK FALSE
