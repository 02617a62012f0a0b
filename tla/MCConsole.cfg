SPECIFICATION ConsoleSpec
CHECK_DEADLOCK FALSE
CONSTANTS
    Actors = {"u1", "u2", "u3"}
    MaxRequests = 3
    MaxInFlight = 2
    MemoryRows = 6
    MemoryRequests = 4
    ChannelRequests = 4
    DecisionRequests = 5
    HistoryLimit = 2
    MaxCaptures = 3
    MediaKept = 2
    Procs = {"p1", "p2"}
    Deliverers = {"p1"}
    MaxRuns = 3
INVARIANTS
    TypeOK
    ApprovedBeforeEffect
    ClearedBeforeUse
    ShownAsIs
    RecordsAgree
    DerivedAgrees
    Audited
    DutiesSeparated
    AppliedOnce
PROPERTIES
    SettledStays
    PublishedStays
