SPECIFICATION Spec
CONSTANTS
    Docs = {d1}
    NoDoc = NoDoc
    Handlers = {h1, h2}
    Jobs = {j1, j2}
    MaxVersion = 1
    MaxMade = 1
    Named = TRUE
    MaxFaults = 0
    MaxCrashes = 1
    Copied = FALSE
INVARIANTS RemovedStaysRemoved
CHECK_DEADLOCK FALSE
