SPECIFICATION Spec
CONSTANTS
    Docs = {d1}
    NoDoc = NoDoc
    Handlers = {h1}
    Jobs = {j1}
    MaxVersion = 1
    MaxMade = 2
    Named = FALSE
    MaxFaults = 0
    MaxCrashes = 1
    Copied = FALSE
INVARIANTS IdsNameOneDocument
CHECK_DEADLOCK FALSE
