SPECIFICATION Spec
CONSTANTS
    Docs = {d1, d2}
    NoDoc = NoDoc
    Handlers = {h1}
    Jobs = {j1, j2}
    MaxVersion = 2
    MaxMade = 2
    Named = TRUE
    MaxFaults = 1
    MaxCrashes = 1
    Copied = TRUE
INVARIANTS TypeOK QuietHasRows SoloSnapshotConverges
PROPERTIES ImplementsDocLife
SYMMETRY Symmetry
CHECK_DEADLOCK FALSE
