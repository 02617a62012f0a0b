CONSTANTS
  s1 = s1  s2 = s2  x = x  y = y
  Sessions = {s1}
  Texts = {x, y}
  MaxTurns = 2
  MaxAsks = 1
  MaxFaults = 1
SYMMETRY Symmetry
SPECIFICATION Spec
INVARIANTS TypeOK UniqueIds AbortedNeverStreams
PROPERTY HydrateKeepsUserBubbles
CHECK_DEADLOCK FALSE
