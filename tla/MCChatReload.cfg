CONSTANTS
  s1 = s1  s2 = s2  x = x  y = y
  Sessions = {s1}
  Texts = {x}
  MaxTurns = 1
  MaxAsks = 1
  MaxFaults = 1
SPECIFICATION FairSpec
PROPERTY ReloadedTurnSettles
CHECK_DEADLOCK FALSE
