CONSTANTS
  Encoders = {0, 1, 2}
  User = 0
  Objects = {o1, o2}
  Single = {o2}
  Level = 6
  MaxCalls = 3
  MaxDepth = 2
SPECIFICATION Spec
INVARIANTS ExclusiveUse NoDanglingEncoder OnlyOwnEntries IdleIsClean
