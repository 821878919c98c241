CONSTANTS
  Keys <- MCKeys
  Hash <- MCHash
  Values = {v1, v2}
  NULL = NULL
  InitialSize = 2
  MaxItems = 6
SPECIFICATION Spec
INVARIANTS Placed IteratesAll
PROPERTY ImplementsMap
CHECK_DEADLOCK FALSE
