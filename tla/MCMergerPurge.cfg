CONSTANTS
  Strings <- MCStrings
  Short <- MCShort
  Hash <- MCHash
  ArenaSize = 2
  InitialSize = 2
  Docs <- PurgeDocs
  Valid <- Good
  Lists <- MCLists
  Options <- MCOptions
  MaxDepth = 8
  MaxCalls = 4
  MaxOffset = 12
SPECIFICATION Spec
INVARIANT PurgeStaysInside
