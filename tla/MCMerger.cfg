CONSTANTS
  Strings <- MCStrings
  Short <- MCShort
  Hash <- MCHash
  ArenaSize = 2
  InitialSize = 2
  Docs <- MCDocs
  Valid <- Good
  Lists <- MCLists
  Options <- MCOptions
  MaxDepth = 8
  MaxCalls = 3
  MaxOffset = 12
SPECIFICATION Spec
INVARIANTS MergedIsConcatenation TablesSound
PROPERTIES CommittedKept AcceptsValid CallsEnd
