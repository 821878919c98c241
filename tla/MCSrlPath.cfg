CONSTANTS
  Strings <- MCStrings
  Programs <- MCPrograms
  Queries <- MCQueries
  Steps <- MCSteps
  Indices <- MCIndices
  MaxCalls = 4
SPECIFICATION Spec
INVARIANTS PositionSound InfoSound QueryAnswered
PROPERTY CallsEnd
CHECK_DEADLOCK FALSE
