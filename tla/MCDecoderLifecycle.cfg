CONSTANTS
  Decoders = {0, 1, 2}
  User = 0
  Docs <- MCDocs
  ReadOnly = TRUE
  MaxCalls = 3
SPECIFICATION Spec
INVARIANTS ExclusiveUse NoDanglingDecoder OnlyOwnEntries NoInputKept ReportsOwnBytes
