CONSTANTS
  Node <- MCNode
  Root = 1
  Cases <- AllCases
  Strings <- MCStrings
  InlineMax = 2
  Cuts <- MCCuts
  MaxDepth = 20
  Long <- MCLong
SPECIFICATION RTSpec
INVARIANTS SeenOffsetsValid BackReferencesResolve FixupFindsWeaken
  NoReject RoundTripIso ConsumesDocument TrackedAlive TruncationDetected
PROPERTY RoundTripEnds
