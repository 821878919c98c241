CONSTANTS
  Node <- MCNode
  Root = 1
  Cases <- LostWeakRefCases
  Strings <- MCStrings
  InlineMax = 2
  Cuts <- Whole
  MaxDepth = 20
  Long <- MCLong
SPECIFICATION RTSpec
INVARIANT FixupFindsWeaken
