CONSTANTS
  Strings <- MCStrings
  Inputs <- MCInputs
  Sizes <- MCSizes
  Depth = 5
SPECIFICATION Spec
INVARIANTS SplitIsConcatenation ChunkSizesHonoured
PROPERTY SplittingEnds
