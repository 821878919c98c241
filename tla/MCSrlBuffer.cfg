\* Buffer bookkeeping through whole documents, with growth and compression.
CONSTANTS
  InitSize = 8
  MaxVarint = 3
  MagicLen = 2
  Versions = {1, 3}
  Lens <- MCLens
  Slack = 1
  MaxPos = 10
SPECIFICATION Spec
INVARIANTS BuffersSane NocheckFits OffsetsPositive TmpBufferEmpty
PROPERTY BodyPosStable
