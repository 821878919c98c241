CONSTANTS
  ByteBits = 3
  WordBits = 8
  Slack = 2
  Small = 2
  Jobs <- LostJobs
SPECIFICATION Spec
INVARIANT TruncatedRefused
CHECK_DEADLOCK FALSE
