CONSTANTS
  ByteBits = 3
  WordBits = 8
  Slack = 2
  Small = 2
  Jobs <- MCJobs
SPECIFICATION Spec
INVARIANTS PacketsRead TruncatedRefused
CHECK_DEADLOCK FALSE
