SPECIFICATION FairSpec
CONSTANTS
  Writers = {w1}
  MaxSeq = 1
PROPERTY ExpiryEndsConnection
CHECK_DEADLOCK FALSE
