CONSTANTS
  TsnLimit = 70
  GapLimit = 5
  kMaxAcceptedOutstandingFragments = 6
  kMaxDuplicateTsnReported = 1
  kMaxGapAckBlocksReported = 2
  InitialTsn = 67
  MaxChunks = 8
  PeerWindow = 7
  NetworkDelay = 4
  MaxBundle = 2
SPECIFICATION Spec
INVARIANTS TypeOK BlocksInOrder UnwrapsRight SackIsTrueInReach AckedInTime
PROPERTIES Implements
