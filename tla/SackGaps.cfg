CONSTANTS
  TsnLimit = 36
  GapLimit = 4
  kMaxAcceptedOutstandingFragments = 6
  kMaxDuplicateTsnReported = 1
  kMaxGapAckBlocksReported = 2
  InitialTsn = 33
  MaxChunks = 8
  PeerWindow = 6
  NetworkDelay = 4
  MaxBundle = 2
SPECIFICATION Spec
INVARIANTS SackIsTrue
