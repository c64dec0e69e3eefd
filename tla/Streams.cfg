SPECIFICATION FairSpec
CONSTANTS
  Scripts <- AllScripts
  StreamIds = {1, 2}
  SeqLimit = 8
  FirstSsn = 0
  data_chunk_header_size = 0
  Window = 2
  MaxFaults = 1
  MaxRequests = 2
INVARIANTS TypeOK InOrder AllDelivered QueuedBytes NeverFails
PROPERTY ResetsEnd
CHECK_DEADLOCK FALSE
