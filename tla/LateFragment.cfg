SPECIFICATION Spec
CONSTANTS
  Scripts <- SplitByReset
  StreamIds = {1, 2}
  SeqLimit = 8
  FirstSsn = 0
  data_chunk_header_size = 0
  Window = 2
  MaxFaults = 1
  MaxRequests = 2
INVARIANT AllDelivered
CHECK_DEADLOCK FALSE
