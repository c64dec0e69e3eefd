SPECIFICATION FairSpec
CONSTANTS
 Scripts <- AllScripts
 data_chunk_header_size = 4
 Mtu = 12
 PacketHeader = 3
 ForwardTsnSize = 3
 cwnd_mtus_initial = 2
 cwnd_mtus_min = 1
 max_burst = 2
 InitialRwnd = 100
 ARwnds <- MayClose
 SizeLimit = 1048576
 max_retransmissions = 1
 MaxLoss = 1
 MaxSacks = 2
INVARIANTS Consistent Timed DeliveredIsReceived
PROPERTIES InCwnd Implements AllEnd
CHECK_DEADLOCK FALSE
