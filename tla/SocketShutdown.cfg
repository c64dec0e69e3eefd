CONSTANTS
  A = A
  B = B
  Peers = {A, B}
  Tags = {1, 2, 3, 4, 5, 6, 7, 8, 9, 10, 11, 12}
  MaxRetransmissions = 1
  CwndInitial = 1
  Budgets <- RetriesAndShutdowns
  ShutdownFrom = {"CookieWait", "Established", "ShutdownReceived"}
  CloseFrom = {}
SPECIFICATION FairSpec
INVARIANTS WaitingIsArmed
PROPERTIES ShutdownDeliversAll HandshakeEnds ShutdownEnds
CHECK_DEADLOCK FALSE
