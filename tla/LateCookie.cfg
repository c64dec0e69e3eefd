CONSTANTS
  A = A
  B = B
  Peers = {A, B}
  Tags = {1, 2, 3, 4, 5, 6, 7, 8, 9, 10, 11, 12}
  MaxRetransmissions = 1
  CwndInitial = 1
  Budgets <- OneShutdown
  ShutdownFrom = {"Established"}
  CloseFrom = {}
SPECIFICATION Spec
INVARIANTS Consistent
CHECK_DEADLOCK FALSE
