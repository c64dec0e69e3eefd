SPECIFICATION Spec
CONSTANTS
  Scripts <- AllScripts
  StreamIds = {1, 2}
  MaxSizes = {1, 2}
  max_payload_bytes = 2
  Weights = {2}
  default_inverse_weight = 1
  Thresholds = {2}
  total_low_threshold = 3
INVARIANTS IsConsistent MessageUnderWay Accounted NoStarvation
PROPERTY LowIsTold
CHECK_DEADLOCK FALSE
