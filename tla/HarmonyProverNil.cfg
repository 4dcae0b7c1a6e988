CONSTANTS
  Relayers = {r1}
  ShardId = 1
  MaxBeacon = 3
  MaxShard = 1
  MaxFails = 0
  MaxUint64 = 9
SPECIFICATION Spec
INVARIANTS
  QueryNeverPanics
CHECK_DEADLOCK FALSE
