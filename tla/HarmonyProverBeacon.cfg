CONSTANTS
  Relayers = {r1, r2}
  ShardId = 0
  MaxBeacon = 4
  MaxShard = 0
  MaxFails = 1
  MaxUint64 = 9
SPECIFICATION Spec
SYMMETRY RelayerSymmetry
INVARIANTS
  UpdateCanBeVerified
CHECK_DEADLOCK FALSE
