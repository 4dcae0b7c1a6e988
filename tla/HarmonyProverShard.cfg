\* A path on shard 1: headers come from the cross-link scan, and there are two
\* blocks of the shard to catch up with.
CONSTANTS
  Relayers = {r1, r2}
  ShardId = 1
  MaxBeacon = 4
  MaxShard = 2
  MaxFails = 0
  MaxUint64 = 9
SPECIFICATION FairSpec
INVARIANTS
  TypeOK
  HeaderIsLatestLinked
  LaterQueryNewerHeader
  NilOnlyIfNothingLinked
  UpdateCanBeVerified
  ClientKnowsSigners
PROPERTIES
  ClientCatchesUp
CHECK_DEADLOCK FALSE
