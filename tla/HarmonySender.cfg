\* Two processes on one account, one RPC failure, one lost transaction.
CONSTANTS
  Procs = {p1, p2}
  Batches = {b1, b2, b3}
  NoBatch = NoBatch
  BatchLen = 2
  MaxPool = 5
  MaxBacklog = 1
  MaxFails = 1
  MaxDrops = 1
  MaxReverts = 1
SPECIFICATION Spec
SYMMETRY SenderSymmetry
CHECK_DEADLOCK FALSE
INVARIANTS TypeOK ExecutedInOrder NoGapUnlessLost
PROPERTY ConflictHasWinner
