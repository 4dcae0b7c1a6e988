\* Send returns true for a message that the contract then reverts.
CONSTANTS
  Procs = {p1}
  Batches = {b1, b2}
  NoBatch = NoBatch
  BatchLen = 1
  MaxPool = 3
  MaxBacklog = 1
  MaxFails = 0
  MaxDrops = 0
  MaxReverts = 1
SPECIFICATION Spec
CHECK_DEADLOCK FALSE
INVARIANT SendTrueIsSuccess
