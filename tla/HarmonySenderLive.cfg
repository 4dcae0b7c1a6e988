\* One process alone on its account.
CONSTANTS
  Procs = {p1}
  Batches = {b1, b2, b3, b4}
  NoBatch = NoBatch
  BatchLen = 2
  MaxPool = 6
  MaxBacklog = 1
  MaxFails = 1
  MaxDrops = 1
  MaxReverts = 1
SPECIFICATION FairSpec
CHECK_DEADLOCK FALSE
PROPERTY LoneSenderSucceeds
