\* Two processes, two heights, one deletion.
CONSTANTS
  Procs = {p1, p2}
  Nobody = Nobody
  Attempts = 2
  MaxTip = 2
  MaxDeletes = 1
SPECIFICATION FairSpec
CHECK_DEADLOCK FALSE
INVARIANTS TypeOK LockHeldWhileOpen RelaysTheNewest SetupNotBehind
PROPERTIES DeleteForcesInit ShownHeaderIsStored EveryCommandEnds
