\* The update command panics.
CONSTANTS
  Procs = {p1, p2}
  Nobody = Nobody
  Attempts = 2
  MaxTip = 2
  MaxDeletes = 0
SPECIFICATION Spec
CHECK_DEADLOCK FALSE
INVARIANT UpdateReports
