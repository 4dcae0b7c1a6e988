\* Bytes of 4 bits, words of 16, int32s of 8.  A message ends when it is read.
CONSTANTS
  DataBits = 3
  WordBits = 16
  IntBits = 8
SPECIFICATION Spec
CHECK_DEADLOCK FALSE
INVARIANTS
  NeverPanics
  ReadsBack
  CutIsNoticed
  JoinMerges
  HeaderSurvives
