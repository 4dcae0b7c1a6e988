SPECIFICATION FairSpec
CONSTANTS
  Procs = {p1, p2}
  Work = {w1, w2}
  MaxFaults = 3
INVARIANTS
  TypeOK
  AnswerIsFinal
  OneInFlight
PROPERTIES
  WrongSequenceOnlyForRival
  FailsOnlyIfStale
  SilentFailureOnlyIfRaced
  CommandsAreAtomic
  AllDone
