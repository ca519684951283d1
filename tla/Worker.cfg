\* Calls that fail do so while connecting, within 10 seconds.
SPECIFICATION FairSpec
CONSTANTS
  w1 = w1  w2 = w2
  Workers = {w1, w2}
  LeaseTime = 12
  BeatEvery = 4
  FailTime = 2
  MaxMishaps = 2
INVARIANTS
  OneMissedBeatKeepsTask
  HandlersApart
PROPERTIES
  StopReturns
CHECK_DEADLOCK FALSE
