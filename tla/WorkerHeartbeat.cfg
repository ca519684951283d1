\* Calls may fail by an answer that does not come, after 35 seconds.
SPECIFICATION Spec
CONSTANTS
  w1 = w1  w2 = w2
  Workers = {w1, w2}
  LeaseTime = 12
  BeatEvery = 4
  FailTime = 7
  MaxMishaps = 2
INVARIANTS
  OneMissedBeatKeepsTask
CHECK_DEADLOCK FALSE
