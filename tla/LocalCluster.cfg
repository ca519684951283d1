\* A cluster of two queues, with two mishaps.
SPECIFICATION FairSpec
CONSTANTS
  x1 = x1  x2 = x2
  Callers = {x1, x2}
  Queues = {"default", "gpu"}
  QueueOf <- MCQueueOf
  MaxMishaps = 2
PROPERTIES
  WaitEnds
  CloseEnds
CHECK_DEADLOCK FALSE
