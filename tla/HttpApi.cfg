\* Programs in casts of up to two, with two mishaps; one upload of each document.
SPECIFICATION Spec
CONSTANTS
  Scheduler = Scheduler  WorkerA = WorkerA  WorkerB = WorkerB  Astray = Astray
  Script = Script  Ci = Ci  Trigger = Trigger  Page = Page
  Casts <- MCCasts
  Kind <- MCKind
  BoundTo <- MCBoundTo
  Works <- MCWorks
  Queues = {"default", "gpu-2"}
  NoQueue = "none"
  Documents <- MCDocuments
  NoDocument = NoDocument
  KeysAreUnique <- HasUniqueKeys
  Parses <- ParseFlow
  MaxMishaps = 2
  Words = {"f", "g", "a", "b", "c", "x", "y", "work", "again", "sub", "given", "string", "item", "index",
    "default", "nul", "loop", "range", "over", "queue", "tasks"}
  QueueWords = {"gpu-2", "1st"}
  Digits = {"1", "0", "2", "3"}
  Nul = "nul"
INVARIANTS
  EndsOnlyForItsToken
  WorkersKeepToQueue
  StoredFlowsAreWhole
PROPERTIES
  OutagesDecideNothing
CHECK_DEADLOCK FALSE
