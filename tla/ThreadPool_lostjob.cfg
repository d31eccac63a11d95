\* One worker, one job: the signal may come before the worker waits.
SPECIFICATION FairSpec
CONSTANTS
  d1 = d1
  d2 = d2
  j1 = j1
  j2 = j2
  j3 = j3
  NoJob = NoJob
  NWorkers = 1
  Dispatchers <- OneDispatcher
  Jobs <- TwoJobs
PROPERTIES EveryJobHandled
CHECK_DEADLOCK FALSE
