\* Two workers and one dispatcher (the server thread), three jobs; fair threads.
SPECIFICATION FairSpec
CONSTANTS
  d1 = d1
  d2 = d2
  j1 = j1
  j2 = j2
  j3 = j3
  NoJob = NoJob
  NWorkers = 2
  Dispatchers <- OneDispatcher
  Jobs <- ThreeJobs
INVARIANTS TypeOK EachJobInOnePlace NoUseAfterFree IInv DispatchToLeastLoaded
PROPERTIES WakeupServesHead KillReachesWaitingWorker
\* The system stops once the owner has destroyed the pool.
CHECK_DEADLOCK FALSE
