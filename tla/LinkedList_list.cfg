\* Two threads on a list of at most three nodes; a thread in a function runs on.
SPECIFICATION FairSpec
CONSTANTS
  t1 = t1
  t2 = t2
  t3 = t3
  a = a
  b = b
  n1 = n1
  n2 = n2
  n3 = n3
  NoData = NoData
  NULL = NULL
  NoThread = NoThread
  Data <- TwoData
  Nodes <- ThreeNodes
  Threads <- TwoThreads
INVARIANTS AssertsHold NoDanglingAccess NoLeak IInv
PROPERTIES ImplementsFifo MutexIsReleased
\* Nothing happens any more once the list is destroyed.
CHECK_DEADLOCK FALSE
