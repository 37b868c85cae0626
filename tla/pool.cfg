SPECIFICATION FairSpec
CONSTANTS
  w1 = w1
  w2 = w2
  Workers <- TwoWorkers
  NumTasks = 4
  MaxFaults = 1
INVARIANTS AtMostOnce CountersExact QuietExit InterruptReportExact
PROPERTIES PoolTerminates ImplementsUploadPool
