SPECIFICATION Spec
CONSTANTS
  nofile = nofile
  NoFile = nofile
  Paths <- FourPaths
  Stream <- FourStreams
  Facts <- ThreeFacts
  MaxRuns = 2
  MaxFiles = 3
  MaxVersion = 2
  MaxFaults = 1
INVARIANTS NoTelemetryLost FactsKept SentOnce
