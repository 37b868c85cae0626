SPECIFICATION FairSpec
CONSTANTS
  test = test
  coverage = coverage
  nofile = nofile
  NoFile = nofile
  Files <- TestAndCoverage
  Parsed = {test}
  Settings <- ThreeSettings
  Poll = 2
  Epoch = 5
  MaxWrites = 2
  MaxSlow = 2
  MaxSteps = 1
  MaxRuns = 1
INVARIANTS BoundedWait
PROPERTIES NothingOverrun DiscoveryEnds
