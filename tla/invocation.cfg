SPECIFICATION FairSpec
CONSTANTS
  none = none
  nokey = nokey
  nooutput = nooutput
  NoLabel = none
  NoKey = nokey
  NoOutput = nooutput
  AttemptDirs <- MCAttemptDirs
  Keys <- MCKeys
  Configs <- AllConfigs
  Beps <- MCBeps
  PayloadFiles <- MCPayloadFiles
  Artifacts <- MCArtifacts
  LocalTrees <- MCLocalTrees
  MaxInterrupts = 2
  FlakyDisk = TRUE
INVARIANTS UploadsUnderLock OnlyAuthorised ExitHonest ReasonHonest ReportAccounts StagingContained
PROPERTIES StagingRemovedAtRest InvocationEnds
