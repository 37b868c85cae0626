SPECIFICATION Spec
CONSTANTS
  none = none
  nokey = nokey
  nooutput = nooutput
  NoLabel = none
  NoKey = nokey
  NoOutput = nooutput
  AttemptDirs <- MCAttemptDirs
  Keys <- MCKeys
  Configs <- LoggedConfigs
  Beps <- MCBeps
  PayloadFiles <- MCPayloadFiles
  Artifacts <- MCArtifacts
  LocalTrees <- MCLocalTrees
  MaxInterrupts = 0
  FlakyDisk = FALSE
INVARIANTS StagedCopyWins
