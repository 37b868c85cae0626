SPECIFICATION FairSpec
CONSTANTS
  NumEvents = 3
  MaxAttempts = 2
  Modes <- AllModes
  MaxInvocations = 3
  MaxDisturbances = 2
INVARIANTS NoEventLost SuccessMeansDelivered DuplicatesExplained OneIdentity
PROPERTIES RetainsExactlyFailed PipelineEnds
