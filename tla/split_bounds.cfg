SPECIFICATION Spec
CONSTANTS
  Limit = 8
  MaxEvents = 4
  MaxBytes = 9
  MaxEnvelope = 9
INVARIANTS AssertionNeverFires MeetsContract FewestChunks RefusalJustified
