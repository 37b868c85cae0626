SPECIFICATION Spec
CONSTANTS
  NumEvents = 3
  MaxAttempts = 2
  Modes <- UploadOnly
  MaxInvocations = 2
  MaxDisturbances = 1
PROPERTY AcceptedNotRetained
