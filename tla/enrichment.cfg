SPECIFICATION Spec
CONSTANTS
  ra = ra
  rb = rb
  norepo = norepo
  NoRepo = norepo
  Workspace <- MCWorkspace
  ContextWorkspace <- MCContextWorkspace
  RunfilesTrees = {"x.runfiles"}
  Inputs <- MCInputs
  Payloads <- MCPayloads
  Writes <- MCWrites
  Fingerprint = "secret"
  MaxRuns = 2
INVARIANTS OwnContext TagsExplained OwnersExplained
