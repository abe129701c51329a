SPECIFICATION RegistrySpec
CONSTANTS
  Handles = {h1, h2}
  draft = draft
  revision = revision
  Scenarios = {draft, revision}
  Parent <- MCParent
  Artifacts <- MCArtifacts
  Overlap = TRUE
  MaxFailures = 0
  MaxLines = 3
  NoScenario = NoScenario
  NoAnalysis = NoAnalysis
  Garbage = Garbage
  Refused = Refused
  Closed = Closed
CHECK_DEADLOCK FALSE
INVARIANTS
  LogOpens
