SPECIFICATION RegistrySpec
CONSTANTS
  Handles = {h1}
  draft = draft
  revision = revision
  Scenarios = {draft, revision}
  Parent <- MCParent
  Artifacts <- MCArtifacts
  Overlap = FALSE
  MaxFailures = 1
  MaxLines = 7
  NoScenario = NoScenario
  NoAnalysis = NoAnalysis
  Garbage = Garbage
  Refused = Refused
  Closed = Closed
CHECK_DEADLOCK FALSE
INVARIANTS
  NothingSilentlyLost
  ViewsOnDisk
  TimelinesMean
