SPECIFICATION Spec
CONSTANTS
  Clients = {c1, c2}
  a1 = a1
  a2 = a2
  a3 = a3
  Attempts = {a1, a2, a3}
  Terminal <- MCTerminal
  Source <- MCSource
  Trigger <- MCTrigger
  Sources <- MCSources
  Expectations <- MCExpectations
  Days = {0, 1}
  HoursPerDay = 2
  HourLength = 1
  Delay = 1
  Ceiling = 2
  MaxTime = 3
  None = None
SYMMETRY Symmetry
INVARIANTS
  JournalVerifies
  TimelyCounted
PROPERTIES
  LogSpec
