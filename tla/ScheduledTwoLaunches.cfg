SPECIFICATION Spec
CONSTANTS
  Supervisors = {s1, s2}
  Windows = {0, 1}
  DayLength = 4
  Tolerance = 1
  Snapshots <- MCSnapshots
  RefusalLimit = 2
  NoPid = NoPid
  Stale = Stale
  NoWindow = NoWindow
  Absent = Absent
  MaxTime = 4
INVARIANT OneSupervisor
