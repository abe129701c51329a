SPECIFICATION Spec
CONSTANTS
  Operators = {o1, o2}
  MaxTime = 4
  LastRequest = 3
  MaxAge = 1
  MaxCount = 2
  MinNewest = 1
  NoScene = NoScene
  NoPlan = NoPlan
INVARIANTS
  ActiveSceneBacked
  FreshIsKept
  AcceptedHasQuarantine
  NewestKept
  ReceiptTrue
SYMMETRY Interchangeable
