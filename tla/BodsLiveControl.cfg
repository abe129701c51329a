SPECIFICATION FairSpec
CONSTANTS
  Actors = {operator, worker}
  NoActor = NoActor
  NoTime = NoTime
  NoScene = NoScene
  MinInterval = 1
  MaxAge = 1
  MaxHistory = 2
  MaxTries = 2
  MaxRedirects = 1
  MaxTime = 2
INVARIANTS
  StateReconciles
  AttemptsSpaced
  SceneBacksState
PROPERTIES
  GateSpec
  CallsReturn
