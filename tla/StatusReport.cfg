CONSTANTS
  Scenes = {s1}
  NoFrame = NoFrame
  MotionThread = MotionThread
  Clients = {}
  MotionSettings = {TRUE, FALSE}
  MaxTime = 4
  MaxSessions = 3
SPECIFICATION Spec
INVARIANTS
  DegradedExplained
  ErrorsInOrder
