CONSTANTS
  Scenes = {s1}
  NoFrame = NoFrame
  MotionThread = MotionThread
  Clients = {c1, c2}
  MotionSettings = {TRUE, FALSE}
  MaxFrames = 2
  MaxFaults = 1
  Cooldown = 1
  CountLimit = 1
  MaxTime = 1
SPECIFICATION Spec
SYMMETRY ClientSymmetry
CONSTRAINT SmallInstance
INVARIANTS
  TypeOK
  ClientsCounted
  StateOutlivesThreads
  NoLostWakeup
  ExitCodeHonest
PROPERTIES
  ImplementsMotionPath
