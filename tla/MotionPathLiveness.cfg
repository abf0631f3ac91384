CONSTANTS
  Scenes = {s1, s2}
  NoFrame = NoFrame
  MotionThread = MotionThread
  Clients = {}
  MotionSettings = {TRUE, FALSE}
  MaxFrames = 2
  MaxFaults = 1
  Cooldown = 1
  CountLimit = 1
  MaxTime = 0
SPECIFICATION FairSpec
PROPERTIES
  StaleMotionCleared
  CameraRecovers
  SignalStopsThreads
