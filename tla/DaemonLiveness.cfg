CONSTANTS
  Scenes = {s1}
  NoFrame = NoFrame
  MotionThread = MotionThread
  Clients = {c1}
  MotionSettings = {TRUE}
  MaxFrames = 1
  MaxFaults = 0
  Cooldown = 1
  CountLimit = 1
  MaxTime = 0
SPECIFICATION UntimedFairSpec
PROPERTIES
  StopEndsProcess
