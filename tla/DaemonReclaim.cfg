CONSTANTS
  Scenes = {s1}
  NoFrame = NoFrame
  MotionThread = MotionThread
  Clients = {c1}
  MotionSettings = {FALSE}
  MaxFrames = 1
  MaxFaults = 1
  Cooldown = 1
  CountLimit = 1
  MaxTime = 0
SPECIFICATION FairSpec
PROPERTIES
  DisconnectedClientReclaimed
