CONSTANTS
  Scenes = {s1, s2}
  NoFrame = NoFrame
  MotionThread = MotionThread
  Clients = {}
  MotionSettings = {TRUE, FALSE}
  MaxFrames = 4
  MaxFaults = 1
  Cooldown = 2
  CountLimit = 1
  MaxTime = 2
SPECIFICATION Spec
SYMMETRY SceneSymmetry
INVARIANTS
  TypeOK
  NoLostWakeup
  SessionFence
  CountHonest
  LogHealthHonest
  TornLineAnnounced
  LateEventsBounded
PROPERTIES
  EventsLimited
