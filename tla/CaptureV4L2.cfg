CONSTANTS
  Scenes = {s1}
  NoFrame = NoFrame
  MotionThread = MotionThread
  Clients = {}
  MotionSettings = {FALSE}
  BufferCount = 4
  RetryNaps = 2
  MaxFrames = 3
  MaxFaults = 2
SPECIFICATION Spec
INVARIANTS
  NothingLeaks
  BuffersAccounted
  RetriesPaced
PROPERTIES
  ImplementsCapture
