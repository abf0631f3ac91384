SPECIFICATION Calls
CONSTANTS
  SizeMax = 15
  Cooldown = 4
  CountLimit = 1
  ClockMax = 15
  MaxText = 5
  MaxSize = 12
  INT_MAX = 16777215
  UINT_MAX = 33554431
  LongMaxima = {16777215, 536870911}
  MaxMembers = 2
INVARIANTS
  LayoutExact
  ActsLikeEventGate
  LongestPrefix
  ConfigIsWhatTheFileSays
  AcceptedIsUsable

