SPECIFICATION FairSpec
CONSTANTS
  RestartSec = 1
  StartLimitInterval = 4
  StartLimitBurst = 2
  MaxEvents = 3
INVARIANTS
  StaysDown
  NoRestartStorm
  LogDamageBounded
PROPERTIES
  CrashedComesBack
