SPECIFICATION DelaySpec
CONSTANTS
  MaxTimers = 3
  MaxEvents = 2
INVARIANTS
  NeverStuck
  RunningTimerKnown
PROPERTIES
  UnpluggingOpensWindow
  DelaysEnd
