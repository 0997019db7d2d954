SPECIFICATION Spec
CONSTANTS
  Listeners = {l1, l2}
  AsyncListeners = {l2}
  ConfigLevels = {9}
  MaxChanges = 2
  MaxInbox = 1
INVARIANTS
  SettledCurrent
PROPERTIES
  LevelArrives
  DeadForgotten
