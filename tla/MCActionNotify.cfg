SPECIFICATION Spec
CONSTANTS
  ActionNames = {"a", "b"}
  ListenerOrder <- MCOrder
  Interest <- MCInterest
  MaxDecisions = 3
  MaxTasks = 2
INVARIANTS
  NoDecisionLost
  LastWordCurrent
PROPERTIES
  DecisionsArrive
