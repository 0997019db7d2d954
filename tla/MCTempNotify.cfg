SPECIFICATION TempSpec
CONSTANTS
  Types = {"soc", "battery"}
  Temps = {0, 1, 2}
  Unknown = Unknown
  TempListenerOrder <- MCOrder
  TempInterest <- MCInterest
INVARIANTS
  EveryListenerCurrent
