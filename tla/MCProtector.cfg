\* The shipped configuration and two odd ones; both wake-ups of the process.
SPECIFICATION ProtectorSpec
CONSTANTS
    Docs <- MCDocs
    Temps <- MCTemps
    Zones = {"soc", "gpu", "battery"}
    Actions = {"current", "cpu", "fan"}
    KnownActions = {"current", "cpu"}
    NoTemp = NoTemp
CHECK_DEADLOCK FALSE
INVARIANTS
    JudgmentSettles
    LimitInForce
