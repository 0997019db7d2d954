\* Three temperatures of one sensor, one of another; both come and go.  Values
\* below and above every limit of the idle section; three airplane events.  Two
\* threads report.
SPECIFICATION Spec
CONSTANTS
    Reporters = {hdi, request}
    Sensors = {"soc", "shell"}
    Temps <- MCTemps
    HistoryCount = 3
    RateCount = 2
    Socs = {50, 80}
    ChargeStates = {1, 2, 7}
    Currents = {999, 2000}
    Levels = {1, 3}
    IdleConfig <- MCIdleConfig
    MaxEvents = 3
SYMMETRY MCSymmetry
INVARIANTS
    RatesFollowHistory
    IdleTold
    AirplaneGivenBack
