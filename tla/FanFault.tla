------------------------------ MODULE FanFault ------------------------------
(***************************************************************************)
(* FanFaultDetect (fan_fault_detect.cpp): what a report of the fan speed   *)
(* and some temperatures says of the fan.  Reports and limits are          *)
(* functions from sensor names to values.  It keeps nothing but the limits *)
(* of the configuration.                                                   *)
(***************************************************************************)
EXTENDS Integers

FAN == "fan"
SENSOR_INVALID_VALUE == -1
FAN_FAULT_TOO_SLOW == 1
FAN_FAULT_TOO_FAST == 2

GetSensorValue(map, name) == IF name \in DOMAIN map THEN map[name] ELSE SENSOR_INVALID_VALUE

CheckFanSensorInfo(report, limits) ==
    /\ GetSensorValue(report, FAN) >= 0 /\ GetSensorValue(limits, FAN) >= 0
    /\ \A s \in DOMAIN limits : limits[s] >= 0 /\ GetSensorValue(report, s) >= 0

CheckFanTooSlow(report, limits) ==
    /\ CheckFanSensorInfo(report, limits)
    /\ report[FAN] < limits[FAN]
    /\ \E s \in DOMAIN limits \ {FAN} : report[s] > limits[s]

\* Mutant: the test of the temperatures is not negated.
CheckFanTooFastHot(report, limits) ==
    /\ CheckFanSensorInfo(report, limits)
    /\ report[FAN] > limits[FAN]
    /\ \A s \in DOMAIN limits \ {FAN} : report[s] > limits[s]

CheckFanTooFast(report, limits) ==
    /\ CheckFanSensorInfo(report, limits)
    /\ report[FAN] > limits[FAN]
    /\ \A s \in DOMAIN limits \ {FAN} : report[s] <= limits[s]

\* The faults of which OnFanSensorInfoChanged writes an event, given the map
\* of the configured faults
CheckFanFault(faults, report) ==
    {f \in DOMAIN faults : \/ f = FAN_FAULT_TOO_SLOW /\ CheckFanTooSlow(report, faults[f])
                           \/ f = FAN_FAULT_TOO_FAST /\ CheckFanTooFast(report, faults[f])}
=============================================================================
