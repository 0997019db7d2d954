----------------------------- MODULE TempReport -----------------------------
(***************************************************************************)
(* Temperatures on their way into the service: the reports of the HDI, the *)
(* emulation of the shell's dumper, and the history and rise rates that    *)
(* ThermalServiceSubscriber keeps of them.  A report has passed the check  *)
(* of isTempReport_ before it waits for mutex_, which the dumper holds     *)
(* while it throws the switch.  The HDI makes one callback at a time, but  *)
(* every request that reads the temperatures reports them on its own       *)
(* thread, so several reports may wait.                                    *)
(*                                                                         *)
(* What the observers and the policy do with a report is in TempNotify and *)
(* ThermalPolicy.                                                          *)
(***************************************************************************)
EXTENDS Integers, Sequences

CONSTANTS Reporters,     \* the threads that report: the HDI's, and the requests'
          Sensors,
          Temps,         \* per sensor: the temperatures it may report
          HistoryCount,  \* historyCount_
          RateCount      \* rateCount_

ASSUME TempReportAssumption ==
    /\ \A s \in Sensors : Temps[s] \subseteq Int
    /\ HistoryCount \in Nat /\ RateCount \in Nat \ {0}

SEC_MIN_NUM == 60
THERMAL_UPDATE_PERIOD == -5

\* The reports: a temperature for some of the sensors.
TypeTempMaps ==
    UNION {{m \in [S -> UNION {Temps[s] : s \in S}] : \A s \in S : m[s] \in Temps[s]}
              : S \in SUBSET Sensors}

VARIABLES
    isTempReport,  \* isTempReport_
    waiting,       \* per thread: <<the report>> that waits for mutex_, or empty
    typeTempMap,   \* typeTempMap_
    history,       \* typeHistoryMap_, newest temperature first
    rates          \* sensorsRateMap_, newest rate last

tempVars == <<isTempReport, waiting, typeTempMap, history, rates>>

-----------------------------------------------------------------------------
\* The sum that a loop over x accumulates.
Sum(x) ==
    LET sum[n \in 0 .. Len(x)] == IF n = 0 THEN 0 ELSE sum[n - 1] + x[n]
    IN  sum[Len(x)]

\* n * sum(xi * yi) - sum(xi) * sum(yi)
Slope(x, y) == Len(x) * Sum([i \in 1 .. Len(x) |-> x[i] * y[i]]) - Sum(x) * Sum(y)

\* The times of n reports, taken to be five seconds apart, newest first.
Times(n) == [i \in 1 .. n |-> (i - 1) * THERMAL_UPDATE_PERIOD]

\* A rate is a fraction: the code divides in floating point.
Rate(num, den) == [num |-> num, den |-> den]

\* Mutant: the oldest temperature is taken for the newest.
GetThermalRiseRateReversed(q) ==
    LET n == Len(q)
        time == [i \in 1 .. n |-> (n - i) * THERMAL_UPDATE_PERIOD]
        calcTime == Slope(time, time)
    IN  IF n < HistoryCount \/ calcTime = 0 THEN Rate(0, 1)
        ELSE Rate(Slope(time, q) * SEC_MIN_NUM, calcTime)

\* The least-squares slope over the last reports, per minute.
GetThermalRiseRate(q) ==
    LET time == Times(Len(q))
        calcTime == Slope(time, time)
    IN  IF Len(q) < HistoryCount \/ calcTime = 0 THEN Rate(0, 1)
        ELSE Rate(Slope(time, q) * SEC_MIN_NUM, calcTime)

PushHistory(q, temp) ==
    <<temp>> \o IF Len(q) >= HistoryCount THEN SubSeq(q, 1, Len(q) - 1) ELSE q

PushRate(q, rate) == Append(IF Len(q) >= RateCount THEN Tail(q) ELSE q, rate)

Of(map, s) == IF s \in DOMAIN map THEN map[s] ELSE << >>

\* Every sensor that was ever reported gets a rate again.
SetHistoryTypeTempMap(report) ==
    IF HistoryCount <= 1 THEN UNCHANGED <<history, rates>>
    ELSE /\ history' = [s \in DOMAIN history \cup DOMAIN report |->
                           IF s \in DOMAIN report THEN PushHistory(Of(history, s), report[s])
                           ELSE history[s]]
         /\ rates' = [s \in DOMAIN history' |->
                           PushRate(Of(rates, s), GetThermalRiseRate(history'[s]))]

OnTemperatureChanged(report) ==
    IF DOMAIN report = {} THEN UNCHANGED <<typeTempMap, history, rates>>
    ELSE typeTempMap' = report /\ SetHistoryTypeTempMap(report)

-----------------------------------------------------------------------------

\* A callback of the HDI, or GetThermalInfo, up to the lock; a report while
\* reporting is stopped is dropped.
HandleThermalCallbackEvent(t, report) ==
    /\ waiting[t] = << >> /\ isTempReport
    /\ waiting' = [waiting EXCEPT ![t] = <<report>>]
    /\ UNCHANGED <<isTempReport, typeTempMap, history, rates>>

\* The rest of it, under mutex_.
ReportUnderLock(t) ==
    /\ waiting[t] # << >>
    /\ waiting' = [waiting EXCEPT ![t] = << >>]
    /\ OnTemperatureChanged(waiting[t][1])
    /\ UNCHANGED isTempReport

\* ShellDump and Dump hold mutex_ for the whole command.
SwitchTempReport(on) ==
    /\ isTempReport' = on
    /\ UNCHANGED <<waiting, typeTempMap, history, rates>>

\* Emulated temperatures are refused while reporting is on.
EmulateTempReport(report) ==
    /\ DOMAIN report # {} /\ ~ isTempReport
    /\ OnTemperatureChanged(report)
    /\ UNCHANGED <<isTempReport, waiting>>

-----------------------------------------------------------------------------
TempInit ==
    /\ isTempReport = TRUE /\ waiting = [t \in Reporters |-> << >>]
    /\ typeTempMap = << >> /\ history = << >> /\ rates = << >>

TempNext ==
    \/ \E report \in TypeTempMaps :
          \/ \E t \in Reporters : HandleThermalCallbackEvent(t, report)
          \/ EmulateTempReport(report)
    \/ \E t \in Reporters : ReportUnderLock(t)
    \/ \E on \in BOOLEAN : SwitchTempReport(on)

-----------------------------------------------------------------------------
(* Properties.                                                              *)

\* The rates follow the temperatures: the newest rate of a sensor belongs to
\* its history as it stands; it is positive when the history never fell and
\* rose, negative when it never rose and fell, and 0 while the history is
\* short.  A sensor that is no longer reported keeps the rate of its last
\* temperatures.
RatesFollowHistory ==
    /\ DOMAIN rates = DOMAIN history
    /\ \A s \in DOMAIN history :
        LET q == history[s]
            rate == rates[s][Len(rates[s])]
            pairs == 1 .. Len(q) - 1
            notFell == \A i \in pairs : q[i] >= q[i + 1]
            notRose == \A i \in pairs : q[i] <= q[i + 1]
        IN  /\ Len(q) \in 1 .. HistoryCount /\ Len(rates[s]) \in 1 .. RateCount
            /\ rate.den > 0
            /\ Len(q) < HistoryCount \/ (notFell /\ notRose) => rate.num = 0
            /\ Len(q) = HistoryCount /\ notFell /\ ~ notRose => rate.num > 0
            /\ Len(q) = HistoryCount /\ notRose /\ ~ notFell => rate.num < 0
=============================================================================
