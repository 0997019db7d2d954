----------------------------- MODULE Protector -----------------------------
(***************************************************************************)
(* The thermal protector (application/protector): a stand-alone process    *)
(* that reads the kernel's thermal zones from a timer and writes cooling    *)
(* limits to device nodes before the thermal service runs.                  *)
(*                                                                         *)
(* A document of the kernel configuration is a sequence of control nodes,  *)
(* a control node a sequence of zones [type, interval, desc, items], an    *)
(* item a level with its two thresholds and its actions [name, value].     *)
(* The reads of sysfs, the timer and the device nodes are external: a read *)
(* gives any temperature or fails, a write succeeds or fails.              *)
(***************************************************************************)
EXTENDS Integers, Sequences, FiniteSets, SequencesExt, Functions

CONSTANTS Docs,        \* the documents a configuration file may hold, by name
          Zones,       \* the zone types of sysfs and of the documents
          Actions,     \* action names; KnownActions have a class
          KnownActions,
          Temps,       \* temperatures a zone may report
          NoTemp       \* a read that failed

NoFile == "no_file"   \* absent
BadFile == "bad_file" \* there, and not readable as XML
Unset == -1

\* LoopingThreadEntry leaves its loop after this many wake-ups
END_TIME == 2
MS_PER_SECOND == 1000

ActionItems == [name : Actions, value : Nat]
ZoneItems == [level : Nat, threshold : Int, thresholdClr : Int, actions : Seq(ActionItems)]
ZoneRecords == [type : Zones, interval : Nat, desc : BOOLEAN, items : Seq(ZoneItems)]

ASSUME ProtectorAssumption ==
    /\ KnownActions \subseteq Actions
    /\ Temps \subseteq Int /\ NoTemp \notin Temps
    /\ \A file \in DOMAIN Docs : Docs[file] \in Seq(Seq(ZoneRecords))
    /\ NoFile \notin DOMAIN Docs /\ BadFile \notin DOMAIN Docs

VARIABLES
    phase,       \* "start", "looping", "ended", "failed", "aborted"
    tzInfoMap,   \* the zones of the configuration, by type
    levelAction, \* policy entries [name, level, vAction] in file order
    maxCd,       \* common divisor of the intervals
    multiple,    \* per configured zone: its interval in wake-ups
    path,        \* the configured zones whose sysfs path is known
    latestLevel, \* per configured zone
    levelMap,    \* the level the policy decides with, per zone read so far
    execCount,   \* how often executeActionList_, never cleared, names an action
    act,         \* per action: latestvalue_, the static value of Execute, what
                 \* its device node holds, and (history) whether the last
                 \* write to the node failed
    reportTime,
    timeCount,
    wanted       \* history: the value a decision last asked for

protectorVars ==
    <<phase, tzInfoMap, levelAction, maxCd, multiple, path, latestLevel, levelMap, execCount,
      act, reportTime, timeCount, wanted>>

-----------------------------------------------------------------------------
(* Levels of a zone.  The ascending and the descending judgment differ      *)
(* only in the direction of their comparisons.                              *)

Reached(zone, i, t) ==
    IF zone.desc THEN t <= zone.items[i].threshold ELSE t >= zone.items[i].threshold

Cleared(zone, i, t) ==
    IF zone.desc THEN t > zone.items[i].thresholdClr ELSE t < zone.items[i].thresholdClr

HandleNextUpTemp(zone, level, t) ==
    LET up == {j \in level + 1 .. Len(zone.items) :
                  \A i \in level + 1 .. j : Reached(zone, i, t)}
    IN  IF up = {} THEN level ELSE zone.items[Max(up)].level

\* Mutant: one level down, whatever the temperature clears.
HandleCurDownTempOne(zone, level, t) ==
    IF level > 0 /\ Cleared(zone, level, t) THEN zone.items[level].level - 1 ELSE level

HandleCurDownTemp(zone, level, t) ==
    LET down == {j \in 1 .. level : \A i \in j .. level : Cleared(zone, i, t)}
        l == zone.items[Min(down)].level
    IN  IF down = {} THEN level ELSE IF l > 0 THEN l - 1 ELSE 0

\* A zone without items makes vector::at throw.
JudgmentThrows(zone, level) == level = 0 /\ zone.items = << >>

Judgment(zone, level, t) ==
    LET n == Len(zone.items)
    IN  CASE level > 0 /\ level < n ->
                 (CASE Reached(zone, level + 1, t) -> HandleNextUpTemp(zone, level, t)
                    [] Cleared(zone, level, t) /\ ~ Reached(zone, level + 1, t) ->
                           HandleCurDownTemp(zone, level, t)
                    [] OTHER -> zone.items[level].level)
          [] level = n -> HandleCurDownTemp(zone, level, t)
          [] level = 0 /\ n > 0 -> HandleNextUpTemp(zone, level, t)
          [] level > n -> level

-----------------------------------------------------------------------------
(* The configuration.                                                       *)

\* vAction is not cleared between the items of a zone: the entry of a level
\* also holds the actions of the items before it.
ParseSubNode(zone) ==
    [i \in DOMAIN zone.items |->
        [name |-> zone.type, level |-> zone.items[i].level,
         vAction |-> FlattenSeq([j \in 1 .. i |-> zone.items[j].actions])]]

\* The first zone of a type is kept.
ZoneMap(control) ==
    [type \in {control[i].type : i \in DOMAIN control} |->
        control[Min({i \in DOMAIN control : control[i].type = type})]]

ParseControlNode(control) == FlattenSeq([i \in DOMAIN control |-> ParseSubNode(control[i])])

\* Every control node replaces the zones; g_levelActionList accumulates.
ParsedZones(doc) == IF doc = << >> THEN << >> ELSE ZoneMap(doc[Len(doc)])
ParsedLevelAction(doc) == FlattenSeq([i \in DOMAIN doc |-> ParseControlNode(doc[i])])

Readable(file) == file \notin {NoFile, BadFile}

\* The file that is used: the one of the policy path when there is one, even a
\* bad one, else the vendor's, else the system's.
ConfigFile(policyPath, vendor, system) ==
    IF policyPath # NoFile THEN policyPath
    ELSE IF Readable(vendor) THEN vendor ELSE system

GetMaxCommonDivisor[a \in Nat, b \in Nat] ==
    IF b = 0 THEN 0 ELSE IF a % b = 0 THEN b ELSE GetMaxCommonDivisor[b, a % b]

\* intervals in the order of the zone map, which no property depends on
GetIntervalCommonDivisor(intervals) ==
    IF intervals = << >> THEN 0
    ELSE FoldLeft(LAMBDA cd, i : GetMaxCommonDivisor[cd, i], intervals[1], Tail(intervals))

\* With divisor 0 multiple_ stays uninitialized; the timer is then never armed.
SetMultiples(zones, cd) ==
    [z \in DOMAIN zones |-> IF cd = 0 THEN Unset ELSE zones[z].interval \div cd]

\* The configured zones that the scan of sysfs found.
ParseThermalZoneInfo(found, zones) == found \cap DOMAIN zones

\* ThermalDeviceControl::Init: an action class per known name
ThermalActionMap == KnownActions

Armed == maxCd \div MS_PER_SECOND > 0

Configure(file, found) ==
    LET zones == IF Readable(file) THEN ParsedZones(Docs[file]) ELSE << >>
        entries == IF Readable(file) THEN ParsedLevelAction(Docs[file]) ELSE << >>
        types == SetToSeq(DOMAIN zones)
        cd == GetIntervalCommonDivisor([i \in DOMAIN types |-> zones[types[i]].interval])
    IN  /\ phase' = IF entries = << >> THEN "failed" ELSE "looping"
        /\ tzInfoMap' = zones
        /\ levelAction' = entries
        /\ maxCd' = cd
        /\ multiple' = SetMultiples(zones, cd)
        /\ path' = ParseThermalZoneInfo(found, zones)
        /\ latestLevel' = [z \in DOMAIN zones |-> 0]

ThermalKernelServiceInit ==
    /\ phase = "start"
    /\ \E policyPath, vendor, system \in DOMAIN Docs \cup {NoFile, BadFile},
          found \in SUBSET Zones :
            Configure(ConfigFile(policyPath, vendor, system), found)
    /\ UNCHANGED <<levelMap, execCount, act, reportTime, timeCount, wanted>>

-----------------------------------------------------------------------------
(* A wake-up of the timer.                                                  *)

\* ReportThermalZoneData: the zones due at this report whose path is known
Due(time) == {z \in path : multiple[z] # 0 /\ time % multiple[z] = 0}

\* emplace keeps the entry that is already there
LevelDecision(levels, read) ==
    [z \in DOMAIN levelMap \cup read |-> IF z \in DOMAIN levelMap THEN levelMap[z] ELSE levels[z]]

\* PolicyDecision: the actions of the entries of the decided levels, in the
\* order of the file
Decided(lm) ==
    FlattenSeq([i \in DOMAIN levelAction |->
        LET e == levelAction[i]
        IN  IF e.name \in DOMAIN lm /\ lm[e.name] = e.level THEN e.vAction ELSE << >>])

\* ActionDecision: where the decided actions name an action of the map
Asked(decided, a) == {i \in DOMAIN decided : decided[i].name = a}

\* AddActionValue overwrites: the last value decided for an action counts.
AddActionValue(decided, a, old) ==
    IF Asked(decided, a) = {} THEN old ELSE decided[Max(Asked(decided, a))].value

Written(s, writable) ==
    [s EXCEPT !.value = s.latest, !.node = IF writable THEN s.latest ELSE s.node,
              !.failed = ~ writable]

\* Mutant: a limit below the one in force is not written.
ExecuteRaise(s, writable) ==
    IF s.value < s.latest THEN Written(s, writable) ELSE [s EXCEPT !.latest = 0]

\* Execute of the three classes, which do not depend on one another.  The
\* value is stored also when the node cannot be written.
Execute(s, writable) ==
    IF s.value # s.latest THEN Written(s, writable) ELSE [s EXCEPT !.latest = 0]

\* ActionExecution runs an action once for every time the list names it.  From
\* the fourth run on nothing changes: latest and value are then 0.
ActionExecution(s, times, writable) ==
    LET run(x) == Execute(x, writable)
    IN  CASE times = 0 -> s
          [] times = 1 -> run(s)
          [] times = 2 -> run(run(s))
          [] times = 3 -> run(run(run(s)))
          [] OTHER -> run(run(run(run(s))))

\* reportTime_ restarts when the slowest zone was due
ResetCount(time) ==
    LET multiples == {multiple[z] : z \in DOMAIN tzInfoMap} \ {0}
    IN  IF multiples # {} /\ time = Max(multiples) THEN 0 ELSE time

ReadZones(reading) == {z \in DOMAIN reading : reading[z] # NoTemp}

UpdateThermalLevel(reading) ==
    [z \in DOMAIN tzInfoMap |->
        IF z \in ReadZones(reading) THEN Judgment(tzInfoMap[z], latestLevel[z], reading[z])
        ELSE latestLevel[z]]

TimerProvisionCallback(reading, bad) ==
    LET levels == UpdateThermalLevel(reading)
        lm == LevelDecision(levels, ReadZones(reading))
        decided == Decided(lm)
        listed == [a \in ThermalActionMap |-> execCount[a] + Cardinality(Asked(decided, a))]
    IN  /\ latestLevel' = levels
        /\ levelMap' = lm
        /\ execCount' = listed
        /\ act' = [a \in ThermalActionMap |->
                      ActionExecution(
                          [act[a] EXCEPT !.latest = AddActionValue(decided, a, act[a].latest)],
                          listed[a], a \notin bad)]
        /\ wanted' = [a \in ThermalActionMap |-> AddActionValue(decided, a, wanted[a])]
        /\ reportTime' = ResetCount(reportTime + 1)

\* One turn of LoopingThreadEntry.
WakeUp ==
    /\ phase = "looping" /\ Armed /\ timeCount # END_TIME
    /\ \E reading \in [Due(reportTime + 1) -> Temps \cup {NoTemp}], bad \in SUBSET KnownActions :
        IF \E z \in ReadZones(reading) : JudgmentThrows(tzInfoMap[z], latestLevel[z])
        THEN /\ phase' = "aborted"
             /\ UNCHANGED <<latestLevel, levelMap, execCount, act, wanted, reportTime, timeCount>>
        ELSE /\ TimerProvisionCallback(reading, bad)
             /\ timeCount' = timeCount + 1
             /\ UNCHANGED phase
    /\ UNCHANGED <<tzInfoMap, levelAction, maxCd, multiple, path>>

LoopEnds ==
    /\ phase = "looping" /\ timeCount = END_TIME
    /\ phase' = "ended"
    /\ UNCHANGED <<tzInfoMap, levelAction, maxCd, multiple, path, latestLevel, levelMap,
                   execCount, act, reportTime, timeCount, wanted>>

-----------------------------------------------------------------------------
ProtectorInit ==
    /\ phase = "start"
    /\ tzInfoMap = << >> /\ levelAction = << >> /\ maxCd = 0
    /\ multiple = << >> /\ path = {} /\ latestLevel = << >>
    /\ levelMap = << >> /\ execCount = [a \in ThermalActionMap |-> 0]
    /\ act = [a \in ThermalActionMap |-> [latest |-> 0, value |-> 0, node |-> Unset, failed |-> FALSE]]
    /\ reportTime = 0 /\ timeCount = 0
    /\ wanted = [a \in ThermalActionMap |-> Unset]

ProtectorNext == ThermalKernelServiceInit \/ WakeUp \/ LoopEnds

ProtectorSpec == ProtectorInit /\ [][ProtectorNext]_protectorVars

-----------------------------------------------------------------------------
(* Properties.                                                              *)

\* A zone whose items are numbered from 1 and whose thresholds leave a band
\* between reaching and clearing, as in the shipped configuration.
Banded(zone) ==
    /\ zone.items # << >>
    /\ \A i \in DOMAIN zone.items :
        LET item == zone.items[i]
        IN  /\ item.level = i
            /\ IF zone.desc THEN item.thresholdClr >= item.threshold
               ELSE item.thresholdClr <= item.threshold

\* A level is settled at a temperature when the next one is not reached and
\* the level itself is not cleared.
Settled(zone, l, t) ==
    /\ l = Len(zone.items) \/ ~ Reached(zone, l + 1, t)
    /\ l = 0 \/ ~ Cleared(zone, l, t)

\* Whatever level a zone is at and whatever it reads, AscJudgment and
\* DescJudgment move it to the nearest settled level and leave a settled level
\* alone: one reading is enough and no hysteresis band is skipped.
JudgmentSettles ==
    \A z \in DOMAIN tzInfoMap : \A l \in 0 .. Len(tzInfoMap[z].items), t \in Temps :
        Banded(tzInfoMap[z]) =>
        LET m == Judgment(tzInfoMap[z], l, t)
            between == IF m > l THEN l .. m - 1 ELSE m + 1 .. l
        IN  /\ Settled(tzInfoMap[z], m, t)
            /\ \A k \in between : ~ Settled(tzInfoMap[z], k, t)

\* A limit that a decision asked for is what the device node holds afterwards,
\* unless the last write of the action failed or executeActionList_ names it
\* more than once.  A write that failed is not made up for, but does no harm
\* beyond the next limit that is written; an action named twice takes its
\* unchanged value for a reset and may leave the node with 0, never with the
\* limit of another level.  A node is left unwritten only by a limit of 0, the
\* value Execute starts from.
LimitInForce ==
    \A a \in KnownActions : ~ act[a].failed =>
        /\ execCount[a] = 1 => act[a].node = wanted[a] \/ act[a].node = Unset
        /\ execCount[a] > 1 => act[a].node \in {wanted[a], 0, Unset}
        /\ execCount[a] > 0 /\ act[a].node = Unset => wanted[a] = 0
=============================================================================
