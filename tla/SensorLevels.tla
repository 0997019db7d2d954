---------------------------- MODULE SensorLevels ----------------------------
(***************************************************************************)
(* How ThermalConfigSensorCluster turns one temperature report into the    *)
(* level of a sensor cluster (thermal_config_sensor_cluster.cpp).  The     *)
(* module has operators only; SensorCluster and ThermalPolicy keep the     *)
(* state they work on.                                                     *)
(*                                                                         *)
(* A cluster configuration is a record c with                              *)
(*   c.sensors  sensor -> sequence of [threshold, thresholdClr,            *)
(*              tempRiseRate], one per level (sensorInfolist_)             *)
(*   c.aux      sensor -> sequence of [lower, upper] (auxSensorInfolist_)  *)
(*   c.diffs    sequence of [sensor1, sensor2, tempDiff], in the level     *)
(*              order the sort in IsTempDiffTrigger leaves it in           *)
(*   c.desc, c.auxFlag, c.rateFlag, c.tempDiffFlag   the four flags        *)
(* t is a report, a function from the reported sensors to temperatures;    *)
(* rates maps a sensor to the sequence of its latest rise rates.           *)
(***************************************************************************)
EXTENDS Integers, Sequences, FiniteSetsExt

CONSTANT RateCount    \* how many rise rates make a trend (rateCount_)

(***************************************************************************)
(* Every sensor of a cluster has the same number of levels (CheckStandard),*)
(* so the cluster has one.                                                 *)
(***************************************************************************)
LevelCount(c) == Len(c.sensors[CHOOSE s \in DOMAIN c.sensors : TRUE])

(* What the configuration parser insists on before it accepts a cluster.   *)
CheckStandard(c) ==
  /\ DOMAIN c.sensors # {}
  /\ \A s \in DOMAIN c.sensors : Len(c.sensors[s]) = LevelCount(c)
  /\ \A a \in DOMAIN c.aux : Len(c.aux[a]) \in {0, LevelCount(c)}
  /\ c.tempDiffFlag => Len(c.diffs) = LevelCount(c)

-----------------------------------------------------------------------------
(***************************************************************************)
(* The extra conditions a level may carry beside its temperature.          *)
(***************************************************************************)
IsAuxSensorTrigger(c, t, k) ==
  k = 0 \/ \A a \in DOMAIN c.aux :
              /\ a \in DOMAIN t
              /\ c.aux[a][k].lower <= t[a]
              /\ t[a] <= c.aux[a][k].upper

IsTempDiffTrigger(c, t, k) ==
  k = 0 \/ /\ k <= Len(c.diffs)
           /\ {c.diffs[k].sensor1, c.diffs[k].sensor2} \subseteq DOMAIN t
           /\ t[c.diffs[k].sensor1] - t[c.diffs[k].sensor2] <= c.diffs[k].tempDiff

(* Rising for good, falling for good, or neither, over the latest rates.   *)
GetRateTrend(target, rateList) ==
  LET r1 == IF target >= 0 THEN target ELSE 0
      r2 == IF target >= 0 THEN 0 ELSE target
  IN  IF Len(rateList) < RateCount THEN "stable"
      ELSE IF \A i \in DOMAIN rateList : rateList[i] >= r1 THEN "critical"
      ELSE IF \A i \in DOMAIN rateList : rateList[i] < r2 THEN "ideal"
      ELSE "stable"

IsTempRateTrigger(c, rates, s, k, isCritical) ==
  k = 0 \/ /\ s \in DOMAIN rates
           /\ LET trend == GetRateTrend(c.sensors[s][k].tempRiseRate, rates[s])
              IN  IF isCritical THEN trend = "critical" ELSE trend # "ideal"

CheckExtraCondition(c, t, rates, s, k, isCritical) ==
  /\ c.auxFlag => IsAuxSensorTrigger(c, t, k)
  /\ c.rateFlag => IsTempRateTrigger(c, rates, s, k, isCritical)
  /\ c.tempDiffFlag => IsTempDiffTrigger(c, t, k)

-----------------------------------------------------------------------------
(***************************************************************************)
(* The search loops.  An upward loop starts at `level' and goes on while   *)
(* the next level is in Ok; a downward loop leaves levels until it reaches *)
(* one in Ok, or 0.                                                        *)
(***************************************************************************)
(* Mutants: the upward loop counts once more after its test failed, the    *)
(* downward loop takes a single step.                                      *)
SearchUpOnePast(level, n, Ok) == 1 + Min({i \in level..n : i = n \/ i + 1 \notin Ok})
SearchDownOneStep(level, Ok) == IF level = 0 \/ level \in Ok THEN level ELSE level - 1

SearchUp(level, n, Ok) == Min({i \in level..n : i = n \/ i + 1 \notin Ok})
SearchDown(level, Ok) == Max({i \in 0..level : i = 0 \/ i \in Ok})

(* Levels of sensor s whose triggering temperature t[s] has reached, the   *)
(* extra condition included: the levels an upward loop may enter.          *)
(* Mutant: the upward loop forgets the extra condition.                    *)
AscEnterNoExtra(c, t, rates, s) ==
  {k \in 1..LevelCount(c) : t[s] >= c.sensors[s][k].threshold}

AscEnter(c, t, rates, s) ==
  {k \in 1..LevelCount(c) : /\ t[s] >= c.sensors[s][k].threshold
                            /\ CheckExtraCondition(c, t, rates, s, k, TRUE)}
DescEnter(c, t, rates, s) ==
  {k \in 1..LevelCount(c) : /\ t[s] <= c.sensors[s][k].threshold
                            /\ CheckExtraCondition(c, t, rates, s, k, TRUE)}

(* Levels that t[s] has not set back: the ones a downward loop stops at.   *)
(* Mutant: the setback test compares with the triggering temperature.      *)
AscKeepThreshold(c, t, rates, s) ==
  {k \in 1..LevelCount(c) : /\ t[s] >= c.sensors[s][k].threshold
                            /\ CheckExtraCondition(c, t, rates, s, k, FALSE)}

AscKeep(c, t, rates, s) ==
  {k \in 1..LevelCount(c) : /\ t[s] >= c.sensors[s][k].thresholdClr
                            /\ CheckExtraCondition(c, t, rates, s, k, FALSE)}
DescKeep(c, t, rates, s) ==
  {k \in 1..LevelCount(c) : /\ t[s] <= c.sensors[s][k].thresholdClr
                            /\ CheckExtraCondition(c, t, rates, s, k, FALSE)}

AscendLevelToThreshold(c, t, rates, s, level) ==
  SearchUp(level, LevelCount(c), AscEnter(c, t, rates, s))
DescendLevelToThresholdClr(c, t, rates, s, level) ==
  SearchDown(level, AscKeep(c, t, rates, s))
DescendLevelToThreshold(c, t, rates, s, level) ==
  SearchDown(level, AscKeep(c, t, rates, s))
AscendLevelToThresholdClr(c, t, rates, s, level) ==
  SearchUp(level, LevelCount(c), AscEnter(c, t, rates, s))
LevelUpwardsSearch(c, t, rates, s, level) ==
  SearchUp(level, LevelCount(c), DescEnter(c, t, rates, s))
LevelDownwardsSearch(c, t, rates, s, level) ==
  SearchDown(level, DescKeep(c, t, rates, s))
LevelDownwardsSearchWithThreshold(c, t, rates, s, level) ==
  SearchDown(level, DescKeep(c, t, rates, s))
LevelUpwardsSearchWithThreshold(c, t, rates, s, level) ==
  SearchUp(level, LevelCount(c), DescEnter(c, t, rates, s))

-----------------------------------------------------------------------------
(***************************************************************************)
(* The level one sensor asks for, starting from the cluster's level.  Note *)
(* that a sensor which has reached the next threshold never looks at the   *)
(* extra condition of the level it is in.                                  *)
(***************************************************************************)
AscJudgment(c, t, rates, s, level) ==
  LET n == LevelCount(c)
      curDown == /\ level > 0
                 /\ \/ t[s] < c.sensors[s][level].thresholdClr
                    \/ ~CheckExtraCondition(c, t, rates, s, level, FALSE)
      nextUp == level < n /\ t[s] >= c.sensors[s][level + 1].threshold
  IN  IF level > 0 /\ level < n THEN
        IF nextUp THEN AscendLevelToThreshold(c, t, rates, s, level)
        ELSE IF curDown THEN DescendLevelToThresholdClr(c, t, rates, s, level)
        ELSE level
      ELSE IF level = n THEN
        IF curDown THEN DescendLevelToThreshold(c, t, rates, s, level) ELSE level
      ELSE IF nextUp THEN AscendLevelToThresholdClr(c, t, rates, s, level)
      ELSE level

(* Mutant: the first step compares like an ascending cluster.              *)
DescJudgmentAscends(c, t, rates, s, level) ==
  LET n == LevelCount(c)
      curDown == level > 0 /\ t[s] > c.sensors[s][level].thresholdClr
      nextUp == level < n /\ t[s] >= c.sensors[s][level + 1].threshold
  IN  IF nextUp THEN LevelUpwardsSearch(c, t, rates, s, level)
      ELSE IF curDown THEN LevelDownwardsSearch(c, t, rates, s, level)
      ELSE level

DescJudgment(c, t, rates, s, level) ==
  LET n == LevelCount(c)
      curDown == /\ level > 0
                 /\ \/ t[s] > c.sensors[s][level].thresholdClr
                    \/ ~CheckExtraCondition(c, t, rates, s, level, FALSE)
      nextUp == level < n /\ t[s] <= c.sensors[s][level + 1].threshold
  IN  IF level # 0 /\ level < n THEN
        IF nextUp THEN LevelUpwardsSearch(c, t, rates, s, level)
        ELSE IF curDown THEN LevelDownwardsSearch(c, t, rates, s, level)
        ELSE level
      ELSE IF level = n THEN
        IF curDown THEN LevelDownwardsSearchWithThreshold(c, t, rates, s, level)
        ELSE level
      ELSE IF nextUp THEN LevelUpwardsSearchWithThreshold(c, t, rates, s, level)
      ELSE level

(* One entry per configured sensor the report holds.                       *)
CalculateSensorLevel(c, t, rates, level) ==
  {IF c.desc THEN DescJudgment(c, t, rates, s, level)
             ELSE AscJudgment(c, t, rates, s, level)
     : s \in DOMAIN c.sensors \cap DOMAIN t}

(* The cluster's new level; stateOk is what CheckState answers.            *)
UpdateThermalLevel(c, t, rates, stateOk, level) ==
  LET levelList == CalculateSensorLevel(c, t, rates, level)
  IN  IF ~stateOk THEN 0
      ELSE IF levelList = {} THEN level
      ELSE Max(levelList)
=============================================================================
