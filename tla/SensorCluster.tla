---------------------------- MODULE SensorCluster ----------------------------
(***************************************************************************)
(* One ThermalConfigSensorCluster at work: the level it keeps between      *)
(* decisions, the last report it was given, the rise rates the subscriber  *)
(* keeps and the state condition the cluster may carry.                    *)
(*                                                                         *)
(* The configuration is chosen at the start, so that one run covers every  *)
(* configuration in Clusters.                                              *)
(***************************************************************************)
EXTENDS SensorLevels

CONSTANTS Clusters,   \* the configurations
          Temps,      \* temperatures a sensor may report
          RateLists   \* rise-rate sequences a sensor may have

VARIABLES cluster,      \* the configuration read from the XML file
          latestLevel,  \* latestLevel_
          typeTempMap,  \* the last report (typeTempMap_)
          rates,        \* ThermalServiceSubscriber's sensorsRateMap_
          stateOk       \* what CheckState answers now

vars == <<cluster, latestLevel, typeTempMap, rates, stateOk>>

(***************************************************************************)
(* Every configuration passed the parser's check and has at least one      *)
(* level; the auxiliary sensors, if any, have an entry per level.          *)
(***************************************************************************)
LevelItem == [threshold : Int, thresholdClr : Int, tempRiseRate : Int]

ASSUME ClustersAssumption ==
  /\ Temps \subseteq Int
  /\ RateLists \subseteq Seq(Int)
  /\ RateCount \in Nat
  /\ \A c \in Clusters :
       /\ CheckStandard(c)
       /\ LevelCount(c) >= 1
       /\ \A s \in DOMAIN c.sensors : c.sensors[s] \in Seq(LevelItem)
       /\ \A a \in DOMAIN c.aux : Len(c.aux[a]) = LevelCount(c)
       /\ {c.desc, c.auxFlag, c.rateFlag, c.tempDiffFlag} \subseteq BOOLEAN

(* The sensors a cluster looks at; what else a report holds has no effect. *)
SensorsOf(c) ==
  DOMAIN c.sensors \cup DOMAIN c.aux \cup
    {c.diffs[k].sensor1 : k \in DOMAIN c.diffs} \cup
    {c.diffs[k].sensor2 : k \in DOMAIN c.diffs}

(* A report need not hold every sensor.                                    *)
Reports(c) == UNION {[S -> Temps] : S \in SUBSET SensorsOf(c)}
RateMaps(c) == UNION {[S -> RateLists] : S \in SUBSET DOMAIN c.sensors}

Decide(t) == UpdateThermalLevel(cluster, t, rates, stateOk, latestLevel)

Init ==
  /\ cluster \in Clusters
  /\ latestLevel = 0
  /\ typeTempMap = <<>>
  /\ rates = <<>>
  /\ stateOk \in BOOLEAN

(***************************************************************************)
(* A non-empty report.  The level is decided with the rates of the report  *)
(* before this one: SetHistoryTypeTempMap runs after the observers.  The   *)
(* rates matter, and are given values, only where the cluster uses them.   *)
(***************************************************************************)
OnTemperatureChanged ==
  /\ \E t \in Reports(cluster) \ {<<>>} :
       /\ typeTempMap' = t
       /\ latestLevel' = Decide(t)
  /\ rates' \in IF cluster.rateFlag THEN RateMaps(cluster) ELSE {rates}
  /\ UNCHANGED <<cluster, stateOk>>

(* UpdateThermalState with an immediate scene: the last report again.      *)
ExecutePolicy ==
  /\ latestLevel' = Decide(typeTempMap)
  /\ UNCHANGED <<cluster, typeTempMap, rates, stateOk>>

(* A state collection this cluster depends on changes its answer.          *)
StateChanged ==
  /\ stateOk' = ~stateOk
  /\ UNCHANGED <<cluster, latestLevel, typeTempMap, rates>>

Next == OnTemperatureChanged \/ ExecutePolicy \/ StateChanged

Spec == Init /\ [][Next]_vars

-----------------------------------------------------------------------------
(***************************************************************************)
(* Properties.                                                             *)
(***************************************************************************)

(* The level stays within the levels the cluster is configured with, which *)
(* is what every levItems.at(level - 1) in AscJudgment relies on.          *)
TypeOK ==
  /\ cluster \in Clusters
  /\ latestLevel \in 0..LevelCount(cluster)
  /\ typeTempMap \in Reports(cluster)
  /\ rates \in RateMaps(cluster)
  /\ stateOk \in BOOLEAN

(***************************************************************************)
(* A configuration whose setback temperatures do not lie beyond their      *)
(* triggering ones, and whose levels are in order.  The parser does not    *)
(* check it.                                                               *)
(***************************************************************************)
WellOrdered(c) ==
  \A s \in DOMAIN c.sensors : \A k \in 1..LevelCount(c) :
    LET item == c.sensors[s][k] IN
    /\ IF c.desc THEN item.thresholdClr >= item.threshold
                 ELSE item.thresholdClr <= item.threshold
    /\ k > 1 => LET prev == c.sensors[s][k - 1] IN
                IF c.desc THEN /\ item.threshold <= prev.threshold
                               /\ item.thresholdClr <= prev.thresholdClr
                          ELSE /\ item.threshold >= prev.threshold
                               /\ item.thresholdClr >= prev.thresholdClr

Reached(c, s, k, temp) == IF c.desc THEN temp <= c.sensors[s][k].threshold
                                    ELSE temp >= c.sensors[s][k].threshold
SetBack(c, s, k, temp) == IF c.desc THEN temp > c.sensors[s][k].thresholdClr
                                    ELSE temp < c.sensors[s][k].thresholdClr

NoExtraCondition(c) == ~c.auxFlag /\ ~c.rateFlag /\ ~c.tempDiffFlag

(* The configured sensors a report holds. *)
Heard(c, t) == DOMAIN c.sensors \cap DOMAIN t

(***************************************************************************)
(* Hysteresis, as the README describes it (threshold triggers a level,     *)
(* _clr sets it back), for the whole cluster at once: whatever the path    *)
(* the judgment and search loops take, the level is the highest one that   *)
(* some reported sensor has triggered, or was reached before and is not    *)
(* yet set back by that sensor.                                            *)
(***************************************************************************)
HysteresisLevel(c, t, level) ==
  Max({0} \cup {k \in 1..LevelCount(c) :
                  \E s \in Heard(c, t) :
                     \/ Reached(c, s, k, t[s])
                     \/ k <= level /\ ~SetBack(c, s, k, t[s])})

(* The search code of AscJudgment and DescJudgment computes the hysteresis *)
(* level for every report the cluster may get next.                        *)
DecidesHysteresisLevel ==
  WellOrdered(cluster) /\ NoExtraCondition(cluster) /\ stateOk =>
    \A t \in Reports(cluster) :
      Heard(cluster, t) # {} =>
        Decide(t) = HysteresisLevel(cluster, t, latestLevel)

(***************************************************************************)
(* A decision settles: taking it again with the same report, rates and     *)
(* state, as ExecutePolicy does, leaves the level alone.  Sensors with     *)
(* rise rates of their own are excepted: one sensor's rate may refuse a    *)
(* level that the other sensor then lifts the cluster over.                *)
(***************************************************************************)
DecisionSettles ==
  WellOrdered(cluster) /\ (cluster.rateFlag => Heard(cluster, typeTempMap) \subseteq
                             {CHOOSE s \in DOMAIN cluster.sensors : TRUE}) =>
    LET once == Decide(typeTempMap)
    IN  UpdateThermalLevel(cluster, typeTempMap, rates, stateOk, once) = once

(***************************************************************************)
(* The level rises only as far as one sensor of the report justifies       *)
(* level by level, temperature and extra conditions (with a critical rate  *)
(* trend) both; and it falls only past levels every reported sensor has    *)
(* set back or whose extra condition has lapsed for it, or because the     *)
(* cluster's state condition does not hold.                                *)
(***************************************************************************)
MovesJustified ==
  /\ latestLevel' > latestLevel =>
       \E s \in Heard(cluster, typeTempMap') :
         \A k \in (latestLevel + 1)..latestLevel' :
           /\ Reached(cluster, s, k, typeTempMap'[s])
           /\ CheckExtraCondition(cluster, typeTempMap', rates, s, k, TRUE)
  /\ latestLevel' < latestLevel /\ stateOk =>
       \A s \in Heard(cluster, typeTempMap') :
         \A k \in (latestLevel' + 1)..latestLevel :
           \/ SetBack(cluster, s, k, typeTempMap'[s])
           \/ ~CheckExtraCondition(cluster, typeTempMap', rates, s, k, FALSE)

LevelMovesJustified == [][MovesJustified]_vars

(***************************************************************************)
(* Of two reports that hold the same sensors, the one that is at least as  *)
(* bad at every sensor never gets the lower level, wherever the cluster    *)
(* starts from and whatever order its levels are in.  Clusters with an     *)
(* auxiliary or a difference condition are excepted: there a worse reading *)
(* may leave the range a level asks for.                                   *)
(***************************************************************************)
Worse(c, t, u) ==
  /\ DOMAIN t = DOMAIN u
  /\ \A s \in DOMAIN t : IF c.desc THEN u[s] <= t[s] ELSE u[s] >= t[s]

WorseReportNotLower ==
  ~cluster.auxFlag /\ ~cluster.tempDiffFlag =>
    \A u \in Reports(cluster) :
      Worse(cluster, typeTempMap, u) => Decide(u) >= Decide(typeTempMap)
=============================================================================
