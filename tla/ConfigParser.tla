---------------------------- MODULE ConfigParser ----------------------------
(***************************************************************************)
(* What ThermalSrvConfigParser reads from one root node of the service's   *)
(* configuration (thermal_srv_config_parser.cpp).  Operators only: Startup *)
(* keeps the state and goes through the files.                             *)
(*                                                                         *)
(* A root node is a record with its tag in `kind' and its children in      *)
(* sequences; an attribute that is missing is not in the record's domain.  *)
(* An attribute that the parser splits is the sequence of its parts, a     *)
(* number is a number, and BadNumber one that StrToInt refuses.            *)
(* For every node X there is a test XOk, whether the parser accepts it,    *)
(* and for an accepted node what it stores.                                *)
(***************************************************************************)
EXTENDS Integers, Sequences, SequencesExt, Functions

CONSTANTS RateCount,
          BadNumber,
          Indeterminate   \* what an uninitialized member holds

SL == INSTANCE SensorLevels

Has(node, attribute) == attribute \in DOMAIN node
Get(node, attribute, default) == IF Has(node, attribute) THEN node[attribute] ELSE default

IsSeq(list) == list \in Seq(Range(list))

\* map::emplace and map::insert over a list: the first entry of a key stays.
Emplace(keys, values) ==
    [k \in Range(keys) |-> values[Min({i \in DOMAIN keys : keys[i] = k})]]

EmplaceAll(map, more) ==
    [k \in DOMAIN map \cup DOMAIN more |-> IF k \in DOMAIN map THEN map[k] ELSE more[k]]

Assign(map, key, value) == [k \in DOMAIN map \cup {key} |-> IF k = key THEN value ELSE map[k]]

Column(list, attribute) == [i \in DOMAIN list |-> list[i][attribute]]
All(list, Ok(_)) == \A i \in DOMAIN list : Ok(list[i])

-----------------------------------------------------------------------------
(* <base>                                                                   *)

BaseItemsOk(node) == All(node.items, LAMBDA item : Has(item, "tag") /\ Has(item, "value"))

BaseInfo(node) == Emplace(Column(node.items, "tag"), Column(node.items, "value"))

\* sim_tz: absent or empty is off, otherwise it must be 0 or 1
SimTzOk(base) == Has(base, "sim_tz") => base.sim_tz \in {<< >>, <<0>>, <<1>>}
SimulationXml(base) == Has(base, "sim_tz") /\ base.sim_tz = <<1>>

ParseBaseNodeOk(node) == BaseItemsOk(node) /\ SimTzOk(BaseInfo(node))

-----------------------------------------------------------------------------
(* <level>: the sensor clusters                                             *)

DefaultRiseRate == -1000000
AUX_SENSOR_RANGE_LEN == 2
TEMPDIFF_SENSOR_SIZE == 2

ParseAuxSensorInfoOk(c) ==
    (Has(c, "aux_sensor") /\ c.aux_sensor # << >>) =>
        /\ c.items # << >>
        /\ All(c.items, LAMBDA item :
               /\ Has(item, "aux_trigger_range") /\ Has(item, "level")
               /\ Len(item.aux_trigger_range) >= Len(c.aux_sensor)
               /\ \A j \in DOMAIN c.aux_sensor :
                      Len(item.aux_trigger_range[j]) >= AUX_SENSOR_RANGE_LEN)

ParseAuxSensorInfo(c) ==
    LET auxsensors == Get(c, "aux_sensor", << >>)
    IN  Emplace(auxsensors, [j \in DOMAIN auxsensors |-> [i \in DOMAIN c.items |->
            [lower |-> c.items[i].aux_trigger_range[j][1],
             upper |-> c.items[i].aux_trigger_range[j][2], level |-> c.items[i].level]]])

ParseLevelThresholdOk(item, n) ==
    /\ Has(item, "threshold") /\ Has(item, "threshold_clr") /\ Has(item, "level")
    /\ Len(item.threshold) = n /\ Len(item.threshold_clr) = n
    /\ Has(item, "temp_rise_rate") => Len(item.temp_rise_rate) = n

\* Mutant: a cluster whose sensors have no level items is let through.
ParseSensorInfoOkEmpty(c) ==
    /\ Has(c, "sensor") /\ c.sensor # << >>
    /\ All(c.items, LAMBDA item : ParseLevelThresholdOk(item, Len(c.sensor)))

ParseSensorInfoOk(c) ==
    /\ Has(c, "sensor") /\ c.sensor # << >> /\ c.items # << >>
    /\ All(c.items, LAMBDA item : ParseLevelThresholdOk(item, Len(c.sensor)))

ParseSensorInfo(c) ==
    Emplace(c.sensor, [j \in DOMAIN c.sensor |-> [i \in DOMAIN c.items |->
        [level |-> c.items[i].level, threshold |-> c.items[i].threshold[j],
         thresholdClr |-> c.items[i].threshold_clr[j],
         tempRiseRate |-> IF Has(c.items[i], "temp_rise_rate")
                          THEN c.items[i].temp_rise_rate[j] ELSE DefaultRiseRate]]])

\* the level was read before, as an unsigned number
ParseTempDiffInfoOk(c) ==
    Has(c, "temp_diff") =>
        /\ Len(c.temp_diff) = TEMPDIFF_SENSOR_SIZE
        /\ All(c.items, LAMBDA item :
               Get(item, "temp_diff_trigger", BadNumber) # BadNumber /\ Has(item, "level"))

ParseTempDiffInfo(c) ==
    IF ~ Has(c, "temp_diff") THEN << >>
    ELSE [i \in DOMAIN c.items |->
             [sensor1 |-> c.temp_diff[1], sensor2 |-> c.temp_diff[2],
              tempDiff |-> c.items[i].temp_diff_trigger, level |-> c.items[i].level]]

SensorCluster(c) ==
    [sensors |-> ParseSensorInfo(c),
     aux |-> ParseAuxSensorInfo(c),
     diffs |-> ParseTempDiffInfo(c),
     states |-> Emplace(Column(c.states, "name"), Column(c.states, "value")),
     desc |-> Has(c, "desc") /\ c.desc = TRUE,
     auxFlag |-> Has(c, "aux_sensor"),
     rateFlag |-> \E i \in DOMAIN c.items : Has(c.items[i], "temp_rise_rate"),
     tempDiffFlag |-> Has(c, "temp_diff")]

\* CheckStandard also wants the levels of a sensor to be 1, 2, 3, ...
CheckStandard(sc) ==
    /\ \A s \in DOMAIN sc.sensors : \A i \in DOMAIN sc.sensors[s] : sc.sensors[s][i].level = i
    /\ SL!CheckStandard(sc)

ClusterOk(c) ==
    /\ Has(c, "name")
    /\ ParseAuxSensorInfoOk(c) /\ ParseSensorInfoOk(c) /\ ParseTempDiffInfoOk(c)
    /\ CheckStandard(SensorCluster(c))

ParseLevelNodeOk(node) == All(node.clusters, ClusterOk)

ParseLevelNode(node) ==
    Emplace(Column(node.clusters, "name"),
            [i \in DOMAIN node.clusters |-> SensorCluster(node.clusters[i])])

-----------------------------------------------------------------------------
(* <state>, <action>, <policy>, <idle> and <fan>                            *)

ParseNamedItemsOk(node) == All(node.items, LAMBDA item : Has(item, "name"))

\* delaytime replaces param
ParseStateNode(node) ==
    [i \in DOMAIN node.items |->
        [name |-> node.items[i].name,
         params |-> Get(node.items[i], "delaytime", Get(node.items[i], "param", "")),
         isExistParam |-> Has(node.items[i], "delaytime") \/ Has(node.items[i], "param")]]

ParseActionNode(node) ==
    [i \in DOMAIN node.items |->
        [a \in {"param", "uid", "protocol"} |-> Get(node.items[i], a, "")] @@
        [a \in {"strict", "event"} |-> Get(node.items[i], a, FALSE) = TRUE] @@
        [name |-> node.items[i].name]]

ParsePolicyNodeOk(node) == All(node.configs, LAMBDA c : Has(c, "name") /\ Has(c, "level"))

\* the configurations of a cluster in file order
ParsePolicyNode(node) ==
    [cluster \in Range(Column(node.configs, "name")) |->
        LET own == SelectSeq(node.configs, LAMBDA c : c.name = cluster)
        IN  [i \in DOMAIN own |-> [level |-> own[i].level, actions |-> own[i].actions]]]

IdleKeys == {"thermallevel", "soc", "charging", "current"}

\* The last node of a name counts; the local idleState is not initialized, so
\* a name without a node leaves an indeterminate value.
ParseIdleNode(node) ==
    [k \in IdleKeys |->
        LET own == SelectSeq(node.values, LAMBDA v : v.name = k)
        IN  IF own = << >> THEN Indeterminate ELSE Last(own).value]

ParseFanNodeOk(node) ==
    All(node.clusters, LAMBDA c :
        /\ Has(c, "sensor")
        /\ All(c.items, LAMBDA item : /\ Has(item, "fault") /\ Has(item, "threshold")
                                      /\ Len(item.threshold) = Len(c.sensor)))

\* the first item of a fault counts
ParseFanNode(node) ==
    LET faults(j) == Range(Column(node.clusters[j].items, "fault"))
        cluster(f) == node.clusters[Min({j \in DOMAIN node.clusters : f \in faults(j)})]
    IN  [f \in UNION {faults(j) : j \in DOMAIN node.clusters} |->
            LET c == cluster(f)
            IN  Emplace(c.sensor, Emplace(Column(c.items, "fault"), Column(c.items, "threshold"))[f])]

-----------------------------------------------------------------------------
(* What any document gives: children in a list, and for a number that       *)
(* StrToInt refuses, where the parser does not look, some number.           *)

Listed(c) == IsSeq(c.items) /\ \A a \in {"sensor", "aux_sensor"} : IsSeq(Get(c, a, << >>))

WellFormed(node) ==
    /\ node.kind \in {"level", "fan"} => IsSeq(node.clusters) /\ All(node.clusters, Listed)
    /\ node.kind = "state" => IsSeq(node.items)
    /\ node.kind = "fan" => \A j \in DOMAIN node.clusters :
           All(node.clusters[j].items,
               LAMBDA item : Get(item, "threshold", << >>) \in Seq(Int))

-----------------------------------------------------------------------------
(* ParseRootNode: whether it succeeds, and what the modules hold after it.  *)

ParseRootNodeOk(node) ==
    CASE node.kind = "base" -> ParseBaseNodeOk(node)
      [] node.kind = "level" -> ParseLevelNodeOk(node)
      [] node.kind \in {"state", "action"} -> ParseNamedItemsOk(node)
      [] node.kind = "policy" -> ParsePolicyNodeOk(node)
      [] node.kind = "fan" -> ParseFanNodeOk(node)
      [] node.kind \in {"idle", "comment"} -> TRUE
      [] OTHER -> FALSE

EmptyConfig ==
    [base |-> << >>, simulation |-> FALSE, level |-> << >>, state |-> << >>, action |-> << >>,
     policy |-> << >>, idle |-> [k \in IdleKeys |-> 0], fan |-> << >>]

\* The base information is stored before sim_tz is looked at, so a node that
\* fails on sim_tz has still replaced it; the other sections are stored last.
ParseRootNode(config, node) ==
    CASE node.kind = "base" /\ BaseItemsOk(node) ->
             [config EXCEPT !.base = BaseInfo(node),
                            !.simulation = IF ParseBaseNodeOk(node)
                                           THEN SimulationXml(BaseInfo(node)) ELSE @]
      [] node.kind = "level" /\ ParseRootNodeOk(node) -> [config EXCEPT !.level = ParseLevelNode(node)]
      [] node.kind = "state" /\ ParseRootNodeOk(node) -> [config EXCEPT !.state = ParseStateNode(node)]
      [] node.kind = "action" /\ ParseRootNodeOk(node) -> [config EXCEPT !.action = ParseActionNode(node)]
      [] node.kind = "policy" /\ ParseRootNodeOk(node) -> [config EXCEPT !.policy = ParsePolicyNode(node)]
      [] node.kind = "idle" -> [config EXCEPT !.idle = ParseIdleNode(node)]
      [] node.kind = "fan" /\ ParseRootNodeOk(node) -> [config EXCEPT !.fan = ParseFanNode(node)]
      [] OTHER -> config
=============================================================================
