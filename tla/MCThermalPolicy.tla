--------------------------- MODULE MCThermalPolicy ---------------------------
(***************************************************************************)
(* A configuration in the shape of thermal_service_config.xml: two         *)
(* clusters that share actions, one with a state condition, policies that  *)
(* skip a level and are not listed in level order, an action asked for     *)
(* twice in one entry, a malformed delay and a delayed SoC limit; actions  *)
(* of several classes, a malformed value for a class that drops it and one *)
(* that reads it as 0, an item without a class and one whose name is taken.*)
(***************************************************************************)
EXTENDS ThermalPolicy

Item(thr, clr) == [threshold |-> thr, thresholdClr |-> clr, tempRiseRate |-> 0]
Cluster(sensors) ==
  [sensors |-> sensors, aux |-> <<>>, diffs |-> <<>>, desc |-> FALSE,
   auxFlag |-> FALSE, rateFlag |-> FALSE, tempDiffFlag |-> FALSE]

MCClusters == ("base" :> Cluster("soc" :> <<Item(1, 1), Item(2, 1), Item(3, 2)>>)) @@
              ("warm" :> Cluster("shell" :> <<Item(2, 1)>>))
MCStateDeps == ("base" :> {}) @@ ("warm" :> {<<"screen", "on">>})

Do(name, value) == [name |-> name, value |-> value, props |-> {}, delaytime |-> <<>>]
When(p, state, value) == [p EXCEPT !.props = {<<state, value>>}]
After(p, id) == [p EXCEPT !.delaytime = <<id, 1000>>]

MCPolicies ==
  ("base" :> <<[level |-> 3, actions |-> <<Do("cpu_big", 1), Do("buck_current", 1), Do("popup", 1),
                                          Do("boost", 100), Do("perf", 1), Do("shut_down", 1)>>],
               [level |-> 1, actions |-> <<Do("cpu_big", 3),
                                          When(Do("cpu_big", 2), "screen", "on"),
                                          [Do("buck_current", 3) EXCEPT !.delaytime = <<5>>],
                                          Do("absent_action", 1), Do("boost", 2),
                                          Do("perf", Malformed)>>]>>) @@
  ("warm" :> <<[level |-> 1, actions |-> <<After(Do("cpu_big", 2), 7), Do("buck_current", 2),
                                          Do("lcd", Malformed), Do("usb", 1)>>]>>)

ActionItem(name, protocol, strict, fallback) ==
  [name |-> name, protocol |-> protocol, strict |-> strict, fallback |-> fallback]
MCActions ==
  <<ActionItem("cpu_big", "", TRUE, 0), ActionItem("popup", "", FALSE, 0),
    ActionItem("buck_current", "current", FALSE, 0), ActionItem("vibrate", "", FALSE, 0),
    ActionItem("boost", "", FALSE, 0), ActionItem("perf", "socperf", TRUE, 0),
    ActionItem("usb", "socperf_resource", TRUE, 3), ActionItem("shut_down", "", FALSE, 0),
    ActionItem("lcd", "", TRUE, 0), ActionItem("lcd", "gpu", TRUE, 0)>>
MCValues == {0, 1, 2, 3, 100}
MCStates == "screen" :> {"on", "off"}
MCReports == {[soc |-> 0, shell |-> 0], [soc |-> 2, shell |-> 2], [soc |-> 3]}

(* Set by chance to completed, to "timer running", or to zero.             *)
Leftover(completed, timer) == [isCompleted |-> completed, value |-> 0, timer |-> timer]
MCLeftovers == {Leftover(TRUE, "none"), Leftover(FALSE, "junk"), Leftover(FALSE, "none")}

MCOrder == <<"base", "warm">>
=============================================================================
