----------------------------- MODULE MCStartup -----------------------------
(* Documents for the files: a full one in the manner of the shipped          *)
(* thermal_service_config.xml, and ones that fail at different nodes and in  *)
(* different ways.                                                           *)
EXTENDS Startup

LevelItem(level, up, clr) == [level |-> level, threshold |-> up, threshold_clr |-> clr]
Condition(name, value) == [name |-> name, value |-> value]

Battery ==
    [name |-> "battery", sensor |-> <<"battery", "shell">>, aux_sensor |-> <<"ambient">>,
     states |-> <<Condition("ext", {{1}}), Condition("ext", {{2}})>>,
     items |-> <<LevelItem(1, <<40, 35>>, <<38, 33>>) @@
                     [aux_trigger_range |-> << <<0, 20>> >>, temp_rise_rate |-> <<1, 2>>],
                 LevelItem(2, <<45, 40>>, <<43, 38>>) @@ [aux_trigger_range |-> << <<10, 30>> >>]>>]
Diff ==
    [name |-> "diff", sensor |-> <<"soc">>, temp_diff |-> <<"soc", "shell">>, desc |-> TRUE,
     states |-> <<Condition("cust", {1}), Condition("screen", {1})>>,
     items |-> <<LevelItem(1, <<10>>, <<12>>) @@ [temp_diff_trigger |-> 5]>>]
Charging ==
    [name |-> "charging", sensor |-> <<"soc">>, items |-> <<LevelItem(1, <<40>>, <<38>>)>>,
     states |-> <<Condition("charge", {1}), Condition("charge_delay", {}),
                  Condition("startup_delay", {})>>]
NoLevels == [name |-> "bare", sensor |-> <<"soc">>, states |-> << >>, items |-> << >>]
Swapped == [Battery EXCEPT !.items = <<Battery.items[2], Battery.items[1]>>]
BadDiff == [Diff EXCEPT !.items[1].temp_diff_trigger = BadNumber]
ShortAux == [Battery EXCEPT !.items[2].aux_trigger_range = << <<10>> >>]

Base(sim) == [kind |-> "base", items |-> <<[tag |-> "history_temp_count", value |-> <<4, 2>>],
                                          [tag |-> "sim_tz", value |-> sim]>>]
EmptyCount == [kind |-> "base", items |-> <<[tag |-> "history_temp_count", value |-> << >>],
                                           [tag |-> "history_temp_count", value |-> <<3>>]>>]
Level(clusters) == [kind |-> "level", clusters |-> clusters]
State(names) == [kind |-> "state", items |-> [i \in DOMAIN names |-> [name |-> names[i], param |-> "p"]]]
Bare(names) == [kind |-> "state", items |-> [i \in DOMAIN names |-> [name |-> names[i]]]]
Action == [kind |-> "action", items |-> <<[name |-> "thermallevel", strict |-> TRUE],
              [name |-> "sc", protocol |-> "current"], [name |-> "toaster"], [name |-> "thermallevel"]>>]
Policy == [kind |-> "policy", configs |-> <<[name |-> "battery", level |-> 1, actions |-> <<"sc">>],
              [name |-> "battery", level |-> 2, actions |-> <<"thermallevel">>]>>]
Idle == [kind |-> "idle", values |-> <<[name |-> "soc", value |-> 80], [name |-> "soc", value |-> 90]>>]
Fan == [kind |-> "fan", clusters |-> <<[sensor |-> <<"soc", "gpu", "fan">>, items |->
           <<[fault |-> 1, threshold |-> <<50, 50, 5>>], [fault |-> 2, threshold |-> <<30, 30, 15>>],
             [fault |-> 1, threshold |-> <<20, 20, 5>>]>>]>>]
Comment == [kind |-> "comment"]
Unknown == [kind |-> "other"]

MCDocs ==
    [full |-> <<Comment, Base(<<1>>), Level(<<Battery, Diff, Battery, Charging>>),
                State(<<"screen", "charge", "charge_delay", "startup_delay", "ext", "scene">>), Action, Policy, Idle, Fan>>,
     cut |-> <<Base(<<0>>), Level(<<Diff>>), State(<<"cust">>), Fan, Unknown>>,
     bare |-> <<State(<<"ext">>), Level(<<NoLevels>>), Policy>>,
     swapped |-> <<Level(<<Swapped>>)>>,
     badDiff |-> <<State(<<"ext">>), Level(<<BadDiff>>)>>,
     shortAux |-> <<Level(<<ShortAux>>)>>,
     badSim |-> <<Base(<<2>>), State(<<"screen">>)>>,
     emptyCount |-> <<EmptyCount, State(<<"screen">>)>>,
     small |-> <<Bare(<<"charge", "screen">>), Level(<<Diff>>)>>,
     twice |-> <<State(<<"startup_delay", "startup_delay">>)>>]

\* When there is a file at the policy path, the others are not looked at, and
\* the system's only after one of the vendor that fails or is missing.  Where
\* the full document lies makes no difference to what comes after it.
Failing == {"cut", "bare", "swapped", "badDiff", "shortAux", "badSim", NoFile}
MCFileChoices ==
    {[policy |-> p, vendor |-> NoFile, system |-> NoFile] : p \in DOMAIN MCDocs} \cup
    {[policy |-> NoFile, vendor |-> v, system |-> NoFile] : v \in DOMAIN MCDocs \ {"full"}} \cup
    {[policy |-> NoFile, vendor |-> v, system |-> s] : v \in Failing, s \in {"small", "emptyCount"}} \cup
    {[policy |-> NoFile, vendor |-> "cut", system |-> s] : s \in DOMAIN MCDocs \ {"full"}} \cup
    {[policy |-> NoFile, vendor |-> NoFile, system |-> NoFile]}

\* Reports below, between and above the limits, of all or some of the sensors.
MCFanReports == UNION {{r \in [S -> {2, 10, 20, 40, 60}] : "fan" \in S => r["fan"] <= 20}
                          : S \in {{"soc", "gpu", "fan"}, {"soc", "fan"}, {"soc", "gpu"}}}

MCValues == {{1}, {2}}
=============================================================================
