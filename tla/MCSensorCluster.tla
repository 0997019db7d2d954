--------------------------- MODULE MCSensorCluster ---------------------------
(***************************************************************************)
(* Configurations of SensorCluster for TLC: one and two sensors, ascending *)
(* and descending, with each extra condition, and one whose setback        *)
(* temperature lies above its threshold (the parser accepts it).           *)
(***************************************************************************)
EXTENDS SensorCluster, TLC

Item(thr, clr) == [threshold |-> thr, thresholdClr |-> clr, tempRiseRate |-> 1]

Plain(sensors) ==
  [sensors |-> sensors, aux |-> <<>>, diffs |-> <<>>, desc |-> FALSE,
   auxFlag |-> FALSE, rateFlag |-> FALSE, tempDiffFlag |-> FALSE]

Three == <<Item(2, 1), Item(3, 2), Item(5, 2)>>
Two   == <<Item(2, 0), Item(4, 3)>>
Cold  == <<Item(3, 4), Item(1, 2)>>

NoHysteresis == <<Item(2, 2), Item(2, 2), Item(4, 4)>>
Inverted     == <<Item(2, 3), Item(4, 1)>>

Range3 == <<[lower |-> 0, upper |-> 3], [lower |-> 2, upper |-> 3],
            [lower |-> 0, upper |-> 2]>>
Diff3 == [k \in 1..3 |-> [sensor1 |-> "a", sensor2 |-> "b", tempDiff |-> 2 * k - 2]]

MCClusters ==
  {Plain("a" :> Three),
   Plain("a" :> Three @@ "b" :> NoHysteresis),
   Plain("a" :> Inverted),
   [Plain("a" :> Cold @@ "b" :> Cold) EXCEPT !.desc = TRUE],
   [Plain("a" :> Three) EXCEPT !.aux = "x" :> Range3, !.auxFlag = TRUE],
   [Plain("a" :> Cold) EXCEPT !.aux = "x" :> SubSeq(Range3, 1, 2), !.auxFlag = TRUE, !.desc = TRUE],
   [Plain("a" :> Three) EXCEPT !.diffs = Diff3, !.tempDiffFlag = TRUE],
   [Plain("a" :> Three) EXCEPT !.rateFlag = TRUE],
   [Plain("a" :> Two @@ "b" :> Two) EXCEPT !.rateFlag = TRUE]}

MCTemps == 0..5
MCRateLists == {<<1>>, <<1, 1>>, <<1, -1>>, <<-1, -1>>}
=============================================================================
