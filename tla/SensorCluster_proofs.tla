------------------------ MODULE SensorCluster_proofs ------------------------
(***************************************************************************)
(* Proofs about SensorCluster, for every configuration, every set of       *)
(* temperatures and every number of sensors and levels.                    *)
(***************************************************************************)
EXTENDS SensorCluster, WellFoundedInduction, TLAPS

-----------------------------------------------------------------------------
(* Least and greatest elements. *)

NatOrder == {p \in Nat \X Nat : p[1] < p[2]}

(* The order of the naturals as a set of pairs is well founded. *)
LEMMA NatOrderWellFounded == IsWellFoundedOn(NatOrder, Nat)
BY Zenon, NatLessThanWellFounded DEF OpToRel, NatOrder

(* Min of a non-empty set of naturals is its least element. *)
LEMMA MinNat ==
  ASSUME NEW S \in SUBSET Nat, S # {}
  PROVE  Min(S) \in S /\ \A y \in S : Min(S) <= y
<1>1. PICK x \in S : \A y \in S : ~(<<y, x>> \in NatOrder)
  BY Zenon, NatOrderWellFounded, WFMin
<1>2. \A y \in S : x <= y
  <2> TAKE y \in S
  <2>1. x \in Nat /\ y \in Nat
    OBVIOUS
  <2>2. ~(<<y, x>> \in NatOrder)
    BY <1>1
  <2>3. ~(y < x)
    BY <2>1, <2>2 DEF NatOrder
  <2> QED BY <2>1, <2>3
<1> QED BY <1>2 DEF Min

(* Max of a non-empty set of naturals with an upper bound is its greatest  *)
(* element.                                                                *)
LEMMA MaxBounded ==
  ASSUME NEW n \in Nat, NEW S \in SUBSET (0..n), S # {}
  PROVE  Max(S) \in S /\ \A y \in S : y <= Max(S)
<1> DEFINE M == {n - i : i \in S}
<1>1. M \subseteq Nat
  OBVIOUS
<1>2. M # {}
  <2>1. PICK i \in S : TRUE
    OBVIOUS
  <2>2. n - i \in M
    BY <2>1
  <2> QED BY <2>2
<1>3. Min(M) \in M /\ \A y \in M : Min(M) <= y
  <2> HIDE DEF M
  <2> QED BY <1>1, <1>2, MinNat
<1>4. PICK x \in S : Min(M) = n - x
  BY <1>3
<1>5. \A y \in S : y <= x
  <2> TAKE y \in S
  <2>1. n - y \in M
    OBVIOUS
  <2>2. n - x <= n - y
    BY <1>3, <1>4, <2>1
  <2>3. x \in Int /\ y \in Int
    OBVIOUS
  <2> HIDE DEF M
  <2> QED BY <2>2, <2>3
<1> HIDE DEF M
<1> QED BY <1>5 DEF Max

-----------------------------------------------------------------------------
(* The search loops. *)

(* An upward loop stays within the levels and enters only levels in Ok. *)
LEMMA SearchUpRange ==
  ASSUME NEW n \in Nat, NEW level \in 0..n, NEW Ok
  PROVE  /\ SearchUp(level, n, Ok) \in level..n
         /\ \A k \in (level + 1)..SearchUp(level, n, Ok) : k \in Ok
         /\ SearchUp(level, n, Ok) = n \/ SearchUp(level, n, Ok) + 1 \notin Ok
<1> DEFINE S == {i \in level..n : i = n \/ i + 1 \notin Ok}
           r == SearchUp(level, n, Ok)
<1>1. S \in SUBSET Nat /\ n \in S
  OBVIOUS
<1>2. r = Min(S)
  BY DEF SearchUp
<1>3. r \in S /\ \A y \in S : r <= y
  <2> HIDE DEF S, r
  <2> QED BY <1>1, <1>2, MinNat
<1>4. r \in level..n /\ (r = n \/ r + 1 \notin Ok)
  BY <1>3
<1>5. ASSUME NEW k \in (level + 1)..r PROVE k \in Ok
  <2> HIDE DEF r
  <2>1. k - 1 \in level..n /\ k - 1 < r /\ k - 1 # n /\ (k - 1) + 1 = k
    BY <1>4
  <2>2. k - 1 \notin S
    <3> HIDE DEF S
    <3> QED BY <1>3, <1>4, <2>1
  <2> QED BY <2>1, <2>2
<1> QED BY <1>4, <1>5

(* A downward loop stays within the levels and leaves only levels outside  *)
(* Ok.                                                                     *)
LEMMA SearchDownRange ==
  ASSUME NEW level \in Nat, NEW Ok
  PROVE  /\ SearchDown(level, Ok) \in 0..level
         /\ \A k \in (SearchDown(level, Ok) + 1)..level : k \notin Ok
         /\ SearchDown(level, Ok) = 0 \/ SearchDown(level, Ok) \in Ok
<1> DEFINE S == {i \in 0..level : i = 0 \/ i \in Ok}
           r == SearchDown(level, Ok)
<1>1. S \in SUBSET (0..level) /\ 0 \in S
  OBVIOUS
<1>2. r = Max(S)
  BY DEF SearchDown
<1>3. r \in S /\ \A y \in S : y <= r
  <2> HIDE DEF S, r
  <2> QED BY <1>1, <1>2, MaxBounded
<1>4. r \in 0..level /\ (r = 0 \/ r \in Ok)
  BY <1>3
<1>5. ASSUME NEW k \in (r + 1)..level PROVE k \notin Ok
  <2> HIDE DEF r
  <2>1. k \in 0..level /\ ~(k <= r)
    BY <1>4
  <2> QED BY <1>3, <2>1
<1> QED BY <1>4, <1>5

-----------------------------------------------------------------------------
(* One sensor. *)

(* What a judgment may do: stay within the levels, rise only over levels   *)
(* in Enter, and fall only over levels outside Keep.                       *)
Moves(n, level, j, Enter, Keep) ==
  /\ j \in 0..n
  /\ \A k \in (level + 1)..j : k \in Enter
  /\ \A k \in (j + 1)..level : k \notin Keep

(* Staying is a move, and so is the result of either kind of loop. *)
LEMMA LoopsMove ==
  ASSUME NEW n \in Nat, NEW level \in 0..n, NEW Enter, NEW Keep
  PROVE  /\ Moves(n, level, level, Enter, Keep)
         /\ Moves(n, level, SearchUp(level, n, Enter), Enter, Keep)
         /\ Moves(n, level, SearchDown(level, Keep), Enter, Keep)
<1>1. Moves(n, level, level, Enter, Keep)
  BY DEF Moves
<1>2. Moves(n, level, SearchUp(level, n, Enter), Enter, Keep)
  <2> DEFINE r == SearchUp(level, n, Enter)
  <2>1. r \in level..n /\ \A k \in (level + 1)..r : k \in Enter
    BY SearchUpRange
  <2> HIDE DEF r
  <2>2. Moves(n, level, r, Enter, Keep)
    BY <2>1 DEF Moves
  <2> QED BY <2>2 DEF r
<1>3. Moves(n, level, SearchDown(level, Keep), Enter, Keep)
  <2> DEFINE r == SearchDown(level, Keep)
  <2>1. r \in 0..level /\ \A k \in (r + 1)..level : k \notin Keep
    BY SearchDownRange
  <2> HIDE DEF r
  <2>2. Moves(n, level, r, Enter, Keep)
    BY <2>1 DEF Moves
  <2> QED BY <2>2 DEF r
<1> QED BY <1>1, <1>2, <1>3

(* Every path through AscJudgment is a move. *)
LEMMA AscJudgmentMoves ==
  ASSUME NEW c, NEW t, NEW rs, NEW s,
         LevelCount(c) \in Nat, NEW level \in 0..LevelCount(c)
  PROVE  Moves(LevelCount(c), level, AscJudgment(c, t, rs, s, level),
               AscEnter(c, t, rs, s), AscKeep(c, t, rs, s))
<1> DEFINE n == LevelCount(c)
           Enter == AscEnter(c, t, rs, s)
           Keep == AscKeep(c, t, rs, s)
<1>1. AscJudgment(c, t, rs, s, level) \in
        {level, SearchUp(level, n, Enter), SearchDown(level, Keep)}
  BY Zenon DEF AscJudgment, AscendLevelToThreshold, DescendLevelToThresholdClr,
               DescendLevelToThreshold, AscendLevelToThresholdClr
<1> HIDE DEF n, Enter, Keep
<1>2. n \in Nat /\ level \in 0..n
  BY DEF n
<1>3. Moves(n, level, AscJudgment(c, t, rs, s, level), Enter, Keep)
  BY <1>1, <1>2, LoopsMove
<1> QED BY <1>3 DEF n, Enter, Keep

(* Every path through DescJudgment is a move. *)
LEMMA DescJudgmentMoves ==
  ASSUME NEW c, NEW t, NEW rs, NEW s,
         LevelCount(c) \in Nat, NEW level \in 0..LevelCount(c)
  PROVE  Moves(LevelCount(c), level, DescJudgment(c, t, rs, s, level),
               DescEnter(c, t, rs, s), DescKeep(c, t, rs, s))
<1> DEFINE n == LevelCount(c)
           Enter == DescEnter(c, t, rs, s)
           Keep == DescKeep(c, t, rs, s)
<1>1. DescJudgment(c, t, rs, s, level) \in
        {level, SearchUp(level, n, Enter), SearchDown(level, Keep)}
  BY Zenon DEF DescJudgment, LevelUpwardsSearch, LevelDownwardsSearch,
               LevelDownwardsSearchWithThreshold, LevelUpwardsSearchWithThreshold
<1> HIDE DEF n, Enter, Keep
<1>2. n \in Nat /\ level \in 0..n
  BY DEF n
<1>3. Moves(n, level, DescJudgment(c, t, rs, s, level), Enter, Keep)
  BY <1>1, <1>2, LoopsMove
<1> QED BY <1>3 DEF n, Enter, Keep

-----------------------------------------------------------------------------
(* The cluster. *)

Judgment(c, t, rs, s, level) ==
  IF c.desc THEN DescJudgment(c, t, rs, s, level) ELSE AscJudgment(c, t, rs, s, level)
Enter(c, t, rs, s) == IF c.desc THEN DescEnter(c, t, rs, s) ELSE AscEnter(c, t, rs, s)
Keep(c, t, rs, s) == IF c.desc THEN DescKeep(c, t, rs, s) ELSE AscKeep(c, t, rs, s)

(* The judgment of either kind of cluster is a move. *)
LEMMA JudgmentMoves ==
  ASSUME NEW c, NEW t, NEW rs, NEW s,
         LevelCount(c) \in Nat, NEW level \in 0..LevelCount(c)
  PROVE  Moves(LevelCount(c), level, Judgment(c, t, rs, s, level),
               Enter(c, t, rs, s), Keep(c, t, rs, s))
<1>1. CASE c.desc
  BY <1>1, DescJudgmentMoves DEF Judgment, Enter, Keep
<1>2. CASE ~c.desc
  BY <1>2, AscJudgmentMoves DEF Judgment, Enter, Keep
<1> QED BY <1>1, <1>2

(* UpdateThermalLevel gives the greatest judgment of the reported sensors, *)
(* the old level if there are none, 0 if the state condition fails.        *)
LEMMA UpdateIsMax ==
  ASSUME NEW c, NEW t, NEW rs, NEW ok,
         LevelCount(c) \in Nat, NEW level \in 0..LevelCount(c)
  PROVE  LET u == UpdateThermalLevel(c, t, rs, ok, level) IN
         /\ u \in 0..LevelCount(c)
         /\ ~ok => u = 0
         /\ ok /\ Heard(c, t) = {} => u = level
         /\ ok /\ Heard(c, t) # {} =>
              /\ \E s \in Heard(c, t) : u = Judgment(c, t, rs, s, level)
              /\ \A s \in Heard(c, t) : Judgment(c, t, rs, s, level) <= u
<1> DEFINE J == {Judgment(c, t, rs, s, level) : s \in Heard(c, t)}
           u == UpdateThermalLevel(c, t, rs, ok, level)
<1>1. CalculateSensorLevel(c, t, rs, level) = J
  BY Zenon DEF CalculateSensorLevel, Judgment, Heard
<1>2. u = IF ~ok THEN 0 ELSE IF J = {} THEN level ELSE Max(J)
  BY <1>1, Zenon DEF UpdateThermalLevel
<1>3. \A s \in Heard(c, t) : Judgment(c, t, rs, s, level) \in 0..LevelCount(c)
  BY JudgmentMoves DEF Moves
<1>4. J \in SUBSET (0..LevelCount(c))
  BY <1>3
<1>5. J = {} <=> Heard(c, t) = {}
  OBVIOUS
<1>6. J # {} => Max(J) \in J /\ \A y \in J : y <= Max(J)
  <2> HIDE DEF J
  <2> QED BY <1>4, MaxBounded
<1>7. u \in 0..LevelCount(c)
  <2> HIDE DEF J, u
  <2> QED BY <1>2, <1>4, <1>6
<1>8. ASSUME ok, Heard(c, t) # {}
      PROVE  /\ \E s \in Heard(c, t) : u = Judgment(c, t, rs, s, level)
             /\ \A s \in Heard(c, t) : Judgment(c, t, rs, s, level) <= u
  <2>1. u \in J /\ \A y \in J : y <= u
    <3> HIDE DEF J, u
    <3> QED BY <1>2, <1>5, <1>6, <1>8
  <2> HIDE DEF u
  <2> QED BY <2>1
<1>9. (~ok => u = 0) /\ (ok /\ Heard(c, t) = {} => u = level)
  <2> HIDE DEF J, u
  <2> QED BY <1>2, <1>5
<1> HIDE DEF J
<1> QED BY <1>7, <1>8, <1>9

(* The number of levels of a configuration is a natural number. *)
LEMMA LevelCountNat == \A c \in Clusters : LevelCount(c) \in Nat
<1> TAKE c \in Clusters
<1>1. PICK s \in DOMAIN c.sensors : s = CHOOSE x \in DOMAIN c.sensors : TRUE
  BY ClustersAssumption DEF CheckStandard
<1>2. c.sensors[s] \in Seq(LevelItem)
  BY ClustersAssumption
<1> QED BY <1>1, <1>2 DEF LevelCount

(* A decision keeps the level within the levels of the cluster. *)
LEMMA DecideRange ==
  ASSUME TypeOK, NEW t
  PROVE  Decide(t) \in 0..LevelCount(cluster)
BY LevelCountNat, UpdateIsMax DEF TypeOK, Decide

(***************************************************************************)
(* The level is always one the cluster is configured with, so that every   *)
(* levItems.at(level - 1) and at(level) of AscJudgment and DescJudgment    *)
(* exists, whatever the reports, the rates and the states.                 *)
(***************************************************************************)
THEOREM TypeCorrect == Spec => []TypeOK
<1>1. Init => TypeOK
  <2> SUFFICES ASSUME Init PROVE TypeOK
    OBVIOUS
  <2>1. <<>> \in [{} -> Temps] /\ <<>> \in [{} -> RateLists]
    OBVIOUS
  <2>2. <<>> \in Reports(cluster) /\ <<>> \in RateMaps(cluster)
    BY <2>1 DEF Reports, RateMaps
  <2>3. latestLevel \in 0..LevelCount(cluster)
    BY LevelCountNat DEF Init
  <2> QED BY <2>2, <2>3 DEF Init, TypeOK
<1>2. TypeOK /\ [Next]_vars => TypeOK'
  <2> SUFFICES ASSUME TypeOK, [Next]_vars PROVE TypeOK'
    OBVIOUS
  <2>1. CASE OnTemperatureChanged
    <3>1. PICK t \in Reports(cluster) \ {<<>>} : typeTempMap' = t /\ latestLevel' = Decide(t)
      BY <2>1 DEF OnTemperatureChanged
    <3>2. latestLevel' \in 0..LevelCount(cluster)
      BY <3>1, DecideRange
    <3>3. rates' \in RateMaps(cluster)
      BY <2>1 DEF OnTemperatureChanged, TypeOK
    <3> QED BY <2>1, <3>1, <3>2, <3>3 DEF OnTemperatureChanged, TypeOK
  <2>2. CASE ExecutePolicy
    BY <2>2, DecideRange DEF ExecutePolicy, TypeOK
  <2>3. CASE StateChanged
    BY <2>3 DEF StateChanged, TypeOK
  <2>4. CASE UNCHANGED vars
    BY <2>4 DEF vars, TypeOK
  <2> QED BY <2>1, <2>2, <2>3, <2>4 DEF Next
<1> QED BY <1>1, <1>2, PTL DEF Spec

-----------------------------------------------------------------------------
(* Levels move for a reason. *)

(* The levels an upward loop may enter are the ones the sensor has reached *)
(* and whose extra condition holds with a critical trend.                  *)
LEMMA EnterMeansReached ==
  ASSUME NEW c, NEW t, NEW rs, NEW s, NEW k \in Enter(c, t, rs, s)
  PROVE  Reached(c, s, k, t[s]) /\ CheckExtraCondition(c, t, rs, s, k, TRUE)
BY DEF Enter, AscEnter, DescEnter, Reached

(* Temperatures of a report and of a level item are integers. *)
LEMMA SensorTypes ==
  ASSUME NEW c \in Clusters, NEW t \in Reports(c), NEW s \in Heard(c, t)
  PROVE  /\ t[s] \in Int
         /\ \A k \in 1..LevelCount(c) : /\ c.sensors[s][k].threshold \in Int
                                        /\ c.sensors[s][k].thresholdClr \in Int
<1>1. t[s] \in Int
  <2>1. PICK S : t \in [S -> Temps]
    BY DEF Reports
  <2> QED BY <2>1, ClustersAssumption DEF Heard
<1>2. c.sensors[s] \in Seq(LevelItem) /\ Len(c.sensors[s]) = LevelCount(c)
  BY ClustersAssumption DEF Heard, CheckStandard
<1>3. \A k \in 1..LevelCount(c) : c.sensors[s][k] \in LevelItem
  BY <1>2
<1> QED BY <1>1, <1>3 DEF LevelItem

(* A level a downward loop may leave was set back or lost its extra        *)
(* condition.                                                              *)
LEMMA NotKeptMeansSetBack ==
  ASSUME NEW c \in Clusters, NEW t \in Reports(c), NEW rs, NEW s \in Heard(c, t),
         NEW k \in 1..LevelCount(c), k \notin Keep(c, t, rs, s)
  PROVE  SetBack(c, s, k, t[s]) \/ ~CheckExtraCondition(c, t, rs, s, k, FALSE)
<1> DEFINE clr == c.sensors[s][k].thresholdClr
           extra == CheckExtraCondition(c, t, rs, s, k, FALSE)
<1>1. t[s] \in Int /\ clr \in Int
  BY SensorTypes
<1>2. CASE c.desc
  <2>1. ~(t[s] <= clr /\ extra)
    BY <1>2, Zenon DEF Keep, DescKeep
  <2>2. t[s] <= clr \/ t[s] > clr
    BY <1>1
  <2> QED BY <1>2, <2>1, <2>2, Zenon DEF SetBack
<1>3. CASE ~c.desc
  <2>1. ~(t[s] >= clr /\ extra)
    BY <1>3, Zenon DEF Keep, AscKeep
  <2>2. t[s] >= clr \/ t[s] < clr
    BY <1>1
  <2> QED BY <1>3, <2>1, <2>2, Zenon DEF SetBack
<1> QED BY <1>2, <1>3

(* One decision moves the level only with a justification. *)
LEMMA DecisionJustified ==
  ASSUME TypeOK, NEW t \in Reports(cluster), latestLevel' = Decide(t), typeTempMap' = t
  PROVE  MovesJustified
<1> DEFINE c == cluster
           n == LevelCount(c)
           level == latestLevel
           J(s) == Judgment(c, t, rates, s, level)
<1>0. n \in Nat /\ level \in 0..n
  BY LevelCountNat DEF TypeOK
<1>1. /\ latestLevel' \in 0..n
      /\ ~stateOk => latestLevel' = 0
      /\ stateOk /\ Heard(c, t) = {} => latestLevel' = level
      /\ stateOk /\ Heard(c, t) # {} =>
           /\ \E s \in Heard(c, t) : latestLevel' = J(s)
           /\ \A s \in Heard(c, t) : J(s) <= latestLevel'
  BY <1>0, UpdateIsMax DEF Decide
<1>2. \A s : Moves(n, level, J(s), Enter(c, t, rates, s), Keep(c, t, rates, s))
  BY <1>0, JudgmentMoves
<1>3. ASSUME latestLevel' > level
      PROVE  \E s \in Heard(c, t) : \A k \in (level + 1)..latestLevel' :
               /\ Reached(c, s, k, t[s])
               /\ CheckExtraCondition(c, t, rates, s, k, TRUE)
  <2>1. PICK s \in Heard(c, t) : latestLevel' = J(s)
    <3> HIDE DEF J, n, level
    <3> QED BY <1>0, <1>1, <1>3
  <2>2. \A k \in (level + 1)..latestLevel' : k \in Enter(c, t, rates, s)
    <3> HIDE DEF J, n, level
    <3> QED BY <1>2, <2>1 DEF Moves
  <2> QED BY <2>2, EnterMeansReached
<1>4. ASSUME latestLevel' < level, stateOk,
             NEW s \in Heard(c, t), NEW k \in (latestLevel' + 1)..level
      PROVE  SetBack(c, s, k, t[s]) \/ ~CheckExtraCondition(c, t, rates, s, k, FALSE)
  <2>1. J(s) \in 0..n /\ J(s) <= latestLevel'
    <3> HIDE DEF J, n, level
    <3> QED BY <1>1, <1>2, <1>4 DEF Moves
  <2>2. k \in (J(s) + 1)..level /\ k \in 1..n
    <3> HIDE DEF J, n, level
    <3> QED BY <1>0, <1>1, <2>1
  <2>3. k \notin Keep(c, t, rates, s)
    <3> HIDE DEF J, n, level
    <3> QED BY <1>2, <2>2 DEF Moves
  <2> QED BY <2>2, <2>3, NotKeptMeansSetBack DEF TypeOK
<1> QED BY <1>3, <1>4 DEF MovesJustified

(***************************************************************************)
(* A level rises only as far as one reported sensor justifies level by     *)
(* level, and falls only past levels that every reported sensor has set    *)
(* back or whose extra condition lapsed: the search loops never jump over  *)
(* a level, for every configuration the parser accepts.                    *)
(***************************************************************************)
THEOREM MovesAreJustified == Spec => LevelMovesJustified
<1>1. TypeOK /\ [Next]_vars => [MovesJustified]_vars
  <2> SUFFICES ASSUME TypeOK, Next PROVE MovesJustified
    OBVIOUS
  <2>0. latestLevel \in Int
    BY LevelCountNat DEF TypeOK
  <2>1. CASE OnTemperatureChanged
    <3>1. PICK t \in Reports(cluster) : typeTempMap' = t /\ latestLevel' = Decide(t)
      BY <2>1 DEF OnTemperatureChanged
    <3> QED BY <3>1, DecisionJustified
  <2>2. CASE ExecutePolicy
    <3>1. typeTempMap \in Reports(cluster) /\ typeTempMap' = typeTempMap
          /\ latestLevel' = Decide(typeTempMap)
      BY <2>2 DEF ExecutePolicy, TypeOK
    <3> QED BY <3>1, DecisionJustified
  <2>3. CASE StateChanged
    <3>1. ~(latestLevel' > latestLevel) /\ ~(latestLevel' < latestLevel)
      BY <2>0, <2>3 DEF StateChanged
    <3> QED BY <3>1, Zenon DEF MovesJustified
  <2> QED BY <2>1, <2>2, <2>3 DEF Next
<1> QED BY <1>1, TypeCorrect, PTL DEF Spec, LevelMovesJustified

-----------------------------------------------------------------------------
(* Hysteresis. *)

(* A set of levels that holds with a level every lower one. *)
DownClosed(n, S) == \A m \in S : \A k \in 1..n : k <= m => k \in S

(* What hysteresis asks of one sensor with level j: the highest level that *)
(* it has triggered, or that was reached before and is not set back.       *)
Highest(n, level, j, Trig, Hold) ==
  /\ j \in 0..n
  /\ j = 0 \/ j \in Trig \/ (j <= level /\ j \in Hold)
  /\ \A k \in Trig : k <= j
  /\ \A k \in Hold : k <= level => k <= j

(* The first branch: the next level is triggered, and the upward loop runs. *)
LEMMA UpIsHighest ==
  ASSUME NEW n \in Nat, NEW level \in 0..n, NEW Trig \in SUBSET (1..n),
         NEW Hold \in SUBSET (1..n), DownClosed(n, Trig),
         level < n, level + 1 \in Trig
  PROVE  Highest(n, level, SearchUp(level, n, Trig), Trig, Hold)
<1> DEFINE r == SearchUp(level, n, Trig)
<1>1. /\ r \in level..n
      /\ \A k \in (level + 1)..r : k \in Trig
      /\ r = n \/ r + 1 \notin Trig
  BY SearchUpRange
<1> HIDE DEF r
<1>2. r # level
  BY <1>1
<1>3. r \in Trig
  BY <1>1, <1>2
<1>4. ASSUME NEW k \in Trig PROVE k <= r
  <2>1. CASE r = n
    BY <2>1
  <2>2. CASE r # n /\ ~(k <= r)
    <3>1. r + 1 \in 1..n /\ r + 1 <= k
      BY <1>1, <2>2
    <3>2. r + 1 \in Trig
      BY <3>1 DEF DownClosed
    <3> QED BY <1>1, <2>2, <3>2
  <2> QED BY <2>1, <2>2
<1>5. \A k \in Hold : k <= level => k <= r
  BY <1>1
<1>6. Highest(n, level, r, Trig, Hold)
  BY <1>1, <1>3, <1>4, <1>5 DEF Highest
<1> QED BY <1>6 DEF r

(* If the next level is not triggered, no higher one is either. *)
LEMMA NoneAbove ==
  ASSUME NEW n \in Nat, NEW level \in 0..n, NEW Trig \in SUBSET (1..n),
         DownClosed(n, Trig), level = n \/ level + 1 \notin Trig,
         NEW k \in Trig
  PROVE  k <= level
<1>1. CASE level = n
  BY <1>1
<1>2. CASE level # n /\ ~(k <= level)
  <2>1. level + 1 \in 1..n /\ level + 1 <= k
    BY <1>2
  <2>2. level + 1 \in Trig
    BY <2>1 DEF DownClosed
  <2> QED BY <1>2, <2>2
<1> QED BY <1>1, <1>2

(* The second branch: the downward loop. *)
LEMMA DownIsHighest ==
  ASSUME NEW n \in Nat, NEW level \in 0..n, NEW Trig \in SUBSET (1..n),
         NEW Hold \in SUBSET (1..n), Trig \subseteq Hold, DownClosed(n, Trig),
         level = n \/ level + 1 \notin Trig
  PROVE  Highest(n, level, SearchDown(level, Hold), Trig, Hold)
<1> DEFINE r == SearchDown(level, Hold)
<1>1. /\ r \in 0..level
      /\ \A k \in (r + 1)..level : k \notin Hold
      /\ r = 0 \/ r \in Hold
  BY SearchDownRange
<1> HIDE DEF r
<1>2. ASSUME NEW k \in Hold, k <= level PROVE k <= r
  <2>1. k \in 1..n
    OBVIOUS
  <2>2. k \in (r + 1)..level \/ k <= r
    BY <1>1, <1>2, <2>1
  <2> QED BY <1>1, <2>2
<1>3. ASSUME NEW k \in Trig PROVE k <= r
  <2>1. k <= level
    BY NoneAbove
  <2> QED BY <1>2, <2>1
<1>4. Highest(n, level, r, Trig, Hold)
  BY <1>1, <1>2, <1>3 DEF Highest
<1> QED BY <1>4 DEF r

(* The third branch: the level stays. *)
LEMMA StayIsHighest ==
  ASSUME NEW n \in Nat, NEW level \in 0..n, NEW Trig \in SUBSET (1..n),
         NEW Hold \in SUBSET (1..n), DownClosed(n, Trig),
         level = n \/ level + 1 \notin Trig, level = 0 \/ level \in Hold
  PROVE  Highest(n, level, level, Trig, Hold)
<1>1. \A k \in Trig : k <= level
  BY NoneAbove
<1> QED BY <1>1 DEF Highest

(* A sequence whose neighbours are in order is in order. *)
LEMMA NeighboursMonotone ==
  ASSUME NEW n \in Nat, NEW f \in [1..n -> Int],
         \A k \in 1..n : k > 1 => f[k - 1] <= f[k]
  PROVE  \A m \in 1..n : \A k \in 1..n : k <= m => f[k] <= f[m]
<1> DEFINE Bad == {m \in 1..n : \E k \in 1..n : k <= m /\ ~(f[k] <= f[m])}
<1>1. SUFFICES Bad = {}
  BY <1>1
<1>2. SUFFICES ASSUME Bad # {} PROVE FALSE
  OBVIOUS
<1>3. Bad \in SUBSET Nat
  OBVIOUS
<1>4. PICK m \in Bad : \A y \in Bad : m <= y
  <2> HIDE DEF Bad
  <2> QED BY <1>2, <1>3, MinNat
<1>5. PICK k \in 1..n : k <= m /\ ~(f[k] <= f[m])
  OBVIOUS
<1>6. m \in 1..n /\ k < m
  BY <1>5
<1>7. m - 1 \in 1..n /\ k <= m - 1
  BY <1>6
<1>8. m - 1 \notin Bad
  <2> HIDE DEF Bad
  <2> QED BY <1>4, <1>6
<1>9. f[k] <= f[m - 1]
  BY <1>7, <1>8
<1>10. f[m - 1] <= f[m]
  BY <1>6, <1>7
<1>11. f[k] \in Int /\ f[m - 1] \in Int /\ f[m] \in Int
  BY <1>6, <1>7
<1> QED BY <1>5, <1>9, <1>10, <1>11

(* Without extra conditions the levels to enter and to keep are the ones   *)
(* the properties speak of.                                                *)
LEMMA PlainSets ==
  ASSUME NEW c, NEW t, NEW rs, NEW s, NoExtraCondition(c)
  PROVE  /\ Enter(c, t, rs, s) = {k \in 1..LevelCount(c) : Reached(c, s, k, t[s])}
         /\ ~c.desc => Keep(c, t, rs, s) =
              {k \in 1..LevelCount(c) : t[s] >= c.sensors[s][k].thresholdClr}
         /\ c.desc => Keep(c, t, rs, s) =
              {k \in 1..LevelCount(c) : t[s] <= c.sensors[s][k].thresholdClr}
<1>1. \A k : CheckExtraCondition(c, t, rs, s, k, TRUE) /\ CheckExtraCondition(c, t, rs, s, k, FALSE)
  BY Zenon DEF CheckExtraCondition, NoExtraCondition
<1>2. CASE c.desc
  BY <1>1, <1>2 DEF Enter, Keep, DescEnter, DescKeep, Reached
<1>3. CASE ~c.desc
  BY <1>1, <1>3 DEF Enter, Keep, AscEnter, AscKeep, Reached
<1> QED BY <1>2, <1>3

(* In a well-ordered configuration a triggered level is not set back, and  *)
(* a sensor that triggers a level triggers the lower ones.                 *)
LEMMA WellOrderedSets ==
  ASSUME NEW c \in Clusters, NEW t \in Reports(c), NEW rs, NEW s \in Heard(c, t),
         WellOrdered(c), NoExtraCondition(c)
  PROVE  /\ Enter(c, t, rs, s) \in SUBSET (1..LevelCount(c))
         /\ Keep(c, t, rs, s) \in SUBSET (1..LevelCount(c))
         /\ Enter(c, t, rs, s) \subseteq Keep(c, t, rs, s)
         /\ DownClosed(LevelCount(c), Enter(c, t, rs, s))
<1> DEFINE n == LevelCount(c)
           thr(k) == c.sensors[s][k].threshold
           clr(k) == c.sensors[s][k].thresholdClr
           x == t[s]
<1>1. n \in Nat /\ x \in Int /\ \A k \in 1..n : thr(k) \in Int /\ clr(k) \in Int
  BY LevelCountNat, SensorTypes
<1>2. CASE ~c.desc
  <2>1. /\ Enter(c, t, rs, s) = {k \in 1..n : x >= thr(k)}
        /\ Keep(c, t, rs, s) = {k \in 1..n : x >= clr(k)}
    BY <1>2, PlainSets DEF Reached
  <2>2. \A k \in 1..n : clr(k) <= thr(k) /\ (k > 1 => thr(k - 1) <= thr(k))
    <3> TAKE k \in 1..n
    <3>1. /\ clr(k) <= thr(k)
          /\ k > 1 => thr(k) >= thr(k - 1)
      BY <1>2, Zenon DEF WellOrdered, Heard
    <3>2. k > 1 => k - 1 \in 1..n
      BY <1>1
    <3> HIDE DEF n, thr, clr
    <3> QED BY <1>1, <3>1, <3>2
  <2> HIDE DEF n, thr, clr, x
  <2>3. \A m \in 1..n : \A k \in 1..n : k <= m => thr(k) <= thr(m)
    <3> DEFINE f == [k \in 1..n |-> thr(k)]
    <3>1. f \in [1..n -> Int] /\ \A k \in 1..n : k > 1 => f[k - 1] <= f[k]
      BY <1>1, <2>2
    <3>2. \A m \in 1..n : \A k \in 1..n : k <= m => f[k] <= f[m]
      <4> HIDE DEF f
      <4> QED BY <1>1, <3>1, NeighboursMonotone
    <3> QED BY <3>2
  <2>4. Enter(c, t, rs, s) \subseteq Keep(c, t, rs, s)
    BY <1>1, <2>1, <2>2
  <2>5. DownClosed(n, Enter(c, t, rs, s))
    BY <1>1, <2>1, <2>3 DEF DownClosed
  <2> QED BY <2>1, <2>4, <2>5 DEF n
<1>3. CASE c.desc
  <2>1. /\ Enter(c, t, rs, s) = {k \in 1..n : x <= thr(k)}
        /\ Keep(c, t, rs, s) = {k \in 1..n : x <= clr(k)}
    BY <1>3, PlainSets DEF Reached
  <2>2. \A k \in 1..n : clr(k) >= thr(k) /\ (k > 1 => thr(k - 1) >= thr(k))
    <3> TAKE k \in 1..n
    <3>1. /\ clr(k) >= thr(k)
          /\ k > 1 => thr(k) <= thr(k - 1)
      BY <1>3, Zenon DEF WellOrdered, Heard
    <3>2. k > 1 => k - 1 \in 1..n
      BY <1>1
    <3> HIDE DEF n, thr, clr
    <3> QED BY <1>1, <3>1, <3>2
  <2> HIDE DEF n, thr, clr, x
  <2>3. \A m \in 1..n : \A k \in 1..n : k <= m => thr(k) >= thr(m)
    <3> DEFINE f == [k \in 1..n |-> 0 - thr(k)]
    <3>1. f \in [1..n -> Int]
      BY <1>1
    <3>2. \A k \in 1..n : k > 1 => f[k - 1] <= f[k]
      BY <1>1, <2>2
    <3>3. \A m \in 1..n : \A k \in 1..n : k <= m => f[k] <= f[m]
      <4> HIDE DEF f
      <4> QED BY <1>1, <3>1, <3>2, NeighboursMonotone
    <3> QED BY <1>1, <3>3
  <2>4. Enter(c, t, rs, s) \subseteq Keep(c, t, rs, s)
    BY <1>1, <2>1, <2>2
  <2>5. DownClosed(n, Enter(c, t, rs, s))
    BY <1>1, <2>1, <2>3 DEF DownClosed
  <2> QED BY <2>1, <2>4, <2>5 DEF n
<1> QED BY <1>2, <1>3

(* A judgment has three branches.  Which one it takes depends on whether   *)
(* the next level's temperature is reached, with or without its extra      *)
(* condition, and then on whether the level is kept.                       *)
LEMMA JudgmentBranches ==
  ASSUME NEW c \in Clusters, NEW t \in Reports(c), NEW rs, NEW s \in Heard(c, t),
         NEW level \in 0..LevelCount(c)
  PROVE  LET n == LevelCount(c)
             j == Judgment(c, t, rs, s, level)
             up == level < n /\ Reached(c, s, level + 1, t[s])
             down == level > 0 /\ level \notin Keep(c, t, rs, s)
         IN  /\ up => j = SearchUp(level, n, Enter(c, t, rs, s))
             /\ ~up /\ down => j = SearchDown(level, Keep(c, t, rs, s))
             /\ ~up /\ ~down => j = level
<1> DEFINE n == LevelCount(c)
           E == Enter(c, t, rs, s)
           K == Keep(c, t, rs, s)
           x == t[s]
           up == level < n /\ Reached(c, s, level + 1, t[s])
           down == level > 0 /\ level \notin K
<1>1. n \in Nat /\ n >= 1 /\ level \in 0..n /\ x \in Int
      /\ \A k \in 1..n : c.sensors[s][k].thresholdClr \in Int
  BY LevelCountNat, SensorTypes, ClustersAssumption
<1>2. CASE ~c.desc
  <2> DEFINE nextUp == level < n /\ x >= c.sensors[s][level + 1].threshold
             curDown == /\ level > 0
                        /\ \/ x < c.sensors[s][level].thresholdClr
                           \/ ~CheckExtraCondition(c, t, rs, s, level, FALSE)
  <2>1. nextUp <=> up
    BY <1>2, Zenon DEF Reached
  <2>2. curDown <=> down
    <3> DEFINE clr == c.sensors[s][level].thresholdClr
               extra == CheckExtraCondition(c, t, rs, s, level, FALSE)
    <3>1. level > 0 => level \in 1..n
      BY <1>1
    <3>2. level > 0 => (level \in K <=> x >= clr /\ extra)
      BY <1>2, <3>1, Zenon DEF Keep, AscKeep
    <3>3. level > 0 => (x < clr <=> ~(x >= clr))
      <4>1. level > 0 => clr \in Int
        BY <1>1, <3>1
      <4> HIDE DEF clr, x
      <4> QED BY <1>1, <4>1
    <3> QED BY <3>2, <3>3, Zenon
  <2>3. Judgment(c, t, rs, s, level) =
          IF level > 0 /\ level < n THEN
            IF nextUp THEN SearchUp(level, n, E)
            ELSE IF curDown THEN SearchDown(level, K) ELSE level
          ELSE IF level = n THEN IF curDown THEN SearchDown(level, K) ELSE level
          ELSE IF nextUp THEN SearchUp(level, n, E) ELSE level
    BY <1>2, Zenon DEF Judgment, Enter, Keep, AscJudgment, AscendLevelToThreshold,
       DescendLevelToThresholdClr, DescendLevelToThreshold, AscendLevelToThresholdClr
  <2> HIDE DEF n, E, K, x, nextUp, curDown, up, down
  <2>4. up => level < n /\ level # n
    BY <1>1 DEF up
  <2>5. /\ up => Judgment(c, t, rs, s, level) = SearchUp(level, n, E)
        /\ ~up /\ down => Judgment(c, t, rs, s, level) = SearchDown(level, K)
        /\ ~up /\ ~down => Judgment(c, t, rs, s, level) = level
    <3>1. down => level > 0
      BY DEF down
    <3> QED BY <1>1, <2>1, <2>2, <2>3, <2>4, <3>1
  <2> QED BY <2>5, Zenon DEF n, E, K, up, down
<1>3. CASE c.desc
  <2> DEFINE nextUp == level < n /\ x <= c.sensors[s][level + 1].threshold
             curDown == /\ level > 0
                        /\ \/ x > c.sensors[s][level].thresholdClr
                           \/ ~CheckExtraCondition(c, t, rs, s, level, FALSE)
  <2>1. nextUp <=> up
    BY <1>3, Zenon DEF Reached
  <2>2. curDown <=> down
    <3> DEFINE clr == c.sensors[s][level].thresholdClr
               extra == CheckExtraCondition(c, t, rs, s, level, FALSE)
    <3>1. level > 0 => level \in 1..n
      BY <1>1
    <3>2. level > 0 => (level \in K <=> x <= clr /\ extra)
      BY <1>3, <3>1, Zenon DEF Keep, DescKeep
    <3>3. level > 0 => (x > clr <=> ~(x <= clr))
      <4>1. level > 0 => clr \in Int
        BY <1>1, <3>1
      <4> HIDE DEF clr, x
      <4> QED BY <1>1, <4>1
    <3> QED BY <3>2, <3>3, Zenon
  <2>3. Judgment(c, t, rs, s, level) =
          IF level # 0 /\ level < n THEN
            IF nextUp THEN SearchUp(level, n, E)
            ELSE IF curDown THEN SearchDown(level, K) ELSE level
          ELSE IF level = n THEN IF curDown THEN SearchDown(level, K) ELSE level
          ELSE IF nextUp THEN SearchUp(level, n, E) ELSE level
    BY <1>3, Zenon DEF Judgment, Enter, Keep, DescJudgment, LevelUpwardsSearch,
       LevelDownwardsSearch, LevelDownwardsSearchWithThreshold, LevelUpwardsSearchWithThreshold
  <2> HIDE DEF n, E, K, x, nextUp, curDown, up, down
  <2>4. up => level < n /\ level # n
    BY <1>1 DEF up
  <2>5. /\ up => Judgment(c, t, rs, s, level) = SearchUp(level, n, E)
        /\ ~up /\ down => Judgment(c, t, rs, s, level) = SearchDown(level, K)
        /\ ~up /\ ~down => Judgment(c, t, rs, s, level) = level
    <3>1. down => level > 0
      BY DEF down
    <3> QED BY <1>1, <2>1, <2>2, <2>3, <2>4, <3>1
  <2> QED BY <2>5, Zenon DEF n, E, K, up, down
<1> QED BY <1>2, <1>3

(* The judgment of one sensor is its hysteresis level. *)
LEMMA JudgmentHighest ==
  ASSUME NEW c \in Clusters, NEW t \in Reports(c), NEW rs, NEW s \in Heard(c, t),
         WellOrdered(c), NoExtraCondition(c), NEW level \in 0..LevelCount(c)
  PROVE  Highest(LevelCount(c), level, Judgment(c, t, rs, s, level),
                 Enter(c, t, rs, s), Keep(c, t, rs, s))
<1> DEFINE n == LevelCount(c)
           E == Enter(c, t, rs, s)
           K == Keep(c, t, rs, s)
           j == Judgment(c, t, rs, s, level)
           up == level < n /\ level + 1 \in E
           down == level > 0 /\ level \notin K
<1>1. n \in Nat /\ level \in 0..n
  BY LevelCountNat
<1>2. E \in SUBSET (1..n) /\ K \in SUBSET (1..n) /\ E \subseteq K /\ DownClosed(n, E)
  BY WellOrderedSets
<1>3. /\ up => j = SearchUp(level, n, E)
      /\ ~up /\ down => j = SearchDown(level, K)
      /\ ~up /\ ~down => j = level
  <2> DEFINE reached == level < n /\ Reached(c, s, level + 1, t[s])
  <2>1. /\ reached => j = SearchUp(level, n, E)
        /\ ~reached /\ down => j = SearchDown(level, K)
        /\ ~reached /\ ~down => j = level
    BY JudgmentBranches, Zenon
  <2>2. level < n => level + 1 \in 1..n
    BY <1>1
  <2>3. up <=> reached
    <3>1. E = {k \in 1..n : Reached(c, s, k, t[s])}
      BY PlainSets
    <3> HIDE DEF E
    <3> QED BY <2>2, <3>1, Zenon
  <2> QED BY <2>1, <2>3, Zenon
<1> HIDE DEF n, E, K, j
<1>4. ASSUME up PROVE Highest(n, level, j, E, K)
  BY <1>1, <1>2, <1>3, <1>4, UpIsHighest
<1>5. ASSUME ~up, down PROVE Highest(n, level, j, E, K)
  BY <1>1, <1>2, <1>3, <1>5, DownIsHighest
<1>6. ASSUME ~up, ~down PROVE Highest(n, level, j, E, K)
  BY <1>1, <1>2, <1>3, <1>6, StayIsHighest
<1>7. Highest(n, level, j, E, K)
  BY <1>4, <1>5, <1>6
<1> QED BY <1>7 DEF n, E, K, j

(* The levels a sensor holds are the ones it has not set back.             *)
LEMMA KeepIsNotSetBack ==
  ASSUME NEW c \in Clusters, NEW t \in Reports(c), NEW rs, NEW s \in Heard(c, t),
         NoExtraCondition(c), NEW k \in 1..LevelCount(c)
  PROVE  k \in Keep(c, t, rs, s) <=> ~SetBack(c, s, k, t[s])
<1>1. t[s] \in Int /\ c.sensors[s][k].thresholdClr \in Int
  BY SensorTypes
<1>2. CASE c.desc
  <2>1. k \in Keep(c, t, rs, s) <=> t[s] <= c.sensors[s][k].thresholdClr
    BY <1>2, PlainSets
  <2>2. SetBack(c, s, k, t[s]) <=> t[s] > c.sensors[s][k].thresholdClr
    BY <1>2 DEF SetBack
  <2> QED BY <1>1, <2>1, <2>2
<1>3. CASE ~c.desc
  <2>1. k \in Keep(c, t, rs, s) <=> t[s] >= c.sensors[s][k].thresholdClr
    BY <1>3, PlainSets
  <2>2. SetBack(c, s, k, t[s]) <=> t[s] < c.sensors[s][k].thresholdClr
    BY <1>3 DEF SetBack
  <2> QED BY <1>1, <2>1, <2>2
<1> QED BY <1>2, <1>3

(* A greatest element of a bounded set is its Max.                         *)
LEMMA MaxIs ==
  ASSUME NEW n \in Nat, NEW S \in SUBSET (0..n), NEW u \in S, \A y \in S : y <= u
  PROVE  Max(S) = u
<1> DEFINE m == Max(S)
<1>1. m \in S /\ u <= m
  BY MaxBounded
<1> HIDE DEF m
<1>2. m \in Int /\ u \in Int /\ m <= u
  BY <1>1
<1>3. m = u
  BY <1>1, <1>2
<1> QED BY <1>3 DEF m

(* The greatest of the sensors' levels is the cluster's hysteresis level.  *)
LEMMA DecisionIsHysteresis ==
  ASSUME NEW c \in Clusters, NEW t \in Reports(c), NEW rs,
         WellOrdered(c), NoExtraCondition(c), Heard(c, t) # {},
         NEW level \in 0..LevelCount(c)
  PROVE  UpdateThermalLevel(c, t, rs, TRUE, level) = HysteresisLevel(c, t, level)
<1> DEFINE n == LevelCount(c)
           u == UpdateThermalLevel(c, t, rs, TRUE, level)
           Wants(s, k) == \/ Reached(c, s, k, t[s])
                          \/ k <= level /\ ~SetBack(c, s, k, t[s])
           H == {0} \cup {k \in 1..n : \E s \in Heard(c, t) : Wants(s, k)}
           J(s) == Judgment(c, t, rs, s, level)
<1>1. n \in Nat /\ level \in 0..n
  BY LevelCountNat
<1>2. /\ u \in 0..n
      /\ \E s \in Heard(c, t) : u = J(s)
      /\ \A s \in Heard(c, t) : J(s) <= u
  BY <1>1, UpdateIsMax
<1>3. ASSUME NEW s \in Heard(c, t)
      PROVE  /\ J(s) \in 0..n
             /\ J(s) = 0 \/ Wants(s, J(s))
             /\ \A k \in 1..n : Wants(s, k) => k <= J(s)
  <2> DEFINE E == Enter(c, t, rs, s)
             K == Keep(c, t, rs, s)
             j == J(s)
  <2>1. Highest(n, level, j, E, K)
    BY JudgmentHighest
  <2>2. \A k \in 1..n : k \in K <=> ~SetBack(c, s, k, t[s])
    BY KeepIsNotSetBack
  <2>3. E = {k \in 1..n : Reached(c, s, k, t[s])}
    BY PlainSets
  <2>4. K \subseteq 1..n
    BY WellOrderedSets
  <2> HIDE DEF n, E, K, J
  <2>5. j = 0 \/ Wants(s, j)
    BY <2>1, <2>2, <2>3, <2>4 DEF Highest
  <2>6. \A k \in 1..n : Wants(s, k) => k <= j
    BY <2>1, <2>2, <2>3 DEF Highest
  <2>7. j \in 0..n
    BY <2>1 DEF Highest
  <2> QED BY <2>5, <2>6, <2>7
<1> HIDE DEF n, u, Wants, J
<1>4. H \in SUBSET (0..n)
  BY <1>1
<1>5. u \in H
  <2>1. PICK s \in Heard(c, t) : u = J(s)
    BY <1>2
  <2>2. CASE u = 0
    BY <2>2
  <2>3. CASE u # 0
    <3>1. u \in 1..n
      BY <1>1, <1>2, <2>3
    <3>2. Wants(s, u)
      BY <1>3, <2>1, <2>3
    <3> QED BY <3>1, <3>2
  <2> QED BY <2>2, <2>3
<1>6. ASSUME NEW y \in H PROVE y <= u
  <2>1. CASE y = 0
    BY <1>1, <1>2, <2>1
  <2>2. CASE y # 0
    <3>1. y \in 1..n
      BY <2>2
    <3>2. PICK s \in Heard(c, t) : Wants(s, y)
      BY <2>2
    <3>3. y <= J(s) /\ J(s) \in 0..n /\ J(s) <= u
      BY <1>2, <1>3, <3>1, <3>2
    <3> QED BY <1>1, <1>2, <3>1, <3>3
  <2> QED BY <2>1, <2>2
<1> HIDE DEF H
<1>7. Max(H) = u
  BY <1>1, <1>4, <1>5, <1>6, MaxIs
<1>8. HysteresisLevel(c, t, level) = Max(H)
  BY Zenon DEF HysteresisLevel, H, Wants, n
<1> QED BY <1>7, <1>8 DEF u

(***************************************************************************)
(* For every configuration whose levels are in order and carry no extra    *)
(* condition, however many sensors and levels it has, the search loops of  *)
(* AscJudgment and DescJudgment decide exactly the hysteresis level.       *)
(***************************************************************************)
THEOREM HysteresisDecided == Spec => []DecidesHysteresisLevel
<1>1. TypeOK => DecidesHysteresisLevel
  <2> SUFFICES ASSUME TypeOK, WellOrdered(cluster), NoExtraCondition(cluster), stateOk,
                      NEW t \in Reports(cluster), Heard(cluster, t) # {}
               PROVE  Decide(t) = HysteresisLevel(cluster, t, latestLevel)
    BY DEF DecidesHysteresisLevel
  <2>1. stateOk = TRUE
    BY DEF TypeOK
  <2>2. Decide(t) = UpdateThermalLevel(cluster, t, rates, TRUE, latestLevel)
    BY <2>1, Zenon DEF Decide
  <2>3. cluster \in Clusters /\ latestLevel \in 0..LevelCount(cluster)
    BY DEF TypeOK
  <2> QED BY <2>2, <2>3, DecisionIsHysteresis
<1> QED BY <1>1, TypeCorrect, PTL

-----------------------------------------------------------------------------
(* A worse report. *)

(* More levels to enter never make an upward loop stop earlier. *)
LEMMA SearchUpMonotone ==
  ASSUME NEW n \in Nat, NEW level \in 0..n, NEW Ok, NEW More, Ok \subseteq More
  PROVE  SearchUp(level, n, Ok) <= SearchUp(level, n, More)
<1> DEFINE r == SearchUp(level, n, Ok)
           q == SearchUp(level, n, More)
<1>1. r \in level..n /\ \A k \in (level + 1)..r : k \in Ok
  BY SearchUpRange
<1>2. q \in level..n /\ (q = n \/ q + 1 \notin More)
  BY SearchUpRange
<1> HIDE DEF r, q
<1>3. CASE ~(r <= q)
  <2>1. q + 1 \in (level + 1)..r /\ q # n
    BY <1>1, <1>2, <1>3
  <2> QED BY <1>1, <1>2, <2>1
<1> QED BY <1>3 DEF r, q

(* More levels to keep never make a downward loop go on longer. *)
LEMMA SearchDownMonotone ==
  ASSUME NEW level \in Nat, NEW Ok, NEW More, Ok \subseteq More
  PROVE  SearchDown(level, Ok) <= SearchDown(level, More)
<1> DEFINE r == SearchDown(level, Ok)
           q == SearchDown(level, More)
<1>1. r \in 0..level /\ (r = 0 \/ r \in Ok)
  BY SearchDownRange
<1>2. q \in 0..level /\ \A k \in (q + 1)..level : k \notin More
  BY SearchDownRange
<1> HIDE DEF r, q
<1>3. CASE ~(r <= q)
  <2>1. r \in (q + 1)..level /\ r # 0
    BY <1>1, <1>2, <1>3
  <2> QED BY <1>1, <1>2, <2>1
<1> QED BY <1>3 DEF r, q

(* The extra condition looks at the report only through the auxiliary      *)
(* sensors and the temperature differences.                                *)
LEMMA RatesOnly ==
  ASSUME NEW c, NEW t, NEW u, NEW rs, NEW s, NEW k, NEW critical,
         ~c.auxFlag, ~c.tempDiffFlag
  PROVE  CheckExtraCondition(c, t, rs, s, k, critical) =
           CheckExtraCondition(c, u, rs, s, k, critical)
BY Zenon DEF CheckExtraCondition

(* A sensor that reads worse reaches and keeps every level it did.         *)
LEMMA WorseReachesMore ==
  ASSUME NEW c \in Clusters, NEW t \in Reports(c), NEW u \in Reports(c), NEW rs,
         ~c.auxFlag, ~c.tempDiffFlag, Worse(c, t, u), NEW s \in Heard(c, t)
  PROVE  /\ s \in Heard(c, u)
         /\ \A k \in 1..LevelCount(c) : Reached(c, s, k, t[s]) => Reached(c, s, k, u[s])
         /\ Enter(c, t, rs, s) \subseteq Enter(c, u, rs, s)
         /\ Keep(c, t, rs, s) \subseteq Keep(c, u, rs, s)
<1> DEFINE n == LevelCount(c)
           thr(k) == c.sensors[s][k].threshold
           clr(k) == c.sensors[s][k].thresholdClr
           X(k, critical) == CheckExtraCondition(c, t, rs, s, k, critical)
<1>1. s \in Heard(c, u) /\ s \in DOMAIN t
  BY DEF Worse, Heard
<1>2. /\ t[s] \in Int /\ u[s] \in Int
      /\ \A k \in 1..n : thr(k) \in Int /\ clr(k) \in Int
  BY <1>1, SensorTypes
<1>3. \A k, critical : CheckExtraCondition(c, u, rs, s, k, critical) = X(k, critical)
  BY RatesOnly
<1>4. CASE ~c.desc
  <2>1. u[s] >= t[s]
    BY <1>1, <1>4 DEF Worse
  <2>2. /\ Enter(c, t, rs, s) = {k \in 1..n : t[s] >= thr(k) /\ X(k, TRUE)}
        /\ Keep(c, t, rs, s) = {k \in 1..n : t[s] >= clr(k) /\ X(k, FALSE)}
    BY <1>4, Zenon DEF Enter, Keep, AscEnter, AscKeep
  <2>3. /\ Enter(c, u, rs, s) = {k \in 1..n : u[s] >= thr(k) /\ X(k, TRUE)}
        /\ Keep(c, u, rs, s) = {k \in 1..n : u[s] >= clr(k) /\ X(k, FALSE)}
    BY <1>3, <1>4 DEF Enter, Keep, AscEnter, AscKeep
  <2>4. \A k : /\ Reached(c, s, k, t[s]) <=> t[s] >= thr(k)
               /\ Reached(c, s, k, u[s]) <=> u[s] >= thr(k)
    BY <1>4 DEF Reached
  <2>5. \A k \in 1..n : /\ t[s] >= thr(k) => u[s] >= thr(k)
                        /\ t[s] >= clr(k) => u[s] >= clr(k)
    <3> HIDE DEF n, thr, clr
    <3> QED BY <1>2, <2>1
  <2> HIDE DEF n, thr, clr, X
  <2>6. \A k \in 1..n : Reached(c, s, k, t[s]) => Reached(c, s, k, u[s])
    BY <2>4, <2>5
  <2>7. Enter(c, t, rs, s) \subseteq Enter(c, u, rs, s)
    BY <2>2, <2>3, <2>5
  <2>8. Keep(c, t, rs, s) \subseteq Keep(c, u, rs, s)
    BY <2>2, <2>3, <2>5
  <2> QED BY <1>1, <2>6, <2>7, <2>8 DEF n
<1>5. CASE c.desc
  <2>1. u[s] <= t[s]
    BY <1>1, <1>5 DEF Worse
  <2>2. /\ Enter(c, t, rs, s) = {k \in 1..n : t[s] <= thr(k) /\ X(k, TRUE)}
        /\ Keep(c, t, rs, s) = {k \in 1..n : t[s] <= clr(k) /\ X(k, FALSE)}
    BY <1>5, Zenon DEF Enter, Keep, DescEnter, DescKeep
  <2>3. /\ Enter(c, u, rs, s) = {k \in 1..n : u[s] <= thr(k) /\ X(k, TRUE)}
        /\ Keep(c, u, rs, s) = {k \in 1..n : u[s] <= clr(k) /\ X(k, FALSE)}
    BY <1>3, <1>5 DEF Enter, Keep, DescEnter, DescKeep
  <2>4. \A k : /\ Reached(c, s, k, t[s]) <=> t[s] <= thr(k)
               /\ Reached(c, s, k, u[s]) <=> u[s] <= thr(k)
    BY <1>5 DEF Reached
  <2>5. \A k \in 1..n : /\ t[s] <= thr(k) => u[s] <= thr(k)
                        /\ t[s] <= clr(k) => u[s] <= clr(k)
    <3> HIDE DEF n, thr, clr
    <3> QED BY <1>2, <2>1
  <2> HIDE DEF n, thr, clr, X
  <2>6. \A k \in 1..n : Reached(c, s, k, t[s]) => Reached(c, s, k, u[s])
    BY <2>4, <2>5
  <2>7. Enter(c, t, rs, s) \subseteq Enter(c, u, rs, s)
    BY <2>2, <2>3, <2>5
  <2>8. Keep(c, t, rs, s) \subseteq Keep(c, u, rs, s)
    BY <2>2, <2>3, <2>5
  <2> QED BY <1>1, <2>6, <2>7, <2>8 DEF n
<1> QED BY <1>4, <1>5

(* So its judgment is no lower, whichever branches the two take.           *)
LEMMA WorseJudgment ==
  ASSUME NEW c \in Clusters, NEW t \in Reports(c), NEW u \in Reports(c), NEW rs,
         ~c.auxFlag, ~c.tempDiffFlag, Worse(c, t, u), NEW s \in Heard(c, t),
         NEW level \in 0..LevelCount(c)
  PROVE  Judgment(c, t, rs, s, level) <= Judgment(c, u, rs, s, level)
<1> DEFINE n == LevelCount(c)
           E(r) == Enter(c, r, rs, s)
           K(r) == Keep(c, r, rs, s)
           j(r) == Judgment(c, r, rs, s, level)
           up(r) == level < n /\ Reached(c, s, level + 1, r[s])
           down(r) == level > 0 /\ level \notin K(r)
<1>1. n \in Nat /\ level \in 0..n /\ s \in Heard(c, u)
  BY LevelCountNat, WorseReachesMore
<1>2. /\ up(t) => j(t) = SearchUp(level, n, E(t))
      /\ ~up(t) /\ down(t) => j(t) = SearchDown(level, K(t))
      /\ ~up(t) /\ ~down(t) => j(t) = level
  BY JudgmentBranches, Zenon
<1>3. /\ up(u) => j(u) = SearchUp(level, n, E(u))
      /\ ~up(u) /\ down(u) => j(u) = SearchDown(level, K(u))
      /\ ~up(u) /\ ~down(u) => j(u) = level
  BY <1>1, JudgmentBranches, Zenon
<1>4. /\ level < n => level + 1 \in 1..n
      /\ E(t) \subseteq E(u) /\ K(t) \subseteq K(u)
  BY <1>1, WorseReachesMore
<1>5. (up(t) => up(u)) /\ (down(u) => down(t))
  <2>1. \A k \in 1..n : Reached(c, s, k, t[s]) => Reached(c, s, k, u[s])
    BY WorseReachesMore
  <2> HIDE DEF K
  <2> QED BY <1>4, <2>1, Zenon
<1> HIDE DEF n, E, K, j, up, down
<1>6. /\ SearchUp(level, n, E(t)) <= SearchUp(level, n, E(u))
      /\ SearchUp(level, n, E(t)) \in level..n /\ SearchUp(level, n, E(u)) \in level..n
  BY <1>1, <1>4, SearchUpMonotone, SearchUpRange
<1>7. /\ SearchDown(level, K(t)) <= SearchDown(level, K(u))
      /\ SearchDown(level, K(t)) \in 0..level /\ SearchDown(level, K(u)) \in 0..level
  BY <1>1, <1>4, SearchDownMonotone, SearchDownRange
<1>8. j(t) <= j(u)
  BY <1>1, <1>2, <1>3, <1>5, <1>6, <1>7
<1> QED BY <1>8 DEF j

(***************************************************************************)
(* For every configuration without auxiliary sensors and differences, with *)
(* or without rise rates, a report that is worse at every sensor never     *)
(* gets the lower level, wherever the cluster starts from.                 *)
(***************************************************************************)
THEOREM WorseNeverLower == Spec => []WorseReportNotLower
<1>1. TypeOK => WorseReportNotLower
  <2> SUFFICES ASSUME TypeOK, ~cluster.auxFlag, ~cluster.tempDiffFlag,
                      NEW u \in Reports(cluster), Worse(cluster, typeTempMap, u)
               PROVE  Decide(u) >= Decide(typeTempMap)
    BY DEF WorseReportNotLower
  <2> DEFINE c == cluster
             t == typeTempMap
             n == LevelCount(c)
             J(r, s) == Judgment(c, r, rates, s, latestLevel)
  <2>1. c \in Clusters /\ t \in Reports(c) /\ n \in Nat /\ latestLevel \in 0..n
    BY LevelCountNat DEF TypeOK
  <2>2. Heard(c, t) = Heard(c, u)
    BY DEF Worse, Heard
  <2>3. \A s \in Heard(c, t) : J(t, s) <= J(u, s)
    BY <2>1, WorseJudgment
  <2>4. /\ Decide(t) \in 0..n
        /\ ~stateOk => Decide(t) = 0
        /\ stateOk /\ Heard(c, t) = {} => Decide(t) = latestLevel
        /\ stateOk /\ Heard(c, t) # {} => \E s \in Heard(c, t) : Decide(t) = J(t, s)
    BY <2>1, UpdateIsMax DEF Decide
  <2>5. /\ Decide(u) \in 0..n
        /\ ~stateOk => Decide(u) = 0
        /\ stateOk /\ Heard(c, u) = {} => Decide(u) = latestLevel
        /\ stateOk /\ Heard(c, u) # {} => \A s \in Heard(c, u) : J(u, s) <= Decide(u)
    BY <2>1, UpdateIsMax DEF Decide
  <2>6. \A s \in Heard(c, t) : J(u, s) \in 0..n
    BY <2>1, JudgmentMoves DEF Moves
  <2> HIDE DEF c, t, n, J
  <2>7. Decide(u) >= Decide(t)
    BY <2>1, <2>2, <2>3, <2>4, <2>5, <2>6
  <2> QED BY <2>7 DEF t
<1> QED BY <1>1, TypeCorrect, PTL

-----------------------------------------------------------------------------
(* A decision settles. *)

(* In a well-ordered configuration a level that may be entered is kept,    *)
(* whatever its extra condition: a critical trend is not an ideal one.     *)
LEMMA EnteredIsKept ==
  ASSUME NEW c \in Clusters, NEW t \in Reports(c), NEW rs, NEW s \in Heard(c, t), WellOrdered(c)
  PROVE  /\ Enter(c, t, rs, s) \subseteq 1..LevelCount(c)
         /\ Enter(c, t, rs, s) \subseteq Keep(c, t, rs, s)
<1> DEFINE n == LevelCount(c)
           thr(k) == c.sensors[s][k].threshold
           clr(k) == c.sensors[s][k].thresholdClr
           X(k, critical) == CheckExtraCondition(c, t, rs, s, k, critical)
<1>1. t[s] \in Int /\ \A k \in 1..n : thr(k) \in Int /\ clr(k) \in Int
  BY SensorTypes
<1>2. \A k : X(k, TRUE) => X(k, FALSE)
  <2>1. \A k : IsTempRateTrigger(c, rs, s, k, TRUE) => IsTempRateTrigger(c, rs, s, k, FALSE)
    BY Zenon DEF IsTempRateTrigger
  <2> QED BY <2>1, Zenon DEF CheckExtraCondition
<1>3. CASE ~c.desc
  <2>1. /\ Enter(c, t, rs, s) = {k \in 1..n : t[s] >= thr(k) /\ X(k, TRUE)}
        /\ Keep(c, t, rs, s) = {k \in 1..n : t[s] >= clr(k) /\ X(k, FALSE)}
    BY <1>3, Zenon DEF Enter, Keep, AscEnter, AscKeep
  <2>2. \A k \in 1..n : clr(k) <= thr(k)
    BY <1>3, Zenon DEF WellOrdered, Heard
  <2>3. \A k \in 1..n : t[s] >= thr(k) => t[s] >= clr(k)
    <3> HIDE DEF n, thr, clr
    <3> QED BY <1>1, <2>2
  <2> HIDE DEF n, thr, clr, X
  <2>4. Enter(c, t, rs, s) \subseteq Keep(c, t, rs, s)
    BY <1>2, <2>1, <2>3
  <2> QED BY <2>1, <2>4 DEF n
<1>4. CASE c.desc
  <2>1. /\ Enter(c, t, rs, s) = {k \in 1..n : t[s] <= thr(k) /\ X(k, TRUE)}
        /\ Keep(c, t, rs, s) = {k \in 1..n : t[s] <= clr(k) /\ X(k, FALSE)}
    BY <1>4, Zenon DEF Enter, Keep, DescEnter, DescKeep
  <2>2. \A k \in 1..n : clr(k) >= thr(k)
    BY <1>4, Zenon DEF WellOrdered, Heard
  <2>3. \A k \in 1..n : t[s] <= thr(k) => t[s] <= clr(k)
    <3> HIDE DEF n, thr, clr
    <3> QED BY <1>1, <2>2
  <2> HIDE DEF n, thr, clr, X
  <2>4. Enter(c, t, rs, s) \subseteq Keep(c, t, rs, s)
    BY <1>2, <2>1, <2>3
  <2> QED BY <2>1, <2>4 DEF n
<1> QED BY <1>3, <1>4

(* What one sensor may enter another one may enter that has reached more,  *)
(* if their extra conditions are the same or they are the same sensor.     *)
LEMMA EnteredTogether ==
  ASSUME NEW c \in Clusters, NEW t \in Reports(c), NEW rs, WellOrdered(c),
         NEW s \in Heard(c, t), NEW r \in Heard(c, t), c.rateFlag => r = s,
         NEW k \in Enter(c, t, rs, r), NEW m \in Enter(c, t, rs, s), k <= m
  PROVE  k \in Enter(c, t, rs, s)
<1>1. CASE r = s
  BY <1>1
<1>2. CASE ~c.rateFlag
  <2> DEFINE n == LevelCount(c)
             thr(i) == c.sensors[s][i].threshold
             X(q, i) == CheckExtraCondition(c, t, rs, q, i, TRUE)
  <2>1. k \in 1..n /\ m \in 1..n /\ n \in Nat
    BY EnteredIsKept, LevelCountNat
  <2>2. X(r, k) /\ (X(r, k) => X(s, k))
    BY <1>2, EnterMeansReached, Zenon DEF CheckExtraCondition
  <2>3. t[s] \in Int /\ \A i \in 1..n : thr(i) \in Int
    BY SensorTypes
  <2>4. CASE ~c.desc
    <3>1. Enter(c, t, rs, s) = {i \in 1..n : t[s] >= thr(i) /\ X(s, i)}
      BY <2>4, Zenon DEF Enter, AscEnter
    <3>2. \A i \in 1..n : i > 1 => thr(i) >= thr(i - 1)
      BY <2>4, Zenon DEF WellOrdered, Heard
    <3> HIDE DEF n, thr, X
    <3>3. thr(k) <= thr(m)
      <4> DEFINE f == [i \in 1..n |-> thr(i)]
      <4>1. f \in [1..n -> Int] /\ \A i \in 1..n : i > 1 => f[i - 1] <= f[i]
        BY <2>1, <2>3, <3>2
      <4>2. f[k] <= f[m]
        <5> HIDE DEF f
        <5> QED BY <2>1, <4>1, NeighboursMonotone
      <4> QED BY <2>1, <4>2
    <3>4. t[s] >= thr(m)
      BY <3>1
    <3>5. t[s] >= thr(k)
      BY <2>1, <2>3, <3>3, <3>4
    <3> QED BY <2>1, <2>2, <3>1, <3>5
  <2>5. CASE c.desc
    <3>1. Enter(c, t, rs, s) = {i \in 1..n : t[s] <= thr(i) /\ X(s, i)}
      BY <2>5, Zenon DEF Enter, DescEnter
    <3>2. \A i \in 1..n : i > 1 => thr(i) <= thr(i - 1)
      BY <2>5, Zenon DEF WellOrdered, Heard
    <3> HIDE DEF n, thr, X
    <3>3. thr(m) <= thr(k)
      <4> DEFINE f == [i \in 1..n |-> 0 - thr(i)]
      <4>1. f \in [1..n -> Int]
        BY <2>3
      <4>2. \A i \in 1..n : i > 1 => f[i - 1] <= f[i]
        BY <2>1, <2>3, <3>2
      <4>3. f[k] <= f[m]
        <5> HIDE DEF f
        <5> QED BY <2>1, <4>1, <4>2, NeighboursMonotone
      <4> QED BY <2>1, <2>3, <4>3
    <3>4. t[s] <= thr(m)
      BY <3>1
    <3>5. t[s] <= thr(k)
      BY <2>1, <2>3, <3>3, <3>4
    <3> QED BY <2>1, <2>2, <3>1, <3>5
  <2> QED BY <2>4, <2>5
<1> QED BY <1>1, <1>2

(* A sensor that may not enter the next level asks for no higher one; if   *)
(* it keeps the level it is at, it asks for that level.                    *)
LEMMA SettledJudgment ==
  ASSUME NEW c \in Clusters, NEW t \in Reports(c), NEW rs, NEW s \in Heard(c, t),
         NEW u \in 0..LevelCount(c), u + 1 \notin Enter(c, t, rs, s)
  PROVE  /\ Judgment(c, t, rs, s, u) <= u
         /\ u = 0 \/ u \in Keep(c, t, rs, s) => Judgment(c, t, rs, s, u) = u
<1> DEFINE n == LevelCount(c)
           E == Enter(c, t, rs, s)
           K == Keep(c, t, rs, s)
           j == Judgment(c, t, rs, s, u)
           up == u < n /\ Reached(c, s, u + 1, t[s])
           down == u > 0 /\ u \notin K
<1>1. n \in Nat /\ u \in 0..n /\ u + 1 \notin E
  BY LevelCountNat
<1>2. /\ up => j = SearchUp(u, n, E)
      /\ ~up /\ down => j = SearchDown(u, K)
      /\ ~up /\ ~down => j = u
  BY JudgmentBranches, Zenon
<1> HIDE DEF n, E, K, j, up
<1>3. SearchUp(u, n, E) = u
  <2> DEFINE r == SearchUp(u, n, E)
  <2>1. r \in u..n /\ \A k \in (u + 1)..r : k \in E
    BY <1>1, SearchUpRange
  <2> HIDE DEF r
  <2>2. r = u
    BY <1>1, <2>1
  <2> QED BY <2>2 DEF r
<1>4. SearchDown(u, K) \in 0..u
  BY <1>1, SearchDownRange
<1>5. j <= u /\ (u = 0 \/ u \in K => j = u)
  BY <1>1, <1>2, <1>3, <1>4
<1> QED BY <1>5 DEF j, K

(* A sensor that may enter every level up to m asks for m at least.        *)
LEMMA EntersThrough ==
  ASSUME NEW c \in Clusters, NEW t \in Reports(c), NEW rs, NEW s \in Heard(c, t),
         NEW level \in 0..LevelCount(c), NEW m \in (level + 1)..LevelCount(c),
         \A k \in (level + 1)..m : k \in Enter(c, t, rs, s)
  PROVE  Judgment(c, t, rs, s, level) >= m
<1> DEFINE n == LevelCount(c)
           E == Enter(c, t, rs, s)
           r == SearchUp(level, n, E)
<1>1. n \in Nat /\ level \in 0..n /\ m \in (level + 1)..n
  BY LevelCountNat
<1>2. level < n /\ Reached(c, s, level + 1, t[s])
  <2>1. level + 1 \in (level + 1)..m /\ level < n
    BY <1>1
  <2> QED BY <2>1, EnterMeansReached
<1>3. Judgment(c, t, rs, s, level) = r
  BY <1>2, JudgmentBranches, Zenon
<1>4. r \in level..n /\ (r = n \/ r + 1 \notin E)
  BY <1>1, SearchUpRange
<1> HIDE DEF n, E, r
<1>5. \A k \in (level + 1)..m : k \in E
  BY DEF E
<1>6. r >= m
  <2>1. CASE ~(r >= m)
    <3>1. r + 1 \in (level + 1)..m /\ r # n
      BY <1>1, <1>4, <2>1
    <3> QED BY <1>4, <1>5, <3>1
  <2> QED BY <2>1
<1> QED BY <1>3, <1>6

(* After a decision no reported sensor may enter a further level, and the  *)
(* sensor that carried the decision keeps the level it asked for.          *)
LEMMA DecidedIsSettled ==
  ASSUME NEW c \in Clusters, NEW t \in Reports(c), NEW rs, WellOrdered(c),
         NEW level \in 0..LevelCount(c), NEW q \in Heard(c, t),
         \A s \in Heard(c, t) : /\ Judgment(c, t, rs, s, level) <= Judgment(c, t, rs, q, level)
                                /\ c.rateFlag => q = s,
         Judgment(c, t, rs, q, level) # level
  PROVE  LET u == Judgment(c, t, rs, q, level) IN
         /\ \A s \in Heard(c, t) : u + 1 \notin Enter(c, t, rs, s)
         /\ u = 0 \/ u \in Keep(c, t, rs, q)
<1> DEFINE n == LevelCount(c)
           E(s) == Enter(c, t, rs, s)
           K(s) == Keep(c, t, rs, s)
           J(s) == Judgment(c, t, rs, s, level)
           u == J(q)
<1>1. n \in Nat /\ level \in 0..n
  BY LevelCountNat
<1>2. \A s \in Heard(c, t) : Moves(n, level, J(s), E(s), K(s))
  BY <1>1, JudgmentMoves
<1>3. \A s \in Heard(c, t) : E(s) \subseteq 1..n /\ E(s) \subseteq K(s)
  BY EnteredIsKept
<1>4. \A s \in Heard(c, t) : J(s) \in 0..n /\ J(s) <= u
  BY <1>2 DEF Moves
<1>5. CASE u > level
  <2>1. \A k \in (level + 1)..u : k \in E(q)
    BY <1>2 DEF Moves
  <2>2. ASSUME NEW s \in Heard(c, t), u + 1 \in E(s) PROVE FALSE
    <3>1. u + 1 \in (level + 1)..n
      <4>1. u \in 0..n /\ u + 1 \in 1..n
        BY <1>3, <1>4, <2>2
      <4> HIDE DEF n, u
      <4> QED BY <1>1, <1>5, <4>1
    <3>2. ASSUME NEW k \in (level + 1)..(u + 1) PROVE k \in E(s)
      <4>1. CASE k = u + 1
        BY <2>2, <4>1
      <4>2. CASE k # u + 1
        <5>1. k \in (level + 1)..u /\ k <= u + 1
          <6> HIDE DEF u
          <6> QED BY <1>1, <1>4, <1>5, <4>2 DEF u
        <5>2. k \in E(q)
          BY <2>1, <5>1
        <5> QED BY <2>2, <5>1, <5>2, EnteredTogether
      <4> QED BY <4>1, <4>2
    <3>3. J(s) >= u + 1
      BY <1>1, <3>1, <3>2, EntersThrough
    <3> HIDE DEF n, J
    <3> QED BY <1>4, <3>3 DEF u
  <2>3. u \in K(q)
    <3>1. u \in (level + 1)..u
      <4> HIDE DEF n, J, E, K
      <4> QED BY <1>1, <1>4, <1>5
    <3> QED BY <1>3, <2>1, <3>1
  <2> QED BY <2>2, <2>3
<1>6. CASE u < level
  <2>1. ASSUME NEW s \in Heard(c, t) PROVE u + 1 \notin E(s)
    <3>1. \A k \in (J(s) + 1)..level : k \notin K(s)
      BY <1>2 DEF Moves
    <3>2. u + 1 \in (J(s) + 1)..level
      <4> HIDE DEF n, J
      <4> QED BY <1>1, <1>4, <1>6
    <3> QED BY <1>3, <3>1, <3>2
  <2>2. u = 0 \/ u \in K(q)
    <3> DEFINE up == level < n /\ Reached(c, q, level + 1, t[q])
               down == level > 0 /\ level \notin K(q)
    <3>1. /\ up => u = SearchUp(level, n, E(q))
          /\ ~up /\ down => u = SearchDown(level, K(q))
          /\ ~up /\ ~down => u = level
      BY JudgmentBranches, Zenon
    <3>2. SearchUp(level, n, E(q)) \in level..n
      BY <1>1, SearchUpRange
    <3>3. SearchDown(level, K(q)) = 0 \/ SearchDown(level, K(q)) \in K(q)
      BY <1>1, SearchDownRange
    <3> HIDE DEF n, E, K, J, up, down
    <3> QED BY <1>1, <1>4, <1>6, <3>1, <3>2, <3>3
  <2> QED BY <2>1, <2>2
<1>7. u \in 0..n /\ level \in 0..n /\ u # level
  BY <1>1, <1>4
<1>8. u > level \/ u < level
  <2> HIDE DEF n, J
  <2> QED BY <1>1, <1>7
<1> QED BY <1>5, <1>6, <1>8

(***************************************************************************)
(* For every well-ordered configuration, a decision taken again with the   *)
(* same report, rates and state leaves the level alone: ExecutePolicy      *)
(* after a state change never moves a level by repetition, so the cluster  *)
(* cannot oscillate on one report.                                         *)
(***************************************************************************)
THEOREM DecisionsSettle == Spec => []DecisionSettles
<1>1. TypeOK => DecisionSettles
  <2> DEFINE c == cluster
             t == typeTempMap
             n == LevelCount(c)
             H == Heard(c, t)
             once == Decide(t)
             twice == UpdateThermalLevel(c, t, rates, stateOk, once)
             J(s) == Judgment(c, t, rates, s, latestLevel)
             J2(s) == Judgment(c, t, rates, s, once)
  <2> SUFFICES ASSUME TypeOK, WellOrdered(c),
                      c.rateFlag => H \subseteq {CHOOSE s \in DOMAIN c.sensors : TRUE}
               PROVE  twice = once
    BY DEF DecisionSettles
  <2>1. c \in Clusters /\ t \in Reports(c) /\ n \in Nat /\ latestLevel \in 0..n
    BY LevelCountNat DEF TypeOK
  <2>2. /\ once \in 0..n
        /\ ~stateOk => once = 0
        /\ stateOk /\ H = {} => once = latestLevel
        /\ stateOk /\ H # {} => /\ \E s \in H : once = J(s)
                                /\ \A s \in H : J(s) <= once
    BY <2>1, UpdateIsMax DEF Decide
  <2>3. /\ ~stateOk => twice = 0
        /\ stateOk /\ H = {} => twice = once
        /\ stateOk /\ H # {} => /\ \E s \in H : twice = J2(s)
                                /\ \A s \in H : J2(s) <= twice
        /\ twice \in 0..n
    <3> HIDE DEF once
    <3> QED BY <2>1, <2>2, UpdateIsMax
  <2>4. CASE once = latestLevel
    BY <2>4 DEF Decide
  <2>5. CASE ~stateOk \/ H = {}
    <3> HIDE DEF once, twice, H
    <3> QED BY <2>2, <2>3, <2>5
  <2>6. CASE stateOk /\ H # {} /\ once # latestLevel
    <3>1. PICK q \in H : once = J(q)
      BY <2>2, <2>6
    <3>2. \A s \in H : J(s) <= J(q) /\ (c.rateFlag => q = s)
      <4>1. \A s \in H : J(s) <= once
        BY <2>2, <2>6
      <4> HIDE DEF J, once
      <4> QED BY <3>1, <4>1
    <3>3. /\ \A s \in H : once + 1 \notin Enter(c, t, rates, s)
          /\ once = 0 \/ once \in Keep(c, t, rates, q)
      <4>1. J(q) # latestLevel
        BY <2>6, <3>1
      <4>2. LET u == J(q) IN
            /\ \A s \in H : u + 1 \notin Enter(c, t, rates, s)
            /\ u = 0 \/ u \in Keep(c, t, rates, q)
        <5> HIDE DEF once, twice
        <5> QED BY <2>1, <3>2, <4>1, DecidedIsSettled
      <4> HIDE DEF once, J
      <4> QED BY <3>1, <4>2
    <3>4. (\A s \in H : J2(s) <= once) /\ J2(q) = once
      <4> HIDE DEF once
      <4> QED BY <2>1, <2>2, <3>3, SettledJudgment
    <3> HIDE DEF once, twice, J2, H
    <3> QED BY <2>1, <2>2, <2>3, <2>6, <3>1, <3>4
  <2> QED BY <2>4, <2>5, <2>6
<1> QED BY <1>1, TypeCorrect, PTL
=============================================================================
