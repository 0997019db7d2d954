------------------------ MODULE ThermalPolicy_proofs ------------------------
(***************************************************************************)
(* Proofs about ThermalPolicy, for every configuration of clusters,        *)
(* policies and actions, every report and every content of uninitialised   *)
(* memory.  The first theorems hold whatever levels and values a decision  *)
(* is made of; arbitration and the return of the SoC limits need what a    *)
(* decision collects, which comes after them.                              *)
(***************************************************************************)
EXTENDS ThermalPolicy, FiniteSetTheorems, WellFoundedInduction, TLAPS

-----------------------------------------------------------------------------
(* Action objects.                                                         *)

IsDelay(d) ==
  /\ d = [isCompleted |-> d.isCompleted, value |-> d.value, timer |-> d.timer]
  /\ d.isCompleted \in BOOLEAN /\ d.timer \in {"none", "junk", "armed", "spent"}

IsObject(x) ==
  /\ x = [valueList |-> x.valueList, lastValue |-> x.lastValue, delays |-> x.delays, ids |-> x.ids]
  /\ x.delays = [i \in DOMAIN x.delays |-> x.delays[i]]
  /\ \A i \in DOMAIN x.delays : IsDelay(x.delays[i])

\* While a decision collects, the delays of b keep their timers, and a new
\* delay has none of its own yet.
Grown(x, b) ==
  /\ DOMAIN b.delays \subseteq DOMAIN x.delays
  /\ \A i \in DOMAIN b.delays : /\ x.delays[i].timer = b.delays[i].timer
                                /\ x.delays[i].isCompleted = b.delays[i].isCompleted
  /\ \A i \in DOMAIN x.delays \ DOMAIN b.delays : x.delays[i].timer \in {"none", "junk"}

\* A new value leaves the timer of a delay alone.
LEMMA DelayRecord ==
  ASSUME NEW d, IsDelay(d), NEW v
  PROVE  /\ IsDelay([d EXCEPT !.value = v])
         /\ [d EXCEPT !.value = v].timer = d.timer
         /\ [d EXCEPT !.value = v].isCompleted = d.isCompleted
BY DEF IsDelay

\* Registering a delay keeps the delays there are.
LEMMA AddDelayKeeps ==
  ASSUME NEW x, NEW b, NEW id, NEW uninit \in UninitialisedDelay, IsObject(x), Grown(x, b)
  PROVE  IsObject(AddActionDelayTime(x, id, uninit)) /\ Grown(AddActionDelayTime(x, id, uninit), b)
<1> DEFINE d == [i \in DOMAIN x.delays \cup {id} |->
                   IF i \in DOMAIN x.delays THEN x.delays[i] ELSE uninit]
           y == AddActionDelayTime(x, id, uninit)
<1>1. y = [valueList |-> x.valueList, lastValue |-> x.lastValue, delays |-> d, ids |-> x.ids \cup {id}]
  <2>1. y = [x EXCEPT !.delays = d, !.ids = x.ids \cup {id}]
    BY DEF AddActionDelayTime
  <2> HIDE DEF d, y
  <2> QED BY <2>1 DEF IsObject
<1>2. y.delays = d /\ DOMAIN d = DOMAIN x.delays \cup {id}
  BY <1>1
<1>3. IsDelay(uninit) /\ uninit.timer \in {"none", "junk"}
  BY DEF IsDelay, UninitialisedDelay
<1>4. \A i \in DOMAIN d : IsDelay(d[i])
  BY <1>3 DEF IsObject
<1>5. IsObject(y)
  <2>1. y = [valueList |-> y.valueList, lastValue |-> y.lastValue, delays |-> y.delays, ids |-> y.ids]
    BY <1>1
  <2> QED BY <1>2, <1>4, <2>1, Zenon DEF IsObject
<1>6. Grown(y, b)
  BY <1>2, <1>3 DEF Grown
<1> QED BY <1>5, <1>6

\* So does handing a value to the action, delayed or not.
LEMMA AddValueKeeps ==
  ASSUME NEW x, NEW b, NEW kind, NEW id, NEW value, IsObject(x), Grown(x, b)
  PROVE  IsObject(AddActionValue(kind, x, id, value)) /\ Grown(AddActionValue(kind, x, id, value), b)
<1> DEFINE number == IF value = Malformed THEN 0 ELSE value
           y == AddActionValue(kind, x, id, value)
<1>1. CASE y = x
  BY <1>1
<1>2. CASE y = [x EXCEPT !.valueList = @ \cup {number}]
  <2>1. y = [valueList |-> x.valueList \cup {number}, lastValue |-> x.lastValue,
             delays |-> x.delays, ids |-> x.ids]
    BY <1>2 DEF IsObject
  <2>2. y.delays = x.delays
    BY <2>1
  <2>3. y = [valueList |-> y.valueList, lastValue |-> y.lastValue, delays |-> y.delays, ids |-> y.ids]
    BY <2>1
  <2>4. IsObject(y)
    BY <2>2, <2>3, Zenon DEF IsObject
  <2>5. Grown(y, b)
    BY <2>2, Zenon DEF Grown
  <2> QED BY <2>4, <2>5
<1>3. CASE id \in DOMAIN x.delays /\ y = [x EXCEPT !.delays[id].value = number]
  <2> DEFINE d == [x.delays EXCEPT ![id] = [x.delays[id] EXCEPT !.value = number]]
  <2>1. y = [valueList |-> x.valueList, lastValue |-> x.lastValue, delays |-> d, ids |-> x.ids]
    BY <1>3 DEF IsObject
  <2>2. y.delays = d
    BY <2>1
  <2>3. y = [valueList |-> y.valueList, lastValue |-> y.lastValue, delays |-> y.delays, ids |-> y.ids]
    BY <2>1
  <2>4. /\ d = [i \in DOMAIN d |-> d[i]] /\ DOMAIN d = DOMAIN x.delays
        /\ d[id] = [x.delays[id] EXCEPT !.value = number]
        /\ \A i \in DOMAIN x.delays : i # id => d[i] = x.delays[i]
    BY <1>3 DEF IsObject
  <2>5. /\ IsDelay(d[id]) /\ d[id].timer = x.delays[id].timer
        /\ d[id].isCompleted = x.delays[id].isCompleted
    BY <1>3, <2>4, DelayRecord DEF IsObject
  <2> HIDE DEF d
  <2>6. IsObject(y)
    BY <2>2, <2>3, <2>4, <2>5, Zenon DEF IsObject
  <2>7. \A i \in DOMAIN x.delays : d[i].timer = x.delays[i].timer /\ d[i].isCompleted = x.delays[i].isCompleted
    BY <2>4, <2>5, Zenon
  <2>8. Grown(y, b)
    BY <2>2, <2>4, <2>7, Zenon DEF Grown
  <2> QED BY <2>6, <2>8
<1> QED BY <1>1, <1>2, <1>3 DEF AddActionValue

\* And so does everything one cluster hands to the action.
LEMMA DecisionKeeps ==
  ASSUME NEW a, NEW x, NEW b, NEW list, NEW uninit \in UninitialisedDelay, IsObject(x), Grown(x, b)
  PROVE  IsObject(ActionDecision(a, x, list, uninit)) /\ Grown(ActionDecision(a, x, list, uninit), b)
BY AddDelayKeeps, AddValueKeeps DEF ActionDecision

-----------------------------------------------------------------------------
(* What a decision collects for an action, cluster by cluster.             *)

NatOrder == {r \in Nat \X Nat : r[1] < r[2]}

(* A property of 0 that each number hands on to the next holds up to N:    *)
(* there is no smallest number without it.                                 *)
LEMMA NoSmallest ==
  ASSUME NEW N \in Nat, NEW S \in SUBSET (0 .. N), 0 \in S,
         \A n \in 0 .. N : n # N /\ n \in S => n + 1 \in S
  PROVE  N \in S
<1> DEFINE bad == (0 .. N) \ S
<1> SUFFICES ASSUME bad # {} PROVE FALSE
  OBVIOUS
<1>1. IsWellFoundedOn(NatOrder, Nat)
  <2>1. NatOrder = OpToRel(<, Nat)
    BY DEF NatOrder, OpToRel
  <2> QED BY <2>1, NatLessThanWellFounded
<1>2. PICK x \in bad : \A y \in bad : ~(<<y, x>> \in NatOrder)
  <2>1. bad \subseteq Nat
    OBVIOUS
  <2> QED BY <1>1, <2>1, WFMin, Zenon
<1>3. x \in Nat /\ x # 0 /\ x - 1 \in 0 .. N
  OBVIOUS
<1>4. <<x - 1, x>> \in NatOrder
  BY <1>3 DEF NatOrder
<1>5. x - 1 \in S
  BY <1>2, <1>3, <1>4
<1> QED BY <1>3, <1>5

(* Min of a non-empty set of naturals is its least element.                *)
LEMMA MinIs ==
  ASSUME NEW S \in SUBSET Nat, S # {}
  PROVE  Min(S) \in S /\ \A y \in S : Min(S) <= y
<1>1. IsWellFoundedOn(NatOrder, Nat)
  BY Zenon, NatLessThanWellFounded DEF OpToRel, NatOrder
<1>2. PICK x \in S : \A y \in S : ~(<<y, x>> \in NatOrder)
  BY <1>1, WFMin, Zenon
<1>3. \A y \in S : x <= y
  <2> TAKE y \in S
  <2>1. x \in Nat /\ y \in Nat /\ ~(<<y, x>> \in NatOrder)
    BY <1>2
  <2> QED BY <2>1 DEF NatOrder
<1> QED BY <1>3 DEF Min

(* Max of a non-empty set of naturals with an upper bound is its greatest  *)
(* element.                                                                *)
LEMMA MaxIs ==
  ASSUME NEW n \in Nat, NEW S \in SUBSET (0 .. n), S # {}
  PROVE  Max(S) \in S /\ \A y \in S : y <= Max(S)
<1> DEFINE M == {n - i : i \in S}
<1>1. M \in SUBSET Nat /\ M # {}
  <2>1. M \subseteq Nat
    OBVIOUS
  <2>2. PICK i \in S : TRUE
    OBVIOUS
  <2>3. n - i \in M
    BY <2>2
  <2> QED BY <2>1, <2>3
<1>2. Min(M) \in M /\ \A y \in M : Min(M) <= y
  <2> HIDE DEF M
  <2> QED BY <1>1, MinIs
<1>3. PICK x \in S : Min(M) = n - x
  BY <1>2
<1>4. \A y \in S : y <= x
  <2> TAKE y \in S
  <2>1. n - y \in M
    OBVIOUS
  <2>2. n - x <= n - y
    BY <1>2, <1>3, <2>1
  <2>3. x \in Int /\ y \in Int
    OBVIOUS
  <2> HIDE DEF M
  <2> QED BY <2>2, <2>3
<1> HIDE DEF M
<1> QED BY <1>4 DEF Max

\* The function that collects exists and goes from cluster to cluster.
LEMMA CollectedSteps ==
  ASSUME NEW a, NEW uninit
  PROVE  \E upTo :
           /\ upTo[0] = act[a]
           /\ \A n \in 1 .. Len(ClusterOrder) :
                upTo[n] = ActionDecision(a, upTo[n - 1],
                            LevelActions(ClusterOrder[n], clusterLevelMap'[ClusterOrder[n]]), uninit)
           /\ Collected(a, uninit) = upTo[Len(ClusterOrder)]
<1> DEFINE N == Len(ClusterOrder)
           D(y, n) == ActionDecision(a, y,
                        LevelActions(ClusterOrder[n], clusterLevelMap'[ClusterOrder[n]]), uninit)
           Fits(g, m) == g = [n \in 0 .. m |-> IF n = 0 THEN act[a] ELSE D(g[n - 1], n)]
           upTo == CHOOSE g : Fits(g, N)
<1>1. N \in Nat
  BY PolicyAssumption
<1>2. Collected(a, uninit) = upTo[N]
  BY DEF Collected
<1> HIDE DEF N, D
<1>3. \E g : Fits(g, N)
  <2> DEFINE S == {m \in 0 .. N : \E g : Fits(g, m)}
  <2>1. 0 \in S
    <3>1. Fits([n \in 0 .. 0 |-> act[a]], 0)
      OBVIOUS
    <3>2. 0 \in 0 .. N
      BY <1>1
    <3> HIDE DEF Fits
    <3> QED BY <3>1, <3>2, Zenon
  <2>2. ASSUME NEW m \in 0 .. N, m # N, m \in S PROVE m + 1 \in S
    <3>1. PICK g : Fits(g, m)
      BY <2>2
    <3> DEFINE h == [n \in 0 .. m + 1 |-> IF n = m + 1 THEN D(g[m], m + 1) ELSE g[n]]
    <3>2. Fits(h, m + 1)
      <4>1. \A n \in 0 .. m + 1 : h[n] = IF n = 0 THEN act[a] ELSE D(h[n - 1], n)
        BY <1>1, <3>1
      <4> QED BY <4>1
    <3>3. m + 1 \in 0 .. N
      BY <1>1, <2>2
    <3> QED BY <3>2, <3>3
  <2>3. N \in S
    <3> HIDE DEF S
    <3>1. S \subseteq 0 .. N
      BY DEF S
    <3> QED BY <1>1, <2>1, <2>2, <3>1, NoSmallest
  <2> QED BY <2>3
<1>4. Fits(upTo, N)
  BY <1>3, Zenon
<1> HIDE DEF upTo
<1>5. upTo[0] = act[a] /\ \A n \in 0 .. N : n # 0 => upTo[n] = D(upTo[n - 1], n)
  BY <1>1, <1>4
<1>6. \A n \in 1 .. N : upTo[n] = D(upTo[n - 1], n)
  BY <1>1, <1>5
<1> QED BY <1>2, <1>5, <1>6, Zenon DEF N, D

(* The object grows step by step.                                          *)
LEMMA CollectedGrown ==
  ASSUME NEW a, NEW uninit \in UninitialisedDelay, IsObject(act[a])
  PROVE  IsObject(Collected(a, uninit)) /\ Grown(Collected(a, uninit), act[a])
<1> DEFINE N == Len(ClusterOrder)
           list(n) == LevelActions(ClusterOrder[n], clusterLevelMap'[ClusterOrder[n]])
<1>1. N \in Nat
  BY PolicyAssumption
<1>2. PICK upTo : /\ upTo[0] = act[a]
                  /\ \A n \in 1 .. N : upTo[n] = ActionDecision(a, upTo[n - 1], list(n), uninit)
                  /\ Collected(a, uninit) = upTo[N]
  BY CollectedSteps
<1> HIDE DEF N, list
<1> DEFINE T == {n \in 0 .. N : IsObject(upTo[n]) /\ Grown(upTo[n], act[a])}
<1>3. 0 \in T
  BY <1>1, <1>2 DEF Grown
<1>4. ASSUME NEW n \in 0 .. N, n # N, n \in T PROVE n + 1 \in T
  <2>1. n + 1 \in 0 .. N /\ n + 1 \in 1 .. N /\ (n + 1) - 1 = n
    BY <1>1, <1>4
  <2>2. upTo[n + 1] = ActionDecision(a, upTo[n], list(n + 1), uninit)
    BY <1>2, <2>1
  <2>3. IsObject(upTo[n + 1]) /\ Grown(upTo[n + 1], act[a])
    BY <1>4, <2>2, DecisionKeeps
  <2> QED BY <2>1, <2>3
<1>5. N \in T
  <2>1. T \subseteq 0 .. N
    OBVIOUS
  <2> HIDE DEF T
  <2> QED BY <1>1, <1>3, <1>4, <2>1, NoSmallest
<1> QED BY <1>2, <1>5 DEF N

-----------------------------------------------------------------------------
(* Execution.                                                              *)

\* Executing an action forgets what was collected, may drop delays but adds
\* none, and arms a timer only for a delay that has none and is not complete.
LEMMA ExecuteResult ==
  ASSUME NEW kind, NEW strict, NEW x, NEW timerFails, IsObject(x)
  PROVE  LET y == Execute(kind, strict, x, timerFails) IN
         /\ IsObject(y) /\ y.valueList = {} /\ y.ids = {}
         /\ DOMAIN y.delays \subseteq DOMAIN x.delays
         /\ \A i \in DOMAIN y.delays :
              /\ y.delays[i].isCompleted = x.delays[i].isCompleted
              /\ \/ y.delays[i].timer = x.delays[i].timer
                 \/ ~ x.delays[i].isCompleted /\ y.delays[i].timer = "armed"
<1> DEFINE kept == [i \in DOMAIN x.delays \cap x.ids |-> x.delays[i]]
           d == StartTimers(kept, timerFails)
           z == [x EXCEPT !.delays = d, !.ids = {}]
           y == Execute(kind, strict, x, timerFails)
<1>1. /\ d = [i \in DOMAIN d |-> d[i]] /\ DOMAIN d = DOMAIN x.delays \cap x.ids
      /\ \A i \in DOMAIN d : d[i] = IF x.delays[i].isCompleted \/ x.delays[i].timer # "none" \/ timerFails
                                    THEN x.delays[i] ELSE [x.delays[i] EXCEPT !.timer = "armed"]
  BY DEF StartTimers
<1>2. \A i \in DOMAIN d :
        /\ IsDelay(d[i]) /\ d[i].isCompleted = x.delays[i].isCompleted
        /\ \/ d[i].timer = x.delays[i].timer
           \/ ~ x.delays[i].isCompleted /\ d[i].timer = "armed"
  <2> TAKE i \in DOMAIN d
  <2>1. IsDelay(x.delays[i])
    BY <1>1 DEF IsObject
  <2> DEFINE e == [x.delays[i] EXCEPT !.timer = "armed"]
  <2>2. IsDelay(e) /\ e.isCompleted = x.delays[i].isCompleted /\ e.timer = "armed"
    BY <2>1 DEF IsDelay
  <2>3. d[i] = x.delays[i] \/ (~ x.delays[i].isCompleted /\ d[i] = e)
    BY <1>1, Zenon
  <2> HIDE DEF d, e
  <2> QED BY <2>1, <2>2, <2>3, Zenon
<1> HIDE DEF d
<1>3. z = [valueList |-> x.valueList, lastValue |-> x.lastValue, delays |-> d, ids |-> {}]
  <2>1. z = [x EXCEPT !.delays = d, !.ids = {}]
    OBVIOUS
  <2> HIDE DEF z
  <2> QED BY <2>1 DEF IsObject
<1>4. PICK v : y = [z EXCEPT !.lastValue = v, !.valueList = {}]
  BY Zenon DEF Execute, ExecuteInner, d
<1> HIDE DEF z, y
<1>5. y = [valueList |-> {}, lastValue |-> v, delays |-> d, ids |-> {}]
  BY <1>3, <1>4
<1>6. y.valueList = {} /\ y.ids = {} /\ y.delays = d
  BY <1>5
<1>7. y = [valueList |-> y.valueList, lastValue |-> y.lastValue, delays |-> y.delays, ids |-> y.ids]
  BY <1>5
<1>8. IsObject(y)
  BY <1>1, <1>2, <1>6, <1>7, Zenon DEF IsObject
<1>9. DOMAIN y.delays \subseteq DOMAIN x.delays
  BY <1>1, <1>6
<1> QED BY <1>2, <1>6, <1>8, <1>9 DEF y

\* A completed delay is a delay, also once its timer is spent.
LEMMA DelayCompleted ==
  ASSUME NEW c, IsDelay(c), NEW t \in BOOLEAN
  PROVE  LET done == [c EXCEPT !.isCompleted = t]
             spent == [done EXCEPT !.timer = "spent"]
         IN  /\ IsDelay(done) /\ IsDelay(spent) /\ spent.timer = "spent" /\ spent.isCompleted = t
             /\ done.value = c.value /\ spent.value = c.value
<1> DEFINE done == [c EXCEPT !.isCompleted = t]
           spent == [done EXCEPT !.timer = "spent"]
<1>1. done = [isCompleted |-> t, value |-> c.value, timer |-> c.timer]
  BY DEF IsDelay
<1>2. IsDelay(done) /\ done.value = c.value
  BY <1>1 DEF IsDelay
<1> HIDE DEF done
<1>3. spent = [isCompleted |-> t, value |-> c.value, timer |-> "spent"]
  BY <1>1
<1>4. IsDelay(spent) /\ spent.timer = "spent" /\ spent.isCompleted = t /\ spent.value = c.value
  BY <1>3 DEF IsDelay
<1> QED BY <1>2, <1>4 DEF done

\* The timer callback spends its own timer and leaves the other delays alone.
LEMMA TimerResult ==
  ASSUME NEW kind, NEW strict, NEW x, NEW id \in DOMAIN x.delays, IsObject(x)
  PROVE  LET y == TimerCallback(kind, strict, x, id) IN
         /\ IsObject(y) /\ y.valueList = {} /\ y.ids = x.ids
         /\ DOMAIN y.delays = DOMAIN x.delays
         /\ y.delays[id].timer = "spent" /\ y.delays[id].isCompleted
         /\ \A i \in DOMAIN x.delays : i # id => y.delays[i] = x.delays[i]
<1> DEFINE done == [x.delays[id] EXCEPT !.isCompleted = TRUE]
           d == [x.delays EXCEPT ![id] = done]
           z == [x EXCEPT !.delays[id].isCompleted = TRUE]
           spent == [done EXCEPT !.timer = "spent"]
           e == [d EXCEPT ![id] = spent]
           w == ExecuteInner(kind, strict, z)
           y == TimerCallback(kind, strict, x, id)
<1>1. /\ IsDelay(done) /\ IsDelay(spent)
      /\ spent.timer = "spent" /\ spent.isCompleted = TRUE
  BY DelayCompleted, Zenon DEF IsObject
<1>2. z = [valueList |-> x.valueList, lastValue |-> x.lastValue, delays |-> d, ids |-> x.ids]
  <2>1. z = [x EXCEPT !.delays[id].isCompleted = TRUE]
    OBVIOUS
  <2> HIDE DEF z
  <2> QED BY <2>1 DEF IsObject
<1>3. /\ DOMAIN d = DOMAIN x.delays /\ d[id] = done /\ d = [i \in DOMAIN d |-> d[i]]
      /\ \A i \in DOMAIN x.delays : i # id => d[i] = x.delays[i]
  BY DEF IsObject
<1>4. PICK v : w = [z EXCEPT !.lastValue = v, !.valueList = {}]
  BY Zenon DEF ExecuteInner
<1> HIDE DEF z, d, w, done
<1>5. w = [valueList |-> {}, lastValue |-> v, delays |-> d, ids |-> x.ids]
  BY <1>2, <1>4
<1>6. y = [w EXCEPT !.delays[id].timer = "spent"]
  BY DEF TimerCallback, w, z
<1>7. y = [valueList |-> {}, lastValue |-> v, delays |-> e, ids |-> x.ids]
  BY <1>3, <1>5, <1>6
<1>8. /\ DOMAIN e = DOMAIN x.delays /\ e[id] = spent /\ e = [i \in DOMAIN e |-> e[i]]
      /\ \A i \in DOMAIN x.delays : i # id => e[i] = x.delays[i]
  BY <1>3
<1> HIDE DEF e, y, spent
<1>9. y.valueList = {} /\ y.ids = x.ids /\ y.delays = e
  BY <1>7
<1>10. y = [valueList |-> y.valueList, lastValue |-> y.lastValue, delays |-> y.delays, ids |-> y.ids]
  BY <1>7
<1>11. \A i \in DOMAIN e : IsDelay(e[i])
  BY <1>1, <1>8, Zenon DEF IsObject
<1>12. IsObject(y)
  BY <1>8, <1>9, <1>10, <1>11, Zenon DEF IsObject
<1> QED BY <1>1, <1>8, <1>9, <1>12, Zenon DEF y

\* ResetActionValue touches the last value only.
LEMMA ResetResult ==
  ASSUME NEW kind, NEW x, IsObject(x)
  PROVE  LET y == ResetActionValue(kind, x) IN
         /\ IsObject(y) /\ y.lastValue = kind.reset
         /\ y.valueList = x.valueList /\ y.ids = x.ids /\ y.delays = x.delays
<1> DEFINE y == ResetActionValue(kind, x)
<1>1. y = [valueList |-> x.valueList, lastValue |-> kind.reset, delays |-> x.delays, ids |-> x.ids]
  BY DEF ResetActionValue, IsObject
<1> HIDE DEF y
<1>2. /\ y.lastValue = kind.reset
      /\ y.valueList = x.valueList /\ y.ids = x.ids /\ y.delays = x.delays
  BY <1>1
<1>3. IsObject(y)
  BY <1>1, <1>2, Zenon DEF IsObject
<1> QED BY <1>2, <1>3 DEF y

-----------------------------------------------------------------------------
(* Timers.  Between decisions no object holds a value or an id, and the    *)
(* timers that may fire are the armed ones of delays still held; a         *)
(* callback that was not overtaken knows what has become of its timer.     *)

Objects(x) ==
  /\ x = [a \in ActionNames |-> x[a]]
  /\ \A a \in ActionNames : IsObject(x[a]) /\ x[a].valueList = {} /\ x[a].ids = {}

IsCallback(c) ==
  c = Callback(c.id, c.at, c.erased) /\ c.at \in {"begun", "executed"} /\ c.erased \in BOOLEAN

OwnTimer(a, c) ==
  ~ c.erased => act[a].delays[c.id].timer = IF c.at = "begun" THEN "armed" ELSE "spent"

PolicyInv ==
  /\ Objects(act)
  /\ timers = [a \in ActionNames |-> timers[a]]
  /\ callbacks = [a \in ActionNames |-> callbacks[a]]
  /\ \A a \in ActionNames : \A c \in callbacks[a] : IsCallback(c) /\ OwnTimer(a, c)
  /\ NoOrphanTimer

\* A delay that stays keeps its timer, and only a delay that is not complete
\* has its timer armed.
DelaysCarryOn(newAct) ==
  \A a \in ActionNames : \A i \in DOMAIN newAct[a].delays :
    IF i \in DOMAIN act[a].delays
    THEN /\ newAct[a].delays[i].isCompleted = act[a].delays[i].isCompleted
         /\ \/ newAct[a].delays[i].timer = act[a].delays[i].timer
            \/ ~ act[a].delays[i].isCompleted /\ newAct[a].delays[i].timer = "armed"
    ELSE newAct[a].delays[i].timer = "armed" => ~ newAct[a].delays[i].isCompleted

(* What a decision makes of the objects, whatever it collected and whether *)
(* or not the time service fails.                                          *)
LEMMA DecisionObjects ==
  ASSUME Objects(act), NEW collected, collected \in Collections,
         NEW newAct, newAct \in Executions(collected)
  PROVE  Objects(newAct) /\ DelaysCarryOn(newAct)
<1>1. PICK uninit \in [DelayedActions -> Leftovers] :
        collected = [a \in ActionNames |->
                       Collected(a, IF a \in DelayedActions THEN uninit[a] ELSE Unread)]
  BY Zenon DEF Collections
<1>2. PICK timerFails \in BOOLEAN :
        newAct = [a \in ActionNames |->
                    Execute(Actions[a].kind, Actions[a].strict, collected[a], timerFails)]
  BY Zenon DEF Executions
<1>3. Unread \in UninitialisedDelay
  <2>1. [isCompleted |-> FALSE, value |-> 0, timer |-> "none"] \in UninitialisedDelay
    BY Zenon DEF UninitialisedDelay
  <2> QED BY <2>1, Zenon DEF Unread
<1>4. ASSUME NEW a \in ActionNames
      PROVE  IsObject(collected[a]) /\ Grown(collected[a], act[a])
  <2> DEFINE u == IF a \in DelayedActions THEN uninit[a] ELSE Unread
  <2>1. u \in UninitialisedDelay
    BY <1>3, PolicyAssumption
  <2>2. collected[a] = Collected(a, u)
    BY <1>1
  <2> HIDE DEF u
  <2> QED BY <2>1, <2>2, CollectedGrown DEF Objects
<1>5. ASSUME NEW a \in ActionNames
      PROVE  /\ IsObject(newAct[a]) /\ newAct[a].valueList = {} /\ newAct[a].ids = {}
             /\ DOMAIN newAct[a].delays \subseteq DOMAIN collected[a].delays
             /\ \A i \in DOMAIN newAct[a].delays :
                  /\ newAct[a].delays[i].isCompleted = collected[a].delays[i].isCompleted
                  /\ \/ newAct[a].delays[i].timer = collected[a].delays[i].timer
                     \/ ~ collected[a].delays[i].isCompleted /\ newAct[a].delays[i].timer = "armed"
  <2>1. newAct[a] = Execute(Actions[a].kind, Actions[a].strict, collected[a], timerFails)
    BY <1>2
  <2> QED BY <1>4, <2>1, ExecuteResult
<1>6. Objects(newAct)
  BY <1>2, <1>5 DEF Objects
<1>7. ASSUME NEW a \in ActionNames, NEW i \in DOMAIN newAct[a].delays
      PROVE  IF i \in DOMAIN act[a].delays
             THEN /\ newAct[a].delays[i].isCompleted = act[a].delays[i].isCompleted
                  /\ \/ newAct[a].delays[i].timer = act[a].delays[i].timer
                     \/ ~ act[a].delays[i].isCompleted /\ newAct[a].delays[i].timer = "armed"
             ELSE newAct[a].delays[i].timer = "armed" => ~ newAct[a].delays[i].isCompleted
  <2>1. i \in DOMAIN collected[a].delays
    BY <1>5
  <2>2. CASE i \in DOMAIN act[a].delays
    <3>1. /\ collected[a].delays[i].timer = act[a].delays[i].timer
          /\ collected[a].delays[i].isCompleted = act[a].delays[i].isCompleted
      BY <1>4, <2>2 DEF Grown
    <3> QED BY <1>5, <2>2, <3>1, Zenon
  <2>3. CASE i \notin DOMAIN act[a].delays
    <3>1. collected[a].delays[i].timer # "armed"
      BY <1>4, <2>1, <2>3 DEF Grown
    <3> QED BY <1>5, <2>3, <3>1, Zenon
  <2> QED BY <2>2, <2>3
<1> QED BY <1>6, <1>7 DEF DelaysCarryOn

\* How a decision with outcome newAct moves the rest of the state.
Outcome(newAct, battery) ==
  /\ act' = newAct
  /\ pending' = ExecuteLimits(LimitList(newAct, battery), battery)
  /\ applied' = [a \in ActionNames |->
                   IF a \in Request(newAct) THEN Given(a, newAct)
                   ELSE IF a \in AcceptedLimits(LimitList(newAct, battery), battery)
                        THEN Last(LimitList(newAct, battery)[a])
                   ELSE applied[a]]
  /\ SetDecisionValue(newAct)
  /\ timers' = [a \in ActionNames |->
                  (timers[a] \ StoppedTimers(newAct, a)) \cup StartedTimers(newAct, a)]
  /\ callbacks' = [a \in ActionNames |-> Overtaken(newAct, a)]
  /\ restarted' = restarted \ Changed(newAct)

\* Whatever a decision collects and whichever services fail, it ends in one of
\* these outcomes, and the delays carry on.
LEMMA DecisionOutcome ==
  ASSUME Objects(act), PolicyDecision
  PROVE  \E newAct, battery : /\ Objects(newAct) /\ DelaysCarryOn(newAct)
                              /\ Outcome(newAct, battery)
<1>1. PICK collected : /\ collected \in Collections
                       /\ \E newAct \in Executions(collected) :
                          \E battery \in {"absent", "fails", "ok"} : Outcome(newAct, battery)
  BY Zenon DEF PolicyDecision, Outcome
<1>2. PICK newAct : /\ newAct \in Executions(collected)
                    /\ \E battery \in {"absent", "fails", "ok"} : Outcome(newAct, battery)
  BY <1>1
<1>3. Objects(newAct) /\ DelaysCarryOn(newAct)
  BY <1>1, <1>2, DecisionObjects
<1> QED BY <1>2, <1>3

(* Stopping the timers of dropped delays and starting the new ones.        *)
LEMMA DecisionTimers ==
  ASSUME PolicyInv, NEW newAct, NEW battery, Objects(newAct), DelaysCarryOn(newAct),
         Outcome(newAct, battery)
  PROVE  PolicyInv'
<1>1. act' = newAct /\ timers' = [a \in ActionNames |->
        (timers[a] \ StoppedTimers(newAct, a)) \cup StartedTimers(newAct, a)]
  BY DEF Outcome
<1>2. ASSUME NEW a \in ActionNames, NEW i \in timers'[a]
      PROVE  /\ i \in DOMAIN newAct[a].delays
             /\ newAct[a].delays[i].timer = "armed" /\ ~ newAct[a].delays[i].isCompleted
  <2>1. CASE i \in timers[a] /\ i \notin StoppedTimers(newAct, a)
    <3>1. i \in DOMAIN act[a].delays /\ act[a].delays[i].timer = "armed" /\ ~ act[a].delays[i].isCompleted
      BY <2>1 DEF PolicyInv, NoOrphanTimer
    <3>2. i \in DOMAIN newAct[a].delays
      BY <2>1, <3>1, Zenon DEF StoppedTimers
    <3> QED BY <3>1, <3>2, Zenon DEF DelaysCarryOn
  <2>2. CASE i \in StartedTimers(newAct, a)
    <3>1. /\ i \in DOMAIN newAct[a].delays /\ newAct[a].delays[i].timer = "armed"
          /\ i \in DOMAIN act[a].delays => act[a].delays[i].timer # "armed"
      BY <2>2, Zenon DEF StartedTimers
    <3> QED BY <3>1, Zenon DEF DelaysCarryOn
  <2> QED BY <1>1, <2>1, <2>2
<1>3. callbacks' = [a \in ActionNames |-> Overtaken(newAct, a)]
  BY DEF Outcome
<1>4. ASSUME NEW a \in ActionNames, NEW c \in callbacks'[a]
      PROVE  /\ IsCallback(c)
             /\ ~ c.erased => /\ c \in callbacks[a] /\ c.id \in DOMAIN newAct[a].delays
  <2>1. PICK b \in callbacks[a] :
          c = Callback(b.id, b.at, b.erased \/ b.id \notin DOMAIN newAct[a].delays)
    BY <1>3, <1>4 DEF Overtaken
  <2>2. IsCallback(b)
    BY DEF PolicyInv
  <2>3. /\ c.id = b.id /\ c.at = b.at
        /\ c.erased = (b.erased \/ b.id \notin DOMAIN newAct[a].delays)
    BY <2>1 DEF Callback
  <2>4. ~ c.erased => c = b
    BY <2>1, <2>2, <2>3 DEF IsCallback
  <2>5. IsCallback(c)
    BY <2>1, <2>2, <2>3 DEF IsCallback
  <2> QED BY <2>3, <2>4, <2>5
<1>5. ASSUME NEW a \in ActionNames, NEW c \in callbacks'[a], ~ c.erased
      PROVE  /\ c.id \in DOMAIN newAct[a].delays /\ c.id \notin timers'[a]
             /\ newAct[a].delays[c.id].isCompleted = (c.at = "executed")
             /\ newAct[a].delays[c.id].timer = IF c.at = "begun" THEN "armed" ELSE "spent"
  <2>1. /\ c \in callbacks[a] /\ c.id \in DOMAIN newAct[a].delays
        /\ c.at \in {"begun", "executed"}
    BY <1>4, <1>5 DEF IsCallback
  <2>2. /\ c.id \in DOMAIN act[a].delays /\ c.id \notin timers[a]
        /\ act[a].delays[c.id].isCompleted = (c.at = "executed")
        /\ act[a].delays[c.id].timer = IF c.at = "begun" THEN "armed" ELSE "spent"
    BY <1>5, <2>1 DEF PolicyInv, NoOrphanTimer, OwnTimer
  <2>3. /\ newAct[a].delays[c.id].isCompleted = act[a].delays[c.id].isCompleted
        /\ \/ newAct[a].delays[c.id].timer = act[a].delays[c.id].timer
           \/ ~ act[a].delays[c.id].isCompleted /\ newAct[a].delays[c.id].timer = "armed"
    BY <2>1, <2>2, Zenon DEF DelaysCarryOn
  <2>4. newAct[a].delays[c.id].timer = IF c.at = "begun" THEN "armed" ELSE "spent"
    BY <2>1, <2>2, <2>3
  <2>5. c.id \notin StartedTimers(newAct, a)
    BY <2>1, <2>2, <2>4 DEF StartedTimers
  <2> QED BY <1>1, <2>1, <2>2, <2>3, <2>4, <2>5
<1>6. NoOrphanTimer'
  BY <1>1, <1>2, <1>5 DEF NoOrphanTimer
<1>7. \A a \in ActionNames : \A c \in callbacks'[a] : IsCallback(c) /\ OwnTimer(a, c)'
  BY <1>1, <1>4, <1>5 DEF OwnTimer
<1>8. /\ Objects(act)' /\ (timers = [a \in ActionNames |-> timers[a]])'
      /\ (callbacks = [a \in ActionNames |-> callbacks[a]])'
  BY <1>1, <1>3 DEF Objects
<1> QED BY <1>6, <1>7, <1>8 DEF PolicyInv

(* A timer that fires can fire no more, and its callback is the only one   *)
(* of its delay that can still run.                                        *)
LEMMA FiringTimers ==
  ASSUME PolicyInv, NEW a \in ActionNames, NEW i \in timers[a], TimerFires(a, i)
  PROVE  PolicyInv'
<1> DEFINE new == Callback(i, "begun", FALSE)
<1>1. /\ i \in DOMAIN act[a].delays
      /\ act[a].delays[i].timer = "armed" /\ ~ act[a].delays[i].isCompleted
  BY DEF PolicyInv, NoOrphanTimer
<1>2. /\ timers' = [timers EXCEPT ![a] = timers[a] \ {i}] /\ act' = act
      /\ callbacks' = [callbacks EXCEPT ![a] = callbacks[a] \cup {new}]
  BY <1>1 DEF TimerFires
<1>3. /\ timers' = [b \in ActionNames |-> timers'[b]] /\ timers'[a] = timers[a] \ {i}
      /\ callbacks' = [b \in ActionNames |-> callbacks'[b]]
      /\ callbacks'[a] = callbacks[a] \cup {new}
      /\ \A b \in ActionNames : b # a => timers'[b] = timers[b] /\ callbacks'[b] = callbacks[b]
  BY <1>2 DEF PolicyInv
<1>4. /\ IsCallback(new) /\ new.id = i /\ new.at = "begun" /\ ~ new.erased
  BY DEF IsCallback, Callback
<1> HIDE DEF new
<1>5. NoOrphanTimer'
  <2>1. \A b \in ActionNames : timers'[b] \subseteq timers[b]
    BY <1>3
  <2>2. ASSUME NEW b \in ActionNames, NEW c \in callbacks'[b], ~ c.erased
        PROVE  /\ c.id \in DOMAIN act[b].delays /\ c.id \notin timers'[b]
               /\ act[b].delays[c.id].isCompleted = (c.at = "executed")
    <3>1. CASE c \in callbacks[b]
      BY <2>1, <2>2, <3>1 DEF PolicyInv, NoOrphanTimer
    <3>2. CASE c \notin callbacks[b]
      <4>1. b = a /\ c = new
        BY <1>3, <2>2, <3>2
      <4>2. act[b].delays[c.id].isCompleted = FALSE /\ (c.at = "executed") = FALSE
        <5>1. IsDelay(act[a].delays[i])
          BY <1>1 DEF PolicyInv, Objects, IsObject
        <5> QED BY <1>1, <1>4, <4>1, <5>1 DEF IsDelay
      <4> QED BY <1>1, <1>3, <1>4, <4>1, <4>2
    <3> QED BY <3>1, <3>2
  <2> QED BY <1>2, <2>1, <2>2 DEF PolicyInv, NoOrphanTimer
<1>6. \A b \in ActionNames : \A c \in callbacks'[b] : IsCallback(c) /\ OwnTimer(b, c)'
  <2> TAKE b \in ActionNames
  <2> TAKE c \in callbacks'[b]
  <2>1. CASE c \in callbacks[b]
    BY <1>2, <2>1 DEF PolicyInv, OwnTimer
  <2>2. CASE b = a /\ c = new
    BY <1>1, <1>2, <1>4, <2>2 DEF OwnTimer
  <2> QED BY <1>3, <2>1, <2>2
<1> QED BY <1>2, <1>3, <1>5, <1>6 DEF PolicyInv

\* What a callback makes of its action; the others are left alone.
LEMMA CallbackObjects ==
  ASSUME PolicyInv, NEW a \in ActionNames, NEW i \in DOMAIN act[a].delays, CallbackExecutes(a, i)
  PROVE  /\ Objects(act)'
         /\ act'[a].delays[i].isCompleted /\ act'[a].delays[i].timer = "spent"
         /\ DOMAIN act'[a].delays = DOMAIN act[a].delays
         /\ \A j \in DOMAIN act[a].delays : j # i => act'[a].delays[j] = act[a].delays[j]
         /\ \A b \in ActionNames : b # a => act'[b] = act[b]
<1> DEFINE fired == TimerCallback(Actions[a].kind, Actions[a].strict, act[a], i)
<1>1. act' = [act EXCEPT ![a] = fired]
  BY DEF CallbackExecutes
<1>2. /\ IsObject(fired) /\ fired.valueList = {} /\ fired.ids = {}
      /\ DOMAIN fired.delays = DOMAIN act[a].delays
      /\ fired.delays[i].isCompleted /\ fired.delays[i].timer = "spent"
      /\ \A j \in DOMAIN act[a].delays : j # i => fired.delays[j] = act[a].delays[j]
  <2>1. IsObject(act[a]) /\ act[a].ids = {}
    BY DEF PolicyInv, Objects
  <2> QED BY <2>1, TimerResult
<1> HIDE DEF fired
<1>3. /\ act' = [b \in ActionNames |-> act'[b]] /\ act'[a] = fired
      /\ \A b \in ActionNames : b # a => act'[b] = act[b]
  BY <1>1 DEF PolicyInv, Objects
<1>4. Objects(act)'
  BY <1>2, <1>3, Zenon DEF PolicyInv, Objects
<1> QED BY <1>2, <1>3, <1>4

(* A callback that executes completes its delay and no other.              *)
LEMMA CallbackTimers ==
  ASSUME PolicyInv, NEW a \in ActionNames, NEW i \in DOMAIN act[a].delays, CallbackExecutes(a, i)
  PROVE  PolicyInv'
<1> DEFINE old == Callback(i, "begun", FALSE)
           new == Callback(i, "executed", FALSE)
<1>1. /\ old \in callbacks[a] /\ timers' = timers
      /\ callbacks' = [callbacks EXCEPT ![a] = (callbacks[a] \ {old}) \cup {new}]
  BY DEF CallbackExecutes
<1>2. /\ Objects(act)'
      /\ act'[a].delays[i].isCompleted /\ act'[a].delays[i].timer = "spent"
      /\ DOMAIN act'[a].delays = DOMAIN act[a].delays
      /\ \A j \in DOMAIN act[a].delays : j # i => act'[a].delays[j] = act[a].delays[j]
      /\ \A b \in ActionNames : b # a => act'[b] = act[b]
  BY CallbackObjects
<1>3. /\ old.id = i /\ old.at = "begun" /\ ~ old.erased
      /\ new.id = i /\ new.at = "executed" /\ ~ new.erased /\ IsCallback(new)
  BY DEF IsCallback, Callback
<1>4. ASSUME NEW c, IsCallback(c), ~ c.erased, c.id = i PROVE c \in {old, new}
  BY <1>4 DEF IsCallback, Callback
<1>5. /\ callbacks' = [b \in ActionNames |-> callbacks'[b]]
      /\ callbacks'[a] = (callbacks[a] \ {old}) \cup {new}
      /\ \A b \in ActionNames : b # a => callbacks'[b] = callbacks[b]
  BY <1>1 DEF PolicyInv
<1>6. i \notin timers[a]
  BY <1>1, <1>3 DEF PolicyInv, NoOrphanTimer
<1> HIDE DEF old, new
<1>7. ASSUME NEW b \in ActionNames, NEW c \in callbacks'[b]
      PROVE  /\ IsCallback(c)
             /\ ~ c.erased =>
                  /\ c.id \in DOMAIN act'[b].delays /\ c.id \notin timers'[b]
                  /\ act'[b].delays[c.id].isCompleted = (c.at = "executed")
                  /\ act'[b].delays[c.id].timer = IF c.at = "begun" THEN "armed" ELSE "spent"
  <2>1. CASE b = a /\ c = new
    <3>1. IsDelay(act'[a].delays[i])
      BY <1>2 DEF Objects, IsObject
    <3>2. act'[a].delays[i].isCompleted = (new.at = "executed")
      BY <1>2, <1>3, <3>1 DEF IsDelay
    <3> QED BY <1>1, <1>2, <1>3, <1>6, <2>1, <3>2
  <2>2. CASE ~ (b = a /\ c = new)
    <3>1. c \in callbacks[b] /\ (b = a => c # old)
      BY <1>5, <1>7, <2>2
    <3>2. /\ IsCallback(c)
          /\ ~ c.erased =>
               /\ c.id \in DOMAIN act[b].delays /\ c.id \notin timers[b]
               /\ act[b].delays[c.id].isCompleted = (c.at = "executed")
               /\ act[b].delays[c.id].timer = IF c.at = "begun" THEN "armed" ELSE "spent"
      BY <3>1 DEF PolicyInv, NoOrphanTimer, OwnTimer
    <3>3. b = a /\ ~ c.erased => c.id # i
      BY <1>4, <2>2, <3>1, <3>2
    <3>4. ~ c.erased => /\ c.id \in DOMAIN act'[b].delays
                        /\ act'[b].delays[c.id] = act[b].delays[c.id]
      BY <1>2, <3>2, <3>3, Zenon
    <3> QED BY <1>1, <3>2, <3>4
  <2> QED BY <2>1, <2>2
<1>8. NoOrphanTimer'
  <2>1. ASSUME NEW b \in ActionNames, NEW j \in timers'[b]
        PROVE  /\ j \in DOMAIN act'[b].delays
               /\ act'[b].delays[j].timer = "armed" /\ ~ act'[b].delays[j].isCompleted
    <3>1. /\ j \in DOMAIN act[b].delays
          /\ act[b].delays[j].timer = "armed" /\ ~ act[b].delays[j].isCompleted
      BY <1>1, <2>1 DEF PolicyInv, NoOrphanTimer
    <3>2. j \in DOMAIN act'[b].delays /\ act'[b].delays[j] = act[b].delays[j]
      BY <1>1, <1>2, <1>6, <2>1, <3>1, Zenon
    <3> QED BY <3>1, <3>2, Zenon
  <2> QED BY <1>7, <2>1 DEF NoOrphanTimer
<1>9. timers' = [b \in ActionNames |-> timers'[b]]
  BY <1>1 DEF PolicyInv
<1> QED BY <1>2, <1>5, <1>7, <1>8, <1>9 DEF PolicyInv, OwnTimer

(* Nothing but the callback that is over changes.                          *)
LEMMA EndingTimers ==
  ASSUME PolicyInv, NEW a \in ActionNames, NEW i \in DOMAIN act[a].delays, CallbackEnds(a, i)
  PROVE  PolicyInv'
<1>1. /\ UNCHANGED <<act, timers>>
      /\ callbacks' = [callbacks EXCEPT ![a] = callbacks[a] \ {Callback(i, "executed", FALSE)}]
  BY DEF CallbackEnds
<1>2. /\ callbacks' = [b \in ActionNames |-> callbacks'[b]]
      /\ \A b \in ActionNames : callbacks'[b] \subseteq callbacks[b]
  BY <1>1 DEF PolicyInv
<1>3. NoOrphanTimer'
  BY <1>1, <1>2 DEF PolicyInv, NoOrphanTimer
<1> QED BY <1>1, <1>2, <1>3 DEF PolicyInv, Objects, OwnTimer

(* The reset of an action leaves its delays alone.                         *)
LEMMA ResetTimers ==
  ASSUME PolicyInv, OnAddSystemAbility
  PROVE  PolicyInv'
<1>1. /\ timers' = timers /\ callbacks' = callbacks
      /\ act' = [a \in ActionNames |-> IF Actions[a].socSet
                                       THEN ResetActionValue(Actions[a].kind, act[a]) ELSE act[a]]
  BY DEF OnAddSystemAbility, timerVars
<1>2. ASSUME NEW a \in ActionNames
      PROVE  /\ IsObject(act'[a]) /\ act'[a].valueList = {} /\ act'[a].ids = {}
             /\ act'[a].delays = act[a].delays
  <2>1. IsObject(act[a]) /\ act[a].valueList = {} /\ act[a].ids = {}
    BY DEF PolicyInv, Objects
  <2> QED BY <1>1, <2>1, ResetResult
<1>3. Objects(act)'
  BY <1>1, <1>2 DEF Objects
<1>4. NoOrphanTimer'
  BY <1>1, <1>2 DEF PolicyInv, NoOrphanTimer
<1>5. \A a \in ActionNames : \A c \in callbacks[a] : IsCallback(c) /\ OwnTimer(a, c)'
  BY <1>2, Zenon DEF PolicyInv, OwnTimer
<1> QED BY <1>1, <1>3, <1>4, <1>5 DEF PolicyInv

\* The objects the action manager creates.
LEMMA FirstObjects ==
  ASSUME Init
  PROVE  PolicyInv
<1>1. ASSUME NEW a \in ActionNames
      PROVE  IsObject(act[a]) /\ act[a].valueList = {} /\ act[a].ids = {}
  <2>1. act[a] = [valueList |-> {}, lastValue |-> Actions[a].kind.reset, delays |-> <<>>, ids |-> {}]
    BY DEF Init, NewAction
  <2>2. act[a].delays = <<>> /\ act[a].valueList = {} /\ act[a].ids = {}
    BY <2>1
  <2>3. DOMAIN <<>> = {} /\ <<>> = [i \in {} |-> <<>>[i]]
    OBVIOUS
  <2>4. act[a] = [valueList |-> act[a].valueList, lastValue |-> act[a].lastValue,
                  delays |-> act[a].delays, ids |-> act[a].ids]
    BY <2>1
  <2> QED BY <2>2, <2>3, <2>4 DEF IsObject
<1>2. act = [a \in ActionNames |-> act[a]] /\ timers = [a \in ActionNames |-> {}]
      /\ callbacks = [a \in ActionNames |-> {}]
  BY DEF Init
<1> QED BY <1>1, <1>2 DEF PolicyInv, Objects, NoOrphanTimer

\* The invariant is kept by decisions, timers and resets.
LEMMA PolicyInvariant == Spec => []PolicyInv
<1>1. PolicyInv /\ [Next]_vars => PolicyInv'
  <2> SUFFICES ASSUME PolicyInv, [Next]_vars PROVE PolicyInv'
    OBVIOUS
  <2>1. CASE PolicyDecision
    BY <2>1, DecisionOutcome, DecisionTimers DEF PolicyInv
  <2>2. CASE UNCHANGED <<act, timers, callbacks>>
    BY <2>2 DEF PolicyInv, Objects, NoOrphanTimer, OwnTimer
  <2> QED BY <2>1, <2>2, FiringTimers, CallbackTimers, EndingTimers, ResetTimers
          DEF Next, OnSensorInfoReported, ExecutePolicy, StateChanged, UsesErasedDelay,
              SocDies, SocStarts, vars, timerVars
<1> QED BY <1>1, FirstObjects, PTL DEF Spec

(* A timer that may still fire belongs to a delay the action still holds   *)
(* and has not completed, and a callback under way is the only one of its  *)
(* delay unless a decision erased that delay while it ran: whatever        *)
(* decisions dropped, whatever memory the new delays were made of and      *)
(* whether or not the time service answers.                                *)
THEOREM NoTimerOrphaned == Spec => []NoOrphanTimer
<1>1. PolicyInv => NoOrphanTimer
  BY DEF PolicyInv
<1> QED BY <1>1, PolicyInvariant, PTL

-----------------------------------------------------------------------------
(* The observer.                                                           *)

\* The observer is handed every action that changed, so it stays current.
LEMMA ToldStep ==
  ASSUME ObserverCurrent, NEW newAct, act' = newAct, SetDecisionValue(newAct),
         restarted' = restarted \ Changed(newAct)
  PROVE  ObserverCurrent'
<1> SUFFICES ASSUME NEW a \in ActionNames
             PROVE  \/ told'[a] = newAct[a].lastValue
                    \/ /\ newAct[a].lastValue = Actions[a].kind.reset
                       /\ a \in restarted' \/ told'[a] = Nothing
  BY DEF ObserverCurrent
<1>1. told'[a] = IF a \in Changed(newAct) THEN newAct[a].lastValue ELSE told[a]
  BY DEF SetDecisionValue
<1>2. a \notin Changed(newAct) => newAct[a].lastValue = act[a].lastValue
  BY DEF Changed
<1>3. a \notin Changed(newAct) /\ a \in restarted => a \in restarted'
  OBVIOUS
<1> QED BY <1>1, <1>2, <1>3, Zenon DEF ObserverCurrent

(* Subscribers of action decisions are never behind the actions, except    *)
(* for an action that a restart of the SoC service has reset and no        *)
(* execution has changed since, and for one whose value was never another  *)
(* than the initial one, which nobody is ever told.                        *)
THEOREM ObserverIsCurrent == Spec => []ObserverCurrent
<1> DEFINE Inv == PolicyInv /\ ObserverCurrent
<1>1. Init => ObserverCurrent
  <2> SUFFICES ASSUME Init, NEW a \in ActionNames
               PROVE  act[a].lastValue = Actions[a].kind.reset /\ told[a] = Nothing
    BY DEF ObserverCurrent
  <2>1. act[a] = NewAction(Actions[a].kind) /\ told[a] = Nothing
    BY DEF Init
  <2> QED BY <2>1 DEF NewAction
<1>2. Inv /\ [Next]_vars => ObserverCurrent'
  <2> SUFFICES ASSUME PolicyInv, ObserverCurrent, [Next]_vars PROVE ObserverCurrent'
    OBVIOUS
  <2>1. CASE PolicyDecision
    BY <2>1, DecisionOutcome, ToldStep DEF PolicyInv, Outcome
  <2>2. ASSUME NEW a \in ActionNames, NEW i \in DOMAIN act[a].delays, CallbackExecutes(a, i)
        PROVE  ObserverCurrent'
    <3>1. SetDecisionValue(act') /\ restarted' = restarted \ Changed(act')
      BY <2>2 DEF CallbackExecutes
    <3> QED BY <3>1, ToldStep
  <2>3. CASE OnAddSystemAbility
    <3>1. told' = told /\ restarted' = restarted \cup Changed(act')
      BY <2>3 DEF OnAddSystemAbility
    <3>2. ASSUME NEW a \in ActionNames
          PROVE  act'[a] = act[a] \/ act'[a].lastValue = Actions[a].kind.reset
      <4>1. act'[a] \in {act[a], ResetActionValue(Actions[a].kind, act[a])}
        BY <2>3 DEF OnAddSystemAbility
      <4> QED BY <4>1, ResetResult DEF PolicyInv, Objects
    <3>3. ASSUME NEW a \in ActionNames, a \notin restarted'
          PROVE  act'[a].lastValue = act[a].lastValue /\ a \notin restarted
      BY <3>1, <3>3 DEF Changed
    <3> QED BY <3>1, <3>2, <3>3, Zenon DEF ObserverCurrent
  <2>4. CASE UNCHANGED <<act, told, restarted>>
    BY <2>4 DEF ObserverCurrent
  <2> QED BY <2>1, <2>2, <2>3, <2>4
          DEF Next, OnSensorInfoReported, ExecutePolicy, StateChanged, TimerFires, CallbackEnds,
              UsesErasedDelay, SocDies, SocStarts, vars, outputs
<1> QED BY <1>1, <1>2, PolicyInvariant, PTL DEF Spec

-----------------------------------------------------------------------------
(* The SoC performance service.                                            *)

(* Every action of the SoC service is in SocSet, also when its name is     *)
(* configured twice.                                                       *)
LEMMA SocActionsReset == \A a \in With({"soc"}) : Actions[a].socSet
<1> SUFFICES ASSUME NEW a \in With({"soc"}) PROVE Actions[a].socSet
  OBVIOUS
<1> DEFINE items == ActionItems
           S == {i \in Created(items) : items[i].name = a}
           item == items[Min(S)]
<1>1. a \in {items[i].name : i \in Created(items)} /\ Actions[a].kind.sink = "soc"
  BY DEF With, ActionNames, Actions, ActionMap
<1>2. S # {} /\ S \in SUBSET Nat
  BY <1>1, PolicyAssumption DEF Created
<1> HIDE DEF S
<1>3. Min(S) \in S
  BY <1>2, MinIs
<1>4. Min(S) \in Created(items) /\ items[Min(S)].name = a
  BY <1>3 DEF S
<1>5. Actions[a] = [kind |-> Create(item), strict |-> item.strict, socSet |-> a \in SocSet(items)]
  BY <1>1, Zenon DEF Actions, ActionMap, S
<1>6. Actions[a].kind = Create(item) /\ Actions[a].socSet = (a \in SocSet(items))
  <2> DEFINE k == Create(item)
             t == item.strict
             m == a \in SocSet(items)
  <2>1. Actions[a] = [kind |-> k, strict |-> t, socSet |-> m]
    BY <1>5
  <2> HIDE DEF k, t, m
  <2>2. Actions[a].kind = k /\ Actions[a].socSet = m
    BY <2>1
  <2> QED BY <2>2 DEF k, m
<1>7. a \in SocSet(items)
  BY <1>1, <1>4, <1>6, Zenon DEF SocSet
<1> QED BY <1>6, <1>7, Zenon

\* The sinks tell the actions apart.
LEMMA SinksApart ==
  /\ \A a \in With({"soc"}) : a \in ActionNames /\ a \notin Charging
  /\ \A a \in With({"current"}) : /\ a \in ActionNames /\ a \in Charging
                                  /\ a \notin With({"soc"}) /\ a \notin With({"direct"})
BY DEF With, Charging

(* A limit that changed is requested, one that did not is held.            *)
LEMMA SocStep ==
  ASSUME SocLimitHeld, soc' = soc, NEW newAct, act' = newAct,
         \A a \in With({"soc"}) :
           applied'[a] = IF a \in Request(newAct) THEN Given(a, newAct) ELSE applied[a]
  PROVE  SocLimitHeld'
<1> SUFFICES ASSUME soc = "up", NEW a \in With({"soc"})
             PROVE  applied'[a] = Given(a, newAct) \/ newAct[a].lastValue = Actions[a].kind.reset
  BY DEF SocLimitHeld, Given
<1>1. CASE a \in Changed(newAct)
  BY <1>1 DEF Request, SocLimitRequest
<1>2. CASE a \notin Changed(newAct)
  <2>1. newAct[a].lastValue = act[a].lastValue
    BY <1>2, SinksApart DEF Changed
  <2>2. a \notin Request(newAct)
    BY <1>2 DEF Request, SocLimitRequest
  <2> QED BY <2>1, <2>2, Zenon DEF SocLimitHeld, Given
<1> QED BY <1>1, <1>2

(* While the SoC performance service is up and known to be up, it holds    *)
(* the limit the action believes it holds.                                 *)
THEOREM SocLimitsHeld == Spec => []SocLimitHeld
<1> DEFINE Inv == PolicyInv /\ SocLimitHeld
<1>1. Init => SocLimitHeld
  <2> SUFFICES ASSUME Init, NEW a \in With({"soc"}) PROVE act[a].lastValue = Actions[a].kind.reset
    BY DEF SocLimitHeld
  <2>1. act[a] = NewAction(Actions[a].kind)
    BY SinksApart DEF Init
  <2> QED BY <2>1 DEF NewAction
<1>2. Inv /\ [Next]_vars => SocLimitHeld'
  <2> SUFFICES ASSUME PolicyInv, SocLimitHeld, [Next]_vars PROVE SocLimitHeld'
    OBVIOUS
  <2>1. ASSUME PolicyDecision, soc' = soc PROVE SocLimitHeld'
    <3>1. PICK newAct, battery : Outcome(newAct, battery)
      BY <2>1, DecisionOutcome DEF PolicyInv
    <3>2. ASSUME NEW a \in With({"soc"})
          PROVE  applied'[a] = IF a \in Request(newAct) THEN Given(a, newAct) ELSE applied[a]
      BY <3>1, SinksApart DEF Outcome, AcceptedLimits
    <3> QED BY <2>1, <3>1, <3>2, SocStep DEF Outcome
  <2>2. ASSUME NEW a \in ActionNames, NEW i \in DOMAIN act[a].delays, CallbackExecutes(a, i)
        PROVE  SocLimitHeld'
    <3>1. /\ soc' = soc
          /\ applied' = [b \in ActionNames |-> IF b \in Request(act') THEN Given(b, act') ELSE applied[b]]
      BY <2>2 DEF CallbackExecutes
    <3> QED BY <3>1, SocStep, SinksApart
  <2>3. CASE OnAddSystemAbility
    <3>1. ASSUME NEW a \in With({"soc"}) PROVE act'[a].lastValue = Actions[a].kind.reset
      <4>1. act'[a] = ResetActionValue(Actions[a].kind, act[a])
        BY <2>3, SinksApart, SocActionsReset DEF OnAddSystemAbility
      <4> QED BY <4>1, ResetResult, SinksApart DEF PolicyInv, Objects
    <3> QED BY <3>1 DEF SocLimitHeld
  <2>4. CASE soc' # "up"
    BY <2>4 DEF SocLimitHeld
  <2>5. CASE UNCHANGED <<act, applied, soc>>
    BY <2>5 DEF SocLimitHeld, Given
  <2> QED BY <2>1, <2>2, <2>3, <2>4, <2>5
          DEF Next, OnSensorInfoReported, ExecutePolicy, StateChanged, TimerFires, CallbackEnds,
              UsesErasedDelay, SocDies, SocStarts, vars, outputs
<1> QED BY <1>1, <1>2, PolicyInvariant, PTL DEF Spec

-----------------------------------------------------------------------------
(* Charging currents.                                                      *)

\* No charging action bears the name of an action of the SoC service.  The
\* action manager keeps the first of two items with one name but resets the
\* action when the SoC service restarts if either of them is one of its.
NamesApart == \A a \in With({"current"}) : ~ Actions[a].socSet

IsList(s) == \E S : s \in Seq(S)

Lists ==
  /\ pending = [a \in Charging |-> pending[a]]
  /\ \A a \in Charging : IsList(pending[a])

\* The list of limits ends with the one appended.
LEMMA AppendedLast ==
  ASSUME NEW s, NEW v, IsList(s)
  PROVE  IsList(Append(s, v)) /\ Append(s, v) # <<>> /\ Last(Append(s, v)) = v
<1>1. PICK S : s \in Seq(S)
  BY DEF IsList
<1>2. s \in Seq(S \cup {v}) /\ v \in S \cup {v}
  BY <1>1
<1>3. Append(s, v) \in Seq(S \cup {v})
  BY <1>2
<1>4. Append(s, v) # <<>> /\ Append(s, v)[Len(Append(s, v))] = v
  BY <1>2
<1> QED BY <1>3, <1>4 DEF IsList, Last

(* The list after an execution ends with the current in force, or is the   *)
(* list as it was.                                                         *)
LEMMA LimitListed ==
  ASSUME Lists, NEW newAct, NEW battery
  PROVE  LET list == LimitList(newAct, battery) IN
         /\ list = [a \in Charging |-> list[a]] /\ \A a \in Charging : IsList(list[a])
         /\ \A a \in With({"current"}) :
              IF a \in Changed(newAct) THEN list[a] # <<>> /\ Last(list[a]) = newAct[a].lastValue
              ELSE list[a] = pending[a] /\ newAct[a].lastValue = act[a].lastValue
<1> DEFINE list == LimitList(newAct, battery)
<1>1. \A a \in Charging : list[a] = IF a \in ChargerRequest(newAct) \cup SetVoltage(newAct, battery)
                                    THEN Append(pending[a], newAct[a].lastValue) ELSE pending[a]
  BY DEF LimitList
<1>2. list = [a \in Charging |-> list[a]]
  BY DEF LimitList
<1> HIDE DEF list
<1>3. \A a \in Charging : IsList(list[a])
  BY <1>1, AppendedLast DEF Lists
<1>4. ASSUME NEW a \in With({"current"}), a \in Changed(newAct)
      PROVE  list[a] # <<>> /\ Last(list[a]) = newAct[a].lastValue
  <2>1. a \in Charging /\ a \in ChargerRequest(newAct)
    BY <1>4, SinksApart DEF ChargerRequest
  <2>2. list[a] = Append(pending[a], newAct[a].lastValue)
    BY <1>1, <2>1
  <2> QED BY <2>1, <2>2, AppendedLast DEF Lists
<1>5. ASSUME NEW a \in With({"current"}), a \notin Changed(newAct)
      PROVE  list[a] = pending[a] /\ newAct[a].lastValue = act[a].lastValue
  <2>1. a \in Charging /\ a \in ActionNames
    BY SinksApart
  <2>2. a \notin ChargerRequest(newAct) \cup SetVoltage(newAct, battery)
    BY <1>5 DEF ChargerRequest, SetVoltage
  <2> QED BY <1>1, <1>5, <2>1, <2>2 DEF Changed
<1> QED BY <1>2, <1>3, <1>4, <1>5 DEF list

\* A decision keeps the current in the list or delivers it, whatever the battery
\* service answers: an accepted list is given as a whole, so its last entry is
\* in force.
LEMMA CurrentsDecided ==
  ASSUME Lists, CurrentNotLost, NEW newAct, NEW battery, Outcome(newAct, battery)
  PROVE  Lists' /\ CurrentNotLost'
<1> DEFINE list == LimitList(newAct, battery)
<1>1. /\ act' = newAct /\ pending' = ExecuteLimits(list, battery)
      /\ applied' = [a \in ActionNames |->
                       IF a \in Request(newAct) THEN Given(a, newAct)
                       ELSE IF a \in AcceptedLimits(list, battery) THEN Last(list[a])
                       ELSE applied[a]]
  BY DEF Outcome
<1>2. /\ list = [a \in Charging |-> list[a]] /\ \A a \in Charging : IsList(list[a])
      /\ \A a \in With({"current"}) :
           IF a \in Changed(newAct) THEN list[a] # <<>> /\ Last(list[a]) = newAct[a].lastValue
           ELSE list[a] = pending[a] /\ newAct[a].lastValue = act[a].lastValue
  BY LimitListed
<1> HIDE DEF list
<1>3. IsList(<<>>)
  BY DEF IsList
<1>4. Lists'
  BY <1>1, <1>2, <1>3 DEF Lists, ExecuteLimits
<1>5. ASSUME NEW a \in With({"current"})
      PROVE  IF pending'[a] # <<>> THEN Last(pending'[a]) = newAct[a].lastValue ELSE Delivered(a)'
  <2>1. a \in ActionNames /\ a \in Charging /\ a \notin Request(newAct)
    BY SinksApart DEF Request, SocLimitRequest
  <2>2. applied'[a] = IF a \in AcceptedLimits(list, battery) THEN Last(list[a]) ELSE applied[a]
    BY <1>1, <2>1
  <2>3. list[a] # <<>> => Last(list[a]) = newAct[a].lastValue
    BY <1>2 DEF CurrentNotLost
  <2>4. list[a] = <<>> => /\ applied'[a] = applied[a] /\ newAct[a].lastValue = act[a].lastValue
                          /\ Delivered(a)
    BY <1>2, <2>2 DEF CurrentNotLost, AcceptedLimits
  <2>5. CASE battery = "ok"
    <3>1. pending'[a] = <<>>
      BY <1>1, <2>1, <2>5 DEF ExecuteLimits
    <3>2. CASE list[a] # <<>>
      BY <1>1, <2>1, <2>2, <2>3, <2>5, <3>1, <3>2 DEF AcceptedLimits, Delivered
    <3>3. CASE list[a] = <<>>
      BY <1>1, <2>4, <3>1, <3>3 DEF Delivered
    <3> QED BY <3>2, <3>3
  <2>6. CASE battery # "ok"
    <3>1. pending'[a] = list[a]
      BY <1>1, <2>6 DEF ExecuteLimits
    <3> QED BY <1>1, <2>3, <2>4, <3>1 DEF Delivered
  <2> QED BY <2>5, <2>6
<1>6. CurrentNotLost'
  BY <1>1, <1>5 DEF CurrentNotLost
<1> QED BY <1>4, <1>6

(* A timer leaves the current it decides in the list.                      *)
LEMMA CurrentsFired ==
  ASSUME Lists, CurrentNotLost, NEW b \in ActionNames, NEW i \in DOMAIN act[b].delays,
         CallbackExecutes(b, i)
  PROVE  Lists' /\ CurrentNotLost'
<1>1. PICK battery \in {"absent", "ok"} :
        /\ pending' = LimitList(act', battery)
        /\ applied' = [a \in ActionNames |-> IF a \in Request(act') THEN Given(a, act') ELSE applied[a]]
  BY DEF CallbackExecutes
<1> DEFINE list == LimitList(act', battery)
<1>2. /\ list = [a \in Charging |-> list[a]] /\ \A a \in Charging : IsList(list[a])
      /\ \A a \in With({"current"}) :
           IF a \in Changed(act') THEN list[a] # <<>> /\ Last(list[a]) = act'[a].lastValue
           ELSE list[a] = pending[a] /\ act'[a].lastValue = act[a].lastValue
  BY LimitListed
<1>3. pending' = list
  BY <1>1
<1> HIDE DEF list
<1>4. Lists'
  BY <1>2, <1>3 DEF Lists
<1>5. ASSUME NEW a \in With({"current"})
      PROVE  IF pending'[a] # <<>> THEN Last(pending'[a]) = act'[a].lastValue ELSE Delivered(a)'
  <2>1. applied'[a] = applied[a]
    BY <1>1, SinksApart DEF Request, SocLimitRequest
  <2> QED BY <1>2, <1>3, <2>1 DEF CurrentNotLost, Delivered
<1> QED BY <1>4, <1>5 DEF CurrentNotLost

(* No charging current decided is ever lost, whatever the order of         *)
(* failures of the battery service, timers and decisions, as long as no    *)
(* charging action bears the name of an action of the SoC service.         *)
THEOREM CurrentsNotLost ==
  ASSUME NamesApart
  PROVE  Spec => []CurrentNotLost
<1> DEFINE Inv == Lists /\ CurrentNotLost
<1>1. Init => Inv
  <2> SUFFICES ASSUME Init PROVE Lists /\ CurrentNotLost
    OBVIOUS
  <2>1. IsList(<<>>)
    BY DEF IsList
  <2>2. Lists
    BY <2>1 DEF Init, Lists
  <2>3. ASSUME NEW a \in With({"current"}) PROVE pending[a] = <<>> /\ Delivered(a)
    <3>1. act[a] = NewAction(Actions[a].kind) /\ applied[a] = Nothing /\ pending[a] = <<>>
      BY SinksApart DEF Init
    <3> QED BY <3>1 DEF NewAction, Delivered
  <2> QED BY <2>2, <2>3 DEF CurrentNotLost
<1>2. PolicyInv /\ Inv /\ [Next]_vars => Inv'
  <2> SUFFICES ASSUME PolicyInv, Lists, CurrentNotLost, [Next]_vars PROVE Lists' /\ CurrentNotLost'
    OBVIOUS
  <2>1. CASE PolicyDecision
    <3>1. PICK newAct, battery : Outcome(newAct, battery)
      BY <2>1, DecisionOutcome DEF PolicyInv
    <3> QED BY <3>1, CurrentsDecided
  <2>2. ASSUME pending' = pending,
               \A a \in With({"current"}) : act'[a] = act[a] /\ applied'[a] = applied[a]
        PROVE  Lists' /\ CurrentNotLost'
    BY <2>2 DEF Lists, CurrentNotLost, Delivered
  <2>3. CASE OnAddSystemAbility
    BY <2>2, <2>3, SinksApart DEF OnAddSystemAbility, NamesApart
  <2>4. CASE SocDies
    BY <2>2, <2>4, SinksApart DEF SocDies
  <2>5. CASE UNCHANGED <<act, pending, applied>>
    BY <2>2, <2>5
  <2> QED BY <2>1, <2>3, <2>4, <2>5, CurrentsFired
          DEF Next, OnSensorInfoReported, ExecutePolicy, StateChanged, TimerFires, CallbackEnds,
              UsesErasedDelay, SocStarts, vars, outputs
<1>3. Inv => CurrentNotLost
  OBVIOUS
<1> QED BY <1>1, <1>2, <1>3, PolicyInvariant, PTL DEF Spec

-----------------------------------------------------------------------------
(* The sorted policy of a cluster.                                         *)

Entries(configs) == \E S : configs \in Seq(S)
Ranked(configs) == Entries(configs) /\ \A i \in DOMAIN configs : configs[i].level \in Nat

\* The place of an entry is one of the list.
LEMMA PlaceRange ==
  ASSUME NEW configs, Ranked(configs), NEW i \in DOMAIN configs
  PROVE  Place(configs, i) \in DOMAIN configs
<1> DEFINE n == Len(configs)
<1>1. DOMAIN configs = 1 .. n /\ n \in Nat
  BY DEF Ranked, Entries
<1>2. IsFiniteSet(1 .. n) /\ Cardinality(1 .. n) = n
  <2>1. 1 \in Int /\ n \in Int
    BY <1>1
  <2>2. IsFiniteSet(1 .. n) /\ Cardinality(1 .. n) = IF 1 > n THEN 0 ELSE n - 1 + 1
    BY <2>1, FS_Interval
  <2> QED BY <1>1, <2>2
<1>3. UpTo(configs, i) \in SUBSET (1 .. n) /\ i \in UpTo(configs, i)
  BY <1>1 DEF UpTo, Ranked
<1>4. /\ IsFiniteSet(UpTo(configs, i)) /\ Place(configs, i) <= n
  BY <1>2, <1>3, FS_Subset DEF Place
<1>5. Place(configs, i) \in Nat /\ Place(configs, i) # 0
  BY <1>3, <1>4, FS_CardinalityType, FS_EmptySet DEF Place
<1> QED BY <1>1, <1>4, <1>5

\* An entry of a higher level, or a later one of the same, comes after.
LEMMA PlaceGrows ==
  ASSUME NEW configs, Ranked(configs), NEW i \in DOMAIN configs, NEW j \in DOMAIN configs,
         \/ configs[i].level < configs[j].level
         \/ configs[i].level = configs[j].level /\ i < j
  PROVE  Place(configs, i) < Place(configs, j)
<1> DEFINE n == Len(configs)
<1>1. DOMAIN configs = 1 .. n /\ n \in Nat
  BY DEF Ranked, Entries
<1>2. UpTo(configs, j) \in SUBSET (1 .. n)
  BY <1>1 DEF UpTo
<1>3. IsFiniteSet(UpTo(configs, j))
  <2>1. IsFiniteSet(1 .. n)
    BY <1>1, FS_Interval
  <2> QED BY <1>2, <2>1, FS_Subset
<1>4. UpTo(configs, i) \in SUBSET UpTo(configs, j)
  <2> SUFFICES ASSUME NEW k \in UpTo(configs, i) PROVE k \in UpTo(configs, j)
    OBVIOUS
  <2>1. k \in 1 .. n /\ i \in 1 .. n /\ j \in 1 .. n
    BY <1>1 DEF UpTo
  <2>2. configs[i].level \in Nat /\ configs[j].level \in Nat /\ configs[k].level \in Nat
    BY <1>1, <2>1 DEF Ranked
  <2> QED BY <1>1, <2>1, <2>2 DEF UpTo
<1>5. j \in UpTo(configs, j) /\ j \notin UpTo(configs, i)
  BY <1>1 DEF UpTo, Ranked
<1>6. Place(configs, i) # Place(configs, j) /\ Place(configs, i) <= Place(configs, j)
  BY <1>3, <1>4, <1>5, FS_Subset DEF Place
<1>7. Place(configs, i) \in 1 .. n /\ Place(configs, j) \in 1 .. n
  BY <1>1, PlaceRange
<1> QED BY <1>6, <1>7

(* Sorting puts every entry at its place and leaves no place empty.        *)
LEMMA Sorted ==
  ASSUME NEW configs, Ranked(configs)
  PROVE  /\ DOMAIN SortLevel(configs) = DOMAIN configs
         /\ \A n \in DOMAIN configs : \E i \in DOMAIN configs :
              Place(configs, i) = n /\ SortLevel(configs)[n] = configs[i]
         /\ \A i \in DOMAIN configs : SortLevel(configs)[Place(configs, i)] = configs[i]
<1> DEFINE N == DOMAIN configs
           f == [i \in N |-> Place(configs, i)]
<1>1. N = 1 .. Len(configs) /\ Len(configs) \in Nat
  BY DEF Ranked, Entries
<1>2. IsFiniteSet(N)
  BY <1>1, FS_Interval
<1>3. \A i \in N : Place(configs, i) \in N
  BY PlaceRange
<1>4. \A i, j \in N : Place(configs, i) = Place(configs, j) => i = j
  <2> SUFFICES ASSUME NEW i \in N, NEW j \in N, i # j PROVE Place(configs, i) # Place(configs, j)
    OBVIOUS
  <2>1. configs[i].level \in Nat /\ configs[j].level \in Nat /\ i \in Nat /\ j \in Nat
    BY <1>1 DEF Ranked
  <2>2. Place(configs, i) \in Nat /\ Place(configs, j) \in Nat
    BY <1>1, <1>3
  <2>3. \/ configs[i].level < configs[j].level
        \/ configs[j].level < configs[i].level
        \/ configs[i].level = configs[j].level /\ i < j
        \/ configs[i].level = configs[j].level /\ j < i
    BY <2>1
  <2>4. Place(configs, i) < Place(configs, j) \/ Place(configs, j) < Place(configs, i)
    BY <2>1, <2>3, PlaceGrows
  <2> QED BY <2>2, <2>4
<1>5. f \in Injection(N, N)
  BY <1>3, <1>4, Zenon DEF Injection, IsInjective
<1>6. f \in Surjection(N, N)
  BY <1>2, <1>5, FS_Injection, Zenon
<1>7. \A n \in N : \E i \in N : Place(configs, i) = n
  BY <1>6 DEF Surjection
<1> HIDE DEF f
<1>8. ASSUME NEW i \in N PROVE SortLevel(configs)[Place(configs, i)] = configs[i]
  <2> DEFINE k == CHOOSE k \in N : Place(configs, k) = Place(configs, i)
  <2>1. k \in N /\ Place(configs, k) = Place(configs, i)
    BY Zenon
  <2>2. k = i
    BY <1>4, <2>1, Zenon
  <2> QED BY <1>3, <2>2 DEF SortLevel
<1>9. DOMAIN SortLevel(configs) = N
  BY DEF SortLevel
<1> QED BY <1>7, <1>8, <1>9, Zenon

\* The entries of a policy a level has reached.
ReachedBy(configs, level) == {i \in DOMAIN configs : configs[i].level <= level}

(* The entry a cluster takes is the highest one its level has reached.     *)
LEMMA LevelChosen ==
  ASSUME NEW c \in DOMAIN Policies, NEW level \in Nat
  PROVE  IF ReachedBy(Policies[c], level) = {} THEN LevelActions(c, level) = <<>>
         ELSE \E i \in ReachedBy(Policies[c], level) :
                /\ \A j \in ReachedBy(Policies[c], level) : Policies[c][j].level <= Policies[c][i].level
                /\ LevelActions(c, level) = Policies[c][i].actions
<1> DEFINE configs == Policies[c]
           s == SortLevel(configs)
           n == Len(configs)
           I == {m \in 1 .. Len(s) : level >= s[m].level}
           last == IF I # {} THEN Max(I) ELSE 0
<1>1. configs \in Seq(Range(configs)) /\ \A i \in DOMAIN configs : configs[i].level \in Nat
  BY PolicyAssumption DEF Range
<1>2. Ranked(configs) /\ DOMAIN configs = 1 .. n /\ n \in Nat
  BY <1>1 DEF Ranked, Entries
<1>3. /\ DOMAIN s = 1 .. n
      /\ \A m \in 1 .. n : \E i \in 1 .. n : Place(configs, i) = m /\ s[m] = configs[i]
      /\ \A i \in 1 .. n : s[Place(configs, i)] = configs[i]
  <2>1. /\ DOMAIN s = DOMAIN configs
        /\ \A m \in DOMAIN configs : \E i \in DOMAIN configs : Place(configs, i) = m /\ s[m] = configs[i]
        /\ \A i \in DOMAIN configs : s[Place(configs, i)] = configs[i]
    BY <1>2, Sorted, Zenon
  <2> HIDE DEF s, configs
  <2> QED BY <1>2, <2>1, Zenon
<1>4. ClusterPolicyMap[c] = s
  BY PolicyAssumption DEF ClusterPolicyMap
<1>5. LevelActions(c, level) = IF last = 0 THEN <<>> ELSE s[last].actions
  BY <1>4 DEF LevelActions, SelectLastInSeq
<1> HIDE DEF s, configs
<1>6. Len(s) = n
  BY <1>2, <1>3
<1>7. I \in SUBSET (1 .. n)
  BY <1>6
<1>8. ASSUME NEW i \in ReachedBy(configs, level)
      PROVE  Place(configs, i) \in I
  <2>1. i \in 1 .. n /\ configs[i].level <= level /\ configs[i].level \in Nat
    BY <1>1, <1>2, <1>8 DEF ReachedBy
  <2>2. Place(configs, i) \in 1 .. n /\ s[Place(configs, i)] = configs[i]
    BY <1>2, <1>3, <2>1, PlaceRange
  <2> QED BY <1>6, <2>1, <2>2
<1>9. CASE I = {}
  <2>1. ReachedBy(configs, level) = {}
    BY <1>8, <1>9
  <2> QED BY <1>5, <1>9, <2>1 DEF configs
<1>10. CASE I # {}
  <2>1. Max(I) \in I /\ \A m \in I : m <= Max(I)
    <3>1. I \in SUBSET (0 .. n)
      BY <1>7
    <3> HIDE DEF I
    <3> QED BY <1>2, <1>10, <3>1, MaxIs
  <2>2. last = Max(I) /\ last \in 1 .. n /\ level >= s[last].level /\ last # 0
    BY <1>6, <1>10, <2>1
  <2> HIDE DEF last
  <2>3. PICK i \in 1 .. n : Place(configs, i) = last /\ s[last] = configs[i]
    BY <1>3, <2>2
  <2>4. i \in ReachedBy(configs, level) /\ LevelActions(c, level) = configs[i].actions
    <3>1. configs[i].level \in Nat
      BY <1>1, <1>2, <2>3
    <3> QED BY <1>2, <1>5, <2>2, <2>3, <3>1 DEF ReachedBy
  <2>5. ASSUME NEW j \in ReachedBy(configs, level) PROVE configs[j].level <= configs[i].level
    <3>1. j \in 1 .. n /\ configs[j].level \in Nat /\ configs[i].level \in Nat
      BY <1>1, <1>2, <2>3 DEF ReachedBy
    <3>2. Place(configs, j) \in I
      BY <1>8
    <3>3. Place(configs, j) <= last /\ Place(configs, j) \in 1 .. n
      BY <1>7, <2>1, <2>2, <3>2
    <3>4. ~ (configs[i].level < configs[j].level)
      <4>1. ASSUME configs[i].level < configs[j].level PROVE FALSE
        <5>1. Place(configs, i) < Place(configs, j)
          BY <1>2, <2>3, <3>1, <4>1, PlaceGrows
        <5> QED BY <2>2, <2>3, <3>3, <5>1
      <4> QED BY <4>1
    <3> QED BY <3>1, <3>4
  <2>6. ReachedBy(configs, level) # {}
    BY <2>4
  <2> QED BY <2>4, <2>5, <2>6 DEF configs
<1> QED BY <1>9, <1>10

\* The definitions of arbitration, at given levels and states.
HoldsIn(props, st) == \A p \in props : p[1] \in DOMAIN st /\ st[p[1]] = p[2]
Applying(a, list, st) == {i \in DOMAIN list : list[i].name = a /\ HoldsIn(list[i].props, st)}
AskedAt(config, a, st) ==
  {config.actions[i] : i \in {j \in Applying(a, config.actions, st) :
                                \A k \in Applying(a, config.actions, st) : k <= j}}
InForceAt(c, level) ==
  LET reached == {config \in Configs[c] : config.level <= level}
  IN  {config \in reached : \A other \in reached : other.level <= config.level}
LastAsked(a, list, st) ==
  IF Applying(a, list, st) = {} THEN {} ELSE {list[Max(Applying(a, list, st))]}

\* No two entries of a policy are for the same level: std::sort leaves the
\* order of such entries open.
LevelsDiffer ==
  \A c \in DOMAIN Policies : \A i, j \in DOMAIN Policies[c] :
    Policies[c][i].level = Policies[c][j].level => i = j

\* Of the entries of one list for an action, the last one is asked.
LEMMA LastIsAsked ==
  ASSUME NEW config, NEW S, config.actions \in Seq(S), NEW a, NEW st
  PROVE  AskedAt(config, a, st) = LastAsked(a, config.actions, st)
<1> DEFINE A == Applying(a, config.actions, st)
           n == Len(config.actions)
<1>1. n \in Nat /\ A \in SUBSET (0 .. n)
  BY DEF Applying
<1> HIDE DEF A, n
<1>2. CASE A = {}
  BY <1>2 DEF AskedAt, LastAsked, A
<1>3. CASE A # {}
  <2>1. Max(A) \in A /\ \A y \in A : y <= Max(A)
    BY <1>1, <1>3, MaxIs
  <2>2. A \subseteq Nat
    BY <1>1
  <2>3. {j \in A : \A k \in A : k <= j} = {Max(A)}
    <3> DEFINE m == Max(A)
    <3> HIDE DEF m
    <3>1. m \in A /\ \A y \in A : y <= m
      BY <2>1 DEF m
    <3>2. {j \in A : \A k \in A : k <= j} = {m}
      <4>1. ASSUME NEW j \in A, \A k \in A : k <= j PROVE j = m
        <5>1. m <= j /\ j <= m /\ m \in Nat /\ j \in Nat
          BY <2>2, <3>1, <4>1
        <5> QED BY <5>1
      <4> QED BY <3>1, <4>1
    <3> QED BY <3>2 DEF m
  <2>4. AskedAt(config, a, st) = {config.actions[i] : i \in {Max(A)}}
    BY <2>3, Zenon DEF AskedAt, A
  <2>5. LastAsked(a, config.actions, st) = {config.actions[Max(A)]}
    BY <1>3 DEF LastAsked, A
  <2> QED BY <2>4, <2>5
<1> QED BY <1>2, <1>3

(* What the entries in force of a cluster ask of an action is what the     *)
(* decision takes from the sorted policy.                                  *)
LEMMA InForceIsChosen ==
  ASSUME LevelsDiffer, NEW c \in DOMAIN Policies, NEW level \in Nat, NEW a, NEW st
  PROVE  UNION {AskedAt(config, a, st) : config \in InForceAt(c, level)}
           = LastAsked(a, LevelActions(c, level), st)
<1> DEFINE configs == Policies[c]
           R == ReachedBy(configs, level)
<1>1. /\ \A i \in DOMAIN configs : configs[i].level \in Nat
      /\ \A i \in DOMAIN configs : configs[i].actions \in Seq(Range(configs[i].actions))
  <2> SUFFICES ASSUME NEW i \in DOMAIN configs
               PROVE  configs[i].level \in Nat /\ configs[i].actions \in Seq(Range(configs[i].actions))
    OBVIOUS
  <2>1. configs[i] \in Range(configs)
    BY DEF Range
  <2> QED BY <2>1, PolicyAssumption
<1>2. Configs[c] = {configs[i] : i \in DOMAIN configs}
  BY DEF Configs, Range
<1>3. {config \in Configs[c] : config.level <= level} = {configs[i] : i \in R}
  BY <1>2 DEF ReachedBy
<1>4. InForceAt(c, level) =
        {config \in {configs[i] : i \in R} : \A other \in {configs[i] : i \in R} : other.level <= config.level}
  BY <1>3, Zenon DEF InForceAt
<1>5. CASE R = {}
  <2>1. InForceAt(c, level) = {}
    BY <1>4, <1>5
  <2>2. LevelActions(c, level) = <<>>
    BY <1>5, LevelChosen
  <2>3. Applying(a, <<>>, st) = {}
    BY DEF Applying
  <2> QED BY <2>1, <2>2, <2>3 DEF LastAsked
<1>6. CASE R # {}
  <2>1. PICK i \in R : /\ \A j \in R : configs[j].level <= configs[i].level
                       /\ LevelActions(c, level) = configs[i].actions
    BY <1>6, LevelChosen
  <2>2. R \subseteq DOMAIN configs
    BY DEF ReachedBy
  <2>3. ASSUME NEW j \in R, configs[i].level <= configs[j].level PROVE j = i
    <3>1. configs[i].level \in Nat /\ configs[j].level \in Nat /\ configs[j].level <= configs[i].level
      BY <1>1, <2>1, <2>2
    <3>2. configs[i].level = configs[j].level
      BY <2>3, <3>1
    <3> QED BY <2>2, <3>2 DEF LevelsDiffer
  <2>4. InForceAt(c, level) = {configs[i]}
    <3> HIDE DEF R, configs
    <3> QED BY <1>4, <2>1, <2>3
  <2>5. AskedAt(configs[i], a, st) = LastAsked(a, configs[i].actions, st)
    BY <1>1, <2>2, LastIsAsked
  <2> QED BY <2>1, <2>4, <2>5
<1> QED BY <1>5, <1>6

-----------------------------------------------------------------------------
(* What a decision collects, entry by entry.                               *)

\* What handing over a delay does to an object, as a record.
LEMMA DelayAdded ==
  ASSUME NEW x, IsObject(x), NEW id, NEW uninit \in UninitialisedDelay
  PROVE  LET y == AddActionDelayTime(x, id, uninit) IN
         /\ IsObject(y) /\ y.valueList = x.valueList /\ y.ids = x.ids \cup {id}
         /\ DOMAIN y.delays = DOMAIN x.delays \cup {id}
         /\ \A i \in DOMAIN x.delays : y.delays[i] = x.delays[i]
         /\ id \notin DOMAIN x.delays => y.delays[id] = uninit
<1> DEFINE d == [i \in DOMAIN x.delays \cup {id} |->
                   IF i \in DOMAIN x.delays THEN x.delays[i] ELSE uninit]
           y == AddActionDelayTime(x, id, uninit)
<1>1. y = [valueList |-> x.valueList, lastValue |-> x.lastValue, delays |-> d, ids |-> x.ids \cup {id}]
  <2>1. y = [x EXCEPT !.delays = d, !.ids = x.ids \cup {id}]
    BY DEF AddActionDelayTime
  <2> HIDE DEF d, y
  <2> QED BY <2>1 DEF IsObject
<1>2. y.valueList = x.valueList /\ y.ids = x.ids \cup {id} /\ y.delays = d
  BY <1>1
<1>3. IsObject(y)
  BY AddDelayKeeps DEF Grown
<1> QED BY <1>2, <1>3

\* What handing over a value does to an object.
LEMMA ValueAdded ==
  ASSUME NEW x, IsObject(x), NEW kind, NEW id, NEW value
  PROVE  LET y == AddActionValue(kind, x, id, value)
             number == IF value = Malformed THEN 0 ELSE value
         IN  IF value = Malformed /\ kind.drops THEN y = x
             ELSE /\ IsObject(y) /\ y.ids = x.ids /\ DOMAIN y.delays = DOMAIN x.delays
                  /\ IF id = 0 THEN y.valueList = x.valueList \cup {number} /\ y.delays = x.delays
                     ELSE /\ y.valueList = x.valueList
                          /\ \A i \in DOMAIN x.delays :
                               y.delays[i].value = IF i = id THEN number ELSE x.delays[i].value
<1> DEFINE number == IF value = Malformed THEN 0 ELSE value
           y == AddActionValue(kind, x, id, value)
<1>1. CASE value = Malformed /\ kind.drops
  BY <1>1 DEF AddActionValue
<1>2. CASE ~ (value = Malformed /\ kind.drops) /\ id = 0
  <2>1. y = [x EXCEPT !.valueList = @ \cup {number}]
    BY <1>2, Zenon DEF AddActionValue
  <2> HIDE DEF number
  <2>2. y = [valueList |-> x.valueList \cup {number}, lastValue |-> x.lastValue,
             delays |-> x.delays, ids |-> x.ids]
    BY <2>1 DEF IsObject
  <2> HIDE DEF y
  <2>3. y.valueList = x.valueList \cup {number} /\ y.delays = x.delays /\ y.ids = x.ids
    BY <2>2
  <2>4. IsObject(y)
    BY AddValueKeeps DEF Grown, y
  <2> QED BY <1>2, <2>3, <2>4 DEF y, number
<1>3. CASE ~ (value = Malformed /\ kind.drops) /\ id # 0 /\ id \in DOMAIN x.delays
  <2> DEFINE d == [x.delays EXCEPT ![id] = [x.delays[id] EXCEPT !.value = number]]
  <2>1. y = [x EXCEPT !.delays[id].value = number]
    BY <1>3, Zenon DEF AddActionValue
  <2> HIDE DEF number
  <2>2. y = [valueList |-> x.valueList, lastValue |-> x.lastValue, delays |-> d, ids |-> x.ids]
    BY <2>1 DEF IsObject
  <2> HIDE DEF y
  <2>3. y.valueList = x.valueList /\ y.delays = d /\ y.ids = x.ids
    BY <2>2
  <2>4. IsObject(y)
    BY AddValueKeeps DEF Grown, y
  <2>5. DOMAIN d = DOMAIN x.delays /\ \A i \in DOMAIN x.delays : i # id => d[i] = x.delays[i]
    BY DEF IsObject
  <2>6. d[id].value = number
    <3>1. d[id] = [x.delays[id] EXCEPT !.value = number]
      BY <1>3 DEF IsObject
    <3>2. IsDelay(x.delays[id])
      BY <1>3 DEF IsObject
    <3> HIDE DEF d
    <3> QED BY <3>1, <3>2 DEF IsDelay
  <2> HIDE DEF d
  <2> QED BY <1>3, <2>3, <2>4, <2>5, <2>6 DEF y, number
<1>4. CASE ~ (value = Malformed /\ kind.drops) /\ id # 0 /\ id \notin DOMAIN x.delays
  <2>1. y = x
    BY <1>4 DEF AddActionValue
  <2> QED BY <1>4, <2>1
<1> QED BY <1>1, <1>2, <1>3, <1>4

\* A delay whose value a class drops leaves the delay with the value it had.
DelaysAreNumbers ==
  \A p \in PolicyActions :
    p.name \in ActionNames /\ p.delaytime # <<>> /\ p.value = Malformed =>
      ~ Actions[p.name].kind.drops

Dropped(a, p) == p.value = Malformed /\ Actions[a].kind.drops
Delayed(p) == p.delaytime # <<>> /\ Len(p.delaytime) = 2

\* Object x of action a holds what the policy entries E ask, and no more.
Collects(a, x, E) ==
  /\ IsObject(x)
  /\ x.valueList = {Number(p) : p \in {q \in E : q.delaytime = <<>> /\ ~ Dropped(a, q)}}
  /\ x.ids = {p.delaytime[1] : p \in {q \in E : Delayed(q)}}
  /\ x.ids \subseteq DOMAIN x.delays
  /\ \A i \in x.ids : \E p \in E : /\ Delayed(p) /\ p.delaytime[1] = i
                                   /\ x.delays[i].value = Number(p)

\* What ActionDecision makes of the entry it takes.
TakeEntry(a, x, p, uninit) ==
  IF p.delaytime = <<>> THEN AddActionValue(Actions[a].kind, x, 0, p.value)
  ELSE IF Len(p.delaytime) # 2 THEN x
  ELSE AddActionValue(Actions[a].kind, AddActionDelayTime(x, p.delaytime[1], uninit),
                      p.delaytime[1], p.value)

\* Taking an entry adds it to what the object holds, and nothing else.
LEMMA EntryCollected ==
  ASSUME DelaysAreNumbers, NEW a \in ActionNames, NEW x, NEW E, Collects(a, x, E),
         NEW p \in PolicyActions, p.name = a, NEW uninit \in UninitialisedDelay
  PROVE  Collects(a, TakeEntry(a, x, p, uninit), E \cup {p})
<1> DEFINE kind == Actions[a].kind
           F == E \cup {p}
           y == TakeEntry(a, x, p, uninit)
           Values1(S) == {Number(q) : q \in {r \in S : r.delaytime = <<>> /\ ~ Dropped(a, r)}}
           Ids1(S) == {q.delaytime[1] : q \in {r \in S : Delayed(r)}}
<1>1. Values1(F) = Values1(E) \cup (IF p.delaytime = <<>> /\ ~ Dropped(a, p) THEN {Number(p)} ELSE {})
  OBVIOUS
<1>2. Ids1(F) = Ids1(E) \cup (IF Delayed(p) THEN {p.delaytime[1]} ELSE {})
  OBVIOUS
<1>3. /\ IsObject(x) /\ x.valueList = Values1(E) /\ x.ids = Ids1(E) /\ x.ids \subseteq DOMAIN x.delays
      /\ \A i \in x.ids : \E q \in E : /\ Delayed(q) /\ q.delaytime[1] = i
                                       /\ x.delays[i].value = Number(q)
  BY Zenon DEF Collects
<1> HIDE DEF Values1, Ids1
<1>4. SUFFICES /\ IsObject(y) /\ y.valueList = Values1(F) /\ y.ids = Ids1(F) /\ y.ids \subseteq DOMAIN y.delays
               /\ \A i \in y.ids : \E q \in F : /\ Delayed(q) /\ q.delaytime[1] = i
                                                /\ y.delays[i].value = Number(q)
  BY <1>4, Zenon DEF Collects, Values1, Ids1
<1>5. CASE p.delaytime = <<>>
  <2>1. y = AddActionValue(kind, x, 0, p.value) /\ ~ Delayed(p)
    BY <1>5 DEF TakeEntry, Delayed
  <2> HIDE DEF y, kind
  <2>2. CASE Dropped(a, p)
    <3>1. y = x
      BY <1>3, <2>1, <2>2, ValueAdded DEF Dropped, kind
    <3> QED BY <1>1, <1>2, <1>3, <2>1, <2>2, <3>1
  <2>3. CASE ~ Dropped(a, p)
    <3>1. /\ IsObject(y) /\ y.ids = x.ids /\ y.delays = x.delays
          /\ y.valueList = x.valueList \cup {Number(p)}
      <4>1. ~ (p.value = Malformed /\ kind.drops)
        BY <2>3 DEF Dropped, kind
      <4> QED BY <1>3, <2>1, <4>1, ValueAdded DEF Number
    <3>2. y.valueList = Values1(F) /\ y.ids = Ids1(F) /\ y.ids \subseteq DOMAIN y.delays
      BY <1>1, <1>2, <1>3, <1>5, <2>1, <2>3, <3>1
    <3>3. \A i \in y.ids : \E q \in F : /\ Delayed(q) /\ q.delaytime[1] = i
                                         /\ y.delays[i].value = Number(q)
      <4> HIDE DEF F
      <4>1. E \subseteq F
        BY DEF F
      <4> SUFFICES ASSUME NEW i \in y.ids
                   PROVE  \E q \in F : /\ Delayed(q) /\ q.delaytime[1] = i
                                       /\ y.delays[i].value = Number(q)
        OBVIOUS
      <4>2. PICK q \in E : Delayed(q) /\ q.delaytime[1] = i /\ x.delays[i].value = Number(q)
        BY <1>3, <3>1
      <4>3. q \in F /\ y.delays[i].value = Number(q)
        BY <3>1, <4>1, <4>2
      <4> QED BY <4>2, <4>3
    <3> QED BY <3>1, <3>2, <3>3
  <2> QED BY <2>2, <2>3
<1>6. CASE p.delaytime # <<>> /\ Len(p.delaytime) # 2
  <2>1. y = x /\ ~ Delayed(p)
    BY <1>6 DEF TakeEntry, Delayed
  <2> HIDE DEF y
  <2> QED BY <1>1, <1>2, <1>3, <1>6, <2>1
<1>7. CASE Delayed(p)
  <2> DEFINE id == p.delaytime[1]
             z == AddActionDelayTime(x, id, uninit)
  <2>1. y = AddActionValue(kind, z, id, p.value) /\ p.delaytime # <<>>
    BY <1>7, Zenon DEF TakeEntry, Delayed
  <2>2. id # 0
    <3>1. id > 0
      BY <2>1, PolicyAssumption
    <3> QED BY <3>1
  <2>3. ~ (p.value = Malformed /\ kind.drops)
    BY <2>1 DEF DelaysAreNumbers
  <2>4. /\ IsObject(z) /\ z.valueList = x.valueList /\ z.ids = x.ids \cup {id}
        /\ DOMAIN z.delays = DOMAIN x.delays \cup {id}
        /\ \A i \in DOMAIN x.delays : z.delays[i] = x.delays[i]
    BY <1>3, DelayAdded
  <2> HIDE DEF y, z, kind, id
  <2>5. /\ IsObject(y) /\ y.ids = z.ids /\ DOMAIN y.delays = DOMAIN z.delays
        /\ y.valueList = z.valueList
        /\ \A i \in DOMAIN z.delays : y.delays[i].value = IF i = id THEN Number(p) ELSE z.delays[i].value
    BY <2>1, <2>2, <2>3, <2>4, ValueAdded DEF Number
  <2>6. y.valueList = Values1(F) /\ y.ids = Ids1(F) /\ y.ids \subseteq DOMAIN y.delays
    BY <1>1, <1>2, <1>3, <1>7, <2>1, <2>4, <2>5 DEF id
  <2>7. ASSUME NEW i \in y.ids
        PROVE  \E q \in F : Delayed(q) /\ q.delaytime[1] = i /\ y.delays[i].value = Number(q)
    <3>1. CASE i = id
      BY <1>7, <2>4, <2>5, <3>1 DEF id
    <3>2. CASE i # id
      <4>1. i \in x.ids /\ i \in DOMAIN x.delays /\ y.delays[i].value = x.delays[i].value
        BY <1>3, <2>4, <2>5, <3>2
      <4> QED BY <1>3, <4>1
    <3> QED BY <3>1, <3>2
  <2> QED BY <2>5, <2>6, <2>7
<1> QED BY <1>5, <1>6, <1>7 DEF Delayed

\* The entry a decision takes of a cluster's list is a policy entry for the
\* action, and the only one it takes.
LEMMA EntryTaken ==
  ASSUME NEW c \in DOMAIN Clusters, NEW level \in Nat, NEW a, NEW x, NEW uninit
  PROVE  LET list == LevelActions(c, level) IN
         \/ LastAsked(a, list, states) = {} /\ ActionDecision(a, x, list, uninit) = x
         \/ \E p \in PolicyActions : /\ p.name = a /\ LastAsked(a, list, states) = {p}
                                     /\ ActionDecision(a, x, list, uninit) = TakeEntry(a, x, p, uninit)
<1> DEFINE list == LevelActions(c, level)
           A == Applying(a, list, states)
<1>1. A = {i \in DOMAIN list : list[i].name = a /\ StateMachineDecision(list[i].props)}
  BY Zenon DEF Applying, HoldsIn, StateMachineDecision
<1>2. ActionDecision(a, x, list, uninit) = IF A = {} THEN x ELSE TakeEntry(a, x, list[Max(A)], uninit)
  <2> HIDE DEF list, A
  <2> QED BY <1>1, Zenon DEF ActionDecision, TakeEntry
<1>3. CASE A = {}
  BY <1>2, <1>3 DEF LastAsked
<1>4. CASE A # {}
  <2>1. c \in DOMAIN Policies /\ ReachedBy(Policies[c], level) # {}
    <3>1. list # <<>>
      BY <1>4 DEF Applying
    <3>2. c \in DOMAIN Policies
      <4>1. ASSUME c \notin DOMAIN Policies PROVE FALSE
        <5>1. ClusterPolicyMap[c] = <<>>
          BY <4>1 DEF ClusterPolicyMap
        <5>2. list = <<>>
          BY <5>1 DEF LevelActions, SelectLastInSeq
        <5> QED BY <3>1, <5>2
      <4> QED BY <4>1
    <3> QED BY <3>1, <3>2, LevelChosen
  <2>2. PICK i \in ReachedBy(Policies[c], level) : list = Policies[c][i].actions
    BY <2>1, LevelChosen
  <2> DEFINE config == Policies[c][i]
  <2>3. config \in Range(Policies[c])
    BY DEF ReachedBy, Range
  <2>4. list \in Seq(Range(list))
    BY <2>1, <2>2, <2>3, PolicyAssumption
  <2> DEFINE n == Len(list)
  <2>5. n \in Nat /\ A \in SUBSET (0 .. n)
    BY <2>4 DEF Applying
  <2> HIDE DEF list, A, config, n
  <2>6. Max(A) \in A
    BY <1>4, <2>5, MaxIs
  <2> DEFINE p == list[Max(A)]
  <2>7. Max(A) \in DOMAIN list /\ p.name = a
    BY <2>6 DEF Applying, A
  <2>8. p \in Range(config.actions)
    BY <2>2, <2>7 DEF Range, list, config
  <2>9. config \in UNION {Range(Policies[d]) : d \in DOMAIN Policies}
    BY <2>1, <2>3
  <2>10. p \in PolicyActions
    BY <2>8, <2>9, Zenon DEF PolicyActions
  <2>11. LastAsked(a, list, states) = {p}
    BY <1>4, Zenon DEF LastAsked, A
  <2> QED BY <1>2, <1>4, <2>7, <2>10, <2>11 DEF list, A
<1> QED BY <1>3, <1>4

\* What the first n clusters ask of action a in a decision.
Taken(a, c) == LastAsked(a, LevelActions(c, clusterLevelMap'[c]), states)
TakenUpTo(a, n) == UNION {Taken(a, ClusterOrder[m]) : m \in 1 .. n}

LevelsKnown == \A c \in DOMAIN Clusters : clusterLevelMap[c] \in Nat

(* A decision collects for an action what the clusters ask, and no more.   *)
LEMMA DecisionCollects ==
  ASSUME DelaysAreNumbers, LevelsKnown', NEW a \in ActionNames, NEW uninit \in UninitialisedDelay,
         IsObject(act[a]), act[a].valueList = {}, act[a].ids = {}
  PROVE  Collects(a, Collected(a, uninit), TakenUpTo(a, Len(ClusterOrder)))
<1> DEFINE N == Len(ClusterOrder)
           list(n) == LevelActions(ClusterOrder[n], clusterLevelMap'[ClusterOrder[n]])
<1>1. N \in Nat /\ \A n \in 1 .. N : ClusterOrder[n] \in DOMAIN Clusters
  BY PolicyAssumption
<1>2. PICK upTo : /\ upTo[0] = act[a]
                  /\ \A n \in 1 .. N : upTo[n] = ActionDecision(a, upTo[n - 1], list(n), uninit)
                  /\ Collected(a, uninit) = upTo[N]
  BY CollectedSteps
<1> HIDE DEF N
<1> DEFINE S == {n \in 0 .. N : Collects(a, upTo[n], TakenUpTo(a, n))}
<1>3. 0 \in S
  <2>1. TakenUpTo(a, 0) = {}
    BY DEF TakenUpTo
  <2>2. Collects(a, act[a], {})
    BY DEF Collects
  <2> QED BY <1>1, <1>2, <2>1, <2>2
<1>4. ASSUME NEW m \in 0 .. N, m # N, m \in S PROVE m + 1 \in S
  <2> DEFINE n == m + 1
  <2>1. n \in 1 .. N /\ n - 1 = m
    BY <1>1, <1>4
  <2>2. TakenUpTo(a, n) = TakenUpTo(a, m) \cup Taken(a, ClusterOrder[n])
    <3>1. 1 .. n = (1 .. m) \cup {n}
      BY <2>1
    <3> HIDE DEF n
    <3> QED BY <3>1 DEF TakenUpTo
  <2> HIDE DEF n
  <2>3. upTo[n] = ActionDecision(a, upTo[m], list(n), uninit) /\ Collects(a, upTo[m], TakenUpTo(a, m))
    BY <1>2, <1>4, <2>1
  <2>4. ClusterOrder[n] \in DOMAIN Clusters /\ clusterLevelMap'[ClusterOrder[n]] \in Nat
    BY <1>1, <2>1 DEF LevelsKnown
  <2>5. \/ Taken(a, ClusterOrder[n]) = {} /\ upTo[n] = upTo[m]
        \/ \E p \in PolicyActions : /\ p.name = a /\ Taken(a, ClusterOrder[n]) = {p}
                                    /\ upTo[n] = TakeEntry(a, upTo[m], p, uninit)
    BY <2>3, <2>4, EntryTaken DEF Taken
  <2>6. Collects(a, upTo[n], TakenUpTo(a, n))
    <3>1. CASE Taken(a, ClusterOrder[n]) = {} /\ upTo[n] = upTo[m]
      BY <2>2, <2>3, <3>1
    <3>2. CASE \E p \in PolicyActions : /\ p.name = a /\ Taken(a, ClusterOrder[n]) = {p}
                                        /\ upTo[n] = TakeEntry(a, upTo[m], p, uninit)
      <4>1. PICK p \in PolicyActions : /\ p.name = a /\ Taken(a, ClusterOrder[n]) = {p}
                                       /\ upTo[n] = TakeEntry(a, upTo[m], p, uninit)
        BY <3>2
      <4>2. Collects(a, TakeEntry(a, upTo[m], p, uninit), TakenUpTo(a, m) \cup {p})
        BY <2>3, <4>1, EntryCollected
      <4> QED BY <2>2, <4>1, <4>2
    <3> QED BY <2>5, <3>1, <3>2
  <2>7. n \in 0 .. N
    BY <2>1
  <2> QED BY <2>6, <2>7 DEF n
<1>5. N \in S
  <2>1. S \subseteq 0 .. N
    OBVIOUS
  <2> HIDE DEF S
  <2> QED BY <1>1, <1>3, <1>4, <2>1, NoSmallest
<1> QED BY <1>2, <1>5 DEF N

-----------------------------------------------------------------------------
(* The values of an object.                                                *)

Valued(x) == /\ x.valueList \subseteq Values
             /\ \A i \in DOMAIN x.delays : x.delays[i].value \in Values

\* An entry hands over a value of the policies.
LEMMA EntryValued ==
  ASSUME NEW a, NEW x, IsObject(x), Valued(x),
         NEW p \in PolicyActions, NEW uninit \in UninitialisedDelay
  PROVE  /\ IsObject(TakeEntry(a, x, p, uninit)) /\ Valued(TakeEntry(a, x, p, uninit))
<1> DEFINE kind == Actions[a].kind
           number == IF p.value = Malformed THEN 0 ELSE p.value
<1>1. number \in Values /\ uninit.value \in Values
  BY PolicyAssumption DEF UninitialisedDelay
<1>2. ASSUME NEW z, IsObject(z), Valued(z), NEW id
      PROVE  IsObject(AddActionValue(kind, z, id, p.value)) /\ Valued(AddActionValue(kind, z, id, p.value))
  <2> DEFINE y == AddActionValue(kind, z, id, p.value)
  <2>1. \/ y = z
        \/ /\ IsObject(y) /\ DOMAIN y.delays = DOMAIN z.delays
           /\ \/ y.valueList = z.valueList \cup {number} /\ y.delays = z.delays
              \/ /\ y.valueList = z.valueList
                 /\ \A i \in DOMAIN z.delays :
                      y.delays[i].value = IF i = id THEN number ELSE z.delays[i].value
    BY <1>2, ValueAdded
  <2> HIDE DEF y, number
  <2> QED BY <1>1, <1>2, <2>1 DEF Valued, y
<1>3. ASSUME NEW id
      PROVE  /\ IsObject(AddActionDelayTime(x, id, uninit))
             /\ Valued(AddActionDelayTime(x, id, uninit))
  <2> DEFINE y == AddActionDelayTime(x, id, uninit)
  <2>1. /\ IsObject(y) /\ y.valueList = x.valueList
        /\ DOMAIN y.delays = DOMAIN x.delays \cup {id}
        /\ \A i \in DOMAIN x.delays : y.delays[i] = x.delays[i]
        /\ id \notin DOMAIN x.delays => y.delays[id] = uninit
    BY DelayAdded
  <2> HIDE DEF y
  <2> QED BY <1>1, <2>1 DEF Valued, y
<1> QED BY <1>2, <1>3 DEF TakeEntry

\* So a decision collects values of the policies only.
LEMMA DecisionValued ==
  ASSUME LevelsKnown', NEW a \in ActionNames, NEW uninit \in UninitialisedDelay,
         IsObject(act[a]), Valued(act[a])
  PROVE  Valued(Collected(a, uninit))
<1> DEFINE N == Len(ClusterOrder)
           list(n) == LevelActions(ClusterOrder[n], clusterLevelMap'[ClusterOrder[n]])
<1>1. N \in Nat /\ \A n \in 1 .. N : ClusterOrder[n] \in DOMAIN Clusters
  BY PolicyAssumption
<1>2. PICK upTo : /\ upTo[0] = act[a]
                  /\ \A n \in 1 .. N : upTo[n] = ActionDecision(a, upTo[n - 1], list(n), uninit)
                  /\ Collected(a, uninit) = upTo[N]
  BY CollectedSteps
<1> HIDE DEF N
<1> DEFINE S == {n \in 0 .. N : IsObject(upTo[n]) /\ Valued(upTo[n])}
<1>3. 0 \in S
  BY <1>1, <1>2
<1>4. ASSUME NEW m \in 0 .. N, m # N, m \in S PROVE m + 1 \in S
  <2> DEFINE n == m + 1
  <2>1. n \in 1 .. N /\ n - 1 = m
    BY <1>1, <1>4
  <2> HIDE DEF n
  <2>2. upTo[n] = ActionDecision(a, upTo[m], list(n), uninit) /\ IsObject(upTo[m]) /\ Valued(upTo[m])
    BY <1>2, <1>4, <2>1
  <2>3. ClusterOrder[n] \in DOMAIN Clusters /\ clusterLevelMap'[ClusterOrder[n]] \in Nat
    BY <1>1, <2>1 DEF LevelsKnown
  <2>4. upTo[n] = upTo[m] \/ \E p \in PolicyActions : upTo[n] = TakeEntry(a, upTo[m], p, uninit)
    BY <2>2, <2>3, EntryTaken
  <2>5. IsObject(upTo[n]) /\ Valued(upTo[n])
    BY <2>2, <2>4, EntryValued
  <2>6. n \in 0 .. N
    BY <2>1
  <2> QED BY <2>5, <2>6 DEF n
<1>5. N \in S
  <2>1. S \subseteq 0 .. N
    OBVIOUS
  <2> HIDE DEF S
  <2> QED BY <1>1, <1>3, <1>4, <2>1, NoSmallest
<1> QED BY <1>2, <1>5

\* The values of the delays of d that are over.
OverValues(d) == {d[i].value : i \in {j \in DOMAIN d : d[j].isCompleted}}

\* Executing an action keeps the delays just asked for, and settles on one of
\* the values collected and the values of the delays that are over.
LEMMA ExecuteValues ==
  ASSUME NEW kind, NEW strict, NEW x, NEW timerFails, IsObject(x)
  PROVE  LET y == Execute(kind, strict, x, timerFails) IN
         /\ DOMAIN y.delays = DOMAIN x.delays \cap x.ids
         /\ \A i \in DOMAIN y.delays : /\ y.delays[i].value = x.delays[i].value
                                       /\ y.delays[i].isCompleted = x.delays[i].isCompleted
         /\ y.lastValue = GetActionValue(kind, strict, x.valueList \cup OverValues(y.delays))
<1> DEFINE kept == [i \in DOMAIN x.delays \cap x.ids |-> x.delays[i]]
           d == StartTimers(kept, timerFails)
           z == [x EXCEPT !.delays = d, !.ids = {}]
           v == GetActionValue(kind, strict, z.valueList \cup
                  {z.delays[i].value : i \in {j \in DOMAIN z.delays : z.delays[j].isCompleted}})
           y == Execute(kind, strict, x, timerFails)
<1>1. /\ DOMAIN d = DOMAIN x.delays \cap x.ids
      /\ \A i \in DOMAIN d : d[i] \in {x.delays[i], [x.delays[i] EXCEPT !.timer = "armed"]}
  BY DEF StartTimers
<1>2. ASSUME NEW i \in DOMAIN d
      PROVE  d[i].value = x.delays[i].value /\ d[i].isCompleted = x.delays[i].isCompleted
  <2>1. IsDelay(x.delays[i])
    BY <1>1 DEF IsObject
  <2> DEFINE e == [x.delays[i] EXCEPT !.timer = "armed"]
  <2>2. e.value = x.delays[i].value /\ e.isCompleted = x.delays[i].isCompleted
    BY <2>1 DEF IsDelay
  <2>3. d[i] = x.delays[i] \/ d[i] = e
    BY <1>1
  <2> HIDE DEF d, e
  <2> QED BY <2>2, <2>3
<1> HIDE DEF d
<1>3. z = [valueList |-> x.valueList, lastValue |-> x.lastValue, delays |-> d, ids |-> {}]
  <2>1. z = [x EXCEPT !.delays = d, !.ids = {}]
    OBVIOUS
  <2> HIDE DEF z
  <2> QED BY <2>1 DEF IsObject
<1>4. y = [z EXCEPT !.lastValue = v, !.valueList = {}]
  BY Zenon DEF Execute, ExecuteInner, d
<1>5. z.valueList = x.valueList /\ z.delays = d
  BY <1>3
<1>6. v = GetActionValue(kind, strict, x.valueList \cup OverValues(d))
  <2> HIDE DEF z
  <2> QED BY <1>5, Zenon DEF OverValues
<1> HIDE DEF z, y, v
<1>7. y = [valueList |-> {}, lastValue |-> v, delays |-> d, ids |-> {}]
  BY <1>3, <1>4
<1>8. y.delays = d /\ y.lastValue = v
  BY <1>7
<1> QED BY <1>1, <1>2, <1>6, <1>8 DEF y

\* The timer callback leaves the values of the delays alone and settles on one
\* of them.
LEMMA TimerValues ==
  ASSUME NEW kind, NEW strict, NEW x, NEW id \in DOMAIN x.delays, IsObject(x)
  PROVE  LET y == TimerCallback(kind, strict, x, id) IN
         /\ DOMAIN y.delays = DOMAIN x.delays
         /\ \A i \in DOMAIN x.delays : y.delays[i].value = x.delays[i].value
         /\ \E T : /\ T \subseteq x.valueList \cup {x.delays[i].value : i \in DOMAIN x.delays}
                   /\ y.lastValue = GetActionValue(kind, strict, T)
<1> DEFINE done == [x.delays[id] EXCEPT !.isCompleted = TRUE]
           d == [x.delays EXCEPT ![id] = done]
           z == [x EXCEPT !.delays[id].isCompleted = TRUE]
           T == z.valueList \cup {z.delays[i].value : i \in {j \in DOMAIN z.delays : z.delays[j].isCompleted}}
           v == GetActionValue(kind, strict, T)
           spent == [done EXCEPT !.timer = "spent"]
           e == [d EXCEPT ![id] = spent]
           w == ExecuteInner(kind, strict, z)
           y == TimerCallback(kind, strict, x, id)
<1>1. done.value = x.delays[id].value /\ spent.value = x.delays[id].value
  <2>1. IsDelay(x.delays[id])
    BY DEF IsObject
  <2> QED BY <2>1, DelayCompleted, Zenon
<1>2. z = [valueList |-> x.valueList, lastValue |-> x.lastValue, delays |-> d, ids |-> x.ids]
  <2>1. z = [x EXCEPT !.delays[id].isCompleted = TRUE]
    OBVIOUS
  <2> HIDE DEF z
  <2> QED BY <2>1 DEF IsObject
<1>3. /\ DOMAIN d = DOMAIN x.delays /\ d[id] = done
      /\ \A i \in DOMAIN x.delays : i # id => d[i] = x.delays[i]
  BY DEF IsObject
<1>4. w = [z EXCEPT !.lastValue = v, !.valueList = {}]
  BY Zenon DEF ExecuteInner
<1>5. z.valueList = x.valueList /\ z.delays = d
  BY <1>2
<1> HIDE DEF z, d, w, done, v, spent
<1>6. w = [valueList |-> {}, lastValue |-> v, delays |-> d, ids |-> x.ids]
  BY <1>2, <1>4
<1>7. y = [w EXCEPT !.delays[id].timer = "spent"]
  BY DEF TimerCallback, w, z
<1>8. y = [valueList |-> {}, lastValue |-> v, delays |-> e, ids |-> x.ids]
  BY <1>3, <1>6, <1>7 DEF spent
<1>9. y.delays = e /\ y.lastValue = v
  <2> HIDE DEF e, y
  <2> QED BY <1>8
<1>10. /\ DOMAIN e = DOMAIN x.delays /\ e[id] = spent
       /\ \A i \in DOMAIN x.delays : i # id => e[i] = x.delays[i]
  BY <1>3
<1> HIDE DEF e, y
<1>11. \A i \in DOMAIN x.delays : y.delays[i].value = x.delays[i].value /\ d[i].value = x.delays[i].value
  BY <1>1, <1>3, <1>9, <1>10
<1>12. T \subseteq x.valueList \cup {x.delays[i].value : i \in DOMAIN x.delays}
  BY <1>3, <1>5, <1>11
<1>13. y.lastValue = GetActionValue(kind, strict, T)
  BY <1>9 DEF v
<1> HIDE DEF T
<1> QED BY <1>9, <1>10, <1>11, <1>12, <1>13 DEF y

-----------------------------------------------------------------------------
(* Levels.                                                                 *)

\* A search ends at a level of the cluster.
LEMMA SearchRange ==
  ASSUME NEW n \in Nat, NEW level \in 0 .. n, NEW Ok
  PROVE  SearchUp(level, n, Ok) \in 0 .. n /\ SearchDown(level, Ok) \in 0 .. n
<1> DEFINE U == {i \in level .. n : i = n \/ i + 1 \notin Ok}
           D == {i \in 0 .. level : i = 0 \/ i \in Ok}
<1>1. U \in SUBSET Nat /\ U # {} /\ U \subseteq 0 .. n
  <2>1. n \in U
    OBVIOUS
  <2>2. U \subseteq 0 .. n
    OBVIOUS
  <2> QED BY <2>1, <2>2
<1>2. D \in SUBSET (0 .. level) /\ D # {} /\ D \subseteq 0 .. n
  <2>1. 0 \in D
    OBVIOUS
  <2> QED BY <2>1
<1>3. SearchUp(level, n, Ok) = Min(U) /\ SearchDown(level, Ok) = Max(D)
  BY DEF SearchUp, SearchDown
<1> HIDE DEF U, D
<1>4. Min(U) \in U /\ Max(D) \in D
  BY <1>1, <1>2, MinIs, MaxIs
<1> QED BY <1>1, <1>2, <1>3, <1>4

\* So does the judgment of a sensor.
LEMMA JudgmentRange ==
  ASSUME NEW c, NEW t, NEW rates, NEW s, LevelCount(c) \in Nat, NEW level \in 0 .. LevelCount(c)
  PROVE  /\ AscJudgment(c, t, rates, s, level) \in 0 .. LevelCount(c)
         /\ DescJudgment(c, t, rates, s, level) \in 0 .. LevelCount(c)
<1> DEFINE n == LevelCount(c)
<1>1. /\ AscJudgment(c, t, rates, s, level) \in
           {level, SearchUp(level, n, AscEnter(c, t, rates, s)), SearchDown(level, AscKeep(c, t, rates, s))}
      /\ DescJudgment(c, t, rates, s, level) \in
           {level, SearchUp(level, n, DescEnter(c, t, rates, s)), SearchDown(level, DescKeep(c, t, rates, s))}
  BY Zenon DEF AscJudgment, AscendLevelToThreshold, DescendLevelToThresholdClr,
               DescendLevelToThreshold, AscendLevelToThresholdClr,
               DescJudgment, LevelUpwardsSearch, LevelDownwardsSearch,
               LevelDownwardsSearchWithThreshold, LevelUpwardsSearchWithThreshold
<1> HIDE DEF n
<1>2. n \in Nat /\ level \in 0 .. n
  BY DEF n
<1> QED BY <1>1, <1>2, SearchRange DEF n

\* And so does the report as a whole.
LEMMA UpdateRange ==
  ASSUME NEW c, NEW t, NEW rates, NEW ok, LevelCount(c) \in Nat, NEW level \in 0 .. LevelCount(c)
  PROVE  UpdateThermalLevel(c, t, rates, ok, level) \in 0 .. LevelCount(c)
<1> DEFINE J == CalculateSensorLevel(c, t, rates, level)
<1>1. J \in SUBSET (0 .. LevelCount(c))
  <2> SUFFICES ASSUME NEW j \in J PROVE j \in 0 .. LevelCount(c)
    OBVIOUS
  <2>1. \E s : j \in {DescJudgment(c, t, rates, s, level), AscJudgment(c, t, rates, s, level)}
    BY DEF CalculateSensorLevel
  <2> QED BY <2>1, JudgmentRange
<1> HIDE DEF J
<1>2. UpdateThermalLevel(c, t, rates, ok, level) = IF ~ ok THEN 0 ELSE IF J = {} THEN level ELSE Max(J)
  BY DEF UpdateThermalLevel, J
<1>3. J # {} => Max(J) \in J
  BY <1>1, MaxIs
<1>4. 0 \in 0 .. LevelCount(c)
  OBVIOUS
<1> QED BY <1>1, <1>2, <1>3, <1>4, Zenon

LevelsInRange == \A c \in DOMAIN Clusters : clusterLevelMap[c] \in 0 .. LevelCount(Clusters[c])

\* A decision about the levels keeps them within the levels configured.
LEMMA LevelsDecided ==
  ASSUME LevelsInRange, NEW t, LevelDecision(t)
  PROVE  LevelsInRange' /\ LevelsKnown'
<1>1. ASSUME NEW c \in DOMAIN Clusters PROVE clusterLevelMap'[c] \in 0 .. LevelCount(Clusters[c])
  <2>1. clusterLevelMap'[c] = UpdateThermalLevel(Clusters[c], t, <<>>,
                                StateMachineDecision(StateDeps[c]), clusterLevelMap[c])
    BY DEF LevelDecision
  <2>2. LevelCount(Clusters[c]) \in Nat /\ clusterLevelMap[c] \in 0 .. LevelCount(Clusters[c])
    BY PolicyAssumption DEF LevelsInRange
  <2> QED BY <2>1, <2>2, UpdateRange
<1>2. \A c \in DOMAIN Clusters : LevelCount(Clusters[c]) \in Nat
  BY PolicyAssumption
<1> QED BY <1>1, <1>2 DEF LevelsInRange, LevelsKnown

-----------------------------------------------------------------------------
(* Values.                                                                 *)

\* The values of the policies have a bound.
LEMMA ValuesBounded == \E b \in Nat : Values \subseteq 0 .. b
<1>1. PICK s \in Seq(Values) : \A v \in Values : \E n \in 1 .. Len(s) : s[n] = v
  BY PolicyAssumption DEF IsFiniteSet
<1> DEFINE N == Len(s)
           S == {m \in 0 .. N : \E b \in Nat : \A n \in 1 .. m : s[n] <= b}
<1>2. N \in Nat /\ \A n \in 1 .. N : s[n] \in Nat
  <2>1. Values \subseteq Nat
    BY PolicyAssumption
  <2>2. N \in Nat /\ \A n \in 1 .. N : s[n] \in Values
    BY <1>1
  <2> QED BY <2>1, <2>2
<1> HIDE DEF N
<1>3. 0 \in S
  BY <1>2
<1>4. ASSUME NEW m \in 0 .. N, m # N, m \in S PROVE m + 1 \in S
  <2>1. PICK b \in Nat : \A n \in 1 .. m : s[n] <= b
    BY <1>4
  <2>2. m + 1 \in 1 .. N /\ s[m + 1] \in Nat
    BY <1>2, <1>4
  <2> DEFINE top == b + s[m + 1]
  <2>3. top \in Nat /\ b <= top /\ s[m + 1] <= top
    BY <2>2
  <2> HIDE DEF top
  <2>4. ASSUME NEW n \in 1 .. m + 1 PROVE s[n] <= top
    <3>1. CASE n = m + 1
      BY <2>3, <3>1
    <3>2. CASE n # m + 1
      <4>1. n \in 1 .. m /\ s[n] <= b /\ s[n] \in Nat
        BY <1>2, <1>4, <2>1, <3>2
      <4> QED BY <2>3, <4>1
    <3> QED BY <3>1, <3>2
  <2>5. m + 1 \in 0 .. N
    BY <2>2
  <2>6. \E e \in Nat : \A n \in 1 .. m + 1 : s[n] <= e
    BY <2>3, <2>4, Zenon
  <2> QED BY <2>5, <2>6
<1>5. N \in S
  <2>1. S \subseteq 0 .. N
    OBVIOUS
  <2> HIDE DEF S
  <2> QED BY <1>2, <1>3, <1>4, <2>1, NoSmallest
<1>6. PICK b \in Nat : \A n \in 1 .. N : s[n] <= b
  BY <1>5
<1>7. Values \subseteq 0 .. b
  <2> SUFFICES ASSUME NEW v \in Values PROVE v \in 0 .. b
    OBVIOUS
  <2>1. v \in Nat /\ v <= b
    BY <1>1, <1>6, PolicyAssumption DEF N
  <2> QED BY <2>1
<1> QED BY <1>7

\* Arbitration settles on the least or the greatest value, or falls back.
LEMMA Settled ==
  ASSUME NEW kind, NEW strict, NEW T \in SUBSET Values
  PROVE  LET v == GetActionValue(kind, strict, T) IN
         IF T = {} THEN v = kind.fallback
         ELSE v \in T /\ \A w \in T : IF strict THEN v <= w ELSE v >= w
<1>1. PICK b \in Nat : Values \subseteq 0 .. b
  BY ValuesBounded
<1>2. T \in SUBSET Nat /\ T \in SUBSET (0 .. b)
  BY <1>1
<1>3. CASE T = {}
  BY <1>3 DEF GetActionValue
<1>4. CASE T # {}
  <2>1. Min(T) \in T /\ \A w \in T : Min(T) <= w
    BY <1>2, <1>4, MinIs
  <2>2. Max(T) \in T /\ \A w \in T : w <= Max(T)
    BY <1>2, <1>4, MaxIs
  <2>3. \A w \in T : Max(T) >= w
    BY <1>2, <2>2
  <2> QED BY <1>4, <2>1, <2>2, <2>3 DEF GetActionValue
<1> QED BY <1>3, <1>4

-----------------------------------------------------------------------------
(* Decisions leave nothing over.                                           *)

\* A decision executes every action with what it collected for it.
LEMMA DecisionExecutes ==
  ASSUME PolicyDecision, NEW a \in ActionNames
  PROVE  \E uninit \in UninitialisedDelay, timerFails \in BOOLEAN :
           act'[a] = Execute(Actions[a].kind, Actions[a].strict, Collected(a, uninit), timerFails)
<1>1. PICK collected : collected \in Collections /\ \E newAct \in Executions(collected) : act' = newAct
  BY Zenon DEF PolicyDecision
<1>2. PICK uninit \in [DelayedActions -> Leftovers] :
        collected = [b \in ActionNames |->
                       Collected(b, IF b \in DelayedActions THEN uninit[b] ELSE Unread)]
  BY <1>1, Zenon DEF Collections
<1>3. PICK timerFails \in BOOLEAN :
        act' = [b \in ActionNames |->
                  Execute(Actions[b].kind, Actions[b].strict, collected[b], timerFails)]
  BY <1>1, Zenon DEF Executions
<1>4. Unread \in UninitialisedDelay
  <2>1. [isCompleted |-> FALSE, value |-> 0, timer |-> "none"] \in UninitialisedDelay
    BY Zenon DEF UninitialisedDelay
  <2> QED BY <2>1, Zenon DEF Unread
<1> DEFINE u == IF a \in DelayedActions THEN uninit[a] ELSE Unread
<1>5. u \in UninitialisedDelay
  BY <1>4, PolicyAssumption
<1>6. collected[a] = Collected(a, u)
  BY <1>2
<1>7. act'[a] = Execute(Actions[a].kind, Actions[a].strict, collected[a], timerFails)
  BY <1>3
<1> HIDE DEF u
<1> QED BY <1>5, <1>6, <1>7

ValuesKept == \A a \in ActionNames : Valued(act[a])

\* A decision leaves an action with a value of the policies or its fallback.
LEMMA DecisionValues ==
  ASSUME PolicyInv, ValuesKept, LevelsKnown', PolicyDecision, NEW a \in ActionNames
  PROVE  Valued(act'[a]) /\ act'[a].lastValue \in Values \cup {Actions[a].kind.fallback}
<1>1. IsObject(act[a]) /\ Valued(act[a])
  BY DEF PolicyInv, Objects, ValuesKept
<1>2. PICK uninit \in UninitialisedDelay, timerFails \in BOOLEAN :
        act'[a] = Execute(Actions[a].kind, Actions[a].strict, Collected(a, uninit), timerFails)
  BY DecisionExecutes
<1> DEFINE x == Collected(a, uninit)
           y == Execute(Actions[a].kind, Actions[a].strict, x, timerFails)
<1>3. Valued(x) /\ IsObject(x)
  BY <1>1, DecisionValued, CollectedGrown
<1> HIDE DEF x
<1>4. /\ y.valueList = {} /\ DOMAIN y.delays = DOMAIN x.delays \cap x.ids
      /\ \A i \in DOMAIN y.delays : y.delays[i].value = x.delays[i].value
      /\ y.lastValue = GetActionValue(Actions[a].kind, Actions[a].strict, x.valueList \cup OverValues(y.delays))
  BY <1>3, ExecuteResult, ExecuteValues
<1> HIDE DEF y
<1>5. Valued(y)
  BY <1>3, <1>4 DEF Valued
<1>6. x.valueList \cup OverValues(y.delays) \in SUBSET Values
  BY <1>3, <1>5 DEF Valued, OverValues
<1>7. y.lastValue \in Values \cup {Actions[a].kind.fallback}
  BY <1>4, <1>6, Settled
<1> QED BY <1>2, <1>5, <1>7 DEF y, x

\* So does a timer.
LEMMA FiringValues ==
  ASSUME PolicyInv, ValuesKept, NEW a \in ActionNames, NEW i \in DOMAIN act[a].delays,
         CallbackExecutes(a, i)
  PROVE  /\ Valued(act'[a]) /\ act'[a].lastValue \in Values \cup {Actions[a].kind.fallback}
         /\ \A b \in ActionNames : b # a => act'[b] = act[b]
<1> DEFINE x == act[a]
           y == TimerCallback(Actions[a].kind, Actions[a].strict, x, i)
<1>1. IsObject(x) /\ Valued(x)
  BY DEF PolicyInv, Objects, ValuesKept
<1>2. act' = [act EXCEPT ![a] = y] /\ act = [b \in ActionNames |-> act[b]]
  BY DEF CallbackExecutes, PolicyInv, Objects
<1>3. act'[a] = y /\ \A b \in ActionNames : b # a => act'[b] = act[b]
  <2> HIDE DEF y
  <2> QED BY <1>2
<1>4. PICK T : /\ T \subseteq x.valueList \cup {x.delays[j].value : j \in DOMAIN x.delays}
               /\ y.lastValue = GetActionValue(Actions[a].kind, Actions[a].strict, T)
  BY <1>1, TimerValues
<1>5. /\ y.valueList = {} /\ DOMAIN y.delays = DOMAIN x.delays
      /\ \A j \in DOMAIN x.delays : y.delays[j].value = x.delays[j].value
  BY <1>1, TimerResult, TimerValues
<1> HIDE DEF x, y
<1>6. Valued(y) /\ T \in SUBSET Values
  BY <1>1, <1>4, <1>5 DEF Valued
<1>7. y.lastValue \in Values \cup {Actions[a].kind.fallback}
  BY <1>4, <1>6, Settled
<1> QED BY <1>3, <1>6, <1>7

LastValues ==
  \A a \in ActionNames :
    act[a].lastValue \in Values \cup {Actions[a].kind.reset, Actions[a].kind.fallback}

StatesKept == DOMAIN states = DOMAIN States

TypeInv ==
  /\ PolicyInv /\ ValuesKept /\ LastValues /\ LevelsInRange /\ StatesKept
  /\ typeTempMap \in Reports \cup {<<>>} /\ soc \in {"up", "down", "unnotified"}

\* Values, levels and states keep their ranges.
LEMMA TypeInvariant == Spec => []TypeInv
<1>1. Init => TypeInv
  <2> SUFFICES ASSUME Init PROVE TypeInv
    OBVIOUS
  <2>1. ASSUME NEW a \in ActionNames PROVE Valued(act[a]) /\ act[a].lastValue = Actions[a].kind.reset
    <3>1. act[a] = [valueList |-> {}, lastValue |-> Actions[a].kind.reset, delays |-> <<>>, ids |-> {}]
      BY DEF Init, NewAction
    <3> DEFINE k == Actions[a].kind.reset
    <3> HIDE DEF k
    <3>2. act[a].valueList = {} /\ act[a].delays = <<>> /\ act[a].lastValue = k
      BY <3>1 DEF k
    <3> QED BY <3>2 DEF Valued, k
  <2>2. ValuesKept /\ LastValues
    BY <2>1, Zenon DEF ValuesKept, LastValues
  <2>3. LevelsInRange
    BY PolicyAssumption DEF Init, LevelsInRange
  <2>4. StatesKept /\ typeTempMap \in Reports \cup {<<>>} /\ soc \in {"up", "down", "unnotified"}
    BY DEF Init, StatesKept
  <2> QED BY <2>2, <2>3, <2>4, FirstObjects DEF TypeInv
<1>2. PolicyInv' /\ TypeInv /\ [Next]_vars => TypeInv'
  <2> SUFFICES ASSUME PolicyInv', TypeInv, [Next]_vars PROVE TypeInv'
    OBVIOUS
  <2>1. ASSUME NEW t, LevelDecision(t), PolicyDecision, states' = states, soc' = soc,
               typeTempMap' \in Reports \cup {<<>>}
        PROVE  TypeInv'
    <3>1. LevelsInRange' /\ LevelsKnown'
      BY <2>1, LevelsDecided DEF TypeInv
    <3>2. ValuesKept' /\ LastValues'
      BY <2>1, <3>1, DecisionValues DEF TypeInv, ValuesKept, LastValues
    <3> QED BY <2>1, <3>1, <3>2 DEF TypeInv, StatesKept
  <2>2. CASE \E t \in Reports : OnSensorInfoReported(t)
    BY <2>1, <2>2 DEF OnSensorInfoReported
  <2>3. CASE ExecutePolicy
    BY <2>1, <2>3 DEF ExecutePolicy, TypeInv
  <2>4. ASSUME NEW s \in DOMAIN States, NEW v \in States[s], StateChanged(s, v) PROVE TypeInv'
    BY <2>4 DEF StateChanged, TypeInv, ValuesKept, LastValues, LevelsInRange,
       StatesKept
  <2>5. ASSUME NEW a \in ActionNames, NEW i \in DOMAIN act[a].delays, CallbackExecutes(a, i)
        PROVE  TypeInv'
    <3>1. ValuesKept' /\ LastValues'
      BY <2>5, FiringValues, Zenon DEF TypeInv, ValuesKept, LastValues
    <3>2. UNCHANGED <<typeTempMap, clusterLevelMap, states, soc>>
      BY <2>5 DEF CallbackExecutes
    <3> QED BY <3>1, <3>2 DEF TypeInv, LevelsInRange, StatesKept
  <2>6. CASE OnAddSystemAbility
    <3>1. ASSUME NEW a \in ActionNames
          PROVE  /\ Valued(act'[a])
                 /\ act'[a].lastValue \in {act[a].lastValue, Actions[a].kind.reset}
      <4>1. act'[a] \in {act[a], ResetActionValue(Actions[a].kind, act[a])}
        BY <2>6 DEF OnAddSystemAbility
      <4>2. IsObject(act[a]) /\ Valued(act[a])
        BY DEF TypeInv, PolicyInv, Objects, ValuesKept
      <4> QED BY <4>1, <4>2, ResetResult DEF Valued
    <3>2. ValuesKept' /\ LastValues'
      BY <3>1 DEF TypeInv, ValuesKept, LastValues
    <3>3. UNCHANGED <<typeTempMap, clusterLevelMap, states>> /\ soc' = "up"
      BY <2>6 DEF OnAddSystemAbility
    <3> QED BY <3>2, <3>3 DEF TypeInv, LevelsInRange, StatesKept
  <2>7. CASE SocDies
    BY <2>7 DEF SocDies, TypeInv, ValuesKept, LastValues, LevelsInRange, StatesKept
  <2>8. CASE SocStarts
    BY <2>8 DEF SocStarts, TypeInv, ValuesKept, LastValues, LevelsInRange,
       StatesKept
  <2>9. CASE UNCHANGED vars
    BY <2>9 DEF vars, TypeInv, ValuesKept, LastValues, LevelsInRange, StatesKept
  <2>10. CASE UNCHANGED <<typeTempMap, clusterLevelMap, states, act, soc>>
    BY <2>10 DEF TypeInv, ValuesKept, LastValues, LevelsInRange, StatesKept
  <2> QED BY <2>2, <2>3, <2>4, <2>5, <2>6, <2>7, <2>8, <2>9, <2>10
          DEF Next, TimerFires, CallbackEnds, UsesErasedDelay
<1> QED BY <1>1, <1>2, PolicyInvariant, PTL DEF Spec

(* Between decisions every action is idle: no value is left over for the   *)
(* next decision, no delay id stays registered, and the value in force is  *)
(* one the policies name, or the action's own.                             *)
THEOREM ActionsAreIdle == Spec => []TypeOK
<1>1. TypeInv => TypeOK
  <2> SUFFICES ASSUME TypeInv PROVE TypeOK
    OBVIOUS
  <2>1. \A a \in ActionNames :
          /\ act[a].valueList = {} /\ act[a].ids = {}
          /\ \A i \in DOMAIN act[a].delays : act[a].delays[i].timer \in {"none", "junk", "armed", "spent"}
    BY DEF TypeInv, PolicyInv, Objects, IsObject, IsDelay
  <2> QED BY <2>1 DEF TypeOK, TypeInv, LastValues, LevelsInRange
<1> QED BY <1>1, TypeInvariant, PTL

-----------------------------------------------------------------------------
(* Arbitration.                                                            *)

\* Two clusters do not hand the same delay of an action different values: the
\* later value would take the place of the earlier one.
EntriesOf(c) == UNION {Range(config.actions) : config \in Range(Policies[c])}
DelaysApart ==
  \A c, d \in DOMAIN Policies : c # d =>
    \A p \in EntriesOf(c), q \in EntriesOf(d) :
      Delayed(p) /\ Delayed(q) /\ p.name = q.name /\ p.delaytime[1] = q.delaytime[1] =>
        Number(p) = Number(q)

\* What clusters ask of an action is one entry of their policy, if any.
LEMMA TakenIsEntry ==
  ASSUME LevelsDiffer, LevelsKnown', NEW a, NEW c \in DOMAIN Clusters
  PROVE  /\ c \notin DOMAIN Policies => Taken(a, c) = {}
         /\ c \in DOMAIN Policies =>
              Taken(a, c) = UNION {AskedAt(config, a, states) : config \in InForceAt(c, clusterLevelMap'[c])}
         /\ \A p \in Taken(a, c) : /\ p \in PolicyActions /\ p.name = a
                                   /\ p \in EntriesOf(c) /\ Taken(a, c) = {p}
<1> DEFINE level == clusterLevelMap'[c]
<1>1. level \in Nat
  BY DEF LevelsKnown
<1>2. Taken(a, c) = LastAsked(a, LevelActions(c, level), states)
  BY DEF Taken
<1> HIDE DEF level
<1>3. c \notin DOMAIN Policies => Taken(a, c) = {}
  <2>1. ASSUME c \notin DOMAIN Policies PROVE LevelActions(c, level) = <<>>
    <3>1. ClusterPolicyMap[c] = <<>>
      BY <2>1 DEF ClusterPolicyMap
    <3> QED BY <3>1 DEF LevelActions, SelectLastInSeq
  <2>2. Applying(a, <<>>, states) = {}
    BY DEF Applying
  <2> QED BY <1>2, <2>1, <2>2 DEF LastAsked
<1>4. c \in DOMAIN Policies =>
        Taken(a, c) = UNION {AskedAt(config, a, states) : config \in InForceAt(c, level)}
  BY <1>1, <1>2, InForceIsChosen
<1>5. ASSUME NEW p \in Taken(a, c)
      PROVE  p \in PolicyActions /\ p.name = a /\ Taken(a, c) = {p}
  <2> DEFINE list == LevelActions(c, level)
  <2>1. \/ LastAsked(a, list, states) = {} /\ ActionDecision(a, act[a], list, 0) = act[a]
        \/ \E q \in PolicyActions :
             /\ q.name = a /\ LastAsked(a, list, states) = {q}
             /\ ActionDecision(a, act[a], list, 0) = TakeEntry(a, act[a], q, 0)
    BY <1>1, EntryTaken
  <2> QED BY <1>2, <1>5, <2>1
<1>6. ASSUME NEW p \in Taken(a, c) PROVE p \in EntriesOf(c)
  <2>1. c \in DOMAIN Policies
    BY <1>3, <1>6
  <2>2. PICK config \in InForceAt(c, level) : p \in AskedAt(config, a, states)
    BY <1>4, <1>6, <2>1
  <2>3. config \in Range(Policies[c])
    BY <2>1 DEF InForceAt, Configs
  <2>4. p \in Range(config.actions)
    BY <2>2 DEF AskedAt, Applying, Range
  <2> QED BY <2>3, <2>4 DEF EntriesOf
<1> QED BY <1>3, <1>4, <1>5, <1>6 DEF level

\* All clusters together ask what the entries in force ask.
LEMMA TakenTogether ==
  ASSUME LevelsDiffer, LevelsKnown', states' = states, NEW a
  PROVE  TakenUpTo(a, Len(ClusterOrder))
           = UNION {UNION {Asked(config, a)' : config \in ConfigsInForce(c)'} : c \in DOMAIN Policies}
<1> DEFINE N == Len(ClusterOrder)
<1>1. /\ N \in Nat /\ DOMAIN ClusterOrder = 1 .. N
      /\ DOMAIN Policies \subseteq DOMAIN Clusters
      /\ {ClusterOrder[n] : n \in 1 .. N} = DOMAIN Clusters
  <2>1. ClusterOrder \in Seq(DOMAIN Clusters)
    BY PolicyAssumption
  <2>2. N \in Nat /\ DOMAIN ClusterOrder = 1 .. N
    BY <2>1
  <2>3. Range(ClusterOrder) = {ClusterOrder[n] : n \in 1 .. N}
    BY <2>2 DEF Range
  <2> QED BY <2>2, <2>3, PolicyAssumption
<1>2. TakenUpTo(a, N) = UNION {Taken(a, c) : c \in DOMAIN Clusters}
  <2> HIDE DEF N
  <2> QED BY <1>1 DEF TakenUpTo
<1>3. \A c \in DOMAIN Clusters : c \notin DOMAIN Policies => Taken(a, c) = {}
  BY TakenIsEntry
<1>4. TakenUpTo(a, N) = UNION {Taken(a, c) : c \in DOMAIN Policies}
  BY <1>1, <1>2, <1>3
<1>5. ASSUME NEW c \in DOMAIN Policies
      PROVE  Taken(a, c) = UNION {Asked(config, a)' : config \in ConfigsInForce(c)'}
  <2>1. ConfigsInForce(c)' = InForceAt(c, clusterLevelMap'[c])
    BY Zenon DEF ConfigsInForce, InForceAt
  <2>2. \A config : Asked(config, a)' = AskedAt(config, a, states)
    BY Zenon DEF Asked, AskedAt, Applying, HoldsIn, StateMachineDecision
  <2>3. Taken(a, c) = UNION {AskedAt(config, a, states) : config \in InForceAt(c, clusterLevelMap'[c])}
    BY <1>1, TakenIsEntry
  <2> QED BY <2>1, <2>2, <2>3, Zenon
<1> QED BY <1>4, <1>5, Zenon DEF N

\* An entry asked for is in force once its delay, if it has one, is over.
InForce(a, q, delays) ==
  /\ q.value = Malformed => ~ Actions[a].kind.drops
  /\ \/ q.delaytime = <<>>
     \/ Len(q.delaytime) = 2 /\ delays[q.delaytime[1]].isCompleted

\* The values in force after a decision are those of the entries taken.
LEMMA ValuesTaken ==
  ASSUME LevelsDiffer, LevelsKnown', states' = states, NEW a
  PROVE  ValuesInForce(a)'
           = {Number(p) : p \in {q \in TakenUpTo(a, Len(ClusterOrder)) : InForce(a, q, act'[a].delays)}}
<1> DEFINE F(c) == ConfigsInForce(c)'
           A(config) == Asked(config, a)'
           P(q) == InForce(a, q, act'[a].delays)
           C == DOMAIN Policies
<1>1. ValuesInForce(a)' = UNION {UNION {{Number(p) : p \in {q \in A(config) : P(q)}}
                                          : config \in F(c)} : c \in C}
  <2>1. DOMAIN Configs = C
    BY DEF Configs
  <2> QED BY <2>1, Zenon DEF ValuesInForce, InForce
<1>2. TakenUpTo(a, Len(ClusterOrder)) = UNION {UNION {A(config) : config \in F(c)} : c \in C}
  BY TakenTogether
<1> HIDE DEF F, A, P, C
<1>3. UNION {UNION {{Number(p) : p \in {q \in A(config) : P(q)}} : config \in F(c)} : c \in C}
        = {Number(p) : p \in {q \in UNION {UNION {A(config) : config \in F(c)} : c \in C} : P(q)}}
  OBVIOUS
<1> QED BY <1>1, <1>2, <1>3 DEF P

\* What a decision executes an action with: what the clusters ask, and the
\* delays just asked for that are over.
LEMMA DecisionSettles ==
  ASSUME DelaysAreNumbers, TypeInv, LevelsKnown', PolicyDecision, NEW a \in ActionNames
  PROVE  \E x, T :
           /\ Collects(a, x, TakenUpTo(a, Len(ClusterOrder)))
           /\ DOMAIN act'[a].delays = x.ids
           /\ \A i \in x.ids : act'[a].delays[i].value = x.delays[i].value
           /\ T = x.valueList \cup OverValues(act'[a].delays) /\ T \subseteq Values
           /\ act'[a].lastValue = GetActionValue(Actions[a].kind, Actions[a].strict, T)
<1>1. IsObject(act[a]) /\ Valued(act[a]) /\ act[a].valueList = {} /\ act[a].ids = {}
  BY DEF TypeInv, PolicyInv, Objects, ValuesKept
<1>2. PICK uninit \in UninitialisedDelay, timerFails \in BOOLEAN :
        act'[a] = Execute(Actions[a].kind, Actions[a].strict, Collected(a, uninit), timerFails)
  BY DecisionExecutes
<1> DEFINE x == Collected(a, uninit)
           y == act'[a]
<1>3. Collects(a, x, TakenUpTo(a, Len(ClusterOrder))) /\ Valued(x)
  BY <1>1, DecisionCollects, DecisionValued
<1> HIDE DEF x
<1>4. IsObject(x) /\ x.ids \subseteq DOMAIN x.delays
  BY <1>3, Zenon DEF Collects
<1>5. /\ DOMAIN y.delays = DOMAIN x.delays \cap x.ids
      /\ \A i \in DOMAIN y.delays : y.delays[i].value = x.delays[i].value
      /\ y.lastValue = GetActionValue(Actions[a].kind, Actions[a].strict, x.valueList \cup OverValues(y.delays))
  BY <1>2, <1>4, ExecuteValues DEF x
<1> HIDE DEF y
<1>6. DOMAIN y.delays = x.ids
  BY <1>4, <1>5
<1>7. x.valueList \cup OverValues(y.delays) \subseteq Values
  BY <1>3, <1>5 DEF Valued, OverValues
<1> QED BY <1>3, <1>5, <1>6, <1>7 DEF y

\* Every entry taken is a policy entry for the action.
LEMMA TakenEntries ==
  ASSUME LevelsKnown', NEW a
  PROVE  \A p \in TakenUpTo(a, Len(ClusterOrder)) : p \in PolicyActions /\ p.name = a
<1> SUFFICES ASSUME NEW p \in TakenUpTo(a, Len(ClusterOrder)) PROVE p \in PolicyActions /\ p.name = a
  OBVIOUS
<1>1. PICK n \in 1 .. Len(ClusterOrder) : p \in Taken(a, ClusterOrder[n])
  BY DEF TakenUpTo
<1> DEFINE c == ClusterOrder[n]
           list == LevelActions(c, clusterLevelMap'[c])
<1>2. c \in DOMAIN Clusters /\ clusterLevelMap'[c] \in Nat
  BY PolicyAssumption DEF LevelsKnown
<1>3. \/ LastAsked(a, list, states) = {} /\ ActionDecision(a, act[a], list, 0) = act[a]
      \/ \E q \in PolicyActions : /\ q.name = a /\ LastAsked(a, list, states) = {q}
                                  /\ ActionDecision(a, act[a], list, 0) = TakeEntry(a, act[a], q, 0)
  BY <1>2, EntryTaken
<1> HIDE DEF c, list
<1>4. LastAsked(a, list, states) = Taken(a, c)
  BY DEF Taken, list
<1> QED BY <1>1, <1>3, <1>4 DEF c

\* An id names one value in a decision.
LEMMA TakenOnce ==
  ASSUME LevelsDiffer, DelaysApart, LevelsKnown', NEW a,
         NEW p \in TakenUpTo(a, Len(ClusterOrder)), NEW q \in TakenUpTo(a, Len(ClusterOrder)),
         Delayed(p), Delayed(q), p.delaytime[1] = q.delaytime[1]
  PROVE  Number(p) = Number(q)
<1>1. PICK m \in 1 .. Len(ClusterOrder) : p \in Taken(a, ClusterOrder[m])
  BY DEF TakenUpTo
<1>2. PICK n \in 1 .. Len(ClusterOrder) : q \in Taken(a, ClusterOrder[n])
  BY DEF TakenUpTo
<1> DEFINE c == ClusterOrder[m]
           d == ClusterOrder[n]
<1>3. c \in DOMAIN Clusters /\ d \in DOMAIN Clusters
  BY PolicyAssumption
<1> HIDE DEF c, d
<1>4. /\ p.name = a /\ p \in EntriesOf(c) /\ Taken(a, c) = {p} /\ c \in DOMAIN Policies
      /\ q.name = a /\ q \in EntriesOf(d) /\ Taken(a, d) = {q} /\ d \in DOMAIN Policies
  BY <1>1, <1>2, <1>3, TakenIsEntry DEF c, d
<1>5. CASE c = d
  BY <1>4, <1>5
<1>6. CASE c # d
  BY <1>4, <1>6, Zenon DEF DelaysApart
<1> QED BY <1>5, <1>6

\* The values an action is executed with are exactly the ones in force.
LEMMA SettledInForce ==
  ASSUME LevelsDiffer, DelaysApart, DelaysAreNumbers, LevelsKnown', states' = states,
         NEW a \in ActionNames, NEW x, Collects(a, x, TakenUpTo(a, Len(ClusterOrder))),
         DOMAIN act'[a].delays = x.ids,
         \A i \in x.ids : act'[a].delays[i].value = x.delays[i].value
  PROVE  x.valueList \cup OverValues(act'[a].delays) = ValuesInForce(a)'
<1> DEFINE E == TakenUpTo(a, Len(ClusterOrder))
           d == act'[a].delays
           V == {Number(p) : p \in {q \in E : InForce(a, q, d)}}
<1>1. ValuesInForce(a)' = V
  BY ValuesTaken
<1>2. \A p \in E : p \in PolicyActions /\ p.name = a
  BY TakenEntries
<1>3. \A p, q \in E : Delayed(p) /\ Delayed(q) /\ p.delaytime[1] = q.delaytime[1] => Number(p) = Number(q)
  BY TakenOnce
<1> HIDE DEF E, d
<1>4. /\ x.valueList = {Number(p) : p \in {q \in E : q.delaytime = <<>> /\ ~ Dropped(a, q)}}
      /\ x.ids = {p.delaytime[1] : p \in {q \in E : Delayed(q)}}
      /\ \A i \in x.ids : \E p \in E : /\ Delayed(p) /\ p.delaytime[1] = i
                                       /\ x.delays[i].value = Number(p)
  BY Zenon DEF Collects, E
<1>5. DOMAIN d = x.ids /\ \A i \in x.ids : d[i].value = x.delays[i].value
  BY DEF d
<1>6. \A q \in E : Delayed(q) => ~ Dropped(a, q)
  BY <1>2 DEF Dropped, Delayed, DelaysAreNumbers
<1>7. ASSUME NEW v \in x.valueList PROVE v \in V
  <2>1. PICK p \in E : p.delaytime = <<>> /\ ~ Dropped(a, p) /\ v = Number(p)
    BY <1>4, <1>7
  <2> QED BY <2>1, Zenon DEF InForce, Dropped
<1>8. ASSUME NEW v \in OverValues(d) PROVE v \in V
  <2>1. PICK i \in DOMAIN d : d[i].isCompleted /\ v = d[i].value
    BY <1>8 DEF OverValues
  <2>2. PICK p \in E : Delayed(p) /\ p.delaytime[1] = i /\ x.delays[i].value = Number(p)
    BY <1>4, <1>5
  <2>3. InForce(a, p, d)
    BY <1>6, <2>1, <2>2, Zenon DEF InForce, Dropped, Delayed
  <2>4. v = Number(p)
    BY <1>5, <2>1, <2>2
  <2> QED BY <2>3, <2>4
<1>9. ASSUME NEW v \in V PROVE v \in x.valueList \cup OverValues(d)
  <2>1. PICK p \in E : InForce(a, p, d) /\ v = Number(p)
    BY <1>9
  <2>2. ~ Dropped(a, p)
    BY <2>1, Zenon DEF InForce, Dropped
  <2>3. CASE p.delaytime = <<>>
    BY <1>4, <2>1, <2>2, <2>3
  <2>4. CASE p.delaytime # <<>>
    <3> DEFINE i == p.delaytime[1]
    <3>1. Delayed(p) /\ d[i].isCompleted
      BY <2>1, <2>4, Zenon DEF InForce, Delayed
    <3>2. i \in x.ids
      BY <1>4, <3>1
    <3> HIDE DEF i
    <3>3. PICK q \in E : Delayed(q) /\ q.delaytime[1] = i /\ x.delays[i].value = Number(q)
      BY <1>4, <3>2
    <3>4. Number(q) = Number(p)
      BY <1>3, <3>1, <3>3 DEF i
    <3>5. d[i].value = v
      BY <1>5, <2>1, <3>2, <3>3, <3>4
    <3> QED BY <1>5, <3>1, <3>2, <3>5 DEF OverValues
  <2> QED BY <2>3, <2>4
<1> HIDE DEF V
<1> QED BY <1>1, <1>7, <1>8, <1>9 DEF d

\* A decision leaves every action with what arbitration gives.
LEMMA DecisionArbitration ==
  ASSUME LevelsDiffer, DelaysApart, DelaysAreNumbers, TypeInv, LevelsKnown', states' = states,
         PolicyDecision, NEW a \in ActionNames
  PROVE  ArbitratesTo(a, act[a].lastValue)'
<1>1. PICK x, T :
        /\ Collects(a, x, TakenUpTo(a, Len(ClusterOrder)))
        /\ DOMAIN act'[a].delays = x.ids
        /\ \A i \in x.ids : act'[a].delays[i].value = x.delays[i].value
        /\ T = x.valueList \cup OverValues(act'[a].delays) /\ T \subseteq Values
        /\ act'[a].lastValue = GetActionValue(Actions[a].kind, Actions[a].strict, T)
  BY DecisionSettles
<1>2. ValuesInForce(a)' = T
  BY <1>1, SettledInForce
<1>3. LET v == act'[a].lastValue IN
      IF T = {} THEN v = Actions[a].kind.fallback
      ELSE v \in T /\ \A w \in T : IF Actions[a].strict THEN v <= w ELSE v >= w
  BY <1>1, Settled
<1> QED BY <1>2, <1>3 DEF ArbitratesTo

\* Of the steps that count as decisions, only decisions are left.
LEMMA DecidedByDecision ==
  ASSUME TypeInv, Next, Decided, vars' # vars
  PROVE  \E t : LevelDecision(t) /\ PolicyDecision
<1>1. CASE \E t \in Reports : OnSensorInfoReported(t)
  BY <1>1 DEF OnSensorInfoReported
<1>2. CASE ExecutePolicy
  BY <1>2 DEF ExecutePolicy
<1>3. ASSUME NEW s \in DOMAIN States, NEW v \in States[s], StateChanged(s, v) PROVE FALSE
  <2>1. states[s] # v /\ states' = [states EXCEPT ![s] = v] /\ s \in DOMAIN states
    BY <1>3 DEF StateChanged, TypeInv, StatesKept
  <2>2. states'[s] = v
    BY <2>1
  <2> QED BY <2>1, <2>2 DEF Decided
<1>4. ASSUME NEW a \in ActionNames, NEW i \in timers[a], TimerFires(a, i) PROVE FALSE
  <2> DEFINE new == Callback(i, "begun", FALSE)
  <2>1. i \in DOMAIN act[a].delays
    BY DEF TypeInv, PolicyInv, NoOrphanTimer
  <2>2. /\ act' = act /\ callbacks' = [callbacks EXCEPT ![a] = callbacks[a] \cup {new}]
    BY <1>4, <2>1 DEF TimerFires
  <2>3. callbacks'[a] = callbacks[a] \cup {new}
    BY <2>2 DEF TypeInv, PolicyInv
  <2>4. new.id = i /\ ~ new.erased
    BY DEF Callback
  <2> HIDE DEF new
  <2>5. new \notin callbacks[a]
    BY <2>4 DEF TypeInv, PolicyInv, NoOrphanTimer
  <2> QED BY <2>2, <2>3, <2>5, Zenon DEF Decided, CallbacksRest
<1>5. ASSUME NEW a \in ActionNames, NEW i \in DOMAIN act[a].delays, CallbackExecutes(a, i)
      PROVE  FALSE
  <2> DEFINE old == Callback(i, "begun", FALSE)
             new == Callback(i, "executed", FALSE)
  <2>1. /\ old \in callbacks[a]
        /\ callbacks' = [callbacks EXCEPT ![a] = (callbacks[a] \ {old}) \cup {new}]
    BY <1>5 DEF CallbackExecutes
  <2>2. new \in callbacks'[a]
    BY <2>1 DEF TypeInv, PolicyInv
  <2>3. /\ old.id = i /\ old.at = "begun" /\ ~ old.erased
        /\ new.id = i /\ new.at = "executed" /\ ~ new.erased
    BY DEF Callback
  <2> HIDE DEF old, new
  <2>4. new \notin callbacks[a]
    BY <2>1, <2>3 DEF TypeInv, PolicyInv, NoOrphanTimer
  <2> QED BY <2>2, <2>3, <2>4, Zenon DEF Decided, CallbacksRest
<1>6. ASSUME NEW a \in ActionNames, NEW i \in DOMAIN act[a].delays, CallbackEnds(a, i) PROVE FALSE
  <2> DEFINE old == Callback(i, "executed", FALSE)
  <2>1. /\ old \in callbacks[a] /\ act' = act
        /\ callbacks' = [callbacks EXCEPT ![a] = callbacks[a] \ {old}]
    BY <1>6 DEF CallbackEnds
  <2> HIDE DEF old
  <2>2. old \notin callbacks'[a]
    BY <2>1 DEF TypeInv, PolicyInv
  <2> QED BY <2>1, <2>2, Zenon DEF Decided, CallbacksRest
<1>7. ASSUME NEW a \in ActionNames, UsesErasedDelay(a) PROVE FALSE
  BY <1>7 DEF UsesErasedDelay, Decided
<1>8. CASE SocDies \/ SocStarts \/ OnAddSystemAbility
  BY <1>8 DEF SocDies, SocStarts, OnAddSystemAbility, Decided
<1> QED BY <1>1, <1>2, <1>3, <1>4, <1>5, <1>6, <1>7, <1>8 DEF Next

(* A report or a forced execution leaves every action with exactly the     *)
(* value its arbitration scheme gives for all clusters together, for every *)
(* configuration whose policies name no level twice and whose delays are   *)
(* well formed and apart: no value of an earlier level, of a failed state  *)
(* condition or of a running delay takes part, and an action nobody asks   *)
(* for falls back.                                                         *)
THEOREM DecisionsArbitrate ==
  ASSUME LevelsDiffer, DelaysApart, DelaysAreNumbers
  PROVE  Spec => DecisionArbitrates
<1>1. TypeInv /\ TypeInv' /\ [Next]_vars =>
        [Decided => \A a \in ActionNames : ArbitratesTo(a, act[a].lastValue)']_vars
  <2> SUFFICES ASSUME TypeInv, TypeInv', Next, vars' # vars, Decided, NEW a \in ActionNames
               PROVE  ArbitratesTo(a, act[a].lastValue)'
    BY Zenon
  <2>1. PICK t : LevelDecision(t) /\ PolicyDecision
    BY DecidedByDecision
  <2>2. LevelsKnown'
    BY <2>1, LevelsDecided DEF TypeInv
  <2>3. states' = states
    BY DEF Decided
  <2> QED BY <2>1, <2>2, <2>3, DecisionArbitration
<1> QED BY <1>1, TypeInvariant, PTL DEF Spec, DecisionArbitrates

\* A decision leaves an action with its fallback or a value asked of it.
LEMMA DecisionAsked ==
  ASSUME DelaysAreNumbers, TypeInv, LevelsKnown', PolicyDecision, NEW a \in ActionNames
  PROVE  \/ act'[a].lastValue = Actions[a].kind.fallback
         \/ \E p \in PolicyActions : p.name = a /\ act'[a].lastValue = Number(p)
<1> DEFINE E == TakenUpTo(a, Len(ClusterOrder))
           y == act'[a]
<1>1. PICK x, T :
        /\ Collects(a, x, E) /\ DOMAIN y.delays = x.ids
        /\ \A i \in x.ids : y.delays[i].value = x.delays[i].value
        /\ T = x.valueList \cup OverValues(y.delays) /\ T \subseteq Values
        /\ y.lastValue = GetActionValue(Actions[a].kind, Actions[a].strict, T)
  BY DecisionSettles
<1>2. \A p \in E : p \in PolicyActions /\ p.name = a
  BY TakenEntries
<1> HIDE DEF E, y
<1>3. /\ x.valueList = {Number(p) : p \in {q \in E : q.delaytime = <<>> /\ ~ Dropped(a, q)}}
      /\ \A i \in x.ids : \E p \in E : /\ Delayed(p) /\ p.delaytime[1] = i
                                       /\ x.delays[i].value = Number(p)
  BY <1>1, Zenon DEF Collects
<1>4. ASSUME NEW v \in T PROVE \E p \in E : v = Number(p)
  <2>1. CASE v \in x.valueList
    BY <1>3, <2>1
  <2>2. CASE v \in OverValues(y.delays)
    <3>1. PICK i \in DOMAIN y.delays : v = y.delays[i].value
      BY <2>2 DEF OverValues
    <3> QED BY <1>1, <1>3, <3>1
  <2> QED BY <1>1, <1>4, <2>1, <2>2
<1>5. IF T = {} THEN y.lastValue = Actions[a].kind.fallback ELSE y.lastValue \in T
  BY <1>1, Settled
<1> QED BY <1>2, <1>4, <1>5 DEF y

(* The first decision after a restart of the SoC performance service is    *)
(* known gives it every limit again, even one that did not change and even *)
(* the fallback, for every action whose reset value no decision takes.     *)
THEOREM SocIsRestored ==
  ASSUME DelaysAreNumbers
  PROVE  Spec => SocRestored
<1>1. TypeInv /\ SocLimitHeld /\ [Next]_vars =>
        [Decided /\ soc = "up" =>
           \A a \in With({"soc"}) : ResetForces(a) => applied'[a] = Given(a, act')]_vars
  <2> SUFFICES ASSUME TypeInv, SocLimitHeld, Next, vars' # vars, Decided, soc = "up",
                      NEW a \in With({"soc"}), ResetForces(a)
               PROVE  applied'[a] = Given(a, act')
    BY Zenon
  <2>1. PICK t : LevelDecision(t) /\ PolicyDecision
    BY DecidedByDecision
  <2>2. LevelsKnown'
    BY <2>1, LevelsDecided DEF TypeInv
  <2>3. PICK newAct, battery : Outcome(newAct, battery)
    BY <2>1, DecisionOutcome DEF TypeInv, PolicyInv
  <2>4. act' = newAct /\ a \in ActionNames /\ a \notin Charging
    BY <2>3, SinksApart DEF Outcome
  <2>5. applied'[a] = IF a \in Request(newAct) THEN Given(a, newAct) ELSE applied[a]
    BY <2>3, <2>4 DEF Outcome, AcceptedLimits
  <2>6. CASE a \in Changed(newAct)
    BY <2>4, <2>5, <2>6 DEF Request, SocLimitRequest
  <2>7. CASE a \notin Changed(newAct)
    <3>1. newAct[a].lastValue = act[a].lastValue
      BY <2>4, <2>7 DEF Changed
    <3>2. a \notin Request(newAct)
      BY <2>7 DEF Request, SocLimitRequest
    <3>3. newAct[a].lastValue # Actions[a].kind.reset
      <4>1. \/ act'[a].lastValue = Actions[a].kind.fallback
            \/ \E p \in PolicyActions : p.name = a /\ act'[a].lastValue = Number(p)
        BY <2>1, <2>2, <2>4, DecisionAsked
      <4> QED BY <2>4, <4>1, Zenon DEF ResetForces
    <3>4. applied[a] = Given(a, act)
      BY <3>1, <3>3, Zenon DEF SocLimitHeld
    <3>5. Given(a, act) = Given(a, newAct)
      BY <3>1, Zenon DEF Given
    <3> QED BY <2>4, <2>5, <3>2, <3>4, <3>5
  <2> QED BY <2>6, <2>7
<1> QED BY <1>1, TypeInvariant, SocLimitsHeld, PTL DEF Spec, SocRestored
=============================================================================
