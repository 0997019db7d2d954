----------------------- MODULE ThermalObserver_proofs -----------------------
(***************************************************************************)
(* Proofs about the two halves of ThermalObserver.  They share no state.   *)
(*                                                                         *)
(* ActionNotify, for any actions, listeners and number of tasks running at *)
(* once: no decision is lost between actionMap_, the caches of the tasks   *)
(* and the listeners.                                                      *)
(*                                                                         *)
(* TempNotify, for any sensors, temperatures and listeners: one shared     *)
(* preSensor serves all of them.                                           *)
(***************************************************************************)
EXTENDS ActionNotify, TempNotify, TLAPS

-----------------------------------------------------------------------------
(* Action decisions. *)

Decisions == [ActionNames -> Nat]

NotifyTypes ==
  /\ actionMap \in Decisions /\ allActionMap \in Decisions
  /\ listeners \subseteq Listeners /\ caches \subseteq Decisions
  /\ newest \in [Listeners -> Decisions]

\* Nobody has been told, and no task has taken, what is not decided yet: so
\* a decision that is the latest one is never hidden by a greater number.
NothingInvented ==
  /\ \A l \in Listeners, a \in ActionNames : newest[l][a] <= allActionMap[a]
  /\ \A cache \in caches, a \in ActionNames : cache[a] <= allActionMap[a]
  /\ \A a \in ActionNames : actionMap[a] <= allActionMap[a]

NotifyInv == NotifyTypes /\ NothingInvented /\ NoDecisionLost

-----------------------------------------------------------------------------
\* The empty map holds no decision.
LEMMA NoDecisionsZero == NoDecisions \in Decisions /\ \A a \in ActionNames : NoDecisions[a] = 0
BY DEF NoDecisions, Decisions

(* What a listener is handed of a cache: all of it that the listener asked *)
(* for, and elsewhere the cache or nothing.                                *)
LEMMA SharedMapHolds ==
  ASSUME listeners \subseteq Listeners, NEW cache \in Decisions, NEW l \in listeners
  PROVE  /\ SharedMap(cache, l) \in Decisions
         /\ \A a \in ActionNames : SharedMap(cache, l)[a] \in {0, cache[a]}
         /\ \A a \in Interest[l] : SharedMap(cache, l)[a] = cache[a]
<1> DEFINE before == {m \in listeners : \E i, j \in DOMAIN ListenerOrder :
                        i <= j /\ ListenerOrder[i] = m /\ ListenerOrder[j] = l}
           asked == UNION {Interest[m] : m \in before}
<1>1. SharedMap(cache, l) = DecisionActionValue(cache, asked)
  BY DEF SharedMap
<1>2. l \in before
  <2>1. PICK j \in DOMAIN ListenerOrder : ListenerOrder[j] = l
    BY DEF Listeners
  <2>2. j <= j
    BY NotifyAssumption
  <2> QED BY <2>1, <2>2
<1>3. \A a \in Interest[l] : a \in asked /\ a \in ActionNames
  BY <1>2, NotifyAssumption
<1> HIDE DEF asked
<1> QED BY <1>1, <1>3 DEF DecisionActionValue, Decisions

(* What was heard once is kept, and m is added.                            *)
LEMMA NewerKnows ==
  ASSUME NEW known \in Decisions, NEW m \in Decisions
  PROVE  /\ Newer(known, m) \in Decisions
         /\ \A a \in ActionNames :
              /\ Newer(known, m)[a] \in {known[a], m[a]}
              /\ Newer(known, m)[a] >= known[a]
              /\ Newer(known, m)[a] >= m[a]
BY DEF Newer, Decisions

-----------------------------------------------------------------------------
(* A new decision waits in actionMap_.                                     *)
LEMMA DecideStep ==
  ASSUME NotifyInv, NEW b \in ActionNames, SetDecisionValue(b)
  PROVE  NotifyInv'
<1>0. NotifyTypes /\ NothingInvented /\ NoDecisionLost
  BY DEF NotifyInv
<1>1. UNCHANGED <<listeners, tasks, caches, newest>>
  BY DEF SetDecisionValue
<1>2. /\ allActionMap' \in Decisions /\ actionMap' \in Decisions
      /\ allActionMap'[b] = allActionMap[b] + 1 /\ actionMap'[b] = allActionMap[b] + 1
      /\ \A a \in ActionNames \ {b} :
           allActionMap'[a] = allActionMap[a] /\ actionMap'[a] = actionMap[a]
      /\ \A a \in ActionNames : allActionMap[a] \in Nat
  BY <1>0 DEF SetDecisionValue, NotifyTypes, Decisions
<1>3. NotifyTypes'
  BY <1>0, <1>1, <1>2 DEF NotifyTypes
<1>4. \A a \in ActionNames : allActionMap[a] <= allActionMap'[a] /\ allActionMap'[a] \in Nat
  BY <1>2
<1>5. NothingInvented'
  <2>1. ASSUME NEW l \in Listeners, NEW a \in ActionNames PROVE newest'[l][a] <= allActionMap'[a]
    <3>1. newest[l][a] \in Nat /\ newest[l][a] <= allActionMap[a] /\ newest' = newest
      BY <1>0, <1>1 DEF NotifyTypes, NothingInvented, Decisions
    <3> QED BY <1>2, <1>4, <3>1
  <2>2. ASSUME NEW cache \in caches', NEW a \in ActionNames PROVE cache[a] <= allActionMap'[a]
    <3>1. cache[a] \in Nat /\ cache[a] <= allActionMap[a]
      BY <1>0, <1>1 DEF NotifyTypes, NothingInvented, Decisions
    <3> QED BY <1>2, <1>4, <3>1
  <2>3. ASSUME NEW a \in ActionNames PROVE actionMap'[a] <= allActionMap'[a]
    BY <1>0, <1>2 DEF NotifyTypes, NothingInvented, Decisions
  <2> QED BY <2>1, <2>2, <2>3 DEF NothingInvented
<1>6. NoDecisionLost'
  <2> SUFFICES ASSUME NEW l \in listeners', NEW a \in Interest[l]
               PROVE  \/ newest'[l][a] = allActionMap'[a]
                      \/ actionMap'[a] = allActionMap'[a]
                      \/ \E cache \in caches' : cache[a] = allActionMap'[a]
    BY DEF NoDecisionLost
  <2>1. l \in listeners /\ a \in ActionNames
    BY <1>0, <1>1, NotifyAssumption DEF NotifyTypes
  <2> QED BY <1>0, <1>1, <1>2, <2>1 DEF NoDecisionLost
<1> QED BY <1>3, <1>5, <1>6 DEF NotifyInv

(* What a task takes from actionMap_ is in its cache.                      *)
LEMMA TakeStep ==
  ASSUME NotifyInv, TakeActions
  PROVE  NotifyInv'
<1>0. NotifyTypes /\ NothingInvented /\ NoDecisionLost
  BY DEF NotifyInv
<1>1. /\ UNCHANGED <<allActionMap, listeners, newest>> /\ actionMap' = NoDecisions
      /\ caches' = IF actionMap = NoDecisions THEN caches ELSE caches \cup {actionMap}
  BY DEF TakeActions
<1>2. NotifyTypes'
  BY <1>0, <1>1, NoDecisionsZero DEF NotifyTypes
<1>3. NothingInvented'
  <2>1. \A a \in ActionNames : allActionMap[a] \in Nat
    BY <1>0 DEF NotifyTypes, Decisions
  <2>2. \A a \in ActionNames : actionMap'[a] <= allActionMap'[a]
    BY <1>1, <2>1, NoDecisionsZero
  <2>3. \A cache \in caches', a \in ActionNames : cache[a] <= allActionMap'[a]
    BY <1>0, <1>1 DEF NothingInvented
  <2> QED BY <1>0, <1>1, <2>2, <2>3 DEF NothingInvented
<1>4. NoDecisionLost'
  <2> SUFFICES ASSUME NEW l \in listeners', NEW a \in Interest[l]
               PROVE  \/ newest'[l][a] = allActionMap'[a]
                      \/ actionMap'[a] = allActionMap'[a]
                      \/ \E cache \in caches' : cache[a] = allActionMap'[a]
    BY DEF NoDecisionLost
  <2>1. l \in listeners
    BY <1>1
  <2>2. caches \subseteq caches' /\ (actionMap = actionMap' \/ actionMap \in caches')
    BY <1>1
  <2> QED BY <1>0, <1>1, <2>1, <2>2 DEF NoDecisionLost
<1> QED BY <1>2, <1>3, <1>4 DEF NotifyInv

(* A listener of an action knows the latest decision once any task that    *)
(* has it delivered, in whatever order the tasks deliver.                  *)
LEMMA DeliverStep ==
  ASSUME NotifyInv, NEW given \in caches, DeliverActions(given)
  PROVE  NotifyInv'
<1>0. NotifyTypes /\ NothingInvented /\ NoDecisionLost /\ given \in Decisions
  BY DEF NotifyInv, NotifyTypes
<1>1. /\ UNCHANGED <<actionMap, allActionMap, listeners, tasks>> /\ caches' = caches \ {given}
      /\ newest' = [l \in Listeners |->
                      IF l \in listeners THEN Newer(newest[l], SharedMap(given, l))
                                         ELSE newest[l]]
  BY DEF DeliverActions
<1>2. ASSUME NEW l \in Listeners
      PROVE  /\ newest'[l] \in Decisions /\ newest[l] \in Decisions
             /\ \A a \in ActionNames : /\ newest'[l][a] \in {0, newest[l][a], given[a]}
                                       /\ newest'[l][a] >= newest[l][a]
             /\ l \in listeners => \A a \in Interest[l] : newest'[l][a] >= given[a]
  <2>1. newest[l] \in Decisions
    BY <1>0 DEF NotifyTypes
  <2>2. CASE l \notin listeners
    BY <1>1, <2>1, <2>2 DEF Decisions
  <2>3. CASE l \in listeners
    <3>1. newest'[l] = Newer(newest[l], SharedMap(given, l))
      BY <1>1, <2>3
    <3>2. /\ SharedMap(given, l) \in Decisions
          /\ \A a \in ActionNames : SharedMap(given, l)[a] \in {0, given[a]}
          /\ \A a \in Interest[l] : SharedMap(given, l)[a] = given[a] /\ a \in ActionNames
      BY <1>0, <2>3, SharedMapHolds, NotifyAssumption DEF NotifyTypes
    <3> QED BY <2>1, <3>1, <3>2, NewerKnows
  <2> QED BY <2>2, <2>3
<1>3. NotifyTypes'
  <2>1. newest' \in [Listeners -> Decisions]
    BY <1>1, <1>2
  <2> QED BY <1>0, <1>1, <2>1 DEF NotifyTypes
<1>4. NothingInvented'
  <2>1. ASSUME NEW l \in Listeners, NEW a \in ActionNames PROVE newest'[l][a] <= allActionMap'[a]
    <3>1. newest[l][a] <= allActionMap[a] /\ given[a] <= allActionMap[a] /\ allActionMap[a] \in Nat
      BY <1>0 DEF NotifyTypes, NothingInvented, Decisions
    <3>2. newest'[l][a] \in {0, newest[l][a], given[a]}
      BY <1>2
    <3> QED BY <1>1, <3>1, <3>2
  <2> QED BY <1>0, <1>1, <2>1 DEF NothingInvented
<1>5. NoDecisionLost'
  <2> SUFFICES ASSUME NEW l \in listeners', NEW a \in Interest[l],
                      actionMap'[a] # allActionMap'[a],
                      \A cache \in caches' : cache[a] # allActionMap'[a]
               PROVE  newest'[l][a] = allActionMap'[a]
    BY DEF NoDecisionLost
  <2>1. l \in listeners /\ l \in Listeners /\ a \in ActionNames
    BY <1>0, <1>1, NotifyAssumption DEF NotifyTypes
  <2>2. newest[l][a] = allActionMap[a] \/ given[a] = allActionMap[a]
    BY <1>0, <1>1, <2>1 DEF NoDecisionLost
  <2>3. newest'[l][a] >= newest[l][a] /\ newest'[l][a] >= given[a] /\ newest'[l][a] \in Nat
    BY <1>2, <2>1 DEF Decisions
  <2>4. newest'[l][a] <= allActionMap[a] /\ allActionMap[a] \in Nat
    BY <1>0, <1>1, <1>4, <2>1 DEF NothingInvented, NotifyTypes, Decisions
  <2> QED BY <1>1, <2>2, <2>3, <2>4
<1> QED BY <1>3, <1>4, <1>5 DEF NotifyInv

(* A new listener is told the latest decisions at once.                    *)
LEMMA SubscribersStep ==
  ASSUME NotifyInv, NEW l \in Listeners,
         SubscribeThermalActionCallback(l) \/ UnSubscribeThermalActionCallback(l)
  PROVE  NotifyInv'
<1>0. NotifyTypes /\ NothingInvented /\ NoDecisionLost
  BY DEF NotifyInv
<1>1. UNCHANGED <<actionMap, allActionMap, tasks, caches>>
  BY DEF SubscribeThermalActionCallback, UnSubscribeThermalActionCallback
<1>2. PICK d \in Decisions :
        /\ newest' = [newest EXCEPT ![l] = d]
        /\ \A a \in ActionNames : d[a] \in {0, allActionMap[a]}
        /\ \/ listeners' = listeners \ {l}
           \/ listeners' = listeners \cup {l} /\ \A a \in Interest[l] : d[a] = allActionMap[a]
  <2>1. CASE SubscribeThermalActionCallback(l)
    <3>1. DecisionActionValue(allActionMap, Interest[l]) \in Decisions
      BY <1>0 DEF DecisionActionValue, NotifyTypes, Decisions
    <3>2. \A a \in ActionNames :
            DecisionActionValue(allActionMap, Interest[l])[a] \in {0, allActionMap[a]}
      BY DEF DecisionActionValue
    <3>3. \A a \in Interest[l] :
            DecisionActionValue(allActionMap, Interest[l])[a] = allActionMap[a]
      BY NotifyAssumption DEF DecisionActionValue
    <3> QED BY <2>1, <3>1, <3>2, <3>3 DEF SubscribeThermalActionCallback, Hears
  <2>2. CASE UnSubscribeThermalActionCallback(l)
    BY <2>2, NoDecisionsZero DEF UnSubscribeThermalActionCallback, Hears
  <2> QED BY <2>1, <2>2
<1>3. /\ newest' \in [Listeners -> Decisions] /\ newest'[l] = d
      /\ \A m \in Listeners \ {l} : newest'[m] = newest[m]
  BY <1>0, <1>2 DEF NotifyTypes
<1>4. NotifyTypes'
  BY <1>0, <1>1, <1>2, <1>3 DEF NotifyTypes
<1>5. NothingInvented'
  <2>1. ASSUME NEW m \in Listeners, NEW a \in ActionNames PROVE newest'[m][a] <= allActionMap'[a]
    <3>1. allActionMap[a] \in Nat /\ newest[m][a] <= allActionMap[a]
      BY <1>0 DEF NotifyTypes, NothingInvented, Decisions
    <3> QED BY <1>1, <1>2, <1>3, <3>1
  <2> QED BY <1>0, <1>1, <2>1 DEF NothingInvented
<1>6. NoDecisionLost'
  BY <1>0, <1>1, <1>2, <1>3 DEF NoDecisionLost, NotifyTypes
<1> QED BY <1>4, <1>5, <1>6 DEF NotifyInv

-----------------------------------------------------------------------------
(* No decision is lost on its way to a subscriber, however many tasks run  *)
(* at once and in whatever order they deliver, and however subscriptions   *)
(* and decisions interleave with them.                                     *)
THEOREM NoDecisionIsLost == Spec => []NoDecisionLost
<1>1. Init => NotifyInv
  <2> SUFFICES ASSUME Init PROVE NotifyInv
    OBVIOUS
  <2>1. NotifyTypes /\ NoDecisionLost
    BY NoDecisionsZero DEF Init, NotifyTypes, NoDecisionLost
  <2>2. NothingInvented
    BY NoDecisionsZero DEF Init, NothingInvented
  <2> QED BY <2>1, <2>2 DEF NotifyInv
<1>2. NotifyInv /\ [Next]_vars => NotifyInv'
  <2> SUFFICES ASSUME NotifyInv, [Next]_vars PROVE NotifyInv'
    OBVIOUS
  <2>1. CASE SubmitTask \/ UNCHANGED vars
    <3>1. UNCHANGED <<actionMap, allActionMap, listeners, caches, newest>>
      BY <2>1 DEF SubmitTask, vars
    <3> QED BY <3>1 DEF NotifyInv, NotifyTypes, NothingInvented, NoDecisionLost
  <2> QED BY <2>1, DecideStep, TakeStep, DeliverStep, SubscribersStep DEF Next,
             Deliver
<1>3. NotifyInv => NoDecisionLost
  BY DEF NotifyInv
<1> QED BY <1>1, <1>2, <1>3, PTL DEF Spec

-----------------------------------------------------------------------------
(* The last word.  A decision that was not taken beside an older one has   *)
(* no rival: it waits in actionMap_, or no other cache speaks of its       *)
(* action.                                                                 *)

LastTypes == lastWord \in [Listeners -> Decisions] /\ raced \subseteq ActionNames

WaitingIsLatest == \A a \in ActionNames : actionMap[a] \in {0, allActionMap[a]}

NoRival ==
  \A a \in ActionNames \ raced :
    \/ actionMap[a] = allActionMap[a]
    \/ \A cache \in caches : cache[a] \in {0, allActionMap[a]}

LastInv == LastTypes /\ WaitingIsLatest /\ NoRival /\ LastWordCurrent

\* A new decision waits, whatever is on its way.
LEMMA LastDecided ==
  ASSUME NotifyInv, LastInv, NEW b \in ActionNames, SetDecisionValue(b)
  PROVE  LastInv'
<1>1. UNCHANGED <<listeners, caches, lastWord, raced>>
  BY DEF SetDecisionValue
<1>2. /\ actionMap'[b] = allActionMap'[b]
      /\ \A a \in ActionNames \ {b} :
           allActionMap'[a] = allActionMap[a] /\ actionMap'[a] = actionMap[a]
  BY DEF SetDecisionValue, NotifyInv, NotifyTypes, Decisions
<1>3. \A l \in listeners : Interest[l] \subseteq ActionNames
  BY NotifyAssumption DEF NotifyInv, NotifyTypes
<1>4. LastTypes' /\ WaitingIsLatest' /\ NoRival'
  BY <1>1, <1>2 DEF LastInv, LastTypes, WaitingIsLatest, NoRival
<1>5. LastWordCurrent'
  BY <1>1, <1>2, <1>3 DEF LastInv, LastWordCurrent
<1> QED BY <1>4, <1>5 DEF LastInv

\* What is taken alone has no rival.
LEMMA LastTaken ==
  ASSUME NotifyInv, LastInv, TakeActions
  PROVE  LastInv'
<1>1. /\ UNCHANGED <<allActionMap, listeners, lastWord>> /\ actionMap' = NoDecisions
      /\ caches' = IF actionMap = NoDecisions THEN caches ELSE caches \cup {actionMap}
      /\ raced' = {a \in ActionNames : IF actionMap[a] # 0 THEN \E cache \in caches : cache[a] # 0
                                                           ELSE a \in raced}
  BY DEF TakeActions
<1>2. \A a \in ActionNames : actionMap'[a] = 0
  BY <1>1, NoDecisionsZero
<1>3. LastTypes' /\ WaitingIsLatest'
  BY <1>1, <1>2 DEF LastInv, LastTypes, WaitingIsLatest
<1>4. NoRival'
  <2> SUFFICES ASSUME NEW a \in ActionNames, a \notin raced', NEW cache \in caches'
               PROVE  cache[a] \in {0, allActionMap[a]}
    BY <1>1 DEF NoRival
  <2>1. actionMap[a] \in {0, allActionMap[a]}
    BY DEF LastInv, WaitingIsLatest
  <2>2. cache \in caches \/ cache = actionMap
    BY <1>1
  <2>3. CASE actionMap[a] # 0
    BY <1>1, <2>1, <2>2, <2>3
  <2>4. CASE actionMap[a] = 0
    <3>1. a \notin raced
      BY <1>1, <2>4
    <3>2. allActionMap[a] = 0 => \A c \in caches : c[a] = 0
      BY DEF NotifyInv, NothingInvented, NotifyTypes, Decisions
    <3> QED BY <2>2, <2>4, <3>1, <3>2 DEF LastInv, NoRival
  <2> QED BY <2>3, <2>4
<1>5. LastWordCurrent'
  <2> SUFFICES ASSUME NEW l \in listeners, NEW a \in Interest[l], a \notin raced'
               PROVE  \/ lastWord[l][a] = allActionMap[a]
                      \/ actionMap'[a] = allActionMap[a]
                      \/ \E cache \in caches' : cache[a] = allActionMap[a]
    BY <1>1 DEF LastWordCurrent
  <2>1. a \in ActionNames
    BY NotifyAssumption DEF NotifyInv, NotifyTypes
  <2>2. caches \subseteq caches' /\ (actionMap = actionMap' \/ actionMap \in caches')
    BY <1>1
  <2>3. CASE actionMap[a] # 0
    <3>1. actionMap[a] = allActionMap[a]
      BY <2>1, <2>3 DEF LastInv, WaitingIsLatest
    <3> QED BY <2>2, <3>1
  <2>4. CASE actionMap[a] = 0
    <3>1. a \notin raced
      BY <1>1, <2>1, <2>4
    <3> QED BY <1>2, <2>1, <2>2, <2>4, <3>1 DEF LastInv, LastWordCurrent
  <2> QED BY <2>3, <2>4
<1> QED BY <1>3, <1>4, <1>5 DEF LastInv

\* A delivery without a rival leaves the latest decision as the last word.
LEMMA LastDelivered ==
  ASSUME NotifyInv, LastInv, NEW given \in caches, DeliverActions(given)
  PROVE  LastInv'
<1>1. /\ UNCHANGED <<actionMap, allActionMap, listeners, raced>> /\ caches' = caches \ {given}
      /\ lastWord' = [l \in Listeners |->
                        IF l \in listeners
                        THEN OnThermalActionChanged(lastWord[l], SharedMap(given, l))
                        ELSE lastWord[l]]
  BY DEF DeliverActions
<1>2. given \in Decisions /\ listeners \subseteq Listeners
  BY DEF NotifyInv, NotifyTypes
<1>3. ASSUME NEW l \in listeners
      PROVE  /\ lastWord'[l] \in Decisions
             /\ \A a \in Interest[l] :
                  /\ a \in ActionNames
                  /\ lastWord'[l][a] = IF given[a] # 0 THEN given[a] ELSE lastWord[l][a]
  <2>1. /\ SharedMap(given, l) \in Decisions
        /\ \A a \in Interest[l] : SharedMap(given, l)[a] = given[a] /\ a \in ActionNames
    BY <1>2, SharedMapHolds, NotifyAssumption
  <2>2. lastWord[l] \in Decisions /\ l \in Listeners
    BY <1>2 DEF LastInv, LastTypes
  <2>3. lastWord'[l] = OnThermalActionChanged(lastWord[l], SharedMap(given, l))
    BY <1>1, <2>2
  <2> HIDE DEF SharedMap
  <2> QED BY <2>1, <2>2, <2>3 DEF OnThermalActionChanged, Decisions
<1>4. LastTypes'
  <2>1. \A l \in Listeners : lastWord'[l] \in Decisions
    BY <1>1, <1>3 DEF LastInv, LastTypes
  <2> QED BY <1>1, <2>1 DEF LastInv, LastTypes
<1>5. WaitingIsLatest' /\ NoRival'
  BY <1>1 DEF LastInv, WaitingIsLatest, NoRival
<1>6. LastWordCurrent'
  <2> SUFFICES ASSUME NEW l \in listeners, NEW a \in Interest[l], a \notin raced,
                      actionMap[a] # allActionMap[a],
                      \A cache \in caches \ {given} : cache[a] # allActionMap[a]
               PROVE  lastWord'[l][a] = allActionMap[a]
    BY <1>1 DEF LastWordCurrent
  <2>1. lastWord[l][a] = allActionMap[a] \/ given[a] = allActionMap[a]
    BY DEF LastInv, LastWordCurrent
  <2>2. given[a] \in {0, allActionMap[a]} /\ allActionMap[a] # 0
    BY <1>3 DEF LastInv, NoRival, WaitingIsLatest
  <2> QED BY <1>3, <2>1, <2>2
<1> QED BY <1>4, <1>5, <1>6 DEF LastInv

\* A new subscriber hears the latest decisions.
LEMMA LastSubscribed ==
  ASSUME NotifyInv, LastInv, NEW l \in Listeners,
         SubscribeThermalActionCallback(l) \/ UnSubscribeThermalActionCallback(l)
  PROVE  LastInv'
<1>1. UNCHANGED <<actionMap, allActionMap, caches, raced>>
  BY DEF SubscribeThermalActionCallback, UnSubscribeThermalActionCallback
<1>2. PICK d \in Decisions :
        /\ lastWord' = [lastWord EXCEPT ![l] = d]
        /\ \/ listeners' = listeners \ {l}
           \/ listeners' = listeners \cup {l} /\ \A a \in Interest[l] : d[a] = allActionMap[a]
  <2>1. CASE SubscribeThermalActionCallback(l)
    <3>1. DecisionActionValue(allActionMap, Interest[l]) \in Decisions
      BY DEF DecisionActionValue, NotifyInv, NotifyTypes, Decisions
    <3>2. \A a \in Interest[l] :
            DecisionActionValue(allActionMap, Interest[l])[a] = allActionMap[a]
      BY NotifyAssumption DEF DecisionActionValue
    <3> QED BY <2>1, <3>1, <3>2 DEF SubscribeThermalActionCallback, Hears
  <2>2. CASE UnSubscribeThermalActionCallback(l)
    BY <2>2, NoDecisionsZero DEF UnSubscribeThermalActionCallback, Hears
  <2> QED BY <2>1, <2>2
<1>3. /\ lastWord' \in [Listeners -> Decisions] /\ lastWord'[l] = d
      /\ \A m \in Listeners \ {l} : lastWord'[m] = lastWord[m]
  BY <1>2 DEF LastInv, LastTypes
<1>4. LastTypes' /\ WaitingIsLatest' /\ NoRival'
  BY <1>1, <1>3 DEF LastInv, LastTypes, WaitingIsLatest, NoRival
<1>5. LastWordCurrent'
  BY <1>1, <1>2, <1>3 DEF LastInv, LastWordCurrent, NotifyInv, NotifyTypes
<1> QED BY <1>4, <1>5 DEF LastInv

(* A subscriber is left with an old value only by a decision that was      *)
(* taken while an older one was on its way in another task.                *)
THEOREM LastWordsAreCurrent == Spec => []LastWordCurrent
<1>1. Init => NotifyInv /\ LastInv
  <2> SUFFICES ASSUME Init PROVE NotifyInv /\ LastInv
    OBVIOUS
  <2>1. NotifyTypes /\ NoDecisionLost /\ NothingInvented
    BY NoDecisionsZero DEF Init, NotifyTypes, NoDecisionLost, NothingInvented
  <2>2. LastInv
    BY NoDecisionsZero DEF Init, LastInv, LastTypes, WaitingIsLatest, NoRival, LastWordCurrent
  <2> QED BY <2>1, <2>2 DEF NotifyInv
<1>2. NotifyInv /\ LastInv /\ [Next]_vars => NotifyInv' /\ LastInv'
  <2> SUFFICES ASSUME NotifyInv, LastInv, [Next]_vars PROVE NotifyInv' /\ LastInv'
    OBVIOUS
  <2>1. CASE SubmitTask \/ UNCHANGED vars
    <3>1. UNCHANGED <<actionMap, allActionMap, listeners, caches, newest, lastWord, raced>>
      BY <2>1 DEF SubmitTask, vars
    <3>2. NotifyInv'
      BY <3>1 DEF NotifyInv, NotifyTypes, NothingInvented, NoDecisionLost
    <3>3. LastInv'
      BY <3>1 DEF LastInv, LastTypes, WaitingIsLatest, NoRival, LastWordCurrent
    <3> QED BY <3>2, <3>3
  <2> QED BY <2>1, DecideStep, TakeStep, DeliverStep, SubscribersStep,
             LastDecided, LastTaken, LastDelivered, LastSubscribed DEF Next, Deliver
<1>3. LastInv => LastWordCurrent
  BY DEF LastInv
<1> QED BY <1>1, <1>2, <1>3, PTL DEF Spec

-----------------------------------------------------------------------------
(* Temperatures. *)

TempTypes ==
  /\ callbackinfo \in [Types -> Temps \cup {Unknown}]
  /\ preSensor \in [Types -> Temps \cup {Unknown}]
  /\ sensorTempListeners \subseteq TempListeners /\ present \subseteq sensorTempListeners
  /\ told \in [TempListeners -> [Types -> Temps \cup {Unknown}]]

\* Once the listeners are called, preSensor has the report of their types.
Recorded ==
  ~notifying => \A l \in present : \A ty \in TempInterest[l] : preSensor[ty] = callbackinfo[ty]

\* Who does not listen was told nothing since it last listened.
Forgotten == \A l \in TempListeners \ sensorTempListeners : told[l] = Nothing

\* What a listener was told last is what preSensor recorded, also while a report
\* is being processed and after it re-subscribed.
ToldFollowsPreSensor ==
  \A l \in sensorTempListeners : \A ty \in TempInterest[l] :
    told[l][ty] \in {Unknown, preSensor[ty]}

TempInv == TempTypes /\ Recorded /\ Forgotten /\ ToldFollowsPreSensor

-----------------------------------------------------------------------------
(* The report as the listeners see it has a temperature for every type     *)
(* they want, and a listener is handed every one of its types that changed.*)
LEMMA ReportSeen ==
  ASSUME TempTypes
  PROVE  /\ TempCbMap \in [Types -> Temps \cup {Unknown}]
         /\ \A l \in sensorTempListeners : \A ty \in TempInterest[l] :
              /\ ty \in Types /\ ty \in Wanted
              /\ preSensor[ty] # TempCbMap[ty] => ty \in NewTempCbMap(l)
<1>1. TempCbMap \in [Types -> Temps \cup {Unknown}]
  BY TempAssumption DEF TempCbMap, TempTypes
<1>2. ASSUME NEW l \in sensorTempListeners, NEW ty \in TempInterest[l]
      PROVE  /\ ty \in Types /\ ty \in Wanted
             /\ preSensor[ty] # TempCbMap[ty] => ty \in NewTempCbMap(l)
  <2>1. l \in TempListeners /\ ty \in Types
    BY TempAssumption DEF TempTypes
  <2>2. ty \in Wanted
    BY DEF Wanted
  <2>3. PICK j \in DOMAIN TempListenerOrder : TempListenerOrder[j] = l
    BY <2>1 DEF TempListeners
  <2>4. j <= j
    BY TempAssumption
  <2> QED BY <2>1, <2>2, <2>3, <2>4 DEF NewTempCbMap
<1> QED BY <1>1, <1>2

(* Calling the listeners: the new preSensor is the report, and what a      *)
(* listener was told is the old preSensor or nothing where nothing changed,*)
(* and the report where something did.                                     *)
LEMMA NotifyStep ==
  ASSUME TempInv, NotifySensorTempChanged
  PROVE  TempInv'
<1>0. /\ TempTypes /\ UNCHANGED sensorTempListeners
      /\ present' = sensorTempListeners /\ callbackinfo' = TempCbMap
  BY DEF TempInv, NotifySensorTempChanged
<1>1. preSensor' = [ty \in Types |-> IF ty \in Wanted THEN TempCbMap[ty] ELSE preSensor[ty]]
  BY DEF NotifySensorTempChanged
<1>2. told' = [l \in TempListeners |->
                IF l \notin sensorTempListeners THEN told[l]
                ELSE [ty \in Types |-> IF ty \in NewTempCbMap(l) THEN TempCbMap[ty]
                                                                ELSE told[l][ty]]]
  BY DEF NotifySensorTempChanged
<1>3. TempCbMap \in [Types -> Temps \cup {Unknown}]
  BY <1>0, ReportSeen
<1>4. TempTypes'
  <2>1. preSensor' \in [Types -> Temps \cup {Unknown}]
    BY <1>0, <1>1, <1>3 DEF TempTypes
  <2>2. told' \in [TempListeners -> [Types -> Temps \cup {Unknown}]]
    BY <1>0, <1>2, <1>3 DEF TempTypes
  <2> QED BY <1>0, <1>3, <2>1, <2>2 DEF TempTypes
<1>5. ASSUME NEW l \in sensorTempListeners, NEW ty \in TempInterest[l]
      PROVE  preSensor'[ty] = TempCbMap[ty] /\ told'[l][ty] \in {Unknown, TempCbMap[ty]}
  <2>1. l \in TempListeners /\ ty \in Types /\ ty \in Wanted
    BY <1>0, ReportSeen DEF TempTypes
  <2>2. preSensor'[ty] = TempCbMap[ty]
    BY <1>1, <2>1
  <2>3. told'[l][ty] = IF ty \in NewTempCbMap(l) THEN TempCbMap[ty] ELSE told[l][ty]
    BY <1>2, <2>1
  <2>4. told[l][ty] \in {Unknown, preSensor[ty]}
    BY DEF TempInv, ToldFollowsPreSensor
  <2>5. preSensor[ty] # TempCbMap[ty] => ty \in NewTempCbMap(l)
    BY <1>0, ReportSeen
  <2> QED BY <2>2, <2>3, <2>4, <2>5
<1>6. Recorded' /\ ToldFollowsPreSensor'
  BY <1>0, <1>5 DEF Recorded, ToldFollowsPreSensor
<1>7. Forgotten'
  BY <1>0, <1>2 DEF TempInv, Forgotten, Nothing
<1> QED BY <1>4, <1>6, <1>7 DEF TempInv

(* A new listener is told nothing, one that leaves forgets.                *)
LEMMA ListenersStep ==
  ASSUME TempInv, NEW l \in TempListeners,
         SubscribeThermalTempCallback(l) \/ UnSubscribeThermalTempCallback(l)
  PROVE  TempInv'
<1>0. TempTypes /\ Recorded /\ Forgotten /\ ToldFollowsPreSensor
  BY DEF TempInv
<1>1. CASE SubscribeThermalTempCallback(l)
  <2>1. /\ sensorTempListeners' = sensorTempListeners \cup {l} /\ l \notin sensorTempListeners
        /\ UNCHANGED <<callbackinfo, preSensor, notifying, present, told>>
    BY <1>1 DEF SubscribeThermalTempCallback
  <2>2. told[l] = Nothing
    BY <1>0, <2>1 DEF Forgotten
  <2>3. \A ty \in TempInterest[l] : told[l][ty] = Unknown
    BY <2>2, TempAssumption DEF Nothing
  <2>4. TempTypes' /\ Recorded' /\ Forgotten'
    BY <1>0, <2>1 DEF TempTypes, Recorded, Forgotten, Nothing
  <2>5. ToldFollowsPreSensor'
    BY <1>0, <2>1, <2>3 DEF ToldFollowsPreSensor
  <2> QED BY <2>4, <2>5 DEF TempInv
<1>2. CASE UnSubscribeThermalTempCallback(l)
  <2>1. /\ sensorTempListeners' = sensorTempListeners \ {l} /\ present' = present \ {l}
        /\ told' = [told EXCEPT ![l] = Nothing]
        /\ UNCHANGED <<callbackinfo, preSensor, notifying>>
    BY <1>2 DEF UnSubscribeThermalTempCallback
  <2>2. Nothing \in [Types -> Temps \cup {Unknown}]
    BY DEF Nothing
  <2>3. /\ told' \in [TempListeners -> [Types -> Temps \cup {Unknown}]]
        /\ told'[l] = Nothing /\ \A m \in TempListeners \ {l} : told'[m] = told[m]
    BY <1>0, <2>1, <2>2 DEF TempTypes
  <2>4. TempTypes' /\ Recorded'
    BY <1>0, <2>1, <2>3 DEF TempTypes, Recorded
  <2>5. Nothing' = Nothing
    BY DEF Nothing
  <2>6. Forgotten'
    BY <1>0, <2>1, <2>3, <2>5 DEF Forgotten
  <2>7. ToldFollowsPreSensor'
    BY <1>0, <2>1, <2>3 DEF ToldFollowsPreSensor, TempTypes
  <2> QED BY <2>4, <2>6, <2>7 DEF TempInv
<1> QED BY <1>1, <1>2

\* The invariant is kept by reports, notifications and subscriptions.
LEMMA TempInvariant == TempSpec => []TempInv
<1>1. TempInit => TempInv
  BY TempAssumption DEF TempInit, TempInv, TempTypes, Recorded, Forgotten,
     ToldFollowsPreSensor, Nothing
<1>2. TempInv /\ [TempNext]_tempVars => TempInv'
  <2> SUFFICES ASSUME TempInv, [TempNext]_tempVars PROVE TempInv'
    OBVIOUS
  <2>1. CASE OnReceivedSensorInfo
    <3>1. /\ callbackinfo' \in [Types -> Temps \cup {Unknown}] /\ notifying'
          /\ UNCHANGED <<preSensor, sensorTempListeners, present, told>>
      BY <2>1, Zenon DEF OnReceivedSensorInfo
    <3> QED BY <3>1 DEF TempInv, TempTypes, Recorded, Forgotten,
               ToldFollowsPreSensor, Nothing
  <2>2. CASE UNCHANGED tempVars
    BY <2>2 DEF tempVars, TempInv, TempTypes, Recorded, Forgotten, ToldFollowsPreSensor,
       Nothing
  <2> QED BY <2>1, <2>2, NotifyStep, ListenersStep DEF TempNext
<1> QED BY <1>1, <1>2, PTL DEF TempSpec

(* When the listeners of a report have been called, each of them knows     *)
(* what the report says of its types.                                      *)
THEOREM ListenersCurrent == TempSpec => []EveryListenerCurrent
<1>1. TempInv => EveryListenerCurrent
  BY DEF TempInv, TempTypes, Recorded, ToldFollowsPreSensor, EveryListenerCurrent
<1> QED BY <1>1, TempInvariant, PTL
=============================================================================
