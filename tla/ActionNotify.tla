---------------------------- MODULE ActionNotify ----------------------------
(***************************************************************************)
(* How ThermalObserver hands action decisions to its subscribers.          *)
(* Decisions collect in actionMap_ until an FFRT task, submitted at the    *)
(* end of every policy decision, takes them all and calls the listeners;   *)
(* a new listener is told everything decided so far.  Tasks run on FFRT's  *)
(* worker threads (external), several at a time.                           *)
(*                                                                         *)
(* Decisions of an action are numbered in the order they are made; the     *)
(* number stands for the value, 0 for "no decision".                       *)
(***************************************************************************)
EXTENDS Integers, FiniteSets, Sequences

CONSTANTS ActionNames,
          ListenerOrder,  \* the listeners in the order of the set they are kept in
          Interest,       \* listener -> the actions it subscribes to
          MaxDecisions,   \* bound on decisions per action
          MaxTasks        \* bound on tasks waiting to start

Listeners == {ListenerOrder[i] : i \in DOMAIN ListenerOrder}

ASSUME NotifyAssumption ==
  /\ ListenerOrder \in Seq(Listeners)
  /\ Interest \in [Listeners -> SUBSET ActionNames]
  /\ \A i, j \in DOMAIN ListenerOrder : ListenerOrder[i] = ListenerOrder[j] => i = j
  /\ MaxDecisions \in Nat /\ MaxTasks \in Nat \ {0}

VARIABLES
  actionMap,     \* decisions not yet taken by a task (actionMap_)
  allActionMap,  \* the latest decision of every action (allActionMap_)
  listeners,     \* actionListeners_ and the keys of callbackActionMap_
  tasks,         \* tasks submitted and not started
  caches,        \* what started tasks have taken and not delivered yet
  lastWord,      \* what each listener heard last of every action since it subscribed
  newest,        \* the newest decision it heard
  raced          \* actions whose last decision was taken beside an older one on its way

vars == <<actionMap, allActionMap, listeners, tasks, caches, lastWord, newest, raced>>

NoDecisions == [a \in ActionNames |-> 0]

(***************************************************************************)
(* A callback with map m: what it says of an action is the listener's last *)
(* word.  Two tasks may deliver in the other order than they took, so that *)
(* need not be the newest decision the listener heard.                     *)
(***************************************************************************)
OnThermalActionChanged(known, m) == [a \in ActionNames |-> IF m[a] # 0 THEN m[a] ELSE known[a]]
Newer(known, m) == [a \in ActionNames |-> IF m[a] > known[a] THEN m[a] ELSE known[a]]

(* The entries of m for the actions in A.                                  *)
DecisionActionValue(m, A) == [a \in ActionNames |-> IF a \in A THEN m[a] ELSE 0]

Init ==
  /\ actionMap = NoDecisions /\ allActionMap = NoDecisions
  /\ listeners = {}
  /\ tasks = 0 /\ caches = {}
  /\ newest = [l \in Listeners |-> NoDecisions] /\ lastWord = newest
  /\ raced = {}

(* An action executes with a new value, under a policy decision or a delay *)
(* timer; the latter submits no task.                                      *)
SetDecisionValue(a) ==
  /\ allActionMap[a] < MaxDecisions
  /\ allActionMap' = [allActionMap EXCEPT ![a] = @ + 1]
  /\ actionMap' = [actionMap EXCEPT ![a] = allActionMap[a] + 1]
  /\ UNCHANGED <<listeners, tasks, caches, lastWord, newest, raced>>

(* The end of ActionExecution, whether or not anything changed.            *)
SubmitTask ==
  /\ tasks < MaxTasks
  /\ tasks' = tasks + 1
  /\ UNCHANGED <<actionMap, allActionMap, listeners, caches, lastWord, newest, raced>>

(* The first half of FindSubscribeActionValue, under mutexActionMap_.      *)
(* Mutant: a task takes the decisions only once every action has one.      *)
TakeActionsWaits ==
  /\ tasks > 0
  /\ tasks' = tasks - 1
  /\ IF \E a \in ActionNames : actionMap[a] = 0
     THEN UNCHANGED <<actionMap, caches>>
     ELSE actionMap' = NoDecisions /\ caches' = caches \cup {actionMap}
  /\ UNCHANGED <<allActionMap, listeners, lastWord, newest, raced>>

TakeActions ==
  /\ tasks > 0
  /\ tasks' = tasks - 1
  /\ actionMap' = NoDecisions
  /\ caches' = IF actionMap = NoDecisions THEN caches ELSE caches \cup {actionMap}
  /\ raced' = {a \in ActionNames : IF actionMap[a] # 0 THEN \E cache \in caches : cache[a] # 0
                                                       ELSE a \in raced}
  /\ UNCHANGED <<allActionMap, listeners, lastWord, newest>>

(***************************************************************************)
(* The second half, under mutexActionCallback_.  newActionCbMap is not     *)
(* cleared between listeners, so a listener is also told what the ones     *)
(* before it in the set asked for.                                         *)
(***************************************************************************)
\* Mutant: a listener is told what the ones before it asked for.
SharedMapBefore(cache, l) ==
  LET before == {m \in listeners : \E i, j \in DOMAIN ListenerOrder :
                    i < j /\ ListenerOrder[i] = m /\ ListenerOrder[j] = l}
  IN  DecisionActionValue(cache, UNION {Interest[m] : m \in before})

SharedMap(cache, l) ==
  LET before == {m \in listeners : \E i, j \in DOMAIN ListenerOrder :
                    i <= j /\ ListenerOrder[i] = m /\ ListenerOrder[j] = l}
  IN  DecisionActionValue(cache, UNION {Interest[m] : m \in before})

DeliverActions(cache) ==
  /\ cache \in caches
  /\ caches' = caches \ {cache}
  /\ lastWord' = [l \in Listeners |->
                    IF l \in listeners THEN OnThermalActionChanged(lastWord[l], SharedMap(cache, l))
                                       ELSE lastWord[l]]
  /\ newest' = [l \in Listeners |-> IF l \in listeners
                                    THEN Newer(newest[l], SharedMap(cache, l)) ELSE newest[l]]
  /\ UNCHANGED <<actionMap, allActionMap, listeners, tasks, raced>>

Hears(l, m) ==
  /\ lastWord' = [lastWord EXCEPT ![l] = m]
  /\ newest' = [newest EXCEPT ![l] = m]

(* A second subscription of the same callback is refused.                  *)
(* Mutant: a new listener is not told what was decided before.             *)
SubscribeUntold(l) ==
  /\ l \notin listeners
  /\ listeners' = listeners \cup {l}
  /\ Hears(l, NoDecisions)
  /\ UNCHANGED <<actionMap, allActionMap, tasks, caches, raced>>

SubscribeThermalActionCallback(l) ==
  /\ l \notin listeners
  /\ listeners' = listeners \cup {l}
  /\ Hears(l, DecisionActionValue(allActionMap, Interest[l]))
  /\ UNCHANGED <<actionMap, allActionMap, tasks, caches, raced>>

(* By the client, or by the task its death recipient submits.              *)
UnSubscribeThermalActionCallback(l) ==
  /\ l \in listeners
  /\ listeners' = listeners \ {l}
  /\ Hears(l, NoDecisions)
  /\ UNCHANGED <<actionMap, allActionMap, tasks, caches, raced>>

Deliver == \E cache \in caches : DeliverActions(cache)

Next ==
  \/ \E a \in ActionNames : SetDecisionValue(a)
  \/ SubmitTask
  \/ TakeActions
  \/ Deliver
  \/ \E l \in Listeners : SubscribeThermalActionCallback(l)
  \/ \E l \in Listeners : UnSubscribeThermalActionCallback(l)

(***************************************************************************)
(* Temperature reports never stop, and each of them submits a task; FFRT   *)
(* runs what was submitted, and the listeners answer the calls a task      *)
(* makes under mutexActionCallback_.                                       *)
(***************************************************************************)
Fairness ==
  /\ WF_vars(SubmitTask)
  /\ WF_vars(TakeActions)
  /\ \A cache \in [ActionNames -> 0..MaxDecisions] : WF_vars(DeliverActions(cache))

Spec == Init /\ [][Next]_vars /\ Fairness

-----------------------------------------------------------------------------
(* No decision is lost on its way to a subscriber: of every action it is   *)
(* interested in, the subscriber has been told the latest decision, or     *)
(* that decision waits in actionMap_, or a task has it in its cache.  This *)
(* is what clearing actionMap_ before the listeners are called, and        *)
(* telling a new subscriber from allActionMap_, put at risk.               *)
NoDecisionLost ==
  \A l \in listeners : \A a \in Interest[l] :
    \/ newest[l][a] = allActionMap[a]
    \/ actionMap[a] = allActionMap[a]
    \/ \E cache \in caches : cache[a] = allActionMap[a]

(* The last word a subscriber heard of an action is the latest decision,   *)
(* or that decision is still on its way, or it was taken while an older    *)
(* one was on its way in another task.  Nothing else leaves a subscriber   *)
(* with an old value: not one that arrives between taking and delivering,  *)
(* nor a decision made in between.                                         *)
LastWordCurrent ==
  \A l \in listeners : \A a \in Interest[l] \ raced :
    \/ lastWord[l][a] = allActionMap[a]
    \/ actionMap[a] = allActionMap[a]
    \/ \E cache \in caches : cache[a] = allActionMap[a]

(* What a subscriber that stays hears of an action in the end is the last  *)
(* decision, unless that was taken beside an older one on its way.         *)
DecisionsArrive ==
  \A l \in Listeners :
    <>[](l \in listeners) =>
      <>[](\A a \in Interest[l] : /\ newest[l][a] = allActionMap[a]
                                  /\ lastWord[l][a] = allActionMap[a] \/ a \in raced)
=============================================================================
