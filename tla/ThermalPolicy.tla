---------------------------- MODULE ThermalPolicy ----------------------------
(***************************************************************************)
(* The temperature control loop: a report moves the levels of the sensor   *)
(* clusters, each cluster's policy picks actions for its level, the state  *)
(* machine filters them, every action arbitrates between what it was asked *)
(* and hands the result on (thermal_policy.cpp, ithermal_action.h and the  *)
(* action classes).  mutex_ of ThermalService makes a decision atomic      *)
(* towards reports, state updates and service restarts.  The callbacks of  *)
(* delayed actions run on a thread of the time service, without that       *)
(* mutex: the time service begins one, it writes through a reference into  *)
(* the delays of its action and executes the action, and then it reads the *)
(* reference again.  Decisions fall between these steps and may erase the  *)
(* delay; a step that falls into the middle of a decision is not modelled. *)
(***************************************************************************)
EXTENDS SensorLevels, ThermalAction, FiniteSets

CONSTANTS
  Clusters,      \* cluster name -> its configuration
  ClusterOrder,  \* the cluster names in map order
  StateDeps,     \* cluster name -> set of <<state, value>> it depends on
  Policies,      \* cluster name -> sequence of [level, actions], as parsed
  ActionItems,   \* the configured actions [name, protocol, strict, fallback]
  Values,        \* the values policies use
  States,        \* state name -> set of its values
  Reports,       \* the reports that may come: sensor -> temperature
  Leftovers,     \* what uninitialised memory may hold: [isCompleted, timer]
  MaxPending,    \* bound on charging limits a failing battery leaves waiting
  Nothing        \* no value was given yet

VARIABLES
  typeTempMap,      \* the last report
  clusterLevelMap,  \* clusterLevelMap_
  states,           \* what the state collections hold
  act,              \* action name -> action object
  timers,           \* action name -> the delay ids whose timer is armed
  callbacks,        \* action name -> timer callbacks under way: [id, at, erased]
  undefined,        \* a callback has used a delay that was erased
  pending,          \* charging action -> limits not yet accepted
  applied,          \* what the receiver of each action was last given
  told,             \* ThermalObserver's decisions (allActionMap_)
  restarted,        \* actions a restart of the SoC service reset, not changed since
  soc               \* the SoC performance service: up, down or unnotified

timerVars == <<timers, callbacks, undefined>>
outputs == <<pending, applied, told, restarted>>
vars == <<typeTempMap, clusterLevelMap, states, act, timerVars, outputs, soc>>

(* The action map: name -> [kind, strict, socSet].                         *)
Actions == ActionMap(ActionItems)
ActionNames == DOMAIN Actions
With(sinks) == {a \in ActionNames : Actions[a].kind.sink \in sinks}
Charging == With({"current", "voltage"})

(***************************************************************************)
(* A policy action is [name, value, props, delaytime]: props is the set of *)
(* <<state, value>> attributes, delaytime the split attribute, <<>> when   *)
(* there is none.                                                          *)
(***************************************************************************)
PolicyActions == UNION {Range(config.actions) :
                          config \in UNION {Range(Policies[c]) : c \in DOMAIN Policies}}
DelayedActions == {p.name : p \in {q \in PolicyActions : Len(q.delaytime) = 2}}

ASSUME PolicyAssumption ==
  /\ DOMAIN Policies \subseteq DOMAIN Clusters
  /\ ClusterOrder \in Seq(DOMAIN Clusters) /\ Range(ClusterOrder) = DOMAIN Clusters
  /\ DOMAIN ActionItems \subseteq Nat
  /\ MaxPending \in Nat \ {0}
  /\ \A c \in DOMAIN Clusters : /\ CheckStandard(Clusters[c]) /\ ~Clusters[c].rateFlag
                                /\ LevelCount(Clusters[c]) \in Nat
  /\ \A c \in DOMAIN Policies :
       /\ Policies[c] \in Seq(Range(Policies[c]))
       /\ \A config \in Range(Policies[c]) :
            config.level \in Nat /\ config.actions \in Seq(Range(config.actions))
  /\ Values \subseteq Nat /\ IsFiniteSet(Values)
  /\ 0 \in Values  \* what strtol makes of a malformed value
  /\ \A p \in PolicyActions : p.value \in Values \cup {Malformed}
  /\ <<>> \notin Reports
  /\ Leftovers \subseteq UninitialisedDelay
  /\ \A p \in PolicyActions : p.delaytime # <<>> => p.delaytime[1] > 0

-----------------------------------------------------------------------------
(* Every state the attributes name must exist and hold the named value.    *)
StateMachineDecision(props) ==
  \A p \in props : p[1] \in DOMAIN states /\ states[p[1]] = p[2]

(* Mutant: the policy entries stay in the order of the XML file.           *)
SortLevelAsParsed(configs) == configs

(* The place of an entry is the number of entries up to it in the order of *)
(* the levels.                                                             *)
UpTo(configs, i) ==
  {j \in DOMAIN configs : \/ configs[j].level < configs[i].level
                          \/ configs[j].level = configs[i].level /\ j <= i}
Place(configs, i) == Cardinality(UpTo(configs, i))
SortLevel(configs) ==
  [n \in DOMAIN configs |-> configs[CHOOSE i \in DOMAIN configs : Place(configs, i) = n]]

LevelDecision(t) ==
  clusterLevelMap' =
    [c \in DOMAIN Clusters |->
       UpdateThermalLevel(Clusters[c], t, <<>>, StateMachineDecision(StateDeps[c]),
                          clusterLevelMap[c])]

(***************************************************************************)
(* What one policy entry adds to action object x of action a: the last     *)
(* entry of the list that names a and whose states hold.                   *)
(***************************************************************************)
ActionDecision(a, x, list, uninit) ==
  LET named == {i \in DOMAIN list : list[i].name = a /\ StateMachineDecision(list[i].props)}
      p == list[Max(named)]
  IN  IF named = {} THEN x
      ELSE IF p.delaytime = <<>> THEN AddActionValue(Actions[a].kind, x, 0, p.value)
      ELSE IF Len(p.delaytime) # 2 THEN x
      ELSE AddActionValue(Actions[a].kind, AddActionDelayTime(x, p.delaytime[1], uninit),
                          p.delaytime[1], p.value)

(* The policy entry of the highest level not above the cluster's level;    *)
(* a cluster need not have a policy.                                       *)
ClusterPolicyMap == [c \in DOMAIN Clusters |-> IF c \in DOMAIN Policies THEN SortLevel(Policies[c])
                                                                       ELSE <<>>]
LevelActions(c, level) ==
  LET i == SelectLastInSeq(ClusterPolicyMap[c], LAMBDA config : level >= config.level)
  IN  IF i = 0 THEN <<>> ELSE ClusterPolicyMap[c][i].actions

(***************************************************************************)
(* What PolicyDecision hands to action a, cluster by cluster, and to all   *)
(* actions: a delay that is new finds any leftovers in its uninitialised   *)
(* fields; for an action without delays they do not matter.                *)
(***************************************************************************)
Unread == CHOOSE u \in UninitialisedDelay : TRUE
Collected(a, uninit) ==
  LET upTo[n \in 0 .. Len(ClusterOrder)] ==
        IF n = 0 THEN act[a]
        ELSE ActionDecision(a, upTo[n - 1],
                            LevelActions(ClusterOrder[n], clusterLevelMap'[ClusterOrder[n]]), uninit)
  IN  upTo[Len(ClusterOrder)]
Collections ==
  {[a \in ActionNames |-> Collected(a, IF a \in DelayedActions THEN uninit[a] ELSE Unread)] :
     uninit \in [DelayedActions -> Leftovers]}

-----------------------------------------------------------------------------
(***************************************************************************)
(* What follows when action objects change: the observer is told, and the  *)
(* values go to their receivers.  A charging limit waits in                *)
(* chargeLimitList_ for the end of the decision; a voltage limit is put    *)
(* there only if the battery service is present.  A request to the SoC     *)
(* performance service is lost while that service is down.                 *)
(* `battery' is what the battery service answers: "absent", "fails", "ok". *)
(***************************************************************************)
Changed(newAct) == {a \in ActionNames : newAct[a].lastValue # act[a].lastValue}

(* Mutant: the decision is emplaced, so only the first one counts.         *)
SetDecisionValueEmplaces(newAct) ==
  told' = [a \in ActionNames |->
             IF a \in Changed(newAct) /\ told[a] = Nothing THEN newAct[a].lastValue
             ELSE told[a]]

SetDecisionValue(newAct) ==
  told' = [a \in ActionNames |->
             IF a \in Changed(newAct) THEN newAct[a].lastValue ELSE told[a]]

ChargerRequest(newAct) == Changed(newAct) \cap With({"current"})
SetVoltage(newAct, battery) ==
  IF battery = "absent" THEN {} ELSE Changed(newAct) \cap With({"voltage"})

LimitList(newAct, battery) ==
  [a \in Charging |->
     IF a \in ChargerRequest(newAct) \cup SetVoltage(newAct, battery)
     THEN Append(pending[a], newAct[a].lastValue) ELSE pending[a]]

SocLimitRequest(newAct) ==
  IF soc = "down" THEN {} ELSE Changed(newAct) \cap With({"soc"})

Request(newAct) ==
  SocLimitRequest(newAct) \cup
  {a \in Changed(newAct) \cap With({"direct"}) :
     ~Silent(Actions[a].kind, newAct[a].lastValue)}

Given(a, newAct) == Received(Actions[a].kind, newAct[a].lastValue)

(* ExecuteCurrentLimit and ExecuteVoltageLimit send the whole list and     *)
(* clear it only when the battery service accepts it.                      *)
(* Mutant: the list is cleared whatever the battery service answers.       *)
ExecuteLimitsClears(list, battery) == [a \in Charging |-> <<>>]

ExecuteLimits(list, battery) ==
  IF battery = "ok" THEN [a \in Charging |-> <<>>] ELSE list
AcceptedLimits(list, battery) ==
  IF battery = "ok" THEN {a \in Charging : list[a] # <<>>} ELSE {}

(* The timers Execute stops with the delays it drops, and the ones it      *)
(* starts.                                                                 *)
(* Mutant: a dropped delay leaves its timer running.                       *)
StoppedTimersNone(newAct, a) == {}

StoppedTimers(newAct, a) ==
  {i \in timers[a] : i \notin DOMAIN newAct[a].delays /\ ~act[a].delays[i].isCompleted}
StartedTimers(newAct, a) ==
  {i \in DOMAIN newAct[a].delays :
     /\ newAct[a].delays[i].timer = "armed"
     /\ i \in DOMAIN act[a].delays => act[a].delays[i].timer # "armed"}

(* The delays Execute drops are erased under the callbacks that run.       *)
Callback(i, at, erased) == [id |-> i, at |-> at, erased |-> erased]
Overtaken(newAct, a) ==
  {Callback(c.id, c.at, c.erased \/ c.id \notin DOMAIN newAct[a].delays) : c \in callbacks[a]}

(* PolicyDecision: collect, execute every action, then the charging limits.*)
Executions(collected) ==
  {[a \in ActionNames |->
      Execute(Actions[a].kind, Actions[a].strict, collected[a], timerFails)] :
     timerFails \in BOOLEAN}

PolicyDecision ==
  \E collected \in Collections : \E newAct \in Executions(collected) :
  \E battery \in {"absent", "fails", "ok"} :
    LET list == LimitList(newAct, battery)
        requested == Request(newAct)
        accepted == AcceptedLimits(list, battery)
    IN
    /\ battery # "ok" => \A a \in Charging : Len(list[a]) <= MaxPending
    /\ act' = newAct
    /\ pending' = ExecuteLimits(list, battery)
    /\ applied' = [a \in ActionNames |->
                     IF a \in requested THEN Given(a, newAct)
                     ELSE IF a \in accepted THEN Last(list[a])
                     ELSE applied[a]]
    /\ SetDecisionValue(newAct)
    /\ timers' = [a \in ActionNames |->
                    (timers[a] \ StoppedTimers(newAct, a)) \cup StartedTimers(newAct, a)]
    /\ callbacks' = [a \in ActionNames |-> Overtaken(newAct, a)]
    /\ restarted' = restarted \ Changed(newAct)
    /\ UNCHANGED undefined

OnSensorInfoReported(t) ==
  /\ ~undefined
  /\ typeTempMap' = t
  /\ LevelDecision(t)
  /\ PolicyDecision
  /\ UNCHANGED <<states, soc>>

ExecutePolicy ==
  /\ ~undefined
  /\ LevelDecision(typeTempMap)
  /\ PolicyDecision
  /\ UNCHANGED <<typeTempMap, states, soc>>

(* A state collection takes another value.                                 *)
StateChanged(s, v) ==
  /\ ~undefined
  /\ states[s] # v
  /\ states' = [states EXCEPT ![s] = v]
  /\ UNCHANGED <<typeTempMap, clusterLevelMap, act, timerVars, outputs, soc>>

(***************************************************************************)
(* The timer of a delay runs out: the time service begins its callback,    *)
(* which StopTimer no longer takes back.  The callback completes the delay *)
(* and executes the action once more, outside any policy decision, leaving *)
(* charging limits in their list; then it reads the timer's id from the    *)
(* delay and destroys the timer.                                           *)
(***************************************************************************)
TimerFires(a, i) ==
  /\ ~undefined
  /\ i \in timers[a]
  /\ timers' = [timers EXCEPT ![a] = @ \ {i}]
  /\ callbacks' =
       [callbacks EXCEPT ![a] = @ \cup {Callback(i, "begun", i \notin DOMAIN act[a].delays)}]
  /\ UNCHANGED <<typeTempMap, clusterLevelMap, states, act, undefined, outputs, soc>>

CallbackExecutes(a, i) ==
  /\ ~undefined
  /\ Callback(i, "begun", FALSE) \in callbacks[a]
  /\ \E battery \in {"absent", "ok"} :
       LET newAct == [act EXCEPT ![a] =
                        TimerCallback(Actions[a].kind, Actions[a].strict, act[a], i)]
       IN  /\ act' = newAct
           /\ SetDecisionValue(newAct)
           /\ restarted' = restarted \ Changed(newAct)
           /\ pending' = LimitList(newAct, battery)
           /\ applied' = [b \in ActionNames |->
                            IF b \in Request(newAct) THEN Given(b, newAct)
                            ELSE applied[b]]
  /\ \A b \in Charging : Len(pending'[b]) <= MaxPending
  /\ callbacks' = [callbacks EXCEPT ![a] = (@ \ {Callback(i, "begun", FALSE)})
                                             \cup {Callback(i, "executed", FALSE)}]
  /\ UNCHANGED <<typeTempMap, clusterLevelMap, states, timers, undefined, soc>>

CallbackEnds(a, i) ==
  /\ ~undefined
  /\ Callback(i, "executed", FALSE) \in callbacks[a]
  /\ callbacks' = [callbacks EXCEPT ![a] = @ \ {Callback(i, "executed", FALSE)}]
  /\ UNCHANGED <<typeTempMap, clusterLevelMap, states, act, timers, undefined, outputs, soc>>

(* A callback whose delay was erased uses memory that was freed; what the  *)
(* program does from there on is not defined, and the model stops.         *)
UsesErasedDelay(a) ==
  /\ ~undefined
  /\ \E c \in callbacks[a] : c.erased
  /\ undefined' = TRUE
  /\ UNCHANGED <<typeTempMap, clusterLevelMap, states, act, timers, callbacks, outputs, soc>>

(***************************************************************************)
(* The SoC performance service dies and forgets its limits; it comes back; *)
(* OnAddSystemAbility hears of it and resets every action in SocSet.       *)
(***************************************************************************)
SocDies ==
  /\ ~undefined
  /\ soc # "down"
  /\ soc' = "down"
  /\ applied' = [a \in ActionNames |-> IF a \in With({"soc"}) THEN Nothing ELSE applied[a]]
  /\ UNCHANGED <<typeTempMap, clusterLevelMap, states, act, timerVars, pending, told, restarted>>

SocStarts ==
  /\ ~undefined
  /\ soc = "down"
  /\ soc' = "unnotified"
  /\ UNCHANGED <<typeTempMap, clusterLevelMap, states, act, timerVars, outputs>>

OnAddSystemAbility ==
  /\ ~undefined
  /\ soc = "unnotified"
  /\ soc' = "up"
  /\ act' = [a \in ActionNames |-> IF Actions[a].socSet
                                   THEN ResetActionValue(Actions[a].kind, act[a])
                                   ELSE act[a]]
  /\ restarted' = restarted \cup Changed(act')
  /\ UNCHANGED <<typeTempMap, clusterLevelMap, states, timerVars, pending, applied, told>>

Init ==
  /\ typeTempMap = <<>>
  /\ clusterLevelMap = [c \in DOMAIN Clusters |-> 0]
  /\ states \in {f \in [DOMAIN States -> UNION Range(States)] :
                   \A s \in DOMAIN States : f[s] \in States[s]}
  /\ act = [a \in ActionNames |-> NewAction(Actions[a].kind)]
  /\ timers = [a \in ActionNames |-> {}]
  /\ callbacks = [a \in ActionNames |-> {}] /\ undefined = FALSE
  /\ pending = [a \in Charging |-> <<>>]
  /\ applied = [a \in ActionNames |-> Nothing]
  /\ told = [a \in ActionNames |-> Nothing]
  /\ restarted = {}
  /\ soc = "up"

Next ==
  \/ \E t \in Reports : OnSensorInfoReported(t)
  \/ ExecutePolicy
  \/ \E s \in DOMAIN States : \E v \in States[s] : StateChanged(s, v)
  \/ \E a \in ActionNames : \E i \in timers[a] : TimerFires(a, i)
  \/ \E a \in ActionNames : \E i \in DOMAIN act[a].delays : CallbackExecutes(a, i) \/ CallbackEnds(a, i)
  \/ \E a \in ActionNames : UsesErasedDelay(a)
  \/ SocDies
  \/ SocStarts
  \/ OnAddSystemAbility

Spec == Init /\ [][Next]_vars

-----------------------------------------------------------------------------
(***************************************************************************)
(* Properties.                                                             *)
(***************************************************************************)

(* Between decisions every action is idle: no value is left over for the   *)
(* next decision, and no delay id stays registered.                        *)
TypeOK ==
  /\ typeTempMap \in Reports \cup {<<>>}
  /\ \A c \in DOMAIN Clusters : clusterLevelMap[c] \in 0..LevelCount(Clusters[c])
  /\ \A a \in ActionNames :
       /\ act[a].lastValue \in Values \cup {Actions[a].kind.reset, Actions[a].kind.fallback}
       /\ act[a].valueList = {} /\ act[a].ids = {}
       /\ \A i \in DOMAIN act[a].delays :
            act[a].delays[i].timer \in {"none", "junk", "armed", "spent"}
  /\ soc \in {"up", "down", "unnotified"}

(***************************************************************************)
(* Arbitration, stated without the loops.  The policy of a cluster in      *)
(* force is the one of its highest configured level not above the current  *)
(* one; within it, the last entry for an action whose states hold counts.  *)
(***************************************************************************)
Configs == [c \in DOMAIN Policies |-> Range(Policies[c])]
ConfigsInForce(c) ==
  LET reached == {config \in Configs[c] : config.level <= clusterLevelMap[c]}
  IN  {config \in reached : \A other \in reached : other.level <= config.level}

Asked(config, a) ==
  LET applying == {i \in DOMAIN config.actions :
                     config.actions[i].name = a /\ StateMachineDecision(config.actions[i].props)}
  IN  {config.actions[i] : i \in {j \in applying : \A k \in applying : k <= j}}

Number(p) == IF p.value = Malformed THEN 0 ELSE p.value

(* Values without a delay, and delayed ones whose delay is over.           *)
ValuesInForce(a) ==
  UNION {UNION {{Number(p) : p \in {q \in Asked(config, a) :
                   /\ q.value = Malformed => ~Actions[a].kind.drops
                   /\ \/ q.delaytime = <<>>
                      \/ /\ Len(q.delaytime) = 2
                         /\ act[a].delays[q.delaytime[1]].isCompleted}}
                  : config \in ConfigsInForce(c)} : c \in DOMAIN Configs}

ArbitratesTo(a, value) ==
  LET inForce == ValuesInForce(a) IN
  \/ inForce = {} /\ value = Actions[a].kind.fallback
  \/ /\ value \in inForce
     /\ \A w \in inForce : IF Actions[a].strict THEN value <= w ELSE value >= w

(* A report or a forced execution leaves every action with exactly the     *)
(* value its arbitration scheme gives for all clusters together: no value  *)
(* of an earlier level, of a failed state condition or of a running delay  *)
(* takes part, and an action nobody asks for falls back.                   *)
CallbacksRest ==  \* no callback begins, executes or ends
  IF act' = act THEN callbacks' = callbacks
  ELSE \A a \in ActionNames : \A c \in callbacks'[a] : ~c.erased => c \in callbacks[a]
Decided == UNCHANGED <<states, soc, undefined>> /\ CallbacksRest
DecisionArbitrates ==
  [][Decided => \A a \in ActionNames : ArbitratesTo(a, act[a].lastValue)']_vars

(* A timer that may still fire belongs to a delay the action still holds   *)
(* and has not completed, so no callback begins for a delay that is gone,  *)
(* and none begins twice for one delay.  A callback under way is the only  *)
(* one of its delay, unless a decision has erased the delay meanwhile:     *)
(* StopTimer does not wait for a callback, and only so does a callback     *)
(* come to write through its reference into an erased delay.               *)
NoOrphanTimer ==
  \A a \in ActionNames :
    /\ \A i \in timers[a] :
         /\ i \in DOMAIN act[a].delays
         /\ act[a].delays[i].timer = "armed" /\ ~act[a].delays[i].isCompleted
    /\ \A c \in callbacks[a] : ~c.erased =>
         /\ c.id \in DOMAIN act[a].delays /\ c.id \notin timers[a]
         /\ act[a].delays[c.id].isCompleted = (c.at = "executed")

(* No charging current decided is ever lost: the latest one was accepted   *)
(* by the battery service or is the last one waiting, whatever the order   *)
(* of failures, timers and decisions.                                      *)
Delivered(a) ==
  \/ applied[a] = act[a].lastValue
  \/ applied[a] = Nothing /\ act[a].lastValue = Actions[a].kind.reset
CurrentNotLost ==
  \A a \in With({"current"}) :
    IF pending[a] # <<>> THEN Last(pending[a]) = act[a].lastValue ELSE Delivered(a)

(* While the SoC performance service is up and known to be up, it holds    *)
(* the limit the action believes it holds: a restart, and the requests     *)
(* lost in it, are made good by the next decision.                         *)
SocLimitHeld ==
  soc = "up" => \A a \in With({"soc"}) : \/ applied[a] = Given(a, act)
                                          \/ act[a].lastValue = Actions[a].kind.reset

(* The first decision after a restart of the SoC performance service is    *)
(* known gives it every limit again, even one that did not change and even *)
(* the fallback, whatever the class makes of the value: resetting to a     *)
(* value no decision takes forces the request.                             *)
ResetForces(a) ==
  /\ Actions[a].kind.reset # Actions[a].kind.fallback
  /\ \A p \in PolicyActions : p.name = a => Number(p) # Actions[a].kind.reset
SocRestored ==
  [][Decided /\ soc = "up" =>
       \A a \in With({"soc"}) : ResetForces(a) => applied'[a] = Given(a, act')]_vars

(* Subscribers of action decisions are never behind the actions, except    *)
(* for an action that a restart of the SoC service has reset and no        *)
(* decision has changed since, and for one whose value was the initial one *)
(* from the start, which nobody is ever told.                              *)
ObserverCurrent ==
  \A a \in ActionNames :
    \/ told[a] = act[a].lastValue
    \/ act[a].lastValue = Actions[a].kind.reset /\ (a \in restarted \/ told[a] = Nothing)
=============================================================================
