# TLA+ models of the thermal manager

This directory holds TLA+ models of the OpenHarmony thermal manager, TLC
configurations that check them on small instances, and TLAPS proofs of their
safety properties for every instance.  `PROJECT.json` maps every definition to
the source lines it stands for.

## 1. The system

| Component | State | Operations | Hard behaviour |
|---|---|---|---|
| Sensor cluster (`thermal_config_sensor_cluster.cpp`) | the current level | one judgment per reported sensor, upward and downward search loops, the greatest result wins | hysteresis over long report sequences, missing sensors, rates that are one report old |
| Thermal policy (`thermal_policy.cpp`) | last report, level of each cluster | level decision, policy selection, state filter, action collection and execution | values left from an earlier decision; arbitration across clusters |
| Actions (`ithermal_action.h`, `thermal_action/action/`) | collected values, last value, delayed values and their timers | `AddActionValue`, `AddActionDelayTime`, `Execute`, timer callback, `ResetActionValue` | timers outlive the decision that started them; a decision erases a delay under its callback; receivers that fail or restart |
| Delayed state collections (`state_machine/`) | state value, timer id | common event handlers, timer callback, `DecideState` | a callback that waits for the mutex while an event stops its timer; timers that are refused; a charger read while its events are under way |
| Action subscribers (`thermal_observer.cpp`) | decisions to deliver, all decisions, listeners | decide, submit a task, take, deliver, subscribe, unsubscribe | tasks run concurrently and deliver out of order |
| Temperature subscribers (`thermal_observer.cpp`) | last report, what was last announced, listeners | report, notify, subscribe, unsubscribe | one static map decides for all listeners what has changed |
| Service start-up (`thermal_service.cpp`, `thermal_srv_config_parser.cpp`, `state_machine.cpp`) | configuration sections, actions, state collections and their event handlers | parse the files in turn, build the modules, listen, publish; initialise, update and ask the state machine | files that fail half way; requests before the state machine is initialised, which leave event handlers and timers with a collection that is destroyed |
| HDI registration (`thermal_service.cpp`) | references to device manager and host, `isHdiRemove_`, retry tasks | register a status listener, retry, register callbacks, stop | device manager and host crash and return in any order; a registration that fails is not retried; a pointer shared by three threads without a lock |
| Temperature subscriber (`thermal_service_subscriber.cpp`), emulation (`thermal_mgr_dumper.cpp`) | last report, history, rise rates, the report switch | report, emulate, throw the switch | a report that passed the check before the switch was thrown; sensors that come and go |
| Thermal level action (`action_thermal_level.cpp`) | last level, synchronous and asynchronous listeners | notify, subscribe, unsubscribe, death of a client | a first callback overtaken by a decision; two sets copied at different times; a synchronous callback blocks the decision thread |
| Airplane action (`action_airplane.cpp`) | two flags shared with the service | request, user's change, airplane event | check, flag and call are three steps beside the event thread; events attributed to the wrong party |
| Charge-idle mode (`charger_state_collection.cpp`) | cached values, the mode | battery events, level event | values that arrive by three kinds of events, missing parameters, failed publications |
| Fan fault detection (`fan_fault_detect.cpp`) | limits | judge a report | missing sensors, overlapping limits |
| Protector (`application/protector/`) | zones, levels, actions, timer | initialise, wake up, end | readings and writes that fail; lists that are never cleared |
| Client library (`thermal_mgr_client.cpp`, `thermal_mgr_listener.cpp`) | proxy, mutex, callback | connect, call, subscribe, death of the service | the service dies inside `Connect`, or between `Connect` and the call |

A temperature report enters `ThermalService::HandleThermalCallbackEvent`, which
holds `mutex_` while the subscriber stores it, the observer hands it to the
policy, the policy decides levels and executes actions, and the temperature
listeners are called.  Action listeners are called later by an FFRT task.
Common events and timers change the state collections on threads of their own.

What makes each component correct:

* **Sensor cluster** - the level is the hysteresis level of the configuration,
  stays within the configured levels, moves only over levels a sensor
  justifies, settles, and a worse report never gives a lower level.
* **Policy and actions** - after a decision every action has exactly the value
  its arbitration scheme gives over all clusters; nothing is left over; a timer
  that may fire belongs to a delay that still exists; a decided value reaches
  its receiver although receivers fail and restart.
* **State collections** - a state that only a timer ends has a timer, and ends;
  unplugging the charger opens the critical window.
* **Subscribers** - no decision, temperature or level is lost for a listener
  that stays, and the last one it hears is the current one, whatever the order
  of tasks, subscriptions and deaths.
* **Start-up** - the service runs with the sections of a file that was accepted
  as a whole, with clusters the level search can use and with every configured
  state; conditions follow what their states were told last.
* **HDI registration** - when everything is up and quiet the callbacks are with
  the host that is up, whatever crashed before; reports come back by themselves.
* **Collectors** - rates follow the history, the idle mode published is that of
  the values heard last, and the airplane mode is given back to the user.
* **Protector** - one reading settles a level, and a limit decided is the one
  in force.
* **Client** - a proxy of a dead service is always about to be reset, and
  nothing but a death makes a call fail.

## 2. Modules

| Module | Models | State | Actions |
|---|---|---|---|
| `SensorLevels` | operators of `ThermalConfigSensorCluster` | none | `UpdateThermalLevel` and below it `AscJudgment`, `DescJudgment`, the search loops, the extra conditions |
| `SensorCluster` | one cluster with its report, rates and state condition | `latestLevel_`, `typeTempMap_`, `sensorsRateMap_` | `OnTemperatureChanged`, `ExecutePolicy`, `StateChanged` |
| `ThermalAction` | operators of `IThermalAction` and its subclasses | none (an action object is a record) | `ActionMap` (factory and manager), `AddActionDelayTime`, `AddActionValue`, `Execute`, `ExecuteInner`, the timer callback, `ResetActionValue` |
| `ThermalPolicy` | composes `SensorLevels` and `ThermalAction` with the policy, the state filter and the receivers | levels, action objects, timers, callbacks under way, limit lists, what receivers and observers hold | `OnSensorInfoReported`, `ExecutePolicy`, `StateChanged`; the steps of a timer callback `TimerFires`, `CallbackExecutes`, `CallbackEnds`, `UsesErasedDelay`; `SocDies`, `SocStarts`, `OnAddSystemAbility` |
| `DelayedStates` | screen, charge-delay and start-up collections with the time service | state values, timer ids, running timers, callbacks on their way, events in flight | one per event handler, `TimerExpires`, one `ResetState` per collection |
| `ThermalLevel` | `ActionThermalLevel` | `lastValue_`, listener sets, the decision thread, one request per client | `ExecuteInner` and the steps of the notification (`NotifyAsync`, `NotifySync`, `ClientAnswers`), the steps of a subscription, `Remove`, `OnRemoteDied` |
| `ActionNotify` | action subscribers of `ThermalObserver` | `actionMap_`, `allActionMap_`, listeners, tasks | decide, submit, take, deliver, subscribe, unsubscribe |
| `TempNotify` | temperature subscribers of `ThermalObserver` | stored report, `preSensor`, listeners | report, notify, subscribe, unsubscribe |
| `ConfigParser` | operators of `ThermalSrvConfigParser`: for each node, whether it is accepted and what it stores | none | |
| `FanFault` | operators of `FanFaultDetect` | none | |
| `Startup` | composes `ConfigParser` and `FanFault` with `OnStart`, the action manager and the state machine | phase of `OnStart`, file and node, sections, action map, collections, handlers, delay timers, `isCharge_`, the display | `OnStart`, `ParseXmlFile` (a root node), `InitModules`, `AddListeners`, `Publish`, `StateMachineInit`, `UpdateThermalState`, `SetScene`, `HandleScreen`, `HandlePower`, `TimerFires`, `ReadChargeState`, `DisplayTurns` |
| `HdiRegistration` | `RegisterHdiStatusListener`, its listener and tasks, system ability notices, `OnStop`; device manager and host as environment | references, flags, tasks, retries, listeners, notices | one per handler; registration in two steps per thread; crash and start of manager and host |
| `ThermalClient` | `ThermalMgrClient` and `ThermalMgrListener` with the service as environment | proxy, mutex, threads, death recipients and notices | `Begin`, `Connect`, `AddDeathRecipient`, `StoreProxy`, `Call`, `ResetProxy`, death and start of the service |
| `ServiceHandle` | abstract: what a client may rely on of its reference to the service | up, incarnation, reference | `Attach`, `Detach`, `Starts`, `Dies` |
| `TempReport`, `ChargeIdle`, `Airplane` | temperature history and emulation; charge-idle mode; airplane mode | the members of the classes, reports that wait for the mutex, the request and the events under way | one per handler, two for a report, three for a request of the airplane mode |
| `Reports` | the three together | `part` | |
| `Protector` | the protector process | zones, levels, action values, device nodes, counters | `ThermalKernelServiceInit`, `WakeUp`, `LoopEnds` |
| `SensorCluster_proofs`, `ThermalPolicy_proofs`, `ThermalLevel_proofs`, `HdiRegistration_proofs` | theorems about the module each is named after | | |
| `ThermalObserver_proofs` | theorems about `ActionNotify` and `TempNotify` | | |
| `StateMachine_proofs` | theorems about `Startup` and `DelayedStates` | | |
| `Processes_proofs` | theorems about `ThermalClient` and `Protector` | | |
| `Reports_proofs` | theorems about `ChargeIdle`, `Airplane` and `TempReport`, as parts of `Reports` | | |

The `MC*` modules give the constants values.  Definitions keep the names of the
source.  An operator whose comment begins with "Mutant" is a plausible wrong
version of the definition after it: with it in place, TLC finds the property
that `PROJECT.json` names violated.

What is abstracted: temperatures, levels and values are small numbers; names
are strings; logging, hisysevent reports, dump texts and the simulation files
are left out.  Memory the code does not initialise (`PolicyDelayAction`,
`ithermal_action.h:30`) holds any of `Leftovers`.  Some decisions of scale:

* In `ThermalPolicy` a decision is one step, as `mutex_` of the service makes
  it towards reports, state updates and `OnAddSystemAbility`.  The battery
  service gives one answer per decision, for currents and voltages alike.  A
  timer callback runs on a thread of the time service without that mutex and is
  three steps: it begins, executes the action, and reads the id of its timer
  from its delay once more.  Decisions fall between these steps; one that drops
  the delay erases it under the callback, and a callback that then uses it ends
  the behaviour (`UsesErasedDelay`), since the language leaves the rest undefined.
* The action classes share one arbitration and differ in a record: start and
  reset value, fallback, receiver, what the receiver is given (a switch, a boost
  level, a shutdown only if not 0) and whether a malformed value is dropped.
  Ratios are percentages.  The receivers called directly (display, audio, node
  files, dialogs) always accept; the code ignores their answer.
* A report in `ThermalPolicy` meets clusters without rise rates; those, and
  every other extra condition, are explored in `SensorCluster`.
* In `DelayedStates` the time service may refuse to create or to start a timer,
  which no collection looks at.  Stopping a timer succeeds, and does not take back
  a callback that waits for the mutex.  The display and the cable are in any state
  when the service starts; the battery service may say that a plugged battery is
  not charging.
* In `Startup` a document is a sequence of root nodes, a node a record of its
  attributes, a number a number or `BadNumber`; members the parser leaves
  uninitialised hold `Indeterminate`.  A state's value is a set of bits, which
  only the `cust` state looks into.  The receiver's two tries to subscribe are
  one that succeeds or fails.  Event handlers and timers hold the identity of a
  collection; one that the map does not own is freed memory.  `DecideState` answers
  as each class does: the charger with `isCharge_`, whatever its battery events say
  (these are in `ChargeIdle`), a screen without a delay with the display, the others
  with their value.  The shipped configuration has a `charge` state and no
  `charge_delay`: `isCharge_` is then only read at `Init` and when the battery
  service arrives.
* In `HdiRegistration` a reference is the incarnation it refers to; a call
  through a reference to a process that is gone does nothing.  A host that is up may
  not be found, or may refuse a callback.
* In `ThermalClient` the calls are subscribing, unsubscribing, the sensor query
  (the only one that looks for a null proxy) and any other.
* `TempReport`, `ChargeIdle` and `Airplane` share no variable and each property
  of `Reports` is about one of them, so a behaviour of `Reports` moves one of
  them only: all states of each are reached, the sum instead of the product.
  The threads that report temperatures are the HDI's and those of the requests that
  read them.  The rise rate is a fraction, since the code divides in floating point: an
  integer would lose a slow rise over nine or more reports.
* In `Protector` a decision is one step: the process has a single thread.
* In `ThermalLevel` a client subscribes either synchronously or
  asynchronously, and the decision thread is the only one that executes the
  action.  A synchronous callback keeps its caller waiting until the client has run
  it or has died.

## 3. Runs

Type invariants are checked where the level search, the action objects and the
proxy rely on them (`cluster`, `policy`, `client`); the other runs are spent on
properties that relate several pieces of state.

| Run | Question | Instance |
|---|---|---|
| `cluster` | do the search loops compute hysteresis, settle, stay monotone and justify each level? | nine configurations (one and two sensors, ascending, descending, auxiliary, difference, rate, without hysteresis, inverted), temperatures 0..5, trends of two rates |
| `policy` | does every decision arbitrate over all clusters, and is nothing lost to failures, timers, overtaken callbacks and restarts? | two clusters sharing actions, a state condition, unsorted policy entries, a malformed and a valid delay, malformed values; SoC limits, a boost and a switch, a charging current, a ratio, a popup, a shutdown; at most two limits waiting |
| `delayed_states` | does every delay end, does every unplugging open a window, and is a running timer known? | three timers per collection, two events in flight, any display and charger at the start, timers refused at any time |
| `screen_off` (violation) | does the screen state stay off after the screen-off event? | same |
| `thermal_level` | does every client end up with the current level, although synchronous ones may never return, and is a dead one forgotten? | one synchronous and one asynchronous client, two changes, a value beyond ESCAPE |
| `action_notify` | is any decision lost, never delivered, or replaced by an older one? | two listeners with overlapping interests, three decisions per action, two waiting tasks |
| `startup` | what is the service built from, whatever the files hold, and does its state machine answer by what it was told? | policy, vendor and system file out of ten documents (complete, cut off, without levels, in the wrong order, malformed in four ways, small, with delays) or absent; three requests or events on five states |
| `hdi_registration` | are the callbacks registered again after any crash? | two incarnations of manager and host, two registrations that fail for no reason, fan callback configured |
| `client` | is the proxy a `ServiceHandle`, and what can make a call fail? | two threads, three incarnations of the service, two callbacks |
| `reports` | do rates, idle mode and airplane mode follow what was heard? | two sensors (three temperatures of one, one of the other), two threads that report, histories of three, two rates; values on both sides of each idle limit and missing ones; three airplane events under way |
| `protector` | does a reading settle a level, and is the limit in force? | the shipped configuration (in degrees), one with two control nodes, a repeated type and a zone without items, one with intervals below a second; six temperatures, every failing read and write |
| `temp_notify` | does each listener hear every change although all share `preSensor`? | two listeners that share a type, three temperatures |

The bounds are enough in this sense.  Six temperatures put a reading below,
between and above every threshold and setback of three levels.  Three timers
are one that is running, one whose callback is on its way and one to start; a
fourth would only repeat the second.  Three airplane events are a change by the user,
the service's own and another change.  Two threads that report, the HDI's and a
request's, put two reports on the wrong side of the switch.  Two tasks that started and one that waits
give every order of taking and delivering; three decisions give one of each
kind: taken, waiting and new.  Two clients of the thermal level, one of each
kind, suffice as clients do not look at each other; two changes give a first
and a later level.  Two limits waiting show a list that grows behind a failure.
Ten documents hold every way for a node to be refused that the parser tests in
a different place, and leave sections behind before and after the failure; three
requests are one before the state machine's initialisation, one after, and an
event; timers fire beside them.  Two registrations that fail are one of each callback
with one host, or one with each host.  Two incarnations of manager and host give a crash in every step of the
first registration and one more before the second; a third only repeats the
second, as nothing counts incarnations.  Three incarnations of the service let a
death notice arrive two lives late.  The protector's run is complete: the
process makes two wake-ups.  `policy` holds no voltage action, which would triple
its states; currents go through the same lists.
`SocRestored` looks at the classes whose reset value no decision takes; for
`socperf`, which resets to its fallback, a 0 is not sent again, and a value read
as 0 is never sent to a limit.

### Fairness

Safety runs assume none.  `delayed_states` assumes that published events are
delivered, that started timers expire and that a callback gets the mutex: the
event and the time service promise the first two, and no handler holds the mutex
while it waits for another.  That a timer is started when asked for is not assumed.  `action_notify` assumes that submitted tasks start
and finish, which takes listeners that answer the calls a task makes, and that the
policy goes on deciding (temperature reports never stop and each one submits a
task).  `thermal_level` assumes that the service goes on wherever it does not wait
for a client, that the IPC gives up a call to a dead client, that the
unsubscription task runs and that living clients read what waits in their queues.
It does not assume that a client ever returns from a synchronous callback: such a
client stops the decision thread, and `LevelArrives` promises a synchronous client
something only as long as no decision waits for good; the asynchronous clients are
called first and miss no level.  `hdi_registration` assumes that
threads and tasks run and notices and events are delivered (one condition for
all: each step leaves less to do while manager and host stay up), and `client`
that a thread inside an operation goes on and death notices are delivered.  No
fairness is assumed of users, chargers, sensors or clients that subscribe.

### Refinement

`ThermalClient` implements `ServiceHandle` (`ImplementsHandle`), with the
incarnation whose proxy is stored, or about to be stored once its death recipient
is added, as the reference.  The abstract specification says that a reference is
taken only of a service that is up, is given up only after that service died, and
is given up then; the last is a liveness property and uses the fairness above.
The first two, the safety part (`Handle!Safety`), are also proved.

### What the violation shows

`screen_off`: a callback that waits for the mutex turns the screen state on
after the screen went off (`screen_state_collection.cpp:117`).

### What the passing properties except

Several properties hold with a named exception, which is the part of the code to
look at:

* `NoOrphanTimer`: a delay that a decision erased under its callback
  (`ithermal_action.h:86`); nothing else makes a callback use an erased delay.
* `ObserverCurrent`: an action that a restart of the SoC service reset and no
  decision has changed since; an action that never left its initial value.
* `NeverStuck`, `DelaysEnd`: a collection whose last timer was refused
  (`screen_state_collection.cpp:85`); a display that is on since before the service
  started, of which no event tells when a delay is configured.
* `UnpluggingOpensWindow`: `isCharge_` last got its value without notice of the
  charger: plugged and not charging, read while the unplugging was on its way, or
  never read.
* `LastWordCurrent`, `DecisionsArrive`: a decision taken while another task held an
  older one of the same action: the callbacks carry no sequence, and the older
  value may be delivered last (`thermal_observer.cpp:188`).
* `LevelArrives`: synchronous clients while a decision waits for one of them.
* `ReportsComeBack`, `ReportsResume`: a callback that the running host refused,
  which nobody registers again; the device manager crashed before `OnStart`
  listened to it; the host crashed while the service had a reference and no
  listener; a stop event was delivered after its manager was gone.
* `CrashNeedsRetry`: a null `hdiServiceMgr_` is used only by the notice thread or
  the retry queue, after a retry.
* `EventsReachState`, `ConditionFollowsUpdates`: a state with a timer (screen, charge
  delay, start-up delay) updated by a request before the state machine's `Init`, and
  a start-up delay listed twice: the handler or the timer then calls a collection
  that is destroyed.
* `AcceptedConfig`: a section that only the failed vendor file has.
* `LimitInForce`: an action whose last write failed, and one named twice by
  `executeActionList_`, whose node may be left with 0.
* `AirplaneGivenBack`: a request that failed, a request checked while an event was
  still to be read, and a change by the user between the check of a request and its
  call.
* `IdleTold`: a publication that failed, until the next; the flag's initial value.
* `RatesFollowHistory` is about the newest rate: the older ones are refilled with it
  by reports of other sensors (`thermal_service_subscriber.cpp:88`).
* `SettledCurrent`: a listener whose first callback was overtaken by a decision
  (`action_thermal_level.cpp:139`).
* `DeadForgotten`: a client that died before it was registered.
* `DecisionArbitrates`: the timer callback, which arbitrates only between
  completed delayed values (`ithermal_action.h:87`).

## 4. Proofs

Each theorem is about the specification without its fairness, for every value of
the constants that satisfies the module's assumption; the bounds that the runs
give small values (timers, events, incarnations, tasks) are any numbers.  The
assumptions say only what kind of thing a constant is, except where noted.

### Sensor cluster

`SensorCluster_proofs` proves for every set of configurations, temperatures and
rate lists that satisfies `ClustersAssumption` (the parser's `CheckStandard`, at
least one level, integers where integers are read):

* `TypeCorrect`: `Spec => []TypeOK`.  The level stays within the configured
  levels, on which every `levItems.at(...)` relies.
* `MovesAreJustified`: `Spec => LevelMovesJustified`.
* `HysteresisDecided`: `Spec => []DecidesHysteresisLevel`, for any number of
  sensors and levels.
* `WorseNeverLower`: `Spec => []WorseReportNotLower`.  No order of the levels is
  needed: a worse report passes every level the milder one passes on the way up
  and keeps every level it keeps on the way down.
* `DecisionsSettle`: `Spec => []DecisionSettles`.

The argument.  `MinNat` and `MaxBounded` give `Min` and `Max` of bounded sets
(the library defines them by `CHOOSE`).  `SearchUpRange` and `SearchDownRange`
say what a search loop returns and which levels it passed.  `LoopsMove` and the
two judgment lemmas put them together: either branch of a judgment is a move
over levels that may be entered, or back over levels that are not kept, or
none.  `UpdateIsMax` lifts this from a sensor to the cluster.  `TypeOK` is
inductive as it stands, since a judgment stays in range from any level in range;
the action property then follows from `TypeOK` and one step.  For hysteresis,
`WellOrderedSets` shows that in a configuration with ordered levels the levels a
temperature has triggered, and the ones it keeps, are initial segments
(`DownClosed`), and the triggered ones are kept.  From that, `UpIsHighest`,
`DownIsHighest` and `StayIsHighest` show that each branch ends at the highest
level triggered or held, `JudgmentHighest` covers both directions, and
`DecisionIsHysteresis` takes the maximum over the sensors.

### Policy and actions

`ThermalPolicy_proofs` holds for every configuration of clusters, policies and
actions and every content of uninitialised memory.  `PolicyAssumption`: the
clusters are visited in some order, the items of the action table are numbered,
policies and their entries are lists, levels and values are unsigned, and 0 is
among the values, since that is what `strtol` makes of a malformed one.

* `NoTimerOrphaned`: `Spec => []NoOrphanTimer`, with the callbacks under way.
* `SocLimitsHeld`: `Spec => []SocLimitHeld`.
* `CurrentsNotLost`: `Spec => []CurrentNotLost`, under `NamesApart`.
* `ObserverIsCurrent`: `Spec => []ObserverCurrent`.
* `ActionsAreIdle`: `Spec => []TypeOK`.
* `DecisionsArbitrate`: `Spec => DecisionArbitrates`, under `LevelsDiffer`,
  `DelaysApart` and `DelaysAreNumbers`.
* `SocIsRestored`: `Spec => SocRestored`, under `DelaysAreNumbers`.

The argument for the first four.  `PolicyInv` adds to `NoOrphanTimer` the shape of the action
objects and that nothing is collected between decisions: without the latter an
old collection could revive a delay.  A callback under way is in one of two places
of its delay, begun or executed, and marked as erased by the decision that drops the
delay.  What a decision collects is built by a
recursive function over the clusters.  `NoSmallest` (there is no smallest number
for which a property fails) takes the place of induction, which needs an operator
as a parameter; `CollectedGrown` first shows that the recursive function exists,
then that each cluster only lets an object grow (`Grown`): delays keep their
timers and a new delay has none of its own.  `ExecuteResult`, `TimerResult` and
`ResetResult` say what the three operations make of an object.  From them
`DecisionOutcome` gives the one fact about a decision that the theorems use,
whatever it collected and whichever service failed; the value a decision
arbitrates is left open, so these theorems hold for any arbitration.  The observer,
the SoC limits and the charging currents then each need one lemma per kind of
step.  `SocLimitsHeld` rests on `SocActionsReset`: every action of the SoC service
is in the set that a restart resets, even if its name is configured twice.

`NamesApart` says that no charging action bears the name of a SoC action.  The
action manager keeps the first of two items with one name, but the name is in the
set of SoC actions if either class puts it there
(`thermal_action_manager.cpp:29`); such a charging action would be reset by a
restart of the SoC service, and its last value would no longer be the one given to
the battery service.  No configuration in the repository does this, and the
proof does not go through without the hypothesis.

`DecisionsArbitrate` compares what the code computes (sort the entries, take the
last one reached, walk its list, collect cluster by cluster, execute with the
timers) with a definition that has no loop, no order and no accumulator.  Its
hypotheses are the cases in which the code itself is not a function of the
requests; all three hold in the configuration of the run `policy`:

* `LevelsDiffer`: no policy has two entries for one level.  `std::sort` leaves
  their order open, and the last one is the one in force.
* `DelaysApart`: two clusters do not give one delay of an action different
  values.  The id of a delay depends on the action and the time alone, so the
  later value replaces the earlier one.
* `DelaysAreNumbers`: a class that drops a malformed value is given none with a
  delay.  The delay would be registered and keep what it held, uninitialised
  memory at first.

The argument.  The sort is defined by rank: entry `i` goes to the place that
counts the entries before it (`Place`), and entries of one level keep their order.
`Sorted` shows that places are a permutation in order of level; from that
`LevelChosen` and `InForceIsChosen` identify the entry the loop ends at with the
highest one reached, and `LastIsAsked` the request it makes of an action.
`Collects` says that an object holds what a set of requests asks, and no more:
the values of those without a delay, and a delay for each of the others.
`EntryCollected` shows that taking one more request preserves it, `CollectedSteps`
and `DecisionCollects` that the collection of a whole decision is reached through
one such step per cluster.  `ExecuteValues` says what `Execute` makes of the
collected values and of the delays that are over, and `DecidedByDecision` that
nothing else is a decision: a timer that fires also changes an action's value,
but its delay was not completed before.  The invariant `TypeInv` adds to `PolicyInv`
that values kept in delays are among `Values` and that every cluster is at a
level it is configured with.

`SocIsRestored` uses the same account of `Execute`: a restart resets `lastValue`, and
an action whose reset value no decision takes therefore differs from it at the
next decision and is sent again.  It rests on `SocLimitHeld` for the actions that
were not reset.

### Thermal level

`ThermalLevel_proofs`: `SettledClientsCurrent`, `Spec => []SettledCurrent`, for any
clients, configured levels and number of changes.  The property speaks of
a client with nothing on its way; the invariant `Accounted` says what is on the
way to the others: a registered client knows the level, or the decision under way
will call it, or its own subscription will, and (`HandsOutCurrent`) whoever will
call hands out the current level unless overtaken.

### Subscribers

In `ThermalObserver_proofs`:

* `NoDecisionIsLost`, `Spec => []NoDecisionLost` of `ActionNotify`, for any
  listeners and any number of tasks delivering at once.  The invariant adds
  `NothingInvented`: no cache and no listener is ahead of `allActionMap_`.
* `LastWordsAreCurrent`, `Spec => []LastWordCurrent`.  On top of the former invariant,
  `NoRival` says of an action that did not race that its latest decision still waits
  in `actionMap_`, or that no cache on its way holds an older one, so that nothing
  stale can be delivered after it.
* `ListenersCurrent`, `TempSpec => []EveryListenerCurrent` of `TempNotify`.  The
  invariant adds that the static map has the report of every wanted type once the
  listeners are called (`Recorded`), that a listener was told last what the static
  map holds (`ToldFollowsPreSensor`), and that one that left starts afresh
  (`Forgotten`).

All assume that a listener is registered once, as the `std::set` of the observer
ensures.

### Start-up and state machine

`StateMachine_proofs`, for any configuration documents and any reports to the fan:

* `SectionsAreAccepted`: `Spec => []AcceptedConfig`.
* `ClustersAreUsable`: `Spec => []ClustersUsable`.
* `StatesAreComplete`: `Spec => []StatesComplete`.
* `EventsArrive`: `Spec => []EventsReachState`.
* `ConditionsAreCurrent`: `Spec => []ConditionFollowsUpdates`.
* `FanIsJudgedSoundly`: `Spec => []FanJudgedSoundly`.

`StartupAssumption` says that a
document is a list of nodes with the lists its attributes stand for (`WellFormed`);
the limits of a fan are some integers, since `StrToInt` leaves one in its target
whatever the text.  No two nodes need differ and no section need be there.

The argument.  The properties speak of the end of the start, or of a moment in
the middle of the requests; the invariant `StartupInv` says what holds at every
moment in between.  `PhaseInv`: what the phases of `OnStart` and the node counter
exclude.  `FileInv`: which file is being read, and that everything stored came
from a node that was accepted.  `SectionInv`: what an accepted node of each kind
left in its section; `ReadInv`: how far the sections read so far agree with the
nodes up to the counter, which is what becomes `AcceptedConfig` when the counter
reaches the end.  `StateInv`: the names of the collections.  `CollectionInv`:
the classes, values and identities of the collections; `HandlerInv`: an identity that
a handler or a timer holds is that of the collection in the map, with its exceptions;
`ToldInv`: a collection answers what its state was last told.  Each part has
one lemma about a step, from the parts it rests on.  Maps are extended by the
module's own `EmplaceAll` and `Assign` rather than by the `@@` of module TLC,
which the prover does not expand.

The same module proves `StatesNeverStuck` and `RunningTimersKnown`,
`DelaySpec => []NeverStuck` and `DelaySpec => []RunningTimerKnown` of
`DelayedStates`, for any number of timers and events.  Together with the types of
the timers they are inductive.  `UnpluggingsOpenWindows`,
`DelaySpec => UnpluggingOpensWindow`, needs what the events in flight say: power
events alternate (`Alternate`), the cable is as the last one says, and an unplugging
at the head of the queue finds a charger that was noticed or counted as missed
(`NextNoticed`).

### HDI registration

`HdiRegistration_proofs`, for any number of crashes of the device manager and the
host, of tasks and of retries: `CrashOnlyBesideRetry`, `Spec => []CrashNeedsRetry`,
and `ReportsAlwaysComeBack`, `Spec => []ReportsComeBack`.

The first needs `StartInv`: until a retry task has run, only one thread at a time
is between taking a reference and using it, so nobody resets the reference under
it.  The second speaks of a service with nothing left to do; `ListenerInv` and
`CallbackInv` say who is responsible when there is something left: while the
service has no listener with the manager that is up, a notice, a task or a thread
on its way will register one; and while the host that is up lacks a callback, an
event waits in a live listener, a task is under way that registers it, or that host
has refused it.  `HdiTyped`
keeps incarnations in order, so that what was sent by an earlier manager is told
from what the present one sends.

### Client

`Processes_proofs`, for any set of threads and any number of restarts and
callbacks: `ClientTypes`, `DeadProxies`, `FailuresAreDeaths` (`Spec => []TypeOK`,
`[]DeadProxyIsReset`, `[]FailsOnlyByDeath`) and `ClientIsHandle`,
`Spec => Handle!Safety`.  The invariant says of each reference, stored or about to be
stored, that it has its death recipient, and its notice if its service is gone
(`Guarded`); that a thread inside `Connect` found no proxy; and that a thread
about to call still has the proxy it connected with or the service behind that
one is gone (`CallInv`).  For the refinement, `AddDeathRecipient` is the
abstract `Attach`, `ResetProxy` the abstract `Detach`, death and start are
themselves, and every other step stutters.

### Protector

`Processes_proofs` also proves, for any configuration documents, temperatures and
failing reads and writes, `JudgmentsSettle`, `ProtectorSpec => []JudgmentSettles`, and
`LimitsAreInForce`, `ProtectorSpec => []LimitInForce`.  The first follows from what the
two search loops return (`SearchUp`, `SearchDown`) and from `BandKeepsApart`: a
temperature that reaches an item does not clear it.  The property asks that the
items of a zone are numbered from 1 and leave a band (`Banded`), as those of the
shipped file do; the levels need not rise in order.

For the second, `ExecutionInv` says that an action which was executed once is asked
for at every later decision, since `levelMap_` keeps the first level of a zone: this
is why an executed action never holds a limit nobody asks for any more.
`NodeInv` says that the value `Execute` remembers is what the node holds unless the
last write failed, and `ExecutionHolds` follows `Execute` through the runs of one
decision; `FourRunsAreEnough` justifies that the model stops after four.
`Flattened` says which elements a flattened list of lists has, by the same absence
of a smallest counterexample as in `ThermalPolicy_proofs`.

### Charge-idle mode, airplane mode and rise rates

`Reports_proofs`: `IdleModeTold`, `Spec => []IdleTold`, for any limits and values, and
`AirplaneIsGivenBack`, `Spec => []AirplaneGivenBack`, for any number of events under
way.  The second needs that the events that can be told apart are either one
event of the service's own, announced by the flag, or events of the user, the
last of which is the user's choice; that a request between its check and its call
has no event beside it (`Asking`); and that the device deviates from the choice only
while the service has turned the mode on and knows it.

The same module proves `RatesAreCurrent`, `Spec => []RatesFollowHistory`, for any
sensors, temperatures, history and rate counts.  The sums are recursive functions
over the list; `SumIsAccumulated` shows that the loop has an accumulator, by the
absence of a smallest counterexample.  For the sign of the quotient, `SlopeGrows`
is the step from one loop round to the next: with a report that is not above the
ones before it, `n * sum(xi * yi) - sum(xi) * sum(yi)` does not shrink, and grows if
the report is below them.  `NeverFellSlope` carries that through a whole history,
`NeverRoseSlope` negates it, and the denominator is the same expression with the
times in place of the temperatures (`TimesSpread`).  `RateInv` says that the newest
rate was computed from the history as it stands, whichever sensors the last
report left out.  The theorem is about integers: that the int32 sums do not
overflow is outside it, as it is outside the model (section 5).

### Only model-checked

* Liveness (`DelaysEnd`, `DecisionsArrive`, the other temporal properties of the
  runs) and the fairness part of the refinement: out of the prover's reach.

## 5. Not modelled

* Language bindings (napi, ETS, Cangjie) and IPC stubs: argument conversion and
  marshalling, no state of the thermal system.
* The text of the dumper, hisysevent and simulation files: output only.
* Permission checks, the boot-completed callback, `EnableMock`: no state of the
  models depends on them.
* `thermal_sensor_provider.cpp` and `ParserBaseNode` of the protector: not part
  of the process, or stored and never read.
* A step of a timer callback in the middle of `Execute` (`ithermal_action.h:86`): a
  data race on a map and a vector, whose outcome the language leaves undefined.  The
  steps of a callback between decisions are modelled.
* A `StopTimer` that fails: the service would have to keep a timer it was told to
  stop.
* 32-bit overflow of the sums in `GetThermalRiseRate`: TLC's integers end where
  int32 does.

## 6. Plan

Every safety property of the runs is proved; liveness is left to TLC.  What a next
step could add is the 32-bit arithmetic of the rise rate, and models of the IPC
stubs once the order of concurrent binder calls matters to a property.
