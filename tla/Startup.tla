------------------------------ MODULE Startup ------------------------------
(***************************************************************************)
(* ThermalService::OnStart: the configuration files, the modules built     *)
(* from them, the publication, and the state machine that the common event *)
(* service's arrival initializes, racing with the first requests that set  *)
(* a state.                                                                *)
(*                                                                         *)
(* Two threads take the steps of OnStart and of the system ability         *)
(* notices; requests come from IPC threads.  The parser goes through a     *)
(* file one root node at a time.                                           *)
(*                                                                         *)
(* A collection is used by the map, which answers conditions, and by the   *)
(* event handlers and the delay timers that hold a plain pointer to it.    *)
(* How a timer races with the events is in DelayedStates; the battery      *)
(* events, which no condition looks at, are in ChargeIdle.                 *)
(***************************************************************************)
EXTENDS ConfigParser, FiniteSets, FanFault

CONSTANTS Docs,          \* the documents a file may hold: name -> root nodes
          ActionClasses, \* the names the action factory knows
          Values,        \* values a state may be given: sets of bits, which
                         \* only the cust state looks into
          UpdateNames,   \* state names requests use
          NoValue,       \* the value of a state nobody has set
          DelayParams,   \* the parameters that read as a number above 0
          FileChoices,   \* what the files may hold
          FanReports,    \* reports of the fan and of temperatures
          MaxRequests    \* bound on the requests and the events

NoFile == "no_file"      \* absent, or not readable as XML

ASSUME StartupAssumption ==
    /\ \A d \in DOMAIN Docs : IsSeq(Docs[d]) /\ All(Docs[d], WellFormed)
    /\ \A choice \in FileChoices :
           /\ DOMAIN choice = {"policy", "vendor", "system"}
           /\ \A f \in DOMAIN choice : choice[f] \in DOMAIN Docs \cup {NoFile}
    /\ \A r \in FanReports : \A s \in DOMAIN r : r[s] \in Int
    /\ MaxRequests \in Nat

THERMAL_LEVEL_NAME == "thermallevel"

VARIABLES
    phase,       \* where OnStart is
    files,       \* what each of the files holds
    file, pos,   \* the file being parsed and its next root node
    config,      \* the sections the modules hold
    actionMap,   \* name -> [class, item]: the actions by name
    levelAction, \* the item of actionThermalLevel_, 0 for none
    listening,   \* the system ability listeners are added
    published,
    vState,      \* vState_ of the state machine
    initFlag,
    made,        \* collections made so far
    collections, \* stateCollectionMap_: name -> [id, class, value]
    handlers,    \* event -> the collection its handler belongs to
    timers,      \* the collections a delay timer will call: [id, class]
    subscribed,  \* the receiver's subscription succeeded
    isCharge_,    \* isCharge_ of the charger's collection
    display,     \* whether the power manager says the screen is on
    scene,
    requests,    \* history: requests and events so far
    told,        \* history: what each state was last told
    early        \* history: the states updated before the state machine's Init

start == <<phase, file, pos, config, actionMap, levelAction, listening, published>>
machine == <<initFlag, made, collections, handlers, timers, subscribed>>
outside == <<isCharge_, display, scene>>
vars == <<start, files, vState, machine, outside, requests, told, early>>

-----------------------------------------------------------------------------
(* The configuration file.                                                  *)

\* Mutant: the listeners are added first.
OnStartListening ==
    /\ phase = "down"
    /\ phase' = "parse" /\ pos' = 1
    /\ file' = IF files["policy"] # NoFile THEN "policy" ELSE "vendor"
    /\ listening' = TRUE
    /\ UNCHANGED <<config, actionMap, levelAction, published, files, vState, machine,
                   outside, requests, told, early>>

\* OnStart and CreateConfigModule.  Only the policy path goes without a
\* second choice.
OnStart ==
    /\ phase = "down"
    /\ phase' = "parse" /\ pos' = 1
    /\ file' = IF files["policy"] # NoFile THEN "policy" ELSE "vendor"
    /\ UNCHANGED <<config, actionMap, levelAction, listening, published, files, vState,
                   machine, outside, requests, told, early>>

Doc == Docs[files[file]]

FileFails ==
    /\ phase' = IF file = "vendor" THEN "parse" ELSE "failed"
    /\ file' = IF file = "vendor" THEN "system" ELSE file
    /\ pos' = 1

\* Mutant: a section is stored only by the first file.
ParseXmlFileKeep ==
    /\ phase = "parse"
    /\ IF files[file] = NoFile \/ (pos <= Len(Doc) /\ ~ ParseRootNodeOk(Doc[pos]))
       THEN FileFails
       ELSE /\ UNCHANGED file
            /\ IF pos > Len(Doc) THEN phase' = "modules" /\ UNCHANGED pos
               ELSE pos' = pos + 1 /\ UNCHANGED phase
    /\ config' = IF files[file] = NoFile \/ pos > Len(Doc) THEN config
                 ELSE IF Doc[pos].kind \in DOMAIN config /\ config[Doc[pos].kind] # << >>
                 THEN config ELSE ParseRootNode(config, Doc[pos])
    /\ vState' = config'.state
    /\ UNCHANGED <<actionMap, levelAction, listening, published, files, machine, outside,
                   requests, told, early>>

\* One root node; what it stored stays when a later node fails.
ParseXmlFile ==
    /\ phase = "parse"
    /\ IF files[file] = NoFile \/ (pos <= Len(Doc) /\ ~ ParseRootNodeOk(Doc[pos]))
       THEN FileFails
       ELSE /\ UNCHANGED file
            /\ IF pos > Len(Doc) THEN phase' = "modules" /\ UNCHANGED pos
               ELSE pos' = pos + 1 /\ UNCHANGED phase
    /\ config' = IF files[file] = NoFile \/ pos > Len(Doc) THEN config
                 ELSE ParseRootNode(config, Doc[pos])
    /\ vState' = config'.state
    /\ UNCHANGED <<actionMap, levelAction, listening, published, files, machine, outside,
                   requests, told, early>>

-----------------------------------------------------------------------------
(* The modules.                                                             *)

\* SetHistoryTempCount reads the first part of the tag's value unchecked.
HistoryCountReadable == Has(config.base, "history_temp_count") =>
                            config.base.history_temp_count # << >>

\* ThermalActionFactory::Create by protocol, else by name
ClassOf(item) == IF item.name = THERMAL_LEVEL_NAME \/ item.protocol = "" THEN item.name
                 ELSE item.protocol

\* Every item with a known class, the first of a name in the map.  The level
\* action that requests are answered with is the one of the last such item.
ActionManagerInit(items) ==
    LET known == SelectSeq([i \in DOMAIN items |-> [item |-> i, name |-> items[i].name,
                                                    class |-> ClassOf(items[i])]],
                           LAMBDA a : a.class \in ActionClasses)
        levels == {i \in DOMAIN items : items[i].name = THERMAL_LEVEL_NAME}
    IN  /\ actionMap' = Emplace(Column(known, "name"), known)
        /\ levelAction' = IF levels = {} THEN 0 ELSE Max(levels)

\* ThermalPolicy::Init sorts the configurations of a cluster, highest level
\* first.
SortLevel(configs) == SortSeq(configs, LAMBDA a, b : a.level > b.level)

InitModules ==
    /\ phase = "modules"
    /\ IF HistoryCountReadable
       THEN /\ phase' = "listeners"
            /\ ActionManagerInit(config.action)
            /\ config' = [config EXCEPT !.policy =
                             [c \in DOMAIN config.policy |-> SortLevel(config.policy[c])]]
       ELSE phase' = "crashed" /\ UNCHANGED <<actionMap, levelAction, config>>
    /\ UNCHANGED <<file, pos, listening, published, files, vState, machine, outside,
                   requests, told, early>>

AddListeners ==
    /\ phase = "listeners"
    /\ phase' = "publish" /\ listening' = TRUE
    /\ UNCHANGED <<file, pos, config, actionMap, levelAction, published, files, vState,
                   machine, outside, requests, told, early>>

\* Publish; when it fails the listeners stay.
Publish(ok) ==
    /\ phase = "publish"
    /\ phase' = IF ok THEN "ready" ELSE "unpublished"
    /\ published' = ok
    /\ UNCHANGED <<file, pos, config, actionMap, levelAction, listening, files, vState,
                   machine, outside, requests, told, early>>

-----------------------------------------------------------------------------
(* The state machine.                                                       *)

StateClasses == {"charge", "screen", "scene", "charge_delay", "startup_delay", "cust"}
StateClass(name) == IF name \in StateClasses THEN name ELSE "extend"

\* The classes whose Init gives the receiver an event handler, named like the
\* class.  The handler holds a pointer to its collection.
EventClasses == {"charge", "screen", "charge_delay"}

\* The classes that start a delay timer, which calls the collection back.
TimedClasses == {"screen", "charge_delay", "startup_delay"}

\* The states that are on or off, as sets of bits: "1" and "0".
ON == {1}
OFF == {}
Switch(on) == IF on THEN ON ELSE OFF

\* ChargerStateCollection is a singleton, the others are made anew.
Singleton == 0

Fresh(name) == IF StateClass(name) \in TimedClasses THEN OFF ELSE NoValue

\* Mutant: the charger's is made anew as well.
CreateAnew(name, id) ==
    [id |-> id, class |-> StateClass(name), value |-> Fresh(name), delayed |-> FALSE]

Create(name, id) ==
    [id |-> IF name = "charge" THEN Singleton ELSE id, class |-> StateClass(name),
     value |-> Fresh(name), delayed |-> FALSE]

\* InitParam and Init of a collection: the screen's may have a delay, and the
\* start-up period begins.
InitCollection(item, id) ==
    [Create(item.name, id) EXCEPT
        !.value = IF StateClass(item.name) = "startup_delay" THEN ON ELSE @,
        !.delayed = (StateClass(item.name) = "screen" /\ item.isExistParam
                        /\ item.params \in DelayParams)]

\* The receiver keeps the first handler of an event.
InitEventHandles(new) ==
    LET classes == Column(new, "class")
    IN  [e \in EventClasses \cap Range(classes) |-> Emplace(classes, Column(new, "id"))[e]]

\* Every start-up delay's Init starts a timer, which may be refused.
StartupTimers(new) ==
    {[id |-> new[i].id, class |-> "startup_delay"] :
        i \in {k \in DOMAIN new : new[k].class = "startup_delay"}}

\* What Init tells the states: that the service starts up, and the charger as
\* the battery service reads.
InitTold(names) ==
    [n \in {"startup_delay", "charge"} \cap Range(names) |->
        IF n = "startup_delay" THEN ON ELSE Switch(isCharge_')]

\* Mutant: the collections of Init replace the ones that are there.
StateMachineInitReplaces(ok) ==
    /\ listening /\ phase # "crashed" /\ ~ initFlag /\ initFlag' = TRUE
    /\ LET names == Column(vState, "name")
           new == [i \in DOMAIN vState |-> InitCollection(vState[i], made + i)]
       IN  /\ made' = made + Len(vState)
           /\ collections' = EmplaceAll(Emplace(names, new), collections)
           /\ handlers' = EmplaceAll(handlers, InitEventHandles(new))
           /\ timers' \in SUBSET StartupTimers(new)
           /\ isCharge_' \in IF "charge" \in Range(names) THEN BOOLEAN ELSE {isCharge_}
           /\ told' = EmplaceAll(InitTold(names), told)
    /\ subscribed' = ok
    /\ UNCHANGED <<start, files, vState, display, scene, requests, early>>

\* StateMachine::Init on the common event service's arrival; what is in the
\* map already stays, and a collection that is not taken is destroyed, with
\* its timer running and its handler registered.  Register tries twice and
\* then gives up.
StateMachineInit(ok) ==
    /\ listening /\ phase # "crashed" /\ ~ initFlag /\ initFlag' = TRUE
    /\ LET names == Column(vState, "name")
           new == [i \in DOMAIN vState |-> InitCollection(vState[i], made + i)]
       IN  /\ made' = made + Len(vState)
           /\ collections' = EmplaceAll(collections, Emplace(names, new))
           /\ handlers' = EmplaceAll(handlers, InitEventHandles(new))
           /\ timers' \in SUBSET StartupTimers(new)
           /\ isCharge_' \in IF "charge" \in Range(names) THEN BOOLEAN ELSE {isCharge_}
           /\ told' = EmplaceAll(InitTold(names), told)
    /\ subscribed' = ok
    /\ UNCHANGED <<start, files, vState, display, scene, requests, early>>

\* The battery service arrives: read whether the battery is charging.
ReadChargeState ==
    /\ listening /\ phase # "crashed"
    /\ isCharge_' \in BOOLEAN
    /\ told' = Assign(told, "charge", Switch(isCharge_'))
    /\ UNCHANGED <<start, files, vState, machine, display, scene, requests, early>>

\* SetState keeps the value of an extended state, and of the cust state when
\* it is a number; the others ignore it.
Settable(name, value) ==
    StateClass(name) = "extend" \/ (StateClass(name) = "cust" /\ value # BadNumber)

Told(name, value) == IF Settable(name, value) THEN Assign(told, name, value) ELSE told

UpdateState(name, value) ==
    IF name \in DOMAIN collections
    THEN /\ collections' = IF Settable(name, value)
                           THEN [collections EXCEPT ![name].value = value] ELSE collections
         /\ UNCHANGED <<vState, made>>
    ELSE LET new == Create(name, made + 1)
         IN  /\ vState' = Append(vState, [name |-> name, params |-> "", isExistParam |-> FALSE])
             /\ collections' = Assign(collections, name,
                    IF Settable(name, value) THEN [new EXCEPT !.value = value] ELSE new)
             /\ made' = made + 1

UpdateThermalState(name, value) ==
    /\ published /\ phase # "crashed" /\ requests < MaxRequests
    /\ UpdateState(name, value)
    /\ requests' = requests + 1
    /\ told' = Told(name, value)
    /\ early' = IF initFlag THEN early ELSE early \cup {name}
    /\ UNCHANGED <<start, files, initFlag, handlers, timers, subscribed, outside>>

SetScene(value) ==
    /\ published /\ phase # "crashed" /\ requests < MaxRequests
    /\ scene' = value
    /\ requests' = requests + 1
    /\ told' = Assign(told, "scene", value)
    /\ UNCHANGED <<start, files, vState, machine, isCharge_, display, early>>

-----------------------------------------------------------------------------
(* Handlers and timers call the collection they point to; one that no map  *)
(* entry owns any more is freed memory.                                    *)

Owned(id) == \E n \in DOMAIN collections : collections[n].id = id
Use(id) == phase' = IF Owned(id) THEN phase ELSE "crashed"
Set(id, value) ==
    collections' = [n \in DOMAIN collections |->
        IF collections[n].id = id THEN [collections[n] EXCEPT !.value = value]
                                  ELSE collections[n]]

\* A timer that is asked for may be refused.
RestartTimer(t) == timers' \in {timers \ {t}, timers \cup {t}}
StopTimer(t) == timers' = timers \ {t}

Heard(event) ==
    /\ subscribed /\ phase # "crashed" /\ requests < MaxRequests
    /\ event \in DOMAIN handlers
    /\ requests' = requests + 1
    /\ UNCHANGED <<file, pos, config, actionMap, levelAction, listening, published, files,
                   vState, initFlag, made, handlers, subscribed, display, scene, early>>

\* HandleScreenOnCompleted and HandleScreenOffCompleted: with a delay the
\* screen counts as off until the timer has run out.
HandleScreen(on) ==
    /\ Heard("screen") /\ UNCHANGED isCharge_
    /\ LET id == handlers["screen"]
           t == [id |-> id, class |-> "screen"]
           delayed == \E n \in DOMAIN collections :
                         collections[n].id = id /\ collections[n].delayed
           answer == Switch(on /\ ~ delayed)
       IN  /\ Use(id) /\ Set(id, answer)
           /\ IF on /\ delayed THEN RestartTimer(t) ELSE StopTimer(t)
           /\ told' = Assign(told, "screen", answer)

\* HandlerPowerConnected and HandlerPowerDisconnected: what isCharge_ knows
\* already is no news; unplugging begins the critical period.
HandlePower(connected) ==
    /\ Heard("charge_delay")
    /\ LET id == handlers["charge_delay"]
           t == [id |-> id, class |-> "charge_delay"]
           charge == Assign(told, "charge", Switch(connected))
       IN  /\ Use(id)
           /\ isCharge_' = connected
           /\ IF connected = isCharge_
              THEN told' = charge /\ UNCHANGED <<collections, timers>>
              ELSE /\ Set(id, Switch(~ connected))
                   /\ IF connected THEN StopTimer(t) ELSE RestartTimer(t)
                   /\ told' = Assign(charge, "charge_delay", Switch(~ connected))

\* ResetState of the collection that started the timer.
TimerFires(t) ==
    /\ phase # "crashed"
    /\ timers' = timers \ {t}
    /\ LET answer == Switch(t.class = "screen")
       IN  Use(t.id) /\ Set(t.id, answer) /\ told' = Assign(told, t.class, answer)
    /\ UNCHANGED <<file, pos, config, actionMap, levelAction, listening, published, files,
                   vState, initFlag, made, handlers, subscribed, outside, requests, early>>

\* The display turns on or off (external); its events come later or not at all.
DisplayTurns ==
    /\ display' = ~ display
    /\ UNCHANGED <<start, files, vState, machine, isCharge_, scene, requests, told, early>>

-----------------------------------------------------------------------------
(* The answer to a cluster's state condition: a value, for the cust state a *)
(* mask, for an extended state a list of values.                            *)

Met(class, value, condition) ==
    /\ value # NoValue
    /\ CASE class = "extend" -> value \in condition
         [] class = "cust" -> value \cap condition # {}
         [] OTHER -> value = condition

\* The charger answers with isCharge_, whatever its own events said, and a
\* screen without a delay asks the power manager.
Answer(name) ==
    CASE name = "scene" -> scene
      [] name = "charge" -> Switch(isCharge_)
      [] name = "screen" /\ ~ collections[name].delayed -> Switch(display)
      [] OTHER -> collections[name].value

DecideState(name, condition) == Met(StateClass(name), Answer(name), condition)

CheckState(sc) ==
    \A name \in DOMAIN sc.states :
        name \in DOMAIN collections /\ DecideState(name, sc.states[name])

-----------------------------------------------------------------------------
Init ==
    /\ phase = "down" /\ file = "policy" /\ pos = 1
    /\ files \in FileChoices
    /\ config = EmptyConfig
    /\ actionMap = << >> /\ levelAction = 0
    /\ listening = FALSE /\ published = FALSE
    /\ vState = << >> /\ initFlag = FALSE /\ made = 0
    /\ collections = << >> /\ handlers = << >> /\ timers = {} /\ subscribed = FALSE
    /\ isCharge_ = FALSE /\ display \in BOOLEAN
    /\ scene = NoValue /\ requests = 0 /\ told = << >> /\ early = {}

OnStartThread == OnStart \/ ParseXmlFile \/ InitModules \/ AddListeners
                 \/ \E ok \in BOOLEAN : Publish(ok)

Next ==
    \/ OnStartThread
    \/ \E ok \in BOOLEAN : StateMachineInit(ok)
    \/ \E name \in UpdateNames, value \in Values \cup {BadNumber} : UpdateThermalState(name, value)
    \/ \E value \in Values : SetScene(value)
    \/ \E on \in BOOLEAN : HandleScreen(on) \/ HandlePower(on)
    \/ \E t \in timers : TimerFires(t)
    \/ ReadChargeState
    \/ DisplayTurns

Spec == Init /\ [][Next]_vars

-----------------------------------------------------------------------------
(* Properties.                                                              *)

Accepted == phase \in {"listeners", "publish", "ready", "unpublished"}
Kinds == {"base", "level", "state", "action", "policy", "idle", "fan"}

\* The last node of a kind in the file that was accepted
LastNode(kind) == Doc[Max({i \in DOMAIN Doc : Doc[i].kind = kind})]
Section(kind) == LET s == ParseRootNode(EmptyConfig, LastNode(kind))[kind]
                 IN  IF kind = "policy" THEN [c \in DOMAIN s |-> SortLevel(s[c])] ELSE s

\* A service that got past its configuration runs with the sections of the
\* file that was accepted as a whole, whatever an earlier file had stored
\* before it failed.  A section the accepted file does not have is the empty
\* one, or one that the vendor's file left when it failed half way.
AcceptedConfig ==
    Accepted => \A kind \in Kinds :
        IF \E i \in DOMAIN Doc : Doc[i].kind = kind
        THEN config[kind] = Section(kind)
        ELSE \/ config[kind] = EmptyConfig[kind]
             \/ file = "system" /\ files["vendor"] # NoFile

\* Whatever the files hold, the clusters the policy is given are what the
\* level search takes for granted: at least one level, the same number for
\* every sensor, every auxiliary sensor and the temperature differences,
\* numbered in their order.
ClustersUsable ==
    \A name \in DOMAIN config.level :
        LET sc == config.level[name]
            n == SL!LevelCount(sc)
        IN  /\ SL!CheckStandard(sc) /\ n >= 1
            /\ \A s \in DOMAIN sc.sensors : \A k \in 1 .. n : sc.sensors[s][k].level = k
            /\ \A a \in DOMAIN sc.aux : Len(sc.aux[a]) = n
            /\ \A k \in DOMAIN sc.diffs : sc.diffs[k].level = k

\* The states of the configuration are complete once the state machine is
\* initialized: Init runs once, so it must not run before the file is read.
StatesComplete ==
    initFlag => \A i \in DOMAIN config.state : config.state[i].name \in DOMAIN collections

\* The configuration lists the start-up delay twice: both are made and start
\* their timers, and one is destroyed.
StartupTwice ==
    \E i, j \in DOMAIN config.state :
        i # j /\ config.state[i].name = "startup_delay" /\ config.state[j].name = "startup_delay"

\* The handler of an event and the timer of a delay belong to the collection
\* that the map answers conditions with, unless a request updated that state
\* before Init: the map then keeps the collection of the request, and the one
\* with the handler or the timer is gone.  A start-up delay that is configured
\* twice goes the same way.  No other way leads to a crash but an empty
\* history_temp_count.
EventsReachState ==
    /\ \A e \in DOMAIN handlers :
          e \in early \ {"charge"} \/ (e \in DOMAIN collections /\ collections[e].id = handlers[e])
    /\ \A t \in timers :
          \/ t.class \in early
          \/ t.class = "startup_delay" /\ StartupTwice
          \/ t.class \in DOMAIN collections /\ collections[t.class].id = t.id
    /\ phase = "crashed" =>
          ~ HistoryCountReadable \/ StartupTwice \/ early \cap TimedClasses # {}

\* A cluster's state condition is decided by what its states were last told:
\* by UpdateThermalState or SetScene, by an event, by the end of a delay or by
\* the state machine's Init and the battery service, whichever came last and
\* in whatever order they came.  The screen without a delay is decided by the
\* power manager.  A request that came before Init leaves its collection
\* without events and timers.
ConditionFollowsUpdates ==
    phase # "crashed" => \A name \in DOMAIN config.level :
        LET sc == config.level[name]
            names == DOMAIN sc.states
            last(n) == IF n = "screen" /\ ~ collections[n].delayed THEN Switch(display)
                       ELSE told[n]
        IN  (names \subseteq (DOMAIN told \cap DOMAIN collections) \ (early \cap TimedClasses)) =>
                (CheckState(sc) <=>
                    \A n \in names : Met(StateClass(n), last(n), sc.states[n]))

\* A report with a value below 0 is not judged at all.
Hotter(r, q) == /\ DOMAIN r = DOMAIN q /\ r[FAN] <= q[FAN]
                /\ \A s \in DOMAIN q \ {FAN} : r[s] >= q[s]
                /\ \A s \in DOMAIN q : r[s] >= 0 /\ q[s] >= 0

\* The limits of a configuration that was accepted tell the faults apart: a
\* fan that turns slower while everything is hotter than in a report judged too
\* slow is too slow as well, one that turns faster in the cool is too fast as
\* well, and with limits that leave room between the two faults no report
\* shows both.
FanJudgedSoundly ==
    phase = "listeners" =>
        \A q, r \in FanReports :
            LET fq == CheckFanFault(config.fan, q)
                fr == CheckFanFault(config.fan, r)
            IN  /\ FAN_FAULT_TOO_SLOW \in fq /\ Hotter(r, q) => FAN_FAULT_TOO_SLOW \in fr
                /\ FAN_FAULT_TOO_FAST \in fr /\ Hotter(r, q) => FAN_FAULT_TOO_FAST \in fq
                /\ {FAN_FAULT_TOO_SLOW, FAN_FAULT_TOO_FAST} \subseteq fq =>
                       config.fan[FAN_FAULT_TOO_SLOW][FAN] > config.fan[FAN_FAULT_TOO_FAST][FAN]
=============================================================================
