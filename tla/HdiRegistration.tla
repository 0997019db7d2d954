-------------------------- MODULE HdiRegistration --------------------------
(***************************************************************************)
(* How ThermalService gets temperature reports from the thermal HDI host:  *)
(* it registers a status listener with the device manager, and whenever    *)
(* the listener hears that the host started, a task registers the report   *)
(* callbacks with the host (thermal_service.cpp).  Both the manager and    *)
(* the host may crash and come back at any time.                           *)
(*                                                                         *)
(* RegisterHdiStatusListener assigns hdiServiceMgr_ and uses it later,     *)
(* without a lock, on the thread of OnStart, of the system ability notices *)
(* or of the retry queue; its two halves are steps of their own.  The      *)
(* device manager, the host and the delivery of notices, status events and *)
(* tasks are external.                                                     *)
(***************************************************************************)
EXTENDS Naturals, Sequences, FiniteSets

CONSTANTS HasFanConfig,  \* the configuration has fan faults to detect
          MaxManager,    \* bound on the device manager's incarnations
          MaxHost,       \* bound on the host's incarnations
          MaxFails       \* bound on registrations that fail for no reason

ASSUME HdiAssumption ==
    /\ HasFanConfig \in BOOLEAN
    /\ MaxManager \in Nat \ {0} /\ MaxHost \in Nat \ {0} /\ MaxFails \in Nat

None == 0                           \* a null reference
Threads == {"start", "notice", "retry"}
Callbacks == IF HasFanConfig THEN {"thermal", "fan"} ELSE {"thermal"}

VARIABLES
    phase,      \* "down", "starting", "ready", "stopping", "stopped"
    crashed,    \* the thread that used a null manager, or "no"
    pc,         \* per thread: "idle", or where it is in the registration
    mgr,        \* hdiServiceMgr_: the incarnation it refers to
    iface,      \* thermalInterface_: the host incarnation it refers to
    isRemove,   \* isHdiRemove_
    retries,    \* retry tasks waiting in g_queue
    tasks,      \* tasks of START events: [thermal, fan] still to register
    manager,    \* [up, inc] of the device manager
    host,       \* [up, inc, callbacks] of the HDI host
    latest,     \* hdiServStatListener_: the listener last registered, None when
                \* the last registration failed
    listeners,  \* the status listeners made: [inc, events not yet delivered]
    watching,   \* the device manager's system ability is listened to
    notices,    \* system ability notices not yet delivered
    fails,
    refused,    \* history: callbacks the host that is up did not get when the
                \* service wanted to register them
    retried,    \* history: a retry task has run
    gap         \* history: one of the windows of ReportsComeBack was hit

service == <<phase, crashed, pc, mgr, iface, isRemove, retries, tasks, latest>>
world == <<manager, host, listeners, watching, notices, fails, refused, retried, gap>>
vars == <<service, world>>

Running == phase # "down" /\ crashed = "no"
Live(l) == manager.up /\ listeners[l].inc = manager.inc
HasLive == \E l \in DOMAIN listeners : Live(l)

-----------------------------------------------------------------------------
(* RegisterHdiStatusListener.                                               *)

\* On the notice thread, OnAddSystemAbility then clears isHdiRemove_.
Returns(t) ==
    /\ pc' = [pc EXCEPT ![t] = "idle"]
    /\ isRemove' = IF t = "notice" THEN FALSE ELSE isRemove

GetManager(t) ==
    /\ Running /\ pc[t] = "call"
    /\ mgr' = IF manager.up THEN manager.inc ELSE None
    /\ IF mgr' = None
       THEN retries' = retries + 1 /\ Returns(t)
       ELSE pc' = [pc EXCEPT ![t] = "got"] /\ UNCHANGED <<retries, isRemove>>
    /\ UNCHANGED <<latest, phase, crashed, iface, tasks, world>>

\* Mutant: a registration that fails is not tried again.
RegisterListenerOnce(t) ==
    /\ Running /\ pc[t] = "got" /\ mgr # None
    /\ \E ok \in BOOLEAN :
        /\ IF mgr = manager.inc /\ manager.up /\ ok
           THEN /\ listeners' = Append(listeners, [inc |-> mgr,
                       events |-> IF host.up THEN <<"start">> ELSE << >>])
                /\ latest' = Len(listeners')
                /\ UNCHANGED fails
           ELSE /\ (mgr = manager.inc /\ manager.up) => fails < MaxFails
                /\ fails' = IF mgr = manager.inc /\ manager.up THEN fails + 1 ELSE fails
                /\ latest' = None
                /\ UNCHANGED listeners
        /\ Returns(t)
    /\ UNCHANGED <<retries, phase, crashed, mgr, iface, tasks, manager, host, watching, notices,
                   gap, retried, refused>>

\* The device manager tells a new listener of a host that is up.  A
\* registration fails when hdiServiceMgr_ refers to a manager that is gone.
RegisterListener(t) ==
    /\ Running /\ pc[t] = "got" /\ mgr # None
    /\ \E ok \in BOOLEAN :
        /\ IF mgr = manager.inc /\ manager.up /\ ok
           THEN /\ listeners' = Append(listeners, [inc |-> mgr,
                       events |-> IF host.up THEN <<"start">> ELSE << >>])
                /\ latest' = Len(listeners')
                /\ UNCHANGED <<retries, fails>>
           ELSE /\ (mgr = manager.inc /\ manager.up) => fails < MaxFails
                /\ fails' = IF mgr = manager.inc /\ manager.up THEN fails + 1 ELSE fails
                /\ retries' = retries + 1
                /\ latest' = None
                /\ UNCHANGED listeners
        /\ Returns(t)
    /\ UNCHANGED <<phase, crashed, mgr, iface, tasks, manager, host, watching, notices, gap,
                   retried, refused>>

\* hdiServiceMgr_ was set to null in between.
UseNullManager(t) ==
    /\ Running /\ pc[t] = "got" /\ mgr = None
    /\ crashed' = t
    /\ UNCHANGED <<latest, phase, pc, mgr, iface, isRemove, retries, tasks, world>>

\* Mutant: the queue of the retries waits for a first listener.
RetryTaskWaits ==
    /\ Running /\ retries > 0 /\ pc["retry"] = "idle" /\ listeners # << >>
    /\ retries' = retries - 1
    /\ pc' = [pc EXCEPT !["retry"] = "call"]
    /\ retried' = TRUE
    /\ UNCHANGED <<latest, phase, crashed, mgr, iface, isRemove, tasks, manager, host, listeners,
                   watching, notices, fails, gap, refused>>

RetryTask ==
    /\ Running /\ retries > 0 /\ pc["retry"] = "idle"
    /\ retries' = retries - 1
    /\ pc' = [pc EXCEPT !["retry"] = "call"]
    /\ retried' = TRUE
    /\ UNCHANGED <<latest, phase, crashed, mgr, iface, isRemove, tasks, manager, host, listeners,
                   watching, notices, fails, gap, refused>>

-----------------------------------------------------------------------------
(* The life of the service.                                                 *)

\* OnStart up to RegisterHdiStatusListener at the end of Init.
\* Mutant: the device manager is listened to before the first registration.
OnStartWatching ==
    /\ phase = "down" /\ phase' = "starting"
    /\ pc' = [pc EXCEPT !["start"] = "call"]
    /\ watching' = TRUE
    /\ UNCHANGED <<latest, crashed, mgr, iface, isRemove, retries, tasks, manager, host, listeners,
                   notices, fails, gap, retried, refused>>

OnStart ==
    /\ phase = "down" /\ phase' = "starting"
    /\ pc' = [pc EXCEPT !["start"] = "call"]
    /\ UNCHANGED <<latest, crashed, mgr, iface, isRemove, retries, tasks, world>>

\* The rest of OnStart; a manager that is up gives a notice at once.
OnStartReady ==
    /\ Running /\ phase = "starting" /\ pc["start"] = "idle"
    /\ phase' = "ready" /\ watching' = TRUE
    /\ notices' = IF manager.up THEN Append(notices, "add") ELSE notices
    /\ UNCHANGED <<latest, crashed, pc, mgr, iface, isRemove, retries, tasks, manager, host,
                   listeners, fails, gap, retried, refused>>

\* Unregister calls reach a host only through a reference to it.
Unregistered == IF host.up /\ iface = host.inc THEN [host EXCEPT !.callbacks = {}] ELSE host

\* OnStop keeps listening to the device manager.
OnStop ==
    /\ Running /\ phase = "ready"
    /\ host' = Unregistered
    /\ iface' = None
    /\ phase' = IF mgr # None THEN "stopping" ELSE "stopped"
    /\ UNCHANGED <<latest, crashed, pc, mgr, isRemove, retries, tasks, manager, listeners, watching,
                   notices, fails, gap, retried, refused>>

\* Only the newest listener is unregistered.
OnStopUnregister ==
    /\ Running /\ phase = "stopping"
    /\ IF mgr = None THEN crashed' = "stop" /\ UNCHANGED <<phase, mgr, listeners>>
       ELSE /\ phase' = "stopped" /\ mgr' = None
            /\ listeners' = IF latest # None /\ mgr = manager.inc
                            THEN [listeners EXCEPT ![latest].inc = None] ELSE listeners
            /\ UNCHANGED crashed
    /\ UNCHANGED <<latest, pc, iface, isRemove, retries, tasks, manager, host, watching, notices,
                   fails, gap, retried, refused>>

-----------------------------------------------------------------------------
(* Notices, in their order, on one thread.                                  *)

OnAddSystemAbility ==
    /\ Running /\ notices # << >> /\ Head(notices) = "add" /\ pc["notice"] = "idle"
    /\ notices' = Tail(notices)
    /\ pc' = IF isRemove THEN [pc EXCEPT !["notice"] = "call"] ELSE pc
    /\ UNCHANGED <<latest, phase, crashed, mgr, iface, isRemove, retries, tasks, manager, host,
                   listeners, watching, fails, gap, retried, refused>>

OnRemoveSystemAbility ==
    /\ Running /\ notices # << >> /\ Head(notices) = "remove" /\ pc["notice"] = "idle"
    /\ notices' = Tail(notices)
    /\ IF isRemove THEN UNCHANGED <<mgr, iface, isRemove>>
       ELSE mgr' = None /\ iface' = None /\ isRemove' = TRUE
    /\ UNCHANGED <<latest, phase, crashed, pc, retries, tasks, manager, host, listeners, watching,
                   fails, gap, retried, refused>>

-----------------------------------------------------------------------------
(* Status events and the callbacks.                                         *)

Delivered(l) == [listeners EXCEPT ![l].events = Tail(@)]

ServiceStarted(l) ==
    /\ Running /\ listeners[l].events # << >> /\ Head(listeners[l].events) = "start"
    /\ listeners' = Delivered(l)
    /\ tasks' = [tasks EXCEPT !.thermal = @ + 1]
    /\ UNCHANGED <<latest, phase, crashed, pc, mgr, iface, isRemove, retries, manager, host,
                   watching, notices, fails, gap, retried, refused>>

\* An event of a manager that is gone may take the reference to a newer host.
ServiceStopped(l) ==
    /\ Running /\ listeners[l].events # << >> /\ Head(listeners[l].events) = "stop"
    /\ listeners' = Delivered(l)
    /\ host' = Unregistered
    /\ iface' = None
    /\ gap' = (gap \/ ~ Live(l))
    /\ UNCHANGED <<latest, phase, crashed, pc, mgr, isRemove, retries, tasks, manager, watching,
                   notices, fails, retried, refused>>

\* A reference that is there is used, whatever it refers to.
GetThermalInterfaceInner ==
    IF iface # None THEN iface ELSE IF manager.up /\ host.up THEN host.inc ELSE None

Registered(reference, callback) ==
    IF host.up /\ reference = host.inc
    THEN [host EXCEPT !.callbacks = @ \cup {callback}] ELSE host

\* The task registers a callback, if the reference is to a host.  The host may
\* not be found or may refuse: the code writes a line to the log and leaves it
\* at that.
RegisterCallback(callback) ==
    \/ /\ iface' = GetThermalInterfaceInner
       /\ host' = Registered(iface', callback)
       /\ refused' = refused \ host'.callbacks
       /\ UNCHANGED fails
    \/ /\ host.up /\ fails < MaxFails /\ fails' = fails + 1
       /\ iface' \in {iface, GetThermalInterfaceInner}
       /\ refused' = refused \cup ({callback} \ host.callbacks)
       /\ UNCHANGED host

RegisterThermalHdiCallback ==
    /\ Running /\ tasks.thermal > 0
    /\ RegisterCallback("thermal")
    /\ tasks' = [thermal |-> tasks.thermal - 1, fan |-> tasks.fan + 1]
    /\ UNCHANGED <<latest, phase, crashed, pc, mgr, isRemove, retries, manager, listeners, watching,
                   notices, gap, retried>>

RegisterFanHdiCallback ==
    /\ Running /\ tasks.fan > 0
    /\ tasks' = [tasks EXCEPT !.fan = @ - 1]
    /\ IF HasFanConfig THEN RegisterCallback("fan") ELSE UNCHANGED <<iface, host, fails, refused>>
    /\ UNCHANGED <<latest, phase, crashed, pc, mgr, isRemove, retries, manager, listeners, watching,
                   notices, gap, retried>>

\* A request that reads the temperatures makes the reference if there is none.
GetThermalInfo ==
    /\ Running /\ phase = "ready" /\ iface = None
    /\ iface' = GetThermalInterfaceInner
    /\ UNCHANGED <<latest, phase, crashed, pc, mgr, isRemove, retries, tasks, world>>

-----------------------------------------------------------------------------
(* The device manager and the host.                                         *)

Tell(event) == [l \in DOMAIN listeners |->
    IF Live(l) THEN [listeners[l] EXCEPT !.events = Append(@, event)] ELSE listeners[l]]

ManagerStops ==
    /\ manager.up
    /\ manager' = [manager EXCEPT !.up = FALSE]
    /\ notices' = IF watching THEN Append(notices, "remove") ELSE notices
    /\ gap' = (gap \/ (~ watching /\ HasLive))
    /\ UNCHANGED <<service, host, listeners, watching, fails, retried, refused>>

ManagerStarts ==
    /\ ~ manager.up /\ manager.inc < MaxManager
    /\ manager' = [up |-> TRUE, inc |-> manager.inc + 1]
    /\ notices' = IF watching THEN Append(notices, "add") ELSE notices
    /\ UNCHANGED <<service, host, listeners, watching, fails, gap, retried, refused>>

\* Nobody hears of a host that stops while no listener is registered.
HostStops ==
    /\ host.up
    /\ host' = [host EXCEPT !.up = FALSE, !.callbacks = {}]
    /\ listeners' = Tell("stop")
    /\ gap' = (gap \/ (iface = host.inc /\ ~ HasLive))
    /\ refused' = {}
    /\ UNCHANGED <<service, manager, watching, notices, fails, retried>>

HostStarts ==
    /\ ~ host.up /\ host.inc < MaxHost
    /\ host' = [up |-> TRUE, inc |-> host.inc + 1, callbacks |-> {}]
    /\ listeners' = Tell("start")
    /\ UNCHANGED <<service, manager, watching, notices, fails, gap, retried, refused>>

-----------------------------------------------------------------------------
Init ==
    /\ phase = "down" /\ crashed = "no" /\ pc = [t \in Threads |-> "idle"]
    /\ mgr = None /\ iface = None /\ isRemove = FALSE /\ retries = 0
    /\ tasks = [thermal |-> 0, fan |-> 0]
    /\ manager \in {[up |-> FALSE, inc |-> 0], [up |-> TRUE, inc |-> 1]}
    /\ host = [up |-> FALSE, inc |-> 0, callbacks |-> {}]
    /\ latest = None /\ listeners = << >> /\ watching = FALSE /\ notices = << >>
    /\ fails = 0 /\ refused = {} /\ retried = FALSE /\ gap = FALSE

\* The steps of the service's own threads and of what delivers to them
ServiceStep ==
    \/ OnStartReady \/ OnStopUnregister \/ RetryTask
    \/ OnAddSystemAbility \/ OnRemoveSystemAbility
    \/ RegisterThermalHdiCallback \/ RegisterFanHdiCallback
    \/ \E t \in Threads : GetManager(t) \/ RegisterListener(t) \/ UseNullManager(t)
    \/ \E l \in DOMAIN listeners : ServiceStarted(l) \/ ServiceStopped(l)

Environment == ManagerStops \/ ManagerStarts \/ HostStops \/ HostStarts

Next == OnStart \/ OnStop \/ GetThermalInfo \/ ServiceStep \/ Environment

\* Threads run, tasks and the retry queue are executed, and notices and events
\* are delivered.  One condition is enough: with the manager up each step of
\* the service leaves less for it to do.
Spec == Init /\ [][Next]_vars /\ WF_vars(ServiceStep)

-----------------------------------------------------------------------------
(* Properties.                                                              *)

\* Nothing is left for the service to do.
Quiet ==
    /\ phase = "ready" /\ crashed = "no" /\ notices = << >> /\ retries = 0
    /\ \A t \in Threads : pc[t] = "idle"
    /\ tasks = [thermal |-> 0, fan |-> 0]
    /\ \A l \in DOMAIN listeners : listeners[l].events = << >>

\* When the service has nothing left to do and manager and host are up, the
\* service is registered with these very incarnations, whatever crashed before:
\* a listener with the manager and each callback with the host, but those the
\* host that is up refused when they were to be registered: nobody tries again
\* before it is restarted.  It does not hold when the manager crashed before
\* OnStart listened to it, when the host crashed while the service had a
\* reference and no listener, or when a stop event was delivered after the
\* manager that sent it was gone.
ReportsComeBack ==
    (Quiet /\ manager.up /\ ~ gap) =>
        /\ HasLive
        /\ host.up => Callbacks \subseteq host.callbacks \cup refused

\* Until OnStop is called, hdiServiceMgr_ is met as null only when a retry task
\* has run beside the notices: a start that finds the device manager up and
\* registers with it at once never crashes, whatever the manager does later.
CrashNeedsRetry ==
    (phase \in {"starting", "ready"} /\ crashed # "no") => retried /\ crashed # "start"

\* Reports come back by themselves: with manager and host up for good, the
\* callbacks are eventually registered with the host that is up, but those it
\* refused.
ReportsResume ==
    <>[](phase = "ready" /\ crashed = "no" /\ manager.up /\ host.up /\ ~ gap)
        => <>[](Callbacks \subseteq host.callbacks \cup refused)
=============================================================================
