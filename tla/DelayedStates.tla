---------------------------- MODULE DelayedStates ----------------------------
(***************************************************************************)
(* The three state collections that change by themselves after a delay:    *)
(* ScreenStateCollection, ChargeDelayStateCollection (with the isCharge_   *)
(* flag of ChargerStateCollection) and StartupDelayStateCollection.  Each  *)
(* keeps one timer id; the time service (external) calls ResetState on a   *)
(* thread of its own.  A timer that has expired may still be waiting for   *)
(* the collection's mutex when the timer is stopped: StopTimer does not    *)
(* take back a callback on its way.  The time service may also refuse to   *)
(* create or to start a timer, and the collections ignore that result.     *)
(***************************************************************************)
EXTENDS Integers, Sequences, FiniteSets

CONSTANTS MaxTimers,  \* bound on timers of one collection, running or expired
          MaxEvents   \* bound on common events on their way to the receiver

ASSUME BoundsAssumption == MaxTimers \in Nat \ {0} /\ MaxEvents \in Nat \ {0}

VARIABLES
  screen,         \* the display: "on" or "off"
  plugged,        \* external power
  events,         \* common events published and not yet handled
  screenDelayed,  \* whether delayTime_ of the screen collection is above 0
  screenState,    \* ScreenStateCollection::state_
  lastHeard,      \* the screen event handled last, "none" before the first
  isCharge,       \* ChargerStateCollection::isCharge_
  missed,         \* isCharge_ took no notice of the charger that was plugged
  critical,       \* ChargeDelayStateCollection::criticalState_
  startup,        \* StartupDelayStateCollection::state_
  timerId,        \* delayTimerId_ of each collection, 0 for none
  running,        \* timers of each collection the time service runs
  firing,         \* timers of each collection whose callback is on its way
  untimed         \* collections whose last timer was not created or started

world == <<screen, plugged, events, screenDelayed>>
timerVars == <<timerId, running, firing, untimed>>
chargeVars == <<isCharge, missed>>
delayVars ==
  <<world, screenState, lastHeard, chargeVars, critical, startup, timerVars>>

Owners == {"screen", "charge", "startup"}
Ids == 1..MaxTimers

(* The collections are built when the service starts.  The display may be  *)
(* on by then; with a delay nobody asks whether it is.                     *)
DelayInit ==
  /\ screen \in {"on", "off"} /\ plugged \in BOOLEAN /\ events = <<>>
  /\ screenDelayed \in BOOLEAN
  /\ screenState = "off" /\ lastHeard = "none"
  /\ isCharge = FALSE /\ missed = plugged
  /\ critical = FALSE
  /\ startup = TRUE
  /\ untimed \in SUBSET {"startup"}
  /\ timerId = [o \in Owners |-> IF o = "startup" /\ untimed = {} THEN 1 ELSE 0]
  /\ running = [o \in Owners |-> {timerId[o]} \ {0}]
  /\ firing = [o \in Owners |-> {}]

-----------------------------------------------------------------------------
(***************************************************************************)
(* The world outside: the display and the charger cable, the common events *)
(* they publish, and timers that expire.                                   *)
(***************************************************************************)
ScreenTurns(s) ==
  /\ screen # s /\ Len(events) < MaxEvents
  /\ screen' = s
  /\ events' = Append(events, IF s = "on" THEN "screenOn" ELSE "screenOff")
  /\ UNCHANGED <<plugged, screenDelayed, screenState, lastHeard, chargeVars,
                 critical, startup, timerVars>>

CableMoves ==
  /\ Len(events) < MaxEvents
  /\ plugged' = ~plugged
  /\ events' = Append(events, IF plugged THEN "powerDisconnected" ELSE "powerConnected")
  /\ UNCHANGED <<screen, screenDelayed, screenState, lastHeard, chargeVars,
                 critical, startup, timerVars>>

TimerExpires(o) ==
  /\ \E id \in running[o] :
       /\ running' = [running EXCEPT ![o] = @ \ {id}]
       /\ firing' = [firing EXCEPT ![o] = @ \cup {id}]
  /\ UNCHANGED <<world, screenState, lastHeard, chargeVars, critical, startup,
                 timerId, untimed>>

-----------------------------------------------------------------------------
(* Stop and destroy the current timer; a running one only.                 *)
(* Mutant: the id is forgotten before the timer is stopped.                *)
StopDelayTimerForgets(o) ==
  /\ timerId' = [timerId EXCEPT ![o] = 0]
  /\ untimed' = untimed \ {o}
  /\ UNCHANGED <<running, firing>>

StopDelayTimer(o) ==
  /\ running' = [running EXCEPT ![o] = @ \ {timerId[o]}]
  /\ timerId' = [timerId EXCEPT ![o] = 0]
  /\ untimed' = untimed \ {o}
  /\ UNCHANGED firing

(* Ids are names only: the least one not in use stands for any other.      *)
Unused(o) ==
  LET used == running[o] \cup firing[o] \cup {timerId[o]}
  IN  {id \in Ids \ used : 1..(id - 1) \subseteq used}

(* StopDelayTimer, then StartDelayTimer: a new timer under an unused id,   *)
(* or none if the time service fails to create or to start it: nobody      *)
(* looks at the result, and the id of a timer that was not started does    *)
(* what 0 does.                                                            *)
(* Mutant: the old timer is stopped and no new one started.                *)
RestartDelayTimerStops(o) == StopDelayTimer(o)

RestartDelayTimer(o) ==
  /\ \/ \E id \in Unused(o) :
          /\ running' = [running EXCEPT ![o] = (@ \ {timerId[o]}) \cup {id}]
          /\ timerId' = [timerId EXCEPT ![o] = id]
          /\ untimed' = untimed \ {o}
     \/ /\ running' = [running EXCEPT ![o] = @ \ {timerId[o]}]
        /\ timerId' = [timerId EXCEPT ![o] = 0]
        /\ untimed' = untimed \cup {o}
  /\ UNCHANGED firing

Receive(e) ==
  /\ events # <<>> /\ Head(events) = e
  /\ events' = Tail(events)
  /\ UNCHANGED <<screen, plugged, screenDelayed>>

(* With a delay the screen counts as off until the timer has run out.      *)
(* Mutant: without a delay the handler forgets to switch to on.            *)
HandleScreenOnForgets ==
  /\ Receive("screenOn")
  /\ lastHeard' = "on"
  /\ IF screenDelayed THEN screenState' = "off" /\ RestartDelayTimer("screen")
                      ELSE UNCHANGED <<screenState, timerVars>>
  /\ UNCHANGED <<chargeVars, critical, startup>>

HandleScreenOnCompleted ==
  /\ Receive("screenOn")
  /\ lastHeard' = "on"
  /\ IF screenDelayed THEN screenState' = "off" /\ RestartDelayTimer("screen")
                      ELSE screenState' = "on" /\ UNCHANGED timerVars
  /\ UNCHANGED <<chargeVars, critical, startup>>

HandleScreenOffCompleted ==
  /\ Receive("screenOff")
  /\ lastHeard' = "off"
  /\ screenState' = "off"
  /\ StopDelayTimer("screen")
  /\ UNCHANGED <<chargeVars, critical, startup>>

(* ScreenStateCollection::DecideState asks the power manager if there is   *)
(* no delay, and only reads the state otherwise.                           *)
ScreenDecideState ==
  /\ ~screenDelayed
  /\ screenState' = screen
  /\ UNCHANGED <<world, lastHeard, chargeVars, critical, startup, timerVars>>

(* Leaving the charger opens the critical window.                          *)
HandlerPowerDisconnected ==
  /\ Receive("powerDisconnected")
  /\ missed' = FALSE
  /\ IF isCharge
     THEN /\ isCharge' = FALSE
          /\ critical' = TRUE
          /\ RestartDelayTimer("charge")
     ELSE UNCHANGED <<isCharge, critical, timerVars>>
  /\ UNCHANGED <<screenState, lastHeard, startup>>

(* Mutant: the window is closed and the charger is not remembered.         *)
HandlerPowerConnectedForgets ==
  /\ Receive("powerConnected")
  /\ missed' = FALSE
  /\ IF isCharge
     THEN UNCHANGED <<critical, timerVars>>
     ELSE StopDelayTimer("charge") /\ critical' = FALSE
  /\ UNCHANGED <<isCharge, screenState, lastHeard, startup>>

HandlerPowerConnected ==
  /\ Receive("powerConnected")
  /\ missed' = FALSE
  /\ IF isCharge
     THEN UNCHANGED <<isCharge, critical, timerVars>>
     ELSE /\ StopDelayTimer("charge")
          /\ isCharge' = TRUE
          /\ critical' = FALSE
  /\ UNCHANGED <<screenState, lastHeard, startup>>

(* The battery service (re)appeared: read from it whether the battery is   *)
(* charging, which it need not be while plugged, being full or disabled.   *)
InitChargeState ==
  /\ isCharge' \in {FALSE, plugged}
  /\ missed' = (~isCharge' /\ (plugged \/ \E i \in DOMAIN events :
                                             events[i] = "powerDisconnected"))
  /\ UNCHANGED <<world, screenState, lastHeard, critical, startup, timerVars>>

-----------------------------------------------------------------------------
(* The callback of an expired timer got hold of the mutex.                 *)
Fire(o) ==
  \E id \in firing[o] : firing' = [firing EXCEPT ![o] = @ \ {id}]

(* ResetState of the screen collection: on, and the current timer stopped. *)
ScreenResetState ==
  /\ Fire("screen")
  /\ screenState' = "on"
  /\ running' = [running EXCEPT !["screen"] = @ \ {timerId["screen"]}]
  /\ timerId' = [timerId EXCEPT !["screen"] = 0]
  /\ UNCHANGED <<world, lastHeard, chargeVars, critical, startup, untimed>>

(* ResetState of the charge delay collection forgets the id only.          *)
ChargeResetState ==
  /\ Fire("charge")
  /\ critical' = FALSE
  /\ timerId' = [timerId EXCEPT !["charge"] = 0]
  /\ UNCHANGED <<world, screenState, lastHeard, chargeVars, startup, running, untimed>>

StartupResetState ==
  /\ Fire("startup")
  /\ startup' = FALSE
  /\ running' = [running EXCEPT !["startup"] = @ \ {timerId["startup"]}]
  /\ timerId' = [timerId EXCEPT !["startup"] = 0]
  /\ UNCHANGED <<world, screenState, lastHeard, chargeVars, critical, untimed>>

-----------------------------------------------------------------------------
Deliver == \/ HandleScreenOnCompleted \/ HandleScreenOffCompleted
           \/ HandlerPowerDisconnected \/ HandlerPowerConnected

DelayNext ==
  \/ \E s \in {"on", "off"} : ScreenTurns(s)
  \/ CableMoves
  \/ \E o \in Owners : TimerExpires(o)
  \/ Deliver
  \/ ScreenDecideState
  \/ InitChargeState
  \/ ScreenResetState
  \/ ChargeResetState
  \/ StartupResetState

(***************************************************************************)
(* Events are delivered, running timers expire, and their callbacks get    *)
(* the mutex (no handler holds it for long).                               *)
(***************************************************************************)
Fairness ==
  /\ WF_delayVars(Deliver)
  /\ \A o \in Owners : WF_delayVars(TimerExpires(o))
  /\ WF_delayVars(ScreenResetState)
  /\ WF_delayVars(ChargeResetState)
  /\ WF_delayVars(StartupResetState)

DelaySpec == DelayInit /\ [][DelayNext]_delayVars /\ Fairness

-----------------------------------------------------------------------------
(***************************************************************************)
(* Properties.                                                             *)
(***************************************************************************)

(* A state that only a timer can end has a timer that will end it: the     *)
(* screen that was turned on but still counts as off, the critical window  *)
(* after unplugging, and the startup period.  Without one the collection   *)
(* would answer wrongly until the next event, perhaps forever; that        *)
(* happens only when the time service refused the last timer asked for.    *)
Pending(o) == running[o] # {} \/ firing[o] # {}
NeverStuck ==
  /\ screenDelayed /\ lastHeard = "on" /\ screenState = "off"
       => Pending("screen") \/ "screen" \in untimed
  /\ critical => Pending("charge") \/ "charge" \in untimed
  /\ startup => Pending("startup") \/ "startup" \in untimed

(* Every unplugging that is heard opens a critical window, however often   *)
(* the battery service comes back and the charger is read while its events *)
(* are under way.  A window is missed only if isCharge_ last got its value *)
(* without notice of the charger: the battery was plugged and not charging,*)
(* the unplugging was on its way when the charger was read, or the charger *)
(* was plugged before the service started and never read.                  *)
UnpluggingOpensWindow == [][HandlerPowerDisconnected => critical' \/ missed]_delayVars

(* The screen and startup collections never lose track of a running timer: *)
(* the only one that may run is the one delayTimerId_ names, so that a     *)
(* screen-off event really stops what a screen-on event started, however   *)
(* late callbacks and events interleave.                                   *)
RunningTimerKnown ==
  \A o \in {"screen", "startup"} : running[o] \subseteq {timerId[o]}

(* Once the display has been turned on and stays on, the screen state      *)
(* follows it for good; once the cable is left alone the critical window   *)
(* ends for good; and startup ends.  The timer asked for last must not     *)
(* have been refused, and a display that is on since before the service    *)
(* started, of which no event tells, is not noticed.                       *)
Timed(o) == o \notin untimed
DelaysEnd ==
  /\ <>[](screen = "on" /\ lastHeard # "none" /\ Timed("screen"))
       => <>[](screenState = "on")
  /\ (\E p \in BOOLEAN : <>[](plugged = p /\ Timed("charge"))) => <>[](~critical)
  /\ <>[]Timed("startup") => <>[](~startup)

(***************************************************************************)
(* What the code does not give: it fails through a callback that waits for *)
(* the mutex while an event is handled.                                    *)
(***************************************************************************)

(* After a screen-off event the collection answers off until the next      *)
(* screen-on event.                                                        *)
ScreenOffHolds == screenDelayed /\ lastHeard = "off" => screenState = "off"
=============================================================================
