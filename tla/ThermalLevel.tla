---------------------------- MODULE ThermalLevel ----------------------------
(***************************************************************************)
(* The thermal level and its listeners (action_thermal_level.cpp).  A      *)
(* policy decision, under the mutex of ThermalService, changes lastValue_  *)
(* and then calls the listeners it finds registered; IPC threads register  *)
(* listeners, call them once with lastValue_, and remove them.  Only the   *)
(* two listener sets are guarded by mutex_ of the action.                  *)
(*                                                                         *)
(* A synchronous callback is a call that blocks its caller until the       *)
(* client has run it, however long that takes, or has died; an             *)
(* asynchronous one waits in the client's queue, which keeps its order     *)
(* (IPC is external).  A decision that calls waits with the mutex of       *)
(* ThermalService held, so no other decision begins.                       *)
(*                                                                         *)
(* The value of a decision is arbitrated as in ThermalAction; here it is   *)
(* any value of the configuration.  The common event published with it and *)
(* the observer's copy are not modelled.  A callback object is subscribed  *)
(* in one way only: ThermalMgrListener makes a new one for every           *)
(* subscription.                                                           *)
(***************************************************************************)
EXTENDS Integers, Sequences

CONSTANTS Listeners,
          AsyncListeners,  \* the ones that subscribe with isSync = false
          ConfigLevels,  \* thermal_level values the policies name
          MaxChanges,    \* bound on changes of the level
          MaxInbox       \* a client subscribes with fewer callbacks waiting

INT_MIN == -2147483647 - 1
MIN_THERMAL_LEVEL == 0   \* ThermalLevel::COOL
MAX_THERMAL_LEVEL == 7   \* ThermalLevel::ESCAPE

ASSUME LevelAssumption ==
  /\ ConfigLevels \subseteq Nat
  /\ AsyncListeners \subseteq Listeners
  /\ MaxChanges \in Nat /\ MaxInbox \in Nat \ {0}

VARIABLES
  lastValue,   \* lastValue_
  listeners,   \* the registered listeners: [sync, async] (two std::set)
  phase,       \* the decision thread: where it is,
  level,       \* the level it hands out,
  todo,        \* the listeners it still has to call,
  calling,     \* and the one whose synchronous callback it waits for
  stage,       \* each client's subscription in the service: where it is,
  value,       \* and the value its first callback hands out
  inbox,       \* asynchronous callbacks waiting in each client
  told,        \* the level each client heard last since it subscribed
  dead,        \* clients that died
  watched,     \* clients with a death recipient
  tasks,       \* clients whose death submitted an unsubscription task
  overtaken,   \* clients whose first callback was under way when the level changed
  changes      \* changes of the level so far

clientVars == <<inbox, told, dead, watched, tasks>>
execution == <<phase, level, todo, calling>>
request == <<stage, value>>
vars == <<lastValue, listeners, execution, request, clientVars, overtaken, changes>>

Kinds == {"sync", "async"}
KindOf(l) == IF l \in AsyncListeners THEN "async" ELSE "sync"
Registered == listeners["sync"] \cup listeners["async"]

Init ==
  /\ lastValue = INT_MIN
  /\ listeners = [k \in Kinds |-> {}]
  /\ phase = "idle" /\ level = INT_MIN /\ todo = {} /\ calling = {}
  /\ stage = [l \in Listeners |-> "none"] /\ value = [l \in Listeners |-> INT_MIN]
  /\ inbox = [l \in Listeners |-> <<>>]
  /\ told = [l \in Listeners |-> INT_MIN]
  /\ dead = {} /\ watched = {} /\ tasks = {} /\ overtaken = {}
  /\ changes = 0

(* OnThermalLevelChanged or OnAsyncThermalLevelChanged; a dead client's    *)
(* proxy answers with an error that nobody looks at.                       *)
CallBack(l, v) ==
  IF l \in dead THEN UNCHANGED <<inbox, told>>
  ELSE IF KindOf(l) = "sync" THEN told' = [told EXCEPT ![l] = v] /\ UNCHANGED inbox
  ELSE inbox' = [inbox EXCEPT ![l] = Append(@, v)] /\ UNCHANGED told

-----------------------------------------------------------------------------
(* The decision thread.                                                    *)

LevelRequest(v) ==
  IF v > MAX_THERMAL_LEVEL THEN MAX_THERMAL_LEVEL
  ELSE IF v < MIN_THERMAL_LEVEL THEN MIN_THERMAL_LEVEL
  ELSE v

(* Mutant: the listeners of one kind are taken for both.                   *)
GetThermalLevelListenersSync(kind) == listeners["sync"]

GetThermalLevelListeners(kind) == listeners[kind]

(* A new value is stored before anybody is called.                         *)
ExecuteInner ==
  /\ phase = "idle"
  /\ \E v \in ConfigLevels \cup {MIN_THERMAL_LEVEL} :
       IF v = lastValue THEN UNCHANGED vars
       ELSE /\ changes < MaxChanges
            /\ changes' = changes + 1
            /\ lastValue' = v
            /\ phase' = "publish" /\ level' = LevelRequest(v)
            /\ overtaken' = {l \in Listeners : stage[l] = "call"}
            /\ UNCHANGED <<listeners, todo, calling, request, clientVars>>

(* NotifyThermalLevelChanged copies one set, calls it, then the other.     *)
CopyListeners(before, kind) ==
  /\ phase = before /\ todo = {} /\ calling = {}
  /\ phase' = kind /\ todo' = GetThermalLevelListeners(kind)
  /\ UNCHANGED <<lastValue, listeners, level, calling, request, clientVars, overtaken, changes>>

(* An asynchronous call returns at once.                                   *)
NotifyAsync ==
  /\ phase = "async"
  /\ \E l \in todo : CallBack(l, level) /\ todo' = todo \ {l}
  /\ UNCHANGED <<lastValue, listeners, phase, level, calling, request,
                 dead, watched, tasks, overtaken, changes>>

(* A synchronous one is made, and waited for before the next is made.      *)
NotifySync ==
  /\ phase = "sync" /\ calling = {}
  /\ \E l \in todo : calling' = {l} /\ todo' = todo \ {l}
  /\ UNCHANGED <<lastValue, listeners, phase, level, request, clientVars, overtaken, changes>>

(* The client has run the callback, or was dead or died instead.           *)
ClientAnswers(l) ==
  /\ l \in calling /\ calling' = {}
  /\ CallBack(l, level)
  /\ UNCHANGED <<lastValue, listeners, phase, level, todo, request,
                 dead, watched, tasks, overtaken, changes>>

ExecuteReturns ==
  /\ phase = "sync" /\ todo = {} /\ calling = {}
  /\ phase' = "idle" /\ level' = INT_MIN
  /\ UNCHANGED <<lastValue, listeners, todo, calling, request, clientVars, overtaken, changes>>

-----------------------------------------------------------------------------
(***************************************************************************)
(* Subscriptions.  A request is under way, then registered, then lastValue *)
(* is read for the first callback, then that callback is made.             *)
(***************************************************************************)
Subscribe(l) ==
  /\ l \notin dead /\ stage[l] = "none" /\ Len(inbox[l]) < MaxInbox
  /\ stage' = [stage EXCEPT ![l] = "add"]
  /\ UNCHANGED <<value, lastValue, listeners, execution, clientVars, overtaken, changes>>

(* A listener that is there already is not called; the death recipient of  *)
(* a dead client cannot be added.                                          *)
(* Mutant: a new listener is not called with the current level.            *)
AddThermalLevelListenersUncalled(l) ==
  LET kind == KindOf(l) IN
  /\ stage[l] = "add"
  /\ listeners' = [listeners EXCEPT ![kind] = @ \cup {l}]
  /\ watched' = watched \cup ({l} \ dead)
  /\ stage' = [stage EXCEPT ![l] = "none"]
  /\ UNCHANGED <<value, lastValue, execution, inbox, told, dead, tasks, overtaken, changes>>

AddThermalLevelListeners(l) ==
  LET kind == KindOf(l) IN
  /\ stage[l] = "add"
  /\ listeners' = [listeners EXCEPT ![kind] = @ \cup {l}]
  /\ IF l \in listeners[kind]
     THEN stage' = [stage EXCEPT ![l] = "none"] /\ UNCHANGED watched
     ELSE /\ stage' = [stage EXCEPT ![l] = "read"]
          /\ watched' = watched \cup ({l} \ dead)
  /\ UNCHANGED <<value, lastValue, execution, inbox, told, dead, tasks, overtaken, changes>>

(* lastValue_ is read without a lock and as it is.                         *)
ReadLastValue(l) ==
  /\ stage[l] = "read"
  /\ stage' = [stage EXCEPT ![l] = "call"] /\ value' = [value EXCEPT ![l] = lastValue]
  /\ UNCHANGED <<lastValue, listeners, execution, clientVars, overtaken, changes>>

(* The first callback; a synchronous one is over when the client has run   *)
(* it, and keeps only the thread of this request waiting.                  *)
CallNewListener(l) ==
  /\ stage[l] = "call"
  /\ CallBack(l, value[l])
  /\ stage' = [stage EXCEPT ![l] = "none"] /\ value' = [value EXCEPT ![l] = INT_MIN]
  /\ UNCHANGED <<lastValue, listeners, execution, dead, watched, tasks, overtaken, changes>>

(* Erase the listener from both sets, and its death recipient.             *)
(* Mutant: only synchronous listeners are erased.                          *)
RemoveSync(l) ==
  /\ listeners' = [listeners EXCEPT !["sync"] = @ \ {l}]
  /\ watched' = watched \ {l}

Remove(l) ==
  /\ listeners' = [k \in Kinds |-> listeners[k] \ {l}]
  /\ watched' = IF l \in Registered THEN watched \ {l} ELSE watched

UnSubscribeThermalLevelCallback(l) ==
  /\ l \notin dead /\ stage[l] = "none"
  /\ Remove(l)
  /\ UNCHANGED <<lastValue, execution, request, inbox, told, dead, tasks, overtaken, changes>>

(* The client reads a waiting asynchronous callback.                       *)
ClientReceives(l) ==
  /\ l \notin dead /\ inbox[l] # <<>>
  /\ told' = [told EXCEPT ![l] = Head(inbox[l])]
  /\ inbox' = [inbox EXCEPT ![l] = Tail(@)]
  /\ UNCHANGED <<lastValue, listeners, execution, request, dead, watched, tasks,
                 overtaken, changes>>

(* OnRemoteDied submits a task that unsubscribes the client.               *)
OnRemoteDied(l) ==
  /\ l \notin dead
  /\ dead' = dead \cup {l}
  /\ tasks' = tasks \cup ({l} \cap watched)
  /\ inbox' = [inbox EXCEPT ![l] = <<>>]
  /\ told' = [told EXCEPT ![l] = INT_MIN]
  /\ UNCHANGED <<lastValue, listeners, execution, request, watched, overtaken, changes>>

UnSubscribeTask(l) ==
  /\ l \in tasks
  /\ tasks' = tasks \ {l}
  /\ Remove(l)
  /\ UNCHANGED <<lastValue, execution, request, inbox, told, dead, overtaken, changes>>

-----------------------------------------------------------------------------
Notify ==
  \/ CopyListeners("publish", "async")
  \/ NotifyAsync
  \/ CopyListeners("async", "sync")
  \/ NotifySync
  \/ ExecuteReturns

Serve(l) == AddThermalLevelListeners(l) \/ ReadLastValue(l) \/ CallNewListener(l)

(* What the service does without waiting for code of a client              *)
Unaided(l) ==
  \/ AddThermalLevelListeners(l) \/ ReadLastValue(l)
  \/ KindOf(l) = "async" /\ CallNewListener(l)

Next ==
  \/ ExecuteInner
  \/ Notify
  \/ \E l \in Listeners :
       \/ Subscribe(l)
       \/ Serve(l)
       \/ ClientAnswers(l)
       \/ UnSubscribeThermalLevelCallback(l)
       \/ ClientReceives(l)
       \/ OnRemoteDied(l)
       \/ UnSubscribeTask(l)

(* The service goes on wherever it does not wait for a client, IPC gives   *)
(* up a call to a dead one, and living clients read what waits for them.   *)
(* Nothing says that a client ever comes back from a synchronous callback. *)
Fairness ==
  /\ WF_vars(Notify)
  /\ \A l \in Listeners :
       /\ WF_vars(Unaided(l))
       /\ WF_vars(l \in dead /\ (ClientAnswers(l) \/ CallNewListener(l)))
       /\ WF_vars(ClientReceives(l))
       /\ WF_vars(UnSubscribeTask(l))

Spec == Init /\ [][Next]_vars /\ Fairness
-----------------------------------------------------------------------------
(***************************************************************************)
(* Properties.                                                             *)
(***************************************************************************)

(* The first callback hands out lastValue_ as it is, later ones clamp it.  *)
Current(l) == told[l] \in {lastValue, LevelRequest(lastValue)}

Settled(l) ==
  /\ l \in Registered \ dead
  /\ phase = "idle" /\ stage[l] = "none" /\ inbox[l] = <<>>

(* A registered client with nothing on its way knows the current level,    *)
(* however its subscription met the decisions: whether it was registered   *)
(* before or after the copy of the set, or removed and registered again.   *)
(* The one exception is a level that changed between the reading of        *)
(* lastValue_ and the first callback.                                      *)
SettledCurrent == \A l \in Listeners \ overtaken : Settled(l) => Current(l)

(* The level reaches the asynchronous clients whatever the synchronous     *)
(* ones do: a synchronous client that never comes back stops the decision  *)
(* thread, but only after the asynchronous callbacks are made, and no      *)
(* later level is then stored that they could miss.  It reaches the        *)
(* synchronous clients too unless a decision waits for one of them for     *)
(* good.  A first callback that was overtaken is excepted as above.        *)
LevelArrives ==
  \A l \in Listeners :
    KindOf(l) = "async" \/ (\A m \in Listeners : []<>(m \notin calling)) =>
      []<>(l \in Registered \ (dead \cup overtaken) /\ stage[l] = "none" => Current(l))

(* A client whose death was noticed is removed from both sets for good,    *)
(* unless a request of its own is still on the way to be registered.       *)
DeadForgotten ==
  \A l \in Listeners :
    (l \in tasks /\ stage[l] # "add") ~> [](l \notin Registered)
=============================================================================
