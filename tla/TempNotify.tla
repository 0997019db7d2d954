----------------------------- MODULE TempNotify -----------------------------
(***************************************************************************)
(* How ThermalObserver hands temperatures to its subscribers.  A report is *)
(* kept in callbackinfo_; after the policy has run, every listener is      *)
(* called with the temperatures that changed.  What "changed" means is     *)
(* decided against one static map, preSensor, that all listeners share.    *)
(***************************************************************************)
EXTENDS Integers, FiniteSets, Sequences

CONSTANTS Types,          \* sensor types
          Temps,          \* temperatures, 0 among them
          Unknown,        \* no temperature
          TempListenerOrder,  \* the listeners in the order of the set they are kept in
          TempInterest        \* listener -> the types it subscribes to

TempListeners == {TempListenerOrder[i] : i \in DOMAIN TempListenerOrder}

ASSUME TempAssumption ==
  /\ 0 \in Temps /\ Unknown \notin Temps
  /\ TempListenerOrder \in Seq(TempListeners)
  /\ TempInterest \in [TempListeners -> SUBSET Types]
  /\ \A i, j \in DOMAIN TempListenerOrder : TempListenerOrder[i] = TempListenerOrder[j] => i = j

VARIABLES
  callbackinfo,  \* callbackinfo_: type -> temperature, Unknown if absent
  preSensor,     \* the static map in NotifySensorTempChanged
  sensorTempListeners,  \* the listeners, and the keys of callbackTypeMap_
  notifying,     \* a report is stored and its listeners are not called yet
  present,       \* the listeners that were called for the last report
  told           \* what each listener was told last, Unknown if nothing

tempVars == <<callbackinfo, preSensor, sensorTempListeners, notifying, present, told>>

Nothing == [ty \in Types |-> Unknown]

TempInit ==
  /\ callbackinfo = Nothing
  /\ preSensor = [ty \in Types |-> 0]
  /\ sensorTempListeners = {} /\ present = {}
  /\ notifying = FALSE
  /\ told = [l \in TempListeners |-> Nothing]

(* A report replaces the last one; it need not hold every type.            *)
OnReceivedSensorInfo ==
  /\ ~notifying
  /\ callbackinfo' \in [Types -> Temps \cup {Unknown}] \ {Nothing}
  /\ notifying' = TRUE
  /\ UNCHANGED <<preSensor, sensorTempListeners, present, told>>

(***************************************************************************)
(* Looking a type up with operator[] adds it to the report with            *)
(* temperature 0 if it is not there.                                       *)
(***************************************************************************)
Wanted == UNION {TempInterest[l] : l \in sensorTempListeners}
TempCbMap == [ty \in Types |-> IF ty \in Wanted /\ callbackinfo[ty] = Unknown
                               THEN 0 ELSE callbackinfo[ty]]

(* newTempCbMap is not cleared between listeners: it holds every change    *)
(* that a listener up to and including l asked for.                        *)
(* Mutant: preSensor is updated inside the loop, so only the first         *)
(* listener that asked for a type sees its change.                         *)
NewTempCbMapFirstOnly(l) ==
  {ty \in TempInterest[l] :
     /\ preSensor[ty] # TempCbMap[ty]
     /\ \A i, j \in DOMAIN TempListenerOrder :
          i < j /\ TempListenerOrder[j] = l /\ TempListenerOrder[i] \in sensorTempListeners
            => ty \notin TempInterest[TempListenerOrder[i]]}

NewTempCbMap(l) ==
  {ty \in Types :
     /\ preSensor[ty] # TempCbMap[ty]
     /\ \E i, j \in DOMAIN TempListenerOrder :
          /\ i <= j /\ TempListenerOrder[j] = l
          /\ TempListenerOrder[i] \in sensorTempListeners
          /\ ty \in TempInterest[TempListenerOrder[i]]}

NotifySensorTempChanged ==
  /\ notifying
  /\ notifying' = FALSE
  /\ present' = sensorTempListeners
  /\ callbackinfo' = TempCbMap
  /\ preSensor' = [ty \in Types |-> IF ty \in Wanted THEN TempCbMap[ty] ELSE preSensor[ty]]
  /\ told' = [l \in TempListeners |->
                IF l \notin sensorTempListeners THEN told[l]
                ELSE [ty \in Types |-> IF ty \in NewTempCbMap(l) THEN TempCbMap[ty]
                                                                ELSE told[l][ty]]]
  /\ UNCHANGED sensorTempListeners

(* Nothing is told on subscription; a second one is refused.               *)
SubscribeThermalTempCallback(l) ==
  /\ l \notin sensorTempListeners
  /\ sensorTempListeners' = sensorTempListeners \cup {l}
  /\ UNCHANGED <<callbackinfo, preSensor, notifying, present, told>>

(* By the client, or by the task its death recipient submits.              *)
UnSubscribeThermalTempCallback(l) ==
  /\ l \in sensorTempListeners
  /\ sensorTempListeners' = sensorTempListeners \ {l}
  /\ present' = present \ {l}
  /\ told' = [told EXCEPT ![l] = Nothing]
  /\ UNCHANGED <<callbackinfo, preSensor, notifying>>

TempNext ==
  \/ OnReceivedSensorInfo
  \/ NotifySensorTempChanged
  \/ \E l \in TempListeners : SubscribeThermalTempCallback(l)
  \/ \E l \in TempListeners : UnSubscribeThermalTempCallback(l)

TempSpec == TempInit /\ [][TempNext]_tempVars

-----------------------------------------------------------------------------
(* Although all listeners share preSensor, none of them misses a change    *)
(* that another listener's callback has already recorded there: once the   *)
(* listeners of a report have been called, each of them was last told what *)
(* that report says of its types; or it was never told of the type, and    *)
(* then the temperature is the one preSensor holds.                        *)
EveryListenerCurrent ==
  ~notifying =>
    \A l \in present : \A ty \in TempInterest[l] :
      \/ told[l][ty] = callbackinfo[ty]
      \/ told[l][ty] = Unknown /\ preSensor[ty] = callbackinfo[ty]
=============================================================================
