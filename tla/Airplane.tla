------------------------------ MODULE Airplane ------------------------------
(***************************************************************************)
(* The airplane action (action_airplane.cpp) and the subscriber of the     *)
(* airplane event in thermal_service.cpp, which tells the user's changes   *)
(* from the service's own by one flag.  The two run on threads of their    *)
(* own and share no lock: the action reads what the user chose, throws the *)
(* flag and calls the network manager in three steps.  The network manager *)
(* and the event queue are external: every change of the mode is           *)
(* published, in order; a request of the service may fail, and then        *)
(* nothing is published.                                                   *)
(* The value is arbitrated as in ThermalAction; here it is any value.      *)
(***************************************************************************)
EXTENDS Naturals, Sequences

CONSTANT MaxEvents   \* bound on the airplane events under way

ASSUME AirplaneAssumption == MaxEvents \in Nat

LOWER_TEMP == 0
HIGHER_TEMP == 1
Other == 2           \* a configured value that is neither

VARIABLES
    airplane,           \* the mode of the device
    userAirplaneState,  \* userAirplaneState_
    isThermalAirplane,  \* isThermalAirplane_
    lastValue,          \* lastValue_ of the action
    request,            \* the request the action makes: the mode asked for and
                        \* whether the flag is thrown already; or none
    events,             \* airplane events under way: the mode, and whose it is
    choice,             \* history: what the user chose last
    mixed               \* history: a request failed, or was made while a change
                        \* by the user was on its way to the service

airplaneVars ==
    <<airplane, userAirplaneState, isThermalAirplane, lastValue, request, events, choice, mixed>>

-----------------------------------------------------------------------------
NoRequest == [value |-> Other, flagged |-> FALSE]

\* A new value up to the check of userAirplaneState_: nothing is asked for
\* while the service believes that the user has the mode on.
ExecuteInner(value) ==
    /\ request = NoRequest /\ value # lastValue
    /\ IF userAirplaneState \/ value \notin {LOWER_TEMP, HIGHER_TEMP}
       THEN lastValue' = value /\ UNCHANGED <<request, mixed>>
       ELSE /\ request' = [value |-> value, flagged |-> FALSE]
            /\ mixed' = (mixed \/ events # << >>)
            /\ UNCHANGED lastValue
    /\ UNCHANGED <<airplane, userAirplaneState, isThermalAirplane, events, choice>>

ThrowFlag ==
    /\ request # NoRequest /\ ~ request.flagged
    /\ isThermalAirplane' = TRUE
    /\ request' = [request EXCEPT !.flagged = TRUE]
    /\ UNCHANGED <<airplane, userAirplaneState, lastValue, events, choice, mixed>>

\* The call of the network manager.  The event itself does not say whose it
\* is: `own' is history.
AirplaneRequest(ok) ==
    /\ request.flagged /\ Len(events) < MaxEvents
    /\ airplane' = IF ok THEN request.value = HIGHER_TEMP ELSE airplane
    /\ events' = IF ok THEN Append(events, [on |-> request.value = HIGHER_TEMP, own |-> TRUE])
                 ELSE events
    /\ mixed' = (mixed \/ ~ ok)
    /\ lastValue' = request.value /\ request' = NoRequest
    /\ UNCHANGED <<userAirplaneState, isThermalAirplane, choice>>

UserSets(on) ==
    /\ Len(events) < MaxEvents
    /\ airplane' = on /\ choice' = on
    /\ events' = Append(events, [on |-> on, own |-> FALSE])
    /\ mixed' = (mixed \/ request # NoRequest)
    /\ UNCHANGED <<userAirplaneState, isThermalAirplane, lastValue, request>>

\* Mutant: the flag stays.
OnReceiveEventStays ==
    /\ events # << >>
    /\ events' = Tail(events)
    /\ userAirplaneState' = IF isThermalAirplane THEN userAirplaneState ELSE Head(events).on
    /\ UNCHANGED <<airplane, isThermalAirplane, lastValue, request, choice, mixed>>

OnReceiveEvent ==
    /\ events # << >>
    /\ events' = Tail(events)
    /\ userAirplaneState' = IF isThermalAirplane THEN userAirplaneState ELSE Head(events).on
    /\ isThermalAirplane' = FALSE
    /\ UNCHANGED <<airplane, lastValue, request, choice, mixed>>

-----------------------------------------------------------------------------
AirplaneInit ==
    /\ airplane = FALSE /\ userAirplaneState = FALSE /\ isThermalAirplane = FALSE
    /\ lastValue = LOWER_TEMP /\ request = NoRequest
    /\ events = << >> /\ choice = FALSE /\ mixed = FALSE

AirplaneNext ==
    \/ \E value \in {LOWER_TEMP, HIGHER_TEMP, Other} : ExecuteInner(value)
    \/ ThrowFlag
    \/ \E ok \in BOOLEAN : AirplaneRequest(ok)
    \/ \E on \in BOOLEAN : UserSets(on)
    \/ OnReceiveEvent

-----------------------------------------------------------------------------
(* Properties.                                                              *)

\* The device is given back to its user: once the device is cool and the
\* events are read, the mode is the one the user chose last, and the service
\* knows that choice, however hot phases and changes by the user followed one
\* another.  The exceptions are the cases in which the check and one flag
\* cannot tell: a request that failed, a request checked while an event was
\* still to be read, and a change by the user between the check of a request
\* and its call.
AirplaneGivenBack ==
    ~ mixed /\ events = << >> =>
        /\ userAirplaneState = choice
        /\ lastValue = LOWER_TEMP => airplane = choice
=============================================================================
