----------------------------- MODULE ChargeIdle -----------------------------
(***************************************************************************)
(* The charge-idle mode (charger_state_collection.cpp): battery and level  *)
(* events, handled one at a time under mutex_, each refresh a part of      *)
(* g_cachedIdleState; the mode is published when it changes.  A parameter  *)
(* that an event lacks reads as -1.  The publication is external and may   *)
(* fail.                                                                   *)
(***************************************************************************)
EXTENDS Integers

CONSTANTS Socs, ChargeStates, Currents, Levels,  \* what events may hold
          IdleConfig   \* the idle section of the configuration

Absent == -1
Keys == {"soc", "charging", "current", "level"}

ASSUME ChargeIdleAssumption ==
    /\ Socs \cup ChargeStates \cup Currents \cup Levels \subseteq Nat
    /\ IdleConfig \in [Keys -> Int]

\* BatteryChargeState: NONE, ENABLE, DISABLE, FULL, BUTT
BatteryChargeState == 0 .. 4

VARIABLES
    cachedIdleState,  \* g_cachedIdleState
    isChargeIdle,     \* g_isChargeIdle
    chargerState,     \* state_, Absent for the empty string
    told,             \* the mode published last: a set with it, or empty
    unsaid            \* whether the last publication failed

idleVars == <<cachedIdleState, isChargeIdle, chargerState, told, unsaid>>

IdleCondition(s) ==
    /\ s.soc >= IdleConfig.soc
    /\ s.charging = IdleConfig.charging
    /\ s.current >= IdleConfig.current
    /\ s.level <= IdleConfig.level

-----------------------------------------------------------------------------
\* The flag is stored also when the publication failed.
HandleChargeIdleState(s, published) ==
    IF IdleCondition(s) = isChargeIdle THEN UNCHANGED <<isChargeIdle, told, unsaid>>
    ELSE /\ isChargeIdle' = IdleCondition(s)
         /\ told' = IF published THEN {isChargeIdle'} ELSE told
         /\ unsaid' = ~ published

\* A charge state outside the enumeration leaves state_ as it is.
HandleChangerStatusCompleted(soc, charging, published) ==
    LET s == [cachedIdleState EXCEPT !.soc = soc, !.charging = charging]
    IN  /\ cachedIdleState' = s
        /\ HandleChargeIdleState(s, published)
        /\ chargerState' = IF charging \in BatteryChargeState THEN charging ELSE chargerState

HandleChangerInnerStatusCompleted(current, published) ==
    LET s == [cachedIdleState EXCEPT !.current = current]
    IN  /\ cachedIdleState' = s
        /\ HandleChargeIdleState(s, published)
        /\ UNCHANGED chargerState

\* Mutant: the level waits for the next battery event.
HandleThermalLevelCompletedQuiet(level, published) ==
    /\ cachedIdleState' = [cachedIdleState EXCEPT !.level = level]
    /\ UNCHANGED <<isChargeIdle, chargerState, told, unsaid>>

HandleThermalLevelCompleted(level, published) ==
    LET s == [cachedIdleState EXCEPT !.level = level]
    IN  /\ cachedIdleState' = s
        /\ HandleChargeIdleState(s, published)
        /\ UNCHANGED chargerState

-----------------------------------------------------------------------------
\* Zero-initialized globals, and the mode on before anything was heard.
IdleInit ==
    /\ cachedIdleState = [k \in Keys |-> 0]
    /\ isChargeIdle = TRUE
    /\ chargerState = Absent
    /\ told = {} /\ unsaid = FALSE

IdleNext ==
    \E published \in BOOLEAN :
        \/ \E soc \in Socs \cup {Absent}, charging \in ChargeStates \cup {Absent} :
              HandleChangerStatusCompleted(soc, charging, published)
        \/ \E current \in Currents \cup {Absent} :
              HandleChangerInnerStatusCompleted(current, published)
        \/ \E level \in Levels \cup {Absent} : HandleThermalLevelCompleted(level, published)

-----------------------------------------------------------------------------
(* Properties.                                                              *)

\* What was published is the mode of the values heard last, whichever event
\* brought them and in whichever order they came, unless the last publication
\* failed.  Nothing is published while the mode has been on from the start.
IdleTold ==
    cachedIdleState # [k \in Keys |-> 0] /\ ~ unsaid =>
        told = {IdleCondition(cachedIdleState)} \/ (told = {} /\ IdleCondition(cachedIdleState))
=============================================================================
