--------------------------- MODULE Reports_proofs ---------------------------
(***************************************************************************)
(* Proofs about the charge-idle mode, the airplane mode and the rise rates *)
(* of Reports, for every configuration of the idle section, whatever the   *)
(* events hold and however many airplane events are under way, and for     *)
(* histories of any length.                                                *)
(***************************************************************************)
EXTENDS Reports, WellFoundedInduction, TLAPS

-----------------------------------------------------------------------------
(* Charge-idle mode: the flag is the mode of the values heard last, or     *)
(* nothing was heard yet; what was published last is the flag.             *)

NothingHeard == cachedIdleState = [k \in Keys |-> 0] /\ isChargeIdle /\ told = {}

IdleInv ==
    /\ isChargeIdle \in BOOLEAN
    /\ NothingHeard \/ isChargeIdle = IdleCondition(cachedIdleState)
    /\ ~ unsaid => told = {isChargeIdle} \/ (told = {} /\ isChargeIdle)

(* Refreshing the cache and handling the mode keep the invariant, whatever *)
(* the refreshed values are.                                               *)
LEMMA IdleHandled ==
  ASSUME IdleInv, NEW s, NEW published \in BOOLEAN,
         cachedIdleState' = s, HandleChargeIdleState(s, published)
  PROVE  IdleInv'
<1>1. IdleCondition(s) \in BOOLEAN /\ IdleCondition(cachedIdleState)' = IdleCondition(s)
  BY DEF IdleCondition
<1>2. CASE IdleCondition(s) = isChargeIdle
  <2>1. UNCHANGED <<isChargeIdle, told, unsaid>>
    BY <1>2 DEF HandleChargeIdleState
  <2> QED BY <1>1, <1>2, <2>1, Zenon DEF IdleInv
<1>3. CASE IdleCondition(s) # isChargeIdle
  <2>1. /\ isChargeIdle' = IdleCondition(s) /\ unsaid' = ~ published
        /\ told' = IF published THEN {isChargeIdle'} ELSE told
    BY <1>3 DEF HandleChargeIdleState
  <2> QED BY <1>1, <2>1, Zenon DEF IdleInv
<1> QED BY <1>2, <1>3

(* Every step of the collector keeps the invariant. *)
LEMMA IdleStep == IdleInv /\ [IdleNext]_idleVars => IdleInv'
<1> SUFFICES ASSUME IdleInv, [IdleNext]_idleVars PROVE IdleInv'
  OBVIOUS
<1>1. ASSUME NEW published \in BOOLEAN, NEW soc, NEW charging,
             HandleChangerStatusCompleted(soc, charging, published)
      PROVE  IdleInv'
  BY <1>1, IdleHandled DEF HandleChangerStatusCompleted
<1>2. ASSUME NEW published \in BOOLEAN, NEW current,
             HandleChangerInnerStatusCompleted(current, published)
      PROVE  IdleInv'
  BY <1>2, IdleHandled DEF HandleChangerInnerStatusCompleted
<1>3. ASSUME NEW published \in BOOLEAN, NEW level,
             HandleThermalLevelCompleted(level, published)
      PROVE  IdleInv'
  BY <1>3, IdleHandled DEF HandleThermalLevelCompleted
<1>4. CASE UNCHANGED idleVars
  BY <1>4, Zenon DEF idleVars, IdleInv, NothingHeard, IdleCondition
<1> QED BY <1>1, <1>2, <1>3, <1>4 DEF IdleNext

(* The mode published is the one of the values heard last, in whichever    *)
(* order the battery and level events brought them.                        *)
THEOREM IdleModeTold == Spec => []IdleTold
<1>1. Init => IdleInv
  BY DEF Init, IdleInit, IdleInv, NothingHeard
<1>2. IdleInv /\ [Next]_vars => IdleInv'
  BY IdleStep DEF Next, vars, idleVars
<1>3. IdleInv => IdleTold
  BY Zenon DEF IdleInv, IdleTold, NothingHeard
<1> QED BY <1>1, <1>2, <1>3, PTL DEF Spec

-----------------------------------------------------------------------------
(* Airplane mode, as long as the events under way can be told apart: they  *)
(* are events of the user, the last of which is the user's choice, behind  *)
(* at most one event of the service, which the flag announces.  While a    *)
(* request is made nothing is under way.                                   *)

Event == [on : BOOLEAN, own : BOOLEAN]

\* From the k-th on, the events are the user's; the last tells the choice.
UsersFrom(k) ==
    /\ \A i \in k .. Len(events) : ~ events[i].own
    /\ IF Len(events) < k THEN userAirplaneState = choice ELSE events[Len(events)].on = choice

OwnUnderWay == isThermalAirplane /\ Len(events) >= 1 /\ events[1].own /\ UsersFrom(2)

UsersUnderWay == ~ isThermalAirplane /\ UsersFrom(1)

\* A request was checked: what the service believes is the user's choice.
Asking ==
    /\ Len(events) = 0 /\ ~ userAirplaneState /\ ~ choice
    /\ isThermalAirplane = request.flagged

\* The service has turned the mode on against the user's choice, and knows it.
TurnedOn ==
    /\ airplane /\ ~ choice /\ ~ userAirplaneState /\ lastValue # LOWER_TEMP
    /\ \A i \in 1 .. Len(events) : events[i].own

AirplaneTypes ==
    /\ airplane \in BOOLEAN /\ userAirplaneState \in BOOLEAN /\ isThermalAirplane \in BOOLEAN
    /\ choice \in BOOLEAN /\ mixed \in BOOLEAN
    /\ lastValue \in {LOWER_TEMP, HIGHER_TEMP, Other}
    /\ request = NoRequest \/ request \in [value : {LOWER_TEMP, HIGHER_TEMP}, flagged : BOOLEAN]
    /\ events \in Seq(Event)

\* What the check and the flag tell apart
Told ==
    /\ IF request = NoRequest THEN OwnUnderWay \/ UsersUnderWay ELSE Asking
    /\ airplane = choice \/ TurnedOn

AirplaneInv == AirplaneTypes /\ (~ mixed => Told)

(* A value is checked when all events are read, or the events are mixed.   *)
LEMMA CheckStep ==
  ASSUME AirplaneInv, NEW value \in {LOWER_TEMP, HIGHER_TEMP, Other}, ExecuteInner(value)
  PROVE  AirplaneInv'
<1>1. /\ AirplaneTypes /\ request = NoRequest
      /\ UNCHANGED <<airplane, userAirplaneState, isThermalAirplane, events, choice>>
  BY DEF AirplaneInv, ExecuteInner
<1>2. CASE userAirplaneState \/ value \notin {LOWER_TEMP, HIGHER_TEMP}
  <2>1. lastValue' = value /\ UNCHANGED <<request, mixed>>
    BY <1>2 DEF ExecuteInner
  <2>2. AirplaneTypes'
    BY <1>1, <2>1, Zenon DEF AirplaneTypes
  <2>3. TurnedOn => TurnedOn'
    <3>1. TurnedOn => lastValue' # LOWER_TEMP
      BY <1>2, <2>1 DEF TurnedOn, LOWER_TEMP, HIGHER_TEMP, Other
    <3> QED BY <1>1, <3>1, Zenon DEF TurnedOn
  <2>4. (OwnUnderWay \/ UsersUnderWay) => (OwnUnderWay \/ UsersUnderWay)'
    BY <1>1, Zenon DEF OwnUnderWay, UsersUnderWay, UsersFrom
  <2>5. Told => Told'
    BY <1>1, <2>1, <2>3, <2>4, Zenon DEF Told
  <2> QED BY <2>1, <2>2, <2>5, Zenon DEF AirplaneInv
<1>3. CASE ~ (userAirplaneState \/ value \notin {LOWER_TEMP, HIGHER_TEMP})
  <2>1. /\ request' = [value |-> value, flagged |-> FALSE]
        /\ mixed' = (mixed \/ events # << >>)
        /\ UNCHANGED lastValue
    BY <1>3 DEF ExecuteInner
  <2>2. /\ request' \in [value : {LOWER_TEMP, HIGHER_TEMP}, flagged : BOOLEAN]
        /\ request'.flagged = FALSE /\ request' # NoRequest
    <3>1. request'.value = value /\ request'.flagged = FALSE
      BY <2>1
    <3>2. request'.value # NoRequest.value
      BY <1>3, <3>1 DEF NoRequest, LOWER_TEMP, HIGHER_TEMP, Other
    <3>3. request' \in [value : {LOWER_TEMP, HIGHER_TEMP}, flagged : BOOLEAN]
      BY <1>3, <2>1
    <3> QED BY <3>1, <3>2, <3>3
  <2>3. AirplaneTypes'
    BY <1>1, <2>1, <2>2, Zenon DEF AirplaneTypes
  <2>4. ASSUME ~ mixed' PROVE Told'
    <3>1. ~ mixed /\ events = << >>
      BY <2>1, <2>4, Zenon
    <3>2. Len(events) = 0
      BY <3>1
    <3>3. ~ OwnUnderWay
      BY <3>2 DEF OwnUnderWay
    <3>4. UsersUnderWay /\ (airplane = choice \/ TurnedOn)
      BY <1>1, <3>1, <3>3, Zenon DEF AirplaneInv, Told
    <3>5. ~ isThermalAirplane /\ userAirplaneState = choice
      BY <3>2, <3>4 DEF UsersUnderWay, UsersFrom
    <3>6. Asking'
      <4>1. ~ userAirplaneState' /\ ~ choice' /\ Len(events') = 0 /\ ~ isThermalAirplane'
        BY <1>1, <1>3, <3>2, <3>5, Zenon
      <4>2. isThermalAirplane' = FALSE
        BY <1>1, <3>5, Zenon DEF AirplaneTypes
      <4> QED BY <2>2, <4>1, <4>2, Zenon DEF Asking
    <3>7. TurnedOn => TurnedOn'
      BY <1>1, <2>1, Zenon DEF TurnedOn
    <3> QED BY <1>1, <2>2, <3>4, <3>6, <3>7, Zenon DEF Told
  <2> QED BY <2>3, <2>4, Zenon DEF AirplaneInv
<1> QED BY <1>2, <1>3

(* The flag announces the event of the request that is made.               *)
LEMMA FlagStep ==
  ASSUME AirplaneInv, ThrowFlag
  PROVE  AirplaneInv'
<1>1. /\ AirplaneTypes /\ request # NoRequest
      /\ isThermalAirplane' = TRUE /\ request' = [request EXCEPT !.flagged = TRUE]
      /\ UNCHANGED <<airplane, userAirplaneState, lastValue, events, choice, mixed>>
  BY DEF AirplaneInv, ThrowFlag
<1>2. request \in [value : {LOWER_TEMP, HIGHER_TEMP}, flagged : BOOLEAN]
  BY <1>1, Zenon DEF AirplaneTypes
<1>3. /\ request' \in [value : {LOWER_TEMP, HIGHER_TEMP}, flagged : BOOLEAN]
      /\ request'.flagged = TRUE /\ request' # NoRequest
  <2>1. /\ request' \in [value : {LOWER_TEMP, HIGHER_TEMP}, flagged : BOOLEAN]
        /\ request'.flagged = TRUE
    BY <1>1, <1>2
  <2>2. request'.flagged # NoRequest.flagged
    BY <2>1 DEF NoRequest
  <2> QED BY <2>1, <2>2
<1>4. AirplaneTypes'
  BY <1>1, <1>3, Zenon DEF AirplaneTypes
<1>5. ASSUME ~ mixed' PROVE Told'
  <2>1. Asking /\ (airplane = choice \/ TurnedOn)
    BY <1>1, <1>5, Zenon DEF AirplaneInv, Told
  <2>2. Asking'
    BY <1>1, <1>3, <2>1, Zenon DEF Asking
  <2>3. TurnedOn => TurnedOn'
    BY <1>1, Zenon DEF TurnedOn
  <2> QED BY <1>1, <1>3, <2>1, <2>2, <2>3, Zenon DEF Told
<1> QED BY <1>4, <1>5, Zenon DEF AirplaneInv

(* The call of the network manager puts the one event under way.           *)
LEMMA RequestStep ==
  ASSUME AirplaneInv, NEW ok \in BOOLEAN, AirplaneRequest(ok)
  PROVE  AirplaneInv'
<1> DEFINE high == request.value = HIGHER_TEMP
           own == [on |-> high, own |-> TRUE]
<1>1. /\ AirplaneTypes /\ request.flagged
      /\ airplane' = IF ok THEN high ELSE airplane
      /\ events' = IF ok THEN Append(events, own) ELSE events
      /\ mixed' = (mixed \/ ~ ok)
      /\ lastValue' = request.value /\ request' = NoRequest
      /\ UNCHANGED <<userAirplaneState, isThermalAirplane, choice>>
  BY DEF AirplaneInv, AirplaneRequest
<1>2. request # NoRequest /\ request \in [value : {LOWER_TEMP, HIGHER_TEMP}, flagged : BOOLEAN]
  <2>1. request # NoRequest
    BY <1>1 DEF NoRequest
  <2> QED BY <1>1, <2>1, Zenon DEF AirplaneTypes
<1>3. request.value \in {LOWER_TEMP, HIGHER_TEMP} /\ high \in BOOLEAN
  BY <1>2
<1>4. own \in Event /\ own.own = TRUE
  BY DEF Event
<1> HIDE DEF own, high
<1>5. /\ events \in Seq(Event) /\ events' \in Seq(Event)
      /\ ok => Len(events') = Len(events) + 1 /\ events'[Len(events) + 1] = own
  BY <1>1, <1>4 DEF AirplaneTypes
<1>6. AirplaneTypes'
  BY <1>1, <1>3, <1>5, Zenon DEF AirplaneTypes
<1>7. ASSUME ~ mixed' PROVE Told'
  <2>1. ok /\ ~ mixed
    BY <1>1, <1>7, Zenon
  <2>2. Asking
    BY <1>2, <2>1, Zenon DEF AirplaneInv, Told
  <2>3. Len(events') = 1 /\ events'[1] = own /\ events'[1].own
    BY <1>4, <1>5, <2>1, <2>2 DEF Asking
  <2>4. isThermalAirplane' /\ userAirplaneState' = choice' /\ ~ choice' /\ ~ userAirplaneState'
    <3>1. userAirplaneState = FALSE /\ choice = FALSE
      BY <1>1, <2>2, Zenon DEF Asking, AirplaneTypes
    <3>2. isThermalAirplane
      BY <1>1, <2>2, Zenon DEF Asking
    <3> QED BY <1>1, <3>1, <3>2, Zenon
  <2>5. OwnUnderWay'
    <3>1. Len(events') >= 1 /\ 2 .. Len(events') = {} /\ Len(events') < 2
      BY <2>3
    <3> QED BY <2>3, <2>4, <3>1, Zenon DEF OwnUnderWay, UsersFrom
  <2>6. CASE high
    <3>1. lastValue' # LOWER_TEMP
      BY <1>1, <2>6 DEF high, LOWER_TEMP, HIGHER_TEMP
    <3>2. airplane' /\ \A i \in 1 .. Len(events') : events'[i].own
      <4>1. airplane'
        BY <1>1, <2>1, <2>6, Zenon
      <4>2. 1 .. Len(events') = {1}
        BY <2>3
      <4> QED BY <2>3, <4>1, <4>2
    <3>3. TurnedOn'
      BY <2>4, <3>1, <3>2, Zenon DEF TurnedOn
    <3> QED BY <1>1, <2>5, <3>3, Zenon DEF Told
  <2>7. CASE ~ high
    <3>1. airplane' = FALSE
      BY <1>1, <1>3, <2>1, <2>7, Zenon
    <3>2. choice' = FALSE
      BY <1>6, <2>4, Zenon DEF AirplaneTypes
    <3>3. airplane' = choice'
      BY <3>1, <3>2
    <3> QED BY <1>1, <2>5, <3>3, Zenon DEF Told
  <2> QED BY <2>6, <2>7
<1> QED BY <1>6, <1>7, Zenon DEF AirplaneInv

(* A change by the user is the last event, and the user's choice.          *)
LEMMA UserStep ==
  ASSUME AirplaneInv, NEW on \in BOOLEAN, UserSets(on)
  PROVE  AirplaneInv'
<1> DEFINE user == [on |-> on, own |-> FALSE]
<1>1. /\ AirplaneTypes /\ airplane' = on /\ choice' = on
      /\ events' = Append(events, user)
      /\ mixed' = (mixed \/ request # NoRequest)
      /\ UNCHANGED <<userAirplaneState, isThermalAirplane, lastValue, request>>
  BY DEF AirplaneInv, UserSets
<1>2. user \in Event /\ ~ user.own /\ user.on = on
  BY DEF Event
<1> HIDE DEF user
<1>3. /\ events' \in Seq(Event)
      /\ Len(events) \in Nat /\ Len(events') = Len(events) + 1
      /\ \A i \in 1 .. Len(events) : events'[i] = events[i]
      /\ events'[Len(events')] = user
  BY <1>1, <1>2 DEF AirplaneTypes
<1>4. AirplaneTypes'
  BY <1>1, <1>3, Zenon DEF AirplaneTypes
<1>5. ASSUME NEW k \in {1, 2}, UsersFrom(k), Len(events) >= k - 1 PROVE UsersFrom(k)'
  <2>1. ~ (Len(events') < k)
    BY <1>3, <1>5
  <2>2. ASSUME NEW i \in k .. Len(events') PROVE ~ events'[i].own
    <3>1. CASE i \in k .. Len(events)
      <4>1. i \in 1 .. Len(events)
        BY <3>1
      <4> QED BY <1>3, <1>5, <3>1, <4>1, Zenon DEF UsersFrom
    <3>2. CASE i = Len(events')
      BY <1>2, <1>3, <3>2, Zenon
    <3> QED BY <1>3, <3>1, <3>2
  <2>3. events'[Len(events')].on = choice'
    BY <1>1, <1>2, <1>3, Zenon
  <2> QED BY <2>1, <2>2, <2>3, Zenon DEF UsersFrom
<1>6. ASSUME ~ mixed' PROVE Told'
  <2>1. ~ mixed /\ request = NoRequest
    BY <1>1, <1>6, Zenon
  <2>2. OwnUnderWay \/ UsersUnderWay
    BY <2>1, Zenon DEF AirplaneInv, Told
  <2>3. ASSUME OwnUnderWay PROVE OwnUnderWay'
    <3>1. UsersFrom(2) /\ Len(events) >= 2 - 1 /\ 2 \in {1, 2} /\ 1 \in 1 .. Len(events)
      BY <1>3, <2>3 DEF OwnUnderWay
    <3>2. UsersFrom(2)'
      BY <1>5, <3>1
    <3>3. Len(events') >= 1 /\ events'[1] = events[1]
      BY <1>3, <3>1
    <3> QED BY <1>1, <2>3, <3>2, <3>3, Zenon DEF OwnUnderWay
  <2>4. ASSUME UsersUnderWay PROVE UsersUnderWay'
    <3>1. UsersFrom(1) /\ Len(events) >= 1 - 1 /\ 1 \in {1, 2}
      BY <1>3, <2>4 DEF UsersUnderWay
    <3>2. UsersFrom(1)'
      BY <1>5, <3>1
    <3> QED BY <1>1, <2>4, <3>2, Zenon DEF UsersUnderWay
  <2> QED BY <1>1, <2>1, <2>2, <2>3, <2>4, Zenon DEF Told
<1> QED BY <1>4, <1>6, Zenon DEF AirplaneInv

(* The event at the head is read: the service's own one clears the flag    *)
(* and nothing else, one of the user is what the service now believes.     *)
LEMMA EventStep ==
  ASSUME AirplaneInv, OnReceiveEvent
  PROVE  AirplaneInv'
<1>1. /\ AirplaneTypes /\ events # << >> /\ events' = Tail(events)
      /\ userAirplaneState' = IF isThermalAirplane THEN userAirplaneState ELSE Head(events).on
      /\ isThermalAirplane' = FALSE
      /\ UNCHANGED <<airplane, lastValue, request, choice, mixed>>
  BY DEF AirplaneInv, OnReceiveEvent
<1>2. events \in Seq(Event)
  BY <1>1 DEF AirplaneTypes
<1>3. /\ events' \in Seq(Event)
      /\ Len(events) \in Nat \ {0} /\ Len(events') = Len(events) - 1
      /\ \A i \in 1 .. Len(events') : events'[i] = events[i + 1]
      /\ Head(events) = events[1] /\ Head(events) \in Event
  BY <1>1, <1>2
<1>4. AirplaneTypes'
  <2>1. Head(events).on \in BOOLEAN
    BY <1>3 DEF Event
  <2> QED BY <1>1, <1>3, <2>1, Zenon DEF AirplaneTypes
<1>5. ASSUME \A i \in 2 .. Len(events) : ~ events[i].own,
             Len(events) = 1 => userAirplaneState' = choice,
             Len(events) # 1 => events[Len(events)].on = choice
      PROVE  UsersFrom(1)'
  <2>1. ASSUME NEW i \in 1 .. Len(events') PROVE ~ events'[i].own
    <3>1. i + 1 \in 2 .. Len(events)
      BY <1>3
    <3> QED BY <1>3, <1>5, <3>1, Zenon
  <2>2. CASE Len(events) = 1
    <3>1. Len(events') < 1
      BY <1>3, <2>2
    <3> QED BY <1>1, <1>5, <2>1, <2>2, <3>1, Zenon DEF UsersFrom
  <2>3. CASE Len(events) # 1
    <3>1. ~ (Len(events') < 1) /\ Len(events') \in 1 .. Len(events') /\ Len(events') + 1 = Len(events)
      BY <1>3, <2>3
    <3>2. events'[Len(events')].on = choice'
      BY <1>1, <1>3, <1>5, <2>3, <3>1, Zenon
    <3> QED BY <2>1, <3>1, <3>2, Zenon DEF UsersFrom
  <2> QED BY <2>2, <2>3
<1>6. ASSUME ~ mixed' PROVE Told'
  <2>0. ~ Asking
    BY <1>3 DEF Asking
  <2>1. /\ ~ mixed /\ request = NoRequest
        /\ OwnUnderWay \/ UsersUnderWay
        /\ airplane = choice \/ TurnedOn
    BY <1>1, <1>6, <2>0, Zenon DEF AirplaneInv, Told
  <2>2. CASE OwnUnderWay
    <3>1. isThermalAirplane /\ userAirplaneState' = userAirplaneState /\ UsersFrom(2)
      BY <1>1, <2>2, Zenon DEF OwnUnderWay
    <3>2. /\ \A i \in 2 .. Len(events) : ~ events[i].own
          /\ Len(events) = 1 => userAirplaneState' = choice
          /\ Len(events) # 1 => events[Len(events)].on = choice
      <4>1. /\ Len(events) = 1 => Len(events) < 2
            /\ Len(events) # 1 => ~ (Len(events) < 2)
        BY <1>3
      <4> QED BY <3>1, <4>1, Zenon DEF UsersFrom
    <3>3. UsersUnderWay'
      BY <1>1, <1>5, <3>2, Zenon DEF UsersUnderWay
    <3>4. TurnedOn => TurnedOn'
      <4>1. \A i \in 1 .. Len(events') : i + 1 \in 1 .. Len(events)
        BY <1>3
      <4>2. TurnedOn => \A i \in 1 .. Len(events') : events'[i].own
        BY <1>3, <4>1, Zenon DEF TurnedOn
      <4>3. ASSUME TurnedOn
            PROVE  airplane' /\ ~ choice' /\ ~ userAirplaneState' /\ lastValue' # LOWER_TEMP
        <5>1. airplane /\ ~ choice /\ ~ userAirplaneState /\ lastValue # LOWER_TEMP
          BY <4>3, Zenon DEF TurnedOn
        <5>2. UNCHANGED <<airplane, lastValue, choice>>
          BY <1>1
        <5> QED BY <3>1, <5>1, <5>2
      <4> QED BY <4>2, <4>3, Zenon DEF TurnedOn
    <3> QED BY <1>1, <2>1, <3>3, <3>4, Zenon DEF Told
  <2>3. CASE UsersUnderWay
    <3>1. ~ isThermalAirplane /\ userAirplaneState' = events[1].on /\ UsersFrom(1)
      BY <1>1, <1>3, <2>3, Zenon DEF UsersUnderWay
    <3>2. /\ \A i \in 2 .. Len(events) : i \in 1 .. Len(events)
          /\ ~ (Len(events) < 1) /\ 1 \in 1 .. Len(events)
      BY <1>3
    <3>3. /\ \A i \in 2 .. Len(events) : ~ events[i].own
          /\ Len(events) = 1 => userAirplaneState' = choice
          /\ Len(events) # 1 => events[Len(events)].on = choice
      BY <3>1, <3>2, Zenon DEF UsersFrom
    <3>4. UsersUnderWay'
      BY <1>1, <1>5, <3>3, Zenon DEF UsersUnderWay
    <3>5. ~ TurnedOn
      BY <3>1, <3>2, Zenon DEF TurnedOn, UsersFrom
    <3> QED BY <1>1, <2>1, <3>4, <3>5, Zenon DEF Told
  <2> QED BY <2>1, <2>2, <2>3
<1> QED BY <1>4, <1>6, Zenon DEF AirplaneInv

(* The device is given back to its user, for any number of events under    *)
(* way, hot phases and changes by the user, with the check, the flag and   *)
(* the call of a request as steps between which events are read.           *)
THEOREM AirplaneIsGivenBack == Spec => []AirplaneGivenBack
<1>1. Init => AirplaneInv
  <2> SUFFICES ASSUME Init PROVE AirplaneInv
    OBVIOUS
  <2>1. /\ events \in Seq(Event) /\ Len(events) = 0 /\ request = NoRequest
        /\ 1 .. Len(events) = {} /\ Len(events) < 1
    BY DEF Init, AirplaneInit
  <2>2. AirplaneTypes
    BY <2>1, Zenon DEF Init, AirplaneInit, AirplaneTypes
  <2>3. UsersUnderWay /\ airplane = choice
    BY <2>1, Zenon DEF Init, AirplaneInit, UsersUnderWay, UsersFrom
  <2> QED BY <2>1, <2>2, <2>3, Zenon DEF AirplaneInv, Told
<1>2. AirplaneInv /\ [Next]_vars => AirplaneInv'
  <2> SUFFICES ASSUME AirplaneInv, [Next]_vars PROVE AirplaneInv'
    OBVIOUS
  <2>1. CASE AirplaneNext
    BY <2>1, CheckStep, FlagStep, RequestStep, UserStep, EventStep DEF AirplaneNext
  <2>2. CASE UNCHANGED airplaneVars
    BY <2>2, Zenon DEF airplaneVars, AirplaneInv, AirplaneTypes, Told, Asking, OwnUnderWay,
       UsersUnderWay, UsersFrom, TurnedOn
  <2> QED BY <2>1, <2>2 DEF Next, vars
<1>3. AirplaneInv => AirplaneGivenBack
  <2> SUFFICES ASSUME AirplaneInv, ~ mixed, events = << >>
               PROVE  userAirplaneState = choice /\ (lastValue = LOWER_TEMP => airplane = choice)
    BY DEF AirplaneGivenBack
  <2>1. Len(events) = 0 /\ ~ (Len(events) >= 1) /\ Len(events) < 1
    OBVIOUS
  <2>2. AirplaneTypes /\ Told /\ ~ OwnUnderWay
    BY <2>1, Zenon DEF AirplaneInv, OwnUnderWay
  <2>3. userAirplaneState = choice
    <3>1. CASE request = NoRequest
      BY <2>1, <2>2, <3>1, Zenon DEF Told, UsersUnderWay, UsersFrom
    <3>2. CASE request # NoRequest
      BY <2>2, <3>2, Zenon DEF Told, Asking, AirplaneTypes
    <3> QED BY <3>1, <3>2
  <2> QED BY <2>2, <2>3, Zenon DEF Told, TurnedOn
<1> QED BY <1>1, <1>2, <1>3, PTL DEF Spec

-----------------------------------------------------------------------------
(* The rise rate.  It is a quotient of sums; with a report more, the       *)
(* numerator grows by what the report is below the ones before it.         *)

\* A product with a non-negative factor is monotone in the other.
LEMMA Monotone ==
  ASSUME NEW k \in Nat, NEW a \in Int, NEW b \in Int, a <= b
  PROVE  k * a <= k * b
OBVIOUS

\* One more report, no warmer than the one before it.
LEMMA SlopeGrows ==
  ASSUME NEW k \in Nat, k > 0, NEW S \in Int, NEW Y \in Int, NEW M \in Int,
         NEW old \in Int, NEW y \in Int, y <= old,
         2 * S + 5 * (k * (k - 1)) = 0, Y >= k * old,
         2 * (M + 5 * (k * Y)) >= 5 * (k * (k + 1) * old)
  PROVE  LET j == k + 1
             t == -5 * k
             S2 == S + t
             Y2 == Y + y
             M2 == M + t * y
         IN  /\ 2 * S2 + 5 * (j * (j - 1)) = 0
             /\ Y2 >= j * y
             /\ 2 * (M2 + 5 * (j * Y2)) >= 5 * (j * (j + 1) * y)
             /\ j * M2 - S2 * Y2 >= k * M - S * Y
             /\ y < old => j * M2 - S2 * Y2 > k * M - S * Y
<1> DEFINE j == k + 1
           t == -5 * k
           S2 == S + t
           Y2 == Y + y
           M2 == M + t * y
           V == 2 * (M + 5 * (k * Y))
           c == k * (k + 1)
<1>1. 2 * S2 + 5 * (j * (j - 1)) = 0
  OBVIOUS
<1>2. Y2 >= j * y
  <2>1. k * y <= k * old
    BY Monotone
  <2>2. j * y = k * y + y
    OBVIOUS
  <2> QED BY <2>1, <2>2
<1>3. c \in Nat /\ c * y <= c * old /\ c > 0
  <2>1. c \in Nat /\ c > 0
    OBVIOUS
  <2> HIDE DEF c
  <2> QED BY <2>1, Monotone
<1>4. 2 * (M2 + 5 * (j * Y2)) >= 5 * (j * (j + 1) * y)
  <2>1. 2 * (M2 + 5 * (j * Y2)) = V + 10 * Y2
    OBVIOUS
  <2>2. 5 * (j * (j + 1) * y) = 5 * (c * y) + 10 * (j * y)
    OBVIOUS
  <2>3. V >= 5 * (c * old)
    OBVIOUS
  <2> HIDE DEF V, c, Y2, M2, j
  <2>4. /\ V \in Int /\ c * y \in Int /\ c * old \in Int /\ Y2 \in Int /\ j * y \in Int
    BY <1>3 DEF V, c, Y2, j
  <2> QED BY <1>2, <1>3, <2>1, <2>2, <2>3, <2>4
<1>5. 2 * (j * M2 - S2 * Y2) = 2 * (k * M - S * Y) + V - 5 * (c * y)
  <2>1. 2 * (j * M2 - S2 * Y2) =
          2 * (k * M - S * Y) + 2 * M + 10 * (k * Y) - 10 * (k * k * y) - 2 * (S * y)
    OBVIOUS
  <2>2. 2 * (S * y) = (2 * S) * y
    OBVIOUS
  <2>3. (2 * S) * y = -5 * (k * k * y) + 5 * (k * y)
    OBVIOUS
  <2>4. c * y = k * k * y + k * y
    OBVIOUS
  <2> QED BY <2>1, <2>2, <2>3, <2>4
<1>6. y < old => c * y < c * old
  <2>1. c \in Nat /\ c > 0
    BY <1>3
  <2> HIDE DEF c
  <2> QED BY <2>1
<1>7. /\ j * M2 - S2 * Y2 >= k * M - S * Y
      /\ y < old => j * M2 - S2 * Y2 > k * M - S * Y
  <2>1. V >= 5 * (c * old)
    OBVIOUS
  <2>2. /\ j * M2 - S2 * Y2 \in Int /\ k * M - S * Y \in Int /\ V \in Int
        /\ c * y \in Int /\ c * old \in Int
    OBVIOUS
  <2> HIDE DEF j, M2, S2, Y2, V, c
  <2> QED BY <1>3, <1>5, <1>6, <2>1, <2>2
<1> QED BY <1>1, <1>2, <1>4, <1>7

NatOrder == {r \in Nat \X Nat : r[1] < r[2]}

\* A property of 0 that each number hands on to the next holds up to N: there
\* is no smallest number without it.
LEMMA NoSmallest ==
  ASSUME NEW N \in Nat, NEW S \in SUBSET (0 .. N), 0 \in S,
         \A n \in 0 .. N : n # N /\ n \in S => n + 1 \in S
  PROVE  N \in S
<1> DEFINE bad == (0 .. N) \ S
<1> SUFFICES ASSUME bad # {} PROVE FALSE
  OBVIOUS
<1>1. IsWellFoundedOn(NatOrder, Nat)
  <2>1. NatOrder = OpToRel(<, Nat)
    BY DEF NatOrder, OpToRel
  <2> QED BY <2>1, NatLessThanWellFounded
<1>2. PICK x \in bad : \A y \in bad : ~(<<y, x>> \in NatOrder)
  <2>1. bad \subseteq Nat
    OBVIOUS
  <2> QED BY <1>1, <2>1, WFMin, Zenon
<1>3. x \in Nat /\ x # 0 /\ x - 1 \in 0 .. N
  OBVIOUS
<1>4. <<x - 1, x>> \in NatOrder
  BY <1>3 DEF NatOrder
<1>5. x - 1 \in S
  BY <1>2, <1>3, <1>4
<1> QED BY <1>3, <1>5

\* s is the accumulator of a loop over the first n elements of x.
Accumulates(s, x, n) == /\ s[0] = 0
                        /\ \A k \in 1 .. n : s[k] = s[k - 1] + x[k]
                        /\ \A k \in 0 .. n : s[k] \in Int

\* The loop has an accumulator, and Sum is its last value.
LEMMA SumIsAccumulated ==
  ASSUME NEW x \in Seq(Int)
  PROVE  \E s : Accumulates(s, x, Len(x)) /\ Sum(x) = s[Len(x)]
<1> DEFINE N == Len(x)
           Fits(g, m) == g = [n \in 0 .. m |-> IF n = 0 THEN 0 ELSE g[n - 1] + x[n]]
           s == CHOOSE g : Fits(g, N)
<1>1. N \in Nat /\ \A n \in 1 .. N : x[n] \in Int
  OBVIOUS
<1>2. Sum(x) = s[N]
  BY DEF Sum
<1> HIDE DEF N
<1>3. \E g : Fits(g, N)
  <2> DEFINE S == {m \in 0 .. N : \E g : Fits(g, m)}
  <2>1. 0 \in S
    <3>1. Fits([n \in 0 .. 0 |-> 0], 0)
      OBVIOUS
    <3>2. 0 \in 0 .. N
      BY <1>1
    <3> HIDE DEF Fits
    <3> QED BY <3>1, <3>2, Zenon
  <2>2. ASSUME NEW m \in 0 .. N, m # N, m \in S PROVE m + 1 \in S
    <3>1. PICK g : Fits(g, m)
      BY <2>2
    <3> DEFINE h == [n \in 0 .. m + 1 |-> IF n = m + 1 THEN g[m] + x[m + 1] ELSE g[n]]
    <3>2. Fits(h, m + 1)
      <4>1. \A n \in 0 .. m + 1 : h[n] = IF n = 0 THEN 0 ELSE h[n - 1] + x[n]
        BY <1>1, <3>1
      <4> QED BY <4>1
    <3>3. m + 1 \in 0 .. N
      BY <1>1, <2>2
    <3> QED BY <3>2, <3>3
  <2>3. N \in S
    <3> HIDE DEF S
    <3>1. S \subseteq 0 .. N
      BY DEF S
    <3> QED BY <1>1, <2>1, <2>2, <3>1, NoSmallest
  <2> QED BY <2>3
<1>4. Fits(s, N)
  BY <1>3, Zenon
<1> HIDE DEF s
<1>5. s[0] = 0 /\ \A n \in 1 .. N : s[n] = s[n - 1] + x[n]
  BY <1>1, <1>4
<1>6. \A n \in 0 .. N : s[n] \in Int
  <2> SUFFICES ASSUME NEW n \in 0 .. N PROVE s[n] \in Int
    OBVIOUS
  <2> DEFINE T == {m \in 0 .. n : s[m] \in Int}
  <2>1. 0 \in T
    BY <1>1, <1>5
  <2>2. ASSUME NEW m \in 0 .. n, m # n, m \in T PROVE m + 1 \in T
    <3>1. m + 1 \in 1 .. N /\ (m + 1) - 1 = m /\ m + 1 \in 0 .. n
      BY <1>1, <2>2
    <3>2. s[m + 1] = s[m] + x[m + 1]
      BY <1>5, <3>1
    <3> QED BY <1>1, <2>2, <3>1, <3>2
  <2>3. T \subseteq 0 .. n /\ n \in Nat
    BY <1>1
  <2>4. n \in T
    <3> HIDE DEF T
    <3> QED BY <2>1, <2>2, <2>3, NoSmallest
  <2> QED BY <2>4
<1> QED BY <1>2, <1>5, <1>6 DEF Accumulates, N

\* The sum of the negated elements.
LEMMA SumNegated ==
  ASSUME NEW x \in Seq(Int), NEW y \in Seq(Int), Len(y) = Len(x),
         \A i \in 1 .. Len(x) : y[i] = -x[i]
  PROVE  Sum(y) = -Sum(x) /\ Sum(x) \in Int
<1> DEFINE N == Len(x)
<1>1. PICK s : Accumulates(s, x, N) /\ Sum(x) = s[N]
  BY SumIsAccumulated
<1>2. PICK r : Accumulates(r, y, N) /\ Sum(y) = r[N]
  BY SumIsAccumulated
<1>3. N \in Nat /\ \A i \in 1 .. N : x[i] \in Int /\ y[i] = -x[i]
  OBVIOUS
<1> HIDE DEF N
<1> DEFINE T == {m \in 0 .. N : r[m] = -s[m]}
<1>4. 0 \in T
  BY <1>1, <1>2, <1>3 DEF Accumulates
<1>5. ASSUME NEW m \in 0 .. N, m # N, m \in T PROVE m + 1 \in T
  <2>1. m + 1 \in 1 .. N /\ (m + 1) - 1 = m /\ m + 1 \in 0 .. N
    BY <1>3, <1>5
  <2>2. s[m + 1] = s[m] + x[m + 1] /\ r[m + 1] = r[m] + y[m + 1] /\ s[m] \in Int
    BY <1>1, <1>2, <2>1 DEF Accumulates
  <2>3. x[m + 1] \in Int /\ y[m + 1] = -x[m + 1] /\ r[m] = -s[m]
    BY <1>3, <1>5, <2>1
  <2>4. r[m + 1] = -s[m + 1]
    BY <2>2, <2>3
  <2> QED BY <2>1, <2>4
<1>6. N \in T
  <2>1. T \subseteq 0 .. N
    OBVIOUS
  <2> HIDE DEF T
  <2> QED BY <1>3, <1>4, <1>5, <2>1, NoSmallest
<1> QED BY <1>1, <1>2, <1>3, <1>6 DEF Accumulates

-----------------------------------------------------------------------------
\* The times of the reports are the numbers 0, -5, -10 and so on.
LEMMA TimesAre ==
  ASSUME NEW n \in Nat
  PROVE  /\ Times(n) \in Seq(Int) /\ Len(Times(n)) = n
         /\ \A i \in 1 .. n : Times(n)[i] = -5 * (i - 1)
         /\ \A i, j \in 1 .. n : i < j => Times(n)[j] < Times(n)[i]
<1>1. \A i \in 1 .. n : Times(n)[i] = -5 * (i - 1)
  BY DEF Times, THERMAL_UPDATE_PERIOD
<1>2. \A i, j \in 1 .. n : i < j => -5 * (j - 1) < -5 * (i - 1)
  OBVIOUS
<1> QED BY <1>1, <1>2 DEF Times, THERMAL_UPDATE_PERIOD

Products(x, y) == [i \in 1 .. Len(x) |-> x[i] * y[i]]

\* The products of two lists of integers are such a list.
LEMMA ProductsAre ==
  ASSUME NEW x \in Seq(Int), NEW y \in Seq(Int), Len(y) = Len(x)
  PROVE  /\ Products(x, y) \in Seq(Int) /\ Len(Products(x, y)) = Len(x)
         /\ \A i \in 1 .. Len(x) : Products(x, y)[i] = x[i] * y[i]
<1>1. \A i \in 1 .. Len(x) : x[i] * y[i] \in Int
  OBVIOUS
<1> QED BY <1>1 DEF Products

\* A history that never fell is in order.
LEMMA InOrder ==
  ASSUME NEW q \in Seq(Int), \A i \in 1 .. Len(q) - 1 : q[i] >= q[i + 1],
         NEW i \in 1 .. Len(q), NEW j \in 1 .. Len(q), i <= j
  PROVE  q[i] >= q[j]
<1> DEFINE N == j - i
           T == {d \in 0 .. N : q[i] >= q[i + d]}
<1>1. N \in Nat /\ i + N = j /\ i \in Nat /\ j \in 1 .. Len(q) /\ Len(q) \in Nat
  OBVIOUS
<1>2. \A k \in 1 .. Len(q) : q[k] \in Int
  OBVIOUS
<1> HIDE DEF N
<1>3. 0 \in T
  BY <1>1, <1>2
<1>4. ASSUME NEW d \in 0 .. N, d # N, d \in T PROVE d + 1 \in T
  <2>1. /\ i + d \in 1 .. Len(q) - 1 /\ i + d \in 1 .. Len(q) /\ (i + d) + 1 \in 1 .. Len(q)
        /\ i + (d + 1) = (i + d) + 1 /\ d + 1 \in 0 .. N
    BY <1>1, <1>4
  <2>2. q[i + d] >= q[(i + d) + 1] /\ q[i] >= q[i + d]
    BY <1>4, <2>1
  <2>3. q[i] \in Int /\ q[i + d] \in Int /\ q[(i + d) + 1] \in Int
    BY <1>2, <2>1
  <2>4. q[i] >= q[i + (d + 1)]
    BY <2>1, <2>2, <2>3
  <2> QED BY <2>1, <2>4
<1>5. N \in T
  <2>1. T \subseteq 0 .. N
    OBVIOUS
  <2> HIDE DEF T
  <2> QED BY <1>1, <1>3, <1>4, <2>1, NoSmallest
<1> QED BY <1>1, <1>5

\* The slope of a history that never fell, over times that go back from 0, is
\* not negative; it is positive unless the history is level.
LEMMA NeverFellSlope ==
  ASSUME NEW q \in Seq(Int), Len(q) > 0, \A i \in 1 .. Len(q) - 1 : q[i] >= q[i + 1]
  PROVE  /\ Slope(Times(Len(q)), q) \in Int
         /\ Slope(Times(Len(q)), q) >= 0
         /\ (\E i \in 1 .. Len(q) - 1 : q[i] > q[i + 1]) => Slope(Times(Len(q)), q) > 0
<1> DEFINE n == Len(q)
           time == Times(n)
           prods == Products(time, q)
<1>1. /\ n \in Nat /\ n > 0 /\ \A i \in 1 .. n : q[i] \in Int
      /\ \A i \in 1 .. n - 1 : q[i] >= q[i + 1]
  OBVIOUS
<1>2. /\ time \in Seq(Int) /\ Len(time) = n
      /\ \A i \in 1 .. n : time[i] = -5 * (i - 1)
  BY <1>1, TimesAre
<1>3. /\ prods \in Seq(Int) /\ Len(prods) = n
      /\ \A i \in 1 .. n : prods[i] = time[i] * q[i]
  <2> HIDE DEF time, prods
  <2> QED BY <1>2, ProductsAre DEF prods
<1> HIDE DEF time, prods
<1>4. PICK S : Accumulates(S, time, n) /\ Sum(time) = S[n]
  BY <1>2, SumIsAccumulated
<1>5. PICK Y : Accumulates(Y, q, n) /\ Sum(q) = Y[n]
  BY SumIsAccumulated
<1>6. PICK M : Accumulates(M, prods, n) /\ Sum(prods) = M[n]
  BY <1>3, SumIsAccumulated
<1>7. Slope(time, q) = n * M[n] - S[n] * Y[n]
  BY <1>2, <1>4, <1>5, <1>6 DEF Slope, prods, Products
<1> HIDE DEF n
<1>8. \A k \in 0 .. n : S[k] \in Int /\ Y[k] \in Int /\ M[k] \in Int
  BY <1>4, <1>5, <1>6 DEF Accumulates
<1>9. ASSUME NEW k \in 0 .. n, k # n
      PROVE  /\ k + 1 \in 1 .. n
             /\ S[k + 1] = S[k] + (-5 * k)
             /\ Y[k + 1] = Y[k] + q[k + 1]
             /\ M[k + 1] = M[k] + (-5 * k) * q[k + 1]
  <2>1. k + 1 \in 1 .. n /\ (k + 1) - 1 = k
    BY <1>1, <1>9
  <2>2. /\ S[k + 1] = S[k] + time[k + 1] /\ Y[k + 1] = Y[k] + q[k + 1]
        /\ M[k + 1] = M[k] + prods[k + 1]
    BY <1>4, <1>5, <1>6, <2>1 DEF Accumulates
  <2>3. time[k + 1] = -5 * k /\ prods[k + 1] = (-5 * k) * q[k + 1]
    BY <1>2, <1>3, <2>1
  <2> QED BY <2>1, <2>2, <2>3
<1> DEFINE C(k) == k * M[k] - S[k] * Y[k]
           Good(k) == /\ q[k] <= q[1]
                      /\ 2 * S[k] + 5 * (k * (k - 1)) = 0
                      /\ Y[k] >= k * q[k]
                      /\ 2 * (M[k] + 5 * (k * Y[k])) >= 5 * (k * (k + 1) * q[k])
                      /\ C(k) >= 0
                      /\ q[k] < q[1] => C(k) > 0
           T == {k \in 0 .. n : k = 0 \/ Good(k)}
<1>10. ASSUME NEW k \in 0 .. n PROVE C(k) \in Int
  <2>1. S[k] \in Int /\ Y[k] \in Int /\ M[k] \in Int /\ k \in Int
    BY <1>1, <1>8
  <2>2. k * M[k] \in Int /\ S[k] * Y[k] \in Int
    BY <2>1
  <2> QED BY <2>2
<1>11. Good(1)
  <2>1. 0 \in 0 .. n /\ 0 # n /\ 1 \in 1 .. n
    BY <1>1
  <2>2. S[1] = S[0] + (-5 * 0) /\ Y[1] = Y[0] + q[1] /\ M[1] = M[0] + (-5 * 0) * q[1]
    BY <1>9, <2>1
  <2>3. S[0] = 0 /\ Y[0] = 0 /\ M[0] = 0 /\ q[1] \in Int
    BY <1>1, <1>4, <1>5, <1>6, <2>1 DEF Accumulates
  <2>4. S[1] = 0 /\ Y[1] = q[1] /\ M[1] = 0
    BY <2>2, <2>3
  <2>5. C(1) = 0
    BY <2>3, <2>4
  <2>6. 2 * (M[1] + 5 * (1 * Y[1])) = 5 * (1 * (1 + 1) * q[1])
    BY <2>3, <2>4
  <2>7. 2 * S[1] + 5 * (1 * (1 - 1)) = 0 /\ Y[1] = 1 * q[1]
    BY <2>3, <2>4
  <2>8. /\ 2 * (M[1] + 5 * (1 * Y[1])) >= 5 * (1 * (1 + 1) * q[1])
        /\ Y[1] >= 1 * q[1] /\ q[1] <= q[1] /\ ~ (q[1] < q[1])
    <3>1. 5 * (1 * (1 + 1) * q[1]) \in Int
      BY <2>3
    <3> QED BY <2>3, <2>6, <2>7, <3>1
  <2> HIDE DEF C
  <2> QED BY <2>5, <2>7, <2>8
<1>12. ASSUME NEW k \in 0 .. n, k # n, k # 0, Good(k) PROVE Good(k + 1)
  <2>1. /\ k \in Nat /\ k > 0 /\ k \in 1 .. n - 1 /\ k + 1 \in 1 .. n
        /\ q[k] \in Int /\ q[k + 1] \in Int /\ q[1] \in Int /\ q[k + 1] <= q[k]
    BY <1>1, <1>12
  <2>2. S[k] \in Int /\ Y[k] \in Int /\ M[k] \in Int
    BY <1>8
  <2>3. /\ S[k + 1] = S[k] + (-5 * k)
        /\ Y[k + 1] = Y[k] + q[k + 1]
        /\ M[k + 1] = M[k] + (-5 * k) * q[k + 1]
    BY <1>9, <1>12
  <2>4. /\ 2 * S[k] + 5 * (k * (k - 1)) = 0 /\ Y[k] >= k * q[k]
        /\ 2 * (M[k] + 5 * (k * Y[k])) >= 5 * (k * (k + 1) * q[k])
    BY <1>12
  <2>5. /\ 2 * S[k + 1] + 5 * ((k + 1) * ((k + 1) - 1)) = 0
        /\ Y[k + 1] >= (k + 1) * q[k + 1]
        /\ 2 * (M[k + 1] + 5 * ((k + 1) * Y[k + 1])) >= 5 * ((k + 1) * ((k + 1) + 1) * q[k + 1])
        /\ C(k + 1) >= C(k)
        /\ q[k + 1] < q[k] => C(k + 1) > C(k)
    <3>1. /\ 2 * (S[k] + (-5 * k)) + 5 * ((k + 1) * ((k + 1) - 1)) = 0
          /\ Y[k] + q[k + 1] >= (k + 1) * q[k + 1]
          /\ 2 * ((M[k] + (-5 * k) * q[k + 1]) + 5 * ((k + 1) * (Y[k] + q[k + 1])))
               >= 5 * ((k + 1) * ((k + 1) + 1) * q[k + 1])
          /\ (k + 1) * (M[k] + (-5 * k) * q[k + 1]) - (S[k] + (-5 * k)) * (Y[k] + q[k + 1]) >= C(k)
          /\ q[k + 1] < q[k] =>
               (k + 1) * (M[k] + (-5 * k) * q[k + 1]) - (S[k] + (-5 * k)) * (Y[k] + q[k + 1]) > C(k)
      BY <2>1, <2>2, <2>4, SlopeGrows
    <3> QED BY <2>3, <3>1
  <2>6. C(k) \in Int /\ C(k + 1) \in Int
    <3>1. k + 1 \in 0 .. n
      BY <1>1, <2>1
    <3> HIDE DEF C
    <3> QED BY <1>10, <3>1
  <2>7. C(k) >= 0 /\ (q[k] < q[1] => C(k) > 0) /\ q[k] <= q[1]
    BY <1>12
  <2>8. /\ q[k + 1] <= q[1]
        /\ C(k + 1) >= 0
        /\ q[k + 1] < q[1] => C(k + 1) > 0
    <3>1. q[k + 1] <= q[1]
      BY <2>1, <2>7
    <3>2. CASE q[k] < q[1]
      <4>1. C(k) > 0 /\ C(k + 1) >= C(k)
        BY <2>5, <2>7, <3>2
      <4> HIDE DEF C
      <4> QED BY <2>6, <3>1, <4>1
    <3>3. CASE q[k] = q[1]
      <4>1. C(k) >= 0 /\ C(k + 1) >= C(k) /\ (q[k + 1] < q[1] => C(k + 1) > C(k))
        BY <2>5, <2>7, <3>3
      <4> HIDE DEF C
      <4> QED BY <2>6, <3>1, <4>1
    <3> QED BY <2>1, <2>7, <3>2, <3>3
  <2> HIDE DEF C
  <2> QED BY <2>5, <2>8
<1>13. ASSUME NEW k \in 0 .. n, k # n, k \in T PROVE k + 1 \in T
  <2>1. k + 1 \in 0 .. n
    BY <1>1, <1>13
  <2>2. CASE k = 0
    <3>1. k + 1 = 1
      BY <2>2
    <3> HIDE DEF Good
    <3> QED BY <1>11, <2>1, <3>1
  <2>3. CASE k # 0
    <3> HIDE DEF Good
    <3>1. Good(k)
      BY <1>13, <2>3
    <3> QED BY <1>12, <1>13, <2>1, <2>3, <3>1
  <2> QED BY <2>2, <2>3
<1>14. n \in T
  <2> HIDE DEF Good
  <2>1. T \subseteq 0 .. n /\ 0 \in T
    BY <1>1
  <2> HIDE DEF T
  <2> QED BY <1>1, <1>13, <2>1, NoSmallest
<1>15. Good(n)
  <2> HIDE DEF Good
  <2> QED BY <1>1, <1>14
<1>16. C(n) \in Int /\ C(n) >= 0 /\ (q[n] < q[1] => C(n) > 0) /\ q[n] <= q[1]
  <2>1. n \in 0 .. n
    BY <1>1
  <2> HIDE DEF C
  <2> QED BY <1>10, <1>15, <2>1
<1>17. ASSUME NEW i \in 1 .. n - 1, q[i] > q[i + 1] PROVE q[n] < q[1]
  <2>1. /\ 1 \in 1 .. n /\ i \in 1 .. n /\ i + 1 \in 1 .. n /\ n \in 1 .. n
        /\ 1 <= i /\ i + 1 <= n
    BY <1>1
  <2>2. q[1] >= q[i] /\ q[i + 1] >= q[n]
    BY <2>1, InOrder DEF n
  <2>3. q[1] \in Int /\ q[i] \in Int /\ q[i + 1] \in Int /\ q[n] \in Int
    BY <1>1, <2>1
  <2> QED BY <1>17, <2>2, <2>3
<1> HIDE DEF C
<1>18. (\E i \in 1 .. n - 1 : q[i] > q[i + 1]) => C(n) > 0
  BY <1>16, <1>17
<1>19. Slope(time, q) = C(n)
  BY <1>7 DEF C
<1>20. /\ Slope(time, q) \in Int /\ Slope(time, q) >= 0
       /\ (\E i \in 1 .. n - 1 : q[i] > q[i + 1]) => Slope(time, q) > 0
  BY <1>16, <1>18, <1>19, Zenon
<1> QED BY <1>20 DEF n, time

\* The slope of a history that never rose is the negated one of a history that
\* never fell.
LEMMA NeverRoseSlope ==
  ASSUME NEW q \in Seq(Int), Len(q) > 0, \A i \in 1 .. Len(q) - 1 : q[i] <= q[i + 1]
  PROVE  /\ Slope(Times(Len(q)), q) \in Int
         /\ Slope(Times(Len(q)), q) <= 0
         /\ (\E i \in 1 .. Len(q) - 1 : q[i] < q[i + 1]) => Slope(Times(Len(q)), q) < 0
<1> DEFINE n == Len(q)
           p == [i \in 1 .. n |-> -q[i]]
           time == Times(n)
<1>1. /\ n \in Nat /\ n > 0 /\ n \in 1 .. n /\ 1 \in 1 .. n
      /\ \A i \in 1 .. n : q[i] \in Int
      /\ \A i \in 1 .. n - 1 : i \in 1 .. n /\ i + 1 \in 1 .. n /\ q[i] <= q[i + 1]
  OBVIOUS
<1>2. time \in Seq(Int) /\ Len(time) = n /\ \A i \in 1 .. n : time[i] \in Int
  <2>1. time \in Seq(Int) /\ Len(time) = n
    BY <1>1, TimesAre
  <2> HIDE DEF time, n
  <2> QED BY <2>1
<1>3. p \in Seq(Int) /\ Len(p) = n /\ \A i \in 1 .. n : p[i] = -q[i]
  BY <1>1
<1>4. \A i \in 1 .. n - 1 : p[i] >= p[i + 1]
  <2> SUFFICES ASSUME NEW i \in 1 .. n - 1 PROVE p[i] >= p[i + 1]
    OBVIOUS
  <2> HIDE DEF p, n
  <2>1. q[i] \in Int /\ q[i + 1] \in Int /\ q[i] <= q[i + 1]
    BY <1>1
  <2>2. p[i] = -q[i] /\ p[i + 1] = -q[i + 1]
    BY <1>1, <1>3
  <2> QED BY <2>1, <2>2
<1> HIDE DEF p, time
<1>5. /\ Slope(time, p) \in Int /\ Slope(time, p) >= 0
      /\ (\E i \in 1 .. n - 1 : p[i] > p[i + 1]) => Slope(time, p) > 0
  BY <1>1, <1>3, <1>4, NeverFellSlope DEF time
<1>6. Sum(p) = -Sum(q) /\ Sum(q) \in Int
  BY <1>3, SumNegated
<1>7. /\ Products(time, p) \in Seq(Int) /\ Len(Products(time, p)) = n
      /\ \A i \in 1 .. n : Products(time, p)[i] = time[i] * p[i]
      /\ Products(time, q) \in Seq(Int) /\ Len(Products(time, q)) = n
      /\ \A i \in 1 .. n : Products(time, q)[i] = time[i] * q[i]
  BY <1>2, <1>3, ProductsAre
<1>8. \A i \in 1 .. n : Products(time, p)[i] = -Products(time, q)[i]
  <2> SUFFICES ASSUME NEW i \in 1 .. n PROVE Products(time, p)[i] = -Products(time, q)[i]
    OBVIOUS
  <2>1. time[i] \in Int /\ q[i] \in Int /\ p[i] = -q[i]
    BY <1>1, <1>2, <1>3
  <2>2. time[i] * p[i] = -(time[i] * q[i])
    BY <2>1
  <2> QED BY <1>7, <2>2
<1>9. /\ Sum(Products(time, p)) = -Sum(Products(time, q))
      /\ Sum(Products(time, q)) \in Int
  BY <1>7, <1>8, SumNegated
<1>10. Sum(time) \in Int
  <2>1. PICK s : Accumulates(s, time, n) /\ Sum(time) = s[n]
    BY <1>2, SumIsAccumulated
  <2>2. n \in 0 .. n
    BY <1>1
  <2> QED BY <2>1, <2>2 DEF Accumulates
<1>11. /\ Slope(time, p) = n * Sum(Products(time, p)) - Sum(time) * Sum(p)
       /\ Slope(time, q) = n * Sum(Products(time, q)) - Sum(time) * Sum(q)
  BY <1>2 DEF Slope, Products
<1>12. Slope(time, q) \in Int /\ Slope(time, p) = -Slope(time, q)
  <2> DEFINE M == Sum(Products(time, q))
             Y == Sum(q)
             S == Sum(time)
  <2>1. M \in Int /\ Y \in Int /\ S \in Int /\ n \in Int
    BY <1>1, <1>6, <1>9, <1>10
  <2>2. Slope(time, p) = n * (-M) - S * (-Y) /\ Slope(time, q) = n * M - S * Y
    BY <1>6, <1>9, <1>11
  <2> HIDE DEF M, Y, S, n
  <2> QED BY <2>1, <2>2
<1>13. \A i \in 1 .. n - 1 : q[i] < q[i + 1] => p[i] > p[i + 1]
  <2> SUFFICES ASSUME NEW i \in 1 .. n - 1, q[i] < q[i + 1] PROVE p[i] > p[i + 1]
    OBVIOUS
  <2> HIDE DEF p, n
  <2>1. q[i] \in Int /\ q[i + 1] \in Int
    BY <1>1
  <2>2. p[i] = -q[i] /\ p[i + 1] = -q[i + 1]
    BY <1>1, <1>3
  <2> QED BY <2>1, <2>2
<1> QED BY <1>5, <1>12, <1>13 DEF time

\* The time of two or more reports varies.
LEMMA TimesSpread ==
  ASSUME NEW n \in Nat, n > 1
  PROVE  Slope(Times(n), Times(n)) \in Int /\ Slope(Times(n), Times(n)) > 0
<1> DEFINE q == Times(n)
<1>1. q \in Seq(Int) /\ Len(q) = n /\ \A i, j \in 1 .. n : i < j => q[j] < q[i]
  BY TimesAre
<1> HIDE DEF q
<1>2. \A i \in 1 .. n - 1 : q[i + 1] < q[i] /\ q[i] \in Int /\ q[i + 1] \in Int
  <2> SUFFICES ASSUME NEW i \in 1 .. n - 1
               PROVE  q[i + 1] < q[i] /\ q[i] \in Int /\ q[i + 1] \in Int
    OBVIOUS
  <2>1. i \in 1 .. n /\ i + 1 \in 1 .. n /\ i < i + 1
    OBVIOUS
  <2> QED BY <1>1, <2>1
<1>3. \A i \in 1 .. Len(q) - 1 : q[i] >= q[i + 1]
  BY <1>1, <1>2
<1>4. \E i \in 1 .. Len(q) - 1 : q[i] > q[i + 1]
  BY <1>1, <1>2
<1>5. Slope(Times(Len(q)), q) \in Int /\ Slope(Times(Len(q)), q) > 0
  <2>1. q \in Seq(Int) /\ Len(q) > 0
    BY <1>1
  <2>2. (\E i \in 1 .. Len(q) - 1 : q[i] > q[i + 1]) => Slope(Times(Len(q)), q) > 0
    BY <1>3, <2>1, NeverFellSlope, Zenon
  <2>3. Slope(Times(Len(q)), q) \in Int
    BY <1>3, <2>1, NeverFellSlope, Zenon
  <2> QED BY <1>4, <2>2, <2>3, Zenon
<1> QED BY <1>1, <1>5 DEF q

(* The rate of a history has the sign of its trend.                        *)
LEMMA RateSign ==
  ASSUME NEW q \in Seq(Int), Len(q) \in 1 .. HistoryCount, HistoryCount > 1
  PROVE  LET rate == GetThermalRiseRate(q)
             pairs == 1 .. Len(q) - 1
             notFell == \A i \in pairs : q[i] >= q[i + 1]
             notRose == \A i \in pairs : q[i] <= q[i + 1]
         IN  /\ rate.den > 0
             /\ Len(q) < HistoryCount \/ (notFell /\ notRose) => rate.num = 0
             /\ Len(q) = HistoryCount /\ notFell /\ ~ notRose => rate.num > 0
             /\ Len(q) = HistoryCount /\ notRose /\ ~ notFell => rate.num < 0
<1> DEFINE n == Len(q)
           rate == GetThermalRiseRate(q)
           slope == Slope(Times(n), q)
           den == Slope(Times(n), Times(n))
           pairs == 1 .. n - 1
           notFell == \A i \in pairs : q[i] >= q[i + 1]
           notRose == \A i \in pairs : q[i] <= q[i + 1]
<1>1. n \in Nat /\ n > 0 /\ n <= HistoryCount /\ HistoryCount \in Nat
  BY TempReportAssumption
<1>2. CASE n < HistoryCount
  <2>1. rate = Rate(0, 1)
    BY <1>2 DEF GetThermalRiseRate
  <2>2. rate.num = 0 /\ rate.den = 1
    BY <2>1 DEF Rate
  <2> QED BY <1>1, <1>2, <2>2
<1>3. CASE n = HistoryCount
  <2>1. den \in Int /\ den > 0
    BY <1>1, <1>3, TimesSpread
  <2>2. rate = Rate(slope * SEC_MIN_NUM, den)
    BY <1>1, <1>3, <2>1 DEF GetThermalRiseRate
  <2>3. rate.num = slope * 60 /\ rate.den = den
    BY <2>2 DEF Rate, SEC_MIN_NUM
  <2>4. \A i \in pairs : q[i] \in Int /\ q[i + 1] \in Int
    OBVIOUS
  <2>5. notFell => /\ slope \in Int /\ slope >= 0
                   /\ (\E i \in pairs : q[i] > q[i + 1]) => slope > 0
    BY <1>1, NeverFellSlope
  <2>6. notRose => /\ slope \in Int /\ slope <= 0
                   /\ (\E i \in pairs : q[i] < q[i + 1]) => slope < 0
    BY <1>1, NeverRoseSlope
  <2>7. /\ ~ notRose => \E i \in pairs : q[i] > q[i + 1]
        /\ ~ notFell => \E i \in pairs : q[i] < q[i + 1]
    BY <2>4
  <2> HIDE DEF n, rate, slope, den, pairs, notFell, notRose
  <2>8. notFell /\ notRose => rate.num = 0
    BY <2>3, <2>5, <2>6
  <2>9. notFell /\ ~ notRose => rate.num > 0
    BY <2>3, <2>5, <2>7
  <2>10. notRose /\ ~ notFell => rate.num < 0
    BY <2>3, <2>6, <2>7
  <2>11. rate.den > 0 /\ ~ (n < HistoryCount)
    BY <1>1, <1>3, <2>1, <2>3
  <2> QED BY <2>8, <2>9, <2>10, <2>11 DEF n, rate, pairs, notFell, notRose
<1> QED BY <1>1, <1>2, <1>3

-----------------------------------------------------------------------------
(* Temperatures: every history is kept to its length, and the newest rate  *)
(* of each was computed from it as it stands.                              *)

Rates == {GetThermalRiseRate(q) : q \in Seq(Int)}

RateInv ==
    /\ waiting \in [Reporters -> {<< >>} \cup {<<report>> : report \in TypeTempMaps}]
    /\ DOMAIN rates = DOMAIN history
    /\ DOMAIN history = {} \/ HistoryCount > 1
    /\ \A s \in DOMAIN history :
         /\ history[s] \in Seq(Int) /\ Len(history[s]) \in 1 .. HistoryCount
         /\ rates[s] \in Seq(Rates) /\ Len(rates[s]) \in 1 .. RateCount
         /\ rates[s][Len(rates[s])] = GetThermalRiseRate(history[s])

\* A temperature is put in front, for the oldest one if need be.
LEMMA HistoryPushed ==
  ASSUME NEW q \in Seq(Int), Len(q) <= HistoryCount, HistoryCount > 1, NEW temp \in Int
  PROVE  PushHistory(q, temp) \in Seq(Int) /\ Len(PushHistory(q, temp)) \in 1 .. HistoryCount
<1>1. HistoryCount \in Nat /\ Len(q) \in Nat
  BY TempReportAssumption
<1>2. CASE Len(q) >= HistoryCount
  <2>1. SubSeq(q, 1, Len(q) - 1) \in Seq(Int) /\ Len(SubSeq(q, 1, Len(q) - 1)) = Len(q) - 1
    BY <1>1, <1>2
  <2>2. PushHistory(q, temp) = <<temp>> \o SubSeq(q, 1, Len(q) - 1)
    BY <1>2 DEF PushHistory
  <2> QED BY <1>1, <2>1, <2>2
<1>3. CASE ~ (Len(q) >= HistoryCount)
  <2>1. PushHistory(q, temp) = <<temp>> \o q
    BY <1>3 DEF PushHistory
  <2> QED BY <1>1, <1>3, <2>1
<1> QED BY <1>2, <1>3

\* A rate is put at the end, for the oldest one if need be.
LEMMA RatePushed ==
  ASSUME NEW S, NEW q \in Seq(S), Len(q) <= RateCount, NEW rate \in S
  PROVE  LET r == PushRate(q, rate) IN
         r \in Seq(S) /\ Len(r) \in 1 .. RateCount /\ r[Len(r)] = rate
<1> DEFINE kept == IF Len(q) >= RateCount THEN Tail(q) ELSE q
           r == PushRate(q, rate)
<1>1. RateCount \in Nat /\ RateCount > 0 /\ Len(q) \in Nat
  BY TempReportAssumption
<1>2. kept \in Seq(S) /\ Len(kept) \in Nat /\ Len(kept) < RateCount
  <2>1. CASE Len(q) >= RateCount
    <3>1. q # << >>
      BY <1>1, <2>1
    <3>2. Tail(q) \in Seq(S) /\ Len(Tail(q)) = Len(q) - 1
      BY <3>1
    <3> QED BY <1>1, <2>1, <3>2
  <2>2. CASE ~ (Len(q) >= RateCount)
    BY <1>1, <2>2
  <2> QED BY <2>1, <2>2
<1>3. r = Append(kept, rate)
  BY DEF PushRate
<1> HIDE DEF kept, r
<1>4. r \in Seq(S) /\ Len(r) = Len(kept) + 1 /\ r[Len(kept) + 1] = rate
  BY <1>2, <1>3
<1> QED BY <1>1, <1>2, <1>4 DEF r

\* A report leaves every sensor with a history and its rate.
LEMMA RatesRefreshed ==
  ASSUME RateInv, NEW report \in TypeTempMaps, OnTemperatureChanged(report),
         waiting' = waiting \/ \E t \in Reporters : waiting' = [waiting EXCEPT ![t] = << >>]
  PROVE  RateInv'
<1>1. waiting' \in [Reporters -> {<< >>} \cup {<<r>> : r \in TypeTempMaps}]
  <2>1. << >> \in {<< >>} \cup {<<r>> : r \in TypeTempMaps}
    BY Zenon
  <2> QED BY <2>1 DEF RateInv
<1>2. CASE UNCHANGED <<history, rates>>
  BY <1>1, <1>2, Zenon DEF RateInv
<1>3. CASE ~ UNCHANGED <<history, rates>>
  <2>1. /\ ~ (HistoryCount <= 1)
        /\ history' = [s \in DOMAIN history \cup DOMAIN report |->
                         IF s \in DOMAIN report THEN PushHistory(Of(history, s), report[s])
                         ELSE history[s]]
        /\ rates' = [s \in DOMAIN history' |->
                         PushRate(Of(rates, s), GetThermalRiseRate(history'[s]))]
    BY <1>3 DEF OnTemperatureChanged, SetHistoryTypeTempMap
  <2>2. HistoryCount > 1 /\ HistoryCount \in Nat /\ RateCount \in Nat /\ RateCount > 0
    BY <2>1, TempReportAssumption
  <2>3. \A s \in DOMAIN report : report[s] \in Int
    <3>1. PICK S \in SUBSET Sensors :
            report \in {m \in [S -> UNION {Temps[s] : s \in S}] : \A s \in S : m[s] \in Temps[s]}
      BY DEF TypeTempMaps
    <3>2. DOMAIN report = S /\ \A s \in S : report[s] \in Temps[s]
      BY <3>1
    <3> QED BY <3>2, TempReportAssumption
  <2>4. DOMAIN rates' = DOMAIN history' /\ DOMAIN history' = DOMAIN history \cup DOMAIN report
    BY <2>1
  <2>5. ASSUME NEW s \in DOMAIN history'
        PROVE  /\ history'[s] \in Seq(Int) /\ Len(history'[s]) \in 1 .. HistoryCount
               /\ rates'[s] \in Seq(Rates) /\ Len(rates'[s]) \in 1 .. RateCount
               /\ rates'[s][Len(rates'[s])] = GetThermalRiseRate(history'[s])
    <3>1. Of(history, s) \in Seq(Int) /\ Len(Of(history, s)) <= HistoryCount
      <4>1. CASE s \in DOMAIN history
        BY <2>2, <4>1 DEF Of, RateInv
      <4>2. CASE s \notin DOMAIN history
        BY <2>2, <4>2 DEF Of
      <4> QED BY <4>1, <4>2
    <3>2. Of(rates, s) \in Seq(Rates) /\ Len(Of(rates, s)) <= RateCount
      <4>1. CASE s \in DOMAIN rates
        BY <2>2, <4>1 DEF Of, RateInv
      <4>2. CASE s \notin DOMAIN rates
        BY <2>2, <4>2 DEF Of
      <4> QED BY <4>1, <4>2
    <3>3. history'[s] \in Seq(Int) /\ Len(history'[s]) \in 1 .. HistoryCount
      <4>1. CASE s \in DOMAIN report
        <5>1. history'[s] = PushHistory(Of(history, s), report[s])
          BY <2>1, <2>4, <4>1
        <5> QED BY <2>2, <2>3, <3>1, <4>1, <5>1, HistoryPushed
      <4>2. CASE s \notin DOMAIN report
        BY <2>1, <2>4, <4>2 DEF RateInv
      <4> QED BY <4>1, <4>2
    <3>4. GetThermalRiseRate(history'[s]) \in Rates
      BY <3>3 DEF Rates
    <3>5. rates'[s] = PushRate(Of(rates, s), GetThermalRiseRate(history'[s]))
      BY <2>1
    <3> QED BY <3>2, <3>3, <3>4, <3>5, RatePushed
  <2> QED BY <1>1, <2>2, <2>4, <2>5, Zenon DEF RateInv
<1> QED BY <1>2, <1>3

\* Every step of the collector keeps the invariant.
LEMMA RateStep == RateInv /\ [TempNext]_tempVars => RateInv'
<1> SUFFICES ASSUME RateInv, [TempNext]_tempVars PROVE RateInv'
  OBVIOUS
<1>1. ASSUME NEW t \in Reporters, NEW report \in TypeTempMaps,
             HandleThermalCallbackEvent(t, report)
      PROVE  RateInv'
  <2>1. waiting' = [waiting EXCEPT ![t] = <<report>>] /\ UNCHANGED <<history, rates>>
    BY <1>1 DEF HandleThermalCallbackEvent
  <2>2. <<report>> \in {<< >>} \cup {<<r>> : r \in TypeTempMaps}
    BY Zenon
  <2>3. waiting' \in [Reporters -> {<< >>} \cup {<<r>> : r \in TypeTempMaps}]
    BY <2>1, <2>2 DEF RateInv
  <2> QED BY <2>1, <2>3, Zenon DEF RateInv
<1>2. ASSUME NEW report \in TypeTempMaps, EmulateTempReport(report) PROVE RateInv'
  BY <1>2, RatesRefreshed DEF EmulateTempReport
<1>3. ASSUME NEW t \in Reporters, ReportUnderLock(t) PROVE RateInv'
  <2>1. PICK report \in TypeTempMaps : waiting[t] = <<report>>
    <3>1. waiting[t] # << >> /\ waiting[t] \in {<< >>} \cup {<<r>> : r \in TypeTempMaps}
      BY <1>3 DEF ReportUnderLock, RateInv
    <3> QED BY <3>1, Zenon
  <2>2. OnTemperatureChanged(report) /\ waiting' = [waiting EXCEPT ![t] = << >>]
    BY <1>3, <2>1 DEF ReportUnderLock
  <2> QED BY <2>2, RatesRefreshed
<1>4. ASSUME NEW on \in BOOLEAN, SwitchTempReport(on) PROVE RateInv'
  BY <1>4, Zenon DEF SwitchTempReport, RateInv
<1>5. CASE UNCHANGED tempVars
  BY <1>5, Zenon DEF tempVars, RateInv
<1> QED BY <1>1, <1>2, <1>3, <1>4, <1>5 DEF TempNext

(* However reports come, stop and are emulated, the newest rate of a       *)
(* sensor has the sign of the trend of its history as it stands.           *)
THEOREM RatesAreCurrent == Spec => []RatesFollowHistory
<1>1. Init => RateInv
  BY DEF Init, TempInit, RateInv
<1>2. RateInv /\ [Next]_vars => RateInv'
  <2>1. [Next]_vars => [TempNext]_tempVars
    BY DEF Next, vars
  <2> QED BY <2>1, RateStep
<1>3. RateInv => RatesFollowHistory
  <2> SUFFICES ASSUME RateInv PROVE RatesFollowHistory
    OBVIOUS
  <2>1. ASSUME NEW s \in DOMAIN history
        PROVE  /\ history[s] \in Seq(Int) /\ Len(history[s]) \in 1 .. HistoryCount
               /\ HistoryCount > 1 /\ Len(rates[s]) \in 1 .. RateCount
               /\ rates[s][Len(rates[s])] = GetThermalRiseRate(history[s])
    BY <2>1 DEF RateInv
  <2>2. DOMAIN rates = DOMAIN history
    BY DEF RateInv
  <2> QED BY <2>1, <2>2, RateSign DEF RatesFollowHistory
<1> QED BY <1>1, <1>2, <1>3, PTL DEF Spec
=============================================================================
