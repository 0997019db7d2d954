------------------------- MODULE ThermalLevel_proofs -------------------------
(***************************************************************************)
(* Proofs about ThermalLevel, for any clients, configured levels and       *)
(* number of changes of the level.                                         *)
(***************************************************************************)
EXTENDS ThermalLevel, TLAPS

Stages == {"none", "add", "read", "call"}
Phases == {"idle", "publish", "async", "sync"}

LevelTypes ==
  /\ lastValue \in Int /\ level \in Int
  /\ listeners \in [Kinds -> SUBSET Listeners]
  /\ \A k \in Kinds : \A l \in listeners[k] : KindOf(l) = k
  /\ phase \in Phases /\ todo \subseteq Listeners
  /\ calling \subseteq Listeners /\ (calling # {} => phase = "sync")
  /\ \A l, m \in calling : l = m
  /\ stage \in [Listeners -> Stages] /\ value \in [Listeners -> Int]
  /\ inbox \in [Listeners -> Seq(Int)] /\ told \in [Listeners -> Int]
  /\ \A l \in Listeners : KindOf(l) = "sync" => inbox[l] = <<>>

\* A decision hands out the value it stored; a first callback hands out
\* lastValue_, unless the level changed since it was read.
HandsOutCurrent ==
  /\ phase # "idle" => level = LevelRequest(lastValue)
  /\ \A l \in Listeners \ overtaken : stage[l] = "call" => value[l] = lastValue

\* What a client will have heard last when its queue is empty
Latest(l) == IF inbox[l] = <<>> THEN told[l] ELSE inbox[l][Len(inbox[l])]

Knows(l) == Latest(l) \in {lastValue, LevelRequest(lastValue)}

\* The decision under way will call l, if l stays where it is.
WillCall(l) ==
  \/ phase = "publish"
  \/ phase = "async" /\ (KindOf(l) = "sync" \/ l \in todo)
  \/ phase = "sync" /\ KindOf(l) = "sync" /\ l \in todo \cup calling

\* Every registered client has the level, or someone is about to call it.
Accounted ==
  \A l \in Listeners \ overtaken :
    l \in Registered \ dead => Knows(l) \/ WillCall(l) \/ stage[l] \in {"read", "call"}

LevelInv == LevelTypes /\ HandsOutCurrent /\ Accounted

-----------------------------------------------------------------------------
\* Clipping a level at COOL and ESCAPE gives a level.
LEMMA LevelRequestInt == \A v \in Int : LevelRequest(v) \in Int
BY DEF LevelRequest, MIN_THERMAL_LEVEL, MAX_THERMAL_LEVEL

\* A client is of one of the two kinds.
LEMMA KindOfKinds == \A l : KindOf(l) \in Kinds
BY DEF KindOf, Kinds

(* A registered client is in the set of its kind.                          *)
LEMMA RegisteredKind ==
  ASSUME LevelTypes, NEW l \in Registered
  PROVE  l \in Listeners /\ l \in listeners[KindOf(l)]
BY DEF LevelTypes, Registered, Kinds

(* A callback to a living client is what it will have heard last.          *)
LEMMA CallBackHeard ==
  ASSUME LevelTypes, NEW l \in Listeners, NEW v \in Int, CallBack(l, v)
  PROVE  /\ inbox' \in [Listeners -> Seq(Int)] /\ told' \in [Listeners -> Int]
         /\ \A m \in Listeners : KindOf(m) = "sync" => inbox'[m] = <<>>
         /\ \A m \in Listeners \ {l} : Latest(m)' = Latest(m)
         /\ l \notin dead => Latest(l)' = v
<1>0. /\ inbox \in [Listeners -> Seq(Int)] /\ told \in [Listeners -> Int]
      /\ \A m \in Listeners : KindOf(m) = "sync" => inbox[m] = <<>>
  BY DEF LevelTypes
<1>1. CASE l \in dead
  BY <1>0, <1>1 DEF CallBack, Latest
<1>2. CASE l \notin dead /\ KindOf(l) = "sync"
  <2>1. told' = [told EXCEPT ![l] = v] /\ inbox' = inbox
    BY <1>2 DEF CallBack
  <2> QED BY <1>0, <1>2, <2>1 DEF Latest
<1>3. CASE l \notin dead /\ KindOf(l) # "sync"
  <2>1. inbox' = [inbox EXCEPT ![l] = Append(inbox[l], v)] /\ told' = told
    BY <1>3 DEF CallBack
  <2>2. inbox[l] \in Seq(Int)
    BY <1>0
  <2>3. /\ Append(inbox[l], v) \in Seq(Int) /\ Append(inbox[l], v) # <<>>
        /\ Append(inbox[l], v)[Len(Append(inbox[l], v))] = v
    BY <2>2
  <2>4. /\ inbox' \in [Listeners -> Seq(Int)] /\ inbox'[l] = Append(inbox[l], v)
        /\ \A m \in Listeners \ {l} : inbox'[m] = inbox[m]
    BY <1>0, <2>1, <2>3
  <2>5. Latest(l)' = v
    BY <2>3, <2>4 DEF Latest
  <2>6. \A m \in Listeners \ {l} : Latest(m)' = Latest(m)
    BY <2>1, <2>4 DEF Latest
  <2> QED BY <1>0, <1>3, <2>1, <2>4, <2>5, <2>6
<1> QED BY <1>1, <1>2, <1>3

-----------------------------------------------------------------------------
(* A new level: everybody who is registered will be called, and a client   *)
(* whose first callback carries the old one is overtaken.                  *)
LEMMA ExecuteStep ==
  ASSUME LevelInv, ExecuteInner
  PROVE  LevelInv'
<1>0. LevelTypes /\ HandsOutCurrent /\ Accounted
  BY DEF LevelInv
<1>1. CASE UNCHANGED vars
  BY <1>0, <1>1 DEF vars, execution, request, clientVars, LevelInv, LevelTypes,
     HandsOutCurrent,
                    Accounted, Knows, Latest, WillCall, Registered
<1>2. CASE ~ UNCHANGED vars
  <2>1. PICK v \in ConfigLevels \cup {MIN_THERMAL_LEVEL} :
          /\ lastValue' = v /\ phase' = "publish" /\ level' = LevelRequest(v)
          /\ overtaken' = {l \in Listeners : stage[l] = "call"}
          /\ UNCHANGED <<listeners, todo, calling, request, clientVars>>
          /\ phase = "idle"
    BY <1>2, Zenon DEF ExecuteInner
  <2>2. v \in Int
    BY LevelAssumption DEF MIN_THERMAL_LEVEL
  <2>3. LevelTypes'
    BY <1>0, <2>1, <2>2, LevelRequestInt DEF LevelTypes, Phases, request, clientVars
  <2>4. HandsOutCurrent'
    BY <2>1 DEF HandsOutCurrent, request
  <2>5. Accounted'
    BY <2>1 DEF Accounted, WillCall
  <2> QED BY <2>3, <2>4, <2>5 DEF LevelInv
<1> QED BY <1>1, <1>2

(* The two sets are copied one after the other, so a client registered     *)
(* before its set is copied is called.                                     *)
LEMMA CopyStep ==
  ASSUME LevelInv, CopyListeners("publish", "async") \/ CopyListeners("async", "sync")
  PROVE  LevelInv'
<1>0. LevelTypes /\ HandsOutCurrent /\ Accounted
  BY DEF LevelInv
<1>1. /\ todo = {} /\ calling = {}
      /\ \/ phase = "publish" /\ phase' = "async" /\ todo' = listeners["async"]
         \/ phase = "async" /\ phase' = "sync" /\ todo' = listeners["sync"]
      /\ UNCHANGED <<lastValue, listeners, level, calling, request, clientVars, overtaken, changes>>
  BY DEF CopyListeners, GetThermalLevelListeners
<1>2. LevelTypes'
  BY <1>0, <1>1 DEF LevelTypes, Phases, Kinds, request, clientVars
<1>3. HandsOutCurrent'
  BY <1>0, <1>1 DEF HandsOutCurrent, request
<1>4. ASSUME NEW l \in Listeners \ overtaken', l \in Registered' \ dead'
      PROVE  Knows(l)' \/ WillCall(l)' \/ stage'[l] \in {"read", "call"}
  <2>1. l \in Registered \ dead /\ l \notin overtaken
    BY <1>1, <1>4 DEF Registered, clientVars
  <2>2. l \in listeners[KindOf(l)] /\ KindOf(l) \in Kinds
    BY <1>0, <2>1, RegisteredKind, KindOfKinds
  <2>3. Knows(l) \/ WillCall(l) \/ stage[l] \in {"read", "call"}
    BY <1>0, <2>1 DEF Accounted
  <2>4. Knows(l)' = Knows(l) /\ stage' = stage
    BY <1>1 DEF Knows, Latest, request, clientVars
  <2>5. WillCall(l) => WillCall(l)'
    BY <1>1, <2>2 DEF WillCall, Kinds
  <2> QED BY <2>3, <2>4, <2>5
<1>5. Accounted'
  BY <1>4 DEF Accounted
<1> QED BY <1>2, <1>3, <1>5 DEF LevelInv

(* A client that was called knows the level: c is called at once, or its   *)
(* synchronous callback has come back.                                     *)
LEMMA CalledKnows ==
  ASSUME LevelInv, NEW c \in Listeners, CallBack(c, level), phase # "idle",
         todo' \subseteq Listeners, calling' \subseteq Listeners,
         calling' \in {calling, {}},
         \A l \in Listeners \ {c} :
           (l \in todo => l \in todo') /\ (l \in calling => l \in calling'),
         UNCHANGED <<lastValue, listeners, phase, level, request, dead, overtaken>>
  PROVE  LevelInv'
<1>0. LevelTypes /\ HandsOutCurrent /\ Accounted
  BY DEF LevelInv
<1>3. level \in Int
  BY <1>0 DEF LevelTypes
<1>4. /\ inbox' \in [Listeners -> Seq(Int)] /\ told' \in [Listeners -> Int]
      /\ \A m \in Listeners : KindOf(m) = "sync" => inbox'[m] = <<>>
      /\ \A m \in Listeners \ {c} : Latest(m)' = Latest(m)
      /\ c \notin dead => Latest(c)' = level
  BY <1>0, <1>3, CallBackHeard
<1>5. LevelTypes'
  BY <1>0, <1>4 DEF LevelTypes, request
<1>6. HandsOutCurrent'
  BY <1>0 DEF HandsOutCurrent, request
<1>7. ASSUME NEW l \in Listeners \ overtaken', l \in Registered' \ dead'
      PROVE  Knows(l)' \/ WillCall(l)' \/ stage'[l] \in {"read", "call"}
  <2>1. l \in Registered \ dead /\ l \notin overtaken
    BY <1>7 DEF Registered
  <2>2. Knows(l) \/ WillCall(l) \/ stage[l] \in {"read", "call"}
    BY <1>0, <2>1 DEF Accounted
  <2>3. CASE l = c
    BY <1>0, <1>4, <2>1, <2>3 DEF Knows, HandsOutCurrent
  <2>4. CASE l # c
    <3>1. Knows(l)' = Knows(l) /\ stage' = stage
      BY <1>4, <2>4 DEF Knows, request
    <3>2. WillCall(l) => WillCall(l)'
      BY <2>4 DEF WillCall
    <3> QED BY <2>2, <3>1, <3>2
  <2> QED BY <2>3, <2>4
<1>8. Accounted'
  BY <1>7 DEF Accounted
<1> QED BY <1>5, <1>6, <1>8 DEF LevelInv

LEMMA NotifyAsyncStep ==
  ASSUME LevelInv, NotifyAsync
  PROVE  LevelInv'
<1>0. LevelTypes
  BY DEF LevelInv
<1>1. PICK c \in todo : CallBack(c, level) /\ todo' = todo \ {c}
  BY DEF NotifyAsync
<1>2. /\ UNCHANGED <<lastValue, listeners, phase, level, calling, request, dead, overtaken>>
      /\ phase = "async" /\ c \in Listeners
  BY <1>0 DEF NotifyAsync, LevelTypes
<1> QED BY <1>0, <1>1, <1>2, CalledKnows DEF LevelTypes

LEMMA AnswerStep ==
  ASSUME LevelInv, NEW c \in Listeners, ClientAnswers(c)
  PROVE  LevelInv'
<1>0. LevelTypes
  BY DEF LevelInv
<1>1. /\ c \in calling /\ calling' = {} /\ CallBack(c, level)
      /\ UNCHANGED <<lastValue, listeners, phase, level, todo, request, dead, overtaken>>
  BY DEF ClientAnswers
<1>2. ASSUME NEW l \in Listeners \ {c} PROVE l \notin calling
  BY <1>0, <1>1, <1>2 DEF LevelTypes
<1>3. phase = "sync"
  BY <1>0, <1>1 DEF LevelTypes
<1> QED BY <1>0, <1>1, <1>2, <1>3, CalledKnows DEF LevelTypes

(* A synchronous call that is made is still to reach the client.           *)
LEMMA NotifySyncStep ==
  ASSUME LevelInv, NotifySync
  PROVE  LevelInv'
<1>0. LevelTypes /\ HandsOutCurrent /\ Accounted
  BY DEF LevelInv
<1>1. PICK c \in todo : calling' = {c} /\ todo' = todo \ {c}
  BY DEF NotifySync
<1>2. /\ phase = "sync" /\ calling = {}
      /\ UNCHANGED <<lastValue, listeners, phase, level, request, clientVars, overtaken, changes>>
  BY DEF NotifySync
<1>3. LevelTypes' /\ HandsOutCurrent'
  BY <1>0, <1>1, <1>2 DEF LevelTypes, HandsOutCurrent, request, clientVars
<1>4. ASSUME NEW l \in Listeners
      PROVE  WillCall(l)' = WillCall(l) /\ Knows(l)' = Knows(l)
  BY <1>1, <1>2 DEF WillCall, Knows, Latest, clientVars
<1>5. Accounted'
  BY <1>0, <1>2, <1>4 DEF Accounted, Registered, request, clientVars
<1> QED BY <1>3, <1>5 DEF LevelInv

(* The decision is over when nobody is left to be called.                  *)
LEMMA ReturnStep ==
  ASSUME LevelInv, ExecuteReturns
  PROVE  LevelInv'
<1>0. LevelTypes /\ HandsOutCurrent /\ Accounted
  BY DEF LevelInv
<1>1. /\ phase = "sync" /\ todo = {} /\ calling = {} /\ phase' = "idle" /\ level' = INT_MIN
      /\ UNCHANGED <<lastValue, listeners, todo, calling, request, clientVars, overtaken, changes>>
  BY DEF ExecuteReturns
<1>2. LevelTypes' /\ HandsOutCurrent'
  BY <1>0, <1>1 DEF LevelTypes, HandsOutCurrent, Phases, INT_MIN, request,
     clientVars
<1>3. ASSUME NEW l \in Listeners \ overtaken', l \in Registered' \ dead'
      PROVE  Knows(l)' \/ WillCall(l)' \/ stage'[l] \in {"read", "call"}
  <2>1. l \in Registered \ dead /\ l \notin overtaken
    BY <1>1, <1>3 DEF Registered, clientVars
  <2>2. Knows(l) \/ WillCall(l) \/ stage[l] \in {"read", "call"}
    BY <1>0, <2>1 DEF Accounted
  <2>3. ~ WillCall(l) /\ Knows(l)' = Knows(l) /\ stage' = stage
    BY <1>1 DEF WillCall, Knows, Latest, request, clientVars
  <2> QED BY <2>2, <2>3
<1>4. Accounted'
  BY <1>3 DEF Accounted
<1> QED BY <1>2, <1>4 DEF LevelInv

-----------------------------------------------------------------------------
(* A step of c's subscription leaves what is known of the others alone: it *)
(* is enough to account for c.                                             *)
LEMMA SubscriptionKeeps ==
  ASSUME LevelInv, NEW c \in Listeners,
         UNCHANGED <<lastValue, execution, overtaken>>,
         \A l \in Listeners \ {c} : /\ Latest(l)' = Latest(l) /\ stage'[l] = stage[l]
                                    /\ l \in Registered' => l \in Registered
                                    /\ l \notin dead' => l \notin dead,
         c \notin overtaken /\ c \in Registered' \ dead' =>
           Knows(c)' \/ WillCall(c)' \/ stage'[c] \in {"read", "call"}
  PROVE  Accounted'
<1> SUFFICES ASSUME NEW l \in Listeners \ overtaken', l \in Registered' \ dead'
             PROVE  Knows(l)' \/ WillCall(l)' \/ stage'[l] \in {"read", "call"}
  BY DEF Accounted
<1>1. CASE l = c
  BY <1>1
<1>2. CASE l # c
  <2>1. Knows(l) \/ WillCall(l) \/ stage[l] \in {"read", "call"}
    BY <1>2 DEF LevelInv, Accounted
  <2>2. Knows(l)' = Knows(l) /\ WillCall(l)' = WillCall(l) /\ stage'[l] = stage[l]
    BY <1>2 DEF Knows, WillCall, execution
  <2> QED BY <2>1, <2>2
<1> QED BY <1>1, <1>2

(* A request that enters the service changes nothing yet.                  *)
LEMMA SubscribeStep ==
  ASSUME LevelInv, NEW c \in Listeners, Subscribe(c)
  PROVE  LevelInv'
<1>0. LevelTypes /\ HandsOutCurrent /\ Accounted
  BY DEF LevelInv
<1>1. /\ stage[c] = "none" /\ stage' = [stage EXCEPT ![c] = "add"]
      /\ UNCHANGED <<value, lastValue, listeners, execution, clientVars, overtaken, changes>>
  BY DEF Subscribe
<1>2. LevelTypes' /\ stage'[c] = "add" /\ \A l \in Listeners \ {c} : stage'[l] = stage[l]
  BY <1>0, <1>1 DEF LevelTypes, Stages, execution, clientVars
<1>3. HandsOutCurrent'
  BY <1>0, <1>1, <1>2 DEF HandsOutCurrent, execution
<1>4. \A l \in Listeners : Latest(l)' = Latest(l)
  BY <1>1 DEF Latest, clientVars
<1>5. Registered' = Registered /\ dead' = dead
  BY <1>1 DEF Registered, clientVars
<1>6. c \notin overtaken /\ c \in Registered \ dead => Knows(c) \/ WillCall(c)
  BY <1>0, <1>1 DEF Accounted
<1>7. Knows(c)' = Knows(c) /\ WillCall(c)' = WillCall(c)
  BY <1>1, <1>4 DEF Knows, WillCall, execution
<1>8. Accounted'
  BY <1>1, <1>2, <1>4, <1>5, <1>6, <1>7, SubscriptionKeeps
<1> QED BY <1>2, <1>3, <1>8 DEF LevelInv

(* A new listener reads lastValue_ next; one that is there already is      *)
(* accounted for already.                                                  *)
LEMMA AddStep ==
  ASSUME LevelInv, NEW c \in Listeners, AddThermalLevelListeners(c)
  PROVE  LevelInv'
<1>0. LevelTypes /\ HandsOutCurrent /\ Accounted
  BY DEF LevelInv
<1>1. /\ stage[c] = "add"
      /\ listeners' = [listeners EXCEPT ![KindOf(c)] = listeners[KindOf(c)] \cup {c}]
      /\ UNCHANGED <<value, lastValue, execution, inbox, told, dead, tasks, overtaken, changes>>
  BY DEF AddThermalLevelListeners
<1>2. \/ c \in listeners[KindOf(c)] /\ stage' = [stage EXCEPT ![c] = "none"]
      \/ stage' = [stage EXCEPT ![c] = "read"]
  BY DEF AddThermalLevelListeners
<1>3. /\ listeners' \in [Kinds -> SUBSET Listeners]
      /\ \A k \in Kinds : \A l \in listeners'[k] : l \in listeners[k] \/ (l = c /\ k = KindOf(c))
  BY <1>0, <1>1, KindOfKinds DEF LevelTypes
<1>4. /\ stage' \in [Listeners -> Stages] /\ stage'[c] \in {"none", "read"}
      /\ \A l \in Listeners \ {c} : stage'[l] = stage[l]
  BY <1>0, <1>2 DEF LevelTypes, Stages
<1>5. LevelTypes'
  BY <1>0, <1>1, <1>3, <1>4 DEF LevelTypes, execution
<1>6. HandsOutCurrent'
  BY <1>0, <1>1, <1>4 DEF HandsOutCurrent, execution
<1>7. \A l \in Listeners : Latest(l)' = Latest(l)
  BY <1>1 DEF Latest
<1>8. \A l \in Listeners \ {c} : l \in Registered' => l \in Registered
  BY <1>3 DEF Registered, Kinds
<1>9. stage'[c] = "none" => c \in Registered
  BY <1>0, <1>2, KindOfKinds DEF Registered, Kinds, LevelTypes
<1>10. c \notin overtaken /\ c \in Registered \ dead => Knows(c) \/ WillCall(c)
  BY <1>0, <1>1 DEF Accounted
<1>11. Knows(c)' = Knows(c) /\ WillCall(c)' = WillCall(c)
  BY <1>1, <1>7 DEF Knows, WillCall, execution
<1>12. c \notin overtaken /\ c \in Registered' \ dead' =>
         Knows(c)' \/ WillCall(c)' \/ stage'[c] \in {"read", "call"}
  BY <1>1, <1>4, <1>9, <1>10, <1>11
<1>13. Accounted'
  BY <1>1, <1>4, <1>7, <1>8, <1>12, SubscriptionKeeps
<1> QED BY <1>5, <1>6, <1>13 DEF LevelInv

(* The value read is the current one.                                      *)
LEMMA ReadStep ==
  ASSUME LevelInv, NEW c \in Listeners, ReadLastValue(c)
  PROVE  LevelInv'
<1>0. LevelTypes /\ HandsOutCurrent /\ Accounted
  BY DEF LevelInv
<1>1. /\ stage' = [stage EXCEPT ![c] = "call"] /\ value' = [value EXCEPT ![c] = lastValue]
      /\ UNCHANGED <<lastValue, listeners, execution, clientVars, overtaken, changes>>
  BY DEF ReadLastValue
<1>2. /\ LevelTypes' /\ stage'[c] = "call" /\ value'[c] = lastValue
      /\ \A l \in Listeners \ {c} : stage'[l] = stage[l] /\ value'[l] = value[l]
  BY <1>0, <1>1 DEF LevelTypes, Stages, execution, clientVars
<1>3. HandsOutCurrent'
  BY <1>0, <1>1, <1>2 DEF HandsOutCurrent, execution
<1>4. \A l \in Listeners : Latest(l)' = Latest(l)
  BY <1>1 DEF Latest, clientVars
<1>5. Registered' = Registered /\ dead' = dead
  BY <1>1 DEF Registered, clientVars
<1>6. Accounted'
  BY <1>1, <1>2, <1>4, <1>5, SubscriptionKeeps
<1> QED BY <1>2, <1>3, <1>6 DEF LevelInv

(* The first callback: a client that was not overtaken knows the level.    *)
LEMMA FirstCallStep ==
  ASSUME LevelInv, NEW c \in Listeners, CallNewListener(c)
  PROVE  LevelInv'
<1>0. LevelTypes /\ HandsOutCurrent /\ Accounted
  BY DEF LevelInv
<1>1. /\ stage[c] = "call" /\ CallBack(c, value[c])
      /\ stage' = [stage EXCEPT ![c] = "none"] /\ value' = [value EXCEPT ![c] = INT_MIN]
      /\ UNCHANGED <<lastValue, listeners, execution, dead, watched, tasks, overtaken, changes>>
  BY DEF CallNewListener
<1>2. value[c] \in Int
  BY <1>0 DEF LevelTypes
<1>3. /\ inbox' \in [Listeners -> Seq(Int)] /\ told' \in [Listeners -> Int]
      /\ \A m \in Listeners : KindOf(m) = "sync" => inbox'[m] = <<>>
      /\ \A m \in Listeners \ {c} : Latest(m)' = Latest(m)
      /\ c \notin dead => Latest(c)' = value[c]
  BY <1>0, <1>1, <1>2, CallBackHeard
<1>4. /\ stage' \in [Listeners -> Stages] /\ value' \in [Listeners -> Int] /\ stage'[c] = "none"
      /\ \A l \in Listeners \ {c} : stage'[l] = stage[l] /\ value'[l] = value[l]
  BY <1>0, <1>1 DEF LevelTypes, Stages, INT_MIN
<1>5. LevelTypes'
  BY <1>0, <1>1, <1>3, <1>4 DEF LevelTypes, execution
<1>6. HandsOutCurrent'
  BY <1>0, <1>1, <1>4 DEF HandsOutCurrent, execution
<1>7. Registered' = Registered
  BY <1>1 DEF Registered
<1>8. c \notin overtaken /\ c \notin dead => Knows(c)'
  BY <1>0, <1>1, <1>3 DEF HandsOutCurrent, Knows
<1>9. Accounted'
  BY <1>1, <1>3, <1>4, <1>7, <1>8, SubscriptionKeeps
<1> QED BY <1>5, <1>6, <1>9 DEF LevelInv

(* Removing a client, by itself or by the task of its death.               *)
LEMMA RemoveStep ==
  ASSUME LevelInv, NEW c \in Listeners,
         UnSubscribeThermalLevelCallback(c) \/ UnSubscribeTask(c)
  PROVE  LevelInv'
<1>0. LevelTypes /\ HandsOutCurrent /\ Accounted
  BY DEF LevelInv
<1>1. /\ listeners' = [k \in Kinds |-> listeners[k] \ {c}]
      /\ UNCHANGED <<lastValue, execution, request, inbox, told, dead, overtaken, changes>>
  BY DEF UnSubscribeThermalLevelCallback, UnSubscribeTask, Remove
<1>2. LevelTypes' /\ HandsOutCurrent'
  BY <1>0, <1>1 DEF LevelTypes, HandsOutCurrent, execution, request
<1>3. c \notin Registered' /\ Registered' \subseteq Registered
  BY <1>1 DEF Registered, Kinds
<1>4. \A l \in Listeners : Latest(l)' = Latest(l)
  BY <1>1 DEF Latest
<1>5. Accounted'
  BY <1>1, <1>3, <1>4, SubscriptionKeeps DEF request
<1> QED BY <1>2, <1>5 DEF LevelInv

(* Reading the oldest waiting callback leaves the latest one the latest.   *)
LEMMA ReceiveStep ==
  ASSUME LevelInv, NEW c \in Listeners, ClientReceives(c)
  PROVE  LevelInv'
<1>0. LevelTypes /\ HandsOutCurrent /\ Accounted
  BY DEF LevelInv
<1>1. /\ inbox[c] # <<>> /\ told' = [told EXCEPT ![c] = Head(inbox[c])]
      /\ inbox' = [inbox EXCEPT ![c] = Tail(inbox[c])]
      /\ UNCHANGED <<lastValue, listeners, execution, request, dead, watched, tasks, overtaken, changes>>
  BY DEF ClientReceives
<1>2. inbox \in [Listeners -> Seq(Int)] /\ told \in [Listeners -> Int] /\ inbox[c] \in Seq(Int)
  BY <1>0 DEF LevelTypes
<1>3. /\ Head(inbox[c]) \in Int /\ Tail(inbox[c]) \in Seq(Int)
      /\ Tail(inbox[c]) = <<>> => inbox[c][Len(inbox[c])] = Head(inbox[c])
      /\ Tail(inbox[c]) # <<>> =>
           Tail(inbox[c])[Len(Tail(inbox[c]))] = inbox[c][Len(inbox[c])]
  <2> DEFINE q == inbox[c]
  <2>1. q \in Seq(Int) /\ q # <<>>
    BY <1>1, <1>2
  <2> HIDE DEF q
  <2>2. /\ Len(q) \in Nat \ {0} /\ Tail(q) \in Seq(Int) /\ Len(Tail(q)) = Len(q) - 1
        /\ \A i \in 1 .. Len(q) - 1 : Tail(q)[i] = q[i + 1]
    BY <2>1
  <2>3. Head(q) = q[1] /\ Head(q) \in Int
    BY <2>1
  <2>4. Tail(q) = <<>> => Len(q) = 1
    <3>1. Len(<<>>) = 0
      OBVIOUS
    <3>2. Tail(q) = <<>> => Len(Tail(q)) = 0
      BY <3>1, Zenon
    <3> QED BY <2>2, <3>2
  <2>5. Tail(q) # <<>> => Len(q) - 1 \in 1 .. Len(q) - 1
    BY <2>2
  <2>6. Tail(q) # <<>> => Tail(q)[Len(Tail(q))] = q[Len(q)]
    BY <2>2, <2>5
  <2> QED BY <2>2, <2>3, <2>4, <2>6 DEF q
<1>4. /\ inbox' \in [Listeners -> Seq(Int)] /\ told' \in [Listeners -> Int]
      /\ inbox'[c] = Tail(inbox[c]) /\ told'[c] = Head(inbox[c])
      /\ \A l \in Listeners \ {c} : inbox'[l] = inbox[l] /\ told'[l] = told[l]
  BY <1>1, <1>2, <1>3
<1>5. \A l \in Listeners : Latest(l)' = Latest(l)
  BY <1>1, <1>3, <1>4 DEF Latest
<1>6. LevelTypes'
  <2>1. \A l \in Listeners : KindOf(l) = "sync" => inbox'[l] = <<>>
    BY <1>0, <1>1, <1>4 DEF LevelTypes
  <2> QED BY <1>0, <1>1, <1>4, <2>1 DEF LevelTypes, execution, request
<1>7. HandsOutCurrent'
  BY <1>0, <1>1 DEF HandsOutCurrent, execution, request
<1>8. Accounted'
  BY <1>0, <1>1, <1>5 DEF Accounted, Knows, WillCall, Registered, execution, request
<1> QED BY <1>6, <1>7, <1>8 DEF LevelInv

(* Nothing is owed to a client that died.                                  *)
LEMMA DeathStep ==
  ASSUME LevelInv, NEW c \in Listeners, OnRemoteDied(c)
  PROVE  LevelInv'
<1>0. LevelTypes /\ HandsOutCurrent /\ Accounted
  BY DEF LevelInv
<1>1. /\ dead' = dead \cup {c} /\ inbox' = [inbox EXCEPT ![c] = <<>>]
      /\ told' = [told EXCEPT ![c] = INT_MIN]
      /\ UNCHANGED <<lastValue, listeners, execution, request, watched, overtaken, changes>>
  BY DEF OnRemoteDied
<1>2. /\ inbox' \in [Listeners -> Seq(Int)] /\ told' \in [Listeners -> Int]
      /\ inbox'[c] = <<>>
      /\ \A l \in Listeners \ {c} : inbox'[l] = inbox[l] /\ told'[l] = told[l]
  BY <1>0, <1>1 DEF LevelTypes, INT_MIN
<1>3. LevelTypes'
  BY <1>0, <1>1, <1>2 DEF LevelTypes, execution, request
<1>4. HandsOutCurrent'
  BY <1>0, <1>1 DEF HandsOutCurrent, execution, request
<1>5. \A l \in Listeners \ {c} : Latest(l)' = Latest(l)
  BY <1>2 DEF Latest
<1>6. Accounted'
  BY <1>1, <1>5, SubscriptionKeeps DEF Registered, request
<1> QED BY <1>3, <1>4, <1>6 DEF LevelInv

-----------------------------------------------------------------------------
(* A registered client with nothing on its way knows the current level,    *)
(* however its subscription met the decisions, unless its first callback   *)
(* was overtaken.                                                          *)
THEOREM SettledClientsCurrent == Spec => []SettledCurrent
<1>1. Init => LevelInv
  <2> SUFFICES ASSUME Init PROVE LevelInv
    OBVIOUS
  <2>1. INT_MIN \in Int
    BY DEF INT_MIN
  <2>2. LevelTypes
    BY <2>1 DEF Init, LevelTypes, Kinds, Phases, Stages
  <2>3. HandsOutCurrent
    BY DEF Init, HandsOutCurrent
  <2>4. Registered = {}
    BY DEF Init, Registered, Kinds
  <2> QED BY <2>2, <2>3, <2>4 DEF LevelInv, Accounted
<1>2. LevelInv /\ [Next]_vars => LevelInv'
  <2> SUFFICES ASSUME LevelInv, [Next]_vars PROVE LevelInv'
    OBVIOUS
  <2>1. CASE UNCHANGED vars
    BY <2>1 DEF vars, execution, request, clientVars, LevelInv, LevelTypes,
       HandsOutCurrent,
                Accounted, Knows, Latest, WillCall, Registered
  <2>2. CASE Notify
    BY <2>2, CopyStep, NotifyAsyncStep, NotifySyncStep, ReturnStep DEF Notify
  <2>3. ASSUME NEW c \in Listeners, Serve(c) PROVE LevelInv'
    BY <2>3, AddStep, ReadStep, FirstCallStep DEF Serve
  <2> QED BY <2>1, <2>2, <2>3, ExecuteStep, AnswerStep, SubscribeStep, RemoveStep,
             ReceiveStep, DeathStep
          DEF Next
<1>3. LevelInv => SettledCurrent
  <2> SUFFICES ASSUME LevelInv, NEW l \in Listeners \ overtaken, Settled(l) PROVE Current(l)
    BY DEF SettledCurrent
  <2>1. ~ WillCall(l) /\ stage[l] \notin {"read", "call"} /\ Latest(l) = told[l]
    BY DEF Settled, WillCall, Latest
  <2>2. Knows(l)
    BY <2>1 DEF LevelInv, Accounted, Settled
  <2> QED BY <2>1, <2>2 DEF Knows, Current
<1> QED BY <1>1, <1>2, <1>3, PTL DEF Spec
=============================================================================
