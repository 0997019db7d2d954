----------------------- MODULE HdiRegistration_proofs -----------------------
(***************************************************************************)
(* Proofs about HdiRegistration, for any number of incarnations of the     *)
(* device manager and of the host, of registrations that fail and of       *)
(* listeners registered side by side.                                      *)
(***************************************************************************)
EXTENDS HdiRegistration, SequenceTheorems, TLAPS

-----------------------------------------------------------------------------
(* Queues of notices and of status events.                                  *)

Holds(q, e) == \E i \in 1..Len(q) : q[i] = e
Ends(q, e) == q[Len(q)] = e

(* A queue that gets an element holds it, as its last one.                  *)
LEMMA QueueAppend ==
  ASSUME NEW S, NEW q \in Seq(S), NEW e \in S
  PROVE  /\ Append(q, e) \in Seq(S) /\ Append(q, e) # << >>
         /\ \A x : Ends(Append(q, e), x) <=> x = e
         /\ \A x : Holds(Append(q, e), x) <=> Holds(q, x) \/ x = e
<1> DEFINE r == Append(q, e)
<1>1. /\ r \in Seq(S) /\ Len(r) = Len(q) + 1 /\ Len(q) \in Nat
      /\ \A i \in 1..Len(q) : r[i] = q[i]
      /\ r[Len(q) + 1] = e
  OBVIOUS
<1> HIDE DEF r
<1>2. r # << >>
  BY <1>1
<1>3. \A x : Ends(r, x) <=> x = e
  BY <1>1 DEF Ends
<1>4. ASSUME NEW x PROVE Holds(r, x) <=> Holds(q, x) \/ x = e
  <2>1. ASSUME Holds(q, x) \/ x = e PROVE Holds(r, x)
    <3>1. CASE x = e
      <4>1. Len(q) + 1 \in 1..Len(r)
        BY <1>1
      <4> QED BY <1>1, <3>1, <4>1 DEF Holds
    <3>2. CASE Holds(q, x)
      <4>1. PICK i \in 1..Len(q) : q[i] = x
        BY <3>2 DEF Holds
      <4>2. i \in 1..Len(r) /\ r[i] = x
        BY <1>1, <4>1
      <4> QED BY <4>2 DEF Holds
    <3> QED BY <2>1, <3>1, <3>2
  <2>2. ASSUME Holds(r, x), x # e PROVE Holds(q, x)
    <3>1. PICK i \in 1..Len(r) : r[i] = x
      BY <2>2 DEF Holds
    <3>2. i \in 1..Len(q)
      BY <1>1, <2>2, <3>1
    <3> QED BY <1>1, <3>1, <3>2 DEF Holds
  <2> QED BY <2>1, <2>2
<1> QED BY <1>1, <1>2, <1>3, <1>4 DEF r

(* What a queue holds is its head or in its tail.                           *)
LEMMA QueueTail ==
  ASSUME NEW S, NEW q \in Seq(S), q # << >>
  PROVE  /\ Tail(q) \in Seq(S) /\ Head(q) \in S
         /\ \A x : Holds(q, x) <=> Head(q) = x \/ Holds(Tail(q), x)
         /\ Tail(q) # << >> => \A x : Ends(Tail(q), x) <=> Ends(q, x)
         /\ Tail(q) = << >> => \A x : Ends(q, x) <=> Head(q) = x
<1> DEFINE r == Tail(q)
<1>1. /\ r \in Seq(S) /\ Len(q) \in Nat /\ Len(q) # 0 /\ Len(r) = Len(q) - 1
      /\ \A i \in 1..(Len(q) - 1) : r[i] = q[i + 1]
      /\ Head(q) = q[1] /\ Head(q) \in S
  OBVIOUS
<1>2. r = << >> <=> Len(r) = 0
  BY <1>1, EmptySeq
<1> HIDE DEF r
<1>3. ASSUME NEW x PROVE Holds(q, x) <=> Head(q) = x \/ Holds(r, x)
  <2>1. ASSUME Holds(q, x), Head(q) # x PROVE Holds(r, x)
    <3>1. PICK i \in 1..Len(q) : q[i] = x
      BY <2>1 DEF Holds
    <3>2. i - 1 \in 1..Len(r) /\ i - 1 \in 1..(Len(q) - 1) /\ (i - 1) + 1 = i
      BY <1>1, <2>1, <3>1
    <3> QED BY <1>1, <3>1, <3>2 DEF Holds
  <2>2. ASSUME Holds(r, x) PROVE Holds(q, x)
    <3>1. PICK i \in 1..Len(r) : r[i] = x
      BY <2>2 DEF Holds
    <3>2. i + 1 \in 1..Len(q) /\ q[i + 1] = x
      BY <1>1, <3>1
    <3> QED BY <3>2 DEF Holds
  <2>3. ASSUME Head(q) = x PROVE Holds(q, x)
    <3>1. 1 \in 1..Len(q)
      BY <1>1
    <3> QED BY <1>1, <2>3, <3>1 DEF Holds
  <2> QED BY <2>1, <2>2, <2>3
<1>4. ASSUME r # << >>, NEW x PROVE Ends(r, x) <=> Ends(q, x)
  <2>1. Len(r) \in 1..(Len(q) - 1) /\ Len(r) + 1 = Len(q)
    BY <1>1, <1>2, <1>4
  <2>2. r[Len(r)] = q[Len(q)]
    BY <1>1, <2>1
  <2> QED BY <2>2 DEF Ends
<1>5. ASSUME r = << >>, NEW x PROVE Ends(q, x) <=> Head(q) = x
  <2>1. Len(q) = 1
    BY <1>1, <1>2, <1>5
  <2> QED BY <1>1, <2>1 DEF Ends
<1> QED BY <1>1, <1>3, <1>4, <1>5 DEF r

(* An empty queue holds nothing.                                            *)
LEMMA QueueEmpty == \A x : ~ Holds(<< >>, x)
BY DEF Holds

(* A queue holds its last element.                                          *)
LEMMA QueueLast ==
  ASSUME NEW S, NEW q \in Seq(S), q # << >>, NEW x, Ends(q, x)
  PROVE  Holds(q, x)
<1>1. Len(q) \in 1..Len(q)
  BY EmptySeq
<1> QED BY <1>1 DEF Ends, Holds

-----------------------------------------------------------------------------
(* The types.                                                               *)

Phases == {"down", "starting", "ready", "stopping", "stopped"}
Notices == {"add", "remove"}
Events == {"start", "stop"}
Listener == [inc : Nat, events : Seq(Events)]

HdiTypes ==
    /\ phase \in Phases
    /\ pc \in [Threads -> {"idle", "call", "got"}]
    /\ mgr \in Nat /\ iface \in Nat /\ isRemove \in BOOLEAN /\ retries \in Nat
    /\ tasks \in [thermal : Nat, fan : Nat]
    /\ manager \in [up : BOOLEAN, inc : Nat]
    /\ host \in [up : BOOLEAN, inc : Nat, callbacks : SUBSET Callbacks]
    /\ listeners \in Seq(Listener) /\ notices \in Seq(Notices)
    /\ watching \in BOOLEAN /\ retried \in BOOLEAN /\ gap \in BOOLEAN

\* Incarnations count from 1, and no listener is of a later manager.
Incarnations ==
    /\ manager.up => manager.inc # None
    /\ host.up => host.inc # None
    /\ \A l \in DOMAIN listeners : listeners[l].inc <= manager.inc

HdiTyped == HdiTypes /\ Incarnations

(* A function on the indices of a sequence is a sequence of its values.     *)
LEMMA OnIndices ==
  ASSUME NEW S, NEW q \in Seq(S), NEW T, NEW f \in [DOMAIN q -> T]
  PROVE  f \in Seq(T) /\ DOMAIN f = DOMAIN q
<1>1. Len(q) \in Nat /\ DOMAIN q = 1..Len(q)
  OBVIOUS
<1>2. f \in [1..Len(q) -> T]
  BY <1>1
<1>3. f \in UNION {[1..n -> T] : n \in Nat}
  BY <1>1, <1>2
<1> QED BY <1>3, SeqDef

(* Every listener has an incarnation and a queue of events.                 *)
LEMMA ListenerFields ==
  ASSUME HdiTypes, NEW l \in DOMAIN listeners
  PROVE  listeners[l] \in Listener /\ listeners[l].inc \in Nat /\ listeners[l].events \in Seq(Events)
<1>1. listeners[l] \in Listener
  BY DEF HdiTypes
<1> QED BY <1>1 DEF Listener

(* Delivering an event shortens one queue and changes nothing else.         *)
LEMMA DeliveredListeners ==
  ASSUME HdiTypes, NEW l \in DOMAIN listeners, listeners[l].events # << >>
  PROVE  /\ Delivered(l) \in Seq(Listener) /\ DOMAIN Delivered(l) = DOMAIN listeners
         /\ Delivered(l)[l].events = Tail(listeners[l].events)
         /\ \A m \in DOMAIN listeners :
              /\ Delivered(l)[m].inc = listeners[m].inc
              /\ m # l => Delivered(l)[m].events = listeners[m].events
<1> DEFINE r == [listeners[l] EXCEPT !.events = Tail(@)]
           f == [listeners EXCEPT ![l] = r]
<1>1. listeners[l] \in Listener /\ Tail(listeners[l].events) \in Seq(Events)
  BY ListenerFields, QueueTail
<1>2. r \in Listener /\ r.inc = listeners[l].inc /\ r.events = Tail(listeners[l].events)
  BY <1>1 DEF Listener
<1>3. Delivered(l) = f
  BY DEF Delivered
<1> HIDE DEF r
<1>4. f \in Seq(Listener) /\ DOMAIN f = DOMAIN listeners
      /\ f[l] = r /\ \A m \in DOMAIN listeners : m # l => f[m] = listeners[m]
  BY <1>2 DEF HdiTypes
<1> QED BY <1>2, <1>3, <1>4

(* Telling an event appends it to the queues of the live listeners.         *)
LEMMA ToldListeners ==
  ASSUME HdiTypes, NEW e \in Events
  PROVE  /\ Tell(e) \in Seq(Listener) /\ DOMAIN Tell(e) = DOMAIN listeners
         /\ \A m \in DOMAIN listeners :
              /\ Tell(e)[m].inc = listeners[m].inc
              /\ Tell(e)[m].events = IF Live(m) THEN Append(listeners[m].events, e)
                                                ELSE listeners[m].events
<1>1. ASSUME NEW m \in DOMAIN listeners
      PROVE  /\ Tell(e)[m] \in Listener /\ Tell(e)[m].inc = listeners[m].inc
             /\ Tell(e)[m].events = IF Live(m) THEN Append(listeners[m].events, e)
                                               ELSE listeners[m].events
  <2>1. listeners[m] \in Listener /\ Append(listeners[m].events, e) \in Seq(Events)
    BY ListenerFields, QueueAppend
  <2>2. Tell(e)[m] = IF Live(m) THEN [listeners[m] EXCEPT !.events = Append(@, e)] ELSE listeners[m]
    BY DEF Tell
  <2> QED BY <2>1, <2>2 DEF Listener
<1>2. Tell(e) \in [DOMAIN listeners -> Listener]
  <2>1. Tell(e) = [m \in DOMAIN listeners |-> Tell(e)[m]]
    BY DEF Tell
  <2> QED BY <1>1, <2>1
<1>3. Tell(e) \in Seq(Listener) /\ DOMAIN Tell(e) = DOMAIN listeners
  BY <1>2, OnIndices DEF HdiTypes
<1> QED BY <1>1, <1>3

(* A registration that succeeds adds one listener, of the manager that is   *)
(* up, which is told of a host that is up; one that fails adds none.        *)
LEMMA RegisteredListeners ==
  ASSUME HdiTypes, NEW t \in Threads, RegisterListener(t)
  PROVE  \/ UNCHANGED listeners /\ retries' = retries + 1
         \/ /\ manager.up /\ UNCHANGED retries
            /\ listeners' \in Seq(Listener) /\ Len(listeners) + 1 \in DOMAIN listeners'
            /\ DOMAIN listeners' = DOMAIN listeners \cup {Len(listeners) + 1}
            /\ \A m \in DOMAIN listeners : listeners'[m] = listeners[m]
            /\ Len(listeners) + 1 \notin DOMAIN listeners
            /\ listeners'[Len(listeners) + 1] =
                 [inc |-> manager.inc, events |-> IF host.up THEN <<"start">> ELSE << >>]
<1> DEFINE new == [inc |-> manager.inc, events |-> IF host.up THEN <<"start">> ELSE << >>]
<1>1. \/ UNCHANGED listeners /\ retries' = retries + 1
      \/ manager.up /\ UNCHANGED retries /\ listeners' = Append(listeners, new)
  BY Zenon DEF RegisterListener
<1>2. new \in Listener
  <2>1. <<"start">> \in Seq(Events) /\ << >> \in Seq(Events)
    BY DEF Events
  <2>2. manager.inc \in Nat
    BY DEF HdiTypes
  <2> QED BY <2>1, <2>2 DEF Listener
<1> HIDE DEF new
<1>3. CASE manager.up /\ UNCHANGED retries /\ listeners' = Append(listeners, new)
  <2>1. listeners \in Seq(Listener)
    BY DEF HdiTypes
  <2>2. /\ listeners' \in Seq(Listener) /\ Len(listeners) \in Nat
        /\ Len(listeners') = Len(listeners) + 1
        /\ DOMAIN listeners = 1..Len(listeners) /\ DOMAIN listeners' = 1..(Len(listeners) + 1)
        /\ \A m \in 1..Len(listeners) : listeners'[m] = listeners[m]
        /\ listeners'[Len(listeners) + 1] = new
    BY <1>2, <1>3, <2>1
  <2>3. 1..(Len(listeners) + 1) = 1..Len(listeners) \cup {Len(listeners) + 1}
    BY <2>2
  <2>4. Len(listeners) + 1 \notin 1..Len(listeners)
    BY <2>2
  <2>5. DOMAIN listeners' = DOMAIN listeners \cup {Len(listeners) + 1}
    BY <2>2, <2>3
  <2> QED BY <1>3, <2>2, <2>4, <2>5, Zenon DEF new
<1> QED BY <1>1, <1>3

(* Calls to the host leave its incarnation alone.                           *)
LEMMA HostCalls ==
  ASSUME HdiTypes
  PROVE  /\ Unregistered \in [up : BOOLEAN, inc : Nat, callbacks : SUBSET Callbacks]
         /\ Unregistered.up = host.up /\ Unregistered.inc = host.inc
         /\ GetThermalInterfaceInner \in Nat
         /\ \A r : \A cb \in Callbacks :
              /\ Registered(r, cb) \in [up : BOOLEAN, inc : Nat, callbacks : SUBSET Callbacks]
              /\ Registered(r, cb).up = host.up /\ Registered(r, cb).inc = host.inc
              /\ host.callbacks \subseteq Registered(r, cb).callbacks
              /\ host.up /\ r = host.inc => cb \in Registered(r, cb).callbacks
<1>1. host \in [up : BOOLEAN, inc : Nat, callbacks : SUBSET Callbacks]
  BY DEF HdiTypes
<1>2. GetThermalInterfaceInner \in Nat
  BY <1>1 DEF GetThermalInterfaceInner, HdiTypes, None
<1> QED BY <1>1, <1>2 DEF Unregistered, Registered

\* thermalInterface_ refers to a host that is gone.
Stale == iface # None /\ ~ (host.up /\ iface = host.inc)

(* Using the reference makes none stale.                                    *)
LEMMA ReferenceUsed ==
  ASSUME HdiTypes, Incarnations, iface' = GetThermalInterfaceInner,
         host'.up = host.up, host'.inc = host.inc
  PROVE  /\ Stale' => Stale
         /\ manager.up /\ host.up /\ ~ Stale => iface' = host.inc
BY DEF GetThermalInterfaceInner, Stale, None, Incarnations

(* After the call the host has the callback or has refused it, unless the   *)
(* reference was stale; what it had or refused before stays so.             *)
LEMMA CallbackRegistered ==
  ASSUME HdiTypes, Incarnations, NEW cb \in Callbacks, RegisterCallback(cb)
  PROVE  /\ iface' \in Nat /\ host' \in [up : BOOLEAN, inc : Nat, callbacks : SUBSET Callbacks]
         /\ host'.up = host.up /\ host'.inc = host.inc
         /\ Stale' => Stale
         /\ host.callbacks \cup refused \subseteq host'.callbacks \cup refused'
         /\ manager.up /\ host.up /\ ~ Stale => cb \in host'.callbacks \cup refused'
<1>1. CASE /\ iface' = GetThermalInterfaceInner /\ host' = Registered(iface', cb)
           /\ refused' = refused \ host'.callbacks
  <2>1. /\ iface' \in Nat /\ host' \in [up : BOOLEAN, inc : Nat, callbacks : SUBSET Callbacks]
        /\ host'.up = host.up /\ host'.inc = host.inc
        /\ host.callbacks \subseteq host'.callbacks
        /\ host.up /\ iface' = host.inc => cb \in host'.callbacks
    BY <1>1, HostCalls
  <2>2. /\ Stale' => Stale
        /\ manager.up /\ host.up /\ ~ Stale => iface' = host.inc
    BY <1>1, <2>1, ReferenceUsed
  <2> QED BY <1>1, <2>1, <2>2
<1>2. CASE /\ iface' \in {iface, GetThermalInterfaceInner} /\ UNCHANGED host
           /\ refused' = refused \cup ({cb} \ host.callbacks)
  <2>1. iface' \in Nat
    BY <1>2, HostCalls DEF HdiTypes
  <2>2. Stale' => Stale
    BY <1>2, ReferenceUsed DEF Stale
  <2>3. host \in [up : BOOLEAN, inc : Nat, callbacks : SUBSET Callbacks]
    BY DEF HdiTypes
  <2> QED BY <1>2, <2>1, <2>2, <2>3
<1> QED BY <1>1, <1>2 DEF RegisterCallback

(* Every step keeps the types and the order of the incarnations.            *)
LEMMA TypedStep == HdiTyped /\ [Next]_vars => HdiTyped'
<1> SUFFICES ASSUME HdiTypes, Incarnations, [Next]_vars PROVE HdiTypes' /\ Incarnations'
  BY DEF HdiTyped
<1> USE DEF None
<1>0. /\ "idle" \in {"idle", "call", "got"} /\ "call" \in {"idle", "call", "got"}
      /\ \A t \in Threads, p \in {"idle", "call", "got"} :
           [pc EXCEPT ![t] = p] \in [Threads -> {"idle", "call", "got"}]
  BY DEF HdiTypes
<1>1. ASSUME NEW t \in Threads, GetManager(t) PROVE HdiTypes' /\ Incarnations'
  <2>1. UNCHANGED <<latest, phase, crashed, iface, tasks, world>>
    BY <1>1 DEF GetManager
  <2>2. mgr' \in Nat
    BY <1>1 DEF GetManager, HdiTypes
  <2>3. pc' \in [Threads -> {"idle", "call", "got"}]
    BY <1>0, <1>1 DEF GetManager, Returns
  <2>4. retries' \in Nat
    BY <1>1 DEF GetManager, HdiTypes
  <2>5. isRemove' \in BOOLEAN
    BY <1>1, Zenon DEF GetManager, Returns, HdiTypes
  <2> QED BY <2>1, <2>2, <2>3, <2>4, <2>5 DEF HdiTypes, Incarnations, world
<1>2. ASSUME NEW t \in Threads, RegisterListener(t) PROVE HdiTypes' /\ Incarnations'
  <2>1. /\ UNCHANGED <<phase, crashed, mgr, iface, tasks, manager, host, watching, notices, gap, retried>>
        /\ Returns(t)
    BY <1>2 DEF RegisterListener
  <2>2. pc' \in [Threads -> {"idle", "call", "got"}] /\ isRemove' \in BOOLEAN
    BY <1>0, <2>1 DEF Returns, HdiTypes
  <2>3. /\ retries' \in Nat /\ listeners' \in Seq(Listener)
        /\ \A l \in DOMAIN listeners' : listeners'[l].inc <= manager.inc
    <3>1. CASE UNCHANGED listeners /\ retries' = retries + 1
      BY <3>1 DEF HdiTypes, Incarnations
    <3>2. CASE ~ (UNCHANGED listeners /\ retries' = retries + 1)
      <4>1. /\ UNCHANGED retries
            /\ listeners' \in Seq(Listener)
            /\ DOMAIN listeners' = DOMAIN listeners \cup {Len(listeners) + 1}
            /\ \A m \in DOMAIN listeners : listeners'[m] = listeners[m]
            /\ listeners'[Len(listeners) + 1].inc = manager.inc
        <5>1. \/ UNCHANGED listeners /\ retries' = retries + 1
              \/ /\ UNCHANGED retries
                 /\ listeners' \in Seq(Listener)
                 /\ DOMAIN listeners' = DOMAIN listeners \cup {Len(listeners) + 1}
                 /\ \A m \in DOMAIN listeners : listeners'[m] = listeners[m]
                 /\ listeners'[Len(listeners) + 1] =
                      [inc |-> manager.inc, events |-> IF host.up THEN <<"start">> ELSE << >>]
          BY <1>2, RegisteredListeners, Zenon
        <5> QED BY <3>2, <5>1
      <4> QED BY <4>1 DEF HdiTypes, Incarnations
    <3> QED BY <3>1, <3>2
  <2> QED BY <2>1, <2>2, <2>3 DEF HdiTypes, Incarnations
<1>3. CASE \E t \in Threads : UseNullManager(t)
  BY <1>3 DEF UseNullManager, HdiTypes, Incarnations, world
<1>4. CASE RetryTask
  <2>1. pc' \in [Threads -> {"idle", "call", "got"}] /\ retries' \in Nat /\ retried' \in BOOLEAN
    BY <1>0, <1>4 DEF RetryTask, Threads, HdiTypes
  <2> QED BY <1>4, <2>1 DEF RetryTask, HdiTypes, Incarnations
<1>5. CASE OnStart
  <2>1. pc' \in [Threads -> {"idle", "call", "got"}] /\ phase' \in Phases
    BY <1>0, <1>5 DEF OnStart, Threads, Phases
  <2> QED BY <1>5, <2>1 DEF OnStart, HdiTypes, Incarnations, world
<1>6. CASE OnStartReady
  <2>1. notices' \in Seq(Notices) /\ phase' \in Phases /\ watching' \in BOOLEAN
    BY <1>6 DEF OnStartReady, HdiTypes, Notices, Phases
  <2> QED BY <1>6, <2>1 DEF OnStartReady, HdiTypes, Incarnations
<1>7. CASE OnStop
  <2>1. phase' \in Phases /\ iface' = 0 /\ host' = Unregistered
    BY <1>7 DEF OnStop, Phases
  <2>2. UNCHANGED <<pc, mgr, isRemove, retries, tasks, manager, listeners, watching, notices,
                    gap, retried>>
    BY <1>7 DEF OnStop
  <2> QED BY <2>1, <2>2, HostCalls DEF HdiTypes, Incarnations
<1>8. CASE OnStopUnregister
  <2>1. UNCHANGED <<pc, iface, isRemove, retries, tasks, manager, host, watching, notices, gap, retried>>
    BY <1>8 DEF OnStopUnregister
  <2>2. phase' \in Phases /\ mgr' \in Nat
    BY <1>8 DEF OnStopUnregister, HdiTypes, Phases
  <2>3. listeners' \in Seq(Listener) /\ \A l \in DOMAIN listeners' : listeners'[l].inc <= manager.inc
    <3>1. CASE UNCHANGED listeners
      BY <3>1 DEF HdiTypes, Incarnations
    <3>2. CASE listeners' = [listeners EXCEPT ![latest].inc = 0]
      <4> DEFINE r == [listeners[latest] EXCEPT !.inc = 0]
      <4>1. CASE latest \notin DOMAIN listeners
        <5>1. UNCHANGED listeners
          BY <3>2, <4>1 DEF HdiTypes
        <5> QED BY <3>1, <5>1
      <4>2. CASE latest \in DOMAIN listeners
        <5>1. r \in Listener /\ r.inc = 0
          BY <4>2, ListenerFields DEF Listener
        <5>2. listeners' = [listeners EXCEPT ![latest] = r]
          BY <3>2
        <5> HIDE DEF r
        <5>3. /\ listeners' \in Seq(Listener) /\ DOMAIN listeners' = DOMAIN listeners
              /\ listeners'[latest] = r
              /\ \A m \in DOMAIN listeners : m # latest => listeners'[m] = listeners[m]
          BY <4>2, <5>1, <5>2 DEF HdiTypes
        <5>4. manager.inc \in Nat
          BY DEF HdiTypes
        <5>5. \A l \in DOMAIN listeners' : listeners'[l].inc <= manager.inc
          BY <5>1, <5>3, <5>4 DEF Incarnations
        <5> QED BY <5>3, <5>5
      <4> QED BY <4>1, <4>2
    <3> QED BY <1>8, <3>1, <3>2 DEF OnStopUnregister
  <2> QED BY <2>1, <2>2, <2>3 DEF HdiTypes, Incarnations
<1>9. CASE OnAddSystemAbility
  <2>1. notices' \in Seq(Notices) /\ pc' \in [Threads -> {"idle", "call", "got"}]
    BY <1>0, <1>9, QueueTail DEF OnAddSystemAbility, HdiTypes, Threads
  <2> QED BY <1>9, <2>1 DEF OnAddSystemAbility, HdiTypes, Incarnations
<1>10. CASE OnRemoveSystemAbility
  <2>1. notices' \in Seq(Notices)
    BY <1>10, QueueTail DEF OnRemoveSystemAbility, HdiTypes
  <2>2. mgr' \in Nat /\ iface' \in Nat
    BY <1>10 DEF OnRemoveSystemAbility, HdiTypes
  <2>3. isRemove' \in BOOLEAN
    BY <1>10, Zenon DEF OnRemoveSystemAbility, HdiTypes
  <2> QED BY <1>10, <2>1, <2>2, <2>3 DEF OnRemoveSystemAbility, HdiTypes, Incarnations
<1>11. ASSUME NEW l \in DOMAIN listeners, ServiceStarted(l) PROVE HdiTypes' /\ Incarnations'
  <2>1. listeners' = Delivered(l) /\ listeners[l].events # << >>
    BY <1>11 DEF ServiceStarted
  <2>2. tasks' \in [thermal : Nat, fan : Nat]
    BY <1>11 DEF ServiceStarted, HdiTypes
  <2>3. /\ listeners' \in Seq(Listener)
        /\ \A m \in DOMAIN listeners' : listeners'[m].inc <= manager.inc
    BY <2>1, DeliveredListeners DEF Incarnations
  <2> QED BY <1>11, <2>2, <2>3 DEF ServiceStarted, HdiTypes, Incarnations
<1>12. ASSUME NEW l \in DOMAIN listeners, ServiceStopped(l) PROVE HdiTypes' /\ Incarnations'
  <2>1. /\ listeners' = Delivered(l) /\ listeners[l].events # << >>
        /\ host' = Unregistered /\ iface' = 0 /\ gap' \in BOOLEAN
    BY <1>12 DEF ServiceStopped
  <2>2. /\ listeners' \in Seq(Listener)
        /\ \A m \in DOMAIN listeners' : listeners'[m].inc <= manager.inc
    BY <2>1, DeliveredListeners DEF Incarnations
  <2>3. /\ host' \in [up : BOOLEAN, inc : Nat, callbacks : SUBSET Callbacks]
        /\ host'.up = host.up /\ host'.inc = host.inc
    BY <2>1, HostCalls
  <2> QED BY <1>12, <2>1, <2>2, <2>3 DEF ServiceStopped, HdiTypes, Incarnations
<1>13. CASE RegisterThermalHdiCallback
  <2>1. /\ iface' \in Nat /\ host' \in [up : BOOLEAN, inc : Nat, callbacks : SUBSET Callbacks]
        /\ host'.up = host.up /\ host'.inc = host.inc
    BY <1>13, CallbackRegistered DEF RegisterThermalHdiCallback, Callbacks
  <2>2. tasks' \in [thermal : Nat, fan : Nat]
    BY <1>13 DEF RegisterThermalHdiCallback, HdiTypes
  <2> QED BY <1>13, <2>1, <2>2 DEF RegisterThermalHdiCallback, HdiTypes, Incarnations
<1>14. CASE RegisterFanHdiCallback
  <2>1. /\ iface' \in Nat /\ host' \in [up : BOOLEAN, inc : Nat, callbacks : SUBSET Callbacks]
        /\ host'.up = host.up /\ host'.inc = host.inc
    <3>1. CASE HasFanConfig
      BY <1>14, <3>1, CallbackRegistered DEF RegisterFanHdiCallback, Callbacks
    <3>2. CASE ~ HasFanConfig
      BY <1>14, <3>2 DEF RegisterFanHdiCallback, HdiTypes
    <3> QED BY <3>1, <3>2
  <2>2. tasks' \in [thermal : Nat, fan : Nat]
    BY <1>14 DEF RegisterFanHdiCallback, HdiTypes
  <2> QED BY <1>14, <2>1, <2>2 DEF RegisterFanHdiCallback, HdiTypes, Incarnations
<1>15. CASE GetThermalInfo
  BY <1>15, HostCalls DEF GetThermalInfo, HdiTypes, Incarnations, world
<1>16. CASE ManagerStops \/ ManagerStarts
  <2>1. /\ manager' \in [up : BOOLEAN, inc : Nat] /\ manager'.inc >= manager.inc
        /\ manager'.up => manager'.inc # 0
    <3>1. manager \in [up : BOOLEAN, inc : Nat] /\ manager.inc \in Nat
      BY DEF HdiTypes
    <3>2. CASE ManagerStops
      <4>1. manager' = [manager EXCEPT !.up = FALSE]
        BY <3>2 DEF ManagerStops
      <4>2. /\ manager' \in [up : BOOLEAN, inc : Nat]
            /\ manager'.inc = manager.inc /\ manager'.up = FALSE
        BY <3>1, <4>1
      <4> QED BY <3>1, <4>2
    <3>3. CASE ManagerStarts
      BY <3>1, <3>3 DEF ManagerStarts
    <3> QED BY <1>16, <3>2, <3>3
  <2>2. notices' \in Seq(Notices)
    <3>1. /\ notices \in Seq(Notices)
          /\ Append(notices, "add") \in Seq(Notices) /\ Append(notices, "remove") \in Seq(Notices)
      BY DEF HdiTypes, Notices
    <3> QED BY <1>16, <3>1 DEF ManagerStops, ManagerStarts
  <2>3. gap' \in BOOLEAN
    BY <1>16 DEF ManagerStops, ManagerStarts, HdiTypes
  <2>4. UNCHANGED <<service, host, listeners, watching, retried>>
    BY <1>16 DEF ManagerStops, ManagerStarts
  <2>5. \A l \in DOMAIN listeners : listeners[l].inc <= manager'.inc
    <3>1. \A l \in DOMAIN listeners : listeners[l].inc \in Nat /\ listeners[l].inc <= manager.inc
      BY ListenerFields DEF Incarnations
    <3>2. manager.inc \in Nat /\ manager'.inc \in Nat
      BY <2>1 DEF HdiTypes
    <3> QED BY <2>1, <3>1, <3>2
  <2> QED BY <2>1, <2>2, <2>3, <2>4, <2>5 DEF HdiTypes, Incarnations, service
<1>17. CASE HostStops \/ HostStarts
  <2>1. /\ host' \in [up : BOOLEAN, inc : Nat, callbacks : SUBSET Callbacks]
        /\ host'.up => host'.inc # 0
    <3>1. host \in [up : BOOLEAN, inc : Nat, callbacks : SUBSET Callbacks] /\ host.inc \in Nat
      BY DEF HdiTypes
    <3>2. CASE HostStops
      BY <3>1, <3>2 DEF HostStops
    <3>3. CASE HostStarts
      BY <3>1, <3>3 DEF HostStarts
    <3> QED BY <1>17, <3>2, <3>3
  <2>2. PICK e \in Events : listeners' = Tell(e)
    BY <1>17 DEF HostStops, HostStarts, Events
  <2>3. gap' \in BOOLEAN
    BY <1>17 DEF HostStops, HostStarts, HdiTypes
  <2>4. UNCHANGED <<service, manager, watching, notices, retried>>
    BY <1>17 DEF HostStops, HostStarts
  <2> QED BY <2>1, <2>2, <2>3, <2>4, ToldListeners DEF HdiTypes, Incarnations, service
<1>18. CASE UNCHANGED vars
  BY <1>18 DEF vars, service, world, HdiTypes, Incarnations
<1> QED BY <1>1, <1>2, <1>3, <1>4, <1>5, <1>6, <1>7, <1>8, <1>9, <1>10, <1>11, <1>12, <1>13,
           <1>14, <1>15, <1>16, <1>17, <1>18 DEF Next, ServiceStep, Environment

(* The types hold at the start.                                             *)
LEMMA TypedInit == Init => HdiTyped
<1> SUFFICES ASSUME Init PROVE HdiTypes /\ Incarnations
  BY DEF HdiTyped
<1>1. phase \in Phases /\ pc \in [Threads -> {"idle", "call", "got"}]
  BY DEF Init, Phases
<1>2. /\ mgr \in Nat /\ iface \in Nat /\ isRemove \in BOOLEAN /\ retries \in Nat
      /\ tasks \in [thermal : Nat, fan : Nat]
      /\ watching \in BOOLEAN /\ retried \in BOOLEAN /\ gap \in BOOLEAN
  BY DEF Init, None
<1>3. manager \in [up : BOOLEAN, inc : Nat] /\ (manager.up => manager.inc # None)
  <2>1. CASE manager = [up |-> FALSE, inc |-> 0]
    BY <2>1
  <2>2. CASE manager = [up |-> TRUE, inc |-> 1]
    BY <2>2 DEF None
  <2> QED BY <2>1, <2>2 DEF Init
<1>4. host \in [up : BOOLEAN, inc : Nat, callbacks : SUBSET Callbacks] /\ ~ host.up
  BY DEF Init
<1>5. listeners \in Seq(Listener) /\ notices \in Seq(Notices) /\ DOMAIN listeners = {}
  BY DEF Init
<1> QED BY <1>1, <1>2, <1>3, <1>4, <1>5 DEF HdiTypes, Incarnations

(* Types and incarnations, always.                                          *)
LEMMA AlwaysTyped == Spec => []HdiTyped
BY TypedInit, TypedStep, PTL DEF Spec

-----------------------------------------------------------------------------
(* Who may find hdiServiceMgr_ null.                                        *)

\* The first registration runs alone: notices come once it is over, and a
\* retry only after it failed.  As long as no retry has run, a notice's own
\* registration is the only one under way, and no other notice takes the
\* manager away from it.
StartInv ==
    /\ phase = "down" => crashed = "no" /\ retries = 0 /\ ~ retried /\ pc["start"] = "idle"
    /\ watching <=> phase \notin {"down", "starting"}
    /\ ~ watching => notices = << >> /\ pc["notice"] = "idle"
    /\ ~ retried => pc["retry"] = "idle"
    /\ pc["start"] # "idle" => phase = "starting" /\ retries = 0 /\ ~ retried
    /\ pc["start"] = "got" => mgr # None
    /\ (phase \in {"starting", "ready"} /\ ~ retried /\ pc["notice"] = "got") => mgr # None
    /\ CrashNeedsRetry

(* One thread of a registration moves.                                      *)
LEMMA StartRegistration ==
  ASSUME HdiTypes, Incarnations, StartInv, NEW t \in Threads,
         GetManager(t) \/ RegisterListener(t) \/ UseNullManager(t)
  PROVE  StartInv'
<1> USE DEF None
<1>0. pc \in [Threads -> {"idle", "call", "got"}] /\ mgr \in Nat
  BY DEF HdiTypes
<1>1. UNCHANGED <<phase, watching, notices, retried>> /\ pc[t] # "idle" /\ phase # "down"
  BY DEF GetManager, RegisterListener, UseNullManager, Running, world
<1>2. CASE UseNullManager(t)
  <2>1. crashed' = t /\ mgr = 0 /\ pc[t] = "got" /\ UNCHANGED <<pc, mgr, retries>>
    BY <1>2 DEF UseNullManager
  <2>2. t # "start" /\ (phase \in {"starting", "ready"} => retried)
    BY <2>1 DEF StartInv, Threads
  <2>3. CrashNeedsRetry'
    BY <1>1, <2>1, <2>2, Zenon DEF CrashNeedsRetry
  <2> QED BY <1>1, <2>1, <2>3, Zenon DEF StartInv
<1>3. CASE GetManager(t) \/ RegisterListener(t)
  <2>1. PICK p \in {"idle", "got"} :
          /\ pc' = [pc EXCEPT ![t] = p] /\ UNCHANGED crashed
          /\ p = "got" => mgr' # 0 /\ UNCHANGED retries
          /\ mgr' = mgr \/ mgr' # 0 \/ p = "idle"
    BY <1>3 DEF GetManager, RegisterListener, Returns
  <2>2. pc'[t] = p /\ \A u \in Threads : u # t => pc'[u] = pc[u]
    BY <1>0, <2>1
  <2>3. CrashNeedsRetry'
    BY <1>1, <2>1 DEF StartInv, CrashNeedsRetry
  <2>4. CASE t = "start"
    <3>1. phase = "starting" /\ ~ retried /\ ~ watching /\ pc["retry"] = "idle" /\ pc["notice"] = "idle"
      BY <1>1, <2>4 DEF StartInv
    <3>2. pc'["start"] = p /\ pc'["retry"] = "idle" /\ pc'["notice"] = "idle"
      BY <2>2, <2>4, <3>1 DEF Threads
    <3>3. p = "got" => retries' = 0
      BY <1>1, <2>1, <2>4 DEF StartInv
    <3> QED BY <1>1, <2>1, <2>3, <3>1, <3>2, <3>3 DEF StartInv
  <2>5. CASE t = "notice"
    <3>1. watching /\ pc["start"] = "idle"
      BY <1>1, <2>5 DEF StartInv
    <3>2. pc'["start"] = "idle" /\ pc'["retry"] = pc["retry"] /\ pc'["notice"] = p
      BY <2>2, <2>5, <3>1 DEF Threads
    <3> QED BY <1>1, <2>1, <2>3, <3>1, <3>2 DEF StartInv
  <2>6. CASE t = "retry"
    <3>1. retried /\ pc["start"] = "idle"
      BY <1>1, <2>6 DEF StartInv
    <3>2. pc'["start"] = "idle" /\ pc'["retry"] = p /\ pc'["notice"] = pc["notice"]
      BY <2>2, <2>6, <3>1 DEF Threads
    <3> QED BY <1>1, <2>1, <2>3, <3>1, <3>2 DEF StartInv
  <2> QED BY <2>4, <2>5, <2>6 DEF Threads
<1> QED BY <1>2, <1>3

(* The other steps.                                                         *)
LEMMA StartOthers ==
  ASSUME HdiTypes, StartInv,
         \/ RetryTask \/ OnStart \/ OnStartReady \/ OnStop \/ OnStopUnregister
         \/ OnAddSystemAbility \/ OnRemoveSystemAbility
  PROVE  StartInv'
<1> USE DEF None
<1>0. pc \in [Threads -> {"idle", "call", "got"}] /\ phase \in Phases /\ retries \in Nat
  BY DEF HdiTypes
<1>1. CASE RetryTask
  <2>1. /\ retries > 0 /\ pc' = [pc EXCEPT !["retry"] = "call"] /\ retried' = TRUE
        /\ UNCHANGED <<phase, crashed, mgr, watching, notices>>
    BY <1>1 DEF RetryTask
  <2>2. pc["start"] = "idle" /\ phase # "down"
    BY <1>0, <2>1 DEF StartInv
  <2> QED BY <1>0, <2>1, <2>2 DEF StartInv, CrashNeedsRetry, Threads
<1>2. CASE OnStart
  <2>1. /\ phase = "down" /\ phase' = "starting" /\ pc' = [pc EXCEPT !["start"] = "call"]
        /\ UNCHANGED <<crashed, mgr, retries, watching, notices, retried>>
    BY <1>2 DEF OnStart, world
  <2> QED BY <1>0, <2>1 DEF StartInv, CrashNeedsRetry, Threads
<1>3. CASE OnStartReady
  <2>1. /\ crashed = "no" /\ phase = "starting" /\ phase' = "ready" /\ watching' = TRUE
        /\ pc["start"] = "idle" /\ UNCHANGED <<crashed, pc, mgr, retries, retried>>
    BY <1>3 DEF OnStartReady, Running
  <2>2. pc["notice"] = "idle"
    BY <2>1 DEF StartInv
  <2>3. CrashNeedsRetry'
    BY <2>1 DEF CrashNeedsRetry
  <2> QED BY <2>1, <2>2, <2>3 DEF StartInv
<1>4. CASE OnStop
  <2>1. /\ phase = "ready" /\ phase' \in {"stopping", "stopped"}
        /\ UNCHANGED <<crashed, pc, mgr, retries, watching, notices, retried>>
    BY <1>4 DEF OnStop
  <2> QED BY <1>0, <2>1 DEF StartInv, CrashNeedsRetry, Threads
<1>5. CASE OnStopUnregister
  <2>1. /\ phase = "stopping" /\ phase' \in {"stopping", "stopped"}
        /\ UNCHANGED <<pc, retries, watching, notices, retried>>
    BY <1>5 DEF OnStopUnregister
  <2> QED BY <1>0, <2>1 DEF StartInv, CrashNeedsRetry, Threads
<1>6. CASE OnAddSystemAbility
  <2>1. /\ notices # << >> /\ pc["notice"] = "idle"
        /\ pc' = pc \/ pc' = [pc EXCEPT !["notice"] = "call"]
        /\ UNCHANGED <<phase, crashed, mgr, retries, watching, retried>>
    BY <1>6 DEF OnAddSystemAbility
  <2> QED BY <1>0, <2>1 DEF StartInv, CrashNeedsRetry, Threads
<1>7. CASE OnRemoveSystemAbility
  <2>1. /\ notices # << >> /\ pc["notice"] = "idle"
        /\ UNCHANGED <<phase, crashed, pc, retries, watching, retried>>
    BY <1>7 DEF OnRemoveSystemAbility
  <2> QED BY <1>0, <2>1 DEF StartInv, CrashNeedsRetry, Threads
<1> QED BY <1>1, <1>2, <1>3, <1>4, <1>5, <1>6, <1>7

(* Events, callbacks and crashes of the manager and the host.               *)
LEMMA StartElsewhere ==
  ASSUME HdiTypes, StartInv,
         \/ GetThermalInfo \/ RegisterThermalHdiCallback \/ RegisterFanHdiCallback
         \/ \E l \in DOMAIN listeners : ServiceStarted(l) \/ ServiceStopped(l)
         \/ Environment \/ UNCHANGED vars
  PROVE  StartInv'
<1>1. UNCHANGED <<phase, crashed, pc, mgr, retries, watching, retried>>
  BY DEF GetThermalInfo, RegisterThermalHdiCallback, RegisterFanHdiCallback, ServiceStarted,
         ServiceStopped, Environment, ManagerStops, ManagerStarts, HostStops, HostStarts,
         vars, service, world
<1>2. ~ watching => UNCHANGED notices
  BY DEF GetThermalInfo, RegisterThermalHdiCallback, RegisterFanHdiCallback, ServiceStarted,
         ServiceStopped, Environment, ManagerStops, ManagerStarts, HostStops, HostStarts,
         vars, service, world
<1> QED BY <1>1, <1>2, Zenon DEF StartInv, CrashNeedsRetry

(* The registrations are in this order, always.                             *)
LEMMA AlwaysStarted == Spec => [](HdiTyped /\ StartInv)
<1>1. Init => StartInv
  BY DEF Init, StartInv, CrashNeedsRetry, Threads
<1>2. HdiTyped /\ StartInv /\ [Next]_vars => StartInv'
  BY StartRegistration, StartOthers, StartElsewhere DEF HdiTyped, Next, ServiceStep, Environment
<1> QED BY <1>1, <1>2, AlwaysTyped, PTL DEF Spec

(***************************************************************************)
(* Until OnStop is called, no thread meets a null hdiServiceMgr_ unless a  *)
(* retry task has run, and the thread of OnStart never does, however often *)
(* the manager crashes and however its notices interleave.                 *)
(***************************************************************************)
THEOREM CrashOnlyBesideRetry == Spec => []CrashNeedsRetry
<1>1. StartInv => CrashNeedsRetry
  BY DEF StartInv
<1> QED BY <1>1, AlwaysStarted, PTL

-----------------------------------------------------------------------------
(* Who registers the next listener.                                         *)

Serving == phase \in {"starting", "ready"} /\ crashed = "no" /\ ~ gap

\* A registration is under way or will be retried.
Working == retries > 0 \/ \E t \in Threads : pc[t] # "idle"

\* The service knows that the manager went, or a notice will tell it.
Removed == watching /\ (isRemove \/ Holds(notices, "remove"))

\* While the manager is down, somebody is registering or the removal is known,
\* so that the notice of the next manager starts a registration; with the
\* manager up, its listener is there, or somebody is registering, or that
\* notice is on its way.
ListenerInv ==
    /\ notices # << >> => (Ends(notices, "add") <=> manager.up)
    /\ Serving /\ ~ manager.up => Working \/ Removed
    /\ Serving /\ manager.up => HasLive \/ Working \/ (Removed /\ notices # << >>)

(* A live listener stays one while its manager stays.                       *)
LEMMA LivesOn ==
  ASSUME UNCHANGED manager, DOMAIN listeners \subseteq DOMAIN listeners',
         \A l \in DOMAIN listeners : listeners'[l].inc = listeners[l].inc
  PROVE  /\ \A l \in DOMAIN listeners : Live(l)' <=> Live(l)
         /\ HasLive => HasLive'
BY DEF Live, HasLive

(* A step of a registration leaves work to do, or makes a live listener.    *)
LEMMA ListenerRegistration ==
  ASSUME HdiTypes, StartInv, ListenerInv, NEW t \in Threads,
         GetManager(t) \/ RegisterListener(t) \/ UseNullManager(t)
  PROVE  ListenerInv'
<1>0. pc \in [Threads -> {"idle", "call", "got"}] /\ retries \in Nat /\ t # "no"
  BY DEF HdiTypes, Threads
<1>1. UNCHANGED <<manager, notices>>
  BY DEF GetManager, RegisterListener, UseNullManager, world
<1>2. CASE GetManager(t)
  <2>1. pc' = [pc EXCEPT ![t] = "got"] \/ retries' = retries + 1
    BY <1>2 DEF GetManager
  <2>2. Working'
    BY <1>0, <2>1 DEF Working
  <2> QED BY <1>1, <2>2, Zenon DEF ListenerInv
<1>3. CASE RegisterListener(t)
  <2>1. CASE retries' = retries + 1
    <3>1. Working'
      BY <1>0, <2>1 DEF Working
    <3> QED BY <1>1, <3>1, Zenon DEF ListenerInv
  <2>2. CASE retries' # retries + 1
    <3> DEFINE l == Len(listeners) + 1
    <3>1. /\ manager.up /\ l \in DOMAIN listeners'
          /\ listeners'[l] = [inc |-> manager.inc,
                              events |-> IF host.up THEN <<"start">> ELSE << >>]
      BY <1>3, <2>2, RegisteredListeners, Zenon
    <3> HIDE DEF l
    <3>2. listeners'[l].inc = manager.inc
      BY <3>1
    <3>3. HasLive'
      BY <1>1, <3>1, <3>2 DEF HasLive, Live
    <3> QED BY <1>1, <3>1, <3>3, Zenon DEF ListenerInv
  <2> QED BY <2>1, <2>2
<1>4. CASE UseNullManager(t)
  <2>1. ~ Serving'
    BY <1>0, <1>4 DEF UseNullManager, Serving
  <2> QED BY <1>1, <2>1, Zenon DEF ListenerInv
<1> QED BY <1>2, <1>3, <1>4

(* The life of the service.                                                 *)
LEMMA ListenerLife ==
  ASSUME HdiTypes, StartInv, ListenerInv,
         RetryTask \/ OnStart \/ OnStartReady \/ OnStop \/ OnStopUnregister
  PROVE  ListenerInv'
<1>0. pc \in [Threads -> {"idle", "call", "got"}]
  BY DEF HdiTypes
<1>1. CASE RetryTask \/ OnStart
  <2>1. \/ pc' = [pc EXCEPT !["retry"] = "call"]
        \/ pc' = [pc EXCEPT !["start"] = "call"]
    BY <1>1 DEF RetryTask, OnStart
  <2>2. Working'
    BY <1>0, <2>1 DEF Working, Threads
  <2>3. UNCHANGED <<manager, notices>>
    BY <1>1 DEF RetryTask, OnStart, world
  <2> QED BY <2>2, <2>3, Zenon DEF ListenerInv
<1>2. CASE OnStartReady
  <2>1. /\ UNCHANGED <<manager, listeners, crashed, pc, retries, gap>>
        /\ phase = "starting" /\ phase' = "ready"
        /\ notices' = IF manager.up THEN Append(notices, "add") ELSE notices
    BY <1>2 DEF OnStartReady
  <2>2. notices = << >> /\ ~ watching
    BY <2>1 DEF StartInv
  <2>3. manager.up => Ends(notices', "add")
    <3>1. notices \in Seq(Notices) /\ "add" \in Notices
      BY DEF HdiTypes, Notices
    <3> QED BY <2>1, <3>1, QueueAppend
  <2>4. ~ manager.up => notices' = << >>
    BY <2>1, <2>2
  <2>5. Serving' => Serving
    BY <2>1 DEF Serving
  <2>6. (HasLive => HasLive') /\ (Working => Working')
    BY <2>1 DEF HasLive, Live, Working
  <2>7. ~ Removed
    BY <2>2 DEF Removed
  <2> QED BY <2>1, <2>3, <2>4, <2>5, <2>6, <2>7, Zenon DEF ListenerInv
<1>3. CASE OnStop \/ OnStopUnregister
  <2>1. UNCHANGED <<manager, notices>>
    BY <1>3 DEF OnStop, OnStopUnregister
  <2>2. phase' \in {"stopping", "stopped"}
    BY <1>3 DEF OnStop, OnStopUnregister
  <2>3. ~ Serving'
    BY <2>2 DEF Serving
  <2> QED BY <2>1, <2>3, Zenon DEF ListenerInv
<1> QED BY <1>1, <1>2, <1>3

(* Notices: the removal is remembered until the next manager is announced,  *)
(* which starts a registration.                                             *)
LEMMA ListenerNotices ==
  ASSUME HdiTypes, StartInv, ListenerInv, OnAddSystemAbility \/ OnRemoveSystemAbility
  PROVE  ListenerInv'
<1>1. /\ UNCHANGED <<manager, listeners, watching, retries, phase, crashed, gap>>
      /\ notices # << >> /\ notices' = Tail(notices)
      /\ notices \in Seq(Notices)
  BY DEF OnAddSystemAbility, OnRemoveSystemAbility, HdiTypes
<1>2. watching
  BY <1>1 DEF StartInv
<1>3. /\ \A x : Holds(notices, x) <=> Head(notices) = x \/ Holds(notices', x)
      /\ notices' # << >> => \A x : Ends(notices', x) <=> Ends(notices, x)
      /\ notices' = << >> => \A x : Ends(notices, x) <=> Head(notices) = x
  BY <1>1, QueueTail
<1>4. notices' # << >> => (Ends(notices', "add") <=> manager.up)
  BY <1>1, <1>3, Zenon DEF ListenerInv
<1>5. (Serving' <=> Serving) /\ (HasLive => HasLive')
  BY <1>1 DEF Serving, HasLive, Live
<1>6. CASE OnAddSystemAbility
  <2>1. CASE isRemove
    <3>1. pc' = [pc EXCEPT !["notice"] = "call"] /\ pc \in [Threads -> {"idle", "call", "got"}]
      BY <1>6, <2>1 DEF OnAddSystemAbility, HdiTypes
    <3>2. Working'
      BY <3>1 DEF Working, Threads
    <3> QED BY <1>1, <1>4, <3>2, Zenon DEF ListenerInv
  <2>2. CASE ~ isRemove
    <3>1. UNCHANGED <<pc, isRemove>> /\ Head(notices) = "add"
      BY <1>6, <2>2 DEF OnAddSystemAbility
    <3>2. Working => Working'
      BY <1>1, <3>1 DEF Working
    <3>3. Removed => Holds(notices', "remove") /\ notices' # << >>
      <4>1. Removed => Holds(notices', "remove")
        BY <1>3, <2>2, <3>1 DEF Removed
      <4> QED BY <4>1, QueueEmpty
    <3>4. Holds(notices', "remove") => Removed'
      BY <1>1, <1>2 DEF Removed
    <3> QED BY <1>1, <1>4, <1>5, <3>2, <3>3, <3>4, Zenon DEF ListenerInv
  <2> QED BY <2>1, <2>2
<1>7. CASE OnRemoveSystemAbility
  <2>1. isRemove' = TRUE /\ UNCHANGED pc /\ Head(notices) = "remove"
    BY <1>7 DEF OnRemoveSystemAbility, HdiTypes
  <2>2. Removed'
    BY <1>1, <1>2, <2>1 DEF Removed
  <2>3. manager.up => notices' # << >>
    <3>1. manager.up => Ends(notices, "add")
      BY <1>1 DEF ListenerInv
    <3> QED BY <1>3, <2>1, <3>1
  <2> QED BY <1>1, <1>4, <2>2, <2>3, Zenon DEF ListenerInv
<1> QED BY <1>6, <1>7

(* Events, callbacks and the host leave the listeners registered.           *)
LEMMA ListenerElsewhere ==
  ASSUME HdiTypes, ListenerInv,
         \/ GetThermalInfo \/ RegisterThermalHdiCallback \/ RegisterFanHdiCallback
         \/ \E l \in DOMAIN listeners : ServiceStarted(l) \/ ServiceStopped(l)
         \/ HostStops \/ HostStarts \/ UNCHANGED vars
  PROVE  ListenerInv'
<1>1. UNCHANGED <<manager, watching, notices, isRemove, pc, retries, phase, crashed>>
  BY DEF GetThermalInfo, RegisterThermalHdiCallback, RegisterFanHdiCallback, ServiceStarted,
         ServiceStopped, HostStops, HostStarts, vars, service, world
<1>2. gap => gap'
  BY DEF GetThermalInfo, RegisterThermalHdiCallback, RegisterFanHdiCallback, ServiceStarted,
         ServiceStopped, HostStops, HostStarts, vars, service, world
<1>3. /\ DOMAIN listeners \subseteq DOMAIN listeners'
      /\ \A l \in DOMAIN listeners : listeners'[l].inc = listeners[l].inc
  <2>1. CASE UNCHANGED listeners
    BY <2>1
  <2>2. ASSUME NEW l \in DOMAIN listeners, ServiceStarted(l) \/ ServiceStopped(l)
        PROVE  /\ DOMAIN listeners \subseteq DOMAIN listeners'
               /\ \A m \in DOMAIN listeners : listeners'[m].inc = listeners[m].inc
    <3>1. listeners' = Delivered(l) /\ listeners[l].events # << >>
      BY <2>2 DEF ServiceStarted, ServiceStopped
    <3> QED BY <3>1, DeliveredListeners
  <2>3. CASE HostStops \/ HostStarts
    <3>1. PICK e \in Events : listeners' = Tell(e)
      BY <2>3 DEF HostStops, HostStarts, Events
    <3> QED BY <3>1, ToldListeners
  <2> QED BY <2>1, <2>2, <2>3 DEF GetThermalInfo, RegisterThermalHdiCallback,
             RegisterFanHdiCallback, vars, world
<1>4. HasLive => HasLive'
  BY <1>1, <1>3, LivesOn
<1>5. (Serving' => Serving) /\ (Working => Working') /\ (Removed => Removed')
  BY <1>1, <1>2, Zenon DEF Serving, Working, Removed
<1> QED BY <1>1, <1>4, <1>5, Zenon DEF ListenerInv

(* A crash of the manager is noticed, or hits a window that gap records; a  *)
(* start of the manager is announced.                                       *)
LEMMA ListenerManager ==
  ASSUME HdiTypes, StartInv, ListenerInv, ManagerStops \/ ManagerStarts
  PROVE  ListenerInv'
<1>1. /\ UNCHANGED <<watching, listeners, isRemove, pc, retries, phase, crashed>>
      /\ notices \in Seq(Notices)
  BY DEF ManagerStops, ManagerStarts, service, HdiTypes
<1>2. Working => Working'
  BY <1>1 DEF Working
<1>3. CASE ManagerStops
  <2>1. /\ manager.up /\ ~ manager'.up /\ gap' = (gap \/ (~ watching /\ HasLive))
        /\ notices' = IF watching THEN Append(notices, "remove") ELSE notices
    BY <1>3 DEF ManagerStops, HdiTypes
  <2>2. watching => /\ Holds(notices', "remove") /\ notices' # << >>
                    /\ \A x : Ends(notices', x) <=> x = "remove"
    BY <1>1, <2>1, QueueAppend DEF Notices
  <2>3. ~ watching => notices' = << >> /\ ~ Removed
    BY <2>1 DEF StartInv, Removed
  <2>4. watching => Removed'
    BY <1>1, <2>2 DEF Removed
  <2>5. Serving' => Serving /\ (HasLive => watching)
    BY <1>1, <2>1, Zenon DEF Serving
  <2>6. notices' # << >> => ~ Ends(notices', "add")
    BY <2>2, <2>3
  <2> QED BY <1>2, <2>1, <2>3, <2>4, <2>5, <2>6, Zenon DEF ListenerInv
<1>4. CASE ManagerStarts
  <2>1. /\ ~ manager.up /\ manager'.up /\ UNCHANGED gap
        /\ notices' = IF watching THEN Append(notices, "add") ELSE notices
    BY <1>4 DEF ManagerStarts
  <2>2. watching => /\ notices' # << >> /\ Ends(notices', "add")
                    /\ Holds(notices, "remove") => Holds(notices', "remove")
    BY <1>1, <2>1, QueueAppend DEF Notices
  <2>3. ~ watching => notices' = << >>
    BY <2>1 DEF StartInv
  <2>4. Removed => Removed' /\ notices' # << >>
    BY <1>1, <2>2 DEF Removed
  <2>5. Serving' => Serving
    BY <1>1, <2>1 DEF Serving
  <2> QED BY <1>2, <2>1, <2>2, <2>3, <2>4, <2>5, Zenon DEF ListenerInv
<1> QED BY <1>3, <1>4

(* Somebody is always responsible for the next listener.                    *)
LEMMA AlwaysListening == Spec => []ListenerInv
<1>1. Init => ListenerInv
  BY DEF Init, ListenerInv, Serving
<1>2. HdiTyped /\ StartInv /\ ListenerInv /\ [Next]_vars => ListenerInv'
  BY ListenerRegistration, ListenerLife, ListenerNotices, ListenerElsewhere, ListenerManager
     DEF HdiTyped, Next, ServiceStep, Environment
<1> QED BY <1>1, <1>2, AlwaysStarted, PTL DEF Spec

-----------------------------------------------------------------------------
(* Who registers the missing callbacks.                                     *)

\* A task that will register this callback is waiting.
Outstanding(cb) == tasks.thermal > 0 \/ (cb = "fan" /\ tasks.fan > 0)

\* Events that will bring the callbacks back: a live listener's START; or the
\* STOP of a listener that is not live, which will be recorded as a gap.
Coming ==
    \E l \in DOMAIN listeners : IF Live(l) THEN Holds(listeners[l].events, "start")
                                           ELSE Holds(listeners[l].events, "stop")

StopsPending == \E l \in DOMAIN listeners : Holds(listeners[l].events, "stop")

\* The last event of a live listener tells the state of the host; so a stop
\* that is still to be delivered, and takes the callbacks away, is followed by
\* the start that brings them back.  A stale reference is about to be taken
\* away by a stop, so a task that fails on it is not the last one.
LastEvents ==
    \A l \in DOMAIN listeners :
        Live(l) /\ listeners[l].events # << >> => (Ends(listeners[l].events, "start") <=> host.up)

CallbackInv ==
    /\ LastEvents
    /\ phase = "down" => DOMAIN listeners = {} /\ iface = None
    /\ Serving /\ Stale => StopsPending
    /\ Serving /\ HasLive /\ host.up =>
         \A cb \in Callbacks : cb \in host.callbacks \cup refused \/ Outstanding(cb) \/ Coming

(* With the host up, a stop that is pending somewhere is enough.            *)
LEMMA StopIsFollowed ==
  ASSUME HdiTypes, LastEvents, host.up, StopsPending
  PROVE  Coming
<1>1. PICK l \in DOMAIN listeners : Holds(listeners[l].events, "stop")
  BY DEF StopsPending
<1>2. CASE ~ Live(l)
  BY <1>1, <1>2 DEF Coming
<1>3. CASE Live(l)
  <2>1. listeners[l].events \in Seq(Events) /\ listeners[l].events # << >>
    BY <1>1, ListenerFields, QueueEmpty
  <2>2. Ends(listeners[l].events, "start")
    BY <1>3, <2>1 DEF LastEvents
  <2>3. Holds(listeners[l].events, "start")
    BY <2>1, <2>2, QueueLast
  <2> QED BY <1>3, <2>3 DEF Coming
<1> QED BY <1>2, <1>3

(* Steps that touch neither the host, the listeners nor the tasks.          *)
LEMMA CallbackElsewhere ==
  ASSUME HdiTypes, CallbackInv, UNCHANGED <<manager, host, refused, listeners, tasks, gap>>,
         iface' = iface \/ iface' = None,
         \/ UNCHANGED <<phase, crashed>>
         \/ crashed' # "no" /\ phase' = phase
         \/ phase = "starting" /\ phase' = "ready" /\ crashed' = crashed
         \/ phase = "down" /\ phase' = "starting"
  PROVE  CallbackInv'
<1>1. /\ LastEvents' <=> LastEvents
      /\ HasLive' <=> HasLive
      /\ \A cb : Outstanding(cb)' <=> Outstanding(cb)
      /\ Coming' <=> Coming
      /\ StopsPending' <=> StopsPending
  BY DEF LastEvents, HasLive, Live, Outstanding, Coming, StopsPending
<1>2. Stale' => Stale
  BY DEF Stale, None
<1>3. CASE phase = "down" /\ phase' = "starting"
  <2>1. DOMAIN listeners = {} /\ iface = None
    BY <1>3 DEF CallbackInv
  <2>2. ~ HasLive /\ ~ Stale'
    BY <1>2, <2>1 DEF HasLive, Stale
  <2>3. LastEvents' /\ phase' # "down"
    BY <1>1, <1>3 DEF CallbackInv
  <2> QED BY <1>1, <2>2, <2>3 DEF CallbackInv
<1>4. CASE ~ (phase = "down" /\ phase' = "starting")
  <2>1. Serving' => Serving
    BY <1>4 DEF Serving
  <2>2. phase' = "down" => phase = "down"
    BY <1>4
  <2>3. phase' = "down" => DOMAIN listeners' = {} /\ iface' = None
    BY <2>2 DEF CallbackInv
  <2> QED BY <1>1, <1>2, <2>1, <2>3 DEF CallbackInv
<1> QED BY <1>3, <1>4

(* A new listener is told of the host, so the callbacks are coming.         *)
LEMMA CallbackListener ==
  ASSUME HdiTypes, CallbackInv, NEW t \in Threads, RegisterListener(t)
  PROVE  CallbackInv'
<1>1. UNCHANGED <<manager, host, refused, tasks, gap, iface, phase, crashed>> /\ phase # "down"
  BY DEF RegisterListener, Running
<1>2. CASE UNCHANGED listeners
  BY <1>1, <1>2, CallbackElsewhere
<1>3. CASE ~ UNCHANGED listeners
  <2>0. PICK n : n = Len(listeners) + 1
    OBVIOUS
  <2>1. /\ n \in DOMAIN listeners' /\ DOMAIN listeners' = DOMAIN listeners \cup {n}
        /\ \A m \in DOMAIN listeners : listeners'[m] = listeners[m]
        /\ manager.up
        /\ listeners'[n] = [inc |-> manager.inc, events |-> IF host.up THEN <<"start">> ELSE << >>]
    BY <1>3, <2>0, RegisteredListeners, Zenon
  <2>2. /\ listeners'[n].inc = manager.inc
        /\ host.up => listeners'[n].events = <<"start">>
        /\ ~ host.up => listeners'[n].events = << >>
    BY <2>1
  <2>3. Ends(<<"start">>, "start") /\ Holds(<<"start">>, "start")
    BY DEF Ends, Holds
  <2>4. \A m \in DOMAIN listeners : Live(m)' <=> Live(m)
    BY <1>1, <2>1 DEF Live
  <2>5. Live(n)'
    BY <1>1, <2>1, <2>2 DEF Live
  <2>6. LastEvents'
    <3>1. ASSUME NEW m \in DOMAIN listeners', Live(m)', listeners'[m].events # << >>
          PROVE  Ends(listeners'[m].events, "start") <=> host'.up
      <4>1. CASE m = n
        BY <1>1, <2>2, <2>3, <3>1, <4>1
      <4>2. CASE m \in DOMAIN listeners
        BY <1>1, <2>1, <2>4, <3>1, <4>2 DEF CallbackInv, LastEvents
      <4> QED BY <2>1, <4>1, <4>2
    <3> QED BY <3>1 DEF LastEvents
  <2>7. StopsPending => StopsPending'
    BY <2>1 DEF StopsPending
  <2>8. host.up => Coming'
    BY <2>1, <2>2, <2>3, <2>5 DEF Coming
  <2>9. (Serving' <=> Serving) /\ (Stale' <=> Stale)
    BY <1>1 DEF Serving, Stale
  <2> QED BY <1>1, <2>6, <2>7, <2>8, <2>9 DEF CallbackInv
<1> QED BY <1>2, <1>3

(* A start event becomes a task.                                            *)
LEMMA CallbackStarted ==
  ASSUME HdiTypes, CallbackInv, NEW l \in DOMAIN listeners, ServiceStarted(l)
  PROVE  CallbackInv'
<1>1. /\ UNCHANGED <<manager, host, refused, gap, iface, phase, crashed>> /\ phase # "down"
      /\ listeners' = Delivered(l) /\ listeners[l].events # << >>
      /\ Head(listeners[l].events) = "start"
      /\ listeners[l].events \in Seq(Events)
  BY ListenerFields DEF ServiceStarted, Running
<1>2. /\ DOMAIN listeners' = DOMAIN listeners
      /\ listeners'[l].events = Tail(listeners[l].events)
      /\ \A m \in DOMAIN listeners :
           /\ listeners'[m].inc = listeners[m].inc
           /\ m # l => listeners'[m].events = listeners[m].events
  BY <1>1, DeliveredListeners
<1>3. /\ \A x : Holds(listeners[l].events, x) <=> "start" = x \/ Holds(listeners'[l].events, x)
      /\ listeners'[l].events # << >> =>
           \A x : Ends(listeners'[l].events, x) <=> Ends(listeners[l].events, x)
  BY <1>1, <1>2, QueueTail
<1>4. \A m \in DOMAIN listeners : Live(m)' <=> Live(m)
  BY <1>1, <1>2, LivesOn
<1>5. LastEvents'
  BY <1>1, <1>2, <1>3, <1>4 DEF CallbackInv, LastEvents
<1>6. StopsPending => StopsPending'
  BY <1>2, <1>3 DEF StopsPending
<1>7. \A cb : Outstanding(cb)'
  BY DEF ServiceStarted, Outstanding, HdiTypes
<1>8. (Serving' <=> Serving) /\ (Stale' <=> Stale)
  BY <1>1 DEF Serving, Stale
<1> QED BY <1>1, <1>5, <1>6, <1>7, <1>8 DEF CallbackInv

(* A stop event of a live listener is followed by a start, if the host is   *)
(* up again; one of another listener is a gap.                              *)
LEMMA CallbackStopped ==
  ASSUME HdiTypes, CallbackInv, NEW l \in DOMAIN listeners, ServiceStopped(l)
  PROVE  CallbackInv'
<1>1. /\ UNCHANGED <<manager, phase, crashed, tasks>> /\ phase # "down"
      /\ listeners' = Delivered(l) /\ listeners[l].events # << >>
      /\ Head(listeners[l].events) = "stop"
      /\ listeners[l].events \in Seq(Events)
      /\ host' = Unregistered /\ iface' = None
      /\ ~ Live(l) => gap'
  BY ListenerFields DEF ServiceStopped, Running
<1>2. /\ DOMAIN listeners' = DOMAIN listeners
      /\ listeners'[l].events = Tail(listeners[l].events)
      /\ \A m \in DOMAIN listeners :
           /\ listeners'[m].inc = listeners[m].inc
           /\ m # l => listeners'[m].events = listeners[m].events
  BY <1>1, DeliveredListeners
<1>3. /\ listeners'[l].events \in Seq(Events)
      /\ listeners'[l].events # << >> =>
           \A x : Ends(listeners'[l].events, x) <=> Ends(listeners[l].events, x)
      /\ listeners'[l].events = << >> => ~ Ends(listeners[l].events, "start")
  BY <1>1, <1>2, QueueTail
<1>4. \A m \in DOMAIN listeners : Live(m)' <=> Live(m)
  BY <1>1, <1>2, LivesOn
<1>5. host'.up = host.up
  BY <1>1, HostCalls
<1>6. LastEvents'
  BY <1>1, <1>2, <1>3, <1>4, <1>5 DEF CallbackInv, LastEvents
<1>7. ~ Stale'
  BY <1>1 DEF Stale
<1>8. ASSUME Live(l), host.up PROVE Coming'
  <2>1. Ends(listeners[l].events, "start")
    BY <1>1, <1>8 DEF CallbackInv, LastEvents
  <2>2. listeners'[l].events # << >> /\ Ends(listeners'[l].events, "start")
    BY <1>3, <2>1
  <2>3. Holds(listeners'[l].events, "start")
    BY <1>3, <2>2, QueueLast
  <2> QED BY <1>2, <1>4, <1>8, <2>3 DEF Coming
<1>9. Serving' => Live(l)
  BY <1>1 DEF Serving
<1> QED BY <1>1, <1>5, <1>6, <1>7, <1>8, <1>9 DEF CallbackInv

(* A task registers its callback, unless the reference is stale: then the   *)
(* stop that takes the reference away is still to come.                     *)
LEMMA CallbackTask ==
  ASSUME HdiTypes, Incarnations, CallbackInv,
         RegisterThermalHdiCallback \/ RegisterFanHdiCallback \/ GetThermalInfo
  PROVE  CallbackInv'
<1>1. UNCHANGED <<manager, listeners, gap, phase, crashed>> /\ phase # "down"
  BY DEF RegisterThermalHdiCallback, RegisterFanHdiCallback, GetThermalInfo, Running, world
<1>2. ASSUME host'.up = host.up, host'.inc = host.inc, Stale' => Stale,
             host.callbacks \cup refused \subseteq host'.callbacks \cup refused',
             \A cb \in Callbacks : Outstanding(cb) /\ manager.up /\ host.up /\ ~ Stale =>
                                     cb \in host'.callbacks \cup refused' \/ Outstanding(cb)'
      PROVE  CallbackInv'
  <2>1. /\ LastEvents' <=> LastEvents
        /\ HasLive' <=> HasLive
        /\ Coming' <=> Coming
        /\ StopsPending' <=> StopsPending
        /\ Serving' <=> Serving
    BY <1>1, <1>2 DEF LastEvents, HasLive, Live, Coming, StopsPending, Serving
  <2>2. HasLive => manager.up
    BY DEF HasLive, Live
  <2>3. Serving /\ Stale /\ host.up => Coming
    BY StopIsFollowed DEF CallbackInv
  <2> QED BY <1>1, <1>2, <2>1, <2>2, <2>3 DEF CallbackInv
<1>3. CASE GetThermalInfo
  <2>1. iface' = GetThermalInterfaceInner /\ UNCHANGED <<host, refused, tasks>>
    BY <1>3 DEF GetThermalInfo, world
  <2>2. Stale' => Stale
    BY <2>1, ReferenceUsed
  <2>3. \A cb : Outstanding(cb)' <=> Outstanding(cb)
    BY <2>1 DEF Outstanding
  <2> QED BY <1>2, <2>1, <2>2, <2>3
<1>4. CASE RegisterThermalHdiCallback
  <2>1. /\ RegisterCallback("thermal")
        /\ tasks' = [thermal |-> tasks.thermal - 1, fan |-> tasks.fan + 1]
        /\ tasks.fan \in Nat
    BY <1>4 DEF RegisterThermalHdiCallback, HdiTypes
  <2>2. "thermal" \in Callbacks /\ Callbacks \subseteq {"thermal", "fan"}
    BY DEF Callbacks
  <2>3. /\ host'.up = host.up /\ host'.inc = host.inc /\ (Stale' => Stale)
        /\ host.callbacks \cup refused \subseteq host'.callbacks \cup refused'
        /\ manager.up /\ host.up /\ ~ Stale => "thermal" \in host'.callbacks \cup refused'
    BY <2>1, <2>2, CallbackRegistered
  <2>4. Outstanding("fan")'
    BY <2>1 DEF Outstanding
  <2> QED BY <1>2, <2>2, <2>3, <2>4
<1>5. CASE RegisterFanHdiCallback
  <2>1. UNCHANGED tasks.thermal /\ (Outstanding("thermal") => Outstanding("thermal")')
    BY <1>5 DEF RegisterFanHdiCallback, HdiTypes, Outstanding
  <2>2. CASE HasFanConfig
    <3>1. RegisterCallback("fan")
      BY <1>5, <2>2 DEF RegisterFanHdiCallback
    <3>2. "fan" \in Callbacks /\ Callbacks \subseteq {"thermal", "fan"}
      BY <2>2 DEF Callbacks
    <3>3. /\ host'.up = host.up /\ host'.inc = host.inc /\ (Stale' => Stale)
          /\ host.callbacks \cup refused \subseteq host'.callbacks \cup refused'
          /\ manager.up /\ host.up /\ ~ Stale => "fan" \in host'.callbacks \cup refused'
      BY <3>1, <3>2, CallbackRegistered
    <3> QED BY <1>2, <2>1, <3>2, <3>3
  <2>3. CASE ~ HasFanConfig
    <3>1. UNCHANGED <<iface, host, refused>> /\ Callbacks = {"thermal"}
      BY <1>5, <2>3 DEF RegisterFanHdiCallback, Callbacks
    <3>2. Stale' <=> Stale
      BY <3>1 DEF Stale
    <3> QED BY <1>2, <2>1, <3>1, <3>2
  <2> QED BY <2>2, <2>3
<1> QED BY <1>3, <1>4, <1>5

(* OnStop, from which on nothing is promised.                               *)
LEMMA CallbackStop ==
  ASSUME HdiTypes, Incarnations, CallbackInv, OnStop \/ OnStopUnregister
  PROVE  CallbackInv'
<1>1. /\ UNCHANGED manager /\ phase' \in {"stopping", "stopped"}
      /\ host' = host \/ host' = Unregistered
      /\ \/ UNCHANGED listeners
         \/ listeners' = [listeners EXCEPT ![latest].inc = None]
  BY DEF OnStop, OnStopUnregister
<1>2. host'.up = host.up
  BY <1>1, HostCalls
<1>3. ~ Serving' /\ phase' # "down"
  BY <1>1 DEF Serving
<1>4. /\ DOMAIN listeners' = DOMAIN listeners
      /\ \A l \in DOMAIN listeners : /\ listeners'[l].events = listeners[l].events
                                     /\ listeners'[l].inc \in {listeners[l].inc, None}
  <2>1. CASE UNCHANGED listeners
    BY <2>1
  <2>2. CASE listeners' = [listeners EXCEPT ![latest].inc = None]
    <3>1. \A l \in DOMAIN listeners : listeners[l] \in Listener
      BY ListenerFields
    <3> QED BY <2>2, <3>1 DEF Listener, HdiTypes
  <2> QED BY <1>1, <2>1, <2>2
<1>5. \A l \in DOMAIN listeners : Live(l)' => Live(l)
  BY <1>1, <1>4 DEF Live, Incarnations
<1>6. LastEvents'
  BY <1>2, <1>4, <1>5 DEF CallbackInv, LastEvents
<1> QED BY <1>3, <1>6 DEF CallbackInv

(* Without its manager, or with a new one, no listener is live.             *)
LEMMA CallbackManager ==
  ASSUME HdiTypes, Incarnations, CallbackInv, ManagerStops \/ ManagerStarts
  PROVE  CallbackInv'
<1>1. UNCHANGED <<listeners, host, refused, iface, tasks, phase, crashed>>
  BY DEF ManagerStops, ManagerStarts, service
<1>0. gap => gap'
  BY Zenon DEF ManagerStops, ManagerStarts
<1>2. \A l \in DOMAIN listeners : ~ Live(l)'
  <2>1. manager.inc \in Nat /\ \A l \in DOMAIN listeners : listeners[l].inc <= manager.inc
    BY DEF HdiTypes, Incarnations
  <2>2. CASE ManagerStops
    BY <2>2 DEF ManagerStops, Live, HdiTypes
  <2>3. CASE ManagerStarts
    <3>1. manager'.inc = manager.inc + 1
      BY <2>3 DEF ManagerStarts
    <3>2. \A l \in DOMAIN listeners : listeners[l].inc # manager'.inc
      BY <2>1, <3>1
    <3> QED BY <1>1, <3>2 DEF Live
  <2> QED BY <2>2, <2>3
<1>3. LastEvents' /\ ~ HasLive'
  BY <1>1, <1>2 DEF LastEvents, HasLive
<1>4. (Serving' => Serving) /\ (Stale' <=> Stale) /\ (StopsPending' <=> StopsPending)
  BY <1>0, <1>1 DEF Serving, Stale, StopsPending
<1> QED BY <1>1, <1>3, <1>4 DEF CallbackInv

(* The live listeners are told of the host.                                 *)
LEMMA CallbackHost ==
  ASSUME HdiTypes, CallbackInv, HostStops \/ HostStarts
  PROVE  CallbackInv'
<1>0. PICK e \in Events : /\ listeners' = Tell(e)
                          /\ e = "start" => HostStarts
                          /\ e = "stop" => HostStops
  BY DEF HostStops, HostStarts, Events
<1>1. UNCHANGED <<manager, iface, tasks, phase, crashed>>
  BY DEF HostStops, HostStarts, service
<1>2. /\ DOMAIN listeners' = DOMAIN listeners
      /\ \A m \in DOMAIN listeners :
           /\ listeners'[m].inc = listeners[m].inc
           /\ listeners'[m].events = IF Live(m) THEN Append(listeners[m].events, e)
                                                ELSE listeners[m].events
  BY <1>0, ToldListeners
<1>3. \A m \in DOMAIN listeners : listeners[m].events \in Seq(Events)
  BY ListenerFields
<1>4. \A m \in DOMAIN listeners :
        /\ Live(m) => /\ \A x : Ends(listeners'[m].events, x) <=> x = e
                      /\ Holds(listeners'[m].events, e)
        /\ Holds(listeners[m].events, "stop") => Holds(listeners'[m].events, "stop")
  BY <1>2, <1>3, QueueAppend
<1>5. (\A m \in DOMAIN listeners : Live(m)' <=> Live(m)) /\ (HasLive' <=> HasLive)
  BY <1>1, <1>2 DEF Live, HasLive
<1>6. host'.up <=> e = "start"
  <2>1. CASE e = "start"
    BY <1>0, <2>1 DEF HostStarts
  <2>2. CASE e = "stop"
    BY <1>0, <2>2 DEF HostStops, HdiTypes
  <2> QED BY <2>1, <2>2 DEF Events
<1>7. LastEvents'
  BY <1>2, <1>4, <1>5, <1>6 DEF LastEvents
<1>8. StopsPending => StopsPending'
  BY <1>2, <1>4 DEF StopsPending
<1>9. gap => gap'
  BY DEF HostStops, HostStarts
<1>10. Serving' => Serving
  BY <1>1, <1>9 DEF Serving
<1>11. Serving' /\ Stale' => StopsPending'
  <2>1. CASE Stale
    BY <1>8, <1>10, <2>1 DEF CallbackInv
  <2>2. CASE ~ Stale /\ Stale' /\ Serving'
    <3>1. iface # None /\ host.up /\ iface = host.inc
      BY <1>1, <2>2 DEF Stale
    <3>2. HostStops
      BY <3>1 DEF HostStarts
    <3>3. HasLive /\ e = "stop"
      BY <1>0, <2>2, <3>1, <3>2 DEF HostStops, HostStarts, Serving, Events
    <3>4. PICK m \in DOMAIN listeners : Live(m)
      BY <3>3 DEF HasLive
    <3> QED BY <1>2, <1>4, <3>3, <3>4 DEF StopsPending
  <2> QED BY <2>1, <2>2
<1>12. HasLive' /\ host'.up => Coming'
  <2>1. SUFFICES ASSUME HasLive', host'.up PROVE Coming'
    OBVIOUS
  <2>2. PICK m \in DOMAIN listeners : Live(m)
    BY <1>5, <2>1 DEF HasLive
  <2> QED BY <1>2, <1>4, <1>5, <1>6, <2>1, <2>2 DEF Coming
<1>13. phase' = "down" => DOMAIN listeners' = {} /\ iface' = None
  BY <1>1, <1>2 DEF CallbackInv
<1> QED BY <1>7, <1>11, <1>12, <1>13 DEF CallbackInv

(* Every step keeps somebody responsible for each missing callback.         *)
LEMMA CallbackStep == HdiTyped /\ CallbackInv /\ [Next]_vars => CallbackInv'
<1> SUFFICES ASSUME HdiTypes, Incarnations, CallbackInv, [Next]_vars PROVE CallbackInv'
  BY DEF HdiTyped
<1>1. CASE \E t \in Threads : GetManager(t) \/ UseNullManager(t)
  <2>1. UNCHANGED <<manager, host, refused, listeners, tasks, gap, iface, phase>>
    BY <1>1 DEF GetManager, UseNullManager, world
  <2>2. UNCHANGED crashed \/ crashed' # "no"
    BY <1>1 DEF GetManager, UseNullManager, Threads
  <2> QED BY <2>1, <2>2, CallbackElsewhere
<1>2. CASE RetryTask \/ OnAddSystemAbility \/ OnRemoveSystemAbility \/ UNCHANGED vars
  <2>1. UNCHANGED <<manager, host, refused, listeners, tasks, gap, phase, crashed>>
    BY <1>2 DEF RetryTask, OnAddSystemAbility, OnRemoveSystemAbility, vars, service, world
  <2>2. iface' = iface \/ iface' = None
    BY <1>2 DEF RetryTask, OnAddSystemAbility, OnRemoveSystemAbility, vars, service
  <2> QED BY <2>1, <2>2, CallbackElsewhere
<1>3. CASE OnStart \/ OnStartReady
  <2>1. UNCHANGED <<manager, host, refused, listeners, tasks, gap, iface, crashed>>
    BY <1>3 DEF OnStart, OnStartReady, world
  <2>2. \/ phase = "starting" /\ phase' = "ready"
        \/ phase = "down" /\ phase' = "starting"
    BY <1>3 DEF OnStart, OnStartReady
  <2> QED BY <2>1, <2>2, CallbackElsewhere
<1> QED BY <1>1, <1>2, <1>3, CallbackListener, CallbackStarted, CallbackStopped, CallbackTask,
           CallbackStop, CallbackManager, CallbackHost DEF Next, ServiceStep, Environment

(***************************************************************************)
(* Reports come back.  Whenever the service has nothing left to do while   *)
(* the manager is up, a listener is registered with this very manager, and *)
(* if the host is up every callback is registered with this very host, or  *)
(* this very host refused it: whatever crashed before, as often as it did, *)
(* and however the retries, notices, status events and tasks interleaved,  *)
(* unless one of the windows that gap records was hit.                     *)
(***************************************************************************)
THEOREM ReportsAlwaysComeBack == Spec => []ReportsComeBack
<1>1. Init => CallbackInv
  BY DEF Init, CallbackInv, LastEvents, Serving, HasLive, Stale
<1>2. HdiTyped /\ ListenerInv /\ CallbackInv => ReportsComeBack
  <2> SUFFICES ASSUME HdiTypes, ListenerInv, CallbackInv, Quiet, manager.up, ~ gap
               PROVE  HasLive /\ (host.up => Callbacks \subseteq host.callbacks \cup refused)
    BY DEF ReportsComeBack, HdiTyped
  <2>1. Serving /\ ~ Working /\ notices = << >>
    BY DEF Quiet, Serving, Working
  <2>2. HasLive
    BY <2>1 DEF ListenerInv
  <2>3. ~ Coming
    BY QueueEmpty DEF Quiet, Coming
  <2>4. \A cb : ~ Outstanding(cb)
    BY DEF Quiet, Outstanding
  <2>5. host.up => Callbacks \subseteq host.callbacks \cup refused
    BY <2>1, <2>2, <2>3, <2>4 DEF CallbackInv
  <2> QED BY <2>2, <2>5
<1> QED BY <1>1, <1>2, CallbackStep, AlwaysTyped, AlwaysListening, PTL DEF Spec
=============================================================================
