--------------------------- MODULE ThermalClient ---------------------------
(***************************************************************************)
(* ThermalMgrClient (frameworks/native/thermal_mgr_client.cpp): threads of *)
(* one process share a proxy of the thermal service, which may die and     *)
(* come back.  Connect and ResetProxy hold mutex_; a call uses thermalSrv_ *)
(* after Connect has let go of it.                                         *)
(*                                                                         *)
(* The system ability manager, the death notices and the service itself    *)
(* are external: the service keeps the callbacks that were subscribed      *)
(* with this incarnation of it.                                            *)
(***************************************************************************)
EXTENDS Naturals, FiniteSets

CONSTANTS Threads,
          MaxService,   \* bound on the incarnations of the service
          MaxCallbacks  \* bound on the subscriptions of the listener

None == 0
Nobody == "nobody"
Operations == {"subscribe", "unsubscribe", "sensor", "other"}

ASSUME ClientAssumption ==
    MaxService \in Nat /\ MaxCallbacks \in Nat /\ Nobody \notin Threads

VARIABLES
    up, inc,     \* the service: whether it runs, and its incarnation
    subscribers, \* the callbacks it keeps
    thermalSrv,  \* the incarnation the proxy refers to
    mutex,       \* the thread in Connect, or Nobody
    remote,      \* per thread: remoteObject_ of Connect
    pc,          \* per thread
    op,          \* per thread: the operation it is in
    seen,        \* per thread: the incarnation Connect left it with
    result,      \* per thread: how its last call ended
    recipients,  \* the incarnations with a death recipient of the client
    deaths,      \* death notices not yet delivered
    callback     \* callback_ of ThermalMgrListener: how many were made

service == <<up, inc, subscribers>>
vars == <<service, thermalSrv, mutex, remote, pc, op, seen, result, recipients, deaths, callback>>

Alive(i) == up /\ inc = i

\* A null pointer ends the process; that the other threads may go on here only
\* adds behaviours.  The macros return FALSE before anything else when Connect fails.
Ends(t, how) ==
    /\ pc' = [pc EXCEPT ![t] = IF how = "crash" THEN "crashed" ELSE "idle"]
    /\ result' = [result EXCEPT ![t] = how]

-----------------------------------------------------------------------------
(* An operation of a thread: Connect, then the call.                        *)

\* RegisterServiceEvent makes a callback of its own for every subscription;
\* UnSubscribeLevelEvent needs one.
Begin(t, o) ==
    /\ pc[t] = "idle"
    /\ o = "subscribe" => callback < MaxCallbacks
    /\ o = "unsubscribe" => callback # None
    /\ op' = [op EXCEPT ![t] = o]
    /\ pc' = [pc EXCEPT ![t] = "connect"]
    /\ result' = [result EXCEPT ![t] = "none"]
    /\ callback' = IF o = "subscribe" THEN callback + 1 ELSE callback
    /\ UNCHANGED <<service, thermalSrv, mutex, remote, seen, recipients, deaths>>

\* Mutant: Connect does not wait for a thread that is connecting.
ConnectTryLock(t) ==
    /\ pc[t] = "connect"
    /\ IF thermalSrv # None \/ mutex # Nobody
       THEN /\ pc' = [pc EXCEPT ![t] = "call"] /\ seen' = [seen EXCEPT ![t] = inc]
            /\ UNCHANGED <<mutex, remote, result>>
       ELSE IF up
       THEN /\ mutex' = t
            /\ remote' = [remote EXCEPT ![t] = inc]
            /\ pc' = [pc EXCEPT ![t] = "recipient"] /\ UNCHANGED <<seen, result>>
       ELSE Ends(t, "unconnected") /\ UNCHANGED <<mutex, remote, seen>>
    /\ UNCHANGED <<service, thermalSrv, op, recipients, deaths, callback>>

\* Up to CheckSystemAbility.
Connect(t) ==
    /\ pc[t] = "connect" /\ mutex = Nobody
    /\ IF thermalSrv # None
       THEN /\ pc' = [pc EXCEPT ![t] = "call"] /\ seen' = [seen EXCEPT ![t] = thermalSrv]
            /\ UNCHANGED <<mutex, remote, result>>
       ELSE IF up
       THEN /\ mutex' = t
            /\ remote' = [remote EXCEPT ![t] = inc]
            /\ pc' = [pc EXCEPT ![t] = "recipient"] /\ UNCHANGED <<seen, result>>
       ELSE Ends(t, "unconnected") /\ UNCHANGED <<mutex, remote, seen>>
    /\ UNCHANGED <<service, thermalSrv, op, recipients, deaths, callback>>

\* AddDeathRecipient fails when the remote object has died since.
AddDeathRecipient(t) ==
    /\ pc[t] = "recipient"
    /\ IF Alive(remote[t])
       THEN /\ recipients' = recipients \cup {remote[t]}
            /\ pc' = [pc EXCEPT ![t] = "store"] /\ UNCHANGED <<mutex, result>>
       ELSE /\ Ends(t, "unconnected") /\ mutex' = Nobody /\ UNCHANGED recipients
    /\ UNCHANGED <<service, thermalSrv, remote, op, seen, deaths, callback>>

StoreProxy(t) ==
    /\ pc[t] = "store"
    /\ thermalSrv' = remote[t]
    /\ seen' = [seen EXCEPT ![t] = remote[t]]
    /\ mutex' = Nobody
    /\ pc' = [pc EXCEPT ![t] = "call"]
    /\ UNCHANGED <<service, remote, op, result, recipients, deaths, callback>>

\* The call through thermalSrv_, which may be null by now.  Only
\* GetThermalSrvSensorInfo looks before it uses it.  Subscribing returns true
\* whatever the service answers; the other operations report the failure.
Call(t) ==
    /\ pc[t] = "call"
    /\ IF thermalSrv = None
       THEN /\ Ends(t, IF op[t] = "sensor" THEN "noproxy" ELSE "crash") /\ UNCHANGED subscribers
       ELSE /\ Ends(t, IF Alive(thermalSrv) THEN "done" ELSE "failed")
            /\ subscribers' = IF ~ Alive(thermalSrv) THEN subscribers
                              ELSE CASE op[t] = "subscribe" -> subscribers \cup {callback}
                                     [] op[t] = "unsubscribe" -> subscribers \ {callback}
                                     [] OTHER -> subscribers
    /\ UNCHANGED <<up, inc, thermalSrv, mutex, remote, op, seen, recipients, deaths, callback>>

-----------------------------------------------------------------------------
(* Death of the service.                                                    *)

\* Mutant: ResetProxy waits until no thread is in an operation.
ResetProxyIdle(i) ==
    /\ i \in deaths /\ mutex = Nobody /\ \A t \in Threads : pc[t] = "idle"
    /\ deaths' = deaths \ {i}
    /\ thermalSrv' = None /\ recipients' = recipients \ {i}
    /\ UNCHANGED <<service, mutex, remote, pc, op, seen, result, callback>>

\* Mutant: ResetProxy does not wait for a thread that is connecting.
ResetProxyTryLock(i) ==
    /\ i \in deaths
    /\ deaths' = deaths \ {i}
    /\ IF thermalSrv = i
       THEN thermalSrv' = None /\ recipients' = recipients \ {i}
       ELSE UNCHANGED <<thermalSrv, recipients>>
    /\ UNCHANGED <<service, mutex, remote, pc, op, seen, result, callback>>

ResetProxy(i) ==
    /\ i \in deaths /\ mutex = Nobody
    /\ deaths' = deaths \ {i}
    /\ IF thermalSrv = i
       THEN thermalSrv' = None /\ recipients' = recipients \ {i}
       ELSE UNCHANGED <<thermalSrv, recipients>>
    /\ UNCHANGED <<service, mutex, remote, pc, op, seen, result, callback>>

ServiceDies ==
    /\ up /\ up' = FALSE /\ subscribers' = {}
    /\ deaths' = deaths \cup (recipients \cap {inc})
    /\ UNCHANGED <<inc, thermalSrv, mutex, remote, pc, op, seen, result, recipients, callback>>

ServiceStarts ==
    /\ ~ up /\ inc < MaxService
    /\ up' = TRUE /\ inc' = inc + 1
    /\ UNCHANGED <<subscribers, thermalSrv, mutex, remote, pc, op, seen, result, recipients, deaths,
                   callback>>

-----------------------------------------------------------------------------
Init ==
    /\ up = FALSE /\ inc = 0 /\ subscribers = {}
    /\ thermalSrv = None /\ mutex = Nobody
    /\ remote = [t \in Threads |-> None]
    /\ pc = [t \in Threads |-> "idle"]
    /\ op = [t \in Threads |-> "other"]
    /\ seen = [t \in Threads |-> None]
    /\ result = [t \in Threads |-> "none"]
    /\ recipients = {} /\ deaths = {} /\ callback = 0

Proceed(t) == Connect(t) \/ AddDeathRecipient(t) \/ StoreProxy(t) \/ Call(t)

Next ==
    \/ \E t \in Threads : Proceed(t) \/ \E o \in Operations : Begin(t, o)
    \/ \E i \in deaths : ResetProxy(i)
    \/ ServiceDies \/ ServiceStarts

\* A thread inside an operation goes on, and a death notice is delivered.  With
\* a proxy in place Connect lets go of the mutex at once, so that weak fairness
\* is enough for ResetProxy.
Spec ==
    /\ Init /\ [][Next]_vars
    /\ \A t \in Threads : WF_vars(Proceed(t))
    /\ \A i \in 1 .. MaxService : WF_vars(ResetProxy(i))

-----------------------------------------------------------------------------
(* Properties.                                                              *)

\* Every variable has its type.
TypeOK ==
    /\ callback \in 0 .. MaxCallbacks
    /\ up \in BOOLEAN /\ inc \in 0 .. MaxService /\ subscribers \subseteq 1 .. callback
    /\ thermalSrv \in 0 .. inc
    /\ mutex \in Threads \cup {Nobody}
    /\ remote \in [Threads -> 0 .. inc] /\ seen \in [Threads -> 0 .. inc]
    /\ pc \in [Threads -> {"idle", "connect", "recipient", "store", "call", "crashed"}]
    /\ op \in [Threads -> Operations]
    /\ result \in [Threads -> {"none", "unconnected", "noproxy", "crash", "failed", "done"}]
    /\ recipients \subseteq 1 .. inc /\ deaths \subseteq recipients
    /\ \A t \in Threads : mutex = t <=> pc[t] \in {"recipient", "store"}

\* A proxy of a service that is gone is always about to be reset: its death
\* notice is on the way, also when the service died inside Connect.
DeadProxyIsReset == thermalSrv # None /\ ~ Alive(thermalSrv) => thermalSrv \in deaths

\* A call fails, or meets the null pointer, only when the service it connected
\* to has died: no other thread of the client can take the proxy away.
FailsOnlyByDeath ==
    \A t \in Threads : result[t] \in {"failed", "noproxy", "crash"} =>
        seen[t] < inc \/ ~ up

\* The proxy in the eyes of ServiceHandle: the client refers to a service as
\* soon as its death recipient is added to it.
Reference == IF \E t \in Threads : pc[t] = "store" THEN remote[mutex] ELSE thermalSrv

Handle == INSTANCE ServiceHandle WITH ref <- Reference

\* ThermalMgrClient is a ServiceHandle.
ImplementsHandle == Handle!Spec
=============================================================================
