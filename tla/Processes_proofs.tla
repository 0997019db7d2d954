-------------------------- MODULE Processes_proofs --------------------------
(***************************************************************************)
(* Proofs about the processes beside the service: ThermalClient, for any   *)
(* set of threads and any number of incarnations of the service and of     *)
(* callbacks, and Protector, for any configuration documents, any readings *)
(* and any failing reads and writes.                                       *)
(***************************************************************************)
EXTENDS ThermalClient, Protector, Integers, FiniteSetTheorems, SequenceTheorems,
        WellFoundedInduction, TLAPS

-----------------------------------------------------------------------------
(* The inductive invariant. *)

\* The incarnation i was there and has died.
Gone(i) == i < inc \/ ~ up

\* A reference with its death recipient: when the service is gone, its notice
\* is on the way.
Guarded(i) == i \in recipients /\ (~ Alive(i) => i \in deaths)

\* A thread in Connect has found no proxy.
ConnectInv ==
    \A t \in Threads :
        /\ pc[t] \in {"recipient", "store"} => thermalSrv = None /\ remote[t] # None
        /\ pc[t] = "store" => Guarded(remote[t])

ProxyInv == thermalSrv # None => Guarded(thermalSrv)

\* Notices are only of services that are gone; incarnations are counted from 1.
DeathsInv == (up => inc # None) /\ \A i \in deaths : Gone(i)

\* A thread about to call still has the proxy it connected with, or the
\* service behind it is gone; no result is left over from an earlier call.
CallInv ==
    \A t \in Threads :
        /\ pc[t] = "call" => seen[t] # None /\ (thermalSrv = seen[t] \/ Gone(seen[t]))
        /\ pc[t] \in {"connect", "recipient", "store", "call"} => result[t] = "none"
        /\ op[t] = "subscribe" => callback # None

ClientInv ==
    TypeOK /\ ConnectInv /\ ProxyInv /\ DeathsInv /\ CallInv /\ FailsOnlyByDeath

-----------------------------------------------------------------------------
(* The invariant holds initially. *)
LEMMA ClientInitially == Init => ClientInv
<1> SUFFICES ASSUME Init PROVE ClientInv
  OBVIOUS
<1>1. TypeOK
  <2>1. /\ callback \in 0 .. MaxCallbacks /\ inc \in 0 .. MaxService /\ thermalSrv \in 0 .. inc
    BY ClientAssumption DEF Init, None
  <2>2. remote \in [Threads -> 0 .. inc] /\ seen \in [Threads -> 0 .. inc]
    BY DEF Init, None
  <2>3. \A t \in Threads : mutex = t <=> pc[t] \in {"recipient", "store"}
    BY ClientAssumption DEF Init
  <2>4. subscribers = {} /\ recipients = {} /\ deaths = {} /\ up = FALSE /\ mutex = Nobody
    BY DEF Init
  <2> QED BY <2>1, <2>2, <2>3, <2>4 DEF Init, TypeOK, Operations
<1>2. ConnectInv /\ ProxyInv /\ DeathsInv /\ CallInv /\ FailsOnlyByDeath
  BY DEF Init, ConnectInv, ProxyInv, DeathsInv, CallInv, FailsOnlyByDeath
<1> QED BY <1>1, <1>2 DEF ClientInv

(* Every step keeps it. *)
LEMMA ClientStep == ClientInv /\ [Next]_vars => ClientInv'
<1> SUFFICES ASSUME ClientInv, [Next]_vars PROVE ClientInv'
  OBVIOUS
<1> USE ClientAssumption
<1>0. /\ TypeOK /\ ConnectInv /\ ProxyInv /\ DeathsInv /\ CallInv /\ FailsOnlyByDeath
  BY DEF ClientInv
<1>1. ASSUME NEW t \in Threads, NEW o \in Operations, Begin(t, o) PROVE ClientInv'
  <2>1. TypeOK'
    BY <1>0, <1>1 DEF Begin, TypeOK, ConnectInv, Operations, None, Nobody, Alive,
       service
  <2>2. ConnectInv'
    BY <1>0, <1>1 DEF Begin, TypeOK, ConnectInv, Guarded, Alive, None, Nobody,
       DeathsInv, Gone, service
  <2>3. ProxyInv'
    BY <1>0, <1>1 DEF Begin, TypeOK, ConnectInv, ProxyInv, Guarded, Alive, None,
       Nobody, DeathsInv, Gone, service
  <2>4. DeathsInv'
    BY <1>0, <1>1 DEF Begin, TypeOK, DeathsInv, Gone, None, service
  <2>5. CallInv'
    BY <1>0, <1>1 DEF Begin, TypeOK, ConnectInv, DeathsInv, CallInv, Gone, Alive,
       None, Nobody, service
  <2>6. FailsOnlyByDeath'
    BY <1>0, <1>1 DEF Begin, TypeOK, CallInv, FailsOnlyByDeath, Gone, Alive, None,
       service
  <2> QED BY <2>1, <2>2, <2>3, <2>4, <2>5, <2>6 DEF ClientInv
<1>2. ASSUME NEW t \in Threads, Connect(t) PROVE ClientInv'
  <2>1. CASE thermalSrv # None
    <3>0. /\ pc[t] = "connect" /\ mutex = Nobody
          /\ pc' = [pc EXCEPT ![t] = "call"] /\ seen' = [seen EXCEPT ![t] = thermalSrv]
          /\ UNCHANGED <<service, thermalSrv, mutex, remote, op, result, recipients, deaths, callback>>
      BY <1>2, <2>1 DEF Connect, Ends
    <3>1. TypeOK'
      BY <1>0, <2>1, <3>0 DEF TypeOK, ConnectInv, Operations, None, Nobody, Alive,
         service
    <3>2. ConnectInv'
      BY <1>0, <2>1, <3>0 DEF TypeOK, ConnectInv, Guarded, Alive, None, Nobody,
         DeathsInv, Gone, service
    <3>3. ProxyInv'
      BY <1>0, <2>1, <3>0 DEF TypeOK, ConnectInv, ProxyInv, Guarded, Alive, None,
         Nobody, DeathsInv, Gone, service
    <3>4. DeathsInv'
      BY <1>0, <2>1, <3>0 DEF TypeOK, DeathsInv, Gone, None, service
    <3>5. CallInv'
      BY <1>0, <2>1, <3>0 DEF TypeOK, ConnectInv, DeathsInv, CallInv, Gone, Alive,
         None, Nobody, service
    <3>6. FailsOnlyByDeath'
      BY <1>0, <2>1, <3>0 DEF TypeOK, CallInv, FailsOnlyByDeath, Gone, Alive, None,
         service
    <3> QED BY <3>1, <3>2, <3>3, <3>4, <3>5, <3>6 DEF ClientInv
  <2>2. CASE thermalSrv = None /\ up
    <3>0. /\ pc[t] = "connect" /\ mutex = Nobody
          /\ pc' = [pc EXCEPT ![t] = "recipient"] /\ mutex' = t
          /\ remote' = [remote EXCEPT ![t] = inc]
          /\ UNCHANGED <<service, thermalSrv, op, seen, result, recipients, deaths, callback>>
      BY <1>2, <2>2 DEF Connect, Ends
    <3>1. TypeOK'
      BY <1>0, <2>2, <3>0 DEF TypeOK, ConnectInv, Operations, None, Nobody, Alive,
         service
    <3>2. ConnectInv'
      BY <1>0, <2>2, <3>0 DEF TypeOK, ConnectInv, Guarded, Alive, None, Nobody,
         DeathsInv, Gone, service
    <3>3. ProxyInv'
      BY <1>0, <2>2, <3>0 DEF TypeOK, ConnectInv, ProxyInv, Guarded, Alive, None,
         Nobody, DeathsInv, Gone, service
    <3>4. DeathsInv'
      BY <1>0, <2>2, <3>0 DEF TypeOK, DeathsInv, Gone, None, service
    <3>5. CallInv'
      BY <1>0, <2>2, <3>0 DEF TypeOK, ConnectInv, DeathsInv, CallInv, Gone, Alive,
         None, Nobody, service
    <3>6. FailsOnlyByDeath'
      BY <1>0, <2>2, <3>0 DEF TypeOK, CallInv, FailsOnlyByDeath, Gone, Alive, None,
         service
    <3> QED BY <3>1, <3>2, <3>3, <3>4, <3>5, <3>6 DEF ClientInv
  <2>3. CASE thermalSrv = None /\ ~ up
    <3>0. /\ pc[t] = "connect" /\ mutex = Nobody
          /\ pc' = [pc EXCEPT ![t] = "idle"] /\ result' = [result EXCEPT ![t] = "unconnected"]
          /\ UNCHANGED <<service, thermalSrv, mutex, remote, op, seen, recipients, deaths, callback>>
      BY <1>2, <2>3 DEF Connect, Ends
    <3>1. TypeOK'
      BY <1>0, <2>3, <3>0 DEF TypeOK, ConnectInv, Operations, None, Nobody, Alive,
         service
    <3>2. ConnectInv'
      BY <1>0, <2>3, <3>0 DEF TypeOK, ConnectInv, Guarded, Alive, None, Nobody,
         DeathsInv, Gone, service
    <3>3. ProxyInv'
      BY <1>0, <2>3, <3>0 DEF TypeOK, ConnectInv, ProxyInv, Guarded, Alive, None,
         Nobody, DeathsInv, Gone, service
    <3>4. DeathsInv'
      BY <1>0, <2>3, <3>0 DEF TypeOK, DeathsInv, Gone, None, service
    <3>5. CallInv'
      BY <1>0, <2>3, <3>0 DEF TypeOK, ConnectInv, DeathsInv, CallInv, Gone, Alive,
         None, Nobody, service
    <3>6. FailsOnlyByDeath'
      BY <1>0, <2>3, <3>0 DEF TypeOK, CallInv, FailsOnlyByDeath, Gone, Alive, None,
         service
    <3> QED BY <3>1, <3>2, <3>3, <3>4, <3>5, <3>6 DEF ClientInv
  <2> QED BY <2>1, <2>2, <2>3
<1>3. ASSUME NEW t \in Threads, AddDeathRecipient(t) PROVE ClientInv'
  <2>1. CASE Alive(remote[t])
    <3>0. /\ pc[t] = "recipient"
          /\ pc' = [pc EXCEPT ![t] = "store"] /\ recipients' = recipients \cup {remote[t]}
          /\ UNCHANGED <<service, thermalSrv, mutex, remote, op, seen, result, deaths, callback>>
      BY <1>3, <2>1 DEF AddDeathRecipient, Ends
    <3>1. TypeOK'
      <4>1. remote[t] \in 1 .. inc
        BY <1>0, <3>0 DEF TypeOK, ConnectInv, None
      <4> QED BY <1>0, <3>0, <4>1 DEF TypeOK, service
    <3>2. ConnectInv'
      BY <1>0, <2>1, <3>0 DEF TypeOK, ConnectInv, Guarded, Alive, None, Nobody,
         DeathsInv, Gone, service
    <3>3. ProxyInv'
      BY <1>0, <2>1, <3>0 DEF TypeOK, ConnectInv, ProxyInv, Guarded, Alive, None,
         Nobody, DeathsInv, Gone, service
    <3>4. DeathsInv'
      BY <1>0, <2>1, <3>0 DEF TypeOK, DeathsInv, Gone, None, service
    <3>5. CallInv'
      BY <1>0, <2>1, <3>0 DEF TypeOK, ConnectInv, DeathsInv, CallInv, Gone, Alive,
         None, Nobody, service
    <3>6. FailsOnlyByDeath'
      BY <1>0, <2>1, <3>0 DEF TypeOK, CallInv, FailsOnlyByDeath, Gone, Alive, None,
         service
    <3> QED BY <3>1, <3>2, <3>3, <3>4, <3>5, <3>6 DEF ClientInv
  <2>2. CASE ~ Alive(remote[t])
    <3>0. /\ pc[t] = "recipient"
          /\ pc' = [pc EXCEPT ![t] = "idle"] /\ result' = [result EXCEPT ![t] = "unconnected"]
          /\ mutex' = Nobody
          /\ UNCHANGED <<service, thermalSrv, remote, op, seen, recipients, deaths, callback>>
      BY <1>3, <2>2 DEF AddDeathRecipient, Ends
    <3>1. TypeOK'
      BY <1>0, <2>2, <3>0 DEF TypeOK, ConnectInv, Operations, None, Nobody, Alive,
         service
    <3>2. ConnectInv'
      BY <1>0, <2>2, <3>0 DEF TypeOK, ConnectInv, Guarded, Alive, None, Nobody,
         DeathsInv, Gone, service
    <3>3. ProxyInv'
      BY <1>0, <2>2, <3>0 DEF TypeOK, ConnectInv, ProxyInv, Guarded, Alive, None,
         Nobody, DeathsInv, Gone, service
    <3>4. DeathsInv'
      BY <1>0, <2>2, <3>0 DEF TypeOK, DeathsInv, Gone, None, service
    <3>5. CallInv'
      BY <1>0, <2>2, <3>0 DEF TypeOK, ConnectInv, DeathsInv, CallInv, Gone, Alive,
         None, Nobody, service
    <3>6. FailsOnlyByDeath'
      BY <1>0, <2>2, <3>0 DEF TypeOK, CallInv, FailsOnlyByDeath, Gone, Alive, None,
         service
    <3> QED BY <3>1, <3>2, <3>3, <3>4, <3>5, <3>6 DEF ClientInv
  <2> QED BY <2>1, <2>2
<1>4. ASSUME NEW t \in Threads, StoreProxy(t) PROVE ClientInv'
  <2>1. TypeOK'
    BY <1>0, <1>4 DEF StoreProxy, TypeOK, ConnectInv, Operations, None, Nobody,
       Alive, service
  <2>2. ConnectInv'
    BY <1>0, <1>4 DEF StoreProxy, TypeOK, ConnectInv, Guarded, Alive, None, Nobody,
       DeathsInv, Gone, service
  <2>3. ProxyInv'
    BY <1>0, <1>4 DEF StoreProxy, TypeOK, ConnectInv, ProxyInv, Guarded, Alive,
       None, Nobody, DeathsInv, Gone, service
  <2>4. DeathsInv'
    BY <1>0, <1>4 DEF StoreProxy, TypeOK, DeathsInv, Gone, None, service
  <2>5. CallInv'
    BY <1>0, <1>4 DEF StoreProxy, TypeOK, ConnectInv, DeathsInv, CallInv, Gone,
       Alive, None, Nobody, service
  <2>6. FailsOnlyByDeath'
    BY <1>0, <1>4 DEF StoreProxy, TypeOK, CallInv, FailsOnlyByDeath, Gone, Alive,
       None, service
  <2> QED BY <2>1, <2>2, <2>3, <2>4, <2>5, <2>6 DEF ClientInv
<1>5. ASSUME NEW t \in Threads, Call(t) PROVE ClientInv'
  <2>1. /\ pc[t] = "call"
        /\ pc' \in {[pc EXCEPT ![t] = "idle"], [pc EXCEPT ![t] = "crashed"]}
        /\ UNCHANGED <<up, inc, thermalSrv, mutex, remote, op, seen, recipients, deaths, callback>>
    BY <1>5, Zenon DEF Call, Ends
  <2>2. PICK how \in {"noproxy", "crash", "failed", "done"} :
           /\ result' = [result EXCEPT ![t] = how]
           /\ how # "done" => thermalSrv = None \/ ~ Alive(thermalSrv)
    BY <1>5 DEF Call, Ends
  <2>3. subscribers' \subseteq 1 .. callback
    BY <1>0, <1>5 DEF Call, CallInv, TypeOK, None
  <2>4. TypeOK'
    BY <1>0, <2>1, <2>2, <2>3 DEF TypeOK, ConnectInv, Operations, None, Nobody,
       Alive, service
  <2>5. ConnectInv'
    BY <1>0, <2>1, <2>2, <2>3 DEF TypeOK, ConnectInv, Guarded, Alive, None, Nobody,
       DeathsInv, Gone, service
  <2>6. ProxyInv'
    BY <1>0, <2>1, <2>2, <2>3 DEF TypeOK, ConnectInv, ProxyInv, Guarded, Alive,
       None, Nobody, DeathsInv, Gone, service
  <2>7. DeathsInv'
    BY <1>0, <2>1, <2>2, <2>3 DEF TypeOK, DeathsInv, Gone, None, service
  <2>8. CallInv'
    BY <1>0, <2>1, <2>2, <2>3 DEF TypeOK, ConnectInv, DeathsInv, CallInv, Gone,
       Alive, None, Nobody, service
  <2>9. FailsOnlyByDeath'
    BY <1>0, <2>1, <2>2, <2>3 DEF TypeOK, CallInv, FailsOnlyByDeath, Gone, Alive,
       None, service
  <2> QED BY <2>4, <2>5, <2>6, <2>7, <2>8, <2>9 DEF ClientInv
<1>6. ASSUME NEW i \in deaths, ResetProxy(i) PROVE ClientInv'
  <2>1. CASE thermalSrv = i
    <3>0. /\ mutex = Nobody
          /\ deaths' = deaths \ {i} /\ thermalSrv' = None /\ recipients' = recipients \ {i}
          /\ UNCHANGED <<service, mutex, remote, pc, op, seen, result, callback>>
      BY <1>6, <2>1 DEF ResetProxy
    <3>1. TypeOK'
      BY <1>0, <2>1, <3>0 DEF TypeOK, ConnectInv, Operations, None, Nobody, Alive,
         service
    <3>2. ConnectInv'
      BY <1>0, <2>1, <3>0 DEF TypeOK, ConnectInv, Guarded, Alive, None, Nobody,
         DeathsInv, Gone, service
    <3>3. ProxyInv'
      BY <1>0, <2>1, <3>0 DEF TypeOK, ConnectInv, ProxyInv, Guarded, Alive, None,
         Nobody, DeathsInv, Gone, service
    <3>4. DeathsInv'
      BY <1>0, <2>1, <3>0 DEF TypeOK, DeathsInv, Gone, None, service
    <3>5. CallInv'
      BY <1>0, <2>1, <3>0 DEF TypeOK, ConnectInv, DeathsInv, CallInv, Gone, Alive,
         None, Nobody, service
    <3>6. FailsOnlyByDeath'
      BY <1>0, <2>1, <3>0 DEF TypeOK, CallInv, FailsOnlyByDeath, Gone, Alive, None,
         service
    <3> QED BY <3>1, <3>2, <3>3, <3>4, <3>5, <3>6 DEF ClientInv
  <2>2. CASE thermalSrv # i
    <3>0. /\ mutex = Nobody /\ deaths' = deaths \ {i}
          /\ UNCHANGED <<service, thermalSrv, mutex, remote, pc, op, seen, result, recipients, callback>>
      BY <1>6, <2>2 DEF ResetProxy
    <3>1. TypeOK'
      BY <1>0, <2>2, <3>0 DEF TypeOK, ConnectInv, Operations, None, Nobody, Alive,
         service
    <3>2. ConnectInv'
      BY <1>0, <2>2, <3>0 DEF TypeOK, ConnectInv, Guarded, Alive, None, Nobody,
         DeathsInv, Gone, service
    <3>3. ProxyInv'
      BY <1>0, <2>2, <3>0 DEF TypeOK, ConnectInv, ProxyInv, Guarded, Alive, None,
         Nobody, DeathsInv, Gone, service
    <3>4. DeathsInv'
      BY <1>0, <2>2, <3>0 DEF TypeOK, DeathsInv, Gone, None, service
    <3>5. CallInv'
      BY <1>0, <2>2, <3>0 DEF TypeOK, ConnectInv, DeathsInv, CallInv, Gone, Alive,
         None, Nobody, service
    <3>6. FailsOnlyByDeath'
      BY <1>0, <2>2, <3>0 DEF TypeOK, CallInv, FailsOnlyByDeath, Gone, Alive, None,
         service
    <3> QED BY <3>1, <3>2, <3>3, <3>4, <3>5, <3>6 DEF ClientInv
  <2> QED BY <2>1, <2>2
<1>7. ASSUME ServiceDies PROVE ClientInv'
  <2>1. TypeOK'
    BY <1>0, <1>7 DEF ServiceDies, TypeOK, ConnectInv, Operations, None, Nobody,
       Alive, service
  <2>2. ConnectInv'
    BY <1>0, <1>7 DEF ServiceDies, TypeOK, ConnectInv, Guarded, Alive, None, Nobody,
       DeathsInv, Gone, service
  <2>3. ProxyInv'
    BY <1>0, <1>7 DEF ServiceDies, TypeOK, ConnectInv, ProxyInv, Guarded, Alive,
       None, Nobody, DeathsInv, Gone, service
  <2>4. DeathsInv'
    BY <1>0, <1>7 DEF ServiceDies, TypeOK, DeathsInv, Gone, None, service
  <2>5. CallInv'
    BY <1>0, <1>7 DEF ServiceDies, TypeOK, ConnectInv, DeathsInv, CallInv, Gone,
       Alive, None, Nobody, service
  <2>6. FailsOnlyByDeath'
    BY <1>0, <1>7 DEF ServiceDies, TypeOK, CallInv, FailsOnlyByDeath, Gone, Alive,
       None, service
  <2> QED BY <2>1, <2>2, <2>3, <2>4, <2>5, <2>6 DEF ClientInv
<1>8. ASSUME ServiceStarts PROVE ClientInv'
  <2>1. TypeOK'
    BY <1>0, <1>8 DEF ServiceStarts, TypeOK, ConnectInv, Operations, None, Nobody,
       Alive, service
  <2>2. ConnectInv'
    BY <1>0, <1>8 DEF ServiceStarts, TypeOK, ConnectInv, Guarded, Alive, None,
       Nobody, DeathsInv, Gone, service
  <2>3. ProxyInv'
    BY <1>0, <1>8 DEF ServiceStarts, TypeOK, ConnectInv, ProxyInv, Guarded, Alive,
       None, Nobody, DeathsInv, Gone, service
  <2>4. DeathsInv'
    BY <1>0, <1>8 DEF ServiceStarts, TypeOK, DeathsInv, Gone, None, service
  <2>5. CallInv'
    BY <1>0, <1>8 DEF ServiceStarts, TypeOK, ConnectInv, DeathsInv, CallInv, Gone,
       Alive, None, Nobody, service
  <2>6. FailsOnlyByDeath'
    BY <1>0, <1>8 DEF ServiceStarts, TypeOK, CallInv, FailsOnlyByDeath, Gone, Alive,
       None, service
  <2> QED BY <2>1, <2>2, <2>3, <2>4, <2>5, <2>6 DEF ClientInv
<1>9. CASE UNCHANGED vars
  BY <1>0, <1>9 DEF vars, ClientInv, TypeOK, ConnectInv, ProxyInv, DeathsInv,
     CallInv,
     FailsOnlyByDeath, Guarded, Gone, Alive, service
<1> QED BY <1>1, <1>2, <1>3, <1>4, <1>5, <1>6, <1>7, <1>8, <1>9 DEF Next, Proceed

(* The inductive invariant is an invariant. *)
LEMMA ClientInvariant == Spec => []ClientInv
BY ClientInitially, ClientStep, PTL DEF Spec

-----------------------------------------------------------------------------
(* Theorems. *)

(* Every variable of the client keeps its type; in particular the mutex is *)
(* held by the one thread inside Connect.                                  *)
THEOREM ClientTypes == Spec => []TypeOK
BY ClientInvariant, PTL DEF ClientInv

(* A proxy of a dead service has its death notice on the way, for any      *)
(* number of threads and however Connect, death and ResetProxy interleave. *)
THEOREM DeadProxies == Spec => []DeadProxyIsReset
<1>1. ClientInv => DeadProxyIsReset
  BY DEF ClientInv, ProxyInv, Guarded, DeadProxyIsReset
<1> QED BY <1>1, ClientInvariant, PTL

(* A call fails, or meets the null pointer, only by a death of the service *)
(* it connected to.                                                        *)
THEOREM FailuresAreDeaths == Spec => []FailsOnlyByDeath
BY ClientInvariant, PTL DEF ClientInv

-----------------------------------------------------------------------------
(* Refinement: the safety part of ServiceHandle. *)

(* The reference of a client, with and without a thread about to store it. *)
LEMMA ReferenceValue ==
  ASSUME TypeOK
  PROVE  /\ \A t \in Threads : pc[t] = "store" => Reference = remote[t]
         /\ (\A t \in Threads : pc[t] # "store") => Reference = thermalSrv
BY DEF TypeOK, Reference

(* The same after a step. *)
LEMMA ReferenceValueNext ==
  ASSUME TypeOK'
  PROVE  /\ \A t \in Threads : pc'[t] = "store" => Reference' = remote'[t]
         /\ (\A t \in Threads : pc'[t] # "store") => Reference' = thermalSrv'
BY DEF TypeOK, Reference

(* At most one thread is inside Connect. *)
LEMMA OneInConnect ==
  ASSUME TypeOK, NEW t \in Threads, NEW u \in Threads,
         pc[t] \in {"recipient", "store"}, pc[u] \in {"recipient", "store"}
  PROVE  t = u
BY DEF TypeOK

(* A step that moves no thread into or out of the store and leaves the     *)
(* proxy alone does not change the reference.                              *)
LEMMA ReferenceKept ==
  ASSUME TypeOK, TypeOK', UNCHANGED <<thermalSrv, remote>>,
         \A t \in Threads : pc'[t] = "store" <=> pc[t] = "store"
  PROVE  UNCHANGED Reference
<1>1. CASE \A t \in Threads : pc[t] # "store"
  BY <1>1, ReferenceValue, ReferenceValueNext
<1>2. ASSUME NEW t \in Threads, pc[t] = "store" PROVE UNCHANGED Reference
  BY <1>2, ReferenceValue, ReferenceValueNext
<1> QED BY <1>1, <1>2

(* Every step of the client is a step of the handle or leaves it alone. *)
LEMMA HandleStep == ClientInv /\ ClientInv' /\ [Next]_vars => [Handle!Next]_(Handle!vars)
<1> SUFFICES ASSUME ClientInv, ClientInv', [Next]_vars PROVE Handle!Next \/ UNCHANGED Handle!vars
  OBVIOUS
<1>0. /\ TypeOK /\ TypeOK' /\ ConnectInv /\ DeathsInv
  BY DEF ClientInv
<1>1. ASSUME NEW t \in Threads, NEW o \in Operations, Begin(t, o) PROVE UNCHANGED Handle!vars
  <2>1. UNCHANGED <<up, inc, thermalSrv, remote>> /\ \A u \in Threads : pc'[u] = "store" <=> pc[u] = "store"
    BY <1>0, <1>1 DEF Begin, service, TypeOK
  <2> QED BY <1>0, <2>1, ReferenceKept DEF Handle!vars
<1>2. ASSUME NEW t \in Threads, Connect(t) PROVE UNCHANGED Handle!vars
  <2>1. UNCHANGED <<up, inc, thermalSrv>>
    BY <1>2 DEF Connect, service
  <2>2. \A u \in Threads : pc[u] # "store" /\ pc'[u] # "store"
    BY <1>0, <1>2, ClientAssumption DEF Connect, Ends, TypeOK
  <2> QED BY <1>0, <2>1, <2>2, ReferenceValue, ReferenceValueNext DEF Handle!vars
<1>3. ASSUME NEW t \in Threads, AddDeathRecipient(t) PROVE Handle!Next \/ UNCHANGED Handle!vars
  <2>1. pc[t] = "recipient" /\ UNCHANGED <<up, inc, thermalSrv, remote>>
    BY <1>3 DEF AddDeathRecipient, service
  <2>2. \A u \in Threads : pc[u] # "store"
    BY <1>0, <2>1, OneInConnect
  <2>3. Reference = thermalSrv /\ thermalSrv = 0
    BY <1>0, <2>1, <2>2, ReferenceValue DEF ConnectInv, None
  <2>4. CASE Alive(remote[t])
    <3>1. pc'[t] = "store"
      BY <1>0, <1>3, <2>4 DEF AddDeathRecipient, TypeOK
    <3>2. Reference' = inc /\ up
      BY <1>0, <2>1, <2>4, <3>1, ReferenceValueNext DEF Alive
    <3> QED BY <2>1, <2>3, <3>2 DEF Handle!Next, Handle!Attach
  <2>5. CASE ~ Alive(remote[t])
    <3>1. \A u \in Threads : pc'[u] # "store"
      BY <1>0, <1>3, <2>2, <2>5 DEF AddDeathRecipient, Ends, TypeOK
    <3> QED BY <1>0, <2>1, <2>3, <3>1, ReferenceValueNext DEF Handle!vars
  <2> QED BY <2>4, <2>5
<1>4. ASSUME NEW t \in Threads, StoreProxy(t) PROVE UNCHANGED Handle!vars
  <2>1. pc[t] = "store" /\ UNCHANGED <<up, inc>> /\ thermalSrv' = remote[t]
    BY <1>4 DEF StoreProxy, service
  <2>2. \A u \in Threads : pc'[u] # "store"
    BY <1>0, <1>4, <2>1, OneInConnect DEF StoreProxy, TypeOK
  <2> QED BY <1>0, <2>1, <2>2, ReferenceValue, ReferenceValueNext DEF Handle!vars
<1>5. ASSUME NEW t \in Threads, Call(t) PROVE UNCHANGED Handle!vars
  <2>1. UNCHANGED <<up, inc, thermalSrv, remote>> /\ \A u \in Threads : pc'[u] = "store" <=> pc[u] = "store"
    BY <1>0, <1>5 DEF Call, Ends, TypeOK
  <2> QED BY <1>0, <2>1, ReferenceKept DEF Handle!vars
<1>6. ASSUME NEW i \in deaths, ResetProxy(i) PROVE Handle!Next \/ UNCHANGED Handle!vars
  <2>1. mutex = Nobody /\ UNCHANGED <<up, inc, remote, pc>>
    BY <1>6 DEF ResetProxy, service
  <2>2. \A u \in Threads : pc[u] # "store"
    BY <1>0, <2>1, ClientAssumption DEF TypeOK
  <2>3. Reference = thermalSrv /\ Reference' = thermalSrv'
    BY <1>0, <2>1, <2>2, ReferenceValue, ReferenceValueNext
  <2>4. CASE thermalSrv = i
    <3>1. thermalSrv' = 0 /\ thermalSrv # 0 /\ ~ (up /\ inc = thermalSrv)
      BY <1>0, <1>6, <2>4 DEF ResetProxy, TypeOK, DeathsInv, Gone, None
    <3> QED BY <2>1, <2>3, <3>1 DEF Handle!Next, Handle!Detach, Handle!Dead
  <2>5. CASE thermalSrv # i
    BY <1>6, <2>1, <2>3, <2>5 DEF ResetProxy, Handle!vars
  <2> QED BY <2>4, <2>5
<1>7. ASSUME ServiceDies PROVE Handle!Next
  <2>1. UNCHANGED Reference
    BY <1>0, <1>7, ReferenceKept DEF ServiceDies
  <2> QED BY <1>7, <2>1 DEF ServiceDies, Handle!Next, Handle!Dies
<1>8. ASSUME ServiceStarts PROVE Handle!Next
  <2>1. UNCHANGED Reference
    BY <1>0, <1>8, ReferenceKept DEF ServiceStarts
  <2> QED BY <1>8, <2>1 DEF ServiceStarts, Handle!Next, Handle!Starts
<1>9. CASE UNCHANGED vars
  <2>1. UNCHANGED Reference
    BY <1>0, <1>9, ReferenceKept DEF vars
  <2> QED BY <1>9, <2>1 DEF vars, service, Handle!vars
<1> QED BY <1>1, <1>2, <1>3, <1>4, <1>5, <1>6, <1>7, <1>8, <1>9 DEF Next, Proceed

(* A client takes a reference only of a service that is up and gives it up *)
(* only once that service has died: ThermalMgrClient implements the safety *)
(* part of ServiceHandle.                                                  *)
THEOREM ClientIsHandle == Spec => Handle!Safety
<1>1. Init => Handle!Init
  BY DEF Init, Handle!Init, Reference, None
<1> QED BY <1>1, ClientInvariant, HandleStep, PTL DEF Spec, Handle!Safety

-----------------------------------------------------------------------------
(* The protector.  Least and greatest elements, and flattened lists. *)

NatOrder == {p \in Nat \X Nat : p[1] < p[2]}

(* Min is the least element of a set of naturals. *)
LEMMA MinNat ==
  ASSUME NEW S \in SUBSET Nat, S # {}
  PROVE  Min(S) \in S /\ \A y \in S : Min(S) <= y
<1>1. PICK x \in S : \A y \in S : ~(<<y, x>> \in NatOrder)
  <2>1. IsWellFoundedOn(NatOrder, Nat)
    BY NatLessThanWellFounded DEF OpToRel, NatOrder
  <2> QED BY <2>1, WFMin, Zenon
<1>2. \A y \in S : x <= y
  <2> TAKE y \in S
  <2>1. x \in Nat /\ y \in Nat
    OBVIOUS
  <2>2. ~(<<y, x>> \in NatOrder)
    BY <1>1
  <2>3. ~(y < x)
    BY <2>1, <2>2 DEF NatOrder
  <2> QED BY <2>1, <2>3
<1> QED BY <1>2 DEF Min

(* Max is the greatest element of a bounded set of naturals. *)
LEMMA MaxBounded ==
  ASSUME NEW n \in Nat, NEW S \in SUBSET (0 .. n), S # {}
  PROVE  Max(S) \in S /\ \A y \in S : y <= Max(S)
<1> DEFINE M == {n - i : i \in S}
<1>1. M \subseteq Nat
  OBVIOUS
<1>2. M # {}
  <2>1. PICK i \in S : TRUE
    OBVIOUS
  <2>2. n - i \in M
    BY <2>1
  <2> QED BY <2>2
<1>3. Min(M) \in M /\ \A y \in M : Min(M) <= y
  <2> HIDE DEF M
  <2> QED BY <1>1, <1>2, MinNat
<1>4. PICK x \in S : Min(M) = n - x
  BY <1>3
<1>5. \A y \in S : y <= x
  <2> TAKE y \in S
  <2>1. n - y \in M
    OBVIOUS
  <2>2. n - x <= n - y
    BY <1>3, <1>4, <2>1
  <2>3. x \in Int /\ y \in Int
    OBVIOUS
  <2> HIDE DEF M
  <2> QED BY <2>2, <2>3
<1> HIDE DEF M
<1> QED BY <1>5 DEF Max

(* A property of 1 that each number hands on to the next holds up to N:    *)
(* there is no smallest number without it.                                 *)
LEMMA NoSmallest ==
  ASSUME NEW N \in Nat \ {0}, NEW S \in SUBSET (1 .. N), 1 \in S,
         \A n \in 1 .. N : n # N /\ n \in S => n + 1 \in S
  PROVE  N \in S
<1> DEFINE bad == (1 .. N) \ S
<1> SUFFICES ASSUME bad # {} PROVE FALSE
  OBVIOUS
<1>1. bad \subseteq Nat
  OBVIOUS
<1>2. Min(bad) \in bad /\ \A y \in bad : Min(bad) <= y
  <2> HIDE DEF bad
  <2> QED BY <1>1, MinNat
<1>3. PICK x \in bad : \A y \in bad : x <= y
  BY <1>2
<1>4. x \in Nat /\ x # 1 /\ x - 1 \in 1 .. N
  OBVIOUS
<1>5. x - 1 \in S
  <2>1. ~(x <= x - 1)
    BY <1>4
  <2> QED BY <1>3, <1>4, <2>1
<1> QED BY <1>4, <1>5

(* Concatenation keeps exactly the elements of both lists. *)
LEMMA ConcatRange ==
  ASSUME NEW S, NEW s \in Seq(S), NEW t \in Seq(S)
  PROVE  s \o t \in Seq(S) /\ Range(s \o t) = Range(s) \cup Range(t)
<1>1. /\ s \o t \in Seq(S) /\ Len(s \o t) = Len(s) + Len(t)
      /\ \A i \in 1 .. Len(s) + Len(t) :
            (s \o t)[i] = IF i <= Len(s) THEN s[i] ELSE t[i - Len(s)]
  BY ConcatProperties
<1>2. /\ DOMAIN (s \o t) = 1 .. Len(s) + Len(t)
      /\ DOMAIN s = 1 .. Len(s) /\ DOMAIN t = 1 .. Len(t)
      /\ Len(s) \in Nat /\ Len(t) \in Nat
  BY <1>1, LenProperties
<1>3. ASSUME NEW x \in Range(s \o t) PROVE x \in Range(s) \cup Range(t)
  <2>1. PICK i \in 1 .. Len(s) + Len(t) : x = (s \o t)[i]
    BY <1>2 DEF Range
  <2>2. CASE i <= Len(s)
    BY <1>1, <1>2, <2>1, <2>2 DEF Range
  <2>3. CASE ~(i <= Len(s))
    <3>1. i - Len(s) \in 1 .. Len(t)
      BY <1>2, <2>3
    <3> QED BY <1>1, <1>2, <2>1, <2>3, <3>1 DEF Range
  <2> QED BY <2>2, <2>3
<1>4. ASSUME NEW x \in Range(s) PROVE x \in Range(s \o t)
  <2>1. PICK i \in 1 .. Len(s) : x = s[i]
    BY <1>2 DEF Range
  <2>2. i \in 1 .. Len(s) + Len(t) /\ (s \o t)[i] = s[i]
    BY <1>1, <1>2
  <2> QED BY <1>2, <2>1, <2>2 DEF Range
<1>5. ASSUME NEW x \in Range(t) PROVE x \in Range(s \o t)
  <2>1. PICK i \in 1 .. Len(t) : x = t[i]
    BY <1>2 DEF Range
  <2>2. /\ i + Len(s) \in 1 .. Len(s) + Len(t) /\ ~(i + Len(s) <= Len(s))
        /\ (i + Len(s)) - Len(s) = i
    BY <1>2
  <2>3. (s \o t)[i + Len(s)] = t[i]
    BY <1>1, <2>2
  <2> QED BY <1>2, <2>1, <2>2, <2>3 DEF Range
<1> QED BY <1>1, <1>3, <1>4, <1>5

(* A list of lists is flattened to a list of exactly their elements. *)
LEMMA Flattened ==
  ASSUME NEW S, NEW seqs \in Seq(Seq(S))
  PROVE  /\ FlattenSeq(seqs) \in Seq(S)
         /\ \A x : x \in Range(FlattenSeq(seqs)) <=> \E i \in DOMAIN seqs : x \in Range(seqs[i])
<1> DEFINE N == Len(seqs)
           Add(x, i) == x \o seqs[i]
           Fits(g, m) == g = [i \in 1 .. m |-> IF i = 1 THEN seqs[i] ELSE Add(g[i - 1], i)]
           flatten == CHOOSE g : Fits(g, N)
<1>1. N \in Nat /\ DOMAIN seqs = 1 .. N
  BY LenProperties
<1>2. CASE N = 0
  <2>1. seqs = << >>
    BY <1>2, EmptySeq
  <2>2. FlattenSeq(seqs) = << >>
    BY <1>2, <2>1 DEF FlattenSeq
  <2>3. DOMAIN seqs = {} /\ Range(<< >>) = {}
    BY <2>1 DEF Range
  <2>4. << >> \in Seq(S)
    OBVIOUS
  <2> QED BY <2>2, <2>3, <2>4
<1>3. CASE N # 0
  <2>1. FlattenSeq(seqs) = flatten[N]
    BY <1>3 DEF FlattenSeq
  <2>2. \A i \in 1 .. N : seqs[i] \in Seq(S)
    BY <1>1, ElementOfSeq
  <2> HIDE DEF N, Add
  <2>3. \E g : Fits(g, N)
    <3> DEFINE M == {m \in 1 .. N : \E g : Fits(g, m)}
    <3>1. 1 \in M
      <4>1. Fits([i \in 1 .. 1 |-> seqs[1]], 1)
        OBVIOUS
      <4>2. 1 \in 1 .. N
        BY <1>1, <1>3
      <4> HIDE DEF Fits
      <4> QED BY <4>1, <4>2, Zenon
    <3>2. ASSUME NEW m \in 1 .. N, m # N, m \in M PROVE m + 1 \in M
      <4>1. PICK g : Fits(g, m)
        BY <3>2
      <4> DEFINE h == [i \in 1 .. m + 1 |-> IF i = m + 1 THEN Add(g[m], m + 1) ELSE g[i]]
      <4>2. Fits(h, m + 1)
        <5>1. \A i \in 1 .. m + 1 : h[i] = IF i = 1 THEN seqs[i] ELSE Add(h[i - 1], i)
          BY <1>1, <4>1
        <5> QED BY <5>1
      <4>3. m + 1 \in 1 .. N
        BY <1>1, <3>2
      <4> QED BY <4>2, <4>3
    <3>3. N \in M
      <4> HIDE DEF M
      <4>1. M \subseteq 1 .. N
        BY DEF M
      <4> QED BY <1>1, <1>3, <3>1, <3>2, <4>1, NoSmallest
    <3> QED BY <3>3
  <2>4. Fits(flatten, N)
    BY <2>3, Zenon
  <2> HIDE DEF flatten
  <2>5. /\ flatten[1] = seqs[1]
        /\ \A i \in 1 .. N : i # 1 => flatten[i] = Add(flatten[i - 1], i)
    BY <1>1, <1>3, <2>4
  <2> DEFINE T == {n \in 1 .. N : /\ flatten[n] \in Seq(S)
                                  /\ \A x : x \in Range(flatten[n])
                                            <=> \E i \in 1 .. n : x \in Range(seqs[i])}
  <2>6. 1 \in T
    <3>1. 1 \in 1 .. N /\ \A i : i \in 1 .. 1 <=> i = 1
      BY <1>1, <1>3
    <3>2. flatten[1] \in Seq(S)
      BY <2>2, <2>5, <3>1
    <3>3. \A x : x \in Range(flatten[1]) <=> \E i \in 1 .. 1 : x \in Range(seqs[i])
      BY <2>5, <3>1
    <3> QED BY <3>1, <3>2, <3>3
  <2>7. ASSUME NEW n \in 1 .. N, n # N, n \in T PROVE n + 1 \in T
    <3>1. n + 1 \in 1 .. N /\ (n + 1) - 1 = n /\ n + 1 # 1
      BY <1>1, <2>7
    <3>2. flatten[n + 1] = flatten[n] \o seqs[n + 1]
      BY <2>5, <3>1 DEF Add
    <3>3. /\ flatten[n] \in Seq(S) /\ seqs[n + 1] \in Seq(S)
          /\ \A x : x \in Range(flatten[n]) <=> \E i \in 1 .. n : x \in Range(seqs[i])
      BY <2>2, <2>7, <3>1
    <3>4. /\ flatten[n + 1] \in Seq(S)
          /\ Range(flatten[n + 1]) = Range(flatten[n]) \cup Range(seqs[n + 1])
      BY <3>2, <3>3, ConcatRange
    <3>5. 1 .. n + 1 = (1 .. n) \cup {n + 1}
      BY <3>1
    <3>6. \A x : x \in Range(flatten[n + 1]) <=> \E i \in 1 .. n + 1 : x \in Range(seqs[i])
      BY <3>3, <3>4, <3>5
    <3> QED BY <3>1, <3>3, <3>4, <3>6
  <2>8. N \in T
    <3>1. T \subseteq 1 .. N
      OBVIOUS
    <3> HIDE DEF T
    <3> QED BY <1>1, <1>3, <2>6, <2>7, <3>1, NoSmallest
  <2> QED BY <1>1, <2>1, <2>8
<1> QED BY <1>2, <1>3

-----------------------------------------------------------------------------
(* The judgment of a zone. *)

(* The search up stops at a level that is reached and whose next is not. *)
LEMMA SearchUp ==
  ASSUME NEW zone \in ZoneRecords, Banded(zone), NEW t \in Int,
         NEW l \in 0 .. Len(zone.items)
  PROVE  LET m == HandleNextUpTemp(zone, l, t)
         IN  /\ m \in l .. Len(zone.items)
             /\ m = Len(zone.items) \/ ~ Reached(zone, m + 1, t)
             /\ \A i \in l + 1 .. m : Reached(zone, i, t)
<1> DEFINE n == Len(zone.items)
           higher == {j \in l + 1 .. n : \A i \in l + 1 .. j : Reached(zone, i, t)}
           m == HandleNextUpTemp(zone, l, t)
<1>1. zone.items \in Seq(ZoneItems)
  BY DEF ZoneRecords
<1>2. n \in Nat /\ DOMAIN zone.items = 1 .. n
  BY <1>1, LenProperties
<1>3. \A i \in 1 .. n : zone.items[i].level = i
  BY <1>2 DEF Banded
<1>4. m = IF higher = {} THEN l ELSE zone.items[Max(higher)].level
  BY DEF HandleNextUpTemp
<1> HIDE DEF n, m
<1>5. CASE higher = {}
  <2>1. m = l
    BY <1>4, <1>5
  <2>2. l = n \/ ~ Reached(zone, l + 1, t)
    <3> SUFFICES ASSUME l # n, Reached(zone, l + 1, t) PROVE FALSE
      OBVIOUS
    <3>1. l + 1 \in l + 1 .. n /\ \A i \in l + 1 .. l + 1 : i = l + 1
      BY <1>2 DEF n
    <3>2. l + 1 \in higher
      BY <3>1
    <3> QED BY <1>5, <3>2
  <2> QED BY <1>2, <2>1, <2>2 DEF m, n
<1>6. CASE higher # {}
  <2>1. higher \in SUBSET (0 .. n)
    BY <1>2
  <2>2. Max(higher) \in higher /\ \A y \in higher : y <= Max(higher)
    <3> HIDE DEF higher
    <3> QED BY <1>2, <1>6, <2>1, MaxBounded
  <2>3. Max(higher) \in l + 1 .. n /\ \A i \in l + 1 .. Max(higher) : Reached(zone, i, t)
    BY <2>2
  <2>4. m = Max(higher)
    BY <1>2, <1>3, <1>4, <1>6, <2>3
  <2>a. m \in l + 1 .. n /\ \A i \in l + 1 .. m : Reached(zone, i, t)
    BY <2>3, <2>4
  <2>5. m = n \/ ~ Reached(zone, m + 1, t)
    <3> SUFFICES ASSUME m # n, Reached(zone, m + 1, t) PROVE FALSE
      OBVIOUS
    <3>1. m + 1 \in l + 1 .. n
      <4> HIDE DEF higher
      <4> QED BY <1>2, <2>a
    <3>2. \A i \in l + 1 .. m + 1 : i \in l + 1 .. m \/ i = m + 1
      <4> HIDE DEF higher
      <4> QED BY <1>2, <2>a
    <3>3. m + 1 \in higher
      BY <2>3, <2>4, <3>1, <3>2
    <3>4. m + 1 <= m
      BY <2>2, <2>4, <3>3
    <3> QED BY <1>2, <2>3, <2>4, <3>4
  <2>6. m \in l .. n
    BY <1>2, <2>3, <2>4
  <2> QED BY <2>3, <2>4, <2>5, <2>6 DEF m, n
<1> QED BY <1>5, <1>6

(* The search down stops below the levels that are cleared. *)
LEMMA SearchDown ==
  ASSUME NEW zone \in ZoneRecords, Banded(zone), NEW t \in Int,
         NEW l \in 0 .. Len(zone.items)
  PROVE  LET m == HandleCurDownTemp(zone, l, t)
         IN  /\ m \in 0 .. l
             /\ m = 0 \/ ~ Cleared(zone, m, t)
             /\ \A i \in m + 1 .. l : Cleared(zone, i, t)
<1> DEFINE n == Len(zone.items)
           down == {j \in 1 .. l : \A i \in j .. l : Cleared(zone, i, t)}
           m == HandleCurDownTemp(zone, l, t)
<1>1. zone.items \in Seq(ZoneItems)
  BY DEF ZoneRecords
<1>2. n \in Nat /\ DOMAIN zone.items = 1 .. n /\ l \in 0 .. n
  BY <1>1, LenProperties
<1>3. \A i \in 1 .. n : zone.items[i].level = i
  BY <1>2 DEF Banded
<1>4. m = IF down = {} THEN l
          ELSE IF zone.items[Min(down)].level > 0 THEN zone.items[Min(down)].level - 1 ELSE 0
  BY DEF HandleCurDownTemp
<1> HIDE DEF n, m
<1>5. CASE down = {}
  <2>1. m = l
    BY <1>4, <1>5
  <2>2. l = 0 \/ ~ Cleared(zone, l, t)
    <3> SUFFICES ASSUME l # 0, Cleared(zone, l, t) PROVE FALSE
      OBVIOUS
    <3>1. l \in 1 .. l /\ \A i \in l .. l : i = l
      BY <1>2
    <3>2. l \in down
      BY <3>1
    <3> QED BY <1>5, <3>2
  <2> QED BY <1>2, <2>1, <2>2 DEF m
<1>6. CASE down # {}
  <2>1. down \in SUBSET Nat
    OBVIOUS
  <2>2. Min(down) \in down /\ \A y \in down : Min(down) <= y
    <3> HIDE DEF down
    <3> QED BY <1>6, <2>1, MinNat
  <2>3. Min(down) \in 1 .. l /\ \A i \in Min(down) .. l : Cleared(zone, i, t)
    BY <2>2
  <2>4. m = Min(down) - 1 /\ m \in 0 .. l /\ m + 1 = Min(down)
    <3> HIDE DEF down
    <3>1. PICK k \in 1 .. l : k = Min(down)
      BY <2>3
    <3>2. k \in Nat /\ k > 0 /\ k \in 1 .. n
      BY <1>2
    <3>3. m = k - 1
      BY <1>3, <1>4, <1>6, <3>1, <3>2
    <3> QED BY <1>2, <3>1, <3>2, <3>3
  <2>5. m = 0 \/ ~ Cleared(zone, m, t)
    <3> SUFFICES ASSUME m # 0, Cleared(zone, m, t) PROVE FALSE
      OBVIOUS
    <3>1. m \in 1 .. l
      BY <1>2, <2>4
    <3>2. \A i \in m .. l : i \in m + 1 .. l \/ i = m
      BY <1>2, <2>4
    <3>3. m \in down
      BY <2>3, <2>4, <3>1, <3>2
    <3>4. m + 1 <= m
      BY <2>2, <2>4, <3>3
    <3> QED BY <1>2, <2>4, <3>4
  <2> QED BY <2>3, <2>4, <2>5 DEF m
<1> QED BY <1>5, <1>6

(* What reaches an item does not clear it. *)
LEMMA BandKeepsApart ==
  ASSUME NEW zone \in ZoneRecords, Banded(zone), NEW t \in Int,
         NEW i \in 1 .. Len(zone.items), Reached(zone, i, t)
  PROVE  ~ Cleared(zone, i, t)
<1>1. zone.items \in Seq(ZoneItems) /\ zone.desc \in BOOLEAN
  BY DEF ZoneRecords
<1>2. DOMAIN zone.items = 1 .. Len(zone.items)
  BY <1>1, LenProperties
<1>3. zone.items[i] \in ZoneItems
  BY <1>1, ElementOfSeq
<1>4. zone.items[i].threshold \in Int /\ zone.items[i].thresholdClr \in Int
  BY <1>3 DEF ZoneItems
<1>5. IF zone.desc THEN zone.items[i].thresholdClr >= zone.items[i].threshold
      ELSE zone.items[i].thresholdClr <= zone.items[i].threshold
  BY <1>2 DEF Banded
<1> QED BY <1>1, <1>4, <1>5 DEF Reached, Cleared

(* Whatever the level and the temperature, the judgment of a zone moves to *)
(* the nearest settled level.                                              *)
LEMMA JudgmentMoves ==
  ASSUME NEW zone \in ZoneRecords, Banded(zone), NEW t \in Int,
         NEW l \in 0 .. Len(zone.items)
  PROVE  LET m == Judgment(zone, l, t)
             between == IF m > l THEN l .. m - 1 ELSE m + 1 .. l
         IN  /\ m \in 0 .. Len(zone.items)
             /\ Settled(zone, m, t)
             /\ \A k \in between : ~ Settled(zone, k, t)
<1> DEFINE n == Len(zone.items)
           m == Judgment(zone, l, t)
<1>1. zone.items \in Seq(ZoneItems) /\ zone.items # << >>
  BY DEF ZoneRecords, Banded
<1>2. n \in Nat /\ n # 0 /\ DOMAIN zone.items = 1 .. n
  BY <1>1, LenProperties, EmptySeq
<1>3. \A i \in 1 .. n : zone.items[i].level = i
  BY <1>2 DEF Banded
<1>4. CASE m = HandleNextUpTemp(zone, l, t) /\ (l = 0 \/ Reached(zone, l + 1, t)) /\ l < n
  <2>1. /\ m \in l .. n
        /\ m = n \/ ~ Reached(zone, m + 1, t)
        /\ \A i \in l + 1 .. m : Reached(zone, i, t)
    BY <1>4, SearchUp
  <2> HIDE DEF m
  <2>2. m # l => ~ Cleared(zone, m, t)
    <3>1. m # l => m \in l + 1 .. m /\ m \in 1 .. n
      BY <1>2, <2>1 DEF n
    <3> QED BY <2>1, <3>1, BandKeepsApart DEF n
  <2>3. m = l => l = 0
    BY <1>2, <1>4, <2>1 DEF n
  <2>4. Settled(zone, m, t)
    BY <2>1, <2>2, <2>3 DEF Settled, n
  <2>5. ASSUME NEW k \in l .. m - 1 PROVE ~ Settled(zone, k, t)
    <3>1. k + 1 \in l + 1 .. m /\ k # n
      BY <1>2, <2>1 DEF n
    <3> QED BY <2>1, <3>1 DEF Settled, n
  <2>6. \A k \in IF m > l THEN l .. m - 1 ELSE m + 1 .. l : k \in l .. m - 1
    BY <1>2, <2>1 DEF n
  <2>7. m \in 0 .. n
    BY <1>2, <2>1 DEF n
  <2> QED BY <2>4, <2>5, <2>6, <2>7 DEF m, n
<1>5. CASE m = HandleCurDownTemp(zone, l, t) /\ l > 0 /\ (l = n \/ ~ Reached(zone, l + 1, t))
  <2>1. /\ m \in 0 .. l
        /\ m = 0 \/ ~ Cleared(zone, m, t)
        /\ \A i \in m + 1 .. l : Cleared(zone, i, t)
    BY <1>5, SearchDown
  <2> HIDE DEF m
  <2>2. m = n \/ ~ Reached(zone, m + 1, t)
    <3>1. CASE m = l
      BY <1>5, <3>1
    <3>2. CASE m # l
      <4>1. m + 1 \in m + 1 .. l /\ m + 1 \in 1 .. n
        BY <1>2, <2>1, <3>2 DEF n
      <4> QED BY <2>1, <4>1, BandKeepsApart DEF n
    <3> QED BY <3>1, <3>2
  <2>3. Settled(zone, m, t)
    BY <2>1, <2>2 DEF Settled, n
  <2>4. ASSUME NEW k \in m + 1 .. l PROVE ~ Settled(zone, k, t)
    <3>1. k # 0
      BY <1>2, <2>1
    <3> QED BY <2>1, <3>1 DEF Settled
  <2>5. ~(m > l) /\ m \in 0 .. n
    BY <1>2, <2>1 DEF n
  <2> QED BY <2>3, <2>4, <2>5 DEF m, n
<1>6. CASE m = l /\ l > 0 /\ l < n /\ ~ Reached(zone, l + 1, t) /\ ~ Cleared(zone, l, t)
  <2> HIDE DEF m
  <2>1. Settled(zone, m, t)
    BY <1>6 DEF Settled
  <2>2. m \in 0 .. n /\ ~(m > l) /\ m + 1 .. l = {}
    BY <1>2, <1>6 DEF n
  <2> QED BY <2>1, <2>2 DEF m, n
<1>7. \/ l > 0 /\ l < n
      \/ l = n /\ l > 0
      \/ l = 0 /\ n > 0
  BY <1>2
<1>8. CASE l > 0 /\ l < n
  <2>1. m = CASE Reached(zone, l + 1, t) -> HandleNextUpTemp(zone, l, t)
              [] Cleared(zone, l, t) /\ ~ Reached(zone, l + 1, t) -> HandleCurDownTemp(zone, l, t)
              [] OTHER -> zone.items[l].level
    BY <1>2, <1>8 DEF Judgment
  <2>2. zone.items[l].level = l
    BY <1>2, <1>3, <1>8
  <2> HIDE DEF m
  <2>3. \/ Reached(zone, l + 1, t) /\ m = HandleNextUpTemp(zone, l, t)
        \/ ~ Reached(zone, l + 1, t) /\ Cleared(zone, l, t) /\ m = HandleCurDownTemp(zone, l, t)
        \/ ~ Reached(zone, l + 1, t) /\ ~ Cleared(zone, l, t) /\ m = l
    BY <2>1, <2>2
  <2> QED BY <1>4, <1>5, <1>6, <1>8, <2>3
<1>9. CASE l = n /\ l > 0
  <2>1. m = HandleCurDownTemp(zone, l, t)
    BY <1>2, <1>9 DEF Judgment
  <2> QED BY <1>5, <1>9, <2>1
<1>10. CASE l = 0 /\ n > 0
  <2>1. m = HandleNextUpTemp(zone, l, t)
    BY <1>2, <1>10 DEF Judgment
  <2> QED BY <1>2, <1>4, <1>10, <2>1
<1> QED BY <1>7, <1>8, <1>9, <1>10

-----------------------------------------------------------------------------
(* The configuration. *)

Entries == [name : Zones, level : Nat, vAction : Seq(ActionItems)]

(* The entries of a zone: the actions of an item are appended to those of  *)
(* the items before it.                                                    *)
LEMMA SubNodeTyped ==
  ASSUME NEW zone \in ZoneRecords
  PROVE  ParseSubNode(zone) \in Seq(Entries)
<1> DEFINE n == Len(zone.items)
           v(i) == FlattenSeq([j \in 1 .. i |-> zone.items[j].actions])
<1>1. zone.items \in Seq(ZoneItems) /\ zone.type \in Zones
  BY DEF ZoneRecords
<1>2. n \in Nat /\ DOMAIN zone.items = 1 .. n
  BY <1>1, LenProperties
<1>3. \A i \in 1 .. n : zone.items[i] \in ZoneItems
  BY <1>1, <1>2, ElementOfSeq
<1>4. \A i \in 1 .. n : zone.items[i].level \in Nat /\ zone.items[i].actions \in Seq(ActionItems)
  BY <1>3 DEF ZoneItems
<1>5. ASSUME NEW i \in 1 .. n PROVE v(i) \in Seq(ActionItems)
  <2>1. i \in Nat /\ \A j \in 1 .. i : j \in 1 .. n
    BY <1>2
  <2>2. [j \in 1 .. i |-> zone.items[j].actions] \in Seq(Seq(ActionItems))
    BY <1>4, <2>1, SeqDef
  <2> QED BY <2>2, Flattened
<1> HIDE DEF n, v
<1>6. [i \in 1 .. n |-> [name |-> zone.type, level |-> zone.items[i].level, vAction |-> v(i)]]
        \in [1 .. n -> Entries]
  BY <1>1, <1>4, <1>5 DEF Entries
<1>7. ParseSubNode(zone)
        = [i \in 1 .. n |-> [name |-> zone.type, level |-> zone.items[i].level, vAction |-> v(i)]]
  BY <1>2 DEF ParseSubNode, v
<1> QED BY <1>2, <1>6, <1>7, SeqDef

(* A parsed document gives typed zones and a typed list of entries. *)
LEMMA ParsedTyped ==
  ASSUME NEW doc \in Seq(Seq(ZoneRecords))
  PROVE  /\ \A z \in DOMAIN ParsedZones(doc) : ParsedZones(doc)[z] \in ZoneRecords
         /\ ParsedLevelAction(doc) \in Seq(Entries)
<1>1. Len(doc) \in Nat /\ DOMAIN doc = 1 .. Len(doc)
  BY LenProperties
<1>2. \A c \in DOMAIN doc : doc[c] \in Seq(ZoneRecords)
  BY <1>1, ElementOfSeq
<1>3. ASSUME NEW z \in DOMAIN ParsedZones(doc) PROVE ParsedZones(doc)[z] \in ZoneRecords
  <2>1. CASE doc = << >>
    <3>1. DOMAIN ParsedZones(doc) = {}
      BY <2>1 DEF ParsedZones
    <3> QED BY <1>3, <3>1
  <2>2. CASE doc # << >>
    <3> DEFINE control == doc[Len(doc)]
               at == {i \in DOMAIN control : control[i].type = z}
    <3>1. control \in Seq(ZoneRecords)
      BY <1>1, <1>2, <2>2, EmptySeq
    <3> HIDE DEF control
    <3>2. /\ DOMAIN control = 1 .. Len(control) /\ Len(control) \in Nat
          /\ \A i \in DOMAIN control : control[i] \in ZoneRecords
      BY <3>1, LenProperties, ElementOfSeq
    <3>3. ParsedZones(doc) = ZoneMap(control)
      BY <2>2 DEF ParsedZones, control
    <3>4. z \in {control[i].type : i \in DOMAIN control} /\ ParsedZones(doc)[z] = control[Min(at)]
      BY <1>3, <3>3 DEF ZoneMap
    <3>5. at # {} /\ at \in SUBSET Nat
      BY <3>2, <3>4
    <3>6. Min(at) \in at
      <4> HIDE DEF at
      <4> QED BY <3>5, MinNat
    <3> QED BY <3>2, <3>4, <3>6
  <2> QED BY <2>1, <2>2
<1>4. ASSUME NEW c \in DOMAIN doc PROVE ParseControlNode(doc[c]) \in Seq(Entries)
  <2> DEFINE control == doc[c]
  <2>1. control \in Seq(ZoneRecords)
    BY <1>2
  <2> HIDE DEF control
  <2>2. /\ DOMAIN control = 1 .. Len(control) /\ Len(control) \in Nat
        /\ \A i \in DOMAIN control : control[i] \in ZoneRecords
    BY <2>1, LenProperties, ElementOfSeq
  <2>3. \A i \in DOMAIN control : ParseSubNode(control[i]) \in Seq(Entries)
    BY <2>2, SubNodeTyped
  <2>4. [i \in DOMAIN control |-> ParseSubNode(control[i])] \in Seq(Seq(Entries))
    BY <2>2, <2>3, SeqDef
  <2>5. ParseControlNode(control) \in Seq(Entries)
    BY <2>4, Flattened DEF ParseControlNode
  <2> QED BY <2>5 DEF control
<1>5. [c \in DOMAIN doc |-> ParseControlNode(doc[c])] \in Seq(Seq(Entries))
  BY <1>1, <1>4, SeqDef
<1>6. ParsedLevelAction(doc) \in Seq(Entries)
  BY <1>5, Flattened DEF ParsedLevelAction
<1> QED BY <1>3, <1>6

-----------------------------------------------------------------------------
(* A decision and its execution. *)

\* Some entry of the levels lm asks for the action a.
AskedAt(lm, a) ==
    \E i \in DOMAIN levelAction :
        /\ levelAction[i].name \in DOMAIN lm /\ lm[levelAction[i].name] = levelAction[i].level
        /\ \E x \in Range(levelAction[i].vAction) : x.name = a

(* What is decided is a list of actions; it asks for an action as often as *)
(* it names it, and at all only when some entry of a decided level does.   *)
LEMMA DecidedActions ==
  ASSUME levelAction \in Seq(Entries), NEW lm, NEW a
  PROVE  /\ Decided(lm) \in Seq(ActionItems)
         /\ Cardinality(Asked(Decided(lm), a)) \in Nat
         /\ Cardinality(Asked(Decided(lm), a)) = 0 <=> Asked(Decided(lm), a) = {}
         /\ Asked(Decided(lm), a) # {} <=> AskedAt(lm, a)
<1> DEFINE chosen(i) == levelAction[i].name \in DOMAIN lm
                        /\ lm[levelAction[i].name] = levelAction[i].level
           lists == [i \in DOMAIN levelAction |->
                       IF chosen(i) THEN levelAction[i].vAction ELSE << >>]
           d == Decided(lm)
<1>1. d = FlattenSeq(lists)
  BY DEF Decided
<1>2. DOMAIN levelAction = 1 .. Len(levelAction) /\ Len(levelAction) \in Nat
  BY LenProperties
<1>3. \A i \in DOMAIN levelAction : levelAction[i] \in Entries
  BY <1>2, ElementOfSeq
<1>4. \A i \in DOMAIN levelAction : levelAction[i].vAction \in Seq(ActionItems)
  BY <1>3 DEF Entries
<1>5. lists \in Seq(Seq(ActionItems))
  <2>1. << >> \in Seq(ActionItems)
    OBVIOUS
  <2>2. \A i \in DOMAIN levelAction : lists[i] \in Seq(ActionItems)
    BY <1>4, <2>1
  <2> QED BY <1>2, <2>2, SeqDef
<1>6. /\ d \in Seq(ActionItems)
      /\ \A x : x \in Range(d) <=> \E i \in DOMAIN lists : x \in Range(lists[i])
  <2> HIDE DEF lists, d
  <2> QED BY <1>1, <1>5, Flattened
<1>7. Range(<< >>) = {}
  BY DEF Range
<1>8. \A x : x \in Range(d) <=>
        \E i \in DOMAIN levelAction : chosen(i) /\ x \in Range(levelAction[i].vAction)
  <2>1. \A x : \A i \in DOMAIN levelAction :
           x \in Range(lists[i]) <=> chosen(i) /\ x \in Range(levelAction[i].vAction)
    BY <1>7
  <2>2. DOMAIN lists = DOMAIN levelAction
    OBVIOUS
  <2> HIDE DEF lists, d, chosen
  <2> QED BY <1>6, <2>1, <2>2
<1>9. Asked(d, a) # {} <=> \E x \in Range(d) : x.name = a
  <2> HIDE DEF d
  <2> QED BY DEF Asked, Range
<1>10. Asked(d, a) # {} <=> AskedAt(lm, a)
  <2> HIDE DEF d
  <2> QED BY <1>8, <1>9 DEF AskedAt
<1>11. IsFiniteSet(Asked(d, a))
  <2> HIDE DEF d
  <2>1. Len(d) \in Nat /\ DOMAIN d = 1 .. Len(d)
    BY <1>6, LenProperties
  <2>2. IsFiniteSet(1 .. Len(d))
    BY <2>1, FS_Interval
  <2>3. Asked(d, a) \in SUBSET (1 .. Len(d))
    BY <2>1 DEF Asked
  <2> QED BY <2>2, <2>3, FS_Subset
<1>12. Cardinality(Asked(d, a)) \in Nat /\ (Cardinality(Asked(d, a)) = 0 <=> Asked(d, a) = {})
  <2> HIDE DEF d
  <2> QED BY <1>11, FS_CardinalityType, FS_EmptySet
<1> QED BY <1>6, <1>10, <1>12

(* The value asked for is that of one of the actions decided. *)
LEMMA AddedValue ==
  ASSUME NEW d \in Seq(ActionItems), NEW a, NEW old
  PROVE  IF Asked(d, a) = {} THEN AddActionValue(d, a, old) = old
         ELSE AddActionValue(d, a, old) \in Nat
<1>1. CASE Asked(d, a) = {}
  BY <1>1 DEF AddActionValue
<1>2. CASE Asked(d, a) # {}
  <2>1. Len(d) \in Nat /\ DOMAIN d = 1 .. Len(d)
    BY LenProperties
  <2>2. Asked(d, a) \in SUBSET (0 .. Len(d))
    BY <2>1 DEF Asked
  <2>3. Max(Asked(d, a)) \in Asked(d, a)
    BY <1>2, <2>1, <2>2, MaxBounded
  <2>4. Max(Asked(d, a)) \in 1 .. Len(d)
    BY <2>1, <2>3 DEF Asked
  <2>5. d[Max(Asked(d, a))] \in ActionItems
    BY <2>4, ElementOfSeq
  <2>6. d[Max(Asked(d, a))].value \in Nat
    BY <2>5 DEF ActionItems
  <2> QED BY <1>2, <2>6 DEF AddActionValue
<1> QED BY <1>1, <1>2

ActionStates == [latest : Nat, value : Nat, node : Int, failed : BOOLEAN]
Unwritten == [latest |-> 0, value |-> 0, node |-> Unset, failed |-> FALSE]

\* The node holds the value that Execute remembers, or was never written.
Holds(s) == s.node = s.value \/ (s.node = Unset /\ s.value = 0)

(* One run of Execute. *)
LEMMA ExecuteDoes ==
  ASSUME NEW s \in ActionStates, NEW writable \in BOOLEAN
  PROVE  LET x == Execute(s, writable)
         IN  /\ x \in ActionStates
             /\ s.value # s.latest => /\ x.latest = s.latest /\ x.value = s.latest
                                      /\ ~ x.failed => x.node = s.latest
             /\ s.value = s.latest => /\ x.latest = 0 /\ x.value = s.value /\ x.node = s.node
                                      /\ ~ x.failed => ~ s.failed
<1> DEFINE n == IF writable THEN s.latest ELSE s.node
<1>1. s.latest \in Nat /\ s.value \in Nat /\ s.node \in Int /\ s.failed \in BOOLEAN
  BY DEF ActionStates
<1>2. CASE s.value # s.latest
  <2>1. Execute(s, writable) = [s EXCEPT !.value = s.latest, !.node = n, !.failed = ~ writable]
    BY <1>2 DEF Execute, Written
  <2>2. n \in Int
    BY <1>1
  <2> HIDE DEF n
  <2> DEFINE x == [s EXCEPT !.value = s.latest, !.node = n, !.failed = ~ writable]
  <2>3. /\ x \in ActionStates /\ x.latest = s.latest /\ x.value = s.latest /\ x.node = n
        /\ x.failed = ~ writable
    BY <1>1, <2>2 DEF ActionStates
  <2> HIDE DEF x
  <2>4. ~ x.failed => writable
    BY <2>3, Zenon
  <2>5. ~ x.failed => x.node = s.latest
    BY <2>3, <2>4, Zenon DEF n
  <2> QED BY <1>2, <2>1, <2>3, <2>5, Zenon DEF x
<1>3. CASE s.value = s.latest
  <2>1. Execute(s, writable) = [s EXCEPT !.latest = 0]
    BY <1>3 DEF Execute
  <2>2. /\ [s EXCEPT !.latest = 0] \in ActionStates /\ [s EXCEPT !.latest = 0].latest = 0
        /\ [s EXCEPT !.latest = 0].value = s.value /\ [s EXCEPT !.latest = 0].node = s.node
        /\ [s EXCEPT !.latest = 0].failed = s.failed
    BY DEF ActionStates
  <2> QED BY <1>3, <2>1, <2>2
<1> QED BY <1>2, <1>3

(* A fifth run of Execute changes nothing: four are enough. *)
LEMMA FourRunsAreEnough ==
  ASSUME NEW s \in ActionStates, NEW writable \in BOOLEAN
  PROVE  LET four == Execute(Execute(Execute(Execute(s, writable), writable), writable), writable)
         IN  Execute(four, writable) = four
<1> DEFINE e(x) == Execute(x, writable)
<1>1. \A x \in ActionStates : e(x) \in ActionStates
  BY ExecuteDoes
<1>a. \A x \in ActionStates :
        /\ x.value # x.latest => e(x).latest = x.latest /\ e(x).value = x.latest
        /\ x.value = x.latest => e(x).latest = 0 /\ e(x).value = x.value
  BY ExecuteDoes, Zenon
<1>2. ASSUME NEW x \in ActionStates, x.latest = 0, x.value = 0 PROVE e(x) = x
  <2>1. e(x) = [x EXCEPT !.latest = 0]
    BY <1>2 DEF Execute
  <2>2. DOMAIN x = {"latest", "value", "node", "failed"}
    BY DEF ActionStates
  <2>3. x = [k \in DOMAIN x |-> x[k]] /\ [x EXCEPT !.latest = 0] = [k \in DOMAIN x |-> x[k]]
    BY <1>2 DEF ActionStates
  <2> QED BY <2>1, <2>3
<1> HIDE DEF e
<1>3. e(s) \in ActionStates /\ e(e(s)) \in ActionStates /\ e(e(e(s))) \in ActionStates
      /\ e(e(e(e(s)))) \in ActionStates
  BY <1>1
<1>4. e(s).latest = e(s).value \/ e(s).latest = 0
  BY <1>a
<1>5. e(e(s)).latest = 0
  BY <1>a, <1>3, <1>4
<1>6. e(e(e(s))).latest = 0 /\ e(e(e(s))).value = 0
  BY <1>a, <1>3, <1>5
<1>7. e(e(e(e(s)))) = e(e(e(s)))
  BY <1>2, <1>3, <1>6
<1>8. e(e(e(e(e(s))))) = e(e(e(e(s))))
  BY <1>7
<1> QED BY <1>8 DEF e

(* Executing an action as often as the list names it leaves its limit or   *)
(* 0 in the node, once leaves the limit, unless the last write failed.     *)
LEMMA ExecutionHolds ==
  ASSUME NEW s \in ActionStates, NEW times \in Nat \ {0}, NEW writable \in BOOLEAN,
         ~ s.failed => Holds(s)
  PROVE  LET x == ActionExecution(s, times, writable)
         IN  /\ x \in ActionStates
             /\ ~ x.failed =>
                  /\ Holds(x)
                  /\ x.node \in {s.latest, 0, Unset}
                  /\ x.node = Unset => s.latest = 0
                  /\ times = 1 => x.node = s.latest \/ x.node = Unset
<1> DEFINE e(y) == Execute(y, writable)
           x == ActionExecution(s, times, writable)
           kept(y) == /\ y \in ActionStates
                      /\ y.latest \in {s.latest, 0} /\ y.value \in {s.latest, 0}
                      /\ ~ y.failed => Holds(y) /\ (y.node = Unset => s.latest = 0)
<1>1. s.latest \in Nat /\ s.value \in Nat /\ s.node \in Int
  BY DEF ActionStates
<1>2. ASSUME NEW y \in ActionStates
      PROVE  /\ e(y) \in ActionStates
             /\ y.value # y.latest => /\ e(y).latest = y.latest /\ e(y).value = y.latest
                                      /\ ~ e(y).failed => e(y).node = y.latest
             /\ y.value = y.latest => /\ e(y).latest = 0 /\ e(y).value = y.value
                                      /\ e(y).node = y.node
                                      /\ ~ e(y).failed => ~ y.failed
  BY ExecuteDoes, Zenon
<1> HIDE DEF e
<1>3. kept(e(s)) /\ e(s).value = s.latest
  <2>1. CASE s.value # s.latest
    BY <1>1, <1>2, <2>1 DEF Holds, Unset
  <2>2. CASE s.value = s.latest
    BY <1>1, <1>2, <2>2 DEF Holds, Unset
  <2> QED BY <2>1, <2>2
<1>4. ASSUME NEW y, kept(y) PROVE kept(e(y))
  <2>1. y.latest \in Nat /\ y.value \in Nat /\ y.node \in Int
    BY <1>4 DEF ActionStates
  <2>2. CASE y.value # y.latest
    BY <1>1, <1>2, <1>4, <2>1, <2>2 DEF Holds, Unset
  <2>3. CASE y.value = y.latest
    BY <1>1, <1>2, <1>4, <2>1, <2>3 DEF Holds, Unset
  <2> QED BY <2>2, <2>3
<1>5. \/ times = 1 /\ x = e(s)
      \/ times # 1 /\ (x = e(e(s)) \/ x = e(e(e(s))) \/ x = e(e(e(e(s)))))
  BY DEF ActionExecution, e
<1> HIDE DEF kept, x
<1>6. kept(e(e(s))) /\ kept(e(e(e(s)))) /\ kept(e(e(e(e(s)))))
  BY <1>3, <1>4
<1>7. kept(x) /\ (times = 1 => x.value = s.latest)
  BY <1>3, <1>5, <1>6
<1>8. /\ x \in ActionStates
      /\ ~ x.failed => /\ Holds(x)
                       /\ x.node \in {s.latest, 0, Unset}
                       /\ x.node = Unset => s.latest = 0
                       /\ times = 1 => x.node = s.latest \/ x.node = Unset
  BY <1>7 DEF kept, Holds
<1> QED BY <1>8 DEF x

-----------------------------------------------------------------------------
(* The inductive invariant. *)

ZoneInv == \A z \in DOMAIN tzInfoMap : tzInfoMap[z] \in ZoneRecords

EntryInv == levelAction \in Seq(Entries)

\* An action that was never executed is untouched; one that was is asked for
\* at every later decision, since levelMap_ keeps its levels.
ExecutionInv ==
    /\ execCount \in [KnownActions -> Nat]
    /\ act \in [KnownActions -> ActionStates]
    /\ \A a \in KnownActions :
        IF execCount[a] = 0 THEN act[a] = Unwritten
        ELSE phase # "start" /\ AskedAt(levelMap, a)

\* What Execute remembers as written is what the node holds, unless that write
\* failed.
NodeInv == \A a \in KnownActions : ~ act[a].failed => Holds(act[a])

ProtectorInv == ZoneInv /\ EntryInv /\ ExecutionInv /\ NodeInv /\ LimitInForce

(* The invariant holds initially. *)
LEMMA ProtectorInitially == ProtectorInit => ProtectorInv
<1> SUFFICES ASSUME ProtectorInit PROVE ProtectorInv
  OBVIOUS
<1>1. ZoneInv
  BY DEF ProtectorInit, ZoneInv
<1>2. EntryInv
  BY DEF ProtectorInit, EntryInv
<1>3. Unwritten \in ActionStates
  BY DEF Unwritten, ActionStates, Unset
<1>4. ExecutionInv /\ NodeInv /\ LimitInForce
  BY <1>3 DEF ProtectorInit, ThermalActionMap, ExecutionInv, NodeInv, LimitInForce, Holds,
              Unwritten
<1> QED BY <1>1, <1>2, <1>4 DEF ProtectorInv

(* Reading the configuration gives typed zones and entries. *)
LEMMA ConfigurationTyped == ThermalKernelServiceInit => ZoneInv' /\ EntryInv'
<1> SUFFICES ASSUME ThermalKernelServiceInit PROVE ZoneInv' /\ EntryInv'
  OBVIOUS
<1> DEFINE Files == DOMAIN Docs \cup {NoFile, BadFile}
<1>1. PICK policyPath \in Files, vendor \in Files, system \in Files, found \in SUBSET Zones :
        Configure(ConfigFile(policyPath, vendor, system), found)
  BY DEF ThermalKernelServiceInit
<1> DEFINE file == ConfigFile(policyPath, vendor, system)
<1>a. file \in Files
  BY DEF ConfigFile
<1> HIDE DEF file
<1>b. /\ tzInfoMap' = IF Readable(file) THEN ParsedZones(Docs[file]) ELSE << >>
      /\ levelAction' = IF Readable(file) THEN ParsedLevelAction(Docs[file]) ELSE << >>
  BY <1>1 DEF Configure, file
<1>2. CASE Readable(file)
  <2>1. file \in DOMAIN Docs
    BY <1>2, <1>a DEF Readable
  <2>2. Docs[file] \in Seq(Seq(ZoneRecords))
    BY <2>1, ProtectorAssumption
  <2> QED BY <1>b, <1>2, <2>2, ParsedTyped DEF ZoneInv, EntryInv
<1>3. CASE ~ Readable(file)
  BY <1>b, <1>3 DEF ZoneInv, EntryInv
<1> QED BY <1>2, <1>3

(* A wake-up keeps what is known of one action. *)
LEMMA ActionStep ==
  ASSUME ProtectorInv, NEW a \in KnownActions, NEW reading, NEW bad,
         TimerProvisionCallback(reading, bad), levelAction' = levelAction,
         phase = "looping", phase' = phase
  PROVE  /\ execCount'[a] \in Nat /\ act'[a] \in ActionStates
         /\ IF execCount'[a] = 0 THEN act'[a] = Unwritten
            ELSE AskedAt(levelMap, a)'
         /\ ~ act'[a].failed =>
              /\ Holds(act'[a])
              /\ execCount'[a] = 1 => act'[a].node = wanted'[a] \/ act'[a].node = Unset
              /\ execCount'[a] > 1 => act'[a].node \in {wanted'[a], 0, Unset}
              /\ execCount'[a] > 0 /\ act'[a].node = Unset => wanted'[a] = 0
<1> DEFINE lm == LevelDecision(UpdateThermalLevel(reading), ReadZones(reading))
           d == Decided(lm)
           listed == [b \in KnownActions |-> execCount[b] + Cardinality(Asked(d, b))]
<1>a. /\ levelMap' = lm
      /\ execCount' = listed
  BY Zenon DEF TimerProvisionCallback, ThermalActionMap
<1>b. act' = [b \in KnownActions |->
                ActionExecution([act[b] EXCEPT !.latest = AddActionValue(d, b, act[b].latest)],
                                listed[b], b \notin bad)]
  BY Zenon DEF TimerProvisionCallback, ThermalActionMap
<1>c. wanted' = [b \in KnownActions |-> AddActionValue(d, b, wanted[b])]
  BY Zenon DEF TimerProvisionCallback, ThermalActionMap
<1>d. \A z \in DOMAIN levelMap : z \in DOMAIN lm /\ lm[z] = levelMap[z]
  BY DEF LevelDecision
<1> HIDE DEF lm
<1> DEFINE k == Cardinality(Asked(d, a))
           w == AddActionValue(d, a, act[a].latest)
           s == [act[a] EXCEPT !.latest = w]
           x == ActionExecution(s, execCount[a] + k, a \notin bad)
<1>1. d = Decided(lm) /\ levelMap' = lm
  BY <1>a
<1>2. /\ execCount'[a] = execCount[a] + k /\ act'[a] = x
      /\ wanted'[a] = AddActionValue(d, a, wanted[a])
  BY <1>a, <1>b, <1>c
<1> HIDE DEF d
<1>3. /\ execCount[a] \in Nat /\ act[a] \in ActionStates
      /\ execCount[a] = 0 => act[a] = Unwritten
      /\ execCount[a] # 0 => AskedAt(levelMap, a)
      /\ ~ act[a].failed => Holds(act[a])
  BY DEF ProtectorInv, ExecutionInv, NodeInv
<1>4. levelAction \in Seq(Entries)
  BY DEF ProtectorInv, EntryInv
<1>5. /\ d \in Seq(ActionItems)
      /\ k \in Nat /\ (k = 0 <=> Asked(d, a) = {})
      /\ Asked(d, a) # {} <=> AskedAt(lm, a)
  BY <1>1, <1>4, DecidedActions
<1>6. AskedAt(levelMap, a) => AskedAt(lm, a)
  BY <1>d DEF AskedAt
<1>7. AskedAt(levelMap, a)' <=> AskedAt(lm, a)
  BY <1>1 DEF AskedAt
<1> HIDE DEF k
<1>8. CASE Asked(d, a) = {}
  <2>1. k = 0 /\ execCount[a] = 0 /\ execCount'[a] = 0
    BY <1>2, <1>3, <1>5, <1>6, <1>8
  <2>2. w = act[a].latest
    BY <1>8 DEF AddActionValue
  <2>3. s = act[a]
    BY <1>3, <2>2 DEF ActionStates
  <2>4. x = s
    <3> HIDE DEF s
    <3> QED BY <2>1 DEF ActionExecution
  <2>5. act'[a] = Unwritten
    BY <1>2, <1>3, <2>1, <2>3, <2>4
  <2> QED BY <1>3, <1>2, <2>1, <2>3, <2>4, <2>5 DEF Holds, Unwritten
<1>9. CASE Asked(d, a) # {}
  <2>1. w \in Nat /\ wanted'[a] = w
    <3>1. wanted'[a] = w
      BY <1>2, <1>9 DEF AddActionValue
    <3> QED BY <1>5, <1>9, <3>1, AddedValue
  <2> HIDE DEF w
  <2>2. /\ s \in ActionStates /\ s.latest = w /\ s.value = act[a].value
        /\ s.node = act[a].node /\ s.failed = act[a].failed
    BY <1>3, <2>1 DEF ActionStates
  <2> HIDE DEF s
  <2>3. execCount[a] + k \in Nat \ {0}
    BY <1>3, <1>5, <1>9
  <2>4. (a \notin bad) \in BOOLEAN
    OBVIOUS
  <2>5. ~ s.failed => Holds(s)
    BY <1>3, <2>2 DEF Holds
  <2>6. /\ x \in ActionStates
        /\ ~ x.failed =>
             /\ Holds(x)
             /\ x.node \in {s.latest, 0, Unset}
             /\ x.node = Unset => s.latest = 0
             /\ execCount[a] + k = 1 => x.node = s.latest \/ x.node = Unset
    BY <2>2, <2>3, <2>4, <2>5, ExecutionHolds
  <2> HIDE DEF x
  <2>9. /\ execCount'[a] \in Nat /\ execCount'[a] # 0 /\ act'[a] \in ActionStates
    BY <1>2, <2>3, <2>6
  <2>10. ~ act'[a].failed =>
           /\ Holds(act'[a])
           /\ act'[a].node \in {wanted'[a], 0, Unset}
           /\ act'[a].node = Unset => wanted'[a] = 0
           /\ execCount'[a] = 1 => act'[a].node = wanted'[a] \/ act'[a].node = Unset
    BY <1>2, <2>1, <2>2, <2>6
  <2> QED BY <1>5, <1>7, <1>9, <2>9, <2>10
<1> QED BY <1>8, <1>9

(* Every step keeps the invariant. *)
LEMMA ProtectorStep == ProtectorInv /\ [ProtectorNext]_protectorVars => ProtectorInv'
<1> SUFFICES ASSUME ProtectorInv, [ProtectorNext]_protectorVars PROVE ProtectorInv'
  OBVIOUS
<1>1. ZoneInv /\ EntryInv /\ ExecutionInv /\ NodeInv /\ LimitInForce
  BY DEF ProtectorInv
<1>2. CASE ThermalKernelServiceInit
  <2>1. ZoneInv' /\ EntryInv'
    BY <1>2, ConfigurationTyped
  <2>2. /\ phase = "start"
        /\ UNCHANGED <<execCount, act, wanted>>
    BY <1>2 DEF ThermalKernelServiceInit
  <2>3. \A a \in KnownActions : execCount[a] = 0
    BY <1>1, <2>2 DEF ExecutionInv
  <2>4. ExecutionInv'
    BY <1>1, <2>2, <2>3 DEF ExecutionInv
  <2>5. NodeInv' /\ LimitInForce'
    BY <1>1, <2>2 DEF NodeInv, LimitInForce
  <2> QED BY <2>1, <2>4, <2>5 DEF ProtectorInv
<1>3. CASE WakeUp
  <2>1. UNCHANGED <<tzInfoMap, levelAction>> /\ phase = "looping"
    BY <1>3 DEF WakeUp
  <2>2. ZoneInv' /\ EntryInv'
    BY <1>1, <2>1 DEF ZoneInv, EntryInv
  <2>3. PICK reading, bad :
          \/ /\ phase' = "aborted"
             /\ UNCHANGED <<latestLevel, levelMap, execCount, act, wanted,
                            reportTime, timeCount>>
          \/ TimerProvisionCallback(reading, bad) /\ UNCHANGED phase
    BY <1>3 DEF WakeUp
  <2>4. CASE phase' = "aborted" /\ UNCHANGED <<levelMap, execCount, act, wanted>>
    <3>1. \A a : AskedAt(levelMap, a) => AskedAt(levelMap, a)'
      BY <2>1, <2>4 DEF AskedAt
    <3>2. ExecutionInv'
      BY <1>1, <2>4, <3>1 DEF ExecutionInv
    <3>3. NodeInv' /\ LimitInForce'
      BY <1>1, <2>4 DEF NodeInv, LimitInForce
    <3> QED BY <2>2, <3>2, <3>3 DEF ProtectorInv
  <2>5. CASE TimerProvisionCallback(reading, bad) /\ UNCHANGED phase
    <3>1. \A a \in KnownActions :
            /\ execCount'[a] \in Nat /\ act'[a] \in ActionStates
            /\ IF execCount'[a] = 0 THEN act'[a] = Unwritten ELSE AskedAt(levelMap, a)'
            /\ ~ act'[a].failed =>
                 /\ Holds(act'[a])
                 /\ execCount'[a] = 1 => act'[a].node = wanted'[a] \/ act'[a].node = Unset
                 /\ execCount'[a] > 1 => act'[a].node \in {wanted'[a], 0, Unset}
                 /\ execCount'[a] > 0 /\ act'[a].node = Unset => wanted'[a] = 0
      BY <2>1, <2>5, ActionStep
    <3>2. /\ execCount' = [a \in KnownActions |-> execCount'[a]]
          /\ act' = [a \in KnownActions |-> act'[a]]
      BY <2>5 DEF TimerProvisionCallback, ThermalActionMap
    <3>3. execCount' \in [KnownActions -> Nat] /\ act' \in [KnownActions -> ActionStates]
      BY <3>1, <3>2
    <3>4. ExecutionInv'
      BY <2>1, <2>5, <3>1, <3>3 DEF ExecutionInv
    <3>5. NodeInv'
      BY <3>1 DEF NodeInv
    <3>6. LimitInForce'
      BY <3>1 DEF LimitInForce
    <3> QED BY <2>2, <3>4, <3>5, <3>6 DEF ProtectorInv
  <2> QED BY <2>3, <2>4, <2>5
<1>4. CASE LoopEnds \/ UNCHANGED protectorVars
  <2>1. /\ UNCHANGED <<tzInfoMap, levelAction, levelMap, execCount, act, wanted>>
        /\ phase' = "ended" \/ phase' = phase
    BY <1>4 DEF LoopEnds, protectorVars
  <2>2. \A a : AskedAt(levelMap, a) => AskedAt(levelMap, a)'
    BY <2>1 DEF AskedAt
  <2>3. ExecutionInv'
    BY <1>1, <2>1, <2>2 DEF ExecutionInv
  <2>4. ZoneInv' /\ EntryInv' /\ NodeInv' /\ LimitInForce'
    BY <1>1, <2>1 DEF ZoneInv, EntryInv, NodeInv, LimitInForce
  <2> QED BY <2>3, <2>4 DEF ProtectorInv
<1> QED BY <1>2, <1>3, <1>4 DEF ProtectorNext

LEMMA ProtectorInvariant == ProtectorSpec => []ProtectorInv
BY ProtectorInitially, ProtectorStep, PTL DEF ProtectorSpec

(* One reading moves a zone of the protector to the nearest settled level. *)
THEOREM JudgmentsSettle == ProtectorSpec => []JudgmentSettles
<1>1. ZoneInv => JudgmentSettles
  <2> SUFFICES ASSUME ZoneInv, NEW z \in DOMAIN tzInfoMap,
                      NEW l \in 0 .. Len(tzInfoMap[z].items), NEW t \in Temps,
                      Banded(tzInfoMap[z])
               PROVE  LET m == Judgment(tzInfoMap[z], l, t)
                          between == IF m > l THEN l .. m - 1 ELSE m + 1 .. l
                      IN  /\ Settled(tzInfoMap[z], m, t)
                          /\ \A k \in between : ~ Settled(tzInfoMap[z], k, t)
    BY DEF JudgmentSettles
  <2>1. tzInfoMap[z] \in ZoneRecords /\ t \in Int
    BY ProtectorAssumption DEF ZoneInv
  <2> QED BY <2>1, JudgmentMoves
<1> QED BY <1>1, ProtectorInvariant, PTL DEF ProtectorInv

(* The node of an action whose last write did not fail holds the limit     *)
(* last decided, or 0 once the action was executed twice for it.           *)
THEOREM LimitsAreInForce == ProtectorSpec => []LimitInForce
BY ProtectorInvariant, PTL DEF ProtectorInv
=============================================================================
