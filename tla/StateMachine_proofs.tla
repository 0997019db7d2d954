------------------------- MODULE StateMachine_proofs ------------------------
(***************************************************************************)
(* Proofs about the state machine of the service: Startup, which builds    *)
(* the collections from a configuration and delivers events to them, for   *)
(* any documents and any reports, and DelayedStates, whose collections     *)
(* judge after a delay, for any number of timers that may run or wait for  *)
(* the mutex and any number of common events under way.                    *)
(***************************************************************************)
EXTENDS Startup, DelayedStates, SequenceTheorems, WellFoundedInduction, TLAPS

-----------------------------------------------------------------------------
(* Least and greatest elements. *)

NatOrder == {p \in Nat \X Nat : p[1] < p[2]}

(* The order of the naturals has no infinite descent. *)
LEMMA NatOrderWellFounded == IsWellFoundedOn(NatOrder, Nat)
BY NatLessThanWellFounded DEF OpToRel, NatOrder

(* Min is the least element of a set of naturals. *)
LEMMA MinNat ==
  ASSUME NEW S \in SUBSET Nat, S # {}
  PROVE  Min(S) \in S /\ \A y \in S : Min(S) <= y
<1>1. PICK x \in S : \A y \in S : ~(<<y, x>> \in NatOrder)
  BY Zenon, NatOrderWellFounded, WFMin
<1>2. \A y \in S : x <= y
  <2> TAKE y \in S
  <2>1. x \in Nat /\ y \in Nat
    OBVIOUS
  <2>2. ~(<<y, x>> \in NatOrder)
    BY <1>1
  <2>3. ~(y < x)
    BY <2>1, <2>2 DEF NatOrder
  <2> QED BY <2>1, <2>3
<1> QED BY <1>2 DEF Min

(* Max is the greatest element of a bounded set of naturals. *)
LEMMA MaxBounded ==
  ASSUME NEW n \in Nat, NEW S \in SUBSET (0..n), S # {}
  PROVE  Max(S) \in S /\ \A y \in S : y <= Max(S)
<1> DEFINE M == {n - i : i \in S}
<1>1. M \subseteq Nat
  OBVIOUS
<1>2. M # {}
  <2>1. PICK i \in S : TRUE
    OBVIOUS
  <2>2. n - i \in M
    BY <2>1
  <2> QED BY <2>2
<1>3. Min(M) \in M /\ \A y \in M : Min(M) <= y
  <2> HIDE DEF M
  <2> QED BY <1>1, <1>2, MinNat
<1>4. PICK x \in S : Min(M) = n - x
  BY <1>3
<1>5. \A y \in S : y <= x
  <2> TAKE y \in S
  <2>1. n - y \in M
    OBVIOUS
  <2>2. n - x <= n - y
    BY <1>3, <1>4, <2>1
  <2>3. x \in Int /\ y \in Int
    OBVIOUS
  <2> HIDE DEF M
  <2> QED BY <2>2, <2>3
<1> HIDE DEF M
<1> QED BY <1>5 DEF Max

-----------------------------------------------------------------------------
(* The operators the maps are built with. *)

(* A sequence is numbered from 1. *)
LEMMA SeqDomain ==
  ASSUME NEW list, IsSeq(list)
  PROVE  Len(list) \in Nat /\ DOMAIN list = 1 .. Len(list)
BY DEF IsSeq

(* What is numbered from 1 is a sequence. *)
LEMMA NumberedIsSeq ==
  ASSUME NEW n \in Nat, NEW f, f = [i \in 1 .. n |-> f[i]]
  PROVE  IsSeq(f) /\ Len(f) = n
<1>1. \A i \in 1 .. n : f[i] \in Range(f)
  BY DEF Range
<1>2. [i \in 1 .. n |-> f[i]] \in Seq(Range(f)) /\ Len([i \in 1 .. n |-> f[i]]) = n
  BY <1>1
<1> QED BY <1>2 DEF IsSeq

(* A sequence stays one when it grows. *)
LEMMA AppendIsSeq ==
  ASSUME NEW list, IsSeq(list), NEW x
  PROVE  /\ IsSeq(Append(list, x))
         /\ \A j \in DOMAIN list : j \in DOMAIN Append(list, x) /\ Append(list, x)[j] = list[j]
<1> DEFINE S == Range(list) \cup {x}
<1>1. list \in Seq(S) /\ x \in S
  BY DEF IsSeq
<1>2. /\ Append(list, x) \in Seq(S)
      /\ \A j \in DOMAIN list : j \in DOMAIN Append(list, x) /\ Append(list, x)[j] = list[j]
  <2> HIDE DEF S
  <2> QED BY <1>1
<1>3. Len(Append(list, x)) \in Nat
      /\ Append(list, x) = [i \in 1 .. Len(Append(list, x)) |-> Append(list, x)[i]]
  <2> HIDE DEF S
  <2>1. PICK n \in Nat : Append(list, x) \in [1 .. n -> S]
    <3>1. Seq(S) = UNION {[1 .. n -> S] : n \in Nat}
      BY Zenon, SeqDef
    <3> QED BY Zenon, <1>2, <3>1
  <2>2. Len(Append(list, x)) = n
    BY <2>1
  <2> QED BY <2>1, <2>2
<1> QED BY <1>2, <1>3, NumberedIsSeq

LEMMA AppendEnds ==
  ASSUME NEW list, IsSeq(list), NEW x
  PROVE  Len(Append(list, x)) = Len(list) + 1 /\ Append(list, x)[Len(list) + 1] = x
<1> DEFINE S == Range(list) \cup {x}
<1>1. list \in Seq(S) /\ x \in S
  BY DEF IsSeq
<1> HIDE DEF S
<1> QED BY <1>1, AppendProperties

(* The entry of a key is that of the first time the list has it. *)
LEMMA Emplaced ==
  ASSUME NEW n \in Nat, NEW keys, DOMAIN keys = 1 .. n, NEW values
  PROVE  /\ DOMAIN Emplace(keys, values) = Range(keys)
         /\ \A k \in Range(keys) : \E i \in 1 .. n :
               keys[i] = k /\ Emplace(keys, values)[k] = values[i]
<1>1. DOMAIN Emplace(keys, values) = Range(keys)
  BY DEF Emplace
<1>2. ASSUME NEW k \in Range(keys)
      PROVE  \E i \in 1 .. n : keys[i] = k /\ Emplace(keys, values)[k] = values[i]
  <2> DEFINE own == {i \in DOMAIN keys : keys[i] = k}
  <2>1. own \subseteq 1 .. n /\ own \in SUBSET Nat /\ own # {}
    BY <1>2 DEF Range
  <2>2. Min(own) \in own
    <3> HIDE DEF own
    <3> QED BY <2>1, MinNat
  <2>3. Emplace(keys, values)[k] = values[Min(own)]
    BY <1>2 DEF Emplace
  <2> QED BY <2>1, <2>2, <2>3
<1> QED BY <1>1, <1>2

(* A map with more entries, and one with an entry replaced. *)
LEMMA MoreEntries ==
  ASSUME NEW map, NEW more
  PROVE  /\ DOMAIN EmplaceAll(map, more) = DOMAIN map \cup DOMAIN more
         /\ \A k \in DOMAIN map : EmplaceAll(map, more)[k] = map[k]
         /\ \A k \in DOMAIN more \ DOMAIN map : EmplaceAll(map, more)[k] = more[k]
BY DEF EmplaceAll

LEMMA Assigned ==
  ASSUME NEW map, NEW key, NEW value
  PROVE  /\ DOMAIN Assign(map, key, value) = DOMAIN map \cup {key}
         /\ Assign(map, key, value)[key] = value
         /\ \A k \in DOMAIN map \ {key} : Assign(map, key, value)[k] = map[k]
BY DEF Assign

-----------------------------------------------------------------------------
(* A root node and the sections of the configuration. *)

Fields == {"base", "simulation", "level", "state", "action", "policy", "idle", "fan"}

(* What an accepted node has for the section of its kind. *)
Parsed(node) ==
  CASE node.kind = "base" -> BaseInfo(node)
    [] node.kind = "level" -> ParseLevelNode(node)
    [] node.kind = "state" -> ParseStateNode(node)
    [] node.kind = "action" -> ParseActionNode(node)
    [] node.kind = "policy" -> ParsePolicyNode(node)
    [] node.kind = "idle" -> ParseIdleNode(node)
    [] node.kind = "fan" -> ParseFanNode(node)

(* A node stores nothing in the section of another kind; an accepted node  *)
(* replaces that of its own, whatever was there; of the nodes that are     *)
(* refused only <base> stores anything.                                    *)
LEMMA NodeStores ==
  ASSUME NEW c, DOMAIN c = Fields, NEW node
  PROVE  /\ DOMAIN ParseRootNode(c, node) = Fields
         /\ \A kind \in Kinds \ {node.kind} : ParseRootNode(c, node)[kind] = c[kind]
         /\ node.kind \in Kinds /\ ParseRootNodeOk(node) =>
               ParseRootNode(c, node)[node.kind] = Parsed(node)
         /\ node.kind # "base" /\ ~ ParseRootNodeOk(node) => ParseRootNode(c, node) = c
<1>1. CASE node.kind = "base" /\ BaseItemsOk(node)
  <2>1. ParseRootNode(c, node) =
          [c EXCEPT !.base = BaseInfo(node),
                    !.simulation = IF ParseBaseNodeOk(node)
                                   THEN SimulationXml(BaseInfo(node)) ELSE @]
    BY <1>1 DEF ParseRootNode
  <2> QED BY <1>1, <2>1 DEF Fields, Kinds, Parsed
<1>2. CASE node.kind = "base" /\ ~ BaseItemsOk(node)
  BY <1>2 DEF ParseRootNode, ParseRootNodeOk, ParseBaseNodeOk, Kinds
<1>3. CASE node.kind \in Kinds \ {"base"} /\ ParseRootNodeOk(node)
  <2>1. ParseRootNode(c, node) = [c EXCEPT ![node.kind] = Parsed(node)]
    BY <1>3 DEF ParseRootNode, Parsed, Kinds
  <2> QED BY <1>3, <2>1 DEF Fields, Kinds
<1>4. CASE node.kind \notin Kinds \/ (node.kind # "base" /\ ~ ParseRootNodeOk(node))
  <2>1. ParseRootNode(c, node) = c
    BY <1>4 DEF ParseRootNode, ParseRootNodeOk, Kinds
  <2> QED BY <1>4, <2>1 DEF Fields, Kinds
<1> QED BY <1>1, <1>2, <1>3, <1>4 DEF Kinds

-----------------------------------------------------------------------------
(* The events and the timers that call a collection. *)

EventStep ==
  \/ \E on \in BOOLEAN : HandleScreen(on) \/ HandlePower(on)
  \/ \E t \in timers : TimerFires(t)

(* The collection with an identity is called for a state: by the handler   *)
(* of its event or by its timer.                                           *)
Called(id, e, value) ==
  /\ phase # "crashed" /\ Use(id)
  /\ \/ e \in DOMAIN handlers \cap TimedClasses /\ subscribed /\ id = handlers[e]
     \/ \E t \in timers : t.id = id /\ t.class = e
  /\ timers' \subseteq timers \cup {[id |-> id, class |-> e]}
  /\ \/ /\ UNCHANGED collections
        /\ told' = Assign(told, "charge", Switch(isCharge_'))
     \/ /\ Set(id, value) /\ UNCHANGED isCharge_
        /\ told' = Assign(told, e, value)
     \/ /\ Set(id, value)
        /\ told' = Assign(Assign(told, "charge", Switch(isCharge_')), e, value)

(* What no event and no timer touches. *)
Untouched ==
  UNCHANGED <<file, pos, config, actionMap, levelAction, listening, published, files,
              vState, initFlag, made, handlers, subscribed, scene, early>>

(* Every event and every timer calls one collection. *)
LEMMA EventCalls ==
  ASSUME EventStep
  PROVE  Untouched /\ \E id, e, value : Called(id, e, value)
<1>1. ASSUME NEW on \in BOOLEAN, HandleScreen(on)
      PROVE  Untouched /\ \E id, e, value : Called(id, e, value)
  <2> DEFINE id == handlers["screen"]
             t == [id |-> id, class |-> "screen"]
  <2>1. \E answer : /\ Use(id) /\ Set(id, answer)
                    /\ RestartTimer(t) \/ StopTimer(t)
                    /\ told' = Assign(told, "screen", answer)
    BY <1>1 DEF HandleScreen
  <2>2. PICK answer : /\ Use(id) /\ Set(id, answer)
                      /\ RestartTimer(t) \/ StopTimer(t)
                      /\ told' = Assign(told, "screen", answer)
    BY <2>1
  <2>3. timers' \subseteq timers \cup {t}
    BY <2>2 DEF RestartTimer, StopTimer
  <2>4. Heard("screen") /\ UNCHANGED isCharge_ /\ "screen" \in TimedClasses
    BY <1>1 DEF HandleScreen, TimedClasses
  <2>5. Called(id, "screen", answer)
    BY <2>2, <2>3, <2>4 DEF Called, Heard
  <2> QED BY <2>4, <2>5 DEF Heard, Untouched
<1>2. ASSUME NEW connected \in BOOLEAN, HandlePower(connected)
      PROVE  Untouched /\ \E id, e, value : Called(id, e, value)
  <2> DEFINE id == handlers["charge_delay"]
             t == [id |-> id, class |-> "charge_delay"]
             charge == Assign(told, "charge", Switch(connected))
  <2>1. /\ Heard("charge_delay") /\ Use(id) /\ isCharge_' = connected
        /\ IF connected = isCharge_
           THEN told' = charge /\ UNCHANGED <<collections, timers>>
           ELSE /\ Set(id, Switch(~ connected))
                /\ IF connected THEN StopTimer(t) ELSE RestartTimer(t)
                /\ told' = Assign(charge, "charge_delay", Switch(~ connected))
    BY <1>2 DEF HandlePower
  <2>2. timers' \subseteq timers \cup {t}
    BY <2>1 DEF RestartTimer, StopTimer
  <2>3. "charge_delay" \in TimedClasses
    BY DEF TimedClasses
  <2>4. Called(id, "charge_delay", Switch(~ connected))
    BY <2>1, <2>2, <2>3 DEF Called, Heard
  <2> QED BY <2>1, <2>4 DEF Heard, Untouched
<1>3. ASSUME NEW t \in timers, TimerFires(t)
      PROVE  Untouched /\ \E id, e, value : Called(id, e, value)
  <2> DEFINE answer == Switch(t.class = "screen")
  <2>1. /\ Use(t.id) /\ Set(t.id, answer) /\ told' = Assign(told, t.class, answer)
        /\ phase # "crashed" /\ timers' = timers \ {t} /\ UNCHANGED isCharge_ /\ Untouched
    BY <1>3 DEF TimerFires, Untouched, outside
  <2>2. Called(t.id, t.class, answer)
    BY <2>1 DEF Called
  <2> QED BY <2>1, <2>2
<1> QED BY <1>1, <1>2, <1>3 DEF EventStep

(* Every step is of OnStart or of the state machine, a request, an event   *)
(* or a timer, or moves the charger or the display only.                   *)
OtherStep == ReadChargeState \/ DisplayTurns \/ UNCHANGED vars

LEMMA Steps ==
  ASSUME [Next]_vars
  PROVE  \/ OnStartThread
         \/ \E ok \in BOOLEAN : StateMachineInit(ok)
         \/ \E name, value : UpdateThermalState(name, value)
         \/ \E value : SetScene(value)
         \/ EventStep
         \/ OtherStep
BY DEF Next, EventStep, OtherStep

LEMMA OtherLeaves ==
  ASSUME OtherStep
  PROVE  /\ UNCHANGED <<start, files, vState, machine, scene, early>>
         /\ \/ UNCHANGED <<isCharge_, told>>
            \/ told' = Assign(told, "charge", Switch(isCharge_'))
BY DEF OtherStep, ReadChargeState, DisplayTurns, vars, outside

-----------------------------------------------------------------------------
(* The order of OnStart: the listeners are added once the configuration is *)
(* read, requests come once the service is published, and the handlers of  *)
(* events once the state machine is initialized.                           *)

PhaseInv ==
  /\ listening => phase \in {"publish", "ready", "unpublished", "crashed"}
  /\ phase \in {"publish", "ready", "unpublished"} => listening
  /\ published => listening /\ phase \in {"ready", "crashed"}
  /\ initFlag => listening
  /\ ~ initFlag => ~ subscribed /\ DOMAIN handlers = {} /\ timers = {}

(* Every step keeps the order. *)
LEMMA PhaseStep == PhaseInv /\ [Next]_vars => PhaseInv'
<1> SUFFICES ASSUME PhaseInv, [Next]_vars PROVE PhaseInv'
  OBVIOUS
<1> USE DEF PhaseInv
<1>1. CASE OnStart
  BY <1>1 DEF OnStart, machine
<1>2. CASE ParseXmlFile
  BY <1>2 DEF ParseXmlFile, FileFails, machine
<1>3. CASE InitModules
  BY <1>3 DEF InitModules, machine
<1>4. CASE AddListeners
  BY <1>4 DEF AddListeners, machine
<1>5. ASSUME NEW ok \in BOOLEAN, Publish(ok) PROVE PhaseInv'
  BY <1>5 DEF Publish, machine
<1>6. ASSUME NEW ok \in BOOLEAN, StateMachineInit(ok) PROVE PhaseInv'
  <2>1. listening /\ phase # "crashed" /\ initFlag' = TRUE /\ UNCHANGED <<phase, listening, published>>
    BY <1>6 DEF StateMachineInit, start
  <2> QED BY <2>1
<1>7. ASSUME NEW name, NEW value, UpdateThermalState(name, value) PROVE PhaseInv'
  BY <1>7 DEF UpdateThermalState, start
<1>8. ASSUME NEW value, SetScene(value) PROVE PhaseInv'
  BY <1>8 DEF SetScene, start, machine
<1>9. CASE EventStep
  <2>1. PICK id, e, value : Called(id, e, value)
    BY <1>9, EventCalls
  <2>2. phase' \in {phase, "crashed"} /\ (initFlag \/ timers # {})
    BY <2>1 DEF Called, Use
  <2>3. UNCHANGED <<listening, published, initFlag, handlers, subscribed>>
    BY <1>9, EventCalls DEF Untouched
  <2>4. initFlag
    BY <2>2
  <2> QED BY <2>2, <2>3, <2>4
<1>10. CASE OtherStep
  BY <1>10, OtherLeaves DEF start, machine
<1> QED BY <1>1, <1>2, <1>3, <1>4, <1>5, <1>6, <1>7, <1>8, <1>9, <1>10, Steps
        DEF OnStartThread

-----------------------------------------------------------------------------
(* The file being read. *)

FileInv ==
  /\ files \in FileChoices /\ file \in {"policy", "vendor", "system"}
  /\ DOMAIN config = Fields
  /\ phase \in {"down", "parse"} => pos \in Nat \ {0}

(* A file that is there holds a list of well-formed nodes. *)
LEMMA FileHolds ==
  ASSUME FileInv, files[file] # NoFile
  PROVE  /\ Len(Doc) \in Nat /\ DOMAIN Doc = 1 .. Len(Doc)
         /\ \A i \in DOMAIN Doc : WellFormed(Doc[i])
<1>1. files[file] \in DOMAIN Docs
  BY StartupAssumption DEF FileInv
<1>2. IsSeq(Doc) /\ All(Doc, WellFormed)
  BY <1>1, StartupAssumption DEF Doc
<1> QED BY <1>2, SeqDomain DEF All

(* A step of the parser stores at most the node it is at. *)
LEMMA ParserStep ==
  ASSUME FileInv, ParseXmlFile
  PROVE  \/ config' = config
         \/ /\ files[file] # NoFile /\ pos \in DOMAIN Doc /\ WellFormed(Doc[pos])
            /\ config' = ParseRootNode(config, Doc[pos])
<1>1. CASE files[file] = NoFile \/ pos > Len(Doc)
  BY <1>1 DEF ParseXmlFile
<1>2. CASE files[file] # NoFile /\ ~ (pos > Len(Doc))
  BY <1>2, FileHolds DEF ParseXmlFile, FileInv
<1> QED BY <1>1, <1>2

(* Only the parser and the sort of the policies touch the configuration. *)
LEMMA ConfigStep ==
  ASSUME FileInv, [Next]_vars
  PROVE  \/ ParseXmlFile
         \/ /\ vState' = vState \/ published
            /\ \/ config' = config
               \/ \E policies : config' = [config EXCEPT !.policy = policies]
<1>1. CASE InitModules
  BY <1>1 DEF InitModules
<1>2. CASE EventStep
  BY <1>2, EventCalls DEF Untouched
<1>3. CASE OtherStep
  BY <1>3, OtherLeaves DEF start
<1> QED BY <1>1, <1>2, <1>3, Steps DEF OnStartThread, OnStart, AddListeners, Publish,
           StateMachineInit, UpdateThermalState, SetScene, start

(* Every step keeps the file and its fields. *)
LEMMA FileStep == FileInv /\ [Next]_vars => FileInv'
<1> SUFFICES ASSUME FileInv, [Next]_vars PROVE FileInv'
  OBVIOUS
<1>1. DOMAIN config' = Fields
  <2>1. CASE ParseXmlFile
    <3>1. CASE config' = config
      BY <3>1 DEF FileInv
    <3>2. CASE config' = ParseRootNode(config, Doc[pos])
      <4>1. DOMAIN config = Fields
        BY DEF FileInv
      <4>2. DOMAIN ParseRootNode(config, Doc[pos]) = Fields
        BY <4>1, NodeStores
      <4> QED BY <3>2, <4>2
    <3> QED BY <2>1, <3>1, <3>2, ParserStep
  <2>2. CASE config' = config \/ \E policies : config' = [config EXCEPT !.policy = policies]
    BY <2>2 DEF FileInv
  <2> QED BY <2>1, <2>2, ConfigStep
<1>2. UNCHANGED files
  <2>1. CASE EventStep
    BY <2>1, EventCalls DEF Untouched
  <2>2. CASE OtherStep
    BY <2>2, OtherLeaves
  <2> QED BY <2>1, <2>2, Steps DEF OnStartThread, OnStart, ParseXmlFile, InitModules,
             AddListeners, Publish, StateMachineInit, UpdateThermalState, SetScene
<1>3. /\ file' \in {"policy", "vendor", "system"}
      /\ phase' \in {"down", "parse"} => pos' \in Nat \ {0}
  <2>1. CASE OnStart
    BY <2>1 DEF OnStart, FileInv
  <2>2. CASE ParseXmlFile
    BY <2>2 DEF ParseXmlFile, FileFails, FileInv
  <2>3. CASE UNCHANGED <<file, pos>> /\ (phase' = phase \/ phase' \notin {"down", "parse"})
    BY <2>3 DEF FileInv
  <2>4. CASE InitModules \/ AddListeners \/ \E ok \in BOOLEAN : Publish(ok)
    BY <2>3, <2>4 DEF InitModules, AddListeners, Publish
  <2>5. CASE EventStep
    <3>1. phase' \in {phase, "crashed"} /\ UNCHANGED <<file, pos>>
      BY <2>5, EventCalls DEF Called, Use, Untouched
    <3> QED BY <2>3, <3>1
  <2>6. CASE OtherStep
    BY <2>3, <2>6, OtherLeaves DEF start
  <2> QED BY <2>1, <2>2, <2>3, <2>4, <2>5, <2>6, Steps DEF OnStartThread, StateMachineInit,
             UpdateThermalState, SetScene, start
<1> QED BY <1>1, <1>2, <1>3 DEF FileInv

-----------------------------------------------------------------------------
(* The states of the configuration are among those of the state machine,   *)
(* and once it is initialized they have their collections.                 *)

StateInv ==
  /\ IsSeq(config.state) /\ IsSeq(vState)
  /\ \A i \in DOMAIN config.state : \E j \in DOMAIN vState : vState[j].name = config.state[i].name
  /\ StatesComplete

(* What a root node stores as states is a list. *)
LEMMA StateList ==
  ASSUME NEW c, DOMAIN c = Fields, NEW node, WellFormed(node), IsSeq(c.state)
  PROVE  IsSeq(ParseRootNode(c, node).state)
<1>1. CASE node.kind = "state" /\ ParseRootNodeOk(node)
  <2>1. ParseRootNode(c, node).state = ParseStateNode(node)
    <3>1. ParseRootNode(c, node)[node.kind] = Parsed(node)
      BY <1>1, NodeStores DEF Kinds
    <3> QED BY <1>1, <3>1 DEF Parsed
  <2>2. Len(node.items) \in Nat /\ DOMAIN node.items = 1 .. Len(node.items)
    BY <1>1, SeqDomain DEF WellFormed
  <2>3. ParseStateNode(node) = [i \in 1 .. Len(node.items) |-> ParseStateNode(node)[i]]
    BY <2>2 DEF ParseStateNode
  <2> QED BY <2>1, <2>2, <2>3, NumberedIsSeq
<1>2. CASE ~ (node.kind = "state" /\ ParseRootNodeOk(node))
  <2>1. ParseRootNode(c, node).state = c.state
    BY <1>2, NodeStores DEF Kinds
  <2> QED BY <2>1
<1> QED BY <1>1, <1>2

(* A step only adds collections, never takes one away. *)
LEMMA CollectionsGrow == [Next]_vars => DOMAIN collections \subseteq DOMAIN collections'
<1> SUFFICES ASSUME [Next]_vars PROVE DOMAIN collections \subseteq DOMAIN collections'
  OBVIOUS
<1>1. ASSUME NEW ok, StateMachineInit(ok) PROVE DOMAIN collections \subseteq DOMAIN collections'
  <2>1. \E more : collections' = EmplaceAll(collections, more)
    BY <1>1 DEF StateMachineInit
  <2>2. PICK more : collections' = EmplaceAll(collections, more)
    BY <2>1
  <2> QED BY <2>2, MoreEntries
<1>2. ASSUME NEW name, NEW value, UpdateState(name, value)
      PROVE  DOMAIN collections \subseteq DOMAIN collections'
  <2>1. CASE name \in DOMAIN collections
    BY <1>2, <2>1 DEF UpdateState
  <2>2. CASE name \notin DOMAIN collections
    <3>1. \E new : collections' = Assign(collections, name, new)
      BY <1>2, <2>2 DEF UpdateState
    <3>2. PICK new : collections' = Assign(collections, name, new)
      BY <3>1
    <3>3. DOMAIN Assign(collections, name, new) = DOMAIN collections \cup {name}
      BY Assigned
    <3> QED BY <3>2, <3>3
  <2> QED BY <2>1, <2>2
<1>3. CASE EventStep
  <2>1. PICK id, e, value : Called(id, e, value)
    BY <1>3, EventCalls
  <2> QED BY <2>1 DEF Called, Set
<1>4. CASE OtherStep
  BY <1>4, OtherLeaves DEF machine
<1> QED BY <1>1, <1>2, <1>3, <1>4, Steps DEF OnStartThread, OnStart, ParseXmlFile,
           InitModules, AddListeners, Publish, UpdateThermalState, SetScene, machine

(* Every step keeps the states: the configuration does not change any more *)
(* when the state machine is initialized.                                  *)
LEMMA StateStep == FileInv /\ PhaseInv /\ StateInv /\ [Next]_vars => StateInv'
<1> SUFFICES ASSUME FileInv, PhaseInv, StateInv, [Next]_vars PROVE StateInv'
  OBVIOUS
<1>1. CASE ParseXmlFile
  <2>1. ~ initFlag'
    BY <1>1 DEF ParseXmlFile, machine, PhaseInv
  <2>2. IsSeq(config'.state)
    <3>1. DOMAIN config = Fields /\ IsSeq(config.state)
      BY DEF FileInv, StateInv
    <3> QED BY <1>1, <3>1, ParserStep, StateList
  <2>3. vState' = config'.state
    BY <1>1 DEF ParseXmlFile
  <2> QED BY <2>1, <2>2, <2>3 DEF StateInv, StatesComplete
<1>2. CASE ~ ParseXmlFile
  <2>1. config'.state = config.state
    BY <1>2, ConfigStep DEF FileInv, Fields
  <2>2. /\ IsSeq(vState')
        /\ \A j \in DOMAIN vState : j \in DOMAIN vState' /\ vState'[j] = vState[j]
    <3>1. CASE vState' = vState
      BY <3>1 DEF StateInv
    <3>2. CASE \E name, value : UpdateThermalState(name, value)
      <4>1. PICK name, value : UpdateState(name, value)
        BY <3>2 DEF UpdateThermalState
      <4>2. CASE name \notin DOMAIN collections
        <5>1. vState' = Append(vState, [name |-> name, params |-> "", isExistParam |-> FALSE])
          BY <4>1, <4>2 DEF UpdateState
        <5> QED BY <5>1, AppendIsSeq DEF StateInv
      <4> QED BY <3>1, <4>1, <4>2 DEF UpdateState
    <3>3. CASE EventStep
      BY <3>1, <3>3, EventCalls DEF Untouched
    <3>4. CASE OtherStep
      BY <3>1, <3>4, OtherLeaves
    <3> QED BY <1>2, <3>1, <3>2, <3>3, <3>4, Steps DEF OnStartThread, OnStart, InitModules,
               AddListeners, Publish, StateMachineInit, SetScene
  <2>3. StatesComplete'
    <3>1. CASE initFlag
      BY <2>1, <3>1, CollectionsGrow DEF StateInv, StatesComplete
    <3>2. CASE ~ initFlag /\ initFlag'
      <4>1. PICK ok \in BOOLEAN : StateMachineInit(ok)
        <5>1. ~ EventStep
          BY <3>2, EventCalls DEF Untouched
        <5>2. ~ OtherStep
          BY <3>2, OtherLeaves DEF machine
        <5> QED BY <1>2, <3>2, <5>1, <5>2, Steps DEF OnStartThread, OnStart, InitModules,
               AddListeners, Publish, UpdateThermalState, SetScene, machine
      <4>2. Range(Column(vState, "name")) \subseteq DOMAIN collections'
        <5>1. \E new : collections' = EmplaceAll(collections, Emplace(Column(vState, "name"), new))
          BY <4>1 DEF StateMachineInit
        <5>2. PICK new : collections' = EmplaceAll(collections, Emplace(Column(vState, "name"), new))
          BY <5>1
        <5>3. DOMAIN Emplace(Column(vState, "name"), new) = Range(Column(vState, "name"))
          BY DEF Emplace
        <5> QED BY <5>2, <5>3, MoreEntries
      <4>3. \A j \in DOMAIN vState : vState[j].name \in Range(Column(vState, "name"))
        BY DEF Range, Column
      <4> QED BY <2>1, <4>2, <4>3 DEF StateInv, StatesComplete
    <3> QED BY <3>1, <3>2 DEF StatesComplete
  <2> QED BY <2>1, <2>2, <2>3 DEF StateInv
<1> QED BY <1>1, <1>2

-----------------------------------------------------------------------------
(* The collections and the handlers of events. *)

IsCollection(c) ==
  c = [id |-> c.id, class |-> c.class, value |-> c.value, delayed |-> c.delayed]

(* The charger's collection is a singleton. *)
OwnId(name, id) == IF name = "charge" THEN Singleton ELSE id

(* The collections have identities of their own, and before the state      *)
(* machine is initialized all of them were made by requests.               *)
CollectionInv ==
  /\ made \in Nat
  /\ \A n \in DOMAIN collections :
        /\ IsCollection(collections[n]) /\ collections[n].id \in 0 .. made
        /\ collections[n].id = Singleton <=> n = "charge"
        /\ \A m \in DOMAIN collections : collections[m].id = collections[n].id => m = n
  /\ ~ initFlag => DOMAIN collections \subseteq early

(* A pointer that a handler or a timer holds is to no collection but that  *)
(* of its own state, and reaches it unless a request came first.           *)
Held(colls, bound, id, e) ==
  /\ id \in 0 .. bound /\ (id = Singleton <=> e = "charge")
  /\ \A n \in DOMAIN colls : colls[n].id = id => n = e
Reached(colls, updated, id, e) ==
  e \in updated \ {"charge"} \/ (e \in DOMAIN colls /\ colls[e].id = id)

(* Before Init the states are those of the configuration and the requests. *)
StatesListed ==
  \A j \in DOMAIN vState :
     vState[j].name \in early \/ (j \in DOMAIN config.state /\ config.state[j] = vState[j])

Excused == ~ HistoryCountReadable \/ StartupTwice \/ early \cap TimedClasses # {}

HandlerInv ==
  /\ \A e \in DOMAIN handlers :
        /\ e \in EventClasses /\ Held(collections, made, handlers[e], e)
        /\ Reached(collections, early, handlers[e], e)
  /\ \A t \in timers :
        /\ t.class \in TimedClasses /\ Held(collections, made, t.id, t.class)
        /\ \/ Reached(collections, early, t.id, t.class)
           \/ t.class = "startup_delay" /\ StartupTwice
  /\ ~ initFlag => StatesListed
  /\ phase = "crashed" => Excused

(* So the events and the timers reach their states. *)
LEMMA HandlersReach == HandlerInv => EventsReachState
BY DEF HandlerInv, EventsReachState, Reached, Excused

(* A state whose class has an event handler bears the name of that class. *)
LEMMA EventClassName ==
  ASSUME NEW e \in EventClasses, NEW name
  PROVE  StateClass(name) = e <=> name = e
BY DEF EventClasses, StateClass, StateClasses

(* What Create makes, and Init of it. *)
LEMMA Created ==
  ASSUME NEW name, NEW id
  PROVE  /\ IsCollection(Create(name, id))
         /\ Create(name, id).id = OwnId(name, id)
         /\ Create(name, id).class = StateClass(name)
         /\ Create(name, id).value = Fresh(name)
BY DEF Create, IsCollection, OwnId

LEMMA Initialized ==
  ASSUME NEW item, NEW id
  PROVE  /\ IsCollection(InitCollection(item, id))
         /\ InitCollection(item, id).id = OwnId(item.name, id)
         /\ InitCollection(item, id).class = StateClass(item.name)
         /\ item.name = "startup_delay" => InitCollection(item, id).value = ON
<1> DEFINE c == Create(item.name, id)
           value == IF StateClass(item.name) = "startup_delay" THEN ON ELSE c.value
           delayed == (StateClass(item.name) = "screen" /\ item.isExistParam
                         /\ item.params \in DelayParams)
           all == [c EXCEPT !.value = value, !.delayed = delayed]
<1>1. IsCollection(c) /\ c.id = OwnId(item.name, id) /\ c.class = StateClass(item.name)
  BY Created
<1>2. InitCollection(item, id) = all
  BY DEF InitCollection
<1>3. item.name = "startup_delay" => value = ON
  BY DEF StateClass, StateClasses
<1> HIDE DEF c, value, delayed
<1>4. IsCollection(all) /\ all.id = c.id /\ all.class = c.class /\ all.value = value
  <2> DEFINE one == [c EXCEPT !.value = value]
  <2>1. /\ one = [id |-> c.id, class |-> c.class, value |-> value, delayed |-> c.delayed]
        /\ all = [one EXCEPT !.delayed = delayed]
    BY <1>1 DEF IsCollection
  <2>2. all = [id |-> c.id, class |-> c.class, value |-> value, delayed |-> delayed]
    <3> HIDE DEF one, all
    <3> QED BY <2>1
  <2> HIDE DEF all
  <2> QED BY <2>2 DEF IsCollection
<1> QED BY <1>1, <1>2, <1>3, <1>4

(* The state machine's Init keeps the collections that are there; a new    *)
(* one and the handler of its event are made of the same state.            *)
LEMMA InitMakes ==
  ASSUME PhaseInv, StateInv, CollectionInv, NEW ok, StateMachineInit(ok)
  PROVE  /\ made' = made + Len(vState) /\ Len(vState) \in Nat
         /\ DOMAIN collections \subseteq DOMAIN collections'
         /\ \A k \in DOMAIN collections : collections'[k] = collections[k]
         /\ \A k \in DOMAIN collections' \ DOMAIN collections :
               \E i \in 1 .. Len(vState) :
                  vState[i].name = k /\ collections'[k] = InitCollection(vState[i], made + i)
         /\ \A i \in 1 .. Len(vState) : vState[i].name \in DOMAIN collections'
         /\ \A t \in timers' :
               /\ t.class = "startup_delay"
               /\ \E i \in 1 .. Len(vState) :
                     vState[i].name = "startup_delay" /\ t.id = made + i
         /\ \A e \in DOMAIN handlers' :
               /\ e \in EventClasses /\ e \in DOMAIN collections'
               /\ e \notin DOMAIN collections => collections'[e].id = handlers'[e]
               /\ \E i \in 1 .. Len(vState) :
                     vState[i].name = e /\ handlers'[e] = OwnId(e, made + i)
<1> DEFINE n == Len(vState)
           names == Column(vState, "name")
           new == [i \in DOMAIN vState |-> InitCollection(vState[i], made + i)]
           classes == Column(new, "class")
           ids == Column(new, "id")
<1>1. n \in Nat /\ DOMAIN vState = 1 .. n
  BY SeqDomain DEF StateInv
<1>2. /\ made' = made + n
      /\ collections' = EmplaceAll(collections, Emplace(names, new))
      /\ handlers' = EmplaceAll(handlers, InitEventHandles(new))
      /\ timers' \subseteq StartupTimers(new)
      /\ ~ initFlag
  BY DEF StateMachineInit
<1>3. /\ DOMAIN names = 1 .. n /\ DOMAIN new = 1 .. n
      /\ DOMAIN classes = 1 .. n
      /\ \A i \in 1 .. n : names[i] = vState[i].name /\ new[i] = InitCollection(vState[i], made + i)
  BY <1>1 DEF Column
<1>4. \A i \in 1 .. n : /\ classes[i] = StateClass(names[i]) /\ new[i].class = classes[i]
                        /\ ids[i] = new[i].id /\ new[i].id = OwnId(names[i], made + i)
  <2>1. \A i \in 1 .. n : classes[i] = new[i].class /\ ids[i] = new[i].id
    BY <1>3 DEF Column
  <2> QED BY <1>3, <2>1, Initialized
<1> HIDE DEF n, names, new, classes, ids
<1>5. /\ DOMAIN collections' = DOMAIN collections \cup Range(names)
      /\ \A k \in DOMAIN collections : collections'[k] = collections[k]
      /\ \A k \in Range(names) \ DOMAIN collections : collections'[k] = Emplace(names, new)[k]
  <2>1. DOMAIN Emplace(names, new) = Range(names)
    BY DEF Emplace
  <2> DEFINE more == Emplace(names, new)
             all == EmplaceAll(collections, more)
  <2>2. /\ DOMAIN all = DOMAIN collections \cup DOMAIN more
        /\ \A k \in DOMAIN collections : all[k] = collections[k]
        /\ \A k \in DOMAIN more \ DOMAIN collections : all[k] = more[k]
    BY MoreEntries
  <2>3. collections' = all /\ DOMAIN more = Range(names)
    BY <1>2, <2>1
  <2> HIDE DEF more, all
  <2>4. \A k \in Range(names) \ DOMAIN collections : collections'[k] = more[k]
    BY <2>2, <2>3
  <2> QED BY <2>2, <2>3, <2>4 DEF more
<1>6. ASSUME NEW k \in DOMAIN collections' \ DOMAIN collections
      PROVE  \E i \in 1 .. n :
                vState[i].name = k /\ collections'[k] = InitCollection(vState[i], made + i)
  <2>1. PICK i \in 1 .. n : names[i] = k /\ Emplace(names, new)[k] = new[i]
    BY <1>1, <1>3, <1>5, Emplaced
  <2> QED BY <1>3, <1>5, <2>1
<1>7. ASSUME NEW e \in DOMAIN handlers'
      PROVE  /\ e \in EventClasses /\ e \in DOMAIN collections'
             /\ e \notin DOMAIN collections => collections'[e].id = handlers'[e]
             /\ \E i \in 1 .. n :
                   vState[i].name = e /\ handlers'[e] = OwnId(e, made + i)
  <2>1. /\ DOMAIN InitEventHandles(new) = EventClasses \cap Range(classes)
        /\ \A x \in EventClasses \cap Range(classes) :
              InitEventHandles(new)[x] = Emplace(classes, ids)[x]
    BY DEF InitEventHandles, classes, ids
  <2>2. e \in EventClasses /\ e \in Range(classes) /\ handlers'[e] = Emplace(classes, ids)[e]
    <3>1. DOMAIN handlers = {}
      BY <1>2 DEF PhaseInv
    <3> DEFINE more == InitEventHandles(new)
               all == EmplaceAll(handlers, more)
    <3>2. /\ DOMAIN all = DOMAIN handlers \cup DOMAIN more
          /\ \A k \in DOMAIN more \ DOMAIN handlers : all[k] = more[k]
      BY MoreEntries
    <3>3. handlers' = all
      BY <1>2
    <3> HIDE DEF all
    <3>4. e \in DOMAIN more /\ handlers'[e] = more[e]
      BY <3>1, <3>2, <3>3
    <3> QED BY <2>1, <3>4
  <2> DEFINE own == {i \in 1 .. n : names[i] = e}
  <2>3. \A i \in 1 .. n : classes[i] = e <=> names[i] = e
    BY <1>4, <2>2, EventClassName
  <2>4. /\ {i \in DOMAIN classes : classes[i] = e} = own
        /\ {i \in DOMAIN names : names[i] = e} = own
    BY <1>3, <2>3
  <2>5. own # {} /\ own \in SUBSET Nat
    BY <1>1, <1>3, <2>2, <2>3 DEF Range
  <2>6. PICK i \in own : i = Min(own)
    <3> HIDE DEF own
    <3> QED BY <2>5, MinNat
  <2>7. handlers'[e] = ids[i]
    <3> HIDE DEF own
    <3> QED BY <2>2, <2>4, <2>6 DEF Emplace
  <2>8. e \in Range(names)
    BY <1>3, <2>6 DEF Range
  <2>9. Emplace(names, new)[e] = new[i]
    <3> HIDE DEF own
    <3> QED BY <2>4, <2>6, <2>8 DEF Emplace
  <2>10. i \in 1 .. n /\ names[i] = e /\ vState[i].name = e /\ handlers'[e] = new[i].id
    BY <1>3, <1>4, <2>6, <2>7
  <2>11. e \in DOMAIN collections' /\ (e \notin DOMAIN collections => collections'[e] = new[i])
    BY <1>5, <2>8, <2>9
  <2>12. handlers'[e] = OwnId(e, made + i)
    BY <1>4, <2>10
  <2> QED BY <2>2, <2>10, <2>11, <2>12
<1>8. ASSUME NEW t \in timers'
      PROVE  /\ t.class = "startup_delay"
             /\ \E i \in 1 .. n : vState[i].name = "startup_delay" /\ t.id = made + i
  <2>1. t \in StartupTimers(new)
    BY <1>2
  <2>2. PICK i \in DOMAIN new : /\ new[i].class = "startup_delay"
                               /\ t = [id |-> new[i].id, class |-> "startup_delay"]
    BY <2>1 DEF StartupTimers
  <2>3. i \in 1 .. n /\ vState[i].name = "startup_delay" /\ new[i].id = made + i
    BY <1>3, <1>4, <2>2 DEF StateClass, StateClasses, OwnId
  <2> QED BY <2>2, <2>3
<1>9. \A i \in 1 .. n : vState[i].name \in DOMAIN collections'
  BY <1>3, <1>5 DEF Range
<1> QED BY <1>1, <1>2, <1>5, <1>6, <1>7, <1>8, <1>9 DEF n

(* A request sets the value of the collection, which it makes if there is  *)
(* none, and leaves the others alone.                                      *)
LEMMA UpdateMakes ==
  ASSUME CollectionInv, NEW name, NEW value, UpdateState(name, value)
  PROVE  /\ DOMAIN collections' = DOMAIN collections \cup {name}
         /\ \A k \in DOMAIN collections \ {name} : collections'[k] = collections[k]
         /\ IsCollection(collections'[name])
         /\ name \in DOMAIN collections =>
               /\ made' = made /\ collections'[name].id = collections[name].id
               /\ collections'[name].value = IF Settable(name, value) THEN value
                                             ELSE collections[name].value
         /\ name \notin DOMAIN collections =>
               /\ made' = made + 1
               /\ collections'[name].id = OwnId(name, made + 1)
               /\ collections'[name].value = IF Settable(name, value) THEN value ELSE Fresh(name)
<1>1. CASE name \in DOMAIN collections
  <2>1. IsCollection(collections[name])
    BY <1>1 DEF CollectionInv
  <2>2. CASE Settable(name, value)
    <3>1. collections' = [collections EXCEPT ![name].value = value] /\ made' = made
      BY <1>1, <2>2 DEF UpdateState
    <3> QED BY <1>1, <2>1, <2>2, <3>1 DEF IsCollection
  <2>3. CASE ~ Settable(name, value)
    <3>1. collections' = collections /\ made' = made
      BY <1>1, <2>3 DEF UpdateState
    <3> QED BY <1>1, <2>1, <2>3, <3>1
  <2> QED BY <2>2, <2>3
<1>2. CASE name \notin DOMAIN collections
  <2> DEFINE new == Create(name, made + 1)
             set == IF Settable(name, value) THEN [new EXCEPT !.value = value] ELSE new
             all == Assign(collections, name, set)
  <2>1. collections' = all /\ made' = made + 1
    BY <1>2 DEF UpdateState
  <2>2. /\ IsCollection(new) /\ new.id = OwnId(name, made + 1)
        /\ new.value = Fresh(name)
    BY Created
  <2>3. /\ IsCollection(set) /\ set.id = new.id
        /\ set.value = IF Settable(name, value) THEN value ELSE Fresh(name)
    <3> HIDE DEF new
    <3> QED BY <2>2 DEF IsCollection
  <2>4. /\ DOMAIN all = DOMAIN collections \cup {name} /\ all[name] = set
        /\ \A k \in DOMAIN collections \ {name} : all[k] = collections[k]
    <3> HIDE DEF set
    <3> QED BY DEF Assign
  <2> HIDE DEF new, set, all
  <2>5. collections'[name] = set
    BY <2>1, <2>4
  <2> QED BY <1>2, <2>1, <2>2, <2>3, <2>4, <2>5
<1> QED BY <1>1, <1>2

(* What is called is a state's own collection or none. *)
LEMMA CalledHeld ==
  ASSUME HandlerInv, NEW id, NEW e, NEW value, Called(id, e, value)
  PROVE  /\ e \in TimedClasses /\ Held(collections, made, id, e)
         /\ \/ Reached(collections, early, id, e)
            \/ e = "startup_delay" /\ StartupTwice
BY DEF Called, HandlerInv

(* An event or a timer sets the value of the state it is about, or         *)
(* crashes.                                                                *)
LEMMA EventSets ==
  ASSUME CollectionInv, HandlerInv, NEW id, NEW e, NEW value, Called(id, e, value)
  PROVE  /\ DOMAIN collections' = DOMAIN collections
         /\ \A k \in DOMAIN collections :
               /\ IsCollection(collections'[k]) /\ collections'[k].id = collections[k].id
               /\ k # e => collections'[k] = collections[k]
         /\ IF e \in DOMAIN collections /\ collections[e].id = id
            THEN phase' = phase /\ (collections' # collections => collections'[e].value = value)
                 /\ (Set(id, value) => collections'[e].value = value)
            ELSE phase' = "crashed"
<1>1. \A k \in DOMAIN collections : IsCollection(collections[k])
  BY DEF CollectionInv
<1>2. \A n \in DOMAIN collections : collections[n].id = id => n = e
  BY CalledHeld DEF Held
<1>3. phase' = IF e \in DOMAIN collections /\ collections[e].id = id THEN phase ELSE "crashed"
  BY <1>2 DEF Called, Use, Owned
<1>4. CASE collections' = collections /\ ~ Set(id, value)
  BY <1>1, <1>3, <1>4
<1>5. CASE Set(id, value)
  <2>1. DOMAIN collections' = DOMAIN collections
        /\ \A k \in DOMAIN collections :
              collections'[k] = IF collections[k].id = id
                                THEN [collections[k] EXCEPT !.value = value] ELSE collections[k]
    BY <1>5 DEF Set
  <2>2. ASSUME NEW k \in DOMAIN collections
        PROVE  /\ IsCollection(collections'[k]) /\ collections'[k].id = collections[k].id
               /\ k # e => collections'[k] = collections[k]
               /\ collections[k].id = id => collections'[k].value = value
    <3>1. CASE collections[k].id = id
      <4>1. collections'[k] = [collections[k] EXCEPT !.value = value] /\ k = e
        BY <1>2, <2>1, <3>1
      <4> QED BY <1>1, <3>1, <4>1 DEF IsCollection
    <3>2. CASE collections[k].id # id
      <4>1. collections'[k] = collections[k]
        BY <2>1, <3>2
      <4> QED BY <1>1, <3>2, <4>1
    <3> QED BY <3>1, <3>2
  <2> QED BY <1>3, <2>1, <2>2
<1> QED BY <1>4, <1>5 DEF Called

(* Every step keeps the identities of the collections apart. *)
LEMMA CollectionStep ==
  PhaseInv /\ StateInv /\ CollectionInv /\ HandlerInv /\ [Next]_vars => CollectionInv'
<1> SUFFICES ASSUME PhaseInv, StateInv, CollectionInv, HandlerInv, [Next]_vars
             PROVE  CollectionInv'
  OBVIOUS
<1>0. /\ made \in Nat
      /\ \A n \in DOMAIN collections :
            /\ IsCollection(collections[n]) /\ collections[n].id \in 0 .. made
            /\ collections[n].id = Singleton <=> n = "charge"
      /\ \A n, m \in DOMAIN collections : collections[m].id = collections[n].id => m = n
      /\ ~ initFlag => DOMAIN collections \subseteq early
  BY DEF CollectionInv
<1>1. CASE UNCHANGED <<made, collections, initFlag, early>>
  BY <1>0, <1>1 DEF CollectionInv
<1>2. ASSUME NEW ok, StateMachineInit(ok) PROVE CollectionInv'
  <2>1. initFlag' /\ made' \in Nat /\ made <= made' /\ made' = made + Len(vState)
        /\ Len(vState) \in Nat
    BY <1>0, <1>2, InitMakes DEF StateMachineInit
  <2>2. \A k \in DOMAIN collections' \ DOMAIN collections : \E i \in 1 .. Len(vState) :
           /\ vState[i].name = k /\ IsCollection(collections'[k])
           /\ collections'[k].id = IF k = "charge" THEN Singleton ELSE made + i
    BY <1>2, InitMakes, Initialized DEF OwnId
  <2>3. \A k \in DOMAIN collections : k \in DOMAIN collections' /\ collections'[k] = collections[k]
    BY <1>2, InitMakes
  <2>4. ASSUME NEW n \in DOMAIN collections'
        PROVE  /\ IsCollection(collections'[n]) /\ collections'[n].id \in 0 .. made'
               /\ collections'[n].id = Singleton <=> n = "charge"
               /\ n \in DOMAIN collections => collections'[n].id <= made
               /\ n \notin DOMAIN collections /\ n # "charge" =>
                     \E i \in 1 .. Len(vState) :
                        vState[i].name = n /\ collections'[n].id = made + i
    <3>1. CASE n \in DOMAIN collections
      BY <1>0, <2>1, <2>3, <3>1
    <3>2. CASE n \notin DOMAIN collections
      <4>1. PICK i \in 1 .. Len(vState) :
               /\ vState[i].name = n /\ IsCollection(collections'[n])
               /\ collections'[n].id = IF n = "charge" THEN Singleton ELSE made + i
        BY <2>2, <3>2
      <4> QED BY <1>0, <2>1, <3>2, <4>1 DEF Singleton
    <3> QED BY <3>1, <3>2
  <2>5. ASSUME NEW n \in DOMAIN collections', NEW m \in DOMAIN collections',
               collections'[m].id = collections'[n].id
        PROVE  m = n
    <3>1. CASE n = "charge" \/ m = "charge"
      BY <2>4, <2>5, <3>1
    <3>2. CASE n \in DOMAIN collections /\ m \in DOMAIN collections
      BY <1>0, <2>3, <2>5, <3>2
    <3>3. CASE n # "charge" /\ m # "charge" /\ n \notin DOMAIN collections /\ m \notin DOMAIN collections
      <4>1. PICK i \in 1 .. Len(vState) : vState[i].name = n /\ collections'[n].id = made + i
        BY <2>4, <3>3
      <4>2. PICK j \in 1 .. Len(vState) : vState[j].name = m /\ collections'[m].id = made + j
        BY <2>4, <3>3
      <4>3. i = j
        BY <1>0, <2>1, <2>5, <4>1, <4>2
      <4> QED BY <4>1, <4>2, <4>3
    <3>4. ASSUME NEW a \in DOMAIN collections, NEW b \in DOMAIN collections' \ DOMAIN collections,
                 b # "charge"
          PROVE  collections'[a].id # collections'[b].id
      <4>1. PICK i \in 1 .. Len(vState) : collections'[b].id = made + i
        BY <2>4, <3>4
      <4>2. collections'[a].id \in 0 .. made
        BY <1>0, <2>3
      <4> QED BY <1>0, <2>1, <4>1, <4>2
    <3> QED BY <2>5, <3>1, <3>2, <3>3, <3>4
  <2> QED BY <2>1, <2>4, <2>5 DEF CollectionInv
<1>3. ASSUME NEW name, NEW value, UpdateThermalState(name, value) PROVE CollectionInv'
  <2>1. UpdateState(name, value) /\ initFlag' = initFlag
        /\ early' = IF initFlag THEN early ELSE early \cup {name}
    BY <1>3 DEF UpdateThermalState
  <2>2. /\ DOMAIN collections' = DOMAIN collections \cup {name}
        /\ \A k \in DOMAIN collections \ {name} : collections'[k] = collections[k]
        /\ IsCollection(collections'[name])
    BY <2>1, UpdateMakes
  <2>3. CASE name \in DOMAIN collections
    <3>1. made' = made /\ collections'[name].id = collections[name].id
      BY <2>1, <2>3, UpdateMakes
    <3> QED BY <1>0, <2>1, <2>2, <2>3, <3>1 DEF CollectionInv
  <2>4. CASE name \notin DOMAIN collections
    <3>1. made' = made + 1
          /\ collections'[name].id = IF name = "charge" THEN Singleton ELSE made + 1
      BY <2>1, <2>4, UpdateMakes DEF OwnId
    <3>2. made' \in Nat /\ collections'[name].id \in 0 .. made'
          /\ (collections'[name].id = Singleton <=> name = "charge")
      BY <1>0, <3>1 DEF Singleton
    <3>3. ASSUME NEW n \in DOMAIN collections
          PROVE  collections'[n] = collections[n] /\ collections'[name].id # collections'[n].id
      <4>1. collections'[n] = collections[n]
        BY <2>2, <2>4
      <4> QED BY <1>0, <2>4, <3>1, <4>1
    <3>4. \A n \in DOMAIN collections : collections'[n].id \in 0 .. made'
      BY <1>0, <3>1, <3>3
    <3> QED BY <1>0, <2>1, <2>2, <3>2, <3>3, <3>4 DEF CollectionInv
  <2> QED BY <2>3, <2>4
<1>4. CASE EventStep
  <2>1. UNCHANGED <<made, initFlag, early>>
    BY <1>4, EventCalls DEF Untouched
  <2>2. /\ DOMAIN collections' = DOMAIN collections
        /\ \A k \in DOMAIN collections :
              IsCollection(collections'[k]) /\ collections'[k].id = collections[k].id
    BY <1>4, EventCalls, EventSets
  <2> QED BY <1>0, <2>1, <2>2 DEF CollectionInv
<1>5. CASE OtherStep
  BY <1>1, <1>5, OtherLeaves DEF machine
<1> QED BY <1>1, <1>2, <1>3, <1>4, <1>5, Steps DEF OnStartThread, OnStart, ParseXmlFile,
           InitModules, AddListeners, Publish, SetScene, machine

(* A request keeps the pointers. *)
LEMMA RequestHeld ==
  ASSUME CollectionInv, NEW name, NEW value, UpdateState(name, value),
         NEW id, NEW e, Held(collections, made, id, e)
  PROVE  /\ Held(collections', made', id, e)
         /\ Reached(collections, early, id, e) => Reached(collections', early, id, e)
<1>1. /\ made \in Nat /\ id \in 0 .. made /\ (id = Singleton <=> e = "charge")
      /\ \A n \in DOMAIN collections : collections[n].id = id => n = e
  BY DEF CollectionInv, Held
<1>2. /\ DOMAIN collections' = DOMAIN collections \cup {name}
      /\ \A k \in DOMAIN collections \ {name} : collections'[k] = collections[k]
  BY UpdateMakes
<1>3. CASE name \in DOMAIN collections
  <2>1. made' = made /\ collections'[name].id = collections[name].id
    BY <1>3, UpdateMakes
  <2> QED BY <1>1, <1>2, <1>3, <2>1 DEF Held, Reached
<1>4. CASE name \notin DOMAIN collections
  <2>1. made' = made + 1
        /\ collections'[name].id = IF name = "charge" THEN Singleton ELSE made + 1
    BY <1>4, UpdateMakes DEF OwnId
  <2>2. id \in 0 .. made' /\ (collections'[name].id = id => name = e)
    BY <1>1, <2>1 DEF Singleton
  <2> QED BY <1>1, <1>2, <1>4, <2>2 DEF Held, Reached
<1> QED BY <1>3, <1>4

(* The pointers of a new handler or timer, made of the i-th state: the     *)
(* identity is new, and no other state has it.                             *)
LEMMA InitHeld ==
  ASSUME PhaseInv, StateInv, CollectionInv, NEW ok, StateMachineInit(ok),
         NEW i \in 1 .. Len(vState), NEW e, vState[i].name = e
  PROVE  Held(collections', made', OwnId(e, made + i), e)
<1> DEFINE id == OwnId(e, made + i)
<1>1. /\ made \in Nat /\ made' = made + Len(vState) /\ Len(vState) \in Nat
      /\ \A n \in DOMAIN collections :
            /\ collections[n].id \in 0 .. made
            /\ collections[n].id = Singleton <=> n = "charge"
            /\ n \in DOMAIN collections' /\ collections'[n] = collections[n]
  BY InitMakes DEF CollectionInv
<1>2. id \in 0 .. made' /\ (id = Singleton <=> e = "charge")
  BY <1>1 DEF OwnId, Singleton
<1>3. ASSUME NEW n \in DOMAIN collections', collections'[n].id = id
      PROVE  n = e
  <2>1. CASE n \in DOMAIN collections
    BY <1>1, <1>3, <2>1 DEF OwnId, Singleton
  <2>2. CASE n \notin DOMAIN collections
    <3>1. PICK j \in 1 .. Len(vState) :
             vState[j].name = n /\ collections'[n] = InitCollection(vState[j], made + j)
      BY <2>2, InitMakes
    <3>2. collections'[n].id = OwnId(n, made + j)
      BY <3>1, Initialized
    <3>3. i = j \/ (n = "charge" /\ e = "charge")
      BY <1>1, <1>3, <3>2 DEF OwnId, Singleton
    <3> QED BY <3>1, <3>3
  <2> QED BY <2>1, <2>2
<1> QED BY <1>2, <1>3 DEF Held

(* Every step keeps the handlers and the timers with their collections. *)
LEMMA HandlerStep ==
  FileInv /\ PhaseInv /\ StateInv /\ CollectionInv /\ HandlerInv /\ [Next]_vars => HandlerInv'
<1> SUFFICES ASSUME FileInv, PhaseInv, StateInv, CollectionInv, HandlerInv, [Next]_vars
             PROVE  HandlerInv'
  OBVIOUS
<1>1. /\ \A e \in DOMAIN handlers :
            /\ e \in EventClasses /\ Held(collections, made, handlers[e], e)
            /\ Reached(collections, early, handlers[e], e)
      /\ \A t \in timers :
            /\ t.class \in TimedClasses /\ Held(collections, made, t.id, t.class)
            /\ \/ Reached(collections, early, t.id, t.class)
               \/ t.class = "startup_delay" /\ StartupTwice
      /\ ~ initFlag => StatesListed
      /\ phase = "crashed" => Excused
  BY DEF HandlerInv
<1>2. ASSUME UNCHANGED <<made, collections, handlers, timers, early, initFlag>>,
             config'.state = config.state, vState' = vState,
             phase' = "crashed" => Excused'
      PROVE  HandlerInv'
  <2>1. StartupTwice' = StartupTwice /\ StatesListed' = StatesListed
    BY <1>2 DEF StartupTwice, StatesListed
  <2> QED BY <1>1, <1>2, <2>1 DEF HandlerInv
<1>3. CASE OnStart \/ AddListeners \/ \E ok \in BOOLEAN : Publish(ok)
  BY <1>2, <1>3 DEF OnStart, AddListeners, Publish, machine
<1>4. CASE ParseXmlFile
  <2>1. UNCHANGED <<made, collections, handlers, timers, early, initFlag>>
        /\ phase' # "crashed" /\ vState' = config'.state
    BY <1>4 DEF ParseXmlFile, FileFails, machine
  <2>2. ~ initFlag /\ DOMAIN handlers = {} /\ timers = {}
    BY <1>4 DEF ParseXmlFile, PhaseInv
  <2> QED BY <2>1, <2>2 DEF HandlerInv, StatesListed
<1>5. CASE InitModules
  <2>1. UNCHANGED <<made, collections, handlers, timers, early, initFlag, vState>>
        /\ phase # "crashed"
    BY <1>5 DEF InitModules, machine
  <2>2. config'.state = config.state /\ config'.base = config.base
    BY <1>5 DEF InitModules, FileInv, Fields
  <2>3. phase' = "crashed" => ~ HistoryCountReadable'
    BY <1>5, <2>2 DEF InitModules, HistoryCountReadable
  <2> QED BY <1>2, <2>1, <2>2, <2>3 DEF Excused
<1>6. ASSUME NEW ok, StateMachineInit(ok) PROVE HandlerInv'
  <2>1. /\ phase' # "crashed" /\ UNCHANGED <<early, config, vState>> /\ ~ initFlag /\ initFlag'
        /\ DOMAIN collections \subseteq early /\ StatesListed
    BY <1>1, <1>6 DEF StateMachineInit, start, CollectionInv
  <2>2. StartupTwice' = StartupTwice
    BY <2>1 DEF StartupTwice
  <2>3. \A n \in DOMAIN collections :
           /\ n \in DOMAIN collections' /\ collections'[n] = collections[n]
           /\ collections[n].id = Singleton <=> n = "charge"
    BY <1>6, InitMakes DEF CollectionInv
  <2>4. ASSUME NEW e \in DOMAIN handlers'
        PROVE  /\ e \in EventClasses /\ Held(collections', made', handlers'[e], e)
               /\ Reached(collections', early', handlers'[e], e)
    <3>1. /\ e \in EventClasses /\ e \in DOMAIN collections'
          /\ e \notin DOMAIN collections => collections'[e].id = handlers'[e]
      BY <1>6, InitMakes
    <3>2. PICK i \in 1 .. Len(vState) : vState[i].name = e /\ handlers'[e] = OwnId(e, made + i)
      BY <1>6, InitMakes
    <3>3. Held(collections', made', handlers'[e], e)
      BY <1>6, <3>2, InitHeld
    <3>4. Reached(collections', early', handlers'[e], e)
      BY <2>1, <2>3, <3>1, <3>2 DEF Reached, OwnId
    <3> QED BY <3>1, <3>3, <3>4
  <2>5. ASSUME NEW t \in timers'
        PROVE  /\ t.class \in TimedClasses /\ Held(collections', made', t.id, t.class)
               /\ \/ Reached(collections', early', t.id, t.class)
                  \/ t.class = "startup_delay" /\ StartupTwice'
    <3> DEFINE e == "startup_delay"
    <3>1. PICK i \in 1 .. Len(vState) : vState[i].name = e /\ t.id = made + i /\ t.class = e
      BY <1>6, InitMakes
    <3>2. OwnId(e, made + i) = t.id
      BY <3>1 DEF OwnId
    <3>3. Held(collections', made', t.id, t.class)
      BY <1>6, <3>1, <3>2, InitHeld
    <3>4. Reached(collections', early', t.id, e) \/ StartupTwice
      <4>1. CASE e \in early
        BY <2>1, <4>1 DEF Reached
      <4>2. CASE e \notin early
        <5>1. e \in DOMAIN collections' /\ e \notin DOMAIN collections
          BY <1>6, <2>1, <3>1, <4>2, InitMakes
        <5>2. PICK j \in 1 .. Len(vState) :
                 vState[j].name = e /\ collections'[e] = InitCollection(vState[j], made + j)
          BY <1>6, <5>1, InitMakes
        <5>3. collections'[e].id = OwnId(e, made + j)
          BY <5>2, Initialized
        <5>4. CASE i = j
          BY <3>2, <5>1, <5>3, <5>4 DEF Reached
        <5>5. CASE i # j
          <6>1. i \in DOMAIN vState /\ j \in DOMAIN vState
            BY SeqDomain DEF StateInv
          <6>2. /\ i \in DOMAIN config.state /\ config.state[i].name = e
                /\ j \in DOMAIN config.state /\ config.state[j].name = e
            BY <2>1, <3>1, <4>2, <5>2, <6>1 DEF StatesListed
          <6> QED BY <5>5, <6>2 DEF StartupTwice
        <5> QED BY <5>4, <5>5
      <4> QED BY <4>1, <4>2
    <3> QED BY <2>2, <3>1, <3>3, <3>4 DEF TimedClasses
  <2> QED BY <2>1, <2>4, <2>5 DEF HandlerInv
<1>7. ASSUME NEW name, NEW value, UpdateThermalState(name, value) PROVE HandlerInv'
  <2>1. /\ UpdateState(name, value) /\ UNCHANGED <<phase, config, handlers, timers, initFlag>>
        /\ phase # "crashed" /\ early' = IF initFlag THEN early ELSE early \cup {name}
    BY <1>7 DEF UpdateThermalState, start
  <2>2. StartupTwice' = StartupTwice
    BY <2>1 DEF StartupTwice
  <2>3. \A id, e : Held(collections, made, id, e) => Held(collections', made', id, e)
    BY <2>1, RequestHeld
  <2>4. \A id, e : Held(collections, made, id, e) /\ Reached(collections, early, id, e)
                     => Reached(collections', early', id, e)
    <3> TAKE id, e
    <3> HAVE Held(collections, made, id, e) /\ Reached(collections, early, id, e)
    <3>1. Reached(collections', early, id, e)
      BY <2>1, RequestHeld
    <3> QED BY <2>1, <3>1 DEF Reached
  <2>5. ~ initFlag => StatesListed'
    <3> HAVE ~ initFlag
    <3>1. CASE vState' = vState
      BY <1>1, <2>1, <3>1 DEF StatesListed
    <3>2. CASE vState' # vState
      <4> DEFINE item == [name |-> name, params |-> "", isExistParam |-> FALSE]
      <4>1. vState' = Append(vState, item)
        BY <2>1, <3>2 DEF UpdateState
      <4>2. PICK n \in Nat : DOMAIN vState = 1 .. n /\ n = Len(vState)
        BY SeqDomain DEF StateInv
      <4>3. /\ DOMAIN vState' = 1 .. (n + 1)
            /\ \A j \in 1 .. n : vState'[j] = vState[j]
            /\ vState'[n + 1] = item
        <5>1. /\ Len(vState') = n + 1 /\ vState'[n + 1] = item /\ IsSeq(vState')
              /\ \A j \in DOMAIN vState : vState'[j] = vState[j]
          BY <4>1, <4>2, AppendIsSeq, AppendEnds DEF StateInv
        <5>2. DOMAIN vState' = 1 .. (n + 1)
          BY <5>1, SeqDomain
        <5> QED BY <4>2, <5>1, <5>2
      <4>4. ASSUME NEW j \in DOMAIN vState'
            PROVE  vState'[j].name \in early'
                     \/ (j \in DOMAIN config.state /\ config.state[j] = vState'[j])
        <5>1. CASE j \in 1 .. n
          BY <1>1, <2>1, <4>2, <4>3, <5>1 DEF StatesListed
        <5>2. CASE j = n + 1
          <6>1. item.name = name
            OBVIOUS
          <6> HIDE DEF item
          <6> QED BY <2>1, <4>3, <5>2, <6>1
        <5>3. j \in 1 .. n \/ j = n + 1
          <6> HIDE DEF item
          <6> QED BY <4>2, <4>3
        <5> QED BY <5>1, <5>2, <5>3
      <4> QED BY <2>1, <4>4 DEF StatesListed
    <3> QED BY <3>1, <3>2
  <2> QED BY <1>1, <2>1, <2>2, <2>3, <2>4, <2>5 DEF HandlerInv
<1>8. CASE EventStep
  <2>1. UNCHANGED <<made, handlers, early, config, vState, initFlag>>
    BY <1>8, EventCalls DEF Untouched
  <2>2. StartupTwice' = StartupTwice /\ HistoryCountReadable' = HistoryCountReadable
        /\ StatesListed' = StatesListed
    BY <2>1 DEF StartupTwice, HistoryCountReadable, StatesListed
  <2>3. PICK id, e, value : Called(id, e, value)
    BY <1>8, EventCalls
  <2>4. /\ DOMAIN collections' = DOMAIN collections
        /\ \A k \in DOMAIN collections : collections'[k].id = collections[k].id
    BY <2>3, EventSets
  <2>5. \A i, c : /\ Held(collections, made, i, c) => Held(collections', made', i, c)
                  /\ Reached(collections, early, i, c) => Reached(collections', early', i, c)
    BY <2>1, <2>4 DEF Held, Reached
  <2>6. /\ e \in TimedClasses /\ Held(collections, made, id, e)
        /\ \/ Reached(collections, early, id, e)
           \/ e = "startup_delay" /\ StartupTwice
    BY <2>3, CalledHeld
  <2>7. phase' = "crashed" => Excused'
    <3> HAVE phase' = "crashed"
    <3>1. ~ (e \in DOMAIN collections /\ collections[e].id = id)
      BY <2>3, EventSets DEF Called
    <3> QED BY <2>1, <2>2, <2>6, <3>1 DEF Reached, Excused
  <2>8. ASSUME NEW t \in timers'
        PROVE  /\ t.class \in TimedClasses /\ Held(collections, made, t.id, t.class)
               /\ \/ Reached(collections, early, t.id, t.class)
                  \/ t.class = "startup_delay" /\ StartupTwice
    <3>1. t \in timers \/ t = [id |-> id, class |-> e]
      BY <2>3 DEF Called
    <3> QED BY <1>1, <2>6, <3>1
  <2> QED BY <1>1, <2>1, <2>2, <2>5, <2>7, <2>8 DEF HandlerInv
<1>9. CASE (\E value : SetScene(value)) \/ OtherStep
  <2>1. UNCHANGED <<phase, config, vState, made, collections, handlers, timers, early, initFlag>>
    BY <1>9, OtherLeaves DEF SetScene, start, machine
  <2>2. Excused' = Excused
    BY <2>1 DEF Excused, HistoryCountReadable, StartupTwice
  <2> QED BY <1>1, <1>2, <2>1, <2>2
<1> QED BY <1>3, <1>4, <1>5, <1>6, <1>7, <1>8, <1>9, Steps DEF OnStartThread

-----------------------------------------------------------------------------
(* What the states were told. *)

ToldOf(n) ==
  CASE n = "scene" -> told[n] = scene
    [] n = "charge" -> told[n] = Switch(isCharge_)
    [] OTHER -> \/ n \in early \cap TimedClasses
                \/ n \in DOMAIN collections /\ told[n] = collections[n].value

ToldInv == phase # "crashed" => \A n \in DOMAIN told : ToldOf(n)

(* Every step keeps the values at what the states were told. *)
LEMMA ToldStep ==
  PhaseInv /\ StateInv /\ CollectionInv /\ HandlerInv /\ ToldInv /\ [Next]_vars => ToldInv'
<1> SUFFICES ASSUME PhaseInv, StateInv, CollectionInv, HandlerInv, ToldInv, [Next]_vars,
                    phase' # "crashed"
             PROVE  ToldInv'
  BY DEF ToldInv
<1>0. ASSUME phase # "crashed" PROVE \A n \in DOMAIN told : ToldOf(n)
  BY <1>0 DEF ToldInv
<1>1. CASE OnStartThread
  <2>1. phase # "crashed" /\ UNCHANGED <<told, scene, isCharge_, collections, early>>
    BY <1>1 DEF OnStartThread, OnStart, ParseXmlFile, InitModules, AddListeners, Publish,
       machine, outside
  <2> QED BY <1>0, <2>1 DEF ToldInv, ToldOf
<1>2. ASSUME NEW ok, StateMachineInit(ok) PROVE ToldInv'
  <2> DEFINE names == Column(vState, "name")
  <2>1. /\ phase # "crashed" /\ UNCHANGED <<scene, early>> /\ ~ initFlag
        /\ "charge" \notin Range(names) => UNCHANGED isCharge_
        /\ told' = EmplaceAll(InitTold(names), told)
        /\ DOMAIN collections \subseteq early
    BY <1>2 DEF StateMachineInit, CollectionInv
  <2>2. DOMAIN InitTold(names) = {"startup_delay", "charge"} \cap Range(names)
        /\ \A n \in DOMAIN InitTold(names) :
              InitTold(names)[n] = IF n = "startup_delay" THEN ON ELSE Switch(isCharge_')
    BY DEF InitTold
  <2> HIDE DEF names
  <2>3. /\ DOMAIN told' = DOMAIN told \cup DOMAIN InitTold(names)
        /\ \A n \in DOMAIN InitTold(names) : told'[n] = InitTold(names)[n]
        /\ \A n \in DOMAIN told \ DOMAIN InitTold(names) : told'[n] = told[n]
    <3> DEFINE more == InitTold(names)
               all == EmplaceAll(more, told)
    <3>1. /\ DOMAIN all = DOMAIN more \cup DOMAIN told
          /\ \A k \in DOMAIN more : all[k] = more[k]
          /\ \A k \in DOMAIN told \ DOMAIN more : all[k] = told[k]
      BY MoreEntries
    <3>2. told' = all
      BY <2>1
    <3> HIDE DEF more, all
    <3> QED BY <3>1, <3>2 DEF more
  <2>4. \A k \in DOMAIN collections : k \in DOMAIN collections' /\ collections'[k] = collections[k]
    BY <1>2, InitMakes
  <2>5. ASSUME NEW n \in DOMAIN told' PROVE ToldOf(n)'
    <3>1. CASE n \notin DOMAIN InitTold(names)
      <4>1. n \in DOMAIN told /\ told'[n] = told[n] /\ ToldOf(n)
        BY <1>0, <2>1, <2>3, <3>1
      <4>2. n = "charge" => UNCHANGED isCharge_
        BY <2>1, <2>2, <3>1
      <4> QED BY <2>1, <2>4, <4>1, <4>2 DEF ToldOf
    <3>2. CASE n = "charge" /\ n \in DOMAIN InitTold(names)
      BY <2>2, <2>3, <3>2 DEF ToldOf
    <3>3. CASE n = "startup_delay" /\ n \in DOMAIN InitTold(names)
      <4>1. told'[n] = ON /\ n \in Range(names)
        BY <2>2, <2>3, <3>3
      <4>2. CASE n \in DOMAIN collections
        BY <2>1, <3>3, <4>2 DEF ToldOf, TimedClasses
      <4>3. CASE n \notin DOMAIN collections
        <5>1. PICK i \in DOMAIN names : names[i] = n
          BY <4>1 DEF Range
        <5>2. i \in 1 .. Len(vState) /\ vState[i].name = n
          BY <5>1, SeqDomain DEF names, Column, StateInv
        <5>3. n \in DOMAIN collections'
          BY <1>2, <5>2, InitMakes
        <5>4. PICK j \in 1 .. Len(vState) :
                 vState[j].name = n /\ collections'[n] = InitCollection(vState[j], made + j)
          BY <1>2, <4>3, <5>3, InitMakes
        <5>5. collections'[n].value = ON
          BY <3>3, <5>4, Initialized
        <5> QED BY <3>3, <4>1, <5>3, <5>5 DEF ToldOf
      <4> QED BY <4>2, <4>3
    <3> QED BY <2>2, <3>1, <3>2, <3>3
  <2> QED BY <2>5 DEF ToldInv
<1>3. ASSUME NEW name, NEW value, UpdateThermalState(name, value) PROVE ToldInv'
  <2>1. /\ UpdateState(name, value) /\ UNCHANGED <<scene, isCharge_>> /\ early \subseteq early'
        /\ told' = Told(name, value) /\ phase # "crashed"
    BY <1>3 DEF UpdateThermalState, outside
  <2>2. /\ DOMAIN collections' = DOMAIN collections \cup {name}
        /\ \A k \in DOMAIN collections \ {name} : collections'[k] = collections[k]
    BY <2>1, UpdateMakes
  <2>3. CASE Settable(name, value)
    <3>1. name \notin {"scene", "charge"} /\ told' = Assign(told, name, value)
      BY <2>1, <2>3 DEF Told, Settable, StateClass, StateClasses
    <3>2. collections'[name].value = value
      BY <2>1, <2>3, UpdateMakes
    <3>3. /\ DOMAIN told' = DOMAIN told \cup {name} /\ told'[name] = value
          /\ \A k \in DOMAIN told \ {name} : told'[k] = told[k]
      BY <3>1 DEF Assign
    <3>4. ToldOf(name)'
      BY <2>2, <3>1, <3>2, <3>3 DEF ToldOf
    <3>5. ASSUME NEW n \in DOMAIN told \ {name} PROVE ToldOf(n)'
      BY <1>0, <2>1, <2>2, <3>3, <3>5 DEF ToldOf
    <3> QED BY <3>3, <3>4, <3>5 DEF ToldInv
  <2>4. CASE ~ Settable(name, value)
    <3>1. told' = told
      BY <2>1, <2>4 DEF Told
    <3>2. name \in DOMAIN collections => collections'[name].value = collections[name].value
      BY <2>1, <2>4, UpdateMakes
    <3>3. ASSUME NEW n \in DOMAIN told PROVE ToldOf(n)'
      BY <1>0, <2>1, <2>2, <3>1, <3>2, <3>3 DEF ToldOf
    <3> QED BY <3>1, <3>3 DEF ToldInv
  <2> QED BY <2>3, <2>4
<1>4. ASSUME NEW value, SetScene(value) PROVE ToldInv'
  <2>1. /\ scene' = value /\ told' = Assign(told, "scene", value)
        /\ UNCHANGED <<phase, isCharge_, collections, early>>
    BY <1>4 DEF SetScene, start, machine
  <2>2. /\ DOMAIN told' = DOMAIN told \cup {"scene"} /\ told'["scene"] = value
        /\ \A k \in DOMAIN told \ {"scene"} : told'[k] = told[k]
    BY <2>1 DEF Assign
  <2> QED BY <1>0, <2>1, <2>2 DEF ToldInv, ToldOf
<1>5. CASE EventStep
  <2>1. UNCHANGED <<scene, early>>
    BY <1>5, EventCalls DEF Untouched
  <2>2. PICK id, e, value : Called(id, e, value)
    BY <1>5, EventCalls
  <2>3. phase # "crashed" /\ e \in TimedClasses
    BY <2>2, CalledHeld DEF Called
  <2>4. e \notin {"scene", "charge"}
    BY <2>3 DEF TimedClasses
  <2>5. /\ DOMAIN collections' = DOMAIN collections
        /\ \A k \in DOMAIN collections : k # e => collections'[k] = collections[k]
        /\ e \in DOMAIN collections
        /\ Set(id, value) => collections'[e].value = value
    BY <2>2, EventSets
  <2> DEFINE charge == Assign(told, "charge", Switch(isCharge_'))
  <2>6. /\ DOMAIN charge = DOMAIN told \cup {"charge"}
        /\ charge["charge"] = Switch(isCharge_')
        /\ \A k \in DOMAIN told \ {"charge"} : charge[k] = told[k]
    BY DEF Assign
  <2> HIDE DEF charge
  <2>7. CASE UNCHANGED collections /\ told' = charge
    BY <1>0, <2>1, <2>3, <2>6, <2>7 DEF ToldInv, ToldOf
  <2>8. CASE Set(id, value) /\ UNCHANGED isCharge_ /\ told' = Assign(told, e, value)
    <3>1. /\ DOMAIN told' = DOMAIN told \cup {e} /\ told'[e] = value
          /\ \A k \in DOMAIN told \ {e} : told'[k] = told[k]
      BY <2>8 DEF Assign
    <3>2. ToldOf(e)'
      BY <2>4, <2>5, <2>8, <3>1 DEF ToldOf
    <3>3. ASSUME NEW n \in DOMAIN told \ {e} PROVE ToldOf(n)'
      BY <1>0, <2>1, <2>3, <2>5, <2>8, <3>1, <3>3 DEF ToldOf
    <3> QED BY <3>1, <3>2, <3>3 DEF ToldInv
  <2>9. CASE Set(id, value) /\ told' = Assign(charge, e, value)
    <3>1. /\ DOMAIN told' = DOMAIN charge \cup {e} /\ told'[e] = value
          /\ \A k \in DOMAIN charge \ {e} : told'[k] = charge[k]
      BY <2>9 DEF Assign
    <3>2. ToldOf(e)'
      BY <2>4, <2>5, <2>9, <3>1 DEF ToldOf
    <3>3. ToldOf("charge")'
      BY <2>4, <2>6, <3>1 DEF ToldOf
    <3>4. ASSUME NEW n \in DOMAIN told \ {e, "charge"} PROVE ToldOf(n)'
      BY <1>0, <2>1, <2>3, <2>5, <2>6, <3>1, <3>4 DEF ToldOf
    <3> QED BY <2>6, <3>1, <3>2, <3>3, <3>4 DEF ToldInv
  <2> QED BY <2>2, <2>7, <2>8, <2>9 DEF Called, charge
<1>6. CASE OtherStep
  <2>1. UNCHANGED <<phase, collections, scene, early>>
    BY <1>6, OtherLeaves DEF start, machine
  <2>2. CASE UNCHANGED <<isCharge_, told>>
    BY <1>0, <2>1, <2>2 DEF ToldInv, ToldOf
  <2>3. CASE told' = Assign(told, "charge", Switch(isCharge_'))
    <3>1. /\ DOMAIN told' = DOMAIN told \cup {"charge"} /\ told'["charge"] = Switch(isCharge_')
          /\ \A k \in DOMAIN told \ {"charge"} : told'[k] = told[k]
      BY <2>3 DEF Assign
    <3> QED BY <1>0, <2>1, <3>1 DEF ToldInv, ToldOf
  <2> QED BY <1>6, <2>2, <2>3, OtherLeaves
<1> QED BY <1>1, <1>2, <1>3, <1>4, <1>5, <1>6, Steps

-----------------------------------------------------------------------------
(* The clusters and the limits of the fan. *)

(* What the level search relies on. *)
Usable(sc) ==
  /\ SL!CheckStandard(sc) /\ SL!LevelCount(sc) >= 1
  /\ \A s \in DOMAIN sc.sensors :
        \A k \in 1 .. SL!LevelCount(sc) : sc.sensors[s][k].level = k
  /\ \A a \in DOMAIN sc.aux : Len(sc.aux[a]) = SL!LevelCount(sc)
  /\ \A k \in DOMAIN sc.diffs : sc.diffs[k].level = k

(* A cluster that is accepted is usable. *)
LEMMA AcceptedUsable ==
  ASSUME NEW c, Listed(c), ClusterOk(c)
  PROVE  Usable(SensorCluster(c))
<1> DEFINE sc == SensorCluster(c)
           m == Len(c.items)
<1>1. m \in Nat /\ DOMAIN c.items = 1 .. m /\ m >= 1
  <2>1. IsSeq(c.items) /\ c.items # << >>
    BY DEF Listed, ClusterOk, ParseSensorInfoOk
  <2> QED BY <2>1, SeqDomain DEF IsSeq
<1>2. ASSUME NEW s \in DOMAIN sc.sensors
      PROVE  /\ Len(sc.sensors[s]) = m /\ DOMAIN sc.sensors[s] = 1 .. m
             /\ \A i \in 1 .. m : sc.sensors[s][i].level = c.items[i].level
  <2> DEFINE values == [j \in DOMAIN c.sensor |-> [i \in DOMAIN c.items |->
        [level |-> c.items[i].level, threshold |-> c.items[i].threshold[j],
         thresholdClr |-> c.items[i].threshold_clr[j],
         tempRiseRate |-> IF Has(c.items[i], "temp_rise_rate")
                          THEN c.items[i].temp_rise_rate[j] ELSE DefaultRiseRate]]]
  <2>1. sc.sensors = Emplace(c.sensor, values)
    BY DEF SensorCluster, ParseSensorInfo
  <2>2. Len(c.sensor) \in Nat /\ DOMAIN c.sensor = 1 .. Len(c.sensor)
    <3>1. IsSeq(Get(c, "sensor", << >>)) /\ Has(c, "sensor")
      BY DEF Listed, ClusterOk, ParseSensorInfoOk
    <3> QED BY <3>1, SeqDomain DEF Get
  <2>3. \A j \in DOMAIN c.sensor :
           /\ values[j] = [i \in 1 .. m |-> values[j][i]]
           /\ \A i \in 1 .. m : values[j][i].level = c.items[i].level
    BY <1>1
  <2> HIDE DEF values
  <2>4. PICK j \in DOMAIN c.sensor : sc.sensors[s] = values[j]
    BY <2>1, <2>2, Emplaced
  <2>5. Len(values[j]) = m
    BY <1>1, <2>3, NumberedIsSeq
  <2> QED BY <2>3, <2>4, <2>5
<1>3. ASSUME NEW a \in DOMAIN sc.aux PROVE Len(sc.aux[a]) = m
  <2> DEFINE auxsensors == Get(c, "aux_sensor", << >>)
             values == [j \in DOMAIN auxsensors |-> [i \in DOMAIN c.items |->
                [lower |-> c.items[i].aux_trigger_range[j][1],
                 upper |-> c.items[i].aux_trigger_range[j][2], level |-> c.items[i].level]]]
  <2>1. sc.aux = Emplace(auxsensors, values)
    BY DEF SensorCluster, ParseAuxSensorInfo
  <2>2. Len(auxsensors) \in Nat /\ DOMAIN auxsensors = 1 .. Len(auxsensors)
    <3>1. IsSeq(auxsensors)
      BY DEF Listed
    <3> QED BY <3>1, SeqDomain
  <2>3. \A j \in DOMAIN auxsensors : values[j] = [i \in 1 .. m |-> values[j][i]]
    BY <1>1
  <2> HIDE DEF values, auxsensors
  <2>4. PICK j \in DOMAIN auxsensors : sc.aux[a] = values[j]
    BY <2>1, <2>2, Emplaced
  <2> QED BY <1>1, <2>3, <2>4, NumberedIsSeq
<1>4. CheckStandard(sc) /\ SL!CheckStandard(sc)
  BY DEF ClusterOk, CheckStandard
<1>5. PICK s \in DOMAIN sc.sensors : SL!LevelCount(sc) = Len(sc.sensors[s])
  BY <1>4 DEF SL!CheckStandard, SL!LevelCount
<1>6. SL!LevelCount(sc) = m
  BY <1>2, <1>5
<1>7. \A r \in DOMAIN sc.sensors : \A k \in 1 .. m : sc.sensors[r][k].level = k
  BY <1>2, <1>4 DEF CheckStandard
<1>8. \A k \in DOMAIN sc.diffs : sc.diffs[k].level = k
  <2>1. sc.diffs = ParseTempDiffInfo(c)
    BY DEF SensorCluster
  <2>2. \A k \in 1 .. m : c.items[k].level = k
    BY <1>2, <1>5, <1>7
  <2> HIDE DEF sc
  <2> QED BY <1>1, <2>1, <2>2 DEF ParseTempDiffInfo
<1> QED BY <1>1, <1>3, <1>4, <1>6, <1>7, <1>8 DEF Usable

FanLimits(faults) == \A f \in DOMAIN faults : \A s \in DOMAIN faults[f] : faults[f][s] \in Int

SectionInv == ClustersUsable /\ FanLimits(config.fan)

(* Every cluster of an accepted <level> node is usable. *)
LEMMA LevelNodeUsable ==
  ASSUME NEW node, node.kind = "level", WellFormed(node), ParseRootNodeOk(node)
  PROVE  \A name \in DOMAIN ParseLevelNode(node) : Usable(ParseLevelNode(node)[name])
<1> DEFINE keys == Column(node.clusters, "name")
           values == [i \in DOMAIN node.clusters |-> SensorCluster(node.clusters[i])]
<1>1. Len(node.clusters) \in Nat /\ DOMAIN node.clusters = 1 .. Len(node.clusters)
  BY SeqDomain DEF WellFormed
<1>2. \A i \in DOMAIN node.clusters : Listed(node.clusters[i]) /\ ClusterOk(node.clusters[i])
  BY DEF WellFormed, All, ParseRootNodeOk, ParseLevelNodeOk
<1>3. DOMAIN keys = DOMAIN node.clusters
      /\ \A i \in DOMAIN node.clusters : Usable(values[i])
  BY <1>2, AcceptedUsable DEF Column
<1>4. ParseLevelNode(node) = Emplace(keys, values)
  BY DEF ParseLevelNode
<1> HIDE DEF keys, values
<1>5. ASSUME NEW name \in DOMAIN ParseLevelNode(node)
      PROVE  \E i \in DOMAIN node.clusters : ParseLevelNode(node)[name] = values[i]
  BY <1>1, <1>3, <1>4, Emplaced
<1> QED BY <1>3, <1>5

(* The limits of an accepted <fan> node are numbers. *)
LEMMA FanNodeLimits ==
  ASSUME NEW node, node.kind = "fan", WellFormed(node), ParseRootNodeOk(node)
  PROVE  FanLimits(ParseFanNode(node))
<1> DEFINE faults(j) == Range(Column(node.clusters[j].items, "fault"))
<1> SUFFICES ASSUME NEW f \in DOMAIN ParseFanNode(node), NEW s \in DOMAIN ParseFanNode(node)[f]
             PROVE  ParseFanNode(node)[f][s] \in Int
  BY DEF FanLimits
<1>1. Len(node.clusters) \in Nat /\ DOMAIN node.clusters = 1 .. Len(node.clusters)
  BY SeqDomain DEF WellFormed
<1> DEFINE own == {j \in DOMAIN node.clusters : f \in faults(j)}
           c == node.clusters[Min(own)]
           keys == Column(c.items, "fault")
           limits == Emplace(keys, Column(c.items, "threshold"))[f]
<1>2. /\ f \in UNION {faults(j) : j \in DOMAIN node.clusters}
      /\ ParseFanNode(node)[f] = Emplace(c.sensor, limits)
  BY DEF ParseFanNode
<1>3. Min(own) \in own
  <2>1. own # {}
    <3>1. \E j \in DOMAIN node.clusters : f \in faults(j)
      <4> HIDE DEF faults
      <4> QED BY Zenon, <1>2
    <3> HIDE DEF faults
    <3> QED BY <3>1
  <2>2. own \in SUBSET Nat
    <3> HIDE DEF faults
    <3> QED BY <1>1
  <2> HIDE DEF own
  <2> QED BY <2>1, <2>2, MinNat
<1>4. Min(own) \in DOMAIN node.clusters /\ f \in Range(keys)
  BY <1>3
<1> HIDE DEF own
<1>5. /\ Listed(c) /\ Has(c, "sensor")
      /\ \A i \in DOMAIN c.items :
            /\ Has(c.items[i], "threshold") /\ Len(c.items[i].threshold) = Len(c.sensor)
            /\ Get(c.items[i], "threshold", << >>) \in Seq(Int)
  BY <1>4 DEF WellFormed, All, ParseRootNodeOk, ParseFanNodeOk
<1> HIDE DEF c
<1>6. /\ Len(c.items) \in Nat /\ DOMAIN c.items = 1 .. Len(c.items)
      /\ Len(c.sensor) \in Nat /\ DOMAIN c.sensor = 1 .. Len(c.sensor)
  <2>1. IsSeq(c.items) /\ IsSeq(c.sensor)
    BY <1>5 DEF Listed, Get
  <2> QED BY <2>1, SeqDomain
<1>7. PICK i \in DOMAIN c.items : limits = c.items[i].threshold
  <2>1. DOMAIN keys = 1 .. Len(c.items)
    BY <1>6 DEF Column
  <2>2. PICK i \in 1 .. Len(c.items) : limits = Column(c.items, "threshold")[i]
    <3> HIDE DEF keys
    <3> QED BY <1>4, <1>6, <2>1, Emplaced
  <2> QED BY <1>6, <2>2 DEF Column
<1>8. limits \in Seq(Int) /\ Len(limits) = Len(c.sensor)
  BY <1>5, <1>7 DEF Get
<1> HIDE DEF limits
<1>9. PICK j \in 1 .. Len(c.sensor) : ParseFanNode(node)[f][s] = limits[j]
  <2>1. s \in Range(c.sensor)
    BY <1>2 DEF Emplace
  <2> QED BY <1>2, <1>6, <2>1, Emplaced
<1> QED BY <1>6, <1>8, <1>9

(* Every step keeps what is known of the sections. *)
LEMMA SectionStep == FileInv /\ SectionInv /\ [Next]_vars => SectionInv'
<1> SUFFICES ASSUME FileInv, SectionInv, [Next]_vars PROVE SectionInv'
  OBVIOUS
<1>0. DOMAIN config = Fields
  BY DEF FileInv
<1>1. SectionInv <=> /\ \A name \in DOMAIN config.level : Usable(config.level[name])
                     /\ FanLimits(config.fan)
  BY DEF SectionInv, ClustersUsable, Usable
<1>2. SectionInv' <=> /\ \A name \in DOMAIN config'.level : Usable(config'.level[name])
                      /\ FanLimits(config'.fan)
  BY DEF SectionInv, ClustersUsable, Usable
<1>3. CASE config'.level = config.level /\ config'.fan = config.fan
  BY <1>1, <1>2, <1>3
<1>4. CASE ParseXmlFile
  <2>1. CASE config' = config
    BY <1>3, <2>1
  <2>2. CASE config' # config
    <3> DEFINE node == Doc[pos]
    <3>1. WellFormed(node) /\ config' = ParseRootNode(config, node)
      BY <1>4, <2>2, ParserStep
    <3> HIDE DEF node
    <3>2. node.kind # "level" => config'.level = config.level
      BY <1>0, <3>1, NodeStores DEF Kinds
    <3>3. node.kind # "fan" => config'.fan = config.fan
      BY <1>0, <3>1, NodeStores DEF Kinds
    <3>4. node.kind \in {"level", "fan"} => ParseRootNodeOk(node)
      BY <1>0, <2>2, <3>1, NodeStores
    <3>5. node.kind \in {"level", "fan"} => config'[node.kind] = Parsed(node)
      BY <1>0, <3>1, <3>4, NodeStores DEF Kinds
    <3>6. CASE node.kind = "level"
      <4>1. config'.level = ParseLevelNode(node)
        BY <3>5, <3>6 DEF Parsed
      <4>2. \A name \in DOMAIN ParseLevelNode(node) : Usable(ParseLevelNode(node)[name])
        BY <3>1, <3>4, <3>6, LevelNodeUsable
      <4> QED BY <1>1, <1>2, <3>3, <3>6, <4>1, <4>2
    <3>7. CASE node.kind = "fan"
      <4>1. config'.fan = ParseFanNode(node)
        BY <3>5, <3>7 DEF Parsed
      <4>2. FanLimits(ParseFanNode(node))
        BY <3>1, <3>4, <3>7, FanNodeLimits
      <4> QED BY <1>1, <1>2, <3>2, <3>7, <4>1, <4>2
    <3> QED BY <1>3, <3>2, <3>3, <3>6, <3>7
  <2> QED BY <2>1, <2>2
<1>5. CASE config' = config \/ \E policies : config' = [config EXCEPT !.policy = policies]
  BY <1>0, <1>3, <1>5 DEF Fields
<1> QED BY <1>4, <1>5, ConfigStep

-----------------------------------------------------------------------------
(* The sections and the nodes of the file read so far. *)

Reading == phase \in {"parse", "modules"} \/ Accepted
Seen == IF phase = "parse" THEN 1 .. pos - 1 ELSE DOMAIN Doc
SeenOf(kind) == {i \in Seen : Doc[i].kind = kind}
Sorted(policy) == [c \in DOMAIN policy |-> SortLevel(policy[c])]
Kept(kind, node) == IF kind = "policy" /\ Accepted THEN Sorted(Parsed(node)) ELSE Parsed(node)

(* A section is what the last node of its kind holds; without one it is    *)
(* empty, or left by the file of the vendor.                               *)
SectionsRead ==
  \A kind \in Kinds :
     IF SeenOf(kind) # {} THEN config[kind] = Kept(kind, Doc[Max(SeenOf(kind))])
     ELSE \/ config[kind] = EmptyConfig[kind]
          \/ file = "system" /\ files["vendor"] # NoFile

ReadInv ==
  /\ phase = "down" => config = EmptyConfig
  /\ phase = "parse" => pos = 1 \/ (files[file] # NoFile /\ pos <= Len(Doc) + 1)
  /\ phase = "modules" \/ Accepted => files[file] # NoFile
  /\ Reading => SectionsRead /\ \A i \in Seen : ParseRootNodeOk(Doc[i])

(* The greatest element, when it is known. *)
LEMMA MaxIs ==
  ASSUME NEW S \in SUBSET Int, NEW m \in S, \A y \in S : y <= m
  PROVE  Max(S) = m
<1>1. \A y \in S : m >= y
  OBVIOUS
<1>2. Max(S) \in S /\ \A y \in S : Max(S) >= y
  BY <1>1, Zenon DEF Max
<1>3. Max(S) \in Int /\ m \in Int /\ m >= Max(S) /\ Max(S) >= m
  BY <1>1, <1>2
<1> QED BY <1>3

(* An empty policy has nothing to sort. *)
LEMMA SortedEmpty == Sorted(EmptyConfig["policy"]) = EmptyConfig["policy"]
<1>1. EmptyConfig["policy"] = << >>
  BY DEF EmptyConfig
<1>2. Sorted(<< >>) = << >>
  BY DEF Sorted
<1> QED BY <1>1, <1>2

(* Every step keeps the sections in line with the nodes read. *)
LEMMA ReadStep == FileInv /\ PhaseInv /\ ReadInv /\ [Next]_vars => ReadInv'
<1> SUFFICES ASSUME FileInv, PhaseInv, ReadInv, [Next]_vars PROVE ReadInv'
  OBVIOUS
<1>0. files' = files
  <2>1. CASE EventStep
    BY <2>1 DEF EventStep, HandleScreen, HandlePower, TimerFires, Heard
  <2>2. CASE OtherStep
    BY <2>2, OtherLeaves
  <2> QED BY <2>1, <2>2, Steps DEF OnStartThread, OnStart, ParseXmlFile, InitModules,
             AddListeners, Publish, StateMachineInit, UpdateThermalState, SetScene
<1>1. CASE OnStart
  <2>1. config' = EmptyConfig /\ phase' = "parse" /\ pos' = 1
    BY <1>1 DEF OnStart, ReadInv
  <2>2. Seen' = {}
    BY <2>1 DEF Seen
  <2> QED BY <2>1, <2>2 DEF ReadInv, SectionsRead, SeenOf, Accepted
<1>2. CASE ParseXmlFile
  <2>0. /\ phase = "parse" /\ pos \in Nat \ {0} /\ DOMAIN config = Fields
        /\ SectionsRead /\ \A i \in Seen : ParseRootNodeOk(Doc[i])
        /\ pos = 1 \/ (files[file] # NoFile /\ pos <= Len(Doc) + 1)
        /\ Seen = 1 .. pos - 1
    BY <1>2 DEF ParseXmlFile, ReadInv, FileInv, Reading, Seen
  <2>1. CASE FileFails
    <3>1. CASE file # "vendor"
      BY <2>1, <3>1 DEF FileFails, ReadInv, Reading, Accepted
    <3>2. CASE file = "vendor"
      <4>1. phase' = "parse" /\ file' = "system" /\ pos' = 1
        BY <2>1, <3>2 DEF FileFails, ParseXmlFile
      <4>2. Seen' = {}
        BY <4>1 DEF Seen
      <4>3. \A kind \in Kinds : config'[kind] = EmptyConfig[kind] \/ files["vendor"] # NoFile
        <5>1. SUFFICES ASSUME files["vendor"] = NoFile, NEW kind \in Kinds
                       PROVE  config'[kind] = EmptyConfig[kind]
          BY <5>1
        <5>2. pos = 1 /\ config' = config
          BY <1>2, <2>0, <3>2, <5>1 DEF ParseXmlFile
        <5>3. Seen = {}
          BY <2>0, <5>2
        <5>4. SeenOf(kind) = {}
          BY <5>3 DEF SeenOf
        <5> QED BY <2>0, <3>2, <5>2, <5>4 DEF SectionsRead
      <4> QED BY <1>0, <4>1, <4>2, <4>3 DEF ReadInv, SectionsRead, SeenOf, Accepted
    <3> QED BY <3>1, <3>2
  <2>2. CASE ~ FileFails
    <3>1. /\ files[file] # NoFile /\ file' = file
          /\ ~ (pos <= Len(Doc) /\ ~ ParseRootNodeOk(Doc[pos]))
          /\ IF pos > Len(Doc) THEN phase' = "modules" /\ pos' = pos
             ELSE pos' = pos + 1 /\ phase' = phase
      BY <1>2, <2>2 DEF ParseXmlFile
    <3>2. /\ Len(Doc) \in Nat /\ DOMAIN Doc = 1 .. Len(Doc)
          /\ Doc' = Doc
      BY <1>0, <3>1, FileHolds DEF Doc
    <3>3. CASE pos > Len(Doc)
      <4>1. config' = config /\ Seen' = Seen
        BY <1>2, <2>0, <3>1, <3>2, <3>3 DEF ParseXmlFile, Seen
      <4>2. SectionsRead'
        BY <1>0, <2>0, <3>1, <3>2, <3>3, <4>1 DEF SectionsRead, SeenOf, Kept, Accepted
      <4> QED BY <1>0, <2>0, <3>1, <3>2, <3>3, <4>1, <4>2 DEF ReadInv
    <3>4. CASE ~ (pos > Len(Doc))
      <4>1. /\ config' = ParseRootNode(config, Doc[pos]) /\ ParseRootNodeOk(Doc[pos])
            /\ pos' = pos + 1 /\ phase' = "parse"
        BY <1>2, <2>0, <3>1, <3>2, <3>4 DEF ParseXmlFile
      <4>2. Seen' = Seen \cup {pos}
        BY <2>0, <4>1 DEF Seen
      <4>3. SectionsRead'
        <5> SUFFICES ASSUME NEW kind \in Kinds
                     PROVE  IF SeenOf(kind)' # {}
                            THEN config'[kind] = Kept(kind, Doc[Max(SeenOf(kind))])'
                            ELSE \/ config'[kind] = EmptyConfig[kind]
                                 \/ file' = "system" /\ files'["vendor"] # NoFile
          BY DEF SectionsRead
        <5>1. Kept(kind, Doc[Max(SeenOf(kind))])' = Parsed(Doc[Max(SeenOf(kind)')])
          BY <3>2, <4>1 DEF Kept, Accepted
        <5>2. CASE Doc[pos].kind = kind
          <6>1. SeenOf(kind)' = SeenOf(kind) \cup {pos}
            BY <3>2, <4>2, <5>2 DEF SeenOf
          <6>2. Max(SeenOf(kind)') = pos
            <7> DEFINE S == SeenOf(kind) \cup {pos}
            <7>1. S \in SUBSET Int /\ pos \in S /\ \A y \in S : y <= pos
              BY <2>0 DEF SeenOf
            <7> HIDE DEF S
            <7>2. Max(S) = pos
              BY <7>1, MaxIs
            <7> QED BY <6>1, <7>2 DEF S
          <6>3. config'[kind] = Parsed(Doc[pos])
            BY <2>0, <4>1, <5>2, NodeStores
          <6> QED BY <5>1, <6>1, <6>2, <6>3
        <5>3. CASE Doc[pos].kind # kind
          <6>1. SeenOf(kind)' = SeenOf(kind)
            BY <3>2, <4>2, <5>3 DEF SeenOf
          <6>2. config'[kind] = config[kind]
            BY <2>0, <4>1, <5>3, NodeStores
          <6>3. Kept(kind, Doc[Max(SeenOf(kind))]) = Parsed(Doc[Max(SeenOf(kind))])
            BY <2>0 DEF Kept, Accepted
          <6> QED BY <1>0, <2>0, <3>1, <5>1, <6>1, <6>2, <6>3 DEF SectionsRead
        <5> QED BY <5>2, <5>3
      <4> QED BY <1>0, <2>0, <3>1, <3>2, <3>4, <4>1, <4>2, <4>3 DEF ReadInv, Accepted
    <3> QED BY <3>3, <3>4
  <2> QED BY <2>1, <2>2
<1>3. CASE InitModules
  <2>1. CASE ~ HistoryCountReadable
    BY <1>3, <2>1 DEF InitModules, ReadInv, Reading, Accepted
  <2>2. CASE HistoryCountReadable
    <3>1. /\ phase = "modules" /\ phase' = "listeners" /\ file' = file
          /\ config' = [config EXCEPT !.policy = Sorted(config.policy)]
      BY <1>3, <2>2 DEF InitModules, Sorted
    <3>2. /\ SectionsRead /\ files[file] # NoFile /\ \A i \in Seen : ParseRootNodeOk(Doc[i])
          /\ Doc' = Doc /\ Seen' = Seen
      BY <1>0, <3>1 DEF ReadInv, Reading, Doc, Seen
    <3>3. \A kind \in Kinds : SeenOf(kind)' = SeenOf(kind)
      BY <3>2 DEF SeenOf
    <3>4. /\ \A kind \in Kinds \ {"policy"} : config'[kind] = config[kind]
          /\ config'["policy"] = Sorted(config["policy"])
      BY <3>1 DEF FileInv, Fields, Kinds
    <3>5. ~ Accepted /\ Accepted'
      BY <3>1 DEF Accepted
    <3>6. ASSUME NEW kind \in Kinds
          PROVE  IF SeenOf(kind) # {}
                 THEN config'[kind] = Kept(kind, Doc[Max(SeenOf(kind))])'
                 ELSE \/ config'[kind] = EmptyConfig[kind]
                      \/ file' = "system" /\ files'["vendor"] # NoFile
      <4>1. CASE kind # "policy"
        <5>1. Kept(kind, Doc[Max(SeenOf(kind))])' = Parsed(Doc[Max(SeenOf(kind))])
          BY <3>2, <3>3, <4>1 DEF Kept
        <5>2. Kept(kind, Doc[Max(SeenOf(kind))]) = Parsed(Doc[Max(SeenOf(kind))])
          BY <4>1 DEF Kept
        <5> QED BY <1>0, <3>1, <3>2, <3>4, <4>1, <5>1, <5>2 DEF SectionsRead
      <4>2. CASE kind = "policy"
        <5>1. Kept(kind, Doc[Max(SeenOf(kind))])' = Sorted(Parsed(Doc[Max(SeenOf(kind))]))
          BY <3>2, <3>3, <3>5, <4>2 DEF Kept
        <5>2. Kept(kind, Doc[Max(SeenOf(kind))]) = Parsed(Doc[Max(SeenOf(kind))])
          BY <3>5 DEF Kept
        <5>3. CASE SeenOf(kind) # {}
          <6>1. config[kind] = Parsed(Doc[Max(SeenOf(kind))])
            BY <3>2, <5>2, <5>3 DEF SectionsRead
          <6> QED BY <3>4, <4>2, <5>1, <5>3, <6>1
        <5>4. CASE SeenOf(kind) = {}
          <6>1. config[kind] = EmptyConfig[kind] \/ (file = "system" /\ files["vendor"] # NoFile)
            BY <3>2, <5>4 DEF SectionsRead
          <6> QED BY <1>0, <3>1, <3>4, <4>2, <5>4, <6>1, SortedEmpty
        <5> QED BY <5>3, <5>4
      <4> QED BY <4>1, <4>2
    <3>7. SectionsRead'
      BY <3>3, <3>6 DEF SectionsRead
    <3> QED BY <1>0, <3>1, <3>2, <3>7 DEF ReadInv
  <2> QED BY <2>1, <2>2
<1>4. ASSUME UNCHANGED <<file, pos, config>>,
             phase' = phase \/ (Accepted /\ Accepted') \/ phase' = "crashed"
      PROVE  ReadInv'
  <2>1. CASE phase' = "crashed"
    BY <2>1 DEF ReadInv, Reading, Accepted
  <2>2. CASE phase' # "crashed"
    <3>1. /\ (phase = "parse") <=> (phase' = "parse")
          /\ (phase = "down") <=> (phase' = "down")
          /\ (phase = "modules") <=> (phase' = "modules")
          /\ Accepted <=> Accepted'
      BY <1>4, <2>2 DEF Accepted
    <3>2. Doc' = Doc /\ Seen' = Seen
      BY <1>0, <1>4, <3>1 DEF Doc, Seen
    <3>3. SectionsRead => SectionsRead'
      BY <1>0, <1>4, <3>1, <3>2 DEF SectionsRead, SeenOf, Kept
    <3> QED BY <1>0, <1>4, <3>1, <3>2, <3>3 DEF ReadInv, Reading
  <2> QED BY <2>1, <2>2
<1>5. CASE AddListeners \/ \E ok \in BOOLEAN : Publish(ok)
  BY <1>4, <1>5 DEF AddListeners, Publish, Accepted
<1>6. CASE EventStep
  <2>1. UNCHANGED <<file, pos, config>> /\ phase' \in {phase, "crashed"}
    BY <1>6, EventCalls DEF Untouched, Called, Use
  <2> QED BY <1>4, <2>1
<1>7. CASE OtherStep
  BY <1>4, <1>7, OtherLeaves DEF start
<1> QED BY <1>1, <1>2, <1>3, <1>4, <1>5, <1>6, <1>7, Steps DEF OnStartThread,
           StateMachineInit, UpdateThermalState, SetScene, start

-----------------------------------------------------------------------------
(* The invariant of the start-up. *)

StartupInv ==
  /\ PhaseInv /\ FileInv /\ StateInv
  /\ CollectionInv /\ HandlerInv /\ ToldInv
  /\ SectionInv /\ ReadInv

(* The initial states satisfy it. *)
LEMMA StartupInitially == Init => StartupInv
<1> SUFFICES ASSUME Init PROVE StartupInv
  OBVIOUS
<1>1. EmptyConfig.state = << >> /\ EmptyConfig.level = << >> /\ EmptyConfig.fan = << >>
      /\ DOMAIN EmptyConfig = Fields
  BY DEF EmptyConfig, Fields
<1>2. PhaseInv /\ FileInv
  BY <1>1 DEF Init, PhaseInv, FileInv
<1>3. StateInv
  <2>1. IsSeq(<< >>)
    BY DEF IsSeq
  <2> QED BY <1>1, <2>1 DEF Init, StateInv, StatesComplete
<1>4. CollectionInv /\ HandlerInv /\ ToldInv
  BY DEF Init, CollectionInv, HandlerInv, StatesListed, ToldInv
<1>5. SectionInv
  BY <1>1 DEF Init, SectionInv, ClustersUsable, FanLimits
<1>6. ReadInv
  BY DEF Init, ReadInv, Reading, Accepted
<1> QED BY <1>2, <1>3, <1>4, <1>5, <1>6 DEF StartupInv

(* It is an invariant. *)
LEMMA StartupInvariant == Spec => []StartupInv
<1>1. StartupInv /\ [Next]_vars => StartupInv'
  BY PhaseStep, FileStep, StateStep, CollectionStep, HandlerStep, ToldStep, SectionStep, ReadStep
     DEF StartupInv
<1> QED BY StartupInitially, <1>1, PTL DEF Spec

-----------------------------------------------------------------------------
(* Theorems. *)

(* A service that got past its configuration runs with the sections of the *)
(* file that was accepted as a whole, whatever the files hold.             *)
THEOREM SectionsAreAccepted == Spec => []AcceptedConfig
<1>1. StartupInv => AcceptedConfig
  <2> SUFFICES ASSUME StartupInv, Accepted, NEW kind \in Kinds
               PROVE  IF \E i \in DOMAIN Doc : Doc[i].kind = kind
                      THEN config[kind] = Section(kind)
                      ELSE \/ config[kind] = EmptyConfig[kind]
                           \/ file = "system" /\ files["vendor"] # NoFile
    BY DEF AcceptedConfig
  <2>1. SectionsRead /\ Seen = DOMAIN Doc /\ \A i \in DOMAIN Doc : ParseRootNodeOk(Doc[i])
    BY DEF StartupInv, ReadInv, Reading, Seen, Accepted
  <2>2. SeenOf(kind) = {i \in DOMAIN Doc : Doc[i].kind = kind}
    BY <2>1 DEF SeenOf
  <2>3. CASE SeenOf(kind) # {}
    <3> DEFINE node == Doc[Max(SeenOf(kind))]
    <3>1. Max(SeenOf(kind)) \in SeenOf(kind)
      <4>1. Len(Doc) \in Nat /\ DOMAIN Doc = 1 .. Len(Doc)
        BY FileHolds DEF StartupInv, ReadInv
      <4>2. SeenOf(kind) \subseteq 0 .. Len(Doc)
        BY <2>2, <4>1
      <4> QED BY <2>3, <4>1, <4>2, MaxBounded
    <3>2. node.kind = kind /\ ParseRootNodeOk(node)
      BY <2>1, <2>2, <3>1
    <3>3. node = LastNode(kind)
      BY <2>2 DEF LastNode
    <3> HIDE DEF node
    <3>4. ParseRootNode(EmptyConfig, node)[kind] = Parsed(node)
      <4>1. DOMAIN EmptyConfig = Fields
        BY DEF EmptyConfig, Fields
      <4> QED BY <3>2, <4>1, NodeStores
    <3>5. config[kind] = Kept(kind, node)
      BY <2>1, <2>3 DEF SectionsRead, node
    <3>6. Section(kind) = Kept(kind, node)
      BY <3>3, <3>4 DEF Section, Kept, Sorted
    <3> QED BY <2>2, <2>3, <3>5, <3>6
  <2>4. CASE SeenOf(kind) = {}
    BY <2>1, <2>2, <2>4 DEF SectionsRead
  <2> QED BY <2>3, <2>4
<1> QED BY <1>1, StartupInvariant, PTL

(* Whatever the files hold, the level search can use the clusters. *)
THEOREM ClustersAreUsable == Spec => []ClustersUsable
<1>1. StartupInv => ClustersUsable
  BY DEF StartupInv, SectionInv
<1> QED BY <1>1, StartupInvariant, PTL

(* Every configured state has a collection after the state machine's Init. *)
THEOREM StatesAreComplete == Spec => []StatesComplete
<1>1. StartupInv => StatesComplete
  BY DEF StartupInv, StateInv
<1> QED BY <1>1, StartupInvariant, PTL

(* An event and a timer reach the collection that answers conditions,      *)
(* unless a request made that collection first or the start-up delay is    *)
(* configured twice, and nothing else but an empty history_temp_count      *)
(* leads to a crash.                                                       *)
THEOREM EventsArrive == Spec => []EventsReachState
<1>1. StartupInv => EventsReachState
  BY HandlersReach DEF StartupInv
<1> QED BY <1>1, StartupInvariant, PTL

(* Conditions are decided by what the states were told last, by whomever,  *)
(* and a screen without a delay by the power manager.                      *)
THEOREM ConditionsAreCurrent == Spec => []ConditionFollowsUpdates
<1>1. StartupInv => ConditionFollowsUpdates
  <2> DEFINE last(n) == IF n = "screen" /\ ~ collections[n].delayed THEN Switch(display)
                        ELSE told[n]
  <2> SUFFICES ASSUME StartupInv, phase # "crashed", NEW sc,
                      DOMAIN sc.states \subseteq
                         (DOMAIN told \cap DOMAIN collections) \ (early \cap TimedClasses)
               PROVE  CheckState(sc) <=>
                         \A n \in DOMAIN sc.states : Met(StateClass(n), last(n), sc.states[n])
    BY DEF ConditionFollowsUpdates
  <2>1. ASSUME NEW n \in DOMAIN sc.states
        PROVE  n \in DOMAIN collections /\ Answer(n) = last(n)
    <3>1. n \in DOMAIN collections /\ ToldOf(n) /\ n \notin early \cap TimedClasses
      BY DEF StartupInv, ToldInv
    <3> QED BY <3>1 DEF ToldOf, Answer
  <2> HIDE DEF last
  <2> QED BY <2>1 DEF CheckState, DecideState
<1> QED BY <1>1, StartupInvariant, PTL

(* The faults of a fan are told apart soundly, whatever its limits. *)
THEOREM FanIsJudgedSoundly == Spec => []FanJudgedSoundly
<1>1. StartupInv => FanJudgedSoundly
  <2> SUFFICES ASSUME FanLimits(config.fan), NEW q \in FanReports, NEW r \in FanReports
               PROVE  LET fq == CheckFanFault(config.fan, q)
                          fr == CheckFanFault(config.fan, r)
                      IN  /\ FAN_FAULT_TOO_SLOW \in fq /\ Hotter(r, q) => FAN_FAULT_TOO_SLOW \in fr
                          /\ FAN_FAULT_TOO_FAST \in fr /\ Hotter(r, q) => FAN_FAULT_TOO_FAST \in fq
                          /\ {FAN_FAULT_TOO_SLOW, FAN_FAULT_TOO_FAST} \subseteq fq =>
                                config.fan[FAN_FAULT_TOO_SLOW][FAN] > config.fan[FAN_FAULT_TOO_FAST][FAN]
    BY DEF FanJudgedSoundly, StartupInv, SectionInv
  <2>0. /\ \A s \in DOMAIN q : q[s] \in Int
        /\ \A s \in DOMAIN r : r[s] \in Int
    BY StartupAssumption
  <2>1. \A x : FAN_FAULT_TOO_SLOW \in CheckFanFault(config.fan, x) <=>
           /\ FAN_FAULT_TOO_SLOW \in DOMAIN config.fan
           /\ CheckFanTooSlow(x, config.fan[FAN_FAULT_TOO_SLOW])
    BY DEF CheckFanFault, FAN_FAULT_TOO_SLOW, FAN_FAULT_TOO_FAST
  <2>2. \A x : FAN_FAULT_TOO_FAST \in CheckFanFault(config.fan, x) <=>
           /\ FAN_FAULT_TOO_FAST \in DOMAIN config.fan
           /\ CheckFanTooFast(x, config.fan[FAN_FAULT_TOO_FAST])
    BY DEF CheckFanFault, FAN_FAULT_TOO_SLOW, FAN_FAULT_TOO_FAST
  <2>3. ASSUME NEW x, \A s \in DOMAIN x : x[s] \in Int, NEW limits,
               \A s \in DOMAIN limits : limits[s] \in Int, CheckFanSensorInfo(x, limits)
        PROVE  /\ FAN \in DOMAIN x /\ FAN \in DOMAIN limits
               /\ DOMAIN limits \subseteq DOMAIN x
    BY <2>3 DEF CheckFanSensorInfo, GetSensorValue, SENSOR_INVALID_VALUE
  <2>4. ASSUME NEW limits, \A s \in DOMAIN limits : limits[s] \in Int,
               Hotter(r, q), CheckFanSensorInfo(q, limits) \/ CheckFanSensorInfo(r, limits)
        PROVE  /\ CheckFanSensorInfo(q, limits) /\ CheckFanSensorInfo(r, limits)
    BY <2>0, <2>3, <2>4 DEF CheckFanSensorInfo, GetSensorValue, SENSOR_INVALID_VALUE, Hotter
  <2>5. ASSUME NEW limits, \A s \in DOMAIN limits : limits[s] \in Int,
               CheckFanTooSlow(q, limits), Hotter(r, q)
        PROVE  CheckFanTooSlow(r, limits)
    <3>1. CheckFanSensorInfo(q, limits) /\ CheckFanSensorInfo(r, limits)
      BY <2>4, <2>5 DEF CheckFanTooSlow
    <3>2. FAN \in DOMAIN q /\ FAN \in DOMAIN limits /\ DOMAIN limits \subseteq DOMAIN q
          /\ DOMAIN r = DOMAIN q
      BY <2>0, <2>3, <2>5, <3>1 DEF Hotter
    <3> QED BY <2>0, <2>5, <3>1, <3>2 DEF CheckFanTooSlow, Hotter
  <2>6. ASSUME NEW limits, \A s \in DOMAIN limits : limits[s] \in Int,
               CheckFanTooFast(r, limits), Hotter(r, q)
        PROVE  CheckFanTooFast(q, limits)
    <3>1. CheckFanSensorInfo(q, limits) /\ CheckFanSensorInfo(r, limits)
      BY <2>4, <2>6 DEF CheckFanTooFast
    <3>2. FAN \in DOMAIN q /\ FAN \in DOMAIN limits /\ DOMAIN limits \subseteq DOMAIN q
          /\ DOMAIN r = DOMAIN q
      BY <2>0, <2>3, <2>6, <3>1 DEF Hotter
    <3> QED BY <2>0, <2>6, <3>1, <3>2 DEF CheckFanTooFast, Hotter
  <2>7. ASSUME NEW slow, NEW fast, \A s \in DOMAIN slow : slow[s] \in Int,
               \A s \in DOMAIN fast : fast[s] \in Int,
               CheckFanTooSlow(q, slow), CheckFanTooFast(q, fast)
        PROVE  slow[FAN] > fast[FAN]
    <3>1. FAN \in DOMAIN q /\ FAN \in DOMAIN slow /\ FAN \in DOMAIN fast
      BY <2>0, <2>3, <2>7 DEF CheckFanTooSlow, CheckFanTooFast
    <3> QED BY <2>0, <2>7, <3>1 DEF CheckFanTooSlow, CheckFanTooFast
  <2> QED BY <2>1, <2>2, <2>5, <2>6, <2>7 DEF FanLimits
<1> QED BY <1>1, StartupInvariant, PTL

-----------------------------------------------------------------------------
(* The inductive invariant of the timers: NeverStuck and RunningTimerKnown *)
(* need no more than the types.                                            *)

Timers ==
  /\ timerId \in [Owners -> Nat]
  /\ running \in [Owners -> SUBSET Nat]
  /\ firing \in [Owners -> SUBSET Nat]

(* What NeverStuck says of a collection whose state is to end. *)
Ending(o) == Pending(o) \/ o \in untimed

TimerInv == Timers /\ NeverStuck /\ RunningTimerKnown

-----------------------------------------------------------------------------
(* What a step may do to the timers of one collection and of the others.   *)

(* A stop leaves the timers of the other collections alone. *)
LEMMA StopsOnly ==
  ASSUME Timers, NEW o \in Owners, StopDelayTimer(o)
  PROVE  /\ Timers'
         /\ running'[o] = running[o] \ {timerId[o]} /\ timerId'[o] = 0
         /\ \A p \in Owners \ {o} : running'[p] = running[p] /\ timerId'[p] = timerId[p]
         /\ firing' = firing /\ untimed' = untimed \ {o}
         /\ \A p \in Owners \ {o} : Ending(p) => Ending(p)'
<1>1. /\ Timers'
      /\ running'[o] = running[o] \ {timerId[o]} /\ timerId'[o] = 0
      /\ \A p \in Owners \ {o} : running'[p] = running[p] /\ timerId'[p] = timerId[p]
      /\ firing' = firing /\ untimed' = untimed \ {o}
  BY DEF Timers, StopDelayTimer
<1> QED BY <1>1 DEF Ending, Pending

(* A restart leaves a timer to run, the new one under the stored id, or    *)
(* the collection is one whose timer was refused.                          *)
LEMMA RestartsOnly ==
  ASSUME Timers, NEW o \in Owners, RestartDelayTimer(o)
  PROVE  /\ Timers'
         /\ running'[o] \subseteq (running[o] \ {timerId[o]}) \cup {timerId'[o]}
         /\ \A p \in Owners \ {o} : running'[p] = running[p] /\ timerId'[p] = timerId[p]
         /\ \A p \in Owners : p = o \/ Ending(p) => Ending(p)'
<1>1. CASE \E id \in Unused(o) :
              /\ running' = [running EXCEPT ![o] = (@ \ {timerId[o]}) \cup {id}]
              /\ timerId' = [timerId EXCEPT ![o] = id]
              /\ untimed' = untimed \ {o}
  <2>1. PICK id \in Unused(o) :
              /\ running' = [running EXCEPT ![o] = (@ \ {timerId[o]}) \cup {id}]
              /\ timerId' = [timerId EXCEPT ![o] = id]
              /\ untimed' = untimed \ {o}
    BY <1>1
  <2>2. id \in Nat
    BY BoundsAssumption DEF Unused, Ids
  <2>3. firing' = firing
    BY DEF RestartDelayTimer
  <2>4. Timers' /\ id \in running'[o]
    BY <2>1, <2>2, <2>3 DEF Timers
  <2> QED BY <2>1, <2>2, <2>3, <2>4 DEF Timers, Ending, Pending
<1>2. CASE /\ running' = [running EXCEPT ![o] = @ \ {timerId[o]}]
           /\ timerId' = [timerId EXCEPT ![o] = 0]
           /\ untimed' = untimed \cup {o}
  <2>1. firing' = firing
    BY DEF RestartDelayTimer
  <2> QED BY <1>2, <2>1 DEF Timers, Ending, Pending
<1> QED BY <1>1, <1>2 DEF RestartDelayTimer

-----------------------------------------------------------------------------
(* The initial states satisfy the invariant. *)
LEMMA TimerInitially == DelayInit => TimerInv
BY DEF DelayInit, TimerInv, Timers, NeverStuck, RunningTimerKnown, Pending, Owners

(* Every step keeps it. *)
LEMMA TimerStep == TimerInv /\ [DelayNext]_delayVars => TimerInv'
<1> SUFFICES ASSUME TimerInv, [DelayNext]_delayVars PROVE TimerInv'
  OBVIOUS
<1>0. Timers /\ NeverStuck /\ RunningTimerKnown
  BY DEF TimerInv
<1> DEFINE States == <<screenDelayed, lastHeard, screenState, critical, startup>>
<1>1. ASSUME UNCHANGED <<States, timerVars>> PROVE TimerInv'
  BY <1>0, <1>1 DEF TimerInv, Timers, NeverStuck, RunningTimerKnown, Pending,
     timerVars
<1>2. ASSUME NEW s \in {"on", "off"}, ScreenTurns(s) PROVE TimerInv'
  BY <1>1, <1>2 DEF ScreenTurns
<1>3. CASE CableMoves
  BY <1>1, <1>3 DEF CableMoves
<1>4. ASSUME NEW o \in Owners, TimerExpires(o) PROVE TimerInv'
  <2>1. PICK id \in running[o] :
          /\ running' = [running EXCEPT ![o] = @ \ {id}]
          /\ firing' = [firing EXCEPT ![o] = @ \cup {id}]
    BY <1>4 DEF TimerExpires
  <2>2. UNCHANGED <<States, timerId, untimed>>
    BY <1>4 DEF TimerExpires, world
  <2>3. Timers'
    BY <1>0, <2>1, <2>2 DEF Timers
  <2>4. \A p \in Owners : Pending(p) => Pending(p)'
    BY <1>0, <2>1 DEF Timers, Pending
  <2>5. NeverStuck'
    BY <1>0, <2>2, <2>4 DEF NeverStuck, Owners
  <2>6. RunningTimerKnown'
    BY <1>0, <2>1, <2>2 DEF RunningTimerKnown, Timers
  <2> QED BY <2>3, <2>5, <2>6 DEF TimerInv
<1>5. CASE HandleScreenOnCompleted
  <2>1. CASE screenDelayed
    <3>1. RestartDelayTimer("screen") /\ UNCHANGED <<screenDelayed, critical, startup>>
      BY <1>5, <2>1 DEF HandleScreenOnCompleted, Receive
    <3>2. /\ Timers' /\ Ending("screen")'
          /\ \A p \in Owners : Ending(p) => Ending(p)'
      BY <1>0, <3>1, RestartsOnly DEF Owners
    <3>3. RunningTimerKnown'
      BY <1>0, <3>1, RestartsOnly DEF RunningTimerKnown, Owners
    <3> QED BY <1>0, <3>1, <3>2, <3>3 DEF TimerInv, NeverStuck, Ending, Owners
  <2>2. CASE ~screenDelayed
    BY <1>0, <1>5, <2>2 DEF HandleScreenOnCompleted, Receive, timerVars, TimerInv,
       Timers, NeverStuck, RunningTimerKnown, Pending
  <2> QED BY <2>1, <2>2
<1>6. CASE HandleScreenOffCompleted
  <2>1. /\ StopDelayTimer("screen") /\ UNCHANGED <<screenDelayed, critical, startup>>
        /\ lastHeard' = "off"
    BY <1>6 DEF HandleScreenOffCompleted, Receive
  <2>2. Timers' /\ \A p \in Owners \ {"screen"} : Ending(p) => Ending(p)'
    BY <1>0, <2>1, StopsOnly DEF Owners
  <2>3. RunningTimerKnown'
    BY <1>0, <2>1, StopsOnly DEF RunningTimerKnown, Owners
  <2> QED BY <1>0, <2>1, <2>2, <2>3 DEF TimerInv, NeverStuck, Ending, Owners
<1>7. CASE ScreenDecideState
  BY <1>0, <1>7 DEF ScreenDecideState, world, timerVars, TimerInv, Timers, NeverStuck,
     RunningTimerKnown, Pending
<1>8. CASE HandlerPowerDisconnected
  <2>1. CASE isCharge
    <3>1. /\ RestartDelayTimer("charge")
          /\ UNCHANGED <<screenDelayed, lastHeard, screenState, startup>>
      BY <1>8, <2>1 DEF HandlerPowerDisconnected, Receive
    <3>2. /\ Timers' /\ Ending("charge")'
          /\ \A p \in Owners : Ending(p) => Ending(p)'
      BY <1>0, <3>1, RestartsOnly DEF Owners
    <3>3. RunningTimerKnown'
      BY <1>0, <3>1, RestartsOnly DEF RunningTimerKnown, Owners
    <3> QED BY <1>0, <3>1, <3>2, <3>3 DEF TimerInv, NeverStuck, Ending, Owners
  <2>2. CASE ~isCharge
    BY <1>1, <1>8, <2>2 DEF HandlerPowerDisconnected, Receive
  <2> QED BY <2>1, <2>2
<1>9. CASE HandlerPowerConnected
  <2>1. CASE isCharge
    BY <1>1, <1>9, <2>1 DEF HandlerPowerConnected, Receive
  <2>2. CASE ~isCharge
    <3>1. /\ StopDelayTimer("charge") /\ ~critical'
          /\ UNCHANGED <<screenDelayed, lastHeard, screenState, startup>>
      BY <1>9, <2>2 DEF HandlerPowerConnected, Receive
    <3>2. Timers' /\ \A p \in Owners \ {"charge"} : Ending(p) => Ending(p)'
      BY <1>0, <3>1, StopsOnly DEF Owners
    <3>3. RunningTimerKnown'
      BY <1>0, <3>1, StopsOnly DEF RunningTimerKnown, Owners
    <3> QED BY <1>0, <3>1, <3>2, <3>3 DEF TimerInv, NeverStuck, Ending, Owners
  <2> QED BY <2>1, <2>2
<1>10. CASE InitChargeState
  BY <1>1, <1>10 DEF InitChargeState, world
<1>11. CASE ScreenResetState
  BY <1>0, <1>11 DEF ScreenResetState, Fire, world, TimerInv, Timers, NeverStuck,
     RunningTimerKnown, Pending, Owners
<1>12. CASE ChargeResetState
  BY <1>0, <1>12 DEF ChargeResetState, Fire, world, TimerInv, Timers, NeverStuck,
     RunningTimerKnown, Pending, Owners
<1>13. CASE StartupResetState
  BY <1>0, <1>13 DEF StartupResetState, Fire, world, TimerInv, Timers, NeverStuck,
     RunningTimerKnown, Pending, Owners
<1>14. CASE UNCHANGED delayVars
  BY <1>1, <1>14 DEF delayVars, world
<1> QED BY <1>2, <1>3, <1>4, <1>5, <1>6, <1>7, <1>8, <1>9, <1>10, <1>11, <1>12,
           <1>13, <1>14
        DEF DelayNext, Deliver

(* The inductive invariant is an invariant. *)
LEMMA TimerInvariant == DelaySpec => []TimerInv
BY TimerInitially, TimerStep, PTL DEF DelaySpec

-----------------------------------------------------------------------------
(* The inductive invariant of the charger: isCharge_ knows of the charger  *)
(* that the next unplugging to be heard is about, or missed says why not.  *)

CommonEvents == {"screenOn", "screenOff", "powerConnected", "powerDisconnected"}
Plugging(i) == i \in DOMAIN events /\ events[i] = "powerConnected"
Unplugging(i) == i \in DOMAIN events /\ events[i] = "powerDisconnected"
Noticed == isCharge \/ missed

(* The first unplugging on its way is noticed. *)
NextNoticed ==
  \A i \in Nat : Unplugging(i) /\ (\A j \in 1..(i - 1) : ~Plugging(j)) => Noticed

(* Between two unpluggings on their way the charger is plugged. *)
Alternate ==
  \A i, j \in Nat : Unplugging(i) /\ Unplugging(j) /\ i < j =>
    \E k \in (i + 1)..(j - 1) : Plugging(k)

(* A charger that is plugged is noticed, or its event is still on the way. *)
PluggedNoticed ==
  plugged => \/ \E i \in Nat : Plugging(i) /\ \A j \in Nat : Unplugging(j) => j < i
             \/ (\A j \in Nat : ~Unplugging(j)) /\ Noticed

ChargeInv ==
  /\ events \in Seq(CommonEvents)
  /\ NextNoticed /\ Alternate /\ PluggedNoticed

(* What is left of the queue once its head is received. *)
LEMMA Received ==
  ASSUME ChargeInv, NEW e, Receive(e)
  PROVE  /\ events' \in Seq(CommonEvents)
         /\ \A i \in Nat : Plugging(i)' <=> i > 0 /\ Plugging(i + 1)
         /\ \A i \in Nat : Unplugging(i)' <=> i > 0 /\ Unplugging(i + 1)
         /\ 1 \in DOMAIN events /\ events[1] = e /\ plugged' = plugged
<1>1. events \in Seq(CommonEvents) /\ events # <<>> /\ events' = Tail(events) /\ events[1] = e
  BY DEF ChargeInv, Receive
<1>2. Len(events) \in Nat /\ Len(events) > 0 /\ Len(events') = Len(events) - 1
      /\ DOMAIN events = 1..Len(events) /\ DOMAIN events' = 1..Len(events')
      /\ events' \in Seq(CommonEvents)
  BY <1>1
<1>3. \A i \in 1..Len(events') : events'[i] = events[i + 1]
  BY <1>1, <1>2
<1>4. \A i \in Nat : i \in DOMAIN events' <=> i > 0 /\ (i + 1) \in DOMAIN events
  BY <1>2
<1> QED BY <1>1, <1>2, <1>3, <1>4 DEF Plugging, Unplugging, Receive

(* Receiving an event that is not about the charger keeps the invariant. *)
LEMMA ChargeKept ==
  ASSUME ChargeInv, NEW e, Receive(e), e # "powerConnected", e # "powerDisconnected",
         UNCHANGED chargeVars
  PROVE  ChargeInv'
<1>1. /\ events' \in Seq(CommonEvents)
      /\ \A i \in Nat : Plugging(i)' <=> i > 0 /\ Plugging(i + 1)
      /\ \A i \in Nat : Unplugging(i)' <=> i > 0 /\ Unplugging(i + 1)
      /\ ~Plugging(1) /\ ~Unplugging(1) /\ plugged' = plugged
  BY Received DEF Plugging, Unplugging
<1>2. Noticed' = Noticed
  BY DEF Noticed, chargeVars
<1>3. ~Plugging(0) /\ ~Unplugging(0)
  BY DEF ChargeInv, Plugging, Unplugging
<1>4. NextNoticed'
  <2> SUFFICES ASSUME NEW i \in Nat, Unplugging(i)', \A j \in 1..(i - 1) : ~Plugging(j)'
               PROVE  Noticed'
    BY DEF NextNoticed
  <2>1. Unplugging(i + 1) /\ i + 1 \in Nat
    BY <1>1
  <2>2. \A j \in 1..((i + 1) - 1) : ~Plugging(j)
    <3> TAKE j \in 1..((i + 1) - 1)
    <3>1. CASE j = 1
      BY <1>1, <3>1
    <3>2. CASE j # 1
      BY <1>1, <3>2, ~Plugging(j - 1)'
    <3> QED BY <3>1, <3>2
  <2> QED BY <1>2, <2>1, <2>2 DEF ChargeInv, NextNoticed
<1>5. Alternate'
  <2> SUFFICES ASSUME NEW i \in Nat, NEW j \in Nat, Unplugging(i)', Unplugging(j)', i < j
               PROVE  \E k \in (i + 1)..(j - 1) : Plugging(k)'
    BY DEF Alternate
  <2>1. PICK k \in ((i + 1) + 1)..((j + 1) - 1) : Plugging(k)
    <3>1. Unplugging(i + 1) /\ Unplugging(j + 1) /\ i + 1 \in Nat /\ j + 1 \in Nat
          /\ i + 1 < j + 1
      BY <1>1
    <3> QED BY <3>1 DEF ChargeInv, Alternate
  <2>2. /\ k - 1 \in (i + 1)..(j - 1) /\ k - 1 \in Nat /\ (k - 1) + 1 = k
        /\ k - 1 > 0
    OBVIOUS
  <2>3. Plugging(k - 1)'
    BY <1>1, <2>1, <2>2
  <2> QED BY <2>2, <2>3
<1>6. PluggedNoticed'
  <2> SUFFICES ASSUME plugged
               PROVE  \/ \E i \in Nat : Plugging(i)' /\ \A j \in Nat : Unplugging(j)' => j < i
                      \/ (\A j \in Nat : ~Unplugging(j)') /\ Noticed'
    BY <1>1 DEF PluggedNoticed
  <2>1. CASE \E i \in Nat : Plugging(i) /\ \A j \in Nat : Unplugging(j) => j < i
    <3>1. PICK i \in Nat : Plugging(i) /\ \A j \in Nat : Unplugging(j) => j < i
      BY <2>1
    <3>2. i - 1 \in Nat /\ (i - 1) + 1 = i /\ i - 1 > 0
      BY <1>1, <1>3, <3>1
    <3>3. Plugging(i - 1)'
      BY <1>1, <3>1, <3>2
    <3>4. ASSUME NEW j \in Nat, Unplugging(j)' PROVE j < i - 1
      BY <1>1, <3>1, <3>4
    <3> QED BY <3>2, <3>3, <3>4
  <2>2. CASE (\A j \in Nat : ~Unplugging(j)) /\ Noticed
    BY <1>1, <1>2, <2>2
  <2> QED BY <2>1, <2>2 DEF ChargeInv, PluggedNoticed
<1> QED BY <1>1, <1>4, <1>5, <1>6 DEF ChargeInv

(* Hearing that the charger was plugged. *)
LEMMA PluggingHeard ==
  ASSUME ChargeInv, HandlerPowerConnected
  PROVE  ChargeInv'
<1>1. /\ events' \in Seq(CommonEvents)
      /\ \A i \in Nat : Plugging(i)' <=> i > 0 /\ Plugging(i + 1)
      /\ \A i \in Nat : Unplugging(i)' <=> i > 0 /\ Unplugging(i + 1)
      /\ Plugging(1) /\ ~Unplugging(1) /\ plugged' = plugged
  BY Received DEF Plugging, Unplugging, HandlerPowerConnected
<1>2. Noticed'
  BY DEF Noticed, HandlerPowerConnected
<1>3. NextNoticed'
  BY <1>2 DEF NextNoticed
<1>4. Alternate'
  <2> SUFFICES ASSUME NEW i \in Nat, NEW j \in Nat, Unplugging(i)', Unplugging(j)', i < j
               PROVE  \E k \in (i + 1)..(j - 1) : Plugging(k)'
    BY DEF Alternate
  <2>1. PICK k \in ((i + 1) + 1)..((j + 1) - 1) : Plugging(k)
    <3>1. Unplugging(i + 1) /\ Unplugging(j + 1) /\ i + 1 \in Nat /\ j + 1 \in Nat
          /\ i + 1 < j + 1
      BY <1>1
    <3> QED BY <3>1 DEF ChargeInv, Alternate
  <2>2. /\ k - 1 \in (i + 1)..(j - 1) /\ k - 1 \in Nat /\ (k - 1) + 1 = k
        /\ k - 1 > 0
    OBVIOUS
  <2>3. Plugging(k - 1)'
    BY <1>1, <2>1, <2>2
  <2> QED BY <2>2, <2>3
<1>5. PluggedNoticed'
  <2> SUFFICES ASSUME plugged
               PROVE  \/ \E i \in Nat : Plugging(i)' /\ \A j \in Nat : Unplugging(j)' => j < i
                      \/ (\A j \in Nat : ~Unplugging(j)') /\ Noticed'
    BY <1>1 DEF PluggedNoticed
  <2>1. CASE \E i \in Nat : Plugging(i) /\ \A j \in Nat : Unplugging(j) => j < i
    <3>1. PICK i \in Nat : Plugging(i) /\ \A j \in Nat : Unplugging(j) => j < i
      BY <2>1
    <3>2. CASE \A j \in Nat : ~Unplugging(j)'
      BY <1>2, <3>2
    <3>3. CASE \E j \in Nat : Unplugging(j)'
      <4>1. i - 1 \in Nat /\ (i - 1) + 1 = i /\ i - 1 > 0
        BY <1>1, <3>1, <3>3
      <4>2. Plugging(i - 1)'
        BY <1>1, <3>1, <4>1
      <4>3. ASSUME NEW j \in Nat, Unplugging(j)' PROVE j < i - 1
        BY <1>1, <3>1, <4>3
      <4> QED BY <4>1, <4>2, <4>3
    <3> QED BY <3>2, <3>3
  <2>2. CASE (\A j \in Nat : ~Unplugging(j)) /\ Noticed
    BY <1>1, <1>2, <2>2
  <2> QED BY <2>1, <2>2 DEF ChargeInv, PluggedNoticed
<1> QED BY <1>1, <1>3, <1>4, <1>5 DEF ChargeInv

(* Hearing that it was unplugged: the next unplugging has its plugging     *)
(* before it, so that nothing need be noticed of it now.                   *)
LEMMA UnpluggingHeard ==
  ASSUME ChargeInv, HandlerPowerDisconnected
  PROVE  ChargeInv' /\ Noticed
<1>1. /\ events' \in Seq(CommonEvents)
      /\ \A i \in Nat : Plugging(i)' <=> i > 0 /\ Plugging(i + 1)
      /\ \A i \in Nat : Unplugging(i)' <=> i > 0 /\ Unplugging(i + 1)
      /\ ~Plugging(1) /\ Unplugging(1) /\ plugged' = plugged
  BY Received DEF Plugging, Unplugging, HandlerPowerDisconnected
<1>2. Noticed
  BY <1>1 DEF ChargeInv, NextNoticed
<1>3. \A j \in Nat : Unplugging(j)' => \E k \in 1..(j - 1) : Plugging(k)'
  <2> SUFFICES ASSUME NEW j \in Nat, Unplugging(j)'
               PROVE  \E k \in 1..(j - 1) : Plugging(k)'
    OBVIOUS
  <2>1. Unplugging(j + 1) /\ j + 1 \in Nat /\ 1 < j + 1
    BY <1>1
  <2>2. PICK k \in (1 + 1)..((j + 1) - 1) : Plugging(k)
    BY <1>1, <2>1 DEF ChargeInv, Alternate
  <2>3. k - 1 \in 1..(j - 1) /\ k - 1 \in Nat /\ (k - 1) + 1 = k /\ k - 1 > 0
    OBVIOUS
  <2>4. Plugging(k - 1)'
    BY <1>1, <2>2, <2>3
  <2> QED BY <2>3, <2>4
<1>4. NextNoticed'
  BY <1>3 DEF NextNoticed
<1>5. Alternate'
  <2> SUFFICES ASSUME NEW i \in Nat, NEW j \in Nat, Unplugging(i)', Unplugging(j)', i < j
               PROVE  \E k \in (i + 1)..(j - 1) : Plugging(k)'
    BY DEF Alternate
  <2>1. PICK k \in ((i + 1) + 1)..((j + 1) - 1) : Plugging(k)
    <3>1. Unplugging(i + 1) /\ Unplugging(j + 1) /\ i + 1 \in Nat /\ j + 1 \in Nat
          /\ i + 1 < j + 1
      BY <1>1
    <3> QED BY <3>1 DEF ChargeInv, Alternate
  <2>2. /\ k - 1 \in (i + 1)..(j - 1) /\ k - 1 \in Nat /\ (k - 1) + 1 = k
        /\ k - 1 > 0
    OBVIOUS
  <2>3. Plugging(k - 1)'
    BY <1>1, <2>1, <2>2
  <2> QED BY <2>2, <2>3
<1>6. PluggedNoticed'
  <2> SUFFICES ASSUME plugged
               PROVE  \E i \in Nat : Plugging(i)' /\ \A j \in Nat : Unplugging(j)' => j < i
    BY <1>1 DEF PluggedNoticed
  <2>1. PICK i \in Nat : Plugging(i) /\ \A j \in Nat : Unplugging(j) => j < i
    BY <1>1 DEF ChargeInv, PluggedNoticed
  <2>2. i - 1 \in Nat /\ (i - 1) + 1 = i /\ i - 1 > 0
    BY <1>1, <2>1
  <2>3. Plugging(i - 1)'
    BY <1>1, <2>1, <2>2
  <2>4. ASSUME NEW j \in Nat, Unplugging(j)' PROVE j < i - 1
    BY <1>1, <2>1, <2>4
  <2> QED BY <2>2, <2>3, <2>4
<1> QED BY <1>1, <1>2, <1>4, <1>5, <1>6 DEF ChargeInv

(* An event is published: the queue grows at its end. *)
LEMMA Published ==
  ASSUME ChargeInv, NEW e \in CommonEvents, events' = Append(events, e)
  PROVE  /\ events' \in Seq(CommonEvents)
         /\ \A i \in Nat : Plugging(i)' <=> Plugging(i) \/ (i = Len(events) + 1 /\ e = "powerConnected")
         /\ \A i \in Nat : Unplugging(i)' <=> Unplugging(i) \/ (i = Len(events) + 1 /\ e = "powerDisconnected")
         /\ Len(events) \in Nat
         /\ \A i \in Nat : Plugging(i) \/ Unplugging(i) => i > 0 /\ i <= Len(events)
<1>1. events \in Seq(CommonEvents)
  BY DEF ChargeInv
<1>0. Append(events, e) \in Seq(CommonEvents) /\ Len(events) \in Nat
      /\ Len(Append(events, e)) = Len(events) + 1
  BY <1>1, AppendProperties
<1>2. /\ Len(events) \in Nat /\ DOMAIN events = 1..Len(events)
      /\ DOMAIN events' = 1..(Len(events) + 1) /\ events' \in Seq(CommonEvents)
      /\ events'[Len(events) + 1] = e
      /\ \A i \in 1..Len(events) : events'[i] = events[i]
  BY <1>0, <1>1, AppendProperties
<1> QED BY <1>2 DEF Plugging, Unplugging

(* The cable moves. *)
LEMMA CableKept ==
  ASSUME ChargeInv, CableMoves
  PROVE  ChargeInv'
<1>1. plugged' = ~plugged /\ Noticed' = Noticed
  BY DEF CableMoves, Noticed, chargeVars
<1> DEFINE n == Len(events) + 1
<1>2. CASE plugged
  <2>1. events' = Append(events, "powerDisconnected")
    BY <1>2 DEF CableMoves
  <2>2. /\ events' \in Seq(CommonEvents) /\ n \in Nat
        /\ \A i \in Nat : Plugging(i)' <=> Plugging(i)
        /\ \A i \in Nat : Unplugging(i)' <=> Unplugging(i) \/ i = n
        /\ \A i \in Nat : Plugging(i) \/ Unplugging(i) => i > 0 /\ i < n
    <3>1. "powerDisconnected" \in CommonEvents /\ "powerDisconnected" # "powerConnected"
      BY DEF CommonEvents
    <3> QED BY <2>1, <3>1, Published
  <2> HIDE DEF n
  <2>3. NextNoticed'
    <3> SUFFICES ASSUME NEW i \in Nat, Unplugging(i)', \A j \in 1..(i - 1) : ~Plugging(j)'
                 PROVE  Noticed
      BY <1>1 DEF NextNoticed
    <3>1. CASE Unplugging(i)
      BY <2>2, <3>1 DEF ChargeInv, NextNoticed
    <3>2. CASE i = n
      <4>1. \A j \in Nat : ~Plugging(j)
        BY <2>2, <3>2
      <4> QED BY <1>2, <4>1 DEF ChargeInv, PluggedNoticed
    <3> QED BY <2>2, <3>1, <3>2
  <2>4. Alternate'
    <3> SUFFICES ASSUME NEW i \in Nat, NEW j \in Nat, Unplugging(i)', Unplugging(j)', i < j
                 PROVE  \E k \in (i + 1)..(j - 1) : Plugging(k)'
      BY DEF Alternate
    <3>1. CASE Unplugging(i) /\ Unplugging(j)
      <4>1. PICK k \in (i + 1)..(j - 1) : Plugging(k)
        BY <3>1 DEF ChargeInv, Alternate
      <4> QED BY <2>2, <4>1
    <3>2. CASE Unplugging(i) /\ j = n
      <4>1. PICK k \in Nat : Plugging(k) /\ \A m \in Nat : Unplugging(m) => m < k
        BY <1>2, <3>2 DEF ChargeInv, PluggedNoticed
      <4>2. k \in (i + 1)..(j - 1)
        BY <2>2, <3>2, <4>1
      <4> QED BY <2>2, <4>1, <4>2
    <3> QED BY <2>2, <3>1, <3>2
  <2> QED BY <1>1, <1>2, <2>2, <2>3, <2>4 DEF ChargeInv, PluggedNoticed
<1>3. CASE ~plugged
  <2>1. events' = Append(events, "powerConnected")
    BY <1>3 DEF CableMoves
  <2>2. /\ events' \in Seq(CommonEvents) /\ n \in Nat
        /\ \A i \in Nat : Plugging(i)' <=> Plugging(i) \/ i = n
        /\ \A i \in Nat : Unplugging(i)' <=> Unplugging(i)
        /\ \A i \in Nat : Plugging(i) \/ Unplugging(i) => i > 0 /\ i < n
    <3>1. "powerConnected" \in CommonEvents /\ "powerDisconnected" # "powerConnected"
      BY DEF CommonEvents
    <3> QED BY <2>1, <3>1, Published
  <2> HIDE DEF n
  <2>3. NextNoticed'
    <3> SUFFICES ASSUME NEW i \in Nat, Unplugging(i)', \A j \in 1..(i - 1) : ~Plugging(j)'
                 PROVE  Noticed
      BY <1>1 DEF NextNoticed
    <3> QED BY <2>2 DEF ChargeInv, NextNoticed
  <2>4. Alternate'
    <3> SUFFICES ASSUME NEW i \in Nat, NEW j \in Nat, Unplugging(i)', Unplugging(j)', i < j
                 PROVE  \E k \in (i + 1)..(j - 1) : Plugging(k)'
      BY DEF Alternate
    <3>1. PICK k \in (i + 1)..(j - 1) : Plugging(k)
      BY <2>2 DEF ChargeInv, Alternate
    <3> QED BY <2>2, <3>1
  <2>5. PluggedNoticed'
    BY <2>2 DEF PluggedNoticed
  <2> QED BY <2>2, <2>3, <2>4, <2>5 DEF ChargeInv
<1> QED BY <1>2, <1>3

(* The display publishes events that are not about the charger. *)
LEMMA ScreenKept ==
  ASSUME ChargeInv, NEW s, ScreenTurns(s)
  PROVE  ChargeInv'
<1>1. /\ events' = Append(events, IF s = "on" THEN "screenOn" ELSE "screenOff")
      /\ plugged' = plugged /\ Noticed' = Noticed
  BY DEF ScreenTurns, Noticed, chargeVars
<1>2. /\ events' \in Seq(CommonEvents)
      /\ \A i \in Nat : Plugging(i)' <=> Plugging(i)
      /\ \A i \in Nat : Unplugging(i)' <=> Unplugging(i)
  <2> DEFINE e == IF s = "on" THEN "screenOn" ELSE "screenOff"
  <2>1. e \in CommonEvents /\ e # "powerConnected" /\ e # "powerDisconnected"
    BY DEF CommonEvents
  <2>2. events' = Append(events, e)
    BY <1>1
  <2> HIDE DEF e
  <2> QED BY <2>1, <2>2, Published
<1>3. NextNoticed'
  <2> SUFFICES ASSUME NEW i \in Nat, Unplugging(i)', \A j \in 1..(i - 1) : ~Plugging(j)'
               PROVE  Noticed
    BY <1>1 DEF NextNoticed
  <2> QED BY <1>2 DEF ChargeInv, NextNoticed
<1>4. Alternate'
  <2> SUFFICES ASSUME NEW i \in Nat, NEW j \in Nat, Unplugging(i)', Unplugging(j)', i < j
               PROVE  \E k \in (i + 1)..(j - 1) : Plugging(k)'
    BY DEF Alternate
  <2>1. PICK k \in (i + 1)..(j - 1) : Plugging(k)
    BY <1>2 DEF ChargeInv, Alternate
  <2> QED BY <1>2, <2>1
<1>5. PluggedNoticed'
  BY <1>1, <1>2 DEF ChargeInv, PluggedNoticed
<1> QED BY <1>2, <1>3, <1>4, <1>5 DEF ChargeInv

(* The charger is read: whatever is plugged or to be unplugged is noticed. *)
LEMMA ReadKept ==
  ASSUME ChargeInv, InitChargeState
  PROVE  ChargeInv'
<1>1. /\ UNCHANGED <<events, plugged>>
      /\ plugged => Noticed'
      /\ \A i \in Nat : Unplugging(i) => Noticed'
  BY DEF InitChargeState, Noticed, Unplugging, world
<1>2. \A i \in Nat : (Plugging(i)' <=> Plugging(i)) /\ (Unplugging(i)' <=> Unplugging(i))
  BY <1>1 DEF Plugging, Unplugging
<1>3. NextNoticed' /\ Alternate'
  BY <1>1, <1>2 DEF ChargeInv, NextNoticed, Alternate
<1>4. PluggedNoticed'
  BY <1>1, <1>2 DEF ChargeInv, PluggedNoticed
<1> QED BY <1>1, <1>3, <1>4 DEF ChargeInv

(* Steps that leave the charger and the events alone keep the invariant. *)
LEMMA ChargeStutters ==
  ASSUME ChargeInv, UNCHANGED <<events, plugged, chargeVars>>
  PROVE  ChargeInv'
BY DEF ChargeInv, NextNoticed, Alternate, PluggedNoticed, Noticed, Plugging,
   Unplugging, chargeVars

(* The initial states satisfy it. *)
LEMMA ChargeInitially == DelayInit => ChargeInv
BY DEF DelayInit, ChargeInv, NextNoticed, Alternate, PluggedNoticed, Noticed,
   Plugging, Unplugging

(* Every step keeps it, and an unplugging heard was noticed. *)
LEMMA ChargeStep == ChargeInv /\ [DelayNext]_delayVars => ChargeInv'
<1> SUFFICES ASSUME ChargeInv, [DelayNext]_delayVars PROVE ChargeInv'
  OBVIOUS
<1>1. ASSUME NEW s \in {"on", "off"}, ScreenTurns(s) PROVE ChargeInv'
  BY <1>1, ScreenKept
<1>2. CASE CableMoves
  BY <1>2, CableKept
<1>3. ASSUME NEW o \in Owners, TimerExpires(o) PROVE ChargeInv'
  BY <1>3, ChargeStutters DEF TimerExpires, world
<1>4. CASE HandleScreenOnCompleted
  BY <1>4, ChargeKept DEF HandleScreenOnCompleted
<1>5. CASE HandleScreenOffCompleted
  BY <1>5, ChargeKept DEF HandleScreenOffCompleted
<1>6. CASE HandlerPowerDisconnected
  BY <1>6, UnpluggingHeard
<1>7. CASE HandlerPowerConnected
  BY <1>7, PluggingHeard
<1>8. CASE ScreenDecideState
  BY <1>8, ChargeStutters DEF ScreenDecideState, world
<1>9. CASE InitChargeState
  BY <1>9, ReadKept
<1>10. CASE ScreenResetState
  BY <1>10, ChargeStutters DEF ScreenResetState, world
<1>11. CASE ChargeResetState
  BY <1>11, ChargeStutters DEF ChargeResetState, world
<1>12. CASE StartupResetState
  BY <1>12, ChargeStutters DEF StartupResetState, world
<1>13. CASE UNCHANGED delayVars
  BY <1>13, ChargeStutters DEF delayVars, world
<1> QED BY <1>1, <1>2, <1>3, <1>4, <1>5, <1>6, <1>7, <1>8, <1>9, <1>10, <1>11,
           <1>12, <1>13
        DEF DelayNext, Deliver

-----------------------------------------------------------------------------
(* Theorems. *)

(* A state that only a timer ends has a timer, running or with its callback *)
(* on the way, however many callbacks wait for the mutex of a collection,  *)
(* unless the time service refused the last timer asked for.               *)
THEOREM StatesNeverStuck == DelaySpec => []NeverStuck
BY TimerInvariant, PTL DEF TimerInv

(* The screen and the startup collection know the only timer they run. *)
THEOREM RunningTimersKnown == DelaySpec => []RunningTimerKnown
BY TimerInvariant, PTL DEF TimerInv

(* Every unplugging heard opens a window, or isCharge_ last got its value  *)
(* without notice of the charger, for any number of events under way.      *)
THEOREM UnpluggingsOpenWindows == DelaySpec => UnpluggingOpensWindow
<1>1. ChargeInv /\ [DelayNext]_delayVars => [HandlerPowerDisconnected => critical' \/ missed]_delayVars
  <2> SUFFICES ASSUME ChargeInv, HandlerPowerDisconnected PROVE critical' \/ missed
    OBVIOUS
  <2>1. Noticed
    BY UnpluggingHeard
  <2> QED BY <2>1 DEF Noticed, HandlerPowerDisconnected
<1>2. DelaySpec => []ChargeInv
  BY ChargeInitially, ChargeStep, PTL DEF DelaySpec
<1> QED BY <1>1, <1>2, PTL DEF DelaySpec, UnpluggingOpensWindow
=============================================================================
