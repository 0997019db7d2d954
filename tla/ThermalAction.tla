---------------------------- MODULE ThermalAction ----------------------------
(***************************************************************************)
(* The part that IThermalAction and its subclasses share: values collected *)
(* during a policy decision, values whose effect a timer delays, and the   *)
(* arbitration between them.  Operators only; an action object is a record *)
(* x with                                                                  *)
(*   x.valueList  the values collected since the last execution            *)
(*   x.lastValue  lastValue_                                               *)
(*   x.delays     policyActionMap_: id -> [isCompleted, value, timer]      *)
(*   x.ids        actionIdList_                                            *)
(* A delay's timer is "none" (delayTimerId 0), "armed", "spent" (its       *)
(* callback ran) or "junk": AddActionDelayTime copies a PolicyDelayAction  *)
(* whose isCompleted and delayTimerId nobody initialised.                  *)
(***************************************************************************)
EXTENDS Integers, SequencesExt

CONSTANT Malformed  \* a policy value that does not start with a number

(***************************************************************************)
(* What tells the subclasses apart: the value before the first execution   *)
(* and after ResetActionValue, the value used when nothing asks for one,   *)
(* who receives the value, what is made of it, and whether a malformed     *)
(* value is dropped or read by strtol as 0.                                *)
(***************************************************************************)
Kind(reset, fallback, sink) ==
  [reset |-> reset, fallback |-> fallback, sink |-> sink,
   form |-> "value", drops |-> FALSE]
As(kind, form) == [kind EXCEPT !.form = form]
Dropping(kind) == [kind EXCEPT !.drops = TRUE]

INT_MAX == 2147483647
UINT_MAX == -1  \* out of TLC's range; like UINT_MAX it differs from every value
BOOST_DISABLE_VALUE == 100

ActionPopup == As(Kind(0, 0, "direct"), "dialog")
ActionCharger == Kind(0, 0, "current")
ActionVoltage == Kind(0, 0, "voltage")
ActionApplicationProcess == Kind(0, 0, "direct")
ActionShutdown == As(Kind(0, 0, "direct"), "trigger")
ActionCpuBig == Kind(0, INT_MAX, "soc")
ActionCpuMed == Kind(0, INT_MAX, "soc")
ActionCpuLit == Kind(0, INT_MAX, "soc")
ActionGpu == Kind(0, INT_MAX, "soc")
ActionCpuBoost == As(Kind(UINT_MAX, 0, "soc"), "boost")
ActionCpuIsolate == As(Kind(UINT_MAX, 0, "soc"), "switch")
ActionCpuNonVip == As(Kind(UINT_MAX, 0, "soc"), "switch")
ActionSocPerf == Dropping(As(Kind(0, 0, "soc"), "switch"))
ActionSocPerfResource(fallback) == Dropping(Kind(0, fallback, "soc"))
ActionNode(fallback) == Kind(INT_MAX, fallback, "direct")
(* Ratios are counted in percent, far above FLOAT_ACCURACY.                *)
ActionDisplay == Kind(0, 100, "direct")
ActionVolume == Kind(0, 100, "direct")

(* What a receiver is given for a value.  A shutdown is not requested for  *)
(* 0, and there are dialogs for LOWER_TEMP and HIGHER_TEMP only.           *)
Silent(kind, value) ==
  \/ kind.form = "trigger" /\ value = 0
  \/ kind.form = "dialog" /\ value \notin {1, 2}
Received(kind, value) ==
  CASE kind.form \in {"value", "dialog"} -> value
    [] kind.form \in {"switch", "trigger"} -> value > 0
    [] kind.form = "boost" -> IF value = BOOST_DISABLE_VALUE THEN [status |-> FALSE]
                              ELSE [status |-> TRUE, level |-> value]

(***************************************************************************)
(* The factory, and the action map built from the configured items         *)
(* [name, protocol, strict, fallback]: the protocol, or else the name,     *)
(* picks the class; an item without a class is skipped; of two items with  *)
(* one name the first is kept, but both enter SocSet.  The thermal level   *)
(* action has a module of its own; the airplane action is left out.        *)
(***************************************************************************)
Factory(fallback) ==
  [popup |-> ActionPopup, current |-> ActionCharger, voltage |-> ActionVoltage,
   process_ctrl |-> ActionApplicationProcess, shut_down |-> ActionShutdown,
   cpu_big |-> ActionCpuBig,
   cpu_med |-> ActionCpuMed, cpu_lit |-> ActionCpuLit, gpu |-> ActionGpu,
   boost |-> ActionCpuBoost, isolate |-> ActionCpuIsolate, nonvip |-> ActionCpuNonVip,
   socperf |-> ActionSocPerf, socperf_resource |-> ActionSocPerfResource(fallback),
   node |-> ActionNode(fallback), lcd |-> ActionDisplay, volume |-> ActionVolume]

ClassOf(item) == IF item.protocol # "" THEN item.protocol ELSE item.name
Created(items) == {i \in DOMAIN items : ClassOf(items[i]) \in DOMAIN Factory(0)}
Create(item) == Factory(item.fallback)[ClassOf(item)]
SocSet(items) == {items[i].name : i \in {j \in Created(items) : Create(items[j]).sink = "soc"}}

ActionMap(items) ==
  [name \in {items[i].name : i \in Created(items)} |->
     LET item == items[Min({i \in Created(items) : items[i].name = name})]
     IN  [kind |-> Create(item), strict |-> item.strict, socSet |-> name \in SocSet(items)]]

NewAction(kind) ==
  [valueList |-> {}, lastValue |-> kind.reset, delays |-> <<>>, ids |-> {}]

(* What the uninitialised fields of a PolicyDelayAction may hold.          *)
UninitialisedDelay == [isCompleted : BOOLEAN, value : {0}, timer : {"none", "junk"}]

(* The value is written by the AddActionValue that follows.                *)
AddActionDelayTime(x, id, uninit) ==
  [x EXCEPT !.delays = [i \in DOMAIN x.delays \cup {id} |->
                          IF i \in DOMAIN x.delays THEN x.delays[i] ELSE uninit],
            !.ids = @ \cup {id}]

(* An id of 0 stands for a value without a delay.                          *)
AddActionValue(kind, x, id, value) ==
  LET number == IF value = Malformed THEN 0 ELSE value
  IN  IF value = Malformed /\ kind.drops THEN x
      ELSE IF id = 0 THEN [x EXCEPT !.valueList = @ \cup {number}]
      ELSE IF id \in DOMAIN x.delays THEN [x EXCEPT !.delays[id].value = number]
      ELSE x

GetActionValue(kind, strict, valueList) ==
  IF valueList = {} THEN kind.fallback
  ELSE IF strict THEN Min(valueList) ELSE Max(valueList)

(* Mutant: the values of a decision stay for the next one.                 *)
ExecuteInnerKeepsValues(kind, strict, x) ==
  LET completed == {i \in DOMAIN x.delays : x.delays[i].isCompleted}
      all == x.valueList \cup {x.delays[i].value : i \in completed}
  IN  [x EXCEPT !.lastValue = GetActionValue(kind, strict, all)]

ExecuteInner(kind, strict, x) ==
  LET completed == {i \in DOMAIN x.delays : x.delays[i].isCompleted}
      all == x.valueList \cup {x.delays[i].value : i \in completed}
  IN  [x EXCEPT !.lastValue = GetActionValue(kind, strict, all),
                !.valueList = {}]

(* CreateTimer answers 0 when the time service fails.                      *)
StartTimers(delays, timerFails) ==
  [i \in DOMAIN delays |->
     IF delays[i].isCompleted \/ delays[i].timer # "none" \/ timerFails
     THEN delays[i]
     ELSE [delays[i] EXCEPT !.timer = "armed"]]

(* Delays that this decision did not ask for are dropped with their timer. *)
Execute(kind, strict, x, timerFails) ==
  LET kept == [i \in DOMAIN x.delays \cap x.ids |-> x.delays[i]]
  IN  ExecuteInner(kind, strict,
                   [x EXCEPT !.delays = StartTimers(kept, timerFails), !.ids = {}])

(* The timer callback Execute installs.                                    *)
TimerCallback(kind, strict, x, id) ==
  LET y == ExecuteInner(kind, strict, [x EXCEPT !.delays[id].isCompleted = TRUE])
  IN  [y EXCEPT !.delays[id].timer = "spent"]

(* Mutant: a subclass that does not override ResetActionValue.             *)
ResetActionValueMissing(kind, x) == x

ResetActionValue(kind, x) == [x EXCEPT !.lastValue = kind.reset]
=============================================================================
