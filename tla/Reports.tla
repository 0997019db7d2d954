------------------------------ MODULE Reports ------------------------------
(***************************************************************************)
(* The collectors that follow the device from events of their own: the     *)
(* temperatures (TempReport), the charge-idle mode (ChargeIdle) and the    *)
(* airplane mode (Airplane).  They share no variable, and every property   *)
(* is about one of them: a behaviour moves one of them and leaves the      *)
(* others at rest, which reaches every state of each.                      *)
(***************************************************************************)
EXTENDS TempReport, ChargeIdle, Airplane

VARIABLE part   \* the collector that moves

vars == <<part, tempVars, idleVars, airplaneVars>>

Init == part \in {"temperature", "idle", "airplane"} /\ TempInit /\ IdleInit /\ AirplaneInit

Next ==
    /\ UNCHANGED part
    /\ \/ part = "temperature" /\ TempNext /\ UNCHANGED <<idleVars, airplaneVars>>
       \/ part = "idle" /\ IdleNext /\ UNCHANGED <<tempVars, airplaneVars>>
       \/ part = "airplane" /\ AirplaneNext /\ UNCHANGED <<tempVars, idleVars>>

Spec == Init /\ [][Next]_vars
=============================================================================
