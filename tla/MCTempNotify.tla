---------------------------- MODULE MCTempNotify ----------------------------
(* Two listeners that share one of their types. *)
EXTENDS TempNotify, TLC

MCInterest == ("l1" :> {"soc"}) @@ ("l2" :> {"soc", "battery"})
MCOrder == <<"l1", "l2">>
=============================================================================
