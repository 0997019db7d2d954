--------------------------- MODULE MCActionNotify ---------------------------
(* Two listeners with overlapping interests in two actions. *)
EXTENDS ActionNotify, TLC

MCInterest == ("l1" :> {"a"}) @@ ("l2" :> {"a", "b"})
MCOrder == <<"l1", "l2">>
=============================================================================
