----------------------------- MODULE MCReports -----------------------------
(* The idle section of the shipped configuration, and the temperatures of two sensors,
   reported by two threads of which it does not matter which is which. *)
EXTENDS Reports, TLC

MCIdleConfig == [soc |-> 80, charging |-> 1, current |-> 1000, level |-> 1]
MCTemps == [soc |-> {30, 38, 45}, shell |-> {33}]
MCSymmetry == Permutations(Reporters)
=============================================================================
