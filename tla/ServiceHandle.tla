--------------------------- MODULE ServiceHandle ---------------------------
(***************************************************************************)
(* What a client may rely on: it holds no reference, or one to an          *)
(* incarnation of the service.  A reference is taken only of a service     *)
(* that is up, is given up only once that service has died, and is given   *)
(* up then.                                                                *)
(***************************************************************************)
EXTENDS Naturals

CONSTANT MaxService   \* bound on the incarnations of the service

VARIABLES up, inc,    \* the service: whether it runs, and its incarnation
          ref         \* the incarnation the client refers to, 0 for none

vars == <<up, inc, ref>>

Dead(i) == ~ (up /\ inc = i)

Attach == ref = 0 /\ up /\ ref' = inc /\ UNCHANGED <<up, inc>>
Detach == ref # 0 /\ Dead(ref) /\ ref' = 0 /\ UNCHANGED <<up, inc>>
Starts == ~ up /\ inc < MaxService /\ up' = TRUE /\ inc' = inc + 1 /\ UNCHANGED ref
Dies == up /\ up' = FALSE /\ UNCHANGED <<inc, ref>>

Init == up = FALSE /\ inc = 0 /\ ref = 0
Next == Attach \/ Detach \/ Starts \/ Dies

\* Without the promise that a dead reference is given up in the end.
Safety == Init /\ [][Next]_vars
Spec == Safety /\ WF_vars(Detach)
=============================================================================
