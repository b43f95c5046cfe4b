---------------------------- MODULE MCIssueLease ----------------------------
(***************************************************************************)
(* A small instance of IssueLease whose holds fit the lease: one attempt   *)
(* in each of two processes, the second with its clock one unit ahead.     *)
(***************************************************************************)
EXTENDS IssueLease, TLC

CONSTANTS n1, n2, a1, a2

ASSUME HoldsFit == HoldsFitLease

MCNodeOf == a1 :> n1 @@ a2 :> n2
MCSkew == n1 :> 0 @@ n2 :> 1

\* n2 keeps running: somebody has to be there to take the lease over
SurvivorSpec == LiveSpec /\ [](n2 \notin crashed)
=============================================================================
