--------------------------- MODULE IssuanceMutex ---------------------------
(***************************************************************************)
(* What the issuance lease promises its callers, with storage, clocks and  *)
(* records left out: of all the attempts in the cluster that want to drive *)
(* an ACME order for one hostname, at most one is driving at any moment,   *)
(* and one attempt never takes over from another without a moment at which *)
(* nobody drives.  IssueLease is shown to implement this module.           *)
(***************************************************************************)
CONSTANT Attempt

VARIABLE driving        \* the attempts that hold the lease and talk to the CA

Init == driving = {}

\* acquire returned true to attempt a
Begin(a) ==
  /\ driving = {}
  /\ driving' = {a}

\* attempt a called its release func, or the process it ran in is gone
End(a) ==
  /\ a \in driving
  /\ driving' = {}

Next == \E a \in Attempt : Begin(a) \/ End(a)

Spec == Init /\ [][Next]_driving
=============================================================================
