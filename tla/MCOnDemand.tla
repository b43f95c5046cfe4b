----------------------------- MODULE MCOnDemand -----------------------------
(* Two processes and one hostname. *)
EXTENDS OnDemand

CONSTANTS n1, n2, h1

=============================================================================
