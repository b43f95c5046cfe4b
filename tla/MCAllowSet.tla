----------------------------- MODULE MCAllowSet -----------------------------
(* Two processes and one hostname. *)
EXTENDS AllowSet

CONSTANTS n1, n2, h1

=============================================================================
