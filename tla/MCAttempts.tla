----------------------------- MODULE MCAttempts -----------------------------
(* A hostname with a companion, and one caller. *)
EXTENDS Attempts

CONSTANTS d, second, c1

=============================================================================
