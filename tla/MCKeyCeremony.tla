--------------------------- MODULE MCKeyCeremony ---------------------------
(***************************************************************************)
(* Small instances of KeyCeremony: two processes; in the first an operator *)
(* and the maintenance loop, in the second a maintenance loop or another   *)
(* operator.                                                               *)
(***************************************************************************)
EXTENDS KeyCeremony, TLC

CONSTANTS n1, n2, op1, tick1, op2, tick2

MCNodeOf == [p \in Proc |-> IF p \in {op1, tick1} THEN n1 ELSE n2]
=============================================================================
