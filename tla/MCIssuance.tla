----------------------------- MODULE MCIssuance -----------------------------
(* Two processes; the goroutines named after n1's run in n1, the rest in n2. *)
EXTENDS Issuance

CONSTANTS n1, n2, op1, shake1, tick1, shake2, tick2

MCNodeOf == [p \in Proc |-> IF p \in {op1, shake1, tick1} THEN n1 ELSE n2]
=============================================================================
