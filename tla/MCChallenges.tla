---------------------------- MODULE MCChallenges ----------------------------
(* Two processes; the CA's requests reach one of them. *)
EXTENDS Challenges

CONSTANTS n1, n2
=============================================================================
