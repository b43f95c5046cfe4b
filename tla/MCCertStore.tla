----------------------------- MODULE MCCertStore -----------------------------
(* Two nodes and one operator's command. *)
EXTENDS CertStore
=============================================================================
