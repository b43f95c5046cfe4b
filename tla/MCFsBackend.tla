----------------------------- MODULE MCFsBackend -----------------------------
(* Two goroutines, a lease that is swapped and a chain that is put plainly. *)
EXTENDS FsBackend

CONSTANTS w1, w2, lease, chain
=============================================================================
