--------------------------- MODULE MCSessionStore ---------------------------
(* SessionStore with two goroutines and a short log, for TLC. *)
EXTENDS SessionStore, TLC

Symmetry == Permutations(Thread)
=============================================================================
