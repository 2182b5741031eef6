----------------------------- MODULE MCRendezvous -----------------------------
(* Rendezvous on a few threads. *)
EXTENDS Rendezvous, TLC

(* The threads are interchangeable. *)
Symmetry == Permutations(Threads)
===============================================================================
