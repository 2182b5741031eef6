----------------------------- MODULE MCReferences -----------------------------
(* References on a small heap. *)
EXTENDS References, TLC

(* Cells are interchangeable, and so are threads. *)
Symmetry == Permutations(Cells) \cup Permutations(Threads)
===============================================================================
