----------------------------- MODULE MCLifetimes -----------------------------
(* Lifetimes with a few contexts and handles. *)
EXTENDS Lifetimes, TLC

Interchangeable == Permutations(Contexts)
==============================================================================
