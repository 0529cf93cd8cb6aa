--------------------------- MODULE MCGraphBuilder ---------------------------
(* GraphBuilder with a few operations, edges and devices. *)
EXTENDS GraphBuilder, TLC

Interchangeable == Permutations(EdgeIds) \cup Permutations(CPUs)
=============================================================================
