----------------------------- MODULE MCFlowSystem -----------------------------
(* FlowSystem with a few operations, edges and devices. *)
EXTENDS FlowSystem, TLC

Interchangeable ==
  Permutations(Operations) \cup Permutations(EdgeIds) \cup Permutations(CPUs)
==============================================================================
