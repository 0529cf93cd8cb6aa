--------------------------- MODULE MCOperationArgs ---------------------------
(* OperationArgs: a native function, or a kernel with two arguments. *)
EXTENDS OperationArgs, TLC

Interchangeable == Permutations(Mems) \cup Permutations(Values) \cup Permutations(Intervals)
==============================================================================
