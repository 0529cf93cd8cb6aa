----------------------------- MODULE MCFlowData -----------------------------
(***************************************************************************)
(* FlowData on a graph with an edge of every type: numbers the host gives  *)
(* are worked on by the CPU, and the GPU adds what comes out to a memory   *)
(* of its own, in place, as in IncrTestCPUGPU (Main.cpp:157-208).          *)
(***************************************************************************)
EXTENDS FlowData, TLC

TheOps == {"gen", "acc"}
TheEdges == {"in", "dep", "out"}
TheSrc == "in" :> "host" @@ "dep" :> "gen" @@ "out" :> "acc"
TheDst == "in" :> "gen" @@ "dep" :> "acc" @@ "out" :> "host"
TheDev == "gen" :> "cpu" @@ "acc" :> "gpu"
TheArg == "in" :> "numbers" @@ "dep" :> "terms" @@ "out" :> "sum"
TheReads == "gen" :> {"numbers"} @@ "acc" :> {"terms", "sum"}
TheWrites == "gen" :> {"terms"} @@ "acc" :> {"sum"}
TheIntervals == "in" :> Always @@ "dep" :> Always @@ "out" :> Never

\* What the proofs ask of a graph holds of this one.
ASSUME GoodGraph == ConflictsOrdered /\ DataFlows /\ ResultsHaveAPlace

==============================================================================
