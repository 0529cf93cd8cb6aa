------------------------------ MODULE MCFlowRun ------------------------------
(***************************************************************************)
(* FlowRun on graphs of the repository's own documents and demos.          *)
(***************************************************************************)
EXTENDS FlowRun, TLC

\* The example of README.md and of main() (Main.cpp:489-514): one operation
\* with its memory copied in and out.
ReadmeOps == {"WorkId"}
ReadmeEdges == {"in", "out"}
ReadmeSrc == "in" :> "host" @@ "out" :> "WorkId"
ReadmeDst == "in" :> "WorkId" @@ "out" :> "host"

\* Listing 1 of fcldocu.pdf: numbers made on the CPU are sorted on the CPU and
\* on the GPU, and copied back from the GPU.
ListingOps == {"genrand", "sortcpu", "sortgpu"}
ListingEdges == {"gencpu", "gengpu", "out"}
ListingSrc == "gencpu" :> "genrand" @@ "gengpu" :> "genrand" @@ "out" :> "sortgpu"
ListingDst == "gencpu" :> "sortcpu" @@ "gengpu" :> "sortgpu" @@ "out" :> "host"

==============================================================================
