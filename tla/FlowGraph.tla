------------------------------ MODULE FlowGraph ------------------------------
(***************************************************************************)
(* The dataflow graph a Framework holds once it is built, and the barriers *)
(* its threads meet at.                                                    *)
(*                                                                         *)
(* An edge is what the host made with SetArgInput (from Host to an         *)
(* operation), SetArgOutput (from an operation to Host) or                 *)
(* SetArgDependency (from one operation to another).  Every operation and  *)
(* every edge has a thread of its own and two barriers, m_sync_input and   *)
(* m_sync_output.  CreateInputEdge, CreateOutputEdge and CreateOpToOpEdge  *)
(* give an operation with incoming edges a barrier it shares with them, an *)
(* operation with outgoing edges a second one, and leave every other end   *)
(* of a thread at the two barriers of the Framework, where the host is.    *)
(***************************************************************************)
EXTENDS Naturals, FiniteSets

CONSTANTS
  Ops, Edges,   \* the Operation and Edge objects, each with its thread
  Src, Dst,     \* the two ends of an edge
  Host          \* the thread that calls Run

Workers == Ops \cup Edges
Threads == Workers \cup {Host}

ASSUME GraphAssumption ==
  /\ IsFiniteSet(Ops) /\ IsFiniteSet(Edges)
  /\ Ops \cap Edges = {} /\ Host \notin Workers
  /\ Src \in [Edges -> Ops \cup {Host}]
  /\ Dst \in [Edges -> Ops \cup {Host}]
  /\ \A e \in Edges : Src[e] # Host \/ Dst[e] # Host

InEdges(o) == {e \in Edges : Dst[e] = o}
OutEdges(o) == {e \in Edges : Src[e] = o}

\* The workers whose work must be over before t may start its own, and those
\* that wait for t.
Feeders(t) == IF t \in Ops THEN InEdges(t) ELSE {Src[t]} \ {Host}
Followers(t) == IF t \in Ops THEN OutEdges(t) ELSE {Dst[t]} \ {Host}

\* "a directed acyclic graph" (README.md:12 of the repository): nothing in the code
\* checks it. Among any workers one comes first.
ASSUME AcyclicAssumption ==
  \A S \in (SUBSET Workers) \ {{}} : \E t \in S : Feeders(t) \cap S = {}
------------------------------------------------------------------------------
(* The barriers. <<"in", Host>> and <<"out", Host>> are the m_sync_input and  *)
(* m_sync_output of the Framework.                                            *)

FrameworkInput == <<"in", Host>>
FrameworkOutput == <<"out", Host>>

\* Slips that no specification uses. Every edge enters where the host is, also
\* one that comes from an operation.
InputSyncSlip ==
  [t \in Threads |->
     IF t \in Ops /\ InEdges(t) # {} THEN <<"in", t>> ELSE FrameworkInput]

\* An output edge is not counted in the barrier where the host waits.
OutputSyncSlip ==
  [t \in Threads |->
     IF t \in Ops THEN IF OutEdges(t) = {} THEN FrameworkOutput ELSE <<"out", t>>
     ELSE IF t = Host THEN FrameworkOutput
     ELSE IF Dst[t] = Host THEN <<"out", t>> ELSE <<"in", Dst[t]>>]

InputSync ==
  [t \in Threads |->
     IF t \in Ops THEN IF InEdges(t) = {} THEN FrameworkInput ELSE <<"in", t>>
     ELSE IF t = Host \/ Src[t] = Host THEN FrameworkInput
     ELSE <<"out", Src[t]>>]

OutputSync ==
  [t \in Threads |->
     IF t \in Ops THEN IF OutEdges(t) = {} THEN FrameworkOutput ELSE <<"out", t>>
     ELSE IF t = Host \/ Dst[t] = Host THEN FrameworkOutput
     ELSE <<"in", Dst[t]>>]

Barriers == {InputSync[t] : t \in Threads} \cup {OutputSync[t] : t \in Threads}

Members(b) == {t \in Threads : InputSync[t] = b \/ OutputSync[t] = b}

\* m_barrier_size once the graph is built: one Add for each member.
Size(b) == Cardinality(Members(b))

==============================================================================
