---------------------------- MODULE FlowRunProofs ----------------------------
(***************************************************************************)
(* Proofs about FlowRun, for every finite acyclic graph, and in the second *)
(* half about FlowData, where every step is one of FlowRun.                *)
(***************************************************************************)
EXTENDS FlowData, FiniteSetTheorems, TLAPS

------------------------------------------------------------------------------
(* The graph and its barriers. *)

LEMMA SyncTypes ==
  ASSUME NEW t \in Threads
  PROVE  /\ InputSync[t] \in Barriers /\ OutputSync[t] \in Barriers
         /\ InputSync[t] # OutputSync[t]
         /\ t \in Members(InputSync[t]) /\ t \in Members(OutputSync[t])
<1>1. InputSync[t] # OutputSync[t]
  BY GraphAssumption
     DEF InputSync, OutputSync, FrameworkInput, FrameworkOutput, Threads, Workers
<1> QED
  BY <1>1 DEF Barriers, Members

\* What feeds a worker leaves through the barrier the worker enters by.
LEMMA FeederMeets ==
  ASSUME NEW t \in Workers, NEW u \in Feeders(t)
  PROVE  u \in Workers /\ OutputSync[u] = InputSync[t]
<1>1. CASE t \in Ops
  <2>1. u \in Edges /\ Dst[u] = t /\ u \notin Ops /\ t # Host /\ u # Host
    BY <1>1, GraphAssumption DEF Feeders, InEdges, Workers
  <2>2. InEdges(t) # {}
    BY <1>1, <2>1 DEF InEdges
  <2> QED
    BY <1>1, <2>1, <2>2 DEF InputSync, OutputSync, Threads, Workers
<1>2. CASE t \in Edges
  <2>1. u = Src[t] /\ u # Host /\ u \in Ops /\ t \notin Ops /\ t # Host
    BY <1>2, GraphAssumption DEF Feeders, Workers
  <2>2. OutEdges(u) # {}
    BY <1>2, <2>1 DEF OutEdges
  <2> QED
    BY <1>2, <2>1, <2>2 DEF InputSync, OutputSync, Threads, Workers
<1> QED
  BY <1>1, <1>2 DEF Workers

LEMMA FollowerMeets ==
  ASSUME NEW t \in Workers, NEW u \in Followers(t)
  PROVE  u \in Workers /\ InputSync[u] = OutputSync[t]
<1>1. CASE t \in Ops
  <2>1. u \in Edges /\ Src[u] = t /\ u \notin Ops /\ t # Host /\ u # Host
    BY <1>1, GraphAssumption DEF Followers, OutEdges, Workers
  <2>2. OutEdges(t) # {}
    BY <1>1, <2>1 DEF OutEdges
  <2> QED
    BY <1>1, <2>1, <2>2 DEF InputSync, OutputSync, Threads, Workers
<1>2. CASE t \in Edges
  <2>1. u = Dst[t] /\ u # Host /\ u \in Ops /\ t \notin Ops /\ t # Host
    BY <1>2, GraphAssumption DEF Followers, Workers
  <2>2. InEdges(u) # {}
    BY <1>2, <2>1 DEF InEdges
  <2> QED
    BY <1>2, <2>1, <2>2 DEF InputSync, OutputSync, Threads, Workers
<1> QED
  BY <1>1, <1>2 DEF Workers

\* A worker that nothing feeds enters with the host, one that feeds nothing
\* leaves with it.
LEMMA EndsMeetHost ==
  ASSUME NEW t \in Workers
  PROVE  /\ Feeders(t) = {} => InputSync[t] = InputSync[Host]
         /\ Followers(t) = {} => OutputSync[t] = OutputSync[Host]
<1>1. InputSync[Host] = FrameworkInput /\ OutputSync[Host] = FrameworkOutput
  BY GraphAssumption DEF InputSync, OutputSync, Threads, Workers
<1>2. CASE t \in Ops
  BY <1>1, <1>2 DEF InputSync, OutputSync, Threads, Workers, Feeders, Followers
<1>3. CASE t \in Edges
  <2>1. t \notin Ops
    BY <1>3, GraphAssumption
  <2> QED
    BY <1>1, <1>3, <2>1 DEF InputSync, OutputSync, Threads, Workers, Feeders, Followers
<1> QED
  BY <1>2, <1>3 DEF Workers

LEMMA FiniteGraph ==
  /\ IsFiniteSet(Workers) /\ Cardinality(Workers) \in Nat
  /\ IsFiniteSet(Threads)
  /\ \A b : IsFiniteSet(Members(b)) /\ Size(b) \in Nat
<1>1. IsFiniteSet(Workers)
  BY GraphAssumption, FS_Union DEF Workers
<1>2. IsFiniteSet(Threads)
  BY <1>1, FS_AddElement DEF Threads
<1>3. ASSUME NEW b PROVE IsFiniteSet(Members(b)) /\ Size(b) \in Nat
  <2>1. Members(b) \in SUBSET Threads
    BY DEF Members
  <2> QED
    BY <1>2, <2>1, FS_Subset, FS_CardinalityType DEF Size
<1> QED
  BY <1>1, <1>2, <1>3, FS_CardinalityType

------------------------------------------------------------------------------
(* No worker leaves the round of the host. *)

LEMMA InsType ==
  ASSUME TypeOK, NEW t \in Threads
  PROVE  outs[t] \in Nat /\ Ins(t) \in Nat /\ outs[t] <= Ins(t) /\ Ins(t) <= outs[t] + 1
BY DEF TypeOK, Ins

\* A finite set in which everyone has a successor has a circle in it: the least of its
\* parts of that kind, where everyone has a predecessor too.
LEMMA Circle ==
  ASSUME NEW S, IsFiniteSet(S), S # {}, NEW R, \A x \in S : \E y \in S : <<x, y>> \in R
  PROVE  \E C \in (SUBSET S) \ {{}} : \A y \in C : \E x \in C : <<x, y>> \in R
<1> DEFINE Parts == {P \in SUBSET S : P # {} /\ \A x \in P : \E y \in P : <<x, y>> \in R}
           Less == StrictSubsetOrdering(S)
<1>1. IsWellFoundedOn(Less, SUBSET S)
  <2>1. IsWellFoundedOn(Less, FiniteSubsetsOf(S))
    BY FS_StrictSubsetOrderingWellFounded
  <2> QED
    BY <2>1, FS_FiniteSubsetsOfFinite
<1>2. Parts \subseteq SUBSET S /\ Parts # {}
  <2>1. S \in Parts
    OBVIOUS
  <2> QED
    BY <2>1
<1>3. PICK C \in Parts : \A P \in Parts : ~(<<P, C>> \in Less)
  <2> HIDE DEF Parts, Less
  <2> QED
    BY <1>1, <1>2, WFMin
<1>4. ASSUME NEW y \in C, \A x \in C : <<x, y>> \notin R
      PROVE  FALSE
  <2>1. C \ {y} \in Parts
    <3>1. \A x \in C : \E z \in C \ {y} : <<x, z>> \in R
      BY <1>4
    <3> QED
      BY <3>1
  <2>2. <<C \ {y}, C>> \in Less
    BY DEF StrictSubsetOrdering
  <2> QED
    BY <1>3, <2>1, <2>2
<1> QED
  BY <1>4

\* So where among any workers one comes first, one comes last too.
LEMMA SomebodyIsLast ==
  ASSUME NEW S \in SUBSET Workers, S # {}
  PROVE  \E t \in S : Followers(t) \cap S = {}
<1> DEFINE Then == {p \in Workers \X Workers : p[2] \in Followers(p[1])}
<1>1. SUFFICES ASSUME \A t \in S : Followers(t) \cap S # {} PROVE FALSE
  OBVIOUS
<1>2. IsFiniteSet(S)
  <2>1. IsFiniteSet(Workers)
    BY GraphAssumption, FS_Union DEF Workers
  <2> QED
    BY <2>1, FS_Subset
<1>3. \A x \in S : \E y \in S : <<x, y>> \in Then
  BY <1>1
<1>4. PICK C \in (SUBSET S) \ {{}} : \A y \in C : \E x \in C : <<x, y>> \in Then
  <2> HIDE DEF Then
  <2> QED
    BY <1>2, <1>3, Circle
<1>5. \A x, y \in Workers : y \in Followers(x) => x \in Feeders(y)
  BY GraphAssumption DEF Followers, Feeders, InEdges, OutEdges, Workers
<1>6. \A y \in C : Feeders(y) \cap C # {}
  BY <1>4, <1>5
<1> QED
  BY <1>4, <1>6, AcyclicAssumption

\* Two workers joined in the graph stand in the same phase at their barrier.
LEMMA FeederPhase ==
  ASSUME TypeOK, PhaseInv, NEW t \in Workers, NEW u \in Feeders(t)
  PROVE  u \in Workers /\ outs[u] = Ins(t)
<1>1. u \in Workers /\ OutputSync[u] = InputSync[t]
  BY FeederMeets
<1>2. u \in Threads /\ t \in Threads
  BY <1>1 DEF Threads
<1>3. Passes(u, InputSync[t]) = Passes(t, InputSync[t])
  BY <1>1, <1>2, SyncTypes DEF PhaseInv
<1> QED
  BY <1>1, <1>2, <1>3, SyncTypes DEF Passes

LEMMA FollowerPhase ==
  ASSUME TypeOK, PhaseInv, NEW t \in Workers, NEW u \in Followers(t)
  PROVE  u \in Workers /\ Ins(u) = outs[t]
<1>1. u \in Workers /\ InputSync[u] = OutputSync[t]
  BY FollowerMeets
<1>2. u \in Threads /\ t \in Threads
  BY <1>1 DEF Threads
<1>3. Passes(u, OutputSync[t]) = Passes(t, OutputSync[t])
  BY <1>1, <1>2, SyncTypes DEF PhaseInv
<1> QED
  BY <1>1, <1>2, <1>3, SyncTypes DEF Passes

LEMMA NotBehindHost ==
  ASSUME TypeOK, PhaseInv
  PROVE  \A t \in Workers : outs[Host] <= outs[t]
<1> DEFINE Late == {t \in Workers : outs[t] < outs[Host]}
<1>1. Host \in Threads /\ Workers \subseteq Threads
  BY DEF Threads
<1>2. ASSUME Late # {} PROVE FALSE
  <2>1. PICK t \in Late : Followers(t) \cap Late = {}
    BY <1>2, SomebodyIsLast
  <2>2. t \in Workers /\ outs[t] < outs[Host] /\ outs[t] \in Nat /\ outs[Host] \in Nat
    BY <1>1, InsType
  <2>3. CASE Followers(t) = {}
    <3>1. Passes(t, OutputSync[Host]) = Passes(Host, OutputSync[Host])
      BY <1>1, <2>2, <2>3, EndsMeetHost, SyncTypes DEF PhaseInv
    <3>2. outs[t] = outs[Host]
      BY <1>1, <2>2, <2>3, <3>1, EndsMeetHost, SyncTypes DEF Passes
    <3> QED
      BY <2>2, <3>2
  <2>4. CASE Followers(t) # {}
    <3>1. PICK u \in Followers(t) : TRUE
      BY <2>4
    <3>2. u \in Workers /\ Ins(u) = outs[t]
      BY <2>2, FollowerPhase
    <3>3. u \notin Late
      BY <2>1, <3>1
    <3>4. outs[u] >= outs[Host] /\ outs[u] <= Ins(u) /\ outs[u] \in Nat
      BY <1>1, <2>2, <3>2, <3>3, InsType
    <3> QED
      BY <2>2, <3>2, <3>4
  <2> QED
    BY <2>3, <2>4
<1> QED
  BY <1>1, <1>2, InsType

LEMMA NotAheadOfHost ==
  ASSUME TypeOK, PhaseInv
  PROVE  \A t \in Workers : Ins(t) <= Ins(Host)
<1> DEFINE Ahead == {t \in Workers : Ins(t) > Ins(Host)}
<1>1. Host \in Threads /\ Workers \subseteq Threads
  BY DEF Threads
<1>2. ASSUME Ahead # {} PROVE FALSE
  <2>1. PICK t \in Ahead : Feeders(t) \cap Ahead = {}
    BY <1>2, AcyclicAssumption
  <2>2. t \in Workers /\ Ins(t) > Ins(Host) /\ Ins(t) \in Nat /\ Ins(Host) \in Nat
    BY <1>1, InsType
  <2>3. CASE Feeders(t) = {}
    <3>1. Passes(t, InputSync[Host]) = Passes(Host, InputSync[Host])
      BY <1>1, <2>2, <2>3, EndsMeetHost, SyncTypes DEF PhaseInv
    <3>2. Ins(t) = Ins(Host)
      BY <1>1, <2>2, <2>3, <3>1, EndsMeetHost, SyncTypes DEF Passes
    <3> QED
      BY <2>2, <3>2
  <2>4. CASE Feeders(t) # {}
    <3>1. PICK u \in Feeders(t) : TRUE
      BY <2>4
    <3>2. u \in Workers /\ outs[u] = Ins(t)
      BY <2>2, FeederPhase
    <3>3. u \notin Ahead
      BY <2>1, <3>1
    <3>4. Ins(u) <= Ins(Host) /\ outs[u] <= Ins(u) /\ Ins(u) \in Nat /\ outs[u] \in Nat
      BY <1>1, <2>2, <3>2, <3>3, InsType
    <3> QED
      BY <2>2, <3>2, <3>4
  <2> QED
    BY <2>3, <2>4
<1> QED
  BY <1>1, <1>2, InsType

\* Every worker stands between the two barriers of the host.
LEMMA Sandwich ==
  ASSUME TypeOK, PhaseInv, NEW t \in Workers
  PROVE  /\ outs[Host] <= outs[t] /\ outs[t] <= Ins(t) /\ Ins(t) <= Ins(Host)
         /\ Ins(Host) <= outs[Host] + 1
         /\ outs[t] \in Nat /\ Ins(t) \in Nat /\ outs[Host] \in Nat /\ Ins(Host) \in Nat
<1>1. t \in Threads /\ Host \in Threads
  BY DEF Threads
<1> QED
  BY <1>1, NotBehindHost, NotAheadOfHost, InsType

\* When the host is outside a round so is everyone.
LEMMA AllAtRest ==
  ASSUME TypeOK, PhaseInv, ~InRound(Host), NEW t \in Workers
  PROVE  outs[t] = outs[Host] /\ ~InRound(t)
<1>1. Ins(Host) = outs[Host] /\ outs[Host] \in Nat
  BY DEF Ins, TypeOK, Threads
<1>2. outs[t] = outs[Host] /\ Ins(t) = outs[t] /\ outs[t] \in Nat
  BY <1>1, Sandwich
<1> QED
  BY <1>2 DEF Ins

\* Inside its round a worker finds what feeds it at rest, one round on.
LEMMA FeedersAtRest ==
  ASSUME TypeOK, PhaseInv, NEW t \in Workers, InRound(t), NEW u \in Feeders(t)
  PROVE  u \in Workers /\ outs[u] = outs[t] + 1 /\ ~InRound(u)
<1>1. u \in Workers /\ outs[u] = Ins(t)
  BY FeederPhase
<1>2. Ins(t) = outs[t] + 1 /\ outs[t] \in Nat
  BY DEF Ins, TypeOK, Threads
<1>3. Ins(u) = outs[u] /\ outs[u] \in Nat
  BY <1>1, <1>2, Sandwich
<1> QED
  BY <1>1, <1>2, <1>3 DEF Ins

------------------------------------------------------------------------------
(* The invariant holds initially and every step preserves it. *)

LEMMA InitIInv == Init => IInv
<1> SUFFICES ASSUME Init PROVE IInv
  OBVIOUS
<1> USE DEF Init
<1>0. Host \in Threads /\ Host \notin Workers /\ Workers \subseteq Threads
  BY GraphAssumption DEF Threads
<1>1. TypeOK
  <2>1. execute \in BOOLEAN
    BY Zenon
  <2> QED
    BY <1>0, <2>1 DEF TypeOK, WorkerPlaces, HostPlaces
<1>2. BarrierInv
  <2> SUFFICES ASSUME NEW b \in Barriers
               PROVE  count[b] = Cardinality(Waiting(b)) /\ Waiting(b) # Members(b)
    BY DEF BarrierInv
  <2>1. Waiting(b) = {}
    BY DEF Waiting
  <2>2. Members(b) # {}
    BY DEF Members, Barriers
  <2> QED
    BY <2>1, <2>2, FS_EmptySet
<1>3. PhaseInv
  BY DEF PhaseInv, Members, Passes, Ins, InRound
<1>4. GateInv
  <2>1. {t \in Workers : pc[t] # "start"} = {}
    BY <1>0
  <2>2. Unstarted
    BY <1>0 DEF Unstarted
  <2> QED
    BY <1>0, <2>1, <2>2, FS_EmptySet DEF GateInv
<1>5. HostInv /\ WorkInv
  BY <1>0 DEF HostInv, WorkInv
<1> QED
  BY <1>1, <1>2, <1>3, <1>4, <1>5 DEF IInv

\* Steps that take nobody into, out of or through a barrier.
LEMMA AwayFromBarriers ==
  ASSUME BarrierInv, PhaseInv, UNCHANGED <<count, outs>>,
         \A u \in Threads : InRound(u)' <=> InRound(u),
         \A u \in Threads : pc'[u] = pc[u]
           \/ (pc[u] \notin {"atin", "atout"} /\ pc'[u] \notin {"atin", "atout"})
  PROVE  BarrierInv' /\ PhaseInv'
<1>1. \A b \in Barriers : Waiting(b)' = Waiting(b)
  BY DEF Waiting, BarrierOf
<1>2. BarrierInv'
  BY <1>1 DEF BarrierInv
<1>3. \A u \in Threads : \A b \in Barriers : Passes(u, b)' = Passes(u, b)
  BY DEF Passes, Ins
<1>4. PhaseInv'
  BY <1>3 DEF PhaseInv, Members
<1> QED
  BY <1>2, <1>4

\* The gate once it is open: nobody goes back to it.
LEMMA GateStaysOpen ==
  ASSUME GateInv, ~Unstarted, ~Unstarted', numWait' = numWait,
         \A t \in Workers : pc'[t] # pc[t] =>
           pc[t] \notin {"start", "parked"} /\ pc'[t] \notin {"start", "parked"}
  PROVE  GateInv'
<1>1. {t \in Workers : pc[t] # "start"}' = {t \in Workers : pc[t] # "start"}
  OBVIOUS
<1> QED
  BY <1>1 DEF GateInv

LEMMA ParkStep ==
  ASSUME IInv, NEW t \in Workers, Park(t)
  PROVE  IInv'
<1> USE DEF IInv, Park
<1>0. t \in Threads /\ t # Host /\ Host \in Threads /\ Workers \subseteq Threads
  BY GraphAssumption DEF Threads
<1>1. TypeOK'
  BY <1>0 DEF TypeOK, WorkerPlaces
<1>2. BarrierInv' /\ PhaseInv'
  BY <1>0, AwayFromBarriers DEF TypeOK, InRound
<1>3. Unstarted' <=> Unstarted
  BY <1>0 DEF Unstarted, TypeOK
<1>4. GateInv'
  <2> DEFINE Parked == {u \in Workers : pc[u] # "start"}
  <2>1. Parked' = Parked \cup {t} /\ t \notin Parked
    BY <1>0 DEF TypeOK
  <2>2. Parked \in SUBSET Workers
    OBVIOUS
  <2>3. IsFiniteSet(Parked) /\ Cardinality(Parked) \in Nat
    BY <2>2, FiniteGraph, FS_Subset, FS_CardinalityType
  <2>4. Cardinality(Parked') = Cardinality(Parked) + 1
    BY <2>1, <2>3, FS_AddElement
  <2>5. numWait' = Cardinality(Parked')
    BY <2>4 DEF GateInv
  <2>6. \A u \in Workers : Unstarted' <=> pc'[u] \in {"start", "parked"}
    BY <1>0, <1>3 DEF GateInv, TypeOK
  <2> QED
    BY <1>3, <2>5, <2>6 DEF GateInv
<1>5. HostInv' /\ WorkInv'
  BY <1>0 DEF HostInv, WorkInv, TypeOK, ClosesRound
<1> QED
  BY <1>1, <1>2, <1>4, <1>5

LEMMA TestLoopStep ==
  ASSUME IInv, NEW t \in Workers, TestLoop(t)
  PROVE  IInv'
<1> USE DEF IInv, TestLoop
<1>0. t \in Threads /\ t # Host /\ Host \in Threads /\ Workers \subseteq Threads
  BY GraphAssumption DEF Threads
<1>1. TypeOK'
  BY <1>0 DEF TypeOK, WorkerPlaces
<1>2. BarrierInv' /\ PhaseInv'
  BY <1>0, AwayFromBarriers DEF TypeOK, InRound
<1>3. ~Unstarted /\ ~Unstarted'
  BY <1>0 DEF Unstarted, TypeOK, GateInv
<1>4. GateInv'
  BY <1>0, <1>3, GateStaysOpen DEF TypeOK
<1>5. HostInv'
  BY <1>0 DEF HostInv, TypeOK
<1>6. WorkInv'
  BY <1>0 DEF WorkInv, TypeOK, ClosesRound
<1> QED
  BY <1>1, <1>2, <1>4, <1>5, <1>6

LEMMA TestAgainStep ==
  ASSUME IInv, NEW t \in Workers, TestAgain(t)
  PROVE  IInv'
<1> USE DEF IInv, TestAgain
<1>0. t \in Threads /\ t # Host /\ Host \in Threads /\ Workers \subseteq Threads
  BY GraphAssumption DEF Threads
<1>1. TypeOK'
  BY <1>0 DEF TypeOK, WorkerPlaces
<1>2. BarrierInv' /\ PhaseInv'
  BY <1>0, AwayFromBarriers DEF TypeOK, InRound
<1>3. ~Unstarted /\ ~Unstarted'
  BY <1>0 DEF Unstarted, TypeOK, GateInv
<1>4. GateInv'
  BY <1>0, <1>3, GateStaysOpen DEF TypeOK
<1>5. HostInv'
  BY <1>0 DEF HostInv, TypeOK
<1>6. WorkInv'
  BY <1>0 DEF WorkInv, TypeOK, ClosesRound
<1> QED
  BY <1>1, <1>2, <1>4, <1>5, <1>6

LEMMA FinishWorkStep ==
  ASSUME IInv, NEW t \in Workers, FinishWork(t)
  PROVE  IInv'
<1> USE DEF IInv, FinishWork
<1>0. t \in Threads /\ t # Host /\ Host \in Threads /\ Workers \subseteq Threads
  BY GraphAssumption DEF Threads
<1>1. TypeOK'
  BY <1>0 DEF TypeOK, WorkerPlaces
<1>2. BarrierInv' /\ PhaseInv'
  BY <1>0, AwayFromBarriers DEF TypeOK, InRound
<1>3. ~Unstarted /\ ~Unstarted'
  BY <1>0 DEF Unstarted, TypeOK, GateInv
<1>4. GateInv'
  BY <1>0, <1>3, GateStaysOpen DEF TypeOK
<1>5. HostInv'
  BY <1>0 DEF HostInv, TypeOK
<1>6. WorkInv'
  BY <1>0 DEF WorkInv, TypeOK, ClosesRound
<1> QED
  BY <1>1, <1>2, <1>4, <1>5, <1>6

\* A thread in front of a barrier: the gate is open for it.
LEMMA AtBarrier ==
  ASSUME TypeOK, GateInv, HostInv, NEW t \in Threads, pc[t] \in {"syncin", "syncout"}
  PROVE  ~Unstarted
BY GraphAssumption DEF TypeOK, GateInv, Unstarted, Threads

LEMMA EarlyArrivalStep ==
  ASSUME IInv, NEW t \in Threads, EarlyArrival(t)
  PROVE  IInv'
<1>a. PICK b : b = BarrierOf(t)
  OBVIOUS
<1> USE <1>a DEF IInv, EarlyArrival
<1>0. /\ b \in Barriers /\ t \in Members(b) /\ Host \in Threads
      /\ Workers \subseteq Threads /\ Host \notin Workers
  BY SyncTypes, GraphAssumption DEF BarrierOf, Threads
<1>1. TypeOK'
  BY <1>0, GraphAssumption DEF TypeOK, WorkerPlaces, HostPlaces
<1>2. BarrierInv'
  <2>1. BarrierOf(t)' = b /\ pc'[t] \in {"atin", "atout"}
    BY DEF BarrierOf, TypeOK
  <2>2. Waiting(b)' = Waiting(b) \cup {t} /\ t \notin Waiting(b)
    BY <2>1 DEF Waiting, BarrierOf, TypeOK
  <2>3. \A c \in Barriers \ {b} : Waiting(c)' = Waiting(c)
    BY <2>1 DEF Waiting, BarrierOf, TypeOK
  <2>4. Waiting(b) \in SUBSET Members(b)
    BY DEF Waiting, BarrierOf, Members
  <2>5. IsFiniteSet(Waiting(b)) /\ Cardinality(Waiting(b)) \in Nat
    BY <2>4, FiniteGraph, FS_Subset, FS_CardinalityType
  <2>6. Cardinality(Waiting(b) \cup {t}) = Cardinality(Waiting(b)) + 1
    BY <2>2, <2>5, FS_AddElement
  <2>7. count[b] = Cardinality(Waiting(b)) /\ count[b] + 1 # Size(b)
    BY <1>0 DEF BarrierInv
  <2>8. count'[b] = Cardinality(Waiting(b)') /\ Waiting(b)' # Members(b)'
    BY <1>0, <2>2, <2>6, <2>7 DEF Size, TypeOK, Members
  <2>9. \A c \in Barriers \ {b} :
          count'[c] = Cardinality(Waiting(c)') /\ Waiting(c)' # Members(c)'
    BY <1>0, <2>3 DEF BarrierInv, TypeOK, Members
  <2> QED
    BY <2>8, <2>9 DEF BarrierInv
<1>3. PhaseInv'
  <2>1. \A u \in Threads : InRound(u)' <=> InRound(u)
    BY DEF InRound, TypeOK
  <2>2. \A u \in Threads : \A c \in Barriers : Passes(u, c)' = Passes(u, c)
    BY <2>1 DEF Passes, Ins
  <2> QED
    BY <2>2 DEF PhaseInv, Members
<1>4. ~Unstarted /\ ~Unstarted'
  BY <1>0, AtBarrier DEF Unstarted, TypeOK
<1>5. GateInv'
  BY <1>0, <1>4, GateStaysOpen DEF TypeOK
<1>6. HostInv'
  BY <1>0 DEF HostInv, TypeOK
<1>7. WorkInv'
  BY <1>0 DEF WorkInv, TypeOK, ClosesRound
<1> QED
  BY <1>1, <1>2, <1>3, <1>5, <1>6, <1>7

\* The count is complete exactly when all the others wait: every member is
\* released, and those that enter by the barrier were at their input, those that
\* leave by it at their output.
LEMMA Completes ==
  ASSUME IInv, NEW t \in Threads, LastArrival(t)
  PROVE  LET b == BarrierOf(t) IN
         /\ b \in Barriers /\ t \in Members(b)
         /\ Waiting(b) \cup {t} = Members(b)
         /\ \A u \in Members(b) :
              /\ pc[u] \in {"syncin", "atin", "syncout", "atout"}
              /\ BarrierOf(u) = b
              /\ InputSync[u] = b <=> pc[u] \in {"syncin", "atin"}
<1> DEFINE b == BarrierOf(t)
<1> USE DEF IInv, LastArrival
<1>1. b \in Barriers /\ t \in Members(b)
  BY SyncTypes DEF BarrierOf
<1>2. t \notin Waiting(b) /\ Waiting(b) \in SUBSET Members(b)
  BY DEF Waiting, BarrierOf, Members
<1>3. /\ IsFiniteSet(Members(b))
      /\ IsFiniteSet(Waiting(b)) /\ Cardinality(Waiting(b)) \in Nat
  BY <1>2, FiniteGraph, FS_Subset, FS_CardinalityType
<1>4. Cardinality(Waiting(b) \cup {t}) = Cardinality(Members(b))
  <2>1. Cardinality(Waiting(b) \cup {t}) = Cardinality(Waiting(b)) + 1
    BY <1>2, <1>3, FS_AddElement
  <2>2. count[b] = Cardinality(Waiting(b)) /\ count[b] + 1 = Size(b)
    BY <1>1 DEF BarrierInv
  <2> QED
    BY <2>1, <2>2 DEF Size
<1>5. Waiting(b) \cup {t} \in SUBSET Members(b)
  BY <1>1, <1>2
<1>6. Waiting(b) \cup {t} = Members(b)
  BY <1>3, <1>4, <1>5, FS_Subset
<1>7. ASSUME NEW u \in Members(b)
      PROVE  /\ pc[u] \in {"syncin", "atin", "syncout", "atout"}
             /\ BarrierOf(u) = b
             /\ InputSync[u] = b <=> pc[u] \in {"syncin", "atin"}
  <2>1. u \in Threads
    BY DEF Members
  <2>2. BarrierOf(u) = b /\ pc[u] \in {"syncin", "atin", "syncout", "atout"}
    BY <1>6 DEF Waiting
  <2> QED
    BY <2>1, <2>2, SyncTypes DEF BarrierOf
<1> QED
  BY <1>1, <1>6, <1>7

LEMMA LastArrivalStep ==
  ASSUME IInv, NEW t \in Threads, LastArrival(t)
  PROVE  IInv'
<1>a. PICK b : b = BarrierOf(t)
  OBVIOUS
<1> USE DEF IInv, LastArrival
<1>0. /\ b \in Barriers /\ t \in Members(b) /\ Host \in Threads
      /\ Workers \subseteq Threads /\ Host \notin Workers
  BY <1>a, Completes, GraphAssumption DEF Threads
<1>1. /\ pc' = [u \in Threads |-> IF u \in Members(b) THEN After(u) ELSE pc[u]]
      /\ outs' = [u \in Threads |-> IF u \in Members(b) /\ ClosesRound(u)
                                    THEN outs[u] + 1 ELSE outs[u]]
      /\ count' = [count EXCEPT ![b] = 0]
  BY <1>a, Completes
<1>2. \A u \in Members(b) :
        /\ u \in Threads /\ BarrierOf(u) = b
        /\ pc[u] \in {"syncin", "atin", "syncout", "atout"}
        /\ InputSync[u] = b <=> pc[u] \in {"syncin", "atin"}
  BY <1>a, Completes DEF Members
<1>3. \A u \in Threads : pc'[u] = IF u \in Members(b) THEN After(u) ELSE pc[u]
  BY <1>1
<1>4. \A u \in Threads : outs'[u] = IF u \in Members(b) /\ ClosesRound(u)
                                    THEN outs[u] + 1 ELSE outs[u]
  BY <1>1
<1>5. TypeOK'
  <2>1. \A u \in Threads : After(u) \in WorkerPlaces \cup HostPlaces
    BY DEF After, WorkerPlaces, HostPlaces
  <2>2. \A u \in Workers : After(u) \in WorkerPlaces
    BY <1>0 DEF After, WorkerPlaces
  <2>3. After(Host) \in HostPlaces
    BY DEF After, HostPlaces
  <2>4. /\ pc' \in [Threads -> WorkerPlaces \cup HostPlaces]
        /\ \A u \in Workers : pc'[u] \in WorkerPlaces
        /\ pc'[Host] \in HostPlaces
    <3>1. pc' \in [Threads -> WorkerPlaces \cup HostPlaces]
      BY <1>1, <2>1 DEF TypeOK
    <3>2. \A u \in Workers : pc'[u] \in WorkerPlaces
      BY <1>0, <1>3, <2>2 DEF TypeOK
    <3>3. pc'[Host] \in HostPlaces
      BY <1>0, <1>3, <2>3 DEF TypeOK
    <3> QED
      BY <3>1, <3>2, <3>3
  <2>5. outs' \in [Threads -> Nat]
    <3>1. \A u \in Threads : outs[u] \in Nat /\ outs[u] + 1 \in Nat
      BY DEF TypeOK
    <3> QED
      BY <1>1, <3>1
  <2>6. count' \in [Barriers -> Nat]
    <3>1. count \in [Barriers -> Nat]
      BY DEF TypeOK
    <3>2. \A f \in [Barriers -> Nat] : [f EXCEPT ![b] = 0] \in [Barriers -> Nat]
      OBVIOUS
    <3> QED
      BY <1>1, <3>1, <3>2, Zenon
  <2> QED
    BY <2>4, <2>5, <2>6 DEF TypeOK
<1>6. \A u \in Members(b) : pc'[u] \notin {"atin", "atout"}
  BY <1>2, <1>3 DEF After
<1>7. BarrierInv'
  <2>1. Waiting(b)' = {}
    <3>1. ASSUME NEW u \in Threads, pc'[u] \in {"atin", "atout"}, BarrierOf(u)' = b
          PROVE  FALSE
      <4>1. u \in Members(b)
        BY <3>1 DEF BarrierOf, Members
      <4> QED
        BY <3>1, <4>1, <1>6
    <3> QED
      BY <3>1 DEF Waiting
  <2>2. ASSUME NEW c \in Barriers \ {b}
        PROVE  Waiting(c)' = Waiting(c)
    <3>1. ASSUME NEW u \in Threads
          PROVE  u \in Waiting(c)' <=> u \in Waiting(c)
      <4>1. CASE u \in Members(b)
        BY <4>1, <1>2, <1>6 DEF Waiting
      <4>2. CASE u \notin Members(b)
        BY <4>2, <1>3 DEF Waiting, BarrierOf
      <4> QED
        BY <4>1, <4>2
    <3> QED
      BY <3>1 DEF Waiting
  <2>3. count'[b] = Cardinality(Waiting(b)') /\ Waiting(b)' # Members(b)'
    BY <1>0, <1>1, <2>1, FS_EmptySet DEF TypeOK, Members
  <2>4. \A c \in Barriers \ {b} :
          count'[c] = Cardinality(Waiting(c)') /\ Waiting(c)' # Members(c)'
    BY <1>1, <2>2 DEF BarrierInv, TypeOK, Members
  <2> QED
    BY <2>3, <2>4 DEF BarrierInv
<1>8. PhaseInv'
  <2>1. \A u \in Members(b) : Passes(u, b)' = Passes(u, b) + 1
    <3> SUFFICES ASSUME NEW u \in Members(b)
                 PROVE  Passes(u, b)' = Passes(u, b) + 1
      OBVIOUS
    <3>1. u \in Threads /\ outs[u] \in Nat
      BY <1>2 DEF TypeOK
    <3>2. CASE pc[u] \in {"syncin", "atin"}
      BY <1>2, <1>3, <1>4, <3>1, <3>2
         DEF Passes, Ins, InRound, After, ClosesRound
    <3>3. CASE pc[u] \in {"syncout", "atout"}
      BY <1>2, <1>3, <1>4, <3>1, <3>3
         DEF Passes, Ins, InRound, After, ClosesRound
    <3> QED
      BY <1>2, <3>2, <3>3
  <2>2. ASSUME NEW c \in Barriers \ {b}, NEW u \in Members(c)
        PROVE  Passes(u, c)' = Passes(u, c)
    <3>1. u \in Threads /\ outs[u] \in Nat /\ (InputSync[u] = c \/ OutputSync[u] = c)
      BY DEF Members, TypeOK
    <3>2. CASE u \notin Members(b)
      BY <1>3, <1>4, <3>1, <3>2 DEF Passes, Ins, InRound
    <3>3. CASE u \in Members(b) /\ pc[u] \in {"syncin", "atin"}
      <4>1. InputSync[u] # c
        BY <1>2, <3>3
      <4> QED
        BY <1>4, <3>1, <3>3, <4>1 DEF Passes, ClosesRound
    <3>4. CASE u \in Members(b) /\ pc[u] \in {"syncout", "atout"}
      <4>1. OutputSync[u] = b /\ InputSync[u] = c
        BY <1>2, <3>1, <3>4 DEF Members
      <4> QED
        BY <1>3, <1>4, <3>1, <3>4, <4>1
           DEF Passes, Ins, InRound, After, ClosesRound
    <3> QED
      BY <1>2, <3>2, <3>3, <3>4
  <2>3. ASSUME NEW c \in Barriers, NEW u \in Members(c), NEW v \in Members(c)
        PROVE  Passes(u, c)' = Passes(v, c)'
    <3>1. Passes(u, c) = Passes(v, c)
      BY DEF PhaseInv
    <3> QED
      BY <2>1, <2>2, <3>1
  <2> QED
    BY <2>3 DEF PhaseInv, Members
<1>9. ~Unstarted /\ ~Unstarted'
  <2>1. ~Unstarted
    BY AtBarrier
  <2>2. pc'[Host] # "starting" /\ (pc'[Host] = "idle" => pc[Host] = "idle")
    BY <1>0, <1>3, <2>1 DEF Unstarted, After
  <2> QED
    BY <2>1, <2>2 DEF Unstarted
<1>10. GateInv'
  <2>1. \A u \in Workers : pc'[u] # pc[u] =>
           pc[u] \notin {"start", "parked"} /\ pc'[u] \notin {"start", "parked"}
    BY <1>0, <1>2, <1>3 DEF After
  <2> QED
    BY <1>9, <2>1, GateStaysOpen
<1>11. HostInv'
  <2>1. CASE Host \notin Members(b)
    BY <1>0, <1>3, <1>4, <2>1 DEF HostInv
  <2>2. CASE Host \in Members(b) /\ pc[Host] \in {"syncin", "atin"}
    BY <1>0, <1>3, <1>4, <2>2 DEF HostInv, After, ClosesRound
  <2>3. CASE Host \in Members(b) /\ pc[Host] \in {"syncout", "atout"}
    <3>1. pc'[Host] = "returning" /\ outs'[Host] = outs[Host] + 1
      BY <1>0, <1>3, <1>4, <2>3 DEF After, ClosesRound
    <3>2. /\ runs > 0 /\ outs[Host] \in Nat
          /\ execute => outs[Host] + 1 = runs
          /\ ~execute => outs[Host] = runs
      BY <1>0, <2>3 DEF HostInv, TypeOK
    <3> QED
      BY <3>1, <3>2 DEF HostInv
  <2> QED
    BY <1>2, <2>1, <2>2, <2>3
<1>12. WorkInv'
  <2> SUFFICES ASSUME NEW u \in Workers
      PROVE  /\ execute => /\ work[u] = outs'[u] + (IF ClosesRound(u)' THEN 1 ELSE 0)
                           /\ pc'[u] # "exited"
             /\ ~execute => /\ work[u] = runs
                            /\ pc'[u] # "busy"
                            /\ SleepSettles /\ runs > 0 /\ pc'[u] \in {"loop", "exited"}
                                 => outs'[u] = runs + 1
    BY DEF WorkInv
  <2>1. u \in Threads /\ u # Host /\ outs[u] \in Nat
    BY <1>0 DEF TypeOK
  <2>2. CASE u \notin Members(b)
    BY <1>3, <1>4, <2>1, <2>2 DEF WorkInv, ClosesRound
  <2>3. CASE u \in Members(b) /\ pc[u] \in {"syncin", "atin"}
    <3>1. pc'[u] = "check" /\ outs'[u] = outs[u]
      BY <1>3, <1>4, <2>1, <2>3 DEF After, ClosesRound
    <3> QED
      BY <2>3, <3>1 DEF WorkInv, ClosesRound
  <2>4. CASE u \in Members(b) /\ pc[u] \in {"syncout", "atout"}
    <3>1. pc'[u] = "loop" /\ outs'[u] = outs[u] + 1
      BY <1>3, <1>4, <2>1, <2>4 DEF After, ClosesRound
    <3>2. execute => work[u] = outs[u] + 1
      BY <2>4 DEF WorkInv, ClosesRound
    <3>3. ~execute => work[u] = runs
      BY DEF WorkInv
    <3>4. ASSUME ~execute, runs > 0 PROVE outs[u] = runs
      <4>1. InRound(u)
        BY <2>4 DEF InRound
      <4>2. InRound(Host)
        BY <4>1, AllAtRest
      <4>3. outs[Host] = runs
        <5>1. pc[Host] \in {"syncout", "atout"}
          BY <4>2 DEF InRound, TypeOK, HostPlaces
        <5>2. outs[Host] = runs
          BY <3>4, <5>1, <1>0 DEF HostInv, TypeOK
        <5> QED
          BY <5>2
      <4>4. Ins(u) = outs[u] + 1
        BY <4>1 DEF Ins
      <4> QED
        BY <4>3, <4>4, Sandwich
    <3> QED
      BY <3>1, <3>2, <3>3, <3>4, <2>1 DEF ClosesRound
  <2> QED
    BY <1>2, <2>2, <2>3, <2>4
<1> QED
  BY <1>5, <1>7, <1>8, <1>10, <1>11, <1>12

LEMMA RunStep ==
  ASSUME IInv, Run
  PROVE  IInv'
<1> USE DEF IInv, Run
<1>0. Host \in Threads /\ Workers \subseteq Threads /\ Host \notin Workers
  BY GraphAssumption DEF Threads
<1>1. \A t \in Workers : pc'[t] = pc[t]
  BY <1>0 DEF TypeOK
<1>2. /\ pc'[Host] = IF execute THEN "syncin" ELSE "starting"
      /\ execute'
      /\ runs \in Nat /\ outs[Host] = runs /\ (execute <=> runs > 0)
  BY <1>0 DEF TypeOK, HostInv
<1>3. TypeOK'
  <2>1. execute' \in BOOLEAN
    BY Zenon
  <2> QED
    BY <1>0, <2>1 DEF TypeOK, HostPlaces
<1>4. BarrierInv' /\ PhaseInv'
  BY <1>0, AwayFromBarriers DEF TypeOK, InRound
<1>5. GateInv'
  <2>1. Unstarted' <=> Unstarted
    BY <1>2 DEF Unstarted
  <2>2. {t \in Workers : pc[t] # "start"}' = {t \in Workers : pc[t] # "start"}
    BY <1>1
  <2> QED
    BY <1>1, <2>1, <2>2 DEF GateInv
<1>6. HostInv'
  <2>1. CASE execute
    BY <1>2, <2>1 DEF HostInv
  <2>2. CASE ~execute
    <3>1. runs = 0 /\ runs' = 1
      BY <1>2, <2>2
    <3> QED
      BY <1>2, <2>2, <3>1 DEF HostInv
  <2> QED
    BY <2>1, <2>2
<1>7. WorkInv'
  <2>1. CASE execute
    BY <1>1, <1>2, <2>1 DEF WorkInv, ClosesRound
  <2>2. CASE ~execute
    <3>1. \A t \in Workers : /\ pc[t] \in {"start", "parked"}
                             /\ outs[t] = 0 /\ work[t] = 0
      BY <1>0, <2>2 DEF GateInv, Unstarted
    <3> QED
      BY <1>1, <1>2, <3>1 DEF WorkInv, ClosesRound
  <2> QED
    BY <2>1, <2>2
<1> QED
  BY <1>3, <1>4, <1>5, <1>6, <1>7

LEMMA StartStep ==
  ASSUME IInv, Start
  PROVE  IInv'
<1> USE DEF IInv, Start
<1>0. Host \in Threads /\ Workers \subseteq Threads /\ Host \notin Workers
  BY GraphAssumption DEF Threads
<1>1. \A t \in Workers : pc[t] = "parked" /\ outs[t] = 0 /\ work[t] = 0
  <2> DEFINE Parked == {t \in Workers : pc[t] # "start"}
  <2>1. Parked \in SUBSET Workers /\ Cardinality(Parked) = Cardinality(Workers)
    BY DEF GateInv
  <2>2. Parked = Workers
    BY <2>1, FiniteGraph, FS_Subset
  <2>3. Unstarted
    BY DEF Unstarted
  <2> QED
    BY <1>0, <2>2, <2>3 DEF GateInv
<1>2. /\ \A t \in Workers : pc'[t] = "loop"
      /\ pc'[Host] = IF execute THEN "syncin" ELSE "joining"
  BY <1>0, <1>1 DEF TypeOK
<1>3. TypeOK'
  BY <1>0, <1>2 DEF TypeOK, WorkerPlaces, HostPlaces
<1>4. BarrierInv' /\ PhaseInv'
  BY <1>0, <1>1, <1>2, AwayFromBarriers DEF InRound, Threads
<1>5. GateInv'
  <2>1. ~Unstarted'
    BY <1>2 DEF Unstarted
  <2>2. {t \in Workers : pc[t] # "start"}' = Workers
    BY <1>2
  <2> QED
    BY <1>2, <2>1, <2>2 DEF GateInv
<1>6. outs[Host] = 0 /\ (execute => runs = 1) /\ (~execute => runs = 0)
  BY <1>0 DEF GateInv, Unstarted, HostInv
<1>7. HostInv'
  <2>1. CASE execute
    BY <1>2, <1>6, <2>1 DEF HostInv
  <2>2. CASE ~execute
    BY <1>2, <1>6, <2>2 DEF HostInv
  <2> QED
    BY <2>1, <2>2
<1>8. WorkInv'
  <2>1. CASE execute
    BY <1>1, <1>2, <2>1 DEF WorkInv, ClosesRound
  <2>2. CASE ~execute
    BY <1>1, <1>2, <1>6, <2>2 DEF WorkInv, ClosesRound
  <2> QED
    BY <2>1, <2>2
<1> QED
  BY <1>3, <1>4, <1>5, <1>7, <1>8

LEMMA ReturnStep ==
  ASSUME IInv, Return
  PROVE  IInv'
<1> USE DEF IInv, Return
<1>0. Host \in Threads /\ Workers \subseteq Threads /\ Host \notin Workers
  BY GraphAssumption DEF Threads
<1>1. /\ \A t \in Workers : pc'[t] = pc[t]
      /\ pc'[Host] = IF execute THEN "idle" ELSE "joining"
  BY <1>0 DEF TypeOK
<1>2. /\ execute => outs[Host] = runs
      /\ ~execute => outs[Host] = runs + 1
      /\ runs > 0 /\ runs \in Nat
  BY DEF HostInv, TypeOK
<1>3. TypeOK'
  BY <1>0 DEF TypeOK, HostPlaces
<1>4. BarrierInv' /\ PhaseInv'
  BY <1>0, AwayFromBarriers DEF TypeOK, InRound
<1>5. GateInv'
  <2>1. ~Unstarted /\ ~Unstarted'
    BY <1>1 DEF Unstarted
  <2> QED
    BY <1>1, <2>1, GateStaysOpen
<1>6. HostInv'
  <2>1. CASE execute
    BY <1>1, <1>2, <2>1 DEF HostInv
  <2>2. CASE ~execute
    BY <1>1, <1>2, <2>2 DEF HostInv
  <2> QED
    BY <2>1, <2>2
<1>7. WorkInv'
  BY <1>1 DEF WorkInv, ClosesRound
<1> QED
  BY <1>3, <1>4, <1>5, <1>6, <1>7

LEMMA DestroyStep ==
  ASSUME IInv, Destroy
  PROVE  IInv'
<1> USE DEF IInv, Destroy
<1>0. Host \in Threads /\ Workers \subseteq Threads /\ Host \notin Workers
  BY GraphAssumption DEF Threads
<1>1. /\ \A t \in Workers : pc'[t] = pc[t]
      /\ pc'[Host] = IF execute THEN "sleeping" ELSE "starting"
  BY <1>0 DEF TypeOK
<1>2. outs[Host] = runs /\ (execute <=> runs > 0) /\ runs \in Nat
  BY DEF HostInv, TypeOK
<1>3. TypeOK'
  BY <1>0 DEF TypeOK, HostPlaces
<1>4. BarrierInv' /\ PhaseInv'
  BY <1>0, AwayFromBarriers DEF TypeOK, InRound
<1>5. GateInv'
  <2>1. Unstarted' <=> Unstarted
    BY <1>1 DEF Unstarted
  <2>2. {t \in Workers : pc[t] # "start"}' = {t \in Workers : pc[t] # "start"}
    BY <1>1
  <2> QED
    BY <1>1, <2>1, <2>2 DEF GateInv
<1>6. HostInv'
  <2>1. CASE execute
    BY <1>1, <1>2, <2>1 DEF HostInv
  <2>2. CASE ~execute
    <3>1. runs = 0
      BY <1>2, <2>2
    <3> QED
      BY <1>1, <2>2, <3>1 DEF HostInv
  <2> QED
    BY <2>1, <2>2
<1>7. WorkInv'
  BY <1>1 DEF WorkInv, ClosesRound
<1> QED
  BY <1>3, <1>4, <1>5, <1>6, <1>7

LEMMA SignalExitStep ==
  ASSUME IInv, SignalExit
  PROVE  IInv'
<1> USE DEF IInv, SignalExit
<1>0. Host \in Threads /\ Workers \subseteq Threads /\ Host \notin Workers
  BY GraphAssumption DEF Threads
<1>1. /\ \A t \in Workers : pc'[t] = pc[t]
      /\ pc'[Host] = "syncin"
      /\ ~execute'
  BY <1>0 DEF TypeOK
<1>2. execute /\ outs[Host] = runs /\ runs > 0 /\ runs \in Nat
  BY DEF HostInv, TypeOK
<1>3. TypeOK'
  <2>1. execute' \in BOOLEAN
    BY Zenon
  <2> QED
    BY <1>0, <2>1 DEF TypeOK, HostPlaces
<1>4. BarrierInv' /\ PhaseInv'
  BY <1>0, AwayFromBarriers DEF TypeOK, InRound
<1>5. GateInv'
  <2>1. ~Unstarted /\ ~Unstarted'
    BY <1>1 DEF Unstarted
  <2> QED
    BY <1>1, <2>1, GateStaysOpen
<1>6. HostInv'
  BY <1>1, <1>2 DEF HostInv
<1>7. WorkInv'
  <2>1. ASSUME NEW t \in Workers
        PROVE  outs[t] = runs /\ ~InRound(t) /\ work[t] = runs /\ pc[t] # "exited"
    <3>1. outs[t] = runs /\ ~InRound(t)
      BY <1>2, AllAtRest DEF InRound
    <3>2. work[t] = outs[t] + 0 /\ pc[t] # "exited"
      BY <1>2, <3>1 DEF WorkInv, ClosesRound, InRound
    <3> QED
      BY <1>2, <3>1, <3>2
  <2>2. ASSUME NEW t \in Workers
        PROVE  /\ work'[t] = runs' /\ pc'[t] # "busy"
               /\ ~(SleepSettles /\ pc'[t] \in {"loop", "exited"})
    BY <1>1, <2>1 DEF InRound
  <2> QED
    BY <1>1, <2>2 DEF WorkInv
<1> QED
  BY <1>3, <1>4, <1>5, <1>6, <1>7

LEMMA JoinStep ==
  ASSUME IInv, Join
  PROVE  IInv'
<1> USE DEF IInv, Join
<1>0. Host \in Threads /\ Workers \subseteq Threads /\ Host \notin Workers
  BY GraphAssumption DEF Threads
<1>1. (\A t \in Workers : pc'[t] = pc[t]) /\ pc'[Host] = "closed"
  BY <1>0 DEF TypeOK
<1>2. TypeOK'
  BY <1>0 DEF TypeOK, HostPlaces
<1>3. BarrierInv' /\ PhaseInv'
  BY <1>0, AwayFromBarriers DEF TypeOK, InRound
<1>4. GateInv'
  <2>1. ~Unstarted /\ ~Unstarted'
    BY <1>1 DEF Unstarted
  <2> QED
    BY <1>1, <2>1, GateStaysOpen
<1>5. HostInv'
  BY <1>1 DEF HostInv
<1>6. WorkInv'
  BY <1>1 DEF WorkInv, ClosesRound
<1> QED
  BY <1>2, <1>3, <1>4, <1>5, <1>6

LEMMA StutterStep ==
  ASSUME IInv, UNCHANGED vars
  PROVE  IInv'
<1> USE DEF IInv, vars
<1>1. TypeOK' /\ BarrierInv'
  BY DEF TypeOK, BarrierInv, Waiting, BarrierOf
<1>2. PhaseInv'
  BY DEF PhaseInv, Passes, Ins, InRound
<1>3. GateInv'
  BY DEF GateInv, Unstarted
<1>4. HostInv' /\ WorkInv'
  BY DEF HostInv, WorkInv, ClosesRound
<1> QED
  BY <1>1, <1>2, <1>3, <1>4

------------------------------------------------------------------------------
(* The theorems. *)

LEMMA AnyStep ==
  ASSUME IInv, [Next]_vars
  PROVE  IInv'
<1>1. ASSUME NEW t \in Workers, WorkerStep(t) \/ Arrival(t)
      PROVE  IInv'
  BY <1>1, ParkStep, TestLoopStep, TestAgainStep, FinishWorkStep,
     EarlyArrivalStep, LastArrivalStep DEF WorkerStep, Arrival, Threads
<1>2. CASE HostStep
  BY <1>2, StartStep, ReturnStep, SignalExitStep, JoinStep,
     EarlyArrivalStep, LastArrivalStep DEF HostStep, Arrival, Threads
<1>3. CASE Run \/ Destroy
  BY <1>3, RunStep, DestroyStep
<1>4. CASE Closed \/ UNCHANGED vars
  BY <1>4, StutterStep DEF Closed
<1> QED
  BY <1>1, <1>2, <1>3, <1>4 DEF Next

\* The counters of the barriers, the phases of the threads and what the host
\* knows of them agree in every reachable state of Framework::Run and
\* ~Framework, whatever the graph.
THEOREM Invariance == Spec => []IInv
BY InitIInv, AnyStep, PTL DEF Spec

\* Every variable keeps its type.
THEOREM TypeCorrect == Spec => []TypeOK
<1>1. IInv => TypeOK
  BY DEF IInv
<1> QED
  BY Invariance, <1>1, PTL

LEMMA Complete == IInv => RunComplete
<1> SUFFICES ASSUME IInv, pc[Host] = "idle", NEW t \in Workers
             PROVE  work[t] = runs /\ ~InRound(t)
  BY DEF RunComplete
<1>1. outs[t] = outs[Host] /\ ~InRound(t)
  BY AllAtRest DEF IInv, InRound
<1>2. outs[Host] = runs
  BY DEF IInv, HostInv
<1>3. CASE execute
  <2>1. work[t] = outs[t] + 0 /\ outs[t] \in Nat
    BY <1>1, <1>3 DEF IInv, WorkInv, TypeOK, ClosesRound, InRound, Threads
  <2> QED
    BY <1>1, <1>2, <2>1
<1>4. CASE ~execute
  BY <1>1, <1>4 DEF IInv, WorkInv
<1> QED
  BY <1>3, <1>4

\* Run returns when all of its work is done, once (Framework.cpp:850-872).
THEOREM RunIsComplete == Spec => []RunComplete
BY Invariance, Complete, PTL

\* A worker inside its round finds the work of its feeders done.
LEMMA FeedersDone ==
  ASSUME IInv, execute, NEW t \in Workers, pc[t] \in {"check", "busy"},
         NEW u \in Feeders(t)
  PROVE  u \in Workers /\ work[u] = work[t] + 1 /\ pc[u] # "busy"
<1>1. u \in Workers /\ outs[u] = outs[t] + 1 /\ ~InRound(u)
  BY FeedersAtRest DEF IInv, InRound
<1>2. outs[t] \in Nat /\ outs[u] \in Nat
  BY <1>1 DEF IInv, TypeOK, Threads
<1>3. work[t] = outs[t] + 0
  BY DEF IInv, WorkInv, ClosesRound
<1>4. work[u] = outs[u] + 0 /\ pc[u] # "busy"
  BY <1>1 DEF IInv, WorkInv, ClosesRound, InRound
<1> QED
  BY <1>1, <1>2, <1>3, <1>4

\* The edges of the graph order the work of its threads, through barriers that
\* only neighbours share (Framework.cpp:538-647).
THEOREM DependenciesAreKept == Spec => []DependencyOrder
<1>1. IInv => DependencyOrder
  <2> SUFFICES ASSUME IInv, NEW t \in Workers, pc[t] = "busy", NEW u \in Feeders(t)
               PROVE  work[u] = work[t] + 1 /\ pc[u] # "busy"
    BY DEF DependencyOrder
  <2>1. execute
    BY DEF IInv, WorkInv
  <2> QED
    BY <2>1, FeedersDone
<1> QED
  BY Invariance, <1>1, PTL

\* If the destructor's sleep is long enough no worker is missing in its round.
THEOREM NobodyExitsEarly == Spec => []ExitsInStep
<1>1. IInv => ExitsInStep
  BY DEF IInv, ExitsInStep, WorkInv
<1> QED
  BY Invariance, <1>1, PTL

\* The destructor's round executes nothing, however short the sleep was.
THEOREM TerminationIsIdle == Spec => TerminationRunsNothing
<1>1. ASSUME IInv, [Next]_vars
      PROVE  [~execute => UNCHANGED work]_vars
  <2>1. ASSUME NEW t \in Workers, FinishWork(t), ~execute PROVE FALSE
    BY <1>1, <2>1 DEF IInv, WorkInv, FinishWork
  <2> QED
    BY <1>1, <2>1 DEF Next, WorkerStep, Arrival, HostStep, Park, TestLoop, TestAgain,
       EarlyArrival, LastArrival, Start, Return, SignalExit, Join, Run, Destroy,
       Closed, vars
<1> QED
  BY Invariance, <1>1, PTL DEF Spec, TerminationRunsNothing

------------------------------------------------------------------------------
(* FlowRun implements DataflowContract: the safety half. *)

Began == [t \in Workers |-> work[t] + (IF pc[t] = "busy" THEN 1 ELSE 0)]
Returned == IF InRun THEN runs - 1 ELSE runs

LEMMA ContractInit == Init => Contract!Init
<1> SUFFICES ASSUME Init PROVE Contract!Init
  OBVIOUS
<1>1. Host \in Threads /\ Host \notin Workers /\ Workers \subseteq Threads
  BY GraphAssumption DEF Threads
<1>2. pc[Host] = "idle" /\ \A t \in Workers : pc[t] = "start"
  BY <1>1 DEF Init
<1>3. ~InRun /\ ~InDestructor
  BY <1>2 DEF InRun, InDestructor, Init
<1>4. Began = [t \in Workers |-> 0]
  BY <1>2 DEF Began, Init
<1> QED
  BY <1>3, <1>4 DEF Contract!Init, Init, Began

\* Steps that move neither the host in or out of a call nor a worker in or out of
\* its work are invisible.
LEMMA ContractStutter ==
  ASSUME UNCHANGED <<runs, work>>,
         InRun' <=> InRun, InDestructor' <=> InDestructor,
         \A t \in Workers : pc'[t] = "busy" <=> pc[t] = "busy"
  PROVE  UNCHANGED Contract!contractVars
<1>1. Returned' = Returned
  BY DEF Returned
<1>2. Began' = Began
  BY DEF Began
<1>3. InDestructor' = InDestructor
  BY Zenon DEF InDestructor
<1> QED
  BY <1>1, <1>2, <1>3 DEF Contract!contractVars, Began, Returned

\* A worker's step is invisible to the host's side of the contract.
LEMMA HostStandsStill ==
  ASSUME UNCHANGED <<runs, execute>>, pc'[Host] = pc[Host]
  PROVE  /\ InRun' <=> InRun
         /\ InDestructor' <=> InDestructor
         /\ Returned' = Returned
BY DEF InRun, InDestructor, Returned

LEMMA ContractTestAgain ==
  ASSUME IInv, NEW t \in Workers, TestAgain(t)
  PROVE  Contract!BeginTask(t) \/ UNCHANGED Contract!contractVars
<1>0. /\ t \in Threads /\ t # Host /\ Host \in Threads /\ Workers \subseteq Threads
      /\ pc \in [Threads -> WorkerPlaces \cup HostPlaces]
      /\ work \in [Workers -> Nat] /\ runs \in Nat
  BY GraphAssumption DEF Threads, IInv, TypeOK
<1>1. UNCHANGED <<runs, execute, work>> /\ pc'[Host] = pc[Host]
  BY <1>0 DEF TestAgain
<1>2. CASE ~execute
  <2>1. \A u \in Workers : pc'[u] = "busy" <=> pc[u] = "busy"
    BY <1>0, <1>2 DEF TestAgain
  <2> QED
    BY <1>1, <2>1, HostStandsStill, ContractStutter
<1>3. CASE execute
  <2>1. pc[t] = "check" /\ pc'[t] = "busy" /\ \A u \in Workers \ {t} : pc'[u] = pc[u]
    BY <1>0, <1>3 DEF TestAgain
  <2>2. Began[t] = work[t] /\ Began'[t] = work[t] + 1
    BY <1>0, <1>1, <2>1 DEF Began
  <2>3. Began' = [Began EXCEPT ![t] = @ + 1]
    BY <1>1, <2>1, <2>2 DEF Began
  <2>4. work[t] < runs
    <3>1. InRound(t) /\ Ins(t) = outs[t] + 1 /\ outs[t] \in Nat
      BY <1>0, <2>1 DEF InRound, Ins, IInv, TypeOK
    <3>2. InRound(Host) /\ outs[Host] <= outs[t] /\ outs[t] <= outs[Host]
      BY <3>1, AllAtRest, Sandwich DEF IInv
    <3>3. pc[Host] \in {"syncout", "atout"}
      BY <3>2 DEF InRound, IInv, TypeOK, HostPlaces
    <3>4. outs[Host] + 1 = runs /\ outs[Host] \in Nat
      BY <1>0, <1>3, <3>3 DEF IInv, HostInv, TypeOK
    <3>5. work[t] = outs[t] + 0
      BY <1>3, <2>1 DEF IInv, WorkInv, ClosesRound
    <3> QED
      BY <3>1, <3>2, <3>4, <3>5
  <2>5. \A u \in Feeders(t) : work[t] < work[u]
    BY <1>0, <1>3, <2>1, FeedersDone
  <2>6. InDestructor' = InDestructor
    BY <1>1, Zenon DEF InDestructor
  <2>7. Returned' = Returned
    BY <1>1, HostStandsStill
  <2> QED
    BY <1>1, <2>2, <2>3, <2>4, <2>5, <2>6, <2>7
       DEF Contract!BeginTask, Began, Returned
<1> QED
  BY <1>2, <1>3

LEMMA ContractFinishWork ==
  ASSUME IInv, NEW t \in Workers, FinishWork(t)
  PROVE  Contract!EndTask(t)
<1>0. /\ t \in Threads /\ t # Host /\ Host \in Threads /\ Workers \subseteq Threads
      /\ pc \in [Threads -> WorkerPlaces \cup HostPlaces]
      /\ work \in [Workers -> Nat]
  BY GraphAssumption DEF Threads, IInv, TypeOK
<1>1. UNCHANGED <<runs, execute>> /\ pc'[Host] = pc[Host]
  BY <1>0 DEF FinishWork
<1>2. /\ pc[t] = "busy" /\ pc'[t] = "syncout" /\ work'[t] = work[t] + 1
      /\ \A u \in Workers \ {t} : pc'[u] = pc[u] /\ work'[u] = work[u]
  BY <1>0 DEF FinishWork
<1>3. \A u \in Workers : work'[u] + (IF pc'[u] = "busy" THEN 1 ELSE 0)
                         = work[u] + (IF pc[u] = "busy" THEN 1 ELSE 0)
  BY <1>0, <1>2
<1>4. Began' = Began
  BY <1>3 DEF Began
<1>5. work[t] < Began[t] /\ work' = [work EXCEPT ![t] = @ + 1]
  BY <1>0, <1>2 DEF Began, FinishWork
<1>6. InDestructor' = InDestructor
  BY <1>1, Zenon DEF InDestructor
<1>7. Returned' = Returned
  BY <1>1, HostStandsStill
<1> QED
  BY <1>1, <1>4, <1>5, <1>6, <1>7 DEF Contract!EndTask, Began, Returned

LEMMA ContractArrival ==
  ASSUME IInv, NEW t \in Threads, Arrival(t)
  PROVE  UNCHANGED Contract!contractVars
<1>0. /\ Host \in Threads /\ Workers \subseteq Threads /\ Host \notin Workers
      /\ pc \in [Threads -> WorkerPlaces \cup HostPlaces]
  BY GraphAssumption DEF Threads, IInv, TypeOK
<1>1. UNCHANGED <<runs, execute, work>>
  BY DEF Arrival, EarlyArrival, LastArrival
<1>2. \A u \in Threads : pc'[u] = pc[u]
        \/ (/\ pc[u] \in {"syncin", "atin", "syncout", "atout"}
            /\ pc'[u] \in {"atin", "atout", "check", "syncout", "loop", "returning"})
  <2>1. CASE EarlyArrival(t)
    BY <1>0, <2>1 DEF EarlyArrival
  <2>2. CASE LastArrival(t)
    BY <1>0, <2>2 DEF LastArrival, Waiting, After
  <2> QED
    BY <2>1, <2>2 DEF Arrival
<1>3. \A u \in Workers : pc'[u] = "busy" <=> pc[u] = "busy"
  BY <1>0, <1>2
<1>4. /\ pc'[Host] \in {"idle", "sleeping"} <=> pc[Host] \in {"idle", "sleeping"}
      /\ pc'[Host] \in {"sleeping", "joining", "closed"}
           <=> pc[Host] \in {"sleeping", "joining", "closed"}
      /\ pc'[Host] = "idle" <=> pc[Host] = "idle"
  BY <1>0, <1>2
<1>5. (InRun' <=> InRun) /\ (InDestructor' <=> InDestructor)
  BY <1>1, <1>4 DEF InRun, InDestructor
<1> QED
  BY <1>1, <1>3, <1>5, ContractStutter

LEMMA ContractRun ==
  ASSUME IInv, Run
  PROVE  Contract!BeginRun
<1>0. /\ Host \in Threads /\ Workers \subseteq Threads /\ Host \notin Workers
      /\ pc \in [Threads -> WorkerPlaces \cup HostPlaces] /\ runs \in Nat
  BY GraphAssumption DEF Threads, IInv, TypeOK
<1>1. /\ pc[Host] = "idle" /\ pc'[Host] \in {"syncin", "starting"} /\ execute'
      /\ \A u \in Workers : pc'[u] = pc[u]
      /\ runs' = runs + 1 /\ work' = work
  BY <1>0 DEF Run
<1>2. ~InRun /\ InRun' /\ ~InDestructor /\ ~InDestructor'
  BY <1>1 DEF InRun, InDestructor
<1>3. Began' = Began
  BY <1>1 DEF Began
<1>4. Returned = runs /\ Returned' = runs
  BY <1>0, <1>1, <1>2 DEF Returned
<1>5. InDestructor' = InDestructor
  BY <1>2, Zenon DEF InDestructor
<1> QED
  BY <1>1, <1>2, <1>3, <1>4, <1>5 DEF Contract!BeginRun, Began, Returned

LEMMA ContractReturn ==
  ASSUME IInv, Return
  PROVE  Contract!EndRun \/ UNCHANGED Contract!contractVars
<1>0. /\ Host \in Threads /\ Workers \subseteq Threads /\ Host \notin Workers
      /\ pc \in [Threads -> WorkerPlaces \cup HostPlaces] /\ runs \in Nat
  BY GraphAssumption DEF Threads, IInv, TypeOK
<1>1. /\ pc[Host] = "returning" /\ UNCHANGED <<runs, execute, work>>
      /\ pc'[Host] = IF execute THEN "idle" ELSE "joining"
      /\ \A u \in Workers : pc'[u] = pc[u]
  BY <1>0 DEF Return
<1>2. CASE ~execute
  <2>1. (InRun' <=> InRun) /\ (InDestructor' <=> InDestructor)
    BY <1>1, <1>2 DEF InRun, InDestructor
  <2> QED
    BY <1>1, <2>1, ContractStutter
<1>3. CASE execute
  <2>1. InRun /\ ~InRun' /\ ~InDestructor /\ ~InDestructor'
    BY <1>1, <1>3 DEF InRun, InDestructor
  <2>2. Returned = runs - 1 /\ Returned' = runs
    BY <1>1, <2>1 DEF Returned
  <2>3. Began' = Began
    BY <1>1 DEF Began
  <2>4. \A t \in Workers : work[t] = runs
    <3> SUFFICES ASSUME NEW t \in Workers PROVE work[t] = runs
      OBVIOUS
    <3>1. outs[t] = outs[Host] /\ ~InRound(t)
      BY <1>1, AllAtRest DEF IInv, InRound
    <3>2. outs[Host] = runs
      BY <1>1, <1>3 DEF IInv, HostInv
    <3>3. work[t] = outs[t] + 0
      BY <1>3, <3>1 DEF IInv, WorkInv, ClosesRound, InRound
    <3> QED
      BY <1>0, <3>1, <3>2, <3>3
  <2>5. InDestructor' = InDestructor
    BY <2>1, Zenon DEF InDestructor
  <2>6. Returned < runs
    BY <1>0, <2>2
  <2> QED
    BY <1>1, <2>2, <2>3, <2>4, <2>5, <2>6 DEF Contract!EndRun, Began, Returned
<1> QED
  BY <1>2, <1>3

LEMMA ContractDestroy ==
  ASSUME IInv, Destroy
  PROVE  Contract!Close
<1>0. /\ Host \in Threads /\ Workers \subseteq Threads /\ Host \notin Workers
      /\ pc \in [Threads -> WorkerPlaces \cup HostPlaces]
  BY GraphAssumption DEF Threads, IInv, TypeOK
<1>1. /\ pc[Host] = "idle" /\ UNCHANGED <<runs, execute, work>>
      /\ pc'[Host] = IF execute THEN "sleeping" ELSE "starting"
      /\ \A u \in Workers : pc'[u] = pc[u]
  BY <1>0 DEF Destroy
<1>2. ~InRun /\ ~InRun' /\ ~InDestructor /\ InDestructor'
  BY <1>1 DEF InRun, InDestructor
<1>3. Began' = Began /\ Returned = runs /\ Returned' = runs
  BY <1>1, <1>2 DEF Began, Returned
<1>4. InDestructor' = TRUE
  BY <1>2, Zenon DEF InDestructor
<1> QED
  BY <1>1, <1>2, <1>3, <1>4 DEF Contract!Close, Began, Returned

\* The other steps of the host.
LEMMA ContractHost ==
  ASSUME IInv, Start \/ SignalExit \/ Join
  PROVE  UNCHANGED Contract!contractVars
<1>0. /\ Host \in Threads /\ Workers \subseteq Threads /\ Host \notin Workers
      /\ pc \in [Threads -> WorkerPlaces \cup HostPlaces]
  BY GraphAssumption DEF Threads, IInv, TypeOK
<1>1. UNCHANGED <<runs, work>>
  BY DEF Start, SignalExit, Join
<1>2. \A u \in Workers : pc'[u] = "busy" <=> pc[u] = "busy"
  BY <1>0 DEF Start, SignalExit, Join
<1>3. (InRun' <=> InRun) /\ (InDestructor' <=> InDestructor)
  <2>1. CASE Start
    <3>1. pc'[Host] = IF execute THEN "syncin" ELSE "joining"
      BY <1>0, <2>1 DEF Start
    <3> QED
      BY <2>1, <3>1 DEF InRun, InDestructor, Start
  <2>2. CASE SignalExit
    <3>1. pc'[Host] = "syncin" /\ ~execute'
      BY <1>0, <2>2 DEF SignalExit
    <3> QED
      BY <2>2, <3>1 DEF InRun, InDestructor, SignalExit
  <2>3. CASE Join
    <3>1. pc'[Host] = "closed" /\ ~execute
      BY <1>0, <2>3 DEF Join, IInv, HostInv
    <3> QED
      BY <2>3, <3>1 DEF InRun, InDestructor, Join
  <2> QED
    BY <2>1, <2>2, <2>3
<1> QED
  BY <1>1, <1>2, <1>3, ContractStutter

LEMMA ContractQuiet ==
  ASSUME IInv, NEW t \in Workers, Park(t) \/ TestLoop(t)
  PROVE  UNCHANGED Contract!contractVars
<1>0. /\ t \in Threads /\ t # Host /\ Host \in Threads /\ Workers \subseteq Threads
      /\ pc \in [Threads -> WorkerPlaces \cup HostPlaces]
  BY GraphAssumption DEF Threads, IInv, TypeOK
<1>1. UNCHANGED <<runs, execute, work>> /\ pc'[Host] = pc[Host]
  BY <1>0 DEF Park, TestLoop
<1>2. \A u \in Workers : pc'[u] = "busy" <=> pc[u] = "busy"
  BY <1>0 DEF Park, TestLoop
<1> QED
  BY <1>1, <1>2, HostStandsStill, ContractStutter

LEMMA ContractNext ==
  ASSUME IInv, [Next]_vars
  PROVE  [Contract!Next]_(Contract!contractVars)
<1>1. ASSUME NEW t \in Workers, WorkerStep(t)
      PROVE  [Contract!Next]_(Contract!contractVars)
  <2>1. CASE Park(t) \/ TestLoop(t)
    BY <2>1, ContractQuiet
  <2>2. CASE TestAgain(t)
    BY <2>2, ContractTestAgain DEF Contract!Next
  <2>3. CASE FinishWork(t)
    BY <2>3, ContractFinishWork DEF Contract!Next
  <2> QED
    BY <1>1, <2>1, <2>2, <2>3 DEF WorkerStep
<1>2. ASSUME NEW t \in Threads, Arrival(t)
      PROVE  UNCHANGED Contract!contractVars
  BY <1>2, ContractArrival
<1>3. CASE HostStep
  <2>1. CASE Return
    BY <2>1, ContractReturn DEF Contract!Next
  <2>2. CASE Start \/ SignalExit \/ Join
    BY <2>2, ContractHost
  <2> QED
    BY <1>2, <1>3, <2>1, <2>2 DEF HostStep, Threads
<1>4. CASE Run \/ Destroy
  BY <1>4, ContractRun, ContractDestroy DEF Contract!Next
<1>5. CASE Closed \/ UNCHANGED vars
  <2>1. UNCHANGED <<runs, execute, work, pc>>
    BY <1>5 DEF Closed, vars
  <2> QED
    BY <2>1, HostStandsStill, ContractStutter
<1> QED
  BY <1>1, <1>2, <1>3, <1>4, <1>5 DEF Next, Threads

\* Every run of the framework's threads is a run the contract allows.
THEOREM ImplementsContract == Spec => Contract!SafetySpec
BY ContractInit, ContractNext, Invariance, PTL DEF Spec, Contract!SafetySpec

------------------------------------------------------------------------------
(* Each barrier of FlowRun is one that BarrierContract describes. *)

LEMMA HostApart ==
  /\ Host \notin Workers /\ Host \in Threads /\ Workers \subseteq Threads
  /\ Threads = Workers \cup {Host}
BY GraphAssumption DEF Threads

\* Nobody comes to a barrier or through it.
LEMMA BarriersUnmoved ==
  ASSUME UNCHANGED outs, NEW t \in Threads, NEW b \in Barriers,
         \/ pc'[t] = pc[t]
         \/ {pc[t], pc'[t]} \cap {"atin", "atout"} = {} /\ (InRound(t)' <=> InRound(t))
  PROVE  Passes(t, b)' = Passes(t, b) /\ CallsAt(t, b)' = CallsAt(t, b)
<1>1. (InRound(t)' <=> InRound(t)) /\ (t \in Waiting(b)' <=> t \in Waiting(b))
  BY DEF InRound, Waiting, BarrierOf
<1>2. Passes(t, b)' = Passes(t, b)
  BY <1>1 DEF Passes, Ins
<1> QED
  BY <1>1, <1>2 DEF CallsAt

LEMMA PassesType ==
  ASSUME TypeOK, NEW t \in Threads, NEW b
  PROVE  Passes(t, b) \in Nat
BY InsType DEF Passes, TypeOK

LEMMA QuietAtBarriers ==
  ASSUME IInv, NEW b \in Barriers, NEW t \in Members(b),
         \/ \E u \in Workers : WorkerStep(u)
         \/ Start \/ Return \/ SignalExit \/ Join \/ Run \/ Destroy \/ UNCHANGED vars
  PROVE  Passes(t, b)' = Passes(t, b) /\ CallsAt(t, b)' = CallsAt(t, b)
<1>1. t \in Threads /\ DOMAIN pc = Threads
  BY DEF Members, IInv, TypeOK
<1>2. UNCHANGED outs
  BY DEF WorkerStep, Park, TestLoop, TestAgain, FinishWork, Start, Return, SignalExit, Join, Run,
     Destroy, vars
<1>3. \/ pc'[t] = pc[t]
      \/ {pc[t], pc'[t]} \cap {"atin", "atout"} = {} /\ (InRound(t)' <=> InRound(t))
  <2>1. CASE \E u \in Workers : WorkerStep(u)
    BY <1>1, <2>1, HostApart DEF WorkerStep, Park, TestLoop, TestAgain, FinishWork, InRound
  <2>2. CASE Start
    BY <1>1, <2>2 DEF Start, InRound
  <2>3. CASE Return \/ SignalExit \/ Join \/ Run \/ Destroy \/ UNCHANGED vars
    BY <1>1, <2>3, HostApart DEF Return, SignalExit, Join, Run, Destroy, vars, InRound
  <2> QED
    BY <2>1, <2>2, <2>3
<1> QED
  BY <1>1, <1>2, <1>3, BarriersUnmoved

\* The call of one that is not the last.
LEMMA EarlyAtBarriers ==
  ASSUME IInv, NEW s \in Threads, EarlyArrival(s), NEW b \in Barriers, NEW t \in Members(b)
  PROVE  /\ Passes(t, b)' = Passes(t, b)
         /\ \/ CallsAt(t, b)' = CallsAt(t, b)
            \/ CallsAt(t, b)' = CallsAt(t, b) + 1 /\ CallsAt(t, b) = Passes(t, b)
<1>1. /\ t \in Threads /\ DOMAIN pc = Threads /\ UNCHANGED outs
      /\ pc[s] \in {"syncin", "syncout"} /\ pc' = [pc EXCEPT ![s] = IF pc[s] = "syncin" THEN "atin" ELSE "atout"]
  BY DEF Members, IInv, TypeOK, EarlyArrival
<1>2. CASE t # s
  BY <1>1, <1>2, BarriersUnmoved
<1>3. CASE t = s
  <2>1. InRound(t)' <=> InRound(t)
    BY <1>1, <1>3 DEF InRound
  <2>2. Passes(t, b)' = Passes(t, b) /\ Passes(t, b) \in Nat
    BY <1>1, <2>1, PassesType DEF Passes, Ins, IInv
  <2>3. t \notin Waiting(b)
    BY <1>1, <1>3 DEF Waiting
  <2> QED
    BY <2>2, <2>3 DEF CallsAt
<1> QED
  BY <1>2, <1>3

\* The opening.
LEMMA OpeningAtBarrier ==
  ASSUME IInv, NEW s \in Threads, LastArrival(s), NEW b, b = BarrierOf(s), NEW t \in Members(b)
  PROVE  /\ Passes(t, b)' = Passes(t, b) + 1 /\ CallsAt(t, b)' = Passes(t, b) + 1
         /\ CallsAt(t, b) = IF t = s THEN Passes(t, b) ELSE Passes(t, b) + 1
<1>1. /\ t \in Threads /\ outs[t] \in Nat /\ Waiting(b) \cup {s} = Members(b)
      /\ pc[t] \in {"syncin", "atin", "syncout", "atout"}
      /\ InputSync[t] = b <=> pc[t] \in {"syncin", "atin"}
      /\ pc[s] \in {"syncin", "syncout"}
  BY Completes DEF Members, IInv, TypeOK, LastArrival
<1>2. /\ pc'[t] = After(t)
      /\ outs'[t] = IF ClosesRound(t) THEN outs[t] + 1 ELSE outs[t]
  BY <1>1 DEF LastArrival
<1>3. Passes(t, b)' = Passes(t, b) + 1
  <2>1. CASE pc[t] \in {"syncin", "atin"}
    BY <1>1, <1>2, <2>1 DEF Passes, Ins, InRound, After, ClosesRound
  <2>2. CASE pc[t] \in {"syncout", "atout"}
    BY <1>1, <1>2, <2>2 DEF Passes, Ins, InRound, After, ClosesRound
  <2> QED
    BY <1>1, <2>1, <2>2
<1>4. t \notin Waiting(b)'
  BY <1>1, <1>2 DEF Waiting, After
<1>5. (t \in Waiting(b) <=> t # s) /\ Passes(t, b) \in Nat
  BY <1>1, PassesType DEF Waiting, IInv
<1> QED
  BY <1>3, <1>4, <1>5 DEF CallsAt

\* And at the other barrier of those that come through it.
LEMMA OpeningElsewhere ==
  ASSUME IInv, NEW s \in Threads, LastArrival(s),
         NEW c \in Barriers \ {BarrierOf(s)}, NEW t \in Members(c)
  PROVE  Passes(t, c)' = Passes(t, c) /\ CallsAt(t, c)' = CallsAt(t, c)
<1> DEFINE b == BarrierOf(s)
<1>1. t \in Threads /\ outs[t] \in Nat /\ (InputSync[t] = c \/ OutputSync[t] = c)
  BY DEF Members, IInv, TypeOK
<1>2. CASE t \notin Members(b)
  <2>1. t \notin Waiting(b) \cup {s}
    BY <1>2, Completes
  <2>2. pc'[t] = pc[t] /\ outs'[t] = outs[t]
    BY <1>1, <2>1 DEF LastArrival
  <2>3. (InRound(t)' <=> InRound(t)) /\ (t \in Waiting(c)' <=> t \in Waiting(c))
    BY <2>2 DEF InRound, Waiting, BarrierOf
  <2> QED
    BY <2>2, <2>3 DEF Passes, Ins, CallsAt
<1>3. CASE t \in Members(b)
  <2>1. /\ BarrierOf(t) = b /\ pc[t] \in {"syncin", "atin", "syncout", "atout"}
        /\ InputSync[t] = b <=> pc[t] \in {"syncin", "atin"}
        /\ pc'[t] = After(t)
        /\ outs'[t] = IF ClosesRound(t) THEN outs[t] + 1 ELSE outs[t]
    <3>1. t \in Waiting(b) \cup {s}
      BY <1>3, Completes
    <3> QED
      BY <1>1, <1>3, <3>1, Completes DEF LastArrival
  <2>2. t \notin Waiting(c) /\ t \notin Waiting(c)'
    BY <2>1 DEF Waiting, After
  <2>3. Passes(t, c)' = Passes(t, c)
    <3>1. CASE pc[t] \in {"syncin", "atin"}
      BY <1>1, <2>1, <3>1 DEF Passes, ClosesRound
    <3>2. CASE pc[t] \in {"syncout", "atout"}
      <4>1. OutputSync[t] = b /\ InputSync[t] = c
        BY <1>1, <2>1, <3>2 DEF BarrierOf
      <4> QED
        BY <1>1, <2>1, <3>2, <4>1 DEF Passes, Ins, InRound, After, ClosesRound
    <3> QED
      BY <2>1, <3>1, <3>2
  <2> QED
    BY <2>2, <2>3 DEF CallsAt
<1> QED
  BY <1>2, <1>3

\* Whoever sleeps in SyncBarrier::Wait sleeps because some member of the barrier has yet
\* to make the same call, in every reachable state of every graph.
THEOREM NobodyIsKeptThere == Spec => []NobodyIsKept
<1>1. ASSUME IInv, NEW b \in Barriers, NEW t \in Waiting(b)
      PROVE  \E u \in Members(b) : CallsAt(u, b) <= Passes(t, b)
  <2>1. Waiting(b) \subseteq Members(b) /\ t \in Members(b) /\ t \in Threads
    BY DEF Waiting, BarrierOf, Members
  <2>2. PICK u \in Members(b) : u \notin Waiting(b)
    BY <1>1, <2>1 DEF IInv, BarrierInv
  <2>3. Passes(u, b) = Passes(t, b) /\ Passes(t, b) \in Nat
    BY <1>1, <2>1, PassesType DEF IInv, PhaseInv
  <2>4. CallsAt(u, b) <= Passes(t, b)
    BY <2>2, <2>3 DEF CallsAt
  <2> QED
    BY <2>4
<1>2. IInv => NobodyIsKept
  BY <1>1 DEF NobodyIsKept
<1> QED
  BY <1>2, Invariance, PTL

\* What FlowRun does at any one barrier is what BarrierContract allows there: calls by
\* those who are back, and returns once all have called. So the barriers that SyncBarrier
\* implements (SyncBarrierProofs) are the barriers FlowRun takes them for.
THEOREM BarriersAreContracts == Spec => BarriersKeepContract
<1> DEFINE Kept(b, t) ==
      /\ CallsAt(t, b)' \in {CallsAt(t, b), CallsAt(t, b) + 1}
      /\ CallsAt(t, b)' > CallsAt(t, b) => CallsAt(t, b) = Passes(t, b)
      /\ Passes(t, b)' \in {Passes(t, b), Passes(t, b) + 1}
      /\ Passes(t, b)' > Passes(t, b) => \A u \in Members(b) : Passes(t, b) < CallsAt(u, b)'
<1>1. ASSUME IInv, [Next]_vars, NEW b \in Barriers, NEW t \in Members(b)
      PROVE  Kept(b, t)
  <2>0. /\ Threads = Workers \cup {Host} /\ Passes(t, b) \in Nat
        /\ CallsAt(t, b) \in {Passes(t, b), Passes(t, b) + 1}
    BY <1>1, HostApart, PassesType DEF IInv, Members, CallsAt
  <2>1. CASE Passes(t, b)' = Passes(t, b) /\ CallsAt(t, b)' = CallsAt(t, b)
    BY <2>0, <2>1
  <2>2. ASSUME NEW s \in Threads, EarlyArrival(s) PROVE Kept(b, t)
    BY <1>1, <2>0, <2>2, EarlyAtBarriers
  <2>3. ASSUME NEW s \in Threads, LastArrival(s) PROVE Kept(b, t)
    <3>1. CASE b # BarrierOf(s)
      BY <1>1, <2>1, <2>3, <3>1, OpeningElsewhere
    <3>2. CASE b = BarrierOf(s)
      <4>1. /\ Passes(t, b)' = Passes(t, b) + 1 /\ CallsAt(t, b)' = Passes(t, b) + 1
            /\ CallsAt(t, b) = IF t = s THEN Passes(t, b) ELSE Passes(t, b) + 1
        BY <1>1, <2>3, <3>2, OpeningAtBarrier
      <4>2. ASSUME NEW u \in Members(b) PROVE Passes(t, b) < CallsAt(u, b)'
        <5>1. CallsAt(u, b)' = Passes(u, b) + 1
          BY <1>1, <2>3, <3>2, OpeningAtBarrier
        <5>2. Passes(u, b) = Passes(t, b)
          BY <1>1 DEF IInv, PhaseInv
        <5> QED
          BY <2>0, <5>1, <5>2
      <4> QED
        BY <2>0, <4>1, <4>2
    <3> QED
      BY <3>1, <3>2
  <2> HIDE DEF Kept
  <2>4. CASE \/ \E u \in Workers : WorkerStep(u)
             \/ Start \/ Return \/ SignalExit \/ Join \/ Run \/ Destroy \/ UNCHANGED vars
    BY <1>1, <2>1, <2>4, QuietAtBarriers
  <2> QED
    BY <1>1, <2>0, <2>2, <2>3, <2>4 DEF Next, HostStep, Arrival, Closed
<1>2. IInv /\ [Next]_vars => CallsAndReturns
  BY <1>1 DEF CallsAndReturns
<1>3. IInv /\ [Next]_vars => [CallsAndReturns]_vars
  BY <1>2
<1> QED
  BY <1>3, Invariance, PTL DEF Spec, BarriersKeepContract

------------------------------------------------------------------------------
(* FlowRun is a FlowSystem: what the proofs about that module show of a graph *)
(* that is built holds on this finer grain too.                               *)

LEMMA BarriersCounted ==
  /\ IsFiniteSet(Barriers) /\ FrameworkInput \in Barriers /\ FrameworkOutput \in Barriers
  /\ FrameworkInput # FrameworkOutput
<1> DEFINE In == {InputSync[t] : t \in Threads}
           Out == {OutputSync[t] : t \in Threads}
<1>1. InputSync \in Surjection(Threads, In) /\ OutputSync \in Surjection(Threads, Out)
  BY DEF Surjection, InputSync, OutputSync
<1>2. IsFiniteSet(In) /\ IsFiniteSet(Out)
  BY <1>1, FiniteGraph, FS_Surjection
<1>3. IsFiniteSet(In \cup Out)
  BY <1>2, FS_Union
<1>4. InputSync[Host] = FrameworkInput /\ OutputSync[Host] = FrameworkOutput
  BY GraphAssumption DEF InputSync, OutputSync, Threads, Workers
<1> QED
  BY <1>3, <1>4, HostApart DEF Barriers, FrameworkInput, FrameworkOutput

\* There is a numbering that begins with the Framework's two barriers.
LEMMA NumberingExists ==
  /\ Amount \in Nat /\ Amount >= 2
  /\ \E f \in [1 .. Amount -> Barriers] : Numbering(f)
<1> DEFINE Rest == (Barriers \ {FrameworkInput}) \ {FrameworkOutput}
           n == Cardinality(Rest)
<1>1. /\ IsFiniteSet(Rest) /\ n \in Nat /\ ExistsBijection(1 .. n, Rest)
      /\ Amount = n + 2
  <2>1. /\ IsFiniteSet(Barriers \ {FrameworkInput})
        /\ Cardinality(Barriers \ {FrameworkInput}) = Amount - 1
    BY BarriersCounted, FS_RemoveElement DEF Amount
  <2>2. /\ IsFiniteSet(Rest)
        /\ n = Cardinality(Barriers \ {FrameworkInput}) - 1
    BY <2>1, BarriersCounted, FS_RemoveElement
  <2>3. Amount \in Nat
    BY BarriersCounted, FS_CardinalityType DEF Amount
  <2> HIDE DEF Rest
  <2>4. n \in Nat /\ ExistsBijection(1 .. n, Rest)
    BY <2>2, FS_CardinalityType
  <2> QED
    BY <2>1, <2>2, <2>3, <2>4
<1>2. PICK g \in [1 .. n -> Rest] :
        /\ \A b \in Rest : \E i \in 1 .. n : g[i] = b
        /\ \A i, j \in 1 .. n : g[i] = g[j] => i = j
  <2> HIDE DEF Rest
  <2> QED
    BY <1>1 DEF ExistsBijection, Bijection, Injection, Surjection, IsInjective
<1> DEFINE f == [i \in 1 .. Amount |-> IF i = 1 THEN FrameworkInput
                                      ELSE IF i = 2 THEN FrameworkOutput ELSE g[i - 2]]
<1>3. \A i \in 1 .. Amount : i # 1 /\ i # 2 => i - 2 \in 1 .. n
  BY <1>1
<1>4. f \in [1 .. Amount -> Barriers]
  <2>1. \A i \in 1 .. Amount : i # 1 /\ i # 2 => g[i - 2] \in Barriers
    BY <1>2, <1>3
  <2>2. \A i \in 1 .. Amount : f[i] \in Barriers
    BY <2>1, BarriersCounted
  <2>3. f = [i \in 1 .. Amount |-> f[i]]
    OBVIOUS
  <2> HIDE DEF f
  <2> QED
    BY <2>2, <2>3
<1>5. /\ \A i \in 1 .. Amount : f[i] = FrameworkInput => i = 1
      /\ \A i \in 1 .. Amount : f[i] = FrameworkOutput => i = 2
      /\ 1 \in 1 .. Amount /\ 2 \in 1 .. Amount
      /\ f[1] = FrameworkInput /\ f[2] = FrameworkOutput
  <2>1. 1 \in 1 .. Amount /\ 2 \in 1 .. Amount
    BY <1>1
  <2>2. \A i \in 1 .. Amount : i # 1 /\ i # 2 =>
          g[i - 2] # FrameworkInput /\ g[i - 2] # FrameworkOutput
    BY <1>2, <1>3
  <2>3. \A i \in 1 .. Amount : f[i] = IF i = 1 THEN FrameworkInput
                                   ELSE IF i = 2 THEN FrameworkOutput ELSE g[i - 2]
    OBVIOUS
  <2> HIDE DEF f, Rest
  <2> QED
    BY <2>1, <2>2, <2>3, BarriersCounted
<1>6. ASSUME NEW i \in 1 .. Amount, NEW j \in 1 .. Amount, f[i] = f[j]
      PROVE  i = j
  <2>1. CASE i \in {1, 2} \/ j \in {1, 2}
    BY <1>5, <1>6, <2>1
  <2>2. CASE i \notin {1, 2} /\ j \notin {1, 2}
    <3>1. g[i - 2] = g[j - 2] /\ i - 2 \in 1 .. n /\ j - 2 \in 1 .. n
      BY <1>3, <1>6, <2>2
    <3>2. i - 2 = j - 2
      BY <1>2, <3>1
    <3> QED
      BY <1>1, <3>2
  <2> QED
    BY <2>1, <2>2
<1>7. ASSUME NEW b \in Barriers PROVE \E i \in 1 .. Amount : f[i] = b
  <2>1. CASE b \in {FrameworkInput, FrameworkOutput}
    BY <1>5, <2>1
  <2>2. CASE b \in Rest
    <3>1. PICK i \in 1 .. n : g[i] = b
      BY <1>2, <2>2
    <3>2. i + 2 \in 1 .. Amount /\ f[i + 2] = g[i]
      BY <1>1
    <3> QED
      BY <3>1, <3>2
  <2> QED
    BY <2>1, <2>2
<1>8. Numbering(f)
  BY <1>5, <1>6, <1>7 DEF Numbering
<1>9. \E h \in [1 .. Amount -> Barriers] : Numbering(h)
  <2> HIDE DEF f
  <2> QED
    BY <1>4, <1>8
<1>10. Amount \in Nat /\ Amount >= 2
  BY <1>1
<1> QED
  BY <1>9, <1>10

LEMMA Numbered ==
  /\ Amount \in Nat /\ Amount >= 2
  /\ \A i \in 1 .. Amount : BarrierAt[i] \in Barriers /\ Number(BarrierAt[i]) = i
  /\ \A b \in Barriers : Number(b) \in 1 .. Amount /\ Number(b) # 0 /\ BarrierAt[Number(b)] = b
  /\ BarrierAt[1] = FrameworkInput /\ BarrierAt[2] = FrameworkOutput
<1>1. BarrierAt \in [1 .. Amount -> Barriers] /\ Numbering(BarrierAt)
  BY NumberingExists DEF BarrierAt
<1>2. \A b \in Barriers : Number(b) \in 1 .. Amount /\ BarrierAt[Number(b)] = b
  BY <1>1 DEF Numbering, Number
<1>3. \A i \in 1 .. Amount : BarrierAt[i] \in Barriers /\ Number(BarrierAt[i]) = i
  BY <1>1, <1>2 DEF Numbering
<1> QED
  BY <1>1, <1>2, <1>3, NumberingExists DEF Numbering

LEMMA SystemParts ==
  System!Workers = Workers /\ System!Threads = Threads
BY DEF System!Workers, System!Threads, Workers, Threads

\* The graph stays what it is.
LEMMA GraphIsBuilt ==
  UNCHANGED System!vars
BY DEF System!vars, SystemIn, SystemOut, SystemSize

LEMMA SystemStutters ==
  ASSUME UNCHANGED <<SystemPlace, SystemAt, SystemCount, SystemExecute, SystemRuns, work>>
  PROVE  UNCHANGED System!systemVars
BY GraphIsBuilt DEF System!systemVars

\* Who is past the gate, and the host in a call that got past it, sees FlowSystem's
\* m_threads_execute.
Past(t) == pc[t] \notin {"start", "parked", "idle", "starting"}
Shown == ~Opening /\ SystemExecute = execute /\ (SystemExecute <=> execute) /\ SystemRuns = runs

LEMMA PastTheGate ==
  ASSUME NEW t \in Threads
  PROVE  /\ IInv /\ Past(t) => Shown
         /\ (IInv /\ Past(t) => Shown)'
<1>1. ASSUME IInv, Past(t) PROVE Shown
  <2>1. ~Opening
    BY <1>1, HostApart DEF IInv, Past, GateInv, Unstarted, Opening
  <2>2. SystemExecute <=> execute
    BY <2>1 DEF SystemExecute
  <2>3. execute \in BOOLEAN /\ SystemExecute \in BOOLEAN
    BY <1>1 DEF IInv, TypeOK, SystemExecute
  <2>4. SystemExecute = execute
    BY <2>2, <2>3
  <2> QED
    BY <2>1, <2>2, <2>4 DEF SystemRuns, Shown
<1>2. IInv /\ Past(t) => Shown
  BY <1>1
<1>3. (IInv /\ Past(t) => Shown)'
  BY <1>2, PTL
<1> QED
  BY <1>2, <1>3

\* A worker goes on from one place to another.
LEMMA WorkerMoves ==
  ASSUME IInv, IInv', NEW t \in Workers, NEW p \in WorkerPlaces, {pc[t], p} \cap {"start", "parked"} = {},
         pc' = [pc EXCEPT ![t] = p], UNCHANGED <<execute, runs>>
  PROVE  /\ SystemPlace[t] = pc[t] /\ SystemPlace' = [SystemPlace EXCEPT ![t] = p]
         /\ (SystemExecute <=> execute) /\ UNCHANGED <<SystemExecute, SystemRuns>>
         /\ {pc[t], p} \cap {"atin", "atout"} = {} => UNCHANGED SystemAt
<1>1. TypeOK /\ TypeOK' /\ t # Host /\ t \in Threads /\ DOMAIN pc = Threads
  BY HostApart DEF IInv, TypeOK
<1>2. pc[t] \notin {"idle", "starting"} /\ p \notin {"idle", "starting"} /\ pc'[t] = p
  BY <1>1 DEF TypeOK, WorkerPlaces
<1>3. Shown /\ Shown'
  BY <1>1, <1>2, PastTheGate DEF Past
<1>4. SystemPlace[t] = pc[t] /\ SystemPlace' = [SystemPlace EXCEPT ![t] = p]
  BY <1>1, <1>2 DEF SystemPlace
<1>5. {pc[t], p} \cap {"atin", "atout"} = {} => UNCHANGED SystemAt
  BY <1>1, <1>2 DEF SystemAt
<1> QED
  BY <1>3, <1>4, <1>5 DEF Shown

LEMMA SystemWorkerStep ==
  ASSUME IInv, IInv', NEW t \in Workers, WorkerStep(t)
  PROVE  [System!SystemNext]_(System!systemVars)
<1>1. TypeOK /\ TypeOK' /\ t \in System!Workers /\ DOMAIN pc = Threads /\ t \in Threads
  BY SystemParts, HostApart DEF IInv, TypeOK
<1>2. CASE Park(t)
  <2>1. UNCHANGED <<SystemPlace, SystemAt, Opening>>
    BY <1>1, <1>2, HostApart DEF Park, SystemPlace, SystemAt, Opening
  <2>2. UNCHANGED <<SystemCount, SystemExecute, SystemRuns, work>>
    BY <1>2, <2>1 DEF Park, SystemCount, SystemExecute, SystemRuns
  <2> QED
    BY <2>1, <2>2, SystemStutters
<1>3. CASE TestLoop(t)
  <2>0. PICK p \in {"syncin", "exited"} : p = IF execute THEN "syncin" ELSE "exited"
    OBVIOUS
  <2>1. /\ SystemPlace[t] = "loop" /\ UNCHANGED <<SystemAt, SystemExecute, SystemRuns>>
        /\ SystemPlace' = [SystemPlace EXCEPT ![t] = p] /\ (SystemExecute <=> execute)
    BY <1>3, <2>0, WorkerMoves DEF TestLoop, WorkerPlaces
  <2>2. UNCHANGED <<SystemCount, work>>
    BY <1>3 DEF TestLoop, SystemCount
  <2>3. System!TestLoop(t)
    BY <2>0, <2>1, <2>2, GraphIsBuilt DEF System!TestLoop
  <2> QED
    BY <1>1, <2>3 DEF System!SystemNext
<1>4. CASE TestAgain(t)
  <2>0. PICK p \in {"busy", "syncout"} : p = IF execute THEN "busy" ELSE "syncout"
    OBVIOUS
  <2>1. /\ SystemPlace[t] = "check" /\ UNCHANGED <<SystemAt, SystemExecute, SystemRuns>>
        /\ SystemPlace' = [SystemPlace EXCEPT ![t] = p] /\ (SystemExecute <=> execute)
    BY <1>4, <2>0, WorkerMoves DEF TestAgain, WorkerPlaces
  <2>2. UNCHANGED <<SystemCount, work>>
    BY <1>4 DEF TestAgain, SystemCount
  <2>3. System!TestAgain(t)
    BY <2>0, <2>1, <2>2, GraphIsBuilt DEF System!TestAgain
  <2> QED
    BY <1>1, <2>3 DEF System!SystemNext
<1>5. CASE FinishWork(t)
  <2>1. /\ SystemPlace[t] = "busy" /\ UNCHANGED <<SystemAt, SystemExecute, SystemRuns>>
        /\ SystemPlace' = [SystemPlace EXCEPT ![t] = "syncout"]
    BY <1>5, WorkerMoves DEF FinishWork, WorkerPlaces
  <2>2. UNCHANGED SystemCount /\ work' = [work EXCEPT ![t] = @ + 1]
    BY <1>5 DEF FinishWork, SystemCount
  <2>3. System!FinishWork(t)
    BY <2>1, <2>2, GraphIsBuilt DEF System!FinishWork
  <2> QED
    BY <1>1, <2>3 DEF System!SystemNext
<1> QED
  BY <1>2, <1>3, <1>4, <1>5 DEF WorkerStep

LEMMA AtSystemBarrier ==
  ASSUME IInv, NEW t \in Threads, pc[t] \in {"syncin", "syncout"}
  PROVE  /\ Shown /\ System!Arriving(t) /\ SystemPlace[t] = pc[t]
         /\ System!AtInput(t) <=> pc[t] = "syncin"
         /\ System!BarrierOf(t) = Number(BarrierOf(t)) /\ BarrierOf(t) \in Barriers
         /\ Number(BarrierOf(t)) \in 1 .. Amount
         /\ \A k \in 1 .. Amount : k = Number(BarrierOf(t)) <=> BarrierAt[k] = BarrierOf(t)
         /\ SystemCount[Number(BarrierOf(t))] = count[BarrierOf(t)]
         /\ SystemSize[Number(BarrierOf(t))] = Size(BarrierOf(t))
<1>1. SystemPlace[t] = pc[t] /\ Shown
  BY PastTheGate DEF Past, SystemPlace
<1>2. (System!AtInput(t) <=> pc[t] = "syncin") /\ System!Arriving(t)
  BY <1>1 DEF System!AtInput, System!Arriving
<1>3. System!BarrierOf(t) = Number(BarrierOf(t)) /\ BarrierOf(t) \in Barriers
  BY <1>2, SyncTypes DEF System!BarrierOf, BarrierOf, SystemIn, SystemOut
<1>4. /\ Number(BarrierOf(t)) \in 1 .. Amount
      /\ \A k \in 1 .. Amount : k = Number(BarrierOf(t)) <=> BarrierAt[k] = BarrierOf(t)
  BY <1>3, Numbered
<1> QED
  BY <1>1, <1>2, <1>3, <1>4 DEF SystemCount, SystemSize

LEMMA SystemEarlyArrival ==
  ASSUME IInv, IInv', NEW t \in Threads, EarlyArrival(t)
  PROVE  [System!SystemNext]_(System!systemVars)
<1>0. PICK b \in Barriers : b = BarrierOf(t)
  BY SyncTypes DEF BarrierOf
<1>1. /\ pc[t] \in {"syncin", "syncout"} /\ count[b] + 1 # Size(b)
      /\ pc' = [pc EXCEPT ![t] = IF pc[t] = "syncin" THEN "atin" ELSE "atout"]
      /\ count' = [count EXCEPT ![b] = @ + 1] /\ UNCHANGED <<execute, runs, work>>
      /\ DOMAIN pc = Threads /\ count \in [Barriers -> Nat]
  BY <1>0 DEF EarlyArrival, IInv, TypeOK
<1>2. PICK i \in 1 .. Amount : i = Number(b)
  BY <1>0, <1>1, AtSystemBarrier
<1>3. /\ Shown /\ System!Arriving(t) /\ SystemPlace[t] = pc[t]
      /\ System!AtInput(t) <=> pc[t] = "syncin"
      /\ System!BarrierOf(t) = i /\ SystemCount[i] = count[b] /\ SystemSize[i] = Size(b)
      /\ \A k \in 1 .. Amount : k = i <=> BarrierAt[k] = b
  BY <1>0, <1>1, <1>2, AtSystemBarrier
<1>4. pc'[t] = (IF pc[t] = "syncin" THEN "atin" ELSE "atout") /\ Shown'
  BY <1>1, PastTheGate DEF Past
<1>5. SystemCount' = [SystemCount EXCEPT ![i] = @ + 1]
  <2>1. \A k \in 1 .. Amount : BarrierAt[k] \in Barriers
    BY Numbered
  <2> QED
    BY <1>1, <1>3, <2>1 DEF SystemCount
<1>6. SystemPlace' = [SystemPlace EXCEPT ![t] = IF System!AtInput(t) THEN "atin" ELSE "atout"]
  BY <1>1, <1>3, <1>4 DEF SystemPlace
<1>7. SystemAt' = [SystemAt EXCEPT ![t] = i]
  <2>1. i = IF pc[t] = "syncin" THEN Number(InputSync[t]) ELSE Number(OutputSync[t])
    BY <1>0, <1>1, <1>2 DEF BarrierOf
  <2> QED
    BY <1>1, <1>4, <2>1 DEF SystemAt
<1>8. UNCHANGED <<SystemExecute, SystemRuns>>
  BY <1>1, <1>3, <1>4 DEF Shown
<1>9. System!EarlyArrival(t)
  BY <1>1, <1>3, <1>5, <1>6, <1>7, <1>8, GraphIsBuilt DEF System!EarlyArrival
<1> QED
  BY <1>9, SystemParts, HostApart DEF System!SystemNext

LEMMA SystemLastArrival ==
  ASSUME IInv, IInv', NEW t \in Threads, LastArrival(t)
  PROVE  [System!SystemNext]_(System!systemVars)
<1>0. PICK b \in Barriers : b = BarrierOf(t)
  BY SyncTypes DEF BarrierOf
<1>a. PICK released \in SUBSET Threads : released = Waiting(b) \cup {t}
  BY DEF Waiting
<1>1. /\ pc[t] \in {"syncin", "syncout"} /\ count[b] + 1 = Size(b)
      /\ pc' = [u \in Threads |-> IF u \in released THEN After(u) ELSE pc[u]]
      /\ count' = [count EXCEPT ![b] = 0] /\ UNCHANGED <<execute, runs, work>>
      /\ DOMAIN pc = Threads /\ count \in [Barriers -> Nat]
  BY <1>0, <1>a DEF LastArrival, IInv, TypeOK
<1>2. PICK i \in 1 .. Amount : i = Number(b)
  BY <1>0, <1>1, AtSystemBarrier
<1>3. /\ Shown /\ System!Arriving(t) /\ SystemPlace[t] = pc[t]
      /\ System!AtInput(t) <=> pc[t] = "syncin"
      /\ System!BarrierOf(t) = i /\ SystemCount[i] = count[b] /\ SystemSize[i] = Size(b)
      /\ \A k \in 1 .. Amount : k = i <=> BarrierAt[k] = b
  BY <1>0, <1>1, <1>2, AtSystemBarrier
<1>4. \A u \in released : pc[u] \in {"syncin", "atin", "syncout", "atout"} /\ pc'[u] = After(u)
  BY <1>1, <1>a DEF Waiting
<1>5. Shown'
  <2>1. pc'[t] \in {"syncout", "check", "returning", "loop"}
    BY <1>4, <1>a DEF After
  <2> QED
    BY <2>1, PastTheGate DEF Past
<1>6. SystemCount' = [SystemCount EXCEPT ![i] = 0]
  <2>1. \A k \in 1 .. Amount : BarrierAt[k] \in Barriers
    BY Numbered
  <2> QED
    BY <1>1, <1>3, <2>1 DEF SystemCount
<1>7. \A u \in Threads : SystemAt[u] = i <=> u \in Waiting(b)
  <2>1. i # 0 /\ \A c \in Barriers : Number(c) = i <=> c = b
    BY <1>2, Numbered
  <2>2. \A u \in Threads : InputSync[u] \in Barriers /\ OutputSync[u] \in Barriers
    BY SyncTypes
  <2> QED
    BY <2>1, <2>2 DEF SystemAt, Waiting, BarrierOf
<1>8. {u \in DOMAIN SystemAt : SystemAt[u] = i} \cup {t} = released /\ DOMAIN SystemAt = Threads
      /\ DOMAIN SystemPlace = Threads
  BY <1>7, <1>a DEF SystemAt, SystemPlace, Waiting
<1>9. SystemAt' = [u \in Threads |-> IF u \in released THEN 0 ELSE SystemAt[u]]
  <2>1. \A u \in released : pc'[u] \notin {"atin", "atout"}
    BY <1>4 DEF After
  <2> QED
    BY <1>1, <2>1 DEF SystemAt
<1>10. SystemPlace' = [u \in Threads |-> IF u \in released THEN System!After(u) ELSE SystemPlace[u]]
  <2>1. ASSUME NEW u \in released PROVE SystemPlace'[u] = System!After(u)
    <3>1. SystemPlace[u] = pc[u]
      BY <1>4 DEF SystemPlace
    <3>2. System!After(u) = IF pc[u] \in {"syncin", "atin"} THEN IF u = Host THEN "syncout" ELSE "check"
                            ELSE IF u # Host THEN "loop" ELSE IF execute THEN "idle" ELSE "joining"
      BY <1>3, <3>1 DEF System!After, System!AtInput, Shown
    <3>3. pc'[u] = IF pc[u] \in {"syncin", "atin"} THEN IF u = Host THEN "syncout" ELSE "check"
                   ELSE IF u = Host THEN "returning" ELSE "loop"
      BY <1>4 DEF After
    <3> QED
      BY <1>1, <3>2, <3>3 DEF SystemPlace
  <2>2. ASSUME NEW u \in Threads, u \notin released PROVE SystemPlace'[u] = SystemPlace[u]
    BY <1>1, <2>2 DEF SystemPlace
  <2>3. SystemPlace' = [u \in Threads |-> SystemPlace'[u]]
    BY DEF SystemPlace
  <2> QED
    BY <2>1, <2>2, <2>3
<1>11. UNCHANGED <<SystemExecute, SystemRuns>>
  BY <1>1, <1>3, <1>5 DEF Shown
<1>12. System!LastArrival(t)
  BY <1>1, <1>3, <1>6, <1>8, <1>9, <1>10, <1>11, GraphIsBuilt DEF System!LastArrival
<1> QED
  BY <1>12, SystemParts, HostApart DEF System!SystemNext

LEMMA SameCardinality == ASSUME NEW S PROVE System!Cardinality(S) = Cardinality(S)
  BY DEF System!Cardinality, Cardinality

LEMMA SystemHostStep ==
  ASSUME IInv, IInv', SleepSettles, runs <= MaxRuns,
         Run \/ Start \/ Return \/ Destroy \/ SignalExit \/ Join
  PROVE  [System!SystemNext]_(System!systemVars)
<1>1. /\ DOMAIN pc = Threads /\ execute \in BOOLEAN /\ execute' \in BOOLEAN /\ runs \in Nat
      /\ SystemExecute \in BOOLEAN /\ (SystemExecute)' \in BOOLEAN /\ MaxRuns \in Nat
      /\ DOMAIN SystemPlace = Threads
  BY RunAssumption DEF IInv, TypeOK, SystemExecute, SystemPlace
<1>2. UNCHANGED <<SystemCount, work>>
  BY DEF Run, Start, Return, Destroy, SignalExit, Join, SystemCount
<1>3. System!Cardinality(System!Workers) <= Cardinality(Workers)
  BY FiniteGraph, SystemParts, SameCardinality
<1>4. CASE Run /\ ~execute
  <2>1. UNCHANGED <<SystemPlace, SystemAt, SystemRuns>>
    BY <1>1, <1>4, HostApart DEF Run, SystemPlace, SystemAt, SystemRuns, Opening
  <2>2. ~SystemExecute /\ ~(SystemExecute)'
    BY <1>1, <1>4, HostApart DEF Run, SystemExecute, Opening
  <2> QED
    BY <1>1, <1>2, <2>1, <2>2, SystemStutters
<1>5. CASE Run /\ execute
  <2>1. /\ SystemPlace[Host] = "idle" /\ SystemPlace' = [SystemPlace EXCEPT ![Host] = "syncin"]
        /\ UNCHANGED SystemAt /\ SystemRuns < MaxRuns /\ (SystemRuns)' = SystemRuns + 1
    BY <1>1, <1>5, HostApart DEF Run, SystemPlace, SystemAt, SystemRuns, Opening
  <2>2. SystemExecute /\ (SystemExecute)' = TRUE
    BY <1>1, <1>5, HostApart DEF Run, SystemExecute, Opening
  <2>3. System!Run
    BY <1>2, <1>3, <2>1, <2>2, GraphIsBuilt DEF System!Run
  <2> QED
    BY <2>3 DEF System!SystemNext
<1>6. CASE Start
  <2>1. \A t \in Workers : pc[t] = "parked" /\ pc'[t] = "loop"
    <3> DEFINE Parked == {t \in Workers : pc[t] # "start"}
    <3>1. Parked \in SUBSET Workers /\ Cardinality(Parked) = Cardinality(Workers)
      BY <1>6 DEF IInv, GateInv, Start
    <3>2. Parked = Workers
      BY <3>1, FiniteGraph, FS_Subset
    <3> QED
      BY <1>6, <3>2, HostApart DEF IInv, GateInv, Unstarted, Start
  <2>2. pc[Host] = "starting" /\ pc'[Host] = (IF execute THEN "syncin" ELSE "joining") /\ DOMAIN pc' = Threads
    BY <1>6, HostApart DEF Start
  <2>3. /\ SystemPlace[Host] = "idle" /\ UNCHANGED SystemAt /\ UNCHANGED execute /\ UNCHANGED runs
        /\ SystemPlace' = [t \in Threads |-> IF t = Host THEN IF execute THEN "syncin" ELSE "joining" ELSE "loop"]
    BY <1>1, <1>6, <2>1, <2>2, HostApart DEF Start, SystemPlace, SystemAt
  <2>4. ~SystemExecute /\ ((SystemExecute)' <=> execute)
    BY <1>1, <2>2, <2>3 DEF SystemExecute, Opening
  <2>5. CASE execute
    <3>1. SystemRuns < MaxRuns /\ (SystemRuns)' = SystemRuns + 1
      BY <1>1, <2>2, <2>3, <2>5 DEF SystemRuns, Opening
    <3>2. (SystemExecute)' = TRUE
      BY <1>1, <2>4, <2>5
    <3>3. System!GateOpens("syncin")
      BY <1>1, <2>3, <2>5 DEF System!GateOpens
    <3>4. System!Run
      BY <1>2, <1>3, <2>3, <2>4, <3>1, <3>2, <3>3, GraphIsBuilt DEF System!Run
    <3> QED
      BY <3>4 DEF System!SystemNext
  <2>6. CASE ~execute
    <3>1. UNCHANGED <<SystemRuns, SystemExecute>>
      BY <1>1, <2>2, <2>3, <2>4, <2>6 DEF SystemRuns, Opening
    <3>2. System!GateOpens("joining")
      BY <1>1, <2>3, <2>6 DEF System!GateOpens
    <3>3. System!Destroy
      BY <1>2, <1>3, <2>3, <2>4, <3>1, <3>2, GraphIsBuilt DEF System!Destroy
    <3> QED
      BY <3>3 DEF System!SystemNext
  <2> QED
    BY <2>5, <2>6
<1>7. CASE Return
  <2>1. UNCHANGED <<SystemPlace, SystemAt, execute, runs, Opening>>
    BY <1>1, <1>7, HostApart DEF Return, SystemPlace, SystemAt, Opening
  <2>2. UNCHANGED <<SystemRuns, SystemExecute>>
    BY <2>1 DEF SystemRuns, SystemExecute
  <2> QED
    BY <1>2, <2>1, <2>2, SystemStutters
<1>8. CASE Destroy
  <2>1. pc[Host] = "idle" /\ pc'[Host] = (IF execute THEN "sleeping" ELSE "starting") /\ UNCHANGED <<execute, runs>>
    BY <1>1, <1>8, HostApart DEF Destroy
  <2>2. UNCHANGED <<SystemRuns, SystemExecute>>
    <3>1. (SystemExecute <=> execute) /\ ((SystemExecute)' <=> execute) /\ SystemRuns = runs /\ (SystemRuns)' = runs
      BY <2>1 DEF SystemExecute, SystemRuns, Opening
    <3> QED
      BY <1>1, <3>1
  <2>3. SystemPlace[Host] = "idle" /\ UNCHANGED SystemAt
    BY <1>1, <1>8, HostApart DEF Destroy, SystemPlace, SystemAt
  <2>4. CASE execute
    <3>1. SystemPlace' = [SystemPlace EXCEPT ![Host] = "sleeping"] /\ SystemExecute
      BY <1>1, <1>8, <2>1, <2>4, HostApart DEF Destroy, SystemPlace, SystemExecute, Opening
    <3>2. System!Destroy
      BY <1>2, <1>3, <2>2, <2>3, <3>1, GraphIsBuilt DEF System!Destroy
    <3> QED
      BY <3>2 DEF System!SystemNext
  <2>5. CASE ~execute
    <3>1. UNCHANGED SystemPlace
      BY <1>1, <1>8, <2>1, <2>5, HostApart DEF Destroy, SystemPlace
    <3> QED
      BY <1>2, <2>2, <2>3, <3>1, SystemStutters
  <2> QED
    BY <2>4, <2>5
<1>9. CASE SignalExit
  <2>1. /\ SystemPlace[Host] = "sleeping" /\ SystemPlace' = [SystemPlace EXCEPT ![Host] = "syncin"]
        /\ \A t \in Workers : SystemPlace[t] # "loop"
        /\ UNCHANGED SystemAt /\ UNCHANGED SystemRuns
    BY <1>1, <1>9, HostApart DEF SignalExit, SystemPlace, SystemAt, SystemRuns, Opening
  <2>2. (SystemExecute)' = FALSE
    BY <1>1, <1>9 DEF SignalExit, SystemExecute
  <2>3. System!SignalExit
    BY <1>2, <2>1, <2>2, SystemParts, GraphIsBuilt DEF System!SignalExit
  <2> QED
    BY <2>3 DEF System!SystemNext
<1>10. CASE Join
  <2>1. /\ SystemPlace[Host] = "joining" /\ SystemPlace' = [SystemPlace EXCEPT ![Host] = "closed"]
        /\ \A t \in Workers : SystemPlace[t] = "exited"
        /\ UNCHANGED <<SystemAt, SystemRuns, SystemExecute>>
    BY <1>1, <1>10, HostApart DEF Join, SystemPlace, SystemAt, SystemRuns, SystemExecute, Opening
  <2>2. System!Join
    BY <1>2, <2>1, SystemParts, GraphIsBuilt DEF System!Join, System!Joinable
  <2> QED
    BY <2>2 DEF System!SystemNext
<1> QED
  BY <1>4, <1>5, <1>6, <1>7, <1>8, <1>9, <1>10

LEMMA SystemNextStep ==
  ASSUME SleepSettles, IInv, IInv', runs <= MaxRuns, [Next]_vars
  PROVE  [System!SystemNext]_(System!systemVars)
<1>1. CASE \E t \in Workers : WorkerStep(t) \/ Arrival(t)
  BY <1>1, HostApart, SystemWorkerStep, SystemEarlyArrival, SystemLastArrival DEF Arrival
<1>2. CASE HostStep \/ Run \/ Destroy
  BY <1>2, HostApart, SystemHostStep, SystemEarlyArrival, SystemLastArrival DEF HostStep, Arrival
<1>3. CASE UNCHANGED vars
  <2>1. UNCHANGED <<SystemPlace, SystemAt, Opening>>
    BY <1>3 DEF vars, SystemPlace, SystemAt, Opening
  <2>2. UNCHANGED <<SystemCount, SystemExecute, SystemRuns, work>>
    BY <1>3, <2>1 DEF vars, SystemCount, SystemExecute, SystemRuns
  <2> QED
    BY <2>1, <2>2, SystemStutters
<1> QED
  BY <1>1, <1>2, <1>3 DEF Next, Closed

LEMMA RunsAreBounded == Spec => [](runs <= MaxRuns)
<1>1. Init => runs <= MaxRuns
  BY RunAssumption DEF Init
<1>2. TypeOK /\ runs <= MaxRuns /\ [Next]_vars => (runs <= MaxRuns)'
  BY RunAssumption DEF TypeOK, Next, WorkerStep, HostStep, Arrival, vars, Park, TestLoop,
     TestAgain, FinishWork, EarlyArrival, LastArrival, Run, Start, Return, Destroy, SignalExit,
     Join, Closed
<1> QED
  BY <1>1, <1>2, TypeCorrect, PTL DEF Spec

\* Every step of FlowRun is a step of FlowSystem or one it does not see: what the
\* threads of a built graph do between the calls of SyncStart::Wait, SyncBarrier::Wait
\* and the tests of *execute is what FlowSystem makes of it, the opening of the gate
\* (SyncStart::Wait counting one thread after another, SyncStart::Start waiting for
\* the last) and the way out of SyncOutput in one step each. Provided, as FlowSystem
\* has it, that the sleep of TerminateThreads outlasts the tests.
THEOREM ImplementsSystem ==
  ASSUME SleepSettles = TRUE
  PROVE  Spec => KeepsSystem
<1>1. IInv /\ IInv' /\ runs <= MaxRuns /\ [Next]_vars => [System!SystemNext]_(System!systemVars)
  BY SystemNextStep
<1> QED
  BY <1>1, Invariance, RunsAreBounded, PTL DEF Spec, KeepsSystem

\* Two places of the wiring have one number only if they are one barrier.
LEMMA NumbersTellApart ==
  \A a, b \in Barriers : Number(a) = Number(b) <=> a = b
BY Numbered

LEMMA PlacesAreBarriers ==
  /\ \A t \in Threads : InputSync[t] \in Barriers /\ OutputSync[t] \in Barriers
  /\ \A t \in Threads : SystemIn[t] = Number(InputSync[t]) /\ SystemOut[t] = Number(OutputSync[t])
BY DEF Barriers, SystemIn, SystemOut

\* The graph that FlowRun runs is wired and counted as the calls of GraphBuilder leave one.
LEMMA BuiltGraph ==
  /\ System!WiredAsFlowGraph /\ System!SizesCountThreads
  /\ System!Len(SystemSize) = Amount /\ SystemSize \in System!Seq(Nat)
<1>1. System!FG!InputSync = InputSync /\ System!FG!OutputSync = OutputSync
  BY DEF System!FG!InputSync, System!FG!OutputSync, InputSync, OutputSync, System!FG!Threads,
     System!FG!Workers, Threads, Workers, System!FG!InEdges, System!FG!OutEdges, InEdges,
     OutEdges, System!FG!FrameworkInput, System!FG!FrameworkOutput, FrameworkInput, FrameworkOutput
<1>2. System!WiredAsFlowGraph
  BY <1>1, SystemParts, PlacesAreBarriers, NumbersTellApart DEF System!WiredAsFlowGraph
<1>3. System!Len(SystemSize) = Amount /\ SystemSize \in System!Seq(Nat)
  <2>1. \A i \in 1 .. Amount : Size(BarrierAt[i]) \in Nat
    <3>1. \A b : Members(b) \subseteq Threads
      BY DEF Members
    <3> QED
      BY <3>1, FiniteGraph, FS_Subset, FS_CardinalityType DEF Size
  <2> QED
    BY <2>1, Numbered DEF SystemSize
<1>4. \A i \in 1 .. Amount : SystemSize[i] = System!Waiters(i)
  <2>1. ASSUME NEW i \in 1 .. Amount
        PROVE  Members(BarrierAt[i]) = {t \in Threads : SystemIn[t] = i \/ SystemOut[t] = i}
    BY Numbered, PlacesAreBarriers DEF Members
  <2> QED
    BY <2>1, SameCardinality, SystemParts DEF System!Waiters, SystemSize, Size
<1>5. System!NotCreated = 0
  BY SameCardinality, FS_EmptySet DEF System!NotCreated
<1>6. System!SizesCountThreads
  BY <1>3, <1>4, <1>5, Numbered DEF System!SizesCountThreads
<1> QED
  BY <1>2, <1>3, <1>6

LEMMA GraphIsWired == System!Wiring
<1>1. /\ Number(FrameworkInput) = 1 /\ Number(FrameworkOutput) = 2
      /\ System!FrameworkInput = 1 /\ System!FrameworkOutput = 2
  BY Numbered DEF System!FrameworkInput, System!FrameworkOutput
<1>2. \A t \in Threads :
        /\ SystemIn[t] = 1 <=> InputSync[t] = FrameworkInput
        /\ SystemIn[t] = 2 <=> InputSync[t] = FrameworkOutput
        /\ SystemOut[t] = 1 <=> OutputSync[t] = FrameworkInput
        /\ SystemOut[t] = 2 <=> OutputSync[t] = FrameworkOutput
  BY <1>1, PlacesAreBarriers, NumbersTellApart, BarriersCounted
<1>3. SystemIn[Host] = 1 /\ SystemOut[Host] = 2
  <2>1. InputSync[Host] = FrameworkInput /\ OutputSync[Host] = FrameworkOutput
    BY HostApart, GraphAssumption DEF InputSync, OutputSync, Workers
  <2> QED
    BY <1>2, <2>1, HostApart
<1>4. ASSUME NEW e \in Edges
      PROVE  /\ Src[e] # Host \/ Dst[e] # Host
             /\ SystemIn[e] = IF Src[e] = Host THEN 1 ELSE SystemOut[Src[e]]
             /\ SystemOut[e] = IF Dst[e] = Host THEN 2 ELSE SystemIn[Dst[e]]
  <2>1. /\ InputSync[e] = IF Src[e] = Host THEN FrameworkInput ELSE OutputSync[Src[e]]
        /\ OutputSync[e] = IF Dst[e] = Host THEN FrameworkOutput ELSE InputSync[Dst[e]]
    BY HostApart, GraphAssumption DEF InputSync, OutputSync, InEdges, OutEdges, Workers, Threads
  <2>2. {e, Src[e], Dst[e]} \subseteq Threads
    BY GraphAssumption DEF Threads, Workers
  <2> QED
    BY <1>1, <2>1, <2>2, PlacesAreBarriers, GraphAssumption
<1>5. ASSUME NEW o \in Ops
      PROVE  /\ o \in Threads /\ InputSync[o] # FrameworkOutput /\ OutputSync[o] # FrameworkInput
             /\ InputSync[o] = FrameworkInput <=> ~System!HasIn(o)
             /\ OutputSync[o] = FrameworkOutput <=> ~System!HasOut(o)
  BY GraphAssumption DEF InputSync, OutputSync, InEdges, OutEdges, FrameworkInput,
     FrameworkOutput, Threads, Workers, System!HasIn, System!HasOut
<1>6. ASSUME NEW o \in Ops, NEW p \in Ops
      PROVE  /\ InputSync[o] = InputSync[p] => InputSync[o] = FrameworkInput \/ o = p
             /\ OutputSync[o] = OutputSync[p] => OutputSync[o] = FrameworkOutput \/ o = p
             /\ InputSync[o] # OutputSync[p]
  BY <1>5 DEF InputSync, OutputSync, FrameworkInput, FrameworkOutput
<1> QED
  BY <1>1, <1>2, <1>3, <1>4, <1>5, <1>6, PlacesAreBarriers, NumbersTellApart DEF System!Wiring

\* And FlowRun starts where a FlowSystem may be when the last call that builds has
\* returned, with every part of the invariant that each step of a FlowSystem keeps.
THEOREM StartsBuilt ==
  Init => /\ System!SystemTypeOK /\ System!Wiring /\ System!WiredAsFlowGraph
          /\ System!SizesCountThreads /\ System!SystemInv
<1> SUFFICES ASSUME Init
             PROVE  System!SystemTypeOK /\ System!SystemInv
  BY BuiltGraph, GraphIsWired
<1>1. /\ pc = [t \in Threads |-> IF t = Host THEN "idle" ELSE "start"] /\ ~Opening
      /\ execute = FALSE /\ runs = 0 /\ work = [t \in Workers |-> 0]
      /\ SystemExecute = FALSE /\ SystemRuns = 0
  BY HostApart DEF Init, Opening, SystemExecute, SystemRuns
<1>2. /\ SystemPlace[Host] = "idle" /\ \A t \in Workers : SystemPlace[t] = "gate" /\ work[t] = 0
      /\ DOMAIN SystemPlace = Threads /\ SystemAt = [t \in Threads |-> 0]
  BY <1>1, HostApart DEF SystemPlace, SystemAt
<1>3. SystemCount = [i \in 1 .. Amount |-> 0]
  BY Numbered DEF Init, SystemCount
<1>4. System!Workers \cup {Host} = Threads
  BY SystemParts, HostApart
<1>5. System!TypeOK
  <2>1. SystemIn \in [Threads -> 1 .. Amount] /\ SystemOut \in [Threads -> 1 .. Amount]
    BY PlacesAreBarriers, Numbered DEF SystemIn, SystemOut
  <2> QED
    BY <2>1, BuiltGraph, SystemParts, GraphAssumption DEF System!TypeOK
<1>6. System!SystemTypeOK
  <2>1. SystemAt \in [Threads -> 0 .. Amount] /\ SystemCount \in [1 .. Amount -> Nat]
    BY <1>2, <1>3, Numbered
  <2>2. SystemRuns \in 0 .. MaxRuns /\ SystemExecute \in BOOLEAN /\ work \in [Workers -> Nat]
    <3>1. 0 \in 0 .. MaxRuns /\ FALSE \in BOOLEAN
      BY RunAssumption
    <3>2. work \in [Workers -> Nat]
      BY <1>1
    <3> QED
      BY <1>1, <3>1, <3>2, Zenon
  <2>3. /\ DOMAIN SystemPlace = Threads /\ SystemPlace[Host] \in System!HostPlaces
        /\ \A t \in Workers : SystemPlace[t] \in System!WorkerPlaces
    BY <1>2 DEF System!HostPlaces, System!WorkerPlaces
  <2> QED
    BY <1>4, <1>5, <2>1, <2>2, <2>3, BuiltGraph, SystemParts DEF System!SystemTypeOK
<1>7. System!BeforeRuns /\ System!HostPlaced
  BY <1>1, <1>2, <1>3, <1>4, BuiltGraph, SystemParts DEF System!BeforeRuns, System!HostPlaced, SystemSize
<1>8. System!AskedIsConnected
  BY DEF System!AskedIsConnected, System!OnTwoCPUs
<1> QED
  BY <1>1, <1>6, <1>7, <1>8 DEF System!SystemInv

------------------------------------------------------------------------------
(* What DestructorReturns comes down to, and that every Run returns: while the  *)
(* host is inside a call somebody can make a step (SomebodyMay), can until it   *)
(* is made (MayLasts), and the steps of a call are counted beforehand           *)
(* (EveryStepCounts). Fairness, which has each made that can be, does the rest. *)

\* Between Run or ~Framework being called and its return.
InCall == pc[Host] \notin {"idle", "closed"}

\* The guards of what t does next, the calls the host chooses to make aside.
May(t) ==
  IF t # Host THEN pc[t] \in {"start", "loop", "syncin", "check", "busy", "syncout"}
  ELSE \/ pc[t] \in {"syncin", "syncout", "returning"}
       \/ pc[t] = "starting" /\ numWait = Cardinality(Workers)
       \/ pc[t] = "sleeping" /\ (SleepSettles => \A u \in Workers : pc[u] # "loop")
       \/ pc[t] = "joining" /\ \A u \in Workers : pc[u] = "exited"

StepOf(t) == IF t = Host THEN HostStep ELSE WorkerStep(t) \/ Arrival(t)

\* A worker has left its loop without the destructor's round: it found *execute
\* cleared when it came round, which a sleep that is long enough rules out.
MissedRound == \E t \in Workers : pc[t] = "exited" /\ runs > 0 /\ outs[t] <= runs

\* Once *execute is cleared, whoever has made the destructor's round is on its way
\* out; without a Run there is no round.
LeaveInv ==
  ~execute => \A t \in Workers : runs = 0 \/ outs[t] > runs =>
    pc[t] \in {"start", "parked", "loop", "exited"}

LEMMA LeaveInit == Init => LeaveInv
BY GraphAssumption DEF Init, LeaveInv, Threads

LEMMA LeaveNext ==
  ASSUME IInv, LeaveInv, [Next]_vars
  PROVE  LeaveInv'
<1>0. Host \in Threads /\ Host \notin Workers /\ Workers \subseteq Threads
  BY GraphAssumption DEF Threads
<1> USE <1>0 DEF LeaveInv
<1>1. ASSUME NEW u \in Workers, WorkerStep(u)
      PROVE  LeaveInv'
  BY <1>1 DEF IInv, TypeOK, WorkerStep, Park, TestLoop, TestAgain, FinishWork
<1>2. ASSUME NEW u \in Threads, EarlyArrival(u)
      PROVE  LeaveInv'
  BY <1>2 DEF IInv, TypeOK, EarlyArrival
<1>3. ASSUME NEW u \in Threads, LastArrival(u)
      PROVE  LeaveInv'
  <2> DEFINE released == Waiting(BarrierOf(u)) \cup {u}
  <2>1. SUFFICES ASSUME ~execute, NEW t \in Workers, runs = 0 \/ outs'[t] > runs
                 PROVE  pc'[t] \in {"start", "parked", "loop", "exited"}
    BY <1>3 DEF LastArrival
  <2>2. CASE t \in released
    <3>1. pc[t] \in {"syncin", "atin", "syncout", "atout"} /\ pc'[t] = After(t)
      BY <1>3, <2>2 DEF LastArrival, Waiting
    <3>2. CASE ClosesRound(t)
      BY <3>1, <3>2 DEF After, ClosesRound
    <3>3. CASE ~ClosesRound(t)
      BY <1>3, <2>1, <3>1, <3>3 DEF LastArrival
    <3> QED
      BY <3>2, <3>3
  <2>3. CASE t \notin released
    BY <1>3, <2>1, <2>3 DEF LastArrival
  <2> QED
    BY <2>2, <2>3
<1>4. CASE SignalExit
  <2>1. runs > 0 /\ outs[Host] = runs /\ runs \in Nat
    BY <1>4 DEF IInv, TypeOK, SignalExit, HostInv
  <2>2. ASSUME NEW t \in Workers PROVE outs[t] = runs
    BY <1>4, <2>1, AllAtRest DEF IInv, SignalExit, InRound
  <2> QED
    BY <1>4, <2>1, <2>2 DEF SignalExit
<1>5. CASE Start \/ Return \/ Join \/ Run \/ Destroy
  BY <1>5 DEF IInv, TypeOK, Start, Return, Join, Run, Destroy
<1>6. CASE Closed \/ UNCHANGED vars
  BY <1>6 DEF Closed, vars
<1> QED
  BY <1>1, <1>2, <1>3, <1>4, <1>5, <1>6 DEF Next, HostStep, Arrival

LEMMA LeaveInvariance == Spec => [](IInv /\ LeaveInv)
BY InitIInv, AnyStep, LeaveInit, LeaveNext, PTL DEF Spec

\* A thread leaves by the barrier a worker enters by only if it feeds the worker.
LEMMA MeetsFeeder ==
  ASSUME NEW t \in Workers, NEW u \in Threads, OutputSync[u] = InputSync[t]
  PROVE  u \in Feeders(t)
<1> USE GraphAssumption DEF InputSync, OutputSync, FrameworkInput, FrameworkOutput,
                            Threads, Workers, Feeders, InEdges
<1>1. CASE t \in Ops
  BY <1>1
<1>2. CASE t \notin Ops
  BY <1>2
<1> QED
  BY <1>1, <1>2

\* Nobody leaves by the barrier the host enters by, or enters by the one it leaves by.
LEMMA HostsOwn ==
  ASSUME NEW u \in Threads
  PROVE  OutputSync[u] # InputSync[Host] /\ InputSync[u] # OutputSync[Host]
BY GraphAssumption DEF InputSync, OutputSync, FrameworkInput, FrameworkOutput, Threads, Workers

\* Nobody can be kept waiting at a barrier.
LEMMA NotFull ==
  ASSUME IInv, NEW b \in Barriers
  PROVE  \E u \in Members(b) : u \notin Waiting(b)
BY DEF IInv, BarrierInv, Waiting, Members, BarrierOf

\* While the host is in a round and nobody is on the way to a barrier or at work,
\* everyone is asleep in one, unless it has left too early.
LEMMA AllAsleep ==
  ASSUME IInv, pc[Host] \in {"atin", "atout"}, ~MissedRound,
         \A t \in Threads : ~May(t)
  PROVE  \A t \in Workers :
           \/ pc[t] \in {"atin", "atout"}
           \/ pc[t] = "exited" /\ outs[t] = outs[Host] + 1 /\ Ins(t) = outs[Host] + 1
<1> SUFFICES ASSUME NEW t \in Workers, pc[t] \notin {"atin", "atout"}
             PROVE  pc[t] = "exited" /\ outs[t] = outs[Host] + 1 /\ Ins(t) = outs[Host] + 1
  OBVIOUS
<1>1. t \in Threads /\ t # Host
  BY GraphAssumption DEF Threads
<1>2. pc[t] \notin {"start", "parked"}
  BY DEF IInv, GateInv, Unstarted
<1>3. pc[t] = "exited"
  BY <1>1, <1>2 DEF IInv, TypeOK, WorkerPlaces, May
<1>4. ~execute /\ runs > 0 /\ outs[Host] = runs /\ runs \in Nat
  BY <1>3 DEF IInv, TypeOK, HostInv, WorkInv
<1>5. ~(outs[t] <= runs)
  BY <1>3, <1>4 DEF MissedRound
<1>6. outs[t] <= Ins(t) /\ Ins(t) <= outs[Host] + 1 /\ outs[t] \in Nat /\ Ins(t) \in Nat
  BY Sandwich DEF IInv
<1> QED
  BY <1>3, <1>4, <1>5, <1>6

LEMMA NobodyAsleepForEver ==
  ASSUME IInv, pc[Host] \in {"atin", "atout"}, ~MissedRound,
         \A t \in Threads : ~May(t)
  PROVE  FALSE
<1> DEFINE n == outs[Host]
<1>0. /\ Host \in Threads /\ Host \notin Workers /\ Workers \subseteq Threads
      /\ Threads = Workers \cup {Host} /\ n \in Nat
  BY GraphAssumption DEF IInv, TypeOK, Threads
<1>1. \A t \in Workers :
        \/ pc[t] \in {"atin", "atout"}
        \/ pc[t] = "exited" /\ outs[t] = n + 1 /\ Ins(t) = n + 1
  BY AllAsleep
<1>2. ASSUME NEW t \in Workers
      PROVE  /\ outs[t] \in {n, n + 1} /\ Ins(t) \in {n, n + 1} /\ outs[t] <= Ins(t)
             /\ pc[t] = "atin" => Ins(t) = outs[t]
             /\ pc[t] = "atout" => Ins(t) = n + 1 /\ outs[t] = n
  <2>1. /\ outs[t] \in Nat /\ Ins(t) \in Nat /\ n <= outs[t] /\ outs[t] <= Ins(t)
        /\ Ins(t) <= n + 1
    BY <1>0, Sandwich DEF IInv
  <2> QED
    BY <1>0, <2>1 DEF Ins, InRound
<1>3. \A b \in Barriers : \E u \in Members(b) : ~(pc[u] \in {"atin", "atout"} /\ BarrierOf(u) = b)
  BY NotFull DEF Waiting, Members
<1>4. \A t \in Threads : /\ InputSync[t] \in Barriers /\ OutputSync[t] \in Barriers
                         /\ InputSync[t] # OutputSync[t]
  BY SyncTypes
<1>5. ASSUME NEW b \in Barriers, NEW t \in Threads, NEW u \in Threads,
             t \in Members(b), u \in Members(b)
      PROVE  Passes(t, b) = Passes(u, b)
  BY <1>5 DEF IInv, PhaseInv
<1>6. CASE pc[Host] = "atin"
  <2>1. ASSUME NEW t \in Workers PROVE pc[t] = "atin"
    <3>1. outs[t] = n /\ ~InRound(t)
      BY <1>6, AllAtRest DEF IInv, InRound
    <3> QED
      BY <1>0, <1>1, <3>1 DEF InRound
  <2>2. PICK u \in Members(InputSync[Host]) :
          ~(pc[u] \in {"atin", "atout"} /\ BarrierOf(u) = InputSync[Host])
    BY <1>0, <1>3, <1>4
  <2>3. u \in Threads /\ InputSync[u] = InputSync[Host]
    BY HostsOwn DEF Members
  <2> QED
    BY <1>0, <1>6, <2>1, <2>2, <2>3 DEF BarrierOf
<1>7. CASE pc[Host] = "atout"
  <2>0. Ins(Host) = n + 1
    BY <1>7 DEF Ins, InRound
  <2> DEFINE A == {t \in Workers : Ins(t) = n}
  <2>1. CASE A # {}
    <3>1. PICK t \in A : Feeders(t) \cap A = {}
      BY <2>1, AcyclicAssumption
    <3>2. PICK u \in Members(InputSync[t]) :
            ~(pc[u] \in {"atin", "atout"} /\ BarrierOf(u) = InputSync[t])
      BY <1>0, <1>3, <1>4
    <3>3. u \in Threads /\ t \in Threads /\ t \in Members(InputSync[t])
      BY <1>0, SyncTypes DEF Members
    <3>4. Passes(u, InputSync[t]) = n
      <4>1. Passes(t, InputSync[t]) = n
        BY DEF Passes
      <4> QED
        BY <1>4, <1>5, <3>2, <3>3, <4>1
    <3>5. CASE InputSync[u] = InputSync[t]
      <4>1. Ins(u) = n
        BY <3>4, <3>5 DEF Passes
      <4>2. u \in Workers
        BY <1>0, <2>0, <3>3, <4>1
      <4>3. pc[u] = "atin"
        BY <1>0, <1>1, <1>2, <4>1, <4>2
      <4> QED
        BY <3>2, <3>5, <4>3 DEF BarrierOf
    <3>6. CASE InputSync[u] # InputSync[t]
      <4>1. OutputSync[u] = InputSync[t] /\ outs[u] = n
        BY <3>2, <3>4, <3>6 DEF Members, Passes
      <4>2. u \in Feeders(t)
        BY <3>3, <4>1, MeetsFeeder
      <4>3. u \in Workers /\ u \notin A
        BY <3>1, <4>2, FeederMeets
      <4>4. Ins(u) = n + 1
        BY <1>2, <4>3
      <4>5. pc[u] = "atout"
        BY <1>0, <1>1, <1>2, <4>1, <4>3, <4>4
      <4> QED
        BY <3>2, <4>1, <4>5 DEF BarrierOf
    <3> QED
      BY <3>5, <3>6
  <2>2. CASE A = {}
    <3>1. PICK u \in Members(OutputSync[Host]) :
            ~(pc[u] \in {"atin", "atout"} /\ BarrierOf(u) = OutputSync[Host])
      BY <1>0, <1>3, <1>4
    <3>2. u \in Threads /\ OutputSync[u] = OutputSync[Host]
      BY HostsOwn DEF Members
    <3>3. u \in Workers
      BY <1>0, <1>7, <3>1, <3>2 DEF BarrierOf
    <3>4. outs[u] = n
      <4>1. Passes(u, OutputSync[Host]) = Passes(Host, OutputSync[Host])
        BY <1>0, <1>4, <1>5, <3>1, <3>2, SyncTypes
      <4> QED
        BY <1>0, <3>2, <4>1, HostsOwn DEF Passes
    <3>5. Ins(u) = n + 1
      BY <1>2, <2>2, <3>3
    <3>6. pc[u] = "atout"
      BY <1>0, <1>1, <1>2, <3>3, <3>4, <3>5
    <3> QED
      BY <3>1, <3>2, <3>6 DEF BarrierOf
  <2> QED
    BY <2>1, <2>2
<1> QED
  BY <1>6, <1>7

\* Inside a call somebody can make a step, unless a worker left too early: no set of
\* threads of a finite acyclic graph can be left waiting for each other, in Run or
\* in the destructor (Framework.cpp:107-140, 850-872).
THEOREM SomebodyMayMove ==
  Spec => [](InCall => MissedRound \/ \E t \in Threads : May(t))
<1>1. ASSUME IInv, LeaveInv, InCall, ~MissedRound, \A t \in Threads : ~May(t)
      PROVE  FALSE
  <2>0. Host \in Threads /\ ~May(Host) /\ Workers \subseteq Threads /\ Host \notin Workers
    BY <1>1, GraphAssumption DEF Threads
  <2>1. \A t \in Workers : pc[t] \in {"parked", "atin", "atout", "exited"}
    BY <1>1, <2>0 DEF IInv, TypeOK, WorkerPlaces, May
  <2>2. pc[Host] \in {"starting", "atin", "atout", "sleeping", "joining"}
    BY <1>1, <2>0 DEF IInv, TypeOK, HostPlaces, May, InCall
  <2>3. CASE pc[Host] = "starting"
    <3>1. {t \in Workers : pc[t] # "start"} = Workers
      BY <2>1
    <3> QED
      BY <1>1, <2>0, <2>3, <3>1 DEF IInv, GateInv, May
  <2>4. CASE pc[Host] = "sleeping"
    BY <2>0, <2>1, <2>4 DEF May
  <2>5. CASE pc[Host] = "joining"
    <3>1. PICK t \in Workers : pc[t] # "exited"
      BY <2>0, <2>5 DEF May
    <3>2. ~execute /\ (runs > 0 => outs[Host] = runs + 1) /\ runs \in Nat
      BY <1>1, <2>5 DEF IInv, TypeOK, HostInv
    <3>3. outs[t] = outs[Host]
      BY <1>1, <2>5, AllAtRest DEF IInv, InRound
    <3>4. pc[t] \in {"start", "parked", "loop", "exited"}
      BY <1>1, <3>2, <3>3 DEF LeaveInv
    <3>5. pc[t] \notin {"start", "parked"}
      BY <1>1, <2>5 DEF IInv, GateInv, Unstarted
    <3> QED
      BY <2>1, <3>1, <3>4, <3>5
  <2>6. CASE pc[Host] \in {"atin", "atout"}
    BY <1>1, <2>6, NobodyAsleepForEver
  <2> QED
    BY <2>2, <2>3, <2>4, <2>5, <2>6
<1>2. IInv /\ LeaveInv => (InCall => MissedRound \/ \E t \in Threads : May(t))
  BY <1>1
<1> QED
  BY LeaveInvariance, <1>2, PTL

\* A worker that left too early is missed for ever: the destructor never comes to its
\* loop of thread.join(), let alone to its end. This is what the sleep of one
\* millisecond is to prevent (Framework.cpp:117), and what it does not when it is too
\* short.
THEOREM LeavingEarlyIsFatal ==
  Spec => [](MissedRound => [](pc[Host] \notin {"joining", "closed"}))
<1>0. Host \in Threads /\ Host \notin Workers /\ Workers \subseteq Threads
  BY GraphAssumption DEF Threads
<1>1. ASSUME IInv, MissedRound
      PROVE  pc[Host] \notin {"joining", "closed"}
  <2>1. PICK t \in Workers : pc[t] = "exited" /\ runs > 0 /\ outs[t] <= runs
    BY <1>1 DEF MissedRound
  <2>2. ASSUME pc[Host] \in {"joining", "closed"} PROVE FALSE
    <3>1. outs[t] = runs + 1 /\ runs \in Nat
      BY <1>1, <2>1, <2>2, AllAtRest DEF IInv, TypeOK, HostInv, InRound
    <3> QED
      BY <2>1, <3>1
  <2> QED
    BY <2>2
<1>2. ASSUME IInv, MissedRound, [Next]_vars
      PROVE  MissedRound'
  <2>1. PICK t \in Workers : pc[t] = "exited" /\ runs > 0 /\ outs[t] <= runs
    BY <1>2 DEF MissedRound
  <2>2. ~execute /\ pc[Host] # "idle"
    BY <1>2, <2>1 DEF IInv, WorkInv, HostInv
  <2>3. ASSUME NEW u \in Threads, Arrival(u)
        PROVE  pc'[t] = "exited" /\ outs'[t] = outs[t] /\ runs' = runs
    <3>1. CASE EarlyArrival(u)
      BY <1>0, <1>2, <2>1, <3>1 DEF IInv, TypeOK, EarlyArrival
    <3>2. CASE LastArrival(u)
      <4>1. t \notin Waiting(BarrierOf(u)) \cup {u}
        BY <2>1, <3>2 DEF LastArrival, Waiting
      <4> QED
        BY <1>0, <2>1, <3>2, <4>1 DEF LastArrival
    <3> QED
      BY <2>3, <3>1, <3>2 DEF Arrival
  <2>4. ASSUME NEW u \in Workers, WorkerStep(u)
        PROVE  pc'[t] = "exited" /\ outs'[t] = outs[t] /\ runs' = runs
    <3>1. t # u
      BY <2>1, <2>4 DEF WorkerStep, Park, TestLoop, TestAgain, FinishWork
    <3> QED
      BY <1>0, <1>2, <2>1, <2>4, <3>1
         DEF IInv, TypeOK, WorkerStep, Park, TestLoop, TestAgain, FinishWork
  <2>5. CASE Start \/ Return \/ SignalExit \/ Join \/ Closed \/ UNCHANGED vars
    <3>1. pc'[t] = "exited" /\ outs'[t] = outs[t] /\ runs' = runs
      BY <1>0, <1>2, <2>1, <2>5 DEF IInv, TypeOK, Start, Return, SignalExit, Join, Closed, vars
    <3> QED
      BY <2>1, <3>1 DEF MissedRound
  <2>6. ~Run /\ ~Destroy
    BY <2>2 DEF Run, Destroy
  <2> QED
    BY <1>0, <1>2, <2>1, <2>3, <2>4, <2>5, <2>6 DEF Next, HostStep, MissedRound
<1> QED
  BY Invariance, <1>1, <1>2, PTL DEF Spec

\* A step of another thread.
LEMMA OthersLeaveMay ==
  ASSUME IInv, NEW t \in Threads, May(t), NEW s \in Threads, s # t,
         (s \in Workers /\ WorkerStep(s)) \/ Arrival(s)
  PROVE  May(t)'
<1>0. Host \in Threads /\ Host \notin Workers /\ Workers \subseteq Threads
  BY GraphAssumption DEF Threads
<1>1. pc'[t] = pc[t]
  <2>1. CASE s \in Workers /\ WorkerStep(s)
    BY <2>1 DEF IInv, TypeOK, WorkerStep, Park, TestLoop, TestAgain, FinishWork
  <2>2. CASE EarlyArrival(s)
    BY <2>2 DEF IInv, TypeOK, EarlyArrival
  <2>3. CASE LastArrival(s)
    <3>1. pc[t] \notin {"atin", "atout"}
      BY DEF May
    <3> QED
      BY <2>3, <3>1 DEF LastArrival, Waiting
  <2> QED
    BY <2>1, <2>2, <2>3 DEF Arrival
<1>2. CASE t # Host
  BY <1>1, <1>2 DEF May
<1>3. CASE t = Host /\ pc[t] \in {"syncin", "syncout", "returning"}
  BY <1>1, <1>3 DEF May
<1>4. CASE t = Host /\ pc[t] = "starting"
  <2>1. numWait = Cardinality(Workers)
    BY <1>4 DEF May
  <2>2. ASSUME s \in Workers, Park(s) PROVE FALSE
    <3>1. {u \in Workers : pc[u] # "start"} = Workers
      BY <2>1, FiniteGraph, FS_Subset DEF IInv, GateInv
    <3> QED
      BY <2>2, <3>1 DEF Park
  <2>3. numWait' = numWait
    BY <2>2 DEF WorkerStep, TestLoop, TestAgain, FinishWork, Arrival, EarlyArrival, LastArrival
  <2> QED
    BY <1>1, <1>4, <2>1, <2>3 DEF May
<1>5. CASE t = Host /\ pc[t] = "sleeping"
  <2>1. SUFFICES ASSUME SleepSettles, NEW u \in Workers, pc'[u] = "loop"
                 PROVE  FALSE
    BY <1>1, <1>5 DEF May
  <2>2. pc[u] # "loop" /\ ~InRound(u)
    BY <1>5, <2>1, AllAtRest DEF IInv, May, InRound
  <2>3. CASE s \in Workers /\ WorkerStep(s)
    BY <1>0, <2>1, <2>2, <2>3 DEF IInv, TypeOK, WorkerStep, Park, TestLoop, TestAgain, FinishWork
  <2>4. CASE EarlyArrival(s)
    BY <1>0, <2>1, <2>2, <2>4 DEF IInv, TypeOK, EarlyArrival
  <2>5. CASE LastArrival(s)
    <3>1. pc'[u] = pc[u] \/ (pc'[u] = After(u) /\ pc[u] \in {"syncin", "atin", "syncout", "atout"})
      BY <1>0, <2>5 DEF LastArrival, Waiting
    <3> QED
      BY <1>0, <2>1, <2>2, <3>1 DEF After, InRound, LastArrival
  <2> QED
    BY <2>3, <2>4, <2>5 DEF Arrival
<1>6. CASE t = Host /\ pc[t] = "joining"
  <2>1. s \in Workers /\ \A u \in Workers : pc[u] = "exited"
    BY <1>6 DEF May, Threads
  <2> QED
    BY <2>1 DEF WorkerStep, Park, TestLoop, TestAgain, FinishWork, Arrival,
       EarlyArrival, LastArrival
<1> QED
  BY <1>2, <1>3, <1>4, <1>5, <1>6 DEF May

\* Who can make a step can until he has made it: weak fairness is enough, as no thread
\* takes from another what it needs to go on.
THEOREM MayLasts ==
  Spec => [][\A t \in Threads : May(t) => May(t)' \/ StepOf(t)]_vars
<1>0. Host \in Threads /\ Host \notin Workers /\ Threads = Workers \cup {Host}
  BY GraphAssumption DEF Threads
<1>1. ASSUME IInv, Next, NEW t \in Threads, May(t), ~StepOf(t)
      PROVE  May(t)' \/ UNCHANGED vars
  <2>1. ASSUME NEW s \in Workers, WorkerStep(s) \/ Arrival(s)
        PROVE  May(t)'
    <3>1. s # t
      BY <1>0, <1>1, <2>1 DEF StepOf
    <3> QED
      BY <1>0, <1>1, <2>1, <3>1, OthersLeaveMay
  <2>2. CASE Arrival(Host)
    <3>1. Host # t
      BY <1>1, <2>2 DEF StepOf, HostStep
    <3> QED
      BY <1>0, <1>1, <2>2, <3>1, OthersLeaveMay
  <2>3. CASE Start \/ Return \/ SignalExit \/ Join
    <3>1. t # Host
      BY <1>1, <2>3 DEF StepOf, HostStep
    <3> QED
      BY <1>1, <2>3, <3>1 DEF IInv, TypeOK, May, Start, Return, SignalExit, Join
  <2>4. CASE Run \/ Destroy
    <3>1. t # Host
      BY <1>1, <2>4 DEF May, Run, Destroy
    <3> QED
      BY <1>1, <2>4, <3>1 DEF IInv, TypeOK, May, Run, Destroy
  <2> QED
    BY <1>1, <2>1, <2>2, <2>3, <2>4 DEF Next, HostStep, Closed
<1>2. IInv /\ [Next]_vars => [\A t \in Threads : May(t) => May(t)' \/ StepOf(t)]_vars
  BY <1>1
<1> QED
  BY Invariance, <1>2, PTL DEF Spec

\* How far t is: its rounds, and where it stands in the one it is in. "returning" is
\* where the host begins the next one.
HostSpot(p) ==
  CASE p = "returning" -> 0
    [] p = "idle" -> 1
    [] p \in {"starting", "sleeping"} -> 2
    [] p \in {"syncin", "joining"} -> 3
    [] p \in {"atin", "closed"} -> 4
    [] p = "syncout" -> 5
    [] p = "atout" -> 6

WorkerSpot(p) ==
  CASE p = "start" -> 0
    [] p = "parked" -> 1
    [] p = "loop" -> 2
    [] p \in {"syncin", "exited"} -> 3
    [] p = "atin" -> 4
    [] p = "check" -> 5
    [] p = "busy" -> 6
    [] p = "syncout" -> 7
    [] p = "atout" -> 8

Spot(t) == IF t = Host THEN HostSpot(pc[t]) ELSE WorkerSpot(pc[t])
Stage(t) == 8 * outs[t] + Spot(t)

\* The stages that are left to each thread before another call of Run, and how many
\* there are.
Left == {p \in Threads \X (0 .. 8 * (runs + 2)) : Stage(p[1]) < p[2]}
StepsLeft == Cardinality(Left)

LEMMA StageType ==
  ASSUME TypeOK, NEW t \in Threads
  PROVE  Spot(t) \in 0 .. 8 /\ Stage(t) \in Nat /\ outs[t] \in Nat
<1>1. outs[t] \in Nat
  BY DEF TypeOK
<1>2. CASE t = Host
  <2>1. Spot(t) \in 0 .. 8
    BY <1>2 DEF TypeOK, HostPlaces, Spot, HostSpot
  <2> QED
    BY <1>1, <2>1 DEF Stage
<1>3. CASE t # Host
  <2>1. Spot(t) \in 0 .. 8
    BY <1>3 DEF TypeOK, WorkerPlaces, Spot, WorkerSpot, Threads
  <2> QED
    BY <1>1, <2>1 DEF Stage
<1> QED
  BY <1>2, <1>3

\* Nobody makes more rounds than there were runs, and the destructor's.
LEMMA RoundsAreBounded ==
  ASSUME IInv, NEW t \in Threads
  PROVE  outs[t] <= runs + 1 /\ Stage(t) <= 8 * (runs + 2)
<1>0. runs \in Nat /\ outs[Host] \in Nat /\ Host \in Threads
  BY DEF IInv, TypeOK, Threads
<1>1. CASE pc[Host] \in {"idle", "starting", "sleeping", "returning", "joining", "closed"}
  <2>1. outs[Host] <= runs + 1
    <3>1. CASE pc[Host] = "starting"
      BY <1>0, <3>1 DEF IInv, GateInv, Unstarted
    <3>2. CASE pc[Host] # "starting"
      BY <1>0, <1>1, <3>2 DEF IInv, HostInv, TypeOK
    <3> QED
      BY <3>1, <3>2
  <2>2. t # Host => outs[t] = outs[Host]
    BY <1>1, AllAtRest DEF IInv, InRound, Threads
  <2> QED
    BY <1>0, <2>1, <2>2, StageType DEF IInv, Stage
<1>2. CASE pc[Host] \in {"syncin", "atin", "syncout", "atout"}
  <2>1. outs[Host] <= runs
    BY <1>0, <1>2 DEF IInv, HostInv, TypeOK
  <2>2. outs[t] <= outs[Host] + 1
    <3>1. CASE t = Host
      BY <1>0, <3>1
    <3>2. CASE t # Host
      <4>1. t \in Workers
        BY <3>2 DEF Threads
      <4> QED
        BY <1>0, <4>1, Sandwich DEF IInv
    <3> QED
      BY <3>1, <3>2
  <2> QED
    BY <1>0, <2>1, <2>2, StageType DEF IInv, Stage
<1> QED
  BY <1>1, <1>2 DEF IInv, TypeOK, HostPlaces

LEMMA StagesAreBounded ==
  IInv => \A t \in Threads : /\ Stage(t) \in Nat /\ Stage(t) <= 8 * (runs + 2)
                             /\ Spot(t) \in 0 .. 8 /\ outs[t] \in Nat
BY StageType, RoundsAreBounded DEF IInv

LEMMA StagesStayBounded ==
  (IInv => \A t \in Threads : /\ Stage(t) \in Nat /\ Stage(t) <= 8 * (runs + 2)
                              /\ Spot(t) \in 0 .. 8 /\ outs[t] \in Nat)'
BY StagesAreBounded, PTL

\* t goes on to another place of the same round, the others stay where they are.
LEMMA OneGoesOn ==
  ASSUME IInv, IInv', NEW t \in Threads, outs' = outs,
         \A u \in Threads \ {t} : pc'[u] = pc[u], Spot(t) < Spot(t)'
  PROVE  (\A u \in Threads : Stage(u) <= Stage(u)') /\ Stage(t) < Stage(t)'
<1>1. ASSUME NEW u \in Threads \ {t} PROVE Stage(u)' = Stage(u)
  <2>1. Spot(u)' = Spot(u)
    BY DEF Spot
  <2> QED
    BY <2>1 DEF Stage
<1>2. Stage(t) < Stage(t)'
  <2>1. Spot(t) \in 0 .. 8 /\ Spot(t)' \in 0 .. 8 /\ outs[t] \in Nat
    BY StagesAreBounded, StagesStayBounded
  <2> QED
    BY <2>1 DEF Stage
<1>3. \A u \in Threads : Stage(u) \in Nat /\ Stage(u)' \in Nat
  BY StagesAreBounded, StagesStayBounded
<1> QED
  BY <1>1, <1>2, <1>3

\* What a step of a worker's own, or of the host's, moves forward.
LEMMA WorkersGoOn ==
  ASSUME IInv, IInv', NEW t \in Workers, WorkerStep(t)
  PROVE  (\A u \in Threads : Stage(u) <= Stage(u)') /\ Stage(t) < Stage(t)'
<1>0. t \in Threads /\ t # Host
  BY GraphAssumption DEF Threads
<1>1. outs' = outs /\ \A u \in Threads \ {t} : pc'[u] = pc[u]
  BY DEF IInv, TypeOK, WorkerStep, Park, TestLoop, TestAgain, FinishWork
<1>2. Spot(t) < Spot(t)'
  <2>1. \/ pc[t] = "start" /\ pc'[t] = "parked"
        \/ pc[t] = "loop" /\ pc'[t] \in {"syncin", "exited"}
        \/ pc[t] = "check" /\ pc'[t] \in {"busy", "syncout"}
        \/ pc[t] = "busy" /\ pc'[t] = "syncout"
    BY <1>0 DEF IInv, TypeOK, WorkerStep, Park, TestLoop, TestAgain, FinishWork
  <2> QED
    BY <1>0, <2>1 DEF Spot, WorkerSpot
<1> QED
  BY <1>0, <1>1, <1>2, OneGoesOn

LEMMA HostGoesOn ==
  ASSUME IInv, IInv', Return \/ Destroy \/ SignalExit \/ Join
  PROVE  (\A u \in Threads : Stage(u) <= Stage(u)') /\ Stage(Host) < Stage(Host)'
<1>0. Host \in Threads
  BY DEF Threads
<1>1. outs' = outs /\ \A u \in Threads \ {Host} : pc'[u] = pc[u]
  BY DEF IInv, TypeOK, Return, Destroy, SignalExit, Join
<1>2. Spot(Host) < Spot(Host)'
  <2>1. \/ pc[Host] = "returning" /\ pc'[Host] \in {"idle", "joining"}
        \/ pc[Host] = "idle" /\ pc'[Host] \in {"starting", "sleeping"}
        \/ pc[Host] = "sleeping" /\ pc'[Host] = "syncin"
        \/ pc[Host] = "joining" /\ pc'[Host] = "closed"
    BY <1>0 DEF IInv, TypeOK, Return, Destroy, SignalExit, Join
  <2> QED
    BY <2>1 DEF Spot, HostSpot
<1> QED
  BY <1>0, <1>1, <1>2, OneGoesOn

LEMMA GateLetsGoOn ==
  ASSUME IInv, IInv', Start
  PROVE  (\A u \in Threads : Stage(u) <= Stage(u)') /\ Stage(Host) < Stage(Host)'
<1>0. Host \in Threads /\ outs' = outs
  BY DEF Threads, Start
<1>1. Spot(Host) < Spot(Host)'
  BY <1>0 DEF Start, Spot, HostSpot
<1>2. ASSUME NEW u \in Threads, u # Host PROVE Spot(u) <= Spot(u)'
  <2>1. pc'[u] = pc[u] \/ (pc[u] = "parked" /\ pc'[u] = "loop")
    BY <1>2 DEF Start
  <2>2. CASE pc'[u] = pc[u]
    <3>1. Spot(u)' = Spot(u)
      BY <2>2 DEF Spot
    <3> QED
      BY <3>1, StagesAreBounded, StagesStayBounded
  <2>3. CASE pc[u] = "parked" /\ pc'[u] = "loop"
    BY <1>2, <2>3 DEF Spot, WorkerSpot
  <2> QED
    BY <2>1, <2>2, <2>3
<1>3. \A u \in Threads : outs[u] \in Nat /\ Spot(u) \in 0 .. 8 /\ Spot(u)' \in 0 .. 8
  BY StagesAreBounded, StagesStayBounded
<1> QED
  BY <1>0, <1>1, <1>2, <1>3 DEF Stage

LEMMA ArrivalsGoOn ==
  ASSUME IInv, IInv', NEW t \in Threads, Arrival(t)
  PROVE  (\A u \in Threads : Stage(u) <= Stage(u)') /\ Stage(t) < Stage(t)'
<1>1. CASE EarlyArrival(t)
  <2>1. outs' = outs /\ \A u \in Threads \ {t} : pc'[u] = pc[u]
    BY <1>1 DEF IInv, TypeOK, EarlyArrival
  <2>2. \/ pc[t] = "syncin" /\ pc'[t] = "atin"
        \/ pc[t] = "syncout" /\ pc'[t] = "atout"
    BY <1>1 DEF IInv, TypeOK, EarlyArrival
  <2>3. Spot(t) < Spot(t)'
    BY <2>2 DEF Spot, HostSpot, WorkerSpot
  <2> QED
    BY <2>1, <2>3, OneGoesOn
<1>2. CASE LastArrival(t)
  <2> DEFINE released == Waiting(BarrierOf(t)) \cup {t}
  <2>1. ASSUME NEW u \in Threads, u \in released
        PROVE  Stage(u) < Stage(u)'
    <3>1. pc[u] \in {"syncin", "atin", "syncout", "atout"} /\ pc'[u] = After(u)
      BY <1>2, <2>1 DEF LastArrival, Waiting
    <3>2. outs'[u] = IF ClosesRound(u) THEN outs[u] + 1 ELSE outs[u]
      BY <1>2, <2>1 DEF LastArrival
    <3>3. outs[u] \in Nat
      BY StagesAreBounded, StagesStayBounded
    <3>4. CASE ClosesRound(u)
      <4>1. pc'[u] = IF u = Host THEN "returning" ELSE "loop"
        BY <3>1, <3>4 DEF After, ClosesRound
      <4>2. Spot(u) \in IF u = Host THEN {5, 6} ELSE {7, 8}
        BY <3>4 DEF Spot, HostSpot, WorkerSpot, ClosesRound
      <4>3. Spot(u)' = IF u = Host THEN 0 ELSE 2
        BY <4>1 DEF Spot, HostSpot, WorkerSpot
      <4> QED
        BY <3>2, <3>3, <3>4, <4>2, <4>3 DEF Stage
    <3>5. CASE ~ClosesRound(u)
      <4>1. pc[u] \in {"syncin", "atin"} /\ pc'[u] = IF u = Host THEN "syncout" ELSE "check"
        BY <3>1, <3>5 DEF After, ClosesRound
      <4>2. Spot(u) \in {3, 4} /\ Spot(u)' = 5
        BY <4>1 DEF Spot, HostSpot, WorkerSpot
      <4> QED
        BY <3>2, <3>3, <3>5, <4>2 DEF Stage
    <3> QED
      BY <3>4, <3>5
  <2>2. ASSUME NEW u \in Threads, u \notin released
        PROVE  Stage(u)' = Stage(u)
    <3>1. pc'[u] = pc[u] /\ outs'[u] = outs[u]
      BY <1>2, <2>2 DEF LastArrival
    <3> QED
      BY <3>1 DEF Stage, Spot
  <2>3. \A u \in Threads : Stage(u) \in Nat /\ Stage(u)' \in Nat
    BY StagesAreBounded, StagesStayBounded
  <2> HIDE DEF released
  <2>4. t \in released
    BY DEF released
  <2> QED
    BY <2>1, <2>2, <2>3, <2>4
<1> QED
  BY <1>1, <1>2 DEF Arrival

\* Every step but a call of Run uses up some of what is left: Run returns, and so does
\* the destructor, after a number of steps that is known when they are called, however
\* the system schedules the threads.
THEOREM EveryStepCounts == Spec => [][runs' = runs => StepsLeft' < StepsLeft]_vars
<1>1. ASSUME IInv, IInv', Next, runs' = runs, ~UNCHANGED vars
      PROVE  StepsLeft' < StepsLeft
  <2>1. PICK t \in Threads : (\A u \in Threads : Stage(u) <= Stage(u)') /\ Stage(t) < Stage(t)'
    <3>1. Host \in Threads /\ Workers \subseteq Threads
      BY DEF Threads
    <3>2. ~Run /\ ~Closed
      BY <1>1 DEF Run, Closed, IInv, TypeOK
    <3> QED
      BY <1>1, <3>1, <3>2, WorkersGoOn, HostGoesOn, GateLetsGoOn, ArrivalsGoOn
         DEF Next, HostStep
  <2> DEFINE bound == 8 * (runs + 2)
             point == <<t, Stage(t)'>>
  <2>2. \A u \in Threads : Stage(u) \in Nat /\ Stage(u)' \in Nat /\ Stage(u)' <= bound
    BY <1>1, StagesAreBounded, StagesStayBounded
  <2>3. bound \in Nat
    BY <1>1 DEF IInv, TypeOK
  <2>4. Left' \subseteq Left /\ point \in Left /\ point \notin Left'
    BY <1>1, <2>1, <2>2, <2>3 DEF Left
  <2>5. IsFiniteSet(Left)
    <3>1. IsFiniteSet(0 .. bound)
      BY <2>3, FS_Interval
    <3>2. IsFiniteSet(Threads \X (0 .. bound))
      BY <3>1, FiniteGraph, FS_Product
    <3> QED
      BY <3>2, FS_Subset DEF Left
  <2>6. /\ IsFiniteSet(Left') /\ Cardinality(Left') <= Cardinality(Left)
        /\ Cardinality(Left') = Cardinality(Left) => Left' = Left
    BY <2>4, <2>5, FS_Subset
  <2>7. Cardinality(Left) \in Nat /\ Cardinality(Left') \in Nat
    BY <2>5, <2>6, FS_CardinalityType
  <2> QED
    BY <2>4, <2>6, <2>7 DEF StepsLeft
<1>2. IInv /\ IInv' /\ [Next]_vars => [runs' = runs => StepsLeft' < StepsLeft]_vars
  BY <1>1
<1> QED
  BY Invariance, <1>2, PTL DEF Spec

------------------------------------------------------------------------------
(* FlowData: the steps of the threads, with the data they move. *)

LEMMA DataStep ==
  ASSUME [DataNext]_allVars
  PROVE  [Next]_vars
<1>1. ASSUME NEW o \in Ops, Process(o) PROVE Next
  BY <1>1 DEF Process, Next, WorkerStep, Workers
<1>2. ASSUME NEW e \in Edges, TransferMemory(e) PROVE Next
  BY <1>2 DEF TransferMemory, Next, WorkerStep, Workers
<1>3. CASE DataRun
  BY <1>3 DEF DataRun, Next
<1>4. ASSUME NEW e \in Edges, NEW i \in Intervals, SetOperationArgMemoryCopyInterval(e, i)
      PROVE  UNCHANGED vars
  BY <1>4 DEF SetOperationArgMemoryCopyInterval
<1>5. CASE Control
  BY <1>5 DEF Control, Next, WorkerStep
<1>6. CASE UNCHANGED allVars
  BY <1>6 DEF allVars
<1> QED
  BY <1>1, <1>2, <1>3, <1>4, <1>5, <1>6 DEF DataNext

\* What FlowRun keeps, FlowData keeps.
LEMMA DataInvariance == DataSpec => []IInv
<1>1. DataInit => IInv
  BY InitIInv DEF DataInit
<1>2. IInv /\ [DataNext]_allVars => IInv'
  BY DataStep, AnyStep
<1> QED
  BY <1>1, <1>2, PTL DEF DataSpec

\* Within a Run a worker has done its work of the Run before, and perhaps its work
\* of this one.
LEMMA WorkInRun ==
  ASSUME IInv, InRun, NEW t \in Workers
  PROVE  /\ runs \in Nat /\ runs > 0
         /\ work[t] = runs - 1 \/ work[t] = runs
         /\ pc[t] = "busy" => work[t] = runs - 1
         /\ pc[t] = "busy" \/ work[t] = runs => Ins(t) = runs
         /\ outs[t] = runs => work[t] = runs /\ pc[t] # "busy"
<1>0. /\ Host \in Threads /\ t \in Threads /\ runs \in Nat
      /\ outs[t] \in Nat /\ outs[Host] \in Nat /\ work[t] \in Nat
  BY DEF Threads, IInv, TypeOK
<1>1. execute /\ pc[Host] \in {"starting", "syncin", "atin", "syncout", "atout", "returning"}
  BY DEF InRun, IInv, HostInv, TypeOK, HostPlaces
<1>2. work[t] = outs[t] + (IF ClosesRound(t) THEN 1 ELSE 0)
  BY <1>1 DEF IInv, WorkInv
<1>3. Ins(t) = outs[t] + (IF InRound(t) THEN 1 ELSE 0)
  BY DEF Ins
<1>4. ClosesRound(t) => InRound(t)
  BY DEF ClosesRound, InRound
<1>5. pc[t] = "busy" => InRound(t) /\ ~ClosesRound(t)
  BY DEF ClosesRound, InRound
<1>6. runs > 0 /\ outs[t] >= runs - 1 /\ Ins(t) <= runs
  <2>1. CASE pc[Host] = "starting"
    <3>1. runs = 1 /\ outs[t] = 0 /\ outs[Host] = 0
      BY <1>0, <1>1, <2>1 DEF IInv, HostInv, GateInv, Unstarted
    <3>2. ~InRound(Host)
      BY <2>1 DEF InRound
    <3>3. ~InRound(t)
      BY <3>2, AllAtRest DEF IInv
    <3> QED
      BY <1>3, <3>1, <3>3
  <2>2. CASE pc[Host] = "returning"
    <3>1. runs > 0 /\ outs[Host] = runs
      BY <1>1, <2>2 DEF IInv, HostInv
    <3>2. ~InRound(Host)
      BY <2>2 DEF InRound
    <3>3. outs[t] = outs[Host] /\ ~InRound(t)
      BY <3>2, AllAtRest DEF IInv
    <3> QED
      BY <1>0, <1>3, <3>1, <3>3
  <2>3. CASE pc[Host] \in {"syncin", "atin", "syncout", "atout"}
    <3>1. runs > 0 /\ outs[Host] + 1 = runs
      BY <1>1, <2>3 DEF IInv, HostInv
    <3> QED
      BY <1>0, <3>1, Sandwich DEF IInv
  <2> QED
    BY <1>1, <2>1, <2>2, <2>3
<1>7. CASE InRound(t)
  <2>1. Ins(t) = outs[t] + 1
    BY <1>3, <1>7
  <2>2. outs[t] = runs - 1 /\ Ins(t) = runs
    BY <1>0, <1>6, <2>1
  <2>3. CASE ClosesRound(t)
    BY <1>0, <1>2, <1>5, <1>6, <2>2, <2>3
  <2>4. CASE ~ClosesRound(t)
    BY <1>0, <1>2, <1>6, <2>2, <2>4
  <2> QED
    BY <2>3, <2>4
<1>8. CASE ~InRound(t)
  <2>1. Ins(t) = outs[t] + 0 /\ work[t] = outs[t] + 0 /\ pc[t] # "busy"
    BY <1>2, <1>3, <1>4, <1>5, <1>8
  <2> QED
    BY <1>0, <1>6, <2>1
<1> QED
  BY <1>7, <1>8

\* A worker is busy only within a Run.
LEMMA BusyInRun ==
  ASSUME IInv, NEW t \in Workers, pc[t] = "busy"
  PROVE  InRun
<1>1. execute
  BY DEF IInv, WorkInv
<1>2. InRound(t)
  BY DEF InRound
<1>3. InRound(Host)
  BY <1>2, AllAtRest DEF IInv
<1> QED
  BY <1>1, <1>3 DEF InRun, InRound

\* When a worker is at its work, or past it, everything on a way to it is past its.
LEMMA InOrder ==
  ASSUME IInv, InRun, NEW t \in Workers, NEW u \in Workers, Before(t, u),
         pc[u] = "busy" \/ work[u] = runs
  PROVE  work[t] = runs /\ pc[t] # "busy"
<1> DEFINE Done == {v \in Workers : work[v] = runs}
<1>1. ASSUME NEW v \in Workers, pc[v] = "busy" \/ work[v] = runs, NEW w \in Feeders(v)
      PROVE  w \in Done
  <2>1. w \in Workers /\ outs[w] = Ins(v)
    BY FeederPhase DEF IInv
  <2>2. Ins(v) = runs
    BY <1>1, WorkInRun
  <2> QED
    BY <2>1, <2>2, WorkInRun
<1>2. \A v \in Done \cup {u} : Feeders(v) \subseteq Done
  BY <1>1
<1>3. t \in Done \cup {u} /\ t # u
  BY <1>2 DEF Before
<1>4. work[t] = runs
  BY <1>3
<1>5. runs \in Nat /\ (pc[t] = "busy" => work[t] = runs - 1)
  BY WorkInRun
<1> QED
  BY <1>4, <1>5

\* A Run that ends has seen everybody work.
LEMMA AllWorked ==
  ASSUME IInv, RunEnds
  PROVE  InRun /\ \A t \in Workers : work[t] = runs
<1>1. InRun
  BY DEF RunEnds, InRun
<1>2. ASSUME NEW t \in Workers
      PROVE  work[t] = runs
  <2>1. outs[Host] = runs /\ ~InRound(Host)
    BY DEF RunEnds, IInv, HostInv, InRound
  <2>2. outs[t] = runs
    BY <2>1, AllAtRest DEF IInv
  <2> QED
    BY <1>1, <2>2, WorkInRun
<1> QED
  BY <1>1, <1>2

\* On a graph with a way between any two threads that could meet at a buffer, none
\* do, whatever the intervals of the edges are.
THEOREM NoConflicts ==
  ASSUME ConflictsOrdered
  PROVE  DataSpec => []NoConflict
<1>1. ASSUME IInv
      PROVE  NoConflict
  <2> SUFFICES ASSUME NEW t \in Workers, NEW u \in Workers, t # u,
                      pc[t] = "busy", pc[u] = "busy"
               PROVE  Output(t) \cap (Input(u) \cup Output(u)) = {}
    BY DEF NoConflict
  <2>1. ~Before(t, u) /\ ~Before(u, t)
    BY <1>1, BusyInRun, InOrder
  <2>2. MayWrite(t) \cap (MayRead(u) \cup MayWrite(u)) = {}
    BY <2>1 DEF ConflictsOrdered
  <2>3. Output(t) \subseteq MayWrite(t)
    BY DEF Output
  <2>4. Input(u) \subseteq MayRead(u) /\ Output(u) \subseteq MayWrite(u)
    BY DEF Input, Output
  <2> QED
    BY <2>2, <2>3, <2>4
<1> QED
  BY DataInvariance, <1>1, PTL

------------------------------------------------------------------------------
(* The copy intervals. *)

\* Where an edge stands that was last set to setTo[e] before Run setAt[e] + 1.
IntervalOf(e) ==
  /\ setTo[e] = Always => /\ interval[e] = Always
                          /\ copied[e] = work[e] - setAt[e]
  /\ setTo[e] = Once => IF work[e] > setAt[e]
                        THEN interval[e] = Never /\ copied[e] = 1
                        ELSE interval[e] = Once /\ copied[e] = 0
  /\ setTo[e] = Never => interval[e] = Never /\ copied[e] = 0

CopyInv ==
  /\ interval \in [Edges -> Intervals] /\ setTo \in [Edges -> Intervals]
  /\ setAt \in [Edges -> Nat] /\ copied \in [Edges -> Nat]
  /\ \A e \in Edges : /\ setAt[e] <= work[e] /\ setAt[e] <= runs
                      /\ InRun => setAt[e] < runs
                      /\ IntervalOf(e)

\* Only a call of Run begins a Run.
LEMMA OnlyRunBegins ==
  ASSUME TypeOK, [DataNext]_allVars, ~DataRun
  PROVE  runs' = runs /\ (InRun' => InRun)
<1>0. /\ Host \in Threads /\ Workers \subseteq Threads /\ Host \notin Workers
      /\ pc \in [Threads -> WorkerPlaces \cup HostPlaces] /\ pc[Host] \in HostPlaces
      /\ Ops \subseteq Workers /\ Edges \subseteq Workers
  BY GraphAssumption DEF Threads, Workers, TypeOK
<1>1. ASSUME NEW t \in Workers, WorkerStep(t)
      PROVE  runs' = runs /\ (InRun' => InRun)
  BY <1>0, <1>1 DEF WorkerStep, Park, TestLoop, TestAgain, FinishWork, InRun
<1>2. ASSUME NEW t \in Threads, Arrival(t)
      PROVE  runs' = runs /\ (InRun' => InRun)
  <2>1. runs' = runs /\ execute' = execute
    BY <1>2 DEF Arrival, EarlyArrival, LastArrival
  <2>2. pc[Host] \in {"idle", "sleeping"} => pc'[Host] = pc[Host]
    <3>1. CASE EarlyArrival(t)
      BY <1>0, <3>1 DEF EarlyArrival
    <3>2. CASE LastArrival(t)
      BY <1>0, <3>2 DEF LastArrival, Waiting
    <3> QED
      BY <1>2, <3>1, <3>2 DEF Arrival
  <2> QED
    BY <2>1, <2>2 DEF InRun
<1>3. CASE Start \/ Return \/ Join \/ SignalExit \/ Destroy
  BY <1>0, <1>3 DEF Start, Return, Join, SignalExit, Destroy, InRun
<1>4. CASE UNCHANGED vars
  BY <1>4 DEF vars, InRun
<1>5. ASSUME NEW o \in Ops, Process(o) PROVE WorkerStep(o)
  BY <1>5 DEF Process, WorkerStep
<1>6. ASSUME NEW e \in Edges, TransferMemory(e) PROVE WorkerStep(e)
  BY <1>6 DEF TransferMemory, WorkerStep
<1>7. CASE Control
  BY <1>0, <1>1, <1>2, <1>3, <1>4, <1>7 DEF Control, WorkerStep, HostStep, Closed
<1> QED
  BY <1>0, <1>1, <1>4, <1>5, <1>6, <1>7
     DEF DataNext, allVars, SetOperationArgMemoryCopyInterval

\* What TransferMemory makes of the interval, and of the count of copies.
LEMMA CopyStep ==
  ASSUME IInv, CopyInv, NEW e \in Edges, TransferMemory(e)
  PROVE  /\ Copies(e) <=> ToCopy(e)
         /\ setAt[e] <= work'[e] /\ IntervalOf(e)'
<1>0. /\ e \in Workers /\ InRun /\ runs \in Nat /\ work[e] = runs - 1 /\ work[e] \in Nat
      /\ pc[e] = "busy" /\ work'[e] = work[e] + 1
  <2>1. e \in Workers /\ pc[e] = "busy" /\ work' = [work EXCEPT ![e] = @ + 1]
    BY DEF Workers, TransferMemory, FinishWork
  <2> QED
    BY <2>1, BusyInRun, WorkInRun DEF IInv, TypeOK
<1>1. /\ interval[e] \in Intervals /\ setTo[e] \in Intervals
      /\ setAt[e] \in Nat /\ copied[e] \in Nat
      /\ setAt[e] <= work[e] /\ setAt[e] < runs /\ IntervalOf(e)
  BY <1>0 DEF CopyInv
<1>2. setTo' = setTo /\ setAt' = setAt
  BY DEF TransferMemory
<1>3. IF Copies(e) THEN interval'[e] = AfterCopy(interval[e]) /\ copied'[e] = copied[e] + 1
      ELSE interval'[e] = interval[e] /\ copied'[e] = copied[e]
  BY DEF TransferMemory, CopyInv
<1>4. Always # Once /\ Always # Never /\ Once # Never
  BY DEF Always, Once, Never
<1>5. CASE setTo[e] = Always
  <2>1. Copies(e) /\ ToCopy(e) /\ AfterCopy(interval[e]) = Always
    BY <1>1, <1>4, <1>5 DEF IntervalOf, Copies, ToCopy, AfterCopy
  <2>2. copied[e] = work[e] - setAt[e]
    BY <1>1, <1>5 DEF IntervalOf
  <2>3. copied'[e] = work'[e] - setAt[e]
    BY <1>0, <1>1, <1>3, <2>1, <2>2
  <2> QED
    BY <1>0, <1>1, <1>2, <1>3, <1>4, <1>5, <2>1, <2>3 DEF IntervalOf
<1>6. CASE setTo[e] = Once
  <2>1. work'[e] > setAt[e]
    BY <1>0, <1>1
  <2>2. CASE work[e] > setAt[e]
    <3>1. interval[e] = Never /\ copied[e] = 1
      BY <1>1, <1>6, <2>2 DEF IntervalOf
    <3>2. ~Copies(e) /\ ~ToCopy(e)
      BY <1>0, <1>1, <1>4, <1>6, <2>2, <3>1 DEF Copies, ToCopy
    <3> QED
      BY <1>0, <1>1, <1>2, <1>3, <1>4, <1>6, <2>1, <3>1, <3>2 DEF IntervalOf
  <2>3. CASE work[e] = setAt[e]
    <3>1. interval[e] = Once /\ copied[e] = 0
      BY <1>0, <1>1, <1>6, <2>3 DEF IntervalOf
    <3>2. Copies(e) /\ ToCopy(e) /\ AfterCopy(interval[e]) = Never
      BY <1>0, <1>4, <1>6, <2>3, <3>1 DEF Copies, ToCopy, AfterCopy
    <3> QED
      BY <1>0, <1>1, <1>2, <1>3, <1>4, <1>6, <2>1, <3>1, <3>2 DEF IntervalOf
  <2> QED
    BY <1>0, <1>1, <2>2, <2>3
<1>7. CASE setTo[e] = Never
  <2>1. interval[e] = Never /\ copied[e] = 0
    BY <1>1, <1>7 DEF IntervalOf
  <2>2. ~Copies(e) /\ ~ToCopy(e)
    BY <1>4, <1>7, <2>1 DEF Copies, ToCopy
  <2> QED
    BY <1>0, <1>1, <1>2, <1>3, <1>4, <1>7, <2>1, <2>2 DEF IntervalOf
<1> QED
  BY <1>1, <1>5, <1>6, <1>7 DEF Intervals

LEMMA CopyInit == DataInit => CopyInv
<1> SUFFICES ASSUME DataInit PROVE CopyInv
  OBVIOUS
<1>1. runs = 0 /\ (\A e \in Edges : work[e] = 0) /\ ~InRun
  BY GraphAssumption DEF DataInit, Init, InRun, Workers, Threads
<1>2. /\ CreatedWith \in [Edges -> Intervals]
      /\ interval = CreatedWith /\ setTo = CreatedWith
      /\ setAt = [e \in Edges |-> 0] /\ copied = [e \in Edges |-> 0]
  BY DataAssumption DEF DataInit
<1>3. Always # Once /\ Always # Never /\ Once # Never
  BY DEF Always, Once, Never
<1>4. \A e \in Edges : IntervalOf(e)
  BY <1>1, <1>2, <1>3 DEF IntervalOf
<1> QED
  BY <1>1, <1>2, <1>4 DEF CopyInv

\* A step that leaves the intervals and the work of the edges alone.
LEMMA CopyKept ==
  ASSUME TypeOK, CopyInv, UNCHANGED <<interval, setTo, setAt, copied>>,
         \A e \in Edges : work'[e] = work[e],
         (runs' = runs /\ (InRun' => InRun)) \/ runs' = runs + 1
  PROVE  CopyInv'
<1>1. runs \in Nat
  BY DEF TypeOK
<1>2. ASSUME NEW e \in Edges
      PROVE  /\ setAt'[e] <= work'[e] /\ setAt'[e] <= runs'
             /\ InRun' => setAt'[e] < runs'
             /\ IntervalOf(e)'
  <2>1. /\ setAt[e] \in Nat /\ setAt[e] <= work[e] /\ setAt[e] <= runs
        /\ InRun => setAt[e] < runs
        /\ IntervalOf(e)
    BY DEF CopyInv
  <2>2. IntervalOf(e)'
    BY <2>1 DEF IntervalOf
  <2> QED
    BY <1>1, <2>1, <2>2
<1> QED
  BY <1>2 DEF CopyInv

LEMMA CopyNext ==
  ASSUME IInv, CopyInv, [DataNext]_allVars
  PROVE  CopyInv'
<1>0. TypeOK /\ runs \in Nat
  BY DEF IInv, TypeOK
<1>1. ASSUME NEW o \in Ops, Process(o)
      PROVE  CopyInv'
  <2>1. \A e \in Edges : work'[e] = work[e]
    BY <1>0, <1>1, GraphAssumption DEF Process, FinishWork, TypeOK, Workers
  <2>2. runs' = runs /\ (InRun' => InRun)
    <3>1. pc'[Host] = pc[Host]
      BY <1>0, <1>1, GraphAssumption DEF Process, FinishWork, TypeOK, Workers, Threads
    <3> QED
      BY <1>1, <3>1 DEF Process, FinishWork, InRun
  <2> QED
    BY <1>0, <1>1, <2>1, <2>2, CopyKept DEF Process
<1>2. ASSUME NEW e \in Edges, TransferMemory(e)
      PROVE  CopyInv'
  <2>1. /\ setTo' = setTo /\ setAt' = setAt /\ runs' = runs /\ execute' = execute
        /\ pc'[Host] = pc[Host]
    BY <1>0, <1>2, GraphAssumption DEF TransferMemory, FinishWork, TypeOK, Workers, Threads
  <2>2. InRun' <=> InRun
    BY <2>1 DEF InRun
  <2>3. interval' \in [Edges -> Intervals] /\ copied' \in [Edges -> Nat]
    BY <1>2 DEF TransferMemory, CopyInv, AfterCopy, Intervals
  <2>4. setAt[e] <= work'[e] /\ IntervalOf(e)'
    BY <1>2, CopyStep
  <2>5. ASSUME NEW f \in Edges \ {e}
        PROVE  setAt[f] <= work'[f] /\ IntervalOf(f)'
    <3>1. work'[f] = work[f] /\ interval'[f] = interval[f] /\ copied'[f] = copied[f]
      BY <1>0, <1>2 DEF TransferMemory, FinishWork, TypeOK, Workers, CopyInv
    <3>2. setAt[f] <= work[f] /\ IntervalOf(f)
      BY DEF CopyInv
    <3> QED
      BY <2>1, <3>1, <3>2 DEF IntervalOf
  <2> QED
    BY <2>1, <2>2, <2>3, <2>4, <2>5 DEF CopyInv
<1>3. ASSUME NEW e \in Edges, NEW i \in Intervals, SetOperationArgMemoryCopyInterval(e, i)
      PROVE  CopyInv'
  <2>1. /\ pc[Host] = "idle" /\ UNCHANGED vars
        /\ interval' = [interval EXCEPT ![e] = i] /\ setTo' = [setTo EXCEPT ![e] = i]
        /\ setAt' = [setAt EXCEPT ![e] = runs] /\ copied' = [copied EXCEPT ![e] = 0]
    BY <1>3 DEF SetOperationArgMemoryCopyInterval
  <2>2. ~InRun' /\ runs' = runs /\ work' = work
    BY <2>1 DEF InRun, vars
  <2>3. work[e] = runs
    BY <2>1, Complete DEF RunComplete, Workers
  <2>4. /\ interval' \in [Edges -> Intervals] /\ setTo' \in [Edges -> Intervals]
        /\ setAt' \in [Edges -> Nat] /\ copied' \in [Edges -> Nat]
    BY <1>0, <2>1 DEF CopyInv
  <2>5. interval'[e] = i /\ setTo'[e] = i /\ setAt'[e] = runs /\ copied'[e] = 0
    BY <2>1 DEF CopyInv
  <2>6. setAt'[e] <= work'[e] /\ setAt'[e] <= runs' /\ IntervalOf(e)'
    <3>1. Always # Once /\ Always # Never /\ Once # Never
      BY DEF Always, Once, Never
    <3> QED
      BY <1>0, <2>2, <2>3, <2>5, <3>1 DEF IntervalOf
  <2>7. ASSUME NEW f \in Edges \ {e}
        PROVE  setAt'[f] <= work'[f] /\ setAt'[f] <= runs' /\ IntervalOf(f)'
    <3>1. /\ setAt'[f] = setAt[f] /\ interval'[f] = interval[f]
          /\ setTo'[f] = setTo[f] /\ copied'[f] = copied[f]
      BY <2>1 DEF CopyInv
    <3>2. setAt[f] <= work[f] /\ setAt[f] <= runs /\ IntervalOf(f)
      BY DEF CopyInv
    <3> QED
      BY <2>2, <3>1, <3>2 DEF IntervalOf
  <2> QED
    BY <2>2, <2>4, <2>6, <2>7 DEF CopyInv
<1>4. CASE DataRun
  BY <1>0, <1>4, CopyKept DEF DataRun, Run
<1>5. CASE Control \/ UNCHANGED allVars
  <2>1. ~DataRun
    <3>1. runs' = runs
      BY <1>5 DEF Control, Park, TestLoop, TestAgain, Arrival, EarlyArrival, LastArrival,
         HostStep, Start, Return, SignalExit, Join, Destroy, Closed, allVars, vars
    <3> QED
      BY <1>0, <3>1 DEF DataRun, Run
  <2>2. runs' = runs /\ (InRun' => InRun)
    BY <1>0, <2>1, OnlyRunBegins
  <2>3. UNCHANGED <<work, interval, setTo, setAt, copied>>
    BY <1>5 DEF Control, Park, TestLoop, TestAgain, Arrival, EarlyArrival, LastArrival,
       HostStep, Start, Return, SignalExit, Join, Destroy, Closed, allVars, vars, data
  <2> QED
    BY <1>0, <2>2, <2>3, CopyKept
<1> QED
  BY <1>1, <1>2, <1>3, <1>4, <1>5 DEF DataNext

LEMMA CopyInvariance == DataSpec => []CopyInv
BY CopyInit, CopyNext, DataInvariance, PTL DEF DataSpec

\* Whatever intervals the host asks for between its Runs, an edge has copied as often
\* as they say (Edge::TransferMemory).
THEOREM IntervalsAreKept == DataSpec => []IntervalIsKept
<1>1. ASSUME IInv, CopyInv
      PROVE  IntervalIsKept
  <2> SUFFICES ASSUME RunEnds, NEW e \in Edges
      PROVE  copied[e] = CASE setTo[e] = Always -> runs - setAt[e]
                           [] setTo[e] = Once -> 1
                           [] setTo[e] = Never -> 0
    BY DEF IntervalIsKept
  <2>1. work[e] = runs /\ InRun /\ runs \in Nat
    BY <1>1, AllWorked DEF Workers, IInv, TypeOK
  <2>2. /\ setTo[e] \in Intervals /\ setAt[e] \in Nat /\ setAt[e] < runs
        /\ IntervalOf(e)
    BY <1>1, <2>1 DEF CopyInv
  <2>3. Always # Once /\ Always # Never /\ Once # Never
    BY DEF Always, Once, Never
  <2>4. work[e] > setAt[e]
    BY <2>1, <2>2
  <2> QED
    BY <2>1, <2>2, <2>3, <2>4 DEF IntervalOf, Intervals
<1> QED
  BY DataInvariance, CopyInvariance, <1>1, PTL

------------------------------------------------------------------------------
(* The data. *)

\* The buffer an edge takes its memory from, the one it brings it to, and what it
\* takes there in this Run.
SourceOf(e) == <<End(Src[e]), Arg[e]>>
TargetOf(e) == <<End(Dst[e]), Arg[e]>>
ValueOf(e) == IF Src[e] = Host THEN given[Arg[e]] ELSE <<Src[e], runs>>
Due(e) == ToCopy(e) \/ Type(e) = "NoOp"

Supplied(e) == Src[e] = Host \/ work[Src[e]] = runs
Wanted(e) == Dst[e] = Host \/ work[Dst[e]] = runs - 1

\* Before an edge works its memory is where it takes it from, afterwards where it
\* brings it to, until the operation there has worked.
AtSource(e) == work[e] = runs - 1 /\ Supplied(e) => content[SourceOf(e)] = ValueOf(e)
AtTarget(e) == work[e] = runs /\ Wanted(e) /\ Due(e) => content[TargetOf(e)] = ValueOf(e)
Received(e) ==
  Dst[e] # Host /\ work[Dst[e]] = runs /\ Arg[e] \in Reads[Dst[e]] /\ Due(e) =>
    saw[Dst[e]][Arg[e]] = ValueOf(e)
Untouched(e) == Dst[e] = Host /\ ~Due(e) => content[<<Host, Arg[e]>>] = given[Arg[e]]

Shapes ==
  /\ DOMAIN content = Places \X Mems
  /\ DOMAIN given = Mems
  /\ DOMAIN saw = Ops /\ \A o \in Ops : DOMAIN saw[o] = Reads[o]

FlowInv == Shapes /\ (InRun => \A e \in Edges : AtSource(e) /\ AtTarget(e) /\ Received(e))
HostKeeps == InRun => \A e \in Edges : Untouched(e)

LEMMA DataTypes ==
  ASSUME NEW e \in Edges
  PROVE  /\ e \in Workers /\ Arg[e] \in Mems
         /\ Src[e] \in Ops \cup {Host} /\ Dst[e] \in Ops \cup {Host} /\ Host \notin Workers
         /\ Src[e] # e /\ Dst[e] # e /\ Ops \subseteq Workers
         /\ SourceOf(e) \in Places \X Mems /\ TargetOf(e) \in Places \X Mems
         /\ <<Host, Arg[e]>> \in Places \X Mems
<1>1. /\ e \in Workers /\ Arg[e] \in Mems
      /\ Src[e] \in Ops \cup {Host} /\ Dst[e] \in Ops \cup {Host} /\ Host \notin Workers
      /\ Src[e] # e /\ Dst[e] # e /\ Ops \subseteq Workers
  BY GraphAssumption, DataAssumption DEF Workers
<1>2. \A t \in Ops \cup {Host} : End(t) \in Places
  BY DataAssumption DEF End, Place, Places
<1>3. Host \in Places
  BY DEF Places
<1> QED
  BY <1>1, <1>2, <1>3 DEF SourceOf, TargetOf

\* An edge that copies takes its memory from the one buffer to the other.
LEMMA WhereItCopies ==
  ASSUME NEW e \in Edges
  PROVE  /\ Type(e) = "NoOp" => TargetOf(e) = SourceOf(e)
         /\ Type(e) # "NoOp" => From(e) = SourceOf(e) /\ To(e) = TargetOf(e)
<1>1. /\ Src[e] \in Ops \cup {Host} /\ Dst[e] \in Ops \cup {Host}
      /\ Dev \in [Ops -> Devices] /\ CPUs \subseteq Devices /\ Host \notin Devices
      /\ Host \notin Ops
      /\ \/ Host \in {Src[e], Dst[e]} \/ Dev[Src[e]] = Dev[Dst[e]]
         \/ (Dev[Src[e]] \in CPUs) # (Dev[Dst[e]] \in CPUs)
  BY DataTypes, DataAssumption DEF Workers
<1>2. CASE End(Src[e]) = End(Dst[e])
  BY <1>2 DEF Type, SourceOf, TargetOf
<1>3. CASE End(Src[e]) # End(Dst[e]) /\ End(Src[e]) = Host
  <2>1. Type(e) = "HostToDevice" /\ Dst[e] # Host
    BY <1>3 DEF Type, End
  <2> QED
    BY <1>3, <2>1 DEF From, To, SourceOf, TargetOf, End
<1>4. CASE End(Src[e]) # End(Dst[e]) /\ End(Src[e]) # Host
  <2>1. Type(e) = "DeviceToHost" /\ Src[e] # Host
    BY <1>4 DEF Type, End
  <2>2. End(Dst[e]) = Host
    <3>1. CASE Dst[e] = Host
      BY <3>1 DEF End
    <3>2. CASE Dst[e] # Host
      <4>1. Place(Src[e]) # Place(Dst[e]) /\ Place(Src[e]) # Host
        BY <1>4, <2>1, <3>2 DEF End
      <4>2. Dev[Src[e]] \notin CPUs /\ Dev[Src[e]] # Dev[Dst[e]]
        BY <4>1 DEF Place
      <4>3. Dev[Dst[e]] \in CPUs
        BY <1>1, <2>1, <3>2, <4>2
      <4> QED
        BY <3>2, <4>3 DEF End, Place
    <3> QED
      BY <3>1, <3>2
  <2> QED
    BY <2>1, <2>2 DEF From, To, SourceOf, TargetOf, End
<1> QED
  BY <1>2, <1>3, <1>4

\* Nobody who is busy writes where the memory of an edge waits to be taken from.
LEMMA SourceKept ==
  ASSUME DataFlows, IInv, InRun, NEW w \in Workers, pc[w] = "busy",
         NEW e \in Edges, e # w, Src[e] # w, work[e] = runs - 1, Supplied(e)
  PROVE  SourceOf(e) \notin MayWrite(w)
<1> SUFFICES ASSUME SourceOf(e) \in MayWrite(w) PROVE FALSE
  OBVIOUS
<1>1. Before(w, Src[e]) \/ Before(e, w)
  BY DEF DataFlows, SourceOf
<1>2. e \in Workers /\ runs \in Nat /\ work[w] = runs - 1
  BY DataTypes, WorkInRun
<1>3. ASSUME Before(w, Src[e]) PROVE FALSE
  <2>1. Src[e] \in Workers /\ Src[e] # Host
    BY <1>3, DataTypes DEF Before
  <2>2. work[w] = runs
    BY <1>3, <2>1, InOrder DEF Supplied
  <2> QED
    BY <1>2, <2>2
<1>4. ASSUME Before(e, w) PROVE FALSE
  <2>1. work[e] = runs
    BY <1>2, <1>4, InOrder
  <2> QED
    BY <1>2, <2>1
<1> QED
  BY <1>1, <1>3, <1>4

\* Nobody but its reader writes where the memory of an edge waits for it.
LEMMA TargetKept ==
  ASSUME DataFlows, IInv, InRun, NEW w \in Workers, pc[w] = "busy",
         NEW e \in Edges, e # w, Dst[e] # w, work[e] = runs, Wanted(e)
  PROVE  TargetOf(e) \notin MayWrite(w)
<1> SUFFICES ASSUME TargetOf(e) \in MayWrite(w) PROVE FALSE
  OBVIOUS
<1>1. Before(w, e) \/ Before(Dst[e], w)
  BY DEF DataFlows, TargetOf
<1>2. e \in Workers /\ runs \in Nat /\ work[w] = runs - 1
  BY DataTypes, WorkInRun
<1>3. ASSUME Before(w, e) PROVE FALSE
  <2>1. work[w] = runs
    BY <1>2, <1>3, InOrder
  <2> QED
    BY <1>2, <2>1
<1>4. ASSUME Before(Dst[e], w) PROVE FALSE
  <2>1. Dst[e] # Host
    <3>1. Workers \in SUBSET Workers /\ w \in Workers
      OBVIOUS
    <3>2. \A v \in Workers : Feeders(v) \subseteq Workers
      BY GraphAssumption DEF Feeders, InEdges, Workers
    <3>3. Dst[e] \in Workers
      BY <1>4, <3>1, <3>2 DEF Before
    <3> QED
      BY <3>3, DataTypes
  <2>2. Dst[e] \in Workers
    BY <2>1, DataTypes
  <2>3. work[Dst[e]] = runs
    BY <1>4, <2>2, InOrder
  <2> QED
    BY <1>2, <2>1, <2>3 DEF Wanted
<1> QED
  BY <1>1, <1>3, <1>4

\* What a worker that ends its work changes of FlowRun's variables.
LEMMA WorkDone ==
  ASSUME IInv, NEW w \in Workers, FinishWork(w)
  PROVE  /\ InRun /\ InRun' /\ runs' = runs /\ runs \in Nat
         /\ pc[w] = "busy" /\ work[w] = runs - 1 /\ work'[w] = runs
         /\ \A t \in Workers \ {w} : work'[t] = work[t]
         /\ \A t \in Workers : work[t] = runs - 1 \/ work[t] = runs
<1>0. /\ w \in Threads /\ w # Host /\ work \in [Workers -> Nat]
      /\ pc \in [Threads -> WorkerPlaces \cup HostPlaces]
  BY GraphAssumption DEF Threads, IInv, TypeOK
<1>1. pc[w] = "busy"
  BY DEF FinishWork
<1>2. InRun
  BY <1>1, BusyInRun
<1>3. /\ runs \in Nat /\ work[w] = runs - 1
      /\ \A t \in Workers : work[t] = runs - 1 \/ work[t] = runs
  BY <1>1, <1>2, WorkInRun
<1>4. work'[w] = work[w] + 1 /\ \A t \in Workers \ {w} : work'[t] = work[t]
  BY <1>0 DEF FinishWork
<1>5. runs' = runs /\ execute' = execute /\ pc'[Host] = pc[Host]
  BY <1>0 DEF FinishWork, Threads
<1>6. InRun'
  BY <1>2, <1>5 DEF InRun
<1> QED
  BY <1>1, <1>2, <1>3, <1>4, <1>5, <1>6

LEMMA ProcessFlows ==
  ASSUME DataFlows, IInv, FlowInv, NEW o \in Ops, Process(o)
  PROVE  FlowInv'
<1>0. o \in Workers /\ FinishWork(o)
  BY DEF Workers, Process
<1>1. /\ InRun /\ InRun' /\ runs' = runs /\ runs \in Nat
      /\ pc[o] = "busy" /\ work[o] = runs - 1 /\ work'[o] = runs
      /\ \A t \in Workers \ {o} : work'[t] = work[t]
      /\ \A t \in Workers : work[t] = runs - 1 \/ work[t] = runs
  BY <1>0, WorkDone
<1>2. /\ content' = [c \in Places \X Mems |->
                       IF c[1] = Place(o) /\ c[2] \in Writes[o] THEN <<o, runs>>
                       ELSE content[c]]
      /\ saw' = [saw EXCEPT ![o] = [m \in Reads[o] |-> content[<<Place(o), m>>]]]
      /\ given' = given /\ setTo' = setTo /\ setAt' = setAt
  BY <1>1 DEF Process
<1>3. Shapes'
  BY <1>2 DEF Shapes, FlowInv
<1>4. /\ MayWrite(o) = {<<Place(o), m>> : m \in Writes[o]}
      /\ \A c \in Places \X Mems : c \notin MayWrite(o) => content'[c] = content[c]
      /\ \A m \in Writes[o] : <<Place(o), m>> \in Places \X Mems =>
           content'[<<Place(o), m>>] = <<o, runs>>
  <2>1. MayWrite(o) = {<<Place(o), m>> : m \in Writes[o]}
    BY DEF MayWrite
  <2>2. ASSUME NEW c \in Places \X Mems, c \notin MayWrite(o)
        PROVE  content'[c] = content[c]
    <3>1. ~(c[1] = Place(o) /\ c[2] \in Writes[o])
      BY <2>1, <2>2
    <3> QED
      BY <1>2, <3>1
  <2>3. ASSUME NEW m \in Writes[o], <<Place(o), m>> \in Places \X Mems
        PROVE  content'[<<Place(o), m>>] = <<o, runs>>
    BY <1>2, <2>3
  <2> QED
    BY <2>1, <2>2, <2>3
<1>5. ASSUME NEW e \in Edges
      PROVE  /\ AtSource(e) /\ AtTarget(e) /\ Received(e)
             /\ ValueOf(e)' = ValueOf(e) /\ Due(e)' = Due(e)
             /\ work'[e] = work[e] /\ e # o /\ e \in Workers
  <2>1. e # o /\ e \in Workers
    BY GraphAssumption DEF Workers
  <2>2. ValueOf(e)' = ValueOf(e)
    BY <1>1, <1>2 DEF ValueOf
  <2>3. Due(e)' = Due(e)
    BY <1>1, <1>2 DEF Due, ToCopy
  <2> QED
    BY <1>1, <2>1, <2>2, <2>3 DEF FlowInv
<1>6. ASSUME NEW e \in Edges PROVE AtSource(e)'
  <2> SUFFICES ASSUME work'[e] = runs - 1, Supplied(e)'
               PROVE  content'[SourceOf(e)] = ValueOf(e)
    BY <1>1, <1>5 DEF AtSource, SourceOf
  <2>1. work[e] = runs - 1
    BY <1>5
  <2>2. CASE Src[e] = o
    <3>1. o # Host /\ Arg[e] \in Writes[o]
      BY <2>2, DataTypes DEF DataFlows
    <3>2. SourceOf(e) = <<Place(o), Arg[e]>> /\ SourceOf(e) \in Places \X Mems
      BY <2>2, <3>1, DataTypes DEF SourceOf, End
    <3> QED
      BY <1>4, <2>2, <3>1, <3>2 DEF ValueOf
  <2>3. CASE Src[e] # o
    <3>1. Supplied(e)
      BY <1>1, <2>3, DataTypes DEF Supplied
    <3>2. SourceOf(e) \notin MayWrite(o)
      BY <1>0, <1>1, <1>5, <2>1, <2>3, <3>1, SourceKept
    <3> QED
      BY <1>4, <1>5, <2>1, <3>1, <3>2, DataTypes DEF AtSource
  <2> QED
    BY <2>2, <2>3
<1>7. ASSUME NEW e \in Edges PROVE AtTarget(e)'
  <2> SUFFICES ASSUME work'[e] = runs, Wanted(e)', Due(e)
               PROVE  content'[TargetOf(e)] = ValueOf(e)
    BY <1>1, <1>5 DEF AtTarget, TargetOf
  <2>1. work[e] = runs
    BY <1>5
  <2>2. Dst[e] # o /\ Wanted(e)
    <3>1. Dst[e] # o
      BY <1>1, GraphAssumption DEF Wanted, Workers
    <3> QED
      BY <1>1, <3>1, DataTypes DEF Wanted
  <2>3. TargetOf(e) \notin MayWrite(o)
    BY <1>0, <1>1, <1>5, <2>1, <2>2, TargetKept
  <2> QED
    BY <1>4, <1>5, <2>1, <2>2, <2>3, DataTypes DEF AtTarget
<1>8. ASSUME NEW e \in Edges PROVE Received(e)'
  <2> SUFFICES ASSUME Dst[e] # Host, work'[Dst[e]] = runs, Arg[e] \in Reads[Dst[e]], Due(e)
               PROVE  saw'[Dst[e]][Arg[e]] = ValueOf(e)
    BY <1>1, <1>5 DEF Received
  <2>1. CASE Dst[e] = o
    <3>1. e \in Feeders(o)
      BY <2>1 DEF Feeders, InEdges
    <3>2. execute
      BY <1>1 DEF InRun
    <3>3. work[e] = work[o] + 1
      BY <1>0, <1>1, <3>1, <3>2, FeedersDone
    <3>4. work[e] = runs /\ Wanted(e)
      BY <1>1, <2>1, <3>3 DEF Wanted
    <3>5. content[TargetOf(e)] = ValueOf(e)
      BY <1>5, <3>4 DEF AtTarget
    <3>6. TargetOf(e) = <<Place(o), Arg[e]>>
      BY <2>1 DEF TargetOf, End
    <3>7. saw'[o] = [m \in Reads[o] |-> content[<<Place(o), m>>]]
      BY <1>2 DEF FlowInv, Shapes
    <3> QED
      BY <2>1, <3>5, <3>6, <3>7
  <2>2. CASE Dst[e] # o
    <3>1. Dst[e] \in Ops /\ Dst[e] \in Workers
      BY DataTypes
    <3>2. work[Dst[e]] = runs /\ saw'[Dst[e]] = saw[Dst[e]]
      BY <1>1, <1>2, <2>2, <3>1 DEF FlowInv, Shapes
    <3> QED
      BY <1>5, <3>2 DEF Received
  <2> QED
    BY <2>1, <2>2
<1> QED
  BY <1>3, <1>6, <1>7, <1>8 DEF FlowInv

LEMMA TransferFlows ==
  ASSUME DataFlows, IInv, CopyInv, FlowInv, NEW x \in Edges, TransferMemory(x)
  PROVE  FlowInv'
<1>0. x \in Workers /\ FinishWork(x)
  BY DEF Workers, TransferMemory
<1>1. /\ InRun /\ InRun' /\ runs' = runs /\ runs \in Nat
      /\ pc[x] = "busy" /\ work[x] = runs - 1 /\ work'[x] = runs
      /\ \A t \in Workers \ {x} : work'[t] = work[t]
      /\ \A t \in Workers : work[t] = runs - 1 \/ work[t] = runs
  BY <1>0, WorkDone
<1>2. /\ saw' = saw /\ given' = given /\ setTo' = setTo /\ setAt' = setAt
      /\ ~Copies(x) \/ Type(x) = "NoOp" => content' = content
      /\ Copies(x) /\ Type(x) # "NoOp" =>
           content' = [content EXCEPT ![TargetOf(x)] = content[SourceOf(x)]]
  BY WhereItCopies DEF TransferMemory
<1>3. Copies(x) <=> ToCopy(x)
  BY CopyStep
<1>4. Shapes'
  BY <1>2 DEF Shapes, FlowInv
<1>5. \A c \in Places \X Mems : c \notin MayWrite(x) => content'[c] = content[c]
  <2>1. x \notin Ops
    BY GraphAssumption
  <2>2. Type(x) # "NoOp" => MayWrite(x) = {TargetOf(x)}
    BY <2>1, WhereItCopies DEF MayWrite
  <2> QED
    BY <1>2, <2>2 DEF FlowInv, Shapes
<1>6. ASSUME NEW e \in Edges
      PROVE  /\ AtSource(e) /\ AtTarget(e) /\ Received(e)
             /\ ValueOf(e)' = ValueOf(e) /\ Due(e)' = Due(e)
             /\ Supplied(e)' = Supplied(e) /\ Wanted(e)' = Wanted(e)
             /\ Src[e] # x /\ Dst[e] # x /\ e \in Workers
  <2>1. Src[e] # x /\ Dst[e] # x /\ e \in Workers
    BY GraphAssumption, DataTypes DEF Workers
  <2>2. ValueOf(e)' = ValueOf(e)
    BY <1>1, <1>2 DEF ValueOf
  <2>3. Due(e)' = Due(e)
    BY <1>1, <1>2 DEF Due, ToCopy
  <2>4. Supplied(e)' = Supplied(e) /\ Wanted(e)' = Wanted(e)
    <3>1. Supplied(e)' <=> Supplied(e)
      BY <1>1, <2>1, DataTypes DEF Supplied
    <3>2. Wanted(e)' <=> Wanted(e)
      BY <1>1, <2>1, DataTypes DEF Wanted
    <3> QED
      BY <3>1, <3>2, Zenon DEF Supplied, Wanted
  <2> QED
    BY <1>1, <2>1, <2>2, <2>3, <2>4 DEF FlowInv
<1>7. ASSUME NEW e \in Edges PROVE AtSource(e)'
  <2> SUFFICES ASSUME work'[e] = runs - 1, Supplied(e)
               PROVE  content'[SourceOf(e)] = ValueOf(e)
    BY <1>1, <1>6 DEF AtSource, SourceOf
  <2>1. e # x /\ work[e] = runs - 1
    BY <1>1, <1>6
  <2>2. SourceOf(e) \notin MayWrite(x)
    BY <1>0, <1>1, <1>6, <2>1, SourceKept
  <2> QED
    BY <1>5, <1>6, <2>1, <2>2, DataTypes DEF AtSource
<1>8. ASSUME NEW e \in Edges PROVE AtTarget(e)'
  <2> SUFFICES ASSUME work'[e] = runs, Wanted(e), Due(e)
               PROVE  content'[TargetOf(e)] = ValueOf(e)
    BY <1>1, <1>6 DEF AtTarget, TargetOf
  <2>1. CASE e = x
    <3>1. Supplied(x)
      <4>1. execute
        BY <1>1 DEF InRun
      <4>2. CASE Src[x] # Host
        <5>1. Src[x] \in Feeders(x)
          BY <4>2, GraphAssumption DEF Feeders
        <5>2. work[Src[x]] = work[x] + 1
          BY <1>0, <1>1, <4>1, <5>1, FeedersDone
        <5> QED
          BY <1>1, <5>2 DEF Supplied
      <4> QED
        BY <4>2 DEF Supplied
    <3>2. content[SourceOf(x)] = ValueOf(x)
      BY <1>1, <1>6, <3>1 DEF AtSource
    <3>3. CASE Type(x) = "NoOp"
      BY <1>2, <2>1, <3>2, <3>3, WhereItCopies
    <3>4. CASE Type(x) # "NoOp"
      <4>1. content' = [content EXCEPT ![TargetOf(x)] = content[SourceOf(x)]]
        BY <1>2, <1>3, <2>1, <3>4 DEF Due
      <4>2. TargetOf(x) \in DOMAIN content
        BY DataTypes DEF FlowInv, Shapes
      <4> QED
        BY <2>1, <3>2, <4>1, <4>2
    <3> QED
      BY <3>3, <3>4
  <2>2. CASE e # x
    <3>1. work[e] = runs
      BY <1>1, <1>6, <2>2
    <3>2. TargetOf(e) \notin MayWrite(x)
      BY <1>0, <1>1, <1>6, <2>2, <3>1, TargetKept
    <3> QED
      BY <1>5, <1>6, <3>1, <3>2, DataTypes DEF AtTarget
  <2> QED
    BY <2>1, <2>2
<1>9. ASSUME NEW e \in Edges PROVE Received(e)'
  <2> SUFFICES ASSUME Dst[e] # Host, work'[Dst[e]] = runs, Arg[e] \in Reads[Dst[e]], Due(e)
               PROVE  saw[Dst[e]][Arg[e]] = ValueOf(e)
    BY <1>1, <1>2, <1>6 DEF Received
  <2>1. Dst[e] \in Workers \ {x}
    BY <1>6, DataTypes
  <2> QED
    BY <1>1, <1>6, <2>1 DEF Received
<1> QED
  BY <1>4, <1>7, <1>8, <1>9 DEF FlowInv

\* When Run is called nobody has yet begun, and the host's buffers hold what it gave.
LEMMA RunFlows ==
  ASSUME IInv, FlowInv, DataRun
  PROVE  FlowInv' /\ HostKeeps'
<1>1. \A t \in Workers : work[t] = runs
  BY Complete DEF DataRun, Run, RunComplete
<1>2. /\ runs \in Nat /\ runs' = runs + 1 /\ work' = work /\ saw' = saw
      /\ content' = [c \in Places \X Mems |->
                       IF c[1] = Host THEN <<Host, runs + 1>> ELSE content[c]]
      /\ given' = [m \in Mems |-> <<Host, runs + 1>>]
  BY DEF DataRun, Run, IInv, TypeOK
<1>3. Shapes'
  BY <1>2 DEF FlowInv, Shapes
<1>4. ASSUME NEW e \in Edges
      PROVE  AtSource(e)' /\ AtTarget(e)' /\ Received(e)' /\ Untouched(e)'
  <2>1. /\ e \in Workers /\ Arg[e] \in Mems /\ <<Host, Arg[e]>> \in Places \X Mems
        /\ Src[e] \in Workers \cup {Host} /\ Dst[e] \in Workers \cup {Host}
    BY DataTypes
  <2>2. \A t \in Workers : work'[t] # runs'
    BY <1>1, <1>2
  <2>3. content'[<<Host, Arg[e]>>] = given'[Arg[e]]
    BY <1>2, <2>1
  <2>4. AtSource(e)'
    <3> SUFFICES ASSUME Supplied(e)' PROVE content'[SourceOf(e)] = ValueOf(e)'
      BY DEF AtSource, SourceOf
    <3>1. Src[e] = Host
      BY <2>1, <2>2 DEF Supplied
    <3>2. SourceOf(e) = <<Host, Arg[e]>>
      BY <3>1 DEF SourceOf, End
    <3> QED
      BY <2>3, <3>1, <3>2 DEF ValueOf
  <2>5. AtTarget(e)' /\ Received(e)' /\ Untouched(e)'
    BY <2>1, <2>2, <2>3 DEF AtTarget, Received, Untouched
  <2> QED
    BY <2>4, <2>5
<1> QED
  BY <1>3, <1>4 DEF FlowInv, HostKeeps

\* Steps that move no data.
LEMMA OthersFlow ==
  ASSUME IInv, FlowInv, UNCHANGED <<content, saw, given, work, runs>>,
         InRun' => InRun /\ UNCHANGED <<setTo, setAt>>
  PROVE  FlowInv' /\ (HostKeeps => HostKeeps')
<1>1. Shapes'
  BY DEF FlowInv, Shapes
<1>2. ASSUME InRun', NEW e \in Edges
      PROVE  /\ AtSource(e)' /\ AtTarget(e)' /\ Received(e)'
             /\ Untouched(e) => Untouched(e)'
  <2>1. AtSource(e) /\ AtTarget(e) /\ Received(e)
    BY <1>2 DEF FlowInv
  <2>2. (Due(e)' <=> Due(e)) /\ ValueOf(e)' = ValueOf(e)
    BY <1>2 DEF Due, ToCopy, ValueOf
  <2>3. (Supplied(e)' <=> Supplied(e)) /\ (Wanted(e)' <=> Wanted(e))
    BY DEF Supplied, Wanted
  <2>4. AtSource(e)'
    BY <2>1, <2>2, <2>3 DEF AtSource, SourceOf
  <2>5. AtTarget(e)'
    BY <2>1, <2>2, <2>3 DEF AtTarget, TargetOf
  <2>6. Received(e)' /\ (Untouched(e) => Untouched(e)')
    BY <2>1, <2>2 DEF Received, Untouched
  <2> QED
    BY <2>4, <2>5, <2>6
<1> QED
  BY <1>1, <1>2 DEF FlowInv, HostKeeps

LEMMA OtherSteps ==
  ASSUME IInv, FlowInv,
         Control \/ UNCHANGED allVars
           \/ \E e \in Edges, i \in Intervals : SetOperationArgMemoryCopyInterval(e, i)
  PROVE  FlowInv' /\ (HostKeeps => HostKeeps')
<1>1. CASE Control \/ UNCHANGED allVars
  <2>1. UNCHANGED <<data, runs, work>>
    BY <1>1 DEF Control, Park, TestLoop, TestAgain, Arrival, EarlyArrival, LastArrival,
       HostStep, Start, Return, SignalExit, Join, Destroy, Closed, allVars, vars
  <2>2. ~DataRun
    BY <2>1 DEF DataRun, Run, IInv, TypeOK
  <2>3. InRun' => InRun
    BY <1>1, <2>2, OnlyRunBegins DEF DataNext, IInv
  <2> QED
    BY <2>1, <2>3, OthersFlow DEF data
<1>2. ASSUME NEW e \in Edges, NEW i \in Intervals, SetOperationArgMemoryCopyInterval(e, i)
      PROVE  FlowInv' /\ (HostKeeps => HostKeeps')
  <2>1. /\ pc[Host] = "idle" /\ UNCHANGED <<pc, content, saw, given, work, runs>>
    BY <1>2 DEF SetOperationArgMemoryCopyInterval, vars
  <2>2. ~InRun'
    BY <2>1 DEF InRun
  <2> QED
    BY <2>1, <2>2, OthersFlow
<1> QED
  BY <1>1, <1>2

LEMMA FlowInit == DataInit => FlowInv /\ HostKeeps
<1> SUFFICES ASSUME DataInit PROVE FlowInv /\ HostKeeps
  OBVIOUS
<1>1. ~InRun
  BY DEF DataInit, Init, InRun
<1> QED
  BY <1>1 DEF DataInit, FlowInv, HostKeeps, Shapes

LEMMA FlowNext ==
  ASSUME DataFlows, IInv, CopyInv, FlowInv, [DataNext]_allVars
  PROVE  FlowInv'
BY ProcessFlows, TransferFlows, RunFlows, OtherSteps DEF DataNext

LEMMA FlowInvariance ==
  ASSUME DataFlows
  PROVE  DataSpec => []FlowInv
BY FlowInit, FlowNext, DataInvariance, CopyInvariance, PTL DEF DataSpec

\* Where no copy is asked for nobody writes over what the host left in its buffers.
LEMMA HostKeepsNext ==
  ASSUME ResultsHaveAPlace, IInv, CopyInv, FlowInv, HostKeeps, [DataNext]_allVars
  PROVE  HostKeeps'
<1>1. ASSUME NEW w \in Workers, FinishWork(w), UNCHANGED <<given, setTo, setAt>>,
             \A e \in Edges : Untouched(e) /\ Dst[e] = Host /\ ~Due(e) =>
               content'[<<Host, Arg[e]>>] = content[<<Host, Arg[e]>>]
      PROVE  HostKeeps'
  <2>1. InRun /\ runs' = runs
    BY <1>1, WorkDone
  <2>2. ASSUME NEW e \in Edges PROVE Untouched(e)'
    <3>1. Due(e)' <=> Due(e)
      BY <1>1, <2>1 DEF Due, ToCopy
    <3>2. Untouched(e)
      BY <2>1 DEF HostKeeps
    <3> QED
      BY <1>1, <3>1, <3>2 DEF Untouched
  <2> QED
    BY <2>2 DEF HostKeeps
<1>2. ASSUME NEW e \in Edges, Dst[e] = Host, ~Due(e), NEW w \in Workers, w # e
      PROVE  <<Host, Arg[e]>> \notin MayWrite(w)
  BY <1>2 DEF ResultsHaveAPlace, Due
<1>3. ASSUME NEW o \in Ops, Process(o) PROVE HostKeeps'
  <2>1. o \in Workers /\ FinishWork(o) /\ UNCHANGED <<given, setTo, setAt>>
    BY <1>3 DEF Workers, Process
  <2>2. ASSUME NEW e \in Edges, Dst[e] = Host, ~Due(e)
        PROVE  content'[<<Host, Arg[e]>>] = content[<<Host, Arg[e]>>]
    <3>1. <<Host, Arg[e]>> \notin MayWrite(o)
      BY <1>2, <2>1, <2>2, GraphAssumption
    <3>2. ~(Host = Place(o) /\ Arg[e] \in Writes[o])
      BY <3>1 DEF MayWrite
    <3>3. <<Host, Arg[e]>> \in Places \X Mems
      BY DataTypes
    <3> QED
      BY <1>3, <3>2, <3>3 DEF Process
  <2> QED
    BY <1>1, <2>1, <2>2
<1>4. ASSUME NEW x \in Edges, TransferMemory(x) PROVE HostKeeps'
  <2>1. x \in Workers /\ FinishWork(x) /\ UNCHANGED <<given, setTo, setAt>>
    BY <1>4 DEF Workers, TransferMemory
  <2>2. /\ ~Copies(x) \/ Type(x) = "NoOp" => content' = content
        /\ Type(x) # "NoOp" => \A c \in Places \X Mems :
                                 c # To(x) => content'[c] = content[c]
        /\ Copies(x) => Due(x)
    <3>1. Copies(x) => Due(x)
      BY <1>4, CopyStep DEF Due
    <3> QED
      BY <1>4, <3>1 DEF TransferMemory, FlowInv, Shapes
  <2>3. ASSUME NEW e \in Edges, Dst[e] = Host, ~Due(e)
        PROVE  content'[<<Host, Arg[e]>>] = content[<<Host, Arg[e]>>]
    <3>1. CASE ~Copies(x) \/ Type(x) = "NoOp"
      BY <2>2, <3>1
    <3>2. CASE Copies(x) /\ Type(x) # "NoOp"
      <4>1. x # e /\ x \notin Ops
        BY <2>2, <2>3, <3>2, GraphAssumption
      <4>2. <<Host, Arg[e]>> \notin MayWrite(x)
        BY <1>2, <2>1, <2>3, <4>1
      <4>3. <<Host, Arg[e]>> # To(x)
        BY <3>2, <4>1, <4>2 DEF MayWrite
      <4> QED
        BY <2>2, <3>2, <4>3, DataTypes
    <3> QED
      BY <3>1, <3>2
  <2> QED
    BY <1>1, <2>1, <2>3
<1>5. CASE DataRun
  BY <1>5, RunFlows
<1> QED
  BY <1>3, <1>4, <1>5, OtherSteps DEF DataNext

LEMMA HostKeepsInvariance ==
  ASSUME DataFlows, ResultsHaveAPlace
  PROVE  DataSpec => []HostKeeps
BY FlowInit, HostKeepsNext, DataInvariance, CopyInvariance, FlowInvariance, PTL
   DEF DataSpec

\* On a graph whose edges lead from where a memory is written, with nobody else
\* writing it on the way, an operation finds in its arguments what this Run made of
\* them, on whatever devices the graph is (Operation::Process, Edge::TransferMemory).
THEOREM FreshArguments ==
  ASSUME DataFlows
  PROVE  DataSpec => []ArgumentsAreFresh
<1>1. ASSUME IInv, FlowInv
      PROVE  ArgumentsAreFresh
  <2> SUFFICES ASSUME RunEnds, NEW e \in Edges, Dst[e] # Host,
                      Arg[e] \in Reads[Dst[e]], ToCopy(e) \/ Type(e) = "NoOp"
               PROVE  saw[Dst[e]][Arg[e]] = ValueOf(e)
    BY DEF ArgumentsAreFresh, ValueOf
  <2>1. InRun /\ work[Dst[e]] = runs
    BY <1>1, AllWorked, DataTypes
  <2> QED
    BY <1>1, <2>1 DEF FlowInv, Received, Due
<1> QED
  BY DataInvariance, FlowInvariance, <1>1, PTL

\* If besides nobody else writes where an edge brings a result, the host finds it
\* there when Run returns, and its own data where it asked for no copy.
THEOREM DeliveredResults ==
  ASSUME DataFlows, ResultsHaveAPlace
  PROVE  DataSpec => []ResultsAreDelivered
<1>1. ASSUME IInv, FlowInv, HostKeeps
      PROVE  ResultsAreDelivered
  <2> SUFFICES ASSUME RunEnds, NEW e \in Edges, Dst[e] = Host
      PROVE  content[<<Host, Arg[e]>>] = IF Due(e) THEN <<Src[e], runs>> ELSE given[Arg[e]]
    BY DEF ResultsAreDelivered, Due
  <2>1. InRun /\ work[e] = runs
    BY <1>1, AllWorked DEF Workers
  <2>2. TargetOf(e) = <<Host, Arg[e]>> /\ Wanted(e)
    BY DEF TargetOf, End, Wanted
  <2>3. ValueOf(e) = <<Src[e], runs>>
    BY GraphAssumption DEF ValueOf
  <2>4. CASE Due(e)
    BY <1>1, <2>1, <2>2, <2>3, <2>4 DEF FlowInv, AtTarget
  <2>5. CASE ~Due(e)
    BY <1>1, <2>1, <2>5 DEF HostKeeps, Untouched
  <2> QED
    BY <2>4, <2>5
<1> QED
  BY DataInvariance, FlowInvariance, HostKeepsInvariance, <1>1, PTL

==============================================================================
