--------------------------- MODULE SyncStartProofs ---------------------------
(***************************************************************************)
(* Proofs about SyncStart, for any finite set of threads.                  *)
(***************************************************************************)
EXTENDS SyncStart, FiniteSetTheorems, TLAPS

LEMMA ArrivedIsFinite ==
  ASSUME TypeOK
  PROVE  /\ Cardinality(Threads) \in Nat
         /\ Arrived \subseteq Created
         /\ IsFiniteSet(Created) /\ Cardinality(Created) \in Nat
         /\ IsFiniteSet(Arrived) /\ Cardinality(Arrived) \in Nat
<1>1. Arrived \in SUBSET Threads /\ Created \in SUBSET Threads
  BY DEF Arrived, Created
<1> QED
  BY <1>1, StartAssumption, FS_Subset, FS_CardinalityType DEF Arrived, Created

\* A step that neither creates a thread nor lets one be counted.
LEMMA SameArrived ==
  ASSUME IInv, UNCHANGED <<num, host>>, pc' \in [Threads -> Places],
         \A t \in Threads :
           \/ pc'[t] = pc[t]
           \/ pc[t] = "waiting" /\ pc'[t] = "woken" /\ t \in Restless
           \/ pc[t] = "woken" /\ pc'[t] = "through"
  PROVE  IInv'
<1>1. Arrived' = Arrived /\ Created' = Created
  BY DEF Arrived, Created, IInv, TypeOK
<1>2. NobodyLeftBehind'
  BY <1>1 DEF IInv, NobodyLeftBehind, Created
<1> QED
  BY <1>1, <1>2 DEF IInv, TypeOK

LEMMA CreateStep ==
  ASSUME IInv, NEW t \in Threads, Create(t)
  PROVE  IInv'
<1> USE DEF IInv, Create
<1>1. Arrived' = Arrived
  BY DEF Arrived, TypeOK
<1> QED
  BY <1>1 DEF TypeOK, Places, NobodyLeftBehind

LEMMA ArriveStep ==
  ASSUME IInv, NEW t \in Threads, Arrive(t)
  PROVE  IInv'
<1> USE DEF IInv, Arrive
<1>1. Arrived' = Arrived \cup {t} /\ t \notin Arrived /\ Created' = Created
  BY DEF Arrived, Created, TypeOK
<1>2. num' = Cardinality(Arrived')
  BY <1>1, ArrivedIsFinite, FS_AddElement
<1>3. Arrived' \in SUBSET Threads
  BY DEF Arrived
<1>4. num' \in 0 .. Cardinality(Threads)
  BY <1>2, <1>3, StartAssumption, FS_Subset, FS_CardinalityType
<1>5. host \notin {"notifying", "started"}
  BY <1>1 DEF Created
<1> QED
  BY <1>1, <1>2, <1>4, <1>5 DEF TypeOK, Places, NobodyLeftBehind

LEMMA PollStep ==
  ASSUME IInv, Poll
  PROVE  IInv'
<1> USE DEF IInv, Poll
<1>1. Arrived = Created
  BY ArrivedIsFinite, FS_Subset
<1> QED
  BY <1>1 DEF TypeOK, NobodyLeftBehind, Arrived, Created

LEMMA NotifyAllStep ==
  ASSUME IInv, NotifyAll
  PROVE  IInv'
<1> USE DEF IInv, NotifyAll
<1>1. Arrived' = Arrived /\ Created' = Created
  BY DEF Arrived, Created, TypeOK
<1>2. NobodyLeftBehind'
  <2> SUFFICES ASSUME NEW t \in Created PROVE pc'[t] \in {"woken", "through"}
    BY <1>1 DEF NobodyLeftBehind
  <2>1. t \in Threads /\ pc[t] \in {"waiting", "woken", "through"}
    BY DEF Created, Arrived, TypeOK, Places
  <2> QED
    BY <2>1
<1> QED
  BY <1>1, <1>2 DEF TypeOK, Places

\* SyncStart counts right and wakes whom it should, in every reachable state
\* (Synchronization.cpp:73-101), spurious wakeups or not.
THEOREM Invariance == Spec => []IInv
<1>1. Init => IInv
  <2> SUFFICES ASSUME Init PROVE IInv
    OBVIOUS
  <2>1. Arrived = {} /\ Created = {}
    BY DEF Init, Arrived, Created
  <2>2. Cardinality(Threads) \in Nat
    BY StartAssumption, FS_CardinalityType
  <2> QED
    BY <2>1, <2>2, FS_EmptySet DEF Init, IInv, TypeOK, Places, NobodyLeftBehind
<1>2. ASSUME IInv, [Next]_vars
      PROVE  IInv'
  <2> USE <1>2
  <2>1. CASE \E t \in Threads : Create(t) \/ Step(t) \/ SpuriousWakeup(t)
    <3>1. PICK t \in Threads : Create(t) \/ Step(t) \/ SpuriousWakeup(t)
      BY <2>1
    <3>2. CASE Leave(t) \/ SpuriousWakeup(t)
      <4>1. UNCHANGED <<num, host>> /\ pc' \in [Threads -> Places]
        BY <3>2 DEF IInv, TypeOK, Places, Leave, SpuriousWakeup
      <4>2. \A u \in Threads :
               \/ pc'[u] = pc[u]
               \/ pc[u] = "waiting" /\ pc'[u] = "woken" /\ u \in Restless
               \/ pc[u] = "woken" /\ pc'[u] = "through"
        BY <3>2 DEF IInv, TypeOK, Leave, SpuriousWakeup
      <4> QED
        BY <4>1, <4>2, SameArrived
    <3> QED
      BY <3>1, <3>2, CreateStep, ArriveStep DEF Step
  <2>2. CASE EnterStart
    BY <2>2 DEF EnterStart, IInv, TypeOK, NobodyLeftBehind, Arrived, Created
  <2>3. CASE Opened \/ UNCHANGED vars
    <3>1. UNCHANGED <<num, host, pc>> /\ pc' \in [Threads -> Places]
      BY <2>3 DEF Opened, vars, IInv, TypeOK
    <3> QED
      BY <3>1, SameArrived
  <2> QED
    BY <2>1, <2>2, <2>3, PollStep, NotifyAllStep DEF Next
<1> QED
  BY <1>1, <1>2, PTL DEF Spec

\* The unprotected notify_all misses no thread.
THEOREM NobodyIsLeftBehind == Spec => []NobodyLeftBehind
<1>1. IInv => NobodyLeftBehind
  BY DEF IInv
<1> QED
  BY Invariance, <1>1, PTL

\* No thread that is woken by a notification only executes before the host says so.
THEOREM TheGateHolds == Spec => []NobodyThroughEarly
<1>1. IInv => NobodyThroughEarly
  BY DEF IInv, NobodyThroughEarly
<1> QED
  BY Invariance, <1>1, PTL

------------------------------------------------------------------------------
(* What EveryoneGetsThrough comes down to: once Start is called somebody can    *)
(* make a step until all are through, can until it is made, and the steps are   *)
(* counted. Fairness, which has each made that can be, does the rest.           *)

\* The guards of what a thread, and the host, does next of its own accord.
May(t) == pc[t] \in {"new", "woken"}
HostMay == host = "notifying" \/ (host = "polling" /\ num = Cardinality(Created))

\* How far a thread and the host are.
Place(p) ==
  CASE p = "unborn" -> 0 [] p = "new" -> 1 [] p = "waiting" -> 2
    [] p = "woken" -> 3 [] p = "through" -> 4
HostPlace(h) ==
  CASE h = "building" -> 0 [] h = "polling" -> 1 [] h = "notifying" -> 2
    [] h = "started" -> 3

Left == {p \in Threads \X (1 .. 4) : Place(pc[p[1]]) < p[2]}
StepsLeft == Cardinality(Left) + (3 - HostPlace(host))

\* From the call of Start until every thread is through the gate there is somebody
\* who can go on: neither the loop of Start, which ends when all are counted, nor a
\* thread in Wait can be waiting for nobody (Synchronization.cpp:73-101).
THEOREM SomebodyMayMove ==
  Spec => [](\/ host = "building"
             \/ host = "started" /\ \A t \in Created : pc[t] = "through"
             \/ HostMay \/ \E t \in Threads : May(t))
<1>1. ASSUME IInv, host # "building", ~HostMay, \A t \in Threads : ~May(t)
      PROVE  host = "started" /\ \A t \in Created : pc[t] = "through"
  <2>1. host # "polling"
    <3>1. Arrived = Created
      BY <1>1 DEF Arrived, Created, May
    <3> QED
      BY <1>1, <3>1 DEF IInv, HostMay
  <2>2. host = "started"
    BY <1>1, <2>1 DEF IInv, TypeOK, HostMay
  <2> QED
    BY <1>1, <2>2 DEF IInv, NobodyLeftBehind, Created, May
<1>2. IInv => \/ host = "building"
              \/ host = "started" /\ \A t \in Created : pc[t] = "through"
              \/ HostMay \/ \E t \in Threads : May(t)
  BY <1>1
<1> QED
  BY Invariance, <1>2, PTL

\* Whoever can make a step can until it is made: nobody is created or uncounted while
\* the host polls, and only the thread itself leaves where it can go on.
THEOREM MayLasts ==
  Spec => [][/\ \A t \in Threads : May(t) => May(t)' \/ Step(t)
             /\ HostMay => HostMay' \/ Poll \/ NotifyAll]_vars
<1>1. ASSUME IInv, Next, NEW t \in Threads, May(t)
      PROVE  May(t)' \/ Step(t)
  BY <1>1 DEF IInv, TypeOK, May, Next, Create, Step, Arrive, Leave, SpuriousWakeup,
     EnterStart, Poll, NotifyAll, Opened, vars
<1>2. ASSUME IInv, Next, HostMay
      PROVE  HostMay' \/ Poll \/ NotifyAll
  <2>1. CASE host = "notifying"
    BY <1>2, <2>1 DEF HostMay, Next, Create, Step, Arrive, Leave, SpuriousWakeup,
       EnterStart, Opened, vars
  <2>2. CASE host = "polling" /\ num = Cardinality(Created)
    <3>1. Arrived = Created
      BY <1>2, <2>2, ArrivedIsFinite, FS_Subset DEF IInv
    <3>2. ASSUME NEW t \in Threads PROVE ~Create(t) /\ ~Arrive(t)
      BY <2>2, <3>1 DEF Create, Arrive, Arrived, Created
    <3>3. ASSUME NEW t \in Threads, Leave(t) \/ SpuriousWakeup(t) PROVE HostMay'
      <4>1. Created' = Created
        BY <1>2, <3>3 DEF IInv, TypeOK, Created, Leave, SpuriousWakeup
      <4> QED
        BY <2>2, <3>3, <4>1 DEF HostMay, Leave, SpuriousWakeup
    <3> QED
      BY <1>2, <2>2, <3>2, <3>3 DEF Next, Step, EnterStart, Opened
  <2> QED
    BY <1>2, <2>1, <2>2 DEF HostMay
<1>3. IInv /\ [Next]_vars
        => [/\ \A t \in Threads : May(t) => May(t)' \/ Step(t)
            /\ HostMay => HostMay' \/ Poll \/ NotifyAll]_vars
  BY <1>1, <1>2
<1> QED
  BY Invariance, <1>3, PTL DEF Spec

\* Threads that go on, none of them back.
LEMMA SomeGoOn ==
  ASSUME TypeOK, TypeOK', \A t \in Threads : Place(pc[t]) <= Place(pc'[t])
  PROVE  /\ Cardinality(Left) \in Nat /\ Cardinality(Left') \in Nat
         /\ Cardinality(Left') <= Cardinality(Left)
         /\ \A t \in Threads : Place(pc[t]) < Place(pc'[t])
                                => Cardinality(Left') < Cardinality(Left)
<1>1. \A t \in Threads : Place(pc[t]) \in 0 .. 4 /\ Place(pc'[t]) \in 0 .. 4
  BY DEF TypeOK, Places, Place
<1>2. IsFiniteSet(Left)
  <2>1. ASSUME NEW n \in Nat PROVE IsFiniteSet(1 .. n)
    BY FS_Interval
  <2>2. IsFiniteSet(Threads \X (1 .. 4))
    BY <2>1, StartAssumption, FS_Product, 4 \in Nat
  <2> QED
    BY <2>2, FS_Subset DEF Left
<1>3. Left' \in SUBSET Left
  BY <1>1 DEF Left
<1>4. /\ IsFiniteSet(Left') /\ Cardinality(Left') <= Cardinality(Left)
      /\ Cardinality(Left) = Cardinality(Left') => Left = Left'
  BY <1>2, <1>3, FS_Subset
<1>5. Cardinality(Left) \in Nat /\ Cardinality(Left') \in Nat
  BY <1>2, <1>4, FS_CardinalityType
<1>6. ASSUME NEW t \in Threads, Place(pc[t]) < Place(pc'[t])
      PROVE  Cardinality(Left') < Cardinality(Left)
  <2>1. <<t, Place(pc'[t])>> \in Left /\ <<t, Place(pc'[t])>> \notin Left'
    BY <1>1, <1>6 DEF Left
  <2> QED
    BY <1>4, <1>5, <2>1
<1> QED
  BY <1>4, <1>5, <1>6

\* Every step, of a thread, of the host or of nobody's, takes one off what is left.
THEOREM EveryStepCounts == Spec => [][StepsLeft' < StepsLeft]_vars
<1>0. ASSUME IInv, IInv'
      PROVE  /\ HostPlace(host) \in 0 .. 3 /\ HostPlace(host') \in 0 .. 3
             /\ \A t \in Threads : Place(pc[t]) \in 0 .. 4
  BY <1>0 DEF IInv, TypeOK, Places, Place, HostPlace
<1>1. ASSUME IInv, IInv', Next, ~UNCHANGED vars
      PROVE  StepsLeft' < StepsLeft
  <2>1. ASSUME NEW t \in Threads, Create(t) \/ Step(t) \/ SpuriousWakeup(t)
        PROVE  StepsLeft' < StepsLeft
    <3>1. /\ host' = host /\ \A u \in Threads \ {t} : pc'[u] = pc[u]
          /\ \/ pc[t] = "unborn" /\ pc'[t] = "new"
             \/ pc[t] = "new" /\ pc'[t] = "waiting"
             \/ pc[t] = "waiting" /\ pc'[t] = "woken"
             \/ pc[t] = "woken" /\ pc'[t] = "through"
      BY <1>1, <2>1 DEF IInv, TypeOK, Create, Step, Arrive, Leave, SpuriousWakeup
    <3>2. Place(pc[t]) < Place(pc'[t])
      BY <3>1 DEF Place
    <3>3. \A u \in Threads : Place(pc[u]) <= Place(pc'[u])
      <4>1. \A u \in Threads \ {t} : Place(pc[u]) = Place(pc'[u])
        BY <3>1
      <4>2. \A u \in Threads : Place(pc[u]) \in 0 .. 4 /\ Place(pc'[u]) \in 0 .. 4
        BY <1>1 DEF IInv, TypeOK, Places, Place
      <4> QED
        BY <3>2, <4>1, <4>2
    <3>4. /\ Cardinality(Left) \in Nat /\ Cardinality(Left') \in Nat
          /\ Cardinality(Left') < Cardinality(Left)
      BY <1>1, <3>2, <3>3, SomeGoOn DEF IInv
    <3>5. HostPlace(host) \in 0 .. 3
      BY <1>0, <1>1
    <3> HIDE DEF Left
    <3> QED
      BY <3>1, <3>4, <3>5 DEF StepsLeft
  <2>2. CASE EnterStart \/ Poll \/ NotifyAll
    <3>1. HostPlace(host) < HostPlace(host')
      BY <2>2 DEF EnterStart, Poll, NotifyAll, HostPlace
    <3>2. \A u \in Threads : pc'[u] = pc[u] \/ (pc[u] = "waiting" /\ pc'[u] = "woken")
      BY <2>2 DEF EnterStart, Poll, NotifyAll
    <3>3. \A u \in Threads : Place(pc[u]) <= Place(pc'[u])
      <4>1. Place("waiting") <= Place("woken")
        BY DEF Place
      <4> QED
        BY <1>0, <1>1, <3>2, <4>1
    <3>4. /\ Cardinality(Left) \in Nat /\ Cardinality(Left') \in Nat
          /\ Cardinality(Left') <= Cardinality(Left)
      BY <1>1, <3>3, SomeGoOn DEF IInv
    <3>5. HostPlace(host) \in 0 .. 3 /\ HostPlace(host') \in 0 .. 3
      BY <1>0, <1>1
    <3> QED
      BY <3>1, <3>4, <3>5 DEF StepsLeft
  <2> QED
    BY <1>1, <2>1, <2>2 DEF Next, Opened
<1>2. IInv /\ IInv' /\ [Next]_vars => [StepsLeft' < StepsLeft]_vars
  BY <1>1
<1> QED
  BY Invariance, <1>2, PTL DEF Spec

==============================================================================
