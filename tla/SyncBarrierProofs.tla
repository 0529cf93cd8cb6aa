-------------------------- MODULE SyncBarrierProofs --------------------------
(***************************************************************************)
(* Proofs about SyncBarrier, for any finite set of threads, any number of  *)
(* waits and any set of threads that may be woken without a notification.  *)
(***************************************************************************)
EXTENDS SyncBarrier, FiniteSetTheorems, TLAPS

\* The sleepers are finitely many, and so are the members.
LEMMA FiniteSubsets ==
  ASSUME TypeOK
  PROVE  /\ Cardinality(Threads) \in Nat
         /\ IsFiniteSet(members) /\ Cardinality(members) \in Nat
         /\ IsFiniteSet(Blocked) /\ Cardinality(Blocked) \in Nat
         /\ Cardinality(members) <= Cardinality(Threads)
         /\ Cardinality(Blocked) <= Cardinality(Threads)
<1>1. members \in SUBSET Threads /\ Blocked \in SUBSET Threads
  BY DEF TypeOK, Blocked
<1> QED
  BY <1>1, ThreadsAssumption, FS_Subset, FS_CardinalityType

\* Who is in Wait is a member and the gate is open.
LEMMA InsideMeansMember ==
  ASSUME IInv, NEW t \in Threads, pc[t] # "outside"
  PROVE  t \in members /\ running
BY DEF IInv, MemberInv

\* A thread about to be counted completes the barrier exactly when the sleepers
\* and it are all the members: what the comparison of Synchronization.cpp:53
\* decides with two counters.
LEMMA CountDecides ==
  ASSUME IInv, RoundInv, NEW t \in Threads, pc[t] = "counting"
  PROVE  count + 1 = size <=> Blocked \cup {t} = members
<1>1. t \notin Blocked
  BY DEF Blocked
<1>2. Cardinality(Blocked \cup {t}) = count + 1
  BY <1>1, FiniteSubsets, FS_AddElement DEF RoundInv, IInv
<1>3. Blocked \cup {t} \in SUBSET members
  BY InsideMeansMember DEF Blocked
<1>4. Cardinality(members) = Cardinality(Blocked \cup {t})
        => members = Blocked \cup {t}
  BY <1>3, FiniteSubsets, FS_Subset DEF IInv
<1> QED
  BY <1>2, <1>4 DEF IInv, MemberInv

LEMMA InitIInv == Init => IInv
<1> SUFFICES ASSUME Init PROVE IInv
  OBVIOUS
<1>1. Cardinality(Threads) \in Nat
  BY ThreadsAssumption, FS_CardinalityType
<1>2. TypeOK
  <2>1. running \in BOOLEAN /\ disturbed \in BOOLEAN
    BY Zenon DEF Init
  <2> QED
    BY <1>1, <2>1 DEF Init, TypeOK, Places
<1>3. Blocked = {}
  BY DEF Init, Blocked
<1>4. MemberInv
  BY FS_EmptySet DEF Init, MemberInv
<1>5. RoundInv
  BY <1>3, FS_EmptySet DEF Init, RoundInv
<1>6. MutexInv
  BY ThreadsAssumption DEF Init, MutexInv
<1> QED
  BY <1>2, <1>4, <1>5, <1>6 DEF IInv

\* Before the gate opens the members come and go, and nobody is in Wait.
LEMMA SetUpStep ==
  ASSUME IInv, NEW t \in Threads, Add(t) \/ Remove(t)
  PROVE  IInv'
<1>1. /\ ~running /\ count = 0 /\ Blocked = {} /\ Blocked' = {}
      /\ \A u \in Threads : pc[u] = "outside" /\ passes[u] = 0
  BY DEF IInv, MemberInv, Blocked, Add, Remove
<1>2. size' = Cardinality(members') /\ members' \in SUBSET Threads
  BY FiniteSubsets, FS_AddElement, FS_RemoveElement
     DEF IInv, MemberInv, TypeOK, Add, Remove
<1>3. Cardinality(members') <= Cardinality(Threads) /\ Cardinality(members') \in Nat
  BY <1>2, ThreadsAssumption, FS_Subset, FS_CardinalityType
<1>4. TypeOK'
  BY <1>2, <1>3, FiniteSubsets DEF IInv, TypeOK, Add, Remove
<1>5. MemberInv'
  BY <1>1, <1>2 DEF IInv, MemberInv, Add, Remove
<1>6. MutexInv'
  BY DEF IInv, MutexInv, Add, Remove
<1>7. RoundInv'
  <2>1. count' = 0 /\ round' = 0 /\ UNCHANGED <<pc, passes>>
    BY <1>1 DEF IInv, MemberInv, Add, Remove
  <2>2. \A u \in members' : Reached(u)' = 0
    BY <1>1, <1>2, <2>1 DEF Reached
  <2> QED
    BY <1>1, <2>1, <2>2, FS_EmptySet DEF RoundInv
<1> QED
  BY <1>4, <1>5, <1>6, <1>7 DEF IInv

LEMMA OpenStep ==
  ASSUME IInv, Open
  PROVE  IInv'
<1> USE DEF IInv, Open
<1>1. TypeOK'
  BY DEF TypeOK
<1>2. MemberInv'
  <2>1. members # {} /\ IsFiniteSet(members)
    BY FiniteSubsets
  <2>2. Cardinality(members) # 0
    BY <2>1, FS_EmptySet
  <2> QED
    BY <2>2, FiniteSubsets DEF MemberInv, TypeOK
<1>3. MutexInv'
  BY DEF MutexInv
<1>4. RoundInv => RoundInv'
  BY DEF RoundInv, Reached, Blocked
<1> QED
  BY <1>1, <1>2, <1>3, <1>4

\* Steps in Wait that nobody is counted or released by.
LEMMA QuietStep ==
  ASSUME IInv, NEW t \in Threads,
         LockMutex(t) \/ Reacquire(t) \/ LeaveWait(t)
  PROVE  IInv'
<1> USE DEF IInv, LockMutex, Reacquire, LeaveWait
<1>1. t \in members /\ running
  BY InsideMeansMember
<1>2. TypeOK'
  BY DEF TypeOK, Places
<1>3. MemberInv'
  BY <1>1 DEF MemberInv, TypeOK
<1>4. MutexInv'
  BY ThreadsAssumption DEF MutexInv, TypeOK
<1>5. RoundInv => RoundInv'
  <2>1. Blocked' = Blocked
    BY DEF Blocked, TypeOK
  <2>2. \A u \in members : u \in Threads /\ passes[u] \in Nat
    BY DEF TypeOK
  <2>3. CASE LockMutex(t) \/ Reacquire(t)
    BY <2>1, <2>2, <2>3 DEF Reached, TypeOK, RoundInv
  <2>4. CASE LeaveWait(t)
    BY <2>1, <2>2, <2>4 DEF Reached, TypeOK, RoundInv
  <2> QED
    BY <2>3, <2>4
<1> QED
  BY <1>2, <1>3, <1>4, <1>5

LEMMA LastArrivalStep ==
  ASSUME IInv, NEW t \in Threads, LastArrival(t)
  PROVE  IInv'
<1> USE DEF IInv, LastArrival, Completes, Notified
<1>1. t \in members /\ running
  BY InsideMeansMember
<1>2. TypeOK'
  BY FiniteSubsets DEF TypeOK, Places
<1>3. MemberInv'
  <2>1. size' = Cardinality(members') /\ count' < size'
    BY <1>1 DEF MemberInv, TypeOK
  <2> QED
    BY <1>1, <2>1 DEF MemberInv, TypeOK, Blocked
<1>4. MutexInv'
  BY DEF MutexInv, TypeOK, Blocked
<1>5. RoundInv => RoundInv'
  <2> SUFFICES ASSUME RoundInv PROVE RoundInv'
    OBVIOUS
  <2>1. Blocked \cup {t} = members
    BY CountDecides
  <2>2. Blocked' = {}
    BY DEF Blocked, TypeOK
  <2>3. \A u \in members : Reached(u)' = round'
    BY <2>1 DEF RoundInv, Reached, TypeOK, Blocked
  <2> QED
    BY <1>1, <2>2, <2>3, FS_EmptySet DEF RoundInv
<1> QED
  BY <1>2, <1>3, <1>4, <1>5

LEMMA EarlyArrivalStep ==
  ASSUME IInv, NEW t \in Threads, EarlyArrival(t)
  PROVE  IInv'
<1> USE DEF IInv, EarlyArrival, Completes
<1>1. t \in members /\ running
  BY InsideMeansMember
<1>2. count + 1 < size
  BY <1>1 DEF MemberInv, TypeOK
<1>3. TypeOK'
  BY <1>2, FiniteSubsets DEF TypeOK, Places
<1>4. MemberInv'
  BY <1>1, <1>2 DEF MemberInv, TypeOK
<1>5. MutexInv'
  BY ThreadsAssumption DEF MutexInv, TypeOK
<1>6. RoundInv => RoundInv'
  <2> SUFFICES ASSUME RoundInv PROVE RoundInv'
    OBVIOUS
  <2>1. Blocked \cup {t} # members
    BY <1>2, CountDecides DEF TypeOK
  <2>2. Blocked' = Blocked \cup {t} /\ t \notin Blocked
    BY DEF Blocked, TypeOK
  <2>3. count' = Cardinality(Blocked')
    BY <2>2, FiniteSubsets, FS_AddElement DEF RoundInv
  <2>4. \A u \in members : Reached(u)' = Reached(u)
    BY <1>1 DEF Reached, TypeOK
  <2> QED
    BY <2>1, <2>2, <2>3, <2>4 DEF RoundInv
<1> QED
  BY <1>3, <1>4, <1>5, <1>6

\* The size and the mutex survive a wakeup that nobody asked for.
LEMMA SpuriousWakeupStep ==
  ASSUME IInv, NEW t \in Threads, SpuriousWakeup(t)
  PROVE  IInv'
<1> USE DEF IInv, SpuriousWakeup
<1>1. TypeOK'
  BY Zenon DEF TypeOK, Places
<1>2. MemberInv'
  BY InsideMeansMember DEF MemberInv, TypeOK
<1>3. MutexInv'
  BY DEF MutexInv, TypeOK
<1> QED
  BY <1>1, <1>2, <1>3

LEMMA StutterStep ==
  ASSUME IInv, UNCHANGED vars
  PROVE  IInv'
BY DEF IInv, TypeOK, MemberInv, Blocked, RoundInv, Reached, MutexInv, vars

\* The counter, the rounds and the mutex agree in every reachable state:
\* Synchronization.cpp:27-62 under any interleaving of any number of threads.
THEOREM Invariance == Spec => []IInv
<1>1. ASSUME IInv, [Next]_vars
      PROVE  IInv'
  <2> USE <1>1
  <2>1. CASE \E t \in Threads : Add(t) \/ Remove(t)
    BY <2>1, SetUpStep
  <2>2. CASE Open
    BY <2>2, OpenStep
  <2>3. CASE \E t \in Threads : LockMutex(t) \/ InWait(t) \/ SpuriousWakeup(t)
    <3>1. PICK t \in Threads : LockMutex(t) \/ InWait(t) \/ SpuriousWakeup(t)
      BY <2>3
    <3> QED
      BY <3>1, QuietStep, LastArrivalStep, EarlyArrivalStep, SpuriousWakeupStep
         DEF InWait
  <2>4. CASE Finished \/ UNCHANGED vars
    BY <2>4, StutterStep DEF Finished
  <2> QED
    BY <2>1, <2>2, <2>3, <2>4 DEF Next
<1> QED
  BY InitIInv, <1>1, PTL DEF Spec

\* A barrier that wakes only whom it notified lets nobody back early
\* (SyncBarrier::Wait, Synchronization.cpp:47-62).
THEOREM NobodyReturnsEarly == Spec => []NoEarlyReturn
<1>1. IInv => NoEarlyReturn
  <2> SUFFICES ASSUME IInv, ~disturbed, NEW t \in members, NEW u \in members
               PROVE  passes[t] <= Calls(u)
    BY DEF NoEarlyReturn, BlocksUntilAllArrive
  <2>1. Reached(t) = round /\ Reached(u) = round
    BY DEF IInv, RoundInv
  <2>2. passes[t] \in Nat /\ passes[u] \in Nat
    BY DEF IInv, TypeOK
  <2> QED
    BY <2>1, <2>2 DEF Reached, Calls
<1> QED
  BY Invariance, <1>1, PTL

\* No thread sleeps through the notify_all meant for it.
THEOREM NoLostWakeup == Spec => []SleepersAreAwaitingSomeone
<1>1. IInv => SleepersAreAwaitingSomeone
  <2> SUFFICES ASSUME IInv, ~disturbed, NEW t \in Blocked
               PROVE  \E u \in members : Calls(u) < Calls(t)
    BY DEF SleepersAreAwaitingSomeone
  <2>1. t \in members /\ t \in Threads /\ pc[t] = "blocked"
    BY InsideMeansMember DEF Blocked
  <2>2. PICK u \in members : u \notin Blocked
    BY <2>1, InsideMeansMember DEF IInv, RoundInv, Blocked
  <2>3. u \in Threads /\ pc[u] # "blocked" /\ passes[t] \in Nat /\ passes[u] \in Nat
    BY <2>1, <2>2 DEF IInv, TypeOK, Blocked
  <2>4. Reached(t) = round /\ Reached(u) = round
    BY <2>1 DEF IInv, RoundInv
  <2>5. Calls(u) < Calls(t)
    BY <2>1, <2>3, <2>4 DEF Reached, Calls
  <2> QED
    BY <2>5
<1> QED
  BY Invariance, <1>1, PTL

\* Whatever wakes the sleepers, the counter never reaches the size without being
\* reset: the comparison with == (Synchronization.cpp:53) is never too late.
THEOREM TheCountStaysBelow == Spec => []CountBelowSize
<1>1. IInv => CountBelowSize
  BY DEF IInv, MemberInv, CountBelowSize
<1> QED
  BY Invariance, <1>1, PTL

------------------------------------------------------------------------------
(* SyncBarrier implements BarrierContract: the safety half. *)

\* The calls as the contract sees them.
CallsSeen == [t \in Threads |-> Calls(t)]

LEMMA ContractInit == Init => Contract!Init
BY DEF Init, Contract!Init, Calls

\* A step that leaves passes alone and nobody's place in or out of Wait.
LEMMA ContractSame ==
  ASSUME UNCHANGED <<members, passes, disturbed>>,
         \A u \in Threads : Calls(u)' = Calls(u)
  PROVE  UNCHANGED Contract!contractVars
BY DEF Contract!contractVars

\* The thread's arrival, whether it is the last or not, is its call.
LEMMA ContractCall ==
  ASSUME IInv, NEW t \in Threads, LastArrival(t) \/ EarlyArrival(t)
  PROVE  Contract!Call(t)
<1>1. t \in members
  BY InsideMeansMember DEF LastArrival, EarlyArrival, Completes, Notified
<1>2. passes[t] \in Nat /\ pc \in [Threads -> Places]
  BY DEF IInv, TypeOK
<1>3. Calls(t) = passes[t] /\ Calls(t)' = Calls(t) + 1
  BY <1>2 DEF LastArrival, EarlyArrival, Completes, Notified, Calls
<1>4. \A u \in Threads \ {t} : Calls(u)' = Calls(u)
  BY <1>2 DEF LastArrival, EarlyArrival, Completes, Notified, Calls, Blocked
<1>5. CallsSeen' = [CallsSeen EXCEPT ![t] = @ + 1]
  BY <1>3, <1>4 DEF CallsSeen
<1>6. UNCHANGED <<members, passes, disturbed>>
  BY DEF LastArrival, EarlyArrival, Completes, Notified
<1> QED
  BY <1>1, <1>3, <1>5, <1>6 DEF Contract!Call, CallsSeen

\* Leaving Wait is the return, and every member has made the call by then.
LEMMA ContractReturn ==
  ASSUME IInv, ~disturbed, NEW t \in Threads, LeaveWait(t)
  PROVE  Contract!Return(t)
<1>1. t \in members
  BY InsideMeansMember DEF LeaveWait
<1>2. /\ passes \in [Threads -> Nat] /\ pc \in [Threads -> Places]
      /\ members \in SUBSET Threads
  BY DEF IInv, TypeOK
<1>3. \A u \in members : passes[t] < Calls(u)
  <2> SUFFICES ASSUME NEW u \in members PROVE passes[t] < Calls(u)
    OBVIOUS
  <2>1. Reached(t) = round /\ Reached(u) = round
    BY <1>1 DEF IInv, RoundInv
  <2>2. passes[t] \in Nat /\ passes[u] \in Nat /\ pc[t] = "leaving"
    BY <1>2 DEF LeaveWait
  <2> QED
    BY <2>1, <2>2 DEF Reached, Calls
<1>4. \A u \in Threads : Calls(u)' = Calls(u)
  BY <1>2 DEF LeaveWait, Calls
<1> QED
  BY <1>1, <1>2, <1>3, <1>4 DEF Contract!Return, LeaveWait

\* Once excused, the barrier may let anyone back.
LEMMA ContractExcusedReturn ==
  ASSUME IInv, disturbed, NEW t \in Threads, LeaveWait(t)
  PROVE  Contract!ExcusedReturn(t)
<1>1. passes \in [Threads -> Nat] /\ pc \in [Threads -> Places]
  BY DEF IInv, TypeOK
<1>2. \A u \in Threads : Calls(u)' = Calls(u)
  BY <1>1 DEF LeaveWait, Calls
<1>3. passes[t] < Calls(t)
  BY <1>1 DEF LeaveWait, Calls
<1> QED
  BY <1>2, <1>3 DEF Contract!ExcusedReturn, LeaveWait

\* A wakeup without notification is what excuses it.
LEMMA ContractExcuse ==
  ASSUME IInv, NEW t \in Threads, SpuriousWakeup(t)
  PROVE  Contract!Excuse
<1>1. \A u \in Threads : Calls(u)' = Calls(u)
  BY DEF SpuriousWakeup, Calls, IInv, TypeOK
<1> QED
  BY <1>1 DEF Contract!Excuse, SpuriousWakeup

LEMMA ContractNext ==
  ASSUME IInv, [Next]_vars
  PROVE  [Contract!Next]_(Contract!contractVars)
<1>1. CASE \E t \in Threads : Add(t) \/ Remove(t)
  <2>1. PICK t \in Threads : Add(t) \/ Remove(t)
    BY <1>1
  <2>2. Contract!Unused
    BY <2>1 DEF Contract!Unused, Calls, IInv, MemberInv, Add, Remove
  <2>3. CallsSeen' = CallsSeen
    BY <2>1 DEF CallsSeen, Calls, Add, Remove
  <2>4. Contract!Enroll(t) \/ Contract!Withdraw(t)
    BY <2>1, <2>2, <2>3
       DEF Contract!Enroll, Contract!Withdraw, Add, Remove, CallsSeen
  <2> QED
    BY <2>4 DEF Contract!Next
<1>2. CASE Open
  BY <1>2, ContractSame DEF Open, Calls
<1>3. CASE \E t \in Threads : LockMutex(t) \/ InWait(t) \/ SpuriousWakeup(t)
  <2>1. PICK t \in Threads : LockMutex(t) \/ InWait(t) \/ SpuriousWakeup(t)
    BY <1>3
  <2>2. CASE LockMutex(t) \/ Reacquire(t)
    <3>1. \A u \in Threads : Calls(u)' = Calls(u)
      BY <2>2 DEF LockMutex, Reacquire, Calls, IInv, TypeOK
    <3> QED
      BY <2>2, <3>1, ContractSame DEF LockMutex, Reacquire
  <2>3. CASE LastArrival(t) \/ EarlyArrival(t)
    BY <2>3, ContractCall DEF Contract!Next
  <2>4. CASE LeaveWait(t)
    BY <2>4, ContractReturn, ContractExcusedReturn DEF Contract!Next
  <2>5. CASE SpuriousWakeup(t)
    BY <2>5, ContractExcuse DEF Contract!Next
  <2> QED
    BY <2>1, <2>2, <2>3, <2>4, <2>5 DEF InWait
<1>4. CASE Finished \/ UNCHANGED vars
  BY <1>4, ContractSame DEF Finished, vars, Calls
<1> QED
  BY <1>1, <1>2, <1>3, <1>4 DEF Next

\* Every behaviour of the code's barrier is one the contract allows.
THEOREM ImplementsContract == Spec => Contract!SafetySpec
BY ContractInit, ContractNext, Invariance, PTL DEF Spec, Contract!SafetySpec

------------------------------------------------------------------------------
(* What the liveness of the contract comes down to: whoever may return is not   *)
(* asleep, and somebody in Wait can make a step (TheDueAreAwake); it stays due, *)
(* and whoever has the mutex goes on to give it back (TheDueStayDue); between   *)
(* two openings the steps are counted (EveryStepCounts), so that the mutex      *)
(* cannot be taken from a woken thread for ever. Fairness does the rest.        *)

\* When the contract has t return.
Due(t) == passes[t] < Calls(t) /\ \A u \in members : passes[t] < Calls(u)

\* The guards of what t does next in Wait.
May(t) == pc[t] \in {"counting", "leaving"} \/ (pc[t] = "woken" /\ mutex = NoThread)

\* A wait that every member has joined is over for its sleepers, and the one that has
\* to have the mutex to leave it finds it free or in the hands of one that goes on
\* (Synchronization.cpp:47-62).
THEOREM TheDueAreAwake ==
  Spec => [](\A t \in members : ~disturbed /\ Due(t) =>
               pc[t] \in {"woken", "leaving"} /\ \E u \in members : May(u))
<1>1. ASSUME IInv, SleepersAreAwaitingSomeone, NEW t \in members, ~disturbed, Due(t)
      PROVE  pc[t] \in {"woken", "leaving"} /\ \E u \in members : May(u)
  <2>1. t \in Threads /\ members \subseteq Threads /\ passes[t] \in Nat
    BY <1>1 DEF IInv, TypeOK
  <2>2. pc[t] \in {"blocked", "woken", "leaving"} /\ Calls(t) = passes[t] + 1
    BY <1>1, <2>1 DEF Due, Calls
  <2>3. pc[t] # "blocked"
    <3>1. SUFFICES ASSUME t \in Blocked PROVE FALSE
      BY <2>1 DEF Blocked
    <3>2. PICK u \in members : Calls(u) < Calls(t)
      BY <1>1, <3>1 DEF SleepersAreAwaitingSomeone
    <3>3. Calls(u) \in Nat /\ passes[t] < Calls(u)
      BY <1>1, <2>1, <3>2 DEF IInv, TypeOK, Calls, Due
    <3> QED
      BY <2>1, <2>2, <3>2, <3>3
  <2>4. CASE pc[t] = "leaving" \/ mutex = NoThread
    BY <2>2, <2>3, <2>4 DEF May
  <2>5. CASE mutex # NoThread
    <3>1. mutex \in Threads /\ pc[mutex] \in {"counting", "leaving"}
      BY <1>1, <2>5 DEF IInv, TypeOK, MutexInv
    <3>2. mutex \in members
      BY <1>1, <3>1, InsideMeansMember
    <3> QED
      BY <2>2, <2>3, <3>1, <3>2 DEF May
  <2> QED
    BY <2>2, <2>3, <2>4, <2>5
<1>2. IInv /\ SleepersAreAwaitingSomeone =>
        \A t \in members : ~disturbed /\ Due(t) =>
          pc[t] \in {"woken", "leaving"} /\ \E u \in members : May(u)
  BY <1>1
<1> QED
  BY Invariance, NoLostWakeup, <1>2, PTL

\* Steps of Wait change the calls and the returns of the one that makes them, upwards.
LEMMA CallsGrow ==
  ASSUME IInv, NEW t \in Threads, LockMutex(t) \/ InWait(t) \/ SpuriousWakeup(t),
         NEW u \in Threads
  PROVE  /\ Calls(u) \in Nat /\ Calls(u)' \in Nat /\ Calls(u) <= Calls(u)'
         /\ pc[u] \in {"woken", "leaving"} => Calls(u)' = Calls(u)
         /\ passes'[u] # passes[u] => u = t /\ LeaveWait(t)
         /\ members' = members
         /\ u # t /\ pc[u] \in {"counting", "woken", "leaving"} => pc'[u] = pc[u]
<1> USE DEF IInv, TypeOK, Calls
<1>1. CASE LockMutex(t) \/ Reacquire(t) \/ SpuriousWakeup(t)
  BY <1>1 DEF LockMutex, Reacquire, SpuriousWakeup
<1>2. CASE EarlyArrival(t)
  BY <1>2 DEF EarlyArrival
<1>3. CASE LastArrival(t)
  BY <1>3 DEF LastArrival, Notified, Blocked
<1>4. CASE LeaveWait(t)
  BY <1>4 DEF LeaveWait
<1> QED
  BY <1>1, <1>2, <1>3, <1>4 DEF InWait

\* Whoever is due stays so until it returns; whoever has the mutex keeps it until its
\* own next step.
THEOREM TheDueStayDue ==
  Spec => [][\A t \in members :
               /\ Due(t) => Due(t)' \/ LeaveWait(t)
               /\ pc[t] \in {"counting", "leaving"} => pc'[t] = pc[t] \/ InWait(t)]_vars
<1>1. ASSUME IInv, Next, NEW t \in members, ~UNCHANGED vars
      PROVE  /\ Due(t) => Due(t)' \/ LeaveWait(t)
             /\ pc[t] \in {"counting", "leaving"} => pc'[t] = pc[t] \/ InWait(t)
  <2>1. t \in Threads /\ members \subseteq Threads /\ passes[t] \in Nat
    BY <1>1 DEF IInv, TypeOK
  <2>2. CASE \E u \in Threads : LockMutex(u) \/ InWait(u) \/ SpuriousWakeup(u)
    <3>1. PICK u \in Threads : LockMutex(u) \/ InWait(u) \/ SpuriousWakeup(u)
      BY <2>2
    <3>2. ASSUME Due(t), ~LeaveWait(t) PROVE Due(t)'
      <4>1. passes'[t] = passes[t] /\ members' = members
        BY <1>1, <2>1, <3>1, <3>2, CallsGrow
      <4>2. \A v \in Threads : /\ Calls(v) \in Nat /\ Calls(v)' \in Nat
                              /\ Calls(v) <= Calls(v)'
        BY <1>1, <3>1, CallsGrow
      <4> HIDE DEF Calls
      <4> QED
        BY <2>1, <3>2, <4>1, <4>2 DEF Due
    <3>3. ASSUME pc[t] \in {"counting", "leaving"}, ~InWait(t) PROVE pc'[t] = pc[t]
      <4>1. u # t
        BY <3>1, <3>3 DEF LockMutex, SpuriousWakeup
      <4> QED
        BY <1>1, <2>1, <3>1, <3>3, <4>1, CallsGrow
    <3> QED
      BY <3>2, <3>3
  <2>3. CASE (\E u \in Threads : Add(u) \/ Remove(u)) \/ Open
    <3>1. pc[t] = "outside" /\ passes[t] = 0
      BY <1>1, <2>1, <2>3 DEF IInv, MemberInv, Add, Remove, Open
    <3> QED
      BY <3>1 DEF Due, Calls
  <2> QED
    BY <1>1, <2>2, <2>3 DEF Next, Finished
<1>2. IInv /\ [Next]_vars =>
        [\A t \in members :
           /\ Due(t) => Due(t)' \/ LeaveWait(t)
           /\ pc[t] \in {"counting", "leaving"} => pc'[t] = pc[t] \/ InWait(t)]_vars
  BY <1>1
<1> QED
  BY Invariance, <1>2, PTL DEF Spec

\* The way of a member from one opening to the next.
Spot(p) ==
  CASE p = "woken" -> 0 [] p = "leaving" -> 1 [] p = "outside" -> 2
    [] p = "counting" -> 3 [] p = "blocked" -> 4

Left == {p \in members \X (1 .. 4) : Spot(pc[p[1]]) < p[2]}
StepsLeft == Cardinality(Left)

\* Between two openings every step takes one off what is left to the members, but for
\* a wakeup that nobody asked for.
THEOREM EveryStepCounts ==
  Spec => [][running /\ round' = round
               => StepsLeft' < StepsLeft \/ \E t \in Threads : SpuriousWakeup(t)]_vars
<1>1. ASSUME IInv, Next, ~UNCHANGED vars, running, round' = round,
             \A t \in Threads : ~SpuriousWakeup(t)
      PROVE  StepsLeft' < StepsLeft
  <2>1. PICK t \in Threads : LockMutex(t) \/ InWait(t)
    BY <1>1 DEF Next, Add, Remove, Open, Finished
  <2>2. ~LastArrival(t)
    <3>1. round \in Nat
      BY <1>1 DEF IInv, TypeOK
    <3>2. LastArrival(t) => round' = round + 1
      BY DEF LastArrival
    <3> QED
      BY <1>1, <3>1, <3>2
  <2>3. /\ members' = members /\ \A u \in Threads \ {t} : pc'[u] = pc[u]
        /\ \/ pc[t] = "outside" /\ pc'[t] = "counting"
           \/ pc[t] = "counting" /\ pc'[t] = "blocked"
           \/ pc[t] = "woken" /\ pc'[t] = "leaving"
           \/ pc[t] = "leaving" /\ pc'[t] = "outside"
    BY <1>1, <2>1, <2>2
       DEF IInv, TypeOK, InWait, LockMutex, EarlyArrival, Reacquire, LeaveWait
  <2>4. t \in members /\ members \in SUBSET Threads
    BY <1>1, <2>1, InsideMeansMember DEF IInv, TypeOK, InWait, LockMutex, EarlyArrival,
       LastArrival, Reacquire, LeaveWait
  <2>5. Spot(pc[t]) < Spot(pc'[t]) /\ Spot(pc[t]) \in 0 .. 4 /\ Spot(pc'[t]) \in 0 .. 4
    BY <2>3 DEF Spot
  <2> DEFINE point == <<t, Spot(pc'[t])>>
  <2>6. Left' \in SUBSET Left
    <3>1. SUFFICES ASSUME NEW u \in members, NEW k \in 1 .. 4, Spot(pc'[u]) < k
                   PROVE  Spot(pc[u]) < k
      BY <2>3 DEF Left
    <3> QED
      BY <2>3, <2>4, <2>5, <3>1
  <2>7. point \in Left /\ point \notin Left'
    BY <2>3, <2>4, <2>5 DEF Left
  <2>8. IsFiniteSet(Left)
    <3>1. ASSUME NEW n \in Nat PROVE IsFiniteSet(1 .. n)
      BY FS_Interval
    <3>2. IsFiniteSet(members \X (1 .. 4))
      BY <1>1, <3>1, FiniteSubsets, FS_Product, 4 \in Nat DEF IInv
    <3> QED
      BY <3>2, FS_Subset DEF Left
  <2>9. /\ IsFiniteSet(Left') /\ Cardinality(Left') <= Cardinality(Left)
        /\ Cardinality(Left) = Cardinality(Left') => Left = Left'
    BY <2>6, <2>8, FS_Subset
  <2>10. Cardinality(Left) \in Nat /\ Cardinality(Left') \in Nat
    BY <2>8, <2>9, FS_CardinalityType
  <2> QED
    BY <2>7, <2>9, <2>10 DEF StepsLeft
<1>2. IInv /\ [Next]_vars =>
        [running /\ round' = round
           => StepsLeft' < StepsLeft \/ \E t \in Threads : SpuriousWakeup(t)]_vars
  BY <1>1
<1> QED
  BY Invariance, <1>2, PTL DEF Spec

==============================================================================
