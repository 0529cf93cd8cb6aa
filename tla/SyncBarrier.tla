----------------------------- MODULE SyncBarrier -----------------------------
(***************************************************************************)
(* class SyncBarrier of Synchronization.hpp/.cpp at the grain of its mutex *)
(* and its condition variable.                                             *)
(*                                                                         *)
(*   size    m_barrier_size, moved by Add and Remove                       *)
(*   count   m_thread_count                                                *)
(*   mutex   the owner of m_mutex_cond                                     *)
(*   pc[t]   where t stands in Wait():                                     *)
(*             "outside"   not in Wait                                     *)
(*             "counting"  owns the mutex, about to run m_thread_count++   *)
(*             "blocked"   asleep in m_cond.wait                           *)
(*             "woken"     out of its sleep, has yet to own the mutex again*)
(*             "leaving"   owns the mutex, about to return                 *)
(*                                                                         *)
(* The framework calls Add and Remove from one thread while the graph is   *)
(* being built, and no thread reaches Wait before SyncStart::Start has     *)
(* opened the gate: "running" is that gate.                                *)
(*                                                                         *)
(* members, passes, round and disturbed are history variables: the threads *)
(* on whose behalf Add was called, the number of waits each thread has     *)
(* come back from, the number of times the barrier has opened, and whether *)
(* any sleeper was ever woken without a notification.                      *)
(***************************************************************************)
EXTENDS Naturals, FiniteSets

CONSTANTS
  Threads,          \* the threads that may be added to the barrier
  NoThread,         \* the owner of a free mutex
  Restless,         \* those whose m_cond.wait may return without a notification
  MaxWaits          \* bound: the waits a thread makes

ASSUME ThreadsAssumption == IsFiniteSet(Threads) /\ NoThread \notin Threads
ASSUME BoundsAssumption == Restless \subseteq Threads /\ MaxWaits \in Nat

VARIABLES size, count, mutex, pc, running, members, passes, round, disturbed

vars == <<size, count, mutex, pc, running, members, passes, round, disturbed>>

Places == {"outside", "counting", "blocked", "woken", "leaving"}

TypeOK ==
  /\ size \in 0 .. Cardinality(Threads)
  /\ count \in 0 .. Cardinality(Threads)
  /\ mutex \in Threads \cup {NoThread}
  /\ pc \in [Threads -> Places]
  /\ running \in BOOLEAN
  /\ members \in SUBSET Threads
  /\ passes \in [Threads -> Nat]
  /\ round \in Nat
  /\ disturbed \in BOOLEAN

Blocked == {t \in Threads : pc[t] = "blocked"}

\* The waits t has begun: those it came back from and the one it is in.
Calls(t) == passes[t] + (IF pc[t] \in {"blocked", "woken", "leaving"} THEN 1 ELSE 0)

Init ==
  /\ size = 0
  /\ count = 0
  /\ mutex = NoThread
  /\ pc = [t \in Threads |-> "outside"]
  /\ running = FALSE
  /\ members = {}
  /\ passes = [t \in Threads |-> 0]
  /\ round = 0
  /\ disturbed = FALSE
------------------------------------------------------------------------------
(* The barrier is set up. *)

Add(t) ==
  /\ ~running /\ t \notin members
  /\ size' = size + 1
  /\ members' = members \cup {t}
  /\ UNCHANGED <<count, mutex, pc, running, passes, round, disturbed>>

Remove(t) ==
  /\ ~running /\ t \in members
  /\ size' = size - 1
  /\ members' = members \ {t}
  /\ UNCHANGED <<count, mutex, pc, running, passes, round, disturbed>>

\* SyncStart::Start lets the threads go; from here on they may call Wait.
Open ==
  /\ ~running /\ members # {}
  /\ running' = TRUE
  /\ UNCHANGED <<size, count, mutex, pc, members, passes, round, disturbed>>
------------------------------------------------------------------------------
(* Wait(), step by step. *)

LockMutex(t) ==
  /\ running /\ t \in members /\ passes[t] < MaxWaits
  /\ pc[t] = "outside" /\ mutex = NoThread
  /\ mutex' = t
  /\ pc' = [pc EXCEPT ![t] = "counting"]
  /\ UNCHANGED <<size, count, running, members, passes, round, disturbed>>

\* Does one more complete the count? (Slips, used by no specification: it is compared
\* before it is incremented, or one thread too early.)
LateTestSlip == count = size
EarlyTestSlip == count + 2 >= size
Completes == count + 1 = size

\* The sleepers that notify_all reaches, and of which notify_one takes one.
NotifyOneSlip == IF Blocked = {} THEN {} ELSE {CHOOSE t \in Blocked : TRUE}
Notified == Blocked

\* The thread that completes the count resets it, wakes the sleepers and goes
\* on to return, still owning the mutex.
LastArrival(t) ==
  /\ pc[t] = "counting" /\ Completes
  /\ count' = 0
  /\ pc' = [u \in Threads |-> IF u = t THEN "leaving"
                              ELSE IF u \in Notified THEN "woken" ELSE pc[u]]
  /\ round' = round + 1
  /\ UNCHANGED <<size, mutex, running, members, passes, disturbed>>

\* Any other thread goes to sleep, which gives the mutex back.
EarlyArrival(t) ==
  /\ pc[t] = "counting" /\ ~Completes
  /\ count' = count + 1
  /\ mutex' = NoThread
  /\ pc' = [pc EXCEPT ![t] = "blocked"]
  /\ UNCHANGED <<size, running, members, passes, round, disturbed>>

\* std::condition_variable::wait may return with no notification.
SpuriousWakeup(t) ==
  /\ t \in Restless /\ pc[t] = "blocked"
  /\ pc' = [pc EXCEPT ![t] = "woken"]
  /\ disturbed' = TRUE
  /\ UNCHANGED <<size, count, mutex, running, members, passes, round>>

\* The end of m_cond.wait: the sleeper owns the mutex again.
Reacquire(t) ==
  /\ pc[t] = "woken" /\ mutex = NoThread
  /\ mutex' = t
  /\ pc' = [pc EXCEPT ![t] = "leaving"]
  /\ UNCHANGED <<size, count, running, members, passes, round, disturbed>>

\* Wait returns, the unique_lock gives the mutex back.
LeaveWait(t) ==
  /\ pc[t] = "leaving"
  /\ mutex' = NoThread
  /\ pc' = [pc EXCEPT ![t] = "outside"]
  /\ passes' = [passes EXCEPT ![t] = @ + 1]
  /\ UNCHANGED <<size, count, running, members, round, disturbed>>

\* A thread in Wait that the scheduler does not ignore for ever.
InWait(t) == LastArrival(t) \/ EarlyArrival(t) \/ Reacquire(t) \/ LeaveWait(t)

\* Every member has made its MaxWaits waits (an artefact of the bound). Members
\* thrown out of step by a spurious wakeup may sleep on when the others are done.
Finished ==
  /\ running
  /\ \A t \in members :
       \/ pc[t] = "outside" /\ passes[t] = MaxWaits
       \/ disturbed /\ pc[t] = "blocked"
  /\ UNCHANGED vars

Next ==
  \/ \E t \in Threads : Add(t) \/ Remove(t)
  \/ Open
  \/ \E t \in Threads : LockMutex(t) \/ InWait(t) \/ SpuriousWakeup(t)
  \/ Finished

Spec == Init /\ [][Next]_vars /\ \A t \in Threads : WF_vars(InWait(t))
------------------------------------------------------------------------------
(* Properties. *)

\* No thread comes back from its k-th Wait before every member has made its
\* k-th call ("Blocking wait until number of threads reach count",
\* Synchronization.hpp:59), whatever the order in which the threads that were
\* woken regain the mutex and come round for the next Wait.
BlocksUntilAllArrive == \A t, u \in members : passes[t] <= Calls(u)

\* The code keeps this as long as nobody is woken without a notification.
NoEarlyReturn == ~disturbed => BlocksUntilAllArrive

\* No lost wakeup: as long as nobody was woken without a notification, a thread
\* asleep in the barrier is waiting for some member that has not yet made the same
\* call; it never sleeps through the notify_all of Synchronization.cpp:56.
SleepersAreAwaitingSomeone ==
  ~disturbed => \A t \in Blocked : \E u \in members : Calls(u) < Calls(t)

\* The counter never jumps past the size, whatever wakes the sleepers: Wait
\* compares with == (Synchronization.cpp:53), so a counter that once reached the
\* size without being reset would never open the barrier again.
CountBelowSize == running => count < size

\* The implementation keeps the promise of BarrierContract: a call is made when
\* the thread is counted, a return when Wait gives the mutex back. A spurious
\* wakeup is what excuses the barrier.
Contract == INSTANCE BarrierContract
              WITH calls <- [t \in Threads |-> Calls(t)], returns <- passes,
                   excused <- disturbed

KeepsContract == Contract!Spec
------------------------------------------------------------------------------
(* The inductive invariant behind them: what holds whatever wakes the sleepers, *)
(* and what holds until one is woken without a notification.                    *)

\* How far a thread is, by the place where it stands: a thread that was released
\* by the current opening has not been counted as having passed it.
Reached(t) == passes[t] + (IF pc[t] \in {"woken", "leaving"} THEN 1 ELSE 0)

MemberInv ==
  /\ size = Cardinality(members)
  /\ running => members # {} /\ count < size
  /\ ~running => round = 0 /\ count = 0 /\ ~disturbed
  /\ \A t \in Threads : (~running \/ t \notin members)
                        => pc[t] = "outside" /\ passes[t] = 0

MutexInv == \A t \in Threads : pc[t] \in {"counting", "leaving"} <=> mutex = t

RoundInv == /\ count = Cardinality(Blocked)
            /\ members # {} => Blocked # members
            /\ \A t \in members : Reached(t) = round

IInv == TypeOK /\ MemberInv /\ MutexInv /\ (~disturbed => RoundInv)

==============================================================================
