------------------------------ MODULE SyncStart ------------------------------
(***************************************************************************)
(* class SyncStart of Synchronization.hpp/.cpp, the gate the threads of    *)
(* operations and edges wait at until the host's first Run (or, if there   *)
(* was none, its destructor) opens it.                                     *)
(*                                                                         *)
(*   num     m_num_wait_cond                                               *)
(*   pc[t]   "unborn"   its std::thread is not created yet                 *)
(*           "new"      created, on its way to Wait                        *)
(*           "waiting"  asleep in m_cond.wait                              *)
(*           "woken"    out of its sleep, has yet to return from Wait      *)
(*           "through"  past the gate                                      *)
(*   host    "building" the graph, "polling" in the loop of Start,         *)
(*           "notifying" between the loop and notify_all, "started"        *)
(*                                                                         *)
(* Each step below holds m_mutex_cond from its first line to its last, or  *)
(* not at all (notify_all), so the mutex itself needs no variable.         *)
(***************************************************************************)
EXTENDS Naturals, FiniteSets

CONSTANTS
  Threads,          \* the threads the host may create
  Restless          \* those whose m_cond.wait may return without a notification

ASSUME StartAssumption == IsFiniteSet(Threads) /\ Restless \subseteq Threads

VARIABLES num, pc, host

vars == <<num, pc, host>>

Places == {"unborn", "new", "waiting", "woken", "through"}

TypeOK ==
  /\ num \in 0 .. Cardinality(Threads)
  /\ pc \in [Threads -> Places]
  /\ host \in {"building", "polling", "notifying", "started"}

Created == {t \in Threads : pc[t] # "unborn"}
Arrived == {t \in Threads : pc[t] \notin {"unborn", "new"}}

Init ==
  /\ num = 0
  /\ pc = [t \in Threads |-> "unborn"]
  /\ host = "building"
------------------------------------------------------------------------------
(* Plausible slips, used by no specification. *)

\* The thread sleeps without having counted itself.
ArriveSlip(t) ==
  /\ pc[t] = "new"
  /\ pc' = [pc EXCEPT ![t] = "waiting"]
  /\ UNCHANGED <<num, host>>

\* The host goes on with one thread still on its way.
PollSlip ==
  /\ host = "polling"
  /\ num + 1 >= Cardinality(Created)
  /\ host' = "notifying"
  /\ UNCHANGED <<num, pc>>

\* The notification comes inside the loop, at every turn of it.
ReleaseSlip ==
  /\ host = "polling"
  /\ pc' = [t \in Threads |-> IF pc[t] = "waiting" THEN "woken" ELSE pc[t]]
  /\ host' = IF num = Cardinality(Created) THEN "started" ELSE "polling"
  /\ UNCHANGED num

\* notify_one in the place of notify_all.
NotifyOneSlip ==
  /\ host = "notifying"
  /\ \/ \E t \in Threads : pc[t] = "waiting" /\ pc' = [pc EXCEPT ![t] = "woken"]
     \/ (\A t \in Threads : pc[t] # "waiting") /\ UNCHANGED pc
  /\ host' = "started"
  /\ UNCHANGED num
------------------------------------------------------------------------------
\* m_threads.emplace_back( &...::ThreadStart, ..., &m_sync_start, ... )
Create(t) ==
  /\ host = "building" /\ pc[t] = "unborn"
  /\ pc' = [pc EXCEPT ![t] = "new"]
  /\ UNCHANGED <<num, host>>

\* SyncStart::Wait up to the sleep: counted and asleep in one critical section.
Arrive(t) ==
  /\ pc[t] = "new"
  /\ num' = num + 1
  /\ pc' = [pc EXCEPT ![t] = "waiting"]
  /\ UNCHANGED host

SpuriousWakeup(t) ==
  /\ t \in Restless /\ pc[t] = "waiting"
  /\ pc' = [pc EXCEPT ![t] = "woken"]
  /\ UNCHANGED <<num, host>>

\* The thread regains the mutex and Wait returns.
Leave(t) ==
  /\ pc[t] = "woken"
  /\ pc' = [pc EXCEPT ![t] = "through"]
  /\ UNCHANGED <<num, host>>

\* Start( m_threads.size() ) is called: no thread is created from here on.
EnterStart ==
  /\ host = "building"
  /\ host' = "polling"
  /\ UNCHANGED <<num, pc>>

\* The turn of the loop that finds m_num_wait_cond = num_threads. The others
\* change nothing.
Poll ==
  /\ host = "polling"
  /\ num = Cardinality(Created)
  /\ host' = "notifying"
  /\ UNCHANGED <<num, pc>>

NotifyAll ==
  /\ host = "notifying"
  /\ pc' = [t \in Threads |-> IF pc[t] = "waiting" THEN "woken" ELSE pc[t]]
  /\ host' = "started"
  /\ UNCHANGED num

\* Start has returned and every thread is past the gate.
Opened ==
  /\ host = "started" /\ \A t \in Created : pc[t] = "through"
  /\ UNCHANGED vars

Step(t) == Arrive(t) \/ Leave(t)

Next ==
  \/ \E t \in Threads : Create(t) \/ Step(t) \/ SpuriousWakeup(t)
  \/ EnterStart \/ Poll \/ NotifyAll
  \/ Opened

Spec ==
  /\ Init /\ [][Next]_vars
  /\ WF_vars(Poll) /\ WF_vars(NotifyAll)
  /\ \A t \in Threads : WF_vars(Step(t))
------------------------------------------------------------------------------
(* Properties. *)

\* No thread is past the gate before the host opened it ("Wait to start
\* execution", Synchronization.hpp:87), except one that was woken by nobody: the
\* wait of Synchronization.cpp:85 has no predicate to hold such a thread.
NobodyThroughEarly ==
  host # "started" => \A t \in Threads \ Restless : pc[t] # "through"

\* notify_all, which no lock protects (Synchronization.cpp:100), comes when no
\* created thread can still be on its way to the sleep it would then never be
\* woken from.
NobodyLeftBehind ==
  host = "started" => \A t \in Created : pc[t] \in {"woken", "through"}

\* Start returns and lets every created thread through, also when some of them
\* were woken by nobody and went through before ("Unloack all waiting threads",
\* Synchronization.hpp:90).
EveryoneGetsThrough ==
  host = "polling" ~>
    (host = "started" /\ \A t \in Created : pc[t] = "through")

\* The counter is the number of threads that have been through Wait's critical
\* section, and the host leaves its loop when that is all of them.
IInv ==
  /\ TypeOK
  /\ num = Cardinality(Arrived)
  /\ host \in {"notifying", "started"} => Arrived = Created
  /\ NobodyLeftBehind
  /\ host # "started" =>
       \A t \in Threads \ Restless : pc[t] \notin {"woken", "through"}

==============================================================================
