--------------------------- MODULE BarrierContract ---------------------------
(***************************************************************************)
(* What a reusable barrier promises to the threads enrolled in it.         *)
(* Synchronization.hpp:53-60 announces three operations: add a thread,     *)
(* remove a thread, and "Blocking wait until number of threads reach       *)
(* count".  Nothing is said here of counters, locks or condition variables:*)
(* a thread has made calls[t] calls of Wait and has come back from         *)
(* returns[t] of them, and its next return must find that every enrolled   *)
(* thread has called at least once more than it has returned.  A barrier   *)
(* that is disturbed from outside is excused from all of it.               *)
(***************************************************************************)
EXTENDS Naturals

CONSTANT Threads

VARIABLES
  members,   \* the threads enrolled in the barrier
  calls,     \* calls[t]: the number of waits t has begun
  returns,   \* returns[t]: the number of waits t has come back from
  excused    \* has the barrier been disturbed?

contractVars == <<members, calls, returns, excused>>

Init ==
  /\ members = {}
  /\ calls = [t \in Threads |-> 0]
  /\ returns = [t \in Threads |-> 0]
  /\ excused = FALSE

\* Membership is settled before the barrier is first used.
Unused == \A t \in Threads : calls[t] = 0

Enroll(t) ==
  /\ Unused
  /\ members' = members \cup {t}
  /\ UNCHANGED <<calls, returns, excused>>

Withdraw(t) ==
  /\ Unused
  /\ members' = members \ {t}
  /\ UNCHANGED <<calls, returns, excused>>

Call(t) ==
  /\ t \in members
  /\ calls[t] = returns[t]
  /\ calls' = [calls EXCEPT ![t] = @ + 1]
  /\ UNCHANGED <<members, returns, excused>>

Return(t) ==
  /\ returns[t] < calls[t]
  /\ \A u \in members : returns[t] < calls[u]
  /\ returns' = [returns EXCEPT ![t] = @ + 1]
  /\ UNCHANGED <<members, calls, excused>>

\* The disturbance, and a return that it makes possible.
Excuse ==
  /\ excused' = TRUE
  /\ UNCHANGED <<members, calls, returns>>

ExcusedReturn(t) ==
  /\ excused /\ returns[t] < calls[t]
  /\ returns' = [returns EXCEPT ![t] = @ + 1]
  /\ UNCHANGED <<members, calls, excused>>

Next ==
  \/ Excuse
  \/ \E t \in Threads : Enroll(t) \/ Withdraw(t) \/ Call(t) \/ Return(t) \/ ExcusedReturn(t)

\* The safety half of the promise, and the whole of it: a wait that all the
\* members have joined does end.
SafetySpec == Init /\ [][Next]_contractVars

Spec == SafetySpec /\ \A t \in Threads : WF_contractVars(~excused /\ Return(t))

==============================================================================
