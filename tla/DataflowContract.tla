-------------------------- MODULE DataflowContract --------------------------
(***************************************************************************)
(* What FlowCL promises of a graph that is run: Run executes every         *)
(* operation and every transfer once, an operation only after what it      *)
(* depends on has completed and been brought to its device, and Run        *)
(* returns when all of it is finished (fcldocu.pdf, on Context::Run and on *)
(* Operation::SetArgDependency).  There are no threads, barriers or locks  *)
(* in it.                                                                  *)
(***************************************************************************)
EXTENDS Naturals

CONSTANTS
  Tasks,      \* the operations and the transfers
  Needs       \* Needs[t]: the tasks that t must wait for

VARIABLES
  runs,       \* the calls of Run so far
  returned,   \* the calls of Run that have returned
  began,      \* began[t]: how many times t was started
  ended,      \* ended[t]: how many times t came to its end
  closed      \* is the context being destroyed, or gone?

contractVars == <<runs, returned, began, ended, closed>>

Init ==
  /\ runs = 0 /\ returned = 0
  /\ began = [t \in Tasks |-> 0]
  /\ ended = [t \in Tasks |-> 0]
  /\ closed = FALSE

BeginRun ==
  /\ ~closed /\ returned = runs
  /\ runs' = runs + 1
  /\ UNCHANGED <<returned, began, ended, closed>>

BeginTask(t) ==
  /\ began[t] = ended[t] /\ began[t] < runs
  /\ \A u \in Needs[t] : began[t] < ended[u]
  /\ began' = [began EXCEPT ![t] = @ + 1]
  /\ UNCHANGED <<runs, returned, ended, closed>>

EndTask(t) ==
  /\ ended[t] < began[t]
  /\ ended' = [ended EXCEPT ![t] = @ + 1]
  /\ UNCHANGED <<runs, returned, began, closed>>

EndRun ==
  /\ returned < runs
  /\ \A t \in Tasks : ended[t] = runs
  /\ returned' = runs
  /\ UNCHANGED <<runs, began, ended, closed>>

Close ==
  /\ ~closed /\ returned = runs
  /\ closed' = TRUE
  /\ UNCHANGED <<runs, returned, began, ended>>

Next ==
  \/ BeginRun \/ EndRun \/ Close
  \/ \E t \in Tasks : BeginTask(t) \/ EndTask(t)

SafetySpec == Init /\ [][Next]_contractVars

Spec ==
  /\ SafetySpec
  /\ WF_contractVars(EndRun)
  /\ \A t \in Tasks : WF_contractVars(BeginTask(t)) /\ WF_contractVars(EndTask(t))

==============================================================================
