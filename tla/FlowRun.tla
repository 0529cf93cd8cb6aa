------------------------------- MODULE FlowRun -------------------------------
(***************************************************************************)
(* Run and the destructor of class Framework (Framework.cpp) with the      *)
(* threads of its operations and edges (Operation::ThreadStart,            *)
(* Edge::ThreadStart), on a graph that is built and stays as it is.        *)
(*                                                                         *)
(* A barrier works here as SyncBarrier shows it to work: the thread that   *)
(* completes the count releases the others in one step, a released thread  *)
(* goes on when it is scheduled.  So does the gate, as in SyncStart.       *)
(*                                                                         *)
(*   count[b]  m_thread_count of barrier b                                 *)
(*   numWait   m_num_wait_cond of the gate                                 *)
(*   execute   m_threads_execute, which the workers read through a pointer *)
(*   pc[t]     where a thread stands; workers:                             *)
(*               "start"    before SyncStart::Wait    "parked"   in it     *)
(*               "loop"     about to test while( *execute )                *)
(*               "syncin"   about to call SyncInput   "atin"     in it     *)
(*               "check"    about to test if( *execute )                   *)
(*               "busy"     in Process or TransferMemory                   *)
(*               "syncout"  about to call SyncOutput  "atout"    in it     *)
(*               "exited"   ThreadStart has returned                       *)
(*             and the host:                                               *)
(*               "idle"     between two calls of the API                   *)
(*               "starting" in SyncStart::Start                            *)
(*               "syncin", "atin", "syncout", "atout" as above             *)
(*               "returning" back from SyncOutput                          *)
(*               "sleeping" in the destructor's sleep_for                  *)
(*               "joining"  in the loop of thread.join()                   *)
(*               "closed"   the Framework is gone                          *)
(*                                                                         *)
(* History variables: runs, the calls of Run; outs[t], how often t came    *)
(* through its output barrier; work[t], how often t came to the end of     *)
(* Process or TransferMemory.  What these two do is left to the data: here *)
(* they take time and end.                                                 *)
(***************************************************************************)
EXTENDS FlowGraph

CONSTANTS
  MaxRuns,       \* bound: the calls of Run
  SleepSettles   \* is the destructor's 1 ms long enough for the released
                 \* workers to come round and test *execute?

ASSUME RunAssumption == MaxRuns \in Nat /\ SleepSettles \in BOOLEAN

VARIABLES pc, count, numWait, execute, runs, outs, work

vars == <<pc, count, numWait, execute, runs, outs, work>>

WorkerPlaces == {"start", "parked", "loop", "syncin", "atin", "check", "busy",
                 "syncout", "atout", "exited"}
HostPlaces == {"idle", "starting", "syncin", "atin", "syncout", "atout",
               "returning", "sleeping", "joining", "closed"}

TypeOK ==
  /\ pc \in [Threads -> WorkerPlaces \cup HostPlaces]
  /\ \A t \in Workers : pc[t] \in WorkerPlaces
  /\ pc[Host] \in HostPlaces
  /\ count \in [Barriers -> Nat]
  /\ numWait \in Nat
  /\ execute \in BOOLEAN
  /\ runs \in Nat
  /\ outs \in [Threads -> Nat]
  /\ work \in [Workers -> Nat]

Init ==
  /\ pc = [t \in Threads |-> IF t = Host THEN "idle" ELSE "start"]
  /\ count = [b \in Barriers |-> 0]
  /\ numWait = 0
  /\ execute = FALSE
  /\ runs = 0
  /\ outs = [t \in Threads |-> 0]
  /\ work = [t \in Workers |-> 0]

\* The barrier t is at, or about to be.
BarrierOf(t) == IF pc[t] \in {"syncin", "atin"} THEN InputSync[t] ELSE OutputSync[t]

Waiting(b) == {t \in Threads : pc[t] \in {"atin", "atout"} /\ BarrierOf(t) = b}

\* Slips that no specification uses, here and below. Run does without SyncOutput.
AfterSlip(t) ==
  IF t = Host THEN "returning"
  ELSE IF pc[t] \in {"syncin", "atin"} THEN "check" ELSE "loop"

\* Where t goes on when the barrier it is at lets it.
After(t) ==
  IF pc[t] \in {"syncin", "atin"}
  THEN IF t = Host THEN "syncout" ELSE "check"
  ELSE IF t = Host THEN "returning" ELSE "loop"

\* t passes an output barrier, and its round ends, with the next opening.
ClosesRound(t) == pc[t] \in {"syncout", "atout"}
------------------------------------------------------------------------------
(* SyncBarrier::Wait. *)

EarlyArrival(t) ==
  LET b == BarrierOf(t) IN
  /\ pc[t] \in {"syncin", "syncout"}
  /\ count[b] + 1 # Size(b)
  /\ count' = [count EXCEPT ![b] = @ + 1]
  /\ pc' = [pc EXCEPT ![t] = IF @ = "syncin" THEN "atin" ELSE "atout"]
  /\ UNCHANGED <<numWait, execute, runs, outs, work>>

LastArrival(t) ==
  LET b == BarrierOf(t)
      released == Waiting(b) \cup {t}
  IN
  /\ pc[t] \in {"syncin", "syncout"}
  /\ count[b] + 1 = Size(b)
  /\ count' = [count EXCEPT ![b] = 0]
  /\ pc' = [u \in Threads |-> IF u \in released THEN After(u) ELSE pc[u]]
  /\ outs' = [u \in Threads |-> IF u \in released /\ ClosesRound(u)
                                THEN outs[u] + 1 ELSE outs[u]]
  /\ UNCHANGED <<numWait, execute, runs, work>>
------------------------------------------------------------------------------
(* Operation::ThreadStart and Edge::ThreadStart. *)

\* SyncStart::Wait: counted and asleep.
Park(t) ==
  /\ pc[t] = "start"
  /\ numWait' = numWait + 1
  /\ pc' = [pc EXCEPT ![t] = "parked"]
  /\ UNCHANGED <<count, execute, runs, outs, work>>

\* The loop is left by nobody.
TestLoopSlip(t) ==
  /\ pc[t] = "loop"
  /\ pc' = [pc EXCEPT ![t] = IF execute THEN "syncin" ELSE "loop"]
  /\ UNCHANGED <<count, numWait, execute, runs, outs, work>>

\* while( *execute )
TestLoop(t) ==
  /\ pc[t] = "loop"
  /\ pc' = [pc EXCEPT ![t] = IF execute THEN "syncin" ELSE "exited"]
  /\ UNCHANGED <<count, numWait, execute, runs, outs, work>>

\* The second test is left out.
TestAgainSlip(t) ==
  /\ pc[t] = "check"
  /\ pc' = [pc EXCEPT ![t] = "busy"]
  /\ UNCHANGED <<count, numWait, execute, runs, outs, work>>

\* A worker that finds *execute cleared breaks out of its loop at once.
TestAgainBreakSlip(t) ==
  /\ pc[t] = "check"
  /\ pc' = [pc EXCEPT ![t] = IF execute THEN "busy" ELSE "exited"]
  /\ UNCHANGED <<count, numWait, execute, runs, outs, work>>

\* if( *execute )
TestAgain(t) ==
  /\ pc[t] = "check"
  /\ pc' = [pc EXCEPT ![t] = IF execute THEN "busy" ELSE "syncout"]
  /\ UNCHANGED <<count, numWait, execute, runs, outs, work>>

\* Process() waits for the command queue, TransferMemory() for its blocking
\* read or write: either is over when it returns.
FinishWork(t) ==
  /\ pc[t] = "busy"
  /\ work' = [work EXCEPT ![t] = @ + 1]
  /\ pc' = [pc EXCEPT ![t] = "syncout"]
  /\ UNCHANGED <<count, numWait, execute, runs, outs>>
------------------------------------------------------------------------------
(* The host. *)

Run ==
  /\ pc[Host] = "idle" /\ runs < MaxRuns
  /\ execute' = TRUE
  /\ pc' = [pc EXCEPT ![Host] = IF execute THEN "syncin" ELSE "starting"]
  /\ runs' = runs + 1
  /\ UNCHANGED <<count, numWait, outs, work>>

\* Start( m_threads.size() ) finds every thread counted and notifies them; Run
\* goes on to its barriers, a destructor that was never preceded by Run to join.
Start ==
  /\ pc[Host] = "starting" /\ numWait = Cardinality(Workers)
  /\ pc' = [t \in Threads |-> IF t = Host
                              THEN IF execute THEN "syncin" ELSE "joining"
                              ELSE IF pc[t] = "parked" THEN "loop" ELSE pc[t]]
  /\ UNCHANGED <<count, numWait, execute, runs, outs, work>>

\* Back from SyncOutput: Run returns, TerminateThreads goes on to join.
Return ==
  /\ pc[Host] = "returning"
  /\ pc' = [pc EXCEPT ![Host] = IF execute THEN "idle" ELSE "joining"]
  /\ UNCHANGED <<count, numWait, execute, runs, outs, work>>

\* ~Framework is called.
Destroy ==
  /\ pc[Host] = "idle"
  /\ pc' = [pc EXCEPT ![Host] = IF execute THEN "sleeping" ELSE "starting"]
  /\ UNCHANGED <<count, numWait, execute, runs, outs, work>>

\* The destructor does not sleep.
SignalExitSlip ==
  /\ pc[Host] = "sleeping"
  /\ execute' = FALSE
  /\ pc' = [pc EXCEPT ![Host] = "syncin"]
  /\ UNCHANGED <<count, numWait, runs, outs, work>>

\* The sleep is over. Whether every released worker is past its test of
\* *execute by then is a matter of time: nothing in the code waits for it.
SignalExit ==
  /\ pc[Host] = "sleeping"
  /\ SleepSettles => \A t \in Workers : pc[t] # "loop"
  /\ execute' = FALSE
  /\ pc' = [pc EXCEPT ![Host] = "syncin"]
  /\ UNCHANGED <<count, numWait, runs, outs, work>>

Join ==
  /\ pc[Host] = "joining" /\ \A t \in Workers : pc[t] = "exited"
  /\ pc' = [pc EXCEPT ![Host] = "closed"]
  /\ UNCHANGED <<count, numWait, execute, runs, outs, work>>

Closed == pc[Host] = "closed" /\ UNCHANGED vars

WorkerStep(t) == Park(t) \/ TestLoop(t) \/ TestAgain(t) \/ FinishWork(t)
Arrival(t) == EarlyArrival(t) \/ LastArrival(t)

\* What the host does inside a call, as opposed to the calls it chooses to make.
HostStep == Start \/ Return \/ SignalExit \/ Join \/ Arrival(Host)

Next ==
  \/ \E t \in Workers : WorkerStep(t) \/ Arrival(t)
  \/ HostStep
  \/ Run \/ Destroy
  \/ Closed

\* Every thread is a thread of the operating system's, which runs all of them;
\* no kernel and no transfer goes on for ever. The host need not call anything.
Spec ==
  /\ Init /\ [][Next]_vars
  /\ WF_vars(HostStep)
  /\ \A t \in Workers : WF_vars(WorkerStep(t) \/ Arrival(t))

------------------------------------------------------------------------------
(* Properties. *)

InRound(t) == pc[t] \in {"check", "busy", "syncout", "atout"}

\* When Run has returned, every operation and every transfer of every Run so far
\* has been done exactly once and no worker touches the data any more: the host
\* may read and write it ("returns once the graph has finished executing",
\* fcldocu.pdf).
RunComplete ==
  pc[Host] = "idle" => \A t \in Workers : work[t] = runs /\ ~InRound(t)

\* A worker works only when what feeds it has done its share of the same Run,
\* and has not begun that of the next ("will now only execute after the parent
\* operation(s) have completed execution, and updated their respective Memory
\* objects", fcldocu.pdf).
DependencyOrder ==
  \A t \in Workers : pc[t] = "busy" =>
    \A u \in Feeders(t) : work[u] = work[t] + 1 /\ pc[u] # "busy"

\* The round that the destructor drives to free the workers executes nothing:
\* that is what the second test of *execute is for (Operation.cpp:272,
\* Edge.cpp:180).
TerminationRunsNothing == [][~execute => UNCHANGED work]_vars

\* No worker leaves its loop before it has made the destructor's round: one that
\* did would be missing in the barriers where the others and the host wait
\* ("they terminate out of the loop, where they should still be doing a final
\* synchronization", Framework.cpp:117).
ExitsInStep ==
  SleepSettles => \A t \in Workers :
    pc[t] = "exited" /\ runs > 0 => outs[t] = runs + 1

\* The destructor joins every thread and returns ("Threads quit and host waits
\* for them to terminate successfully", Framework.cpp:134).
InDestructor ==
  pc[Host] \in {"sleeping", "joining", "closed"} \/ (~execute /\ pc[Host] # "idle")

DestructorReturns == InDestructor ~> pc[Host] = "closed"

\* Seen from outside, FlowRun is a DataflowContract.
InRun == execute /\ pc[Host] \notin {"idle", "sleeping"}

Contract == INSTANCE DataflowContract WITH
  Tasks <- Workers,
  Needs <- [t \in Workers |-> Feeders(t)],
  returned <- IF InRun THEN runs - 1 ELSE runs,
  began <- [t \in Workers |-> work[t] + (IF pc[t] = "busy" THEN 1 ELSE 0)],
  ended <- work,
  closed <- InDestructor

KeepsContract == Contract!Spec
------------------------------------------------------------------------------
(* FlowRun in less detail is FlowSystem, on a graph that is built and with a  *)
(* sleep that is long enough. Its barriers come with numbers, the two of the  *)
(* Framework first; the gate opens when SyncStart::Start has found everybody  *)
(* there, and that is when Run or the destructor is called, for FlowSystem;   *)
(* the host is back from SyncOutput when it is released there.                *)

Amount == Cardinality(Barriers)

\* BarrierAt[i] is the barrier of number i.
Numbering(f) ==
  /\ \A b \in Barriers : \E i \in 1 .. Amount : f[i] = b
  /\ \A i, j \in 1 .. Amount : f[i] = f[j] => i = j
  /\ f[1] = FrameworkInput /\ f[2] = FrameworkOutput

BarrierAt == CHOOSE f \in [1 .. Amount -> Barriers] : Numbering(f)

Number(b) == CHOOSE i \in 1 .. Amount : BarrierAt[i] = b

\* In SyncStart::Start. To FlowSystem, Run or the destructor is yet to be called.
Opening == pc[Host] = "starting"

SystemPlace ==
  [t \in Threads |->
     IF t = Host
     THEN IF pc[t] = "starting" THEN "idle"
          ELSE IF pc[t] = "returning" THEN IF execute THEN "idle" ELSE "joining"
          ELSE pc[t]
     ELSE IF pc[t] \in {"start", "parked"} THEN "gate" ELSE pc[t]]

SystemAt ==
  [t \in Threads |-> IF pc[t] = "atin" THEN Number(InputSync[t])
                     ELSE IF pc[t] = "atout" THEN Number(OutputSync[t]) ELSE 0]

SystemCount == [i \in 1 .. Amount |-> count[BarrierAt[i]]]
SystemExecute == execute /\ ~Opening
SystemRuns == IF Opening /\ execute THEN runs - 1 ELSE runs

SystemIn == [t \in Threads |-> Number(InputSync[t])]
SystemOut == [t \in Threads |-> Number(OutputSync[t])]
SystemSize == [i \in 1 .. Amount |-> Size(BarrierAt[i])]

System == INSTANCE FlowSystem WITH
  Operations <- Ops, EdgeIds <- Edges, Devices <- {Host}, CPUs <- {}, MaxFailures <- 0,
  MaxRunThreads <- Cardinality(Workers), MaxLateThreads <- 0,
  ops <- Ops, edges <- Edges, src <- Src, dst <- Dst, dev <- [o \in Ops |-> Host],
  inSync <- SystemIn, outSync <- SystemOut, size <- SystemSize,
  threadless <- {}, failures <- 0, late <- FALSE,
  asked <- {<<Src[e], Dst[e]>> : e \in Edges} \cap (Ops \X Ops),
  pc <- SystemPlace, at <- SystemAt, count <- SystemCount,
  execute <- SystemExecute, runs <- SystemRuns, work <- work

KeepsSystem == [][System!SystemNext]_(System!systemVars)
------------------------------------------------------------------------------
(* The inductive invariant behind them. *)

\* How often t came through its input barrier, and through barrier b.
Ins(t) == outs[t] + (IF InRound(t) THEN 1 ELSE 0)
Passes(t, b) == IF InputSync[t] = b THEN Ins(t) ELSE outs[t]

BarrierInv == \A b \in Barriers :
  /\ count[b] = Cardinality(Waiting(b))
  /\ Waiting(b) # Members(b)

\* The members of a barrier came through it equally often. Along the edges of an
\* acyclic graph this holds every worker between the two barriers of the host.
PhaseInv ==
  \A b \in Barriers : \A t, u \in Members(b) : Passes(t, b) = Passes(u, b)

Unstarted == pc[Host] = "starting" \/ (pc[Host] = "idle" /\ ~execute)

GateInv ==
  /\ numWait = Cardinality({t \in Workers : pc[t] # "start"})
  /\ \A t \in Workers : Unstarted <=> pc[t] \in {"start", "parked"}
  /\ Unstarted => /\ \A t \in Threads : outs[t] = 0
                  /\ \A t \in Workers : work[t] = 0

HostInv ==
  /\ pc[Host] = "idle" => outs[Host] = runs /\ (execute <=> runs > 0)
  /\ pc[Host] = "starting" => /\ execute => runs = 1
                              /\ ~execute => runs = 0
  /\ pc[Host] = "sleeping" => execute /\ outs[Host] = runs /\ runs > 0
  /\ pc[Host] \in {"syncin", "atin", "syncout", "atout"} =>
       /\ runs > 0
       /\ execute => outs[Host] + 1 = runs
       /\ ~execute => outs[Host] = runs
  /\ pc[Host] = "returning" => /\ runs > 0
                               /\ execute => outs[Host] = runs
                               /\ ~execute => outs[Host] = runs + 1
  /\ pc[Host] \in {"joining", "closed"} => /\ ~execute
                                           /\ runs = 0 => outs[Host] = 0
                                           /\ runs > 0 => outs[Host] = runs + 1

WorkInv == \A t \in Workers :
  /\ execute => /\ work[t] = outs[t] + (IF ClosesRound(t) THEN 1 ELSE 0)
                /\ pc[t] # "exited"
  /\ ~execute => /\ work[t] = runs
                 /\ pc[t] # "busy"
                 /\ SleepSettles /\ runs > 0 /\ pc[t] \in {"loop", "exited"}
                      => outs[t] = runs + 1

IInv == TypeOK /\ BarrierInv /\ PhaseInv /\ GateInv /\ HostInv /\ WorkInv

------------------------------------------------------------------------------
(* FlowRun at one barrier, as BarrierContract counts there: Passes(t, b) are  *)
(* the returns of t. An opening is the call of the last and the returns of    *)
(* all in one step.                                                           *)

\* The waits at b that t has begun.
CallsAt(t, b) == Passes(t, b) + (IF t \in Waiting(b) THEN 1 ELSE 0)

\* Nobody is kept whom the contract has return.
NobodyIsKept ==
  \A b \in Barriers : \A t \in Waiting(b) : \E u \in Members(b) : CallsAt(u, b) <= Passes(t, b)

\* A thread calls Wait only when it is back from its last call; and nobody returns
\* before all have made the same call.
CallsAndReturns ==
  \A b \in Barriers : \A t \in Members(b) :
    /\ CallsAt(t, b)' \in {CallsAt(t, b), CallsAt(t, b) + 1}
    /\ CallsAt(t, b)' > CallsAt(t, b) => CallsAt(t, b) = Passes(t, b)
    /\ Passes(t, b)' \in {Passes(t, b), Passes(t, b) + 1}
    /\ Passes(t, b)' > Passes(t, b) => \A u \in Members(b) : Passes(t, b) < CallsAt(u, b)'

BarriersKeepContract == [][CallsAndReturns]_vars

==============================================================================
