------------------------------ MODULE FlowSystem ------------------------------
(***************************************************************************)
(* A Framework from its construction to its destruction: the calls of      *)
(* GraphBuilder between the calls of Run, on any graph they can make, with *)
(* the threads of its operations and edges running meanwhile.              *)
(*                                                                         *)
(* FlowRun takes a graph that is finished, acyclic and has all its threads.*)
(* Here none of this is given: operations and edges may be added after a   *)
(* Run, dependencies may form a cycle, creations may fail.  In return some *)
(* steps that FlowRun tells apart are one:                                 *)
(*   - the gate opens in one step, as SyncStart shows it to;               *)
(*   - the host is back from SyncOutput when it is released there;         *)
(*   - the destructor's sleep lasts until no worker is about to test       *)
(*     while( *execute ) (FlowRun and its run MCFlowRunNoSleep are about   *)
(*     shorter ones).                                                      *)
(*                                                                         *)
(*   pc[t]     workers: "gate"     in SyncStart::Wait, or on the way       *)
(*                      "loop", "syncin", "atin", "check", "busy",         *)
(*                      "syncout", "atout" and "exited" as in FlowRun      *)
(*             host:    "idle", "syncin", "atin", "syncout", "atout",      *)
(*                      "sleeping", "joining", "closed" as in FlowRun      *)
(*   at[t]     the barrier t sleeps in, 0 if none: not always the one that *)
(*             its m_sync_input or m_sync_output has come to point to      *)
(*   count[b]  m_thread_count of barrier b                                 *)
(*   execute   m_threads_execute                                           *)
(*   runs      history: the calls of Run                                   *)
(*   work[t]   history: how often t came to the end of its work            *)
(*   late      history: were barriers joined or left after the first Run?  *)
(***************************************************************************)
EXTENDS GraphBuilder

CONSTANTS
  MaxRuns,         \* bound: the calls of Run
  MaxRunThreads,   \* bound: the threads of a graph that is run or destroyed
  MaxLateThreads   \* bound: the threads of a graph that grows after a Run

ASSUME SystemAssumption == {MaxRuns, MaxRunThreads, MaxLateThreads} \subseteq Nat

VARIABLES pc, at, count, execute, runs, work, late

systemVars == <<vars, pc, at, count, execute, runs, work, late>>

\* m_threads
Workers == (ops \cup edges) \ threadless

WorkerPlaces == {"gate", "loop", "syncin", "atin", "check", "busy", "syncout", "atout", "exited"}
HostPlaces == {"idle", "syncin", "atin", "syncout", "atout", "sleeping", "joining", "closed"}

SystemTypeOK ==
  /\ TypeOK
  /\ DOMAIN pc = Workers \cup {Host} /\ pc[Host] \in HostPlaces
  /\ \A t \in Workers : pc[t] \in WorkerPlaces
  /\ at \in [Workers \cup {Host} -> 0 .. Len(size)]
  /\ count \in [1 .. Len(size) -> Nat]
  /\ execute \in BOOLEAN /\ runs \in 0 .. MaxRuns
  /\ work \in [Workers -> Nat] /\ late \in BOOLEAN

SystemInit ==
  /\ Init
  /\ pc = [t \in {Host} |-> "idle"] /\ at = [t \in {Host} |-> 0]
  /\ count = <<0, 0>>
  /\ execute = FALSE /\ runs = 0 /\ work = << >> /\ late = FALSE

\* f on S, with the value v where it had none.
Grown(f, S, v) == [x \in S |-> IF x \in DOMAIN f THEN f[x] ELSE v]

\* A call that builds. A new thread goes to the gate, a new barrier counts nobody.
Build ==
  /\ pc[Host] = "idle" /\ (runs > 0 => Cardinality(Workers) < MaxLateThreads)
  /\ Next
  /\ pc' = Grown(pc, Workers' \cup {Host}, "gate")
  /\ at' = Grown(at, Workers' \cup {Host}, 0)
  /\ count' = Grown(count, 1 .. Len(size'), 0)
  /\ work' = Grown(work, Workers', 0)
  /\ late' = (late \/ (runs > 0 /\ size' # size))
  /\ UNCHANGED <<execute, runs>>
------------------------------------------------------------------------------
(* SyncBarrier::Wait. *)

\* About to call Wait of the barrier its pointer is at now.
AtInput(t) == pc[t] = "syncin"
Arriving(t) == AtInput(t) \/ pc[t] = "syncout"

\* The slips of this module are plausible mistakes, used by no specification.
\* A thread keeps the input barrier it was created with.
BarrierOfSlip(t) == IF AtInput(t) THEN FrameworkInput ELSE outSync[t]

BarrierOf(t) == IF AtInput(t) THEN inSync[t] ELSE outSync[t]

\* Run does not wait for the output.
AfterSlip(t) ==
  IF t = Host THEN IF execute THEN "idle" ELSE "syncout"
  ELSE IF AtInput(t) \/ pc[t] = "atin" THEN "check" ELSE "loop"

\* Where t goes on when the barrier it is at lets it.
After(t) ==
  IF AtInput(t) \/ pc[t] = "atin" THEN IF t = Host THEN "syncout" ELSE "check"
  ELSE IF t # Host THEN "loop" ELSE IF execute THEN "idle" ELSE "joining"

EarlyArrival(t) ==
  LET b == BarrierOf(t) IN
  /\ Arriving(t) /\ count[b] + 1 # size[b]
  /\ count' = [count EXCEPT ![b] = @ + 1]
  /\ at' = [at EXCEPT ![t] = b]
  /\ pc' = [pc EXCEPT ![t] = IF AtInput(t) THEN "atin" ELSE "atout"]
  /\ UNCHANGED <<vars, execute, runs, work, late>>

LastArrival(t) ==
  LET b == BarrierOf(t)
      released == {u \in DOMAIN at : at[u] = b} \cup {t}
  IN
  /\ Arriving(t) /\ count[b] + 1 = size[b]
  /\ count' = [count EXCEPT ![b] = 0]
  /\ at' = [u \in DOMAIN at |-> IF u \in released THEN 0 ELSE at[u]]
  /\ pc' = [u \in DOMAIN pc |-> IF u \in released THEN After(u) ELSE pc[u]]
  /\ UNCHANGED <<vars, execute, runs, work, late>>
------------------------------------------------------------------------------
(* Operation::ThreadStart and Edge::ThreadStart. *)

\* *execute is not read again in the loop.
TestLoopSlip(t) ==
  /\ pc[t] = "loop"
  /\ pc' = [pc EXCEPT ![t] = "syncin"]
  /\ UNCHANGED <<vars, at, count, execute, runs, work, late>>

TestLoop(t) ==
  /\ pc[t] = "loop"
  /\ pc' = [pc EXCEPT ![t] = IF execute THEN "syncin" ELSE "exited"]
  /\ UNCHANGED <<vars, at, count, execute, runs, work, late>>

TestAgain(t) ==
  /\ pc[t] = "check"
  /\ pc' = [pc EXCEPT ![t] = IF execute THEN "busy" ELSE "syncout"]
  /\ UNCHANGED <<vars, at, count, execute, runs, work, late>>

FinishWork(t) ==
  /\ pc[t] = "busy"
  /\ work' = [work EXCEPT ![t] = @ + 1]
  /\ pc' = [pc EXCEPT ![t] = "syncout"]
  /\ UNCHANGED <<vars, at, count, execute, runs, late>>
------------------------------------------------------------------------------
(* The host. *)

\* SyncStart::Start releases the threads there are; the host goes on to p.
GateOpens(p) ==
  pc' = [t \in DOMAIN pc |-> IF t = Host THEN p ELSE "loop"]

Run ==
  /\ pc[Host] = "idle"
  /\ runs < MaxRuns /\ Cardinality(Workers) <= MaxRunThreads
  /\ \/ execute /\ pc' = [pc EXCEPT ![Host] = "syncin"]
     \/ ~execute /\ GateOpens("syncin")
  /\ execute' = TRUE
  /\ runs' = runs + 1
  /\ UNCHANGED <<vars, at, count, work, late>>

\* ~Framework is called.
Destroy ==
  /\ pc[Host] = "idle" /\ Cardinality(Workers) <= MaxRunThreads
  /\ \/ execute /\ pc' = [pc EXCEPT ![Host] = "sleeping"]
     \/ ~execute /\ GateOpens("joining")
  /\ UNCHANGED <<vars, at, count, execute, runs, work, late>>

SignalExit ==
  /\ pc[Host] = "sleeping" /\ \A t \in Workers : pc[t] # "loop"
  /\ execute' = FALSE
  /\ pc' = [pc EXCEPT ![Host] = "syncin"]
  /\ UNCHANGED <<vars, at, count, runs, work, late>>

\* The threads are detached in place of joined.
JoinableSlip(t) == TRUE

Joinable(t) == pc[t] = "exited"

Join ==
  /\ pc[Host] = "joining" /\ \A t \in Workers : Joinable(t)
  /\ pc' = [pc EXCEPT ![Host] = "closed"]
  /\ UNCHANGED <<vars, at, count, execute, runs, work, late>>

SystemNext ==
  \/ Build \/ Run \/ Destroy \/ SignalExit \/ Join
  \/ \E t \in Workers \cup {Host} : EarlyArrival(t) \/ LastArrival(t)
  \/ \E t \in Workers : TestLoop(t) \/ TestAgain(t) \/ FinishWork(t)

SystemSpec == SystemInit /\ [][SystemNext]_systemVars
------------------------------------------------------------------------------
(* Properties. WiredAsFlowGraph and SizesCountThreads of GraphBuilder are     *)
(* checked here too. "Late" is what the extents of this module turn on: docs  *)
(* and headers do not say that building must end before the first Run, and   *)
(* nothing refuses it.                                                        *)

\* Operations that depend on each other in a circle: every one of S on another in S.
Circular(S) == S # {} /\ \A o \in S : \E d \in S : <<d, o>> \in Connected
Cyclic == \E S \in SUBSET ops : Circular(S)

\* "Blocking run" (Framework.hpp:111): whenever Run has returned, every operation
\* and every transfer has been done once for each Run and is over. It holds of
\* every graph the calls of Framework can make before the first Run, unless
\* operations depend on each other in a circle: then Run may return with some that
\* were not executed.
RunComplete ==
  (pc[Host] = "idle" /\ ~Cyclic /\ ~late) =>
    \A t \in Workers : work[t] = runs /\ pc[t] \in {"gate", "loop", "syncin", "atin"}

\* Two different CPU devices: SetOperationArgDependency makes no edge between them
\* (EveryDependencyHasAnEdge of GraphBuilder does not hold).
OnTwoCPUs(d, o) == dev[d] # dev[o] /\ {dev[d], dev[o]} \subseteq CPUs

\* An operation executes only after each operation it was told to depend on has
\* executed for the same Run, and while that one does not ("memory concistency is
\* enforced depending on the dependencies of the graph", README.md:14). It holds of
\* graphs that were finished before the first Run, and of dependencies that are not
\* between two different CPUs. With a dependency made after a Run nothing of it is
\* left: the barrier an operation sleeps in by then loses a member and opens without
\* the host. Where operations depend on each other in a circle only the first half
\* is: Run may then return before its operations are done, and the next Run have d
\* execute again while o is still at the data of the last.
DependenciesKept ==
  ~late =>
    \A d, o \in ops : <<d, o>> \in asked /\ ~OnTwoCPUs(d, o) /\ pc[o] = "busy" =>
      work[d] > work[o] /\ (Cyclic \/ (work[d] = work[o] + 1 /\ pc[d] # "busy"))

\* The host is in Run or in the destructor and nobody can take a step any more.
Stuck ==
  /\ pc[Host] \in {"atin", "atout", "joining"}
  /\ \A t \in Workers : pc[t] \in {"gate", "atin", "atout", "exited"}
  /\ \E t \in Workers \cup {Host} : pc[t] \in {"gate", "atin", "atout"}

\* Neither Run nor the destructor ever waits for a thread that will not come,
\* except for three reasons: operations depend on each other in a circle, one was
\* made or connected after the first Run (its thread waits at the gate, which
\* SyncStart::Start opens once), or a constructor threw or a thread could not be
\* started after the barriers had counted it (Framework.cpp:488).
NeverStuck == Stuck => Cyclic \/ late \/ failures > 0

\* And in a graph that was finished before the first Run the other two are fatal: once
\* it is run, a context whose graph has a cycle never gets through its destructor, and
\* one that lost an operation or a thread to an exception never gets out of Run unless
\* there is a cycle too, which lets Run return early. "Threads quit and host waits for
\* them to terminate successfully" (Framework.cpp:134) is all the code says of it.
\* In a graph that is changed after a Run a failure may go by: say o, done with Run 1,
\* sleeps at the Framework's input barrier when it is given an input and the thread of
\* the edge cannot be started. The barrier now counts the edge in place of o, but it is
\* o that sleeps in it: o and the host of Run 2 open it, and Run returns. So it does
\* when o is made to depend on an operation d that is still on its way to the barrier.
OnlyOrderlyContextsClose ==
  ~late /\ runs > 0 => /\ pc[Host] = "closed" => ~Cyclic /\ failures = 0
                       /\ pc[Host] = "idle" => Cyclic \/ failures = 0

------------------------------------------------------------------------------
(* The inductive invariant behind these properties. Of graphs that changed    *)
(* after a Run it says little.                                                *)

\* The rounds the host has begun or got through: one for each Run and one more to
\* let the threads go.
Rounds == IF execute THEN runs ELSE runs + 1

\* How often t came through its input and its output barrier; a thread that could
\* not be started never does.
InRound(t) == pc[t] \in {"check", "busy", "syncout", "atout"}
Outs(t) ==
  IF t = Host THEN IF pc[t] \in {"idle", "sleeping", "joining", "closed"} THEN Rounds ELSE Rounds - 1
  ELSE IF t \in threadless THEN 0
  ELSE IF execute THEN IF pc[t] \in {"syncout", "atout"} THEN work[t] - 1 ELSE work[t]
  ELSE IF pc[t] \in {"loop", "exited"} THEN work[t] + 1 ELSE work[t]
Ins(t) == IF t \in threadless THEN 0 ELSE IF InRound(t) THEN Outs(t) + 1 ELSE Outs(t)
Passes(t, b) == IF inSync[t] = b THEN Ins(t) ELSE Outs(t)
At(b) == {t \in Threads : inSync[t] = b \/ outSync[t] = b}

\* Whoever meets at a barrier came through it equally often.
InPhase == \A b \in DOMAIN size : \A t, u \in At(b) : Passes(t, b) = Passes(u, b)

BeforeRuns ==
  runs = 0 => /\ ~execute /\ ~late /\ pc[Host] \in {"idle", "joining", "closed"}
              /\ \A t \in Workers : pc[t] \in {"gate", "loop", "exited"} /\ work[t] = 0
              /\ \A t \in Workers : pc[Host] = "idle" <=> pc[t] = "gate"
              /\ \A t \in Workers \cup {Host} : at[t] = 0
              /\ \A b \in DOMAIN size : count[b] = 0

HostPlaced ==
  /\ execute => pc[Host] \notin {"joining", "closed"}
  /\ ~execute /\ runs > 0 => pc[Host] \notin {"idle", "sleeping"}
  /\ pc[Host] = "closed" => \A t \in Workers : pc[t] = "exited"

Sleepers(b) == {t \in Workers \cup {Host} : at[t] = b}

SleepersInPlace ==
  /\ \A t \in Workers \cup {Host} :
       at[t] = IF pc[t] = "atin" THEN inSync[t] ELSE IF pc[t] = "atout" THEN outSync[t] ELSE 0
  /\ \A b \in DOMAIN size : /\ count[b] = Cardinality(Sleepers(b))
                            /\ size[b] > 0 => count[b] < size[b]
  /\ \A t \in Workers : pc[t] # "gate" /\ (execute => pc[t] # "exited")

\* Who is on a circle never comes through its input.
Asleep(S) ==
  IF execute THEN \A o \in S : Ins(o) = 0
  ELSE /\ \A o \in S : pc[o] \in {"syncin", "atin"}
       /\ \A e \in edges \ threadless :
            {src[e], dst[e]} \subseteq S => pc[e] \in {"syncin", "atin"}
CirclesSleep == \A S \in SUBSET ops : Circular(S) => Asleep(S)

\* Nor does the host while an operation that is not there is waited for.
MissingAreAwaited == NotCreated > 0 => execute /\ Ins(Host) = 0

LastRound == \A t \in Workers : pc[t] # "busy" /\ work[t] = runs

\* What was asked for and is no matter of two CPUs has an edge with a thread.
AskedIsConnected ==
  /\ asked \subseteq ops \X ops
  /\ \A d, o \in ops : <<d, o>> \in asked =>
       \/ \E e \in edges \ threadless : src[e] = d /\ dst[e] = o
       \/ OnTwoCPUs(d, o)

Settled ==
  /\ SleepersInPlace /\ CirclesSleep /\ MissingAreAwaited
  /\ execute \/ ~Cyclic => InPhase
  /\ ~execute /\ ~Cyclic => LastRound

SystemInv ==
  /\ BeforeRuns /\ HostPlaced /\ AskedIsConnected
  /\ runs > 0 /\ ~late => Settled

==============================================================================
