# FlowCL in TLA+

FlowCL is a C++ library that runs a dataflow graph on the CPUs and GPUs OpenCL
finds. A program makes *memories* and *operations* (a kernel, or a C function,
on a device), says which memory an operation takes from the host, from another
operation, or gives back to the host, and calls `Run` as often as it likes. The
library gives **every operation and every edge of the graph a thread**, lets the
threads meet at **barriers** in place of a scheduler, and keeps one buffer of
each memory on each device.

This directory models the library, checks the models with TLC, and proves with
TLAPS what holds for every graph. `PROJECT.json` says which definition stands for
which lines, lists the runs, the hazards, the theorems, and for each property a
plausible bug that breaks it (operators named `...Slip`, which no specification
uses).

## The system

| Part | State | Operations | What makes it correct |
|---|---|---|---|
| `SyncBarrier` (Synchronization.cpp) | size, count, mutex, condition variable | Add, Remove, Wait | nobody returns before all have called; nobody sleeps through the opening; it can be used again at once |
| `SyncStart` (Synchronization.cpp) | counter, mutex, condition variable | Wait, Start | nobody passes before Start; Start leaves nobody behind |
| `Framework`, building (Framework.cpp) | operations, edges, threads, the two barriers of the framework | CreateOperation, SetArgInput / Output / Dependency | barriers join the right threads and count each of them |
| `Framework`, running | `m_threads_execute`, gate | Run, destructor | a Run executes everything once, in order of dependency, and returns when it is over; the destructor ends |
| `Operation`, `Edge` (Operation.cpp, Edge.cpp) | thread, two barriers, queue; copy interval | ThreadStart, Process, TransferMemory, SetCopyInterval | fresh arguments, delivered results, no two threads at one buffer |
| Arguments (Operation.cpp) | maps of memories, constants and edges by index; the vectors a native function is called with | SetKernelArgMemory / Constant, BuildUserFuncArgs | called with what was asked; nothing written outside the vectors |
| Devices and memory (Framework.cpp, Device.cpp) | devices, a list of buffers each, list of memories, pinned queue | CompileFile / Source, CreateMemory, GetCLMemory | the buffer at a memory's place is the memory's |
| Program cache (Framework.cpp) | files `openclkernelbin/<hash> <vendor> <device>` | CreateProgramForDevice | the program is the source's |
| Public API (FlowCL.cpp) | `g_df`, a list of devices per Context, handles | Context and its copies, Compile..., Get...Device, Create..., SetArg... | nothing is used that is gone; nothing is deleted twice |
| `MemoryManager` | every object | New..., destructor | |

How they interact. The host thread builds the graph; each new thread stops at
the gate. The first `Run` sets `m_threads_execute`, opens the gate and then, like
every later `Run`, waits once at the framework's input barrier, which lets the
workers without predecessors go, and once at its output barrier, where those
without successors arrive. A worker loops: input barrier, work, output barrier.
An operation shares its input barrier with its incoming edges and its output
barrier with its outgoing ones. The destructor clears `m_threads_execute` and
drives one more round in which nothing works, after which every loop ends.

Hard to test: released threads that come back to a barrier others have not left
yet; a notification no lock protects; wakeups without notification; workers that
test `m_threads_execute` while the destructor clears it; barriers rewired in
whatever order the calls come, also while threads sleep in them; graphs with
cycles; creation that fails halfway; a cache several programs share; one global
pointer behind all contexts. `hazards` in `PROJECT.json` gives each its line and the
properties that watch it.

## Modules

| Module | Models | Over |
|---|---|---|
| `BarrierContract` | what a reusable barrier promises | calls and returns per thread |
| `SyncBarrier` | class SyncBarrier, step by step of its mutex | implements `BarrierContract` |
| `SyncBarrierProofs` | proofs | |
| `SyncStart`, `SyncStartProofs` | class SyncStart; proofs | |
| `FlowGraph` | a built graph: which barrier each end of each thread is at | constants |
| `DataflowContract` | what Run promises | begun and ended tasks, no threads |
| `FlowRun` | Run, the destructor, all threads at their barriers | `FlowGraph`; implements `DataflowContract`, and `FlowSystem` on a built graph |
| `FlowRunProofs` | proofs about `FlowRun` and `FlowData`, for every finite acyclic graph | extends `FlowData` |
| `FlowData` | `FlowRun` with buffers and copy intervals | extends `FlowRun` |
| `GraphBuilder` | the calls that build the graph | instantiates `FlowGraph` to say what must come out |
| `FlowSystem` | a Framework's whole life: building, Run and destructor on whatever graph there is | extends `GraphBuilder` with the threads |
| `GraphBuilderProofs` | proofs about `GraphBuilder` and `FlowSystem` | extends `FlowSystem` |
| `Lifetimes`, `LifetimesProofs` | contexts, `g_df` and the handles they give out; proofs | |
| `DeviceMemory`, `DeviceMemoryProofs` | devices, memories and buffers; proofs | |
| `OperationArgs`, `OperationArgsProofs` | the arguments of one operation, kernel or native, and the edges they name; proofs | |
| `ProgramCache`, `ProgramCacheProofs` | cached binaries, several programs, crashes, new drivers; proofs | |
| `MC...` | the instances TLC checks | |

The models are layered. `SyncBarrier` and `SyncStart` have a step for each stretch
of code under the mutex. In `FlowRun` a barrier opens in one step (`LastArrival`)
and each released thread goes on in a step of its own; that this is what the code
of the barrier amounts to is what the lower modules show, under the assumption
that a wait never returns without a notification. `FlowRun` is about a graph that
satisfies `FlowGraph`'s formulas for the barriers; `GraphBuilder` shows that the
code's calls produce these, whatever their order. `FlowData` adds data without
adding a step. `FlowSystem` assumes neither that the graph is finished nor that it is
acyclic: the calls of `GraphBuilder` and the threads share one state. It pays for this
with some coarser steps, which its head lists. `FlowRun` implements it on the graphs it is
about: a section of `FlowRun` is the refinement mapping (barriers get numbers; while the host
is in `SyncStart::Start` it has, to `FlowSystem`, not called yet; on its way out of
`SyncOutput` it is already back), and `ImplementsSystem` is the proof.
`Lifetimes` is about which Framework a call reaches and takes what happens there as
one step.

### State and code

* `SyncBarrier`: `size`, `count` are `m_barrier_size`, `m_thread_count`; `mutex` is
  the owner of `m_mutex_cond`; `pc[t]` is where t is in `Wait`. `LastArrival` and
  `EarlyArrival` are the branches of the `if`; the end of `m_cond.wait` is
  `Reacquire`, a wakeup nobody asked for `SpuriousWakeup`. `members`, `passes`, `round`
  and `disturbed` are history; the last says whether there was such a wakeup.
* `SyncStart`: the critical section of `Wait` up to the sleep is one step, each
  decisive turn of `Start`'s loop is `Poll`; `NotifyAll` comes after it, outside
  the lock. A thread in `Restless` may wake up by itself.
* `FlowRun`: `pc` follows both `ThreadStart` loops, `Run` and `TerminateThreads`
  line by line; `execute` is read in two places (`TestLoop`, `TestAgain`) and
  written in two (`Run`, `SignalExit`). It is a plain `bool` read and written by
  different threads; the model lets a read see whatever was last written.
* `GraphBuilder`: `inSync`, `outSync` hold the barrier pointers, `size` the sizes.
  `ShareSize` and `ShareBarrier` are the `if` that all three `Create...Edge` share.
  What fails after the barriers have counted a thread is counted in `failures`; an
  argument the kernel refuses comes after the edge and leaves the same graph.
* `FlowSystem`: `Build` is any call of `GraphBuilder`, between the calls of `Run`; a
  thread starts at the gate. `at[t]` is the barrier a thread sleeps in, which a later
  call may take it out of without waking it. A worker's test of `m_threads_execute`
  (`TestLoop`) and its call of `SyncBarrier::Wait` are two steps, as in `FlowRun`.
* `Lifetimes`: a Framework is named after the Context that made it. A handle knows the
  Frameworks it points into (`into`) and the Contexts the program has it from (`from`).
  `astray` is set by the call that reads or deletes what is gone.
* `FlowData`: `content` maps a place (the host, or a dedicated device) and a memory
  to who wrote it last and when. A CPU's buffer is the host's.
* `DeviceMemory`: `mems` is `m_cl_mems`; `Compile(n)` and `CreatePinnedMemory(n)` stop
  after n devices. `CreateMemory` before any compile takes `m_devices[0]` of an empty
  vector (Framework.cpp:425), which is undefined; that there is a device by then is a
  precondition of the two actions of `CreatePinnedMemory`.
* `OperationArgs`: the maps of the code are functions on the indices set so far.
  `BuildUserFuncArgs` runs after each call, as in the code, and leaves empty places in
  `memObjects` as operator[] does. `bound` joins the vectors of memories and of
  locations. A write past their end ends the program or goes unnoticed. `Passed` is
  what OpenCL makes of it.
* `ProgramCache`: `pc` follows `CreateProgramForDevice`; a file is absent, unusable (not a
  whole binary, or one of a driver that was replaced) or the binary of a source for a
  device model. `HashString` is computed as in the code, up to the first 0 (`CString`).
  `UpdateDriver` is the environment's; it happens while no program runs.

## What is checked

On two workers `MCFlowSystem` takes about a minute and visits 645 909 states,
`MCLifetimes` one and a half with 1.7 million; `MCFlowRun` has only 42 417 but takes about
three minutes, for its two liveness properties. The others finish within a minute.

| Run | Instance | Shows |
|---|---|---|
| `MCSyncBarrier` | 4 threads, any enrolled, 3 waits each, any of them woken by nobody | `NoEarlyReturn`, `SleepersAreAwaitingSomeone`, the inductive `IInv`, `KeepsContract` with liveness, all until the first spurious wakeup; `CountBelowSize` even after |
| `MCSyncBarrierEarly` | 2 threads, spurious wakeups | *violated*: `BlocksUntilAllArrive` |
| `MCSyncStart` | 4 threads, 2 restless | `NobodyThroughEarly`, `NobodyLeftBehind`, `IInv`, `EveryoneGetsThrough` |
| `MCFlowRun` | Listing 1 of fcldocu.pdf: 3 operations, 3 edges, 2 runs | `RunComplete`, `DependencyOrder`, `ExitsInStep`, `TerminationRunsNothing`, `DestructorReturns`, `KeepsContract`, `IInv` |
| `MCFlowRunNoSleep` | the README graph, destructor's sleep too short | *violated*: `DestructorReturns` |
| `MCFlowData` | host - CPU - GPU - host, 2 runs, intervals changed | `NoConflict`, `ArgumentsAreFresh`, `ResultsAreDelivered`, `IntervalIsKept` |
| `MCFlowSystem` | 2 operations, 2 edges, 2 CPUs and a GPU, 2 runs, 1 failure, calls in any order | `WiredAsFlowGraph`, `SizesCountThreads`, `RunComplete`, `DependenciesKept`, `NeverStuck`, `OnlyOrderlyContextsClose` |
| `MCGraphBuilderTwoCPUs` | 2 operations on 2 CPUs | *violated*: `EveryDependencyHasAnEdge` |
| `MCDeviceMemory` | a CPU and 2 GPUs, 3 compiles, 4 memories | `BuffersBelong`, `BuffersStay`, `QueueFits`, `SameGPU`, `IInv` |
| `MCProgramCache` | 2 programs, 2 device models, 4 sources, 4 compiles, new drivers | `RightProgram`, `ErrorsHaveACause`, `CacheIsSound` |
| `MCOperationArgs` | 3 indices, a kernel of 2 arguments or a native function, 5 calls | `CalledAsAsked`, `WritesStayInside`, `EdgeAsAsked` |
| `MCLifetimes` | 3 contexts, 3 handles | `OnlyTheCarelessGoAstray`, `HandlesStayAtHome`, `EndedOnce` |

The type invariants that are not part of an `IInv` of a run (`FlowData`,
`OperationArgs`, `ProgramCache`, `FlowSystem`) are stated in their modules and named by
no run; those of `OperationArgs` and `ProgramCache` are proved, as is that of
`GraphBuilder`.

Bounds. Three waits are one round to get out of step in, one to be harmed in and one to
recover; four threads allow a fast pair and a slow pair. Two runs let a worker of the
second meet one still on its way out of the first; nothing in `FlowRun` distinguishes
later ones, and the proofs are for any number. Listing 1 has what a graph can have: an
operation with two followers, one that ends at the framework's barrier, one with an
output edge. In `FlowSystem` two edges between two operations reach a barrier made by
a first edge, joined by a second, one shared by both ends of a dependency, a cycle of
two operations, and one of one operation with an entrance or an exit; every graph there
is, of up to `MaxRunThreads` = 4 threads, is run and destroyed, and one of fewer than
`MaxLateThreads` = 3 may grow between the runs; one failure is enough to be missed
at a barrier. `GraphBuilderProofs` is for larger graphs as well. One thing the run does not reach is in the properties because the proof needed it:
the exception `DependenciesKept` makes of cycles takes three operations (d before o, o
before p, p before itself). Run then returns before o, and the next has d execute beside
it. Three compiles are one that fails, one that succeeds and one more; in
`ProgramCache` four calls are two that leave a binary or a torn file and two that meet
it. Five calls set three arguments, one of them with an edge, and set two anew.
`HashSize` is 2^16, as TLC's integers end at 2^31; which sources collide does not depend
on it. Three contexts are two that overlap and one before, between or after; three
handles are an operation, its memory and a device.

Fairness. `SyncBarrier`: a thread inside `Wait` that can move does (the operating
system schedules threads and mutexes); nobody has to call `Wait`. With `WF` on a
single thread's steps a mutex could be snatched from it for ever; each thread has
only `MaxWaits` waits, so it is not. `FlowRun`: each worker, and the host inside a
call, goes on; kernels and transfers end; the host need not call `Run` or the
destructor. The others are checked for safety only; that nobody waits for ever is there
a matter of states (`NeverStuck`: the host waits and no worker can take a step).

The destructor's sleep. `SleepSettles` says whether one millisecond is enough for
every released worker to come round and test `m_threads_execute` before it is
cleared. Nothing in the code makes it so. With it, the destructor ends; without
it, it may hang (`MCFlowRunNoSleep`), which is what the TODO of Framework.cpp:115
describes. All other properties hold either way, and `ExitsInStep` says what the
sleep buys.

## What the models found

* Neither wait has a predicate (Synchronization.cpp:60, 85): after a spurious wakeup
  a barrier lets threads through early, and they stay out of step.
* The destructor hangs if its sleep was too short (Framework.cpp:118-125).
* A dependency between operations on two different CPUs is accepted, makes no edge
  and stores an uninitialized pointer (Framework.cpp:774-800).

Nothing refuses the following, and no document mentions it. `FlowSystem` gives the exact
extent, which is the antecedent of its properties:

* *Building after a Run* (`late`). The thread of a new operation or edge stops at the
  gate, which opens once, while the barriers count it: the next Run or the one after
  hangs, and so does the destructor's join. A dependency made between two Runs takes an
  operation out of the framework's input barrier in which its thread is already asleep;
  that barrier, one smaller now, may open without the host, and operations execute while
  no Run is in progress.
* *Cycles* (`Cyclic`). What is on a cycle, or behind one, never executes. Run returns
  early if what remains fills the framework's output barrier, and hangs otherwise; the
  destructor always hangs. After an early return an operation may still execute while the
  next Run has those it depends on execute again.
* *Failures* (`failures`). An operation whose constructor throws, or a thread that cannot
  be started, stays counted in the barriers: Run never returns, unless a cycle lets it or
  the graph is changed after a Run.

Without these three neither Run nor the destructor ever waits for a thread that does not
come (`NeverStuck`). In a graph that was not changed after a Run the other two are fatal:
once it was run, the destructor never returns with a cycle or a failure, nor Run with a
failure and no cycle (`OnlyOrderlyContextsClose`). A change after a Run may hide a failure:
an operation sleeps at the framework's input barrier when it is given an input, or made to
depend on one that is still on its way there, and the thread of the new edge cannot be
started. The barrier no longer counts the operation (Framework.cpp:618, 630, and likewise
`CreateInputEdge`), but it is still in it: it and the host of the next Run may open it,
and Run returns.

That operations execute in the order of their dependencies (`DependenciesKept`) is said of
graphs not changed after a Run, and of all dependencies but those between two different
CPUs (`OnTwoCPUs`), which the third finding above leaves without an edge.

Stated as the exact extent of properties that hold elsewhere: buffers are not the
memory's own on devices made by a second compile after a memory, or left behind by a
creation that failed (`BuffersBelong`, `late`, `spoiled`); pinned memory cannot be made
after a compile that failed before it came to the GPU (`QueueFits`, `broken`); a torn
binary is refused at every later start (`ErrorsHaveACause`, `cut`), and so may one be that
an earlier driver compiled, as the file name holds no version of the driver (`outdated`);
a program may be taken from the cache for that of another source with the same djb2 hash,
as the hash, of what is before the first 0, is all the file name holds of it
(`RightProgram`). A native function whose arguments were
not set in order is called with wrong ones, and `BuildUserFuncArgs` may write outside
its vectors (`CalledAsAsked`, `WritesStayInside`, `inOrder`); memories alone may come in
any order. Of several edges made at one index, as by the `SetArgInput` and
`SetArgOutput` of README.md:42-43, `SetArgCopyInterval` reaches the last only
(`EdgeAsAsked`). Contexts may follow each other although `g_df` keeps pointing to the
Framework that was deleted, but two that overlap, or one and its copy, always end with a
Framework deleted twice (`EndedOnce`); a handle used after its Context, or a reference
to a device after another compile, reads what is gone (`OnlyTheCarelessGoAstray`).

## What is proved

All for every value of the constants, in eight modules.

* `SyncBarrierProofs` (any wakeups): `Invariance`, `NobodyReturnsEarly`, `NoLostWakeup`,
  `TheCountStaysBelow`, `ImplementsContract` (the safety half of the contract, which a
  spurious wakeup ends). `NoEarlyReturn` alone is not inductive: it says nothing of
  threads that were woken and have not left. `IInv` adds that every member has *reached*
  the same round, counting a woken thread as through, that the counter is the number of
  sleepers, never all members, and that the mutex has one owner. After a spurious wakeup
  the counter is still less than the size, because only the thread that makes them equal
  may do so, and it resets it. `TheDueAreAwake`, `TheDueStayDue` and `EveryStepCounts` are
  the states' part of the contract's liveness: once all have called, whoever slept is awake
  and somebody can go on, that lasts until it returns, and between two openings the steps
  are counted.
* `SyncStartProofs` (spurious wakeups or not): `Invariance`, `NobodyIsLeftBehind`,
  `TheGateHolds`. The counter is the number of threads past the critical section, so
  that when `Start` sees all of them counted none can be between counting and
  sleeping, although it notifies without the lock. `SomebodyMayMove`, `MayLasts`,
  `EveryStepCounts`: the same three things for `EveryoneGetsThrough`.
* `FlowRunProofs` (finite acyclic graphs, any number of runs): `Invariance`,
  `TypeCorrect`, `RunIsComplete`, `DependenciesAreKept`, `NobodyExitsEarly`,
  `TerminationIsIdle`, `ImplementsContract`. The argument: at each barrier all members
  have come through equally often (`PhaseInv`); along an edge this makes a worker's
  passes differ by at most one from its neighbours'; every worker lies on a way from
  the framework's input barrier to its output barrier, because the graph is finite
  and has no cycle; between the host's two waits every worker therefore works exactly
  once. `WorkInv` ties the work done to the passes, `HostInv` and `GateInv` the host's
  place to its count of runs.
* Why calls return: `SomebodyMayMove`, `MayLasts`, `EveryStepCounts` (`FlowRunProofs`).
  While the host is in `Run` or in the destructor some thread can make a step (`May` writes
  out the guards of a thread's next one). If none could, every worker would sleep; of the
  workers asleep at their inputs one comes first, as the graph has no cycle, and whoever it
  waits for is at its output, and of those one comes last; so a barrier that all its
  members sleep in, which `BarrierInv` excludes. Who can go on still can after the step of
  another, and every step but a call of `Run` lessens `StepsLeft`. The exception is a worker
  that left its loop before the destructor's round (`MissedRound`, only without
  `SleepSettles`): then the host never comes to join (`LeavingEarlyIsFatal`), so a sleep that
  is too short is not a delay but a destructor that never ends.
* What joins `FlowRun` to `SyncBarrier`: `NobodyIsKeptThere`, `BarriersAreContracts`
  (`FlowRunProofs`). Counted at one barrier (`CallsAt`, `Passes`), each step of `FlowRun` is
  none, a call by a thread that is back from its last, or such a call by the last member and
  the return of all; and nobody sleeps whom `BarrierContract` would have return. So the
  barrier `FlowRun` relies on is the one `SyncBarrierProofs` shows the code to be. TLC checked
  both formulas on the instance of `MCFlowRun`.
* `FlowRun` is a `FlowSystem`: `ImplementsSystem`, `StartsBuilt` (`FlowRunProofs`, with
  `SleepSettles`). Every step of `FlowRun` is one of `FlowSystem` or is not seen there, and
  `FlowRun` starts with every part of `FlowSystem`'s inductive invariant (`SystemTypeOK`,
  `Wiring`, `SizesCountThreads`, `SystemInv`): in the middle of a life of a Framework, after
  the last call that builds. The mapping rests on a numbering of the barriers
  (`NumberingExists`) and on `PastTheGate`: only who is still at the gate can see
  `m_threads_execute` earlier than `FlowSystem` has it set. That the bounds `MaxRunThreads`
  and `MaxLateThreads` are no obstacle is part of it. TLC checked `KeepsSystem` on the
  instance of `MCFlowRun` first; it is in no run, but
  can be added to the PROPERTIES of `MCFlowRun.cfg`.
* The second half of `FlowRunProofs` is about `FlowData`, whose steps are steps of
  `FlowRun`: `NoConflicts`, `IntervalsAreKept`, `FreshArguments`, `DeliveredResults`. When
  a worker is at its work or past it, everything on a way to it is past its own (`InOrder`),
  so two threads that a way joins are never busy together. `CopyInv` says how often an edge
  has copied, from the interval last set. `FlowInv` follows a memory through a Run: it is
  where its edge takes it from until the edge works, then where the edge brings it to
  until the operation there works, then in what that operation saw. What each needs of the
  graph is its hypothesis: `ConflictsOrdered` (a way between threads that could meet at a
  buffer), `DataFlows` (an edge leads from a writer of its memory, and nobody else writes it
  on the way), `ResultsHaveAPlace` (only the edge writes where it brings a result to the
  host). Nothing in the code checks these; they are what a program has to see to, and
  `IntervalsAreKept` needs none of them.
* `GraphBuilderProofs` (finitely many operations and edges, any calls, any failures):
  `Invariance`, `TypeCorrect`, `SizesAreRight`, `TheWiringIsFlowGraphs`. The three
  `Create...Edge` do the same at each end of the new edge: either the operation moves with
  the edge to a barrier made for both, or the edge joins the one the operation is at. So
  `Wiring` is kept: an operation is at the framework's barrier exactly while it has no
  edge on that side, every other barrier has one owner, and an edge is where the owners of
  its ends are. That is all `FlowGraph` says. The sizes follow by counting who comes to
  and who leaves a barrier.
* The second half of `GraphBuilderProofs` is about `FlowSystem`, with graphs of any size and
  any mixture of building and running: `SystemInvariance`, `SystemKeepsDependencies`,
  `SystemRunsComplete`, `SystemIsNeverStuck`, `OnlyOrderlyOnesClose`. A barrier opens only when everyone who is ever at it is there, since
  its size counts them (`SizesCountThreads`, `EveryoneIsThere`), so everyone's passes stay
  equal (`InPhase`); no way through the graph is needed for that, and cycles do it no harm.
  Whoever executes is then behind those it was told to depend on, two different CPUs
  excepted (`OnTwoCPUs`), and graphs that were changed after a Run (`late`), of which nothing
  is said. That they are exactly one
  execution ahead, and that all is over when Run returns, needs that nobody is ahead of the
  host's input or behind its output (`Sandwich`), which is what a cycle may break. Once
  m_threads_execute is false nobody begins to execute any more (`NobodyBegins`), and the
  destructor's round is counted like that of a Run (`Rounds`), so phases go on to the end.
  If nobody could move (`SomebodyMoves`), everyone would be asleep or gone; of the
  operations asleep at their inputs one waits for none of the others, so whoever it waits
  for sleeps where everyone who is expected sleeps, and that barrier would have opened; so on
  to the host's own. For the other direction `SystemInv` says what never moves again: an
  operation of a circle never comes through its input (`CirclesSleep`), a thread that could
  not be started makes no passes, and the host never comes through its input barrier while
  that waits for an operation that was not made (`MissingAreAwaited`). TLC checked
  `SystemInv` on the instance of `MCFlowSystem` before it was proved.
* `LifetimesProofs`: `TheCarefulStaySafe`, `HandlesAreAtHome`, `OverlapsEndBadly`. While no
  two contexts overlap, whoever is alive is named by `g_df` and the Frameworks deleted are
  those of the ended. The last theorem counts: after an overlap there are fewer Frameworks
  to delete than contexts that will delete one (`Tally`).
* `DeviceMemoryProofs`: `ListsGrowInStep`, `BuffersAreTheMemorys`, `BuffersDoNotMove`,
  `TheQueueFits`, `OneGPU`. `InStep` says the list of every device that is neither late
  nor spoiled is `m_device_memories`.
* `OperationArgsProofs`: `ArgumentsAreThoseAsked`, `VectorsAreLongEnough`,
  `EdgesAreThoseAsked`. `BuildUserFuncArgs` is right for two reasons: calls in order share
  out an interval of indices between the two maps (`Orderly`); without constants the map
  of memories may have gaps, and empty places where there were gaps, but no place beyond
  the highest index that was set (`OnlyMems`).
* `ProgramCacheProofs`: `ProgramsAreRight`, `TheCacheIsSound`, `RefusalsAreCaused`. A binary
  is under the name of its own source and device (`Filed`); an unusable file was cut, is being
  written by a program that has not ended, or is of a driver that was replaced.

Assumptions: `GraphAssumption`, `AcyclicAssumption` (a finite graph whose every set of
workers has a first one; that it has a last one follows, `SomebodyIsLast`); `DataAssumption` (types, and that an edge between
operations joins one device, or a CPU and another device: `SetOperationArgDependency` makes
no other); `BuilderAssumption`, `LifetimesAssumption`,
`ThreadsAssumption` (finite sets, names that differ); `DevicesAssumption` (a system has
a device); `ArgsAssumption`; `CacheAssumption`, `MarksAssumption` (signed characters;
what marks an absent file or an error is no binary). What joins `GraphBuilderProofs` to
`FlowRunProofs` is `WiredAsFlowGraph`, since `FlowRun` starts from the formulas of
`FlowGraph`, and `ImplementsSystem`.

Only model-checked, because the prover does not reach it: everything under fairness
(`EveryoneGetsThrough`, `DestructorReturns`, the liveness of both contracts). What they rest
on is proved, in states and steps: somebody can go on, can until he does, and there are only
so many steps. What stays with TLC is that the guards written out in `May` are the ENABLED
of the actions, and the step from weak fairness and a decreasing number to "eventually".
That `FlowSystem` gets on is proved without the last of the three: `NeverStuck`.

## What is not modelled

* Kernels and OpenCL itself: a kernel reads and writes its arguments, a transfer copies, a
  driver refuses a binary that is not whole and may refuse one of its predecessor's; it
  does not refuse any other, and no driver is replaced under a running program. An exception in a worker's thread ends the
  program (`std::terminate`), and nothing of the model is left.
* `PrintProfile`, `GetDebugInfo`, `AddArgDebugStr` and the texts of exceptions: no state of
  the program depends on them.
* The order in which the members of `Framework` and the lists of its `MemoryManager` are
  destroyed: all threads are joined by then. `Lifetimes` frees a Framework in one step.
* `Main.cpp` and `kernel.cl`: demos; the instances take their graphs from them.
* The headers under `include` (OpenCL's C and C++ bindings, Visual Leak Detector): vendored
  declarations and wrappers of a driver's functions, by far the most lines here, with no
  logic of this system. What the library uses of them is in the modules as what the calls
  may do: succeed, or throw.

## Left to do

1. Liveness of `FlowSystem` (every Run of a graph without the three defects returns) as a
   temporal property, and the number of steps left to it; `NeverStuck` is the half that is a
   matter of states.
2. That a barrier of `FlowRun` opens and returns in one step is harmless, as each thread goes
   on by itself afterwards; a module in which all barriers of a graph are `BarrierContract`s,
   with a return for each thread, would say it as a refinement of `FlowRun`.
