---------------------------- MODULE GraphBuilder ----------------------------
(***************************************************************************)
(* The calls with which a program builds its graph:                        *)
(* CreateOperation and the SetArg... of Operation, down to CreateInputEdge,*)
(* CreateOutputEdge and CreateOpToOpEdge of Framework.cpp.                 *)
(*                                                                         *)
(* Barriers are numbered in the order NewSyncBarrier makes them; 1 and 2   *)
(* are the m_sync_input and m_sync_output of the Framework, which counts   *)
(* the host in both from the start.                                        *)
(*                                                                         *)
(*   ops, edges       the Operation and Edge objects; each has its thread  *)
(*   dev              the device of an operation                           *)
(*   src, dst         the ends of an edge, as in FlowGraph                 *)
(*   inSync, outSync  the m_sync_input and m_sync_output of each thread    *)
(*   size             size[b]: the m_barrier_size of barrier b             *)
(*   threadless       the edges whose std::thread could not be started     *)
(*   asked            history: <<d, o>> if a call that made o depend on d  *)
(*                    got past that                                        *)
(*   failures         history: the operations that could not be created and*)
(*                    the threads that could not be started                *)
(*                                                                         *)
(* SetKernelArgMemory comes last in each call: if it throws, the edge it   *)
(* was called for is in the graph all the same, with its thread.  So the   *)
(* two outcomes lead to one state here; the map of arguments is in         *)
(* OperationArgs.  Nothing in the code looks for cycles, so here neither.  *)
(***************************************************************************)
EXTENDS Integers, Sequences, FiniteSets

CONSTANTS
  Operations,      \* the operations that may be created
  EdgeIds,         \* the edges that may be created
  Devices, CPUs,   \* the devices found, and those of type CPU among them
  Host,
  MaxFailures      \* bound: the constructors of Operation that throw (no such
                   \* kernel) and the threads that cannot be started

ASSUME BuilderAssumption ==
  /\ IsFiniteSet(Operations) /\ IsFiniteSet(EdgeIds) /\ CPUs \subseteq Devices
  /\ EdgeIds \cap Operations = {} /\ Host \notin Operations \cup EdgeIds
  /\ MaxFailures \in Nat

VARIABLES
  ops, edges, dev, src, dst, inSync, outSync, size, threadless, asked, failures

vars == <<ops, edges, dev, src, dst, inSync, outSync, size, threadless, asked, failures>>

FrameworkInput == 1
FrameworkOutput == 2
Threads == ops \cup edges \cup {Host}

\* f with the value v at x, whether it had one there or not.
Extend(f, x, v) == [y \in DOMAIN f \cup {x} |-> IF y = x THEN v ELSE f[y]]

TypeOK ==
  /\ ops \subseteq Operations /\ edges \subseteq EdgeIds
  /\ dev \in [ops -> Devices]
  /\ src \in [edges -> ops \cup {Host}] /\ dst \in [edges -> ops \cup {Host}]
  /\ size \in Seq(Nat)
  /\ inSync \in [Threads -> 1 .. Len(size)]
  /\ outSync \in [Threads -> 1 .. Len(size)]
  /\ threadless \subseteq edges
  /\ asked \subseteq Operations \X Operations
  /\ failures \in 0 .. MaxFailures

\* Framework::Framework
Init ==
  /\ ops = {} /\ edges = {}
  /\ dev = << >> /\ src = << >> /\ dst = << >>
  /\ inSync = [t \in {Host} |-> FrameworkInput]
  /\ outSync = [t \in {Host} |-> FrameworkOutput]
  /\ size = <<1, 1>>
  /\ threadless = {} /\ asked = {} /\ failures = 0
------------------------------------------------------------------------------
(* Plausible slips, used by no specification. *)

\* The Framework's barrier goes on counting the operation.
ShareSizeSlip(s, b, f) ==
  IF b = f THEN Append(s, 2) ELSE [s EXCEPT ![b] = @ + 1]

\* The Framework's barrier is shared in place of a new one.
ShareBarrierSlip(s, b, f) == b
------------------------------------------------------------------------------
(* An end b of an operation comes to be shared with a new edge. An end at the *)
(* Framework's barrier f leaves it (Remove) for a new barrier that both join  *)
(* (two Adds); an end that has left it before is joined by the edge (Add).    *)

ShareSize(s, b, f) ==
  IF b = f THEN Append([s EXCEPT ![f] = @ - 1], 2) ELSE [s EXCEPT ![b] = @ + 1]

ShareBarrier(s, b, f) == IF b = f THEN Len(s) + 1 ELSE b

\* NewEdge, and the std::thread that comes last: if it cannot be started, the edge
\* keeps the place it was given in the barriers.
AddEdge(e, from, to) ==
  /\ edges' = edges \cup {e}
  /\ src' = Extend(src, e, from)
  /\ dst' = Extend(dst, e, to)
  /\ \/ UNCHANGED <<threadless, failures>>
     \/ /\ failures < MaxFailures
        /\ threadless' = threadless \cup {e}
        /\ failures' = failures + 1

CreateInputEdge(e, o) ==
  LET s == [size EXCEPT ![FrameworkInput] = @ + 1]
      b == ShareBarrier(s, inSync[o], FrameworkInput)
  IN
  /\ size' = ShareSize(s, inSync[o], FrameworkInput)
  /\ inSync' = Extend(Extend(inSync, e, FrameworkInput), o, b)
  /\ outSync' = Extend(outSync, e, b)
  /\ AddEdge(e, Host, o)

CreateOutputEdge(e, o) ==
  LET s == [size EXCEPT ![FrameworkOutput] = @ + 1]
      b == ShareBarrier(s, outSync[o], FrameworkOutput)
  IN
  /\ size' = ShareSize(s, outSync[o], FrameworkOutput)
  /\ outSync' = Extend(Extend(outSync, e, FrameworkOutput), o, b)
  /\ inSync' = Extend(inSync, e, b)
  /\ AddEdge(e, o, Host)

CreateOpToOpEdge(e, d, o) ==
  LET bOut == ShareBarrier(size, outSync[d], FrameworkOutput)
      s == ShareSize(size, outSync[d], FrameworkOutput)
      bIn == ShareBarrier(s, inSync[o], FrameworkInput)
  IN
  /\ size' = ShareSize(s, inSync[o], FrameworkInput)
  /\ inSync' = Extend(Extend(inSync, e, bOut), o, bIn)
  /\ outSync' = Extend(Extend(outSync, d, bOut), e, bIn)
  /\ AddEdge(e, d, o)
------------------------------------------------------------------------------
(* The calls. *)

\* CreateDeviceOperation, CreateNativeOperation.
CreateOperation(o, d) ==
  /\ o \notin ops
  /\ ops' = ops \cup {o}
  /\ dev' = Extend(dev, o, d)
  /\ size' = [size EXCEPT ![FrameworkInput] = @ + 1, ![FrameworkOutput] = @ + 1]
  /\ inSync' = Extend(inSync, o, FrameworkInput)
  /\ outSync' = Extend(outSync, o, FrameworkOutput)
  /\ UNCHANGED <<edges, src, dst, threadless, asked, failures>>

\* The arguments m_sync_input->Add() and m_sync_output->Add() are evaluated, then
\* the constructor throws, or its thread cannot be started: the exception is handed
\* on, nothing is taken back.
CreateOperationFails ==
  /\ failures < MaxFailures
  /\ size' = [size EXCEPT ![FrameworkInput] = @ + 1, ![FrameworkOutput] = @ + 1]
  /\ failures' = failures + 1
  /\ UNCHANGED <<ops, edges, dev, src, dst, inSync, outSync, threadless, asked>>

SetOperationArgInput(e, o) ==
  /\ e \notin edges /\ o \in ops
  /\ CreateInputEdge(e, o)
  /\ UNCHANGED <<ops, dev, asked>>

SetOperationArgOutput(e, o) ==
  /\ e \notin edges /\ o \in ops
  /\ CreateOutputEdge(e, o)
  /\ UNCHANGED <<ops, dev, asked>>

\* The branches of SetOperationArgDependency that create an edge: the devices are
\* the same, or one is a CPU and the other is not.
Connects(d, o) == dev[d] = dev[o] \/ ((dev[d] \in CPUs) # (dev[o] \in CPUs))

\* Two dedicated devices make it throw, before anything has changed. Of two
\* different CPUs it says nothing: the local variable edge is stored as it is and
\* the call returns.
SetOperationArgDependency(e, d, o) ==
  /\ e \notin edges /\ d \in ops /\ o \in ops
  /\ \/ Connects(d, o) /\ CreateOpToOpEdge(e, d, o)
     \/ /\ ~Connects(d, o) /\ {dev[d], dev[o]} \subseteq CPUs
        /\ UNCHANGED <<edges, src, dst, inSync, outSync, size, threadless, failures>>
  /\ asked' = IF threadless' = threadless THEN asked \cup {<<d, o>>} ELSE asked
  /\ UNCHANGED <<ops, dev>>

Next ==
  \/ \E o \in Operations, d \in Devices : CreateOperation(o, d)
  \/ CreateOperationFails
  \/ \E e \in EdgeIds, o \in ops :
       \/ SetOperationArgInput(e, o)
       \/ SetOperationArgOutput(e, o)
       \/ \E d \in ops : SetOperationArgDependency(e, d, o)

Spec == Init /\ [][Next]_vars
------------------------------------------------------------------------------
(* Properties. *)

FG == INSTANCE FlowGraph WITH Ops <- ops, Edges <- edges, Src <- src, Dst <- dst

\* In whatever order the calls come, two ends of threads are at the same barrier
\* exactly if FlowGraph puts them at the same: each operation meets all its
\* incoming edges and nobody else at its input, all its outgoing edges and nobody
\* else at its output, and what is left over meets the host.
WiredAsFlowGraph ==
  LET in == FG!InputSync
      out == FG!OutputSync
  IN  \A t, u \in Threads :
        /\ inSync[t] = inSync[u] <=> in[t] = in[u]
        /\ outSync[t] = outSync[u] <=> out[t] = out[u]
        /\ inSync[t] = outSync[u] <=> in[t] = out[u]

\* The threads that will wait at barrier b, the missing ones of edges among them.
Waiters(b) == Cardinality({t \in Threads : inSync[t] = b \/ outSync[t] = b})

\* The operations that could not be created.
NotCreated == failures - Cardinality(threadless)

\* Every barrier is as large as the threads that will wait at it are many ("Number
\* of threads of barrier", Synchronization.hpp:70): smaller, it would open too
\* early; larger, it never opens and Run hangs. Only the Framework's two are
\* larger, by the operations that could not be created.
SizesCountThreads ==
  \A b \in 1 .. Len(size) :
    size[b] = Waiters(b) + (IF b \in {FrameworkInput, FrameworkOutput}
                            THEN NotCreated ELSE 0)

Connected == {<<src[e], dst[e]>> : e \in edges}

\* "memory concistency is enforced depending on the dependencies of the graph"
\* (README.md:14): of all of them.
EveryDependencyHasAnEdge == asked \subseteq Connected

------------------------------------------------------------------------------
(* The part of the inductive invariant that says where the barriers past the  *)
(* Framework's two come from: each belongs to one side of one operation, which *)
(* is at it since it has an edge there, and these edges are at it too.         *)

HasIn(o) == \E e \in edges : dst[e] = o
HasOut(o) == \E e \in edges : src[e] = o

Wiring ==
  /\ inSync[Host] = FrameworkInput /\ outSync[Host] = FrameworkOutput
  /\ \A e \in edges :
       /\ src[e] # Host \/ dst[e] # Host
       /\ inSync[e] = IF src[e] = Host THEN FrameworkInput ELSE outSync[src[e]]
       /\ outSync[e] = IF dst[e] = Host THEN FrameworkOutput ELSE inSync[dst[e]]
  /\ \A o \in ops :
       /\ inSync[o] # FrameworkOutput /\ outSync[o] # FrameworkInput
       /\ inSync[o] = FrameworkInput <=> ~HasIn(o)
       /\ outSync[o] = FrameworkOutput <=> ~HasOut(o)
  /\ \A o, p \in ops :
       /\ inSync[o] = inSync[p] => inSync[o] = FrameworkInput \/ o = p
       /\ outSync[o] = outSync[p] => outSync[o] = FrameworkOutput \/ o = p
       /\ inSync[o] # outSync[p]

==============================================================================
