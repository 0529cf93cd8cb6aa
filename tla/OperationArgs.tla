---------------------------- MODULE OperationArgs ----------------------------
(***************************************************************************)
(* The arguments of one operation: what Operation::SetKernelArgMemory and  *)
(* SetKernelArgConstant keep, for a kernel of OpenCL and for a native C or *)
(* C++ function, and the edge SetArgCopyInterval finds at an index.        *)
(*                                                                         *)
(*   userFunc    is the operation a native function?                       *)
(*   memObjects  m_map_user_func_arg_mem_objects                           *)
(*   constants   m_map_user_func_arg_constants; the data are copied, so an *)
(*               entry is a value and not a pointer to the caller's        *)
(*   args        m_user_func_args, the array the function is given         *)
(*   bound       m_user_func_mem_objects and m_user_func_mem_locs: which   *)
(*               entry of args OpenCL replaces by which memory             *)
(*   kernelArg   the arguments clSetKernelArg has set                      *)
(*   edges       the memory and the copy interval of each edge made for an *)
(*               argument of the operation                                 *)
(*   edgeAt      m_map_arg_index_edge, by the number of the edge           *)
(*   alive       has the program survived what it wrote?                   *)
(*                                                                         *)
(* A map of the code is a function whose domain is the indices set so far. *)
(*                                                                         *)
(* History: asked, what was last set at an index; wanted, the interval last*)
(* asked for there; inOrder, has no call skipped an index or put a constant*)
(* in the place of a memory, or the other way round?  mixed, was a constant*)
(* ever set?  wrecked, was anything written outside the vectors?           *)
(***************************************************************************)
EXTENDS Integers, FiniteSets, Sequences, Functions

CONSTANTS
  Indices,          \* the indices the host uses
  KernelArgs,       \* the arguments the kernel has
  Mems, Values,     \* memory objects and the values of constants
  Intervals,        \* copy intervals
  Null,             \* a null pointer or an empty cl::Memory; no edge; not set
  MaxCalls          \* bound: the calls

ASSUME ArgsAssumption ==
  /\ Indices \subseteq Nat /\ KernelArgs \subseteq Indices
  /\ Null \notin Mems \cup Values /\ Mems \cap Values = {}
  /\ MaxCalls \in Nat

VARIABLES userFunc, memObjects, constants, args, bound, kernelArg, edges, edgeAt,
          alive, asked, wanted, inOrder, mixed, wrecked, calls

native == <<memObjects, constants, args, bound, alive, wrecked>>
vars == <<userFunc, native, kernelArg, edges, edgeAt, asked, wanted, inOrder, mixed, calls>>

NoFunction == [i \in {} |-> Null]

TypeOK ==
  /\ userFunc \in BOOLEAN /\ alive \in BOOLEAN /\ wrecked \in BOOLEAN
  /\ inOrder \in BOOLEAN /\ mixed \in BOOLEAN /\ calls \in 0 .. MaxCalls
  /\ IsFiniteSet(DOMAIN memObjects) /\ Range(memObjects) \subseteq Mems \cup {Null}
  /\ DOMAIN constants \subseteq Indices /\ Range(constants) \subseteq Values
  /\ Range(args) \subseteq Values \cup {Null}
  /\ DOMAIN bound \subseteq DOMAIN args /\ Range(bound) \subseteq Mems \cup {Null}
  /\ kernelArg \in [KernelArgs -> Mems \cup Values \cup {Null}]
  /\ edges \in Seq([memory : Mems, interval : Intervals])
  /\ edgeAt \in [Indices -> DOMAIN edges \cup {Null}]
  /\ asked \in [Indices -> Mems \cup Values \cup {Null}]
  /\ wanted \in [Indices -> Intervals \cup {Null}]

Init ==
  /\ userFunc \in BOOLEAN
  /\ memObjects = NoFunction /\ constants = NoFunction
  /\ args = NoFunction /\ bound = NoFunction
  /\ kernelArg = [i \in KernelArgs |-> Null]
  /\ edges = <<>>
  /\ edgeAt = [i \in Indices |-> Null]
  /\ alive = TRUE
  /\ asked = [i \in Indices |-> Null]
  /\ wanted = [i \in Indices |-> Null]
  /\ inOrder = TRUE /\ mixed = FALSE /\ wrecked = FALSE /\ calls = 0
------------------------------------------------------------------------------
\* map::operator[], and, a plausible slip as all definitions named ...Slip, which no
\* specification uses, map::insert.
PutSlip(f, i, v) == [j \in DOMAIN f \cup {i} |-> IF j \in DOMAIN f THEN f[j] ELSE v]
Put(f, i, v) == [j \in DOMAIN f \cup {i} |-> IF j = i THEN v ELSE f[j]]

\* The indices below n that hold no constant. Slip: those up to the last one set.
SlotsSlip(mems, consts, n) ==
  {i \in Indices : \E j \in DOMAIN mems \cup DOMAIN consts : i <= j} \ DOMAIN consts
Slots(mems, consts, n) == (0 .. n - 1) \ DOMAIN consts

\* The vectors are made for the entries the maps have; an index that neither map has
\* is taken for a memory's, and operator[] leaves an empty cl::Memory there. Are the
\* indices that hold no constant more than there were memories, the write goes past
\* the end of m_user_func_mem_objects and m_user_func_mem_locs: the program may end,
\* or go on as if nothing had happened.
BuildUserFuncArgs(mems, consts) ==
  LET m == Cardinality(DOMAIN mems)
      n == m + Cardinality(DOMAIN consts)
      slots == Slots(mems, consts, n)
      Inside(i) == Cardinality({j \in slots : j < i}) < m
      filled == [i \in DOMAIN mems \cup slots |-> IF i \in DOMAIN mems THEN mems[i] ELSE Null]
  IN  /\ memObjects' = filled
      /\ constants' = consts
      /\ args' = [i \in 0 .. n - 1 |-> IF i \in DOMAIN consts THEN consts[i] ELSE Null]
      /\ bound' = [i \in {j \in slots : Inside(j)} |-> filled[i]]
      /\ IF \A i \in slots : Inside(i) THEN UNCHANGED <<wrecked, alive>>
         ELSE wrecked' = TRUE /\ alive' \in BOOLEAN

\* The host, with the history of what it asked for.

Call == alive /\ calls < MaxCalls /\ calls' = calls + 1

\* Is every index below i set?
Follows(i) == \A j \in 0 .. i - 1 : j \in Indices /\ asked[j] # Null

Ask(i, v) ==
  /\ asked' = [asked EXCEPT ![i] = v]
  /\ inOrder' = (inOrder /\ Follows(i) /\ (asked[i] # Null => (asked[i] \in Mems <=> v \in Mems)))
  /\ mixed' = (mixed \/ v \in Values)

\* clSetKernelArg refuses an index the kernel does not have.
Refused(i) == ~userFunc /\ i \notin KernelArgs

SetKernelArgMemory(i, m, e) ==
  /\ ~Refused(i)
  /\ IF userFunc
     THEN BuildUserFuncArgs(Put(memObjects, i, m), constants) /\ UNCHANGED kernelArg
     ELSE kernelArg' = [kernelArg EXCEPT ![i] = m] /\ UNCHANGED native
  /\ edgeAt' = [edgeAt EXCEPT ![i] = e]

\* An exception leaves everything as it was.
SetOperationArgMemory(i, m) ==
  /\ Call
  /\ SetKernelArgMemory(i, m, Null)
  /\ Ask(i, m)
  /\ UNCHANGED <<userFunc, edges, wanted>>

\* SetArgInput, SetArgOutput and SetArgDependency make the edge first; it is there
\* to stay when the argument is refused.
SetOperationArgEdge(i, m, interval) ==
  /\ Call
  /\ edges' = Append(edges, [memory |-> m, interval |-> interval])
  /\ \/ /\ SetKernelArgMemory(i, m, Len(edges'))
        /\ Ask(i, m)
        /\ wanted' = [wanted EXCEPT ![i] = interval]
     \/ /\ Refused(i)
        /\ UNCHANGED <<native, kernelArg, edgeAt, asked, wanted, inOrder, mixed>>
  /\ UNCHANGED userFunc

SetOperationArgConstant(i, v) ==
  /\ Call /\ ~Refused(i)
  /\ IF userFunc
     THEN BuildUserFuncArgs(memObjects, Put(constants, i, v)) /\ UNCHANGED kernelArg
     ELSE kernelArg' = [kernelArg EXCEPT ![i] = v] /\ UNCHANGED native
  /\ Ask(i, v)
  /\ UNCHANGED <<userFunc, edges, edgeAt, wanted>>

\* The edges whose interval is set. Slip: all with the memory of the argument.
AdjustedSlip(i) == {k \in DOMAIN edges : edges[k].memory = edges[edgeAt[i]].memory}
Adjusted(i) == {edgeAt[i]}

\* There is an exception if no edge is found.
SetOperationArgMemoryCopyInterval(i, interval) ==
  /\ Call /\ edgeAt[i] # Null
  /\ edges' = [k \in DOMAIN edges |-> IF k \in Adjusted(i)
                                     THEN [edges[k] EXCEPT !.interval = interval] ELSE edges[k]]
  /\ wanted' = [wanted EXCEPT ![i] = interval]
  /\ UNCHANGED <<userFunc, native, kernelArg, edgeAt, asked, inOrder, mixed>>

Next ==
  \E i \in Indices :
    \/ \E m \in Mems : SetOperationArgMemory(i, m)
    \/ \E m \in Mems, interval \in Intervals : SetOperationArgEdge(i, m, interval)
    \/ \E v \in Values : SetOperationArgConstant(i, v)
    \/ \E interval \in Intervals : SetOperationArgMemoryCopyInterval(i, interval)

Spec == Init /\ [][Next]_vars
------------------------------------------------------------------------------
(* Properties. *)

\* What the kernel or the function finds at index i when Process runs it
\* (Operation.cpp:206-233): clEnqueueNativeKernel puts the memories into args.
Passed(i) == IF ~userFunc THEN kernelArg[i]
             ELSE IF i \in DOMAIN bound THEN bound[i] ELSE args[i]

Complete == \A i \in Indices : asked[i] # Null => Follows(i)

\* An operation is called with what was last set at each index, and with nothing
\* else: for a kernel in whatever order the calls were made; for a native function if
\* no call skipped an index or changed its kind, or, once the gaps are filled, if all
\* of its arguments are memories.
CalledAsAsked ==
  IF userFunc
  THEN Complete /\ (inOrder \/ ~mixed) =>
         /\ DOMAIN args = {i \in Indices : asked[i] # Null}
         /\ \A i \in DOMAIN args : Passed(i) = asked[i]
  ELSE \A i \in KernelArgs : Passed(i) = asked[i]

\* BuildUserFuncArgs, which runs after each call although more are to come, writes
\* outside its vectors only if there are constants and an index was skipped or changed
\* its kind (Operation.cpp:95-96).
WritesStayInside == wrecked => mixed /\ ~inOrder

\* The edge SetArgCopyInterval finds at an index is the latest made there: it carries
\* the memory the operation has at that index, unless a constant took its place, and
\* the interval the host last asked for there, whatever it set at other indices in the
\* meantime, also for the same memory. (An earlier edge of the index, as of the
\* SetArgInput that a SetArgOutput follows in README.md:42-43, keeps its own.)
EdgeAsAsked ==
  \A i \in Indices : edgeAt[i] # Null =>
    /\ asked[i] \notin Values => edges[edgeAt[i]].memory = asked[i]
    /\ edges[edgeAt[i]].interval = wanted[i]

==============================================================================
