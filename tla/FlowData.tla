------------------------------ MODULE FlowData ------------------------------
(***************************************************************************)
(* FlowRun with the data: what Operation::Process and                      *)
(* Edge::TransferMemory read and write, and the copy intervals of the      *)
(* edges, which the host may change between two runs.                      *)
(*                                                                         *)
(* A memory object has one buffer on every dedicated device and one on the *)
(* host; the buffer of a CPU device is the host's (CL_MEM_USE_HOST_PTR).   *)
(* What is in a buffer is written <<w, n>>: the result of the n-th         *)
(* execution of operation w, or the n-th thing the host put there; a       *)
(* buffer nobody wrote to holds Garbage.  Kernels are the user's: all that *)
(* is known of them is which of their arguments they read and write.       *)
(*                                                                         *)
(*   content    what is in each buffer                                     *)
(*   interval   the m_copy_interval of each edge                           *)
(*                                                                         *)
(* History: saw[o], what o found in the memories it reads when it last     *)
(* executed; given, the host's buffers when Run was last called; setTo and *)
(* setAt, the interval last set for an edge and the runs before that;      *)
(* copied, the copies made since.                                          *)
(*                                                                         *)
(* An execution and a transfer take effect when they end.  That they may   *)
(* be taken to do so is the property NoConflict.                           *)
(***************************************************************************)
EXTENDS FlowRun

CONSTANTS
  Mems,            \* the memory objects
  Devices, CPUs,   \* the devices, and those of type CPU among them
  Dev,             \* the device of an operation
  Arg,             \* the memory of an edge
  Reads, Writes,   \* the memories the kernel of an operation reads and writes
  Adjustable,      \* the edges whose interval the host changes between runs
  CreatedWith      \* the interval an edge was created with

Always == 0
Once == 1
Never == 2
Intervals == {Always, Once, Never}

ASSUME DataAssumption ==
  /\ CPUs \subseteq Devices /\ Host \notin Devices
  /\ Dev \in [Ops -> Devices]
  /\ Arg \in [Edges -> Mems]
  /\ Reads \in [Ops -> SUBSET Mems] /\ Writes \in [Ops -> SUBSET Mems]
  /\ CreatedWith \in [Edges -> Intervals] /\ Adjustable \subseteq Edges
  \* SetOperationArgDependency makes an edge only then
  /\ \A e \in Edges : Host \in {Src[e], Dst[e]} \/ Dev[Src[e]] = Dev[Dst[e]]
                      \/ (Dev[Src[e]] \in CPUs) # (Dev[Dst[e]] \in CPUs)

VARIABLES content, interval, saw, given, setTo, setAt, copied

data == <<content, interval, saw, given, setTo, setAt, copied>>
allVars == <<vars, data>>

Garbage == <<Host, 0>>
Contents == (Ops \cup {Host}) \X (0 .. MaxRuns)
Places == {Host} \cup (Devices \ CPUs)

DataTypeOK ==
  /\ content \in [Places \X Mems -> Contents]
  /\ interval \in [Edges -> Intervals] /\ setTo \in [Edges -> Intervals]
  /\ setAt \in [Edges -> 0 .. MaxRuns] /\ copied \in [Edges -> 0 .. MaxRuns]
  /\ given \in [Mems -> Contents]
  /\ \A o \in Ops : saw[o] \in [Reads[o] -> Contents]

DataInit ==
  /\ Init
  /\ content = [c \in Places \X Mems |-> Garbage]
  /\ interval = CreatedWith
  /\ saw = [o \in Ops |-> [m \in Reads[o] |-> Garbage]]
  /\ given = [m \in Mems |-> Garbage]
  /\ setTo = CreatedWith
  /\ setAt = [e \in Edges |-> 0]
  /\ copied = [e \in Edges |-> 0]
------------------------------------------------------------------------------
\* Where an operation finds its arguments.
Place(o) == IF Dev[o] \in CPUs THEN Host ELSE Dev[o]

End(t) == IF t = Host THEN Host ELSE Place(t)

\* A slip, used by no specification: between two operations nothing is copied.
TypeSlip(e) ==
  IF End(Src[e]) = End(Dst[e]) \/ Host \notin {Src[e], Dst[e]} THEN "NoOp"
  ELSE IF Src[e] = Host THEN "HostToDevice" ELSE "DeviceToHost"

\* The EdgeType that SetOperationArgInput, -Output and -Dependency choose. Between
\* different dedicated devices, or different CPUs, they make no edge.
Type(e) ==
  IF End(Src[e]) = End(Dst[e]) THEN "NoOp"
  ELSE IF End(Src[e]) = Host THEN "HostToDevice" ELSE "DeviceToHost"

\* The buffers e reads and writes when it copies.
From(e) == <<IF Type(e) = "HostToDevice" THEN Host ELSE Place(Src[e]), Arg[e]>>
To(e) == <<IF Type(e) = "HostToDevice" THEN Place(Dst[e]) ELSE Host, Arg[e]>>

Process(o) ==
  /\ o \in Ops /\ FinishWork(o)
  /\ content' = [c \in Places \X Mems |->
                   IF c[1] = Place(o) /\ c[2] \in Writes[o] THEN <<o, work[o] + 1>>
                   ELSE content[c]]
  /\ saw' = [saw EXCEPT ![o] = [m \in Reads[o] |-> content[<<Place(o), m>>]]]
  /\ UNCHANGED <<interval, given, setTo, setAt, copied>>

\* The slips are used by no specification. Once is taken for Never.
CopiesSlip(e) == interval[e] = Always
Copies(e) == interval[e] # Never

\* Once stays Once.
AfterCopySlip(i) == i
AfterCopy(i) == IF i = Once THEN Never ELSE i

TransferMemory(e) ==
  /\ e \in Edges /\ FinishWork(e)
  /\ IF ~Copies(e) THEN UNCHANGED <<content, interval, copied>>
     ELSE /\ content' = IF Type(e) = "NoOp" THEN content
                        ELSE [content EXCEPT ![To(e)] = content[From(e)]]
          /\ interval' = [interval EXCEPT ![e] = AfterCopy(@)]
          /\ copied' = [copied EXCEPT ![e] = @ + 1]
  /\ UNCHANGED <<saw, given, setTo, setAt>>
------------------------------------------------------------------------------
(* The host. *)

\* Through Memory::GetData the host fills the memories as it likes between two
\* runs. Here it fills all of them, every time with something new, just before it
\* calls Run: what a Run leaves in the host's buffers cannot then be mistaken for
\* what an earlier one left there.
DataRun ==
  /\ Run
  /\ content' = [c \in Places \X Mems |->
                   IF c[1] = Host THEN <<Host, runs + 1>> ELSE content[c]]
  /\ given' = [m \in Mems |-> <<Host, runs + 1>>]
  /\ UNCHANGED <<interval, saw, setTo, setAt, copied>>

\* The edge is the one that Operation::GetEdgeAtArgIndex finds.
SetOperationArgMemoryCopyInterval(e, i) ==
  /\ e \in Adjustable /\ pc[Host] = "idle" /\ runs < MaxRuns
  /\ interval' = [interval EXCEPT ![e] = i]
  /\ setTo' = [setTo EXCEPT ![e] = i]
  /\ setAt' = [setAt EXCEPT ![e] = runs]
  /\ copied' = [copied EXCEPT ![e] = 0]
  /\ UNCHANGED <<vars, content, saw, given>>

\* The steps that move no data.
Control ==
  /\ \/ \E t \in Workers : Park(t) \/ TestLoop(t) \/ TestAgain(t) \/ Arrival(t)
     \/ HostStep \/ Destroy \/ Closed
  /\ UNCHANGED data

DataNext ==
  \/ \E o \in Ops : Process(o)
  \/ \E e \in Edges : TransferMemory(e)
  \/ DataRun
  \/ \E e \in Edges, i \in Intervals : SetOperationArgMemoryCopyInterval(e, i)
  \/ Control

DataSpec == DataInit /\ [][DataNext]_allVars
------------------------------------------------------------------------------
(* Properties. *)

\* What a worker may read and write, and what it does while it is busy.
MayRead(t) ==
  IF t \in Ops THEN {<<Place(t), m>> : m \in Reads[t]}
  ELSE IF Type(t) = "NoOp" THEN {} ELSE {From(t)}
MayWrite(t) ==
  IF t \in Ops THEN {<<Place(t), m>> : m \in Writes[t]}
  ELSE IF Type(t) = "NoOp" THEN {} ELSE {To(t)}

Idles(t) == t \in Edges /\ interval[t] = Never
Input(t) == IF Idles(t) THEN {} ELSE MayRead(t)
Output(t) == IF Idles(t) THEN {} ELSE MayWrite(t)

\* No buffer is written by one thread while another reads or writes it: no lock
\* protects the data, only the order in which the barriers let the workers go.
NoConflict ==
  \A t, u \in Workers : t # u /\ pc[t] = "busy" /\ pc[u] = "busy" =>
    Output(t) \cap (Input(u) \cup Output(u)) = {}

\* The end of a Run, before the host can do anything about the data.
RunEnds == pc[Host] = "returning" /\ execute

\* Whether e is to copy, in the Run that ends: always, in the first Run after Once
\* was asked for, or never.
ToCopy(e) == setTo[e] = Always \/ (setTo[e] = Once /\ setAt[e] + 1 = runs)

\* An operation finds in its argument what its source made of it in the same Run,
\* the host's data if the host is the source; wherever the two run, if only the
\* edge is to copy ("memory concistency is enforced depending on the dependencies
\* of the graph", README.md:14).
ArgumentsAreFresh ==
  RunEnds => \A e \in Edges :
    Dst[e] # Host /\ Arg[e] \in Reads[Dst[e]] /\ (ToCopy(e) \/ Type(e) = "NoOp") =>
      saw[Dst[e]][Arg[e]] = IF Src[e] = Host THEN given[Arg[e]] ELSE <<Src[e], runs>>

\* The host finds the results of this Run where it asked for them, and its own
\* data where it asked for no copy.
ResultsAreDelivered ==
  RunEnds => \A e \in Edges :
    Dst[e] = Host =>
      content[<<Host, Arg[e]>>] = IF ToCopy(e) \/ Type(e) = "NoOp" THEN <<Src[e], runs>>
                              ELSE given[Arg[e]]

\* Over any number of runs an edge has copied as often as its interval says, counted
\* from when it was last set.
IntervalIsKept ==
  RunEnds => \A e \in Edges :
    copied[e] = CASE setTo[e] = Always -> runs - setAt[e]
                  [] setTo[e] = Once -> 1
                  [] setTo[e] = Never -> 0

------------------------------------------------------------------------------
(* What a program has to see to, so that these hold of its graph.             *)

\* There is a way from t to u: whatever holds u, and with a worker what feeds it,
\* holds t.
Before(t, u) ==
  /\ u \in Workers /\ t # u
  /\ \A S \in SUBSET Workers :
       u \in S /\ (\A v \in S : Feeders(v) \subseteq S) => t \in S

\* Two workers that may not be at a buffer together are joined by a way.
ConflictsOrdered ==
  \A t, u \in Workers :
    t # u /\ MayWrite(t) \cap (MayRead(u) \cup MayWrite(u)) # {} => Before(t, u) \/ Before(u, t)

\* The source of an edge writes its memory, and nobody else may write it where the
\* edge takes it from between the source and the edge, or where it brings it to
\* between the edge and the operation it leads to.
DataFlows ==
  \A e \in Edges :
    /\ Src[e] # Host => Arg[e] \in Writes[Src[e]]
    /\ \A w \in Workers \ {e} :
         /\ <<End(Src[e]), Arg[e]>> \in MayWrite(w) =>
              w = Src[e] \/ Before(w, Src[e]) \/ Before(e, w)
         /\ <<End(Dst[e]), Arg[e]>> \in MayWrite(w) =>
              Before(w, e) \/ w = Dst[e] \/ Before(Dst[e], w)

\* Nobody but the edge that brings a result to the host writes where it brings it.
ResultsHaveAPlace ==
  \A e \in Edges : Dst[e] = Host /\ Type(e) # "NoOp" =>
    \A w \in Workers \ {e} : <<Host, Arg[e]>> \notin MayWrite(w)

==============================================================================
