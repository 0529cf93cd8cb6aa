---------------------------- MODULE DeviceMemory ----------------------------
(***************************************************************************)
(* The devices of a context and the buffers of its memories:               *)
(* Framework::CreateDevices (CompileFile, CompileSource),                  *)
(* Framework::CreatePinnedMemory and Device::GetCLMemory.                  *)
(*                                                                         *)
(* A Memory has an id, its place in m_device_memories; every Device has a  *)
(* list of buffers, and takes the one at that place for the memory's.      *)
(* Nothing else ties the lists together: they grow in step, or they do not.*)
(*                                                                         *)
(*   devices   m_devices: for each Device its kind and                     *)
(*             mems, its m_cl_mems: the memory each buffer was made for    *)
(*   memories  m_device_memories                                           *)
(*   listed    the m_devices of the public Context: places in devices      *)
(*   queue     the device m_pinned_cl_queue was made on, 0 for none        *)
(*                                                                         *)
(* A memory is named by the number of the call that made it.  History:     *)
(* calls of CreatePinnedMemory and compiles; spoiled, the devices that     *)
(* hold a buffer of a memory that could not be created; late, those made   *)
(* when there were memories; broken, whether a compile failed halfway.     *)
(***************************************************************************)
EXTENDS Naturals, Sequences

CONSTANTS
  Platform,      \* the kinds of the system's devices, in the order they are found
  MaxCompiles,   \* bound: the calls of CompileFile and CompileSource
  MaxCalls       \* bound: the calls of CreateMemory

Kinds == {"CPU", "GPU", "other"}

ASSUME DevicesAssumption ==
  Platform \in Seq(Kinds) /\ Platform # << >> /\ MaxCompiles \in Nat /\ MaxCalls \in Nat

VARIABLES devices, memories, listed, queue, calls, compiles, spoiled, late, broken

vars == <<devices, memories, listed, queue, calls, compiles, spoiled, late, broken>>

TypeOK ==
  /\ devices \in Seq([kind : Kinds, mems : Seq(Nat)])
  /\ memories \in Seq(Nat)
  /\ calls \in 0 .. MaxCalls /\ compiles \in 0 .. MaxCompiles
  /\ spoiled \subseteq DOMAIN devices /\ late \subseteq DOMAIN devices
  /\ broken \in BOOLEAN

Init ==
  /\ devices = << >> /\ memories = << >> /\ listed = << >>
  /\ queue = 0
  /\ calls = 0 /\ compiles = 0
  /\ spoiled = {} /\ late = {} /\ broken = FALSE
------------------------------------------------------------------------------
(* Slips, used by no specification. *)

\* The last GPU is chosen.
ChosenSlip ==
  LET gpus == {i \in DOMAIN devices : devices[i].kind = "GPU"}
  IN  IF gpus = {} THEN 1 ELSE CHOOSE i \in gpus : \A j \in gpus : j <= i

\* CPUs need no buffer: they see the host's memory.
WithBufferSlip(d, mem) ==
  IF d.kind = "CPU" THEN d ELSE [d EXCEPT !.mems = Append(@, mem)]

\* The newest buffer comes first.
NewestFirstSlip(d, mem) == [d EXCEPT !.mems = <<mem>> \o @]

\* The list of the Context has the newest devices first.
NewestListedSlip(devs) == [i \in DOMAIN devs |-> Len(devs) + 1 - i] \o listed
------------------------------------------------------------------------------
(* The device pinned memory is made on: the first GPU, else the first device. *)
(* CreateMemory before any compile is not modelled: m_devices[0] of an empty  *)
(* vector is undefined (Framework.cpp:425). That m_devices is not empty is a  *)
(* precondition, the first conjunct of both CreatePinnedMemory actions.       *)

Chosen ==
  LET gpus == {i \in DOMAIN devices : devices[i].kind = "GPU"}
  IN  IF gpus = {} THEN 1 ELSE CHOOSE i \in gpus : \A j \in gpus : i <= j

\* Device::AddMemoryObject
WithBuffer(d, mem) == [d EXCEPT !.mems = Append(@, mem)]

\* All that m_devices holds is listed again, after what is listed already.
Listed(devs) == listed \o [i \in DOMAIN devs |-> i]

\* CreateDevices makes n devices; if these are not all, the next one's context or
\* program failed, the exception leaves the others in m_devices and is handed on
\* by CompileFile and CompileSource of the Context.
Compile(n) ==
  /\ compiles < MaxCompiles
  /\ compiles' = compiles + 1
  /\ devices' = devices \o [i \in 1 .. n |-> [kind |-> Platform[i], mems |-> << >>]]
  /\ late' = IF memories = << >> THEN late
             ELSE late \cup (DOMAIN devices' \ DOMAIN devices)
  /\ listed' = IF n = Len(Platform) THEN Listed(devices') ELSE listed
  /\ broken' = (broken \/ n < Len(Platform))
  /\ UNCHANGED <<memories, queue, calls, spoiled>>

MakeQueue == queue' = IF queue = 0 THEN Chosen ELSE queue

\* The page locked buffer cannot be made, or not be mapped: it is of the context of
\* the device chosen now, the queue of that of the device chosen at the first call.
\* Or it was the queue that could not be made.
CreatePinnedMemoryFails ==
  /\ devices # << >> /\ calls < MaxCalls
  /\ calls' = calls + 1
  /\ MakeQueue \/ UNCHANGED queue
  /\ UNCHANGED <<devices, memories, listed, compiles, spoiled, late, broken>>

\* n devices get their buffer. If these are not all, the next one could not make its
\* own, and the memory is not stored.
CreatePinnedMemory(n) ==
  LET mem == calls + 1 IN
  /\ devices # << >> /\ calls < MaxCalls
  /\ calls' = mem
  /\ MakeQueue /\ queue' = Chosen
  /\ devices' = [i \in DOMAIN devices |->
                   IF i <= n THEN WithBuffer(devices[i], mem) ELSE devices[i]]
  /\ memories' = IF n = Len(devices) THEN Append(memories, mem) ELSE memories
  /\ spoiled' = IF n = Len(devices) THEN spoiled ELSE spoiled \cup 1 .. n
  /\ UNCHANGED <<listed, compiles, late, broken>>

Next ==
  \/ \E n \in 0 .. Len(Platform) : Compile(n)
  \/ CreatePinnedMemoryFails
  \/ \E n \in 0 .. Len(devices) : CreatePinnedMemory(n)

Spec == Init /\ [][Next]_vars
------------------------------------------------------------------------------
(* Properties. *)

\* Device::GetCLMemory: what device d takes for the buffer of the memory with place
\* k in m_device_memories; 0 if the place is beyond the end of its list.
GetCLMemory(d, k) == IF k \in DOMAIN devices[d].mems THEN devices[d].mems[k] ELSE 0

\* On every device a memory's buffer is its own ("create memory that will be usable
\* on all devices", fcldocu.pdf), unless the device was made when there were
\* memories, or has been left with the buffer of one that could not be created.
BuffersBelong ==
  \A d \in DOMAIN devices \ (late \cup spoiled) : \A k \in DOMAIN memories :
    GetCLMemory(d, k) = memories[k]

\* A buffer that was right once stays so, whatever is compiled, created or fails
\* later: a kernel's arguments are set by GetCLMemory at one time, the transfers
\* call it in every Run (Edge.cpp:103, Edge.cpp:119).
BuffersStay ==
  [][\A d \in DOMAIN devices : \A k \in DOMAIN memories :
       GetCLMemory(d, k) # 0 => GetCLMemory(d, k)' = GetCLMemory(d, k)]_vars

\* The queue that maps pinned memory is on the device the memory is made on, as
\* long as no compile has failed halfway: else a GPU may turn up when the queue is
\* on a CPU, and no memory can be created any more.
QueueFits == ~broken => queue \in {0, Chosen}

\* The device that the public Context takes for "the" GPU is the one the Framework
\* makes pinned memory on (Context::GetGPUDevice, Framework::GetGPUDevice).
SameGPU ==
  \A i \in DOMAIN listed :
    (devices[listed[i]].kind = "GPU"
     /\ \A j \in 1 .. i - 1 : devices[listed[j]].kind # "GPU") => listed[i] = Chosen

------------------------------------------------------------------------------
(* The inductive invariant behind the first two: the lists of all devices but   *)
(* the late and the spoiled grow in step with m_device_memories.                *)

InStep ==
  \A d \in DOMAIN devices \ (late \cup spoiled) : devices[d].mems = memories

IInv == TypeOK /\ InStep

==============================================================================
