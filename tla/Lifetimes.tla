------------------------------ MODULE Lifetimes ------------------------------
(***************************************************************************)
(* Contexts, the one global pointer behind them and the handles they give  *)
(* out: FlowCL.cpp and FlowCL.hpp.                                         *)
(*                                                                         *)
(* A Context owns nothing: its constructor stores a new Framework in the   *)
(* global g_df, its destructor deletes what g_df points to, and each of its*)
(* methods, and of Operation, goes through g_df.  Device, Memory and       *)
(* Operation are handles: they point into the Framework that was there when*)
(* they were made.  GetCPUDevice, GetGPUDevice and Devices return          *)
(* references into m_devices, which a later compile lets grow and so move. *)
(*                                                                         *)
(*   alive, ended  the Context objects there are, and those there were; a  *)
(*                 Framework is named after the Context that made it       *)
(*   g_df          the Framework g_df points to                            *)
(*   freed         the Frameworks that were deleted                        *)
(*   devs[c]       the Frameworks whose devices m_devices of c lists       *)
(*   handles       what the program holds: the kind, the Frameworks it     *)
(*                 points into, and, as the program sees it, the Contexts  *)
(*                 it has them from; as is "value", or "ref" for a         *)
(*                 reference, "kept" when c has compiled since, "dangling" *)
(*                 when its vector has moved or is gone                    *)
(*   overlapped    history: a Context was made, or copied, beside another  *)
(*   careless      history: a handle was used after its Context, or a      *)
(*                 reference after a compile                               *)
(*   astray        history: a call read or deleted what was gone, or met   *)
(*                 objects of two Frameworks.  No step is modelled after it*)
(***************************************************************************)
EXTENDS Integers, FiniteSets

CONSTANTS
  Contexts,
  MaxHandles    \* bound: the handles the program holds

ASSUME LifetimesAssumption == IsFiniteSet(Contexts) /\ MaxHandles \in Nat

VARIABLES alive, ended, g_df, freed, devs, handles, overlapped, careless, astray

vars == <<alive, ended, g_df, freed, devs, handles, overlapped, careless, astray>>

nullptr == "nullptr"

Init ==
  /\ alive = {} /\ ended = {} /\ g_df = nullptr /\ freed = {}
  /\ devs = [c \in Contexts |-> {}] /\ handles = {}
  /\ overlapped = FALSE /\ careless = FALSE /\ astray = FALSE
------------------------------------------------------------------------------
(* The life of a Context. *)

\* What a new Context makes g_df point to. (The slips are plausible mistakes, used
\* by no specification: here, that the pointer is taken to be null again.)
NewFrameworkSlip(c) == IF g_df = nullptr THEN c ELSE g_df
NewFramework(c) == c

Construct(c) ==
  /\ ~astray /\ c \notin alive \cup ended
  /\ g_df' = NewFramework(c)
  /\ alive' = alive \cup {c}
  /\ overlapped' = (overlapped \/ alive # {})
  /\ UNCHANGED <<ended, freed, devs, handles, careless, astray>>

\* The copy constructor nobody wrote or deleted: another Context, no Framework.
Copy(c, d) ==
  /\ ~astray /\ c \in alive /\ d \notin alive \cup ended
  /\ alive' = alive \cup {d}
  /\ devs' = [devs EXCEPT ![d] = devs[c]]
  /\ overlapped' = TRUE
  /\ UNCHANGED <<ended, g_df, freed, handles, careless, astray>>

\* References into the m_devices of c, when these stay where they are or not.
Moved(c, there) ==
  {IF h.from # {c} \/ h.as \in {"value", "dangling"} THEN h ELSE [h EXCEPT !.as = there] :
     h \in handles}

\* What is deleted. g_df keeps pointing to it. (Slip: nothing is.)
DeletedSlip(c) == {}
Deleted(c) == {g_df}

Destruct(c) ==
  /\ ~astray /\ c \in alive
  /\ alive' = alive \ {c} /\ ended' = ended \cup {c}
  /\ freed' = freed \cup Deleted(c)
  /\ astray' = (g_df \in freed)
  /\ handles' = Moved(c, "dangling")
  /\ UNCHANGED <<g_df, devs, overlapped, careless>>
------------------------------------------------------------------------------
(* Calls. One on a handle cannot see that its Context is gone. *)

\* A call that goes through g_df or not and reads the handles hs.
Call(globals, hs) ==
  LET met == globals \cup UNION {h.into : h \in hs} IN
  /\ ~astray
  /\ astray' = \/ met \cap freed # {} \/ Cardinality(met) > 1
               \/ \E h \in hs : h.as = "dangling"
  /\ careless' = \/ careless
                 \/ \E h \in hs : h.as \in {"kept", "dangling"} \/ ~(h.from \subseteq alive)
  /\ UNCHANGED <<alive, ended, g_df, freed, overlapped>>

Gain(h) ==
  /\ Cardinality(handles) < MaxHandles
  /\ handles' = handles \cup {h}

\* CompileFile, CompileSource: all devices of g_df are appended, the vector may move.
\* (Slip: m_devices is static.)
ListedSlip(c) == UNION {devs[d] : d \in Contexts} \cup {g_df}
Listed(c) == devs[c] \cup {g_df}

Compile(c) ==
  /\ c \in alive /\ Call({g_df}, {})
  /\ devs' = [devs EXCEPT ![c] = Listed(c)]
  /\ \E there \in {"kept", "dangling"} : handles' = Moved(c, there)

\* GetCPUDevice, GetGPUDevice, Devices, whose result is copied or not.
GetDevice(c) ==
  /\ c \in alive /\ Call({}, {})
  /\ \E f \in devs[c], as \in {"value", "ref"} :
       Gain([kind |-> "device", into |-> {f}, from |-> {c}, as |-> as])
  /\ UNCHANGED devs

CreateMemory(c) ==
  /\ c \in alive /\ Call({g_df}, {})
  /\ Gain([kind |-> "memory", into |-> {g_df}, from |-> {c}, as |-> "value"])
  /\ UNCHANGED devs

CreateOperation(c, dev) ==
  /\ c \in alive /\ dev.kind = "device" /\ Call({g_df}, {dev})
  /\ Gain([kind |-> "operation", into |-> {g_df} \cup dev.into,
           from |-> {c} \cup dev.from, as |-> "value"])
  /\ UNCHANGED devs

\* The SetArg... and SetWorkSize, with a memory, an operation, both or neither.
SetArg(op, args) ==
  /\ op.kind = "operation" /\ \A h \in args : h.kind # "device"
  /\ Call({g_df}, {op} \cup args)
  /\ UNCHANGED <<devs, handles>>

\* Run, GetDebugInfo.
Run(c) ==
  /\ c \in alive /\ Call({g_df}, {})
  /\ UNCHANGED <<devs, handles>>

\* GetData of a Memory, whose bytes are in a buffer of the Framework; GetName and
\* GetVendorName of a Device, which return references to strings in there.
Read(h) ==
  /\ h.kind \in {"memory", "device"} /\ Call({}, {h})
  /\ UNCHANGED <<devs, handles>>

Next ==
  \/ \E c \in Contexts : \/ Construct(c) \/ Destruct(c)
                         \/ Compile(c) \/ GetDevice(c) \/ CreateMemory(c) \/ Run(c)
                         \/ \E d \in Contexts : Copy(c, d)
                         \/ \E h \in handles : CreateOperation(c, h)
  \/ \E h \in handles : Read(h) \/ \E args \in SUBSET handles : SetArg(h, args)

Spec == Init /\ [][Next]_vars
------------------------------------------------------------------------------
(* Properties. *)

\* A program that has one Context at a time, uses no handle after its Context and
\* no reference to a device after a compile never reads or deletes a Framework
\* that is gone, and never mixes two: also not when Contexts follow each other,
\* although ~Context leaves g_df pointing to what it deleted (FlowCL.cpp:63).
OnlyTheCarelessGoAstray == astray => overlapped \/ careless

\* As long as no two Contexts were there at once, what a Context gives out is in
\* its own Framework: no call on one, and no handle of one, leads to another's.
HandlesStayAtHome ==
  ~overlapped => \A h \in handles : h.into = h.from

\* Every Context that has ended took its Framework with it, and nothing else went;
\* but two that were there at once never end without deleting one Framework twice.
EndedOnce ==
  /\ ~overlapped => freed = ended
  /\ overlapped /\ alive = {} => astray

==============================================================================
