--------------------------- MODULE LifetimesProofs ---------------------------
(***************************************************************************)
(* Proofs about Lifetimes, for any number of contexts and handles.         *)
(*                                                                         *)
(* As long as no two Contexts overlap, whatever is alive is named by g_df, *)
(* and what is not alive any more has taken its Framework with it.  Once   *)
(* two have overlapped there are fewer Frameworks that can still be        *)
(* deleted than Contexts that will delete one.                             *)
(***************************************************************************)
EXTENDS Lifetimes, FiniteSetTheorems, TLAPS

Frameworks == Contexts \cup {nullptr}

Handles ==
  [kind : {"device", "memory", "operation"}, into : SUBSET Frameworks,
   from : SUBSET Contexts, as : {"value", "ref", "kept", "dangling"}]

TypeOK ==
  /\ alive \subseteq Contexts /\ ended \subseteq Contexts
  /\ g_df \in Frameworks /\ freed \subseteq Frameworks
  /\ devs \in [Contexts -> SUBSET Frameworks]
  /\ handles \subseteq Handles
  /\ overlapped \in BOOLEAN /\ careless \in BOOLEAN /\ astray \in BOOLEAN

OneLife == alive \cap ended = {}

\* What one Context at a time amounts to.
OneAtATime ==
  ~overlapped =>
    /\ alive \subseteq {g_df}
    /\ freed = ended
    /\ \A c \in Contexts : devs[c] \subseteq {c}
    /\ HandlesStayAtHome

FromSomewhere == \A h \in handles : h.from # {}

\* Each Context deletes one Framework, but after an overlap there is one too few.
Tally ==
  ~astray =>
    /\ Cardinality(freed) = Cardinality(ended)
    /\ overlapped => Cardinality(freed \cup {g_df}) < Cardinality(alive \cup ended)

IInv ==
  /\ TypeOK /\ OneLife /\ OneAtATime /\ FromSomewhere
  /\ OnlyTheCarelessGoAstray /\ Tally

LEMMA Finiteness ==
  ASSUME TypeOK
  PROVE  /\ IsFiniteSet(Frameworks) /\ IsFiniteSet(freed) /\ IsFiniteSet(ended)
         /\ IsFiniteSet(alive) /\ IsFiniteSet(alive \cup ended)
         /\ IsFiniteSet(freed \cup {g_df})
         /\ Cardinality(freed) \in Nat /\ Cardinality(ended) \in Nat
         /\ Cardinality(alive \cup ended) \in Nat /\ Cardinality(freed \cup {g_df}) \in Nat
<1>1. IsFiniteSet(Frameworks)
  BY LifetimesAssumption, FS_AddElement DEF Frameworks
<1>2. /\ IsFiniteSet(freed) /\ IsFiniteSet(ended) /\ IsFiniteSet(alive)
      /\ IsFiniteSet(alive \cup ended)
  BY <1>1, LifetimesAssumption, FS_Subset DEF TypeOK
<1>3. IsFiniteSet(freed \cup {g_df})
  BY <1>2, FS_AddElement
<1> QED
  BY <1>1, <1>2, <1>3, FS_CardinalityType

LEMMA Initially == Init => IInv
<1>1. SUFFICES ASSUME Init PROVE IInv
  OBVIOUS
<1>2. TypeOK
  BY <1>1 DEF Init, TypeOK, Frameworks
<1>3. Cardinality(freed) = Cardinality(ended)
  BY <1>1 DEF Init
<1> QED
  BY <1>1, <1>2, <1>3
  DEF Init, IInv, OneLife, OneAtATime, HandlesStayAtHome, FromSomewhere,
      OnlyTheCarelessGoAstray, Tally

LEMMA ConstructStep ==
  ASSUME IInv, NEW c \in Contexts, Construct(c)
  PROVE  IInv'
<1> USE DEF IInv, TypeOK
<1>1. /\ ~astray /\ c \notin alive \cup ended
      /\ g_df' = c /\ alive' = alive \cup {c}
      /\ overlapped' = (overlapped \/ alive # {})
      /\ UNCHANGED <<ended, freed, devs, handles, careless, astray>>
  BY DEF Construct, NewFramework
<1>2. TypeOK' /\ OneLife'
  BY <1>1 DEF Frameworks, OneLife
<1>3. OneAtATime'
  BY <1>1 DEF OneAtATime, HandlesStayAtHome
<1>4. FromSomewhere' /\ OnlyTheCarelessGoAstray'
  BY <1>1 DEF FromSomewhere, OnlyTheCarelessGoAstray
<1>5. Tally'
  <2>1. Cardinality(alive' \cup ended') = Cardinality(alive \cup ended) + 1
    <3>1. alive' \cup ended' = (alive \cup ended) \cup {c}
      BY <1>1
    <3> QED
      BY <1>1, <3>1, Finiteness, FS_AddElement
  <2>2. /\ Cardinality(freed' \cup {g_df'}) \in Nat
        /\ Cardinality(freed' \cup {g_df'}) <= Cardinality(freed) + 1
    <3>1. Cardinality(freed' \cup {g_df'}) = Cardinality(freed \cup {c})
      BY <1>1
    <3>2. \/ Cardinality(freed \cup {c}) = Cardinality(freed)
          \/ Cardinality(freed \cup {c}) = Cardinality(freed) + 1
      BY Finiteness, FS_AddElement
    <3>3. Cardinality(freed) \in Nat
      BY Finiteness
    <3> QED
      BY <3>1, <3>2, <3>3
  <2>3. ASSUME overlapped'
        PROVE  Cardinality(freed) < Cardinality(alive \cup ended)
    <3>1. CASE overlapped
      <4>1. Cardinality(freed) <= Cardinality(freed \cup {g_df})
        BY Finiteness, FS_Subset
      <4> QED
        BY <1>1, <3>1, <4>1, Finiteness DEF Tally
    <3>2. CASE ~overlapped
      <4>1. PICK d \in alive : d \notin ended
        BY <1>1, <2>3, <3>2 DEF OneLife
      <4>2. Cardinality(ended \cup {d}) = Cardinality(ended) + 1
        BY <4>1, Finiteness, FS_AddElement
      <4>3. /\ Cardinality(ended \cup {d}) \in Nat
            /\ Cardinality(ended \cup {d}) <= Cardinality(alive \cup ended)
        BY <4>1, <4>2, Finiteness, FS_Subset
      <4> QED
        BY <1>1, <4>2, <4>3, Finiteness DEF Tally
    <3> QED
      BY <3>1, <3>2
  <2> QED
    BY <1>1, <2>1, <2>2, <2>3, Finiteness DEF Tally
<1> QED
  BY <1>2, <1>3, <1>4, <1>5

LEMMA CopyStep ==
  ASSUME IInv, NEW c \in Contexts, NEW d \in Contexts, Copy(c, d)
  PROVE  IInv'
<1> USE DEF IInv, TypeOK
<1>1. /\ ~astray /\ c \in alive /\ d \notin alive \cup ended
      /\ alive' = alive \cup {d} /\ overlapped' = TRUE
      /\ devs' = [devs EXCEPT ![d] = devs[c]]
      /\ UNCHANGED <<ended, g_df, freed, handles, careless, astray>>
  BY DEF Copy
<1>2. TypeOK' /\ OneLife'
  BY <1>1 DEF OneLife
<1>3. OneAtATime' /\ FromSomewhere' /\ OnlyTheCarelessGoAstray'
  BY <1>1 DEF OneAtATime, FromSomewhere, OnlyTheCarelessGoAstray
<1>4. Tally'
  <2>1. Cardinality(alive' \cup ended') = Cardinality(alive \cup ended) + 1
    <3>1. alive' \cup ended' = (alive \cup ended) \cup {d}
      BY <1>1
    <3> QED
      BY <1>1, <3>1, Finiteness, FS_AddElement
  <2>2. Cardinality(freed \cup {g_df}) <= Cardinality(alive \cup ended)
    <3>1. CASE overlapped
      BY <1>1, <3>1, Finiteness DEF Tally
    <3>2. CASE ~overlapped
      <4>1. freed \cup {g_df} \subseteq alive \cup ended
        BY <1>1, <3>2 DEF OneAtATime
      <4> QED
        BY <4>1, Finiteness, FS_Subset
    <3> QED
      BY <3>1, <3>2
  <2> QED
    BY <1>1, <2>1, <2>2, Finiteness DEF Tally
<1> QED
  BY <1>2, <1>3, <1>4

\* Moving m_devices changes what a handle is, not what it points into.
LEMMA MovedHandles ==
  ASSUME TypeOK, NEW c \in Contexts, NEW there \in {"kept", "dangling"},
         NEW g \in Moved(c, there)
  PROVE  /\ g \in Handles
         /\ \E h \in handles : g.into = h.into /\ g.from = h.from
<1>1. PICK h \in handles :
        g = IF h.from # {c} \/ h.as \in {"value", "dangling"} THEN h
            ELSE [h EXCEPT !.as = there]
  BY DEF Moved
<1>2. h \in Handles
  BY DEF TypeOK
<1> QED
  BY <1>1, <1>2 DEF Handles

LEMMA DestructStep ==
  ASSUME IInv, NEW c \in Contexts, Destruct(c)
  PROVE  IInv'
<1> USE DEF IInv, TypeOK
<1>1. /\ ~astray /\ c \in alive
      /\ alive' = alive \ {c} /\ ended' = ended \cup {c}
      /\ freed' = freed \cup {g_df} /\ astray' = (g_df \in freed)
      /\ handles' = Moved(c, "dangling")
      /\ UNCHANGED <<g_df, devs, overlapped, careless>>
  BY DEF Destruct, Deleted
<1>2. /\ handles' \subseteq Handles
      /\ \A g \in handles' : \E h \in handles : g.into = h.into /\ g.from = h.from
  BY <1>1, MovedHandles
<1>3. TypeOK' /\ OneLife'
  BY <1>1, <1>2 DEF OneLife
<1>4. OneAtATime' /\ FromSomewhere'
  BY <1>1, <1>2 DEF OneAtATime, HandlesStayAtHome, FromSomewhere
<1>5. OnlyTheCarelessGoAstray'
  BY <1>1 DEF OneAtATime, OneLife, OnlyTheCarelessGoAstray
<1>6. Tally'
  <2>1. SUFFICES ASSUME g_df \notin freed PROVE Tally'
    BY <1>1 DEF Tally
  <2>2. Cardinality(freed') = Cardinality(freed) + 1
    BY <1>1, <2>1, Finiteness, FS_AddElement
  <2>3. Cardinality(ended') = Cardinality(ended) + 1
    BY <1>1, Finiteness, FS_AddElement DEF OneLife
  <2>4. freed' \cup {g_df'} = freed \cup {g_df} /\ alive' \cup ended' = alive \cup ended
    BY <1>1
  <2> QED
    BY <1>1, <2>2, <2>3, <2>4 DEF Tally
<1> QED
  BY <1>3, <1>4, <1>5, <1>6

\* What a careful call meets, when there was never an overlap.
LEMMA CallStaysHome ==
  ASSUME IInv, NEW globals \in SUBSET {g_df}, NEW hs \in SUBSET handles,
         Call(globals, hs), ~overlapped, ~careless',
         globals = {} \/ alive # {} \/ hs # {}
  PROVE  ~astray'
<1> DEFINE met == globals \cup UNION {h.into : h \in hs}
<1>1. \A h \in hs : /\ h.as \notin {"kept", "dangling"} /\ h.from \subseteq alive
                    /\ h.into = h.from /\ h.from # {}
  BY DEF Call, IInv, OneAtATime, HandlesStayAtHome, FromSomewhere
<1>2. alive \subseteq {g_df} /\ alive \cap freed = {}
  BY DEF IInv, OneAtATime, OneLife
<1>3. met \subseteq alive
  <2>1. globals \subseteq alive
    BY <1>1, <1>2
  <2> QED
    BY <1>1, <2>1
<1>4. met \cap freed = {}
  BY <1>2, <1>3
<1>5. met = {} \/ met = {g_df}
  BY <1>2, <1>3
<1> HIDE DEF met
<1>6. ~(Cardinality(met) > 1)
  BY <1>5, FS_EmptySet, FS_Singleton
<1> QED
  BY <1>1, <1>4, <1>6 DEF Call, met

\* A call leaves all but its handles and devs alone.
LEMMA CallStep ==
  ASSUME IInv, NEW globals \in SUBSET {g_df}, NEW hs \in SUBSET handles,
         Call(globals, hs), globals = {} \/ alive # {} \/ hs # {},
         devs' \in [Contexts -> SUBSET Frameworks], handles' \subseteq Handles,
         ~overlapped => \A c \in Contexts : devs'[c] \subseteq {c},
         FromSomewhere', HandlesStayAtHome'
  PROVE  IInv'
<1>1. UNCHANGED <<alive, ended, g_df, freed, overlapped>> /\ ~astray
  BY DEF Call
<1>2. astray' \in BOOLEAN /\ careless' \in BOOLEAN /\ (careless => careless')
  BY DEF Call, IInv, TypeOK
<1>3. TypeOK' /\ OneLife'
  BY <1>1, <1>2 DEF IInv, TypeOK, OneLife
<1>4. OneAtATime'
  BY <1>1 DEF IInv, OneAtATime
<1>5. OnlyTheCarelessGoAstray'
  BY <1>1, CallStaysHome DEF OnlyTheCarelessGoAstray
<1>6. Tally'
  BY <1>1 DEF IInv, Tally
<1> QED
  BY <1>3, <1>4, <1>5, <1>6 DEF IInv

\* A call that changes no handle, and one that makes a new one.
LEMMA PlainCallStep ==
  ASSUME IInv, NEW globals \in SUBSET {g_df}, NEW hs \in SUBSET handles,
         Call(globals, hs), globals = {} \/ alive # {} \/ hs # {},
         UNCHANGED <<devs, handles>>
  PROVE  IInv'
<1>1. overlapped' = overlapped
  BY DEF Call
<1>2. FromSomewhere' /\ HandlesStayAtHome'
  BY <1>1 DEF IInv, OneAtATime, FromSomewhere, HandlesStayAtHome
<1> QED
  BY <1>2, CallStep DEF IInv, TypeOK, OneAtATime

LEMMA GainStep ==
  ASSUME IInv, NEW globals \in SUBSET {g_df}, NEW hs \in SUBSET handles,
         Call(globals, hs), globals = {} \/ alive # {} \/ hs # {},
         NEW g \in Handles, Gain(g), UNCHANGED devs,
         g.from # {}, ~overlapped => g.into = g.from
  PROVE  IInv'
<1>1. overlapped' = overlapped /\ handles' = handles \cup {g}
  BY DEF Call, Gain
<1>2. FromSomewhere' /\ HandlesStayAtHome'
  BY <1>1 DEF IInv, OneAtATime, FromSomewhere, HandlesStayAtHome
<1>3. devs' \in [Contexts -> SUBSET Frameworks] /\ handles' \subseteq Handles
  BY <1>1 DEF IInv, TypeOK
<1>4. ~overlapped => \A c \in Contexts : devs'[c] \subseteq {c}
  BY DEF IInv, OneAtATime
<1> QED
  BY <1>2, <1>3, <1>4, CallStep

LEMMA CompileStep ==
  ASSUME IInv, NEW c \in Contexts, Compile(c)
  PROVE  IInv'
<1>1. /\ c \in alive /\ Call({g_df}, {})
      /\ devs' = [devs EXCEPT ![c] = devs[c] \cup {g_df}]
  BY DEF Compile, Listed
<1>2. PICK there \in {"kept", "dangling"} : handles' = Moved(c, there)
  BY DEF Compile
<1>3. /\ handles' \subseteq Handles
      /\ \A g \in handles' : \E h \in handles : g.into = h.into /\ g.from = h.from
  BY <1>2, MovedHandles DEF IInv
<1>4. overlapped' = overlapped
  BY <1>1 DEF Call
<1>5. FromSomewhere' /\ HandlesStayAtHome'
  BY <1>3, <1>4 DEF IInv, OneAtATime, FromSomewhere, HandlesStayAtHome
<1>6. devs' \in [Contexts -> SUBSET Frameworks]
  BY <1>1 DEF IInv, TypeOK
<1>7. ~overlapped => \A d \in Contexts : devs'[d] \subseteq {d}
  BY <1>1 DEF IInv, TypeOK, OneAtATime
<1> QED
  BY <1>1, <1>3, <1>5, <1>6, <1>7, CallStep

LEMMA GetDeviceStep ==
  ASSUME IInv, NEW c \in Contexts, GetDevice(c)
  PROVE  IInv'
<1>1. PICK f \in devs[c], as \in {"value", "ref"} :
        Gain([kind |-> "device", into |-> {f}, from |-> {c}, as |-> as])
  BY DEF GetDevice
<1> DEFINE g == [kind |-> "device", into |-> {f}, from |-> {c}, as |-> as]
<1>2. g \in Handles /\ g.from # {}
  BY DEF IInv, TypeOK, Handles
<1>3. ~overlapped => g.into = g.from
  BY DEF IInv, OneAtATime
<1>4. c \in alive /\ Call({}, {}) /\ UNCHANGED devs
  BY DEF GetDevice
<1> QED
  BY <1>1, <1>2, <1>3, <1>4, GainStep

LEMMA CreateMemoryStep ==
  ASSUME IInv, NEW c \in Contexts, CreateMemory(c)
  PROVE  IInv'
<1> DEFINE g == [kind |-> "memory", into |-> {g_df}, from |-> {c}, as |-> "value"]
<1>1. c \in alive /\ Call({g_df}, {}) /\ Gain(g) /\ UNCHANGED devs
  BY DEF CreateMemory
<1>2. g \in Handles /\ g.from # {}
  BY DEF IInv, TypeOK, Handles
<1>3. ~overlapped => g.into = g.from
  BY <1>1 DEF IInv, OneAtATime
<1> QED
  BY <1>1, <1>2, <1>3, GainStep

LEMMA CreateOperationStep ==
  ASSUME IInv, NEW c \in Contexts, NEW dev \in handles, CreateOperation(c, dev)
  PROVE  IInv'
<1> DEFINE g == [kind |-> "operation", into |-> {g_df} \cup dev.into,
                 from |-> {c} \cup dev.from, as |-> "value"]
<1>1. c \in alive /\ Call({g_df}, {dev}) /\ Gain(g) /\ UNCHANGED devs
  BY DEF CreateOperation
<1>2. g \in Handles /\ g.from # {}
  <2>1. dev \in Handles
    BY DEF IInv, TypeOK
  <2> QED
    BY <2>1 DEF IInv, TypeOK, Handles
<1>3. ~overlapped => g.into = g.from
  BY <1>1 DEF IInv, OneAtATime, HandlesStayAtHome
<1> QED
  BY <1>1, <1>2, <1>3, GainStep

LEMMA Step == IInv /\ [Next]_vars => IInv'
<1>1. SUFFICES ASSUME IInv, [Next]_vars PROVE IInv'
  OBVIOUS
<1>2. ASSUME NEW c \in Contexts, Run(c) PROVE IInv'
  BY <1>1, <1>2, PlainCallStep DEF Run
<1>3. ASSUME NEW h \in handles, Read(h) PROVE IInv'
  BY <1>1, <1>3, PlainCallStep DEF Read
<1>4. ASSUME NEW h \in handles, NEW args \in SUBSET handles, SetArg(h, args) PROVE IInv'
  BY <1>1, <1>4, PlainCallStep DEF SetArg
<1>5. CASE UNCHANGED vars
  BY <1>1, <1>5 DEF vars, IInv, TypeOK, OneLife, OneAtATime, HandlesStayAtHome,
                    FromSomewhere, OnlyTheCarelessGoAstray, Tally
<1> QED
  BY <1>1, <1>2, <1>3, <1>4, <1>5, ConstructStep, CopyStep, DestructStep, CompileStep,
     GetDeviceStep, CreateMemoryStep, CreateOperationStep DEF Next

\* The inductive invariant holds in whatever order contexts are made, copied, used
\* and ended (FlowCL.cpp:54-65).
THEOREM Invariance == Spec => []IInv
<1>1. IInv /\ [Next]_vars => IInv'
  BY Step
<1> QED
  BY Initially, <1>1, PTL DEF Spec

\* A program with one Context at a time that uses no handle after its Context and no
\* reference to a device after a compile never touches a deleted Framework
\* (FlowCL.cpp:54-65).
THEOREM TheCarefulStaySafe == Spec => []OnlyTheCarelessGoAstray
<1>1. IInv => OnlyTheCarelessGoAstray
  BY DEF IInv
<1> QED
  BY <1>1, Invariance, PTL

\* Whatever was given out belongs to the Framework of the Context it came from.
THEOREM HandlesAreAtHome == Spec => []HandlesStayAtHome
<1>1. IInv => HandlesStayAtHome
  BY DEF IInv, OneAtATime, HandlesStayAtHome
<1> QED
  BY <1>1, Invariance, PTL

\* Contexts that overlap cannot all end well, however they are nested: there is one
\* Framework less to delete than there are destructors (FlowCL.cpp:63).
THEOREM OverlapsEndBadly == Spec => []EndedOnce
<1>1. ASSUME IInv PROVE EndedOnce
  <2>1. ASSUME overlapped, alive = {}, ~astray PROVE FALSE
    <3>1. Cardinality(freed) <= Cardinality(freed \cup {g_df})
      BY <1>1, Finiteness, FS_Subset DEF IInv
    <3>2. alive \cup ended = ended
      BY <2>1
    <3> QED
      BY <1>1, <2>1, <3>1, <3>2, Finiteness DEF IInv, Tally
  <2> QED
    BY <1>1, <2>1 DEF IInv, TypeOK, OneAtATime, EndedOnce
<1> QED
  BY <1>1, Invariance, PTL

==============================================================================
