------------------------- MODULE OperationArgsProofs -------------------------
(***************************************************************************)
(* Proofs about OperationArgs, for any indices and any number of calls.    *)
(*                                                                         *)
(* Two things keep BuildUserFuncArgs right.  While the calls come in order *)
(* the two maps share out an interval 0 .. k - 1, and the indices without  *)
(* a constant are just those of the memories.  While there are no          *)
(* constants the map of memories may have gaps, and empty places where     *)
(* gaps were, but none beyond the last index that was set.                 *)
(***************************************************************************)
EXTENDS OperationArgs, FiniteSetTheorems, SequenceTheorems, TLAPS

Typed ==
  /\ userFunc \in BOOLEAN /\ inOrder \in BOOLEAN /\ mixed \in BOOLEAN
  /\ kernelArg \in [KernelArgs -> Mems \cup Values \cup {Null}]
  /\ edges \in Seq([memory : Mems, interval : Intervals])
  /\ edgeAt \in [Indices -> Nat \cup {Null}]
  /\ asked \in [Indices -> Mems \cup Values \cup {Null}]
  /\ wanted \in [Indices -> Intervals \cup {Null}]

Asked == {i \in Indices : asked[i] # Null}

OnlyMems ==
  userFunc /\ ~mixed =>
    /\ DOMAIN constants = {}
    /\ IsFiniteSet(DOMAIN memObjects)
    /\ \A i \in Asked : i \in DOMAIN memObjects /\ memObjects[i] = asked[i]
    /\ \A k \in Nat : Asked \subseteq 0 .. k => DOMAIN memObjects \subseteq 0 .. k

Orderly ==
  userFunc /\ inOrder =>
    /\ \E k \in Nat : Asked = 0 .. k - 1
    /\ DOMAIN memObjects = {i \in Indices : asked[i] \in Mems}
    /\ DOMAIN constants = {i \in Indices : asked[i] \in Values}
    /\ \A i \in DOMAIN memObjects : memObjects[i] = asked[i]
    /\ \A i \in DOMAIN constants : constants[i] = asked[i]

NativeInv == OnlyMems /\ Orderly /\ CalledAsAsked /\ WritesStayInside

\* No edge is found at two indices.
OwnEdge ==
  /\ \A i \in Indices : edgeAt[i] # Null => edgeAt[i] \in DOMAIN edges
  /\ \A i, j \in Indices : edgeAt[i] # Null /\ edgeAt[i] = edgeAt[j] => i = j

IInv == Typed /\ NativeInv /\ OwnEdge /\ EdgeAsAsked
------------------------------------------------------------------------------
(* Sets of numbers. *)

LEMMA Interval ==
  ASSUME NEW n \in Nat
  PROVE  IsFiniteSet(0 .. n - 1) /\ Cardinality(0 .. n - 1) = n
<1>1. IsFiniteSet(0 .. n - 1) /\
      Cardinality(0 .. n - 1) = IF 0 > n - 1 THEN 0 ELSE (n - 1) - 0 + 1
  BY FS_Interval
<1> QED
  BY <1>1

\* A finite set of numbers without a gap begins at 0.
LEMMA NoGaps ==
  ASSUME NEW S \in SUBSET Nat, IsFiniteSet(S), \A i \in S : 0 .. i - 1 \subseteq S
  PROVE  S = 0 .. Cardinality(S) - 1
<1> DEFINE c == Cardinality(S)
<1>1. c \in Nat
  BY FS_CardinalityType
<1>2. ASSUME NEW i \in 0 .. c - 1 PROVE i \in S
  <2>1. SUFFICES ASSUME i \notin S PROVE FALSE
    OBVIOUS
  <2>2. i \in Nat /\ i < c
    BY <1>1
  <2>3. S \subseteq 0 .. i - 1
    <3>1. SUFFICES ASSUME NEW j \in S PROVE j < i
      BY <2>2
    <3>2. ~(i \in 0 .. j - 1) /\ i # j
      BY <2>1
    <3> QED
      BY <2>2, <3>2
  <2>4. c <= i
    <3>1. IsFiniteSet(0 .. i - 1) /\ Cardinality(0 .. i - 1) = i
      BY <2>2, Interval
    <3>2. Cardinality(S) <= Cardinality(0 .. i - 1)
      BY <2>3, <3>1, FS_Subset, Zenon
    <3> QED
      BY <3>1, <3>2
  <2> QED
    BY <1>1, <2>2, <2>4
<1>3. ASSUME NEW i \in S PROVE i \in 0 .. c - 1
  <2>1. SUFFICES ASSUME ~(i < c) PROVE FALSE
    BY <1>1
  <2>2. 0 .. (i + 1) - 1 \subseteq S /\ i + 1 \in Nat
    OBVIOUS
  <2>3. i + 1 <= c
    BY <2>2, Interval, FS_Subset
  <2> QED
    BY <1>1, <2>1, <2>3
<1> QED
  BY <1>2, <1>3
------------------------------------------------------------------------------
(* BuildUserFuncArgs. *)

\* Without constants.
LEMMA BuildFromMems ==
  ASSUME NEW mems, NEW consts, IsFiniteSet(DOMAIN mems), DOMAIN consts = {},
         BuildUserFuncArgs(mems, consts)
  PROVE  LET m == Cardinality(DOMAIN mems) IN
         /\ m \in Nat
         /\ UNCHANGED <<wrecked, alive>> /\ constants' = consts
         /\ DOMAIN memObjects' = DOMAIN mems \cup 0 .. m - 1
         /\ \A i \in DOMAIN mems : memObjects'[i] = mems[i]
         /\ DOMAIN args' = 0 .. m - 1 /\ DOMAIN bound' = 0 .. m - 1
         /\ \A i \in DOMAIN bound' : bound'[i] = memObjects'[i]
<1> DEFINE m == Cardinality(DOMAIN mems)
           slots == Slots(mems, consts, m)
           Inside(i) == Cardinality({j \in slots : j < i}) < m
           filled == [i \in DOMAIN mems \cup slots |-> IF i \in DOMAIN mems THEN mems[i] ELSE Null]
<1>1. m \in Nat /\ m + Cardinality(DOMAIN consts) = m
  BY FS_CardinalityType, FS_EmptySet
<1>2. slots = 0 .. m - 1
  BY DEF Slots
<1>3. \A i \in slots : Inside(i)
  <2>1. SUFFICES ASSUME NEW i \in slots PROVE Inside(i)
    OBVIOUS
  <2>2. i \in Nat /\ i < m /\ {j \in slots : j < i} = 0 .. i - 1
    BY <1>1, <1>2
  <2> QED
    BY <2>2, Interval
<1>4. /\ memObjects' = filled /\ constants' = consts
      /\ DOMAIN args' = 0 .. m - 1
      /\ bound' = [i \in {j \in slots : Inside(j)} |-> filled[i]]
      /\ (\A i \in slots : Inside(i)) => UNCHANGED <<wrecked, alive>>
  BY <1>1 DEF BuildUserFuncArgs
<1>5. DOMAIN bound' = 0 .. m - 1 /\ \A i \in DOMAIN bound' : bound'[i] = memObjects'[i]
  BY <1>2, <1>3, <1>4
<1> QED
  BY <1>1, <1>2, <1>3, <1>4, <1>5

\* When the two maps share out an interval.
LEMMA BuildInOrder ==
  ASSUME NEW mems, NEW consts, NEW k \in Nat,
         DOMAIN mems \cup DOMAIN consts = 0 .. k - 1, DOMAIN mems \cap DOMAIN consts = {},
         BuildUserFuncArgs(mems, consts)
  PROVE  /\ UNCHANGED <<wrecked, alive>> /\ constants' = consts
         /\ DOMAIN memObjects' = DOMAIN mems
         /\ \A i \in DOMAIN mems : memObjects'[i] = mems[i]
         /\ DOMAIN args' = 0 .. k - 1 /\ \A i \in DOMAIN consts : args'[i] = consts[i]
         /\ DOMAIN bound' = DOMAIN mems
         /\ \A i \in DOMAIN bound' : bound'[i] = mems[i]
<1> DEFINE m == Cardinality(DOMAIN mems)
           slots == Slots(mems, consts, k)
           Inside(i) == Cardinality({j \in slots : j < i}) < m
           filled == [i \in DOMAIN mems \cup slots |-> IF i \in DOMAIN mems THEN mems[i] ELSE Null]
<1>1. /\ IsFiniteSet(DOMAIN mems) /\ IsFiniteSet(DOMAIN consts)
      /\ m \in Nat /\ Cardinality(DOMAIN consts) \in Nat
  BY Interval, FS_Subset, FS_CardinalityType
<1>2. m + Cardinality(DOMAIN consts) = k
  <2>1. Cardinality(DOMAIN mems \cup DOMAIN consts)
          = m + Cardinality(DOMAIN consts) - Cardinality(DOMAIN mems \cap DOMAIN consts)
    BY <1>1, FS_Union
  <2>2. Cardinality(DOMAIN mems \cap DOMAIN consts) = 0
    BY FS_EmptySet
  <2>3. Cardinality(DOMAIN mems \cup DOMAIN consts) = k
    BY Interval
  <2> QED
    BY <1>1, <2>1, <2>2, <2>3
<1>3. slots = DOMAIN mems
  BY DEF Slots
<1>4. \A i \in slots : Inside(i)
  <2>1. SUFFICES ASSUME NEW i \in slots PROVE Inside(i)
    OBVIOUS
  <2> DEFINE below == {j \in slots : j < i}
  <2>2. i \in slots /\ i \notin below /\ below \subseteq slots
    BY <1>3
  <2>3. Cardinality(below) <= m /\ Cardinality(below) # m /\ Cardinality(below) \in Nat
    BY <1>1, <1>3, <2>2, FS_Subset, FS_CardinalityType
  <2> QED
    BY <1>1, <2>3
<1>5. /\ memObjects' = filled /\ constants' = consts
      /\ args' = [i \in 0 .. k - 1 |-> IF i \in DOMAIN consts THEN consts[i] ELSE Null]
      /\ bound' = [i \in {j \in slots : Inside(j)} |-> filled[i]]
      /\ (\A i \in slots : Inside(i)) => UNCHANGED <<wrecked, alive>>
  BY <1>2 DEF BuildUserFuncArgs
<1>6. DOMAIN bound' = DOMAIN mems /\ \A i \in DOMAIN bound' : bound'[i] = mems[i]
  BY <1>3, <1>4, <1>5
<1> QED
  BY <1>3, <1>4, <1>5, <1>6
------------------------------------------------------------------------------
(* The steps. *)

LEMMA Initially == Init => IInv
<1>1. SUFFICES ASSUME Init PROVE IInv
  OBVIOUS
<1>2. Typed
  <2>1. << >> \in Seq([memory : Mems, interval : Intervals])
    OBVIOUS
  <2> QED
    BY <1>1, <2>1 DEF Init, Typed
<1>3. Asked = {} /\ DOMAIN memObjects = {} /\ DOMAIN constants = {} /\ DOMAIN args = {}
  BY <1>1 DEF Init, Asked, NoFunction
<1>4. OnlyMems
  BY <1>3, FS_EmptySet DEF OnlyMems
<1>5. Orderly
  <2>1. Asked = 0 .. 0 - 1
    BY <1>3
  <2>2. \A i \in Indices : asked[i] \notin Mems /\ asked[i] \notin Values
    BY <1>1, ArgsAssumption DEF Init
  <2> QED
    BY <1>3, <2>1, <2>2 DEF Orderly
<1>6. CalledAsAsked
  BY <1>1, <1>3, ArgsAssumption DEF Init, CalledAsAsked, Passed, Asked
<1>7. WritesStayInside /\ OwnEdge /\ EdgeAsAsked
  BY <1>1 DEF Init, WritesStayInside, OwnEdge, EdgeAsAsked
<1> QED
  BY <1>2, <1>4, <1>5, <1>6, <1>7 DEF IInv, NativeInv

\* What a call sets is what was asked for last.
LEMMA AskFacts ==
  ASSUME Typed, NEW i \in Indices, NEW v \in Mems \cup Values, Ask(i, v)
  PROVE  /\ asked' \in [Indices -> Mems \cup Values \cup {Null}]
         /\ inOrder' \in BOOLEAN /\ mixed' \in BOOLEAN
         /\ asked'[i] = v /\ \A j \in Indices \ {i} : asked'[j] = asked[j]
         /\ Asked' = Asked \cup {i}
         /\ mixed' <=> mixed \/ v \in Values
         /\ inOrder' <=> inOrder /\ Follows(i)
                         /\ (asked[i] # Null => (asked[i] \in Mems <=> v \in Mems))
<1>1. asked' = [asked EXCEPT ![i] = v] /\ v # Null
  BY ArgsAssumption DEF Ask
<1>2. /\ asked' \in [Indices -> Mems \cup Values \cup {Null}]
      /\ asked'[i] = v /\ \A j \in Indices \ {i} : asked'[j] = asked[j]
  BY <1>1 DEF Typed
<1>3. Asked' = Asked \cup {i}
  BY <1>1, <1>2 DEF Asked
<1>4. inOrder' \in BOOLEAN /\ mixed' \in BOOLEAN
  BY DEF Ask
<1> QED
  BY <1>2, <1>3, <1>4 DEF Ask

\* An index that follows the others leaves no gap.
LEMMA NextIndex ==
  ASSUME NEW i \in Indices, NEW k \in Nat, Asked = 0 .. k - 1, Follows(i)
  PROVE  \E l \in Nat : Asked \cup {i} = 0 .. l - 1
<1>1. i \in Nat /\ \A j \in 0 .. i - 1 : j \in Asked
  BY ArgsAssumption DEF Follows, Asked
<1>2. CASE i < k
  <2>1. Asked \cup {i} = 0 .. k - 1
    BY <1>1, <1>2
  <2> QED
    BY <2>1
<1>3. CASE ~(i < k)
  <2>1. i = k
    <3>1. i # k => k \in 0 .. i - 1
      BY <1>1, <1>3
    <3>2. k \notin 0 .. k - 1
      OBVIOUS
    <3> QED
      BY <1>1, <3>1, <3>2
  <2>2. Asked \cup {i} = 0 .. (k + 1) - 1
    BY <2>1
  <2> QED
    BY <2>2
<1> QED
  BY <1>2, <1>3

\* A native function, in order: the same for a memory and a constant.
LEMMA InOrderStep ==
  ASSUME IInv, userFunc, UNCHANGED userFunc, NEW i \in Indices, NEW v \in Mems \cup Values,
         NEW mems, NEW consts, Ask(i, v), inOrder',
         mems = IF v \in Mems THEN Put(memObjects, i, v) ELSE memObjects,
         consts = IF v \in Mems THEN constants ELSE Put(constants, i, v),
         BuildUserFuncArgs(mems, consts)
  PROVE  Orderly' /\ CalledAsAsked' /\ UNCHANGED wrecked
<1>1. /\ asked' \in [Indices -> Mems \cup Values \cup {Null}]
      /\ asked'[i] = v /\ \A j \in Indices \ {i} : asked'[j] = asked[j]
      /\ Asked' = Asked \cup {i}
      /\ inOrder /\ Follows(i) /\ (asked[i] # Null => (asked[i] \in Mems <=> v \in Mems))
  BY AskFacts DEF IInv
<1>2. PICK k \in Nat : Asked' = 0 .. k - 1
  BY <1>1, NextIndex DEF IInv, NativeInv, Orderly
<1>3. /\ DOMAIN memObjects = {j \in Indices : asked[j] \in Mems}
      /\ DOMAIN constants = {j \in Indices : asked[j] \in Values}
      /\ \A j \in DOMAIN memObjects : memObjects[j] = asked[j]
      /\ \A j \in DOMAIN constants : constants[j] = asked[j]
  BY <1>1 DEF IInv, NativeInv, Orderly
<1>4. /\ asked[i] \in Mems \cup Values \cup {Null}
      /\ v \in Mems => asked[i] \notin Values /\ v \notin Values
      /\ v \notin Mems => asked[i] \notin Mems /\ v \in Values
  BY <1>1, ArgsAssumption DEF IInv, Typed
<1>5. /\ DOMAIN mems = {j \in Indices : asked'[j] \in Mems}
      /\ \A j \in DOMAIN mems : mems[j] = asked'[j]
  <2>1. CASE v \in Mems
    <3>1. /\ DOMAIN mems = DOMAIN memObjects \cup {i} /\ mems[i] = v
          /\ \A j \in DOMAIN memObjects \ {i} : mems[j] = memObjects[j]
      BY <2>1 DEF Put
    <3> QED
      BY <1>1, <1>3, <2>1, <3>1
  <2>2. CASE v \notin Mems
    BY <1>1, <1>3, <1>4, <2>2
  <2> QED
    BY <2>1, <2>2
<1>6. /\ DOMAIN consts = {j \in Indices : asked'[j] \in Values}
      /\ \A j \in DOMAIN consts : consts[j] = asked'[j]
  <2>1. CASE v \in Mems
    BY <1>1, <1>3, <1>4, <2>1
  <2>2. CASE v \notin Mems
    <3>1. /\ DOMAIN consts = DOMAIN constants \cup {i} /\ consts[i] = v
          /\ \A j \in DOMAIN constants \ {i} : consts[j] = constants[j]
      BY <2>2 DEF Put
    <3> QED
      BY <1>1, <1>3, <1>4, <2>2, <3>1
  <2> QED
    BY <2>1, <2>2
<1>7. DOMAIN mems \cup DOMAIN consts = 0 .. k - 1 /\ DOMAIN mems \cap DOMAIN consts = {}
  <2>1. DOMAIN mems \cup DOMAIN consts = Asked'
    <3>1. \A j \in Indices : asked'[j] # Null <=> asked'[j] \in Mems \/ asked'[j] \in Values
      BY <1>1, ArgsAssumption
    <3> QED
      BY <1>5, <1>6, <3>1 DEF Asked
  <2> QED
    BY <1>2, <1>5, <1>6, <2>1, ArgsAssumption
<1>8. /\ UNCHANGED <<wrecked, alive>> /\ constants' = consts
      /\ DOMAIN memObjects' = DOMAIN mems
      /\ \A j \in DOMAIN mems : memObjects'[j] = mems[j]
      /\ DOMAIN args' = 0 .. k - 1 /\ \A j \in DOMAIN consts : args'[j] = consts[j]
      /\ DOMAIN bound' = DOMAIN mems
      /\ \A j \in DOMAIN bound' : bound'[j] = mems[j]
  BY <1>7, BuildInOrder
<1>9. Orderly'
  BY <1>2, <1>5, <1>6, <1>8 DEF Orderly
<1>10. CalledAsAsked'
  <2>1. \A j \in DOMAIN args' : Passed(j)' = asked'[j]
    BY <1>5, <1>6, <1>7, <1>8 DEF Passed
  <2> QED
    BY <1>2, <1>8, <2>1 DEF CalledAsAsked, Asked
<1> QED
  BY <1>8, <1>9, <1>10

\* A native function, memories only: in any order.
LEMMA OnlyMemsStep ==
  ASSUME IInv, userFunc, UNCHANGED userFunc, NEW i \in Indices, NEW v \in Mems,
         Ask(i, v), ~mixed', BuildUserFuncArgs(Put(memObjects, i, v), constants)
  PROVE  OnlyMems' /\ CalledAsAsked' /\ UNCHANGED wrecked
<1> DEFINE mems == Put(memObjects, i, v)
           m == Cardinality(DOMAIN mems)
<1>1. /\ asked'[i] = v /\ \A j \in Indices \ {i} : asked'[j] = asked[j]
      /\ Asked' = Asked \cup {i} /\ ~mixed
  BY AskFacts DEF IInv
<1>2. /\ DOMAIN constants = {} /\ IsFiniteSet(DOMAIN memObjects)
      /\ \A j \in Asked : j \in DOMAIN memObjects /\ memObjects[j] = asked[j]
      /\ \A k \in Nat : Asked \subseteq 0 .. k => DOMAIN memObjects \subseteq 0 .. k
  BY <1>1 DEF IInv, NativeInv, OnlyMems
<1>3. /\ DOMAIN mems = DOMAIN memObjects \cup {i} /\ mems[i] = v
      /\ \A j \in DOMAIN memObjects \ {i} : mems[j] = memObjects[j]
  BY DEF Put
<1>4. \A j \in Asked' : j \in DOMAIN mems /\ mems[j] = asked'[j]
  BY <1>1, <1>2, <1>3 DEF Asked
<1>5. IsFiniteSet(DOMAIN mems) /\ BuildUserFuncArgs(mems, constants)
  BY <1>2, <1>3, FS_AddElement
<1> HIDE DEF mems
<1>6. /\ m \in Nat /\ UNCHANGED wrecked /\ constants' = constants
      /\ DOMAIN memObjects' = DOMAIN mems \cup 0 .. m - 1
      /\ \A j \in DOMAIN mems : memObjects'[j] = mems[j]
      /\ DOMAIN args' = 0 .. m - 1 /\ DOMAIN bound' = 0 .. m - 1
      /\ \A j \in DOMAIN bound' : bound'[j] = memObjects'[j]
  BY <1>2, <1>5, BuildFromMems
<1>7. ASSUME NEW k \in Nat, Asked' \subseteq 0 .. k
      PROVE  DOMAIN mems \subseteq 0 .. k /\ DOMAIN memObjects' \subseteq 0 .. k
  <2>1. DOMAIN mems \subseteq 0 .. k
    BY <1>1, <1>2, <1>3, <1>7
  <2>2. m <= k + 1
    <3>1. DOMAIN mems \subseteq 0 .. (k + 1) - 1 /\ k + 1 \in Nat
      BY <2>1
    <3> QED
      BY <3>1, Interval, FS_Subset
  <2> QED
    BY <1>6, <2>1, <2>2
<1>8. OnlyMems'
  <2>1. IsFiniteSet(DOMAIN memObjects')
    <3>1. IsFiniteSet(0 .. m - 1)
      BY <1>6, Interval
    <3> QED
      BY <1>5, <1>6, <3>1, FS_Union
  <2> QED
    BY <1>2, <1>4, <1>6, <1>7, <2>1 DEF OnlyMems
<1>9. CalledAsAsked'
  <2>1. SUFFICES ASSUME Complete'
                 PROVE  DOMAIN args' = Asked' /\ \A j \in Asked' : Passed(j)' = asked'[j]
    BY DEF CalledAsAsked, Asked
  <2> DEFINE c == Cardinality(Asked')
  <2>2. IsFiniteSet(Asked') /\ c \in Nat
    BY <1>4, <1>5, FS_Subset, FS_CardinalityType
  <2>3. Asked' \subseteq Nat /\ \A j \in Asked' : 0 .. j - 1 \subseteq Asked'
    BY <2>1, ArgsAssumption DEF Complete, Follows, Asked
  <2>4. Asked' = 0 .. c - 1
    BY <2>2, <2>3, NoGaps
  <2>5. c - 1 \in Nat
    BY <1>1, <2>2, <2>4
  <2>6. DOMAIN mems = Asked'
    BY <1>4, <1>7, <2>4, <2>5
  <2>7. m = c
    BY <2>6
  <2> QED
    BY <1>4, <1>6, <2>4, <2>6, <2>7 DEF Passed
<1> QED
  BY <1>6, <1>8, <1>9

\* All that can happen to a native function's arguments.
LEMMA NativeStep ==
  ASSUME IInv, userFunc, UNCHANGED userFunc, NEW i \in Indices, NEW v \in Mems \cup Values,
         Ask(i, v),
         IF v \in Mems THEN BuildUserFuncArgs(Put(memObjects, i, v), constants)
                       ELSE BuildUserFuncArgs(memObjects, Put(constants, i, v))
  PROVE  NativeInv'
<1>1. inOrder' => Orderly' /\ CalledAsAsked' /\ UNCHANGED wrecked
  <2>1. CASE v \in Mems
    BY <2>1, InOrderStep
  <2>2. CASE v \notin Mems
    BY <2>2, InOrderStep
  <2> QED
    BY <2>1, <2>2
<1>2. /\ mixed' <=> mixed \/ v \in Values
      /\ inOrder' => inOrder
  BY AskFacts DEF IInv
<1>3. ~mixed' => OnlyMems' /\ CalledAsAsked' /\ UNCHANGED wrecked
  BY <1>2, OnlyMemsStep
<1>4. OnlyMems' /\ Orderly'
  BY <1>1, <1>3 DEF OnlyMems, Orderly
<1>5. CalledAsAsked'
  BY <1>1, <1>3 DEF CalledAsAsked
<1>6. WritesStayInside'
  BY <1>1, <1>2, <1>3 DEF WritesStayInside, IInv, NativeInv
<1> QED
  BY <1>4, <1>5, <1>6 DEF NativeInv

\* And to a kernel's.
LEMMA KernelStep ==
  ASSUME IInv, ~userFunc, UNCHANGED <<userFunc, native>>, NEW i \in KernelArgs,
         NEW v \in Mems \cup Values, Ask(i, v), kernelArg' = [kernelArg EXCEPT ![i] = v]
  PROVE  NativeInv' /\ kernelArg' \in [KernelArgs -> Mems \cup Values \cup {Null}]
<1>1. i \in Indices /\ Typed
  BY ArgsAssumption DEF IInv
<1>2. \A j \in KernelArgs : j \in Indices
  BY ArgsAssumption
<1>3. /\ asked'[i] = v /\ \A j \in Indices \ {i} : asked'[j] = asked[j]
      /\ (mixed => mixed') /\ (inOrder' => inOrder)
  BY <1>1, AskFacts
<1>4. /\ kernelArg' \in [KernelArgs -> Mems \cup Values \cup {Null}]
      /\ kernelArg'[i] = v /\ \A j \in KernelArgs \ {i} : kernelArg'[j] = kernelArg[j]
  BY <1>1 DEF Typed
<1>5. CalledAsAsked'
  <2>1. \A j \in KernelArgs : kernelArg[j] = asked[j]
    BY DEF IInv, NativeInv, CalledAsAsked, Passed
  <2>2. \A j \in KernelArgs : kernelArg'[j] = asked'[j]
    BY <1>2, <1>3, <1>4, <2>1
  <2> QED
    BY <2>2 DEF CalledAsAsked, Passed
<1>6. WritesStayInside'
  BY <1>3 DEF IInv, NativeInv, WritesStayInside, native
<1> QED
  BY <1>4, <1>5, <1>6 DEF NativeInv, OnlyMems, Orderly

\* A call that sets an argument.
LEMMA SetStep ==
  ASSUME IInv, NEW i \in Indices, NEW v \in Mems \cup Values, ~Refused(i), Ask(i, v),
         UNCHANGED userFunc,
         IF userFunc
         THEN /\ IF v \in Mems THEN BuildUserFuncArgs(Put(memObjects, i, v), constants)
                               ELSE BuildUserFuncArgs(memObjects, Put(constants, i, v))
              /\ UNCHANGED kernelArg
         ELSE kernelArg' = [kernelArg EXCEPT ![i] = v] /\ UNCHANGED native
  PROVE  NativeInv' /\ kernelArg' \in [KernelArgs -> Mems \cup Values \cup {Null}]
<1>1. CASE userFunc
  BY <1>1, NativeStep DEF IInv, Typed
<1>2. CASE ~userFunc
  <2>1. i \in KernelArgs
    BY <1>2 DEF Refused
  <2> QED
    BY <1>2, <2>1, KernelStep
<1> QED
  BY <1>1, <1>2 DEF IInv, Typed

LEMMA MemoryStep ==
  ASSUME IInv, NEW i \in Indices, NEW m \in Mems, SetOperationArgMemory(i, m)
  PROVE  IInv'
<1>1. /\ SetKernelArgMemory(i, m, Null) /\ Ask(i, m)
      /\ UNCHANGED <<userFunc, edges, wanted>> /\ edgeAt' = [edgeAt EXCEPT ![i] = Null]
  BY DEF SetOperationArgMemory, SetKernelArgMemory
<1>2. NativeInv' /\ kernelArg' \in [KernelArgs -> Mems \cup Values \cup {Null}]
  BY <1>1, SetStep DEF SetKernelArgMemory
<1>3. /\ asked' \in [Indices -> Mems \cup Values \cup {Null}]
      /\ inOrder' \in BOOLEAN /\ mixed' \in BOOLEAN
      /\ \A j \in Indices \ {i} : asked'[j] = asked[j]
  BY <1>1, AskFacts DEF IInv
<1>4. Typed'
  BY <1>1, <1>2, <1>3 DEF IInv, Typed
<1>5. edgeAt'[i] = Null /\ \A j \in Indices \ {i} : edgeAt'[j] = edgeAt[j]
  BY <1>1 DEF IInv, Typed
<1>6. OwnEdge' /\ EdgeAsAsked'
  BY <1>1, <1>3, <1>5 DEF IInv, OwnEdge, EdgeAsAsked
<1> QED
  BY <1>2, <1>4, <1>6 DEF IInv

LEMMA ConstantStep ==
  ASSUME IInv, NEW i \in Indices, NEW v \in Values, SetOperationArgConstant(i, v)
  PROVE  IInv'
<1>1. /\ ~Refused(i) /\ Ask(i, v) /\ UNCHANGED <<userFunc, edges, edgeAt, wanted>>
      /\ v \notin Mems
  BY ArgsAssumption DEF SetOperationArgConstant
<1>2. NativeInv' /\ kernelArg' \in [KernelArgs -> Mems \cup Values \cup {Null}]
  BY <1>1, SetStep DEF SetOperationArgConstant
<1>3. /\ asked' \in [Indices -> Mems \cup Values \cup {Null}]
      /\ inOrder' \in BOOLEAN /\ mixed' \in BOOLEAN
      /\ asked'[i] = v /\ \A j \in Indices \ {i} : asked'[j] = asked[j]
  BY <1>1, AskFacts DEF IInv
<1>4. Typed'
  BY <1>1, <1>2, <1>3 DEF IInv, Typed
<1>5. OwnEdge' /\ EdgeAsAsked'
  BY <1>1, <1>3 DEF IInv, OwnEdge, EdgeAsAsked
<1> QED
  BY <1>2, <1>4, <1>5 DEF IInv

LEMMA NewEdge ==
  ASSUME NEW m \in Mems, NEW interval \in Intervals, Typed,
         edges' = Append(edges, [memory |-> m, interval |-> interval])
  PROVE  /\ edges' \in Seq([memory : Mems, interval : Intervals])
         /\ Len(edges') \in Nat /\ Len(edges') \in DOMAIN edges' /\ Len(edges') \notin DOMAIN edges
         /\ edges'[Len(edges')] = [memory |-> m, interval |-> interval]
         /\ DOMAIN edges \subseteq DOMAIN edges'
         /\ \A k \in DOMAIN edges : edges'[k] = edges[k]
<1> DEFINE R == [memory : Mems, interval : Intervals]
           e == [memory |-> m, interval |-> interval]
<1>1. edges \in Seq(R) /\ e \in R /\ edges' = Append(edges, e)
  BY DEF Typed
<1> HIDE DEF R, e
<1>2. /\ edges' \in Seq(R) /\ Len(edges') = Len(edges) + 1 /\ edges'[Len(edges) + 1] = e
      /\ DOMAIN edges = 1 .. Len(edges) /\ Len(edges) \in Nat
      /\ DOMAIN edges' = 1 .. Len(edges) + 1
      /\ \A k \in 1 .. Len(edges) : edges'[k] = edges[k]
  BY <1>1
<1> QED
  BY <1>2 DEF R, e

LEMMA EdgeStep ==
  ASSUME IInv, NEW i \in Indices, NEW m \in Mems, NEW interval \in Intervals,
         SetOperationArgEdge(i, m, interval)
  PROVE  IInv'
<1> DEFINE n == Len(edges')
<1>1. /\ edges' = Append(edges, [memory |-> m, interval |-> interval])
      /\ UNCHANGED userFunc
  BY DEF SetOperationArgEdge
<1>2. /\ edges' \in Seq([memory : Mems, interval : Intervals])
      /\ n \in Nat /\ n \in DOMAIN edges' /\ n \notin DOMAIN edges
      /\ edges'[n].memory = m /\ edges'[n].interval = interval
      /\ DOMAIN edges \subseteq DOMAIN edges'
      /\ \A k \in DOMAIN edges : edges'[k] = edges[k]
  <2>1. Typed
    BY DEF IInv
  <2> DEFINE e == [memory |-> m, interval |-> interval]
  <2>2. e.memory = m /\ e.interval = interval
    OBVIOUS
  <2> HIDE DEF e
  <2> QED
    BY <1>1, <2>1, <2>2, NewEdge DEF e
<1>3. CASE UNCHANGED <<native, kernelArg, edgeAt, asked, wanted, inOrder, mixed>>
  <2>1. Typed'
    BY <1>1, <1>2, <1>3 DEF IInv, Typed
  <2>2. NativeInv'
    BY <1>1, <1>3
    DEF IInv, NativeInv, OnlyMems, Orderly, CalledAsAsked, WritesStayInside, Passed,
        Complete, Follows, Asked, native
  <2>3. OwnEdge' /\ EdgeAsAsked'
    BY <1>2, <1>3 DEF IInv, OwnEdge, EdgeAsAsked
  <2> QED
    BY <2>1, <2>2, <2>3 DEF IInv
<1>4. CASE /\ SetKernelArgMemory(i, m, n) /\ Ask(i, m)
           /\ wanted' = [wanted EXCEPT ![i] = interval]
  <2> HIDE DEF n
  <2>1. NativeInv' /\ kernelArg' \in [KernelArgs -> Mems \cup Values \cup {Null}]
    BY <1>1, <1>4, SetStep DEF SetKernelArgMemory
  <2>2. /\ asked' \in [Indices -> Mems \cup Values \cup {Null}]
        /\ inOrder' \in BOOLEAN /\ mixed' \in BOOLEAN
        /\ asked'[i] = m /\ \A j \in Indices \ {i} : asked'[j] = asked[j]
    BY <1>4, AskFacts DEF IInv
  <2>3. /\ edgeAt' \in [Indices -> Nat \cup {Null}] /\ edgeAt'[i] = n
        /\ \A j \in Indices \ {i} : edgeAt'[j] = edgeAt[j]
    BY <1>2, <1>4 DEF IInv, Typed, SetKernelArgMemory
  <2>4. /\ wanted' \in [Indices -> Intervals \cup {Null}] /\ wanted'[i] = interval
        /\ \A j \in Indices \ {i} : wanted'[j] = wanted[j]
    BY <1>4 DEF IInv, Typed
  <2>5. Typed'
    BY <1>1, <1>2, <2>1, <2>2, <2>3, <2>4 DEF IInv, Typed
  <2>6. OwnEdge'
    BY <1>2, <2>3 DEF IInv, OwnEdge
  <2>7. EdgeAsAsked'
    BY <1>2, <2>2, <2>3, <2>4 DEF IInv, OwnEdge, EdgeAsAsked
  <2> QED
    BY <2>1, <2>5, <2>6, <2>7 DEF IInv
<1> QED
  BY <1>3, <1>4 DEF SetOperationArgEdge

LEMMA IntervalStep ==
  ASSUME IInv, NEW i \in Indices, NEW interval \in Intervals,
         SetOperationArgMemoryCopyInterval(i, interval)
  PROVE  IInv'
<1> DEFINE R == [memory : Mems, interval : Intervals]
<1>1. /\ edgeAt[i] # Null /\ wanted' = [wanted EXCEPT ![i] = interval]
      /\ edges' = [k \in DOMAIN edges |-> IF k = edgeAt[i]
                     THEN [edges[k] EXCEPT !.interval = interval] ELSE edges[k]]
      /\ UNCHANGED <<userFunc, native, kernelArg, edgeAt, asked, inOrder, mixed>>
  BY DEF SetOperationArgMemoryCopyInterval, Adjusted
<1>2. edges \in Seq(R) /\ Len(edges) \in Nat /\ DOMAIN edges = 1 .. Len(edges)
  <2>1. edges \in Seq(R)
    BY DEF IInv, Typed
  <2> HIDE DEF R
  <2> QED
    BY <2>1
<1>3. \A k \in DOMAIN edges : edges[k] \in R
  <2> HIDE DEF R
  <2> QED
    BY <1>2
<1>4. \A k \in DOMAIN edges :
        /\ edges'[k] \in R /\ edges'[k].memory = edges[k].memory
        /\ edges'[k].interval = IF k = edgeAt[i] THEN interval ELSE edges[k].interval
  BY <1>1, <1>3
<1>5. edges' \in Seq(R) /\ DOMAIN edges' = DOMAIN edges
  <2> HIDE DEF R
  <2>1. edges' \in [1 .. Len(edges) -> R]
    BY <1>1, <1>2, <1>4
  <2> QED
    BY <1>1, <1>2, <2>1, SeqDef
<1>6. /\ wanted' \in [Indices -> Intervals \cup {Null}] /\ wanted'[i] = interval
      /\ \A j \in Indices \ {i} : wanted'[j] = wanted[j]
  BY <1>1 DEF IInv, Typed
<1>7. Typed'
  BY <1>1, <1>5, <1>6 DEF IInv, Typed
<1>8. NativeInv'
  BY <1>1
  DEF IInv, NativeInv, OnlyMems, Orderly, CalledAsAsked, WritesStayInside, Passed,
      Complete, Follows, Asked, native
<1>9. OwnEdge'
  BY <1>1, <1>5 DEF IInv, OwnEdge
<1>10. EdgeAsAsked'
  BY <1>1, <1>4, <1>6 DEF IInv, OwnEdge, EdgeAsAsked
<1> QED
  BY <1>7, <1>8, <1>9, <1>10 DEF IInv

LEMMA Step == IInv /\ [Next]_vars => IInv'
<1>1. SUFFICES ASSUME IInv, [Next]_vars PROVE IInv'
  OBVIOUS
<1>2. CASE Next
  BY <1>1, <1>2, MemoryStep, EdgeStep, ConstantStep, IntervalStep DEF Next
<1>3. CASE UNCHANGED vars
  BY <1>1, <1>3
  DEF vars, native, IInv, Typed, NativeInv, OnlyMems, Orderly, CalledAsAsked,
      WritesStayInside, Passed, Complete, Follows, Asked, OwnEdge, EdgeAsAsked
<1> QED
  BY <1>1, <1>2, <1>3

\* The inductive invariant holds whatever is set at whatever index (Operation.cpp:105-141).
THEOREM Invariance == Spec => []IInv
<1>1. IInv /\ [Next]_vars => IInv'
  BY Step
<1> QED
  BY Initially, <1>1, PTL DEF Spec

\* A kernel is called with what was set last at each index; a native function too, if
\* its arguments came in order or are all memories (Operation.cpp:77-141).
THEOREM ArgumentsAreThoseAsked == Spec => []CalledAsAsked
<1>1. IInv => CalledAsAsked
  BY DEF IInv, NativeInv
<1> QED
  BY <1>1, Invariance, PTL

\* BuildUserFuncArgs writes outside its vectors only if a constant was set and the
\* calls were out of order (Operation.cpp:95).
THEOREM VectorsAreLongEnough == Spec => []WritesStayInside
<1>1. IInv => WritesStayInside
  BY DEF IInv, NativeInv
<1> QED
  BY <1>1, Invariance, PTL

\* SetArgCopyInterval finds the latest edge of its index.
THEOREM EdgesAreThoseAsked == Spec => []EdgeAsAsked
<1>1. IInv => EdgeAsAsked
  BY DEF IInv
<1> QED
  BY <1>1, Invariance, PTL

==============================================================================
