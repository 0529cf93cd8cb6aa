-------------------------- MODULE GraphBuilderProofs --------------------------
(***************************************************************************)
(* Proofs about GraphBuilder, for any number of calls in any order, and in *)
(* the second half about FlowSystem, where the graphs they build are run.  *)
(*                                                                         *)
(* Every barrier past the Framework's two belongs to one side of one       *)
(* operation: the operation is at it since it has an edge on that side,    *)
(* and these edges are (Wiring).  The three Create...Edge do the same at   *)
(* each end of an edge, so one lemma about a new edge serves all three.    *)
(***************************************************************************)
EXTENDS FlowSystem, FiniteSetTheorems, SequenceTheorems, TLAPS

Types ==
  /\ ops \subseteq Operations /\ edges \subseteq EdgeIds
  /\ dev \in [ops -> Devices]
  /\ src \in [edges -> ops \cup {Host}] /\ dst \in [edges -> ops \cup {Host}]
  /\ size \in Seq(Int) /\ Len(size) >= 2
  /\ inSync \in [Threads -> 1 .. Len(size)] /\ outSync \in [Threads -> 1 .. Len(size)]
  /\ asked \subseteq Operations \X Operations
  /\ threadless \subseteq edges
  /\ failures \in 0 .. MaxFailures /\ NotCreated >= 0

IInv == Types /\ Wiring /\ SizesCountThreads

\* The operations that may not be there.
Missing(b) == IF b \in {FrameworkInput, FrameworkOutput} THEN NotCreated ELSE 0

LEMMA Finiteness ==
  ASSUME Types
  PROVE  /\ IsFiniteSet(Threads) /\ IsFiniteSet(threadless)
         /\ Cardinality(threadless) \in Nat /\ NotCreated \in Nat
         /\ \A b : IsFiniteSet(At(b)) /\ Cardinality(At(b)) \in Nat
         /\ Host \notin ops /\ Host \notin edges /\ ops \cap edges = {}
<1>1. IsFiniteSet(ops) /\ IsFiniteSet(edges)
  BY BuilderAssumption, FS_Subset DEF Types
<1>2. IsFiniteSet(ops \cup edges)
  BY <1>1, FS_Union
<1>3. IsFiniteSet(Threads)
  BY <1>2, FS_AddElement DEF Threads
<1>4. IsFiniteSet(threadless) /\ Cardinality(threadless) \in Nat
  BY <1>1, FS_Subset, FS_CardinalityType DEF Types
<1>5. NotCreated \in Nat
  <2>1. failures \in Nat /\ NotCreated >= 0
    BY BuilderAssumption DEF Types
  <2> QED
    BY <1>4, <2>1 DEF NotCreated
<1>6. ASSUME NEW b PROVE IsFiniteSet(At(b)) /\ Cardinality(At(b)) \in Nat
  <2>1. At(b) \in SUBSET Threads
    BY DEF At
  <2> QED
    BY <1>3, <2>1, FS_Subset, FS_CardinalityType
<1>7. Host \notin ops /\ Host \notin edges /\ ops \cap edges = {}
  BY BuilderAssumption DEF Types
<1> QED
  BY <1>3, <1>4, <1>5, <1>6, <1>7

LEMMA SizesSaid ==
  SizesCountThreads <=> \A b \in 1 .. Len(size) : size[b] = Cardinality(At(b)) + Missing(b)
BY DEF SizesCountThreads, Waiters, At, Missing

\* One more, one less.
LEMMA OneMore ==
  ASSUME NEW S, IsFiniteSet(S), NEW x, x \notin S
  PROVE  Cardinality(S \cup {x}) = Cardinality(S) + 1 /\ IsFiniteSet(S \cup {x})
BY FS_AddElement

LEMMA OneLess ==
  ASSUME NEW S, IsFiniteSet(S), NEW x \in S
  PROVE  Cardinality(S \ {x}) = Cardinality(S) - 1 /\ IsFiniteSet(S \ {x})
BY FS_RemoveElement

LEMMA APair ==
  ASSUME NEW x, NEW y, x # y
  PROVE  Cardinality({x, y}) = 2
<1>1. IsFiniteSet({x}) /\ Cardinality({x}) = 1
  BY FS_Singleton
<1>2. {x} \cup {y} = {x, y} /\ y \notin {x}
  OBVIOUS
<1>3. Cardinality({x} \cup {y}) = 1 + 1
  BY <1>1, <1>2, OneMore
<1> QED
  BY <1>2, <1>3
------------------------------------------------------------------------------
(* A new edge, whoever makes it. *)

OutMoves(t) == t \in ops /\ outSync[t] = FrameworkOutput
InMoves(t) == t \in ops /\ inSync[t] = FrameworkInput

\* The barriers x and y come to be the input and the output of the edge e. Where an
\* operation is still at the Framework's barrier, x or y is new.
NewEdge(e, from, to, x, y) ==
  /\ UNCHANGED <<ops, dev>>
  /\ AddEdge(e, from, to)
  /\ inSync' = [t \in Threads \cup {e} |->
                  IF t = e THEN x ELSE IF t = to /\ t # Host THEN y ELSE inSync[t]]
  /\ outSync' = [t \in Threads \cup {e} |->
                   IF t = e THEN y ELSE IF t = from /\ t # Host THEN x ELSE outSync[t]]
  /\ x = IF from = Host THEN FrameworkInput ELSE IF OutMoves(from) THEN x ELSE outSync[from]
  /\ y = IF to = Host THEN FrameworkOutput ELSE IF InMoves(to) THEN y ELSE inSync[to]
  /\ size' \in Seq(Int) /\ Len(size') >= Len(size)
  /\ OutMoves(from) => x \in Len(size) + 1 .. Len(size')
  /\ InMoves(to) => y \in Len(size) + 1 .. Len(size')
  /\ OutMoves(from) /\ InMoves(to) => x # y
  /\ \A k \in Len(size) + 1 .. Len(size') :
       /\ size'[k] = 2
       /\ (OutMoves(from) /\ k = x) \/ (InMoves(to) /\ k = y)
  /\ \A k \in 1 .. Len(size) :
       size'[k] = size[k] + (IF k \in {x, y} THEN 1 ELSE 0)
                  - (IF (k = FrameworkOutput /\ OutMoves(from)) \/ (k = FrameworkInput /\ InMoves(to))
                     THEN 1 ELSE 0)

Ends(e, from, to) ==
  /\ e \in EdgeIds /\ e \notin edges
  /\ from \in ops \cup {Host} /\ to \in ops \cup {Host} /\ (from # Host \/ to # Host)

LEMMA EdgeFacts ==
  ASSUME IInv, NEW e, NEW from, NEW to, NEW x, NEW y,
         Ends(e, from, to), NewEdge(e, from, to, x, y)
  PROVE  /\ Threads' = Threads \cup {e} /\ e \notin Threads /\ e # Host /\ e \notin ops
         /\ edges' = edges \cup {e} /\ ops' = ops
         /\ inSync'[e] = x /\ outSync'[e] = y
         /\ \A t \in Threads : inSync'[t] = IF t = to /\ t # Host THEN y ELSE inSync[t]
         /\ \A t \in Threads : outSync'[t] = IF t = from /\ t # Host THEN x ELSE outSync[t]
         /\ src'[e] = from /\ dst'[e] = to
         /\ \A f \in edges : src'[f] = src[f] /\ dst'[f] = dst[f]
         /\ x \in 1 .. Len(size') /\ y \in 1 .. Len(size')
         /\ Len(size) \in Nat /\ Len(size') \in Nat /\ Len(size) >= 2 /\ Len(size') >= Len(size)
         /\ x # y /\ x # FrameworkOutput /\ y # FrameworkInput
         /\ Threads = ops \cup edges \cup {Host}
<1>1. Types /\ Wiring
  BY DEF IInv
<1>2. e \notin Threads /\ e # Host /\ e \notin ops
  BY <1>1, BuilderAssumption DEF Ends, Types, Threads
<1>3. edges' = edges \cup {e} /\ ops' = ops /\ Threads' = Threads \cup {e}
  BY DEF NewEdge, AddEdge, Threads
<1>4. /\ inSync'[e] = x /\ outSync'[e] = y
      /\ \A t \in Threads : inSync'[t] = IF t = to /\ t # Host THEN y ELSE inSync[t]
      /\ \A t \in Threads : outSync'[t] = IF t = from /\ t # Host THEN x ELSE outSync[t]
  BY <1>2 DEF NewEdge
<1>5. /\ src'[e] = from /\ dst'[e] = to
      /\ \A f \in edges : src'[f] = src[f] /\ dst'[f] = dst[f]
  <2>1. src' = Extend(src, e, from) /\ dst' = Extend(dst, e, to)
    BY DEF NewEdge, AddEdge
  <2>2. DOMAIN src = edges /\ DOMAIN dst = edges /\ e \notin edges
    BY <1>1 DEF Types, Ends
  <2> QED
    BY <2>1, <2>2 DEF Extend
<1>6. Len(size) \in Nat /\ Len(size') \in Nat /\ Len(size) >= 2 /\ Len(size') >= Len(size)
  BY <1>1 DEF Types, NewEdge
<1>7. \A t \in Threads : inSync[t] \in 1 .. Len(size) /\ outSync[t] \in 1 .. Len(size)
  BY <1>1 DEF Types
<1>8. from \in Threads /\ to \in Threads /\ Host \in Threads
  BY DEF Ends, Threads
<1>9. x \in 1 .. Len(size') /\ x # FrameworkOutput
  <2>1. CASE from = Host
    BY <1>6, <2>1 DEF NewEdge, FrameworkInput, FrameworkOutput
  <2>2. CASE from # Host /\ OutMoves(from)
    BY <1>6, <2>2 DEF NewEdge, FrameworkInput, FrameworkOutput
  <2>3. CASE from # Host /\ ~OutMoves(from)
    <3>1. x = outSync[from]
      BY <2>3 DEF NewEdge
    <3> QED
      BY <1>6, <1>7, <1>8, <2>3, <3>1 DEF OutMoves, Ends
  <2> QED
    BY <2>1, <2>2, <2>3
<1>10. y \in 1 .. Len(size') /\ y # FrameworkInput
  <2>1. CASE to = Host
    BY <1>6, <2>1 DEF NewEdge, FrameworkInput, FrameworkOutput
  <2>2. CASE to # Host /\ InMoves(to)
    BY <1>6, <2>2 DEF NewEdge, FrameworkInput, FrameworkOutput
  <2>3. CASE to # Host /\ ~InMoves(to)
    <3>1. y = inSync[to]
      BY <2>3 DEF NewEdge
    <3> QED
      BY <1>6, <1>7, <1>8, <2>3, <3>1 DEF InMoves, Ends
  <2> QED
    BY <2>1, <2>2, <2>3
<1>11. x # y
  <2>1. CASE OutMoves(from)
    <3>1. x > Len(size) /\ from # Host
      BY <1>1, <1>6, <2>1, Finiteness DEF NewEdge, OutMoves
    <3>2. CASE InMoves(to)
      BY <2>1, <3>2 DEF NewEdge
    <3>3. CASE ~InMoves(to)
      <4>1. y = FrameworkOutput \/ y = inSync[to]
        BY <3>3 DEF NewEdge
      <4> QED
        BY <1>6, <1>7, <1>8, <3>1, <4>1 DEF FrameworkOutput
    <3> QED
      BY <3>2, <3>3
  <2>2. CASE ~OutMoves(from) /\ InMoves(to)
    <3>1. y > Len(size)
      BY <1>6, <2>2 DEF NewEdge
    <3>2. x = FrameworkInput \/ x = outSync[from]
      BY <2>2 DEF NewEdge
    <3> QED
      BY <1>6, <1>7, <1>8, <3>1, <3>2 DEF FrameworkInput
  <2>3. CASE ~OutMoves(from) /\ ~InMoves(to)
    <3>1. x = IF from = Host THEN FrameworkInput ELSE outSync[from]
      BY <2>3 DEF NewEdge
    <3>2. y = IF to = Host THEN FrameworkOutput ELSE inSync[to]
      BY <2>3 DEF NewEdge
    <3>3. CASE from = Host
      <4>1. x = FrameworkInput /\ to \in ops /\ to # Host /\ ~InMoves(to)
        BY <2>3, <3>1, <3>3 DEF Ends
      <4> QED
        BY <3>2, <4>1 DEF InMoves
    <3>4. CASE to = Host
      <4>1. y = FrameworkOutput /\ from \in ops /\ from # Host /\ ~OutMoves(from)
        BY <2>3, <3>2, <3>4 DEF Ends
      <4> QED
        BY <3>1, <4>1 DEF OutMoves
    <3>5. CASE from # Host /\ to # Host
      <4>1. from \in ops /\ to \in ops
        BY <3>5 DEF Ends
      <4>2. inSync[to] # outSync[from]
        BY <1>1, <4>1 DEF Wiring
      <4> QED
        BY <3>1, <3>2, <3>5, <4>2
    <3> QED
      BY <3>3, <3>4, <3>5
  <2> QED
    BY <2>1, <2>2, <2>3
<1> QED
  BY <1>2, <1>3, <1>4, <1>5, <1>6, <1>9, <1>10, <1>11 DEF Threads

LEMMA EdgeKeepsWiring ==
  ASSUME IInv, NEW e, NEW from, NEW to, NEW x, NEW y,
         Ends(e, from, to), NewEdge(e, from, to, x, y)
  PROVE  Wiring'
<1>1. /\ Threads' = Threads \cup {e} /\ e \notin Threads /\ e # Host /\ e \notin ops
      /\ edges' = edges \cup {e} /\ ops' = ops
      /\ inSync'[e] = x /\ outSync'[e] = y
      /\ \A t \in Threads : inSync'[t] = IF t = to /\ t # Host THEN y ELSE inSync[t]
      /\ \A t \in Threads : outSync'[t] = IF t = from /\ t # Host THEN x ELSE outSync[t]
      /\ src'[e] = from /\ dst'[e] = to
      /\ \A f \in edges : src'[f] = src[f] /\ dst'[f] = dst[f]
      /\ x # y /\ x # FrameworkOutput /\ y # FrameworkInput
      /\ Threads = ops \cup edges \cup {Host}
      /\ Len(size) \in Nat /\ Len(size) >= 2
  BY EdgeFacts
<1>2. Types /\ Wiring /\ Host \notin ops /\ Host \notin edges /\ ops \cap edges = {}
  BY Finiteness DEF IInv
<1>3. \A t \in Threads : inSync[t] \in 1 .. Len(size) /\ outSync[t] \in 1 .. Len(size)
  BY <1>2 DEF Types
<1>4. from \in ops \cup {Host} /\ to \in ops \cup {Host} /\ (from # Host \/ to # Host)
  BY DEF Ends
\* Who owns x, and who owns y.
<1>5. /\ from = Host => x = FrameworkInput
      /\ from \in ops => \A p \in ops : /\ outSync[p] = x => p = from
                                        /\ inSync[p] # x
  <2>1. CASE from = Host
    BY <1>2, <2>1 DEF NewEdge
  <2>2. CASE OutMoves(from)
    <3>1. x > Len(size)
      BY <1>1, <2>2 DEF NewEdge
    <3>2. \A p \in ops : inSync[p] <= Len(size) /\ outSync[p] <= Len(size)
      BY <1>1, <1>3
    <3>3. \A p \in ops : inSync[p] # x /\ outSync[p] # x
      BY <1>1, <1>3, <3>1, <3>2
    <3> QED
      BY <1>2, <2>2, <3>3 DEF OutMoves
  <2>3. CASE from \in ops /\ ~OutMoves(from)
    <3>1. x = outSync[from] /\ x # FrameworkOutput
      BY <1>2, <2>3 DEF NewEdge, OutMoves
    <3> QED
      BY <1>2, <2>3, <3>1 DEF Wiring
  <2> QED
    BY <1>4, <2>1, <2>2, <2>3
<1>6. /\ to = Host => y = FrameworkOutput
      /\ to \in ops => \A p \in ops : /\ inSync[p] = y => p = to
                                      /\ outSync[p] # y
  <2>1. CASE to = Host
    BY <1>2, <2>1 DEF NewEdge
  <2>2. CASE InMoves(to)
    <3>1. y > Len(size)
      BY <1>1, <2>2 DEF NewEdge
    <3>2. \A p \in ops : inSync[p] <= Len(size) /\ outSync[p] <= Len(size)
      BY <1>1, <1>3
    <3>3. \A p \in ops : inSync[p] # y /\ outSync[p] # y
      BY <1>1, <1>3, <3>1, <3>2
    <3> QED
      BY <1>2, <2>2, <3>3 DEF InMoves
  <2>3. CASE to \in ops /\ ~InMoves(to)
    <3>1. y = inSync[to] /\ y # FrameworkInput
      BY <1>2, <2>3 DEF NewEdge, InMoves
    <3> QED
      BY <1>2, <2>3, <3>1 DEF Wiring
  <2> QED
    BY <1>4, <2>1, <2>2, <2>3
\* Operations that have edges on a side do not move there.
<1>7. /\ \A o \in ops : HasOut(o) => outSync'[o] = outSync[o]
      /\ \A o \in ops : HasIn(o) => inSync'[o] = inSync[o]
  <2>1. ASSUME NEW o \in ops, HasOut(o) PROVE outSync'[o] = outSync[o]
    <3>1. CASE o = from
      <4>1. ~OutMoves(from) /\ from # Host
        BY <1>2, <2>1, <3>1 DEF Wiring, OutMoves
      <4>2. x = outSync[from]
        BY <4>1 DEF NewEdge
      <4> QED
        BY <1>1, <3>1, <4>2
    <3>2. CASE o # from
      BY <1>1, <3>2
    <3> QED
      BY <3>1, <3>2
  <2>2. ASSUME NEW o \in ops, HasIn(o) PROVE inSync'[o] = inSync[o]
    <3>1. CASE o = to
      <4>1. ~InMoves(to) /\ to # Host
        BY <1>2, <2>2, <3>1 DEF Wiring, InMoves
      <4>2. y = inSync[to]
        BY <4>1 DEF NewEdge
      <4> QED
        BY <1>1, <3>1, <4>2
    <3>2. CASE o # to
      BY <1>1, <3>2
    <3> QED
      BY <3>1, <3>2
  <2> QED
    BY <2>1, <2>2
<1>8. inSync'[Host] = FrameworkInput /\ outSync'[Host] = FrameworkOutput
  BY <1>1, <1>2 DEF Wiring
<1>9. ASSUME NEW f \in edges'
      PROVE  /\ src'[f] # Host \/ dst'[f] # Host
             /\ inSync'[f] = IF src'[f] = Host THEN FrameworkInput ELSE outSync'[src'[f]]
             /\ outSync'[f] = IF dst'[f] = Host THEN FrameworkOutput ELSE inSync'[dst'[f]]
  <2>1. CASE f = e
    BY <1>1, <1>2, <1>4, <1>5, <1>6, <2>1
  <2>2. CASE f # e
    <3>1. f \in edges /\ f \in Threads /\ f \notin ops /\ f # Host
      BY <1>1, <1>2, <2>2
    <3>2. f # from /\ f # to
      BY <1>4, <3>1
    <3>3. /\ inSync'[f] = inSync[f] /\ outSync'[f] = outSync[f]
          /\ src'[f] = src[f] /\ dst'[f] = dst[f]
      BY <1>1, <3>1, <3>2
    <3>4. src[f] \in ops \cup {Host} /\ dst[f] \in ops \cup {Host}
      BY <1>2, <3>1 DEF Types
    <3>5. /\ src[f] # Host => src[f] \in ops /\ HasOut(src[f])
          /\ dst[f] # Host => dst[f] \in ops /\ HasIn(dst[f])
      BY <3>1, <3>4 DEF HasOut, HasIn
    <3> QED
      BY <1>2, <1>7, <3>1, <3>3, <3>5 DEF Wiring
  <2> QED
    BY <2>1, <2>2
<1>10. ASSUME NEW o \in ops
       PROVE  /\ inSync'[o] = IF o = to THEN y ELSE inSync[o]
              /\ outSync'[o] = IF o = from THEN x ELSE outSync[o]
              /\ HasIn(o)' <=> HasIn(o) \/ o = to
              /\ HasOut(o)' <=> HasOut(o) \/ o = from
  BY <1>1, <1>2 DEF HasIn, HasOut
<1>11. ASSUME NEW o \in ops
       PROVE  /\ inSync'[o] # FrameworkOutput /\ outSync'[o] # FrameworkInput
              /\ inSync'[o] = FrameworkInput <=> ~HasIn(o)'
              /\ outSync'[o] = FrameworkOutput <=> ~HasOut(o)'
  <2>1. from \in ops => x # FrameworkInput
    <3>1. outSync[from] # FrameworkInput \/ from \notin ops
      BY <1>2 DEF Wiring
    <3>2. OutMoves(from) => x # FrameworkInput
      BY <1>1 DEF NewEdge, FrameworkInput
    <3> QED
      BY <1>2, <3>1, <3>2 DEF NewEdge
  <2>2. to \in ops => y # FrameworkOutput
    <3>1. inSync[to] # FrameworkOutput \/ to \notin ops
      BY <1>2 DEF Wiring
    <3>2. InMoves(to) => y # FrameworkOutput
      BY <1>1 DEF NewEdge, FrameworkOutput
    <3> QED
      BY <1>2, <3>1, <3>2 DEF NewEdge
  <2> QED
    BY <1>1, <1>2, <1>10, <2>1, <2>2 DEF Wiring
<1>12. ASSUME NEW o \in ops, NEW p \in ops
       PROVE  /\ inSync'[o] = inSync'[p] => inSync'[o] = FrameworkInput \/ o = p
              /\ outSync'[o] = outSync'[p] => outSync'[o] = FrameworkOutput \/ o = p
              /\ inSync'[o] # outSync'[p]
  <2>1. inSync'[o] = inSync'[p] => inSync'[o] = FrameworkInput \/ o = p
    BY <1>2, <1>6, <1>10 DEF Wiring
  <2>2. outSync'[o] = outSync'[p] => outSync'[o] = FrameworkOutput \/ o = p
    BY <1>2, <1>5, <1>10 DEF Wiring
  <2>3. inSync'[o] # outSync'[p]
    BY <1>1, <1>2, <1>5, <1>6, <1>10 DEF Wiring
  <2> QED
    BY <2>1, <2>2, <2>3
<1> QED
  BY <1>1, <1>8, <1>9, <1>11, <1>12 DEF Wiring

LEMMA EdgeKeepsCount ==
  ASSUME IInv, NEW e, NEW from, NEW to, NEW x, NEW y,
         Ends(e, from, to), NewEdge(e, from, to, x, y)
  PROVE  NotCreated' = NotCreated /\ threadless' \subseteq edges' /\ failures' \in 0 .. MaxFailures
<1>1. /\ Types /\ e \notin threadless /\ edges' = edges \cup {e}
      /\ IsFiniteSet(threadless) /\ Cardinality(threadless) \in Nat /\ failures \in Nat
  <2>1. Types /\ IsFiniteSet(threadless) /\ Cardinality(threadless) \in Nat
    BY Finiteness DEF IInv
  <2>2. e \notin threadless
    BY <2>1 DEF Types, Ends
  <2>3. edges' = edges \cup {e}
    BY DEF NewEdge, AddEdge
  <2>4. failures \in Nat
    BY <2>1, BuilderAssumption DEF Types
  <2> QED
    BY <2>1, <2>2, <2>3, <2>4
<1>2. CASE UNCHANGED <<threadless, failures>>
  BY <1>1, <1>2 DEF Types, NotCreated
<1>3. CASE /\ failures < MaxFailures /\ threadless' = threadless \cup {e}
           /\ failures' = failures + 1
  <2>1. Cardinality(threadless') = Cardinality(threadless) + 1
    BY <1>1, <1>3, OneMore
  <2>2. failures' \in 0 .. MaxFailures
    BY <1>1, <1>3, BuilderAssumption
  <2>3. NotCreated' = NotCreated
    BY <1>1, <1>3, <2>1 DEF NotCreated
  <2> QED
    BY <1>1, <1>3, <2>2, <2>3 DEF Types
<1> QED
  BY <1>2, <1>3 DEF NewEdge, AddEdge

LEMMA EdgeKeepsSizes ==
  ASSUME IInv, NEW e, NEW from, NEW to, NEW x, NEW y,
         Ends(e, from, to), NewEdge(e, from, to, x, y)
  PROVE  SizesCountThreads'
<1>1. /\ Threads' = Threads \cup {e} /\ e \notin Threads /\ e # Host /\ e \notin ops
      /\ inSync'[e] = x /\ outSync'[e] = y
      /\ \A t \in Threads : inSync'[t] = IF t = to /\ t # Host THEN y ELSE inSync[t]
      /\ \A t \in Threads : outSync'[t] = IF t = from /\ t # Host THEN x ELSE outSync[t]
      /\ x # y /\ x # FrameworkOutput /\ y # FrameworkInput
      /\ Threads = ops \cup edges \cup {Host}
      /\ Len(size) \in Nat /\ Len(size') \in Nat /\ Len(size) >= 2 /\ Len(size') >= Len(size)
  BY EdgeFacts
<1>2. /\ Types /\ Wiring /\ Host \notin ops
      /\ \A b : IsFiniteSet(At(b)) /\ Cardinality(At(b)) \in Nat
  BY Finiteness DEF IInv
<1>3. \A t \in Threads : inSync[t] \in 1 .. Len(size) /\ outSync[t] \in 1 .. Len(size)
  BY <1>2 DEF Types
<1>4. from \in ops \cup {Host} /\ to \in ops \cup {Host}
  BY DEF Ends
<1>5. \A b : Missing(b)' = Missing(b)
  BY EdgeKeepsCount DEF Missing
<1>6. \A b \in 1 .. Len(size) :
        /\ size[b] = Cardinality(At(b)) + Missing(b)
        /\ size[b] \in Int /\ Missing(b) \in Int
  <2>1. \A b \in 1 .. Len(size) : size[b] = Cardinality(At(b)) + Missing(b)
    BY SizesSaid DEF IInv
  <2>2. \A b : Missing(b) \in Int
    BY <1>2, Finiteness DEF Missing
  <2>3. \A b \in 1 .. Len(size) : size[b] \in Int
    BY <1>2 DEF Types
  <2> QED
    BY <2>1, <2>2, <2>3
<1>7. ASSUME NEW t \in Threads, NEW b
      PROVE  /\ inSync'[t] = b \/ outSync'[t] = b
                  <=> \/ (IF t = to /\ t # Host THEN y ELSE inSync[t]) = b
                      \/ (IF t = from /\ t # Host THEN x ELSE outSync[t]) = b
  BY <1>1
\* A barrier that is new.
<1>8. ASSUME NEW b \in Len(size) + 1 .. Len(size')
      PROVE  size'[b] = Cardinality(At(b)') + Missing(b)'
  <2>1. size'[b] = 2 /\ ((OutMoves(from) /\ b = x) \/ (InMoves(to) /\ b = y))
    BY DEF NewEdge
  <2>2. b > Len(size) /\ Missing(b) = 0
    BY <1>1 DEF Missing, FrameworkInput, FrameworkOutput
  <2>3. \A t \in Threads : inSync[t] # b /\ outSync[t] # b
    BY <1>1, <1>3, <2>2
  <2>4. CASE OutMoves(from) /\ b = x
    <3>1. from \in ops /\ from \in Threads /\ from # Host /\ from # e
      BY <1>1, <1>2, <2>4 DEF OutMoves
    <3>2. At(b)' = {from, e}
      BY <1>1, <1>7, <2>3, <2>4, <3>1 DEF At
    <3>3. Cardinality(At(b)') = 2
      BY <3>1, <3>2, APair
    <3> QED
      BY <1>5, <2>1, <2>2, <3>3
  <2>5. CASE InMoves(to) /\ b = y
    <3>1. to \in ops /\ to \in Threads /\ to # Host /\ to # e
      BY <1>1, <1>2, <2>5 DEF InMoves
    <3>2. At(b)' = {to, e}
      BY <1>1, <1>7, <2>3, <2>5, <3>1 DEF At
    <3>3. Cardinality(At(b)') = 2
      BY <3>1, <3>2, APair
    <3> QED
      BY <1>5, <2>1, <2>2, <3>3
  <2> QED
    BY <2>1, <2>4, <2>5
\* A barrier that was there.
<1>9. ASSUME NEW b \in 1 .. Len(size)
      PROVE  size'[b] = Cardinality(At(b)') + Missing(b)'
  <2> DEFINE leaves == {t \in ops : \/ t = from /\ OutMoves(t) /\ b = FrameworkOutput
                                    \/ t = to /\ InMoves(t) /\ b = FrameworkInput}
             stay == At(b) \ leaves
  <2>1. /\ size'[b] = size[b] + (IF b \in {x, y} THEN 1 ELSE 0)
                      - (IF leaves # {} THEN 1 ELSE 0)
    <3>1. leaves # {} <=> \/ b = FrameworkOutput /\ OutMoves(from)
                          \/ b = FrameworkInput /\ InMoves(to)
      BY DEF OutMoves, InMoves
    <3> QED
      BY <3>1 DEF NewEdge
  <2>2. \A t \in leaves : t \in At(b) /\ leaves = {t}
    BY <1>1 DEF At, OutMoves, InMoves, FrameworkInput, FrameworkOutput
  <2>3. ASSUME NEW t \in Threads PROVE t \in At(b)' <=> t \in stay
    <3>1. t \in At(b)' <=> \/ (IF t = to /\ t # Host THEN y ELSE inSync[t]) = b
                           \/ (IF t = from /\ t # Host THEN x ELSE outSync[t]) = b
      BY <1>1, <1>7 DEF At
    <3>2. /\ t = from /\ t # Host /\ ~OutMoves(t) => x = outSync[t]
          /\ t = to /\ t # Host /\ ~InMoves(t) => y = inSync[t]
      BY DEF NewEdge
    <3>3. /\ t = from /\ OutMoves(t) => x # b /\ outSync[t] = FrameworkOutput
                                        /\ t \in ops /\ t # Host
          /\ t = to /\ InMoves(t) => y # b /\ inSync[t] = FrameworkInput /\ t \in ops /\ t # Host
      <4>1. t = from /\ OutMoves(t) => x > Len(size)
        BY <1>1 DEF NewEdge
      <4>2. t = to /\ InMoves(t) => y > Len(size)
        BY <1>1 DEF NewEdge
      <4> QED
        BY <1>1, <1>2, <4>1, <4>2 DEF OutMoves, InMoves
    <3>4. t \in ops => inSync[t] # FrameworkOutput /\ outSync[t] # FrameworkInput
      BY <1>2 DEF Wiring
    <3>5. t \in leaves <=> \/ t = from /\ OutMoves(t) /\ b = FrameworkOutput
                           \/ t = to /\ InMoves(t) /\ b = FrameworkInput
      BY DEF OutMoves, InMoves
    <3>6. t \in At(b) <=> inSync[t] = b \/ outSync[t] = b
      BY DEF At
    <3>7. t \in stay <=> t \in At(b) /\ t \notin leaves
      OBVIOUS
    <3> HIDE DEF stay, leaves
    <3>8. FrameworkInput # FrameworkOutput
      BY DEF FrameworkInput, FrameworkOutput
    <3> QED
      BY <3>1, <3>2, <3>3, <3>4, <3>5, <3>6, <3>7, <3>8
  <2>4. At(b)' = IF b \in {x, y} THEN stay \cup {e} ELSE stay
    <3>1. e \in At(b)' <=> b \in {x, y}
      BY <1>1 DEF At
    <3>2. At(b)' \subseteq Threads \cup {e} /\ stay \subseteq Threads
      BY <1>1 DEF At
    <3> QED
      BY <1>1, <2>3, <3>1, <3>2
  <2>5. /\ IsFiniteSet(stay) /\ Cardinality(stay) \in Int /\ e \notin stay
        /\ Cardinality(stay) = Cardinality(At(b)) - (IF leaves # {} THEN 1 ELSE 0)
    <3>1. e \notin stay
      BY <1>1 DEF At
    <3>2. CASE leaves = {}
      <4>1. stay = At(b)
        BY <3>2
      <4> HIDE DEF stay, leaves
      <4> QED
        BY <1>2, <3>1, <3>2, <4>1
    <3>3. CASE leaves # {}
      <4>1. PICK t \in leaves : t \in At(b) /\ leaves = {t}
        BY <2>2, <3>3
      <4>2. stay = At(b) \ {t}
        BY <4>1
      <4>3. IsFiniteSet(At(b)) /\ Cardinality(At(b)) \in Nat
        BY <1>2
      <4> HIDE DEF stay, leaves
      <4>4. Cardinality(At(b) \ {t}) = Cardinality(At(b)) - 1 /\ IsFiniteSet(At(b) \ {t})
        BY <4>1, <4>3, OneLess
      <4> QED
        BY <3>1, <3>3, <4>2, <4>3, <4>4
    <3> QED
      BY <3>2, <3>3
  <2>6. Cardinality(At(b)') = Cardinality(stay) + (IF b \in {x, y} THEN 1 ELSE 0)
    <3> HIDE DEF stay, leaves
    <3>1. Cardinality(stay \cup {e}) = Cardinality(stay) + 1
      BY <2>5, OneMore
    <3> QED
      BY <2>4, <2>5, <3>1
  <2> HIDE DEF stay, leaves
  <2>7. Cardinality(At(b)) \in Nat
    BY <1>2
  <2> QED
    BY <1>5, <1>6, <2>1, <2>5, <2>6, <2>7
<1>10. \A b \in 1 .. Len(size') : size'[b] = Cardinality(At(b)') + Missing(b)'
  BY <1>1, <1>8, <1>9
<1> QED
  BY <1>10 DEF SizesCountThreads, Waiters, At, Missing

LEMMA EdgeAdded ==
  ASSUME IInv, NEW e, NEW from, NEW to, NEW x, NEW y,
         Ends(e, from, to), NewEdge(e, from, to, x, y),
         asked' \subseteq Operations \X Operations
  PROVE  IInv'
<1>1. Types
  BY DEF IInv
<1>2. /\ Threads' = Threads \cup {e} /\ edges' = edges \cup {e} /\ ops' = ops
      /\ x \in 1 .. Len(size') /\ y \in 1 .. Len(size')
      /\ Len(size) \in Nat /\ Len(size') \in Nat /\ Len(size) >= 2 /\ Len(size') >= Len(size)
  BY EdgeFacts
<1>3. /\ NotCreated' = NotCreated /\ threadless' \subseteq edges'
      /\ failures' \in 0 .. MaxFailures
  BY EdgeKeepsCount
<1>4. src' \in [edges' -> ops' \cup {Host}] /\ dst' \in [edges' -> ops' \cup {Host}]
  BY <1>1, <1>2 DEF Types, Ends, NewEdge, AddEdge, Extend
<1>5. \A t \in Threads : inSync[t] \in 1 .. Len(size') /\ outSync[t] \in 1 .. Len(size')
  BY <1>1, <1>2 DEF Types
<1>6. inSync' \in [Threads' -> 1 .. Len(size')] /\ outSync' \in [Threads' -> 1 .. Len(size')]
  BY <1>2, <1>5 DEF NewEdge
<1>7. Types'
  <2>1. /\ ops' \subseteq Operations /\ dev' \in [ops' -> Devices]
        /\ asked' \subseteq Operations \X Operations
    BY <1>1 DEF Types, NewEdge
  <2>2. edges' \subseteq EdgeIds
    BY <1>1, <1>2 DEF Types, Ends
  <2>3. size' \in Seq(Int) /\ Len(size') >= 2
    BY <1>2 DEF NewEdge
  <2>4. NotCreated' >= 0
    BY <1>1, <1>3 DEF Types
  <2> QED
    BY <1>3, <1>4, <1>6, <2>1, <2>2, <2>3, <2>4 DEF Types
<1> QED
  BY <1>7, EdgeKeepsWiring, EdgeKeepsSizes DEF IInv
------------------------------------------------------------------------------
(* The three Create...Edge make such an edge. *)

\* r has the sizes s after ShareSize, of the barrier b.
Shared(r, s, b, f) ==
  /\ r \in Seq(Int)
  /\ Len(r) = IF b = f THEN Len(s) + 1 ELSE Len(s)
  /\ b = f => r[Len(s) + 1] = 2
  /\ \A k \in 1 .. Len(s) :
       r[k] = IF b = f THEN IF k = f THEN s[k] - 1 ELSE s[k]
                       ELSE IF k = b THEN s[k] + 1 ELSE s[k]

LEMMA Sharing ==
  ASSUME NEW s, NEW f, NEW b, s \in Seq(Int), f \in 1 .. Len(s), b \in 1 .. Len(s)
  PROVE  Shared(ShareSize(s, b, f), s, b, f)
<1>1. f \in 1 .. Len(s) /\ Len(s) \in Nat
  OBVIOUS
<1>2. CASE b = f
  <2> DEFINE r == [s EXCEPT ![f] = s[f] - 1]
  <2>1. s[f] - 1 \in Int
    BY <1>1
  <2>2. r \in Seq(Int) /\ Len(r) = Len(s) /\ \A k \in 1 .. Len(s) : r[k] = IF k = f THEN s[k] - 1 ELSE s[k]
    BY <1>1, <2>1
  <2>3. ShareSize(s, b, f) = Append(r, 2)
    BY <1>2 DEF ShareSize
  <2> HIDE DEF r
  <2> QED
    BY <1>1, <1>2, <2>2, <2>3 DEF Shared
<1>3. CASE b # f
  <2>1. s[b] + 1 \in Int /\ ShareSize(s, b, f) = [s EXCEPT ![b] = s[b] + 1]
    BY <1>3 DEF ShareSize
  <2> QED
    BY <1>1, <1>3, <2>1 DEF Shared
<1> QED
  BY <1>2, <1>3

\* One more thread at the Framework's barrier.
LEMMA Raised ==
  ASSUME NEW s \in Seq(Int), NEW f \in 1 .. Len(s)
  PROVE  /\ [s EXCEPT ![f] = @ + 1] \in Seq(Int)
         /\ Len([s EXCEPT ![f] = @ + 1]) = Len(s)
         /\ \A k \in 1 .. Len(s) : [s EXCEPT ![f] = @ + 1][k] = IF k = f THEN s[k] + 1 ELSE s[k]
<1>1. s[f] + 1 \in Int
  OBVIOUS
<1> QED
  BY <1>1

LEMMA InputEdge ==
  ASSUME IInv, NEW e \in EdgeIds, e \notin edges, NEW o \in ops, CreateInputEdge(e, o),
         UNCHANGED <<ops, dev>>, asked' \subseteq Operations \X Operations
  PROVE  IInv'
<1> DEFINE s == [size EXCEPT ![FrameworkInput] = @ + 1]
           y == ShareBarrier(s, inSync[o], FrameworkInput)
<1>1. Types /\ Host \notin ops
  BY Finiteness DEF IInv
<1>2. /\ size \in Seq(Int) /\ Len(size) \in Nat /\ Len(size) >= 2 /\ FrameworkInput \in 1 .. Len(size)
      /\ inSync[o] \in 1 .. Len(size)
  BY <1>1 DEF Types, Threads, FrameworkInput
<1>3. /\ s \in Seq(Int) /\ Len(s) = Len(size)
      /\ \A k \in 1 .. Len(size) : s[k] = IF k = FrameworkInput THEN size[k] + 1 ELSE size[k]
  BY <1>2, Raised
<1>4. size' = ShareSize(s, inSync[o], FrameworkInput)
  BY DEF CreateInputEdge
<1>5. Ends(e, Host, o)
  BY <1>1 DEF Ends
<1>6. /\ inSync' = Extend(Extend(inSync, e, FrameworkInput), o, y)
      /\ outSync' = Extend(outSync, e, y) /\ AddEdge(e, Host, o)
  BY DEF CreateInputEdge
<1> HIDE DEF s
<1>7. /\ size' \in Seq(Int)
      /\ Len(size') = IF inSync[o] = FrameworkInput THEN Len(size) + 1 ELSE Len(size)
      /\ inSync[o] = FrameworkInput => size'[Len(size) + 1] = 2
      /\ \A k \in 1 .. Len(size) :
           size'[k] = IF inSync[o] = FrameworkInput
                      THEN IF k = FrameworkInput THEN s[k] - 1 ELSE s[k]
                      ELSE IF k = inSync[o] THEN s[k] + 1 ELSE s[k]
  <2>1. FrameworkInput \in 1 .. Len(s) /\ inSync[o] \in 1 .. Len(s)
    BY <1>2, <1>3
  <2>2. Shared(ShareSize(s, inSync[o], FrameworkInput), s, inSync[o], FrameworkInput)
    BY <1>3, <2>1, Sharing
  <2> QED
    BY <1>3, <1>4, <2>2 DEF Shared
<1>8. /\ InMoves(o) <=> inSync[o] = FrameworkInput
      /\ ~OutMoves(Host)
      /\ y = IF inSync[o] = FrameworkInput THEN Len(size) + 1 ELSE inSync[o]
  BY <1>1, <1>3 DEF InMoves, OutMoves, ShareBarrier
<1>9. DOMAIN inSync = Threads /\ DOMAIN outSync = Threads /\ o \in Threads /\ o # e /\ e \notin Threads
  BY <1>1, BuilderAssumption DEF Types, Threads
<1> HIDE DEF y
<1>10. inSync' = [t \in Threads \cup {e} |->
                   IF t = e THEN FrameworkInput ELSE IF t = o /\ t # Host THEN y ELSE inSync[t]]
  BY <1>1, <1>6, <1>9 DEF Extend
<1>11. outSync' = [t \in Threads \cup {e} |->
                    IF t = e THEN y ELSE IF t = Host /\ t # Host THEN FrameworkInput ELSE outSync[t]]
  BY <1>6, <1>9 DEF Extend
<1>12. \A k \in 1 .. Len(size) :
         size'[k] = size[k] + (IF k \in {FrameworkInput, y} THEN 1 ELSE 0)
                    - (IF (k = FrameworkOutput /\ OutMoves(Host)) \/ (k = FrameworkInput /\ InMoves(o))
                       THEN 1 ELSE 0)
  <2>1. SUFFICES ASSUME NEW k \in 1 .. Len(size)
                 PROVE  size'[k] = size[k] + (IF k \in {FrameworkInput, y} THEN 1 ELSE 0)
                                   - (IF k = FrameworkInput /\ inSync[o] = FrameworkInput
                                      THEN 1 ELSE 0)
    BY <1>8
  <2>2. size[k] \in Int /\ k # Len(size) + 1
    BY <1>2
  <2>3. CASE inSync[o] = FrameworkInput
    <3>1. size'[k] = (IF k = FrameworkInput THEN s[k] - 1 ELSE s[k]) /\ k # y
      BY <1>7, <1>8, <2>2, <2>3
    <3>2. size'[k] = size[k]
      BY <1>3, <2>2, <3>1
    <3> QED
      BY <2>2, <2>3, <3>1, <3>2
  <2>4. CASE inSync[o] # FrameworkInput
    <3>1. size'[k] = (IF k = y THEN s[k] + 1 ELSE s[k]) /\ y # FrameworkInput
      BY <1>7, <1>8, <2>4
    <3> QED
      BY <1>3, <2>2, <2>4, <3>1
  <2> QED
    BY <2>3, <2>4
<1>13. /\ InMoves(o) => y \in Len(size) + 1 .. Len(size')
       /\ \A k \in Len(size) + 1 .. Len(size') : size'[k] = 2 /\ InMoves(o) /\ k = y
       /\ Len(size') >= Len(size)
  BY <1>2, <1>7, <1>8, SMTT(30)
<1>14. NewEdge(e, Host, o, FrameworkInput, y)
  BY <1>1, <1>6, <1>7, <1>8, <1>10, <1>11, <1>12, <1>13 DEF NewEdge
<1> QED
  BY <1>5, <1>14, EdgeAdded

LEMMA OutputEdge ==
  ASSUME IInv, NEW e \in EdgeIds, e \notin edges, NEW o \in ops, CreateOutputEdge(e, o),
         UNCHANGED <<ops, dev>>, asked' \subseteq Operations \X Operations
  PROVE  IInv'
<1> DEFINE s == [size EXCEPT ![FrameworkOutput] = @ + 1]
           x == ShareBarrier(s, outSync[o], FrameworkOutput)
<1>1. Types /\ Host \notin ops
  BY Finiteness DEF IInv
<1>2. /\ size \in Seq(Int) /\ Len(size) \in Nat /\ Len(size) >= 2 /\ FrameworkOutput \in 1 .. Len(size)
      /\ outSync[o] \in 1 .. Len(size)
  BY <1>1 DEF Types, Threads, FrameworkOutput
<1>3. /\ s \in Seq(Int) /\ Len(s) = Len(size)
      /\ \A k \in 1 .. Len(size) : s[k] = IF k = FrameworkOutput THEN size[k] + 1 ELSE size[k]
  BY <1>2, Raised
<1>4. size' = ShareSize(s, outSync[o], FrameworkOutput)
  BY DEF CreateOutputEdge
<1>5. Ends(e, o, Host)
  BY <1>1 DEF Ends
<1>6. /\ outSync' = Extend(Extend(outSync, e, FrameworkOutput), o, x)
      /\ inSync' = Extend(inSync, e, x) /\ AddEdge(e, o, Host)
  BY DEF CreateOutputEdge
<1> HIDE DEF s
<1>7. /\ size' \in Seq(Int)
      /\ Len(size') = IF outSync[o] = FrameworkOutput THEN Len(size) + 1 ELSE Len(size)
      /\ outSync[o] = FrameworkOutput => size'[Len(size) + 1] = 2
      /\ \A k \in 1 .. Len(size) :
           size'[k] = IF outSync[o] = FrameworkOutput
                      THEN IF k = FrameworkOutput THEN s[k] - 1 ELSE s[k]
                      ELSE IF k = outSync[o] THEN s[k] + 1 ELSE s[k]
  <2>1. FrameworkOutput \in 1 .. Len(s) /\ outSync[o] \in 1 .. Len(s)
    BY <1>2, <1>3
  <2>2. Shared(ShareSize(s, outSync[o], FrameworkOutput), s, outSync[o], FrameworkOutput)
    BY <1>3, <2>1, Sharing
  <2> QED
    BY <1>3, <1>4, <2>2 DEF Shared
<1>8. /\ OutMoves(o) <=> outSync[o] = FrameworkOutput
      /\ ~InMoves(Host)
      /\ x = IF outSync[o] = FrameworkOutput THEN Len(size) + 1 ELSE outSync[o]
  BY <1>1, <1>3 DEF InMoves, OutMoves, ShareBarrier
<1>9. DOMAIN inSync = Threads /\ DOMAIN outSync = Threads /\ o \in Threads /\ o # e /\ e \notin Threads
  BY <1>1, BuilderAssumption DEF Types, Threads
<1> HIDE DEF x
<1>10. inSync' = [t \in Threads \cup {e} |->
                   IF t = e THEN x ELSE IF t = Host /\ t # Host THEN FrameworkOutput ELSE inSync[t]]
  BY <1>6, <1>9 DEF Extend
<1>11. outSync' = [t \in Threads \cup {e} |->
                    IF t = e THEN FrameworkOutput ELSE IF t = o /\ t # Host THEN x ELSE outSync[t]]
  BY <1>1, <1>6, <1>9 DEF Extend
<1>12. \A k \in 1 .. Len(size) :
         size'[k] = size[k] + (IF k \in {x, FrameworkOutput} THEN 1 ELSE 0)
                    - (IF (k = FrameworkOutput /\ OutMoves(o)) \/ (k = FrameworkInput /\ InMoves(Host))
                       THEN 1 ELSE 0)
  <2>1. SUFFICES ASSUME NEW k \in 1 .. Len(size)
                 PROVE  size'[k] = size[k] + (IF k \in {x, FrameworkOutput} THEN 1 ELSE 0)
                                   - (IF k = FrameworkOutput /\ outSync[o] = FrameworkOutput
                                      THEN 1 ELSE 0)
    BY <1>8
  <2>2. size[k] \in Int /\ k # Len(size) + 1
    BY <1>2
  <2>3. CASE outSync[o] = FrameworkOutput
    <3>1. size'[k] = (IF k = FrameworkOutput THEN s[k] - 1 ELSE s[k]) /\ k # x
      BY <1>7, <1>8, <2>2, <2>3
    <3>2. size'[k] = size[k]
      BY <1>3, <2>2, <3>1
    <3> QED
      BY <2>2, <2>3, <3>1, <3>2
  <2>4. CASE outSync[o] # FrameworkOutput
    <3>1. size'[k] = (IF k = x THEN s[k] + 1 ELSE s[k]) /\ x # FrameworkOutput
      BY <1>7, <1>8, <2>4
    <3> QED
      BY <1>3, <2>2, <2>4, <3>1
  <2> QED
    BY <2>3, <2>4
<1>13. /\ OutMoves(o) => x \in Len(size) + 1 .. Len(size')
       /\ \A k \in Len(size) + 1 .. Len(size') : size'[k] = 2 /\ OutMoves(o) /\ k = x
       /\ Len(size') >= Len(size)
  BY <1>2, <1>7, <1>8, SMTT(30)
<1>14. NewEdge(e, o, Host, x, FrameworkOutput)
  BY <1>1, <1>6, <1>7, <1>8, <1>10, <1>11, <1>12, <1>13 DEF NewEdge
<1> QED
  BY <1>5, <1>14, EdgeAdded

LEMMA OpToOpEdge ==
  ASSUME IInv, NEW e \in EdgeIds, e \notin edges, NEW d \in ops, NEW o \in ops,
         CreateOpToOpEdge(e, d, o),
         UNCHANGED <<ops, dev>>, asked' \subseteq Operations \X Operations
  PROVE  IInv'
<1> DEFINE x == ShareBarrier(size, outSync[d], FrameworkOutput)
           s == ShareSize(size, outSync[d], FrameworkOutput)
           y == ShareBarrier(s, inSync[o], FrameworkInput)
<1>1. Types /\ Wiring /\ Host \notin ops
  BY Finiteness DEF IInv
<1>2. /\ size \in Seq(Int) /\ Len(size) \in Nat /\ Len(size) >= 2
      /\ outSync[d] \in 1 .. Len(size) /\ inSync[o] \in 1 .. Len(size)
  BY <1>1 DEF Types, Threads
<1>3. /\ s \in Seq(Int)
      /\ Len(s) = IF outSync[d] = FrameworkOutput THEN Len(size) + 1 ELSE Len(size)
      /\ outSync[d] = FrameworkOutput => s[Len(size) + 1] = 2
      /\ \A k \in 1 .. Len(size) :
           s[k] = IF outSync[d] = FrameworkOutput
                  THEN IF k = FrameworkOutput THEN size[k] - 1 ELSE size[k]
                  ELSE IF k = outSync[d] THEN size[k] + 1 ELSE size[k]
  <2>1. FrameworkOutput \in 1 .. Len(size) /\ outSync[d] \in 1 .. Len(size)
    BY <1>2 DEF FrameworkOutput
  <2>2. Shared(ShareSize(size, outSync[d], FrameworkOutput), size, outSync[d], FrameworkOutput)
    BY <1>2, <2>1, Sharing
  <2> QED
    BY <2>2 DEF Shared
<1>4. size' = ShareSize(s, inSync[o], FrameworkInput)
  BY DEF CreateOpToOpEdge
<1>5. Ends(e, d, o)
  BY <1>1 DEF Ends
<1>6. /\ inSync' = Extend(Extend(inSync, e, x), o, y)
      /\ outSync' = Extend(Extend(outSync, d, x), e, y) /\ AddEdge(e, d, o)
  BY DEF CreateOpToOpEdge
<1>7. /\ OutMoves(d) <=> outSync[d] = FrameworkOutput
      /\ InMoves(o) <=> inSync[o] = FrameworkInput
      /\ x = IF outSync[d] = FrameworkOutput THEN Len(size) + 1 ELSE outSync[d]
      /\ y = IF inSync[o] = FrameworkInput THEN Len(s) + 1 ELSE inSync[o]
  BY DEF InMoves, OutMoves, ShareBarrier
<1> HIDE DEF s, x, y
<1>8. Len(s) \in Nat /\ Len(s) >= 2 /\ inSync[o] \in 1 .. Len(s) /\ Len(s) >= Len(size)
  BY <1>2, <1>3, SMTT(30)
<1>9. /\ size' \in Seq(Int)
      /\ Len(size') = IF inSync[o] = FrameworkInput THEN Len(s) + 1 ELSE Len(s)
      /\ inSync[o] = FrameworkInput => size'[Len(s) + 1] = 2
      /\ \A k \in 1 .. Len(s) :
           size'[k] = IF inSync[o] = FrameworkInput
                      THEN IF k = FrameworkInput THEN s[k] - 1 ELSE s[k]
                      ELSE IF k = inSync[o] THEN s[k] + 1 ELSE s[k]
  <2>1. FrameworkInput \in 1 .. Len(s)
    BY <1>8 DEF FrameworkInput
  <2>2. Shared(ShareSize(s, inSync[o], FrameworkInput), s, inSync[o], FrameworkInput)
    BY <1>3, <1>8, <2>1, Sharing
  <2> QED
    BY <1>4, <2>2, <1>3 DEF Shared
<1>10. /\ DOMAIN inSync = Threads /\ DOMAIN outSync = Threads /\ o \in Threads /\ d \in Threads
       /\ o # e /\ d # e /\ e \notin Threads
  BY <1>1, BuilderAssumption DEF Types, Threads
<1>11. inSync' = [t \in Threads \cup {e} |->
                   IF t = e THEN x ELSE IF t = o /\ t # Host THEN y ELSE inSync[t]]
  BY <1>1, <1>6, <1>10 DEF Extend
<1>12. outSync' = [t \in Threads \cup {e} |->
                    IF t = e THEN y ELSE IF t = d /\ t # Host THEN x ELSE outSync[t]]
  BY <1>1, <1>6, <1>10 DEF Extend
<1>13. inSync[o] # outSync[d] /\ inSync[o] # FrameworkOutput /\ outSync[d] # FrameworkInput
  BY <1>1 DEF Wiring
<1>14. ASSUME NEW k \in 1 .. Len(size)
       PROVE  size'[k] = size[k] + (IF k \in {x, y} THEN 1 ELSE 0)
                    - (IF (k = FrameworkOutput /\ OutMoves(d)) \/ (k = FrameworkInput /\ InMoves(o))
                       THEN 1 ELSE 0)
  <2>1. /\ size[k] \in Int /\ k # Len(size) + 1 /\ k # Len(s) + 1 /\ k \in 1 .. Len(s)
        /\ FrameworkInput # FrameworkOutput
    BY <1>2, <1>8 DEF FrameworkInput, FrameworkOutput
  <2>2. s[k] = IF outSync[d] = FrameworkOutput
               THEN IF k = FrameworkOutput THEN size[k] - 1 ELSE size[k]
               ELSE IF k = outSync[d] THEN size[k] + 1 ELSE size[k]
    BY <1>3
  <2>3. size'[k] = IF inSync[o] = FrameworkInput
                   THEN IF k = FrameworkInput THEN s[k] - 1 ELSE s[k]
                   ELSE IF k = inSync[o] THEN s[k] + 1 ELSE s[k]
    BY <1>9, <2>1
  <2>4. CASE outSync[d] = FrameworkOutput
    <3>1. OutMoves(d) /\ k # x
      BY <1>7, <2>1, <2>4
    <3>2. s[k] = IF k = FrameworkOutput THEN size[k] - 1 ELSE size[k]
      BY <2>2, <2>4
    <3> QED
      <4>1. CASE inSync[o] = FrameworkInput
        BY <1>7, <2>1, <2>3, <3>1, <3>2, <4>1
      <4>2. CASE inSync[o] # FrameworkInput
        BY <1>7, <1>13, <2>1, <2>3, <3>1, <3>2, <4>2
      <4> QED
        BY <4>1, <4>2
  <2>5. CASE outSync[d] # FrameworkOutput
    <3>1. ~OutMoves(d) /\ x = outSync[d]
      BY <1>7, <2>5
    <3>2. s[k] = IF k = x THEN size[k] + 1 ELSE size[k]
      BY <2>2, <2>5, <3>1
    <3> QED
      <4>1. CASE inSync[o] = FrameworkInput
        BY <1>7, <1>13, <2>1, <2>3, <3>1, <3>2, <4>1
      <4>2. CASE inSync[o] # FrameworkInput
        BY <1>7, <1>13, <2>1, <2>3, <3>1, <3>2, <4>2
      <4> QED
        BY <4>1, <4>2
  <2> QED
    BY <2>4, <2>5
<1>15. ASSUME NEW k \in Len(size) + 1 .. Len(size')
       PROVE  size'[k] = 2 /\ ((OutMoves(d) /\ k = x) \/ (InMoves(o) /\ k = y))
  <2>1. CASE k = Len(s) + 1
    <3>1. inSync[o] = FrameworkInput
      BY <1>8, <1>9, <2>1
    <3> QED
      BY <1>7, <1>9, <2>1, <3>1
  <2>2. CASE k # Len(s) + 1
    <3>0. /\ Len(size) \in Nat /\ Len(s) \in Nat
          /\ Len(size') = Len(s) \/ Len(size') = Len(s) + 1
          /\ Len(s) = Len(size) \/ (Len(s) = Len(size) + 1 /\ outSync[d] = FrameworkOutput)
      <4>1. Len(size) \in Nat /\ Len(s) \in Nat
        BY <1>2, <1>8
      <4>2. Len(size') = Len(s) \/ Len(size') = Len(s) + 1
        BY <1>9
      <4>3. Len(s) = Len(size) \/ (Len(s) = Len(size) + 1 /\ outSync[d] = FrameworkOutput)
        BY <1>3
      <4> QED
        BY <4>1, <4>2, <4>3
    <3>1. k \in 1 .. Len(s) /\ k = Len(size) + 1 /\ outSync[d] = FrameworkOutput
      BY <2>2, <3>0
    <3>2. k # FrameworkInput /\ k # inSync[o]
      BY <1>2, <3>1 DEF FrameworkInput
    <3>3. size'[k] = s[k] /\ s[k] = 2
      BY <1>3, <1>9, <3>1, <3>2
    <3> QED
      BY <1>7, <3>1, <3>3
  <2> QED
    BY <2>1, <2>2
<1>16. /\ Len(size') >= Len(size)
       /\ OutMoves(d) => x \in Len(size) + 1 .. Len(size')
       /\ InMoves(o) => y \in Len(size) + 1 .. Len(size')
       /\ OutMoves(d) /\ InMoves(o) => x # y
  <2>1. Len(size) \in Nat /\ Len(size') \in Nat /\ Len(size') >= Len(s)
    BY <1>2, <1>8, <1>9
  <2>2. OutMoves(d) => x = Len(size) + 1 /\ Len(s) = Len(size) + 1
    BY <1>3, <1>7
  <2>3. InMoves(o) => y = Len(s) + 1 /\ Len(size') = Len(s) + 1
    BY <1>7, <1>9
  <2> QED
    BY <1>8, <2>1, <2>2, <2>3
<1>17. NewEdge(e, d, o, x, y)
  BY <1>1, <1>6, <1>7, <1>9, <1>11, <1>12, <1>14, <1>15, <1>16 DEF NewEdge
<1> QED
  BY <1>5, <1>17, EdgeAdded
------------------------------------------------------------------------------
(* The calls. *)

LEMMA Initially == Init => IInv
<1>1. SUFFICES ASSUME Init PROVE IInv
  OBVIOUS
<1>2. Cardinality(threadless) = 0 /\ NotCreated = 0
  BY <1>1, FS_EmptySet DEF Init, NotCreated
<1>3. Threads = {Host} /\ edges = {} /\ ops = {}
  BY <1>1 DEF Init, Threads
<1>4. size = <<1, 1>> /\ size \in Seq(Int) /\ Len(size) = 2 /\ size[1] = 1 /\ size[2] = 1
  BY <1>1 DEF Init
<1>5. inSync[Host] = 1 /\ outSync[Host] = 2
  BY <1>1 DEF Init, FrameworkInput, FrameworkOutput
<1>6. Types
  <2>1. inSync \in [Threads -> 1 .. Len(size)] /\ outSync \in [Threads -> 1 .. Len(size)]
    BY <1>1, <1>3, <1>4 DEF Init, FrameworkInput, FrameworkOutput
  <2>2. 0 \in 0 .. MaxFailures
    BY BuilderAssumption
  <2>3. dev \in [{} -> Devices] /\ src \in [{} -> {} \cup {Host}] /\ dst \in [{} -> {} \cup {Host}]
    BY <1>1 DEF Init
  <2> QED
    BY <1>1, <1>2, <1>3, <1>4, <2>1, <2>2, <2>3 DEF Init, Types
<1>7. Wiring
  BY <1>3, <1>5 DEF Wiring, FrameworkInput, FrameworkOutput
<1>8. SizesCountThreads
  <2>1. At(1) = {Host} /\ At(2) = {Host}
    BY <1>3, <1>5 DEF At
  <2>2. Cardinality({Host}) = 1
    BY FS_Singleton
  <2>3. \A b \in 1 .. Len(size) : size[b] = Cardinality(At(b)) + Missing(b)
    <3>1. \A b \in 1 .. Len(size) : b = 1 \/ b = 2
      BY <1>4
    <3>2. Missing(1) = 0 /\ Missing(2) = 0
      BY <1>2 DEF Missing
    <3> QED
      BY <1>4, <2>1, <2>2, <3>1, <3>2
  <2> QED
    BY <2>3, SizesSaid
<1> QED
  BY <1>6, <1>7, <1>8 DEF IInv

\* Both of the Framework's barriers are raised by one.
LEMMA BothRaised ==
  ASSUME Types, size' = [size EXCEPT ![FrameworkInput] = @ + 1, ![FrameworkOutput] = @ + 1]
  PROVE  /\ size' \in Seq(Int) /\ Len(size') = Len(size) /\ Len(size) \in Nat /\ Len(size) >= 2
         /\ \A k \in 1 .. Len(size) :
              /\ size[k] \in Int
              /\ size'[k] = IF k \in {FrameworkInput, FrameworkOutput} THEN size[k] + 1 ELSE size[k]
<1> DEFINE s == [size EXCEPT ![FrameworkInput] = @ + 1]
<1>1. /\ size \in Seq(Int) /\ Len(size) \in Nat /\ Len(size) >= 2
      /\ FrameworkInput \in 1 .. Len(size) /\ FrameworkOutput \in 1 .. Len(size)
      /\ FrameworkInput # FrameworkOutput
  BY DEF Types, FrameworkInput, FrameworkOutput
<1>2. size' = [s EXCEPT ![FrameworkOutput] = size[FrameworkOutput] + 1]
  OBVIOUS
<1>3. /\ s \in Seq(Int) /\ Len(s) = Len(size)
      /\ \A k \in 1 .. Len(size) : s[k] = IF k = FrameworkInput THEN size[k] + 1 ELSE size[k]
  BY <1>1, Raised
<1> HIDE DEF s
<1>4. size' = [s EXCEPT ![FrameworkOutput] = @ + 1] /\ FrameworkOutput \in 1 .. Len(s)
  BY <1>1, <1>2, <1>3
<1>5. /\ size' \in Seq(Int) /\ Len(size') = Len(s)
      /\ \A k \in 1 .. Len(s) : size'[k] = IF k = FrameworkOutput THEN s[k] + 1 ELSE s[k]
  <2>1. /\ [s EXCEPT ![FrameworkOutput] = @ + 1] \in Seq(Int)
        /\ Len([s EXCEPT ![FrameworkOutput] = @ + 1]) = Len(s)
        /\ \A k \in 1 .. Len(s) :
             [s EXCEPT ![FrameworkOutput] = @ + 1][k] = IF k = FrameworkOutput THEN s[k] + 1 ELSE s[k]
    BY <1>3, <1>4, Raised
  <2> QED
    BY <1>4, <2>1
<1>6. \A k \in 1 .. Len(size) : size[k] \in Int
  BY <1>1
<1> QED
  BY <1>1, <1>3, <1>5, <1>6

LEMMA CreateStep ==
  ASSUME IInv, NEW o \in Operations, NEW d \in Devices, CreateOperation(o, d)
  PROVE  IInv'
<1>1. /\ Types /\ Wiring /\ Host \notin ops /\ Host \notin edges /\ ops \cap edges = {}
      /\ \A b : IsFiniteSet(At(b)) /\ Cardinality(At(b)) \in Nat
      /\ NotCreated \in Nat
  BY Finiteness DEF IInv
<1>2. /\ o \notin ops /\ ops' = ops \cup {o}
      /\ UNCHANGED <<edges, src, dst, threadless, asked, failures>>
  BY DEF CreateOperation
<1>3. /\ size' \in Seq(Int) /\ Len(size') = Len(size) /\ Len(size) \in Nat /\ Len(size) >= 2
      /\ \A k \in 1 .. Len(size) :
           /\ size[k] \in Int
           /\ size'[k] = IF k \in {FrameworkInput, FrameworkOutput} THEN size[k] + 1 ELSE size[k]
  BY <1>1, BothRaised DEF CreateOperation
<1>4. o \notin Threads /\ Threads' = Threads \cup {o} /\ Threads = ops \cup edges \cup {Host}
  BY <1>1, <1>2, BuilderAssumption DEF Threads, Types
<1>5. /\ inSync' = [t \in Threads' |-> IF t = o THEN FrameworkInput ELSE inSync[t]]
      /\ outSync' = [t \in Threads' |-> IF t = o THEN FrameworkOutput ELSE outSync[t]]
      /\ dev' = [t \in ops' |-> IF t = o THEN d ELSE dev[t]]
  BY <1>1, <1>2, <1>4 DEF CreateOperation, Extend, Types
<1>6. NotCreated' = NotCreated
  BY <1>2 DEF NotCreated
<1>7. Types'
  <2>1. inSync' \in [Threads' -> 1 .. Len(size')] /\ outSync' \in [Threads' -> 1 .. Len(size')]
    BY <1>1, <1>3, <1>4, <1>5, SMTT(30) DEF Types, FrameworkInput, FrameworkOutput
  <2>2. dev' \in [ops' -> Devices] /\ ops' \subseteq Operations
    BY <1>1, <1>2, <1>5 DEF Types
  <2>3. src \in [edges -> ops' \cup {Host}] /\ dst \in [edges -> ops' \cup {Host}]
    BY <1>1, <1>2 DEF Types
  <2> QED
    BY <1>1, <1>2, <1>3, <1>6, <2>1, <2>2, <2>3 DEF Types
<1>8. Wiring'
  <2>1. /\ inSync'[o] = FrameworkInput /\ outSync'[o] = FrameworkOutput
        /\ \A t \in Threads : inSync'[t] = inSync[t] /\ outSync'[t] = outSync[t]
    BY <1>4, <1>5
  <2>2. \A f \in edges : /\ src[f] \in ops \cup {Host} /\ dst[f] \in ops \cup {Host}
                         /\ src[f] # o /\ dst[f] # o
    BY <1>1, <1>4 DEF Types
  <2>3. \A p \in ops' : (HasIn(p)' <=> HasIn(p)) /\ (HasOut(p)' <=> HasOut(p))
    BY <1>2 DEF HasIn, HasOut
  <2>4. ~HasIn(o) /\ ~HasOut(o)
    BY <2>2 DEF HasIn, HasOut
  <2>5. FrameworkInput # FrameworkOutput
    BY DEF FrameworkInput, FrameworkOutput
  <2>6. inSync'[Host] = FrameworkInput /\ outSync'[Host] = FrameworkOutput
    BY <1>1, <1>4, <2>1 DEF Wiring
  <2>7. ASSUME NEW f \in edges
        PROVE  /\ src[f] # Host \/ dst[f] # Host
               /\ inSync'[f] = IF src[f] = Host THEN FrameworkInput ELSE outSync'[src[f]]
               /\ outSync'[f] = IF dst[f] = Host THEN FrameworkOutput ELSE inSync'[dst[f]]
    BY <1>1, <1>4, <2>1, <2>2 DEF Wiring
  <2>8. ASSUME NEW p \in ops'
        PROVE  /\ inSync'[p] # FrameworkOutput /\ outSync'[p] # FrameworkInput
               /\ inSync'[p] = FrameworkInput <=> ~HasIn(p)'
               /\ outSync'[p] = FrameworkOutput <=> ~HasOut(p)'
    BY <1>1, <1>2, <1>4, <2>1, <2>3, <2>4, <2>5 DEF Wiring
  <2>9. ASSUME NEW p \in ops', NEW q \in ops'
        PROVE  /\ inSync'[p] = inSync'[q] => inSync'[p] = FrameworkInput \/ p = q
               /\ outSync'[p] = outSync'[q] => outSync'[p] = FrameworkOutput \/ p = q
               /\ inSync'[p] # outSync'[q]
    BY <1>1, <1>2, <1>4, <2>1, <2>5 DEF Wiring
  <2> QED
    BY <1>2, <2>6, <2>7, <2>8, <2>9 DEF Wiring
<1>9. SizesCountThreads'
  <2>1. \A b \in 1 .. Len(size) : size[b] = Cardinality(At(b)) + Missing(b)
    BY SizesSaid DEF IInv
  <2>2. ASSUME NEW b \in 1 .. Len(size)
        PROVE  size'[b] = Cardinality(At(b)') + Missing(b)'
    <3>1. At(b)' = IF b \in {FrameworkInput, FrameworkOutput} THEN At(b) \cup {o} ELSE At(b)
      BY <1>4, <1>5 DEF At
    <3>2. o \notin At(b) /\ IsFiniteSet(At(b)) /\ Cardinality(At(b)) \in Nat
      BY <1>1, <1>4 DEF At
    <3>3. Cardinality(At(b) \cup {o}) = Cardinality(At(b)) + 1
      BY <3>2, OneMore
    <3>4. Missing(b)' = Missing(b) /\ Missing(b) \in Nat
      BY <1>1, <1>6 DEF Missing
    <3> QED
      BY <1>3, <2>1, <3>1, <3>2, <3>3, <3>4
  <2> QED
    BY <1>3, <2>2 DEF SizesCountThreads, Waiters, At, Missing
<1> QED
  BY <1>7, <1>8, <1>9 DEF IInv

LEMMA FailsStep ==
  ASSUME IInv, CreateOperationFails
  PROVE  IInv'
<1>1. /\ Types /\ Wiring
      /\ \A b : IsFiniteSet(At(b)) /\ Cardinality(At(b)) \in Nat
      /\ NotCreated \in Nat /\ Cardinality(threadless) \in Nat
  BY Finiteness DEF IInv
<1>2. /\ failures < MaxFailures /\ failures' = failures + 1
      /\ UNCHANGED <<ops, edges, dev, src, dst, inSync, outSync, threadless, asked>>
  BY DEF CreateOperationFails
<1>3. /\ size' \in Seq(Int) /\ Len(size') = Len(size) /\ Len(size) \in Nat /\ Len(size) >= 2
      /\ \A k \in 1 .. Len(size) :
           /\ size[k] \in Int
           /\ size'[k] = IF k \in {FrameworkInput, FrameworkOutput} THEN size[k] + 1 ELSE size[k]
  BY <1>1, BothRaised DEF CreateOperationFails
<1>4. NotCreated' = NotCreated + 1 /\ failures' \in 0 .. MaxFailures
  BY <1>1, <1>2, BuilderAssumption DEF NotCreated, Types
<1>5. Threads' = Threads
  BY <1>2 DEF Threads
<1>6. Types'
  BY <1>1, <1>2, <1>3, <1>4, <1>5, SMTT(30) DEF Types
<1>7. Wiring'
  BY <1>1, <1>2 DEF Wiring, HasIn, HasOut
<1>8. SizesCountThreads'
  <2>1. \A b \in 1 .. Len(size) : size[b] = Cardinality(At(b)) + Missing(b)
    BY SizesSaid DEF IInv
  <2>2. ASSUME NEW b \in 1 .. Len(size)
        PROVE  size'[b] = Cardinality(At(b)') + Missing(b)'
    <3>1. At(b)' = At(b)
      BY <1>2, <1>5 DEF At
    <3>2. /\ Missing(b) = IF b \in {FrameworkInput, FrameworkOutput} THEN NotCreated ELSE 0
          /\ Missing(b)' = IF b \in {FrameworkInput, FrameworkOutput} THEN NotCreated + 1 ELSE 0
      BY <1>4 DEF Missing
    <3>3. Cardinality(At(b)) \in Nat /\ Cardinality(At(b)') = Cardinality(At(b))
      BY <1>1, <3>1
    <3> QED
      BY <1>1, <1>3, <2>1, <3>2, <3>3
  <2> QED
    BY <1>3, <2>2 DEF SizesCountThreads, Waiters, At, Missing
<1> QED
  BY <1>6, <1>7, <1>8 DEF IInv

LEMMA DependencyStep ==
  ASSUME IInv, NEW e \in EdgeIds, NEW d \in ops, NEW o \in ops,
         SetOperationArgDependency(e, d, o)
  PROVE  IInv'
<1>1. asked' \subseteq Operations \X Operations /\ e \notin edges /\ UNCHANGED <<ops, dev>>
  BY DEF SetOperationArgDependency, IInv, Types
<1>2. CASE CreateOpToOpEdge(e, d, o)
  BY <1>1, <1>2, OpToOpEdge
<1>3. CASE UNCHANGED <<edges, src, dst, inSync, outSync, size, threadless, failures>>
  BY <1>1, <1>3, SMTT(30)
  DEF IInv, Types, Wiring, SizesCountThreads, Waiters, NotCreated, HasIn, HasOut, Threads
<1> QED
  BY <1>2, <1>3 DEF SetOperationArgDependency

LEMMA Step == IInv /\ [Next]_vars => IInv'
<1>1. SUFFICES ASSUME IInv, [Next]_vars PROVE IInv'
  OBVIOUS
<1>2. ASSUME NEW e \in EdgeIds, NEW o \in ops, SetOperationArgInput(e, o) PROVE IInv'
  BY <1>1, <1>2, InputEdge DEF SetOperationArgInput, IInv, Types
<1>3. ASSUME NEW e \in EdgeIds, NEW o \in ops, SetOperationArgOutput(e, o) PROVE IInv'
  BY <1>1, <1>3, OutputEdge DEF SetOperationArgOutput, IInv, Types
<1>4. CASE UNCHANGED vars
  BY <1>1, <1>4
  DEF vars, IInv, Types, Wiring, SizesCountThreads, Waiters, NotCreated, HasIn, HasOut, Threads
<1> QED
  BY <1>1, <1>2, <1>3, <1>4, CreateStep, FailsStep, DependencyStep DEF Next
------------------------------------------------------------------------------
(* The theorems. *)

\* The inductive invariant holds after any calls of CreateOperation and SetArg...,
\* in any order and whichever of them fail (Framework.cpp:480-819).
THEOREM Invariance == Spec => []IInv
<1>1. IInv /\ [Next]_vars => IInv'
  BY Step
<1> QED
  BY Initially, <1>1, PTL DEF Spec

\* The variables of GraphBuilder keep their types; no barrier's size is ever negative,
\* although Remove does not look (Synchronization.cpp:41).
THEOREM TypeCorrect == Spec => []TypeOK
<1>1. ASSUME IInv PROVE TypeOK
  <2>1. Types /\ Len(size) \in Nat /\ size \in Seq(Int)
    BY <1>1 DEF IInv, Types
  <2>2. \A b \in 1 .. Len(size) : size[b] \in Nat
    <3>1. \A b \in 1 .. Len(size) : size[b] = Cardinality(At(b)) + Missing(b)
      BY <1>1, SizesSaid DEF IInv
    <3>2. \A b : Cardinality(At(b)) \in Nat /\ Missing(b) \in Nat
      BY <2>1, Finiteness DEF Missing
    <3> QED
      BY <3>1, <3>2
  <2>3. size \in Seq(Nat)
    <3>1. size \in [1 .. Len(size) -> Nat]
      BY <2>1, <2>2
    <3> QED
      BY <2>1, <3>1, SeqDef
  <2> QED
    BY <2>1, <2>3 DEF Types, TypeOK
<1> QED
  BY <1>1, Invariance, PTL

\* Each barrier counts the threads that will wait at it, and the Framework's two the
\* operations that could not be created (Framework.cpp:480-647).
THEOREM SizesAreRight == Spec => []SizesCountThreads
<1>1. IInv => SizesCountThreads
  BY DEF IInv
<1> QED
  BY <1>1, Invariance, PTL

\* Whatever the order of the calls, the barriers are wired as those of FlowGraph.
THEOREM TheWiringIsFlowGraphs == Spec => []WiredAsFlowGraph
<1>1. ASSUME IInv PROVE WiredAsFlowGraph
  <2> DEFINE in == FG!InputSync
             out == FG!OutputSync
             Number(p) == IF p = <<"in", Host>> THEN FrameworkInput
                          ELSE IF p = <<"out", Host>> THEN FrameworkOutput
                          ELSE IF p[1] = "in" THEN inSync[p[2]] ELSE outSync[p[2]]
             Used == {<<"in", Host>>, <<"out", Host>>}
                     \cup {<<"in", o>> : o \in {p \in ops : HasIn(p)}}
                     \cup {<<"out", o>> : o \in {p \in ops : HasOut(p)}}
  <2>1. Types /\ Wiring /\ Host \notin ops /\ Host \notin edges /\ ops \cap edges = {}
    BY <1>1, Finiteness DEF IInv
  <2>2. \A o \in ops : /\ {e \in edges : dst[e] = o} = {} <=> ~HasIn(o)
                       /\ {e \in edges : src[e] = o} = {} <=> ~HasOut(o)
    BY DEF HasIn, HasOut
  <2>3. in = [t \in Threads |->
                IF t \in ops THEN IF {e \in edges : dst[e] = t} = {} THEN <<"in", Host>> ELSE <<"in", t>>
                ELSE IF t = Host \/ src[t] = Host THEN <<"in", Host>>
                ELSE <<"out", src[t]>>]
    BY DEF FG!InputSync, FG!InEdges, FG!FrameworkInput, FG!Threads, FG!Workers, Threads
  <2>4. out = [t \in Threads |->
                 IF t \in ops THEN IF {e \in edges : src[e] = t} = {} THEN <<"out", Host>> ELSE <<"out", t>>
                 ELSE IF t = Host \/ dst[t] = Host THEN <<"out", Host>>
                 ELSE <<"in", dst[t]>>]
    BY DEF FG!OutputSync, FG!OutEdges, FG!FrameworkOutput, FG!Threads, FG!Workers, Threads
  <2> HIDE DEF in, out
  <2>5. ASSUME NEW t \in Threads
        PROVE  /\ in[t] \in Used /\ inSync[t] = Number(in[t])
               /\ out[t] \in Used /\ outSync[t] = Number(out[t])
    <3>1. CASE t \in ops
      <4>1. /\ in[t] = IF HasIn(t) THEN <<"in", t>> ELSE <<"in", Host>>
            /\ out[t] = IF HasOut(t) THEN <<"out", t>> ELSE <<"out", Host>>
        BY <2>2, <2>3, <2>4, <3>1
      <4>2. t # Host
        BY <2>1, <3>1
      <4> QED
        BY <2>1, <3>1, <4>1, <4>2 DEF Wiring
    <3>2. CASE t = Host
      BY <2>1, <2>3, <2>4, <3>2 DEF Wiring
    <3>3. CASE t \in edges
      <4>1. /\ in[t] = IF src[t] = Host THEN <<"in", Host>> ELSE <<"out", src[t]>>
            /\ out[t] = IF dst[t] = Host THEN <<"out", Host>> ELSE <<"in", dst[t]>>
        BY <2>1, <2>3, <2>4, <3>3
      <4>2. /\ src[t] # Host => src[t] \in ops /\ HasOut(src[t])
            /\ dst[t] # Host => dst[t] \in ops /\ HasIn(dst[t])
        BY <2>1, <3>3 DEF Types, HasOut, HasIn
      <4>3. /\ inSync[t] = IF src[t] = Host THEN FrameworkInput ELSE outSync[src[t]]
            /\ outSync[t] = IF dst[t] = Host THEN FrameworkOutput ELSE inSync[dst[t]]
        BY <2>1, <3>3 DEF Wiring
      <4> QED
        BY <4>1, <4>2, <4>3
    <3> QED
      BY <3>1, <3>2, <3>3 DEF Threads
  <2>6. ASSUME NEW p \in Used, NEW q \in Used, Number(p) = Number(q)
        PROVE  p = q
    <3>1. FrameworkInput # FrameworkOutput
      BY DEF FrameworkInput, FrameworkOutput
    <3>2. ASSUME NEW o \in ops, HasIn(o), NEW r \in Used, Number(r) = inSync[o]
          PROVE  r = <<"in", o>>
      BY <2>1, <3>1, <3>2 DEF Wiring
    <3>3. ASSUME NEW o \in ops, HasOut(o), NEW r \in Used, Number(r) = outSync[o]
          PROVE  r = <<"out", o>>
      BY <2>1, <3>1, <3>3 DEF Wiring
    <3>4. CASE p \in {<<"in", Host>>, <<"out", Host>>} /\ q \in {<<"in", Host>>, <<"out", Host>>}
      BY <2>6, <3>1, <3>4
    <3>5. CASE \E o \in ops : HasIn(o) /\ (p = <<"in", o>> \/ q = <<"in", o>>)
      BY <2>1, <2>6, <3>2, <3>5
    <3>6. CASE \E o \in ops : HasOut(o) /\ (p = <<"out", o>> \/ q = <<"out", o>>)
      BY <2>1, <2>6, <3>3, <3>6
    <3> QED
      BY <3>4, <3>5, <3>6
  <2> HIDE DEF Number, Used
  <2>7. \A t, u \in Threads :
          /\ inSync[t] = inSync[u] <=> in[t] = in[u]
          /\ outSync[t] = outSync[u] <=> out[t] = out[u]
          /\ inSync[t] = outSync[u] <=> in[t] = out[u]
    BY <2>5, <2>6
  <2> QED
    BY <2>7 DEF WiredAsFlowGraph, in, out
<1> QED
  BY <1>1, Invariance, PTL

------------------------------------------------------------------------------
(* FlowSystem: the graph is run between the calls that build it. *)

Live == Workers \cup {Host}

RunTypes ==
  /\ pc \in [Live -> WorkerPlaces \cup HostPlaces]
  /\ pc[Host] \in HostPlaces /\ \A t \in Workers : pc[t] \in WorkerPlaces
  /\ at \in [Live -> Nat] /\ count \in [DOMAIN size -> Nat] /\ work \in [Workers -> Nat]
  /\ execute \in BOOLEAN /\ late \in BOOLEAN /\ runs \in Nat

\* Who is there, and where.
LEMMA Places ==
  ASSUME IInv
  PROVE  /\ Host \in Threads /\ Host \notin ops \cup edges /\ Host \notin Workers
         /\ Host \notin threadless /\ threadless \subseteq edges /\ ops \subseteq Workers
         /\ Workers \subseteq Threads /\ \A t \in Workers : t \notin threadless
         /\ Threads = Live \cup threadless
         /\ src \in [edges -> ops \cup {Host}] /\ dst \in [edges -> ops \cup {Host}]
         /\ DOMAIN size = 1 .. Len(size) /\ Len(size) \in Nat /\ Len(size) >= 2
         /\ \A t \in Threads : inSync[t] \in DOMAIN size /\ outSync[t] \in DOMAIN size
         /\ \A t \in Threads : inSync[t] \in Nat \ {0} /\ outSync[t] \in Nat \ {0}
         /\ \A b \in DOMAIN size : b \in Nat /\ b # 0
<1>1. Types /\ Host \notin ops /\ Host \notin edges /\ ops \cap edges = {}
  BY Finiteness DEF IInv
<1>2. DOMAIN size = 1 .. Len(size) /\ Len(size) \in Nat /\ Len(size) >= 2
  BY <1>1 DEF Types
<1>3. \A t \in Threads : inSync[t] \in 1 .. Len(size) /\ outSync[t] \in 1 .. Len(size)
  BY <1>1 DEF Types
<1>4. /\ threadless \subseteq edges /\ ops \subseteq Operations
      /\ src \in [edges -> ops \cup {Host}] /\ dst \in [edges -> ops \cup {Host}]
  BY <1>1 DEF Types
<1>5. /\ Host \in Threads /\ Host \notin ops \cup edges /\ Host \notin Workers
      /\ Host \notin threadless /\ ops \subseteq Workers
      /\ Workers \subseteq Threads /\ \A t \in Workers : t \notin threadless
      /\ Threads = Live \cup threadless
  BY <1>1, <1>4 DEF Threads, Workers, Live
<1>6. /\ \A t \in Threads : inSync[t] \in DOMAIN size /\ outSync[t] \in DOMAIN size
      /\ \A t \in Threads : inSync[t] \in Nat \ {0} /\ outSync[t] \in Nat \ {0}
      /\ \A b \in DOMAIN size : b \in Nat /\ b # 0
  BY <1>2, <1>3
<1> QED
  BY <1>2, <1>4, <1>5, <1>6

\* The two ends of a thread are at different barriers.
LEMMA TwoEnds ==
  ASSUME IInv, NEW t \in Threads
  PROVE  inSync[t] # outSync[t]
<1>1. Wiring /\ Types /\ FrameworkInput # FrameworkOutput
  BY DEF IInv, FrameworkInput, FrameworkOutput
<1>2. CASE t = Host
  BY <1>1, <1>2 DEF Wiring
<1>3. CASE t \in ops
  BY <1>1, <1>3 DEF Wiring
<1>4. CASE t \in edges
  <2>1. src[t] \in ops \cup {Host} /\ dst[t] \in ops \cup {Host} /\ (src[t] # Host \/ dst[t] # Host)
    BY <1>1, <1>4 DEF Wiring, Types
  <2>2. src[t] # Host => inSync[t] = outSync[src[t]] /\ inSync[t] # FrameworkOutput
    BY <1>1, <1>4, <2>1 DEF Wiring, HasOut
  <2>3. dst[t] # Host => outSync[t] = inSync[dst[t]] /\ outSync[t] # FrameworkInput
    BY <1>1, <1>4, <2>1 DEF Wiring, HasIn
  <2>4. src[t] = Host => inSync[t] = FrameworkInput
    BY <1>1, <1>4 DEF Wiring
  <2>5. dst[t] = Host => outSync[t] = FrameworkOutput
    BY <1>1, <1>4 DEF Wiring
  <2>6. src[t] # Host /\ dst[t] # Host => outSync[src[t]] # inSync[dst[t]]
    BY <1>1, <2>1 DEF Wiring
  <2> QED
    BY <2>1, <2>2, <2>3, <2>4, <2>5, <2>6
<1> QED
  BY <1>2, <1>3, <1>4 DEF Threads

\* A call that changes no size changes no wiring: one that does anything else to the
\* graph adds to the Framework's barriers, or makes a new one.
LEMMA SizesTell ==
  ASSUME IInv, Next, size' = size
  PROVE  UNCHANGED <<ops, edges, dev, src, dst, inSync, outSync, threadless, failures>>
<1>1. /\ Types /\ size \in Seq(Int) /\ Len(size) \in Nat /\ Len(size) >= 2
      /\ FrameworkInput \in 1 .. Len(size) /\ FrameworkOutput \in 1 .. Len(size)
      /\ \A k \in 1 .. Len(size) : size[k] \in Int
  BY DEF IInv, Types, FrameworkInput, FrameworkOutput
<1>2. ASSUME size' = [size EXCEPT ![FrameworkInput] = @ + 1, ![FrameworkOutput] = @ + 1]
      PROVE  FALSE
  <2>1. size'[FrameworkInput] = size[FrameworkInput] + 1
    BY <1>1, <1>2, BothRaised
  <2> QED
    BY <1>1, <2>1
<1>3. ASSUME NEW f \in 1 .. Len(size), NEW b \in 1 .. Len(size),
             size' = ShareSize([size EXCEPT ![f] = @ + 1], b, f)
      PROVE  FALSE
  <2> DEFINE s == [size EXCEPT ![f] = @ + 1]
  <2>1. s \in Seq(Int) /\ Len(s) = Len(size) /\ s[f] = size[f] + 1
    BY <1>1
  <2>2. Shared(size', s, b, f)
    BY <1>3, <2>1, Sharing
  <2>3. CASE b = f
    BY <1>1, <2>1, <2>2, <2>3 DEF Shared
  <2>4. CASE b # f
    <3>1. size'[f] = s[f]
      BY <2>1, <2>2, <2>4 DEF Shared
    <3> QED
      BY <1>1, <2>1, <3>1
  <2> QED
    BY <2>3, <2>4
<1>4. \A o \in ops : inSync[o] \in 1 .. Len(size) /\ outSync[o] \in 1 .. Len(size)
  BY <1>1 DEF Types, Threads
<1>5. ASSUME NEW e, NEW d \in ops, NEW o \in ops, CreateOpToOpEdge(e, d, o)
      PROVE  FALSE
  <2> DEFINE s == ShareSize(size, outSync[d], FrameworkOutput)
  <2>1. Shared(s, size, outSync[d], FrameworkOutput)
    BY <1>1, <1>4, Sharing
  <2>2. /\ s \in Seq(Int) /\ Len(s) \in Nat /\ Len(s) >= Len(size)
        /\ FrameworkInput \in 1 .. Len(s) /\ inSync[o] \in 1 .. Len(s)
    <3>1. s \in Seq(Int) /\ Len(s) \in {Len(size), Len(size) + 1}
      BY <2>1 DEF Shared
    <3>2. inSync[o] \in 1 .. Len(size)
      BY <1>4
    <3> HIDE DEF s
    <3>3. Len(s) \in Nat /\ Len(s) >= Len(size)
      BY <1>1, <3>1
    <3>4. \A k \in 1 .. Len(size) : k \in 1 .. Len(s)
      BY <1>1, <3>3
    <3> QED
      BY <1>1, <3>1, <3>2, <3>3, <3>4
  <2>3. size' = ShareSize(s, inSync[o], FrameworkInput)
    BY <1>5 DEF CreateOpToOpEdge
  <2>4. Shared(size', s, inSync[o], FrameworkInput)
    BY <2>2, <2>3, Sharing
  <2>5. Len(size') = Len(size) => outSync[d] # FrameworkOutput /\ inSync[o] # FrameworkInput
    BY <1>1, <2>1, <2>2, <2>4, SMTT(30) DEF Shared
  <2>6. inSync[o] # outSync[d]
    BY DEF IInv, Wiring
  <2>7. ASSUME outSync[d] # FrameworkOutput, inSync[o] # FrameworkInput
        PROVE  size'[inSync[o]] = size[inSync[o]] + 1
    <3>1. s[inSync[o]] = size[inSync[o]]
      BY <1>4, <2>1, <2>6, <2>7 DEF Shared
    <3> QED
      BY <2>2, <2>4, <2>7, <3>1 DEF Shared
  <2>8. outSync[d] # FrameworkOutput /\ inSync[o] # FrameworkInput
    BY <1>1, <2>5
  <2>9. size[inSync[o]] \in Int
    BY <1>1, <1>4
  <2> QED
    BY <2>7, <2>8, <2>9
<1>6. ASSUME NEW e \in EdgeIds, NEW o \in ops, SetOperationArgInput(e, o) PROVE FALSE
  BY <1>1, <1>3, <1>4, <1>6 DEF SetOperationArgInput, CreateInputEdge
<1>7. ASSUME NEW e \in EdgeIds, NEW o \in ops, SetOperationArgOutput(e, o) PROVE FALSE
  BY <1>1, <1>3, <1>4, <1>7 DEF SetOperationArgOutput, CreateOutputEdge
<1>8. ASSUME NEW e \in EdgeIds, NEW d \in ops, NEW o \in ops, SetOperationArgDependency(e, d, o)
      PROVE  UNCHANGED <<ops, edges, dev, src, dst, inSync, outSync, threadless, failures>>
  BY <1>5, <1>8 DEF SetOperationArgDependency
<1>9. ASSUME NEW o \in Operations, NEW d \in Devices, CreateOperation(o, d) PROVE FALSE
  BY <1>2, <1>9 DEF CreateOperation
<1>10. ~CreateOperationFails
  BY <1>2 DEF CreateOperationFails
<1> QED
  BY <1>6, <1>7, <1>8, <1>9, <1>10 DEF Next

\* The steps of the threads and of Run leave the graph alone.
LEMMA GraphStaysOrGrows ==
  ASSUME [SystemNext]_systemVars
  PROVE  [Next]_vars
BY DEF SystemNext, systemVars, Build, Run, Destroy, SignalExit, Join, EarlyArrival, LastArrival,
   TestLoop, TestAgain, FinishWork

\* What GraphBuilder keeps is kept while the graph is run.
LEMMA SystemBuilds == SystemSpec => []IInv
<1>1. SystemInit => IInv
  BY Initially DEF SystemInit
<1>2. IInv /\ [SystemNext]_systemVars => IInv'
  BY GraphStaysOrGrows, Step
<1> QED
  BY <1>1, <1>2, PTL DEF SystemSpec

\* SystemInv with its types, in two: the host and the calls, and a graph that runs.
Calls == RunTypes /\ BeforeRuns /\ HostPlaced /\ AskedIsConnected
Steady == runs > 0 /\ ~late => Settled

\* A call that builds adds to what there is.
LEMMA GraphGrows ==
  ASSUME IInv, Next
  PROVE  /\ ops \subseteq ops' /\ edges \subseteq edges'
         /\ \A e \in edges : /\ src'[e] = src[e] /\ dst'[e] = dst[e]
                             /\ e \notin threadless => e \notin threadless'
         /\ \A o \in ops : dev'[o] = dev[o]
<1>1. Types
  BY DEF IInv
<1>2. ASSUME NEW e, e \notin edges, NEW from, NEW to, AddEdge(e, from, to)
      PROVE  /\ edges \subseteq edges'
             /\ \A f \in edges : /\ src'[f] = src[f] /\ dst'[f] = dst[f]
                                 /\ f \notin threadless => f \notin threadless'
  BY <1>1, <1>2 DEF AddEdge, Extend, Types
<1>3. ASSUME NEW e, e \notin edges, NEW o,
             CreateInputEdge(e, o) \/ CreateOutputEdge(e, o)
               \/ \E d : CreateOpToOpEdge(e, d, o)
      PROVE  /\ edges \subseteq edges'
             /\ \A f \in edges : /\ src'[f] = src[f] /\ dst'[f] = dst[f]
                                 /\ f \notin threadless => f \notin threadless'
  BY <1>2, <1>3 DEF CreateInputEdge, CreateOutputEdge, CreateOpToOpEdge
<1>4. ASSUME NEW o \in Operations, NEW d \in Devices, CreateOperation(o, d)
      PROVE  /\ ops \subseteq ops' /\ UNCHANGED <<edges, src, dst, threadless>>
             /\ \A p \in ops : dev'[p] = dev[p]
  BY <1>1, <1>4 DEF CreateOperation, Extend, Types
<1>5. CASE CreateOperationFails
  BY <1>5 DEF CreateOperationFails
<1>6. ASSUME NEW e \in EdgeIds, NEW o \in ops,
             SetOperationArgInput(e, o) \/ SetOperationArgOutput(e, o)
               \/ \E d \in ops : SetOperationArgDependency(e, d, o)
      PROVE  /\ edges \subseteq edges' /\ UNCHANGED <<ops, dev>>
             /\ \A f \in edges : /\ src'[f] = src[f] /\ dst'[f] = dst[f]
                                 /\ f \notin threadless => f \notin threadless'
  BY <1>3, <1>6 DEF SetOperationArgInput, SetOperationArgOutput, SetOperationArgDependency
<1> QED
  BY <1>4, <1>5, <1>6 DEF Next

\* What is asked for is connected when the call is over.
LEMMA Connecting ==
  ASSUME IInv, Next, AskedIsConnected
  PROVE  AskedIsConnected'
<1>1. /\ ops \subseteq ops' /\ edges \subseteq edges'
      /\ \A e \in edges : /\ src'[e] = src[e] /\ dst'[e] = dst[e]
                          /\ e \notin threadless => e \notin threadless'
      /\ \A o \in ops : dev'[o] = dev[o]
  BY GraphGrows
<1>2. asked \subseteq ops' \X ops'
  BY <1>1 DEF AskedIsConnected
<1>3. ASSUME NEW d \in ops', NEW o \in ops', <<d, o>> \in asked
      PROVE  \/ \E e \in edges' \ threadless' : src'[e] = d /\ dst'[e] = o
             \/ OnTwoCPUs(d, o)'
  <2>1. d \in ops /\ o \in ops
    BY <1>3 DEF AskedIsConnected
  <2>2. CASE \E e \in edges \ threadless : src[e] = d /\ dst[e] = o
    BY <1>1, <2>2
  <2>3. CASE OnTwoCPUs(d, o)
    BY <1>1, <2>1, <2>3 DEF OnTwoCPUs
  <2> QED
    BY <1>3, <2>1, <2>2, <2>3 DEF AskedIsConnected
<1>4. CASE asked' = asked
  BY <1>2, <1>3, <1>4 DEF AskedIsConnected
<1>5. ASSUME NEW e \in EdgeIds, NEW d \in ops, NEW o \in ops,
             SetOperationArgDependency(e, d, o), asked' # asked
      PROVE  AskedIsConnected'
  <2>1. asked' = asked \cup {<<d, o>>} /\ threadless' = threadless /\ e \notin edges
        /\ UNCHANGED <<ops, dev>>
    BY <1>5 DEF SetOperationArgDependency
  <2>2. \/ \E f \in edges' \ threadless' : src'[f] = d /\ dst'[f] = o
        \/ OnTwoCPUs(d, o)'
    <3>1. CASE CreateOpToOpEdge(e, d, o)
      <4>1. /\ e \in edges' /\ e \notin threadless'
            /\ src'[e] = d /\ dst'[e] = o
        BY <2>1, <3>1 DEF CreateOpToOpEdge, AddEdge, Extend, IInv, Types
      <4> QED
        BY <4>1
    <3>2. CASE ~Connects(d, o) /\ {dev[d], dev[o]} \subseteq CPUs
      BY <2>1, <3>2 DEF Connects, OnTwoCPUs
    <3> QED
      BY <1>5, <3>1, <3>2 DEF SetOperationArgDependency
  <2> QED
    BY <1>2, <1>3, <2>1, <2>2 DEF AskedIsConnected
<1> QED
  BY <1>4, <1>5 DEF Next, CreateOperation, CreateOperationFails, SetOperationArgInput,
     SetOperationArgOutput

------------------------------------------------------------------------------
(* What the phases of the threads say about the graph. *)

\* The host and whoever has no edge on a side are in phase; so are both ends of an
\* edge with the operations they are at.
LEMMA Phases ==
  ASSUME IInv, Calls, InPhase
  PROVE  /\ \A t \in Threads : /\ Ins(t) \in Int /\ Outs(t) \in Int
                               /\ Ins(t) \in {Outs(t), Outs(t) + 1}
         /\ \A e \in edges : /\ src[e] \in ops \cup {Host} /\ dst[e] \in ops \cup {Host}
                             /\ IF src[e] = Host THEN Ins(e) = Ins(Host) ELSE Ins(e) = Outs(src[e])
                             /\ IF dst[e] = Host THEN Outs(e) = Outs(Host) ELSE Outs(e) = Ins(dst[e])
         /\ \A o \in ops : ~HasIn(o) => Ins(o) = Ins(Host)
         /\ \A o \in ops : ~HasOut(o) => Outs(o) = Outs(Host)
<1>1. /\ Wiring /\ Types /\ Host \in Threads /\ ops \subseteq Threads /\ edges \subseteq Threads
  BY DEF IInv, Threads
<1>2. ASSUME NEW t \in Threads, NEW u \in Threads
      PROVE  /\ inSync[t] = inSync[u] => Ins(t) = Ins(u)
             /\ outSync[t] = outSync[u] => Outs(t) = Outs(u)
             /\ inSync[t] = outSync[u] => Ins(t) = Outs(u)
  <2>1. /\ inSync[t] \in DOMAIN size /\ outSync[t] \in DOMAIN size
        /\ inSync[t] # outSync[t] /\ inSync[u] # outSync[u]
    BY TwoEnds, Places
  <2>2. /\ t \in At(inSync[t]) /\ t \in At(outSync[t])
        /\ inSync[t] = inSync[u] => u \in At(inSync[t])
        /\ outSync[t] = outSync[u] => u \in At(outSync[t])
        /\ inSync[t] = outSync[u] => u \in At(inSync[t])
    BY DEF At
  <2>3. /\ u \in At(inSync[t]) => Passes(t, inSync[t]) = Passes(u, inSync[t])
        /\ u \in At(outSync[t]) => Passes(t, outSync[t]) = Passes(u, outSync[t])
    BY <2>1, <2>2 DEF InPhase
  <2>4. Passes(t, inSync[t]) = Ins(t) /\ Passes(t, outSync[t]) = Outs(t)
    BY <2>1 DEF Passes
  <2>5. /\ inSync[t] = inSync[u] => Passes(u, inSync[t]) = Ins(u)
        /\ outSync[t] = outSync[u] => Passes(u, outSync[t]) = Outs(u)
        /\ inSync[t] = outSync[u] => Passes(u, inSync[t]) = Outs(u)
    BY <2>1 DEF Passes
  <2> QED
    BY <2>2, <2>3, <2>4, <2>5
<1>3. ASSUME NEW t \in Threads
      PROVE  Ins(t) \in Int /\ Outs(t) \in Int /\ Ins(t) \in {Outs(t), Outs(t) + 1}
  <2>1. runs \in Nat /\ \A w \in Workers : work[w] \in Nat
    BY DEF Calls, RunTypes
  <2>2. Outs(t) \in Int
    BY <2>1, Places DEF Outs, Live, Rounds
  <2> QED
    BY <2>2, Places DEF Ins, Outs, Live
<1>4. ASSUME NEW e \in edges
      PROVE  /\ src[e] \in ops \cup {Host} /\ dst[e] \in ops \cup {Host}
             /\ IF src[e] = Host THEN Ins(e) = Ins(Host) ELSE Ins(e) = Outs(src[e])
             /\ IF dst[e] = Host THEN Outs(e) = Outs(Host) ELSE Outs(e) = Ins(dst[e])
  <2>1. /\ src[e] \in Threads /\ dst[e] \in Threads /\ e \in Threads
        /\ src[e] \in ops \cup {Host} /\ dst[e] \in ops \cup {Host}
    BY <1>1 DEF Types
  <2>2. /\ inSync[e] = IF src[e] = Host THEN inSync[Host] ELSE outSync[src[e]]
        /\ outSync[e] = IF dst[e] = Host THEN outSync[Host] ELSE inSync[dst[e]]
    BY <1>1 DEF Wiring
  <2> QED
    BY <1>1, <1>2, <2>1, <2>2
<1>5. ASSUME NEW o \in ops
      PROVE  (~HasIn(o) => Ins(o) = Ins(Host)) /\ (~HasOut(o) => Outs(o) = Outs(Host))
  <2>1. (~HasIn(o) => inSync[o] = inSync[Host]) /\ (~HasOut(o) => outSync[o] = outSync[Host])
    BY <1>1 DEF Wiring
  <2> QED
    BY <1>1, <1>2, <2>1
<1> QED
  BY <1>3, <1>4, <1>5

\* A finite set in which everyone has a successor has a circle in it: the least of its
\* parts of that kind, where everyone has a predecessor too.
LEMMA Circle ==
  ASSUME NEW S, IsFiniteSet(S), S # {}, NEW R, \A x \in S : \E y \in S : <<x, y>> \in R
  PROVE  \E C \in (SUBSET S) \ {{}} : \A y \in C : \E x \in C : <<x, y>> \in R
<1> DEFINE Parts == {P \in SUBSET S : P # {} /\ \A x \in P : \E y \in P : <<x, y>> \in R}
           Less == StrictSubsetOrdering(S)
<1>1. IsWellFoundedOn(Less, SUBSET S)
  <2>1. IsWellFoundedOn(Less, FiniteSubsetsOf(S))
    BY FS_StrictSubsetOrderingWellFounded
  <2> QED
    BY <2>1, FS_FiniteSubsetsOfFinite
<1>2. Parts \subseteq SUBSET S /\ Parts # {}
  <2>1. S \in Parts
    OBVIOUS
  <2> QED
    BY <2>1
<1>3. PICK C \in Parts : \A P \in Parts : ~(<<P, C>> \in Less)
  <2> HIDE DEF Parts, Less
  <2> QED
    BY <1>1, <1>2, WFMin
<1>4. ASSUME NEW y \in C, \A x \in C : <<x, y>> \notin R
      PROVE  FALSE
  <2>1. C \ {y} \in Parts
    <3>1. \A x \in C : \E z \in C \ {y} : <<x, z>> \in R
      BY <1>4
    <3> QED
      BY <3>1
  <2>2. <<C \ {y}, C>> \in Less
    BY DEF StrictSubsetOrdering
  <2> QED
    BY <1>3, <2>1, <2>2
<1> QED
  BY <1>4

\* Without a cycle nobody is ahead of the host's input or behind its output.
LEMMA Sandwich ==
  ASSUME IInv, Calls, InPhase, ~Cyclic
  PROVE  \A t \in Threads : Ins(t) <= Ins(Host) /\ Outs(t) >= Outs(Host)
<1>1. /\ \A t \in Threads : /\ Ins(t) \in Int /\ Outs(t) \in Int
                            /\ Outs(t) <= Ins(t)
      /\ Host \in Threads /\ ops \subseteq Threads /\ edges \subseteq Threads
  <2>1. \A i, o \in Int : i \in {o, o + 1} => o <= i
    OBVIOUS
  <2> QED
    BY <2>1, Phases DEF Threads
<1>2. ASSUME NEW e \in edges
      PROVE  /\ src[e] \in ops \cup {Host} /\ dst[e] \in ops \cup {Host}
             /\ IF src[e] = Host THEN Ins(e) = Ins(Host) ELSE Ins(e) = Outs(src[e])
             /\ IF dst[e] = Host THEN Outs(e) = Outs(Host) ELSE Outs(e) = Ins(dst[e])
  BY Phases
<1>3. \A o \in ops : Ins(o) <= Ins(Host)
  <2> DEFINE S == {o \in ops : Ins(o) > Ins(Host)}
  <2>1. SUFFICES ASSUME S # {} PROVE FALSE
    BY <1>1
  <2>2. PICK o \in S : \A d \in S : <<d, o>> \notin Connected
    <3>1. S \in (SUBSET ops) \ {{}}
      BY <2>1
    <3> HIDE DEF S
    <3> QED
      BY <3>1 DEF Cyclic, Circular
  <2>3. PICK e \in edges : dst[e] = o
    BY <1>1, <2>2, Phases DEF HasIn
  <2>4. o # Host /\ Ins(o) <= Ins(e)
    BY <1>1, <1>2, <2>2, <2>3, Places
  <2>5. CASE src[e] = Host
    BY <1>1, <1>2, <2>2, <2>4, <2>5
  <2>6. CASE src[e] # Host
    <3>1. src[e] \in ops /\ <<src[e], o>> \in Connected
      BY <1>2, <2>3, <2>6 DEF Connected
    <3>2. src[e] \notin S
      BY <2>2, <3>1
    <3> QED
      BY <1>1, <1>2, <2>2, <2>4, <2>6, <3>1, <3>2
  <2> QED
    BY <2>5, <2>6
<1>4. \A o \in ops : Outs(o) >= Outs(Host)
  <2> DEFINE S == {o \in ops : Outs(o) < Outs(Host)}
  <2>1. SUFFICES ASSUME S # {} PROVE FALSE
    BY <1>1
  <2>2. PICK d \in S : \A o \in S : <<d, o>> \notin Connected
    <3>1. S \in (SUBSET ops) \ {{}} /\ IsFiniteSet(S)
      <4>1. IsFiniteSet(ops)
        BY BuilderAssumption, FS_Subset DEF IInv, Types
      <4> QED
        BY <2>1, <4>1, FS_Subset
    <3> HIDE DEF S
    <3>2. SUFFICES ASSUME \A d \in S : \E o \in S : <<d, o>> \in Connected PROVE FALSE
      OBVIOUS
    <3>3. PICK C \in (SUBSET S) \ {{}} : \A o \in C : \E d \in C : <<d, o>> \in Connected
      BY <3>1, <3>2, Circle
    <3> QED
      BY <3>1, <3>3 DEF Cyclic, Circular
  <2>3. PICK e \in edges : src[e] = d
    BY <1>1, <2>2, Phases DEF HasOut
  <2>4. d # Host /\ Outs(d) >= Outs(e)
    BY <1>1, <1>2, <2>2, <2>3, Places
  <2>5. CASE dst[e] = Host
    BY <1>1, <1>2, <2>2, <2>4, <2>5
  <2>6. CASE dst[e] # Host
    <3>1. dst[e] \in ops /\ <<d, dst[e]>> \in Connected
      BY <1>2, <2>3, <2>6 DEF Connected
    <3>2. dst[e] \notin S
      BY <2>2, <3>1
    <3> QED
      BY <1>1, <1>2, <2>2, <2>4, <2>6, <3>1, <3>2
  <2> QED
    BY <2>5, <2>6
<1>5. ASSUME NEW e \in edges PROVE Ins(e) <= Ins(Host) /\ Outs(e) >= Outs(Host)
  <2>1. Ins(e) <= Ins(Host)
    BY <1>1, <1>2, <1>3
  <2>2. Outs(e) >= Outs(Host)
    BY <1>1, <1>2, <1>4
  <2> QED
    BY <2>1, <2>2
<1> QED
  BY <1>1, <1>3, <1>4, <1>5 DEF Threads

------------------------------------------------------------------------------
(* One lemma for each step. *)

LEMMA InPhaseStill ==
  ASSUME InPhase, UNCHANGED vars,
         \A t \in Threads : Ins(t)' = Ins(t) /\ Outs(t)' = Outs(t)
  PROVE  InPhase'
<1>1. Threads' = Threads /\ UNCHANGED <<inSync, outSync, size>>
  BY DEF vars, Threads
<1>2. \A b \in DOMAIN size : At(b)' = At(b)
  BY <1>1 DEF At
<1>3. \A b \in DOMAIN size : \A t \in At(b) : Passes(t, b)' = Passes(t, b)
  BY <1>1 DEF Passes, At
<1> QED
  BY <1>1, <1>2, <1>3 DEF InPhase

LEMMA GraphAlone ==
  ASSUME UNCHANGED vars
  PROVE  /\ Workers' = Workers /\ Live' = Live /\ Threads' = Threads
         /\ UNCHANGED <<ops, edges, dev, src, dst, inSync, outSync, size, threadless, asked>>
         /\ AskedIsConnected => AskedIsConnected'
         /\ Cyclic' <=> Cyclic
         /\ \A S : Circular(S)' <=> Circular(S)
         /\ NotCreated' = NotCreated
<1>1. UNCHANGED <<ops, edges, dev, src, dst, inSync, outSync, size, threadless, asked, failures>>
  BY DEF vars
<1>2. \A S : Circular(S)' <=> Circular(S)
  BY <1>1 DEF Circular, Connected
<1>3. Cyclic' <=> Cyclic
  BY <1>1, <1>2 DEF Cyclic
<1> QED
  BY <1>1, <1>2, <1>3 DEF Workers, Live, Threads, AskedIsConnected, OnTwoCPUs, NotCreated

\* A step in which nobody comes through a barrier, and who sleeps sleeps on.
LEMMA NobodyPasses ==
  ASSUME IInv, Settled, UNCHANGED vars, UNCHANGED execute, SleepersInPlace',
         \A t \in Workers : pc[t] \in {"syncin", "atin"} => pc'[t] \in {"syncin", "atin"},
         execute \/ ~Cyclic => \A t \in Threads : Ins(t)' = Ins(t) /\ Outs(t)' = Outs(t),
         ~execute /\ ~Cyclic => LastRound'
  PROVE  Settled'
<1>1. /\ UNCHANGED <<ops, edges, src, dst, threadless>> /\ NotCreated' = NotCreated
      /\ Cyclic' <=> Cyclic
      /\ \A S : Circular(S)' <=> Circular(S)
  BY GraphAlone
<1>2. execute' <=> execute
  BY Zenon
<1>3. /\ ops \subseteq Threads /\ ops \subseteq Workers /\ edges \ threadless \subseteq Workers
      /\ Host \in Threads
  BY Places DEF Threads, Workers
<1>4. CirclesSleep'
  <2>1. ASSUME NEW S \in SUBSET ops, Asleep(S) PROVE Asleep(S)'
    BY <1>1, <1>2, <1>3, <2>1 DEF Asleep
  <2>2. \A S \in SUBSET ops : Circular(S) => Asleep(S)
    BY DEF Settled, CirclesSleep
  <2>3. ASSUME NEW S \in SUBSET ops', Circular(S)' PROVE Asleep(S)'
    BY <1>1, <2>1, <2>2, <2>3
  <2> QED
    BY <2>3 DEF CirclesSleep
<1>5. MissingAreAwaited'
  BY <1>1, <1>2, <1>3 DEF Settled, MissingAreAwaited
<1>6. execute' \/ ~Cyclic' => InPhase'
  BY <1>1, <1>2, InPhaseStill DEF Settled
<1>7. ~execute' /\ ~Cyclic' => LastRound'
  BY <1>1, <1>2
<1> QED
  BY <1>4, <1>5, <1>6, <1>7 DEF Settled

LEMMA Moving ==
  ASSUME IInv, RunTypes, RunTypes', Settled, UNCHANGED <<vars, at, count, execute>>,
         \A t \in Live : /\ pc'[t] = "atin" <=> pc[t] = "atin"
                         /\ pc'[t] = "atout" <=> pc[t] = "atout",
         \A t \in Workers : pc'[t] # "gate" /\ (execute => pc'[t] # "exited"),
         \A t \in Workers : pc[t] = "syncin" => pc'[t] = "syncin",
         execute \/ ~Cyclic => \A t \in Threads : Ins(t)' = Ins(t) /\ Outs(t)' = Outs(t),
         ~execute /\ ~Cyclic => LastRound'
  PROVE  Settled'
<1>1. Workers' = Workers /\ Live' = Live /\ UNCHANGED <<inSync, outSync, size>>
  BY GraphAlone
<1>2. \A b \in DOMAIN size : Sleepers(b)' = Sleepers(b)
  BY <1>1 DEF Sleepers
<1>3. execute' <=> execute
  BY Zenon
<1>4. SleepersInPlace'
  BY <1>1, <1>2, <1>3 DEF Settled, SleepersInPlace, Live
<1>5. \A t \in Workers : pc[t] \in {"syncin", "atin"} => pc'[t] \in {"syncin", "atin"}
  BY DEF Live
<1> QED
  BY <1>4, <1>5, NobodyPasses

\* The parts of Calls that a step which leaves the graph alone has still to keep.
LEMMA CallsAgain ==
  ASSUME Calls, UNCHANGED vars, RunTypes', BeforeRuns', HostPlaced'
  PROVE  Calls'
BY GraphAlone DEF Calls

LEMMA SettledSame ==
  ASSUME Settled, IInv,
         UNCHANGED <<ops, edges, src, dst, inSync, outSync, size, threadless, failures>>,
         UNCHANGED <<pc, at, count, execute, runs, work>>
  PROVE  Settled'
<1>1. Workers' = Workers /\ Threads' = Threads /\ NotCreated' = NotCreated
  BY DEF Workers, Threads, NotCreated
<1>2. (execute' <=> execute) /\ Rounds' = Rounds
  BY DEF Rounds
<1>3. \A t : Outs(t)' = Outs(t)
  BY <1>2 DEF Outs
<1>4. \A t : Ins(t)' = Ins(t)
  BY <1>3 DEF Ins, InRound
<1>5. \A b : Sleepers(b)' = Sleepers(b) /\ At(b)' = At(b)
  BY <1>1 DEF Sleepers, At
<1>6. \A S : (Circular(S)' <=> Circular(S)) /\ (Asleep(S)' <=> Asleep(S))
  BY <1>2, <1>4 DEF Circular, Connected, Asleep
<1>7. Cyclic' <=> Cyclic
  BY <1>6 DEF Cyclic
<1>8. SleepersInPlace'
  BY <1>1, <1>2, <1>5 DEF Settled, SleepersInPlace
<1>9. CirclesSleep'
  BY <1>6 DEF Settled, CirclesSleep
<1>10. MissingAreAwaited'
  BY <1>1, <1>2, <1>4 DEF Settled, MissingAreAwaited
<1>11. InPhase => InPhase'
  <2>1. \A t, b : Passes(t, b)' = Passes(t, b)
    BY <1>3, <1>4 DEF Passes
  <2> QED
    BY <1>5, <2>1 DEF InPhase
<1>12. LastRound => LastRound'
  BY <1>1 DEF LastRound
<1> QED
  BY <1>2, <1>7, <1>8, <1>9, <1>10, <1>11, <1>12 DEF Settled

LEMMA BuildKeeps ==
  ASSUME IInv, IInv', Calls, Steady, Build
  PROVE  Calls' /\ Steady'
<1>0. /\ Host \notin Workers /\ Host \notin Workers'
      /\ Live = Workers \cup {Host} /\ Live' = Workers' \cup {Host}
      /\ DOMAIN size = 1 .. Len(size) /\ DOMAIN size' = 1 .. Len(size')
  <2>1. Host \notin Workers /\ Host \notin Workers'
    BY BuilderAssumption DEF IInv, Types, Workers
  <2> QED
    BY <2>1 DEF Live, IInv, Types
<1>1. RunTypes /\ BeforeRuns /\ HostPlaced /\ AskedIsConnected
  BY DEF Calls
<1>2. /\ pc[Host] = "idle" /\ Next /\ UNCHANGED <<execute, runs>>
      /\ pc' = Grown(pc, Live', "gate") /\ at' = Grown(at, Live', 0)
      /\ count' = Grown(count, DOMAIN size', 0) /\ work' = Grown(work, Workers', 0)
      /\ late' = (late \/ (runs > 0 /\ size' # size))
  BY <1>0 DEF Build, Live
<1>10. /\ late' <=> late \/ (runs > 0 /\ size' # size)
       /\ execute' <=> execute
  BY <1>2, Zenon
<1>3. /\ \A t \in Live' : pc'[t] = IF t \in Live THEN pc[t] ELSE "gate"
      /\ \A t \in Live' : at'[t] = IF t \in Live THEN at[t] ELSE 0
      /\ \A b \in DOMAIN size' : count'[b] = IF b \in DOMAIN size THEN count[b] ELSE 0
      /\ \A t \in Workers' : work'[t] = IF t \in Workers THEN work[t] ELSE 0
      /\ DOMAIN pc' = Live' /\ DOMAIN at' = Live' /\ DOMAIN work' = Workers'
      /\ DOMAIN count' = DOMAIN size'
  BY <1>1, <1>2 DEF Grown, RunTypes
<1>4. \A t \in Workers' : t \in Live => t \in Workers
  BY <1>0
<1>5. RunTypes'
  <2>1. pc' \in [Live' -> WorkerPlaces \cup HostPlaces]
    BY <1>1, <1>2 DEF RunTypes, Grown, WorkerPlaces
  <2>2. pc'[Host] \in HostPlaces /\ \A t \in Workers' : pc'[t] \in WorkerPlaces
    BY <1>0, <1>1, <1>3, <1>4 DEF RunTypes, WorkerPlaces
  <2>3. /\ at' \in [Live' -> Nat] /\ count' \in [DOMAIN size' -> Nat]
        /\ work' \in [Workers' -> Nat]
    BY <1>1, <1>2 DEF RunTypes, Grown
  <2>4. execute' \in BOOLEAN /\ runs' \in Nat
    BY <1>1, <1>2 DEF RunTypes
  <2>5. late' \in BOOLEAN
    BY <1>2, Zenon
  <2> QED
    BY <2>1, <2>2, <2>3, <2>4, <2>5 DEF RunTypes
<1>6. BeforeRuns'
  <2> SUFFICES ASSUME runs' = 0
      PROVE  /\ ~execute' /\ ~late' /\ pc'[Host] \in {"idle", "joining", "closed"}
             /\ \A t \in Workers' : pc'[t] \in {"gate", "loop", "exited"} /\ work'[t] = 0
             /\ \A t \in Workers' : pc'[Host] = "idle" <=> pc'[t] = "gate"
             /\ \A t \in Live' : at'[t] = 0
             /\ \A b \in DOMAIN size' : count'[b] = 0
    BY <1>0 DEF BeforeRuns
  <2>1. /\ ~execute /\ ~late /\ runs = 0
        /\ \A t \in Workers : pc[t] = "gate" /\ work[t] = 0
        /\ \A t \in Live : at[t] = 0
        /\ \A b \in DOMAIN size : count[b] = 0
    BY <1>0, <1>1, <1>2 DEF BeforeRuns
  <2>2. ~execute' /\ ~late'
    BY <1>10, <2>1
  <2>3. Host \in Live' /\ Host \in Live /\ Workers' \subseteq Live'
    BY <1>0
  <2>4. pc'[Host] = "idle" /\ \A t \in Workers' : pc'[t] = "gate" /\ work'[t] = 0
    BY <1>2, <1>3, <1>4, <2>1, <2>3
  <2>5. (\A t \in Live' : at'[t] = 0) /\ \A b \in DOMAIN size' : count'[b] = 0
    BY <1>3, <2>1
  <2> QED
    BY <2>2, <2>4, <2>5
<1>7. HostPlaced'
  BY <1>0, <1>1, <1>2, <1>3 DEF HostPlaced
<1>8. AskedIsConnected'
  BY <1>1, <1>2, Connecting
<1>9. ASSUME runs' > 0, ~late' PROVE Settled'
  <2>1. ~late /\ runs > 0 /\ size' = size
    <3>1. runs > 0
      BY <1>2, <1>9
    <3> QED
      BY <1>9, <1>10, <3>1
  <2>2. UNCHANGED <<ops, edges, dev, src, dst, inSync, outSync, threadless, failures>>
    BY <1>2, <2>1, SizesTell
  <2>3. Workers' = Workers /\ Live' = Live
    BY <2>2 DEF Workers, Live
  <2>4. pc' = pc /\ at' = at /\ count' = count /\ work' = work
    BY <1>1, <1>2, <2>1, <2>3 DEF Grown, RunTypes
  <2> QED
    BY <1>2, <2>1, <2>2, <2>4, SettledSame DEF Steady
<1> QED
  BY <1>5, <1>6, <1>7, <1>8, <1>9 DEF Calls, Steady

LEMMA RunKeeps ==
  ASSUME IInv, Calls, Steady, Run
  PROVE  Calls' /\ Steady'
<1>1. /\ Workers' = Workers /\ Live' = Live /\ Threads' = Threads
      /\ UNCHANGED <<ops, edges, inSync, outSync, size, threadless>>
  BY GraphAlone DEF Run
<1>2. Host \in Live /\ Workers \subseteq Live /\ Live = Workers \cup {Host} /\ Host \notin Workers
  BY Places DEF Live
<1>3. RunTypes /\ BeforeRuns /\ HostPlaced
  BY DEF Calls
<1>4. /\ pc[Host] = "idle" /\ execute' = TRUE /\ runs' = runs + 1 /\ runs \in Nat
      /\ UNCHANGED <<vars, at, count, work, late>>
      /\ DOMAIN pc = Live /\ \A t \in Workers : pc[t] \in WorkerPlaces
  BY <1>3 DEF Run, RunTypes
<1>5. /\ pc' \in [Live -> WorkerPlaces \cup HostPlaces] /\ pc'[Host] = "syncin"
      /\ \A t \in Workers : pc'[t] = IF execute THEN pc[t] ELSE "loop"
  BY <1>2, <1>3, <1>4 DEF Run, GateOpens, RunTypes, HostPlaces, WorkerPlaces
<1>6. RunTypes'
  BY <1>1, <1>3, <1>4, <1>5 DEF RunTypes, HostPlaces, WorkerPlaces
<1>7. BeforeRuns' /\ HostPlaced'
  BY <1>4, <1>5 DEF BeforeRuns, HostPlaced
<1>8. ASSUME execute, ~late PROVE Settled'
  <2>1. Settled /\ UNCHANGED execute
    <3>1. runs > 0
      BY <1>3, <1>4, <1>8 DEF BeforeRuns
    <3>2. execute = TRUE
      BY <1>3, <1>8 DEF RunTypes
    <3> QED
      BY <1>4, <1>8, <3>1, <3>2 DEF Steady
  <2>2. \A t \in Workers : pc'[t] = pc[t]
    BY <1>5, <1>8
  <2>3. ASSUME NEW t \in Threads PROVE Ins(t)' = Ins(t) /\ Outs(t)' = Outs(t)
    <3>1. CASE t \in Workers
      BY <1>1, <1>2, <1>4, <1>8, <2>2, <3>1 DEF Ins, Outs, InRound
    <3>2. CASE t = Host
      BY <1>1, <1>4, <1>5, <1>8, <3>2 DEF Ins, Outs, InRound, Rounds
    <3>3. CASE t \in threadless
      BY <1>1, <3>3, Places DEF Ins, Outs
    <3> QED
      BY <3>1, <3>2, <3>3, Places DEF Live
  <2>4. \A t \in Workers : pc'[t] # "gate" /\ pc'[t] # "exited"
    BY <1>8, <2>1, <2>2 DEF Settled, SleepersInPlace
  <2>5. \A t \in Live : /\ pc'[t] = "atin" <=> pc[t] = "atin"
                        /\ pc'[t] = "atout" <=> pc[t] = "atout"
    BY <1>2, <1>4, <1>5, <2>2
  <2> QED
    BY <1>3, <1>4, <1>6, <1>8, <2>1, <2>2, <2>3, <2>4, <2>5, Moving
<1>9. ASSUME ~execute PROVE Settled'
  <2>1. runs = 0 /\ (\A t \in Workers : work[t] = 0) /\ (\A t \in Live : at[t] = 0)
        /\ \A b \in DOMAIN size : count[b] = 0
    BY <1>2, <1>3, <1>4, <1>9 DEF HostPlaced, BeforeRuns
  <2>2. SleepersInPlace'
    <3>1. \A b \in DOMAIN size : Sleepers(b)' = {}
      BY <1>1, <1>2, <1>4, <2>1, Places DEF Sleepers
    <3>2. \A t \in Live : pc'[t] \in {"loop", "syncin"}
      BY <1>2, <1>5, <1>9
    <3> QED
      BY <1>1, <1>2, <1>4, <2>1, <3>1, <3>2, FS_EmptySet DEF SleepersInPlace
  <2>3. ASSUME NEW t \in Threads PROVE Ins(t)' = 0 /\ Outs(t)' = 0
    <3>1. CASE t \in Workers
      BY <1>1, <1>2, <1>4, <1>5, <1>9, <2>1, <3>1 DEF Ins, Outs, InRound
    <3>2. CASE t = Host
      BY <1>1, <1>4, <1>5, <2>1, <3>2, Places DEF Ins, Outs, InRound, Rounds
    <3>3. CASE t \in threadless
      BY <1>1, <3>3, Places DEF Ins, Outs
    <3> QED
      BY <3>1, <3>2, <3>3, Places DEF Live
  <2>4. InPhase'
    BY <1>1, <2>3 DEF InPhase, At, Passes
  <2>5. CirclesSleep' /\ MissingAreAwaited'
    <3>1. Host \in Threads /\ ops \subseteq Threads
      BY DEF Threads
    <3> QED
      BY <1>1, <1>4, <2>3, <3>1 DEF CirclesSleep, Asleep, MissingAreAwaited
  <2> QED
    BY <1>4, <2>2, <2>4, <2>5 DEF Settled
<1> QED
  BY <1>4, <1>6, <1>7, <1>8, <1>9, CallsAgain DEF Steady

\* A worker at its loop or its test, or at its work, goes on.
LEMMA WorkersKeep ==
  ASSUME IInv, Calls, Steady, NEW t \in Workers, TestLoop(t) \/ TestAgain(t) \/ FinishWork(t)
  PROVE  Calls' /\ Steady'
<1>1. /\ Workers' = Workers /\ Live' = Live /\ Threads' = Threads
      /\ UNCHANGED <<ops, edges, inSync, outSync, size, threadless>>
      /\ UNCHANGED <<vars, at, count, execute, runs, late>>
  BY GraphAlone DEF TestLoop, TestAgain, FinishWork
<1>2. Host \in Live /\ Workers \subseteq Live /\ Live = Workers \cup {Host} /\ t # Host
      /\ t \notin threadless
  BY Places DEF Live
<1>3. RunTypes /\ BeforeRuns /\ HostPlaced
  BY DEF Calls
<1>4. pc' = [pc EXCEPT ![t] = pc'[t]] /\ pc'[t] \in {"syncin", "exited", "busy", "syncout"}
      /\ pc[t] \in {"loop", "check", "busy"}
  BY <1>2, <1>3 DEF TestLoop, TestAgain, FinishWork, RunTypes
<1>5. \A u \in Live : u # t => pc'[u] = pc[u]
  BY <1>3, <1>4 DEF RunTypes
<1>6. RunTypes'
  <2>1. work' \in [Workers -> Nat]
    BY <1>3 DEF RunTypes, TestLoop, TestAgain, FinishWork
  <2>2. pc' \in [Live -> WorkerPlaces \cup HostPlaces] /\ \A u \in Workers : pc'[u] \in WorkerPlaces
    BY <1>2, <1>3, <1>4, <1>5 DEF RunTypes, WorkerPlaces
  <2> QED
    BY <1>1, <1>2, <1>3, <1>5, <2>1, <2>2 DEF RunTypes
<1>7. BeforeRuns'
  <2> SUFFICES ASSUME runs = 0 PROVE BeforeRuns'
    BY <1>1 DEF BeforeRuns
  <2>1. pc[t] = "loop" /\ TestLoop(t) /\ pc[Host] # "idle" /\ ~execute
    BY <1>3 DEF BeforeRuns, TestAgain, FinishWork, TestLoop
  <2>2. pc'[t] = "exited" /\ work' = work /\ pc'[Host] = pc[Host]
    BY <1>2, <1>3, <1>5, <2>1 DEF TestLoop, RunTypes
  <2> QED
    BY <1>1, <1>2, <1>3, <1>5, <2>1, <2>2 DEF BeforeRuns
<1>8. HostPlaced'
  BY <1>1, <1>2, <1>3, <1>4, <1>5 DEF HostPlaced
<1>9. ASSUME runs > 0, ~late PROVE Settled'
  <2>1. Settled /\ (execute' <=> execute)
    BY <1>1, <1>9 DEF Steady
  <2>2. \/ pc[t] = "loop" /\ pc'[t] = "exited" /\ ~execute /\ work' = work
        \/ pc[t] = "loop" /\ pc'[t] = "syncin" /\ execute /\ work' = work
        \/ pc[t] = "check" /\ pc'[t] = "busy" /\ execute /\ work' = work
        \/ pc[t] = "check" /\ pc'[t] = "syncout" /\ ~execute /\ work' = work
        \/ pc[t] = "busy" /\ pc'[t] = "syncout" /\ work' = [work EXCEPT ![t] = @ + 1]
    BY <1>2, <1>3 DEF TestLoop, TestAgain, FinishWork, RunTypes
  <2>3. /\ ~execute /\ ~Cyclic => pc[t] # "busy"
        /\ \A u \in Workers : pc[u] # "gate" /\ (execute => pc[u] # "exited")
    BY <2>1 DEF Settled, LastRound, SleepersInPlace
  <2>4. ASSUME execute \/ ~Cyclic, NEW u \in Threads PROVE Ins(u)' = Ins(u) /\ Outs(u)' = Outs(u)
    <3>1. CASE u = t
      <4>1. work[t] \in Nat /\ work'[t] = IF pc[t] = "busy" THEN work[t] + 1 ELSE work[t]
        BY <1>3, <2>2 DEF RunTypes
      <4>2. ~(pc[t] = "busy" /\ ~execute)
        BY <2>3, <2>4
      <4> QED
        BY <1>1, <1>2, <2>1, <2>2, <3>1, <4>1, <4>2 DEF Ins, Outs, InRound
    <3>2. CASE u \in Workers /\ u # t
      <4>1. pc'[u] = pc[u] /\ work'[u] = work[u] /\ u # Host
        BY <1>2, <1>3, <1>5, <2>2, <3>2, Places DEF RunTypes
      <4> QED
        BY <1>1, <2>1, <4>1 DEF Ins, Outs, InRound
    <3>3. CASE u = Host
      <4>1. pc'[u] = pc[u]
        BY <1>2, <1>5, <3>3
      <4> QED
        BY <1>1, <2>1, <3>3, <4>1 DEF Ins, Outs, InRound, Rounds
    <3>4. CASE u \in threadless
      BY <1>1, <3>4, Places DEF Ins, Outs
    <3> QED
      BY <3>1, <3>2, <3>3, <3>4, Places DEF Live
  <2>5. \A u \in Workers : pc'[u] # "gate" /\ (execute => pc'[u] # "exited")
    BY <1>2, <1>5, <2>2, <2>3
  <2>6. ~execute /\ ~Cyclic => LastRound'
    <3>1. ~execute /\ ~Cyclic => LastRound
      BY <2>1 DEF Settled
    <3> QED
      BY <1>1, <1>2, <1>5, <2>2, <2>3, <3>1 DEF LastRound
  <2>7. \A u \in Live : /\ pc'[u] = "atin" <=> pc[u] = "atin"
                        /\ pc'[u] = "atout" <=> pc[u] = "atout"
    BY <1>4, <1>5
  <2>8. \A u \in Workers : pc[u] = "syncin" => pc'[u] = "syncin"
    BY <1>2, <1>4, <1>5
  <2> QED
    BY <1>1, <1>3, <1>6, <2>1, <2>4, <2>5, <2>6, <2>7, <2>8, Moving
<1> QED
  BY <1>1, <1>6, <1>7, <1>8, <1>9, CallsAgain DEF Steady

\* When the host stops the threads of a graph without a cycle, all of them sleep at
\* their input barriers, each after as many rounds as there were Runs.
LEMMA AllSleep ==
  ASSUME IInv, Calls, Settled, execute, ~Cyclic, runs > 0, pc[Host] \in {"idle", "sleeping"}
  PROVE  /\ threadless = {} /\ NotCreated = 0 /\ Ins(Host) = runs /\ Outs(Host) = runs
         /\ \A t \in Workers : work[t] = runs /\ pc[t] \in {"loop", "syncin", "atin"}
<1>1. /\ RunTypes /\ SleepersInPlace /\ InPhase /\ MissingAreAwaited /\ NotCreated \in Nat
      /\ Host \in Threads /\ Host \notin threadless /\ threadless \subseteq Threads
  BY Finiteness, Places DEF Calls, Settled, IInv
<1>2. Ins(Host) = runs /\ Outs(Host) = runs
  BY <1>1 DEF Ins, Outs, InRound, Rounds
<1>3. \A t \in Threads : /\ Ins(t) \in Int /\ Outs(t) \in Int /\ Ins(t) \in {Outs(t), Outs(t) + 1}
                         /\ Ins(t) <= runs /\ Outs(t) >= runs
  BY <1>1, <1>2, Phases, Sandwich
<1>4. threadless = {}
  <2>1. SUFFICES ASSUME NEW t \in threadless PROVE FALSE
    OBVIOUS
  <2>2. t # Host /\ t \in Threads /\ runs \in Nat
    BY <1>1 DEF RunTypes
  <2>3. Outs(t) = 0
    BY <2>2 DEF Outs
  <2>4. Outs(t) >= runs
    BY <1>3, <2>2
  <2> QED
    BY <2>2, <2>3, <2>4
<1>5. NotCreated = 0
  BY <1>1, <1>2 DEF MissingAreAwaited
<1>6. ASSUME NEW t \in Workers PROVE work[t] = runs /\ pc[t] \in {"loop", "syncin", "atin"}
  <2>1. t \in Threads /\ t # Host /\ t \notin threadless /\ runs \in Nat
    BY <1>1, Places DEF RunTypes
  <2>2. Ins(t) = runs /\ Outs(t) = runs
    BY <1>3, <2>1
  <2>3. ~InRound(t)
    BY <2>1, <2>2 DEF Ins
  <2>4. work[t] = runs
    BY <2>1, <2>2, <2>3 DEF Outs, InRound
  <2>5. pc[t] \in WorkerPlaces /\ pc[t] \notin {"gate", "exited"}
    BY <1>1 DEF RunTypes, SleepersInPlace
  <2> QED
    BY <2>3, <2>4, <2>5 DEF InRound, WorkerPlaces
<1> QED
  BY <1>2, <1>4, <1>5, <1>6

\* The host leaves idle for the destructor's sleep, or has joined everybody.
LEMMA ClosingKeeps ==
  ASSUME IInv, Calls, Steady, Destroy \/ Join
  PROVE  Calls' /\ Steady'
<1>1. /\ Workers' = Workers /\ Live' = Live /\ Threads' = Threads
      /\ UNCHANGED <<ops, edges, inSync, outSync, size, threadless>>
      /\ UNCHANGED <<vars, at, count, work, runs, late, execute>>
  BY GraphAlone DEF Destroy, Join
<1>2. Host \in Live /\ Workers \subseteq Live /\ Live = Workers \cup {Host} /\ Host \notin Workers
  BY Places DEF Live
<1>3. RunTypes /\ BeforeRuns /\ HostPlaced
  BY DEF Calls
<1>4. /\ DOMAIN pc = Live /\ (\A t \in Workers : pc[t] \in WorkerPlaces) /\ runs \in Nat
      /\ (execute' <=> execute)
  BY <1>1, <1>3 DEF RunTypes
<1>5. CASE Destroy /\ ~execute
  <2>1. /\ pc[Host] = "idle" /\ pc'[Host] = "joining" /\ \A t \in Workers : pc'[t] = "loop"
        /\ pc' \in [Live -> WorkerPlaces \cup HostPlaces]
    BY <1>2, <1>3, <1>4, <1>5 DEF Destroy, GateOpens, RunTypes, HostPlaces, WorkerPlaces
  <2>2. RunTypes'
    BY <1>1, <1>3, <2>1 DEF RunTypes, HostPlaces, WorkerPlaces
  <2>3. runs = 0
    BY <1>3, <1>4, <1>5, <2>1 DEF HostPlaced
  <2>4. BeforeRuns' /\ HostPlaced'
    BY <1>1, <1>3, <1>4, <1>5, <2>1, <2>3 DEF BeforeRuns, HostPlaced
  <2> QED
    BY <1>1, <2>2, <2>3, <2>4, CallsAgain DEF Steady
<1>6. CASE (Destroy /\ execute) \/ Join
  <2>1. /\ \A t \in Workers : pc'[t] = pc[t]
        /\ pc' \in [Live -> WorkerPlaces \cup HostPlaces]
        /\ \/ pc[Host] = "idle" /\ pc'[Host] = "sleeping" /\ execute
           \/ /\ pc[Host] = "joining" /\ pc'[Host] = "closed" /\ ~execute
              /\ \A t \in Workers : pc[t] = "exited"
    BY <1>2, <1>3, <1>4, <1>6 DEF Destroy, Join, Joinable, RunTypes, HostPlaces, HostPlaced
  <2>2. RunTypes'
    BY <1>1, <1>3, <2>1 DEF RunTypes, HostPlaces
  <2>3. HostPlaced'
    BY <1>1, <1>3, <1>4, <2>1 DEF HostPlaced
  <2>4. BeforeRuns'
    BY <1>1, <1>3, <1>4, <2>1 DEF BeforeRuns
  <2>5. ASSUME runs > 0, ~late PROVE Settled'
    <3>1. Settled
      BY <2>5 DEF Steady
    <3>2. ASSUME NEW t \in Threads PROVE Ins(t)' = Ins(t) /\ Outs(t)' = Outs(t)
      <4>1. CASE t \in Workers
        BY <1>1, <1>2, <1>4, <2>1, <4>1 DEF Ins, Outs, InRound
      <4>2. CASE t = Host
        BY <1>1, <1>4, <2>1, <4>2, Places DEF Ins, Outs, InRound, Rounds
      <4>3. CASE t \in threadless
        BY <1>1, <4>3, Places DEF Ins, Outs
      <4> QED
        BY <4>1, <4>2, <4>3, Places DEF Live
    <3>3. /\ \A t \in Workers : pc'[t] # "gate" /\ (execute => pc'[t] # "exited")
          /\ ~execute /\ ~Cyclic => LastRound'
      BY <1>1, <2>1, <3>1 DEF Settled, SleepersInPlace, LastRound
    <3>4. \A t \in Live : /\ pc'[t] = "atin" <=> pc[t] = "atin"
                          /\ pc'[t] = "atout" <=> pc[t] = "atout"
      BY <1>2, <2>1
    <3> QED
      BY <1>1, <1>3, <2>1, <2>2, <3>1, <3>2, <3>3, <3>4, Moving
  <2> QED
    BY <1>1, <2>2, <2>3, <2>4, <2>5, CallsAgain DEF Steady
<1> QED
  BY <1>5, <1>6

\* m_threads_execute is cleared while nobody is about to test it: a circle's
\* operations, and the edges between them, are asleep at their inputs by then.
LEMMA SignalKeeps ==
  ASSUME IInv, Calls, Steady, SignalExit
  PROVE  Calls' /\ Steady'
<1>1. /\ Workers' = Workers /\ Live' = Live /\ Threads' = Threads
      /\ UNCHANGED <<ops, edges, src, dst, inSync, outSync, size, threadless>>
      /\ UNCHANGED <<vars, at, count, work, runs, late>>
      /\ Cyclic' <=> Cyclic
      /\ \A S : Circular(S)' <=> Circular(S)
      /\ NotCreated' = NotCreated
  BY GraphAlone DEF SignalExit
<1>2. Host \in Live /\ Workers \subseteq Live /\ Live = Workers \cup {Host} /\ Host \notin Workers
  BY Places DEF Live
<1>3. RunTypes /\ BeforeRuns /\ HostPlaced
  BY DEF Calls
<1>4. /\ DOMAIN pc = Live /\ (\A t \in Workers : pc[t] \in WorkerPlaces) /\ runs \in Nat
      /\ pc[Host] = "sleeping" /\ pc'[Host] = "syncin" /\ ~execute' /\ execute' \in BOOLEAN
      /\ \A t \in Workers : pc'[t] = pc[t] /\ pc[t] # "loop"
      /\ pc' \in [Live -> WorkerPlaces \cup HostPlaces]
  BY <1>2, <1>3 DEF SignalExit, RunTypes, HostPlaces
<1>5. runs # 0 /\ execute
  BY <1>3, <1>4 DEF BeforeRuns, HostPlaced
<1>6. RunTypes'
  BY <1>1, <1>3, <1>4 DEF RunTypes, HostPlaces
<1>7. BeforeRuns' /\ HostPlaced'
  BY <1>1, <1>4, <1>5 DEF BeforeRuns, HostPlaced
<1>8. ASSUME ~late PROVE Settled'
  <2>1. Settled /\ runs > 0
    BY <1>4, <1>5, <1>8 DEF Steady
  <2>2. SleepersInPlace'
    <3>1. \A b \in DOMAIN size : Sleepers(b)' = Sleepers(b)
      BY <1>1 DEF Sleepers
    <3> QED
      BY <1>1, <1>2, <1>4, <2>1, <3>1 DEF Settled, SleepersInPlace
  <2>3. Ins(Host) = runs /\ Outs(Host) = runs /\ Host \in Threads
    BY <1>4, <1>5, Places DEF Ins, Outs, InRound, Rounds
  <2>4. ~Cyclic' => InPhase' /\ LastRound'
    <3> SUFFICES ASSUME ~Cyclic PROVE InPhase' /\ LastRound'
      BY <1>1
    <3>1. threadless = {} /\ \A t \in Workers : work[t] = runs /\ pc[t] \in {"syncin", "atin"}
      BY <1>4, <1>5, <2>1, AllSleep
    <3>2. LastRound'
      BY <1>1, <1>4, <3>1 DEF LastRound
    <3>3. ASSUME NEW t \in Threads PROVE Ins(t)' = Ins(t) /\ Outs(t)' = Outs(t)
      <4>1. CASE t \in Workers
        BY <1>1, <1>2, <1>4, <1>5, <3>1, <4>1 DEF Ins, Outs, InRound
      <4>2. CASE t = Host
        BY <1>1, <1>4, <1>5, <4>2, Places DEF Ins, Outs, InRound, Rounds
      <4> QED
        BY <3>1, <4>1, <4>2, Places DEF Live
    <3> QED
      BY <1>1, <1>5, <2>1, <3>2, <3>3, InPhaseStill DEF Settled
  <2>5. CirclesSleep'
    <3>1. SUFFICES ASSUME NEW S \in SUBSET ops, Circular(S) PROVE Asleep(S)'
      BY <1>1 DEF CirclesSleep
    <3>2. /\ \A o \in S : Ins(o) = 0 /\ o \in Workers /\ o \in Threads
          /\ InPhase
      BY <1>5, <2>1, <3>1, Places DEF Settled, CirclesSleep, Asleep, Threads
    <3>3. ASSUME NEW t \in Workers, Ins(t) = 0, Outs(t) = 0
          PROVE  pc'[t] \in {"syncin", "atin"}
      <4>1. ~InRound(t)
        BY <3>3, Places DEF Ins
      <4>2. pc[t] \notin {"loop", "gate", "exited"} /\ pc[t] \in WorkerPlaces
        BY <1>4, <1>5, <2>1 DEF Settled, SleepersInPlace
      <4> QED
        BY <1>4, <4>1, <4>2 DEF InRound, WorkerPlaces
    <3>4. /\ \A t \in Threads : /\ Ins(t) \in Int /\ Outs(t) \in Int
                                /\ Ins(t) \in {Outs(t), Outs(t) + 1}
          /\ \A e \in edges : /\ src[e] # Host => Ins(e) = Outs(src[e])
                              /\ dst[e] # Host => Outs(e) = Ins(dst[e])
                              /\ src[e] \in ops \cup {Host} /\ dst[e] \in ops \cup {Host}
                              /\ e \in Threads
          /\ \A o \in ops : ~HasOut(o) => Outs(o) = Outs(Host)
      BY <3>2, Phases DEF Threads
    <3>5. ASSUME NEW t \in Threads PROVE Ins(t) >= 0
      <4>1. CASE t \in Workers
        BY <1>2, <1>3, <1>5, <4>1, Places DEF Ins, Outs, InRound, RunTypes
      <4>2. CASE t = Host
        BY <1>4, <2>3, <4>2
      <4>3. CASE t \in threadless
        BY <4>3 DEF Ins
      <4> QED
        BY <4>1, <4>2, <4>3, Places DEF Live
    <3>6. ASSUME NEW o \in ops PROVE Outs(o) >= 0
      <4>1. CASE HasOut(o)
        BY <3>4, <3>5, <4>1, Places, SMTT(30) DEF HasOut
      <4>2. CASE ~HasOut(o)
        BY <1>4, <2>3, <3>4, <4>2
      <4> QED
        BY <4>1, <4>2
    <3>7. \A o \in S : Outs(o) = 0
      BY <3>2, <3>4, <3>6
    <3>8. ASSUME NEW e \in edges \ threadless, {src[e], dst[e]} \subseteq S
          PROVE  pc'[e] \in {"syncin", "atin"}
      <4>1. src[e] # Host /\ dst[e] # Host /\ e \in Workers
        BY <3>8, Places DEF Workers
      <4> QED
        BY <3>2, <3>3, <3>4, <3>7, <3>8, <4>1
    <3> QED
      BY <1>1, <1>4, <3>2, <3>3, <3>7, <3>8 DEF Asleep
  <2>6. MissingAreAwaited'
    <3>1. NotCreated = 0
      BY <1>4, <2>1, <2>3, Finiteness DEF Settled, MissingAreAwaited, IInv
    <3> QED
      BY <1>1, <3>1 DEF MissingAreAwaited
  <2> QED
    BY <1>4, <2>2, <2>4, <2>5, <2>6 DEF Settled
<1> QED
  BY <1>6, <1>7, <1>8, CallsAgain, <1>1 DEF Steady

\* Who arrives at a barrier, and where.
LEMMA Arrival ==
  ASSUME IInv, Calls, NEW t \in Live, Arriving(t)
  PROVE  /\ runs \in Nat /\ runs # 0
         /\ BarrierOf(t) \in DOMAIN size /\ BarrierOf(t) # 0 /\ t \in At(BarrierOf(t))
         /\ BarrierOf(t) = IF AtInput(t) THEN inSync[t] ELSE outSync[t]
         /\ pc[t] \notin {"atin", "atout"}
         /\ pc[t] = IF AtInput(t) THEN "syncin" ELSE "syncout"
<1>1. RunTypes /\ BeforeRuns
  BY DEF Calls
<1>2. BarrierOf(t) \in DOMAIN size /\ BarrierOf(t) # 0 /\ t \in At(BarrierOf(t)) /\ t \in Threads
  BY Places DEF BarrierOf, At
<1>3. pc[t] = IF AtInput(t) THEN "syncin" ELSE "syncout"
  BY DEF Arriving, AtInput
<1>4. runs # 0
  BY <1>1, <1>3 DEF BeforeRuns, Live
<1> QED
  BY <1>1, <1>2, <1>3, <1>4 DEF RunTypes, BarrierOf

LEMMA EarlyKeeps ==
  ASSUME IInv, Calls, Steady, NEW t \in Live, EarlyArrival(t)
  PROVE  Calls' /\ Steady'
<1>1. /\ Workers' = Workers /\ Live' = Live /\ Threads' = Threads
      /\ UNCHANGED <<ops, edges, inSync, outSync, size, threadless>>
      /\ UNCHANGED <<vars, execute, runs, work, late>>
  BY GraphAlone DEF EarlyArrival
<1>2. Host \in Live /\ Workers \subseteq Live /\ Live = Workers \cup {Host} /\ Host \notin Workers
  BY Places DEF Live
<1>3. RunTypes /\ BeforeRuns /\ HostPlaced
  BY DEF Calls
<1>0. PICK b \in DOMAIN size : b = BarrierOf(t)
  BY Arrival DEF EarlyArrival
<1>4. /\ Arriving(t) /\ runs # 0 /\ b # 0 /\ b \in Nat
      /\ b = IF AtInput(t) THEN inSync[t] ELSE outSync[t]
      /\ pc[t] \notin {"atin", "atout"}
      /\ pc[t] = IF AtInput(t) THEN "syncin" ELSE "syncout"
  BY <1>0, Arrival, Places DEF EarlyArrival
<1>5. /\ pc' = [pc EXCEPT ![t] = IF AtInput(t) THEN "atin" ELSE "atout"]
      /\ at' = [at EXCEPT ![t] = b] /\ count' = [count EXCEPT ![b] = @ + 1]
  BY <1>0 DEF EarlyArrival
<1>6. /\ pc'[t] = IF AtInput(t) THEN "atin" ELSE "atout"
      /\ at'[t] = b /\ count'[b] = count[b] + 1
      /\ \A u \in Live : u # t => pc'[u] = pc[u] /\ at'[u] = at[u]
      /\ \A c \in DOMAIN size : c # b => count'[c] = count[c]
  BY <1>3, <1>4, <1>5 DEF RunTypes
<1>7. RunTypes'
  <2>1. /\ pc' \in [Live -> WorkerPlaces \cup HostPlaces] /\ at' \in [Live -> Nat]
        /\ count' \in [DOMAIN size -> Nat]
    BY <1>3, <1>4, <1>5 DEF RunTypes, WorkerPlaces
  <2>2. pc'[Host] \in HostPlaces /\ \A u \in Workers : pc'[u] \in WorkerPlaces
    BY <1>2, <1>3, <1>6 DEF RunTypes, WorkerPlaces, HostPlaces
  <2> QED
    BY <1>1, <1>3, <2>1, <2>2 DEF RunTypes
<1>8. BeforeRuns' /\ HostPlaced'
  <2>1. pc'[Host] \in {"atin", "atout", pc[Host]} /\ pc[Host] # "closed"
    BY <1>2, <1>3, <1>4, <1>6 DEF HostPlaced
  <2> QED
    BY <1>1, <1>3, <1>4, <2>1 DEF BeforeRuns, HostPlaced
<1>9. ASSUME ~late PROVE Settled'
  <2>1. Settled /\ SleepersInPlace
    <3>1. runs > 0
      BY <1>3, <1>4 DEF RunTypes
    <3> QED
      BY <1>9, <3>1 DEF Steady, Settled
  <2>2. at[t] = 0
    BY <1>2, <1>4, <2>1 DEF SleepersInPlace
  <2>3. /\ Sleepers(b)' = Sleepers(b) \cup {t} /\ t \notin Sleepers(b)
        /\ \A c \in DOMAIN size : c # b => Sleepers(c)' = Sleepers(c)
    <3>1. \A c \in DOMAIN size : c # 0
      BY Places
    <3> QED
      BY <1>1, <1>2, <1>4, <1>6, <2>2, <3>1 DEF Sleepers
  <2>4. IsFiniteSet(Sleepers(b))
    <3>1. Sleepers(b) \subseteq Threads /\ IsFiniteSet(Threads)
      BY <1>2, Places, Finiteness DEF Sleepers, IInv
    <3> QED
      BY <3>1, FS_Subset
  <2>5. \A c \in DOMAIN size : /\ count'[c] = Cardinality(Sleepers(c)')
                               /\ size[c] > 0 => count'[c] < size[c]
    <3>1. Cardinality(Sleepers(b)') = Cardinality(Sleepers(b)) + 1
      BY <2>3, <2>4, OneMore
    <3>2. size[b] > 0 => count'[b] < size[b]
      <4>1. /\ count[b] + 1 # size[b] /\ count[b] \in Nat /\ size[b] \in Int
            /\ size[b] > 0 => count[b] < size[b]
        BY <1>0, <1>3, <2>1 DEF EarlyArrival, RunTypes, SleepersInPlace, IInv, Types
      <4> QED
        BY <1>6, <4>1
    <3> QED
      BY <1>4, <1>6, <2>1, <2>3, <3>1, <3>2 DEF SleepersInPlace
  <2>6. \A u \in Live : at'[u] = IF pc'[u] = "atin" THEN inSync[u]
                                 ELSE IF pc'[u] = "atout" THEN outSync[u] ELSE 0
    BY <1>2, <1>4, <1>6, <2>1 DEF SleepersInPlace
  <2>7. \A u \in Workers : pc'[u] # "gate" /\ (execute => pc'[u] # "exited")
    BY <1>2, <1>6, <2>1 DEF SleepersInPlace
  <2>8. SleepersInPlace'
    BY <1>1, <1>2, <2>5, <2>6, <2>7 DEF SleepersInPlace
  <2>9. ASSUME NEW u \in Threads PROVE Ins(u)' = Ins(u) /\ Outs(u)' = Outs(u)
    <3>1. CASE u \in Live /\ u # t
      BY <1>1, <1>2, <1>6, <3>1, Places DEF Ins, Outs, InRound, Rounds
    <3>2. CASE u = t /\ t = Host
      BY <1>1, <1>2, <1>4, <1>6, <3>2, Places DEF Ins, Outs, InRound, Rounds
    <3>3. CASE u = t /\ t # Host
      BY <1>1, <1>2, <1>4, <1>6, <3>3, Places DEF Ins, Outs, InRound
    <3>4. CASE u \in threadless
      BY <1>1, <3>4, Places DEF Ins, Outs
    <3> QED
      BY <3>1, <3>2, <3>3, <3>4, Places
  <2>10. ~execute /\ ~Cyclic => LastRound'
    BY <1>1, <1>2, <1>6, <2>1 DEF Settled, LastRound
  <2>11. \A u \in Workers : pc[u] \in {"syncin", "atin"} => pc'[u] \in {"syncin", "atin"}
    BY <1>2, <1>4, <1>6
  <2> QED
    BY <1>1, <2>1, <2>8, <2>9, <2>10, <2>11, NobodyPasses
<1> QED
  BY <1>1, <1>7, <1>8, <1>9, CallsAgain DEF Steady

\* A barrier opens when everyone who is ever at it is.
LEMMA EveryoneIsThere ==
  ASSUME IInv, Calls, SleepersInPlace, NEW t \in Live, LastArrival(t)
  PROVE  /\ At(BarrierOf(t)) = Sleepers(BarrierOf(t)) \cup {t}
         /\ Missing(BarrierOf(t)) = 0
<1> DEFINE b == BarrierOf(t)
           all == Sleepers(b) \cup {t}
<1>1. /\ Arriving(t) /\ b \in DOMAIN size /\ b # 0 /\ t \in At(b) /\ pc[t] \notin {"atin", "atout"}
      /\ count[b] + 1 = size[b]
  BY Arrival DEF LastArrival
<1> HIDE DEF b
<1>2. t \notin Sleepers(b)
  BY <1>1 DEF SleepersInPlace, Sleepers, Live
<1>3. all \subseteq At(b)
  <2>1. ASSUME NEW u \in Sleepers(b) PROVE u \in At(b)
    BY <1>1, <2>1, Places DEF SleepersInPlace, Sleepers, At, Live
  <2> QED
    BY <1>1, <2>1
<1>4. IsFiniteSet(At(b)) /\ Cardinality(At(b)) \in Nat
  BY Finiteness DEF IInv
<1>5. IsFiniteSet(Sleepers(b))
  BY <1>3, <1>4, FS_Subset
<1>6. Cardinality(all) = count[b] + 1
  BY <1>1, <1>2, <1>5, OneMore DEF SleepersInPlace
<1>7. count[b] + 1 = Cardinality(At(b)) + Missing(b) /\ Missing(b) \in Nat
  <2>1. size[b] = Cardinality(At(b)) + Missing(b)
    BY <1>1, SizesSaid, Places DEF IInv
  <2>2. Missing(b) \in Nat
    BY Finiteness DEF IInv, Missing
  <2> QED
    BY <1>1, <2>1, <2>2
<1>8. Cardinality(all) <= Cardinality(At(b)) /\ (Cardinality(At(b)) = Cardinality(all) => At(b) = all)
  BY <1>3, <1>4, FS_Subset
<1>9. Cardinality(all) \in Nat
  BY <1>3, <1>4, FS_CardinalityType, FS_Subset
<1>10. At(b) = all /\ Missing(b) = 0
  BY <1>4, <1>6, <1>7, <1>8, <1>9
<1> QED
  BY <1>10 DEF b

LEMMA LastKeeps ==
  ASSUME IInv, Calls, Steady, NEW t \in Live, LastArrival(t)
  PROVE  Calls' /\ Steady'
<1>1. /\ Workers' = Workers /\ Live' = Live /\ Threads' = Threads
      /\ UNCHANGED <<ops, edges, inSync, outSync, size, threadless>>
      /\ UNCHANGED <<vars, execute, runs, work, late>>
  BY GraphAlone DEF LastArrival
<1>2. Host \in Live /\ Workers \subseteq Live /\ Live = Workers \cup {Host} /\ Host \notin Workers
  BY Places DEF Live
<1>3. RunTypes /\ BeforeRuns /\ HostPlaced /\ DOMAIN at = Live /\ DOMAIN pc = Live
  BY DEF Calls, RunTypes
<1>0. PICK b \in DOMAIN size : b = BarrierOf(t)
  BY Arrival DEF LastArrival
<1>4. /\ Arriving(t) /\ runs # 0 /\ runs \in Nat /\ b # 0 /\ b \in Nat
      /\ b = IF AtInput(t) THEN inSync[t] ELSE outSync[t]
      /\ pc[t] \notin {"atin", "atout"}
      /\ pc[t] = IF AtInput(t) THEN "syncin" ELSE "syncout"
  BY <1>0, Arrival, Places DEF LastArrival
<1>5. PICK released \in SUBSET Live : released = {u \in Live : at[u] = b} \cup {t}
  OBVIOUS
<1>6. /\ pc' = [u \in Live |-> IF u \in released THEN After(u) ELSE pc[u]]
      /\ at' = [u \in Live |-> IF u \in released THEN 0 ELSE at[u]]
      /\ count' = [count EXCEPT ![b] = 0]
  BY <1>0, <1>3, <1>5 DEF LastArrival
<1>7. /\ \A u \in Live : /\ pc'[u] = IF u \in released THEN After(u) ELSE pc[u]
                         /\ at'[u] = IF u \in released THEN 0 ELSE at[u]
      /\ count'[b] = 0 /\ \A c \in DOMAIN size : c # b => count'[c] = count[c]
  BY <1>3, <1>6 DEF RunTypes
<1>8. /\ \A u \in Workers : After(u) \in {"check", "loop"}
      /\ After(Host) \in IF execute THEN {"syncout", "idle"} ELSE {"syncout", "joining"}
  BY <1>2 DEF After
<1>9. RunTypes'
  <2>1. /\ pc' \in [Live -> WorkerPlaces \cup HostPlaces] /\ at' \in [Live -> Nat]
        /\ count' \in [DOMAIN size -> Nat]
    BY <1>2, <1>3, <1>6, <1>8 DEF RunTypes, WorkerPlaces, HostPlaces
  <2>2. pc'[Host] \in HostPlaces /\ \A u \in Workers : pc'[u] \in WorkerPlaces
    BY <1>2, <1>3, <1>7, <1>8 DEF RunTypes, WorkerPlaces, HostPlaces
  <2> QED
    BY <1>1, <1>3, <2>1, <2>2 DEF RunTypes
<1>10. BeforeRuns' /\ HostPlaced'
  <2>1. pc'[Host] = pc[Host] \/ pc'[Host] \in IF execute THEN {"syncout", "idle"} ELSE {"syncout", "joining"}
    BY <1>2, <1>7, <1>8
  <2>2. pc[Host] # "closed"
    BY <1>2, <1>3, <1>4 DEF HostPlaced
  <2> QED
    BY <1>1, <1>3, <1>4, <2>1, <2>2 DEF BeforeRuns, HostPlaced
<1>11. /\ UNCHANGED <<src, dst>> /\ NotCreated' = NotCreated
       /\ (Cyclic' <=> Cyclic)
       /\ \A S : Circular(S)' <=> Circular(S)
       /\ (execute' <=> execute)
  BY <1>1, GraphAlone, Zenon
<1>12. ASSUME ~late PROVE Settled'
  <2>1. Settled /\ SleepersInPlace /\ runs > 0
    <3>1. runs > 0
      BY <1>4
    <3> QED
      BY <1>12, <3>1 DEF Steady, Settled
  <2>2. At(b) = released /\ Missing(b) = 0
    BY <1>0, <1>2, <1>5, <2>1, EveryoneIsThere DEF Sleepers, Live
  <2>3. ASSUME NEW u \in released
        PROVE  \/ /\ b = inSync[u] /\ pc'[u] = IF u = Host THEN "syncout" ELSE "check"
                  /\ pc[u] \in {"syncin", "atin"}
               \/ /\ b = outSync[u] /\ pc[u] \in {"syncout", "atout"}
                  /\ pc'[u] = IF u # Host THEN "loop" ELSE IF execute THEN "idle" ELSE "joining"
    <3>0. pc'[u] = After(u)
      BY <1>7
    <3>1. CASE u = t
      BY <1>4, <3>0, <3>1 DEF After, AtInput
    <3>2. CASE u # t
      <4>1. u \in Live /\ at[u] = b
        BY <1>5, <3>2
      <4>2. \/ pc[u] = "atin" /\ b = inSync[u]
            \/ pc[u] = "atout" /\ b = outSync[u]
        BY <1>2, <1>4, <2>1, <4>1 DEF SleepersInPlace
      <4> QED
        BY <3>0, <4>2 DEF After, AtInput
    <3> QED
      BY <3>1, <3>2
  <2>4. SleepersInPlace'
    <3>1. \A u \in Live : at'[u] = IF pc'[u] = "atin" THEN inSync[u]
                                   ELSE IF pc'[u] = "atout" THEN outSync[u] ELSE 0
      <4>1. ASSUME NEW u \in released
            PROVE  at'[u] = 0 /\ pc'[u] \notin {"atin", "atout"}
        BY <1>2, <1>7, <1>8
      <4> QED
        BY <1>2, <1>7, <2>1, <4>1 DEF SleepersInPlace
    <3>2. \A u \in Workers : pc'[u] # "gate" /\ (execute => pc'[u] # "exited")
      BY <1>2, <1>7, <1>8, <2>1 DEF SleepersInPlace
    <3>3. Sleepers(b)' = {}
      BY <1>1, <1>2, <1>4, <1>5, <1>7 DEF Sleepers
    <3>4. ASSUME NEW c \in DOMAIN size, c # b PROVE Sleepers(c)' = Sleepers(c)
      <4>1. c # 0
        BY Places
      <4>2. at[t] = 0
        BY <1>2, <1>4, <2>1 DEF SleepersInPlace
      <4> QED
        BY <1>1, <1>2, <1>5, <1>7, <3>4, <4>1, <4>2 DEF Sleepers
    <3>5. \A c \in DOMAIN size : count'[c] = Cardinality(Sleepers(c)')
      BY <1>7, <2>1, <3>3, <3>4, FS_EmptySet DEF SleepersInPlace
    <3>6. \A c \in DOMAIN size : size[c] > 0 => count'[c] < size[c]
      BY <1>7, <2>1 DEF SleepersInPlace
    <3> QED
      BY <1>1, <1>2, <3>1, <3>2, <3>5, <3>6 DEF SleepersInPlace
  <2>5. ASSUME NEW u \in released
        PROVE  IF inSync[u] = b THEN Ins(u)' = Ins(u) + 1 /\ Outs(u)' = Outs(u)
               ELSE Ins(u)' = Ins(u) /\ Outs(u)' = Outs(u) + 1
    <3>1. inSync[u] # outSync[u] /\ u \in Live
      BY Places, TwoEnds
    <3>2. CASE u = Host
      <4>1. u \notin threadless
        BY <3>2, Places
      <4>2. CASE b = inSync[u]
        <5>1. pc[u] \in {"syncin", "atin"} /\ pc'[u] = "syncout"
          BY <2>3, <3>1, <3>2, <4>2
        <5> QED
          BY <1>1, <1>4, <3>2, <4>1, <4>2, <5>1 DEF Ins, Outs, InRound, Rounds
      <4>3. CASE b # inSync[u]
        <5>1. /\ b = outSync[u] /\ pc[u] \in {"syncout", "atout"}
              /\ pc'[u] \in {"idle", "joining"}
          BY <2>3, <3>1, <3>2, <4>3
        <5> QED
          BY <1>1, <1>4, <3>1, <3>2, <4>1, <4>3, <5>1 DEF Ins, Outs, InRound, Rounds
      <4> QED
        BY <4>2, <4>3
    <3>3. CASE u \in Workers
      <4>1. u \notin threadless /\ u # Host /\ work[u] \in Nat
        BY <1>2, <1>3, <3>3, Places DEF RunTypes
      <4>2. CASE b = inSync[u]
        <5>1. pc[u] \in {"syncin", "atin"} /\ pc'[u] = "check"
          BY <2>3, <3>1, <4>1, <4>2
        <5> QED
          BY <1>1, <4>1, <4>2, <5>1 DEF Ins, Outs, InRound
      <4>3. CASE b # inSync[u]
        <5>1. b = outSync[u] /\ pc[u] \in {"syncout", "atout"} /\ pc'[u] = "loop"
          BY <2>3, <3>1, <4>1, <4>3
        <5> QED
          BY <1>1, <3>1, <4>1, <4>3, <5>1 DEF Ins, Outs, InRound
      <4> QED
        BY <4>2, <4>3
    <3> QED
      BY <1>2, <3>1, <3>2, <3>3
  <2>6. ASSUME NEW u \in Threads, u \notin released
        PROVE  Ins(u)' = Ins(u) /\ Outs(u)' = Outs(u)
    <3>1. CASE u \in Live
      BY <1>1, <1>7, <2>6, <3>1 DEF Ins, Outs, InRound, Rounds
    <3>2. CASE u \in threadless
      BY <1>1, <3>2, Places DEF Ins, Outs
    <3> QED
      BY <3>1, <3>2, Places
  <2>7. ASSUME NEW c \in DOMAIN size, NEW u \in At(c)
        PROVE  Passes(u, c)' = IF c = b THEN Passes(u, c) + 1 ELSE Passes(u, c)
    <3>1. u \in Threads /\ (inSync[u] = c \/ outSync[u] = c) /\ inSync[u] # outSync[u]
      BY TwoEnds DEF At
    <3>2. Passes(u, c)' = IF inSync[u] = c THEN Ins(u)' ELSE Outs(u)'
      BY <1>1 DEF Passes
    <3>3. c = b => u \in released
      BY <2>2
    <3>4. u \in released => inSync[u] = b \/ outSync[u] = b
      BY <2>2 DEF At
    <3> QED
      BY <2>5, <2>6, <3>1, <3>2, <3>3, <3>4 DEF Passes
  <2>8. InPhase => InPhase'
    <3>0. SUFFICES ASSUME InPhase PROVE InPhase'
      OBVIOUS
    <3>1. \A c \in DOMAIN size : At(c)' = At(c)
      BY <1>1 DEF At
    <3>2. \A c \in DOMAIN size : \A u, v \in At(c) : Passes(u, c) = Passes(v, c)
      BY <3>0 DEF InPhase
    <3>3. \A c \in DOMAIN size : \A u, v \in At(c) : Passes(u, c)' = Passes(v, c)'
      BY <2>7, <3>2
    <3> QED
      BY <1>1, <3>1, <3>3 DEF InPhase
  <2>9. CirclesSleep'
    <3>1. SUFFICES ASSUME NEW S \in SUBSET ops, Circular(S) PROVE Asleep(S)'
      BY <1>1, <1>11 DEF CirclesSleep
    <3>2. Asleep(S) /\ (execute => InPhase)
      BY <2>1, <3>1 DEF Settled, CirclesSleep
    <3>3. \A o \in S : o \in Threads /\ o \in Live /\ o # Host
      BY <1>2, Places
    <3>4. ASSUME NEW e \in edges, src[e] \in S
          PROVE  inSync[e] = outSync[src[e]] /\ e \in Threads
      BY <3>3, <3>4 DEF IInv, Wiring, Threads
    <3>5. ASSUME NEW e \in edges, dst[e] \in S
          PROVE  outSync[e] = inSync[dst[e]] /\ e \in Threads
      BY <3>3, <3>5 DEF IInv, Wiring, Threads
    <3>6. ASSUME NEW o \in S
          PROVE  \E e \in edges : src[e] \in S /\ dst[e] = o
      BY <3>1 DEF Circular, Connected
    <3>7. ASSUME NEW o \in S, inSync[o] = b, o \in released
          PROVE  \E e \in edges \ threadless :
                   /\ src[e] \in S /\ dst[e] = o /\ e \in released
                   /\ e \in Threads /\ e \in Workers
                   /\ outSync[e] = b /\ pc[e] \in {"syncout", "atout"}
      <4>1. PICK e \in edges : src[e] \in S /\ dst[e] = o
        BY <3>6
      <4>2. outSync[e] = b /\ e \in Threads /\ inSync[e] # b
        BY <3>5, <3>7, <4>1, TwoEnds
      <4>3. e \in released
        BY <2>2, <4>2 DEF At
      <4>4. e \in Live /\ e # Host
        BY <4>1, <4>3, Places
      <4>5. e \in Workers /\ e \notin threadless
        BY <1>2, <4>4, Places
      <4>6. pc[e] \in {"syncout", "atout"}
        BY <2>3, <4>2, <4>3, <4>4
      <4> QED
        BY <4>1, <4>2, <4>3, <4>5, <4>6
    <3>8. CASE execute
      <4>1. \A o \in S : Ins(o) = 0
        BY <3>2, <3>8 DEF Asleep
      <4>2. ASSUME NEW o \in S PROVE Ins(o)' = 0
        <5>1. CASE o \notin released \/ inSync[o] # b
          BY <2>5, <2>6, <3>3, <4>1, <5>1
        <5>2. CASE o \in released /\ inSync[o] = b
          <6>1. PICK e \in edges \ threadless :
                  /\ src[e] \in S /\ dst[e] = o /\ e \in Threads
                  /\ pc[e] \in {"syncout", "atout"}
            BY <3>7, <5>2
          <6>2. /\ Ins(e) = Outs(src[e]) /\ Outs(e) = 0
                /\ Outs(src[e]) \in Int /\ 0 \in {Outs(src[e]), Outs(src[e]) + 1}
            BY <3>2, <3>3, <3>8, <4>1, <6>1, Phases
          <6>3. Ins(e) = Outs(e) + 1
            BY <6>1 DEF Ins, InRound
          <6> QED
            BY <6>2, <6>3
        <5> QED
          BY <5>1, <5>2
      <4> QED
        BY <1>1, <3>8, <4>2 DEF Asleep
    <3>9. CASE ~execute
      <4>1. /\ \A o \in S : pc[o] \in {"syncin", "atin"}
            /\ \A e \in edges \ threadless :
                 {src[e], dst[e]} \subseteq S => pc[e] \in {"syncin", "atin"}
        BY <3>2, <3>9 DEF Asleep
      <4>2. ASSUME NEW o \in S PROVE o \notin released
        <5>1. SUFFICES ASSUME o \in released PROVE FALSE
          OBVIOUS
        <5>2. inSync[o] = b
          BY <2>3, <4>1, <5>1
        <5>3. PICK e \in edges \ threadless :
                src[e] \in S /\ dst[e] = o /\ pc[e] \in {"syncout", "atout"}
          BY <3>7, <5>1, <5>2
        <5>4. pc[e] \in {"syncin", "atin"}
          BY <4>1, <5>3
        <5> QED
          BY <5>3, <5>4
      <4>3. ASSUME NEW e \in edges \ threadless, {src[e], dst[e]} \subseteq S
            PROVE  e \notin released
        <5>1. SUFFICES ASSUME e \in released PROVE FALSE
          OBVIOUS
        <5>2. pc[e] \in {"syncin", "atin"} /\ inSync[e] = outSync[src[e]]
          BY <3>4, <4>1, <4>3
        <5>3. outSync[src[e]] = b
          BY <2>3, <5>1, <5>2
        <5>4. src[e] \in released
          BY <2>2, <3>3, <4>3, <5>3 DEF At
        <5> QED
          BY <4>2, <4>3, <5>4
      <4>4. \A e \in edges \ threadless : e \in Live
        BY <1>2 DEF Workers
      <4> QED
        BY <1>1, <1>7, <1>11, <3>3, <3>9, <4>1, <4>2, <4>3, <4>4 DEF Asleep
    <3> QED
      BY <3>8, <3>9
  <2>10. MissingAreAwaited'
    <3>1. SUFFICES ASSUME NotCreated > 0 PROVE execute /\ Ins(Host)' = 0
      BY <1>1, <1>11 DEF MissingAreAwaited
    <3>2. execute /\ Ins(Host) = 0 /\ inSync[Host] = FrameworkInput /\ Host \in Threads
      BY <2>1, <3>1, Places DEF Settled, MissingAreAwaited, IInv, Wiring
    <3>3. b # FrameworkInput
      BY <2>2, <3>1 DEF Missing
    <3> QED
      BY <2>5, <2>6, <3>2, <3>3
  <2>11. ~execute /\ ~Cyclic => LastRound'
    BY <1>1, <1>2, <1>7, <1>8, <2>1 DEF Settled, LastRound
  <2> QED
    BY <1>1, <1>11, <2>1, <2>4, <2>8, <2>9, <2>10, <2>11 DEF Settled
<1> QED
  BY <1>1, <1>9, <1>10, <1>12, CallsAgain DEF Steady

LEMMA SystemKeeps ==
  ASSUME IInv, IInv', Calls, Steady, [SystemNext]_systemVars
  PROVE  Calls' /\ Steady'
<1>1. CASE UNCHANGED systemVars
  <2>1. UNCHANGED vars /\ UNCHANGED <<pc, at, count, execute, runs, work, late>>
    BY <1>1 DEF systemVars
  <2>2. /\ Workers' = Workers /\ Live' = Live /\ Threads' = Threads
        /\ UNCHANGED <<inSync, outSync, size, threadless>>
        /\ AskedIsConnected => AskedIsConnected'
    BY <2>1, GraphAlone
  <2>3. RunTypes' /\ BeforeRuns' /\ HostPlaced' /\ AskedIsConnected'
    BY <2>1, <2>2 DEF Calls, RunTypes, BeforeRuns, HostPlaced
  <2>4. Settled => Settled'
    <3>1. UNCHANGED <<ops, edges, src, dst, inSync, outSync, size, threadless, failures>>
      BY <2>1 DEF vars
    <3> QED
      BY <2>1, <3>1, SettledSame
  <2> QED
    BY <2>1, <2>3, <2>4 DEF Steady, Calls
<1>2. Host \in Live /\ Workers \subseteq Live /\ Live = Workers \cup {Host}
  BY DEF Live
<1> QED
  BY <1>1, <1>2, BuildKeeps, RunKeeps, ClosingKeeps, SignalKeeps, EarlyKeeps, LastKeeps, WorkersKeep DEF SystemNext

LEMMA SystemStarts ==
  ASSUME SystemInit
  PROVE  Calls /\ Steady
<1>1. Live = {Host} /\ Workers = {} /\ DOMAIN size = {1, 2}
  BY DEF SystemInit, Init, Live, Workers
<1>2. RunTypes
  <2>1. pc[Host] = "idle" /\ pc \in [Live -> HostPlaces] /\ at \in [Live -> Nat]
    BY <1>1 DEF SystemInit, HostPlaces
  <2>2. count \in [DOMAIN size -> Nat] /\ work \in [Workers -> Nat]
    BY <1>1 DEF SystemInit
  <2> QED
    BY <1>1, <2>1, <2>2 DEF SystemInit, RunTypes, HostPlaces, WorkerPlaces
<1>3. BeforeRuns
  BY <1>1 DEF SystemInit, BeforeRuns, Live
<1>4. HostPlaced /\ AskedIsConnected
  BY DEF SystemInit, Init, HostPlaced, AskedIsConnected
<1>5. Steady
  BY DEF SystemInit, Steady
<1> QED
  BY <1>2, <1>3, <1>4, <1>5 DEF Calls

\* What holds of the threads, the barriers and the host at any time, whatever graph is
\* built between the Runs; above all that whoever meets at a barrier is in phase.
LEMMA SystemInductive == SystemSpec => [](IInv /\ Calls /\ Steady)
<1>1. SystemInit => IInv /\ Calls /\ Steady
  BY Initially, SystemStarts DEF SystemInit
<1>2. IInv /\ Calls /\ Steady /\ [SystemNext]_systemVars => (IInv /\ Calls /\ Steady)'
  BY GraphStaysOrGrows, Step, SystemKeeps
<1> QED
  BY <1>1, <1>2, PTL DEF SystemSpec

\* While graphs are built and run in turn, barriers keep everyone who meets there in
\* phase (Synchronization.cpp:47-64), until one is joined or left after a Run.
THEOREM SystemInvariance == SystemSpec => []SystemInv
<1>1. IInv /\ Calls /\ Steady => SystemInv
  BY DEF Calls, Steady, SystemInv
<1> QED
  BY <1>1, SystemInductive, PTL
------------------------------------------------------------------------------
(* What follows. *)

\* Whoever works came to it in phase with the edges it depends on.
LEMMA InPhaseKeepsDependencies ==
  ASSUME IInv, Calls, InPhase, execute
  PROVE  DependenciesKept
<1> SUFFICES ASSUME NEW d \in ops, NEW o \in ops, <<d, o>> \in asked, ~OnTwoCPUs(d, o),
                    pc[o] = "busy"
             PROVE  work[d] > work[o] /\ (Cyclic \/ (work[d] = work[o] + 1 /\ pc[d] # "busy"))
  BY DEF DependenciesKept
<1>1. CASE \E e \in edges \ threadless : src[e] = d /\ dst[e] = o
  <2>1. PICK e \in edges \ threadless : src[e] = d /\ dst[e] = o
    BY <1>1
  <2>2. /\ d # Host /\ o # Host /\ d \in Workers /\ o \in Workers /\ {d, o, e, Host} \subseteq Threads
        /\ d \notin threadless /\ o \notin threadless /\ work[d] \in Nat /\ work[o] \in Nat
    <3>1. d # Host /\ o # Host /\ d \notin edges /\ o \notin edges
      BY Finiteness DEF IInv
    <3>2. d \notin threadless /\ o \notin threadless
      BY <3>1 DEF IInv, Types
    <3>3. d \in Workers /\ o \in Workers
      BY <3>2 DEF Workers
    <3> QED
      BY <3>1, <3>2, <3>3 DEF Threads, Calls, RunTypes
  <2>3. /\ \A t \in {d, o, e, Host} : Ins(t) \in Int /\ Outs(t) \in Int /\ Ins(t) \in {Outs(t), Outs(t) + 1}
        /\ Ins(e) = Outs(d) /\ Outs(e) = Ins(o)
    BY <2>1, <2>2, Phases
  <2>4. Ins(o) = work[o] + 1 /\ Outs(o) = work[o]
    BY <2>2 DEF Ins, Outs, InRound
  <2>5. Outs(d) \in {work[d], work[d] - 1} /\ (~InRound(d) => Outs(d) = work[d])
    BY <2>2 DEF Outs, InRound
  <2>6. Outs(d) >= work[o] + 1
    BY <2>2, <2>3, <2>4
  <2>7. work[d] > work[o]
    BY <2>2, <2>5, <2>6
  <2>8. ASSUME ~Cyclic PROVE work[d] = work[o] + 1 /\ pc[d] # "busy"
    <3>1. Ins(d) <= Ins(Host) /\ Outs(o) >= Outs(Host)
      BY <2>2, <2>8, Sandwich
    <3>2. Ins(d) = work[o] + 1 /\ Outs(d) = work[o] + 1
      BY <2>2, <2>3, <2>4, <2>6, <3>1
    <3>3. ~InRound(d)
      BY <2>2, <3>2 DEF Ins
    <3> QED
      BY <2>5, <3>2, <3>3 DEF InRound
  <2> QED
    BY <2>7, <2>8
<1> QED
  BY <1>1 DEF Calls, AskedIsConnected

\* Without m_threads_execute nobody begins its work.
LEMMA NobodyBegins ==
  ASSUME IInv, Calls, SystemNext, ~Build, ~execute'
  PROVE  /\ \A t \in Workers : pc'[t] = "busy" => pc[t] = "busy" /\ work'[t] = work[t]
         /\ \A t \in Workers : pc[t] # "busy" => work'[t] = work[t]
         /\ \A t \in Workers : work'[t] \in {work[t], work[t] + 1}
<1>1. RunTypes /\ Host \notin Workers /\ Live = Workers \cup {Host}
      /\ DOMAIN pc = Live /\ \A t \in Workers : work[t] \in Nat
  BY Places DEF Calls, RunTypes, Live
<1>2. CASE UNCHANGED work
  <2>1. ASSUME NEW t \in Workers, pc'[t] = "busy" PROVE pc[t] = "busy"
    <3>1. CASE Run \/ Destroy
      BY <1>1, <2>1, <3>1 DEF Run, Destroy, GateOpens
    <3>2. CASE SignalExit \/ Join
      BY <1>1, <2>1, <3>2 DEF SignalExit, Join
    <3>3. ASSUME NEW u \in Live, EarlyArrival(u) \/ LastArrival(u) PROVE pc[t] = "busy"
      BY <1>1, <2>1, <3>3 DEF EarlyArrival, LastArrival, After
    <3>4. ASSUME NEW u \in Workers, TestLoop(u) \/ TestAgain(u) \/ FinishWork(u) PROVE pc[t] = "busy"
      BY <1>1, <2>1, <3>4 DEF TestLoop, TestAgain, FinishWork
    <3> QED
      BY <1>1, <3>1, <3>2, <3>3, <3>4 DEF SystemNext
  <2> QED
    BY <1>2, <2>1
<1>3. ASSUME NEW u \in Workers, FinishWork(u)
      PROVE  /\ \A t \in Workers : pc'[t] = "busy" => pc[t] = "busy" /\ work'[t] = work[t]
             /\ \A t \in Workers : pc[t] # "busy" => work'[t] = work[t]
             /\ \A t \in Workers : work'[t] \in {work[t], work[t] + 1}
  BY <1>1, <1>3 DEF FinishWork, RunTypes
<1>4. UNCHANGED work \/ \E u \in Workers : FinishWork(u)
  BY DEF SystemNext, Run, Destroy, SignalExit, Join, EarlyArrival, LastArrival, TestLoop, TestAgain
<1> QED
  BY <1>2, <1>3, <1>4

LEMMA DependenciesStay ==
  ASSUME IInv, Calls, DependenciesKept, [SystemNext]_systemVars, ~execute',
         IInv', Calls'
  PROVE  DependenciesKept'
<1>1. CASE UNCHANGED systemVars
  <2>1. UNCHANGED <<ops, edges, src, dst, asked, dev, pc, work, late>>
    BY <1>1 DEF systemVars, vars
  <2>2. Cyclic' <=> Cyclic
    BY <2>1 DEF Cyclic, Circular, Connected
  <2> QED
    BY <2>1, <2>2 DEF DependenciesKept, OnTwoCPUs
<1>2. CASE Build
  <2>1. runs' = 0
    <3>1. UNCHANGED <<execute, runs>> /\ pc[Host] = "idle"
      BY <1>2 DEF Build
    <3>2. ~execute
      BY <3>1, Zenon
    <3> QED
      BY <3>1, <3>2 DEF Calls, HostPlaced, RunTypes
  <2>2. \A t \in Workers' : pc'[t] # "busy"
    BY <2>1 DEF Calls, BeforeRuns
  <2>3. ops' \subseteq Workers'
    BY BuilderAssumption DEF IInv, Types, Workers
  <2> QED
    BY <2>2, <2>3 DEF DependenciesKept
<1>3. CASE SystemNext /\ ~Build
  <2>1. UNCHANGED vars /\ UNCHANGED late
    BY <1>3 DEF SystemNext, Run, Destroy, SignalExit, Join, EarlyArrival, LastArrival, TestLoop,
       TestAgain, FinishWork
  <2>2. UNCHANGED <<ops, edges, src, dst, asked, dev, late>>
    BY <2>1 DEF vars
  <2>3. Cyclic' <=> Cyclic
    BY <2>2 DEF Cyclic, Circular, Connected
  <2>4. ops \subseteq Workers /\ \A t \in Workers : work[t] \in Nat
    BY Finiteness DEF IInv, Types, Workers, Calls, RunTypes
  <2>5. SUFFICES ASSUME NEW d \in ops, NEW o \in ops, <<d, o>> \in asked, pc'[o] = "busy", ~late,
                        ~OnTwoCPUs(d, o)
                 PROVE  /\ work'[d] > work'[o]
                        /\ Cyclic \/ (work'[d] = work'[o] + 1 /\ pc'[d] # "busy")
    BY <2>2, <2>3 DEF DependenciesKept, OnTwoCPUs
  <2>6. /\ pc[o] = "busy" /\ work'[o] = work[o] /\ work'[d] \in {work[d], work[d] + 1}
        /\ pc[d] # "busy" => work'[d] = work[d] /\ pc'[d] # "busy"
    BY <1>3, <2>4, <2>5, NobodyBegins
  <2>7. work[d] > work[o] /\ (Cyclic \/ (work[d] = work[o] + 1 /\ pc[d] # "busy"))
    BY <2>5, <2>6 DEF DependenciesKept
  <2>8. work[d] \in Nat /\ work[o] \in Nat
    BY <2>4
  <2> QED
    BY <2>6, <2>7, <2>8
<1> QED
  BY <1>1, <1>2, <1>3

\* Whatever calls made the graph before the first Run, with failures or cycles among
\* them, and however the threads of its runs interleave: an operation executes after
\* those it was told to depend on and, where there is no cycle, never beside one
\* (README.md:14). Two kinds of dependencies are excepted: those made after a Run, with
\* which nothing is said of the graph any more (late), and those between two different
\* CPU devices, for which the code makes no edge (OnTwoCPUs, Framework.cpp:774).
THEOREM SystemKeepsDependencies == SystemSpec => []DependenciesKept
<1> DEFINE J == IInv /\ Calls
           InRun == execute /\ ~late => DependenciesKept
<1>1. SystemInit => DependenciesKept
  BY DEF SystemInit, Init, DependenciesKept
<1>2. ASSUME J, Steady, execute, ~late PROVE DependenciesKept
  <2>1. runs > 0
    BY <1>2 DEF Calls, BeforeRuns, RunTypes
  <2> QED
    BY <1>2, <2>1, InPhaseKeepsDependencies DEF Steady, Settled
<1>3. ASSUME J, J', InRun', DependenciesKept, [SystemNext]_systemVars PROVE DependenciesKept'
  <2>1. CASE ~execute'
    BY <1>3, <2>1, DependenciesStay
  <2>2. CASE late'
    BY <2>2 DEF DependenciesKept
  <2>3. CASE execute' /\ ~late'
    BY <1>3, <2>3
  <2> QED
    BY <2>1, <2>2, <2>3
<1>4. J /\ Steady => InRun
  BY <1>2
<1> HIDE DEF J, InRun
<1>5. SystemSpec => []J /\ []InRun
  <2>1. SystemSpec => [](J /\ Steady)
    BY SystemInductive DEF J
  <2> QED
    BY <1>4, <2>1, PTL
<1> QED
  BY <1>1, <1>3, <1>5, PTL DEF SystemSpec

\* Run is blocking (Framework.hpp:111): whenever it has returned, each operation and
\* each transfer of a graph that has no cycle and was not changed after a Run was done
\* once for each Run and is over.
THEOREM SystemRunsComplete == SystemSpec => []RunComplete
<1>1. ASSUME IInv, Calls, Steady, pc[Host] = "idle", ~Cyclic, ~late, NEW t \in Workers
      PROVE  work[t] = runs /\ pc[t] \in {"gate", "loop", "syncin", "atin"}
  <2>1. BeforeRuns /\ HostPlaced /\ RunTypes
    BY <1>1 DEF Calls
  <2>2. CASE runs = 0
    BY <1>1, <2>1, <2>2 DEF BeforeRuns
  <2>3. CASE runs > 0
    <3>1. Settled /\ execute
      BY <1>1, <2>1, <2>3 DEF Steady, HostPlaced
    <3> QED
      BY <1>1, <2>3, <3>1, AllSleep
  <2> QED
    BY <2>1, <2>2, <2>3 DEF RunTypes
<1>2. IInv /\ Calls /\ Steady => RunComplete
  BY <1>1 DEF RunComplete
<1> QED
  BY <1>2, SystemInductive, PTL

\* The Framework's barriers have one side each; any other belongs to one side of an
\* operation and has on the other its edges.
LEMMA WhoMeets ==
  ASSUME IInv, NEW b \in DOMAIN size, NEW u \in At(b)
  PROVE  /\ b = FrameworkInput => inSync[u] = b
         /\ b = FrameworkOutput => outSync[u] = b
         /\ \A d \in ops : HasOut(d) /\ b = outSync[d] =>
              u = d \/ (u \in edges /\ src[u] = d /\ inSync[u] = b)
         /\ \A o \in ops : HasIn(o) /\ b = inSync[o] =>
              u = o \/ (u \in edges /\ dst[u] = o /\ outSync[u] = b)
<1>1. /\ Wiring /\ Types /\ FrameworkInput # FrameworkOutput /\ inSync[u] # outSync[u]
      /\ u \in Threads /\ (inSync[u] = b \/ outSync[u] = b)
  BY TwoEnds DEF IInv, FrameworkInput, FrameworkOutput, At
<1>2. /\ \A d \in ops : HasOut(d) => outSync[d] \notin {FrameworkInput, FrameworkOutput}
      /\ \A o \in ops : HasIn(o) => inSync[o] \notin {FrameworkInput, FrameworkOutput}
  BY <1>1 DEF Wiring
<1>3. CASE u = Host
  BY <1>1, <1>2, <1>3 DEF Wiring
<1>4. CASE u \in ops
  <2>1. \A o \in ops : ~HasIn(o) => inSync[o] = FrameworkInput
    BY <1>1 DEF Wiring
  <2>2. \A o \in ops : ~HasOut(o) => outSync[o] = FrameworkOutput
    BY <1>1 DEF Wiring
  <2>3. /\ inSync[u] # FrameworkOutput /\ outSync[u] # FrameworkInput
        /\ \A o \in ops : /\ inSync[u] = inSync[o] => inSync[o] = FrameworkInput \/ o = u
                          /\ outSync[u] = outSync[o] => outSync[o] = FrameworkOutput \/ o = u
                          /\ inSync[u] # outSync[o] /\ inSync[o] # outSync[u]
    BY <1>1, <1>4 DEF Wiring
  <2> QED
    BY <1>1, <1>2, <2>3
<1>5. CASE u \in edges
  <2>1. /\ src[u] \in ops \cup {Host} /\ dst[u] \in ops \cup {Host}
        /\ src[u] # Host \/ dst[u] # Host
        /\ inSync[u] = IF src[u] = Host THEN FrameworkInput ELSE outSync[src[u]]
        /\ outSync[u] = IF dst[u] = Host THEN FrameworkOutput ELSE inSync[dst[u]]
        /\ src[u] # Host => src[u] \in ops /\ HasOut(src[u])
        /\ dst[u] # Host => dst[u] \in ops /\ HasIn(dst[u])
    BY <1>1, <1>5 DEF Wiring, Types, HasIn, HasOut
  <2>2. \A o, p \in ops :
          /\ HasIn(o) /\ inSync[o] = inSync[p] => o = p
          /\ HasOut(o) /\ outSync[o] = outSync[p] => o = p
          /\ inSync[o] # outSync[p]
    BY <1>1, <1>2 DEF Wiring
  <2>3. b = FrameworkInput => inSync[u] = b
    BY <1>1, <1>2, <2>1
  <2>4. b = FrameworkOutput => outSync[u] = b
    BY <1>1, <1>2, <2>1
  <2>5. ASSUME NEW d \in ops, HasOut(d), b = outSync[d] PROVE src[u] = d /\ inSync[u] = b
    BY <1>1, <1>2, <2>1, <2>2, <2>5
  <2>6. ASSUME NEW o \in ops, HasIn(o), b = inSync[o] PROVE dst[u] = o /\ outSync[u] = b
    BY <1>1, <1>2, <2>1, <2>2, <2>6
  <2> QED
    BY <1>5, <2>3, <2>4, <2>5, <2>6
<1> QED
  BY <1>1, <1>3, <1>4, <1>5 DEF Threads

\* In a graph without a cycle that got all its threads, everybody asleep would mean a
\* barrier that is full.
LEMMA SomebodyMoves ==
  ASSUME IInv, Calls, Settled, runs > 0, ~Cyclic, failures = 0, Stuck
  PROVE  FALSE
<1>1. /\ RunTypes /\ HostPlaced /\ SleepersInPlace /\ InPhase /\ (~execute => LastRound)
      /\ Host \in Threads /\ ops \subseteq Workers /\ Workers \subseteq Threads
      /\ runs \in Nat /\ Rounds \in Nat /\ Rounds > 0
  <2>1. RunTypes
    BY DEF Calls
  <2> QED
    BY <2>1, Places DEF Calls, Settled, RunTypes, Rounds
<1>2. threadless = {} /\ NotCreated = 0
  <2>1. Cardinality(threadless) \in Nat /\ IsFiniteSet(threadless) /\ NotCreated \in Nat
    BY Finiteness DEF IInv
  <2>2. Cardinality(threadless) = 0 /\ NotCreated = 0
    BY <2>1 DEF NotCreated
  <2> QED
    BY <2>1, <2>2, FS_EmptySet
<1>3. Live = Threads /\ Live = Workers \cup {Host}
  BY <1>2, Places DEF Live
<1>4. ASSUME NEW b \in DOMAIN size, At(b) # {}
      PROVE  \E u \in At(b) : u \in Live /\ at[u] # b
  <2>1. SUFFICES ASSUME \A u \in At(b) : at[u] = b PROVE FALSE
    BY <1>3 DEF At
  <2>2. At(b) = Sleepers(b)
    <3>1. \A u \in Sleepers(b) : u \in At(b)
      BY <1>1, <1>3, Places DEF SleepersInPlace, Sleepers, At, Live
    <3> QED
      BY <1>3, <2>1, <3>1 DEF Sleepers, At
  <2>3. IsFiniteSet(At(b)) /\ Cardinality(At(b)) \in Nat /\ Cardinality(At(b)) # 0
    BY <1>4, Finiteness, FS_EmptySet DEF IInv
  <2>4. size[b] = Cardinality(At(b))
    BY <1>2, <2>3, SizesSaid, Places DEF IInv, Missing
  <2>5. count[b] = Cardinality(At(b)) /\ count[b] < size[b]
    BY <1>1, <2>2, <2>3, <2>4 DEF SleepersInPlace
  <2> QED
    BY <2>3, <2>4, <2>5
<1>5. \A t \in Threads : /\ Ins(t) \in Int /\ Outs(t) \in Int /\ Ins(t) \in {Outs(t), Outs(t) + 1}
                         /\ Ins(t) <= Ins(Host) /\ Outs(t) >= Outs(Host)
  BY Phases, Sandwich, <1>1
<1>6. ASSUME NEW t \in Workers
      PROVE  \/ pc[t] = "atin" /\ at[t] = inSync[t] /\ Ins(t) = Outs(t) /\ Outs(t) = work[t]
             \/ pc[t] = "atout" /\ at[t] = outSync[t] /\ Ins(t) = Outs(t) + 1
             \/ pc[t] = "exited" /\ Ins(t) = Rounds /\ Outs(t) = Rounds
  <2>1. pc[t] \in {"atin", "atout", "exited"} /\ t # Host
    BY <1>1, Places DEF Stuck, SleepersInPlace
  <2>2. pc[t] = "exited" => ~execute /\ work[t] = runs
    BY <1>1 DEF SleepersInPlace, LastRound
  <2> QED
    BY <1>1, <1>2, <2>1, <2>2 DEF SleepersInPlace, Ins, Outs, InRound, Rounds
<1>7. CASE pc[Host] = "atin"
  <2>1. Ins(Host) = Rounds - 1 /\ Outs(Host) = Rounds - 1 /\ at[Host] = FrameworkInput
    BY <1>1, <1>2, <1>7 DEF Ins, Outs, InRound, SleepersInPlace, IInv, Wiring
  <2>2. \A t \in Live : at[t] = inSync[t]
    <3>1. \A t \in Workers : Ins(t) = Rounds - 1 /\ Outs(t) = Rounds - 1
      BY <1>1, <1>5, <2>1
    <3> QED
      BY <1>1, <1>3, <1>6, <2>1, <3>1 DEF IInv, Wiring
  <2>3. FrameworkInput \in DOMAIN size /\ Host \in At(FrameworkInput)
    BY <1>1, Places DEF IInv, Wiring, At
  <2>4. PICK u \in At(FrameworkInput) : u \in Live /\ at[u] # FrameworkInput
    BY <1>4, <2>3
  <2> QED
    BY <2>2, <2>3, <2>4, WhoMeets
<1>8. CASE pc[Host] = "atout"
  <2> DEFINE k == Outs(Host)
             S == {o \in ops : pc[o] = "atin" /\ Ins(o) = k}
  <2>1. k \in Int /\ k = Rounds - 1 /\ Ins(Host) = k + 1 /\ at[Host] = FrameworkOutput
    BY <1>1, <1>2, <1>8 DEF Ins, Outs, InRound, SleepersInPlace, IInv, Wiring
  <2>2. \A t \in Threads : /\ Ins(t) \in Int /\ Outs(t) \in Int /\ Ins(t) \in {Outs(t), Outs(t) + 1}
                           /\ Ins(t) <= k + 1 /\ Outs(t) >= k
    BY <1>5, <2>1
  <2>3. ASSUME NEW t \in Workers
        PROVE  /\ Outs(t) = k => \/ pc[t] = "atin" /\ Ins(t) = k /\ at[t] = inSync[t]
                                 \/ pc[t] = "atout" /\ at[t] = outSync[t]
               /\ Ins(t) = k => pc[t] = "atin" /\ at[t] = inSync[t]
    BY <1>1, <1>6, <2>1, <2>2
  <2> HIDE DEF k
  <2>4. ASSUME NEW d \in ops, HasOut(d), d \notin S, Outs(d) = k
        PROVE  FALSE
    <3>1. d \in Workers /\ d \in Threads /\ at[d] = outSync[d]
      BY <1>1, <2>3, <2>4
    <3>2. outSync[d] \in DOMAIN size /\ d \in At(outSync[d])
      BY <3>1, Places DEF At
    <3>3. PICK u \in At(outSync[d]) : u \in Live /\ at[u] # outSync[d]
      BY <1>4, <3>2
    <3>4. u \in edges /\ src[u] = d /\ inSync[u] = outSync[d]
      BY <2>4, <3>1, <3>2, <3>3, WhoMeets
    <3>5. u \in Workers /\ Ins(u) = k
      BY <1>1, <1>2, <2>1, <2>4, <3>4, Phases, Places DEF Workers
    <3> QED
      BY <2>3, <3>3, <3>4, <3>5
  <2>5. ASSUME NEW e \in edges, Outs(e) = k, at[e] # outSync[e]
        PROVE  src[e] \in S /\ src[e] \in ops
    <3>1. e \in Workers /\ e \in Threads
      BY <1>1, <1>2 DEF Workers
    <3>2. Ins(e) = k
      BY <2>3, <2>5, <3>1
    <3>3. src[e] \in ops \cup {Host} /\ IF src[e] = Host THEN Ins(e) = Ins(Host) ELSE Ins(e) = Outs(src[e])
      BY Phases, <1>1
    <3>4. src[e] \in ops /\ Outs(src[e]) = k
      BY <2>1, <3>2, <3>3
    <3>5. HasOut(src[e])
      BY DEF HasOut
    <3> QED
      BY <2>4, <3>4, <3>5
  <2>6. S = {}
    <3>1. SUFFICES ASSUME S # {} PROVE FALSE
      OBVIOUS
    <3>2. PICK o \in S : \A d \in S : <<d, o>> \notin Connected
      <4>1. S \in SUBSET ops
        OBVIOUS
      <4> HIDE DEF S
      <4> QED
        BY <3>1, <4>1 DEF Cyclic, Circular
    <3>3. o \in ops /\ o \in Workers /\ o \in Threads /\ Ins(o) = k /\ at[o] = inSync[o]
      BY <1>1, <2>3, <3>2
    <3>4. HasIn(o)
      BY <1>1, <2>1, <3>3, Phases
    <3>5. inSync[o] \in DOMAIN size /\ o \in At(inSync[o])
      BY <3>3, Places DEF At
    <3>6. PICK u \in At(inSync[o]) : u \in Live /\ at[u] # inSync[o]
      BY <1>4, <3>5
    <3>7. u \in edges /\ dst[u] = o /\ outSync[u] = inSync[o]
      BY <3>3, <3>4, <3>5, <3>6, WhoMeets
    <3>8. Outs(u) = k
      BY <1>1, <3>3, <3>7, Phases, Places
    <3>9. src[u] \in S
      BY <2>5, <3>6, <3>7, <3>8
    <3> QED
      BY <3>2, <3>7, <3>9 DEF Connected
  <2>7. FrameworkOutput \in DOMAIN size /\ Host \in At(FrameworkOutput)
    BY <1>1, Places DEF IInv, Wiring, At
  <2>8. PICK u \in At(FrameworkOutput) : u \in Live /\ at[u] # FrameworkOutput
    BY <1>4, <2>7
  <2>9. u \in Workers /\ u \in Threads /\ outSync[u] = FrameworkOutput
    BY <1>3, <2>1, <2>7, <2>8, WhoMeets
  <2>10. Outs(u) = k
    <3>1. /\ inSync[u] # FrameworkOutput /\ inSync[Host] # FrameworkOutput
          /\ outSync[Host] = FrameworkOutput
      BY <1>1, <2>9, TwoEnds DEF IInv, Wiring
    <3>2. Passes(u, FrameworkOutput) = Passes(Host, FrameworkOutput)
      BY <1>1, <2>7, <2>8 DEF InPhase
    <3> QED
      BY <3>1, <3>2 DEF Passes, k
  <2>11. u \in edges
    BY <2>3, <2>6, <2>8, <2>9, <2>10 DEF Workers
  <2> QED
    BY <2>5, <2>6, <2>8, <2>9, <2>10, <2>11
<1>9. CASE pc[Host] = "joining"
  <2>1. ~execute /\ Rounds = runs + 1 /\ Ins(Host) = Rounds /\ Outs(Host) = Rounds
    BY <1>1, <1>2, <1>9 DEF HostPlaced, Rounds, Ins, Outs, InRound
  <2>2. ASSUME NEW t \in Workers PROVE pc[t] = "exited"
    <3>1. t \in Threads /\ Ins(t) = runs + 1 /\ Outs(t) = runs + 1
      BY <1>1, <1>5, <2>1
    <3>2. work[t] = runs
      BY <1>1, <2>1 DEF LastRound
    <3> QED
      BY <1>1, <1>6, <3>1, <3>2
  <2> QED
    BY <1>9, <2>2 DEF Stuck
<1> QED
  BY <1>7, <1>8, <1>9 DEF Stuck

\* Neither Run nor the destructor waits for a thread that will not come, whatever graph
\* the calls made and whenever they called Run: unless there is a cycle, the graph grew
\* after a Run, or a creation failed after the barriers had counted it
\* (Framework.cpp:488).
THEOREM SystemIsNeverStuck == SystemSpec => []NeverStuck
<1>1. ASSUME IInv, Calls, Steady, Stuck, ~Cyclic, ~late PROVE failures > 0
  <2>1. SUFFICES ASSUME failures = 0 PROVE FALSE
    BY <1>1, BuilderAssumption DEF IInv, Types
  <2>2. CASE runs = 0
    BY <1>1, <2>2 DEF Calls, BeforeRuns, Stuck
  <2>3. CASE runs # 0
    <3>1. runs > 0
      BY <1>1, <2>3 DEF Calls, RunTypes
    <3> QED
      BY <1>1, <2>1, <3>1, SomebodyMoves DEF Steady
  <2> QED
    BY <2>2, <2>3
<1>2. IInv /\ Calls /\ Steady => NeverStuck
  BY <1>1 DEF NeverStuck
<1> QED
  BY <1>2, SystemInductive, PTL

\* In a graph that was not changed after a Run the other two reasons are fatal: once it
\* is run, the destructor, if it has a cycle, and Run itself, if a creation failed and
\* there is no cycle, never return (Framework.cpp:134). After a change they may.
THEOREM OnlyOrderlyOnesClose == SystemSpec => []OnlyOrderlyContextsClose
<1>1. ASSUME IInv, threadless = {}, NotCreated = 0 PROVE failures = 0
  BY <1>1, FS_EmptySet, BuilderAssumption DEF NotCreated, IInv, Types
<1>2. ASSUME IInv, Calls, Settled, runs > 0, pc[Host] = "closed"
      PROVE  ~Cyclic /\ failures = 0
  <2>1. /\ ~execute /\ (\A t \in Workers : pc[t] = "exited") /\ runs \in Nat
        /\ CirclesSleep /\ MissingAreAwaited /\ (~Cyclic => InPhase)
    BY <1>2 DEF Calls, HostPlaced, RunTypes, Settled
  <2>2. ~Cyclic
    <3>1. SUFFICES ASSUME NEW S \in SUBSET ops, Circular(S) PROVE FALSE
      BY DEF Cyclic
    <3>2. PICK o \in S : pc[o] \in {"syncin", "atin"}
      BY <2>1, <3>1 DEF Circular, CirclesSleep, Asleep
    <3> QED
      BY <1>2, <2>1, <3>2, Places
  <2>3. NotCreated = 0
    BY <1>2, <2>1, Finiteness DEF MissingAreAwaited, IInv
  <2>4. threadless = {}
    <3>1. SUFFICES ASSUME NEW t \in threadless PROVE FALSE
      OBVIOUS
    <3>2. t \in Threads /\ t # Host
      BY <1>2, Places
    <3>3. Outs(t) = 0 /\ Outs(Host) = runs + 1
      BY <1>2, <2>1, <3>2 DEF Outs, Rounds
    <3>4. Outs(t) >= Outs(Host)
      BY <1>2, <2>1, <2>2, <3>2, Sandwich
    <3> QED
      BY <2>1, <3>3, <3>4
  <2> QED
    BY <1>1, <1>2, <2>2, <2>3, <2>4
<1>3. ASSUME IInv, Calls, Settled, runs > 0, pc[Host] = "idle", ~Cyclic
      PROVE  failures = 0
  <2>1. execute
    BY <1>3 DEF Calls, HostPlaced
  <2> QED
    BY <1>1, <1>3, <2>1, AllSleep
<1>4. IInv /\ Calls /\ Steady => OnlyOrderlyContextsClose
  BY <1>2, <1>3 DEF Steady, OnlyOrderlyContextsClose
<1> QED
  BY <1>4, SystemInductive, PTL

==============================================================================
