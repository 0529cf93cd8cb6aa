-------------------------- MODULE DeviceMemoryProofs --------------------------
(***************************************************************************)
(* Proofs about DeviceMemory, for any system and any number of calls.      *)
(*                                                                         *)
(* The lists of buffers grow in step with m_device_memories (InStep).  For *)
(* the choice of the GPU it is enough to know that the first list of the   *)
(* Context begins as m_devices does, and has a GPU if there is any.        *)
(***************************************************************************)
EXTENDS DeviceMemory, SequenceTheorems, TLAPS

Device == [kind : Kinds, mems : Seq(Nat)]

IsGPU(d) == devices[d].kind = "GPU"
HasGPU == \E i \in DOMAIN Platform : Platform[i] = "GPU"

\* Devices are of the system, and no compile without a failure misses its GPUs.
OfTheSystem ==
  /\ HasGPU \/ \A d \in DOMAIN devices : ~IsGPU(d)
  /\ ~broken /\ devices # << >> /\ HasGPU => \E d \in DOMAIN devices : IsGPU(d)

\* The first list the Context got.
FirstList ==
  listed # << >> =>
    \E n \in DOMAIN listed :
      /\ \A j \in 1 .. n : listed[j] = j /\ j \in DOMAIN devices
      /\ HasGPU => \E j \in 1 .. n : IsGPU(j)

QueueInv ==
  /\ devices = << >> => queue = 0
  /\ QueueFits

ListedOK == listed \in Seq(Nat) /\ \A i \in DOMAIN listed : listed[i] \in DOMAIN devices

FullInv == IInv /\ OfTheSystem /\ ListedOK /\ FirstList /\ QueueInv
------------------------------------------------------------------------------
(* What the operations do to the devices. *)

LEMMA PlatformType == Len(Platform) \in Nat \ {0} /\ DOMAIN Platform = 1 .. Len(Platform)
BY DevicesAssumption

LEMMA SeqFacts ==
  ASSUME NEW S, NEW s \in Seq(S)
  PROVE  /\ Len(s) \in Nat /\ DOMAIN s = 1 .. Len(s)
         /\ \A i \in 1 .. Len(s) : s[i] \in S
OBVIOUS

LEMMA SeqOfFunction ==
  ASSUME NEW S, NEW n \in Nat, NEW f \in [1 .. n -> S]
  PROVE  f \in Seq(S) /\ Len(f) = n
BY SeqDef

LEMMA Concat ==
  ASSUME NEW S, NEW s \in Seq(S), NEW t \in Seq(S)
  PROVE  /\ s \o t \in Seq(S) /\ Len(s \o t) = Len(s) + Len(t)
         /\ \A i \in 1 .. Len(s) + Len(t) :
              (s \o t)[i] = IF i <= Len(s) THEN s[i] ELSE t[i - Len(s)]
BY ConcatProperties

LEMMA Bounds == MaxCompiles \in Nat /\ MaxCalls \in Nat
BY DevicesAssumption

LEMMA DevicesType ==
  ASSUME TypeOK
  PROVE  /\ devices \in Seq(Device)
         /\ Len(devices) \in Nat /\ DOMAIN devices = 1 .. Len(devices)
         /\ \A d \in DOMAIN devices : devices[d] \in Device
<1>1. devices \in Seq(Device)
  BY DEF TypeOK, Device
<1> QED
  BY <1>1, SeqFacts

\* CreateDevices appends.
LEMMA Compiled ==
  ASSUME TypeOK, NEW n \in 0 .. Len(Platform), Compile(n)
  PROVE  /\ devices' \in Seq(Device)
         /\ Len(devices') = Len(devices) + n
         /\ \A d \in 1 .. Len(devices) : devices'[d] = devices[d]
         /\ \A d \in Len(devices) + 1 .. Len(devices) + n :
              devices'[d] = [kind |-> Platform[d - Len(devices)], mems |-> << >>]
<1> DEFINE new == [i \in 1 .. n |-> [kind |-> Platform[i], mems |-> << >>]]
<1>1. devices' = devices \o new /\ devices \in Seq(Device)
  BY DevicesType DEF Compile
<1>2. n \in Nat /\ \A i \in 1 .. n : new[i] \in Device
  <2>1. << >> \in Seq(Nat)
    OBVIOUS
  <2>2. n \in Nat /\ \A i \in 1 .. n : Platform[i] \in Kinds
    BY DevicesAssumption
  <2> QED
    BY <2>1, <2>2 DEF Device
<1>3. new \in Seq(Device) /\ Len(new) = n
  <2> HIDE DEF Device
  <2>1. new \in [1 .. n -> Device]
    BY <1>2
  <2> HIDE DEF new
  <2> QED
    BY <1>2, <2>1, SeqOfFunction
<1> HIDE DEF new
<1>4. /\ devices' \in Seq(Device) /\ Len(devices') = Len(devices) + n
      /\ \A d \in 1 .. Len(devices) + n :
           devices'[d] = IF d <= Len(devices) THEN devices[d] ELSE new[d - Len(devices)]
  BY <1>1, <1>2, <1>3, Concat
<1>5. Len(devices) \in Nat
  BY <1>1
<1>6. ASSUME NEW d \in Len(devices) + 1 .. Len(devices) + n
      PROVE  devices'[d] = [kind |-> Platform[d - Len(devices)], mems |-> << >>]
  <2>1. d \in 1 .. Len(devices) + n /\ ~(d <= Len(devices)) /\ d - Len(devices) \in 1 .. n
    BY <1>2, <1>5
  <2>2. devices'[d] = new[d - Len(devices)]
    BY <1>4, <2>1
  <2> QED
    BY <2>1, <2>2 DEF new
<1>7. ASSUME NEW d \in 1 .. Len(devices) PROVE devices'[d] = devices[d]
  <2>1. d \in 1 .. Len(devices) + n /\ d <= Len(devices)
    BY <1>2, <1>5
  <2> QED
    BY <1>4, <2>1
<1> QED
  BY <1>4, <1>6, <1>7

\* CreatePinnedMemory gives the first n a buffer.
LEMMA Created ==
  ASSUME TypeOK, NEW n \in 0 .. Len(devices), CreatePinnedMemory(n)
  PROVE  /\ devices' \in Seq(Device)
         /\ Len(devices') = Len(devices)
         /\ \A d \in 1 .. Len(devices) :
              /\ devices'[d].kind = devices[d].kind
              /\ devices'[d].mems = IF d <= n THEN Append(devices[d].mems, calls + 1)
                                    ELSE devices[d].mems
<1>1. /\ devices' = [d \in DOMAIN devices |-> IF d <= n THEN WithBuffer(devices[d], calls + 1)
                                               ELSE devices[d]]
      /\ calls + 1 \in Nat
  BY DevicesAssumption DEF CreatePinnedMemory, TypeOK
<1>2. \A d \in DOMAIN devices :
        /\ WithBuffer(devices[d], calls + 1) \in Device
        /\ WithBuffer(devices[d], calls + 1).kind = devices[d].kind
        /\ WithBuffer(devices[d], calls + 1).mems = Append(devices[d].mems, calls + 1)
  <2>1. SUFFICES ASSUME NEW d \in DOMAIN devices
                 PROVE  /\ WithBuffer(devices[d], calls + 1) \in Device
                        /\ WithBuffer(devices[d], calls + 1).kind = devices[d].kind
                        /\ WithBuffer(devices[d], calls + 1).mems
                             = Append(devices[d].mems, calls + 1)
    OBVIOUS
  <2>2. devices[d] \in [kind : Kinds, mems : Seq(Nat)]
    BY DevicesType DEF Device
  <2>3. devices[d].mems \in Seq(Nat)
    BY <2>2
  <2>4. Append(devices[d].mems, calls + 1) \in Seq(Nat)
    BY <1>1, <2>3
  <2>5. WithBuffer(devices[d], calls + 1)
          = [devices[d] EXCEPT !.mems = Append(devices[d].mems, calls + 1)]
    BY DEF WithBuffer
  <2> QED
    BY <2>2, <2>4, <2>5 DEF Device
<1> HIDE DEF WithBuffer
<1>3. \A d \in DOMAIN devices : devices'[d] \in Device
  BY <1>1, <1>2, DevicesType
<1>4. devices' \in Seq(Device) /\ Len(devices') = Len(devices)
  BY <1>1, <1>3, DevicesType
<1> QED
  BY <1>1, <1>2, <1>4, DevicesType
------------------------------------------------------------------------------
(* IInv is inductive. *)

LEMMA Initially == Init => FullInv
<1>1. SUFFICES ASSUME Init PROVE FullInv
  OBVIOUS
<1>2. IInv
  <2>1. devices = << >> /\ memories = << >> /\ DOMAIN devices = {}
    BY <1>1 DEF Init
  <2>2. devices \in Seq([kind : Kinds, mems : Seq(Nat)]) /\ memories \in Seq(Nat)
    BY <2>1
  <2> QED
    <3>1. 0 \in 0 .. MaxCalls /\ 0 \in 0 .. MaxCompiles
      BY Bounds
    <3>2. TypeOK
      BY <1>1, <2>1, <2>2, <3>1 DEF Init, TypeOK
    <3> QED
      BY <2>1, <3>2 DEF IInv, InStep
<1> QED
  BY <1>1, <1>2 DEF Init, FullInv, OfTheSystem, ListedOK, FirstList, QueueInv, QueueFits

LEMMA CompileKeepsIInv ==
  ASSUME IInv, NEW n \in 0 .. Len(Platform), Compile(n)
  PROVE  IInv'
<1>1. TypeOK /\ Len(devices) \in Nat /\ n \in Nat /\ DOMAIN devices = 1 .. Len(devices)
  BY PlatformType, DevicesType DEF IInv
<1>2. devices' \in Seq(Device) /\ DOMAIN devices' = 1 .. Len(devices) + n
  BY <1>1, Compiled
<1>3. /\ late' = IF memories = << >> THEN late ELSE late \cup (DOMAIN devices' \ DOMAIN devices)
      /\ UNCHANGED <<memories, calls, spoiled>>
      /\ compiles' \in 0 .. MaxCompiles /\ broken' \in BOOLEAN
  BY <1>1, DevicesAssumption DEF Compile, TypeOK
<1>4. TypeOK'
  BY <1>1, <1>2, <1>3 DEF TypeOK, Device
<1>5. InStep'
  <2>1. SUFFICES ASSUME NEW d \in DOMAIN devices', d \notin late', d \notin spoiled
                 PROVE  devices'[d].mems = memories
    BY <1>3 DEF InStep
  <2>2. CASE d \in DOMAIN devices
    BY <1>1, <1>3, <2>1, <2>2, Compiled DEF IInv, InStep
  <2>3. CASE d \notin DOMAIN devices
    <3>1. memories = << >>
      BY <1>3, <2>1, <2>3
    <3>2. d \in Len(devices) + 1 .. Len(devices) + n
      BY <1>1, <1>2, <2>3
    <3>3. devices'[d] = [kind |-> Platform[d - Len(devices)], mems |-> << >>]
      BY <1>1, <3>2, Compiled
    <3> QED
      BY <3>1, <3>3
  <2> QED
    BY <2>2, <2>3
<1> QED
  BY <1>4, <1>5 DEF IInv

LEMMA CreateKeepsIInv ==
  ASSUME IInv, NEW n \in 0 .. Len(devices), CreatePinnedMemory(n)
  PROVE  IInv'
<1>1. TypeOK /\ Len(devices) \in Nat /\ n \in Nat /\ DOMAIN devices = 1 .. Len(devices)
  BY DevicesType DEF IInv
<1>2. /\ devices' \in Seq(Device) /\ Len(devices') = Len(devices)
      /\ \A d \in 1 .. Len(devices) :
           devices'[d].mems = IF d <= n THEN Append(devices[d].mems, calls + 1)
                              ELSE devices[d].mems
  BY <1>1, Created
<1>3. DOMAIN devices' = DOMAIN devices
  BY <1>1, <1>2, SeqFacts
<1>4. /\ memories' = IF n = Len(devices) THEN Append(memories, calls + 1) ELSE memories
      /\ spoiled' = IF n = Len(devices) THEN spoiled ELSE spoiled \cup 1 .. n
      /\ UNCHANGED <<compiles, late, broken>>
  BY DEF CreatePinnedMemory
<1>5. calls' \in 0 .. MaxCalls /\ calls + 1 \in Nat
  <2>1. calls \in 0 .. MaxCalls /\ calls < MaxCalls /\ calls' = calls + 1
    BY <1>1 DEF CreatePinnedMemory, TypeOK
  <2> QED
    BY <2>1, Bounds
<1>6. memories' \in Seq(Nat)
  <2>1. memories \in Seq(Nat)
    BY <1>1 DEF TypeOK
  <2> QED
    BY <1>4, <1>5, <2>1
<1>7. spoiled' \subseteq DOMAIN devices' /\ late' \subseteq DOMAIN devices'
  <2>1. spoiled \subseteq DOMAIN devices /\ late \subseteq DOMAIN devices
    BY <1>1 DEF TypeOK
  <2>2. 1 .. n \subseteq DOMAIN devices
    BY <1>1
  <2> QED
    BY <1>3, <1>4, <2>1, <2>2
<1>8. TypeOK'
  BY <1>1, <1>2, <1>4, <1>5, <1>6, <1>7 DEF TypeOK, Device
<1>9. InStep'
  <2>1. SUFFICES ASSUME NEW d \in DOMAIN devices, d \notin late, d \notin spoiled'
                 PROVE  devices'[d].mems = memories'
    BY <1>3, <1>4 DEF InStep
  <2>2. d \notin spoiled /\ devices[d].mems = memories
    BY <1>4, <2>1 DEF IInv, InStep
  <2>3. CASE n = Len(devices)
    BY <1>1, <1>2, <1>4, <2>2, <2>3
  <2>4. CASE n # Len(devices)
    <3>1. ~(d <= n)
      <4>1. d \notin 1 .. n
        BY <1>4, <2>1, <2>4
      <4>2. d \in Nat \ {0}
        BY <1>1
      <4> QED
        BY <1>1, <4>1, <4>2
    <3> QED
      BY <1>1, <1>2, <1>4, <2>2, <2>4, <3>1
  <2> QED
    BY <2>3, <2>4
<1> QED
  BY <1>8, <1>9 DEF IInv
------------------------------------------------------------------------------
(* The choice of the GPU. *)

GPUs == {i \in DOMAIN devices : devices[i].kind = "GPU"}

\* The least of the GPUs is the one that is chosen.
LEMMA LeastIsChosen ==
  ASSUME NEW g \in GPUs, \A j \in GPUs : g <= j, GPUs \subseteq Nat
  PROVE  Chosen = g
<1> DEFINE c == CHOOSE i \in GPUs : \A j \in GPUs : i <= j
<1>1. c \in GPUs /\ \A j \in GPUs : c <= j
  OBVIOUS
<1>2. c <= g /\ g <= c /\ c \in Nat /\ g \in Nat
  BY <1>1
<1>3. c = g
  BY <1>2
<1> HIDE DEF c
<1>4. Chosen = IF GPUs = {} THEN 1 ELSE c
  BY DEF Chosen, GPUs, c
<1> QED
  BY <1>3, <1>4

\* Devices that are appended do not change it, if there is a GPU or none comes.
LEMMA ChosenStays ==
  ASSUME TypeOK, devices' \in Seq(Device), Len(devices) <= Len(devices'),
         \A d \in 1 .. Len(devices) : devices'[d].kind = devices[d].kind,
         GPUs # {} \/ GPUs' = {}
  PROVE  Chosen' = Chosen
<1>1. /\ Len(devices) \in Nat /\ DOMAIN devices = 1 .. Len(devices)
      /\ Len(devices') \in Nat /\ DOMAIN devices' = 1 .. Len(devices')
  BY DevicesType
<1>2. GPUs \subseteq Nat /\ GPUs' \subseteq Nat /\ GPUs \subseteq GPUs'
  BY <1>1 DEF GPUs
<1>3. \A i \in GPUs' \ GPUs : \A j \in GPUs : j < i
  BY <1>1 DEF GPUs
<1>4. Chosen = IF GPUs = {} THEN 1 ELSE CHOOSE i \in GPUs : \A j \in GPUs : i <= j
  BY DEF Chosen, GPUs
<1>5. Chosen' = IF GPUs' = {} THEN 1 ELSE CHOOSE i \in GPUs' : \A j \in GPUs' : i <= j
  BY DEF Chosen, GPUs
<1>6. CASE GPUs # {}
  <2>1. ASSUME NEW i
        PROVE  (i \in GPUs /\ \A j \in GPUs : i <= j)
               <=> (i \in GPUs' /\ \A j \in GPUs' : i <= j)
    <3>1. ASSUME i \in GPUs, \A j \in GPUs : i <= j, NEW j \in GPUs'
          PROVE  i <= j
      <4>1. CASE j \in GPUs
        BY <3>1, <4>1
      <4>2. CASE j \notin GPUs
        BY <1>2, <1>3, <3>1, <4>2
      <4> QED
        BY <4>1, <4>2
    <3>2. ASSUME i \in GPUs', \A j \in GPUs' : i <= j
          PROVE  i \in GPUs /\ \A j \in GPUs : i <= j
      <4>1. PICK g \in GPUs : TRUE
        BY <1>6
      <4>2. i <= g /\ i \in Nat /\ g \in Nat
        BY <1>2, <3>2, <4>1
      <4> QED
        BY <1>2, <1>3, <3>2, <4>1, <4>2
    <3> QED
      BY <1>2, <3>1, <3>2
  <2>2. (CHOOSE i : i \in GPUs /\ \A j \in GPUs : i <= j)
        = (CHOOSE i : i \in GPUs' /\ \A j \in GPUs' : i <= j)
    BY <2>1, Zenon
  <2>3. GPUs' # {}
    BY <1>2, <1>6
  <2>4. Chosen = CHOOSE i : i \in GPUs /\ \A j \in GPUs : i <= j
    BY <1>4, <1>6, Zenon
  <2>5. Chosen' = CHOOSE i : i \in GPUs' /\ \A j \in GPUs' : i <= j
    BY <1>5, <2>3, Zenon
  <2> QED
    BY <2>2, <2>4, <2>5
<1>7. CASE GPUs' = {}
  BY <1>2, <1>4, <1>5, <1>7
<1> QED
  BY <1>6, <1>7

LEMMA CompileStep ==
  ASSUME FullInv, NEW n \in 0 .. Len(Platform), Compile(n)
  PROVE  FullInv'
<1>1. IInv' /\ TypeOK
  BY CompileKeepsIInv DEF FullInv, IInv
<1>2. /\ Len(devices) \in Nat /\ n \in Nat /\ DOMAIN devices = 1 .. Len(devices)
      /\ DOMAIN devices' = 1 .. Len(devices) + n /\ Len(devices') = Len(devices) + n
  BY <1>1, PlatformType, DevicesType, Compiled
<1>3. \A d \in DOMAIN devices : IsGPU(d)' <=> IsGPU(d)
  BY <1>1, <1>2, Compiled DEF IsGPU
<1>4. \A d \in DOMAIN devices' \ DOMAIN devices :
        /\ d - Len(devices) \in 1 .. n
        /\ IsGPU(d)' <=> Platform[d - Len(devices)] = "GPU"
  <2>1. SUFFICES ASSUME NEW d \in DOMAIN devices' \ DOMAIN devices
                 PROVE  /\ d - Len(devices) \in 1 .. n
                        /\ IsGPU(d)' <=> Platform[d - Len(devices)] = "GPU"
    OBVIOUS
  <2>2. d \in Len(devices) + 1 .. Len(devices) + n /\ d - Len(devices) \in 1 .. n
    BY <1>2
  <2>3. devices'[d] = [kind |-> Platform[d - Len(devices)], mems |-> << >>]
    BY <1>1, <2>2, Compiled
  <2> QED
    BY <2>2, <2>3 DEF IsGPU
<1>5. n = Len(Platform) /\ HasGPU => \E d \in DOMAIN devices' : IsGPU(d)'
  <2>1. SUFFICES ASSUME n = Len(Platform), NEW i \in 1 .. n, Platform[i] = "GPU"
                 PROVE  \E d \in DOMAIN devices' : IsGPU(d)'
    BY PlatformType DEF HasGPU
  <2>2. /\ Len(devices) + i \in DOMAIN devices' \ DOMAIN devices
        /\ (Len(devices) + i) - Len(devices) = i
    BY <1>2
  <2> QED
    BY <1>4, <2>1, <2>2
<1>6. broken' = (broken \/ n < Len(Platform))
      /\ queue' = queue
      /\ listed' = IF n = Len(Platform) THEN Listed(devices') ELSE listed
  BY DEF Compile
<1>7. OfTheSystem'
  <2>1. HasGPU' = HasGPU
    BY DEF HasGPU
  <2>2. HasGPU \/ \A d \in DOMAIN devices' : ~IsGPU(d)'
    BY <1>2, <1>3, <1>4, PlatformType DEF FullInv, OfTheSystem, HasGPU
  <2>3. ~broken' /\ HasGPU => \E d \in DOMAIN devices' : IsGPU(d)'
    <3>1. ~broken' => ~(n < Len(Platform))
      BY <1>6, Zenon
    <3>2. n = Len(Platform) \/ n < Len(Platform)
      <4>1. Len(Platform) \in Nat
        BY PlatformType
      <4> QED
        BY <4>1
    <3> QED
      BY <1>5, <3>1, <3>2
  <2> QED
    BY <2>1, <2>2, <2>3 DEF OfTheSystem
<1>8. ListedOK' /\ FirstList'
  <2>1. CASE n # Len(Platform)
    <3>1. listed' = listed /\ DOMAIN devices \subseteq DOMAIN devices'
      BY <1>2, <1>6, <2>1
    <3>2. ListedOK'
      BY <3>1 DEF FullInv, ListedOK
    <3>3. ASSUME listed # << >>
          PROVE  \E m \in DOMAIN listed :
                   /\ \A j \in 1 .. m : listed[j] = j /\ j \in DOMAIN devices'
                   /\ HasGPU => \E j \in 1 .. m : IsGPU(j)'
      BY <1>3, <3>1, <3>3 DEF FullInv, FirstList
    <3> QED
      BY <3>1, <3>2, <3>3 DEF FirstList, HasGPU
  <2>2. CASE n = Len(Platform)
    <3> DEFINE all == [i \in DOMAIN devices' |-> i]
    <3>1. /\ listed' = listed \o all /\ listed \in Seq(Nat)
          /\ all \in Seq(Nat) /\ Len(all) = Len(devices')
          /\ \A i \in 1 .. Len(devices') : all[i] = i
      BY <1>2, <1>6, <2>2 DEF Listed, FullInv, ListedOK
    <3> HIDE DEF all
    <3>2. /\ listed' \in Seq(Nat) /\ Len(listed) \in Nat
          /\ DOMAIN listed = 1 .. Len(listed)
          /\ Len(listed') = Len(listed) + Len(devices')
          /\ \A i \in 1 .. Len(listed) : listed'[i] = listed[i]
          /\ \A i \in Len(listed) + 1 .. Len(listed) + Len(devices') :
               listed'[i] = i - Len(listed)
      <4>1. /\ listed' \in Seq(Nat) /\ Len(listed') = Len(listed) + Len(devices')
            /\ \A i \in 1 .. Len(listed) + Len(devices') :
                 listed'[i] = IF i <= Len(listed) THEN listed[i] ELSE all[i - Len(listed)]
        <5>1. /\ listed' \in Seq(Nat) /\ Len(listed') = Len(listed) + Len(all)
              /\ \A i \in 1 .. Len(listed) + Len(all) :
                   listed'[i] = IF i <= Len(listed) THEN listed[i] ELSE all[i - Len(listed)]
          BY <3>1, Concat
        <5> QED
          BY <3>1, <5>1
      <4>2. Len(listed) \in Nat /\ DOMAIN listed = 1 .. Len(listed)
        BY <3>1
      <4>3. Len(devices') \in Nat
        BY <1>2
      <4> QED
        BY <3>1, <4>1, <4>2, <4>3
    <3>3. DOMAIN listed' = 1 .. Len(listed) + Len(devices')
      BY <3>2
    <3>4. ListedOK'
      <4>1. ASSUME NEW i \in DOMAIN listed' PROVE listed'[i] \in DOMAIN devices'
        <5>1. CASE i <= Len(listed)
          <6>1. i \in DOMAIN listed
            BY <3>2, <3>3, <5>1
          <6>2. listed'[i] = listed[i] /\ listed[i] \in DOMAIN devices
            BY <3>2, <6>1 DEF FullInv, ListedOK
          <6> QED
            BY <1>2, <6>2
        <5>2. CASE i > Len(listed)
          BY <1>2, <3>2, <3>3, <5>2
        <5> QED
          BY <3>2, <3>3, <5>1, <5>2
      <4> QED
        BY <3>2, <4>1 DEF ListedOK
    <3>5. FirstList'
      <4>1. CASE listed = << >>
        <5>1. /\ Len(listed) = 0 /\ Len(devices') \in DOMAIN listed'
              /\ \A j \in 1 .. Len(devices') : listed'[j] = j /\ j \in DOMAIN devices'
          BY <1>2, <2>2, <3>2, <3>3, <4>1, PlatformType
        <5>2. HasGPU => \E j \in 1 .. Len(devices') : IsGPU(j)'
          BY <1>2, <1>5, <2>2
        <5> QED
          BY <5>1, <5>2 DEF FirstList, HasGPU
      <4>2. CASE listed # << >>
        <5>1. PICK m \in DOMAIN listed :
                /\ \A j \in 1 .. m : listed[j] = j /\ j \in DOMAIN devices
                /\ HasGPU => \E j \in 1 .. m : IsGPU(j)
          BY <4>2 DEF FullInv, FirstList
        <5>2. m \in DOMAIN listed' /\ \A j \in 1 .. m : j \in DOMAIN listed
          BY <1>2, <3>2, <3>3
        <5>3. \A j \in 1 .. m : listed'[j] = j /\ j \in DOMAIN devices' /\ (IsGPU(j) => IsGPU(j)')
          <6>1. SUFFICES ASSUME NEW j \in 1 .. m
                         PROVE  /\ listed'[j] = j /\ j \in DOMAIN devices'
                                /\ IsGPU(j) => IsGPU(j)'
            OBVIOUS
          <6>2. listed[j] = j /\ j \in DOMAIN devices /\ j \in 1 .. Len(listed)
            BY <3>2, <5>1, <5>2
          <6>3. j \in DOMAIN devices'
            BY <1>2, <6>2
          <6> QED
            BY <1>3, <3>2, <6>2, <6>3
        <5> QED
          BY <5>1, <5>2, <5>3 DEF FirstList, HasGPU
      <4> QED
        BY <4>1, <4>2
    <3> QED
      BY <3>4, <3>5
  <2> QED
    BY <2>1, <2>2
<1>9. QueueInv'
  <2>1. devices' = << >> => queue' = 0
    <3>1. devices' = << >> => devices = << >>
      BY <1>1, <1>2, Compiled DEF TypeOK
    <3> QED
      BY <1>6, <3>1 DEF FullInv, QueueInv
  <2>2. ASSUME ~broken', queue # 0 PROVE Chosen' = Chosen
    <3>1. ~broken /\ devices # << >>
      BY <1>6, <2>2 DEF FullInv, QueueInv
    <3>2. GPUs # {} \/ ~HasGPU
      BY <3>1 DEF FullInv, OfTheSystem, GPUs, IsGPU
    <3>3. ~HasGPU => GPUs' = {}
      BY <1>7 DEF OfTheSystem, GPUs, IsGPU, HasGPU
    <3> QED
      BY <1>1, <1>2, <3>2, <3>3, Compiled, ChosenStays
  <2>3. QueueFits'
    BY <1>6, <2>2 DEF FullInv, QueueInv, QueueFits
  <2> QED
    BY <2>1, <2>3 DEF QueueInv
<1> QED
  BY <1>1, <1>7, <1>8, <1>9 DEF FullInv

\* As far as the choice of the GPU goes, only the kinds of the devices count.
LEMMA SameKinds ==
  ASSUME FullInv, IInv', devices' \in Seq(Device), Len(devices') = Len(devices),
         \A d \in 1 .. Len(devices) : devices'[d].kind = devices[d].kind,
         UNCHANGED <<listed, broken>>, devices # << >>, queue' \in {queue, Chosen}
  PROVE  FullInv'
<1>1. /\ TypeOK /\ DOMAIN devices' = DOMAIN devices /\ DOMAIN devices = 1 .. Len(devices)
      /\ Len(devices) \in Nat
  BY DevicesType DEF FullInv, IInv
<1>2. \A d \in DOMAIN devices : IsGPU(d)' <=> IsGPU(d)
  BY <1>1 DEF IsGPU
<1>3. GPUs' = GPUs
  BY <1>1, <1>2 DEF GPUs, IsGPU
<1>4. Chosen' = Chosen
  BY <1>1, <1>3, ChosenStays
<1>5. devices' # << >>
  BY <1>1 DEF TypeOK
<1>6. OfTheSystem' /\ ListedOK' /\ FirstList'
  <2>1. HasGPU' = HasGPU
    BY DEF HasGPU
  <2>2. OfTheSystem' /\ ListedOK'
    BY <1>1, <1>2, <2>1 DEF FullInv, OfTheSystem, ListedOK
  <2>3. FirstList'
    BY <1>1, <1>2, <2>1 DEF FullInv, FirstList
  <2> QED
    BY <2>2, <2>3
<1>7. QueueInv'
  BY <1>4, <1>5 DEF FullInv, QueueInv, QueueFits
<1> QED
  BY <1>6, <1>7 DEF FullInv

LEMMA FailsStep ==
  ASSUME FullInv, CreatePinnedMemoryFails
  PROVE  FullInv'
<1>1. /\ UNCHANGED <<devices, memories, listed, compiles, spoiled, late, broken>>
      /\ devices # << >> /\ queue' \in {queue, Chosen} /\ calls' \in 0 .. MaxCalls
  BY DevicesAssumption
  DEF CreatePinnedMemoryFails, MakeQueue, FullInv, IInv, TypeOK
<1>2. IInv'
  BY <1>1 DEF FullInv, IInv, TypeOK, InStep
<1> QED
  BY <1>1, <1>2, SameKinds DEF FullInv, IInv, TypeOK, Device

LEMMA CreateStep ==
  ASSUME FullInv, NEW n \in 0 .. Len(devices), CreatePinnedMemory(n)
  PROVE  FullInv'
<1>1. TypeOK /\ IInv'
  BY CreateKeepsIInv DEF FullInv, IInv
<1>2. UNCHANGED <<listed, broken>> /\ devices # << >> /\ queue' \in {queue, Chosen}
  BY DEF CreatePinnedMemory, MakeQueue
<1> QED
  BY <1>1, <1>2, Created, SameKinds

LEMMA Step == FullInv /\ [Next]_vars => FullInv'
<1>1. SUFFICES ASSUME FullInv, [Next]_vars PROVE FullInv'
  OBVIOUS
<1>2. CASE UNCHANGED vars
  BY <1>1, <1>2
  DEF vars, FullInv, IInv, TypeOK, InStep, OfTheSystem, ListedOK, FirstList, QueueInv,
      QueueFits, Chosen, IsGPU, HasGPU
<1> QED
  BY <1>1, <1>2, CompileStep, FailsStep, CreateStep DEF Next

\* The lists of buffers stay in step, whatever fails.
THEOREM Invariance == Spec => []FullInv
<1>1. FullInv /\ [Next]_vars => FullInv'
  BY Step
<1> QED
  BY Initially, <1>1, PTL DEF Spec

\* The lists of buffers of all devices but the late and the spoiled grow in step with
\* the ids CreatePinnedMemory gives (Framework.cpp:446-459).
THEOREM ListsGrowInStep == Spec => []IInv
<1>1. FullInv => IInv
  BY DEF FullInv
<1> QED
  BY <1>1, Invariance, PTL

\* Device::GetCLMemory finds a memory's own buffer (Device.cpp:60), on every device
\* that is neither late nor spoiled.
THEOREM BuffersAreTheMemorys == Spec => []BuffersBelong
<1>1. IInv => BuffersBelong
  BY DEF IInv, InStep, BuffersBelong, GetCLMemory
<1> QED
  BY <1>1, ListsGrowInStep, PTL

\* What GetCLMemory found once it finds again.
THEOREM BuffersDoNotMove == Spec => BuffersStay
<1>1. ASSUME IInv, [Next]_vars, NEW d \in DOMAIN devices, NEW k \in DOMAIN memories,
             GetCLMemory(d, k) # 0
      PROVE  GetCLMemory(d, k)' = GetCLMemory(d, k)
  <2>1. TypeOK /\ d \in 1 .. Len(devices) /\ devices[d].mems \in Seq(Nat)
    BY <1>1, DevicesType DEF IInv, Device
  <2>2. k \in DOMAIN devices[d].mems
    BY <1>1 DEF GetCLMemory
  <2>3. ASSUME devices'[d].mems = devices[d].mems PROVE GetCLMemory(d, k)' = GetCLMemory(d, k)
    BY <2>3 DEF GetCLMemory
  <2>4. ASSUME NEW mem, devices'[d].mems = Append(devices[d].mems, mem)
        PROVE  GetCLMemory(d, k)' = GetCLMemory(d, k)
    <3>1. k \in DOMAIN Append(devices[d].mems, mem)
          /\ Append(devices[d].mems, mem)[k] = devices[d].mems[k]
      BY <2>1, <2>2
    <3> QED
      BY <2>2, <2>4, <3>1 DEF GetCLMemory
  <2>5. ASSUME NEW n \in 0 .. Len(Platform), Compile(n)
        PROVE  devices'[d].mems = devices[d].mems
    BY <2>1, <2>5, Compiled
  <2>6. ASSUME CreatePinnedMemoryFails \/ UNCHANGED vars
        PROVE  devices'[d].mems = devices[d].mems
    BY <2>6 DEF CreatePinnedMemoryFails, vars
  <2>7. ASSUME NEW n \in 0 .. Len(devices), CreatePinnedMemory(n)
        PROVE  devices'[d].mems \in {devices[d].mems, Append(devices[d].mems, calls + 1)}
    BY <2>1, <2>7, Created
  <2> QED
    BY <1>1, <2>3, <2>4, <2>5, <2>6, <2>7 DEF Next
<1>2. IInv /\ [Next]_vars =>
        [\A d \in DOMAIN devices : \A k \in DOMAIN memories :
           GetCLMemory(d, k) # 0 => GetCLMemory(d, k)' = GetCLMemory(d, k)]_vars
  BY <1>1
<1> QED
  BY <1>2, ListsGrowInStep, PTL DEF Spec, BuffersStay

\* The pinned queue is on the device that memories are made on, unless a compile
\* failed halfway (Framework.cpp:428).
THEOREM TheQueueFits == Spec => []QueueFits
<1>1. FullInv => QueueFits
  BY DEF FullInv, QueueInv
<1> QED
  BY <1>1, Invariance, PTL

\* The first GPU the Context lists is the one the Framework chooses.
THEOREM OneGPU == Spec => []SameGPU
<1>1. ASSUME FullInv PROVE SameGPU
  <2>1. SUFFICES ASSUME NEW i \in DOMAIN listed, IsGPU(listed[i]),
                        \A j \in 1 .. i - 1 : ~IsGPU(listed[j])
                 PROVE  listed[i] = Chosen
    BY DEF SameGPU, IsGPU
  <2>2. /\ listed \in Seq(Nat) /\ DOMAIN listed = 1 .. Len(listed) /\ Len(listed) \in Nat
        /\ listed[i] \in DOMAIN devices /\ listed # << >>
    BY <1>1, <2>1 DEF FullInv, ListedOK
  <2>3. HasGPU
    BY <1>1, <2>1, <2>2 DEF FullInv, OfTheSystem
  <2>4. PICK n \in DOMAIN listed :
          /\ \A j \in 1 .. n : listed[j] = j /\ j \in DOMAIN devices
          /\ \E j \in 1 .. n : IsGPU(j)
    BY <1>1, <2>2, <2>3 DEF FullInv, FirstList
  <2>5. i <= n
    BY <2>1, <2>2, <2>4
  <2>6. listed[i] = i /\ \A j \in 1 .. i - 1 : listed[j] = j
    BY <2>2, <2>4, <2>5
  <2>7. i \in GPUs /\ GPUs \subseteq Nat /\ \A j \in GPUs : i <= j
    BY <1>1, <2>1, <2>2, <2>6, DevicesType DEF GPUs, IsGPU, FullInv, IInv
  <2> QED
    BY <2>6, <2>7, LeastIsChosen
<1> QED
  BY <1>1, Invariance, PTL

==============================================================================
