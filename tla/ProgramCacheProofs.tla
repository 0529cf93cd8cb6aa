-------------------------- MODULE ProgramCacheProofs --------------------------
(***************************************************************************)
(* Proofs about ProgramCache, for any programs, sources, device models and *)
(* size of the hash.  What HashString computes plays no part: a binary is  *)
(* under the name of its source and model, and only names are compared.    *)
(***************************************************************************)
EXTENDS ProgramCache, TLAPS

\* Files are under their own names.
Filed == \A n \in Names : file[n] \in Binaries => GetBinaryFileName(file[n][1], file[n][2]) = n

\* A call has a job, and what comes out of one goes by the name of its job.
Jobs ==
  \A p \in Programs :
    /\ pc[p] # "idle" => job[p] \in Binaries
    /\ result[p] # None => job[p] \in Binaries
    /\ result[p] \in Binaries => GetBinaryFileName(result[p][1], result[p][2]) = Name(p)

\* A file that was there when FileExists asked is there when it is read: nobody
\* removes one.
StillThere == \A p \in Programs : pc[p] = "reading" => file[Name(p)] # Absent

\* ErrorsHaveACause, said of every program with a result.
Caused ==
  \A p \in Programs : result[p] = Error /\ job[p][1] \in Builds => Name(p) \in cut \cup crossed \cup outdated

IInv == TypeOK /\ Filed /\ Jobs /\ StillThere /\ CacheIsSound /\ Caused

LEMMA NamesOfBinaries ==
  ASSUME NEW b \in Binaries
  PROVE  /\ GetBinaryFileName(b[1], b[2]) \in Names
         /\ b = <<b[1], b[2]>> /\ b \notin {Absent, Unusable, None, Error}
BY MarksAssumption DEF Binaries, Names

LEMMA Initially == Init => IInv
<1>1. SUFFICES ASSUME Init PROVE IInv
  OBVIOUS
<1>2. \A n \in Names : file[n] = Absent /\ Absent \notin Binaries /\ Absent # Unusable
  BY <1>1, MarksAssumption DEF Init
<1>3. \A p \in Programs : pc[p] = "idle" /\ result[p] = None /\ None \notin Binaries /\ None # Error
  BY <1>1, MarksAssumption DEF Init
<1>4. TypeOK
  BY <1>1, CacheAssumption DEF Init, TypeOK
<1> QED
  BY <1>2, <1>3, <1>4 DEF IInv, Filed, Jobs, StillThere, CacheIsSound, Caused

LEMMA CreateStep ==
  ASSUME IInv, NEW p \in Programs, NEW s \in Sources, NEW d \in Models,
         CreateProgramForDevice(p, s, d)
  PROVE  IInv'
<1> DEFINE b == <<s, d>>
<1>1. b \in Binaries /\ job'[p] = b /\ result'[p] = None
  BY DEF IInv, TypeOK, CreateProgramForDevice, Binaries
<1>2. \A q \in Programs \ {p} : pc'[q] = pc[q] /\ job'[q] = job[q] /\ result'[q] = result[q]
  BY DEF IInv, TypeOK, CreateProgramForDevice
<1>3. pc'[p] \in {"reading", "building"} /\ pc[p] = "idle"
  BY DEF IInv, TypeOK, CreateProgramForDevice
<1>4. pc'[p] = "reading" => file[GetBinaryFileName(s, d)] # Absent
  BY DEF IInv, TypeOK, CreateProgramForDevice, Cached
<1>5. UNCHANGED <<file, cut, crossed, outdated>>
  BY DEF CreateProgramForDevice
<1>6. TypeOK'
  <2>1. compiles' \in 0 .. MaxCompiles
    BY CacheAssumption DEF IInv, TypeOK, CreateProgramForDevice
  <2> QED
    BY <2>1, <1>1 DEF IInv, TypeOK, CreateProgramForDevice
<1>7. Filed'
  BY <1>5 DEF IInv, Filed, GetBinaryFileName
<1>8. Jobs'
  BY <1>1, <1>2, MarksAssumption DEF IInv, Jobs, Name, GetBinaryFileName
<1>9. StillThere'
  BY <1>1, <1>2, <1>4, <1>5 DEF IInv, StillThere, Name, GetBinaryFileName
<1>10. CacheIsSound'
  BY <1>2, <1>3, <1>5 DEF IInv, CacheIsSound, Name, GetBinaryFileName
<1>11. Caused'
  BY <1>1, <1>2, <1>5, MarksAssumption DEF IInv, Caused, Name, GetBinaryFileName
<1> QED
  BY <1>6, <1>7, <1>8, <1>9, <1>10, <1>11 DEF IInv

\* The end of a call: what p gets must be right, and the rest stays as it is.
LEMMA FinishStep ==
  ASSUME IInv, NEW p \in Programs, NEW r \in Binaries \cup {None, Error},
         pc[p] # "idle", Finish(p, r), UNCHANGED job,
         file' \in [Names -> Binaries \cup {Absent, Unusable}], Filed', CacheIsSound',
         cut \subseteq cut', crossed \subseteq crossed', cut' \subseteq Names,
         crossed' \subseteq Names, UNCHANGED <<outdated, compiles>>,
         \A n \in Names : file[n] # Absent => file'[n] # Absent,
         r \in Binaries => GetBinaryFileName(r[1], r[2]) = Name(p),
         r = Error /\ job[p][1] \in Builds => Name(p) \in cut' \cup crossed' \cup outdated'
  PROVE  IInv'
<1>1. pc'[p] = "idle" /\ result'[p] = r /\ job[p] \in Binaries
  BY DEF IInv, TypeOK, Finish, Jobs
<1>2. \A q \in Programs \ {p} : pc'[q] = pc[q] /\ result'[q] = result[q]
  BY DEF IInv, TypeOK, Finish
<1>3. \A q \in Programs : Name(q)' = Name(q)
  BY DEF Name, GetBinaryFileName
<1>4. TypeOK'
  BY DEF IInv, TypeOK, Finish
<1>5. Jobs'
  BY <1>1, <1>2, <1>3 DEF IInv, Jobs, GetBinaryFileName
<1>6. StillThere'
  <2>1. \A q \in Programs : pc[q] = "reading" => Name(q) \in Names
    BY NamesOfBinaries DEF IInv, Jobs, Name
  <2> QED
    BY <1>1, <1>2, <1>3, <2>1 DEF IInv, StillThere
<1>7. Caused'
  BY <1>1, <1>2, <1>3 DEF IInv, Caused
<1> QED
  BY <1>4, <1>5, <1>6, <1>7 DEF IInv

LEMMA ReadStep ==
  ASSUME IInv, NEW p \in Programs, ReadBinary(p)
  PROVE  IInv'
<1> DEFINE n == Name(p)
           r == IF file[n] \in Binaries THEN file[n] ELSE Error
<1>1. pc[p] = "reading" /\ Finish(p, r) /\ UNCHANGED <<file, job, cut, outdated, compiles>>
  BY DEF ReadBinary
<1>2. n \in Names
  BY <1>1, NamesOfBinaries DEF IInv, Jobs, Name
<1>3. r \in Binaries => GetBinaryFileName(r[1], r[2]) = n
  BY <1>2, MarksAssumption DEF IInv, Filed
<1>4. r = Error => n \in cut \cup crossed' \cup outdated
  <2>1. SUFFICES ASSUME r = Error, n \notin cut \cup outdated PROVE n \in crossed'
    OBVIOUS
  <2>2. file[n] = Unusable
    BY <1>1, <1>2, <2>1, NamesOfBinaries DEF IInv, TypeOK, StillThere
  <2>3. \E q \in Programs : pc[q] = "writing" /\ Name(q) = n
    BY <1>2, <2>1, <2>2 DEF IInv, CacheIsSound
  <2> QED
    BY <2>3 DEF ReadBinary
<1>5. crossed \subseteq crossed' /\ crossed' \subseteq Names
  BY <1>2 DEF ReadBinary, IInv, TypeOK
<1>6. Filed'
  BY <1>1 DEF IInv, Filed, GetBinaryFileName
<1>7. CacheIsSound'
  <2>1. \A q \in Programs : pc[q] = "writing" => pc'[q] = "writing" /\ Name(q)' = Name(q)
    BY <1>1 DEF IInv, TypeOK, Finish, Name, GetBinaryFileName
  <2> QED
    BY <1>1, <2>1 DEF IInv, CacheIsSound
<1> HIDE DEF n, r
<1>8. r \in Binaries \cup {None, Error} /\ cut \subseteq Names
  BY DEF r, IInv, TypeOK
<1> QED
  BY <1>1, <1>2, <1>3, <1>4, <1>5, <1>6, <1>7, <1>8, FinishStep DEF n, IInv, TypeOK

LEMMA BuildStep ==
  ASSUME IInv, NEW p \in Programs, Build(p)
  PROVE  IInv'
<1>1. pc[p] = "building" /\ UNCHANGED <<file, job, cut, crossed, outdated, compiles>>
  BY DEF Build
<1>2. \A q \in Programs : Name(q)' = Name(q)
  BY <1>1 DEF Name, GetBinaryFileName
<1>3. Filed'
  BY <1>1 DEF IInv, Filed, GetBinaryFileName
<1>4. ASSUME pc' \in [Programs -> {"idle", "reading", "building", "opening", "writing"}],
             \A q \in Programs \ {p} : pc'[q] = pc[q]
      PROVE  CacheIsSound'
  BY <1>1, <1>2, <1>4 DEF IInv, CacheIsSound
<1>5. CASE job[p][1] \in Builds
  <2>1. pc' = [pc EXCEPT ![p] = "opening"] /\ UNCHANGED result
    BY <1>5 DEF Build
  <2>2. TypeOK' /\ \A q \in Programs \ {p} : pc'[q] = pc[q]
    BY <1>1, <2>1 DEF IInv, TypeOK
  <2>3. pc'[p] = "opening"
    BY <2>1 DEF IInv, TypeOK
  <2>4. CacheIsSound'
    BY <1>4, <2>2 DEF TypeOK
  <2>5. Jobs'
    BY <1>1, <1>2, <2>1, <2>2 DEF IInv, Jobs, GetBinaryFileName
  <2>6. StillThere'
    BY <1>1, <1>2, <2>2, <2>3 DEF IInv, StillThere
  <2>7. Caused'
    BY <1>1, <1>2, <2>1 DEF IInv, Caused
  <2> QED
    BY <1>3, <2>2, <2>4, <2>5, <2>6, <2>7 DEF IInv
<1>6. CASE job[p][1] \notin Builds
  <2>1. Finish(p, Error)
    BY <1>6 DEF Build
  <2>2. CacheIsSound'
    BY <1>4, <2>1 DEF Finish, IInv, TypeOK
  <2>3. Error \notin Binaries
    BY MarksAssumption
  <2> QED
    BY <1>1, <1>3, <1>6, <2>1, <2>2, <2>3, FinishStep DEF IInv, TypeOK
<1> QED
  BY <1>5, <1>6

LEMMA OpenStep ==
  ASSUME IInv, NEW p \in Programs, OpenFile(p)
  PROVE  IInv'
<1> DEFINE n == Name(p)
<1>1. pc[p] = "opening" /\ UNCHANGED <<job, cut, crossed, outdated, compiles>>
  BY DEF OpenFile
<1>2. n \in Names /\ job[p] \in Binaries
  BY <1>1, NamesOfBinaries DEF IInv, Jobs, Name
<1>3. \A q \in Programs : Name(q)' = Name(q)
  BY <1>1 DEF Name, GetBinaryFileName
<1>4. CASE Finish(p, job[p]) /\ UNCHANGED file
  <2>1. Filed'
    BY <1>4 DEF IInv, Filed, GetBinaryFileName
  <2>2. \A q \in Programs : pc[q] = "writing" => pc'[q] = "writing"
    BY <1>1, <1>4 DEF IInv, TypeOK, Finish
  <2>3. CacheIsSound'
    BY <1>1, <1>3, <1>4, <2>2 DEF IInv, CacheIsSound
  <2>4. job[p] # Error
    BY <1>2, NamesOfBinaries
  <2> QED
    BY <1>1, <1>2, <1>4, <2>1, <2>3, <2>4, FinishStep DEF IInv, TypeOK, Name
<1>5. CASE /\ file' = [file EXCEPT ![n] = Unusable]
           /\ pc' = [pc EXCEPT ![p] = "writing"]
           /\ UNCHANGED result
  <2>1. TypeOK' /\ file'[n] = Unusable /\ pc'[p] = "writing"
    BY <1>1, <1>2, <1>5 DEF IInv, TypeOK
  <2>2. \A m \in Names \ {n} : file'[m] = file[m]
    BY <1>5 DEF IInv, TypeOK
  <2>3. \A q \in Programs \ {p} : pc'[q] = pc[q]
    BY <1>5 DEF IInv, TypeOK
  <2>4. Filed'
    BY <2>1, <2>2, MarksAssumption DEF IInv, Filed, GetBinaryFileName
  <2>5. Jobs'
    BY <1>1, <1>2, <1>3, <1>5, <2>3 DEF IInv, Jobs, GetBinaryFileName
  <2>6. StillThere'
    <3>1. \A q \in Programs : pc[q] = "reading" => Name(q) \in Names
      BY NamesOfBinaries DEF IInv, Jobs, Name
    <3> QED
      BY <1>3, <2>1, <2>2, <2>3, <3>1, MarksAssumption DEF IInv, StillThere
  <2>7. CacheIsSound'
    <3>1. \A q \in Programs : pc[q] = "writing" => pc'[q] = "writing"
      BY <1>1, <2>1, <2>3
    <3> QED
      BY <1>1, <1>3, <2>1, <2>2, <3>1 DEF IInv, CacheIsSound
  <2>8. Caused'
    BY <1>1, <1>3, <1>5 DEF IInv, Caused
  <2> QED
    BY <2>1, <2>4, <2>5, <2>6, <2>7, <2>8 DEF IInv
<1> QED
  BY <1>4, <1>5 DEF OpenFile

LEMMA WriteStep ==
  ASSUME IInv, NEW p \in Programs, WriteBinaryFile(p)
  PROVE  IInv'
<1> DEFINE n == Name(p)
<1>1. pc[p] = "writing" /\ Finish(p, job[p]) /\ UNCHANGED <<job, crossed, outdated, compiles>>
  BY DEF WriteBinaryFile
<1>2. n \in Names /\ job[p] \in Binaries /\ job[p] \notin {Absent, Unusable, None, Error}
  BY <1>1, NamesOfBinaries DEF IInv, Jobs, Name
<1>3. \A q \in Programs : Name(q)' = Name(q)
  BY <1>1 DEF Name, GetBinaryFileName
<1>4. \A q \in Programs \ {p} : pc[q] = "writing" => pc'[q] = "writing"
  BY <1>1 DEF IInv, TypeOK, Finish
<1>5. PICK b \in {job[p], Unusable} :
        /\ file' = [file EXCEPT ![n] = b]
        /\ cut' = IF b = Unusable THEN cut \cup {n} ELSE cut
  BY <1>2 DEF WriteBinaryFile, Written
<1>6. /\ file' \in [Names -> Binaries \cup {Absent, Unusable}]
      /\ file'[n] = b /\ b # Absent
      /\ \A m \in Names \ {n} : file'[m] = file[m]
  BY <1>2, <1>5, MarksAssumption DEF IInv, TypeOK
<1>7. Filed'
  <2>1. b \in Binaries => GetBinaryFileName(b[1], b[2]) = n
    BY <1>5, MarksAssumption DEF Name
  <2> QED
    BY <1>6, <2>1 DEF IInv, Filed, GetBinaryFileName
<1>8. CacheIsSound'
  <2>1. SUFFICES ASSUME NEW m \in Names, file'[m] = Unusable, m \notin cut' \cup outdated'
                 PROVE  \E q \in Programs : pc'[q] = "writing" /\ Name(q) = m
    BY <1>3 DEF CacheIsSound
  <2>2. m # n /\ file[m] = Unusable /\ m \notin cut \cup outdated
    BY <1>1, <1>5, <1>6, <2>1
  <2>3. PICK q \in Programs : pc[q] = "writing" /\ Name(q) = m
    BY <2>1, <2>2 DEF IInv, CacheIsSound
  <2> QED
    BY <1>4, <2>2, <2>3
<1>9. cut \subseteq cut' /\ cut' \subseteq Names /\ crossed \subseteq Names
  BY <1>2, <1>5 DEF IInv, TypeOK
<1> QED
  BY <1>1, <1>2, <1>6, <1>7, <1>8, <1>9, FinishStep DEF IInv, TypeOK, Name

LEMMA CrashStep ==
  ASSUME IInv, NEW p \in Programs, Crash(p)
  PROVE  IInv'
<1> DEFINE n == Name(p)
<1>1. pc[p] # "idle" /\ Finish(p, None) /\ UNCHANGED <<file, job, crossed, outdated, compiles>>
  BY DEF Crash
<1>2. n \in Names
  BY <1>1, NamesOfBinaries DEF IInv, Jobs, Name
<1>3. cut' = IF pc[p] = "writing" THEN cut \cup {n} ELSE cut
  BY DEF Crash
<1>4. Filed'
  BY <1>1 DEF IInv, Filed, GetBinaryFileName
<1>5. CacheIsSound'
  <2>1. \A q \in Programs : Name(q)' = Name(q)
    BY <1>1 DEF Name, GetBinaryFileName
  <2>2. \A q \in Programs \ {p} : pc[q] = "writing" => pc'[q] = "writing"
    BY <1>1 DEF IInv, TypeOK, Finish
  <2> QED
    BY <1>1, <1>3, <2>1, <2>2 DEF IInv, CacheIsSound
<1>6. cut \subseteq cut' /\ cut' \subseteq Names /\ crossed \subseteq Names
  BY <1>2, <1>3 DEF IInv, TypeOK
<1> QED
  BY <1>1, <1>4, <1>5, <1>6, FinishStep, MarksAssumption DEF IInv, TypeOK

LEMMA UpdateStep ==
  ASSUME IInv, NEW d \in Models, UpdateDriver(d)
  PROVE  IInv'
<1> DEFINE old == {n \in Names : n[2] = d /\ file[n] # Absent}
<1>1. /\ \A p \in Programs : pc[p] = "idle"
      /\ UNCHANGED <<pc, job, result, cut, crossed, compiles>>
  BY DEF UpdateDriver
<1>2. file' = [n \in Names |-> IF n \in old THEN Unusable ELSE file[n]] /\ outdated' = outdated \cup old
  BY DEF UpdateDriver
<1>3. old \subseteq Names
  OBVIOUS
<1> HIDE DEF old
<1>4. TypeOK'
  BY <1>1, <1>2, <1>3 DEF IInv, TypeOK
<1>5. Filed'
  BY <1>2, MarksAssumption DEF IInv, Filed, GetBinaryFileName
<1>6. Jobs'
  BY <1>1 DEF IInv, Jobs, Name, GetBinaryFileName
<1>7. StillThere'
  BY <1>1 DEF StillThere
<1>8. CacheIsSound'
  BY <1>1, <1>2 DEF IInv, CacheIsSound
<1>9. Caused'
  BY <1>1, <1>2 DEF IInv, Caused, Name, GetBinaryFileName
<1> QED
  BY <1>4, <1>5, <1>6, <1>7, <1>8, <1>9 DEF IInv

LEMMA Step == IInv /\ [Next]_vars => IInv'
<1>1. SUFFICES ASSUME IInv, [Next]_vars PROVE IInv'
  OBVIOUS
<1>2. CASE Next
  BY <1>1, <1>2, CreateStep, ReadStep, BuildStep, OpenStep, WriteStep, CrashStep,
     UpdateStep DEF Next
<1>3. CASE UNCHANGED vars
  BY <1>1, <1>3 DEF vars, IInv, TypeOK, Filed, Jobs, StillThere, CacheIsSound, Caused,
                    Name, GetBinaryFileName
<1> QED
  BY <1>1, <1>2, <1>3

\* The inductive invariant holds whatever programs meet at the directory, whenever
\* one of them is killed, and whenever a driver is replaced between their runs.
THEOREM Invariance == Spec => []IInv
<1>1. IInv /\ [Next]_vars => IInv'
  BY Step
<1> QED
  BY Initially, <1>1, PTL DEF Spec

\* CreateProgramForDevice (Framework.cpp:223) never gives out a program for another
\* device, or of a source with another hash.
THEOREM ProgramsAreRight == Spec => []RightProgram
<1>1. ASSUME IInv PROVE RightProgram
  <2>1. SUFFICES ASSUME NEW p \in Programs, Finished(p), result[p] # Error
                 PROVE  /\ result[p][2] = job[p][2]
                        /\ HashString(result[p][1]) = HashString(job[p][1])
    BY DEF RightProgram
  <2>2. result[p] \in Binaries
    BY <1>1, <2>1 DEF IInv, TypeOK, Finished
  <2>3. GetBinaryFileName(result[p][1], result[p][2]) = GetBinaryFileName(job[p][1], job[p][2])
    BY <1>1, <2>2 DEF IInv, Jobs, Name
  <2> QED
    BY <2>3 DEF GetBinaryFileName
<1> QED
  BY <1>1, Invariance, PTL

\* A file in openclkernelbin that the driver does not take was cut short, is being
\* written, or is of a driver that was replaced.
THEOREM TheCacheIsSound == Spec => []CacheIsSound
<1>1. IInv => CacheIsSound
  BY DEF IInv
<1> QED
  BY <1>1, Invariance, PTL

\* The driver refuses a source that compiles only because of a write that was cut
\* short or overlapped by the reading, or of a binary its predecessor compiled.
THEOREM RefusalsAreCaused == Spec => []ErrorsHaveACause
<1>1. IInv => ErrorsHaveACause
  BY DEF IInv, Caused, ErrorsHaveACause
<1> QED
  BY <1>1, Invariance, PTL

==============================================================================
