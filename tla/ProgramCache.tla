---------------------------- MODULE ProgramCache ----------------------------
(***************************************************************************)
(* The directory openclkernelbin of compiled programs, as                  *)
(* Framework::CreateProgramForDevice uses it.  Several programs that use   *)
(* FlowCL may run from one directory at a time or one after another; any   *)
(* of them may be killed, and between their runs a driver may be replaced. *)
(*                                                                         *)
(*   file[n]    the file of that name: Absent, Unusable (not a whole       *)
(*              binary, or one that today's driver does not take) or       *)
(*              <<s, d>>, the binary of source s for device model d        *)
(*   pc[p]      where p stands in CreateProgramForDevice                   *)
(*   job[p]     the source and device model it was called for              *)
(*   result[p]  what the last call gave p: None yet, Error (an exception)  *)
(*              or a program, <<s, d>>                                     *)
(*                                                                         *)
(* History: cut, the names whose write was cut short by the end of a       *)
(* program or of the disk, or mixed with another; crossed, those that were *)
(* read while they were written; outdated, those that hold what a driver   *)
(* compiled which is no longer there; compiles.                            *)
(***************************************************************************)
EXTENDS Integers, Sequences, SequencesExt

CONSTANTS
  Programs,          \* the running programs
  Sources, Builds,   \* kernel sources, as character codes; those that compile
  Models,            \* CL_DEVICE_VENDOR and CL_DEVICE_NAME of the devices
  HashSize,          \* 2^64, or 2^32 where unsigned long is that short
  Absent, Unusable, None, Error,
  MaxCompiles        \* bound: the calls of CreateProgramForDevice

ASSUME CacheAssumption ==
  /\ Sources \subseteq Seq(-128 .. 127) /\ Builds \subseteq Sources
  /\ HashSize \in Nat \ {0} /\ MaxCompiles \in Nat

VARIABLES file, pc, job, result, cut, crossed, outdated, compiles

vars == <<file, pc, job, result, cut, crossed, outdated, compiles>>

\* The characters the loop over str.c_str() comes to: it stops at the first 0.
CString(str) ==
  LET end == SelectInSeq(str, LAMBDA c : c = 0)
  IN  IF end = 0 THEN str ELSE SubSeq(str, 1, end - 1)

\* djb2
HashString(str) ==
  FoldLeft(LAMBDA hash, c : (hash * 33 + c) % HashSize, 5381, CString(str))

\* A slip, used by no specification: the device is left out of the name.
NameSlip(s, d) == <<HashString(s), None>>

GetBinaryFileName(s, d) == <<HashString(s), d>>

Name(p) == GetBinaryFileName(job[p][1], job[p][2])
Names == {GetBinaryFileName(s, d) : s \in Sources, d \in Models}
Binaries == Sources \X Models

ASSUME MarksAssumption ==
  /\ {Absent, Unusable, None, Error} \cap Binaries = {}
  /\ Absent # Unusable /\ None # Error

TypeOK ==
  /\ file \in [Names -> Binaries \cup {Absent, Unusable}]
  /\ pc \in [Programs -> {"idle", "reading", "building", "opening", "writing"}]
  /\ job \in [Programs -> Binaries \cup {None}]
  /\ result \in [Programs -> Binaries \cup {None, Error}]
  /\ cut \subseteq Names /\ crossed \subseteq Names /\ outdated \subseteq Names
  /\ compiles \in 0 .. MaxCompiles

Init ==
  /\ file = [n \in Names |-> Absent]
  /\ pc = [p \in Programs |-> "idle"]
  /\ job = [p \in Programs |-> None]
  /\ result = [p \in Programs |-> None]
  /\ cut = {} /\ crossed = {} /\ outdated = {} /\ compiles = 0

Finish(p, r) ==
  /\ pc' = [pc EXCEPT ![p] = "idle"]
  /\ result' = [result EXCEPT ![p] = r]
------------------------------------------------------------------------------
\* FileExists. Slip: nobody asks.
CachedSlip(n) == TRUE
Cached(n) == file[n] # Absent

CreateProgramForDevice(p, s, d) ==
  /\ pc[p] = "idle" /\ compiles < MaxCompiles
  /\ compiles' = compiles + 1
  /\ job' = [job EXCEPT ![p] = <<s, d>>]
  /\ pc' = [pc EXCEPT ![p] =
              IF Cached(GetBinaryFileName(s, d)) THEN "reading" ELSE "building"]
  /\ result' = [result EXCEPT ![p] = None]
  /\ UNCHANGED <<file, cut, crossed, outdated>>

\* The driver refuses what is not a whole binary, or not one of its own.
ReadBinary(p) ==
  /\ pc[p] = "reading"
  /\ Finish(p, IF file[Name(p)] \in Binaries THEN file[Name(p)] ELSE Error)
  /\ crossed' = IF \E q \in Programs : pc[q] = "writing" /\ Name(q) = Name(p)
                THEN crossed \cup {Name(p)} ELSE crossed
  /\ UNCHANGED <<file, job, cut, outdated, compiles>>

Build(p) ==
  /\ pc[p] = "building"
  /\ IF job[p][1] \in Builds
     THEN pc' = [pc EXCEPT ![p] = "opening"] /\ UNCHANGED result
     ELSE Finish(p, Error)
  /\ UNCHANGED <<file, job, cut, crossed, outdated, compiles>>

\* The ofstream empties the file. If it cannot be opened (there is no directory of
\* the name) nobody notices: the program is built all the same.
OpenFile(p) ==
  /\ pc[p] = "opening"
  /\ \/ /\ file' = [file EXCEPT ![Name(p)] = Unusable]
        /\ pc' = [pc EXCEPT ![p] = "writing"]
        /\ UNCHANGED result
     \/ /\ Finish(p, job[p])
        /\ UNCHANGED file
  /\ UNCHANGED <<job, cut, crossed, outdated, compiles>>

\* What is written. Slip: not its last byte.
WrittenSlip(p) == Unusable
Written(p) == job[p]

\* Nor does anybody notice that a write stops short. Two that write to one file at a
\* time do no harm if they write the same; else one may end in the rest of the other.
WriteBinaryFile(p) ==
  /\ pc[p] = "writing"
  /\ \/ /\ file' = [file EXCEPT ![Name(p)] = Written(p)]
        /\ UNCHANGED cut
     \/ /\ file' = [file EXCEPT ![Name(p)] = Unusable]
        /\ cut' = cut \cup {Name(p)}
  /\ Finish(p, job[p])
  /\ UNCHANGED <<job, crossed, outdated, compiles>>

\* The program is killed, and started again.
Crash(p) ==
  /\ pc[p] # "idle"
  /\ cut' = IF pc[p] = "writing" THEN cut \cup {Name(p)} ELSE cut
  /\ Finish(p, None)
  /\ UNCHANGED <<file, job, crossed, outdated, compiles>>

\* The driver of device model d is replaced, while no program runs, by one that does
\* not take what the old one compiled. (One that takes it changes nothing here.) The
\* name of a file has the vendor and the name of the device, which stay.
UpdateDriver(d) ==
  LET old == {n \in Names : n[2] = d /\ file[n] # Absent} IN
  /\ \A p \in Programs : pc[p] = "idle"
  /\ file' = [n \in Names |-> IF n \in old THEN Unusable ELSE file[n]]
  /\ outdated' = outdated \cup old
  /\ UNCHANGED <<pc, job, result, cut, crossed, compiles>>

Next ==
  \/ \E d \in Models : UpdateDriver(d)
  \/ \E p \in Programs :
       \/ \E s \in Sources, d \in Models : CreateProgramForDevice(p, s, d)
       \/ ReadBinary(p) \/ Build(p) \/ OpenFile(p) \/ WriteBinaryFile(p) \/ Crash(p)

Spec == Init /\ [][Next]_vars
------------------------------------------------------------------------------
(* Properties. *)

Finished(p) == pc[p] = "idle" /\ job[p] # None /\ result[p] # None

\* A program is built for the device it was asked for, and from the source it was
\* asked for or one with the same hash, whoever put the binary there and whatever
\* became of it on the way. (From another source with the same hash it may be:
\* "Function will check whether the program has been compiled before",
\* Framework.cpp:220, is true of the hash.)
RightProgram ==
  \A p \in Programs : Finished(p) /\ result[p] # Error =>
    /\ result[p][2] = job[p][2]
    /\ HashString(result[p][1]) = HashString(job[p][1])

\* A source that compiles is refused only if the write of its binary was cut short
\* some time before or was going on just then, or if the binary is of a driver that
\* was replaced: of the name of the binary, that is, which sources may share.
ErrorsHaveACause ==
  \A p \in Programs : Finished(p) /\ result[p] = Error /\ job[p][1] \in Builds =>
    Name(p) \in cut \cup crossed \cup outdated

\* What is in the cache was compiled, and the driver takes it: the writes leave nothing
\* between Absent and a whole binary but what was cut short or is being written, and
\* nothing else spoils a binary but a new driver.
CacheIsSound ==
  \A n \in Names : file[n] = Unusable =>
    n \in cut \cup outdated \/ \E p \in Programs : pc[p] = "writing" /\ Name(p) = n

==============================================================================
