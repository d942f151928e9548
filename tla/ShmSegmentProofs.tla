--------------------------- MODULE ShmSegmentProofs ---------------------------
(***************************************************************************)
(* The life of a named segment, for any number of producers and consumers, *)
(* any sizes and failing system calls: the type invariant for both ways to *)
(* create a segment, the safety properties for creation with O_EXCL, and   *)
(* what is left of them without it if all processes ask for one size.      *)
(* One lemma per action; under it one step per conjunct.                   *)
(***************************************************************************)
EXTENDS ShmSegment, TLAPS

USE SegmentAssumption DEF Procs

\* The initial state satisfies SegInv.
LEMMA InitInv == SegInit => SegInv
<1> QED
    BY DEF SegInit, SegInv, SegTypeOK, PCs, OneCreator, CreatorsFile, StatHolds,
        MappedWithinFile, CapacityAgrees, HasMapping

\* The creator gets a fresh file: nobody has it open or mapped.
LEMMA CreateOpenInv ==
    ASSUME NEW p \in Producers, SegInv, Exclusive, CreateOpen(p)
    PROVE  SegInv'
<1> DEFINE f == CHOOSE g \in Files : Unused(g)
<1>1. f \in Files /\ Unused(f)
    BY DEF CreateOpen, MayReuse
<1>2. /\ name = NoFile /\ name' = f
      /\ files' = [files EXCEPT ![f] = [size |-> 0, cap |-> 0]]
      /\ file' = [file EXCEPT ![p] = f]
      /\ pc[p] = "idle" /\ pc' = [pc EXCEPT ![p] = "open"]
    BY DEF CreateOpen, MayReuse, Goto
<1> HIDE DEF f
<1> USE <1>1, <1>2 DEF SegInv, HasMapping, Unused
<1>3. SegTypeOK'
    BY DEF SegTypeOK, PCs
<1>4. OneCreator'
    BY DEF SegTypeOK, OneCreator
<1>5. CreatorsFile'
    BY DEF SegTypeOK, CreatorsFile
<1>6. StatHolds'
    BY DEF StatHolds
<1>7. MappedWithinFile'
    BY DEF MappedWithinFile
<1>8. CapacityAgrees'
    BY DEF CapacityAgrees
<1> QED
    BY <1>3, <1>4, <1>5, <1>6, <1>7, <1>8

\* Truncate changes the length of a file no consumer has found long enough.
LEMMA CreateTruncateInv ==
    ASSUME NEW p \in Producers, SegInv, CreateTruncate(p)
    PROVE  SegInv'
<1> USE DEF SegInv, CreateTruncate, Goto, HasMapping
<1>1. SegTypeOK'
    BY DEF SegTypeOK, PCs
<1>2. OneCreator'
    BY DEF OneCreator
<1>3. CreatorsFile'
    BY DEF SegTypeOK, OneCreator, CreatorsFile
<1>4. StatHolds'
    BY DEF CreatorsFile, StatHolds
<1>5. MappedWithinFile'
    BY DEF CreatorsFile, MappedWithinFile
<1>6. CapacityAgrees'
    BY DEF CapacityAgrees
<1> QED
    BY <1>1, <1>2, <1>3, <1>4, <1>5, <1>6

\* A failed creation removes the name of its own file only.
LEMMA CreateFailsInv ==
    ASSUME NEW p \in Producers, SegInv, CreateFails(p)
    PROVE  SegInv'
<1> USE DEF SegInv, CreateFails, Goto, HasMapping, Fail
<1>1. SegTypeOK'
    BY DEF SegTypeOK, PCs
<1>2. OneCreator'
    BY DEF SegTypeOK, OneCreator
<1>3. CreatorsFile'
    BY DEF SegTypeOK, CreatorsFile
<1>4. StatHolds'
    BY DEF StatHolds
<1>5. MappedWithinFile'
    BY DEF MappedWithinFile
<1>6. CapacityAgrees'
    BY DEF CapacityAgrees
<1> QED
    BY <1>1, <1>2, <1>3, <1>4, <1>5, <1>6

\* The creator's Stat finds its own length, a consumer's goes on or retries.
LEMMA MapStatInv ==
    ASSUME NEW p \in Procs, SegInv, MapStat(p)
    PROVE  SegInv'
<1> USE DEF SegInv, MapStat, Goto, HasMapping, Fail, Fits
<1>1. SegTypeOK'
    BY DEF SegTypeOK, PCs
<1>2. OneCreator'
    BY DEF SegTypeOK, OneCreator
<1>3. CreatorsFile'
    BY DEF SegTypeOK, CreatorsFile
<1>4. StatHolds'
    BY DEF SegTypeOK, StatHolds
<1>5. MappedWithinFile'
    BY DEF SegTypeOK, MappedWithinFile
<1>6. CapacityAgrees'
    BY DEF SegTypeOK, CapacityAgrees
<1> QED
    BY <1>1, <1>2, <1>3, <1>4, <1>5, <1>6

\* Mmap: what Stat has found is still true.
LEMMA MapMmapInv ==
    ASSUME NEW p \in Procs, SegInv, MapMmap(p)
    PROVE  SegInv'
<1> USE DEF SegInv, MapMmap, Goto, HasMapping
<1>1. SegTypeOK'
    BY DEF SegTypeOK, PCs
<1>2. OneCreator'
    BY DEF OneCreator
<1>3. CreatorsFile'
    BY DEF CreatorsFile
<1>4. StatHolds'
    BY DEF StatHolds
<1>5. MappedWithinFile'
    BY DEF CreatorsFile, StatHolds, MappedWithinFile
<1>6. CapacityAgrees'
    BY DEF CapacityAgrees
<1> QED
    BY <1>1, <1>2, <1>3, <1>4, <1>5, <1>6

\* The header goes into a file no consumer is attached to.
LEMMA InitHeaderInv ==
    ASSUME NEW p \in Producers, SegInv, InitHeader(p)
    PROVE  SegInv'
<1> USE DEF SegInv, InitHeader, Goto, HasMapping, HeaderCap
<1>1. SegTypeOK'
    BY DEF SegTypeOK, PCs
<1>2. OneCreator'
    BY DEF OneCreator
<1>3. CreatorsFile'
    BY DEF SegTypeOK, OneCreator, CreatorsFile
<1>4. StatHolds'
    BY DEF StatHolds
<1>5. MappedWithinFile'
    BY DEF MappedWithinFile
<1>6. CapacityAgrees'
    BY DEF CreatorsFile, CapacityAgrees
<1> QED
    BY <1>1, <1>2, <1>3, <1>4, <1>5, <1>6

\* CloseStorage, first step.
LEMMA CloseUnmapInv ==
    ASSUME NEW p \in Producers, SegInv, CloseUnmap(p)
    PROVE  SegInv'
<1> USE DEF SegInv, CloseUnmap, Goto, HasMapping
<1>1. SegTypeOK'
    BY DEF SegTypeOK, PCs
<1>2. OneCreator'
    BY DEF SegTypeOK, OneCreator
<1>3. CreatorsFile'
    BY DEF SegTypeOK, CreatorsFile
<1>4. StatHolds'
    BY DEF StatHolds
<1>5. MappedWithinFile'
    BY DEF SegTypeOK, MappedWithinFile
<1>6. CapacityAgrees'
    BY DEF CapacityAgrees
<1> QED
    BY <1>1, <1>2, <1>3, <1>4, <1>5, <1>6

\* CloseStorage, second step: the name is still the closing producer's.
LEMMA CloseRemoveInv ==
    ASSUME NEW p \in Producers, SegInv, CloseRemove(p)
    PROVE  SegInv'
<1> USE DEF SegInv, CloseRemove, Goto, HasMapping
<1>1. SegTypeOK'
    BY DEF SegTypeOK, PCs
<1>2. OneCreator'
    BY DEF SegTypeOK, OneCreator
<1>3. CreatorsFile'
    BY DEF CreatorsFile
<1>4. StatHolds'
    BY DEF StatHolds
<1>5. MappedWithinFile'
    BY DEF MappedWithinFile
<1>6. CapacityAgrees'
    BY DEF CapacityAgrees
<1> QED
    BY <1>1, <1>2, <1>3, <1>4, <1>5, <1>6

\* A consumer starts to poll.
LEMMA PollStartInv ==
    ASSUME NEW c \in Consumers, SegInv, PollStart(c)
    PROVE  SegInv'
<1> USE DEF SegInv, PollStart, Goto, HasMapping
<1>1. SegTypeOK'
    BY DEF SegTypeOK, PCs
<1>2. OneCreator'
    BY DEF OneCreator
<1>3. CreatorsFile'
    BY DEF CreatorsFile
<1>4. StatHolds'
    BY DEF StatHolds
<1>5. MappedWithinFile'
    BY DEF MappedWithinFile
<1>6. CapacityAgrees'
    BY DEF CapacityAgrees
<1> QED
    BY <1>1, <1>2, <1>3, <1>4, <1>5, <1>6

\* A consumer gives up.
LEMMA PollGiveUpInv ==
    ASSUME NEW c \in Consumers, SegInv, PollGiveUp(c)
    PROVE  SegInv'
<1> USE DEF SegInv, PollGiveUp, Goto, HasMapping
<1>1. SegTypeOK'
    BY DEF SegTypeOK, PCs
<1>2. OneCreator'
    BY DEF OneCreator
<1>3. CreatorsFile'
    BY DEF CreatorsFile
<1>4. StatHolds'
    BY DEF StatHolds
<1>5. MappedWithinFile'
    BY DEF MappedWithinFile
<1>6. CapacityAgrees'
    BY DEF CapacityAgrees
<1> QED
    BY <1>1, <1>2, <1>3, <1>4, <1>5, <1>6

\* A consumer opens the file behind the name.
LEMMA OpenOpenInv ==
    ASSUME NEW c \in Consumers, SegInv, OpenOpen(c)
    PROVE  SegInv'
<1> USE DEF SegInv, OpenOpen, Goto, HasMapping
<1>1. SegTypeOK'
    BY DEF SegTypeOK, PCs
<1>2. OneCreator'
    BY DEF OneCreator
<1>3. CreatorsFile'
    BY DEF CreatorsFile
<1>4. StatHolds'
    BY DEF StatHolds
<1>5. MappedWithinFile'
    BY DEF MappedWithinFile
<1>6. CapacityAgrees'
    BY DEF CapacityAgrees
<1> QED
    BY <1>1, <1>2, <1>3, <1>4, <1>5, <1>6

\* A consumer's open fails half-way.
LEMMA OpenFailsInv ==
    ASSUME NEW c \in Consumers, SegInv, OpenFails(c)
    PROVE  SegInv'
<1> USE DEF SegInv, OpenFails, Goto, HasMapping, Fail
<1>1. SegTypeOK'
    BY DEF SegTypeOK, PCs
<1>2. OneCreator'
    BY DEF OneCreator
<1>3. CreatorsFile'
    BY DEF CreatorsFile
<1>4. StatHolds'
    BY DEF SegTypeOK, StatHolds
<1>5. MappedWithinFile'
    BY DEF MappedWithinFile
<1>6. CapacityAgrees'
    BY DEF CapacityAgrees
<1> QED
    BY <1>1, <1>2, <1>3, <1>4, <1>5, <1>6

\* A consumer attaches only to a header of its capacity.
LEMMA VerifyHeaderInv ==
    ASSUME NEW c \in Consumers, SegInv, VerifyHeader(c)
    PROVE  SegInv'
<1> USE DEF SegInv, VerifyHeader, Goto, HasMapping, Fail, HeaderMatches
<1>1. SegTypeOK'
    BY DEF SegTypeOK, PCs
<1>2. OneCreator'
    BY DEF SegTypeOK, OneCreator
<1>3. CreatorsFile'
    BY DEF SegTypeOK, CreatorsFile
<1>4. StatHolds'
    BY DEF SegTypeOK, StatHolds
<1>5. MappedWithinFile'
    BY DEF SegTypeOK, MappedWithinFile
<1>6. CapacityAgrees'
    BY DEF SegTypeOK, CapacityAgrees
<1> QED
    BY <1>1, <1>2, <1>3, <1>4, <1>5, <1>6

\* A Reader goes.
LEMMA ReaderCloseInv ==
    ASSUME NEW c \in Consumers, SegInv, ReaderClose(c)
    PROVE  SegInv'
<1> USE DEF SegInv, ReaderClose, Goto, HasMapping
<1>1. SegTypeOK'
    BY DEF SegTypeOK, PCs
<1>2. OneCreator'
    BY DEF OneCreator
<1>3. CreatorsFile'
    BY DEF CreatorsFile
<1>4. StatHolds'
    BY DEF StatHolds
<1>5. MappedWithinFile'
    BY DEF SegTypeOK, MappedWithinFile
<1>6. CapacityAgrees'
    BY DEF SegTypeOK, CapacityAgrees
<1> QED
    BY <1>1, <1>2, <1>3, <1>4, <1>5, <1>6

\* A killed process leaves name and file behind.
LEMMA KillInv ==
    ASSUME NEW p \in Procs, SegInv, Kill(p)
    PROVE  SegInv'
<1> USE DEF SegInv, Kill, Goto, HasMapping
<1>1. SegTypeOK'
    BY DEF SegTypeOK, PCs
<1>2. OneCreator'
    BY DEF SegTypeOK, OneCreator
<1>3. CreatorsFile'
    BY DEF SegTypeOK, CreatorsFile
<1>4. StatHolds'
    BY DEF SegTypeOK, StatHolds
<1>5. MappedWithinFile'
    BY DEF SegTypeOK, MappedWithinFile
<1>6. CapacityAgrees'
    BY DEF SegTypeOK, CapacityAgrees
<1> QED
    BY <1>1, <1>2, <1>3, <1>4, <1>5, <1>6

-----------------------------------------------------------------------------

\* With O_EXCL every step keeps SegInv.
LEMMA NextInv ==
    ASSUME Exclusive, SegInv, [SegNext]_segVars
    PROVE  SegInv'
<1>1. ASSUME NEW p \in Producers, ProducerNext(p) PROVE SegInv'
    BY <1>1, CreateOpenInv, CreateTruncateInv, CreateFailsInv, MapStatInv, MapMmapInv,
        InitHeaderInv, CloseUnmapInv, CloseRemoveInv DEF ProducerNext
<1>2. ASSUME NEW c \in Consumers, ConsumerNext(c) PROVE SegInv'
    BY <1>2, PollStartInv, PollGiveUpInv, OpenOpenInv, MapStatInv, MapMmapInv,
        VerifyHeaderInv, OpenFailsInv, ReaderCloseInv DEF ConsumerNext, OpenSteps
<1>3. ASSUME NEW p \in Procs, Kill(p) PROVE SegInv'
    BY <1>3, KillInv
<1>4. CASE UNCHANGED segVars
    BY <1>4 DEF segVars, SegInv, SegTypeOK, OneCreator, CreatorsFile, StatHolds,
        MappedWithinFile, CapacityAgrees, HasMapping
<1> QED
    BY <1>1, <1>2, <1>3, <1>4 DEF SegNext

\* Every step keeps the type invariant, with or without O_EXCL.
LEMMA TypeNext ==
    ASSUME SegTypeOK, [SegNext]_segVars
    PROVE  SegTypeOK'
<1> USE DEF SegTypeOK, PCs, Goto, Fail
<1>1. ASSUME NEW p \in Producers, CreateOpen(p) PROVE SegTypeOK'
  <2>1. CASE name # NoFile
    BY <1>1, <2>1 DEF CreateOpen
  <2>2. CASE name = NoFile
    <3> DEFINE f == CHOOSE g \in Files : Unused(g)
    <3>1. f \in Files
        BY <1>1, <2>2 DEF CreateOpen
    <3>2. /\ name' = f /\ files' = [files EXCEPT ![f] = [size |-> 0, cap |-> 0]]
          /\ file' = [file EXCEPT ![p] = f]
          /\ pc[p] = "idle" /\ pc' = [pc EXCEPT ![p] = "open"]
        BY <1>1, <2>2 DEF CreateOpen
    <3> HIDE DEF f
    <3> QED
        BY <3>1, <3>2
  <2> QED
    BY <2>1, <2>2
<1>2. ASSUME NEW p \in Producers, CreateTruncate(p) PROVE SegTypeOK'
    BY <1>2 DEF CreateTruncate
<1>3. ASSUME NEW p \in Producers, CreateFails(p) PROVE SegTypeOK'
    BY <1>3 DEF CreateFails
<1>4. ASSUME NEW p \in Procs, MapStat(p) PROVE SegTypeOK'
    BY <1>4 DEF MapStat
<1>5. ASSUME NEW p \in Procs, MapMmap(p) PROVE SegTypeOK'
    BY <1>5 DEF MapMmap
<1>6. ASSUME NEW p \in Producers, InitHeader(p) PROVE SegTypeOK'
    BY <1>6 DEF InitHeader, HeaderCap
<1>7. ASSUME NEW p \in Producers, CloseUnmap(p) \/ CloseRemove(p) PROVE SegTypeOK'
    BY <1>7 DEF CloseUnmap, CloseRemove
<1>8. ASSUME NEW c \in Consumers, PollStart(c) \/ PollGiveUp(c) PROVE SegTypeOK'
    BY <1>8 DEF PollStart, PollGiveUp
<1>9. ASSUME NEW c \in Consumers, OpenOpen(c) \/ OpenFails(c) PROVE SegTypeOK'
    BY <1>9 DEF OpenOpen, OpenFails
<1>10. ASSUME NEW c \in Consumers, VerifyHeader(c) \/ ReaderClose(c) PROVE SegTypeOK'
    BY <1>10 DEF VerifyHeader, ReaderClose
<1>11. ASSUME NEW p \in Procs, Kill(p) PROVE SegTypeOK'
    BY <1>11 DEF Kill
<1>12. CASE UNCHANGED segVars
    BY <1>12 DEF segVars
<1> HIDE DEF SegTypeOK
<1> QED
    BY <1>1, <1>2, <1>3, <1>4, <1>5, <1>6, <1>7, <1>8, <1>9, <1>10, <1>11, <1>12
        DEF SegNext, ProducerNext, ConsumerNext, OpenSteps

\* With or without O_EXCL no error path of CreateShm and OpenShm leaks a
\* descriptor or a mapping.
THEOREM SegTypeCorrect == SegSafety => []SegTypeOK
<1>1. SegInit => SegTypeOK
    BY InitInv DEF SegInv
<1>2. SegTypeOK /\ [SegNext]_segVars => SegTypeOK'
    BY TypeNext
<1> QED
    BY <1>1, <1>2, PTL DEF SegSafety

\* SegInv holds in every reachable state when the segment is created with
\* O_EXCL, as in rust/src/backend/shm.rs.
THEOREM SegInvariant == ASSUME Exclusive PROVE SegSafety => []SegInv
<1>1. SegInv /\ [SegNext]_segVars => SegInv'
    BY NextInv
<1> QED
    BY <1>1, InitInv, PTL DEF SegSafety

\* No mapping runs past the end of its file, although mapShm checks the
\* length before it maps: there is no SIGBUS for either side.
THEOREM MappedWithinFileHolds == ASSUME Exclusive PROVE SegSafety => []MappedWithinFile
<1>1. SegInv => MappedWithinFile
    BY DEF SegInv
<1> QED
    BY <1>1, SegInvariant, PTL

\* The name stands for a live Writer's segment until that Writer's Close.
THEOREM WriterReachableHolds == ASSUME Exclusive PROVE SegSafety => []WriterReachable
<1>1. SegInv => WriterReachable
    BY DEF SegInv, OneCreator, WriterReachable
<1> QED
    BY <1>1, SegInvariant, PTL

\* An attached Reader's capacity is that of its ring for as long as it is
\* attached.
THEOREM CapacityAgreesHolds == ASSUME Exclusive PROVE SegSafety => []CapacityAgrees
<1>1. SegInv => CapacityAgrees
    BY DEF SegInv
<1> QED
    BY <1>1, SegInvariant, PTL

\* A creator never writes its header into a file that somebody uses, as
\* "creates a new named shared-memory segment" (shm_linux.go:36) promises.
THEOREM NewSegmentIsNewHolds == ASSUME Exclusive PROVE SegSafety => NewSegmentIsNew
<1>1. SegInv /\ [SegNext]_segVars =>
        [\A p \in Producers : pc[p] = "mapped" /\ pc'[p] = "ready"
            => \A q \in Procs \ {p} : pc[q] = "ready" => file[q] # file[p]]_segVars
  <2> SUFFICES ASSUME SegInv, NEW p \in Producers, pc[p] = "mapped",
                      NEW q \in Procs \ {p}, pc[q] = "ready"
               PROVE  file[q] # file[p]
    OBVIOUS
  <2>1. CASE q \in Producers
    BY <2>1 DEF SegInv, OneCreator
  <2>2. CASE q \in Consumers
    BY <2>2 DEF SegInv, CreatorsFile, CapacityAgrees
  <2> QED
    BY <2>1, <2>2
<1> QED
    BY <1>1, SegInvariant, PTL DEF SegSafety, NewSegmentIsNew

-----------------------------------------------------------------------------
(* Creation without O_EXCL, as in the Go backend: producers take over each *)
(* other's files, and what is left rests on all of them asking for one     *)
(* size.                                                                   *)

\* From its Truncate or its Stat on, a process's file has the one size.
SizedFile ==
    \A p \in Procs : pc[p] \in {"sized", "fits", "mapped", "ready"}
                        => files[file[p]].size = Size[p]

\* A file is empty or has the one size, and so has its header.
FilesSound ==
    \A p \in Procs, f \in Files :
        files[f].size \in {0, Size[p]} /\ files[f].cap \in {0, Size[p]}

SameSizeInv == SegTypeOK /\ SizedFile /\ FilesSound /\ CapacityAgrees

\* Every step keeps SameSizeInv.
LEMMA SameSizeNext ==
    ASSUME \A p, q \in Procs : Size[p] = Size[q]
    PROVE  SameSizeInv /\ [SegNext]_segVars => SameSizeInv'
<1> SUFFICES ASSUME SameSizeInv, [SegNext]_segVars PROVE SameSizeInv'
  OBVIOUS
<1> USE DEF SameSizeInv, SizedFile, FilesSound, CapacityAgrees, Goto
<1>1. SegTypeOK'
  BY TypeNext
<1> USE <1>1
<1>2. ASSUME NEW p \in Producers, CreateOpen(p) PROVE SameSizeInv'
  <2>1. CASE name # NoFile
    BY <1>2, <2>1 DEF CreateOpen, SegTypeOK
  <2>2. CASE name = NoFile
    <3> DEFINE f == CHOOSE g \in Files : Unused(g)
    <3>1. f \in Files /\ Unused(f)
      BY <1>2, <2>2 DEF CreateOpen
    <3>2. /\ files' = [files EXCEPT ![f] = [size |-> 0, cap |-> 0]]
          /\ file' = [file EXCEPT ![p] = f] /\ pc' = [pc EXCEPT ![p] = "open"]
      BY <1>2, <2>2 DEF CreateOpen
    <3> HIDE DEF f
    <3>3. FilesSound'
      BY <3>1, <3>2 DEF SegTypeOK
    <3>4. SizedFile' /\ CapacityAgrees'
      BY <3>1, <3>2 DEF SegTypeOK, Unused
    <3> QED
      BY <3>3, <3>4
  <2> QED
    BY <2>1, <2>2
<1>3. ASSUME NEW p \in Producers, CreateTruncate(p) PROVE SameSizeInv'
  BY <1>3 DEF CreateTruncate, SegTypeOK
<1>4. ASSUME NEW p \in Producers, CreateFails(p) \/ CloseUnmap(p) \/ CloseRemove(p)
      PROVE  SameSizeInv'
  BY <1>4 DEF CreateFails, CloseUnmap, CloseRemove, Fail, SegTypeOK
<1>5. ASSUME NEW p \in Procs, MapStat(p) PROVE SameSizeInv'
  <2>1. CASE Fits(p) /\ Goto(p, "fits") /\ UNCHANGED <<name, file, files>>
    <3>1. pc[p] \in {"sized", "open"} /\ file[p] \in Files /\ Size[p] \in Nat \ {0}
      BY <1>5 DEF MapStat, SegTypeOK
    <3>2. files[file[p]].size = Size[p]
      BY <2>1, <3>1 DEF Fits
    <3> QED
      BY <2>1, <3>1, <3>2 DEF SegTypeOK
  <2>2. CASE Fail(p) /\ UNCHANGED files
    BY <2>2 DEF Fail, SegTypeOK
  <2> QED
    BY <1>5, <2>1, <2>2 DEF MapStat
<1>6. ASSUME NEW p \in Procs, MapMmap(p) PROVE SameSizeInv'
  BY <1>6 DEF MapMmap, SegTypeOK
<1>7. ASSUME NEW p \in Producers, InitHeader(p) PROVE SameSizeInv'
  BY <1>7 DEF InitHeader, HeaderCap, SegTypeOK
<1>8. ASSUME NEW c \in Consumers,
             PollStart(c) \/ PollGiveUp(c) \/ OpenOpen(c) \/ OpenFails(c) \/ ReaderClose(c)
      PROVE  SameSizeInv'
  BY <1>8 DEF PollStart, PollGiveUp, OpenOpen, OpenFails, ReaderClose, Fail, SegTypeOK
<1>9. ASSUME NEW c \in Consumers, VerifyHeader(c) PROVE SameSizeInv'
  BY <1>9 DEF VerifyHeader, HeaderMatches, Fail, SegTypeOK
<1>10. ASSUME NEW p \in Procs, Kill(p) PROVE SameSizeInv'
  BY <1>10 DEF Kill, SegTypeOK
<1>11. CASE UNCHANGED segVars
  BY <1>11 DEF segVars
<1> QED
  BY <1>2, <1>3, <1>4, <1>5, <1>6, <1>7, <1>8, <1>9, <1>10, <1>11
  DEF SegNext, ProducerNext, ConsumerNext, OpenSteps

\* Where all processes ask for one size, no mapping runs past the end of its
\* file and an attached Reader keeps its ring's capacity, although producers
\* without O_EXCL truncate and re-initialise each other's segment.
THEOREM SameSizeSafe ==
    ASSUME \A p, q \in Procs : Size[p] = Size[q]
    PROVE  SegSafety => [](MappedWithinFile /\ CapacityAgrees)
<1>1. SegInit => SameSizeInv
  BY InitInv DEF SegInv, SameSizeInv, SizedFile, FilesSound, SegInit
<1>2. SameSizeInv => MappedWithinFile /\ CapacityAgrees
  BY DEF SameSizeInv, SizedFile, MappedWithinFile, HasMapping
<1> QED
  BY <1>1, <1>2, SameSizeNext, PTL DEF SegSafety
=============================================================================
