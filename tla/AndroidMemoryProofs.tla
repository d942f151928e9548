------------------------- MODULE AndroidMemoryProofs -------------------------
(***************************************************************************)
(* AndroidInv is an invariant of the Android storages for any number of    *)
(* handles, descriptors and regions. One lemma per action; under it one    *)
(* step per conjunct.                                                      *)
(***************************************************************************)
EXTENDS AndroidMemory, TLAPS

USE AndroidAssumption DEF Handles

\* The initial state satisfies AndroidInv.
LEMMA InitInv == AndroidInit => AndroidInv
<1> SUFFICES ASSUME AndroidInit PROVE AndroidInv
    OBVIOUS
<1>1. AndroidTypeOK
    BY DEF AndroidInit, AndroidTypeOK, PCs
<1>2. FdsOwned /\ FdsAccounted
    BY DEF AndroidInit, FdsOwned, FdsAccounted, HasFd
<1>3. MapsItsFd /\ ReaderOnCourse /\ WriterAlone /\ RegionsSound /\ RightRegion
    BY DEF AndroidInit, MapsItsFd, ReaderOnCourse, WriterAlone, RegionsSound, RightRegion
<1> QED
    BY <1>1, <1>2, <1>3 DEF AndroidInv

\* A new region gets a free number and nobody else has it.
LEMMA CreateRegionInv ==
    ASSUME NEW w \in Writers, AndroidInv, CreateRegion(w)
    PROVE  AndroidInv'
<1> DEFINE g == CHOOSE g \in Regions : Unused(g)
<1>1. g \in Regions /\ Unused(g)
    BY DEF CreateRegion
<1>2. PICK n \in Fds : /\ LowestFree(n)
                       /\ table' = [table EXCEPT ![n] = g]
                       /\ regions' = [regions EXCEPT ![g] = [size |-> Size[w], cap |-> 0]]
                       /\ fd' = [fd EXCEPT ![w] = n]
    BY DEF CreateRegion
<1>3. /\ pc[w] = "idle" /\ pc' = [pc EXCEPT ![w] = "fd"]
      /\ UNCHANGED <<map, given, lost>>
    BY DEF CreateRegion, Goto
<1> HIDE DEF g
<1> USE <1>1, <1>2, <1>3 DEF AndroidInv, LowestFree, Unused, HasFd
<1>4. AndroidTypeOK'
    BY DEF AndroidTypeOK, PCs
<1>5. FdsOwned'
    BY DEF AndroidTypeOK, FdsOwned, MapsItsFd, RegionsSound
<1>6. FdsAccounted'
    BY DEF AndroidTypeOK, FdsAccounted
<1>7. MapsItsFd'
    BY DEF FdsOwned, MapsItsFd
<1>8. ReaderOnCourse'
    BY DEF FdsOwned, ReaderOnCourse
<1>9. WriterAlone'
  <2>1. ASSUME NEW h \in Handles \ {w}, HasFd(h)'
        PROVE  /\ HasFd(h) /\ pc'[h] = pc[h] /\ fd'[h] = fd[h]
               /\ table'[fd'[h]] = table[fd[h]] /\ table[fd[h]] # g
    BY <2>1 DEF AndroidTypeOK, FdsOwned
  <2>2. fd'[w] = n /\ table'[n] = g /\ (HasFd(w))'
    BY DEF AndroidTypeOK
  <2> QED
    BY <2>1, <2>2 DEF WriterAlone
<1>10. RegionsSound'
  <2>1. \A x \in Regions : regions'[x].cap \in {0, regions'[x].size}
    BY DEF AndroidTypeOK, RegionsSound
  <2>2. ASSUME NEW v \in Writers, pc'[v] \in {"fd", "mapped", "ready"}
        PROVE  regions'[table'[fd'[v]]].size = Size[v]
    <3>1. CASE v = w
      BY <3>1 DEF AndroidTypeOK
    <3>2. CASE v # w
      <4>1. pc[v] \in {"fd", "mapped", "ready"} /\ fd[v] \in Fds /\ fd'[v] = fd[v]
        BY <2>2, <3>2 DEF AndroidTypeOK, FdsOwned
      <4>2. table[fd[v]] \in Regions /\ table[fd[v]] # g /\ fd[v] # n
        BY <4>1 DEF AndroidTypeOK, FdsOwned
      <4>3. regions[table[fd[v]]].size = Size[v]
        BY <4>1 DEF RegionsSound
      <4> QED
        BY <4>1, <4>2, <4>3 DEF AndroidTypeOK
    <3> QED
      BY <3>1, <3>2
  <2>3. \A v \in Writers : pc'[v] # "offered"
    BY DEF AndroidTypeOK, RegionsSound
  <2>4. \A m \in lost' : table'[m] # None
    BY DEF AndroidTypeOK, RegionsSound
  <2> QED
    BY <2>1, <2>2, <2>3, <2>4 DEF RegionsSound
<1>11. RightRegion'
    BY DEF RightRegion
<1> QED
    BY <1>4, <1>5, <1>6, <1>7, <1>8, <1>9, <1>10, <1>11

\* Mmap maps the region of the storage's own descriptor.
LEMMA MmapInv ==
    ASSUME NEW h \in Handles, AndroidInv, Mmap(h)
    PROVE  AndroidInv'
<1> USE DEF AndroidInv, Mmap, Goto, HasFd
<1>1. AndroidTypeOK'
    BY DEF AndroidTypeOK, PCs, FdsOwned
<1>2. FdsOwned'
    BY DEF FdsOwned
<1>3. FdsAccounted'
    BY DEF FdsAccounted
<1>4. MapsItsFd'
    BY DEF AndroidTypeOK, MapsItsFd
<1>5. ReaderOnCourse'
    BY DEF ReaderOnCourse
<1>6. WriterAlone'
    BY DEF WriterAlone
<1>7. RegionsSound'
    BY DEF RegionsSound
<1>8. RightRegion'
    BY DEF RightRegion
<1> QED
    BY <1>1, <1>2, <1>3, <1>4, <1>5, <1>6, <1>7, <1>8

\* A failed mmap abandons a descriptor that is nobody else's.
LEMMA MmapFailsInv ==
    ASSUME NEW h \in Handles, AndroidInv, MmapFails(h)
    PROVE  AndroidInv'
<1> USE DEF AndroidInv, MmapFails, Abandon, Goto, HasFd
<1>1. AndroidTypeOK'
  <2>1. fd[h] \in Fds
    BY DEF FdsOwned
  <2> QED
    BY <2>1 DEF AndroidTypeOK, PCs
<1>2. FdsOwned'
    BY DEF AndroidTypeOK, FdsOwned
<1>3. FdsAccounted'
    BY DEF FdsAccounted
<1>4. MapsItsFd'
    BY DEF MapsItsFd
<1>5. ReaderOnCourse'
    BY DEF AndroidTypeOK, ReaderOnCourse
<1>6. WriterAlone'
    BY DEF AndroidTypeOK, WriterAlone
<1>7. RegionsSound'
    BY DEF AndroidTypeOK, FdsOwned, RegionsSound
<1>8. RightRegion'
    BY DEF RightRegion
<1> QED
    BY <1>1, <1>2, <1>3, <1>4, <1>5, <1>6, <1>7, <1>8

\* The header goes into a region only its Writer uses.
LEMMA InitHeaderInv ==
    ASSUME NEW w \in Writers, AndroidInv, InitHeader(w)
    PROVE  AndroidInv'
<1> USE DEF AndroidInv, InitHeader, Goto, HasFd
<1>1. AndroidTypeOK'
    BY DEF AndroidTypeOK, PCs, MapsItsFd
<1>2. FdsOwned'
    BY DEF FdsOwned
<1>3. FdsAccounted'
    BY DEF FdsAccounted
<1>4. MapsItsFd'
    BY DEF MapsItsFd
<1>5. ReaderOnCourse'
    BY DEF ReaderOnCourse
<1>6. WriterAlone'
    BY DEF WriterAlone
<1>7. RegionsSound'
    BY DEF FdsOwned, RegionsSound
<1>8. RightRegion'
    BY DEF AndroidTypeOK, FdsOwned, RegionsSound, RightRegion
<1> QED
    BY <1>1, <1>2, <1>3, <1>4, <1>5, <1>6, <1>7, <1>8

\* The number handed over is that of a live Writer.
LEMMA HandOverInv ==
    ASSUME NEW w \in Writers, NEW r \in Readers, AndroidInv, HandOver(w, r)
    PROVE  AndroidInv'
<1> USE DEF AndroidInv, HandOver, Goto, HasFd
<1>1. AndroidTypeOK'
    BY DEF AndroidTypeOK, PCs
<1>2. FdsOwned'
    BY DEF FdsOwned
<1>3. FdsAccounted'
    BY DEF FdsAccounted
<1>4. MapsItsFd'
    BY DEF MapsItsFd
<1>5. ReaderOnCourse'
    BY DEF AndroidTypeOK, ReaderOnCourse
<1>6. WriterAlone'
    BY DEF WriterAlone
<1>7. RegionsSound'
    BY DEF RegionsSound
<1>8. RightRegion'
    BY DEF RightRegion
<1> QED
    BY <1>1, <1>2, <1>3, <1>4, <1>5, <1>6, <1>7, <1>8

\* The dup is a free number for the region that was handed over.
LEMMA OpenDupInv ==
    ASSUME NEW r \in Readers, AndroidInv, OpenDup(r)
    PROVE  AndroidInv'
<1>1. PICK n \in Fds : /\ LowestFree(n)
                       /\ table' = [table EXCEPT ![n] = table[given[r].fd]]
                       /\ fd' = [fd EXCEPT ![r] = n]
    BY DEF OpenDup, Dup
<1>2. /\ pc[r] = "offered" /\ pc' = [pc EXCEPT ![r] = "fd"]
      /\ UNCHANGED <<regions, map, given, lost>>
    BY DEF OpenDup, Goto
<1>3. PICK w \in Writers : /\ pc[w] = "ready" /\ fd[w] = given[r].fd
                           /\ map[w] = given[r].region
    BY <1>2 DEF AndroidInv, ReaderOnCourse
<1> USE <1>1, <1>2, <1>3 DEF AndroidInv, LowestFree, HasFd
<1>4. AndroidTypeOK'
    BY DEF AndroidTypeOK, PCs, FdsOwned
<1>5. FdsOwned'
    BY DEF AndroidTypeOK, FdsOwned, MapsItsFd, RegionsSound
<1>6. FdsAccounted'
    BY DEF AndroidTypeOK, FdsAccounted
<1>7. MapsItsFd'
    BY DEF FdsOwned, MapsItsFd
<1>8. ReaderOnCourse'
    BY DEF AndroidTypeOK, FdsOwned, MapsItsFd, ReaderOnCourse, WriterAlone
<1>9. WriterAlone'
    BY DEF AndroidTypeOK, FdsOwned, WriterAlone
<1>10. RegionsSound'
    BY DEF FdsOwned, RegionsSound
<1>11. RightRegion'
    BY DEF RightRegion
<1> QED
    BY <1>4, <1>5, <1>6, <1>7, <1>8, <1>9, <1>10, <1>11

\* A failed dup changes nothing but the call.
LEMMA OpenDupFailsInv ==
    ASSUME NEW r \in Readers, AndroidInv, OpenDupFails(r)
    PROVE  AndroidInv'
<1> USE DEF AndroidInv, OpenDupFails, Goto, HasFd
<1>1. AndroidTypeOK'
    BY DEF AndroidTypeOK, PCs
<1>2. FdsOwned'
    BY DEF FdsOwned
<1>3. FdsAccounted'
    BY DEF AndroidTypeOK, FdsAccounted
<1>4. MapsItsFd'
    BY DEF MapsItsFd
<1>5. ReaderOnCourse'
    BY DEF ReaderOnCourse
<1>6. WriterAlone'
    BY DEF WriterAlone
<1>7. RegionsSound'
    BY DEF RegionsSound
<1>8. RightRegion'
    BY DEF RightRegion
<1> QED
    BY <1>1, <1>2, <1>3, <1>4, <1>5, <1>6, <1>7, <1>8

\* A Reader attaches to the given region or abandons its descriptor.
LEMMA VerifyHeaderInv ==
    ASSUME NEW r \in Readers, AndroidInv, VerifyHeader(r)
    PROVE  AndroidInv'
<1> USE DEF AndroidInv, VerifyHeader, Abandon, HeaderMatches, Goto, HasFd
<1>1. AndroidTypeOK'
  <2>1. fd[r] \in Fds
    BY DEF FdsOwned
  <2>2. pc' \in [Handles -> PCs]
    BY DEF AndroidTypeOK, PCs
  <2>3. CASE HeaderMatches(r)
    BY <2>2, <2>3 DEF AndroidTypeOK
  <2>4. CASE ~HeaderMatches(r)
    BY <2>1, <2>2, <2>4 DEF AndroidTypeOK
  <2> QED
    BY <2>3, <2>4
<1>2. FdsOwned'
    BY DEF AndroidTypeOK, FdsOwned, RegionsSound
<1>3. FdsAccounted'
    BY DEF AndroidTypeOK, FdsAccounted, MapsItsFd, ReaderOnCourse
<1>4. MapsItsFd'
    BY DEF AndroidTypeOK, MapsItsFd
<1>5. ReaderOnCourse'
    BY DEF AndroidTypeOK, PCs, ReaderOnCourse
<1>6. WriterAlone'
    BY DEF AndroidTypeOK, WriterAlone
<1>7. RegionsSound'
  <2>1. \A v \in Writers : pc'[v] = pc[v] /\ fd'[v] = fd[v]
    BY DEF AndroidTypeOK
  <2>2. \A m \in lost' : table[m] # None
    BY DEF FdsOwned, RegionsSound
  <2> QED
    BY <2>1, <2>2 DEF RegionsSound
<1>8. RightRegion'
    BY DEF AndroidTypeOK, FdsOwned, MapsItsFd, ReaderOnCourse, RegionsSound, RightRegion
<1> QED
    BY <1>1, <1>2, <1>3, <1>4, <1>5, <1>6, <1>7, <1>8

\* Munmap of a storage nobody is about to open.
LEMMA CloseUnmapInv ==
    ASSUME NEW h \in Handles, AndroidInv, CallerMayClose(h), CloseUnmap(h)
    PROVE  AndroidInv'
<1> USE DEF AndroidInv, CloseUnmap, CallerMayClose, Goto, HasFd
<1>1. AndroidTypeOK'
    BY DEF AndroidTypeOK, PCs
<1>2. FdsOwned'
    BY DEF FdsOwned
<1>3. FdsAccounted'
    BY DEF AndroidTypeOK, FdsAccounted
<1>4. MapsItsFd'
    BY DEF AndroidTypeOK, MapsItsFd
<1>5. ReaderOnCourse'
    BY DEF ReaderOnCourse
<1>6. WriterAlone'
    BY DEF WriterAlone
<1>7. RegionsSound'
    BY DEF RegionsSound
<1>8. RightRegion'
    BY DEF AndroidTypeOK, RightRegion
<1> QED
    BY <1>1, <1>2, <1>3, <1>4, <1>5, <1>6, <1>7, <1>8

\* Close frees the number of this storage and of no other.
LEMMA CloseFdInv ==
    ASSUME NEW h \in Handles, AndroidInv, CloseFd(h)
    PROVE  AndroidInv'
<1> USE DEF AndroidInv, CloseFd, Closed, Goto, HasFd
<1>1. AndroidTypeOK'
    BY DEF AndroidTypeOK, PCs
<1>2. FdsOwned'
    BY DEF AndroidTypeOK, FdsOwned
<1>3. FdsAccounted'
    BY DEF AndroidTypeOK, FdsAccounted
<1>4. MapsItsFd'
    BY DEF FdsOwned, MapsItsFd
<1>5. ReaderOnCourse'
    BY DEF FdsOwned, ReaderOnCourse
<1>6. WriterAlone'
    BY DEF AndroidTypeOK, FdsOwned, WriterAlone
<1>7. RegionsSound'
    BY DEF FdsOwned, RegionsSound
<1>8. RightRegion'
    BY DEF RightRegion
<1> QED
    BY <1>1, <1>2, <1>3, <1>4, <1>5, <1>6, <1>7, <1>8

-----------------------------------------------------------------------------

\* Every step keeps AndroidInv.
LEMMA NextInv == AndroidInv /\ [AndroidNext]_androidVars => AndroidInv'
<1> SUFFICES ASSUME AndroidInv, [AndroidNext]_androidVars
             PROVE  AndroidInv'
    OBVIOUS
<1>1. ASSUME NEW w \in Writers, WriterNext(w) PROVE AndroidInv'
    BY <1>1, CreateRegionInv, InitHeaderInv, HandOverInv DEF WriterNext
<1>2. ASSUME NEW r \in Readers, ReaderNext(r) PROVE AndroidInv'
    BY <1>2, OpenDupInv, OpenDupFailsInv, VerifyHeaderInv DEF ReaderNext
<1>3. ASSUME NEW h \in Handles, StorageNext(h) PROVE AndroidInv'
    BY <1>3, MmapInv, MmapFailsInv, CloseUnmapInv, CloseFdInv DEF StorageNext
<1>4. CASE UNCHANGED androidVars
    BY <1>4 DEF androidVars, AndroidInv, AndroidTypeOK, FdsOwned, FdsAccounted,
        MapsItsFd, ReaderOnCourse, WriterAlone, RegionsSound, RightRegion, HasFd
<1> QED
    BY <1>1, <1>2, <1>3, <1>4 DEF AndroidNext

\* AndroidInv holds in every reachable state of the constructors and Close of
\* backend/android.go, whatever number of storages, descriptors and regions
\* there is, and with failing system calls.
THEOREM AndroidInvariant == AndroidSpec => []AndroidInv
<1> QED
    BY InitInv, NextInv, PTL DEF AndroidSpec

\* A storage's descriptor is open, its own, and that of its mapping, so that
\* Close never closes a descriptor of somebody else.
THEOREM FdsOwnedHolds == AndroidSpec => []FdsOwned
<1>1. AndroidInv => FdsOwned
    BY DEF AndroidInv
<1> QED
    BY <1>1, AndroidInvariant, PTL

\* Only the error paths of newAndroidSharedMemoryStorage and of shm_android.go
\* leave a descriptor behind.
THEOREM FdsAccountedHolds == AndroidSpec => []FdsAccounted
<1>1. AndroidInv => FdsAccounted
    BY DEF AndroidInv
<1> QED
    BY <1>1, AndroidInvariant, PTL

\* The Reader that OpenAndroidSharedMemory returns is attached to the region
\* whose descriptor it was given, and that region is large enough.
THEOREM RightRegionHolds == AndroidSpec => []RightRegion
<1>1. AndroidInv => RightRegion
    BY DEF AndroidInv
<1> QED
    BY <1>1, AndroidInvariant, PTL
=============================================================================
