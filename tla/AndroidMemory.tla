---------------------------- MODULE AndroidMemory ----------------------------
(***************************************************************************)
(* ASharedMemory regions and their file descriptors: the constructors and  *)
(* Close of backend/android.go, with the calls of shm_android.go and of    *)
(* mobile/mobile.go on top of them.                                        *)
(*                                                                         *)
(* A region has no name; its Writer hands the number of its descriptor to  *)
(* whoever is to be the Reader. Here all Writers and Readers live in one   *)
(* process, so they share one descriptor table, in which the kernel gives  *)
(* every new descriptor the lowest free number. Each system call is a step *)
(* of its own, and the goroutines of the handles interleave.               *)
(*                                                                         *)
(* A region is its length and the capacity in its header (0 until a header *)
(* is written; a capacity is named by the length of a region that has it). *)
(***************************************************************************)
EXTENDS Naturals

CONSTANTS
    Writers, Readers, \* handles; each may be created and closed many times
    Size,             \* Size[h]: length of the region h asks for
    Fds,              \* numbers in the descriptor table
    Regions,          \* identities of regions
    None,             \* no region
    NoFd,             \* no descriptor
    SysFails          \* TRUE if mmap may fail

Handles == Writers \cup Readers

ASSUME AndroidAssumption ==
    /\ Writers \cap Readers = {}
    /\ Size \in [Handles -> Nat \ {0}]
    /\ Fds \subseteq Nat /\ NoFd \notin Fds
    /\ None \notin Regions
    /\ SysFails \in BOOLEAN

VARIABLES
    table,   \* the descriptor table: the region behind each number, if any
    regions, \* length and header of every region
    pc,      \* where each handle's call stands
    fd,      \* the storage's fd field
    map,     \* the region a storage has mapped
    given,   \* the number a Reader was given, and the region it stands for
    lost     \* history: descriptors an error path has left open

androidVars == <<table, regions, pc, fd, map, given, lost>>

\* idle: no storage; offered: a Reader that was given a number; fd: has its
\* own descriptor; mapped: has the mapping; ready: has its Writer or Reader;
\* unmapped: in Close, between Munmap and Close of the descriptor.
PCs == {"idle", "offered", "fd", "mapped", "ready", "unmapped"}

AndroidInit ==
    /\ table = [n \in Fds |-> None]
    /\ regions = [g \in Regions |-> [size |-> 0, cap |-> 0]]
    /\ pc = [h \in Handles |-> "idle"]
    /\ fd = [h \in Handles |-> NoFd]
    /\ map = [h \in Handles |-> None]
    /\ given = [r \in Readers |-> [fd |-> NoFd, region |-> None]]
    /\ lost = {}

Goto(h, label) == pc' = [pc EXCEPT ![h] = label]

\* The kernel's choice of a number, and of memory for a region: a region
\* without descriptor and mapping is gone.
LowestFree(n) ==
    /\ n \in Fds /\ table[n] = None
    /\ \A m \in Fds : table[m] = None => n <= m
Unused(g) ==
    /\ \A n \in Fds : table[n] # g
    /\ \A h \in Handles : map[h] # g

\* The storage is given up without its Close: its descriptor stays open.
Abandon(h) ==
    /\ lost' = lost \cup {fd[h]}
    /\ fd' = [fd EXCEPT ![h] = NoFd]
    /\ map' = [map EXCEPT ![h] = None]
    /\ Goto(h, "idle")

-----------------------------------------------------------------------------
(* CreateAndroidSharedMemory                                               *)

\* ASharedMemory_create. A full table is an error, which changes nothing.
CreateRegion(w) ==
    /\ pc[w] = "idle"
    /\ \E g \in Regions : Unused(g)
    /\ \E n \in Fds, g \in {CHOOSE g \in Regions : Unused(g)} :
          /\ LowestFree(n)
          /\ table' = [table EXCEPT ![n] = g]
          /\ regions' = [regions EXCEPT ![g] = [size |-> Size[w], cap |-> 0]]
          /\ fd' = [fd EXCEPT ![w] = n]
    /\ Goto(w, "fd")
    /\ UNCHANGED <<map, given, lost>>

\* Mmap of the descriptor's number, whatever is behind it by now.
Mmap(h) ==
    /\ pc[h] = "fd"
    /\ map' = [map EXCEPT ![h] = table[fd[h]]]
    /\ Goto(h, "mapped")
    /\ UNCHANGED <<table, regions, fd, given, lost>>

\* Mmap fails: newAndroidSharedMemoryStorage returns the error and leaves
\* the descriptor, its caller's or the dup, open.
MmapFails(h) ==
    /\ SysFails
    /\ pc[h] = "fd"
    /\ Abandon(h)
    /\ UNCHANGED <<table, regions, given>>

\* NewWriter writes the header; the caller gets the Writer and its Fd.
InitHeader(w) ==
    /\ w \in Writers
    /\ pc[w] = "mapped"
    /\ regions' = [regions EXCEPT ![map[w]].cap = Size[w]]
    /\ Goto(w, "ready")
    /\ UNCHANGED <<table, fd, map, given, lost>>

\* The application passes CreateResult.Fd on to a Reader.
HandOver(w, r) ==
    /\ pc[w] = "ready" /\ pc[r] = "idle"
    /\ given' = [given EXCEPT ![r] = [fd |-> fd[w], region |-> map[w]]]
    /\ Goto(r, "offered")
    /\ UNCHANGED <<table, regions, fd, map, lost>>

-----------------------------------------------------------------------------
(* OpenAndroidSharedMemory                                                 *)

\* Bug: the number is adopted instead of duplicated.
Dup_Adopt(old, new) == new = old

\* The number the storage works with: a new one for the same region.
Dup(old, new) == LowestFree(new)

OpenDup(r) ==
    /\ pc[r] = "offered"
    /\ \E n \in Fds :
          /\ Dup(given[r].fd, n)
          /\ table' = [table EXCEPT ![n] = table[given[r].fd]]
          /\ fd' = [fd EXCEPT ![r] = n]
    /\ Goto(r, "fd")
    /\ UNCHANGED <<regions, map, given, lost>>

\* Dup fails because the table is full.
OpenDupFails(r) ==
    /\ pc[r] = "offered"
    /\ \A n \in Fds : table[n] # None
    /\ Goto(r, "idle")
    /\ UNCHANGED <<table, regions, fd, map, given, lost>>

\* Bug: the header is not looked at.
HeaderMatches_Any(r) == TRUE

\* verifyHeader: magic, version and capacity.
HeaderMatches(r) == regions[map[r]].cap = Size[r]

\* NewReader checks the header. There is no check of the length before, and
\* OpenAndroidSharedMemory returns NewReader's error without a st.Close.
VerifyHeader(r) ==
    /\ r \in Readers
    /\ pc[r] = "mapped"
    /\ \/ /\ HeaderMatches(r)
          /\ Goto(r, "ready")
          /\ UNCHANGED <<fd, map, lost>>
       \/ /\ ~HeaderMatches(r)
          /\ Abandon(r)
    /\ UNCHANGED <<table, regions, given>>

-----------------------------------------------------------------------------
(* Close                                                                   *)

\* Close itself looks at nothing but the storage.
CloseUnmap(h) ==
    /\ pc[h] = "ready"
    /\ map' = [map EXCEPT ![h] = None]
    /\ Goto(h, "unmapped")
    /\ UNCHANGED <<table, regions, fd, given, lost>>

\* Bug: the descriptor is left open.
Closed_Kept(n) == table

\* The table without the entry of number n.
Closed(n) == [table EXCEPT ![n] = None]

CloseFd(h) ==
    /\ pc[h] = "unmapped"
    /\ table' = Closed(fd[h])
    /\ fd' = [fd EXCEPT ![h] = NoFd]
    /\ Goto(h, "idle")
    /\ UNCHANGED <<regions, map, given, lost>>

-----------------------------------------------------------------------------
(***************************************************************************)
(* An assumption about the callers, which no code enforces: CloseStorage   *)
(* is called "once no other process still needs the storage"               *)
(* (writer.go:200), so not while somebody has been given the number it     *)
(* closes and has not opened it yet. Without it the number could stand for *)
(* another region, or for none, when it is duplicated.                     *)
(***************************************************************************)
CallerMayClose(h) ==
    ~ \E r \in Readers : pc[r] = "offered" /\ given[r].fd = fd[h]

WriterNext(w) == CreateRegion(w) \/ InitHeader(w) \/ \E r \in Readers : HandOver(w, r)
ReaderNext(r) == OpenDup(r) \/ OpenDupFails(r) \/ VerifyHeader(r)
StorageNext(h) ==
    \/ Mmap(h) \/ MmapFails(h) \/ CloseFd(h)
    \/ CallerMayClose(h) /\ CloseUnmap(h)

AndroidNext ==
    \/ \E w \in Writers : WriterNext(w)
    \/ \E r \in Readers : ReaderNext(r)
    \/ \E h \in Handles : StorageNext(h)

AndroidSpec == AndroidInit /\ [][AndroidNext]_androidVars

-----------------------------------------------------------------------------
(* Properties                                                              *)

\* The types of the variables.
AndroidTypeOK ==
    /\ table \in [Fds -> Regions \cup {None}]
    /\ regions \in [Regions -> [size : Nat, cap : Nat]]
    /\ pc \in [Handles -> PCs]
    /\ fd \in [Handles -> Fds \cup {NoFd}]
    /\ map \in [Handles -> Regions \cup {None}]
    /\ given \in [Readers -> [fd : Fds \cup {NoFd}, region : Regions \cup {None}]]
    /\ lost \subseteq Fds

\* The handle owns a descriptor.
HasFd(h) == pc[h] \in {"fd", "mapped", "ready", "unmapped"}

\* Every storage owns its descriptor alone: it is open, it is no other
\* storage's and none that an error left behind, and it still stands for the
\* region the storage has mapped. So the Close of one side never closes the
\* other side's descriptor, nor a number the kernel has given out again ("the
\* first Close would leave the second closing an already-closed fd",
\* android.go:76).
FdsOwned ==
    \A h \in Handles : HasFd(h) =>
        /\ fd[h] \in Fds \ lost
        /\ table[fd[h]] # None
        /\ map[h] # None => table[fd[h]] = map[h]
        /\ \A k \in Handles \ {h} : HasFd(k) => fd[k] # fd[h]

\* No descriptor is leaked but by the two error paths that give up a storage
\* without its Close: every open one belongs to a storage or was abandoned.
FdsAccounted ==
    \A n \in Fds : table[n] # None =>
        n \in lost \/ \E h \in Handles : HasFd(h) /\ fd[h] = n

\* A Reader is attached to the region whose descriptor it was given, and its
\* mapping ends where the region ends or before: numbers that are closed and
\* given out again between the dup and the mapping lead it to no other ring,
\* and a capacity that is too large for the region is noticed. (Between the
\* hand-over and the dup the caller's duty keeps the number in place.)
RightRegion ==
    \A r \in Readers : pc[r] = "ready" =>
        /\ map[r] = given[r].region
        /\ regions[map[r]].cap = Size[r]
        /\ regions[map[r]].size >= Size[r]

(***************************************************************************)
(* Why: a mapping is that of the storage's own descriptor, a Reader's      *)
(* descriptor stands for the region it was given, from the hand-over on,   *)
(* and a region has one Writer, whose length it has and which alone uses   *)
(* it until the header is there.                                           *)
(***************************************************************************)
MapsItsFd ==
    \A h \in Handles : IF pc[h] \in {"mapped", "ready"}
                       THEN map[h] = table[fd[h]]
                       ELSE map[h] = None

ReaderOnCourse ==
    \A r \in Readers :
        /\ pc[r] = "offered" =>
              \E w \in Writers : /\ pc[w] = "ready" /\ fd[w] = given[r].fd
                                 /\ map[w] = given[r].region
        /\ pc[r] \in {"fd", "mapped", "ready"} => table[fd[r]] = given[r].region

WriterAlone ==
    \A w \in Writers : pc[w] \in {"fd", "mapped"} =>
        \A h \in Handles \ {w} : HasFd(h) => table[fd[h]] # table[fd[w]]

RegionsSound ==
    /\ \A g \in Regions : regions[g].cap \in {0, regions[g].size}
    /\ \A w \in Writers : pc[w] \in {"fd", "mapped", "ready"} =>
          regions[table[fd[w]]].size = Size[w]
    /\ \A w \in Writers : pc[w] # "offered"
    /\ \A n \in lost : table[n] # None

\* The inductive invariant of the descriptors and regions.
AndroidInv ==
    /\ AndroidTypeOK
    /\ FdsOwned
    /\ FdsAccounted
    /\ MapsItsFd
    /\ ReaderOnCourse
    /\ WriterAlone
    /\ RegionsSound
    /\ RightRegion
=============================================================================
