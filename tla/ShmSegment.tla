----------------------------- MODULE ShmSegment -----------------------------
(***************************************************************************)
(* The life of a named shared-memory segment on Linux: CreateShm, OpenShm  *)
(* and Close of backend/shm_linux.go, with the calls of shm_native.go that *)
(* follow them (initHeader, verifyHeader), and their Rust counterparts in  *)
(* rust/src/backend/shm.rs, which differ in one flag: Rust creates with    *)
(* O_EXCL.                                                                 *)
(*                                                                         *)
(* One name of /dev/shm is shared by producers, which create the segment   *)
(* under it, and consumers, which poll for it. Every system call is a step *)
(* of its own. A process may be killed between any two of them; what it    *)
(* mapped goes away, the file and its name stay.                           *)
(*                                                                         *)
(* A file is its length, in pages, and the capacity in its header (0 until *)
(* a header is written; a capacity is named by the length of a segment     *)
(* that has it). What is in the ring is the matter of RingBuffer.          *)
(***************************************************************************)
EXTENDS Naturals

CONSTANTS
    Producers, Consumers, \* processes
    Size,                 \* Size[p]: length of the segment p asks for
    Files,                \* identities of files (inodes)
    NoFile,               \* no file
    Exclusive,            \* TRUE if the segment is created with O_EXCL
    SysFails              \* TRUE if a system call may fail

Procs == Producers \cup Consumers

ASSUME SegmentAssumption ==
    /\ Producers \cap Consumers = {}
    /\ Size \in [Procs -> Nat \ {0}]
    /\ NoFile \notin Files
    /\ Exclusive \in BOOLEAN /\ SysFails \in BOOLEAN

VARIABLES
    name,  \* the file the name refers to, if any
    files, \* length and header of every file
    pc,    \* where each process stands
    file   \* the file a process has open or mapped

segVars == <<name, files, pc, file>>

\* idle: no call and no Storage; open: has the descriptor; sized: after
\* Truncate; fits: the length was found large enough; mapped: has the
\* mapping; ready: has its Writer or Reader; unmapped: Close before Remove;
\* poll: a consumer about to try OpenShm (again).
PCs == {"idle", "open", "sized", "fits", "mapped", "ready", "unmapped", "poll"}

SegInit ==
    /\ name = NoFile
    /\ files = [f \in Files |-> [size |-> 0, cap |-> 0]]
    /\ pc = [p \in Procs |-> "idle"]
    /\ file = [p \in Procs |-> NoFile]

HasMapping(p) == pc[p] \in {"mapped", "ready"}

Goto(p, label) == pc' = [pc EXCEPT ![p] = label]

\* A file that has neither a name nor a user is gone: its identity may be
\* given to a new file.
Unused(f) == f # name /\ \A p \in Procs : file[p] # f

\* Bug: the call returns its error and keeps the descriptor or the mapping.
Fail_Leaks(p) ==
    /\ Goto(p, IF p \in Consumers THEN "poll" ELSE "idle")
    /\ UNCHANGED file

\* p's call ends with an error: descriptor and mapping are given up.
\* A consumer's retry loop goes on, a creator returns.
Fail(p) ==
    /\ Goto(p, IF p \in Consumers THEN "poll" ELSE "idle")
    /\ file' = [file EXCEPT ![p] = NoFile]

-----------------------------------------------------------------------------
(* Creating the segment                                                    *)

\* Bug: O_EXCL is left out of the flags.
MayReuse_NoExcl == TRUE

\* The flags of the creator's open let it take over an existing file.
MayReuse == ~Exclusive

\* open(O_CREAT): a new, empty file, or the one that is already there. With
\* O_EXCL an existing file is an error, after which the caller may try
\* again.
CreateOpen(p) ==
    /\ pc[p] = "idle"
    /\ Goto(p, "open")
    /\ \/ /\ name # NoFile /\ MayReuse
          /\ file' = [file EXCEPT ![p] = name]
          /\ UNCHANGED <<name, files>>
       \/ /\ name = NoFile
          /\ \E f \in Files : Unused(f)
          /\ LET f == CHOOSE g \in Files : Unused(g)
             IN  /\ name' = f
                 /\ files' = [files EXCEPT ![f] = [size |-> 0, cap |-> 0]]
                 /\ file' = [file EXCEPT ![p] = f]

\* Truncate to the size asked for; the first page, with the header, stays.
CreateTruncate(p) ==
    /\ p \in Producers
    /\ pc[p] = "open"
    /\ files' = [files EXCEPT ![file[p]].size = Size[p]]
    /\ Goto(p, "sized")
    /\ UNCHANGED <<name, file>>

\* Truncate, Stat or Mmap of the creator fails: the name is removed,
\* whatever file it stands for now.
CreateFails(p) ==
    /\ SysFails
    /\ p \in Producers
    /\ pc[p] \in {"open", "sized", "fits"}
    /\ name' = NoFile
    /\ Fail(p)
    /\ UNCHANGED files

-----------------------------------------------------------------------------
(* mapShm, for both sides                                                  *)

\* Bug: the length of the file is not checked.
Fits_NoCheck(p) == TRUE

\* The file is long enough for the mapping p asks for.
Fits(p) == files[file[p]].size >= Size[p]

\* Stat: a file shorter than the mapping is ErrIncompleteSegment; the
\* creator then removes the name.
MapStat(p) ==
    /\ pc[p] = IF p \in Producers THEN "sized" ELSE "open"
    /\ \/ /\ Fits(p)
          /\ Goto(p, "fits")
          /\ UNCHANGED <<name, file>>
       \/ /\ ~Fits(p)
          /\ name' = IF p \in Producers THEN NoFile ELSE name
          /\ Fail(p)
    /\ UNCHANGED files

MapMmap(p) ==
    /\ pc[p] = "fits"
    /\ Goto(p, "mapped")
    /\ UNCHANGED <<name, files, file>>

-----------------------------------------------------------------------------
\* Bug: the capacity is left out of the header.
HeaderCap_None(p) == 0

\* The capacity field p's initHeader writes.
HeaderCap(p) == Size[p]

\* NewWriter writes a fresh header and CreateShm returns the Writer.
InitHeader(p) ==
    /\ p \in Producers
    /\ pc[p] = "mapped"
    /\ files' = [files EXCEPT ![file[p]].cap = HeaderCap(p)]
    /\ Goto(p, "ready")
    /\ UNCHANGED <<name, file>>

\* Writer.CloseStorage: unmap, then remove the name.
CloseUnmap(p) ==
    /\ p \in Producers
    /\ pc[p] = "ready"
    /\ Goto(p, "unmapped")
    /\ file' = [file EXCEPT ![p] = NoFile]
    /\ UNCHANGED <<name, files>>

\* Remove; a missing name is no error, and another error leaves the name.
CloseRemove(p) ==
    /\ pc[p] = "unmapped"
    /\ name' = NoFile \/ (SysFails /\ UNCHANGED name)
    /\ Goto(p, "idle")
    /\ UNCHANGED <<files, file>>

-----------------------------------------------------------------------------
(* Opening the segment                                                     *)

\* A consumer starts its retry loop, or gives up when its time is over.
PollStart(c) ==
    /\ pc[c] = "idle"
    /\ Goto(c, "poll")
    /\ UNCHANGED <<name, files, file>>

PollGiveUp(c) ==
    /\ pc[c] = "poll"
    /\ Goto(c, "idle")
    /\ UNCHANGED <<name, files, file>>

\* open without O_CREAT; while there is no such name the loop goes on.
OpenOpen(c) ==
    /\ pc[c] = "poll"
    /\ name # NoFile
    /\ file' = [file EXCEPT ![c] = name]
    /\ Goto(c, "open")
    /\ UNCHANGED <<name, files>>

\* Stat or Mmap of the consumer fails.
OpenFails(c) ==
    /\ SysFails
    /\ pc[c] \in {"open", "fits"}
    /\ Fail(c)
    /\ UNCHANGED <<name, files>>

\* Bug: the header is not looked at.
HeaderMatches_Any(c) == TRUE

\* verifyHeader: magic, version and capacity.
HeaderMatches(c) == files[file[c]].cap = Size[c]

\* NewReader checks the header; a mismatch closes the storage again.
VerifyHeader(c) ==
    /\ c \in Consumers
    /\ pc[c] = "mapped"
    /\ \/ /\ HeaderMatches(c)
          /\ Goto(c, "ready")
          /\ UNCHANGED file
       \/ /\ ~HeaderMatches(c)
          /\ Fail(c)
    /\ UNCHANGED <<name, files>>

\* Reader.Close unmaps and leaves the name alone.
ReaderClose(c) ==
    /\ c \in Consumers
    /\ pc[c] = "ready"
    /\ Goto(c, "idle")
    /\ file' = [file EXCEPT ![c] = NoFile]
    /\ UNCHANGED <<name, files>>

\* A process is killed and may be started again.
Kill(p) ==
    /\ pc[p] # "idle"
    /\ Goto(p, "idle")
    /\ file' = [file EXCEPT ![p] = NoFile]
    /\ UNCHANGED <<name, files>>

-----------------------------------------------------------------------------
ProducerNext(p) ==
    \/ CreateOpen(p) \/ CreateTruncate(p) \/ CreateFails(p)
    \/ MapStat(p) \/ MapMmap(p) \/ InitHeader(p)
    \/ CloseUnmap(p) \/ CloseRemove(p)

OpenSteps(c) == OpenOpen(c) \/ MapStat(c) \/ MapMmap(c) \/ VerifyHeader(c)

ConsumerNext(c) ==
    \/ PollStart(c) \/ PollGiveUp(c) \/ OpenSteps(c) \/ OpenFails(c)
    \/ ReaderClose(c)

SegNext ==
    \/ \E p \in Producers : ProducerNext(p)
    \/ \E c \in Consumers : ConsumerNext(c)
    \/ \E p \in Procs : Kill(p)

SegSafety == SegInit /\ [][SegNext]_segVars

\* A polling consumer is scheduled; nothing else has to happen.
SegSpec == SegSafety /\ \A c \in Consumers : WF_segVars(OpenSteps(c))

-----------------------------------------------------------------------------
(* Properties                                                              *)

\* The types of the segment's variables. A process holds a descriptor or a
\* mapping exactly while it is in a call that needs one or has a Storage: no
\* error path leaks one.
SegTypeOK ==
    /\ name \in Files \cup {NoFile}
    /\ files \in [Files -> [size : Nat, cap : Nat]]
    /\ pc \in [Procs -> PCs]
    /\ file \in [Procs -> Files \cup {NoFile}]
    /\ \A p \in Procs : file[p] = NoFile <=> pc[p] \in {"idle", "poll", "unmapped"}

\* No SIGBUS: a mapping never runs past the end of its file, although the
\* length is checked (the fstat of shm.rs:77) before the mapping is made and
\* used. It needs O_EXCL, or one size for all: a creator that takes over a
\* file truncates it under those who have already checked (shm_linux.go:56).
MappedWithinFile ==
    \A p \in Procs : HasMapping(p) => files[file[p]].size >= Size[p]

\* "CreateShm creates a new named shared-memory segment" (shm_linux.go:36):
\* when a creator writes its header, nobody else uses the file. Otherwise a
\* Reader that is still attached, or another Writer, has the counters reset
\* to zero underneath it.
NewSegmentIsNew ==
    [][\A p \in Producers : pc[p] = "mapped" /\ pc'[p] = "ready"
          => \A q \in Procs \ {p} : pc[q] = "ready" => file[q] # file[p]]_segVars

\* The segment of a live Writer can be opened: the name stands for it until
\* that Writer itself removes the name. No failed creation and no Close of
\* another producer takes it away.
WriterReachable ==
    \A p \in Producers : pc[p] \in {"mapped", "ready"} => name = file[p]

\* An attached Reader has the capacity its ring was created with, for as
\* long as it is attached, although producers of other sizes come and go
\* under the same name. It needs O_EXCL, or one size for all.
CapacityAgrees ==
    \A c \in Consumers : pc[c] = "ready" => files[file[c]].cap = Size[c]

(***************************************************************************)
(* Why, with O_EXCL: the name is taken from a creator's open to the end of *)
(* its Close, so there is at most one active producer, and the name stands *)
(* for its file; that file is empty until Truncate, has the producer's     *)
(* size from then on, and no capacity before the header is written, so     *)
(* that no consumer gets past its Stat or its header check too early.      *)
(***************************************************************************)
OneCreator ==
    \A p \in Producers : pc[p] # "idle" =>
        /\ name # NoFile /\ pc[p] # "poll"
        /\ \A q \in Producers \ {p} : pc[q] = "idle"
        /\ pc[p] # "unmapped" => name = file[p]

CreatorsFile ==
    \A p \in Producers :
        /\ pc[p] = "open" => files[file[p]].size = 0
        /\ pc[p] \in {"sized", "fits", "mapped", "ready"} => files[file[p]].size = Size[p]
        /\ pc[p] \in {"open", "sized", "fits", "mapped"} => files[file[p]].cap = 0

StatHolds ==
    \A c \in Consumers : pc[c] = "fits" => files[file[c]].size >= Size[c]

\* The inductive invariant of the segment's life when it is created with
\* O_EXCL.
SegInv ==
    /\ SegTypeOK
    /\ OneCreator
    /\ CreatorsFile
    /\ StatHolds
    /\ MappedWithinFile
    /\ CapacityAgrees

\* A consumer that keeps polling while a Writer of the same capacity stays
\* attached gets its Reader, in whatever state of creation it met the
\* segment first.
ConsumerAttaches ==
    \A c \in Consumers, p \in Producers :
       (pc[p] = "ready" /\ Size[p] = Size[c])
           ~> (pc[c] \in {"ready", "idle"} \/ pc[p] # "ready")
=============================================================================
