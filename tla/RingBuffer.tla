----------------------------- MODULE RingBuffer -----------------------------
(***************************************************************************)
(* The lock-free single-producer single-consumer byte ring of shmring:     *)
(* Writer.TryWrite, Writer.Close and Reader.TryRead over one backend       *)
(* Storage (writer.go, reader.go, header.go).                              *)
(*                                                                         *)
(* The two handles run concurrently, usually in different processes. They  *)
(* share only the storage: the header words head, tail and closed, and the *)
(* data bytes. Every access to the storage is a step of its own, so every  *)
(* interleaving of the two sides is explored; purely local computation is  *)
(* part of the step before it.                                             *)
(*                                                                         *)
(* Bytes are abstracted to their index in the stream of bytes the Writer   *)
(* has placed in the ring (byte 0, byte 1, ...): the code never looks at a *)
(* payload byte. The header counters keep their finite width: they are     *)
(* words modulo M, where the code has M = 2^32.                            *)
(***************************************************************************)
EXTENDS Integers, Sequences

CONSTANTS
    Cap,          \* capacity of the data region, in bytes
    M,            \* number of values of a header word (2^32 in the code)
    Lens,         \* lengths len(p) that callers pass to TryWrite and TryRead
    StorageFails, \* TRUE if a Storage access may return an error
    MaxBytes      \* bound of the model: the Writer starts no write past it

(***************************************************************************)
(* validateCapacity admits a positive power of two of at most 2^31 =       *)
(* M \div 2, so the capacity divides the counters' modulus at least twice. *)
(***************************************************************************)
ASSUME CapAssumption ==
    /\ Cap \in Nat \ {0}
    /\ M \in Nat
    /\ \E k \in 2 .. M : M = k * Cap

ASSUME ParamAssumption ==
    /\ Lens \subseteq Nat
    /\ StorageFails \in BOOLEAN
    /\ MaxBytes \in Nat

VARIABLES
    head, tail, closed, \* the header words in the storage
    data,               \* the data region of the storage
    wtail,              \* Writer.tail
    cachedHead,         \* Writer.cachedHead
    wclosed,            \* Writer.closed
    wpc,                \* where the Writer's current call stands
    wlen,               \* len(p) of the current TryWrite
    wn,                 \* n of the current TryWrite, once it is known
    wcopied,            \* bytes of p[:n] already in the storage
    wret,               \* result of the Writer's last call
    rhead,              \* Reader.head
    cachedTail,         \* Reader.cachedTail
    rpc,                \* where the Reader's current call stands
    rlen,               \* len(p) of the current TryRead
    rn,                 \* n of the current TryRead, once it is known
    rbuf,               \* bytes of the ring already copied to p
    rret                \* result of the Reader's last call

(***************************************************************************)
(* History variables: the true, unbounded positions in the byte stream     *)
(* that the six counters above stand for. No guard reads them except for   *)
(* the bound MaxBytes.                                                     *)
(***************************************************************************)
VARIABLES
    wpos,  \* of wtail:      bytes placed in the ring by the Writer
    ppos,  \* of tail:       bytes published to the Reader
    rpos,  \* of rhead:      bytes taken out of the ring by the Reader
    hpos,  \* of head:       bytes whose slots were given back to the Writer
    chpos, \* of cachedHead
    ctpos  \* of cachedTail

header   == <<head, tail, closed, data>>
writer   == <<wtail, cachedHead, wclosed, wpc, wlen, wn, wcopied, wret>>
reader   == <<rhead, cachedTail, rpc, rlen, rn, rbuf, rret>>
whistory == <<wpos, ppos, chpos>>
rhistory == <<rpos, hpos, ctpos>>
vars     == <<header, writer, reader, whistory, rhistory>>

writerSide == <<writer, whistory>>
readerSide == <<reader, rhistory>>

None     == -1     \* a data byte no TryWrite has written yet
Words    == 0 .. M - 1
WriterPC == {"idle", "loadHead", "copy", "storeTail", "nudge", "wake"}
ReaderPC == {"idle", "loadTail", "loadClosed", "copy", "storeHead", "wake"}
WErrors  == {"nil", "ErrClosed", "ErrStorage"}
RErrors  == {"nil", "EOF", "ErrStorage"}

-----------------------------------------------------------------------------
(* Counter arithmetic                                                      *)

\* Bug: the difference of two counters taken without wraparound.
Sub_Signed(a, b) == a - b

\* a - b on uint32.
Sub(a, b) == (a - b) % M

\* Bug: a counter that is not reduced to its word.
Add_NoWrap(a, b) == a + b

\* a + b on uint32.
Add(a, b) == (a + b) % M

\* Bug: one slot too many.
Free_OffByOne(hd) == Cap + 1 - Sub(wtail, hd)

\* The room the Writer believes in, for a given view of head.
Free(hd) == Cap - Sub(wtail, hd)

\* The bytes the Reader believes in, for a given view of tail.
Avail(tl) == Sub(tl, rhead)

\* Bug: n is not limited to the room or to the available bytes.
Smaller_NoLimit(a, b) == a

\* Bug: of a p that does not fit one byte is taken, whatever the room.
Smaller_OneByte(a, b) == IF a > b THEN 1 ELSE a

Smaller(a, b) == IF a > b THEN b ELSE a

(***************************************************************************)
(* The slot of byte i of an n-byte copy that starts at counter ctr: one    *)
(* chunk when it fits before the end of the region, else a first chunk up  *)
(* to the end and the rest from slot 0. ctr & mask is ctr % Cap because    *)
(* Cap is a power of two.                                                  *)
(***************************************************************************)
Slot(ctr, n, i) ==
    LET start == ctr % Cap
        first == Cap - start
    IN  IF start + n <= Cap \/ i < first THEN start + i ELSE i - first

\* Bug: the value from the last refresh is used again.
LoadHead_Stale == cachedHead
LoadTail_Stale == cachedTail

\* Bug: an empty ring is taken for the end of the stream.
LoadClosed_Always == 1

\* readUint32At on each of the three words of the header.
LoadHead == head
LoadTail == tail
LoadClosed == closed

-----------------------------------------------------------------------------
(* initHeader by NewWriter, then a Writer and a Reader attached to it.     *)

Init ==
    /\ head = 0 /\ tail = 0 /\ closed = 0
    /\ data = [s \in 0 .. Cap - 1 |-> None]
    /\ wtail = 0 /\ cachedHead = 0 /\ wclosed = FALSE
    /\ wpc = "idle" /\ wlen = 0 /\ wn = 0 /\ wcopied = 0
    /\ wret = [n |-> 0, err |-> "nil"]
    /\ rhead = 0 /\ cachedTail = 0
    /\ rpc = "idle" /\ rlen = 0 /\ rn = 0 /\ rbuf = <<>>
    /\ rret = [n |-> 0, err |-> "nil", bytes |-> <<>>]
    /\ wpos = 0 /\ ppos = 0 /\ chpos = 0
    /\ rpos = 0 /\ hpos = 0 /\ ctpos = 0

-----------------------------------------------------------------------------
(* Writer                                                                  *)

WReturn(n, err) ==
    /\ wpc' = "idle"
    /\ wret' = [n |-> n, err |-> err]

\* The choice of n once the room is known.
WGrant(len, free) ==
    /\ wn' = Smaller(len, free)
    /\ wcopied' = 0
    /\ wpc' = "copy"

\* TryWrite up to its first storage access: a closed Writer and an empty p
\* return at once; room for all of p by the cached head needs no refresh.
TryWriteCall(len) ==
    /\ wpc = "idle"
    /\ wpos + len <= MaxBytes
    /\ wlen' = len
    /\ \/ /\ wclosed
          /\ WReturn(0, "ErrClosed")
          /\ UNCHANGED <<wn, wcopied>>
       \/ /\ ~wclosed /\ len = 0
          /\ WReturn(0, "nil")
          /\ UNCHANGED <<wn, wcopied>>
       \/ /\ ~wclosed /\ len > 0 /\ Free(cachedHead) < len
          /\ wpc' = "loadHead"
          /\ UNCHANGED <<wn, wcopied, wret>>
       \/ /\ ~wclosed /\ len > 0 /\ Free(cachedHead) >= len
          /\ WGrant(len, Free(cachedHead))
          /\ UNCHANGED wret
    /\ UNCHANGED <<header, wtail, cachedHead, wclosed, whistory, readerSide>>

\* Refresh the cached head; a ring that is still full ends the call.
TryWriteLoadHead ==
    /\ wpc = "loadHead"
    /\ cachedHead' = LoadHead
    /\ chpos' = hpos
    /\ \/ /\ Free(LoadHead) <= 0
          /\ WReturn(0, "nil")
          /\ UNCHANGED <<wn, wcopied>>
       \/ /\ Free(LoadHead) > 0
          /\ WGrant(wlen, Free(LoadHead))
          /\ UNCHANGED wret
    /\ UNCHANGED <<header, wtail, wclosed, wlen, wpos, ppos, readerSide>>

\* One byte of the copy into the ring.
TryWriteCopy ==
    /\ wpc = "copy"
    /\ data' = [data EXCEPT ![Slot(wtail, wn, wcopied)] = wpos + wcopied]
    /\ wcopied' = wcopied + 1
    /\ wpc' = IF wcopied + 1 = wn THEN "storeTail" ELSE "copy"
    /\ UNCHANGED <<head, tail, closed, wtail, cachedHead, wclosed, wlen, wn,
                   wret, whistory, readerSide>>

\* Advance the local tail, then publish it.
TryWriteStoreTail ==
    /\ wpc = "storeTail"
    /\ wtail' = Add(wtail, wn)
    /\ tail' = Add(wtail, wn)
    /\ wpos' = wpos + wn
    /\ ppos' = wpos + wn
    /\ wcopied' = 0
    /\ wpc' = "wake"
    /\ wret' = [n |-> wn, err |-> "nil"]
    /\ UNCHANGED <<head, closed, data, cachedHead, wclosed, wlen, wn, chpos,
                   readerSide>>

\* Close: nothing on a second call, else the closed word is stored first.
CloseStoreClosed ==
    /\ wpc = "idle"
    /\ \/ /\ wclosed
          /\ WReturn(0, "nil")
          /\ UNCHANGED <<wclosed, closed>>
       \/ /\ ~wclosed
          /\ wclosed' = TRUE
          /\ closed' = 1
          /\ wpc' = "nudge"
          /\ UNCHANGED wret
    /\ UNCHANGED <<head, tail, data, wtail, cachedHead, wlen, wn, wcopied,
                   whistory, readerSide>>

\* Close stores the tail again for the wakeup that goes with the store.
CloseNudge ==
    /\ wpc = "nudge"
    /\ tail' = wtail
    /\ ppos' = wpos
    /\ wpc' = "wake"
    /\ wret' = [n |-> 0, err |-> "nil"]
    /\ UNCHANGED <<head, closed, data, wtail, cachedHead, wclosed, wlen, wn,
                   wcopied, wpos, chpos, readerSide>>

\* writeUint32At ends with Wake(offTail) and the call returns.
WriterWake ==
    /\ wpc = "wake"
    /\ wpc' = "idle"
    /\ UNCHANGED <<header, wtail, cachedHead, wclosed, wlen, wn, wcopied,
                   wret, whistory, readerSide>>

\* A storage access of TryWrite or Close fails and the call returns the
\* error. A failed tail store leaves the local tail advanced; a failed store
\* of the closed word leaves the Writer closed.
WriterStorageError ==
    /\ StorageFails
    /\ \/ /\ wpc \in {"loadHead", "copy", "nudge"}
          /\ UNCHANGED <<wtail, wpos, wclosed>>
       \/ /\ wpc = "storeTail"
          /\ wtail' = Add(wtail, wn)
          /\ wpos' = wpos + wn
          /\ UNCHANGED wclosed
       \/ /\ wpc = "idle" /\ ~wclosed
          /\ wclosed' = TRUE
          /\ UNCHANGED <<wtail, wpos>>
    /\ wcopied' = 0
    /\ WReturn(0, "ErrStorage")
    /\ UNCHANGED <<header, cachedHead, wlen, wn, ppos, chpos, readerSide>>

-----------------------------------------------------------------------------
(* Reader                                                                  *)

RReturn(err) ==
    /\ rpc' = "idle"
    /\ rret' = [n |-> 0, err |-> err, bytes |-> <<>>]

RGrant(len, avail) ==
    /\ rn' = Smaller(len, avail)
    /\ rbuf' = <<>>
    /\ rpc' = "copy"

\* TryRead up to its first storage access.
TryReadCall(len) ==
    /\ rpc = "idle"
    /\ rlen' = len
    /\ \/ /\ len = 0
          /\ RReturn("nil")
          /\ UNCHANGED <<rn, rbuf>>
       \/ /\ len > 0 /\ Avail(cachedTail) < len
          /\ rpc' = "loadTail"
          /\ UNCHANGED <<rn, rbuf, rret>>
       \/ /\ len > 0 /\ Avail(cachedTail) >= len
          /\ RGrant(len, Avail(cachedTail))
          /\ UNCHANGED rret
    /\ UNCHANGED <<header, rhead, cachedTail, rhistory, writerSide>>

\* Refresh the cached tail; an empty ring goes on to look at closed.
TryReadLoadTail ==
    /\ rpc = "loadTail"
    /\ cachedTail' = LoadTail
    /\ ctpos' = ppos
    /\ \/ /\ Avail(LoadTail) <= 0
          /\ rpc' = "loadClosed"
          /\ UNCHANGED <<rn, rbuf>>
       \/ /\ Avail(LoadTail) > 0
          /\ RGrant(rlen, Avail(LoadTail))
    /\ UNCHANGED <<header, rhead, rlen, rret, rpos, hpos, writerSide>>

\* The ring was empty: io.EOF if the Writer has closed, else (0, nil).
TryReadLoadClosed ==
    /\ rpc = "loadClosed"
    /\ RReturn(IF LoadClosed # 0 THEN "EOF" ELSE "nil")
    /\ UNCHANGED <<header, rhead, cachedTail, rlen, rn, rbuf, rhistory,
                   writerSide>>

\* One byte of the copy out of the ring.
TryReadCopy ==
    /\ rpc = "copy"
    /\ rbuf' = Append(rbuf, data[Slot(rhead, rn, Len(rbuf))])
    /\ rpc' = IF Len(rbuf) + 1 = rn THEN "storeHead" ELSE "copy"
    /\ UNCHANGED <<header, rhead, cachedTail, rlen, rn, rret, rhistory,
                   writerSide>>

\* Advance the local head, then give the slots back to the Writer.
TryReadStoreHead ==
    /\ rpc = "storeHead"
    /\ rhead' = Add(rhead, rn)
    /\ head' = Add(rhead, rn)
    /\ rpos' = rpos + rn
    /\ hpos' = rpos + rn
    /\ rret' = [n |-> rn, err |-> "nil", bytes |-> rbuf]
    /\ rbuf' = <<>>
    /\ rpc' = "wake"
    /\ UNCHANGED <<tail, closed, data, cachedTail, rlen, rn, ctpos,
                   writerSide>>

\* writeUint32At ends with Wake(offHead) and the call returns.
ReaderWake ==
    /\ rpc = "wake"
    /\ rpc' = "idle"
    /\ UNCHANGED <<header, rhead, cachedTail, rlen, rn, rbuf, rret, rhistory,
                   writerSide>>

\* A storage access of TryRead fails. A failed head store leaves the local
\* head advanced, although the caller is told that no byte was read.
ReaderStorageError ==
    /\ StorageFails
    /\ \/ /\ rpc \in {"loadTail", "loadClosed", "copy"}
          /\ UNCHANGED <<rhead, rpos>>
       \/ /\ rpc = "storeHead"
          /\ rhead' = Add(rhead, rn)
          /\ rpos' = rpos + rn
    /\ rbuf' = <<>>
    /\ RReturn("ErrStorage")
    /\ UNCHANGED <<header, cachedTail, rlen, rn, hpos, ctpos, writerSide>>

-----------------------------------------------------------------------------
WriterNext ==
    \/ \E len \in Lens : TryWriteCall(len)
    \/ TryWriteLoadHead
    \/ TryWriteCopy
    \/ TryWriteStoreTail
    \/ CloseStoreClosed
    \/ CloseNudge
    \/ WriterWake
    \/ WriterStorageError

ReaderNext ==
    \/ \E len \in Lens : TryReadCall(len)
    \/ TryReadLoadTail
    \/ TryReadLoadClosed
    \/ TryReadCopy
    \/ TryReadStoreHead
    \/ ReaderWake
    \/ ReaderStorageError

Next == WriterNext \/ ReaderNext

Spec == Init /\ [][Next]_vars

-----------------------------------------------------------------------------
(* Properties                                                              *)

\* The type of every variable; in particular every counter stays a word.
TypeOK ==
    /\ head \in Words /\ tail \in Words /\ closed \in {0, 1}
    /\ data \in [0 .. Cap - 1 -> Nat \cup {None}]
    /\ wtail \in Words /\ cachedHead \in Words /\ wclosed \in BOOLEAN
    /\ wpc \in WriterPC /\ wlen \in Nat /\ wn \in Nat /\ wcopied \in Nat
    /\ wret \in [n : Nat, err : WErrors]
    /\ rhead \in Words /\ cachedTail \in Words
    /\ rpc \in ReaderPC /\ rlen \in Nat /\ rn \in Nat
    /\ rbuf \in Seq(Nat \cup {None})
    /\ rret \in [n : Nat, err : RErrors, bytes : Seq(Nat \cup {None})]
    /\ wpos \in Nat /\ ppos \in Nat /\ chpos \in Nat
    /\ rpos \in Nat /\ hpos \in Nat /\ ctpos \in Nat

\* What TryRead has copied to p are exactly the bytes that follow the ones
\* it took out before, in stream order: none lost, repeated, reordered,
\* torn or not yet written, whatever the two sides interleave and however
\* often the counters have wrapped.
Fifo == \A i \in 1 .. Len(rbuf) : rbuf[i] = rpos + i - 1

\* The slots a copy still has to touch.
WriterSlots ==
    IF wpc = "copy" THEN {Slot(wtail, wn, i) : i \in wcopied .. wn - 1} ELSE {}
ReaderSlots ==
    IF rpc = "copy" THEN {Slot(rhead, rn, i) : i \in Len(rbuf) .. rn - 1} ELSE {}

\* Race freedom of the data region: the slots TryWrite is about to write and
\* the slots TryRead is about to read are disjoint, so the plain copies of
\* the two sides never touch the same byte at the same time.
NoDataRace == WriterSlots \cap ReaderSlots = {}

\* No overwrite: every byte that was placed in the ring and whose slot was
\* not given back through head is still in its slot.
UnreadIntact == \A k \in hpos .. wpos - 1 : data[k % Cap] = k

\* The wrapped counters never become ambiguous: each word difference the
\* code computes is the true distance, and it lies between 0 and Cap (the
\* reason for maxCapacity in header.go).
DistancesTrue ==
    /\ Sub(wtail, cachedHead) = wpos - chpos /\ wpos - chpos \in 0 .. Cap
    /\ Sub(cachedTail, rhead) = ctpos - rpos /\ ctpos - rpos \in 0 .. Cap
    /\ Sub(tail, head)        = ppos - hpos  /\ ppos - hpos  \in 0 .. Cap

(***************************************************************************)
(* The inductive invariant behind these properties. Every counter is its   *)
(* true position modulo M; the positions form one chain from the oldest    *)
(* view of head to the newest place the Writer may fill; a call in its     *)
(* copy stays inside the part of the ring that its own cached view grants  *)
(* it; and the bytes placed so far, the current copy included, are there.  *)
(***************************************************************************)
WordsTrue ==
    /\ wtail = wpos % M /\ tail = ppos % M /\ cachedHead = chpos % M
    /\ rhead = rpos % M /\ head = hpos % M /\ cachedTail = ctpos % M

Chain ==
    /\ chpos <= hpos /\ hpos <= rpos /\ rpos <= ctpos
    /\ ctpos <= ppos /\ ppos <= wpos /\ wpos <= chpos + Cap

WriterCallSound ==
    /\ wpc = "loadHead" => wlen > 0
    /\ wpc \in {"copy", "storeTail"} => 1 <= wn /\ wpos + wn <= chpos + Cap
    /\ wpc = "copy" => wcopied < wn
    /\ wpc = "storeTail" => wcopied = wn
    /\ wpc \notin {"copy", "storeTail"} => wcopied = 0

ReaderCallSound ==
    /\ rpc = "loadTail" => rlen > 0
    /\ rpc \in {"copy", "storeHead"} => 1 <= rn /\ rpos + rn <= ctpos
    /\ rpc = "copy" => Len(rbuf) < rn
    /\ rpc = "storeHead" => Len(rbuf) = rn
    /\ rpc \notin {"copy", "storeHead"} => rbuf = <<>>

BytesPlaced ==
    \A k \in hpos .. wpos + wcopied - 1 : data[k % Cap] = k

\* The inductive invariant of the ring: it implies every state property
\* above, for every capacity, word size and call sequence.
RingInv ==
    /\ TypeOK
    /\ WordsTrue
    /\ Chain
    /\ WriterCallSound
    /\ ReaderCallSound
    /\ BytesPlaced
    /\ Fifo

\* TryWrite takes "as much of p as currently fits" (writer.go:52): it answers
\* (0, nil) for a non-empty p only if the ring really had no free slot when
\* it looked at head, and it starts a short copy only if that copy fills the
\* ring to the last slot. No space is lost to a stale cache or to a wrapped
\* counter.
FullMeansFull ==
    [][ /\ (wpc = "loadHead" /\ wpc' = "idle" /\ wret'.err = "nil"
              => wpos = hpos + Cap)
        /\ (wpc # "copy" /\ wpc' = "copy"
              => wn' = wlen' \/ (wn' < wlen' /\ wpos + wn' = hpos + Cap)) ]_vars

\* TryRead goes on to the closed word only if every published byte had been
\* taken when it looked at tail: a byte is never left behind because of a
\* stale cache or a wrapped counter.
EmptyMeansEmpty ==
    [][ rpc' = "loadClosed" /\ rpc # "loadClosed" => rpos = ppos ]_vars

\* "Once the buffer is empty and the Writer has been closed, it returns
\* (0, io.EOF)" (reader.go:52): when TryRead returns io.EOF, every byte the
\* Writer published has been read. The code looks at tail before it looks at
\* closed, so this does not hold.
EofMeansDrained ==
    [][ rpc = "loadClosed" /\ rpc' = "idle" /\ rret'.err = "EOF"
        => rpos = ppos ]_vars

\* The stream the ring implements: its queue is what the storage holds from
\* the Reader's place to tail. A Send takes effect when tail is stored, a
\* Receive when the Reader moves on, whether or not its head store succeeds.
Stream == INSTANCE ByteStream WITH
    Faults <- StorageFails,
    sent   <- ppos,
    queue  <- [i \in 1 .. Sub(tail, rhead) |-> data[(rhead + i - 1) % Cap]],
    closed <- closed = 1,
    result <- [bytes |-> rret.bytes, eof |-> rret.err = "EOF"]

\* The two-sided, step-by-step ring implements the atomic bounded stream:
\* what is in the storage from the Reader's place to tail is at all times
\* exactly the bytes sent and not received, each TryRead returns the oldest
\* of them, nothing is sent after Close, io.EOF is returned only after Close,
\* and a failed TryRead loses bytes only from the front of the queue.
RefinesStream == Stream!Spec
=============================================================================
