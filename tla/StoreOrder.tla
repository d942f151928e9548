----------------------------- MODULE StoreOrder -----------------------------
(***************************************************************************)
(* The ring's counters and data under the memory orders its storages give: *)
(* when does a store of one side become visible to the other?              *)
(*                                                                         *)
(* RingBuffer lets every access take effect at once. Here a store first    *)
(* goes to a queue of its thread's pending stores and reaches the shared   *)
(* memory later, in an order that depends on the storage and the machine:  *)
(*   "tso"     plain stores (ShmStorage, AndroidSharedMemoryStorage) on    *)
(*             x86: in program order;                                      *)
(*   "locked"  MemStorage, whose mutex orders every ReadAt and WriteAt: in *)
(*             program order;                                              *)
(*   "atomics" AtomicStorage: a counter's store waits for every store      *)
(*             before it, the data stores are plain;                       *)
(*   "weak"    plain stores on a weakly ordered machine (arm64): in any    *)
(*             order that keeps the stores to one location in order.       *)
(* Loads take effect in program order, which "weak" machines need not even *)
(* give. Counters are unbounded here; their wraparound is the matter of    *)
(* RingBuffer, and so are errors and the answers of empty and full calls.  *)
(***************************************************************************)
EXTENDS Integers, Sequences

CONSTANTS
    Cap,      \* capacity of the data region
    Lens,     \* lengths passed to TryWrite and TryRead
    Kinds,    \* the memory orders considered
    MaxBytes  \* bound of the model: the Writer starts no write past it

ASSUME StoreOrderAssumption ==
    /\ Cap \in Nat \ {0} /\ MaxBytes \in Nat
    /\ Lens \subseteq Nat \ {0}
    /\ Kinds \subseteq {"tso", "locked", "atomics", "weak"}

VARIABLES
    kind,              \* the memory order of this ring
    mem,               \* what all threads see: the words and the data bytes
    wq, rq,            \* pending stores of the Writer and of the Reader
    wtail, cachedHead, \* Writer.tail, Writer.cachedHead
    wclosed,           \* Writer.closed
    rhead, cachedTail, \* Reader.head, Reader.cachedTail
    rn,                \* n of the TryRead in progress, 0 if there is none
    rbuf               \* bytes it has copied

orderVars == <<kind, mem, wq, rq, wtail, cachedHead, wclosed, rhead, cachedTail,
               rn, rbuf>>

Slots == 0 .. Cap - 1
\* Offsets in the storage: the header's words lie before the data bytes.
offHead == -3
offTail == -2
offClosed == -1
Words == {offHead, offTail, offClosed}

OrderInit ==
    /\ kind \in Kinds
    /\ mem = [l \in Slots \cup Words |-> IF l \in Slots THEN -1 ELSE 0]
    /\ wq = <<>> /\ rq = <<>>
    /\ wtail = 0 /\ cachedHead = 0 /\ wclosed = FALSE
    /\ rhead = 0 /\ cachedTail = 0 /\ rn = 0 /\ rbuf = <<>>

Store(loc, val) == [loc |-> loc, val |-> val]

\* Bug: a counter is stored like a data byte.
Ordered_None(i, q) == FALSE

\* Must the i-th pending store wait for all stores before it?
Ordered(i, q) ==
    \/ kind \in {"tso", "locked"}
    \/ kind = "atomics" /\ q[i].loc \in Words

\* May the i-th pending store become visible now?
MayDrain(i, q) ==
    \A j \in 1 .. i - 1 : ~Ordered(i, q) /\ q[j].loc # q[i].loc

Without(q, i) == SubSeq(q, 1, i - 1) \o SubSeq(q, i + 1, Len(q))

DrainWriter ==
    \E i \in 1 .. Len(wq) :
       /\ MayDrain(i, wq)
       /\ mem' = [mem EXCEPT ![wq[i].loc] = wq[i].val]
       /\ wq' = Without(wq, i)
       /\ UNCHANGED <<kind, rq, wtail, cachedHead, wclosed, rhead, cachedTail,
                      rn, rbuf>>

DrainReader ==
    \E i \in 1 .. Len(rq) :
       /\ MayDrain(i, rq)
       /\ mem' = [mem EXCEPT ![rq[i].loc] = rq[i].val]
       /\ rq' = Without(rq, i)
       /\ UNCHANGED <<kind, wq, wtail, cachedHead, wclosed, rhead, cachedTail,
                      rn, rbuf>>

-----------------------------------------------------------------------------
\* Bug: the tail is stored before the data it publishes.
WriteStores_TailFirst(n) ==
    <<Store(offTail, wtail + n)>>
        \o [i \in 1 .. n |-> Store((wtail + i - 1) % Cap, wtail + i - 1)]

\* The stores of a TryWrite of n bytes, in program order.
WriteStores(n) ==
    [i \in 1 .. n |-> Store((wtail + i - 1) % Cap, wtail + i - 1)]
        \o <<Store(offTail, wtail + n)>>

\* Bug: one slot too many.
Room_OffByOne(hd) == Cap + 1 - (wtail - hd)

Room(hd) == Cap - (wtail - hd)

\* TryWrite(p) with len(p) = len: it touches the other side's memory with at
\* most one load, of head, so it is one step.
TryWrite(len) ==
    /\ ~wclosed
    /\ wtail + len <= MaxBytes
    /\ LET seen == IF Room(cachedHead) < len THEN mem[offHead] ELSE cachedHead
           n    == IF len > Room(seen) THEN Room(seen) ELSE len
       IN  /\ cachedHead' = seen
           /\ wtail' = wtail + n
           /\ wq' = IF n = 0 THEN wq ELSE wq \o WriteStores(n)
    /\ UNCHANGED <<kind, mem, rq, wclosed, rhead, cachedTail, rn, rbuf>>

\* Close stores closed, then the unchanged tail.
Close ==
    /\ ~wclosed
    /\ wclosed' = TRUE
    /\ wq' = wq \o <<Store(offClosed, 1), Store(offTail, wtail)>>
    /\ UNCHANGED <<kind, mem, rq, wtail, cachedHead, rhead, cachedTail, rn, rbuf>>

\* TryRead(p) up to its copy; an empty ring ends the call.
TryRead(len) ==
    /\ rn = 0
    /\ LET seen  == IF cachedTail - rhead < len THEN mem[offTail] ELSE cachedTail
           avail == seen - rhead
       IN  /\ cachedTail' = seen
           /\ rn' = IF len > avail THEN avail ELSE len
    /\ UNCHANGED <<kind, mem, wq, rq, wtail, cachedHead, wclosed, rhead, rbuf>>

\* One byte of the copy.
TryReadCopy ==
    /\ Len(rbuf) < rn
    /\ rbuf' = Append(rbuf, mem[(rhead + Len(rbuf)) % Cap])
    /\ UNCHANGED <<kind, mem, wq, rq, wtail, cachedHead, wclosed, rhead,
                   cachedTail, rn>>

\* The head store that ends the call.
TryReadStoreHead ==
    /\ rn > 0 /\ Len(rbuf) = rn
    /\ rhead' = rhead + rn
    /\ rq' = Append(rq, Store(offHead, rhead + rn))
    /\ rn' = 0
    /\ rbuf' = <<>>
    /\ UNCHANGED <<kind, mem, wq, wtail, cachedHead, wclosed, cachedTail>>

OrderNext ==
    \/ \E len \in Lens : TryWrite(len)
    \/ Close
    \/ \E len \in Lens : TryRead(len)
    \/ TryReadCopy
    \/ TryReadStoreHead
    \/ DrainWriter
    \/ DrainReader

OrderSpec == OrderInit /\ [][OrderNext]_orderVars

-----------------------------------------------------------------------------
(* Properties                                                              *)

\* "Bytes written by the Writer become visible to the Reader in FIFO order"
\* (doc.go:6): what TryRead has copied are the bytes that follow the ones it
\* took before, also while stores of either side are still on their way.
OrderedFifo == \A i \in 1 .. Len(rbuf) : rbuf[i] = rhead + i - 1

\* What the counters in memory say is true of the memory: the bytes from
\* head to tail are there, and once closed is visible so is the last tail.
\* (A Reader that looked at closed before it looks at tail could rely on it.)
PublishedIsThere ==
    /\ \A k \in mem[offHead] .. mem[offTail] - 1 : mem[k % Cap] = k
    /\ mem[offClosed] = 1 => mem[offTail] = wtail

\* A store on its way to a slot cannot hit a byte the Reader still has to
\* copy: the slot's byte before was copied when the Writer got its room.
PendingHitsFree ==
    \A i \in 1 .. Len(wq) :
        wq[i].loc \in Slots => wq[i].val - Cap < rhead
=============================================================================
