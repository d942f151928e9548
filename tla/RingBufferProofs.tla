-------------------------- MODULE RingBufferProofs --------------------------
(***************************************************************************)
(* Proofs about RingBuffer, for every capacity Cap, every counter modulus  *)
(* M that is a multiple (at least twice) of Cap, and every set of lengths. *)
(***************************************************************************)
EXTENDS RingBuffer, ModularArithmetic

\* A load returns the stored word, in every proof of this module.
USE DEF LoadHead, LoadTail, LoadClosed

-----------------------------------------------------------------------------
(* The operators of RingBuffer on true positions.                          *)

\* What the assumption on the constants gives.
LEMMA CapFacts == Cap \in Nat \ {0} /\ M \in Nat \ {0} /\ Cap < M
<1>1. PICK k \in 2 .. M : M = k * Cap
  BY CapAssumption
<1>2. k \in Nat \ {0} /\ Cap \in Nat \ {0} /\ M \in Nat
  BY CapAssumption
<1>3. k * Cap >= 2 * Cap
  BY <1>1, <1>2, Z3
<1> QED
  BY <1>1, <1>2, <1>3

\* A counter is a word.
LEMMA WordType ==
    ASSUME NEW a \in Int
    PROVE  a % M \in Words
  BY CapFacts, DivMod DEF Words

\* The uint32 difference of two counters is their true distance.
LEMMA SubTrue ==
    ASSUME NEW a \in Nat, NEW b \in Nat, b <= a, a <= b + Cap
    PROVE  Sub(a % M, b % M) = a - b
<1>1. a \in Int /\ b \in Int /\ 0 <= a - b /\ a - b < M /\ M \in Nat \ {0}
  BY CapFacts
<1>2. ((a % M) - (b % M)) % M = a - b
  BY <1>1, ModSub
<1> QED
  BY <1>2 DEF Sub

\* The uint32 sum is the wrapped true sum.
LEMMA AddTrue ==
    ASSUME NEW a \in Nat, NEW n \in Nat
    PROVE  Add(a % M, n) = (a + n) % M
<1>1. a \in Int /\ n \in Int /\ M \in Nat \ {0}
  BY CapFacts
<1>2. ((a % M) + n) % M = (a + n) % M
  BY <1>1, ModAdd
<1> QED
  BY <1>2 DEF Add

\* A position has a slot in the data region.
LEMMA SlotType ==
    ASSUME NEW p \in Nat
    PROVE  p % Cap \in 0 .. Cap - 1
  BY CapFacts, DivMod

\* Byte i of a copy at position p goes to the slot of position p + i, in
\* the first chunk and in the second.
LEMMA SlotTrue ==
    ASSUME NEW p \in Nat, NEW n \in Nat, NEW i \in Nat, i < n, n <= Cap
    PROVE  Slot(p % M, n, i) = (p + i) % Cap
<1>1. (p % M) % Cap = p % Cap
  <2>1. PICK k \in 2 .. M : M = k * Cap
    BY CapAssumption
  <2>2. p \in Int /\ Cap \in Nat \ {0} /\ k \in Nat \ {0}
    BY CapFacts
  <2>3. (p % (k * Cap)) % Cap = p % Cap
    BY <2>2, ModMod
  <2> QED
    BY <2>1, <2>3
<1>2. PICK q \in Int, s \in 0 .. Cap - 1 : p = Cap * q + s /\ p % Cap = s
  <2>1. p \in Int /\ Cap \in Nat \ {0}
    BY CapFacts
  <2> QED
    BY <2>1, DivMod
<1>3. Slot(p % M, n, i) =
        IF s + n <= Cap \/ i < Cap - s THEN s + i ELSE i - (Cap - s)
  BY <1>1, <1>2 DEF Slot
<1>4. Cap * q \in Int
  BY CapFacts
<1>5. CASE i < Cap - s
  <2>1. s + i \in 0 .. Cap - 1 /\ p + i = Cap * q + (s + i)
    BY <1>2, <1>4, <1>5, CapFacts
  <2>2. (Cap * q + (s + i)) % Cap = s + i
    BY <2>1, CapFacts, ModUnique
  <2> QED
    BY <1>3, <1>5, <2>1, <2>2
<1>6. CASE ~(i < Cap - s)
  <2>1. i - (Cap - s) \in 0 .. Cap - 1 /\ ~(s + n <= Cap)
    BY <1>2, <1>6, CapFacts
  <2>2. Cap * (q + 1) = Cap * q + Cap /\ q + 1 \in Int
    BY CapFacts, Z3
  <2>3. p + i = Cap * (q + 1) + (i - (Cap - s))
    BY <1>2, <1>4, <2>2, CapFacts
  <2>4. (Cap * (q + 1) + (i - (Cap - s))) % Cap = i - (Cap - s)
    BY <2>1, <2>2, CapFacts, ModUnique
  <2> QED
    BY <1>3, <1>6, <2>1, <2>3, <2>4
<1> QED
  BY <1>5, <1>6

-----------------------------------------------------------------------------
(* The inductive invariant RingInv.                                        *)

\* The room TryWrite computes from a view of head at position h.
LEMMA FreeTrue ==
    ASSUME RingInv, NEW h \in Nat, chpos <= h, h <= hpos
    PROVE  Free(h % M) = h + Cap - wpos /\ wpos <= h + Cap
<1>1. wpos \in Nat /\ h <= wpos /\ wpos <= h + Cap /\ wtail = wpos % M
  BY CapFacts DEF RingInv, TypeOK, Chain, WordsTrue
<1>2. Sub(wpos % M, h % M) = wpos - h
  BY <1>1, SubTrue
<1> QED
  BY <1>1, <1>2, CapFacts DEF Free

\* The bytes TryRead computes from a view of tail at position t.
LEMMA AvailTrue ==
    ASSUME RingInv, NEW t \in Nat, ctpos <= t, t <= ppos
    PROVE  Avail(t % M) = t - rpos /\ rpos <= t
<1>1. rpos \in Nat /\ rpos <= t /\ t <= rpos + Cap /\ rhead = rpos % M
  BY CapFacts DEF RingInv, TypeOK, Chain, WordsTrue
<1>2. Sub(t % M, rpos % M) = t - rpos
  BY <1>1, SubTrue
<1> QED
  BY <1>1, <1>2 DEF Avail

\* The room that a fresh look at head gives.
LEMMA FreeHead ==
    ASSUME RingInv
    PROVE  Free(head) = hpos + Cap - wpos /\ wpos <= hpos + Cap
<1>1. hpos \in Nat /\ chpos <= hpos /\ hpos <= hpos /\ head = hpos % M
  BY DEF RingInv, TypeOK, Chain, WordsTrue
<1>2. Free(hpos % M) = hpos + Cap - wpos /\ wpos <= hpos + Cap
  BY <1>1, FreeTrue
<1> QED
  BY <1>1, <1>2

\* The same for the Reader: the bytes it believes in after it has loaded tail.
LEMMA AvailTail ==
    ASSUME RingInv
    PROVE  /\ Avail(tail) = ppos - rpos /\ rpos <= ppos
           /\ ppos \in Nat /\ rpos \in Nat
<1>1. /\ ppos \in Nat /\ rpos \in Nat
      /\ ctpos <= ppos /\ ppos <= ppos /\ tail = ppos % M
  BY DEF RingInv, TypeOK, Chain, WordsTrue
<1>2. Avail(ppos % M) = ppos - rpos /\ rpos <= ppos
  BY <1>1, AvailTrue
<1> QED
  BY <1>1, <1>2

\* NewWriter's header and two fresh handles satisfy the invariant.
LEMMA InitInv == Init => RingInv
<1> SUFFICES ASSUME Init PROVE RingInv
  OBVIOUS
<1>1. 0 % M = 0 /\ 0 \in Words
  <2>1. M \in Nat \ {0} /\ 0 \in 0 .. M - 1 /\ M * 0 + 0 = 0
    BY CapFacts
  <2> QED
    BY <2>1, ModUnique DEF Words
<1>2. TypeOK
  <2>1. data \in [0 .. Cap - 1 -> Nat \cup {None}]
    BY DEF Init
  <2>2. <<>> \in Seq(Nat \cup {None})
    OBVIOUS
  <2>3. wret \in [n : Nat, err : WErrors]
    BY DEF Init, WErrors
  <2>4. rret \in [n : Nat, err : RErrors, bytes : Seq(Nat \cup {None})]
    BY <2>2 DEF Init, RErrors
  <2> QED
    BY <1>1, <2>1, <2>2, <2>3, <2>4 DEF Init, TypeOK, WriterPC, ReaderPC
<1>3. WordsTrue
  BY <1>1 DEF Init, WordsTrue
<1>4. Chain /\ WriterCallSound /\ ReaderCallSound /\ BytesPlaced /\ Fifo
  BY CapFacts DEF Init, Chain, WriterCallSound, ReaderCallSound, BytesPlaced, Fifo
<1> QED
  BY <1>2, <1>3, <1>4 DEF RingInv

\* TryWriteCall keeps RingInv.
LEMMA TryWriteCallInv ==
    ASSUME RingInv, NEW len \in Nat, TryWriteCall(len)
    PROVE  RingInv'
<1> USE DEF header, whistory, reader, rhistory, readerSide
<1>1. len \in Nat
  OBVIOUS
<1>2. Free(cachedHead) = chpos + Cap - wpos /\ wpos <= chpos + Cap
  <2>1. chpos \in Nat /\ chpos <= chpos /\ chpos <= hpos /\ cachedHead = chpos % M
    BY DEF RingInv, TypeOK, Chain, WordsTrue
  <2>2. Free(chpos % M) = chpos + Cap - wpos /\ wpos <= chpos + Cap
    BY <2>1, FreeTrue
  <2> QED
    BY <2>1, <2>2
<1>3. TypeOK'
  <2>1. Free(cachedHead) \in Int /\ (Free(cachedHead) >= len => len \in Nat)
    BY <1>1, <1>2, CapFacts DEF RingInv, TypeOK
  <2>2. wlen' \in Nat /\ wn' \in Nat /\ wcopied' \in Nat
    BY <1>1, <2>1 DEF RingInv, TypeOK, TryWriteCall, WGrant, Smaller
  <2>3. wpc' \in WriterPC
    BY DEF TryWriteCall, WReturn, WGrant, WriterPC
  <2>4. wret' \in [n : Nat, err : WErrors]
    BY DEF RingInv, TypeOK, TryWriteCall, WReturn, WErrors
  <2> QED
    BY <2>2, <2>3, <2>4 DEF RingInv, TypeOK, TryWriteCall
<1>4. WordsTrue' /\ Chain'
  BY DEF RingInv, WordsTrue, Chain, TryWriteCall
<1>5. WriterCallSound'
  BY <1>1, <1>2, CapFacts
  DEF RingInv, TypeOK, WriterCallSound, TryWriteCall, WReturn, WGrant, Smaller
<1>6. ReaderCallSound' /\ Fifo'
  BY DEF RingInv, ReaderCallSound, Fifo, TryWriteCall
<1>7. BytesPlaced'
  <2>1. wcopied' = wcopied
    BY DEF RingInv, WriterCallSound, TryWriteCall, WGrant
  <2> QED
    BY <2>1 DEF RingInv, BytesPlaced, TryWriteCall
<1> QED
  BY <1>3, <1>4, <1>5, <1>6, <1>7 DEF RingInv

\* TryWriteLoadHead keeps RingInv.
LEMMA TryWriteLoadHeadInv ==
    ASSUME RingInv, TryWriteLoadHead
    PROVE  RingInv'
<1> USE DEF header, whistory, reader, rhistory, readerSide
<1>1. Free(head) = hpos + Cap - wpos /\ wpos <= hpos + Cap
  BY FreeHead
<1>2. Free(head) = hpos + Cap - wpos /\ wpos <= hpos + Cap /\ Free(head) \in Int
  BY <1>1, CapFacts DEF RingInv, TypeOK
<1>3. TypeOK'
  <2>1. wn' \in Nat /\ wcopied' \in Nat
    BY <1>2 DEF RingInv, TypeOK, TryWriteLoadHead, WGrant, Smaller
  <2>2. wpc' \in WriterPC
    BY DEF TryWriteLoadHead, WReturn, WGrant, WriterPC
  <2>3. wret' \in [n : Nat, err : WErrors]
    BY DEF RingInv, TypeOK, TryWriteLoadHead, WReturn, WErrors
  <2> QED
    BY <2>1, <2>2, <2>3 DEF RingInv, TypeOK, TryWriteLoadHead
<1>4. WordsTrue' /\ Chain'
  BY <1>2, CapFacts DEF RingInv, TypeOK, WordsTrue, Chain, TryWriteLoadHead
<1>5. WriterCallSound'
  <2>1. /\ wpc = "loadHead" /\ wcopied = 0 /\ wlen \in Nat /\ wlen > 0
        /\ wpos \in Nat /\ hpos \in Nat /\ wpos' = wpos /\ chpos' = hpos
    BY DEF RingInv, TypeOK, WriterCallSound, TryWriteLoadHead
  <2>2. CASE Free(head) <= 0
    BY <1>2, <2>1, <2>2 DEF TryWriteLoadHead, WReturn, WriterCallSound
  <2>3. CASE Free(head) > 0
    <3>1. Smaller(wlen, Free(head)) \in 1 .. Free(head)
      BY <1>2, <2>1, <2>3, CapFacts DEF Smaller
    <3>2. wn' = Smaller(wlen, Free(head)) /\ wcopied' = 0 /\ wpc' = "copy"
      BY <1>2, <2>3 DEF TryWriteLoadHead, WGrant
    <3> QED
      BY <1>2, <2>1, <3>1, <3>2, CapFacts DEF WriterCallSound
  <2> QED
    BY <1>2, <2>1, <2>2, <2>3, CapFacts
<1>6. ReaderCallSound' /\ Fifo'
  BY DEF RingInv, ReaderCallSound, Fifo, TryWriteLoadHead
<1>7. BytesPlaced'
  <2>1. wcopied' = wcopied
    BY DEF RingInv, WriterCallSound, TryWriteLoadHead, WGrant
  <2> QED
    BY <2>1 DEF RingInv, BytesPlaced, TryWriteLoadHead
<1> QED
  BY <1>3, <1>4, <1>5, <1>6, <1>7 DEF RingInv

\* The one step that writes a data byte: its slot is the slot of no byte
\* that is still in the ring.
LEMMA TryWriteCopyInv ==
    ASSUME RingInv, TryWriteCopy
    PROVE  RingInv'
<1> USE DEF header, whistory, reader, rhistory, readerSide
<1> DEFINE p == wpos + wcopied
<1>1. /\ wpos \in Nat /\ wn \in Nat /\ wcopied \in Nat /\ hpos \in Nat
      /\ wcopied < wn /\ wn <= Cap /\ p \in Nat /\ p < hpos + Cap
      /\ wpc = "copy" /\ wpos + wn <= chpos + Cap /\ wtail = wpos % M
  BY CapFacts
  DEF RingInv, TypeOK, Chain, WordsTrue, WriterCallSound, TryWriteCopy
<1>2. Slot(wtail, wn, wcopied) = p % Cap
  BY <1>1, SlotTrue
<1>3. data' = [data EXCEPT ![p % Cap] = p]
  BY <1>2 DEF TryWriteCopy
<1>4. TypeOK'
  <2>1. data' \in [0 .. Cap - 1 -> Nat \cup {None}]
    BY <1>1, <1>3 DEF RingInv, TypeOK
  <2>2. wcopied' \in Nat /\ wpc' \in WriterPC
    BY <1>1 DEF TryWriteCopy, WriterPC
  <2> QED
    BY <2>1, <2>2 DEF RingInv, TypeOK, TryWriteCopy
<1>5. WordsTrue' /\ Chain'
  BY DEF RingInv, WordsTrue, Chain, TryWriteCopy
<1>6. WriterCallSound'
  BY <1>1 DEF RingInv, WriterCallSound, TryWriteCopy
<1>7. ReaderCallSound' /\ Fifo'
  BY DEF RingInv, ReaderCallSound, Fifo, TryWriteCopy
<1>8. BytesPlaced'
  <2>1. SUFFICES ASSUME NEW k \in hpos .. p
                 PROVE  data'[k % Cap] = k
    BY <1>1 DEF BytesPlaced, TryWriteCopy
  <2>2. k \in Nat /\ k % Cap \in 0 .. Cap - 1
    BY <1>1, SlotType
  <2>3. DOMAIN data = 0 .. Cap - 1 /\ p % Cap \in 0 .. Cap - 1
    BY <1>1, SlotType DEF RingInv, TypeOK
  <2>4. CASE k = p
    BY <2>2, <2>3, <2>4, <1>3
  <2>5. CASE k < p
    <3>0. /\ k \in Int /\ p \in Int /\ k < p /\ p - k < Cap
          /\ Cap \in Nat \ {0}
      BY <1>1, <2>2, <2>5, CapFacts
    <3>1. k % Cap # p % Cap
      BY <3>0, ModDistinct
    <3>2. data[k % Cap] = k
      BY <1>1, <2>2, <2>5 DEF RingInv, BytesPlaced
    <3> QED
      BY <3>1, <3>2, <2>2, <2>3, <1>3
  <2> QED
    BY <2>2, <2>4, <2>5, <1>1
<1> QED
  BY <1>4, <1>5, <1>6, <1>7, <1>8 DEF RingInv

\* TryWriteStoreTail keeps RingInv.
LEMMA TryWriteStoreTailInv ==
    ASSUME RingInv, TryWriteStoreTail
    PROVE  RingInv'
<1> USE DEF header, whistory, reader, rhistory, readerSide
<1>1. /\ wpos \in Nat /\ wn \in Nat /\ wcopied = wn
      /\ wtail = wpos % M /\ wpos + wn <= chpos + Cap /\ wpos + wn \in Nat
  BY CapFacts
  DEF RingInv, TypeOK, Chain, WordsTrue, WriterCallSound, TryWriteStoreTail
<1>2. Add(wtail, wn) = (wpos + wn) % M /\ (wpos + wn) % M \in Words
  BY <1>1, AddTrue, WordType
<1>3. TypeOK'
  BY <1>1, <1>2 DEF RingInv, TypeOK, TryWriteStoreTail, WriterPC, WErrors
<1>4. WordsTrue'
  BY <1>2 DEF RingInv, WordsTrue, TryWriteStoreTail
<1>5. Chain'
  BY <1>1, CapFacts DEF RingInv, TypeOK, Chain, TryWriteStoreTail
<1>6. WriterCallSound'
  BY DEF RingInv, WriterCallSound, TryWriteStoreTail
<1>7. ReaderCallSound' /\ Fifo'
  BY DEF RingInv, ReaderCallSound, Fifo, TryWriteStoreTail
<1>8. BytesPlaced'
  BY <1>1 DEF RingInv, BytesPlaced, TryWriteStoreTail
<1> QED
  BY <1>3, <1>4, <1>5, <1>6, <1>7, <1>8 DEF RingInv

\* CloseStoreClosed keeps RingInv.
LEMMA CloseStoreClosedInv ==
    ASSUME RingInv, CloseStoreClosed
    PROVE  RingInv'
<1> USE DEF header, whistory, reader, rhistory, readerSide
<1>1. TypeOK'
  <2>1. wclosed' \in BOOLEAN
    BY DEF RingInv, TypeOK, CloseStoreClosed
  <2>2. closed' \in {0, 1} /\ wpc' \in WriterPC
    BY DEF RingInv, TypeOK, CloseStoreClosed, WReturn, WriterPC
  <2>3. wret' \in [n : Nat, err : WErrors]
    BY DEF RingInv, TypeOK, CloseStoreClosed, WReturn, WErrors
  <2> QED
    BY <2>1, <2>2, <2>3 DEF RingInv, TypeOK, CloseStoreClosed
<1>2. WordsTrue' /\ Chain'
  BY DEF RingInv, WordsTrue, Chain, CloseStoreClosed
<1>3. WriterCallSound'
  BY DEF RingInv, WriterCallSound, CloseStoreClosed, WReturn
<1>4. ReaderCallSound' /\ Fifo'
  BY DEF RingInv, ReaderCallSound, Fifo, CloseStoreClosed
<1>5. BytesPlaced'
  BY DEF RingInv, BytesPlaced, CloseStoreClosed
<1> QED
  BY <1>1, <1>2, <1>3, <1>4, <1>5 DEF RingInv

\* CloseNudge keeps RingInv.
LEMMA CloseNudgeInv ==
    ASSUME RingInv, CloseNudge
    PROVE  RingInv'
<1> USE DEF header, whistory, reader, rhistory, readerSide
<1>1. TypeOK'
  BY DEF RingInv, TypeOK, CloseNudge, WriterPC, WErrors
<1>2. WordsTrue' /\ Chain'
  <2>1. ppos <= wpos /\ ctpos <= ppos /\ ppos \in Nat /\ wpos \in Nat /\ ctpos \in Nat
    BY DEF RingInv, TypeOK, Chain
  <2>2. WordsTrue'
    BY DEF RingInv, WordsTrue, CloseNudge
  <2>3. Chain'
    BY <2>1 DEF RingInv, Chain, CloseNudge
  <2> QED
    BY <2>2, <2>3
<1>3. WriterCallSound'
  BY DEF RingInv, WriterCallSound, CloseNudge
<1>4. ReaderCallSound' /\ Fifo'
  BY DEF RingInv, ReaderCallSound, Fifo, CloseNudge
<1>5. BytesPlaced'
  BY DEF RingInv, BytesPlaced, CloseNudge
<1> QED
  BY <1>1, <1>2, <1>3, <1>4, <1>5 DEF RingInv

\* WriterWake keeps RingInv.
LEMMA WriterWakeInv ==
    ASSUME RingInv, WriterWake
    PROVE  RingInv'
<1> USE DEF header, whistory, reader, rhistory, readerSide
<1>1. TypeOK'
  BY DEF RingInv, TypeOK, WriterWake, WriterPC
<1>2. WordsTrue' /\ Chain'
  BY DEF RingInv, WordsTrue, Chain, WriterWake
<1>3. WriterCallSound'
  BY DEF RingInv, WriterCallSound, WriterWake
<1>4. ReaderCallSound' /\ Fifo'
  BY DEF RingInv, ReaderCallSound, Fifo, WriterWake
<1>5. BytesPlaced'
  BY DEF RingInv, BytesPlaced, WriterWake
<1> QED
  BY <1>1, <1>2, <1>3, <1>4, <1>5 DEF RingInv

\* A failed access leaves the ring as it was, but for the bytes of a failed
\* tail store, which stay in the ring and go out with the next store.
LEMMA WriterStorageErrorInv ==
    ASSUME RingInv, WriterStorageError
    PROVE  RingInv'
<1> USE DEF header, whistory, reader, rhistory, readerSide
<1>1. /\ wpos \in Nat /\ wn \in Nat /\ wcopied \in Nat
      /\ wtail = wpos % M /\ wpos + wn \in Nat
      /\ wpc = "storeTail" => wcopied = wn /\ wpos + wn <= chpos + Cap
  BY DEF RingInv, TypeOK, WordsTrue, WriterCallSound
<1>2. Add(wtail, wn) = (wpos + wn) % M /\ (wpos + wn) % M \in Words
  BY <1>1, AddTrue, WordType
<1>3. TypeOK'
  BY <1>1, <1>2 DEF RingInv, TypeOK, WriterStorageError, WReturn, WriterPC, WErrors
<1>4. WordsTrue'
  BY <1>2 DEF RingInv, WordsTrue, WriterStorageError
<1>5. Chain'
  <2>1. CASE wpc = "storeTail"
    <3>1. wpos' = wpos + wn
      BY <2>1 DEF WriterStorageError
    <3> QED
      BY <1>1, <2>1, <3>1, CapFacts DEF RingInv, TypeOK, Chain, WriterStorageError
  <2>2. CASE wpc # "storeTail"
    BY <2>2 DEF RingInv, Chain, WriterStorageError
  <2> QED
    BY <2>1, <2>2
<1>6. WriterCallSound'
  BY DEF RingInv, WriterCallSound, WriterStorageError, WReturn
<1>7. ReaderCallSound' /\ Fifo'
  BY DEF RingInv, ReaderCallSound, Fifo, WriterStorageError
<1>8. BytesPlaced'
  <2>1. CASE wpc = "storeTail"
    <3>1. wpos' = wpos + wn /\ wcopied' = 0 /\ wcopied = wn
      BY <1>1, <2>1 DEF WriterStorageError
    <3> QED
      BY <1>1, <3>1 DEF RingInv, BytesPlaced, WriterStorageError
  <2>2. CASE wpc # "storeTail"
    <3>1. wpos' = wpos /\ wcopied' = 0 /\ hpos \in Nat
      BY <2>2 DEF RingInv, TypeOK, WriterStorageError
    <3>2. \A k \in hpos .. wpos - 1 : k \in hpos .. wpos + wcopied - 1
      BY <1>1, <3>1
    <3> QED
      BY <1>1, <3>1, <3>2 DEF RingInv, BytesPlaced, WriterStorageError
  <2> QED
    BY <2>1, <2>2
<1> QED
  BY <1>3, <1>4, <1>5, <1>6, <1>7, <1>8 DEF RingInv

\* TryReadCall keeps RingInv.
LEMMA TryReadCallInv ==
    ASSUME RingInv, NEW len \in Nat, TryReadCall(len)
    PROVE  RingInv'
<1> USE DEF header, writer, whistory, rhistory, writerSide
<1>1. len \in Nat
  OBVIOUS
<1>2. /\ Avail(cachedTail) = ctpos - rpos /\ rpos <= ctpos
      /\ ctpos \in Nat /\ rpos \in Nat
  <2>1. /\ ctpos \in Nat /\ rpos \in Nat
        /\ ctpos <= ctpos /\ ctpos <= ppos /\ cachedTail = ctpos % M
    BY DEF RingInv, TypeOK, Chain, WordsTrue
  <2>2. Avail(ctpos % M) = ctpos - rpos /\ rpos <= ctpos
    BY <2>1, AvailTrue
  <2> QED
    BY <2>1, <2>2
<1>3. rbuf = <<>> /\ rbuf' = <<>>
  BY DEF RingInv, ReaderCallSound, TryReadCall, RGrant
<1>4. TypeOK'
  <2>1. rlen' \in Nat /\ rn' \in Nat /\ rpc' \in ReaderPC
    BY <1>1, <1>2
    DEF RingInv, TypeOK, TryReadCall, RReturn, RGrant, Smaller, ReaderPC
  <2>2. rret' \in [n : Nat, err : RErrors, bytes : Seq(Nat \cup {None})]
    <3>1. CASE rret' = rret
      BY <3>1 DEF RingInv, TypeOK
    <3>2. CASE rret' = [n |-> 0, err |-> "nil", bytes |-> <<>>]
      BY <3>2 DEF RErrors
    <3> QED
      BY <3>1, <3>2 DEF TryReadCall, RReturn
  <2> QED
    BY <1>3, <2>1, <2>2 DEF RingInv, TypeOK, TryReadCall
<1>5. WordsTrue' /\ Chain'
  BY DEF RingInv, WordsTrue, Chain, TryReadCall
<1>6. WriterCallSound' /\ BytesPlaced'
  BY DEF RingInv, WriterCallSound, BytesPlaced, TryReadCall
<1>7. ReaderCallSound'
  BY <1>1, <1>2, <1>3
  DEF RingInv, ReaderCallSound, TryReadCall, RReturn, RGrant, Smaller
<1>8. Fifo'
  BY <1>3 DEF Fifo
<1> QED
  BY <1>4, <1>5, <1>6, <1>7, <1>8 DEF RingInv

\* TryReadLoadTail keeps RingInv.
LEMMA TryReadLoadTailInv ==
    ASSUME RingInv, TryReadLoadTail
    PROVE  RingInv'
<1> USE DEF header, writer, whistory, rhistory, writerSide
<1>1. /\ Avail(tail) = ppos - rpos /\ rpos <= ppos
      /\ ppos \in Nat /\ rpos \in Nat
  BY AvailTail
<1>2. rbuf = <<>> /\ rbuf' = <<>> /\ rlen \in Nat /\ rlen > 0 /\ rlen' = rlen
  BY DEF RingInv, TypeOK, ReaderCallSound, TryReadLoadTail, RGrant
<1>3. TypeOK'
  <2>1. rn' \in Nat /\ rpc' \in ReaderPC
    BY <1>1, <1>2 DEF RingInv, TypeOK, TryReadLoadTail, RGrant, Smaller, ReaderPC
  <2> QED
    BY <1>2, <2>1 DEF RingInv, TypeOK, TryReadLoadTail
<1>4. WordsTrue' /\ Chain'
  BY <1>1, CapFacts DEF RingInv, TypeOK, WordsTrue, Chain, TryReadLoadTail
<1>5. WriterCallSound' /\ BytesPlaced'
  BY DEF RingInv, WriterCallSound, BytesPlaced, TryReadLoadTail
<1>6. ReaderCallSound'
  BY <1>1, <1>2 DEF ReaderCallSound, TryReadLoadTail, RGrant, Smaller
<1>7. Fifo'
  BY <1>2 DEF Fifo
<1> QED
  BY <1>3, <1>4, <1>5, <1>6, <1>7 DEF RingInv

\* TryReadLoadClosed keeps RingInv.
LEMMA TryReadLoadClosedInv ==
    ASSUME RingInv, TryReadLoadClosed
    PROVE  RingInv'
<1> USE DEF header, writer, whistory, rhistory, writerSide
<1>1. TypeOK'
  <2>1. rret' \in [n : Nat, err : RErrors, bytes : Seq(Nat \cup {None})]
    BY DEF TryReadLoadClosed, RReturn, RErrors
  <2> QED
    BY <2>1 DEF RingInv, TypeOK, TryReadLoadClosed, RReturn, ReaderPC
<1>2. WordsTrue' /\ Chain' /\ WriterCallSound' /\ BytesPlaced' /\ Fifo'
  BY DEF RingInv, WordsTrue, Chain, WriterCallSound, BytesPlaced, Fifo,
         TryReadLoadClosed
<1>3. ReaderCallSound'
  BY DEF RingInv, ReaderCallSound, TryReadLoadClosed, RReturn
<1> QED
  BY <1>1, <1>2, <1>3 DEF RingInv

\* The one step that reads a data byte: it reads the slot of the next
\* unread byte, and that byte is there.
LEMMA TryReadCopyInv ==
    ASSUME RingInv, TryReadCopy
    PROVE  RingInv'
<1> USE DEF header, writer, whistory, rhistory, writerSide
<1> DEFINE l == Len(rbuf)
           p == rpos + l
<1>1. /\ rpos \in Nat /\ rn \in Nat /\ l \in Nat /\ p \in Nat
      /\ l < rn /\ rn <= Cap /\ rhead = rpos % M /\ rpc = "copy"
      /\ p \in hpos .. wpos + wcopied - 1
  <2>1. /\ rpos \in Nat /\ rn \in Nat /\ l \in Nat /\ l < rn
        /\ rhead = rpos % M /\ rpc = "copy" /\ rpos + rn <= ctpos
    BY DEF RingInv, TypeOK, WordsTrue, ReaderCallSound, TryReadCopy
  <2>2. /\ hpos \in Nat /\ wpos \in Nat /\ wcopied \in Nat /\ ctpos \in Nat
        /\ hpos <= rpos /\ ctpos <= wpos /\ ctpos <= rpos + Cap
    BY CapFacts DEF RingInv, TypeOK, Chain
  <2> HIDE DEF l
  <2> QED
    BY <2>1, <2>2, CapFacts
<1>2. Slot(rhead, rn, l) = p % Cap
  <2> HIDE DEF l
  <2> QED
    BY <1>1, SlotTrue
<1>3. data[p % Cap] = p
  BY <1>1 DEF RingInv, BytesPlaced
<1>4. rbuf' = Append(rbuf, p) /\ rbuf \in Seq(Nat \cup {None})
  BY <1>2, <1>3 DEF RingInv, TypeOK, TryReadCopy
<1>5. rbuf' \in Seq(Nat \cup {None}) /\ Len(rbuf') = l + 1
  BY <1>1, <1>4
<1>6. TypeOK'
  <2>1. rpc' \in ReaderPC
    BY DEF TryReadCopy, ReaderPC
  <2> QED
    BY <1>5, <2>1 DEF RingInv, TypeOK, TryReadCopy
<1>7. WordsTrue' /\ Chain' /\ WriterCallSound' /\ BytesPlaced'
  BY DEF RingInv, WordsTrue, Chain, WriterCallSound, BytesPlaced, TryReadCopy
<1>8. ReaderCallSound'
  BY <1>1, <1>5 DEF RingInv, ReaderCallSound, TryReadCopy
<1>9. Fifo'
  <2>1. rpos' = rpos
    BY DEF TryReadCopy
  <2>2. SUFFICES ASSUME NEW i \in 1 .. l + 1
                 PROVE  rbuf'[i] = rpos + i - 1
    BY <1>5, <2>1 DEF Fifo
  <2>3. CASE i = l + 1
    BY <1>1, <1>4, <2>3
  <2>4. CASE i \in 1 .. l
    <3>1. rbuf[i] = rpos + i - 1
      BY <2>4 DEF RingInv, Fifo
    <3>2. rbuf'[i] = rbuf[i]
      BY <1>4, <2>4
    <3> QED
      BY <3>1, <3>2
  <2> QED
    BY <1>1, <2>3, <2>4
<1> QED
  BY <1>6, <1>7, <1>8, <1>9 DEF RingInv

\* TryReadStoreHead keeps RingInv.
LEMMA TryReadStoreHeadInv ==
    ASSUME RingInv, TryReadStoreHead
    PROVE  RingInv'
<1> USE DEF header, writer, whistory, rhistory, writerSide
<1>1. /\ rpos \in Nat /\ rn \in Nat /\ rpos + rn <= ctpos /\ rpos + rn \in Nat
      /\ rhead = rpos % M /\ hpos \in Nat /\ hpos <= rpos
  BY DEF RingInv, TypeOK, WordsTrue, Chain, ReaderCallSound, TryReadStoreHead
<1>2. Add(rhead, rn) = (rpos + rn) % M /\ (rpos + rn) % M \in Words
  BY <1>1, AddTrue, WordType
<1>3. TypeOK'
  <2>1. rret' \in [n : Nat, err : RErrors, bytes : Seq(Nat \cup {None})]
    BY <1>1 DEF RingInv, TypeOK, TryReadStoreHead, RErrors
  <2> QED
    BY <1>1, <1>2, <2>1 DEF RingInv, TypeOK, TryReadStoreHead, ReaderPC
<1>4. WordsTrue'
  BY <1>2 DEF RingInv, WordsTrue, TryReadStoreHead
<1>5. Chain'
  BY <1>1 DEF RingInv, TypeOK, Chain, TryReadStoreHead
<1>6. WriterCallSound'
  BY DEF RingInv, WriterCallSound, TryReadStoreHead
<1>7. ReaderCallSound' /\ Fifo'
  BY DEF ReaderCallSound, Fifo, TryReadStoreHead
<1>8. BytesPlaced'
  <2>1. \A k \in rpos + rn .. wpos + wcopied - 1 : k \in hpos .. wpos + wcopied - 1
    BY <1>1 DEF RingInv, TypeOK
  <2> QED
    BY <2>1 DEF RingInv, BytesPlaced, TryReadStoreHead
<1> QED
  BY <1>3, <1>4, <1>5, <1>6, <1>7, <1>8 DEF RingInv

\* ReaderWake keeps RingInv.
LEMMA ReaderWakeInv ==
    ASSUME RingInv, ReaderWake
    PROVE  RingInv'
<1> USE DEF header, writer, whistory, rhistory, writerSide
<1>1. TypeOK'
  BY DEF RingInv, TypeOK, ReaderWake, ReaderPC
<1>2. WordsTrue' /\ Chain' /\ WriterCallSound' /\ BytesPlaced' /\ Fifo'
  BY DEF RingInv, WordsTrue, Chain, WriterCallSound, BytesPlaced, Fifo, ReaderWake
<1>3. ReaderCallSound'
  BY DEF RingInv, ReaderCallSound, ReaderWake
<1> QED
  BY <1>1, <1>2, <1>3 DEF RingInv

\* A failed head store moves the local head on without giving slots back.
LEMMA ReaderStorageErrorInv ==
    ASSUME RingInv, ReaderStorageError
    PROVE  RingInv'
<1> USE DEF header, writer, whistory, rhistory, writerSide
<1>1. /\ rpos \in Nat /\ rn \in Nat /\ rpos + rn \in Nat /\ rhead = rpos % M
      /\ rpc = "storeHead" => rpos + rn <= ctpos
  BY DEF RingInv, TypeOK, WordsTrue, ReaderCallSound
<1>2. Add(rhead, rn) = (rpos + rn) % M /\ (rpos + rn) % M \in Words
  BY <1>1, AddTrue, WordType
<1>3. TypeOK'
  <2>1. rret' \in [n : Nat, err : RErrors, bytes : Seq(Nat \cup {None})]
    BY DEF ReaderStorageError, RReturn, RErrors
  <2>2. rhead' \in Words /\ rpos' \in Nat /\ rbuf' = <<>> /\ rpc' = "idle"
    BY <1>1, <1>2 DEF RingInv, TypeOK, ReaderStorageError, RReturn
  <2> QED
    BY <2>1, <2>2 DEF RingInv, TypeOK, ReaderStorageError, ReaderPC
<1>4. WordsTrue'
  BY <1>2 DEF RingInv, WordsTrue, ReaderStorageError
<1>5. Chain'
  <2>1. CASE rpc = "storeHead"
    <3>1. rpos' = rpos + rn
      BY <2>1 DEF ReaderStorageError
    <3> QED
      BY <1>1, <2>1, <3>1 DEF RingInv, TypeOK, Chain, ReaderStorageError
  <2>2. CASE rpc # "storeHead"
    BY <2>2 DEF RingInv, Chain, ReaderStorageError
  <2> QED
    BY <2>1, <2>2
<1>6. WriterCallSound' /\ BytesPlaced'
  BY DEF RingInv, WriterCallSound, BytesPlaced, ReaderStorageError
<1>7. ReaderCallSound' /\ Fifo'
  BY DEF ReaderCallSound, Fifo, ReaderStorageError, RReturn
<1> QED
  BY <1>3, <1>4, <1>5, <1>6, <1>7 DEF RingInv

-----------------------------------------------------------------------------
(* Theorems                                                                *)

\* Every step of either side keeps the invariant.
LEMMA NextInv == RingInv /\ [Next]_vars => RingInv'
<1> SUFFICES ASSUME RingInv, [Next]_vars PROVE RingInv'
  OBVIOUS
<1>1. CASE WriterNext
  BY <1>1, ParamAssumption, TryWriteCallInv, TryWriteLoadHeadInv, TryWriteCopyInv,
     TryWriteStoreTailInv, CloseStoreClosedInv, CloseNudgeInv, WriterWakeInv,
     WriterStorageErrorInv
  DEF WriterNext
<1>2. CASE ReaderNext
  BY <1>2, ParamAssumption, TryReadCallInv, TryReadLoadTailInv, TryReadLoadClosedInv,
     TryReadCopyInv, TryReadStoreHeadInv, ReaderWakeInv, ReaderStorageErrorInv
  DEF ReaderNext
<1>3. CASE UNCHANGED vars
  BY <1>3
  DEF RingInv, TypeOK, WordsTrue, Chain, WriterCallSound, ReaderCallSound,
      BytesPlaced, Fifo, vars, header, writer, reader, whistory, rhistory
<1> QED
  BY <1>1, <1>2, <1>3 DEF Next

\* A step that leaves the ring alone keeps its invariant.
LEMMA RingStutter ==
    ASSUME RingInv, UNCHANGED vars
    PROVE  RingInv'
  BY NextInv

\* Two counters less than a wrap apart are equal as positions if they are
\* equal as words: the futex's compare cannot be fooled by wraparound.
LEMMA EqualWords ==
    ASSUME NEW a \in Nat, NEW b \in Nat, b <= a, a <= b + Cap, a % M = b % M
    PROVE  a = b
<1>1. CASE a = b
  BY <1>1
<1>2. CASE b < a
  <2>1. b \in Int /\ a \in Int /\ a - b < M /\ M \in Nat \ {0}
    BY CapFacts
  <2>2. b % M # a % M
    BY <1>2, <2>1, ModDistinct
  <2> QED
    BY <2>2
<1> QED
  BY <1>1, <1>2

\* RingInv holds in every reachable state, for every capacity, every counter
\* modulus and every sequence of TryWrite, TryRead and Close calls, with or
\* without storage errors.
THEOREM RingInvariant == Spec => []RingInv
  BY InitInv, NextInv, PTL DEF Spec

\* Type correctness of the ring's state.
THEOREM TypeCorrect == Spec => []TypeOK
<1>1. RingInv => TypeOK
  BY DEF RingInv
<1> QED
  BY <1>1, RingInvariant, PTL

\* TryRead copies out the next unread bytes of the stream, in order.
THEOREM FifoHolds == Spec => []Fifo
<1>1. RingInv => Fifo
  BY DEF RingInv
<1> QED
  BY <1>1, RingInvariant, PTL

\* No byte in the ring is overwritten before its slot is given back.
THEOREM UnreadIntactHolds == Spec => []UnreadIntact
<1>1. RingInv => UnreadIntact
  <2> SUFFICES ASSUME RingInv, NEW k \in hpos .. wpos - 1
               PROVE  data[k % Cap] = k
    BY DEF UnreadIntact
  <2>1. k \in hpos .. wpos + wcopied - 1
    BY DEF RingInv, TypeOK
  <2> QED
    BY <2>1 DEF RingInv, BytesPlaced
<1> QED
  BY <1>1, RingInvariant, PTL

\* The word arithmetic of free and available space is exact.
THEOREM DistancesTrueHolds == Spec => []DistancesTrue
<1>1. RingInv => DistancesTrue
  <2> SUFFICES ASSUME RingInv PROVE DistancesTrue
    OBVIOUS
  <2>1. /\ wpos \in Nat /\ ppos \in Nat /\ rpos \in Nat
        /\ hpos \in Nat /\ chpos \in Nat /\ ctpos \in Nat
    BY DEF RingInv, TypeOK
  <2>2. /\ chpos <= wpos /\ wpos <= chpos + Cap
        /\ rpos <= ctpos /\ ctpos <= rpos + Cap
        /\ hpos <= ppos /\ ppos <= hpos + Cap
    BY <2>1, CapFacts DEF RingInv, Chain
  <2>3. /\ Sub(wpos % M, chpos % M) = wpos - chpos
        /\ Sub(ctpos % M, rpos % M) = ctpos - rpos
        /\ Sub(ppos % M, hpos % M) = ppos - hpos
    BY <2>1, <2>2, SubTrue
  <2>4. /\ wpos - chpos \in 0 .. Cap
        /\ ctpos - rpos \in 0 .. Cap
        /\ ppos - hpos \in 0 .. Cap
    BY <2>1, <2>2, CapFacts
  <2> QED
    BY <2>3, <2>4 DEF RingInv, WordsTrue, DistancesTrue
<1> QED
  BY <1>1, RingInvariant, PTL

\* The slots the two copies still have to touch are disjoint.
THEOREM NoDataRaceHolds == Spec => []NoDataRace
<1>1. RingInv => NoDataRace
  <2> SUFFICES ASSUME RingInv, wpc = "copy", rpc = "copy",
                      NEW i \in wcopied .. wn - 1,
                      NEW j \in Len(rbuf) .. rn - 1
               PROVE  Slot(wtail, wn, i) # Slot(rhead, rn, j)
    BY DEF NoDataRace, WriterSlots, ReaderSlots
  <2>1. /\ wpos \in Nat /\ wn \in Nat /\ wcopied \in Nat /\ rpos \in Nat
        /\ rn \in Nat /\ Len(rbuf) \in Nat /\ chpos \in Nat /\ ctpos \in Nat
    BY DEF RingInv, TypeOK
  <2>2. /\ wpos + wn <= chpos + Cap /\ rpos + rn <= ctpos
        /\ chpos <= rpos /\ rpos <= ctpos /\ ctpos <= wpos
    BY <2>1 DEF RingInv, TypeOK, Chain, WriterCallSound, ReaderCallSound
  <2>3. i \in Nat /\ j \in Nat /\ i < wn /\ j < rn
    BY <2>1
  <2>4. wn <= Cap /\ rn <= Cap
    BY <2>1, <2>2, CapFacts
  <2>5. Slot(wpos % M, wn, i) = (wpos + i) % Cap
    BY <2>1, <2>3, <2>4, SlotTrue
  <2>6. Slot(rpos % M, rn, j) = (rpos + j) % Cap
    BY <2>1, <2>3, <2>4, SlotTrue
  <2>7. /\ rpos + j \in Int /\ wpos + i \in Int /\ Cap \in Nat \ {0}
        /\ rpos + j < wpos + i /\ (wpos + i) - (rpos + j) < Cap
    BY <2>1, <2>2, <2>3, CapFacts
  <2>8. (rpos + j) % Cap # (wpos + i) % Cap
    BY <2>7, ModDistinct
  <2> QED
    BY <2>5, <2>6, <2>8 DEF RingInv, WordsTrue
<1> QED
  BY <1>1, RingInvariant, PTL

\* (0, nil) from TryWrite means that no slot was free, and a short copy
\* fills the ring.
THEOREM FullMeansFullHolds == Spec => FullMeansFull
<1> DEFINE A == /\ (wpc = "loadHead" /\ wpc' = "idle" /\ wret'.err = "nil"
                      => wpos = hpos + Cap)
                /\ (wpc # "copy" /\ wpc' = "copy"
                      => wn' = wlen' \/ (wn' < wlen' /\ wpos + wn' = hpos + Cap))
<1>1. RingInv /\ [Next]_vars => [A]_vars
  <2> SUFFICES ASSUME RingInv, Next PROVE A \/ UNCHANGED vars
    OBVIOUS
  <2>1. /\ wpos \in Nat /\ hpos \in Nat /\ wlen \in Nat
        /\ Free(head) = hpos + Cap - wpos /\ wpos <= hpos + Cap
    BY FreeHead DEF RingInv, TypeOK
  <2>2. CASE TryWriteLoadHead
    <3>1. CASE Free(head) <= 0
      <4>1. wpc' = "idle"
        BY <2>2, <3>1, <2>1, CapFacts DEF TryWriteLoadHead, WReturn, WGrant, LoadHead
      <4>2. wpos = hpos + Cap
        BY <2>1, <3>1, CapFacts
      <4> QED
        BY <4>1, <4>2
    <3>2. CASE Free(head) > 0
      <4>1. /\ wpc' = "copy" /\ wlen' = wlen
            /\ wn' = IF wlen > Free(head) THEN Free(head) ELSE wlen
        BY <2>2, <3>2, <2>1, CapFacts DEF TryWriteLoadHead, WGrant, Smaller, LoadHead
      <4>2. wn' = wlen' \/ (wn' < wlen' /\ wpos + wn' = hpos + Cap)
        BY <4>1, <2>1, CapFacts
      <4> QED
        BY <4>1, <4>2
    <3> QED
      BY <3>1, <3>2, <2>1, CapFacts
  <2>3. ASSUME NEW len \in Lens, TryWriteCall(len) PROVE A
    <3>1. wpc = "idle" /\ wlen' = len
      BY <2>3 DEF TryWriteCall
    <3>2. ASSUME wpc' = "copy" PROVE wn' = len
      <4>1. WGrant(len, Free(cachedHead)) /\ Free(cachedHead) >= len
        BY <2>3, <3>2 DEF TryWriteCall, WReturn
      <4>2. Free(cachedHead) \in Int /\ len \in Int
        BY CapFacts, ParamAssumption, WordType DEF RingInv, TypeOK, Free, Sub, Words
      <4> QED
        BY <4>1, <4>2 DEF WGrant, Smaller
    <3> QED
      BY <3>1, <3>2
  <2>4. CASE ReaderNext
    <3>1. wpc' = wpc
      BY <2>4 DEF ReaderNext, TryReadCall, TryReadLoadTail, TryReadLoadClosed,
             TryReadCopy, TryReadStoreHead, ReaderWake, ReaderStorageError,
             writerSide, writer
    <3> QED
      BY <3>1
  <2>5. CASE \/ TryWriteCopy \/ TryWriteStoreTail \/ CloseStoreClosed
             \/ CloseNudge \/ WriterWake \/ WriterStorageError
    BY <2>5 DEF TryWriteCopy, TryWriteStoreTail, CloseStoreClosed, CloseNudge,
       WriterWake, WriterStorageError, WReturn
  <2> QED
    BY <2>2, <2>3, <2>4, <2>5 DEF Next, WriterNext
<1> QED
  BY <1>1, RingInvariant, PTL DEF Spec, FullMeansFull

\* TryRead looks at closed only when every published byte was taken.
THEOREM EmptyMeansEmptyHolds == Spec => EmptyMeansEmpty
<1> DEFINE A == rpc' = "loadClosed" /\ rpc # "loadClosed" => rpos = ppos
<1>1. RingInv /\ [Next]_vars => [A]_vars
  <2> SUFFICES ASSUME RingInv, Next, rpc' = "loadClosed", rpc # "loadClosed"
               PROVE  rpos = ppos
    OBVIOUS
  <2>1. TryReadLoadTail
    <3>1. ~WriterNext
      BY DEF WriterNext, TryWriteCall, TryWriteLoadHead, TryWriteCopy,
             TryWriteStoreTail, CloseStoreClosed, CloseNudge, WriterWake,
             WriterStorageError, readerSide, reader
    <3> QED
      BY <3>1 DEF Next, ReaderNext, TryReadCall, TryReadLoadClosed, TryReadCopy,
         TryReadStoreHead, ReaderWake, ReaderStorageError, RReturn, RGrant
  <2>2. /\ Avail(tail) = ppos - rpos /\ rpos <= ppos
        /\ ppos \in Nat /\ rpos \in Nat
    BY AvailTail
  <2>3. Avail(tail) <= 0
    BY <2>1 DEF TryReadLoadTail, RGrant
  <2> QED
    BY <2>2, <2>3
<1> QED
  BY <1>1, RingInvariant, PTL DEF Spec, EmptyMeansEmpty
=============================================================================
