----------------------- MODULE RingRefinementProofs -------------------------
(***************************************************************************)
(* RingBuffer implements ByteStream, for every capacity, word size and set *)
(* of lengths, with and without storage errors: a proof of RefinesStream.  *)
(***************************************************************************)
EXTENDS RingBufferProofs

-----------------------------------------------------------------------------
(* The bytes a .. b - 1 of the stream, as a sequence.                      *)

Bytes(a, b) == [i \in 1 .. b - a |-> a + i - 1]

\* A stretch of the stream is a sequence of its length.
LEMMA BytesType ==
    ASSUME NEW a \in Nat, NEW b \in Nat, a <= b
    PROVE  Bytes(a, b) \in Seq(Nat) /\ Len(Bytes(a, b)) = b - a
  BY DEF Bytes

\* Sending extends the bytes at the end.
LEMMA BytesAppend ==
    ASSUME NEW a \in Nat, NEW b \in Nat, a <= b, NEW n \in Nat
    PROVE  Bytes(a, b + n) = Bytes(a, b) \o [i \in 1 .. n |-> b + i - 1]
  BY DEF Bytes

\* Receiving takes bytes from the front.
LEMMA BytesTake ==
    ASSUME NEW a \in Nat, NEW b \in Nat, NEW n \in Nat, a + n <= b
    PROVE  SubSeq(Bytes(a, b), 1, n) = Bytes(a, a + n)
  BY DEF Bytes

\* And leaves the rest.
LEMMA BytesDrop ==
    ASSUME NEW a \in Nat, NEW b \in Nat, NEW n \in Nat, a + n <= b
    PROVE  SubSeq(Bytes(a, b), n + 1, Len(Bytes(a, b))) = Bytes(a + n, b)
  BY DEF Bytes

-----------------------------------------------------------------------------
(* The refinement mapping on true positions.                               *)

\* What the mapping puts for the stream's queue.
Queue == [i \in 1 .. Sub(tail, rhead) |-> data[(rhead + i - 1) % Cap]]

\* The storage holds, from the Reader's place to tail, exactly the bytes
\* published and not yet taken.
LEMMA QueueTrue == RingInv => Queue = Bytes(rpos, ppos)
<1> SUFFICES ASSUME RingInv PROVE Queue = Bytes(rpos, ppos)
  OBVIOUS
<1>1. /\ rpos \in Nat /\ ppos \in Nat /\ hpos \in Nat /\ wpos \in Nat
      /\ wcopied \in Nat /\ hpos <= rpos /\ ppos <= wpos
      /\ rhead = rpos % M /\ tail = ppos % M
  BY DEF RingInv, TypeOK, Chain, WordsTrue
<1>2. Sub(tail, rhead) = ppos - rpos
  BY AvailTail DEF Avail
<1>3. ASSUME NEW i \in 1 .. ppos - rpos
      PROVE  data[(rhead + i - 1) % Cap] = rpos + i - 1
  <2>1. rpos + i - 1 \in hpos .. wpos + wcopied - 1
    BY <1>1
  <2>2. data[(rpos + i - 1) % Cap] = rpos + i - 1
    BY <2>1 DEF RingInv, BytesPlaced
  <2>3. PICK k \in 2 .. M : M = k * Cap
    BY CapAssumption
  <2>4. k \in Nat \ {0} /\ Cap \in Nat \ {0} /\ rpos \in Int
    BY <1>1, <2>3, CapFacts
  <2>5. (rpos % (k * Cap)) % Cap = rpos % Cap
    BY <2>4, ModMod
  <2>6. rhead \in Int /\ rhead % Cap = rpos % Cap
    BY <1>1, <2>3, <2>5, WordType, CapFacts DEF Words
  <2>7. i - 1 \in Int
    OBVIOUS
  <2>8. /\ ((rhead % Cap) + (i - 1)) % Cap = (rhead + (i - 1)) % Cap
        /\ ((rpos % Cap) + (i - 1)) % Cap = (rpos + (i - 1)) % Cap
    BY <2>4, <2>6, <2>7, ModAdd
  <2>9. rhead + (i - 1) = rhead + i - 1 /\ rpos + (i - 1) = rpos + i - 1
    BY <2>4, <2>6
  <2> QED
    BY <2>2, <2>6, <2>8, <2>9
<1> QED
  BY <1>1, <1>2, <1>3 DEF Queue, Bytes

\* The same after a step that keeps RingInv.
LEMMA QueueTrueNext == RingInv' => (Queue = Bytes(rpos, ppos))'
  BY QueueTrue, PTL

\* The steps of the two sides for calls of any length; the retry loop of
\* WriteContext calls TryWrite with whatever is left of its p.
AnyWriterStep ==
    \/ \E len \in Nat : TryWriteCall(len)
    \/ TryWriteLoadHead \/ TryWriteCopy \/ TryWriteStoreTail
    \/ CloseStoreClosed \/ CloseNudge \/ WriterWake \/ WriterStorageError

AnyReaderStep ==
    \/ \E len \in Nat : TryReadCall(len)
    \/ TryReadLoadTail \/ TryReadLoadClosed \/ TryReadCopy
    \/ TryReadStoreHead \/ ReaderWake \/ ReaderStorageError

AnyStep == AnyWriterStep \/ AnyReaderStep

\* The calls of RingBuffer are among these.
LEMMA NextIsAnyStep == [Next]_vars => [AnyStep]_vars
  BY ParamAssumption DEF Next, WriterNext, ReaderNext, AnyStep, AnyWriterStep,
     AnyReaderStep

\* The ring's invariant does not depend on which lengths callers pass.
LEMMA AnyStepInv == RingInv /\ [AnyStep]_vars => RingInv'
<1> SUFFICES ASSUME RingInv, [AnyStep]_vars PROVE RingInv'
  OBVIOUS
<1>1. CASE AnyWriterStep
  BY <1>1, TryWriteCallInv, TryWriteLoadHeadInv, TryWriteCopyInv,
     TryWriteStoreTailInv, CloseStoreClosedInv, CloseNudgeInv, WriterWakeInv,
     WriterStorageErrorInv
  DEF AnyWriterStep
<1>2. CASE AnyReaderStep
  BY <1>2, TryReadCallInv, TryReadLoadTailInv, TryReadLoadClosedInv,
     TryReadCopyInv, TryReadStoreHeadInv, ReaderWakeInv, ReaderStorageErrorInv
  DEF AnyReaderStep
<1> QED
  BY <1>1, <1>2, RingStutter DEF AnyStep

\* What the refinement needs beyond RingInv: the closed word is set only by
\* a Writer that is closed, a closed Writer is in no TryWrite, and without
\* storage errors every byte placed in the ring is published.
PublishInv ==
    /\ closed = 1 => wclosed
    /\ wclosed => wpc \notin {"loadHead", "copy", "storeTail"}
    /\ ~StorageFails => ppos = wpos

StreamInv == RingInv /\ PublishInv

\* A fresh ring satisfies PublishInv.
LEMMA InitPublish == Init => PublishInv
  BY DEF Init, PublishInv

\* Every step of the ring keeps PublishInv.
LEMMA StepPublish == RingInv /\ PublishInv /\ [AnyStep]_vars => PublishInv'
<1> SUFFICES ASSUME RingInv, PublishInv, [AnyStep]_vars PROVE PublishInv'
  OBVIOUS
<1>1. CASE AnyWriterStep
  BY <1>1 DEF RingInv, TypeOK, PublishInv, AnyWriterStep, TryWriteCall,
     TryWriteLoadHead, TryWriteCopy, TryWriteStoreTail, CloseStoreClosed,
     CloseNudge, WriterWake, WriterStorageError, WReturn, WGrant, header,
     whistory
<1>2. CASE AnyReaderStep
  BY <1>2 DEF PublishInv, AnyReaderStep, TryReadCall, TryReadLoadTail,
     TryReadLoadClosed, TryReadCopy, TryReadStoreHead, ReaderWake,
     ReaderStorageError, header, writerSide, writer, whistory
<1>3. CASE UNCHANGED vars
  BY <1>3 DEF PublishInv, vars, header, writer, whistory
<1> QED
  BY <1>1, <1>2, <1>3 DEF AnyStep

\* StreamInv is inductive.
LEMMA StreamInvariant == Spec => []StreamInv
<1>1. Init => StreamInv
  BY InitInv, InitPublish DEF StreamInv
<1>2. StreamInv /\ [Next]_vars => StreamInv'
  BY NextInv, NextIsAnyStep, StepPublish DEF StreamInv
<1> QED
  BY <1>1, <1>2, PTL DEF Spec

-----------------------------------------------------------------------------
(* Each step of the ring is a step of the stream or changes nothing of it. *)

\* The initial states map to the stream's initial state.
LEMMA InitRefines == Init => Stream!Init
<1> SUFFICES ASSUME Init PROVE Stream!Init
  OBVIOUS
<1>1. Queue = Bytes(0, 0)
  BY InitInv, QueueTrue DEF Init
<1>2. Bytes(0, 0) = <<>>
  BY DEF Bytes
<1>3. closed # 1 /\ rret.err # "EOF" /\ rret.bytes = <<>>
  BY DEF Init
<1>4. (closed = 1) = FALSE /\ (rret.err = "EOF") = FALSE
  BY <1>3
<1>5. [bytes |-> rret.bytes, eof |-> rret.err = "EOF"]
        = [bytes |-> <<>>, eof |-> FALSE]
  BY <1>3, <1>4, Zenon
<1> QED
  BY <1>1, <1>2, <1>4, <1>5, Zenon DEF Init, Stream!Init, Queue

\* A step that moves tail on by n is a Send.
LEMMA SendStep ==
    ASSUME RingInv, RingInv', NEW n \in 1 .. Cap,
           ppos' = ppos + n, rpos' = rpos, rpos + Cap >= ppos + n,
           closed' = closed, rret' = rret, closed = 1 => StorageFails
    PROVE  Stream!Send(n)
<1>1. rpos \in Nat /\ ppos \in Nat /\ rpos <= ppos /\ n \in Nat
  BY AvailTail, CapFacts
<1>2. Queue = Bytes(rpos, ppos) /\ Queue' = Bytes(rpos, ppos + n)
  BY QueueTrue, QueueTrueNext DEF Bytes
<1>3. Len(Queue) = ppos - rpos
  BY <1>1, <1>2, BytesType
<1>4. Queue' = Queue \o [i \in 1 .. n |-> ppos + i - 1]
  BY <1>1, <1>2, BytesAppend
<1>5. Len(Queue) + n <= Cap
  BY <1>1, <1>3, CapFacts
<1> QED
  BY <1>4, <1>5 DEF Stream!Send, Queue

\* A step that leaves positions, closed and the Reader's result alone is a
\* stutter of the stream, whatever it does to the rest of the data region.
LEMMA StutterStep ==
    ASSUME RingInv, RingInv', ppos' = ppos, rpos' = rpos,
           closed' = closed, rret' = rret
    PROVE  UNCHANGED Stream!streamVars
<1>1. Queue' = Queue
  BY QueueTrue, QueueTrueNext DEF Bytes
<1> QED
  BY <1>1 DEF Stream!streamVars, Queue

\* What the mapping puts for the stream's result.
Result == [bytes |-> rret.bytes, eof |-> rret.err = "EOF"]

\* A step that moves the Reader on by n and hands out those bytes is a
\* Receive; one that moves on and reports an error is a ReceiveFailed.
LEMMA ReceiveStep ==
    ASSUME RingInv, RingInv', NEW n \in 1 .. Cap, rpos + n <= ppos,
           ppos' = ppos, rpos' = rpos + n, closed' = closed
    PROVE  /\ Result' = [bytes |-> Bytes(rpos, rpos + n), eof |-> FALSE]
              => Stream!Receive(n)
           /\ StorageFails /\ Result' = [bytes |-> <<>>, eof |-> FALSE]
              => Stream!ReceiveFailed(n)
<1>1. rpos \in Nat /\ ppos \in Nat /\ rpos <= ppos /\ n \in Nat
  BY AvailTail, CapFacts
<1>2. Queue = Bytes(rpos, ppos) /\ Queue' = Bytes(rpos + n, ppos)
  BY QueueTrue, QueueTrueNext DEF Bytes
<1>3. n <= Len(Queue)
  BY <1>1, <1>2, BytesType
<1>4. Queue' = SubSeq(Queue, n + 1, Len(Queue))
  BY <1>1, <1>2, BytesDrop
<1>5. SubSeq(Queue, 1, n) = Bytes(rpos, rpos + n)
  BY <1>1, <1>2, BytesTake
<1>6. ppos' = ppos /\ (closed = 1)' = (closed = 1)
  OBVIOUS
<1>7. ASSUME Result' = [bytes |-> Bytes(rpos, rpos + n), eof |-> FALSE]
      PROVE  Stream!Receive(n)
  BY <1>3, <1>4, <1>5, <1>6, <1>7, Zenon DEF Stream!Receive, Queue, Result
<1>8. ASSUME StorageFails, Result' = [bytes |-> <<>>, eof |-> FALSE]
      PROVE  Stream!ReceiveFailed(n)
  BY <1>3, <1>4, <1>6, <1>8, Zenon DEF Stream!ReceiveFailed, Queue, Result
<1> QED
  BY <1>7, <1>8

\* A step that leaves the positions and closed alone and returns no bytes
\* is a ReceiveNothing, or a ReceiveEof if it reports io.EOF.
LEMMA ReturnStep ==
    ASSUME RingInv, RingInv', ppos' = ppos, rpos' = rpos, closed' = closed
    PROVE  /\ Result' = [bytes |-> <<>>, eof |-> FALSE]
              => Stream!ReceiveNothing
           /\ closed = 1 /\ Result' = [bytes |-> <<>>, eof |-> TRUE]
              => Stream!ReceiveEof
<1>1. Queue' = Queue
  BY QueueTrue, QueueTrueNext DEF Bytes
<1>2. ppos' = ppos /\ (closed = 1)' = (closed = 1)
  OBVIOUS
<1>3. ASSUME Result' = [bytes |-> <<>>, eof |-> FALSE]
      PROVE  Stream!ReceiveNothing
  BY <1>1, <1>2, <1>3, Zenon DEF Stream!ReceiveNothing, Queue, Result
<1>4. ASSUME closed = 1, Result' = [bytes |-> <<>>, eof |-> TRUE]
      PROVE  Stream!ReceiveEof
  BY <1>1, <1>2, <1>4, Zenon DEF Stream!ReceiveEof, Queue, Result
<1> QED
  BY <1>3, <1>4

\* A step that only sets closed is a Close.
LEMMA CloseStep ==
    ASSUME RingInv, RingInv', ppos' = ppos, rpos' = rpos, closed' = 1,
           rret' = rret
    PROVE  Stream!Close
<1>1. Queue' = Queue
  BY QueueTrue, QueueTrueNext DEF Bytes
<1>2. ppos' = ppos /\ (closed = 1)' = TRUE /\ Result' = Result
  BY DEF Result
<1> QED
  BY <1>1, <1>2, Zenon DEF Stream!Close, Queue, Result

\* What TryRead's results are to the stream.
LEMMA ResultNext ==
    ASSUME NEW n, NEW err, NEW b, rret' = [n |-> n, err |-> err, bytes |-> b]
    PROVE  /\ err # "EOF" => Result' = [bytes |-> b, eof |-> FALSE]
           /\ err = "EOF" => Result' = [bytes |-> b, eof |-> TRUE]
<1>1. Result' = [bytes |-> b, eof |-> err = "EOF"]
  BY DEF Result
<1>2. ASSUME err # "EOF" PROVE (err = "EOF") = FALSE
  BY <1>2
<1>3. ASSUME err = "EOF" PROVE (err = "EOF") = TRUE
  BY <1>3
<1> QED
  BY <1>1, <1>2, <1>3, Zenon

-----------------------------------------------------------------------------
\* The Writer's steps.
LEMMA WriterRefines ==
    ASSUME StreamInv, RingInv', AnyWriterStep
    PROVE  [Stream!Next]_Stream!streamVars
<1> USE DEF StreamInv
<1>1. rret' = rret /\ rpos' = rpos
  BY DEF AnyWriterStep, TryWriteCall, TryWriteLoadHead, TryWriteCopy,
     TryWriteStoreTail, CloseStoreClosed, CloseNudge, WriterWake,
     WriterStorageError, readerSide, reader, rhistory
<1>2. /\ wpos \in Nat /\ ppos \in Nat /\ rpos \in Nat /\ chpos \in Nat
      /\ wn \in Nat /\ ppos <= wpos /\ chpos <= rpos /\ rpos <= ppos
      /\ wpos <= chpos + Cap
  <2>1. /\ wpos \in Nat /\ ppos \in Nat /\ rpos \in Nat /\ chpos \in Nat
        /\ wn \in Nat /\ hpos \in Nat /\ ctpos \in Nat
    BY DEF RingInv, TypeOK
  <2> QED
    BY <2>1, CapFacts DEF RingInv, Chain
<1>3. CASE TryWriteStoreTail
  <2>1. 1 <= wn /\ wpos + wn <= chpos + Cap
    BY <1>3 DEF RingInv, WriterCallSound, TryWriteStoreTail
  <2>2. PICK n \in 1 .. Cap : n = wpos + wn - ppos
    BY <1>2, <2>1, CapFacts
  <2>3. rpos + Cap >= ppos + n /\ ppos' = ppos + n
    BY <1>2, <1>3, <2>1, <2>2, CapFacts DEF TryWriteStoreTail
  <2>4. closed' = closed /\ closed # 1
    BY <1>3 DEF TryWriteStoreTail, PublishInv
  <2>5. Stream!Send(n)
    BY <1>1, <2>3, <2>4, SendStep
  <2> QED
    BY <2>5 DEF Stream!Next
<1>4. CASE CloseNudge
  <2>1. closed' = closed /\ ppos' = wpos
    BY <1>4 DEF CloseNudge
  <2>2. CASE wpos = ppos
    BY <1>1, <2>1, <2>2, StutterStep
  <2>3. CASE wpos # ppos
    <3>1. PICK n \in 1 .. Cap : n = wpos - ppos
      BY <1>2, <2>3, CapFacts
    <3>2. rpos + Cap >= ppos + n /\ ppos' = ppos + n
      BY <1>2, <2>1, <3>1, CapFacts
    <3>3. StorageFails
      BY <2>3 DEF PublishInv
    <3>4. Stream!Send(n)
      BY <1>1, <2>1, <3>2, <3>3, SendStep
    <3> QED
      BY <3>4 DEF Stream!Next
  <2> QED
    BY <2>2, <2>3
<1>5. CASE CloseStoreClosed /\ closed' = 1
  <2>1. ppos' = ppos
    BY <1>5 DEF CloseStoreClosed, whistory
  <2> QED
    BY <1>1, <1>5, <2>1, CloseStep DEF Stream!Next
<1>6. CASE ~TryWriteStoreTail /\ ~CloseNudge /\ ~(CloseStoreClosed /\ closed' = 1)
  <2>1. ppos' = ppos /\ closed' = closed
    BY <1>6 DEF AnyWriterStep, TryWriteCall, TryWriteLoadHead, TryWriteCopy,
       CloseStoreClosed, WriterWake, WriterStorageError, header, whistory
  <2> QED
    BY <1>1, <2>1, StutterStep
<1> QED
  BY <1>3, <1>4, <1>5, <1>6

\* The Reader's steps.
LEMMA ReaderRefines ==
    ASSUME StreamInv, RingInv', AnyReaderStep
    PROVE  [Stream!Next]_Stream!streamVars
<1> USE DEF StreamInv
<1>1. ppos' = ppos /\ closed' = closed
  BY DEF AnyReaderStep, TryReadCall, TryReadLoadTail, TryReadLoadClosed,
     TryReadCopy, TryReadStoreHead, ReaderWake, ReaderStorageError, header,
     writerSide, whistory
<1>2. /\ ppos \in Nat /\ rpos \in Nat /\ ctpos \in Nat /\ rn \in Nat
      /\ ctpos <= ppos /\ ctpos <= rpos + Cap /\ closed \in {0, 1}
      /\ rpc = "storeHead" => rn \in 1 .. Cap /\ rpos + rn <= ppos
  <2>1. /\ ppos \in Nat /\ rpos \in Nat /\ ctpos \in Nat /\ rn \in Nat
        /\ wpos \in Nat /\ chpos \in Nat /\ hpos \in Nat /\ closed \in {0, 1}
    BY DEF RingInv, TypeOK
  <2>2. ctpos <= ppos /\ ctpos <= rpos + Cap
    BY <2>1, CapFacts DEF RingInv, Chain
  <2>3. rpc = "storeHead" => 1 <= rn /\ rpos + rn <= ctpos
    BY DEF RingInv, ReaderCallSound
  <2> QED
    BY <2>1, <2>2, <2>3, CapFacts
<1>3. CASE TryReadStoreHead
  <2>1. PICK n \in 1 .. Cap : n = rn
    BY <1>2, <1>3 DEF TryReadStoreHead
  <2>2. rpos' = rpos + n /\ rpos + n <= ppos
    BY <1>2, <1>3, <2>1 DEF TryReadStoreHead
  <2>3. rbuf = Bytes(rpos, rpos + n)
    <3>1. rbuf \in Seq(Nat \cup {None}) /\ Len(rbuf) = n
      BY <1>3, <2>1 DEF TryReadStoreHead, RingInv, TypeOK, ReaderCallSound
    <3>2. \A i \in 1 .. n : rbuf[i] = rpos + i - 1
      BY <3>1 DEF RingInv, Fifo
    <3> QED
      BY <1>2, <3>1, <3>2 DEF Bytes
  <2>4. Result' = [bytes |-> rbuf, eof |-> FALSE]
    BY <1>3, ResultNext DEF TryReadStoreHead
  <2>5. Stream!Receive(n)
    BY <1>1, <2>2, <2>3, <2>4, ReceiveStep
  <2> QED
    BY <2>5 DEF Stream!Next
<1>4. CASE ReaderStorageError
  <2>1. StorageFails /\ Result' = [bytes |-> <<>>, eof |-> FALSE]
    BY <1>4, ResultNext DEF ReaderStorageError, RReturn
  <2>2. CASE rpc = "storeHead"
    <3>1. PICK n \in 1 .. Cap : n = rn
      BY <1>2, <2>2
    <3>2. rpos' = rpos + n /\ rpos + n <= ppos
      BY <1>2, <1>4, <2>2, <3>1 DEF ReaderStorageError
    <3>3. Stream!ReceiveFailed(n)
      BY <1>1, <2>1, <3>2, ReceiveStep
    <3> QED
      BY <3>3 DEF Stream!Next
  <2>3. CASE rpc # "storeHead"
    <3>1. rpos' = rpos
      BY <1>4, <2>3 DEF ReaderStorageError
    <3> QED
      BY <1>1, <2>1, <3>1, ReturnStep DEF Stream!Next
  <2> QED
    BY <2>2, <2>3
<1>5. CASE TryReadLoadClosed
  <2>1. rpos' = rpos
    BY <1>5 DEF TryReadLoadClosed, rhistory
  <2>2. CASE closed = 1
    <3>1. rret' = [n |-> 0, err |-> "EOF", bytes |-> <<>>]
      BY <1>5, <2>2 DEF TryReadLoadClosed, LoadClosed, RReturn
    <3>2. Result' = [bytes |-> <<>>, eof |-> TRUE]
      BY <3>1, ResultNext
    <3> QED
      BY <1>1, <2>1, <2>2, <3>2, ReturnStep DEF Stream!Next
  <2>3. CASE closed # 1
    <3>1. rret' = [n |-> 0, err |-> "nil", bytes |-> <<>>]
      BY <1>2, <1>5, <2>3 DEF TryReadLoadClosed, LoadClosed, RReturn
    <3>2. Result' = [bytes |-> <<>>, eof |-> FALSE]
      BY <3>1, ResultNext
    <3> QED
      BY <1>1, <2>1, <3>2, ReturnStep DEF Stream!Next
  <2> QED
    BY <2>2, <2>3
<1>6. ASSUME NEW len \in Nat, TryReadCall(len)
      PROVE  [Stream!Next]_Stream!streamVars
  <2>1. rpos' = rpos
    BY <1>6 DEF TryReadCall, rhistory
  <2>2. CASE rret' = rret
    BY <1>1, <2>1, <2>2, StutterStep
  <2>3. CASE RReturn("nil")
    <3>1. Result' = [bytes |-> <<>>, eof |-> FALSE]
      BY <2>3, ResultNext DEF RReturn
    <3> QED
      BY <1>1, <2>1, <3>1, ReturnStep DEF Stream!Next
  <2> QED
    BY <1>6, <2>2, <2>3 DEF TryReadCall
<1>7. CASE TryReadLoadTail \/ TryReadCopy \/ ReaderWake
  <2>1. rpos' = rpos /\ rret' = rret
    BY <1>7 DEF TryReadLoadTail, TryReadCopy, ReaderWake, rhistory
  <2> QED
    BY <1>1, <2>1, StutterStep
<1> QED
  BY <1>3, <1>4, <1>5, <1>6, <1>7 DEF AnyReaderStep

\* Every step, and every step of others that leaves the ring alone.
LEMMA StepRefines ==
    StreamInv /\ StreamInv' /\ [AnyStep]_vars => [Stream!Next]_Stream!streamVars
<1> SUFFICES ASSUME StreamInv, StreamInv', [AnyStep]_vars
             PROVE  [Stream!Next]_Stream!streamVars
  OBVIOUS
<1>1. CASE UNCHANGED vars
  <2>1. ppos' = ppos /\ rpos' = rpos /\ closed' = closed /\ rret' = rret
    BY <1>1 DEF vars, header, reader, whistory, rhistory
  <2> QED
    BY <2>1, StutterStep DEF StreamInv
<1> QED
  BY <1>1, WriterRefines, ReaderRefines DEF AnyStep, StreamInv

\* The ring implements the bounded stream of ByteStream.tla: TryWrite is a
\* Send at its tail store, TryRead a Receive at its head store, Close closes,
\* and no other step is visible, for every interleaving of the two sides.
THEOREM RefinesStreamHolds == Spec => RefinesStream
  BY StepRefines, NextIsAnyStep, InitRefines, StreamInvariant, PTL
  DEF Spec, RefinesStream, Stream!Spec
=============================================================================
