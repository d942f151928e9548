-------------------------- MODULE StoreOrderProofs --------------------------
(***************************************************************************)
(* Proofs about StoreOrder: with every memory order but "weak" the Reader  *)
(* sees the bytes in FIFO order, for every capacity, every set of lengths  *)
(* and every number of pending stores.                                     *)
(***************************************************************************)
EXTENDS StoreOrder, ModularArithmetic

-----------------------------------------------------------------------------
(* Queues of pending stores.                                               *)

\* Removing the i-th store keeps the others, in their order.
LEMMA WithoutFacts ==
    ASSUME NEW S, NEW q \in Seq(S), NEW i \in 1 .. Len(q)
    PROVE  /\ Without(q, i) \in Seq(S)
           /\ Len(Without(q, i)) = Len(q) - 1
           /\ \A j \in 1 .. Len(q) - 1 :
                Without(q, i)[j] = IF j < i THEN q[j] ELSE q[j + 1]
<1>1. SubSeq(q, 1, i - 1) \in Seq(S) /\ Len(SubSeq(q, 1, i - 1)) = i - 1
  OBVIOUS
<1>2. /\ SubSeq(q, i + 1, Len(q)) \in Seq(S)
      /\ Len(SubSeq(q, i + 1, Len(q))) = Len(q) - i
  OBVIOUS
<1>3. \A j \in 1 .. i - 1 : SubSeq(q, 1, i - 1)[j] = q[j]
  OBVIOUS
<1>4. \A j \in 1 .. Len(q) - i : SubSeq(q, i + 1, Len(q))[j] = q[i + j]
  OBVIOUS
<1>5. Len(q) \in Nat
  OBVIOUS
<1> DEFINE a == SubSeq(q, 1, i - 1)
           b == SubSeq(q, i + 1, Len(q))
<1> HIDE DEF a, b
<1>6. /\ a \in Seq(S) /\ Len(a) = i - 1 /\ \A j \in 1 .. i - 1 : a[j] = q[j]
      /\ b \in Seq(S) /\ Len(b) = Len(q) - i
      /\ \A j \in 1 .. Len(q) - i : b[j] = q[i + j]
  BY <1>1, <1>2, <1>3, <1>4 DEF a, b
<1>7. a \o b \in Seq(S) /\ Len(a \o b) = Len(q) - 1
  BY <1>5, <1>6
<1>8. ASSUME NEW j \in 1 .. Len(q) - 1
      PROVE  (a \o b)[j] = IF j < i THEN q[j] ELSE q[j + 1]
  <2>1. CASE j < i
    BY <1>5, <1>6, <2>1
  <2>2. CASE ~(j < i)
    <3>1. (a \o b)[j] = b[j - (i - 1)]
      BY <1>5, <1>6, <2>2
    <3>2. j - (i - 1) \in 1 .. Len(q) - i /\ i + (j - (i - 1)) = j + 1
      BY <1>5, <2>2
    <3> QED
      BY <1>6, <2>2, <3>1, <3>2
  <2> QED
    BY <2>1, <2>2
<1> QED
  BY <1>7, <1>8 DEF Without, a, b

\* What the two sides store, and where.
WriterStores == [loc : Slots \cup {offTail, offClosed}, val : Nat]
ReaderStores == [loc : {offHead}, val : Nat]

\* The parts of a pending store.
LEMMA StoreType ==
    ASSUME NEW q \in Seq(WriterStores), NEW i \in 1 .. Len(q)
    PROVE  q[i].loc \in Slots \cup {offTail, offClosed} /\ q[i].val \in Nat
<1>1. q[i] \in WriterStores
  OBVIOUS
<1> QED
  BY <1>1 DEF WriterStores

\* Appending stores keeps the ones that are pending.
LEMMA ConcatFacts ==
    ASSUME NEW q \in Seq(WriterStores), NEW r \in Seq(WriterStores)
    PROVE  /\ q \o r \in Seq(WriterStores)
           /\ Len(q \o r) = Len(q) + Len(r)
           /\ \A j \in 1 .. Len(q) : (q \o r)[j] = q[j]
           /\ \A j \in Len(q) + 1 .. Len(q) + Len(r) : (q \o r)[j] = r[j - Len(q)]
  OBVIOUS

\* The stores of a TryWrite: the data bytes, then the tail.
LEMMA WriteStoresFacts ==
    ASSUME wtail \in Nat, NEW n \in Nat
    PROVE  /\ WriteStores(n) \in Seq(WriterStores)
           /\ Len(WriteStores(n)) = n + 1
           /\ \A j \in 1 .. n : WriteStores(n)[j]
                                  = Store((wtail + j - 1) % Cap, wtail + j - 1)
           /\ WriteStores(n)[n + 1] = Store(offTail, wtail + n)
<1> DEFINE d == [j \in 1 .. n |-> Store((wtail + j - 1) % Cap, wtail + j - 1)]
           t == <<Store(offTail, wtail + n)>>
<1>1. \A j \in 1 .. n : Store((wtail + j - 1) % Cap, wtail + j - 1) \in WriterStores
  BY StoreOrderAssumption DEF Store, WriterStores, Slots
<1>2. d \in Seq(WriterStores) /\ Len(d) = n
  BY <1>1
<1>3. \A j \in 1 .. n : d[j] = Store((wtail + j - 1) % Cap, wtail + j - 1)
  OBVIOUS
<1>4. Store(offTail, wtail + n) \in WriterStores
  BY DEF Store, WriterStores
<1>5. t \in Seq(WriterStores) /\ Len(t) = 1 /\ t[1] = Store(offTail, wtail + n)
  BY <1>4
<1> HIDE DEF d, t
<1>6. /\ d \o t \in Seq(WriterStores) /\ Len(d \o t) = n + 1
      /\ \A j \in 1 .. n : (d \o t)[j] = d[j]
      /\ (d \o t)[n + 1] = t[1]
  <2>1. n + 1 \in Len(d) + 1 .. Len(d) + Len(t) /\ n + 1 - Len(d) = 1
    BY <1>2, <1>5
  <2>2. /\ d \o t \in Seq(WriterStores) /\ Len(d \o t) = Len(d) + Len(t)
        /\ \A j \in 1 .. Len(d) : (d \o t)[j] = d[j]
        /\ \A j \in Len(d) + 1 .. Len(d) + Len(t) : (d \o t)[j] = t[j - Len(d)]
    BY <1>2, <1>5, ConcatFacts
  <2> QED
    BY <1>2, <1>5, <2>1, <2>2
<1> QED
  BY <1>3, <1>5, <1>6 DEF WriteStores, d, t

-----------------------------------------------------------------------------
(* The inductive invariant.                                                *)

OrderTypeOK ==
    /\ kind \in Kinds
    /\ mem \in [Slots \cup Words -> Int]
    /\ mem[offHead] \in Nat /\ mem[offTail] \in Nat /\ mem[offClosed] \in {0, 1}
    /\ wq \in Seq(WriterStores) /\ rq \in Seq(ReaderStores)
    /\ wtail \in Nat /\ cachedHead \in Nat /\ wclosed \in BOOLEAN
    /\ rhead \in Nat /\ cachedTail \in Nat /\ rn \in Nat /\ rbuf \in Seq(Int)

\* Every view of a counter lags behind the counter, and the Writer is at
\* most Cap ahead of its view of head.
Positions ==
    /\ cachedHead <= mem[offHead] /\ mem[offHead] <= rhead
    /\ rhead + rn <= cachedTail /\ cachedTail <= mem[offTail]
    /\ mem[offTail] <= wtail /\ wtail <= cachedHead + Cap
    /\ Len(rbuf) <= rn

\* A byte that is not yet in memory is not yet published.
PendingData ==
    \A i \in 1 .. Len(wq) : wq[i].loc \in Slots =>
        /\ wq[i].loc = wq[i].val % Cap
        /\ mem[offTail] <= wq[i].val /\ wq[i].val < wtail

\* The pending tails grow, and each is at most the bytes queued after it.
PendingTails ==
    /\ \A i \in 1 .. Len(wq) : wq[i].loc = offTail =>
          mem[offTail] <= wq[i].val /\ wq[i].val <= wtail
    /\ \A j \in 1 .. Len(wq) : \A i \in 1 .. j - 1 :
          wq[i].loc = offTail /\ wq[j].loc # offClosed
              => wq[i].val <= wq[j].val

PendingHeads ==
    /\ \A i \in 1 .. Len(rq) : mem[offHead] <= rq[i].val /\ rq[i].val <= rhead
    /\ \A j \in 1 .. Len(rq) : \A i \in 1 .. j - 1 : rq[i].val <= rq[j].val

\* Each byte the Writer has written since head is in memory or on its way.
Placed ==
    \A k \in mem[offHead] .. wtail - 1 :
        \/ mem[k % Cap] = k
        \/ \E i \in 1 .. Len(wq) : wq[i] = Store(k % Cap, k)

\* The last tail is in memory or on its way, and before any closed word.
PendingClosed ==
    /\ mem[offClosed] = 1 => wclosed /\ mem[offTail] = wtail
    /\ \A i \in 1 .. Len(wq) : wq[i].loc = offClosed =>
          /\ wclosed /\ wq[i].val = 1
          /\ \/ mem[offTail] = wtail
             \/ \E j \in 1 .. i - 1 : wq[j] = Store(offTail, wtail)
    /\ \/ mem[offTail] = wtail
       \/ \E j \in 1 .. Len(wq) : wq[j] = Store(offTail, wtail)

OrderInv ==
    /\ OrderTypeOK
    /\ Positions
    /\ PendingData
    /\ PendingTails
    /\ PendingHeads
    /\ Placed
    /\ PendingClosed
    /\ OrderedFifo

\* The three words and the data bytes lie at different places.
LEMMA Locations ==
    /\ offHead # offTail /\ offHead # offClosed /\ offTail # offClosed
    /\ Words = {offHead, offTail, offClosed} /\ Words \cap Slots = {}
  BY StoreOrderAssumption DEF offHead, offTail, offClosed, Words, Slots

\* Every position has a slot.
LEMMA SlotOf == ASSUME NEW k \in Int PROVE k % Cap \in Slots
  BY StoreOrderAssumption DEF Slots

\* A fresh ring without pending stores satisfies OrderInv.
LEMMA OrderInitInv == OrderInit => OrderInv
<1> SUFFICES ASSUME OrderInit PROVE OrderInv
  OBVIOUS
<1>1. mem \in [Slots \cup Words -> Int]
  BY DEF OrderInit
<1>2. mem[offHead] = 0 /\ mem[offTail] = 0 /\ mem[offClosed] = 0
  BY Locations DEF OrderInit
<1>2a. OrderTypeOK
  <2>1. wq \in Seq(WriterStores) /\ rq \in Seq(ReaderStores) /\ rbuf \in Seq(Int)
    BY DEF OrderInit
  <2>2. /\ kind \in Kinds /\ wtail \in Nat /\ cachedHead \in Nat /\ rhead \in Nat
        /\ cachedTail \in Nat /\ rn \in Nat
    BY DEF OrderInit
  <2>3. wclosed \in BOOLEAN
    BY DEF OrderInit
  <2> QED
    BY <1>1, <1>2, <2>1, <2>2, <2>3 DEF OrderTypeOK
<1>3. wq = <<>> /\ rq = <<>> /\ rbuf = <<>>
  BY DEF OrderInit
<1>4. Positions
  BY <1>2, <1>3, StoreOrderAssumption DEF OrderInit, Positions
<1>5. PendingData /\ PendingTails /\ PendingHeads /\ OrderedFifo
  BY <1>3 DEF PendingData, PendingTails, PendingHeads, OrderedFifo
<1>6. Placed /\ PendingClosed
  BY <1>2, <1>3 DEF OrderInit, Placed, PendingClosed
<1> QED
  BY <1>2a, <1>4, <1>5, <1>6 DEF OrderInv

\* The published bytes are in memory.
LEMMA Published ==
    ASSUME OrderInv, NEW k \in mem[offHead] .. mem[offTail] - 1
    PROVE  mem[k % Cap] = k
<1>1. k \in mem[offHead] .. wtail - 1 /\ k % Cap \in Slots /\ k \in Int
  <2>1. mem[offHead] \in Nat /\ mem[offTail] \in Nat /\ wtail \in Nat
    BY DEF OrderInv, OrderTypeOK
  <2>2. mem[offTail] <= wtail
    BY DEF OrderInv, Positions
  <2> QED
    BY <2>1, <2>2, SlotOf
<1>2. ASSUME NEW i \in 1 .. Len(wq), wq[i] = Store(k % Cap, k)
      PROVE  FALSE
  <2>1. wq[i].loc \in Slots /\ wq[i].val = k
    BY <1>1, <1>2 DEF Store
  <2>2. mem[offTail] <= k
    BY <2>1 DEF OrderInv, PendingData
  <2> QED
    BY <1>1, <2>2 DEF OrderInv, OrderTypeOK
<1> QED
  BY <1>1, <1>2 DEF OrderInv, Placed

\* TryWrite queues its data stores and then the tail.
LEMMA TryWriteInv ==
    ASSUME OrderInv, NEW len \in Nat \ {0}, TryWrite(len)
    PROVE  OrderInv'
<1> USE DEF OrderInv
<1>1. /\ wtail \in Nat /\ cachedHead \in Nat /\ mem[offHead] \in Nat
      /\ mem[offTail] \in Nat /\ wq \in Seq(WriterStores) /\ Cap \in Nat
      /\ len \in Nat /\ ~wclosed
  BY StoreOrderAssumption DEF OrderTypeOK, TryWrite
<1>2. PICK seen \in {mem[offHead], cachedHead}, n \in Nat :
         /\ cachedHead' = seen /\ wtail' = wtail + n
         /\ wtail + n <= seen + Cap /\ cachedHead <= seen /\ seen <= mem[offHead]
         /\ wq' = IF n = 0 THEN wq ELSE wq \o WriteStores(n)
  <2> DEFINE seen == IF Room(cachedHead) < len THEN mem[offHead] ELSE cachedHead
             n    == IF len > Room(seen) THEN Room(seen) ELSE len
  <2>1. cachedHead <= mem[offHead] /\ wtail <= cachedHead + Cap
    BY DEF Positions
  <2>2. seen \in {mem[offHead], cachedHead} /\ seen \in Nat
    BY <1>1
  <2>3. cachedHead <= seen /\ seen <= mem[offHead]
    BY <1>1, <2>1
  <2>4. Room(seen) = Cap - (wtail - seen)
    BY DEF Room
  <2> HIDE DEF seen
  <2>5. n \in Nat /\ wtail + n <= seen + Cap
    BY <1>1, <2>1, <2>2, <2>3, <2>4
  <2>6. /\ cachedHead' = seen /\ wtail' = wtail + n
        /\ wq' = IF n = 0 THEN wq ELSE wq \o WriteStores(n)
    BY DEF TryWrite, seen
  <2> HIDE DEF n
  <2> QED
    BY <2>2, <2>3, <2>5, <2>6
<1>3. /\ mem' = mem /\ kind' = kind /\ rq' = rq /\ wclosed' = wclosed
      /\ rhead' = rhead /\ cachedTail' = cachedTail /\ rn' = rn /\ rbuf' = rbuf
  BY DEF TryWrite
<1>4. seen \in Nat /\ cachedHead' \in Nat /\ wtail' \in Nat
  BY <1>1, <1>2
<1>5. Positions'
  BY <1>1, <1>2, <1>3, <1>4 DEF Positions
<1>6. PendingHeads' /\ OrderedFifo'
  BY <1>3 DEF PendingHeads, OrderedFifo
<1>7. CASE n = 0
  <2>1. wq' = wq /\ wtail' = wtail
    BY <1>1, <1>2, <1>7
  <2>2. OrderTypeOK'
    BY <1>3, <1>4, <2>1 DEF OrderTypeOK
  <2>3. PendingData' /\ PendingTails' /\ Placed' /\ PendingClosed'
    BY <1>3, <2>1 DEF PendingData, PendingTails, Placed, PendingClosed
  <2> QED
    BY <1>5, <1>6, <2>2, <2>3
<1>8. CASE n # 0
  <2> DEFINE L == Len(wq)
  <2>1. /\ wq' \in Seq(WriterStores) /\ Len(wq') = L + n + 1 /\ L \in Nat
        /\ \A j \in 1 .. L : wq'[j] = wq[j]
        /\ \A j \in 1 .. n : wq'[L + j]
                               = Store((wtail + j - 1) % Cap, wtail + j - 1)
        /\ wq'[L + n + 1] = Store(offTail, wtail + n)
    <3>1. wq' = wq \o WriteStores(n)
      BY <1>2, <1>8
    <3>2. /\ WriteStores(n) \in Seq(WriterStores)
          /\ Len(WriteStores(n)) = n + 1
          /\ \A j \in 1 .. n : WriteStores(n)[j]
                               = Store((wtail + j - 1) % Cap, wtail + j - 1)
          /\ WriteStores(n)[n + 1] = Store(offTail, wtail + n)
      BY <1>1, WriteStoresFacts
    <3>3. L \in Nat
      BY <1>1
    <3>4. /\ wq' \in Seq(WriterStores) /\ Len(wq') = L + (n + 1)
          /\ \A j \in 1 .. L : wq'[j] = wq[j]
          /\ \A j \in L + 1 .. L + (n + 1) : wq'[j] = WriteStores(n)[j - L]
      BY <1>1, <3>1, <3>2, ConcatFacts
    <3>5. \A j \in 1 .. n + 1 : L + j \in L + 1 .. L + (n + 1) /\ (L + j) - L = j
      BY <3>3
    <3>6. \A j \in 1 .. n + 1 : wq'[L + j] = WriteStores(n)[j]
      BY <3>4, <3>5
    <3> HIDE DEF L
    <3>7. n + 1 \in 1 .. n + 1 /\ L + (n + 1) = L + n + 1 /\ 1 .. n \subseteq 1 .. n + 1
      BY <3>3
    <3> QED
      BY <3>2, <3>3, <3>4, <3>6, <3>7
  <2> HIDE DEF L
  <2>2. ASSUME NEW j \in 1 .. Len(wq')
        PROVE  \/ j \in 1 .. L /\ wq'[j] = wq[j]
               \/ /\ j > L /\ wq'[j].loc \in Slots /\ wq'[j].loc = wq'[j].val % Cap
                  /\ wtail <= wq'[j].val /\ wq'[j].val < wtail + n
               \/ j > L /\ wq'[j] = Store(offTail, wtail + n)
    <3>1. CASE j \in 1 .. L
      BY <2>1, <3>1
    <3>2. CASE j \in L + 1 .. L + n
      <4>1. j - L \in 1 .. n /\ L + (j - L) = j
        BY <2>1, <3>2
      <4>2. wq'[j] = Store((wtail + (j - L) - 1) % Cap, wtail + (j - L) - 1)
        BY <2>1, <4>1
      <4>3. wtail + (j - L) - 1 \in wtail .. wtail + n - 1
        BY <1>1, <2>1, <4>1
      <4> DEFINE v == wtail + (j - L) - 1
      <4>4. v \in Int /\ wtail <= v /\ v < wtail + n
        BY <1>1, <4>3
      <4>5. wq'[j] = Store(v % Cap, v) /\ v % Cap \in Slots
        BY <4>2, <4>4, SlotOf
      <4> HIDE DEF v
      <4>6. wq'[j].loc = v % Cap /\ wq'[j].val = v
        BY <4>5 DEF Store
      <4> QED
        BY <2>1, <3>2, <4>4, <4>5, <4>6
    <3>3. CASE j = L + n + 1
      BY <2>1, <3>3
    <3> QED
      BY <2>1, <3>1, <3>2, <3>3
  <2>3. OrderTypeOK'
    BY <1>3, <1>4, <2>1 DEF OrderTypeOK
  <2>4. Store(offTail, wtail + n).loc = offTail /\ Store(offTail, wtail + n).val = wtail + n
    BY DEF Store
  <2>5. mem[offTail] <= wtail
    BY DEF Positions
  <2>6. PendingData'
    <3> SUFFICES ASSUME NEW j \in 1 .. Len(wq'), wq'[j].loc \in Slots
                 PROVE  /\ wq'[j].loc = wq'[j].val % Cap
                        /\ mem[offTail] <= wq'[j].val /\ wq'[j].val < wtail + n
      BY <1>2, <1>3 DEF PendingData
    <3>1. CASE j \in 1 .. L /\ wq'[j] = wq[j]
      <4>1. wq[j].loc = wq[j].val % Cap /\ mem[offTail] <= wq[j].val /\ wq[j].val < wtail
        BY <3>1 DEF PendingData, L
      <4>2. wq[j].val \in Nat
        BY <1>1, <3>1, StoreType DEF L
      <4> QED
        BY <1>1, <3>1, <4>1, <4>2
    <3>2. CASE ~(j \in 1 .. L /\ wq'[j] = wq[j])
      <4>1. wq'[j].val \in Nat
        BY <2>1, StoreType
      <4> QED
        BY <1>1, <2>2, <2>4, <2>5, <3>2, <4>1, Locations
    <3> QED
      BY <3>1, <3>2
  <2>7. PendingTails'
    <3>1. \A j \in 1 .. Len(wq') : wq'[j].val \in Nat
      BY <2>1, StoreType
    <3>2. \A j \in 1 .. L : wq[j].loc = offTail => mem[offTail] <= wq[j].val /\ wq[j].val <= wtail
      BY DEF PendingTails, L
    <3>3. ASSUME NEW j \in 1 .. Len(wq'), wq'[j].loc = offTail
          PROVE  mem[offTail] <= wq'[j].val /\ wq'[j].val <= wtail + n
      BY <1>1, <2>2, <2>4, <2>5, <3>1, <3>2, <3>3, Locations
    <3>4. ASSUME NEW j \in 1 .. Len(wq'), NEW i \in 1 .. j - 1,
                 wq'[i].loc = offTail, wq'[j].loc # offClosed
          PROVE  wq'[i].val <= wq'[j].val
      <4>1. i \in 1 .. Len(wq')
        BY <2>1
      <4>2. CASE j \in 1 .. L
        <5>1. i \in 1 .. L /\ wq'[i] = wq[i] /\ wq'[j] = wq[j]
          BY <2>1, <4>2
        <5> QED
          BY <3>4, <4>2, <5>1 DEF PendingTails, L
      <4>3. CASE j > L
        <5>1. wtail <= wq'[j].val
          BY <1>1, <2>1, <2>2, <2>4, <3>1, <4>3
        <5>2. CASE wq'[i].val <= wtail
          BY <1>1, <3>1, <4>1, <5>1, <5>2
        <5>3. CASE wq'[i].val > wtail
          <6>1. i > L /\ wq'[i] = Store(offTail, wtail + n)
            BY <1>1, <2>2, <2>4, <3>1, <3>2, <3>4, <4>1, <5>3, Locations
          <6>2. i = L + n + 1
            <7>1. ~(i \in L + 1 .. L + n)
              <8> SUFFICES ASSUME i \in L + 1 .. L + n PROVE FALSE
                OBVIOUS
              <8>1. i - L \in 1 .. n /\ L + (i - L) = i
                BY <2>1
              <8>2. wq'[i] = Store((wtail + (i - L) - 1) % Cap, wtail + (i - L) - 1)
                BY <2>1, <8>1
              <8>3. wq'[i].val = wtail + (i - L) - 1
                BY <8>2 DEF Store
              <8> QED
                BY <1>1, <2>1, <2>4, <6>1, <8>1, <8>3
            <7> QED
              BY <2>1, <4>1, <6>1, <7>1
          <6> QED
            BY <2>1, <6>2
        <5> QED
          BY <1>1, <3>1, <4>1, <5>2, <5>3
      <4> QED
        BY <2>1, <4>2, <4>3
    <3> QED
      BY <1>2, <1>3, <3>3, <3>4 DEF PendingTails
  <2>8. Placed'
    <3> SUFFICES ASSUME NEW k \in mem'[offHead] .. wtail' - 1
                 PROVE  \/ mem'[k % Cap] = k
                        \/ \E i \in 1 .. Len(wq') : wq'[i] = Store(k % Cap, k)
      BY DEF Placed
    <3>0. k \in mem[offHead] .. wtail + n - 1 /\ mem' = mem
      BY <1>1, <1>2, <1>3
    <3>1. CASE k < wtail
      BY <1>1, <2>1, <3>0, <3>1 DEF Placed, L
    <3>2. CASE k >= wtail
      <4>1. k - wtail + 1 \in 1 .. n /\ wtail + (k - wtail + 1) - 1 = k
        BY <1>1, <3>0, <3>2
      <4>2. wq'[L + (k - wtail + 1)] = Store(k % Cap, k)
        BY <2>1, <4>1
      <4>3. L + (k - wtail + 1) \in 1 .. Len(wq')
        BY <2>1, <4>1
      <4> QED
        BY <4>2, <4>3
    <3> QED
      BY <1>1, <3>0, <3>1, <3>2
  <2>9. PendingClosed'
    <3>1. ASSUME NEW j \in 1 .. Len(wq'), wq'[j].loc = offClosed PROVE FALSE
      BY <1>1, <2>2, <2>4, <3>1, Locations DEF PendingClosed, L
    <3>2. mem[offClosed] # 1
      BY <1>1 DEF PendingClosed
    <3>3. L + n + 1 \in 1 .. Len(wq') /\ wq'[L + n + 1] = Store(offTail, wtail')
      BY <1>2, <2>1
    <3> QED
      BY <1>3, <3>1, <3>2, <3>3 DEF PendingClosed
  <2> QED
    BY <1>5, <1>6, <2>3, <2>6, <2>7, <2>8, <2>9
<1> QED
  BY <1>7, <1>8

\* Close queues the closed word and then the tail that is already on its way.
LEMMA CloseInv ==
    ASSUME OrderInv, Close
    PROVE  OrderInv'
<1> USE DEF OrderInv
<1> DEFINE L == Len(wq)
           c == <<Store(offClosed, 1), Store(offTail, wtail)>>
<1>1. /\ wtail \in Nat /\ mem[offHead] \in Nat /\ mem[offTail] \in Nat
      /\ wq \in Seq(WriterStores) /\ L \in Nat /\ ~wclosed
  BY DEF OrderTypeOK, Close
<1>2. /\ mem' = mem /\ kind' = kind /\ rq' = rq /\ wtail' = wtail
      /\ cachedHead' = cachedHead /\ rhead' = rhead /\ cachedTail' = cachedTail
      /\ rn' = rn /\ rbuf' = rbuf /\ wclosed' = TRUE
  BY DEF Close
<1>3. /\ c \in Seq(WriterStores) /\ Len(c) = 2
      /\ c[1] = Store(offClosed, 1) /\ c[2] = Store(offTail, wtail)
  <2>1. Store(offClosed, 1) \in WriterStores /\ Store(offTail, wtail) \in WriterStores
    BY <1>1 DEF Store, WriterStores
  <2> QED
    BY <2>1
<1> HIDE DEF c, L
<1>4. /\ wq' \in Seq(WriterStores) /\ Len(wq') = L + 2
      /\ \A j \in 1 .. L : wq'[j] = wq[j]
      /\ wq'[L + 1] = Store(offClosed, 1) /\ wq'[L + 2] = Store(offTail, wtail)
  <2>1. wq' = wq \o c
    BY DEF Close, c
  <2>2. /\ wq' \in Seq(WriterStores) /\ Len(wq') = L + Len(c)
        /\ \A j \in 1 .. L : wq'[j] = wq[j]
        /\ \A j \in L + 1 .. L + Len(c) : wq'[j] = c[j - L]
    BY <1>1, <1>3, <2>1, ConcatFacts DEF L
  <2>3. \A j \in 1 .. 2 : L + j \in L + 1 .. L + Len(c) /\ (L + j) - L = j
    BY <1>1, <1>3
  <2>4. \A j \in 1 .. 2 : wq'[L + j] = c[j]
    BY <2>2, <2>3
  <2>5. wq'[L + 1] = c[1] /\ wq'[L + 2] = c[2]
    BY <2>4
  <2> QED
    BY <1>3, <2>2, <2>5
<1>5. /\ wq'[L + 1].loc = offClosed /\ wq'[L + 1].val = 1
      /\ wq'[L + 2].loc = offTail /\ wq'[L + 2].val = wtail
  BY <1>4 DEF Store
<1>6. \A j \in 1 .. Len(wq') : j \in 1 .. L \/ j = L + 1 \/ j = L + 2
  BY <1>1, <1>4
<1>7. OrderTypeOK'
  BY <1>2, <1>4 DEF OrderTypeOK
<1>8. Positions' /\ PendingHeads' /\ OrderedFifo'
  BY <1>2 DEF Positions, PendingHeads, OrderedFifo
<1>9. PendingData'
  BY <1>2, <1>4, <1>5, <1>6, Locations DEF PendingData, L
<1>10. PendingTails'
  <2>1. mem[offTail] <= wtail
    BY DEF Positions
  <2>2. ASSUME NEW j \in 1 .. Len(wq'), wq'[j].loc = offTail
        PROVE  mem[offTail] <= wq'[j].val /\ wq'[j].val <= wtail
    BY <1>1, <1>4, <1>5, <1>6, <2>1, <2>2, Locations DEF PendingTails, L
  <2>3. ASSUME NEW j \in 1 .. Len(wq'), NEW i \in 1 .. j - 1,
               wq'[i].loc = offTail, wq'[j].loc # offClosed
        PROVE  wq'[i].val <= wq'[j].val
    <3>1. i \in 1 .. Len(wq')
      BY <1>1, <1>4
    <3>2. CASE j \in 1 .. L
      <4>1. i \in 1 .. L /\ wq'[i] = wq[i] /\ wq'[j] = wq[j]
        BY <1>1, <1>4, <3>2
      <4> QED
        BY <2>3, <3>2, <4>1 DEF PendingTails, L
    <3>3. CASE j = L + 2
      BY <1>5, <2>2, <2>3, <3>1, <3>3
    <3> QED
      BY <1>5, <1>6, <2>3, <3>2, <3>3
  <2> QED
    BY <1>2, <2>2, <2>3 DEF PendingTails
<1>11. Placed'
  <2> SUFFICES ASSUME NEW k \in mem[offHead] .. wtail - 1
               PROVE  \/ mem[k % Cap] = k
                      \/ \E i \in 1 .. Len(wq') : wq'[i] = Store(k % Cap, k)
    BY <1>2 DEF Placed
  <2> QED
    BY <1>1, <1>4 DEF Placed, L
<1>12. PendingClosed'
  <2>1. mem[offClosed] # 1 /\ \A i \in 1 .. L : wq[i].loc # offClosed
    BY <1>1 DEF PendingClosed, L
  <2>2. mem[offTail] = wtail \/ \E j \in 1 .. L : wq'[j] = Store(offTail, wtail)
    BY <1>4 DEF PendingClosed, L
  <2>3. ASSUME NEW i \in 1 .. Len(wq'), wq'[i].loc = offClosed
        PROVE  i = L + 1
    BY <1>4, <1>5, <1>6, <2>1, <2>3, Locations
  <2>4. 1 .. L = 1 .. (L + 1) - 1 /\ L + 2 \in 1 .. Len(wq')
    BY <1>1, <1>4
  <2>5. ASSUME NEW i \in 1 .. Len(wq'), wq'[i].loc = offClosed
        PROVE  /\ wclosed' /\ wq'[i].val = 1
               /\ \/ mem'[offTail] = wtail'
                  \/ \E j \in 1 .. i - 1 : wq'[j] = Store(offTail, wtail')
    <3>1. i = L + 1
      BY <2>3, <2>5
    <3> QED
      BY <1>2, <1>5, <2>2, <2>4, <3>1
  <2>6. \E j \in 1 .. Len(wq') : wq'[j] = Store(offTail, wtail')
    BY <1>2, <1>4, <2>4
  <2>7. mem'[offClosed] # 1
    BY <1>2, <2>1
  <2> QED
    BY <2>5, <2>6, <2>7 DEF PendingClosed
<1> QED
  BY <1>7, <1>8, <1>9, <1>10, <1>11, <1>12

\* TryRead takes its n from the tail it has seen.
LEMMA TryReadInv ==
    ASSUME OrderInv, NEW len \in Nat \ {0}, TryRead(len)
    PROVE  OrderInv'
<1> USE DEF OrderInv
<1>1. /\ rhead \in Nat /\ cachedTail \in Nat /\ mem[offTail] \in Nat /\ rn = 0
      /\ rbuf \in Seq(Int) /\ len \in Nat
  BY DEF OrderTypeOK, TryRead
<1>2. /\ mem' = mem /\ kind' = kind /\ wq' = wq /\ rq' = rq /\ wtail' = wtail
      /\ cachedHead' = cachedHead /\ rhead' = rhead /\ wclosed' = wclosed
      /\ rbuf' = rbuf
  BY DEF TryRead
<1>3. rhead <= cachedTail /\ cachedTail <= mem[offTail] /\ Len(rbuf) <= 0
  BY <1>1 DEF Positions
<1>4. /\ cachedTail' \in Nat /\ cachedTail <= cachedTail'
      /\ cachedTail' <= mem[offTail] /\ rn' \in Nat
      /\ rhead + rn' <= cachedTail'
  <2> DEFINE seen == IF cachedTail - rhead < len THEN mem[offTail] ELSE cachedTail
  <2>1. seen \in Nat /\ cachedTail <= seen /\ seen <= mem[offTail]
    BY <1>1, <1>3
  <2>2. cachedTail' = seen /\ rn' = IF len > seen - rhead THEN seen - rhead ELSE len
    BY DEF TryRead
  <2> HIDE DEF seen
  <2> QED
    BY <1>1, <1>3, <2>1, <2>2
<1>5. OrderTypeOK'
  BY <1>2, <1>4 DEF OrderTypeOK
<1>6. Positions'
  <2>1. Len(rbuf') <= rn'
    BY <1>1, <1>2, <1>3, <1>4
  <2> QED
    BY <1>2, <1>4, <2>1 DEF Positions
<1>7. PendingData' /\ PendingTails' /\ PendingHeads'
  BY <1>2 DEF PendingData, PendingTails, PendingHeads
<1>8. Placed' /\ PendingClosed' /\ OrderedFifo'
  BY <1>2 DEF Placed, PendingClosed, OrderedFifo
<1> QED
  BY <1>5, <1>6, <1>7, <1>8

\* The copy reads published bytes only.
LEMMA TryReadCopyInv ==
    ASSUME OrderInv, TryReadCopy
    PROVE  OrderInv'
<1> USE DEF OrderInv
<1> DEFINE l == Len(rbuf)
           k == rhead + l
<1>1. /\ rhead \in Nat /\ rn \in Nat /\ cachedTail \in Nat /\ mem[offTail] \in Nat
      /\ mem[offHead] \in Nat /\ rbuf \in Seq(Int) /\ l \in Nat /\ l < rn
  BY DEF OrderTypeOK, TryReadCopy
<1>2. /\ mem' = mem /\ kind' = kind /\ wq' = wq /\ rq' = rq /\ wtail' = wtail
      /\ cachedHead' = cachedHead /\ rhead' = rhead /\ wclosed' = wclosed
      /\ cachedTail' = cachedTail /\ rn' = rn
      /\ rbuf' = Append(rbuf, mem[k % Cap])
  BY DEF TryReadCopy
<1>3. k \in mem[offHead] .. mem[offTail] - 1
  BY <1>1 DEF Positions
<1>4. mem[k % Cap] = k
  BY <1>3, Published
<1>5. rbuf' \in Seq(Int) /\ Len(rbuf') = l + 1
  BY <1>1, <1>2, <1>4
<1>6. OrderTypeOK'
  BY <1>2, <1>5 DEF OrderTypeOK
<1>7. Positions'
  BY <1>1, <1>2, <1>5 DEF Positions
<1>8. OrderedFifo'
  <2> SUFFICES ASSUME NEW i \in 1 .. l + 1 PROVE rbuf'[i] = rhead + i - 1
    BY <1>2, <1>5 DEF OrderedFifo
  <2>1. CASE i = l + 1
    BY <1>1, <1>2, <1>4, <2>1
  <2>2. CASE i # l + 1
    <3>1. i \in 1 .. l /\ rbuf'[i] = rbuf[i]
      BY <1>1, <1>2, <2>2
    <3> QED
      BY <3>1 DEF OrderedFifo
  <2> QED
    BY <2>1, <2>2
<1>9. PendingData' /\ PendingTails' /\ PendingHeads' /\ Placed' /\ PendingClosed'
  BY <1>2 DEF PendingData, PendingTails, PendingHeads, Placed, PendingClosed
<1> QED
  BY <1>6, <1>7, <1>8, <1>9

\* The head store goes to the end of the Reader's queue.
LEMMA TryReadStoreHeadInv ==
    ASSUME OrderInv, TryReadStoreHead
    PROVE  OrderInv'
<1> USE DEF OrderInv
<1> DEFINE L == Len(rq)
           e == Store(offHead, rhead + rn)
<1>1. /\ rhead \in Nat /\ rn \in Nat /\ rn > 0 /\ rq \in Seq(ReaderStores)
      /\ L \in Nat /\ mem[offHead] \in Nat /\ cachedTail \in Nat
  BY DEF OrderTypeOK, TryReadStoreHead
<1>2. /\ mem' = mem /\ kind' = kind /\ wq' = wq /\ wtail' = wtail
      /\ cachedHead' = cachedHead /\ wclosed' = wclosed
      /\ cachedTail' = cachedTail /\ rn' = 0 /\ rbuf' = <<>>
      /\ rhead' = rhead + rn /\ rq' = Append(rq, e)
  BY DEF TryReadStoreHead
<1>3. e \in ReaderStores /\ e.val = rhead + rn
  BY <1>1 DEF Store, ReaderStores
<1> HIDE DEF e, L
<1>4. /\ rq' \in Seq(ReaderStores) /\ Len(rq') = L + 1 /\ rq'[L + 1] = e
      /\ \A j \in 1 .. L : rq'[j] = rq[j]
  BY <1>1, <1>2, <1>3 DEF L
<1>5. \A j \in 1 .. L : rq[j].val \in Nat
  <2>1. \A j \in 1 .. L : rq[j] \in ReaderStores
    BY <1>1 DEF L
  <2> QED
    BY <2>1 DEF ReaderStores
<1>6. OrderTypeOK'
  <2>1. rhead' \in Nat /\ rn' \in Nat /\ rbuf' \in Seq(Int)
    BY <1>1, <1>2
  <2> QED
    BY <1>2, <1>4, <2>1 DEF OrderTypeOK
<1>7. Positions'
  <2>1. mem[offHead] <= rhead + rn /\ rhead + rn + 0 <= cachedTail /\ Len(rbuf') <= 0
    BY <1>1, <1>2 DEF Positions
  <2> QED
    BY <1>1, <1>2, <2>1 DEF Positions
<1>8. PendingHeads'
  <2>1. \A j \in 1 .. L : mem[offHead] <= rq[j].val /\ rq[j].val <= rhead
    BY DEF PendingHeads, L
  <2>2. mem[offHead] <= rhead
    BY DEF Positions
  <2>3. ASSUME NEW j \in 1 .. L + 1
        PROVE  mem[offHead] <= rq'[j].val /\ rq'[j].val <= rhead + rn
    BY <1>1, <1>3, <1>4, <1>5, <2>1, <2>2
  <2>4. ASSUME NEW j \in 1 .. L + 1, NEW i \in 1 .. j - 1
        PROVE  rq'[i].val <= rq'[j].val
    <3>1. i \in 1 .. L /\ rq'[i] = rq[i]
      BY <1>1, <1>4
    <3>2. CASE j = L + 1
      BY <1>1, <1>3, <1>4, <1>5, <2>1, <3>1, <3>2
    <3>3. CASE j \in 1 .. L
      BY <1>4, <3>1, <3>3 DEF PendingHeads, L
    <3> QED
      BY <1>1, <3>2, <3>3
  <2> QED
    BY <1>2, <1>4, <2>3, <2>4 DEF PendingHeads
<1>9. PendingData' /\ PendingTails' /\ Placed' /\ PendingClosed'
  BY <1>2 DEF PendingData, PendingTails, Placed, PendingClosed
<1>10. OrderedFifo'
  BY <1>2 DEF OrderedFifo
<1> QED
  BY <1>6, <1>7, <1>8, <1>9, <1>10

-----------------------------------------------------------------------------
(* A pending store becomes visible.                                        *)

\* With every order but "weak" a counter's store is the oldest one when it
\* becomes visible.
LEMMA CountersInOrder ==
    ASSUME "weak" \notin Kinds, OrderTypeOK, NEW S, NEW q \in Seq(S),
           NEW i \in 1 .. Len(q), MayDrain(i, q), q[i].loc \in Words
    PROVE  i = 1
<1>1. kind \in {"tso", "locked", "atomics"}
  BY StoreOrderAssumption DEF OrderTypeOK
<1>2. Ordered(i, q)
  BY <1>1 DEF Ordered
<1>3. i # 1 => 1 \in 1 .. i - 1
  OBVIOUS
<1> QED
  BY <1>2, <1>3 DEF MayDrain

\* Where the j-th store stood before the i-th one left, and where the m-th
\* one stands after.
Old(i, j) == IF j < i THEN j ELSE j + 1
New(i, m) == IF m < i THEN m ELSE m - 1

\* The Writer's queue after a store has left it: each store that stays, with
\* its old and its new place.
LEMMA DrainedQueue ==
    ASSUME wq \in Seq(WriterStores), NEW i \in 1 .. Len(wq), wq' = Without(wq, i)
    PROVE  /\ wq' \in Seq(WriterStores) /\ Len(wq') = Len(wq) - 1
           /\ \A j \in 1 .. Len(wq') :
                /\ Old(i, j) \in 1 .. Len(wq) /\ Old(i, j) # i
                /\ wq'[j] = wq[Old(i, j)]
           /\ \A m \in 1 .. Len(wq) : m # i =>
                New(i, m) \in 1 .. Len(wq') /\ wq'[New(i, m)] = wq[m]
<1>1. /\ wq' \in Seq(WriterStores) /\ Len(wq') = Len(wq) - 1
      /\ \A j \in 1 .. Len(wq) - 1 : wq'[j] = IF j < i THEN wq[j] ELSE wq[j + 1]
  BY WithoutFacts
<1>2. Len(wq) \in Nat
  OBVIOUS
<1>3. ASSUME NEW j \in 1 .. Len(wq')
      PROVE  /\ Old(i, j) \in 1 .. Len(wq) /\ Old(i, j) # i
             /\ wq'[j] = wq[Old(i, j)]
  BY <1>1, <1>2 DEF Old
<1>4. ASSUME NEW m \in 1 .. Len(wq), m # i
      PROVE  New(i, m) \in 1 .. Len(wq') /\ wq'[New(i, m)] = wq[m]
  <2>1. CASE m < i
    BY <1>1, <1>2, <2>1 DEF New
  <2>2. CASE m > i
    <3>1. m - 1 \in 1 .. Len(wq) - 1 /\ ~(m - 1 < i) /\ (m - 1) + 1 = m
      BY <1>2, <2>2
    <3>2. New(i, m) = m - 1
      BY <2>2 DEF New
    <3> QED
      BY <1>1, <3>1, <3>2
  <2> QED
    BY <1>4, <2>1, <2>2
<1> QED
  BY <1>1, <1>3, <1>4

\* A data byte becomes visible, possibly before older stores.
LEMMA DrainDataInv ==
    ASSUME OrderInv, NEW i \in 1 .. Len(wq), wq[i].loc \in Slots,
           mem' = [mem EXCEPT ![wq[i].loc] = wq[i].val], wq' = Without(wq, i),
           UNCHANGED <<kind, rq, wtail, cachedHead, wclosed, rhead, cachedTail,
                       rn, rbuf>>
    PROVE  OrderInv'
<1> USE DEF OrderInv
<1> DEFINE v == wq[i].val
<1>1. /\ wq \in Seq(WriterStores) /\ v \in Nat /\ wtail \in Nat /\ Len(wq) \in Nat
      /\ mem[offHead] \in Nat /\ mem[offTail] \in Nat /\ mem[offClosed] \in {0, 1}
      /\ mem \in [Slots \cup Words -> Int]
  BY StoreType DEF OrderTypeOK
<1>2. /\ wq[i].loc = v % Cap /\ v % Cap \in Slots /\ mem[offTail] <= v /\ v < wtail
  BY DEF PendingData
<1>3. /\ mem[offHead] <= v /\ wtail <= mem[offHead] + Cap /\ Cap \in Nat \ {0}
  <2>1. /\ cachedHead \in Nat /\ rhead \in Nat /\ cachedTail \in Nat /\ rn \in Nat
    BY DEF OrderTypeOK
  <2> QED
    BY <1>1, <1>2, <2>1, StoreOrderAssumption DEF Positions
<1>4. /\ wq' \in Seq(WriterStores) /\ Len(wq') = Len(wq) - 1
      /\ \A j \in 1 .. Len(wq') :
            /\ Old(i, j) \in 1 .. Len(wq) /\ Old(i, j) # i
            /\ wq'[j] = wq[Old(i, j)]
      /\ \A m \in 1 .. Len(wq) : m # i =>
            New(i, m) \in 1 .. Len(wq') /\ wq'[New(i, m)] = wq[m]
  BY <1>1, DrainedQueue
<1> HIDE DEF v
<1>5. /\ mem' \in [Slots \cup Words -> Int] /\ mem'[v % Cap] = v
      /\ mem'[offHead] = mem[offHead] /\ mem'[offTail] = mem[offTail]
      /\ mem'[offClosed] = mem[offClosed]
      /\ \A s \in Slots : s # v % Cap => mem'[s] = mem[s]
  <2>1. mem' = [mem EXCEPT ![v % Cap] = v]
    BY <1>2 DEF v
  <2> QED
    BY <1>1, <1>2, <2>1, Locations
<1>6. OrderTypeOK'
  BY <1>1, <1>4, <1>5 DEF OrderTypeOK
<1>7. Positions' /\ PendingHeads' /\ OrderedFifo'
  BY <1>5 DEF Positions, PendingHeads, OrderedFifo
<1>8. PendingData'
  <2> SUFFICES ASSUME NEW j \in 1 .. Len(wq'), wq'[j].loc \in Slots
               PROVE  /\ wq'[j].loc = wq'[j].val % Cap
                      /\ mem[offTail] <= wq'[j].val /\ wq'[j].val < wtail
    BY <1>5 DEF PendingData
  <2>1. wq'[j] = wq[Old(i, j)] /\ Old(i, j) \in 1 .. Len(wq)
    BY <1>4
  <2> QED
    BY <2>1 DEF PendingData
<1>9. PendingTails'
  <2>1. ASSUME NEW j \in 1 .. Len(wq'), wq'[j].loc = offTail
        PROVE  mem[offTail] <= wq'[j].val /\ wq'[j].val <= wtail
    BY <1>4, <2>1 DEF PendingTails
  <2>2. ASSUME NEW j \in 1 .. Len(wq'), NEW m \in 1 .. j - 1,
               wq'[m].loc = offTail, wq'[j].loc # offClosed
        PROVE  wq'[m].val <= wq'[j].val
    <3>1. m \in 1 .. Len(wq')
      BY <1>1, <1>4
    <3>2. Old(i, m) \in 1 .. Old(i, j) - 1
      BY <1>1, <1>4, <3>1 DEF Old
    <3>3. wq'[m] = wq[Old(i, m)] /\ wq'[j] = wq[Old(i, j)] /\ Old(i, j) \in 1 .. Len(wq)
      BY <1>4, <3>1
    <3> QED
      BY <2>2, <3>2, <3>3 DEF PendingTails
  <2> QED
    BY <1>5, <2>1, <2>2 DEF PendingTails
<1>10. Placed'
  <2> SUFFICES ASSUME NEW k \in mem[offHead] .. wtail - 1
               PROVE  \/ mem'[k % Cap] = k
                      \/ \E m \in 1 .. Len(wq') : wq'[m] = Store(k % Cap, k)
    BY <1>5 DEF Placed
  <2>1. CASE k = v
    BY <1>5, <2>1
  <2>2. CASE k # v
    <3>1. k \in Int /\ k % Cap \in Slots /\ v \in Int
      BY <1>1, SlotOf
    <3>2. k % Cap # v % Cap
      <4>1. CASE k < v
        <5>1. v - k < Cap
          BY <1>1, <1>2, <1>3
        <5> QED
          BY <1>3, <3>1, <4>1, <5>1, ModDistinct
      <4>2. CASE v < k
        <5>1. k - v < Cap
          BY <1>1, <1>2, <1>3
        <5> QED
          BY <1>3, <3>1, <4>2, <5>1, ModDistinct
      <4> QED
        BY <2>2, <3>1, <4>1, <4>2
    <3>3. mem'[k % Cap] = mem[k % Cap]
      BY <1>5, <3>1, <3>2
    <3>4. ASSUME NEW m \in 1 .. Len(wq), wq[m] = Store(k % Cap, k)
          PROVE  \E j \in 1 .. Len(wq') : wq'[j] = Store(k % Cap, k)
      <4>1. wq[m].val = k
        BY <3>4 DEF Store
      <4>2. m # i
        BY <2>2, <4>1 DEF v
      <4> QED
        BY <1>4, <3>4, <4>2
    <3> QED
      BY <3>3, <3>4 DEF Placed
  <2> QED
    BY <2>1, <2>2
<1>11. PendingClosed'
  <2>1. ASSUME NEW m \in 1 .. Len(wq), wq[m] = Store(offTail, wtail)
        PROVE  m # i
    <3>1. wq[m].loc = offTail
      BY <2>1 DEF Store
    <3> QED
      BY <3>1, Locations
  <2>2. ASSUME NEW j \in 1 .. Len(wq'), wq'[j].loc = offClosed
        PROVE  /\ wclosed /\ wq'[j].val = 1
               /\ \/ mem[offTail] = wtail
                  \/ \E m \in 1 .. j - 1 : wq'[m] = Store(offTail, wtail)
    <3>1. wq'[j] = wq[Old(i, j)] /\ Old(i, j) \in 1 .. Len(wq) /\ Old(i, j) # i
      BY <1>4
    <3>2. /\ wclosed /\ wq'[j].val = 1
          /\ \/ mem[offTail] = wtail
             \/ \E m \in 1 .. Old(i, j) - 1 : wq[m] = Store(offTail, wtail)
      BY <2>2, <3>1 DEF PendingClosed
    <3>3. ASSUME NEW m \in 1 .. Old(i, j) - 1, wq[m] = Store(offTail, wtail)
          PROVE  \E n \in 1 .. j - 1 : wq'[n] = Store(offTail, wtail)
      <4>1. m \in 1 .. Len(wq) /\ m # i
        BY <1>1, <2>1, <3>1, <3>3
      <4>2. New(i, m) \in 1 .. j - 1
        BY <1>1, <1>4, <4>1 DEF New, Old
      <4> QED
        BY <1>4, <3>3, <4>1, <4>2
    <3> QED
      BY <3>2, <3>3
  <2>3. \/ mem[offTail] = wtail
        \/ \E j \in 1 .. Len(wq') : wq'[j] = Store(offTail, wtail)
    BY <1>4, <2>1 DEF PendingClosed
  <2>4. mem[offClosed] = 1 => wclosed /\ mem[offTail] = wtail
    BY DEF PendingClosed
  <2> QED
    BY <1>5, <2>2, <2>3, <2>4 DEF PendingClosed
<1> QED
  BY <1>6, <1>7, <1>8, <1>9, <1>10, <1>11

\* The oldest store is a tail: every byte it publishes is already there.
LEMMA DrainTailInv ==
    ASSUME OrderInv, 1 \in 1 .. Len(wq), wq[1].loc = offTail,
           mem' = [mem EXCEPT ![offTail] = wq[1].val], wq' = Without(wq, 1),
           UNCHANGED <<kind, rq, wtail, cachedHead, wclosed, rhead, cachedTail,
                       rn, rbuf>>
    PROVE  OrderInv'
<1> USE DEF OrderInv
<1> DEFINE v == wq[1].val
<1>1. /\ wq \in Seq(WriterStores) /\ v \in Nat /\ wtail \in Nat /\ Len(wq) \in Nat
      /\ mem[offHead] \in Nat /\ mem[offTail] \in Nat /\ mem[offClosed] \in {0, 1}
      /\ mem \in [Slots \cup Words -> Int] /\ cachedTail \in Nat
  BY StoreType DEF OrderTypeOK
<1>2. mem[offTail] <= v /\ v <= wtail
  BY DEF PendingTails
<1>3. /\ wq' \in Seq(WriterStores) /\ Len(wq') = Len(wq) - 1
      /\ \A j \in 1 .. Len(wq') : j + 1 \in 1 .. Len(wq) /\ wq'[j] = wq[j + 1]
  <2>1. /\ wq' \in Seq(WriterStores) /\ Len(wq') = Len(wq) - 1
        /\ \A j \in 1 .. Len(wq') :
              Old(1, j) \in 1 .. Len(wq) /\ wq'[j] = wq[Old(1, j)]
    BY <1>1, DrainedQueue
  <2>2. \A j \in 1 .. Len(wq') : Old(1, j) = j + 1
    BY DEF Old
  <2> QED
    BY <2>1, <2>2
<1>4. \A m \in 2 .. Len(wq) : m - 1 \in 1 .. Len(wq') /\ wq'[m - 1] = wq[m]
  <2>1. \A m \in 2 .. Len(wq) : m - 1 \in 1 .. Len(wq') /\ (m - 1) + 1 = m
    BY <1>1, <1>3
  <2> QED
    BY <1>3, <2>1
<1> HIDE DEF v
<1>5. /\ mem' \in [Slots \cup Words -> Int] /\ mem'[offTail] = v
      /\ mem'[offHead] = mem[offHead] /\ mem'[offClosed] = mem[offClosed]
      /\ \A s \in Slots : mem'[s] = mem[s]
  <2>1. mem' = [mem EXCEPT ![offTail] = v]
    BY DEF v
  <2> QED
    BY <1>1, <2>1, Locations
<1>6. OrderTypeOK'
  BY <1>1, <1>3, <1>5 DEF OrderTypeOK
<1>7. Positions'
  BY <1>1, <1>2, <1>5 DEF Positions
<1>8. PendingHeads' /\ OrderedFifo'
  BY <1>5 DEF PendingHeads, OrderedFifo
<1>9. \A m \in 2 .. Len(wq) : wq[m].loc # offClosed => v <= wq[m].val
  <2>1. \A m \in 2 .. Len(wq) : m \in 1 .. Len(wq) /\ 1 \in 1 .. m - 1
    BY <1>1
  <2> QED
    BY <2>1 DEF PendingTails, v
<1>10. \A j \in 1 .. Len(wq') : wq'[j].loc # offClosed => v <= wq'[j].val
  <2>1. \A j \in 1 .. Len(wq') : j + 1 \in 2 .. Len(wq) /\ wq'[j] = wq[j + 1]
    BY <1>1, <1>3
  <2> QED
    BY <1>9, <2>1
<1>11. PendingData'
  <2> SUFFICES ASSUME NEW j \in 1 .. Len(wq'), wq'[j].loc \in Slots
               PROVE  /\ wq'[j].loc = wq'[j].val % Cap
                      /\ v <= wq'[j].val /\ wq'[j].val < wtail
    BY <1>5 DEF PendingData
  <2>1. wq'[j].loc # offClosed
    BY Locations
  <2> QED
    BY <1>3, <1>10, <2>1 DEF PendingData
<1>12. PendingTails'
  <2>1. ASSUME NEW j \in 1 .. Len(wq'), wq'[j].loc = offTail
        PROVE  v <= wq'[j].val /\ wq'[j].val <= wtail
    BY <1>3, <1>10, <2>1, Locations DEF PendingTails
  <2>2. ASSUME NEW j \in 1 .. Len(wq'), NEW m \in 1 .. j - 1,
               wq'[m].loc = offTail, wq'[j].loc # offClosed
        PROVE  wq'[m].val <= wq'[j].val
    <3>1. m \in 1 .. Len(wq') /\ m + 1 \in 1 .. (j + 1) - 1
      BY <1>1, <1>3
    <3>2. wq'[m] = wq[m + 1] /\ wq'[j] = wq[j + 1] /\ j + 1 \in 1 .. Len(wq)
      BY <1>3, <3>1
    <3> QED
      BY <2>2, <3>1, <3>2 DEF PendingTails
  <2> QED
    BY <1>5, <2>1, <2>2 DEF PendingTails
<1>13. Placed'
  <2> SUFFICES ASSUME NEW k \in mem[offHead] .. wtail - 1
               PROVE  \/ mem'[k % Cap] = k
                      \/ \E m \in 1 .. Len(wq') : wq'[m] = Store(k % Cap, k)
    BY <1>5 DEF Placed
  <2>1. k % Cap \in Slots
    BY <1>1, SlotOf
  <2>2. ASSUME NEW m \in 1 .. Len(wq), wq[m] = Store(k % Cap, k)
        PROVE  \E j \in 1 .. Len(wq') : wq'[j] = Store(k % Cap, k)
    <3>1. wq[m].loc = k % Cap
      BY <2>2 DEF Store
    <3>2. m # 1
      BY <2>1, <3>1, Locations
    <3>3. m \in 2 .. Len(wq)
      BY <1>1, <3>2
    <3> QED
      BY <1>4, <2>2, <3>3
  <2> QED
    BY <1>5, <2>1, <2>2 DEF Placed
<1>14. PendingClosed'
  <2>1. mem[offTail] = wtail => v = wtail
    BY <1>1, <1>2
  <2>2. ASSUME NEW m \in 1 .. Len(wq), wq[m] = Store(offTail, wtail)
        PROVE  v = wtail \/ m \in 2 .. Len(wq)
    <3>1. wq[m].val = wtail
      BY <2>2 DEF Store
    <3> QED
      BY <1>1, <3>1 DEF v
  <2>3. ASSUME NEW j \in 1 .. Len(wq'), wq'[j].loc = offClosed
        PROVE  /\ wclosed /\ wq'[j].val = 1
               /\ \/ v = wtail
                  \/ \E m \in 1 .. j - 1 : wq'[m] = Store(offTail, wtail)
    <3>1. wq'[j] = wq[j + 1] /\ j + 1 \in 1 .. Len(wq)
      BY <1>3
    <3>2. /\ wclosed /\ wq'[j].val = 1
          /\ \/ mem[offTail] = wtail
             \/ \E m \in 1 .. (j + 1) - 1 : wq[m] = Store(offTail, wtail)
      BY <2>3, <3>1 DEF PendingClosed
    <3>3. ASSUME NEW m \in 1 .. (j + 1) - 1, wq[m] = Store(offTail, wtail)
          PROVE  v = wtail \/ \E n \in 1 .. j - 1 : wq'[n] = Store(offTail, wtail)
      <4>1. m \in 1 .. Len(wq)
        BY <1>1, <3>1
      <4>2. CASE m \in 2 .. Len(wq)
        <5>1. m - 1 \in 1 .. j - 1
          BY <4>2
        <5> QED
          BY <1>4, <3>3, <4>2, <5>1
      <4> QED
        BY <2>2, <3>3, <4>1, <4>2
    <3> QED
      BY <2>1, <3>2, <3>3
  <2>4. \/ v = wtail
        \/ \E j \in 1 .. Len(wq') : wq'[j] = Store(offTail, wtail)
    BY <1>4, <2>1, <2>2 DEF PendingClosed
  <2>5. mem[offClosed] = 1 => wclosed /\ v = wtail
    BY <2>1 DEF PendingClosed
  <2> QED
    BY <1>5, <2>3, <2>4, <2>5 DEF PendingClosed
<1> QED
  BY <1>6, <1>7, <1>8, <1>11, <1>12, <1>13, <1>14

\* The oldest store is the closed word: the last tail is already there.
LEMMA DrainClosedInv ==
    ASSUME OrderInv, 1 \in 1 .. Len(wq), wq[1].loc = offClosed,
           mem' = [mem EXCEPT ![offClosed] = wq[1].val], wq' = Without(wq, 1),
           UNCHANGED <<kind, rq, wtail, cachedHead, wclosed, rhead, cachedTail,
                       rn, rbuf>>
    PROVE  OrderInv'
<1> USE DEF OrderInv
<1>1. /\ wq \in Seq(WriterStores) /\ wtail \in Nat /\ Len(wq) \in Nat
      /\ mem[offHead] \in Nat /\ mem[offTail] \in Nat
      /\ mem \in [Slots \cup Words -> Int]
  BY DEF OrderTypeOK
<1>2. wclosed /\ wq[1].val = 1 /\ mem[offTail] = wtail
  BY DEF PendingClosed
<1>3. /\ wq' \in Seq(WriterStores) /\ Len(wq') = Len(wq) - 1
      /\ \A j \in 1 .. Len(wq') : j + 1 \in 1 .. Len(wq) /\ wq'[j] = wq[j + 1]
  <2>1. /\ wq' \in Seq(WriterStores) /\ Len(wq') = Len(wq) - 1
        /\ \A j \in 1 .. Len(wq') :
              Old(1, j) \in 1 .. Len(wq) /\ wq'[j] = wq[Old(1, j)]
    BY <1>1, DrainedQueue
  <2>2. \A j \in 1 .. Len(wq') : Old(1, j) = j + 1
    BY DEF Old
  <2> QED
    BY <2>1, <2>2
<1>4. \A m \in 2 .. Len(wq) : m - 1 \in 1 .. Len(wq') /\ wq'[m - 1] = wq[m]
  <2>1. \A m \in 2 .. Len(wq) : m - 1 \in 1 .. Len(wq') /\ (m - 1) + 1 = m
    BY <1>1, <1>3
  <2> QED
    BY <1>3, <2>1
<1>5. /\ mem' \in [Slots \cup Words -> Int] /\ mem'[offClosed] = 1
      /\ mem'[offHead] = mem[offHead] /\ mem'[offTail] = mem[offTail]
      /\ \A s \in Slots : mem'[s] = mem[s]
  BY <1>1, <1>2, Locations
<1>6. OrderTypeOK'
  BY <1>1, <1>3, <1>5 DEF OrderTypeOK
<1>7. Positions' /\ PendingHeads' /\ OrderedFifo'
  BY <1>5 DEF Positions, PendingHeads, OrderedFifo
<1>8. PendingData'
  <2> SUFFICES ASSUME NEW j \in 1 .. Len(wq'), wq'[j].loc \in Slots
               PROVE  /\ wq'[j].loc = wq'[j].val % Cap
                      /\ mem[offTail] <= wq'[j].val /\ wq'[j].val < wtail
    BY <1>5 DEF PendingData
  <2> QED
    BY <1>3 DEF PendingData
<1>9. PendingTails'
  <2>1. ASSUME NEW j \in 1 .. Len(wq'), wq'[j].loc = offTail
        PROVE  mem[offTail] <= wq'[j].val /\ wq'[j].val <= wtail
    BY <1>3, <2>1 DEF PendingTails
  <2>2. ASSUME NEW j \in 1 .. Len(wq'), NEW m \in 1 .. j - 1,
               wq'[m].loc = offTail, wq'[j].loc # offClosed
        PROVE  wq'[m].val <= wq'[j].val
    <3>1. m \in 1 .. Len(wq') /\ m + 1 \in 1 .. (j + 1) - 1
      BY <1>1, <1>3
    <3>2. wq'[m] = wq[m + 1] /\ wq'[j] = wq[j + 1] /\ j + 1 \in 1 .. Len(wq)
      BY <1>3, <3>1
    <3> QED
      BY <2>2, <3>1, <3>2 DEF PendingTails
  <2> QED
    BY <1>5, <2>1, <2>2 DEF PendingTails
<1>10. Placed'
  <2> SUFFICES ASSUME NEW k \in mem[offHead] .. wtail - 1
               PROVE  \/ mem'[k % Cap] = k
                      \/ \E m \in 1 .. Len(wq') : wq'[m] = Store(k % Cap, k)
    BY <1>5 DEF Placed
  <2>1. k % Cap \in Slots
    BY <1>1, SlotOf
  <2>2. ASSUME NEW m \in 1 .. Len(wq), wq[m] = Store(k % Cap, k)
        PROVE  \E j \in 1 .. Len(wq') : wq'[j] = Store(k % Cap, k)
    <3>1. wq[m].loc = k % Cap
      BY <2>2 DEF Store
    <3>2. m # 1
      BY <2>1, <3>1, Locations
    <3>3. m \in 2 .. Len(wq)
      BY <1>1, <3>2
    <3> QED
      BY <1>4, <2>2, <3>3
  <2> QED
    BY <1>5, <2>1, <2>2 DEF Placed
<1>11. PendingClosed'
  <2>1. ASSUME NEW j \in 1 .. Len(wq'), wq'[j].loc = offClosed
        PROVE  wq'[j].val = 1
    BY <1>3, <2>1 DEF PendingClosed
  <2> QED
    BY <1>2, <1>5, <2>1 DEF PendingClosed
<1> QED
  BY <1>6, <1>7, <1>8, <1>9, <1>10, <1>11

\* A pending store of the Writer becomes visible.
LEMMA DrainWriterInv ==
    ASSUME "weak" \notin Kinds, OrderInv, DrainWriter
    PROVE  OrderInv'
<1>1. PICK i \in 1 .. Len(wq) :
         /\ MayDrain(i, wq)
         /\ mem' = [mem EXCEPT ![wq[i].loc] = wq[i].val]
         /\ wq' = Without(wq, i)
         /\ UNCHANGED <<kind, rq, wtail, cachedHead, wclosed, rhead, cachedTail,
                        rn, rbuf>>
  BY DEF DrainWriter
<1>2. wq \in Seq(WriterStores) /\ OrderTypeOK
  BY DEF OrderInv, OrderTypeOK
<1>3. wq[i].loc \in Slots \cup {offTail, offClosed}
  BY <1>2, StoreType
<1>4. wq[i].loc \in Words => i = 1
  BY <1>1, <1>2, CountersInOrder
<1>5. CASE wq[i].loc \in Slots
  BY <1>1, <1>5, DrainDataInv
<1>6. CASE wq[i].loc = offTail
  <2>1. i = 1
    BY <1>4, <1>6, Locations
  <2> QED
    BY <1>1, <1>6, <2>1, DrainTailInv
<1>7. CASE wq[i].loc = offClosed
  <2>1. i = 1
    BY <1>4, <1>7, Locations
  <2> QED
    BY <1>1, <1>7, <2>1, DrainClosedInv
<1> QED
  BY <1>3, <1>5, <1>6, <1>7

\* A pending head store becomes visible.
LEMMA DrainReaderInv ==
    ASSUME "weak" \notin Kinds, OrderInv, DrainReader
    PROVE  OrderInv'
<1> USE DEF OrderInv
<1>1. PICK i \in 1 .. Len(rq) :
         /\ MayDrain(i, rq)
         /\ mem' = [mem EXCEPT ![rq[i].loc] = rq[i].val]
         /\ rq' = Without(rq, i)
         /\ UNCHANGED <<kind, wq, wtail, cachedHead, wclosed, rhead, cachedTail,
                        rn, rbuf>>
  BY DEF DrainReader
<1>2. /\ rq \in Seq(ReaderStores) /\ OrderTypeOK /\ mem \in [Slots \cup Words -> Int]
      /\ mem[offHead] \in Nat /\ rhead \in Nat /\ Len(rq) \in Nat
      /\ cachedHead \in Nat /\ wtail \in Nat
  BY DEF OrderTypeOK
<1>3. \A j \in 1 .. Len(rq) : rq[j].loc = offHead /\ rq[j].val \in Nat
  <2>1. \A j \in 1 .. Len(rq) : rq[j] \in ReaderStores
    BY <1>2
  <2> QED
    BY <2>1 DEF ReaderStores
<1>4. i = 1
  BY <1>1, <1>2, <1>3, CountersInOrder, Locations
<1> DEFINE v == rq[1].val
<1>5. v \in Nat /\ mem[offHead] <= v /\ v <= rhead
  BY <1>3, <1>4 DEF PendingHeads
<1>6. /\ rq' \in Seq(ReaderStores) /\ Len(rq') = Len(rq) - 1
      /\ \A j \in 1 .. Len(rq') : j + 1 \in 1 .. Len(rq) /\ rq'[j] = rq[j + 1]
  <2>1. /\ rq' \in Seq(ReaderStores) /\ Len(rq') = Len(rq) - 1
        /\ \A j \in 1 .. Len(rq) - 1 : rq'[j] = IF j < i THEN rq[j] ELSE rq[j + 1]
    BY <1>1, <1>2, WithoutFacts
  <2> QED
    BY <1>2, <1>4, <2>1
<1>7. mem' = [mem EXCEPT ![offHead] = v]
  BY <1>1, <1>3, <1>4
<1> HIDE DEF v
<1>8. /\ mem' \in [Slots \cup Words -> Int] /\ mem'[offHead] = v
      /\ mem'[offTail] = mem[offTail] /\ mem'[offClosed] = mem[offClosed]
      /\ \A s \in Slots : mem'[s] = mem[s]
  BY <1>2, <1>5, <1>7, Locations
<1>9. OrderTypeOK'
  BY <1>1, <1>5, <1>6, <1>8 DEF OrderTypeOK
<1>10. Positions'
  BY <1>1, <1>2, <1>5, <1>8 DEF Positions
<1>11. PendingHeads'
  <2>1. ASSUME NEW j \in 1 .. Len(rq'), NEW m \in 1 .. j - 1
        PROVE  rq'[m].val <= rq'[j].val
    <3>1. m \in 1 .. Len(rq') /\ m + 1 \in 1 .. (j + 1) - 1
      BY <1>2, <1>6
    <3>2. rq'[m] = rq[m + 1] /\ rq'[j] = rq[j + 1] /\ j + 1 \in 1 .. Len(rq)
      BY <1>6, <3>1
    <3> QED
      BY <3>1, <3>2 DEF PendingHeads
  <2>2. ASSUME NEW j \in 1 .. Len(rq')
        PROVE  v <= rq'[j].val /\ rq'[j].val <= rhead
    <3>1. j + 1 \in 1 .. Len(rq) /\ rq'[j] = rq[j + 1] /\ 1 \in 1 .. (j + 1) - 1
      BY <1>6
    <3> QED
      BY <3>1 DEF PendingHeads, v
  <2> QED
    BY <1>1, <1>8, <2>1, <2>2 DEF PendingHeads
<1>12. PendingData' /\ PendingTails' /\ OrderedFifo'
  BY <1>1, <1>8 DEF PendingData, PendingTails, OrderedFifo
<1>13. PendingClosed'
  BY <1>1, <1>8 DEF PendingClosed
<1>14. Placed'
  <2> SUFFICES ASSUME NEW k \in v .. wtail - 1
               PROVE  \/ mem'[k % Cap] = k
                      \/ \E m \in 1 .. Len(wq) : wq[m] = Store(k % Cap, k)
    BY <1>1, <1>8 DEF Placed
  <2>1. k \in Int /\ v <= k /\ k <= wtail - 1
    BY <1>2, <1>5
  <2>2. k \in mem[offHead] .. wtail - 1
    BY <1>2, <1>5, <2>1
  <2>3. k % Cap \in Slots
    BY <2>1, SlotOf
  <2> QED
    BY <1>8, <2>2, <2>3 DEF Placed
<1> QED
  BY <1>9, <1>10, <1>11, <1>12, <1>13, <1>14

-----------------------------------------------------------------------------
\* Every step keeps OrderInv, unless the order is "weak".
LEMMA OrderNextInv ==
    ASSUME "weak" \notin Kinds
    PROVE  OrderInv /\ [OrderNext]_orderVars => OrderInv'
<1> SUFFICES ASSUME OrderInv, [OrderNext]_orderVars PROVE OrderInv'
  OBVIOUS
<1>1. CASE UNCHANGED orderVars
  BY <1>1
  DEF OrderInv, OrderTypeOK, Positions, PendingData, PendingTails, PendingHeads,
      Placed, PendingClosed, OrderedFifo, orderVars
<1>2. ASSUME NEW len \in Lens, TryWrite(len) \/ TryRead(len) PROVE OrderInv'
  <2>1. len \in Nat \ {0}
    BY StoreOrderAssumption
  <2> QED
    BY <1>2, <2>1, TryWriteInv, TryReadInv
<1> QED
  BY <1>1, <1>2, CloseInv, TryReadCopyInv, TryReadStoreHeadInv, DrainWriterInv,
     DrainReaderInv
  DEF OrderNext

\* The invariant of the pending stores.
THEOREM OrderInvariant == ASSUME "weak" \notin Kinds PROVE OrderSpec => []OrderInv
  BY OrderInitInv, OrderNextInv, PTL DEF OrderSpec

\* Over x86, MemStorage's mutex or AtomicStorage the Reader copies the bytes
\* in stream order, however long stores of either side are under way.
THEOREM OrderedFifoHolds == ASSUME "weak" \notin Kinds PROVE OrderSpec => []OrderedFifo
<1>1. OrderInv => OrderedFifo
  BY DEF OrderInv
<1> QED
  BY <1>1, OrderInvariant, PTL

\* The counters in memory never promise more than the memory holds.
THEOREM PublishedIsThereHolds ==
    ASSUME "weak" \notin Kinds PROVE OrderSpec => []PublishedIsThere
<1>1. OrderInv => PublishedIsThere
  BY Published DEF OrderInv, PendingClosed, PublishedIsThere
<1> QED
  BY <1>1, OrderInvariant, PTL

\* A store on its way cannot hit a byte the Reader still has to copy.
THEOREM PendingHitsFreeHolds ==
    ASSUME "weak" \notin Kinds PROVE OrderSpec => []PendingHitsFree
<1>1. OrderInv => PendingHitsFree
  <2> SUFFICES ASSUME OrderInv, NEW i \in 1 .. Len(wq), wq[i].loc \in Slots
               PROVE  wq[i].val - Cap < rhead
    BY DEF PendingHitsFree
  <2>1. /\ wq[i].val \in Nat /\ wtail \in Nat /\ cachedHead \in Nat
        /\ mem[offHead] \in Nat /\ rhead \in Nat /\ Cap \in Nat
    BY StoreType, StoreOrderAssumption DEF OrderInv, OrderTypeOK
  <2>2. wq[i].val < wtail
    BY DEF OrderInv, PendingData
  <2> QED
    BY <2>1, <2>2 DEF OrderInv, Positions
<1> QED
  BY <1>1, OrderInvariant, PTL
=============================================================================
