# Verification of shmring

shmring is a single-producer single-consumer byte ring in memory that two
processes (or threads, or browser workers) share. This project models it in
TLA+, checks small instances with TLC, and proves the main safety properties
for every capacity, counter width, number of processes and call sequence with
TLAPS.

## 1. Inventory

| Component | Source | State | Operations | Hard part |
|---|---|---|---|---|
| Ring core | `writer.go`, `reader.go`, `header.go` | header words head, tail, closed; data bytes; each side's own counter and its cached copy of the other's | `TryWrite`, `TryRead`, `Writer.Close` | two processes without locks; 32-bit counters that wrap; stale caches; a copy split at the end of the region; storage errors between two updates |
| Blocking calls | `writer.go`, `reader.go`, `options.go` | progress of a `Write`/`Read`, its ctx | `WriteContext`, `ReadContext`, `waitSlice` | lost wakeups, cancellation, partial progress, both sides asleep |
| Futex waiter | `backend/futex_linux.go`, `backend/shm_linux.go` | kernel wait queue of a header word | `Wait`, `Wake` | compare-and-sleep against store-then-wake |
| Segment lifecycle | `backend/shm_linux.go`, `shm_native.go`, `rust/src/backend/shm.rs` | the name in `/dev/shm`, files, mappings | `CreateShm`, `OpenShm`, `Close`, retry loops | opening a half-created segment, re-creation, process death, removal by path |
| Header checks, options | `header.go`, `options.go` | none | `validateCapacity`, `verifyHeader`, `WithPollInterval` | boundary values |
| Other Go storages | `backend/mem.go`, `backend/shm.go` | byte slice; library segment | `ReadAt`, `WriteAt` | no waiter: the calls poll; which order their stores have |
| Android, mobile | `backend/android.go`, `shm_android.go`, `mobile/mobile.go` | descriptor table, regions, mappings | create, hand over, open (dup), close | ownership and reuse of descriptor numbers, error paths |
| Rust port | `rust/src/*.rs` | as in Go | `try_write`, `write_until`, `try_read`, `read_until` | deadlines instead of contexts |
| Wasm and JavaScript | `rust/src/backend/wasm.rs`, `rust/src/wasm_api.rs`, `web/shmring.js` | pending tasks of the event loop | `write`, `read`, `close` | tasks that overlap; `Atomics.waitAsync` in slices of 200 ms |
| Build, release, examples | `magefiles`, `npm`, `examples`, `web/devserver` | none | | no protocol state |

The components meet in the storage: a `Writer` and a `Reader` never call each
other, they only load and store header words and copy data bytes, and wake each
other through the word they have just stored. `CreateShm` and `OpenShm` produce
the storage under a `Writer` and a `Reader`.

What makes each part correct:

* ring: the Reader gets exactly the Writer's bytes in order; the two plain
  copies never touch the same byte; nothing unread is overwritten; the word
  differences are the true distances; "full" and "empty" are answered only when
  true; io.EOF only after everything was read;
* blocking calls: no lost wakeup, every call that can go on returns, a done ctx
  ends the call, the returned count is what is in the ring;
* segment: nobody maps past the end of a file, nobody resets or removes a
  segment someone else is using, an opener only accepts a finished header and
  gets there if it keeps trying;
* Android storages: every storage closes its own descriptor exactly once, a
  number that is given out again leads no Reader to another ring;
* memory order: a counter becomes visible only after what it publishes;
* JavaScript API: calls that overlap on one handle share the ring without
  losing count, no notify is lost and every promise settles.

`PROJECT.json` lists the hazards behind these at their lines.

## 2. Modules

| Module | What it is |
|---|---|
| `ByteStream` | the promise: an atomic bounded first-in first-out stream |
| `RingBuffer` | the ring, one action per storage access of `TryWrite`, `Close`, `TryRead` |
| `BlockingRing` | extends `RingBuffer` with `WriteContext`, `ReadContext`, futex or polling waits, contexts |
| `ShmSegment` | creation, opening, closing and death around one name of `/dev/shm`, one action per system call |
| `AndroidMemory` | ASharedMemory regions, their descriptors and their hand-over inside one process, one action per system call |
| `StoreOrder` | the ring's stores under the memory orders of its storages |
| `WasmRing` | extends `RingBuffer` with the tasks of the JavaScript API in two event loops |
| `RingBufferProofs`, `BlockingRingProofs`, `ShmSegmentProofs`, `AndroidMemoryProofs`, `StoreOrderProofs`, `WasmRingProofs` | the theorems about the module of that name |
| `RingRefinementProofs` | the ring implements `ByteStream`, step by step |
| `ModularArithmetic` | facts about `%` that the proofs share |
| `MC...` | instances for TLC |

### RingBuffer

`head`, `tail`, `closed`, `data` are the storage; `wtail`, `cachedHead`,
`wclosed` are the fields of `Writer`; `rhead`, `cachedTail` those of `Reader`.
`wpc`/`rpc` say which storage access a call does next, and `wlen`, `wn`,
`wcopied`, `rlen`, `rn`, `rbuf` are the call's locals. A call is cut where it
touches the storage: `TryWriteCall` (closed, empty `p`, cached room),
`TryWriteLoadHead`, `TryWriteCopy` (one byte), `TryWriteStoreTail`,
`WriterWake`; `TryReadCall`, `TryReadLoadTail`, `TryReadLoadClosed`,
`TryReadCopy`, `TryReadStoreHead`, `ReaderWake`; `CloseStoreClosed`,
`CloseNudge`. `WriterStorageError` and `ReaderStorageError` are the error
returns of every one of these accesses, with what they leave behind (an
advanced local counter whose store failed; a Writer that counts as closed).

Bytes are abstracted to their index in the stream, because the code never looks
at one. Counters are words modulo `M`; `Slot` is the two-chunk copy. The six
history variables `wpos`, `ppos`, `rpos`, `hpos`, `chpos`, `ctpos` are the
positions the six counters stand for; no guard reads them, except that
`TryWriteCall` stops at the bound `MaxBytes`.

Storage accesses are sequentially consistent here and a four-byte access is not
torn. That is what `backend.go` and `doc.go` assume of coherent shared memory;
`StoreOrder` is about weaker orders.

### BlockingRing

`wcall`/`rcall` are the loops of `WriteContext`/`ReadContext`: `try`, `trying`
(inside `RingBuffer`), `wait`, `parked` (asleep in the futex), `sleep` (in the
`select` with the poll timer), `closing`. A futex wait compares the header word
with the cached value atomically with going to sleep; `Wake` after a store
releases a parked peer. Durations are abstracted to what decides the outcome:
whether a wait has a timeout (`waitSlice`: none for `context.Background()`,
otherwise more than zero). The back-off of the poll only changes durations.
`waiter` says whether this storage is a `WaiterStorage` (Linux, Android) or is
polled (in-memory, macOS, Windows).

### ShmSegment

Processes step through `open`, `Truncate`, `Stat`, `mmap`, the header, `munmap`
and `Remove`, and may be killed between any two. A file is its length in pages
and the capacity in its header. `Exclusive` is the one difference between the
Go backend (`O_CREATE`) and the Rust one (`O_CREAT | O_EXCL`). The header is
written in one step, which loses nothing `verifyHeader` can see: magic, version
and capacity match only once all of them are there, and the words it does not
compare are zero before and after on a fresh file. A file
identity is reused once neither a name nor a process refers to it, so the model
needs no bound on restarts.

### AndroidMemory

A region has no name; `HandOver` is the application that passes
`CreateResult.Fd` to a Reader of the same process, where both sides share one
descriptor table and the kernel gives every new descriptor the lowest free
number (`LowestFree`; between processes Binder installs a descriptor of its
own, so nothing is shared and nothing can go wrong in this way). `Dup` is what
`OpenAndroidSharedMemory` does with the number. The two error paths that return
without closing the descriptor (`mmap`, and `NewReader` in `shm_android.go:42`)
are `Abandon`, which records it in `lost`. `CloseUnmap` is `Close` as written,
which checks nothing; the next-state relation takes it together with
`CallerMayClose`, an assumption about the callers: as `writer.go:197` asks of
them, no storage is closed while a Reader has been given its number and has not
duplicated it yet. That window is therefore not examined: a caller who closes
too early can lead a Reader to another region, and the code cannot notice.

### StoreOrder

Stores go to a queue of their thread and reach memory later, in program order
(x86; `MemStorage`, whose mutex orders all accesses), with only the counters
ordered (`AtomicStorage`), or in any order that keeps stores to one location in
order (plain stores on arm64). When a queued store reaches memory (`MayDrain`,
`DrainWriter`, `DrainReader`) is the machine's choice, not the code's. A
`TryWrite` is one step, since it makes at most one load; a `TryRead` copies byte
by byte. Loads stay in program order. Counters do not wrap here.

### WasmRing

`write` and `read` start a task and return its promise; a task runs from poll to
poll (`WritePoll`, `WriteLoop`, `WriteReturned`) without interruption by its own
thread, so that `try_write` calls of two tasks never overlap but their loops do.
Each storage access inside a call is `RingBuffer`'s (`WasmWriterInner`), since
`writer.rs` and `reader.rs` have Go's accesses in Go's order. `Atomics.notify`
queues every task that awaits the word; `Atomics.waitAsync` compares on entry
and ends after 200 ms at the latest; where `WaitFails` it may also throw, which
rejects the promise. The other accesses to a `SharedArrayBuffer` do not fail
once the ring was found to fit in it, so `RingBuffer`'s storage errors are not
part of `WasmNext`. `read` of an empty buffer is left out: its promise never
settles (`wasm_api.rs:194`).

## 3. Runs

| Run | Instance | What it shows |
|---|---|---|
| `ring` | capacity 4, words modulo 8, lengths 0, 3, 5, 12 bytes, storage errors | the safety invariants of the ring, `RingInv`, the answers "full" and "empty", and that the ring implements `ByteStream` |
| `eof` | capacity 2 | **violated**: `EofMeansDrained` |
| `futex` | capacity 2, lengths 0, 1, 3, untimed futex waits | no lost wakeup for data or room; counts are exact; a `Write` and a `Read` with data return |
| `close_hang` | capacity 2, untimed futex waits | **violated**: `ReadReturnsAfterClose` |
| `cancel` | capacity 2, cancellable contexts, futex or polling, storage errors | `Close` and cancellation are noticed; counts are exact; no lost wakeup; `WakeInv` |
| `segment` | two producers of different size, one consumer, O_EXCL, failing calls, kills | no mapping past the end, no reset or removal under a user; `SegInv` |
| `segment_go` | one Go producer with restarts, two consumers | a consumer that polls while the segment is being created attaches |
| `create_new` | one Go producer with restarts, one consumer | **violated**: `NewSegmentIsNew` |
| `android` | two Writers of different size, two Readers, three descriptors, failing `mmap` | descriptors are owned, accounted for and lead to the right region; `AndroidInv` |
| `store_order` | capacity 4, lengths 1, 3, 5, 9 bytes; x86, mutex and atomic counters | FIFO order although stores become visible late |
| `weak_order` | the same with plain stores on a weakly ordered machine | **violated**: `OrderedFifo` |
| `wasm` | capacity 1, two writes of two bytes, one pending read at a time, `waitAsync` that may throw | writes that overlap add up, no notify is lost, every promise settles |

Bounds. The modulus is always the smallest that `CapAssumption` allows for the
capacity, hence the tightest wraparound (`2^32 / 2^31` in the code); twelve
bytes in `ring` take every counter once around and past its start. Some length
exceeds the capacity in every run, so full rings, partial writes and split
copies all occur; `ring` and `store_order` have capacity 4 because a split into
unequal chunks needs it. Three descriptors for four storages let the table
fill, numbers be reused, and both error paths run. Two bytes per write and
capacity 1 make each of the two writes of `wasm` wait in the middle and let the
other overtake it; with two pending reads the instance is too large for
liveness checking (with writes of one byte, `Lens = {1}` and `MaxBytes = 2`, it
passes too).
The runs of `RingBuffer` and `ShmSegment` check for deadlock. Those of
`BlockingRing`, `WasmRing` and `StoreOrder` do not: a caller may stop calling, a
Reader may sleep while nobody writes, and once the Writer has closed and
everything is read nothing is left to do. Nor does `android`: when the error paths have leaked every
descriptor no call can go on.

Fairness. `BSpec` has weak fairness of each side's own steps: a thread inside a
call is scheduled, timers fire and a woken futex sleeper runs. It does not force
callers to call, spurious wakeups or cancellation. `ConsumingSpec` adds a
consumer that keeps calling `Read` until io.EOF, without which no `Write` into a
full ring need return. `SegSpec` only schedules a consumer inside `OpenShm`.
`WasmSpec` schedules both threads and their timers, and has strong fairness of
each task's next poll: the JavaScript job queue is first-in first-out, so a
queued poll comes up although other tasks queue theirs again and again. Strong
fairness of `ReadStart` is a program that reads on; nothing makes it write,
close or call `tryRead`.

### What the violated runs show

* `eof`: `TryRead` loads `tail`, then `closed`. A write and `Close` that
  complete between the loads make it answer io.EOF with unread bytes in the
  ring, against "Once the buffer is empty and the Writer has been closed"
  (`reader.go:52`). A second look at `tail` after `closed` was seen would do.
* `close_hang`: a Reader with `context.Background()` saw `closed = 0`; `Close`
  then stores `closed`, stores `tail` unchanged and wakes nobody; the Reader's
  futex compare succeeds and it sleeps for good. `writer.go:189` introduces the
  nudge to prevent this. Bounded waits and polling are not affected (`cancel`),
  nor is the wasm API, whose waits end after 200 ms (`wasm`).
* `create_new`: "creates a new named shared-memory segment"
  (`shm_linux.go:36`) holds with O_EXCL (`segment`), not without: a restarted Go
  producer rewrites the header under an attached Reader. It also costs the other
  guarantees of `segment` when sizes differ: with `Exclusive = FALSE` in
  `MCSegment.cfg`, `MappedWithinFile`, `CapacityAgrees` and `WriterReachable`
  are violated, because the second creator truncates (`shm_linux.go:56`) a file
  whose length was already checked (`shm_linux.go:130`), writes its own capacity
  into it, and a creator whose check then fails removes the name of both. Only
  for processes that agree on one size does Go keep the first two
  (`SameSizeSafe`).
* `weak_order`: `doc.go:27` holds that plain aligned stores suffice "on every
  architecture Go currently targets". Between the data store (`writer.go:85`)
  and the tail store (`header.go:121`) there is no barrier; where the machine
  may swap them the Reader copies a byte that is not there yet, against "Bytes
  written by the Writer become visible to the Reader in FIFO order"
  (`doc.go:6`). The orders of `store_order` are not affected.

## 4. Proofs

`RingBufferProofs` assumes only that the capacity is positive and divides the
number of words at least twice (`CapAssumption`, what `validateCapacity`
guarantees) and that lengths are natural numbers. The properties are not
inductive by themselves: that a copy stays inside its granted slots depends on
what the cached counters once were. `RingInv` says it: every counter is its
position modulo `M`; the positions form the chain
`chpos <= hpos <= rpos <= ctpos <= ppos <= wpos <= chpos + Cap`; a call in its
copy stays inside what its own cached view grants; all bytes placed since
`hpos`, the unfinished copy included, are in their slots. The lemmas at the top
(`ModSub`, `SubTrue`, `AddTrue`, `SlotTrue`, ...) reduce word arithmetic and the
two-chunk copy to positions; one lemma per action shows that it keeps
`RingInv`; `RingInvariant` combines them. `TypeCorrect`, `FifoHolds`,
`NoDataRaceHolds`, `UnreadIntactHolds`, `DistancesTrueHolds`,
`FullMeansFullHolds` (no free slot behind a (0, nil), none left by a short
write) and `EmptyMeansEmptyHolds` follow from it, storage errors included.

`RingRefinementProofs` proves `RefinesStreamHolds`: `Spec => RefinesStream`. The
mapped queue, a stretch of storage slots, is shown to be the stretch of the
stream from `rpos` to `ppos` (`QueueTrue`, from `WordsTrue` and `BytesPlaced`);
then one lemma per abstract step (`SendStep`, `ReceiveStep`, `ReturnStep`,
`CloseStep`, `StutterStep`) and one case per action of the ring. Beyond
`RingInv` it needs `PublishInv`: the closed word is set only by a closed Writer,
a closed Writer is in no `TryWrite`, and without storage errors every placed
byte is published; otherwise a tail store after `Close` would be a `Send` that
the contract forbids. (The `ring` run has storage errors, under which
`ByteStream` tolerates a `Send` after `Close`; that there is none without them
is this theorem's result, not the run's.) The lemmas are about `AnyStep`, the ring's actions with
calls of any length, since the loops above the ring call it with remainders that
no caller passed.

`BlockingRingProofs` proves `WakeInvariant` and `NoLostWakeupHolds`. `WakeInv`
adds to `RingInv` that a side goes to sleep only on a counter value that shows
it no room (no data), and stays asleep only while the stored counter still has
that value or the other side stands before its `Wake`. Here the chain matters
once more: a counter cannot come round to the compared value, because it
advances by at most the capacity, which is less than `M` (`EqualWords`).
`WriteCountTrueHolds` needs `CountInv`, which follows a count through the loop:
before a `TryWrite` the position is goal minus remainder, after it the result is
still to be taken off, and only a storage error breaks the link.
`BlockingRefinesStream` says that the ring under these loops still implements
the stream.

`StoreOrderProofs` assumes of the memory only that its order is not `"weak"`
(`"weak" \notin Kinds`; with it the theorems are false, as `weak_order` shows).
`OrderInv` has to say where every byte is while stores are under way: each byte
from the visible head to the Writer's tail is in its slot or in the queue
(`Placed`); a queued data store is for a byte not yet visible and lies before
the tail store that publishes it (`PendingData`, `PendingTails`); queued heads
ascend and are at most the Reader's own (`PendingHeads`); the closed word comes
after the last tail (`PendingClosed`). `OrderedFifoHolds`,
`PublishedIsThereHolds` and `PendingHitsFreeHolds` follow, for every capacity
and any number of pending stores.

`WasmRingProofs` proves `WasmInv` for any number of overlapping tasks. A notify
can be lost only if a task waits on a value that it did not see as full or
empty, so `WriteInCall` and `ReadInCall` say what a return without progress
means; that needs `OneWriteRuns`, because a `Close` leaves the same (0, nil)
behind that a full ring does. `NoLostNotifyHolds` and `WasmRefinesStream`
follow. `CountsOnceHolds` says that a step moves the count of at most one write,
by what it adds to the stream. `WritesAddUpHolds` sums that up; it assumes that
there are finitely many writes (`WasmAssumption`). The sum is the recursive
`MapThenSumSet`, and the facts about it (`SumsExist`, `SumsChange`) are proved by
induction in the form of a least counterexample (`LeastNat`), which takes a set
where the library's induction theorems take an operator that the provers cannot
instantiate.

`ShmSegmentProofs` assumes nothing of the processes but that sizes are positive.
`SegTypeCorrect` (no descriptor or mapping leaks) holds for both ways to create
a segment. `SegInvariant` and what follows from it assume `Exclusive`; without
it they are false, as `create_new` shows. `SegInv` adds what the properties rest on: the name is taken
from a creator's open to the end of its `Close`, so there is at most one active
producer (`OneCreator`); its file is empty until `Truncate` and has no capacity
before the header is there (`CreatorsFile`), so a consumer that has passed
`Stat` or `verifyHeader` is never on a file whose length or header still
changes (`StatHolds`, `CapacityAgrees`). For the Go backend `SameSizeSafe` shows
how much is left without O_EXCL: if all processes ask for one size, a length or
a capacity that was checked stays as it was, however many producers take over
each other's file.

`AndroidMemoryProofs` proves `AndroidInv` for any number of storages,
descriptors and regions. `FdsOwned` and `RightRegion` need each other and four
more facts: a mapping is that of the storage's own descriptor (`MapsItsFd`); from
the hand-over on the number a Reader was given stands for the region it was
given (`ReaderOnCourse`, which uses `CallerMayClose`); until its header is
written a region is its Writer's alone (`WriterAlone`); a region has its
Writer's length, and the capacity in its header is that length or absent
(`RegionsSound`), which is why a mapping without a check of the length is never
used past the end.

Only model-checked: the liveness properties (`WriteReturns`, `ReadReturnsData`,
`ReadReturnsAfterClose`, `CancelReturns`, `ConsumerAttaches`, `WritesSettle`,
`ReadsSettle`), since fairness is outside the prover's reach. Every invariant,
every action property and the refinement that a passing run checks is also a
theorem.

The proofs rest on the assumptions the modules name (`CapAssumption`,
`ParamAssumption`, `BlockingAssumption`, `SegmentAssumption`,
`AndroidAssumption`, `StoreOrderAssumption`, `WasmAssumption`), which TLC
evaluates on every instance, and on the hypotheses written in the theorems.

## 5. Plan

Done: ring, stream, blocking calls, segment lifecycle, Android descriptors,
memory order, wasm API, their runs, and the proofs above. Left:

1. Theorems about the stream itself (what every behaviour of `ByteStream`
   delivers), so that the refinements carry over to the users of a ring.
2. The Rust blocking calls with deadlines, `io::Read` and `io::Write`, and the
   condition-variable waits of `mem.rs`, mapped to their own lines.

## 6. Not modelled

* The durations of the poll back-off, `WithPollInterval` and `wait_slice`: only
  whether a wait is bounded changes what can happen.
* `validateCapacity` as an operation: it is `CapAssumption`.
* The Rust blocking calls and the Rust in-memory backend: the loop is
  `BlockingRing`'s, with a deadline in place of a context.
* A second Reader on a used ring, and a peer that dies silently: outside the
  contract ("exactly one Writer and one Reader", `doc.go:20`), and no document
  promises anything.
* Reordered loads (`StoreOrder` delays stores only), torn four-byte accesses.
* Descriptor numbers that a caller closes between the hand-over and the dup
  (`CallerMayClose`), and a program that starts JavaScript writes for ever.
* The library behind the macOS and Windows storage, whose code is not in the
  repository; build and release scripts, the development server, and the example
  programs other than the consumer's retry loop: no protocol state.
