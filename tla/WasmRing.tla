------------------------------ MODULE WasmRing ------------------------------
(***************************************************************************)
(* The JavaScript API of shmring (rust/src/wasm_api.rs under               *)
(* web/shmring.js) over the non-blocking ring of RingBuffer, whose Rust    *)
(* port has the same storage accesses in the same order.                   *)
(*                                                                         *)
(* Writer and Reader live in two threads, each with one event loop. write  *)
(* and read start a task and return its promise at once, so a program may  *)
(* start several on one handle before it awaits the first. A task that is  *)
(* polled runs without interruption by its own thread until it awaits; the *)
(* other thread runs in parallel. With no room (no data) it awaits         *)
(* Atomics.waitAsync on the other side's counter, which ends by a notify   *)
(* or after WAIT_TIMEOUT_MS, or throws on a host that refuses it.          *)
(*                                                                         *)
(* A SharedArrayBuffer keeps its length and the ring was checked to fit in *)
(* it, so the loads, stores and copies of this storage do not fail: the    *)
(* storage errors of RingBuffer are no steps here.                         *)
(***************************************************************************)
EXTENDS RingBuffer, FiniteSetsExt

CONSTANTS
    Writes,   \* the write and tryWrite calls of the program
    Reads,    \* read and tryRead calls that may be pending at the same time
    WaitFails \* TRUE if Atomics.waitAsync may throw

\* A program makes finitely many calls; how many is left open.
ASSUME WasmAssumption == IsFiniteSet(Writes) /\ WaitFails \in BOOLEAN

VARIABLES
    wtask, \* state of each write
    size,  \* its data.len()
    left,  \* size - written
    rtask, \* state of each read
    want,  \* its len
    rgone  \* TRUE once reader.close() has taken the Reader out

wasmW    == <<wtask, size, left>>
wasmR    == <<rtask, want, rgone>>
wasmVars == <<vars, wasmW, wasmR>>

\* none: not called; ready: its next poll is in the thread's queue; run: in
\* the loop; trying: inside try_write (try_read) for that loop; once: inside
\* it for a tryWrite (tryRead); wait: awaits waitAsync; done, failed: settled.
TaskStates == {"none", "ready", "run", "trying", "once", "wait", "done", "failed"}
Running == {"run", "trying", "once"}
Settled == {"none", "done", "failed"}

WasmInit ==
    /\ Init
    /\ wtask = [t \in Writes |-> "none"]
    /\ size = [t \in Writes |-> 0] /\ left = [t \in Writes |-> 0]
    /\ rtask = [t \in Reads |-> "none"]
    /\ want = [t \in Reads |-> 0] /\ rgone = FALSE

\* The thread's event loop is free to start something.
WriterIdle == wpc = "idle" /\ \A t \in Writes : wtask[t] \notin Running
ReaderIdle == rpc = "idle" /\ \A t \in Reads : rtask[t] \notin Running

\* Bug: a store is not followed by a notify.
Notified_None(tasks) == tasks

\* Atomics.notify: every task that awaits the word is queued for a poll.
Notified(tasks) == [t \in DOMAIN tasks |-> IF tasks[t] = "wait" THEN "ready" ELSE tasks[t]]

\* Bug: the wait starts without a look at the word.
AfterNone_NoCompare(word, seen) == "wait"

\* waitAsync compares on entry; a word that has changed means another try.
AfterNone(word, seen) == IF word = seen THEN "wait" ELSE "run"

\* Bug: the wait has no timeout.
TimesOut_Never(state) == FALSE

\* WAIT_TIMEOUT_MS is over.
TimesOut(state) == state = "wait"

-----------------------------------------------------------------------------
(* Writer's thread                                                         *)

\* write(data) returns a promise; its first poll is queued.
WriteStart(t, len) ==
    /\ WriterIdle /\ wtask[t] = "none"
    /\ size' = [size EXCEPT ![t] = len]
    /\ left' = [left EXCEPT ![t] = len]
    /\ wtask' = [wtask EXCEPT ![t] = "ready"]
    /\ UNCHANGED <<vars, wasmR>>

WritePoll(t) ==
    /\ WriterIdle /\ wtask[t] = "ready"
    /\ wtask' = [wtask EXCEPT ![t] = "run"]
    /\ UNCHANGED <<vars, size, left, wasmR>>

\* The head of the loop: all of data is written, or another try_write.
WriteLoop(t) ==
    /\ wtask[t] = "run"
    /\ \/ /\ left[t] = 0
          /\ wtask' = [wtask EXCEPT ![t] = "done"]
          /\ UNCHANGED vars
       \/ /\ left[t] > 0
          /\ TryWriteCall(left[t])
          /\ wtask' = [wtask EXCEPT ![t] = "trying"]
    /\ UNCHANGED <<size, left, wasmR>>

\* tryWrite(data), between two polls.
TryWriteStart(t, len) ==
    /\ WriterIdle /\ wtask[t] = "none"
    /\ TryWriteCall(len)
    /\ size' = [size EXCEPT ![t] = len]
    /\ left' = [left EXCEPT ![t] = len]
    /\ wtask' = [wtask EXCEPT ![t] = "once"]
    /\ UNCHANGED wasmR

\* Bugs: the whole rest of data is taken for written; written stays 0.
Progress_All(t) == left[t]
Progress_None(t) == 0

\* What written grows by.
Progress(t) == wret.n

\* try_write has returned. Its error rejects the promise; no room awaits, and
\* an error of wait_async rejects the promise too.
WriteReturned(t) ==
    /\ wtask[t] \in {"trying", "once"} /\ wpc = "idle"
    /\ left' = [left EXCEPT ![t] = @ - Progress(t)]
    /\ \/ /\ wret.err # "nil"
          /\ wtask' = [wtask EXCEPT ![t] = "failed"]
       \/ /\ wret.err = "nil" /\ wtask[t] = "once"
          /\ wtask' = [wtask EXCEPT ![t] = "done"]
       \/ /\ wret.err = "nil" /\ wtask[t] = "trying" /\ wret.n > 0
          /\ wtask' = [wtask EXCEPT ![t] = "run"]
       \/ /\ wret.err = "nil" /\ wtask[t] = "trying" /\ wret.n = 0
          /\ \/ wtask' = [wtask EXCEPT ![t] = AfterNone(head, cachedHead)]
             \/ WaitFails /\ wtask' = [wtask EXCEPT ![t] = "failed"]
    /\ UNCHANGED <<vars, size, wasmR>>

WriteTimeout(t) ==
    /\ TimesOut(wtask[t])
    /\ wtask' = [wtask EXCEPT ![t] = "ready"]
    /\ UNCHANGED <<vars, size, left, wasmR>>

\* writer.close(), also while writes are pending.
WasmClose ==
    /\ WriterIdle
    /\ CloseStoreClosed
    /\ UNCHANGED <<wasmW, wasmR>>

\* The storage accesses of try_write and close, up to the notify.
WasmWriterInner ==
    /\ TryWriteLoadHead \/ TryWriteCopy \/ TryWriteStoreTail \/ CloseNudge
    /\ UNCHANGED <<wasmW, wasmR>>

WasmWriterNotify ==
    /\ WriterWake
    /\ rtask' = Notified(rtask)
    /\ UNCHANGED <<want, rgone, wasmW>>

-----------------------------------------------------------------------------
(* Reader's thread                                                         *)

\* read(into) with a non-empty buffer.
ReadStart(t, len) ==
    /\ ReaderIdle /\ rtask[t] \in Settled
    /\ want' = [want EXCEPT ![t] = len]
    /\ rtask' = [rtask EXCEPT ![t] = "ready"]
    /\ UNCHANGED <<vars, rgone, wasmW>>

ReadPoll(t) ==
    /\ ReaderIdle /\ rtask[t] = "ready"
    /\ rtask' = [rtask EXCEPT ![t] = "run"]
    /\ UNCHANGED <<vars, want, rgone, wasmW>>

\* The head of the loop: a Reader that is gone rejects the promise.
ReadLoop(t) ==
    /\ rtask[t] = "run"
    /\ \/ /\ rgone
          /\ rtask' = [rtask EXCEPT ![t] = "failed"]
          /\ UNCHANGED vars
       \/ /\ ~rgone
          /\ TryReadCall(want[t])
          /\ rtask' = [rtask EXCEPT ![t] = "trying"]
    /\ UNCHANGED <<want, rgone, wasmW>>

\* tryRead(into), between two polls.
TryReadStart(t, len) ==
    /\ ReaderIdle /\ rtask[t] \in Settled /\ ~rgone
    /\ TryReadCall(len)
    /\ want' = [want EXCEPT ![t] = len]
    /\ rtask' = [rtask EXCEPT ![t] = "once"]
    /\ UNCHANGED <<rgone, wasmW>>

\* try_read has returned: data and EOF resolve the promise, no data awaits,
\* and an error of wait_async rejects it.
ReadReturned(t) ==
    /\ rtask[t] \in {"trying", "once"} /\ rpc = "idle"
    /\ \/ /\ rret.n > 0 \/ rret.err = "EOF" \/ rtask[t] = "once"
          /\ rtask' = [rtask EXCEPT ![t] = "done"]
       \/ /\ rret.n = 0 /\ rret.err # "EOF" /\ rtask[t] = "trying"
          /\ \/ rtask' = [rtask EXCEPT ![t] = AfterNone(tail, cachedTail)]
             \/ WaitFails /\ rtask' = [rtask EXCEPT ![t] = "failed"]
    /\ UNCHANGED <<vars, want, rgone, wasmW>>

ReadTimeout(t) ==
    /\ TimesOut(rtask[t])
    /\ rtask' = [rtask EXCEPT ![t] = "ready"]
    /\ UNCHANGED <<vars, want, rgone, wasmW>>

\* reader.close(), also while reads are pending.
WasmReaderClose ==
    /\ ReaderIdle
    /\ rgone' = TRUE
    /\ UNCHANGED <<vars, rtask, want, wasmW>>

WasmReaderInner ==
    /\ TryReadLoadTail \/ TryReadLoadClosed \/ TryReadCopy \/ TryReadStoreHead
    /\ UNCHANGED <<wasmW, wasmR>>

WasmReaderNotify ==
    /\ ReaderWake
    /\ wtask' = Notified(wtask)
    /\ UNCHANGED <<size, left, wasmR>>

-----------------------------------------------------------------------------
\* What the threads do by themselves once calls are made.
WriterRuns ==
    \/ WasmWriterInner \/ WasmWriterNotify
    \/ \E t \in Writes : WriteLoop(t) \/ WriteReturned(t)
ReaderRuns ==
    \/ WasmReaderInner \/ WasmReaderNotify
    \/ \E t \in Reads : ReadLoop(t) \/ ReadReturned(t)

WasmNext ==
    \/ \E t \in Writes, len \in Lens : WriteStart(t, len) \/ TryWriteStart(t, len)
    \/ \E t \in Writes : WritePoll(t) \/ WriteTimeout(t)
    \/ WasmClose
    \/ WriterRuns
    \/ \E t \in Reads, len \in Lens \ {0} : ReadStart(t, len) \/ TryReadStart(t, len)
    \/ \E t \in Reads : ReadPoll(t) \/ ReadTimeout(t)
    \/ WasmReaderClose
    \/ ReaderRuns

WasmSafety == WasmInit /\ [][WasmNext]_wasmVars

\* Both threads run, their queues are first-in first-out (so a queued poll
\* comes up although others are queued again and again), timers fire, and
\* the program reads on; nothing makes it write, close or call tryRead.
WasmSpec ==
    /\ WasmSafety
    /\ WF_wasmVars(WriterRuns) /\ WF_wasmVars(ReaderRuns)
    /\ \A t \in Writes : SF_wasmVars(WritePoll(t)) /\ WF_wasmVars(WriteTimeout(t))
    /\ \A t \in Reads : SF_wasmVars(ReadPoll(t)) /\ WF_wasmVars(ReadTimeout(t))
    /\ SF_wasmVars(\E t \in Reads, len \in Lens \ {0} : ReadStart(t, len))

-----------------------------------------------------------------------------
(* Properties                                                              *)

\* No notify is lost, however many tasks of a side wait on one word: while
\* one waits although there is unread data (room), the other side stands
\* between its store and the notify that follows it.
NoLostNotify ==
    /\ (\E t \in Reads : rtask[t] = "wait") /\ rpos < ppos => wpc = "wake"
    /\ (\E t \in Writes : wtask[t] = "wait") /\ wpos - hpos < Cap => rpc = "wake"

\* Overlapping writes of one handle share the ring byte by byte: what they
\* count as written adds up to what is in the stream, also when the handle
\* is closed under them or their wait is refused, so a caller that is told a
\* count can rely on it.
WritesAddUp ==
    /\ WriterIdle => ppos = MapThenSumSet(LAMBDA t : size[t] - left[t], Writes)
    /\ \A t \in Writes : left[t] \in 0 .. size[t]

\* Every write settles while the program reads on: none starves behind
\* another, and Close rejects the ones that still wait.
WritesSettle ==
    \A t \in Writes : (wtask[t] \notin Settled) ~> (wtask[t] \in Settled \/ rgone)

\* Every pending read settles after writer.close() or reader.close(). The
\* notify of Close can come before the wait starts and the Reader's close
\* sends none, so this rests on WAIT_TIMEOUT_MS.
ReadsSettle ==
    \A t \in Reads :
        (rtask[t] \notin Settled /\ (closed = 1 \/ rgone)) ~> (rtask[t] \in Settled)
=============================================================================
