---------------------------- MODULE BlockingRing ----------------------------
(***************************************************************************)
(* The blocking calls of shmring, Writer.WriteContext and                  *)
(* Reader.ReadContext (Write and Read are the same with                    *)
(* context.Background()), on top of the non-blocking ring of RingBuffer.   *)
(*                                                                         *)
(* A call that finds no room (no data) either sleeps on the storage's      *)
(* WaiterStorage, a futex on the header word the other side stores, or     *)
(* polls with a timer when the storage is no WaiterStorage. A futex wait   *)
(* compares the word with the value the call has seen, atomically with     *)
(* going to sleep; it ends by a Wake on that word, spuriously, or by its   *)
(* timeout if waitSlice gave it one.                                       *)
(***************************************************************************)
EXTENDS RingBuffer

CONSTANTS
    Waiters,  \* the storages considered: TRUE for a WaiterStorage
    Contexts  \* kinds of ctx the callers pass

\* "background" can never be done; "cancellable" may be cancelled, or reach
\* its deadline, at any time.
ASSUME BlockingAssumption ==
    /\ Waiters \subseteq BOOLEAN
    /\ Contexts \subseteq {"background", "cancellable"}

VARIABLES
    waiter, \* TRUE if this storage implements WaiterStorage; never changes
    wcall, \* where the Writer's blocking call (or Close) stands
    wctx,  \* its ctx
    wleft, \* len(p) - written
    wres,  \* error of the Writer's last blocking call
    rcall, \* where the Reader's blocking call stands
    rctx,  \* its ctx
    rwant, \* its len(p)
    reof,  \* TRUE once a Read has returned io.EOF
    wgoal  \* history: stream position at which the current p ends

wblock == <<wcall, wctx, wleft, wres, wgoal, waiter>>
rblock == <<rcall, rctx, rwant, reof>>
bvars  == <<vars, wblock, rblock>>

\* none: no call; try: about to call TryWrite/TryRead; trying: inside it;
\* wait: about to wait; parked: asleep in the kernel's futex queue;
\* sleep: in the select with the poll timer; closing: in Writer.Close.
Calls == {"none", "try", "trying", "wait", "parked", "sleep", "closing"}
CtxStates == {"background", "cancellable", "done"}

BInit ==
    /\ Init
    /\ waiter \in Waiters
    /\ wcall = "none" /\ wctx = "background" /\ wleft = 0 /\ wres = "nil"
    /\ wgoal = 0
    /\ rcall = "none" /\ rctx = "background" /\ rwant = 0 /\ reof = FALSE

\* Bug: every wait is indefinite.
WaitSliceBounded_Never(ctx) == FALSE

\* waitSlice: no timeout for a ctx that can never be done, else a timeout of
\* at most maxPoll and more than zero.
WaitSliceBounded(ctx) == ctx # "background"

\* Bug: a counter is stored without the Wake that goes with it.
Woken_None(call) == call

\* Wake on offTail (offHead): whoever is parked on that word goes on.
Woken(call) == IF call = "parked" THEN "try" ELSE call

\* Bug: the wait goes to sleep without a look at the word.
StillSeen_Always(word, seen) == TRUE

\* The kernel's compare: the word has the value the caller has seen.
StillSeen(word, seen) == word = seen

\* Bug: the loop does not look at ctx.
CtxDone_Never(ctx) == FALSE

\* ctx.Err() # nil.
CtxDone(ctx) == ctx = "done"

\* Bug: the bytes of one TryWrite are counted twice.
Remaining_Twice(n) == wleft - 2 * n

\* len(p) - written after a TryWrite of n bytes.
Remaining(n) == wleft - n

\* Bug: a short write is taken for a complete one.
Complete_Short(left) == TRUE

\* The loop's condition, written < len(p), has become false.
Complete(left) == left = 0

-----------------------------------------------------------------------------
(* Writer                                                                  *)

\* WriteContext(ctx, p) is called; an empty p returns without a TryWrite.
WriteCall(len, ctx) ==
    /\ wcall = "none"
    /\ wpos + len <= MaxBytes
    /\ wctx' = ctx
    /\ wleft' = len
    /\ wgoal' = wpos + len
    /\ wcall' = IF len = 0 THEN "none" ELSE "try"
    /\ wres' = "nil"
    /\ UNCHANGED <<vars, waiter, rblock>>

\* The loop calls TryWrite(p[written:]).
WriteTry ==
    /\ wcall = "try"
    /\ TryWriteCall(wleft)
    /\ wcall' = "trying"
    /\ UNCHANGED <<wctx, wleft, wres, wgoal, waiter, rblock>>

\* The storage accesses of TryWrite and Close.
WriterInner ==
    /\ wcall \in {"trying", "closing"}
    /\ \/ TryWriteLoadHead
       \/ TryWriteCopy
       \/ TryWriteStoreTail
       \/ CloseNudge
       \/ wpc # "idle" /\ WriterStorageError
    /\ UNCHANGED <<wblock, rblock>>

\* Wake(offTail) at the end of TryWrite's, or Close's, tail store.
WriterInnerWake ==
    /\ WriterWake
    /\ rcall' = Woken(rcall)
    /\ UNCHANGED <<wblock, rctx, rwant, reof>>

\* TryWrite has returned: an error ends the call, progress goes on, and no
\* room looks at ctx and then waits.
WriteTryReturned ==
    /\ wcall = "trying" /\ wpc = "idle"
    /\ wleft' = Remaining(wret.n)
    /\ \/ /\ wret.err # "nil"
          /\ wcall' = "none" /\ wres' = wret.err
       \/ /\ wret.err = "nil" /\ wret.n > 0
          /\ wcall' = IF Complete(Remaining(wret.n)) THEN "none" ELSE "try"
          /\ UNCHANGED wres
       \/ /\ wret.err = "nil" /\ wret.n = 0
          /\ wcall' = IF CtxDone(wctx) THEN "none" ELSE "wait"
          /\ wres' = IF CtxDone(wctx) THEN "ctx" ELSE wres
    /\ UNCHANGED <<vars, wctx, wgoal, waiter, rblock>>

\* Wait(offHead, cachedHead, ...) enters the futex queue only if the word
\* still has the value TryWrite saw; without a waiter the poll timer starts.
WriteWait ==
    /\ wcall = "wait"
    /\ wcall' = IF ~waiter THEN "sleep"
                ELSE IF StillSeen(head, cachedHead) THEN "parked" ELSE "try"
    /\ UNCHANGED <<vars, wctx, wleft, wres, wgoal, waiter, rblock>>

\* The bounded futex wait times out, or the poll timer fires.
WriteTimer ==
    /\ \/ wcall = "parked" /\ WaitSliceBounded(wctx)
       \/ wcall = "sleep"
    /\ wcall' = "try"
    /\ UNCHANGED <<vars, wctx, wleft, wres, wgoal, waiter, rblock>>

\* A futex wait may end for no reason (EINTR).
WriteSpurious ==
    /\ wcall = "parked"
    /\ wcall' = "try"
    /\ UNCHANGED <<vars, wctx, wleft, wres, wgoal, waiter, rblock>>

\* The poll's select sees ctx.Done().
WriteSleepDone ==
    /\ wcall = "sleep" /\ CtxDone(wctx)
    /\ wcall' = "none" /\ wres' = "ctx"
    /\ UNCHANGED <<vars, wctx, wleft, wgoal, waiter, rblock>>

\* Writer.Close, between two blocking calls; its first store may fail.
CloseCall ==
    /\ wcall = "none"
    /\ CloseStoreClosed \/ (wpc = "idle" /\ WriterStorageError)
    /\ wcall' = "closing"
    /\ UNCHANGED <<wctx, wleft, wres, wgoal, waiter, rblock>>

CloseReturned ==
    /\ wcall = "closing" /\ wpc = "idle"
    /\ wcall' = "none"
    /\ UNCHANGED <<vars, wctx, wleft, wres, wgoal, waiter, rblock>>

-----------------------------------------------------------------------------
(* Reader                                                                  *)

\* ReadContext(ctx, p). A consumer stops at io.EOF, as io.Copy does.
ReadCall(len, ctx) ==
    /\ rcall = "none" /\ ~reof
    /\ rctx' = ctx
    /\ rwant' = len
    /\ rcall' = IF len = 0 THEN "none" ELSE "try"
    /\ UNCHANGED <<vars, reof, wblock>>

\* The loop calls TryRead(p).
ReadTry ==
    /\ rcall = "try"
    /\ TryReadCall(rwant)
    /\ rcall' = "trying"
    /\ UNCHANGED <<rctx, rwant, reof, wblock>>

\* The storage accesses of TryRead.
ReaderInner ==
    /\ rcall = "trying"
    /\ \/ TryReadLoadTail
       \/ TryReadLoadClosed
       \/ TryReadCopy
       \/ TryReadStoreHead
       \/ ReaderStorageError
    /\ UNCHANGED <<wblock, rblock>>

\* Wake(offHead) at the end of TryRead's head store.
ReaderInnerWake ==
    /\ ReaderWake
    /\ wcall' = Woken(wcall)
    /\ UNCHANGED <<rblock, wctx, wleft, wres, wgoal, waiter>>

\* TryRead has returned: data or an error ends the call, an empty ring looks
\* at ctx and then waits.
ReadTryReturned ==
    /\ rcall = "trying" /\ rpc = "idle"
    /\ \/ /\ rret.n > 0 \/ rret.err # "nil"
          /\ rcall' = "none"
          /\ reof' = (rret.err = "EOF")
       \/ /\ rret.n = 0 /\ rret.err = "nil"
          /\ rcall' = IF CtxDone(rctx) THEN "none" ELSE "wait"
          /\ UNCHANGED reof
    /\ UNCHANGED <<vars, rctx, rwant, wblock>>

\* Wait(offTail, cachedTail, ...), or the start of the poll timer.
ReadWait ==
    /\ rcall = "wait"
    /\ rcall' = IF ~waiter THEN "sleep"
                ELSE IF StillSeen(tail, cachedTail) THEN "parked" ELSE "try"
    /\ UNCHANGED <<vars, rctx, rwant, reof, wblock>>

ReadTimer ==
    /\ \/ rcall = "parked" /\ WaitSliceBounded(rctx)
       \/ rcall = "sleep"
    /\ rcall' = "try"
    /\ UNCHANGED <<vars, rctx, rwant, reof, wblock>>

ReadSpurious ==
    /\ rcall = "parked"
    /\ rcall' = "try"
    /\ UNCHANGED <<vars, rctx, rwant, reof, wblock>>

ReadSleepDone ==
    /\ rcall = "sleep" /\ CtxDone(rctx)
    /\ rcall' = "none"
    /\ UNCHANGED <<vars, rctx, rwant, reof, wblock>>

-----------------------------------------------------------------------------
\* The owner of a ctx cancels it, or its deadline passes, during a call.
Cancel ==
    \/ /\ wctx = "cancellable" /\ wcall # "none"
       /\ wctx' = "done"
       /\ UNCHANGED <<vars, wcall, wleft, wres, wgoal, waiter, rblock>>
    \/ /\ rctx = "cancellable" /\ rcall # "none"
       /\ rctx' = "done"
       /\ UNCHANGED <<vars, rcall, rwant, reof, wblock>>

\* What the Writer's (Reader's) thread does by itself once a call is made.
WriterSteps ==
    \/ WriteTry \/ WriterInner \/ WriterInnerWake \/ WriteTryReturned
    \/ WriteWait \/ WriteTimer \/ WriteSleepDone \/ CloseReturned
ReaderSteps ==
    \/ ReadTry \/ ReaderInner \/ ReaderInnerWake \/ ReadTryReturned
    \/ ReadWait \/ ReadTimer \/ ReadSleepDone

BNext ==
    \/ \E len \in Lens, ctx \in Contexts : WriteCall(len, ctx)
    \/ CloseCall
    \/ WriterSteps
    \/ WriteSpurious
    \/ \E len \in Lens, ctx \in Contexts : ReadCall(len, ctx)
    \/ ReaderSteps
    \/ ReadSpurious
    \/ Cancel

BSafety == BInit /\ [][BNext]_bvars

\* Both threads are scheduled and timers fire. Nothing forces a caller to
\* make a call, a futex to return spuriously or a ctx to be cancelled.
BSpec == BSafety /\ WF_bvars(WriterSteps) /\ WF_bvars(ReaderSteps)

\* In addition the consumer keeps reading until io.EOF.
ConsumingSpec ==
    BSpec /\ WF_bvars(\E len \in Lens \ {0}, ctx \in Contexts : ReadCall(len, ctx))

-----------------------------------------------------------------------------
(* Properties                                                              *)

\* The type of the blocking calls' own state.
BlockingTypeOK ==
    /\ waiter \in BOOLEAN
    /\ wcall \in Calls /\ wctx \in CtxStates /\ wleft \in Nat /\ wgoal \in Nat
    /\ wres \in WErrors \cup {"ctx"}
    /\ rcall \in Calls \ {"closing"} /\ rctx \in CtxStates /\ rwant \in Nat
    /\ reof \in BOOLEAN

\* No lost wakeup: whenever a side is parked although it could go on (the
\* Reader although there is unread data, the Writer although there is room),
\* the other side stands between its store and the Wake that follows it.
\* This needs the futex's compare, the order store-then-Wake, and that a
\* counter cannot come round to the value the sleeper compared with.
NoLostWakeup ==
    /\ rcall = "parked" /\ rpos < ppos => wpc = "wake"
    /\ wcall = "parked" /\ wpos - hpos < Cap => rpc = "wake"

(***************************************************************************)
(* Why no wakeup is lost, as an inductive invariant on top of RingInv: a   *)
(* call waits only on a counter value that shows it no room (no data), and *)
(* is asleep only while the stored counter has that value or the other     *)
(* side is about to wake it.                                               *)
(***************************************************************************)
WriterCallState ==
    /\ wcall \notin {"trying", "closing"} => wpc = "idle"
    /\ wpc = "nudge" => wcall = "closing"
    /\ wcall = "trying" /\ wpc = "loadHead" => wlen = wleft
    /\ wcall = "trying" /\ wpc \in {"copy", "storeTail"} => wn <= wleft
    /\ wcall = "trying" /\ wpc = "wake" => wret.n > 0
    /\ wcall = "trying" /\ wpc \in {"idle", "wake"} => wret.n <= wleft
    /\ wcall \in {"try", "trying", "wait", "parked", "sleep"} => wleft > 0

ReaderCallState ==
    /\ rcall # "trying" => rpc = "idle"
    /\ rpc = "wake" => rret.n > 0
    /\ rcall # "none" => rwant > 0

\* The Writer waits only after it has seen a full ring.
WriterWaitsOnFull ==
    /\ wcall = "trying" /\ wpc = "idle" /\ wret.n = 0 /\ wret.err = "nil"
          => wpos = chpos + Cap
    /\ wcall \in {"wait", "parked"} => wpos = chpos + Cap
    /\ wcall = "parked" => chpos = hpos \/ rpc = "wake"

\* The Reader waits only after it has seen an empty ring.
ReaderWaitsOnEmpty ==
    /\ rpc = "loadClosed" => ctpos = rpos
    /\ rcall = "trying" /\ rpc = "idle" /\ rret.n = 0 /\ rret.err = "nil"
          => ctpos = rpos
    /\ rcall \in {"wait", "parked"} => ctpos = rpos
    /\ rcall = "parked" => ctpos = ppos \/ wpc = "wake"

\* The inductive invariant of the blocking calls, storage errors included.
WakeInv ==
    /\ RingInv
    /\ BlockingTypeOK
    /\ WriterCallState
    /\ ReaderCallState
    /\ WriterWaitsOnFull
    /\ ReaderWaitsOnEmpty

\* Between calls the count WriteContext has returned (len(p) - wleft) is the
\* number of bytes of p that it placed in the stream, also after a cancelled
\* call or one on a closed Writer, and a nil error means all of p: nothing is
\* written twice by the retry loop or dropped by it. The one exception is a
\* call that reports a storage error. While the storage works, what was
\* placed has also been published.
WriteCountTrue ==
    wcall = "none" /\ wres # "ErrStorage"
        => /\ wpos = wgoal - wleft
           /\ wres = "nil" => wleft = 0
           /\ ~StorageFails => ppos = wpos

\* A blocked or running Write returns, as long as the consumer keeps reading.
WriteReturns == (wcall # "none") ~> (wcall = "none")

\* A Read in progress while there is unread data returns.
ReadReturnsData == (rcall # "none" /\ rpos < ppos) ~> (rcall = "none")

\* A Read in progress when the Writer has closed the ring returns: the nudge
\* of Writer.Close, or a timeout, reaches the Reader ("closing without a
\* final write needs an explicit nudge here", writer.go:191).
ReadReturnsAfterClose == (rcall # "none" /\ closed = 1) ~> (rcall = "none")

\* A call whose ctx is done returns although the other side does nothing
\* ("ctx cancellation is still noticed promptly", writer.go:134).
CancelReturns ==
    /\ (wcall # "none" /\ wctx = "done") ~> (wcall = "none")
    /\ (rcall # "none" /\ rctx = "done") ~> (rcall = "none")
=============================================================================
