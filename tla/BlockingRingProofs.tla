------------------------- MODULE BlockingRingProofs -------------------------
(***************************************************************************)
(* Proofs about BlockingRing: no wakeup is lost, for every capacity, every *)
(* counter modulus, every pattern of calls, with storage errors, timeouts, *)
(* spurious wakeups and cancellations.                                     *)
(***************************************************************************)
EXTENDS BlockingRing, RingRefinementProofs

\* The small helpers of the loops are expanded in every proof of this module.
USE DEF LoadHead, LoadTail, LoadClosed, StillSeen, CtxDone, Remaining, Complete

-----------------------------------------------------------------------------
(* One lemma per action.                                                   *)

\* The initial states of the blocking calls satisfy WakeInv.
LEMMA BInitInv == BInit => WakeInv
<1> SUFFICES ASSUME BInit PROVE WakeInv
  OBVIOUS
<1>1. RingInv
  BY InitInv DEF BInit
<1>2. waiter \in BOOLEAN
  BY BlockingAssumption, Zenon DEF BInit
<1>2a. BlockingTypeOK
  BY <1>2 DEF BInit, BlockingTypeOK, Calls, CtxStates, WErrors
<1>3. WriterCallState /\ ReaderCallState
  BY DEF BInit, Init, WriterCallState, ReaderCallState
<1>4. WriterWaitsOnFull /\ ReaderWaitsOnEmpty
  BY DEF BInit, Init, WriterWaitsOnFull, ReaderWaitsOnEmpty
<1> QED
  BY <1>1, <1>2a, <1>3, <1>4 DEF WakeInv

\* WriteCall keeps WakeInv.
LEMMA WriteCallInv ==
    ASSUME WakeInv, NEW len \in Nat, NEW ctx \in Contexts, WriteCall(len, ctx)
    PROVE  WakeInv'
<1> USE DEF header, writer, reader, whistory, rhistory, vars, rblock
<1>1. RingInv'
  BY RingStutter DEF WakeInv, WriteCall
<1>2. len \in Nat /\ ctx \in CtxStates
  BY BlockingAssumption DEF CtxStates
<1>3. wpos \in Nat
  BY DEF WakeInv, RingInv, TypeOK
<1>4. BlockingTypeOK'
  BY <1>2, <1>3 DEF WakeInv, BlockingTypeOK, Calls, CtxStates, WriteCall, WErrors
<1>5. WriterCallState'
  BY <1>2, <1>3 DEF WakeInv, BlockingTypeOK, WriterCallState, WriteCall, WErrors
<1>6. WriterWaitsOnFull'
  BY <1>2, <1>3 DEF WakeInv, BlockingTypeOK, WriterWaitsOnFull, WriteCall, WErrors
<1>7. ReaderCallState' /\ ReaderWaitsOnEmpty'
  BY DEF WakeInv, ReaderCallState, ReaderWaitsOnEmpty, WriteCall
<1> QED
  BY <1>1, <1>4, <1>5, <1>6, <1>7 DEF WakeInv

\* WriteTryReturned keeps WakeInv.
LEMMA WriteTryReturnedInv ==
    ASSUME WakeInv, WriteTryReturned
    PROVE  WakeInv'
<1> USE DEF header, writer, reader, whistory, rhistory, vars, rblock
<1>1. RingInv'
  BY RingStutter DEF WakeInv, WriteTryReturned
<1>2. /\ wleft \in Nat /\ wret.n \in Nat /\ wret.err \in WErrors
      /\ wcall = "trying" /\ wpc = "idle" /\ wret.n <= wleft /\ wleft > 0
  BY DEF WakeInv, RingInv, TypeOK, BlockingTypeOK, WriterCallState, WriteTryReturned
<1>3. BlockingTypeOK'
  BY <1>2 DEF WakeInv, BlockingTypeOK, Calls, CtxStates, WriteTryReturned, WErrors
<1>4. WriterCallState'
  BY <1>2 DEF WakeInv, BlockingTypeOK, WriterCallState, WriteTryReturned, WErrors
<1>5. WriterWaitsOnFull'
  BY <1>2 DEF WakeInv, BlockingTypeOK, WriterWaitsOnFull, WriteTryReturned, WErrors
<1>6. ReaderCallState' /\ ReaderWaitsOnEmpty'
  BY DEF WakeInv, ReaderCallState, ReaderWaitsOnEmpty, WriteTryReturned
<1> QED
  BY <1>1, <1>3, <1>4, <1>5, <1>6 DEF WakeInv

\* WriteWait keeps WakeInv.
LEMMA WriteWaitInv ==
    ASSUME WakeInv, WriteWait
    PROVE  WakeInv'
<1> USE DEF header, writer, reader, whistory, rhistory, vars, rblock
<1>1. RingInv'
  BY RingStutter DEF WakeInv, WriteWait
<1>2. head = cachedHead => chpos = hpos
  <2>1. /\ hpos \in Nat /\ chpos \in Nat /\ chpos <= hpos /\ hpos <= chpos + Cap
        /\ head = hpos % M /\ cachedHead = chpos % M
    BY CapFacts DEF WakeInv, RingInv, TypeOK, Chain, WordsTrue
  <2> QED
    BY <2>1, EqualWords
<1>3. BlockingTypeOK'
  BY <1>2 DEF WakeInv, BlockingTypeOK, Calls, CtxStates, WriteWait
<1>4. WriterCallState'
  BY <1>2 DEF WakeInv, BlockingTypeOK, WriterCallState, WriteWait
<1>5. WriterWaitsOnFull'
  BY <1>2 DEF WakeInv, BlockingTypeOK, WriterWaitsOnFull, WriteWait
<1>6. ReaderCallState' /\ ReaderWaitsOnEmpty'
  BY DEF WakeInv, ReaderCallState, ReaderWaitsOnEmpty, WriteWait
<1> QED
  BY <1>1, <1>3, <1>4, <1>5, <1>6 DEF WakeInv

\* The end of the Writer's wait, by its timeout or spuriously, keeps WakeInv.
LEMMA WriteTimerInv ==
    ASSUME WakeInv, WriteTimer \/ WriteSpurious
    PROVE  WakeInv'
<1> USE DEF header, writer, reader, whistory, rhistory, vars, rblock
<1>1. RingInv'
  BY RingStutter DEF WakeInv, WriteTimer, WriteSpurious
<1>2. BlockingTypeOK'
  BY DEF WakeInv, BlockingTypeOK, Calls, CtxStates, WriteTimer, WriteSpurious
<1>3. WriterCallState'
  BY DEF WakeInv, BlockingTypeOK, WriterCallState, WriteTimer, WriteSpurious
<1>4. WriterWaitsOnFull'
  BY DEF WakeInv, BlockingTypeOK, WriterWaitsOnFull, WriteTimer, WriteSpurious
<1>5. ReaderCallState' /\ ReaderWaitsOnEmpty'
  BY DEF WakeInv, ReaderCallState, ReaderWaitsOnEmpty, WriteTimer, WriteSpurious
<1> QED
  BY <1>1, <1>2, <1>3, <1>4, <1>5 DEF WakeInv

\* WriteSleepDone keeps WakeInv.
LEMMA WriteSleepDoneInv ==
    ASSUME WakeInv, WriteSleepDone
    PROVE  WakeInv'
<1> USE DEF header, writer, reader, whistory, rhistory, vars, rblock
<1>1. RingInv'
  BY RingStutter DEF WakeInv, WriteSleepDone
<1>2. BlockingTypeOK'
  BY DEF WakeInv, BlockingTypeOK, Calls, CtxStates, WriteSleepDone
<1>3. WriterCallState'
  BY DEF WakeInv, BlockingTypeOK, WriterCallState, WriteSleepDone
<1>4. WriterWaitsOnFull'
  BY DEF WakeInv, BlockingTypeOK, WriterWaitsOnFull, WriteSleepDone
<1>5. ReaderCallState' /\ ReaderWaitsOnEmpty'
  BY DEF WakeInv, ReaderCallState, ReaderWaitsOnEmpty, WriteSleepDone
<1> QED
  BY <1>1, <1>2, <1>3, <1>4, <1>5 DEF WakeInv

\* CloseReturned keeps WakeInv.
LEMMA CloseReturnedInv ==
    ASSUME WakeInv, CloseReturned
    PROVE  WakeInv'
<1> USE DEF header, writer, reader, whistory, rhistory, vars, rblock
<1>1. RingInv'
  BY RingStutter DEF WakeInv, CloseReturned
<1>2. BlockingTypeOK'
  BY DEF WakeInv, BlockingTypeOK, Calls, CtxStates, CloseReturned
<1>3. WriterCallState'
  BY DEF WakeInv, BlockingTypeOK, WriterCallState, CloseReturned
<1>4. WriterWaitsOnFull'
  BY DEF WakeInv, BlockingTypeOK, WriterWaitsOnFull, CloseReturned
<1>5. ReaderCallState' /\ ReaderWaitsOnEmpty'
  BY DEF WakeInv, ReaderCallState, ReaderWaitsOnEmpty, CloseReturned
<1> QED
  BY <1>1, <1>2, <1>3, <1>4, <1>5 DEF WakeInv

\* ReadCall keeps WakeInv.
LEMMA ReadCallInv ==
    ASSUME WakeInv, NEW len \in Nat, NEW ctx \in Contexts, ReadCall(len, ctx)
    PROVE  WakeInv'
<1> USE DEF header, writer, reader, whistory, rhistory, vars, wblock
<1>1. RingInv'
  BY RingStutter DEF WakeInv, ReadCall
<1>2. len \in Nat /\ ctx \in CtxStates
  BY BlockingAssumption DEF CtxStates
<1>3. BlockingTypeOK'
  BY <1>2 DEF WakeInv, BlockingTypeOK, Calls, CtxStates, ReadCall
<1>4. ReaderCallState'
  BY <1>2 DEF WakeInv, BlockingTypeOK, ReaderCallState, ReadCall
<1>5. ReaderWaitsOnEmpty'
  BY <1>2 DEF WakeInv, BlockingTypeOK, ReaderWaitsOnEmpty, ReadCall
<1>6. WriterCallState' /\ WriterWaitsOnFull'
  BY DEF WakeInv, WriterCallState, WriterWaitsOnFull, ReadCall
<1> QED
  BY <1>1, <1>3, <1>4, <1>5, <1>6 DEF WakeInv

\* ReadTryReturned keeps WakeInv.
LEMMA ReadTryReturnedInv ==
    ASSUME WakeInv, ReadTryReturned
    PROVE  WakeInv'
<1> USE DEF header, writer, reader, whistory, rhistory, vars, wblock
<1>1. RingInv'
  BY RingStutter DEF WakeInv, ReadTryReturned
<1>2. BlockingTypeOK'
  BY DEF WakeInv, BlockingTypeOK, Calls, CtxStates, ReadTryReturned
<1>3. ReaderCallState'
  BY DEF WakeInv, BlockingTypeOK, ReaderCallState, ReadTryReturned
<1>4. ReaderWaitsOnEmpty'
  BY DEF WakeInv, BlockingTypeOK, ReaderWaitsOnEmpty, ReadTryReturned
<1>5. WriterCallState' /\ WriterWaitsOnFull'
  BY DEF WakeInv, WriterCallState, WriterWaitsOnFull, ReadTryReturned
<1> QED
  BY <1>1, <1>2, <1>3, <1>4, <1>5 DEF WakeInv

\* ReadWait keeps WakeInv.
LEMMA ReadWaitInv ==
    ASSUME WakeInv, ReadWait
    PROVE  WakeInv'
<1> USE DEF header, writer, reader, whistory, rhistory, vars, wblock
<1>1. RingInv'
  BY RingStutter DEF WakeInv, ReadWait
<1>2. tail = cachedTail => ctpos = ppos
  <2>1. /\ ppos \in Nat /\ ctpos \in Nat /\ ctpos <= ppos /\ ppos <= ctpos + Cap
        /\ tail = ppos % M /\ cachedTail = ctpos % M
    BY CapFacts DEF WakeInv, RingInv, TypeOK, Chain, WordsTrue
  <2> QED
    BY <2>1, EqualWords
<1>3. BlockingTypeOK'
  BY <1>2 DEF WakeInv, BlockingTypeOK, Calls, CtxStates, ReadWait
<1>4. ReaderCallState'
  BY <1>2 DEF WakeInv, BlockingTypeOK, ReaderCallState, ReadWait
<1>5. ReaderWaitsOnEmpty'
  BY <1>2 DEF WakeInv, BlockingTypeOK, ReaderWaitsOnEmpty, ReadWait
<1>6. WriterCallState' /\ WriterWaitsOnFull'
  BY DEF WakeInv, WriterCallState, WriterWaitsOnFull, ReadWait
<1> QED
  BY <1>1, <1>3, <1>4, <1>5, <1>6 DEF WakeInv

\* The end of the Reader's wait, by its timeout or spuriously, keeps WakeInv.
LEMMA ReadTimerInv ==
    ASSUME WakeInv, ReadTimer \/ ReadSpurious
    PROVE  WakeInv'
<1> USE DEF header, writer, reader, whistory, rhistory, vars, wblock
<1>1. RingInv'
  BY RingStutter DEF WakeInv, ReadTimer, ReadSpurious
<1>2. BlockingTypeOK'
  BY DEF WakeInv, BlockingTypeOK, Calls, CtxStates, ReadTimer, ReadSpurious
<1>3. ReaderCallState'
  BY DEF WakeInv, BlockingTypeOK, ReaderCallState, ReadTimer, ReadSpurious
<1>4. ReaderWaitsOnEmpty'
  BY DEF WakeInv, BlockingTypeOK, ReaderWaitsOnEmpty, ReadTimer, ReadSpurious
<1>5. WriterCallState' /\ WriterWaitsOnFull'
  BY DEF WakeInv, WriterCallState, WriterWaitsOnFull, ReadTimer, ReadSpurious
<1> QED
  BY <1>1, <1>2, <1>3, <1>4, <1>5 DEF WakeInv

\* ReadSleepDone keeps WakeInv.
LEMMA ReadSleepDoneInv ==
    ASSUME WakeInv, ReadSleepDone
    PROVE  WakeInv'
<1> USE DEF header, writer, reader, whistory, rhistory, vars, wblock
<1>1. RingInv'
  BY RingStutter DEF WakeInv, ReadSleepDone
<1>2. BlockingTypeOK'
  BY DEF WakeInv, BlockingTypeOK, Calls, CtxStates, ReadSleepDone
<1>3. ReaderCallState'
  BY DEF WakeInv, BlockingTypeOK, ReaderCallState, ReadSleepDone
<1>4. ReaderWaitsOnEmpty'
  BY DEF WakeInv, BlockingTypeOK, ReaderWaitsOnEmpty, ReadSleepDone
<1>5. WriterCallState' /\ WriterWaitsOnFull'
  BY DEF WakeInv, WriterCallState, WriterWaitsOnFull, ReadSleepDone
<1> QED
  BY <1>1, <1>2, <1>3, <1>4, <1>5 DEF WakeInv

\* Cancel keeps WakeInv.
LEMMA CancelInv ==
    ASSUME WakeInv, Cancel
    PROVE  WakeInv'
<1> USE DEF header, writer, reader, whistory, rhistory, vars, wblock, rblock
<1>1. RingInv'
  BY RingStutter DEF WakeInv, Cancel
<1>2. BlockingTypeOK'
  BY DEF WakeInv, BlockingTypeOK, CtxStates, Cancel
<1>3. WriterCallState' /\ WriterWaitsOnFull'
  BY DEF WakeInv, WriterCallState, WriterWaitsOnFull, Cancel
<1>4. ReaderCallState' /\ ReaderWaitsOnEmpty'
  BY DEF WakeInv, ReaderCallState, ReaderWaitsOnEmpty, Cancel
<1> QED
  BY <1>1, <1>2, <1>3, <1>4 DEF WakeInv

\* WriteTry keeps WakeInv.
LEMMA WriteTryInv ==
    ASSUME WakeInv, WriteTry
    PROVE  WakeInv'
<1> USE DEF header, reader, whistory, rhistory, readerSide, rblock
<1>1. /\ wleft \in Nat /\ wleft > 0 /\ wpc = "idle" /\ wcall = "try"
      /\ Free(cachedHead) \in Int /\ TryWriteCall(wleft)
  <2>1. Free(cachedHead) \in Int
    BY CapFacts DEF WakeInv, RingInv, TypeOK, Words, Free, Sub
  <2> QED
    BY <2>1 DEF WakeInv, BlockingTypeOK, WriterCallState, WriteTry
<1>2. RingInv'
  BY <1>1, TryWriteCallInv DEF WakeInv
<1>3. BlockingTypeOK'
  BY DEF WakeInv, BlockingTypeOK, Calls, WriteTry
<1>4. /\ wcall' = "trying" /\ wleft' = wleft
      /\ \/ wpc' = "idle" /\ wret' = [n |-> 0, err |-> "ErrClosed"]
         \/ wpc' = "loadHead" /\ wlen' = wleft
         \/ wpc' = "copy" /\ wn' = Smaller(wleft, Free(cachedHead))
  BY <1>1 DEF WriteTry, TryWriteCall, WReturn, WGrant
<1>5. Smaller(wleft, Free(cachedHead)) <= wleft
  BY <1>1 DEF Smaller
<1>6. WriterCallState'
  BY <1>1, <1>4, <1>5 DEF WriterCallState
<1>7. WriterWaitsOnFull'
  BY <1>4 DEF WriterWaitsOnFull
<1>8. ReaderCallState'
  BY DEF WakeInv, ReaderCallState, WriteTry, TryWriteCall
<1>9. ReaderWaitsOnEmpty'
  BY <1>1 DEF WakeInv, ReaderWaitsOnEmpty, WriteTry, TryWriteCall
<1> QED
  BY <1>2, <1>3, <1>6, <1>7, <1>8, <1>9 DEF WakeInv

\* InnerLoadHead keeps WakeInv.
LEMMA InnerLoadHeadInv ==
    ASSUME WakeInv, wcall \in {"trying", "closing"}, TryWriteLoadHead,
           UNCHANGED <<wblock, rblock>>
    PROVE  WakeInv'
<1> USE DEF header, reader, whistory, rhistory, readerSide, wblock, rblock
<1>1. RingInv'
  BY TryWriteLoadHeadInv DEF WakeInv
<1>2. BlockingTypeOK'
  BY DEF WakeInv, BlockingTypeOK
<1>3. /\ Free(head) = hpos + Cap - wpos /\ wpos <= hpos + Cap
      /\ hpos \in Nat /\ wpos \in Nat /\ Cap \in Nat /\ Free(head) \in Int
  <2>1. Free(head) = hpos + Cap - wpos /\ wpos <= hpos + Cap
    BY FreeHead DEF WakeInv
  <2>2. hpos \in Nat /\ wpos \in Nat /\ Cap \in Nat
    BY CapFacts DEF WakeInv, RingInv, TypeOK
  <2> QED
    BY <2>1, <2>2
<1>4. /\ wleft \in Nat /\ wlen \in Nat
      /\ wcall = "trying" => wlen = wleft /\ wleft > 0
  BY DEF WakeInv, RingInv, TypeOK, BlockingTypeOK, WriterCallState, TryWriteLoadHead
<1>5. \/ /\ wpc' = "idle" /\ wret' = [n |-> 0, err |-> "nil"]
         /\ wpos = hpos + Cap
      \/ /\ wpc' = "copy" /\ wn' = Smaller(wlen, Free(head))
  BY <1>3 DEF TryWriteLoadHead, WReturn, WGrant
<1>6. Smaller(wlen, Free(head)) <= wlen
  BY <1>3, <1>4 DEF Smaller
<1>7. WriterCallState'
  BY <1>4, <1>5, <1>6 DEF WakeInv, WriterCallState
<1>8. WriterWaitsOnFull'
  <2>1. wpos' = wpos /\ chpos' = hpos
    BY DEF TryWriteLoadHead
  <2> QED
    BY <1>5, <2>1 DEF WriterWaitsOnFull
<1>9. ReaderCallState'
  BY DEF WakeInv, ReaderCallState, TryWriteLoadHead
<1>10. ReaderWaitsOnEmpty'
  BY <1>5 DEF WakeInv, ReaderWaitsOnEmpty, TryWriteLoadHead
<1> QED
  BY <1>1, <1>2, <1>7, <1>8, <1>9, <1>10 DEF WakeInv

\* InnerCopy keeps WakeInv.
LEMMA InnerCopyInv ==
    ASSUME WakeInv, wcall \in {"trying", "closing"}, TryWriteCopy,
           UNCHANGED <<wblock, rblock>>
    PROVE  WakeInv'
<1> USE DEF header, reader, whistory, rhistory, readerSide, wblock, rblock
<1>1. RingInv'
  BY TryWriteCopyInv DEF WakeInv
<1>2. BlockingTypeOK'
  BY DEF WakeInv, BlockingTypeOK
<1>3. WriterCallState' /\ WriterWaitsOnFull'
  BY DEF WakeInv, WriterCallState, WriterWaitsOnFull, TryWriteCopy
<1>4. ReaderCallState' /\ ReaderWaitsOnEmpty'
  BY DEF WakeInv, ReaderCallState, ReaderWaitsOnEmpty, TryWriteCopy
<1> QED
  BY <1>1, <1>2, <1>3, <1>4 DEF WakeInv

\* InnerStoreTail keeps WakeInv.
LEMMA InnerStoreTailInv ==
    ASSUME WakeInv, wcall \in {"trying", "closing"}, TryWriteStoreTail,
           UNCHANGED <<wblock, rblock>>
    PROVE  WakeInv'
<1> USE DEF header, reader, whistory, rhistory, readerSide, wblock, rblock
<1>1. RingInv'
  BY TryWriteStoreTailInv DEF WakeInv
<1>2. BlockingTypeOK'
  BY DEF WakeInv, BlockingTypeOK
<1>3. wn \in Nat /\ wn > 0 /\ (wcall = "trying" => wn <= wleft)
  BY DEF WakeInv, RingInv, TypeOK, WriterCallSound, WriterCallState, TryWriteStoreTail
<1>4. wpc' = "wake" /\ wret' = [n |-> wn, err |-> "nil"]
  BY DEF TryWriteStoreTail
<1>5. WriterCallState'
  BY <1>3, <1>4 DEF WakeInv, WriterCallState
<1>6. WriterWaitsOnFull'
  BY <1>4 DEF WriterWaitsOnFull
<1>7. ReaderCallState'
  BY DEF WakeInv, ReaderCallState, TryWriteStoreTail
<1>8. ReaderWaitsOnEmpty'
  BY <1>4 DEF WakeInv, ReaderWaitsOnEmpty, TryWriteStoreTail
<1> QED
  BY <1>1, <1>2, <1>5, <1>6, <1>7, <1>8 DEF WakeInv

\* Close's nudge happens in a Close call only.
LEMMA InnerNudgeInv ==
    ASSUME WakeInv, CloseNudge, UNCHANGED <<wblock, rblock>>
    PROVE  WakeInv'
<1> USE DEF header, reader, whistory, rhistory, readerSide, wblock, rblock
<1>1. RingInv'
  BY CloseNudgeInv DEF WakeInv
<1>2. BlockingTypeOK'
  BY DEF WakeInv, BlockingTypeOK
<1>3. WriterCallState' /\ WriterWaitsOnFull'
  BY DEF WakeInv, WriterCallState, WriterWaitsOnFull, CloseNudge
<1>4. ReaderCallState' /\ ReaderWaitsOnEmpty'
  BY DEF WakeInv, ReaderCallState, ReaderWaitsOnEmpty, CloseNudge
<1> QED
  BY <1>1, <1>2, <1>3, <1>4 DEF WakeInv

\* InnerWriterError keeps WakeInv.
LEMMA InnerWriterErrorInv ==
    ASSUME WakeInv, wcall \in {"trying", "closing"}, wpc # "idle",
           WriterStorageError, UNCHANGED <<wblock, rblock>>
    PROVE  WakeInv'
<1> USE DEF header, reader, whistory, rhistory, readerSide, wblock, rblock
<1>1. RingInv'
  BY WriterStorageErrorInv DEF WakeInv
<1>2. BlockingTypeOK'
  BY DEF WakeInv, BlockingTypeOK
<1>3. /\ wpc' = "idle" /\ wret' = [n |-> 0, err |-> "ErrStorage"]
      /\ wpc # "wake" /\ wleft \in Nat /\ (wcall = "trying" => wleft > 0)
  BY DEF WakeInv, BlockingTypeOK, WriterCallState, WriterStorageError, WReturn
<1>4. WriterCallState' /\ WriterWaitsOnFull'
  BY <1>3 DEF WriterCallState, WriterWaitsOnFull
<1>5. ReaderCallState'
  BY DEF WakeInv, ReaderCallState, WriterStorageError
<1>6. ReaderWaitsOnEmpty'
  BY <1>3 DEF WakeInv, ReaderWaitsOnEmpty, WriterStorageError
<1> QED
  BY <1>1, <1>2, <1>4, <1>5, <1>6 DEF WakeInv

\* The Wake after a tail store: a parked Reader goes on.
LEMMA WriterInnerWakeInv ==
    ASSUME WakeInv, WriterInnerWake
    PROVE  WakeInv'
<1> USE DEF header, reader, whistory, rhistory, readerSide, wblock
<1>1. RingInv'
  BY WriterWakeInv DEF WakeInv, WriterInnerWake
<1>2. BlockingTypeOK'
  BY DEF WakeInv, BlockingTypeOK, Calls, WriterInnerWake, Woken
<1>3. wpc = "wake" /\ wpc' = "idle" /\ wret' = wret /\ wret.n \in Nat
  BY DEF WakeInv, RingInv, TypeOK, WriterInnerWake, WriterWake
<1>4. WriterCallState'
  BY <1>3 DEF WakeInv, WriterCallState, WriterInnerWake
<1>5. WriterWaitsOnFull'
  BY <1>3 DEF WakeInv, WriterCallState, WriterWaitsOnFull, WriterInnerWake
<1>6. ReaderCallState'
  BY DEF WakeInv, ReaderCallState, WriterInnerWake, WriterWake, Woken
<1>7. ReaderWaitsOnEmpty'
  BY DEF WakeInv, ReaderWaitsOnEmpty, WriterInnerWake, WriterWake, Woken
<1> QED
  BY <1>1, <1>2, <1>4, <1>5, <1>6, <1>7 DEF WakeInv

\* CloseCall keeps WakeInv.
LEMMA CloseCallInv ==
    ASSUME WakeInv, CloseCall
    PROVE  WakeInv'
<1> USE DEF header, reader, whistory, rhistory, readerSide, rblock
<1>1. RingInv'
  BY CloseStoreClosedInv, WriterStorageErrorInv DEF WakeInv, CloseCall
<1>2. BlockingTypeOK'
  BY DEF WakeInv, BlockingTypeOK, Calls, CloseCall
<1>3. WriterCallState' /\ WriterWaitsOnFull'
  BY DEF CloseCall, WriterCallState, WriterWaitsOnFull
<1>4. ReaderCallState'
  BY DEF WakeInv, ReaderCallState, CloseCall, CloseStoreClosed, WriterStorageError
<1>5. /\ rpos' = rpos /\ ctpos' = ctpos /\ ppos' = ppos
      /\ rpc' = rpc /\ rret' = rret /\ rcall' = rcall /\ wpc # "wake"
  BY DEF CloseCall, CloseStoreClosed, WriterStorageError
<1>6. ReaderWaitsOnEmpty'
  BY <1>5 DEF WakeInv, ReaderWaitsOnEmpty
<1> QED
  BY <1>1, <1>2, <1>3, <1>4, <1>6 DEF WakeInv

\* ReadTry keeps WakeInv.
LEMMA ReadTryInv ==
    ASSUME WakeInv, ReadTry
    PROVE  WakeInv'
<1> USE DEF header, writer, whistory, rhistory, writerSide, wblock
<1>1. rwant \in Nat /\ rwant > 0 /\ TryReadCall(rwant) /\ rcall' = "trying"
  BY DEF WakeInv, BlockingTypeOK, ReaderCallState, ReadTry
<1>2. RingInv'
  BY <1>1, TryReadCallInv DEF WakeInv
<1>3. BlockingTypeOK'
  BY DEF WakeInv, BlockingTypeOK, Calls, ReadTry
<1>4. rpc' \in {"loadTail", "copy"}
  BY <1>1 DEF TryReadCall, RGrant
<1>5. ReaderCallState'
  BY <1>1, <1>4 DEF ReaderCallState, ReadTry
<1>6. ReaderWaitsOnEmpty'
  BY <1>1, <1>4 DEF ReaderWaitsOnEmpty
<1>7. WriterCallState'
  BY DEF WakeInv, WriterCallState, ReadTry, TryReadCall
<1>8. WriterWaitsOnFull'
  <2>1. rpc # "wake" /\ wpos' = wpos /\ chpos' = chpos /\ hpos' = hpos
    BY DEF ReadTry, TryReadCall
  <2> QED
    BY <2>1 DEF WakeInv, WriterWaitsOnFull, ReadTry, TryReadCall
<1> QED
  BY <1>2, <1>3, <1>5, <1>6, <1>7, <1>8 DEF WakeInv

\* InnerLoadTail keeps WakeInv.
LEMMA InnerLoadTailInv ==
    ASSUME WakeInv, rcall = "trying", TryReadLoadTail, UNCHANGED <<wblock, rblock>>
    PROVE  WakeInv'
<1> USE DEF header, writer, whistory, rhistory, writerSide, wblock, rblock
<1>1. RingInv'
  BY TryReadLoadTailInv DEF WakeInv
<1>2. BlockingTypeOK'
  BY DEF WakeInv, BlockingTypeOK
<1>3. /\ Avail(tail) = ppos - rpos /\ rpos <= ppos
      /\ ppos \in Nat /\ rpos \in Nat
  BY AvailTail DEF WakeInv
<1>4. \/ rpc' = "loadClosed" /\ rpos = ppos
      \/ rpc' = "copy"
  BY <1>3 DEF TryReadLoadTail, RGrant
<1>5. ReaderCallState'
  BY <1>4 DEF WakeInv, ReaderCallState
<1>6. ReaderWaitsOnEmpty'
  <2>1. rpos' = rpos /\ ctpos' = ppos /\ rcall' = "trying"
    BY DEF TryReadLoadTail
  <2> QED
    BY <1>4, <2>1 DEF ReaderWaitsOnEmpty
<1>7. WriterCallState'
  BY DEF WakeInv, WriterCallState, TryReadLoadTail
<1>8. WriterWaitsOnFull'
  <2>1. rpc # "wake" /\ wpos' = wpos /\ chpos' = chpos /\ hpos' = hpos
    BY DEF TryReadLoadTail
  <2> QED
    BY <2>1 DEF WakeInv, WriterWaitsOnFull, TryReadLoadTail
<1> QED
  BY <1>1, <1>2, <1>5, <1>6, <1>7, <1>8 DEF WakeInv

\* InnerLoadClosed keeps WakeInv.
LEMMA InnerLoadClosedInv ==
    ASSUME WakeInv, rcall = "trying", TryReadLoadClosed, UNCHANGED <<wblock, rblock>>
    PROVE  WakeInv'
<1> USE DEF header, writer, whistory, rhistory, writerSide, wblock, rblock
<1>1. RingInv'
  BY TryReadLoadClosedInv DEF WakeInv
<1>2. BlockingTypeOK'
  BY DEF WakeInv, BlockingTypeOK
<1>3. /\ rpc = "loadClosed" /\ rpc' = "idle" /\ rcall' = "trying"
      /\ ctpos = rpos /\ ctpos' = ctpos /\ rpos' = rpos
  BY DEF WakeInv, ReaderWaitsOnEmpty, TryReadLoadClosed, RReturn
<1>4. ReaderCallState' /\ ReaderWaitsOnEmpty'
  BY <1>3 DEF WakeInv, ReaderCallState, ReaderWaitsOnEmpty
<1>5. WriterCallState'
  BY DEF WakeInv, WriterCallState, TryReadLoadClosed
<1>6. WriterWaitsOnFull'
  BY <1>3 DEF WakeInv, WriterWaitsOnFull, TryReadLoadClosed
<1> QED
  BY <1>1, <1>2, <1>4, <1>5, <1>6 DEF WakeInv

\* InnerReadCopy keeps WakeInv.
LEMMA InnerReadCopyInv ==
    ASSUME WakeInv, rcall = "trying", TryReadCopy, UNCHANGED <<wblock, rblock>>
    PROVE  WakeInv'
<1> USE DEF header, writer, whistory, rhistory, writerSide, wblock, rblock
<1>1. RingInv'
  BY TryReadCopyInv DEF WakeInv
<1>2. BlockingTypeOK'
  BY DEF WakeInv, BlockingTypeOK
<1>3. rpc = "copy" /\ rpc' \in {"copy", "storeHead"} /\ rcall' = "trying"
  BY DEF TryReadCopy
<1>4. ReaderCallState' /\ ReaderWaitsOnEmpty'
  BY <1>3 DEF WakeInv, ReaderCallState, ReaderWaitsOnEmpty
<1>5. WriterCallState'
  BY DEF WakeInv, WriterCallState, TryReadCopy
<1>6. WriterWaitsOnFull'
  BY <1>3 DEF WakeInv, WriterWaitsOnFull, TryReadCopy
<1> QED
  BY <1>1, <1>2, <1>4, <1>5, <1>6 DEF WakeInv

\* InnerStoreHead keeps WakeInv.
LEMMA InnerStoreHeadInv ==
    ASSUME WakeInv, rcall = "trying", TryReadStoreHead, UNCHANGED <<wblock, rblock>>
    PROVE  WakeInv'
<1> USE DEF header, writer, whistory, rhistory, writerSide, wblock, rblock
<1>1. RingInv'
  BY TryReadStoreHeadInv DEF WakeInv
<1>2. BlockingTypeOK'
  BY DEF WakeInv, BlockingTypeOK
<1>3. /\ rpc' = "wake" /\ rcall' = "trying" /\ rn \in Nat /\ rn > 0
      /\ rret' = [n |-> rn, err |-> "nil", bytes |-> rbuf]
  BY DEF WakeInv, RingInv, TypeOK, ReaderCallSound, TryReadStoreHead
<1>4. ReaderCallState' /\ ReaderWaitsOnEmpty'
  BY <1>3 DEF WakeInv, ReaderCallState, ReaderWaitsOnEmpty
<1>5. WriterCallState'
  BY DEF WakeInv, WriterCallState, TryReadStoreHead
<1>6. WriterWaitsOnFull'
  BY <1>3 DEF WakeInv, WriterWaitsOnFull, TryReadStoreHead
<1> QED
  BY <1>1, <1>2, <1>4, <1>5, <1>6 DEF WakeInv

\* InnerReaderError keeps WakeInv.
LEMMA InnerReaderErrorInv ==
    ASSUME WakeInv, rcall = "trying", ReaderStorageError, UNCHANGED <<wblock, rblock>>
    PROVE  WakeInv'
<1> USE DEF header, writer, whistory, rhistory, writerSide, wblock, rblock
<1>1. RingInv'
  BY ReaderStorageErrorInv DEF WakeInv
<1>2. BlockingTypeOK'
  BY DEF WakeInv, BlockingTypeOK
<1>3. /\ rpc # "wake" /\ rpc' = "idle" /\ rcall' = "trying"
      /\ rret' = [n |-> 0, err |-> "ErrStorage", bytes |-> <<>>]
  BY DEF ReaderStorageError, RReturn
<1>4. ReaderCallState' /\ ReaderWaitsOnEmpty'
  BY <1>3 DEF WakeInv, ReaderCallState, ReaderWaitsOnEmpty
<1>5. WriterCallState'
  BY DEF WakeInv, WriterCallState, ReaderStorageError
<1>6. WriterWaitsOnFull'
  BY <1>3 DEF WakeInv, WriterWaitsOnFull, ReaderStorageError
<1> QED
  BY <1>1, <1>2, <1>4, <1>5, <1>6 DEF WakeInv

\* The Wake after a head store: a parked Writer goes on.
LEMMA ReaderInnerWakeInv ==
    ASSUME WakeInv, ReaderInnerWake
    PROVE  WakeInv'
<1> USE DEF header, writer, whistory, rhistory, writerSide, rblock
<1>1. RingInv'
  BY ReaderWakeInv DEF WakeInv, ReaderInnerWake
<1>2. BlockingTypeOK'
  BY DEF WakeInv, BlockingTypeOK, Calls, ReaderInnerWake, Woken
<1>3. rpc = "wake" /\ rpc' = "idle" /\ rret' = rret /\ rret.n \in Nat
  BY DEF WakeInv, RingInv, TypeOK, ReaderInnerWake, ReaderWake
<1>4. ReaderCallState'
  BY <1>3 DEF WakeInv, ReaderCallState, ReaderInnerWake
<1>5. ReaderWaitsOnEmpty'
  BY <1>3 DEF WakeInv, ReaderCallState, ReaderWaitsOnEmpty, ReaderInnerWake, ReaderWake
<1>6. WriterCallState'
  BY DEF WakeInv, WriterCallState, ReaderInnerWake, ReaderWake, Woken
<1>7. WriterWaitsOnFull'
  BY DEF WakeInv, WriterWaitsOnFull, ReaderInnerWake, ReaderWake, Woken
<1> QED
  BY <1>1, <1>2, <1>4, <1>5, <1>6, <1>7 DEF WakeInv

-----------------------------------------------------------------------------
(* Theorems                                                                *)

\* Every step keeps the invariant.
LEMMA BNextInv == WakeInv /\ [BNext]_bvars => WakeInv'
<1> SUFFICES ASSUME WakeInv, [BNext]_bvars PROVE WakeInv'
  OBVIOUS
<1>1. CASE WriterSteps
  <2>1. CASE WriterInner
    BY <2>1, InnerLoadHeadInv, InnerCopyInv, InnerStoreTailInv, InnerNudgeInv,
       InnerWriterErrorInv
    DEF WriterInner
  <2>2. CASE WriteTry \/ WriterInnerWake \/ WriteTryReturned \/ WriteWait
    BY <2>2, WriteTryInv, WriterInnerWakeInv, WriteTryReturnedInv, WriteWaitInv
  <2>3. CASE WriteTimer \/ WriteSleepDone \/ CloseReturned
    BY <2>3, WriteTimerInv, WriteSleepDoneInv, CloseReturnedInv
  <2> QED
    BY <1>1, <2>1, <2>2, <2>3 DEF WriterSteps
<1>2. CASE ReaderSteps
  <2>1. CASE ReaderInner
    BY <2>1, InnerLoadTailInv, InnerLoadClosedInv, InnerReadCopyInv,
       InnerStoreHeadInv, InnerReaderErrorInv
    DEF ReaderInner
  <2>2. CASE ReadTry \/ ReaderInnerWake \/ ReadTryReturned \/ ReadWait
    BY <2>2, ReadTryInv, ReaderInnerWakeInv, ReadTryReturnedInv, ReadWaitInv
  <2>3. CASE ReadTimer \/ ReadSleepDone
    BY <2>3, ReadTimerInv, ReadSleepDoneInv
  <2> QED
    BY <1>2, <2>1, <2>2, <2>3 DEF ReaderSteps
<1>3. CASE \E len \in Lens, ctx \in Contexts : WriteCall(len, ctx) \/ ReadCall(len, ctx)
  BY <1>3, ParamAssumption, WriteCallInv, ReadCallInv
<1>4. CASE CloseCall \/ WriteSpurious \/ ReadSpurious \/ Cancel
  BY <1>4, CloseCallInv, WriteTimerInv, ReadTimerInv, CancelInv
<1>5. CASE UNCHANGED bvars
  <2> USE <1>5 DEF bvars, vars, header, writer, reader, whistory, rhistory,
                   wblock, rblock
  <2>1. RingInv'
    BY RingStutter DEF WakeInv
  <2>2. BlockingTypeOK'
    BY DEF WakeInv, BlockingTypeOK
  <2>3. WriterCallState' /\ ReaderCallState'
    BY DEF WakeInv, WriterCallState, ReaderCallState
  <2>4. WriterWaitsOnFull' /\ ReaderWaitsOnEmpty'
    BY DEF WakeInv, WriterWaitsOnFull, ReaderWaitsOnEmpty
  <2> QED
    BY <2>1, <2>2, <2>3, <2>4 DEF WakeInv
<1> QED
  BY <1>1, <1>2, <1>3, <1>4, <1>5 DEF BNext

\* WakeInv holds in every reachable state of the blocking calls.
THEOREM WakeInvariant == BSafety => []WakeInv
  BY BInitInv, BNextInv, PTL DEF BSafety

\* The state of WriteContext's and ReadContext's loops keeps its types; in
\* particular the loop never counts more bytes as written than p has.
THEOREM BlockingTypeCorrect == BSafety => []BlockingTypeOK
<1>1. WakeInv => BlockingTypeOK
  BY DEF WakeInv
<1> QED
  BY <1>1, WakeInvariant, PTL

\* No wakeup is lost: whoever sleeps although it could go on is about to be
\* woken.
THEOREM NoLostWakeupHolds == BSafety => []NoLostWakeup
<1>1. WakeInv => NoLostWakeup
  <2> SUFFICES ASSUME WakeInv PROVE NoLostWakeup
    OBVIOUS
  <2>1. /\ wpos \in Nat /\ hpos \in Nat /\ chpos \in Nat /\ Cap \in Nat
        /\ rpos \in Nat /\ ppos \in Nat
    BY CapFacts DEF WakeInv, RingInv, TypeOK
  <2>2. rcall = "parked" /\ rpos < ppos => wpc = "wake"
    BY <2>1 DEF WakeInv, ReaderWaitsOnEmpty
  <2>3. wcall = "parked" /\ wpos - hpos < Cap => rpc = "wake"
    BY <2>1 DEF WakeInv, WriterWaitsOnFull
  <2> QED
    BY <2>2, <2>3 DEF NoLostWakeup
<1> QED
  BY <1>1, WakeInvariant, PTL

-----------------------------------------------------------------------------
(* The count WriteContext returns.                                         *)

(***************************************************************************)
(* The inductive invariant behind WriteCountTrue: at every point of the    *)
(* loop the Writer's position, the end of p and what is left of p agree,   *)
(* but for the bytes of a TryWrite that has advanced the tail and not yet  *)
(* been accounted for.                                                     *)
(***************************************************************************)
CountInv ==
    /\ wcall = "closing" => wpc \in {"idle", "nudge", "wake"}
    /\ wcall \notin {"none", "closing"} => wres = "nil"
    /\ wcall \in {"none", "closing"} /\ wres # "ErrStorage"
          => wpos = wgoal - wleft /\ (wres = "nil" => wleft = 0)
    /\ wcall \in {"try", "wait", "parked", "sleep"} => wpos = wgoal - wleft
    /\ wcall = "trying" /\ wpc \in {"loadHead", "copy", "storeTail"}
          => wpos = wgoal - wleft
    /\ wcall = "trying" /\ wpc = "wake" => wret.err = "nil"
    /\ wcall = "trying" /\ wpc \in {"idle", "wake"} /\ wret.err # "ErrStorage"
          => wpos = wgoal - wleft + wret.n

\* Before any call nothing is counted.
LEMMA BInitCount == BInit => CountInv
  BY DEF BInit, Init, CountInv

\* The types the counting argument needs.
LEMMA CountTypes ==
    ASSUME WakeInv
    PROVE  /\ wpos \in Nat /\ wleft \in Nat /\ wgoal \in Nat /\ wn \in Nat
           /\ wret.n \in Nat /\ wpc \in WriterPC /\ wcall \in Calls
  BY DEF WakeInv, RingInv, TypeOK, BlockingTypeOK

\* The steps of the loop itself.
LEMMA LoopCount ==
    ASSUME WakeInv, CountInv,
           \/ \E len \in Lens, ctx \in Contexts : WriteCall(len, ctx)
           \/ WriteTryReturned \/ WriteWait \/ WriteTimer \/ WriteSpurious
           \/ WriteSleepDone \/ CloseReturned \/ Cancel
    PROVE  CountInv'
<1> USE CountTypes DEF vars, writer, whistory, wblock, CountInv
<1>1. ASSUME NEW len \in Lens, NEW ctx \in Contexts, WriteCall(len, ctx)
      PROVE  CountInv'
  BY <1>1, ParamAssumption DEF WriteCall
<1>2. CASE WriteTryReturned
  BY <1>2 DEF WriteTryReturned, WakeInv, WriterCallState
<1>3. CASE WriteWait \/ WriteTimer \/ WriteSpurious \/ WriteSleepDone
  BY <1>3 DEF WriteWait, WriteTimer, WriteSpurious, WriteSleepDone
<1>4. CASE CloseReturned \/ Cancel
  BY <1>4 DEF CloseReturned, Cancel
<1> QED
  BY <1>1, <1>2, <1>3, <1>4

\* The steps of TryWrite and of Close.
LEMMA InnerCount ==
    ASSUME WakeInv, CountInv,
           WriteTry \/ WriterInner \/ WriterInnerWake \/ CloseCall
    PROVE  CountInv'
<1> USE CountTypes DEF WReturn, WGrant, wblock, whistory, CountInv
<1>1. CASE WriteTry
  BY <1>1 DEF WriteTry, TryWriteCall
<1>2. CASE WriterInner /\ TryWriteLoadHead
  BY <1>2 DEF WriterInner, TryWriteLoadHead
<1>3. CASE WriterInner /\ TryWriteCopy
  BY <1>3 DEF WriterInner, TryWriteCopy
<1>4. CASE WriterInner /\ TryWriteStoreTail
  BY <1>4 DEF WriterInner, TryWriteStoreTail
<1>5. CASE WriterInner /\ CloseNudge
  BY <1>5 DEF WriterInner, CloseNudge, WakeInv, WriterCallState
<1>6. CASE WriterInner /\ wpc # "idle" /\ WriterStorageError
  BY <1>6 DEF WriterInner, WriterStorageError
<1>7. CASE WriterInnerWake
  BY <1>7 DEF WriterInnerWake, WriterWake
<1>8. CASE CloseCall
  BY <1>8 DEF CloseCall, CloseStoreClosed, WriterStorageError
<1> QED
  BY <1>1, <1>2, <1>3, <1>4, <1>5, <1>6, <1>7, <1>8 DEF WriterInner

\* The Reader can wake the Writer and touches nothing else of the count.
LEMMA ReaderCount ==
    ASSUME WakeInv, CountInv,
           \/ \E len \in Lens, ctx \in Contexts : ReadCall(len, ctx)
           \/ ReaderSteps \/ ReadSpurious
    PROVE  CountInv'
<1>1. wcall' = wcall \/ (wcall = "parked" /\ wcall' = "try")
  BY DEF ReadCall, ReaderSteps, ReadTry, ReaderInner, ReaderInnerWake,
     ReadTryReturned, ReadWait, ReadTimer, ReadSleepDone, ReadSpurious, Woken,
     wblock
<1>2. UNCHANGED <<wleft, wres, wgoal, wpc, wret, wpos>>
  BY DEF ReadCall, ReaderSteps, ReadTry, ReaderInner, ReaderInnerWake,
     ReadTryReturned, ReadWait, ReadTimer, ReadSleepDone, ReadSpurious, wblock,
     vars, writerSide, writer, whistory, TryReadCall, TryReadLoadTail,
     TryReadLoadClosed, TryReadCopy, TryReadStoreHead, ReaderWake,
     ReaderStorageError
<1> QED
  BY <1>1, <1>2 DEF CountInv

\* Every step of the blocking calls is a step of the ring or leaves it alone.
LEMMA BNextIsAnyStep == WakeInv /\ [BNext]_bvars => [AnyStep]_vars
<1> SUFFICES ASSUME WakeInv, [BNext]_bvars PROVE [AnyStep]_vars
  OBVIOUS
<1>1. wleft \in Nat /\ rwant \in Nat
  BY DEF WakeInv, BlockingTypeOK
<1>2. CASE WriteTry \/ WriterInner \/ WriterInnerWake \/ CloseCall
  BY <1>1, <1>2 DEF WriteTry, WriterInner, WriterInnerWake, CloseCall, AnyStep,
     AnyWriterStep
<1>3. CASE ReadTry \/ ReaderInner \/ ReaderInnerWake
  BY <1>1, <1>3 DEF ReadTry, ReaderInner, ReaderInnerWake, AnyStep,
     AnyReaderStep
<1>4. CASE UNCHANGED vars
  BY <1>4
<1> QED
  BY <1>2, <1>3, <1>4 DEF BNext, WriterSteps, ReaderSteps, WriteCall, ReadCall,
     WriteTryReturned, WriteWait, WriteTimer, WriteSpurious, WriteSleepDone,
     CloseReturned, ReadTryReturned, ReadWait, ReadTimer, ReadSpurious,
     ReadSleepDone, Cancel, bvars

\* The invariants of the blocking calls together.
BlockingInv == WakeInv /\ CountInv /\ PublishInv

\* BlockingInv holds in every reachable state.
LEMMA BlockingInvariant == BSafety => []BlockingInv
<1>1. BInit => BlockingInv
  BY BInitInv, BInitCount, InitPublish DEF BlockingInv, BInit
<1>2. BlockingInv /\ [BNext]_bvars => BlockingInv'
  <2> SUFFICES ASSUME WakeInv, CountInv, PublishInv, [BNext]_bvars
               PROVE  BlockingInv'
    BY DEF BlockingInv
  <2>1. WakeInv'
    BY BNextInv
  <2>2. PublishInv'
    BY BNextIsAnyStep, StepPublish DEF WakeInv
  <2>3. CASE UNCHANGED bvars
    BY <2>1, <2>2, <2>3
    DEF BlockingInv, CountInv, bvars, vars, writer, whistory, wblock
  <2> QED
    BY <2>1, <2>2, <2>3, LoopCount, InnerCount, ReaderCount
    DEF BlockingInv, BNext, WriterSteps
<1> QED
  BY <1>1, <1>2, PTL DEF BSafety

\* Between calls the count WriteContext returned is what it placed in the
\* stream, whatever was interleaved, timed out, cancelled or closed.
THEOREM WriteCountTrueHolds == BSafety => []WriteCountTrue
<1>1. BlockingInv => WriteCountTrue
  BY DEF BlockingInv, CountInv, PublishInv, WriteCountTrue
<1> QED
  BY <1>1, BlockingInvariant, PTL

\* The ring under the blocking calls, whose retry loop calls TryWrite with
\* any remainder of p, implements the bounded stream as well.
THEOREM BlockingRefinesStream == BSafety => RefinesStream
<1>1. BlockingInv => StreamInv
  BY DEF BlockingInv, WakeInv, StreamInv
<1>2. BlockingInv /\ BlockingInv' /\ [BNext]_bvars
        => [Stream!Next]_Stream!streamVars
  <2>1. BlockingInv' => StreamInv'
    BY <1>1, PTL
  <2> QED
    BY <1>1, <2>1, BNextIsAnyStep, StepRefines DEF BlockingInv
<1>3. BInit => Stream!Init
  BY InitRefines DEF BInit
<1> QED
  BY <1>2, <1>3, BlockingInvariant, PTL DEF BSafety, RefinesStream, Stream!Spec
=============================================================================
