--------------------------- MODULE WasmRingProofs ---------------------------
(***************************************************************************)
(* Proofs about WasmRing: no notify is lost and no byte is counted twice   *)
(* or not at all, for every capacity, every counter modulus and any number *)
(* of overlapping writes and reads of the two handles.                     *)
(***************************************************************************)
EXTENDS WasmRing, RingRefinementProofs, FiniteSetTheorems

\* The small helpers of the tasks are expanded in every proof of this module.
USE DEF LoadHead, LoadTail, LoadClosed, Notified, AfterNone, TimesOut, Progress

-----------------------------------------------------------------------------
(* The inductive invariant                                                 *)

\* A task inside try_write or try_read.
Trying == {"trying", "once"}

\* The types of the tasks' variables.
WasmTypeOK ==
    /\ wtask \in [Writes -> TaskStates]
    /\ size \in [Writes -> Nat] /\ left \in [Writes -> Nat]
    /\ rtask \in [Reads -> TaskStates]
    /\ want \in [Reads -> Nat] /\ rgone \in BOOLEAN

\* The Writer's thread runs one task at a time.
OneWriteRuns ==
    /\ \A t, u \in Writes : wtask[t] \in Running /\ wtask[u] \in Running => t = u
    /\ \A t \in Writes : wtask[t] = "run" => wpc = "idle"
    /\ wpc \in {"loadHead", "copy", "storeTail"}
          => \E t \in Writes : wtask[t] \in Trying

\* What a write in try_write passes and gets stays within its remainder, and
\* a (0, nil) that it gets is the answer of a full ring, not of a Close.
WriteInCall ==
    \A t \in Writes : wtask[t] \in Trying =>
        /\ wpc # "nudge"
        /\ wpc = "wake" => wret.n > 0
        /\ wpc = "loadHead" => wlen = left[t]
        /\ wpc \in {"copy", "storeTail"} => wn <= left[t]
        /\ wpc \in {"wake", "idle"} => wret.n <= left[t]
        /\ wtask[t] = "trying" /\ wpc = "idle" /\ wret.n = 0 /\ wret.err = "nil"
              => wpos = chpos + Cap

\* written never passes data.len().
Remainders ==
    \A t \in Writes : /\ left[t] <= size[t]
                      /\ wtask[t] = "none" => left[t] = 0 /\ size[t] = 0

\* A read in try_read that gets no byte and no EOF has seen an empty ring.
ReadInCall ==
    /\ \A t \in Reads : rtask[t] # "none" => want[t] > 0
    /\ rpc = "loadClosed" => ctpos = rpos
    /\ rpc = "wake" => rret.n > 0
    /\ \A t \in Reads :
          rtask[t] = "trying" /\ rpc = "idle" /\ rret.n = 0 => ctpos = rpos

\* The two halves of NoLostNotify, per task.
ReadsNotified ==
    \A t \in Reads : rtask[t] = "wait" /\ rpos < ppos => wpc = "wake"
WritesNotified ==
    \A t \in Writes : wtask[t] = "wait" /\ wpos - hpos < Cap => rpc = "wake"

WasmInv ==
    /\ RingInv /\ PublishInv /\ ppos = wpos
    /\ WasmTypeOK
    /\ OneWriteRuns /\ WriteInCall /\ Remainders
    /\ ReadInCall
    /\ ReadsNotified /\ WritesNotified

\* What the writes and their results are made of.
writeState == <<wtask, size, left, wpc, wlen, wn, wret, wpos, chpos>>
readState  == <<rtask, want, rpc, rret, rpos, ctpos>>
WriteInv == OneWriteRuns /\ WriteInCall /\ Remainders

\* Steps that touch nothing of the writes keep WriteInv.
LEMMA WriteFrame == WriteInv /\ UNCHANGED writeState => WriteInv'
  BY DEF WriteInv, OneWriteRuns, WriteInCall, Remainders, writeState

\* Steps that touch nothing of the reads keep ReadInCall.
LEMMA ReadFrame == ReadInCall /\ UNCHANGED readState => ReadInCall'
  BY DEF ReadInCall, readState

\* The initial states satisfy WasmInv.
LEMMA WasmInitInv == WasmInit => WasmInv
<1> SUFFICES ASSUME WasmInit PROVE WasmInv
  OBVIOUS
<1>1. RingInv /\ PublishInv /\ ppos = wpos
  BY InitInv, InitPublish DEF WasmInit, Init
<1>2. WasmTypeOK
  BY DEF WasmInit, WasmTypeOK, TaskStates
<1>3. OneWriteRuns /\ WriteInCall /\ Remainders
  BY DEF WasmInit, Init, OneWriteRuns, WriteInCall, Remainders, Running, Trying
<1>4. ReadInCall /\ ReadsNotified /\ WritesNotified
  BY DEF WasmInit, Init, ReadInCall, ReadsNotified, WritesNotified
<1> QED
  BY <1>1, <1>2, <1>3, <1>4 DEF WasmInv

-----------------------------------------------------------------------------
(* Every step is a step of the ring or leaves it alone.                    *)

\* The ring's own variables under WasmInv.
LEMMA RingFacts ==
    ASSUME WasmInv
    PROVE  /\ hpos \in Nat /\ rpos \in Nat /\ ppos \in Nat /\ wpos \in Nat
           /\ chpos \in Nat /\ ctpos \in Nat /\ Cap \in Nat \ {0}
           /\ chpos <= hpos /\ hpos <= rpos /\ rpos <= ctpos /\ ctpos <= ppos
           /\ ppos = wpos /\ wpos <= chpos + Cap
           /\ wlen \in Nat /\ wn \in Nat /\ wret.n \in Nat /\ rret.n \in Nat
           /\ wpc \in {"copy", "storeTail"} => wn > 0
           /\ rpc \in {"copy", "storeHead"} => rn \in Nat /\ rn > 0 /\ rpos + rn <= ctpos
  BY CapFacts DEF WasmInv, RingInv, TypeOK, Chain, WriterCallSound, ReaderCallSound

\* A step of the tasks is a step of the ring or leaves it alone.
LEMMA WasmIsAnyStep == WasmInv /\ [WasmNext]_wasmVars => [AnyStep]_vars
<1> SUFFICES ASSUME WasmInv, [WasmNext]_wasmVars PROVE [AnyStep]_vars
  OBVIOUS
<1>1. /\ \A t \in Writes : left[t] \in Nat
      /\ \A t \in Reads : want[t] \in Nat
      /\ Lens \subseteq Nat
  BY ParamAssumption DEF WasmInv, WasmTypeOK
<1>2. CASE WriterRuns \/ WasmClose
  BY <1>1, <1>2 DEF WriterRuns, WasmWriterInner, WasmWriterNotify, WriteLoop,
     WriteReturned, WasmClose, AnyStep, AnyWriterStep
<1>3. CASE ReaderRuns
  BY <1>1, <1>3 DEF ReaderRuns, WasmReaderInner, WasmReaderNotify, ReadLoop,
     ReadReturned, AnyStep, AnyReaderStep
<1>4. ASSUME NEW t \in Writes, NEW len \in Lens, TryWriteStart(t, len)
      PROVE  AnyStep
  BY <1>1, <1>4 DEF TryWriteStart, AnyStep, AnyWriterStep
<1>5. ASSUME NEW t \in Reads, NEW len \in Lens, TryReadStart(t, len)
      PROVE  AnyStep
  BY <1>1, <1>5 DEF TryReadStart, AnyStep, AnyReaderStep
<1>6. CASE UNCHANGED vars
  BY <1>6
<1> QED
  BY <1>2, <1>3, <1>4, <1>5, <1>6 DEF WasmNext, WriteStart, WritePoll,
     WriteTimeout, ReadStart, ReadPoll, ReadTimeout, WasmReaderClose, wasmVars

\* The shared state moves on at three places only. No step of WasmNext is a
\* storage error: the memory of a SharedArrayBuffer does not fail.
LEMMA WhatMoves ==
    ASSUME WasmInv, [WasmNext]_wasmVars
    PROVE  /\ \/ UNCHANGED <<wpos, ppos>>
              \/ wpc = "storeTail" /\ wpc' = "wake" /\ wpos' = wpos + wn /\ ppos' = wpos + wn
           /\ hpos' # hpos => rpc' = "wake"
           /\ rpos' = rpos \/ rpos' > rpos
           /\ hpos' = hpos \/ hpos' > hpos
           /\ wpc = "wake" /\ wpc' # "wake" => WasmWriterNotify
           /\ rpc = "wake" /\ rpc' # "wake" => WasmReaderNotify
<1>0. USE RingFacts DEF header, writer, reader, whistory, rhistory, readerSide,
        writerSide, vars, wasmVars
<1>1. CASE WriterRuns \/ WasmClose
  BY <1>1 DEF WriterRuns, WasmWriterInner, WasmWriterNotify, WriteLoop,
     WriteReturned, WasmClose, TryWriteCall, TryWriteLoadHead, TryWriteCopy,
     TryWriteStoreTail, CloseStoreClosed, CloseNudge, WriterWake, WReturn, WGrant
<1>2. CASE ReaderRuns
  BY <1>2 DEF ReaderRuns, WasmReaderInner, WasmReaderNotify, ReadLoop,
     ReadReturned, TryReadCall, TryReadLoadTail, TryReadLoadClosed, TryReadCopy,
     TryReadStoreHead, ReaderWake, RReturn, RGrant
<1>3. ASSUME NEW t \in Writes, NEW len \in Lens, TryWriteStart(t, len)
      PROVE  UNCHANGED <<wpos, ppos, hpos, rpos, rpc>> /\ wpc # "wake"
  BY <1>3 DEF TryWriteStart, TryWriteCall
<1>4. ASSUME NEW t \in Reads, NEW len \in Lens, TryReadStart(t, len)
      PROVE  UNCHANGED <<wpos, ppos, hpos, rpos, wpc>> /\ rpc # "wake"
  BY <1>4 DEF TryReadStart, TryReadCall
<1>5. CASE UNCHANGED vars
  BY <1>5
<1> QED
  BY <1>1, <1>2, <1>3, <1>4, <1>5 DEF WasmNext, WriteStart, WritePoll,
     WriteTimeout, ReadStart, ReadPoll, ReadTimeout, WasmReaderClose

\* What the ring alone gives for the next state.
LEMMA RingPart ==
    ASSUME WasmInv, [WasmNext]_wasmVars
    PROVE  RingInv' /\ PublishInv' /\ ppos' = wpos'
<1>1. RingInv' /\ PublishInv'
  BY WasmIsAnyStep, AnyStepInv, StepPublish DEF WasmInv
<1> QED
  BY <1>1, WhatMoves DEF WasmInv

\* The types of the tasks.
LEMMA WasmTypes ==
    ASSUME WasmInv, [WasmNext]_wasmVars
    PROVE  WasmTypeOK'
<1> USE DEF WasmTypeOK, TaskStates
<1>1. WasmTypeOK /\ Lens \subseteq Nat /\ wret.n \in Nat
  BY RingFacts, ParamAssumption DEF WasmInv
<1>2. ASSUME NEW t \in Writes, NEW len \in Lens,
             WriteStart(t, len) \/ TryWriteStart(t, len)
      PROVE  WasmTypeOK'
  BY <1>1, <1>2 DEF WriteStart, TryWriteStart, wasmR
<1>3. ASSUME NEW t \in Writes, WritePoll(t) \/ WriteTimeout(t) \/ WriteLoop(t)
      PROVE  WasmTypeOK'
  BY <1>1, <1>3 DEF WritePoll, WriteTimeout, WriteLoop, wasmR
<1>4. ASSUME NEW t \in Writes, WriteReturned(t) PROVE WasmTypeOK'
  <2>1. left[t] - wret.n \in Nat
    BY <1>1, <1>4 DEF WasmInv, WriteInCall, WriteReturned, Trying
  <2> QED
    BY <1>1, <1>4, <2>1 DEF WriteReturned, wasmR
<1>5. ASSUME NEW t \in Reads, NEW len \in Lens \ {0},
             ReadStart(t, len) \/ TryReadStart(t, len)
      PROVE  WasmTypeOK'
  BY <1>1, <1>5 DEF ReadStart, TryReadStart, wasmW
<1>6. ASSUME NEW t \in Reads,
             ReadPoll(t) \/ ReadTimeout(t) \/ ReadLoop(t) \/ ReadReturned(t)
      PROVE  WasmTypeOK'
  BY <1>1, <1>6 DEF ReadPoll, ReadTimeout, ReadLoop, ReadReturned, wasmW
<1>7. CASE WasmWriterNotify \/ WasmReaderNotify
  BY <1>1, <1>7 DEF WasmWriterNotify, WasmReaderNotify, wasmW, wasmR
<1>8. CASE WasmClose \/ WasmWriterInner \/ WasmReaderClose \/ WasmReaderInner
           \/ UNCHANGED wasmVars
  BY <1>1, <1>8 DEF WasmClose, WasmWriterInner, WasmReaderClose, WasmReaderInner,
     wasmW, wasmR, wasmVars
<1> QED
  BY <1>2, <1>3, <1>4, <1>5, <1>6, <1>7, <1>8 DEF WasmNext, WriterRuns, ReaderRuns

-----------------------------------------------------------------------------
(* The writes: one lemma per action.                                       *)

\* The start of a write keeps WriteInv.
LEMMA WriteStartInv ==
    ASSUME WasmInv, NEW t \in Writes, NEW len \in Nat, WriteStart(t, len)
    PROVE  WriteInv'
  BY DEF WasmInv, WasmTypeOK, WriteInv, OneWriteRuns, WriteInCall, Remainders,
     WriteStart, WriterIdle, Running, Trying, vars, writer, whistory

\* A poll and the end of a wait keep WriteInv.
LEMMA WritePollInv ==
    ASSUME WasmInv, NEW t \in Writes, WritePoll(t) \/ WriteTimeout(t)
    PROVE  WriteInv'
  BY DEF WasmInv, WasmTypeOK, WriteInv, OneWriteRuns, WriteInCall, Remainders,
     WritePoll, WriteTimeout, WriterIdle, Running, Trying, vars, writer, whistory

\* What TryWriteCall leaves behind.
LEMMA CallFacts ==
    ASSUME WasmInv, NEW len \in Nat, TryWriteCall(len)
    PROVE  /\ wpc = "idle"
           /\ \/ wpc' = "idle" /\ wret' = [n |-> 0, err |-> "ErrClosed"]
              \/ wpc' = "idle" /\ wret' = [n |-> 0, err |-> "nil"] /\ len = 0
              \/ wpc' = "loadHead" /\ wlen' = len
              \/ wpc' = "copy" /\ wn' <= len
           /\ UNCHANGED <<wpos, chpos>>
<1>1. Free(cachedHead) \in Int
  BY CapFacts DEF WasmInv, RingInv, TypeOK, Words, Free, Sub
<1> QED
  BY <1>1 DEF TryWriteCall, WReturn, WGrant, Smaller, whistory

\* The head of the loop keeps WriteInv.
LEMMA WriteLoopInv ==
    ASSUME WasmInv, NEW t \in Writes, WriteLoop(t)
    PROVE  WriteInv'
<1> USE DEF WasmInv, WasmTypeOK, WriteInv, OneWriteRuns, WriteInCall, Remainders,
        Running, Trying
<1>1. CASE left[t] = 0
  BY <1>1 DEF WriteLoop, vars, writer, whistory
<1>2. CASE left[t] > 0 /\ TryWriteCall(left[t]) /\ wtask' = [wtask EXCEPT ![t] = "trying"]
  <2>1. PICK n \in Nat : n = left[t]
    OBVIOUS
  <2>2. /\ wpc = "idle"
        /\ \/ wpc' = "idle" /\ wret' = [n |-> 0, err |-> "ErrClosed"]
           \/ wpc' = "loadHead" /\ wlen' = n
           \/ wpc' = "copy" /\ wn' <= n
        /\ UNCHANGED <<wpos, chpos>>
    <3>1. TryWriteCall(n) /\ n # 0
      BY <1>2, <2>1
    <3> QED
      BY <3>1, CallFacts
  <2>3. UNCHANGED <<size, left>> /\ wtask[t] = "run"
    BY DEF WriteLoop
  <2>4. \A u \in Writes : wtask'[u] \in Running => u = t
    BY <1>2, <2>3
  <2>5. wtask'[t] = "trying" /\ left'[t] = n
    BY <1>2, <2>1, <2>3
  <2>6. OneWriteRuns'
    BY <2>2, <2>4, <2>5
  <2>7. WriteInCall'
    BY <2>1, <2>2, <2>4, <2>5
  <2>8. Remainders'
    BY <1>2, <2>3
  <2> QED
    BY <2>6, <2>7, <2>8
<1> QED
  BY <1>1, <1>2 DEF WriteLoop

\* tryWrite keeps WriteInv.
LEMMA TryWriteStartInv ==
    ASSUME WasmInv, NEW t \in Writes, NEW len \in Nat, TryWriteStart(t, len)
    PROVE  WriteInv'
<1> USE DEF WasmInv, WasmTypeOK, WriteInv, OneWriteRuns, WriteInCall, Remainders,
        Running, Trying
<1>1. /\ wpc = "idle"
      /\ \/ wpc' = "idle" /\ wret'.n = 0
         \/ wpc' = "loadHead" /\ wlen' = len
         \/ wpc' = "copy" /\ wn' <= len
  BY CallFacts DEF TryWriteStart
<1>2. \A u \in Writes : wtask'[u] \in Running => u = t
  BY DEF TryWriteStart, WriterIdle
<1>3. wtask'[t] = "once" /\ left'[t] = len /\ size'[t] = len
  BY DEF TryWriteStart
<1>4. OneWriteRuns'
  BY <1>1, <1>2, <1>3
<1>5. WriteInCall'
  BY <1>1, <1>2, <1>3
<1>6. Remainders'
  BY DEF TryWriteStart
<1> QED
  BY <1>4, <1>5, <1>6

\* The return from try_write keeps WriteInv.
LEMMA WriteReturnedInv ==
    ASSUME WasmInv, NEW t \in Writes, WriteReturned(t)
    PROVE  WriteInv'
<1> USE DEF WasmInv, WasmTypeOK, Running, Trying
<1>1. /\ wret.n \in Nat /\ wret.n <= left[t] /\ wtask[t] \in Trying
      /\ left[t] \in Nat /\ size[t] \in Nat /\ left[t] <= size[t]
  BY RingFacts DEF WriteReturned, WriteInCall, Remainders
<1>2. UNCHANGED <<wpc, wlen, wn, wret, wpos, chpos, size>> /\ wpc = "idle"
  BY DEF WriteReturned, vars, writer, whistory
<1>3. /\ left' = [left EXCEPT ![t] = left[t] - wret.n]
      /\ \E s \in {"failed", "done", "run", "wait"} : wtask' = [wtask EXCEPT ![t] = s]
  BY DEF WriteReturned
<1>4. OneWriteRuns'
  BY <1>1, <1>2, <1>3 DEF OneWriteRuns
<1>5. \A u \in Writes : wtask'[u] \notin Trying
  BY <1>1, <1>3 DEF OneWriteRuns
<1>6. WriteInCall'
  BY <1>5 DEF WriteInCall
<1>7. Remainders'
  BY <1>1, <1>2, <1>3 DEF Remainders
<1> QED
  BY <1>4, <1>6, <1>7 DEF WriteInv

\* writer.close() keeps WriteInv: no write is inside try_write when it runs.
LEMMA WasmCloseInv == ASSUME WasmInv, WasmClose PROVE WriteInv'
<1>1. UNCHANGED <<wtask, size, left>> /\ \A t \in Writes : wtask[t] \notin Running
  BY DEF WasmClose, WriterIdle, wasmW
<1>2. wpc' \in {"idle", "nudge"}
  BY DEF WasmClose, CloseStoreClosed, WReturn
<1> QED
  BY <1>1, <1>2 DEF WasmInv, WriteInv, OneWriteRuns, WriteInCall, Remainders,
     Running, Trying

\* A refresh of the cached head keeps WriteInv.
LEMMA WasmLoadHeadInv ==
    ASSUME WasmInv, TryWriteLoadHead, UNCHANGED <<wasmW, wasmR>>
    PROVE  WriteInv'
<1> USE DEF WasmInv, Running, Trying
<1>1. /\ Free(head) = hpos + Cap - wpos /\ wpos <= hpos + Cap
      /\ hpos \in Nat /\ wpos \in Nat /\ Cap \in Nat /\ wlen \in Nat
  BY FreeHead, RingFacts
<1>2. UNCHANGED <<wtask, size, left, wlen, wpos>> /\ wpc = "loadHead" /\ chpos' = hpos
  BY DEF TryWriteLoadHead, wasmW
<1>3. \/ wpc' = "idle" /\ wret'.n = 0 /\ wpos = hpos + Cap
      \/ wpc' = "copy" /\ wn' <= wlen
  BY <1>1 DEF TryWriteLoadHead, WReturn, WGrant, Smaller
<1>4. OneWriteRuns'
  BY <1>2, <1>3 DEF OneWriteRuns
<1>5. WriteInCall'
  BY <1>1, <1>2, <1>3 DEF WriteInCall, WasmTypeOK
<1>6. Remainders'
  BY <1>2 DEF Remainders
<1> QED
  BY <1>4, <1>5, <1>6 DEF WriteInv

\* The copy, the store of tail, Close's second store and the notify keep it.
LEMMA WasmInnerInv ==
    ASSUME WasmInv, UNCHANGED wasmW,
           TryWriteCopy \/ TryWriteStoreTail \/ CloseNudge \/ WriterWake
    PROVE  WriteInv'
<1> USE RingFacts DEF WasmInv, WriteInv, OneWriteRuns, WriteInCall, Remainders,
        Running, Trying, wasmW
<1>1. CASE TryWriteCopy
  BY <1>1 DEF TryWriteCopy, whistory
<1>2. CASE TryWriteStoreTail
  BY <1>2 DEF TryWriteStoreTail
<1>3. CASE CloseNudge
  BY <1>3 DEF CloseNudge
<1>4. CASE WriterWake
  BY <1>4 DEF WriterWake, whistory
<1> QED
  BY <1>1, <1>2, <1>3, <1>4

\* A notify by the Reader queues the waiting writes and runs none.
LEMMA WasmReaderNotifyInv == ASSUME WasmInv, WasmReaderNotify PROVE WriteInv'
  BY DEF WasmInv, WasmTypeOK, WriteInv, OneWriteRuns, WriteInCall, Remainders,
     Running, Trying, WasmReaderNotify, ReaderWake, writerSide, writer, whistory

\* The other steps of the Reader's thread leave the writes alone.
LEMMA ReaderLeavesWrites ==
    ASSUME WasmInv,
           \/ \E t \in Reads, len \in Lens : ReadStart(t, len) \/ TryReadStart(t, len)
           \/ \E t \in Reads : ReadPoll(t) \/ ReadTimeout(t) \/ ReadLoop(t) \/ ReadReturned(t)
           \/ WasmReaderClose \/ WasmReaderInner \/ UNCHANGED wasmVars
    PROVE  WriteInv'
<1>1. UNCHANGED writeState
  BY DEF writeState, ReadStart, TryReadStart, ReadPoll, ReadTimeout, ReadLoop,
     ReadReturned, WasmReaderClose, WasmReaderInner, TryReadCall, TryReadLoadTail,
     TryReadLoadClosed, TryReadCopy, TryReadStoreHead, wasmVars, vars, wasmW,
     writerSide, writer, whistory
<1> QED
  BY <1>1, WriteFrame DEF WasmInv, WriteInv

\* Every step keeps WriteInv.
LEMMA WritePart == ASSUME WasmInv, [WasmNext]_wasmVars PROVE WriteInv'
<1>1. Lens \subseteq Nat
  BY ParamAssumption
<1> QED
  BY <1>1, WriteStartInv, WritePollInv, WriteLoopInv, TryWriteStartInv,
     WriteReturnedInv, WasmCloseInv, WasmLoadHeadInv, WasmInnerInv,
     WasmReaderNotifyInv, ReaderLeavesWrites
  DEF WasmNext, WriterRuns, ReaderRuns, WasmWriterInner, WasmWriterNotify

-----------------------------------------------------------------------------
(* The reads.                                                              *)

\* What TryReadCall leaves behind.
LEMMA ReadCallFacts ==
    ASSUME WasmInv, NEW len \in Nat \ {0}, TryReadCall(len)
    PROVE  rpc' \in {"loadTail", "copy"} /\ UNCHANGED <<rpos, ctpos>>
  BY DEF TryReadCall, RGrant, rhistory

\* The steps of a read's task keep ReadInCall.
LEMMA ReadTaskInv ==
    ASSUME WasmInv, NEW t \in Reads,
           \/ \E len \in Lens \ {0} : ReadStart(t, len) \/ TryReadStart(t, len)
           \/ ReadPoll(t) \/ ReadTimeout(t) \/ ReadLoop(t) \/ ReadReturned(t)
    PROVE  ReadInCall'
<1> USE DEF WasmInv, WasmTypeOK, ReadInCall
<1>1. Lens \subseteq Nat
  BY ParamAssumption
<1>2. ASSUME NEW len \in Lens \ {0}, ReadStart(t, len) PROVE ReadInCall'
  BY <1>1, <1>2 DEF ReadStart, ReaderIdle, Running, vars, reader, rhistory
<1>3. ASSUME NEW len \in Lens \ {0}, TryReadStart(t, len) PROVE ReadInCall'
  <2>1. rpc' \in {"loadTail", "copy"}
    BY <1>1, <1>3, ReadCallFacts DEF TryReadStart
  <2> QED
    BY <1>1, <1>3, <2>1 DEF TryReadStart
<1>4. CASE ReadPoll(t) \/ ReadTimeout(t) \/ ReadReturned(t)
  BY <1>4 DEF ReadPoll, ReadTimeout, ReadReturned, vars, reader, rhistory
<1>5. CASE ReadLoop(t) /\ rgone
  BY <1>5 DEF ReadLoop, vars, reader, rhistory
<1>6. CASE ReadLoop(t) /\ ~rgone
  <2>1. PICK n \in Nat \ {0} : n = want[t]
    BY <1>6 DEF ReadLoop
  <2>2. rpc' \in {"loadTail", "copy"}
    BY <1>6, <2>1, ReadCallFacts DEF ReadLoop
  <2> QED
    BY <1>6, <2>2 DEF ReadLoop
<1> QED
  BY <1>2, <1>3, <1>4, <1>5, <1>6

\* The storage accesses of try_read and its notify keep ReadInCall.
LEMMA ReadInnerInv ==
    ASSUME WasmInv, UNCHANGED wasmR,
           \/ TryReadLoadTail \/ TryReadLoadClosed \/ TryReadCopy
           \/ TryReadStoreHead \/ ReaderWake
    PROVE  ReadInCall'
<1> USE RingFacts DEF WasmInv, ReadInCall, wasmR
<1>1. CASE TryReadLoadTail
  <2>1. Avail(tail) = ppos - rpos /\ rpos <= ppos
    BY AvailTail
  <2> QED
    BY <1>1, <2>1 DEF TryReadLoadTail, RGrant
<1>2. CASE TryReadLoadClosed
  BY <1>2 DEF TryReadLoadClosed, RReturn, rhistory
<1>3. CASE TryReadCopy
  BY <1>3 DEF TryReadCopy, rhistory
<1>4. CASE TryReadStoreHead
  BY <1>4 DEF TryReadStoreHead
<1>5. CASE ReaderWake
  BY <1>5 DEF ReaderWake, rhistory
<1> QED
  BY <1>1, <1>2, <1>3, <1>4, <1>5

\* A notify by the Writer queues the waiting reads and runs none.
LEMMA WasmWriterNotifyInv == ASSUME WasmInv, WasmWriterNotify PROVE ReadInCall'
  BY DEF WasmInv, WasmTypeOK, ReadInCall, WasmWriterNotify, WriterWake, readerSide,
     reader, rhistory

\* Every step keeps ReadInCall.
LEMMA ReadPart == ASSUME WasmInv, [WasmNext]_wasmVars PROVE ReadInCall'
<1>1. ASSUME UNCHANGED readState PROVE ReadInCall'
  BY <1>1, ReadFrame DEF WasmInv
<1>2. CASE \/ \E t \in Writes, len \in Lens : WriteStart(t, len) \/ TryWriteStart(t, len)
           \/ \E t \in Writes : WritePoll(t) \/ WriteTimeout(t) \/ WriteLoop(t) \/ WriteReturned(t)
           \/ WasmClose \/ WasmWriterInner \/ WasmReaderClose \/ UNCHANGED wasmVars
  BY <1>1, <1>2 DEF readState, WriteStart, TryWriteStart, WritePoll, WriteTimeout,
     WriteLoop, WriteReturned, WasmClose, WasmWriterInner, WasmReaderClose,
     TryWriteCall, TryWriteLoadHead, TryWriteCopy, TryWriteStoreTail,
     CloseStoreClosed, CloseNudge, wasmVars, vars, wasmR, readerSide, reader,
     rhistory
<1>3. CASE WasmReaderInner \/ WasmReaderNotify
  BY <1>3, ReadInnerInv DEF WasmReaderInner, WasmReaderNotify
<1> QED
  BY <1>2, <1>3, ReadTaskInv, WasmWriterNotifyInv DEF WasmNext, WriterRuns, ReaderRuns

-----------------------------------------------------------------------------
(* No notify is lost.                                                      *)

\* A read starts to wait only on a ring that is empty as it does, since the
\* compare of waitAsync cannot be fooled by a wrapped counter.
LEMMA ReadStartsToWait ==
    ASSUME WasmInv, [WasmNext]_wasmVars, NEW t \in Reads, rtask'[t] = "wait"
    PROVE  rtask[t] = "wait" \/ (rpos = ppos /\ UNCHANGED <<rpos, ppos>>)
<1> USE DEF WasmInv, WasmTypeOK
<1>1. ASSUME NEW u \in Reads, ReadReturned(u), u = t
      PROVE  rpos = ppos /\ UNCHANGED <<rpos, ppos>>
  <2>1. /\ rret.n = 0 /\ rtask[t] = "trying" /\ rpc = "idle" /\ tail = cachedTail
        /\ UNCHANGED <<rpos, ppos>>
    BY <1>1 DEF ReadReturned, vars, rhistory, whistory
  <2>2. ctpos = rpos
    BY <2>1 DEF ReadInCall
  <2>3. /\ tail = ppos % M /\ cachedTail = ctpos % M
        /\ ppos \in Nat /\ ctpos \in Nat /\ ctpos <= ppos /\ ppos <= ctpos + Cap
    BY RingFacts, CapFacts DEF RingInv, WordsTrue
  <2>4. ppos = ctpos
    BY <2>1, <2>3, EqualWords
  <2> QED
    BY <2>1, <2>2, <2>4
<1>2. ASSUME NEW u \in Reads,
             \/ \E len \in Lens : ReadStart(u, len) \/ TryReadStart(u, len)
             \/ ReadPoll(u) \/ ReadTimeout(u) \/ ReadLoop(u)
             \/ ReadReturned(u) /\ u # t
      PROVE  rtask[t] = "wait"
  BY <1>2 DEF ReadStart, TryReadStart, ReadPoll, ReadTimeout, ReadLoop, ReadReturned
<1>3. CASE WasmWriterNotify
  BY <1>3 DEF WasmWriterNotify
<1>4. CASE UNCHANGED rtask
  BY <1>4
<1> QED
  BY <1>1, <1>2, <1>3, <1>4 DEF WasmNext, WriterRuns, ReaderRuns, WriteStart,
     TryWriteStart, WritePoll, WriteTimeout, WriteLoop, WriteReturned, WasmClose,
     WasmWriterInner, WasmReaderClose, WasmReaderInner, WasmReaderNotify,
     wasmVars, wasmR

\* A write starts to wait only on a ring that is full as it does.
LEMMA WriteStartsToWait ==
    ASSUME WasmInv, [WasmNext]_wasmVars, NEW t \in Writes, wtask'[t] = "wait"
    PROVE  wtask[t] = "wait" \/ (wpos = hpos + Cap /\ UNCHANGED <<wpos, hpos>>)
<1> USE DEF WasmInv, WasmTypeOK
<1>1. ASSUME NEW u \in Writes, WriteReturned(u), u = t
      PROVE  wpos = hpos + Cap /\ UNCHANGED <<wpos, hpos>>
  <2>1. /\ wret.n = 0 /\ wret.err = "nil" /\ wtask[t] = "trying" /\ wpc = "idle"
        /\ head = cachedHead /\ UNCHANGED <<wpos, hpos>>
    BY <1>1 DEF WriteReturned, vars, rhistory, whistory
  <2>2. wpos = chpos + Cap
    BY <2>1 DEF WriteInCall, Trying
  <2>3. /\ head = hpos % M /\ cachedHead = chpos % M
        /\ hpos \in Nat /\ chpos \in Nat /\ chpos <= hpos /\ hpos <= chpos + Cap
    BY RingFacts, CapFacts DEF RingInv, WordsTrue
  <2>4. hpos = chpos
    BY <2>1, <2>3, EqualWords
  <2> QED
    BY <2>1, <2>2, <2>4
<1>2. ASSUME NEW u \in Writes,
             \/ \E len \in Lens : WriteStart(u, len) \/ TryWriteStart(u, len)
             \/ WritePoll(u) \/ WriteTimeout(u) \/ WriteLoop(u)
             \/ WriteReturned(u) /\ u # t
      PROVE  wtask[t] = "wait"
  BY <1>2 DEF WriteStart, TryWriteStart, WritePoll, WriteTimeout, WriteLoop,
     WriteReturned
<1>3. CASE WasmReaderNotify
  BY <1>3 DEF WasmReaderNotify
<1>4. CASE UNCHANGED wtask
  BY <1>4
<1> QED
  BY <1>1, <1>2, <1>3, <1>4 DEF WasmNext, WriterRuns, ReaderRuns, ReadStart,
     TryReadStart, ReadPoll, ReadTimeout, ReadLoop, ReadReturned, WasmClose,
     WasmWriterInner, WasmReaderClose, WasmReaderInner, WasmWriterNotify,
     wasmVars, wasmW

\* A waiting task stays notified: the place to read or write moves on only
\* with the store that the notify follows, and the notify ends every wait.
LEMMA NotifyPart ==
    ASSUME WasmInv, [WasmNext]_wasmVars
    PROVE  ReadsNotified' /\ WritesNotified'
<1> USE RingFacts, WhatMoves
<1>0. rpos' \in Nat /\ ppos' \in Nat /\ wpos' \in Nat /\ hpos' \in Nat
  BY RingPart DEF RingInv, TypeOK
<1>1. ASSUME NEW t \in Reads, rtask'[t] = "wait", rpos' < ppos' PROVE wpc' = "wake"
  <2>1. rtask[t] = "wait"
    BY <1>1, ReadStartsToWait
  <2>2. CASE ppos' = ppos
    <3>1. rpos < ppos
      BY <1>0, <1>1, <2>2
    <3>2. wpc = "wake"
      BY <2>1, <3>1 DEF WasmInv, ReadsNotified
    <3>3. ~WasmWriterNotify
      BY <1>1 DEF WasmInv, WasmTypeOK, WasmWriterNotify
    <3> QED
      BY <3>2, <3>3
  <2> QED
    BY <2>2
<1>2. ASSUME NEW t \in Writes, wtask'[t] = "wait", wpos' - hpos' < Cap
      PROVE  rpc' = "wake"
  <2>1. wtask[t] = "wait"
    BY <1>2, WriteStartsToWait
  <2>2. CASE hpos' = hpos
    <3>1. wpos - hpos < Cap
      BY <1>0, <1>2, <2>2
    <3>2. rpc = "wake"
      BY <2>1, <3>1 DEF WasmInv, WritesNotified
    <3>3. ~WasmReaderNotify
      BY <1>2 DEF WasmInv, WasmTypeOK, WasmReaderNotify
    <3> QED
      BY <3>2, <3>3
  <2> QED
    BY <2>2
<1> QED
  BY <1>1, <1>2 DEF ReadsNotified, WritesNotified

\* The invariant of the JavaScript API, however many tasks overlap.
THEOREM WasmInvariant == WasmSafety => []WasmInv
<1>1. WasmInv /\ [WasmNext]_wasmVars => WasmInv'
  BY RingPart, WasmTypes, WritePart, ReadPart, NotifyPart DEF WasmInv, WriteInv
<1> QED
  BY <1>1, WasmInitInv, PTL DEF WasmSafety

\* No notify is lost: while a read waits although there is data, or a write
\* although there is room, the other side's notify is still to come.
THEOREM NoLostNotifyHolds == WasmSafety => []NoLostNotify
<1>1. WasmInv => NoLostNotify
  BY DEF WasmInv, ReadsNotified, WritesNotified, NoLostNotify
<1> QED
  BY <1>1, WasmInvariant, PTL

\* Overlapping writes and reads of the JavaScript API share one ring, and it
\* still implements the bounded stream.
THEOREM WasmRefinesStream == WasmSafety => RefinesStream
<1>1. WasmInv => StreamInv
  BY DEF WasmInv, StreamInv
<1>2. WasmInv /\ WasmInv' /\ [WasmNext]_wasmVars
        => [Stream!Next]_Stream!streamVars
  <2>1. WasmInv' => StreamInv'
    BY <1>1, PTL
  <2> QED
    BY <1>1, <2>1, WasmIsAnyStep, StepRefines
<1>3. WasmInit => Stream!Init
  BY InitRefines DEF WasmInit
<1> QED
  BY <1>2, <1>3, WasmInvariant, PTL DEF WasmSafety, RefinesStream, Stream!Spec

-----------------------------------------------------------------------------
(* Every byte is counted for one write.                                    *)

\* What a write has counted as written.
Counted(t) == size[t] - left[t]

\* Bytes in the stream that the write inside try_write has yet to count.
Uncounted ==
    IF wpc \in {"wake", "idle"} /\ \E t \in Writes : wtask[t] \in Trying
    THEN wret.n ELSE 0

\* A step changes the count of at most one write, and by what the step adds
\* to the stream less what it leaves uncounted. Summed up over a behaviour
\* this is WritesAddUp, as nothing is uncounted while the thread is idle.
CountsOnce ==
    \/ /\ \A t \in Writes : Counted(t)' = Counted(t)
       /\ ppos' - Uncounted' = ppos - Uncounted
    \/ \E t \in Writes :
          /\ \A u \in Writes \ {t} : Counted(u)' = Counted(u)
          /\ ppos' - Uncounted' = ppos - Uncounted + Counted(t)' - Counted(t)

\* While no write is inside try_write nothing is uncounted.
LEMMA NothingUncounted ==
    (\A t \in Writes : wtask[t] \notin Trying) => Uncounted = 0
  BY DEF Uncounted

\* The same in the next state.
LEMMA NothingUncountedNext ==
    (\A t \in Writes : wtask[t] \notin Trying)' => Uncounted' = 0
  BY DEF Uncounted

\* The steps of a write's task.
LEMMA TaskCounts ==
    ASSUME WasmInv, NEW t \in Writes,
           \/ \E len \in Lens : WriteStart(t, len) \/ TryWriteStart(t, len)
           \/ WritePoll(t) \/ WriteTimeout(t) \/ WriteLoop(t) \/ WriteReturned(t)
    PROVE  CountsOnce
<1> USE RingFacts DEF WasmInv, WasmTypeOK, Counted, Running, Trying, CountsOnce
<1>1. Lens \subseteq Nat /\ left[t] \in Nat /\ size[t] \in Nat
  BY ParamAssumption
<1>2. ASSUME NEW len \in Lens, WriteStart(t, len) PROVE CountsOnce
  <2>1. Uncounted = 0 /\ Uncounted' = 0
    BY <1>2, NothingUncounted, NothingUncountedNext DEF WriteStart, WriterIdle
  <2>2. \A u \in Writes : Counted(u)' = Counted(u)
    BY <1>1, <1>2 DEF WriteStart, Remainders
  <2> QED
    BY <1>2, <2>1, <2>2 DEF WriteStart, vars, whistory
<1>3. ASSUME NEW len \in Lens, TryWriteStart(t, len) PROVE CountsOnce
  <2>1. Uncounted = 0
    BY <1>3, NothingUncounted DEF TryWriteStart, WriterIdle
  <2>2. Uncounted' = 0
    BY <1>1, <1>3, CallFacts DEF TryWriteStart, Uncounted
  <2>3. \A u \in Writes : Counted(u)' = Counted(u)
    BY <1>1, <1>3 DEF TryWriteStart, Remainders
  <2> QED
    BY <1>3, <2>1, <2>2, <2>3 DEF TryWriteStart, TryWriteCall, whistory
<1>4. CASE WritePoll(t)
  <2>1. Uncounted = 0 /\ Uncounted' = 0
    BY <1>4, NothingUncounted, NothingUncountedNext DEF WritePoll, WriterIdle
  <2> QED
    BY <1>4, <2>1 DEF WritePoll, vars, whistory
<1>5. CASE WriteTimeout(t)
  <2>1. \A u \in Writes : wtask'[u] \in Trying <=> wtask[u] \in Trying
    BY <1>5 DEF WriteTimeout
  <2>2. Uncounted' = Uncounted
    BY <1>5, <2>1 DEF WriteTimeout, Uncounted, vars, writer
  <2> QED
    BY <1>5, <2>2 DEF WriteTimeout, vars, whistory
<1>6. CASE WriteLoop(t)
  <2>1. UNCHANGED <<size, left, ppos>> /\ wtask[t] = "run"
    BY <1>6 DEF WriteLoop, TryWriteCall, vars, whistory
  <2>2. \A u \in Writes : wtask[u] \notin Trying
    BY <2>1 DEF OneWriteRuns
  <2>3. CASE wtask' = [wtask EXCEPT ![t] = "done"]
    <3>1. \A u \in Writes : wtask'[u] \notin Trying
      BY <2>2, <2>3
    <3> QED
      BY <2>1, <2>2, <3>1, NothingUncounted, NothingUncountedNext
  <2>4. CASE TryWriteCall(left[t])
    <3>1. PICK n \in Nat : n = left[t]
      BY <1>1
    <3>2. TryWriteCall(n)
      BY <2>4, <3>1
    <3>3. Uncounted' = 0
      BY <3>2, CallFacts DEF Uncounted
    <3> QED
      BY <2>1, <2>2, <3>3, NothingUncounted
  <2> QED
    BY <1>6, <2>3, <2>4 DEF WriteLoop
<1>7. CASE WriteReturned(t)
  <2>1. /\ UNCHANGED <<size, ppos>> /\ wtask[t] \in Trying /\ wpc = "idle"
        /\ left' = [left EXCEPT ![t] = left[t] - wret.n]
        /\ wtask'[t] \notin Trying
        /\ \A u \in Writes \ {t} : wtask'[u] = wtask[u]
    BY <1>7 DEF WriteReturned, vars, whistory
  <2>2. Uncounted = wret.n
    BY <2>1 DEF Uncounted
  <2>3. Uncounted' = 0
    BY <2>1, NothingUncountedNext DEF OneWriteRuns
  <2>4. \A u \in Writes \ {t} : Counted(u)' = Counted(u)
    BY <2>1
  <2>5. Counted(t)' - Counted(t) = wret.n
    BY <1>1, <2>1
  <2> QED
    BY <1>1, <2>1, <2>2, <2>3, <2>4, <2>5
<1> QED
  BY <1>2, <1>3, <1>4, <1>5, <1>6, <1>7

\* The storage accesses and the notify of try_write and close.
LEMMA InnerCounts ==
    ASSUME WasmInv, WasmClose \/ WasmWriterInner \/ WasmWriterNotify
    PROVE  CountsOnce
<1> USE RingFacts DEF WasmInv, Running, Trying
<1>1. \A u \in Writes : Counted(u)' = Counted(u)
  BY DEF Counted, WasmClose, WasmWriterInner, WasmWriterNotify, wasmW
<1>2. UNCHANGED wtask
  BY DEF WasmClose, WasmWriterInner, WasmWriterNotify, wasmW
<1>3. CASE WasmClose \/ CloseNudge
  <2>1. \A u \in Writes : wtask[u] \notin Trying /\ wtask'[u] \notin Trying
    BY <1>2, <1>3 DEF WasmClose, WriterIdle, CloseNudge, WriteInCall
  <2>2. ppos' = ppos
    BY <1>3 DEF WasmClose, CloseStoreClosed, CloseNudge, whistory
  <2> QED
    BY <1>1, <2>1, <2>2, NothingUncounted, NothingUncountedNext DEF CountsOnce
<1>4. CASE TryWriteLoadHead \/ TryWriteCopy
  <2>1. Uncounted = 0 /\ Uncounted' = 0 /\ ppos' = ppos
    BY <1>4 DEF Uncounted, TryWriteLoadHead, TryWriteCopy, WReturn, WGrant, whistory
  <2> QED
    BY <1>1, <2>1 DEF CountsOnce
<1>5. CASE TryWriteStoreTail
  <2>1. Uncounted = 0 /\ ppos' = ppos + wn
    BY <1>5 DEF Uncounted, TryWriteStoreTail
  <2>2. Uncounted' = wn
    BY <1>2, <1>5 DEF Uncounted, TryWriteStoreTail, OneWriteRuns
  <2> QED
    BY <1>1, <2>1, <2>2 DEF CountsOnce
<1>6. CASE WriterWake
  <2>1. Uncounted' = Uncounted /\ ppos' = ppos
    BY <1>2, <1>6 DEF Uncounted, WriterWake, whistory
  <2> QED
    BY <1>1, <2>1 DEF CountsOnce
<1> QED
  BY <1>3, <1>4, <1>5, <1>6 DEF WasmWriterInner, WasmWriterNotify

\* The steps of the Reader's thread count nothing.
LEMMA ReaderCounts ==
    ASSUME WasmInv,
           \/ \E t \in Reads, len \in Lens : ReadStart(t, len) \/ TryReadStart(t, len)
           \/ \E t \in Reads : ReadPoll(t) \/ ReadTimeout(t)
           \/ WasmReaderClose \/ ReaderRuns
    PROVE  CountsOnce
<1>1. /\ UNCHANGED <<size, left, wpc, wret, ppos>>
      /\ wtask' = wtask \/ WasmReaderNotify
  BY DEF ReadStart, TryReadStart, ReadPoll, ReadTimeout, ReaderRuns, ReadLoop,
     ReadReturned, WasmReaderClose, WasmReaderInner, WasmReaderNotify, TryReadCall,
     TryReadLoadTail, TryReadLoadClosed, TryReadCopy, TryReadStoreHead, ReaderWake,
     vars, wasmW, writerSide, writer, whistory
<1>2. \A t \in Writes : wtask'[t] \in Trying <=> wtask[t] \in Trying
  BY <1>1 DEF WasmInv, WasmTypeOK, WasmReaderNotify, Trying
<1>3. Uncounted' = Uncounted
  BY <1>1, <1>2 DEF Uncounted
<1> QED
  BY <1>1, <1>3 DEF CountsOnce, Counted

\* Every step counts once.
LEMMA StepCounts == WasmInv /\ WasmNext => CountsOnce
  BY TaskCounts, InnerCounts, ReaderCounts DEF WasmNext, WriterRuns

\* Every byte that enters the stream is counted for exactly one of the
\* overlapping writes, in the step in which its try_write returns.
THEOREM CountsOnceHolds == WasmSafety => [][CountsOnce]_wasmVars
<1>1. WasmInv /\ [WasmNext]_wasmVars => [CountsOnce]_wasmVars
  BY StepCounts
<1> QED
  BY <1>1, WasmInvariant, PTL DEF WasmSafety

-----------------------------------------------------------------------------
(* Sums over a finite set                                                  *)

\* The element a fold over s takes first.
First(s) == CHOOSE x \in s : TRUE

\* What the recursion of a sum of g computes at s, given the smaller sets.
SumBody(g, it, s) == IF s = {} THEN 0 ELSE g[First(s)] + it[s \ {First(s)}]

\* it is the table of the partial sums of g over the subsets of S.
IsSums(g, S, it) == it = [s \in SUBSET S |-> SumBody(g, it, s)]

\* A non-empty set of naturals has a least element: induction without an
\* operator parameter.
LEMMA LeastNat ==
    ASSUME NEW T, T \subseteq Nat, T # {}
    PROVE  \E n \in T : \A m \in T : n <= m
<1>1. \E n \in T : \A m \in T : ~(<<m, n>> \in OpToRel(<, Nat))
  BY NatLessThanWellFounded, WFMin
<1>2. \A n, m \in Nat : <<m, n>> \in OpToRel(<, Nat) <=> m < n
  BY DEF OpToRel
<1>3. PICK n \in T : \A m \in T : ~(<<m, n>> \in OpToRel(<, Nat))
  BY <1>1
<1>4. ASSUME NEW m \in T PROVE n <= m
  <2>1. n \in Nat /\ m \in Nat
    OBVIOUS
  <2>2. ~(m < n)
    BY <1>2, <1>3, <2>1
  <2> QED
    BY <2>1, <2>2
<1> QED
  BY <1>4

\* Without its first element a set is smaller.
LEMMA FirstOf ==
    ASSUME NEW S, IsFiniteSet(S), NEW s \in SUBSET S, s # {}
    PROVE  /\ First(s) \in s /\ s \ {First(s)} \in SUBSET S
           /\ Cardinality(s) \in Nat
           /\ Cardinality(s \ {First(s)}) = Cardinality(s) - 1
<1>1. First(s) \in s
  BY DEF First
<1>2. IsFiniteSet(s)
  BY FS_Subset
<1> QED
  BY <1>1, <1>2, FS_CardinalityType, FS_RemoveElement

\* The recursion of a sum over a finite set defines a table.
LEMMA SumsExist ==
    ASSUME NEW S, IsFiniteSet(S), NEW g \in [S -> Int]
    PROVE  \E it \in [SUBSET S -> Int] : IsSums(g, S, it)
<1> DEFINE UpTo(n, it) == \A s \in SUBSET S : Cardinality(s) <= n => it[s] = SumBody(g, it, s)
           bad == {n \in Nat : ~\E it \in [SUBSET S -> Int] : UpTo(n, it)}
<1>0. \A s \in SUBSET S : IsFiniteSet(s) /\ Cardinality(s) \in Nat
  BY FS_Subset, FS_CardinalityType
<1>1. bad = {}
  <2> SUFFICES ASSUME bad # {} PROVE FALSE
    OBVIOUS
  <2>1. PICK n \in bad : \A m \in bad : n <= m
    BY LeastNat
  <2>2. n # 0
    <3> DEFINE z == [s \in SUBSET S |-> 0]
    <3>1. z \in [SUBSET S -> Int]
      OBVIOUS
    <3>2. ASSUME NEW s \in SUBSET S, Cardinality(s) <= 0 PROVE z[s] = SumBody(g, z, s)
      <4>1. s = {}
        BY <1>0, <3>2, FS_EmptySet
      <4> QED
        BY <4>1 DEF SumBody
    <3> QED
      BY <3>1, <3>2
  <2>3. n - 1 \in Nat /\ n - 1 \notin bad
    <3>1. n \in Nat
      OBVIOUS
    <3> HIDE DEF bad
    <3> QED
      BY <2>1, <2>2, <3>1
  <2>4. PICK it \in [SUBSET S -> Int] : UpTo(n - 1, it)
    BY <2>3
  <2> DEFINE up == [s \in SUBSET S |-> SumBody(g, it, s)]
  <2>5. up \in [SUBSET S -> Int]
    <3>1. ASSUME NEW s \in SUBSET S PROVE SumBody(g, it, s) \in Int
      <4>1. s # {} => First(s) \in S /\ s \ {First(s)} \in SUBSET S
        BY FirstOf
      <4>2. CASE s = {}
        BY <4>2 DEF SumBody
      <4>3. CASE s # {}
        <5>1. g[First(s)] \in Int /\ it[s \ {First(s)}] \in Int
          BY <4>1, <4>3
        <5> QED
          BY <4>3, <5>1 DEF SumBody
      <4> QED
        BY <4>2, <4>3
    <3> QED
      BY <3>1
  <2>6. ASSUME NEW s \in SUBSET S, Cardinality(s) <= n PROVE up[s] = SumBody(g, up, s)
    <3>1. CASE s = {}
      BY <3>1 DEF SumBody
    <3>2. CASE s # {}
      <4>1. /\ s \ {First(s)} \in SUBSET S
            /\ Cardinality(s \ {First(s)}) <= n - 1
        BY <1>0, <2>3, <2>6, <3>2, FirstOf
      <4>2. up[s \ {First(s)}] = it[s \ {First(s)}]
        BY <2>4, <4>1
      <4> QED
        BY <3>2, <4>2 DEF SumBody
    <3> QED
      BY <3>1, <3>2
  <2>7. UpTo(n, up)
    BY <2>6
  <2> QED
    BY <2>5, <2>7, <2>1
<1>2. Cardinality(S) \in Nat
  BY FS_CardinalityType
<1>3. PICK it \in [SUBSET S -> Int] : UpTo(Cardinality(S), it)
  BY <1>1, <1>2
<1>4. \A s \in SUBSET S : it[s] = SumBody(g, it, s)
  BY <1>3, FS_Subset
<1> QED
  BY <1>4 DEF IsSums

\* A sum moves with the one term that changes, whichever order it is taken in.
LEMMA SumsChange ==
    ASSUME NEW S, IsFiniteSet(S), NEW g \in [S -> Int], NEW h \in [S -> Int],
           NEW t, \A u \in S \ {t} : h[u] = g[u],
           NEW it, IsSums(g, S, it), NEW jt, IsSums(h, S, jt)
    PROVE  /\ it[S] \in Int /\ jt[S] \in Int
           /\ jt[S] = it[S] + (IF t \in S THEN h[t] - g[t] ELSE 0)
<1> DEFINE Grown(s) == /\ it[s] \in Int /\ jt[s] \in Int
                       /\ jt[s] = it[s] + (IF t \in s THEN h[t] - g[t] ELSE 0)
           bad == {s \in SUBSET S : ~Grown(s)}
           sizes == {Cardinality(s) : s \in bad}
<1>0. \A s \in SUBSET S : it[s] = SumBody(g, it, s) /\ jt[s] = SumBody(h, jt, s)
  BY DEF IsSums
<1>1. bad = {}
  <2> SUFFICES ASSUME bad # {} PROVE FALSE
    OBVIOUS
  <2>1. sizes \subseteq Nat /\ sizes # {}
    <3>1. ASSUME NEW s \in bad PROVE Cardinality(s) \in Nat
      <4>1. s \in SUBSET S
        OBVIOUS
      <4>2. IsFiniteSet(s)
        BY <4>1, FS_Subset
      <4> QED
        BY <4>2, FS_CardinalityType
    <3> HIDE DEF bad
    <3> QED
      BY <3>1
  <2>2. PICK s \in bad : \A r \in bad : Cardinality(s) <= Cardinality(r)
    <3> HIDE DEF bad
    <3>1. PICK n \in sizes : \A m \in sizes : n <= m
      BY <2>1, LeastNat
    <3> QED
      BY <3>1
  <2>3. s # {}
    <3>1. {} \in SUBSET S
      OBVIOUS
    <3>2. it[{}] = 0 /\ jt[{}] = 0
      BY <1>0, <3>1 DEF SumBody
    <3>3. Grown({})
      BY <3>2
    <3> QED
      BY <3>1, <3>3
  <2>4. /\ First(s) \in s /\ s \ {First(s)} \in SUBSET S
        /\ Cardinality(s) \in Nat /\ Cardinality(s \ {First(s)}) = Cardinality(s) - 1
    BY <2>3, FirstOf
  <2>5. Grown(s \ {First(s)})
    BY <2>2, <2>4
  <2>6. /\ it[s] = g[First(s)] + it[s \ {First(s)}]
        /\ jt[s] = h[First(s)] + jt[s \ {First(s)}]
        /\ g[First(s)] \in Int /\ h[First(s)] \in Int
    BY <1>0, <2>3, <2>4 DEF SumBody
  <2>7. CASE First(s) = t
    BY <2>4, <2>5, <2>6, <2>7
  <2>8. CASE First(s) # t
    <3>1. h[First(s)] = g[First(s)] /\ (t \in s <=> t \in s \ {First(s)})
      BY <2>4, <2>8
    <3>2. t \in s => h[t] \in Int /\ g[t] \in Int
      BY <2>2
    <3> QED
      BY <2>4, <2>5, <2>6, <3>1, <3>2
  <2> QED
    BY <2>7, <2>8
<1>2. Grown(S)
  BY <1>1
<1> QED
  BY <1>2

-----------------------------------------------------------------------------
(* The counts add up.                                                      *)

\* What each write has counted, and all of them together.
Counts == [t \in Writes |-> Counted(t)]
Total == MapThenSumSet(LAMBDA t : size[t] - left[t], Writes)

\* Total is a table's last entry.
LEMMA TotalIsSum ==
    WasmTypeOK => \E it : IsSums(Counts, Writes, it) /\ Total = it[Writes]
<1> SUFFICES ASSUME WasmTypeOK
             PROVE  \E it : IsSums(Counts, Writes, it) /\ Total = it[Writes]
  OBVIOUS
<1> DEFINE Table(it) ==
             it = [s \in SUBSET Writes |->
                     IF s = {} THEN 0
                     ELSE (size[First(s)] - left[First(s)]) + it[s \ {First(s)}]]
           table == CHOOSE it : Table(it)
<1>1. Total = table[Writes]
  BY DEF Total, MapThenSumSet, MapThenFoldSet, First
<1>2. \A it : Table(it) <=> IsSums(Counts, Writes, it)
  <2>1. ASSUME NEW s \in SUBSET Writes, s # {}
        PROVE  Counts[First(s)] = size[First(s)] - left[First(s)]
    BY <2>1, FirstOf, WasmAssumption DEF Counts, Counted
  <2>2. ASSUME NEW it, NEW s \in SUBSET Writes
        PROVE  SumBody(Counts, it, s) =
                 IF s = {} THEN 0
                 ELSE (size[First(s)] - left[First(s)]) + it[s \ {First(s)}]
    BY <2>1 DEF SumBody
  <2> QED
    BY <2>2 DEF IsSums
<1>3. Counts \in [Writes -> Int]
  BY DEF Counts, Counted, WasmTypeOK
<1>4. \E it : Table(it)
  <2>1. PICK f : f = Counts
    OBVIOUS
  <2>2. \E it : IsSums(f, Writes, it)
    BY <1>3, <2>1, SumsExist, WasmAssumption
  <2> QED
    BY <1>2, <2>1, <2>2
<1>5. Table(table)
  <2> HIDE DEF Table
  <2> QED
    BY <1>4, Zenon
<1> QED
  BY <1>1, <1>2, <1>5

\* The same in the next state.
LEMMA TotalIsSumNext ==
    WasmTypeOK' => (\E it : IsSums(Counts, Writes, it) /\ Total = it[Writes])'
  BY TotalIsSum, PTL

\* What the stream holds is what the writes have counted, or will as soon as
\* the try_write that is under way has returned.
AddUp == ppos - Uncounted = Total

\* Nothing is written, nothing is counted.
LEMMA InitAddUp == WasmInit => AddUp
<1> SUFFICES ASSUME WasmInit PROVE AddUp
  OBVIOUS
<1>1. WasmTypeOK /\ ppos = 0 /\ Uncounted = 0
  BY WasmInitInv DEF WasmInv, WasmInit, Init, Uncounted
<1>2. PICK it : IsSums(Counts, Writes, it) /\ Total = it[Writes]
  BY <1>1, TotalIsSum
<1>3. PICK g : g = Counts
  OBVIOUS
<1>4. g = [t \in Writes |-> 0]
  BY <1>3 DEF WasmInit, Counts, Counted
<1> DEFINE zeros == [s \in SUBSET Writes |-> 0]
<1>5. IsSums(g, Writes, zeros)
  <2>1. ASSUME NEW s \in SUBSET Writes PROVE SumBody(g, zeros, s) = 0
    <3>1. s # {} => g[First(s)] = 0 /\ zeros[s \ {First(s)}] = 0
      BY <1>4, FirstOf, WasmAssumption
    <3> QED
      BY <3>1 DEF SumBody
  <2> QED
    BY <2>1 DEF IsSums
<1>6. /\ it[Writes] \in Int
      /\ zeros[Writes] = it[Writes] + (IF "none" \in Writes THEN g["none"] - g["none"] ELSE 0)
  <2>1. IsSums(g, Writes, it) /\ g \in [Writes -> Int]
    BY <1>2, <1>3, <1>4
  <2> HIDE DEF zeros
  <2> QED
    BY <1>5, <2>1, SumsChange, WasmAssumption
<1>7. it[Writes] = 0
  BY <1>4, <1>6
<1> QED
  BY <1>1, <1>2, <1>7 DEF AddUp

\* A step that counts once keeps the sum true.
LEMMA StepAddUp ==
    ASSUME WasmInv, WasmInv', AddUp, CountsOnce
    PROVE  AddUp'
<1>1. WasmTypeOK /\ WasmTypeOK'
  BY DEF WasmInv
<1>2. PICK it : IsSums(Counts, Writes, it) /\ Total = it[Writes]
  BY <1>1, TotalIsSum
<1>3. PICK jt : IsSums(Counts', Writes, jt) /\ Total' = jt[Writes]
  BY <1>1, TotalIsSumNext
<1>4. PICK g : g = Counts
  OBVIOUS
<1>5. PICK h : h = Counts'
  OBVIOUS
<1>6. g \in [Writes -> Int] /\ h \in [Writes -> Int]
  BY <1>1, <1>4, <1>5 DEF WasmTypeOK, Counts, Counted
<1>7. \A t \in Writes : g[t] = Counted(t) /\ h[t] = Counted(t)'
  BY <1>4, <1>5 DEF Counts
<1>8. IsSums(g, Writes, it) /\ IsSums(h, Writes, jt)
  BY <1>2, <1>3, <1>4, <1>5
<1>9. /\ ppos \in Int /\ ppos' \in Int /\ Uncounted \in Int /\ Uncounted' \in Int
  BY DEF WasmInv, RingInv, TypeOK, Uncounted
<1>10. CASE /\ \A t \in Writes : Counted(t)' = Counted(t)
            /\ ppos' - Uncounted' = ppos - Uncounted
  <2>1. \A u \in Writes : h[u] = g[u]
    BY <1>7, <1>10
  <2>2. /\ it[Writes] \in Int /\ jt[Writes] \in Int
        /\ jt[Writes] = it[Writes] + (IF "none" \in Writes THEN h["none"] - g["none"] ELSE 0)
    BY <1>6, <1>8, <2>1, SumsChange, WasmAssumption
  <2>3. jt[Writes] = it[Writes]
    BY <1>6, <2>1, <2>2
  <2> QED
    BY <1>2, <1>3, <1>10, <2>3 DEF AddUp
<1>11. ASSUME NEW t \in Writes,
              \A u \in Writes \ {t} : Counted(u)' = Counted(u),
              ppos' - Uncounted' = ppos - Uncounted + Counted(t)' - Counted(t)
       PROVE  AddUp'
  <2>1. \A u \in Writes \ {t} : h[u] = g[u]
    BY <1>7, <1>11
  <2>2. /\ it[Writes] \in Int /\ jt[Writes] \in Int
        /\ jt[Writes] = it[Writes] + (IF t \in Writes THEN h[t] - g[t] ELSE 0)
    BY <1>6, <1>8, <2>1, SumsChange, WasmAssumption
  <2>3. jt[Writes] = it[Writes] + h[t] - g[t] /\ h[t] \in Int /\ g[t] \in Int
    BY <1>6, <2>2
  <2> QED
    BY <1>2, <1>3, <1>7, <1>9, <1>11, <2>2, <2>3 DEF AddUp
<1> QED
  BY <1>10, <1>11 DEF CountsOnce

\* The counts that overlapping writes report add up to the bytes in the
\* stream whenever the Writer's thread is idle, also after a Close.
THEOREM WritesAddUpHolds == WasmSafety => []WritesAddUp
<1>1. WasmInv /\ WasmInv' /\ AddUp /\ [WasmNext]_wasmVars => AddUp'
  <2> SUFFICES ASSUME WasmInv, WasmInv', AddUp, [WasmNext]_wasmVars PROVE AddUp'
    OBVIOUS
  <2>1. CASE UNCHANGED wasmVars
    <3>1. Uncounted' = Uncounted /\ ppos' = ppos /\ UNCHANGED <<size, left>>
      BY <2>1 DEF Uncounted, wasmVars, vars, writer, whistory, wasmW
    <3>2. \A t \in Writes : Counted(t)' = Counted(t)
      BY <3>1 DEF Counted
    <3> QED
      BY <3>1, <3>2, StepAddUp DEF CountsOnce
  <2>2. CASE WasmNext
    BY <2>2, StepCounts, StepAddUp
  <2> QED
    BY <2>1, <2>2
<1>2. WasmInv /\ AddUp => WritesAddUp
  <2> SUFFICES ASSUME WasmInv, AddUp PROVE WritesAddUp
    OBVIOUS
  <2>1. ASSUME WriterIdle PROVE ppos = Total
    <3>1. Uncounted = 0
      BY <2>1, NothingUncounted DEF WriterIdle, Running, Trying
    <3> QED
      BY <3>1, RingFacts DEF AddUp
  <2>2. \A t \in Writes : left[t] \in 0 .. size[t]
    BY DEF WasmInv, WasmTypeOK, Remainders
  <2> QED
    BY <2>1, <2>2 DEF WritesAddUp, Total
<1> QED
  BY <1>1, <1>2, InitAddUp, WasmInvariant, PTL DEF WasmSafety
=============================================================================
