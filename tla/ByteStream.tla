----------------------------- MODULE ByteStream -----------------------------
(***************************************************************************)
(* What a shmring ring promises to its two users: a bounded first-in       *)
(* first-out stream of bytes from one Writer to one Reader. Bytes are      *)
(* numbered 0, 1, 2, ... in the order the Writer sends them. Each call     *)
(* takes effect in one step; io.EOF may be answered only after Close. Over  *)
(* a storage that fails, a receive that reports an error may have consumed *)
(* the bytes it was about to return.                                       *)
(***************************************************************************)
EXTENDS Integers, Sequences

CONSTANTS
    Cap,   \* capacity of the stream, in bytes
    Faults \* TRUE if the storage under the stream may fail

VARIABLES
    sent,    \* number of bytes sent so far
    queue,   \* bytes sent and not yet received
    closed,  \* TRUE once the Writer has closed the stream
    result   \* what the Reader's last call returned

streamVars == <<sent, queue, closed, result>>

Init ==
    /\ sent = 0
    /\ queue = <<>>
    /\ closed = FALSE
    /\ result = [bytes |-> <<>>, eof |-> FALSE]

\* The Writer sends the next n bytes of the stream. Over a storage that
\* fails, the bytes of a failed write may still arrive with Close.
Send(n) ==
    /\ closed => Faults
    /\ Len(queue) + n <= Cap
    /\ queue' = queue \o [i \in 1 .. n |-> sent + i - 1]
    /\ sent' = sent + n
    /\ UNCHANGED <<closed, result>>

\* The Reader receives the n oldest bytes.
Receive(n) ==
    /\ n <= Len(queue)
    /\ result' = [bytes |-> SubSeq(queue, 1, n), eof |-> FALSE]
    /\ queue' = SubSeq(queue, n + 1, Len(queue))
    /\ UNCHANGED <<sent, closed>>

\* The Reader's call fails after it has taken the n oldest bytes.
ReceiveFailed(n) ==
    /\ Faults
    /\ n <= Len(queue)
    /\ result' = [bytes |-> <<>>, eof |-> FALSE]
    /\ queue' = SubSeq(queue, n + 1, Len(queue))
    /\ UNCHANGED <<sent, closed>>

\* The Reader receives nothing.
ReceiveNothing ==
    /\ result' = [bytes |-> <<>>, eof |-> FALSE]
    /\ UNCHANGED <<sent, queue, closed>>

\* The Reader is told that the stream has ended.
ReceiveEof ==
    /\ closed
    /\ result' = [bytes |-> <<>>, eof |-> TRUE]
    /\ UNCHANGED <<sent, queue, closed>>

Close ==
    /\ closed' = TRUE
    /\ UNCHANGED <<sent, queue, result>>

Next ==
    \/ \E n \in 1 .. Cap : Send(n) \/ Receive(n) \/ ReceiveFailed(n)
    \/ ReceiveNothing
    \/ ReceiveEof
    \/ Close

Spec == Init /\ [][Next]_streamVars
=============================================================================
