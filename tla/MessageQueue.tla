---------------------------- MODULE MessageQueue ----------------------------
(***************************************************************************)
(* The ring buffer of struct message_queue (skynet_mq.c): one service's    *)
(* mail.  Every operation is one critical section of the queue's lock, so  *)
(* any number of senders and the one worker that owns the queue appear as  *)
(* an interleaving of the operations.  SkynetDispatch uses the queue as    *)
(* the sequence this module shows it to be.                                *)
(***************************************************************************)
EXTENDS Integers, Sequences

CONSTANTS
    Msg,                         \* messages
    NoMsg,                       \* content of a slot that was never written
    DefaultSize,                 \* DEFAULT_QUEUE_SIZE (64)
    MqOverload,                  \* MQ_OVERLOAD (1024)
    MaxLength                    \* bound: messages waiting at once

ASSUME SizeAssumption == DefaultSize \in Nat \ {0}
ASSUME OverloadAssumption == MqOverload \in Nat \ {0}
ASSUME MaxLengthAssumption == MaxLength \in Nat
ASSUME NoMsgAssumption == NoMsg \notin Msg

VARIABLES
    cap, head, tail,             \* q->cap, q->head, q->tail
    buf,                         \* q->queue
    overload, threshold,         \* q->overload, q->overload_threshold
    got,                         \* what the last skynet_mq_pop returned
    fifo,                        \* history: pushed and not yet popped, in order
    longest                      \* history: longest rest a pop has left since
                                 \*   a pop last found the queue empty

ring == <<cap, head, tail, buf>>
vars == <<ring, overload, threshold, got, fifo, longest>>

\* skynet_mq_length
Length == IF head <= tail THEN tail - head ELSE tail + cap - head

\* Index after i, wrapping at the capacity.
After(i) == IF i + 1 >= cap THEN 0 ELSE i + 1

Init ==                          \* skynet_mq_create
    /\ cap = DefaultSize
    /\ head = 0
    /\ tail = 0
    /\ buf = [i \in 0..DefaultSize - 1 |-> NoMsg]
    /\ overload = 0
    /\ threshold = MqOverload
    /\ got = NoMsg
    /\ fifo = <<>>
    /\ longest = 0

\* Mutant: expand_queue copies from the start of the old ring, not from head.
ExpandFromZero(b) ==
    [i \in 0..2 * cap - 1 |-> IF i < cap THEN b[i] ELSE NoMsg]

\* expand_queue: the old ring b, which is full, is unrolled from head.
Expand(b) ==
    [i \in 0..2 * cap - 1 |-> IF i < cap THEN b[(head + i) % cap] ELSE NoMsg]

\* skynet_mq_push: the ring is never left full, full would look like empty.
Push(m) ==
    LET b == [buf EXCEPT ![tail] = m] IN
    /\ Len(fifo) < MaxLength
    /\ IF head = After(tail)
         THEN /\ buf' = Expand(b)
              /\ head' = 0
              /\ tail' = cap
              /\ cap' = 2 * cap
         ELSE /\ buf' = b
              /\ tail' = After(tail)
              /\ UNCHANGED <<head, cap>>
    /\ fifo' = Append(fifo, m)
    /\ UNCHANGED <<overload, threshold, got, longest>>

\* The while loop of skynet_mq_pop: the threshold is doubled as long as the
\* length is above it.
Doubled(length) ==
    LET f[t \in Nat] == IF length > t THEN f[2 * t] ELSE t IN f[threshold]

\* skynet_mq_length as skynet_mq_pop computes it once the head has moved.
LengthLeft ==
    IF After(head) <= tail THEN tail - After(head) ELSE tail - After(head) + cap

Longer(a, b) == IF a < b THEN b ELSE a

\* Mutant: the length is tested once and the threshold doubled once.
PopDoublesOnce ==
    /\ head # tail
    /\ got' = buf[head]
    /\ head' = After(head)
    /\ threshold' = IF LengthLeft > threshold THEN threshold * 2 ELSE threshold
    /\ overload' = IF LengthLeft > threshold THEN LengthLeft ELSE overload
    /\ fifo' = Tail(fifo)
    /\ longest' = Longer(longest, LengthLeft)
    /\ UNCHANGED <<cap, tail, buf>>

\* Mutant: the message is read after the head has moved.
PopReadsLate ==
    /\ head # tail
    /\ got' = buf[After(head)]
    /\ head' = After(head)
    /\ fifo' = Tail(fifo)
    /\ longest' = Longer(longest, LengthLeft)
    /\ UNCHANGED <<cap, tail, buf, overload, threshold>>

\* skynet_mq_pop returns a message.
Pop ==
    /\ head # tail
    /\ got' = buf[head]
    /\ head' = After(head)
    /\ threshold' = Doubled(LengthLeft)
    /\ overload' = IF LengthLeft > threshold THEN LengthLeft ELSE overload
    /\ fifo' = Tail(fifo)
    /\ longest' = Longer(longest, LengthLeft)
    /\ UNCHANGED <<cap, tail, buf>>

\* skynet_mq_pop finds the queue empty.
PopEmpty ==
    /\ head = tail
    /\ threshold' = MqOverload
    /\ longest' = 0
    /\ UNCHANGED <<ring, overload, got, fifo>>

\* skynet_mq_overload: read by the owner, which then reports it.
TakeOverload ==
    /\ overload # 0
    /\ overload' = 0
    /\ UNCHANGED <<ring, threshold, got, fifo, longest>>

Next == (\E m \in Msg : Push(m)) \/ Pop \/ PopEmpty \/ TakeOverload

Spec == Init /\ [][Next]_vars

-----------------------------------------------------------------------------
(* Properties *)

\* Slot of the i-th waiting message.
Index(i) == IF head + i - 1 < cap THEN head + i - 1 ELSE head + i - 1 - cap

\* Through wrap-around and growth the ring holds exactly the messages pushed
\* and not yet popped, in order, and skynet_mq_length counts them.
RingHoldsFifo ==
    /\ Length = Len(fifo)
    /\ \A i \in 1..Len(fifo) : buf[Index(i)] = fifo[i]

\* skynet_mq_pop returns the oldest message of the queue.
PopsOldest == [][Pop => got' = Head(fifo)]_vars

\* The overload mark follows the backlog, not the threshold: a pop that leaves
\* more than MQ_OVERLOAD messages and at least twice as many as any pop has left
\* since the queue was last found empty marks the queue with that number, and
\* a pop that leaves no more than an earlier one does not mark it.
WarnsPerDoubling ==
    [][Pop =>
        LET left == Len(fifo') IN
        /\ left > MqOverload /\ left >= 2 * longest => overload' = left
        /\ overload' # overload =>
             overload' = left /\ left > MqOverload /\ left > longest]_vars
=============================================================================
