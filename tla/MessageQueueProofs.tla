------------------------- MODULE MessageQueueProofs -------------------------
(***************************************************************************)
(* The ring of skynet_mq.c is a first-in first-out queue, for every        *)
(* initial capacity and every number of waiting messages.                  *)
(***************************************************************************)
EXTENDS MessageQueue, TLAPS

RingType ==
    /\ cap \in Nat \ {0}
    /\ head \in 0..cap - 1
    /\ tail \in 0..cap - 1
    /\ buf \in [0..cap - 1 -> Msg \cup {NoMsg}]
    /\ got \in Msg \cup {NoMsg}
    /\ fifo \in Seq(Msg)

\* head = tail means empty, so the messages are always fewer than the slots.
IInv == RingType /\ RingHoldsFifo

\* The modulus of expand_queue wraps at most once.
LEMMA WrapOnce ==
  ASSUME NEW c \in Nat \ {0}, NEW h \in 0..c - 1, NEW i \in 0..c - 1
  PROVE  (h + i) % c = IF h + i < c THEN h + i ELSE h + i - c
<1>1. CASE h + i < c
  BY <1>1
<1>2. CASE h + i >= c
  <2>1. h + i - c \in 0..c - 1
    BY <1>2
  <2>2. h + i = 1 * c + (h + i - c)
    OBVIOUS
  <2>. QED  BY <1>2, <2>1, <2>2
<1>. QED  BY <1>1, <1>2

LEMMA InitRing == Init => IInv
BY SizeAssumption DEF Init, IInv, RingType, RingHoldsFifo, Length

LEMMA PushRing ==
  ASSUME IInv, NEW m \in Msg, Push(m)
  PROVE  IInv'
<1>. USE DEF IInv, RingType, RingHoldsFifo, Length
<1>1. Len(fifo) \in Nat /\ Len(fifo) < cap
  OBVIOUS
<1>2. /\ fifo' \in Seq(Msg) /\ Len(fifo') = Len(fifo) + 1
      /\ fifo'[Len(fifo) + 1] = m
      /\ \A i \in 1..Len(fifo) : fifo'[i] = fifo[i]
  BY DEF Push
<1>3. Index(Len(fifo) + 1) = tail
  BY <1>1 DEF Index
<1>. DEFINE b == [buf EXCEPT ![tail] = m]
<1>4. /\ b \in [0..cap - 1 -> Msg \cup {NoMsg}]
      /\ \A i \in 1..Len(fifo) + 1 : b[Index(i)] = fifo'[i]
  <2>. HIDE DEF IInv, RingType, RingHoldsFifo, Length
  <2>1. /\ cap \in Nat \ {0} /\ head \in 0..cap - 1 /\ tail \in 0..cap - 1
        /\ buf \in [0..cap - 1 -> Msg \cup {NoMsg}]
        /\ Length = Len(fifo)
        /\ \A i \in 1..Len(fifo) : buf[Index(i)] = fifo[i]
    BY DEF IInv, RingType, RingHoldsFifo
  <2>2. b \in [0..cap - 1 -> Msg \cup {NoMsg}]
    BY <2>1
  <2>3. ASSUME NEW i \in 1..Len(fifo) PROVE b[Index(i)] = fifo'[i]
    <3>1. Index(i) \in 0..cap - 1 /\ Index(i) # tail
      BY <1>1, <2>1 DEF Index, Length
    <3>2. b[Index(i)] = buf[Index(i)]
      BY <2>1, <3>1
    <3>. QED  BY <1>2, <2>1, <3>2
  <2>4. b[Index(Len(fifo) + 1)] = fifo'[Len(fifo) + 1]
    BY <1>2, <1>3, <2>1
  <2>5. \A i \in 1..Len(fifo) + 1 : i \in 1..Len(fifo) \/ i = Len(fifo) + 1
    BY <1>1
  <2>. QED  BY <2>2, <2>3, <2>4, <2>5
<1>5. CASE head # After(tail)
  <2>1. RingType'
    <3>. HIDE DEF IInv, RingType, RingHoldsFifo, Length
    <3>1. RingType /\ cap' = cap /\ head' = head /\ tail' = After(tail) /\ buf' = b /\ got' = got
      BY <1>5 DEF Push, IInv
    <3>2. After(tail) \in 0..cap - 1
      BY <3>1 DEF After, RingType
    <3>. QED  BY <1>2, <1>4, <3>1, <3>2 DEF RingType
  <2>2. Length' = Len(fifo')
    <3>. HIDE DEF RingHoldsFifo, IInv
    <3>1. Length = Len(fifo)
      BY DEF IInv, RingHoldsFifo
    <3>2. head' = head /\ tail' = After(tail) /\ cap' = cap /\ RingType
      BY <1>5 DEF Push, IInv
    <3>. QED  BY <1>2, <1>5, <3>1, <3>2 DEF After
  <2>3. \A i \in 1..Len(fifo') : buf'[Index(i)'] = fifo'[i]
    BY <1>2, <1>4, <1>5 DEF Push, Index
  <2>. QED  BY <2>1, <2>2, <2>3
<1>6. CASE head = After(tail)
  <2>1. Len(fifo) + 1 = cap
    BY <1>1, <1>6 DEF After
  <2>2. /\ cap' = 2 * cap /\ head' = 0 /\ tail' = cap
        /\ buf' = Expand(b)
    BY <1>6 DEF Push
  <2>3. \A i \in 0..cap - 1 : buf'[i] = b[Index(i + 1)]
    <3>. TAKE i \in 0..cap - 1
    <3>1. (head + i) % cap = Index(i + 1)
      <4>. HIDE DEF IInv, RingHoldsFifo, Length
      <4>1. cap \in Nat \ {0} /\ head \in 0..cap - 1
        BY DEF IInv
      <4>2. (head + i) % cap = IF head + i < cap THEN head + i ELSE head + i - cap
        BY <4>1, WrapOnce
      <4>3. head + (i + 1) - 1 = head + i
        BY <4>1
      <4>. HIDE DEF RingType
      <4>. QED  BY <4>2, <4>3 DEF Index
    <3>2. buf'[i] = b[(head + i) % cap]
      BY <2>2 DEF Expand
    <3>. QED  BY <3>1, <3>2
  <2>4. buf' \in [0..2 * cap - 1 -> Msg \cup {NoMsg}]
    <3>1. \A i \in 0..cap - 1 : (head + i) % cap \in 0..cap - 1
      BY WrapOnce
    <3>. QED  BY <1>4, <2>2, <3>1 DEF Expand
  <2>5. RingType'
    <3>1. cap' \in Nat \ {0} /\ head' \in 0..cap' - 1 /\ tail' \in 0..cap' - 1
      BY <2>2
    <3>2. buf' \in [0..cap' - 1 -> Msg \cup {NoMsg}] /\ got' = got
      BY <2>2, <2>4 DEF Push
    <3>. QED  BY <1>2, <3>1, <3>2
  <2>6. Length' = Len(fifo')
    BY <1>2, <2>1, <2>2
  <2>7. \A i \in 1..Len(fifo') : Index(i)' = i - 1
    BY <1>2, <2>1, <2>2 DEF Index
  <2>8. ASSUME NEW i \in 1..Len(fifo') PROVE buf'[Index(i)'] = fifo'[i]
    <3>1. i - 1 \in 0..cap - 1 /\ i \in 1..Len(fifo) + 1 /\ (i - 1) + 1 = i
      BY <1>2, <2>1
    <3>2. buf'[i - 1] = b[Index(i)]
      BY <2>3, <3>1
    <3>. QED  BY <1>4, <2>7, <3>1, <3>2
  <2>. QED  BY <2>5, <2>6, <2>8
<1>. QED  BY <1>5, <1>6

LEMMA PopRing ==
  ASSUME IInv, Pop
  PROVE  IInv' /\ got' = Head(fifo)
<1>. USE DEF IInv, RingType, RingHoldsFifo, Length
<1>1. Len(fifo) \in Nat \ {0} /\ Len(fifo) < cap
  BY DEF Pop
<1>2. fifo[1] = Head(fifo) /\ Index(1) = head
  BY <1>1 DEF Index
<1>3. got' = Head(fifo) /\ Head(fifo) \in Msg
  BY <1>1, <1>2 DEF Pop
<1>4. /\ fifo' \in Seq(Msg) /\ Len(fifo') = Len(fifo) - 1
      /\ \A i \in 1..Len(fifo') : fifo'[i] = fifo[i + 1]
  BY <1>1 DEF Pop
<1>5. RingType'
  BY <1>3, <1>4 DEF Pop, After
<1>6. Length' = Len(fifo')
  <2>. HIDE DEF RingHoldsFifo, IInv
  <2>1. Length = Len(fifo)
    BY DEF IInv, RingHoldsFifo
  <2>2. /\ head' = After(head) /\ tail' = tail /\ cap' = cap /\ head # tail
        /\ RingType
    BY DEF Pop, IInv
  <2>. QED  BY <1>4, <2>1, <2>2 DEF After
<1>7. \A i \in 1..Len(fifo') : Index(i)' = Index(i + 1)
  BY <1>1, <1>4 DEF Pop, After, Index
<1>8. \A i \in 1..Len(fifo') : buf'[Index(i)'] = fifo'[i]
  BY <1>1, <1>4, <1>7 DEF Pop
<1>. QED  BY <1>3, <1>5, <1>6, <1>8

LEMMA NextRing == IInv /\ [Next]_vars => IInv'
<1>. SUFFICES ASSUME IInv, [Next]_vars PROVE IInv'
  OBVIOUS
<1>1. CASE UNCHANGED <<cap, head, tail, buf, got, fifo>>
  BY <1>1 DEF IInv, RingType, RingHoldsFifo, Length, Index
<1>2. ASSUME NEW m \in Msg, Push(m) PROVE IInv'
  BY <1>2, PushRing
<1>3. CASE Pop
  BY <1>3, PopRing
<1>. QED  BY <1>1, <1>2, <1>3 DEF Next, PopEmpty, TakeOverload, vars, ring

\* Through any history of pushes, pops and growth the ring holds exactly the
\* messages not yet popped, in order.
THEOREM RingIsFifo == Spec => []RingHoldsFifo
<1>1. IInv => RingHoldsFifo
  BY DEF IInv
<1>. QED  BY <1>1, InitRing, NextRing, PTL DEF Spec

\* skynet_mq_pop always returns the oldest waiting message.
THEOREM PopIsOldest == Spec => PopsOldest
<1>1. IInv /\ [Next]_vars => [Pop => got' = Head(fifo)]_vars
  BY PopRing
<1>. QED  BY <1>1, InitRing, NextRing, PTL DEF Spec, PopsOldest
=============================================================================
