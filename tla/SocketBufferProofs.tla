------------------------- MODULE SocketBufferProofs -------------------------
(***************************************************************************)
(* Proofs about the packages that services give to the socket server, for  *)
(* any services, slots, ids and packages: at any time each part of a       *)
(* package is in one place, the hands of its sender, the pipe, a list of a *)
(* socket, the connection or the free store; what was sent before a        *)
(* graceful close is on the wire when the connection has ended; and what a *)
(* peer receives is whole packages, those of one service and one priority  *)
(* in the order in which they were sent.                                   *)
(***************************************************************************)
EXTENDS SocketServerProofs

-----------------------------------------------------------------------------
(* Lists of units *)

Once(q) == \A j, k \in DOMAIN q : q[j] = q[k] => j = k

LEMMA NoUnits ==
  /\ <<>> \in Seq(Unit) /\ Len(<<>>) = 0 /\ DOMAIN <<>> = {} /\ \A x : ~Member(<<>>, x)
  /\ \A q \in Seq(Unit) : <<>> \o q = q /\ q \o <<>> = q
<1>1. <<>> \in Seq(Unit) /\ DOMAIN <<>> = {} /\ Len(<<>>) = 0
  BY EmptySeq
<1>2. \A q \in Seq(Unit) : <<>> \o q = q /\ q \o <<>> = q
  BY ConcatEmptySeq
<1> QED
  BY <1>1, <1>2 DEF Member

LEMMA Concat ==
  ASSUME NEW q \in Seq(Unit), NEW r \in Seq(Unit)
  PROVE  /\ q \o r \in Seq(Unit) /\ Len(q \o r) = Len(q) + Len(r) /\ DOMAIN (q \o r) = 1..(Len(q) + Len(r))
         /\ \A k \in DOMAIN q : k \in DOMAIN (q \o r) /\ (q \o r)[k] = q[k]
         /\ \A k \in DOMAIN r : Len(q) + k \in DOMAIN (q \o r) /\ (q \o r)[Len(q) + k] = r[k]
         /\ \A k \in DOMAIN (q \o r) : k \in DOMAIN q \/ (k - Len(q) \in DOMAIN r /\ k = Len(q) + (k - Len(q)))
<1>1. Len(q) \in Nat /\ DOMAIN q = 1..Len(q) /\ Len(r) \in Nat /\ DOMAIN r = 1..Len(r)
  BY LenProperties
<1>2. /\ q \o r \in Seq(Unit) /\ Len(q \o r) = Len(q) + Len(r)
      /\ \A i \in 1..(Len(q) + Len(r)) : (q \o r)[i] = IF i <= Len(q) THEN q[i] ELSE r[i - Len(q)]
  BY ConcatProperties
<1>3. DOMAIN (q \o r) = 1..(Len(q) + Len(r))
  BY <1>2, LenProperties
<1>4. ASSUME NEW k \in DOMAIN q PROVE k \in DOMAIN (q \o r) /\ (q \o r)[k] = q[k]
  BY <1>1, <1>2, <1>3
<1>5. ASSUME NEW k \in DOMAIN r PROVE Len(q) + k \in DOMAIN (q \o r) /\ (q \o r)[Len(q) + k] = r[k]
  <2>1. k \in 1..Len(r) /\ Len(q) + k \in 1..(Len(q) + Len(r)) /\ ~(Len(q) + k <= Len(q)) /\ Len(q) + k - Len(q) = k
    BY <1>1
  <2> QED
    BY <1>2, <1>3, <2>1
<1>6. ASSUME NEW k \in DOMAIN (q \o r)
      PROVE  k \in DOMAIN q \/ (k - Len(q) \in DOMAIN r /\ k = Len(q) + (k - Len(q)))
  BY <1>1, <1>3
<1> QED
  BY <1>2, <1>3, <1>4, <1>5, <1>6

LEMMA ConcatMember ==
  ASSUME NEW q \in Seq(Unit), NEW r \in Seq(Unit)
  PROVE  /\ \A x : Member(q \o r, x) <=> Member(q, x) \/ Member(r, x)
         /\ Once(q \o r) <=> Once(q) /\ Once(r) /\ \A x : ~(Member(q, x) /\ Member(r, x))
<1> DEFINE a == q \o r
           n == Len(q)
<1>1. Len(q) \in Nat /\ DOMAIN q = 1..Len(q) /\ Len(r) \in Nat /\ DOMAIN r = 1..Len(r)
  BY LenProperties
<1>2. /\ \A k \in DOMAIN q : k \in DOMAIN a /\ a[k] = q[k]
      /\ \A k \in DOMAIN r : n + k \in DOMAIN a /\ a[n + k] = r[k]
      /\ \A k \in DOMAIN a : k \in DOMAIN q \/ (k - n \in DOMAIN r /\ k = n + (k - n))
  BY Concat
<1> HIDE DEF a
<1>3. ASSUME NEW x PROVE Member(a, x) <=> Member(q, x) \/ Member(r, x)
  BY <1>2 DEF Member
<1>4. ASSUME Once(a) PROVE Once(q) /\ Once(r) /\ \A x : ~(Member(q, x) /\ Member(r, x))
  <2>1. Once(q)
    BY <1>2, <1>4 DEF Once
  <2>2. ASSUME NEW j \in DOMAIN r, NEW k \in DOMAIN r, r[j] = r[k] PROVE j = k
    <3>1. n + j = n + k
      BY <1>2, <1>4, <2>2 DEF Once
    <3> QED
      BY <1>1, <3>1
  <2>3. ASSUME NEW j \in DOMAIN q, NEW k \in DOMAIN r, q[j] = r[k] PROVE FALSE
    <3>1. j = n + k
      BY <1>2, <1>4, <2>3 DEF Once
    <3> QED
      BY <1>1, <3>1
  <2> QED
    BY <2>1, <2>2, <2>3 DEF Once, Member
<1>5. ASSUME Once(q), Once(r), \A x : ~(Member(q, x) /\ Member(r, x)) PROVE Once(a)
  <2> SUFFICES ASSUME NEW j \in DOMAIN a, NEW k \in DOMAIN a, a[j] = a[k] PROVE j = k
    BY DEF Once
  <2>1. CASE j \in DOMAIN q /\ k \in DOMAIN q
    BY <1>2, <1>5, <2>1 DEF Once
  <2>2. CASE j \notin DOMAIN q /\ k \notin DOMAIN q
    <3>1. a[j] = r[j - n] /\ a[k] = r[k - n] /\ j - n \in DOMAIN r /\ k - n \in DOMAIN r
      BY <1>2, <2>2
    <3>2. j - n = k - n
      BY <1>5, <3>1 DEF Once
    <3> QED
      BY <1>2, <2>2, <3>2
  <2>3. ASSUME NEW l \in DOMAIN q, NEW m \in DOMAIN a, m \notin DOMAIN q, a[l] = a[m] PROVE FALSE
    <3>1. a[m] = r[m - n] /\ m - n \in DOMAIN r /\ a[l] = q[l]
      BY <1>2, <2>3
    <3> QED
      BY <1>5, <2>3, <3>1 DEF Member
  <2> QED
    BY <2>1, <2>2, <2>3
<1> QED
  BY <1>3, <1>4, <1>5 DEF a

LEMMA Assoc ==
  ASSUME NEW q \in Seq(Unit), NEW r \in Seq(Unit), NEW t \in Seq(Unit)
  PROVE  (q \o r) \o t = q \o (r \o t)
BY ConcatAssociative

LEMMA Split ==
  ASSUME NEW q \in Seq(Unit), NEW n \in 0..Len(q)
  PROVE  /\ SubSeq(q, 1, n) \in Seq(Unit) /\ Len(SubSeq(q, 1, n)) = n
         /\ SubSeq(q, n + 1, Len(q)) \in Seq(Unit) /\ Len(SubSeq(q, n + 1, Len(q))) = Len(q) - n
         /\ \A k \in 1..n : SubSeq(q, 1, n)[k] = q[k]
         /\ \A k \in 1..(Len(q) - n) : SubSeq(q, n + 1, Len(q))[k] = q[n + k]
         /\ SubSeq(q, 1, n) \o SubSeq(q, n + 1, Len(q)) = q
<1> DEFINE a == SubSeq(q, 1, n)
           b == SubSeq(q, n + 1, Len(q))
<1>1. Len(q) \in Nat /\ DOMAIN q = 1..Len(q) /\ q \in [1..Len(q) -> Unit] /\ n \in Nat /\ n <= Len(q)
  BY LenProperties
<1>2. a \in Seq(Unit) /\ Len(a) = n /\ \A k \in 1..n : a[k] = q[k]
  <2>1. /\ \A k \in 1..n : q[k] \in Unit
        /\ 1 \in Int /\ n \in Int
    BY <1>1
  <2>2. /\ a \in Seq(Unit) /\ Len(a) = IF 1 <= n THEN n - 1 + 1 ELSE 0
        /\ \A k \in 1..(n - 1 + 1) : a[k] = q[1 + k - 1]
    BY <2>1, SubSeqProperties
  <2>3. n - 1 + 1 = n /\ (IF 1 <= n THEN n - 1 + 1 ELSE 0) = n /\ \A k \in 1..n : 1 + k - 1 = k
    BY <1>1
  <2> QED
    BY <2>2, <2>3
<1>3. b \in Seq(Unit) /\ Len(b) = Len(q) - n /\ \A k \in 1..(Len(q) - n) : b[k] = q[n + k]
  <2>1. /\ \A k \in (n + 1)..Len(q) : q[k] \in Unit
        /\ n + 1 \in Int /\ Len(q) \in Int
    BY <1>1
  <2>2. /\ b \in Seq(Unit) /\ Len(b) = IF n + 1 <= Len(q) THEN Len(q) - (n + 1) + 1 ELSE 0
        /\ \A k \in 1..(Len(q) - (n + 1) + 1) : b[k] = q[n + 1 + k - 1]
    BY <2>1, SubSeqProperties
  <2>3. /\ Len(q) - (n + 1) + 1 = Len(q) - n
        /\ (IF n + 1 <= Len(q) THEN Len(q) - (n + 1) + 1 ELSE 0) = Len(q) - n
    <3>1. PICK m \in Nat : m = Len(q) /\ n <= m
      BY <1>1
    <3>2. n \in Nat
      BY <1>1
    <3>3. m - (n + 1) + 1 = m - n /\ (~(n + 1 <= m) => m - n = 0)
      BY <3>1, <3>2
    <3> QED
      BY <3>1, <3>3
  <2>4. ASSUME NEW k \in 1..(Len(q) - n) PROVE n + 1 + k - 1 = n + k
    <3>1. k \in Int
      BY <1>1
    <3> QED
      BY <1>1, <3>1
  <2> QED
    BY <2>2, <2>3, <2>4
<1> HIDE DEF a, b
<1>4. /\ a \o b \in Seq(Unit) /\ Len(a \o b) = Len(q)
      /\ \A i \in 1..Len(q) : (a \o b)[i] = IF i <= n THEN a[i] ELSE b[i - n]
  <2>1. /\ a \o b \in Seq(Unit) /\ Len(a \o b) = Len(a) + Len(b)
        /\ \A i \in 1..(Len(a) + Len(b)) : (a \o b)[i] = IF i <= Len(a) THEN a[i] ELSE b[i - Len(a)]
    BY <1>2, <1>3, ConcatProperties
  <2>2. Len(a) + Len(b) = Len(q)
    BY <1>1, <1>2, <1>3
  <2> QED
    BY <1>2, <2>1, <2>2
<1>5. ASSUME NEW i \in 1..Len(q) PROVE (a \o b)[i] = q[i]
  <2>1. CASE i <= n
    BY <1>1, <1>2, <1>4, <2>1
  <2>2. CASE ~(i <= n)
    <3>1. i - n \in 1..(Len(q) - n) /\ n + (i - n) = i
      BY <1>1, <2>2
    <3> QED
      BY <1>3, <1>4, <2>2, <3>1
  <2> QED
    BY <2>1, <2>2
<1>6. a \o b = q
  BY <1>4, <1>5, SeqEqual
<1> QED
  BY <1>2, <1>3, <1>6 DEF a, b

LEMMA UnitsOf ==
  ASSUME NEW p \in Service \X Nat
  PROVE  /\ Units(p) \in Seq(Unit) /\ Len(Units(p)) = 2 /\ Once(Units(p))
         /\ Units(p)[1] = <<p, 1>> /\ Units(p)[2] = <<p, 2>>
         /\ \A u \in Unit : Member(Units(p), u) <=> u[1] = p
<1>1. Units(p) \in Seq(Unit) /\ Len(Units(p)) = 2
  BY PackageUnits
<1>2. Units(p)[1] = <<p, 1>> /\ Units(p)[2] = <<p, 2>> /\ DOMAIN Units(p) = {1, 2}
  BY DEF Units
<1>3. ASSUME NEW u \in Unit PROVE Member(Units(p), u) <=> u[1] = p
  <2>1. u = <<u[1], u[2]>> /\ u[2] \in {1, 2}
    BY DEF Unit
  <2> QED
    BY <1>2, <2>1 DEF Member
<1> QED
  BY <1>1, <1>2, <1>3 DEF Once

LEMMA SetOf ==
  ASSUME NEW q
  PROVE  \A x : x \in ToSet(q) <=> Member(q, x)
BY DEF ToSet, Member

-----------------------------------------------------------------------------
(* What the steps do to the buffers of the sockets *)

SameList(j) == s'[j].dw = s[j].dw /\ s'[j].high = s[j].high /\ s'[j].low = s[j].low
Plain(j) == s'[j].type = s[j].type /\ s'[j].id = s[j].id /\ SameList(j)
AllPlain == \A j \in Slot : Plain(j)
Others(i) == \A j \in Slot : j # i => s'[j] = s[j]
\* Slot i changes its type and id only.
Turns(i, t, id) == s'[i].type = t /\ s'[i].id = id /\ SameList(i) /\ Others(i)

LEMMA PutLists ==
  ASSUME TypeOK, NEW i \in Slot, NEW y, s' = [s EXCEPT ![i] = y]
  PROVE  s'[i] = y /\ Others(i)
BY DEF TypeOK, Others

LEMMA FieldLists ==
  ASSUME TypeOK, NEW i \in Slot
  PROVE  /\ \A t : s' = [s EXCEPT ![i].type = t] => Turns(i, t, s[i].id)
         /\ \A l : s' = [s EXCEPT ![i].lock = l] => Turns(i, s[i].type, s[i].id)
         /\ \A n : s' = [s EXCEPT ![i].sending = n] => Turns(i, s[i].type, s[i].id)
         /\ \A id : s' = [s EXCEPT ![i].id = id, ![i].protocol = "UNKNOWN"] => Turns(i, s[i].type, id)
         /\ \A t, b : s' = [s EXCEPT ![i].in = b, ![i].type = t] => Turns(i, t, s[i].id)
         /\ \A t, b : s' = [s EXCEPT ![i].type = t, ![i].out = b] => Turns(i, t, s[i].id)
<1>1. s[i] \in Socket
  BY DEF TypeOK
<1>2. ASSUME NEW t, s' = [s EXCEPT ![i].type = t] PROVE Turns(i, t, s[i].id)
  <2> DEFINE y == [s[i] EXCEPT !.type = t]
  <2>1. y.type = t /\ y.id = s[i].id /\ y.dw = s[i].dw /\ y.high = s[i].high /\ y.low = s[i].low
    BY <1>1 DEF Socket
  <2>2. s' = [s EXCEPT ![i] = y]
    BY <1>2 DEF TypeOK
  <2> HIDE DEF y
  <2> QED
    BY <2>1, <2>2, PutLists DEF Turns, SameList
<1>3. ASSUME NEW l, s' = [s EXCEPT ![i].lock = l] PROVE Turns(i, s[i].type, s[i].id)
  <2> DEFINE y == [s[i] EXCEPT !.lock = l]
  <2>1. y.type = s[i].type /\ y.id = s[i].id /\ y.dw = s[i].dw /\ y.high = s[i].high /\ y.low = s[i].low
    BY <1>1 DEF Socket
  <2>2. s' = [s EXCEPT ![i] = y]
    BY <1>3 DEF TypeOK
  <2> HIDE DEF y
  <2> QED
    BY <2>1, <2>2, PutLists DEF Turns, SameList
<1>4. ASSUME NEW n, s' = [s EXCEPT ![i].sending = n] PROVE Turns(i, s[i].type, s[i].id)
  <2> DEFINE y == [s[i] EXCEPT !.sending = n]
  <2>1. y.type = s[i].type /\ y.id = s[i].id /\ y.dw = s[i].dw /\ y.high = s[i].high /\ y.low = s[i].low
    BY <1>1 DEF Socket
  <2>2. s' = [s EXCEPT ![i] = y]
    BY <1>4 DEF TypeOK
  <2> HIDE DEF y
  <2> QED
    BY <2>1, <2>2, PutLists DEF Turns, SameList
<1>5. ASSUME NEW id, s' = [s EXCEPT ![i].id = id, ![i].protocol = "UNKNOWN"] PROVE Turns(i, s[i].type, id)
  <2> DEFINE y == [s[i] EXCEPT !.id = id, !.protocol = "UNKNOWN"]
  <2>1. y.type = s[i].type /\ y.id = id /\ y.dw = s[i].dw /\ y.high = s[i].high /\ y.low = s[i].low
    BY <1>1 DEF Socket
  <2>2. s' = [s EXCEPT ![i] = y]
    BY <1>1, <1>5 DEF TypeOK
  <2> HIDE DEF y
  <2> QED
    BY <2>1, <2>2, PutLists DEF Turns, SameList
<1>6. ASSUME NEW t, NEW b, s' = [s EXCEPT ![i].in = b, ![i].type = t] PROVE Turns(i, t, s[i].id)
  <2> DEFINE y == [s[i] EXCEPT !.in = b, !.type = t]
  <2>1. y.type = t /\ y.id = s[i].id /\ y.dw = s[i].dw /\ y.high = s[i].high /\ y.low = s[i].low
    BY <1>1 DEF Socket
  <2>2. s' = [s EXCEPT ![i] = y]
    BY <1>1, <1>6 DEF TypeOK
  <2> HIDE DEF y
  <2> QED
    BY <2>1, <2>2, PutLists DEF Turns, SameList
<1>7. ASSUME NEW t, NEW b, s' = [s EXCEPT ![i].type = t, ![i].out = b] PROVE Turns(i, t, s[i].id)
  <2> DEFINE y == [s[i] EXCEPT !.type = t, !.out = b]
  <2>1. y.type = t /\ y.id = s[i].id /\ y.dw = s[i].dw /\ y.high = s[i].high /\ y.low = s[i].low
    BY <1>1 DEF Socket
  <2>2. s' = [s EXCEPT ![i] = y]
    BY <1>1, <1>7 DEF TypeOK
  <2> HIDE DEF y
  <2> QED
    BY <2>1, <2>2, PutLists DEF Turns, SameList
<1> QED
  BY <1>2, <1>3, <1>4, <1>5, <1>6, <1>7

LEMMA PlainTurns ==
  ASSUME TypeOK, NEW i \in Slot
  PROVE  /\ Turns(i, s[i].type, s[i].id) => AllPlain
         /\ UNCHANGED s => AllPlain
         /\ \A t, id : Turns(i, t, id) => \A j \in Slot : SameList(j)
BY DEF Turns, AllPlain, Plain, SameList, Others

LEMMA NewFdLists ==
  ASSUME TypeOK, NEW id \in Nat, NEW t, NEW b, NEW d, NewFd(id, t, b, d)
  PROVE  LET i == Hash(id) IN
         /\ s[i].high = <<>> /\ s[i].low = <<>>
         /\ s'[i].type = t /\ s'[i].id = id /\ s'[i].dw = <<>> /\ s'[i].high = <<>> /\ s'[i].low = <<>>
         /\ Others(i)
<1>1. PICK i \in Slot : i = Hash(id)
  BY Geometry
<1>2. s[i] \in Socket /\ s[i].high = <<>> /\ s[i].low = <<>>
  BY <1>1 DEF TypeOK, NewFd, CheckWbList, ListsEmpty
<1> DEFINE x == [s[i] EXCEPT !.type = t, !.id = id, !.protocol = "TCP", !.tag = id]
           y == [x EXCEPT !.sending = 0, !.dw = <<>>, !.in = b, !.out = d]
<1>3. /\ x.type = t /\ x.id = id /\ x.dw = s[i].dw /\ x.high = s[i].high /\ x.low = s[i].low
      /\ DOMAIN x = DOMAIN s[i] /\ "dw" \in DOMAIN s[i] /\ "type" \in DOMAIN s[i] /\ "id" \in DOMAIN s[i]
      /\ "high" \in DOMAIN s[i] /\ "low" \in DOMAIN s[i]
  BY <1>2 DEF Socket
<1>4. s' = [s EXCEPT ![i] = y]
  BY <1>1 DEF NewFd
<1> HIDE DEF x
<1>5. y.type = t /\ y.id = id /\ y.dw = <<>> /\ y.high = <<>> /\ y.low = <<>>
  BY <1>2, <1>3
<1> HIDE DEF y
<1> QED
  BY <1>1, <1>2, <1>4, <1>5, PutLists

LEMMA BeginCloseLists ==
  ASSUME TypeOK, NEW i \in Slot, NEW how, NEW clear, BeginClose(i, how, clear)
  PROVE  /\ s'[i].type = s[i].type /\ s'[i].id = s[i].id /\ s'[i].dw = s[i].dw
         /\ s'[i].high = <<>> /\ s'[i].low = <<>> /\ Others(i)
<1>1. s[i] \in Socket
  BY DEF TypeOK
<1> DEFINE y == [s[i] EXCEPT !.high = <<>>, !.low = <<>>, !.in = FALSE, !.out = FALSE]
<1>2. y.type = s[i].type /\ y.id = s[i].id /\ y.dw = s[i].dw /\ y.high = <<>> /\ y.low = <<>>
  BY <1>1 DEF Socket
<1>3. s' = [s EXCEPT ![i] = y]
  BY <1>1 DEF BeginClose, TypeOK
<1> HIDE DEF y
<1> QED
  BY <1>2, <1>3, PutLists

LEMMA EndCloseLists ==
  ASSUME TypeOK, NEW i \in Slot, i = st.i, EndClose
  PROVE  /\ s'[i].type = "INVALID" /\ s'[i].id = s[i].id /\ s'[i].dw = <<>>
         /\ s'[i].high = s[i].high /\ s'[i].low = s[i].low /\ Others(i)
<1>1. s[i] \in Socket
  BY DEF TypeOK
<1> DEFINE y == [s[i] EXCEPT !.type = "INVALID", !.dw = <<>>, !.lock = Nobody]
<1>2. y.type = "INVALID" /\ y.id = s[i].id /\ y.dw = <<>> /\ y.high = s[i].high /\ y.low = s[i].low
  BY <1>1 DEF Socket
<1>3. s' = [s EXCEPT ![i] = y]
  BY <1>1 DEF EndClose, TypeOK
<1> HIDE DEF y
<1> QED
  BY <1>2, <1>3, PutLists

\* The lists of slot i become d, h and l; nothing else of any slot matters.
Holding(i, d, h, l) ==
    /\ s'[i].type = s[i].type /\ s'[i].id = s[i].id /\ s'[i].dw = d /\ s'[i].high = h /\ s'[i].low = l
    /\ Others(i)

Refused(m) == Gone(m.id) \/ s[Hash(m.id)].type \in {"HALFCLOSE", "PACCEPT", "PLISTEN", "LISTEN"}
\* send_socket
TakeStep(m) ==
    /\ st = Loop /\ pipe # <<>> /\ m = Head(pipe) /\ m.c \in Sending /\ m.p \in Service \X Nat
    /\ m.id \in Id /\ pipe' = Tail(pipe)
    /\ UNCHANGED <<st, at, wire, told, sent, cut, ended, closer>>
    /\ LET i == Hash(m.id)
           x == s[i]
           q == Units(m.p)
       IN  \/ Refused(m) /\ dropped' = dropped \cup ToSet(q) /\ Holding(i, x.dw, x.high, x.low)
           \/ /\ ~Refused(m) /\ dropped' = dropped
              /\ \/ x.high = <<>> /\ x.low = <<>> /\ Holding(i, x.dw, q, <<>>)
                 \/ m.c = "D" /\ Holding(i, x.dw, x.high \o q, x.low)
                 \/ m.c = "P" /\ Holding(i, x.dw, x.high, x.low \o q)

Appended(x, y, c, p) ==
    /\ y.type = x.type /\ y.id = x.id /\ y.dw = x.dw /\ DOMAIN y = DOMAIN x
    /\ \/ x.high = <<>> /\ x.low = <<>> /\ y.high = Units(p) /\ y.low = <<>>
       \/ c = "D" /\ y.high = x.high \o Units(p) /\ y.low = x.low
       \/ c = "P" /\ y.high = x.high /\ y.low = x.low \o Units(p)

LEMMA AppendBufferLists ==
  ASSUME NEW x \in Socket, NEW c \in Sending, NEW p
  PROVE  Appended(x, AppendBuffer(x, c, p), c, p)
<1> USE DEF Appended
<1>1. PICK h, l, u : h = x.high \o Units(p) /\ l = x.low \o Units(p) /\ u = Units(p)
  OBVIOUS
<1>2. CASE ListsEmpty(x) /\ x.type = "CONNECTED"
  <2>1. AppendBuffer(x, c, p) = [x EXCEPT !.high = u, !.out = x.in]
    BY <1>1, <1>2 DEF AppendBuffer
  <2> QED
    BY <1>1, <1>2, <2>1 DEF Socket, ListsEmpty
<1>3. CASE ~(ListsEmpty(x) /\ x.type = "CONNECTED") /\ c = "D"
  <2>1. AppendBuffer(x, c, p) = [x EXCEPT !.high = h]
    BY <1>1, <1>3 DEF AppendBuffer
  <2> QED
    BY <1>1, <1>3, <2>1 DEF Socket
<1>4. CASE ~(ListsEmpty(x) /\ x.type = "CONNECTED") /\ c = "P"
  <2>1. AppendBuffer(x, c, p) = [x EXCEPT !.low = l]
    BY <1>1, <1>4 DEF AppendBuffer
  <2> QED
    BY <1>1, <1>4, <2>1 DEF Socket
<1> QED
  BY <1>2, <1>3, <1>4 DEF Sending

LEMMA SendSocketStep ==
  ASSUME IInv, NEW c \in Sending, SendSocket(c)
  PROVE  TakeStep(Head(pipe))
<1> USE DEF IInv
<1>1. Cmd(c) /\ pipe' = Tail(pipe)
  BY DEF SendSocket
<1>2. /\ st = Loop /\ pipe # <<>> /\ Head(pipe) \in Request /\ Head(pipe).c = c
      /\ Head(pipe).id \in Nat /\ Head(pipe).id \in Id
  BY <1>1, HeadRequest
<1>3. PICK m \in Request : m = Head(pipe)
  BY <1>2
<1>4. m.p \in Service \X Nat
  BY <1>2, <1>3 DEF Request, Sending, Opening
<1>5. PICK i \in Slot : i = Hash(m.id)
  BY <1>2, <1>3, Geometry
<1>6. PICK x : x = IF Refused(m) THEN s[i] ELSE AppendBuffer(s[i], c, m.p)
  OBVIOUS
<1>7. /\ dropped' = IF Refused(m) THEN dropped \cup ToSet(Units(m.p)) ELSE dropped
      /\ s' = [s EXCEPT ![i] = IF x.id = m.id /\ x.protocol = "TCP" THEN [x EXCEPT !.sending = @ - 1] ELSE x]
      /\ UNCHANGED <<st, at, wire, told, sent, cut, ended, closer>>
  BY <1>3, <1>5, <1>6 DEF SendSocket, Refused, netVars
<1>8. s[i] \in Socket
  BY DEF TypeOK
<1>9. /\ x.type = s[i].type /\ x.id = s[i].id /\ x.dw = s[i].dw /\ DOMAIN x = DOMAIN s[i]
      /\ Refused(m) => x.high = s[i].high /\ x.low = s[i].low
      /\ ~Refused(m) =>
            \/ s[i].high = <<>> /\ s[i].low = <<>> /\ x.high = Units(m.p) /\ x.low = <<>>
            \/ c = "D" /\ x.high = s[i].high \o Units(m.p) /\ x.low = s[i].low
            \/ c = "P" /\ x.high = s[i].high /\ x.low = s[i].low \o Units(m.p)
  <2>1. CASE Refused(m)
    BY <1>6, <2>1
  <2>2. CASE ~Refused(m)
    <3>1. x = AppendBuffer(s[i], c, m.p)
      BY <1>6, <2>2
    <3>2. Appended(s[i], x, c, m.p)
      BY <1>8, <3>1, AppendBufferLists
    <3> QED
      BY <2>2, <3>2 DEF Appended
  <2> QED
    BY <2>1, <2>2
<1>10. PICK y : y = IF x.id = m.id /\ x.protocol = "TCP" THEN [x EXCEPT !.sending = @ - 1] ELSE x
  OBVIOUS
<1>11. y.type = x.type /\ y.id = x.id /\ y.dw = x.dw /\ y.high = x.high /\ y.low = x.low
  <2>1. "type" \in DOMAIN x /\ "id" \in DOMAIN x /\ "dw" \in DOMAIN x /\ "high" \in DOMAIN x /\ "low" \in DOMAIN x
    BY <1>8, <1>9 DEF Socket
  <2> QED
    BY <1>10, <2>1
<1>12. s'[i] = y /\ Others(i)
  BY <1>7, <1>10, PutLists
<1>13. Holding(i, x.dw, x.high, x.low)
  BY <1>9, <1>11, <1>12 DEF Holding
<1> QED
  BY <1>2, <1>3, <1>4, <1>5, <1>7, <1>9, <1>13, <1>1 DEF TakeStep

\* send_buffer: n units of slot i are written, the high list keeps k of the rest.
Waiting(x) == (x.dw \o x.high) \o x.low
Rests(x, n) == SubSeq(Waiting(x), n + 1, Len(Waiting(x)))
Kept(x, n, k) ==
    LET keep == Len(x.dw \o x.high) - n IN
    /\ k \in 0..Len(Rests(x, n))
    /\ keep > 0 => k = keep
    /\ keep <= 0 => k = IF Rests(x, n) # <<>> /\ Rests(x, n)[1][2] = 2 THEN 1 ELSE 0
Written(id, q) == wire'[id] = wire[id] \o q /\ \A e \in Id : e # id => wire'[e] = wire[e]
FlushStep(i, n, k) ==
    LET x == s[i]
        rest == Rests(x, n)
    IN  /\ st.pc = "send" /\ st.i = i /\ i \in Slot /\ x.id \in Id
        /\ n \in 0..Len(Waiting(x)) /\ Kept(x, n, k)
        /\ Written(x.id, SubSeq(Waiting(x), 1, n))
        /\ Holding(i, <<>>, SubSeq(rest, 1, k), SubSeq(rest, k + 1, Len(rest)))
        /\ UNCHANGED <<pipe, at, told, sent, dropped, ended, closer>>
        /\ \/ /\ rest = <<>> /\ x.type = "HALFCLOSE"
              /\ st' = [pc |-> "closing", i |-> i, how |-> "drained", clear |-> st.clear]
              /\ cut' = [cut EXCEPT ![x.id] = Len(wire'[x.id])]
           \/ /\ \/ st.clear /\ st' = [pc |-> "recheck", i |-> i, shutdown |-> st.shutdown]
                 \/ st' = Loop
              /\ UNCHANGED cut
\* ... fails, and all is freed.
LoseStep(i) ==
    LET x == s[i] IN
    /\ st.pc = "send" /\ st.i = i /\ i \in Slot /\ x.id \in Id
    /\ Holding(i, <<>>, <<>>, <<>>)
    /\ st' = [pc |-> "closing", i |-> i, how |-> "cut", clear |-> st.clear]
    /\ dropped' = dropped \cup ToSet(Waiting(x))
    /\ cut' = [cut EXCEPT ![x.id] = Len(wire[x.id])]
    /\ UNCHANGED <<pipe, at, told, sent, wire, ended, closer>>

LEMMA WriteAppends ==
  ASSUME TypeOK, NEW id \in Id, NEW q, NEW n, Write(id, q, n)
  PROVE  Written(id, SubSeq(q, 1, n))
BY DEF Write, Written, TypeOK

LEMMA SendBufferStep ==
  ASSUME IInv, SendBuffer
  PROVE  \E i \in Slot : LoseStep(i) \/ \E n, k : FlushStep(i, n, k)
<1> USE DEF IInv
<1> DEFINE i == st.i
           x == s[i]
           high == x.dw \o x.high
           all == high \o x.low
           n == Takes(x.id, all)
           rest == SubSeq(all, n + 1, Len(all))
           keep == Len(high) - n
           raised == keep <= 0 /\ rest # <<>> /\ rest[1][2] = 2
           k == IF raised THEN 1 ELSE Max({keep, 0})
           h == SubSeq(rest, 1, k)
           l == SubSeq(rest, k + 1, Len(rest))
           left == [x EXCEPT !.dw = <<>>, !.high = h, !.low = l, !.out = @ /\ rest # <<>>, !.lock = Nobody]
           done == [left EXCEPT !.in = FALSE, !.lock = Thread]
           none == [x EXCEPT !.dw = <<>>, !.high = <<>>, !.low = <<>>, !.in = FALSE, !.out = FALSE]
           error == peer[x.id] = "rst" /\ all # <<>>
<1>1. /\ st.pc = "send"
      /\ IF error
           THEN /\ s' = [s EXCEPT ![i] = none]
                /\ st' = [pc |-> "closing", i |-> i, how |-> "cut", clear |-> st.clear]
                /\ dropped' = dropped \cup ToSet(all)
                /\ cut' = [cut EXCEPT ![x.id] = Len(wire[x.id])]
                /\ UNCHANGED netVars
           ELSE /\ Write(x.id, all, n)
                /\ IF rest = <<>> /\ x.type = "HALFCLOSE"
                     THEN /\ s' = [s EXCEPT ![i] = done]
                          /\ st' = [pc |-> "closing", i |-> i, how |-> "drained", clear |-> st.clear]
                          /\ cut' = [cut EXCEPT ![x.id] = Len(wire'[x.id])]
                     ELSE /\ s' = [s EXCEPT ![i] = left]
                          /\ st' = IF st.clear THEN [pc |-> "recheck", i |-> i, shutdown |-> st.shutdown]
                                   ELSE Loop
                          /\ UNCHANGED cut
                /\ UNCHANGED dropped
      /\ UNCHANGED <<pipe, at, told, sent, ended, closer>>
  BY Zenon DEF SendBuffer
<1>2. i \in Slot /\ x \in Socket /\ x.id \in Id
  <2>1. st.i \in Slot /\ s[st.i].type \notin Closed
    BY <1>1 DEF AtWork, AtSlot
  <2>2. s[st.i].id \in Nat
    BY <2>1, InvTypes
  <2> QED
    BY <2>1, <2>2 DEF Slots, TypeOK
<1> HIDE DEF i, x
<1>3. x.dw \in Seq(Unit) /\ x.high \in Seq(Unit) /\ x.low \in Seq(Unit)
  BY <1>2 DEF Socket
<1>4. high \in Seq(Unit)
  BY <1>3, ConcatProperties
<1>5. all \in Seq(Unit) /\ Len(all) = Len(high) + Len(x.low) /\ Len(high) \in Nat /\ Len(x.low) \in Nat
  BY <1>3, <1>4, ConcatProperties, LenProperties
<1>6. n \in 0..Len(all)
  BY <1>2, <1>5, TakesType
<1>7. all = Waiting(x) /\ high = x.dw \o x.high
  BY DEF Waiting
<1> HIDE DEF high, all, n
<1>8. rest \in Seq(Unit) /\ Len(rest) = Len(all) - n /\ rest = Rests(x, n)
  BY <1>5, <1>6, <1>7, Split DEF Rests
<1> HIDE DEF rest
<1>9. Kept(x, n, k)
  <2>1. Len(rest) \in Nat /\ keep \in Int /\ keep <= Len(rest) /\ (rest # <<>> => Len(rest) # 0)
    BY <1>5, <1>6, <1>8, LenProperties, EmptySeq
  <2>2. CASE raised
    <3>1. k = 1 /\ keep <= 0 /\ rest # <<>> /\ rest[1][2] = 2
      BY <2>2
    <3>2. k \in 0..Len(rest) /\ ~(keep > 0)
      BY <2>1, <3>1
    <3> HIDE DEF k
    <3> QED
      BY <1>7, <1>8, <3>1, <3>2 DEF Kept
  <2>3. CASE ~raised
    <3>1. k = Max({keep, 0})
      BY <2>3
    <3>2. \E y \in {keep, 0} : \A z \in {keep, 0} : y >= z
      BY <2>1
    <3>3. Max({keep, 0}) \in {keep, 0} /\ \A z \in {keep, 0} : Max({keep, 0}) >= z
      BY <3>2 DEF Max
    <3>4. (keep > 0 => k = keep) /\ (keep <= 0 => k = 0)
      BY <2>1, <3>1, <3>3
    <3>5. k \in 0..Len(rest)
      BY <2>1, <3>4
    <3> HIDE DEF k
    <3> QED
      BY <1>7, <1>8, <2>3, <3>4, <3>5 DEF Kept
  <2> QED
    BY <2>2, <2>3
<1> HIDE DEF k
<1>10. none.type = x.type /\ none.id = x.id /\ none.dw = <<>> /\ none.high = <<>> /\ none.low = <<>>
  BY <1>2 DEF Socket
<1> HIDE DEF none, h, l
<1>11. /\ left.type = x.type /\ left.id = x.id /\ left.dw = <<>> /\ left.high = h /\ left.low = l
       /\ DOMAIN left = DOMAIN x
  BY <1>2 DEF Socket
<1> HIDE DEF left
<1>12. done.type = x.type /\ done.id = x.id /\ done.dw = <<>> /\ done.high = h /\ done.low = l
  <2>1. "type" \in DOMAIN x /\ "id" \in DOMAIN x /\ "dw" \in DOMAIN x /\ "high" \in DOMAIN x /\ "low" \in DOMAIN x
    BY <1>2 DEF Socket
  <2> QED
    BY <1>11, <2>1
<1> HIDE DEF done
<1>13. CASE error
  <2>1. Holding(i, <<>>, <<>>, <<>>)
    <3>1. s' = [s EXCEPT ![i] = none]
      BY <1>1, <1>13
    <3> QED
      BY <1>2, <1>10, <3>1, PutLists DEF Holding, x
  <2>2. LoseStep(i)
    BY <1>1, <1>2, <1>7, <1>13, <2>1 DEF LoseStep, i, x, netVars
  <2> QED
    BY <1>2, <2>2
<1>14. CASE ~error
  <2> HIDE DEF error
  <2>1. /\ Write(x.id, all, n)
        /\ \/ /\ rest = <<>> /\ x.type = "HALFCLOSE"
              /\ s' = [s EXCEPT ![i] = done]
              /\ st' = [pc |-> "closing", i |-> i, how |-> "drained", clear |-> st.clear]
              /\ cut' = [cut EXCEPT ![x.id] = Len(wire'[x.id])]
           \/ /\ s' = [s EXCEPT ![i] = left]
              /\ \/ st.clear /\ st' = [pc |-> "recheck", i |-> i, shutdown |-> st.shutdown]
                 \/ st' = Loop
              /\ UNCHANGED cut
        /\ UNCHANGED dropped
    BY <1>1, <1>14
  <2>2. Holding(i, <<>>, h, l)
    <3>1. s' = [s EXCEPT ![i] = done] \/ s' = [s EXCEPT ![i] = left]
      BY <2>1
    <3> QED
      BY <1>2, <1>11, <1>12, <3>1, PutLists DEF Holding, x
  <2>3. Written(x.id, SubSeq(Waiting(x), 1, n))
    BY <1>2, <1>7, <2>1, WriteAppends
  <2>4. FlushStep(i, n, k)
    BY <1>1, <1>2, <1>6, <1>7, <1>8, <1>9, <2>1, <2>2, <2>3 DEF FlushStep, i, x, h, l
  <2> QED
    BY <1>2, <2>4
<1> QED
  BY <1>13, <1>14

\* A direct write
WriteStep(v, n) ==
    LET id == at[v].id
        i == Hash(id)
        x == s[i]
        q == Units(at[v].p)
    IN  /\ at[v].pc = "check2" /\ NothingComing(id) /\ n \in 0..2
        /\ Written(id, SubSeq(q, 1, n))
        /\ \/ n = 2 /\ Holding(i, x.dw, x.high, x.low)
           \/ Holding(i, SubSeq(q, n + 1, 2), x.high, x.low)
        /\ at'[v].pc = "idle" /\ \A w \in Service : w # v => at'[w] = at[w]
        /\ UNCHANGED <<pipe, st, told, sent, dropped, cut, ended, closer>>

LEMMA RestLists ==
  ASSUME TypeOK, NEW i \in Slot, NEW d, NEW b, s' = [s EXCEPT ![i].lock = Nobody, ![i].dw = d, ![i].out = b]
  PROVE  /\ s'[i].type = s[i].type /\ s'[i].id = s[i].id /\ s'[i].dw = d
         /\ s'[i].high = s[i].high /\ s'[i].low = s[i].low /\ Others(i)
<1>1. s[i] \in Socket
  BY DEF TypeOK
<1> DEFINE y == [s[i] EXCEPT !.lock = Nobody, !.dw = d, !.out = b]
<1>2. y.type = s[i].type /\ y.id = s[i].id /\ y.dw = d /\ y.high = s[i].high /\ y.low = s[i].low
  BY <1>1 DEF Socket
<1>3. s' = [s EXCEPT ![i] = y]
  BY <1>1 DEF TypeOK
<1> HIDE DEF y
<1> QED
  BY <1>2, <1>3, PutLists

LEMMA DirectWriteStep ==
  ASSUME IInv, NEW v \in Service, DirectWrite(v)
  PROVE  \E n : WriteStep(v, n)
<1> USE DEF IInv
<1>1. at[v].pc = "check2" /\ at[v].pc \in WithPackage
  BY DEF DirectWrite, WithPackage
<1>2. at[v].id \in Nat /\ at[v].id \in Id /\ at[v].p \in Service \X Nat /\ Hash(at[v].id) \in Slot
  BY <1>1, PlaceFacts, Geometry
<1>3. PICK id \in Id : id = at[v].id
  BY <1>2
<1>4. PICK q \in Seq(Unit) : q = Units(at[v].p) /\ Len(q) = 2
  BY <1>2, PackageUnits
<1>5. PICK i \in Slot : i = Hash(id)
  BY <1>2, <1>3
<1>6. PICK n \in 0..2 : n = Takes(id, q)
  BY <1>4, TakesType
<1>7. /\ NothingComing(id) /\ Write(id, q, n)
      /\ s' = IF n = 2 THEN [s EXCEPT ![i].lock = Nobody]
              ELSE [s EXCEPT ![i].lock = Nobody, ![i].dw = SubSeq(q, n + 1, 2), ![i].out = s[i].in]
      /\ at' = [at EXCEPT ![v] = Idle]
      /\ UNCHANGED <<pipe, st, told, sent, dropped, cut, ended, closer>>
  BY <1>3, <1>4, <1>5, <1>6 DEF DirectWrite, history
<1>8. Steps(v, "idle", 0)
  BY <1>7, PlaceUpdates
<1>9. Written(id, SubSeq(q, 1, n))
  BY <1>7, WriteAppends
<1>10. \/ n = 2 /\ Holding(i, s[i].dw, s[i].high, s[i].low)
       \/ Holding(i, SubSeq(q, n + 1, 2), s[i].high, s[i].low)
  <2>1. CASE n = 2
    <3>1. Turns(i, s[i].type, s[i].id)
      BY <1>7, <2>1, FieldLists
    <3> QED
      BY <2>1, <3>1 DEF Turns, SameList, Holding
  <2>2. CASE n # 2
    <3>1. PICK d, b : d = SubSeq(q, n + 1, 2) /\ b = s[i].in
      OBVIOUS
    <3>2. s' = [s EXCEPT ![i].lock = Nobody, ![i].dw = d, ![i].out = b]
      BY <1>7, <2>2, <3>1
    <3>3. Holding(i, d, s[i].high, s[i].low)
      BY <3>2, RestLists DEF Holding
    <3> QED
      BY <3>1, <3>3
  <2> QED
    BY <2>1, <2>2
<1>11. WriteStep(v, n)
  BY <1>1, <1>3, <1>4, <1>5, <1>7, <1>8, <1>9, <1>10 DEF WriteStep, Steps
<1> QED
  BY <1>11

-----------------------------------------------------------------------------
(* The kinds of steps, as far as packages are concerned *)

Frame == UNCHANGED <<sent, dropped, wire, cut, ended>>
Only(v) == \A w \in Service : w # v => at'[w] = at[w]
Carries(v) ==
    /\ at'[v].pc \in WithPackage <=> at[v].pc \in WithPackage
    /\ at[v].pc \in WithPackage => at'[v].id = at[v].id /\ at'[v].p = at[v].p
Looks(v) ==
    /\ at'[v].pc = "check" => at[v].pc = "check" \/ (at[v].pc = "look" /\ NothingComing(at[v].id))
    /\ at'[v].pc = "check2" => at[v].pc = "check2" \/ (at[v].pc = "check" /\ NothingAhead(at[v].id))
\* Nothing moves; a direct write may get ahead or be given up.
StayStep ==
    /\ Frame /\ AllPlain /\ UNCHANGED <<pipe, told, closer>>
    /\ \A v \in Service : Carries(v) /\ Looks(v)
    /\ st.pc \in AtSlot => st' = st
    /\ st'.pc \in AtSlot => st' = st \/ (st'.pc = "send" /\ ~st'.clear)
ReserveStep(v, i) ==
    /\ i \in Slot /\ s[i].type = "INVALID" /\ Turns(i, "RESERVE", s[i].id)
    /\ at[v].pc = "idle" /\ at'[v].pc = "fill" /\ Only(v)
    /\ Frame /\ UNCHANGED <<pipe, st, told, closer>>
FillStep(v, r) ==
    /\ r \in Request /\ r.c \in Opening /\ r.id \in Id /\ s[Hash(r.id)].type = "RESERVE"
    /\ Turns(Hash(r.id), "RESERVE", r.id) /\ pipe' = Append(pipe, r)
    /\ ToldOf(r.id) /\ told[r.id] = "none" /\ told'[r.id] \in {"none", "listen"}
    /\ at[v].pc = "fill" /\ at'[v].pc = "idle" /\ Only(v)
    /\ Frame /\ UNCHANGED <<st, closer>>
AskStep(r) ==
    /\ r \in Request /\ r.c = "S" /\ pipe' = Append(pipe, r)
    /\ Frame /\ UNCHANGED <<s, at, st, told, closer>>
CloseStep(v, r) ==
    /\ r \in Request /\ r.c = "K" /\ r.id \in Id /\ pipe' = Append(pipe, r)
    /\ closer[r.id] = <<>> /\ closer' = [closer EXCEPT ![r.id] = <<v, Len(sent[v])>>]
    /\ at[v].pc = "idle" /\ Frame /\ UNCHANGED <<s, at, st, told>>
SendStep(v, m) ==
    LET p == <<v, Len(sent[v]) + 1>> IN
    /\ m \in Package /\ m.id \in Id /\ told[m.id] \in {"open", "accept", "end"} /\ m.open = (told[m.id] = "open")
    /\ at[v].pc = "idle" /\ sent' = [sent EXCEPT ![v] = Append(sent[v], m)]
    /\ \/ Gone(m.id) /\ dropped' = dropped \cup ToSet(Units(p)) /\ UNCHANGED at
       \/ /\ UNCHANGED dropped /\ ~Gone(m.id)
          /\ at'[v].pc \in {"look", "ref"} /\ at'[v].id = m.id /\ at'[v].p = p /\ Only(v)
    /\ UNCHANGED <<s, pipe, st, wire, told, cut, ended, closer>>
PostStep(v, r) ==
    /\ r \in Request /\ r.c \in Sending /\ at[v].pc = "push" /\ r.id = at[v].id /\ r.p = at[v].p
    /\ r.c = "D" <=> sent[v][r.p[2]].prio = "high"
    /\ pipe' = Append(pipe, r) /\ at'[v].pc = "idle" /\ Only(v)
    /\ Frame /\ UNCHANGED <<s, st, told, closer>>
FailStep(r) ==
    /\ st = Loop /\ Takes1(r) /\ r.c \in Opening /\ r.id \in Id
    /\ Turns(Hash(r.id), "INVALID", s[Hash(r.id)].id) /\ ToldOf(r.id) /\ told'[r.id] = "end"
    /\ st'.pc = "clear" /\ Frame /\ UNCHANGED <<at, closer>>
NewStep(id, t) ==
    LET i == Hash(id) IN
    /\ id \in Id /\ t \in SlotType \ Closed /\ t # "HALFCLOSE"
    /\ s[i].type \in Closed /\ s[i].high = <<>> /\ s[i].low = <<>>
    /\ s'[i].type = t /\ s'[i].id = id /\ s'[i].dw = <<>> /\ s'[i].high = <<>> /\ s'[i].low = <<>>
    /\ Others(i)
    /\ ~Known(id) /\ ToldOf(id)
    /\ \/ told'[id] = told[id]
       \/ told'[id] = "open" /\ t \in {"CONNECTED", "BIND"}
       \/ told'[id] = "accept"
    /\ UNCHANGED pipe \/ (pipe # <<>> /\ Head(pipe).c \in Opening /\ pipe' = Tail(pipe))
    /\ st.pc \notin AtSlot /\ st' = Loop /\ Frame /\ UNCHANGED <<at, closer>>
StartStep(id) ==
    LET i == Hash(id) IN
    /\ st = Loop /\ id \in Id /\ pipe # <<>> /\ Head(pipe).c = "S" /\ pipe' = Tail(pipe) /\ ToldOf(id)
    /\ st'.pc \notin AtSlot /\ Frame /\ UNCHANGED <<at, closer>>
    /\ \/ Gone(id) /\ AllPlain /\ told'[id] = "end"
       \/ s[i].id = id /\ s[i].type = "PACCEPT" /\ Turns(i, "CONNECTED", id) /\ told'[id] = "open"
       \/ s[i].id = id /\ s[i].type = "PLISTEN" /\ Turns(i, "LISTEN", id) /\ told'[id] = "listening"
       \/ s[i].id = id /\ s[i].type = "CONNECTED" /\ AllPlain /\ told'[id] = "open"
       \/ AllPlain /\ told'[id] = told[id]
EndStep(i) ==
    LET x == s[i] IN
    /\ st.pc = "closing" /\ st.i = i /\ i \in Slot /\ x.id \in Id /\ x.type \notin Closed
    /\ s'[i].type = "INVALID" /\ s'[i].id = x.id /\ s'[i].dw = <<>> /\ s'[i].high = x.high /\ s'[i].low = x.low
    /\ Others(i)
    /\ dropped' = dropped \cup ToSet(x.dw)
    /\ ended' = [ended EXCEPT ![x.id] = st.how] /\ ToldOf(x.id) /\ told'[x.id] = "end"
    /\ st'.pc \notin AtSlot /\ UNCHANGED <<pipe, at, wire, sent, cut, closer>>
HangStep(m) ==
    /\ st = Loop /\ Takes1(m) /\ m.c = "K" /\ m.id \in Id /\ AllPlain /\ ToldOf(m.id)
    /\ Frame /\ UNCHANGED <<at, closer>>
    /\ \/ Gone(m.id) /\ told'[m.id] = "end" /\ st'.pc \notin AtSlot
       \/ UNCHANGED told /\ st'.pc \notin AtSlot
       \/ /\ ~Gone(m.id) /\ s[Hash(m.id)].type \notin Closed /\ UNCHANGED told
          /\ st'.i = Hash(m.id) /\ st'.pc \in {"recheck", "send"}
HalfStep(i) ==
    /\ st.pc = "recheck" /\ st.i = i /\ i \in Slot /\ s[i].type \notin Closed
    /\ Turns(i, "HALFCLOSE", s[i].id) /\ st' = Loop /\ Frame /\ UNCHANGED <<pipe, at, told, closer>>
\* A start request may be taken from the pipe.
StartTaken == pipe # <<>> /\ Head(pipe).c = "S" /\ pipe' = Tail(pipe)
CutStep(i, how) ==
    LET x == s[i] IN
    /\ i \in Slot /\ x.type \notin Closed /\ x.id \in Id /\ Holding(i, x.dw, <<>>, <<>>)
    /\ dropped' = dropped \cup ToSet(x.high \o x.low)
    /\ cut' = [cut EXCEPT ![x.id] = Len(wire[x.id])]
    /\ st.pc \notin {"closing", "send"} /\ st'.pc = "closing" /\ st'.i = i /\ st'.how = how
    /\ \/ how = "cut"
       \/ how = "drained" /\ NoMoreData(x) /\ st.pc = "recheck" /\ st.i = i
    /\ UNCHANGED pipe \/ StartTaken
    /\ UNCHANGED <<at, wire, told, sent, ended, closer>>
ConnectStep(i) ==
    /\ i \in Slot /\ s[i].type = "CONNECTING" /\ s[i].id \in Id /\ Turns(i, "CONNECTED", s[i].id)
    /\ ToldOf(s[i].id) /\ told'[s[i].id] = "open"
    /\ st.pc \notin AtSlot /\ st' = Loop /\ Frame /\ UNCHANGED <<pipe, at, closer>>

ServiceMove(v) ==
    \/ StayStep
    \/ \E i : ReserveStep(v, i)
    \/ \E r : FillStep(v, r) \/ AskStep(r) \/ CloseStep(v, r) \/ PostStep(v, r)
    \/ \E m : SendStep(v, m)
    \/ \E n : WriteStep(v, n)
ThreadMove ==
    \/ StayStep
    \/ \E r : FailStep(r) \/ HangStep(r) \/ TakeStep(r)
    \/ \E id, t : NewStep(id, t)
    \/ \E id : StartStep(id)
    \/ \E i : EndStep(i) \/ HalfStep(i) \/ ConnectStep(i) \/ LoseStep(i)
    \/ \E i, how : CutStep(i, how)
    \/ \E i, n, k : FlushStep(i, n, k)

-----------------------------------------------------------------------------
LEMMA Going1 ==
  ASSUME TypeOK, NEW v \in Service, at[v].pc \in WithPackage, NEW pc \in WithPackage, Go(v, pc)
  PROVE  at'[v].pc = pc /\ at'[v].id = at[v].id /\ at'[v].p = at[v].p /\ Only(v)
<1>1. at[v] \in Place /\ at \in [Service -> Place]
  BY DEF TypeOK
<1> DEFINE y == [at[v] EXCEPT !.pc = pc]
<1>2. y.pc = pc /\ y.id = at[v].id /\ y.p = at[v].p
  BY <1>1 DEF Place, WithPackage
<1>3. at' = [at EXCEPT ![v] = y]
  BY <1>1 DEF Go
<1> HIDE DEF y
<1> QED
  BY <1>1, <1>2, <1>3 DEF Only

LEMMA CallMove ==
  ASSUME IInv, NEW v \in Service, Call(v)
  PROVE  ServiceMove(v)
<1> USE DEF IInv
<1>1. /\ s \in [Slot -> Socket] /\ at \in [Service -> Place] /\ sent \in [Service -> Seq(Package)]
  BY DEF TypeOK
<1>2. lim.open \subseteq Opening /\ lim.shut \subseteq BOOLEAN /\ lim.prio \subseteq {"high", "low"}
  BY LimitsAssumption DEF TypeOK, Opening
<1>3. \A id \in Id : id \in Nat
  BY DEF Id
<1>4. ASSUME NEW c \in lim.open, Reserve(v, c) PROVE ServiceMove(v)
  <2>1. PICK n \in Nat : n = NextId /\ s[Hash(n)].type = "INVALID"
    BY <1>4, NextIdView DEF Reserve
  <2>2. PICK i \in Slot : i = Hash(n)
    BY Geometry
  <2>3. /\ at[v].pc = "idle" /\ s' = [s EXCEPT ![i].type = "RESERVE"]
        /\ at' = [at EXCEPT ![v] = [pc |-> "fill", c |-> c, id |-> n]]
        /\ UNCHANGED <<pipe, st, told, closer>> /\ Frame
    BY <1>4, <2>1, <2>2, PlaceFacts DEF Reserve, netVars, history, Frame
  <2>4. Turns(i, "RESERVE", s[i].id)
    BY <2>3, FieldLists
  <2>5. Steps(v, "fill", n)
    BY <1>2, <2>3, PlaceUpdates
  <2>6. ReserveStep(v, i)
    BY <2>1, <2>2, <2>3, <2>4, <2>5 DEF ReserveStep, Steps, Only
  <2> QED
    BY <2>6 DEF ServiceMove
<1>6. ASSUME NEW id \in Id, Start(v, id) PROVE ServiceMove(v)
  <2> DEFINE r == [c |-> "S", id |-> id]
  <2>1. r \in Request /\ r.c = "S"
    BY <1>3 DEF Request
  <2>2. pipe' = Append(pipe, r) /\ UNCHANGED <<s, at, st, told, closer>> /\ Frame
    BY <1>6 DEF Start, netVars, history, Frame
  <2> HIDE DEF r
  <2>3. AskStep(r)
    BY <2>1, <2>2 DEF AskStep
  <2> QED
    BY <2>3 DEF ServiceMove
<1>7. ASSUME NEW id \in Id, NEW b \in lim.shut, Close(v, id, b) PROVE ServiceMove(v)
  <2> DEFINE r == [c |-> "K", id |-> id, shutdown |-> b]
  <2>1. r \in Request /\ r.c = "K" /\ r.id = id
    BY <1>2, <1>3 DEF Request
  <2>2. /\ pipe' = Append(pipe, r) /\ closer[id] = <<>> /\ closer' = [closer EXCEPT ![id] = <<v, Len(sent[v])>>]
        /\ at[v] = Idle /\ UNCHANGED <<s, at, st, told>> /\ Frame
    BY <1>7 DEF Close, MayClose, netVars, Frame
  <2> HIDE DEF r
  <2>3. CloseStep(v, r)
    BY <2>1, <2>2, PlaceFacts DEF CloseStep
  <2> QED
    BY <2>3 DEF ServiceMove
<1>8. ASSUME NEW id \in Id, NEW prio \in lim.prio, Send(v, id, prio) PROVE ServiceMove(v)
  <2> DEFINE p == <<v, Len(sent[v]) + 1>>
             m == [id |-> id, prio |-> prio, open |-> told[id] = "open"]
  <2>1. /\ UNCHANGED <<s, pipe, st, wire, told, cut, ended, closer>>
        /\ at[v] = Idle /\ told[id] \in {"open", "accept", "end"}
        /\ sent' = [sent EXCEPT ![v] = Append(sent[v], m)]
        /\ \/ Gone(id) /\ dropped' = dropped \cup ToSet(Units(p)) /\ UNCHANGED at
           \/ /\ \E pc \in {"look", "ref"} : at' = [at EXCEPT ![v] = [pc |-> pc, id |-> id, p |-> p]]
              /\ UNCHANGED dropped /\ ~Gone(id)
    BY <1>1, <1>8 DEF Send, MaySend, serverVars, netVars
  <2>2. at[v].pc = "idle"
    BY <2>1, PlaceFacts
  <2>3. m \in Package /\ m.id = id /\ m.open = (told[id] = "open")
    BY <1>2, <1>3 DEF Package
  <2> HIDE DEF m, p
  <2>4. ASSUME NEW pc \in {"look", "ref"}, at' = [at EXCEPT ![v] = [pc |-> pc, id |-> id, p |-> p]]
        PROVE  at'[v].pc \in {"look", "ref"} /\ at'[v].id = id /\ at'[v].p = p /\ Only(v)
    BY <1>1, <2>4 DEF Only
  <2>5. \/ Gone(id) /\ dropped' = dropped \cup ToSet(Units(p)) /\ UNCHANGED at
        \/ /\ UNCHANGED dropped /\ ~Gone(id)
           /\ at'[v].pc \in {"look", "ref"} /\ at'[v].id = id /\ at'[v].p = p /\ Only(v)
    BY <2>1, <2>4
  <2>6. SendStep(v, m)
    BY <2>1, <2>2, <2>3, <2>5 DEF SendStep, p
  <2> QED
    BY <2>6 DEF ServiceMove
<1> QED
  BY <1>4, <1>6, <1>7, <1>8 DEF Call

\* A step of a service between two points of a send
LEMMA GoingStays ==
  ASSUME IInv, NEW v \in Service, at[v].pc \in WithPackage, NEW pc \in WithPackage, Go(v, pc), AllPlain,
         Frame, UNCHANGED <<pipe, st, told, closer>>,
         pc = "check" => at[v].pc = "look" /\ NothingComing(at[v].id),
         pc = "check2" => at[v].pc = "check" /\ NothingAhead(at[v].id)
  PROVE  ServiceMove(v)
<1>1. at'[v].pc = pc /\ at'[v].id = at[v].id /\ at'[v].p = at[v].p /\ Only(v)
  BY Going1 DEF IInv
<1>2. ASSUME NEW w \in Service PROVE Carries(w) /\ Looks(w)
  <2>1. CASE w = v
    BY <1>1, <2>1 DEF Carries, Looks
  <2>2. CASE w # v
    BY <1>1, <2>2 DEF Carries, Looks, Only
  <2> QED
    BY <2>1, <2>2
<1> QED
  BY <1>2 DEF StayStep, ServiceMove

LEMMA ServiceStepMove ==
  ASSUME IInv, NEW v \in Service, ServiceStep(v)
  PROVE  ServiceMove(v)
<1> USE DEF IInv
<1>1. s \in [Slot -> Socket] /\ at \in [Service -> Place]
      /\ told \in [Id -> {"none", "listen", "listening", "accept", "open", "end"}]
  BY DEF TypeOK
<1>2. /\ at[v].pc = "fill" => at[v].c \in Opening /\ at[v].id \in Nat /\ at[v].id \in Id
      /\ at[v].pc \in WithPackage => at[v].id \in Nat /\ at[v].id \in Id /\ at[v].p \in Service \X Nat
  BY PlaceFacts
<1>3. {"look", "check", "check2", "ref", "push"} \subseteq WithPackage
  BY DEF WithPackage
<1>4. ASSUME OpenRequest(v) PROVE ServiceMove(v)
  <2>1. PICK id \in Nat : id = at[v].id /\ id \in Id /\ at[v].pc = "fill" /\ at[v].c \in Opening
    BY <1>2, <1>4 DEF OpenRequest
  <2>2. PICK i \in Slot : i = Hash(id)
    BY Geometry
  <2> DEFINE r == [c |-> at[v].c, id |-> id]
  <2>3. r \in Request /\ r.c \in Opening /\ r.id = id
    BY <2>1 DEF Request
  <2>4. /\ s' = [s EXCEPT ![i].id = id, ![i].protocol = "UNKNOWN"]
        /\ pipe' = Append(pipe, r) /\ at' = [at EXCEPT ![v] = Idle]
        /\ told' = [told EXCEPT ![id] = IF at[v].c = "L" THEN "listen" ELSE @]
        /\ UNCHANGED <<st, closer>> /\ Frame
    BY <1>4, <2>1, <2>2 DEF OpenRequest, netVars, history, Frame
  <2> HIDE DEF r
  <2>5. s[i].type = "RESERVE" /\ told[id] = "none"
    BY <2>1, <2>2 DEF Fills
  <2>6. Turns(i, "RESERVE", id)
    BY <2>4, <2>5, FieldLists
  <2>7. Steps(v, "idle", 0)
    BY <2>4, PlaceUpdates
  <2>8. ToldOf(id) /\ told'[id] \in {"none", "listen"}
    BY <1>1, <2>1, <2>4, <2>5 DEF ToldOf
  <2>9. FillStep(v, r)
    BY <2>1, <2>2, <2>3, <2>4, <2>5, <2>6, <2>7, <2>8 DEF FillStep, Steps, Only
  <2> QED
    BY <2>9 DEF ServiceMove
<1>5. ASSUME at[v].pc \in WithPackage PROVE \E i \in Slot : i = Hash(at[v].id)
  BY <1>2, <1>5, Geometry
<1>6. ASSUME TryLock(v) PROVE ServiceMove(v)
  <2>1. PICK i \in Slot : i = Hash(at[v].id)
    BY <1>3, <1>5, <1>6 DEF TryLock
  <2>2. /\ at[v].pc = "look" /\ at[v].pc \in WithPackage
        /\ \/ NothingComing(at[v].id) /\ s' = [s EXCEPT ![i].lock = v] /\ Go(v, "check")
           \/ UNCHANGED s /\ Go(v, "ref")
        /\ Frame /\ UNCHANGED <<pipe, st, told, closer>>
    BY <1>3, <1>6, <2>1 DEF TryLock, netVars, history, Frame
  <2>3. AllPlain
    BY <2>2, FieldLists, PlainTurns
  <2> QED
    BY <1>3, <2>2, <2>3, GoingStays
<1>8. ASSUME Check(v) PROVE ServiceMove(v)
  <2>1. PICK i \in Slot : i = Hash(at[v].id)
    BY <1>3, <1>5, <1>8 DEF Check
  <2>2. /\ at[v].pc = "check" /\ at[v].pc \in WithPackage
        /\ \/ NothingAhead(at[v].id) /\ UNCHANGED s /\ Go(v, "check2")
           \/ s' = [s EXCEPT ![i].lock = Nobody] /\ Go(v, "ref")
        /\ Frame /\ UNCHANGED <<pipe, st, told, closer>>
    BY <1>3, <1>8, <2>1 DEF Check, Unlocked, netVars, history, Frame
  <2>3. AllPlain
    BY <2>2, FieldLists, PlainTurns
  <2> QED
    BY <1>3, <2>2, <2>3, GoingStays
<1>9. ASSUME GiveUp(v) PROVE ServiceMove(v)
  <2>1. PICK i \in Slot : i = Hash(at[v].id)
    BY <1>3, <1>5, <1>9 DEF GiveUp
  <2>2. /\ at[v].pc \in WithPackage /\ s' = [s EXCEPT ![i].lock = Nobody] /\ Go(v, "ref")
        /\ Frame /\ UNCHANGED <<pipe, st, told, closer>>
    BY <1>3, <1>9, <2>1 DEF GiveUp, Unlocked, netVars, history, Frame
  <2>3. AllPlain
    BY <2>2, FieldLists, PlainTurns
  <2> QED
    BY <1>3, <2>2, <2>3, GoingStays
<1>10. ASSUME DirectWrite(v) PROVE ServiceMove(v)
  BY <1>10, DirectWriteStep DEF ServiceMove
<1>11. ASSUME IncSendingRef(v) PROVE ServiceMove(v)
  <2>1. PICK i \in Slot : i = Hash(at[v].id)
    BY <1>3, <1>5, <1>11 DEF IncSendingRef
  <2>2. /\ at[v].pc \in WithPackage /\ Go(v, "push")
        /\ (\E n : s' = [s EXCEPT ![i].sending = n]) \/ UNCHANGED s
        /\ Frame /\ UNCHANGED <<pipe, st, told, closer>>
    BY <1>3, <1>11, <2>1 DEF IncSendingRef, netVars, history, Frame
  <2>3. AllPlain
    BY <2>2, FieldLists, PlainTurns
  <2> QED
    BY <1>3, <2>2, <2>3, GoingStays
<1>12. ASSUME SendRequest(v) PROVE ServiceMove(v)
  <2>1. at[v].pc = "push" /\ at[v].pc \in WithPackage
    BY <1>12 DEF SendRequest, WithPackage
  <2>2. PICK c \in Sending : c = IF sent[v][at[v].p[2]].prio = "high" THEN "D" ELSE "P"
    BY DEF Sending
  <2> DEFINE r == [c |-> c, id |-> at[v].id, p |-> at[v].p]
  <2>3. r \in Request /\ r.c = c /\ r.id = at[v].id /\ r.p = at[v].p
    BY <1>2, <2>1 DEF Request
  <2>4. pipe' = Append(pipe, r) /\ at' = [at EXCEPT ![v] = Idle] /\ UNCHANGED <<s, st, told, closer>> /\ Frame
    BY <1>12, <2>2 DEF SendRequest, netVars, history, Frame
  <2> HIDE DEF r
  <2>5. Steps(v, "idle", 0)
    BY <2>4, PlaceUpdates
  <2>6. PostStep(v, r)
    BY <2>1, <2>2, <2>3, <2>4, <2>5 DEF PostStep, Steps, Only
  <2> QED
    BY <2>6 DEF ServiceMove
<1> QED
  BY <1>4, <1>6, <1>8, <1>9, <1>10, <1>11, <1>12 DEF ServiceStep

\* The thread goes on somewhere else; nothing of any socket or service changes.
LEMMA StayIdle ==
  ASSUME TypeOK, AllPlain, Frame, UNCHANGED <<pipe, told, closer, at>>, st.pc \notin AtSlot,
         st'.pc \in AtSlot => st'.pc = "send" /\ ~st'.clear
  PROVE  StayStep
BY DEF StayStep, Carries, Looks

LEMMA SlotAtWork ==
  ASSUME IInv, st.pc \in AtSlot
  PROVE  /\ st.i \in Slot /\ s[st.i].type \notin Closed /\ s[st.i].id \in Id
         /\ Hash(s[st.i].id) = st.i
<1>1. st.i \in Slot /\ s[st.i].type \notin Closed
  BY DEF IInv, AtWork
<1>2. s[st.i].id \in Nat
  BY <1>1, InvTypes DEF IInv
<1> QED
  BY <1>1, <1>2 DEF IInv, Slots

LEMMA OpenMove ==
  ASSUME IInv, OpenSocket \/ ListenSocket \/ BindSocket \/ BindFails
  PROVE  ThreadMove
<1> USE DEF IInv
<1>1. PICK c \in Opening : Cmd(c)
  BY DEF OpenSocket, ListenSocket, BindSocket, BindFails, Opening
<1>2. pipe' = Tail(pipe)
  BY DEF OpenSocket, ListenSocket, BindSocket, BindFails
<1>3. PICK r \in Request : /\ r = Head(pipe) /\ r.c \in Opening /\ r.id \in Nat /\ r.id \in Id /\ Member(pipe, r)
                           /\ pipe # <<>> /\ st = Loop /\ Takes1(r)
  BY <1>1, <1>2, HeadRequest
<1>5. PICK id \in Nat, i \in Slot : id = r.id /\ id \in Id /\ i = Hash(id)
  BY <1>3, Geometry
<1>6. told \in [Id -> {"none", "listen", "listening", "accept", "open", "end"}]
  BY DEF TypeOK
<1>7. Frame /\ UNCHANGED <<at, closer>>
  BY DEF OpenSocket, ListenSocket, BindSocket, BindFails, netVars, history, Frame
<1>8. \A m \in {"end", "open"} : Report(id, m) => ToldOf(id) /\ told'[id] = m
  BY <1>5, <1>6 DEF Report, ToldOf
<1>9. UNCHANGED told => ToldOf(id)
  BY <1>6 DEF ToldOf
<1>4. s[i].type \in Closed /\ ~Known(id)
  BY <1>3, <1>5 DEF Opens, Reserved, Closed
<1>16. st.pc \notin AtSlot
  BY <1>3, ThreadPlaces
<1>10. ASSUME NEW t \in SlotType \ Closed, t # "HALFCLOSE", NEW b, NEW d, NewFd(id, t, b, d), UNCHANGED st,
              ToldOf(id), told'[id] = told[id] \/ (told'[id] = "open" /\ t \in {"CONNECTED", "BIND"})
       PROVE  ThreadMove
  <2>1. /\ s[i].high = <<>> /\ s[i].low = <<>>
        /\ s'[i].type = t /\ s'[i].id = id /\ s'[i].dw = <<>> /\ s'[i].high = <<>> /\ s'[i].low = <<>>
        /\ Others(i)
    BY <1>5, <1>10, NewFdLists
  <2>2. NewStep(id, t)
    BY <1>2, <1>3, <1>4, <1>5, <1>7, <1>10, <1>16, <2>1 DEF NewStep
  <2> QED
    BY <2>2 DEF ThreadMove
<1>11. ASSUME s' = [s EXCEPT ![i].type = "INVALID"], Report(id, "end"), st' = [pc |-> "clear", id |-> id]
       PROVE  ThreadMove
  <2>1. Turns(i, "INVALID", s[i].id)
    BY <1>11, FieldLists
  <2>2. st'.pc = "clear"
    BY <1>11
  <2>4. FailStep(r)
    BY <1>3, <1>5, <1>7, <1>8, <1>11, <2>1, <2>2 DEF FailStep
  <2> QED
    BY <2>4 DEF ThreadMove
<1>12. {"CONNECTED", "CONNECTING", "PLISTEN", "BIND"} \subseteq SlotType \ Closed
  BY DEF SlotType, Closed
<1>13. CASE OpenSocket
  <2>1. \/ s' = [s EXCEPT ![i].type = "INVALID"] /\ Report(id, "end") /\ st' = [pc |-> "clear", id |-> id]
        \/ NewFd(id, "CONNECTED", TRUE, FALSE) /\ Report(id, "open") /\ UNCHANGED st
        \/ NewFd(id, "CONNECTING", TRUE, TRUE) /\ UNCHANGED <<told, st>>
    BY <1>3, <1>5, <1>13 DEF OpenSocket
  <2> QED
    BY <1>8, <1>9, <1>10, <1>11, <1>12, <2>1
<1>14. CASE ListenSocket
  <2>1. NewFd(id, "PLISTEN", FALSE, FALSE) /\ UNCHANGED <<told, st>>
    BY <1>3, <1>5, <1>14 DEF ListenSocket
  <2> QED
    BY <1>9, <1>10, <1>12, <2>1
<1>15. CASE BindSocket
  <2>1. NewFd(id, "BIND", TRUE, FALSE) /\ Report(id, "open") /\ UNCHANGED st
    BY <1>3, <1>5, <1>15 DEF BindSocket
  <2> QED
    BY <1>8, <1>10, <1>12, <2>1
<1>17. CASE BindFails
  BY <1>3, <1>5, <1>11, <1>17 DEF BindFails
<1> QED
  BY <1>13, <1>14, <1>15, <1>17

LEMMA StartMove ==
  ASSUME IInv, StartSocket
  PROVE  ThreadMove
<1> USE DEF IInv
<1>1. Cmd("S") /\ pipe' = Tail(pipe)
  BY DEF StartSocket
<1>3. PICK r \in Request : r = Head(pipe) /\ r.c = "S" /\ r.id \in Nat /\ r.id \in Id /\ st = Loop /\ pipe # <<>>
  BY <1>1, HeadRequest
<1>5. PICK id \in Nat, i \in Slot : id = r.id /\ id \in Id /\ i = Hash(id)
  BY <1>3, Geometry
<1>6. told \in [Id -> {"none", "listen", "listening", "accept", "open", "end"}] /\ s[i] \in Socket
  BY DEF TypeOK
<1>7. Frame /\ UNCHANGED <<at, closer>>
  BY DEF StartSocket, netVars, history, Frame
<1>8. \A m \in {"end", "open", "listening"} : Report(id, m) => ToldOf(id) /\ told'[id] = m
  BY <1>5, <1>6 DEF Report, ToldOf
<1>9. UNCHANGED told => ToldOf(id)
  BY <1>6 DEF ToldOf
<1>10. UNCHANGED s => AllPlain
  BY PlainTurns
<1>2. \/ Gone(id) /\ Report(id, "end") /\ st' = [pc |-> "clear", id |-> id] /\ UNCHANGED s
      \/ /\ ~Gone(id) /\ s[i].type \in {"PACCEPT", "PLISTEN"} /\ UNCHANGED st
         /\ s' = [s EXCEPT ![i].in = TRUE, ![i].type = IF @ = "PACCEPT" THEN "CONNECTED" ELSE "LISTEN"]
         /\ Report(id, IF s[i].type = "PACCEPT" THEN "open" ELSE "listening")
      \/ /\ ~Gone(id) /\ UNCHANGED <<s, st>>
         /\ UNCHANGED told \/ (s[i].type = "CONNECTED" /\ Report(id, "open"))
  BY <1>3, <1>5 DEF StartSocket, Report
<1>4. st'.pc \notin AtSlot
  BY <1>2, <1>3, <1>5, ThreadPlaces
<1>11. StartStep(id)
  <2>1. CASE Gone(id) /\ Report(id, "end") /\ UNCHANGED s
    BY <1>1, <1>3, <1>4, <1>5, <1>7, <1>8, <1>10, <2>1 DEF StartStep
  <2>2. CASE /\ ~Gone(id) /\ s[i].type \in {"PACCEPT", "PLISTEN"} /\ UNCHANGED st
             /\ s' = [s EXCEPT ![i].in = TRUE, ![i].type = IF @ = "PACCEPT" THEN "CONNECTED" ELSE "LISTEN"]
             /\ Report(id, IF s[i].type = "PACCEPT" THEN "open" ELSE "listening")
    <3>1. PICK t : t = IF s[i].type = "PACCEPT" THEN "CONNECTED" ELSE "LISTEN"
      OBVIOUS
    <3>2. s' = [s EXCEPT ![i].in = TRUE, ![i].type = t]
      BY <1>6, <2>2, <3>1 DEF Socket, TypeOK
    <3>3. PICK b : b = TRUE
      OBVIOUS
    <3>4. Turns(i, t, s[i].id)
      BY <3>2, <3>3, FieldLists
    <3>5. s[i].id = id
      BY <1>5, <2>2 DEF Gone
    <3>6. CASE s[i].type = "PACCEPT"
      BY <1>1, <1>3, <1>4, <1>5, <1>7, <1>8, <2>2, <3>1, <3>4, <3>5, <3>6 DEF StartStep
    <3>7. CASE s[i].type = "PLISTEN"
      BY <1>1, <1>3, <1>4, <1>5, <1>7, <1>8, <2>2, <3>1, <3>4, <3>5, <3>7 DEF StartStep
    <3> QED
      BY <2>2, <3>6, <3>7
  <2>3. CASE ~Gone(id) /\ UNCHANGED s /\ UNCHANGED told
    BY <1>1, <1>3, <1>4, <1>5, <1>7, <1>9, <1>10, <2>3 DEF StartStep
  <2>4. CASE ~Gone(id) /\ UNCHANGED s /\ s[i].type = "CONNECTED" /\ Report(id, "open")
    <3>1. s[i].id = id
      BY <1>5, <2>4 DEF Gone
    <3> QED
      BY <1>1, <1>3, <1>4, <1>5, <1>7, <1>8, <1>10, <2>4, <3>1 DEF StartStep
  <2> QED
    BY <1>2, <2>1, <2>2, <2>3, <2>4
<1> QED
  BY <1>5, <1>11 DEF ThreadMove

LEMMA HangMove ==
  ASSUME IInv, CloseSocket
  PROVE  ThreadMove
<1> USE DEF IInv
<1>1. Cmd("K") /\ pipe' = Tail(pipe)
  BY DEF CloseSocket
<1>3. PICK r \in Request : r = Head(pipe) /\ r.c = "K" /\ r.id \in Nat /\ r.id \in Id /\ st = Loop /\ Takes1(r)
  BY <1>1, HeadRequest
<1>5. PICK id \in Nat, i \in Slot : id = r.id /\ id \in Id /\ i = Hash(id)
  BY <1>3, Geometry
<1>6. told \in [Id -> {"none", "listen", "listening", "accept", "open", "end"}] /\ s[i] \in Socket
  BY DEF TypeOK
<1>7. Frame /\ UNCHANGED <<at, closer>>
  BY DEF CloseSocket, netVars, history, Frame
<1>8. (Report(id, "end") => ToldOf(id) /\ told'[id] = "end") /\ (UNCHANGED told => ToldOf(id))
  BY <1>5, <1>6 DEF Report, ToldOf
<1>2. \/ Gone(id) /\ Report(id, "end") /\ st' = [pc |-> "clear", id |-> id] /\ UNCHANGED s
      \/ st' = [pc |-> "aborted"] /\ UNCHANGED <<s, told>>
      \/ /\ ~Gone(id) /\ s[i].type # "RESERVE" /\ UNCHANGED told
         /\ \/ UNCHANGED s /\ st' = [pc |-> "recheck", i |-> i, shutdown |-> r.shutdown]
            \/ /\ s' = [s EXCEPT ![i].lock = Thread]
               /\ st' = [pc |-> "send", i |-> i, shutdown |-> r.shutdown, clear |-> TRUE]
  BY <1>3, <1>5 DEF CloseSocket
<1>4. AllPlain
  BY <1>2, FieldLists, PlainTurns
<1>9. HangStep(r)
  <2>1. CASE Gone(id) /\ Report(id, "end") /\ st' = [pc |-> "clear", id |-> id] /\ UNCHANGED s
    <3>1. st'.pc \notin AtSlot
      BY <1>5, <2>1, ThreadPlaces
    <3> QED
      BY <1>3, <1>4, <1>5, <1>7, <1>8, <2>1, <3>1 DEF HangStep
  <2>2. CASE st' = [pc |-> "aborted"] /\ UNCHANGED <<s, told>>
    <3>1. st'.pc \notin AtSlot
      BY <2>2, ThreadPlaces
    <3> QED
      BY <1>3, <1>4, <1>5, <1>7, <1>8, <2>2, <3>1 DEF HangStep
  <2>3. CASE /\ ~Gone(id) /\ s[i].type # "RESERVE" /\ UNCHANGED told
             /\ \/ UNCHANGED s /\ st' = [pc |-> "recheck", i |-> i, shutdown |-> r.shutdown]
                \/ /\ s' = [s EXCEPT ![i].lock = Thread]
                   /\ st' = [pc |-> "send", i |-> i, shutdown |-> r.shutdown, clear |-> TRUE]
    <3>1. st'.pc \in {"recheck", "send"} /\ st'.i = i
      BY <2>3
    <3>2. s[i].type \notin Closed
      BY <1>5, <2>3 DEF Gone, Closed
    <3> QED
      BY <1>3, <1>4, <1>5, <1>7, <1>8, <2>3, <3>1, <3>2 DEF HangStep
  <2> QED
    BY <1>2, <2>1, <2>2, <2>3
<1> QED
  BY <1>9 DEF ThreadMove

LEMMA EndMove ==
  ASSUME IInv, EndClose
  PROVE  ThreadMove
<1> USE DEF IInv
<1>1. st.pc = "closing" /\ st.pc \in AtSlot
  BY DEF EndClose, AtSlot
<1>2. PICK i \in Slot : i = st.i /\ s[i].type \notin Closed /\ s[i].id \in Id
  BY <1>1, SlotAtWork
<1>3. /\ dropped' = dropped \cup ToSet(s[i].dw) /\ ended' = [ended EXCEPT ![s[i].id] = st.how] /\ Report(s[i].id, "end")
      /\ st' = [pc |-> "clear", id |-> s[i].id] \/ st' = Loop
      /\ UNCHANGED <<pipe, at, wire, sent, cut, closer>>
  BY <1>2 DEF EndClose, netVars
<1>4. ToldOf(s[i].id) /\ told'[s[i].id] = "end"
  BY <1>2, <1>3 DEF Report, ToldOf, TypeOK
<1>5. st'.pc \notin AtSlot
  <2>1. s[i].id \in Nat
    BY InvTypes
  <2> QED
    BY <1>3, <2>1, ThreadPlaces
<1>6. /\ s'[i].type = "INVALID" /\ s'[i].id = s[i].id /\ s'[i].dw = <<>>
      /\ s'[i].high = s[i].high /\ s'[i].low = s[i].low /\ Others(i)
  BY <1>2, EndCloseLists
<1>7. EndStep(i)
  BY <1>1, <1>2, <1>3, <1>4, <1>5, <1>6 DEF EndStep
<1> QED
  BY <1>7 DEF ThreadMove

\* force_close up to the lock
LEMMA BeginCloseMove ==
  ASSUME IInv, NEW i \in Slot, s[i].type \notin Closed, NEW how, NEW clear, BeginClose(i, how, clear),
         st.pc \notin {"closing", "send"}, how = "cut" \/ (how = "drained" /\ NoMoreData(s[i]) /\ st.pc = "recheck" /\ st.i = i),
         UNCHANGED pipe \/ StartTaken, UNCHANGED <<at, wire, told, sent, ended, closer>>
  PROVE  ThreadMove
<1> USE DEF IInv
<1>1. s[i].id \in Nat
  BY InvTypes
<1>2. s[i].id \in Id
  BY <1>1 DEF Slots
<1>3. Holding(i, s[i].dw, <<>>, <<>>)
  BY BeginCloseLists DEF Holding
<1>4. st' = [pc |-> "closing", i |-> i, how |-> how, clear |-> clear]
  BY DEF BeginClose
<1>5. st'.pc = "closing" /\ st'.i = i /\ st'.how = how
  BY <1>4
<1>6. CutStep(i, how)
  BY <1>2, <1>3, <1>5 DEF CutStep, BeginClose
<1> QED
  BY <1>6 DEF ThreadMove

LEMMA StartFailsMove ==
  ASSUME IInv, StartFails
  PROVE  ThreadMove
<1>1. Cmd("S") /\ pipe' = Tail(pipe)
  BY DEF StartFails
<1>2. st = Loop /\ StartTaken /\ Head(pipe).id \in Nat
  BY <1>1, HeadRequest DEF StartTaken
<1>3. PICK i \in Slot : i = Hash(Head(pipe).id)
  BY <1>2, Geometry DEF IInv
<1>4. s[i].type \notin Closed /\ BeginClose(i, "cut", TRUE) /\ UNCHANGED <<at, wire, told, sent, ended, closer>>
  BY <1>3 DEF StartFails, Closed, netVars
<1>5. st.pc \notin {"closing", "send"}
  BY <1>2, ThreadPlaces DEF AtSlot
<1> QED
  BY <1>2, <1>4, <1>5, BeginCloseMove

LEMMA HalfMove ==
  ASSUME IInv, HalfClose
  PROVE  ThreadMove
<1> USE DEF IInv
<1>1. st.pc = "recheck" /\ st.pc \in AtSlot /\ UNCHANGED <<pipe, at, wire, told, sent, ended, closer>>
  BY DEF HalfClose, AtSlot, netVars
<1>2. PICK i \in Slot : i = st.i /\ s[i].type \notin Closed
  BY <1>1, SlotAtWork
<1>3. \/ BeginClose(i, "cut", TRUE)
      \/ BeginClose(i, "drained", TRUE) /\ NoMoreData(s[i])
      \/ s' = [s EXCEPT ![i].type = "HALFCLOSE"] /\ st' = Loop /\ UNCHANGED <<dropped, cut>>
  BY <1>2 DEF HalfClose
<1>4. CASE BeginClose(i, "cut", TRUE)
  BY <1>1, <1>2, <1>4, BeginCloseMove
<1>5. CASE BeginClose(i, "drained", TRUE) /\ NoMoreData(s[i])
  BY <1>1, <1>2, <1>5, BeginCloseMove
<1>6. CASE s' = [s EXCEPT ![i].type = "HALFCLOSE"] /\ st' = Loop /\ UNCHANGED <<dropped, cut>>
  <2>1. Turns(i, "HALFCLOSE", s[i].id)
    BY <1>6, FieldLists
  <2>2. HalfStep(i)
    BY <1>1, <1>2, <1>6, <2>1 DEF HalfStep, Frame
  <2> QED
    BY <2>2 DEF ThreadMove
<1> QED
  BY <1>3, <1>4, <1>5, <1>6

LEMMA QuietMove ==
  ASSUME IInv, AbortNewFd \/ ClearClosedEvent \/ NoCmd \/ Wait \/ SkipEvent \/ StaleEvent
  PROVE  StayStep
<1>1. Frame /\ UNCHANGED <<s, pipe, told, closer, at>>
  BY DEF AbortNewFd, ClearClosedEvent, NoCmd, Wait, SkipEvent, StaleEvent, Handled, netVars, history, Frame
<1>2. st' \in {Loop, [pc |-> "first"], [pc |-> "aborted"]}
  BY DEF AbortNewFd, ClearClosedEvent, NoCmd, Wait, SkipEvent, StaleEvent, Handled
<1>3. st'.pc \notin AtSlot
  BY <1>2, ThreadPlaces
<1>4. st = Loop \/ st.pc = "first" \/ st.pc = "clear"
  BY DEF AbortNewFd, ClearClosedEvent, NoCmd, Wait, SkipEvent, StaleEvent, Event, Cmd
<1>5. st.pc \notin AtSlot
  BY <1>4, ThreadPlaces DEF AtSlot
<1>6. AllPlain
  BY <1>1 DEF AllPlain, Plain, SameList
<1> QED
  BY <1>1, <1>3, <1>5, <1>6, StayIdle DEF IInv

LEMMA AtEvent ==
  ASSUME NEW types, Event(types)
  PROVE  st.pc \notin AtSlot
<1>1. st.pc = "first" \/ st = Loop
  BY DEF Event
<1> QED
  BY <1>1, ThreadPlaces DEF AtSlot

LEMMA ConnectMove ==
  ASSUME IInv, ReportConnect
  PROVE  ThreadMove
<1> USE DEF IInv
<1>1. UNCHANGED <<pipe, at, wire, sent, ended, closer>> /\ Event({"CONNECTING"})
  BY DEF ReportConnect, netVars
<1>2. PICK i \in Slot : i = Head(ev).i /\ s[i].type = "CONNECTING"
  BY <1>1 DEF Event
<1>3. s[i] \in Socket /\ s[i].type \notin Closed
  BY <1>2 DEF TypeOK, Closed
<1>4. PICK id \in Nat : id = s[i].id /\ id \in Id
  BY <1>3 DEF Slots, Socket
<1>5. \/ BeginClose(i, "cut", FALSE) /\ UNCHANGED told
      \/ /\ s' = [s EXCEPT ![i].type = "CONNECTED", ![i].out = ~NoMoreData(s[i])]
         /\ Report(id, "open") /\ st' = Loop /\ UNCHANGED <<dropped, cut>>
  BY <1>2, <1>4 DEF ReportConnect
<1>8. st.pc \notin AtSlot
  BY <1>1, AtEvent
<1>6. CASE BeginClose(i, "cut", FALSE) /\ UNCHANGED told
  BY <1>1, <1>3, <1>6, <1>8, BeginCloseMove DEF AtSlot
<1>7. CASE /\ s' = [s EXCEPT ![i].type = "CONNECTED", ![i].out = ~NoMoreData(s[i])]
           /\ Report(id, "open") /\ st' = Loop /\ UNCHANGED <<dropped, cut>>
  <2>1. PICK b : b = ~NoMoreData(s[i])
    OBVIOUS
  <2>2. Turns(i, "CONNECTED", s[i].id)
    BY <1>7, <2>1, FieldLists
  <2>3. ToldOf(id) /\ told'[id] = "open"
    BY <1>4, <1>7 DEF Report, ToldOf, TypeOK
  <2>4. ConnectStep(i)
    BY <1>1, <1>2, <1>4, <1>7, <1>8, <2>2, <2>3 DEF ConnectStep, Frame
  <2> QED
    BY <2>4 DEF ThreadMove
<1> QED
  BY <1>5, <1>6, <1>7

LEMMA AcceptMove ==
  ASSUME IInv, ReportAccept
  PROVE  ThreadMove
<1> USE DEF IInv
<1>1. st' = Loop /\ UNCHANGED <<pipe, at, closer>> /\ Frame /\ Event({"LISTEN"})
  BY DEF ReportAccept, Handled, history, Frame
<1>2. st.pc \notin AtSlot /\ st'.pc \notin AtSlot
  BY <1>1, AtEvent, ThreadPlaces
<1>4. \/ CanReserve /\ NewFd(NextId, "PACCEPT", FALSE, FALSE) /\ Report(NextId, "accept")
      \/ UNCHANGED <<s, told>>
  BY DEF ReportAccept
<1>5. CASE CanReserve /\ NewFd(NextId, "PACCEPT", FALSE, FALSE) /\ Report(NextId, "accept")
  <2>1. PICK n \in Nat : n = NextId /\ n \in Id /\ n > alloc_id /\ s[Hash(n)].type = "INVALID"
    BY <1>5, NextIdView
  <2>2. "PACCEPT" \in SlotType \ Closed /\ "INVALID" \in Closed /\ "PACCEPT" # "HALFCLOSE"
    BY DEF SlotType, Closed
  <2>3. LET i == Hash(n) IN
        /\ s[i].high = <<>> /\ s[i].low = <<>>
        /\ s'[i].type = "PACCEPT" /\ s'[i].id = n /\ s'[i].dw = <<>> /\ s'[i].high = <<>> /\ s'[i].low = <<>>
        /\ Others(i)
    BY <1>5, <2>1, NewFdLists
  <2>4. ToldOf(n) /\ told'[n] = "accept"
    BY <1>5, <2>1 DEF Report, ToldOf, TypeOK
  <2>5. ~Known(n)
    BY <2>1 DEF Ids, Known
  <2>6. NewStep(n, "PACCEPT")
    BY <1>1, <1>2, <2>1, <2>2, <2>3, <2>4, <2>5 DEF NewStep
  <2> QED
    BY <2>6 DEF ThreadMove
<1>6. CASE UNCHANGED <<s, told>>
  <2>1. AllPlain
    BY <1>6 DEF AllPlain, Plain, SameList
  <2> QED
    BY <1>1, <1>2, <1>6, <2>1, StayIdle DEF ThreadMove
<1> QED
  BY <1>4, <1>5, <1>6

LEMMA EventMove ==
  ASSUME IInv, ReadEvent \/ WriteEvent \/ ErrorEvent
  PROVE  ThreadMove
<1> USE DEF IInv
<1>1. UNCHANGED <<pipe, told, at, wire, sent, ended, closer>> /\ Event(Streams)
  BY DEF ReadEvent, WriteEvent, ErrorEvent, netVars, history
<1>2. PICK i \in Slot : i = Head(ev).i /\ s[i].type \in Streams
  BY <1>1 DEF Event
<1>3. s[i].type \notin Closed
  BY <1>2 DEF Streams, Closed
<1>4. \/ BeginClose(i, "cut", FALSE)
      \/ UNCHANGED <<s, dropped, cut>> /\ st' = Loop
      \/ /\ s' = [s EXCEPT ![i].lock = Thread] /\ UNCHANGED <<dropped, cut>>
         /\ st' = [pc |-> "send", i |-> i, shutdown |-> FALSE, clear |-> FALSE]
  BY <1>2 DEF ReadEvent, WriteEvent, ErrorEvent, history
<1>8. st.pc \notin AtSlot
  BY <1>1, AtEvent
<1>5. CASE BeginClose(i, "cut", FALSE)
  BY <1>1, <1>3, <1>5, <1>8, BeginCloseMove DEF AtSlot
<1>6. CASE UNCHANGED <<s, dropped, cut>> /\ st' = Loop
  <2>1. AllPlain /\ st'.pc \notin AtSlot
    BY <1>6, ThreadPlaces DEF AllPlain, Plain, SameList
  <2> QED
    BY <1>1, <1>6, <1>8, <2>1, StayIdle DEF ThreadMove, Frame
<1>7. CASE /\ s' = [s EXCEPT ![i].lock = Thread] /\ UNCHANGED <<dropped, cut>>
           /\ st' = [pc |-> "send", i |-> i, shutdown |-> FALSE, clear |-> FALSE]
  <2>1. AllPlain
    BY <1>7, FieldLists, PlainTurns
  <2>2. st'.pc = "send" /\ ~st'.clear
    BY <1>7
  <2> QED
    BY <1>1, <1>7, <1>8, <2>1, <2>2, StayIdle DEF ThreadMove, Frame
<1> QED
  BY <1>4, <1>5, <1>6, <1>7

LEMMA StandsStill ==
  ASSUME TypeOK, UNCHANGED <<s, pipe, told, at, st, wire, sent, dropped, cut, ended, closer>>
  PROVE  StayStep
BY DEF StayStep, Frame, AllPlain, Plain, SameList, Carries, Looks

Move == (\E v \in Service : ServiceMove(v)) \/ ThreadMove

LEMMA EveryMove ==
  ASSUME IInv, [Next]_vars
  PROVE  Move
<1>1. ASSUME NEW v \in Service, Call(v) \/ ServiceStep(v) PROVE Move
  BY <1>1, CallMove, ServiceStepMove DEF Move
<1>2. ASSUME ThreadStep PROVE Move
  <2>1. ASSUME NEW c \in Sending, SendSocket(c) PROVE ThreadMove
    BY <2>1, SendSocketStep DEF ThreadMove
  <2>2. ASSUME SendBuffer PROVE ThreadMove
    BY <2>2, SendBufferStep DEF ThreadMove
  <2>3. ThreadMove
    BY <1>2, <2>1, <2>2, OpenMove, StartMove, StartFailsMove, HangMove, EndMove, HalfMove, QuietMove, ConnectMove, AcceptMove, EventMove
       DEF ThreadStep, ThreadMove, Sending
  <2> QED
    BY <2>3 DEF Move
<1>3. ASSUME NEW id \in Id, Connect(id) \/ Net(id) \/ Drain(id) PROVE Move
  <2>1. UNCHANGED <<s, pipe, told, at, st, wire, sent, dropped, cut, ended, closer>>
    BY <1>3 DEF Connect, Net, Drain, serverVars, history
  <2> QED
    BY <2>1, StandsStill DEF IInv, Move, ThreadMove
<1>4. ASSUME UNCHANGED vars PROVE Move
  <2>1. UNCHANGED <<s, pipe, told, at, st, wire, sent, dropped, cut, ended, closer>>
    BY <1>4 DEF vars, serverVars, netVars, history
  <2> QED
    BY <2>1, StandsStill DEF IInv, Move, ThreadMove
<1> QED
  BY <1>1, <1>2, <1>3, <1>4 DEF Next

-----------------------------------------------------------------------------
(* Packages in the pipe *)

Ship(q, p) == \E r \in Request : Member(q, r) /\ r.c \in Sending /\ r.p = p
\* The packages of a service are in the order in which it sent them.
Queue(q) ==
    \A j, k \in DOMAIN q : j < k /\ q[j].c \in Sending /\ q[k].c \in Sending /\ q[j].p[1] = q[k].p[1] =>
        q[j].p[2] < q[k].p[2]

LEMMA ShipAppend ==
  ASSUME NEW q \in Seq(Request), NEW e \in Request
  PROVE  /\ \A p : Ship(Append(q, e), p) <=> Ship(q, p) \/ (e.c \in Sending /\ e.p = p)
         /\ /\ Queue(q)
            /\ e.c \in Sending =>
                  \A r \in Request : Member(q, r) /\ r.c \in Sending /\ r.p[1] = e.p[1] => r.p[2] < e.p[2]
            => Queue(Append(q, e))
<1> DEFINE a == Append(q, e)
<1>1. Len(a) = Len(q) + 1 /\ a[Len(q) + 1] = e /\ a \in Seq(Request) /\ \A i \in 1..Len(q) : a[i] = q[i]
  BY AppendProperties
<1>2. Len(q) \in Nat /\ DOMAIN q = 1..Len(q) /\ DOMAIN a = 1..(Len(q) + 1) /\ \A i \in DOMAIN q : q[i] \in Request
  BY <1>1, LenProperties, ElementOfSeq
<1>3. \A x : Member(a, x) <=> x = e \/ Member(q, x)
  BY AppendPipe
<1> HIDE DEF a
<1>4. \A p : Ship(a, p) <=> Ship(q, p) \/ (e.c \in Sending /\ e.p = p)
  BY <1>3 DEF Ship
<1>5. ASSUME Queue(q),
             e.c \in Sending =>
                  \A r \in Request : Member(q, r) /\ r.c \in Sending /\ r.p[1] = e.p[1] => r.p[2] < e.p[2]
      PROVE  Queue(a)
  <2> SUFFICES ASSUME NEW j \in DOMAIN a, NEW k \in DOMAIN a, j < k, a[j].c \in Sending, a[k].c \in Sending,
                      a[j].p[1] = a[k].p[1]
               PROVE  a[j].p[2] < a[k].p[2]
    BY DEF Queue
  <2>1. j \in DOMAIN q /\ (k \in DOMAIN q \/ k = Len(q) + 1)
    BY <1>2
  <2>2. CASE k \in DOMAIN q
    BY <1>1, <1>2, <1>5, <2>1, <2>2 DEF Queue
  <2>3. CASE k = Len(q) + 1
    <3>1. a[k] = e /\ a[j] = q[j] /\ q[j] \in Request /\ Member(q, q[j])
      BY <1>1, <1>2, <2>1, <2>3 DEF Member
    <3> QED
      BY <1>5, <3>1
  <2> QED
    BY <2>1, <2>2, <2>3
<1> QED
  BY <1>4, <1>5 DEF a

LEMMA ShipTail ==
  ASSUME NEW q \in Seq(Request), q # <<>>
  PROVE  /\ \A p : Ship(q, p) <=> Ship(Tail(q), p) \/ (Head(q).c \in Sending /\ Head(q).p = p)
         /\ Queue(q) => Queue(Tail(q))
         /\ Queue(q) /\ Head(q).c \in Sending =>
               \A r \in Request : Member(Tail(q), r) /\ r.c \in Sending /\ r.p[1] = Head(q).p[1] =>
                   Head(q).p[2] < r.p[2]
<1> DEFINE a == Tail(q)
<1>1. /\ Head(q) \in Request /\ a \in Seq(Request) /\ Len(a) = Len(q) - 1 /\ Head(q) = q[1]
      /\ \A i \in 1..Len(a) : a[i] = q[i + 1]
  BY HeadTailProperties
<1>2. Len(q) \in Nat \ {0} /\ DOMAIN q = 1..Len(q) /\ DOMAIN a = 1..(Len(q) - 1)
  BY <1>1, LenProperties, EmptySeq
<1>3. \A x : Member(q, x) <=> x = Head(q) \/ Member(a, x)
  BY TailPipe
<1> HIDE DEF a
<1>4. ASSUME NEW i \in DOMAIN a PROVE i + 1 \in DOMAIN q /\ a[i] = q[i + 1] /\ i \in Nat \ {0}
  BY <1>1, <1>2, <1>4
<1>5. 1 \in DOMAIN q
  BY <1>2
<1>6. \A p : Ship(q, p) <=> Ship(a, p) \/ (Head(q).c \in Sending /\ Head(q).p = p)
  BY <1>1, <1>3 DEF Ship
<1>7. ASSUME Queue(q) PROVE Queue(a)
  <2> SUFFICES ASSUME NEW j \in DOMAIN a, NEW k \in DOMAIN a, j < k, a[j].c \in Sending, a[k].c \in Sending,
                      a[j].p[1] = a[k].p[1]
               PROVE  a[j].p[2] < a[k].p[2]
    BY DEF Queue
  <2>1. j + 1 < k + 1
    BY <1>4
  <2> QED
    BY <1>4, <1>7, <2>1 DEF Queue
<1>8. ASSUME Queue(q), Head(q).c \in Sending, NEW r \in Request, Member(a, r), r.c \in Sending, r.p[1] = Head(q).p[1]
      PROVE  Head(q).p[2] < r.p[2]
  <2>1. PICK k \in DOMAIN a : a[k] = r
    BY <1>8 DEF Member
  <2>2. 1 < k + 1 /\ k + 1 \in DOMAIN q /\ q[k + 1] = r
    BY <1>4, <2>1
  <2> QED
    BY <1>1, <1>5, <1>8, <2>2 DEF Queue
<1> QED
  BY <1>6, <1>7, <1>8 DEF a

-----------------------------------------------------------------------------
(* Who has a unit *)

Given(u) == u[1][2] \in DOMAIN sent[u[1][1]]
Holds(h, x, u) ==
    \/ h = "service" /\ x \in Service /\ at[x].pc \in WithPackage /\ at[x].p = u[1]
    \/ h = "pipe" /\ x = 0 /\ Ship(pipe, u[1])
    \/ h = "slot" /\ x \in Slot /\ Member(Waiting(s[x]), u)
    \/ h = "wire" /\ x \in Id /\ Member(wire[x], u)
    \/ h = "freed" /\ x = 0 /\ u \in dropped
\* A unit of a package that was sent has one holder, any other none.
OneHolder(u) ==
    /\ Given(u) <=> \E h, x : Holds(h, x, u)
    /\ \A h, x, g, y : Holds(h, x, u) /\ Holds(g, y, u) => h = g /\ x = y
\* ... and is there once.
Single ==
    /\ \A i \in Slot : Once(Waiting(s[i]))
    /\ \A id \in Id : Once(wire[id])
    /\ Queue(pipe)
\* Nothing is left of a direct write of a slot that is free, nor in front of a direct write.
DwEmpty ==
    /\ \A i \in Slot : s[i].type \in Closed => s[i].dw = <<>>
    /\ \A v \in Service, id \in Nat : at[v].pc = "check2" /\ at[v].id = id => s[Hash(id)].dw = <<>>
\* The package of a call is the last of its service.
Latest == \A v \in Service : at[v].pc \in WithPackage => at[v].p = <<v, Len(sent[v])>>
Owned == (\A u \in Unit : OneHolder(u)) /\ Single /\ DwEmpty /\ Latest

\* What may happen to a unit: nothing, or it goes from one holder to another, or it is new.
Moves(u, g, y, f, z) ==
    /\ Given(u)' /\ Holds(g, y, u) /\ Holds(f, z, u)'
    /\ \A h, x : Holds(h, x, u)' => (h = f /\ x = z) \/ (Holds(h, x, u) /\ ~(h = g /\ x = y))
Appears(u, f, z) ==
    /\ ~Given(u) /\ Given(u)' /\ Holds(f, z, u)'
    /\ \A h, x : Holds(h, x, u)' => (h = f /\ x = z) \/ Holds(h, x, u)

LEMMA OneHolderKept ==
  ASSUME NEW u \in Unit, OneHolder(u),
         \/ (Given(u)' <=> Given(u)) /\ \A h, x : Holds(h, x, u)' <=> Holds(h, x, u)
         \/ \E g, y, f, z : Moves(u, g, y, f, z)
         \/ \E f, z : Appears(u, f, z)
  PROVE  OneHolder(u)'
<1>1. CASE (Given(u)' <=> Given(u)) /\ \A h, x : Holds(h, x, u)' <=> Holds(h, x, u)
  BY <1>1 DEF OneHolder
<1>2. ASSUME NEW g, NEW y, NEW f, NEW z, Moves(u, g, y, f, z) PROVE OneHolder(u)'
  <2>1. /\ Given(u)' /\ Holds(g, y, u) /\ Holds(f, z, u)'
        /\ \A h, x : Holds(h, x, u)' => (h = f /\ x = z) \/ (Holds(h, x, u) /\ ~(h = g /\ x = y))
    BY <1>2 DEF Moves
  <2>2. \A h, x : Holds(h, x, u) => h = g /\ x = y
    BY <2>1 DEF OneHolder
  <2>3. \A h, x : Holds(h, x, u)' => h = f /\ x = z
    BY <2>1, <2>2
  <2> QED
    BY <2>1, <2>3 DEF OneHolder
<1>3. ASSUME NEW f, NEW z, Appears(u, f, z) PROVE OneHolder(u)'
  <2>1. /\ Given(u)' /\ Holds(f, z, u)'
        /\ \A h, x : Holds(h, x, u)' => (h = f /\ x = z) \/ Holds(h, x, u)
    BY <1>3 DEF Appears
  <2>2. \A h, x : ~Holds(h, x, u)
    BY <1>3 DEF OneHolder, Appears
  <2>3. \A h, x : Holds(h, x, u)' => h = f /\ x = z
    BY <2>1, <2>2
  <2> QED
    BY <2>1, <2>3 DEF OneHolder
<1> QED
  BY <1>1, <1>2, <1>3

HoldsThen(h, x, u) ==
    \/ h = "service" /\ x \in Service /\ at'[x].pc \in WithPackage /\ at'[x].p = u[1]
    \/ h = "pipe" /\ x = 0 /\ Ship(pipe', u[1])
    \/ h = "slot" /\ x \in Slot /\ Member(Waiting(s'[x]), u)
    \/ h = "wire" /\ x \in Id /\ Member(wire'[x], u)
    \/ h = "freed" /\ x = 0 /\ u \in dropped'

LEMMA HoldsNext ==
  ASSUME lim' = lim, NEW u, NEW h, NEW x
  PROVE  Holds(h, x, u)' <=> HoldsThen(h, x, u)
BY GeometryKept DEF Holds, HoldsThen, Ship, Member, Waiting

LEMMA SingleNext ==
  ASSUME lim' = lim, \A i \in Slot : Once(Waiting(s'[i])), \A id \in Id : Once(wire'[id]), Queue(pipe')
  PROVE  Single'
BY GeometryKept DEF Single, Once, Waiting, Queue

\* The holders of all units, in one formula
Holders == (\A u \in Unit : OneHolder(u)) /\ Single

LEMMA WaitingTypes ==
  ASSUME TypeOK, NEW i \in Slot
  PROVE  /\ s[i].dw \in Seq(Unit) /\ s[i].high \in Seq(Unit) /\ s[i].low \in Seq(Unit)
         /\ s[i].dw \o s[i].high \in Seq(Unit) /\ s[i].high \o s[i].low \in Seq(Unit) /\ Waiting(s[i]) \in Seq(Unit)
         /\ Waiting(s[i]) = s[i].dw \o (s[i].high \o s[i].low)
<1>1. s[i].dw \in Seq(Unit) /\ s[i].high \in Seq(Unit) /\ s[i].low \in Seq(Unit)
  BY DEF TypeOK, Socket
<1>2. s[i].dw \o s[i].high \in Seq(Unit) /\ s[i].high \o s[i].low \in Seq(Unit)
  BY <1>1, Concat
<1>3. Waiting(s[i]) = (s[i].dw \o s[i].high) \o s[i].low
  BY DEF Waiting
<1>4. Waiting(s[i]) \in Seq(Unit)
  BY <1>1, <1>2, <1>3, Concat
<1>5. Waiting(s[i]) = s[i].dw \o (s[i].high \o s[i].low)
  BY <1>1, <1>3, Assoc
<1> QED
  BY <1>1, <1>2, <1>4, <1>5

LEMMA QuietHolders ==
  ASSUME IInv, Holders, lim' = lim, UNCHANGED <<sent, dropped, wire>>,
         \A j \in Slot : Waiting(s'[j]) = Waiting(s[j]), \A v \in Service : Carries(v),
         \/ pipe' = pipe
         \/ \E r \in Request : r.c \notin Sending /\ pipe' = Append(pipe, r)
         \/ pipe # <<>> /\ Head(pipe).c \notin Sending /\ pipe' = Tail(pipe)
  PROVE  Holders'
<1>0. pipe \in Seq(Request)
  BY DEF IInv, TypeOK
<1>1. (\A p : Ship(pipe', p) <=> Ship(pipe, p)) /\ Queue(pipe')
  <2>1. Queue(pipe)
    BY DEF Holders, Single
  <2>2. CASE pipe' = pipe
    BY <2>1, <2>2
  <2>3. ASSUME NEW r \in Request, r.c \notin Sending, pipe' = Append(pipe, r)
        PROVE  (\A p : Ship(pipe', p) <=> Ship(pipe, p)) /\ Queue(pipe')
    BY <1>0, <2>1, <2>3, ShipAppend
  <2>4. CASE pipe # <<>> /\ Head(pipe).c \notin Sending /\ pipe' = Tail(pipe)
    BY <1>0, <2>1, <2>4, ShipTail
  <2> QED
    BY <2>2, <2>3, <2>4
<1>2. ASSUME NEW u \in Unit PROVE OneHolder(u)'
  <2>1. Given(u)' <=> Given(u)
    BY DEF Given
  <2>2. ASSUME NEW x \in Service
        PROVE  at'[x].pc \in WithPackage /\ at'[x].p = u[1] <=> at[x].pc \in WithPackage /\ at[x].p = u[1]
    BY DEF Carries
  <2>3. ASSUME NEW h, NEW x PROVE Holds(h, x, u)' <=> Holds(h, x, u)
    <3>1. HoldsThen(h, x, u) <=> Holds(h, x, u)
      BY <1>1, <2>2 DEF Holds, HoldsThen
    <3> QED
      BY <3>1, HoldsNext
  <2>4. OneHolder(u)
    BY DEF Holders
  <2> QED
    BY <2>1, <2>3, <2>4, OneHolderKept
<1>3. Single'
  BY <1>1, SingleNext DEF Holders, Single
<1> QED
  BY <1>2, <1>3 DEF Holders

LEMMA SentGrows ==
  ASSUME TypeOK, NEW v \in Service, NEW m, sent' = [sent EXCEPT ![v] = Append(sent[v], m)], NEW u \in Unit
  PROVE  /\ Given(u)' <=> Given(u) \/ u[1] = <<v, Len(sent[v]) + 1>>
         /\ u[1] = <<v, Len(sent[v]) + 1>> => ~Given(u)
<1>1. sent[v] \in Seq(Package) /\ sent \in [Service -> Seq(Package)]
  BY DEF TypeOK
<1>2. PICK w \in Service, k \in Nat : u[1] = <<w, k>>
  BY DEF Unit
<1>3. Len(sent[v]) \in Nat /\ DOMAIN sent[v] = 1..Len(sent[v])
  BY <1>1, LenProperties
<1>4. sent'[v] = Append(sent[v], m) /\ \A x \in Service : x # v => sent'[x] = sent[x]
  BY <1>1
<1>5. DOMAIN Append(sent[v], m) = 1..(Len(sent[v]) + 1)
  BY <1>1, <1>3
<1>6. CASE w = v
  <2>1. Given(u)' <=> k \in 1..(Len(sent[v]) + 1)
    BY <1>2, <1>4, <1>5, <1>6 DEF Given
  <2>2. Given(u) <=> k \in 1..Len(sent[v])
    BY <1>2, <1>3, <1>6 DEF Given
  <2>3. k \in 1..(Len(sent[v]) + 1) <=> k \in 1..Len(sent[v]) \/ k = Len(sent[v]) + 1
    BY <1>3
  <2>4. ~(Len(sent[v]) + 1 \in 1..Len(sent[v]))
    BY <1>3
  <2> QED
    BY <1>2, <1>6, <2>1, <2>2, <2>3, <2>4
<1>7. CASE w # v
  BY <1>2, <1>4, <1>7 DEF Given
<1> QED
  BY <1>6, <1>7

LEMMA SendHolders ==
  ASSUME IInv, Holders, lim' = lim, NEW v \in Service, NEW m, SendStep(v, m)
  PROVE  Holders'
<1> DEFINE p == <<v, Len(sent[v]) + 1>>
<1>1. /\ at[v].pc = "idle" /\ sent' = [sent EXCEPT ![v] = Append(sent[v], m)]
      /\ \/ dropped' = dropped \cup ToSet(Units(p)) /\ UNCHANGED at
         \/ /\ UNCHANGED dropped /\ at'[v].pc \in {"look", "ref"} /\ at'[v].p = p /\ Only(v)
      /\ UNCHANGED <<s, pipe, wire>>
  BY DEF SendStep
<1>2. p \in Service \X Nat
  <2>1. Len(sent[v]) \in Nat
    BY LenProperties DEF IInv, TypeOK
  <2> QED
    BY <2>1
<1>3. at[v].pc \notin WithPackage /\ {"look", "ref"} \subseteq WithPackage
  BY <1>1 DEF WithPackage
<1>4. ASSUME NEW u \in Unit PROVE OneHolder(u)'
  <2>1. /\ Given(u)' <=> Given(u) \/ u[1] = p
        /\ u[1] = p => ~Given(u)
    BY <1>1, SentGrows DEF IInv
  <2>2. u \in ToSet(Units(p)) <=> u[1] = p
    BY <1>2, UnitsOf, SetOf
  <2> HIDE DEF p
  <2>3. OneHolder(u)
    BY DEF Holders
  <2>4. CASE dropped' = dropped \cup ToSet(Units(p)) /\ UNCHANGED at
    <3>1. ASSUME NEW h, NEW x
          PROVE  Holds(h, x, u)' <=> Holds(h, x, u) \/ (u[1] = p /\ h = "freed" /\ x = 0)
      <4>1. HoldsThen(h, x, u) <=> Holds(h, x, u) \/ (u[1] = p /\ h = "freed" /\ x = 0)
        BY <1>1, <2>2, <2>4 DEF Holds, HoldsThen
      <4> QED
        BY <4>1, HoldsNext
    <3>2. CASE u[1] = p
      <4>1. Appears(u, "freed", 0)
        BY <2>1, <3>1, <3>2 DEF Appears
      <4> QED
        BY <2>3, <4>1, OneHolderKept
    <3>3. CASE u[1] # p
      BY <2>1, <2>3, <3>1, <3>3, OneHolderKept
    <3> QED
      BY <3>2, <3>3
  <2>5. CASE UNCHANGED dropped /\ at'[v].pc \in {"look", "ref"} /\ at'[v].p = p /\ Only(v)
    <3>1. ASSUME NEW h, NEW x
          PROVE  Holds(h, x, u)' <=> Holds(h, x, u) \/ (u[1] = p /\ h = "service" /\ x = v)
      <4>1. ASSUME NEW w \in Service
            PROVE at'[w].pc \in WithPackage /\ at'[w].p = u[1] <=>
                    (at[w].pc \in WithPackage /\ at[w].p = u[1]) \/ (u[1] = p /\ w = v)
        <5>1. CASE w = v
          BY <1>3, <2>5, <5>1
        <5>2. CASE w # v
          BY <2>5, <5>2 DEF Only
        <5> QED
          BY <5>1, <5>2
      <4>2. HoldsThen(h, x, u) <=> Holds(h, x, u) \/ (u[1] = p /\ h = "service" /\ x = v)
        BY <1>1, <2>5, <4>1 DEF Holds, HoldsThen
      <4> QED
        BY <4>2, HoldsNext
    <3>2. CASE u[1] = p
      <4>1. Appears(u, "service", v)
        BY <2>1, <3>1, <3>2 DEF Appears
      <4> QED
        BY <2>3, <4>1, OneHolderKept
    <3>3. CASE u[1] # p
      BY <2>1, <2>3, <3>1, <3>3, OneHolderKept
    <3> QED
      BY <3>2, <3>3
  <2> QED
    BY <1>1, <2>4, <2>5 DEF p
<1>5. Single'
  BY <1>1, SingleNext DEF Holders, Single
<1> QED
  BY <1>4, <1>5 DEF Holders

LEMMA PostHolders ==
  ASSUME IInv, Holders, Latest, lim' = lim, NEW v \in Service, NEW r, PostStep(v, r)
  PROVE  Holders'
<1> DEFINE p == at[v].p
<1>1. /\ r \in Request /\ r.c \in Sending /\ at[v].pc \in WithPackage /\ r.p = p
      /\ pipe' = Append(pipe, r) /\ at'[v].pc \notin WithPackage /\ Only(v)
      /\ UNCHANGED <<s, wire, sent, dropped>>
  BY DEF PostStep, WithPackage, Frame
<1>2. pipe \in Seq(Request) /\ p = <<v, Len(sent[v])>> /\ p \in Service \X Nat
  BY <1>1, PlaceFacts DEF IInv, TypeOK, Latest
<1>3. \A q : Ship(pipe', q) <=> Ship(pipe, q) \/ p = q
  BY <1>1, <1>2, ShipAppend
<1> HIDE DEF p
<1>4. ASSUME NEW u \in Unit PROVE OneHolder(u)'
  <2>1. OneHolder(u) /\ (Given(u)' <=> Given(u))
    BY <1>1 DEF Holders, Given
  <2>2. ASSUME NEW h, NEW x
        PROVE  Holds(h, x, u)' <=>
                 (Holds(h, x, u) /\ ~(h = "service" /\ x = v)) \/ (u[1] = p /\ h = "pipe" /\ x = 0)
    <3>1. ASSUME NEW w \in Service
          PROVE at'[w].pc \in WithPackage /\ at'[w].p = u[1] <=>
                  at[w].pc \in WithPackage /\ at[w].p = u[1] /\ w # v
      BY <1>1 DEF Only
    <3>2. HoldsThen(h, x, u) <=>
                 (Holds(h, x, u) /\ ~(h = "service" /\ x = v)) \/ (u[1] = p /\ h = "pipe" /\ x = 0)
      BY <1>1, <1>3, <3>1 DEF Holds, HoldsThen
    <3> QED
      BY <3>2, HoldsNext
  <2>3. Holds("service", v, u) <=> u[1] = p
    BY <1>1 DEF Holds, p
  <2>4. CASE u[1] = p
    <3>0. Given(u)
      BY <2>1, <2>3, <2>4 DEF OneHolder
    <3>1. Moves(u, "service", v, "pipe", 0)
      BY <2>1, <2>2, <2>3, <2>4, <3>0 DEF Moves
    <3> QED
      BY <2>1, <3>1, OneHolderKept
  <2>5. CASE u[1] # p
    BY <2>1, <2>2, <2>3, <2>5, OneHolderKept
  <2> QED
    BY <2>4, <2>5
<1>5. Queue(pipe')
  <2>1. ASSUME NEW e \in Request, Member(pipe, e), e.c \in Sending, e.p[1] = r.p[1] PROVE e.p[2] < r.p[2]
    <3>1. e.p \in Service \X Nat
      BY <2>1 DEF Request, Sending, Opening
    <3>2. PICK k \in Nat : e.p = <<v, k>>
      BY <1>1, <1>2, <2>1, <3>1
    <3> DEFINE u == <<e.p, 1>>
    <3>3. u \in Unit /\ u[1] = <<v, k>>
      BY <3>1, <3>2 DEF Unit
    <3>4. Holds("pipe", 0, u)
      BY <2>1, <3>2, <3>3 DEF Holds, Ship
    <3>5. ~(p = u[1])
      <4>1. p = u[1] => Holds("service", v, u)
        BY <1>1, <3>3 DEF Holds, p
      <4>2. OneHolder(u)
        BY <3>3 DEF Holders
      <4> QED
        BY <3>4, <4>1, <4>2 DEF OneHolder
    <3>6. k \in DOMAIN sent[v]
      <4>1. Given(u)
        BY <3>3, <3>4 DEF Holders, OneHolder
      <4> QED
        BY <3>3, <4>1 DEF Given
    <3>7. k \in 1..Len(sent[v]) /\ Len(sent[v]) \in Nat
      <4>1. sent[v] \in Seq(Package)
        BY DEF IInv, TypeOK
      <4> QED
        BY <3>6, <4>1, LenProperties
    <3>8. k # Len(sent[v])
      BY <1>2, <3>3, <3>5
    <3>9. k < Len(sent[v])
      BY <3>7, <3>8
    <3> QED
      BY <1>1, <1>2, <3>2, <3>9
  <2> QED
    BY <1>1, <1>2, <2>1, ShipAppend DEF Holders, Single
<1>6. Single'
  BY <1>1, <1>5, SingleNext DEF Holders, Single
<1> QED
  BY <1>4, <1>6 DEF Holders

\* Two lists make up w.
Parted(w, q, g) ==
    /\ \A u \in Unit : Member(w, u) <=> Member(q, u) \/ Member(g, u)
    /\ \A u \in Unit : ~(Member(q, u) /\ Member(g, u))
    /\ Once(q) /\ Once(g)
\* The units g of slot i are freed, q stays.
Frees(i, q, g) ==
    /\ q \in Seq(Unit) /\ g \in Seq(Unit) /\ i \in Slot
    /\ Parted(Waiting(s[i]), q, g)
    /\ Waiting(s'[i]) = q /\ \A j \in Slot : j # i => Waiting(s'[j]) = Waiting(s[j])

\* The pipe may lose a request that is not a package.
SameShips == (\A p : Ship(pipe', p) <=> Ship(pipe, p)) /\ (Queue(pipe) => Queue(pipe'))

LEMMA StartTakenShips ==
  ASSUME IInv, UNCHANGED pipe \/ StartTaken
  PROVE  SameShips /\ \A x : Member(pipe', x) => Member(pipe, x)
<1>1. CASE UNCHANGED pipe
  BY <1>1 DEF SameShips
<1>2. CASE StartTaken
  <2>1. pipe \in Seq(Request) /\ pipe # <<>> /\ Head(pipe).c \notin Sending /\ pipe' = Tail(pipe)
    BY <1>2 DEF StartTaken, Sending, IInv, TypeOK
  <2> QED
    BY <2>1, ShipTail, TailPipe DEF SameShips
<1> QED
  BY <1>1, <1>2

LEMMA FreeHolders ==
  ASSUME IInv, Holders, lim' = lim, NEW i, NEW q, NEW g, Frees(i, q, g),
         dropped' = dropped \cup ToSet(g), SameShips, UNCHANGED <<at, wire, sent>>
  PROVE  Holders'
<1> USE DEF SameShips
<1>1. /\ q \in Seq(Unit) /\ g \in Seq(Unit) /\ i \in Slot
      /\ \A u \in Unit : Member(Waiting(s[i]), u) <=> Member(q, u) \/ Member(g, u)
      /\ \A u \in Unit : ~(Member(q, u) /\ Member(g, u))
      /\ Once(q) /\ Waiting(s'[i]) = q /\ \A j \in Slot : j # i => Waiting(s'[j]) = Waiting(s[j])
  BY DEF Frees, Parted
<1>2. ASSUME NEW u \in Unit PROVE OneHolder(u)'
  <2>1. OneHolder(u) /\ (Given(u)' <=> Given(u)) /\ (u \in ToSet(g) <=> Member(g, u))
    BY SetOf DEF Holders, Given
  <2>2. ASSUME NEW j \in Slot
        PROVE  Member(Waiting(s'[j]), u) <=> Member(Waiting(s[j]), u) /\ ~(j = i /\ Member(g, u))
    <3>1. CASE j = i
      BY <1>1, <3>1
    <3>2. CASE j # i
      BY <1>1, <3>2
    <3> QED
      BY <3>1, <3>2
  <2>3. ASSUME NEW h, NEW x
        PROVE  Holds(h, x, u)' <=>
                 \/ Holds(h, x, u) /\ ~(h = "slot" /\ x = i /\ Member(g, u))
                 \/ Member(g, u) /\ h = "freed" /\ x = 0
    <3>1. HoldsThen(h, x, u) <=>
                 \/ Holds(h, x, u) /\ ~(h = "slot" /\ x = i /\ Member(g, u))
                 \/ Member(g, u) /\ h = "freed" /\ x = 0
      BY <2>1, <2>2 DEF Holds, HoldsThen
    <3> QED
      BY <3>1, HoldsNext
  <2>4. CASE Member(g, u)
    <3>1. Holds("slot", i, u)
      BY <1>1, <2>4 DEF Holds
    <3>2. Given(u)
      BY <2>1, <3>1 DEF OneHolder
    <3>3. Moves(u, "slot", i, "freed", 0)
      BY <2>1, <2>3, <2>4, <3>1, <3>2 DEF Moves
    <3> QED
      BY <2>1, <3>3, OneHolderKept
  <2>5. CASE ~Member(g, u)
    BY <2>1, <2>3, <2>5, OneHolderKept
  <2> QED
    BY <2>4, <2>5
<1>3. ASSUME NEW j \in Slot PROVE Once(Waiting(s'[j]))
  <2>1. CASE j = i
    BY <1>1, <2>1
  <2>2. CASE j # i
    BY <1>1, <2>2 DEF Holders, Single
  <2> QED
    BY <2>1, <2>2
<1>4. Single'
  BY <1>3, SingleNext DEF Holders, Single
<1> QED
  BY <1>2, <1>4 DEF Holders

LEMMA OthersWait ==
  ASSUME NEW i, Others(i)
  PROVE  \A j \in Slot : j # i => Waiting(s'[j]) = Waiting(s[j])
BY DEF Others

LEMMA TwoParts ==
  ASSUME NEW q \in Seq(Unit), NEW g \in Seq(Unit), NEW w, w = q \o g \/ w = g \o q, Once(w)
  PROVE  Parted(w, q, g)
<1>1. CASE w = q \o g
  BY <1>1, ConcatMember DEF Parted
<1>2. CASE w = g \o q
  BY <1>2, ConcatMember DEF Parted
<1> QED
  BY <1>1, <1>2

LEMMA CutHolders ==
  ASSUME IInv, Holders, lim' = lim, NEW i, NEW how, CutStep(i, how)
  PROVE  Holders'
<1>1. /\ i \in Slot /\ s'[i].dw = s[i].dw /\ s'[i].high = <<>> /\ s'[i].low = <<>> /\ Others(i)
      /\ dropped' = dropped \cup ToSet(s[i].high \o s[i].low) /\ UNCHANGED <<at, wire, sent>>
      /\ UNCHANGED pipe \/ StartTaken
  BY DEF CutStep, Holding
<1>2. PICK q \in Seq(Unit), g \in Seq(Unit) : q = s[i].dw /\ g = s[i].high \o s[i].low /\ Waiting(s[i]) = q \o g
  BY <1>1, WaitingTypes DEF IInv
<1>3. Once(Waiting(s[i]))
  BY <1>1 DEF Holders, Single
<1>4. Waiting(s'[i]) = q
  BY <1>1, <1>2, NoUnits DEF Waiting
<1>6. Parted(Waiting(s[i]), q, g)
  BY <1>2, <1>3, TwoParts
<1>5. Frees(i, q, g)
  BY <1>1, <1>4, <1>6, OthersWait DEF Frees
<1> QED
  BY <1>1, <1>2, <1>5, StartTakenShips, FreeHolders

LEMMA EndHolders ==
  ASSUME IInv, Holders, lim' = lim, NEW i, EndStep(i)
  PROVE  Holders'
<1>1. /\ i \in Slot /\ s'[i].dw = <<>> /\ s'[i].high = s[i].high /\ s'[i].low = s[i].low /\ Others(i)
      /\ dropped' = dropped \cup ToSet(s[i].dw) /\ UNCHANGED <<pipe, at, wire, sent>>
  BY DEF EndStep
<1>2. PICK q \in Seq(Unit), g \in Seq(Unit) : g = s[i].dw /\ q = s[i].high \o s[i].low /\ Waiting(s[i]) = g \o q
  BY <1>1, WaitingTypes DEF IInv
<1>3. Once(Waiting(s[i])) /\ s[i].high \in Seq(Unit)
  BY <1>1, WaitingTypes DEF Holders, Single, IInv
<1>4. Waiting(s'[i]) = q
  BY <1>1, <1>2, <1>3, NoUnits DEF Waiting
<1>6. Parted(Waiting(s[i]), q, g)
  BY <1>2, <1>3, TwoParts
<1>5. Frees(i, q, g)
  BY <1>1, <1>4, <1>6, OthersWait DEF Frees
<1> QED
  BY <1>1, <1>2, <1>5, StartTakenShips, FreeHolders

LEMMA LoseHolders ==
  ASSUME IInv, Holders, lim' = lim, NEW i, LoseStep(i)
  PROVE  Holders'
<1>1. /\ i \in Slot /\ s'[i].dw = <<>> /\ s'[i].high = <<>> /\ s'[i].low = <<>> /\ Others(i)
      /\ dropped' = dropped \cup ToSet(Waiting(s[i])) /\ UNCHANGED <<pipe, at, wire, sent>>
  BY DEF LoseStep, Holding
<1>2. PICK g \in Seq(Unit) : g = Waiting(s[i])
  BY <1>1, WaitingTypes DEF IInv
<1>3. PICK q \in Seq(Unit) : q = <<>> /\ q \o g = g
  BY NoUnits
<1>4. Once(Waiting(s[i]))
  BY <1>1 DEF Holders, Single
<1>5. Waiting(s'[i]) = q
  BY <1>1, <1>3, NoUnits DEF Waiting
<1>7. Parted(Waiting(s[i]), q, g)
  BY <1>2, <1>3, <1>4, TwoParts
<1>6. Frees(i, q, g)
  BY <1>1, <1>5, <1>7, OthersWait DEF Frees
<1> QED
  BY <1>1, <1>2, <1>6, StartTakenShips, FreeHolders

LEMMA WrittenMember ==
  ASSUME TypeOK, NEW id \in Id, NEW g \in Seq(Unit), Written(id, g)
  PROVE  /\ \A e \in Id : \A u : Member(wire'[e], u) <=> Member(wire[e], u) \/ (e = id /\ Member(g, u))
         /\ (\A e \in Id : Once(wire[e])) /\ Once(g) /\ (\A u : ~(Member(wire[id], u) /\ Member(g, u)))
              => \A e \in Id : Once(wire'[e])
<1>1. wire[id] \in Seq(Unit) /\ wire'[id] = wire[id] \o g /\ \A e \in Id : e # id => wire'[e] = wire[e]
  BY DEF TypeOK, Written
<1>2. \A u : Member(wire'[id], u) <=> Member(wire[id], u) \/ Member(g, u)
  BY <1>1, ConcatMember
<1>3. Once(wire[id]) /\ Once(g) /\ (\A u : ~(Member(wire[id], u) /\ Member(g, u))) => Once(wire'[id])
  BY <1>1, ConcatMember
<1> QED
  BY <1>1, <1>2, <1>3

LEMMA FlushHolders ==
  ASSUME IInv, Holders, lim' = lim, NEW i, NEW n, NEW k, FlushStep(i, n, k)
  PROVE  Holders'
<1>1. PICK id \in Id : id = s[i].id
  BY DEF FlushStep
<1>2. PICK w \in Seq(Unit) : w = Waiting(s[i])
  BY WaitingTypes DEF IInv, FlushStep
<1>3. i \in Slot /\ n \in 0..Len(w)
  BY <1>2 DEF FlushStep
<1>4. PICK g \in Seq(Unit), q \in Seq(Unit) : g = SubSeq(w, 1, n) /\ q = SubSeq(w, n + 1, Len(w)) /\ w = g \o q
  BY <1>3, Split
<1>5. /\ Written(id, g) /\ k \in 0..Len(q) /\ UNCHANGED <<pipe, at, sent, dropped>> /\ Others(i)
      /\ s'[i].dw = <<>> /\ s'[i].high = SubSeq(q, 1, k) /\ s'[i].low = SubSeq(q, k + 1, Len(q))
  BY <1>1, <1>2, <1>4 DEF FlushStep, Holding, Rests, Kept
<1>6. Waiting(s'[i]) = q
  <2>1. SubSeq(q, 1, k) \in Seq(Unit) /\ SubSeq(q, 1, k) \o SubSeq(q, k + 1, Len(q)) = q
    BY <1>5, Split
  <2> QED
    BY <1>5, <2>1, NoUnits DEF Waiting
<1>7. Once(w)
  BY <1>2, <1>3 DEF Holders, Single
<1>8. /\ \A u \in Unit : Member(w, u) <=> Member(q, u) \/ Member(g, u)
      /\ \A u \in Unit : ~(Member(q, u) /\ Member(g, u))
      /\ Once(q) /\ Once(g)
  <2>1. Parted(w, q, g)
    BY <1>4, <1>7, TwoParts
  <2> QED
    BY <2>1 DEF Parted
<1>9. \A e \in Id : \A u : Member(wire'[e], u) <=> Member(wire[e], u) \/ (e = id /\ Member(g, u))
  BY <1>5, WrittenMember DEF IInv
<1>10. \A j \in Slot : j # i => Waiting(s'[j]) = Waiting(s[j])
  BY <1>5, OthersWait
<1>11. ASSUME NEW u, Member(g, u) PROVE u \in Unit
  BY <1>11, ElementOfSeq, LenProperties DEF Member
<1>12. ASSUME NEW u \in Unit PROVE OneHolder(u)'
  <2>1. OneHolder(u) /\ (Given(u)' <=> Given(u))
    BY <1>5 DEF Holders, Given
  <2>2. ASSUME NEW j \in Slot
        PROVE  Member(Waiting(s'[j]), u) <=> Member(Waiting(s[j]), u) /\ ~(j = i /\ Member(g, u))
    <3>1. CASE j = i
      BY <1>2, <1>6, <1>8, <3>1
    <3>2. CASE j # i
      BY <1>10, <3>2
    <3> QED
      BY <3>1, <3>2
  <2>3. ASSUME NEW h, NEW x
        PROVE  Holds(h, x, u)' <=>
                 \/ Holds(h, x, u) /\ ~(h = "slot" /\ x = i /\ Member(g, u))
                 \/ Member(g, u) /\ h = "wire" /\ x = id
    <3>1. HoldsThen(h, x, u) <=>
                 \/ Holds(h, x, u) /\ ~(h = "slot" /\ x = i /\ Member(g, u))
                 \/ Member(g, u) /\ h = "wire" /\ x = id
      BY <1>5, <1>9, <2>1, <2>2 DEF Holds, HoldsThen
    <3> QED
      BY <3>1, HoldsNext
  <2>4. CASE Member(g, u)
    <3>1. Holds("slot", i, u)
      BY <1>2, <1>3, <1>8, <2>4 DEF Holds
    <3>2. Given(u)
      BY <2>1, <3>1 DEF OneHolder
    <3>3. Moves(u, "slot", i, "wire", id)
      BY <2>1, <2>3, <2>4, <3>1, <3>2 DEF Moves
    <3> QED
      BY <2>1, <3>3, OneHolderKept
  <2>5. CASE ~Member(g, u)
    BY <2>1, <2>3, <2>5, OneHolderKept
  <2> QED
    BY <2>4, <2>5
<1>13. ASSUME NEW j \in Slot PROVE Once(Waiting(s'[j]))
  <2>1. CASE j = i
    BY <1>6, <1>8, <2>1
  <2>2. CASE j # i
    BY <1>10, <2>2 DEF Holders, Single
  <2> QED
    BY <2>1, <2>2
<1>14. ASSUME NEW u, Member(wire[id], u), Member(g, u) PROVE FALSE
  <2>1. u \in Unit
    BY <1>11, <1>14
  <2>2. Holds("wire", id, u) /\ Holds("slot", i, u)
    BY <1>2, <1>3, <1>8, <1>14, <2>1 DEF Holds
  <2>3. OneHolder(u)
    BY <2>1 DEF Holders
  <2> QED
    BY <2>2, <2>3 DEF OneHolder
<1>15. \A e \in Id : Once(wire'[e])
  BY <1>5, <1>8, <1>14, WrittenMember DEF IInv, Holders, Single
<1>16. Single'
  BY <1>5, <1>13, <1>15, SingleNext DEF Holders, Single
<1> QED
  BY <1>12, <1>16 DEF Holders

Apart(q, r) == \A x : ~(Member(q, x) /\ Member(r, x))

LEMMA Three ==
  ASSUME NEW a \in Seq(Unit), NEW b \in Seq(Unit), NEW c \in Seq(Unit)
  PROVE  /\ \A x : Member((a \o b) \o c, x) <=> Member(a, x) \/ Member(b, x) \/ Member(c, x)
         /\ Once((a \o b) \o c) <=> Once(a) /\ Once(b) /\ Once(c) /\ Apart(a, b) /\ Apart(a, c) /\ Apart(b, c)
<1>1. /\ a \o b \in Seq(Unit) /\ \A x : Member(a \o b, x) <=> Member(a, x) \/ Member(b, x)
      /\ Once(a \o b) <=> Once(a) /\ Once(b) /\ Apart(a, b)
  BY Concat, ConcatMember DEF Apart
<1> DEFINE d == a \o b
<1> HIDE DEF d
<1>2. d \in Seq(Unit)
  BY <1>1 DEF d
<1>3. /\ \A x : Member(d \o c, x) <=> Member(d, x) \/ Member(c, x)
      /\ Once(d \o c) <=> Once(d) /\ Once(c) /\ Apart(d, c)
  BY <1>2, ConcatMember DEF Apart
<1>4. Apart(d, c) <=> Apart(a, c) /\ Apart(b, c)
  BY <1>1 DEF Apart, d
<1> QED
  BY <1>1, <1>3, <1>4 DEF d

\* q is put in front, into the high list or at the end.
Inserted(w, x, q) ==
    \/ w = (q \o x.high) \o x.low /\ x.dw = <<>>
    \/ w = (x.dw \o q) \o <<>> /\ x.high = <<>> /\ x.low = <<>>
    \/ w = (x.dw \o (x.high \o q)) \o x.low
    \/ w = (x.dw \o x.high) \o (x.low \o q)

LEMMA InsertedUnits ==
  ASSUME TypeOK, NEW i \in Slot, NEW q \in Seq(Unit), NEW w, Inserted(w, s[i], q)
  PROVE  /\ \A x : Member(w, x) <=> Member(Waiting(s[i]), x) \/ Member(q, x)
         /\ Once(Waiting(s[i])) /\ Once(q) /\ Apart(Waiting(s[i]), q) => Once(w)
<1>1. PICK d \in Seq(Unit), h \in Seq(Unit), l \in Seq(Unit) :
        /\ d = s[i].dw /\ h = s[i].high /\ l = s[i].low /\ Waiting(s[i]) = (d \o h) \o l
        /\ \/ w = (q \o h) \o l /\ d = <<>>
           \/ w = (d \o q) \o <<>> /\ h = <<>> /\ l = <<>>
           \/ w = (d \o (h \o q)) \o l
           \/ w = (d \o h) \o (l \o q)
  BY WaitingTypes DEF Inserted, Waiting
<1>2. /\ \A x : Member(Waiting(s[i]), x) <=> Member(d, x) \/ Member(h, x) \/ Member(l, x)
      /\ Once(Waiting(s[i])) <=> Once(d) /\ Once(h) /\ Once(l) /\ Apart(d, h) /\ Apart(d, l) /\ Apart(h, l)
  BY <1>1, Three
<1>3. <<>> \in Seq(Unit) /\ (\A x : ~Member(<<>>, x)) /\ Once(<<>>)
  BY NoUnits DEF Once
<1>4. CASE w = (q \o h) \o l /\ d = <<>>
  <2>1. /\ \A x : Member(w, x) <=> Member(q, x) \/ Member(h, x) \/ Member(l, x)
        /\ Once(w) <=> Once(q) /\ Once(h) /\ Once(l) /\ Apart(q, h) /\ Apart(q, l) /\ Apart(h, l)
    BY <1>4, Three
  <2> QED
    BY <1>2, <1>3, <1>4, <2>1 DEF Apart
<1>5. CASE w = (d \o q) \o <<>> /\ h = <<>> /\ l = <<>>
  <2>1. PICK e \in Seq(Unit) : e = <<>>
    BY <1>3
  <2>2. /\ \A x : Member(w, x) <=> Member(d, x) \/ Member(q, x) \/ Member(e, x)
        /\ Once(w) <=> Once(d) /\ Once(q) /\ Once(e) /\ Apart(d, q) /\ Apart(d, e) /\ Apart(q, e)
    BY <1>5, <2>1, Three
  <2> QED
    BY <1>2, <1>3, <1>5, <2>1, <2>2 DEF Apart
<1>6. CASE w = (d \o (h \o q)) \o l
  <2>1. PICK e \in Seq(Unit) : e = h \o q
    BY Concat
  <2>2. (\A x : Member(e, x) <=> Member(h, x) \/ Member(q, x)) /\ (Once(e) <=> Once(h) /\ Once(q) /\ Apart(h, q))
    BY <2>1, ConcatMember DEF Apart
  <2>3. /\ \A x : Member(w, x) <=> Member(d, x) \/ Member(e, x) \/ Member(l, x)
        /\ Once(w) <=> Once(d) /\ Once(e) /\ Once(l) /\ Apart(d, e) /\ Apart(d, l) /\ Apart(e, l)
    BY <1>6, <2>1, Three
  <2> QED
    BY <1>2, <2>2, <2>3 DEF Apart
<1>7. CASE w = (d \o h) \o (l \o q)
  <2>1. PICK e \in Seq(Unit) : e = l \o q
    BY Concat
  <2>2. (\A x : Member(e, x) <=> Member(l, x) \/ Member(q, x)) /\ (Once(e) <=> Once(l) /\ Once(q) /\ Apart(l, q))
    BY <2>1, ConcatMember DEF Apart
  <2>3. /\ \A x : Member(w, x) <=> Member(d, x) \/ Member(h, x) \/ Member(e, x)
        /\ Once(w) <=> Once(d) /\ Once(h) /\ Once(e) /\ Apart(d, h) /\ Apart(d, e) /\ Apart(h, e)
    BY <1>7, <2>1, Three
  <2> QED
    BY <1>2, <2>2, <2>3 DEF Apart
<1> QED
  BY <1>1, <1>4, <1>5, <1>6, <1>7

LEMMA MembersAreUnits ==
  ASSUME NEW q \in Seq(Unit), NEW u, Member(q, u)
  PROVE  u \in Unit
BY ElementOfSeq, LenProperties DEF Member

LEMMA TakeHolders ==
  ASSUME IInv, Holders, lim' = lim, NEW m, TakeStep(m)
  PROVE  Holders'
<1> DEFINE p == m.p
           q == Units(p)
<1>1. /\ pipe # <<>> /\ m = Head(pipe) /\ m.c \in Sending /\ p \in Service \X Nat /\ pipe' = Tail(pipe)
      /\ UNCHANGED <<at, wire, sent>> /\ m.id \in Id
  BY DEF TakeStep
<1>2. PICK i \in Slot : i = Hash(m.id)
  BY <1>1, Geometry DEF IInv, Id
<1>3. \/ dropped' = dropped \cup ToSet(q) /\ Holding(i, s[i].dw, s[i].high, s[i].low)
      \/ /\ dropped' = dropped
         /\ \/ s[i].high = <<>> /\ s[i].low = <<>> /\ Holding(i, s[i].dw, q, <<>>)
            \/ Holding(i, s[i].dw, s[i].high \o q, s[i].low)
            \/ Holding(i, s[i].dw, s[i].high, s[i].low \o q)
  BY <1>2 DEF TakeStep
<1>4. pipe \in Seq(Request) /\ Queue(pipe)
  BY DEF IInv, TypeOK, Holders, Single
<1>5. q \in Seq(Unit) /\ Once(q) /\ \A u \in Unit : Member(q, u) <=> u[1] = p
  BY <1>1, UnitsOf
<1> HIDE DEF p, q
<1>6. /\ \A o : Ship(pipe, o) <=> Ship(pipe', o) \/ o = p
      /\ ~Ship(pipe', p) /\ Queue(pipe')
  <2>1. \A o : Ship(pipe, o) <=> Ship(pipe', o) \/ o = p
    BY <1>1, <1>4, ShipTail DEF p
  <2>2. Queue(pipe') /\ \A r \in Request : Member(pipe', r) /\ r.c \in Sending /\ r.p[1] = p[1] => p[2] < r.p[2]
    BY <1>1, <1>4, ShipTail DEF p
  <2>3. ~(p[2] < p[2])
    BY <1>1
  <2> QED
    BY <2>1, <2>2, <2>3 DEF Ship
<1>7. ASSUME NEW u \in Unit, u[1] = p PROVE Holds("pipe", 0, u) /\ Given(u)
  <2>1. Holds("pipe", 0, u)
    BY <1>6, <1>7 DEF Holds
  <2> QED
    BY <2>1 DEF Holders, OneHolder
<1>8. CASE dropped' = dropped \cup ToSet(q) /\ Holding(i, s[i].dw, s[i].high, s[i].low)
  <2>1. \A j \in Slot : Waiting(s'[j]) = Waiting(s[j])
    BY <1>8 DEF Waiting, Holding, Others
  <2>2. ASSUME NEW u \in Unit PROVE OneHolder(u)'
    <3>1. OneHolder(u) /\ (Given(u)' <=> Given(u)) /\ (u \in ToSet(q) <=> u[1] = p)
      BY <1>1, <1>5, SetOf DEF Holders, Given
    <3>2. ASSUME NEW h, NEW x
          PROVE  Holds(h, x, u)' <=>
                   \/ Holds(h, x, u) /\ ~(h = "pipe" /\ x = 0 /\ u[1] = p)
                   \/ u[1] = p /\ h = "freed" /\ x = 0
      <4>1. HoldsThen(h, x, u) <=>
                   \/ Holds(h, x, u) /\ ~(h = "pipe" /\ x = 0 /\ u[1] = p)
                   \/ u[1] = p /\ h = "freed" /\ x = 0
        BY <1>1, <1>6, <1>8, <2>1, <3>1 DEF Holds, HoldsThen
      <4> QED
        BY <4>1, HoldsNext
    <3>3. CASE u[1] = p
      <4>1. Moves(u, "pipe", 0, "freed", 0)
        BY <1>7, <3>1, <3>2, <3>3 DEF Moves
      <4> QED
        BY <3>1, <4>1, OneHolderKept
    <3>4. CASE u[1] # p
      BY <3>1, <3>2, <3>4, OneHolderKept
    <3> QED
      BY <3>3, <3>4
  <2>3. Single'
    BY <1>1, <1>6, <2>1, SingleNext DEF Holders, Single
  <2> QED
    BY <2>2, <2>3 DEF Holders
<1>9. CASE /\ dropped' = dropped
           /\ \/ s[i].high = <<>> /\ s[i].low = <<>> /\ Holding(i, s[i].dw, q, <<>>)
              \/ Holding(i, s[i].dw, s[i].high \o q, s[i].low)
              \/ Holding(i, s[i].dw, s[i].high, s[i].low \o q)
  <2>1. Inserted(Waiting(s'[i]), s[i], q) /\ Others(i)
    BY <1>9 DEF Holding, Inserted, Waiting
  <2>2. /\ \A x : Member(Waiting(s'[i]), x) <=> Member(Waiting(s[i]), x) \/ Member(q, x)
        /\ Once(Waiting(s[i])) /\ Once(q) /\ Apart(Waiting(s[i]), q) => Once(Waiting(s'[i]))
    BY <1>2, <1>5, <2>1, InsertedUnits DEF IInv
  <2>3. \A j \in Slot : j # i => Waiting(s'[j]) = Waiting(s[j])
    BY <2>1, OthersWait
  <2>4. ASSUME NEW u \in Unit PROVE OneHolder(u)'
    <3>1. OneHolder(u) /\ (Given(u)' <=> Given(u)) /\ (Member(q, u) <=> u[1] = p)
      BY <1>1, <1>5 DEF Holders, Given
    <3>2. ASSUME NEW j \in Slot
          PROVE  Member(Waiting(s'[j]), u) <=> Member(Waiting(s[j]), u) \/ (j = i /\ u[1] = p)
      <4>1. CASE j = i
        BY <2>2, <3>1, <4>1
      <4>2. CASE j # i
        BY <2>3, <4>2
      <4> QED
        BY <4>1, <4>2
    <3>3. ASSUME NEW h, NEW x
          PROVE  Holds(h, x, u)' <=>
                   \/ Holds(h, x, u) /\ ~(h = "pipe" /\ x = 0 /\ u[1] = p)
                   \/ u[1] = p /\ h = "slot" /\ x = i
      <4>1. HoldsThen(h, x, u) <=>
                   \/ Holds(h, x, u) /\ ~(h = "pipe" /\ x = 0 /\ u[1] = p)
                   \/ u[1] = p /\ h = "slot" /\ x = i
        BY <1>1, <1>2, <1>6, <1>9, <3>2 DEF Holds, HoldsThen
      <4> QED
        BY <4>1, HoldsNext
    <3>4. CASE u[1] = p
      <4>1. Holds("slot", i, u)'
        BY <3>3, <3>4
      <4>2. Holds("pipe", 0, u) /\ Given(u)'
        BY <1>7, <3>1, <3>4
      <4>3. ASSUME NEW h, NEW x, Holds(h, x, u)'
            PROVE  (h = "slot" /\ x = i) \/ (Holds(h, x, u) /\ ~(h = "pipe" /\ x = 0))
        BY <3>3, <3>4, <4>3
      <4>4. Moves(u, "pipe", 0, "slot", i)
        BY <4>1, <4>2, <4>3 DEF Moves
      <4> QED
        BY <3>1, <4>4, OneHolderKept
    <3>5. CASE u[1] # p
      BY <3>1, <3>3, <3>5, OneHolderKept
    <3> QED
      BY <3>4, <3>5
  <2>5. Apart(Waiting(s[i]), q)
    <3>1. ASSUME NEW u, Member(Waiting(s[i]), u), Member(q, u) PROVE FALSE
      <4>1. u \in Unit
        BY <1>5, <3>1, MembersAreUnits
      <4>2. Holds("pipe", 0, u) /\ Holds("slot", i, u)
        BY <1>2, <1>5, <1>7, <3>1, <4>1 DEF Holds
      <4>3. OneHolder(u)
        BY <4>1 DEF Holders
      <4> QED
        BY <4>2, <4>3 DEF OneHolder
    <3> QED
      BY <3>1 DEF Apart
  <2>6. ASSUME NEW j \in Slot PROVE Once(Waiting(s'[j]))
    <3>1. CASE j = i
      BY <1>2, <1>5, <2>2, <2>5, <3>1 DEF Holders, Single
    <3>2. CASE j # i
      BY <2>3, <3>2 DEF Holders, Single
    <3> QED
      BY <3>1, <3>2
  <2>7. Single'
    BY <1>1, <1>6, <2>6, SingleNext DEF Holders, Single
  <2> QED
    BY <2>4, <2>7 DEF Holders
<1> QED
  BY <1>3, <1>8, <1>9

LEMMA WriteHolders ==
  ASSUME IInv, Holders, DwEmpty, lim' = lim, NEW v \in Service, NEW n, WriteStep(v, n)
  PROVE  /\ Holders'
         /\ \E i \in Slot : /\ i = Hash(at[v].id) /\ Others(i) /\ s'[i].type = s[i].type /\ s[i].type \notin Closed
<1> DEFINE p == at[v].p
           q == Units(p)
<1>1. at[v].pc = "check2" /\ at[v].pc \in WithPackage
  BY DEF WriteStep, WithPackage
<1>2. PICK id \in Id : id = at[v].id /\ id \in Nat /\ p \in Service \X Nat
  BY <1>1, PlaceFacts DEF IInv
<1>3. PICK i \in Slot : i = Hash(id)
  BY <1>2, Geometry DEF IInv
<1>4. /\ n \in 0..2 /\ Written(id, SubSeq(q, 1, n)) /\ s[i].type = "CONNECTED"
      /\ \/ n = 2 /\ Holding(i, s[i].dw, s[i].high, s[i].low)
         \/ Holding(i, SubSeq(q, n + 1, 2), s[i].high, s[i].low)
      /\ at'[v].pc \notin WithPackage /\ Only(v)
      /\ UNCHANGED <<pipe, sent, dropped>>
  BY <1>2, <1>3 DEF WriteStep, NothingComing, WithPackage, Only
<1>5. q \in Seq(Unit) /\ Len(q) = 2 /\ Once(q) /\ \A u \in Unit : Member(q, u) <=> u[1] = p
  BY <1>2, UnitsOf
<1>6. s[i].dw = <<>>
  BY <1>1, <1>2, <1>3 DEF DwEmpty
<1> HIDE DEF q
<1>7. PICK g \in Seq(Unit), d \in Seq(Unit) :
        g = SubSeq(q, 1, n) /\ d = SubSeq(q, n + 1, Len(q)) /\ q = g \o d /\ Len(d) = Len(q) - n
  BY <1>4, <1>5, Split
<1>8. Holding(i, d, s[i].high, s[i].low)
  <2>1. CASE n = 2 /\ Holding(i, s[i].dw, s[i].high, s[i].low)
    <3>1. d = <<>>
      <4>1. Len(d) = 0
        BY <1>5, <1>7, <2>1
      <4> QED
        BY <4>1, EmptySeq
    <3> QED
      BY <1>6, <2>1, <3>1
  <2>2. CASE Holding(i, SubSeq(q, n + 1, 2), s[i].high, s[i].low)
    BY <1>5, <1>7, <2>2
  <2> QED
    BY <1>4, <2>1, <2>2
<1>9. /\ \A u \in Unit : Member(q, u) <=> Member(d, u) \/ Member(g, u)
      /\ \A u \in Unit : ~(Member(d, u) /\ Member(g, u))
      /\ Once(d) /\ Once(g)
  <2>1. Parted(q, d, g)
    BY <1>5, <1>7, TwoParts
  <2> QED
    BY <2>1 DEF Parted
<1>10. Inserted(Waiting(s'[i]), s[i], d) /\ Others(i) /\ s'[i].type = s[i].type
  BY <1>6, <1>8 DEF Holding, Inserted, Waiting
<1>11. /\ \A x : Member(Waiting(s'[i]), x) <=> Member(Waiting(s[i]), x) \/ Member(d, x)
       /\ Once(Waiting(s[i])) /\ Once(d) /\ Apart(Waiting(s[i]), d) => Once(Waiting(s'[i]))
  BY <1>10, InsertedUnits DEF IInv
<1>12. \A j \in Slot : j # i => Waiting(s'[j]) = Waiting(s[j])
  BY <1>10, OthersWait
<1>13. \A e \in Id : \A u : Member(wire'[e], u) <=> Member(wire[e], u) \/ (e = id /\ Member(g, u))
  BY <1>4, <1>7, WrittenMember DEF IInv
<1>14. ASSUME NEW u \in Unit, Member(q, u) PROVE OneHolder(u) /\ Holds("service", v, u) /\ Given(u)
  <2>1. OneHolder(u) /\ Holds("service", v, u)
    BY <1>1, <1>5, <1>14 DEF Holds, Holders
  <2> QED
    BY <2>1 DEF OneHolder
<1> HIDE DEF p
<1>15. ASSUME NEW u \in Unit PROVE OneHolder(u)'
  <2>1. OneHolder(u) /\ (Given(u)' <=> Given(u)) /\ (Member(q, u) <=> Member(d, u) \/ Member(g, u))
        /\ ~(Member(d, u) /\ Member(g, u)) /\ (Member(q, u) <=> u[1] = p)
    BY <1>4, <1>5, <1>9 DEF Holders, Given
  <2>2. ASSUME NEW j \in Slot
        PROVE  Member(Waiting(s'[j]), u) <=> Member(Waiting(s[j]), u) \/ (j = i /\ Member(d, u))
    <3>1. CASE j = i
      BY <1>11, <3>1
    <3>2. CASE j # i
      BY <1>12, <3>2
    <3> QED
      BY <3>1, <3>2
  <2>3. ASSUME NEW w \in Service
        PROVE  at'[w].pc \in WithPackage /\ at'[w].p = u[1] <=> at[w].pc \in WithPackage /\ at[w].p = u[1] /\ w # v
    BY <1>4 DEF Only
  <2>4. ASSUME NEW h, NEW x
        PROVE  Holds(h, x, u)' <=>
                 \/ Holds(h, x, u) /\ ~(h = "service" /\ x = v)
                 \/ Member(d, u) /\ h = "slot" /\ x = i
                 \/ Member(g, u) /\ h = "wire" /\ x = id
    <3>1. HoldsThen(h, x, u) <=>
                 \/ Holds(h, x, u) /\ ~(h = "service" /\ x = v)
                 \/ Member(d, u) /\ h = "slot" /\ x = i
                 \/ Member(g, u) /\ h = "wire" /\ x = id
      BY <1>4, <1>13, <2>2, <2>3 DEF Holds, HoldsThen
    <3> QED
      BY <3>1, HoldsNext
  <2>5. CASE Member(d, u)
    <3>1. Moves(u, "service", v, "slot", i)
      BY <1>14, <2>1, <2>4, <2>5 DEF Moves
    <3> QED
      BY <2>1, <3>1, OneHolderKept
  <2>6. CASE Member(g, u)
    <3>1. Moves(u, "service", v, "wire", id)
      BY <1>14, <2>1, <2>4, <2>6 DEF Moves
    <3> QED
      BY <2>1, <3>1, OneHolderKept
  <2>7. CASE ~Member(q, u)
    <3>1. ~Holds("service", v, u)
      BY <2>1, <2>7 DEF Holds, p
    <3> QED
      BY <2>1, <2>4, <2>7, <3>1, OneHolderKept
  <2> QED
    BY <2>1, <2>5, <2>6, <2>7
<1>16. Apart(Waiting(s[i]), d)
  <2>1. ASSUME NEW u, Member(Waiting(s[i]), u), Member(d, u) PROVE FALSE
    <3>1. u \in Unit
      BY <2>1, MembersAreUnits
    <3>2. Holds("slot", i, u)
      BY <2>1 DEF Holds
    <3> QED
      BY <1>9, <1>14, <2>1, <3>1, <3>2 DEF OneHolder
  <2> QED
    BY <2>1 DEF Apart
<1>17. ASSUME NEW u, Member(wire[id], u), Member(g, u) PROVE FALSE
  <2>1. u \in Unit
    BY <1>17, MembersAreUnits
  <2>2. Holds("wire", id, u)
    BY <1>17 DEF Holds
  <2> QED
    BY <1>9, <1>14, <1>17, <2>1, <2>2 DEF OneHolder
<1>18. ASSUME NEW j \in Slot PROVE Once(Waiting(s'[j]))
  <2>1. CASE j = i
    BY <1>9, <1>11, <1>16, <2>1 DEF Holders, Single
  <2>2. CASE j # i
    BY <1>12, <2>2 DEF Holders, Single
  <2> QED
    BY <2>1, <2>2
<1>19. \A e \in Id : Once(wire'[e])
  <2>1. Written(id, g)
    BY <1>4, <1>7
  <2>2. (\A e \in Id : Once(wire[e])) /\ Once(g) /\ \A u : ~(Member(wire[id], u) /\ Member(g, u))
    BY <1>9, <1>17 DEF Holders, Single
  <2> QED
    BY <2>1, <2>2, WrittenMember DEF IInv
<1>20. Single'
  BY <1>4, <1>18, <1>19, SingleNext DEF Holders, Single
<1>21. s[i].type \notin Closed
  BY <1>4 DEF Closed
<1> QED
  BY <1>2, <1>3, <1>10, <1>15, <1>20, <1>21 DEF Holders

-----------------------------------------------------------------------------
(* Direct writes and the last package *)

Shrinks ==
    \A j \in Slot : /\ s'[j].dw \in {s[j].dw, <<>>}
                    /\ s'[j].type \in Closed => s[j].type \in Closed \/ s'[j].dw = <<>>
Checks(v) ==
    at'[v].pc = "check2" => /\ at'[v].id = at[v].id
                            /\ at[v].pc = "check2" \/ (at[v].pc = "check" /\ NothingAhead(at[v].id))

LEMMA DwNext ==
  ASSUME lim' = lim, \A i \in Slot : s'[i].type \in Closed => s'[i].dw = <<>>,
         \A v \in Service, id \in Nat : at'[v].pc = "check2" /\ at'[v].id = id => s'[Hash(id)].dw = <<>>
  PROVE  DwEmpty'
BY GeometryKept DEF DwEmpty

LEMMA ShrinkKeeps ==
  ASSUME IInv, DwEmpty, lim' = lim, Shrinks, \A v \in Service : Checks(v)
  PROVE  DwEmpty'
<1>1. \A i \in Slot : s'[i].type \in Closed => s'[i].dw = <<>>
  BY DEF Shrinks, DwEmpty
<1>2. ASSUME NEW v \in Service, NEW id \in Nat, at'[v].pc = "check2", at'[v].id = id PROVE s'[Hash(id)].dw = <<>>
  <2>1. PICK i \in Slot : i = Hash(id)
    BY Geometry DEF IInv
  <2>2. s[i].dw = <<>>
    BY <1>2, <2>1 DEF Checks, DwEmpty, NothingAhead
  <2> QED
    BY <2>1, <2>2 DEF Shrinks
<1> QED
  BY <1>1, <1>2, DwNext

LEMMA CarriedOn ==
  ASSUME NEW v \in Service, UNCHANGED at \/ (Only(v) /\ at[v].pc \notin WithPackage /\ at'[v].pc \notin WithPackage)
  PROVE  \A w \in Service : Carries(w)
BY DEF Carries, Only

LEMMA ChecksOn ==
  ASSUME NEW v \in Service, UNCHANGED at \/ (Only(v) /\ at'[v].pc # "check2")
  PROVE  \A w \in Service : Checks(w)
<1> SUFFICES ASSUME NEW w \in Service PROVE Checks(w)
  OBVIOUS
<1>1. CASE at'[w] = at[w]
  BY <1>1 DEF Checks
<1>2. CASE w = v /\ at'[v].pc # "check2"
  BY <1>2 DEF Checks
<1> QED
  BY <1>1, <1>2 DEF Only

LEMMA LatestCarried ==
  ASSUME Latest, UNCHANGED sent,
         \A v \in Service : at'[v].pc \in WithPackage => at[v].pc \in WithPackage /\ at'[v].p = at[v].p
  PROVE  Latest'
BY DEF Latest

\* A step that moves no unit
LEMMA QuietKeeps ==
  ASSUME IInv, Owned, lim' = lim, UNCHANGED <<sent, dropped, wire>>,
         \A j \in Slot : Waiting(s'[j]) = Waiting(s[j]), \A v \in Service : Carries(v),
         \/ pipe' = pipe
         \/ \E r \in Request : r.c \notin Sending /\ pipe' = Append(pipe, r)
         \/ pipe # <<>> /\ Head(pipe).c \notin Sending /\ pipe' = Tail(pipe),
         Shrinks, \A v \in Service : Checks(v)
  PROVE  Owned'
<1>1. Holders /\ DwEmpty /\ Latest
  BY DEF Owned, Holders
<1>2. Holders'
  BY <1>1, QuietHolders
<1>3. DwEmpty'
  BY <1>1, ShrinkKeeps
<1>4. Latest'
  BY <1>1, LatestCarried DEF Carries
<1> QED
  BY <1>2, <1>3, <1>4 DEF Owned, Holders

LEMMA SameWait ==
  ASSUME NEW j, SameList(j)
  PROVE  Waiting(s'[j]) = Waiting(s[j]) /\ s'[j].dw \in {s[j].dw, <<>>}
BY DEF SameList, Waiting

\* Slot i changes its type; its lists stay.
LEMMA TurnWaits ==
  ASSUME NEW i \in Slot, NEW t, NEW id, Turns(i, t, id), t \in Closed => s[i].type \in Closed
  PROVE  (\A j \in Slot : Waiting(s'[j]) = Waiting(s[j])) /\ Shrinks
<1>1. ASSUME NEW j \in Slot
      PROVE  SameList(j) /\ (s'[j].type \in Closed => s[j].type \in Closed)
  BY DEF Turns, Others, SameList
<1> QED
  BY <1>1, SameWait DEF Shrinks

LEMMA PlainWaits ==
  ASSUME AllPlain
  PROVE  (\A j \in Slot : Waiting(s'[j]) = Waiting(s[j])) /\ Shrinks
BY SameWait DEF AllPlain, Plain, Shrinks

LEMMA Commands ==
  /\ \A r \in Request : r.c \in Opening \cup {"S", "K"} => r.c \notin Sending
  /\ "idle" \notin WithPackage /\ "fill" \notin WithPackage
  /\ "RESERVE" \in Closed /\ "INVALID" \in Closed
  /\ {"HALFCLOSE", "CONNECTED", "LISTEN"} \cap Closed = {}
BY DEF Opening, Sending, WithPackage, Closed

LEMMA ServiceOwned ==
  ASSUME IInv, Owned, lim' = lim, NEW v \in Service, ServiceMove(v)
  PROVE  Owned'
<1>1. ASSUME StayStep PROVE Owned'
  <2>1. ASSUME NEW w \in Service PROVE Checks(w) /\ Carries(w)
    <3>1. Carries(w) /\ Looks(w)
      BY <1>1 DEF StayStep
    <3> QED
      BY <3>1 DEF Carries, Looks, Checks, WithPackage
  <2> QED
    BY <1>1, <2>1, PlainWaits, QuietKeeps DEF StayStep, Frame
<1>2. ASSUME NEW i, ReserveStep(v, i) PROVE Owned'
  <2>1. \A j \in Slot : Waiting(s'[j]) = Waiting(s[j])
    BY <1>2, Commands, TurnWaits DEF ReserveStep
  <2>2. Shrinks
    BY <1>2, Commands, TurnWaits DEF ReserveStep
  <2>3. \A w \in Service : Carries(w) /\ Checks(w)
    BY <1>2, Commands, CarriedOn, ChecksOn DEF ReserveStep
  <2> QED
    BY <1>2, <2>1, <2>2, <2>3, QuietKeeps DEF ReserveStep, Frame
<1>3. ASSUME NEW r, FillStep(v, r) PROVE Owned'
  <2>0. Hash(r.id) \in Slot
    BY <1>3, Geometry DEF FillStep, IInv, Id
  <2>1. (\A j \in Slot : Waiting(s'[j]) = Waiting(s[j])) /\ Shrinks
    BY <1>3, <2>0, Commands, TurnWaits DEF FillStep
  <2>2. \A w \in Service : Carries(w) /\ Checks(w)
    BY <1>3, Commands, CarriedOn, ChecksOn DEF FillStep
  <2>3. r.c \notin Sending /\ r \in Request /\ pipe' = Append(pipe, r)
    BY <1>3, Commands DEF FillStep
  <2> QED
    BY <1>3, <2>1, <2>2, <2>3, QuietKeeps DEF FillStep, Frame
<1>4. ASSUME NEW r, AskStep(r) \/ CloseStep(v, r) PROVE Owned'
  <2>1. /\ UNCHANGED <<s, at, sent, dropped, wire>>
        /\ r.c \notin Sending /\ r \in Request /\ pipe' = Append(pipe, r)
    BY <1>4, Commands DEF AskStep, CloseStep, Frame
  <2>2. (\A j \in Slot : Waiting(s'[j]) = Waiting(s[j])) /\ Shrinks
    BY <2>1 DEF Shrinks
  <2>3. \A w \in Service : Carries(w) /\ Checks(w)
    BY <2>1, CarriedOn, ChecksOn
  <2> QED
    BY <2>1, <2>2, <2>3, QuietKeeps
<1>5. ASSUME NEW r, PostStep(v, r) PROVE Owned'
  <2>1. Holders'
    BY <1>5, PostHolders DEF Owned, Holders
  <2>2. UNCHANGED <<s, sent>> /\ at'[v].pc = "idle" /\ Only(v)
    BY <1>5 DEF PostStep, Frame
  <2>3. DwEmpty'
    BY <2>2, ChecksOn, ShrinkKeeps DEF Shrinks, Owned
  <2>4. Latest'
    BY <2>2, Commands, LatestCarried DEF Only, Owned
  <2> QED
    BY <2>1, <2>3, <2>4 DEF Owned, Holders
<1>6. ASSUME NEW m, SendStep(v, m) PROVE Owned'
  <2>1. Holders'
    BY <1>6, SendHolders DEF Owned, Holders
  <2>2. /\ at[v].pc = "idle" /\ sent' = [sent EXCEPT ![v] = Append(sent[v], m)] /\ UNCHANGED s
        /\ \/ UNCHANGED at
           \/ at'[v].pc \in {"look", "ref"} /\ at'[v].p = <<v, Len(sent[v]) + 1>> /\ Only(v)
    BY <1>6 DEF SendStep
  <2>3. DwEmpty'
    BY <2>2, ChecksOn, ShrinkKeeps DEF Shrinks, Owned
  <2>4. Latest'
    <3>1. sent \in [Service -> Seq(Package)]
      BY DEF IInv, TypeOK
    <3>2. Len(sent'[v]) = Len(sent[v]) + 1 /\ \A w \in Service : w # v => sent'[w] = sent[w]
      BY <2>2, <3>1
    <3> SUFFICES ASSUME NEW w \in Service, at'[w].pc \in WithPackage PROVE at'[w].p = <<w, Len(sent'[w])>>
      BY DEF Latest
    <3>3. CASE w = v
      BY <2>2, <3>2, <3>3, Commands
    <3>4. CASE w # v
      <4>1. at'[w] = at[w]
        BY <2>2, <3>4 DEF Only
      <4> QED
        BY <3>2, <3>4, <4>1 DEF Latest, Owned
    <3> QED
      BY <3>3, <3>4
  <2> QED
    BY <2>1, <2>3, <2>4 DEF Owned, Holders
<1>7. ASSUME NEW n, WriteStep(v, n) PROVE Owned'
  <2>1. Holders' /\ \E i \in Slot : /\ i = Hash(at[v].id) /\ Others(i)
                                    /\ s'[i].type = s[i].type /\ s[i].type \notin Closed
    BY <1>7, WriteHolders DEF Owned, Holders
  <2>2. PICK i \in Slot : i = Hash(at[v].id) /\ Others(i) /\ s'[i].type = s[i].type /\ s[i].type \notin Closed
    BY <2>1
  <2>3. at[v].pc = "check2" /\ at'[v].pc = "idle" /\ Only(v) /\ UNCHANGED sent
    BY <1>7 DEF WriteStep, Only
  <2>4. DwEmpty'
    <3>1. ASSUME NEW j \in Slot, s'[j].type \in Closed PROVE s'[j].dw = <<>>
      <4>1. CASE j = i
        BY <2>2, <3>1, <4>1
      <4>2. CASE j # i
        BY <2>2, <3>1, <4>2 DEF Others, Owned, DwEmpty
      <4> QED
        BY <4>1, <4>2
    <3>2. ASSUME NEW w \in Service, NEW id \in Nat, at'[w].pc = "check2", at'[w].id = id PROVE s'[Hash(id)].dw = <<>>
      <4>1. w # v /\ at[w].pc = "check2" /\ at[w].id = id
        BY <2>3, <3>2 DEF Only
      <4>2. s[Hash(id)].dw = <<>> /\ s[Hash(id)].lock = w /\ Hash(id) \in Slot
        BY <4>1, Geometry DEF Owned, DwEmpty, IInv, Locks
      <4>3. s[i].lock = v
        <5>1. at[v].id \in Nat
          BY <2>3, PlaceFacts DEF IInv, WithPackage
        <5> QED
          BY <2>2, <2>3, <5>1 DEF IInv, Locks
      <4>4. Hash(id) # i
        BY <4>1, <4>2, <4>3
      <4> QED
        BY <2>2, <4>2, <4>4 DEF Others
    <3> QED
      BY <3>1, <3>2, DwNext
  <2>5. Latest'
    BY <2>3, Commands, LatestCarried DEF Only, Owned
  <2> QED
    BY <2>1, <2>4, <2>5 DEF Owned, Holders
<1> QED
  BY <1>1, <1>2, <1>3, <1>4, <1>5, <1>6, <1>7 DEF ServiceMove

\* A step of the socket thread that leaves the services and the history alone
LEMMA ThreadQuiet ==
  ASSUME IInv, Owned, lim' = lim, UNCHANGED <<sent, dropped, wire, at>>,
         \A j \in Slot : Waiting(s'[j]) = Waiting(s[j]), Shrinks,
         pipe' = pipe \/ (pipe # <<>> /\ Head(pipe).c \notin Sending /\ pipe' = Tail(pipe))
  PROVE  Owned'
<1>1. \A w \in Service : Carries(w) /\ Checks(w)
  BY DEF Carries, Checks
<1> QED
  BY <1>1, QuietKeeps

LEMMA HoldingShrinks ==
  ASSUME NEW i \in Slot, NEW d, NEW h, NEW l, Holding(i, d, h, l), d \in {s[i].dw, <<>>}
  PROVE  Shrinks
BY DEF Holding, Others, Shrinks

LEMMA MoverKeeps ==
  ASSUME IInv, Owned, lim' = lim, Holders', Shrinks, UNCHANGED <<at, sent>>
  PROVE  Owned'
<1>1. \A w \in Service : Checks(w)
  BY DEF Checks
<1>2. DwEmpty'
  BY <1>1, ShrinkKeeps DEF Owned
<1>3. Latest'
  BY DEF Owned, Latest
<1> QED
  BY <1>2, <1>3 DEF Owned, Holders

LEMMA ThreadOwned ==
  ASSUME IInv, Owned, lim' = lim, ThreadMove
  PROVE  Owned'
<1>0. Holders /\ pipe \in Seq(Request)
  BY DEF Owned, Holders, IInv, TypeOK
<1>1. ASSUME StayStep PROVE Owned'
  <2>1. ASSUME NEW w \in Service PROVE Checks(w) /\ Carries(w)
    <3>1. Carries(w) /\ Looks(w)
      BY <1>1 DEF StayStep
    <3> QED
      BY <3>1 DEF Carries, Looks, Checks, WithPackage
  <2> QED
    BY <1>1, <2>1, PlainWaits, QuietKeeps DEF StayStep, Frame
<1>2. ASSUME NEW r, FailStep(r) PROVE Owned'
  <2>1. /\ pipe # <<>> /\ r = Head(pipe) /\ r \in Request /\ pipe' = Tail(pipe) /\ r.c \in Opening /\ r.id \in Id
        /\ Turns(Hash(r.id), "INVALID", s[Hash(r.id)].id) /\ UNCHANGED <<sent, dropped, wire, at>>
    BY <1>2 DEF FailStep, Takes1, Frame
  <2>2. r.c \notin Sending /\ Member(pipe, r)
    BY <1>0, <2>1, Commands, TailPipe
  <2>3. PICK i \in Slot : i = Hash(r.id) /\ s[i].type \in Closed
    <3>1. Hash(r.id) \in Slot
      BY <2>1, Geometry DEF IInv, Id
    <3>2. Reserved(Hash(r.id), r.id)
      BY <2>1, <2>2 DEF IInv, Opens
    <3> QED
      BY <3>1, <3>2, Commands DEF Reserved
  <2>4. (\A j \in Slot : Waiting(s'[j]) = Waiting(s[j])) /\ Shrinks
    BY <2>1, <2>3, TurnWaits
  <2> QED
    BY <2>1, <2>2, <2>4, ThreadQuiet
<1>3. ASSUME NEW r, HangStep(r) PROVE Owned'
  <2>1. /\ pipe # <<>> /\ r = Head(pipe) /\ r \in Request /\ pipe' = Tail(pipe) /\ r.c = "K" /\ AllPlain
        /\ UNCHANGED <<sent, dropped, wire, at>>
    BY <1>3 DEF HangStep, Takes1, Frame
  <2> QED
    BY <2>1, Commands, PlainWaits, ThreadQuiet
<1>4. ASSUME NEW r, TakeStep(r) PROVE Owned'
  <2>1. Holders'
    BY <1>0, <1>4, TakeHolders
  <2>5. r.id \in Id
    BY <1>4 DEF TakeStep
  <2>2. PICK i \in Slot : i = Hash(r.id)
    BY <2>5, Geometry DEF IInv, Id
  <2>3. \E h, l : Holding(i, s[i].dw, h, l)
    BY <1>4, <2>2 DEF TakeStep
  <2>4. UNCHANGED <<at, sent>>
    BY <1>4 DEF TakeStep
  <2> QED
    BY <2>1, <2>3, <2>4, HoldingShrinks, MoverKeeps
<1>5. ASSUME NEW id, NEW t, NewStep(id, t) PROVE Owned'
  <2>1. PICK i \in Slot : i = Hash(id)
    BY <1>5, Geometry DEF NewStep, IInv, Id
  <2>2. /\ s[i].type \in Closed /\ s[i].high = <<>> /\ s[i].low = <<>> /\ Others(i)
        /\ s'[i].dw = <<>> /\ s'[i].high = <<>> /\ s'[i].low = <<>>
        /\ UNCHANGED <<sent, dropped, wire, at>>
        /\ UNCHANGED pipe \/ (pipe # <<>> /\ Head(pipe).c \in Opening /\ pipe' = Tail(pipe))
    BY <1>5, <2>1 DEF NewStep, Frame
  <2>3. s[i].dw = <<>>
    BY <2>2 DEF Owned, DwEmpty
  <2>4. \A j \in Slot : Waiting(s'[j]) = Waiting(s[j])
    BY <2>2, <2>3 DEF Waiting, Others
  <2>5. Shrinks
    BY <2>2 DEF Shrinks, Others
  <2>6. UNCHANGED pipe \/ (pipe # <<>> /\ Head(pipe).c \notin Sending /\ pipe' = Tail(pipe))
    BY <1>0, <2>2, Commands, TailPipe
  <2> QED
    BY <2>2, <2>4, <2>5, <2>6, ThreadQuiet
<1>6. ASSUME NEW id, StartStep(id) PROVE Owned'
  <2>1. /\ pipe # <<>> /\ Head(pipe).c = "S" /\ pipe' = Tail(pipe) /\ UNCHANGED <<sent, dropped, wire, at>>
        /\ AllPlain \/ Turns(Hash(id), "CONNECTED", id) \/ Turns(Hash(id), "LISTEN", id)
    BY <1>6 DEF StartStep, Frame
  <2>2. Hash(id) \in Slot
    BY <1>6, Geometry DEF StartStep, IInv, Id
  <2>3. (\A j \in Slot : Waiting(s'[j]) = Waiting(s[j])) /\ Shrinks
    BY <2>1, <2>2, Commands, TurnWaits, PlainWaits
  <2>4. Head(pipe).c \notin Sending
    BY <2>1 DEF Sending
  <2> QED
    BY <2>1, <2>3, <2>4, ThreadQuiet
<1>7. ASSUME NEW i, HalfStep(i) \/ ConnectStep(i) PROVE Owned'
  <2>1. /\ i \in Slot /\ (Turns(i, "HALFCLOSE", s[i].id) \/ Turns(i, "CONNECTED", s[i].id))
        /\ UNCHANGED <<sent, dropped, wire, at, pipe>>
    BY <1>7 DEF HalfStep, ConnectStep, Frame
  <2>2. (\A j \in Slot : Waiting(s'[j]) = Waiting(s[j])) /\ Shrinks
    BY <2>1, Commands, TurnWaits
  <2> QED
    BY <2>1, <2>2, ThreadQuiet
<1>8. ASSUME NEW i, EndStep(i) PROVE Owned'
  <2>1. Holders'
    BY <1>0, <1>8, EndHolders
  <2>2. i \in Slot /\ s'[i].dw = <<>> /\ Others(i) /\ UNCHANGED <<at, sent>>
    BY <1>8 DEF EndStep
  <2>3. Shrinks
    BY <2>2 DEF Shrinks, Others
  <2> QED
    BY <2>1, <2>2, <2>3, MoverKeeps
<1>9. ASSUME NEW i, LoseStep(i) PROVE Owned'
  <2>1. Holders'
    BY <1>0, <1>9, LoseHolders
  <2>2. i \in Slot /\ Holding(i, <<>>, <<>>, <<>>) /\ UNCHANGED <<at, sent>>
    BY <1>9 DEF LoseStep
  <2> QED
    BY <2>1, <2>2, HoldingShrinks, MoverKeeps
<1>10. ASSUME NEW i, NEW how, CutStep(i, how) PROVE Owned'
  <2>1. Holders'
    BY <1>0, <1>10, CutHolders
  <2>2. i \in Slot /\ Holding(i, s[i].dw, <<>>, <<>>) /\ UNCHANGED <<at, sent>>
    BY <1>10 DEF CutStep
  <2> QED
    BY <2>1, <2>2, HoldingShrinks, MoverKeeps
<1>11. ASSUME NEW i, NEW n, NEW k, FlushStep(i, n, k) PROVE Owned'
  <2>1. Holders'
    BY <1>0, <1>11, FlushHolders
  <2>2. i \in Slot /\ UNCHANGED <<at, sent>> /\ \E h, l : Holding(i, <<>>, h, l)
    BY <1>11 DEF FlushStep
  <2> QED
    BY <2>1, <2>2, HoldingShrinks, MoverKeeps
<1> QED
  BY <1>1, <1>2, <1>3, <1>4, <1>5, <1>6, <1>7, <1>8, <1>9, <1>10, <1>11 DEF ThreadMove

LEMMA InitOwned ==
  ASSUME Init
  PROVE  Owned
<1>1. /\ pipe = <<>> /\ at = [v \in Service |-> Idle] /\ sent = [v \in Service |-> <<>>]
      /\ wire = [id \in Id |-> <<>>] /\ dropped = {}
  BY DEF Init
<1>2. \A i \in Slot : s[i].dw = <<>> /\ s[i].high = <<>> /\ s[i].low = <<>>
  BY DEF Init
<1>3. DOMAIN <<>> = {} /\ <<>> \in Seq(Unit) /\ <<>> \o <<>> = <<>> /\ \A x : ~Member(<<>>, x)
  BY NoUnits
<1>4. \A i \in Slot : Waiting(s[i]) = <<>>
  BY <1>2, <1>3 DEF Waiting
<1>5. \A v \in Service : at[v].pc = "idle"
  BY <1>1 DEF Idle
<1>6. ASSUME NEW u \in Unit PROVE OneHolder(u)
  <2>1. u[1][1] \in Service
    BY DEF Unit
  <2>2. ~Given(u)
    BY <1>1, <1>3, <2>1 DEF Given
  <2>3. ASSUME NEW h, NEW x PROVE ~Holds(h, x, u)
    BY <1>1, <1>3, <1>4, <1>5, Commands DEF Holds, Ship
  <2> QED
    BY <2>2, <2>3 DEF OneHolder
<1>7. Single
  BY <1>1, <1>3, <1>4 DEF Single, Once, Queue
<1>8. DwEmpty /\ Latest
  BY <1>2, <1>5, Commands DEF DwEmpty, Latest
<1> QED
  BY <1>6, <1>7, <1>8 DEF Owned

LEMMA Ownership == Spec => []Owned
<1>1. Init => Owned
  BY InitOwned
<1>2. IInv /\ Owned /\ [Next]_vars => Owned'
  <2> SUFFICES ASSUME IInv, Owned, [Next]_vars PROVE Owned'
    OBVIOUS
  <2>1. lim' = lim
    BY LimitsKept
  <2>2. Move
    BY EveryMove
  <2> QED
    BY <2>1, <2>2, ServiceOwned, ThreadOwned DEF Move
<1> QED
  BY <1>1, <1>2, Invariance, PTL DEF Spec

LEMMA OneOwner ==
  ASSUME IInv, Owned, NEW u \in Unit, Given(u)
  PROVE  Cardinality(Owners(u)) = 1
<1> DEFINE A == {<<"service", v>> : v \in {v \in Service : "p" \in DOMAIN at[v] /\ at[v].p = u[1]}}
           B == {<<"pipe", k>> : k \in {k \in DOMAIN pipe : pipe[k].c \in {"D", "P"} /\ pipe[k].p = u[1]}}
           C == UNION {{<<i, k>> : k \in {k \in DOMAIN Waiting(s[i]) : Waiting(s[i])[k] = u}} : i \in Slot}
           D == UNION {{<<"wire", id, k>> : k \in {k \in DOMAIN wire[id] : wire[id][k] = u}} : id \in Id}
           E == {<<"freed", x>> : x \in {u} \cap dropped}
<1>1. Owners(u) = A \cup B \cup C \cup D \cup E
  BY Zenon DEF Owners, Waiting
<1>2. OneHolder(u) /\ Single
  BY DEF Owned
<1>3. PICK g, y : Holds(g, y, u) /\ \A h, x : Holds(h, x, u) => h = g /\ x = y
  BY <1>2 DEF OneHolder
<1>4. \A v \in Service : "p" \in DOMAIN at[v] /\ at[v].p = u[1] <=> Holds("service", v, u)
  <2> SUFFICES ASSUME NEW v \in Service PROVE "p" \in DOMAIN at[v] <=> at[v].pc \in WithPackage
    BY DEF Holds
  <2>1. at[v] \in Place
    BY DEF IInv, TypeOK
  <2> QED
    BY <2>1 DEF Place, WithPackage
<1>5. ASSUME NEW k \in DOMAIN pipe, pipe[k].c \in {"D", "P"}, pipe[k].p = u[1]
      PROVE  Holds("pipe", 0, u) /\ pipe[k] \in Request /\ pipe[k].c \in Sending /\ k \in Int
  <2>1. pipe \in Seq(Request)
    BY DEF IInv, TypeOK
  <2>2. pipe[k] \in Request /\ Member(pipe, pipe[k]) /\ k \in Int
    BY <2>1, ElementOfSeq, LenProperties DEF Member
  <2> QED
    BY <1>5, <2>2 DEF Holds, Ship, Sending
<1>6. \A e \in A : \E v \in Service : e = <<"service", v>> /\ Holds("service", v, u)
  BY <1>4
<1>7. \A e \in B : \E k \in DOMAIN pipe : e = <<"pipe", k>> /\ pipe[k].c \in {"D", "P"} /\ pipe[k].p = u[1]
  OBVIOUS
<1>8. \A e \in C : \E i \in Slot : \E k \in DOMAIN Waiting(s[i]) : e = <<i, k>> /\ Waiting(s[i])[k] = u
  OBVIOUS
<1>9. \A e \in D : \E id \in Id : \E k \in DOMAIN wire[id] : e = <<"wire", id, k>> /\ wire[id][k] = u
  OBVIOUS
<1>10. \A e \in E : e = <<"freed", u>> /\ u \in dropped
  OBVIOUS
<1>11. /\ \A v \in Service : Holds("service", v, u) => <<"service", v>> \in A
       /\ \A k \in DOMAIN pipe : pipe[k].c \in {"D", "P"} /\ pipe[k].p = u[1] => <<"pipe", k>> \in B
       /\ \A i \in Slot : \A k \in DOMAIN Waiting(s[i]) : Waiting(s[i])[k] = u => <<i, k>> \in C
       /\ \A id \in Id : \A k \in DOMAIN wire[id] : wire[id][k] = u => <<"wire", id, k>> \in D
       /\ u \in dropped => <<"freed", u>> \in E
  BY <1>4
<1> HIDE DEF A, B, C, D, E
<1>12. \E a : a \in A \cup B \cup C \cup D \cup E
  <2>1. CASE g = "service" /\ y \in Service
    BY <1>3, <1>11, <2>1
  <2>2. CASE g = "pipe" /\ Ship(pipe, u[1])
    <3>1. PICK k \in DOMAIN pipe : pipe[k].c \in {"D", "P"} /\ pipe[k].p = u[1]
      BY <2>2 DEF Ship, Member, Sending
    <3> QED
      BY <1>11, <3>1
  <2>3. CASE g = "slot" /\ y \in Slot /\ Member(Waiting(s[y]), u)
    BY <1>11, <2>3 DEF Member
  <2>4. CASE g = "wire" /\ y \in Id /\ Member(wire[y], u)
    BY <1>11, <2>4 DEF Member
  <2>5. CASE g = "freed" /\ u \in dropped
    BY <1>11, <2>5
  <2> QED
    BY <1>3, <2>1, <2>2, <2>3, <2>4, <2>5 DEF Holds
<1>13. ASSUME NEW e \in A, NEW f \in A PROVE e = f
  BY <1>3, <1>6
<1>14. ASSUME NEW e \in B, NEW f \in B PROVE e = f
  <2>1. PICK j \in DOMAIN pipe, k \in DOMAIN pipe :
          /\ e = <<"pipe", j>> /\ pipe[j].c \in {"D", "P"} /\ pipe[j].p = u[1]
          /\ f = <<"pipe", k>> /\ pipe[k].c \in {"D", "P"} /\ pipe[k].p = u[1]
    BY <1>7
  <2>2. j \in Int /\ k \in Int /\ pipe[j].c \in Sending /\ pipe[k].c \in Sending
    BY <1>5, <2>1
  <2>3. u[1][2] \in Nat
    BY DEF Unit
  <2>4. ~(j < k) /\ ~(k < j)
    BY <1>2, <2>1, <2>2, <2>3 DEF Single, Queue
  <2>5. j = k
    BY <2>2, <2>4
  <2> QED
    BY <2>1, <2>5
<1>15. ASSUME NEW e \in C, NEW f \in C PROVE e = f
  <2>1. PICK i \in Slot, j \in Slot : /\ \E k \in DOMAIN Waiting(s[i]) : e = <<i, k>> /\ Waiting(s[i])[k] = u
                                      /\ \E k \in DOMAIN Waiting(s[j]) : f = <<j, k>> /\ Waiting(s[j])[k] = u
    BY <1>8
  <2>2. i = j
    BY <1>3, <2>1 DEF Holds, Member
  <2> QED
    BY <1>2, <2>1, <2>2 DEF Single, Once
<1>16. ASSUME NEW e \in D, NEW f \in D PROVE e = f
  <2>1. PICK i \in Id, j \in Id : /\ \E k \in DOMAIN wire[i] : e = <<"wire", i, k>> /\ wire[i][k] = u
                                  /\ \E k \in DOMAIN wire[j] : f = <<"wire", j, k>> /\ wire[j][k] = u
    BY <1>9
  <2>2. i = j
    BY <1>3, <2>1 DEF Holds, Member
  <2> QED
    BY <1>2, <2>1, <2>2 DEF Single, Once
<1>17. /\ \A e \in A : g = "service"
       /\ \A e \in B : g = "pipe"
       /\ \A e \in C : g = "slot"
       /\ \A e \in D : g = "wire"
       /\ \A e \in E : g = "freed"
  BY <1>3, <1>5, <1>6, <1>7, <1>8, <1>9, <1>10 DEF Holds, Member
<1>18. ASSUME NEW e \in A \cup B \cup C \cup D \cup E, NEW f \in A \cup B \cup C \cup D \cup E PROVE e = f
  BY <1>10, <1>13, <1>14, <1>15, <1>16, <1>17
<1>19. \E a : A \cup B \cup C \cup D \cup E = {a}
  BY <1>12, <1>18
<1> QED
  BY <1>1, <1>19, FS_Singleton

\* Every part of a package that was sent has one owner, whatever the services and
\* the socket thread do at the same time: the service, a request in the pipe, the
\* lists or the dw_buffer of one slot, the connection, or it has been freed.
THEOREM BuffersOwned == Spec => []BufferOwned
<1>1. IInv /\ Owned => BufferOwned
  <2> SUFFICES ASSUME IInv, Owned, NEW v \in Service, NEW h \in {1, 2}, NEW k \in DOMAIN sent[v]
               PROVE  Cardinality(Owners(<<<<v, k>>, h>>)) = 1
    BY DEF BufferOwned
  <2>1. sent[v] \in Seq(Package)
    BY DEF IInv, TypeOK
  <2>2. k \in Nat
    BY <2>1, LenProperties
  <2> DEFINE u == <<<<v, k>>, h>>
  <2>3. u \in Unit /\ Given(u)
    BY <2>2 DEF Unit, Given
  <2> HIDE DEF u
  <2>4. Cardinality(Owners(u)) = 1
    BY <2>3, OneOwner
  <2> QED
    BY <2>4 DEF u
<1> QED
  BY <1>1, Invariance, Ownership, PTL

-----------------------------------------------------------------------------
(* Where the units of a package belong *)

\* The package p, as it was sent
Of(p) == sent[p[1]][p[2]]
\* Of the connection id, or waiting in slot i, for that connection if it is open
Bound(u, id) == Of(u[1]).id = id
Lodged(u, i) == Hash(Of(u[1]).id) = i /\ (s[i].type \notin Closed => s[i].id = Of(u[1]).id)
AtHome == \A v \in Service : at[v].pc \in WithPackage => at[v].id = Of(at[v].p).id
PipeHome ==
    \A r \in Request : Member(pipe, r) /\ r.c \in Sending =>
        r.id = Of(r.p).id /\ (r.c = "D" <=> Of(r.p).prio = "high")
SlotHome ==
    /\ \A i \in Slot, u \in Unit : Member(Waiting(s[i]), u) => Lodged(u, i)
    /\ \A i \in Slot, u \in Unit : Member(s[i].low, u) => Of(u[1]).prio = "low"
WireHome == \A id \in Id, u \in Unit : Member(wire[id], u) => Bound(u, id)
SentHome == \A id : \A v \in Service : \A k \in DOMAIN sent[v] : sent[v][k].id = id => id \in Id /\ Known(id)
Home == AtHome /\ PipeHome /\ SlotHome /\ WireHome /\ SentHome

LEMMA KnownStays ==
  ASSUME IInv, Move, NEW id \in Id, Known(id)
  PROVE  Known(id)'
<1>1. ASSUME NEW v \in Service, ServiceMove(v) PROVE Known(id)'
  <2>1. CASE UNCHANGED told
    BY <2>1 DEF Known
  <2>2. ASSUME NEW r, FillStep(v, r) PROVE Known(id)'
    BY <2>2 DEF FillStep, ToldOf, Known
  <2> QED
    BY <1>1, <2>1, <2>2 DEF ServiceMove, StayStep, ReserveStep, AskStep, CloseStep, PostStep, SendStep, WriteStep
<1>2. ASSUME ThreadMove PROVE Known(id)'
  <2>1. CASE UNCHANGED told
    BY <2>1 DEF Known
  <2>2. ASSUME NEW e \in Id, ToldOf(e), e = id => told'[e] \in {"end", "open", "listening", told[e]}
        PROVE  Known(id)'
    BY <2>2 DEF ToldOf, Known
  <2>3. ASSUME NEW r, FailStep(r) \/ HangStep(r) PROVE Known(id)'
    BY <2>1, <2>2, <2>3 DEF FailStep, HangStep
  <2>4. ASSUME NEW e, NEW t, NewStep(e, t) PROVE Known(id)'
    BY <2>2, <2>4 DEF NewStep
  <2>5. ASSUME NEW e, StartStep(e) PROVE Known(id)'
    BY <2>2, <2>5 DEF StartStep
  <2>6. ASSUME NEW i, EndStep(i) \/ ConnectStep(i) PROVE Known(id)'
    BY <2>2, <2>6 DEF EndStep, ConnectStep
  <2> QED
    BY <1>2, <2>1, <2>3, <2>4, <2>5, <2>6 DEF ThreadMove, StayStep, TakeStep, HalfStep, LoseStep, CutStep, FlushStep
<1> QED
  BY <1>1, <1>2 DEF Move

\* No unit comes to a list, a connection or the pipe.
Stays ==
    /\ UNCHANGED <<sent, wire>>
    /\ \A v \in Service : at'[v].pc \in WithPackage =>
          at[v].pc \in WithPackage /\ at'[v].id = at[v].id /\ at'[v].p = at[v].p
    /\ \A r \in Request : Member(pipe', r) /\ r.c \in Sending => Member(pipe, r)
    /\ \A j \in Slot, u \in Unit : Member(Waiting(s'[j]), u) =>
          /\ Member(Waiting(s[j]), u)
          /\ s'[j].type \notin Closed => s[j].type \notin Closed /\ s'[j].id = s[j].id
    /\ \A j \in Slot, u \in Unit : Member(s'[j].low, u) => Member(s[j].low, u)

LEMMA KeepsHome ==
  ASSUME IInv, Home, lim' = lim, Move, Stays
  PROVE  Home'
<1> USE GeometryKept DEF Home
<1>1. AtHome'
  BY DEF Stays, AtHome, Of
<1>2. PipeHome'
  BY DEF Stays, PipeHome, Of, Member
<1>3. SlotHome'
  <2>1. ASSUME NEW i \in Slot, NEW u \in Unit, Member(Waiting(s'[i]), u) PROVE Lodged(u, i)'
    BY <2>1 DEF Stays, SlotHome, Lodged, Of
  <2>2. ASSUME NEW i \in Slot, NEW u \in Unit, Member(s'[i].low, u) PROVE Of(u[1])'.prio = "low"
    BY <2>2 DEF Stays, SlotHome, Of
  <2> QED
    BY <2>1, <2>2 DEF SlotHome, Member, Waiting
<1>4. WireHome'
  BY DEF Stays, WireHome, Bound, Of, Member
<1>5. SentHome'
  BY KnownStays DEF Stays, SentHome
<1> QED
  BY <1>1, <1>2, <1>3, <1>4, <1>5

\* The units of slot j stay, or some go; an open slot keeps its id.
Lists(j) ==
    /\ \A u \in Unit : Member(Waiting(s'[j]), u) => Member(Waiting(s[j]), u)
    /\ \A u \in Unit : Member(s'[j].low, u) => Member(s[j].low, u)
    /\ \/ s'[j].type \notin Closed => s[j].type \notin Closed /\ s'[j].id = s[j].id
       \/ \A u \in Unit : ~Member(Waiting(s'[j]), u)

LEMMA ListsOf ==
  ASSUME NEW j
  PROVE  /\ SameList(j) /\ (s'[j].type \notin Closed => s[j].type \notin Closed /\ s'[j].id = s[j].id) => Lists(j)
         /\ s'[j] = s[j] => Lists(j)
         /\ Plain(j) => Lists(j)
<1>1. SameList(j) => Waiting(s'[j]) = Waiting(s[j]) /\ s'[j].low = s[j].low
  BY DEF SameList, Waiting
<1> QED
  BY <1>1 DEF Lists, Plain

LEMMA TurnLists ==
  ASSUME NEW i \in Slot, NEW t, NEW id, Turns(i, t, id), t \notin Closed => s[i].type \notin Closed /\ s[i].id = id
  PROVE  \A j \in Slot : Lists(j)
<1> SUFFICES ASSUME NEW j \in Slot PROVE Lists(j)
  OBVIOUS
<1>1. CASE j = i
  BY <1>1, ListsOf DEF Turns
<1>2. CASE j # i
  BY <1>2, ListsOf DEF Turns, Others
<1> QED
  BY <1>1, <1>2

LEMMA PipeKeeps ==
  ASSUME TypeOK,
         \/ pipe' = pipe
         \/ \E r \in Request : r.c \notin Sending /\ pipe' = Append(pipe, r)
         \/ pipe # <<>> /\ pipe' = Tail(pipe)
  PROVE  \A r \in Request : Member(pipe', r) /\ r.c \in Sending => Member(pipe, r)
<1>1. pipe \in Seq(Request)
  BY DEF TypeOK
<1>2. CASE pipe' = pipe
  BY <1>2
<1>3. ASSUME NEW e \in Request, e.c \notin Sending, pipe' = Append(pipe, e), NEW r \in Request, Member(pipe', r), r.c \in Sending
      PROVE  Member(pipe, r)
  BY <1>1, <1>3, AppendPipe
<1>4. CASE pipe # <<>> /\ pipe' = Tail(pipe)
  BY <1>1, <1>4, TailPipe
<1> QED
  BY <1>2, <1>3, <1>4

LEMMA KeepsAll ==
  ASSUME IInv, UNCHANGED <<sent, wire>>, \A v \in Service : Carries(v), \A j \in Slot : Lists(j),
         \/ pipe' = pipe
         \/ \E r \in Request : r.c \notin Sending /\ pipe' = Append(pipe, r)
         \/ pipe # <<>> /\ pipe' = Tail(pipe)
  PROVE  Stays
<1>1. \A r \in Request : Member(pipe', r) /\ r.c \in Sending => Member(pipe, r)
  BY PipeKeeps DEF IInv
<1> QED
  BY <1>1 DEF Stays, Carries, Lists

\* What a call of service v does, but to send
LEMMA ServiceKeeps ==
  ASSUME IInv, NEW v \in Service, ServiceMove(v)
  PROVE  Stays \/ (\E m : SendStep(v, m)) \/ (\E r : PostStep(v, r)) \/ (\E n : WriteStep(v, n))
<1>1. ASSUME StayStep PROVE Stays
  BY <1>1, ListsOf, KeepsAll DEF StayStep, Frame, AllPlain
<1>2. ASSUME NEW i, ReserveStep(v, i) PROVE Stays
  <2>1. \A w \in Service : Carries(w)
    BY <1>2, Commands, CarriedOn DEF ReserveStep
  <2>2. \A j \in Slot : Lists(j)
    BY <1>2, Commands, TurnLists DEF ReserveStep
  <2> QED
    BY <1>2, <2>1, <2>2, KeepsAll DEF ReserveStep, Frame
<1>3. ASSUME NEW r, FillStep(v, r) PROVE Stays
  <2>1. \A w \in Service : Carries(w)
    BY <1>3, Commands, CarriedOn DEF FillStep
  <2>2. Hash(r.id) \in Slot
    BY <1>3, Geometry DEF FillStep, IInv, Id
  <2>3. \A j \in Slot : Lists(j)
    BY <1>3, <2>2, Commands, TurnLists DEF FillStep
  <2>4. r.c \notin Sending /\ r \in Request /\ pipe' = Append(pipe, r)
    BY <1>3, Commands DEF FillStep
  <2> QED
    BY <1>3, <2>1, <2>3, <2>4, KeepsAll DEF FillStep, Frame
<1>4. ASSUME NEW r, AskStep(r) \/ CloseStep(v, r) PROVE Stays
  <2>1. UNCHANGED <<s, at, sent, wire>> /\ r.c \notin Sending /\ r \in Request /\ pipe' = Append(pipe, r)
    BY <1>4, Commands DEF AskStep, CloseStep, Frame
  <2>2. (\A w \in Service : Carries(w)) /\ \A j \in Slot : Lists(j)
    BY <2>1, CarriedOn, ListsOf
  <2> QED
    BY <2>1, <2>2, KeepsAll
<1> QED
  BY <1>1, <1>2, <1>3, <1>4 DEF ServiceMove

\* What the socket thread does, but to take a package and to write
LEMMA ThreadKeeps ==
  ASSUME IInv, Owned, ThreadMove
  PROVE  Stays \/ (\E m : TakeStep(m)) \/ (\E i, n, k : FlushStep(i, n, k))
<1>0. pipe \in Seq(Request)
  BY DEF IInv, TypeOK
<1>1. ASSUME StayStep PROVE Stays
  BY <1>1, ListsOf, KeepsAll DEF StayStep, Frame, AllPlain
<1>2. ASSUME UNCHANGED <<sent, wire, at>>, \A j \in Slot : Lists(j), pipe' = pipe \/ (pipe # <<>> /\ pipe' = Tail(pipe))
      PROVE  Stays
  <2>1. \A w \in Service : Carries(w)
    BY <1>2 DEF Carries
  <2> QED
    BY <1>2, <2>1, KeepsAll
<1>3. ASSUME NEW r, FailStep(r) PROVE Stays
  <2>1. Hash(r.id) \in Slot
    BY <1>3, Geometry DEF FailStep, IInv, Id
  <2>2. \A j \in Slot : Lists(j)
    BY <1>3, <2>1, Commands, TurnLists DEF FailStep
  <2> QED
    BY <1>2, <1>3, <2>2 DEF FailStep, Takes1, Frame
<1>4. ASSUME NEW r, HangStep(r) PROVE Stays
  BY <1>2, <1>4, ListsOf DEF HangStep, Takes1, Frame, AllPlain
<1>5. ASSUME NEW id, NEW t, NewStep(id, t) PROVE Stays
  <2>1. PICK i \in Slot : i = Hash(id)
    BY <1>5, Geometry DEF NewStep, IInv, Id
  <2>2. /\ Others(i) /\ s'[i].dw = <<>> /\ s'[i].high = <<>> /\ s'[i].low = <<>>
        /\ UNCHANGED <<sent, wire, at>> /\ (UNCHANGED pipe \/ (pipe # <<>> /\ pipe' = Tail(pipe)))
    BY <1>5, <2>1 DEF NewStep, Frame
  <2>3. ASSUME NEW u PROVE ~Member(Waiting(s'[i]), u) /\ ~Member(s'[i].low, u)
    BY <2>2, NoUnits DEF Waiting
  <2>4. \A j \in Slot : Lists(j)
    BY <2>2, <2>3, ListsOf DEF Lists, Others
  <2> QED
    BY <1>2, <2>2, <2>4
<1>6. ASSUME NEW id, StartStep(id) PROVE Stays
  <2>1. Hash(id) \in Slot
    BY <1>6, Geometry DEF StartStep, IInv, Id
  <2>2. \A j \in Slot : Lists(j)
    <3>1. CASE AllPlain
      BY <3>1, ListsOf DEF AllPlain
    <3>2. CASE s[Hash(id)].id = id /\ s[Hash(id)].type \in {"PACCEPT", "PLISTEN"} /\ \E t : Turns(Hash(id), t, id)
      BY <2>1, <3>2, TurnLists DEF Closed
    <3> QED
      BY <1>6, <3>1, <3>2 DEF StartStep
  <2> QED
    BY <1>2, <1>6, <2>2 DEF StartStep, Frame
<1>7. ASSUME NEW i, HalfStep(i) \/ ConnectStep(i) PROVE Stays
  <2>1. \A j \in Slot : Lists(j)
    BY <1>7, TurnLists DEF HalfStep, ConnectStep, Closed
  <2> QED
    BY <1>2, <1>7, <2>1 DEF HalfStep, ConnectStep, Frame
<1>8. ASSUME NEW i \in Slot, Others(i), s'[i].id = s[i].id, s'[i].dw \in {s[i].dw, <<>>}, s'[i].type = s[i].type \/ s'[i].type \in Closed,
             (s'[i].high = s[i].high /\ s'[i].low = s[i].low) \/ (s'[i].high = <<>> /\ s'[i].low = <<>>)
      PROVE  \A j \in Slot : Lists(j)
  <2>1. s[i].dw \in Seq(Unit) /\ s[i].high \in Seq(Unit) /\ s[i].low \in Seq(Unit)
    BY DEF IInv, TypeOK, Socket
  <2>2. \A u : Member(Waiting(s[i]), u) <=> Member(s[i].dw, u) \/ Member(s[i].high, u) \/ Member(s[i].low, u)
    BY <2>1, Three DEF Waiting
  <2>3. s'[i].dw \in Seq(Unit) /\ s'[i].high \in Seq(Unit) /\ s'[i].low \in Seq(Unit)
    BY <1>8, <2>1, NoUnits
  <2>4. \A u : Member(Waiting(s'[i]), u) <=> Member(s'[i].dw, u) \/ Member(s'[i].high, u) \/ Member(s'[i].low, u)
    BY <2>3, Three DEF Waiting
  <2>5. Lists(i)
    BY <1>8, <2>2, <2>4, NoUnits DEF Lists
  <2> QED
    BY <1>8, <2>5, ListsOf DEF Others
<1>9. ASSUME NEW i, EndStep(i) PROVE Stays
  <2>1. \A j \in Slot : Lists(j)
    BY <1>8, <1>9, Commands DEF EndStep
  <2> QED
    BY <1>2, <1>9, <2>1 DEF EndStep
<1>10. ASSUME NEW i, LoseStep(i) PROVE Stays
  <2>1. \A j \in Slot : Lists(j)
    BY <1>8, <1>10 DEF LoseStep, Holding
  <2> QED
    BY <1>2, <1>10, <2>1 DEF LoseStep
<1>11. ASSUME NEW i, NEW how, CutStep(i, how) PROVE Stays
  <2>1. \A j \in Slot : Lists(j)
    BY <1>8, <1>11 DEF CutStep, Holding
  <2> QED
    BY <1>2, <1>11, <2>1 DEF CutStep, StartTaken
<1> QED
  BY <1>1, <1>3, <1>4, <1>5, <1>6, <1>7, <1>9, <1>10, <1>11 DEF ThreadMove

\* What was sent stays as it was sent.
LEMMA SentStays ==
  ASSUME TypeOK, NEW v \in Service, NEW m, sent' = [sent EXCEPT ![v] = Append(sent[v], m)]
  PROVE  /\ \A u \in Unit : Given(u) => Of(u[1])' = Of(u[1])
         /\ \A w \in Service, k \in Nat : k \in DOMAIN sent[w] => sent'[w][k] = sent[w][k]
         /\ sent'[v][Len(sent[v]) + 1] = m /\ Len(sent'[v]) = Len(sent[v]) + 1
         /\ \A w \in Service : \A k \in DOMAIN sent'[w] :
               k \in DOMAIN sent[w] \/ (w = v /\ k = Len(sent[v]) + 1)
<1>1. sent[v] \in Seq(Package) /\ sent \in [Service -> Seq(Package)]
  BY DEF TypeOK
<1>2. Len(sent[v]) \in Nat /\ DOMAIN sent[v] = 1..Len(sent[v])
  BY <1>1, LenProperties
<1>3. sent'[v] = Append(sent[v], m) /\ \A x \in Service : x # v => sent'[x] = sent[x]
  BY <1>1
<1>4. /\ DOMAIN Append(sent[v], m) = 1..(Len(sent[v]) + 1) /\ Len(Append(sent[v], m)) = Len(sent[v]) + 1
      /\ \A k \in 1..Len(sent[v]) : Append(sent[v], m)[k] = sent[v][k]
      /\ Append(sent[v], m)[Len(sent[v]) + 1] = m
  BY <1>1, <1>2
<1>5. ASSUME NEW w \in Service, NEW k \in Nat, k \in DOMAIN sent[w] PROVE sent'[w][k] = sent[w][k]
  BY <1>2, <1>3, <1>4, <1>5
<1>6. ASSUME NEW u \in Unit, Given(u) PROVE Of(u[1])' = Of(u[1])
  <2>1. PICK w \in Service, k \in Nat : u[1] = <<w, k>>
    BY DEF Unit
  <2> QED
    BY <1>5, <1>6, <2>1 DEF Of, Given
<1>7. ASSUME NEW w \in Service, NEW k \in DOMAIN sent'[w] PROVE k \in DOMAIN sent[w] \/ (w = v /\ k = Len(sent[v]) + 1)
  BY <1>2, <1>3, <1>4, <1>7
<1> QED
  BY <1>3, <1>4, <1>5, <1>6, <1>7

\* A unit that is somewhere was sent.
LEMMA HeldIsGiven ==
  ASSUME IInv, Owned
  PROVE  /\ \A i \in Slot, u \in Unit : Member(Waiting(s[i]), u) => Given(u)
         /\ \A id \in Id, u \in Unit : Member(wire[id], u) => Given(u)
         /\ \A v \in Service : at[v].pc \in WithPackage => at[v].p \in Service \X Nat /\ Given(<<at[v].p, 1>>)
         /\ \A r \in Request : Member(pipe, r) /\ r.c \in Sending => r.p \in Service \X Nat /\ Given(<<r.p, 1>>)
         /\ \A u \in Unit : u \in dropped => Given(u)
<1>1. ASSUME NEW u \in Unit, NEW h, NEW x, Holds(h, x, u) PROVE Given(u)
  BY <1>1 DEF Owned, OneHolder
<1>2. ASSUME NEW p \in Service \X Nat PROVE <<p, 1>> \in Unit /\ <<p, 1>>[1] = p
  BY DEF Unit
<1>3. ASSUME NEW v \in Service, at[v].pc \in WithPackage PROVE at[v].p \in Service \X Nat /\ Given(<<at[v].p, 1>>)
  <2>1. at[v].p \in Service \X Nat
    BY <1>3, PlaceFacts DEF IInv
  <2> QED
    BY <1>1, <1>2, <1>3, <2>1 DEF Holds
<1>4. ASSUME NEW r \in Request, Member(pipe, r), r.c \in Sending PROVE r.p \in Service \X Nat /\ Given(<<r.p, 1>>)
  <2>1. r.p \in Service \X Nat
    BY <1>4 DEF Request, Sending, Opening
  <2> QED
    BY <1>1, <1>2, <1>4, <2>1 DEF Holds, Ship
<1>5. ASSUME NEW u \in Unit PROVE /\ \A i \in Slot : Member(Waiting(s[i]), u) => Given(u)
                                  /\ \A id \in Id : Member(wire[id], u) => Given(u)
                                  /\ u \in dropped => Given(u)
  BY <1>1 DEF Holds
<1> QED
  BY <1>3, <1>4, <1>5

LEMMA LowWaits ==
  ASSUME TypeOK, NEW i \in Slot, NEW u, Member(s[i].low, u)
  PROVE  Member(Waiting(s[i]), u) /\ u \in Unit
<1>1. s[i].dw \in Seq(Unit) /\ s[i].high \in Seq(Unit) /\ s[i].low \in Seq(Unit)
  BY DEF TypeOK, Socket
<1>2. Member(Waiting(s[i]), u)
  BY <1>1, Three DEF Waiting
<1> QED
  BY <1>1, <1>2, MembersAreUnits

LEMMA SendHome ==
  ASSUME IInv, Owned, Home, lim' = lim, Move, NEW v \in Service, NEW m, SendStep(v, m)
  PROVE  Home'
<1> USE GeometryKept DEF Home
<1>1. /\ m \in Package /\ m.id \in Id /\ told[m.id] \in {"open", "accept", "end"} /\ at[v].pc = "idle"
      /\ sent' = [sent EXCEPT ![v] = Append(sent[v], m)]
      /\ \/ UNCHANGED at
         \/ at'[v].pc \in {"look", "ref"} /\ at'[v].id = m.id /\ at'[v].p = <<v, Len(sent[v]) + 1>> /\ Only(v)
      /\ UNCHANGED <<s, pipe, wire>>
  BY DEF SendStep
<1>2. PICK new : new = <<v, Len(sent[v]) + 1>>
  OBVIOUS
<1>3. /\ \A u \in Unit : Given(u) => Of(u[1])' = Of(u[1])
      /\ Of(new)' = m
      /\ \A w \in Service : \A k \in DOMAIN sent'[w] : k \in DOMAIN sent[w] \/ (w = v /\ k = Len(sent[v]) + 1)
  <2>1. /\ \A u \in Unit : Given(u) => Of(u[1])' = Of(u[1])
        /\ sent'[v][Len(sent[v]) + 1] = m
        /\ \A w \in Service : \A k \in DOMAIN sent'[w] : k \in DOMAIN sent[w] \/ (w = v /\ k = Len(sent[v]) + 1)
    BY <1>1, SentStays DEF IInv
  <2>2. Of(new)' = sent'[v][Len(sent[v]) + 1]
    BY <1>2 DEF Of
  <2> QED
    BY <2>1, <2>2
<1>4. ASSUME NEW p \in Service \X Nat, Given(<<p, 1>>) PROVE Of(p)' = Of(p)
  <2>1. <<p, 1>> \in Unit /\ <<p, 1>>[1] = p
    BY DEF Unit
  <2> QED
    BY <1>3, <1>4, <2>1
<1>5. AtHome'
  <2> SUFFICES ASSUME NEW w \in Service, at'[w].pc \in WithPackage PROVE at'[w].id = sent'[at'[w].p[1]][at'[w].p[2]].id
    BY DEF AtHome, Of
  <2>1. CASE at'[w] = at[w]
    <3>1. PICK p \in Service \X Nat : p = at[w].p /\ Given(<<p, 1>>)
      BY <2>1, HeldIsGiven
    <3>2. Of(p)' = Of(p)
      BY <1>4, <3>1
    <3> QED
      BY <2>1, <3>1, <3>2 DEF AtHome, Of
  <2>2. CASE at'[w] # at[w]
    <3>1. w = v /\ at'[v].id = m.id /\ at'[v].p = new
      BY <1>1, <1>2, <2>2 DEF Only
    <3> QED
      BY <1>3, <3>1 DEF Of
  <2> QED
    BY <2>1, <2>2
<1>6. PipeHome'
  <2> SUFFICES ASSUME NEW r \in Request, Member(pipe, r), r.c \in Sending
               PROVE  r.id = Of(r.p)'.id /\ (r.c = "D" <=> Of(r.p)'.prio = "high")
    BY <1>1 DEF PipeHome, Of
  <2>1. Of(r.p)' = Of(r.p)
    BY <1>4, HeldIsGiven
  <2> QED
    BY <2>1 DEF PipeHome
<1>7. SlotHome'
  <2>1. ASSUME NEW i \in Slot, NEW u \in Unit, Member(Waiting(s[i]), u) PROVE Lodged(u, i)'
    <3>1. Of(u[1])' = Of(u[1])
      BY <1>3, <2>1, HeldIsGiven
    <3> QED
      BY <1>1, <2>1, <3>1 DEF SlotHome, Lodged
  <2>2. ASSUME NEW i \in Slot, NEW u \in Unit, Member(s[i].low, u) PROVE Of(u[1])'.prio = "low"
    <3>1. Of(u[1])' = Of(u[1])
      BY <1>3, <2>2, HeldIsGiven, LowWaits DEF IInv
    <3> QED
      BY <2>2, <3>1 DEF SlotHome
  <2> QED
    BY <1>1, <2>1, <2>2 DEF SlotHome
<1>8. WireHome'
  <2>1. ASSUME NEW id \in Id, NEW u \in Unit, Member(wire[id], u) PROVE Bound(u, id)'
    <3>1. Of(u[1])' = Of(u[1])
      BY <1>3, <2>1, HeldIsGiven
    <3> QED
      BY <2>1, <3>1 DEF WireHome, Bound
  <2> QED
    BY <1>1, <2>1 DEF WireHome
<1>9. SentHome'
  <2> SUFFICES ASSUME NEW id, NEW w \in Service, NEW k \in DOMAIN sent'[w], sent'[w][k].id = id PROVE id \in Id /\ Known(id)'
    BY DEF SentHome
  <2>1. sent[w] \in Seq(Package)
    BY DEF IInv, TypeOK
  <2>2. CASE k \in DOMAIN sent[w]
    <3>1. k \in Nat
      BY <2>1, <2>2, LenProperties
    <3>2. sent'[w][k] = sent[w][k]
      BY <1>1, <2>2, <3>1, SentStays DEF IInv, Of
    <3>3. id \in Id /\ Known(id)
      BY <2>2, <3>2 DEF SentHome
    <3> QED
      BY <3>3, KnownStays
  <2>3. CASE w = v /\ k = Len(sent[v]) + 1
    <3>1. id = m.id /\ Known(id)
      BY <1>1, <1>2, <1>3, <2>3 DEF Of, Known
    <3> QED
      BY <1>1, <3>1, KnownStays
  <2> QED
    BY <1>3, <2>2, <2>3
<1> QED
  BY <1>5, <1>6, <1>7, <1>8, <1>9

\* A step that sends nothing new: what was said of slots and connections is said of
\* those units only that have come.
LEMMA ArriveHome ==
  ASSUME IInv, Home, lim' = lim, Move, UNCHANGED sent,
         \A v \in Service : at'[v].pc \in WithPackage =>
             at[v].pc \in WithPackage /\ at'[v].id = at[v].id /\ at'[v].p = at[v].p,
         \A r \in Request : Member(pipe', r) /\ r.c \in Sending =>
             Member(pipe, r) \/ (r.id = Of(r.p).id /\ (r.c = "D" <=> Of(r.p).prio = "high")),
         \A j \in Slot, u \in Unit : Member(Waiting(s'[j]), u) =>
             \/ Member(Waiting(s[j]), u) /\ s'[j].type = s[j].type /\ s'[j].id = s[j].id
             \/ Lodged(u, j)',
         \A j \in Slot, u \in Unit : Member(s'[j].low, u) => Member(s[j].low, u) \/ Of(u[1]).prio = "low",
         \A id \in Id, u \in Unit : Member(wire'[id], u) => Member(wire[id], u) \/ Bound(u, id)
  PROVE  Home'
<1> USE GeometryKept DEF Home
<1>1. AtHome'
  BY DEF AtHome, Of
<1>2. PipeHome'
  BY DEF PipeHome, Of, Member
<1>3. SlotHome'
  <2>1. ASSUME NEW i \in Slot, NEW u \in Unit, Member(Waiting(s'[i]), u) PROVE Lodged(u, i)'
    BY <2>1 DEF SlotHome, Lodged, Of
  <2>2. ASSUME NEW i \in Slot, NEW u \in Unit, Member(s'[i].low, u) PROVE Of(u[1])'.prio = "low"
    BY <2>2 DEF SlotHome, Of
  <2> QED
    BY <2>1, <2>2 DEF SlotHome, Member, Waiting
<1>4. WireHome'
  <2>1. ASSUME NEW id \in Id, NEW u \in Unit, Member(wire'[id], u) PROVE Bound(u, id)'
    BY <2>1 DEF WireHome, Bound, Of
  <2> QED
    BY <2>1 DEF WireHome, Member
<1>5. SentHome'
  BY KnownStays DEF SentHome
<1> QED
  BY <1>1, <1>2, <1>3, <1>4, <1>5

LEMMA PostHome ==
  ASSUME IInv, Owned, Home, lim' = lim, Move, NEW v \in Service, NEW r, PostStep(v, r)
  PROVE  Home'
<1>1. /\ r \in Request /\ r.c \in Sending /\ at[v].pc = "push" /\ r.id = at[v].id /\ r.p = at[v].p
      /\ r.c = "D" <=> sent[v][r.p[2]].prio = "high"
      /\ pipe' = Append(pipe, r) /\ at'[v].pc = "idle" /\ Only(v) /\ UNCHANGED <<s, sent, wire>>
  BY DEF PostStep, Frame
<1>2. at[v].pc \in WithPackage /\ at[v].p[1] = v
  BY <1>1 DEF WithPackage, Owned, Latest
<1>3. r.id = Of(r.p).id /\ (r.c = "D" <=> Of(r.p).prio = "high")
  BY <1>1, <1>2 DEF Home, AtHome, Of
<1>4. ASSUME NEW e \in Request, Member(pipe', e), e.c \in Sending
      PROVE  Member(pipe, e) \/ (e.id = Of(e.p).id /\ (e.c = "D" <=> Of(e.p).prio = "high"))
  <2>1. e = r \/ Member(pipe, e)
    BY <1>1, <1>4, AppendPipe DEF IInv, TypeOK
  <2> QED
    BY <1>3, <2>1
<1>5. ASSUME NEW w \in Service, at'[w].pc \in WithPackage
      PROVE  at[w].pc \in WithPackage /\ at'[w].id = at[w].id /\ at'[w].p = at[w].p
  BY <1>1, <1>5, Commands DEF Only
<1> QED
  BY <1>1, <1>4, <1>5, ArriveHome

LEMMA WriteHome ==
  ASSUME IInv, Owned, Home, lim' = lim, Move, NEW v \in Service, NEW n, WriteStep(v, n)
  PROVE  Home'
<1>1. at[v].pc = "check2" /\ at[v].pc \in WithPackage
  BY DEF WriteStep, WithPackage
<1>2. PICK id \in Id, p \in Service \X Nat : id = at[v].id /\ p = at[v].p /\ id \in Nat
  BY <1>1, PlaceFacts, Geometry DEF IInv, Ids, TypeOK, Id
<1>3. PICK i \in Slot : i = Hash(id)
  BY <1>2, Geometry DEF IInv
<1>4. PICK q \in Seq(Unit) : q = Units(p) /\ Len(q) = 2 /\ \A u \in Unit : Member(q, u) <=> u[1] = p
  BY UnitsOf
<1>5. /\ n \in 0..2 /\ Written(id, SubSeq(q, 1, n))
      /\ \/ n = 2 /\ Holding(i, s[i].dw, s[i].high, s[i].low)
         \/ Holding(i, SubSeq(q, n + 1, 2), s[i].high, s[i].low)
      /\ at'[v].pc = "idle" /\ Only(v) /\ UNCHANGED <<pipe, sent>>
  BY <1>2, <1>3, <1>4 DEF WriteStep, Only
<1>6. Of(p).id = id /\ s[i].id = id
  BY <1>1, <1>2, <1>3 DEF Home, AtHome, IInv, Locks
<1>7. /\ SubSeq(q, 1, n) \in Seq(Unit) /\ SubSeq(q, n + 1, 2) \in Seq(Unit)
      /\ \A x : Member(q, x) <=> Member(SubSeq(q, 1, n), x) \/ Member(SubSeq(q, n + 1, 2), x)
  <2>1. /\ SubSeq(q, 1, n) \in Seq(Unit) /\ SubSeq(q, n + 1, Len(q)) \in Seq(Unit)
        /\ SubSeq(q, 1, n) \o SubSeq(q, n + 1, Len(q)) = q
    BY <1>4, <1>5, Split
  <2>2. PICK a \in Seq(Unit), b \in Seq(Unit) : a = SubSeq(q, 1, n) /\ b = SubSeq(q, n + 1, 2) /\ a \o b = q
    BY <1>4, <2>1
  <2>3. \A x : Member(a \o b, x) <=> Member(a, x) \/ Member(b, x)
    BY ConcatMember
  <2> QED
    BY <2>2, <2>3
<1>8. ASSUME NEW w \in Service, at'[w].pc \in WithPackage
      PROVE  at[w].pc \in WithPackage /\ at'[w].id = at[w].id /\ at'[w].p = at[w].p
  BY <1>5, <1>8, Commands DEF Only
<1>9. ASSUME NEW e \in Id, NEW u \in Unit, Member(wire'[e], u) PROVE Member(wire[e], u) \/ Bound(u, e)
  <2>1. Member(wire[e], u) \/ (e = id /\ Member(SubSeq(q, 1, n), u))
    BY <1>5, <1>7, <1>9, WrittenMember DEF IInv
  <2> QED
    BY <1>4, <1>6, <1>7, <2>1 DEF Bound
<1>10. ASSUME NEW j \in Slot, NEW u \in Unit, Member(Waiting(s'[j]), u)
       PROVE  \/ Member(Waiting(s[j]), u) /\ s'[j].type = s[j].type /\ s'[j].id = s[j].id
              \/ Lodged(u, j)'
  <2>1. CASE j # i
    BY <1>5, <1>10, <2>1 DEF Holding, Others
  <2>2. CASE j = i /\ Holding(i, s[i].dw, s[i].high, s[i].low)
    BY <1>10, <2>2 DEF Holding, Waiting
  <2>3. CASE j = i /\ Holding(i, SubSeq(q, n + 1, 2), s[i].high, s[i].low)
    <3>1. s[i].high \in Seq(Unit) /\ s[i].low \in Seq(Unit) /\ s[i].dw \in Seq(Unit)
      BY DEF IInv, TypeOK, Socket
    <3>2. Member(SubSeq(q, n + 1, 2), u) \/ Member(s[i].high, u) \/ Member(s[i].low, u)
      <4>1. PICK d \in Seq(Unit), h \in Seq(Unit), l \in Seq(Unit) :
              d = SubSeq(q, n + 1, 2) /\ h = s[i].high /\ l = s[i].low
        BY <1>7, <3>1
      <4>2. Waiting(s'[i]) = (d \o h) \o l
        BY <2>3, <4>1 DEF Holding, Waiting
      <4>3. \A x : Member((d \o h) \o l, x) <=> Member(d, x) \/ Member(h, x) \/ Member(l, x)
        BY Three
      <4> QED
        BY <1>10, <2>3, <4>1, <4>2, <4>3
    <3>3. CASE Member(SubSeq(q, n + 1, 2), u)
      <4>1. u[1] = p /\ s'[j].id = id
        BY <1>4, <1>6, <1>7, <2>3, <3>3 DEF Holding
      <4>2. Of(u[1])' = Of(u[1])
        BY <1>5 DEF Of
      <4> QED
        BY <1>3, <1>6, <2>3, <4>1, <4>2, GeometryKept DEF Lodged
    <3>4. CASE Member(s[i].high, u) \/ Member(s[i].low, u)
      BY <2>3, <3>1, <3>4, Three DEF Holding, Waiting
    <3> QED
      BY <3>2, <3>3, <3>4
  <2> QED
    BY <1>5, <2>1, <2>2, <2>3
<1>11. ASSUME NEW j \in Slot, NEW u \in Unit, Member(s'[j].low, u) PROVE Member(s[j].low, u)
  BY <1>5, <1>11 DEF Holding, Others
<1> QED
  BY <1>5, <1>8, <1>9, <1>10, <1>11, ArriveHome

LEMMA TakeHome ==
  ASSUME IInv, Owned, Home, lim' = lim, Move, NEW m, TakeStep(m)
  PROVE  Home'
<1>1. PICK id \in Id, p \in Service \X Nat : m.id = id /\ m.p = p
  BY DEF TakeStep
<1>2. PICK i \in Slot : i = Hash(id)
  BY Geometry DEF IInv, Id
<1>3. /\ pipe # <<>> /\ m = Head(pipe) /\ m.c \in Sending /\ pipe' = Tail(pipe) /\ UNCHANGED <<at, wire, sent>>
      /\ \/ Holding(i, s[i].dw, s[i].high, s[i].low)
         \/ /\ ~Gone(id)
            /\ \/ s[i].high = <<>> /\ s[i].low = <<>> /\ Holding(i, s[i].dw, Units(p), <<>>)
               \/ m.c = "D" /\ Holding(i, s[i].dw, s[i].high \o Units(p), s[i].low)
               \/ m.c = "P" /\ Holding(i, s[i].dw, s[i].high, s[i].low \o Units(p))
  BY <1>1, <1>2 DEF TakeStep, Refused
<1>4. pipe \in Seq(Request) /\ m \in Request /\ Member(pipe, m)
  BY <1>3, TailPipe DEF IInv, TypeOK
<1>5. Of(p).id = id /\ (m.c = "P" => Of(p).prio = "low")
  <2>1. Of(p).id = id /\ (m.c = "D" <=> Of(p).prio = "high")
    BY <1>1, <1>3, <1>4 DEF Home, PipeHome
  <2>2. Of(p) \in Package
    <3>1. p[1] \in Service /\ p[2] \in DOMAIN sent[p[1]]
      BY <1>1, <1>3, <1>4, HeldIsGiven DEF Given
    <3> QED
      BY <3>1, ElementOfSeq, LenProperties DEF IInv, TypeOK, Of
  <2> QED
    BY <2>1, <2>2 DEF Package
<1>6. PICK q \in Seq(Unit) : q = Units(p) /\ \A u \in Unit : Member(q, u) <=> u[1] = p
  BY UnitsOf
<1>7. s[i].high \in Seq(Unit) /\ s[i].low \in Seq(Unit) /\ s[i].dw \in Seq(Unit)
  BY DEF IInv, TypeOK, Socket
<1>8. /\ \A u : Member(s[i].high \o q, u) <=> Member(s[i].high, u) \/ Member(q, u)
      /\ \A u : Member(s[i].low \o q, u) <=> Member(s[i].low, u) \/ Member(q, u)
      /\ s[i].high \o q \in Seq(Unit) /\ s[i].low \o q \in Seq(Unit)
  BY <1>7, ConcatMember, Concat
<1>9. \A r \in Request : Member(pipe', r) /\ r.c \in Sending => Member(pipe, r)
  BY <1>3, PipeKeeps DEF IInv
<1>10. \A u : Member(Waiting(s[i]), u) <=> Member(s[i].dw, u) \/ Member(s[i].high, u) \/ Member(s[i].low, u)
  BY <1>7, Three DEF Waiting
<1>11. ASSUME NEW j \in Slot, NEW u \in Unit, Member(Waiting(s'[j]), u)
       PROVE  \/ Member(Waiting(s[j]), u) /\ s'[j].type = s[j].type /\ s'[j].id = s[j].id
              \/ Lodged(u, j)'
  <2>1. CASE j # i
    BY <1>3, <1>11, <2>1 DEF Holding, Others
  <2>2. CASE j = i /\ Holding(i, s[i].dw, s[i].high, s[i].low)
    BY <1>11, <2>2 DEF Holding, Waiting
  <2>3. CASE j = i /\ ~Gone(id) /\ ~Holding(i, s[i].dw, s[i].high, s[i].low)
    <3>1. s'[i].type = s[i].type /\ s'[i].id = s[i].id
      BY <1>3, <2>3 DEF Holding
    <3>2. Member(q, u) \/ Member(Waiting(s[i]), u)
      <4>1. CASE s[i].high = <<>> /\ s[i].low = <<>> /\ Holding(i, s[i].dw, q, <<>>)
        BY <1>7, <1>10, <1>11, <2>3, <4>1, Three, NoUnits DEF Holding, Waiting
      <4>2. CASE Holding(i, s[i].dw, s[i].high \o q, s[i].low)
        <5>1. PICK d \in Seq(Unit), h \in Seq(Unit), l \in Seq(Unit) : d = s[i].dw /\ h = s[i].high \o q /\ l = s[i].low
          BY <1>7, <1>8
        <5>2. Waiting(s'[i]) = (d \o h) \o l
          BY <4>2, <5>1 DEF Holding, Waiting
        <5>3. \A x : Member((d \o h) \o l, x) <=> Member(d, x) \/ Member(h, x) \/ Member(l, x)
          BY Three
        <5> QED
          BY <1>8, <1>10, <1>11, <2>3, <5>1, <5>2, <5>3
      <4>3. CASE Holding(i, s[i].dw, s[i].high, s[i].low \o q)
        <5>1. PICK d \in Seq(Unit), h \in Seq(Unit), l \in Seq(Unit) : d = s[i].dw /\ h = s[i].high /\ l = s[i].low \o q
          BY <1>7, <1>8
        <5>2. Waiting(s'[i]) = (d \o h) \o l
          BY <4>3, <5>1 DEF Holding, Waiting
        <5>3. \A x : Member((d \o h) \o l, x) <=> Member(d, x) \/ Member(h, x) \/ Member(l, x)
          BY Three
        <5> QED
          BY <1>8, <1>10, <1>11, <2>3, <5>1, <5>2, <5>3
      <4> QED
        BY <1>3, <1>6, <2>3, <4>1, <4>2, <4>3
    <3>3. CASE Member(q, u)
      <4>1. u[1] = p /\ s[i].id = id
        BY <1>2, <1>6, <2>3, <3>3 DEF Gone
      <4>2. Of(u[1])' = Of(u[1])
        BY <1>3 DEF Of
      <4> QED
        BY <1>2, <1>5, <2>3, <3>1, <4>1, <4>2, GeometryKept DEF Lodged
    <3> QED
      BY <2>3, <3>1, <3>2, <3>3
  <2> QED
    BY <1>3, <2>1, <2>2, <2>3
<1>12. ASSUME NEW j \in Slot, NEW u \in Unit, Member(s'[j].low, u) PROVE Member(s[j].low, u) \/ Of(u[1]).prio = "low"
  <2>1. CASE j # i
    BY <1>3, <1>12, <2>1 DEF Holding, Others
  <2>2. CASE j = i
    BY <1>3, <1>5, <1>6, <1>8, <1>12, <2>2, NoUnits DEF Holding
  <2> QED
    BY <2>1, <2>2
<1> QED
  BY <1>3, <1>9, <1>11, <1>12, ArriveHome

LEMMA InitHome ==
  ASSUME Init
  PROVE  Home
<1>1. /\ pipe = <<>> /\ sent = [v \in Service |-> <<>>] /\ wire = [id \in Id |-> <<>>]
      /\ \A v \in Service : at[v].pc = "idle"
      /\ \A i \in Slot : s[i].dw = <<>> /\ s[i].high = <<>> /\ s[i].low = <<>>
  BY DEF Init, Idle
<1>2. ASSUME NEW i \in Slot, NEW u PROVE ~Member(Waiting(s[i]), u) /\ ~Member(s[i].low, u)
  <2>1. Waiting(s[i]) = <<>>
    BY <1>1, NoUnits DEF Waiting
  <2> QED
    BY <1>1, <2>1, NoUnits
<1>3. AtHome /\ PipeHome /\ WireHome
  BY <1>1, Commands, NoUnits DEF AtHome, PipeHome, WireHome, Member
<1>4. SlotHome /\ SentHome
  BY <1>1, <1>2, NoUnits DEF SlotHome, SentHome
<1> QED
  BY <1>3, <1>4 DEF Home

LastUnits(a, l, w, n, r, k) ==
    /\ Len(SubSeq(r, k + 1, Len(r))) = Len(w) - n - k
    /\ \A j \in 1..(Len(w) - n - k) :
          /\ SubSeq(r, k + 1, Len(r))[j] = w[n + k + j]
          /\ n + k + j - Len(a) \in DOMAIN l /\ w[n + k + j] = l[n + k + j - Len(a)]
\* What is left after n units and the next k, if these reach into l, is of l.
LEMMA LastPart ==
  ASSUME NEW a \in Seq(Unit), NEW l \in Seq(Unit), NEW w \in Seq(Unit), w = a \o l, NEW n \in 0..Len(w),
         NEW r, r = SubSeq(w, n + 1, Len(w)), NEW k \in 0..Len(r), n + k >= Len(a)
  PROVE  LastUnits(a, l, w, n, r, k)
<1>1. r \in Seq(Unit) /\ Len(r) = Len(w) - n /\ \A j \in 1..(Len(w) - n) : r[j] = w[n + j]
  BY Split
<1>2. PICK t \in Seq(Unit) : t = SubSeq(r, k + 1, Len(r))
  BY <1>1, Split
<1>3. Len(t) = Len(r) - k /\ \A j \in 1..(Len(r) - k) : t[j] = r[k + j]
  <2>1. /\ Len(SubSeq(r, k + 1, Len(r))) = Len(r) - k
        /\ \A j \in 1..(Len(r) - k) : SubSeq(r, k + 1, Len(r))[j] = r[k + j]
    BY <1>1, Split
  <2> QED
    BY <1>2, <2>1
<1>4. Len(a) \in Nat /\ Len(l) \in Nat /\ Len(w) \in Nat /\ DOMAIN l = 1..Len(l) /\ DOMAIN a = 1..Len(a)
  BY LenProperties
<1>5. Len(w) = Len(a) + Len(l) /\ \A j \in DOMAIN l : w[Len(a) + j] = l[j]
  BY Concat
<1>6. ASSUME NEW j \in 1..(Len(w) - n - k)
      PROVE  t[j] = w[n + k + j] /\ n + k + j - Len(a) \in DOMAIN l /\ w[n + k + j] = l[n + k + j - Len(a)]
  <2>1. j \in 1..(Len(r) - k) /\ k + j \in 1..(Len(w) - n)
    BY <1>1, <1>4, <1>6
  <2>2. t[j] = w[n + (k + j)]
    BY <1>1, <1>3, <2>1
  <2>3. n + k + j - Len(a) \in DOMAIN l /\ Len(a) + (n + k + j - Len(a)) = n + k + j /\ n + (k + j) = n + k + j
    BY <1>1, <1>4, <1>5, <1>6
  <2> QED
    BY <1>5, <2>2, <2>3
<1> QED
  BY <1>1, <1>2, <1>3, <1>4, <1>6 DEF LastUnits

LEMMA FlushHome ==
  ASSUME IInv, Owned, Home, lim' = lim, Move, NEW i, NEW n, NEW k, FlushStep(i, n, k)
  PROVE  Home'
<1>1. /\ i \in Slot /\ s[i].id \in Id /\ n \in 0..Len(Waiting(s[i])) /\ Kept(s[i], n, k)
      /\ Written(s[i].id, SubSeq(Waiting(s[i]), 1, n))
      /\ Holding(i, <<>>, SubSeq(Rests(s[i], n), 1, k), SubSeq(Rests(s[i], n), k + 1, Len(Rests(s[i], n))))
      /\ UNCHANGED <<pipe, at, sent>> /\ st.pc = "send" /\ st.i = i
  BY DEF FlushStep
<1>2. PICK id \in Id : id = s[i].id
  BY <1>1
<1>3. /\ s[i].dw \in Seq(Unit) /\ s[i].high \in Seq(Unit) /\ s[i].low \in Seq(Unit)
      /\ s[i].dw \o s[i].high \in Seq(Unit) /\ Waiting(s[i]) \in Seq(Unit)
  BY <1>1, WaitingTypes DEF IInv
<1>4. PICK a \in Seq(Unit), l \in Seq(Unit), w \in Seq(Unit) :
        a = s[i].dw \o s[i].high /\ l = s[i].low /\ w = a \o l /\ w = Waiting(s[i])
  BY <1>3 DEF Waiting
<1>5. PICK g \in Seq(Unit), r \in Seq(Unit) :
        g = SubSeq(w, 1, n) /\ r = SubSeq(w, n + 1, Len(w)) /\ g \o r = w /\ r = Rests(s[i], n)
  <2>1. n \in 0..Len(w)
    BY <1>1, <1>4
  <2>2.  \E g \in Seq(Unit), r \in Seq(Unit) :
           g = SubSeq(w, 1, n) /\ r = SubSeq(w, n + 1, Len(w)) /\ g \o r = w /\ r = Rests(s[i], n)
    <3>1. /\ SubSeq(w, 1, n) \in Seq(Unit) /\ SubSeq(w, n + 1, Len(w)) \in Seq(Unit)
          /\ SubSeq(w, 1, n) \o SubSeq(w, n + 1, Len(w)) = w
      BY <2>1, Split
    <3>2. Rests(s[i], n) = SubSeq(w, n + 1, Len(w))
      BY <1>4 DEF Rests
    <3> QED
      BY <3>1, <3>2
  <2> QED
    BY <2>2
<1>6. \A x : Member(w, x) <=> Member(g, x) \/ Member(r, x)
  <2>1. \A x : Member(g \o r, x) <=> Member(g, x) \/ Member(r, x)
    BY ConcatMember
  <2> QED
    BY <1>5, <2>1
<1>7. k \in 0..Len(r) /\ n + k >= Len(a)
  <2>1. /\ k \in 0..Len(r)
        /\ Len(a) - n > 0 => k = Len(a) - n
    BY <1>1, <1>4, <1>5 DEF Kept
  <2>2. Len(a) \in Nat /\ Len(r) \in Nat /\ n \in Nat
    BY <1>1, <1>3, LenProperties
  <2> QED
    BY <2>1, <2>2
<1>8. PICK h \in Seq(Unit), t \in Seq(Unit) : h = SubSeq(r, 1, k) /\ t = SubSeq(r, k + 1, Len(r)) /\ h \o t = r
  <2>1. /\ SubSeq(r, 1, k) \in Seq(Unit) /\ SubSeq(r, k + 1, Len(r)) \in Seq(Unit)
        /\ SubSeq(r, 1, k) \o SubSeq(r, k + 1, Len(r)) = r
    BY <1>7, Split
  <2> QED
    BY <2>1
<1>9. \A x : Member(r, x) <=> Member(h, x) \/ Member(t, x)
  <2>1. \A x : Member(h \o t, x) <=> Member(h, x) \/ Member(t, x)
    BY ConcatMember
  <2> QED
    BY <1>8, <2>1
<1>10. Holding(i, <<>>, h, t) /\ Written(id, g)
  BY <1>1, <1>2, <1>4, <1>5, <1>8
<1>11. Waiting(s'[i]) = r
  BY <1>8, <1>10, NoUnits DEF Holding, Waiting
<1>12. s[i].type \notin Closed
  BY <1>1 DEF IInv, AtWork, AtSlot
<1>13. ASSUME NEW e \in Id, NEW u \in Unit, Member(wire'[e], u) PROVE Member(wire[e], u) \/ Bound(u, e)
  <2>1. Member(wire[e], u) \/ (e = id /\ Member(g, u))
    BY <1>10, <1>13, WrittenMember DEF IInv
  <2>2. CASE e = id /\ Member(g, u)
    <3>1. Lodged(u, i)
      BY <1>1, <1>4, <1>6, <2>2 DEF Home, SlotHome
    <3> QED
      BY <1>2, <1>12, <2>2, <3>1 DEF Lodged, Bound
  <2> QED
    BY <2>1, <2>2
<1>14. ASSUME NEW j \in Slot, NEW u \in Unit, Member(Waiting(s'[j]), u)
       PROVE  Member(Waiting(s[j]), u) /\ s'[j].type = s[j].type /\ s'[j].id = s[j].id
  BY <1>4, <1>6, <1>10, <1>11, <1>14 DEF Holding, Others
<1>15. ASSUME NEW j \in Slot, NEW u \in Unit, Member(s'[j].low, u) PROVE Member(s[j].low, u)
  <2>1. CASE j # i
    BY <1>10, <1>15, <2>1 DEF Holding, Others
  <2>2. CASE j = i
    <3>1. PICK x \in DOMAIN t : t[x] = u
      BY <1>10, <1>15, <2>2 DEF Holding, Member
    <3>2. /\ Len(t) = Len(w) - n - k
          /\ \A y \in 1..(Len(w) - n - k) : /\ t[y] = w[n + k + y]
               /\ n + k + y - Len(a) \in DOMAIN l /\ w[n + k + y] = l[n + k + y - Len(a)]
      <4>1. n \in 0..Len(w)
        BY <1>1, <1>4
      <4>2. w = a \o l /\ r = SubSeq(w, n + 1, Len(w)) /\ t = SubSeq(r, k + 1, Len(r))
        BY <1>4, <1>5, <1>8
      <4>3. LastUnits(a, l, w, n, r, k)
        BY <1>7, <4>1, <4>2, LastPart
      <4> QED
        BY <4>2, <4>3 DEF LastUnits
    <3>3. x \in 1..(Len(w) - n - k)
      BY <3>1, <3>2, LenProperties
    <3> QED
      BY <1>4, <2>2, <3>1, <3>2, <3>3 DEF Member
  <2> QED
    BY <2>1, <2>2
<1> QED
  BY <1>1, <1>13, <1>14, <1>15, ArriveHome

LEMMA Homes == Spec => []Home
<1>1. Init => Home
  BY InitHome
<1>2. IInv /\ Owned /\ Home /\ [Next]_vars => Home'
  <2> SUFFICES ASSUME IInv, Owned, Home, [Next]_vars PROVE Home'
    OBVIOUS
  <2>1. lim' = lim
    BY LimitsKept
  <2>2. Move
    BY EveryMove
  <2>3. ASSUME NEW v \in Service, ServiceMove(v) PROVE Home'
    BY <2>1, <2>2, <2>3, ServiceKeeps, KeepsHome, SendHome, PostHome, WriteHome
  <2>4. ASSUME ThreadMove PROVE Home'
    BY <2>1, <2>2, <2>4, ThreadKeeps, KeepsHome, TakeHome, FlushHome
  <2> QED
    BY <2>2, <2>3, <2>4 DEF Move
<1> QED
  BY <1>1, <1>2, Invariance, Ownership, PTL DEF Spec

-----------------------------------------------------------------------------
(* The life of a socket, and what the socket thread goes on to do *)

SlotNext(i) ==
    \/ s'[i].type = s[i].type /\ s'[i].id = s[i].id
    \/ s[i].type \in Closed /\ s'[i].type \in Closed
    \/ s[i].type \in Closed /\ \E id, t : NewStep(id, t) /\ Hash(id) = i
    \/ /\ s[i].type \in {"PACCEPT", "PLISTEN", "CONNECTING"} /\ s'[i].type \in {"CONNECTED", "LISTEN"}
       /\ s'[i].id = s[i].id /\ st'.pc \notin AtSlot
    \/ HalfStep(i)
    \/ EndStep(i)

LEMMA NextOfSlot ==
  ASSUME IInv, Move, NEW i \in Slot
  PROVE  SlotNext(i)
<1> USE DEF SlotNext
<1>1. CASE s'[i].type = s[i].type /\ s'[i].id = s[i].id
  BY <1>1
<1>2. ASSUME Plain(i) \/ s'[i] = s[i] PROVE SlotNext(i)
  BY <1>2 DEF Plain
<1>3. ASSUME NEW v \in Service, ServiceMove(v) PROVE SlotNext(i)
  <2>1. ASSUME StayStep PROVE SlotNext(i)
    BY <1>2, <2>1 DEF StayStep, AllPlain
  <2>2. ASSUME NEW j, ReserveStep(v, j) PROVE SlotNext(i)
    BY <1>2, <2>2, Commands DEF ReserveStep, Turns, Others
  <2>3. ASSUME NEW r, FillStep(v, r) PROVE SlotNext(i)
    BY <1>2, <2>3, Commands DEF FillStep, Turns, Others
  <2>4. ASSUME NEW r, AskStep(r) \/ CloseStep(v, r) \/ PostStep(v, r) PROVE SlotNext(i)
    BY <1>2, <2>4 DEF AskStep, CloseStep, PostStep
  <2>5. ASSUME NEW m, SendStep(v, m) PROVE SlotNext(i)
    BY <1>2, <2>5 DEF SendStep
  <2>6. ASSUME NEW n, WriteStep(v, n) PROVE SlotNext(i)
    BY <1>1, <2>6 DEF WriteStep, Holding, Others
  <2> QED
    BY <1>3, <2>1, <2>2, <2>3, <2>4, <2>5, <2>6 DEF ServiceMove
<1>4. ASSUME ThreadMove PROVE SlotNext(i)
  <2>1. ASSUME StayStep PROVE SlotNext(i)
    BY <1>2, <2>1 DEF StayStep, AllPlain
  <2>2. ASSUME NEW r, FailStep(r) PROVE SlotNext(i)
    <3>1. s[Hash(r.id)].type \in Closed
      <4>1. Reserved(Hash(r.id), r.id)
        BY <2>2, TailPipe DEF FailStep, Takes1, IInv, Opens, TypeOK
      <4> QED
        BY <4>1, Commands DEF Reserved
    <3> QED
      BY <1>2, <2>2, <3>1, Commands DEF FailStep, Turns, Others
  <2>3. ASSUME NEW r, HangStep(r) PROVE SlotNext(i)
    BY <1>2, <2>3 DEF HangStep, AllPlain
  <2>4. ASSUME NEW r, TakeStep(r) PROVE SlotNext(i)
    BY <1>1, <2>4 DEF TakeStep, Holding, Others
  <2>5. ASSUME NEW id, NEW t, NewStep(id, t) PROVE SlotNext(i)
    BY <1>2, <2>5 DEF NewStep, Others
  <2>6. ASSUME NEW id, StartStep(id) PROVE SlotNext(i)
    BY <1>2, <2>6 DEF StartStep, AllPlain, Turns, Others
  <2>7. ASSUME NEW j, HalfStep(j) PROVE SlotNext(i)
    BY <1>2, <2>7 DEF HalfStep, Turns, Others
  <2>8. ASSUME NEW j, EndStep(j) PROVE SlotNext(i)
    BY <1>2, <2>8 DEF EndStep, Others
  <2>9. ASSUME NEW j, ConnectStep(j) PROVE SlotNext(i)
    <3>1. Loop.pc \notin AtSlot
      BY DEF Loop, AtSlot
    <3> QED
      BY <1>2, <2>9, <3>1 DEF ConnectStep, Turns, Others
  <2>10. ASSUME NEW j, LoseStep(j) PROVE SlotNext(i)
    BY <1>1, <2>10 DEF LoseStep, Holding, Others
  <2>11. ASSUME NEW j, NEW how, CutStep(j, how) PROVE SlotNext(i)
    BY <1>1, <2>11 DEF CutStep, Holding, Others
  <2>12. ASSUME NEW j, NEW n, NEW k, FlushStep(j, n, k) PROVE SlotNext(i)
    BY <1>1, <2>12 DEF FlushStep, Holding, Others
  <2> QED
    BY <1>4, <2>1, <2>2, <2>3, <2>4, <2>5, <2>6, <2>7, <2>8, <2>9, <2>10, <2>11, <2>12 DEF ThreadMove
<1> QED
  BY <1>3, <1>4 DEF Move

ThreadNext ==
    \/ st' = st
    \/ st'.pc \notin AtSlot
    \/ st'.pc = "send" /\ ~st'.clear
    \/ \E m : HangStep(m) /\ ~Gone(m.id) /\ st'.i = Hash(m.id) /\ st'.pc \in {"recheck", "send"}
    \/ st'.pc = "closing" /\ st'.how = "cut"
    \/ /\ st'.pc \in {"recheck", "closing"} /\ st.pc \in {"recheck", "send"} /\ st'.i = st.i
       /\ st.pc = "recheck" \/ st.clear \/ s[st.i].type = "HALFCLOSE"

LEMMA NextOfThread ==
  ASSUME IInv, Move
  PROVE  ThreadNext
<1> USE DEF ThreadNext
<1>0. Loop.pc \notin AtSlot /\ "clear" \notin AtSlot
  BY DEF Loop, AtSlot
<1>1. ASSUME NEW v \in Service, ServiceMove(v) PROVE ThreadNext
  BY <1>1 DEF ServiceMove, StayStep, ReserveStep, FillStep, AskStep, CloseStep, PostStep, SendStep, WriteStep
<1>2. ASSUME ThreadMove PROVE ThreadNext
  <2>1. ASSUME StayStep PROVE ThreadNext
    BY <2>1 DEF StayStep
  <2>2. ASSUME NEW r, FailStep(r) \/ TakeStep(r) PROVE ThreadNext
    BY <1>0, <2>2 DEF FailStep, TakeStep
  <2>3. ASSUME NEW r, HangStep(r) PROVE ThreadNext
    BY <2>3 DEF HangStep
  <2>4. ASSUME NEW id, NEW t, NewStep(id, t) PROVE ThreadNext
    BY <1>0, <2>4 DEF NewStep
  <2>5. ASSUME NEW id, StartStep(id) PROVE ThreadNext
    BY <2>5 DEF StartStep
  <2>6. ASSUME NEW j, HalfStep(j) \/ EndStep(j) \/ ConnectStep(j) PROVE ThreadNext
    BY <1>0, <2>6 DEF HalfStep, EndStep, ConnectStep
  <2>7. ASSUME NEW j, LoseStep(j) PROVE ThreadNext
    BY <2>7 DEF LoseStep
  <2>8. ASSUME NEW j, NEW how, CutStep(j, how) PROVE ThreadNext
    BY <2>8 DEF CutStep
  <2>9. ASSUME NEW j, NEW n, NEW k, FlushStep(j, n, k) PROVE ThreadNext
    BY <1>0, <2>9 DEF FlushStep
  <2> QED
    BY <1>2, <2>1, <2>2, <2>3, <2>4, <2>5, <2>6, <2>7, <2>8, <2>9 DEF ThreadMove
<1> QED
  BY <1>1, <1>2 DEF Move

-----------------------------------------------------------------------------
(* Connections that are open, and how they end *)

Live(id) == s[Hash(id)].id = id /\ s[Hash(id)].type \notin Closed
Runs(id) == s[Hash(id)].id = id /\ s[Hash(id)].type \in {"CONNECTED", "HALFCLOSE", "BIND"}
ClosingAs(id, how) == Live(id) /\ st.pc = "closing" /\ st.i = Hash(id) /\ st.how = how
\* close_socket has begun, and waits or is over with nothing left.
Draining(id) ==
    /\ Live(id)
    /\ \/ s[Hash(id)].type = "HALFCLOSE"
       \/ st.pc = "recheck" /\ st.i = Hash(id)
       \/ st.pc = "send" /\ st.clear /\ st.i = Hash(id)
       \/ ClosingAs(id, "drained")

\* Connection id ends.
EndsNow(id) == \E i \in Slot : EndStep(i) /\ s[i].id = id /\ ended'[id] = st.how /\ ended[id] = "no"

LEMMA EndsOnce ==
  ASSUME IInv, Move, NEW id \in Id, ended'[id] # ended[id]
  PROVE  EndsNow(id)
<1>1. UNCHANGED ended \/ \E i : EndStep(i)
  BY DEF Move, ServiceMove, ThreadMove, StayStep, ReserveStep, FillStep, AskStep, CloseStep, PostStep, SendStep,
         WriteStep, FailStep, HangStep, TakeStep, NewStep, StartStep, HalfStep, ConnectStep, LoseStep, CutStep,
         FlushStep, Frame
<1>2. PICK i : EndStep(i)
  BY <1>1
<1>3. i \in Slot /\ s[i].id \in Id /\ s[i].type \notin Closed /\ ended' = [ended EXCEPT ![s[i].id] = st.how]
  BY <1>2 DEF EndStep
<1>4. s[i].id \in Nat /\ ended[s[i].id] = "no"
  BY <1>3 DEF IInv, Slots, Id
<1>5. ended \in [Id -> {"no", "cut", "drained"}]
  BY DEF IInv, TypeOK
<1> QED
  BY <1>2, <1>3, <1>4, <1>5 DEF EndsNow

LEMMA DrainNext ==
  ASSUME IInv, lim' = lim, Move, NEW id \in Id, Draining(id)'
  PROVE  Draining(id) \/ \E m : HangStep(m) /\ m.id = id
<1>1. PICK i \in Slot : i = Hash(id)
  BY Geometry DEF IInv, Id
<1>2. /\ s'[i].id = id /\ s'[i].type \notin Closed
      /\ \/ s'[i].type = "HALFCLOSE"
         \/ st'.pc = "recheck" /\ st'.i = i
         \/ st'.pc = "send" /\ st'.clear /\ st'.i = i
         \/ st'.pc = "closing" /\ st'.i = i /\ st'.how = "drained"
  BY <1>1, GeometryKept DEF Draining, Live, ClosingAs
<1>3. SlotNext(i) /\ ThreadNext
  BY NextOfSlot, NextOfThread
<1> USE DEF AtSlot
<1>4. CASE s'[i].type = s[i].type /\ s'[i].id = s[i].id
  <2>1. s[i].id = id /\ s[i].type \notin Closed
    BY <1>2, <1>4
  <2>2. CASE s[i].type = "HALFCLOSE"
    BY <1>1, <2>1, <2>2 DEF Draining, Live
  <2>3. ASSUME NEW m, HangStep(m), ~Gone(m.id), st'.i = Hash(m.id), st'.pc \in {"recheck", "send"}, st'.i = i
        PROVE  HangStep(m) /\ m.id = id
    BY <2>1, <2>3 DEF Gone
  <2> QED
    BY <1>1, <1>2, <1>3, <1>4, <2>1, <2>2, <2>3 DEF ThreadNext, Draining, Live, ClosingAs
<1>5. ASSUME NEW e, NEW t, NewStep(e, t), Hash(e) = i PROVE FALSE
  BY <1>2, <1>5 DEF NewStep, Loop
<1>6. CASE HalfStep(i)
  <2>1. s[i].id = id /\ s[i].type \notin Closed /\ st.pc = "recheck" /\ st.i = i
    BY <1>2, <1>6 DEF HalfStep, Turns
  <2> QED
    BY <1>1, <2>1 DEF Draining, Live
<1>7. CASE EndStep(i)
  BY <1>2, <1>7, Commands DEF EndStep
<1> QED
  BY <1>2, <1>3, <1>4, <1>5, <1>6, <1>7 DEF SlotNext

-----------------------------------------------------------------------------
(* Requests to close *)

AskedIn(q, id) == \E k \in DOMAIN q : q[k].c = "K" /\ q[k].id = id
OneK(q) == \A j, k \in DOMAIN q : q[j].c = "K" /\ q[k].c = "K" /\ q[j].id = q[k].id => j = k
\* The packages for id that service v sent as its first n come before a request to close id.
Follows(q, id, v, n) ==
    \A k \in DOMAIN q : q[k].c \in Sending /\ q[k].id = id /\ q[k].p[1] = v /\ q[k].p[2] <= n =>
        \E j \in DOMAIN q : k < j /\ q[j].c = "K" /\ q[j].id = id

LEMMA CloseAppend ==
  ASSUME NEW q \in Seq(Request), NEW e \in Request
  PROVE  /\ \A id : AskedIn(Append(q, e), id) <=> AskedIn(q, id) \/ (e.c = "K" /\ e.id = id)
         /\ OneK(q) /\ (e.c = "K" => ~AskedIn(q, e.id)) => OneK(Append(q, e))
         /\ \A id, v, n :
               \/ e.c = "K" /\ e.id = id
               \/ Follows(q, id, v, n) /\ ~(e.c \in Sending /\ e.id = id /\ e.p[1] = v /\ e.p[2] <= n)
               => Follows(Append(q, e), id, v, n)
<1> DEFINE a == Append(q, e)
<1>1. Len(a) = Len(q) + 1 /\ a[Len(q) + 1] = e /\ a \in Seq(Request) /\ \A i \in 1..Len(q) : a[i] = q[i]
  BY AppendProperties
<1>2. Len(q) \in Nat /\ DOMAIN q = 1..Len(q) /\ DOMAIN a = 1..(Len(q) + 1)
  BY <1>1, LenProperties
<1> HIDE DEF a
<1>3. /\ \A k \in DOMAIN q : k \in DOMAIN a /\ a[k] = q[k] /\ k < Len(q) + 1
      /\ \A k \in DOMAIN a : k \in DOMAIN q \/ k = Len(q) + 1
      /\ Len(q) + 1 \in DOMAIN a
  BY <1>1, <1>2
<1>4. \A id : AskedIn(a, id) <=> AskedIn(q, id) \/ (e.c = "K" /\ e.id = id)
  BY <1>1, <1>3 DEF AskedIn
<1>5. OneK(q) /\ (e.c = "K" => ~AskedIn(q, e.id)) => OneK(a)
  BY <1>1, <1>3 DEF OneK, AskedIn
<1>6. ASSUME NEW id, NEW v, NEW n, e.c = "K", e.id = id PROVE Follows(a, id, v, n)
  <2> SUFFICES ASSUME NEW k \in DOMAIN a, a[k].c \in Sending
               PROVE  \E j \in DOMAIN a : k < j /\ a[j].c = "K" /\ a[j].id = id
    BY DEF Follows
  <2>1. k # Len(q) + 1
    BY <1>1, <1>6 DEF Sending
  <2> QED
    BY <1>1, <1>3, <1>6, <2>1
<1>7. ASSUME NEW id, NEW v, NEW n, Follows(q, id, v, n), ~(e.c \in Sending /\ e.id = id /\ e.p[1] = v /\ e.p[2] <= n)
      PROVE  Follows(a, id, v, n)
  <2> SUFFICES ASSUME NEW k \in DOMAIN a, a[k].c \in Sending, a[k].id = id, a[k].p[1] = v, a[k].p[2] <= n
               PROVE  \E j \in DOMAIN a : k < j /\ a[j].c = "K" /\ a[j].id = id
    BY DEF Follows
  <2>1. k \in DOMAIN q
    BY <1>1, <1>3, <1>7
  <2>2. PICK j \in DOMAIN q : k < j /\ q[j].c = "K" /\ q[j].id = id
    BY <1>3, <1>7, <2>1 DEF Follows
  <2> QED
    BY <1>3, <2>2
<1> QED
  BY <1>4, <1>5, <1>6, <1>7 DEF a

LEMMA CloseTail ==
  ASSUME NEW q \in Seq(Request), q # <<>>
  PROVE  /\ \A id : AskedIn(q, id) <=> AskedIn(Tail(q), id) \/ (Head(q).c = "K" /\ Head(q).id = id)
         /\ OneK(q) => OneK(Tail(q)) /\ (Head(q).c = "K" => ~AskedIn(Tail(q), Head(q).id))
         /\ \A id, v, n : Follows(q, id, v, n) => Follows(Tail(q), id, v, n)
<1> DEFINE a == Tail(q)
<1>1. /\ a \in Seq(Request) /\ Len(a) = Len(q) - 1 /\ Head(q) = q[1]
      /\ \A i \in 1..Len(a) : a[i] = q[i + 1]
  BY HeadTailProperties
<1>2. Len(q) \in Nat \ {0} /\ DOMAIN q = 1..Len(q) /\ DOMAIN a = 1..(Len(q) - 1)
  BY <1>1, LenProperties, EmptySeq
<1> HIDE DEF a
<1>3. /\ \A i \in DOMAIN a : i + 1 \in DOMAIN q /\ a[i] = q[i + 1] /\ i \in Nat \ {0} /\ i + 1 # 1
      /\ \A i \in DOMAIN q : i \in Nat /\ (i = 1 \/ (i - 1 \in DOMAIN a /\ a[i - 1] = q[i]))
      /\ 1 \in DOMAIN q
  BY <1>1, <1>2
<1>4. \A id : AskedIn(q, id) <=> AskedIn(a, id) \/ (Head(q).c = "K" /\ Head(q).id = id)
  BY <1>1, <1>3 DEF AskedIn
<1>5. ASSUME OneK(q) PROVE OneK(a) /\ (Head(q).c = "K" => ~AskedIn(a, Head(q).id))
  <2>1. OneK(a)
    <3> SUFFICES ASSUME NEW j \in DOMAIN a, NEW k \in DOMAIN a, a[j].c = "K", a[k].c = "K", a[j].id = a[k].id
                 PROVE  j = k
      BY DEF OneK
    <3>1. j + 1 = k + 1
      BY <1>3, <1>5 DEF OneK
    <3> QED
      BY <1>3, <3>1
  <2>2. ASSUME Head(q).c = "K", NEW k \in DOMAIN a, a[k].c = "K", a[k].id = Head(q).id PROVE FALSE
    BY <1>1, <1>3, <1>5, <2>2 DEF OneK
  <2> QED
    BY <2>1, <2>2 DEF AskedIn
<1>6. ASSUME NEW id, NEW v, NEW n, Follows(q, id, v, n) PROVE Follows(a, id, v, n)
  <2> SUFFICES ASSUME NEW k \in DOMAIN a, a[k].c \in Sending, a[k].id = id, a[k].p[1] = v, a[k].p[2] <= n
               PROVE  \E j \in DOMAIN a : k < j /\ a[j].c = "K" /\ a[j].id = id
    BY DEF Follows
  <2>1. PICK j \in DOMAIN q : k + 1 < j /\ q[j].c = "K" /\ q[j].id = id
    BY <1>3, <1>6 DEF Follows
  <2>2. j - 1 \in DOMAIN a /\ a[j - 1] = q[j] /\ k < j - 1
    BY <1>3, <2>1
  <2> QED
    BY <2>1, <2>2
<1> QED
  BY <1>4, <1>5, <1>6 DEF a

\* A covered package in the pipe means that the request to close is still there.
LEMMA CoveredAsks ==
  ASSUME NEW q \in Seq(Request), NEW r \in Request, Member(q, r), r.c \in Sending, NEW n, Follows(q, r.id, r.p[1], n),
         r.p[2] <= n
  PROVE  AskedIn(q, r.id)
<1>1. PICK k \in DOMAIN q : q[k] = r
  BY DEF Member
<1>2. PICK j \in DOMAIN q : q[j].c = "K" /\ q[j].id = r.id
  BY <1>1 DEF Follows
<1> QED
  BY <1>2 DEF AskedIn

-----------------------------------------------------------------------------
(* Who closed a connection, and what becomes of the request *)

\* The closer of id, if there is one, has given away the packages that it sent before.
Behind(id) ==
    closer[id] # <<>> =>
        /\ closer[id] \in Service \X Nat
        /\ closer[id][2] <= Len(sent[closer[id][1]])
        /\ at[closer[id][1]].pc \in WithPackage => closer[id][2] < Len(sent[closer[id][1]])
        /\ Follows(pipe, id, closer[id][1], closer[id][2])
\* A socket is drained for the request of its closer, which is not in the pipe any more.
Hung(id) == Draining(id) \/ ended[id] = "drained" => closer[id] # <<>> /\ ~AskedIn(pipe, id)
Closers ==
    /\ closer \in [Id -> {<<>>} \cup (Service \X Nat)]
    /\ OneK(pipe)
    /\ \A id \in Id : Behind(id) /\ Hung(id) /\ (AskedIn(pipe, id) => closer[id] # <<>>)

PipeNext ==
    \/ pipe' = pipe
    \/ \E r \in Request : r.c \notin Sending /\ r.c # "K" /\ pipe' = Append(pipe, r)
    \/ pipe # <<>> /\ Head(pipe).c # "K" /\ pipe' = Tail(pipe)
    \/ \E v \in Service : \E r : PostStep(v, r) \/ CloseStep(v, r)
    \/ \E m : HangStep(m)
CloserNext == closer' = closer \/ \E v \in Service : \E r : CloseStep(v, r)
SentNext ==
    \/ sent' = sent /\ \A v \in Service : at'[v].pc \in WithPackage => at[v].pc \in WithPackage
    \/ \E v \in Service : \E m : SendStep(v, m)

LEMMA NextOfPipe ==
  ASSUME IInv, Move
  PROVE  PipeNext /\ CloserNext /\ SentNext
<1> USE DEF PipeNext, CloserNext, SentNext
<1>0. \A r : r.c \in Opening \/ r.c = "S" => r.c \notin Sending /\ r.c # "K"
  BY DEF Opening, Sending
<1>1. ASSUME NEW v \in Service, ServiceMove(v) PROVE PipeNext /\ CloserNext /\ SentNext
  <2>1. ASSUME StayStep PROVE PipeNext /\ CloserNext /\ SentNext
    BY <2>1 DEF StayStep, Frame, Carries
  <2>2. ASSUME NEW j, ReserveStep(v, j) PROVE PipeNext /\ CloserNext /\ SentNext
    BY <2>2, Commands DEF ReserveStep, Only, Frame
  <2>3. ASSUME NEW r, FillStep(v, r) PROVE PipeNext /\ CloserNext /\ SentNext
    BY <1>0, <2>3, Commands DEF FillStep, Only, Frame
  <2>4. ASSUME NEW r, AskStep(r) PROVE PipeNext /\ CloserNext /\ SentNext
    BY <1>0, <2>4 DEF AskStep, Frame
  <2>5. ASSUME NEW r, CloseStep(v, r) PROVE PipeNext /\ CloserNext /\ SentNext
    <3>1. SentNext
      BY <2>5 DEF CloseStep, Frame
    <3> QED
      BY <2>5, <3>1
  <2>6. ASSUME NEW r, PostStep(v, r) PROVE PipeNext /\ CloserNext /\ SentNext
    <3>1. SentNext /\ closer' = closer
      BY <2>6, Commands DEF PostStep, Only, Frame
    <3> QED
      BY <2>6, <3>1
  <2>7. ASSUME NEW m, SendStep(v, m) PROVE PipeNext /\ CloserNext /\ SentNext
    <3>1. pipe' = pipe /\ closer' = closer
      BY <2>7 DEF SendStep
    <3> QED
      BY <2>7, <3>1
  <2>8. ASSUME NEW n, WriteStep(v, n) PROVE PipeNext /\ CloserNext /\ SentNext
    BY <2>8, Commands DEF WriteStep
  <2> QED
    BY <1>1, <2>1, <2>2, <2>3, <2>4, <2>5, <2>6, <2>7, <2>8 DEF ServiceMove
<1>2. ASSUME ThreadMove PROVE PipeNext /\ CloserNext /\ SentNext
  <2>1. ASSUME StayStep PROVE PipeNext /\ CloserNext /\ SentNext
    BY <2>1 DEF StayStep, Frame, Carries
  <2>2. ASSUME NEW r, FailStep(r) PROVE PipeNext /\ CloserNext /\ SentNext
    BY <1>0, <2>2 DEF FailStep, Takes1, Frame
  <2>3. ASSUME NEW r, HangStep(r) PROVE PipeNext /\ CloserNext /\ SentNext
    <3>1. closer' = closer /\ sent' = sent /\ at' = at
      BY <2>3 DEF HangStep, Frame
    <3> QED
      BY <2>3, <3>1
  <2>4. ASSUME NEW r, TakeStep(r) PROVE PipeNext /\ CloserNext /\ SentNext
    <3>1. Head(pipe).c # "K"
      BY <2>4 DEF TakeStep, Sending
    <3> QED
      BY <2>4, <3>1 DEF TakeStep
  <2>5. ASSUME NEW id, NEW t, NewStep(id, t) PROVE PipeNext /\ CloserNext /\ SentNext
    BY <1>0, <2>5 DEF NewStep, Frame
  <2>6. ASSUME NEW id, StartStep(id) PROVE PipeNext /\ CloserNext /\ SentNext
    BY <1>0, <2>6 DEF StartStep, Frame
  <2>7. ASSUME NEW j, HalfStep(j) \/ EndStep(j) \/ ConnectStep(j) \/ LoseStep(j) PROVE PipeNext /\ CloserNext /\ SentNext
    BY <2>7 DEF HalfStep, EndStep, ConnectStep, LoseStep, Frame
  <2>8. ASSUME NEW j, NEW how, CutStep(j, how) PROVE PipeNext /\ CloserNext /\ SentNext
    BY <2>8 DEF CutStep, StartTaken
  <2>9. ASSUME NEW j, NEW n, NEW k, FlushStep(j, n, k) PROVE PipeNext /\ CloserNext /\ SentNext
    BY <2>9 DEF FlushStep
  <2> QED
    BY <1>2, <2>1, <2>2, <2>3, <2>4, <2>5, <2>6, <2>7, <2>8, <2>9 DEF ThreadMove
<1> QED
  BY <1>1, <1>2 DEF Move

\* One way to see what Closers says of the next state
BehindThen(id) ==
    closer'[id] # <<>> =>
        /\ closer'[id] \in Service \X Nat
        /\ closer'[id][2] <= Len(sent'[closer'[id][1]])
        /\ at'[closer'[id][1]].pc \in WithPackage => closer'[id][2] < Len(sent'[closer'[id][1]])
        /\ Follows(pipe', id, closer'[id][1], closer'[id][2])

\* Who closes id is recorded once.
LEMMA CloserStays ==
  ASSUME IInv, Move, Closers, NEW id \in Id
  PROVE  \/ closer'[id] = closer[id]
         \/ \E v \in Service : \E r : CloseStep(v, r) /\ r.id = id /\ closer[id] = <<>>
                                      /\ closer'[id] = <<v, Len(sent[v])>>
<1>1. CASE closer' = closer
  BY <1>1
<1>2. ASSUME NEW v \in Service, NEW r, CloseStep(v, r)
      PROVE  \/ closer'[id] = closer[id]
             \/ CloseStep(v, r) /\ r.id = id /\ closer[id] = <<>> /\ closer'[id] = <<v, Len(sent[v])>>
  BY <1>2 DEF CloseStep, Closers
<1> QED
  BY <1>1, <1>2, NextOfPipe DEF CloserNext

\* A request to close id appears when its closer does, and is there once.
LEMMA AskedNext ==
  ASSUME IInv, Move, Closers
  PROVE  /\ OneK(pipe')
         /\ \A id \in Id : AskedIn(pipe', id) =>
               AskedIn(pipe, id) \/ \E v \in Service : \E r : CloseStep(v, r) /\ r.id = id
         /\ \A m : HangStep(m) => AskedIn(pipe, m.id) /\ ~AskedIn(pipe', m.id)
<1>0. pipe \in Seq(Request) /\ OneK(pipe) /\ PipeNext
  BY NextOfPipe DEF IInv, TypeOK, Closers
<1>1. ASSUME NEW m, HangStep(m)
      PROVE  AskedIn(pipe, m.id) /\ ~AskedIn(pipe', m.id) /\ OneK(pipe') /\ \A id : AskedIn(pipe', id) => AskedIn(pipe, id)
  BY <1>0, <1>1, CloseTail DEF HangStep, Takes1
<1>2. ASSUME NEW v \in Service, NEW r, CloseStep(v, r)
      PROVE  OneK(pipe') /\ \A id \in Id : AskedIn(pipe', id) => AskedIn(pipe, id) \/ (CloseStep(v, r) /\ r.id = id)
  <2>1. r \in Request /\ r.c = "K" /\ r.id \in Id /\ pipe' = Append(pipe, r) /\ closer[r.id] = <<>>
    BY <1>2 DEF CloseStep
  <2>2. ~AskedIn(pipe, r.id)
    BY <2>1 DEF Closers
  <2> QED
    BY <1>0, <1>2, <2>1, <2>2, CloseAppend
<1>3. ASSUME NEW v \in Service, NEW r, PostStep(v, r)
      PROVE  OneK(pipe') /\ \A id : AskedIn(pipe', id) => AskedIn(pipe, id)
  <2>1. r \in Request /\ r.c # "K" /\ pipe' = Append(pipe, r)
    BY <1>3 DEF PostStep, Sending
  <2> QED
    BY <1>0, <2>1, CloseAppend
<1>4. ASSUME NEW r \in Request, r.c # "K", pipe' = Append(pipe, r)
      PROVE  OneK(pipe') /\ \A id : AskedIn(pipe', id) => AskedIn(pipe, id)
  BY <1>0, <1>4, CloseAppend
<1>5. ASSUME pipe # <<>>, pipe' = Tail(pipe)
      PROVE  OneK(pipe') /\ \A id : AskedIn(pipe', id) => AskedIn(pipe, id)
  BY <1>0, <1>5, CloseTail
<1> QED
  BY <1>0, <1>1, <1>2, <1>3, <1>4, <1>5 DEF PipeNext

\* What a service sent before it closed id stays in front of the request.
LEMMA FollowsNext ==
  ASSUME IInv, Owned, Move, Closers, NEW id \in Id, closer[id] # <<>>
  PROVE  Follows(pipe', id, closer[id][1], closer[id][2])
<1> DEFINE v == closer[id][1]
           n == closer[id][2]
<1>0. pipe \in Seq(Request) /\ PipeNext /\ Follows(pipe, id, v, n) /\ v \in Service /\ n \in Nat /\ Behind(id)
  BY NextOfPipe DEF IInv, TypeOK, Closers, Behind
<1> HIDE DEF v, n
<1>1. ASSUME NEW w \in Service, NEW r, PostStep(w, r) PROVE Follows(pipe', id, v, n)
  <2>1. r \in Request /\ r.c \in Sending /\ r.p = at[w].p /\ at[w].pc \in WithPackage /\ pipe' = Append(pipe, r)
    BY <1>1 DEF PostStep, WithPackage
  <2>2. r.p[1] = w /\ r.p[2] = Len(sent[w])
    BY <2>1 DEF Owned, Latest
  <2>3. ~(r.p[1] = v /\ r.p[2] <= n)
    <3> SUFFICES ASSUME w = v, Len(sent[v]) <= n PROVE FALSE
      BY <2>2
    <3>1. n < Len(sent[v])
      BY <1>0, <2>1 DEF Behind, v, n
    <3>2. Len(sent[v]) \in Nat
      BY <1>0, LenProperties DEF IInv, TypeOK
    <3> QED
      BY <1>0, <3>1, <3>2
  <2> QED
    BY <1>0, <2>1, <2>3, CloseAppend
<1>2. ASSUME NEW w \in Service, NEW r, CloseStep(w, r) PROVE Follows(pipe', id, v, n)
  <2>1. r \in Request /\ r.c \notin Sending /\ pipe' = Append(pipe, r)
    BY <1>2 DEF CloseStep, Sending
  <2> QED
    BY <1>0, <2>1, CloseAppend
<1>3. ASSUME NEW r \in Request, r.c \notin Sending, pipe' = Append(pipe, r) PROVE Follows(pipe', id, v, n)
  BY <1>0, <1>3, CloseAppend
<1>4. ASSUME pipe # <<>>, pipe' = Tail(pipe) PROVE Follows(pipe', id, v, n)
  BY <1>0, <1>4, CloseTail
<1>5. ASSUME NEW m, HangStep(m) PROVE Follows(pipe', id, v, n)
  BY <1>4, <1>5 DEF HangStep, Takes1
<1> QED
  BY <1>0, <1>1, <1>2, <1>3, <1>4, <1>5 DEF PipeNext, v, n

LEMMA BehindNext ==
  ASSUME IInv, Owned, Move, Closers, NEW id \in Id
  PROVE  BehindThen(id)
<1>0. sent \in [Service -> Seq(Package)] /\ \A v \in Service : Len(sent[v]) \in Nat
  BY LenProperties DEF IInv, TypeOK
<1>1. CASE closer'[id] = closer[id] /\ closer[id] # <<>>
  <2>1. PICK v \in Service, n \in Nat : closer[id] = <<v, n>>
    BY <1>1 DEF Closers
  <2>2. n <= Len(sent[v]) /\ (at[v].pc \in WithPackage => n < Len(sent[v]))
    BY <1>1, <2>1 DEF Closers, Behind
  <2>3. n <= Len(sent'[v]) /\ (at'[v].pc \in WithPackage => n < Len(sent'[v]))
    <3>1. CASE sent' = sent /\ \A w \in Service : at'[w].pc \in WithPackage => at[w].pc \in WithPackage
      BY <2>2, <3>1
    <3>2. ASSUME NEW w \in Service, NEW m, SendStep(w, m)
          PROVE  n <= Len(sent'[v]) /\ (at'[v].pc \in WithPackage => n < Len(sent'[v]))
      <4>1. sent' = [sent EXCEPT ![w] = Append(sent[w], m)]
        BY <3>2 DEF SendStep
      <4>2. Len(sent'[w]) = Len(sent[w]) + 1
        BY <4>1, SentStays DEF IInv
      <4>3. CASE v = w
        BY <1>0, <2>2, <4>2, <4>3
      <4>4. CASE v # w
        <5>1. sent'[v] = sent[v] /\ at'[v] = at[v]
          BY <1>0, <3>2, <4>1, <4>4 DEF SendStep, Only
        <5> QED
          BY <2>2, <5>1
      <4> QED
        BY <4>3, <4>4
    <3> QED
      BY <3>1, <3>2, NextOfPipe DEF SentNext
  <2> QED
    BY <1>1, <2>1, <2>3, FollowsNext DEF BehindThen
<1>2. ASSUME NEW v \in Service, NEW r, CloseStep(v, r), r.id = id, closer'[id] = <<v, Len(sent[v])>>
      PROVE  BehindThen(id)
  <2>1. r \in Request /\ r.c = "K" /\ pipe' = Append(pipe, r) /\ at[v].pc = "idle" /\ at' = at /\ sent' = sent
    BY <1>2 DEF CloseStep, Frame
  <2>2. pipe \in Seq(Request)
    BY DEF IInv, TypeOK
  <2>3. Follows(pipe', id, v, Len(sent[v]))
    BY <1>2, <2>1, <2>2, CloseAppend
  <2>4. at'[v].pc \notin WithPackage
    BY <2>1, Commands
  <2> QED
    BY <1>0, <1>2, <2>1, <2>3, <2>4 DEF BehindThen
<1> QED
  BY <1>1, <1>2, CloserStays DEF BehindThen

LEMMA ClosersNext ==
  ASSUME IInv, Owned, Closers, lim' = lim, Move
  PROVE  Closers'
<1>1. closer' \in [Id -> {<<>>} \cup (Service \X Nat)]
  <2>1. ASSUME NEW v \in Service, NEW r, CloseStep(v, r) PROVE closer' \in [Id -> {<<>>} \cup (Service \X Nat)]
    <3>1. Len(sent[v]) \in Nat
      BY LenProperties DEF IInv, TypeOK
    <3> QED
      BY <2>1, <3>1 DEF CloseStep, Closers
  <2> QED
    BY <2>1, NextOfPipe DEF CloserNext, Closers
<1>2. OneK(pipe')
  BY AskedNext
<1>3. ASSUME NEW id \in Id, AskedIn(pipe', id) PROVE closer'[id] # <<>>
  <2>1. CASE AskedIn(pipe, id)
    BY <2>1, CloserStays DEF Closers
  <2>2. ASSUME NEW v \in Service, NEW r, CloseStep(v, r), r.id = id PROVE closer'[id] # <<>>
    BY <2>2 DEF CloseStep, Closers
  <2> QED
    BY <1>3, <2>1, <2>2, AskedNext
<1>4. ASSUME NEW id \in Id, Draining(id)' \/ ended'[id] = "drained" PROVE closer'[id] # <<>> /\ ~AskedIn(pipe', id)
  <2>1. Draining(id) \/ ended[id] = "drained" \/ \E m : HangStep(m) /\ m.id = id
    <3>1. ASSUME ended'[id] = "drained", ended[id] # "drained" PROVE Draining(id)
      <4>1. PICK i \in Slot : EndStep(i) /\ s[i].id = id /\ st.how = "drained"
        BY <3>1, EndsOnce DEF EndsNow
      <4>2. st.pc = "closing" /\ st.i = i /\ s[i].type \notin Closed
        BY <4>1 DEF EndStep
      <4>3. Hash(id) = i
        BY <4>1, <4>2 DEF IInv, Slots, Id
      <4> QED
        BY <4>1, <4>2, <4>3 DEF Draining, Live, ClosingAs
    <3> QED
      BY <1>4, <3>1, DrainNext
  <2>2. CASE Draining(id) \/ ended[id] = "drained"
    <3>1. closer[id] # <<>> /\ ~AskedIn(pipe, id)
      BY <2>2 DEF Closers, Hung
    <3>2. ~\E v \in Service : \E r : CloseStep(v, r) /\ r.id = id
      BY <3>1 DEF CloseStep
    <3> QED
      BY <3>1, <3>2, AskedNext, CloserStays
  <2>3. ASSUME NEW m, HangStep(m), m.id = id PROVE closer'[id] # <<>> /\ ~AskedIn(pipe', id)
    <3>1. AskedIn(pipe, id) /\ ~AskedIn(pipe', id)
      BY <2>3, AskedNext
    <3> QED
      BY <3>1, CloserStays DEF Closers
  <2> QED
    BY <2>1, <2>2, <2>3
<1>5. Id' = Id
  BY GeometryKept
<1>6. ASSUME NEW id \in Id PROVE (Behind(id) /\ Hung(id) /\ (AskedIn(pipe, id) => closer[id] # <<>>))'
  <2>1. Behind(id)'
    BY BehindNext DEF BehindThen, Behind
  <2>2. Hung(id)'
    BY <1>4 DEF Hung
  <2> QED
    BY <1>3, <2>1, <2>2
<1> QED
  BY <1>1, <1>2, <1>5, <1>6 DEF Closers

\* A connection that services were told is open is, or has ended.
OpenFor ==
    /\ \A id \in Id : told[id] = "open" => Runs(id)
    /\ \A id \in Id : \A v \in Service : \A k \in DOMAIN sent[v] :
          sent[v][k].id = id /\ sent[v][k].open => ended[id] # "no" \/ Runs(id)

RunsThen(id) == s'[Hash(id)].id = id /\ s'[Hash(id)].type \in {"CONNECTED", "HALFCLOSE", "BIND"}

LEMMA RunsNext ==
  ASSUME IInv, Move, NEW id \in Id, Runs(id)
  PROVE  RunsThen(id) \/ EndsNow(id)
<1>1. PICK i \in Slot : i = Hash(id)
  BY Geometry DEF IInv, Id
<1>2. s[i].id = id /\ s[i].type \in {"CONNECTED", "HALFCLOSE", "BIND"} /\ s[i].type \notin Closed
  BY <1>1 DEF Runs, Closed
<1>3. CASE s'[i].type = s[i].type /\ s'[i].id = s[i].id
  BY <1>1, <1>2, <1>3 DEF RunsThen
<1>4. CASE HalfStep(i)
  BY <1>1, <1>2, <1>4 DEF HalfStep, Turns, RunsThen
<1>5. CASE EndStep(i)
  <2>1. ended' = [ended EXCEPT ![id] = st.how]
    BY <1>2, <1>5 DEF EndStep
  <2>2. ended \in [Id -> {"no", "cut", "drained"}]
    BY DEF IInv, TypeOK
  <2>3. ended[id] = "no"
    BY <1>2 DEF IInv, Slots, Id
  <2> QED
    BY <1>2, <1>5, <2>1, <2>2, <2>3 DEF EndsNow
<1> QED
  BY <1>2, <1>3, <1>4, <1>5, NextOfSlot DEF SlotNext

LEMMA ToldOpen ==
  ASSUME IInv, Move, NEW id \in Id, told'[id] = "open"
  PROVE  told[id] = "open" \/ RunsThen(id)
<1> DEFINE Good == told[id] = "open" \/ RunsThen(id)
<1>0. ASSUME told'[id] = told[id] PROVE Good
  BY <1>0
<1>1. ASSUME NEW v \in Service, ServiceMove(v) PROVE Good
  <2>1. ASSUME NEW r, FillStep(v, r) PROVE Good
    BY <1>0, <2>1 DEF FillStep, ToldOf
  <2> HIDE DEF Good
  <2> QED
    BY <1>0, <1>1, <2>1 DEF ServiceMove, StayStep, ReserveStep, AskStep, CloseStep, PostStep, SendStep, WriteStep
<1>2. ASSUME NEW r, FailStep(r) PROVE Good
  BY <1>0, <1>2 DEF FailStep, ToldOf
<1>3. ASSUME NEW r, HangStep(r) PROVE Good
  BY <1>0, <1>3 DEF HangStep, ToldOf
<1>4. ASSUME NEW e, NEW t, NewStep(e, t) PROVE Good
  <2>1. CASE e = id
    BY <1>0, <1>4, <2>1 DEF NewStep, RunsThen
  <2> QED
    BY <1>0, <1>4, <2>1 DEF NewStep, ToldOf
<1>5. ASSUME NEW e, StartStep(e) PROVE Good
  <2>1. CASE e = id
    <3>1. Hash(id) \in Slot
      BY Geometry DEF IInv, Id
    <3> QED
      BY <1>0, <1>5, <2>1, <3>1 DEF StartStep, Turns, AllPlain, Plain, RunsThen
  <2> QED
    BY <1>0, <1>5, <2>1 DEF StartStep, ToldOf
<1>6. ASSUME NEW j, EndStep(j) PROVE Good
  BY <1>0, <1>6 DEF EndStep, ToldOf
<1>7. ASSUME NEW j, ConnectStep(j) PROVE Good
  <2>1. CASE s[j].id = id
    <3>1. Hash(id) = j
      BY <1>7, <2>1, Commands DEF ConnectStep, IInv, Slots, Id, Closed
    <3> QED
      BY <1>7, <2>1, <3>1 DEF ConnectStep, Turns, RunsThen
  <2> QED
    BY <1>0, <1>7, <2>1 DEF ConnectStep, ToldOf
<1> HIDE DEF Good
<1>8. ASSUME ThreadMove PROVE Good
  BY <1>0, <1>2, <1>3, <1>4, <1>5, <1>6, <1>7, <1>8
     DEF ThreadMove, StayStep, TakeStep, HalfStep, LoseStep, CutStep, FlushStep
<1> QED
  BY <1>1, <1>8 DEF Move, Good

LEMMA OpenNext ==
  ASSUME IInv, OpenFor, lim' = lim, Move
  PROVE  OpenFor'
<1>0. ended \in [Id -> {"no", "cut", "drained"}] /\ (Id' = Id) /\ \A id : Hash(id)' = Hash(id)
  BY GeometryKept DEF IInv, TypeOK
<1>1. \A id \in Id : RunsThen(id) <=> Runs(id)'
  BY <1>0 DEF RunsThen, Runs
<1>2. ASSUME NEW id \in Id, EndsNow(id) PROVE told'[id] = "end" /\ ended'[id] # "no"
  <2>1. PICK i \in Slot : EndStep(i) /\ s[i].id = id /\ ended'[id] = st.how
    BY <1>2 DEF EndsNow
  <2>2. st.pc = "closing" /\ st \in ThreadPlace
    BY <2>1 DEF EndStep, IInv, TypeOK
  <2>3. st.how \in {"cut", "drained"}
    BY <2>2 DEF ThreadPlace
  <2> QED
    BY <2>1, <2>3 DEF EndStep
<1>3. ASSUME NEW id \in Id, told'[id] = "open" PROVE RunsThen(id)
  <2>1. CASE told[id] = "open"
    BY <1>2, <1>3, <2>1, RunsNext DEF OpenFor
  <2> QED
    BY <1>3, <2>1, ToldOpen
<1>4. ASSUME NEW id \in Id, ended[id] # "no" \/ Runs(id) PROVE ended'[id] # "no" \/ RunsThen(id)
  <2>1. CASE ended[id] # "no"
    BY <2>1, EndsOnce DEF EndsNow
  <2>2. CASE Runs(id)
    BY <1>2, <2>2, RunsNext
  <2> QED
    BY <1>4, <2>1, <2>2
<1>5. ASSUME NEW id \in Id, NEW v \in Service, NEW k \in DOMAIN sent'[v], sent'[v][k].id = id, sent'[v][k].open
      PROVE  ended'[id] # "no" \/ RunsThen(id)
  <2>1. CASE sent' = sent
    BY <1>4, <1>5, <2>1 DEF OpenFor
  <2>2. ASSUME NEW w \in Service, NEW m, SendStep(w, m) PROVE ended[id] # "no" \/ Runs(id)
    <3>1. /\ sent' = [sent EXCEPT ![w] = Append(sent[w], m)]
          /\ m.open = (told[m.id] = "open") /\ m.id \in Id
      BY <2>2 DEF SendStep
    <3>2. sent \in [Service -> Seq(Package)]
      BY DEF IInv, TypeOK
    <3>3. CASE k \in DOMAIN sent[v]
      <4>1. k \in Nat
        BY <3>2, <3>3, LenProperties
      <4>2. sent'[v][k] = sent[v][k]
        BY <3>1, <3>3, <4>1, SentStays DEF IInv
      <4> QED
        BY <1>5, <3>3, <4>2 DEF OpenFor
    <3>4. CASE v = w /\ k = Len(sent[w]) + 1
      <4>1. sent'[v][k] = m
        BY <3>1, <3>4, SentStays DEF IInv
      <4> QED
        BY <1>5, <3>1, <4>1 DEF OpenFor
    <3> QED
      BY <3>1, <3>3, <3>4, SentStays DEF IInv
  <2> QED
    BY <1>4, <2>1, <2>2, NextOfPipe DEF SentNext
<1> QED
  BY <1>0, <1>1, <1>3, <1>5 DEF OpenFor

-----------------------------------------------------------------------------
(* What is promised to be written *)

Covers(c, p) == c = <<>> \/ (c[1] = p[1] /\ p[2] <= c[2])
\* A package for connection id, sent while it was open and, if it was closed
\* since, by its closer and before.
Promised(u, id) == Given(u) /\ Of(u[1]).open /\ Of(u[1]).id = id /\ Covers(closer[id], u[1])
\* It is freed only when the connection is cut,
NotLost(id) ==
    \A u \in Unit : Promised(u, id) /\ u \in dropped => ended[id] = "cut" \/ ClosingAs(id, "cut")
\* and written when the connection is drained.
Drained(id) ==
    \A u \in Unit : Promised(u, id) /\ (ended[id] = "drained" \/ ClosingAs(id, "drained")) => Member(wire[id], u)
NothingLost == \A id \in Id : NotLost(id) /\ Drained(id)

ClosingThen(id, how) ==
    /\ s'[Hash(id)].id = id /\ s'[Hash(id)].type \notin Closed
    /\ st'.pc = "closing" /\ st'.i = Hash(id) /\ st'.how = how
PromisedThen(u, id) ==
    /\ u[1][2] \in DOMAIN sent'[u[1][1]]
    /\ sent'[u[1][1]][u[1][2]].open /\ sent'[u[1][1]][u[1][2]].id = id
    /\ Covers(closer'[id], u[1])
\* A service sends the package of u, which is promised.
Promises(u, id) ==
    \E v \in Service : \E m : SendStep(v, m) /\ ~Given(u) /\ m.id = id /\ m.open /\ closer[id] = <<>>

\* force_close, once begun, is finished.
LEMMA ClosingStays ==
  ASSUME IInv, Move, st.pc = "closing"
  PROVE  st' = st \/ EndStep(st.i)
<1>1. ASSUME NEW v \in Service, ServiceMove(v) PROVE st' = st
  BY <1>1 DEF ServiceMove, StayStep, ReserveStep, FillStep, AskStep, CloseStep, PostStep, SendStep, WriteStep, AtSlot
<1>2. ASSUME ThreadMove PROVE st' = st \/ EndStep(st.i)
  <2>1. st # Loop /\ st.pc \in AtSlot
    BY DEF Loop, AtSlot
  <2>2. ~(\E r : FailStep(r) \/ HangStep(r) \/ TakeStep(r)) /\ ~(\E id, t : NewStep(id, t)) /\ ~\E id : StartStep(id)
    BY <2>1 DEF FailStep, HangStep, TakeStep, NewStep, StartStep
  <2>3. ~(\E i : HalfStep(i) \/ ConnectStep(i) \/ LoseStep(i)) /\ ~(\E i, how : CutStep(i, how))
    BY <2>1 DEF HalfStep, ConnectStep, LoseStep, CutStep
  <2>4. ~\E i, n, k : FlushStep(i, n, k)
    BY <2>1 DEF FlushStep
  <2>5. ASSUME NEW i, EndStep(i) PROVE EndStep(st.i)
    BY <2>5 DEF EndStep
  <2>6. StayStep => st' = st
    BY <2>1 DEF StayStep
  <2> QED
    BY <1>2, <2>2, <2>3, <2>4, <2>5, <2>6 DEF ThreadMove
<1> QED
  BY <1>1, <1>2 DEF Move

LEMMA ClosingNext ==
  ASSUME IInv, Move, NEW id \in Id, NEW how, ClosingAs(id, how)
  PROVE  ClosingThen(id, how) \/ ended'[id] = how
<1>1. PICK i \in Slot : i = Hash(id)
  BY Geometry DEF IInv, Id
<1>2. s[i].id = id /\ s[i].type \notin Closed /\ st.pc = "closing" /\ st.i = i /\ st.how = how
  BY <1>1 DEF ClosingAs, Live
<1>3. CASE EndStep(i)
  <2>1. ended' = [ended EXCEPT ![id] = how] /\ ended \in [Id -> {"no", "cut", "drained"}]
    BY <1>2, <1>3 DEF EndStep, IInv, TypeOK
  <2> QED
    BY <2>1
<1>4. CASE st' = st
  <2>1. CASE s'[i].type = s[i].type /\ s'[i].id = s[i].id
    BY <1>1, <1>2, <1>4, <2>1 DEF ClosingThen
  <2>2. ~HalfStep(i)
    BY <1>2 DEF HalfStep
  <2>3. st'.pc \in AtSlot
    BY <1>2, <1>4 DEF AtSlot
  <2> QED
    BY <1>2, <1>3, <2>1, <2>2, <2>3, NextOfSlot DEF SlotNext
<1> QED
  BY <1>2, <1>3, <1>4, ClosingStays

LEMMA PromisedBack ==
  ASSUME IInv, Closers, lim' = lim, Move, NEW id \in Id, NEW u \in Unit, PromisedThen(u, id)
  PROVE  Promised(u, id) \/ Promises(u, id)
<1>0. PICK v \in Service, k \in Nat : u[1] = <<v, k>>
  BY DEF Unit
<1>1. k \in DOMAIN sent'[v] /\ sent'[v][k].open /\ sent'[v][k].id = id /\ Covers(closer'[id], u[1])
  BY <1>0 DEF PromisedThen
<1>2. Covers(closer[id], u[1])
  BY <1>1, CloserStays DEF Covers
<1>3. CASE k \in DOMAIN sent[v]
  <2>1. sent'[v][k] = sent[v][k]
    <3>1. ASSUME NEW w \in Service, NEW m, SendStep(w, m) PROVE sent'[v][k] = sent[v][k]
      <4>1. sent' = [sent EXCEPT ![w] = Append(sent[w], m)]
        BY <3>1 DEF SendStep
      <4> QED
        BY <1>3, <4>1, SentStays DEF IInv
    <3> QED
      BY <3>1, NextOfPipe DEF SentNext
  <2> QED
    BY <1>0, <1>1, <1>2, <1>3, <2>1 DEF Promised, Given, Of
<1>4. CASE k \notin DOMAIN sent[v]
  <2>1. PICK w \in Service : \E m : SendStep(w, m)
    BY <1>1, <1>4, NextOfPipe DEF SentNext
  <2>2. PICK m : SendStep(w, m)
    BY <2>1
  <2>3. sent' = [sent EXCEPT ![w] = Append(sent[w], m)] /\ closer' = closer
    BY <2>2 DEF SendStep
  <2>4. w = v /\ k = Len(sent[v]) + 1 /\ sent'[v][k] = m
    BY <1>1, <1>4, <2>3, SentStays DEF IInv
  <2>5. ~Given(u)
    BY <1>0, <1>4 DEF Given
  <2>6. closer[id] = <<>>
    <3> SUFFICES ASSUME closer[id] # <<>> PROVE FALSE
      OBVIOUS
    <3>1. closer[id] \in Service \X Nat /\ closer[id][2] <= Len(sent[closer[id][1]])
      BY DEF Closers, Behind
    <3>2. closer[id][1] = v /\ k <= closer[id][2]
      BY <1>0, <1>2 DEF Covers
    <3>3. Len(sent[v]) \in Nat
      BY LenProperties DEF IInv, TypeOK
    <3> QED
      BY <2>4, <3>1, <3>2, <3>3
  <2> QED
    BY <1>1, <2>2, <2>4, <2>5, <2>6 DEF Promises
<1> QED
  BY <1>3, <1>4

FreedAt(u) ==
    \/ \E v \in Service : \E m : SendStep(v, m) /\ Gone(m.id) /\ u[1] = <<v, Len(sent[v]) + 1>>
    \/ \E m : TakeStep(m) /\ Refused(m) /\ u[1] = m.p
    \/ \E i, how : CutStep(i, how) /\ Member(s[i].high \o s[i].low, u)
    \/ \E i : EndStep(i) /\ Member(s[i].dw, u)
    \/ \E i : LoseStep(i) /\ Member(Waiting(s[i]), u)

LEMMA FreedBy ==
  ASSUME IInv, Move, NEW u \in Unit, u \in dropped', u \notin dropped
  PROVE  FreedAt(u)
<1> DEFINE Same == dropped' = dropped
<1>1. ASSUME NEW v \in Service, ServiceMove(v), ~Same PROVE FreedAt(u)
  <2>1. PICK m : SendStep(v, m)
    BY <1>1 DEF ServiceMove, StayStep, ReserveStep, FillStep, AskStep, CloseStep, PostStep, WriteStep, Frame
  <2>2. PICK p : p = <<v, Len(sent[v]) + 1>>
    OBVIOUS
  <2>3. p \in Service \X Nat
    <3>1. Len(sent[v]) \in Nat
      BY LenProperties DEF IInv, TypeOK
    <3> QED
      BY <2>2, <3>1
  <2>4. Gone(m.id) /\ dropped' = dropped \cup ToSet(Units(p))
    BY <1>1, <2>1, <2>2 DEF SendStep
  <2>5. u[1] = p
    BY <2>3, <2>4, UnitsOf, SetOf
  <2> QED
    BY <2>1, <2>2, <2>4, <2>5 DEF FreedAt
<1>2. ASSUME ThreadMove, ~Same PROVE FreedAt(u)
  <2>1. ASSUME NEW m, TakeStep(m) PROVE FreedAt(u)
    <3>1. m.p \in Service \X Nat /\ Refused(m) /\ dropped' = dropped \cup ToSet(Units(m.p))
      BY <1>2, <2>1 DEF TakeStep
    <3>2. u[1] = m.p
      BY <3>1, UnitsOf, SetOf
    <3> QED
      BY <2>1, <3>1, <3>2 DEF FreedAt
  <2>2. ASSUME NEW i, NEW how, CutStep(i, how) PROVE FreedAt(u)
    <3>1. Member(s[i].high \o s[i].low, u)
      BY <2>2, SetOf DEF CutStep
    <3> QED
      BY <2>2, <3>1 DEF FreedAt
  <2>3. ASSUME NEW i, EndStep(i) PROVE FreedAt(u)
    <3>1. Member(s[i].dw, u)
      BY <2>3, SetOf DEF EndStep
    <3> QED
      BY <2>3, <3>1 DEF FreedAt
  <2>4. ASSUME NEW i, LoseStep(i) PROVE FreedAt(u)
    <3>1. Member(Waiting(s[i]), u)
      BY <2>4, SetOf DEF LoseStep
    <3> QED
      BY <2>4, <3>1 DEF FreedAt
  <2>5. ASSUME NEW i, NEW n, NEW k, FlushStep(i, n, k) PROVE Same
    BY <2>5 DEF FlushStep
  <2>6. ASSUME NEW r, FailStep(r) \/ HangStep(r) PROVE Same
    BY <2>6 DEF FailStep, HangStep, Frame
  <2>7. ASSUME NEW id, NEW t, NewStep(id, t) PROVE Same
    BY <2>7 DEF NewStep, Frame
  <2>8. ASSUME NEW id, StartStep(id) PROVE Same
    BY <2>8 DEF StartStep, Frame
  <2>9. ASSUME NEW i, HalfStep(i) \/ ConnectStep(i) PROVE Same
    BY <2>9 DEF HalfStep, ConnectStep, Frame
  <2>10. StayStep => Same
    BY DEF StayStep, Frame
  <2> HIDE DEF Same
  <2> QED
    BY <1>2, <2>1, <2>2, <2>3, <2>4, <2>5, <2>6, <2>7, <2>8, <2>9, <2>10 DEF ThreadMove
<1> QED
  BY <1>1, <1>2 DEF Move

\* What has been written stays so.
LEMMA WireGrows ==
  ASSUME IInv, Move, NEW id \in Id, NEW u, Member(wire[id], u)
  PROVE  Member(wire'[id], u)
<1>1. ASSUME NEW e \in Id, NEW g \in Seq(Unit), Written(e, g) PROVE Member(wire'[id], u)
  BY <1>1, WrittenMember DEF IInv
<1>2. ASSUME NEW v \in Service, NEW n, WriteStep(v, n) PROVE Member(wire'[id], u)
  <2>1. at[v].pc \in WithPackage
    BY <1>2 DEF WriteStep, WithPackage
  <2>2. at[v].id \in Id /\ at[v].p \in Service \X Nat
    BY <2>1, PlaceFacts DEF IInv
  <2>3. PICK q \in Seq(Unit) : q = Units(at[v].p) /\ Len(q) = 2
    BY <2>2, UnitsOf
  <2>4. n \in 0..Len(q) /\ Written(at[v].id, SubSeq(q, 1, n))
    BY <1>2, <2>3 DEF WriteStep
  <2>5. SubSeq(q, 1, n) \in Seq(Unit)
    BY <2>4, Split
  <2> QED
    BY <1>1, <2>2, <2>4, <2>5
<1>3. ASSUME NEW i, NEW n, NEW k, FlushStep(i, n, k) PROVE Member(wire'[id], u)
  <2>1. i \in Slot /\ s[i].id \in Id
    BY <1>3 DEF FlushStep
  <2>2. PICK q \in Seq(Unit) : q = Waiting(s[i])
    BY <2>1, WaitingTypes DEF IInv
  <2>3. n \in 0..Len(q) /\ Written(s[i].id, SubSeq(q, 1, n))
    BY <1>3, <2>2 DEF FlushStep
  <2>4. SubSeq(q, 1, n) \in Seq(Unit)
    BY <2>3, Split
  <2> QED
    BY <1>1, <2>1, <2>3, <2>4
<1>4. wire' = wire \/ (\E v \in Service : \E n : WriteStep(v, n)) \/ (\E i, n, k : FlushStep(i, n, k))
  <2>1. ASSUME NEW v \in Service, ServiceMove(v) PROVE wire' = wire \/ \E n : WriteStep(v, n)
    BY <2>1 DEF ServiceMove, StayStep, ReserveStep, FillStep, AskStep, CloseStep, PostStep, SendStep, Frame
  <2>2. ASSUME ThreadMove PROVE wire' = wire \/ \E i, n, k : FlushStep(i, n, k)
    BY <2>2 DEF ThreadMove, StayStep, FailStep, HangStep, TakeStep, NewStep, StartStep, HalfStep, EndStep, ConnectStep,
                LoseStep, CutStep, Frame
  <2> QED
    BY <2>1, <2>2 DEF Move
<1> QED
  BY <1>2, <1>3, <1>4

\* A unit that is promised has been written, or waits in the socket, when the
\* request to close has been taken and nothing was cut.
LEMMA WhereIs ==
  ASSUME IInv, Owned, Home, Closers, NothingLost, NEW id \in Id, NEW u \in Unit, Promised(u, id), Draining(id),
         st.pc # "closing"
  PROVE  Member(Waiting(s[Hash(id)]), u) \/ Member(wire[id], u)
<1>0. /\ closer[id] # <<>> /\ ~AskedIn(pipe, id) /\ closer[id] \in Service \X Nat /\ Behind(id)
      /\ closer[id][1] = u[1][1] /\ u[1][2] <= closer[id][2] /\ Given(u) /\ Of(u[1]).id = id
  BY DEF Closers, Hung, Promised, Covers
<1>1. PICK v \in Service, k \in Nat : u[1] = <<v, k>>
  BY DEF Unit
<1>2. PICK h, x : Holds(h, x, u)
  BY <1>0 DEF Owned, OneHolder
<1>3. CASE h = "service"
  <2>1. x \in Service /\ at[x].pc \in WithPackage /\ u[1] = <<x, Len(sent[x])>>
    BY <1>2, <1>3 DEF Holds, Owned, Latest
  <2>2. closer[id][1] = x /\ Len(sent[x]) <= closer[id][2] /\ closer[id][2] < Len(sent[x])
    BY <1>0, <2>1 DEF Behind
  <2>3. Len(sent[x]) \in Nat /\ closer[id][2] \in Nat
    BY <1>0, <2>1, LenProperties DEF IInv, TypeOK
  <2> QED
    BY <2>2, <2>3
<1>4. CASE h = "pipe"
  <2>1. PICK r \in Request : Member(pipe, r) /\ r.c \in Sending /\ r.p = u[1]
    BY <1>2, <1>4 DEF Holds, Ship
  <2>2. r.id = id
    BY <1>0, <2>1 DEF Home, PipeHome
  <2>3. Follows(pipe, r.id, r.p[1], closer[id][2]) /\ r.p[2] <= closer[id][2]
    BY <1>0, <2>1, <2>2 DEF Behind
  <2>4. AskedIn(pipe, r.id)
    BY <2>1, <2>3, CoveredAsks DEF IInv, TypeOK
  <2> QED
    BY <1>0, <2>2, <2>4
<1>5. CASE h = "slot"
  <2>1. x \in Slot /\ Member(Waiting(s[x]), u)
    BY <1>2, <1>5 DEF Holds
  <2>2. Hash(id) = x
    BY <1>0, <2>1 DEF Home, SlotHome, Lodged
  <2> QED
    BY <2>1, <2>2
<1>6. CASE h = "wire"
  <2>1. x \in Id /\ Member(wire[x], u)
    BY <1>2, <1>6 DEF Holds
  <2>2. x = id
    BY <1>0, <2>1 DEF Home, WireHome, Bound
  <2> QED
    BY <2>1, <2>2
<1>7. CASE h = "freed"
  <2>1. u \in dropped
    BY <1>2, <1>7 DEF Holds
  <2>2. ended[id] = "cut"
    BY <2>1 DEF NothingLost, NotLost, ClosingAs
  <2>3. s[Hash(id)].id = id /\ s[Hash(id)].type \notin Closed /\ Hash(id) \in Slot
    BY Geometry DEF Draining, Live, IInv, Id
  <2>4. ended[id] = "no"
    BY <2>3 DEF IInv, Slots, Id
  <2> QED
    BY <2>2, <2>4
<1> QED
  BY <1>2, <1>3, <1>4, <1>5, <1>6, <1>7 DEF Holds

\* A promised unit that waits in an open slot waits in that of its connection.
LEMMA WaitsForId ==
  ASSUME IInv, Home, NEW id \in Id, NEW u \in Unit, Promised(u, id), NEW i \in Slot, s[i].type \notin Closed,
         Member(Waiting(s[i]), u)
  PROVE  s[i].id = id /\ Hash(id) = i
BY DEF Home, SlotHome, Lodged, Promised

\* A promised unit is not refused unless its connection was cut.
LEMMA NotRefused ==
  ASSUME IInv, Owned, Home, Closers, OpenFor, NEW id \in Id, NEW u \in Unit, Promised(u, id), NEW m, TakeStep(m),
         Refused(m), u[1] = m.p
  PROVE  ended[id] = "cut"
<1>1. pipe \in Seq(Request) /\ pipe # <<>> /\ m = Head(pipe) /\ m.c \in Sending
  BY DEF TakeStep, IInv, TypeOK
<1>2. m \in Request /\ Member(pipe, m)
  BY <1>1, TailPipe
<1>3. m.id = id
  BY <1>1, <1>2 DEF Home, PipeHome, Promised
<1>4. PICK v \in Service, k \in Nat : u[1] = <<v, k>>
  BY DEF Unit
<1>5. ended[id] # "no" \/ Runs(id)
  BY <1>4 DEF OpenFor, Promised, Given, Of
<1>6. ~(Draining(id) \/ ended[id] = "drained")
  <2> SUFFICES ASSUME Draining(id) \/ ended[id] = "drained" PROVE FALSE
    OBVIOUS
  <2>1. closer[id] # <<>> /\ ~AskedIn(pipe, id) /\ Behind(id)
    BY DEF Closers, Hung
  <2>2. Follows(pipe, m.id, m.p[1], closer[id][2]) /\ m.p[2] <= closer[id][2]
    BY <1>3, <2>1 DEF Behind, Promised, Covers
  <2>3. AskedIn(pipe, m.id)
    BY <1>1, <1>2, <2>2, CoveredAsks
  <2> QED
    BY <1>3, <2>1, <2>3
<1>7. ~Runs(id)
  <2> SUFFICES ASSUME Runs(id) PROVE FALSE
    OBVIOUS
  <2>1. s[Hash(id)].type = "HALFCLOSE" /\ Live(id)
    BY <1>3 DEF Refused, Gone, Runs, Live, Closed
  <2> QED
    BY <1>6, <2>1 DEF Draining
<1>8. ended[id] \in {"no", "cut", "drained"}
  BY DEF IInv, TypeOK
<1> QED
  BY <1>5, <1>6, <1>7, <1>8

LEMMA NotLostNext ==
  ASSUME IInv, Owned, Home, Closers, OpenFor, NothingLost, lim' = lim, Move, NEW id \in Id, NEW u \in Unit,
         PromisedThen(u, id), u \in dropped'
  PROVE  ended'[id] = "cut" \/ ClosingThen(id, "cut")
<1>0. ASSUME ended[id] = "cut" PROVE ended'[id] = "cut"
  BY <1>0, EndsOnce DEF EndsNow
<1>1. CASE u \in dropped
  <2>1. Given(u)
    BY <1>1, HeldIsGiven
  <2>2. Promised(u, id)
    BY <2>1, PromisedBack DEF Promises
  <2> QED
    BY <1>0, <1>1, <2>2, ClosingNext DEF NothingLost, NotLost
<1>2. CASE u \notin dropped
  <2>0. FreedAt(u)
    BY <1>2, FreedBy
  <2>1. ASSUME NEW v \in Service, NEW m, SendStep(v, m), Gone(m.id), u[1] = <<v, Len(sent[v]) + 1>> PROVE FALSE
    <3>1. /\ sent' = [sent EXCEPT ![v] = Append(sent[v], m)]
          /\ m.id \in Id /\ m.open = (told[m.id] = "open")
      BY <2>1 DEF SendStep
    <3>2. sent'[v][Len(sent[v]) + 1] = m
      BY <3>1, SentStays DEF IInv
    <3>3. m.open
      BY <2>1, <3>2 DEF PromisedThen
    <3>4. Runs(m.id)
      BY <3>1, <3>3 DEF OpenFor
    <3> QED
      BY <2>1, <3>4 DEF Runs, Gone
  <2>2. ASSUME ~Promises(u, id) PROVE Promised(u, id)
    BY <2>2, PromisedBack
  <2>3. ASSUME NEW m, TakeStep(m), Refused(m), u[1] = m.p PROVE ended'[id] = "cut"
    <3>1. ~Promises(u, id)
      <4>1. sent' = sent /\ u[1][2] \in DOMAIN sent'[u[1][1]]
        BY <2>3 DEF TakeStep, PromisedThen
      <4> QED
        BY <4>1 DEF Promises, Given
    <3> QED
      BY <1>0, <2>2, <2>3, <3>1, NotRefused
  <2>4. ASSUME sent' = sent PROVE Promised(u, id)
    <3>1. Given(u)
      BY <2>4 DEF PromisedThen, Given
    <3> QED
      BY <2>2, <3>1 DEF Promises
  <2>5. ASSUME NEW i, NEW how, CutStep(i, how), Member(s[i].high \o s[i].low, u) PROVE ClosingThen(id, "cut")
    <3>1. i \in Slot /\ s[i].type \notin Closed /\ sent' = sent
      BY <2>5 DEF CutStep
    <3>2. PICK a \in Seq(Unit), b \in Seq(Unit), d \in Seq(Unit) :
             a = s[i].high /\ b = s[i].low /\ d = s[i].dw /\ Waiting(s[i]) = d \o (a \o b) /\ a \o b \in Seq(Unit)
      BY <3>1, WaitingTypes DEF IInv
    <3>3. Member(Waiting(s[i]), u)
      <4>1. PICK e \in Seq(Unit) : e = a \o b
        BY <3>2
      <4>2. \A x : Member(d \o e, x) <=> Member(d, x) \/ Member(e, x)
        BY ConcatMember
      <4>3. Member(e, u) /\ Waiting(s[i]) = d \o e
        BY <2>5, <3>2, <4>1
      <4> QED
        BY <4>2, <4>3
    <3>4. s[i].id = id /\ Hash(id) = i
      BY <2>4, <3>1, <3>3, WaitsForId
    <3>5. how # "drained"
      <4> SUFFICES ASSUME how = "drained" PROVE FALSE
        OBVIOUS
      <4>1. a = <<>> /\ b = <<>>
        BY <2>5, <3>2 DEF CutStep, NoMoreData, ListsEmpty
      <4>2. Member(<<>>, u)
        BY <2>5, <3>2, <4>1, NoUnits
      <4> QED
        BY <4>2, NoUnits
    <3> QED
      BY <2>5, <3>1, <3>4, <3>5 DEF CutStep, Holding, ClosingThen
  <2>6. ASSUME NEW i, EndStep(i), Member(s[i].dw, u) PROVE ended'[id] = "cut"
    <3>1. i \in Slot /\ s[i].type \notin Closed /\ sent' = sent /\ st.pc = "closing" /\ st.i = i
      BY <2>6 DEF EndStep
    <3>2. PICK a \in Seq(Unit), b \in Seq(Unit) : a = s[i].dw /\ Waiting(s[i]) = a \o b
      BY <3>1, WaitingTypes DEF IInv
    <3>3. Member(Waiting(s[i]), u)
      BY <2>6, <3>2, ConcatMember
    <3>4. s[i].id = id /\ Hash(id) = i
      BY <2>4, <3>1, <3>3, WaitsForId
    <3>5. ended'[id] = st.how
      BY <2>6, <3>4 DEF EndStep, IInv, TypeOK
    <3>6. st.how \in {"cut", "drained"}
      BY <3>1 DEF IInv, TypeOK, ThreadPlace
    <3>7. st.how # "drained"
      <4> SUFFICES ASSUME st.how = "drained" PROVE FALSE
        OBVIOUS
      <4>1. ClosingAs(id, "drained")
        BY <3>1, <3>4 DEF ClosingAs, Live
      <4>2. Member(wire[id], u)
        BY <2>4, <3>1, <4>1 DEF NothingLost, Drained
      <4>3. Holds("wire", id, u) /\ Holds("slot", i, u)
        BY <3>1, <3>3, <4>2 DEF Holds
      <4> QED
        BY <4>3 DEF Owned, OneHolder
    <3> QED
      BY <3>5, <3>6, <3>7
  <2>7. ASSUME NEW i, LoseStep(i), Member(Waiting(s[i]), u) PROVE ClosingThen(id, "cut")
    <3>1. i \in Slot /\ s[i].type \notin Closed /\ sent' = sent
      BY <2>7 DEF LoseStep, IInv, AtWork, AtSlot
    <3>2. s[i].id = id /\ Hash(id) = i
      BY <2>4, <2>7, <3>1, WaitsForId
    <3> QED
      BY <2>7, <3>1, <3>2 DEF LoseStep, Holding, ClosingThen
  <2> QED
    BY <2>0, <2>1, <2>3, <2>5, <2>6, <2>7 DEF FreedAt
<1> QED
  BY <1>1, <1>2

\* The socket thread turns to closing a socket with nothing left.
Empties(id) ==
    \/ CutStep(Hash(id), "drained") /\ s[Hash(id)].id = id /\ s[Hash(id)].type \notin Closed
    \/ \E n, k : /\ FlushStep(Hash(id), n, k) /\ s[Hash(id)].id = id /\ s[Hash(id)].type = "HALFCLOSE"
                 /\ Rests(s[Hash(id)], n) = <<>>

LEMMA DrainedBack ==
  ASSUME IInv, Move, NEW id \in Id, ended'[id] = "drained" \/ ClosingThen(id, "drained")
  PROVE  ended[id] = "drained" \/ ClosingAs(id, "drained") \/ Empties(id)
<1>1. PICK i \in Slot : i = Hash(id)
  BY Geometry DEF IInv, Id
<1>2. CASE ended'[id] = "drained" /\ ended[id] # "drained"
  <2>1. PICK j \in Slot : EndStep(j) /\ s[j].id = id /\ st.how = "drained"
    BY <1>2, EndsOnce DEF EndsNow
  <2>2. st.pc = "closing" /\ st.i = j /\ s[j].type \notin Closed
    BY <2>1 DEF EndStep
  <2>3. Hash(id) = j
    BY <2>1, <2>2 DEF IInv, Slots, Id
  <2> QED
    BY <2>1, <2>2, <2>3 DEF Live, ClosingAs
<1>3. CASE ClosingThen(id, "drained")
  <2>0. s'[i].id = id /\ s'[i].type \notin Closed /\ st'.pc = "closing" /\ st'.i = i /\ st'.how = "drained"
    BY <1>1, <1>3 DEF ClosingThen
  <2>1. CASE s'[i].type = s[i].type /\ s'[i].id = s[i].id
    <3>0. s[i].id = id /\ s[i].type \notin Closed
      BY <2>0, <2>1
    <3>1. CASE st' = st
      BY <1>1, <2>0, <3>0, <3>1 DEF ClosingAs, Live
    <3>2. ASSUME NEW v \in Service, ServiceMove(v) PROVE st' = st
      BY <2>0, <3>2 DEF ServiceMove, StayStep, ReserveStep, FillStep, AskStep, CloseStep, PostStep, SendStep, WriteStep,
                        AtSlot
    <3>3. ASSUME NEW j, NEW how, CutStep(j, how) PROVE Empties(id)
      <4>1. j = i /\ how = "drained"
        BY <2>0, <3>3 DEF CutStep
      <4> QED
        BY <1>1, <3>0, <3>3, <4>1 DEF Empties
    <3>4. ASSUME NEW j, NEW n, NEW k, FlushStep(j, n, k) PROVE Empties(id)
      <4>1. j = i /\ Rests(s[j], n) = <<>> /\ s[j].type = "HALFCLOSE"
        BY <2>0, <3>4 DEF FlushStep, Loop
      <4> QED
        BY <1>1, <3>0, <3>4, <4>1 DEF Empties
    <3>5. ASSUME NEW r, FailStep(r) \/ HangStep(r) \/ TakeStep(r) PROVE FALSE
      BY <2>0, <3>5 DEF FailStep, HangStep, TakeStep, AtSlot, Loop
    <3>6. ASSUME NEW e, NEW t, NewStep(e, t) \/ StartStep(e) PROVE FALSE
      BY <2>0, <3>6 DEF NewStep, StartStep, AtSlot, Loop
    <3>7. ASSUME NEW j, EndStep(j) \/ HalfStep(j) \/ ConnectStep(j) \/ LoseStep(j) PROVE FALSE
      BY <2>0, <3>7 DEF EndStep, HalfStep, ConnectStep, LoseStep, AtSlot, Loop
    <3>8. StayStep => st' = st
      BY <2>0 DEF StayStep, AtSlot
    <3>9. CASE ThreadMove
      BY <3>1, <3>3, <3>4, <3>5, <3>6, <3>7, <3>8, <3>9 DEF ThreadMove
    <3> QED
      BY <3>1, <3>2, <3>9 DEF Move
  <2>2. ~\E e, t : NewStep(e, t) /\ Hash(e) = i
    BY <2>0 DEF NewStep, Loop
  <2>3. ~HalfStep(i) /\ ~EndStep(i)
    BY <2>0, Commands DEF HalfStep, EndStep, Loop
  <2>4. st'.pc \in AtSlot
    BY <2>0 DEF AtSlot
  <2> QED
    BY <2>0, <2>1, <2>2, <2>3, <2>4, NextOfSlot DEF SlotNext
<1> QED
  BY <1>2, <1>3

LEMMA EmptiesWrites ==
  ASSUME IInv, Owned, Home, Closers, NothingLost, Move, NEW id \in Id, NEW u \in Unit, Promised(u, id), Empties(id)
  PROVE  Member(wire'[id], u)
<1>1. PICK i \in Slot : i = Hash(id)
  BY Geometry DEF IInv, Id
<1>2. CASE CutStep(i, "drained") /\ s[i].id = id /\ s[i].type \notin Closed
  <2>1. NoMoreData(s[i]) /\ st.pc = "recheck" /\ st.i = i
    BY <1>2 DEF CutStep
  <2>2. Draining(id) /\ st.pc # "closing"
    BY <1>1, <1>2, <2>1 DEF Draining, Live
  <2>3. Waiting(s[i]) = <<>>
    BY <2>1, NoUnits DEF NoMoreData, ListsEmpty, Waiting
  <2>4. ~Member(Waiting(s[i]), u)
    BY <2>3, NoUnits
  <2> QED
    BY <1>1, <2>2, <2>4, WhereIs, WireGrows
<1>3. ASSUME NEW n, NEW k, FlushStep(i, n, k), s[i].id = id, s[i].type = "HALFCLOSE", Rests(s[i], n) = <<>>
      PROVE  Member(wire'[id], u)
  <2>1. Draining(id) /\ st.pc # "closing"
    BY <1>1, <1>3, Commands DEF Draining, Live, FlushStep, Closed
  <2>2. PICK w \in Seq(Unit) : w = Waiting(s[i])
    BY WaitingTypes DEF IInv
  <2>3. n \in 0..Len(w) /\ Written(id, SubSeq(w, 1, n)) /\ SubSeq(w, n + 1, Len(w)) = <<>>
    BY <1>3, <2>2 DEF FlushStep, Rests
  <2>4. PICK g \in Seq(Unit) : g = SubSeq(w, 1, n) /\ g \o <<>> = w
    <3>1. SubSeq(w, 1, n) \in Seq(Unit) /\ SubSeq(w, 1, n) \o SubSeq(w, n + 1, Len(w)) = w
      BY <2>3, Split
    <3> QED
      BY <2>3, <3>1
  <2>5. g = w
    BY <2>4, NoUnits
  <2>6. CASE Member(w, u)
    BY <2>3, <2>4, <2>5, <2>6, WrittenMember DEF IInv
  <2> QED
    BY <1>1, <2>1, <2>2, <2>6, WhereIs, WireGrows
<1> QED
  BY <1>1, <1>2, <1>3 DEF Empties

LEMMA DrainedNext ==
  ASSUME IInv, Owned, Home, Closers, OpenFor, NothingLost, lim' = lim, Move, NEW id \in Id, NEW u \in Unit,
         PromisedThen(u, id), ended'[id] = "drained" \/ ClosingThen(id, "drained")
  PROVE  Member(wire'[id], u)
<1>1. CASE Promised(u, id)
  <2>1. CASE ended[id] = "drained" \/ ClosingAs(id, "drained")
    BY <1>1, <2>1, WireGrows DEF NothingLost, Drained
  <2>2. CASE Empties(id)
    BY <1>1, <2>2, EmptiesWrites
  <2> QED
    BY <2>1, <2>2, DrainedBack
<1>2. CASE Promises(u, id)
  <2>1. PICK v \in Service : \E m : SendStep(v, m) /\ closer[id] = <<>>
    BY <1>2 DEF Promises
  <2>2. s' = s /\ st' = st /\ ended' = ended /\ closer[id] = <<>>
    BY <2>1 DEF SendStep
  <2>3. ended[id] = "drained" \/ ClosingAs(id, "drained")
    BY <2>2 DEF ClosingThen, ClosingAs, Live
  <2>4. Draining(id) \/ ended[id] = "drained"
    BY <2>3 DEF Draining, ClosingAs
  <2> QED
    BY <2>2, <2>4 DEF Closers, Hung
<1> QED
  BY <1>1, <1>2, PromisedBack

LEMMA KeptNext ==
  ASSUME IInv, Owned, Home, Closers, OpenFor, NothingLost, lim' = lim, Move
  PROVE  NothingLost'
<1>1. (Id' = Id) /\ \A id : Hash(id)' = Hash(id)
  BY GeometryKept
<1>2. ASSUME NEW id \in Id, NEW u \in Unit PROVE PromisedThen(u, id) <=> Promised(u, id)'
  BY DEF PromisedThen, Promised, Given, Of, Covers
<1>3. ASSUME NEW id \in Id, NEW how PROVE ClosingThen(id, how) <=> ClosingAs(id, how)'
  BY <1>1 DEF ClosingThen, ClosingAs, Live
<1>4. ASSUME NEW id \in Id PROVE NotLost(id)'
  <2> SUFFICES ASSUME NEW u \in Unit, Promised(u, id)', u \in dropped' PROVE (ended[id] = "cut" \/ ClosingAs(id, "cut"))'
    BY DEF NotLost
  <2> QED
    BY <1>2, <1>3, NotLostNext
<1>5. ASSUME NEW id \in Id PROVE Drained(id)'
  <2> SUFFICES ASSUME NEW u \in Unit, Promised(u, id)', (ended[id] = "drained" \/ ClosingAs(id, "drained"))'
               PROVE  Member(wire[id], u)'
    BY DEF Drained
  <2>1. Member(wire'[id], u)
    BY <1>2, <1>3, DrainedNext
  <2> QED
    BY <2>1 DEF Member
<1> QED
  BY <1>1, <1>4, <1>5 DEF NothingLost

LEMMA InitKept ==
  ASSUME Init
  PROVE  Closers /\ OpenFor /\ NothingLost
<1>1. IInv
  BY InitIInv
<1>2. /\ closer = [id \in Id |-> <<>>] /\ pipe = <<>> /\ st = Loop /\ dropped = {} /\ sent = [v \in Service |-> <<>>]
      /\ ended = [id \in Id |-> "no"] /\ told = [id \in Id |-> "none"]
      /\ \A i \in Slot : s[i].type = "INVALID"
  BY DEF Init
<1>3. DOMAIN pipe = {} /\ \A id : ~AskedIn(pipe, id)
  BY <1>2, EmptySeq DEF AskedIn
<1>4. ASSUME NEW id \in Id PROVE ~Live(id) /\ ended[id] = "no" /\ closer[id] = <<>> /\ told[id] = "none"
  <2>1. Hash(id) \in Slot
    BY <1>1, Geometry DEF IInv, Id
  <2> QED
    BY <1>2, <2>1, Commands DEF Live
<1>5. Closers
  <2>1. closer \in [Id -> {<<>>} \cup (Service \X Nat)]
    BY <1>2
  <2>2. OneK(pipe)
    BY <1>3 DEF OneK
  <2>3. \A id \in Id : Behind(id) /\ Hung(id)
    BY <1>3, <1>4 DEF Behind, Hung, Draining
  <2> QED
    BY <1>3, <2>1, <2>2, <2>3 DEF Closers
<1>6. OpenFor
  BY <1>2, <1>4, EmptySeq DEF OpenFor
<1>7. NothingLost
  BY <1>2, <1>4 DEF NothingLost, NotLost, Drained, ClosingAs
<1> QED
  BY <1>5, <1>6, <1>7

LEMMA PromisesKept == Spec => [](Closers /\ OpenFor /\ NothingLost)
<1>1. Init => Closers /\ OpenFor /\ NothingLost
  BY InitKept
<1>2. IInv /\ Owned /\ Home /\ (Closers /\ OpenFor /\ NothingLost) /\ [Next]_vars => (Closers /\ OpenFor /\ NothingLost)'
  <2> SUFFICES ASSUME IInv, Owned, Home, Closers, OpenFor, NothingLost, [Next]_vars PROVE (Closers /\ OpenFor /\ NothingLost)'
    OBVIOUS
  <2>1. lim' = lim /\ Move
    BY LimitsKept, EveryMove
  <2> QED
    BY <2>1, ClosersNext, OpenNext, KeptNext
<1> QED
  BY <1>1, <1>2, Invariance, Ownership, Homes, PTL DEF Spec

\* A graceful close flushes: when a connection ends by one, everything its closer
\* sent to it before, while it was open, has been written, whichever way it went
\* (a direct write, a request that was still in the pipe, a list of the socket).
THEOREM ClosesFlush == Spec => []CloseFlushes
<1>1. IInv /\ Closers /\ NothingLost => CloseFlushes
  <2> SUFFICES ASSUME IInv, Closers, NothingLost, NEW id \in Id, ended[id] = "drained", closer[id] # <<>>,
                      NEW k \in 1..closer[id][2], sent[closer[id][1]][k].id = id, sent[closer[id][1]][k].open,
                      NEW u, u \in ToSet(Units(<<closer[id][1], k>>))
               PROVE  u \in ToSet(wire[id])
    BY DEF CloseFlushes
  <2>1. PICK v \in Service, n \in Nat : closer[id] = <<v, n>>
    BY DEF Closers
  <2>2. k \in Nat /\ k <= n /\ k >= 1
    BY <2>1
  <2>3. PICK p \in Service \X Nat : p = <<v, k>>
    BY <2>2
  <2>4. Member(Units(p), u)
    BY <2>1, <2>3, SetOf
  <2>5. u \in Unit /\ u[1] = p
    <3>1. Units(p) \in Seq(Unit)
      BY UnitsOf
    <3>2. u \in Unit
      BY <2>4, <3>1, MembersAreUnits
    <3> QED
      BY <2>4, <3>2, UnitsOf
  <2>6. k \in DOMAIN sent[v]
    <3>1. n <= Len(sent[v])
      BY <2>1 DEF Closers, Behind
    <3>2. DOMAIN sent[v] = 1..Len(sent[v]) /\ Len(sent[v]) \in Nat
      BY LenProperties DEF IInv, TypeOK
    <3> QED
      BY <2>2, <3>1, <3>2
  <2>7. Promised(u, id)
    BY <2>1, <2>2, <2>3, <2>5, <2>6 DEF Promised, Given, Of, Covers
  <2>8. Member(wire[id], u)
    BY <2>5, <2>7 DEF NothingLost, Drained
  <2> QED
    BY <2>8, SetOf
<1> QED
  BY <1>1, Invariance, PromisesKept, PTL

-----------------------------------------------------------------------------
(* Sequences of whole packages *)

Whole(q) ==
    \A k \in DOMAIN q :
        /\ q[k][2] = 2 => k - 1 \in DOMAIN q /\ q[k - 1] = <<q[k][1], 1>>
        /\ q[k][2] = 1 => k + 1 \in DOMAIN q /\ q[k + 1] = <<q[k][1], 2>>
\* ... of which the last may be incomplete
Stub(q) ==
    /\ \A k \in DOMAIN q : q[k][2] = 2 => k > 1 /\ q[k - 1] = <<q[k][1], 1>>
    /\ \A k \in DOMAIN q : q[k][2] = 1 /\ k < Len(q) => q[k + 1] = <<q[k][1], 2>>
\* It does not begin with the second unit of a package.
Starts(q) == q = <<>> \/ q[1][2] = 1

LEMMA Halves ==
  ASSUME NEW q \in Seq(Unit)
  PROVE  /\ \A k \in DOMAIN q : q[k][2] \in {1, 2} /\ q[k] \in Unit /\ q[k] = <<q[k][1], q[k][2]>>
         /\ DOMAIN q = 1..Len(q) /\ Len(q) \in Nat
         /\ q # <<>> => 1 \in DOMAIN q
<1>1. DOMAIN q = 1..Len(q) /\ Len(q) \in Nat
  BY LenProperties
<1>2. \A k \in DOMAIN q : q[k] \in Unit
  BY <1>1, ElementOfSeq
<1>3. \A u \in Unit : u[2] \in {1, 2} /\ u = <<u[1], u[2]>>
  BY DEF Unit
<1>4. q # <<>> => Len(q) # 0
  BY EmptySeq
<1> QED
  BY <1>1, <1>2, <1>3, <1>4

\* Where the units of a \o b are
Joined(a, b, c) ==
    /\ DOMAIN a = 1..Len(a) /\ Len(a) \in Nat /\ DOMAIN b = 1..Len(b) /\ Len(b) \in Nat
    /\ DOMAIN c = 1..(Len(a) + Len(b)) /\ Len(c) = Len(a) + Len(b)
    /\ \A k \in DOMAIN a : c[k] = a[k]
    /\ \A k \in DOMAIN b : c[Len(a) + k] = b[k]

LEMMA Joint ==
  ASSUME NEW a \in Seq(Unit), NEW b \in Seq(Unit), NEW c, c = a \o b
  PROVE  Joined(a, b, c)
<1>1. DOMAIN a = 1..Len(a) /\ Len(a) \in Nat /\ DOMAIN b = 1..Len(b) /\ Len(b) \in Nat
  BY LenProperties
<1>2. /\ Len(a \o b) = Len(a) + Len(b) /\ DOMAIN (a \o b) = 1..(Len(a) + Len(b))
      /\ \A k \in DOMAIN a : (a \o b)[k] = a[k]
      /\ \A k \in DOMAIN b : (a \o b)[Len(a) + k] = b[k]
  BY Concat
<1> QED
  BY <1>1, <1>2 DEF Joined

LEMMA WholeConcat ==
  ASSUME NEW a \in Seq(Unit), NEW b \in Seq(Unit), NEW c, c = a \o b, Whole(a), Whole(b)
  PROVE  Whole(c)
<1>1. Joined(a, b, c)
  BY Joint
<1> USE DEF Joined
<1>2. ASSUME NEW k \in DOMAIN c, k \in DOMAIN a
      PROVE  /\ c[k][2] = 2 => k - 1 \in DOMAIN c /\ c[k - 1] = <<c[k][1], 1>>
             /\ c[k][2] = 1 => k + 1 \in DOMAIN c /\ c[k + 1] = <<c[k][1], 2>>
  <2>1. c[k] = a[k]
    BY <1>1, <1>2
  <2>2. \A j \in DOMAIN a : j \in DOMAIN c /\ c[j] = a[j]
    BY <1>1
  <2> HIDE DEF Joined
  <2> QED
    BY <1>2, <2>1, <2>2 DEF Whole
<1>3. ASSUME NEW k \in DOMAIN c, k \notin DOMAIN a
      PROVE  /\ c[k][2] = 2 => k - 1 \in DOMAIN c /\ c[k - 1] = <<c[k][1], 1>>
             /\ c[k][2] = 1 => k + 1 \in DOMAIN c /\ c[k + 1] = <<c[k][1], 2>>
  <2>1. PICK j \in DOMAIN b : k = Len(a) + j /\ c[k] = b[j] /\ j \in Nat
    <3>1. k - Len(a) \in DOMAIN b /\ k = Len(a) + (k - Len(a)) /\ k - Len(a) \in Nat
      BY <1>1, <1>3
    <3> QED
      BY <1>1, <3>1
  <2>2. CASE b[j][2] = 2
    <3>1. j - 1 \in DOMAIN b /\ b[j - 1] = <<b[j][1], 1>>
      BY <2>2 DEF Whole
    <3>2. c[Len(a) + (j - 1)] = b[j - 1] /\ Len(a) + (j - 1) = k - 1 /\ k - 1 \in DOMAIN c
      BY <1>1, <2>1, <3>1
    <3> QED
      BY <2>1, <2>2, <3>1, <3>2
  <2>3. CASE b[j][2] = 1
    <3>1. j + 1 \in DOMAIN b /\ b[j + 1] = <<b[j][1], 2>>
      BY <2>3 DEF Whole
    <3>2. c[Len(a) + (j + 1)] = b[j + 1] /\ Len(a) + (j + 1) = k + 1 /\ k + 1 \in DOMAIN c
      BY <1>1, <2>1, <3>1
    <3> QED
      BY <2>1, <2>3, <3>1, <3>2
  <2> QED
    BY <2>1, <2>2, <2>3
<1> QED
  BY <1>2, <1>3 DEF Whole

LEMMA WholeSplit ==
  ASSUME NEW a \in Seq(Unit), NEW b \in Seq(Unit), NEW c, c = a \o b, Whole(c), Starts(b)
  PROVE  Whole(a) /\ Whole(b)
<1>1. Joined(a, b, c)
  BY Joint
<1>2. b # <<>> => 1 \in DOMAIN b /\ b[1][2] = 1
  BY Halves DEF Starts
<1>3. Len(b) # 0 => b # <<>>
  BY EmptySeq
<1> USE DEF Joined
<1>4. ASSUME NEW k \in DOMAIN a
      PROVE  /\ a[k][2] = 2 => k - 1 \in DOMAIN a /\ a[k - 1] = <<a[k][1], 1>>
             /\ a[k][2] = 1 => k + 1 \in DOMAIN a /\ a[k + 1] = <<a[k][1], 2>>
  <2>1. k \in DOMAIN c /\ c[k] = a[k]
    BY <1>1, <1>4
  <2>2. CASE a[k][2] = 2
    <3>1. k - 1 \in DOMAIN c /\ c[k - 1] = <<a[k][1], 1>>
      BY <2>1, <2>2 DEF Whole
    <3>2. k - 1 \in DOMAIN a
      BY <1>1, <3>1
    <3> QED
      BY <1>1, <2>2, <3>1, <3>2
  <2>3. CASE a[k][2] = 1
    <3>1. k + 1 \in DOMAIN c /\ c[k + 1] = <<a[k][1], 2>>
      BY <2>1, <2>3 DEF Whole
    <3>2. CASE k + 1 \notin DOMAIN a
      <4>1. k + 1 = Len(a) + 1 /\ Len(b) # 0
        BY <1>1, <3>1, <3>2
      <4>2. 1 \in DOMAIN b /\ b[1][2] = 1
        BY <1>2, <1>3, <4>1
      <4>3. c[k + 1] = b[1]
        BY <1>1, <4>1, <4>2
      <4> QED
        BY <3>1, <4>2, <4>3
    <3> QED
      BY <1>1, <2>3, <3>1, <3>2
  <2> QED
    BY <2>2, <2>3
<1>5. ASSUME NEW j \in DOMAIN b
      PROVE  /\ b[j][2] = 2 => j - 1 \in DOMAIN b /\ b[j - 1] = <<b[j][1], 1>>
             /\ b[j][2] = 1 => j + 1 \in DOMAIN b /\ b[j + 1] = <<b[j][1], 2>>
  <2>1. Len(a) + j \in DOMAIN c /\ c[Len(a) + j] = b[j] /\ j \in Nat /\ b # <<>>
    BY <1>1, <1>5, EmptySeq
  <2>2. CASE b[j][2] = 2
    <3>1. (Len(a) + j) - 1 \in DOMAIN c /\ c[(Len(a) + j) - 1] = <<b[j][1], 1>>
      BY <2>1, <2>2 DEF Whole
    <3>2. j # 1
      BY <1>2, <2>1, <2>2
    <3>3. j - 1 \in DOMAIN b /\ Len(a) + (j - 1) = (Len(a) + j) - 1
      BY <1>1, <1>5, <3>2
    <3> QED
      BY <1>1, <2>2, <3>1, <3>3
  <2>3. CASE b[j][2] = 1
    <3>1. (Len(a) + j) + 1 \in DOMAIN c /\ c[(Len(a) + j) + 1] = <<b[j][1], 2>>
      BY <2>1, <2>3 DEF Whole
    <3>2. j + 1 \in DOMAIN b /\ Len(a) + (j + 1) = (Len(a) + j) + 1
      BY <1>1, <1>5, <3>1
    <3> QED
      BY <1>1, <2>3, <3>1, <3>2
  <2> QED
    BY <2>2, <2>3
<1> QED
  BY <1>4, <1>5 DEF Whole

LEMMA WholeRest ==
  ASSUME NEW a \in Seq(Unit), NEW b \in Seq(Unit), NEW c, c = a \o b, Whole(c), Whole(a)
  PROVE  Starts(b) /\ Whole(b)
<1>1. Joined(a, b, c)
  BY Joint
<1>2. Starts(b)
  <2> SUFFICES ASSUME b # <<>>, b[1][2] # 1 PROVE FALSE
    BY DEF Starts
  <2>1. 1 \in DOMAIN b /\ b[1][2] = 2
    BY Halves
  <2>2. Len(a) + 1 \in DOMAIN c /\ c[Len(a) + 1] = b[1]
    BY <1>1, <2>1 DEF Joined
  <2>3. (Len(a) + 1) - 1 \in DOMAIN c /\ c[(Len(a) + 1) - 1] = <<b[1][1], 1>>
    BY <2>1, <2>2 DEF Whole
  <2>4. (Len(a) + 1) - 1 = Len(a) /\ Len(a) \in DOMAIN a /\ Len(a) + 1 \notin DOMAIN a
    BY <1>1, <2>3 DEF Joined
  <2>5. a[Len(a)][2] = 1
    BY <1>1, <2>3, <2>4 DEF Joined
  <2> QED
    BY <2>4, <2>5 DEF Whole
<1> QED
  BY <1>2, WholeSplit

LEMMA WholeUnits ==
  Whole(<<>>) /\ \A p \in Service \X Nat : Whole(Units(p))
<1>1. Whole(<<>>)
  BY EmptySeq DEF Whole
<1>2. ASSUME NEW p \in Service \X Nat PROVE Whole(Units(p))
  <2>1. PICK q \in Seq(Unit) : q = Units(p) /\ Len(q) = 2 /\ q[1] = <<p, 1>> /\ q[2] = <<p, 2>>
    BY UnitsOf
  <2>2. DOMAIN q = {1, 2} /\ q[1][1] = p /\ q[1][2] = 1 /\ q[2][1] = p /\ q[2][2] = 2
    BY <2>1, LenProperties
  <2> QED
    BY <2>1, <2>2 DEF Whole
<1> QED
  BY <1>1, <1>2

LEMMA WholeStub ==
  ASSUME NEW a \in Seq(Unit), NEW b \in Seq(Unit), NEW c, c = a \o b, Whole(c)
  PROVE  Stub(a)
<1>1. Joined(a, b, c)
  BY Joint
<1>2. ASSUME NEW k \in DOMAIN a, a[k][2] = 2 PROVE k > 1 /\ a[k - 1] = <<a[k][1], 1>>
  <2>1. k \in DOMAIN c /\ c[k] = a[k]
    BY <1>1 DEF Joined
  <2>2. k - 1 \in DOMAIN c /\ c[k - 1] = <<a[k][1], 1>>
    BY <1>2, <2>1 DEF Whole
  <2>3. k > 1 /\ k - 1 \in DOMAIN a
    BY <1>1, <2>2 DEF Joined
  <2> QED
    BY <1>1, <2>2, <2>3 DEF Joined
<1>3. ASSUME NEW k \in DOMAIN a, a[k][2] = 1, k < Len(a) PROVE a[k + 1] = <<a[k][1], 2>>
  <2>1. k \in DOMAIN c /\ c[k] = a[k] /\ k + 1 \in DOMAIN a
    BY <1>1, <1>3 DEF Joined
  <2>2. c[k + 1] = <<a[k][1], 2>>
    BY <1>3, <2>1 DEF Whole
  <2> QED
    BY <1>1, <2>1, <2>2 DEF Joined
<1> QED
  BY <1>2, <1>3 DEF Stub

Glued(a, b, c) == c = a \o b

LEMMA Glue ==
  ASSUME NEW q \in Seq(Unit), NEW r \in Seq(Unit)
  PROVE  \E x \in Seq(Unit) : Glued(q, r, x) /\ Len(x) = Len(q) + Len(r)
<1>1. q \o r \in Seq(Unit) /\ Len(q \o r) = Len(q) + Len(r)
  BY Concat
<1> QED
  BY <1>1 DEF Glued

LEMMA Regroup ==
  ASSUME NEW q \in Seq(Unit), NEW r \in Seq(Unit), NEW t \in Seq(Unit), NEW x, Glued(q, r, x), NEW y, Glued(r, t, y), NEW z
  PROVE  Glued(q, y, z) <=> Glued(x, t, z)
<1>1. (q \o r) \o t = q \o (r \o t)
  BY Assoc
<1> QED
  BY <1>1, Zenon DEF Glued

LEMMA Cancel ==
  ASSUME NEW a \in Seq(Unit), NEW l \in Seq(Unit), NEW b \in Seq(Unit), NEW m \in Seq(Unit), a \o l = b \o m,
         Len(a) = Len(b)
  PROVE  a = b /\ l = m
<1>1. PICK c : c = a \o l /\ c = b \o m
  OBVIOUS
<1>2. Joined(a, l, c) /\ Joined(b, m, c)
  BY <1>1, Joint
<1>3. a = b
  <2>1. \A i \in 1..Len(a) : a[i] = b[i]
    BY <1>2 DEF Joined
  <2> QED
    BY <2>1, SeqEqual
<1>4. l = m
  <2>1. Len(l) = Len(m)
    <3>1. /\ Len(c) = Len(a) + Len(l) /\ Len(c) = Len(b) + Len(m) /\ Len(a) \in Nat /\ Len(l) \in Nat /\ Len(m) \in Nat
      BY <1>2, Zenon DEF Joined
    <3>2. PICK x, y, z : x = Len(a) /\ y = Len(l) /\ z = Len(m) /\ Len(b) = x /\ Len(c) = x + y /\ Len(c) = x + z
                        /\ x \in Nat /\ y \in Nat /\ z \in Nat
      BY <3>1, Zenon
    <3>3. x + y = x + z
      BY <3>2, Zenon
    <3>4. y = z
      BY <3>2, <3>3
    <3> QED
      BY <3>2, <3>4, Zenon
  <2>2. ASSUME NEW i \in 1..Len(l) PROVE l[i] = m[i]
    <3>1. i \in DOMAIN l /\ i \in DOMAIN m
      BY <1>2, <2>1 DEF Joined
    <3>2. c[Len(a) + i] = l[i] /\ c[Len(b) + i] = m[i]
      BY <1>2, <3>1 DEF Joined
    <3> QED
      BY <3>2
  <2> QED
    BY <2>1, <2>2, SeqEqual
<1> QED
  BY <1>3, <1>4

\* After the second unit of a package comes a first one.
LEMMA NextStarts ==
  ASSUME NEW c \in Seq(Unit), NEW h \in Seq(Unit), NEW t \in Seq(Unit), NEW e \in Seq(Unit), NEW l, e = h \o t, l = c \o e,
         Whole(l), Len(h) = 1, e[1][2] = 2
  PROVE  Starts(t)
<1>1. Joined(h, t, e) /\ Joined(c, e, l)
  BY Joint
<1> SUFFICES ASSUME t # <<>>, t[1][2] # 1 PROVE FALSE
  BY DEF Starts
<1>2. 1 \in DOMAIN t /\ t[1][2] = 2
  BY Halves
<1>3. e[2] = t[1] /\ 2 \in DOMAIN e /\ 1 \in DOMAIN e
  BY <1>1, <1>2 DEF Joined
<1>4. /\ Len(c) + 2 \in DOMAIN l /\ l[Len(c) + 2] = e[2] /\ l[Len(c) + 1] = e[1]
      /\ (Len(c) + 2) - 1 = Len(c) + 1
  BY <1>1, <1>3 DEF Joined
<1>5. l[Len(c) + 1] = <<t[1][1], 1>>
  <2>1. PICK k \in DOMAIN l : k = Len(c) + 2 /\ k - 1 = Len(c) + 1
    BY <1>4
  <2>2. l[k] = t[1] /\ l[k][2] = 2
    BY <1>2, <1>3, <1>4, <2>1
  <2>3. l[k - 1] = <<l[k][1], 1>>
    BY <2>2 DEF Whole
  <2> QED
    BY <2>1, <2>2, <2>3
<1>6. e[1][2] = 1
  BY <1>4, <1>5
<1> QED
  BY <1>6

\* Of what is left, r, send_buffer keeps h in the high list.
Remains(a, g, r, h) ==
    /\ Len(a) - Len(g) > 0 => Len(h) = Len(a) - Len(g)
    /\ Len(a) - Len(g) <= 0 => Len(h) = IF r # <<>> /\ r[1][2] = 2 THEN 1 ELSE 0

\* Writing leaves the stream as it is: what is left of the high list, with a unit
\* of the low one that must follow, completes what has been written.
LEMMA WholeFlush ==
  ASSUME NEW w \in Seq(Unit), NEW a \in Seq(Unit), NEW l \in Seq(Unit), NEW g \in Seq(Unit), NEW r \in Seq(Unit),
         NEW h \in Seq(Unit), NEW t \in Seq(Unit), NEW u, Glued(a, l, u), Glued(g, r, u), Glued(h, t, r),
         NEW x \in Seq(Unit), Glued(w, a, x), Whole(x), Whole(l), NEW y \in Seq(Unit), Glued(w, g, y), NEW z, Glued(y, h, z),
         Remains(a, g, r, h)
  PROVE  Whole(z) /\ Whole(t)
<1>0. Len(a) \in Nat /\ Len(g) \in Nat /\ Len(h) \in Nat /\ Len(l) \in Nat /\ Len(r) \in Nat
  BY LenProperties
<1>1. CASE Len(a) - Len(g) > 0
  <2>1. PICK b \in Seq(Unit) : Glued(g, h, b) /\ Len(b) = Len(g) + Len(h)
    BY Glue
  <2>2. Glued(b, t, u)
    BY <2>1, Regroup
  <2>3. a = b /\ l = t
    <3>1. Len(a) = Len(b)
      BY <1>0, <1>1, <2>1 DEF Remains
    <3>2. a \o l = b \o t
      BY <2>2, Zenon DEF Glued
    <3> QED
      BY <3>1, <3>2, Cancel
  <2>4. Glued(w, b, z)
    BY <2>1, Regroup
  <2>5. z = x
    BY <2>3, <2>4, Zenon DEF Glued
  <2> QED
    BY <2>3, <2>5
<1>2. CASE Len(a) - Len(g) <= 0
  <2>0. PICK m : m = Len(g) - Len(a) /\ m \in 0..Len(l)
    <3>1. Len(a \o l) = Len(a) + Len(l) /\ Len(g \o r) = Len(g) + Len(r)
      BY Concat
    <3>2. Len(a) + Len(l) = Len(g) + Len(r)
      BY <3>1 DEF Glued
    <3> QED
      BY <1>0, <1>2, <3>2
  <2>1. PICK c \in Seq(Unit), e \in Seq(Unit) : Glued(c, e, l) /\ Len(c) = m
    <3>1. /\ SubSeq(l, 1, m) \in Seq(Unit) /\ Len(SubSeq(l, 1, m)) = m /\ SubSeq(l, m + 1, Len(l)) \in Seq(Unit)
          /\ SubSeq(l, 1, m) \o SubSeq(l, m + 1, Len(l)) = l
      BY <2>0, Split
    <3> QED
      BY <3>1, Zenon DEF Glued
  <2>2. PICK b \in Seq(Unit) : Glued(a, c, b) /\ Len(b) = Len(a) + Len(c)
    BY Glue
  <2>3. Glued(b, e, u)
    BY <2>1, <2>2, Regroup
  <2>4. b = g /\ e = r
    <3>1. b \o e = g \o r
      BY <2>3, Zenon DEF Glued
    <3>2. Len(b) = Len(g)
      <4>1. Len(c) = Len(g) - Len(a) /\ Len(b) = Len(a) + Len(c)
        BY <2>0, <2>1, <2>2, Zenon
      <4> QED
        BY <1>0, <4>1
    <3> QED
      BY <3>1, <3>2, Cancel
  <2>5. Glued(a, c, g) /\ Glued(c, r, l)
    BY <2>1, <2>2, <2>4, Zenon
  <2>6. Glued(x, c, y)
    BY <2>5, Regroup
  <2>7. CASE r # <<>> /\ r[1][2] = 2
    <3>1. Len(h) = 1
      BY <1>2, <2>7 DEF Remains
    <3>2. Starts(t)
      <4>1. r = h \o t /\ l = c \o r
        BY <2>5, Zenon DEF Glued
      <4> QED
        BY <2>7, <3>1, <4>1, NextStarts
    <3>3. PICK d \in Seq(Unit) : Glued(c, h, d)
      BY Glue
    <3>4. Glued(d, t, l)
      BY <2>5, <3>3, Regroup
    <3>5. Whole(d) /\ Whole(t)
      <4>1. l = d \o t
        BY <3>4, Zenon DEF Glued
      <4> QED
        BY <3>2, <4>1, WholeSplit
    <3>6. Glued(x, d, z)
      BY <2>6, <3>3, Regroup
    <3>7. z = x \o d
      BY <3>6, Zenon DEF Glued
    <3> QED
      BY <3>5, <3>7, WholeConcat
  <2>8. CASE ~(r # <<>> /\ r[1][2] = 2)
    <3>1. Len(h) = 0
      BY <1>2, <2>8 DEF Remains
    <3>2. h = <<>>
      BY <3>1, EmptySeq
    <3>3. t = r /\ z = y
      BY <3>2, NoUnits DEF Glued
    <3>4. Starts(r)
      BY <2>8, Halves DEF Starts
    <3>5. l = c \o r /\ y = x \o c
      BY <2>5, <2>6, Zenon DEF Glued
    <3>6. Whole(c) /\ Whole(r)
      BY <3>4, <3>5, WholeSplit
    <3>7. Whole(y)
      BY <3>5, <3>6, WholeConcat
    <3> QED
      BY <3>3, <3>6, <3>7
  <2> QED
    BY <2>7, <2>8
<1> QED
  BY <1>0, <1>1, <1>2

-----------------------------------------------------------------------------
(* The order of packages *)

\* f: the packages of each service, as in sent
Ord(f, x, y) ==
    x[1][1] = y[1][1] /\ f[x[1][1]][x[1][2]].prio = f[y[1][1]][y[1][2]].prio => x[1][2] <= y[1][2]
Sorted(f, q) == \A j, k \in DOMAIN q : j < k => Ord(f, q[j], q[k])
Cross(f, a, b) == \A x, y \in Unit : Member(a, x) /\ Member(b, y) => Ord(f, x, y)

LEMMA SortedConcat ==
  ASSUME NEW f, NEW a \in Seq(Unit), NEW b \in Seq(Unit), NEW c, c = a \o b
  PROVE  Sorted(f, c) <=> Sorted(f, a) /\ Sorted(f, b) /\ Cross(f, a, b)
<1>1. Joined(a, b, c)
  BY Joint
<1>2. /\ \A k \in DOMAIN a : a[k] \in Unit /\ k \in Nat
      /\ \A k \in DOMAIN b : b[k] \in Unit /\ k \in Nat
  BY Halves
<1>3. ASSUME Sorted(f, c) PROVE Sorted(f, a) /\ Sorted(f, b) /\ Cross(f, a, b)
  <2>1. Sorted(f, a)
    <3>1. \A k \in DOMAIN a : k \in DOMAIN c /\ c[k] = a[k]
      BY <1>1 DEF Joined
    <3> QED
      BY <1>3, <3>1 DEF Sorted
  <2>2. Sorted(f, b)
    <3> SUFFICES ASSUME NEW j \in DOMAIN b, NEW k \in DOMAIN b, j < k PROVE Ord(f, b[j], b[k])
      BY DEF Sorted
    <3>1. /\ Len(a) + j \in DOMAIN c /\ Len(a) + k \in DOMAIN c /\ Len(a) + j < Len(a) + k
          /\ c[Len(a) + j] = b[j] /\ c[Len(a) + k] = b[k]
      BY <1>1 DEF Joined
    <3> QED
      BY <1>3, <3>1 DEF Sorted
  <2>3. Cross(f, a, b)
    <3> SUFFICES ASSUME NEW j \in DOMAIN a, NEW k \in DOMAIN b PROVE Ord(f, a[j], b[k])
      BY DEF Cross, Member
    <3>1. j \in DOMAIN c /\ Len(a) + k \in DOMAIN c /\ j < Len(a) + k /\ c[j] = a[j] /\ c[Len(a) + k] = b[k]
      BY <1>1 DEF Joined
    <3> QED
      BY <1>3, <3>1 DEF Sorted
  <2> QED
    BY <2>1, <2>2, <2>3
<1>4. ASSUME Sorted(f, a), Sorted(f, b), Cross(f, a, b) PROVE Sorted(f, c)
  <2> SUFFICES ASSUME NEW j \in DOMAIN c, NEW k \in DOMAIN c, j < k PROVE Ord(f, c[j], c[k])
    BY DEF Sorted
  <2>1. \A i \in DOMAIN c : i \in Nat /\ ((i \in DOMAIN a /\ c[i] = a[i]) \/ (i - Len(a) \in DOMAIN b /\ c[i] = b[i - Len(a)]))
    <3> SUFFICES ASSUME NEW i \in DOMAIN c, i \notin DOMAIN a PROVE i - Len(a) \in DOMAIN b /\ c[i] = b[i - Len(a)]
      BY <1>1 DEF Joined
    <3>1. i - Len(a) \in DOMAIN b /\ Len(a) + (i - Len(a)) = i
      BY <1>1 DEF Joined
    <3> QED
      BY <1>1, <3>1 DEF Joined
  <2>2. CASE j \in DOMAIN a /\ k \in DOMAIN a
    BY <1>1, <1>4, <2>2 DEF Sorted, Joined
  <2>3. CASE j \in DOMAIN a /\ k \notin DOMAIN a
    BY <1>1, <1>2, <1>4, <2>1, <2>3 DEF Cross, Member, Joined
  <2>4. CASE j \notin DOMAIN a
    <3>1. k \notin DOMAIN a
      BY <1>1, <2>4 DEF Joined
    <3>2. /\ j - Len(a) \in DOMAIN b /\ c[j] = b[j - Len(a)] /\ k - Len(a) \in DOMAIN b /\ c[k] = b[k - Len(a)]
          /\ j - Len(a) < k - Len(a)
      BY <1>1, <2>1, <2>4, <3>1 DEF Joined
    <3> QED
      BY <1>4, <3>2 DEF Sorted
  <2> QED
    BY <2>2, <2>3, <2>4
<1> QED
  BY <1>3, <1>4

-----------------------------------------------------------------------------
(* The stream of a connection: w has been written, x is its slot *)

Pieces(w, x) ==
    /\ Whole(w \o (x.dw \o x.high)) /\ Whole(x.low)
    /\ x.dw = <<>> \/ Whole(w \o x.dw)
Ordered(f, w, x) == Sorted(f, w \o Waiting(x))
\* The packages in the pipe q come after all that.
Later(f, q, id, w, x) ==
    \A r \in Request, u \in Unit :
        Member(q, r) /\ r.c \in Sending /\ r.id = id /\ (Member(w, u) \/ Member(Waiting(x), u)) => Ord(f, u, <<r.p, 1>>)
\* A direct write begins after a whole package, with nothing of its service waiting,
Writer(f, id, w, x) ==
    \A v \in Service : f[v].pc = "check2" /\ f[v].id = id =>
        Whole(w) /\ \A u \in Unit : Member(Waiting(x), u) => u[1][1] # v
\* nor in the pipe.
LoneIn(f, q, id) ==
    \A v \in Service, r \in Request :
        f[v].pc \in {"check", "check2"} /\ f[v].id = id /\ Member(q, r) /\ r.c \in Sending /\ r.id = id => r.p[1] # v

Flows(id) ==
    /\ Pieces(wire[id], s[Hash(id)]) /\ Ordered(sent, wire[id], s[Hash(id)])
    /\ Later(sent, pipe, id, wire[id], s[Hash(id)]) /\ Writer(at, id, wire[id], s[Hash(id)])
Lone(id) == Live(id) => LoneIn(at, pipe, id)
\* A connection that is open is cut when its socket is being closed.
CutOff(id) == cut[id] <= Len(wire[id]) /\ (Live(id) /\ cut[id] # 0 => st.pc = "closing" /\ st.i = Hash(id))
\* What counts of w
Seen(w, n) == IF n = 0 THEN w ELSE SubSeq(w, 1, n)
Intact(id) == Stub(Seen(wire[id], cut[id])) /\ Sorted(sent, Seen(wire[id], cut[id]))
Orderly ==
    /\ cut \in [Id -> Nat]
    /\ \A id \in Id : (Live(id) /\ cut[id] = 0 => Flows(id)) /\ Lone(id) /\ CutOff(id) /\ Intact(id)

LiveThen(id) == s'[Hash(id)].id = id /\ s'[Hash(id)].type \notin Closed
FlowsThen(id) ==
    /\ Pieces(wire'[id], s'[Hash(id)]) /\ Ordered(sent', wire'[id], s'[Hash(id)])
    /\ Later(sent', pipe', id, wire'[id], s'[Hash(id)]) /\ Writer(at', id, wire'[id], s'[Hash(id)])

LEMMA LiveBack ==
  ASSUME IInv, Move, NEW id \in Id, LiveThen(id)
  PROVE  Live(id) \/ \E t : NewStep(id, t)
<1>1. id \in Nat /\ Hash(id) \in Slot
  <2>1. id \in Nat
    BY DEF Id
  <2> QED
    BY <2>1, Geometry DEF IInv
<1>2. SlotNext(Hash(id))
  BY <1>1, NextOfSlot
<1>3. ASSUME NEW e, NEW t, NewStep(e, t), Hash(e) = Hash(id) PROVE \E tt : NewStep(id, tt)
  <2>1. s'[Hash(e)].id = e
    BY <1>3 DEF NewStep
  <2>2. e = id
    BY <1>3, <2>1 DEF LiveThen
  <2> QED
    BY <1>3, <2>2
<1>4. ASSUME EndStep(Hash(id)) PROVE FALSE
  BY <1>4, Commands DEF EndStep, LiveThen
<1>5. ASSUME HalfStep(Hash(id)) PROVE Live(id)
  BY <1>5 DEF HalfStep, Turns, LiveThen, Live
<1>6. s[Hash(id)].type \in {"PACCEPT", "PLISTEN", "CONNECTING"} => s[Hash(id)].type \notin Closed
  BY DEF Closed
<1> QED
  BY <1>2, <1>3, <1>4, <1>5, <1>6 DEF SlotNext, LiveThen, Live

\* Where a service that is about to write comes from
CheckFrom(v) ==
    /\ at'[v].id = at[v].id
    /\ \/ at[v].pc = "look" /\ NothingComing(at[v].id) /\ pipe' = pipe
       \/ at[v].pc \in {"check", "check2"}
    /\ at'[v].pc = "check2" =>
          at[v].pc = "check2" \/ (at[v].pc = "check" /\ NothingAhead(at[v].id) /\ UNCHANGED wire /\ AllPlain)

LEMMA CheckBack ==
  ASSUME IInv, Move, NEW v \in Service, at'[v].pc \in {"check", "check2"}
  PROVE  CheckFrom(v)
<1>1. CASE at'[v] = at[v]
  BY <1>1 DEF CheckFrom
<1>2. CASE StayStep
  <2>1. Carries(v) /\ Looks(v) /\ pipe' = pipe /\ wire' = wire /\ AllPlain
    BY <1>2 DEF StayStep, Frame
  <2>2. at[v].pc \in WithPackage
    BY <2>1 DEF Carries, WithPackage
  <2> QED
    BY <2>1, <2>2 DEF Carries, Looks, CheckFrom
<1>3. ASSUME NEW w \in Service, Only(w), w = v => at'[v].pc \notin {"check", "check2"} PROVE at'[v] = at[v]
  BY <1>3 DEF Only
<1>4. ASSUME NEW w \in Service, ServiceMove(w) PROVE CheckFrom(v)
  <2>1. ASSUME NEW i, ReserveStep(w, i) PROVE CheckFrom(v)
    BY <1>1, <1>3, <2>1 DEF ReserveStep
  <2>2. ASSUME NEW r, FillStep(w, r) \/ PostStep(w, r) PROVE CheckFrom(v)
    BY <1>1, <1>3, <2>2 DEF FillStep, PostStep
  <2>3. ASSUME NEW r, AskStep(r) \/ CloseStep(w, r) PROVE CheckFrom(v)
    BY <1>1, <2>3 DEF AskStep, CloseStep
  <2>4. ASSUME NEW m, SendStep(w, m) PROVE CheckFrom(v)
    BY <1>1, <1>3, <2>4 DEF SendStep
  <2>5. ASSUME NEW n, WriteStep(w, n) PROVE CheckFrom(v)
    BY <1>1, <1>3, <2>5 DEF WriteStep, Only
  <2> QED
    BY <1>2, <1>4, <2>1, <2>2, <2>3, <2>4, <2>5 DEF ServiceMove
<1>5. ASSUME ThreadMove PROVE CheckFrom(v)
  <2>1. StayStep \/ UNCHANGED at
    BY <1>5 DEF ThreadMove, FailStep, HangStep, TakeStep, NewStep, StartStep, EndStep, HalfStep, ConnectStep, LoseStep,
                CutStep, FlushStep
  <2> QED
    BY <1>1, <1>2, <2>1
<1> QED
  BY <1>4, <1>5 DEF Move

\* A package that comes to the pipe is the last of its service.
LEMMA PipeBack ==
  ASSUME IInv, Owned, Move, NEW r \in Request, Member(pipe', r), r.c \in Sending
  PROVE  \/ Member(pipe, r)
         \/ \E v \in Service : PostStep(v, r) /\ r.p = <<v, Len(sent[v])>>
<1>1. pipe \in Seq(Request)
  BY DEF IInv, TypeOK
<1>2. PipeNext
  BY NextOfPipe
<1>3. ASSUME NEW e \in Request, pipe' = Append(pipe, e) PROVE r = e \/ Member(pipe, r)
  BY <1>1, <1>3, AppendPipe
<1>4. ASSUME pipe # <<>>, pipe' = Tail(pipe) PROVE Member(pipe, r)
  BY <1>1, <1>4, TailPipe
<1>5. ASSUME NEW m, HangStep(m) PROVE Member(pipe, r)
  BY <1>4, <1>5 DEF HangStep, Takes1
<1>6. ASSUME NEW v \in Service, NEW e, CloseStep(v, e) PROVE Member(pipe, r)
  BY <1>3, <1>6, Commands DEF CloseStep
<1>7. ASSUME NEW v \in Service, NEW e, PostStep(v, e), ~Member(pipe, r) PROVE PostStep(v, r) /\ r.p = <<v, Len(sent[v])>>
  <2>1. e = r
    BY <1>3, <1>7 DEF PostStep
  <2>2. r.p = at[v].p /\ at[v].pc \in WithPackage
    BY <1>7, <2>1 DEF PostStep, WithPackage
  <2> QED
    BY <1>7, <2>1, <2>2 DEF Owned, Latest
<1>8. CASE pipe' = pipe
  BY <1>8
<1>9. CASE \E e \in Request : e.c \notin Sending /\ e.c # "K" /\ pipe' = Append(pipe, e)
  BY <1>3, <1>9
<1> QED
  BY <1>2, <1>4, <1>5, <1>6, <1>7, <1>8, <1>9 DEF PipeNext

LEMMA IdSlot ==
  ASSUME IInv, NEW id \in Id
  PROVE  id \in Nat /\ Hash(id) \in Slot
<1>1. id \in Nat
  BY DEF Id
<1> QED
  BY <1>1, Geometry DEF IInv

\* Nothing is on its way to a connection whose count is zero.
LEMMA NoneComing ==
  ASSUME IInv, NEW id \in Id, Live(id), NothingComing(id), NEW r \in Request, Member(pipe, r), r.c \in Sending, r.id = id
  PROVE  FALSE
<1>1. id \in Nat /\ Hash(id) \in Slot /\ pipe \in Seq(Request)
  BY IdSlot DEF IInv, TypeOK
<1>2. s[Hash(id)].protocol = "TCP" /\ s[Hash(id)].id = id /\ s[Hash(id)].sending = 0
  BY <1>1 DEF Live, NothingComing, IInv, Slots
<1>3. Load(id) = 0
  BY <1>1, <1>2 DEF IInv, Counted
<1>4. Cardinality(Coming(pipe, id)) \in Nat /\ Cardinality(Pushing(at, id)) \in Nat /\ IsFiniteSet(Coming(pipe, id))
  BY <1>1, ComingFinite, PushingFinite
<1>5. Cardinality(Coming(pipe, id)) = 0
  BY <1>3, <1>4 DEF Load
<1>6. Coming(pipe, id) = {}
  BY <1>4, <1>5, FS_EmptySet
<1>7. PICK k \in DOMAIN pipe : pipe[k] = r
  BY DEF Member
<1>8. k \in Coming(pipe, id)
  BY <1>7 DEF Coming, Sending
<1> QED
  BY <1>6, <1>8

LEMMA LoneNext ==
  ASSUME IInv, Owned, Orderly, Move, NEW id \in Id, LiveThen(id)
  PROVE  LoneIn(at', pipe', id)
<1> SUFFICES ASSUME NEW v \in Service, NEW r \in Request, at'[v].pc \in {"check", "check2"}, at'[v].id = id,
                    Member(pipe', r), r.c \in Sending, r.id = id
             PROVE  r.p[1] # v
  BY DEF LoneIn
<1>1. CheckFrom(v)
  BY CheckBack
<1>2. at[v].id = id /\ at[v].pc \in WithPackage
  BY <1>1 DEF CheckFrom, WithPackage
<1>3. Live(id)
  <2>1. ASSUME NEW t, NewStep(id, t) PROVE FALSE
    BY <1>2, <2>1 DEF NewStep, IInv, Told
  <2> QED
    BY <2>1, LiveBack
<1>4. LoneIn(at, pipe, id)
  BY <1>3 DEF Orderly, Lone
<1>5. CASE Member(pipe, r)
  <2>1. CASE at[v].pc = "look" /\ NothingComing(id)
    BY <1>3, <1>5, <2>1, NoneComing
  <2>2. CASE at[v].pc \in {"check", "check2"}
    BY <1>2, <1>4, <1>5, <2>2 DEF LoneIn
  <2> QED
    BY <1>1, <1>2, <2>1, <2>2 DEF CheckFrom
<1>6. ASSUME NEW w \in Service, PostStep(w, r), r.p = <<w, Len(sent[w])>> PROVE r.p[1] # v
  <2>1. at'[w].pc = "idle"
    BY <1>6 DEF PostStep
  <2>2. w # v
    BY <2>1
  <2> QED
    BY <1>6, <2>2
<1> QED
  BY <1>5, <1>6, PipeBack

LEMMA NothingWritten ==
  ASSUME IInv, Owned, Home, NEW id \in Id, ~Known(id)
  PROVE  wire[id] = <<>>
<1>1. wire[id] \in Seq(Unit)
  BY DEF IInv, TypeOK
<1>2. ASSUME wire[id] # <<>> PROVE FALSE
  <2>1. PICK u \in Unit : Member(wire[id], u)
    <3>1. PICK q \in Seq(Unit) : q = wire[id]
      BY <1>1
    <3>2. 1 \in DOMAIN q /\ q[1] \in Unit
      BY <1>2, <3>1, Halves
    <3> QED
      BY <3>1, <3>2 DEF Member
  <2>2. Given(u) /\ Bound(u, id)
    BY <2>1, HeldIsGiven DEF Home, WireHome
  <2>3. u[1][1] \in Service
    BY DEF Unit
  <2> QED
    BY <2>2, <2>3 DEF Home, SentHome, Given, Bound, Of
<1> QED
  BY <1>2

Calm(id) ==
    /\ wire'[id] = wire[id] /\ cut'[id] = cut[id]
    /\ LiveThen(id) => Live(id) /\ SameList(Hash(id))
FlowKind(id) ==
    \/ Calm(id)
    \/ \E v \in Service : \E n : WriteStep(v, n) /\ at[v].id = id
    \/ \E m : TakeStep(m) /\ m.id = id /\ ~Refused(m)
    \/ \E n, k : FlushStep(Hash(id), n, k) /\ s[Hash(id)].id = id
    \/ LoseStep(Hash(id)) /\ s[Hash(id)].id = id
    \/ \E how : CutStep(Hash(id), how) /\ s[Hash(id)].id = id
    \/ \E t : NewStep(id, t)

LEMMA FlowKinds ==
  ASSUME IInv, Orderly, Move, NEW id \in Id
  PROVE  FlowKind(id)
<1>0. id \in Nat /\ Hash(id) \in Slot /\ cut \in [Id -> Nat]
  BY IdSlot DEF Orderly
<1>1. ASSUME UNCHANGED <<wire, cut>>, LiveThen(id) => SameList(Hash(id)) PROVE FlowKind(id)
  <2>1. CASE \E t : NewStep(id, t)
    BY <2>1 DEF FlowKind
  <2>2. CASE ~\E t : NewStep(id, t)
    <3>1. LiveThen(id) => Live(id)
      BY <2>2, LiveBack
    <3> QED
      BY <1>1, <3>1 DEF FlowKind, Calm
  <2> QED
    BY <2>1, <2>2
<1>2. ASSUME UNCHANGED <<wire, cut>>, AllPlain \/ UNCHANGED s PROVE FlowKind(id)
  BY <1>0, <1>1, <1>2 DEF AllPlain, Plain, SameList
<1>3. ASSUME UNCHANGED <<wire, cut>>, NEW i, NEW t, NEW e, Turns(i, t, e) PROVE FlowKind(id)
  BY <1>0, <1>1, <1>3 DEF Turns, Others, SameList
<1>4. ASSUME StayStep PROVE FlowKind(id)
  BY <1>2, <1>4 DEF StayStep, Frame
<1>5. ASSUME NEW v \in Service, ServiceMove(v) PROVE FlowKind(id)
  <2>1. ASSUME NEW i, ReserveStep(v, i) PROVE FlowKind(id)
    BY <1>3, <2>1 DEF ReserveStep, Frame
  <2>2. ASSUME NEW r, FillStep(v, r) PROVE FlowKind(id)
    BY <1>3, <2>2 DEF FillStep, Frame
  <2>3. ASSUME NEW r, AskStep(r) \/ CloseStep(v, r) \/ PostStep(v, r) PROVE FlowKind(id)
    BY <1>2, <2>3 DEF AskStep, CloseStep, PostStep, Frame
  <2>4. ASSUME NEW m, SendStep(v, m) PROVE FlowKind(id)
    BY <1>2, <2>4 DEF SendStep
  <2>5. ASSUME NEW n, WriteStep(v, n), at[v].id # id PROVE FlowKind(id)
    <3>1. PICK e : e = at[v].id /\ e # id
      BY <2>5
    <3>2. e \in Id /\ e \in Nat /\ at[v].pc = "check2" /\ s[Hash(e)].id = e
      BY <2>5, <3>1, PlaceFacts DEF WriteStep, IInv, Locks, WithPackage
    <3>3. wire'[id] = wire[id] /\ cut' = cut /\ Others(Hash(e)) /\ s'[Hash(e)].id = e
      BY <2>5, <3>1, <3>2 DEF WriteStep, Written, Holding
    <3>4. LiveThen(id) => s'[Hash(id)] = s[Hash(id)]
      BY <1>0, <3>1, <3>3 DEF LiveThen, Others
    <3> QED
      BY <3>3, <3>4 DEF FlowKind, Calm, SameList, LiveThen, Live
  <2> QED
    BY <1>4, <1>5, <2>1, <2>2, <2>3, <2>4, <2>5 DEF ServiceMove, FlowKind
<1>6. ASSUME ThreadMove PROVE FlowKind(id)
  <2>1. ASSUME NEW r, FailStep(r) PROVE FlowKind(id)
    BY <1>3, <2>1 DEF FailStep, Frame
  <2>2. ASSUME NEW r, HangStep(r) PROVE FlowKind(id)
    BY <1>2, <2>2 DEF HangStep, Frame
  <2>3. ASSUME NEW m, TakeStep(m) PROVE FlowKind(id)
    <3>1. CASE Refused(m)
      BY <1>0, <1>1, <2>3, <3>1 DEF TakeStep, Holding, Others, SameList
    <3>2. CASE ~Refused(m) /\ m.id # id
      <4>1. s[Hash(m.id)].id = m.id
        BY <3>2 DEF Refused, Gone
      <4>2. UNCHANGED <<wire, cut>> /\ Others(Hash(m.id)) /\ s'[Hash(m.id)].id = m.id
        BY <2>3, <3>2, <4>1 DEF TakeStep, Holding
      <4>3. LiveThen(id) => s'[Hash(id)] = s[Hash(id)]
        BY <1>0, <3>2, <4>2 DEF LiveThen, Others
      <4> QED
        BY <1>1, <4>2, <4>3 DEF SameList
    <3> QED
      BY <2>3, <3>1, <3>2 DEF FlowKind
  <2>4. ASSUME NEW e, NEW t, NewStep(e, t) PROVE FlowKind(id)
    <3>1. CASE e = id
      BY <2>4, <3>1 DEF FlowKind
    <3>2. CASE e # id
      <4>1. UNCHANGED <<wire, cut>> /\ Others(Hash(e)) /\ s'[Hash(e)].id = e
        BY <2>4 DEF NewStep, Frame
      <4>2. LiveThen(id) => s'[Hash(id)] = s[Hash(id)]
        BY <1>0, <3>2, <4>1 DEF LiveThen, Others
      <4> QED
        BY <1>1, <4>1, <4>2 DEF SameList
    <3> QED
      BY <3>1, <3>2
  <2>5. ASSUME NEW e, StartStep(e) PROVE FlowKind(id)
    BY <1>2, <1>3, <2>5 DEF StartStep, Frame
  <2>6. ASSUME NEW i, HalfStep(i) \/ ConnectStep(i) PROVE FlowKind(id)
    BY <1>3, <2>6 DEF HalfStep, ConnectStep, Frame
  <2>7. ASSUME NEW i, EndStep(i) PROVE FlowKind(id)
    <3>1. LiveThen(id) => i # Hash(id)
      BY <2>7, Commands DEF EndStep, LiveThen
    <3> QED
      BY <1>0, <1>1, <2>7, <3>1 DEF EndStep, Others, SameList
  \* The thread works on slot i, which is not that of id.
  <2>8. ASSUME NEW i \in Slot, NEW e \in Id, e = s[i].id, s[i].type \notin Closed, s'[i].id = e, Others(i),
               \A d \in Id : d # e => wire'[d] = wire[d] /\ cut'[d] = cut[d],
               i # Hash(id) \/ e # id
        PROVE  FlowKind(id)
    <3>1. Hash(e) = i /\ e \in Nat
      BY <2>8 DEF IInv, Slots, Id
    <3>2. e # id
      BY <2>8, <3>1
    <3>3. LiveThen(id) => s'[Hash(id)] = s[Hash(id)]
      BY <1>0, <2>8, <3>1, <3>2 DEF LiveThen, Others
    <3> QED
      BY <2>8, <3>2, <3>3 DEF FlowKind, Calm, SameList, LiveThen, Live
  <2>9. ASSUME NEW i, LoseStep(i) PROVE FlowKind(id)
    <3>1. /\ i \in Slot /\ s[i].id \in Id /\ s'[i].id = s[i].id /\ Others(i) /\ st.pc = "send" /\ st.i = i /\ wire' = wire
          /\ cut' = [cut EXCEPT ![s[i].id] = Len(wire[s[i].id])]
      BY <2>9 DEF LoseStep, Holding
    <3>2. s[i].type \notin Closed
      BY <3>1, SlotAtWork DEF AtSlot
    <3>3. \A d \in Id : d # s[i].id => wire'[d] = wire[d] /\ cut'[d] = cut[d]
      BY <1>0, <3>1
    <3> QED
      BY <2>8, <2>9, <3>1, <3>2, <3>3 DEF FlowKind
  <2>10. ASSUME NEW i, NEW how, CutStep(i, how) PROVE FlowKind(id)
    <3>1. /\ i \in Slot /\ s[i].id \in Id /\ s'[i].id = s[i].id /\ Others(i) /\ wire' = wire
          /\ cut' = [cut EXCEPT ![s[i].id] = Len(wire[s[i].id])] /\ s[i].type \notin Closed
      BY <2>10 DEF CutStep, Holding
    <3>2. \A d \in Id : d # s[i].id => wire'[d] = wire[d] /\ cut'[d] = cut[d]
      BY <1>0, <3>1
    <3> QED
      BY <2>8, <2>10, <3>1, <3>2 DEF FlowKind
  <2>11. ASSUME NEW i, NEW n, NEW k, FlushStep(i, n, k) PROVE FlowKind(id)
    <3>1. /\ i \in Slot /\ s[i].id \in Id /\ s'[i].id = s[i].id /\ Others(i) /\ st.pc = "send" /\ st.i = i
          /\ cut' = cut \/ cut' = [cut EXCEPT ![s[i].id] = Len(wire'[s[i].id])]
          /\ \A d \in Id : d # s[i].id => wire'[d] = wire[d]
      BY <2>11 DEF FlushStep, Holding, Written
    <3>2. s[i].type \notin Closed
      BY <3>1, SlotAtWork DEF AtSlot
    <3>3. \A d \in Id : d # s[i].id => wire'[d] = wire[d] /\ cut'[d] = cut[d]
      BY <1>0, <3>1
    <3> QED
      BY <2>8, <2>11, <3>1, <3>2, <3>3 DEF FlowKind
  <2> QED
    BY <1>4, <1>6, <2>1, <2>2, <2>3, <2>4, <2>5, <2>6, <2>7, <2>9, <2>10, <2>11 DEF ThreadMove
<1> QED
  BY <1>5, <1>6 DEF Move

LEMMA OrdKept ==
  ASSUME IInv, Move, NEW x \in Unit, NEW y \in Unit, Given(x), Given(y)
  PROVE  Ord(sent', x, y) <=> Ord(sent, x, y)
<1>1. \A u \in Unit : Given(u) => sent'[u[1][1]][u[1][2]] = sent[u[1][1]][u[1][2]]
  <2>1. CASE sent' = sent
    BY <2>1
  <2>2. ASSUME NEW v \in Service, NEW m, SendStep(v, m) PROVE \A u \in Unit : Given(u) => sent'[u[1][1]][u[1][2]] = sent[u[1][1]][u[1][2]]
    <3>1. sent' = [sent EXCEPT ![v] = Append(sent[v], m)]
      BY <2>2 DEF SendStep
    <3>2. \A w \in Service, k \in Nat : k \in DOMAIN sent[w] => sent'[w][k] = sent[w][k]
      BY <3>1, SentStays DEF IInv
    <3>3. \A u \in Unit : u[1][1] \in Service /\ u[1][2] \in Nat
      BY DEF Unit
    <3> QED
      BY <3>2, <3>3 DEF Given
  <2> QED
    BY <2>1, <2>2, NextOfPipe DEF SentNext
<1> QED
  BY <1>1 DEF Ord

LEMMA SortedKept ==
  ASSUME IInv, Move, NEW q \in Seq(Unit), \A u \in Unit : Member(q, u) => Given(u), Sorted(sent, q)
  PROVE  Sorted(sent', q)
<1> SUFFICES ASSUME NEW j \in DOMAIN q, NEW k \in DOMAIN q, j < k PROVE Ord(sent', q[j], q[k])
  BY DEF Sorted
<1>1. q[j] \in Unit /\ q[k] \in Unit
  BY Halves
<1>2. Given(q[j]) /\ Given(q[k])
  BY <1>1 DEF Member
<1>3. Ord(sent, q[j], q[k])
  BY DEF Sorted
<1> QED
  BY <1>1, <1>2, <1>3, OrdKept

\* The last package of a service comes after all others.
LEMMA LastIsLater ==
  ASSUME IInv, NEW u \in Unit, Given(u), NEW v \in Service, NEW y, y[1] = <<v, Len(sent[v])>>, NEW f
  PROVE  Ord(f, u, y)
<1>1. sent[v] \in Seq(Package)
  BY DEF IInv, TypeOK
<1>2. u[1][1] = v => u[1][2] \in 1..Len(sent[v])
  BY <1>1, LenProperties DEF Given
<1>3. Len(sent[v]) \in Nat /\ u[1][2] \in Nat
  BY <1>1, LenProperties DEF Unit
<1> QED
  BY <1>2, <1>3 DEF Ord

\* Streams of units that were sent
LEMMA StreamUnits ==
  ASSUME IInv, Owned, NEW id \in Id
  PROVE  /\ wire[id] \in Seq(Unit) /\ Waiting(s[Hash(id)]) \in Seq(Unit) /\ wire[id] \o Waiting(s[Hash(id)]) \in Seq(Unit)
         /\ \A u : Member(wire[id] \o Waiting(s[Hash(id)]), u) <=> Member(wire[id], u) \/ Member(Waiting(s[Hash(id)]), u)
         /\ \A u \in Unit : Member(wire[id], u) \/ Member(Waiting(s[Hash(id)]), u) => Given(u)
<1>1. Hash(id) \in Slot
  BY IdSlot
<1>2. wire[id] \in Seq(Unit) /\ Waiting(s[Hash(id)]) \in Seq(Unit)
  BY <1>1, WaitingTypes DEF IInv, TypeOK
<1>3. /\ wire[id] \o Waiting(s[Hash(id)]) \in Seq(Unit)
      /\ \A u : Member(wire[id] \o Waiting(s[Hash(id)]), u) <=> Member(wire[id], u) \/ Member(Waiting(s[Hash(id)]), u)
  BY <1>2, Concat, ConcatMember
<1>4. \A u \in Unit : Member(wire[id], u) \/ Member(Waiting(s[Hash(id)]), u) => Given(u)
  BY <1>1, HeldIsGiven
<1> QED
  BY <1>2, <1>3, <1>4

\* The packages in the pipe still come after what has been written or waits.
LEMMA LaterKept ==
  ASSUME IInv, Owned, Move, NEW id \in Id, Later(sent, pipe, id, wire[id], s[Hash(id)]),
         NEW r \in Request, Member(pipe', r), r.c \in Sending, r.id = id,
         NEW u \in Unit, Member(wire[id], u) \/ Member(Waiting(s[Hash(id)]), u)
  PROVE  Ord(sent', u, <<r.p, 1>>)
<1>1. Given(u)
  BY StreamUnits
<1>2. CASE Member(pipe, r)
  <2>1. Given(<<r.p, 1>>) /\ <<r.p, 1>> \in Unit
    BY <1>2, HeldIsGiven DEF Unit
  <2>2. Ord(sent, u, <<r.p, 1>>)
    BY <1>2 DEF Later
  <2> QED
    BY <1>1, <2>1, <2>2, OrdKept
<1>3. ASSUME NEW v \in Service, r.p = <<v, Len(sent[v])>> PROVE Ord(sent', u, <<r.p, 1>>)
  <2>1. PICK y : y = <<r.p, 1>> /\ y[1] = <<v, Len(sent[v])>>
    <3>1. PICK p : p = r.p /\ p = <<v, Len(sent[v])>>
      BY <1>3, Zenon
    <3>2. <<p, 1>>[1] = p
      OBVIOUS
    <3> QED
      BY <3>1, <3>2, Zenon
  <2>2. Ord(sent', u, y)
    BY <1>1, <2>1, LastIsLater
  <2> QED
    BY <2>1, <2>2
<1> QED
  BY <1>2, <1>3, PipeBack

LEMMA CalmFlow ==
  ASSUME IInv, Owned, Move, NEW id \in Id, Live(id), Flows(id), wire'[id] = wire[id], SameList(Hash(id))
  PROVE  FlowsThen(id)
<1>1. Waiting(s'[Hash(id)]) = Waiting(s[Hash(id)])
  BY SameWait
<1>2. Pieces(wire'[id], s'[Hash(id)])
  BY DEF Flows, Pieces, SameList
<1>3. Ordered(sent', wire'[id], s'[Hash(id)])
  <2>1. PICK q \in Seq(Unit) : q = wire[id] \o Waiting(s[Hash(id)]) /\ \A u \in Unit : Member(q, u) => Given(u)
    BY StreamUnits
  <2>2. Sorted(sent, q)
    BY <2>1 DEF Flows, Ordered
  <2>3. Sorted(sent', q)
    BY <2>1, <2>2, SortedKept
  <2> QED
    BY <1>1, <2>1, <2>3 DEF Ordered
<1>4. Later(sent', pipe', id, wire'[id], s'[Hash(id)])
  BY <1>1, LaterKept DEF Flows, Later
<1>5. Writer(at', id, wire'[id], s'[Hash(id)])
  <2> SUFFICES ASSUME NEW v \in Service, at'[v].pc = "check2", at'[v].id = id
               PROVE  Whole(wire[id]) /\ \A u \in Unit : Member(Waiting(s[Hash(id)]), u) => u[1][1] # v
    BY <1>1 DEF Writer
  <2>1. CheckFrom(v) /\ at[v].id = id
    BY CheckBack DEF CheckFrom
  <2>2. CASE at[v].pc = "check2"
    BY <2>1, <2>2 DEF Flows, Writer
  <2>3. CASE NothingAhead(id)
    <3>1. s[Hash(id)].dw = <<>> /\ s[Hash(id)].high = <<>> /\ s[Hash(id)].low = <<>>
      BY <2>3 DEF NothingAhead, ListsEmpty
    <3>2. Waiting(s[Hash(id)]) = <<>> /\ wire[id] \o (<<>> \o <<>>) = wire[id]
      BY <3>1, NoUnits, StreamUnits DEF Waiting
    <3>3. Whole(wire[id])
      BY <3>1, <3>2 DEF Flows, Pieces
    <3> QED
      BY <3>2, <3>3, NoUnits
  <2> QED
    BY <2>1, <2>2, <2>3 DEF CheckFrom
<1> QED
  BY <1>2, <1>3, <1>4, <1>5 DEF FlowsThen

\* A connection that nothing has been written to, and nothing waits for
LEMMA EmptyFlow ==
  ASSUME NEW id, wire'[id] = <<>>, s'[Hash(id)].dw = <<>>, s'[Hash(id)].high = <<>>, s'[Hash(id)].low = <<>>
  PROVE  FlowsThen(id)
<1>1. Waiting(s'[Hash(id)]) = <<>> /\ <<>> \o (<<>> \o <<>>) = <<>> /\ <<>> \o <<>> = <<>>
  BY NoUnits DEF Waiting
<1>2. Pieces(wire'[id], s'[Hash(id)])
  BY <1>1, WholeUnits DEF Pieces
<1>3. Ordered(sent', wire'[id], s'[Hash(id)])
  BY <1>1, NoUnits DEF Ordered, Sorted
<1>4. Later(sent', pipe', id, wire'[id], s'[Hash(id)])
  BY <1>1, NoUnits DEF Later
<1>5. Writer(at', id, wire'[id], s'[Hash(id)])
  BY <1>1, WholeUnits, NoUnits DEF Writer
<1> QED
  BY <1>2, <1>3, <1>4, <1>5 DEF FlowsThen

LEMMA NewFlow ==
  ASSUME IInv, Owned, Home, NEW id \in Id, NEW t, NewStep(id, t)
  PROVE  FlowsThen(id) /\ wire[id] = <<>> /\ wire' = wire /\ cut' = cut
<1>1. wire[id] = <<>> /\ wire' = wire /\ cut' = cut
  BY NothingWritten DEF NewStep, Frame
<1> QED
  BY <1>1, EmptyFlow DEF NewStep

LEMMA LoseFlow ==
  ASSUME NEW id, wire[id] = <<>>, LoseStep(Hash(id))
  PROVE  FlowsThen(id)
BY EmptyFlow DEF LoseStep, Holding

LEMMA CutFlow ==
  ASSUME IInv, Owned, Move, NEW id \in Id, Flows(id), wire[id] = <<>>, NEW how, CutStep(Hash(id), how)
  PROVE  FlowsThen(id)
<1>1. Hash(id) \in Slot
  BY IdSlot
<1>2. PICK d \in Seq(Unit), h \in Seq(Unit), l \in Seq(Unit) :
        d = s[Hash(id)].dw /\ h = s[Hash(id)].high /\ l = s[Hash(id)].low
  BY <1>1, WaitingTypes DEF IInv
<1>3. /\ s'[Hash(id)].dw = d /\ s'[Hash(id)].high = <<>> /\ s'[Hash(id)].low = <<>>
      /\ UNCHANGED <<wire, sent, at>> /\ (UNCHANGED pipe \/ StartTaken)
  BY <1>2 DEF CutStep, Holding
<1>11. \A x : Member(pipe', x) => Member(pipe, x)
  BY <1>3, StartTakenShips
<1>4. Waiting(s'[Hash(id)]) = d
  BY <1>3, NoUnits DEF Waiting
<1>5. /\ \A u : Member(d, u) => Member(Waiting(s[Hash(id)]), u)
      /\ \A f : Sorted(f, Waiting(s[Hash(id)])) => Sorted(f, d)
  <2>1. Waiting(s[Hash(id)]) = d \o (h \o l) /\ h \o l \in Seq(Unit)
    BY <1>1, <1>2, WaitingTypes DEF IInv
  <2>2. PICK x \in Seq(Unit) : x = h \o l /\ Waiting(s[Hash(id)]) = d \o x
    BY <2>1
  <2>3. \A u : Member(d \o x, u) <=> Member(d, u) \/ Member(x, u)
    BY ConcatMember
  <2>4. ASSUME NEW f, Sorted(f, Waiting(s[Hash(id)])) PROVE Sorted(f, d)
    <3>1. PICK c : c = d \o x /\ Sorted(f, c)
      BY <2>2, <2>4
    <3> QED
      BY <3>1, SortedConcat
  <2> QED
    BY <2>2, <2>3, <2>4
<1>6. <<>> \o d = d /\ <<>> \o <<>> = <<>> /\ d \o <<>> = d /\ <<>> \o Waiting(s[Hash(id)]) = Waiting(s[Hash(id)])
  BY NoUnits, StreamUnits
<1>7. Pieces(wire'[id], s'[Hash(id)])
  <2>1. Whole(d)
    BY <1>2, <1>6, WholeUnits DEF Flows, Pieces
  <2> QED
    BY <1>3, <1>6, <2>1, WholeUnits DEF Pieces
<1>8. Ordered(sent', wire'[id], s'[Hash(id)])
  BY <1>3, <1>4, <1>5, <1>6 DEF Flows, Ordered
<1>9. Later(sent', pipe', id, wire'[id], s'[Hash(id)])
  BY <1>3, <1>4, <1>5, <1>11 DEF Flows, Later
<1>10. Writer(at', id, wire'[id], s'[Hash(id)])
  BY <1>3, <1>4, <1>5 DEF Flows, Writer
<1> QED
  BY <1>7, <1>8, <1>9, <1>10 DEF FlowsThen

LEMMA FlushFlow ==
  ASSUME IInv, Owned, NEW id \in Id, Flows(id), NEW n, NEW k, FlushStep(Hash(id), n, k), s[Hash(id)].id = id
  PROVE  FlowsThen(id)
<1>1. PICK i \in Slot : i = Hash(id)
  BY IdSlot
<1>2. /\ n \in 0..Len(Waiting(s[i])) /\ Kept(s[i], n, k)
      /\ Written(id, SubSeq(Waiting(s[i]), 1, n))
      /\ Holding(i, <<>>, SubSeq(Rests(s[i], n), 1, k), SubSeq(Rests(s[i], n), k + 1, Len(Rests(s[i], n))))
      /\ UNCHANGED <<pipe, at, sent>> /\ st.pc = "send" /\ st.i = i
  BY <1>1 DEF FlushStep
<1>3. /\ s[i].dw \o s[i].high \in Seq(Unit) /\ Waiting(s[i]) \in Seq(Unit) /\ s[i].low \in Seq(Unit)
      /\ wire[id] \in Seq(Unit)
  BY <1>1, WaitingTypes DEF IInv, TypeOK
<1>4. PICK a \in Seq(Unit), l \in Seq(Unit), u \in Seq(Unit) :
        a = s[i].dw \o s[i].high /\ l = s[i].low /\ Glued(a, l, u) /\ u = Waiting(s[i])
  BY <1>3 DEF Waiting, Glued
<1>5. PICK g \in Seq(Unit), r \in Seq(Unit) :
        g = SubSeq(u, 1, n) /\ r = Rests(s[i], n) /\ Glued(g, r, u) /\ Len(g) = n
  <2>1. n \in 0..Len(u)
    BY <1>2, <1>4
  <2>2. /\ SubSeq(u, 1, n) \in Seq(Unit) /\ SubSeq(u, n + 1, Len(u)) \in Seq(Unit) /\ Len(SubSeq(u, 1, n)) = n
        /\ SubSeq(u, 1, n) \o SubSeq(u, n + 1, Len(u)) = u
    BY <2>1, Split
  <2>3. Rests(s[i], n) = SubSeq(u, n + 1, Len(u))
    BY <1>4 DEF Rests
  <2> QED
    BY <2>2, <2>3, Zenon DEF Glued
<1>6. k \in 0..Len(r) /\ (Len(a) - n > 0 => k = Len(a) - n)
      /\ (Len(a) - n <= 0 => k = IF r # <<>> /\ r[1][2] = 2 THEN 1 ELSE 0)
  BY <1>2, <1>4, <1>5 DEF Kept
<1>7. PICK h \in Seq(Unit), t \in Seq(Unit) :
        h = SubSeq(r, 1, k) /\ t = SubSeq(r, k + 1, Len(r)) /\ Glued(h, t, r) /\ Len(h) = k
  <2>1. /\ SubSeq(r, 1, k) \in Seq(Unit) /\ SubSeq(r, k + 1, Len(r)) \in Seq(Unit) /\ Len(SubSeq(r, 1, k)) = k
        /\ SubSeq(r, 1, k) \o SubSeq(r, k + 1, Len(r)) = r
    BY <1>6, Split
  <2> QED
    BY <2>1, Zenon DEF Glued
<1>8. PICK w \in Seq(Unit) : w = wire[id]
  BY <1>3
<1>9. PICK x \in Seq(Unit), y \in Seq(Unit) : Glued(w, a, x) /\ Glued(w, g, y)
  BY Glue
<1>10. PICK z \in Seq(Unit) : Glued(y, h, z)
  BY Glue
<1>11. Whole(x) /\ Whole(l)
  BY <1>1, <1>4, <1>8, <1>9 DEF Flows, Pieces, Glued
<1>12. Whole(z) /\ Whole(t)
  <2>1. Remains(a, g, r, h)
    BY <1>5, <1>6, <1>7 DEF Remains
  <2>2. Glued(a, l, u) /\ Glued(g, r, u) /\ Glued(h, t, r) /\ Glued(w, a, x) /\ Glued(w, g, y) /\ Glued(y, h, z)
    BY <1>4, <1>5, <1>7, <1>9, <1>10, Zenon
  <2> QED
    BY <1>11, <2>1, <2>2, WholeFlush
<1>13. wire'[id] = y /\ s'[i].dw = <<>> /\ s'[i].high = h /\ s'[i].low = t
  BY <1>2, <1>4, <1>5, <1>7, <1>8, <1>9 DEF Written, Holding, Glued
<1>14. Waiting(s'[i]) = r /\ <<>> \o h = h
  BY <1>7, <1>13, NoUnits DEF Waiting, Glued
<1>15. Pieces(wire'[id], s'[i])
  BY <1>10, <1>12, <1>13, <1>14 DEF Pieces, Glued
<1>16. y \o r = w \o u
  <2>1. PICK c : Glued(w, u, c)
    BY DEF Glued
  <2>2. Glued(y, r, c)
    <3>1. Glued(w, g, y) /\ Glued(g, r, u)
      BY <1>5, <1>9, Zenon
    <3>2. Glued(w, u, c) <=> Glued(y, r, c)
      BY <3>1, Regroup
    <3> QED
      BY <2>1, <3>2
  <2> QED
    BY <2>1, <2>2, Zenon DEF Glued
<1>17. Ordered(sent', wire'[id], s'[i])
  BY <1>1, <1>2, <1>4, <1>8, <1>13, <1>14, <1>16 DEF Flows, Ordered
<1>18. \A e : Member(y, e) \/ Member(r, e) => Member(w, e) \/ Member(u, e)
  <2>1. /\ \A e : Member(w \o g, e) <=> Member(w, e) \/ Member(g, e)
        /\ \A e : Member(g \o r, e) <=> Member(g, e) \/ Member(r, e)
    BY ConcatMember
  <2> QED
    BY <1>5, <1>9, <2>1 DEF Glued
<1>19. Later(sent', pipe', id, wire'[id], s'[i])
  BY <1>1, <1>2, <1>4, <1>8, <1>13, <1>14, <1>18 DEF Flows, Later
<1>20. Writer(at', id, wire'[id], s'[i])
  <2>1. s[i].lock = Thread
    BY <1>2 DEF IInv, AtWork
  <2>2. ASSUME NEW v \in Service, at[v].pc = "check2", at[v].id = id PROVE FALSE
    <3>1. s[i].lock = v
      BY <1>1, <2>2, IdSlot DEF IInv, Locks
    <3> QED
      BY <2>1, <3>1, HolderAssumption
  <2> QED
    BY <1>2, <2>2 DEF Writer
<1> QED
  BY <1>1, <1>15, <1>17, <1>19, <1>20 DEF FlowsThen

LEMMA SortedUnits ==
  ASSUME NEW f, NEW p \in Service \X Nat
  PROVE  /\ Sorted(f, Units(p))
         /\ \A x, y : x[1] = p /\ y[1] = p => Ord(f, x, y)
         /\ \A u \in Unit : Member(Units(p), u) => u[1] = p
<1>1. \A x, y : x[1] = p /\ y[1] = p => Ord(f, x, y)
  <2>1. p[2] \in Nat
    OBVIOUS
  <2> QED
    BY <2>1 DEF Ord
<1>2. PICK q \in Seq(Unit) : q = Units(p) /\ \A u \in Unit : Member(q, u) <=> u[1] = p
  BY UnitsOf
<1>3. \A k \in DOMAIN q : q[k][1] = p
  BY <1>2, Halves DEF Member
<1> QED
  BY <1>1, <1>2, <1>3 DEF Sorted

\* Sequences whose units are in order, one after the other
LEMMA SortedGlue ==
  ASSUME NEW f, NEW a \in Seq(Unit), NEW b \in Seq(Unit), NEW c, Glued(a, b, c)
  PROVE  Sorted(f, c) <=> Sorted(f, a) /\ Sorted(f, b) /\ Cross(f, a, b)
<1>1. c = a \o b
  BY DEF Glued
<1> QED
  BY <1>1, SortedConcat

LEMMA MemberGlue ==
  ASSUME NEW a \in Seq(Unit), NEW b \in Seq(Unit), NEW c, Glued(a, b, c)
  PROVE  \A x : Member(c, x) <=> Member(a, x) \/ Member(b, x)
<1>1. c = a \o b
  BY DEF Glued
<1> QED
  BY <1>1, ConcatMember

LEMMA WholeGlue ==
  ASSUME NEW a \in Seq(Unit), NEW b \in Seq(Unit), NEW c, Glued(a, b, c)
  PROVE  /\ Whole(a) /\ Whole(b) => Whole(c)
         /\ Whole(a) /\ Whole(c) => Whole(b)
<1>1. c = a \o b
  BY DEF Glued
<1> QED
  BY <1>1, WholeConcat, WholeRest

\* Package q comes to the end of the high list, a, or of the low one, l.
LEMMA TakenPieces ==
  ASSUME NEW w \in Seq(Unit), NEW d \in Seq(Unit), NEW h \in Seq(Unit), NEW q \in Seq(Unit), Whole(q), Whole(w \o (d \o h))
  PROVE  Whole(w \o (d \o (h \o q)))
<1>1. PICK a \in Seq(Unit), b \in Seq(Unit) : Glued(d, h, a) /\ Glued(h, q, b)
  BY Glue
<1>2. PICK x \in Seq(Unit), y \in Seq(Unit) : Glued(w, a, x) /\ Glued(d, b, y)
  BY <1>1, Glue
<1>3. PICK z \in Seq(Unit) : Glued(w, y, z)
  BY <1>2, Glue
<1>4. Glued(a, q, y)
  BY <1>1, <1>2, Regroup
<1>5. Glued(x, q, z)
  BY <1>2, <1>3, <1>4, Regroup
<1>6. Whole(x)
  BY <1>1, <1>2, Zenon DEF Glued
<1>7. Whole(z)
  BY <1>5, <1>6, WholeGlue
<1> QED
  BY <1>1, <1>2, <1>3, <1>7, Zenon DEF Glued

\* The stream w, a, l with q put behind a, or at the end
LEMMA TakenOrder ==
  ASSUME NEW f, NEW w \in Seq(Unit), NEW a \in Seq(Unit), NEW l \in Seq(Unit), NEW q \in Seq(Unit), Sorted(f, q),
         Sorted(f, w \o (a \o l)), Cross(f, w, q), Cross(f, a, q), Cross(f, l, q)
  PROVE  /\ Sorted(f, w \o (a \o (l \o q)))
         /\ Cross(f, q, l) => Sorted(f, w \o ((a \o q) \o l))
<1>1. PICK b \in Seq(Unit), x \in Seq(Unit), y \in Seq(Unit) : Glued(a, l, b) /\ Glued(l, q, x) /\ Glued(a, q, y)
  BY Glue
<1>2. PICK c \in Seq(Unit), xx \in Seq(Unit), yy \in Seq(Unit) : Glued(w, b, c) /\ Glued(a, x, xx) /\ Glued(y, l, yy)
  BY <1>1, Glue
<1>3. PICK e \in Seq(Unit), g \in Seq(Unit) : Glued(w, xx, e) /\ Glued(w, yy, g)
  BY <1>2, Glue
<1>4. Sorted(f, c)
  BY <1>1, <1>2, Zenon DEF Glued
<1>5. Sorted(f, w) /\ Sorted(f, b) /\ Cross(f, w, b)
  BY <1>2, <1>4, SortedGlue
<1>6. Sorted(f, a) /\ Sorted(f, l) /\ Cross(f, a, l)
  BY <1>1, <1>5, SortedGlue
<1>7. \A u : Member(b, u) <=> Member(a, u) \/ Member(l, u)
  BY <1>1, MemberGlue
<1>8. Cross(f, w, a) /\ Cross(f, w, l)
  BY <1>5, <1>7 DEF Cross
<1>9. Sorted(f, e)
  <2>1. Sorted(f, x)
    BY <1>1, <1>6, SortedGlue
  <2>2. \A u : Member(x, u) <=> Member(l, u) \/ Member(q, u)
    BY <1>1, MemberGlue
  <2>3. Cross(f, a, x)
    BY <1>6, <2>2 DEF Cross
  <2>4. Sorted(f, xx)
    BY <1>2, <1>6, <2>1, <2>3, SortedGlue
  <2>5. \A u : Member(xx, u) <=> Member(a, u) \/ Member(x, u)
    BY <1>2, MemberGlue
  <2>6. Cross(f, w, xx)
    BY <1>8, <2>2, <2>5 DEF Cross
  <2> QED
    BY <1>3, <1>5, <2>4, <2>6, SortedGlue
<1>10. ASSUME Cross(f, q, l) PROVE Sorted(f, g)
  <2>1. Sorted(f, y)
    BY <1>1, <1>6, SortedGlue
  <2>2. \A u : Member(y, u) <=> Member(a, u) \/ Member(q, u)
    BY <1>1, MemberGlue
  <2>3. Cross(f, y, l)
    BY <1>6, <1>10, <2>2 DEF Cross
  <2>4. Sorted(f, yy)
    BY <1>2, <1>6, <2>1, <2>3, SortedGlue
  <2>5. \A u : Member(yy, u) <=> Member(y, u) \/ Member(l, u)
    BY <1>2, MemberGlue
  <2>6. Cross(f, w, yy)
    BY <1>8, <2>2, <2>5 DEF Cross
  <2> QED
    BY <1>3, <1>5, <2>4, <2>6, SortedGlue
<1>11. e = w \o (a \o (l \o q)) /\ g = w \o ((a \o q) \o l)
  BY <1>1, <1>2, <1>3, Zenon DEF Glued
<1> QED
  BY <1>9, <1>10, <1>11

\* The lists of slot i, with the package of a request
TakenLists(i, d, h, l, c, q) ==
    /\ s'[i].dw = d
    /\ \/ h = <<>> /\ l = <<>> /\ s'[i].high = q /\ s'[i].low = <<>>
       \/ c = "D" /\ s'[i].high = h \o q /\ s'[i].low = l
       \/ c = "P" /\ s'[i].high = h /\ s'[i].low = l \o q

LEMMA TakeFlow ==
  ASSUME IInv, Owned, Home, NEW id \in Id, Live(id), Flows(id), LoneIn(at, pipe, id), NEW m, TakeStep(m), m.id = id, ~Refused(m)
  PROVE  FlowsThen(id)
<1>1. PICK i \in Slot : i = Hash(id)
  BY IdSlot
<1>2. PICK d \in Seq(Unit), h \in Seq(Unit), l \in Seq(Unit), w \in Seq(Unit) :
        d = s[i].dw /\ h = s[i].high /\ l = s[i].low /\ w = wire[id]
  BY <1>1, WaitingTypes DEF IInv, TypeOK
<1>3. /\ pipe # <<>> /\ m = Head(pipe) /\ m.c \in Sending /\ m.p \in Service \X Nat /\ pipe' = Tail(pipe)
      /\ UNCHANGED <<at, wire, sent>>
  BY DEF TakeStep
<1>4. m \in Request /\ Member(pipe, m) /\ pipe \in Seq(Request)
  BY <1>3, TailPipe DEF IInv, TypeOK
<1>5. PICK q \in Seq(Unit) : q = Units(m.p) /\ Whole(q) /\ Sorted(sent, q) /\ \A u \in Unit : Member(q, u) => u[1] = m.p
  BY <1>3, UnitsOf, WholeUnits, SortedUnits
<1>6. TakenLists(i, d, h, l, m.c, q)
  BY <1>1, <1>2, <1>5 DEF TakeStep, Holding, TakenLists
<1>7. Whole(w \o (d \o h)) /\ Whole(l) /\ (d = <<>> \/ Whole(w \o d))
  BY <1>1, <1>2 DEF Flows, Pieces
<1>8. Pieces(wire'[id], s'[i])
  <2>1. Whole(w \o (d \o (h \o q)))
    BY <1>5, <1>7, TakenPieces
  <2>2. Whole(l \o q)
    BY <1>5, <1>7, WholeConcat
  <2>3. h = <<>> => h \o q = q
    BY NoUnits
  <2>4. /\ s'[i].dw = d /\ wire'[id] = w
        /\ \/ s'[i].high = h \o q /\ Whole(s'[i].low)
           \/ s'[i].high = h /\ s'[i].low = l \o q
    BY <1>2, <1>3, <1>6, <1>7, <2>3, WholeUnits DEF TakenLists
  <2> QED
    BY <1>7, <2>1, <2>2, <2>4 DEF Pieces
<1>9. PICK a \in Seq(Unit) : a = d \o h
  BY Concat
<1>10. Waiting(s[i]) = a \o l
  BY <1>2, <1>9 DEF Waiting
<1>11. \A x : Member(Waiting(s[i]), x) <=> Member(a, x) \/ Member(l, x)
  BY <1>10, ConcatMember
<1>12. \A u \in Unit, y \in Unit : (Member(w, u) \/ Member(a, u) \/ Member(l, u)) /\ Member(q, y) => Ord(sent, u, y)
  <2> SUFFICES ASSUME NEW u \in Unit, NEW y \in Unit, Member(w, u) \/ Member(a, u) \/ Member(l, u), Member(q, y)
               PROVE  Ord(sent, u, y)
    OBVIOUS
  <2>1. Ord(sent, u, <<m.p, 1>>)
    BY <1>1, <1>2, <1>3, <1>4, <1>11 DEF Flows, Later
  <2>2. y[1] = m.p
    BY <1>5
  <2>3. PICK x : x = <<m.p, 1>> /\ x[1] = m.p /\ Ord(sent, u, x)
    <3>1. <<m.p, 1>>[1] = m.p
      OBVIOUS
    <3> QED
      BY <2>1, <3>1, Zenon
  <2> QED
    BY <2>2, <2>3 DEF Ord
<1>13. Cross(sent, w, q) /\ Cross(sent, a, q) /\ Cross(sent, l, q)
  BY <1>12 DEF Cross
<1>14. m.c = "D" => Cross(sent, q, l)
  <2> SUFFICES ASSUME m.c = "D", NEW x \in Unit, NEW y \in Unit, Member(q, x), Member(l, y) PROVE Ord(sent, x, y)
    BY DEF Cross
  <2>1. Of(x[1]).prio = "high"
    BY <1>3, <1>4, <1>5 DEF Home, PipeHome
  <2>2. Of(y[1]).prio = "low"
    BY <1>2 DEF Home, SlotHome
  <2> QED
    BY <2>1, <2>2 DEF Ord, Of
<1>15. Ordered(sent', wire'[id], s'[i])
  <2>1. Sorted(sent, w \o (a \o l))
    BY <1>1, <1>2, <1>10 DEF Flows, Ordered
  <2>2. /\ Sorted(sent, w \o (a \o (l \o q)))
        /\ m.c = "D" => Sorted(sent, w \o ((a \o q) \o l))
    BY <1>5, <1>13, <1>14, <2>1, TakenOrder
  <2>3. PICK b \in Seq(Unit) : b = d \o (h \o q) /\ b = a \o q
    <3>1. d \o (h \o q) = (d \o h) \o q
      BY Assoc
    <3>2. a \o q \in Seq(Unit)
      BY Concat
    <3> QED
      BY <1>9, <3>1, <3>2
  <2>4. CASE h = <<>> /\ l = <<>> /\ s'[i].high = q /\ s'[i].low = <<>>
    <3>1. d \o q = a \o q /\ l \o q = q
      BY <1>9, <2>4, NoUnits
    <3>2. PICK x \in Seq(Unit) : x = d \o q
      BY Concat
    <3>3. Waiting(s'[i]) = a \o (l \o q)
      BY <1>6, <2>4, <3>1, <3>2, NoUnits DEF TakenLists, Waiting
    <3> QED
      BY <1>2, <1>3, <2>2, <3>3 DEF Ordered
  <2>5. CASE m.c = "D" /\ s'[i].high = h \o q /\ s'[i].low = l
    <3>1. Waiting(s'[i]) = (a \o q) \o l
      BY <1>6, <2>3, <2>5, Zenon DEF TakenLists, Waiting
    <3> QED
      BY <1>2, <1>3, <2>2, <2>5, <3>1 DEF Ordered
  <2>6. CASE m.c = "P" /\ s'[i].high = h /\ s'[i].low = l \o q
    <3>1. Waiting(s'[i]) = a \o (l \o q)
      BY <1>6, <1>9, <2>6, Zenon DEF TakenLists, Waiting
    <3> QED
      BY <1>2, <1>3, <2>2, <3>1 DEF Ordered
  <2> QED
    BY <1>6, <2>4, <2>5, <2>6 DEF TakenLists
<1>16. \A x : Member(Waiting(s'[i]), x) => Member(Waiting(s[i]), x) \/ Member(q, x)
  <2>1. Inserted(Waiting(s'[i]), s[i], q)
    BY <1>2, <1>6 DEF TakenLists, Inserted, Waiting
  <2> QED
    BY <2>1, InsertedUnits DEF IInv
<1>17. Later(sent', pipe', id, wire'[id], s'[i])
  <2> SUFFICES ASSUME NEW r \in Request, NEW u \in Unit, Member(Tail(pipe), r), r.c \in Sending, r.id = id,
                      Member(w, u) \/ Member(Waiting(s[i]), u) \/ Member(q, u)
               PROVE  Ord(sent, u, <<r.p, 1>>)
    BY <1>2, <1>3, <1>16 DEF Later
  <2>1. Member(pipe, r)
    BY <1>3, <1>4, TailPipe
  <2>2. CASE Member(w, u) \/ Member(Waiting(s[i]), u)
    BY <1>1, <1>2, <2>1, <2>2 DEF Flows, Later
  <2>3. CASE Member(q, u)
    <3>1. u[1] = m.p
      BY <1>5, <2>3
    <3>2. r.p[1] = m.p[1] => m.p[2] < r.p[2]
      BY <1>3, <1>4, ShipTail DEF Owned, Single
    <3>3. m.p[2] \in Nat /\ r.p \in Service \X Nat
      BY <1>3, <2>1, HeldIsGiven
    <3>4. PICK p \in Service \X Nat : p = r.p
      BY <3>3
    <3>5. <<p, 1>>[1] = p
      OBVIOUS
    <3>6. Ord(sent, u, <<p, 1>>)
      BY <3>1, <3>2, <3>3, <3>4, <3>5 DEF Ord
    <3> QED
      BY <3>4, <3>6
  <2> QED
    BY <2>2, <2>3
<1>18. Writer(at', id, wire'[id], s'[i])
  <2> SUFFICES ASSUME NEW v \in Service, at[v].pc = "check2", at[v].id = id
               PROVE  Whole(w) /\ \A u \in Unit : Member(Waiting(s'[i]), u) => u[1][1] # v
    BY <1>2, <1>3 DEF Writer
  <2>1. Whole(w) /\ \A u \in Unit : Member(Waiting(s[i]), u) => u[1][1] # v
    BY <1>1, <1>2 DEF Flows, Writer
  <2>2. m.p[1] # v
    BY <1>3, <1>4 DEF LoneIn
  <2> QED
    BY <1>5, <1>16, <2>1, <2>2
<1> QED
  BY <1>1, <1>8, <1>15, <1>17, <1>18 DEF FlowsThen

\* A direct write: g of the package q goes out, e is left in front of h and l.
LEMMA WrittenPieces ==
  ASSUME NEW w \in Seq(Unit), NEW h \in Seq(Unit), NEW q \in Seq(Unit), NEW g \in Seq(Unit), NEW e \in Seq(Unit),
         Glued(g, e, q), Whole(q), Whole(w), Whole(w \o h)
  PROVE  Whole((w \o g) \o (e \o h)) /\ Whole((w \o g) \o e)
<1>1. PICK a \in Seq(Unit), b \in Seq(Unit), x \in Seq(Unit), y \in Seq(Unit) :
        Glued(w, g, a) /\ Glued(e, h, b) /\ Glued(w, q, x) /\ Glued(w, h, y)
  BY Glue
<1>2. PICK z \in Seq(Unit) : Glued(a, b, z)
  BY Glue
<1>3. Glued(a, e, x)
  BY <1>1, Regroup
<1>4. Glued(x, h, z)
  BY <1>1, <1>2, <1>3, Regroup
<1>5. Whole(x)
  BY <1>1, WholeGlue
<1>6. Whole(h)
  <2>1. Whole(y)
    BY <1>1, Zenon DEF Glued
  <2> QED
    BY <1>1, <2>1, WholeGlue
<1>7. Whole(z)
  BY <1>4, <1>5, <1>6, WholeGlue
<1>8. z = (w \o g) \o (e \o h) /\ x = (w \o g) \o e
  BY <1>1, <1>2, <1>3, Zenon DEF Glued
<1> QED
  BY <1>5, <1>7, <1>8

LEMMA WrittenOrder ==
  ASSUME NEW f, NEW w \in Seq(Unit), NEW h \in Seq(Unit), NEW l \in Seq(Unit), NEW q \in Seq(Unit), NEW g \in Seq(Unit),
         NEW e \in Seq(Unit), Glued(g, e, q), NEW c \in Seq(Unit), Glued(h, l, c), Sorted(f, w \o c), Sorted(f, q),
         Cross(f, w, q), Cross(f, q, c)
  PROVE  Sorted(f, (w \o g) \o ((e \o h) \o l))
<1>1. PICK a \in Seq(Unit), b \in Seq(Unit), x \in Seq(Unit), y \in Seq(Unit), d \in Seq(Unit) :
        Glued(w, g, a) /\ Glued(e, h, b) /\ Glued(w, q, x) /\ Glued(w, c, y) /\ Glued(e, c, d)
  BY Glue
<1>2. PICK z \in Seq(Unit) : Glued(a, d, z)
  BY Glue
<1>3. Glued(b, l, d)
  BY <1>1, Regroup
<1>4. Glued(a, e, x)
  BY <1>1, Regroup
<1>5. Glued(x, c, z)
  BY <1>1, <1>2, <1>4, Regroup
<1>6. Sorted(f, y)
  BY <1>1, Zenon DEF Glued
<1>7. Sorted(f, w) /\ Sorted(f, c) /\ Cross(f, w, c)
  BY <1>1, <1>6, SortedGlue
<1>8. Sorted(f, x)
  BY <1>1, <1>7, SortedGlue
<1>9. \A u : Member(x, u) <=> Member(w, u) \/ Member(q, u)
  BY <1>1, MemberGlue
<1>10. Cross(f, x, c)
  BY <1>7, <1>9 DEF Cross
<1>11. Sorted(f, z)
  BY <1>5, <1>7, <1>8, <1>10, SortedGlue
<1>12. z = (w \o g) \o ((e \o h) \o l)
  BY <1>1, <1>2, <1>3, Zenon DEF Glued
<1> QED
  BY <1>11, <1>12

LEMMA WriteFlow ==
  ASSUME IInv, Owned, NEW id \in Id, Flows(id), LoneIn(at, pipe, id), NEW v \in Service, NEW n, WriteStep(v, n), at[v].id = id
  PROVE  FlowsThen(id)
<1>1. PICK i \in Slot : i = Hash(id)
  BY IdSlot
<1>2. PICK h \in Seq(Unit), l \in Seq(Unit), w \in Seq(Unit) : h = s[i].high /\ l = s[i].low /\ w = wire[id]
  BY <1>1, WaitingTypes DEF IInv, TypeOK
<1>3. /\ at[v].pc = "check2" /\ n \in 0..2 /\ UNCHANGED <<pipe, sent>>
      /\ at'[v].pc = "idle" /\ \A x \in Service : x # v => at'[x] = at[x]
  BY DEF WriteStep
<1>4. s[i].dw = <<>> /\ s[i].lock = v
  BY <1>1, <1>3, IdSlot DEF Owned, DwEmpty, IInv, Locks
<1>5. PICK p \in Service \X Nat : p = at[v].p /\ p = <<v, Len(sent[v])>> /\ p[1] = v
  <2>1. PICK p \in Service \X Nat : p = at[v].p /\ p = <<v, Len(sent[v])>>
    BY <1>3, HeldIsGiven DEF Owned, Latest, WithPackage
  <2>2. p[1] = v
    BY <2>1
  <2> QED
    BY <2>1, <2>2
<1>6. PICK q \in Seq(Unit) :
        q = Units(p) /\ Len(q) = 2 /\ Whole(q) /\ Sorted(sent, q) /\ \A u \in Unit : Member(q, u) => u[1] = p
  BY UnitsOf, WholeUnits, SortedUnits
<1>7. PICK g \in Seq(Unit), e \in Seq(Unit) :
        g = SubSeq(q, 1, n) /\ e = SubSeq(q, n + 1, 2) /\ Glued(g, e, q) /\ (n = 2 => e = <<>>)
  <2>1. /\ SubSeq(q, 1, n) \in Seq(Unit) /\ SubSeq(q, n + 1, 2) \in Seq(Unit) /\ Len(SubSeq(q, n + 1, 2)) = 2 - n
        /\ SubSeq(q, 1, n) \o SubSeq(q, n + 1, 2) = q
    <3>1. n \in 0..Len(q)
      BY <1>3, <1>6
    <3>2. /\ SubSeq(q, 1, n) \in Seq(Unit) /\ SubSeq(q, n + 1, Len(q)) \in Seq(Unit)
          /\ Len(SubSeq(q, n + 1, Len(q))) = Len(q) - n /\ SubSeq(q, 1, n) \o SubSeq(q, n + 1, Len(q)) = q
      BY <3>1, Split
    <3> QED
      BY <1>6, <3>2, Zenon
  <2>2. n = 2 => SubSeq(q, n + 1, 2) = <<>>
    BY <2>1, EmptySeq
  <2> QED
    BY <2>1, <2>2, Zenon DEF Glued
<1>8. wire'[id] = w \o g /\ s'[i].dw = e /\ s'[i].high = h /\ s'[i].low = l
  <2>1. Written(id, g)
    BY <1>5, <1>6, <1>7 DEF WriteStep
  <2>2. Holding(i, e, h, l)
    BY <1>1, <1>2, <1>4, <1>5, <1>6, <1>7 DEF WriteStep
  <2> QED
    BY <1>2, <2>1, <2>2 DEF Written, Holding
<1>9. Whole(w) /\ \A u \in Unit : Member(Waiting(s[i]), u) => u[1][1] # v
  BY <1>1, <1>2, <1>3 DEF Flows, Writer
<1>10. Whole(w \o h) /\ Whole(l)
  <2>1. <<>> \o h = h
    BY NoUnits
  <2> QED
    BY <1>1, <1>2, <1>4, <2>1 DEF Flows, Pieces
<1>11. Pieces(wire'[id], s'[i])
  <2>1. Whole((w \o g) \o (e \o h)) /\ Whole((w \o g) \o e)
    <3>1. Glued(g, e, q) /\ Whole(q) /\ Whole(w) /\ Whole(w \o h)
      BY <1>6, <1>7, <1>9, <1>10, Zenon
    <3> QED
      BY <3>1, WrittenPieces
  <2> QED
    BY <1>8, <1>10, <2>1 DEF Pieces
<1>12. PICK c \in Seq(Unit) : Glued(h, l, c) /\ Waiting(s[i]) = c
  <2>1. <<>> \o h = h
    BY NoUnits
  <2>2. Waiting(s[i]) = h \o l
    BY <1>2, <1>4, <2>1 DEF Waiting
  <2>3. PICK c \in Seq(Unit) : Glued(h, l, c)
    BY Glue
  <2> QED
    BY <2>2, <2>3 DEF Glued
<1>13. Cross(sent, w, q)
  <2> SUFFICES ASSUME NEW x \in Unit, NEW y \in Unit, Member(w, x), Member(q, y) PROVE Ord(sent, x, y)
    BY DEF Cross
  <2>1. Given(x) /\ y[1] = <<v, Len(sent[v])>>
    BY <1>2, <1>5, <1>6, StreamUnits
  <2> QED
    BY <2>1, LastIsLater
<1>14. Cross(sent, q, c)
  <2> SUFFICES ASSUME NEW x \in Unit, NEW y \in Unit, Member(q, x), Member(c, y) PROVE Ord(sent, x, y)
    BY DEF Cross
  <2>1. x[1][1] = v /\ y[1][1] # v
    BY <1>5, <1>6, <1>9, <1>12
  <2> QED
    BY <2>1 DEF Ord
<1>15. Ordered(sent', wire'[id], s'[i])
  <2>1. Sorted(sent, w \o c)
    BY <1>1, <1>2, <1>12 DEF Flows, Ordered
  <2>2. Sorted(sent, (w \o g) \o ((e \o h) \o l))
    BY <1>6, <1>7, <1>12, <1>13, <1>14, <2>1, WrittenOrder
  <2> QED
    BY <1>3, <1>8, <2>2 DEF Ordered, Waiting
<1>16. \A u : Member(wire'[id], u) \/ Member(Waiting(s'[i]), u) => Member(w, u) \/ Member(q, u) \/ Member(c, u)
  <2>1. \A u : Member(w \o g, u) <=> Member(w, u) \/ Member(g, u)
    BY ConcatMember
  <2>2. \A u : Member((e \o h) \o l, u) <=> Member(e, u) \/ Member(h, u) \/ Member(l, u)
    BY Three
  <2>3. /\ \A u : Member(q, u) <=> Member(g, u) \/ Member(e, u)
        /\ \A u : Member(c, u) <=> Member(h, u) \/ Member(l, u)
    <3>1. Glued(g, e, q) /\ Glued(h, l, c)
      BY <1>7, <1>12, Zenon
    <3> QED
      BY <3>1, MemberGlue
  <2> QED
    BY <1>8, <2>1, <2>2, <2>3 DEF Waiting
<1>17. Later(sent', pipe', id, wire'[id], s'[i])
  <2> SUFFICES ASSUME NEW r \in Request, NEW u \in Unit, Member(pipe, r), r.c \in Sending, r.id = id,
                      Member(w, u) \/ Member(q, u) \/ Member(c, u)
               PROVE  Ord(sent, u, <<r.p, 1>>)
    BY <1>3, <1>16 DEF Later
  <2>1. CASE Member(w, u) \/ Member(c, u)
    BY <1>1, <1>2, <1>12, <2>1 DEF Flows, Later
  <2>2. CASE Member(q, u)
    <3>1. u[1][1] = v
      BY <1>5, <1>6, <2>2
    <3>2. r.p[1] # v
      BY <1>3 DEF LoneIn
    <3>3. PICK a : a = r.p /\ a[1] # v
      BY <3>2
    <3>4. <<a, 1>>[1] = a
      OBVIOUS
    <3>5. Ord(sent, u, <<a, 1>>)
      BY <3>1, <3>3, <3>4 DEF Ord
    <3> QED
      BY <3>3, <3>5
  <2> QED
    BY <2>1, <2>2
<1>18. Writer(at', id, wire'[id], s'[i])
  <2>1. ASSUME NEW x \in Service, at'[x].pc = "check2", at'[x].id = id PROVE FALSE
    <3>1. x # v /\ at[x].pc = "check2" /\ at[x].id = id
      BY <1>3, <2>1
    <3>2. s[i].lock = x
      BY <1>1, <3>1, IdSlot DEF IInv, Locks
    <3> QED
      BY <1>4, <3>1, <3>2
  <2> QED
    BY <2>1 DEF Writer
<1> QED
  BY <1>1, <1>11, <1>15, <1>17, <1>18 DEF FlowsThen

\* An open connection whose socket is not being closed is not cut.
LEMMA NotCut ==
  ASSUME Orderly, NEW id \in Id, Live(id), st.pc # "closing"
  PROVE  cut[id] = 0 /\ Flows(id)
BY DEF Orderly, CutOff

LEMMA Workings ==
  ASSUME IInv, NEW id \in Id, s[Hash(id)].id = id
  PROVE  /\ \A how : CutStep(Hash(id), how) => Live(id) /\ st.pc # "closing"
         /\ LoseStep(Hash(id)) => Live(id) /\ st.pc # "closing"
         /\ \A n, k : FlushStep(Hash(id), n, k) => Live(id) /\ st.pc # "closing" /\ LiveThen(id)
<1>1. ASSUME st.pc = "send", st.i = Hash(id) PROVE Live(id) /\ st.pc # "closing"
  BY <1>1, SlotAtWork DEF AtSlot, Live
<1>2. \A how : CutStep(Hash(id), how) => Live(id) /\ st.pc # "closing"
  BY DEF CutStep, Live
<1>3. LoseStep(Hash(id)) => Live(id) /\ st.pc # "closing"
  BY <1>1 DEF LoseStep
<1>4. ASSUME NEW n, NEW k, FlushStep(Hash(id), n, k) PROVE Live(id) /\ st.pc # "closing" /\ LiveThen(id)
  <2>1. Live(id) /\ st.pc # "closing"
    BY <1>1, <1>4 DEF FlushStep
  <2> QED
    BY <1>4, <2>1 DEF FlushStep, Holding, Live, LiveThen
<1> QED
  BY <1>2, <1>3, <1>4

LEMMA WriterLive ==
  ASSUME IInv, NEW id \in Id, NEW v \in Service, NEW n, WriteStep(v, n), at[v].id = id
  PROVE  Live(id) /\ LiveThen(id) /\ UNCHANGED <<cut, st, sent>>
<1>1. at[v].pc = "check2" /\ id \in Nat
  BY IdSlot DEF WriteStep
<1>2. Live(id)
  BY <1>1 DEF IInv, Locks, Live
<1> QED
  BY <1>2 DEF WriteStep, Holding, Live, LiveThen

LEMMA FlowNext ==
  ASSUME IInv, Owned, Home, Orderly, Move, NEW id \in Id, LiveThen(id), cut'[id] = 0
  PROVE  FlowsThen(id)
<1>0. FlowKind(id)
  BY FlowKinds
<1>1. Live(id) => LoneIn(at, pipe, id)
  BY DEF Orderly, Lone
<1>2. Live(id) /\ cut[id] = 0 => Flows(id)
  BY DEF Orderly
<1>3. wire[id] \in Seq(Unit) /\ cut \in [Id -> Nat]
  BY DEF IInv, TypeOK, Orderly
<1>4. CASE Calm(id)
  BY <1>2, <1>4, CalmFlow DEF Calm
<1>5. ASSUME NEW v \in Service, NEW n, WriteStep(v, n), at[v].id = id PROVE FlowsThen(id)
  <2>1. Live(id) /\ cut[id] = 0
    BY <1>5, WriterLive
  <2> QED
    BY <1>1, <1>2, <1>5, <2>1, WriteFlow
<1>6. ASSUME NEW m, TakeStep(m), m.id = id, ~Refused(m) PROVE FlowsThen(id)
  <2>1. Live(id) /\ cut[id] = 0
    BY <1>6 DEF TakeStep, Holding, Live, LiveThen
  <2> QED
    BY <1>1, <1>2, <1>6, <2>1, TakeFlow
<1>7. ASSUME NEW n, NEW k, FlushStep(Hash(id), n, k), s[Hash(id)].id = id PROVE FlowsThen(id)
  <2>1. Flows(id)
    BY <1>7, Workings, NotCut
  <2> QED
    BY <1>7, <2>1, FlushFlow
<1>8. ASSUME cut' = [cut EXCEPT ![id] = Len(wire[id])] PROVE wire[id] = <<>>
  <2>1. Len(wire[id]) = 0
    BY <1>3, <1>8
  <2> QED
    BY <1>3, <2>1, EmptySeq
<1>9. ASSUME LoseStep(Hash(id)), s[Hash(id)].id = id PROVE FlowsThen(id)
  <2>1. wire[id] = <<>>
    BY <1>8, <1>9 DEF LoseStep
  <2> QED
    BY <1>9, <2>1, LoseFlow
<1>10. ASSUME NEW how, CutStep(Hash(id), how), s[Hash(id)].id = id PROVE FlowsThen(id)
  <2>1. wire[id] = <<>>
    BY <1>8, <1>10 DEF CutStep
  <2>2. Flows(id)
    BY <1>10, Workings, NotCut
  <2> QED
    BY <1>10, <2>1, <2>2, CutFlow
<1>11. ASSUME NEW t, NewStep(id, t) PROVE FlowsThen(id)
  BY <1>11, NewFlow
<1> QED
  BY <1>0, <1>4, <1>5, <1>6, <1>7, <1>9, <1>10, <1>11 DEF FlowKind

LEMMA WrittenLen ==
  ASSUME NEW w \in Seq(Unit), NEW g \in Seq(Unit)
  PROVE  /\ Len(w) <= Len(w \o g)
         /\ \A n \in Nat : n # 0 /\ n <= Len(w) => Seen(w \o g, n) = Seen(w, n)
<1>1. PICK c \in Seq(Unit) : c = w \o g /\ Len(c) = Len(w) + Len(g)
  BY Concat
<1>2. Joined(w, g, c)
  BY <1>1, Joint
<1>3. Len(w) <= Len(c) /\ Len(w) \in Nat /\ Len(c) \in Nat
  BY <1>2 DEF Joined
<1>4. ASSUME NEW n \in Nat, n # 0, n <= Len(w) PROVE SubSeq(c, 1, n) = SubSeq(w, 1, n)
  <2>1. n \in 0..Len(w) /\ n \in 0..Len(c)
    BY <1>3, <1>4
  <2>2. PICK x \in Seq(Unit) : x = SubSeq(w, 1, n) /\ Len(x) = n /\ \A k \in 1..n : x[k] = w[k]
    BY <2>1, Split
  <2>3. PICK y \in Seq(Unit) : y = SubSeq(c, 1, n) /\ Len(y) = n /\ \A k \in 1..n : y[k] = c[k]
    BY <2>1, Split
  <2>4. \A k \in 1..n : k \in DOMAIN w
    BY <1>2, <1>4 DEF Joined
  <2>5. \A k \in 1..n : y[k] = x[k]
    BY <1>2, <2>2, <2>3, <2>4 DEF Joined
  <2>6. x = y
    BY <2>2, <2>3, <2>5, SeqEqual
  <2> QED
    BY <2>2, <2>3, <2>6
<1> QED
  BY <1>1, <1>3, <1>4 DEF Seen

LEMMA CutNext ==
  ASSUME IInv, Owned, Home, Orderly, Move, NEW id \in Id
  PROVE  /\ cut'[id] <= Len(wire'[id])
         /\ LiveThen(id) /\ cut'[id] # 0 => st'.pc = "closing" /\ st'.i = Hash(id)
<1>0. FlowKind(id)
  BY FlowKinds
<1>1. cut[id] <= Len(wire[id]) /\ (Live(id) /\ cut[id] # 0 => st.pc = "closing" /\ st.i = Hash(id))
  BY DEF Orderly, CutOff
<1>2. wire[id] \in Seq(Unit) /\ cut \in [Id -> Nat] /\ cut[id] \in Nat /\ Len(wire[id]) \in Nat
  BY LenProperties DEF IInv, TypeOK, Orderly
<1> DEFINE G == /\ cut'[id] <= Len(wire'[id])
                /\ LiveThen(id) /\ cut'[id] # 0 => st'.pc = "closing" /\ st'.i = Hash(id)
<1>3. CASE Calm(id)
  <2>1. ASSUME LiveThen(id), cut[id] # 0 PROVE st'.pc = "closing" /\ st'.i = Hash(id)
    <3>1. st.pc = "closing" /\ st.i = Hash(id)
      BY <1>1, <1>3, <2>1 DEF Calm
    <3>2. ASSUME EndStep(Hash(id)) PROVE FALSE
      BY <2>1, <3>2, Commands DEF EndStep, LiveThen
    <3> QED
      BY <3>1, <3>2, ClosingStays
  <2> QED
    BY <1>1, <1>3, <2>1 DEF Calm
<1>4. ASSUME NEW v \in Service, NEW n, WriteStep(v, n), at[v].id = id PROVE G
  <2>1. Live(id) /\ cut' = cut /\ st' = st
    BY <1>4, WriterLive
  <2>2. PICK g \in Seq(Unit) : Written(id, g)
    <3>1. n \in 0..2 /\ at[v].p \in Service \X Nat /\ Written(id, SubSeq(Units(at[v].p), 1, n))
      BY <1>4, PlaceFacts DEF WriteStep, IInv, WithPackage
    <3>2. PICK q \in Seq(Unit) : q = Units(at[v].p) /\ Len(q) = 2
      BY <3>1, UnitsOf
    <3>3. SubSeq(q, 1, n) \in Seq(Unit)
      BY <3>1, <3>2, Split
    <3> QED
      BY <3>1, <3>2, <3>3
  <2>3. Len(wire[id]) <= Len(wire'[id]) /\ Len(wire'[id]) \in Nat
    <3>1. PICK w \in Seq(Unit) : w = wire[id] /\ wire'[id] = w \o g
      BY <1>2, <2>2 DEF Written
    <3> QED
      BY <3>1, WrittenLen, Concat, LenProperties
  <2> QED
    BY <1>1, <1>2, <2>1, <2>3
<1>5. ASSUME NEW m, TakeStep(m), m.id = id PROVE G
  BY <1>1, <1>5 DEF TakeStep, Holding, Live, LiveThen
<1>6. ASSUME NEW n, NEW k, FlushStep(Hash(id), n, k), s[Hash(id)].id = id PROVE G
  <2>1. cut[id] = 0
    BY <1>6, Workings, NotCut
  <2>2. PICK g \in Seq(Unit) : Written(id, g)
    <3>1. n \in 0..Len(Waiting(s[Hash(id)])) /\ Written(id, SubSeq(Waiting(s[Hash(id)]), 1, n))
      BY <1>6 DEF FlushStep
    <3>2. PICK q \in Seq(Unit) : q = Waiting(s[Hash(id)])
      BY IdSlot, WaitingTypes DEF IInv
    <3>3. SubSeq(q, 1, n) \in Seq(Unit)
      BY <3>1, <3>2, Split
    <3> QED
      BY <3>1, <3>2, <3>3
  <2>3. Len(wire'[id]) \in Nat
    <3>1. PICK w \in Seq(Unit) : w = wire[id] /\ wire'[id] = w \o g
      BY <1>2, <2>2 DEF Written
    <3> QED
      BY <3>1, Concat, LenProperties
  <2>4. \/ cut' = cut
        \/ cut' = [cut EXCEPT ![id] = Len(wire'[id])] /\ st'.pc = "closing" /\ st'.i = Hash(id)
    BY <1>6 DEF FlushStep
  <2> QED
    BY <1>2, <2>1, <2>3, <2>4
<1>7. ASSUME cut' = [cut EXCEPT ![id] = Len(wire[id])], wire' = wire, st'.pc = "closing", st'.i = Hash(id) PROVE G
  BY <1>2, <1>7
<1>8. ASSUME LoseStep(Hash(id)), s[Hash(id)].id = id PROVE G
  BY <1>7, <1>8 DEF LoseStep
<1>9. ASSUME NEW how, CutStep(Hash(id), how), s[Hash(id)].id = id PROVE G
  BY <1>7, <1>9 DEF CutStep
<1>10. ASSUME NEW t, NewStep(id, t) PROVE G
  <2>1. wire[id] = <<>> /\ wire' = wire /\ cut' = cut
    BY <1>10, NewFlow
  <2>2. cut[id] = 0
    BY <1>1, <1>2, <2>1, NoUnits
  <2> QED
    BY <1>1, <2>1, <2>2
<1> QED
  BY <1>0, <1>3, <1>4, <1>5, <1>6, <1>8, <1>9, <1>10 DEF FlowKind

LEMMA FlowStub ==
  ASSUME NEW f, NEW w \in Seq(Unit), NEW x, x.dw \in Seq(Unit), x.high \in Seq(Unit), x.low \in Seq(Unit),
         Pieces(w, x), Ordered(f, w, x)
  PROVE  Stub(w) /\ Sorted(f, w)
<1>1. PICK a \in Seq(Unit), u \in Seq(Unit) : a = x.dw \o x.high /\ u = Waiting(x)
  <2>1. PICK d \in Seq(Unit), h \in Seq(Unit), l \in Seq(Unit) : d = x.dw /\ h = x.high /\ l = x.low
    OBVIOUS
  <2>2. PICK b \in Seq(Unit) : b = d \o h
    BY Concat
  <2>3. PICK c \in Seq(Unit) : c = b \o l
    BY Concat
  <2> QED
    BY <2>1, <2>2, <2>3, Zenon DEF Waiting
<1>2. PICK c, e : c = w \o a /\ e = w \o u
  OBVIOUS
<1>3. Whole(c) /\ Sorted(f, e)
  BY <1>1, <1>2, Zenon DEF Pieces, Ordered
<1> QED
  BY <1>2, <1>3, WholeStub, SortedConcat

IntactThen(id) == Stub(Seen(wire'[id], cut'[id])) /\ Sorted(sent', Seen(wire'[id], cut'[id]))

\* What was written and counts stays intact while the stream is as it was.
LEMMA IntactStays ==
  ASSUME IInv, Owned, Move, NEW id \in Id, Intact(id), cut[id] \in Nat, cut[id] <= Len(wire[id]), NEW q,
         q = Seen(wire[id], cut[id])
  PROVE  Stub(q) /\ Sorted(sent', q)
<1>1. PICK w \in Seq(Unit) : w = wire[id]
  BY DEF IInv, TypeOK
<1>2. q \in Seq(Unit) /\ \A u : Member(q, u) => Member(w, u)
  <2>1. CASE cut[id] = 0
    BY <1>1, <2>1 DEF Seen
  <2>2. CASE cut[id] # 0
    <3>1. PICK n \in 0..Len(w) : n = cut[id] /\ q = SubSeq(w, 1, n)
      BY <1>1, <2>2, LenProperties DEF Seen
    <3>2. PICK b \in Seq(Unit), c \in Seq(Unit) : b = SubSeq(w, 1, n) /\ w = b \o c
      BY Split
    <3>3. \A u : Member(b \o c, u) <=> Member(b, u) \/ Member(c, u)
      BY ConcatMember
    <3> QED
      BY <3>1, <3>2, <3>3
  <2> QED
    BY <2>1, <2>2
<1>3. \A u \in Unit : Member(q, u) => Given(u)
  BY <1>1, <1>2, HeldIsGiven
<1>4. Stub(q) /\ Sorted(sent, q)
  BY DEF Intact
<1>5. PICK x \in Seq(Unit) : x = q
  BY <1>2
<1> QED
  BY <1>3, <1>4, <1>5, SortedKept

LEMMA WholeSeen ==
  ASSUME NEW w \in Seq(Unit)
  PROVE  Seen(w, Len(w)) = w /\ Seen(w, 0) = w
<1>1. Len(w) \in 0..Len(w) /\ Len(w) \in Nat
  BY LenProperties
<1>2. PICK x \in Seq(Unit) : x = SubSeq(w, 1, Len(w)) /\ Len(x) = Len(w) /\ \A k \in 1..Len(w) : x[k] = w[k]
  BY <1>1, Split
<1>3. x = w
  BY <1>2, SeqEqual
<1> QED
  BY <1>2, <1>3 DEF Seen

LEMMA IntactNext ==
  ASSUME IInv, Owned, Home, Orderly, Move, NEW id \in Id, wire'[id] \in Seq(Unit), s'[Hash(id)] \in Socket
  PROVE  IntactThen(id)
<1>0. FlowKind(id)
  BY FlowKinds
<1>1. /\ Intact(id) /\ cut[id] \in Nat /\ cut[id] <= Len(wire[id]) /\ wire[id] \in Seq(Unit) /\ cut \in [Id -> Nat]
  BY DEF IInv, TypeOK, Orderly, CutOff
<1>2. ASSUME FlowsThen(id), cut'[id] = 0 \/ cut'[id] = Len(wire'[id]) PROVE IntactThen(id)
  <2>1. s'[Hash(id)].dw \in Seq(Unit) /\ s'[Hash(id)].high \in Seq(Unit) /\ s'[Hash(id)].low \in Seq(Unit)
    BY DEF Socket
  <2>2. Stub(wire'[id]) /\ Sorted(sent', wire'[id])
    BY <1>2, <2>1, FlowStub DEF FlowsThen
  <2>3. Seen(wire'[id], cut'[id]) = wire'[id]
    BY <1>2, WholeSeen
  <2> QED
    BY <2>2, <2>3 DEF IntactThen
<1>3. ASSUME Seen(wire'[id], cut'[id]) = Seen(wire[id], cut[id]) PROVE IntactThen(id)
  BY <1>1, <1>3, IntactStays DEF IntactThen
<1>4. CASE LiveThen(id) /\ cut'[id] = 0
  BY <1>2, <1>4, FlowNext
<1>5. CASE Calm(id)
  BY <1>3, <1>5 DEF Calm
<1>6. ASSUME NEW v \in Service, NEW n, WriteStep(v, n), at[v].id = id, cut'[id] # 0 PROVE IntactThen(id)
  <2>1. cut' = cut
    BY <1>6, WriterLive
  <2>2. n \in 0..2 /\ at[v].p \in Service \X Nat /\ Written(id, SubSeq(Units(at[v].p), 1, n))
    BY <1>6, PlaceFacts DEF WriteStep, IInv, WithPackage
  <2>3. PICK q \in Seq(Unit) : q = Units(at[v].p) /\ Len(q) = 2
    BY <2>2, UnitsOf
  <2>4. PICK g \in Seq(Unit) : g = SubSeq(q, 1, n)
    BY <2>2, <2>3, Split
  <2>5. PICK w \in Seq(Unit) : w = wire[id] /\ wire'[id] = w \o g
    BY <1>1, <2>2, <2>3, <2>4 DEF Written
  <2>6. Seen(w \o g, cut[id]) = Seen(w, cut[id])
    BY <1>1, <1>6, <2>1, <2>5, WrittenLen
  <2> QED
    BY <1>3, <2>1, <2>5, <2>6
<1>7. ASSUME NEW m, TakeStep(m) PROVE IntactThen(id)
  BY <1>3, <1>7 DEF TakeStep
<1>8. ASSUME NEW n, NEW k, FlushStep(Hash(id), n, k), s[Hash(id)].id = id PROVE IntactThen(id)
  <2>1. cut[id] = 0 /\ Flows(id)
    BY <1>8, Workings, NotCut
  <2>2. FlowsThen(id)
    BY <1>8, <2>1, FlushFlow
  <2>3. cut' = cut \/ cut' = [cut EXCEPT ![id] = Len(wire'[id])]
    BY <1>8 DEF FlushStep
  <2> QED
    BY <1>1, <1>2, <2>1, <2>2, <2>3
<1>9. ASSUME cut' = [cut EXCEPT ![id] = Len(wire[id])], wire' = wire, Live(id), st.pc # "closing" PROVE IntactThen(id)
  <2>1. cut[id] = 0
    BY <1>9, NotCut
  <2>2. Seen(wire'[id], cut'[id]) = wire[id] /\ Seen(wire[id], cut[id]) = wire[id]
    BY <1>1, <1>9, <2>1, WholeSeen
  <2> QED
    BY <1>3, <2>2
<1>10. ASSUME LoseStep(Hash(id)), s[Hash(id)].id = id PROVE IntactThen(id)
  BY <1>9, <1>10, Workings DEF LoseStep
<1>11. ASSUME NEW how, CutStep(Hash(id), how), s[Hash(id)].id = id PROVE IntactThen(id)
  BY <1>9, <1>11, Workings DEF CutStep
<1>12. ASSUME NEW t, NewStep(id, t) PROVE IntactThen(id)
  BY <1>3, <1>12, NewFlow
<1>13. ASSUME NEW v \in Service, NEW n, WriteStep(v, n), at[v].id = id PROVE IntactThen(id)
  BY <1>4, <1>6, <1>13, WriterLive
<1> QED
  BY <1>0, <1>5, <1>7, <1>8, <1>10, <1>11, <1>12, <1>13 DEF FlowKind

LEMMA CutType ==
  ASSUME IInv, Orderly, Move, wire' \in [Id -> Seq(Unit)]
  PROVE  cut' \in [Id -> Nat]
<1>0. cut \in [Id -> Nat] /\ wire \in [Id -> Seq(Unit)]
  BY DEF Orderly, IInv, TypeOK
<1>1. \A id \in Id : Len(wire[id]) \in Nat /\ Len(wire'[id]) \in Nat
  BY <1>0, LenProperties
<1>2. ASSUME NEW v \in Service, ServiceMove(v) PROVE cut' = cut
  BY <1>2 DEF ServiceMove, StayStep, ReserveStep, FillStep, AskStep, CloseStep, PostStep, SendStep, WriteStep, Frame
<1>3. ASSUME ThreadMove
      PROVE  cut' = cut \/ \E id \in Id : cut' = [cut EXCEPT ![id] = Len(wire[id])] \/ cut' = [cut EXCEPT ![id] = Len(wire'[id])]
  <2>1. ASSUME NEW i, EndStep(i) \/ HalfStep(i) \/ ConnectStep(i) PROVE cut' = cut
    BY <2>1 DEF EndStep, HalfStep, ConnectStep, Frame
  <2>2. ASSUME NEW r, FailStep(r) \/ HangStep(r) \/ TakeStep(r) PROVE cut' = cut
    BY <2>2 DEF FailStep, HangStep, TakeStep, Frame
  <2>3. ASSUME NEW id, StartStep(id) \/ \E t : NewStep(id, t) PROVE cut' = cut
    BY <2>3 DEF StartStep, NewStep, Frame
  <2>4. StayStep => cut' = cut
    BY DEF StayStep, Frame
  <2>5. ASSUME NEW i, NEW how, LoseStep(i) \/ CutStep(i, how) PROVE \E id \in Id : cut' = [cut EXCEPT ![id] = Len(wire[id])]
    BY <2>5 DEF LoseStep, CutStep
  <2>6. ASSUME NEW i, NEW n, NEW k, FlushStep(i, n, k)
        PROVE  cut' = cut \/ \E id \in Id : cut' = [cut EXCEPT ![id] = Len(wire'[id])]
    BY <2>6 DEF FlushStep
  <2> QED
    BY <1>3, <2>1, <2>2, <2>3, <2>4, <2>5, <2>6 DEF ThreadMove
<1> QED
  BY <1>0, <1>1, <1>2, <1>3 DEF Move

LEMMA OrderlyNext ==
  ASSUME IInv, TypeOK', Owned, Home, Orderly, lim' = lim, Move
  PROVE  Orderly'
<1>1. Slot' = Slot /\ Id' = Id /\ \A id : Hash(id)' = Hash(id)
  BY GeometryKept
<1>2. wire' \in [Id -> Seq(Unit)] /\ s' \in [Slot -> Socket]
  BY <1>1 DEF TypeOK
<1>3. cut' \in [Id -> Nat]
  BY <1>2, CutType
<1>4. ASSUME NEW id \in Id PROVE (Live(id)' <=> LiveThen(id)) /\ (FlowsThen(id) => Flows(id)')
  <2>1. Live(id)' <=> LiveThen(id)
    BY <1>1 DEF Live, LiveThen
  <2>2. Pieces(wire'[id], s'[Hash(id)]) => Pieces(wire[id], s[Hash(id)])'
    BY <1>1 DEF Pieces, Whole
  <2>3. Ordered(sent', wire'[id], s'[Hash(id)]) => Ordered(sent, wire[id], s[Hash(id)])'
    <3>1. Hash(id)' = Hash(id)
      BY <1>1
    <3>2. (wire[id] \o Waiting(s[Hash(id)]))' = wire'[id] \o Waiting(s'[Hash(id)])
      BY <3>1 DEF Waiting
    <3>3. Sorted(sent', wire'[id] \o Waiting(s'[Hash(id)])) => Sorted(sent, wire[id] \o Waiting(s[Hash(id)]))'
      BY <3>2, Zenon DEF Sorted, Ord
    <3> QED
      BY <3>3 DEF Ordered
  <2>4. Later(sent', pipe', id, wire'[id], s'[Hash(id)]) => Later(sent, pipe, id, wire[id], s[Hash(id)])'
    BY <1>1 DEF Later, Ord, Waiting, Member, Request
  <2>5. Writer(at', id, wire'[id], s'[Hash(id)]) => Writer(at, id, wire[id], s[Hash(id)])'
    BY <1>1 DEF Writer, Whole, Waiting, Member
  <2> QED
    BY <2>1, <2>2, <2>3, <2>4, <2>5 DEF Flows, FlowsThen
<1>5. ASSUME NEW id \in Id PROVE ((Live(id) /\ cut[id] = 0 => Flows(id)) /\ Lone(id) /\ CutOff(id) /\ Intact(id))'
  <2>1. (Live(id) /\ cut[id] = 0 => Flows(id))'
    BY <1>4, FlowNext
  <2>2. Lone(id)'
    <3>1. LiveThen(id) => LoneIn(at', pipe', id)
      BY LoneNext
    <3> QED
      BY <1>4, <3>1 DEF Lone, LoneIn, Member
  <2>3. CutOff(id)'
    BY <1>1, <1>4, CutNext DEF CutOff
  <2>4. Intact(id)'
    <3>1. wire'[id] \in Seq(Unit) /\ s'[Hash(id)] \in Socket
      BY <1>2, IdSlot
    <3>2. IntactThen(id)
      BY <3>1, IntactNext
    <3> QED
      BY <3>2 DEF Intact, IntactThen, Stub, Sorted, Ord, Seen
  <2> QED
    BY <2>1, <2>2, <2>3, <2>4
<1> QED
  BY <1>1, <1>3, <1>5 DEF Orderly

LEMMA InitOrderly ==
  ASSUME Init
  PROVE  Orderly
<1>1. cut \in [Id -> Nat]
  BY DEF Init
<1>2. ASSUME NEW id \in Id PROVE ~Live(id) /\ wire[id] = <<>> /\ cut[id] = 0
  <2>1. Hash(id) \in Slot
    BY InitIInv, IdSlot
  <2> QED
    BY <2>1 DEF Init, Live, Closed
<1>3. Len(<<>>) = 0 /\ DOMAIN <<>> = {}
  BY NoUnits
<1> QED
  BY <1>1, <1>2, <1>3 DEF Orderly, Lone, CutOff, Intact, Seen, Stub, Sorted

LEMMA Order == Spec => []Orderly
<1>1. Init => Orderly
  BY InitOrderly
<1>2. IInv /\ IInv' /\ Owned /\ Home /\ Orderly /\ [Next]_vars => Orderly'
  <2> SUFFICES ASSUME IInv, IInv', Owned, Home, Orderly, [Next]_vars PROVE Orderly'
    OBVIOUS
  <2>1. lim' = lim /\ Move
    BY LimitsKept, EveryMove
  <2> QED
    BY <2>1, OrderlyNext DEF IInv
<1> QED
  BY <1>1, <1>2, Invariance, Ownership, Homes, PTL DEF Spec

\* What a peer receives, until its connection is taken down, is a sequence of whole
\* packages, those of one service and one priority in the order in which it sent
\* them: a direct write never overtakes what waits in the socket or in the pipe,
\* nor does it fall between the parts of a package that send_buffer has begun.
THEOREM StreamsIntact == Spec => []WireIntact
<1>1. Orderly => WireIntact
  <2> SUFFICES ASSUME \A id \in Id : Intact(id) PROVE WireIntact
    BY DEF Orderly
  <2> SUFFICES ASSUME NEW id \in Id
               PROVE  LET w == IF cut[id] = 0 THEN wire[id] ELSE SubSeq(wire[id], 1, cut[id])
                          prio(k) == sent[w[k][1][1]][w[k][1][2]].prio
                      IN  /\ \A k \in DOMAIN w : w[k][2] = 2 => k > 1 /\ w[k - 1] = <<w[k][1], 1>>
                          /\ \A k \in DOMAIN w : w[k][2] = 1 /\ k < Len(w) => w[k + 1] = <<w[k][1], 2>>
                          /\ \A j, k \in DOMAIN w :
                                j < k /\ w[j][1][1] = w[k][1][1] /\ prio(j) = prio(k) => w[j][1][2] <= w[k][1][2]
    BY Zenon DEF WireIntact
  <2> DEFINE w == IF cut[id] = 0 THEN wire[id] ELSE SubSeq(wire[id], 1, cut[id])
  <2>1. Stub(w) /\ Sorted(sent, w)
    BY DEF Intact, Seen
  <2> HIDE DEF w
  <2>2. /\ \A k \in DOMAIN w : w[k][2] = 2 => k > 1 /\ w[k - 1] = <<w[k][1], 1>>
        /\ \A k \in DOMAIN w : w[k][2] = 1 /\ k < Len(w) => w[k + 1] = <<w[k][1], 2>>
    BY <2>1, Zenon DEF Stub
  <2>3. \A j, k \in DOMAIN w :
           /\ j < k /\ w[j][1][1] = w[k][1][1]
           /\ sent[w[j][1][1]][w[j][1][2]].prio = sent[w[k][1][1]][w[k][1][2]].prio
           => w[j][1][2] <= w[k][1][2]
    BY <2>1, Zenon DEF Sorted, Ord
  <2> QED
    BY <2>2, <2>3, Zenon DEF w
<1> QED
  BY <1>1, Order, PTL
=============================================================================
