------------------------- MODULE SocketServerProofs -------------------------
(***************************************************************************)
(* Proofs about the socket server, for any services, slots, ids and        *)
(* packages: the count of requests under way of a slot is exact, so that   *)
(* the assertion of dec_sending_ref never fails, and a connection that has *)
(* ended is neither written to nor reported open, although services write  *)
(* to sockets on their own and slots are used again.                       *)
(***************************************************************************)
EXTENDS SocketServer, SequenceTheorems, FiniteSetTheorems, WellFoundedInduction, TLAPS

-----------------------------------------------------------------------------
(* The inductive invariant *)

Opening == {"O", "L", "B"}
Sending == {"D", "P"}
Closed == {"INVALID", "RESERVE"}
WithPackage == {"look", "check", "check2", "ref", "push"}

Unit == (Service \X Nat) \X {1, 2}
Socket ==
    [type : Closed \cup {"CONNECTING", "CONNECTED", "HALFCLOSE", "PLISTEN", "LISTEN", "PACCEPT", "BIND"},
     id : Nat, protocol : {"UNKNOWN", "TCP"}, tag : Nat, sending : Int,
     high : Seq(Unit), low : Seq(Unit), dw : Seq(Unit),
     lock : Service \cup {Nobody, Thread}, in : BOOLEAN, out : BOOLEAN]
Request ==
    [c : Opening \cup {"S"}, id : Nat]
      \cup [c : {"K"}, id : Nat, shutdown : BOOLEAN]
      \cup [c : Sending, id : Nat, p : Service \X Nat]
Place ==
    [pc : {"idle"}]
      \cup [pc : {"fill"}, c : Opening, id : Nat]
      \cup [pc : WithPackage, id : Nat, p : Service \X Nat]
Package == [id : Nat, prio : {"high", "low"}, open : BOOLEAN]
AtSlot == {"send", "recheck", "closing"}
ThreadPlace ==
    [pc : {"loop", "first", "aborted"}]
      \cup [pc : {"clear"}, id : Nat]
      \cup [pc : {"recheck"}, i : Nat, shutdown : BOOLEAN]
      \cup [pc : {"send"}, i : Nat, shutdown : BOOLEAN, clear : BOOLEAN]
      \cup [pc : {"closing"}, i : Nat, how : {"cut", "drained"}, clear : BOOLEAN]

TypeOK ==
    /\ lim \in Limits
    /\ alloc_id \in 0..lim.id
    /\ s \in [Slot -> Socket]
    /\ pipe \in Seq(Request)
    /\ at \in [Service -> Place]
    /\ st \in ThreadPlace
    /\ wire \in [Id -> Seq(Unit)] /\ room \in [Id -> 0..2]
    /\ told \in [Id -> {"none", "listen", "listening", "accept", "open", "end"}]
    /\ ended \in [Id -> {"no", "cut", "drained"}]
    /\ sent \in [Service -> Seq(Package)]

Member(q, x) == \E k \in DOMAIN q : q[k] = x

\* Ids come from alloc_id; nothing is known of one that it has not reached.
Ids ==
    /\ \A i \in Slot : s[i].id <= alloc_id
    /\ \A r \in Request : Member(pipe, r) => r.id \in 1..alloc_id
    /\ \A v \in Service : at[v].pc # "idle" => at[v].id \in 1..alloc_id
    /\ \A id \in Id : id > alloc_id => told[id] = "none" /\ ended[id] = "no"

\* A socket that is open is in the slot of its id, and has not ended.
Slots ==
    /\ \A i \in Slot, id \in Nat : s[i].protocol = "TCP" /\ s[i].id = id => s[i].tag = id /\ Hash(id) = i
    /\ \A i \in Slot : s[i].type \notin Closed => s[i].protocol = "TCP"
    /\ \A i \in Slot, id \in Nat : s[i].type \notin Closed /\ s[i].id = id =>
          id \in Id /\ Hash(id) = i /\ ended[id] = "no"

\* The request that makes a socket comes before all others for its id.
First(q) == \A j, k \in DOMAIN q : q[k].c \in Opening /\ q[j].id = q[k].id => k <= j

\* A service has been told more of id than that it will listen.
Known(id) == told[id] \notin {"none", "listen"}
Reserved(i, id) == s[i].type = "RESERVE" /\ s[i].id = id /\ s[i].protocol = "UNKNOWN"

\* A request that makes a socket finds its slot, and nobody has been told of it.
Opens ==
    /\ First(pipe)
    /\ \A r \in Request : Member(pipe, r) /\ r.c \in Opening =>
          Reserved(Hash(r.id), r.id) /\ ~Known(r.id) /\ ended[r.id] = "no"

\* A slot that was taken and not filled in belongs to one service and one id.
Fills ==
    \A v \in Service, id \in Nat : at[v].pc = "fill" /\ at[v].id = id =>
        /\ s[Hash(id)].type = "RESERVE"
        /\ told[id] = "none" /\ ended[id] = "no"
        /\ \A r \in Request : Member(pipe, r) => r.id # id /\ (r.c \in Opening => Hash(r.id) # Hash(id))
        /\ \A w \in Service, e \in Nat : at[w].pc = "fill" /\ at[w].id = e /\ Hash(e) = Hash(id) => w = v

\* Packages are for ids that services know; the end of one is told.
Told ==
    /\ \A r \in Request : Member(pipe, r) /\ r.c \in Sending => Known(r.id)
    /\ \A v \in Service : at[v].pc \in WithPackage => Known(at[v].id)
    /\ \A id \in Id : ended[id] # "no" => told[id] = "end"

\* A direct write has the lock of an open socket, after the second look of its own.
Locks ==
    \A v \in Service, id \in Nat : at[v].pc \in {"check", "check2"} /\ at[v].id = id =>
        /\ s[Hash(id)].lock = v /\ s[Hash(id)].type \notin Closed
        /\ at[v].pc = "check2" => s[Hash(id)].id = id

\* The socket thread works on an open socket, and writes with its lock.
AtWork ==
    /\ st.pc \in AtSlot => st.i \in Slot /\ s[st.i].type \notin Closed
    /\ st.pc = "send" => s[st.i].lock = Thread

\* Requests for id that carry a package, and services that are about to make one
Coming(q, id) == {k \in DOMAIN q : q[k].c \in {"D", "P"} /\ q[k].id = id}
Pushing(f, id) == {v \in Service : f[v].pc = "push" /\ f[v].id = id}
Load(id) == Cardinality(Coming(pipe, id)) + Cardinality(Pushing(at, id))

\* The count of a slot is exact.
Counted ==
    \A i \in Slot, id \in Nat : s[i].protocol = "TCP" /\ s[i].id = id => s[i].sending = Load(id)

IInv == TypeOK /\ Ids /\ Slots /\ Opens /\ Fills /\ Told /\ Locks /\ AtWork /\ Counted

-----------------------------------------------------------------------------
(* Sequences and counts *)

LEMMA AppendPipe ==
  ASSUME NEW q \in Seq(Request), NEW e \in Request
  PROVE  /\ Append(q, e) \in Seq(Request)
         /\ \A x : Member(Append(q, e), x) <=> x = e \/ Member(q, x)
         /\ First(q) /\ (e.c \in Opening => \A x \in Request : Member(q, x) => x.id # e.id)
              => First(Append(q, e))
<1> DEFINE a == Append(q, e)
<1>1. a \in Seq(Request) /\ Len(a) = Len(q) + 1 /\ a[Len(q) + 1] = e /\ \A i \in 1..Len(q) : a[i] = q[i]
  BY AppendProperties
<1>2. Len(q) \in Nat /\ DOMAIN q = 1..Len(q) /\ DOMAIN a = 1..(Len(q) + 1) /\ \A i \in DOMAIN q : q[i] \in Request
  BY <1>1, LenProperties, ElementOfSeq
<1> HIDE DEF a
<1>3. ASSUME NEW x PROVE Member(a, x) <=> x = e \/ Member(q, x)
  BY <1>1, <1>2 DEF Member
<1>4. ASSUME First(q), e.c \in Opening => \A x \in Request : Member(q, x) => x.id # e.id PROVE First(a)
  <2> SUFFICES ASSUME NEW j \in DOMAIN a, NEW k \in DOMAIN a, a[k].c \in Opening, a[j].id = a[k].id
               PROVE  k <= j
    BY DEF First
  <2>1. CASE j \in DOMAIN q /\ k \in DOMAIN q
    BY <1>1, <1>2, <1>4, <2>1 DEF First
  <2>2. CASE j \notin DOMAIN q
    BY <1>2, <2>2
  <2>3. CASE j \in DOMAIN q /\ k \notin DOMAIN q
    BY <1>1, <1>2, <1>4, <2>3 DEF Member
  <2> QED
    BY <2>1, <2>2, <2>3
<1> QED
  BY <1>1, <1>3, <1>4 DEF a

LEMMA TailPipe ==
  ASSUME NEW q \in Seq(Request), q # <<>>
  PROVE  /\ Head(q) \in Request /\ Tail(q) \in Seq(Request)
         /\ \A x : Member(q, x) <=> x = Head(q) \/ Member(Tail(q), x)
         /\ First(q) => /\ First(Tail(q))
                        /\ \A x : Member(Tail(q), x) /\ x.c \in Opening => x.id # Head(q).id
<1> DEFINE a == Tail(q)
<1>1. /\ Head(q) \in Request /\ a \in Seq(Request) /\ Len(a) = Len(q) - 1 /\ Head(q) = q[1]
      /\ \A i \in 1..Len(a) : a[i] = q[i + 1]
  BY HeadTailProperties
<1>2. Len(q) \in Nat \ {0} /\ DOMAIN q = 1..Len(q) /\ DOMAIN a = 1..(Len(q) - 1)
  BY <1>1, LenProperties, EmptySeq
<1> HIDE DEF a
<1>3. ASSUME NEW i \in DOMAIN q, i # 1 PROVE i - 1 \in DOMAIN a /\ a[i - 1] = q[i]
  BY <1>1, <1>2, <1>3
<1>4. ASSUME NEW i \in DOMAIN a PROVE i + 1 \in DOMAIN q /\ a[i] = q[i + 1] /\ i \in Nat \ {0}
  BY <1>1, <1>2, <1>4
<1>5. 1 \in DOMAIN q
  BY <1>2
<1>6. ASSUME NEW x PROVE Member(q, x) <=> x = Head(q) \/ Member(a, x)
  <2>1. ASSUME Member(q, x), x # Head(q) PROVE Member(a, x)
    BY <1>1, <1>3, <2>1 DEF Member
  <2>2. Member(a, x) => Member(q, x)
    BY <1>4 DEF Member
  <2>3. Member(q, Head(q))
    BY <1>1, <1>5 DEF Member
  <2> QED
    BY <2>1, <2>2, <2>3
<1>7. ASSUME First(q) PROVE First(a)
  <2> SUFFICES ASSUME NEW j \in DOMAIN a, NEW k \in DOMAIN a, a[k].c \in Opening, a[j].id = a[k].id
               PROVE  k <= j
    BY DEF First
  <2>1. k + 1 <= j + 1
    BY <1>4, <1>7 DEF First
  <2> QED
    BY <1>4, <2>1
<1>8. ASSUME First(q), NEW x, Member(a, x), x.c \in Opening PROVE x.id # Head(q).id
  <2>1. PICK k \in DOMAIN a : a[k] = x
    BY <1>8 DEF Member
  <2>2. ~(k + 1 <= 1)
    BY <1>4
  <2> QED
    BY <1>1, <1>4, <1>5, <1>8, <2>1, <2>2 DEF First
<1> QED
  BY <1>1, <1>6, <1>7, <1>8 DEF a

LEMMA ComingFinite ==
  ASSUME NEW q \in Seq(Request), NEW id
  PROVE  IsFiniteSet(Coming(q, id)) /\ Cardinality(Coming(q, id)) \in Nat
<1>1. Len(q) \in Nat /\ DOMAIN q = 1..Len(q)
  BY LenProperties
<1>2. IsFiniteSet(1..Len(q))
  BY <1>1, FS_Interval
<1>3. Coming(q, id) \in SUBSET (1..Len(q))
  BY <1>1 DEF Coming
<1> QED
  BY <1>2, <1>3, FS_Subset, FS_CardinalityType

LEMMA ComingNone ==
  ASSUME NEW q \in Seq(Request), NEW id, \A r \in Request : Member(q, r) /\ r.c \in Sending => r.id # id
  PROVE  Cardinality(Coming(q, id)) = 0
<1>1. DOMAIN q = 1..Len(q) /\ \A k \in DOMAIN q : q[k] \in Request
  BY LenProperties, ElementOfSeq
<1>2. Coming(q, id) = {}
  BY <1>1 DEF Coming, Member, Sending
<1> QED
  BY <1>2, FS_EmptySet

LEMMA ComingAppend ==
  ASSUME NEW q \in Seq(Request), NEW e \in Request, NEW id
  PROVE  Cardinality(Coming(Append(q, e), id)) =
            Cardinality(Coming(q, id)) + IF e.c \in Sending /\ e.id = id THEN 1 ELSE 0
<1> DEFINE a == Append(q, e)
<1>1. a \in Seq(Request) /\ Len(a) = Len(q) + 1 /\ a[Len(q) + 1] = e /\ \A i \in 1..Len(q) : a[i] = q[i]
  BY AppendProperties
<1>2. Len(q) \in Nat /\ DOMAIN q = 1..Len(q) /\ DOMAIN a = 1..(Len(q) + 1) /\ Len(q) + 1 \notin DOMAIN q
  BY <1>1, LenProperties
<1>3. IsFiniteSet(Coming(q, id)) /\ Cardinality(Coming(q, id)) \in Nat /\ Len(q) + 1 \notin Coming(q, id)
  BY <1>2, ComingFinite DEF Coming
<1> HIDE DEF a
<1>4. CASE e.c \in Sending /\ e.id = id
  <2>1. Coming(a, id) = Coming(q, id) \cup {Len(q) + 1}
    BY <1>1, <1>2, <1>4 DEF Coming, Sending
  <2>2. Cardinality(Coming(a, id)) = Cardinality(Coming(q, id)) + 1
    BY <1>3, <2>1, FS_AddElement
  <2> QED
    BY <1>4, <2>2 DEF a
<1>5. CASE ~(e.c \in Sending /\ e.id = id)
  <2>1. Coming(a, id) = Coming(q, id)
    BY <1>1, <1>2, <1>5 DEF Coming, Sending
  <2> QED
    BY <1>3, <1>5, <2>1 DEF a
<1> QED
  BY <1>4, <1>5

LEMMA ComingTail ==
  ASSUME NEW q \in Seq(Request), q # <<>>, NEW id
  PROVE  Cardinality(Coming(q, id)) =
            Cardinality(Coming(Tail(q), id)) + IF Head(q).c \in Sending /\ Head(q).id = id THEN 1 ELSE 0
<1> DEFINE a == Tail(q)
           S == Coming(a, id)
           T == Coming(q, id) \ {1}
           f == [k \in S |-> k + 1]
<1>1. /\ a \in Seq(Request) /\ Len(a) = Len(q) - 1 /\ Head(q) = q[1]
      /\ \A i \in 1..Len(a) : a[i] = q[i + 1]
  BY HeadTailProperties
<1>2. Len(q) \in Nat \ {0} /\ DOMAIN q = 1..Len(q) /\ DOMAIN a = 1..(Len(q) - 1)
  BY <1>1, LenProperties, EmptySeq
<1>3. IsFiniteSet(S) /\ Cardinality(S) \in Nat /\ IsFiniteSet(Coming(q, id)) /\ Cardinality(Coming(q, id)) \in Nat
  BY <1>1, ComingFinite
<1> HIDE DEF a
<1>4. ASSUME NEW k \in S PROVE k \in Nat /\ k + 1 \in T
  BY <1>1, <1>2 DEF Coming
<1>5. ASSUME NEW k \in T PROVE k \in Nat /\ k - 1 \in S
  <2>1. k \in Nat /\ k - 1 \in 1..(Len(q) - 1) /\ k - 1 \in 1..Len(a) /\ (k - 1) + 1 = k
    BY <1>1, <1>2 DEF Coming
  <2>2. a[k - 1] = q[k]
    BY <1>1, <2>1
  <2> QED
    BY <1>2, <2>1, <2>2 DEF Coming
<1> HIDE DEF S, T
<1>6. f \in Bijection(S, T)
  <2>1. f \in [S -> T] /\ \A k \in S : f[k] = k + 1
    BY <1>4
  <2>2. \A j, k \in S : f[j] = f[k] => j = k
    BY <1>4, <2>1
  <2>3. \A t \in T : \E k \in S : f[k] = t
    BY <1>5, <2>1
  <2> HIDE DEF f
  <2> QED
    BY <2>1, <2>2, <2>3 DEF Bijection, Injection, Surjection, IsInjective
<1>7. Cardinality(T) = Cardinality(S)
  BY <1>3, <1>6, FS_Bijection DEF ExistsBijection
<1>8. Cardinality(T) = IF 1 \in Coming(q, id) THEN Cardinality(Coming(q, id)) - 1 ELSE Cardinality(Coming(q, id))
  BY <1>3, FS_RemoveElement DEF T
<1>9. 1 \in Coming(q, id) <=> Head(q).c \in Sending /\ Head(q).id = id
  BY <1>1, <1>2 DEF Coming, Sending
<1> QED
  BY <1>3, <1>7, <1>8, <1>9 DEF S, a

LEMMA PushingFinite ==
  ASSUME NEW f, NEW id
  PROVE  IsFiniteSet(Pushing(f, id)) /\ Cardinality(Pushing(f, id)) \in Nat
<1>1. Pushing(f, id) \in SUBSET Service
  BY DEF Pushing
<1> QED
  BY <1>1, ServiceAssumption, FS_Subset, FS_CardinalityType

\* Only v moves.
LEMMA PushingStep ==
  ASSUME NEW f, NEW g, NEW v \in Service, \A w \in Service : w # v => g[w] = f[w], NEW id,
         (f[v].pc = "push" /\ f[v].id = id) <=> (g[v].pc = "push" /\ g[v].id = id)
  PROVE  Cardinality(Pushing(g, id)) = Cardinality(Pushing(f, id))
<1>1. Pushing(g, id) = Pushing(f, id)
  BY DEF Pushing
<1> QED
  BY <1>1

LEMMA PushingMore ==
  ASSUME NEW f, NEW g, NEW v \in Service, \A w \in Service : w # v => g[w] = f[w],
         f[v].pc # "push", g[v].pc = "push"
  PROVE  Cardinality(Pushing(g, g[v].id)) = Cardinality(Pushing(f, g[v].id)) + 1
<1>1. Pushing(g, g[v].id) = Pushing(f, g[v].id) \cup {v} /\ v \notin Pushing(f, g[v].id)
  BY DEF Pushing
<1>2. IsFiniteSet(Pushing(f, g[v].id))
  BY PushingFinite
<1> QED
  BY <1>1, <1>2, FS_AddElement

LEMMA PushingLess ==
  ASSUME NEW f, NEW g, NEW v \in Service, \A w \in Service : w # v => g[w] = f[w],
         f[v].pc = "push", g[v].pc # "push"
  PROVE  Cardinality(Pushing(f, f[v].id)) = Cardinality(Pushing(g, f[v].id)) + 1
BY PushingMore

-----------------------------------------------------------------------------
(* What a step does to a slot *)

SlotType == Closed \cup {"CONNECTING", "CONNECTED", "HALFCLOSE", "PLISTEN", "LISTEN", "PACCEPT", "BIND"}

LEMMA Geometry ==
  ASSUME TypeOK
  PROVE  /\ lim.id \in Nat /\ lim.socket \in Nat \ {0} /\ Slot \subseteq Nat
         /\ \A id \in Nat : Hash(id) \in Slot
         /\ \A id \in Nat : id \in Id <=> id \in 1..lim.id
<1>1. lim.id \in Nat /\ lim.socket \in Nat \ {0}
  BY LimitsAssumption DEF TypeOK
<1>2. ASSUME NEW id \in Nat PROVE id % lim.socket \in 0..lim.socket - 1
  BY <1>1
<1> QED
  BY <1>1, <1>2 DEF Slot, Hash, Id

\* Of what slot i becomes, the fields the invariant speaks about
Becomes(i, type, id, protocol, tag, sending, lock) ==
    /\ s' \in [Slot -> Socket]
    /\ s'[i].type = type /\ s'[i].id = id /\ s'[i].protocol = protocol
    /\ s'[i].tag = tag /\ s'[i].sending = sending /\ s'[i].lock = lock
    /\ \A j \in Slot : j # i => s'[j] = s[j]
Keeps(i) == Becomes(i, s[i].type, s[i].id, s[i].protocol, s[i].tag, s[i].sending, s[i].lock)

LEMMA PutSocket ==
  ASSUME TypeOK, NEW i \in Slot, NEW y \in Socket, s' = [s EXCEPT ![i] = y]
  PROVE  Becomes(i, y.type, y.id, y.protocol, y.tag, y.sending, y.lock)
BY DEF TypeOK, Becomes

LEMMA FieldUpdates ==
  ASSUME TypeOK, NEW i \in Slot
  PROVE  /\ \A t \in SlotType : s' = [s EXCEPT ![i].type = t] =>
               Becomes(i, t, s[i].id, s[i].protocol, s[i].tag, s[i].sending, s[i].lock)
         /\ \A l \in Service \cup {Nobody, Thread} : s' = [s EXCEPT ![i].lock = l] =>
               Becomes(i, s[i].type, s[i].id, s[i].protocol, s[i].tag, s[i].sending, l)
         /\ \A n \in Int : s' = [s EXCEPT ![i].sending = n] =>
               Becomes(i, s[i].type, s[i].id, s[i].protocol, s[i].tag, n, s[i].lock)
         /\ \A id \in Nat : s' = [s EXCEPT ![i].id = id, ![i].protocol = "UNKNOWN"] =>
               Becomes(i, s[i].type, id, "UNKNOWN", s[i].tag, s[i].sending, s[i].lock)
         /\ \A l \in Service \cup {Nobody, Thread}, q \in Seq(Unit), b \in BOOLEAN :
               s' = [s EXCEPT ![i].lock = l, ![i].dw = q, ![i].out = b] =>
               Becomes(i, s[i].type, s[i].id, s[i].protocol, s[i].tag, s[i].sending, l)
         /\ \A t \in SlotType, b \in BOOLEAN : s' = [s EXCEPT ![i].in = b, ![i].type = t] =>
               Becomes(i, t, s[i].id, s[i].protocol, s[i].tag, s[i].sending, s[i].lock)
         /\ \A t \in SlotType, b \in BOOLEAN : s' = [s EXCEPT ![i].type = t, ![i].out = b] =>
               Becomes(i, t, s[i].id, s[i].protocol, s[i].tag, s[i].sending, s[i].lock)
<1>1. s[i] \in Socket
  BY DEF TypeOK
<1>2. ASSUME NEW t \in SlotType, s' = [s EXCEPT ![i].type = t]
      PROVE  Becomes(i, t, s[i].id, s[i].protocol, s[i].tag, s[i].sending, s[i].lock)
  <2> DEFINE y == [s[i] EXCEPT !.type = t]
  <2>1. y \in Socket /\ y.type = t /\ y.id = s[i].id /\ y.protocol = s[i].protocol /\ y.tag = s[i].tag
        /\ y.sending = s[i].sending /\ y.lock = s[i].lock
    BY <1>1 DEF Socket, SlotType
  <2>2. s' = [s EXCEPT ![i] = y]
    BY <1>2 DEF TypeOK
  <2> HIDE DEF y
  <2> QED
    BY <2>1, <2>2, PutSocket
<1>3. ASSUME NEW l \in Service \cup {Nobody, Thread}, s' = [s EXCEPT ![i].lock = l]
      PROVE  Becomes(i, s[i].type, s[i].id, s[i].protocol, s[i].tag, s[i].sending, l)
  <2> DEFINE y == [s[i] EXCEPT !.lock = l]
  <2>1. y \in Socket /\ y.type = s[i].type /\ y.id = s[i].id /\ y.protocol = s[i].protocol /\ y.tag = s[i].tag
        /\ y.sending = s[i].sending /\ y.lock = l
    BY <1>1 DEF Socket
  <2>2. s' = [s EXCEPT ![i] = y]
    BY <1>3 DEF TypeOK
  <2> HIDE DEF y
  <2> QED
    BY <2>1, <2>2, PutSocket
<1>4. ASSUME NEW n \in Int, s' = [s EXCEPT ![i].sending = n]
      PROVE  Becomes(i, s[i].type, s[i].id, s[i].protocol, s[i].tag, n, s[i].lock)
  <2> DEFINE y == [s[i] EXCEPT !.sending = n]
  <2>1. y \in Socket /\ y.type = s[i].type /\ y.id = s[i].id /\ y.protocol = s[i].protocol /\ y.tag = s[i].tag
        /\ y.sending = n /\ y.lock = s[i].lock
    BY <1>1 DEF Socket
  <2>2. s' = [s EXCEPT ![i] = y]
    BY <1>4 DEF TypeOK
  <2> HIDE DEF y
  <2> QED
    BY <2>1, <2>2, PutSocket
<1>5. ASSUME NEW id \in Nat, s' = [s EXCEPT ![i].id = id, ![i].protocol = "UNKNOWN"]
      PROVE  Becomes(i, s[i].type, id, "UNKNOWN", s[i].tag, s[i].sending, s[i].lock)
  <2> DEFINE y == [s[i] EXCEPT !.id = id, !.protocol = "UNKNOWN"]
  <2>1. y \in Socket /\ y.type = s[i].type /\ y.id = id /\ y.protocol = "UNKNOWN" /\ y.tag = s[i].tag
        /\ y.sending = s[i].sending /\ y.lock = s[i].lock
    BY <1>1 DEF Socket
  <2>2. s' = [s EXCEPT ![i] = y]
    BY <1>1, <1>5 DEF TypeOK
  <2> HIDE DEF y
  <2> QED
    BY <2>1, <2>2, PutSocket
<1>6. ASSUME NEW l \in Service \cup {Nobody, Thread}, NEW q \in Seq(Unit), NEW b \in BOOLEAN,
             s' = [s EXCEPT ![i].lock = l, ![i].dw = q, ![i].out = b]
      PROVE  Becomes(i, s[i].type, s[i].id, s[i].protocol, s[i].tag, s[i].sending, l)
  <2> DEFINE y == [s[i] EXCEPT !.lock = l, !.dw = q, !.out = b]
  <2>1. y \in Socket /\ y.type = s[i].type /\ y.id = s[i].id /\ y.protocol = s[i].protocol /\ y.tag = s[i].tag
        /\ y.sending = s[i].sending /\ y.lock = l
    BY <1>1 DEF Socket
  <2>2. s' = [s EXCEPT ![i] = y]
    BY <1>1, <1>6 DEF TypeOK
  <2> HIDE DEF y
  <2> QED
    BY <2>1, <2>2, PutSocket
<1>7. ASSUME NEW t \in SlotType, NEW b \in BOOLEAN, s' = [s EXCEPT ![i].in = b, ![i].type = t]
      PROVE  Becomes(i, t, s[i].id, s[i].protocol, s[i].tag, s[i].sending, s[i].lock)
  <2> DEFINE y == [s[i] EXCEPT !.in = b, !.type = t]
  <2>1. y \in Socket /\ y.type = t /\ y.id = s[i].id /\ y.protocol = s[i].protocol /\ y.tag = s[i].tag
        /\ y.sending = s[i].sending /\ y.lock = s[i].lock
    BY <1>1 DEF Socket, SlotType
  <2>2. s' = [s EXCEPT ![i] = y]
    BY <1>1, <1>7 DEF TypeOK
  <2> HIDE DEF y
  <2> QED
    BY <2>1, <2>2, PutSocket
<1>8. ASSUME NEW t \in SlotType, NEW b \in BOOLEAN, s' = [s EXCEPT ![i].type = t, ![i].out = b]
      PROVE  Becomes(i, t, s[i].id, s[i].protocol, s[i].tag, s[i].sending, s[i].lock)
  <2> DEFINE y == [s[i] EXCEPT !.type = t, !.out = b]
  <2>1. y \in Socket /\ y.type = t /\ y.id = s[i].id /\ y.protocol = s[i].protocol /\ y.tag = s[i].tag
        /\ y.sending = s[i].sending /\ y.lock = s[i].lock
    BY <1>1 DEF Socket, SlotType
  <2>2. s' = [s EXCEPT ![i] = y]
    BY <1>1, <1>8 DEF TypeOK
  <2> HIDE DEF y
  <2> QED
    BY <2>1, <2>2, PutSocket
<1> QED
  BY <1>2, <1>3, <1>4, <1>5, <1>6, <1>7, <1>8

LEMMA NewFdView ==
  ASSUME TypeOK, NEW id \in Nat, NEW t \in SlotType, NEW b \in BOOLEAN, NEW d \in BOOLEAN, NewFd(id, t, b, d)
  PROVE  Becomes(Hash(id), t, id, "TCP", id, 0, s[Hash(id)].lock)
<1>1. PICK i \in Slot : i = Hash(id)
  BY Geometry
<1>2. s[i] \in Socket /\ <<>> \in Seq(Unit)
  BY EmptySeq DEF TypeOK
<1> DEFINE x == [s[i] EXCEPT !.type = t, !.id = id, !.protocol = "TCP", !.tag = id]
           z == [x EXCEPT !.sending = 0]
           y == [z EXCEPT !.dw = <<>>, !.in = b, !.out = d]
<1>4. s' = [s EXCEPT ![i] = y]
  BY <1>1 DEF NewFd
<1>5. x \in Socket /\ x.type = t /\ x.id = id /\ x.protocol = "TCP" /\ x.tag = id /\ x.lock = s[i].lock
  BY <1>2 DEF Socket, SlotType
<1> HIDE DEF x
<1>6. 0 \in Int
  OBVIOUS
<1>7. z \in Socket /\ z.type = t /\ z.id = id /\ z.protocol = "TCP" /\ z.tag = id /\ z.sending = 0
      /\ z.lock = s[i].lock
  BY <1>5, <1>6 DEF Socket
<1> HIDE DEF z
<1>3. y \in Socket /\ y.type = t /\ y.id = id /\ y.protocol = "TCP" /\ y.tag = id /\ y.sending = 0
      /\ y.lock = s[i].lock
  BY <1>2, <1>7 DEF Socket
<1> HIDE DEF y
<1> QED
  BY <1>1, <1>3, <1>4, PutSocket

LEMMA BeginCloseView ==
  ASSUME TypeOK, NEW i \in Slot, NEW how, NEW clear, BeginClose(i, how, clear)
  PROVE  Keeps(i)
<1>1. s[i] \in Socket /\ <<>> \in Seq(Unit)
  BY EmptySeq DEF TypeOK
<1> DEFINE y == [s[i] EXCEPT !.high = <<>>, !.low = <<>>, !.in = FALSE, !.out = FALSE]
<1>2. y \in Socket /\ y.type = s[i].type /\ y.id = s[i].id /\ y.protocol = s[i].protocol /\ y.tag = s[i].tag
      /\ y.sending = s[i].sending /\ y.lock = s[i].lock
  BY <1>1 DEF Socket
<1>3. s' = [s EXCEPT ![i] = y]
  BY <1>1 DEF BeginClose, TypeOK
<1> HIDE DEF y
<1> QED
  BY <1>2, <1>3, PutSocket DEF Keeps

LEMMA EndCloseView ==
  ASSUME TypeOK, st.i \in Slot, EndClose
  PROVE  LET x == s[st.i] IN Becomes(st.i, "INVALID", x.id, x.protocol, x.tag, x.sending, Nobody)
<1>1. PICK i \in Slot : i = st.i
  OBVIOUS
<1>2. s[i] \in Socket /\ <<>> \in Seq(Unit)
  BY EmptySeq DEF TypeOK
<1> DEFINE y == [s[i] EXCEPT !.type = "INVALID", !.dw = <<>>, !.lock = Nobody]
<1>3. y \in Socket /\ y.type = "INVALID" /\ y.id = s[i].id /\ y.protocol = s[i].protocol /\ y.tag = s[i].tag
      /\ y.sending = s[i].sending /\ y.lock = Nobody
  BY <1>2 DEF Socket, Closed
<1>4. s' = [s EXCEPT ![i] = y]
  BY <1>1, <1>2 DEF EndClose, TypeOK
<1> HIDE DEF y
<1> QED
  BY <1>1, <1>3, <1>4, PutSocket

LEMMA PackageUnits ==
  ASSUME NEW p \in Service \X Nat
  PROVE  Units(p) \in Seq(Unit) /\ Len(Units(p)) = 2
<1>1. <<p, 1>> \in Unit /\ <<p, 2>> \in Unit
  BY DEF Unit
<1> QED
  BY <1>1 DEF Units

LEMMA AppendBufferView ==
  ASSUME NEW x \in Socket, NEW c, NEW p \in Service \X Nat
  PROVE  LET y == AppendBuffer(x, c, p) IN
         y \in Socket /\ y.type = x.type /\ y.id = x.id /\ y.protocol = x.protocol /\ y.tag = x.tag
         /\ y.sending = x.sending /\ y.lock = x.lock
<1>1. Units(p) \in Seq(Unit) /\ x.high \in Seq(Unit) /\ x.low \in Seq(Unit)
  BY PackageUnits DEF Socket
<1>2. x.high \o Units(p) \in Seq(Unit) /\ x.low \o Units(p) \in Seq(Unit)
  BY <1>1, ConcatProperties
<1>3. PICK h \in Seq(Unit), l \in Seq(Unit), u \in Seq(Unit) :
         h = x.high \o Units(p) /\ l = x.low \o Units(p) /\ u = Units(p)
  BY <1>1, <1>2
<1>4. AppendBuffer(x, c, p) = [x EXCEPT !.high = u, !.out = x.in]
      \/ AppendBuffer(x, c, p) = [x EXCEPT !.high = h] \/ AppendBuffer(x, c, p) = [x EXCEPT !.low = l]
  BY <1>3 DEF AppendBuffer
<1>5. x.in \in BOOLEAN
  BY DEF Socket
<1> QED
  BY <1>3, <1>4, <1>5 DEF Socket

LEMMA SendSocketView ==
  ASSUME TypeOK, NEW c \in Sending, SendSocket(c)
  PROVE  /\ pipe # <<>> /\ Head(pipe) \in Request /\ Head(pipe).c = c /\ Head(pipe).id \in Nat
         /\ Head(pipe).p \in Service \X Nat
         /\ LET m == Head(pipe)
                x == s[Hash(m.id)]
            IN  Becomes(Hash(m.id), x.type, x.id, x.protocol, x.tag,
                        IF x.id = m.id /\ x.protocol = "TCP" THEN x.sending - 1 ELSE x.sending, x.lock)
<1>1. pipe # <<>> /\ Head(pipe).c = c /\ Head(pipe) \in Request
  BY TailPipe DEF SendSocket, Cmd, TypeOK
<1>2. PICK m \in Request : m = Head(pipe)
  BY <1>1
<1>3. m.p \in Service \X Nat /\ m.id \in Nat /\ m.c = c
  BY <1>1, <1>2 DEF Request, Sending, Opening
<1>4. PICK i \in Slot : i = Hash(m.id)
  BY <1>3, Geometry
<1>5. s[i] \in Socket
  BY DEF TypeOK
<1>6. PICK x \in Socket :
         /\ x.type = s[i].type /\ x.id = s[i].id /\ x.protocol = s[i].protocol /\ x.tag = s[i].tag
         /\ x.sending = s[i].sending /\ x.lock = s[i].lock
         /\ s' = [s EXCEPT ![i] = IF x.id = m.id /\ x.protocol = "TCP" THEN [x EXCEPT !.sending = @ - 1] ELSE x]
  <2>1. CASE Gone(m.id) \/ s[i].type \in {"HALFCLOSE", "PACCEPT", "PLISTEN", "LISTEN"}
    BY <1>2, <1>4, <1>5, <2>1 DEF SendSocket
  <2>2. CASE ~(Gone(m.id) \/ s[i].type \in {"HALFCLOSE", "PACCEPT", "PLISTEN", "LISTEN"})
    <3>1. PICK x : x = AppendBuffer(s[i], c, m.p)
      OBVIOUS
    <3>2. s' = [s EXCEPT ![i] = IF x.id = m.id /\ x.protocol = "TCP" THEN [x EXCEPT !.sending = @ - 1] ELSE x]
      BY <1>2, <1>4, <2>2, <3>1 DEF SendSocket
    <3>3. /\ x \in Socket /\ x.type = s[i].type /\ x.id = s[i].id /\ x.protocol = s[i].protocol
          /\ x.tag = s[i].tag /\ x.sending = s[i].sending /\ x.lock = s[i].lock
      BY <1>3, <1>5, <3>1, AppendBufferView
    <3> QED
      BY <3>2, <3>3
  <2> QED
    BY <2>1, <2>2
<1>7. CASE x.id = m.id /\ x.protocol = "TCP"
  <2>4. x.sending \in Int
    BY DEF Socket
  <2>5. PICK n \in Int : n = x.sending - 1
    BY <2>4
  <2> DEFINE y == [x EXCEPT !.sending = n]
  <2>1. y \in Socket /\ y.type = x.type /\ y.id = x.id /\ y.protocol = x.protocol /\ y.tag = x.tag
        /\ y.sending = n /\ y.lock = x.lock
    BY DEF Socket
  <2>2. s' = [s EXCEPT ![i] = y]
    BY <1>6, <1>7, <2>5
  <2> HIDE DEF y
  <2>3. Becomes(i, y.type, y.id, y.protocol, y.tag, y.sending, y.lock)
    BY <2>1, <2>2, PutSocket
  <2> QED
    BY <1>1, <1>2, <1>3, <1>4, <1>6, <1>7, <2>1, <2>3, <2>5
<1>8. CASE ~(x.id = m.id /\ x.protocol = "TCP")
  <2>1. s' = [s EXCEPT ![i] = x]
    BY <1>6, <1>8
  <2>2. Becomes(i, x.type, x.id, x.protocol, x.tag, x.sending, x.lock)
    BY <2>1, PutSocket
  <2> QED
    BY <1>1, <1>2, <1>3, <1>4, <1>6, <1>8, <2>2
<1> QED
  BY <1>7, <1>8

LEMMA TakesType ==
  ASSUME TypeOK, NEW id \in Id, NEW q \in Seq(Unit)
  PROVE  Takes(id, q) \in 0..Len(q) /\ Takes(id, q) <= room[id]
<1>1. Len(q) \in Nat /\ room[id] \in 0..2
  BY LenProperties DEF TypeOK
<1>2. ASSUME NEW m \in Nat, NEW n \in Nat PROVE Min({m, n}) \in Nat /\ Min({m, n}) <= m /\ Min({m, n}) <= n
  <2>1. \E x \in {m, n} : \A y \in {m, n} : x <= y
    OBVIOUS
  <2>2. Min({m, n}) \in {m, n} /\ \A y \in {m, n} : Min({m, n}) <= y
    BY <2>1 DEF Min
  <2> QED
    BY <2>2
<1> QED
  BY <1>1, <1>2 DEF Takes

LEMMA WriteView ==
  ASSUME TypeOK, NEW id \in Id, NEW q \in Seq(Unit), NEW n \in 0..Len(q), n <= room[id], Write(id, q, n)
  PROVE  /\ wire' \in [Id -> Seq(Unit)] /\ room' \in [Id -> 0..2]
         /\ \A e \in Id : e # id => wire'[e] = wire[e]
<1>1. Len(q) \in Nat /\ q \in [1..Len(q) -> Unit] /\ room[id] \in 0..2 /\ wire[id] \in Seq(Unit)
  BY LenProperties DEF TypeOK
<1>2. SubSeq(q, 1, n) \in Seq(Unit)
  <2>1. \A k \in 1..n : q[k] \in Unit
    BY <1>1
  <2> QED
    BY <1>1, <2>1, SubSeqProperties
<1>3. wire[id] \o SubSeq(q, 1, n) \in Seq(Unit)
  BY <1>1, <1>2, ConcatProperties
<1>4. room[id] - n \in 0..2
  BY <1>1
<1>5. PICK w \in Seq(Unit), m \in 0..2 : w = wire[id] \o SubSeq(q, 1, n) /\ m = room[id] - n
  BY <1>3, <1>4
<1>6. wire' = [wire EXCEPT ![id] = w] /\ room' = [room EXCEPT ![id] = m]
  BY <1>5 DEF Write
<1> QED
  BY <1>6 DEF TypeOK

LEMMA SendBufferView ==
  ASSUME TypeOK, st.i \in Slot, s[st.i].id \in Id, s[st.i].lock = Thread, SendBuffer
  PROVE  LET x == s[st.i] IN
         /\ \E l \in {Nobody, Thread} : Becomes(st.i, x.type, x.id, x.protocol, x.tag, x.sending, l)
         /\ \/ st' = Loop
            \/ st' = [pc |-> "recheck", i |-> st.i, shutdown |-> st.shutdown]
            \/ \E how \in {"cut", "drained"} : st' = [pc |-> "closing", i |-> st.i, how |-> how, clear |-> st.clear]
         /\ wire' \in [Id -> Seq(Unit)] /\ room' \in [Id -> 0..2]
         /\ \A e \in Id : e # x.id => wire'[e] = wire[e]
<1> DEFINE i == st.i
           x == s[i]
           high == x.dw \o x.high
           all == high \o x.low
           n == Takes(x.id, all)
           rest == SubSeq(all, n + 1, Len(all))
           keep == Len(high) - n
           raised == keep <= 0 /\ rest # <<>> /\ rest[1][2] = 2
           k == IF raised THEN 1 ELSE Max({keep, 0})
           h == SubSeq(rest, 1, k)
           l == SubSeq(rest, k + 1, Len(rest))
           left == [x EXCEPT !.dw = <<>>, !.high = h, !.low = l, !.out = @ /\ rest # <<>>, !.lock = Nobody]
           done == [left EXCEPT !.in = FALSE, !.lock = Thread]
           none == [x EXCEPT !.dw = <<>>, !.high = <<>>, !.low = <<>>, !.in = FALSE, !.out = FALSE]
           error == peer[x.id] = "rst" /\ all # <<>>
<1>1. IF error
        THEN /\ s' = [s EXCEPT ![i] = none]
             /\ st' = [pc |-> "closing", i |-> i, how |-> "cut", clear |-> st.clear]
             /\ UNCHANGED netVars
        ELSE /\ Write(x.id, all, n)
             /\ IF rest = <<>> /\ x.type = "HALFCLOSE"
                  THEN /\ s' = [s EXCEPT ![i] = done]
                       /\ st' = [pc |-> "closing", i |-> i, how |-> "drained", clear |-> st.clear]
                  ELSE /\ s' = [s EXCEPT ![i] = left]
                       /\ st' = IF st.clear THEN [pc |-> "recheck", i |-> i, shutdown |-> st.shutdown]
                                ELSE Loop
  BY Zenon DEF SendBuffer
<1>2. <<>> \in Seq(Unit) /\ Nobody \in Service \cup {Nobody, Thread} /\ Thread \in Service \cup {Nobody, Thread}
  BY EmptySeq
<1>3. x \in Socket /\ x.id \in Id /\ x.lock = Thread /\ i \in Slot
  BY DEF TypeOK
<1> HIDE DEF i, x
<1>4. x.dw \in Seq(Unit) /\ x.high \in Seq(Unit) /\ x.low \in Seq(Unit) /\ x.out \in BOOLEAN
  BY <1>3 DEF Socket
<1>5. none \in Socket /\ none.type = x.type /\ none.id = x.id /\ none.protocol = x.protocol /\ none.tag = x.tag
      /\ none.sending = x.sending /\ none.lock = Thread
  BY <1>2, <1>3 DEF Socket
<1> HIDE DEF none
<1>6. high \in Seq(Unit)
  BY <1>4, ConcatProperties
<1> HIDE DEF high
<1>7. all \in Seq(Unit) /\ Len(all) = Len(high) + Len(x.low)
  BY <1>4, <1>6, ConcatProperties
<1>8. Len(high) \in Nat /\ Len(x.low) \in Nat /\ Len(all) \in Nat
  BY <1>4, <1>6, <1>7, LenProperties
<1> HIDE DEF all
<1>9. n \in 0..Len(all) /\ n <= room[x.id]
  BY <1>3, <1>7, TakesType
<1> HIDE DEF n
<1>10. rest \in Seq(Unit) /\ Len(rest) = Len(all) - n
  <2>1. \A j \in n + 1..Len(all) : all[j] \in Unit
    BY <1>7, <1>8, <1>9, LenProperties
  <2>2. n + 1 \in Int /\ Len(all) \in Int
    BY <1>8, <1>9
  <2>3. rest \in Seq(Unit) /\ Len(rest) = IF n + 1 <= Len(all) THEN Len(all) - (n + 1) + 1 ELSE 0
    BY <2>1, <2>2, SubSeqProperties
  <2> HIDE DEF rest
  <2> QED
    BY <1>8, <1>9, <2>3
<1> HIDE DEF rest
<1>11. Len(rest) \in Nat /\ (\A j \in 1..Len(rest) : rest[j] \in Unit) /\ (rest # <<>> => Len(rest) \in Nat \ {0})
  BY <1>10, LenProperties, EmptySeq
<1>12. k \in 0..Len(rest)
  <2>1. CASE raised
    <3>1. k = 1
      BY <2>1
    <3> QED
      BY <1>11, <2>1, <3>1
  <2>2. CASE ~raised
    <3>1. keep \in Int /\ keep <= Len(rest)
      BY <1>7, <1>8, <1>9, <1>10
    <3>2. k = Max({keep, 0})
      BY <2>2
    <3> HIDE DEF k, keep
    <3>3. \E y \in {keep, 0} : \A z \in {keep, 0} : y >= z
      BY <3>1
    <3>4. k \in {keep, 0} /\ \A z \in {keep, 0} : k >= z
      BY <3>2, <3>3 DEF Max
    <3> QED
      BY <1>11, <3>1, <3>4
  <2> QED
    BY <2>1, <2>2
<1> HIDE DEF k
<1>13. h \in Seq(Unit) /\ l \in Seq(Unit)
  <2>1. (\A j \in 1..k : rest[j] \in Unit) /\ \A j \in k + 1..Len(rest) : rest[j] \in Unit
    BY <1>11, <1>12
  <2>2. 1 \in Int /\ k \in Int /\ k + 1 \in Int /\ Len(rest) \in Int
    BY <1>11, <1>12
  <2>3. h \in Seq(Unit)
    BY <2>1, <2>2, SubSeqProperties
  <2>4. l \in Seq(Unit)
    BY <2>1, <2>2, SubSeqProperties
  <2> QED
    BY <2>3, <2>4
<1> HIDE DEF h, l
<1>14. left \in Socket /\ left.type = x.type /\ left.id = x.id /\ left.protocol = x.protocol /\ left.tag = x.tag
       /\ left.sending = x.sending /\ left.lock = Nobody
  <2>1. PICK out \in BOOLEAN : out = (x.out /\ rest # <<>>)
    OBVIOUS
  <2>2. left = [x EXCEPT !.dw = <<>>, !.high = h, !.low = l, !.out = out, !.lock = Nobody]
    BY <2>1
  <2> HIDE DEF left
  <2> QED
    BY <1>2, <1>3, <1>13, <2>1, <2>2 DEF Socket
<1> HIDE DEF left
<1>15. done \in Socket /\ done.type = x.type /\ done.id = x.id /\ done.protocol = x.protocol /\ done.tag = x.tag
       /\ done.sending = x.sending /\ done.lock = Thread
  BY <1>2, <1>14 DEF Socket
<1> HIDE DEF done
<1>16. Write(x.id, all, n) => /\ wire' \in [Id -> Seq(Unit)] /\ room' \in [Id -> 0..2]
                              /\ \A e \in Id : e # x.id => wire'[e] = wire[e]
  BY <1>3, <1>7, <1>9, WriteView
<1>17. UNCHANGED netVars => /\ wire' \in [Id -> Seq(Unit)] /\ room' \in [Id -> 0..2]
                            /\ \A e \in Id : e # x.id => wire'[e] = wire[e]
  BY DEF netVars, TypeOK
<1>18. \A y \in Socket : s' = [s EXCEPT ![i] = y] => Becomes(i, y.type, y.id, y.protocol, y.tag, y.sending, y.lock)
  BY <1>3, PutSocket
<1>19. \E m \in {Nobody, Thread} : Becomes(i, x.type, x.id, x.protocol, x.tag, x.sending, m)
  BY <1>1, <1>5, <1>14, <1>15, <1>18
<1> HIDE DEF error
<1>20. /\ wire' \in [Id -> Seq(Unit)] /\ room' \in [Id -> 0..2]
       /\ \A e \in Id : e # x.id => wire'[e] = wire[e]
  BY <1>1, <1>16, <1>17
<1>21. \/ st' = Loop
       \/ st' = [pc |-> "recheck", i |-> i, shutdown |-> st.shutdown]
       \/ \E how \in {"cut", "drained"} : st' = [pc |-> "closing", i |-> i, how |-> how, clear |-> st.clear]
  BY <1>1
<1> QED
  BY <1>19, <1>20, <1>21 DEF i, x

-----------------------------------------------------------------------------
(* The kinds of steps, as far as the invariant is concerned *)

Steps(v, pc, id) ==
    /\ at' \in [Service -> Place]
    /\ at'[v].pc = pc /\ (pc # "idle" => at'[v].id = id)
    /\ \A w \in Service : w # v => at'[w] = at[w]
ToldOf(id) ==
    /\ told' \in [Id -> {"none", "listen", "listening", "accept", "open", "end"}]
    /\ \A e \in Id : e # id => told'[e] = told[e]
SetsType(id, t) ==
    LET x == s[Hash(id)] IN Becomes(Hash(id), t, x.id, x.protocol, x.tag, x.sending, x.lock)
SetsLock(id, l) ==
    LET x == s[Hash(id)] IN Becomes(Hash(id), x.type, x.id, x.protocol, x.tag, x.sending, l)
SetsCount(id, n) ==
    LET x == s[Hash(id)] IN Becomes(Hash(id), x.type, x.id, x.protocol, x.tag, n, x.lock)
Makes(id, t) ==
    t \in SlotType \ Closed /\ Becomes(Hash(id), t, id, "TCP", id, 0, s[Hash(id)].lock)
Takes1(r) == pipe # <<>> /\ r = Head(pipe) /\ r \in Request /\ pipe' = Tail(pipe)

Reserving(v, id) ==
    /\ at[v].pc = "idle" /\ id \in Id /\ id > alloc_id /\ s[Hash(id)].type = "INVALID"
    /\ alloc_id' = id /\ SetsType(id, "RESERVE") /\ Steps(v, "fill", id)
    /\ UNCHANGED <<pipe, st, told, ended>>
Filling(v, id, r) ==
    /\ at[v].pc = "fill" /\ at[v].id = id /\ r \in Request /\ r.c \in Opening /\ r.id = id
    /\ LET x == s[Hash(id)] IN Becomes(Hash(id), x.type, id, "UNKNOWN", x.tag, x.sending, x.lock)
    /\ pipe' = Append(pipe, r) /\ Steps(v, "idle", 0)
    /\ ToldOf(id) /\ told'[id] \in {told[id], "listen"}
    /\ UNCHANGED <<alloc_id, st, ended>>
Asking(r) ==
    /\ r \in Request /\ r.c \in {"S", "K"} /\ r.id \in Id /\ told[r.id] # "none"
    /\ pipe' = Append(pipe, r)
    /\ UNCHANGED <<alloc_id, s, at, st, told, ended>>
Packing(v, id) ==
    /\ at[v].pc = "idle" /\ id \in Id /\ Known(id)
    /\ Steps(v, "look", id) \/ Steps(v, "ref", id)
    /\ UNCHANGED <<alloc_id, s, pipe, st, told, ended>>
Locking(v, id) ==
    /\ at[v].pc = "look" /\ at[v].id = id /\ s[Hash(id)].lock = Nobody /\ s[Hash(id)].type = "CONNECTED"
    /\ SetsLock(id, v) /\ Steps(v, "check", id)
    /\ UNCHANGED <<alloc_id, pipe, st, told, ended>>
Going(v, id) ==
    /\ at[v].id = id
    /\ \/ at[v].pc = "look" /\ Steps(v, "ref", id)
       \/ at[v].pc = "check" /\ s[Hash(id)].id = id /\ Steps(v, "check2", id)
    /\ UNCHANGED <<alloc_id, s, pipe, st, told, ended>>
Unlocking(v, id) ==
    /\ at[v].pc \in {"check", "check2"} /\ at[v].id = id
    /\ SetsLock(id, Nobody) /\ (Steps(v, "ref", id) \/ Steps(v, "idle", 0))
    /\ UNCHANGED <<alloc_id, pipe, st, told, ended>>
Counting(v, id) ==
    /\ at[v].pc = "ref" /\ at[v].id = id
    /\ LET x == s[Hash(id)] IN
       SetsCount(id, IF x.protocol = "TCP" /\ x.tag = id THEN x.sending + 1 ELSE x.sending)
    /\ Steps(v, "push", id)
    /\ UNCHANGED <<alloc_id, pipe, st, told, ended>>
Posting(v, id, r) ==
    /\ at[v].pc = "push" /\ at[v].id = id /\ r \in Request /\ r.c \in Sending /\ r.id = id
    /\ pipe' = Append(pipe, r) /\ Steps(v, "idle", 0)
    /\ UNCHANGED <<alloc_id, s, st, told, ended>>

Opened(r, t) ==
    /\ Takes1(r) /\ r.c \in Opening /\ st = Loop
    /\ Makes(r.id, t) /\ ToldOf(r.id)
    /\ UNCHANGED <<alloc_id, at, st, ended>>
OpenFailed(r) ==
    /\ Takes1(r) /\ r.c \in Opening /\ st'.pc \notin AtSlot
    /\ SetsType(r.id, "INVALID") /\ ToldOf(r.id) /\ told'[r.id] = "end"
    /\ UNCHANGED <<alloc_id, at, ended>>
Dropping(r) ==
    /\ Takes1(r) /\ r.c \in Sending /\ st = Loop
    /\ LET x == s[Hash(r.id)] IN
       SetsCount(r.id, IF x.id = r.id /\ x.protocol = "TCP" THEN x.sending - 1 ELSE x.sending)
    /\ UNCHANGED <<alloc_id, at, st, told, ended>>
Ending(i, id) ==
    /\ st.pc = "closing" /\ st.i = i /\ s[i].id = id /\ s[i].lock \in {Nobody, Thread} /\ st'.pc \notin AtSlot
    /\ Becomes(i, "INVALID", id, s[i].protocol, s[i].tag, s[i].sending, Nobody)
    /\ ToldOf(id) /\ told'[id] = "end"
    /\ \A e \in Id : e # id => ended'[e] = ended[e]
    /\ UNCHANGED <<alloc_id, pipe, at>>
Accepting(id) ==
    /\ id \in Id /\ id > alloc_id /\ s[Hash(id)].type = "INVALID" /\ st'.pc \notin AtSlot
    /\ alloc_id' = id /\ Makes(id, "PACCEPT") /\ ToldOf(id) /\ told'[id] = "accept"
    /\ UNCHANGED <<pipe, at, ended>>

\* The socket thread works on an open socket, or on none: its type and its lock
\* may change, and services are told of it or of an id that is gone.
Reports(id) ==
    /\ ToldOf(id) /\ told'[id] \notin {"none", "listen"} /\ id <= alloc_id
    /\ ended[id] # "no" => told'[id] = "end"
    /\ \A v \in Service : at[v].pc = "fill" => at[v].id # id
    /\ \A r \in Request : Member(pipe', r) /\ r.c \in Opening => r.id # id
Working ==
    /\ UNCHANGED pipe \/ \E r \in Request : Takes1(r) /\ r.c \in {"S", "K"}
    /\ \/ UNCHANGED s
       \/ \E i \in Slot, t \in SlotType \ Closed, l \in Service \cup {Nobody, Thread} :
             /\ s[i].type \notin Closed /\ (l = s[i].lock \/ {l, s[i].lock} \subseteq {Nobody, Thread})
             /\ Becomes(i, t, s[i].id, s[i].protocol, s[i].tag, s[i].sending, l)
    /\ UNCHANGED told \/ \E id \in Id : Reports(id)
    /\ AtWork'
    /\ UNCHANGED <<alloc_id, at, ended>>

ServiceShape(v) ==
    \/ \E id \in Nat : \/ Reserving(v, id) \/ Packing(v, id) \/ Locking(v, id) \/ Going(v, id)
                       \/ Unlocking(v, id) \/ Counting(v, id)
                       \/ \E r \in Request : Filling(v, id, r) \/ Posting(v, id, r)
    \/ \E r \in Request : Asking(r)
    \/ Working
ThreadShape ==
    \/ \E r \in Request : OpenFailed(r) \/ Dropping(r) \/ \E t \in SlotType : Opened(r, t)
    \/ \E i \in Slot, id \in Nat : Ending(i, id)
    \/ \E id \in Nat : Accepting(id)
    \/ Working

LEMMA LimitsKept ==
  ASSUME [Next]_vars
  PROVE  lim' = lim
<1>1. ASSUME NEW v \in Service, Call(v) PROVE lim' = lim
  <2>1. ASSUME NEW c \in lim.open, Reserve(v, c) PROVE lim' = lim
    BY <2>1 DEF Reserve
  <2>2. ASSUME NEW id \in Id, Start(v, id) \/ \E b \in lim.shut : Close(v, id, b) PROVE lim' = lim
    BY <2>2 DEF Start, Close
  <2>3. ASSUME NEW id \in Id, NEW prio \in lim.prio, Send(v, id, prio) PROVE lim' = lim
    BY <2>3 DEF Send, serverVars
  <2> QED
    BY <1>1, <2>1, <2>2, <2>3 DEF Call
<1>2. ASSUME NEW v \in Service, ServiceStep(v) PROVE lim' = lim
  BY <1>2 DEF ServiceStep, OpenRequest, TryLock, Check, GiveUp, DirectWrite, IncSendingRef, SendRequest
<1>3. ASSUME ThreadStep PROVE lim' = lim
  <2>1. ASSUME \/ AbortNewFd \/ OpenSocket \/ ListenSocket \/ BindSocket \/ BindFails
               \/ StartSocket \/ StartFails \/ CloseSocket \/ HalfClose
        PROVE  lim' = lim
    BY <2>1 DEF AbortNewFd, OpenSocket, ListenSocket, BindSocket, BindFails, StartSocket, StartFails, CloseSocket, HalfClose
  <2>2. ASSUME \/ \E c \in {"D", "P"} : SendSocket(c)
               \/ EndClose \/ ClearClosedEvent \/ SendBuffer \/ NoCmd \/ Wait \/ SkipEvent \/ StaleEvent
        PROVE  lim' = lim
    BY <2>2 DEF SendSocket, EndClose, ClearClosedEvent, SendBuffer, NoCmd, Wait, SkipEvent, StaleEvent
  <2>3. ASSUME ReportConnect \/ ReportAccept \/ ReadEvent \/ WriteEvent \/ ErrorEvent PROVE lim' = lim
    BY <2>3 DEF ReportConnect, ReportAccept, ReadEvent, WriteEvent, ErrorEvent
  <2> QED
    BY <1>3, <2>1, <2>2, <2>3 DEF ThreadStep
<1>4. ASSUME NEW id \in Id, Connect(id) \/ Net(id) \/ Drain(id) PROVE lim' = lim
  BY <1>4 DEF Connect, Net, Drain, serverVars
<1>5. ASSUME UNCHANGED vars PROVE lim' = lim
  BY <1>5 DEF vars, serverVars
<1> QED
  BY <1>1, <1>2, <1>3, <1>4, <1>5 DEF Next

LEMMA GeometryKept ==
  ASSUME lim' = lim
  PROVE  (Slot' = Slot) /\ (Id' = Id) /\ (\A id : Hash(id)' = Hash(id))
BY DEF Slot, Id, Hash

LEMMA TypeKept ==
  ASSUME TypeOK, lim' = lim, alloc_id' \in 0..lim.id, s' \in [Slot -> Socket], pipe' \in Seq(Request),
         at' \in [Service -> Place], st' \in ThreadPlace, wire' \in [Id -> Seq(Unit)], room' \in [Id -> 0..2],
         told' \in [Id -> {"none", "listen", "listening", "accept", "open", "end"}],
         ended' \in [Id -> {"no", "cut", "drained"}], sent' \in [Service -> Seq(Package)]
  PROVE  TypeOK'
BY GeometryKept DEF TypeOK

\* A set of numbers that is not empty has a least one.
LEMMA Least ==
  ASSUME NEW S, S \subseteq Nat, S # {}
  PROVE  \E k \in S : \A j \in S : k <= j
<1>1. \E k \in S : \A j \in S : ~(<<j, k>> \in OpToRel(<, Nat))
  BY NatLessThanWellFounded, WFMin
<1>2. \A j, k \in Nat : <<j, k>> \in OpToRel(<, Nat) <=> j < k
  BY DEF OpToRel
<1>3. PICK k \in S : \A j \in S : ~(<<j, k>> \in OpToRel(<, Nat))
  BY <1>1
<1>4. ASSUME NEW j \in S PROVE k <= j
  <2>1. j \in Nat /\ k \in Nat
    OBVIOUS
  <2>2. ~(j < k)
    BY <1>2, <1>3, <2>1
  <2>. QED  BY <2>1, <2>2
<1>. QED  BY <1>4

LEMMA NextIdView ==
  ASSUME TypeOK, CanReserve
  PROVE  /\ NextId \in Nat /\ NextId \in Id /\ NextId > alloc_id /\ NextId \in 0..lim.id
         /\ s[Hash(NextId)].type = "INVALID"
<1>1. FreeTurns \subseteq Nat \ {0}
  BY DEF FreeTurns
<1>2. \E n \in FreeTurns : \A m \in FreeTurns : n <= m
  BY <1>1, Least DEF CanReserve
<1>3. Min(FreeTurns) \in FreeTurns
  BY <1>2 DEF Min
<1>4. PICK n \in Nat \ {0} : n = Min(FreeTurns) /\ s[Hash(alloc_id + n)].type = "INVALID"
  BY <1>1, <1>3 DEF FreeTurns
<1>5. alloc_id \in Nat /\ lim.id \in Nat
  BY Geometry DEF TypeOK
<1> QED
  BY <1>4, <1>5, Geometry DEF NextId, CanReserve

-----------------------------------------------------------------------------
(* Every step is of one of these kinds *)

LEMMA PlaceUpdates ==
  ASSUME TypeOK, NEW v \in Service
  PROVE  /\ at' = [at EXCEPT ![v] = Idle] => Steps(v, "idle", 0)
         /\ \A c \in Opening, id \in Nat :
               at' = [at EXCEPT ![v] = [pc |-> "fill", c |-> c, id |-> id]] => Steps(v, "fill", id)
         /\ \A pc \in WithPackage, id \in Nat, p \in Service \X Nat :
               at' = [at EXCEPT ![v] = [pc |-> pc, id |-> id, p |-> p]] => Steps(v, pc, id)
         /\ \A pc \in WithPackage : at[v].pc \in WithPackage /\ Go(v, pc) => Steps(v, pc, at[v].id)
<1>1. at[v] \in Place /\ at \in [Service -> Place]
  BY DEF TypeOK
<1>2. ASSUME NEW y \in Place, at' = [at EXCEPT ![v] = y]
      PROVE  /\ at' \in [Service -> Place] /\ at'[v] = y
             /\ \A w \in Service : w # v => at'[w] = at[w]
  BY <1>1, <1>2
<1>3. Idle \in Place /\ Idle.pc = "idle"
  BY DEF Idle, Place
<1>4. at' = [at EXCEPT ![v] = Idle] => Steps(v, "idle", 0)
  BY <1>2, <1>3 DEF Steps
<1>5. ASSUME NEW c \in Opening, NEW id \in Nat, at' = [at EXCEPT ![v] = [pc |-> "fill", c |-> c, id |-> id]]
      PROVE  Steps(v, "fill", id)
  <2>1. [pc |-> "fill", c |-> c, id |-> id] \in Place
    BY DEF Place
  <2> QED
    BY <1>2, <1>5, <2>1 DEF Steps
<1>6. ASSUME NEW pc \in WithPackage, NEW id \in Nat, NEW p \in Service \X Nat,
             at' = [at EXCEPT ![v] = [pc |-> pc, id |-> id, p |-> p]]
      PROVE  Steps(v, pc, id)
  <2>1. [pc |-> pc, id |-> id, p |-> p] \in Place
    BY DEF Place
  <2> QED
    BY <1>2, <1>6, <2>1 DEF Steps
<1>7. ASSUME NEW pc \in WithPackage, at[v].pc \in WithPackage, Go(v, pc)
      PROVE  Steps(v, pc, at[v].id)
  <2> DEFINE y == [at[v] EXCEPT !.pc = pc]
  <2>1. y \in Place /\ y.pc = pc /\ y.id = at[v].id
    BY <1>1, <1>7 DEF Place, WithPackage
  <2>2. at' = [at EXCEPT ![v] = y]
    BY <1>1, <1>7 DEF Go
  <2> HIDE DEF y
  <2> QED
    BY <1>2, <2>1, <2>2 DEF Steps
<1> QED
  BY <1>4, <1>5, <1>6, <1>7

LEMMA PlaceFacts ==
  ASSUME TypeOK, Ids, NEW v \in Service
  PROVE  /\ at[v] \in Place
         /\ at[v].pc = "fill" => at[v].c \in Opening /\ at[v].id \in Nat /\ at[v].id \in Id
         /\ at[v].pc \in WithPackage => at[v].id \in Nat /\ at[v].id \in Id /\ at[v].p \in Service \X Nat
         /\ at[v] = Idle => at[v].pc = "idle"
<1>1. at[v] \in Place
  BY DEF TypeOK
<1>2. at[v].pc = "fill" => at[v].c \in Opening /\ at[v].id \in Nat
  BY <1>1 DEF Place, WithPackage
<1>3. at[v].pc \in WithPackage => at[v].id \in Nat /\ at[v].p \in Service \X Nat
  BY <1>1 DEF Place, WithPackage
<1>4. at[v].pc # "idle" => at[v].id \in 1..alloc_id
  BY DEF Ids
<1>5. alloc_id \in 0..lim.id /\ lim.id \in Nat
  BY Geometry DEF TypeOK
<1>6. "fill" # "idle" /\ (at[v].pc \in WithPackage => at[v].pc # "idle")
  BY DEF WithPackage
<1> QED
  BY <1>1, <1>2, <1>3, <1>4, <1>5, <1>6 DEF Idle, Id

LEMMA CallShape ==
  ASSUME IInv, NEW v \in Service, Call(v), lim' = lim
  PROVE  TypeOK' /\ ServiceShape(v)
<1> USE DEF IInv
<1>1. /\ alloc_id \in 0..lim.id /\ s \in [Slot -> Socket] /\ pipe \in Seq(Request)
      /\ at \in [Service -> Place] /\ st \in ThreadPlace /\ wire \in [Id -> Seq(Unit)] /\ room \in [Id -> 0..2]
      /\ told \in [Id -> {"none", "listen", "listening", "accept", "open", "end"}]
      /\ ended \in [Id -> {"no", "cut", "drained"}] /\ sent \in [Service -> Seq(Package)]
  BY DEF TypeOK
<1>2. lim.open \subseteq Opening /\ lim.shut \subseteq BOOLEAN /\ lim.prio \subseteq {"high", "low"}
  BY LimitsAssumption DEF TypeOK, Opening
<1>3. \A id \in Id : id \in Nat
  BY DEF Id
<1>4. ASSUME NEW c \in lim.open, Reserve(v, c) PROVE TypeOK' /\ ServiceShape(v)
  <2>1. PICK n \in Nat : n = NextId /\ n \in Id /\ n > alloc_id /\ n \in 0..lim.id /\ s[Hash(n)].type = "INVALID"
    BY <1>4, NextIdView DEF Reserve
  <2>2. PICK i \in Slot : i = Hash(n)
    BY Geometry
  <2>3. /\ at[v].pc = "idle" /\ alloc_id' = n /\ s' = [s EXCEPT ![i].type = "RESERVE"]
        /\ at' = [at EXCEPT ![v] = [pc |-> "fill", c |-> c, id |-> n]]
        /\ UNCHANGED <<pipe, st, wire, room, told, ended, sent>>
    BY <1>4, <2>1, <2>2, PlaceFacts DEF Reserve, netVars, history
  <2>4. Becomes(i, "RESERVE", s[i].id, s[i].protocol, s[i].tag, s[i].sending, s[i].lock)
    BY <2>3, FieldUpdates DEF SlotType, Closed
  <2>5. Steps(v, "fill", n)
    BY <1>2, <2>3, PlaceUpdates
  <2>6. Reserving(v, n)
    BY <2>1, <2>2, <2>3, <2>4, <2>5 DEF Reserving, SetsType
  <2>7. TypeOK'
    BY <1>1, <2>1, <2>3, <2>4, <2>5, TypeKept DEF Becomes, Steps
  <2> QED
    BY <2>6, <2>7 DEF ServiceShape
<1>5. ASSUME NEW r \in Request, r.c \in {"S", "K"}, r.id \in Id, told[r.id] # "none", pipe' = Append(pipe, r),
             UNCHANGED <<s, alloc_id, at, st, wire, room, told, ended, sent>>
      PROVE  TypeOK' /\ ServiceShape(v)
  <2>1. pipe' \in Seq(Request)
    BY <1>1, <1>5, AppendPipe
  <2>2. TypeOK'
    BY <1>1, <1>5, <2>1, TypeKept
  <2>3. Asking(r)
    BY <1>5 DEF Asking
  <2> QED
    BY <2>2, <2>3 DEF ServiceShape
<1>6. ASSUME NEW id \in Id, Start(v, id) PROVE TypeOK' /\ ServiceShape(v)
  <2> DEFINE r == [c |-> "S", id |-> id]
  <2>1. r \in Request /\ r.c = "S" /\ r.id = id
    BY <1>3 DEF Request
  <2>2. told[id] # "none" /\ pipe' = Append(pipe, r) /\ UNCHANGED <<s, alloc_id, at, st, wire, room, told, ended, sent>>
    BY <1>6 DEF Start, netVars, history
  <2> HIDE DEF r
  <2> QED
    BY <1>5, <2>1, <2>2
<1>7. ASSUME NEW id \in Id, NEW b \in lim.shut, Close(v, id, b) PROVE TypeOK' /\ ServiceShape(v)
  <2> DEFINE r == [c |-> "K", id |-> id, shutdown |-> b]
  <2>1. r \in Request /\ r.c = "K" /\ r.id = id
    BY <1>2, <1>3 DEF Request
  <2>2. told[id] # "none" /\ pipe' = Append(pipe, r) /\ UNCHANGED <<s, alloc_id, at, st, wire, room, told, ended, sent>>
    BY <1>7 DEF Close, MayClose, netVars
  <2> HIDE DEF r
  <2> QED
    BY <1>5, <2>1, <2>2
<1>8. ASSUME NEW id \in Id, NEW prio \in lim.prio, Send(v, id, prio) PROVE TypeOK' /\ ServiceShape(v)
  <2> DEFINE p == <<v, Len(sent[v]) + 1>>
  <2>1. /\ UNCHANGED <<s, alloc_id, pipe, st, wire, room, told, ended>>
        /\ at[v] = Idle /\ told[id] \in {"open", "accept", "end"}
        /\ sent' = [sent EXCEPT ![v] = Append(@, [id |-> id, prio |-> prio, open |-> told[id] = "open"])]
        /\ \/ UNCHANGED at
           \/ \E pc \in {"look", "ref"} : at' = [at EXCEPT ![v] = [pc |-> pc, id |-> id, p |-> p]]
    BY <1>8 DEF Send, MaySend, serverVars, netVars
  <2>2. at[v].pc = "idle" /\ Known(id)
    BY <2>1, PlaceFacts DEF Known
  <2>5. sent' \in [Service -> Seq(Package)]
    <3>1. [id |-> id, prio |-> prio, open |-> told[id] = "open"] \in Package
      BY <1>2, <1>3 DEF Package
    <3>2. PICK m \in Package : m = [id |-> id, prio |-> prio, open |-> told[id] = "open"]
      BY <3>1
    <3>3. Append(sent[v], m) \in Seq(Package)
      BY <1>1, AppendProperties
    <3> QED
      BY <1>1, <2>1, <3>2, <3>3
  <2>3. CASE UNCHANGED at
    <3>1. TypeOK'
      BY <1>1, <2>1, <2>3, <2>5, TypeKept
    <3>2. AtWork'
      BY <2>1, GeometryKept DEF AtWork
    <3> QED
      BY <2>1, <2>3, <3>1, <3>2 DEF ServiceShape, Working
  <2>4. CASE \E pc \in {"look", "ref"} : at' = [at EXCEPT ![v] = [pc |-> pc, id |-> id, p |-> p]]
    <3>1. PICK pc \in {"look", "ref"} : at' = [at EXCEPT ![v] = [pc |-> pc, id |-> id, p |-> p]]
      BY <2>4
    <3>2. p \in Service \X Nat
      BY <1>1, LenProperties
    <3>3. pc \in WithPackage
      BY DEF WithPackage
    <3> HIDE DEF p
    <3>4. Steps(v, pc, id)
      BY <1>3, <3>1, <3>2, <3>3, PlaceUpdates
    <3>5. Packing(v, id)
      BY <2>1, <2>2, <3>4 DEF Packing
    <3>6. TypeOK'
      BY <1>1, <2>1, <2>5, <3>4, TypeKept DEF Steps
    <3> QED
      BY <1>3, <3>5, <3>6 DEF ServiceShape
  <2> QED
    BY <2>1, <2>3, <2>4
<1> QED
  BY <1>4, <1>6, <1>7, <1>8 DEF Call

LEMMA ServiceStepShape ==
  ASSUME IInv, NEW v \in Service, ServiceStep(v), lim' = lim
  PROVE  TypeOK' /\ ServiceShape(v)
<1> USE DEF IInv
<1>1. /\ alloc_id \in 0..lim.id /\ s \in [Slot -> Socket] /\ pipe \in Seq(Request)
      /\ at \in [Service -> Place] /\ st \in ThreadPlace /\ wire \in [Id -> Seq(Unit)] /\ room \in [Id -> 0..2]
      /\ told \in [Id -> {"none", "listen", "listening", "accept", "open", "end"}]
      /\ ended \in [Id -> {"no", "cut", "drained"}] /\ sent \in [Service -> Seq(Package)]
  BY DEF TypeOK
<1>2. /\ at[v].pc = "fill" => at[v].c \in Opening /\ at[v].id \in Nat /\ at[v].id \in Id
      /\ at[v].pc \in WithPackage => at[v].id \in Nat /\ at[v].id \in Id /\ at[v].p \in Service \X Nat
  BY PlaceFacts
<1>3. v \in Service \cup {Nobody, Thread} /\ Nobody \in Service \cup {Nobody, Thread}
  OBVIOUS
<1>4. ASSUME OpenRequest(v) PROVE TypeOK' /\ ServiceShape(v)
  <2>1. PICK id \in Nat : id = at[v].id /\ id \in Id /\ at[v].pc = "fill" /\ at[v].c \in Opening
    BY <1>2, <1>4 DEF OpenRequest
  <2>2. PICK i \in Slot : i = Hash(id)
    BY Geometry
  <2> DEFINE r == [c |-> at[v].c, id |-> id]
  <2>3. r \in Request /\ r.c \in Opening /\ r.id = id
    BY <2>1 DEF Request
  <2>4. /\ s' = [s EXCEPT ![i].id = id, ![i].protocol = "UNKNOWN"]
        /\ pipe' = Append(pipe, r) /\ at' = [at EXCEPT ![v] = Idle]
        /\ told' = [told EXCEPT ![id] = IF at[v].c = "L" THEN "listen" ELSE @]
        /\ UNCHANGED <<alloc_id, st, wire, room, ended, sent>>
    BY <1>4, <2>1, <2>2 DEF OpenRequest, netVars, history
  <2> HIDE DEF r
  <2>5. Becomes(i, s[i].type, id, "UNKNOWN", s[i].tag, s[i].sending, s[i].lock)
    BY <2>4, FieldUpdates
  <2>6. Steps(v, "idle", 0)
    BY <2>4, PlaceUpdates
  <2>7. pipe' \in Seq(Request)
    BY <1>1, <2>3, <2>4, AppendPipe
  <2>8. ToldOf(id) /\ told'[id] \in {told[id], "listen"}
    BY <1>1, <2>1, <2>4 DEF ToldOf
  <2>9. TypeOK'
    BY <1>1, <2>4, <2>5, <2>6, <2>7, <2>8, TypeKept DEF Becomes, Steps, ToldOf
  <2>10. Filling(v, id, r)
    BY <2>1, <2>2, <2>3, <2>4, <2>5, <2>6, <2>8 DEF Filling
  <2> QED
    BY <2>3, <2>9, <2>10 DEF ServiceShape
<1>5. ASSUME at[v].pc \in WithPackage PROVE \E id \in Nat, i \in Slot : id = at[v].id /\ i = Hash(id) /\ id \in Id
  BY <1>2, <1>5, Geometry
<1>6. ASSUME TryLock(v) PROVE TypeOK' /\ ServiceShape(v)
  <2>1. at[v].pc = "look" /\ at[v].pc \in WithPackage
    BY <1>6 DEF TryLock, WithPackage
  <2>2. PICK id \in Nat, i \in Slot : id = at[v].id /\ i = Hash(id)
    BY <1>5, <2>1
  <2>3. /\ \/ s[i].type = "CONNECTED" /\ s[i].lock = Nobody /\ s' = [s EXCEPT ![i].lock = v] /\ Go(v, "check")
           \/ UNCHANGED s /\ Go(v, "ref")
        /\ UNCHANGED <<alloc_id, pipe, st, wire, room, told, ended, sent>>
    BY <1>6, <2>2 DEF TryLock, NothingComing, netVars, history
  <2>4. CASE s[i].type = "CONNECTED" /\ s[i].lock = Nobody /\ s' = [s EXCEPT ![i].lock = v] /\ Go(v, "check")
    <3>1. Steps(v, "check", id)
      BY <2>1, <2>2, <2>4, PlaceUpdates DEF WithPackage
    <3>2. Becomes(i, s[i].type, s[i].id, s[i].protocol, s[i].tag, s[i].sending, v)
      BY <1>3, <2>4, FieldUpdates
    <3>3. Locking(v, id)
      BY <2>1, <2>2, <2>3, <2>4, <3>1, <3>2 DEF Locking, SetsLock
    <3>4. TypeOK'
      BY <1>1, <2>3, <3>1, <3>2, TypeKept DEF Becomes, Steps
    <3> QED
      BY <3>3, <3>4 DEF ServiceShape
  <2>5. CASE UNCHANGED s /\ Go(v, "ref")
    <3>1. Steps(v, "ref", id)
      BY <2>1, <2>2, <2>5, PlaceUpdates DEF WithPackage
    <3>2. Going(v, id)
      BY <2>1, <2>2, <2>3, <2>5, <3>1 DEF Going
    <3>3. TypeOK'
      BY <1>1, <2>3, <2>5, <3>1, TypeKept DEF Steps
    <3> QED
      BY <3>2, <3>3 DEF ServiceShape
  <2> QED
    BY <2>3, <2>4, <2>5
<1>7. ASSUME NEW id \in Nat, NEW i \in Slot, id = at[v].id, i = Hash(id), at[v].pc \in {"check", "check2"},
             Unlocked(i), Go(v, "ref"), UNCHANGED <<alloc_id, pipe, st, wire, room, told, ended, sent>>
      PROVE  TypeOK' /\ ServiceShape(v)
  <2>1. at[v].pc \in WithPackage /\ "ref" \in WithPackage
    BY <1>7 DEF WithPackage
  <2>2. Steps(v, "ref", id)
    BY <1>7, <2>1, PlaceUpdates
  <2>3. Becomes(i, s[i].type, s[i].id, s[i].protocol, s[i].tag, s[i].sending, Nobody)
    BY <1>3, <1>7, FieldUpdates DEF Unlocked
  <2>4. Unlocking(v, id)
    BY <1>7, <2>2, <2>3 DEF Unlocking, SetsLock
  <2>5. TypeOK'
    BY <1>1, <1>7, <2>2, <2>3, TypeKept DEF Becomes, Steps
  <2> QED
    BY <2>4, <2>5 DEF ServiceShape
<1>8. ASSUME Check(v) PROVE TypeOK' /\ ServiceShape(v)
  <2>1. at[v].pc = "check" /\ at[v].pc \in WithPackage
    BY <1>8 DEF Check, WithPackage
  <2>2. PICK id \in Nat, i \in Slot : id = at[v].id /\ i = Hash(id)
    BY <1>5, <2>1
  <2>3. /\ \/ s[i].id = id /\ UNCHANGED s /\ Go(v, "check2")
           \/ Unlocked(i) /\ Go(v, "ref")
        /\ UNCHANGED <<alloc_id, pipe, st, wire, room, told, ended, sent>>
    BY <1>8, <2>2 DEF Check, NothingAhead, netVars, history
  <2>4. CASE s[i].id = id /\ UNCHANGED s /\ Go(v, "check2")
    <3>1. Steps(v, "check2", id)
      BY <2>1, <2>2, <2>4, PlaceUpdates DEF WithPackage
    <3>2. Going(v, id)
      BY <2>1, <2>2, <2>3, <2>4, <3>1 DEF Going
    <3>3. TypeOK'
      BY <1>1, <2>3, <2>4, <3>1, TypeKept DEF Steps
    <3> QED
      BY <3>2, <3>3 DEF ServiceShape
  <2>5. CASE Unlocked(i) /\ Go(v, "ref")
    BY <1>7, <2>1, <2>2, <2>3, <2>5
  <2> QED
    BY <2>3, <2>4, <2>5
<1>9. ASSUME GiveUp(v) PROVE TypeOK' /\ ServiceShape(v)
  <2>1. at[v].pc = "check2" /\ at[v].pc \in WithPackage
    BY <1>9 DEF GiveUp, WithPackage
  <2>2. PICK id \in Nat, i \in Slot : id = at[v].id /\ i = Hash(id)
    BY <1>5, <2>1
  <2>3. Unlocked(i) /\ Go(v, "ref") /\ UNCHANGED <<alloc_id, pipe, st, wire, room, told, ended, sent>>
    BY <1>9, <2>2 DEF GiveUp, netVars, history
  <2> QED
    BY <1>7, <2>1, <2>2, <2>3
<1>10. ASSUME DirectWrite(v) PROVE TypeOK' /\ ServiceShape(v)
  <2>1. at[v].pc = "check2" /\ at[v].pc \in WithPackage
    BY <1>10 DEF DirectWrite, WithPackage
  <2>2. PICK id \in Nat, i \in Slot : id = at[v].id /\ i = Hash(id) /\ id \in Id
    BY <1>5, <2>1
  <2>3. PICK q \in Seq(Unit) : q = Units(at[v].p) /\ Len(q) = 2
    BY <1>2, <2>1, PackageUnits
  <2>4. PICK n \in 0..2 : n = Takes(id, q) /\ n <= room[id]
    BY <2>2, <2>3, TakesType
  <2>5. /\ Write(id, q, n)
        /\ s' = IF n = 2 THEN [s EXCEPT ![i].lock = Nobody]
                ELSE [s EXCEPT ![i].lock = Nobody, ![i].dw = SubSeq(q, n + 1, 2), ![i].out = s[i].in]
        /\ at' = [at EXCEPT ![v] = Idle]
        /\ UNCHANGED <<alloc_id, pipe, st, told, ended, sent>>
    BY <1>10, <2>2, <2>3, <2>4 DEF DirectWrite, history
  <2>6. SubSeq(q, n + 1, 2) \in Seq(Unit)
    <3>1. (\A k \in n + 1..2 : q[k] \in Unit) /\ n + 1 \in Int /\ 2 \in Int
      BY <2>3, LenProperties
    <3> QED
      BY <3>1, SubSeqProperties
  <2>7. s[i].in \in BOOLEAN
    BY <1>1 DEF Socket
  <2>8. Becomes(i, s[i].type, s[i].id, s[i].protocol, s[i].tag, s[i].sending, Nobody)
    BY <1>3, <2>5, <2>6, <2>7, FieldUpdates
  <2>9. Steps(v, "idle", 0)
    BY <2>5, PlaceUpdates
  <2>10. wire' \in [Id -> Seq(Unit)] /\ room' \in [Id -> 0..2]
    BY <2>2, <2>3, <2>4, <2>5, WriteView
  <2>11. Unlocking(v, id)
    BY <2>1, <2>2, <2>5, <2>8, <2>9 DEF Unlocking, SetsLock
  <2>12. TypeOK'
    BY <1>1, <2>5, <2>8, <2>9, <2>10, TypeKept DEF Becomes, Steps
  <2> QED
    BY <2>11, <2>12 DEF ServiceShape
<1>11. ASSUME IncSendingRef(v) PROVE TypeOK' /\ ServiceShape(v)
  <2>1. at[v].pc = "ref" /\ at[v].pc \in WithPackage
    BY <1>11 DEF IncSendingRef, WithPackage
  <2>2. PICK id \in Nat, i \in Slot : id = at[v].id /\ i = Hash(id) /\ id \in Id
    BY <1>5, <2>1
  <2>3. /\ s' = IF s[i].protocol = "TCP" /\ s[i].tag = id THEN [s EXCEPT ![i].sending = @ + 1] ELSE s
        /\ Go(v, "push") /\ UNCHANGED <<alloc_id, pipe, st, wire, room, told, ended, sent>>
    BY <1>11, <2>2 DEF IncSendingRef, netVars, history
  <2>4. s[i].sending \in Int /\ s[i].sending + 1 \in Int
    BY <1>1 DEF Socket
  <2>5. PICK n \in Int : n = IF s[i].protocol = "TCP" /\ s[i].tag = id THEN s[i].sending + 1 ELSE s[i].sending
    BY <2>4
  <2>6. s' = [s EXCEPT ![i].sending = n]
    <3>1. CASE s[i].protocol = "TCP" /\ s[i].tag = id
      BY <2>3, <2>5, <3>1
    <3>2. CASE ~(s[i].protocol = "TCP" /\ s[i].tag = id)
      <4>1. s' = s /\ n = s[i].sending
        BY <2>3, <2>5, <3>2
      <4>2. [s[i] EXCEPT !.sending = s[i].sending] = s[i]
        BY <1>1 DEF Socket
      <4> QED
        BY <1>1, <4>1, <4>2
    <3> QED
      BY <3>1, <3>2
  <2>7. Becomes(i, s[i].type, s[i].id, s[i].protocol, s[i].tag, n, s[i].lock)
    BY <2>6, FieldUpdates
  <2>8. Steps(v, "push", id)
    BY <2>1, <2>2, <2>3, PlaceUpdates DEF WithPackage
  <2>9. Counting(v, id)
    BY <2>1, <2>2, <2>3, <2>5, <2>7, <2>8 DEF Counting, SetsCount
  <2>10. TypeOK'
    BY <1>1, <2>3, <2>7, <2>8, TypeKept DEF Becomes, Steps
  <2> QED
    BY <2>9, <2>10 DEF ServiceShape
<1>12. ASSUME SendRequest(v) PROVE TypeOK' /\ ServiceShape(v)
  <2>1. at[v].pc = "push" /\ at[v].pc \in WithPackage
    BY <1>12 DEF SendRequest, WithPackage
  <2>2. PICK id \in Nat, i \in Slot : id = at[v].id /\ i = Hash(id) /\ id \in Id
    BY <1>5, <2>1
  <2>3. PICK c \in Sending : c = IF sent[v][at[v].p[2]].prio = "high" THEN "D" ELSE "P"
    BY DEF Sending
  <2> DEFINE r == [c |-> c, id |-> id, p |-> at[v].p]
  <2>4. r \in Request /\ r.c \in Sending /\ r.id = id
    BY <1>2, <2>1 DEF Request
  <2>5. /\ pipe' = Append(pipe, r) /\ at' = [at EXCEPT ![v] = Idle]
        /\ UNCHANGED <<s, alloc_id, st, wire, room, told, ended, sent>>
    BY <1>12, <2>2, <2>3 DEF SendRequest, netVars, history
  <2> HIDE DEF r
  <2>6. Steps(v, "idle", 0)
    BY <2>5, PlaceUpdates
  <2>7. pipe' \in Seq(Request)
    BY <1>1, <2>4, <2>5, AppendPipe
  <2>8. Posting(v, id, r)
    BY <2>1, <2>2, <2>4, <2>5, <2>6 DEF Posting
  <2>9. TypeOK'
    BY <1>1, <2>5, <2>6, <2>7, TypeKept DEF Steps
  <2> QED
    BY <2>4, <2>8, <2>9 DEF ServiceShape
<1> QED
  BY <1>4, <1>6, <1>8, <1>9, <1>10, <1>11, <1>12 DEF ServiceStep

\* The socket thread works on slot i, which is open.
OnSlot(i, t, l) ==
    /\ s[i].type \notin Closed /\ (l = s[i].lock \/ {l, s[i].lock} \subseteq {Nobody, Thread})
    /\ Becomes(i, t, s[i].id, s[i].protocol, s[i].tag, s[i].sending, l)
    /\ st'.pc \in AtSlot => st'.i = i
    /\ st'.pc = "send" => l = Thread
OnNone == UNCHANGED s /\ st'.pc # "send" /\ (st'.pc \in AtSlot => st'.i \in Slot /\ s[st'.i].type \notin Closed)
Rest == UNCHANGED <<alloc_id, at, ended, sent>>

LEMMA WorkShape ==
  ASSUME IInv, lim' = lim, Rest, wire' \in [Id -> Seq(Unit)], room' \in [Id -> 0..2], st' \in ThreadPlace,
         UNCHANGED pipe \/ \E r \in Request : Takes1(r) /\ r.c \in {"S", "K"},
         UNCHANGED told \/ \E id \in Id : Reports(id),
         OnNone \/ \E i \in Slot, t \in SlotType \ Closed, l \in Service \cup {Nobody, Thread} : OnSlot(i, t, l)
  PROVE  TypeOK' /\ Working
<1> USE DEF IInv
<1>1. /\ alloc_id \in 0..lim.id /\ s \in [Slot -> Socket] /\ pipe \in Seq(Request)
      /\ at \in [Service -> Place]
      /\ told \in [Id -> {"none", "listen", "listening", "accept", "open", "end"}]
      /\ ended \in [Id -> {"no", "cut", "drained"}] /\ sent \in [Service -> Seq(Package)]
  BY DEF TypeOK
<1>2. pipe' \in Seq(Request)
  BY <1>1, TailPipe DEF Takes1
<1>3. told' \in [Id -> {"none", "listen", "listening", "accept", "open", "end"}]
  BY <1>1 DEF Reports, ToldOf
<1>4. s' \in [Slot -> Socket]
  BY <1>1 DEF OnNone, OnSlot, Becomes
<1>5. TypeOK'
  BY <1>1, <1>2, <1>3, <1>4, TypeKept DEF Rest
<1>6. \/ UNCHANGED s
      \/ \E i \in Slot, t \in SlotType \ Closed, l \in Service \cup {Nobody, Thread} :
            /\ s[i].type \notin Closed /\ (l = s[i].lock \/ {l, s[i].lock} \subseteq {Nobody, Thread})
            /\ Becomes(i, t, s[i].id, s[i].protocol, s[i].tag, s[i].sending, l)
  BY DEF OnNone, OnSlot
<1>7. AtWork'
  <2>0. Slot' = Slot
    BY GeometryKept
  <2>1. CASE OnNone
    <3>1. st'.pc # "send" /\ (st'.pc \in AtSlot => st'.i \in Slot' /\ s'[st'.i].type \notin Closed)
      BY <2>0, <2>1 DEF OnNone
    <3> QED
      BY <3>1 DEF AtWork
  <2>2. ASSUME NEW i \in Slot, NEW t \in SlotType \ Closed, NEW l, OnSlot(i, t, l) PROVE AtWork'
    <3>1. s'[i].type \notin Closed /\ s'[i].lock = l /\ (st'.pc \in AtSlot => st'.i = i)
          /\ (st'.pc = "send" => l = Thread /\ st'.pc \in AtSlot)
      BY <2>2 DEF OnSlot, Becomes, AtSlot
    <3> QED
      BY <2>0, <3>1 DEF AtWork
  <2> QED
    BY <2>1, <2>2
<1> QED
  BY <1>5, <1>6, <1>7 DEF Working, Rest

\* Only the socket thread moves on.
LEMMA IdleShape ==
  ASSUME IInv, lim' = lim, Rest, UNCHANGED <<s, pipe, told, wire, room>>, st' \in ThreadPlace, st'.pc \notin AtSlot
  PROVE  TypeOK' /\ Working
<1>1. OnNone /\ wire' \in [Id -> Seq(Unit)] /\ room' \in [Id -> 0..2]
  BY DEF OnNone, AtSlot, IInv, TypeOK
<1> QED
  BY <1>1, WorkShape

LEMMA ThreadPlaces ==
  /\ Loop \in ThreadPlace /\ Loop.pc \notin AtSlot
  /\ \A pc \in {"first", "aborted"} : [pc |-> pc] \in ThreadPlace /\ [pc |-> pc].pc \notin AtSlot
  /\ \A id \in Nat : [pc |-> "clear", id |-> id] \in ThreadPlace /\ [pc |-> "clear", id |-> id].pc \notin AtSlot
  /\ \A i \in Nat, b \in BOOLEAN :
        /\ [pc |-> "recheck", i |-> i, shutdown |-> b] \in ThreadPlace
        /\ \A d \in BOOLEAN : [pc |-> "send", i |-> i, shutdown |-> b, clear |-> d] \in ThreadPlace
        /\ \A how \in {"cut", "drained"} : [pc |-> "closing", i |-> i, how |-> how, clear |-> b] \in ThreadPlace
<1>1. Loop \in ThreadPlace /\ Loop.pc \notin AtSlot
  BY DEF Loop, ThreadPlace, AtSlot
<1>2. \A pc \in {"first", "aborted"} : [pc |-> pc] \in ThreadPlace /\ [pc |-> pc].pc \notin AtSlot
  BY DEF ThreadPlace, AtSlot
<1>3. \A id \in Nat : [pc |-> "clear", id |-> id] \in ThreadPlace /\ [pc |-> "clear", id |-> id].pc \notin AtSlot
  BY DEF ThreadPlace, AtSlot
<1>4. ASSUME NEW i \in Nat, NEW b \in BOOLEAN
      PROVE  /\ [pc |-> "recheck", i |-> i, shutdown |-> b] \in ThreadPlace
             /\ \A d \in BOOLEAN : [pc |-> "send", i |-> i, shutdown |-> b, clear |-> d] \in ThreadPlace
             /\ \A how \in {"cut", "drained"} : [pc |-> "closing", i |-> i, how |-> how, clear |-> b] \in ThreadPlace
  BY DEF ThreadPlace
<1> QED
  BY <1>1, <1>2, <1>3, <1>4

LEMMA HeadRequest ==
  ASSUME IInv, NEW c, Cmd(c)
  PROVE  /\ st = Loop /\ pipe # <<>> /\ Head(pipe) \in Request /\ Head(pipe).c = c
         /\ Member(pipe, Head(pipe)) /\ Head(pipe).id \in Nat /\ Head(pipe).id \in Id
         /\ c = "K" => Head(pipe).shutdown \in BOOLEAN
         /\ pipe' = Tail(pipe) => /\ Takes1(Head(pipe)) /\ pipe' \in Seq(Request)
                                  /\ \A r : Member(pipe', r) => Member(pipe, r)
                                  /\ \A r : Member(pipe', r) /\ r.c \in Opening => r.id # Head(pipe).id
<1> USE DEF IInv
<1>1. st = Loop /\ pipe # <<>> /\ Head(pipe).c = c /\ pipe \in Seq(Request)
  BY DEF Cmd, TypeOK
<1>2. Head(pipe) \in Request /\ Member(pipe, Head(pipe)) /\ Tail(pipe) \in Seq(Request)
      /\ (\A r : Member(Tail(pipe), r) => Member(pipe, r))
      /\ (\A r : Member(Tail(pipe), r) /\ r.c \in Opening => r.id # Head(pipe).id)
  BY <1>1, TailPipe DEF Opens
<1>3. PICK m \in Request : m = Head(pipe)
  BY <1>2
<1>4. m.id \in Nat /\ (m.c = "K" => m.shutdown \in BOOLEAN)
  BY DEF Request, Opening, Sending
<1>5. m.id \in 1..alloc_id
  BY <1>2, <1>3 DEF Ids
<1>6. m.id \in Id
  <2>1. alloc_id \in 0..lim.id /\ lim.id \in Nat
    BY Geometry DEF TypeOK
  <2>2. m.id \in 1..lim.id
    BY <1>4, <1>5, <2>1
  <2> QED
    BY <2>2 DEF Id
<1> QED
  BY <1>1, <1>2, <1>3, <1>4, <1>6 DEF Takes1

LEMMA OpenShape ==
  ASSUME IInv, lim' = lim, OpenSocket \/ ListenSocket \/ BindSocket \/ BindFails
  PROVE  TypeOK' /\ ThreadShape
<1> USE DEF IInv
<1>1. PICK c \in Opening : Cmd(c)
  BY DEF OpenSocket, ListenSocket, BindSocket, BindFails, Opening
<1>2. pipe' = Tail(pipe)
  BY DEF OpenSocket, ListenSocket, BindSocket, BindFails
<1>3. PICK r \in Request : r = Head(pipe) /\ r.c \in Opening /\ r.id \in Nat /\ r.id \in Id
  BY <1>1, HeadRequest
<1>4. st = Loop /\ Takes1(r) /\ pipe' \in Seq(Request)
  BY <1>1, <1>2, <1>3, HeadRequest
<1>5. PICK id \in Nat, i \in Slot : id = r.id /\ id \in Id /\ i = Hash(id)
  BY <1>3, Geometry
<1>6. /\ alloc_id \in 0..lim.id /\ s \in [Slot -> Socket] /\ at \in [Service -> Place] /\ st \in ThreadPlace
      /\ wire \in [Id -> Seq(Unit)] /\ room \in [Id -> 0..2]
      /\ told \in [Id -> {"none", "listen", "listening", "accept", "open", "end"}]
      /\ ended \in [Id -> {"no", "cut", "drained"}] /\ sent \in [Service -> Seq(Package)]
  BY DEF TypeOK
<1>7. UNCHANGED <<alloc_id, at, wire, room, ended, sent>>
  BY DEF OpenSocket, ListenSocket, BindSocket, BindFails, netVars, history
<1>8. \A m \in {"end", "open"} : Report(id, m) => ToldOf(id) /\ told'[id] = m
  BY <1>5, <1>6 DEF Report, ToldOf
<1>9. UNCHANGED told => ToldOf(id)
  BY <1>6 DEF ToldOf
<1>10. ASSUME NEW t \in SlotType \ Closed, NEW b \in BOOLEAN, NEW d \in BOOLEAN, NewFd(id, t, b, d), UNCHANGED st,
              ToldOf(id)
       PROVE  TypeOK' /\ ThreadShape
  <2>1. Makes(id, t) /\ s' \in [Slot -> Socket]
    BY <1>10, NewFdView DEF Makes, Becomes
  <2>2. Opened(r, t)
    BY <1>3, <1>4, <1>5, <1>7, <1>10, <2>1 DEF Opened
  <2>3. TypeOK'
    BY <1>4, <1>6, <1>7, <1>10, <2>1, TypeKept DEF ToldOf
  <2> QED
    BY <2>2, <2>3 DEF ThreadShape
<1>11. ASSUME s' = [s EXCEPT ![i].type = "INVALID"], Report(id, "end"), st' = [pc |-> "clear", id |-> id]
       PROVE  TypeOK' /\ ThreadShape
  <2>1. Becomes(i, "INVALID", s[i].id, s[i].protocol, s[i].tag, s[i].sending, s[i].lock)
    BY <1>11, FieldUpdates DEF SlotType, Closed
  <2>2. st' \in ThreadPlace /\ st'.pc \notin AtSlot
    BY <1>11, ThreadPlaces
  <2>3. ToldOf(id) /\ told'[id] = "end"
    BY <1>8, <1>11
  <2>4. OpenFailed(r)
    BY <1>3, <1>4, <1>5, <1>7, <2>1, <2>2, <2>3 DEF OpenFailed, SetsType
  <2>5. TypeOK'
    BY <1>4, <1>6, <1>7, <2>1, <2>2, <2>3, TypeKept DEF Becomes, ToldOf
  <2> QED
    BY <2>4, <2>5 DEF ThreadShape
<1>12. {"CONNECTED", "CONNECTING", "PLISTEN", "BIND"} \subseteq SlotType \ Closed
  BY DEF SlotType, Closed
<1>13. CASE OpenSocket
  <2>1. \/ s' = [s EXCEPT ![i].type = "INVALID"] /\ Report(id, "end") /\ st' = [pc |-> "clear", id |-> id]
        \/ NewFd(id, "CONNECTED", TRUE, FALSE) /\ Report(id, "open") /\ UNCHANGED st
        \/ NewFd(id, "CONNECTING", TRUE, TRUE) /\ UNCHANGED <<told, st>>
    BY <1>3, <1>5, <1>13 DEF OpenSocket
  <2> QED
    BY <1>8, <1>9, <1>10, <1>11, <1>12, <2>1
<1>14. CASE ListenSocket
  <2>1. NewFd(id, "PLISTEN", FALSE, FALSE) /\ UNCHANGED <<told, st>>
    BY <1>3, <1>5, <1>14 DEF ListenSocket
  <2> QED
    BY <1>9, <1>10, <1>12, <2>1
<1>15. CASE BindSocket
  <2>1. NewFd(id, "BIND", TRUE, FALSE) /\ Report(id, "open") /\ UNCHANGED st
    BY <1>3, <1>5, <1>15 DEF BindSocket
  <2> QED
    BY <1>8, <1>10, <1>12, <2>1
<1>16. CASE BindFails
  BY <1>3, <1>5, <1>11, <1>16 DEF BindFails
<1> QED
  BY <1>13, <1>14, <1>15, <1>16

\* What is said of an id that has no slot of its own any more, or has an open one
LEMMA ReportsFine ==
  ASSUME IInv, NEW id \in Id, NEW m \in {"listening", "open", "end"}, Report(id, m),
         id <= alloc_id, ended[id] = "no" \/ m = "end",
         \A v \in Service : at[v].pc = "fill" => at[v].id # id,
         \A r \in Request : Member(pipe', r) /\ r.c \in Opening => r.id # id
  PROVE  Reports(id)
<1>1. ToldOf(id) /\ told'[id] = m
  BY DEF Report, ToldOf, IInv, TypeOK
<1> QED
  BY <1>1 DEF Reports

LEMMA AskShape ==
  ASSUME IInv, lim' = lim, StartSocket \/ CloseSocket
  PROVE  TypeOK' /\ ThreadShape
<1> USE DEF IInv
<1>1. PICK c \in {"S", "K"} : Cmd(c) /\ (StartSocket => c = "S") /\ (CloseSocket => c = "K")
  BY HeadRequest DEF StartSocket, CloseSocket
<1>2. pipe' = Tail(pipe)
  BY DEF StartSocket, CloseSocket
<1>3. PICK r \in Request : /\ r = Head(pipe) /\ r.c = c /\ r.id \in Nat /\ r.id \in Id /\ Member(pipe, r)
                           /\ c = "K" => r.shutdown \in BOOLEAN
  BY <1>1, HeadRequest
<1>4. st = Loop /\ Takes1(r) /\ \A q : Member(pipe', q) /\ q.c \in Opening => q.id # r.id
  BY <1>1, <1>2, <1>3, HeadRequest
<1>5. PICK id \in Nat, i \in Slot : id = r.id /\ id \in Id /\ i = Hash(id) /\ i \in Nat
  BY <1>3, Geometry
<1>6. s[i] \in Socket /\ wire \in [Id -> Seq(Unit)] /\ room \in [Id -> 0..2]
  BY DEF TypeOK
<1>7. Rest /\ UNCHANGED <<wire, room>>
  BY DEF StartSocket, CloseSocket, netVars, history, Rest
<1>8. \A v \in Service : at[v].pc = "fill" => at[v].id # id
  BY <1>3, <1>5, PlaceFacts DEF Fills
<1>9. ASSUME NEW m \in {"listening", "open", "end"}, Report(id, m), ended[id] = "no" \/ m = "end" PROVE Reports(id)
  <2>1. id <= alloc_id
    BY <1>3, <1>5 DEF Ids, TypeOK
  <2> QED
    BY <1>4, <1>5, <1>8, <1>9, <2>1, ReportsFine
<1>10. ASSUME st' \in ThreadPlace, UNCHANGED told \/ Reports(id),
              OnNone \/ \E t \in SlotType \ Closed, l \in Service \cup {Nobody, Thread} : OnSlot(i, t, l)
       PROVE  TypeOK' /\ ThreadShape
  <2>1. TypeOK' /\ Working
    BY <1>3, <1>4, <1>5, <1>6, <1>7, <1>10, WorkShape
  <2> QED
    BY <2>1 DEF ThreadShape
<1>11. s[i].type \notin Closed /\ s[i].id = id => ended[id] = "no"
  BY <1>5 DEF Slots
<1>12. ASSUME UNCHANGED s, st' \in ThreadPlace, st'.pc \notin AtSlot PROVE OnNone
  BY <1>12 DEF OnNone, AtSlot
<1>13. ASSUME Report(id, "end"), st' = [pc |-> "clear", id |-> id], UNCHANGED s PROVE TypeOK' /\ ThreadShape
  <2>1. st' \in ThreadPlace /\ st'.pc \notin AtSlot
    BY <1>13, ThreadPlaces
  <2> QED
    BY <1>9, <1>10, <1>12, <1>13, <2>1
<1>14. CASE StartSocket
  <2>1. \/ Report(id, "end") /\ st' = [pc |-> "clear", id |-> id] /\ UNCHANGED s
        \/ /\ ~Gone(id) /\ s[i].type \in {"PACCEPT", "PLISTEN"} /\ UNCHANGED st
           /\ s' = [s EXCEPT ![i].in = TRUE, ![i].type = IF @ = "PACCEPT" THEN "CONNECTED" ELSE "LISTEN"]
           /\ Report(id, IF s[i].type = "PACCEPT" THEN "open" ELSE "listening")
        \/ /\ ~Gone(id) /\ UNCHANGED <<s, st>>
           /\ UNCHANGED told \/ (s[i].type = "CONNECTED" /\ Report(id, "open"))
    BY <1>3, <1>5, <1>14 DEF StartSocket, Report
  <2>2. CASE Report(id, "end") /\ st' = [pc |-> "clear", id |-> id] /\ UNCHANGED s
    BY <1>13, <2>2
  <2>3. CASE /\ ~Gone(id) /\ s[i].type \in {"PACCEPT", "PLISTEN"} /\ UNCHANGED st
             /\ s' = [s EXCEPT ![i].in = TRUE, ![i].type = IF @ = "PACCEPT" THEN "CONNECTED" ELSE "LISTEN"]
             /\ Report(id, IF s[i].type = "PACCEPT" THEN "open" ELSE "listening")
    <3>1. PICK t \in {"CONNECTED", "LISTEN"} : t = IF s[i].type = "PACCEPT" THEN "CONNECTED" ELSE "LISTEN"
      OBVIOUS
    <3>2. s' = [s EXCEPT ![i].in = TRUE, ![i].type = t]
      BY <1>6, <2>3, <3>1 DEF Socket, TypeOK
    <3>3. t \in SlotType \ Closed /\ s[i].type \notin Closed /\ s[i].id = id
      BY <1>5, <2>3 DEF SlotType, Closed, Gone
    <3>4. Becomes(i, t, s[i].id, s[i].protocol, s[i].tag, s[i].sending, s[i].lock)
      BY <3>2, <3>3, FieldUpdates
    <3>5. st' \in ThreadPlace /\ st'.pc \notin AtSlot /\ st'.pc # "send"
      BY <1>4, <2>3, ThreadPlaces DEF AtSlot
    <3>6. OnSlot(i, t, s[i].lock)
      BY <3>3, <3>4, <3>5 DEF OnSlot
    <3>7. Reports(id)
      BY <1>9, <1>11, <2>3, <3>3
    <3>8. s[i].lock \in Service \cup {Nobody, Thread}
      BY <1>6 DEF Socket
    <3> QED
      BY <1>10, <3>3, <3>5, <3>6, <3>7, <3>8
  <2>4. CASE ~Gone(id) /\ UNCHANGED <<s, st>> /\ (UNCHANGED told \/ (s[i].type = "CONNECTED" /\ Report(id, "open")))
    <3>1. st' \in ThreadPlace /\ st'.pc \notin AtSlot
      BY <1>4, <2>4, ThreadPlaces
    <3>2. UNCHANGED told \/ Reports(id)
      BY <1>5, <1>9, <1>11, <2>4 DEF Gone, Closed
    <3> QED
      BY <1>10, <1>12, <2>4, <3>1, <3>2
  <2> QED
    BY <2>1, <2>2, <2>3, <2>4
<1>15. CASE CloseSocket
  <2>1. \/ Report(id, "end") /\ st' = [pc |-> "clear", id |-> id] /\ UNCHANGED s
        \/ st' = [pc |-> "aborted"] /\ UNCHANGED <<s, told>>
        \/ /\ ~Gone(id) /\ s[i].type # "RESERVE" /\ UNCHANGED <<s, told>>
           /\ st' = [pc |-> "recheck", i |-> i, shutdown |-> r.shutdown]
        \/ /\ ~Gone(id) /\ s[i].type # "RESERVE" /\ s[i].lock = Nobody /\ UNCHANGED told
           /\ s' = [s EXCEPT ![i].lock = Thread]
           /\ st' = [pc |-> "send", i |-> i, shutdown |-> r.shutdown, clear |-> TRUE]
    BY <1>3, <1>5, <1>15 DEF CloseSocket
  <2>2. CASE Report(id, "end") /\ st' = [pc |-> "clear", id |-> id] /\ UNCHANGED s
    BY <1>13, <2>2
  <2>3. CASE st' = [pc |-> "aborted"] /\ UNCHANGED <<s, told>>
    <3>1. st' \in ThreadPlace /\ st'.pc \notin AtSlot
      BY <2>3, ThreadPlaces
    <3> QED
      BY <1>10, <1>12, <2>3, <3>1
  <2>4. ASSUME ~Gone(id), s[i].type # "RESERVE"
        PROVE  s[i].type \in SlotType \ Closed /\ s[i].type \notin Closed /\ s[i].lock \in Service \cup {Nobody, Thread}
    BY <1>5, <1>6, <2>4 DEF Gone, Closed, SlotType, Socket
  <2>5. CASE /\ ~Gone(id) /\ s[i].type # "RESERVE" /\ UNCHANGED <<s, told>>
             /\ st' = [pc |-> "recheck", i |-> i, shutdown |-> r.shutdown]
    <3>1. st' \in ThreadPlace /\ st'.pc = "recheck" /\ st'.i = i
      BY <1>1, <1>3, <1>5, <1>15, <2>5, ThreadPlaces
    <3>2. OnNone
      BY <2>4, <2>5, <3>1 DEF OnNone
    <3> QED
      BY <1>10, <2>5, <3>1, <3>2
  <2>6. CASE /\ ~Gone(id) /\ s[i].type # "RESERVE" /\ s[i].lock = Nobody /\ UNCHANGED told
             /\ s' = [s EXCEPT ![i].lock = Thread]
             /\ st' = [pc |-> "send", i |-> i, shutdown |-> r.shutdown, clear |-> TRUE]
    <3>1. st' \in ThreadPlace /\ st'.pc = "send" /\ st'.i = i
      BY <1>1, <1>3, <1>5, <1>15, <2>6, ThreadPlaces
    <3>2. Becomes(i, s[i].type, s[i].id, s[i].protocol, s[i].tag, s[i].sending, Thread)
      BY <2>6, FieldUpdates
    <3>3. OnSlot(i, s[i].type, Thread)
      BY <2>4, <2>6, <3>1, <3>2 DEF OnSlot
    <3> QED
      BY <1>10, <2>4, <2>6, <3>1, <3>3
  <2> QED
    BY <2>1, <2>2, <2>3, <2>5, <2>6
<1> QED
  BY <1>14, <1>15

LEMMA SendShape ==
  ASSUME IInv, lim' = lim, NEW c \in Sending, SendSocket(c)
  PROVE  TypeOK' /\ ThreadShape
<1> USE DEF IInv
<1>1. /\ alloc_id \in 0..lim.id /\ at \in [Service -> Place] /\ st \in ThreadPlace
      /\ wire \in [Id -> Seq(Unit)] /\ room \in [Id -> 0..2]
      /\ told \in [Id -> {"none", "listen", "listening", "accept", "open", "end"}]
      /\ ended \in [Id -> {"no", "cut", "drained"}] /\ sent \in [Service -> Seq(Package)]
  BY DEF TypeOK
<1>2. Cmd(c) /\ pipe' = Tail(pipe) /\ UNCHANGED <<alloc_id, st, at, wire, room, told, ended, sent>>
  BY DEF SendSocket, netVars
<1>3. PICK r \in Request : r = Head(pipe) /\ r.c \in Sending /\ Takes1(r) /\ st = Loop /\ pipe' \in Seq(Request)
  BY <1>2, HeadRequest
<1>4. LET x == s[Hash(r.id)]
      IN  Becomes(Hash(r.id), x.type, x.id, x.protocol, x.tag,
                  IF x.id = r.id /\ x.protocol = "TCP" THEN x.sending - 1 ELSE x.sending, x.lock)
  BY <1>3, SendSocketView
<1>5. Dropping(r)
  BY <1>2, <1>3, <1>4 DEF Dropping, SetsCount
<1>6. s' \in [Slot -> Socket]
  BY <1>4 DEF Becomes
<1>7. TypeOK'
  BY <1>1, <1>2, <1>3, <1>6, TypeKept
<1> QED
  BY <1>5, <1>7 DEF ThreadShape

LEMMA EndShape ==
  ASSUME IInv, lim' = lim, EndClose
  PROVE  TypeOK' /\ ThreadShape
<1> USE DEF IInv
<1>1. /\ alloc_id \in 0..lim.id /\ s \in [Slot -> Socket] /\ at \in [Service -> Place] /\ st \in ThreadPlace
      /\ pipe \in Seq(Request) /\ wire \in [Id -> Seq(Unit)] /\ room \in [Id -> 0..2]
      /\ told \in [Id -> {"none", "listen", "listening", "accept", "open", "end"}]
      /\ ended \in [Id -> {"no", "cut", "drained"}] /\ sent \in [Service -> Seq(Package)]
  BY DEF TypeOK
<1>2. st.pc = "closing" /\ st.pc \in AtSlot
  BY DEF EndClose, AtSlot
<1>3. PICK i \in Slot : i = st.i /\ s[i].type \notin Closed
  BY <1>2 DEF AtWork
<1>4. PICK id \in Nat : id = s[i].id /\ id \in Id
  <2>1. s[i].id \in Nat
    BY <1>1 DEF Socket
  <2> QED
    BY <1>3, <2>1 DEF Slots
<1>5. st.how \in {"cut", "drained"} /\ st.clear \in BOOLEAN
  BY <1>1, <1>2 DEF ThreadPlace
<1>6. /\ s[i].lock \in {Nobody, Thread} /\ ended' = [ended EXCEPT ![id] = st.how] /\ Report(id, "end")
      /\ st' = [pc |-> "clear", id |-> id] \/ st' = Loop
      /\ UNCHANGED <<alloc_id, pipe, at, wire, room, sent>>
  BY <1>3, <1>4 DEF EndClose, netVars
<1>7. st' \in ThreadPlace /\ st'.pc \notin AtSlot
  BY <1>6, ThreadPlaces
<1>8. Becomes(i, "INVALID", id, s[i].protocol, s[i].tag, s[i].sending, Nobody)
  BY <1>3, <1>4, EndCloseView
<1>9. ToldOf(id) /\ told'[id] = "end"
  BY <1>1, <1>4, <1>6 DEF Report, ToldOf
<1>10. ended' \in [Id -> {"no", "cut", "drained"}] /\ \A e \in Id : e # id => ended'[e] = ended[e]
  BY <1>1, <1>4, <1>5, <1>6
<1>11. Ending(i, id)
  BY <1>2, <1>3, <1>4, <1>6, <1>7, <1>8, <1>9, <1>10 DEF Ending
<1>12. TypeOK'
  BY <1>1, <1>6, <1>7, <1>8, <1>9, <1>10, TypeKept DEF Becomes, ToldOf
<1> QED
  BY <1>11, <1>12 DEF ThreadShape

LEMMA BeginCloseShape ==
  ASSUME IInv, NEW i \in Slot, s[i].type \notin Closed, NEW how \in {"cut", "drained"}, NEW clear \in BOOLEAN,
         BeginClose(i, how, clear)
  PROVE  /\ st' \in ThreadPlace
         /\ \E t \in SlotType \ Closed, l \in Service \cup {Nobody, Thread} : OnSlot(i, t, l)
<1>1. st' = [pc |-> "closing", i |-> i, how |-> how, clear |-> clear] /\ i \in Nat
  BY Geometry DEF BeginClose, IInv
<1>2. st' \in ThreadPlace /\ st'.pc = "closing" /\ st'.i = i
  BY <1>1, ThreadPlaces
<1>3. Keeps(i)
  BY BeginCloseView DEF IInv
<1>4. s[i].type \in SlotType \ Closed /\ s[i].lock \in Service \cup {Nobody, Thread}
  BY DEF IInv, TypeOK, Socket, SlotType
<1>5. OnSlot(i, s[i].type, s[i].lock)
  BY <1>2, <1>3 DEF OnSlot, Keeps
<1> QED
  BY <1>2, <1>4, <1>5

LEMMA StartFailsShape ==
  ASSUME IInv, lim' = lim, StartFails
  PROVE  TypeOK' /\ ThreadShape
<1> USE DEF IInv
<1>1. Cmd("S") /\ pipe' = Tail(pipe)
  BY DEF StartFails
<1>2. PICK r \in Request : r = Head(pipe) /\ r.c = "S" /\ r.id \in Nat /\ r.id \in Id /\ Takes1(r) /\ pipe' \in Seq(Request)
  BY <1>1, HeadRequest
<1>3. PICK i \in Slot : i = Hash(r.id)
  BY <1>2, Geometry
<1>4. Rest /\ UNCHANGED <<told, wire, room>> /\ wire \in [Id -> Seq(Unit)] /\ room \in [Id -> 0..2]
  BY DEF StartFails, netVars, Rest, TypeOK
<1>5. s[i].type \notin Closed /\ BeginClose(i, "cut", TRUE)
  BY <1>2, <1>3 DEF StartFails, Closed
<1>6. st' \in ThreadPlace /\ \E t \in SlotType \ Closed, l \in Service \cup {Nobody, Thread} : OnSlot(i, t, l)
  BY <1>5, BeginCloseShape
<1>7. TypeOK' /\ Working
  BY <1>2, <1>4, <1>6, WorkShape
<1> QED
  BY <1>7 DEF ThreadShape

LEMMA HalfCloseShape ==
  ASSUME IInv, lim' = lim, HalfClose
  PROVE  TypeOK' /\ ThreadShape
<1> USE DEF IInv
<1>1. Rest /\ UNCHANGED <<pipe, told, wire, room>> /\ wire \in [Id -> Seq(Unit)] /\ room \in [Id -> 0..2] /\ st \in ThreadPlace
  BY DEF HalfClose, netVars, Rest, TypeOK
<1>2. st.pc = "recheck" /\ st.pc \in AtSlot
  BY DEF HalfClose, AtSlot
<1>3. PICK i \in Slot : i = st.i /\ s[i].type \notin Closed
  BY <1>2 DEF AtWork
<1>4. \/ \E how \in {"cut", "drained"} : BeginClose(i, how, TRUE)
      \/ s' = [s EXCEPT ![i].type = "HALFCLOSE"] /\ st' = Loop
  BY <1>3 DEF HalfClose
<1>5. st' \in ThreadPlace /\ \E t \in SlotType \ Closed, l \in Service \cup {Nobody, Thread} : OnSlot(i, t, l)
  <2>1. CASE \E how \in {"cut", "drained"} : BeginClose(i, how, TRUE)
    BY <1>3, <2>1, BeginCloseShape
  <2>2. CASE s' = [s EXCEPT ![i].type = "HALFCLOSE"] /\ st' = Loop
    <3>1. st' \in ThreadPlace /\ st'.pc \notin AtSlot /\ st'.pc # "send"
      BY <2>2, ThreadPlaces DEF AtSlot
    <3>2. "HALFCLOSE" \in SlotType \ Closed
      BY DEF SlotType, Closed
    <3>3. Becomes(i, "HALFCLOSE", s[i].id, s[i].protocol, s[i].tag, s[i].sending, s[i].lock)
      BY <2>2, <3>2, FieldUpdates
    <3>4. s[i].lock \in Service \cup {Nobody, Thread}
      BY DEF TypeOK, Socket
    <3>5. OnSlot(i, "HALFCLOSE", s[i].lock)
      BY <1>3, <3>1, <3>3 DEF OnSlot
    <3> QED
      BY <3>1, <3>2, <3>4, <3>5
  <2> QED
    BY <1>4, <2>1, <2>2
<1>6. TypeOK' /\ Working
  BY <1>1, <1>5, WorkShape
<1> QED
  BY <1>6 DEF ThreadShape

LEMMA SendBufferShape ==
  ASSUME IInv, lim' = lim, SendBuffer
  PROVE  TypeOK' /\ ThreadShape
<1> USE DEF IInv
<1>1. Rest /\ UNCHANGED <<pipe, told>> /\ st \in ThreadPlace
  BY DEF SendBuffer, Rest, TypeOK
<1>2. st.pc = "send" /\ st.pc \in AtSlot
  BY DEF SendBuffer, AtSlot
<1>3. PICK i \in Slot : i = st.i /\ s[i].type \notin Closed /\ s[i].lock = Thread
  BY <1>2 DEF AtWork
<1>4. s[i] \in Socket /\ s[i].id \in Nat
  BY DEF TypeOK, Socket
<1>5. s[i].id \in Id
  BY <1>3, <1>4 DEF Slots
<1>6. st.shutdown \in BOOLEAN /\ st.clear \in BOOLEAN /\ i \in Nat
  BY <1>1, <1>2, Geometry DEF ThreadPlace
<1>7. /\ \E l \in {Nobody, Thread} : Becomes(i, s[i].type, s[i].id, s[i].protocol, s[i].tag, s[i].sending, l)
      /\ \/ st' = Loop
         \/ st' = [pc |-> "recheck", i |-> i, shutdown |-> st.shutdown]
         \/ \E how \in {"cut", "drained"} : st' = [pc |-> "closing", i |-> i, how |-> how, clear |-> st.clear]
      /\ wire' \in [Id -> Seq(Unit)] /\ room' \in [Id -> 0..2]
  BY <1>3, <1>5, SendBufferView
<1>8. st' \in ThreadPlace
  BY <1>6, <1>7, ThreadPlaces
<1>9. st'.pc # "send" /\ (st'.pc \in AtSlot => st'.i = i)
  BY <1>7, ThreadPlaces DEF AtSlot
<1>10. PICK l \in {Nobody, Thread} : OnSlot(i, s[i].type, l)
  BY <1>3, <1>7, <1>9 DEF OnSlot
<1>11. s[i].type \in SlotType \ Closed /\ l \in Service \cup {Nobody, Thread}
  BY <1>3, <1>4 DEF Socket, SlotType
<1>12. TypeOK' /\ Working
  BY <1>1, <1>7, <1>8, <1>10, <1>11, WorkShape
<1> QED
  BY <1>12 DEF ThreadShape

LEMMA QuietShape ==
  ASSUME IInv, lim' = lim, AbortNewFd \/ ClearClosedEvent \/ NoCmd \/ Wait \/ SkipEvent \/ StaleEvent
  PROVE  TypeOK' /\ ThreadShape
<1>1. Rest /\ UNCHANGED <<s, pipe, told, wire, room>>
  BY DEF AbortNewFd, ClearClosedEvent, NoCmd, Wait, SkipEvent, StaleEvent, Handled, netVars, history, Rest
<1>2. st' \in {Loop, [pc |-> "first"], [pc |-> "aborted"]}
  BY DEF AbortNewFd, ClearClosedEvent, NoCmd, Wait, SkipEvent, StaleEvent, Handled
<1>3. st' \in ThreadPlace /\ st'.pc \notin AtSlot
  BY <1>2, ThreadPlaces
<1>4. TypeOK' /\ Working
  BY <1>1, <1>3, IdleShape
<1> QED
  BY <1>4 DEF ThreadShape

LEMMA ConnectShape ==
  ASSUME IInv, lim' = lim, ReportConnect
  PROVE  TypeOK' /\ ThreadShape
<1> USE DEF IInv
<1>1. Rest /\ UNCHANGED <<pipe, wire, room>> /\ wire \in [Id -> Seq(Unit)] /\ room \in [Id -> 0..2]
  BY DEF ReportConnect, netVars, Rest, TypeOK
<1>2. PICK i \in Slot : i = Head(ev).i /\ s[i].type = "CONNECTING"
  BY DEF ReportConnect, Event
<1>3. s[i] \in Socket /\ s[i].type \notin Closed
  BY <1>2 DEF TypeOK, Closed
<1>4. PICK id \in Nat : id = s[i].id /\ id \in Id /\ Hash(id) = i /\ ended[id] = "no"
  BY <1>3 DEF Slots, Socket
<1>5. \/ BeginClose(i, "cut", FALSE) /\ UNCHANGED told
      \/ /\ s' = [s EXCEPT ![i].type = "CONNECTED", ![i].out = ~NoMoreData(s[i])]
         /\ Report(id, "open") /\ st' = Loop
  BY <1>2, <1>4 DEF ReportConnect
<1>6. CASE BeginClose(i, "cut", FALSE) /\ UNCHANGED told
  <2>1. st' \in ThreadPlace /\ \E t \in SlotType \ Closed, l \in Service \cup {Nobody, Thread} : OnSlot(i, t, l)
    BY <1>3, <1>6, BeginCloseShape
  <2>2. TypeOK' /\ Working
    BY <1>1, <1>6, <2>1, WorkShape
  <2> QED
    BY <2>2 DEF ThreadShape
<1>7. CASE /\ s' = [s EXCEPT ![i].type = "CONNECTED", ![i].out = ~NoMoreData(s[i])]
           /\ Report(id, "open") /\ st' = Loop
  <2>1. st' \in ThreadPlace /\ st'.pc \notin AtSlot /\ st'.pc # "send"
    BY <1>7, ThreadPlaces DEF AtSlot
  <2>2. PICK b \in BOOLEAN : b = ~NoMoreData(s[i])
    BY DEF NoMoreData
  <2>3. "CONNECTED" \in SlotType \ Closed
    BY DEF SlotType, Closed
  <2>4. Becomes(i, "CONNECTED", s[i].id, s[i].protocol, s[i].tag, s[i].sending, s[i].lock)
    BY <1>7, <2>2, <2>3, FieldUpdates
  <2>5. s[i].lock \in Service \cup {Nobody, Thread}
    BY <1>3 DEF Socket
  <2>6. OnSlot(i, "CONNECTED", s[i].lock)
    BY <1>3, <2>1, <2>4 DEF OnSlot
  <2>7. \A v \in Service : at[v].pc = "fill" => at[v].id # id
    BY <1>2, <1>4 DEF Fills
  <2>8. \A r \in Request : Member(pipe', r) /\ r.c \in Opening => r.id # id
    BY <1>1, <1>2, <1>4 DEF Opens, Reserved
  <2>11. id <= alloc_id
    BY <1>4 DEF Ids
  <2>9. Reports(id)
    BY <1>4, <1>7, <2>7, <2>8, <2>11, ReportsFine
  <2>10. TypeOK' /\ Working
    BY <1>1, <1>4, <2>1, <2>3, <2>5, <2>6, <2>9, WorkShape
  <2> QED
    BY <2>10 DEF ThreadShape
<1> QED
  BY <1>5, <1>6, <1>7

LEMMA AcceptShape ==
  ASSUME IInv, lim' = lim, ReportAccept
  PROVE  TypeOK' /\ ThreadShape
<1> USE DEF IInv
<1>1. /\ at \in [Service -> Place] /\ pipe \in Seq(Request) /\ wire \in [Id -> Seq(Unit)] /\ room \in [Id -> 0..2]
      /\ told \in [Id -> {"none", "listen", "listening", "accept", "open", "end"}]
      /\ ended \in [Id -> {"no", "cut", "drained"}] /\ sent \in [Service -> Seq(Package)]
  BY DEF TypeOK
<1>2. st' = Loop /\ UNCHANGED <<pipe, at, room, wire, sent, ended>>
  BY DEF ReportAccept, Handled, history
<1>3. st' \in ThreadPlace /\ st'.pc \notin AtSlot
  BY <1>2, ThreadPlaces
<1>4. \/ CanReserve /\ alloc_id' = NextId /\ NewFd(NextId, "PACCEPT", FALSE, FALSE) /\ Report(NextId, "accept")
      \/ UNCHANGED <<alloc_id, s, told>>
  BY DEF ReportAccept
<1>5. CASE CanReserve /\ alloc_id' = NextId /\ NewFd(NextId, "PACCEPT", FALSE, FALSE) /\ Report(NextId, "accept")
  <2>1. PICK n \in Nat : n = NextId /\ n \in Id /\ n > alloc_id /\ n \in 0..lim.id /\ s[Hash(n)].type = "INVALID"
    BY <1>5, NextIdView
  <2>2. "PACCEPT" \in SlotType \ Closed
    BY DEF SlotType, Closed
  <2>3. Makes(n, "PACCEPT") /\ s' \in [Slot -> Socket]
    BY <1>5, <2>1, <2>2, NewFdView DEF Makes, Becomes
  <2>4. ToldOf(n) /\ told'[n] = "accept"
    BY <1>1, <1>5, <2>1 DEF Report, ToldOf
  <2>5. Accepting(n)
    BY <1>2, <1>3, <1>5, <2>1, <2>3, <2>4 DEF Accepting
  <2>6. TypeOK'
    BY <1>1, <1>2, <1>3, <1>5, <2>1, <2>3, <2>4, TypeKept DEF ToldOf
  <2> QED
    BY <2>5, <2>6 DEF ThreadShape
<1>6. CASE UNCHANGED <<alloc_id, s, told>>
  <2>1. TypeOK' /\ Working
    BY <1>2, <1>3, <1>6, IdleShape DEF Rest
  <2> QED
    BY <2>1 DEF ThreadShape
<1> QED
  BY <1>4, <1>5, <1>6

LEMMA EventShape ==
  ASSUME IInv, lim' = lim, ReadEvent \/ WriteEvent \/ ErrorEvent
  PROVE  TypeOK' /\ ThreadShape
<1> USE DEF IInv
<1>1. /\ Rest /\ UNCHANGED <<pipe, told, wire, room>> /\ wire \in [Id -> Seq(Unit)] /\ room \in [Id -> 0..2]
      /\ Event(Streams)
  BY DEF ReadEvent, WriteEvent, ErrorEvent, netVars, history, Rest, TypeOK
<1>2. PICK i \in Slot : i = Head(ev).i /\ s[i].type \in Streams
  BY <1>1 DEF Event
<1>3. s[i] \in Socket /\ s[i].type \notin Closed /\ i \in Nat
  BY <1>2, Geometry DEF TypeOK, Streams, Closed
<1>4. \/ BeginClose(i, "cut", FALSE)
      \/ UNCHANGED s /\ st' = Loop
      \/ /\ s[i].lock = Nobody /\ s' = [s EXCEPT ![i].lock = Thread]
         /\ st' = [pc |-> "send", i |-> i, shutdown |-> FALSE, clear |-> FALSE]
  BY <1>2 DEF ReadEvent, WriteEvent, ErrorEvent
<1>5. CASE BeginClose(i, "cut", FALSE)
  <2>1. st' \in ThreadPlace /\ \E t \in SlotType \ Closed, l \in Service \cup {Nobody, Thread} : OnSlot(i, t, l)
    BY <1>3, <1>5, BeginCloseShape
  <2>2. TypeOK' /\ Working
    BY <1>1, <2>1, WorkShape
  <2> QED
    BY <2>2 DEF ThreadShape
<1>6. CASE UNCHANGED s /\ st' = Loop
  <2>1. TypeOK' /\ Working
    BY <1>1, <1>6, ThreadPlaces, IdleShape
  <2> QED
    BY <2>1 DEF ThreadShape
<1>7. CASE /\ s[i].lock = Nobody /\ s' = [s EXCEPT ![i].lock = Thread]
           /\ st' = [pc |-> "send", i |-> i, shutdown |-> FALSE, clear |-> FALSE]
  <2>1. st' \in ThreadPlace /\ st'.pc = "send" /\ st'.i = i
    BY <1>3, <1>7, ThreadPlaces
  <2>2. Becomes(i, s[i].type, s[i].id, s[i].protocol, s[i].tag, s[i].sending, Thread)
    BY <1>7, FieldUpdates
  <2>3. OnSlot(i, s[i].type, Thread) /\ s[i].type \in SlotType \ Closed
    BY <1>3, <1>7, <2>1, <2>2 DEF OnSlot, Socket, SlotType
  <2>4. TypeOK' /\ Working
    BY <1>1, <2>1, <2>3, WorkShape
  <2> QED
    BY <2>4 DEF ThreadShape
<1> QED
  BY <1>4, <1>5, <1>6, <1>7

LEMMA NetShape ==
  ASSUME IInv, lim' = lim, NEW id \in Id, Connect(id) \/ Net(id) \/ Drain(id)
  PROVE  TypeOK' /\ Working
<1> USE DEF IInv
<1>1. room \in [Id -> 0..2] /\ wire \in [Id -> Seq(Unit)] /\ st \in ThreadPlace
  BY DEF TypeOK
<1>2. Rest /\ UNCHANGED <<s, pipe, told, wire, st>>
  BY DEF Connect, Net, Drain, serverVars, history, Rest
<1>3. room' \in [Id -> 0..2]
  <2>1. CASE UNCHANGED room
    BY <1>1, <2>1
  <2>2. CASE \E r \in room[id] + 1..2 : room' = [room EXCEPT ![id] = r]
    BY <1>1, <2>2
  <2> QED
    BY <2>1, <2>2 DEF Connect, Net, Drain
<1>4. TypeOK'
  BY <1>1, <1>2, <1>3, TypeKept DEF TypeOK, Rest
<1>5. AtWork'
  BY <1>2, GeometryKept DEF AtWork
<1> QED
  BY <1>2, <1>4, <1>5 DEF Working, Rest

\* What a step is, as far as the invariant is concerned
Shape == (\E v \in Service : ServiceShape(v)) \/ ThreadShape

LEMMA EveryShape ==
  ASSUME IInv, Next
  PROVE  lim' = lim /\ TypeOK' /\ Shape
<1>1. lim' = lim
  BY LimitsKept
<1>2. ASSUME NEW v \in Service, Call(v) \/ ServiceStep(v) PROVE TypeOK' /\ Shape
  BY <1>1, <1>2, CallShape, ServiceStepShape DEF Shape
<1>3. ASSUME ThreadStep PROVE TypeOK' /\ Shape
  <2>1. TypeOK' /\ ThreadShape
    BY <1>1, <1>3, OpenShape, AskShape, SendShape, EndShape, StartFailsShape, HalfCloseShape, SendBufferShape, QuietShape,
       ConnectShape, AcceptShape, EventShape DEF ThreadStep, Sending
  <2> QED
    BY <2>1 DEF Shape
<1>4. ASSUME NEW id \in Id, Connect(id) \/ Net(id) \/ Drain(id) PROVE TypeOK' /\ Shape
  BY <1>1, <1>4, NetShape DEF Shape, ThreadShape
<1> QED
  BY <1>1, <1>2, <1>3, <1>4 DEF Next

-----------------------------------------------------------------------------
(* Every kind of step preserves the invariant *)

Parts == Ids /\ Slots /\ Opens /\ Fills /\ Told /\ Locks /\ AtWork

LEMMA InvTypes ==
  ASSUME TypeOK
  PROVE  /\ alloc_id \in Nat /\ alloc_id <= lim.id /\ lim.id \in Nat /\ pipe \in Seq(Request)
         /\ \A r \in Request : r.id \in Nat
         /\ \A i \in Slot : s[i].id \in Nat /\ s[i].tag \in Nat /\ s[i].sending \in Int
         /\ \A id \in Nat : Hash(id) \in Slot
         /\ \A id : id \in Id <=> id \in 1..lim.id
<1>1. alloc_id \in 0..lim.id /\ lim.id \in Nat
  BY Geometry DEF TypeOK
<1>2. \A r \in Request : r.id \in Nat
  BY DEF Request
<1>3. \A i \in Slot : s[i].id \in Nat /\ s[i].tag \in Nat /\ s[i].sending \in Int
  BY DEF TypeOK, Socket
<1> QED
  BY <1>1, <1>2, <1>3, Geometry DEF TypeOK, Id

LEMMA ReservingKeeps ==
  ASSUME IInv, lim' = lim, TypeOK', NEW v \in Service, NEW n \in Nat, Reserving(v, n)
  PROVE  Parts'
<1> USE DEF IInv
<1>1. /\ Slot' = Slot /\ Id' = Id /\ \A e : Hash(e)' = Hash(e)
  BY GeometryKept
<1>2. /\ alloc_id \in Nat /\ (\A j \in Slot : s[j].id \in Nat) /\ (\A e \in Nat : Hash(e) \in Slot)
      /\ (\A e : e \in Id <=> e \in 1..lim.id) /\ (\A q \in Request : q.id \in Nat)
      /\ lim.id \in Nat /\ alloc_id <= lim.id
  BY InvTypes
<1>3. PICK i \in Slot : i = Hash(n)
  BY <1>2
<1>4. /\ at[v].pc = "idle" /\ n \in Id /\ n > alloc_id /\ s[i].type = "INVALID" /\ alloc_id' = n
      /\ at'[v].pc = "fill" /\ at'[v].id = n /\ (\A w \in Service : w # v => at'[w] = at[w])
      /\ pipe' = pipe /\ st' = st /\ told' = told /\ ended' = ended
  BY <1>3 DEF Reserving, Steps
<1>5. /\ s'[i].type = "RESERVE" /\ s'[i].id = s[i].id /\ s'[i].protocol = s[i].protocol
      /\ s'[i].tag = s[i].tag /\ s'[i].lock = s[i].lock
      /\ \A j \in Slot : j # i => s'[j] = s[j]
  BY <1>3 DEF Reserving, SetsType, Becomes
<1>6. Ids'
  BY <1>1, <1>2, <1>4, <1>5 DEF Ids
<1>7. Slots'
  BY <1>1, <1>4, <1>5 DEF Slots, Closed
<1>8. Opens'
  BY <1>1, <1>2, <1>4, <1>5 DEF Opens, Reserved, Known
<1>9. Fills'
  BY <1>1, <1>2, <1>3, <1>4, <1>5 DEF Fills, Ids, Opens, Reserved
<1>10. Told'
  BY <1>1, <1>4 DEF Told, Known, WithPackage
<1>11. Locks'
  BY <1>1, <1>2, <1>4, <1>5 DEF Locks, Closed
<1>12. AtWork'
  BY <1>1, <1>4, <1>5 DEF AtWork, AtSlot, Closed
<1> QED
  BY <1>6, <1>7, <1>8, <1>9, <1>10, <1>11, <1>12 DEF Parts

\* Nothing that a step does concerns the services that fill in a slot.
LEMMA FillsKept ==
  ASSUME Fills, lim' = lim,
         \A w \in Service : at'[w].pc = "fill" => at'[w] = at[w],
         \A w \in Service, e \in Nat : at[w].pc = "fill" /\ at'[w].pc = "fill" /\ at[w].id = e =>
            /\ s'[Hash(e)].type = "RESERVE" /\ told'[e] = "none" /\ ended'[e] = "no"
            /\ \A r \in Request : Member(pipe', r) => Member(pipe, r) \/ (r.id # e /\ (r.c \in Opening => Hash(r.id) # Hash(e)))
  PROVE  Fills'
<1>1. \A e : Hash(e)' = Hash(e)
  BY GeometryKept
<1>2. ASSUME NEW w \in Service, NEW e \in Nat, at'[w].pc = "fill", at'[w].id = e
      PROVE  /\ s'[Hash(e)].type = "RESERVE" /\ told'[e] = "none" /\ ended'[e] = "no"
             /\ \A r \in Request : Member(pipe', r) => r.id # e /\ (r.c \in Opening => Hash(r.id) # Hash(e))
             /\ \A u \in Service, d \in Nat : at'[u].pc = "fill" /\ at'[u].id = d /\ Hash(d) = Hash(e) => u = w
  <2>1. at[w].pc = "fill" /\ at[w].id = e
    BY <1>2
  <2>2. s'[Hash(e)].type = "RESERVE" /\ told'[e] = "none" /\ ended'[e] = "no"
    BY <1>2, <2>1
  <2>3. \A r \in Request : Member(pipe', r) => r.id # e /\ (r.c \in Opening => Hash(r.id) # Hash(e))
    BY <1>2, <2>1 DEF Fills
  <2>4. \A u \in Service, d \in Nat : at'[u].pc = "fill" /\ at'[u].id = d /\ Hash(d) = Hash(e) => u = w
    BY <2>1 DEF Fills
  <2> QED
    BY <2>2, <2>3, <2>4
<1> QED
  BY <1>1, <1>2 DEF Fills

LEMMA PackingKeeps ==
  ASSUME IInv, lim' = lim, TypeOK', NEW v \in Service, NEW n \in Nat, Packing(v, n)
  PROVE  Parts'
<1> USE DEF IInv
<1>1. /\ Slot' = Slot /\ Id' = Id /\ \A e : Hash(e)' = Hash(e)
  BY GeometryKept
<1>2. /\ alloc_id \in Nat /\ (\A j \in Slot : s[j].id \in Nat) /\ (\A e \in Nat : Hash(e) \in Slot)
      /\ (\A e : e \in Id <=> e \in 1..lim.id) /\ (\A q \in Request : q.id \in Nat)
      /\ lim.id \in Nat /\ alloc_id <= lim.id /\ pipe \in Seq(Request)
  BY InvTypes
<1>3. n \in Id /\ told[n] \notin {"none", "listen"} /\ n \in 1..alloc_id
  BY <1>2 DEF Packing, Known, Ids
<1>4. /\ at[v].pc = "idle" /\ at'[v].pc \in {"look", "ref"} /\ at'[v].id = n
      /\ (\A w \in Service : w # v => at'[w] = at[w])
  BY DEF Packing, Steps
<1>5. alloc_id' = alloc_id /\ s' = s /\ pipe' = pipe /\ st' = st /\ told' = told /\ ended' = ended
  BY DEF Packing
<1>6. Ids'
  BY <1>1, <1>3, <1>4, <1>5 DEF Ids
<1>7. Slots'
  BY <1>1, <1>5 DEF Slots
<1>8. Opens'
  BY <1>1, <1>5 DEF Opens, Reserved, Known
<1>9. Fills'
  BY <1>1, <1>4, <1>5 DEF Fills
<1>10. Told'
  BY <1>1, <1>3, <1>4, <1>5 DEF Told, Known
<1>11. Locks'
  BY <1>1, <1>4, <1>5 DEF Locks
<1>12. AtWork'
  BY <1>1, <1>5 DEF AtWork
<1> QED
  BY <1>6, <1>7, <1>8, <1>9, <1>10, <1>11, <1>12 DEF Parts

LEMMA GoingKeeps ==
  ASSUME IInv, lim' = lim, TypeOK', NEW v \in Service, NEW n \in Nat, Going(v, n)
  PROVE  Parts'
<1> USE DEF IInv
<1>1. /\ Slot' = Slot /\ Id' = Id /\ \A e : Hash(e)' = Hash(e)
  BY GeometryKept
<1>2. /\ alloc_id \in Nat /\ (\A j \in Slot : s[j].id \in Nat) /\ (\A e \in Nat : Hash(e) \in Slot)
      /\ (\A e : e \in Id <=> e \in 1..lim.id) /\ (\A q \in Request : q.id \in Nat)
      /\ lim.id \in Nat /\ alloc_id <= lim.id /\ pipe \in Seq(Request)
  BY InvTypes
<1>3. PICK i \in Slot : i = Hash(n)
  BY <1>2
<1>4. /\ at[v].id = n /\ at'[v].id = n /\ (\A w \in Service : w # v => at'[w] = at[w])
      /\ \/ at[v].pc = "look" /\ at'[v].pc = "ref"
         \/ at[v].pc = "check" /\ s[i].id = n /\ at'[v].pc = "check2"
  BY <1>3 DEF Going, Steps
<1>5. alloc_id' = alloc_id /\ s' = s /\ pipe' = pipe /\ st' = st /\ told' = told /\ ended' = ended
  BY DEF Going
<1>6. Ids'
  BY <1>1, <1>4, <1>5 DEF Ids
<1>7. Slots'
  BY <1>1, <1>5 DEF Slots
<1>8. Opens'
  BY <1>1, <1>5 DEF Opens, Reserved, Known
<1>9. Fills'
  <2>1. \A w \in Service : at'[w].pc = "fill" => at'[w] = at[w]
    BY <1>4
  <2>2. \A w \in Service, e \in Nat : at[w].pc = "fill" /\ at'[w].pc = "fill" /\ at[w].id = e =>
           /\ s'[Hash(e)].type = "RESERVE" /\ told'[e] = "none" /\ ended'[e] = "no"
    BY <1>5 DEF Fills
  <2>3. \A w \in Service, e \in Nat : at[w].pc = "fill" /\ at'[w].pc = "fill" /\ at[w].id = e =>
           \A q \in Request : Member(pipe', q) => Member(pipe, q) \/ (q.id # e /\ (q.c \in Opening => Hash(q.id) # Hash(e)))
    BY <1>5
  <2> QED
    BY <2>1, <2>2, <2>3, FillsKept
<1>10. Told'
  BY <1>1, <1>4, <1>5 DEF Told, Known, WithPackage
<1>11. Locks'
  BY <1>1, <1>3, <1>4, <1>5 DEF Locks
<1>12. AtWork'
  BY <1>1, <1>5 DEF AtWork
<1> QED
  BY <1>6, <1>7, <1>8, <1>9, <1>10, <1>11, <1>12 DEF Parts

LEMMA LockingKeeps ==
  ASSUME IInv, lim' = lim, TypeOK', NEW v \in Service, NEW n \in Nat, Locking(v, n)
  PROVE  Parts'
<1> USE DEF IInv
<1>1. /\ Slot' = Slot /\ Id' = Id /\ \A e : Hash(e)' = Hash(e)
  BY GeometryKept
<1>2. /\ alloc_id \in Nat /\ (\A j \in Slot : s[j].id \in Nat) /\ (\A e \in Nat : Hash(e) \in Slot)
      /\ (\A e : e \in Id <=> e \in 1..lim.id) /\ (\A q \in Request : q.id \in Nat)
      /\ lim.id \in Nat /\ alloc_id <= lim.id /\ pipe \in Seq(Request)
  BY InvTypes
<1>3. PICK i \in Slot : i = Hash(n)
  BY <1>2
<1>4. /\ at[v].pc = "look" /\ at[v].id = n /\ s[i].lock = Nobody /\ s[i].type = "CONNECTED"
      /\ at'[v].pc = "check" /\ at'[v].id = n /\ (\A w \in Service : w # v => at'[w] = at[w])
      /\ alloc_id' = alloc_id /\ pipe' = pipe /\ st' = st /\ told' = told /\ ended' = ended
  BY <1>3 DEF Locking, Steps
<1>5. /\ s'[i].type = s[i].type /\ s'[i].id = s[i].id /\ s'[i].protocol = s[i].protocol
      /\ s'[i].tag = s[i].tag /\ s'[i].lock = v
      /\ \A j \in Slot : j # i => s'[j] = s[j]
  BY <1>3, <1>4 DEF Locking, SetsLock, Becomes
<1>6. Ids'
  BY <1>1, <1>4, <1>5 DEF Ids
<1>7. Slots'
  BY <1>1, <1>4, <1>5 DEF Slots
<1>8. Opens'
  BY <1>1, <1>2, <1>4, <1>5 DEF Opens, Reserved, Known
<1>9. Fills'
  <2>1. \A w \in Service : at'[w].pc = "fill" => at'[w] = at[w]
    BY <1>4
  <2>2. \A w \in Service, e \in Nat : at[w].pc = "fill" /\ at'[w].pc = "fill" /\ at[w].id = e =>
           /\ s'[Hash(e)].type = "RESERVE" /\ told'[e] = "none" /\ ended'[e] = "no"
    BY <1>2, <1>4, <1>5 DEF Fills
  <2>3. \A w \in Service, e \in Nat : at[w].pc = "fill" /\ at'[w].pc = "fill" /\ at[w].id = e =>
           \A q \in Request : Member(pipe', q) => Member(pipe, q) \/ (q.id # e /\ (q.c \in Opening => Hash(q.id) # Hash(e)))
    BY <1>4
  <2> QED
    BY <2>1, <2>2, <2>3, FillsKept
<1>10. Told'
  BY <1>1, <1>4 DEF Told, Known, WithPackage
<1>11. Locks'
  BY <1>1, <1>2, <1>3, <1>4, <1>5, HolderAssumption DEF Locks, Closed
<1>12. AtWork'
  BY <1>1, <1>4, <1>5, HolderAssumption DEF AtWork, AtSlot
<1> QED
  BY <1>6, <1>7, <1>8, <1>9, <1>10, <1>11, <1>12 DEF Parts

LEMMA UnlockingKeeps ==
  ASSUME IInv, lim' = lim, TypeOK', NEW v \in Service, NEW n \in Nat, Unlocking(v, n)
  PROVE  Parts'
<1> USE DEF IInv
<1>1. /\ Slot' = Slot /\ Id' = Id /\ \A e : Hash(e)' = Hash(e)
  BY GeometryKept
<1>2. /\ alloc_id \in Nat /\ (\A j \in Slot : s[j].id \in Nat) /\ (\A e \in Nat : Hash(e) \in Slot)
      /\ (\A e : e \in Id <=> e \in 1..lim.id) /\ (\A q \in Request : q.id \in Nat)
      /\ lim.id \in Nat /\ alloc_id <= lim.id /\ pipe \in Seq(Request)
  BY InvTypes
<1>3. PICK i \in Slot : i = Hash(n)
  BY <1>2
<1>4. /\ at[v].pc \in {"check", "check2"} /\ at[v].id = n
      /\ at'[v].pc = "idle" \/ (at'[v].pc = "ref" /\ at'[v].id = n)
      /\ (\A w \in Service : w # v => at'[w] = at[w])
      /\ alloc_id' = alloc_id /\ pipe' = pipe /\ st' = st /\ told' = told /\ ended' = ended
  BY <1>3 DEF Unlocking, Steps
<1>5. /\ s'[i].type = s[i].type /\ s'[i].id = s[i].id /\ s'[i].protocol = s[i].protocol
      /\ s'[i].tag = s[i].tag /\ s'[i].lock = Nobody
      /\ \A j \in Slot : j # i => s'[j] = s[j]
  BY <1>3, <1>4 DEF Unlocking, SetsLock, Becomes
<1>6. Ids'
  BY <1>1, <1>4, <1>5 DEF Ids
<1>7. Slots'
  <2>1. \A j \in Slot, e \in Nat : s'[j].protocol = "TCP" /\ s'[j].id = e => s'[j].tag = e /\ Hash(e) = j
    BY <1>5 DEF Slots
  <2>2. \A j \in Slot : s'[j].type \notin Closed => s'[j].protocol = "TCP"
    BY <1>5 DEF Slots
  <2>3. \A j \in Slot, e \in Nat : s'[j].type \notin Closed /\ s'[j].id = e => e \in Id /\ Hash(e) = j /\ ended'[e] = "no"
    BY <1>4, <1>5 DEF Slots
  <2> QED
    BY <1>1, <2>1, <2>2, <2>3 DEF Slots
<1>8. Opens'
  BY <1>1, <1>2, <1>4, <1>5 DEF Opens, Reserved, Known
<1>9. Fills'
  <2>1. \A w \in Service : at'[w].pc = "fill" => at'[w] = at[w]
    BY <1>4
  <2>2. \A w \in Service, e \in Nat : at[w].pc = "fill" /\ at'[w].pc = "fill" /\ at[w].id = e =>
           /\ s'[Hash(e)].type = "RESERVE" /\ told'[e] = "none" /\ ended'[e] = "no"
    BY <1>2, <1>4, <1>5 DEF Fills
  <2>3. \A w \in Service, e \in Nat : at[w].pc = "fill" /\ at'[w].pc = "fill" /\ at[w].id = e =>
           \A q \in Request : Member(pipe', q) => Member(pipe, q) \/ (q.id # e /\ (q.c \in Opening => Hash(q.id) # Hash(e)))
    BY <1>4
  <2> QED
    BY <2>1, <2>2, <2>3, FillsKept
<1>10. Told'
  BY <1>1, <1>4 DEF Told, Known, WithPackage
<1>11. Locks'
  BY <1>1, <1>2, <1>3, <1>4, <1>5 DEF Locks, Closed
<1>12. AtWork'
  BY <1>1, <1>3, <1>4, <1>5, HolderAssumption DEF AtWork, AtSlot, Locks
<1> QED
  BY <1>6, <1>7, <1>8, <1>9, <1>10, <1>11, <1>12 DEF Parts

LEMMA CountingKeeps ==
  ASSUME IInv, lim' = lim, TypeOK', NEW v \in Service, NEW n \in Nat, Counting(v, n)
  PROVE  Parts'
<1> USE DEF IInv
<1>1. /\ Slot' = Slot /\ Id' = Id /\ \A e : Hash(e)' = Hash(e)
  BY GeometryKept
<1>2. /\ alloc_id \in Nat /\ (\A j \in Slot : s[j].id \in Nat) /\ (\A e \in Nat : Hash(e) \in Slot)
      /\ (\A e : e \in Id <=> e \in 1..lim.id) /\ (\A q \in Request : q.id \in Nat)
      /\ lim.id \in Nat /\ alloc_id <= lim.id /\ pipe \in Seq(Request)
  BY InvTypes
<1>3. PICK i \in Slot : i = Hash(n)
  BY <1>2
<1>4. /\ at[v].pc = "ref" /\ at[v].id = n /\ at'[v].pc = "push" /\ at'[v].id = n
      /\ (\A w \in Service : w # v => at'[w] = at[w])
      /\ alloc_id' = alloc_id /\ pipe' = pipe /\ st' = st /\ told' = told /\ ended' = ended
  BY <1>3 DEF Counting, Steps
<1>5. /\ s'[i].type = s[i].type /\ s'[i].id = s[i].id /\ s'[i].protocol = s[i].protocol
      /\ s'[i].tag = s[i].tag /\ s'[i].lock = s[i].lock
      /\ \A j \in Slot : j # i => s'[j] = s[j]
  BY <1>3, <1>4 DEF Counting, SetsCount, Becomes
<1>6. Ids'
  <2>1. \A j \in Slot : s'[j].id <= alloc_id'
    BY <1>4, <1>5 DEF Ids
  <2>2. \A q \in Request : Member(pipe', q) => q.id \in 1..alloc_id'
    BY <1>4 DEF Ids
  <2>3. \A w \in Service : at'[w].pc # "idle" => at'[w].id \in 1..alloc_id'
    BY <1>4 DEF Ids
  <2>4. \A e \in Id : e > alloc_id' => told'[e] = "none" /\ ended'[e] = "no"
    BY <1>4 DEF Ids
  <2> QED
    BY <1>1, <2>1, <2>2, <2>3, <2>4 DEF Ids
<1>7. Slots'
  <2>1. \A j \in Slot, e \in Nat : s'[j].protocol = "TCP" /\ s'[j].id = e => s'[j].tag = e /\ Hash(e) = j
    BY <1>4, <1>5 DEF Slots
  <2>2. \A j \in Slot : s'[j].type \notin Closed => s'[j].protocol = "TCP"
    BY <1>4, <1>5 DEF Slots
  <2>3. \A j \in Slot, e \in Nat : s'[j].type \notin Closed /\ s'[j].id = e => e \in Id /\ Hash(e) = j /\ ended'[e] = "no"
    BY <1>4, <1>5 DEF Slots
  <2> QED
    BY <1>1, <2>1, <2>2, <2>3 DEF Slots
<1>8. Opens'
  BY <1>1, <1>2, <1>4, <1>5 DEF Opens, Reserved, Known
<1>9. Fills'
  <2>1. \A w \in Service : at'[w].pc = "fill" => at'[w] = at[w]
    BY <1>4
  <2>2. \A w \in Service, e \in Nat : at[w].pc = "fill" /\ at'[w].pc = "fill" /\ at[w].id = e =>
           /\ s'[Hash(e)].type = "RESERVE" /\ told'[e] = "none" /\ ended'[e] = "no"
    BY <1>2, <1>4, <1>5 DEF Fills
  <2>3. \A w \in Service, e \in Nat : at[w].pc = "fill" /\ at'[w].pc = "fill" /\ at[w].id = e =>
           \A q \in Request : Member(pipe', q) => Member(pipe, q) \/ (q.id # e /\ (q.c \in Opening => Hash(q.id) # Hash(e)))
    BY <1>4
  <2> QED
    BY <2>1, <2>2, <2>3, FillsKept
<1>10. Told'
  BY <1>1, <1>4 DEF Told, Known, WithPackage
<1>11. Locks'
  BY <1>1, <1>2, <1>4, <1>5 DEF Locks
<1>12. AtWork'
  BY <1>1, <1>4, <1>5 DEF AtWork, AtSlot
<1> QED
  BY <1>6, <1>7, <1>8, <1>9, <1>10, <1>11, <1>12 DEF Parts

LEMMA PostingKeeps ==
  ASSUME IInv, lim' = lim, TypeOK', NEW v \in Service, NEW n \in Nat, NEW r \in Request, Posting(v, n, r)
  PROVE  Parts'
<1> USE DEF IInv
<1>1. /\ Slot' = Slot /\ Id' = Id /\ \A e : Hash(e)' = Hash(e)
  BY GeometryKept
<1>2. /\ alloc_id \in Nat /\ (\A j \in Slot : s[j].id \in Nat) /\ (\A e \in Nat : Hash(e) \in Slot)
      /\ (\A e : e \in Id <=> e \in 1..lim.id) /\ (\A q \in Request : q.id \in Nat)
      /\ lim.id \in Nat /\ alloc_id <= lim.id /\ pipe \in Seq(Request)
  BY InvTypes
<1>3. r.c \in Sending /\ r.c \notin Opening /\ r.id = n
  BY DEF Posting, Sending, Opening
<1>4. /\ at[v].pc = "push" /\ at[v].id = n /\ at'[v].pc = "idle"
      /\ (\A w \in Service : w # v => at'[w] = at[w])
      /\ pipe' = Append(pipe, r)
      /\ alloc_id' = alloc_id /\ s' = s /\ st' = st /\ told' = told /\ ended' = ended
  BY DEF Posting, Steps
<1>5. First(pipe) /\ (\A x : Member(pipe', x) <=> x = r \/ Member(pipe, x))
      /\ ((r.c \in Opening => \A x \in Request : Member(pipe, x) => x.id # r.id) => First(pipe'))
  BY <1>2, <1>4, AppendPipe DEF Opens
<1>6. Ids'
  BY <1>1, <1>3, <1>4, <1>5 DEF Ids
<1>7. Slots'
  BY <1>1, <1>4 DEF Slots
<1>8. Opens'
  BY <1>1, <1>3, <1>4, <1>5 DEF Opens, Reserved, Known
<1>9. Fills'
  <2>1. \A w \in Service : at'[w].pc = "fill" => at'[w] = at[w]
    BY <1>4
  <2>2. \A w \in Service, e \in Nat : at[w].pc = "fill" /\ at'[w].pc = "fill" /\ at[w].id = e =>
           /\ s'[Hash(e)].type = "RESERVE" /\ told'[e] = "none" /\ ended'[e] = "no"
    BY <1>4 DEF Fills
  <2>3. \A w \in Service, e \in Nat : at[w].pc = "fill" /\ at'[w].pc = "fill" /\ at[w].id = e =>
           \A q \in Request : Member(pipe', q) => Member(pipe, q) \/ (q.id # e /\ (q.c \in Opening => Hash(q.id) # Hash(e)))
    BY <1>3, <1>4, <1>5 DEF Fills, Told, Known, WithPackage
  <2> QED
    BY <2>1, <2>2, <2>3, FillsKept
<1>10. Told'
  BY <1>1, <1>3, <1>4, <1>5 DEF Told, Known, WithPackage
<1>11. Locks'
  BY <1>1, <1>4 DEF Locks
<1>12. AtWork'
  BY <1>1, <1>4 DEF AtWork
<1> QED
  BY <1>6, <1>7, <1>8, <1>9, <1>10, <1>11, <1>12 DEF Parts

LEMMA AskingKeeps ==
  ASSUME IInv, lim' = lim, TypeOK', NEW r \in Request, Asking(r)
  PROVE  Parts'
<1> USE DEF IInv
<1>1. /\ Slot' = Slot /\ Id' = Id /\ \A e : Hash(e)' = Hash(e)
  BY GeometryKept
<1>2. /\ alloc_id \in Nat /\ (\A j \in Slot : s[j].id \in Nat) /\ (\A e \in Nat : Hash(e) \in Slot)
      /\ (\A e : e \in Id <=> e \in 1..lim.id) /\ (\A q \in Request : q.id \in Nat)
      /\ lim.id \in Nat /\ alloc_id <= lim.id /\ pipe \in Seq(Request)
  BY InvTypes
<1>3. r.c \notin Sending /\ r.c \notin Opening /\ r.id \in Id /\ told[r.id] # "none"
  BY DEF Asking, Sending, Opening
<1>4. /\ pipe' = Append(pipe, r) /\ at' = at
      /\ alloc_id' = alloc_id /\ s' = s /\ st' = st /\ told' = told /\ ended' = ended
  BY DEF Asking
<1>5. First(pipe) /\ (\A x : Member(pipe', x) <=> x = r \/ Member(pipe, x))
      /\ ((r.c \in Opening => \A x \in Request : Member(pipe, x) => x.id # r.id) => First(pipe'))
  BY <1>2, <1>4, AppendPipe DEF Opens
<1>6. Ids'
  BY <1>1, <1>2, <1>3, <1>4, <1>5 DEF Ids
<1>7. Slots'
  BY <1>1, <1>4 DEF Slots
<1>8. Opens'
  BY <1>1, <1>3, <1>4, <1>5 DEF Opens, Reserved, Known
<1>9. Fills'
  BY <1>1, <1>3, <1>4, <1>5 DEF Fills
<1>10. Told'
  BY <1>1, <1>3, <1>4, <1>5 DEF Told, Known
<1>11. Locks'
  BY <1>1, <1>4 DEF Locks
<1>12. AtWork'
  BY <1>1, <1>4 DEF AtWork
<1> QED
  BY <1>6, <1>7, <1>8, <1>9, <1>10, <1>11, <1>12 DEF Parts

LEMMA FillingKeeps ==
  ASSUME IInv, lim' = lim, TypeOK', NEW v \in Service, NEW n \in Nat, NEW r \in Request, Filling(v, n, r)
  PROVE  Parts'
<1> USE DEF IInv
<1>1. /\ Slot' = Slot /\ Id' = Id /\ \A e : Hash(e)' = Hash(e)
  BY GeometryKept
<1>2. /\ alloc_id \in Nat /\ (\A j \in Slot : s[j].id \in Nat) /\ (\A e \in Nat : Hash(e) \in Slot)
      /\ (\A e : e \in Id <=> e \in 1..lim.id) /\ (\A q \in Request : q.id \in Nat)
      /\ lim.id \in Nat /\ alloc_id <= lim.id /\ pipe \in Seq(Request)
  BY InvTypes
<1>3. PICK i \in Slot : i = Hash(n)
  BY <1>2
<1>4. /\ at[v].pc = "fill" /\ at[v].id = n /\ at'[v].pc = "idle" /\ r.c \in Opening /\ r.id = n
      /\ (\A w \in Service : w # v => at'[w] = at[w])
      /\ pipe' = Append(pipe, r) /\ (\A e \in Id : e # n => told'[e] = told[e])
      /\ told'[n] \in {told[n], "listen"}
      /\ alloc_id' = alloc_id /\ st' = st /\ ended' = ended
  BY <1>3 DEF Filling, Steps, ToldOf
<1>5. /\ s'[i].type = s[i].type /\ s'[i].id = n /\ s'[i].protocol = "UNKNOWN"
      /\ s'[i].tag = s[i].tag /\ s'[i].lock = s[i].lock
      /\ \A j \in Slot : j # i => s'[j] = s[j]
  BY <1>3, <1>4 DEF Filling, Becomes
<1>6. First(pipe) /\ (\A x : Member(pipe', x) <=> x = r \/ Member(pipe, x))
      /\ ((r.c \in Opening => \A x \in Request : Member(pipe, x) => x.id # r.id) => First(pipe'))
  BY <1>2, <1>4, AppendPipe DEF Opens
<1>7. /\ s[i].type = "RESERVE" /\ told[n] = "none" /\ ended[n] = "no" /\ n \in 1..alloc_id /\ n \in Id
      /\ \A x \in Request : Member(pipe, x) => x.id # n /\ (x.c \in Opening => Hash(x.id) # i)
      /\ \A w \in Service, e \in Nat : at[w].pc = "fill" /\ at[w].id = e /\ Hash(e) = i => w = v
  BY <1>2, <1>3, <1>4 DEF Fills, Ids
<1>8. r.c \notin Sending
  BY <1>4 DEF Opening, Sending
<1>17. \A q \in Request : Member(pipe, q) => q.id # n /\ told'[q.id] = told[q.id] /\ ended'[q.id] = ended[q.id]
  <2>1. ASSUME NEW q \in Request, Member(pipe, q) PROVE q.id # n /\ q.id \in Id
    BY <1>2, <1>7, <2>1 DEF Ids
  <2> QED
    BY <1>4, <2>1
<1>18. \A w \in Service, e \in Nat : at[w].pc # "idle" /\ at[w].id = e /\ e # n => told'[e] = told[e]
  BY <1>2, <1>4, <1>7 DEF Ids
<1>9. Ids'
  <2>1. \A j \in Slot : s'[j].id <= alloc_id'
    BY <1>4, <1>5 DEF Ids
  <2>2. \A q \in Request : Member(pipe', q) => q.id \in 1..alloc_id'
    BY <1>4, <1>6 DEF Ids
  <2>3. \A w \in Service : at'[w].pc # "idle" => at'[w].id \in 1..alloc_id'
    BY <1>4 DEF Ids
  <2>4. \A e \in Id : e > alloc_id' => told'[e] = "none" /\ ended'[e] = "no"
    BY <1>2, <1>4 DEF Ids
  <2> QED
    BY <1>1, <2>1, <2>2, <2>3, <2>4 DEF Ids
<1>10. Slots'
  <2>1. \A j \in Slot, e \in Nat : s'[j].protocol = "TCP" /\ s'[j].id = e => s'[j].tag = e /\ Hash(e) = j
    BY <1>1, <1>5 DEF Slots
  <2>2. \A j \in Slot : s'[j].type \notin Closed => s'[j].protocol = "TCP"
    BY <1>5, <1>7 DEF Slots, Closed
  <2>3. \A j \in Slot, e \in Nat : s'[j].type \notin Closed /\ s'[j].id = e => e \in Id /\ Hash(e) = j /\ ended'[e] = "no"
    BY <1>4, <1>5, <1>7 DEF Slots, Closed
  <2> QED
    BY <1>1, <2>1, <2>2, <2>3 DEF Slots
<1>11. Opens'
  <2>1. First(pipe')
    BY <1>4, <1>6, <1>7
  <2>2. \A q \in Request : Member(pipe', q) /\ q.c \in Opening => Reserved(Hash(q.id), q.id)'
    BY <1>1, <1>2, <1>3, <1>4, <1>5, <1>6, <1>7 DEF Opens, Reserved
  <2>3. \A q \in Request : Member(pipe', q) /\ q.c \in Opening => told'[q.id] \in {"none", "listen"} /\ ended'[q.id] = "no"
    <3>1. \A q \in Request : Member(pipe, q) /\ q.c \in Opening => told[q.id] \in {"none", "listen"} /\ ended[q.id] = "no"
      BY DEF Opens, Known, TypeOK
    <3> QED
      BY <1>4, <1>6, <1>7, <1>17, <3>1
  <2> QED
    BY <1>1, <2>1, <2>2, <2>3 DEF Opens, Known
<1>12. Fills'
  <2>1. \A w \in Service : at'[w].pc = "fill" => at'[w] = at[w]
    BY <1>4
  <2>2. \A w \in Service, e \in Nat : at[w].pc = "fill" /\ at'[w].pc = "fill" /\ at[w].id = e =>
           /\ s'[Hash(e)].type = "RESERVE" /\ told'[e] = "none" /\ ended'[e] = "no"
    <3> SUFFICES ASSUME NEW w \in Service, NEW e \in Nat, at[w].pc = "fill", at'[w].pc = "fill", at[w].id = e
                 PROVE  s'[Hash(e)].type = "RESERVE" /\ told'[e] = "none" /\ ended'[e] = "no"
      OBVIOUS
    <3>1. w # v /\ Hash(e) # i /\ e # n /\ Hash(e) \in Slot
      BY <1>2, <1>3, <1>4, <1>7
    <3>2. s[Hash(e)].type = "RESERVE" /\ told[e] = "none" /\ ended[e] = "no"
      BY DEF Fills
    <3> QED
      BY <1>4, <1>5, <1>18, <3>1, <3>2
  <2>3. \A w \in Service, e \in Nat : at[w].pc = "fill" /\ at'[w].pc = "fill" /\ at[w].id = e =>
           \A q \in Request : Member(pipe', q) => Member(pipe, q) \/ (q.id # e /\ (q.c \in Opening => Hash(q.id) # Hash(e)))
    BY <1>4, <1>6 DEF Fills
  <2> QED
    BY <2>1, <2>2, <2>3, FillsKept
<1>13. Told'
  <2>1. \A q \in Request : Member(pipe', q) /\ q.c \in Sending => told'[q.id] \notin {"none", "listen"}
    BY <1>6, <1>8, <1>17 DEF Told, Known
  <2>2. \A w \in Service : at'[w].pc \in WithPackage => told'[at'[w].id] \notin {"none", "listen"}
    <3> SUFFICES ASSUME NEW w \in Service, at'[w].pc \in WithPackage
                 PROVE  told'[at'[w].id] \notin {"none", "listen"}
      OBVIOUS
    <3>1. w # v /\ at'[w] = at[w] /\ at[w].pc # "idle" /\ at[w].id \in Nat
      BY <1>4, PlaceFacts DEF WithPackage
    <3>2. told[at[w].id] \notin {"none", "listen"} /\ at[w].id # n
      BY <1>7, <3>1 DEF Told, Known
    <3> QED
      BY <1>18, <3>1, <3>2
  <2>3. \A e \in Id : ended'[e] # "no" => told'[e] = "end"
    BY <1>4, <1>7 DEF Told
  <2> QED
    BY <1>1, <2>1, <2>2, <2>3 DEF Told, Known
<1>14. Locks'
  BY <1>1, <1>2, <1>3, <1>4, <1>5, <1>6, <1>7, <1>8 DEF Locks, Closed
<1>15. AtWork'
  BY <1>1, <1>4, <1>5 DEF AtWork, AtSlot
<1> QED
  BY <1>9, <1>10, <1>11, <1>12, <1>13, <1>14, <1>15 DEF Parts

LEMMA OpenedKeeps ==
  ASSUME IInv, lim' = lim, TypeOK', NEW r \in Request, NEW t \in SlotType, Opened(r, t)
  PROVE  Parts'
<1> USE DEF IInv
<1>1. /\ Slot' = Slot /\ Id' = Id /\ \A e : Hash(e)' = Hash(e)
  BY GeometryKept
<1>2. /\ alloc_id \in Nat /\ (\A j \in Slot : s[j].id \in Nat) /\ (\A e \in Nat : Hash(e) \in Slot)
      /\ (\A e : e \in Id <=> e \in 1..lim.id) /\ (\A q \in Request : q.id \in Nat)
      /\ lim.id \in Nat /\ alloc_id <= lim.id /\ pipe \in Seq(Request)
  BY InvTypes
<1>3. /\ pipe # <<>> /\ r = Head(pipe) /\ r \in Request /\ pipe' = Tail(pipe) /\ First(pipe)
      /\ Member(pipe, r) /\ First(pipe') /\ (\A q : Member(pipe', q) => Member(pipe, q))
      /\ (\A q : Member(pipe', q) /\ q.c \in Opening => q.id # r.id)
  BY <1>2, TailPipe DEF Takes1, Opens, Opened
<1>4. PICK n \in Nat, i \in Slot : n = r.id /\ i = Hash(n) /\ n \in 1..alloc_id /\ n \in Id
  BY <1>2, <1>3 DEF Ids
<1>5. /\ s[i].type = "RESERVE" /\ s[i].id = n /\ s[i].protocol = "UNKNOWN" /\ ended[n] = "no" /\ ~Known(n)
  BY <1>3, <1>4 DEF Opened, Opens, Reserved
<1>6. /\ s'[i].type = t /\ s'[i].id = n /\ s'[i].protocol = "TCP"
      /\ s'[i].tag = n /\ s'[i].lock = s[i].lock
      /\ \A j \in Slot : j # i => s'[j] = s[j]
  BY <1>3, <1>4, <1>5 DEF Opened, Makes, Becomes
<1>7. /\ t \notin Closed /\ r.c \in Opening /\ st'.pc \notin AtSlot /\ alloc_id' = alloc_id /\ at' = at /\ ended' = ended
      /\ (\A e \in Id : e # n => told'[e] = told[e])
  BY <1>4, ThreadPlaces DEF Opened, Makes, ToldOf
<1>8. \A q \in Request : Member(pipe', q) /\ q.c \in Opening => Hash(q.id) # i /\ q.id # n
  BY <1>3, <1>4, <1>5 DEF Opens, Reserved
<1>9. \A w \in Service, e \in Nat : at[w].pc = "fill" /\ at[w].id = e => Hash(e) # i /\ e # n /\ e \in Id
  BY <1>2, <1>3, <1>4, <1>7 DEF Fills, Ids
<1>10. \A q \in Request : Member(pipe', q) /\ q.c \in Sending => q.id # n /\ q.id \in Id
  BY <1>2, <1>3, <1>5 DEF Told, Ids
<1>11. \A w \in Service : at[w].pc \in WithPackage => at[w].id # n /\ at[w].id \in Id
  BY <1>2, <1>5 DEF Told, Ids, WithPackage
<1>12. Ids'
  <2>1. \A j \in Slot : s'[j].id <= alloc_id'
    BY <1>5, <1>6, <1>7 DEF Ids
  <2>2. \A q \in Request : Member(pipe', q) => q.id \in 1..alloc_id'
    BY <1>3, <1>7 DEF Ids
  <2>3. \A w \in Service : at'[w].pc # "idle" => at'[w].id \in 1..alloc_id'
    BY <1>7 DEF Ids
  <2>4. \A e \in Id : e > alloc_id' => told'[e] = "none" /\ ended'[e] = "no"
    BY <1>2, <1>5, <1>7 DEF Ids
  <2> QED
    BY <1>1, <2>1, <2>2, <2>3, <2>4 DEF Ids
<1>13. Slots'
  <2>1. \A j \in Slot, e \in Nat : s'[j].protocol = "TCP" /\ s'[j].id = e => s'[j].tag = e /\ Hash(e) = j
    BY <1>4, <1>6 DEF Slots
  <2>2. \A j \in Slot : s'[j].type \notin Closed => s'[j].protocol = "TCP"
    BY <1>6 DEF Slots
  <2>3. \A j \in Slot, e \in Nat : s'[j].type \notin Closed /\ s'[j].id = e => e \in Id /\ Hash(e) = j /\ ended'[e] = "no"
    BY <1>4, <1>5, <1>6, <1>7 DEF Slots
  <2> QED
    BY <1>1, <2>1, <2>2, <2>3 DEF Slots
<1>14. Opens'
  <2>1. First(pipe')
    BY <1>3
  <2>2. \A q \in Request : Member(pipe', q) /\ q.c \in Opening => Reserved(Hash(q.id), q.id)'
    BY <1>1, <1>2, <1>3, <1>6, <1>8 DEF Opens, Reserved
  <2>3. \A q \in Request : Member(pipe', q) /\ q.c \in Opening => told'[q.id] \in {"none", "listen"} /\ ended'[q.id] = "no"
    <3>1. \A q \in Request : Member(pipe, q) /\ q.c \in Opening =>
             told[q.id] \in {"none", "listen"} /\ ended[q.id] = "no" /\ q.id \in Id
      BY <1>2 DEF Opens, Known, Ids
    <3> QED
      BY <1>3, <1>7, <1>8, <3>1
  <2> QED
    BY <1>1, <2>1, <2>2, <2>3 DEF Opens, Known
<1>15. Fills'
  <2>1. \A w \in Service : at'[w].pc = "fill" => at'[w] = at[w]
    BY <1>7
  <2>2. \A w \in Service, e \in Nat : at[w].pc = "fill" /\ at'[w].pc = "fill" /\ at[w].id = e =>
           /\ s'[Hash(e)].type = "RESERVE" /\ told'[e] = "none" /\ ended'[e] = "no"
    BY <1>2, <1>6, <1>7, <1>9 DEF Fills
  <2>3. \A w \in Service, e \in Nat : at[w].pc = "fill" /\ at'[w].pc = "fill" /\ at[w].id = e =>
           \A q \in Request : Member(pipe', q) => Member(pipe, q) \/ (q.id # e /\ (q.c \in Opening => Hash(q.id) # Hash(e)))
    BY <1>3
  <2> QED
    BY <2>1, <2>2, <2>3, FillsKept
<1>16. Told'
  <2>1. \A q \in Request : Member(pipe', q) /\ q.c \in Sending => told'[q.id] \notin {"none", "listen"}
    BY <1>3, <1>7, <1>10 DEF Told, Known
  <2>2. \A w \in Service : at'[w].pc \in WithPackage => told'[at'[w].id] \notin {"none", "listen"}
    BY <1>7, <1>11 DEF Told, Known
  <2>3. \A e \in Id : ended'[e] # "no" => told'[e] = "end"
    BY <1>5, <1>7 DEF Told
  <2> QED
    BY <1>1, <2>1, <2>2, <2>3 DEF Told, Known
<1>17. Locks'
  <2>1. \A w \in Service, e \in Nat : at[w].pc \in {"check", "check2"} /\ at[w].id = e => s'[Hash(e)] = s[Hash(e)]
    BY <1>2, <1>5, <1>6 DEF Locks, Closed
  <2> QED
    BY <1>1, <1>7, <2>1 DEF Locks
<1>18. AtWork'
  BY <1>7 DEF AtWork, AtSlot
<1> QED
  BY <1>12, <1>13, <1>14, <1>15, <1>16, <1>17, <1>18 DEF Parts

LEMMA OpenFailedKeeps ==
  ASSUME IInv, lim' = lim, TypeOK', NEW r \in Request, OpenFailed(r)
  PROVE  Parts'
<1> USE DEF IInv
<1>1. /\ Slot' = Slot /\ Id' = Id /\ \A e : Hash(e)' = Hash(e)
  BY GeometryKept
<1>2. /\ alloc_id \in Nat /\ (\A j \in Slot : s[j].id \in Nat) /\ (\A e \in Nat : Hash(e) \in Slot)
      /\ (\A e : e \in Id <=> e \in 1..lim.id) /\ (\A q \in Request : q.id \in Nat)
      /\ lim.id \in Nat /\ alloc_id <= lim.id /\ pipe \in Seq(Request)
  BY InvTypes
<1>3. /\ pipe # <<>> /\ r = Head(pipe) /\ r \in Request /\ pipe' = Tail(pipe) /\ First(pipe)
      /\ Member(pipe, r) /\ First(pipe') /\ (\A q : Member(pipe', q) => Member(pipe, q))
      /\ (\A q : Member(pipe', q) /\ q.c \in Opening => q.id # r.id)
  BY <1>2, TailPipe DEF Takes1, Opens, OpenFailed
<1>4. PICK n \in Nat, i \in Slot : n = r.id /\ i = Hash(n) /\ n \in 1..alloc_id /\ n \in Id
  BY <1>2, <1>3 DEF Ids
<1>5. /\ s[i].type = "RESERVE" /\ s[i].id = n /\ s[i].protocol = "UNKNOWN" /\ ended[n] = "no" /\ ~Known(n)
  BY <1>3, <1>4 DEF OpenFailed, Opens, Reserved
<1>6. /\ s'[i].type = "INVALID" /\ s'[i].id = n /\ s'[i].protocol = s[i].protocol
      /\ s'[i].tag = s[i].tag /\ s'[i].lock = s[i].lock
      /\ \A j \in Slot : j # i => s'[j] = s[j]
  BY <1>3, <1>4, <1>5 DEF OpenFailed, SetsType, Becomes
<1>7. /\ r.c \in Opening /\ st'.pc \notin AtSlot /\ alloc_id' = alloc_id /\ at' = at /\ ended' = ended
      /\ (\A e \in Id : e # n => told'[e] = told[e])
  BY <1>4, ThreadPlaces DEF OpenFailed, ToldOf
<1>8. \A q \in Request : Member(pipe', q) /\ q.c \in Opening => Hash(q.id) # i /\ q.id # n
  BY <1>3, <1>4, <1>5 DEF Opens, Reserved
<1>9. \A w \in Service, e \in Nat : at[w].pc = "fill" /\ at[w].id = e => Hash(e) # i /\ e # n /\ e \in Id
  BY <1>2, <1>3, <1>4, <1>7 DEF Fills, Ids
<1>10. \A q \in Request : Member(pipe', q) /\ q.c \in Sending => q.id # n /\ q.id \in Id
  BY <1>2, <1>3, <1>5 DEF Told, Ids
<1>11. \A w \in Service : at[w].pc \in WithPackage => at[w].id # n /\ at[w].id \in Id
  BY <1>2, <1>5 DEF Told, Ids, WithPackage
<1>12. Ids'
  <2>1. \A j \in Slot : s'[j].id <= alloc_id'
    BY <1>5, <1>6, <1>7 DEF Ids
  <2>2. \A q \in Request : Member(pipe', q) => q.id \in 1..alloc_id'
    BY <1>3, <1>7 DEF Ids
  <2>3. \A w \in Service : at'[w].pc # "idle" => at'[w].id \in 1..alloc_id'
    BY <1>7 DEF Ids
  <2>4. \A e \in Id : e > alloc_id' => told'[e] = "none" /\ ended'[e] = "no"
    BY <1>2, <1>4, <1>7 DEF Ids
  <2> QED
    BY <1>1, <2>1, <2>2, <2>3, <2>4 DEF Ids
<1>13. Slots'
  <2>1. \A j \in Slot, e \in Nat : s'[j].protocol = "TCP" /\ s'[j].id = e => s'[j].tag = e /\ Hash(e) = j
    BY <1>5, <1>6 DEF Slots
  <2>2. \A j \in Slot : s'[j].type \notin Closed => s'[j].protocol = "TCP"
    BY <1>6 DEF Slots, Closed
  <2>3. \A j \in Slot, e \in Nat : s'[j].type \notin Closed /\ s'[j].id = e => e \in Id /\ Hash(e) = j /\ ended'[e] = "no"
    BY <1>6, <1>7 DEF Slots, Closed
  <2> QED
    BY <1>1, <2>1, <2>2, <2>3 DEF Slots
<1>14. Opens'
  <2>1. First(pipe')
    BY <1>3
  <2>2. \A q \in Request : Member(pipe', q) /\ q.c \in Opening => Reserved(Hash(q.id), q.id)'
    BY <1>1, <1>2, <1>3, <1>6, <1>8 DEF Opens, Reserved
  <2>3. \A q \in Request : Member(pipe', q) /\ q.c \in Opening => told'[q.id] \in {"none", "listen"} /\ ended'[q.id] = "no"
    <3>1. \A q \in Request : Member(pipe, q) /\ q.c \in Opening =>
             told[q.id] \in {"none", "listen"} /\ ended[q.id] = "no" /\ q.id \in Id
      BY <1>2 DEF Opens, Known, Ids
    <3> QED
      BY <1>3, <1>7, <1>8, <3>1
  <2> QED
    BY <1>1, <2>1, <2>2, <2>3 DEF Opens, Known
<1>15. Fills'
  <2>1. \A w \in Service : at'[w].pc = "fill" => at'[w] = at[w]
    BY <1>7
  <2>2. \A w \in Service, e \in Nat : at[w].pc = "fill" /\ at'[w].pc = "fill" /\ at[w].id = e =>
           /\ s'[Hash(e)].type = "RESERVE" /\ told'[e] = "none" /\ ended'[e] = "no"
    BY <1>2, <1>6, <1>7, <1>9 DEF Fills
  <2>3. \A w \in Service, e \in Nat : at[w].pc = "fill" /\ at'[w].pc = "fill" /\ at[w].id = e =>
           \A q \in Request : Member(pipe', q) => Member(pipe, q) \/ (q.id # e /\ (q.c \in Opening => Hash(q.id) # Hash(e)))
    BY <1>3
  <2> QED
    BY <2>1, <2>2, <2>3, FillsKept
<1>16. Told'
  <2>1. \A q \in Request : Member(pipe', q) /\ q.c \in Sending => told'[q.id] \notin {"none", "listen"}
    BY <1>3, <1>7, <1>10 DEF Told, Known
  <2>2. \A w \in Service : at'[w].pc \in WithPackage => told'[at'[w].id] \notin {"none", "listen"}
    BY <1>7, <1>11 DEF Told, Known
  <2>3. \A e \in Id : ended'[e] # "no" => told'[e] = "end"
    BY <1>5, <1>7 DEF Told
  <2> QED
    BY <1>1, <2>1, <2>2, <2>3 DEF Told, Known
<1>17. Locks'
  <2>1. \A w \in Service, e \in Nat : at[w].pc \in {"check", "check2"} /\ at[w].id = e => s'[Hash(e)] = s[Hash(e)]
    BY <1>2, <1>5, <1>6 DEF Locks, Closed
  <2> QED
    BY <1>1, <1>7, <2>1 DEF Locks
<1>18. AtWork'
  BY <1>7 DEF AtWork, AtSlot
<1> QED
  BY <1>12, <1>13, <1>14, <1>15, <1>16, <1>17, <1>18 DEF Parts

LEMMA DroppingKeeps ==
  ASSUME IInv, lim' = lim, TypeOK', NEW r \in Request, Dropping(r)
  PROVE  Parts'
<1> USE DEF IInv
<1>1. /\ Slot' = Slot /\ Id' = Id /\ \A e : Hash(e)' = Hash(e)
  BY GeometryKept
<1>2. /\ alloc_id \in Nat /\ (\A j \in Slot : s[j].id \in Nat) /\ (\A e \in Nat : Hash(e) \in Slot)
      /\ (\A e : e \in Id <=> e \in 1..lim.id) /\ (\A q \in Request : q.id \in Nat)
      /\ lim.id \in Nat /\ alloc_id <= lim.id /\ pipe \in Seq(Request)
  BY InvTypes
<1>3. /\ pipe # <<>> /\ r = Head(pipe) /\ r \in Request /\ pipe' = Tail(pipe) /\ First(pipe)
      /\ Member(pipe, r) /\ First(pipe') /\ (\A q : Member(pipe', q) => Member(pipe, q))
      /\ (\A q : Member(pipe', q) /\ q.c \in Opening => q.id # r.id)
  BY <1>2, TailPipe DEF Takes1, Opens, Dropping
<1>4. PICK i \in Slot : i = Hash(r.id)
  BY <1>2, <1>3
<1>5. /\ s'[i].type = s[i].type /\ s'[i].id = s[i].id /\ s'[i].protocol = s[i].protocol
      /\ s'[i].tag = s[i].tag /\ s'[i].lock = s[i].lock
      /\ \A j \in Slot : j # i => s'[j] = s[j]
  BY <1>3, <1>4 DEF Dropping, SetsCount, Becomes
<1>6. st'.pc \notin AtSlot /\ alloc_id' = alloc_id /\ at' = at /\ ended' = ended /\ told' = told
  BY ThreadPlaces DEF Dropping
<1>7. Ids'
  <2>1. \A j \in Slot : s'[j].id <= alloc_id'
    BY <1>5, <1>6 DEF Ids
  <2>2. \A q \in Request : Member(pipe', q) => q.id \in 1..alloc_id'
    BY <1>3, <1>6 DEF Ids
  <2>3. \A w \in Service : at'[w].pc # "idle" => at'[w].id \in 1..alloc_id'
    BY <1>6 DEF Ids
  <2>4. \A e \in Id : e > alloc_id' => told'[e] = "none" /\ ended'[e] = "no"
    BY <1>6 DEF Ids
  <2> QED
    BY <1>1, <2>1, <2>2, <2>3, <2>4 DEF Ids
<1>8. Slots'
  <2>1. \A j \in Slot, e \in Nat : s'[j].protocol = "TCP" /\ s'[j].id = e => s'[j].tag = e /\ Hash(e) = j
    BY <1>1, <1>5 DEF Slots
  <2>2. \A j \in Slot : s'[j].type \notin Closed => s'[j].protocol = "TCP"
    BY <1>4, <1>5 DEF Slots
  <2>3. \A j \in Slot, e \in Nat : s'[j].type \notin Closed /\ s'[j].id = e => e \in Id /\ Hash(e) = j /\ ended'[e] = "no"
    BY <1>5, <1>6 DEF Slots
  <2> QED
    BY <1>1, <2>1, <2>2, <2>3 DEF Slots
<1>9. Opens'
  <2>1. First(pipe')
    BY <1>3
  <2>2. \A q \in Request : Member(pipe', q) /\ q.c \in Opening => Reserved(Hash(q.id), q.id)'
    BY <1>1, <1>2, <1>3, <1>5, <1>6 DEF Opens, Reserved, Known
  <2>3. \A q \in Request : Member(pipe', q) /\ q.c \in Opening => told'[q.id] \in {"none", "listen"} /\ ended'[q.id] = "no"
    BY <1>3, <1>6 DEF Opens, Known
  <2> QED
    BY <1>1, <2>1, <2>2, <2>3 DEF Opens, Known
<1>10. Fills'
  <2>1. \A w \in Service : at'[w].pc = "fill" => at'[w] = at[w]
    BY <1>6
  <2>2. \A w \in Service, e \in Nat : at[w].pc = "fill" /\ at'[w].pc = "fill" /\ at[w].id = e =>
           /\ s'[Hash(e)].type = "RESERVE" /\ told'[e] = "none" /\ ended'[e] = "no"
    BY <1>2, <1>5, <1>6 DEF Fills
  <2>3. \A w \in Service, e \in Nat : at[w].pc = "fill" /\ at'[w].pc = "fill" /\ at[w].id = e =>
           \A q \in Request : Member(pipe', q) => Member(pipe, q) \/ (q.id # e /\ (q.c \in Opening => Hash(q.id) # Hash(e)))
    BY <1>3
  <2> QED
    BY <2>1, <2>2, <2>3, FillsKept
<1>11. Told'
  <2>1. \A q \in Request : Member(pipe', q) /\ q.c \in Sending => told'[q.id] \notin {"none", "listen"}
    BY <1>3, <1>6 DEF Told, Known
  <2>2. \A w \in Service : at'[w].pc \in WithPackage => told'[at'[w].id] \notin {"none", "listen"}
    BY <1>6 DEF Told, Known
  <2>3. \A e \in Id : ended'[e] # "no" => told'[e] = "end"
    BY <1>6 DEF Told
  <2> QED
    BY <1>1, <2>1, <2>2, <2>3 DEF Told, Known
<1>12. Locks'
  BY <1>1, <1>2, <1>5, <1>6 DEF Locks
<1>13. AtWork'
  BY <1>6 DEF AtWork, AtSlot
<1> QED
  BY <1>7, <1>8, <1>9, <1>10, <1>11, <1>12, <1>13 DEF Parts

LEMMA EndingKeeps ==
  ASSUME IInv, lim' = lim, TypeOK', NEW i \in Slot, NEW n \in Nat, Ending(i, n)
  PROVE  Parts'
<1> USE DEF IInv
<1>1. /\ Slot' = Slot /\ Id' = Id /\ \A e : Hash(e)' = Hash(e)
  BY GeometryKept
<1>2. /\ alloc_id \in Nat /\ (\A j \in Slot : s[j].id \in Nat) /\ (\A e \in Nat : Hash(e) \in Slot)
      /\ (\A e : e \in Id <=> e \in 1..lim.id) /\ (\A q \in Request : q.id \in Nat)
      /\ lim.id \in Nat /\ alloc_id <= lim.id /\ pipe \in Seq(Request)
  BY InvTypes
<1>3. /\ s[i].type \notin Closed /\ s[i].id = n /\ n \in Id /\ Hash(n) = i /\ n \in 1..alloc_id
  BY <1>2 DEF Ending, AtWork, AtSlot, Slots, Ids
<1>4. /\ s'[i].type = "INVALID" /\ s'[i].id = n /\ s'[i].protocol = s[i].protocol
      /\ s'[i].tag = s[i].tag /\ s'[i].lock = Nobody
      /\ \A j \in Slot : j # i => s'[j] = s[j]
  BY DEF Ending, Becomes
<1>5. /\ s[i].lock \in {Nobody, Thread} /\ st'.pc \notin AtSlot /\ alloc_id' = alloc_id /\ at' = at /\ pipe' = pipe
      /\ (\A e \in Id : e # n => told'[e] = told[e] /\ ended'[e] = ended[e]) /\ told'[n] = "end"
  BY DEF Ending, ToldOf
<1>6. s[i].type # "RESERVE"
  BY <1>3 DEF Closed
<1>7. \A q \in Request : Member(pipe', q) /\ q.c \in Opening => Hash(q.id) # i /\ q.id # n /\ q.id \in Id
  BY <1>2, <1>3, <1>5, <1>6 DEF Opens, Reserved, Ids
<1>8. \A w \in Service, e \in Nat : at[w].pc = "fill" /\ at[w].id = e => Hash(e) # i /\ e # n /\ e \in Id
  BY <1>2, <1>3, <1>6 DEF Fills, Ids
<1>9. \A q \in Request : Member(pipe', q) /\ q.c \in Sending => q.id \in Id
  BY <1>2, <1>5 DEF Ids
<1>10. \A w \in Service : at[w].pc \in WithPackage => at[w].id \in Id
  BY <1>2 DEF Ids, WithPackage
<1>11. Ids'
  <2>1. \A j \in Slot : s'[j].id <= alloc_id'
    BY <1>3, <1>4, <1>5 DEF Ids
  <2>2. \A q \in Request : Member(pipe', q) => q.id \in 1..alloc_id'
    BY <1>5 DEF Ids
  <2>3. \A w \in Service : at'[w].pc # "idle" => at'[w].id \in 1..alloc_id'
    BY <1>5 DEF Ids
  <2>4. \A e \in Id : e > alloc_id' => told'[e] = "none" /\ ended'[e] = "no"
    BY <1>2, <1>3, <1>5 DEF Ids
  <2> QED
    BY <1>1, <2>1, <2>2, <2>3, <2>4 DEF Ids
<1>12. Slots'
  <2>1. \A j \in Slot, e \in Nat : s'[j].protocol = "TCP" /\ s'[j].id = e => s'[j].tag = e /\ Hash(e) = j
    BY <1>3, <1>4 DEF Slots
  <2>2. \A j \in Slot : s'[j].type \notin Closed => s'[j].protocol = "TCP"
    BY <1>4 DEF Slots, Closed
  <2>3. \A j \in Slot, e \in Nat : s'[j].type \notin Closed /\ s'[j].id = e => e \in Id /\ Hash(e) = j /\ ended'[e] = "no"
    BY <1>3, <1>4, <1>5 DEF Slots, Closed
  <2> QED
    BY <1>1, <2>1, <2>2, <2>3 DEF Slots
<1>13. Opens'
  <2>1. First(pipe')
    BY <1>5 DEF Opens
  <2>2. \A q \in Request : Member(pipe', q) /\ q.c \in Opening => Reserved(Hash(q.id), q.id)'
    BY <1>1, <1>2, <1>4, <1>5, <1>7 DEF Opens, Reserved
  <2>3. \A q \in Request : Member(pipe', q) /\ q.c \in Opening => told'[q.id] \in {"none", "listen"} /\ ended'[q.id] = "no"
    BY <1>5, <1>7 DEF Opens, Known
  <2> QED
    BY <1>1, <2>1, <2>2, <2>3 DEF Opens, Known
<1>14. Fills'
  <2>1. \A w \in Service : at'[w].pc = "fill" => at'[w] = at[w]
    BY <1>5
  <2>2. \A w \in Service, e \in Nat : at[w].pc = "fill" /\ at'[w].pc = "fill" /\ at[w].id = e =>
           /\ s'[Hash(e)].type = "RESERVE" /\ told'[e] = "none" /\ ended'[e] = "no"
    BY <1>2, <1>4, <1>5, <1>8 DEF Fills
  <2>3. \A w \in Service, e \in Nat : at[w].pc = "fill" /\ at'[w].pc = "fill" /\ at[w].id = e =>
           \A q \in Request : Member(pipe', q) => Member(pipe, q) \/ (q.id # e /\ (q.c \in Opening => Hash(q.id) # Hash(e)))
    BY <1>5
  <2> QED
    BY <2>1, <2>2, <2>3, FillsKept
<1>15. Told'
  <2>1. \A q \in Request : Member(pipe', q) /\ q.c \in Sending => told'[q.id] \notin {"none", "listen"}
    BY <1>5, <1>9 DEF Told, Known
  <2>2. \A w \in Service : at'[w].pc \in WithPackage => told'[at'[w].id] \notin {"none", "listen"}
    BY <1>5, <1>10 DEF Told, Known
  <2>3. \A e \in Id : ended'[e] # "no" => told'[e] = "end"
    BY <1>5 DEF Told
  <2> QED
    BY <1>1, <2>1, <2>2, <2>3 DEF Told, Known
<1>16. Locks'
  BY <1>1, <1>2, <1>3, <1>4, <1>5, <1>6, <1>10, HolderAssumption DEF Locks
<1>17. AtWork'
  BY <1>5 DEF AtWork, AtSlot
<1> QED
  BY <1>11, <1>12, <1>13, <1>14, <1>15, <1>16, <1>17 DEF Parts

LEMMA AcceptingKeeps ==
  ASSUME IInv, lim' = lim, TypeOK', NEW n \in Nat, Accepting(n)
  PROVE  Parts'
<1> USE DEF IInv
<1>1. /\ Slot' = Slot /\ Id' = Id /\ \A e : Hash(e)' = Hash(e)
  BY GeometryKept
<1>2. /\ alloc_id \in Nat /\ (\A j \in Slot : s[j].id \in Nat) /\ (\A e \in Nat : Hash(e) \in Slot)
      /\ (\A e : e \in Id <=> e \in 1..lim.id) /\ (\A q \in Request : q.id \in Nat)
      /\ lim.id \in Nat /\ alloc_id <= lim.id /\ pipe \in Seq(Request)
  BY InvTypes
<1>3. PICK i \in Slot : i = Hash(n)
  BY <1>2
<1>4. /\ n \in Id /\ n > alloc_id /\ s[i].type = "INVALID" /\ st'.pc \notin AtSlot /\ alloc_id' = n
      /\ at' = at /\ pipe' = pipe /\ ended' = ended /\ told'[n] = "accept"
      /\ (\A e \in Id : e # n => told'[e] = told[e])
  BY <1>3 DEF Accepting, ToldOf
<1>5. /\ s'[i].type = "PACCEPT" /\ s'[i].id = n /\ s'[i].protocol = "TCP" /\ s'[i].tag = n /\ s'[i].lock = s[i].lock
      /\ \A j \in Slot : j # i => s'[j] = s[j]
  BY <1>3 DEF Accepting, Makes, Becomes
<1>6. \A q \in Request : Member(pipe', q) => q.id # n /\ q.id \in Id /\ (q.c \in Opening => Hash(q.id) # i)
  BY <1>2, <1>3, <1>4 DEF Opens, Reserved, Ids
<1>7. \A w \in Service, e \in Nat : at[w].pc = "fill" /\ at[w].id = e => Hash(e) # i /\ e # n /\ e \in Id
  BY <1>2, <1>3, <1>4 DEF Fills, Ids
<1>8. \A w \in Service : at[w].pc \in WithPackage => at[w].id \in Id /\ at[w].id # n
  BY <1>2, <1>4 DEF Ids, WithPackage
<1>9. told[n] = "none" /\ ended[n] = "no"
  BY <1>2, <1>4 DEF Ids
<1>10. Ids'
  <2>1. \A j \in Slot : s'[j].id <= alloc_id'
    BY <1>2, <1>4, <1>5 DEF Ids
  <2>2. \A q \in Request : Member(pipe', q) => q.id \in 1..alloc_id'
    BY <1>2, <1>4 DEF Ids
  <2>3. \A w \in Service : at'[w].pc # "idle" => at'[w].id \in 1..alloc_id'
    BY <1>2, <1>4 DEF Ids
  <2>4. \A e \in Id : e > alloc_id' => told'[e] = "none" /\ ended'[e] = "no"
    BY <1>2, <1>4 DEF Ids
  <2> QED
    BY <1>1, <2>1, <2>2, <2>3, <2>4 DEF Ids
<1>11. Slots'
  <2>1. \A j \in Slot, e \in Nat : s'[j].protocol = "TCP" /\ s'[j].id = e => s'[j].tag = e /\ Hash(e) = j
    BY <1>3, <1>5 DEF Slots
  <2>2. \A j \in Slot : s'[j].type \notin Closed => s'[j].protocol = "TCP"
    BY <1>5 DEF Slots
  <2>3. \A j \in Slot, e \in Nat : s'[j].type \notin Closed /\ s'[j].id = e => e \in Id /\ Hash(e) = j /\ ended'[e] = "no"
    BY <1>3, <1>4, <1>5, <1>9 DEF Slots
  <2> QED
    BY <1>1, <2>1, <2>2, <2>3 DEF Slots
<1>12. Opens'
  <2>1. First(pipe')
    BY <1>4 DEF Opens
  <2>2. \A q \in Request : Member(pipe', q) /\ q.c \in Opening => Reserved(Hash(q.id), q.id)'
    BY <1>1, <1>2, <1>4, <1>5, <1>7 DEF Opens, Reserved
  <2>3. \A q \in Request : Member(pipe', q) /\ q.c \in Opening => told'[q.id] \in {"none", "listen"} /\ ended'[q.id] = "no"
    BY <1>4, <1>6 DEF Opens, Known
  <2> QED
    BY <1>1, <2>1, <2>2, <2>3 DEF Opens, Known
<1>13. Fills'
  <2>1. \A w \in Service : at'[w].pc = "fill" => at'[w] = at[w]
    BY <1>4
  <2>2. \A w \in Service, e \in Nat : at[w].pc = "fill" /\ at'[w].pc = "fill" /\ at[w].id = e =>
           /\ s'[Hash(e)].type = "RESERVE" /\ told'[e] = "none" /\ ended'[e] = "no"
    BY <1>2, <1>4, <1>5, <1>7 DEF Fills
  <2>3. \A w \in Service, e \in Nat : at[w].pc = "fill" /\ at'[w].pc = "fill" /\ at[w].id = e =>
           \A q \in Request : Member(pipe', q) => Member(pipe, q) \/ (q.id # e /\ (q.c \in Opening => Hash(q.id) # Hash(e)))
    BY <1>4
  <2> QED
    BY <2>1, <2>2, <2>3, FillsKept
<1>14. Told'
  <2>1. \A q \in Request : Member(pipe', q) /\ q.c \in Sending => told'[q.id] \notin {"none", "listen"}
    BY <1>4, <1>6 DEF Told, Known
  <2>2. \A w \in Service : at'[w].pc \in WithPackage => told'[at'[w].id] \notin {"none", "listen"}
    BY <1>4, <1>8 DEF Told, Known
  <2>3. \A e \in Id : ended'[e] # "no" => told'[e] = "end"
    BY <1>4, <1>9 DEF Told
  <2> QED
    BY <1>1, <2>1, <2>2, <2>3 DEF Told, Known
<1>15. Locks'
  <2>1. \A w \in Service, e \in Nat : at[w].pc \in {"check", "check2"} /\ at[w].id = e => s'[Hash(e)] = s[Hash(e)]
    BY <1>2, <1>4, <1>5 DEF Locks, Closed
  <2> QED
    BY <1>1, <1>4, <2>1 DEF Locks
<1>16. AtWork'
  BY <1>4 DEF AtWork, AtSlot
<1> QED
  BY <1>10, <1>11, <1>12, <1>13, <1>14, <1>15, <1>16 DEF Parts

LEMMA WorkingKeeps ==
  ASSUME IInv, lim' = lim, TypeOK', Working
  PROVE  Parts'
<1> USE DEF IInv
<1>1. /\ Slot' = Slot /\ Id' = Id /\ \A e : Hash(e)' = Hash(e)
  BY GeometryKept
<1>2. /\ alloc_id \in Nat /\ (\A j \in Slot : s[j].id \in Nat) /\ (\A e \in Nat : Hash(e) \in Slot)
      /\ (\A e : e \in Id <=> e \in 1..lim.id) /\ (\A q \in Request : q.id \in Nat)
      /\ lim.id \in Nat /\ alloc_id <= lim.id /\ pipe \in Seq(Request)
  BY InvTypes
<1>3. First(pipe') /\ \A q : Member(pipe', q) => Member(pipe, q)
  <2>1. First(pipe)
    BY DEF Opens
  <2>2. CASE UNCHANGED pipe
    BY <2>1, <2>2
  <2>3. CASE \E r \in Request : Takes1(r)
    BY <1>2, <2>1, <2>3, TailPipe DEF Takes1
  <2> QED
    BY <2>2, <2>3 DEF Working
<1>4. \A j \in Slot :
         /\ s'[j].id = s[j].id /\ s'[j].protocol = s[j].protocol /\ s'[j].tag = s[j].tag
         /\ s'[j].type = s[j].type \/ (s'[j].type \notin Closed /\ s[j].type \notin Closed)
         /\ s'[j].lock = s[j].lock \/ (s'[j].lock \in {Nobody, Thread} /\ s[j].lock \in {Nobody, Thread})
  BY DEF Working, Becomes
<1>5. \A e \in Id :
         \/ told'[e] = told[e]
         \/ /\ told'[e] \notin {"none", "listen"} /\ (ended[e] # "no" => told'[e] = "end")
            /\ \A v \in Service : at[v].pc = "fill" => at[v].id # e
            /\ \A r \in Request : Member(pipe', r) /\ r.c \in Opening => r.id # e
  <2>1. CASE UNCHANGED told
    BY <2>1
  <2>2. CASE \E e \in Id : Reports(e)
    BY <2>2 DEF Reports, ToldOf
  <2> QED
    BY <2>1, <2>2 DEF Working
<1>6. alloc_id' = alloc_id /\ at' = at /\ ended' = ended /\ AtWork'
  BY DEF Working
<1>7. \A q \in Request : Member(pipe', q) => q.id \in Id
  BY <1>2, <1>3 DEF Ids
<1>8. \A w \in Service : at[w].pc # "idle" => at[w].id \in Id
  BY <1>2 DEF Ids
<1>9. \A e \in Id : e > alloc_id => told'[e] = told[e]
  <2>1. CASE UNCHANGED told
    BY <2>1
  <2>2. CASE \E e \in Id : Reports(e)
    BY <1>2, <2>2 DEF Reports, ToldOf
  <2> QED
    BY <2>1, <2>2 DEF Working
<1>10. Ids'
  <2>1. \A j \in Slot : s'[j].id <= alloc_id'
    BY <1>4, <1>6 DEF Ids
  <2>2. \A q \in Request : Member(pipe', q) => q.id \in 1..alloc_id'
    BY <1>3, <1>6 DEF Ids
  <2>3. \A w \in Service : at'[w].pc # "idle" => at'[w].id \in 1..alloc_id'
    BY <1>6 DEF Ids
  <2>4. \A e \in Id : e > alloc_id' => told'[e] = "none" /\ ended'[e] = "no"
    BY <1>6, <1>9 DEF Ids
  <2> QED
    BY <1>1, <2>1, <2>2, <2>3, <2>4 DEF Ids
<1>11. Slots'
  <2>1. \A j \in Slot, e \in Nat : s'[j].protocol = "TCP" /\ s'[j].id = e => s'[j].tag = e /\ Hash(e) = j
    BY <1>4 DEF Slots
  <2>2. \A j \in Slot : s'[j].type \notin Closed => s'[j].protocol = "TCP"
    BY <1>4 DEF Slots
  <2>3. \A j \in Slot, e \in Nat : s'[j].type \notin Closed /\ s'[j].id = e => e \in Id /\ Hash(e) = j /\ ended'[e] = "no"
    BY <1>4, <1>6 DEF Slots
  <2> QED
    BY <1>1, <2>1, <2>2, <2>3 DEF Slots
<1>12. Opens'
  <2>1. First(pipe')
    BY <1>3
  <2>2. \A q \in Request : Member(pipe', q) /\ q.c \in Opening => Reserved(Hash(q.id), q.id)'
    BY <1>1, <1>2, <1>3, <1>4 DEF Opens, Reserved, Closed
  <2>3. \A q \in Request : Member(pipe', q) /\ q.c \in Opening => told'[q.id] \in {"none", "listen"} /\ ended'[q.id] = "no"
    BY <1>3, <1>5, <1>6, <1>7 DEF Opens, Known
  <2> QED
    BY <1>1, <2>1, <2>2, <2>3 DEF Opens, Known
<1>13. Fills'
  <2>1. \A w \in Service : at'[w].pc = "fill" => at'[w] = at[w]
    BY <1>6
  <2>2. \A w \in Service, e \in Nat : at[w].pc = "fill" /\ at'[w].pc = "fill" /\ at[w].id = e =>
           /\ s'[Hash(e)].type = "RESERVE" /\ told'[e] = "none" /\ ended'[e] = "no"
    <3> SUFFICES ASSUME NEW w \in Service, NEW e \in Nat, at[w].pc = "fill", at'[w].pc = "fill", at[w].id = e
                 PROVE  s'[Hash(e)].type = "RESERVE" /\ told'[e] = "none" /\ ended'[e] = "no"
      OBVIOUS
    <3>1. s[Hash(e)].type = "RESERVE" /\ told[e] = "none" /\ ended[e] = "no"
      BY DEF Fills
    <3>2. e \in Id /\ Hash(e) \in Slot /\ "RESERVE" \in Closed
      BY <1>2, <1>8 DEF Closed
    <3> QED
      BY <1>4, <1>5, <1>6, <3>1, <3>2
  <2>3. \A w \in Service, e \in Nat : at[w].pc = "fill" /\ at'[w].pc = "fill" /\ at[w].id = e =>
           \A q \in Request : Member(pipe', q) => Member(pipe, q) \/ (q.id # e /\ (q.c \in Opening => Hash(q.id) # Hash(e)))
    BY <1>3
  <2> QED
    BY <2>1, <2>2, <2>3, FillsKept
<1>14. Told'
  <2>1. \A q \in Request : Member(pipe', q) /\ q.c \in Sending => told'[q.id] \notin {"none", "listen"}
    BY <1>3, <1>5, <1>7 DEF Told, Known
  <2>2. \A w \in Service : at'[w].pc \in WithPackage => told'[at'[w].id] \notin {"none", "listen"}
    BY <1>5, <1>6, <1>8 DEF Told, Known, WithPackage
  <2>3. \A e \in Id : ended'[e] # "no" => told'[e] = "end"
    BY <1>5, <1>6 DEF Told
  <2> QED
    BY <1>1, <2>1, <2>2, <2>3 DEF Told, Known
<1>15. Locks'
  BY <1>1, <1>2, <1>4, <1>6, <1>8, HolderAssumption DEF Locks
<1>16. AtWork'
  BY <1>6
<1> QED
  BY <1>10, <1>11, <1>12, <1>13, <1>14, <1>15, <1>16 DEF Parts

-----------------------------------------------------------------------------
(* The count of requests under way *)

LEMMA LoadParts ==
  ASSUME TypeOK, NEW id
  PROVE  /\ Load(id) = Cardinality(Coming(pipe, id)) + Cardinality(Pushing(at, id))
         /\ Load(id)' = Cardinality(Coming(pipe', id)) + Cardinality(Pushing(at', id))
         /\ Cardinality(Coming(pipe, id)) \in Nat /\ Cardinality(Pushing(at, id)) \in Nat
         /\ Cardinality(Pushing(at', id)) \in Nat
BY ComingFinite, PushingFinite DEF Load, TypeOK

\* Nothing is added to the requests or to the services with one, or taken away.
LEMMA PipeSame ==
  ASSUME TypeOK, NEW id,
         \/ pipe' = pipe
         \/ \E r \in Request : r.c \notin Sending /\ pipe' = Append(pipe, r)
         \/ \E r \in Request : r.c \notin Sending /\ Takes1(r)
  PROVE  Cardinality(Coming(pipe', id)) = Cardinality(Coming(pipe, id))
<1>1. pipe \in Seq(Request)
  BY DEF TypeOK
<1>2. Cardinality(Coming(pipe, id)) \in Nat
  BY <1>1, ComingFinite
<1>3. CASE pipe' = pipe
  BY <1>3
<1>4. CASE \E r \in Request : r.c \notin Sending /\ pipe' = Append(pipe, r)
  BY <1>1, <1>2, <1>4, ComingAppend
<1>5. CASE \E r \in Request : r.c \notin Sending /\ Takes1(r)
  <2>1. Tail(pipe) \in Seq(Request) /\ pipe # <<>> /\ pipe' = Tail(pipe) /\ Head(pipe).c \notin Sending
    BY <1>1, <1>5, TailPipe DEF Takes1
  <2>2. Cardinality(Coming(Tail(pipe), id)) \in Nat
    BY <2>1, ComingFinite
  <2> QED
    BY <1>1, <2>1, <2>2, ComingTail
<1> QED
  BY <1>3, <1>4, <1>5

LEMMA CountedSame ==
  ASSUME IInv, lim' = lim,
         \A id \in Nat : Load(id)' = Load(id),
         \A i \in Slot : s'[i].protocol = "TCP" =>
            s[i].protocol = "TCP" /\ s'[i].id = s[i].id /\ s'[i].sending = s[i].sending
  PROVE  Counted'
<1>1. Slot' = Slot
  BY GeometryKept
<1>2. \A i \in Slot, id \in Nat : s'[i].protocol = "TCP" /\ s'[i].id = id => s'[i].sending = Load(id)'
  BY DEF IInv, Counted
<1> QED
  BY <1>1, <1>2 DEF Counted

LEMMA ServiceCounted ==
  ASSUME IInv, lim' = lim, TypeOK', NEW v \in Service, ServiceShape(v), ~Working
  PROVE  Counted'
<1> USE DEF IInv
<1>1. ASSUME NEW n \in Nat,
             Reserving(v, n) \/ Packing(v, n) \/ Locking(v, n) \/ Going(v, n) \/ Unlocking(v, n)
      PROVE  Counted'
  <2>1. /\ pipe' = pipe /\ at[v].pc # "push" /\ at'[v].pc # "push"
        /\ \A w \in Service : w # v => at'[w] = at[w]
    BY <1>1 DEF Reserving, Packing, Locking, Going, Unlocking, Steps
  <2>2. \A id \in Nat : Cardinality(Pushing(at', id)) = Cardinality(Pushing(at, id))
    BY <2>1, PushingStep
  <2>3. \A id \in Nat : Load(id)' = Load(id)
    BY <2>1, <2>2, LoadParts
  <2>4. \A i \in Slot : s'[i].protocol = s[i].protocol /\ s'[i].id = s[i].id /\ s'[i].sending = s[i].sending
    <3>1. CASE Reserving(v, n)
      BY <3>1, InvTypes DEF Reserving, SetsType, Becomes
    <3>2. CASE Packing(v, n) \/ Going(v, n)
      BY <3>2, InvTypes DEF Packing, Going
    <3>3. CASE Locking(v, n) \/ Unlocking(v, n)
      BY <3>3, InvTypes DEF Locking, Unlocking, SetsLock, Becomes
    <3> QED
      BY <1>1, <3>1, <3>2, <3>3
  <2> QED
    BY <2>3, <2>4, CountedSame
<1>2. ASSUME NEW n \in Nat, Counting(v, n) PROVE Counted'
  <2>1. PICK i \in Slot : i = Hash(n)
    BY InvTypes
  <2>2. /\ pipe' = pipe /\ at[v].pc = "ref" /\ at'[v].pc = "push" /\ at'[v].id = n
        /\ \A w \in Service : w # v => at'[w] = at[w]
    BY <1>2 DEF Counting, Steps
  <2>3. \A id \in Nat : Cardinality(Pushing(at', id)) =
           Cardinality(Pushing(at, id)) + IF id = n THEN 1 ELSE 0
    <3>1. ASSUME NEW id \in Nat, id = n PROVE Cardinality(Pushing(at', id)) = Cardinality(Pushing(at, id)) + 1
      <4>1. at[v].pc # "push" /\ at'[v].pc = "push" /\ \A w \in Service : w # v => at'[w] = at[w]
        BY <2>2
      <4>2. Cardinality(Pushing(at', at'[v].id)) = Cardinality(Pushing(at, at'[v].id)) + 1
        BY <4>1, PushingMore, Zenon
      <4> QED
        BY <2>2, <3>1, <4>2
    <3>2. ASSUME NEW id \in Nat, id # n PROVE Cardinality(Pushing(at', id)) = Cardinality(Pushing(at, id))
      <4>1. ~(at[v].pc = "push" /\ at[v].id = id) /\ ~(at'[v].pc = "push" /\ at'[v].id = id)
        BY <2>2, <3>2
      <4>2. \A w \in Service : w # v => at'[w] = at[w]
        BY <2>2
      <4> QED
        BY <4>1, <4>2, PushingStep, Zenon
    <3> QED
      BY <3>1, <3>2, LoadParts
  <2>4. \A id \in Nat : Load(id)' = Load(id) + IF id = n THEN 1 ELSE 0
    BY <2>2, <2>3, LoadParts
  <2>5. /\ s'[i].id = s[i].id /\ s'[i].protocol = s[i].protocol
        /\ s'[i].sending = IF s[i].protocol = "TCP" /\ s[i].tag = n THEN s[i].sending + 1 ELSE s[i].sending
        /\ \A j \in Slot : j # i => s'[j] = s[j]
    BY <1>2, <2>1 DEF Counting, SetsCount, Becomes
  <2>6. ASSUME NEW j \in Slot, NEW id \in Nat, s'[j].protocol = "TCP", s'[j].id = id
        PROVE  s'[j].sending = Load(id)'
    <3>1. s[j].protocol = "TCP" /\ s[j].id = id /\ s[j].tag = id /\ Hash(id) = j /\ s[j].sending = Load(id)
      BY <2>5, <2>6 DEF Slots, Counted
    <3>2. Load(id) \in Nat
      BY LoadParts
    <3>3. CASE id = n
      BY <2>1, <2>4, <2>5, <3>1, <3>2, <3>3
    <3>4. CASE id # n
      BY <2>1, <2>4, <2>5, <3>1, <3>2, <3>4
    <3> QED
      BY <3>3, <3>4
  <2> QED
    BY <2>6, GeometryKept DEF Counted
<1>3. ASSUME NEW n \in Nat, NEW r \in Request, Filling(v, n, r) PROVE Counted'
  <2>1. /\ pipe' = Append(pipe, r) /\ r.c \notin Sending /\ at[v].pc # "push" /\ at'[v].pc # "push"
        /\ \A w \in Service : w # v => at'[w] = at[w]
    BY <1>3 DEF Filling, Steps, Opening, Sending
  <2>2. \A id \in Nat : Cardinality(Pushing(at', id)) = Cardinality(Pushing(at, id))
    BY <2>1, PushingStep
  <2>3. \A id \in Nat : Cardinality(Coming(pipe', id)) = Cardinality(Coming(pipe, id))
    BY <2>1, PipeSame
  <2>4. \A id \in Nat : Load(id)' = Load(id)
    BY <2>2, <2>3, LoadParts
  <2>5. \A i \in Slot : s'[i].protocol = "TCP" => s'[i] = s[i]
    BY <1>3, InvTypes DEF Filling, Becomes
  <2> QED
    BY <2>4, <2>5, CountedSame
<1>4. ASSUME NEW n \in Nat, NEW r \in Request, Posting(v, n, r) PROVE Counted'
  <2>1. /\ pipe' = Append(pipe, r) /\ pipe \in Seq(Request) /\ r.c \in Sending /\ r.id = n
        /\ at[v].pc = "push" /\ at[v].id = n /\ at'[v].pc = "idle" /\ s' = s
        /\ \A w \in Service : w # v => at'[w] = at[w]
    BY <1>4 DEF Posting, Steps, TypeOK
  <2>2. ASSUME NEW id \in Nat PROVE Load(id)' = Load(id)
    <3>1. CASE id = n
      <4>3. at[v].pc = "push" /\ at'[v].pc # "push" /\ \A w \in Service : w # v => at'[w] = at[w]
        BY <2>1
      <4>4. Cardinality(Pushing(at, at[v].id)) = Cardinality(Pushing(at', at[v].id)) + 1
        BY <4>3, PushingLess, Zenon
      <4>1. Cardinality(Pushing(at, id)) = Cardinality(Pushing(at', id)) + 1
        BY <2>1, <3>1, <4>4
      <4>2. Cardinality(Coming(pipe', id)) = Cardinality(Coming(pipe, id)) + 1
        BY <2>1, <3>1, ComingAppend
      <4> QED
        BY <4>1, <4>2, LoadParts
    <3>2. CASE id # n
      <4>3. ~(at[v].pc = "push" /\ at[v].id = id) /\ ~(at'[v].pc = "push" /\ at'[v].id = id)
        BY <2>1, <3>2
      <4>4. \A w \in Service : w # v => at'[w] = at[w]
        BY <2>1
      <4>1. Cardinality(Pushing(at', id)) = Cardinality(Pushing(at, id))
        BY <4>3, <4>4, PushingStep, Zenon
      <4>2. Cardinality(Coming(pipe', id)) = Cardinality(Coming(pipe, id))
        BY <2>1, <3>2, ComingAppend, LoadParts
      <4> QED
        BY <4>1, <4>2, LoadParts
    <3> QED
      BY <3>1, <3>2
  <2> QED
    BY <2>1, <2>2, CountedSame
<1>5. ASSUME NEW r \in Request, Asking(r) PROVE Counted'
  <2>1. pipe' = Append(pipe, r) /\ r.c \notin Sending /\ at' = at /\ s' = s
    BY <1>5 DEF Asking, Sending
  <2>2. \A id \in Nat : Cardinality(Coming(pipe', id)) = Cardinality(Coming(pipe, id))
    BY <2>1, PipeSame
  <2>3. \A id \in Nat : Load(id)' = Load(id)
    BY <2>1, <2>2, LoadParts
  <2> QED
    BY <2>1, <2>3, CountedSame
<1> QED
  BY <1>1, <1>2, <1>3, <1>4, <1>5 DEF ServiceShape

LEMMA ThreadCounted ==
  ASSUME IInv, lim' = lim, TypeOK', ThreadShape
  PROVE  Counted'
<1> USE DEF IInv
<1>0. pipe \in Seq(Request) /\ pipe' \in Seq(Request) /\ Slot' = Slot
  BY GeometryKept DEF TypeOK
\* A socket is made for an id that no package is for.
<1>1. ASSUME NEW n \in Nat, NEW i \in Slot, n \in Id, at' = at, s'[i].id = n, s'[i].sending = 0,
             \A j \in Slot : j # i => s'[j] = s[j],
             \A q \in Request : Member(pipe', q) /\ q.c \in Sending => q.id # n,
             \A w \in Service : at[w].pc \in WithPackage => at[w].id # n,
             \A id \in Nat : Cardinality(Coming(pipe', id)) = Cardinality(Coming(pipe, id))
      PROVE  Counted'
  <2>1. Cardinality(Coming(pipe', n)) = 0
    BY <1>0, <1>1, ComingNone
  <2>2. Pushing(at, n) = {}
    BY <1>1 DEF Pushing, WithPackage
  <2>3. Cardinality(Pushing(at, n)) = 0
    BY <2>2, FS_EmptySet
  <2>4. Load(n)' = 0
    BY <1>1, <2>1, <2>3, LoadParts
  <2>5. \A id \in Nat : Load(id)' = Load(id)
    BY <1>1, LoadParts
  <2>6. ASSUME NEW j \in Slot, NEW id \in Nat, s'[j].protocol = "TCP", s'[j].id = id
        PROVE  s'[j].sending = Load(id)'
    <3>1. CASE j = i
      BY <1>1, <2>4, <2>6, <3>1
    <3>2. CASE j # i
      BY <1>1, <2>5, <2>6, <3>2 DEF Counted
    <3> QED
      BY <3>1, <3>2
  <2> QED
    BY <1>0, <2>6 DEF Counted
<1>2. ASSUME NEW r \in Request, NEW t \in SlotType, Opened(r, t) PROVE Counted'
  <2>1. Takes1(r) /\ r.c \in Opening /\ r.c \notin Sending /\ at' = at /\ Member(pipe, r)
        /\ \A q : Member(pipe', q) => Member(pipe, q)
    BY <1>0, <1>2, TailPipe DEF Opened, Takes1, Opening, Sending
  <2>2. PICK n \in Nat, i \in Slot : n = r.id /\ i = Hash(n) /\ n \in Id
    BY <2>1, InvTypes DEF Ids
  <2>3. ~Known(n)
    BY <2>1, <2>2 DEF Opens
  <2>4. s'[i].id = n /\ s'[i].sending = 0 /\ \A j \in Slot : j # i => s'[j] = s[j]
    BY <1>2, <2>2 DEF Opened, Makes, Becomes
  <2>5. \A q \in Request : Member(pipe', q) /\ q.c \in Sending => q.id # n
    BY <2>1, <2>3 DEF Told
  <2>6. \A w \in Service : at[w].pc \in WithPackage => at[w].id # n
    BY <2>3 DEF Told
  <2>7. \A id \in Nat : Cardinality(Coming(pipe', id)) = Cardinality(Coming(pipe, id))
    BY <2>1, PipeSame
  <2> QED
    BY <1>1, <2>1, <2>2, <2>4, <2>5, <2>6, <2>7
<1>3. ASSUME NEW n \in Nat, Accepting(n) PROVE Counted'
  <2>1. n \in Id /\ n > alloc_id /\ at' = at /\ pipe' = pipe
    BY <1>3 DEF Accepting
  <2>2. PICK i \in Slot : i = Hash(n)
    BY InvTypes
  <2>3. s'[i].id = n /\ s'[i].sending = 0 /\ \A j \in Slot : j # i => s'[j] = s[j]
    BY <1>3, <2>2 DEF Accepting, Makes, Becomes
  <2>4. \A q \in Request : Member(pipe', q) /\ q.c \in Sending => q.id # n
    BY <2>1, InvTypes DEF Ids
  <2>5. \A w \in Service : at[w].pc \in WithPackage => at[w].id # n
    BY <2>1, InvTypes DEF Ids, WithPackage
  <2> QED
    BY <1>1, <2>1, <2>2, <2>3, <2>4, <2>5
<1>4. ASSUME NEW r \in Request, OpenFailed(r) PROVE Counted'
  <2>1. Takes1(r) /\ r.c \notin Sending /\ at' = at
    BY <1>4 DEF OpenFailed, Opening, Sending
  <2>2. \A id \in Nat : Load(id)' = Load(id)
    BY <2>1, PipeSame, LoadParts
  <2>3. \A i \in Slot : s'[i].protocol = s[i].protocol /\ s'[i].id = s[i].id /\ s'[i].sending = s[i].sending
    BY <1>4, InvTypes DEF OpenFailed, SetsType, Becomes
  <2> QED
    BY <2>2, <2>3, CountedSame
<1>5. ASSUME NEW i \in Slot, NEW n \in Nat, Ending(i, n) PROVE Counted'
  <2>1. pipe' = pipe /\ at' = at
    BY <1>5 DEF Ending
  <2>2. \A id \in Nat : Load(id)' = Load(id)
    BY <2>1, LoadParts
  <2>3. \A j \in Slot : s'[j].protocol = s[j].protocol /\ s'[j].id = s[j].id /\ s'[j].sending = s[j].sending
    BY <1>5 DEF Ending, Becomes
  <2> QED
    BY <2>2, <2>3, CountedSame
<1>6. ASSUME Working PROVE Counted'
  <2>1. at' = at /\ (pipe' = pipe \/ \E r \in Request : r.c \notin Sending /\ Takes1(r))
    BY <1>6 DEF Working, Sending
  <2>2. \A id \in Nat : Cardinality(Coming(pipe', id)) = Cardinality(Coming(pipe, id))
    BY <2>1, PipeSame
  <2>3. \A id \in Nat : Load(id)' = Load(id)
    BY <2>1, <2>2, LoadParts
  <2>4. \A j \in Slot : s'[j].protocol = s[j].protocol /\ s'[j].id = s[j].id /\ s'[j].sending = s[j].sending
    BY <1>6 DEF Working, Becomes
  <2> QED
    BY <2>3, <2>4, CountedSame
<1>7. ASSUME NEW r \in Request, Dropping(r) PROVE Counted'
  <2>1. pipe # <<>> /\ r = Head(pipe) /\ pipe' = Tail(pipe) /\ r.c \in Sending /\ at' = at
    BY <1>7 DEF Dropping, Takes1
  <2>2. PICK n \in Nat, i \in Slot : n = r.id /\ i = Hash(n)
    BY InvTypes
  <2>3. \A id \in Nat : Cardinality(Coming(pipe, id)) = Cardinality(Coming(pipe', id)) + IF id = n THEN 1 ELSE 0
    BY <1>0, <2>1, <2>2, ComingTail
  <2>4. \A id \in Nat : Load(id)' = Load(id) - IF id = n THEN 1 ELSE 0
    <3>1. \A id \in Nat : Cardinality(Coming(pipe', id)) \in Nat
      BY <1>0, ComingFinite
    <3>2. ASSUME NEW id \in Nat PROVE Load(id)' = Load(id) - IF id = n THEN 1 ELSE 0
      <4>1. /\ Load(id) = Cardinality(Coming(pipe, id)) + Cardinality(Pushing(at, id))
            /\ Load(id)' = Cardinality(Coming(pipe', id)) + Cardinality(Pushing(at, id))
            /\ Cardinality(Pushing(at, id)) \in Nat
        BY <2>1, LoadParts
      <4> QED
        BY <2>3, <3>1, <4>1
    <3> QED
      BY <3>2
  <2>5. /\ s'[i].id = s[i].id /\ s'[i].protocol = s[i].protocol
        /\ s'[i].sending = IF s[i].id = n /\ s[i].protocol = "TCP" THEN s[i].sending - 1 ELSE s[i].sending
        /\ \A j \in Slot : j # i => s'[j] = s[j]
    BY <1>7, <2>2 DEF Dropping, SetsCount, Becomes
  <2>6. ASSUME NEW j \in Slot, NEW id \in Nat, s'[j].protocol = "TCP", s'[j].id = id
        PROVE  s'[j].sending = Load(id)'
    <3>1. s[j].protocol = "TCP" /\ s[j].id = id /\ Hash(id) = j /\ s[j].sending = Load(id)
      BY <2>5, <2>6 DEF Slots, Counted
    <3>2. Load(id) \in Nat
      BY LoadParts
    <3>3. CASE id = n
      BY <2>2, <2>4, <2>5, <3>1, <3>2, <3>3
    <3>4. CASE id # n
      BY <2>2, <2>4, <2>5, <3>1, <3>2, <3>4
    <3> QED
      BY <3>3, <3>4
  <2> QED
    BY <1>0, <2>6 DEF Counted
<1> QED
  BY <1>2, <1>3, <1>4, <1>5, <1>6, <1>7 DEF ThreadShape

-----------------------------------------------------------------------------
(* The theorems *)

LEMMA InitIInv ==
  ASSUME Init
  PROVE  IInv
<1>1. lim.id \in Nat /\ lim.socket \in Nat \ {0} /\ lim.room \in 0..2 /\ lim \in Limits
  BY LimitsAssumption DEF Init
<1> DEFINE x == [type |-> "INVALID", id |-> 0, protocol |-> "UNKNOWN", tag |-> 0, sending |-> 0, high |-> <<>>,
                 low |-> <<>>, dw |-> <<>>, lock |-> Nobody, in |-> FALSE, out |-> FALSE]
<1>2. s = [i \in Slot |-> x]
  BY DEF Init
<1>3. x \in Socket /\ x.type = "INVALID" /\ x.id = 0 /\ x.protocol = "UNKNOWN"
  <2>1. 0 \in Int /\ 0 \in Nat /\ <<>> \in Seq(Unit)
    BY EmptySeq
  <2> QED
    BY <2>1 DEF Socket, Closed
<1> HIDE DEF x
<1>4. s \in [Slot -> Socket] /\ \A i \in Slot : s[i].type = "INVALID" /\ s[i].id = 0 /\ s[i].protocol = "UNKNOWN"
  BY <1>2, <1>3
<1>5. at \in [Service -> Place] /\ \A v \in Service : at[v].pc = "idle"
  BY DEF Init, Idle, Place
<1>6. alloc_id = 0 /\ pipe = <<>> /\ pipe \in Seq(Request) /\ DOMAIN pipe = {}
  BY EmptySeq DEF Init
<1>7. \A r : ~Member(pipe, r)
  BY <1>6 DEF Member
<1>8. st \in ThreadPlace /\ st.pc \notin AtSlot /\ "send" \in AtSlot
  BY ThreadPlaces DEF Init, AtSlot
<1>9. \A e \in Id : told[e] = "none" /\ ended[e] = "no"
  BY DEF Init
<1>10. TypeOK
  <2>1. \A e \in Id : lim.room \in 0..2 /\ <<>> \in Seq(Unit)
    BY <1>1, EmptySeq
  <2>2. /\ wire \in [Id -> Seq(Unit)] /\ room \in [Id -> 0..2]
        /\ told \in [Id -> {"none", "listen", "listening", "accept", "open", "end"}]
        /\ ended \in [Id -> {"no", "cut", "drained"}]
    BY <2>1 DEF Init
  <2>3. sent \in [Service -> Seq(Package)]
    BY EmptySeq DEF Init
  <2>4. alloc_id \in 0..lim.id
    BY <1>1, <1>6
  <2> QED
    BY <1>1, <1>4, <1>5, <1>6, <1>8, <2>2, <2>3, <2>4 DEF TypeOK
<1>11. Ids
  BY <1>4, <1>5, <1>6, <1>7, <1>9 DEF Ids
<1>12. Slots
  BY <1>4 DEF Slots, Closed
<1>13. Opens
  BY <1>6, <1>7 DEF Opens, First
<1>14. Fills
  BY <1>5 DEF Fills
<1>15. Told
  BY <1>5, <1>7, <1>9 DEF Told, WithPackage
<1>16. Locks
  BY <1>5 DEF Locks
<1>17. AtWork
  BY <1>8 DEF AtWork
<1>18. Counted
  BY <1>4 DEF Counted
<1> QED
  BY <1>10, <1>11, <1>12, <1>13, <1>14, <1>15, <1>16, <1>17, <1>18 DEF IInv

LEMMA ShapeKeeps ==
  ASSUME IInv, lim' = lim, TypeOK', Shape
  PROVE  Parts' /\ Counted'
<1>1. CASE ThreadShape
  BY <1>1, OpenedKeeps, OpenFailedKeeps, DroppingKeeps, EndingKeeps, AcceptingKeeps, WorkingKeeps, ThreadCounted
     DEF ThreadShape
<1>2. ASSUME NEW v \in Service, ServiceShape(v), ~Working PROVE Parts' /\ Counted'
  <2>1. Counted'
    BY <1>2, ServiceCounted
  <2>2. Parts'
    BY <1>2, ReservingKeeps, PackingKeeps, LockingKeeps, GoingKeeps, UnlockingKeeps, CountingKeeps, FillingKeeps,
       PostingKeeps, AskingKeeps DEF ServiceShape
  <2> QED
    BY <2>1, <2>2
<1> QED
  BY <1>1, <1>2 DEF Shape, ThreadShape

LEMMA NextIInv ==
  ASSUME IInv, [Next]_vars
  PROVE  IInv'
<1>1. CASE Next
  <2>1. lim' = lim /\ TypeOK' /\ Shape
    BY <1>1, EveryShape
  <2>2. Parts' /\ Counted'
    BY <2>1, ShapeKeeps
  <2> QED
    BY <2>1, <2>2 DEF IInv, Parts
<1>2. CASE UNCHANGED vars
  BY <1>2 DEF vars, serverVars, netVars, history, IInv, TypeOK, Ids, Slots, Opens, Fills, Told, Locks, AtWork,
     Counted, Load, Known, Reserved, Slot, Id, Hash
<1> QED
  BY <1>1, <1>2

LEMMA Invariance == Spec => []IInv
BY InitIInv, NextIInv, PTL DEF Spec

\* The count of a slot covers the requests in the pipe that will be taken off it
\* again: the assertion of dec_sending_ref cannot fail, whatever services send
\* at the same time and however often the slot is used again, as long as they
\* send only to ids that have been reported to them (MaySend).
THEOREM SendingExact == Spec => []SendingCounted
<1>1. IInv => SendingCounted
  <2> SUFFICES ASSUME IInv, NEW i \in Slot, s[i].protocol = "TCP"
               PROVE  s[i].sending >= Cardinality({k \in DOMAIN pipe : pipe[k].c \in {"D", "P"} /\ pipe[k].id = s[i].id})
    BY DEF SendingCounted
  <2>1. PICK id \in Nat : id = s[i].id
    BY InvTypes DEF IInv
  <2>2. s[i].sending = Load(id)
    BY <2>1 DEF IInv, Counted
  <2>3. /\ Load(id) = Cardinality(Coming(pipe, id)) + Cardinality(Pushing(at, id))
        /\ Cardinality(Coming(pipe, id)) \in Nat /\ Cardinality(Pushing(at, id)) \in Nat
    BY LoadParts DEF IInv
  <2>4. Coming(pipe, id) = {k \in DOMAIN pipe : pipe[k].c \in {"D", "P"} /\ pipe[k].id = s[i].id}
    BY <2>1 DEF Coming
  <2>5. s[i].sending >= Cardinality(Coming(pipe, id))
    BY <2>2, <2>3
  <2> QED
    BY <2>4, <2>5
<1> QED
  BY <1>1, Invariance, PTL

\* Only the connection of an open socket is written to.
LEMMA WireStep ==
  ASSUME IInv, Next, NEW id \in Id, ended[id] # "no"
  PROVE  wire'[id] = wire[id]
<1> USE DEF IInv
<1>1. ASSUME NEW v \in Service, DirectWrite(v) PROVE wire'[id] = wire[id]
  <2>1. at[v].pc = "check2" /\ at[v].pc \in WithPackage
    BY <1>1 DEF DirectWrite, WithPackage
  <2>2. PICK n \in Nat : n = at[v].id /\ n \in Id /\ at[v].p \in Service \X Nat
    BY <2>1, PlaceFacts
  <2>3. s[Hash(n)].id = n /\ s[Hash(n)].type \notin Closed /\ Hash(n) \in Slot
    BY <2>1, <2>2, InvTypes DEF Locks
  <2>4. ended[n] = "no"
    BY <2>3 DEF Slots
  <2>5. PICK q \in Seq(Unit) : q = Units(at[v].p)
    BY <2>2, PackageUnits
  <2>6. Takes(n, q) \in 0..Len(q) /\ Takes(n, q) <= room[n] /\ Write(n, q, Takes(n, q))
    BY <1>1, <2>2, <2>5, TakesType DEF DirectWrite
  <2> QED
    BY <2>2, <2>4, <2>6, WriteView
<1>2. ASSUME SendBuffer PROVE wire'[id] = wire[id]
  <2>1. st.pc = "send" /\ st.pc \in AtSlot
    BY <1>2 DEF SendBuffer, AtSlot
  <2>2. PICK i \in Slot : i = st.i /\ s[i].type \notin Closed /\ s[i].lock = Thread
    BY <2>1 DEF AtWork
  <2>3. PICK n \in Nat : n = s[i].id /\ n \in Id /\ ended[n] = "no"
    <3>1. s[i].id \in Nat
      BY InvTypes
    <3> QED
      BY <2>2, <3>1 DEF Slots
  <2> QED
    BY <1>2, <2>2, <2>3, SendBufferView
<1>3. \/ UNCHANGED wire
      \/ \E v \in Service : DirectWrite(v)
      \/ SendBuffer
  <2>1. ASSUME NEW v \in Service, Call(v) PROVE UNCHANGED wire
    BY <2>1 DEF Call, Reserve, Start, Close, Send, netVars
  <2>2. ASSUME NEW v \in Service, ServiceStep(v), ~DirectWrite(v) PROVE UNCHANGED wire
    BY <2>2 DEF ServiceStep, OpenRequest, TryLock, Check, GiveUp, IncSendingRef, SendRequest, netVars
  <2>3. ASSUME ThreadStep, ~SendBuffer PROVE UNCHANGED wire
    <3>1. ASSUME \/ AbortNewFd \/ OpenSocket \/ ListenSocket \/ BindSocket \/ BindFails
               \/ StartSocket \/ StartFails \/ CloseSocket \/ HalfClose
          PROVE  UNCHANGED wire
      BY <3>1 DEF AbortNewFd, OpenSocket, ListenSocket, BindSocket, BindFails, StartSocket, StartFails, CloseSocket, HalfClose, netVars
    <3>2. ASSUME \/ \E c \in {"D", "P"} : SendSocket(c)
                 \/ EndClose \/ ClearClosedEvent \/ NoCmd \/ Wait \/ SkipEvent \/ StaleEvent
          PROVE  UNCHANGED wire
      BY <3>2 DEF SendSocket, EndClose, ClearClosedEvent, NoCmd, Wait, SkipEvent, StaleEvent, netVars
    <3>3. ASSUME ReportConnect \/ ReportAccept \/ ReadEvent \/ WriteEvent \/ ErrorEvent PROVE UNCHANGED wire
      BY <3>3 DEF ReportConnect, ReportAccept, ReadEvent, WriteEvent, ErrorEvent, netVars
    <3> QED
      BY <2>3, <3>1, <3>2, <3>3 DEF ThreadStep
  <2>4. ASSUME NEW n \in Id, Connect(n) \/ Net(n) \/ Drain(n) PROVE UNCHANGED wire
    BY <2>4 DEF Connect, Net, Drain, netVars
  <2> QED
    BY <2>1, <2>2, <2>3, <2>4 DEF Next, ServiceStep
<1> QED
  BY <1>1, <1>2, <1>3

LEMMA EndedStays ==
  ASSUME IInv, Next, NEW id \in Id, ended[id] # "no"
  PROVE  told'[id] = "end"
<1>1. lim' = lim /\ TypeOK' /\ Shape
  BY EveryShape
<1>2. Id' = Id /\ Told'
  BY <1>1, GeometryKept, ShapeKeeps DEF Parts
<1>3. ended'[id] = ended[id]
  <2>1. ASSUME NEW i \in Slot, NEW n \in Nat, Ending(i, n) PROVE ended'[id] = ended[id]
    <3>1. s[i].type \notin Closed /\ s[i].id = n /\ \A e \in Id : e # n => ended'[e] = ended[e]
      BY <2>1 DEF Ending, IInv, AtWork, AtSlot
    <3>2. ended[n] = "no"
      BY <3>1 DEF IInv, Slots
    <3> QED
      BY <3>1, <3>2
  <2>2. CASE ended' = ended
    BY <2>2
  <2>3. ended' = ended \/ \E i \in Slot, n \in Nat : Ending(i, n)
    BY <1>1 DEF Shape, ServiceShape, ThreadShape, Reserving, Packing, Locking, Going, Unlocking, Counting, Filling,
                Posting, Asking, Working, OpenFailed, Dropping, Opened, Accepting
  <2> QED
    BY <2>1, <2>2, <2>3
<1> QED
  BY <1>2, <1>3 DEF Told

\* A connection that has ended stays ended: neither a direct write of a service,
\* which holds no reference to the socket, nor the socket thread writes to it, and
\* no later report about its id says that it is open.
THEOREM EndedForGood == Spec => EndIsFinal
<1> DEFINE A == \A id \in Id : ended[id] # "no" => wire'[id] = wire[id] /\ told'[id] = "end"
<1>1. ASSUME IInv, [Next]_vars PROVE [A]_vars
  <2>1. CASE Next
    BY <1>1, <2>1, WireStep, EndedStays
  <2> QED
    BY <1>1, <2>1
<1> HIDE DEF A
<1>2. Spec => [][A]_vars
  BY <1>1, Invariance, PTL DEF Spec
<1> QED
  BY <1>2 DEF EndIsFinal, A

=============================================================================
