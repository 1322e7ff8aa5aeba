-------------------------- MODULE LuaSessionProofs --------------------------
(***************************************************************************)
(* Proofs about the runtime of a Lua service, for any number of            *)
(* coroutines, peers, requests and sessions: answers find their callers,   *)
(* every request is answered once, nobody who was woken, forked or told of *)
(* an error is left behind, and skynet.queue hands itself over.            *)
(***************************************************************************)
EXTENDS LuaSession, SequenceTheorems, FiniteSetTheorems, TLAPS

St == {"free", "run", "enter", "forked", "call", "sleep", "wait", "queue", "quit"}
Asleep == {"sleep", "wait", "queue"}
ThreadType == [st : St, session : 0..lim.session, req : 0..lim.req, in : Nat]
QueueType == [current_thread : Co \cup {None}, ref : Int, thread_queue : Seq(Co)]

TypeOK ==
    /\ lim \in Limits
    /\ pc \in [at : {"idle", "run", "wake", "err", "forks"}, co : Co \cup {None}]
    /\ frames \in Nat
    /\ th \in [Co -> ThreadType]
    /\ session_id_coroutine \in [Session -> Co \cup {None, Break}]
    /\ watching_session \in [Session -> Peer \cup {None}]
    /\ sleep_session \in [Co -> 0..lim.session]
    /\ wakeup_queue \in Seq(Co)
    /\ error_queue \in Seq(Session)
    /\ fork_queue \in Seq(Co \cup {None})
    /\ cs \in QueueType
    /\ last \in 0..lim.session
    /\ source \in Seq(Peer) /\ Len(source) <= lim.req
    /\ calls \subseteq 1..last /\ timers \subseteq 1..last
    /\ unresponse \subseteq Request /\ void \subseteq Request
    /\ answers \in [Request -> Nat]
    /\ exited \in BOOLEAN

\* Queues: who is in one, and that nobody of S is in it twice
Member(q, x) == \E i \in DOMAIN q : q[i] = x
Distinct(q, S) == \A i, j \in DOMAIN q : q[i] = q[j] /\ q[i] \in S => i = j

\* What each coroutine is doing agrees with pc, the tables and fork_queue.
Stage ==
    /\ \A c \in Co : th[c].st \in {"run", "enter"} <=> pc = Running(c)
    /\ \A c \in Co : /\ th[c].st \in Waiting <=> th[c].session # 0
                     /\ sleep_session[c] = IF th[c].st \in Asleep THEN th[c].session ELSE 0
    /\ \A c \in Co : Member(fork_queue, c) => th[c].st = "forked"
    /\ Distinct(fork_queue, Co)

\* Sessions that stand for calls: an answer or an error may come for them.
Called(s) == s \in calls \/ watching_session[s] # None \/ Member(error_queue, s)

\* What is known of a session: who waits for it and what may come for it.
Sessions ==
    /\ AnswersFindCallers
    /\ \A s \in Session : s > last => session_id_coroutine[s] = None
    /\ \A s \in Session : Called(s) => s <= last /\ s \notin timers
    /\ \A c \in Co, s \in Session : th[c].st \in Waiting /\ th[c].session = s =>
          /\ s \in timers <=> th[c].st = "sleep"
          /\ th[c].st \in Asleep => ~Called(s)

\* Until skynet.exit, whoever watches a session or is told of an error waits.
Watched ==
    ~exited =>
    /\ \A s \in Session : watching_session[s] # None \/ Member(error_queue, s) => session_id_coroutine[s] \in Co
    /\ Distinct(error_queue, Session)

\* Until skynet.exit, tokens are of coroutines that sleep.
Tokens ==
    ~exited =>
    /\ \A c \in Co : Member(wakeup_queue, c) => th[c].st \in Asleep
    /\ Distinct(wakeup_queue, Co)

\* Until skynet.exit, whoever leaves a queue behind comes back to it.
Drained ==
    ~exited =>
    /\ pc.at = "idle" => wakeup_queue = <<>> /\ error_queue = <<>> /\ fork_queue = <<>>
    /\ pc.at = "err" => wakeup_queue = <<>>
    /\ pc.at = "forks" => (wakeup_queue = <<>> /\ error_queue = <<>>) \/ Member(fork_queue, None)

\* The coroutine that has the queue and is not in it yet
Chosen(c) == cs.current_thread = c /\ cs.ref = 0
\* Until skynet.exit, the queue is with one coroutine, who is inside or on its
\* way: running, or waiting with a token.
Handed ==
    ~exited =>
    /\ \A c \in Co : th[c].in = IF c = cs.current_thread THEN cs.ref ELSE 0
    /\ cs.current_thread = None => cs.ref = 0 /\ cs.thread_queue = <<>>
    /\ Distinct(cs.thread_queue, Co)
    /\ \A c \in Co : Member(cs.thread_queue, c) => th[c].st = "queue" /\ cs.current_thread # c
    /\ \A c \in Co : th[c].st = "queue" =>
          Member(cs.thread_queue, c) \/ (Chosen(c) /\ Member(wakeup_queue, c))
    /\ \A c \in Co : th[c].st = "queue" /\ Member(wakeup_queue, c) => Chosen(c)
    /\ \A c \in Co : th[c].st = "enter" => Chosen(c)
    /\ \A c \in Co : Chosen(c) => th[c].st = "enter" \/ (th[c].st = "queue" /\ Member(wakeup_queue, c))

\* Until skynet.exit, thread_queue is in the order of arrival, which is that of
\* the sessions, and who was taken from it came first.
Arrived ==
    ~exited =>
    /\ \A i, j \in DOMAIN cs.thread_queue :
          i < j => th[cs.thread_queue[i]].session < th[cs.thread_queue[j]].session
    /\ \A c \in Co : th[c].st = "queue" /\ cs.current_thread = c =>
          \A i \in DOMAIN cs.thread_queue : th[c].session < th[cs.thread_queue[i]].session

\* Who owes the answer to a request
Holder(r) == {c \in Co : th[c].req = r}
Answered(r) == answers[r] = 1 /\ Holder(r) = {} /\ r \notin unresponse /\ r \notin void
Held(r) == answers[r] = 0 /\ (\E c \in Co : Holder(r) = {c}) /\ r \notin unresponse /\ r \notin void
Taken(r) == answers[r] = 0 /\ Holder(r) = {} /\ r \in unresponse /\ r \notin void
Forgotten(r) == answers[r] = 0 /\ Holder(r) = {} /\ r \notin unresponse /\ r \in void
Ledger ==
    ~exited =>
    /\ \A c \in Co : th[c].req <= Len(source)
    /\ \A r \in Request : r > Len(source) => answers[r] = 0 /\ r \notin unresponse /\ r \notin void
    /\ \A r \in 1..Len(source) : Answered(r) \/ Held(r) \/ Taken(r) \/ Forgotten(r)

IInv == TypeOK /\ Stage /\ Sessions /\ Watched /\ Tokens /\ Drained /\ Handed /\ Arrived /\ Ledger

-----------------------------------------------------------------------------
(* Queues *)

LEMMA EmptyQueue ==
  ASSUME NEW S
  PROVE  Distinct(<<>>, S) /\ \A x : ~Member(<<>>, x)
  BY DEF Distinct, Member

LEMMA AppendQueue ==
  ASSUME NEW S, NEW q \in Seq(S), NEW e \in S, NEW T
  PROVE  /\ Append(q, e) \in Seq(S) /\ Append(q, e) # <<>>
         /\ \A x : Member(Append(q, e), x) <=> x = e \/ Member(q, x)
         /\ Distinct(q, T) /\ (e \in T => ~Member(q, e)) => Distinct(Append(q, e), T)
<1> DEFINE a == Append(q, e)
<1>1. a \in Seq(S) /\ Len(a) = Len(q) + 1 /\ a[Len(q) + 1] = e /\ \A i \in 1..Len(q) : a[i] = q[i]
  OBVIOUS
<1>2. Len(q) \in Nat /\ DOMAIN q = 1..Len(q) /\ DOMAIN a = 1..(Len(q) + 1)
  BY <1>1, LenProperties
<1> HIDE DEF a
<1>3. ASSUME NEW x PROVE Member(a, x) <=> x = e \/ Member(q, x)
  BY <1>1, <1>2 DEF Member
<1>4. ASSUME Distinct(q, T), e \in T => ~Member(q, e) PROVE Distinct(a, T)
  BY <1>1, <1>2, <1>4 DEF Member, Distinct
<1>5. a # <<>>
  BY <1>1, <1>2
<1> QED
  BY <1>1, <1>3, <1>4, <1>5 DEF a

LEMMA TailQueue ==
  ASSUME NEW S, NEW q \in Seq(S), q # <<>>, NEW T
  PROVE  /\ Head(q) \in S /\ Tail(q) \in Seq(S)
         /\ \A x : Member(q, x) <=> x = Head(q) \/ Member(Tail(q), x)
         /\ Distinct(q, T) => Distinct(Tail(q), T) /\ (Head(q) \in T => ~Member(Tail(q), Head(q)))
<1> DEFINE a == Tail(q)
<1>1. /\ Head(q) \in S /\ a \in Seq(S) /\ Len(a) = Len(q) - 1 /\ Head(q) = q[1]
      /\ \A i \in 1..Len(a) : a[i] = q[i + 1]
  BY HeadTailProperties
<1>2. Len(q) \in Nat \ {0} /\ DOMAIN q = 1..Len(q) /\ DOMAIN a = 1..(Len(q) - 1)
  BY <1>1, LenProperties, EmptySeq
<1> HIDE DEF a
<1>3. ASSUME NEW x PROVE Member(q, x) <=> x = Head(q) \/ Member(a, x)
  <2>1. ASSUME NEW i \in DOMAIN q, i # 1 PROVE i - 1 \in DOMAIN a /\ a[i - 1] = q[i]
    BY <1>1, <1>2, <2>1
  <2>2. ASSUME NEW i \in DOMAIN a PROVE i + 1 \in DOMAIN q /\ a[i] = q[i + 1]
    BY <1>1, <1>2, <2>2
  <2>3. 1 \in DOMAIN q
    BY <1>2
  <2>4. ASSUME Member(q, x), x # Head(q) PROVE Member(a, x)
    <3>1. PICK i \in DOMAIN q : q[i] = x
      BY <2>4 DEF Member
    <3>2. i # 1
      BY <1>1, <2>4, <3>1
    <3> QED
      BY <2>1, <3>1, <3>2 DEF Member
  <2>5. ASSUME Member(a, x) PROVE Member(q, x)
    BY <2>2, <2>5 DEF Member
  <2>6. Member(q, Head(q))
    BY <1>1, <2>3 DEF Member
  <2> QED
    BY <2>4, <2>5, <2>6
<1>4. ASSUME Distinct(q, T) PROVE Distinct(a, T) /\ (Head(q) \in T => ~Member(a, Head(q)))
  <2>1. ASSUME NEW i \in DOMAIN a PROVE i + 1 \in DOMAIN q /\ a[i] = q[i + 1] /\ i + 1 # 1 /\ i \in Int
    BY <1>1, <1>2, <2>1
  <2>2. Distinct(a, T)
    BY <1>4, <2>1 DEF Distinct
  <2>3. 1 \in DOMAIN q
    BY <1>2
  <2> QED
    BY <1>1, <1>4, <2>1, <2>2, <2>3 DEF Distinct, Member
<1> QED
  BY <1>1, <1>3, <1>4 DEF a

LEMMA ConcatQueue ==
  ASSUME NEW S, NEW q \in Seq(S), NEW t \in Seq(S)
  PROVE  q \o t \in Seq(S) /\ \A x : Member(q \o t, x) <=> Member(q, x) \/ Member(t, x)
<1> DEFINE a == q \o t
<1>1. /\ a \in Seq(S) /\ Len(a) = Len(q) + Len(t)
      /\ \A i \in 1..(Len(q) + Len(t)) : a[i] = IF i <= Len(q) THEN q[i] ELSE t[i - Len(q)]
  BY ConcatProperties
<1>2. /\ Len(q) \in Nat /\ DOMAIN q = 1..Len(q) /\ Len(t) \in Nat /\ DOMAIN t = 1..Len(t)
      /\ DOMAIN a = 1..(Len(q) + Len(t))
  BY <1>1, LenProperties
<1> HIDE DEF a
<1>3. ASSUME NEW x PROVE Member(a, x) <=> Member(q, x) \/ Member(t, x)
  <2>1. ASSUME NEW i \in DOMAIN q PROVE i \in DOMAIN a /\ a[i] = q[i]
    BY <1>1, <1>2
  <2>2. ASSUME NEW i \in DOMAIN t PROVE Len(q) + i \in DOMAIN a /\ a[Len(q) + i] = t[i]
    BY <1>1, <1>2
  <2>3. ASSUME NEW i \in DOMAIN a PROVE (i \in DOMAIN q /\ a[i] = q[i]) \/ (i - Len(q) \in DOMAIN t /\ a[i] = t[i - Len(q)])
    BY <1>1, <1>2
  <2> QED
    BY <2>1, <2>2, <2>3 DEF Member
<1> QED
  BY <1>1, <1>3 DEF a

\* The watchers of a peer that goes down, in any order
LEMMA WatchersQueue ==
  ASSUME NEW n \in Nat, NEW S \in SUBSET (1..n), NEW q \in SetToSeqs(S), NEW T
  PROVE  q \in Seq(S) /\ Distinct(q, T) /\ \A x : Member(q, x) => x \in S
<1>1. IsFiniteSet(S)
  <2>1. IsFiniteSet(1..n)
    BY FS_Interval
  <2> QED
    BY <2>1, FS_Subset
<1>2. Cardinality(S) \in Nat
  BY <1>1, FS_CardinalityType
<1>3. /\ q \in [1..Cardinality(S) -> S]
      /\ \A i, j \in 1..Cardinality(S) : i # j => q[i] # q[j]
  BY DEF SetToSeqs, IsInjective
<1>4. q \in Seq(S)
  BY <1>2, <1>3
<1> QED
  BY <1>3, <1>4 DEF Distinct, Member

-----------------------------------------------------------------------------
(* What the common parts of the actions do *)

\* The coroutine c goes on after it has waited.
Resumed(c, left) ==
    /\ th[c].st \in Waiting /\ th[c].session \in Session
    /\ th' \in [Co -> ThreadType]
    /\ th'[c].st = IF th[c].st = "queue" THEN "enter" ELSE "run"
    /\ th'[c].session = 0 /\ th'[c].req = th[c].req /\ th'[c].in = th[c].in
    /\ \A d \in Co : d # c => th'[d] = th[d]
    /\ session_id_coroutine' \in [Session -> Co \cup {None, Break}]
    /\ session_id_coroutine'[th[c].session] = IF th[c].st \in {"wait", "queue"} THEN None ELSE left
    /\ \A s \in Session : s # th[c].session => session_id_coroutine'[s] = session_id_coroutine[s]
    /\ watching_session' \in [Session -> Peer \cup {None}]
    /\ watching_session'[th[c].session] = None
    /\ \A s \in Session : s # th[c].session => watching_session'[s] = watching_session[s]
    /\ sleep_session' \in [Co -> 0..lim.session]
    /\ sleep_session'[c] = 0 /\ \A d \in Co : d # c => sleep_session'[d] = sleep_session[d]
    /\ pc' = Running(c)

LEMMA ResumeFacts ==
  ASSUME TypeOK, NEW c \in Co, th[c].st \in Waiting, th[c].session \in Session,
         NEW left \in {None, Break}, Resume(c, left)
  PROVE  Resumed(c, left)
<1> DEFINE x == th[c]
           y == [x EXCEPT !.st = IF x.st = "queue" THEN "enter" ELSE "run", !.session = 0]
<1>1. lim.session \in Nat
  BY LimitsAssumption DEF TypeOK
<1>2. x \in ThreadType
  BY DEF TypeOK
<1>3. /\ y \in ThreadType /\ y.st = IF x.st = "queue" THEN "enter" ELSE "run"
      /\ y.session = 0 /\ y.req = x.req /\ y.in = x.in
  <2> DEFINE v == IF x.st = "queue" THEN "enter" ELSE "run"
  <2>1. v \in St /\ 0 \in 0..lim.session /\ y = [x EXCEPT !.st = v, !.session = 0]
    BY <1>1 DEF St
  <2> HIDE DEF v, y, x
  <2>2. y \in ThreadType /\ y.st = v /\ y.session = 0 /\ y.req = x.req /\ y.in = x.in
    BY <1>2, <2>1 DEF ThreadType
  <2> QED
    BY <2>2 DEF v
<1>4. th' = [th EXCEPT ![c] = y]
  BY DEF Resume, TypeOK
<1> HIDE DEF y
<1>5. th' \in [Co -> ThreadType] /\ th'[c] = y /\ \A d \in Co : d # c => th'[d] = th[d]
  BY <1>3, <1>4 DEF TypeOK
<1>6. /\ session_id_coroutine' \in [Session -> Co \cup {None, Break}]
      /\ session_id_coroutine'[x.session] = IF x.st \in {"wait", "queue"} THEN None ELSE left
      /\ \A s \in Session : s # x.session => session_id_coroutine'[s] = session_id_coroutine[s]
  <2> DEFINE v == IF x.st \in {"wait", "queue"} THEN None ELSE left
  <2>1. v \in Co \cup {None, Break} /\ session_id_coroutine' = [session_id_coroutine EXCEPT ![x.session] = v]
    BY DEF Resume
  <2> HIDE DEF v
  <2>2. /\ session_id_coroutine' \in [Session -> Co \cup {None, Break}]
        /\ session_id_coroutine'[x.session] = v
        /\ \A s \in Session : s # x.session => session_id_coroutine'[s] = session_id_coroutine[s]
    BY <2>1 DEF TypeOK
  <2> QED
    BY <2>2 DEF v
<1>7. /\ watching_session' \in [Session -> Peer \cup {None}]
      /\ watching_session'[x.session] = None
      /\ \A s \in Session : s # x.session => watching_session'[s] = watching_session[s]
  BY DEF Resume, TypeOK
<1>8. /\ sleep_session' \in [Co -> 0..lim.session]
      /\ sleep_session'[c] = 0 /\ \A d \in Co : d # c => sleep_session'[d] = sleep_session[d]
  BY <1>1 DEF Resume, TypeOK
<1> QED
  BY <1>3, <1>5, <1>6, <1>7, <1>8 DEF Resume, Resumed

\* The coroutine c waits for a new session.
Suspended(c, st) ==
    /\ last + 1 \in Session /\ last' = last + 1 /\ last' \in 0..lim.session /\ last \in Nat
    /\ th' \in [Co -> ThreadType]
    /\ th'[c].st = st /\ th'[c].session = last + 1 /\ th'[c].req = th[c].req /\ th'[c].in = th[c].in
    /\ \A d \in Co : d # c => th'[d] = th[d]
    /\ session_id_coroutine' \in [Session -> Co \cup {None, Break}]
    /\ session_id_coroutine'[last + 1] = c
    /\ \A s \in Session : s # last + 1 => session_id_coroutine'[s] = session_id_coroutine[s]
    /\ pc' = At("wake")

LEMMA SuspendFacts ==
  ASSUME TypeOK, NEW c \in Co, NEW st \in Waiting, Suspend(c, st)
  PROVE  Suspended(c, st)
<1> DEFINE x == th[c]
           y == [x EXCEPT !.st = st, !.session = last + 1]
<1>1. last \in Nat /\ lim.session \in Nat /\ last + 1 \in Session /\ last + 1 \in 0..lim.session
  BY LimitsAssumption DEF TypeOK, Session, Suspend
<1>2. x \in ThreadType
  BY DEF TypeOK
<1>3. /\ y \in ThreadType /\ y.st = st
      /\ y.session = last + 1 /\ y.req = x.req /\ y.in = x.in
  BY <1>1, <1>2 DEF ThreadType, St, Waiting
<1>4. th' = [th EXCEPT ![c] = y]
  BY DEF Suspend, TypeOK
<1> HIDE DEF y
<1>5. th' \in [Co -> ThreadType] /\ th'[c] = y /\ \A d \in Co : d # c => th'[d] = th[d]
  BY <1>3, <1>4 DEF TypeOK
<1>6. /\ session_id_coroutine' \in [Session -> Co \cup {None, Break}]
      /\ session_id_coroutine'[last + 1] = c
      /\ \A s \in Session : s # last + 1 => session_id_coroutine'[s] = session_id_coroutine[s]
  BY <1>1 DEF Suspend, TypeOK
<1> QED
  BY <1>1, <1>3, <1>5, <1>6 DEF Suspend, Suspended

\* Steps that change one field of one coroutine
LEMMA ThreadFacts ==
  ASSUME TypeOK, NEW c \in Co, NEW y \in ThreadType, th' = [th EXCEPT ![c] = y]
  PROVE  th' \in [Co -> ThreadType] /\ th'[c] = y /\ \A d \in Co : d # c => th'[d] = th[d]
BY DEF TypeOK

LEMMA SetSt ==
  ASSUME NEW x \in ThreadType, NEW st \in St, NEW y, y = [x EXCEPT !.st = st]
  PROVE  y \in ThreadType /\ y.st = st /\ y.session = x.session /\ y.req = x.req /\ y.in = x.in
BY DEF ThreadType

LEMMA SetReq ==
  ASSUME NEW x \in ThreadType, NEW r \in 0..lim.req, NEW y, y = [x EXCEPT !.req = r]
  PROVE  y \in ThreadType /\ y.st = x.st /\ y.session = x.session /\ y.req = r /\ y.in = x.in
BY DEF ThreadType

LEMMA SetIn ==
  ASSUME NEW x \in ThreadType, NEW k \in Nat, NEW y, y = [x EXCEPT !.in = k]
  PROVE  y \in ThreadType /\ y.st = x.st /\ y.session = x.session /\ y.req = x.req /\ y.in = k
BY DEF ThreadType

LEMMA FreeFacts ==
  ASSUME TypeOK
  PROVE  Free \in ThreadType /\ Free.st = "free" /\ Free.session = 0 /\ Free.req = 0 /\ Free.in = 0
<1>1. lim.session \in Nat /\ lim.req \in Nat
  BY LimitsAssumption DEF TypeOK
<1>2. Free \in ThreadType
  BY <1>1 DEF Free, ThreadType, St
<1> QED
  BY <1>2 DEF Free

\* A step that changes one coroutine
Becomes(c, st, s, r, k) ==
    /\ th' \in [Co -> ThreadType]
    /\ th'[c].st = st /\ th'[c].session = s /\ th'[c].req = r /\ th'[c].in = k
    /\ \A d \in Co : d # c => th'[d] = th[d]

LEMMA BecomesFree ==
  ASSUME TypeOK, NEW c \in Co, NEW p,
         Receive(p, c) \/ End(c) \/ Die(c) \/ \E d \in Co : Fork(d, c)
  PROVE  /\ Receive(p, c) => Becomes(c, "run", 0, Len(source) + 1, 0)
         /\ End(c) \/ Die(c) => Becomes(c, "free", 0, 0, 0)
         /\ (\E d \in Co : Fork(d, c)) => Becomes(c, "forked", 0, 0, 0)
<1>1. ASSUME Receive(p, c) PROVE Becomes(c, "run", 0, Len(source) + 1, 0)
  <2>1. Len(source) + 1 \in 0..lim.req
    BY <1>1, LimitsAssumption DEF Receive, TypeOK
  <2>2. "run" \in St
    BY DEF St
  <2>3. PICK k \in 0..lim.req : k = Len(source) + 1
    BY <2>1
  <2> DEFINE x == [Free EXCEPT !.st = "run"]
             y == [x EXCEPT !.req = k]
  <2>4. y \in ThreadType /\ y.st = "run" /\ y.session = 0 /\ y.req = k /\ y.in = 0
    <3>1. x \in ThreadType /\ x.st = "run" /\ x.session = 0 /\ x.in = 0
      BY <2>2, FreeFacts, SetSt
    <3> HIDE DEF x
    <3> QED
      BY <3>1, SetReq
  <2>5. th' = [th EXCEPT ![c] = y]
    BY <1>1, <2>3 DEF Receive
  <2> HIDE DEF y
  <2> QED
    BY <2>3, <2>4, <2>5, ThreadFacts DEF Becomes
<1>2. ASSUME End(c) \/ Die(c) PROVE Becomes(c, "free", 0, 0, 0)
  <2>1. th' = [th EXCEPT ![c] = Free]
    BY <1>2 DEF End, Die
  <2> QED
    BY <2>1, FreeFacts, ThreadFacts DEF Becomes
<1>3. ASSUME NEW d \in Co, Fork(d, c) PROVE Becomes(c, "forked", 0, 0, 0)
  <2>1. "forked" \in St /\ 0 \in 0..lim.req /\ 0 \in Nat
    BY LimitsAssumption DEF St, TypeOK
  <2>2. th[c] = Free /\ th' = [th EXCEPT ![c] = [Free EXCEPT !.st = "forked"]]
    BY <1>3 DEF Fork, TypeOK
  <2> DEFINE y == [Free EXCEPT !.st = "forked"]
  <2>3. Free \in ThreadType /\ Free.session = 0 /\ Free.req = 0 /\ Free.in = 0
    BY FreeFacts
  <2>4. y \in ThreadType /\ y.st = "forked" /\ y.session = 0 /\ y.req = 0 /\ y.in = 0
    BY <2>1, <2>3, SetSt
  <2> HIDE DEF y
  <2> QED
    BY <2>2, <2>4, ThreadFacts DEF Becomes, y
<1> QED
  BY <1>1, <1>2, <1>3

LEMMA BecomesElse ==
  ASSUME TypeOK, NEW c \in Co
  PROVE  /\ Ret(c) \/ TakeResponse(c) => Becomes(c, th[c].st, th[c].session, 0, th[c].in)
         /\ Exit(c) => Becomes(c, "quit", th[c].session, th[c].req, th[c].in)
         /\ Hold(c) => Becomes(c, "run", th[c].session, th[c].req, th[c].in + 1)
         /\ Leave(c) => Becomes(c, th[c].st, th[c].session, th[c].req, th[c].in - 1)
         /\ th' = [th EXCEPT ![c].st = "run"] => Becomes(c, "run", th[c].session, th[c].req, th[c].in)
<1>1. "run" \in St /\ "quit" \in St /\ 0 \in 0..lim.req /\ 0 \in Nat
  BY LimitsAssumption DEF St, TypeOK
<1>2. th[c] \in ThreadType /\ th[c].in \in Nat
  BY DEF TypeOK, ThreadType
<1>3. ASSUME Ret(c) \/ TakeResponse(c) PROVE Becomes(c, th[c].st, th[c].session, 0, th[c].in)
  <2> DEFINE y == [th[c] EXCEPT !.req = 0]
  <2>1. th' = [th EXCEPT ![c] = y]
    BY <1>3 DEF Ret, TakeResponse, TypeOK
  <2>2. y \in ThreadType /\ y.st = th[c].st /\ y.session = th[c].session /\ y.req = 0 /\ y.in = th[c].in
    BY <1>1, <1>2, SetReq
  <2> HIDE DEF y
  <2> QED
    BY <2>1, <2>2, ThreadFacts DEF Becomes
<1>4. ASSUME Exit(c) PROVE Becomes(c, "quit", th[c].session, th[c].req, th[c].in)
  <2> DEFINE y == [th[c] EXCEPT !.st = "quit"]
  <2>1. th' = [th EXCEPT ![c] = y]
    BY <1>4 DEF Exit, TypeOK
  <2>2. y \in ThreadType /\ y.st = "quit" /\ y.session = th[c].session /\ y.req = th[c].req /\ y.in = th[c].in
    BY <1>1, <1>2, SetSt
  <2> HIDE DEF y
  <2> QED
    BY <2>1, <2>2, ThreadFacts DEF Becomes
<1>5. ASSUME Hold(c) PROVE Becomes(c, "run", th[c].session, th[c].req, th[c].in + 1)
  <2>1. PICK k \in Nat : k = th[c].in + 1
    BY <1>2
  <2> DEFINE x == [th[c] EXCEPT !.st = "run"]
             y == [x EXCEPT !.in = k]
  <2>2. th' = [th EXCEPT ![c] = y]
    BY <1>5, <2>1 DEF Hold, TypeOK
  <2>3. y \in ThreadType /\ y.st = "run" /\ y.session = th[c].session /\ y.req = th[c].req /\ y.in = k
    <3>1. x \in ThreadType /\ x.st = "run" /\ x.session = th[c].session /\ x.req = th[c].req
      BY <1>1, <1>2, SetSt
    <3> HIDE DEF x
    <3> QED
      BY <3>1, SetIn
  <2> HIDE DEF y
  <2> QED
    BY <2>1, <2>2, <2>3, ThreadFacts DEF Becomes
<1>6. ASSUME Leave(c) PROVE Becomes(c, th[c].st, th[c].session, th[c].req, th[c].in - 1)
  <2> DEFINE y == [th[c] EXCEPT !.in = th[c].in - 1]
  <2>1. th' = [th EXCEPT ![c] = y]
    BY <1>6 DEF Leave, TypeOK
  <2>2. th[c].in - 1 \in Nat
    BY <1>2, <1>6 DEF Leave, Runs
  <2>3. y \in ThreadType /\ y.st = th[c].st /\ y.session = th[c].session /\ y.req = th[c].req /\ y.in = th[c].in - 1
    BY <1>1, <1>2, <2>2, SetIn
  <2> HIDE DEF y
  <2> QED
    BY <2>1, <2>3, ThreadFacts DEF Becomes
<1>7. ASSUME th' = [th EXCEPT ![c].st = "run"]
      PROVE  Becomes(c, "run", th[c].session, th[c].req, th[c].in)
  <2> DEFINE y == [th[c] EXCEPT !.st = "run"]
  <2>1. th' = [th EXCEPT ![c] = y]
    BY <1>7 DEF TypeOK
  <2>2. y \in ThreadType /\ y.st = "run" /\ y.session = th[c].session /\ y.req = th[c].req /\ y.in = th[c].in
    BY <1>1, <1>2, SetSt
  <2> HIDE DEF y
  <2> QED
    BY <2>1, <2>2, ThreadFacts DEF Becomes
<1> QED
  BY <1>3, <1>4, <1>5, <1>6, <1>7

\* Whoever an answer, a token or an error resumes has waited, and for that session.
LEMMA Resumptions ==
  ASSUME TypeOK, Stage, Sessions
  PROVE  /\ \A s \in Session : Response(s) /\ session_id_coroutine[s] \in Co =>
               Resumed(session_id_coroutine[s], None) /\ th[session_id_coroutine[s]].session = s
         /\ DispatchWakeup /\ sleep_session[Head(wakeup_queue)] # 0 =>
               /\ Head(wakeup_queue) \in Co /\ th[Head(wakeup_queue)].st \in Asleep
               /\ Resumed(Head(wakeup_queue), Break)
         /\ DispatchErrorQueue =>
               /\ Head(error_queue) \in Session /\ session_id_coroutine[Head(error_queue)] \in Co
               /\ Resumed(session_id_coroutine[Head(error_queue)], None)
               /\ th[session_id_coroutine[Head(error_queue)]].session = Head(error_queue)
<1>1. ASSUME NEW s \in Session, session_id_coroutine[s] \in Co
      PROVE  th[session_id_coroutine[s]].session = s /\ th[session_id_coroutine[s]].st \in Waiting
  <2>1. th[session_id_coroutine[s]].session = s
    BY <1>1 DEF Sessions, AnswersFindCallers
  <2>2. s # 0
    BY DEF Session
  <2> QED
    BY <1>1, <2>1, <2>2 DEF Stage
<1>2. ASSUME NEW s \in Session, Response(s), session_id_coroutine[s] \in Co
      PROVE  Resumed(session_id_coroutine[s], None) /\ th[session_id_coroutine[s]].session = s
  BY <1>1, <1>2, ResumeFacts DEF Response
<1>3. ASSUME DispatchWakeup, sleep_session[Head(wakeup_queue)] # 0
      PROVE  /\ Head(wakeup_queue) \in Co /\ th[Head(wakeup_queue)].st \in Asleep
             /\ Resumed(Head(wakeup_queue), Break)
  <2>1. PICK c \in Co : c = Head(wakeup_queue)
    BY <1>3, TailQueue DEF DispatchWakeup, TypeOK
  <2>2. th[c].st \in Asleep /\ th[c].session # 0
    BY <1>3, <2>1 DEF Stage
  <2>3. th[c].st \in Waiting /\ th[c].session \in 0..lim.session /\ lim.session \in Nat
    BY <2>2, LimitsAssumption DEF Asleep, Waiting, TypeOK, ThreadType
  <2>4. th[c].session \in Session
    BY <2>2, <2>3 DEF Session
  <2>5. Resume(c, Break)
    BY <1>3, <2>1 DEF DispatchWakeup
  <2> QED
    BY <2>1, <2>2, <2>3, <2>4, <2>5, ResumeFacts
<1>4. ASSUME DispatchErrorQueue
      PROVE  /\ Head(error_queue) \in Session /\ session_id_coroutine[Head(error_queue)] \in Co
             /\ Resumed(session_id_coroutine[Head(error_queue)], None)
             /\ th[session_id_coroutine[Head(error_queue)]].session = Head(error_queue)
  <2>1. Head(error_queue) \in Session
    BY <1>4, TailQueue DEF DispatchErrorQueue, TypeOK
  <2> QED
    BY <1>1, <1>4, <2>1, ResumeFacts DEF DispatchErrorQueue
<1> QED
  BY <1>2, <1>3, <1>4

-----------------------------------------------------------------------------
(* The invariant is preserved: types *)

LEMMA LimitsKept ==
  ASSUME TypeOK, Next
  PROVE  /\ lim.session \in Nat /\ lim.req \in Nat
         /\ lim' = lim /\ (Session' = Session) /\ (Request' = Request) /\ (ThreadType' = ThreadType)
BY LimitsAssumption DEF TypeOK, Session, Request, ThreadType, Next, Message, Scheduler, Step, SourceDown,
   Receive, Response, ErrorDispatch, DispatchWakeup, NoWakeup, DispatchErrorQueue, DispatchErrorStale,
   NoError, DispatchFork, Done, Call, Sleep, Wait, Wakeup, Fork, Ret, TakeResponse, Respond, End, Die,
   Exit, Enter, EnterLater, EnterNow, Leave, Hold

LEMMA ExitStays ==
  ASSUME Next, exited
  PROVE  exited'
BY DEF due, Next, Message, Scheduler, Step, SourceDown, Receive, Response, ErrorDispatch, DispatchWakeup,
   NoWakeup, DispatchErrorQueue, DispatchErrorStale, NoError, DispatchFork, Done, Call, Sleep, Wait,
   Wakeup, Fork, Ret, TakeResponse, Respond, End, Die, Exit, Enter, EnterLater, EnterNow, Leave, Hold

LEMMA TypeStep ==
  ASSUME TypeOK, Stage, Sessions, Next
  PROVE  TypeOK'
<1> USE DEF tables, queues, env, due
<1>0. /\ lim.session \in Nat /\ lim.req \in Nat
      /\ lim' = lim /\ (Session' = Session) /\ (Request' = Request) /\ (ThreadType' = ThreadType)
  BY LimitsKept
<1>1. ASSUME NEW p \in Peer, SourceDown(p) PROVE TypeOK'
  <2> DEFINE W == {s \in Session : watching_session[s] = p}
  <2>1. PICK q \in SetToSeqs(W) : error_queue' = error_queue \o q
    BY <1>1 DEF SourceDown
  <2>2. q \in Seq(W)
    BY <1>0, WatchersQueue DEF Session
  <2>3. q \in Seq(Session)
    BY <2>2, SeqMonotonic
  <2>4. error_queue' \in Seq(Session)
    BY <2>1, <2>3, ConcatQueue DEF TypeOK
  <2> QED
    BY <1>0, <1>1, <2>4 DEF SourceDown, TypeOK, At
<1>2. ASSUME NEW p \in Peer, NEW c \in Co, Receive(p, c) PROVE TypeOK'
  <2>1. th' \in [Co -> ThreadType]
    BY <1>2, BecomesFree DEF Becomes
  <2>2. source' \in Seq(Peer) /\ Len(source') = Len(source) + 1 /\ Len(source) \in Nat
    BY <1>2, AppendProperties DEF Receive, TypeOK
  <2> QED
    BY <1>0, <1>2, <2>1, <2>2, SMTT(60) DEF Receive, TypeOK, Running
<1>3. ASSUME NEW s \in Session, Response(s) PROVE TypeOK'
  <2>1. CASE session_id_coroutine[s] \in Co
    <3>1. PICK c \in Co : c = session_id_coroutine[s]
      BY <2>1
    <3>2. Resumed(c, None)
      BY <1>3, <2>1, <3>1, Resumptions
    <3> QED
      BY <1>0, <1>3, <3>2 DEF Resumed, Response, TypeOK, Running
  <2>2. CASE session_id_coroutine[s] \notin Co
    BY <1>0, <1>3, <2>2, SMTT(60) DEF Response, TypeOK, At
  <2> QED
    BY <2>1, <2>2
<1>4. ASSUME NEW s \in Session, ErrorDispatch(s) PROVE TypeOK'
  <2>1. error_queue' \in Seq(Session)
    BY <1>4, AppendQueue DEF ErrorDispatch, TypeOK
  <2> QED
    BY <1>0, <1>4, <2>1 DEF ErrorDispatch, TypeOK, At
<1>5. CASE DispatchWakeup
  <2>1. wakeup_queue' \in Seq(Co)
    BY <1>5, TailQueue DEF DispatchWakeup, TypeOK
  <2>2. CASE sleep_session[Head(wakeup_queue)] # 0
    <3>1. PICK c \in Co : c = Head(wakeup_queue) /\ Resumed(c, Break)
      BY <1>5, <2>2, Resumptions
    <3>2. frames' = frames + 1
      BY <1>5, <2>2 DEF DispatchWakeup
    <3> QED
      BY <1>0, <1>5, <2>1, <3>1, <3>2, SMTT(60) DEF Resumed, DispatchWakeup, TypeOK, Running
  <2>3. CASE sleep_session[Head(wakeup_queue)] = 0
    BY <1>0, <1>5, <2>1, <2>3 DEF DispatchWakeup, TypeOK, At
  <2> QED
    BY <2>2, <2>3
<1>6. CASE NoWakeup
  BY <1>0, <1>6 DEF NoWakeup, TypeOK, At
<1>7. CASE DispatchErrorQueue
  <2>1. error_queue' \in Seq(Session)
    BY <1>7, TailQueue DEF DispatchErrorQueue, TypeOK
  <2> QED
    BY <1>0, <1>7, <2>1, Resumptions, SMTT(60)
       DEF Resumed, DispatchErrorQueue, TypeOK, Running
<1>8. CASE DispatchErrorStale
  <2>1. error_queue' \in Seq(Session)
    BY <1>8, TailQueue DEF DispatchErrorStale, TypeOK
  <2> QED
    BY <1>0, <1>8, <2>1 DEF DispatchErrorStale, TypeOK, At
<1>9. CASE NoError
  BY <1>0, <1>9 DEF NoError, Return, TypeOK, At
<1>10. CASE DispatchFork
  <2>1. PICK c \in Co \cup {None} : c = Head(fork_queue)
    BY <1>10, TailQueue DEF DispatchFork, TypeOK
  <2>2. fork_queue' \in Seq(Co \cup {None})
    BY <1>10, TailQueue DEF DispatchFork, TypeOK
  <2>3. CASE c = None
    BY <1>0, <1>10, <2>1, <2>2, <2>3, SMTT(60) DEF DispatchFork, TypeOK, At
  <2>4. CASE c # None
    <3>1. c \in Co /\ th' = [th EXCEPT ![c].st = "run"]
      BY <1>10, <2>1, <2>4 DEF DispatchFork
    <3>2. th' \in [Co -> ThreadType]
      BY <3>1, BecomesElse DEF Becomes
    <3> QED
      BY <1>0, <1>10, <2>1, <2>2, <2>4, <3>1, <3>2, SMTT(60)
         DEF DispatchFork, TypeOK, Running
  <2> QED
    BY <2>3, <2>4
<1>11. CASE Done
  BY <1>0, <1>11 DEF Done, TypeOK, At
<1>12. ASSUME NEW c \in Co, NEW p \in Peer, Call(c, p) PROVE TypeOK'
  <2>1. Suspended(c, "call")
    BY <1>12, SuspendFacts DEF Call, Waiting
  <2>2. watching_session' \in [Session -> Peer \cup {None}]
    BY <1>12, <2>1 DEF Call, Suspended, TypeOK
  <2>3. calls' \subseteq 1..last' /\ timers \subseteq 1..last'
    BY <1>12, <2>1 DEF Call, Suspended, TypeOK
  <2> QED
    BY <1>0, <1>12, <2>1, <2>2, <2>3 DEF Call, Suspended, TypeOK, At
<1>13. ASSUME NEW c \in Co, Sleep(c) PROVE TypeOK'
  <2>1. Suspended(c, "sleep")
    BY <1>13, SuspendFacts DEF Sleep, Waiting
  <2>2. sleep_session' \in [Co -> 0..lim.session]
    BY <1>0, <1>13, <2>1 DEF Sleep, Suspended, TypeOK
  <2>3. timers' \subseteq 1..last' /\ calls \subseteq 1..last'
    BY <1>13, <2>1 DEF Sleep, Suspended, TypeOK
  <2> QED
    BY <1>0, <1>13, <2>1, <2>2, <2>3 DEF Sleep, Suspended, TypeOK, At
<1>14. ASSUME NEW c \in Co, Wait(c) PROVE TypeOK'
  <2>1. Suspended(c, "wait")
    BY <1>14, SuspendFacts DEF Wait, Waiting
  <2>2. sleep_session' \in [Co -> 0..lim.session]
    BY <1>0, <1>14, <2>1 DEF Wait, Suspended, TypeOK
  <2>3. timers \subseteq 1..last' /\ calls \subseteq 1..last'
    BY <1>14, <2>1 DEF Wait, Suspended, TypeOK
  <2> QED
    BY <1>0, <1>14, <2>1, <2>2, <2>3 DEF Wait, Suspended, TypeOK, At
<1>15. ASSUME NEW c \in Co, NEW d \in Co, Wakeup(c, d) PROVE TypeOK'
  <2>1. wakeup_queue' \in Seq(Co)
    BY <1>15, AppendQueue DEF Wakeup, TypeOK
  <2> QED
    BY <1>0, <1>15, <2>1 DEF Wakeup, TypeOK
<1>16. ASSUME NEW c \in Co, NEW d \in Co, Fork(c, d) PROVE TypeOK'
  <2>1. fork_queue' \in Seq(Co \cup {None})
    BY <1>16, AppendQueue DEF Fork, TypeOK
  <2>2. th' \in [Co -> ThreadType]
    BY <1>16, BecomesFree DEF Becomes
  <2> QED
    BY <1>0, <1>16, <2>1, <2>2 DEF Fork, TypeOK
<1>17. ASSUME NEW c \in Co, Ret(c) PROVE TypeOK'
  <2>1. th' \in [Co -> ThreadType]
    BY <1>17, BecomesElse DEF Becomes
  <2>2. th[c].req \in 0..lim.req
    BY <1>17 DEF TypeOK, ThreadType
  <2>3. th[c].req # 0
    BY <1>17 DEF Ret
  <2>4. PICK r \in Request : r = th[c].req
    BY <1>0, <2>2, <2>3 DEF Request
  <2>5. answers' = [answers EXCEPT ![r] = @ + 1]
    BY <1>17, <2>4 DEF Ret
  <2>6. answers' \in [Request -> Nat]
    BY <2>5 DEF TypeOK
  <2> QED
    BY <1>0, <1>17, <2>1, <2>6 DEF Ret, TypeOK
<1>18. ASSUME NEW c \in Co, TakeResponse(c) PROVE TypeOK'
  <2>1. th' \in [Co -> ThreadType]
    BY <1>18, BecomesElse DEF Becomes
  <2>2. th[c].req \in 0..lim.req
    BY <1>18 DEF TypeOK, ThreadType
  <2>3. unresponse' \subseteq Request
    BY <1>0, <1>18, <2>2 DEF TakeResponse, TypeOK, Request
  <2> QED
    BY <1>0, <1>18, <2>1, <2>3 DEF TakeResponse, TypeOK
<1>19. ASSUME NEW c \in Co, NEW r \in Request, Respond(c, r) PROVE TypeOK'
  BY <1>0, <1>19 DEF Respond, TypeOK
<1>20. ASSUME NEW c \in Co, End(c) PROVE TypeOK'
  <2>1. th' \in [Co -> ThreadType]
    BY <1>20, BecomesFree DEF Becomes
  <2>2. th[c].req \in 0..lim.req
    BY <1>20 DEF TypeOK, ThreadType
  <2>3. void' \subseteq Request
    <3>1. th[c].req # 0 => th[c].req \in Request
      BY <1>0, <2>2 DEF Request
    <3> QED
      BY <1>20, <3>1 DEF End, TypeOK
  <2> QED
    BY <1>0, <1>20, <2>1, <2>3 DEF End, TypeOK, At
<1>21. ASSUME NEW c \in Co, Die(c) PROVE TypeOK'
  <2>1. th' \in [Co -> ThreadType]
    BY <1>21, BecomesFree DEF Becomes
  <2>2. answers' \in [Request -> Nat]
    <3>1. CASE th[c].req = 0
      BY <1>21, <3>1 DEF Die, TypeOK
    <3>2. CASE th[c].req # 0
      <4>1. th[c].req \in 0..lim.req
        BY DEF TypeOK, ThreadType
      <4>2. PICK r \in Request : r = th[c].req
        BY <1>0, <3>2, <4>1 DEF Request
      <4>3. answers' = [answers EXCEPT ![r] = answers[r] + 1] /\ answers[r] + 1 \in Nat
        BY <1>21, <3>2, <4>2 DEF Die, TypeOK
      <4> QED
        BY <4>3 DEF TypeOK
    <3> QED
      BY <3>1, <3>2
  <2>3. fork_queue' \in Seq(Co \cup {None})
    BY <1>21, AppendQueue DEF Die, TypeOK
  <2> QED
    BY <1>0, <1>21, <2>1, <2>2, <2>3 DEF Die, TypeOK, At
<1>22. ASSUME NEW c \in Co, Exit(c) PROVE TypeOK'
  <2>1. th' \in [Co -> ThreadType]
    BY <1>22, BecomesElse DEF Becomes
  <2>2. answers' \in [Request -> Nat]
    BY <1>0, <1>22 DEF Exit, TypeOK
  <2>3. fork_queue' \in Seq(Co \cup {None})
    BY <1>22, EmptySeq DEF Exit
  <2>4. pc' \in [at : {"idle", "run", "wake", "err", "forks"}, co : Co \cup {None}] /\ frames' \in Nat
    BY <1>22 DEF Exit, Return, TypeOK, At
  <2> QED
    BY <1>0, <1>22, <2>1, <2>2, <2>3, <2>4 DEF Exit, TypeOK
<1>23. ASSUME NEW c \in Co, Hold(c) PROVE TypeOK'
  <2>1. th' \in [Co -> ThreadType]
    BY <1>23, BecomesElse DEF Becomes
  <2>2. cs \in QueueType /\ cs' = [cs EXCEPT !.current_thread = c, !.ref = @ + 1]
    BY <1>23 DEF Hold, TypeOK
  <2>3. PICK k \in Int : k = cs.ref + 1
    BY <2>2 DEF QueueType
  <2>4. cs' = [cs EXCEPT !.current_thread = c, !.ref = k]
    BY <2>2, <2>3
  <2>5. cs' \in QueueType
    BY <2>2, <2>4 DEF QueueType
  <2> QED
    BY <1>0, <1>23, <2>1, <2>5 DEF Hold, TypeOK
<1>24. ASSUME NEW c \in Co, EnterLater(c) PROVE TypeOK'
  <2>1. Suspended(c, "queue")
    BY <1>24, SuspendFacts DEF EnterLater, Waiting
  <2>2. sleep_session' \in [Co -> 0..lim.session]
    BY <1>0, <1>24, <2>1 DEF EnterLater, Suspended, TypeOK
  <2>3. timers \subseteq 1..last' /\ calls \subseteq 1..last'
    BY <1>24, <2>1 DEF EnterLater, Suspended, TypeOK
  <2>4. cs' \in QueueType
    BY <1>24, AppendQueue DEF EnterLater, TypeOK, QueueType
  <2> QED
    BY <1>0, <1>24, <2>1, <2>2, <2>3, <2>4 DEF EnterLater, Suspended, TypeOK, At
<1>25. ASSUME NEW c \in Co, Leave(c) PROVE TypeOK'
  <2>1. th' \in [Co -> ThreadType]
    BY <1>25, BecomesElse DEF Becomes
  <2>2. cs.ref \in Int /\ cs.thread_queue \in Seq(Co)
    BY DEF TypeOK, QueueType
  <2>3. cs.thread_queue # <<>> => Head(cs.thread_queue) \in Co /\ Tail(cs.thread_queue) \in Seq(Co)
    BY <2>2, TailQueue
  <2>4. wakeup_queue' \in Seq(Co)
    BY <1>25, <2>3, AppendQueue DEF Leave, TypeOK
  <2>5. cs'.current_thread \in Co \cup {None} /\ cs'.ref \in Int /\ cs'.thread_queue \in Seq(Co)
    <3>1. cs'.ref = cs.ref - 1
      BY <1>25 DEF Leave
    <3>2. cs'.current_thread \in {c, None} \/ (cs.thread_queue # <<>> /\ cs'.current_thread = Head(cs.thread_queue))
      BY <1>25 DEF Leave
    <3>3. cs'.thread_queue = cs.thread_queue \/ (cs.thread_queue # <<>> /\ cs'.thread_queue = Tail(cs.thread_queue))
      BY <1>25 DEF Leave
    <3>4. cs'.current_thread \in Co \cup {None}
      BY <2>3, <3>2
    <3>5. cs'.ref \in Int
      BY <2>2, <3>1
    <3> QED
      BY <2>2, <2>3, <3>3, <3>4, <3>5
  <2>6. cs' = [current_thread |-> cs'.current_thread, ref |-> cs'.ref, thread_queue |-> cs'.thread_queue]
    BY <1>25 DEF Leave
  <2>7. cs' \in QueueType
    BY <2>5, <2>6 DEF QueueType
  <2> QED
    BY <1>0, <1>25, <2>1, <2>4, <2>7 DEF Leave, TypeOK
<1> QED
  BY <1>1, <1>2, <1>3, <1>4, <1>5, <1>6, <1>7, <1>8, <1>9, <1>10, <1>11, <1>12, <1>13, <1>14, <1>15,
     <1>16, <1>17, <1>18, <1>19, <1>20, <1>21, <1>22, <1>23, <1>24, <1>25
     DEF Next, Message, Scheduler, Step, Enter, EnterNow

-----------------------------------------------------------------------------
(* The invariant is preserved: coroutines *)

LEMMA ProgramCounter ==
  /\ \A c, d \in Co : Running(c) = Running(d) => c = d
  /\ \A c \in Co : Running(c).at = "run"
  /\ \A x : At(x).at = x
  /\ \A x : x # "run" => \A c \in Co : At(x) # Running(c)
BY DEF Running, At

\* Whoever runs does not wait, is not in fork_queue, and is alone.
LEMMA RunsAlone ==
  ASSUME TypeOK, Stage, NEW c \in Co, pc = Running(c)
  PROVE  /\ th[c].st \in {"run", "enter"} /\ th[c].session = 0 /\ sleep_session[c] = 0
         /\ ~Member(fork_queue, c) /\ \A d \in Co : d # c => th[d].st \notin {"run", "enter"}
<1>1. th[c].st \in {"run", "enter"}
  BY DEF Stage
<1>2. th[c].st \notin Waiting /\ th[c].st \notin Asleep /\ th[c].st # "forked"
  BY <1>1 DEF Waiting, Asleep
<1> QED
  BY <1>1, <1>2, ProgramCounter DEF Stage

LEMMA StageResumed ==
  ASSUME TypeOK, Stage, NEW c \in Co, NEW left, Resumed(c, left), pc.at # "run", fork_queue' = fork_queue
  PROVE  Stage'
<1> USE DEF Waiting, Asleep
<1>1. ASSUME NEW d \in Co PROVE th'[d].st \in {"run", "enter"} <=> pc' = Running(d)
  BY ProgramCounter DEF Resumed, Stage
<1>2. ASSUME NEW d \in Co PROVE th'[d].st \in Waiting <=> th'[d].session # 0
  BY DEF Resumed, Stage
<1>3. ASSUME NEW d \in Co PROVE sleep_session'[d] = IF th'[d].st \in Asleep THEN th'[d].session ELSE 0
  <2>1. CASE d = c
    BY <2>1 DEF Resumed
  <2>2. CASE d # c
    BY <2>2 DEF Resumed, Stage
  <2> QED
    BY <2>1, <2>2
<1>4. ASSUME NEW d \in Co, Member(fork_queue', d) PROVE th'[d].st = "forked"
  BY <1>4 DEF Resumed, Stage
<1> QED
  BY <1>1, <1>2, <1>3, <1>4 DEF Stage

LEMMA StageSuspended ==
  ASSUME TypeOK, Stage, NEW c \in Co, NEW st \in Waiting, Suspended(c, st), pc = Running(c),
         fork_queue' = fork_queue,
         sleep_session' = IF st \in Asleep THEN [sleep_session EXCEPT ![c] = last + 1] ELSE sleep_session
  PROVE  Stage'
<1> USE DEF Waiting, Asleep
<1>1. ASSUME NEW d \in Co PROVE th'[d].st \in {"run", "enter"} <=> pc' = Running(d)
  BY RunsAlone, ProgramCounter DEF Suspended
<1>2. ASSUME NEW d \in Co PROVE th'[d].st \in Waiting <=> th'[d].session # 0
  BY DEF Suspended, Stage
<1>3. ASSUME NEW d \in Co PROVE sleep_session'[d] = IF th'[d].st \in Asleep THEN th'[d].session ELSE 0
  <2>1. CASE d = c
    BY <2>1, RunsAlone DEF Suspended, TypeOK
  <2>2. CASE d # c
    BY <2>2 DEF Suspended, Stage, TypeOK
  <2> QED
    BY <2>1, <2>2
<1>4. ASSUME NEW d \in Co, Member(fork_queue', d) PROVE th'[d].st = "forked"
  BY <1>4, RunsAlone DEF Suspended, Stage
<1> QED
  BY <1>1, <1>2, <1>3, <1>4 DEF Stage

LEMMA StageStep ==
  ASSUME TypeOK, Stage, Sessions, Next
  PROVE  Stage'
<1> USE DEF tables, queues, env, due, Waiting, Asleep
<1>1. ASSUME NEW p \in Peer, SourceDown(p) PROVE Stage'
  BY <1>1, ProgramCounter DEF SourceDown, Dispatch, Stage
<1>2. ASSUME NEW p \in Peer, NEW c \in Co, Receive(p, c) PROVE Stage'
  <2>1. Becomes(c, "run", 0, Len(source) + 1, 0)
    BY <1>2, BecomesFree
  <2>2. th[c].st = "free"
    BY <1>2, FreeFacts DEF Receive
  <2> QED
    BY <1>2, <2>1, <2>2, ProgramCounter DEF Receive, Dispatch, Stage, Becomes
<1>3. ASSUME NEW s \in Session, Response(s) PROVE Stage'
  <2>1. CASE session_id_coroutine[s] \in Co
    <3>1. PICK c \in Co : c = session_id_coroutine[s] /\ Resumed(c, None)
      BY <1>3, <2>1, Resumptions
    <3> QED
      BY <1>3, <3>1, ProgramCounter, StageResumed DEF Response, Dispatch
  <2>2. CASE session_id_coroutine[s] \notin Co
    BY <1>3, <2>2, ProgramCounter DEF Response, Dispatch, Stage
  <2> QED
    BY <2>1, <2>2
<1>4. ASSUME NEW s \in Session, ErrorDispatch(s) PROVE Stage'
  BY <1>4, ProgramCounter DEF ErrorDispatch, Dispatch, Stage
<1>5. CASE DispatchWakeup
  <2>1. CASE sleep_session[Head(wakeup_queue)] # 0
    <3>1. PICK c \in Co : c = Head(wakeup_queue) /\ Resumed(c, Break)
      BY <1>5, <2>1, Resumptions
    <3> QED
      BY <1>5, <3>1, ProgramCounter, StageResumed DEF DispatchWakeup
  <2>2. CASE sleep_session[Head(wakeup_queue)] = 0
    BY <1>5, <2>2, ProgramCounter DEF DispatchWakeup, Stage
  <2> QED
    BY <2>1, <2>2
<1>6. CASE NoWakeup
  BY <1>6, ProgramCounter DEF NoWakeup, Stage
<1>7. CASE DispatchErrorQueue
  <2>1. PICK c \in Co : c = session_id_coroutine[Head(error_queue)] /\ Resumed(c, None)
    BY <1>7, Resumptions
  <2> QED
    BY <1>7, <2>1, ProgramCounter, StageResumed DEF DispatchErrorQueue
<1>8. CASE DispatchErrorStale
  BY <1>8, ProgramCounter DEF DispatchErrorStale, Stage
<1>9. CASE NoError
  BY <1>9, ProgramCounter DEF NoError, Return, Stage
<1>10. CASE DispatchFork
  <2>1. PICK c \in Co \cup {None} : c = Head(fork_queue)
    BY <1>10, TailQueue DEF DispatchFork, TypeOK
  <2>2. /\ \A x : Member(fork_queue, x) <=> x = c \/ Member(fork_queue', x)
        /\ Distinct(fork_queue', Co) /\ (c \in Co => ~Member(fork_queue', c))
    BY <1>10, <2>1, TailQueue DEF DispatchFork, TypeOK, Stage
  <2>3. CASE c = None
    BY <1>10, <2>1, <2>2, <2>3, ProgramCounter DEF DispatchFork, Stage
  <2>4. CASE c # None
    <3>1. c \in Co /\ th' = [th EXCEPT ![c].st = "run"] /\ pc' = Running(c)
      BY <1>10, <2>1, <2>4 DEF DispatchFork
    <3>2. Becomes(c, "run", th[c].session, th[c].req, th[c].in)
      BY <3>1, BecomesElse
    <3>3. th[c].st = "forked"
      BY <2>2, <3>1 DEF Stage
    <3> QED
      BY <1>10, <2>2, <3>1, <3>2, <3>3, ProgramCounter DEF DispatchFork, Stage, Becomes
  <2> QED
    BY <2>3, <2>4
<1>11. CASE Done
  BY <1>11, ProgramCounter DEF Done, Stage
<1>12. ASSUME NEW c \in Co, NEW p \in Peer, Call(c, p) PROVE Stage'
  <2>1. Suspended(c, "call")
    BY <1>12, SuspendFacts DEF Call
  <2>2. pc = Running(c)
    BY <1>12 DEF Call, Runs
  <2> QED
    BY <1>12, <2>1, <2>2, StageSuspended DEF Call
<1>13. ASSUME NEW c \in Co, Sleep(c) PROVE Stage'
  <2>1. Suspended(c, "sleep")
    BY <1>13, SuspendFacts DEF Sleep
  <2>2. pc = Running(c)
    BY <1>13 DEF Sleep, Runs
  <2> QED
    BY <1>13, <2>1, <2>2, StageSuspended DEF Sleep
<1>14. ASSUME NEW c \in Co, Wait(c) PROVE Stage'
  <2>1. Suspended(c, "wait")
    BY <1>14, SuspendFacts DEF Wait
  <2>2. pc = Running(c)
    BY <1>14 DEF Wait, Runs
  <2> QED
    BY <1>14, <2>1, <2>2, StageSuspended DEF Wait
<1>15. ASSUME NEW c \in Co, NEW d \in Co, Wakeup(c, d) PROVE Stage'
  BY <1>15 DEF Wakeup, Stage
<1>16. ASSUME NEW c \in Co, NEW d \in Co, Fork(c, d) PROVE Stage'
  <2>1. Becomes(d, "forked", 0, 0, 0)
    BY <1>16, BecomesFree
  <2>2. th[d].st = "free" /\ th[d].session = 0 /\ sleep_session[d] = 0
    BY <1>16, FreeFacts DEF Fork, Stage
  <2>3. /\ \A x : Member(fork_queue', x) <=> x = d \/ Member(fork_queue, x)
        /\ Distinct(fork_queue', Co)
    <3>1. fork_queue \in Seq(Co \cup {None}) /\ fork_queue' = Append(fork_queue, d) /\ Distinct(fork_queue, Co)
      BY <1>16 DEF Fork, TypeOK, Stage
    <3>2. ~Member(fork_queue, d)
      BY <2>2 DEF Stage
    <3> QED
      BY <3>1, <3>2, AppendQueue
  <2> QED
    BY <1>16, <2>1, <2>2, <2>3, ProgramCounter DEF Fork, Stage, Becomes
<1>17. ASSUME NEW c \in Co, Ret(c) \/ TakeResponse(c) PROVE Stage'
  <2>1. Becomes(c, th[c].st, th[c].session, 0, th[c].in)
    BY <1>17, BecomesElse
  <2> QED
    <3>1. \A d \in Co : th'[d].st = th[d].st /\ th'[d].session = th[d].session
      BY <2>1 DEF Becomes
    <3>2. UNCHANGED <<pc, sleep_session, fork_queue>>
      BY <1>17 DEF Ret, TakeResponse
    <3> QED
      BY <3>1, <3>2 DEF Stage
<1>18. ASSUME NEW c \in Co, NEW r \in Request, Respond(c, r) PROVE Stage'
  BY <1>18 DEF Respond, Stage
<1>19. ASSUME NEW c \in Co, End(c) PROVE Stage'
  <2>1. Becomes(c, "free", 0, 0, 0) /\ pc = Running(c)
    BY <1>19, BecomesFree DEF End, Runs
  <2> QED
    <3>1. pc' = At("wake") /\ UNCHANGED <<sleep_session, fork_queue>>
      BY <1>19 DEF End
    <3>2. \A d \in Co : th'[d].st \in {"run", "enter"} <=> pc' = Running(d)
      BY <2>1, <3>1, RunsAlone, ProgramCounter DEF Becomes
    <3> QED
      BY <2>1, <3>1, <3>2, RunsAlone DEF Stage, Becomes
<1>20. ASSUME NEW c \in Co, Die(c) PROVE Stage'
  <2>1. Becomes(c, "free", 0, 0, 0) /\ pc = Running(c)
    BY <1>20, BecomesFree DEF Die, Runs
  <2>2. /\ \A x : Member(fork_queue', x) <=> x = None \/ Member(fork_queue, x)
        /\ Distinct(fork_queue', Co)
    <3>1. fork_queue \in Seq(Co \cup {None}) /\ fork_queue' = Append(fork_queue, None) /\ Distinct(fork_queue, Co)
      BY <1>20 DEF Die, TypeOK, Stage
    <3>2. None \notin Co
      BY NoneAssumption
    <3> QED
      BY <3>1, <3>2, AppendQueue
  <2> QED
    BY <1>20, <2>1, <2>2, NoneAssumption, RunsAlone, ProgramCounter DEF Die, Stage, Becomes
<1>21. ASSUME NEW c \in Co, Exit(c) PROVE Stage'
  <2>1. Becomes(c, "quit", th[c].session, th[c].req, th[c].in) /\ pc = Running(c)
    BY <1>21, BecomesElse DEF Exit, Runs
  <2>2. pc' = At("err") \/ pc' = At("forks")
    BY <1>21 DEF Exit, Return
  <2> QED
    BY <1>21, <2>1, <2>2, EmptyQueue, RunsAlone, ProgramCounter DEF Exit, Stage, Becomes
<1>22. ASSUME NEW c \in Co, Hold(c), pc = Running(c) PROVE Stage'
  <2>1. Becomes(c, "run", th[c].session, th[c].req, th[c].in + 1)
    BY <1>22, BecomesElse
  <2> QED
    BY <1>22, <2>1, RunsAlone, ProgramCounter DEF Hold, Stage, Becomes
<1>23. ASSUME NEW c \in Co, EnterLater(c) PROVE Stage'
  <2>1. Suspended(c, "queue")
    BY <1>23, SuspendFacts DEF EnterLater
  <2>2. pc = Running(c)
    BY <1>23 DEF EnterLater, Runs
  <2> QED
    BY <1>23, <2>1, <2>2, StageSuspended DEF EnterLater
<1>24. ASSUME NEW c \in Co, Leave(c) PROVE Stage'
  <2>1. Becomes(c, th[c].st, th[c].session, th[c].req, th[c].in - 1)
    BY <1>24, BecomesElse
  <2>2. \A d \in Co : th'[d].st = th[d].st /\ th'[d].session = th[d].session
    BY <2>1 DEF Becomes
  <2>3. UNCHANGED <<pc, sleep_session, fork_queue>>
    BY <1>24 DEF Leave
  <2> QED
    BY <2>2, <2>3 DEF Stage
<1> QED
  BY <1>1, <1>2, <1>3, <1>4, <1>5, <1>6, <1>7, <1>8, <1>9, <1>10, <1>11, <1>12, <1>13, <1>14, <1>15,
     <1>16, <1>17, <1>18, <1>19, <1>20, <1>21, <1>22, <1>23, <1>24
     DEF Next, Message, Scheduler, Step, Enter, EnterNow, Runs

-----------------------------------------------------------------------------
(* The invariant is preserved: sessions *)

LEMMA SessionsKept ==
  ASSUME TypeOK, Sessions, Session' = Session,
         \A d \in Co : /\ th'[d].session = th[d].session
                       /\ th'[d].st \in Waiting => th'[d].st = th[d].st,
         UNCHANGED <<session_id_coroutine, timers, last>>,
         \A s \in Session : Called(s)' => Called(s)
  PROVE  Sessions'
<1>1. AnswersFindCallers'
  BY DEF Sessions, AnswersFindCallers
<1>2. ASSUME NEW c \in Co, NEW s \in Session, th'[c].st \in Waiting, th'[c].session = s
      PROVE  /\ s \in timers' <=> th'[c].st = "sleep"
             /\ th'[c].st \in Asleep => ~Called(s)'
  BY <1>2 DEF Sessions
<1> QED
  BY <1>1, <1>2 DEF Sessions

LEMMA SessionsResumed ==
  ASSUME TypeOK, Stage, Sessions, Session' = Session, NEW c \in Co, NEW left \in {None, Break},
         Resumed(c, left),
         \A s \in Session : Called(s)' => Called(s),
         \A s \in Session : s # th[c].session => (s \in timers' <=> s \in timers),
         th[c].session \in timers' => left = Break,
         left = Break => timers' = timers /\ th[c].st \in Asleep,
         timers' \subseteq timers, last' = last
  PROVE  Sessions'
<1> USE DEF Waiting, Asleep
<1>0. PICK x \in Session : x = th[c].session
  BY DEF Resumed
<1>1. session_id_coroutine[x] = c /\ (x \in timers <=> th[c].st = "sleep")
  BY <1>0 DEF Resumed, Sessions, AnswersFindCallers
<1>2. None \notin Co /\ Break \notin Co /\ None # Break
  BY NoneAssumption
<1>3. ASSUME NEW d \in Co, d # c, th[d].st \in Waiting PROVE th[d].session # x
  BY <1>1, <1>3 DEF Sessions, AnswersFindCallers
<1>4. ASSUME NEW d \in Co, th'[d].st \in Waiting
      PROVE  d # c /\ th[d].st \in Waiting /\ th'[d].session = th[d].session /\ th'[d].st = th[d].st
  BY <1>4 DEF Resumed
<1>5. ASSUME NEW d \in Co, th'[d].st \in Waiting PROVE session_id_coroutine'[th'[d].session] = d
  <2>1. session_id_coroutine[th[d].session] = d
    BY <1>4, <1>5 DEF Sessions, AnswersFindCallers
  <2>2. th[d].session \in 0..lim.session /\ lim.session \in Nat
    BY LimitsAssumption DEF TypeOK, ThreadType
  <2>3. th[d].session # x /\ th'[d].session = th[d].session
    BY <1>3, <1>4, <1>5
  <2>4. th[d].session \in Session
    BY <1>4, <1>5, <2>2 DEF Stage, Session
  <2> QED
    BY <1>0, <2>1, <2>3, <2>4 DEF Resumed
<1>6. ASSUME NEW s \in Session
      PROVE  /\ session_id_coroutine'[s] \in Co => th'[session_id_coroutine'[s]].session = s
             /\ session_id_coroutine'[s] = Break => s \in timers'
             /\ s \in timers' => session_id_coroutine'[s] # None
  <2>1. CASE s = x
    BY <1>0, <1>1, <1>2, <2>1 DEF Resumed
  <2>2. CASE s # x
    <3>1. session_id_coroutine'[s] = session_id_coroutine[s] /\ (s \in timers' <=> s \in timers)
      BY <1>0, <2>2 DEF Resumed
    <3>2. session_id_coroutine[s] # c
      BY <1>0, <2>2 DEF Sessions, AnswersFindCallers
    <3> QED
      BY <3>1, <3>2 DEF Resumed, Sessions, AnswersFindCallers
  <2> QED
    BY <2>1, <2>2
<1>7. AnswersFindCallers'
  BY <1>5, <1>6 DEF AnswersFindCallers
<1>8. ASSUME NEW s \in Session, s > last' PROVE session_id_coroutine'[s] = None
  BY <1>0, <1>1, <1>2, <1>8 DEF Resumed, Sessions
<1>9. ASSUME NEW s \in Session, Called(s)' PROVE s <= last' /\ s \notin timers'
  BY <1>9 DEF Sessions
<1>10. ASSUME NEW d \in Co, NEW s \in Session, th'[d].st \in Waiting, th'[d].session = s
      PROVE  /\ s \in timers' <=> th'[d].st = "sleep"
             /\ th'[d].st \in Asleep => ~Called(s)'
  <2>1. d # c /\ th[d].st \in Waiting /\ th[d].session = s /\ th'[d].st = th[d].st /\ s # x
    BY <1>3, <1>4, <1>10
  <2>2. s \in timers' <=> s \in timers
    BY <1>0, <2>1
  <2> QED
    BY <2>1, <2>2 DEF Sessions
<1> QED
  BY <1>7, <1>8, <1>9, <1>10 DEF Sessions

LEMMA SessionsSuspended ==
  ASSUME TypeOK, Stage, Sessions, Session' = Session, NEW c \in Co, NEW st \in Waiting, Suspended(c, st),
         pc = Running(c),
         timers' = IF st = "sleep" THEN timers \cup {last + 1} ELSE timers,
         \A s \in Session : s # last + 1 \/ st # "call" => (Called(s)' <=> Called(s))
  PROVE  Sessions'
<1> USE DEF Waiting, Asleep
<1>0. PICK x \in Session : x = last + 1
  BY DEF Suspended
<1>1. session_id_coroutine[x] = None /\ ~Called(x) /\ x \notin timers /\ x > last /\ last \in Nat
  BY <1>0 DEF Suspended, Sessions, TypeOK
<1>2. None \notin Co /\ Break \notin Co /\ None # Break
  BY NoneAssumption
<1>3. ASSUME NEW d \in Co, d # c, th[d].st \in Waiting PROVE th[d].session # x
  BY <1>1, <1>2, <1>3 DEF Sessions, AnswersFindCallers
<1>4. th[c].session = 0 /\ th'[c].session = x /\ th'[c].st = st /\ session_id_coroutine'[x] = c
  BY <1>0, RunsAlone DEF Suspended
<1>5. ASSUME NEW d \in Co, th'[d].st \in Waiting PROVE session_id_coroutine'[th'[d].session] = d
  <2>1. CASE d = c
    BY <1>4, <2>1
  <2>2. CASE d # c
    <3>1. th'[d] = th[d]
      BY <2>2 DEF Suspended
    <3>2. th[d].session # 0 /\ th[d].session \in 0..lim.session /\ lim.session \in Nat
      BY <1>5, <3>1, LimitsAssumption DEF TypeOK, ThreadType, Stage
    <3>3. th[d].session \in Session /\ th[d].session # x
      BY <1>3, <1>5, <2>2, <3>1, <3>2 DEF Session
    <3>4. session_id_coroutine'[th[d].session] = session_id_coroutine[th[d].session]
      BY <1>0, <3>3 DEF Suspended
    <3>5. session_id_coroutine[th[d].session] = d
      BY <1>5, <3>1 DEF Sessions, AnswersFindCallers
    <3> QED
      BY <3>1, <3>4, <3>5
  <2> QED
    BY <2>1, <2>2
<1>6. ASSUME NEW s \in Session
      PROVE  /\ session_id_coroutine'[s] \in Co => th'[session_id_coroutine'[s]].session = s
             /\ session_id_coroutine'[s] = Break => s \in timers'
             /\ s \in timers' => session_id_coroutine'[s] # None
  <2>1. CASE s = x
    BY <1>2, <1>4, <2>1
  <2>2. CASE s # x
    <3>1. session_id_coroutine'[s] = session_id_coroutine[s] /\ (s \in timers' <=> s \in timers)
      BY <1>0, <2>2 DEF Suspended
    <3>2. session_id_coroutine[s] # c
      BY <1>4 DEF Sessions, AnswersFindCallers, Session
    <3> QED
      BY <3>1, <3>2 DEF Suspended, Sessions, AnswersFindCallers
  <2> QED
    BY <2>1, <2>2
<1>7. AnswersFindCallers'
  BY <1>5, <1>6 DEF AnswersFindCallers
<1>8. ASSUME NEW s \in Session, s > last' PROVE session_id_coroutine'[s] = None
  <2>1. s # x /\ s > last
    BY <1>0, <1>1, <1>8 DEF Suspended, Session
  <2> QED
    BY <1>0, <2>1 DEF Suspended, Sessions
<1>9. ASSUME NEW s \in Session, Called(s)' PROVE s <= last' /\ s \notin timers'
  <2>1. CASE s = x
    <3>1. st = "call"
      BY <1>0, <1>1, <1>9, <2>1
    <3> QED
      BY <1>0, <1>1, <2>1, <3>1 DEF Suspended
  <2>2. CASE s # x
    <3>1. Called(s)
      BY <1>0, <1>9, <2>2
    <3>2. s <= last /\ s \notin timers
      BY <3>1 DEF Sessions
    <3> QED
      BY <1>0, <1>1, <2>2, <3>2 DEF Suspended, Session
  <2> QED
    BY <2>1, <2>2
<1>10. ASSUME NEW d \in Co, NEW s \in Session, th'[d].st \in Waiting, th'[d].session = s
      PROVE  /\ s \in timers' <=> th'[d].st = "sleep"
             /\ th'[d].st \in Asleep => ~Called(s)'
  <2>1. CASE d = c
    BY <1>0, <1>1, <1>4, <1>10, <2>1
  <2>2. CASE d # c
    <3>1. th'[d] = th[d] /\ th[d].st \in Waiting /\ th[d].session = s /\ s # x
      BY <1>3, <1>10, <2>2 DEF Suspended
    <3> QED
      BY <1>0, <3>1 DEF Sessions
  <2> QED
    BY <2>1, <2>2
<1> QED
  BY <1>7, <1>8, <1>9, <1>10 DEF Sessions

LEMMA SessionsStep ==
  ASSUME TypeOK, Stage, Sessions, Next
  PROVE  Sessions'
<1> USE DEF tables, queues, env, due
<1>0. Session' = Session /\ (None \notin Co /\ Break \notin Co /\ None # Break)
  BY LimitsKept, NoneAssumption
\* Steps that leave the tables alone
<1>1. ASSUME \A d \in Co : th'[d].session = th[d].session /\ (th'[d].st \in Waiting => th'[d].st = th[d].st),
             UNCHANGED <<session_id_coroutine, watching_session, error_queue, calls, timers, last>>
      PROVE  Sessions'
  <2>1. \A s \in Session : Called(s)' => Called(s)
    BY <1>1 DEF Called
  <2> QED
    BY <1>0, <1>1, <2>1, SessionsKept
<1>2. ASSUME NEW p \in Peer, SourceDown(p) PROVE Sessions'
  <2> DEFINE W == {s \in Session : watching_session[s] = p}
  <2>1. PICK q \in SetToSeqs(W) : error_queue' = error_queue \o q
    BY <1>2 DEF SourceDown
  <2>2. q \in Seq(W) /\ \A x : Member(q, x) => x \in W
    BY LimitsKept, WatchersQueue DEF Session
  <2>3. q \in Seq(Session)
    BY <2>2, SeqMonotonic
  <2>4. \A x : Member(error_queue', x) => Member(error_queue, x) \/ x \in W
    BY <2>1, <2>2, <2>3, ConcatQueue DEF TypeOK
  <2>5. p # None
    BY NoneAssumption
  <2>6. \A s \in Session : Called(s)' => Called(s)
    BY <1>2, <2>4, <2>5 DEF Called, SourceDown
  <2>7. \A d \in Co : th'[d].session = th[d].session /\ (th'[d].st \in Waiting => th'[d].st = th[d].st)
    BY <1>2 DEF SourceDown
  <2> QED
    BY <1>0, <1>2, <2>6, <2>7, SessionsKept DEF SourceDown
<1>3. ASSUME NEW p \in Peer, NEW c \in Co, Receive(p, c) PROVE Sessions'
  <2>1. Becomes(c, "run", 0, Len(source) + 1, 0) /\ th[c].session = 0
    BY <1>3, BecomesFree, FreeFacts DEF Receive
  <2> QED
    BY <1>1, <1>3, <2>1 DEF Receive, Becomes, Waiting
<1>4. ASSUME NEW s \in Session, Response(s) PROVE Sessions'
  <2>1. CASE session_id_coroutine[s] \in Co
    <3>1. PICK c \in Co : c = session_id_coroutine[s] /\ Resumed(c, None) /\ th[c].session = s
      BY <1>4, <2>1, Resumptions
    <3>2. \A z \in Session : Called(z)' => Called(z)
      BY <1>4, <3>1 DEF Response, Resumed, Called
    <3>3. timers' = timers \ {s} /\ last' = last
      BY <1>4 DEF Response
    <3> QED
      BY <1>0, <3>1, <3>2, <3>3, SessionsResumed
  <2>2. CASE session_id_coroutine[s] \notin Co
    <3>1. /\ UNCHANGED <<th, watching_session, error_queue, last>>
          /\ session_id_coroutine' = [session_id_coroutine EXCEPT ![s] = None]
          /\ calls' = calls \ {s} /\ timers' = timers \ {s}
      BY <1>4, <2>2 DEF Response
    <3>2. \A z \in Session : Called(z)' => Called(z)
      BY <3>1 DEF Called
    <3>3. ASSUME NEW d \in Co, th[d].st \in Waiting
          PROVE  th[d].session # s /\ th[d].session \in Session
      <4>1. session_id_coroutine[th[d].session] = d
        BY <3>3 DEF Sessions, AnswersFindCallers
      <4>2. th[d].session # 0 /\ th[d].session \in 0..lim.session /\ lim.session \in Nat
        BY <3>3, LimitsAssumption DEF TypeOK, ThreadType, Stage
      <4> QED
        BY <2>2, <4>1, <4>2 DEF Session
    <3>4. AnswersFindCallers'
      <4>1. ASSUME NEW d \in Co, th'[d].st \in Waiting PROVE session_id_coroutine'[th'[d].session] = d
        BY <3>1, <3>3, <4>1 DEF Sessions, AnswersFindCallers, TypeOK
      <4>2. ASSUME NEW z \in Session
            PROVE  /\ session_id_coroutine'[z] \in Co => th'[session_id_coroutine'[z]].session = z
                   /\ session_id_coroutine'[z] = Break => z \in timers'
                   /\ z \in timers' => session_id_coroutine'[z] # None
        BY <1>0, <3>1 DEF Sessions, AnswersFindCallers, TypeOK
      <4> QED
        BY <1>0, <4>1, <4>2 DEF AnswersFindCallers
    <3>5. ASSUME NEW z \in Session, z > last' PROVE session_id_coroutine'[z] = None
      BY <3>1, <3>5 DEF Sessions, TypeOK
    <3>6. ASSUME NEW d \in Co, NEW z \in Session, th'[d].st \in Waiting, th'[d].session = z
          PROVE  /\ z \in timers' <=> th'[d].st = "sleep"
                 /\ th'[d].st \in Asleep => ~Called(z)'
      BY <3>1, <3>2, <3>3, <3>6 DEF Sessions
    <3>7. ASSUME NEW z \in Session, Called(z)' PROVE z <= last' /\ z \notin timers'
      BY <3>1, <3>2, <3>7 DEF Sessions
    <3> QED
      BY <1>0, <3>4, <3>5, <3>6, <3>7 DEF Sessions
  <2> QED
    BY <2>1, <2>2
<1>5. ASSUME NEW s \in Session, ErrorDispatch(s) PROVE Sessions'
  <2>1. ASSUME watching_session[s] # None
        PROVE  \A x : Member(error_queue', x) => Member(error_queue, x) \/ x = s
    BY <1>5, <2>1, AppendQueue DEF ErrorDispatch, TypeOK
  <2>2. \A z \in Session : Called(z)' => Called(z)
    BY <1>5, <2>1 DEF ErrorDispatch, Called
  <2>3. \A d \in Co : th'[d].session = th[d].session /\ (th'[d].st \in Waiting => th'[d].st = th[d].st)
    BY <1>5 DEF ErrorDispatch
  <2> QED
    BY <1>0, <1>5, <2>2, <2>3, SessionsKept DEF ErrorDispatch
<1>6. CASE DispatchWakeup
  <2>1. CASE sleep_session[Head(wakeup_queue)] # 0
    <3>1. PICK c \in Co : c = Head(wakeup_queue) /\ Resumed(c, Break) /\ th[c].st \in Asleep
      BY <1>6, <2>1, Resumptions
    <3>2. \A z \in Session : Called(z)' => Called(z)
      BY <1>6, <3>1 DEF DispatchWakeup, Resumed, Called
    <3>3. timers' = timers /\ last' = last
      BY <1>6 DEF DispatchWakeup
    <3> QED
      BY <1>0, <3>1, <3>2, <3>3, SessionsResumed
  <2>2. CASE sleep_session[Head(wakeup_queue)] = 0
    BY <1>1, <1>6, <2>2 DEF DispatchWakeup
  <2> QED
    BY <2>1, <2>2
<1>7. CASE DispatchErrorQueue
  <2>1. PICK s \in Session, c \in Co : /\ s = Head(error_queue) /\ Resumed(c, None)
                                        /\ th[c].session = s /\ c = session_id_coroutine[s]
    BY <1>7, Resumptions
  <2>2. \A x : Member(error_queue, x) <=> x = s \/ Member(error_queue', x)
    BY <1>7, <2>1, TailQueue DEF DispatchErrorQueue, TypeOK
  <2>3. s \notin timers
    BY <2>2 DEF Called, Sessions
  <2>4. \A z \in Session : Called(z)' => Called(z)
    BY <1>7, <2>1, <2>2 DEF DispatchErrorQueue, Resumed, Called
  <2>5. timers' = timers /\ last' = last
    BY <1>7 DEF DispatchErrorQueue
  <2> QED
    BY <1>0, <2>1, <2>3, <2>4, <2>5, SessionsResumed
<1>8. CASE DispatchErrorStale
  <2>1. \A x : Member(error_queue', x) => Member(error_queue, x)
    BY <1>8, TailQueue DEF DispatchErrorStale, TypeOK
  <2>2. \A z \in Session : Called(z)' => Called(z)
    BY <1>8, <2>1 DEF DispatchErrorStale, Called
  <2>3. \A d \in Co : th'[d].session = th[d].session /\ (th'[d].st \in Waiting => th'[d].st = th[d].st)
    BY <1>8 DEF DispatchErrorStale
  <2> QED
    BY <1>0, <1>8, <2>2, <2>3, SessionsKept DEF DispatchErrorStale
<1>9. CASE NoWakeup \/ NoError \/ Done \/ \E c, d \in Co : Wakeup(c, d)
  BY <1>1, <1>9 DEF NoWakeup, NoError, Done, Wakeup
<1>10. CASE DispatchFork
  <2>1. PICK c \in Co \cup {None} : c = Head(fork_queue)
    BY <1>10, TailQueue DEF DispatchFork, TypeOK
  <2>2. CASE c = None
    BY <1>1, <1>10, <2>1, <2>2 DEF DispatchFork
  <2>3. CASE c # None
    <3>1. c \in Co /\ th' = [th EXCEPT ![c].st = "run"]
      BY <1>10, <2>1, <2>3 DEF DispatchFork
    <3>2. Becomes(c, "run", th[c].session, th[c].req, th[c].in)
      BY <3>1, BecomesElse
    <3> QED
      BY <1>1, <1>10, <3>1, <3>2 DEF DispatchFork, Becomes, Waiting
  <2> QED
    BY <2>2, <2>3
<1>11. ASSUME NEW c \in Co, NEW p \in Peer, Call(c, p) PROVE Sessions'
  <2>1. Suspended(c, "call") /\ pc = Running(c)
    BY <1>11, SuspendFacts DEF Call, Runs, Waiting
  <2>2. \A s \in Session : s # last + 1 => (Called(s)' <=> Called(s))
    BY <1>11 DEF Call, Called, TypeOK
  <2>3. timers' = timers
    BY <1>11 DEF Call
  <2> QED
    BY <1>0, <2>1, <2>2, <2>3, SessionsSuspended DEF Waiting
<1>12. ASSUME NEW c \in Co, Sleep(c) PROVE Sessions'
  <2>1. Suspended(c, "sleep") /\ pc = Running(c)
    BY <1>12, SuspendFacts DEF Sleep, Runs, Waiting
  <2>2. \A s \in Session : Called(s)' <=> Called(s)
    BY <1>12 DEF Sleep, Called
  <2>3. timers' = timers \cup {last + 1}
    BY <1>12 DEF Sleep
  <2> QED
    BY <1>0, <2>1, <2>2, <2>3, SessionsSuspended DEF Waiting
<1>13. ASSUME NEW c \in Co, Wait(c) PROVE Sessions'
  <2>1. Suspended(c, "wait") /\ pc = Running(c)
    BY <1>13, SuspendFacts DEF Wait, Runs, Waiting
  <2>2. \A s \in Session : Called(s)' <=> Called(s)
    BY <1>13 DEF Wait, Called
  <2>3. timers' = timers
    BY <1>13 DEF Wait
  <2> QED
    BY <1>0, <2>1, <2>2, <2>3, SessionsSuspended DEF Waiting
<1>14. ASSUME NEW c \in Co, EnterLater(c) PROVE Sessions'
  <2>1. Suspended(c, "queue") /\ pc = Running(c)
    BY <1>14, SuspendFacts DEF EnterLater, Runs, Waiting
  <2>2. \A s \in Session : Called(s)' <=> Called(s)
    BY <1>14 DEF EnterLater, Called
  <2>3. timers' = timers
    BY <1>14 DEF EnterLater
  <2> QED
    BY <1>0, <2>1, <2>2, <2>3, SessionsSuspended DEF Waiting
<1>15. ASSUME NEW c \in Co, NEW d \in Co, Fork(c, d) PROVE Sessions'
  <2>1. Becomes(d, "forked", 0, 0, 0) /\ th[d].session = 0
    BY <1>15, BecomesFree, FreeFacts DEF Fork
  <2> QED
    BY <1>1, <1>15, <2>1 DEF Fork, Becomes, Waiting
<1>16. ASSUME NEW c \in Co, Ret(c) \/ TakeResponse(c) PROVE Sessions'
  <2>1. Becomes(c, th[c].st, th[c].session, 0, th[c].in)
    BY <1>16, BecomesElse
  <2> QED
    BY <1>1, <1>16, <2>1 DEF Ret, TakeResponse, Becomes
<1>17. ASSUME NEW c \in Co, NEW r \in Request, Respond(c, r) PROVE Sessions'
  BY <1>1, <1>17 DEF Respond
<1>18. ASSUME NEW c \in Co, End(c) \/ Die(c) PROVE Sessions'
  <2>1. Becomes(c, "free", 0, 0, 0) /\ th[c].session = 0
    BY <1>18, BecomesFree, RunsAlone DEF End, Die, Runs
  <2> QED
    BY <1>1, <1>18, <2>1 DEF End, Die, Becomes, Waiting
<1>19. ASSUME NEW c \in Co, Exit(c) PROVE Sessions'
  <2>1. Becomes(c, "quit", th[c].session, th[c].req, th[c].in)
    BY <1>19, BecomesElse
  <2> QED
    BY <1>1, <1>19, <2>1 DEF Exit, Becomes, Waiting
<1>20. ASSUME NEW c \in Co, Hold(c) PROVE Sessions'
  <2>1. Becomes(c, "run", th[c].session, th[c].req, th[c].in + 1)
    BY <1>20, BecomesElse
  <2> QED
    BY <1>1, <1>20, <2>1 DEF Hold, Becomes, Waiting
<1>21. ASSUME NEW c \in Co, Leave(c) PROVE Sessions'
  <2>1. Becomes(c, th[c].st, th[c].session, th[c].req, th[c].in - 1)
    BY <1>21, BecomesElse
  <2> QED
    BY <1>1, <1>21, <2>1 DEF Leave, Becomes
<1> QED
  BY <1>2, <1>3, <1>4, <1>5, <1>6, <1>7, <1>8, <1>9, <1>10, <1>11, <1>12, <1>13, <1>14, <1>15,
     <1>16, <1>17, <1>18, <1>19, <1>20, <1>21
     DEF Next, Message, Scheduler, Step, Enter, EnterNow

-----------------------------------------------------------------------------
(* The invariant is preserved: error_queue *)

LEMMA WatchedResumed ==
  ASSUME TypeOK, Sessions, Watched, Session' = Session, NEW c \in Co, NEW left, Resumed(c, left),
         ~exited => Distinct(error_queue', Session),
         \A s \in Session : Member(error_queue', s) => Member(error_queue, s) /\ s # th[c].session,
         exited' = exited
  PROVE  Watched'
<1>1. ASSUME ~exited, NEW s \in Session, watching_session'[s] # None \/ Member(error_queue', s)
      PROVE  session_id_coroutine'[s] \in Co
  <2>1. s # th[c].session
    BY <1>1 DEF Resumed
  <2> QED
    BY <1>1, <2>1 DEF Resumed, Watched
<1> QED
  BY <1>1 DEF Watched

LEMMA WatchedSuspended ==
  ASSUME TypeOK, Watched, Session' = Session, NEW c \in Co, NEW st, Suspended(c, st),
         \A s \in Session : s # last + 1 => watching_session'[s] = watching_session[s],
         error_queue' = error_queue, exited' = exited
  PROVE  Watched'
BY DEF Suspended, Watched

LEMMA WatchedStep ==
  ASSUME TypeOK, Stage, Sessions, Watched, Drained, Next
  PROVE  Watched'
<1> USE DEF tables, queues, env, due
<1>0. Session' = Session /\ (None \notin Co /\ Break \notin Co)
  BY LimitsKept, NoneAssumption
<1>1. ASSUME UNCHANGED <<session_id_coroutine, watching_session, error_queue, exited>> PROVE Watched'
  BY <1>0, <1>1 DEF Watched
<1>2. ASSUME Dispatch, ~exited PROVE error_queue = <<>> /\ \A x : ~Member(error_queue, x)
  BY <1>2, EmptyQueue, ProgramCounter DEF Dispatch, Drained
<1>3. ASSUME NEW p \in Peer, SourceDown(p), ~exited PROVE Watched'
  <2> DEFINE W == {s \in Session : watching_session[s] = p}
  <2>1. PICK q \in SetToSeqs(W) : error_queue' = error_queue \o q
    BY <1>3 DEF SourceDown
  <2>2. q \in Seq(W) /\ Distinct(q, Session) /\ \A x : Member(q, x) => x \in W
    BY LimitsKept, WatchersQueue DEF Session
  <2>3. error_queue' = q
    BY <1>2, <1>3, <2>1, <2>2, ConcatEmptySeq DEF SourceDown
  <2>4. p # None
    BY NoneAssumption
  <2> QED
    BY <1>0, <1>3, <2>2, <2>3, <2>4 DEF SourceDown, Watched
<1>4. ASSUME NEW p \in Peer, NEW c \in Co, Receive(p, c) PROVE Watched'
  BY <1>1, <1>4 DEF Receive
<1>5. ASSUME NEW s \in Session, Response(s), ~exited PROVE Watched'
  <2>1. \A x : ~Member(error_queue, x)
    BY <1>2, <1>5 DEF Response
  <2>2. error_queue' = error_queue /\ exited' = exited
    BY <1>5 DEF Response
  <2>3. CASE session_id_coroutine[s] \in Co
    <3>1. PICK c \in Co : Resumed(c, None)
      BY <1>5, <2>3, Resumptions
    <3>2. \A z \in Session : Member(error_queue', z) => Member(error_queue, z) /\ z # th[c].session
      BY <2>1, <2>2
    <3>3. Distinct(error_queue', Session)
      BY <1>5, <2>2 DEF Watched
    <3> QED
      BY <1>0, <2>2, <3>1, <3>2, <3>3, WatchedResumed
  <2>4. CASE session_id_coroutine[s] \notin Co
    <3>1. /\ watching_session' = watching_session
          /\ session_id_coroutine' = [session_id_coroutine EXCEPT ![s] = None]
      BY <1>5, <2>4 DEF Response
    <3>2. watching_session[s] = None
      BY <1>5, <2>4 DEF Watched
    <3> QED
      BY <1>0, <2>1, <2>2, <3>1, <3>2 DEF Watched, TypeOK
  <2> QED
    BY <2>3, <2>4
<1>6. ASSUME NEW s \in Session, ErrorDispatch(s), ~exited PROVE Watched'
  <2>1. CASE watching_session[s] # None
    <3>1. /\ \A x : Member(error_queue', x) <=> x = s \/ Member(error_queue, x)
          /\ Distinct(error_queue', Session)
      <4>1. error_queue \in Seq(Session) /\ error_queue' = Append(error_queue, s)
        BY <1>6, <2>1 DEF ErrorDispatch, TypeOK
      <4>2. Distinct(error_queue, Session) /\ ~Member(error_queue, s)
        BY <1>2, <1>6 DEF ErrorDispatch, Watched
      <4> QED
        BY <4>1, <4>2, AppendQueue
    <3> QED
      BY <1>0, <1>6, <2>1, <3>1 DEF ErrorDispatch, Watched
  <2>2. CASE watching_session[s] = None
    BY <1>1, <1>6, <2>2 DEF ErrorDispatch
  <2> QED
    BY <2>1, <2>2
<1>7. ASSUME DispatchWakeup, ~exited PROVE Watched'
  <2>1. CASE sleep_session[Head(wakeup_queue)] # 0
    <3>1. PICK c \in Co : c = Head(wakeup_queue) /\ Resumed(c, Break) /\ th[c].st \in Asleep
      BY <1>7, <2>1, Resumptions
    <3>2. error_queue' = error_queue /\ exited' = exited
      BY <1>7 DEF DispatchWakeup
    <3>3. \A z \in Session : Member(error_queue', z) => Member(error_queue, z) /\ z # th[c].session
      BY <3>1, <3>2 DEF Sessions, Resumed, Called
    <3>4. Distinct(error_queue', Session)
      BY <1>7, <3>2 DEF Watched
    <3> QED
      BY <1>0, <3>1, <3>2, <3>3, <3>4, WatchedResumed
  <2>2. CASE sleep_session[Head(wakeup_queue)] = 0
    BY <1>1, <1>7, <2>2 DEF DispatchWakeup
  <2> QED
    BY <2>1, <2>2
<1>8. ASSUME DispatchErrorQueue, ~exited PROVE Watched'
  <2>1. PICK s \in Session, c \in Co : s = Head(error_queue) /\ Resumed(c, None) /\ th[c].session = s
    BY <1>8, Resumptions
  <2>2. /\ \A x : Member(error_queue, x) <=> x = s \/ Member(error_queue', x)
        /\ Distinct(error_queue', Session) /\ ~Member(error_queue', s)
    <3>1. error_queue \in Seq(Session) /\ error_queue # <<>> /\ error_queue' = Tail(error_queue)
      BY <1>8 DEF DispatchErrorQueue, TypeOK
    <3>2. Distinct(error_queue, Session)
      BY <1>8 DEF Watched
    <3> QED
      BY <2>1, <3>1, <3>2, TailQueue
  <2>3. \A z \in Session : Member(error_queue', z) => Member(error_queue, z) /\ z # th[c].session
    BY <2>1, <2>2
  <2>4. exited' = exited
    BY <1>8 DEF DispatchErrorQueue
  <2> QED
    BY <1>0, <2>1, <2>2, <2>3, <2>4, WatchedResumed
<1>9. ASSUME DispatchErrorStale, ~exited PROVE Watched'
  <2>1. Head(error_queue) \in Session /\ Member(error_queue, Head(error_queue))
    BY <1>9, TailQueue DEF DispatchErrorStale, TypeOK
  <2> QED
    BY <1>9, <2>1 DEF DispatchErrorStale, Watched
<1>10. ASSUME NEW c \in Co, NEW p \in Peer, Call(c, p) PROVE Watched'
  <2>1. Suspended(c, "call")
    BY <1>10, SuspendFacts DEF Call, Waiting
  <2>2. \A s \in Session : s # last + 1 => watching_session'[s] = watching_session[s]
    BY <1>10 DEF Call, TypeOK
  <2> QED
    BY <1>0, <1>10, <2>1, <2>2, WatchedSuspended DEF Call
<1>11. ASSUME NEW c \in Co, Sleep(c) PROVE Watched'
  <2>1. Suspended(c, "sleep")
    BY <1>11, SuspendFacts DEF Sleep, Waiting
  <2> QED
    BY <1>0, <1>11, <2>1, WatchedSuspended DEF Sleep
<1>12. ASSUME NEW c \in Co, Wait(c) PROVE Watched'
  <2>1. Suspended(c, "wait")
    BY <1>12, SuspendFacts DEF Wait, Waiting
  <2> QED
    BY <1>0, <1>12, <2>1, WatchedSuspended DEF Wait
<1>13. ASSUME NEW c \in Co, EnterLater(c) PROVE Watched'
  <2>1. Suspended(c, "queue")
    BY <1>13, SuspendFacts DEF EnterLater, Waiting
  <2> QED
    BY <1>0, <1>13, <2>1, WatchedSuspended DEF EnterLater
<1>14. ASSUME NEW c \in Co, Exit(c) PROVE Watched'
  BY <1>14 DEF Exit, Watched
<1>15. CASE NoWakeup \/ NoError \/ DispatchFork \/ Done
  BY <1>1, <1>15 DEF NoWakeup, NoError, DispatchFork, Done
<1>16. ASSUME NEW c \in Co, NEW d \in Co, Wakeup(c, d) \/ Fork(c, d) PROVE Watched'
  BY <1>1, <1>16 DEF Wakeup, Fork
<1>17. ASSUME NEW c \in Co, NEW r \in Request, Respond(c, r) PROVE Watched'
  BY <1>1, <1>17 DEF Respond
<1>18. ASSUME NEW c \in Co, Ret(c) \/ TakeResponse(c) \/ End(c) \/ Die(c) \/ Hold(c) \/ Leave(c) PROVE Watched'
  BY <1>1, <1>18 DEF Ret, TakeResponse, End, Die, Hold, Leave
<1>19. ASSUME exited PROVE Watched'
  BY <1>19, ExitStays DEF Watched
<1> QED
  BY <1>3, <1>4, <1>5, <1>6, <1>7, <1>8, <1>9, <1>10, <1>11, <1>12, <1>13, <1>14, <1>15, <1>16, <1>17, <1>18,
     <1>19 DEF Next, Message, Scheduler, Step, Enter, EnterNow

-----------------------------------------------------------------------------
(* The invariant is preserved: wakeup_queue *)

LEMMA TokensStep ==
  ASSUME TypeOK, Stage, Sessions, Tokens, Drained, Handed, Next
  PROVE  Tokens'
<1> USE DEF tables, queues, env, due
<1>1. ASSUME \A d \in Co : th[d].st \in Asleep => th'[d].st \in Asleep, UNCHANGED <<wakeup_queue, exited>>
      PROVE  Tokens'
  BY <1>1 DEF Tokens
<1>2. ASSUME Dispatch, ~exited PROVE \A x : ~Member(wakeup_queue, x)
  BY <1>2, EmptyQueue, ProgramCounter DEF Dispatch, Drained
<1>3. ASSUME NEW p \in Peer, SourceDown(p) PROVE Tokens'
  BY <1>1, <1>3 DEF SourceDown
<1>4. ASSUME NEW p \in Peer, NEW c \in Co, Receive(p, c) PROVE Tokens'
  <2>1. Becomes(c, "run", 0, Len(source) + 1, 0) /\ th[c].st = "free"
    BY <1>4, BecomesFree, FreeFacts DEF Receive
  <2> QED
    BY <1>1, <1>4, <2>1 DEF Receive, Becomes, Asleep
<1>5. ASSUME NEW s \in Session, Response(s), ~exited PROVE Tokens'
  <2>1. \A x : ~Member(wakeup_queue, x)
    BY <1>2, <1>5 DEF Response
  <2>2. wakeup_queue' = wakeup_queue /\ exited' = exited
    BY <1>5 DEF Response
  <2> QED
    BY <2>1, <2>2 DEF Tokens
<1>6. ASSUME NEW s \in Session, ErrorDispatch(s) PROVE Tokens'
  BY <1>1, <1>6 DEF ErrorDispatch
<1>7. ASSUME DispatchWakeup, ~exited PROVE Tokens'
  <2>1. PICK c \in Co : c = Head(wakeup_queue)
    BY <1>7, TailQueue DEF DispatchWakeup, TypeOK
  <2>2. /\ \A x : Member(wakeup_queue, x) <=> x = c \/ Member(wakeup_queue', x)
        /\ Distinct(wakeup_queue', Co) /\ ~Member(wakeup_queue', c)
    <3>1. wakeup_queue \in Seq(Co) /\ wakeup_queue # <<>> /\ wakeup_queue' = Tail(wakeup_queue)
      BY <1>7 DEF DispatchWakeup, TypeOK
    <3>2. Distinct(wakeup_queue, Co)
      BY <1>7 DEF Tokens
    <3> QED
      BY <2>1, <3>1, <3>2, TailQueue
  <2>3. \A d \in Co : d # c => th'[d] = th[d]
    BY <1>7, <2>1, Resumptions DEF DispatchWakeup, Resumed
  <2> QED
    BY <1>7, <2>2, <2>3 DEF DispatchWakeup, Tokens
<1>8. CASE DispatchErrorQueue
  <2>1. PICK s \in Session, c \in Co : s = Head(error_queue) /\ Resumed(c, None) /\ th[c].session = s
    BY <1>8, Resumptions
  <2>2. Member(error_queue, s)
    BY <1>8, <2>1, TailQueue DEF DispatchErrorQueue, TypeOK
  <2>3. th[c].st \notin Asleep
    BY <2>1, <2>2 DEF Sessions, Called, Resumed
  <2> QED
    BY <1>1, <1>8, <2>1, <2>3 DEF DispatchErrorQueue, Resumed
<1>9. CASE DispatchErrorStale \/ NoWakeup \/ NoError \/ Done
  BY <1>1, <1>9 DEF DispatchErrorStale, NoWakeup, NoError, Done
<1>10. CASE DispatchFork
  <2>1. PICK c \in Co \cup {None} : c = Head(fork_queue)
    BY <1>10, TailQueue DEF DispatchFork, TypeOK
  <2>2. CASE c = None
    BY <1>1, <1>10, <2>1, <2>2 DEF DispatchFork
  <2>3. CASE c # None
    <3>1. c \in Co /\ th' = [th EXCEPT ![c].st = "run"]
      BY <1>10, <2>1, <2>3 DEF DispatchFork
    <3>2. Becomes(c, "run", th[c].session, th[c].req, th[c].in)
      BY <3>1, BecomesElse
    <3>3. Member(fork_queue, c)
      BY <1>10, <2>1, TailQueue DEF DispatchFork, TypeOK
    <3>4. th[c].st = "forked"
      BY <3>1, <3>3 DEF Stage
    <3> QED
      BY <1>1, <1>10, <3>1, <3>2, <3>4 DEF DispatchFork, Becomes, Asleep
  <2> QED
    BY <2>2, <2>3
<1>11. ASSUME NEW c \in Co, pc = Running(c) PROVE th[c].st \notin Asleep
  BY <1>11, RunsAlone DEF Asleep
<1>12. ASSUME NEW c \in Co, NEW p \in Peer, Call(c, p) PROVE Tokens'
  <2>1. Suspended(c, "call")
    BY <1>12, SuspendFacts DEF Call, Waiting
  <2> QED
    BY <1>1, <1>11, <1>12, <2>1 DEF Call, Runs, Suspended
<1>13. ASSUME NEW c \in Co, Sleep(c) PROVE Tokens'
  <2>1. Suspended(c, "sleep")
    BY <1>13, SuspendFacts DEF Sleep, Waiting
  <2> QED
    BY <1>1, <1>11, <1>13, <2>1 DEF Sleep, Runs, Suspended
<1>14. ASSUME NEW c \in Co, Wait(c) PROVE Tokens'
  <2>1. Suspended(c, "wait")
    BY <1>14, SuspendFacts DEF Wait, Waiting
  <2> QED
    BY <1>1, <1>11, <1>14, <2>1 DEF Wait, Runs, Suspended
<1>15. ASSUME NEW c \in Co, EnterLater(c) PROVE Tokens'
  <2>1. Suspended(c, "queue")
    BY <1>15, SuspendFacts DEF EnterLater, Waiting
  <2> QED
    BY <1>1, <1>11, <1>15, <2>1 DEF EnterLater, Runs, Suspended
<1>16. ASSUME NEW c \in Co, NEW d \in Co, Wakeup(c, d), ~exited PROVE Tokens'
  <2>1. ~Member(wakeup_queue, d) /\ th[d].st \in Asleep
    BY <1>16 DEF Wakeup, ToSet, Member, Asleep
  <2>2. wakeup_queue \in Seq(Co) /\ wakeup_queue' = Append(wakeup_queue, d) /\ th' = th /\ exited' = exited
    BY <1>16 DEF Wakeup, TypeOK
  <2>3. /\ \A x : Member(wakeup_queue', x) <=> x = d \/ Member(wakeup_queue, x)
        /\ Distinct(wakeup_queue', Co)
    BY <1>16, <2>1, <2>2, AppendQueue DEF Tokens
  <2> QED
    BY <1>16, <2>1, <2>2, <2>3 DEF Tokens
<1>17. ASSUME NEW c \in Co, NEW d \in Co, Fork(c, d) PROVE Tokens'
  <2>1. Becomes(d, "forked", 0, 0, 0) /\ th[d].st = "free"
    BY <1>17, BecomesFree, FreeFacts DEF Fork
  <2> QED
    BY <1>1, <1>17, <2>1 DEF Fork, Becomes, Asleep
<1>18. ASSUME NEW c \in Co, Ret(c) \/ TakeResponse(c) PROVE Tokens'
  <2>1. Becomes(c, th[c].st, th[c].session, 0, th[c].in)
    BY <1>18, BecomesElse
  <2> QED
    BY <1>1, <1>18, <2>1 DEF Ret, TakeResponse, Becomes
<1>19. ASSUME NEW c \in Co, NEW r \in Request, Respond(c, r) PROVE Tokens'
  BY <1>1, <1>19 DEF Respond
<1>20. ASSUME NEW c \in Co, End(c) \/ Die(c) PROVE Tokens'
  <2>1. Becomes(c, "free", 0, 0, 0)
    BY <1>20, BecomesFree
  <2> QED
    BY <1>1, <1>11, <1>20, <2>1 DEF End, Die, Runs, Becomes
<1>21. ASSUME NEW c \in Co, Exit(c) PROVE Tokens'
  BY <1>21 DEF Exit, Tokens
<1>22. ASSUME NEW c \in Co, Hold(c), pc = Running(c) PROVE Tokens'
  <2>1. Becomes(c, "run", th[c].session, th[c].req, th[c].in + 1)
    BY <1>22, BecomesElse
  <2> QED
    BY <1>1, <1>11, <1>22, <2>1 DEF Hold, Becomes
<1>23. ASSUME NEW c \in Co, Leave(c), ~exited PROVE Tokens'
  <2>1. \A d \in Co : th'[d].st = th[d].st
    BY <1>23, BecomesElse DEF Becomes
  <2>2. CASE wakeup_queue' = wakeup_queue
    BY <1>1, <1>23, <2>1, <2>2 DEF Leave
  <2>3. CASE wakeup_queue' # wakeup_queue
    <3>1. cs.thread_queue # <<>> /\ wakeup_queue' = Append(wakeup_queue, Head(cs.thread_queue)) /\ exited' = exited
      BY <1>23, <2>3 DEF Leave
    <3>2. cs.thread_queue \in Seq(Co) /\ wakeup_queue \in Seq(Co)
      BY DEF TypeOK, QueueType
    <3>3. PICK d \in Co : d = Head(cs.thread_queue) /\ Member(cs.thread_queue, d)
      BY <3>1, <3>2, TailQueue
    <3>4. th[d].st = "queue" /\ ~Member(wakeup_queue, d)
      BY <1>23, <3>3 DEF Handed, Chosen
    <3>5. /\ \A x : Member(wakeup_queue', x) <=> x = d \/ Member(wakeup_queue, x)
          /\ Distinct(wakeup_queue', Co)
      BY <1>23, <3>1, <3>2, <3>3, <3>4, AppendQueue DEF Tokens
    <3> QED
      BY <1>23, <2>1, <3>1, <3>4, <3>5 DEF Tokens, Asleep
  <2> QED
    BY <2>2, <2>3
<1>24. ASSUME exited PROVE Tokens'
  BY <1>24, ExitStays DEF Tokens
<1> QED
  BY <1>3, <1>4, <1>5, <1>6, <1>7, <1>8, <1>9, <1>10, <1>12, <1>13, <1>14, <1>15,
     <1>16, <1>17, <1>18, <1>19, <1>20, <1>21, <1>22, <1>23, <1>24
     DEF Next, Message, Scheduler, Step, Enter, EnterNow, Runs

-----------------------------------------------------------------------------
(* The invariant is preserved: who comes back to the queues *)

LEMMA DrainedStep ==
  ASSUME TypeOK, Stage, Sessions, Watched, Tokens, Drained, Next
  PROVE  Drained'
<1> USE DEF tables, queues, env, due
<1>1. ASSUME pc'.at \in {"run", "wake"} PROVE Drained'
  BY <1>1 DEF Drained
<1>2. ASSUME Message PROVE Drained'
  <2>1. CASE pc' = At("wake") \/ \E c \in Co : pc' = Running(c)
    BY <1>1, <2>1, ProgramCounter
  <2>2. ASSUME NEW s \in Session, Response(s), session_id_coroutine[s] \notin Co PROVE Drained'
    <3>1. pc = At("idle") /\ pc' = At("forks") /\ UNCHANGED <<wakeup_queue, error_queue, fork_queue, exited>>
      BY <2>2 DEF Response, Dispatch
    <3> QED
      BY <3>1, ProgramCounter DEF Drained
  <2>3. ASSUME NEW s \in Session, Response(s), session_id_coroutine[s] \in Co PROVE Drained'
    BY <2>1, <2>3 DEF Response, Resume
  <2>4. ASSUME NEW p \in Peer, SourceDown(p) \/ \E c \in Co : Receive(p, c) PROVE Drained'
    BY <2>1, <2>4 DEF SourceDown, Receive
  <2>5. ASSUME NEW s \in Session, ErrorDispatch(s) PROVE Drained'
    BY <2>1, <2>5 DEF ErrorDispatch
  <2> QED
    BY <1>2, <2>2, <2>3, <2>4, <2>5 DEF Message
<1>3. ASSUME DispatchWakeup, ~exited PROVE Drained'
  <2>1. PICK c \in Co : c = Head(wakeup_queue) /\ Member(wakeup_queue, c)
    BY <1>3, TailQueue DEF DispatchWakeup, TypeOK
  <2>2. th[c].st \in Asleep
    BY <1>3, <2>1 DEF Tokens
  <2>3. sleep_session[c] # 0
    BY <2>2 DEF Stage, Asleep, Waiting
  <2> QED
    BY <1>1, <1>3, <2>1, <2>3, ProgramCounter DEF DispatchWakeup, Resume
<1>4. CASE NoWakeup
  BY <1>4, ProgramCounter DEF NoWakeup, Drained
<1>5. CASE DispatchErrorQueue
  BY <1>1, <1>5, ProgramCounter DEF DispatchErrorQueue, Resume
<1>6. ASSUME DispatchErrorStale, ~exited PROVE Drained'
  <2>1. Head(error_queue) \in Session /\ Member(error_queue, Head(error_queue))
    BY <1>6, TailQueue DEF DispatchErrorStale, TypeOK
  <2> QED
    BY <1>6, <2>1 DEF DispatchErrorStale, Watched
<1>7. CASE NoError
  <2>1. /\ pc = At("err") /\ (pc' = At("err") \/ pc' = At("forks")) /\ error_queue = <<>>
        /\ UNCHANGED <<wakeup_queue, error_queue, fork_queue, exited>>
    BY <1>7 DEF NoError, Return
  <2> QED
    BY <2>1, ProgramCounter DEF Drained
<1>8. CASE DispatchFork
  <2>1. pc' = At("wake") \/ \E c \in Co : pc' = Running(c)
    BY <1>8, TailQueue DEF DispatchFork, TypeOK
  <2> QED
    BY <1>1, <2>1, ProgramCounter
<1>9. CASE Done
  BY <1>9, EmptyQueue, ProgramCounter DEF Done, Drained
<1>10. ASSUME NEW c \in Co, Step(c), ~exited PROVE Drained'
  <2>1. CASE pc' = At("wake")
    BY <1>1, <2>1, ProgramCounter
  <2>2. CASE pc = Running(c) /\ pc' = pc
    BY <1>1, <2>2, ProgramCounter
  <2>3. CASE Die(c)
    <3>1. pc' = At("forks") /\ exited' = exited
      BY <2>3 DEF Die
    <3>2. Member(fork_queue', None)
      <4>1. fork_queue \in Seq(Co \cup {None}) /\ fork_queue' = Append(fork_queue, None)
        BY <2>3 DEF Die, TypeOK
      <4> QED
        BY <4>1, AppendQueue
    <3> QED
      BY <3>1, <3>2, ProgramCounter DEF Drained
  <2>4. CASE Exit(c)
    BY <2>4 DEF Exit, Drained
  <2> QED
    BY <1>10, <2>1, <2>2, <2>3, <2>4
       DEF Step, Call, Sleep, Wait, Wakeup, Fork, Ret, TakeResponse, Respond, End, Enter, EnterLater, EnterNow,
           Leave, Hold, Suspend, Runs
<1>11. ASSUME exited PROVE Drained'
  BY <1>11, ExitStays DEF Drained
<1> QED
  BY <1>2, <1>3, <1>4, <1>5, <1>6, <1>7, <1>8, <1>9, <1>10, <1>11 DEF Next, Scheduler

-----------------------------------------------------------------------------
(* The invariant is preserved: skynet.queue *)

LEMMA HandedKept ==
  ASSUME Handed, exited' = exited, cs' = cs,
         \A d \in Co : /\ th'[d].in = th[d].in
                       /\ th'[d].st = "queue" <=> th[d].st = "queue"
                       /\ th'[d].st = "enter" <=> th[d].st = "enter"
                       /\ th[d].st = "queue" => (Member(wakeup_queue', d) <=> Member(wakeup_queue, d))
  PROVE  Handed'
<1> SUFFICES ASSUME ~exited PROVE Handed'
  BY DEF Handed
<1>1. ASSUME NEW d \in Co PROVE Chosen(d)' <=> Chosen(d)
  BY DEF Chosen
<1> QED
  BY <1>1 DEF Handed


LEMMA HandedEnter ==
  ASSUME TypeOK, Stage, Handed, ~exited, NEW c \in Co, pc = Running(c), Hold(c),
         th[c].st = "run" => cs.current_thread \in {None, c}
  PROVE  Handed'
<1>1. th[c].st \in {"run", "enter"} /\ \A d \in Co : d # c => th[d].st \notin {"run", "enter"}
  BY RunsAlone
<1>2. Becomes(c, "run", th[c].session, th[c].req, th[c].in + 1)
  BY BecomesElse
<1>3. cs \in QueueType /\ th[c].in \in Nat
  BY DEF TypeOK, ThreadType
<1>4. cs'.current_thread = c /\ cs'.ref = cs.ref + 1 /\ cs'.thread_queue = cs.thread_queue
  BY <1>3 DEF Hold, QueueType
<1>5. cs.current_thread \in {None, c} /\ th[c].in = cs.ref /\ None # c
  <2>1. None # c
    BY NoneAssumption
  <2>2. CASE th[c].st = "enter"
    BY <2>1, <2>2 DEF Handed, Chosen
  <2>3. CASE th[c].st = "run"
    BY <2>1, <2>3 DEF Handed
  <2> QED
    BY <1>1, <2>1, <2>2, <2>3
<1>6. cs'.ref > 0 /\ cs'.ref = th'[c].in /\ \A d \in Co : d # c => th'[d] = th[d] /\ th[d].in = 0
  <2>1. \A d \in Co : d # c => th[d].in = 0
    BY <1>5 DEF Handed
  <2> QED
    BY <1>2, <1>3, <1>4, <1>5, <2>1 DEF Becomes
<1>7. \A d \in Co : ~Chosen(d)'
  BY <1>3, <1>4, <1>6 DEF Chosen, QueueType
<1>8. ~Member(cs.thread_queue, c)
  BY <1>1 DEF Handed
<1>9. \A d \in Co : d # c => ~Chosen(d)
  BY <1>5, NoneAssumption DEF Chosen
<1>10. wakeup_queue' = wakeup_queue /\ exited' = exited
  BY DEF Hold, queues
<1>11. ASSUME NEW d \in Co
       PROVE  /\ th'[d].in = IF d = cs'.current_thread THEN cs'.ref ELSE 0
              /\ Member(cs'.thread_queue, d) => th'[d].st = "queue" /\ cs'.current_thread # d
              /\ th'[d].st = "queue" => Member(cs'.thread_queue, d) /\ ~Member(wakeup_queue', d)
              /\ th'[d].st # "enter"
  <2>1. CASE d = c
    BY <1>2, <1>4, <1>6, <1>8, <2>1 DEF Becomes
  <2>2. CASE d # c
    BY <1>1, <1>4, <1>6, <1>9, <1>10, <2>2 DEF Handed
  <2> QED
    BY <2>1, <2>2
<1>12. Distinct(cs'.thread_queue, Co) /\ cs'.current_thread # None
  BY <1>4, <1>5 DEF Handed
<1> QED
  BY <1>7, <1>11, <1>12 DEF Handed

LEMMA HandedLater ==
  ASSUME TypeOK, Stage, Tokens, Handed, ~exited, NEW c \in Co, EnterLater(c)
  PROVE  Handed'
<1>1. Suspended(c, "queue")
  BY SuspendFacts DEF EnterLater, Waiting
<1>2. /\ cs' = [cs EXCEPT !.thread_queue = Append(cs.thread_queue, c)]
      /\ wakeup_queue' = wakeup_queue /\ exited' = exited /\ cs.current_thread \notin {None, c}
      /\ th[c].st = "run"
  BY DEF EnterLater, queues, Runs
<1>3. cs \in QueueType /\ cs.thread_queue \in Seq(Co)
  BY DEF TypeOK, QueueType
<1>4. /\ cs'.current_thread = cs.current_thread /\ cs'.ref = cs.ref
      /\ cs'.thread_queue = Append(cs.thread_queue, c)
  BY <1>2, <1>3 DEF QueueType
<1>5. ~Member(cs.thread_queue, c) /\ ~Member(wakeup_queue, c) /\ Distinct(cs.thread_queue, Co)
  BY <1>2 DEF Handed, Tokens, Asleep
<1>6. /\ \A x : Member(cs'.thread_queue, x) <=> x = c \/ Member(cs.thread_queue, x)
      /\ Distinct(cs'.thread_queue, Co)
  BY <1>3, <1>4, <1>5, AppendQueue
<1>7. \A d \in Co : Chosen(d)' <=> Chosen(d)
  BY <1>4 DEF Chosen
<1>8. ASSUME NEW d \in Co
      PROVE  /\ th'[d].in = IF d = cs'.current_thread THEN cs'.ref ELSE 0
             /\ Member(cs'.thread_queue, d) => th'[d].st = "queue" /\ cs'.current_thread # d
             /\ th'[d].st = "queue" => Member(cs'.thread_queue, d) \/ (Chosen(d) /\ Member(wakeup_queue', d))
             /\ th'[d].st = "queue" /\ Member(wakeup_queue', d) => Chosen(d)
             /\ th'[d].st = "enter" => Chosen(d)
             /\ Chosen(d) => th'[d].st = "enter" \/ (th'[d].st = "queue" /\ Member(wakeup_queue', d))
  <2>1. CASE d = c
    BY <1>1, <1>2, <1>4, <1>5, <1>6, <2>1 DEF Suspended, Handed, Chosen
  <2>2. CASE d # c
    <3>1. th'[d] = th[d]
      BY <1>1, <2>2 DEF Suspended
    <3> QED
      BY <1>2, <1>4, <1>6, <2>2, <3>1 DEF Handed
  <2> QED
    BY <2>1, <2>2
<1> QED
  BY <1>2, <1>4, <1>6, <1>7, <1>8 DEF Handed

LEMMA HandedLeave ==
  ASSUME TypeOK, Stage, Tokens, Handed, ~exited, NEW c \in Co, Leave(c)
  PROVE  Handed'
<1>1. Becomes(c, th[c].st, th[c].session, th[c].req, th[c].in - 1)
  BY BecomesElse
<1>2. th[c].st = "run" /\ th[c].in > 0 /\ th[c].in \in Nat /\ exited' = exited /\ None # c
  BY NoneAssumption DEF Leave, Runs, TypeOK, ThreadType
<1>3. cs.current_thread = c /\ cs.ref = th[c].in /\ \A d \in Co : d # c => th[d].in = 0
  BY <1>2 DEF Handed
<1>4. \A d \in Co : ~Chosen(d)
  BY <1>2, <1>3 DEF Chosen
<1>5. cs.thread_queue \in Seq(Co) /\ wakeup_queue \in Seq(Co) /\ Distinct(cs.thread_queue, Co)
  BY DEF TypeOK, QueueType, Handed
<1>6. \A d \in Co : th'[d].st = th[d].st /\ th'[d].in = IF d = c THEN cs.ref - 1 ELSE 0
  BY <1>1, <1>3 DEF Becomes
<1>7. CASE cs.ref > 1
  <2>0. cs.ref # 1
    BY <1>7
  <2>1. cs'.current_thread = c /\ cs'.ref = cs.ref - 1 /\ cs'.thread_queue = cs.thread_queue /\ wakeup_queue' = wakeup_queue
    BY <1>7, <2>0 DEF Leave
  <2>2. \A d \in Co : ~Chosen(d)'
    BY <1>2, <1>3, <1>7, <2>1 DEF Chosen
  <2> QED
    BY <1>2, <1>3, <1>4, <1>6, <2>1, <2>2 DEF Handed
<1>8. CASE cs.ref = 1 /\ cs.thread_queue = <<>>
  <2>1. cs'.current_thread = None /\ cs'.ref = 0 /\ cs'.thread_queue = <<>> /\ wakeup_queue' = wakeup_queue
    <3>1. ~(cs.ref > 1) /\ cs.ref - 1 = 0
      BY <1>8
    <3> QED
      BY <1>8, <3>1 DEF Leave
  <2>2. \A d \in Co : ~Chosen(d)' /\ d # None
    BY <2>1, NoneAssumption DEF Chosen
  <2>3. \A d \in Co : th[d].st \notin {"queue", "enter"}
    BY <1>4, <1>8, EmptyQueue DEF Handed
  <2> QED
    BY <1>6, <1>8, <2>1, <2>2, <2>3, EmptyQueue DEF Handed
<1>9. CASE cs.ref = 1 /\ cs.thread_queue # <<>>
  <2>1. PICK e \in Co : e = Head(cs.thread_queue)
    BY <1>5, <1>9, TailQueue
  <2>2. /\ \A x : Member(cs.thread_queue, x) <=> x = e \/ Member(Tail(cs.thread_queue), x)
        /\ Distinct(Tail(cs.thread_queue), Co) /\ ~Member(Tail(cs.thread_queue), e)
    BY <1>5, <1>9, <2>1, TailQueue
  <2>3. th[e].st = "queue" /\ ~Member(wakeup_queue, e)
    BY <1>4, <2>2 DEF Handed
  <2>4. sleep_session[e] # 0
    BY <2>3 DEF Stage, Asleep, Waiting
  <2>5. /\ cs'.current_thread = e /\ cs'.ref = 0 /\ cs'.thread_queue = Tail(cs.thread_queue)
        /\ wakeup_queue' = Append(wakeup_queue, e)
    <3>1. ~(cs.ref > 1) /\ cs.ref - 1 = 0
      BY <1>9
    <3> QED
      BY <1>9, <2>1, <2>4, <3>1 DEF Leave
  <2>6. \A x : Member(wakeup_queue', x) <=> x = e \/ Member(wakeup_queue, x)
    BY <1>5, <2>5, AppendQueue
  <2>7. \A d \in Co : Chosen(d)' <=> d = e
    BY <2>5 DEF Chosen
  <2>8. ASSUME NEW d \in Co
        PROVE  /\ th'[d].in = IF d = cs'.current_thread THEN cs'.ref ELSE 0
               /\ Member(cs'.thread_queue, d) => th'[d].st = "queue" /\ cs'.current_thread # d
               /\ th'[d].st = "queue" => Member(cs'.thread_queue, d) \/ (d = e /\ Member(wakeup_queue', d))
               /\ th'[d].st = "queue" /\ Member(wakeup_queue', d) => d = e
               /\ th'[d].st = "enter" => d = e
               /\ d = e => th'[d].st = "enter" \/ (th'[d].st = "queue" /\ Member(wakeup_queue', d))
    <3>1. th'[d].in = 0
      BY <1>6, <1>9
    <3>2. th'[d].st = th[d].st
      BY <1>6
    <3> QED
      BY <1>4, <2>2, <2>3, <2>5, <2>6, <3>1, <3>2 DEF Handed
  <2>9. Distinct(cs'.thread_queue, Co) /\ cs'.current_thread # None
    BY <2>2, <2>5, NoneAssumption
  <2> QED
    BY <2>7, <2>8, <2>9 DEF Handed
<1> QED
  BY <1>2, <1>3, <1>7, <1>8, <1>9

LEMMA HandedStep ==
  ASSUME TypeOK, Stage, Sessions, Tokens, Handed, Next
  PROVE  Handed'
<1> USE DEF tables, queues, env, due
\* Steps that change nobody who waits for the queue or enters it
<1>1. ASSUME \A d \in Co : /\ th'[d].in = th[d].in
                           /\ th'[d].st = "queue" <=> th[d].st = "queue"
                           /\ th'[d].st = "enter" <=> th[d].st = "enter",
             UNCHANGED <<wakeup_queue, cs, exited>>
      PROVE  Handed'
  BY <1>1, HandedKept
<1>2. ASSUME NEW c \in Co, NEW left, Resumed(c, left), th[c].st # "queue", UNCHANGED <<wakeup_queue, cs, exited>>
      PROVE  Handed'
  BY <1>1, <1>2 DEF Resumed, Waiting
<1>3. ASSUME NEW p \in Peer, SourceDown(p) PROVE Handed'
  BY <1>1, <1>3 DEF SourceDown
<1>4. ASSUME NEW p \in Peer, NEW c \in Co, Receive(p, c) PROVE Handed'
  <2>1. Becomes(c, "run", 0, Len(source) + 1, 0) /\ th[c].st = "free" /\ th[c].in = 0
    BY <1>4, BecomesFree, FreeFacts DEF Receive
  <2> QED
    BY <1>1, <1>4, <2>1 DEF Receive, Becomes
<1>5. ASSUME NEW s \in Session, Response(s) PROVE Handed'
  <2>1. CASE session_id_coroutine[s] \in Co
    <3>1. PICK c \in Co : c = session_id_coroutine[s] /\ Resumed(c, None) /\ th[c].session = s
      BY <1>5, <2>1, Resumptions
    <3>2. th[c].st # "queue"
      <4>1. s \in timers \/ Called(s)
        BY <1>5 DEF Response, Called
      <4> QED
        BY <3>1, <4>1 DEF Resumed, Sessions, Asleep
    <3> QED
      BY <1>2, <1>5, <3>1, <3>2 DEF Response
  <2>2. CASE session_id_coroutine[s] \notin Co
    BY <1>1, <1>5, <2>2 DEF Response
  <2> QED
    BY <2>1, <2>2
<1>6. ASSUME NEW s \in Session, ErrorDispatch(s) PROVE Handed'
  BY <1>1, <1>6 DEF ErrorDispatch
<1>7. ASSUME DispatchWakeup, ~exited PROVE Handed'
  <2>1. PICK c \in Co : c = Head(wakeup_queue)
    BY <1>7, TailQueue DEF DispatchWakeup, TypeOK
  <2>2. /\ \A x : Member(wakeup_queue, x) <=> x = c \/ Member(wakeup_queue', x)
        /\ ~Member(wakeup_queue', c)
    <3>1. wakeup_queue \in Seq(Co) /\ wakeup_queue # <<>> /\ wakeup_queue' = Tail(wakeup_queue)
      BY <1>7 DEF DispatchWakeup, TypeOK
    <3>2. Distinct(wakeup_queue, Co)
      BY <1>7 DEF Tokens
    <3> QED
      BY <2>1, <3>1, <3>2, TailQueue
  <2>3. th[c].st \in Asleep
    BY <1>7, <2>2 DEF Tokens
  <2>4. sleep_session[c] # 0
    BY <2>3 DEF Stage, Asleep, Waiting
  <2>5. Resumed(c, Break) /\ cs' = cs /\ exited' = exited
    BY <1>7, <2>1, <2>4, Resumptions DEF DispatchWakeup
  <2>6. CASE th[c].st # "queue"
    <3>1. \A d \in Co : /\ th'[d].in = th[d].in
                        /\ th'[d].st = "queue" <=> th[d].st = "queue"
                        /\ th'[d].st = "enter" <=> th[d].st = "enter"
                        /\ th[d].st = "queue" => (Member(wakeup_queue', d) <=> Member(wakeup_queue, d))
      BY <2>2, <2>5, <2>6 DEF Resumed, Waiting
    <3> QED
      BY <2>5, <3>1, HandedKept
  <2>7. CASE th[c].st = "queue"
    <3>1. Chosen(c)
      BY <1>7, <2>2, <2>7 DEF Handed
    <3>2. \A d \in Co : Chosen(d)' <=> Chosen(d)
      BY <2>5 DEF Chosen
    <3>3. \A d \in Co : th'[d].in = th[d].in /\ (th'[d].st = IF d = c THEN "enter" ELSE th[d].st)
      BY <2>5, <2>7 DEF Resumed
    <3>4. \A d \in Co : d # c => ~Chosen(d)
      BY <3>1 DEF Chosen
    <3>5. ~Member(cs.thread_queue, c)
      BY <1>7, <3>1 DEF Handed, Chosen
    <3>6. ASSUME NEW d \in Co
          PROVE  /\ th'[d].in = IF d = cs'.current_thread THEN cs'.ref ELSE 0
                 /\ Member(cs'.thread_queue, d) => th'[d].st = "queue" /\ cs'.current_thread # d
                 /\ th'[d].st = "queue" => Member(cs'.thread_queue, d) \/ (Chosen(d) /\ Member(wakeup_queue', d))
                 /\ th'[d].st = "queue" /\ Member(wakeup_queue', d) => Chosen(d)
                 /\ th'[d].st = "enter" => Chosen(d)
                 /\ Chosen(d) => th'[d].st = "enter" \/ (th'[d].st = "queue" /\ Member(wakeup_queue', d))
      <4>1. CASE d = c
        BY <1>7, <2>5, <3>1, <3>3, <3>5, <4>1 DEF Handed
      <4>2. CASE d # c
        BY <1>7, <2>2, <2>5, <3>3, <3>4, <4>2 DEF Handed
      <4> QED
        BY <4>1, <4>2
    <3> QED
      BY <1>7, <2>5, <3>2, <3>6 DEF Handed
  <2> QED
    BY <2>6, <2>7
<1>8. CASE DispatchErrorQueue
  <2>1. PICK s \in Session, c \in Co : s = Head(error_queue) /\ Resumed(c, None) /\ th[c].session = s
    BY <1>8, Resumptions
  <2>2. Member(error_queue, s)
    BY <1>8, <2>1, TailQueue DEF DispatchErrorQueue, TypeOK
  <2>3. th[c].st # "queue"
    BY <2>1, <2>2 DEF Sessions, Called, Resumed, Asleep
  <2> QED
    BY <1>2, <1>8, <2>1, <2>3 DEF DispatchErrorQueue
<1>9. CASE DispatchErrorStale \/ NoWakeup \/ NoError \/ Done
  BY <1>1, <1>9 DEF DispatchErrorStale, NoWakeup, NoError, Done
<1>10. CASE DispatchFork
  <2>1. PICK c \in Co \cup {None} : c = Head(fork_queue)
    BY <1>10, TailQueue DEF DispatchFork, TypeOK
  <2>2. CASE c = None
    BY <1>1, <1>10, <2>1, <2>2 DEF DispatchFork
  <2>3. CASE c # None
    <3>1. c \in Co /\ th' = [th EXCEPT ![c].st = "run"]
      BY <1>10, <2>1, <2>3 DEF DispatchFork
    <3>2. Becomes(c, "run", th[c].session, th[c].req, th[c].in)
      BY <3>1, BecomesElse
    <3>3. Member(fork_queue, c)
      BY <1>10, <2>1, TailQueue DEF DispatchFork, TypeOK
    <3>4. th[c].st = "forked"
      BY <3>1, <3>3 DEF Stage
    <3> QED
      BY <1>1, <1>10, <3>1, <3>2, <3>4 DEF DispatchFork, Becomes
  <2> QED
    BY <2>2, <2>3
<1>11. ASSUME NEW c \in Co, NEW st \in {"call", "sleep", "wait"}, Suspended(c, st), th[c].st = "run",
              UNCHANGED <<wakeup_queue, cs, exited>>
       PROVE  Handed'
  BY <1>1, <1>11 DEF Suspended
<1>12. ASSUME NEW c \in Co, NEW p \in Peer, Call(c, p) PROVE Handed'
  BY <1>11, <1>12, SuspendFacts DEF Call, Waiting, Runs
<1>13. ASSUME NEW c \in Co, Sleep(c) PROVE Handed'
  BY <1>11, <1>13, SuspendFacts DEF Sleep, Waiting, Runs
<1>14. ASSUME NEW c \in Co, Wait(c) PROVE Handed'
  BY <1>11, <1>14, SuspendFacts DEF Wait, Waiting, Runs
<1>15. ASSUME NEW c \in Co, NEW d \in Co, Wakeup(c, d) PROVE Handed'
  <2>1. /\ wakeup_queue \in Seq(Co) /\ wakeup_queue' = Append(wakeup_queue, d) /\ th[d].st # "queue"
        /\ UNCHANGED <<th, cs, exited>>
    BY <1>15 DEF Wakeup, TypeOK
  <2>2. \A x : Member(wakeup_queue', x) <=> x = d \/ Member(wakeup_queue, x)
    BY <2>1, AppendQueue
  <2> QED
    BY <2>1, <2>2, HandedKept
<1>16. ASSUME NEW c \in Co, NEW d \in Co, Fork(c, d) PROVE Handed'
  <2>1. Becomes(d, "forked", 0, 0, 0) /\ th[d].st = "free" /\ th[d].in = 0
    BY <1>16, BecomesFree, FreeFacts DEF Fork
  <2> QED
    BY <1>1, <1>16, <2>1 DEF Fork, Becomes
<1>17. ASSUME NEW c \in Co, Ret(c) \/ TakeResponse(c) PROVE Handed'
  <2>1. Becomes(c, th[c].st, th[c].session, 0, th[c].in)
    BY <1>17, BecomesElse
  <2> QED
    BY <1>1, <1>17, <2>1 DEF Ret, TakeResponse, Becomes
<1>18. ASSUME NEW c \in Co, NEW r \in Request, Respond(c, r) PROVE Handed'
  BY <1>1, <1>18 DEF Respond
<1>19. ASSUME NEW c \in Co, End(c) \/ Die(c) PROVE Handed'
  <2>1. Becomes(c, "free", 0, 0, 0) /\ th[c].st = "run" /\ th[c].in = 0
    BY <1>19, BecomesFree DEF End, Die, Runs
  <2> QED
    BY <1>1, <1>19, <2>1 DEF End, Die, Becomes
<1>20. ASSUME NEW c \in Co, Exit(c) PROVE Handed'
  BY <1>20 DEF Exit, Handed
<1>21. ASSUME NEW c \in Co, Enter(c) \/ EnterNow(c), ~exited PROVE Handed'
  BY <1>21, HandedEnter DEF Enter, EnterNow, Runs
<1>22. ASSUME exited PROVE Handed'
  BY <1>22, ExitStays DEF Handed
<1> QED
  BY <1>3, <1>4, <1>5, <1>6, <1>7, <1>8, <1>9, <1>10, <1>12, <1>13, <1>14, <1>15, <1>16, <1>17, <1>18,
     <1>19, <1>20, <1>21, <1>22, HandedLater, HandedLeave
     DEF Next, Message, Scheduler, Step

-----------------------------------------------------------------------------
(* The invariant is preserved: the order in which the queue was reached *)

LEMMA ArrivedKept ==
  ASSUME TypeOK, Handed, Arrived, exited' = exited, cs' = cs,
         \A d \in Co : Member(cs.thread_queue, d) => th'[d].session = th[d].session,
         \A d \in Co : th'[d].st = "queue" => th[d].st = "queue" /\ th'[d].session = th[d].session
  PROVE  Arrived'
<1> SUFFICES ASSUME ~exited PROVE Arrived'
  BY DEF Arrived
<1>1. cs.thread_queue \in Seq(Co)
  BY DEF TypeOK, QueueType
<1>2. ASSUME NEW i \in DOMAIN cs.thread_queue
      PROVE  th'[cs.thread_queue[i]].session = th[cs.thread_queue[i]].session
  <2>1. cs.thread_queue[i] \in Co /\ Member(cs.thread_queue, cs.thread_queue[i])
    BY <1>1 DEF Member
  <2> QED
    BY <2>1
<1> QED
  BY <1>2 DEF Arrived

LEMMA ArrivedLater ==
  ASSUME TypeOK, Stage, Sessions, Handed, Arrived, ~exited, NEW c \in Co, EnterLater(c)
  PROVE  Arrived'
<1>1. Suspended(c, "queue")
  BY SuspendFacts DEF EnterLater, Waiting
<1>2. /\ cs' = [cs EXCEPT !.thread_queue = Append(cs.thread_queue, c)]
      /\ exited' = exited /\ cs.current_thread # c /\ th[c].st = "run"
  BY DEF EnterLater, queues, Runs
<1>3. cs \in QueueType /\ cs.thread_queue \in Seq(Co)
  BY DEF TypeOK, QueueType
<1> DEFINE q == cs.thread_queue
           r == Append(q, c)
<1>4. cs'.current_thread = cs.current_thread /\ cs'.thread_queue = r
  BY <1>2, <1>3 DEF QueueType
<1>5. /\ Len(q) \in Nat /\ DOMAIN q = 1..Len(q) /\ DOMAIN r = 1..(Len(q) + 1)
      /\ r[Len(q) + 1] = c /\ \A i \in 1..Len(q) : r[i] = q[i] /\ q[i] \in Co
  BY <1>3
<1>6. ASSUME NEW d \in Co, th[d].st = "queue"
      PROVE  th'[d].session = th[d].session /\ th[d].session \in Nat /\ th[d].session < last + 1
  <2>1. d # c
    BY <1>2, <1>6
  <2>2. th[d].session \in 0..lim.session /\ lim.session \in Nat /\ last \in Nat
    <3>1. lim \in Limits /\ th \in [Co -> ThreadType] /\ last \in 0..lim.session
      BY DEF TypeOK
    <3>2. lim.session \in Nat
      BY <3>1, LimitsAssumption
    <3>3. th[d] \in ThreadType
      BY <3>1
    <3>4. th[d].session \in 0..lim.session
      BY <3>3 DEF ThreadType
    <3> QED
      BY <3>1, <3>2, <3>4
  <2>3. session_id_coroutine[th[d].session] = d /\ d # None
    BY <1>6, NoneAssumption DEF Sessions, AnswersFindCallers, Waiting
  <2>4. th[d].session \in Session
    BY <1>6, <2>2 DEF Stage, Session, Waiting
  <2>5. ~(th[d].session > last)
    BY <2>3, <2>4 DEF Sessions
  <2> QED
    BY <1>1, <2>1, <2>2, <2>5 DEF Suspended
<1>7. \A i \in 1..Len(q) : th[q[i]].st = "queue"
  BY <1>5 DEF Handed, Member
<1>8. \A i \in 1..Len(q) : /\ th'[q[i]].session = th[q[i]].session /\ th[q[i]].session \in Nat
                            /\ th[q[i]].session < last + 1
  BY <1>5, <1>6, <1>7
<1>9. th'[c].session = last + 1
  BY <1>1 DEF Suspended
<1> HIDE DEF r
<1>10. ASSUME NEW i \in DOMAIN r, NEW j \in DOMAIN r, i < j
       PROVE  th'[r[i]].session < th'[r[j]].session
  <2>1. i \in 1..Len(q)
    BY <1>5, <1>10
  <2>2. CASE j = Len(q) + 1
    BY <1>5, <1>8, <1>9, <2>1, <2>2
  <2>3. CASE j # Len(q) + 1
    <3>1. j \in 1..Len(q)
      BY <1>5, <2>3
    <3>2. th[q[i]].session < th[q[j]].session
      BY <1>5, <1>10, <2>1, <3>1 DEF Arrived
    <3> QED
      BY <1>5, <1>8, <2>1, <3>1, <3>2
  <2> QED
    BY <2>2, <2>3
<1>11. ASSUME NEW d \in Co, th'[d].st = "queue", cs'.current_thread = d, NEW i \in DOMAIN r
       PROVE  th'[d].session < th'[r[i]].session
  <2>1. d # c /\ th[d].st = "queue"
    BY <1>1, <1>2, <1>4, <1>11 DEF Suspended
  <2>2. CASE i = Len(q) + 1
    BY <1>5, <1>6, <1>9, <2>1, <2>2
  <2>3. CASE i # Len(q) + 1
    <3>1. i \in 1..Len(q)
      BY <1>5, <2>3
    <3>2. th[d].session < th[q[i]].session
      BY <1>4, <1>5, <1>11, <2>1, <3>1 DEF Arrived
    <3> QED
      BY <1>5, <1>6, <1>8, <2>1, <3>1, <3>2
  <2> QED
    BY <2>2, <2>3
<1> QED
  BY <1>4, <1>10, <1>11 DEF Arrived

LEMMA ArrivedLeave ==
  ASSUME TypeOK, Handed, Arrived, ~exited, NEW c \in Co, Leave(c)
  PROVE  Arrived'
<1>1. Becomes(c, th[c].st, th[c].session, th[c].req, th[c].in - 1)
  BY BecomesElse
<1>2. th[c].st = "run" /\ exited' = exited /\ None \notin Co
  BY NoneAssumption DEF Leave, Runs
<1>3. \A d \in Co : th'[d].st = th[d].st /\ th'[d].session = th[d].session
  BY <1>1 DEF Becomes
<1> DEFINE q == cs.thread_queue
<1>4. q \in Seq(Co)
  BY DEF TypeOK, QueueType
<1>5. CASE cs.ref = 1 /\ q # <<>>
  <2>0. ~(cs.ref > 1)
    BY <1>5
  <2>1. cs'.current_thread = Head(q) /\ cs'.thread_queue = Tail(q)
    BY <1>5, <2>0 DEF Leave
  <2> DEFINE t == Tail(q)
  <2>2. /\ Len(q) \in Nat \ {0} /\ DOMAIN q = 1..Len(q) /\ DOMAIN t = 1..(Len(q) - 1) /\ Head(q) = q[1]
        /\ \A i \in DOMAIN t : t[i] = q[i + 1] /\ t[i] \in Co
    BY <1>4, <1>5
  <2> HIDE DEF t
  <2>3. \A i \in DOMAIN t : i + 1 \in DOMAIN q /\ 1 < i + 1
    BY <2>2
  <2>4. ASSUME NEW i \in DOMAIN t, NEW j \in DOMAIN t, i < j
        PROVE  th'[t[i]].session < th'[t[j]].session
    <3>1. i + 1 < j + 1
      BY <2>2, <2>4
    <3> QED
      BY <1>3, <2>2, <2>3, <3>1 DEF Arrived
  <2>5. ASSUME NEW i \in DOMAIN t PROVE th'[q[1]].session < th'[t[i]].session
    <3>1. 1 \in DOMAIN q /\ q[1] \in Co
      BY <1>4, <2>2
    <3> QED
      BY <1>3, <2>2, <2>3, <3>1 DEF Arrived
  <2> QED
    BY <2>1, <2>2, <2>4, <2>5 DEF Arrived, t
<1>6. CASE ~(cs.ref = 1 /\ q # <<>>)
  <2>1. cs'.current_thread \in {c, None} /\ cs'.thread_queue = q
    BY <1>6 DEF Leave
  <2>2. \A d \in Co : ~(th'[d].st = "queue" /\ cs'.current_thread = d)
    BY <1>2, <1>3, <2>1
  <2>3. \A i \in DOMAIN q : q[i] \in Co
    BY <1>4
  <2> QED
    BY <1>3, <2>1, <2>2, <2>3 DEF Arrived
<1> QED
  BY <1>5, <1>6

LEMMA ArrivedEnter ==
  ASSUME TypeOK, Stage, Handed, Arrived, ~exited, NEW c \in Co, pc = Running(c), Hold(c)
  PROVE  Arrived'
<1>1. Becomes(c, "run", th[c].session, th[c].req, th[c].in + 1)
  BY BecomesElse
<1>2. cs \in QueueType /\ cs.thread_queue \in Seq(Co)
  BY DEF TypeOK, QueueType
<1>3. cs'.current_thread = c /\ cs'.thread_queue = cs.thread_queue /\ exited' = exited
  BY <1>2 DEF Hold, QueueType
<1>4. \A d \in Co : th'[d].session = th[d].session /\ (d = c => th'[d].st = "run")
  BY <1>1 DEF Becomes
<1>5. \A i \in DOMAIN cs.thread_queue : cs.thread_queue[i] \in Co
  BY <1>2
<1> QED
  BY <1>3, <1>4, <1>5 DEF Arrived

LEMMA ArrivedStep ==
  ASSUME TypeOK, Stage, Sessions, Tokens, Handed, Arrived, Next
  PROVE  Arrived'
<1> USE DEF tables, queues, env, due
<1>0. ASSUME exited PROVE Arrived'
  BY <1>0, ExitStays DEF Arrived
<1> SUFFICES ASSUME ~exited PROVE Arrived'
  BY <1>0
<1>1. ASSUME \A d \in Co : /\ th[d].st = "queue" => th'[d].session = th[d].session
                           /\ th'[d].st = "queue" => th[d].st = "queue",
             UNCHANGED <<cs, exited>>
      PROVE  Arrived'
  BY <1>1, ArrivedKept DEF Handed
<1>2. ASSUME NEW c \in Co, NEW left, Resumed(c, left), ~Member(cs.thread_queue, c), UNCHANGED <<cs, exited>>
      PROVE  Arrived'
  <2>1. \A d \in Co : d # c => th'[d] = th[d]
    BY <1>2 DEF Resumed
  <2>2. th'[c].st # "queue"
    BY <1>2 DEF Resumed
  <2> QED
    BY <1>2, <2>1, <2>2, ArrivedKept
<1>3. ASSUME NEW p \in Peer, SourceDown(p) PROVE Arrived'
  BY <1>1, <1>3 DEF SourceDown
<1>4. ASSUME NEW p \in Peer, NEW c \in Co, Receive(p, c) PROVE Arrived'
  <2>1. Becomes(c, "run", 0, Len(source) + 1, 0) /\ th[c].st = "free"
    BY <1>4, BecomesFree, FreeFacts DEF Receive
  <2> QED
    BY <1>1, <1>4, <2>1 DEF Receive, Becomes
<1>5. ASSUME NEW s \in Session, Response(s) PROVE Arrived'
  <2>1. CASE session_id_coroutine[s] \in Co
    <3>1. PICK c \in Co : c = session_id_coroutine[s] /\ Resumed(c, None) /\ th[c].session = s
      BY <1>5, <2>1, Resumptions
    <3>2. th[c].st # "queue"
      <4>1. s \in timers \/ Called(s)
        BY <1>5 DEF Response, Called
      <4> QED
        BY <3>1, <4>1 DEF Resumed, Sessions, Asleep
    <3> QED
      BY <1>2, <1>5, <3>1, <3>2 DEF Response, Handed
  <2>2. CASE session_id_coroutine[s] \notin Co
    BY <1>1, <1>5, <2>2 DEF Response
  <2> QED
    BY <2>1, <2>2
<1>6. ASSUME NEW s \in Session, ErrorDispatch(s) PROVE Arrived'
  BY <1>1, <1>6 DEF ErrorDispatch
<1>7. CASE DispatchWakeup
  <2>1. PICK c \in Co : c = Head(wakeup_queue) /\ Member(wakeup_queue, c)
    BY <1>7, TailQueue DEF DispatchWakeup, TypeOK
  <2>2. th[c].st \in Asleep
    BY <2>1 DEF Tokens
  <2>3. sleep_session[c] # 0
    BY <2>2 DEF Stage, Asleep, Waiting
  <2>4. Resumed(c, Break) /\ cs' = cs /\ exited' = exited
    BY <1>7, <2>1, <2>3, Resumptions DEF DispatchWakeup
  <2>5. ~Member(cs.thread_queue, c)
    BY <2>1 DEF Handed, Chosen
  <2> QED
    BY <1>2, <2>4, <2>5
<1>8. CASE DispatchErrorQueue
  <2>1. PICK s \in Session, c \in Co : s = Head(error_queue) /\ Resumed(c, None) /\ th[c].session = s
    BY <1>8, Resumptions
  <2>2. Member(error_queue, s)
    BY <1>8, <2>1, TailQueue DEF DispatchErrorQueue, TypeOK
  <2>3. th[c].st # "queue"
    BY <2>1, <2>2 DEF Sessions, Called, Resumed, Asleep
  <2> QED
    BY <1>2, <1>8, <2>1, <2>3 DEF DispatchErrorQueue, Handed
<1>9. CASE DispatchErrorStale \/ NoWakeup \/ NoError \/ Done
  BY <1>1, <1>9 DEF DispatchErrorStale, NoWakeup, NoError, Done
<1>10. CASE DispatchFork
  <2>1. PICK c \in Co \cup {None} : c = Head(fork_queue)
    BY <1>10, TailQueue DEF DispatchFork, TypeOK
  <2>2. CASE c = None
    BY <1>1, <1>10, <2>1, <2>2 DEF DispatchFork
  <2>3. CASE c # None
    <3>1. c \in Co /\ th' = [th EXCEPT ![c].st = "run"]
      BY <1>10, <2>1, <2>3 DEF DispatchFork
    <3>2. Becomes(c, "run", th[c].session, th[c].req, th[c].in)
      BY <3>1, BecomesElse
    <3> QED
      BY <1>1, <1>10, <3>1, <3>2 DEF DispatchFork, Becomes
  <2> QED
    BY <2>2, <2>3
<1>11. ASSUME NEW c \in Co, NEW st \in {"call", "sleep", "wait"}, Suspended(c, st), th[c].st = "run",
              UNCHANGED <<cs, exited>>
       PROVE  Arrived'
  BY <1>1, <1>11 DEF Suspended
<1>12. ASSUME NEW c \in Co, NEW p \in Peer, Call(c, p) PROVE Arrived'
  BY <1>11, <1>12, SuspendFacts DEF Call, Waiting, Runs
<1>13. ASSUME NEW c \in Co, Sleep(c) PROVE Arrived'
  BY <1>11, <1>13, SuspendFacts DEF Sleep, Waiting, Runs
<1>14. ASSUME NEW c \in Co, Wait(c) PROVE Arrived'
  BY <1>11, <1>14, SuspendFacts DEF Wait, Waiting, Runs
<1>15. ASSUME NEW c \in Co, NEW d \in Co, Wakeup(c, d) PROVE Arrived'
  BY <1>1, <1>15 DEF Wakeup
<1>16. ASSUME NEW c \in Co, NEW d \in Co, Fork(c, d) PROVE Arrived'
  <2>1. Becomes(d, "forked", 0, 0, 0) /\ th[d].st = "free"
    BY <1>16, BecomesFree, FreeFacts DEF Fork
  <2> QED
    BY <1>1, <1>16, <2>1 DEF Fork, Becomes
<1>17. ASSUME NEW c \in Co, Ret(c) \/ TakeResponse(c) PROVE Arrived'
  <2>1. Becomes(c, th[c].st, th[c].session, 0, th[c].in)
    BY <1>17, BecomesElse
  <2> QED
    BY <1>1, <1>17, <2>1 DEF Ret, TakeResponse, Becomes
<1>18. ASSUME NEW c \in Co, NEW r \in Request, Respond(c, r) PROVE Arrived'
  BY <1>1, <1>18 DEF Respond
<1>19. ASSUME NEW c \in Co, End(c) \/ Die(c) PROVE Arrived'
  <2>1. Becomes(c, "free", 0, 0, 0) /\ th[c].st = "run"
    BY <1>19, BecomesFree DEF End, Die, Runs
  <2> QED
    BY <1>1, <1>19, <2>1 DEF End, Die, Becomes
<1>20. ASSUME NEW c \in Co, Exit(c) PROVE Arrived'
  BY <1>20 DEF Exit, Arrived
<1>21. ASSUME NEW c \in Co, Enter(c) \/ EnterNow(c) PROVE Arrived'
  BY <1>21, ArrivedEnter DEF Enter, EnterNow, Runs
<1> QED
  BY <1>3, <1>4, <1>5, <1>6, <1>7, <1>8, <1>9, <1>10, <1>12, <1>13, <1>14, <1>15, <1>16, <1>17, <1>18,
     <1>19, <1>20, <1>21, ArrivedLater, ArrivedLeave
     DEF Next, Message, Scheduler, Step

-----------------------------------------------------------------------------
(* The invariant is preserved: who owes the answers *)

LEMMA LedgerKept ==
  ASSUME Ledger, Request' = Request, \A d \in Co : th'[d].req = th[d].req,
         UNCHANGED <<source, answers, unresponse, void, exited>>
  PROVE  Ledger'
<1>1. ASSUME NEW r PROVE Holder(r)' = Holder(r)
  BY DEF Holder
<1>2. ASSUME NEW r
      PROVE  /\ Answered(r)' <=> Answered(r)
             /\ Held(r)' <=> Held(r)
             /\ Taken(r)' <=> Taken(r)
             /\ Forgotten(r)' <=> Forgotten(r)
  BY <1>1 DEF Answered, Held, Taken, Forgotten
<1> QED
  BY <1>2 DEF Ledger

\* The holder of a request is the only one to owe its answer.
LEMMA HolderOwes ==
  ASSUME TypeOK, Ledger, ~exited, NEW c \in Co, th[c].req # 0
  PROVE  Held(th[c].req) /\ Holder(th[c].req) = {c} /\ th[c].req \in 1..Len(source) /\ th[c].req \in Request
<1>1. th[c].req \in 0..lim.req /\ lim.req \in Nat /\ Len(source) \in Nat
  BY LimitsAssumption, LenProperties DEF TypeOK, ThreadType
<1>2. th[c].req \in 1..Len(source) /\ th[c].req \in Request
  BY <1>1 DEF Ledger, Request
<1>3. c \in Holder(th[c].req)
  BY DEF Holder
<1>4. Held(th[c].req)
  BY <1>2, <1>3 DEF Ledger, Answered, Taken, Forgotten
<1>5. Holder(th[c].req) = {c}
  BY <1>3, <1>4 DEF Held
<1> QED
  BY <1>2, <1>4, <1>5

\* The coroutine c does not owe an answer any more.
LEMMA GivesUp ==
  ASSUME TypeOK, Ledger, ~exited, NEW c \in Co, th'[c].req = 0, \A d \in Co : d # c => th'[d] = th[d]
  PROVE  /\ \A r \in 1..Len(source) : r # th[c].req => Holder(r)' = Holder(r)
         /\ th[c].req # 0 => \A r \in 1..Len(source) : r = th[c].req => Holder(r)' = {}
<1>1. ASSUME NEW r \in 1..Len(source), r # th[c].req PROVE Holder(r)' = Holder(r)
  <2>1. r # 0
    BY LenProperties DEF TypeOK
  <2> QED
    BY <1>1, <2>1 DEF Holder
<1>2. ASSUME th[c].req # 0, NEW r \in 1..Len(source), r = th[c].req PROVE Holder(r)' = {}
  <2>1. Holder(r) = {c} /\ r # 0
    BY <1>2, HolderOwes
  <2>2. ASSUME NEW d \in Co PROVE th'[d].req # r
    BY <2>1, <2>2 DEF Holder
  <2> QED
    BY <2>2 DEF Holder
<1> QED
  BY <1>1, <1>2

LEMMA LedgerStep ==
  ASSUME TypeOK, Stage, Sessions, Ledger, Next
  PROVE  Ledger'
<1> USE DEF tables, queues, env, due
<1>0. Request' = Request
  BY LimitsKept
<1>1. ASSUME \A d \in Co : th'[d].req = th[d].req, UNCHANGED <<source, answers, unresponse, void, exited>>
      PROVE  Ledger'
  BY <1>0, <1>1, LedgerKept
<1>2. Len(source) \in Nat /\ lim.req \in Nat /\ Len(source) <= lim.req
  BY LimitsAssumption, LenProperties DEF TypeOK
<1>3. ASSUME NEW p \in Peer, SourceDown(p), ~exited PROVE Ledger'
  <2>1. PICK owed \in SUBSET (DOMAIN source) : /\ \A r \in owed : answers[r] = 0
                                             /\ void' = void \cup (owed \cap unresponse)
                                             /\ unresponse' = unresponse \ owed
    <3> DEFINE owed == {r \in DOMAIN source : source[r] = p /\ answers[r] = 0}
    <3>1. owed \in SUBSET (DOMAIN source) /\ \A r \in owed : answers[r] = 0
      OBVIOUS
    <3>2. void' = void \cup (owed \cap unresponse) /\ unresponse' = unresponse \ owed
      BY <1>3 DEF SourceDown
    <3> QED
      BY <3>1, <3>2
  <2>2. UNCHANGED <<th, source, answers, exited>>
    BY <1>3 DEF SourceDown
  <2>3. ASSUME NEW r PROVE Holder(r)' = Holder(r)
    BY <2>2 DEF Holder
  <2>4. ASSUME NEW r \in 1..Len(source) PROVE Answered(r)' \/ Held(r)' \/ Taken(r)' \/ Forgotten(r)'
    BY <1>3, <2>1, <2>2, <2>3 DEF Ledger, Answered, Held, Taken, Forgotten
  <2>5. ASSUME NEW r \in Request, r > Len(source) PROVE answers'[r] = 0 /\ r \notin unresponse' /\ r \notin void'
    BY <1>3, <2>1, <2>2, <2>5 DEF Ledger
  <2> QED
    BY <1>0, <1>3, <2>2, <2>4, <2>5 DEF Ledger
<1>4. ASSUME NEW p \in Peer, NEW c \in Co, Receive(p, c), ~exited PROVE Ledger'
  <2>1. Becomes(c, "run", 0, Len(source) + 1, 0) /\ th[c].req = 0
    BY <1>4, BecomesFree, FreeFacts DEF Receive
  <2>2. UNCHANGED <<answers, unresponse, void, exited>> /\ Len(source') = Len(source) + 1
    BY <1>4, AppendProperties DEF Receive, TypeOK
  <2>3. \A d \in Co : th[d].req <= Len(source) /\ th[d].req \in Int
    BY <1>4 DEF Ledger, TypeOK, ThreadType
  <2>4. ASSUME NEW r \in 1..Len(source) PROVE Holder(r)' = Holder(r)
    <3>1. r # 0 /\ r # Len(source) + 1
      BY <1>2
    <3> QED
      BY <2>1, <3>1 DEF Holder, Becomes
  <2>5. ASSUME NEW r \in 1..Len(source) PROVE Answered(r)' \/ Held(r)' \/ Taken(r)' \/ Forgotten(r)'
    BY <1>4, <2>2, <2>4 DEF Ledger, Answered, Held, Taken, Forgotten
  <2>6. PICK n \in Request : n = Len(source) + 1
    BY <1>2, <1>4 DEF Receive, Request
  <2>7. Holder(n)' = {c}
    <3>1. \A d \in Co : d # c => th'[d].req # n
      BY <1>2, <2>1, <2>3, <2>6 DEF Becomes
    <3> QED
      BY <2>1, <2>6, <3>1 DEF Holder, Becomes
  <2>8. answers[n] = 0 /\ n \notin unresponse /\ n \notin void
    BY <1>2, <1>4, <2>6 DEF Ledger
  <2>9. Held(n)'
    BY <2>2, <2>7, <2>8 DEF Held
  <2>10. \A d \in Co : th'[d].req <= Len(source')
    BY <1>2, <2>1, <2>2, <2>3 DEF Becomes
  <2>11. ASSUME NEW r \in 1..Len(source') PROVE Answered(r)' \/ Held(r)' \/ Taken(r)' \/ Forgotten(r)'
    <3>1. r \in 1..Len(source) \/ r = n
      BY <1>2, <2>2, <2>6
    <3> QED
      BY <2>5, <2>9, <3>1
  <2>12. ASSUME NEW r \in Request, r > Len(source') PROVE answers'[r] = 0 /\ r \notin unresponse' /\ r \notin void'
    BY <1>2, <1>4, <2>2, <2>12 DEF Ledger, Request
  <2> QED
    BY <1>0, <2>10, <2>11, <2>12 DEF Ledger
<1>5. ASSUME NEW s \in Session, Response(s) PROVE Ledger'
  <2>1. CASE session_id_coroutine[s] \in Co
    <3>1. PICK c \in Co : Resumed(c, None)
      BY <1>5, <2>1, Resumptions
    <3> QED
      BY <1>1, <1>5, <3>1 DEF Response, Resumed
  <2>2. CASE session_id_coroutine[s] \notin Co
    BY <1>1, <1>5, <2>2 DEF Response
  <2> QED
    BY <2>1, <2>2
<1>6. ASSUME NEW s \in Session, ErrorDispatch(s) PROVE Ledger'
  BY <1>1, <1>6 DEF ErrorDispatch
<1>7. CASE DispatchWakeup
  <2>1. CASE sleep_session[Head(wakeup_queue)] # 0
    <3>1. PICK c \in Co : Resumed(c, Break)
      BY <1>7, <2>1, Resumptions
    <3> QED
      BY <1>1, <1>7, <3>1 DEF DispatchWakeup, Resumed
  <2>2. CASE sleep_session[Head(wakeup_queue)] = 0
    BY <1>1, <1>7, <2>2 DEF DispatchWakeup
  <2> QED
    BY <2>1, <2>2
<1>8. CASE DispatchErrorQueue
  <2>1. PICK c \in Co : Resumed(c, None)
    BY <1>8, Resumptions
  <2> QED
    BY <1>1, <1>8, <2>1 DEF DispatchErrorQueue, Resumed
<1>9. CASE DispatchErrorStale \/ NoWakeup \/ NoError \/ Done
  BY <1>1, <1>9 DEF DispatchErrorStale, NoWakeup, NoError, Done
<1>10. CASE DispatchFork
  <2>1. PICK c \in Co \cup {None} : c = Head(fork_queue)
    BY <1>10, TailQueue DEF DispatchFork, TypeOK
  <2>2. CASE c = None
    BY <1>1, <1>10, <2>1, <2>2 DEF DispatchFork
  <2>3. CASE c # None
    <3>1. c \in Co /\ th' = [th EXCEPT ![c].st = "run"]
      BY <1>10, <2>1, <2>3 DEF DispatchFork
    <3>2. Becomes(c, "run", th[c].session, th[c].req, th[c].in)
      BY <3>1, BecomesElse
    <3> QED
      BY <1>1, <1>10, <3>1, <3>2 DEF DispatchFork, Becomes
  <2> QED
    BY <2>2, <2>3
<1>11. ASSUME NEW c \in Co, NEW st \in Waiting, Suspend(c, st), UNCHANGED <<source, answers, unresponse, void, exited>>
       PROVE  Ledger'
  BY <1>1, <1>11, SuspendFacts DEF Suspended
<1>12. ASSUME NEW c \in Co, NEW p \in Peer, Call(c, p) PROVE Ledger'
  BY <1>11, <1>12 DEF Call, Waiting
<1>13. ASSUME NEW c \in Co, Sleep(c) \/ Wait(c) \/ EnterLater(c) PROVE Ledger'
  BY <1>11, <1>13 DEF Sleep, Wait, EnterLater, Waiting
<1>14. ASSUME NEW c \in Co, NEW d \in Co, Wakeup(c, d) PROVE Ledger'
  BY <1>1, <1>14 DEF Wakeup
<1>15. ASSUME NEW c \in Co, NEW d \in Co, Fork(c, d) PROVE Ledger'
  <2>1. Becomes(d, "forked", 0, 0, 0) /\ th[d].req = 0
    BY <1>15, BecomesFree, FreeFacts DEF Fork
  <2> QED
    BY <1>1, <1>15, <2>1 DEF Fork, Becomes
\* The coroutine c gives up its request and somebody else is responsible for it.
<1>16. ASSUME NEW c \in Co, ~exited, th'[c].req = 0, \A d \in Co : d # c => th'[d] = th[d],
              UNCHANGED <<source, exited>>, \A r \in Request : r # th[c].req =>
                 answers'[r] = answers[r] /\ (r \in unresponse' <=> r \in unresponse) /\ (r \in void' <=> r \in void),
              \A r \in 1..Len(source) : r = th[c].req /\ Held(r) /\ Holder(r)' = {} =>
                 Answered(r)' \/ Taken(r)' \/ Forgotten(r)'
       PROVE  Ledger'
  <2>1. 1..Len(source) \subseteq Request
    BY <1>2 DEF Request
  <2>2. ASSUME NEW r \in 1..Len(source) PROVE Answered(r)' \/ Held(r)' \/ Taken(r)' \/ Forgotten(r)'
    <3>1. CASE r = th[c].req
      <4>1. th[c].req # 0
        BY <1>2, <3>1
      <4>2. Held(r) /\ Holder(r)' = {}
        BY <1>16, <3>1, <4>1, HolderOwes, GivesUp
      <4> QED
        BY <1>16, <3>1, <4>2
    <3>2. CASE r # th[c].req
      <4>1. Holder(r)' = Holder(r)
        BY <1>16, <3>2, GivesUp
      <4>2. answers'[r] = answers[r] /\ (r \in unresponse' <=> r \in unresponse) /\ (r \in void' <=> r \in void)
        BY <1>16, <2>1, <3>2
      <4> QED
        BY <1>16, <4>1, <4>2 DEF Ledger, Answered, Held, Taken, Forgotten
    <3> QED
      BY <3>1, <3>2
  <2>3. ASSUME NEW r \in Request, r > Len(source) PROVE answers'[r] = 0 /\ r \notin unresponse' /\ r \notin void'
    <3>1. r # th[c].req
      BY <1>2, <1>16, <2>3 DEF Ledger, Request, TypeOK, ThreadType
    <3> QED
      BY <1>16, <2>3, <3>1 DEF Ledger
  <2>4. \A d \in Co : th'[d].req <= Len(source)
    BY <1>2, <1>16 DEF Ledger
  <2> QED
    BY <1>0, <1>16, <2>2, <2>3, <2>4 DEF Ledger
<1>17. ASSUME NEW c \in Co, Ret(c), ~exited PROVE Ledger'
  <2>1. Becomes(c, th[c].st, th[c].session, 0, th[c].in)
    BY <1>17, BecomesElse
  <2>2. PICK q \in Request : q = th[c].req /\ answers' = [answers EXCEPT ![q] = @ + 1]
    BY <1>17, HolderOwes DEF Ret
  <2>3. UNCHANGED <<source, exited, unresponse, void>>
    BY <1>17 DEF Ret
  <2>4. \A r \in Request : r # q => answers'[r] = answers[r]
    BY <2>2 DEF TypeOK
  <2>5. Held(q) => answers'[q] = 1
    BY <2>2 DEF Held, TypeOK
  <2>6. \A r \in 1..Len(source) : r = q /\ Held(r) /\ Holder(r)' = {} => Answered(r)'
    BY <2>3, <2>5 DEF Held, Answered
  <2> QED
    BY <1>16, <1>17, <2>1, <2>2, <2>3, <2>4, <2>6 DEF Becomes
<1>18. ASSUME NEW c \in Co, TakeResponse(c), ~exited PROVE Ledger'
  <2>1. Becomes(c, th[c].st, th[c].session, 0, th[c].in)
    BY <1>18, BecomesElse
  <2>2. UNCHANGED <<source, exited, answers, void>> /\ unresponse' = unresponse \cup {th[c].req}
    BY <1>18 DEF TakeResponse
  <2>3. \A r \in 1..Len(source) : r = th[c].req /\ Held(r) /\ Holder(r)' = {} => Taken(r)'
    BY <2>2 DEF Held, Taken
  <2> QED
    BY <1>16, <1>18, <2>1, <2>2, <2>3 DEF Becomes
<1>19. ASSUME NEW c \in Co, NEW q \in Request, Respond(c, q), ~exited PROVE Ledger'
  <2>1. UNCHANGED <<th, source, exited, void>> /\ unresponse' = unresponse \ {q} /\ q \in unresponse
    BY <1>19 DEF Respond
  <2>2. answers' = [answers EXCEPT ![q] = @ + 1]
    BY <1>19 DEF Respond
  <2>3. answers'[q] = answers[q] + 1 /\ \A r \in Request : r # q => answers'[r] = answers[r]
    BY <2>2 DEF TypeOK
  <2>4. ASSUME NEW r PROVE Holder(r)' = Holder(r)
    BY <2>1 DEF Holder
  <2>5. q \in 1..Len(source)
    BY <1>2, <1>19, <2>1 DEF Ledger, Request
  <2>6. Taken(q)
    BY <1>19, <2>1, <2>5 DEF Ledger, Answered, Held, Forgotten
  <2>7. Answered(q)'
    BY <2>1, <2>3, <2>4, <2>6 DEF Taken, Answered
  <2>8. 1..Len(source) \subseteq Request
    BY <1>2 DEF Request
  <2>9. ASSUME NEW r \in 1..Len(source), r # q PROVE Answered(r)' \/ Held(r)' \/ Taken(r)' \/ Forgotten(r)'
    <3>1. answers'[r] = answers[r] /\ (r \in unresponse' <=> r \in unresponse) /\ void' = void
      BY <2>1, <2>3, <2>8, <2>9
    <3> QED
      BY <1>19, <2>4, <3>1 DEF Ledger, Answered, Held, Taken, Forgotten
  <2>10. ASSUME NEW r \in Request, r > Len(source) PROVE answers'[r] = 0 /\ r \notin unresponse' /\ r \notin void'
    BY <1>2, <1>19, <2>1, <2>3, <2>5, <2>10 DEF Ledger
  <2> QED
    BY <1>0, <1>19, <2>1, <2>7, <2>9, <2>10 DEF Ledger
<1>20. ASSUME NEW c \in Co, End(c), ~exited PROVE Ledger'
  <2>1. Becomes(c, "free", 0, 0, 0)
    BY <1>20, BecomesFree
  <2>2. UNCHANGED <<source, exited, answers, unresponse>> /\ void' = void \cup ({th[c].req} \ {0})
    BY <1>20 DEF End
  <2>3. \A r \in 1..Len(source) : r = th[c].req /\ Held(r) /\ Holder(r)' = {} => Forgotten(r)'
    <3>1. \A r \in 1..Len(source) : r # 0
      BY <1>2
    <3> QED
      BY <2>2, <3>1 DEF Held, Forgotten
  <2> QED
    BY <1>16, <1>20, <2>1, <2>2, <2>3 DEF Becomes
<1>21. ASSUME NEW c \in Co, Die(c), ~exited PROVE Ledger'
  <2>1. Becomes(c, "free", 0, 0, 0)
    BY <1>21, BecomesFree
  <2>2. UNCHANGED <<source, exited, unresponse, void>>
    BY <1>21 DEF Die
  <2>3. CASE th[c].req = 0
    BY <1>1, <1>21, <2>1, <2>2, <2>3 DEF Die, Becomes
  <2>4. CASE th[c].req # 0
    <3>1. PICK q \in Request : q = th[c].req /\ answers' = [answers EXCEPT ![q] = @ + 1]
      BY <1>21, <2>4, HolderOwes DEF Die
    <3>2. \A r \in Request : r # q => answers'[r] = answers[r]
      BY <3>1 DEF TypeOK
    <3>3. Held(q) => answers'[q] = 1
      BY <3>1 DEF Held, TypeOK
    <3>4. \A r \in 1..Len(source) : r = q /\ Held(r) /\ Holder(r)' = {} => Answered(r)'
      BY <2>2, <3>3 DEF Held, Answered
    <3> QED
      BY <1>16, <1>21, <2>1, <2>2, <3>1, <3>2, <3>4 DEF Becomes
  <2> QED
    BY <2>3, <2>4
<1>22. ASSUME NEW c \in Co, Exit(c) PROVE Ledger'
  BY <1>22 DEF Exit, Ledger
<1>23. ASSUME NEW c \in Co, Hold(c) PROVE Ledger'
  <2>1. Becomes(c, "run", th[c].session, th[c].req, th[c].in + 1)
    BY <1>23, BecomesElse
  <2> QED
    BY <1>1, <1>23, <2>1 DEF Hold, Becomes
<1>24. ASSUME NEW c \in Co, Leave(c) PROVE Ledger'
  <2>1. Becomes(c, th[c].st, th[c].session, th[c].req, th[c].in - 1)
    BY <1>24, BecomesElse
  <2> QED
    BY <1>1, <1>24, <2>1 DEF Leave, Becomes
<1>25. ASSUME exited PROVE Ledger'
  BY <1>25, ExitStays DEF Ledger
<1> QED
  BY <1>3, <1>4, <1>5, <1>6, <1>7, <1>8, <1>9, <1>10, <1>12, <1>13, <1>14, <1>15, <1>17, <1>18,
     <1>19, <1>20, <1>21, <1>22, <1>23, <1>24, <1>25
     DEF Next, Message, Scheduler, Step, Enter, EnterNow

-----------------------------------------------------------------------------
(* The theorems *)

LEMMA Initially ==
  ASSUME Init
  PROVE  IInv
<1> USE DEF Init
<1>1. lim.session \in Nat /\ lim.req \in Nat
  BY LimitsAssumption
<1>2. TypeOK
  <2>1. th \in [Co -> ThreadType]
    BY <1>1 DEF Free, ThreadType, St
  <2>2. cs \in QueueType
    BY EmptySeq DEF QueueType
  <2>3. /\ wakeup_queue \in Seq(Co) /\ error_queue \in Seq(Session) /\ fork_queue \in Seq(Co \cup {None})
        /\ source \in Seq(Peer) /\ Len(source) <= lim.req
    BY <1>1, EmptySeq
  <2>4. answers \in [Request -> Nat] /\ sleep_session \in [Co -> 0..lim.session]
    BY <1>1
  <2>5. session_id_coroutine \in [Session -> Co \cup {None, Break}] /\ watching_session \in [Session -> Peer \cup {None}]
    OBVIOUS
  <2>6. pc \in [at : {"idle", "run", "wake", "err", "forks"}, co : Co \cup {None}]
    BY DEF At
  <2>7. frames \in Nat /\ last \in 0..lim.session /\ calls \subseteq 1..last /\ timers \subseteq 1..last
    BY <1>1
  <2>8. lim \in Limits /\ unresponse \subseteq Request /\ void \subseteq Request /\ exited \in BOOLEAN
    OBVIOUS
  <2> HIDE DEF Init
  <2> QED
    BY <2>1, <2>2, <2>3, <2>4, <2>5, <2>6, <2>7, <2>8 DEF TypeOK
<1>3. \A c \in Co : th[c].st = "free" /\ th[c].session = 0 /\ th[c].req = 0 /\ th[c].in = 0
  BY DEF Free
<1>4. Stage
  BY <1>3, EmptyQueue, ProgramCounter DEF Stage, Waiting, Asleep
<1>5. \A s \in Session : ~Called(s) /\ session_id_coroutine[s] = None
  BY EmptyQueue DEF Called
<1>6. Sessions
  BY <1>3, <1>5, NoneAssumption DEF Sessions, AnswersFindCallers, Waiting
<1>7. Watched
  BY EmptyQueue DEF Watched
<1>8. Tokens
  BY EmptyQueue DEF Tokens
<1>9. Drained
  BY ProgramCounter DEF Drained
<1>10. Handed
  <2>1. cs.current_thread = None /\ cs.ref = 0 /\ cs.thread_queue = <<>>
    OBVIOUS
  <2>2. \A c \in Co : ~Chosen(c)
    BY <2>1, NoneAssumption DEF Chosen
  <2> QED
    BY <1>3, <2>1, <2>2, EmptyQueue DEF Handed
<1>10a. Arrived
  BY DEF Arrived
<1>11. Ledger
  <2>1. Len(source) = 0
    BY EmptySeq
  <2> QED
    BY <1>3, <2>1 DEF Ledger
<1> QED
  BY <1>2, <1>4, <1>6, <1>7, <1>8, <1>9, <1>10, <1>10a, <1>11 DEF IInv

LEMMA Stutters ==
  ASSUME IInv, UNCHANGED vars
  PROVE  IInv'
<1> USE DEF vars, tables, queues, env, due
<1>0. (Session' = Session) /\ (Request' = Request) /\ (ThreadType' = ThreadType)
  BY DEF Session, Request, ThreadType
<1>1. TypeOK'
  BY <1>0 DEF IInv, TypeOK
<1>2. Stage'
  BY DEF IInv, Stage
<1>3. Sessions'
  <2>1. \A s \in Session : Called(s)' => Called(s)
    BY DEF Called
  <2> QED
    BY <1>0, <2>1, SessionsKept DEF IInv
<1>4. Watched' /\ Tokens' /\ Drained'
  BY <1>0 DEF IInv, Watched, Tokens, Drained
<1>5. Handed' /\ Arrived'
  BY HandedKept, ArrivedKept DEF IInv
<1>6. Ledger'
  BY <1>0, LedgerKept DEF IInv
<1> QED
  BY <1>1, <1>2, <1>3, <1>4, <1>5, <1>6 DEF IInv

\* The invariant is inductive.
LEMMA Inductive == Spec => []IInv
<1>1. Init => IInv
  BY Initially
<1>2. IInv /\ [Next]_vars => IInv'
  <2>1. ASSUME IInv, Next PROVE IInv'
    BY <2>1, TypeStep, StageStep, SessionsStep, WatchedStep, TokensStep, DrainedStep, HandedStep, ArrivedStep, LedgerStep
       DEF IInv
  <2> QED
    BY <2>1, Stutters
<1> QED
  BY <1>1, <1>2, PTL DEF Spec

\* An answer, a token or an error resumes the coroutine that waits for it and no
\* other, for any number of coroutines, sessions and peers: raw_dispatch_message,
\* dispatch_wakeup and dispatch_error_queue never disagree about a session.
THEOREM CallersFound == Spec => []AnswersFindCallers
<1>1. IInv => AnswersFindCallers
  BY DEF IInv, Sessions
<1> QED
  BY <1>1, Inductive, PTL

\* suspend and dispatch_message leave nobody behind who was woken, forked or told
\* of an error, whatever failed on the way.
THEOREM EverybodyRan == Spec => []NobodyLeft
<1>1. IInv => NobodyLeft
  BY ProgramCounter DEF IInv, Drained, NobodyLeft
<1> QED
  BY <1>1, Inductive, PTL

\* The assertion of queue.lua holds until skynet.exit: who is woken to enter the
\* queue has it for himself, and the queue is handed on in the order of arrival.
THEOREM QueueHandedOver == Spec => []QueueHandsOver
<1>1. ASSUME IInv, ~exited, NEW c \in Co, th[c].st = "enter"
      PROVE  cs.ref = 0 /\ cs.current_thread = c /\ \A d \in Co : th[d].in = 0
  <2>1. cs.ref = 0 /\ cs.current_thread = c
    BY <1>1 DEF IInv, Handed, Chosen
  <2>2. \A d \in Co : th[d].in = 0
    BY <1>1, <2>1 DEF IInv, Handed
  <2> QED
    BY <2>1, <2>2
<1>2. ASSUME IInv, ~exited, NEW c \in Co, th[c].st = "queue", cs.current_thread = c,
             NEW d \in ToSet(cs.thread_queue)
      PROVE  th[c].session < th[d].session
  <2>1. PICK i \in DOMAIN cs.thread_queue : cs.thread_queue[i] = d
    BY DEF ToSet
  <2> QED
    BY <1>2, <2>1 DEF IInv, Arrived
<1>3. IInv => QueueHandsOver
  BY <1>1, <1>2 DEF QueueHandsOver
<1> QED
  BY <1>3, Inductive, PTL

\* Between two messages a skynet.queue is with a coroutine inside it, or free
\* with nobody waiting.
THEOREM QueueNotStuck == Spec => []QueueMovesOn
<1>1. ASSUME IInv, pc = At("idle"), ~exited
      PROVE  IF cs.current_thread = None THEN cs.thread_queue = <<>> ELSE th[cs.current_thread].in > 0
  <2>1. CASE cs.current_thread = None
    BY <1>1, <2>1 DEF IInv, Handed
  <2>2. CASE cs.current_thread # None
    <3>1. PICK c \in Co : c = cs.current_thread
      BY <1>1, <2>2 DEF IInv, TypeOK, QueueType
    <3>2. ~Member(wakeup_queue, c) /\ th[c].st # "enter"
      BY <1>1, EmptyQueue, ProgramCounter DEF IInv, Drained, Stage
    <3>3. ~Chosen(c)
      BY <1>1, <3>2 DEF IInv, Handed
    <3>4. th[c].in = cs.ref /\ th[c].in # 0 /\ th[c].in \in Nat
      BY <1>1, <3>1, <3>3 DEF IInv, Handed, Chosen, TypeOK, ThreadType
    <3> QED
      BY <3>1, <3>4, <2>2
  <2> QED
    BY <2>1, <2>2
<1>2. IInv => QueueMovesOn
  BY <1>1 DEF QueueMovesOn
<1> QED
  BY <1>2, Inductive, PTL

\* Who owes what adds up, until skynet.exit.
Balanced == ~exited => \A r \in DOMAIN source : answers[r] + Owed(r) = 1

LEMMA Balance == IInv => Balanced
<1> SUFFICES ASSUME IInv, ~exited, NEW r \in DOMAIN source PROVE answers[r] + Owed(r) = 1
  BY DEF Balanced
<1>1. r \in 1..Len(source)
  BY LenProperties DEF IInv, TypeOK
<1>2. {c \in Co : th[c].req = r /\ ~exited} = Holder(r)
  BY DEF Holder
<1>3. PICK k : k = Cardinality(Holder(r))
  OBVIOUS
<1>4. PICK m : m = Cardinality({r} \cap (unresponse \cup void))
  OBVIOUS
<1>5. Owed(r) = k + m
  BY <1>2, <1>3, <1>4 DEF Owed
<1>6. Cardinality({}) = 0 /\ Cardinality({r}) = 1 /\ \A c \in Co : Cardinality({c}) = 1
  BY FS_EmptySet, FS_Singleton
<1>7. Holder(r) = {} => k = 0
  BY <1>3, <1>6
<1>8. (\E c \in Co : Holder(r) = {c}) => k = 1
  BY <1>3, <1>6
<1>9. r \notin unresponse /\ r \notin void => m = 0
  <2>1. r \notin unresponse /\ r \notin void => {r} \cap (unresponse \cup void) = {}
    OBVIOUS
  <2> QED
    BY <1>4, <1>6, <2>1
<1>10. r \in unresponse \/ r \in void => m = 1
  <2>1. r \in unresponse \/ r \in void => {r} \cap (unresponse \cup void) = {r}
    OBVIOUS
  <2> QED
    BY <1>4, <1>6, <2>1
<1>11. Answered(r) \/ Held(r) \/ Taken(r) \/ Forgotten(r)
  BY <1>1 DEF IInv, Ledger
<1> QED
  BY <1>5, <1>7, <1>8, <1>9, <1>10, <1>11 DEF Answered, Held, Taken, Forgotten

\* skynet.exit answers what is left.
LEMMA ExitSettles ==
  ASSUME IInv, ~exited, NEW c \in Co, Exit(c), NEW r \in DOMAIN source'
  PROVE  answers'[r] + Owed(r)' = 1
<1>1. source' = source /\ void' = void /\ unresponse' = {} /\ exited'
  BY DEF Exit, env
<1>2. r \in 1..Len(source) /\ r \in Request /\ r # 0
  <2>1. r \in 1..Len(source) /\ Len(source) \in Nat
    BY <1>1, LenProperties DEF IInv, TypeOK
  <2> QED
    BY <2>1, LimitsAssumption DEF IInv, TypeOK, Request
<1>3. Owed(r)' = Cardinality({}) + Cardinality({r} \cap void)
  <2>1. {d \in Co : th'[d].req = r /\ ~exited'} = {} /\ {r} \cap (unresponse' \cup void') = {r} \cap void
    BY <1>1
  <2> QED
    BY <2>1 DEF Owed
<1>4. Cardinality({}) = 0 /\ Cardinality({r}) = 1
  BY FS_EmptySet, FS_Singleton
<1>5. answers'[r] = answers[r] + (IF r \in Open \cup unresponse THEN 1 ELSE 0)
  BY <1>2 DEF Exit
<1>6. r \in Open <=> Holder(r) # {}
  BY <1>2 DEF Open, Holder
<1>7. Answered(r) \/ Held(r) \/ Taken(r) \/ Forgotten(r)
  BY <1>2 DEF IInv, Ledger
<1>8. CASE Forgotten(r)
  <2>1. {r} \cap void = {r} /\ r \notin Open \cup unresponse /\ answers[r] = 0
    BY <1>6, <1>8 DEF Forgotten
  <2> QED
    BY <1>3, <1>4, <1>5, <2>1
<1>9. CASE ~Forgotten(r)
  <2>1. {r} \cap void = {}
    BY <1>7, <1>9 DEF Answered, Held, Taken
  <2>2. answers[r] = IF r \in Open \cup unresponse THEN 0 ELSE 1
    BY <1>6, <1>7, <1>9 DEF Answered, Held, Taken
  <2> QED
    BY <1>3, <1>4, <1>5, <2>1, <2>2
<1> QED
  BY <1>8, <1>9

\* Every request is answered once, by its coroutine, its response function, the
\* error of the coroutine or skynet.exit, or one of them still owes the answer.
THEOREM RequestsAnsweredOnce == Spec => AnsweredOnce
<1> DEFINE P == ~exited => \A r \in DOMAIN source' : answers'[r] + Owed(r)' = 1
<1>1. IInv /\ Balanced' /\ [Next]_vars => [P]_vars
  <2> SUFFICES ASSUME IInv, Balanced', Next, ~exited, NEW r \in DOMAIN source'
               PROVE  answers'[r] + Owed(r)' = 1
    OBVIOUS
  <2>1. CASE ~exited'
    BY <2>1 DEF Balanced
  <2>2. CASE exited'
    <3>1. PICK c \in Co : Exit(c)
      BY <2>2 DEF due, Next, Message, Scheduler, Step, SourceDown, Receive, Response, ErrorDispatch,
         DispatchWakeup, NoWakeup, DispatchErrorQueue, DispatchErrorStale, NoError, DispatchFork, Done, Call,
         Sleep, Wait, Wakeup, Fork, Ret, TakeResponse, Respond, End, Die, Enter, EnterLater, EnterNow, Leave, Hold
    <3> QED
      BY <3>1, ExitSettles
  <2> QED
    BY <2>1, <2>2
<1> QED
  BY <1>1, Inductive, Balance, PTL DEF Spec, AnsweredOnce

=============================================================================
