------------------------ MODULE SkynetDispatchProofs ------------------------
(***************************************************************************)
(* Who owns a queue and who may use a context, for any number of threads   *)
(* and services: the inductive invariant of the dispatcher, the safety     *)
(* properties that follow from it, and the refinement of ActorSystem.      *)
(***************************************************************************)
EXTENDS SkynetDispatch, FiniteSetTheorems, FunctionTheorems, TLAPS

\* How the layers of a thread's stack fit together.
ShapeOf(t) ==
    /\ pc[t] = "idle" <=> q[t] = None
    /\ pc[t] = "pushback" <=> nq[t] # None
    /\ pc[t] = "length" => Weight[t] >= 0
    /\ t \notin Worker => pc[t] = "idle"
    /\ launch[t] = "none" <=> new[t] = None
    /\ launch[t] # "none" => pc[t] = "call"
    /\ launch[t] = "n_rel" => op[t] = "rel" /\ to[t] = new[t]
    /\ launch[t] = "create" => op[t] = "none"
    /\ op[t] = "none" <=> to[t] = None
    /\ kill[t] # None => pc[t] = "call" /\ launch[t] \in {"none", "init"}
Shape == \A t \in Thread : ShapeOf(t)

\* The references to the context of h: the handle storage's, one per dispatch
\* loop, one per launch, one per push or release in progress, and the one that
\* skynet_context_reserve has taken.
Token == ({"loop", "new", "op"} \X Thread) \cup ({"slot", "remote"} \X {None})
Refers(k, t, h) ==
    \/ k = "slot" /\ slot[h]
    \/ k = "remote" /\ remote = h
    \/ k = "loop" /\ pc[t] \in InLoop /\ q[t] = h
    \/ k = "new"  /\ launch[t] \in {"create", "init", "reserve"} /\ new[t] = h
    \/ k = "op"   /\ op[t] \in {"push", "rel"} /\ to[t] = h
Holders(h) == {x \in Token : Refers(x[1], x[2], h)}

RefCount == \A h \in Handle : ref[h] = Cardinality(Holders(h))

\* A referenced context is alive, and its queue is not to be dropped.
RefsLive == \A h \in Handle : ref[h] > 0 => ctx[h] = "live" /\ ~release[h]

\* A queue lives longer than its context's last reference.
QueueLife ==
    /\ \A h \in Handle : ctx[h] = "unborn" => queue[h] = "unborn"
    /\ \A h \in Handle : queue[h] = "unborn" => ~inGlobal[h] /\ ~release[h] /\ mq[h] = <<>>
    /\ \A h \in Handle : queue[h] = "freed" => release[h]

\* Only a service whose launch is about to create it has no queue.
Launching ==
    /\ \A h \in Handle : queue[h] = "unborn" /\ ctx[h] # "unborn" =>
          \E t \in Thread : launch[t] = "create" /\ new[t] = h
    /\ \A t \in Thread : launch[t] = "create" => queue[new[t]] = "unborn"
    /\ \A t \in Thread : launch[t] # "none" => ctx[new[t]] # "unborn"
    /\ \A t, u \in Thread : new[t] # None /\ new[t] = new[u] => t = u

\* Messages come from, and go to, services that have a queue.
KnownQueue(h) == h # None => queue[h] # "unborn"
Known ==
    /\ \A t \in Thread : op[t] \in {"grab", "push"} => KnownQueue(to[t])
    /\ \A t \in Thread : op[t] \in {"grab", "push"} => KnownQueue(msg[t].src)
    /\ \A h \in Handle : \A i \in DOMAIN mq[h] : KnownQueue(mq[h][i].src)
    /\ KnownQueue(MonitorExit)
    /\ KnownQueue(remote)

\* The thread that dropped the last reference deletes the context alone.
Deleting ==
    /\ \A t \in Thread : op[t] \in {"mark", "free"} =>
          ref[to[t]] = 0 /\ ctx[to[t]] = "live" /\ (release[to[t]] <=> op[t] = "free")
    /\ \A t, u \in Thread :
          op[t] \in {"mark", "free"} /\ op[u] \in {"mark", "free"} /\ to[t] = to[u] => t = u

\* A queue is owned exactly while in_global or release is set.
InGq(h) == \E i \in DOMAIN gq : gq[i] = h
Owned(h) == InGq(h) \/ \E t \in Thread : Holds(t, h)
Ownership ==
    /\ OneOwner
    /\ \A h \in Handle : Owned(h) <=> queue[h] = "live" /\ (inGlobal[h] \/ release[h])
    /\ \A h \in Handle : ~inGlobal[h] /\ ~release[h] => mq[h] = <<>>
    /\ \A t \in Thread : pc[t] = "drop" => release[q[t]]
    /\ \A t \in Thread : launch[t] = "f_drop" => release[new[t]]

\* A registered service that is not initialised is in its launcher's hands, and
\* not in those of a worker that handles its messages.
Initialised ==
    /\ \A h \in Handle : queue[h] = "live" /\ slot[h] /\ ~init[h] =>
          \E t \in Thread : launch[t] \in {"init", "reserve", "n_rel", "n_init", "f_retire"} /\ new[t] = h
    /\ \A t \in Thread : pc[t] \in InLoop => init[q[t]]

\* The service that is inside skynet_context_reserve is the one it reserves.
Reserving == \A t \in Thread : launch[t] = "reserve" => new[t] = remote

\* The contexts that context_inc has counted and context_dec has not: not the
\* reserved one, once skynet_context_reserve has come to its context_dec.
Reserved(h) == h = remote /\ \A t \in Thread : launch[t] # "reserve"
Present == {h \in Handle : ctx[h] = "live" /\ queue[h] # "unborn" /\ ~Reserved(h)}
Counted == IsFiniteSet(Present) /\ total = Cardinality(Present)

IInv == /\ TypeOK /\ Shape /\ RefCount /\ RefsLive /\ QueueLife /\ Launching /\ Known
        /\ Deleting /\ Ownership /\ Initialised /\ Reserving /\ Counted

-----------------------------------------------------------------------------
(* Types *)

\* What the layers have in hand is a handle wherever they use it.
LEMMA InHand ==
  ASSUME TypeOK, Shape, NEW t \in Thread
  PROVE  /\ pc[t] # "idle" => q[t] \in Handle
         /\ pc[t] = "pushback" => nq[t] \in Handle
         /\ launch[t] # "none" => new[t] \in Handle
         /\ op[t] # "none" => to[t] \in Handle
         /\ kill[t] # None => kill[t] \in Handle
         /\ pc[t] # "idle" => t \in Worker
BY DEF TypeOK, LoopType, LaunchType, OpType, Shape, ShapeOf, Source

LEMMA MessageType ==
  /\ NoMsg \in Message
  /\ \A m \in Message : m.src \in Source
  /\ \A m \in Message, h \in Source : [id |-> m.id, src |-> h, err |-> TRUE] \in Message
  /\ \A n \in Nat, h \in Source : n < MaxSend => [id |-> n + 1, src |-> h, err |-> FALSE] \in Message
BY MaxSendAssumption DEF NoMsg, Message, Source

LEMMA CtxTypeNext ==
  ASSUME TypeOK, Shape, NEW t \in Thread, ThreadStep(t) \/ ServiceChoice(t)
  PROVE  CtxType'
<1>1. CASE UNCHANGED ctxVars
  BY <1>1 DEF TypeOK, CtxType, ctxVars
<1>2. CASE PushGrab(t)
  BY <1>2, InHand DEF TypeOK, PushGrab, CtxType, Life
<1>3. CASE Release(t)
  BY <1>3, InHand DEF TypeOK, Release, CtxType, Life
<1>4. CASE FreeCtx(t)
  BY <1>4, InHand DEF TypeOK, FreeCtx, Done, CtxType, Life
<1>5. CASE Retire(t)
  BY <1>5, InHand DEF TypeOK, Retire, RetireHandle, CallRelease, CtxType, Life
<1>6. CASE FailRetire(t)
  BY <1>6, InHand DEF TypeOK, FailRetire, RetireHandle, CallRelease, AtLaunch, CtxType, Life
<1>7. CASE MqCreate(t)
  BY <1>7, InHand DEF TypeOK, MqCreate, AtLaunch, CtxType, Life
<1>8. CASE SetInit(t)
  BY <1>8, InHand DEF TypeOK, SetInit, AtLaunch, CtxType, Life
<1>9. CASE GrabCtx(t)
  BY <1>9, InHand DEF TypeOK, GrabCtx, AtLoop, CtxType, Life
<1>10. ASSUME NEW h \in Handle, Register(t, h) PROVE CtxType'
  BY <1>10, InHand DEF TypeOK, Register, AtLoop, CtxType, Life
<1>11. CASE Reserve(t)
  BY <1>11, InHand DEF TypeOK, Reserve, AtLaunch, CtxType, Source, Life
<1>12. CASE ReserveDec(t)
  BY <1>12, InHand DEF TypeOK, ReserveDec, AtLaunch, CtxType, Life
<1>. QED
  BY <1>1, <1>2, <1>3, <1>4, <1>5, <1>6, <1>7, <1>8, <1>9, <1>10, <1>11, <1>12
  DEF ThreadStep, ServiceChoice, MqPush, MqMarkRelease, InitDone, PushNew,
     LogLaunch, ReturnLaunch, FailMqRelease, FailDropMessage, FailDropQueue, PopGlobal, MqRelease,
     DropMessage, DropQueue, MqPop, MqPopEmpty, MqLength, CallbackReturn,
     NextQueue, KeepQueue, PushBack, Send, Post, HandleExit, Abort, CallPush,
     CallRelease, DropEnd, DropOne

LEMMA MqTypeNext ==
  ASSUME TypeOK, Shape, NEW t \in Thread, ThreadStep(t) \/ ServiceChoice(t)
  PROVE  MqType'
<1>1. CASE UNCHANGED mqVars
  BY <1>1 DEF TypeOK, MqType, mqVars
<1>2. CASE MqPush(t)
  BY <1>2, InHand DEF TypeOK, OpType, MqPush, MqType, Life
<1>3. CASE MqMarkRelease(t)
  BY <1>3, InHand DEF TypeOK, MqMarkRelease, MqType, Life
<1>4. CASE MqCreate(t)
  BY <1>4, InHand DEF TypeOK, MqCreate, AtLaunch, MqType, Life
<1>5. CASE PushNew(t)
  BY <1>5, InHand DEF TypeOK, PushNew, AtLaunch, MqType, Life
<1>6. CASE FailMqRelease(t)
  BY <1>6, InHand DEF TypeOK, FailMqRelease, AtLaunch, MqType, Life
<1>7. CASE FailDropMessage(t)
  BY <1>7, InHand DEF TypeOK, FailDropMessage, DropOne, CallPush, AtLaunch, MqType, Life
<1>8. CASE FailDropQueue(t)
  BY <1>8, InHand DEF TypeOK, FailDropQueue, DropEnd, AtLaunch, MqType, Life
<1>9. CASE PopGlobal(t)
  BY <1>9, InHand DEF TypeOK, PopGlobal, AtLoop, MqType, Life
<1>10. CASE MqRelease(t)
  BY <1>10, InHand DEF TypeOK, MqRelease, AtLoop, MqType, Life
<1>11. CASE DropMessage(t)
  BY <1>11, InHand DEF TypeOK, DropMessage, DropOne, CallPush, AtLoop, MqType, Life
<1>12. CASE DropQueue(t)
  BY <1>12, InHand DEF TypeOK, DropQueue, DropEnd, AtLoop, MqType, Life
<1>13. CASE MqPop(t)
  BY <1>13, InHand DEF TypeOK, MqPop, AtLoop, MqType, Life
<1>14. CASE MqPopEmpty(t)
  BY <1>14, InHand DEF TypeOK, MqPopEmpty, CallRelease, AtLoop, MqType, Life
<1>15. CASE NextQueue(t)
  BY <1>15, InHand DEF TypeOK, NextQueue, AtLoop, MqType, Life
<1>16. CASE PushBack(t)
  BY <1>16, InHand DEF TypeOK, PushBack, CallRelease, AtLoop, MqType, Life
<1>. QED
  BY <1>1, <1>2, <1>3, <1>4, <1>5, <1>6, <1>7, <1>8, <1>9, <1>10, <1>11, <1>12,
     <1>13, <1>14, <1>15, <1>16
  DEF ThreadStep, ServiceChoice, PushGrab, Release, FreeCtx, Retire, InitDone,
     Reserve, ReserveDec, LogLaunch, ReturnLaunch, SetInit, FailRetire, GrabCtx, MqLength, CallbackReturn, KeepQueue, Send,
     Post, HandleExit, Abort, Register, CallPush, CallRelease, Done,
     RetireHandle

LEMMA LoopTypeNext ==
  ASSUME TypeOK, Shape, NEW t \in Thread, ThreadStep(t) \/ ServiceChoice(t)
  PROVE  LoopType'
<1>1. CASE UNCHANGED loopVars
  BY <1>1 DEF TypeOK, LoopType, loopVars
<1>2. CASE PopGlobal(t)
  BY <1>2, InHand, NoneApart DEF TypeOK, LoopType, MqType, LoopPoint, Source, PopGlobal, AtLoop
<1>3. CASE GrabCtx(t)
  BY <1>3, InHand, NoneApart DEF TypeOK, LoopType, LoopPoint, Source, GrabCtx, AtLoop
<1>4. CASE MqRelease(t)
  BY <1>4, InHand, NoneApart DEF TypeOK, LoopType, LoopPoint, Source, MqRelease, AtLoop
<1>5. CASE DropQueue(t)
  BY <1>5, InHand, NoneApart DEF TypeOK, LoopType, LoopPoint, Source, DropQueue, DropEnd, AtLoop
<1>6. CASE MqPop(t)
  <2>1. cur' \in [Thread -> Message]
    BY <1>6, InHand DEF MqPop, AtLoop, TypeOK, LoopType, MqType
  <2>2. pc' \in [Thread -> LoopPoint]
    BY <1>6 DEF MqPop, TypeOK, LoopType, LoopPoint
  <2>3. left' \in [Thread -> Nat]
    BY <1>6 DEF MqPop, TypeOK, LoopType
  <2>. QED  BY <1>6, <2>1, <2>2, <2>3 DEF MqPop, TypeOK, LoopType
<1>7. CASE MqPopEmpty(t)
  BY <1>7, InHand, NoneApart DEF TypeOK, LoopType, LoopPoint, Source, MqPopEmpty, CallRelease, AtLoop
<1>8. CASE MqLength(t)
  <2>. DEFINE n == Len(mq[q[t]]) \div Pow2[Weight[t]]
  <2>1. mq[q[t]] \in Seq(Message) /\ t \in Worker
    BY <1>8, InHand DEF MqLength, AtLoop, TypeOK, MqType
  <2>2. n \in Int
    <3>1. Weight[t] \in 0..3
      BY <1>8, <2>1, WeightAssumption DEF MqLength, AtLoop, Shape, ShapeOf
    <3>2. Pow2[Weight[t]] \in {1, 2, 4, 8}
      BY <3>1 DEF Pow2
    <3>. QED  BY <2>1, <3>2
  <2>3. left' \in [Thread -> Nat]
    BY <1>8, <2>2 DEF MqLength, TypeOK, LoopType
  <2>. QED  BY <1>8, <2>3 DEF MqLength, TypeOK, LoopType, LoopPoint
<1>9. CASE CallbackReturn(t)
  BY <1>9, InHand, MessageType, NoneApart DEF TypeOK, LoopType, LoopPoint, Source, CallbackReturn, AtLoop
<1>10. CASE NextQueue(t)
  BY <1>10, InHand, NoneApart DEF TypeOK, LoopType, MqType, LoopPoint, Source, NextQueue, AtLoop
<1>11. CASE KeepQueue(t)
  BY <1>11, InHand, NoneApart DEF TypeOK, LoopType, LoopPoint, Source, KeepQueue, CallRelease, AtLoop
<1>12. CASE PushBack(t)
  BY <1>12, InHand, NoneApart DEF TypeOK, LoopType, LoopPoint, Source, PushBack, CallRelease, AtLoop
<1>. QED
  BY <1>1, <1>2, <1>3, <1>4, <1>5, <1>6, <1>7, <1>8, <1>9, <1>10, <1>11, <1>12
  DEF ThreadStep, ServiceChoice, PushGrab, MqPush, Release, MqMarkRelease,
     FreeCtx, Retire, MqCreate, Reserve, ReserveDec, InitDone, SetInit, PushNew,
     LogLaunch, ReturnLaunch, FailRetire,
     FailMqRelease, FailDropMessage, FailDropQueue, DropMessage, Send, Post,
     HandleExit, Abort, Register, CallPush, CallRelease, Done, DropEnd,
     DropOne, RetireHandle

LEMMA LaunchTypeNext ==
  ASSUME TypeOK, Shape, NEW t \in Thread, ThreadStep(t) \/ ServiceChoice(t)
  PROVE  LaunchType'
<1>1. CASE UNCHANGED launchVars
  BY <1>1 DEF TypeOK, LaunchType, launchVars
<1>2. CASE Release(t)
  BY <1>2 DEF TypeOK, LaunchType, LaunchPoint, Source, Release
<1>3. CASE MqCreate(t)
  BY <1>3 DEF TypeOK, LaunchType, LaunchPoint, Source, MqCreate, AtLaunch
<1>4. CASE InitDone(t)
  BY <1>4 DEF TypeOK, LaunchType, LaunchPoint, Source, InitDone, CallRelease, AtLaunch
<1>5. CASE SetInit(t)
  BY <1>5 DEF TypeOK, LaunchType, LaunchPoint, Source, SetInit, AtLaunch
<1>6. CASE PushNew(t)
  BY <1>6 DEF TypeOK, LaunchType, LaunchPoint, Source, PushNew, AtLaunch
<1>7. CASE FailRetire(t)
  BY <1>7 DEF TypeOK, LaunchType, LaunchPoint, Source, FailRetire, RetireHandle, CallRelease, AtLaunch
<1>8. CASE FailMqRelease(t)
  BY <1>8 DEF TypeOK, LaunchType, LaunchPoint, Source, FailMqRelease, AtLaunch
<1>9. CASE FailDropQueue(t)
  BY <1>9 DEF TypeOK, LaunchType, LaunchPoint, Source, FailDropQueue, DropEnd, AtLaunch
<1>10. ASSUME NEW h \in Handle, Register(t, h) PROVE LaunchType'
  BY <1>10 DEF TypeOK, LaunchType, LaunchPoint, Source, Register, AtLoop
<1>11. CASE Reserve(t)
  BY <1>11 DEF TypeOK, LaunchType, LaunchPoint, Source, Reserve, AtLaunch
<1>12. CASE ReserveDec(t)
  BY <1>12 DEF TypeOK, LaunchType, LaunchPoint, Source, ReserveDec, AtLaunch
<1>13. CASE LogLaunch(t)
  BY <1>13 DEF TypeOK, LaunchType, LaunchPoint, Source, LogLaunch, AtLaunch
<1>14. CASE ReturnLaunch(t)
  BY <1>14 DEF TypeOK, LaunchType, LaunchPoint, Source, ReturnLaunch, AtLaunch
<1>. QED
  BY <1>1, <1>2, <1>3, <1>4, <1>5, <1>6, <1>7, <1>8, <1>9, <1>10, <1>11, <1>12,
     <1>13, <1>14
  DEF ThreadStep, ServiceChoice, PushGrab, MqPush, MqMarkRelease, FreeCtx,
     Retire, FailDropMessage, PopGlobal, GrabCtx, MqRelease, DropMessage,
     DropQueue, MqPop, MqPopEmpty, MqLength, CallbackReturn, NextQueue,
     KeepQueue, PushBack, Send, Post, HandleExit, Abort, CallPush, CallRelease,
     Done, DropEnd, DropOne, RetireHandle

LEMMA OpTypeNext ==
  ASSUME TypeOK, Shape, NEW t \in Thread, ThreadStep(t) \/ ServiceChoice(t)
  PROVE  OpType'
<1>1. CASE UNCHANGED opVars
  BY <1>1 DEF TypeOK, OpType, opVars
<1>2. CASE PushGrab(t)
  BY <1>2, InHand, MessageType DEF TypeOK, OpType, OpPoint, Source, PushGrab
<1>3. CASE MqPush(t)
  BY <1>3, InHand, MessageType DEF TypeOK, OpType, OpPoint, Source, MqPush
<1>4. CASE Release(t)
  BY <1>4, InHand, MessageType DEF TypeOK, OpType, OpPoint, Source, Release
<1>5. CASE MqMarkRelease(t)
  BY <1>5, InHand, MessageType DEF TypeOK, OpType, OpPoint, Source, MqMarkRelease
<1>6. CASE FreeCtx(t)
  BY <1>6, InHand, MessageType DEF TypeOK, OpType, OpPoint, Source, FreeCtx, Done
<1>7. CASE Retire(t)
  BY <1>7, InHand, MessageType DEF TypeOK, OpType, OpPoint, Source, Retire, RetireHandle, CallRelease
<1>8. CASE InitDone(t)
  BY <1>8, InHand, MessageType DEF TypeOK, OpType, OpPoint, Source, InitDone, CallRelease, AtLaunch
<1>9. CASE FailRetire(t)
  BY <1>9, InHand, MessageType DEF TypeOK, OpType, OpPoint, Source, FailRetire, RetireHandle, CallRelease, AtLaunch
<1>10. CASE FailDropMessage(t)
  <2>. DEFINE h == new[t]
             m == Head(mq[h])
  <2>1. h \in Handle /\ m \in Message
    BY <1>10, InHand DEF FailDropMessage, DropOne, AtLaunch, TypeOK, MqType
  <2>2. CASE m.src = None
    BY <1>10, <2>2 DEF FailDropMessage, DropOne, TypeOK, OpType
  <2>3. CASE m.src # None
    <3>1. m.src \in Source /\ [id |-> m.id, src |-> h, err |-> TRUE] \in Message
      BY <2>1, MessageType DEF Source
    <3>. QED  BY <1>10, <2>3, <3>1 DEF FailDropMessage, DropOne, CallPush, TypeOK, OpType, OpPoint
  <2>. QED  BY <2>2, <2>3
<1>11. CASE DropMessage(t)
  <2>. DEFINE h == q[t]
             m == Head(mq[h])
  <2>1. h \in Handle /\ m \in Message
    BY <1>11, InHand DEF DropMessage, DropOne, AtLoop, TypeOK, MqType
  <2>2. CASE m.src = None
    BY <1>11, <2>2 DEF DropMessage, DropOne, TypeOK, OpType
  <2>3. CASE m.src # None
    <3>1. m.src \in Source /\ [id |-> m.id, src |-> h, err |-> TRUE] \in Message
      BY <2>1, MessageType DEF Source
    <3>. QED  BY <1>11, <2>3, <3>1 DEF DropMessage, DropOne, CallPush, TypeOK, OpType, OpPoint
  <2>. QED  BY <2>2, <2>3
<1>12. CASE MqPopEmpty(t)
  BY <1>12, InHand, MessageType DEF TypeOK, OpType, OpPoint, Source, MqPopEmpty, CallRelease, AtLoop
<1>13. CASE KeepQueue(t)
  BY <1>13, InHand, MessageType DEF TypeOK, OpType, OpPoint, Source, KeepQueue, CallRelease, AtLoop
<1>14. CASE PushBack(t)
  BY <1>14, InHand, MessageType DEF TypeOK, OpType, OpPoint, Source, PushBack, CallRelease, AtLoop
<1>15. ASSUME NEW h \in Handle, Send(t, h) PROVE OpType'
  <2>1. Self(t) \in Source
    BY <1>15, InHand DEF Send, InService, AtLoop, AtLaunch, Self, Source
  <2>2. [id |-> sent + 1, src |-> Self(t), err |-> FALSE] \in Message
    BY <1>15, <2>1, MessageType DEF Send, TypeOK, OpType
  <2>. QED  BY <1>15, <2>2 DEF Send, CallPush, TypeOK, OpType, OpPoint, Source
<1>16. ASSUME NEW h \in Handle, Post(t, h) PROVE OpType'
  <2>1. [id |-> sent + 1, src |-> None, err |-> FALSE] \in Message
    BY <1>16, MessageType DEF Post, TypeOK, OpType, Source
  <2>. QED  BY <1>16, <2>1 DEF Post, CallPush, TypeOK, OpType, OpPoint, Source
<1>17. ASSUME NEW h \in Handle, HandleExit(t, h) PROVE OpType'
  <2>1. CASE MonitorExit = None
    BY <1>17, <2>1 DEF HandleExit, TypeOK, OpType, Source
  <2>2. CASE MonitorExit # None
    <3>1. MonitorExit \in Source
      BY MonitorAssumption, BootAssumption DEF Source
    <3>2. [id |-> sent + 1, src |-> h, err |-> FALSE] \in Message
      BY <1>17, <2>2, MessageType DEF HandleExit, TypeOK, OpType, Source
    <3>3. to' \in [Thread -> Source] /\ msg' \in [Thread -> Message]
      BY <1>17, <2>2, <3>1, <3>2 DEF HandleExit, CallPush, TypeOK, OpType
    <3>. QED  BY <1>17, <2>2, <3>3 DEF HandleExit, CallPush, TypeOK, OpType, OpPoint, Source
  <2>. QED  BY <2>1, <2>2
<1>18. ASSUME NEW h \in Handle, Abort(t, h) PROVE OpType'
  BY <1>18 DEF Abort, TypeOK, OpType, Source
<1>. QED
  BY <1>1, <1>2, <1>3, <1>4, <1>5, <1>6, <1>7, <1>8, <1>9, <1>10, <1>11, <1>12,
     <1>13, <1>14, <1>15, <1>16, <1>17, <1>18
  DEF ThreadStep, ServiceChoice, MqCreate, Reserve, ReserveDec, SetInit, PushNew, LogLaunch,
     ReturnLaunch, FailMqRelease, FailDropQueue, PopGlobal, GrabCtx, MqRelease, DropQueue, MqPop, MqLength,
     CallbackReturn, NextQueue, Register, DropEnd

-----------------------------------------------------------------------------
(* The stack of a thread *)

\* A step of one thread leaves the stacks of the others alone.
OthersLoop(t) == \A u \in Thread \ {t} :
    pc'[u] = pc[u] /\ q'[u] = q[u] /\ nq'[u] = nq[u] /\ cur'[u] = cur[u]
OthersLaunch(t) == \A u \in Thread \ {t} : launch'[u] = launch[u] /\ new'[u] = new[u]
OthersOp(t) == \A u \in Thread \ {t} :
    kill'[u] = kill[u] /\ op'[u] = op[u] /\ to'[u] = to[u] /\ msg'[u] = msg[u]

LEMMA OthersLoopNext ==
  ASSUME TypeOK, NEW t \in Thread, ThreadStep(t) \/ ServiceChoice(t)
  PROVE  OthersLoop(t)
<1>1. CASE UNCHANGED loopVars
  BY <1>1 DEF TypeOK, OthersLoop, loopVars
<1>2. CASE PopGlobal(t)
  BY <1>2 DEF TypeOK, OthersLoop, LoopType, PopGlobal, AtLoop
<1>3. CASE GrabCtx(t)
  BY <1>3 DEF TypeOK, OthersLoop, LoopType, GrabCtx, AtLoop
<1>4. CASE MqRelease(t)
  BY <1>4 DEF TypeOK, OthersLoop, LoopType, MqRelease, AtLoop
<1>5. CASE DropQueue(t)
  BY <1>5 DEF TypeOK, OthersLoop, LoopType, DropQueue, DropEnd, AtLoop
<1>6. CASE MqPop(t)
  BY <1>6 DEF TypeOK, OthersLoop, LoopType, MqPop, AtLoop
<1>7. CASE MqPopEmpty(t)
  BY <1>7 DEF TypeOK, OthersLoop, LoopType, MqPopEmpty, CallRelease, AtLoop
<1>8. CASE MqLength(t)
  BY <1>8 DEF TypeOK, OthersLoop, LoopType, MqLength, AtLoop
<1>9. CASE CallbackReturn(t)
  BY <1>9 DEF TypeOK, OthersLoop, LoopType, CallbackReturn, AtLoop
<1>10. CASE NextQueue(t)
  BY <1>10 DEF TypeOK, OthersLoop, LoopType, NextQueue, AtLoop
<1>11. CASE KeepQueue(t)
  BY <1>11 DEF TypeOK, OthersLoop, LoopType, KeepQueue, CallRelease, AtLoop
<1>12. CASE PushBack(t)
  BY <1>12 DEF TypeOK, OthersLoop, LoopType, PushBack, CallRelease, AtLoop
<1>. QED
  BY <1>1, <1>2, <1>3, <1>4, <1>5, <1>6, <1>7, <1>8, <1>9, <1>10, <1>11, <1>12
  DEF ThreadStep, ServiceChoice, PushGrab, MqPush, Release, MqMarkRelease,
     FreeCtx, Retire, MqCreate, Reserve, ReserveDec, InitDone, SetInit, PushNew,
     LogLaunch, ReturnLaunch, FailRetire,
     FailMqRelease, FailDropMessage, FailDropQueue, DropMessage, Send, Post,
     HandleExit, Abort, Register, CallPush, CallRelease, Done, DropEnd,
     DropOne, RetireHandle

LEMMA OthersLaunchNext ==
  ASSUME TypeOK, NEW t \in Thread, ThreadStep(t) \/ ServiceChoice(t)
  PROVE  OthersLaunch(t)
<1>1. CASE UNCHANGED launchVars
  BY <1>1 DEF TypeOK, OthersLaunch, launchVars
<1>2. CASE Release(t)
  BY <1>2 DEF TypeOK, OthersLaunch, LaunchType, Release
<1>3. CASE MqCreate(t)
  BY <1>3 DEF TypeOK, OthersLaunch, LaunchType, MqCreate, AtLaunch
<1>4. CASE InitDone(t)
  BY <1>4 DEF TypeOK, OthersLaunch, LaunchType, InitDone, CallRelease, AtLaunch
<1>5. CASE SetInit(t)
  BY <1>5 DEF TypeOK, OthersLaunch, LaunchType, SetInit, AtLaunch
<1>6. CASE PushNew(t)
  BY <1>6 DEF TypeOK, OthersLaunch, LaunchType, PushNew, AtLaunch
<1>7. CASE FailRetire(t)
  BY <1>7 DEF TypeOK, OthersLaunch, LaunchType, FailRetire, RetireHandle, CallRelease, AtLaunch
<1>8. CASE FailMqRelease(t)
  BY <1>8 DEF TypeOK, OthersLaunch, LaunchType, FailMqRelease, AtLaunch
<1>9. CASE FailDropQueue(t)
  BY <1>9 DEF TypeOK, OthersLaunch, LaunchType, FailDropQueue, DropEnd, AtLaunch
<1>10. ASSUME NEW h \in Handle, Register(t, h) PROVE OthersLaunch(t)
  BY <1>10 DEF TypeOK, OthersLaunch, LaunchType, Register
<1>11. CASE Reserve(t)
  BY <1>11 DEF TypeOK, OthersLaunch, LaunchType, Reserve, AtLaunch
<1>12. CASE ReserveDec(t)
  BY <1>12 DEF TypeOK, OthersLaunch, LaunchType, ReserveDec, AtLaunch
<1>13. CASE LogLaunch(t)
  BY <1>13 DEF TypeOK, OthersLaunch, LaunchType, LogLaunch, AtLaunch
<1>14. CASE ReturnLaunch(t)
  BY <1>14 DEF TypeOK, OthersLaunch, LaunchType, ReturnLaunch, AtLaunch
<1>. QED
  BY <1>1, <1>2, <1>3, <1>4, <1>5, <1>6, <1>7, <1>8, <1>9, <1>10, <1>11, <1>12,
     <1>13, <1>14
  DEF ThreadStep, ServiceChoice, PushGrab, MqPush, MqMarkRelease, FreeCtx,
     Retire, FailDropMessage, PopGlobal, GrabCtx, MqRelease, DropMessage,
     DropQueue, MqPop, MqPopEmpty, MqLength, CallbackReturn, NextQueue,
     KeepQueue, PushBack, Send, Post, HandleExit, Abort, CallPush, CallRelease,
     Done, DropEnd, DropOne, RetireHandle

LEMMA OthersOpNext ==
  ASSUME TypeOK, NEW t \in Thread, ThreadStep(t) \/ ServiceChoice(t)
  PROVE  OthersOp(t)
<1>1. CASE UNCHANGED opVars
  BY <1>1 DEF TypeOK, OthersOp, opVars
<1>2. CASE PushGrab(t)
  BY <1>2 DEF TypeOK, OthersOp, OpType, PushGrab
<1>3. CASE MqPush(t)
  BY <1>3 DEF TypeOK, OthersOp, OpType, MqPush
<1>4. CASE Release(t)
  BY <1>4 DEF TypeOK, OthersOp, OpType, Release
<1>5. CASE MqMarkRelease(t)
  BY <1>5 DEF TypeOK, OthersOp, OpType, MqMarkRelease
<1>6. CASE FreeCtx(t)
  BY <1>6 DEF TypeOK, OthersOp, OpType, FreeCtx, Done
<1>7. CASE Retire(t)
  BY <1>7 DEF TypeOK, OthersOp, OpType, Retire, RetireHandle, CallRelease
<1>8. CASE InitDone(t)
  BY <1>8 DEF TypeOK, OthersOp, OpType, InitDone, CallRelease, AtLaunch
<1>9. CASE FailRetire(t)
  BY <1>9 DEF TypeOK, OthersOp, OpType, FailRetire, RetireHandle, CallRelease, AtLaunch
<1>10. CASE FailDropMessage(t)
  BY <1>10 DEF TypeOK, OthersOp, OpType, FailDropMessage, DropOne, CallPush, AtLaunch
<1>11. CASE DropMessage(t)
  BY <1>11 DEF TypeOK, OthersOp, OpType, DropMessage, DropOne, CallPush, AtLoop
<1>12. CASE MqPopEmpty(t)
  BY <1>12 DEF TypeOK, OthersOp, OpType, MqPopEmpty, CallRelease, AtLoop
<1>13. CASE KeepQueue(t)
  BY <1>13 DEF TypeOK, OthersOp, OpType, KeepQueue, CallRelease, AtLoop
<1>14. CASE PushBack(t)
  BY <1>14 DEF TypeOK, OthersOp, OpType, PushBack, CallRelease, AtLoop
<1>15. ASSUME NEW h \in Handle, Send(t, h) PROVE OthersOp(t)
  BY <1>15 DEF TypeOK, OthersOp, OpType, Send, CallPush
<1>16. ASSUME NEW h \in Handle, Post(t, h) PROVE OthersOp(t)
  BY <1>16 DEF TypeOK, OthersOp, OpType, Post, CallPush
<1>17. ASSUME NEW h \in Handle, HandleExit(t, h) PROVE OthersOp(t)
  BY <1>17 DEF TypeOK, OthersOp, OpType, HandleExit, CallPush
<1>18. ASSUME NEW h \in Handle, Abort(t, h) PROVE OthersOp(t)
  BY <1>18 DEF TypeOK, OthersOp, OpType, Abort
<1>. QED
  BY <1>1, <1>2, <1>3, <1>4, <1>5, <1>6, <1>7, <1>8, <1>9, <1>10, <1>11, <1>12,
     <1>13, <1>14, <1>15, <1>16, <1>17, <1>18
  DEF ThreadStep, ServiceChoice, MqCreate, Reserve, ReserveDec, SetInit, PushNew, LogLaunch,
     ReturnLaunch, FailMqRelease, FailDropQueue, PopGlobal, GrabCtx, MqRelease, DropQueue, MqPop, MqLength,
     CallbackReturn, NextQueue, Register, DropEnd

LEMMA OwnShapeNext ==
  ASSUME TypeOK, Shape, NEW t \in Thread, ThreadStep(t) \/ ServiceChoice(t)
  PROVE  ShapeOf(t)'
<1>. ShapeOf(t)
  BY DEF Shape
<1>1. CASE PushGrab(t)
  BY <1>1, InHand, NoneApart DEF TypeOK, LoopType, LaunchType, OpType, ShapeOf, loopVars,
     launchVars, opVars, PushGrab
<1>2. CASE MqPush(t)
  BY <1>2, InHand, NoneApart DEF TypeOK, LoopType, LaunchType, OpType, ShapeOf, loopVars,
     launchVars, opVars, MqPush
<1>3. CASE Release(t)
  BY <1>3, InHand, NoneApart DEF TypeOK, LoopType, LaunchType, OpType, ShapeOf, loopVars,
     launchVars, opVars, Release
<1>4. CASE MqMarkRelease(t)
  BY <1>4, InHand, NoneApart DEF TypeOK, LoopType, LaunchType, OpType, ShapeOf, loopVars,
     launchVars, opVars, MqMarkRelease
<1>5. CASE FreeCtx(t)
  BY <1>5, InHand, NoneApart DEF TypeOK, LoopType, LaunchType, OpType, ShapeOf, loopVars,
     launchVars, opVars, FreeCtx, Done
<1>6. CASE Retire(t)
  BY <1>6, InHand, NoneApart DEF TypeOK, LoopType, LaunchType, OpType, ShapeOf, loopVars,
     launchVars, opVars, Retire, RetireHandle, CallRelease
<1>7. CASE MqCreate(t)
  BY <1>7, InHand, NoneApart DEF TypeOK, LoopType, LaunchType, OpType, ShapeOf, loopVars,
     launchVars, opVars, MqCreate, AtLaunch
<1>8. CASE InitDone(t)
  BY <1>8, InHand, NoneApart DEF TypeOK, LoopType, LaunchType, OpType, ShapeOf, loopVars,
     launchVars, opVars, InitDone, CallRelease, AtLaunch
<1>9. CASE SetInit(t)
  BY <1>9, InHand, NoneApart DEF TypeOK, LoopType, LaunchType, OpType, ShapeOf, loopVars,
     launchVars, opVars, SetInit, AtLaunch
<1>10. CASE PushNew(t)
  BY <1>10, InHand, NoneApart DEF TypeOK, LoopType, LaunchType, OpType, ShapeOf, loopVars,
     launchVars, opVars, PushNew, AtLaunch
<1>11. CASE FailRetire(t)
  BY <1>11, InHand, NoneApart DEF TypeOK, LoopType, LaunchType, OpType, ShapeOf, loopVars,
     launchVars, opVars, FailRetire, RetireHandle, CallRelease, AtLaunch
<1>12. CASE FailMqRelease(t)
  BY <1>12, InHand, NoneApart DEF TypeOK, LoopType, LaunchType, OpType, ShapeOf, loopVars,
     launchVars, opVars, FailMqRelease, AtLaunch
<1>13. CASE FailDropMessage(t)
  BY <1>13, InHand, NoneApart DEF TypeOK, LoopType, LaunchType, OpType, ShapeOf, loopVars,
     launchVars, opVars, FailDropMessage, DropOne, CallPush, AtLaunch
<1>14. CASE FailDropQueue(t)
  BY <1>14, InHand, NoneApart DEF TypeOK, LoopType, LaunchType, OpType, ShapeOf, loopVars,
     launchVars, opVars, FailDropQueue, DropEnd, AtLaunch
<1>15. CASE PopGlobal(t)
  BY <1>15, InHand, NoneApart DEF TypeOK, LoopType, LaunchType, OpType, ShapeOf, loopVars,
     launchVars, opVars, PopGlobal, AtLoop, MqType
<1>16. CASE GrabCtx(t)
  BY <1>16, InHand, NoneApart DEF TypeOK, LoopType, LaunchType, OpType, ShapeOf, loopVars,
     launchVars, opVars, GrabCtx, AtLoop
<1>17. CASE MqRelease(t)
  BY <1>17, InHand, NoneApart DEF TypeOK, LoopType, LaunchType, OpType, ShapeOf, loopVars,
     launchVars, opVars, MqRelease, AtLoop
<1>18. CASE DropMessage(t)
  BY <1>18, InHand, NoneApart DEF TypeOK, LoopType, LaunchType, OpType, ShapeOf, loopVars,
     launchVars, opVars, DropMessage, DropOne, CallPush, AtLoop
<1>19. CASE DropQueue(t)
  BY <1>19, InHand, NoneApart DEF TypeOK, LoopType, LaunchType, OpType, ShapeOf, loopVars,
     launchVars, opVars, DropQueue, DropEnd, AtLoop
<1>20. CASE MqPop(t)
  BY <1>20, InHand, NoneApart DEF TypeOK, LoopType, LaunchType, OpType, ShapeOf, loopVars,
     launchVars, opVars, MqPop, AtLoop
<1>21. CASE MqPopEmpty(t)
  BY <1>21, InHand, NoneApart DEF TypeOK, LoopType, LaunchType, OpType, ShapeOf, loopVars,
     launchVars, opVars, MqPopEmpty, CallRelease, AtLoop
<1>22. CASE MqLength(t)
  BY <1>22, InHand, NoneApart DEF TypeOK, LoopType, LaunchType, OpType, ShapeOf, loopVars,
     launchVars, opVars, MqLength, AtLoop
<1>23. CASE CallbackReturn(t)
  BY <1>23, InHand, NoneApart DEF TypeOK, LoopType, LaunchType, OpType, ShapeOf, loopVars,
     launchVars, opVars, CallbackReturn, AtLoop
<1>24. CASE NextQueue(t)
  BY <1>24, InHand, NoneApart DEF TypeOK, LoopType, LaunchType, OpType, ShapeOf, loopVars,
     launchVars, opVars, NextQueue, AtLoop, MqType
<1>25. CASE KeepQueue(t)
  BY <1>25, InHand, NoneApart DEF TypeOK, LoopType, LaunchType, OpType, ShapeOf, loopVars,
     launchVars, opVars, KeepQueue, CallRelease, AtLoop
<1>26. CASE PushBack(t)
  BY <1>26, InHand, NoneApart DEF TypeOK, LoopType, LaunchType, OpType, ShapeOf, loopVars,
     launchVars, opVars, PushBack, CallRelease, AtLoop
<1>27. ASSUME NEW h \in Handle, Send(t, h) PROVE ShapeOf(t)'
  BY <1>27, InHand, NoneApart DEF TypeOK, LoopType, LaunchType, OpType, ShapeOf, loopVars,
     launchVars, opVars, Send, CallPush, InService, AtLoop, AtLaunch
<1>28. ASSUME NEW h \in Handle, Post(t, h) PROVE ShapeOf(t)'
  BY <1>28, InHand, NoneApart, ThreadsApart DEF TypeOK, LoopType, LaunchType, OpType, ShapeOf, loopVars,
     launchVars, opVars, Post, CallPush
<1>29. ASSUME NEW h \in Handle, HandleExit(t, h) PROVE ShapeOf(t)'
  <2>. USE DEF TypeOK, LoopType, LaunchType, OpType, ShapeOf, loopVars, launchVars,
           HandleExit, InService, AtLoop, AtLaunch
  <2>1. CASE MonitorExit = None
    BY <1>29, <2>1, NoneApart
  <2>2. CASE MonitorExit # None
    BY <1>29, <2>2, NoneApart DEF CallPush
  <2>. QED  BY <2>1, <2>2
<1>30. ASSUME NEW h \in Handle, Abort(t, h) PROVE ShapeOf(t)'
  BY <1>30, InHand, NoneApart DEF TypeOK, LoopType, LaunchType, OpType, ShapeOf, loopVars,
     launchVars, opVars, Abort, InService, AtLoop, AtLaunch
<1>31. ASSUME NEW h \in Handle, Register(t, h) PROVE ShapeOf(t)'
  BY <1>31, InHand, NoneApart DEF TypeOK, LoopType, LaunchType, OpType, ShapeOf, loopVars,
     launchVars, opVars, Register, AtLoop
<1>32. CASE Reserve(t)
  BY <1>32, InHand, NoneApart DEF TypeOK, LoopType, LaunchType, OpType, ShapeOf, loopVars,
     launchVars, opVars, Reserve, AtLaunch
<1>33. CASE ReserveDec(t)
  BY <1>33, InHand, NoneApart DEF TypeOK, LoopType, LaunchType, OpType, ShapeOf, loopVars,
     launchVars, opVars, ReserveDec, AtLaunch
<1>34. CASE LogLaunch(t)
  BY <1>34, InHand, NoneApart DEF TypeOK, LoopType, LaunchType, OpType, ShapeOf, loopVars,
     launchVars, opVars, LogLaunch, AtLaunch
<1>35. CASE ReturnLaunch(t)
  BY <1>35, InHand, NoneApart DEF TypeOK, LoopType, LaunchType, OpType, ShapeOf, loopVars,
     launchVars, opVars, ReturnLaunch, AtLaunch
<1>. QED
  BY <1>1, <1>2, <1>3, <1>4, <1>5, <1>6, <1>7, <1>8, <1>9, <1>10, <1>11, <1>12,
     <1>13, <1>14, <1>15, <1>16, <1>17, <1>18, <1>19, <1>20, <1>21, <1>22,
     <1>23, <1>24, <1>25, <1>26, <1>27, <1>28, <1>29, <1>30, <1>31, <1>32, <1>33,
     <1>34, <1>35
  DEF ThreadStep, ServiceChoice

LEMMA ShapeNext ==
  ASSUME TypeOK, Shape, NEW t \in Thread, ThreadStep(t) \/ ServiceChoice(t)
  PROVE  Shape'
<1>1. ASSUME NEW u \in Thread, u # t PROVE ShapeOf(u)'
  BY <1>1, OthersLoopNext, OthersLaunchNext, OthersOpNext
  DEF Shape, ShapeOf, OthersLoop, OthersLaunch, OthersOp
<1>. QED  BY <1>1, OwnShapeNext DEF Shape

LEMMA TypeNext ==
  ASSUME TypeOK, Shape, NEW t \in Thread, ThreadStep(t) \/ ServiceChoice(t)
  PROVE  TypeOK'
BY CtxTypeNext, MqTypeNext, LoopTypeNext, LaunchTypeNext, OpTypeNext DEF TypeOK

LEMMA InitType == Init => TypeOK /\ Shape
<1>. SUFFICES ASSUME Init PROVE TypeOK /\ Shape
  OBVIOUS
<1>1. CtxType
  BY BootAssumption DEF Init, CtxType, Life, Source
<1>2. MqType
  BY BootAssumption DEF Init, MqType, Life
<1>3. LoopType
  BY MessageType DEF Init, LoopType, LoopPoint, Source
<1>4. LaunchType
  BY DEF Init, LaunchType, LaunchPoint, Source
<1>5. OpType
  BY MessageType DEF Init, OpType, OpPoint, Source
<1>6. Shape
  BY DEF Init, Shape, ShapeOf
<1>. QED  BY <1>1, <1>2, <1>3, <1>4, <1>5, <1>6 DEF TypeOK

LEMMA StutterType == TypeOK /\ Shape /\ UNCHANGED vars => TypeOK' /\ Shape'
BY DEF vars, ctxVars, mqVars, loopVars, launchVars, opVars, TypeOK, CtxType, MqType, LoopType,
       LaunchType, OpType, Shape, ShapeOf

\* Whatever the threads do, handles, flags, counters and the messages in
\* queues and in hands stay well formed, for any number of threads and services.
THEOREM TypeCorrect == Spec => []TypeOK
<1>1. TypeOK /\ Shape /\ [Next]_vars => TypeOK' /\ Shape'
  BY TypeNext, ShapeNext, StutterType DEF Next
<1>. QED  BY <1>1, InitType, PTL DEF Spec

-----------------------------------------------------------------------------
(* Reference counts *)

LEMMA HoldersFinite == \A h : IsFiniteSet(Holders(h)) /\ Cardinality(Holders(h)) \in Nat
<1>1. IsFiniteSet(Thread)
  BY ThreadsFinite, FS_Union DEF Thread
<1>2. IsFiniteSet({"loop", "new", "op"}) /\ IsFiniteSet({"slot", "remote"}) /\ IsFiniteSet({None})
  <2>1. \A x : IsFiniteSet({x})
    BY FS_Singleton
  <2>2. IsFiniteSet({"loop"} \cup {"new"})
    BY <2>1, FS_Union
  <2>3. IsFiniteSet(({"loop"} \cup {"new"}) \cup {"op"})
    BY <2>1, <2>2, FS_Union
  <2>4. {"loop", "new", "op"} = ({"loop"} \cup {"new"}) \cup {"op"}
    OBVIOUS
  <2>5. IsFiniteSet({"slot"} \cup {"remote"})
    BY <2>1, FS_Union
  <2>6. {"slot", "remote"} = {"slot"} \cup {"remote"}
    OBVIOUS
  <2>. QED  BY <2>1, <2>3, <2>4, <2>5, <2>6
<1>3. IsFiniteSet({"loop", "new", "op"} \X Thread) /\ IsFiniteSet({"slot", "remote"} \X {None})
  BY <1>1, <1>2, FS_Product
<1>4. IsFiniteSet(Token)
  BY <1>3, FS_Union DEF Token
<1>5. \A h : Holders(h) \subseteq Token
  BY DEF Holders
<1>. QED  BY <1>4, <1>5, FS_Subset, FS_CardinalityType

\* A reference is taken, given up, or handed on.
LEMMA TakeRef ==
  ASSUME NEW h, NEW x, x \notin Holders(h), Holders(h)' = Holders(h) \cup {x}
  PROVE  Cardinality(Holders(h)') = Cardinality(Holders(h)) + 1
BY HoldersFinite, FS_AddElement

LEMMA DropRef ==
  ASSUME NEW h, NEW x, x \in Holders(h), Holders(h)' = Holders(h) \ {x}
  PROVE  Cardinality(Holders(h)') = Cardinality(Holders(h)) - 1
BY HoldersFinite, FS_RemoveElement

LEMMA HandOnRef ==
  ASSUME NEW h, NEW x, NEW y, x \in Holders(h), y \notin Holders(h),
         Holders(h)' = (Holders(h) \ {x}) \cup {y}
  PROVE  Cardinality(Holders(h)') = Cardinality(Holders(h))
<1>1. /\ IsFiniteSet(Holders(h) \ {x})
      /\ Cardinality(Holders(h) \ {x}) = Cardinality(Holders(h)) - 1
  BY HoldersFinite, FS_RemoveElement
<1>2. y \notin Holders(h) \ {x}
  OBVIOUS
<1>3. Cardinality((Holders(h) \ {x}) \cup {y}) = Cardinality(Holders(h) \ {x}) + 1
  BY <1>1, <1>2, FS_AddElement
<1>. QED  BY <1>1, <1>3, HoldersFinite

\* Who refers to what in steps that neither take nor give up a reference.
SameHolders == \A h \in Handle : Holders(h)' = Holders(h) /\ ref'[h] = ref[h]

LEMMA QuietSteps ==
  ASSUME TypeOK, Shape, NEW t \in Thread, OthersLoop(t), OthersLaunch(t), OthersOp(t),
         \/ MqPush(t) \/ MqMarkRelease(t) \/ FreeCtx(t) \/ MqCreate(t) \/ SetInit(t)
         \/ PushNew(t) \/ FailMqRelease(t) \/ FailDropMessage(t) \/ FailDropQueue(t) \/ PopGlobal(t)
         \/ MqRelease(t) \/ DropMessage(t) \/ DropQueue(t) \/ MqPop(t) \/ MqLength(t)
         \/ CallbackReturn(t) \/ NextQueue(t) \/ ReserveDec(t) \/ LogLaunch(t) \/ ReturnLaunch(t)
         \/ \E h \in Handle : Send(t, h) \/ Post(t, h) \/ HandleExit(t, h) \/ Abort(t, h)
  PROVE  SameHolders
<1>. USE InHand DEF SameHolders, Holders, Refers, Token, InLoop, OthersLoop, OthersLaunch, OthersOp,
         TypeOK, CtxType, LoopType, LaunchType, OpType, ctxVars, loopVars, launchVars, opVars
<1>1. CASE MqPush(t)
  BY <1>1 DEF MqPush
<1>2. CASE MqMarkRelease(t)
  BY <1>2 DEF MqMarkRelease
<1>3. CASE FreeCtx(t)
  BY <1>3 DEF FreeCtx, Done
<1>4. CASE MqCreate(t)
  BY <1>4 DEF MqCreate, AtLaunch
<1>5. CASE SetInit(t)
  BY <1>5 DEF SetInit, AtLaunch
<1>6. CASE PushNew(t)
  BY <1>6 DEF PushNew, AtLaunch
<1>7. CASE FailMqRelease(t)
  BY <1>7 DEF FailMqRelease, AtLaunch
<1>8. CASE FailDropMessage(t)
  BY <1>8 DEF FailDropMessage, DropOne, CallPush, AtLaunch
<1>9. CASE FailDropQueue(t)
  BY <1>9 DEF FailDropQueue, DropEnd, AtLaunch
<1>10. CASE PopGlobal(t)
  BY <1>10 DEF PopGlobal, AtLoop
<1>11. CASE MqRelease(t)
  BY <1>11 DEF MqRelease, AtLoop
<1>12. CASE DropMessage(t)
  BY <1>12 DEF DropMessage, DropOne, CallPush, AtLoop
<1>13. CASE DropQueue(t)
  BY <1>13 DEF DropQueue, DropEnd, AtLoop
<1>14. CASE MqPop(t)
  BY <1>14 DEF MqPop, AtLoop
<1>15. CASE MqLength(t)
  BY <1>15 DEF MqLength, AtLoop
<1>16. CASE CallbackReturn(t)
  BY <1>16 DEF CallbackReturn, AtLoop
<1>17. CASE NextQueue(t)
  BY <1>17 DEF NextQueue, AtLoop
<1>18. ASSUME NEW h \in Handle, Send(t, h) PROVE SameHolders
  BY <1>18 DEF Send, CallPush, InService, AtLoop, AtLaunch
<1>19. ASSUME NEW h \in Handle, Post(t, h) PROVE SameHolders
  BY <1>19 DEF Post, CallPush, InService, AtLoop, AtLaunch
<1>20. ASSUME NEW h \in Handle, HandleExit(t, h) PROVE SameHolders
  BY <1>20 DEF HandleExit, CallPush, InService, AtLoop, AtLaunch
<1>21. ASSUME NEW h \in Handle, Abort(t, h) PROVE SameHolders
  BY <1>21 DEF Abort, InService, AtLoop, AtLaunch
<1>22. CASE ReserveDec(t)
  BY <1>22 DEF ReserveDec, AtLaunch
<1>23. CASE LogLaunch(t)
  BY <1>23 DEF LogLaunch, AtLaunch
<1>24. CASE ReturnLaunch(t)
  BY <1>24 DEF ReturnLaunch, AtLaunch
<1>. QED
  BY <1>1, <1>2, <1>3, <1>4, <1>5, <1>6, <1>7, <1>8, <1>9, <1>10, <1>11, <1>12,
     <1>13, <1>14, <1>15, <1>16, <1>17, <1>18, <1>19, <1>20, <1>21,
     <1>22, <1>23, <1>24

LEMMA RefCountNext ==
  ASSUME TypeOK, Shape, RefCount, RefsLive, NEW t \in Thread, ThreadStep(t) \/ ServiceChoice(t)
  PROVE  RefCount'
<1>. USE InHand, OthersLoopNext, OthersLaunchNext, OthersOpNext
<1>1. CASE SameHolders
  BY <1>1 DEF SameHolders, RefCount
<1>2. CASE Release(t)
  <2>0. PICK h \in Handle : h = to[t]
    BY <1>2 DEF Release
  <2>1. <<"op", t>> \in Holders(h)
    BY <1>2, <2>0 DEF Release,
      Holders, Refers, Token, InLoop, OthersLoop, OthersLaunch, OthersOp, TypeOK, CtxType, LoopType,
      LaunchType, OpType, ctxVars, loopVars, launchVars, opVars
  <2>2. Holders(h)' = Holders(h) \ {<<"op", t>>}
    BY <1>2, <2>0 DEF Release,
      Holders, Refers, Token, InLoop, OthersLoop, OthersLaunch, OthersOp, TypeOK, CtxType, LoopType,
      LaunchType, OpType, ctxVars, loopVars, launchVars, opVars
  <2>3. \A g \in Handle \ {h} : Holders(g)' = Holders(g)
    BY <1>2, <2>0 DEF Release,
      Holders, Refers, Token, InLoop, OthersLoop, OthersLaunch, OthersOp, TypeOK, CtxType, LoopType,
      LaunchType, OpType, ctxVars, loopVars, launchVars, opVars
  <2>4. Cardinality(Holders(h)') = Cardinality(Holders(h)) - 1
    BY <2>1, <2>2, DropRef
  <2>. QED  BY <1>2, <2>0, <2>1, <2>3, <2>4 DEF RefCount, TypeOK, CtxType, ctxVars, Release
<1>3. CASE InitDone(t)
  <2>0. PICK h \in Handle : h = new[t]
    BY <1>3 DEF InitDone, CallRelease, AtLaunch
  <2>1. <<"new", t>> \in Holders(h) /\ <<"op", t>> \notin Holders(h)
    BY <1>3, <2>0 DEF InitDone, CallRelease, AtLaunch,
      Holders, Refers, Token, InLoop, OthersLoop, OthersLaunch, OthersOp, TypeOK, CtxType, LoopType,
      LaunchType, OpType, ctxVars, loopVars, launchVars, opVars
  <2>2. Holders(h)' = (Holders(h) \ {<<"new", t>>}) \cup {<<"op", t>>}
    BY <1>3, <2>0 DEF InitDone, CallRelease, AtLaunch,
      Holders, Refers, Token, InLoop, OthersLoop, OthersLaunch, OthersOp, TypeOK, CtxType, LoopType,
      LaunchType, OpType, ctxVars, loopVars, launchVars, opVars
  <2>3. \A g \in Handle \ {h} : Holders(g)' = Holders(g)
    BY <1>3, <2>0 DEF InitDone, CallRelease, AtLaunch,
      Holders, Refers, Token, InLoop, OthersLoop, OthersLaunch, OthersOp, TypeOK, CtxType, LoopType,
      LaunchType, OpType, ctxVars, loopVars, launchVars, opVars
  <2>4. Cardinality(Holders(h)') = Cardinality(Holders(h))
    BY <2>1, <2>2, HandOnRef
  <2>. QED  BY <1>3, <2>0, <2>1, <2>3, <2>4 DEF RefCount, TypeOK, CtxType, ctxVars, InitDone, CallRelease, AtLaunch
<1>4. CASE MqPopEmpty(t)
  <2>0. PICK h \in Handle : h = q[t]
    BY <1>4 DEF MqPopEmpty, CallRelease, AtLoop
  <2>1. <<"loop", t>> \in Holders(h) /\ <<"op", t>> \notin Holders(h)
    BY <1>4, <2>0 DEF MqPopEmpty, CallRelease, AtLoop,
      Holders, Refers, Token, InLoop, OthersLoop, OthersLaunch, OthersOp, TypeOK, CtxType, LoopType,
      LaunchType, OpType, ctxVars, loopVars, launchVars, opVars
  <2>2. Holders(h)' = (Holders(h) \ {<<"loop", t>>}) \cup {<<"op", t>>}
    BY <1>4, <2>0 DEF MqPopEmpty, CallRelease, AtLoop,
      Holders, Refers, Token, InLoop, OthersLoop, OthersLaunch, OthersOp, TypeOK, CtxType, LoopType,
      LaunchType, OpType, ctxVars, loopVars, launchVars, opVars
  <2>3. \A g \in Handle \ {h} : Holders(g)' = Holders(g)
    BY <1>4, <2>0 DEF MqPopEmpty, CallRelease, AtLoop,
      Holders, Refers, Token, InLoop, OthersLoop, OthersLaunch, OthersOp, TypeOK, CtxType, LoopType,
      LaunchType, OpType, ctxVars, loopVars, launchVars, opVars
  <2>4. Cardinality(Holders(h)') = Cardinality(Holders(h))
    BY <2>1, <2>2, HandOnRef
  <2>. QED  BY <1>4, <2>0, <2>1, <2>3, <2>4 DEF RefCount, TypeOK, CtxType, ctxVars, MqPopEmpty, CallRelease, AtLoop
<1>5. CASE KeepQueue(t)
  <2>0. PICK h \in Handle : h = q[t]
    BY <1>5 DEF KeepQueue, CallRelease, AtLoop
  <2>1. <<"loop", t>> \in Holders(h) /\ <<"op", t>> \notin Holders(h)
    BY <1>5, <2>0 DEF KeepQueue, CallRelease, AtLoop,
      Holders, Refers, Token, InLoop, OthersLoop, OthersLaunch, OthersOp, TypeOK, CtxType, LoopType,
      LaunchType, OpType, ctxVars, loopVars, launchVars, opVars
  <2>2. Holders(h)' = (Holders(h) \ {<<"loop", t>>}) \cup {<<"op", t>>}
    BY <1>5, <2>0 DEF KeepQueue, CallRelease, AtLoop,
      Holders, Refers, Token, InLoop, OthersLoop, OthersLaunch, OthersOp, TypeOK, CtxType, LoopType,
      LaunchType, OpType, ctxVars, loopVars, launchVars, opVars
  <2>3. \A g \in Handle \ {h} : Holders(g)' = Holders(g)
    BY <1>5, <2>0 DEF KeepQueue, CallRelease, AtLoop,
      Holders, Refers, Token, InLoop, OthersLoop, OthersLaunch, OthersOp, TypeOK, CtxType, LoopType,
      LaunchType, OpType, ctxVars, loopVars, launchVars, opVars
  <2>4. Cardinality(Holders(h)') = Cardinality(Holders(h))
    BY <2>1, <2>2, HandOnRef
  <2>. QED  BY <1>5, <2>0, <2>1, <2>3, <2>4 DEF RefCount, TypeOK, CtxType, ctxVars, KeepQueue, CallRelease, AtLoop
<1>6. CASE PushBack(t)
  <2>0. PICK h \in Handle : h = q[t]
    BY <1>6 DEF PushBack, CallRelease, AtLoop
  <2>1. <<"loop", t>> \in Holders(h) /\ <<"op", t>> \notin Holders(h)
    BY <1>6, <2>0 DEF PushBack, CallRelease, AtLoop,
      Holders, Refers, Token, InLoop, OthersLoop, OthersLaunch, OthersOp, TypeOK, CtxType, LoopType,
      LaunchType, OpType, ctxVars, loopVars, launchVars, opVars
  <2>2. Holders(h)' = (Holders(h) \ {<<"loop", t>>}) \cup {<<"op", t>>}
    BY <1>6, <2>0 DEF PushBack, CallRelease, AtLoop,
      Holders, Refers, Token, InLoop, OthersLoop, OthersLaunch, OthersOp, TypeOK, CtxType, LoopType,
      LaunchType, OpType, ctxVars, loopVars, launchVars, opVars
  <2>3. \A g \in Handle \ {h} : Holders(g)' = Holders(g)
    BY <1>6, <2>0 DEF PushBack, CallRelease, AtLoop,
      Holders, Refers, Token, InLoop, OthersLoop, OthersLaunch, OthersOp, TypeOK, CtxType, LoopType,
      LaunchType, OpType, ctxVars, loopVars, launchVars, opVars
  <2>4. Cardinality(Holders(h)') = Cardinality(Holders(h))
    BY <2>1, <2>2, HandOnRef
  <2>. QED  BY <1>6, <2>0, <2>1, <2>3, <2>4 DEF RefCount, TypeOK, CtxType, ctxVars, PushBack, CallRelease, AtLoop
<1>7. CASE PushGrab(t)
  <2>1. CASE slot[to[t]]
    <3>0. PICK h \in Handle : h = to[t]
      BY <1>7, <2>1 DEF PushGrab
    <3>1. <<"op", t>> \notin Holders(h)
      BY <1>7, <2>1, <3>0 DEF PushGrab,
        Holders, Refers, Token, InLoop, OthersLoop, OthersLaunch, OthersOp, TypeOK, CtxType, LoopType,
      LaunchType, OpType, ctxVars, loopVars, launchVars, opVars
    <3>2. Holders(h)' = Holders(h) \cup {<<"op", t>>}
      BY <1>7, <2>1, <3>0 DEF PushGrab,
        Holders, Refers, Token, InLoop, OthersLoop, OthersLaunch, OthersOp, TypeOK, CtxType, LoopType,
      LaunchType, OpType, ctxVars, loopVars, launchVars, opVars
    <3>3. \A g \in Handle \ {h} : Holders(g)' = Holders(g)
      BY <1>7, <2>1, <3>0 DEF PushGrab,
        Holders, Refers, Token, InLoop, OthersLoop, OthersLaunch, OthersOp, TypeOK, CtxType, LoopType,
      LaunchType, OpType, ctxVars, loopVars, launchVars, opVars
    <3>4. Cardinality(Holders(h)') = Cardinality(Holders(h)) + 1
      BY <3>1, <3>2, TakeRef
    <3>. QED  BY <1>7, <2>1, <3>0, <3>1, <3>3, <3>4 DEF RefCount, TypeOK, CtxType, ctxVars, PushGrab
  <2>2. CASE ~slot[to[t]]
    <3>1. SameHolders
      BY <1>7, <2>2 DEF SameHolders, PushGrab,
        Holders, Refers, Token, InLoop, OthersLoop, OthersLaunch, OthersOp, TypeOK, CtxType, LoopType,
      LaunchType, OpType, ctxVars, loopVars, launchVars, opVars
    <3>. QED  BY <3>1, <1>1
  <2>. QED  BY <2>1, <2>2
<1>8. CASE GrabCtx(t)
  <2>1. CASE slot[q[t]]
    <3>0. PICK h \in Handle : h = q[t]
      BY <1>8, <2>1 DEF GrabCtx, AtLoop
    <3>1. <<"loop", t>> \notin Holders(h)
      BY <1>8, <2>1, <3>0 DEF GrabCtx, AtLoop,
        Holders, Refers, Token, InLoop, OthersLoop, OthersLaunch, OthersOp, TypeOK, CtxType, LoopType,
      LaunchType, OpType, ctxVars, loopVars, launchVars, opVars
    <3>2. Holders(h)' = Holders(h) \cup {<<"loop", t>>}
      BY <1>8, <2>1, <3>0 DEF GrabCtx, AtLoop,
        Holders, Refers, Token, InLoop, OthersLoop, OthersLaunch, OthersOp, TypeOK, CtxType, LoopType,
      LaunchType, OpType, ctxVars, loopVars, launchVars, opVars
    <3>3. \A g \in Handle \ {h} : Holders(g)' = Holders(g)
      BY <1>8, <2>1, <3>0 DEF GrabCtx, AtLoop,
        Holders, Refers, Token, InLoop, OthersLoop, OthersLaunch, OthersOp, TypeOK, CtxType, LoopType,
      LaunchType, OpType, ctxVars, loopVars, launchVars, opVars
    <3>4. Cardinality(Holders(h)') = Cardinality(Holders(h)) + 1
      BY <3>1, <3>2, TakeRef
    <3>. QED  BY <1>8, <2>1, <3>0, <3>1, <3>3, <3>4 DEF RefCount, TypeOK, CtxType, ctxVars, GrabCtx, AtLoop
  <2>2. CASE ~slot[q[t]]
    <3>1. SameHolders
      BY <1>8, <2>2 DEF SameHolders, GrabCtx, AtLoop,
        Holders, Refers, Token, InLoop, OthersLoop, OthersLaunch, OthersOp, TypeOK, CtxType, LoopType,
      LaunchType, OpType, ctxVars, loopVars, launchVars, opVars
    <3>. QED  BY <3>1, <1>1
  <2>. QED  BY <2>1, <2>2
<1>9. CASE Retire(t)
  <2>1. CASE slot[kill[t]]
    <3>0. PICK h \in Handle : h = kill[t]
      BY <1>9, <2>1 DEF Retire, RetireHandle, CallRelease
    <3>1. <<"slot", None>> \in Holders(h) /\ <<"op", t>> \notin Holders(h)
      BY <1>9, <2>1, <3>0 DEF Retire, RetireHandle, CallRelease,
        Holders, Refers, Token, InLoop, OthersLoop, OthersLaunch, OthersOp, TypeOK, CtxType, LoopType,
      LaunchType, OpType, ctxVars, loopVars, launchVars, opVars
    <3>2. Holders(h)' = (Holders(h) \ {<<"slot", None>>}) \cup {<<"op", t>>}
      BY <1>9, <2>1, <3>0 DEF Retire, RetireHandle, CallRelease,
        Holders, Refers, Token, InLoop, OthersLoop, OthersLaunch, OthersOp, TypeOK, CtxType, LoopType,
      LaunchType, OpType, ctxVars, loopVars, launchVars, opVars
    <3>3. \A g \in Handle \ {h} : Holders(g)' = Holders(g)
      BY <1>9, <2>1, <3>0 DEF Retire, RetireHandle, CallRelease,
        Holders, Refers, Token, InLoop, OthersLoop, OthersLaunch, OthersOp, TypeOK, CtxType, LoopType,
      LaunchType, OpType, ctxVars, loopVars, launchVars, opVars
    <3>4. Cardinality(Holders(h)') = Cardinality(Holders(h))
      BY <3>1, <3>2, HandOnRef
    <3>. QED  BY <1>9, <2>1, <3>0, <3>1, <3>3, <3>4 DEF RefCount, TypeOK, CtxType, ctxVars, Retire, RetireHandle, CallRelease
  <2>2. CASE ~slot[kill[t]]
    <3>1. SameHolders
      BY <1>9, <2>2 DEF SameHolders, Retire, RetireHandle, CallRelease,
        Holders, Refers, Token, InLoop, OthersLoop, OthersLaunch, OthersOp, TypeOK, CtxType, LoopType,
      LaunchType, OpType, ctxVars, loopVars, launchVars, opVars
    <3>. QED  BY <3>1, <1>1
  <2>. QED  BY <2>1, <2>2
<1>10. CASE FailRetire(t)
  <2>1. CASE slot[new[t]]
    <3>0. PICK h \in Handle : h = new[t]
      BY <1>10, <2>1 DEF FailRetire, RetireHandle, CallRelease, AtLaunch
    <3>1. <<"slot", None>> \in Holders(h) /\ <<"op", t>> \notin Holders(h)
      BY <1>10, <2>1, <3>0 DEF FailRetire, RetireHandle, CallRelease, AtLaunch,
        Holders, Refers, Token, InLoop, OthersLoop, OthersLaunch, OthersOp, TypeOK, CtxType, LoopType,
      LaunchType, OpType, ctxVars, loopVars, launchVars, opVars
    <3>2. Holders(h)' = (Holders(h) \ {<<"slot", None>>}) \cup {<<"op", t>>}
      BY <1>10, <2>1, <3>0 DEF FailRetire, RetireHandle, CallRelease, AtLaunch,
        Holders, Refers, Token, InLoop, OthersLoop, OthersLaunch, OthersOp, TypeOK, CtxType, LoopType,
      LaunchType, OpType, ctxVars, loopVars, launchVars, opVars
    <3>3. \A g \in Handle \ {h} : Holders(g)' = Holders(g)
      BY <1>10, <2>1, <3>0 DEF FailRetire, RetireHandle, CallRelease, AtLaunch,
        Holders, Refers, Token, InLoop, OthersLoop, OthersLaunch, OthersOp, TypeOK, CtxType, LoopType,
      LaunchType, OpType, ctxVars, loopVars, launchVars, opVars
    <3>4. Cardinality(Holders(h)') = Cardinality(Holders(h))
      BY <3>1, <3>2, HandOnRef
    <3>. QED  BY <1>10, <2>1, <3>0, <3>1, <3>3, <3>4 DEF RefCount, TypeOK, CtxType, ctxVars, FailRetire, RetireHandle, CallRelease, AtLaunch
  <2>2. CASE ~slot[new[t]]
    <3>1. SameHolders
      BY <1>10, <2>2 DEF SameHolders, FailRetire, RetireHandle, CallRelease, AtLaunch,
        Holders, Refers, Token, InLoop, OthersLoop, OthersLaunch, OthersOp, TypeOK, CtxType, LoopType,
      LaunchType, OpType, ctxVars, loopVars, launchVars, opVars
    <3>. QED  BY <3>1, <1>1
  <2>. QED  BY <2>1, <2>2
<1>11. ASSUME NEW h \in Handle, Register(t, h) PROVE RefCount'
  <2>1. Holders(h) = {}
    <3>1. Cardinality(Holders(h)) = 0
      BY <1>11, HoldersFinite DEF Register, RefCount, RefsLive
    <3>. QED  BY <3>1, HoldersFinite, FS_EmptySet
  <2>2. Holders(h)' = {<<"slot", None>>, <<"new", t>>}
    BY <1>11, <2>1, NoneApart DEF Register, AtLoop,
      Holders, Refers, Token, InLoop, OthersLoop, OthersLaunch, OthersOp, TypeOK, CtxType, LoopType,
      LaunchType, OpType, ctxVars, loopVars, launchVars, opVars
  <2>3. Cardinality(Holders(h)') = 2
    <3>1. IsFiniteSet({<<"slot", None>>}) /\ Cardinality({<<"slot", None>>}) = 1
      BY FS_Singleton
    <3>2. <<"new", t>> \notin {<<"slot", None>>}
      OBVIOUS
    <3>3. Cardinality({<<"slot", None>>} \cup {<<"new", t>>}) = 1 + 1
      BY <3>1, <3>2, FS_AddElement
    <3>4. {<<"slot", None>>, <<"new", t>>} = {<<"slot", None>>} \cup {<<"new", t>>}
      OBVIOUS
    <3>5. Cardinality(Holders(h)') = 1 + 1
      BY <2>2, <3>3, <3>4, Zenon
    <3>. QED  BY <3>5
  <2>4. \A g \in Handle \ {h} : Holders(g)' = Holders(g)
    BY <1>11, NoneApart DEF Register, AtLoop, ShapeOf, Shape,
      Holders, Refers, Token, InLoop, OthersLoop, OthersLaunch, OthersOp, TypeOK, CtxType, LoopType,
      LaunchType, OpType, ctxVars, loopVars, launchVars, opVars
  <2>. QED  BY <1>11, <2>3, <2>4 DEF Register, RefCount, TypeOK, CtxType
<1>12. CASE Reserve(t)
  <2>0. PICK h \in Handle : h = new[t]
    BY <1>12 DEF Reserve, AtLaunch
  <2>1. <<"remote", None>> \notin Holders(h)
    BY <1>12, <2>0, NoneApart DEF Reserve, Holders, Refers
  <2>2. Holders(h)' = Holders(h) \cup {<<"remote", None>>}
    BY <1>12, <2>0, NoneApart DEF Reserve, AtLaunch,
      Holders, Refers, Token, InLoop, OthersLoop, OthersLaunch, OthersOp, TypeOK, CtxType, LoopType,
      LaunchType, OpType, ctxVars, loopVars, launchVars, opVars
  <2>3. \A g \in Handle \ {h} : Holders(g)' = Holders(g)
    BY <1>12, <2>0, NoneApart DEF Reserve, AtLaunch,
      Holders, Refers, Token, InLoop, OthersLoop, OthersLaunch, OthersOp, TypeOK, CtxType, LoopType,
      LaunchType, OpType, ctxVars, loopVars, launchVars, opVars
  <2>4. Cardinality(Holders(h)') = Cardinality(Holders(h)) + 1
    BY <2>1, <2>2, TakeRef
  <2>. QED  BY <1>12, <2>0, <2>3, <2>4 DEF RefCount, TypeOK, CtxType, ctxVars, Reserve
<1>. QED
  BY <1>1, <1>2, <1>3, <1>4, <1>5, <1>6, <1>7, <1>8, <1>9, <1>10, <1>11, <1>12,
     QuietSteps
  DEF ThreadStep, ServiceChoice

-----------------------------------------------------------------------------
(* Lives *)

\* Whoever holds a reference makes the count positive.
LEMMA HasRef ==
  ASSUME TypeOK, RefCount, NEW h \in Handle
  PROVE  /\ ref[h] \in Nat
         /\ slot[h] => ref[h] > 0
         /\ remote = h => ref[h] > 0
         /\ \A t \in Thread : pc[t] \in InLoop /\ q[t] = h => ref[h] > 0
         /\ \A t \in Thread : launch[t] \in {"create", "init", "reserve"} /\ new[t] = h => ref[h] > 0
         /\ \A t \in Thread : op[t] \in {"push", "rel"} /\ to[t] = h => ref[h] > 0
<1>1. ref[h] \in Nat
  BY HoldersFinite DEF RefCount
<1>2. Holders(h) # {} => ref[h] > 0
  BY <1>1, HoldersFinite, FS_EmptySet DEF RefCount
<1>3. /\ slot[h] => <<"slot", None>> \in Holders(h)
      /\ remote = h => <<"remote", None>> \in Holders(h)
  BY DEF Holders, Refers, Token
<1>4. ASSUME NEW t \in Thread
      PROVE  /\ pc[t] \in InLoop /\ q[t] = h => <<"loop", t>> \in Holders(h)
             /\ launch[t] \in {"create", "init", "reserve"} /\ new[t] = h => <<"new", t>> \in Holders(h)
             /\ op[t] \in {"push", "rel"} /\ to[t] = h => <<"op", t>> \in Holders(h)
  BY DEF Holders, Refers, Token
<1>. QED  BY <1>1, <1>2, <1>3, <1>4

LEMMA RefsLiveNext ==
  ASSUME TypeOK, Shape, RefCount, RefsLive, QueueLife, Deleting,
         NEW t \in Thread, ThreadStep(t) \/ ServiceChoice(t)
  PROVE  RefsLive'
<1>1. CASE UNCHANGED <<ref, ctx, release>>
  BY <1>1 DEF RefsLive
<1>2. CASE PushGrab(t)
  BY <1>2, InHand, HasRef
  DEF PushGrab, TypeOK, CtxType, MqType, RefsLive, ctxVars, mqVars
<1>3. CASE GrabCtx(t)
  BY <1>3, InHand, HasRef
  DEF GrabCtx, AtLoop, TypeOK, CtxType, MqType, RefsLive, ctxVars, mqVars
<1>4. CASE Release(t)
  BY <1>4, InHand, HasRef
  DEF Release, TypeOK, CtxType, MqType, RefsLive, ctxVars, mqVars
<1>5. CASE MqMarkRelease(t)
  BY <1>5, InHand, HasRef
  DEF MqMarkRelease, TypeOK, CtxType, MqType, RefsLive, ctxVars, mqVars,
     Deleting
<1>6. CASE FreeCtx(t)
  BY <1>6, InHand, HasRef
  DEF FreeCtx, Done, TypeOK, CtxType, MqType, RefsLive, ctxVars, mqVars,
     Deleting
<1>7. ASSUME NEW h \in Handle, Register(t, h) PROVE RefsLive'
  BY <1>7, InHand, HasRef
  DEF Register, AtLoop, TypeOK, CtxType, MqType, RefsLive, ctxVars, mqVars,
     Launching, QueueLife
<1>8. CASE Reserve(t)
  BY <1>8, InHand, HasRef
  DEF Reserve, AtLaunch, TypeOK, CtxType, MqType, RefsLive, ctxVars, mqVars
<1>. QED
  BY <1>1, <1>2, <1>3, <1>4, <1>5, <1>6, <1>7, <1>8
  DEF ThreadStep, ServiceChoice, MqPush, Retire, MqCreate, ReserveDec, InitDone, SetInit,
     PushNew, LogLaunch, ReturnLaunch, FailRetire, FailMqRelease, FailDropMessage, FailDropQueue,
     PopGlobal, MqRelease, DropMessage, DropQueue, MqPop, MqPopEmpty, MqLength,
     CallbackReturn, NextQueue, KeepQueue, PushBack, Send, Post, HandleExit,
     Abort, CallPush, CallRelease, DropEnd, DropOne, RetireHandle, ctxVars,
     mqVars, loopVars, launchVars, opVars

\* delete_context finds a queue to mark.
LEMMA MarkedQueue ==
  ASSUME TypeOK, Shape, RefCount, QueueLife, Launching, Deleting, NEW t \in Thread, op[t] = "mark"
  PROVE  to[t] \in Handle /\ queue[to[t]] = "live"
<1>1. to[t] \in Handle /\ ref[to[t]] = 0 /\ ctx[to[t]] = "live" /\ ~release[to[t]]
  BY InHand DEF Deleting
<1>2. queue[to[t]] # "unborn"
  BY <1>1, HasRef DEF Launching
<1>3. queue[to[t]] \in Life
  BY <1>1 DEF TypeOK, MqType
<1>. QED  BY <1>1, <1>2, <1>3 DEF QueueLife, Life

LEMMA QueueLifeNext ==
  ASSUME TypeOK, Shape, RefCount, QueueLife, Launching, Known, Deleting, Ownership,
         NEW t \in Thread, ThreadStep(t) \/ ServiceChoice(t)
  PROVE  QueueLife'
<1>1. CASE UNCHANGED <<ctx, queue, inGlobal, release, mq>>
  BY <1>1 DEF QueueLife
<1>2. CASE MqPush(t)
  BY <1>2, InHand, HasRef, NoneApart
  DEF MqPush, TypeOK, CtxType, MqType, QueueLife, ctxVars, mqVars, OpType,
     Known, KnownQueue
<1>3. CASE MqMarkRelease(t)
  BY <1>3, InHand, HasRef, NoneApart, MarkedQueue
  DEF MqMarkRelease, TypeOK, CtxType, MqType, QueueLife, ctxVars, mqVars
<1>4. CASE FreeCtx(t)
  BY <1>4, InHand, HasRef, NoneApart
  DEF FreeCtx, Done, TypeOK, CtxType, MqType, QueueLife, ctxVars, mqVars,
     Deleting
<1>5. CASE MqCreate(t)
  BY <1>5, InHand, HasRef, NoneApart
  DEF MqCreate, AtLaunch, TypeOK, CtxType, MqType, QueueLife, ctxVars, mqVars,
     Launching
<1>6. CASE FailDropMessage(t)
  BY <1>6, InHand, HasRef, NoneApart
  DEF FailDropMessage, DropOne, CallPush, AtLaunch, TypeOK, CtxType, MqType,
     QueueLife, ctxVars, mqVars
<1>7. CASE FailDropQueue(t)
  BY <1>7, InHand, HasRef, NoneApart
  DEF FailDropQueue, DropEnd, AtLaunch, TypeOK, CtxType, MqType, QueueLife,
     ctxVars, mqVars, Ownership
<1>8. CASE DropMessage(t)
  BY <1>8, InHand, HasRef, NoneApart
  DEF DropMessage, DropOne, CallPush, AtLoop, TypeOK, CtxType, MqType,
     QueueLife, ctxVars, mqVars
<1>9. CASE DropQueue(t)
  BY <1>9, InHand, HasRef, NoneApart
  DEF DropQueue, DropEnd, AtLoop, TypeOK, CtxType, MqType, QueueLife, ctxVars,
     mqVars, Ownership
<1>10. CASE MqPop(t)
  BY <1>10, InHand, HasRef, NoneApart
  DEF MqPop, AtLoop, TypeOK, CtxType, MqType, QueueLife, ctxVars, mqVars
<1>11. CASE MqPopEmpty(t)
  BY <1>11, InHand, HasRef, NoneApart
  DEF MqPopEmpty, CallRelease, AtLoop, TypeOK, CtxType, MqType, QueueLife,
     ctxVars, mqVars
<1>12. ASSUME NEW h \in Handle, Register(t, h) PROVE QueueLife'
  BY <1>12, InHand, HasRef, NoneApart
  DEF Register, AtLoop, TypeOK, CtxType, MqType, QueueLife, ctxVars, mqVars
<1>. QED
  BY <1>1, <1>2, <1>3, <1>4, <1>5, <1>6, <1>7, <1>8, <1>9, <1>10, <1>11, <1>12
  DEF ThreadStep, ServiceChoice, PushGrab, Release, Retire, Reserve, ReserveDec, InitDone, SetInit,
     PushNew, LogLaunch, ReturnLaunch, FailRetire, FailMqRelease, PopGlobal, GrabCtx, MqRelease,
     MqLength, CallbackReturn, NextQueue, KeepQueue, PushBack, Send, Post,
     HandleExit, Abort, CallPush, CallRelease, RetireHandle, ctxVars, mqVars,
     loopVars, launchVars, opVars

-----------------------------------------------------------------------------
(* Launches *)

LEMMA HeldLive ==
  ASSUME TypeOK, Shape, Ownership, NEW t \in Thread
  PROVE  /\ pc[t] # "idle" => queue[q[t]] = "live"
         /\ pc[t] = "pushback" => queue[nq[t]] = "live"
         /\ launch[t] \in LaunchHolds => queue[new[t]] = "live"
BY InHand DEF Ownership, Owned, Holds, LaunchHolds

LEMMA LaunchingNext ==
  ASSUME TypeOK, Shape, QueueLife, Launching, Deleting, Ownership,
         NEW t \in Thread, ThreadStep(t) \/ ServiceChoice(t)
  PROVE  Launching'
<1>. USE InHand, NoneApart DEF TypeOK, CtxType, MqType, LaunchType, Launching, ctxVars, mqVars,
         loopVars, launchVars, opVars, Life, AtLoop, AtLaunch
<1>1. CASE UNCHANGED <<ctx, queue, launch, new>>
  BY <1>1
<1>2. CASE Release(t)
  BY <1>2 DEF Release
<1>3. CASE FreeCtx(t)
  BY <1>3 DEF FreeCtx, Done, Deleting
<1>4. CASE MqCreate(t)
  BY <1>4 DEF MqCreate, Shape, ShapeOf
<1>5. CASE InitDone(t)
  BY <1>5 DEF InitDone, CallRelease
<1>6. CASE SetInit(t)
  BY <1>6 DEF SetInit
<1>7. CASE PushNew(t)
  BY <1>7 DEF PushNew
<1>8. CASE FailRetire(t)
  BY <1>8 DEF FailRetire, RetireHandle, CallRelease
<1>9. CASE FailMqRelease(t)
  BY <1>9 DEF FailMqRelease
<1>10. CASE FailDropQueue(t)
  BY <1>10, HeldLive DEF FailDropQueue, DropEnd, LaunchHolds, LaunchPoint
<1>11. CASE DropQueue(t)
  BY <1>11, HeldLive DEF DropQueue, DropEnd
<1>12. ASSUME NEW h \in Handle, Register(t, h) PROVE Launching'
  BY <1>12 DEF Register, QueueLife, Shape, ShapeOf
<1>13. CASE Reserve(t)
  BY <1>13 DEF Reserve
<1>14. CASE ReserveDec(t)
  BY <1>14 DEF ReserveDec
<1>15. CASE LogLaunch(t)
  BY <1>15 DEF LogLaunch
<1>16. CASE ReturnLaunch(t)
  BY <1>16 DEF ReturnLaunch
<1>. QED
  BY <1>1, <1>2, <1>3, <1>4, <1>5, <1>6, <1>7, <1>8, <1>9, <1>10, <1>11, <1>12,
     <1>13, <1>14, <1>15, <1>16
  DEF ThreadStep, ServiceChoice, PushGrab, MqPush, MqMarkRelease, Retire,
     FailDropMessage, PopGlobal, GrabCtx, MqRelease, DropMessage, MqPop, MqPopEmpty,
     MqLength, CallbackReturn, NextQueue, KeepQueue, PushBack, Send, Post,
     HandleExit, Abort, CallPush, CallRelease, DropOne, RetireHandle

-----------------------------------------------------------------------------
(* Who is known *)

\* A queue that was created stays known.
LEMMA KnownStays ==
  ASSUME TypeOK, Shape, Ownership, NEW t \in Thread, ThreadStep(t) \/ ServiceChoice(t)
  PROVE  \A h \in Handle : queue[h] # "unborn" => queue'[h] # "unborn"
<1>. USE InHand DEF TypeOK, MqType, mqVars, AtLoop, AtLaunch
<1>1. CASE UNCHANGED queue
  BY <1>1
<1>2. CASE MqCreate(t)
  BY <1>2 DEF MqCreate
<1>3. CASE FailDropQueue(t)
  BY <1>3 DEF FailDropQueue, DropEnd
<1>4. CASE DropQueue(t)
  BY <1>4 DEF DropQueue, DropEnd
<1>. QED
  BY <1>1, <1>2, <1>3, <1>4
  DEF ThreadStep, ServiceChoice, PushGrab, MqPush, Release, MqMarkRelease, FreeCtx,
     Retire, Reserve, ReserveDec, InitDone, SetInit, PushNew, LogLaunch, ReturnLaunch, FailRetire,
     FailMqRelease, FailDropMessage, PopGlobal, GrabCtx, MqRelease, DropMessage, MqPop, MqPopEmpty,
     MqLength, CallbackReturn, NextQueue, KeepQueue, PushBack, Send, Post,
     HandleExit, Abort, Register, CallPush, CallRelease, DropOne, RetireHandle

\* The message that t sends has a source and a destination that are known.
SendsKnown(t) == op'[t] \in {"grab", "push"} => KnownQueue(to'[t]) /\ KnownQueue(msg'[t].src)

LEMMA SendsKnownNext ==
  ASSUME TypeOK, Shape, Known, Ownership, NEW t \in Thread, ThreadStep(t) \/ ServiceChoice(t)
  PROVE  SendsKnown(t)
<1>. USE InHand, NoneApart DEF SendsKnown, TypeOK, OpType, opVars
<1>1. CASE UNCHANGED <<op, to, msg>>
  BY <1>1 DEF Known
<1>2. CASE PushGrab(t)
  BY <1>2 DEF PushGrab, Known
<1>3. CASE op'[t] \notin {"grab", "push"}
  BY <1>3
<1>4. ASSUME NEW h \in Handle, queue[h] # "unborn", mq[h] # <<>>, DropOne(t, h) PROVE SendsKnown(t)
  <2>1. Head(mq[h]) = mq[h][1] /\ 1 \in DOMAIN mq[h] /\ Head(mq[h]) \in Message
    BY <1>4 DEF MqType
  <2>2. CASE Head(mq[h]).src = None
    BY <1>4, <2>2 DEF DropOne, Known
  <2>3. CASE Head(mq[h]).src # None
    <3>1. op'[t] = "grab" /\ to'[t] = Head(mq[h]).src /\ msg'[t] = [id |-> Head(mq[h]).id, src |-> h, err |-> TRUE]
      BY <1>4, <2>3 DEF DropOne, CallPush
    <3>2. KnownQueue(Head(mq[h]).src)
      BY <2>1 DEF Known
    <3>. QED  BY <1>4, <3>1, <3>2 DEF KnownQueue
  <2>. QED  BY <2>2, <2>3
<1>5. CASE FailDropMessage(t)
  BY <1>5, <1>4, HeldLive DEF FailDropMessage, DropOne, AtLaunch, LaunchHolds, LaunchPoint
<1>6. CASE DropMessage(t)
  BY <1>6, <1>4, HeldLive DEF DropMessage, DropOne, AtLoop
<1>7. ASSUME NEW h \in Handle, Send(t, h) PROVE SendsKnown(t)
  <2>1. KnownQueue(Self(t))
    BY <1>7, HeldLive DEF Send, InService, AtLoop, AtLaunch, Self, LaunchHolds, LaunchPoint, KnownQueue
  <2>2. to'[t] = h /\ msg'[t].src = Self(t)
    BY <1>7 DEF Send, CallPush
  <2>. QED  BY <1>7, <2>1, <2>2 DEF Send, KnownQueue
<1>8. ASSUME NEW h \in Handle, Post(t, h) PROVE SendsKnown(t)
  <2>1. to'[t] = h /\ msg'[t].src = None
    BY <1>8 DEF Post, CallPush
  <2>. QED  BY <1>8, <2>1 DEF Post, KnownQueue
<1>9. ASSUME NEW h \in Handle, HandleExit(t, h) PROVE SendsKnown(t)
  <2>1. CASE MonitorExit = None
    BY <1>9, <2>1, <1>1 DEF HandleExit
  <2>2. CASE MonitorExit # None
    <3>1. to'[t] = MonitorExit /\ msg'[t].src = h
      BY <1>9, <2>2 DEF HandleExit, CallPush
    <3>. QED  BY <1>9, <3>1 DEF HandleExit, Known, KnownQueue
  <2>. QED  BY <2>1, <2>2
<1>10. CASE MqPush(t) \/ Release(t) \/ MqMarkRelease(t) \/ FreeCtx(t) \/ InitDone(t)
            \/ MqPopEmpty(t) \/ KeepQueue(t) \/ PushBack(t)
  <2>1. op'[t] \notin {"grab", "push"}
    BY <1>10 DEF MqPush, Release, MqMarkRelease, FreeCtx, Done, InitDone, MqPopEmpty, KeepQueue,
      PushBack, CallRelease
  <2>. QED  BY <2>1, <1>3
<1>11. CASE Retire(t) \/ FailRetire(t)
  <2>1. UNCHANGED <<op, to, msg>> \/ op'[t] \notin {"grab", "push"}
    BY <1>11 DEF Retire, FailRetire, RetireHandle, CallRelease
  <2>. QED  BY <2>1, <1>1, <1>3
<1>. QED
  BY <1>1, <1>2, <1>5, <1>6, <1>7, <1>8, <1>9, <1>10, <1>11
  DEF ThreadStep, ServiceChoice, MqCreate, Reserve, ReserveDec, SetInit, PushNew, LogLaunch,
     ReturnLaunch, FailMqRelease, FailDropQueue, PopGlobal, GrabCtx, MqRelease, DropQueue, MqPop, MqLength,
     CallbackReturn, NextQueue, Abort, Register, DropEnd

LEMMA KnownNext ==
  ASSUME TypeOK, Shape, Known, Ownership, NEW t \in Thread, ThreadStep(t) \/ ServiceChoice(t)
  PROVE  Known'
<1>. USE NoneApart, InHand, KnownStays DEF KnownQueue
<1>1. TypeOK' /\ Shape'
  BY TypeNext, ShapeNext
<1>2. ASSUME NEW u \in Thread, op'[u] \in {"grab", "push"}
      PROVE  KnownQueue(to[u])' /\ KnownQueue(msg[u].src)'
  <2>1. to'[u] \in Source /\ msg'[u].src \in Source
    BY <1>1, MessageType DEF TypeOK, OpType
  <2>2. KnownQueue(to'[u]) /\ KnownQueue(msg'[u].src)
    <3>1. CASE u = t
      BY <1>2, <3>1, SendsKnownNext DEF SendsKnown
    <3>2. CASE u # t
      BY <1>2, <3>2, OthersOpNext DEF OthersOp, Known
    <3>. QED  BY <3>1, <3>2
  <2>. QED  BY <2>1, <2>2 DEF Source
<1>3. ASSUME NEW h \in Handle, NEW i \in DOMAIN mq'[h]
      PROVE  KnownQueue(mq[h][i].src)'
  <2>1. mq[h] \in Seq(Message) /\ mq'[h] \in Seq(Message)
    BY <1>1 DEF TypeOK, MqType
  <2>2. mq'[h][i] \in Message
    BY <2>1, <1>3
  <2>3. mq'[h][i].src \in Source
    BY <2>2, MessageType
  <2>4. KnownQueue(mq'[h][i].src)
    <3>1. CASE mq'[h] = mq[h]
      BY <1>3, <3>1 DEF Known
    <3>2. CASE mq'[h] = Tail(mq[h]) /\ mq[h] # <<>>
      <4>1. i + 1 \in DOMAIN mq[h] /\ mq'[h][i] = mq[h][i + 1]
        BY <1>3, <2>1, <3>2
      <4>. QED  BY <4>1 DEF Known
    <3>3. CASE MqPush(t)
      <4>1. to[t] \in Handle /\ msg[t] \in Message /\ KnownQueue(msg[t].src)
        BY <3>3 DEF MqPush, Known, TypeOK, OpType
      <4>2. mq'[h] = mq[h] \/ mq'[h] = Append(mq[h], msg[t])
        BY <3>3, <4>1 DEF MqPush, TypeOK, MqType
      <4>3. CASE mq'[h] = Append(mq[h], msg[t])
        <5>1. mq'[h][i] = msg[t] \/ (i \in DOMAIN mq[h] /\ mq'[h][i] = mq[h][i])
          BY <1>3, <2>1, <4>1, <4>3
        <5>. QED  BY <5>1, <4>1 DEF Known
      <4>. QED  BY <4>2, <4>3, <3>1
    <3>4. CASE DropMessage(t) \/ FailDropMessage(t) \/ MqPop(t)
      <4>1. mq'[h] = mq[h] \/ (mq'[h] = Tail(mq[h]) /\ mq[h] # <<>>)
        BY <3>4 DEF DropMessage, FailDropMessage, DropOne, MqPop, AtLoop, AtLaunch, TypeOK, MqType
      <4>. QED  BY <4>1, <3>1, <3>2
    <3>5. CASE UNCHANGED mq
      BY <3>5, <3>1
    <3>. QED
      BY <3>3, <3>4, <3>5
      DEF ThreadStep, ServiceChoice, PushGrab, Release, MqMarkRelease, FreeCtx,
         Retire, MqCreate, Reserve, ReserveDec, InitDone, SetInit, PushNew, LogLaunch,
         ReturnLaunch, FailRetire, FailMqRelease,
         FailDropQueue, PopGlobal, GrabCtx, MqRelease, DropQueue, MqPopEmpty,
         MqLength, CallbackReturn, NextQueue, KeepQueue, PushBack, Send, Post,
         HandleExit, Abort, Register, CallPush, CallRelease, DropEnd, RetireHandle, mqVars
  <2>. QED  BY <2>3, <2>4 DEF Source
<1>4. KnownQueue(MonitorExit)'
  <2>1. MonitorExit \in Source
    BY MonitorAssumption, BootAssumption DEF Source
  <2>. QED  BY <2>1 DEF Known, Source
<1>5. KnownQueue(remote)'
  <2>1. remote \in Source
    BY DEF TypeOK, CtxType
  <2>2. CASE Reserve(t)
    <3>1. launch[t] \in LaunchHolds /\ new[t] \in Handle
      BY <2>2 DEF Reserve, AtLaunch, LaunchHolds, LaunchPoint
    <3>2. queue[new[t]] = "live" /\ queue' = queue /\ remote' = new[t]
      BY <2>2, <3>1, HeldLive DEF Reserve, mqVars
    <3>. QED  BY <3>2
  <2>3. CASE UNCHANGED remote
    BY <2>1, <2>3 DEF Known, Source
  <2>. QED
    BY <2>2, <2>3
    DEF ThreadStep, ServiceChoice, PushGrab, MqPush, Release, MqMarkRelease, FreeCtx, Retire, MqCreate,
       ReserveDec, InitDone, SetInit, PushNew, LogLaunch, ReturnLaunch, FailRetire, RetireHandle,
       FailMqRelease, FailDropMessage, FailDropQueue, PopGlobal, GrabCtx, MqRelease, DropMessage,
       DropQueue, MqPop, MqPopEmpty, MqLength, CallbackReturn, NextQueue, KeepQueue, PushBack, Send,
       Post, HandleExit, Abort, Register, DropEnd, DropOne, ctxVars
<1>. QED  BY <1>2, <1>3, <1>4, <1>5 DEF Known

-----------------------------------------------------------------------------
(* Deleting a context *)

LEMMA DeletingNext ==
  ASSUME TypeOK, Shape, RefCount, RefsLive, Deleting, NEW t \in Thread, ThreadStep(t) \/ ServiceChoice(t)
  PROVE  Deleting'
<1>0. \A u \in Thread \ {t} : op'[u] = op[u] /\ to'[u] = to[u]
  BY OthersOpNext DEF OthersOp
<1>. USE DEF TypeOK, CtxType, MqType, OpType, ctxVars, mqVars, AtLoop
<1>1. CASE UNCHANGED <<ctx, ref, release, op, to>>
  BY <1>1 DEF Deleting
<1>2. CASE UNCHANGED <<ctx, ref, release>> /\ op'[t] \notin {"mark", "free"}
  <2>1. ASSUME NEW u \in Thread, op'[u] \in {"mark", "free"}
        PROVE  u # t /\ op[u] = op'[u] /\ to[u] = to'[u]
    BY <1>0, <1>2, <2>1
  <2>2. ASSUME NEW u \in Thread, op'[u] \in {"mark", "free"}
        PROVE  ref'[to'[u]] = 0 /\ ctx'[to'[u]] = "live" /\ (release'[to'[u]] <=> op'[u] = "free")
    BY <1>2, <2>1, <2>2 DEF Deleting
  <2>3. ASSUME NEW u \in Thread, NEW v \in Thread,
               op'[u] \in {"mark", "free"}, op'[v] \in {"mark", "free"}, to'[u] = to'[v]
        PROVE  u = v
    BY <2>1, <2>3 DEF Deleting
  <2>. QED  BY <2>2, <2>3 DEF Deleting
<1>3. CASE PushGrab(t)
  <2>1. CASE slot[to[t]]
    <3>1. op[t] = "grab" /\ op'[t] = "push" /\ to[t] \in Handle /\ ref[to[t]] > 0
      BY <1>3, <2>1, InHand, HasRef DEF PushGrab
    <3>2. ASSUME NEW u \in Thread, op'[u] \in {"mark", "free"}
          PROVE  op[u] = op'[u] /\ to[u] = to'[u] /\ to[u] # to[t]
      BY <1>0, <3>1, <3>2 DEF Deleting
    <3>. QED  BY <1>3, <2>1, <3>1, <3>2, InHand DEF PushGrab, Deleting
  <2>2. CASE ~slot[to[t]]
    BY <1>3, <2>2, <1>2 DEF PushGrab
  <2>. QED  BY <2>1, <2>2
<1>4. CASE GrabCtx(t)
  BY <1>0, <1>4, InHand, HasRef DEF GrabCtx, Deleting, opVars
<1>5. CASE Release(t)
  BY <1>0, <1>5, InHand, HasRef DEF Release, RefsLive, Deleting
<1>6. CASE MqMarkRelease(t)
  BY <1>0, <1>6, InHand DEF MqMarkRelease, Deleting
<1>7. CASE FreeCtx(t)
  BY <1>0, <1>7, InHand DEF FreeCtx, Done, Deleting
<1>8. ASSUME NEW h \in Handle, Register(t, h) PROVE Deleting'
  BY <1>0, <1>8, InHand DEF Register, Deleting, opVars
<1>9. CASE \/ MqPush(t) \/ InitDone(t) \/ MqPopEmpty(t) \/ KeepQueue(t) \/ PushBack(t)
           \/ \E h \in Handle : Send(t, h) \/ Post(t, h)
  <2>1. UNCHANGED <<ctx, ref, release>> /\ op'[t] \notin {"mark", "free"}
    BY <1>9 DEF MqPush, InitDone, MqPopEmpty, KeepQueue, PushBack, Send, Post, CallPush, CallRelease
  <2>. QED  BY <2>1, <1>2
<1>10. CASE \/ Retire(t) \/ FailRetire(t) \/ FailDropMessage(t) \/ DropMessage(t)
            \/ \E h \in Handle : HandleExit(t, h)
  <2>1. UNCHANGED <<ctx, ref, release>> /\ (UNCHANGED <<op, to>> \/ op'[t] \notin {"mark", "free"})
    BY <1>10 DEF Retire, FailRetire, RetireHandle, FailDropMessage, DropMessage, DropOne, HandleExit,
      CallPush, CallRelease
  <2>. QED  BY <2>1, <1>1, <1>2
<1>11. CASE \/ MqCreate(t) \/ SetInit(t) \/ PushNew(t) \/ FailMqRelease(t) \/ FailDropQueue(t)
            \/ PopGlobal(t) \/ MqRelease(t) \/ DropQueue(t) \/ MqPop(t) \/ MqLength(t)
            \/ CallbackReturn(t) \/ NextQueue(t) \/ ReserveDec(t) \/ LogLaunch(t) \/ ReturnLaunch(t)
            \/ \E h \in Handle : Abort(t, h)
  BY <1>1, <1>11
  DEF MqCreate, SetInit, PushNew, FailMqRelease, FailDropQueue, PopGlobal, MqRelease, DropQueue, MqPop,
     MqLength, CallbackReturn, NextQueue, ReserveDec, LogLaunch, ReturnLaunch, Abort, DropEnd, opVars
<1>12. CASE Reserve(t)
  BY <1>0, <1>12, InHand, HasRef DEF Reserve, AtLaunch, Deleting, opVars
<1>. QED
  BY <1>3, <1>4, <1>5, <1>6, <1>7, <1>8, <1>9, <1>10, <1>11, <1>12 DEF ThreadStep, ServiceChoice

-----------------------------------------------------------------------------
(* The global queue as a set without repetition *)

Once(s) == \A i, j \in DOMAIN s : s[i] = s[j] => i = j
In(x, s) == \E i \in DOMAIN s : s[i] = x

LEMMA AppendOnce ==
  ASSUME NEW S, NEW s \in Seq(S), NEW x \in S, Once(s), ~In(x, s)
  PROVE  Once(Append(s, x)) /\ \A y : In(y, Append(s, x)) <=> In(y, s) \/ y = x
<1>1. Len(s) \in Nat /\ DOMAIN s = 1..Len(s)
  OBVIOUS
<1>2. DOMAIN Append(s, x) = 1..(Len(s) + 1)
  BY <1>1
<1>3. Append(s, x)[Len(s) + 1] = x /\ \A i \in DOMAIN s : Append(s, x)[i] = s[i]
  BY <1>1
<1>4. Once(Append(s, x))
  BY <1>1, <1>2, <1>3 DEF Once, In
<1>5. ASSUME NEW y, In(y, s) \/ y = x PROVE In(y, Append(s, x))
  BY <1>1, <1>2, <1>3, <1>5 DEF In
<1>6. ASSUME NEW y, In(y, Append(s, x)), y # x PROVE In(y, s)
  BY <1>1, <1>2, <1>3, <1>6 DEF In
<1>. QED  BY <1>4, <1>5, <1>6

LEMMA TailOnce ==
  ASSUME NEW S, NEW s \in Seq(S), s # <<>>, Once(s)
  PROVE  Once(Tail(s)) /\ Head(s) \in S /\ In(Head(s), s)
         /\ \A y : In(y, Tail(s)) <=> In(y, s) /\ y # Head(s)
<1>1. Len(s) \in Nat /\ Len(s) > 0 /\ DOMAIN s = 1..Len(s) /\ Head(s) = s[1] /\ s[1] \in S
  OBVIOUS
<1>2. DOMAIN Tail(s) = 1..(Len(s) - 1) /\ \A i \in DOMAIN Tail(s) : Tail(s)[i] = s[i + 1]
  BY <1>1
<1>3. Once(Tail(s))
  BY <1>1, <1>2 DEF Once
<1>4. ASSUME NEW y, In(y, Tail(s)) PROVE In(y, s) /\ y # Head(s)
  BY <1>1, <1>2, <1>4 DEF In, Once
<1>5. ASSUME NEW y, In(y, s), y # Head(s) PROVE In(y, Tail(s))
  <2>1. PICK i \in 1..Len(s) : s[i] = y
    BY <1>1, <1>5 DEF In
  <2>2. i - 1 \in DOMAIN Tail(s) /\ Tail(s)[i - 1] = y
    BY <1>1, <1>2, <1>5, <2>1
  <2>. QED  BY <2>2 DEF In
<1>. QED  BY <1>1, <1>3, <1>4, <1>5 DEF In

-----------------------------------------------------------------------------
(* Owners.  A step leaves the hands of the threads as they are, puts a queue *)
(* into the hands of the thread that takes it, or takes it out of them.      *)

SameHands == \A u \in Thread, h \in Handle : Holds(u, h)' <=> Holds(u, h)
TakesUp(t, g) == \A u \in Thread, h \in Handle : Holds(u, h)' <=> Holds(u, h) \/ (u = t /\ h = g)
GivesUp(t, g) == \A u \in Thread, h \in Handle : Holds(u, h)' <=> Holds(u, h) /\ ~(u = t /\ h = g)

\* OneOwner without its last part, which is about one thread.
Single ==
    /\ Once(gq)
    /\ \A u \in Thread, h \in Handle : Holds(u, h) => ~In(h, gq)
    /\ \A u, v \in Thread, h \in Handle : Holds(u, h) /\ Holds(v, h) => u = v
Apart(t) == q[t] # None => q[t] # nq[t] /\ (launch[t] # "none" => q[t] # new[t])
\* A queue is owned exactly while it is allocated and one of its flags is set.
Flagged(h) == queue[h] = "live" /\ (inGlobal[h] \/ release[h])
OwnedFlagged == \A h \in Handle :
    In(h, gq) \/ (\E u \in Thread : Holds(u, h)) <=> Flagged(h)
NoMailUnflagged == \A h \in Handle : ~inGlobal[h] /\ ~release[h] => mq[h] = <<>>
DropsReleased(t) ==
    (pc[t] = "drop" => release[q[t]]) /\ (launch[t] = "f_drop" => release[new[t]])

OwnershipByParts ==
    /\ Single /\ OwnedFlagged /\ NoMailUnflagged
    /\ \A t \in Thread : Apart(t) /\ DropsReleased(t)

LEMMA OwnershipParts == TypeOK => (Ownership <=> OwnershipByParts)
<1>. SUFFICES ASSUME TypeOK PROVE Ownership <=> OwnershipByParts
  OBVIOUS
<1>1. \A i \in DOMAIN gq : gq[i] \in Handle
  BY DEF TypeOK, MqType
<1>2. OneOwner <=> Single /\ \A t \in Thread : Apart(t)
  <2>1. ASSUME OneOwner PROVE Single /\ \A t \in Thread : Apart(t)
    BY <2>1 DEF OneOwner, Single, Apart, Once, In
  <2>2. ASSUME Single, \A t \in Thread : Apart(t) PROVE OneOwner
    BY <1>1, <2>2 DEF OneOwner, Single, Apart, Once, In
  <2>. QED  BY <2>1, <2>2
<1>. QED
  BY <1>2 DEF Ownership, OwnedFlagged, Owned, InGq, In, Flagged, NoMailUnflagged, DropsReleased,
    OwnershipByParts

LEMMA KeepHands ==
  ASSUME Single, OwnedFlagged, SameHands, UNCHANGED gq, \A h \in Handle : Flagged(h)' <=> Flagged(h)
  PROVE  Single' /\ OwnedFlagged'
BY DEF Single, OwnedFlagged, SameHands, In, Once

LEMMA PutInGlobal ==
  ASSUME TypeOK, Single, OwnedFlagged, SameHands, NEW g \in Handle, Flagged(g)',
         \A h \in Handle \ {g} : Flagged(h)' <=> Flagged(h),
         gq' = IF Flagged(g) THEN gq ELSE Append(gq, g)
  PROVE  Single' /\ OwnedFlagged'
<1>1. CASE Flagged(g)
  BY <1>1, KeepHands
<1>2. CASE ~Flagged(g)
  <2>1. Once(gq) /\ ~In(g, gq) /\ gq \in Seq(Handle)
    BY <1>2 DEF Single, OwnedFlagged, TypeOK, MqType
  <2>2. Once(gq') /\ \A y : In(y, gq') <=> In(y, gq) \/ y = g
    BY <1>2, <2>1, AppendOnce
  <2>3. In(g, gq)' /\ \A h \in Handle : In(h, gq)' <=> In(h, gq) \/ h = g
    BY <2>2 DEF In
  <2>4. Once(gq)'
    BY <2>2 DEF Once
  <2>. QED  BY <1>2, <2>3, <2>4 DEF Single, OwnedFlagged, SameHands
<1>. QED  BY <1>1, <1>2

LEMMA TakeNew ==
  ASSUME Single, OwnedFlagged, NEW t \in Thread, NEW g \in Handle, TakesUp(t, g), UNCHANGED gq,
         ~Flagged(g), Flagged(g)', \A h \in Handle \ {g} : Flagged(h)' <=> Flagged(h)
  PROVE  Single' /\ OwnedFlagged'
<1>1. \A h \in Handle : In(h, gq)' <=> In(h, gq)
  BY DEF In
<1>2. Once(gq)'
  BY DEF Single, Once
<1>. QED  BY <1>1, <1>2 DEF Single, OwnedFlagged, TakesUp

LEMMA TakeHead ==
  ASSUME TypeOK, Single, OwnedFlagged, NEW t \in Thread, gq # <<>>, TakesUp(t, Head(gq)), gq' = Tail(gq),
         \A h \in Handle : Flagged(h)' <=> Flagged(h)
  PROVE  Single' /\ OwnedFlagged'
<1>1. Once(gq) /\ gq \in Seq(Handle)
  BY DEF Single, TypeOK, MqType
<1>2. /\ Once(gq') /\ Head(gq) \in Handle /\ In(Head(gq), gq)
      /\ \A y : In(y, gq') <=> In(y, gq) /\ y # Head(gq)
  BY <1>1, TailOnce
<1>3. \A h \in Handle : In(h, gq)' <=> In(h, gq) /\ h # Head(gq)
  BY <1>2 DEF In
<1>4. Once(gq)'
  BY <1>2 DEF Once
<1>. QED  BY <1>2, <1>3, <1>4 DEF Single, OwnedFlagged, TakesUp

LEMMA GiveBack ==
  ASSUME TypeOK, Single, OwnedFlagged, NEW t \in Thread, NEW g \in Handle, Holds(t, g), GivesUp(t, g),
         gq' = Append(gq, g), \A h \in Handle : Flagged(h)' <=> Flagged(h)
  PROVE  Single' /\ OwnedFlagged'
<1>1. Once(gq) /\ ~In(g, gq) /\ gq \in Seq(Handle)
  BY DEF Single, TypeOK, MqType
<1>2. Once(gq') /\ \A y : In(y, gq') <=> In(y, gq) \/ y = g
  BY <1>1, AppendOnce
<1>3. \A h \in Handle : In(h, gq)' <=> In(h, gq) \/ h = g
  BY <1>2 DEF In
<1>4. Once(gq)'
  BY <1>2 DEF Once
<1>5. \A u \in Thread : ~Holds(u, g)'
  BY DEF Single, GivesUp
<1>. QED  BY <1>3, <1>4, <1>5 DEF Single, OwnedFlagged, GivesUp

LEMMA LetGo ==
  ASSUME Single, OwnedFlagged, NEW t \in Thread, NEW g \in Handle, Holds(t, g), GivesUp(t, g),
         UNCHANGED gq, ~Flagged(g)', \A h \in Handle \ {g} : Flagged(h)' <=> Flagged(h)
  PROVE  Single' /\ OwnedFlagged'
<1>1. \A h \in Handle : In(h, gq)' <=> In(h, gq)
  BY DEF In
<1>2. Once(gq)'
  BY DEF Single, Once
<1>3. ~In(g, gq) /\ \A u \in Thread : ~Holds(u, g)'
  BY DEF Single, GivesUp
<1>. QED  BY <1>1, <1>2, <1>3 DEF Single, OwnedFlagged, GivesUp

\* Steps that touch neither hands nor flags nor the global queue.
LEMMA SameHandsSteps ==
  ASSUME TypeOK, Shape, NEW t \in Thread, OthersLoop(t), OthersLaunch(t),
         \/ PushGrab(t) \/ Release(t) \/ FreeCtx(t) \/ Retire(t) \/ InitDone(t) \/ SetInit(t)
         \/ FailRetire(t) \/ FailDropMessage(t) \/ GrabCtx(t) \/ DropMessage(t) \/ MqPop(t)
         \/ MqLength(t) \/ CallbackReturn(t) \/ KeepQueue(t)
         \/ Reserve(t) \/ ReserveDec(t) \/ LogLaunch(t) \/ ReturnLaunch(t)
         \/ \E h \in Handle : Send(t, h) \/ Post(t, h) \/ HandleExit(t, h) \/ Abort(t, h) \/ Register(t, h)
  PROVE  SameHands /\ UNCHANGED <<gq, queue, inGlobal, release>>
<1>1. UNCHANGED <<gq, queue, inGlobal, release, q, nq>>
  BY DEF PushGrab, Release, FreeCtx, Retire, InitDone, SetInit, FailRetire, FailDropMessage, GrabCtx,
    DropMessage, MqPop, MqLength, CallbackReturn, KeepQueue, Send, Post, HandleExit, Abort, Register,
    Reserve, ReserveDec, LogLaunch, ReturnLaunch, DropOne, mqVars, loopVars
<1>2. ASSUME UNCHANGED <<launch, new>> PROVE SameHands
  BY <1>1, <1>2 DEF SameHands, Holds
<1>. USE <1>1 DEF SameHands, Holds, LaunchHolds, LaunchPoint, OthersLaunch, TypeOK, LaunchType
<1>3. CASE Release(t)
  BY <1>3 DEF Release
<1>4. CASE InitDone(t)
  BY <1>4 DEF InitDone, AtLaunch
<1>5. CASE SetInit(t)
  BY <1>5 DEF SetInit, AtLaunch
<1>6. CASE FailRetire(t)
  BY <1>6 DEF FailRetire, AtLaunch
<1>7. ASSUME NEW h \in Handle, Register(t, h) PROVE SameHands
  BY <1>7 DEF Register, AtLoop
<1>8. CASE Reserve(t)
  BY <1>8 DEF Reserve, AtLaunch
<1>9. CASE ReserveDec(t)
  BY <1>9 DEF ReserveDec, AtLaunch
<1>10. CASE LogLaunch(t)
  BY <1>10 DEF LogLaunch, AtLaunch
<1>11. CASE ReturnLaunch(t)
  BY <1>11 DEF ReturnLaunch, AtLaunch
<1>. QED
  BY <1>1, <1>2, <1>3, <1>4, <1>5, <1>6, <1>7, <1>8, <1>9, <1>10, <1>11
  DEF PushGrab, FreeCtx, Retire, FailDropMessage, GrabCtx, DropMessage, MqPop, MqLength, CallbackReturn,
     KeepQueue, Send, Post, HandleExit, Abort, DropOne, launchVars

LEMMA OwnersNext ==
  ASSUME TypeOK, Shape, RefCount, RefsLive, QueueLife, Launching, Known, Deleting, Ownership,
         NEW t \in Thread, ThreadStep(t) \/ ServiceChoice(t)
  PROVE  Single' /\ OwnedFlagged'
<1>0. OthersLoop(t) /\ OthersLaunch(t) /\ Single /\ OwnedFlagged /\ Apart(t)
  BY OthersLoopNext, OthersLaunchNext, OwnershipParts DEF OwnershipByParts
<1>. USE InHand, NoneApart DEF AtLoop, AtLaunch
<1>1. ASSUME UNCHANGED <<queue, inGlobal, release>> PROVE \A h \in Handle : Flagged(h)' <=> Flagged(h)
  BY <1>1 DEF Flagged
<1>2. CASE SameHands /\ UNCHANGED <<gq, queue, inGlobal, release>>
  BY <1>0, <1>1, <1>2, KeepHands
<1>3. CASE MqPush(t)
  <2>0. PICK g \in Handle : g = to[t]
    BY <1>3 DEF MqPush
  <2>1. SameHands
    BY <1>3 DEF MqPush, loopVars, launchVars, SameHands, Holds
  <2>2. ref[g] > 0
    BY <1>3, <2>0, HasRef DEF MqPush
  <2>3. ~release[g] /\ queue[g] = "live"
    BY <1>3, <2>0, <2>2 DEF MqPush, RefsLive, Known, KnownQueue, QueueLife, TypeOK, MqType, Life
  <2>4. gq' = (IF Flagged(g) THEN gq ELSE Append(gq, g)) /\ Flagged(g)'
    BY <1>3, <2>0, <2>3 DEF MqPush, Flagged, TypeOK, MqType
  <2>5. \A h \in Handle \ {g} : Flagged(h)' <=> Flagged(h)
    BY <1>3, <2>0 DEF MqPush, Flagged, TypeOK, MqType
  <2>. QED  BY <1>0, <2>1, <2>4, <2>5, PutInGlobal
<1>4. CASE MqMarkRelease(t)
  <2>0. PICK g \in Handle : g = to[t]
    BY <1>4 DEF MqMarkRelease
  <2>1. SameHands
    BY <1>4 DEF MqMarkRelease, loopVars, launchVars, SameHands, Holds
  <2>2. ~release[g] /\ queue[g] = "live"
    BY <1>4, <2>0, MarkedQueue DEF MqMarkRelease, Deleting
  <2>3. gq' = (IF Flagged(g) THEN gq ELSE Append(gq, g)) /\ Flagged(g)'
    BY <1>4, <2>0, <2>2 DEF MqMarkRelease, Flagged, TypeOK, MqType
  <2>4. \A h \in Handle \ {g} : Flagged(h)' <=> Flagged(h)
    BY <1>4, <2>0 DEF MqMarkRelease, Flagged, TypeOK, MqType
  <2>. QED  BY <1>0, <2>1, <2>3, <2>4, PutInGlobal
<1>5. CASE MqCreate(t)
  <2>0. PICK g \in Handle : g = new[t]
    BY <1>5 DEF MqCreate
  <2>1. ~Flagged(g) /\ Flagged(g)' /\ \A h \in Handle \ {g} : Flagged(h)' <=> Flagged(h)
    BY <1>5, <2>0 DEF MqCreate, Flagged, Launching, TypeOK, MqType
  <2>2. TakesUp(t, g)
    BY <1>0, <1>5, <2>0 DEF MqCreate, TakesUp, Holds, LaunchHolds, LaunchPoint, OthersLaunch, loopVars,
      TypeOK, LaunchType
  <2>3. UNCHANGED gq
    BY <1>5 DEF MqCreate
  <2>. QED  BY <1>0, <2>1, <2>2, <2>3, TakeNew
<1>6. ASSUME launch[t] \in LaunchHolds, launch'[t] \notin LaunchHolds, UNCHANGED loopVars
      PROVE  new[t] \in Handle /\ Holds(t, new[t]) /\ GivesUp(t, new[t])
  <2>1. new[t] \in Handle /\ q[t] # new[t] /\ nq[t] = None
    BY <1>0, <1>6 DEF LaunchHolds, Shape, ShapeOf, Apart
  <2>. QED  BY <1>0, <1>6, <2>1 DEF GivesUp, Holds, LaunchHolds, OthersLaunch, loopVars
<1>7. ASSUME pc[t] # "idle", pc[t] # "pushback", q'[t] = None, UNCHANGED <<nq, launch, new>>,
             launch[t] = "none"
      PROVE  q[t] \in Handle /\ Holds(t, q[t]) /\ GivesUp(t, q[t])
  <2>1. q[t] \in Handle /\ nq[t] = None
    BY <1>7 DEF Shape, ShapeOf
  <2>. QED  BY <1>0, <1>7, <2>1 DEF GivesUp, Holds, LaunchHolds, OthersLoop
<1>8. CASE PushNew(t)
  <2>1. new[t] \in Handle /\ Holds(t, new[t]) /\ GivesUp(t, new[t])
    BY <1>6, <1>8 DEF PushNew, LaunchHolds, LaunchPoint, TypeOK, LaunchType
  <2>2. gq' = Append(gq, new[t]) /\ UNCHANGED <<queue, inGlobal, release>>
    BY <1>8 DEF PushNew
  <2>. QED  BY <1>0, <1>1, <2>1, <2>2, GiveBack
<1>9. CASE FailMqRelease(t)
  <2>1. CASE release[new[t]]
    <3>1. SameHands
      BY <1>0, <1>9, <2>1 DEF FailMqRelease, SameHands, Holds, LaunchHolds, LaunchPoint, OthersLaunch,
        loopVars, TypeOK, LaunchType
    <3>2. UNCHANGED <<gq, queue, inGlobal, release>>
      BY <1>9, <2>1 DEF FailMqRelease
    <3>. QED  BY <3>1, <3>2, <1>2
  <2>2. CASE ~release[new[t]]
    <3>1. new[t] \in Handle /\ Holds(t, new[t]) /\ GivesUp(t, new[t])
      BY <1>6, <1>9, <2>2 DEF FailMqRelease, LaunchHolds, LaunchPoint, TypeOK, LaunchType
    <3>2. gq' = Append(gq, new[t]) /\ UNCHANGED <<queue, inGlobal, release>>
      BY <1>9, <2>2 DEF FailMqRelease
    <3>. QED  BY <1>0, <1>1, <3>1, <3>2, GiveBack
  <2>. QED  BY <2>1, <2>2
<1>10. CASE FailDropQueue(t)
  <2>0. PICK g \in Handle : g = new[t] /\ Holds(t, g) /\ GivesUp(t, g)
    BY <1>6, <1>10 DEF FailDropQueue, LaunchHolds, LaunchPoint, TypeOK, LaunchType
  <2>1. UNCHANGED gq /\ ~Flagged(g)' /\ \A h \in Handle \ {g} : Flagged(h)' <=> Flagged(h)
    BY <1>10, <2>0 DEF FailDropQueue, DropEnd, Flagged, TypeOK, MqType
  <2>. QED  BY <1>0, <2>0, <2>1, LetGo
<1>11. CASE PopGlobal(t)
  <2>1. TakesUp(t, Head(gq))
    BY <1>0, <1>11 DEF PopGlobal, TakesUp, Holds, OthersLoop, launchVars, TypeOK, LoopType, Shape, ShapeOf
  <2>2. gq # <<>> /\ gq' = Tail(gq) /\ UNCHANGED <<queue, inGlobal, release>>
    BY <1>11 DEF PopGlobal
  <2>. QED  BY <1>0, <1>1, <2>1, <2>2, TakeHead
<1>12. CASE MqRelease(t)
  <2>1. CASE release[q[t]]
    <3>1. SameHands
      BY <1>0, <1>12, <2>1 DEF MqRelease, SameHands, Holds, OthersLoop, launchVars, TypeOK, LoopType
    <3>2. UNCHANGED <<gq, queue, inGlobal, release>>
      BY <1>12, <2>1 DEF MqRelease
    <3>. QED  BY <3>1, <3>2, <1>2
  <2>2. CASE ~release[q[t]]
    <3>1. q[t] \in Handle /\ Holds(t, q[t]) /\ GivesUp(t, q[t])
      BY <1>7, <1>12, <2>2 DEF MqRelease, launchVars, TypeOK, LoopType
    <3>2. gq' = Append(gq, q[t]) /\ UNCHANGED <<queue, inGlobal, release>>
      BY <1>12, <2>2 DEF MqRelease
    <3>. QED  BY <1>0, <1>1, <3>1, <3>2, GiveBack
  <2>. QED  BY <2>1, <2>2
<1>13. CASE DropQueue(t)
  <2>0. PICK g \in Handle : g = q[t] /\ Holds(t, g) /\ GivesUp(t, g)
    BY <1>7, <1>13 DEF DropQueue, launchVars, TypeOK, LoopType
  <2>1. UNCHANGED gq /\ ~Flagged(g)' /\ \A h \in Handle \ {g} : Flagged(h)' <=> Flagged(h)
    BY <1>13, <2>0 DEF DropQueue, DropEnd, Flagged, TypeOK, MqType
  <2>. QED  BY <1>0, <2>0, <2>1, LetGo
<1>14. CASE MqPopEmpty(t)
  <2>0. PICK g \in Handle : g = q[t] /\ Holds(t, g) /\ GivesUp(t, g)
    BY <1>7, <1>14 DEF MqPopEmpty, launchVars, TypeOK, LoopType
  <2>1. ref[g] > 0
    BY <1>14, <2>0, HasRef DEF MqPopEmpty, InLoop
  <2>2. UNCHANGED gq /\ ~Flagged(g)' /\ \A h \in Handle \ {g} : Flagged(h)' <=> Flagged(h)
    BY <1>14, <2>0, <2>1 DEF MqPopEmpty, Flagged, RefsLive, TypeOK, MqType
  <2>. QED  BY <1>0, <2>0, <2>2, LetGo
<1>15. CASE NextQueue(t)
  <2>1. TakesUp(t, Head(gq))
    BY <1>0, <1>15 DEF NextQueue, TakesUp, Holds, OthersLoop, launchVars, TypeOK, LoopType, Shape, ShapeOf
  <2>2. gq # <<>> /\ gq' = Tail(gq) /\ UNCHANGED <<queue, inGlobal, release>>
    BY <1>15 DEF NextQueue
  <2>. QED  BY <1>0, <1>1, <2>1, <2>2, TakeHead
<1>16. CASE PushBack(t)
  <2>1. q[t] \in Handle /\ Holds(t, q[t]) /\ q[t] # nq[t]
    BY <1>0, <1>16 DEF PushBack, Holds, Apart
  <2>2. GivesUp(t, q[t])
    BY <1>0, <1>16, <2>1 DEF PushBack, GivesUp, Holds, OthersLoop, launchVars, LaunchHolds, TypeOK, LoopType
  <2>3. gq' = Append(gq, q[t]) /\ UNCHANGED <<queue, inGlobal, release>>
    BY <1>16 DEF PushBack
  <2>. QED  BY <1>0, <1>1, <2>1, <2>2, <2>3, GiveBack
<1>. QED
  BY <1>0, <1>2, <1>3, <1>4, <1>5, <1>8, <1>9, <1>10, <1>11, <1>12, <1>13, <1>14, <1>15, <1>16,
     SameHandsSteps
  DEF ThreadStep, ServiceChoice

LEMMA ApartNext ==
  ASSUME TypeOK, Shape, QueueLife, Ownership, NEW t \in Thread, ThreadStep(t) \/ ServiceChoice(t)
  PROVE  \A u \in Thread : Apart(u)'
<1>0. Single /\ \A u \in Thread : Apart(u)
  BY OwnershipParts DEF OwnershipByParts
<1>1. ASSUME NEW u \in Thread, u # t PROVE Apart(u)'
  BY <1>0, <1>1, OthersLoopNext, OthersLaunchNext DEF Apart, OthersLoop, OthersLaunch
<1>2. Apart(t)'
  <2>. USE <1>0, InHand, NoneApart DEF Apart, AtLoop, AtLaunch, loopVars, launchVars, TypeOK, LoopType,
           LaunchType
  <2>1. CASE UNCHANGED <<q, nq, launch, new>>
    BY <2>1
  <2>2. CASE Release(t)
    BY <2>2 DEF Release
  <2>3. CASE MqCreate(t)
    BY <2>3 DEF MqCreate
  <2>4. CASE InitDone(t)
    BY <2>4 DEF InitDone
  <2>5. CASE SetInit(t)
    BY <2>5 DEF SetInit
  <2>6. CASE PushNew(t)
    BY <2>6 DEF PushNew
  <2>7. CASE FailRetire(t)
    BY <2>7 DEF FailRetire
  <2>8. CASE FailMqRelease(t)
    BY <2>8 DEF FailMqRelease
  <2>9. CASE FailDropQueue(t)
    BY <2>9 DEF FailDropQueue
  <2>10. CASE PopGlobal(t)
    BY <2>10 DEF PopGlobal, MqType, Shape, ShapeOf
  <2>11. CASE MqRelease(t)
    BY <2>11 DEF MqRelease
  <2>12. CASE DropQueue(t)
    BY <2>12 DEF DropQueue
  <2>13. CASE MqPopEmpty(t)
    BY <2>13 DEF MqPopEmpty
  <2>14. CASE NextQueue(t)
    <3>1. In(Head(gq), gq) /\ q[t] \in Handle /\ ~In(q[t], gq)
      BY <2>14 DEF NextQueue, In, Single, Holds, MqType
    <3>. QED  BY <2>14, <3>1 DEF NextQueue
  <2>15. CASE PushBack(t)
    BY <2>15 DEF PushBack
  <2>16. ASSUME NEW h \in Handle, Register(t, h) PROVE Apart(t)'
    <3>1. queue[h] = "unborn" /\ queue[q[t]] = "live"
      BY <2>16, HeldLive DEF Register, QueueLife
    <3>. QED  BY <2>16, <3>1 DEF Register
  <2>17. CASE Reserve(t)
    BY <2>17 DEF Reserve
  <2>18. CASE ReserveDec(t)
    BY <2>18 DEF ReserveDec
  <2>19. CASE LogLaunch(t)
    BY <2>19 DEF LogLaunch
  <2>20. CASE ReturnLaunch(t)
    BY <2>20 DEF ReturnLaunch
  <2>. QED
    BY <2>1, <2>2, <2>3, <2>4, <2>5, <2>6, <2>7, <2>8, <2>9, <2>10, <2>11, <2>12, <2>13, <2>14, <2>15,
       <2>16, <2>17, <2>18, <2>19, <2>20
    DEF ThreadStep, ServiceChoice, PushGrab, MqPush, MqMarkRelease, FreeCtx, Retire, FailDropMessage,
       GrabCtx, DropMessage, MqPop, MqLength, CallbackReturn, KeepQueue, Send, Post, HandleExit, Abort,
       DropOne
<1>. QED  BY <1>1, <1>2

\* q->release is never cleared.
LEMMA ReleaseStays ==
  ASSUME TypeOK, Shape, NEW t \in Thread, ThreadStep(t) \/ ServiceChoice(t)
  PROVE  \A h \in Handle : release[h] => release'[h]
<1>1. CASE MqMarkRelease(t)
  BY <1>1, InHand DEF MqMarkRelease, TypeOK, MqType
<1>2. CASE UNCHANGED release
  BY <1>2
<1>. QED
  BY <1>1, <1>2
  DEF ThreadStep, ServiceChoice, PushGrab, MqPush, Release, FreeCtx, Retire, MqCreate, InitDone, SetInit,
     PushNew, Reserve, ReserveDec, LogLaunch, ReturnLaunch, FailRetire, FailMqRelease, FailDropMessage, FailDropQueue, PopGlobal, GrabCtx, MqRelease,
     DropMessage, DropQueue, MqPop, MqPopEmpty, MqLength, CallbackReturn, NextQueue, KeepQueue, PushBack,
     Send, Post, HandleExit, Abort, Register, DropEnd, DropOne, mqVars

LEMMA DropsReleasedNext ==
  ASSUME TypeOK, Shape, Ownership, NEW t \in Thread, ThreadStep(t) \/ ServiceChoice(t)
  PROVE  \A u \in Thread : DropsReleased(u)'
<1>0. \A u \in Thread : DropsReleased(u)
  BY OwnershipParts DEF OwnershipByParts
<1>1. ASSUME NEW u \in Thread,
             pc'[u] = "drop" => pc[u] = "drop" /\ q'[u] = q[u],
             launch'[u] = "f_drop" => launch[u] = "f_drop" /\ new'[u] = new[u]
      PROVE  DropsReleased(u)'
  BY <1>0, <1>1, ReleaseStays, InHand DEF DropsReleased
<1>2. ASSUME NEW u \in Thread, u # t PROVE DropsReleased(u)'
  BY <1>1, <1>2, OthersLoopNext, OthersLaunchNext DEF OthersLoop, OthersLaunch
<1>3. DropsReleased(t)'
  <2>. USE DEF AtLoop, AtLaunch, loopVars, launchVars, TypeOK, LoopType, LaunchType
  <2>1. CASE MqRelease(t)
    <3>1. pc[t] = "mqrel" /\ launch'[t] = "none" /\ release' = release /\ q[t] \in Handle
      BY <2>1, InHand DEF MqRelease
    <3>2. pc'[t] = "drop" => release[q[t]] /\ q'[t] = q[t]
      BY <2>1 DEF MqRelease
    <3>. QED  BY <3>1, <3>2 DEF DropsReleased
  <2>2. CASE FailMqRelease(t)
    <3>1. pc'[t] = pc[t] /\ pc[t] = "call" /\ release' = release /\ new[t] \in Handle
      BY <2>2, InHand DEF FailMqRelease, Shape, ShapeOf
    <3>2. launch'[t] = "f_drop" => release[new[t]] /\ new'[t] = new[t]
      BY <2>2 DEF FailMqRelease
    <3>. QED  BY <3>1, <3>2 DEF DropsReleased
  <2>3. CASE UNCHANGED <<pc, q, launch, new>>
    BY <1>1, <2>3
  <2>4. CASE Release(t)
    BY <1>1, <2>4 DEF Release
  <2>5. CASE \/ MqCreate(t) \/ InitDone(t) \/ SetInit(t) \/ PushNew(t) \/ FailRetire(t)
             \/ FailDropQueue(t) \/ Reserve(t) \/ ReserveDec(t) \/ LogLaunch(t) \/ ReturnLaunch(t)
             \/ \E h \in Handle : Register(t, h)
    <3>1. UNCHANGED <<pc, q>> /\ launch'[t] # "f_drop"
      BY <2>5 DEF MqCreate, InitDone, SetInit, PushNew, FailRetire, FailDropQueue, Register, Reserve,
        ReserveDec, LogLaunch, ReturnLaunch
    <3>. QED  BY <1>1, <3>1
  <2>6. CASE \/ PopGlobal(t) \/ GrabCtx(t) \/ DropQueue(t) \/ MqPop(t) \/ MqPopEmpty(t) \/ MqLength(t)
             \/ CallbackReturn(t) \/ NextQueue(t) \/ KeepQueue(t) \/ PushBack(t)
    <3>1. UNCHANGED <<launch, new>> /\ pc'[t] # "drop"
      BY <2>6 DEF PopGlobal, GrabCtx, DropQueue, MqPop, MqPopEmpty, MqLength, CallbackReturn, NextQueue,
        KeepQueue, PushBack
    <3>. QED  BY <1>1, <3>1
  <2>. QED
    BY <2>1, <2>2, <2>3, <2>4, <2>5, <2>6
    DEF ThreadStep, ServiceChoice, PushGrab, MqPush, MqMarkRelease, FreeCtx, Retire, FailDropMessage,
       DropMessage, Send, Post, HandleExit, Abort, DropOne
<1>. QED  BY <1>2, <1>3

LEMMA NoMailUnflaggedNext ==
  ASSUME TypeOK, Shape, Ownership, NEW t \in Thread, ThreadStep(t) \/ ServiceChoice(t)
  PROVE  NoMailUnflagged'
<1>0. NoMailUnflagged /\ OwnedFlagged /\ DropsReleased(t)
  BY OwnershipParts DEF OwnershipByParts
<1>. USE <1>0, InHand DEF NoMailUnflagged, TypeOK, MqType, AtLoop, AtLaunch
<1>1. CASE UNCHANGED <<mq, inGlobal, release>>
  BY <1>1
<1>2. CASE MqPush(t)
  BY <1>2 DEF MqPush
<1>3. CASE MqMarkRelease(t)
  BY <1>3 DEF MqMarkRelease
<1>4. CASE MqCreate(t)
  BY <1>4 DEF MqCreate
<1>5. CASE FailDropMessage(t)
  BY <1>5 DEF FailDropMessage, DropOne, DropsReleased
<1>6. CASE FailDropQueue(t)
  BY <1>6 DEF FailDropQueue, DropEnd
<1>7. CASE DropMessage(t)
  BY <1>7 DEF DropMessage, DropOne, DropsReleased
<1>8. CASE DropQueue(t)
  BY <1>8 DEF DropQueue, DropEnd
<1>9. CASE MqPop(t)
  <2>1. q[t] \in Handle /\ Holds(t, q[t])
    BY <1>9 DEF MqPop, Holds
  <2>2. Flagged(q[t])
    BY <2>1 DEF OwnedFlagged
  <2>. QED  BY <1>9, <2>1, <2>2 DEF MqPop, Flagged
<1>10. CASE MqPopEmpty(t)
  BY <1>10 DEF MqPopEmpty
<1>. QED
  BY <1>1, <1>2, <1>3, <1>4, <1>5, <1>6, <1>7, <1>8, <1>9, <1>10
  DEF ThreadStep, ServiceChoice, PushGrab, Release, FreeCtx, Retire, InitDone, SetInit, PushNew,
     Reserve, ReserveDec, LogLaunch, ReturnLaunch, FailRetire, FailMqRelease, PopGlobal, GrabCtx, MqRelease, MqLength, CallbackReturn, NextQueue,
     KeepQueue, PushBack, Send, Post, HandleExit, Abort, Register, mqVars

LEMMA OwnershipNext ==
  ASSUME TypeOK, Shape, RefCount, RefsLive, QueueLife, Launching, Known, Deleting, Ownership,
         NEW t \in Thread, ThreadStep(t) \/ ServiceChoice(t)
  PROVE  Ownership'
<1>1. TypeOK'
  BY TypeNext
<1>2. OwnershipByParts'
  BY OwnersNext, ApartNext, DropsReleasedNext, NoMailUnflaggedNext DEF OwnershipByParts
<1>. QED  BY <1>1, <1>2, OwnershipParts, PTL

-----------------------------------------------------------------------------
(* Initialisation *)

LEMMA SlotRef == TypeOK /\ RefCount => \A h \in Handle : slot[h] => ref[h] > 0
BY HasRef

LEMMA InitialisedNext ==
  ASSUME TypeOK, Shape, RefCount, RefsLive, QueueLife, Launching, Ownership, Initialised,
         NEW t \in Thread, ThreadStep(t) \/ ServiceChoice(t)
  PROVE  Initialised'
<1>0. \A h \in Handle : slot'[h] => ref'[h] > 0
  <2>1. TypeOK' /\ RefCount'
    BY TypeNext, RefCountNext
  <2>2. (\A h \in Handle : slot[h] => ref[h] > 0)'
    BY <2>1, SlotRef, PTL
  <2>. QED  BY <2>2
<1>. DEFINE Launched == {"init", "reserve", "n_rel", "n_init", "f_retire"}
            Safe(h) == \E u \in Thread : launch'[u] \in Launched /\ new'[u] = h
<1>1. ASSUME NEW h \in Handle, queue'[h] = "live", slot'[h], ~init'[h] PROVE Safe(h)
  <2>. USE <1>1, InHand, NoneApart DEF TypeOK, CtxType, MqType, LaunchType, AtLoop, AtLaunch, ctxVars,
           mqVars, launchVars, opVars
  <2>1. CASE MqCreate(t)
    <3>1. CASE h = new[t]
      BY <2>1, <3>1 DEF MqCreate
    <3>2. CASE h # new[t]
      BY <2>1, <3>2 DEF MqCreate, Initialised
    <3>. QED  BY <3>1, <3>2
  <2>2. CASE Release(t)
    <3>1. launch[t] = "n_rel" /\ new[t] = h => launch'[t] = "n_init"
      BY <1>0, <2>2 DEF Release, Shape, ShapeOf
    <3>. QED  BY <2>2, <3>1 DEF Release, Initialised
  <2>3. CASE InitDone(t)
    BY <2>3 DEF InitDone, Initialised
  <2>4. CASE SetInit(t)
    BY <2>4 DEF SetInit, Initialised
  <2>5. CASE PushNew(t)
    BY <2>5 DEF PushNew, Initialised
  <2>12. CASE FailMqRelease(t)
    BY <2>12 DEF FailMqRelease, Initialised
  <2>6. CASE FailRetire(t)
    BY <2>6 DEF FailRetire, RetireHandle, Initialised
  <2>7. CASE FailDropQueue(t)
    BY <2>7 DEF FailDropQueue, DropEnd, Initialised
  <2>8. CASE DropQueue(t)
    BY <2>8 DEF DropQueue, DropEnd, Initialised
  <2>9. CASE Retire(t)
    BY <2>9 DEF Retire, RetireHandle, Initialised
  <2>10. ASSUME NEW g \in Handle, Register(t, g) PROVE Safe(h)
    BY <2>10 DEF Register, QueueLife, Initialised
  <2>11. CASE UNCHANGED <<queue, slot, init, launch, new>>
    BY <2>11 DEF Initialised
  <2>13. CASE Reserve(t)
    BY <2>13 DEF Reserve, Initialised
  <2>14. CASE ReserveDec(t)
    BY <2>14 DEF ReserveDec, Initialised
  <2>15. CASE LogLaunch(t)
    BY <2>15 DEF LogLaunch, Initialised
  <2>16. CASE ReturnLaunch(t)
    BY <2>16 DEF ReturnLaunch, Initialised
  <2>. QED
    BY <2>1, <2>2, <2>3, <2>4, <2>5, <2>6, <2>7, <2>8, <2>9, <2>10, <2>11, <2>12, <2>13, <2>14, <2>15,
       <2>16
    DEF ThreadStep, ServiceChoice, PushGrab, MqPush, MqMarkRelease, FreeCtx, FailDropMessage,
       PopGlobal, GrabCtx, MqRelease, DropMessage, MqPop, MqPopEmpty, MqLength, CallbackReturn,
       NextQueue, KeepQueue, PushBack, Send, Post, HandleExit, Abort, DropOne
<1>2. \A h \in Handle : init[h] => init'[h]
  <2>1. CASE SetInit(t)
    BY <2>1, InHand DEF SetInit, AtLaunch, TypeOK, CtxType
  <2>2. CASE UNCHANGED init
    BY <2>2
  <2>. QED
    BY <2>1, <2>2
    DEF ThreadStep, ServiceChoice, PushGrab, MqPush, Release, MqMarkRelease, FreeCtx, Retire, MqCreate,
       InitDone, PushNew, Reserve, ReserveDec, LogLaunch, ReturnLaunch, FailRetire, RetireHandle,
       FailMqRelease, FailDropMessage, FailDropQueue, PopGlobal, GrabCtx, MqRelease, DropMessage, DropQueue, MqPop, MqPopEmpty, MqLength,
       CallbackReturn, NextQueue, KeepQueue, PushBack, Send, Post, HandleExit, Abort, Register, DropEnd,
       DropOne, ctxVars
<1>3. ASSUME NEW u \in Thread, pc'[u] \in InLoop PROVE init'[q'[u]]
  <2>1. ASSUME pc[u] \in InLoop, q'[u] = q[u] PROVE init'[q'[u]]
    BY <1>2, <2>1, InHand DEF Initialised, InLoop
  <2>2. CASE u # t
    BY <1>3, <2>1, <2>2, OthersLoopNext DEF OthersLoop
  <2>3. CASE u = t
    <3>. USE <2>3, <1>3 DEF InLoop, AtLoop, AtLaunch, loopVars, TypeOK, LoopType
    <3>1. CASE GrabCtx(t)
      <4>1. q[t] \in Handle /\ launch[t] = "none" /\ slot[q[t]] /\ q'[t] = q[t] /\ Holds(t, q[t])
        BY <3>1, InHand DEF GrabCtx, Holds
      <4>2. queue[q[t]] = "live"
        BY <3>1, HeldLive DEF GrabCtx
      <4>3. \A v \in Thread : launch[v] \in Launched /\ new[v] = q[t] => v = t
        BY <4>1 DEF Ownership, OneOwner, Holds, LaunchHolds, LaunchPoint
      <4>4. init[q[t]]
        BY <4>1, <4>2, <4>3 DEF Initialised
      <4>. QED  BY <1>2, <4>1, <4>4
    <3>2. CASE MqPop(t) \/ MqLength(t) \/ CallbackReturn(t) \/ NextQueue(t)
      BY <3>2, <2>1 DEF MqPop, MqLength, CallbackReturn, NextQueue
    <3>3. CASE \/ PopGlobal(t) \/ MqRelease(t) \/ DropQueue(t) \/ MqPopEmpty(t) \/ KeepQueue(t) \/ PushBack(t)
      BY <3>3 DEF PopGlobal, MqRelease, DropQueue, MqPopEmpty, KeepQueue, PushBack
    <3>4. CASE UNCHANGED <<pc, q>>
      BY <3>4, <2>1
    <3>. QED
      BY <3>1, <3>2, <3>3, <3>4
      DEF ThreadStep, ServiceChoice, PushGrab, MqPush, Release, MqMarkRelease, FreeCtx, Retire, MqCreate,
         InitDone, SetInit, PushNew, Reserve, ReserveDec, LogLaunch, ReturnLaunch, FailRetire,
         FailMqRelease, FailDropMessage, FailDropQueue, DropMessage, Send, Post, HandleExit, Abort, Register, DropOne
  <2>. QED  BY <2>2, <2>3
<1>. QED  BY <1>1, <1>3 DEF Initialised

-----------------------------------------------------------------------------
(* The count of services *)

\* Only skynet_context_reserve changes what is reserved.
LEMMA ReservedStays ==
  ASSUME TypeOK, Shape, NEW t \in Thread, ThreadStep(t) \/ ServiceChoice(t), ~Reserve(t), ~ReserveDec(t)
  PROVE  /\ remote' = remote
         /\ \A u \in Thread : launch'[u] = "reserve" <=> launch[u] = "reserve"
         /\ \A u \in Thread : launch[u] = "reserve" => new'[u] = new[u]
<1>1. remote' = remote
  BY DEF ThreadStep, ServiceChoice, PushGrab, MqPush, Release, MqMarkRelease, FreeCtx, Retire, MqCreate,
     InitDone, SetInit, PushNew, LogLaunch, ReturnLaunch, FailRetire, RetireHandle,
     FailMqRelease, FailDropMessage, FailDropQueue, PopGlobal, GrabCtx, MqRelease, DropMessage,
     DropQueue, MqPop, MqPopEmpty, MqLength, CallbackReturn, NextQueue, KeepQueue, PushBack, Send,
     Post, HandleExit, Abort, Register, DropEnd, DropOne, ctxVars
<1>2. (launch'[t] = "reserve" <=> launch[t] = "reserve") /\ (launch[t] = "reserve" => new'[t] = new[t])
  <2>. USE DEF TypeOK, LaunchType, AtLaunch, AtLoop
  <2>1. CASE UNCHANGED launchVars
    BY <2>1 DEF launchVars
  <2>2. CASE \/ Release(t) \/ MqCreate(t) \/ InitDone(t) \/ SetInit(t) \/ PushNew(t) \/ LogLaunch(t)
             \/ ReturnLaunch(t)
    BY <2>2 DEF Release, MqCreate, InitDone, SetInit, PushNew, LogLaunch, ReturnLaunch
  <2>3. CASE \/ FailRetire(t) \/ FailMqRelease(t) \/ FailDropQueue(t)
             \/ \E h \in Handle : Register(t, h)
    BY <2>3 DEF FailRetire, FailMqRelease, FailDropQueue, Register
  <2>. QED
    BY <2>1, <2>2, <2>3
    DEF ThreadStep, ServiceChoice, PushGrab, MqPush, MqMarkRelease, FreeCtx, Retire, FailDropMessage,
       PopGlobal, GrabCtx, MqRelease, DropMessage, DropQueue, MqPop, MqPopEmpty, MqLength,
       CallbackReturn, NextQueue, KeepQueue, PushBack, Send, Post, HandleExit, Abort, DropOne
<1>. QED  BY <1>1, <1>2, OthersLaunchNext DEF OthersLaunch

LEMMA ReservingNext ==
  ASSUME TypeOK, Shape, Reserving, NEW t \in Thread, ThreadStep(t) \/ ServiceChoice(t)
  PROVE  Reserving'
<1>1. CASE Reserve(t)
  <2>1. remote = None /\ remote' = new[t] /\ new' = new
    BY <1>1 DEF Reserve
  <2>2. \A u \in Thread \ {t} : launch'[u] = launch[u]
    BY OthersLaunchNext DEF OthersLaunch
  <2>3. \A u \in Thread \ {t} : launch[u] # "reserve"
    BY <2>1 DEF Reserving, Shape, ShapeOf
  <2>. QED  BY <2>1, <2>2, <2>3 DEF Reserving
<1>2. CASE ReserveDec(t)
  BY <1>2, OthersLaunchNext DEF ReserveDec, OthersLaunch, Reserving, TypeOK, LaunchType
<1>3. CASE ~Reserve(t) /\ ~ReserveDec(t)
  BY <1>3, ReservedStays DEF Reserving
<1>. QED  BY <1>1, <1>2, <1>3

LEMMA CountedNext ==
  ASSUME TypeOK, Shape, RefCount, RefsLive, QueueLife, Launching, Known, Deleting, Ownership, Reserving,
         Counted, NEW t \in Thread, ThreadStep(t) \/ ServiceChoice(t)
  PROVE  Counted'
<1>0. \A u \in Thread : launch[u] = "create" => ref[new[u]] > 0
  BY InHand, HasRef
<1>. USE InHand DEF TypeOK, CtxType, MqType, AtLoop, AtLaunch
<1>1. CASE Present' = Present /\ total' = total
  BY <1>1 DEF Counted
<1>2. CASE Reserve(t)
  <2>1. remote = None /\ \A h \in Handle : ~Reserved(h)
    BY <1>2, NoneApart DEF Reserve, Reserved
  <2>2. launch'[t] = "reserve"
    BY <1>2 DEF Reserve, LaunchType
  <2>3. \A h \in Handle : ~Reserved(h)'
    BY <2>2 DEF Reserved
  <2>4. UNCHANGED <<ctx, queue, total>>
    BY <1>2 DEF Reserve, mqVars
  <2>. QED  BY <1>1, <2>1, <2>3, <2>4 DEF Present
<1>3. CASE ReserveDec(t)
  <2>0. PICK g \in Handle : g = new[t]
    BY <1>3 DEF ReserveDec
  <2>1. launch[t] = "reserve" /\ remote = g /\ ref[g] > 0
    BY <1>3, <2>0, HasRef DEF ReserveDec, Reserving
  <2>2. ctx[g] = "live" /\ queue[g] # "unborn"
    BY <2>0, <2>1, HeldLive DEF RefsLive, LaunchHolds, LaunchPoint
  <2>3. \A h \in Handle : ~Reserved(h)
    BY <2>1 DEF Reserved
  <2>4. UNCHANGED <<remote, ctx, queue>> /\ launch'[t] = "init" /\ total' = total - 1
    BY <1>3 DEF ReserveDec, mqVars, LaunchType
  <2>5. \A u \in Thread : launch'[u] # "reserve"
    <3>1. ASSUME NEW u \in Thread, u # t, launch'[u] = "reserve" PROVE FALSE
      <4>1. launch[u] = "reserve" /\ new[u] = remote /\ new[t] = remote
        BY <2>1, <3>1, OthersLaunchNext DEF OthersLaunch, Reserving
      <4>. QED  BY <2>0, <2>1, <3>1, <4>1, NoneApart DEF Launching
    <3>. QED  BY <2>4, <3>1
  <2>6. \A h \in Handle : Reserved(h)' <=> h = g
    BY <2>1, <2>4, <2>5 DEF Reserved
  <2>7. g \in Present /\ Present' = Present \ {g}
    BY <2>2, <2>3, <2>4, <2>6 DEF Present
  <2>8. IsFiniteSet(Present') /\ Cardinality(Present') = Cardinality(Present) - 1
    BY <2>7, FS_RemoveElement DEF Counted
  <2>. QED  BY <2>4, <2>8 DEF Counted
<1>4. CASE ~Reserve(t) /\ ~ReserveDec(t)
  <2>0. \A h \in Handle : Reserved(h)' <=> Reserved(h)
    BY <1>4, ReservedStays DEF Reserved
  <2>2. CASE MqCreate(t)
    <3>0. PICK g \in Handle : g = new[t]
      BY <2>2 DEF MqCreate
    <3>1. ctx[g] = "live" /\ queue[g] = "unborn"
      BY <1>0, <2>2, <3>0 DEF MqCreate, Launching, RefsLive
    <3>2. ~Reserved(g)
      BY <3>1, NoneApart DEF Known, KnownQueue, Reserved
    <3>3. g \notin Present /\ Present' = Present \cup {g}
      BY <2>0, <2>2, <3>0, <3>1, <3>2 DEF MqCreate, Present
    <3>4. IsFiniteSet(Present') /\ Cardinality(Present') = Cardinality(Present) + 1
      BY <3>3, FS_AddElement DEF Counted
    <3>. QED  BY <2>2, <3>4 DEF MqCreate, Counted
  <2>3. CASE FreeCtx(t)
    <3>0. PICK g \in Handle : g = to[t]
      BY <2>3 DEF FreeCtx
    <3>1. ctx[g] = "live" /\ ref[g] = 0
      BY <2>3, <3>0 DEF FreeCtx, Deleting
    <3>2. queue[g] # "unborn"
      <4>1. ASSUME queue[g] = "unborn" PROVE FALSE
        <5>1. PICK u \in Thread : launch[u] = "create" /\ new[u] = g
          BY <3>1, <4>1 DEF Launching
        <5>. QED  BY <1>0, <3>1, <5>1
      <4>. QED  BY <4>1
    <3>3. ~Reserved(g)
      BY <3>1, HasRef DEF Reserved
    <3>4. g \in Present /\ Present' = Present \ {g}
      BY <2>0, <2>3, <3>0, <3>1, <3>2, <3>3 DEF FreeCtx, mqVars, Present
    <3>5. IsFiniteSet(Present') /\ Cardinality(Present') = Cardinality(Present) - 1
      BY <3>4, FS_RemoveElement DEF Counted
    <3>. QED  BY <2>3, <3>5 DEF FreeCtx, Counted
  <2>4. ASSUME NEW h \in Handle, Register(t, h) PROVE Present' = Present /\ total' = total
    BY <2>0, <2>4 DEF Register, QueueLife, mqVars, Present
  <2>5. CASE FailDropQueue(t)
    <3>1. queue[new[t]] = "live"
      BY <2>5, HeldLive DEF FailDropQueue, LaunchHolds, LaunchPoint
    <3>. QED  BY <1>1, <2>0, <2>5, <3>1 DEF FailDropQueue, DropEnd, ctxVars, Present
  <2>6. CASE DropQueue(t)
    <3>1. queue[q[t]] = "live"
      BY <2>6, HeldLive DEF DropQueue
    <3>. QED  BY <1>1, <2>0, <2>6, <3>1 DEF DropQueue, DropEnd, ctxVars, Present
  <2>7. CASE UNCHANGED <<ctx, queue, total>>
    BY <1>1, <2>0, <2>7 DEF Present
  <2>. QED
    BY <1>1, <1>4, <2>2, <2>3, <2>4, <2>5, <2>6, <2>7
    DEF ThreadStep, ServiceChoice, PushGrab, MqPush, Release, MqMarkRelease, Retire, InitDone, SetInit,
       PushNew, LogLaunch, ReturnLaunch, FailRetire, RetireHandle, FailMqRelease, FailDropMessage,
       PopGlobal, GrabCtx, MqRelease, DropMessage, MqPop, MqPopEmpty, MqLength, CallbackReturn,
       NextQueue, KeepQueue, PushBack, Send, Post, HandleExit, Abort, DropOne, ctxVars, mqVars
<1>. QED  BY <1>2, <1>3, <1>4

-----------------------------------------------------------------------------
(* The inductive invariant *)

LEMMA InitCounts == Init => RefCount /\ Counted
<1>. SUFFICES ASSUME Init PROVE RefCount /\ Counted
  OBVIOUS
<1>. DEFINE booted == {Boot[i] : i \in DOMAIN Boot}
<1>1. ASSUME NEW h \in Handle PROVE ref[h] = Cardinality(Holders(h))
  <2>1. CASE h \in booted
    <3>0. slot[h]
      BY <2>1 DEF Init
    <3>1. <<"slot", None>> \in Token /\ Refers("slot", None, h)
      BY <3>0 DEF Token, Refers
    <3>2. \A x \in Token : Refers(x[1], x[2], h) => x = <<"slot", None>>
      BY NoneApart DEF Init, Refers, Token, InLoop
    <3>3. Holders(h) = {<<"slot", None>>}
      BY <3>1, <3>2 DEF Holders
    <3>4. ref[h] = 1
      BY <2>1 DEF Init
    <3>. QED  BY <3>3, <3>4, FS_Singleton
  <2>2. CASE h \notin booted
    <3>1. Holders(h) = {}
      BY <2>2, NoneApart DEF Init, Holders, Refers, Token, InLoop
    <3>2. ref[h] = 0
      BY <2>2 DEF Init
    <3>. QED  BY <3>1, <3>2, FS_EmptySet
  <2>. QED  BY <2>1, <2>2
<1>2. Present = booted
  BY BootAssumption, NoneApart DEF Init, Present, Reserved
<1>3. Len(Boot) \in Nat /\ DOMAIN Boot = 1..Len(Boot)
  BY BootAssumption
<1>4. Boot \in Bijection(1..Len(Boot), booted)
  <2>1. Boot \in [1..Len(Boot) -> booted]
    BY <1>3, BootAssumption
  <2>2. \A i, j \in 1..Len(Boot) : Boot[i] = Boot[j] => i = j
    BY <1>3, BootAssumption
  <2>3. \A x \in booted : \E i \in 1..Len(Boot) : Boot[i] = x
    BY <1>3
  <2>. QED  BY <2>1, <2>2, <2>3 DEF Bijection, Injection, Surjection, IsInjective
<1>5. ExistsBijection(1..Len(Boot), booted)
  BY <1>4 DEF ExistsBijection
<1>6. IsFiniteSet(booted) /\ Cardinality(booted) = Len(Boot)
  BY <1>3, <1>5, FS_CountingElements, FS_NatBijection
<1>7. total = Len(Boot)
  BY DEF Init
<1>. QED  BY <1>1, <1>2, <1>6, <1>7 DEF RefCount, Counted

LEMMA InitIInv == Init => IInv
<1>. SUFFICES ASSUME Init PROVE IInv
  OBVIOUS
<1>1. TypeOK /\ Shape /\ RefCount /\ Counted
  BY InitType, InitCounts
<1>2. RefsLive /\ QueueLife
  <2>1. RefsLive
    BY NoneApart DEF Init, RefsLive
  <2>2. QueueLife
    BY NoneApart DEF Init, QueueLife
  <2>. QED  BY <2>1, <2>2
<1>3. Launching /\ Deleting
  BY DEF Init, Launching, Deleting
<1>4. Known
  <2>1. KnownQueue(MonitorExit)
    BY MonitorAssumption, BootAssumption, NoneApart DEF Init, KnownQueue
  <2>. QED  BY <2>1 DEF Init, Known, KnownQueue
<1>5. Ownership
  <2>1. \A t \in Thread, h \in Handle : ~Holds(t, h)
    BY NoneApart DEF Init, Holds, LaunchHolds
  <2>2. gq = Boot /\ \A i \in DOMAIN Boot : Boot[i] \in Handle
    BY BootAssumption DEF Init
  <2>3. OneOwner
    BY <2>1, <2>2, BootAssumption DEF Init, OneOwner
  <2>4. \A h \in Handle : Owned(h) <=> queue[h] = "live" /\ (inGlobal[h] \/ release[h])
    BY <2>1, <2>2 DEF Init, Owned, InGq
  <2>. QED  BY <2>3, <2>4 DEF Init, Ownership
<1>6. Initialised
  BY DEF Init, Initialised, InLoop
<1>7. Reserving
  BY DEF Init, Reserving
<1>. QED  BY <1>1, <1>2, <1>3, <1>4, <1>5, <1>6, <1>7 DEF IInv

LEMMA NextIInv == IInv /\ [Next]_vars => IInv'
<1>. SUFFICES ASSUME IInv, [Next]_vars PROVE IInv'
  OBVIOUS
<1>1. ASSUME NEW t \in Thread, ThreadStep(t) \/ ServiceChoice(t) PROVE IInv'
  BY <1>1, TypeNext, ShapeNext, RefCountNext, RefsLiveNext, QueueLifeNext, LaunchingNext, KnownNext,
     DeletingNext, OwnershipNext, InitialisedNext, ReservingNext, CountedNext DEF IInv
<1>2. CASE UNCHANGED vars
  <2>. USE <1>2 DEF vars, ctxVars, mqVars, loopVars, launchVars, opVars, IInv
  <2>1. TypeOK' /\ Shape'
    BY StutterType
  <2>2. RefCount' /\ RefsLive' /\ QueueLife'
    BY DEF RefCount, Holders, Refers, RefsLive, QueueLife
  <2>3. Launching' /\ Known' /\ Deleting'
    BY DEF Launching, Known, KnownQueue, Deleting
  <2>4. Ownership'
    BY DEF Ownership, OneOwner, Owned, InGq, Holds
  <2>5. Initialised' /\ Reserving' /\ Counted'
    BY DEF Initialised, Reserving, Counted, Present, Reserved
  <2>. QED  BY <2>1, <2>2, <2>3, <2>4, <2>5
<1>. QED  BY <1>1, <1>2 DEF Next

LEMMA IInvAlways == Spec => []IInv
BY InitIInv, NextIInv, PTL DEF Spec

-----------------------------------------------------------------------------
(* What follows from it *)

LEMMA NoStrandedMailInv == IInv => NoStrandedMail
BY DEF IInv, Ownership, Owned, InGq, NoStrandedMail

LEMMA NoUseAfterFreeInv == IInv => NoUseAfterFree
<1>. SUFFICES ASSUME IInv PROVE NoUseAfterFree
  OBVIOUS
<1>. USE DEF IInv
<1>1. \A t \in Thread : pc[t] \in InLoop => ctx[q[t]] = "live"
  BY InHand, HasRef DEF InLoop, RefsLive
<1>2. ASSUME NEW t \in Thread, op[t] \in {"push", "rel"} PROVE ctx[to[t]] = "live" /\ ~release[to[t]]
  BY <1>2, InHand, HasRef DEF RefsLive
<1>3. \A t \in Thread : op[t] \in {"push", "rel", "mark", "free"} => ctx[to[t]] = "live"
  BY <1>2 DEF Deleting
<1>4. ASSUME NEW t \in Thread, op[t] = "push" PROVE queue[to[t]] = "live"
  BY <1>2, <1>4, InHand, NoneApart DEF Known, KnownQueue, QueueLife, TypeOK, MqType, Life
<1>5. ASSUME NEW t \in Thread, op[t] = "mark" PROVE queue[to[t]] = "live"
  BY <1>5, MarkedQueue
<1>6. \A t \in Thread, h \in Handle : Holds(t, h) => queue[h] = "live"
  BY DEF Ownership, Owned
<1>7. \A i \in DOMAIN gq : queue[gq[i]] = "live"
  BY DEF Ownership, Owned, InGq, TypeOK, MqType
<1>8. ASSUME NEW t \in Thread, launch[t] \in {"n_init", "n_log", "n_ret"}, slot[new[t]]
      PROVE  ctx[new[t]] = "live"
  BY <1>8, InHand, HasRef DEF RefsLive
<1>. QED  BY <1>1, <1>3, <1>4, <1>5, <1>6, <1>7, <1>8 DEF NoUseAfterFree

LEMMA ReleaseOnceInv == IInv => ReleaseOnce
<1>. SUFFICES ASSUME IInv PROVE ReleaseOnce
  OBVIOUS
<1>1. \A t \in Thread : op[t] = "mark" => ~release[to[t]]
  BY DEF IInv, Deleting
<1>2. ASSUME NEW h \in Handle, queue[h] = "freed" PROVE ref[h] = 0 /\ ~slot[h]
  BY <1>2, HasRef DEF IInv, QueueLife, RefsLive
<1>. QED  BY <1>1, <1>2 DEF ReleaseOnce

LEMMA QuitOnlyWhenEmptyInv == IInv => QuitOnlyWhenEmpty
<1>. SUFFICES ASSUME IInv PROVE QuitOnlyWhenEmpty
  OBVIOUS
<1>. USE DEF IInv
<1>1. total = 0 <=> Present = {}
  BY FS_EmptySet DEF Counted
<1>2. ASSUME NEW t \in Thread, pc[t] = "call"
      PROVE  q[t] \in Handle /\ queue[q[t]] = "live" /\ ctx[q[t]] = "live"
  BY <1>2, InHand, HeldLive, HasRef DEF InLoop, RefsLive
<1>3. ASSUME total = 0, NEW t \in Thread, pc[t] = "call" PROVE q[t] = remote
  BY <1>1, <1>2, <1>3 DEF Present, Reserved
<1>4. ASSUME total = 0, NEW t \in Thread, InService(t) PROVE Self(t) = remote
  <2>1. CASE AtLaunch(t, "init")
    <3>1. new[t] \in Handle /\ ctx[new[t]] = "live"
      BY <2>1, InHand, HasRef DEF AtLaunch, RefsLive
    <3>2. queue[new[t]] = "live"
      BY <2>1, HeldLive DEF AtLaunch, LaunchHolds, LaunchPoint
    <3>. QED  BY <1>1, <1>4, <2>1, <3>1, <3>2 DEF Present, Reserved, Self, AtLaunch
  <2>2. CASE AtLoop(t, "call")
    BY <1>3, <1>4, <2>2 DEF AtLoop, Self
  <2>. QED  BY <1>4, <2>1, <2>2 DEF InService
<1>5. ASSUME total = 0, NEW h \in Handle, ctx[h] = "live", h # remote
      PROVE  \E t \in Thread : launch[t] = "create" /\ new[t] = h /\ q[t] = remote
  <2>1. queue[h] = "unborn"
    BY <1>1, <1>5 DEF Present, Reserved
  <2>2. PICK t \in Thread : launch[t] = "create" /\ new[t] = h
    BY <1>5, <2>1 DEF Launching
  <2>3. pc[t] = "call"
    BY <2>2 DEF Shape, ShapeOf
  <2>. QED  BY <1>3, <1>5, <2>2, <2>3
<1>6. ASSUME \A h \in Handle : ctx[h] = "live" => h = remote PROVE total = 0
  <2>1. ASSUME NEW h \in Present PROVE FALSE
    <3>1. h = remote /\ h \in Handle
      BY <1>6, <2>1 DEF Present
    <3>2. PICK t \in Thread : launch[t] = "reserve"
      BY <2>1, <3>1 DEF Present, Reserved
    <3>3. new[t] = remote /\ pc[t] = "call"
      BY <3>2 DEF Reserving, Shape, ShapeOf
    <3>4. q[t] = remote
      BY <1>2, <1>6, <3>3
    <3>. QED  BY <3>1, <3>2, <3>3, <3>4, NoneApart DEF Ownership, OneOwner
  <2>. QED  BY <1>1, <2>1
<1>. QED  BY <1>4, <1>5, <1>6 DEF QuitOnlyWhenEmpty

\* Two workers never have one queue, and the global queue never has it twice or
\* beside a worker: services run one message at a time on any number of threads.
THEOREM SingleOwner == Spec => []OneOwner
<1>1. IInv => OneOwner
  BY DEF IInv, Ownership
<1>. QED  BY <1>1, IInvAlways, PTL

\* Mail is never left in a queue that nobody will look at.
THEOREM MailNotStranded == Spec => []NoStrandedMail
BY NoStrandedMailInv, IInvAlways, PTL

\* A context or a queue is not used after it has been freed, but for the three
\* uses in skynet_context_new and its caller that come after the reference is
\* given up: they find the context as long as its handle is not retired.
THEOREM NothingFreedIsUsed == Spec => []NoUseAfterFree
BY NoUseAfterFreeInv, IInvAlways, PTL

\* skynet_mq_mark_release is called once for a queue, which outlives its context.
THEOREM ReleasedOnce == Spec => []ReleaseOnce
BY ReleaseOnceInv, IInvAlways, PTL

\* The assertion of dispatch_message holds: no message is handled before
\* skynet_context_new has set ctx->init.
THEOREM InitialisedFirst == Spec => []InitBeforeDispatch
<1>1. IInv => InitBeforeDispatch
  BY DEF IInv, Initialised, InLoop, InitBeforeDispatch
<1>. QED  BY <1>1, IInvAlways, PTL

\* When skynet_context_total() is 0, which ends the process, no context is alive
\* but the one that skynet_context_reserve has set aside, and only its code runs;
\* and when that one is all there is, the count is 0.
THEOREM QuitWhenEmpty == Spec => []QuitOnlyWhenEmpty
BY QuitOnlyWhenEmptyInv, IInvAlways, PTL

-----------------------------------------------------------------------------
(* The actor contract *)

\* The refinement mapping of Actors, and the threads that run h.
Status == [h \in Handle |-> IF ctx[h] = "unborn" THEN "unborn"
                            ELSE IF slot[h] THEN "open"
                            ELSE IF release[h] THEN "gone" ELSE "closing"]
Busy(t) == pc[t] \in {"length", "call"}
Running == [h \in Handle |-> {cur[t] : t \in {u \in Thread : pc[u] \in {"length", "call"} /\ q[u] = h}}]

\* Who runs what changes only when a callback begins or returns.
LEMMA SameRunning ==
  ASSUME \A t \in Thread : (Busy(t)' <=> Busy(t)) /\ (Busy(t) => q'[t] = q[t] /\ cur'[t] = cur[t])
  PROVE  Running' = Running
BY DEF Busy, Running

LEMMA SameStatus ==
  ASSUME UNCHANGED slot, \A h \in Handle : (ctx'[h] = "unborn" <=> ctx[h] = "unborn") /\ release'[h] = release[h]
  PROVE  Status' = Status
BY DEF Status

\* A running service has a reference, and a single worker.
LEMMA RunningRef ==
  ASSUME IInv, NEW t \in Thread, Busy(t)
  PROVE  /\ q[t] \in Handle /\ ref[q[t]] > 0 /\ ctx[q[t]] = "live" /\ ~release[q[t]]
         /\ \A u \in Thread : Busy(u) /\ q[u] = q[t] => u = t
<1>1. q[t] \in Handle /\ ref[q[t]] > 0
  BY InHand, HasRef DEF IInv, Busy, InLoop
<1>2. ctx[q[t]] = "live" /\ ~release[q[t]]
  BY <1>1 DEF IInv, RefsLive
<1>3. \A u \in Thread : q[u] = q[t] => u = t
  BY <1>1 DEF IInv, Ownership, OneOwner, Holds
<1>. QED  BY <1>1, <1>2, <1>3

LEMMA InitAbstract == Init => Actors!AbsInit
<1>. SUFFICES ASSUME Init PROVE Actors!AbsInit
  OBVIOUS
<1>1. Status \in [Handle -> {"unborn", "open"}]
  BY DEF Init, Status
<1>2. mq = [h \in Handle |-> <<>>]
  BY DEF Init
<1>3. Running = [h \in Handle |-> {}]
  BY DEF Init, Running
<1>. QED  BY <1>1, <1>2, <1>3 DEF Actors!AbsInit, Status, Running

\* What a step of a thread is to the services.
AbstractStep ==
    \/ UNCHANGED <<Status, mq, Running>>
    \/ \E h \in Handle :
         \/ Status[h] = "unborn" /\ Status' = [Status EXCEPT ![h] = "open"] /\ UNCHANGED <<mq, Running>>
         \/ /\ Status[h] \in {"open", "closing"} /\ Running[h] = {} /\ mq[h] # <<>>
            /\ Running' = [Running EXCEPT ![h] = {Head(mq[h])}]
            /\ mq' = [mq EXCEPT ![h] = Tail(@)]
            /\ UNCHANGED Status
         \/ Running[h] # {} /\ Running' = [Running EXCEPT ![h] = {}] /\ UNCHANGED <<Status, mq>>
         \/ Status[h] = "open" /\ Status' = [Status EXCEPT ![h] = "closing"] /\ UNCHANGED <<mq, Running>>
         \/ /\ Status[h] = "closing" /\ Running[h] = {}
            /\ Status' = [Status EXCEPT ![h] = "gone"] /\ UNCHANGED <<mq, Running>>
         \/ /\ Status[h] = "gone" /\ mq[h] # <<>>
            /\ mq' = [mq EXCEPT ![h] = Tail(@)] /\ UNCHANGED <<Status, Running>>
         \/ \E m \in Message :
              /\ Status[h] \in {"open", "closing"}
              /\ mq' = [mq EXCEPT ![h] = Append(@, m)] /\ UNCHANGED <<Status, Running>>

LEMMA AbstractStepSound == AbstractStep => [Actors!AbsNext]_(Actors!absVars)
BY DEF AbstractStep, Status, Running, Actors!AbsNext, Actors!absVars, Actors!Create, Actors!Begin,
   Actors!End, Actors!Close, Actors!Leave, Actors!Bounce, Actors!Accept

LEMMA RetireCloses ==
  ASSUME IInv, NEW h \in Handle, NEW t \in Thread, RetireHandle(t, h),
         UNCHANGED <<mq, release, pc, q, cur>>
  PROVE  AbstractStep
<1>1. Running' = Running
  BY SameRunning DEF Busy
<1>2. CASE slot[h]
  <2>1. ctx[h] = "live" /\ ~release[h]
    BY <1>2, SlotRef DEF IInv, RefsLive
  <2>2. Status[h] = "open"
    BY <1>2, <2>1 DEF Status
  <2>3. Status' = [Status EXCEPT ![h] = "closing"]
    BY <2>1 DEF RetireHandle, Status, IInv, TypeOK, CtxType
  <2>. QED  BY <1>1, <2>2, <2>3 DEF AbstractStep
<1>3. CASE ~slot[h]
  <2>1. slot' = slot
    BY <1>3 DEF RetireHandle, IInv, TypeOK, CtxType
  <2>2. Status' = Status
    BY <2>1, SameStatus DEF RetireHandle
  <2>. QED  BY <1>1, <2>2 DEF AbstractStep
<1>. QED  BY <1>2, <1>3

LEMMA DropBounces ==
  ASSUME IInv, NEW h \in Handle, release[h], NEW t \in Thread, DropOne(t, h)
  PROVE  AbstractStep
<1>1. Running' = Running /\ Status' = Status
  BY SameRunning, SameStatus DEF Busy, DropOne, ctxVars, loopVars
<1>2. ~slot[h]
  BY SlotRef, HasRef DEF IInv, RefsLive
<1>3. ctx[h] # "unborn"
  BY DEF IInv, QueueLife
<1>4. Status[h] = "gone"
  BY <1>2, <1>3 DEF Status
<1>. QED  BY <1>1, <1>4 DEF AbstractStep, DropOne

LEMMA StepAbstract ==
  ASSUME IInv, NEW t \in Thread, ThreadStep(t) \/ ServiceChoice(t)
  PROVE  AbstractStep
<1>0. TypeOK /\ Shape
  BY DEF IInv
<1>1. CASE MqPush(t)
  <2>. PICK h \in Handle : h = to[t]
    BY <1>0, <1>1, InHand DEF MqPush
  <2>1. Running' = Running /\ Status' = Status
    BY <1>1, SameRunning, SameStatus DEF Busy, MqPush, ctxVars, loopVars
  <2>2. ref[h] > 0
    BY <1>1, HasRef DEF MqPush, IInv
  <2>3. Status[h] \in {"open", "closing"}
    BY <2>2 DEF Status, IInv, RefsLive
  <2>4. msg[t] \in Message
    BY <1>0 DEF TypeOK, OpType
  <2>. QED  BY <1>1, <2>1, <2>3, <2>4 DEF AbstractStep, MqPush
<1>2. CASE MqMarkRelease(t)
  <2>. PICK h \in Handle : h = to[t]
    BY <1>0, <1>2, InHand DEF MqMarkRelease
  <2>1. ref[h] = 0 /\ ctx[h] = "live" /\ ~release[h]
    BY <1>2 DEF MqMarkRelease, IInv, Deleting
  <2>2. ~slot[h]
    BY <2>1, SlotRef DEF IInv
  <2>3. Running' = Running
    BY <1>2, SameRunning DEF Busy, MqMarkRelease, loopVars
  <2>4. Running[h] = {}
    BY <2>1, RunningRef DEF Busy, Running
  <2>5. Status[h] = "closing"
    BY <2>1, <2>2 DEF Status
  <2>6. Status' = [Status EXCEPT ![h] = "gone"]
    BY <1>0, <1>2, <2>1, <2>2 DEF Status, MqMarkRelease, ctxVars, TypeOK, MqType
  <2>. QED  BY <1>2, <2>3, <2>4, <2>5, <2>6 DEF AbstractStep, MqMarkRelease
<1>3. CASE Retire(t)
  <2>1. kill[t] \in Handle
    BY <1>0, <1>3, InHand DEF Retire
  <2>. QED  BY <1>3, <2>1, RetireCloses DEF Retire, mqVars, loopVars
<1>4. CASE FailRetire(t)
  <2>1. new[t] \in Handle
    BY <1>0, <1>4, InHand DEF FailRetire, AtLaunch
  <2>. QED  BY <1>4, <2>1, RetireCloses DEF FailRetire, mqVars, loopVars
<1>5. CASE DropMessage(t)
  <2>1. q[t] \in Handle /\ release[q[t]]
    BY <1>0, <1>5, InHand DEF DropMessage, AtLoop, IInv, Ownership
  <2>. QED  BY <1>5, <2>1, DropBounces DEF DropMessage
<1>6. CASE FailDropMessage(t)
  <2>1. new[t] \in Handle /\ release[new[t]]
    BY <1>0, <1>6, InHand DEF FailDropMessage, AtLaunch, IInv, Ownership
  <2>. QED  BY <1>6, <2>1, DropBounces DEF FailDropMessage
<1>7. ASSUME NEW h \in Handle, Register(t, h) PROVE AbstractStep
  <2>1. Running' = Running
    BY <1>7, SameRunning DEF Busy, Register, loopVars
  <2>2. Status[h] = "unborn" /\ Status' = [Status EXCEPT ![h] = "open"]
    BY <1>0, <1>7 DEF Status, Register, mqVars, TypeOK, CtxType
  <2>. QED  BY <1>7, <2>1, <2>2 DEF AbstractStep, Register, mqVars
<1>8. CASE MqPop(t)
  <2>. PICK h \in Handle : h = q[t]
    BY <1>0, <1>8, InHand DEF MqPop, AtLoop
  <2>1. Status' = Status
    BY <1>8, SameStatus DEF MqPop, ctxVars
  <2>2. ref[h] > 0
    BY <1>8, HasRef DEF MqPop, AtLoop, IInv, InLoop
  <2>3. Status[h] \in {"open", "closing"}
    BY <2>2 DEF Status, IInv, RefsLive
  <2>4. \A u \in Thread : Busy(u) /\ q[u] = h => u = t
    BY DEF IInv, Ownership, OneOwner, Holds
  <2>5. Running[h] = {}
    BY <1>8, <2>4 DEF Running, Busy, MqPop, AtLoop
  <2>6. \A u \in Thread \ {t} : (Busy(u)' <=> Busy(u)) /\ cur'[u] = cur[u] /\ q'[u] = q[u]
    BY <1>0, <1>8 DEF MqPop, Busy, TypeOK, LoopType
  <2>7. Busy(t)' /\ q'[t] = h /\ cur'[t] = Head(mq[h]) /\ ~Busy(t)
    BY <1>0, <1>8 DEF MqPop, AtLoop, Busy, TypeOK, LoopType
  <2>8. Running' = [Running EXCEPT ![h] = {Head(mq[h])}]
    <3>1. ASSUME NEW g \in Handle PROVE Running'[g] = [Running EXCEPT ![h] = {Head(mq[h])}][g]
      <4>1. CASE g = h
        <5>1. \A u \in Thread : Busy(u)' /\ q'[u] = h <=> u = t
          BY <2>4, <2>6, <2>7
        <5>2. {u \in Thread : pc'[u] \in {"length", "call"} /\ q'[u] = h} = {t}
          BY <5>1 DEF Busy
        <5>3. Running'[h] = {cur'[u] : u \in {t}}
          BY <5>2 DEF Running
        <5>4. Running'[h] = {Head(mq[h])}
          BY <5>3, <2>7
        <5>. QED  BY <4>1, <5>4 DEF Running
      <4>2. CASE g # h
        BY <2>6, <2>7, <4>2 DEF Running, Busy
      <4>. QED  BY <4>1, <4>2
    <3>. QED  BY <3>1 DEF Running
  <2>. QED  BY <1>8, <2>1, <2>3, <2>5, <2>8 DEF AbstractStep, MqPop
<1>9. CASE CallbackReturn(t)
  <2>. PICK h \in Handle : h = q[t]
    BY <1>0, <1>9, InHand DEF CallbackReturn, AtLoop
  <2>1. Status' = Status
    BY <1>9, SameStatus DEF CallbackReturn, ctxVars, mqVars
  <2>2. \A u \in Thread : Busy(u) /\ q[u] = h => u = t
    BY DEF IInv, Ownership, OneOwner, Holds
  <2>3. \A u \in Thread \ {t} : (Busy(u)' <=> Busy(u)) /\ cur'[u] = cur[u] /\ q'[u] = q[u]
    BY <1>0, <1>9 DEF CallbackReturn, Busy, TypeOK, LoopType
  <2>4. ~Busy(t)' /\ q'[t] = h /\ Busy(t)
    BY <1>0, <1>9 DEF CallbackReturn, AtLoop, Busy, TypeOK, LoopType
  <2>5. Running[h] # {}
    BY <2>4 DEF Running, Busy
  <2>6. Running' = [Running EXCEPT ![h] = {}]
    <3>1. ASSUME NEW g \in Handle PROVE Running'[g] = [Running EXCEPT ![h] = {}][g]
      <4>1. CASE g = h
        BY <2>2, <2>3, <2>4, <4>1 DEF Running, Busy
      <4>2. CASE g # h
        BY <2>3, <2>4, <4>2 DEF Running, Busy
      <4>. QED  BY <4>1, <4>2
    <3>. QED  BY <3>1 DEF Running
  <2>. QED  BY <1>9, <2>1, <2>5, <2>6 DEF AbstractStep, CallbackReturn, mqVars
<1>10. ASSUME UNCHANGED <<slot, release, mq>>,
              \A h \in Handle : ctx'[h] = "unborn" <=> ctx[h] = "unborn",
              \A u \in Thread : (Busy(u)' <=> Busy(u)) /\ (Busy(u) => q'[u] = q[u] /\ cur'[u] = cur[u])
       PROVE  AbstractStep
  BY <1>10, SameRunning, SameStatus DEF AbstractStep
<1>11. CASE FreeCtx(t)
  <2>1. to[t] \in Handle /\ ctx[to[t]] = "live"
    BY <1>0, <1>11, InHand DEF FreeCtx, IInv, Deleting
  <2>2. \A h \in Handle : ctx'[h] = "unborn" <=> ctx[h] = "unborn"
    BY <1>0, <1>11, <2>1 DEF FreeCtx, TypeOK, CtxType
  <2>. QED  BY <1>10, <1>11, <2>2 DEF FreeCtx, mqVars, loopVars, Busy
<1>12. CASE \/ PopGlobal(t) \/ GrabCtx(t) \/ MqRelease(t) \/ DropQueue(t) \/ MqPopEmpty(t) \/ MqLength(t)
            \/ NextQueue(t) \/ KeepQueue(t) \/ PushBack(t)
  <2>1. UNCHANGED <<ctx, slot, release, mq>>
    BY <1>12 DEF PopGlobal, GrabCtx, MqRelease, DropQueue, MqPopEmpty, MqLength, NextQueue, KeepQueue,
       PushBack, DropEnd, ctxVars, mqVars
  <2>2. \A u \in Thread \ {t} : (Busy(u)' <=> Busy(u)) /\ cur'[u] = cur[u] /\ q'[u] = q[u]
    BY <1>0, OthersLoopNext DEF OthersLoop, Busy
  <2>3. (Busy(t)' <=> Busy(t)) /\ (Busy(t) => q'[t] = q[t] /\ cur'[t] = cur[t])
    BY <1>0, <1>12 DEF PopGlobal, GrabCtx, MqRelease, DropQueue, MqPopEmpty, MqLength, NextQueue, KeepQueue,
       PushBack, AtLoop, Busy, TypeOK, LoopType
  <2>. QED  BY <1>10, <2>1, <2>2, <2>3
<1>13. CASE UNCHANGED <<ctx, slot, release, mq, pc, q, cur>>
  BY <1>10, <1>13 DEF Busy
<1>. QED
  BY <1>1, <1>2, <1>3, <1>4, <1>5, <1>6, <1>7, <1>8, <1>9, <1>11, <1>12, <1>13
  DEF ThreadStep, ServiceChoice, PushGrab, Release, MqCreate, Reserve, ReserveDec, InitDone, SetInit,
     PushNew, LogLaunch, ReturnLaunch, FailMqRelease,
     FailDropQueue, Send, Post, HandleExit, Abort, DropEnd, ctxVars, mqVars, loopVars

\* The dispatch core implements the actor contract for every number of workers,
\* services and messages: a service handles one message at a time, in the order
\* skynet_mq_push accepted them, and only mail of a deleted service is bounced.
THEOREM CoreImplementsActors == Spec => ImplementsActors
<1>1. IInv /\ [Next]_vars => [Actors!AbsNext]_(Actors!absVars)
  <2>. SUFFICES ASSUME IInv, [Next]_vars PROVE AbstractStep
    BY AbstractStepSound
  <2>1. CASE UNCHANGED vars
    BY <2>1, SameRunning, SameStatus DEF AbstractStep, vars, ctxVars, mqVars, loopVars, Busy
  <2>2. CASE Next
    BY <2>2, StepAbstract DEF Next
  <2>. QED  BY <2>1, <2>2
<1>. QED  BY <1>1, InitAbstract, IInvAlways, PTL DEF Spec, ImplementsActors, Actors!AbsSpec

=============================================================================
