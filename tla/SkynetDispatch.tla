--------------------------- MODULE SkynetDispatch ---------------------------
(***************************************************************************)
(* The message core of skynet: skynet_server.c (contexts, their reference  *)
(* counts, launching, killing, sending and the dispatch loop of a worker)  *)
(* over skynet_mq.c (message queues and the global queue of queues) and    *)
(* the grab/retire side of skynet_handle.c.                                *)
(*                                                                         *)
(* One step is one critical section (a spinlock or the handle storage's    *)
(* rwlock) or one atomic operation on a reference count.  A thread's call  *)
(* stack has three layers: the worker's dispatch loop (pc), a              *)
(* skynet_context_new running inside a callback (launch), and the          *)
(* push, retire or release in progress at the top (op).                    *)
(*                                                                         *)
(* A handle names its context and its queue, and is used once: handles     *)
(* come back only after the 24-bit index has wrapped (see HandleStorage).  *)
(***************************************************************************)
EXTENDS Integers, Sequences, FiniteSets

CONSTANTS
    Worker,                      \* worker threads
    Poster,                      \* timer and socket threads: they only push
    Handle,                      \* handles the node may give out
    None,                        \* no handle, and the source 0
    Boot,                        \* the services launched before the threads start
    MonitorExit,                 \* G_NODE.monitor_exit, or None
    Weight,                      \* Weight[w]: thread_worker's weight, -1 to 3
    MaxSend                      \* bound: messages that callbacks and posters send

Thread == Worker \cup Poster
Source == Handle \cup {None}

ASSUME ThreadsFinite == IsFiniteSet(Worker) /\ IsFiniteSet(Poster)
ASSUME ThreadsApart  == Worker \cap Poster = {}
ASSUME NoneApart     == None \notin Handle
ASSUME BootAssumption ==
    /\ Boot \in Seq(Handle)
    /\ \A i, j \in DOMAIN Boot : Boot[i] = Boot[j] => i = j
ASSUME MonitorAssumption == MonitorExit = None \/ \E i \in DOMAIN Boot : MonitorExit = Boot[i]
ASSUME WeightAssumption == Weight \in [Worker -> -1..3]
ASSUME MaxSendAssumption == MaxSend \in Nat

VARIABLES
    (* contexts and the handle storage *)
    ctx,                         \* skynet_context memory: unborn, live or freed
    ref,                         \* ctx->ref
    slot,                        \* the handle storage still maps the handle
    init,                        \* ctx->init
    total,                       \* G_NODE.total
    remote,                      \* REMOTE: the reserved harbor service, or None
    (* message queues *)
    queue,                       \* message_queue memory: unborn, live or freed
    mq,                          \* its messages
    inGlobal,                    \* q->in_global
    release,                     \* q->release
    gq,                          \* the global queue
    (* threads *)
    pc, q, nq, cur, left,        \* dispatch loop: queue in hand, next queue,
                                 \* message in hand, iterations left after it
    launch, new,                 \* skynet_context_new: point and handle
    kill,                        \* handle_exit: handle still to be retired
    op, to, msg,                 \* context_push or context_release in progress
    sent                         \* messages sent so far (bounded by MaxSend)

ctxVars    == <<ctx, ref, slot, init, total, remote>>
mqVars     == <<queue, mq, inGlobal, release, gq>>
loopVars   == <<pc, q, nq, cur, left>>
launchVars == <<launch, new>>
opVars     == <<kill, op, to, msg, sent>>
vars == <<ctxVars, mqVars, loopVars, launchVars, opVars>>

\* A message knows its source; err marks the PTYPE_ERROR answer to message id.
Message == [id : 0..MaxSend, src : Source, err : BOOLEAN]
NoMsg == [id |-> 0, src |-> None, err |-> FALSE]

LoopPoint == {"idle", "grab", "mqrel", "drop", "pop", "length", "call", "next",
              "pushback"}
\* Points at which the dispatch loop holds a reference to the context.
InLoop == {"pop", "length", "call", "next", "pushback"}
LaunchPoint == {"none", "create", "init", "reserve", "n_rel", "n_init", "n_push",
                "n_null", "n_log", "n_ret", "f_retire", "f_mqrel", "f_drop"}
OpPoint == {"none", "grab", "push", "rel", "mark", "free"}

Init ==
    LET booted == {Boot[i] : i \in DOMAIN Boot} IN
    /\ ctx = [h \in Handle |-> IF h \in booted THEN "live" ELSE "unborn"]
    /\ ref = [h \in Handle |-> IF h \in booted THEN 1 ELSE 0]
    /\ slot = [h \in Handle |-> h \in booted]
    /\ init = slot
    /\ total = Len(Boot)
    /\ remote = None
    /\ queue = ctx
    /\ mq = [h \in Handle |-> <<>>]
    /\ inGlobal = slot
    /\ release = [h \in Handle |-> FALSE]
    /\ gq = Boot
    /\ pc = [t \in Thread |-> "idle"]
    /\ q = [t \in Thread |-> None]
    /\ nq = q
    /\ cur = [t \in Thread |-> NoMsg]
    /\ left = [t \in Thread |-> 0]
    /\ launch = [t \in Thread |-> "none"]
    /\ new = q
    /\ kill = q
    /\ op = launch
    /\ to = q
    /\ msg = cur
    /\ sent = 0

\* Nothing is in progress on top of layer l of thread t's stack.
AtLoop(t, p) == pc[t] = p /\ launch[t] = "none" /\ kill[t] = None /\ op[t] = "none"
AtLaunch(t, p) == launch[t] = p /\ kill[t] = None /\ op[t] = "none"
\* t runs service code: a callback, or the init function of a new service.
InService(t) == AtLoop(t, "call") \/ AtLaunch(t, "init")
Self(t) == IF launch[t] = "init" THEN new[t] ELSE q[t]

\* The call of skynet_context_push(h, m) / skynet_context_release(h) starts.
CallPush(t, h, m) ==
    /\ op' = [op EXCEPT ![t] = "grab"]
    /\ to' = [to EXCEPT ![t] = h]
    /\ msg' = [msg EXCEPT ![t] = m]
CallRelease(t, h) ==
    /\ op' = [op EXCEPT ![t] = "rel"]
    /\ to' = [to EXCEPT ![t] = h]
    /\ UNCHANGED msg
Done(t) ==
    /\ op' = [op EXCEPT ![t] = "none"]
    /\ to' = [to EXCEPT ![t] = None]
    /\ UNCHANGED msg

-----------------------------------------------------------------------------
(* skynet_context_push: grab, enqueue, release *)

\* skynet_handle_grab; a retired destination refuses the message (-1).
PushGrab(t) ==
    LET h == to[t] IN
    /\ op[t] = "grab"
    /\ IF slot[h]
         THEN /\ ref' = [ref EXCEPT ![h] = @ + 1]
              /\ op' = [op EXCEPT ![t] = "push"]
              /\ UNCHANGED <<to, msg>>
         ELSE /\ op' = [op EXCEPT ![t] = "none"]
              /\ to' = [to EXCEPT ![t] = None]
              /\ msg' = [msg EXCEPT ![t] = NoMsg]
              /\ UNCHANGED ref
    /\ UNCHANGED mqVars /\ UNCHANGED loopVars /\ UNCHANGED launchVars
    /\ UNCHANGED <<ctx, slot, init, total, remote, kill, sent>>

\* Mutant: the in_global flag is not set when the queue is pushed.
MqPushForgets(t) ==
    LET h == to[t] IN
    /\ op[t] = "push"
    /\ mq' = [mq EXCEPT ![h] = Append(@, msg[t])]
    /\ gq' = IF inGlobal[h] THEN gq ELSE Append(gq, h)
    /\ op' = [op EXCEPT ![t] = "rel"]
    /\ msg' = [msg EXCEPT ![t] = NoMsg]
    /\ UNCHANGED <<queue, inGlobal, release, to>>
    /\ UNCHANGED ctxVars /\ UNCHANGED loopVars /\ UNCHANGED launchVars
    /\ UNCHANGED <<kill, sent>>

\* skynet_mq_push, with the global queue's push nested in the queue's lock.
MqPush(t) ==
    LET h == to[t] IN
    /\ op[t] = "push"
    /\ mq' = [mq EXCEPT ![h] = Append(@, msg[t])]
    /\ gq' = IF inGlobal[h] THEN gq ELSE Append(gq, h)
    /\ inGlobal' = [inGlobal EXCEPT ![h] = TRUE]
    /\ op' = [op EXCEPT ![t] = "rel"]
    /\ msg' = [msg EXCEPT ![t] = NoMsg]
    /\ UNCHANGED <<queue, release, to>>
    /\ UNCHANGED ctxVars /\ UNCHANGED loopVars /\ UNCHANGED launchVars
    /\ UNCHANGED <<kill, sent>>

-----------------------------------------------------------------------------
(* skynet_context_release and delete_context *)

\* ATOM_DEC.  In skynet_context_new the result decides what is done next.
Release(t) ==
    LET h == to[t]
        last == ref[h] = 1
    IN
    /\ op[t] = "rel"
    /\ ref' = [ref EXCEPT ![h] = @ - 1]
    /\ op' = [op EXCEPT ![t] = IF last THEN "mark" ELSE "none"]
    /\ to' = [to EXCEPT ![t] = IF last THEN h ELSE None]
    /\ launch' = [launch EXCEPT ![t] =
                     IF @ = "n_rel" THEN IF last THEN "n_null" ELSE "n_init" ELSE @]
    /\ UNCHANGED mqVars /\ UNCHANGED loopVars
    /\ UNCHANGED <<ctx, slot, init, total, remote, new, kill, msg, sent>>

\* Mutant: a queue that nobody owns is not handed to the workers.
MqMarkReleaseQuiet(t) ==
    LET h == to[t] IN
    /\ op[t] = "mark"
    /\ release' = [release EXCEPT ![h] = TRUE]
    /\ op' = [op EXCEPT ![t] = "free"]
    /\ UNCHANGED <<queue, mq, inGlobal, gq, to, msg>>
    /\ UNCHANGED ctxVars /\ UNCHANGED loopVars /\ UNCHANGED launchVars
    /\ UNCHANGED <<kill, sent>>

\* skynet_mq_mark_release
MqMarkRelease(t) ==
    LET h == to[t] IN
    /\ op[t] = "mark"
    /\ release' = [release EXCEPT ![h] = TRUE]
    /\ gq' = IF inGlobal[h] THEN gq ELSE Append(gq, h)
    /\ op' = [op EXCEPT ![t] = "free"]
    /\ UNCHANGED <<queue, mq, inGlobal, to, msg>>
    /\ UNCHANGED ctxVars /\ UNCHANGED loopVars /\ UNCHANGED launchVars
    /\ UNCHANGED <<kill, sent>>

\* skynet_free(ctx); context_dec()
FreeCtx(t) ==
    /\ op[t] = "free"
    /\ ctx' = [ctx EXCEPT ![to[t]] = "freed"]
    /\ total' = total - 1
    /\ Done(t)
    /\ UNCHANGED mqVars /\ UNCHANGED loopVars /\ UNCHANGED launchVars
    /\ UNCHANGED <<ref, slot, init, remote, kill, sent>>

-----------------------------------------------------------------------------
(* What service code and the timer and socket threads do *)

\* skynet_send to a local handle.  A handle is known once its queue exists.
Send(t, h) ==
    /\ InService(t)
    /\ sent < MaxSend
    /\ queue[h] # "unborn"
    /\ sent' = sent + 1
    /\ CallPush(t, h, [id |-> sent + 1, src |-> Self(t), err |-> FALSE])
    /\ UNCHANGED ctxVars /\ UNCHANGED mqVars /\ UNCHANGED loopVars
    /\ UNCHANGED launchVars /\ UNCHANGED kill

\* timer_dispatch / forward_message: source 0
Post(t, h) ==
    /\ t \in Poster
    /\ op[t] = "none"
    /\ sent < MaxSend
    /\ queue[h] # "unborn"
    /\ sent' = sent + 1
    /\ CallPush(t, h, [id |-> sent + 1, src |-> None, err |-> FALSE])
    /\ UNCHANGED ctxVars /\ UNCHANGED mqVars /\ UNCHANGED loopVars
    /\ UNCHANGED launchVars /\ UNCHANGED kill

\* handle_exit (EXIT, KILL): tell the monitor, then retire.
HandleExit(t, h) ==
    /\ InService(t)
    /\ queue[h] # "unborn"
    /\ kill' = [kill EXCEPT ![t] = h]
    /\ \/ /\ MonitorExit = None
          /\ slot[h]             \* else nothing changes
          /\ UNCHANGED <<op, to, msg, sent>>
       \/ /\ MonitorExit # None
          /\ sent < MaxSend
          /\ sent' = sent + 1
          /\ CallPush(t, MonitorExit, [id |-> sent + 1, src |-> h, err |-> FALSE])
    /\ UNCHANGED ctxVars /\ UNCHANGED mqVars /\ UNCHANGED loopVars
    /\ UNCHANGED launchVars

\* One handle found by skynet_handle_retireall (ABORT), which knows the handle
\* of a service before anybody could have been told of it.
Abort(t, h) ==
    /\ InService(t)
    /\ slot[h]
    /\ kill' = [kill EXCEPT ![t] = h]
    /\ UNCHANGED ctxVars /\ UNCHANGED mqVars /\ UNCHANGED loopVars
    /\ UNCHANGED launchVars /\ UNCHANGED <<op, to, msg, sent>>

\* Mutant: the storage's reference is released even if the slot was empty.
RetireTwice(t, h) ==
    /\ slot' = [slot EXCEPT ![h] = FALSE]
    /\ CallRelease(t, h)
    /\ UNCHANGED <<ctx, ref, init, total, remote>>

\* skynet_handle_retire: only the call that empties the slot releases the
\* storage's reference.
RetireHandle(t, h) ==
    /\ slot' = [slot EXCEPT ![h] = FALSE]
    /\ IF slot[h] THEN CallRelease(t, h) ELSE UNCHANGED <<op, to, msg>>
    /\ UNCHANGED <<ctx, ref, init, total, remote>>

Retire(t) ==
    /\ kill[t] # None
    /\ op[t] = "none"
    /\ kill' = [kill EXCEPT ![t] = None]
    /\ RetireHandle(t, kill[t])
    /\ UNCHANGED mqVars /\ UNCHANGED loopVars /\ UNCHANGED launchVars
    /\ UNCHANGED sent

-----------------------------------------------------------------------------
(* skynet_context_new, inside a callback *)

\* ctx->ref = 2: one for the storage, one for this call.
Register(t, h) ==
    /\ AtLoop(t, "call")
    /\ ctx[h] = "unborn"
    /\ ctx' = [ctx EXCEPT ![h] = "live"]
    /\ ref' = [ref EXCEPT ![h] = 2]
    /\ slot' = [slot EXCEPT ![h] = TRUE]
    /\ launch' = [launch EXCEPT ![t] = "create"]
    /\ new' = [new EXCEPT ![t] = h]
    /\ UNCHANGED mqVars /\ UNCHANGED loopVars /\ UNCHANGED opVars
    /\ UNCHANGED <<init, total, remote>>

\* Mutant: skynet_mq_create leaves in_global clear.
MqCreateUnmarked(t) ==
    LET h == new[t] IN
    /\ AtLaunch(t, "create")
    /\ queue' = [queue EXCEPT ![h] = "live"]
    /\ total' = total + 1
    /\ launch' = [launch EXCEPT ![t] = "init"]
    /\ UNCHANGED loopVars /\ UNCHANGED opVars
    /\ UNCHANGED <<ctx, ref, slot, init, remote, mq, inGlobal, release, gq, new>>

\* Mutant: context_inc is missing.
MqCreateUncounted(t) ==
    LET h == new[t] IN
    /\ AtLaunch(t, "create")
    /\ queue' = [queue EXCEPT ![h] = "live"]
    /\ inGlobal' = [inGlobal EXCEPT ![h] = TRUE]
    /\ launch' = [launch EXCEPT ![t] = "init"]
    /\ UNCHANGED loopVars /\ UNCHANGED opVars
    /\ UNCHANGED <<ctx, ref, slot, init, total, remote, mq, release, gq, new>>

\* skynet_mq_create: in_global is set, so that nobody else pushes the queue.
MqCreate(t) ==
    LET h == new[t] IN
    /\ AtLaunch(t, "create")
    /\ queue' = [queue EXCEPT ![h] = "live"]
    /\ inGlobal' = [inGlobal EXCEPT ![h] = TRUE]
    /\ total' = total + 1
    /\ launch' = [launch EXCEPT ![t] = "init"]
    /\ UNCHANGED loopVars /\ UNCHANGED opVars
    /\ UNCHANGED <<ctx, ref, slot, init, remote, mq, release, gq, new>>

\* The init function of the harbor service (one per node) makes it REMOTE:
\* skynet_harbor_start and skynet_context_reserve, which takes a reference that
\* is given back after the threads have ended, and then does not count the
\* context any more.
Reserve(t) ==
    /\ AtLaunch(t, "init")
    /\ remote = None
    /\ remote' = new[t]
    /\ ref' = [ref EXCEPT ![new[t]] = @ + 1]
    /\ launch' = [launch EXCEPT ![t] = "reserve"]
    /\ UNCHANGED mqVars /\ UNCHANGED loopVars /\ UNCHANGED opVars
    /\ UNCHANGED <<ctx, slot, init, total, new>>

\* context_dec of skynet_context_reserve
ReserveDec(t) ==
    /\ AtLaunch(t, "reserve")
    /\ total' = total - 1
    /\ launch' = [launch EXCEPT ![t] = "init"]
    /\ UNCHANGED mqVars /\ UNCHANGED loopVars /\ UNCHANGED opVars
    /\ UNCHANGED <<ctx, ref, slot, init, remote, new>>

\* skynet_module_instance_init returns 0 or fails; harbor_init fails before it
\* has reserved its context, or not at all.
InitDone(t) ==
    /\ AtLaunch(t, "init")
    /\ \E next \in {"n_rel", "f_retire"} :
          /\ new[t] = remote => next = "n_rel"
          /\ launch' = [launch EXCEPT ![t] = next]
    /\ CallRelease(t, new[t])
    /\ UNCHANGED ctxVars /\ UNCHANGED mqVars /\ UNCHANGED loopVars
    /\ UNCHANGED <<new, kill, sent>>

\* ctx->init = true, after the reference has been given up
SetInit(t) ==
    /\ AtLaunch(t, "n_init")
    /\ init' = [init EXCEPT ![new[t]] = TRUE]
    /\ launch' = [launch EXCEPT ![t] = "n_push"]
    /\ UNCHANGED mqVars /\ UNCHANGED loopVars /\ UNCHANGED opVars
    /\ UNCHANGED <<ctx, ref, slot, total, remote, new>>

\* skynet_globalmq_push; without a context (ret is NULL) that is all.
PushNew(t) ==
    /\ AtLaunch(t, "n_push") \/ AtLaunch(t, "n_null")
    /\ gq' = Append(gq, new[t])
    /\ launch' = [launch EXCEPT ![t] = IF @ = "n_push" THEN "n_log" ELSE "none"]
    /\ new' = [new EXCEPT ![t] = IF launch[t] = "n_push" THEN @ ELSE None]
    /\ UNCHANGED ctxVars /\ UNCHANGED loopVars /\ UNCHANGED opVars
    /\ UNCHANGED <<queue, mq, inGlobal, release>>

\* skynet_error(ret, "LAUNCH ...") reads the context; its message to the logger
\* is left out.
LogLaunch(t) ==
    /\ AtLaunch(t, "n_log")
    /\ launch' = [launch EXCEPT ![t] = "n_ret"]
    /\ UNCHANGED ctxVars /\ UNCHANGED mqVars /\ UNCHANGED loopVars
    /\ UNCHANGED opVars /\ UNCHANGED new

\* cmd_launch reads the handle in the context that it was given.
ReturnLaunch(t) ==
    /\ AtLaunch(t, "n_ret")
    /\ launch' = [launch EXCEPT ![t] = "none"]
    /\ new' = [new EXCEPT ![t] = None]
    /\ UNCHANGED ctxVars /\ UNCHANGED mqVars /\ UNCHANGED loopVars
    /\ UNCHANGED opVars

FailRetire(t) ==
    /\ AtLaunch(t, "f_retire")
    /\ launch' = [launch EXCEPT ![t] = "f_mqrel"]
    /\ RetireHandle(t, new[t])
    /\ UNCHANGED mqVars /\ UNCHANGED loopVars /\ UNCHANGED <<new, kill, sent>>

\* skynet_mq_release of the failed service's queue
FailMqRelease(t) ==
    LET h == new[t] IN
    /\ AtLaunch(t, "f_mqrel")
    /\ gq' = IF release[h] THEN gq ELSE Append(gq, h)
    /\ launch' = [launch EXCEPT ![t] = IF release[h] THEN "f_drop" ELSE "none"]
    /\ new' = [new EXCEPT ![t] = IF release[h] THEN h ELSE None]
    /\ UNCHANGED ctxVars /\ UNCHANGED loopVars /\ UNCHANGED opVars
    /\ UNCHANGED <<queue, mq, inGlobal, release>>

-----------------------------------------------------------------------------
(* skynet_context_message_dispatch, the body of a worker thread *)

\* skynet_globalmq_pop by a worker that has no queue
PopGlobal(t) ==
    /\ t \in Worker
    /\ AtLoop(t, "idle")
    /\ gq # <<>>
    /\ gq' = Tail(gq)
    /\ q' = [q EXCEPT ![t] = Head(gq)]
    /\ pc' = [pc EXCEPT ![t] = "grab"]
    /\ UNCHANGED ctxVars /\ UNCHANGED launchVars /\ UNCHANGED opVars
    /\ UNCHANGED <<queue, mq, inGlobal, release, nq, cur, left>>

GrabCtx(t) ==
    LET h == q[t] IN
    /\ AtLoop(t, "grab")
    /\ pc' = [pc EXCEPT ![t] = IF slot[h] THEN "pop" ELSE "mqrel"]
    /\ ref' = IF slot[h] THEN [ref EXCEPT ![h] = @ + 1] ELSE ref
    /\ UNCHANGED mqVars /\ UNCHANGED launchVars /\ UNCHANGED opVars
    /\ UNCHANGED <<ctx, slot, init, total, remote, q, nq, cur, left>>

\* Mutant: the queue of a retired service is dropped without looking at
\* q->release.
MqReleaseEager(t) ==
    /\ AtLoop(t, "mqrel")
    /\ pc' = [pc EXCEPT ![t] = "drop"]
    /\ UNCHANGED ctxVars
    /\ UNCHANGED <<queue, mq, inGlobal, release, gq, q, nq, cur, left>>
    /\ UNCHANGED launchVars /\ UNCHANGED opVars

\* skynet_mq_release: drop the queue once its context is deleted, else put it
\* back to be looked at again.
MqRelease(t) ==
    LET h == q[t] IN
    /\ AtLoop(t, "mqrel")
    /\ gq' = IF release[h] THEN gq ELSE Append(gq, h)
    /\ pc' = [pc EXCEPT ![t] = IF release[h] THEN "drop" ELSE "idle"]
    /\ q' = [q EXCEPT ![t] = IF release[h] THEN h ELSE None]
    /\ UNCHANGED ctxVars /\ UNCHANGED launchVars /\ UNCHANGED opVars
    /\ UNCHANGED <<queue, mq, inGlobal, release, nq, cur, left>>

\* _drop_queue pops a message; drop_message answers its source with an error.
\* A message from source 0 has nobody to answer to.
DropOne(t, h) ==
    LET m == Head(mq[h]) IN
    /\ mq[h] # <<>>
    /\ mq' = [mq EXCEPT ![h] = Tail(@)]
    /\ IF m.src = None
         THEN UNCHANGED <<op, to, msg>>
         ELSE CallPush(t, m.src, [id |-> m.id, src |-> h, err |-> TRUE])
    /\ UNCHANGED ctxVars /\ UNCHANGED loopVars /\ UNCHANGED launchVars
    /\ UNCHANGED <<queue, inGlobal, release, gq, kill, sent>>

\* The pop that finds the queue empty, and _release.
DropEnd(h) ==
    /\ mq[h] = <<>>
    /\ inGlobal' = [inGlobal EXCEPT ![h] = FALSE]
    /\ queue' = [queue EXCEPT ![h] = "freed"]
    /\ UNCHANGED ctxVars /\ UNCHANGED opVars /\ UNCHANGED <<mq, release, gq>>

DropMessage(t) == AtLoop(t, "drop") /\ DropOne(t, q[t])

DropQueue(t) ==
    /\ AtLoop(t, "drop")
    /\ DropEnd(q[t])
    /\ pc' = [pc EXCEPT ![t] = "idle"]
    /\ q' = [q EXCEPT ![t] = None]
    /\ UNCHANGED launchVars /\ UNCHANGED <<nq, cur, left>>

FailDropMessage(t) == AtLaunch(t, "f_drop") /\ DropOne(t, new[t])

FailDropQueue(t) ==
    /\ AtLaunch(t, "f_drop")
    /\ DropEnd(new[t])
    /\ launch' = [launch EXCEPT ![t] = "none"]
    /\ new' = [new EXCEPT ![t] = None]
    /\ UNCHANGED loopVars

\* Mutant: the first message of a batch uses up an iteration too.
MqPopCountsFirst(t) ==
    LET h == q[t] IN
    /\ AtLoop(t, "pop")
    /\ mq[h] # <<>>
    /\ mq' = [mq EXCEPT ![h] = Tail(@)]
    /\ cur' = [cur EXCEPT ![t] = Head(mq[h])]
    /\ pc' = [pc EXCEPT ![t] = IF left[t] = 0 /\ Weight[t] >= 0 THEN "length" ELSE "call"]
    /\ left' = [left EXCEPT ![t] = @ - 1]
    /\ UNCHANGED ctxVars /\ UNCHANGED launchVars /\ UNCHANGED opVars
    /\ UNCHANGED <<queue, inGlobal, release, gq, q, nq>>

\* skynet_mq_pop gives a message.  left = 0 here means the first of a batch,
\* whose length is still to be decided; later pops use up one iteration.
MqPop(t) ==
    LET h == q[t] IN
    /\ AtLoop(t, "pop")
    /\ mq[h] # <<>>
    /\ mq' = [mq EXCEPT ![h] = Tail(@)]
    /\ cur' = [cur EXCEPT ![t] = Head(mq[h])]
    /\ IF left[t] = 0
         THEN /\ pc' = [pc EXCEPT ![t] = IF Weight[t] >= 0 THEN "length" ELSE "call"]
              /\ UNCHANGED left
         ELSE /\ pc' = [pc EXCEPT ![t] = "call"]
              /\ left' = [left EXCEPT ![t] = @ - 1]
    /\ UNCHANGED ctxVars /\ UNCHANGED launchVars /\ UNCHANGED opVars
    /\ UNCHANGED <<queue, inGlobal, release, gq, q, nq>>

\* Mutant: in_global stays set on the queue nobody owns any more.
MqPopEmptyForgets(t) ==
    LET h == q[t] IN
    /\ AtLoop(t, "pop")
    /\ mq[h] = <<>>
    /\ left' = [left EXCEPT ![t] = 0]
    /\ q' = [q EXCEPT ![t] = None]
    /\ pc' = [pc EXCEPT ![t] = "idle"]
    /\ CallRelease(t, h)
    /\ UNCHANGED ctxVars /\ UNCHANGED launchVars
    /\ UNCHANGED <<queue, mq, inGlobal, release, gq, nq, cur, kill, sent>>

\* skynet_mq_pop finds the queue empty: the worker gives it up.
MqPopEmpty(t) ==
    LET h == q[t] IN
    /\ AtLoop(t, "pop")
    /\ mq[h] = <<>>
    /\ inGlobal' = [inGlobal EXCEPT ![h] = FALSE]
    /\ left' = [left EXCEPT ![t] = 0]
    /\ q' = [q EXCEPT ![t] = None]
    /\ pc' = [pc EXCEPT ![t] = "idle"]
    /\ CallRelease(t, h)
    /\ UNCHANGED ctxVars /\ UNCHANGED launchVars
    /\ UNCHANGED <<queue, mq, release, gq, nq, cur, kill, sent>>

Pow2 == [w \in 0..3 |-> <<1, 2, 4, 8>>[w + 1]]

\* n = skynet_mq_length(q) >> weight; at least the message in hand is handled.
MqLength(t) ==
    LET n == Len(mq[q[t]]) \div Pow2[Weight[t]] IN
    /\ AtLoop(t, "length")
    /\ left' = [left EXCEPT ![t] = IF n > 1 THEN n - 1 ELSE 0]
    /\ pc' = [pc EXCEPT ![t] = "call"]
    /\ UNCHANGED ctxVars /\ UNCHANGED mqVars /\ UNCHANGED launchVars
    /\ UNCHANGED opVars /\ UNCHANGED <<q, nq, cur>>

\* dispatch_message: the callback returns.
CallbackReturn(t) ==
    /\ AtLoop(t, "call")
    /\ cur' = [cur EXCEPT ![t] = NoMsg]
    /\ pc' = [pc EXCEPT ![t] = IF left[t] > 0 THEN "pop" ELSE "next"]
    /\ UNCHANGED ctxVars /\ UNCHANGED mqVars /\ UNCHANGED launchVars
    /\ UNCHANGED opVars /\ UNCHANGED <<q, nq, left>>

\* The batch is over and another queue waits: take it, and push q back.
NextQueue(t) ==
    /\ AtLoop(t, "next")
    /\ gq # <<>>
    /\ gq' = Tail(gq)
    /\ nq' = [nq EXCEPT ![t] = Head(gq)]
    /\ pc' = [pc EXCEPT ![t] = "pushback"]
    /\ UNCHANGED ctxVars /\ UNCHANGED launchVars /\ UNCHANGED opVars
    /\ UNCHANGED <<queue, mq, inGlobal, release, q, cur, left>>

\* No other queue waits: keep q for the next dispatch.
KeepQueue(t) ==
    /\ AtLoop(t, "next")
    /\ gq = <<>>
    /\ pc' = [pc EXCEPT ![t] = "grab"]
    /\ CallRelease(t, q[t])
    /\ UNCHANGED ctxVars /\ UNCHANGED mqVars /\ UNCHANGED launchVars
    /\ UNCHANGED <<q, nq, cur, left, kill, sent>>

PushBack(t) ==
    /\ AtLoop(t, "pushback")
    /\ gq' = Append(gq, q[t])
    /\ q' = [q EXCEPT ![t] = nq[t]]
    /\ nq' = [nq EXCEPT ![t] = None]
    /\ pc' = [pc EXCEPT ![t] = "grab"]
    /\ CallRelease(t, q[t])
    /\ UNCHANGED ctxVars /\ UNCHANGED launchVars
    /\ UNCHANGED <<queue, mq, inGlobal, release, cur, left, kill, sent>>

-----------------------------------------------------------------------------
\* Steps a thread takes by itself, once service code has made its choices.
ThreadStep(t) ==
    \/ PushGrab(t) \/ MqPush(t) \/ Release(t) \/ MqMarkRelease(t) \/ FreeCtx(t)
    \/ Retire(t)
    \/ MqCreate(t) \/ ReserveDec(t) \/ InitDone(t)
    \/ SetInit(t) \/ PushNew(t) \/ LogLaunch(t) \/ ReturnLaunch(t)
    \/ FailRetire(t) \/ FailMqRelease(t) \/ FailDropMessage(t) \/ FailDropQueue(t)
    \/ PopGlobal(t) \/ GrabCtx(t) \/ MqRelease(t) \/ DropMessage(t) \/ DropQueue(t)
    \/ MqPop(t) \/ MqPopEmpty(t) \/ MqLength(t) \/ CallbackReturn(t)
    \/ NextQueue(t) \/ KeepQueue(t) \/ PushBack(t)

ServiceChoice(t) ==
    \/ Reserve(t)
    \/ \E h \in Handle : Send(t, h) \/ Post(t, h) \/ HandleExit(t, h) \/ Abort(t, h)
                         \/ Register(t, h)

Next == \E t \in Thread : ThreadStep(t) \/ ServiceChoice(t)

Spec == Init /\ [][Next]_vars

\* The operating system runs every thread, and every callback returns.
FairSpec == Spec /\ \A t \in Thread : WF_vars(ThreadStep(t))

-----------------------------------------------------------------------------
(* Properties *)

Life == {"unborn", "live", "freed"}

CtxType ==
    /\ ctx \in [Handle -> Life]
    /\ ref \in [Handle -> Int]
    /\ slot \in [Handle -> BOOLEAN]
    /\ init \in [Handle -> BOOLEAN]
    /\ total \in Int
    /\ remote \in Source

MqType ==
    /\ queue \in [Handle -> Life]
    /\ mq \in [Handle -> Seq(Message)]
    /\ inGlobal \in [Handle -> BOOLEAN]
    /\ release \in [Handle -> BOOLEAN]
    /\ gq \in Seq(Handle)

LoopType ==
    /\ pc \in [Thread -> LoopPoint]
    /\ q \in [Thread -> Source]
    /\ nq \in [Thread -> Source]
    /\ cur \in [Thread -> Message]
    /\ left \in [Thread -> Nat]

LaunchType == launch \in [Thread -> LaunchPoint] /\ new \in [Thread -> Source]

OpType ==
    /\ kill \in [Thread -> Source]
    /\ op \in [Thread -> OpPoint]
    /\ to \in [Thread -> Source]
    /\ msg \in [Thread -> Message]
    /\ sent \in Nat

\* Every variable keeps its type; a message in a queue or in hand is whole.
TypeOK == CtxType /\ MqType /\ LoopType /\ LaunchType /\ OpType

\* Points of skynet_context_new at which the new queue is in its hands.
LaunchHolds == LaunchPoint \ {"none", "create", "n_log", "n_ret"}
\* The thread has queue h in its hands.
Holds(t, h) ==
    \/ q[t] = h
    \/ nq[t] = h
    \/ launch[t] \in LaunchHolds /\ new[t] = h

\* "0 means mq is not in global mq. 1 means mq is in global mq, or the message
\* is dispatching" (skynet_mq.c): the global queue and the threads never have
\* a queue twice, so two workers never run one service at the same time.
OneOwner ==
    /\ \A i, j \in DOMAIN gq : gq[i] = gq[j] => i = j
    /\ \A t \in Thread : \A i \in DOMAIN gq : ~Holds(t, gq[i])
    /\ \A t, u \in Thread, h \in Handle : Holds(t, h) /\ Holds(u, h) => t = u
    /\ \A t \in Thread : q[t] # None => q[t] # nq[t] /\ (launch[t] # "none" => q[t] # new[t])

\* No service is left with mail and without anybody who will look at it.
NoStrandedMail ==
    \A h \in Handle :
        queue[h] = "live" /\ mq[h] # <<>> =>
            (\E i \in DOMAIN gq : gq[i] = h) \/ (\E t \in Thread : Holds(t, h))

\* A thread that uses a context or a queue finds it allocated: reference counts
\* keep the context, and the release flag keeps the queue until the context is
\* gone and its last owner has drained it.  skynet_context_new uses the context
\* after it has given its reference up: it writes ctx->init and logs, and its
\* caller reads the handle.  Only the storage's reference keeps it then, so the
\* context is there as long as nobody has retired the new handle, and no longer.
NoUseAfterFree ==
    /\ \A t \in Thread : pc[t] \in InLoop => ctx[q[t]] = "live"
    /\ \A t \in Thread : op[t] \in {"push", "rel", "mark", "free"} => ctx[to[t]] = "live"
    /\ \A t \in Thread : op[t] \in {"push", "mark"} => queue[to[t]] = "live"
    /\ \A t \in Thread, h \in Handle : Holds(t, h) => queue[h] = "live"
    /\ \A i \in DOMAIN gq : queue[gq[i]] = "live"
    /\ \A t \in Thread : launch[t] \in {"n_init", "n_log", "n_ret"} /\ slot[new[t]] => ctx[new[t]] = "live"

\* assert(q->release == 0) of skynet_mq_mark_release, and a queue is freed
\* only after its context.
ReleaseOnce ==
    /\ \A t \in Thread : op[t] = "mark" => ~release[to[t]]
    /\ \A h \in Handle : queue[h] = "freed" => ref[h] = 0 /\ ~slot[h]

\* assert(ctx->init) of dispatch_message: nobody dispatches a service before
\* skynet_context_new has finished with it.
InitBeforeDispatch == \A t \in Thread : pc[t] \in {"length", "call"} => init[q[t]]

\* thread_timer ends the process when skynet_context_total() is 0.  Then every
\* service is gone but the reserved one, which "will be release at last", and
\* only its code can be running (a service that it launches is there before it
\* is counted); and when the reserved one is all there is, the count is 0, so
\* that the process does end.
QuitOnlyWhenEmpty ==
    /\ total = 0 => /\ \A h \in Handle :
                          ctx[h] = "live" => \/ h = remote
                                            \/ \E t \in Thread : launch[t] = "create" /\ new[t] = h /\ q[t] = remote
                    /\ \A t \in Thread : InService(t) => Self(t) = remote
    /\ (\A h \in Handle : ctx[h] = "live" => h = remote) => total = 0

\* The dispatch core implements the actor contract: one message at a time, in
\* order, and bounced only after the service is gone.
Actors == INSTANCE ActorSystem WITH
    Service <- Handle,
    status <- [h \in Handle |-> IF ctx[h] = "unborn" THEN "unborn"
                                ELSE IF slot[h] THEN "open"
                                ELSE IF release[h] THEN "gone" ELSE "closing"],
    mailbox <- mq,
    running <- [h \in Handle |->
                  {cur[t] : t \in {u \in Thread : pc[u] \in {"length", "call"} /\ q[u] = h}}]
ImplementsActors == Actors!AbsSpec

\* A message in a queue leaves it: it is handled, or dropped with the service.
\* Only the reserved service keeps what it has when it is retired, to the end.
Waiting(id) ==
    \E h \in Handle : \E i \in DOMAIN mq[h] : mq[h][i].id = id /\ (h = remote => slot[h])
MailDelivered == \A id \in 1..MaxSend : Waiting(id) ~> ~Waiting(id)

\* A retired service gives its context and its queue back, unless it is the
\* reserved one.
ServicesReclaimed ==
    \A h \in Handle :
        ctx[h] # "unborn" /\ ~slot[h] ~> (ctx[h] = "freed" /\ queue[h] = "freed") \/ h = remote
=============================================================================
