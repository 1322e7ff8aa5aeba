----------------------------- MODULE LuaSession -----------------------------
(***************************************************************************)
(* The runtime of one Lua service (skynet.lua) and skynet.queue: which     *)
(* coroutine an incoming message starts or resumes, who is resumed after   *)
(* it has yielded, and what the other services are answered.               *)
(*                                                                         *)
(* What the service's code does between two yields is up to it: a running  *)
(* coroutine takes any of the steps below.  Other services answer in any   *)
(* order, with a response or an error, and may go away.  Tokens are the    *)
(* coroutines themselves, which are used again for later messages.         *)
(***************************************************************************)
EXTENDS Integers, Sequences, FiniteSets, FiniteSetsExt, SequencesExt

CONSTANTS
    Co,                          \* coroutines
    Peer,                        \* services that call this one and are called by it
    None, Break,                 \* nil, "BREAK"
    Limits                       \* what the service's code does, see LimitsAssumption

Op == {"call", "sleep", "wait", "fork", "queue", "response", "die", "exit"}
ASSUME NoneAssumption == None # Break /\ {None, Break} \cap (Co \cup Peer) = {}
\* op: what coroutines do.  Bounds: req on the requests that come in, session on
\* the session ids.
ASSUME LimitsAssumption == \A l \in Limits : l.op \subseteq Op /\ l.req \in Nat /\ l.session \in Nat

VARIABLES
    lim,
    pc,                          \* what the service is doing: see Init
    frames,                      \* calls of suspend that are in dispatch_wakeup
    th,                          \* coroutines: st, the session waited for, the request
                                 \* in session_coroutine_id (0: none), depth in the queue
    session_id_coroutine, watching_session, sleep_session,
    wakeup_queue, error_queue, fork_queue,
    unresponse,                  \* requests whose response function is not called yet
    cs,                          \* a skynet.queue: current_thread, ref, thread_queue
    last,                        \* the last session id
    source,                      \* who sent each request
    calls, timers,               \* sessions that others will answer
    down,                        \* peers that are gone
    exited,
    answers,                     \* history: answers to each request
    void                         \* history: requests that need no answer any more

tables == <<session_id_coroutine, watching_session, sleep_session>>
queues == <<wakeup_queue, error_queue, fork_queue>>
env == <<last, source, calls, timers, down>>
due == <<unresponse, answers, void>>
vars == <<lim, pc, frames, th, tables, queues, cs, env, due, exited>>

Session == 1..lim.session
Request == 1..lim.req
Free == [st |-> "free", session |-> 0, req |-> 0, in |-> 0]
At(p) == [at |-> p, co |-> None]
Running(c) == [at |-> "run", co |-> c]

Init ==
    /\ lim \in Limits
    /\ pc = At("idle")           \* or run, wake and err (in suspend), forks (in dispatch_message)
    /\ frames = 0
    /\ th = [c \in Co |-> Free]
    /\ session_id_coroutine = [s \in Session |-> None]
    /\ watching_session = [s \in Session |-> None]
    /\ sleep_session = [c \in Co |-> 0]
    /\ wakeup_queue = <<>> /\ error_queue = <<>> /\ fork_queue = <<>>
    /\ unresponse = {}
    /\ cs = [current_thread |-> None, ref |-> 0, thread_queue |-> <<>>]
    /\ last = 0
    /\ source = <<>>
    /\ calls = {} /\ timers = {}
    /\ down = {}
    /\ exited = FALSE
    /\ answers = [r \in Request |-> 0]
    /\ void = {}

-----------------------------------------------------------------------------
(* Messages: raw_dispatch_message *)

\* The worker goes through the messages it has taken, also after skynet.exit.
Dispatch == pc = At("idle")

\* What a coroutine does first when its yield returns: yield_call forgets the
\* watched session, sleep and wait the token, wait its session as well.  left:
\* what is left in session_id_coroutine; one that waited for the queue goes on
\* with its check.
Resume(c, left) ==
    LET x == th[c] IN
    /\ th' = [th EXCEPT ![c].st = IF x.st = "queue" THEN "enter" ELSE "run", ![c].session = 0]
    /\ session_id_coroutine' =
         [session_id_coroutine EXCEPT ![x.session] = IF x.st \in {"wait", "queue"} THEN None ELSE left]
    /\ watching_session' = [watching_session EXCEPT ![x.session] = None]
    /\ sleep_session' = [sleep_session EXCEPT ![c] = 0]
    /\ pc' = Running(c)

Receive(p, c) ==                 \* a request starts a coroutine
    /\ Dispatch /\ Len(source) < lim.req /\ p \notin down /\ th[c] = Free
    /\ source' = Append(source, p)
    /\ th' = [th EXCEPT ![c] = [Free EXCEPT !.st = "run", !.req = Len(source) + 1]]
    /\ pc' = Running(c)
    /\ UNCHANGED <<lim, frames, tables, queues, cs, last, calls, timers, down, due, exited>>

\* PTYPE_RESPONSE, of a service or the timer: the coroutine is resumed; a broken
\* sleep or an unknown session is only logged.
Response(s) ==
    LET c == session_id_coroutine[s] IN
    /\ Dispatch /\ s \in calls \cup timers
    /\ calls' = calls \ {s} /\ timers' = timers \ {s}
    /\ IF c \in Co THEN Resume(c, None)
       ELSE /\ session_id_coroutine' = [session_id_coroutine EXCEPT ![s] = None]
            /\ pc' = At("forks")
            /\ UNCHANGED <<th, watching_session, sleep_session>>
    /\ UNCHANGED <<lim, frames, queues, cs, last, source, down, due, exited>>

\* _error_dispatch for one session, in a coroutine that ends at once
ErrorDispatch(s) ==
    /\ Dispatch /\ s \in calls
    /\ calls' = calls \ {s}
    /\ error_queue' = IF watching_session[s] # None THEN Append(error_queue, s) ELSE error_queue
    /\ pc' = At("wake")
    /\ UNCHANGED <<lim, frames, th, tables, wakeup_queue, fork_queue, cs, last, source, timers, down,
                   due, exited>>

\* _error_dispatch for session 0: a peer that waits for an answer is down.  Its
\* answers are not needed, the calls to it fail (in the order of pairs).
SourceDown(p) ==
    LET owed == {r \in DOMAIN source : source[r] = p /\ answers[r] = 0} IN
    /\ Dispatch /\ p \notin down /\ owed # {}
    /\ down' = down \cup {p}
    /\ void' = void \cup (owed \cap unresponse)
    /\ unresponse' = unresponse \ owed
    /\ \E q \in SetToSeqs({s \in Session : watching_session[s] = p}) : error_queue' = error_queue \o q
    /\ pc' = At("wake")
    /\ UNCHANGED <<lim, frames, th, tables, wakeup_queue, fork_queue, cs, last, source, calls, timers,
                   answers, exited>>

-----------------------------------------------------------------------------
(* suspend and dispatch_message: who runs next *)

\* Mutant: a broken sleep keeps its coroutine under the session.
DispatchWakeupKeeps ==
    LET c == Head(wakeup_queue) IN
    /\ pc = At("wake") /\ wakeup_queue # <<>>
    /\ wakeup_queue' = Tail(wakeup_queue)
    /\ IF sleep_session[c] # 0
         THEN Resume(c, c) /\ frames' = frames + 1
         ELSE pc' = At("err") /\ UNCHANGED <<th, tables, frames>>
    /\ UNCHANGED <<lim, error_queue, fork_queue, cs, env, due, exited>>

\* dispatch_wakeup: the first token, if somebody still sleeps on it
DispatchWakeup ==
    LET c == Head(wakeup_queue) IN
    /\ pc = At("wake") /\ wakeup_queue # <<>>
    /\ wakeup_queue' = Tail(wakeup_queue)
    /\ IF sleep_session[c] # 0
         THEN Resume(c, Break) /\ frames' = frames + 1
         ELSE pc' = At("err") /\ UNCHANGED <<th, tables, frames>>
    /\ UNCHANGED <<lim, error_queue, fork_queue, cs, env, due, exited>>

NoWakeup ==
    /\ pc = At("wake") /\ wakeup_queue = <<>>
    /\ pc' = At("err")
    /\ UNCHANGED <<lim, frames, th, tables, queues, cs, env, due, exited>>

DispatchErrorQueue ==            \* dispatch_error_queue
    LET s == Head(error_queue) IN
    /\ pc = At("err") /\ error_queue # <<>>
    /\ session_id_coroutine[s] \in Co
    /\ error_queue' = Tail(error_queue)
    /\ Resume(session_id_coroutine[s], None)
    /\ UNCHANGED <<lim, frames, wakeup_queue, fork_queue, cs, env, due, exited>>

\* After skynet.exit a session left in error_queue may be answered before it is
\* taken: coroutine_resume(nil) raises an error, through all calls of suspend.
DispatchErrorStale ==
    /\ pc = At("err") /\ error_queue # <<>>
    /\ session_id_coroutine[Head(error_queue)] \notin Co
    /\ error_queue' = Tail(error_queue)
    /\ frames' = 0
    /\ pc' = At("forks")
    /\ UNCHANGED <<lim, th, tables, wakeup_queue, fork_queue, cs, env, due, exited>>

\* suspend returns: to another suspend that has its error_queue to do, or at last
\* to dispatch_message.
Return == IF frames > 0 THEN pc' = At("err") /\ frames' = frames - 1
          ELSE pc' = At("forks") /\ UNCHANGED frames

NoError ==
    /\ pc = At("err") /\ error_queue = <<>>
    /\ Return
    /\ UNCHANGED <<lim, th, tables, queues, cs, env, due, exited>>

\* The loop over fork_queue; None is the empty function of suspend.
DispatchFork ==
    LET c == Head(fork_queue) IN
    /\ pc = At("forks") /\ fork_queue # <<>>
    /\ fork_queue' = Tail(fork_queue)
    /\ IF c = None THEN pc' = At("wake") /\ UNCHANGED th
       ELSE pc' = Running(c) /\ th' = [th EXCEPT ![c].st = "run"]
    /\ UNCHANGED <<lim, frames, tables, wakeup_queue, error_queue, cs, env, due, exited>>

Done ==
    /\ pc = At("forks") /\ fork_queue = <<>>
    /\ pc' = At("idle")
    /\ UNCHANGED <<lim, frames, th, tables, queues, cs, env, due, exited>>

-----------------------------------------------------------------------------
(* What a running coroutine does *)

Runs(c, op) == pc = Running(c) /\ th[c].st = "run" /\ (op # "" => op \in lim.op)
\* It yields "SUSPEND" to wait for a new session.
Suspend(c, st) ==
    /\ last < lim.session
    /\ last' = last + 1
    /\ th' = [th EXCEPT ![c].st = st, ![c].session = last + 1]
    /\ session_id_coroutine' = [session_id_coroutine EXCEPT ![last + 1] = c]
    /\ pc' = At("wake")

Call(c, p) ==                    \* skynet.call
    /\ Runs(c, "call") /\ p \notin down
    /\ Suspend(c, "call")
    /\ watching_session' = [watching_session EXCEPT ![last + 1] = p]
    /\ calls' = calls \cup {last + 1}
    /\ UNCHANGED <<lim, frames, sleep_session, queues, cs, source, timers, down, due, exited>>

Sleep(c) ==                      \* skynet.sleep
    /\ Runs(c, "sleep")
    /\ Suspend(c, "sleep")
    /\ sleep_session' = [sleep_session EXCEPT ![c] = last + 1]
    /\ timers' = timers \cup {last + 1}
    /\ UNCHANGED <<lim, frames, watching_session, queues, cs, source, calls, down, due, exited>>

Wait(c) ==                       \* skynet.wait
    /\ Runs(c, "wait")
    /\ Suspend(c, "wait")
    /\ sleep_session' = [sleep_session EXCEPT ![c] = last + 1]
    /\ UNCHANGED <<lim, frames, watching_session, queues, cs, source, calls, timers, down, due, exited>>

\* skynet.wakeup by the service's code: of a coroutine that sleeps for it, and
\* once, as the libraries do, which forget the token first (socket.lua:25).
Wakeup(c, d) ==
    /\ Runs(c, "") /\ th[d].st \in {"sleep", "wait"} /\ d \notin ToSet(wakeup_queue)
    /\ wakeup_queue' = Append(wakeup_queue, d)
    /\ UNCHANGED <<lim, pc, frames, th, tables, error_queue, fork_queue, cs, env, due, exited>>

Fork(c, d) ==                    \* skynet.fork
    /\ Runs(c, "fork") /\ th[d] = Free
    /\ fork_queue' = Append(fork_queue, d)
    /\ th' = [th EXCEPT ![d].st = "forked"]
    /\ UNCHANGED <<lim, pc, frames, tables, wakeup_queue, error_queue, cs, env, due, exited>>

Ret(c) ==                        \* skynet.ret
    /\ Runs(c, "") /\ th[c].req # 0
    /\ answers' = [answers EXCEPT ![th[c].req] = @ + 1]
    /\ th' = [th EXCEPT ![c].req = 0]
    /\ UNCHANGED <<lim, pc, frames, tables, queues, cs, env, unresponse, void, exited>>

TakeResponse(c) ==               \* skynet.response
    /\ Runs(c, "response") /\ th[c].req # 0
    /\ unresponse' = unresponse \cup {th[c].req}
    /\ th' = [th EXCEPT ![c].req = 0]
    /\ UNCHANGED <<lim, pc, frames, tables, queues, cs, env, answers, void, exited>>

Respond(c, r) ==                 \* the response function, with a result or an error
    /\ Runs(c, "response") /\ r \in unresponse
    /\ unresponse' = unresponse \ {r}
    /\ answers' = [answers EXCEPT ![r] = @ + 1]
    /\ UNCHANGED <<lim, pc, frames, th, tables, queues, cs, env, void, exited>>

\* Its function returns; a request without an answer is "Maybe forgot response".
End(c) ==
    /\ Runs(c, "") /\ th[c].in = 0
    /\ void' = void \cup ({th[c].req} \ {0})
    /\ th' = [th EXCEPT ![c] = Free]
    /\ pc' = At("wake")
    /\ UNCHANGED <<lim, frames, tables, queues, cs, env, unresponse, answers, exited>>

\* Mutant: the empty function is not forked.
DieQuiet(c) ==
    /\ Runs(c, "die") /\ th[c].in = 0
    /\ answers' = IF th[c].req # 0 THEN [answers EXCEPT ![th[c].req] = @ + 1] ELSE answers
    /\ th' = [th EXCEPT ![c] = Free]
    /\ frames' = 0
    /\ pc' = At("forks")
    /\ UNCHANGED <<lim, tables, queues, cs, env, unresponse, void, exited>>

\* An error that nobody catches: suspend answers the request with it, forks the
\* empty function and raises it again, through all calls of suspend.
Die(c) ==
    /\ Runs(c, "die") /\ th[c].in = 0
    /\ answers' = IF th[c].req # 0 THEN [answers EXCEPT ![th[c].req] = @ + 1] ELSE answers
    /\ th' = [th EXCEPT ![c] = Free]
    /\ fork_queue' = Append(fork_queue, None)
    /\ frames' = 0
    /\ pc' = At("forks")
    /\ UNCHANGED <<lim, tables, wakeup_queue, error_queue, cs, env, unresponse, void, exited>>

\* Requests that skynet.exit answers with an error
Open == {th[c].req : c \in Co} \ {0}

\* Mutant: the response functions are forgotten.
ExitForgets(c) ==
    /\ Runs(c, "exit")
    /\ exited' = TRUE
    /\ fork_queue' = <<>>
    /\ answers' = [r \in Request |-> answers[r] + (IF r \in Open THEN 1 ELSE 0)]
    /\ unresponse' = {}
    /\ th' = [th EXCEPT ![c].st = "quit"]
    /\ Return
    /\ UNCHANGED <<lim, tables, wakeup_queue, error_queue, cs, env, void>>

\* skynet.exit, and what suspend does with "QUIT"
Exit(c) ==
    /\ Runs(c, "exit")
    /\ exited' = TRUE
    /\ fork_queue' = <<>>
    /\ answers' = [r \in Request |-> answers[r] + (IF r \in Open \cup unresponse THEN 1 ELSE 0)]
    /\ unresponse' = {}
    /\ th' = [th EXCEPT ![c].st = "quit"]
    /\ Return
    /\ UNCHANGED <<lim, tables, wakeup_queue, error_queue, cs, env, void>>

-----------------------------------------------------------------------------
(* skynet.queue *)

Hold(c) ==
    /\ cs' = [cs EXCEPT !.current_thread = c, !.ref = @ + 1]
    /\ th' = [th EXCEPT ![c].st = "run", ![c].in = @ + 1]
    /\ UNCHANGED <<lim, pc, frames, tables, queues, env, due, exited>>

\* The queue is free, or the coroutine has it already (once more, here).
Enter(c) ==
    /\ Runs(c, "queue") /\ cs.current_thread \in {None, c} /\ th[c].in < 2
    /\ Hold(c)

EnterLater(c) ==                 \* it waits for its turn
    /\ Runs(c, "queue") /\ cs.current_thread \notin {None, c}
    /\ Suspend(c, "queue")
    /\ cs' = [cs EXCEPT !.thread_queue = Append(@, c)]
    /\ sleep_session' = [sleep_session EXCEPT ![c] = last + 1]
    /\ UNCHANGED <<lim, frames, watching_session, queues, source, calls, timers, down, due, exited>>

\* assert(ref == 0), which is QueueHandsOver
EnterNow(c) ==
    /\ pc = Running(c) /\ th[c].st = "enter"
    /\ Hold(c)

\* Mutant: who came last is next (table.remove without the index).
LeaveLast(c) ==
    LET next == cs.ref = 1 /\ cs.thread_queue # <<>>
        d == Last(cs.thread_queue)
    IN  /\ Runs(c, "") /\ th[c].in > 0
        /\ th' = [th EXCEPT ![c].in = @ - 1]
        /\ cs' = [current_thread |-> IF cs.ref > 1 THEN c ELSE IF next THEN d ELSE None,
                  ref |-> cs.ref - 1,
                  thread_queue |-> IF next THEN Front(cs.thread_queue) ELSE cs.thread_queue]
        /\ wakeup_queue' = IF next /\ sleep_session[d] # 0 THEN Append(wakeup_queue, d) ELSE wakeup_queue
        /\ UNCHANGED <<lim, pc, frames, tables, error_queue, fork_queue, env, due, exited>>

\* Mutant: the next one is made the holder and not woken.
LeaveSilently(c) ==
    LET next == cs.ref = 1 /\ cs.thread_queue # <<>> IN
    /\ Runs(c, "") /\ th[c].in > 0
    /\ th' = [th EXCEPT ![c].in = @ - 1]
    /\ cs' = [current_thread |-> IF cs.ref > 1 THEN c ELSE IF next THEN Head(cs.thread_queue) ELSE None,
              ref |-> cs.ref - 1,
              thread_queue |-> IF next THEN Tail(cs.thread_queue) ELSE cs.thread_queue]
    /\ UNCHANGED <<lim, pc, frames, tables, queues, env, due, exited>>

\* The function has returned or failed (xpcall_ret): the next one has the queue
\* from now on, and is woken up.
Leave(c) ==
    LET next == cs.ref = 1 /\ cs.thread_queue # <<>>
        d == Head(cs.thread_queue)
    IN  /\ Runs(c, "") /\ th[c].in > 0
        /\ th' = [th EXCEPT ![c].in = @ - 1]
        /\ cs' = [current_thread |-> IF cs.ref > 1 THEN c ELSE IF next THEN d ELSE None,
                  ref |-> cs.ref - 1,
                  thread_queue |-> IF next THEN Tail(cs.thread_queue) ELSE cs.thread_queue]
        /\ wakeup_queue' = IF next /\ sleep_session[d] # 0 THEN Append(wakeup_queue, d) ELSE wakeup_queue
        /\ UNCHANGED <<lim, pc, frames, tables, error_queue, fork_queue, env, due, exited>>

-----------------------------------------------------------------------------
Message ==
    \/ \E p \in Peer : SourceDown(p) \/ \E c \in Co : Receive(p, c)
    \/ \E s \in Session : Response(s) \/ ErrorDispatch(s)
Scheduler ==
    \/ DispatchWakeup \/ NoWakeup
    \/ DispatchErrorQueue \/ DispatchErrorStale \/ NoError
    \/ DispatchFork \/ Done
Step(c) ==
    \/ \E p \in Peer : Call(c, p)
    \/ Sleep(c) \/ Wait(c) \/ \E d \in Co : Wakeup(c, d) \/ Fork(c, d)
    \/ Ret(c) \/ TakeResponse(c) \/ \E r \in Request : Respond(c, r)
    \/ End(c) \/ Die(c) \/ Exit(c)
    \/ Enter(c) \/ EnterLater(c) \/ EnterNow(c) \/ Leave(c)

Next == Message \/ Scheduler \/ \E c \in Co : Step(c)

Spec == Init /\ [][Next]_vars

-----------------------------------------------------------------------------
(* Properties *)

Waiting == {"call", "sleep", "wait", "queue"}

\* An answer resumes the coroutine that waits for it and no other, nobody waits
\* for a session that leads elsewhere, and the timer's answer to a sleep that was
\* broken off is expected and finds nobody.
AnswersFindCallers ==
    /\ \A c \in Co : th[c].st \in Waiting => session_id_coroutine[th[c].session] = c
    /\ \A s \in Session :
          LET c == session_id_coroutine[s] IN
          /\ c \in Co => th[c].session = s
          /\ c = Break => s \in timers
          /\ s \in timers => c # None

\* When a message is done, everybody who was woken, forked or told of an error
\* has run: nobody is left for the next message to come, even if coroutines
\* failed on the way.
NobodyLeft ==
    pc = At("idle") /\ ~exited => wakeup_queue = <<>> /\ error_queue = <<>> /\ fork_queue = <<>>

\* A request is answered once, whatever its coroutine does and whoever else
\* answers for it, up to and with skynet.exit, which answers what is left; until
\* then one coroutine or response function owes the answer, unless it was
\* forgotten or its caller is gone.
Owed(r) == Cardinality({c \in Co : th[c].req = r /\ ~exited}) + Cardinality({r} \cap (unresponse \cup void))
AnsweredOnce == [][~exited => \A r \in DOMAIN source' : answers'[r] + Owed(r)' = 1]_vars

\* assert(ref == 0) in queue.lua, "current_thread == thread": who is woken to
\* enter the queue has it for himself.  While it is on its way it came before
\* all who still wait: skynet.wait drew it an earlier session.  Until
\* skynet.exit: it leaves tokens in wakeup_queue, and a coroutine that was answered
\* meanwhile and waits for the queue now is woken by its old token.
QueueHandsOver ==
    ~exited => \A c \in Co :
        /\ th[c].st = "enter" =>
              cs.ref = 0 /\ cs.current_thread = c /\ \A d \in Co : th[d].in = 0
        /\ th[c].st = "queue" /\ cs.current_thread = c =>
              \A d \in ToSet(cs.thread_queue) : th[c].session < th[d].session

\* Between two messages the queue is with a coroutine inside it, or free with
\* nobody waiting: a coroutine that failed inside does not block the others.
QueueMovesOn ==
    pc = At("idle") /\ ~exited =>
        IF cs.current_thread = None THEN cs.thread_queue = <<>> ELSE th[cs.current_thread].in > 0

=============================================================================
