--------------------------- MODULE WorkerThreads ---------------------------
(***************************************************************************)
(* The threads of skynet_start.c: workers that sleep on a condition        *)
(* variable when there is no queue to serve, the timer, socket and monitor *)
(* threads, and the shutdown when the last context is gone.  What a        *)
(* dispatch does is SkynetDispatch's; here the global queue is a number of *)
(* waiting queues and the contexts are a number of services.               *)
(***************************************************************************)
EXTENDS Integers, FiniteSets

CONSTANTS
    Worker,                      \* worker threads; m->count of them
    Stuck,                       \* workers that may meet an endless loop
    Nobody,                      \* holder of a free mutex
    MaxWork,                     \* bound: queues waiting in the global queue
    Services                     \* bound: services, all of them running at first

Timer == "timer"                 \* the timer thread, as a holder of the mutex

ASSUME WorkerAssumption ==
    IsFiniteSet(Worker) /\ Nobody \notin Worker \cup {Timer}
ASSUME StuckAssumption == Stuck \subseteq Worker
ASSUME BoundAssumption == MaxWork \in Nat \ {0} /\ Services \in Nat \ {0}

VARIABLES
    work,                        \* length of the global queue
    total,                       \* G_NODE.total
    sleep, quit,                 \* m->sleep, m->quit
    mutex,                       \* holder of m->mutex
    waiting,                     \* workers inside pthread_cond_wait, not signalled
    wpc, tpc, spc, mpc,          \* workers, timer, socket and monitor thread
    exitSent                     \* skynet_socket_exit has been called

node == <<work, total>>
cond == <<sleep, quit, mutex, waiting>>
vars == <<node, cond, wpc, tpc, spc, mpc, exitSent>>

Count == Cardinality(Worker)
\* Workers that run service code, each a service of its own.
Busy == {w \in Worker : wpc[w] \in {"busy", "stuck"}}

Init ==                          \* start(), after bootstrap
    /\ work = 1
    /\ total = Services
    /\ sleep = 0
    /\ quit = FALSE
    /\ mutex = Nobody
    /\ waiting = {}
    /\ wpc = [w \in Worker |-> "loop"]
    /\ tpc = "update"
    /\ spc = "poll"
    /\ mpc = "loop"
    /\ exitSent = FALSE

GoW(w, from, to) == wpc[w] = from /\ wpc' = [wpc EXCEPT ![w] = to]
\* A message is pushed to an idle service: its queue joins the global queue.
AddWork == work < MaxWork /\ work' = work + 1

-----------------------------------------------------------------------------
(* thread_worker *)

LoopTest(w) ==                   \* while (!m->quit)
    /\ GoW(w, "loop", IF quit THEN "end" ELSE "dispatch")
    /\ UNCHANGED <<node, cond, tpc, spc, mpc, exitSent>>

\* skynet_context_message_dispatch takes a queue and runs a service that no
\* other worker runs, or drops the queue of a service that is gone.
Dispatch(w) ==
    /\ work > 0
    /\ \/ Cardinality(Busy) < total /\ GoW(w, "dispatch", "busy")
       \/ GoW(w, "dispatch", "drop")
    /\ work' = work - 1
    /\ UNCHANGED <<total, cond, tpc, spc, mpc, exitSent>>

\* Service code sends a message.
Send(w) ==
    /\ w \in Busy
    /\ AddWork
    /\ UNCHANGED <<total, cond, wpc, tpc, spc, mpc, exitSent>>

\* Service code launches a service, whose queue joins the global queue.
Launch(w) ==
    /\ wpc[w] = "busy"
    /\ total < Services
    /\ total' = total + 1
    /\ AddWork
    /\ UNCHANGED <<cond, wpc, tpc, spc, mpc, exitSent>>

\* The callback returns; the service may have ended itself meanwhile.
Return(w) ==
    /\ GoW(w, "busy", "loop")
    /\ total' \in {total, total - 1}
    /\ UNCHANGED <<work, cond, tpc, spc, mpc, exitSent>>

\* The callback has entered an endless loop.
Loops(w) ==
    /\ w \in Stuck
    /\ GoW(w, "busy", "stuck")
    /\ UNCHANGED <<node, cond, tpc, spc, mpc, exitSent>>

Dropped(w) ==
    /\ GoW(w, "drop", "loop")
    /\ UNCHANGED <<node, cond, tpc, spc, mpc, exitSent>>

NoQueue(w) ==                    \* skynet_globalmq_pop returns NULL
    /\ work = 0
    /\ GoW(w, "dispatch", "lock")
    /\ UNCHANGED <<node, cond, tpc, spc, mpc, exitSent>>

Lock(w) ==                       \* pthread_mutex_lock; ++ m->sleep
    /\ mutex = Nobody
    /\ GoW(w, "lock", "test")
    /\ mutex' = w
    /\ sleep' = sleep + 1
    /\ UNCHANGED <<node, quit, waiting, tpc, spc, mpc, exitSent>>

TestQuit(w) ==                   \* if (!m->quit)
    /\ GoW(w, "test", IF quit THEN "awake" ELSE "wait")
    /\ UNCHANGED <<node, cond, tpc, spc, mpc, exitSent>>

CondWait(w) ==                   \* pthread_cond_wait gives the mutex up
    /\ GoW(w, "wait", "sleep")
    /\ waiting' = waiting \cup {w}
    /\ mutex' = Nobody
    /\ UNCHANGED <<node, sleep, quit, tpc, spc, mpc, exitSent>>

\* pthread_cond_wait returns to a worker that was signalled
Wake(w) ==
    /\ w \notin waiting
    /\ mutex = Nobody
    /\ GoW(w, "sleep", "awake")
    /\ mutex' = w
    /\ UNCHANGED <<node, sleep, quit, waiting, tpc, spc, mpc, exitSent>>

Unlock(w) ==                     \* -- m->sleep; pthread_mutex_unlock
    /\ GoW(w, "awake", "loop")
    /\ sleep' = sleep - 1
    /\ mutex' = Nobody
    /\ UNCHANGED <<node, quit, waiting, tpc, spc, mpc, exitSent>>

\* "spurious wakeup" is harmless
Spurious(w) ==
    /\ w \in waiting
    /\ waiting' = waiting \ {w}
    /\ UNCHANGED <<node, sleep, quit, mutex, wpc, tpc, spc, mpc, exitSent>>

-----------------------------------------------------------------------------
(* wakeup(m, busy): m->sleep is read without the mutex, then the signal *)

\* pthread_cond_signal wakes one of those who wait, if any does.
Signal ==
    IF waiting = {} THEN UNCHANGED waiting
    ELSE \E w \in waiting : waiting' = waiting \ {w}

-----------------------------------------------------------------------------
(* thread_timer *)

\* skynet_updatetime: a timer that went off, or nothing; or signal_hup
Update ==
    /\ tpc = "update"
    /\ tpc' = "abort"
    /\ AddWork \/ UNCHANGED work
    /\ UNCHANGED <<total, cond, wpc, spc, mpc, exitSent>>

CheckAbort ==
    /\ tpc = "abort"
    /\ tpc' = IF total = 0 THEN "exit" ELSE "wakeup"
    /\ UNCHANGED <<node, cond, wpc, spc, mpc, exitSent>>

\* Mutant: the timer thread, too, signals only when everybody sleeps.
TimerWakeupShy ==
    /\ tpc = "wakeup"
    /\ tpc' = IF sleep >= Count THEN "signal" ELSE "update"
    /\ UNCHANGED <<node, cond, wpc, spc, mpc, exitSent>>

TimerWakeup ==                   \* wakeup(m, m->count - 1): anybody sleeps
    /\ tpc = "wakeup"
    /\ tpc' = IF sleep >= 1 THEN "signal" ELSE "update"
    /\ UNCHANGED <<node, cond, wpc, spc, mpc, exitSent>>

TimerSignal ==
    /\ tpc = "signal"
    /\ tpc' = "update"
    /\ Signal
    /\ UNCHANGED <<node, sleep, quit, mutex, wpc, spc, mpc, exitSent>>

SocketExit ==                    \* skynet_socket_exit
    /\ tpc = "exit"
    /\ tpc' = "lock"
    /\ exitSent' = TRUE
    /\ UNCHANGED <<node, cond, wpc, spc, mpc>>

\* Mutant: quit is set and broadcast without the mutex.
TimerLockSkips ==
    /\ tpc = "lock"
    /\ tpc' = "quit"
    /\ UNCHANGED <<node, cond, wpc, spc, mpc, exitSent>>

TimerLock ==
    /\ tpc = "lock"
    /\ mutex = Nobody
    /\ mutex' = Timer
    /\ tpc' = "quit"
    /\ UNCHANGED <<node, sleep, quit, waiting, wpc, spc, mpc, exitSent>>

\* m->quit = 1; pthread_cond_broadcast; pthread_mutex_unlock
Quit ==
    /\ tpc = "quit"
    /\ tpc' = "end"
    /\ quit' = TRUE
    /\ waiting' = {}
    /\ mutex' = IF mutex = Timer THEN Nobody ELSE mutex
    /\ UNCHANGED <<node, sleep, wpc, spc, mpc, exitSent>>

-----------------------------------------------------------------------------
(* thread_socket and thread_monitor *)

\* skynet_socket_poll: a message for a service and no more to come (1), or
\* more to come (-1), which skips the wakeup
SocketEvent ==
    /\ spc = "poll"
    /\ spc' \in {"abort", "wakeup"}
    /\ AddWork
    /\ UNCHANGED <<total, cond, wpc, tpc, mpc, exitSent>>

SocketStop ==                    \* skynet_socket_poll returns 0
    /\ spc = "poll"
    /\ exitSent
    /\ spc' = "end"
    /\ UNCHANGED <<node, cond, wpc, tpc, mpc, exitSent>>

SocketAbort ==
    /\ spc = "abort"
    /\ spc' = IF total = 0 THEN "end" ELSE "poll"
    /\ UNCHANGED <<node, cond, wpc, tpc, mpc, exitSent>>

SocketWakeup ==                  \* wakeup(m, 0): everybody sleeps
    /\ spc = "wakeup"
    /\ spc' = IF sleep >= Count THEN "signal" ELSE "poll"
    /\ UNCHANGED <<node, cond, wpc, tpc, mpc, exitSent>>

SocketSignal ==
    /\ spc = "signal"
    /\ spc' = "poll"
    /\ Signal
    /\ UNCHANGED <<node, sleep, quit, mutex, wpc, tpc, mpc, exitSent>>

MonitorCheck ==                  \* CHECK_ABORT between the checks and the sleeps
    /\ mpc = "loop"
    /\ total = 0
    /\ mpc' = "end"
    /\ UNCHANGED <<node, cond, wpc, tpc, spc, exitSent>>

-----------------------------------------------------------------------------
WorkerStep(w) ==
    \/ LoopTest(w) \/ Dispatch(w) \/ Return(w) \/ Dropped(w) \/ NoQueue(w) \/ Lock(w)
    \/ TestQuit(w) \/ CondWait(w) \/ Wake(w) \/ Unlock(w)
TimerStep ==
    \/ Update \/ CheckAbort \/ TimerWakeup \/ TimerSignal
    \/ SocketExit \/ TimerLock \/ Quit
SocketStep == SocketStop \/ SocketAbort \/ SocketWakeup \/ SocketSignal

Ended == tpc = "end" /\ spc = "end" /\ mpc = "end" /\ \A w \in Worker : wpc[w] = "end"

Joined == Ended /\ UNCHANGED vars    \* pthread_join of every thread

Next ==
    \/ \E w \in Worker : WorkerStep(w) \/ Send(w) \/ Launch(w) \/ Loops(w) \/ Spurious(w)
    \/ TimerStep
    \/ SocketStep \/ SocketEvent
    \/ MonitorCheck
    \/ Joined

Spec == Init /\ [][Next]_vars

\* Every thread runs; the mutex is handed on to whoever keeps asking for it;
\* callbacks return, except those that loop.
FairSpec ==
    /\ Spec
    /\ \A w \in Worker : WF_vars(WorkerStep(w)) /\ SF_vars(Lock(w)) /\ SF_vars(Wake(w))
    /\ WF_vars(TimerStep) /\ SF_vars(TimerLock)
    /\ WF_vars(SocketStep)
    /\ WF_vars(MonitorCheck)

-----------------------------------------------------------------------------
(* Properties *)

\* A waiting queue is taken, although a send wakes nobody and the socket
\* thread signals only if everybody sleeps: even with a worker lost to an
\* endless loop, the timer thread does not let the others sleep.
WorkGetsDone ==
    work > 0 ~> total = 0 \/ \E w \in Worker : wpc[w] \in {"busy", "drop"}

\* When the last service is gone all threads end, so that start() can join
\* them.
ShutsDown == total = 0 ~> Ended
=============================================================================
