# A verification project for skynet_athena

The repository is a game server, *athena*, written in Lua on top of a copy of
the *skynet* actor framework, written in C.  This directory holds TLA+ modules
translated from the source, TLC configurations that check them on small
instances, and TLAPS proofs of theorems about them.  `PROJECT.json` lists the
components, runs, mutants, findings, hazards and theorems in machine-readable
form, and maps every modelling definition to the lines it stands for.

Everything is run from this directory:

    tlc -workers 2 -config Dispatch.cfg MCSkynetDispatch
    tlapm RWLockProofs.tla

## 1. The system

### 1.1 The engine (`src/skynet`)

A *service* is a context (`struct skynet_context`), found by a 24-bit *handle*,
with a *mailbox* (`struct message_queue`).  A handful of worker threads take
mailboxes from one *global queue* and run the service's callback once per
message.  A timer thread, a socket thread and a monitor thread only push
messages and wake workers.

| Part | State | Operations | What is hard |
|---|---|---|---|
| Reader/writer lock, `rwlock.h` | two words, `write` and `read` | rlock, runlock, wlock, wunlock | readers announce themselves first and check afterwards |
| Mailboxes, `skynet_mq.c` | ring buffer, `in_global`, `release`, overload threshold; the global list | push, pop, length, overload, mark_release, release | deciding from several threads who owns a mailbox, and who frees it |
| Contexts and dispatch, `skynet_server.c` | contexts with reference counts, `init`, count of services | new, reserve, release, push, send, dispatch, exit, kill, abort | use after release, launch failing or racing with a kill |
| Handle storage, `skynet_handle.c` | open hash table of contexts, sorted array of names | register, grab, retire, retireall, findname, namehandle | growth, wrap of the handles, a handle assigned outside the lock |
| Timer, `skynet_timer.c` | near wheel and four levels, 32-bit clock | timeout, update (execute, shift, execute) | cascade, wrap, lists dispatched without the lock |
| Threads, `skynet_start.c` | `sleep`, `quit`, mutex and condition variable | sleep and wakeup of workers, shutting down | lost wakeups, quit racing with a worker that goes to sleep |
| Socket server, `socket_server.c` | sockets, a command pipe, write lists | open, listen, send, close, poll | worker and socket thread share a socket |
| Monitor, `skynet_monitor.c` | a counter per worker | trigger, check | unsynchronised reads |
| Lua runtime, `lualib/skynet.lua` | sessions, coroutines, wakeups | call, ret, fork, sleep, dispatch | interleaving at every wait |
| Cluster, harbor | connections to other nodes | call, send | order and loss between nodes |

Worker threads call into handles, mailboxes and the timer; the timer calls back
into `skynet_context_push`; the socket thread does so too.  Locks are held for
one short critical section at a time and never across a callback.

### 1.2 The game (`src/login`, `src/game`, `src/common`, `src/lualib/snax`)

| Part | State | Operations | What is hard |
|---|---|---|---|
| Login master, `login_server.lua`, `logind.lua` | `user_login` lock, `user_online` | accept, login_handler, logout | a session is kicked in another process between two looks at it |
| Gate, `gated.lua`, `msg_server.lua` | `users`, `username_map`, `internal_id`, agent pool, connections | login, logout, kick, auth, disconnect, request | state read before a wait and used after it |
| Agent, `msgagent.lua` | `UID`, `SUB_ID`, `gate`, its command queue | login, auth, logout, client requests | reuse of an agent whose logout is not over |
| Data centre, `dcmgr.lua`, `common/entitybase` | tables of players in memory | load, unload, get, update | unload after the player has come back |
| `dbmgr`, `dbsync`, pools | write-behind to redis and mysql | query, sync | order of writes |
| `teammatch`, `battle`, other modules | rooms, queues, tables | game rules | rooms that wait while they are made |

A player authenticates with the login master, which kicks a session it knows of
at its gate, asks the gate for a new session, and answers with the session's
*subid*.  The gate takes an agent from the pool and tells it whom to serve.
The player then connects to the gate, whose handshake makes the agent load the
player's data.  A lost connection, a kick and the player's own `user_logout`
all make the agent log out: it tells the gate, the gate tells the master and
puts the agent back into the pool, and the agent unloads the data.

### 1.3 What makes each part correct

* lock: a writer is alone; a writer that waits gets in;
* mailbox: first in, first out, through wraps and growth; a backlog that has
  doubled is marked with its length, and only then;
* dispatch: one worker at a time runs a service; mail is never forgotten; no
  context or mailbox is used after it is freed, nor freed twice; a service
  handles nothing before its initialisation is over; the count of services is 0
  just when none is left but the reserved harbor service;
* handles: a live service is found by its handle and its names, a dead one is
  not; `retireall` reaches everybody;
* timer: each timer goes off at its tick, in the order of arming, also across
  the wrap of the clock;
* threads: pending work is taken; shutting down ends every thread;
* socket server: a peer receives whole packages in order, whoever writes them;
  each buffer is freed once; a graceful close loses nothing; what waits goes out;
* Lua runtime: an answer resumes the coroutine that waits for it; a request is
  answered once; nobody who was woken is left behind; a queue admits one chain of
  calls at a time and is passed on, also by a coroutine that fails;
* login: an agent serves one player; master and gate agree on the session; no
  login waits for ever; a crash of the game server locks nobody out.

The full list of hazards, each at its line, is in `PROJECT.json`.

## 2. Modules

| Module | Models | Proofs | Runs |
|---|---|---|---|
| `RWLock` | `rwlock.h` | `RWLockProofs` | `rwlock` |
| `MessageQueue` | the ring of `skynet_mq.c` | `MessageQueueProofs` | `mq_ring` |
| `ActorSystem` | abstract: what a service may rely on | refined in `SkynetDispatchProofs` | refined in `dispatch` |
| `SkynetDispatch` | `skynet_server.c` with the ownership protocol of `skynet_mq.c` and grab/retire of `skynet_handle.c` | `SkynetDispatchProofs` | `dispatch` |
| `HandleStorage` | `skynet_handle.c` | `HandleStorageProofs` | `handles`, `handles_overlap` |
| `TimerWheel` | `skynet_timer.c` | | `timer_wheel` |
| `WorkerThreads` | `skynet_start.c` | | `workers` |
| `SocketServer` | `socket_server.c`, TCP | `SocketServerProofs`, `SocketBufferProofs` | `socket_server` |
| `LuaSession` | `skynet.lua`, `skynet/queue.lua` | `LuaSessionProofs` | `lua_session` |
| `LoginSession` | `logind.lua`, `login_server.lua`, `gated.lua`, `msg_server.lua`, `msgagent.lua`, load/unload of `dcmgr.lua` | `LoginSessionProofs` | `login`, `login_subid`, `login_data` |

Each `MC` module only adds constants for TLC.  A definition commented *Mutant*
is a plausible bug in the operation defined next to it; it is used in no
specification.  `PROJECT.json` says which property each mutant breaks, which is
how we know that the property depends on the code.

**RWLock.**  `write` and `read` are the two words, `pc[t]` a thread's place.  One
action per access: the spin on `write`, the increment, the check, the step
back; the test-and-set, the wait for the readers.  Barriers are full
(`__sync_*`), so the interleaving of these accesses is what the hardware may do.

**MessageQueue.**  `cap`, `head`, `tail`, `buf`, `overload`, `threshold` are the
fields of the struct.  `fifo` and `longest` are history variables: what has been pushed
and not popped, and the longest backlog that a pop has left since the queue was last
found empty, against which `WarnsPerDoubling` measures the marks.  Each operation is one critical section of the mailbox's spinlock.

**SkynetDispatch.**  A handle stands for its context and its mailbox.  Contexts:
`ctx` (unborn, live, freed), `ref`, `slot` (the table still has it), `init`,
the count `total`, and `remote`, the harbor service whose context is reserved.
Mailboxes: `queue` (unborn, live, freed), `mq` (a sequence, which `MessageQueue` justifies), `inGlobal`, `release`, and the global queue
`gq`.  A thread has a small call stack: its place in
`skynet_context_message_dispatch` (`pc`, `q`, `nq`, `cur`, `left`), a launch made
by the callback it runs (`launch`, `new`), a handle to be retired (`kill`), and a
push or release in progress (`op`, `to`, `msg`).  One action is one critical
section or one atomic operation.  Callbacks are free: they send, launch, exit,
kill and abort, in any order, and a launch may succeed or fail.
A launched service may be the node's harbor service, whose init calls
`skynet_harbor_start`: `Reserve` takes a reference and `ReserveDec` takes the
context out of the count, in the middle of its launch.  After the launcher has
given up its reference it still uses the context three times: `SetInit`, then
`LogLaunch` (behind `PushNew`), and `ReturnLaunch`, which is `cmd_launch` reading
the handle.  A dropped message is answered with an error message to its source, as `drop_message`
does, which is a push like any other.

**ActorSystem.**  A service has a mailbox, handles at most one message at a
time, in order of acceptance, and stops accepting when it is closed; what is left
is bounced once it is gone.  `SkynetDispatch!Actors` is the refinement mapping.

**HandleStorage.**  The table is `slot_size`, `slot`, `handle_index`; `handle[c]`
is the field in the context, which a launch assigns (`Assign`) after
`skynet_handle_register` has returned.  Registration is split into the scan
(`Place`) and the growth (`Grow`) so that this assignment can fall between
them.  Nothing keeps launches apart.  `caught` is a history variable: the contexts
that a growth rehashed before their handle was assigned; what happens to those is
the finding of `handles_overlap`, and the properties are about all others.  `failed` records the
two ways the code can die: the assertion at `skynet_handle.c:64` and the null
context at `:63`.  `retireall` (`Sweep...`) takes its lock once per slot.

**TimerWheel.**  The shifts are constants, so that a five-bit clock has the same
five wheels as the 32-bit one.  `armed` and `rem` are history variables: the
timers in order of arming and the ticks left to each.  `Dispatch` is the gap in
which the lock is given up.

**WorkerThreads.**  Worker, timer, socket and monitor threads of `start()`, one
action per access to the shared struct, with the mutex and the condition
variable (spurious wakeups included).  What a worker does in a turn is reduced to
its effect on the amount of work and the number of services.

**SocketServer.**  `s` is `ss->slot`; a record holds a slot's type, id, protocol,
tag and count of `sending`, the lists `high` and `low`, `dw` (`dw_buffer`), the
holder of `dw_lock` and what epoll is asked for.  `pipe` is the control pipe, `ev`
the events of one `sp_wait`, `st` the place of the socket thread, `at[v]` that of a
service in a call.  A call is split where it reads or writes shared fields without
a lock: the slot taken by compare-and-swap and filled in later, the two halves of
`can_direct_write`, the count that is raised before the request is in the pipe,
`force_close` before, in and after `dw_lock`.  A package is two units, so that
`write()` can take a part of it.  The other side of a connection (`peer`, `room`,
`inb`, `wire`) is external: it reads, sends, closes and breaks off when it likes.
An assertion that fails ends the process (`Alive`).

The services use sockets in the way the repository does, which the model states as
`MaySend` and `MayClose`: an id is sent to only after the socket thread has reported
on it, and closed once, when it is known.  `socket_server_send` and
`socket_server_close` themselves do not check this.  `socket.lua` does: `connect`
(`:165-191`) keeps the id to itself until the report has come, and `socket.close`
(`:226-249`) closes what is in its pool, once; `gateserver.lua`, `msg_server.lua`,
`util.lua`, `service_gate.c` and `service_harbor.c` have their ids from
reports.  A caller without that discipline would meet three things that the model
leaves out.  A package for an id whose connect request is still in the pipe is not
counted (`socket_server.c:1170`), and fails the assertion when it is taken out
(`:1195`).  A direct write after `report_connect` has set `CONNECTED` (`:1379`) and
before it turns the write event off (`:1384`) can leave its rest in `dw_buffer`
with the event off.  And data may be queued while the socket is `CONNECTING`
(`:950-956`).  With the discipline nobody works on an id before its report, so
`ReportConnect` is one step.

`told`, `sent`, `dropped`, `cut`, `ended` and `closer` are history variables.

**LuaSession.**  One service.  `pc` says what it is doing: idle, running a
coroutine, in `dispatch_wakeup` or `dispatch_error_queue`, or in the loop over
`fork_queue`; `frames` counts the calls of `suspend` nested in `dispatch_wakeup`.
The tables and queues have the names they have in `skynet.lua`; `th[c]` is what
is on the stack of a coroutine, and in `session_coroutine_id`.  What the service's
code does between two yields is free: it calls, sleeps, waits, forks, enters and
leaves a queue, answers, hands its answer to somebody else, fails and exits.
Tokens are the coroutines themselves.  The model keeps the discipline of the
repository's libraries that a token is woken only while its owner sleeps (for
instance `socket.lua:25`); what happens otherwise is described in section 3.

**LoginSession.**  A Lua service runs one coroutine at a time and switches only
where one waits for an answer, so an action is the code between two waits.
Master, gate and agents appear with their tables; `lpc` and `gpc` are the places
of the coroutines that log a player in, `job[t]` those of the commands to
agents, `cs[a]` is an agent's command queue, `chan` the ordered connection from
the gate to the master.  Replies travel on another connection and are not
ordered with it.  `Crash` is the game server going down and coming back.  `inst`
is the configuration of a behaviour: the players, the pool, `max_agent`, and
whether clients send `user_logout`.  Some properties are stated for behaviours
that are `InOrder`, with one player at a time and no `user_logout`; section 3 says
what happens in the others.

## 3. Runs

All passing runs together fire every action.  States and times are for two TLC
workers on a small machine.

| Run | Checks | Size |
|---|---|---|
| `rwlock` | `Exclusion`, `WriterGetsIn` with three threads | 597 states, 2 s |
| `mq_ring` | `RingHoldsFifo`, `PopsOldest`, `WarnsPerDoubling`; capacity 2, 4, 8 | 119k, 2 s |
| `dispatch` | two services, one launched at run time, two workers, one posting thread, an exit monitor: `TypeOK`, `NoStrandedMail`, `OneOwner`, `NoUseAfterFree`, `ReleaseOnce`, `InitBeforeDispatch`, `QuitOnlyWhenEmpty`, refinement of `ActorSystem`, and under fairness `MailDelivered`, `ServicesReclaimed`; the launched service may be the reserved one | 71k, 25 s |
| `handles` | `Findable`, `NamesLead`, `SweepMissesNobody`, `RehashSound`; overlapping launches, table of 2 and 4, handles that wrap at 3 | 1.6M, 55 s |
| `timer_wheel` | `NobodyLate`, `FiresWhenDue`, `GoesOff` | 237k, 35 s |
| `workers` | no deadlock; under fairness `WorkGetsDone`, `ShutsDown` | 25k, 18 s |
| `socket_server` | `WireIntact`, `BufferOwned`, `SendingCounted`, `CloseFlushes`, `EndIsFinal`, and under fairness `Flushed` | 253k, 120 s |
| `lua_session` | `AnswersFindCallers`, `NobodyLeft`, `QueueHandsOver`, `QueueMovesOn`, `AnsweredOnce` | 3.5M, 90 s |
| `login` | `AgentExclusive`, `SessionKnown`, `NeverAlreadyLogin`, `AgentServes`, and under fairness `LoginEnds`; two players on one agent, with and without `user_logout`; one player and up to three crashes | 280k, 115 s |

Three runs are expected to find a violation; each is a disagreement between the
code and a comment or an assertion of the repository (quoted in `PROJECT.json`):

| Run | Property | What happens |
|---|---|---|
| `handles_overlap` | `RehashAssertion` | a context whose handle is not assigned yet is rehashed as handle 0, and the assertion fails |
| `login_subid` | `UniqueSubid` | `internal_id` is read again after a wait: two players get one subid |
| `login_data` | `DataLoaded` | the old agent unloads the data of a player who is back on another agent |

`handles_overlap` and `handles` are two sides of one thing.  The first shows that the
assertion of the rehash can fail; `RehashSound` in the second says that it fails only
over a context in `caught`, and `Findable` and `SweepMissesNobody` that nobody else
is lost.

More weak places show in the models and have no run of their own, because no
line of the repository denies them or because they are narrower than a run:

* `skynet_context_new` releases its reference (`skynet_server.c:164`) and then writes
  `ctx->init` (`:166`) and logs with the context (`:170`), and `cmd_launch` reads its
  handle (`:494`).  In `SkynetDispatch` each of these can follow a `FreeCtx` of the
  same context by another thread: a kill or an abort in between.  `NoUseAfterFree`
  says what does protect them: the context is there as long as its slot in the
  handle table is, that is, until somebody retires the new handle.  For every other
  use of a context or a mailbox it holds without condition.
* At the wrap of the handles the scan tries one slot twice and the slot of the
  reserved 0 not at all, so the table can be grown, and the null context
  dereferenced (`skynet_handle.c:63`), with that slot empty.  `RehashSound`
  says that this is the only way.
* With `user_logout` in use, `AgentServes` fails even for one player:
  `user_logout` runs beside the agent's command queue, the gate offers the agent
  for reuse (`gated.lua:95`), and the old logout then clears the session of the
  next login (`msgagent.lua:100`).  Hence `InOrder`.
* A socket can be half closed only because a request of another service is
  counted and not in the pipe yet (`socket_server.c:1026`).  When the request
  arrives it is dropped (`:914`), nothing turns the write event on, and the socket
  stays half closed until its peer closes.  `Flushed` says that a socket half closed
  with something in its buffers does end.
* `reserve_id` takes a slot and writes the new id two stores later: a request or
  an event for the former id that falls in between ends in an assertion
  (`AbortNewFd`, `StaleEvent`, `CloseSocket`).
* Packages for a descriptor given to `socket_server_bind` are appended to its lists
  without a write event (`send_socket` asks for one only on a connected socket), so
  that they stay there until it is closed.  `Flushed` is about connections.
* After `skynet.exit` the worker goes on with the messages it has already taken.
  Coroutines that these resume, or that a nested `suspend` resumes, can fork
  and answer again, although the comment at `skynet.lua:322` says that no forked
  coroutine can run.  `AnsweredOnce` is about the time before the exit.  A token that
  `skynet.exit` leaves behind can likewise wake a coroutine that waits for a queue,
  so `QueueHandsOver` is about the time before the exit too.
* A coroutine woken twice, or with a token that is stale, delays others in
  `wakeup_queue` until the next message; a coroutine that waits for a queue and
  is woken by anybody but the queue fails the assertion of `queue.lua` and stays its
  holder.  The libraries of the repository do neither.

### 3.1 Bounds, and why they are enough

* `dispatch`: a mailbox can be idle, held, in the global queue or freed, and two
  workers, a posting thread and two services reach every pair of these for a
  sender, an owner and a retirement.  The two weights in use, -1 and 0, are the
  one-message turn and the whole-mailbox turn.  `MaxSend` bounds the messages of
  callbacks, posting threads and exit reports; error answers come on top.  With two
  of them no turn of a worker takes a second message (`left` stays 0), and with three
  the liveness check does not end in useful time; the safety properties are proved
  without the bound.  A node has at most one harbor service, and
  `harbor_init` fails, if it does, before it reserves its context.  Log messages are
  left out.
  Handles are given out once.  With both services there from the start and three
  messages, `NoStrandedMail` and the refinement hold too (405k states, without
  the fairness); the liveness check is too slow there.
* `mq_ring`: five waiting messages pass two growths and three doublings.
* `handles`, `handles_overlap`: names are numbers in the order of `strcmp`.  `MaxIndex` ends
  registration early where a run should not wrap; in `handles` it does not, and
  handles are used again after the wrap.  Four contexts fill the table of two slots,
  make it grow with a launch between registration and assignment, and fill the
  larger one up to the mask.
* `timer_wheel`: `NearShift` = `LevelShift` = 1 is the smallest clock in which
  each level is used and the wrap is reached; delays below half the range are
  what an `int` allows of a 32-bit clock.  There is no bound on time itself.
* `workers`: with two workers one can be stuck while the other goes to sleep,
  and one can be woken while the other goes to sleep.  There is no deadlock with
  three workers either (196k states); the liveness check is too slow there.
* `socket_server`: `Limits` are five small worlds, each for one kind of race:
  `Traffic` (two services write, one closes, the peer goes away), `Mixed` (both
  priorities, close and shutdown), `Reuse` (one slot, two ids), `Server` (listen and
  accept), `Bound`.  Two packages of two units are enough for a part of a package
  to be written with another one behind it, in the lists or in the pipe.
* `lua_session`: three coroutines, so that one can run while one waits and one
  is woken; two or three requests, two or three session ids, one peer.  `Limits`
  splits what coroutines do into sleeping, exiting and queueing, the last with exits.
* `login`: `sub` bounds `internal_id`, `crash` the crashes; one command of each kind
  and one connection per player at a time; failures of the cluster connection only
  as `Crash`.

The bounds on what is sent, asked for and given out end every behaviour, and a
node whose services have all gone stops, so that only `rwlock`, `mq_ring`,
`timer_wheel` and `workers` check deadlock.

### 3.2 Fairness

* `RWLock`: every thread inside the lock's code runs on; nobody has to enter it.
* `SkynetDispatch`: weak fairness of each thread, which the operating system
  gives.  That a callback returns is part of it: a service in an endless loop
  keeps its mail, by design.
* `TimerWheel`: the timer thread runs on; the clock goes on.
* `WorkerThreads`: weak fairness of each thread; strong fairness of getting the
  mutex, which POSIX does not promise in letter but every implementation gives
  to threads that ask for it among a few.  Callbacks in `Stuck` may never return.
* `SocketServer`: services inside a call and the socket thread run on while the
  process is alive; a connection attempt comes to an end; a peer that is there reads.
  Peers need not send or close, services need not call.
* `LuaSession`: none; its properties are safety properties.
* `LoginSession`: services answer; what players do, and crashes, are not fair.

## 4. Theorems

Proved by TLAPS for every value of the constants that meets the `ASSUME`s of the
modules: threads, services and agents are finitely many, sizes are positive,
names are distinct.  Each theorem `Spec => []Inv` rests on an inductive invariant
(`IInv` of the proof module), a conjunction of named parts; TLC has checked each
of them on the instances of section 3 as well.

**`RWLockProofs`**: `LockExclusion`.  `read` is the number of threads that have
announced themselves, a reader inside is one of them, and `write` is set just when
one writer is past its test-and-set.  Exclusion alone is not inductive: a writer
enters on `read = 0`, and only the count tells that nobody reads.

**`MessageQueueProofs`**: `RingIsFifo`, `PopIsOldest`.  One slot is free between
operations, so that `head = tail` means empty; growth at any position of the wrap
is the lemma `PushRing`.

**`SkynetDispatchProofs`**: `TypeCorrect`, `SingleOwner`, `MailNotStranded`,
`NothingFreedIsUsed`, `ReleasedOnce`, `InitialisedFirst`, `QuitWhenEmpty`,
`CoreImplementsActors`.  The parts of the invariant are `TypeOK`, `Shape` (how the
layers of a thread's stack fit together, on which the types depend),
`RefCount` (a reference count is the number of those who hold one: threads by their
place, the table, a launch), `RefsLive`, `QueueLife`, `Launching`, `Reserving` (who
is inside `skynet_context_reserve` is the reserved service), `Known`,
`Deleting` (who dropped the last reference deletes the context, alone), `Ownership`
(a mailbox is in the global queue or in one hand just while `in_global` or `release`
is set, and empty otherwise), `Initialised` and `Counted` (the count
of services: all that are `Present`, the reserved one not among them once its
reservation is over).  The reserved service has one reference more, that of `remote`,
and is never deleted; its mailbox is never freed.
The properties are not inductive one by one: that nobody
uses a freed mailbox needs that only its owner frees it, hence `Ownership`; that
nobody is about to push into it needs that no reference to its context is left,
hence the counts.  The refinement is a step simulation: `AbstractStep` maps every
step to one of `ActorSystem` or to a stutter, and `SingleOwner` gives that a service
handles one message at a time.

**`HandleStorageProofs`**: `HandlesFound`, `RehashFailsOnlyCaught`, `SweepMeetsAll`, for
launches that overlap in any way; what they except are the contexts in `caught`, and
`handles_overlap` shows that the exception is needed.
`Placed`: whoever is in the table, and not caught, is in the slot that its handle hashes to, or the
handle that `register` has returned and the launch not assigned yet.
`Registering`: between these two points the context's own field is still 0, and the
context that holds the lock is not in the table.  `Sweeping`: who is
still to be met by a pass is in a slot that it has not passed; growth moves a context
to the same slot or further up, never behind the pass.

**`SocketServerProofs`**: `SendingExact`, `EndedForGood`, for services that keep to
`MaySend`, without which the first does not hold (section 2).  `SendingCounted` is an
inequality, and not inductive: the count is raised before the request is in the
pipe, and a slot passes from one id to the next.  `Counted` makes it exact: the count
is the number of requests in the pipe and of services that have counted and not
pushed.  That a new id starts at 0 needs that nobody has a package for it yet:
`Ids` (ids come from `alloc_id`), `Opens` (the request that makes a socket is the
first for its id, finds the slot as it was reserved, and nobody has been told of the
id), `Fills` (a slot taken and not filled in is one service's), `Told`.  That an
ended connection is not written to needs `Slots` (an open socket is in the slot of
its id and has not ended), `Locks` (a direct write after its second look holds the
lock of the socket it was meant for) and `AtWork` (so does the socket thread).
The proof sorts the steps by what they do to a slot and to the pipe (the
operators before the lemmas `...Keeps`), and has one lemma for each sort.

**`SocketBufferProofs`**: `BuffersOwned`, `ClosesFlush`, `StreamsIntact`.  On top of the invariant above, `Owned`:
`OneHolder` (a unit, half of a package, has one holder: a service at work on the
package, the pipe, a slot, a connection or the free store), `Single` (it is there
once: no list repeats a unit, and the packages of a service are in the pipe in the
order in which they were sent), `DwEmpty` (nothing of an earlier direct write is left
in a slot that is free or is about to be written to directly) and `Latest` (a service
is at work on its last package).  `BufferOwned` alone is not inductive: that a direct
write adds no second copy needs the last two.
`EveryMove` sorts the steps of the system into those that touch no unit and the few
that move units (a send, a direct write, a request taken from the pipe, a flush, an
end), each of which gets a lemma `...Holders`.
For `ClosesFlush`, `Home` says of each place that the units there are for the
connection they are about to go to; `Closers` that a request to close comes after
all that its sender sent before (`Follows`), is in the pipe once and is gone from it
when the socket drains; `OpenFor` that a connection that services were told is open is
open or has ended.  `NothingLost` then covers what is `Promised`, the packages
for an open connection, of its closer and before the close if it was closed: they are
freed only by a cut (`NotLost`), and are on the wire when the connection is drained.
`WhereIs` is the heart of it: a promised unit of a draining socket cannot be with a
service nor in the pipe, so it waits in the socket or has been written.
For `StreamsIntact`, `Orderly` says how the stream of an open connection goes on after
what has been written, as `WireIntact` alone is not inductive: `Pieces` (what has
been written, with what waits in `dw_buffer` and the high list behind it, is whole
packages, and so is the low list), `Ordered` (written and waiting units are in order),
`Later` (the packages in the pipe come after them), `Writer` and `Lone` (a service
that is about to write directly finds a whole package at the end of the stream and has
nothing of its own waiting or in the pipe), `CutOff` (only a socket that is being
closed is cut) and `Intact`, which is the property.  Three steps carry the argument:
`WholeFlush`, that `send_buffer`, when it raises the head of the low list to the high
one, raises what completes the package it has begun; `WrittenPieces`, that a direct
write that stops half way leaves the rest in front of everything else; and
`NoneComing`, that where `sending` is zero the invariant `Counted` leaves nothing
of any service in the pipe, so that a direct write overtakes nothing.

**`LuaSessionProofs`**: `CallersFound`, `EverybodyRan`, `QueueHandedOver`,
`QueueNotStuck`, `RequestsAnsweredOnce`.  `Stage` says that what each coroutine
does agrees with `pc`, the tables and `fork_queue`; `Sessions` and `Watched` who
waits for a session and what may still come for it; `Tokens` that who is in
`wakeup_queue` sleeps, once; `Drained` which queues are empty where; `Handed` that
the queue is with one coroutine, who is inside or on its way; `Arrived` that those who wait,
and before them the one on its way, have drawn their sessions in that order, which is
the order of arrival; `Ledger` that each
request is owed by one coroutine or response function, is answered, or needs no
answer any more (its coroutine ended without one, or its sender died).  Several of
these hold until `skynet.exit`, as the properties do.

**`LoginSessionProofs`**: `AgentInOnePlace`, `MasterKnowsSession`, `LoginFindsNobody`,
`AgentServesPlayer`.  `InHand` says which agent a coroutine
of the gate has in its hands where it uses it, after a wait as before; `OnePlace` that
the pool, the sessions and those hands never share an agent.
The other three, like the properties they state, hold for behaviours that are
`InOrder`: one player, who does not send `user_logout`.
Master, gate and agent each keep their own record of his session and tell each other
by calls, so that no record agrees with the next one at every moment and none of the
properties is inductive.  `SInv(p)` says how they differ while something is under
way: `Alone` (nothing goes on for anybody else), `Queued` (a command is in the queue
of its agent once, and has started only at its head), `Calls` (who waits for whose
answer), `LoginCall` (a login at the gate is the last command of its agent), `Serves`
(whom an agent serves, given what it has still to do), `Knows` (what the master has on
record, given what is under way) and `Channel` (what the gate has told the master and
the master has not heard).

Only model-checked, and why:

* liveness under fairness, for which the prover has no rules: `WriterGetsIn`,
  `MailDelivered`, `ServicesReclaimed`, `GoesOff`, `WorkGetsDone`, `ShutsDown`,
  `Flushed`, `LoginEnds`, and with them all of `WorkerThreads`;
* `NamesLead` and `WarnsPerDoubling`: what a loop computes (a binary search, repeated
  doubling) needs induction over data;
* `NobodyLate`, `FiresWhenDue`: the arithmetic of the wheels, shifts and masks of
  unknown width.

## 5. What is not modelled

* Data: contents and types of messages, sessions, logging, profiling, text
  commands that only read, formatting.
* `skynet_send` to another harbor, the harbor services, the C gate service, the
  module loader, environment, daemon, allocator; `skynet_harbor_exit`, which releases
  the reserved context after all threads have ended.
* The array of names is a sequence, and that it doubles when it is full
  (`skynet_handle.c:187-199`) is part of an insertion into it.
* The wall clock: how many updates the timer thread owes is left open.
* Handles given out again while a worker still holds the old mailbox, which
  takes 2^24 launches in one turn.
* Of the socket server: UDP, user objects, warnings about `wb_size`, socket
  options, statistics, running out of descriptors (and with it the report of
  `EMFILE` by `report_accept`, `socket_server.c:1421-1426`), `socket_server_release`, and
  callers that send before the report (section 2).
* Of the Lua runtime: tracing, sends without a session, `skynet.timeout` (a
  coroutine that the timer starts), protocols without a handler, init functions, the
  wrap of the session ids.
* The monitor: a worker's counters are read without synchronisation, and a wrong
  report only sets a flag that the debug console shows.
* The fds of the gate, authentication and encryption, the request cache of
  `msg_server.lua`, the idle timer of the agent (its `afk` call is commented out).
* In `LoginSession`: a failure of `skynet.newservice`; the waits of `CMD.auth` among its
  three calls (`msgagent.lua:185-197`), which are one step: the agent's command
  queue lets no other command in between, but `user_logout` could come there; the lookup of a player who has a
  name at his logout (`msgagent.lua:75-77`), one more wait before the agent calls the gate.
* Game rules, entity tables, database synchronisation; vendored code in `3rd`,
  `pbc`, `cjson`.

## 6. Plan

Done, in this order: `RWLock`, `SkynetDispatch` with `ActorSystem`,
`MessageQueue`, `HandleStorage`, `TimerWheel`, `WorkerThreads`, `LoginSession`,
`SocketServer`, `LuaSession`.

Next modules:

1. `EntityCache`: load, unload, update and write-behind of `entitybase`,
   `dbmgr` and `dbsync` (no lost update, nothing left after the player has gone).
2. `GateServer`: fds of `gateserver.lua` and `msg_server.lua`, with reuse of an fd.
3. `TeamMatch`: rooms of `teammatch.lua`.

Next proof: `NobodyLate`, on the arithmetic of the wheels.
