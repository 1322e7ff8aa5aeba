---------------------------- MODULE SocketServer ----------------------------
(***************************************************************************)
(* The socket server (socket_server.c): services on worker threads that    *)
(* send, open and close sockets, and the socket thread that takes their    *)
(* requests from a pipe and the events from epoll.  A service that finds   *)
(* nothing in front of it writes to the socket itself, under dw_lock; what *)
(* the kernel does not take is left in dw_buffer for the socket thread.    *)
(*                                                                         *)
(* Services use a socket the way the library for them does (socket.lua),   *)
(* see MaySend and MayClose: socket_server_send and _close do not ask for  *)
(* it, and without it the assertion of dec_sending_ref can fail and a      *)
(* write event can be lost.                                                *)
(*                                                                         *)
(* A package is two units, so that a write can take a part of it.  A list  *)
(* of write buffers is the sequence of its unwritten units.  TCP only: the *)
(* stream of a connection is wire[id].                                     *)
(***************************************************************************)
EXTENDS Integers, Sequences, FiniteSets, FiniteSetsExt, SequencesExt

CONSTANTS
    Service,                     \* each runs on one worker thread at a time
    Nobody, Thread,              \* holders of dw_lock: none, the socket thread
    Limits                       \* sizes of the instances, see LimitsAssumption

ASSUME HolderAssumption == Nobody # Thread /\ {Nobody, Thread} \cap Service = {}
ASSUME ServiceAssumption == IsFiniteSet(Service)
\* socket: MAX_SOCKET, the slots.  Bounds: id on alloc_id, send on the packages
\* of each service, in on what waits in a connection, room on what the kernel
\* takes at first (2 at most later); open, prio: the requests that make sockets
\* (O, L, B) and the priorities in use; opener, closer: the services that make
\* and close sockets; shut: close, shut down or both; fault: do peers go away?
ASSUME LimitsAssumption ==
    \A l \in Limits :
        /\ l.socket \in Nat \ {0} /\ l.id \in Nat /\ l.in \in Nat /\ l.room \in 0..2
        /\ l.send \in [Service -> Nat]
        /\ l.fault \in BOOLEAN /\ l.shut \subseteq BOOLEAN
        /\ l.opener \subseteq Service /\ l.closer \subseteq Service
        /\ l.open \subseteq {"O", "L", "B"} /\ l.prio \subseteq {"high", "low"}

VARIABLES
    lim,                         \* the sizes of this instance
    s,                           \* ss->slot
    alloc_id,
    pipe,                        \* requests in the control pipe
    ev, checkctrl,               \* events not yet handled, ss->checkctrl
    st,                          \* where the socket thread is
    at,                          \* where a service is in a call
    peer, room, inb, wire,       \* a connection: the other side, room in the kernel's
                                 \* buffer, what has come in, what has been written
    told,                        \* the last report about an id
    sent,                        \* history: the packages of a service, in order
    dropped,                     \* history: units that were freed unsent
    cut, ended, closer           \* history: Len(wire) when force_close began, how a
                                 \* connection ended, who closed it and after how many packages

serverVars == <<lim, s, alloc_id, pipe, ev, checkctrl, st>>
netVars == <<peer, room, inb, wire>>
history == <<sent, dropped, cut, ended, closer>>
vars == <<serverVars, at, netVars, told, history>>

Slot == 0..lim.socket - 1
Id == 1..lim.id
AnyId == UNION {1..l.id : l \in Limits}
Hash(id) == id % lim.socket
Units(p) == <<<<p, 1>>, <<p, 2>>>>
Idle == [pc |-> "idle"]
Loop == [pc |-> "loop"]

Init ==
    /\ lim \in Limits
    /\ s = [i \in Slot |-> [type |-> "INVALID", id |-> 0, protocol |-> "UNKNOWN",
                            tag |-> 0, sending |-> 0, high |-> <<>>, low |-> <<>>,
                            dw |-> <<>>, lock |-> Nobody, in |-> FALSE, out |-> FALSE]]
    /\ alloc_id = 0
    /\ pipe = <<>>
    /\ ev = <<>> /\ checkctrl = TRUE
    /\ st = Loop
    /\ at = [v \in Service |-> Idle]
    /\ peer = [id \in Id |-> "none"]
    /\ room = [id \in Id |-> lim.room]
    /\ inb = [id \in Id |-> 0]
    /\ wire = [id \in Id |-> <<>>]
    /\ told = [id \in Id |-> "none"]
    /\ sent = [v \in Service |-> <<>>]
    /\ dropped = {}
    /\ cut = [id \in Id |-> 0]
    /\ ended = [id \in Id |-> "no"]
    /\ closer = [id \in Id |-> <<>>]

-----------------------------------------------------------------------------
(* Tests *)

ListsEmpty(x) == x.high = <<>> /\ x.low = <<>>               \* send_buffer_empty
NoMoreData(x) == ListsEmpty(x) /\ x.dw = <<>> /\ x.sending = 0  \* nomore_sending_data
Gone(id) == s[Hash(id)].type = "INVALID" \/ s[Hash(id)].id # id
\* can_direct_write reads the lists first, the count of requests and the type
\* later; the thread that appends to the lists does not take the lock.
NothingAhead(id) == LET x == s[Hash(id)] IN x.id = id /\ ListsEmpty(x) /\ x.dw = <<>>
NothingComing(id) == LET x == s[Hash(id)] IN x.sending = 0 /\ x.type = "CONNECTED"

\* What write() takes of q: nothing of a connection that is not up.
Takes(id, q) == IF peer[id] \in {"up", "fin"} THEN Min({room[id], Len(q)}) ELSE 0
Write(id, q, n) ==
    /\ wire' = [wire EXCEPT ![id] = @ \o SubSeq(q, 1, n)]
    /\ room' = [room EXCEPT ![id] = @ - n]
    /\ UNCHANGED <<peer, inb>>

\* The next id whose slot is free (reserve_id); a round without one leaves the
\* counter at the same slot.
FreeTurns == {n \in 1..lim.socket : s[Hash(alloc_id + n)].type = "INVALID"}
NextId == alloc_id + Min(FreeTurns)
CanReserve == FreeTurns # {} /\ NextId \in Id

-----------------------------------------------------------------------------
(* Services *)

\* reserve_id takes the slot with a compare-and-swap and fills it in after.
Reserve(v, c) ==
    /\ at[v] = Idle /\ v \in lim.opener /\ CanReserve
    /\ alloc_id' = NextId
    /\ s' = [s EXCEPT ![Hash(NextId)].type = "RESERVE"]
    /\ at' = [at EXCEPT ![v] = [pc |-> "fill", c |-> c, id |-> NextId]]
    /\ UNCHANGED <<lim, pipe, ev, checkctrl, st, netVars, told, history>>

\* socket_server_connect, _listen, _bind.  Only listen's id is of use before
\* the socket thread has answered.
OpenRequest(v) ==
    LET r == at[v] IN
    /\ r.pc = "fill"
    /\ s' = [s EXCEPT ![Hash(r.id)].id = r.id, ![Hash(r.id)].protocol = "UNKNOWN"]
    /\ pipe' = Append(pipe, [c |-> r.c, id |-> r.id])
    /\ told' = [told EXCEPT ![r.id] = IF r.c = "L" THEN "listen" ELSE @]
    /\ at' = [at EXCEPT ![v] = Idle]
    /\ UNCHANGED <<lim, alloc_id, ev, checkctrl, st, netVars, history>>

\* socket_server_start, for an id that listens or was accepted
Start(v, id) ==
    /\ at[v] = Idle /\ v \in lim.opener /\ told[id] \in {"listen", "accept"}
    /\ ~\E k \in DOMAIN pipe : pipe[k] = [c |-> "S", id |-> id]
    /\ pipe' = Append(pipe, [c |-> "S", id |-> id])
    /\ UNCHANGED <<lim, s, alloc_id, ev, checkctrl, st, at, netVars, told, history>>

\* The discipline of the callers.  connect of socket.lua keeps the id to itself
\* until the socket thread has reported on it, gates learn ids from reports, and
\* a listening socket is not sent to; an id is closed once, and not before it is
\* known.
MaySend(id) == told[id] \in {"open", "accept", "end"}
MayClose(id) == told[id] # "none" /\ closer[id] = <<>>

\* socket_server_close and _shutdown
Close(v, id, shut) ==
    /\ at[v] = Idle /\ v \in lim.closer /\ MayClose(id)
    /\ pipe' = Append(pipe, [c |-> "K", id |-> id, shutdown |-> shut])
    /\ closer' = [closer EXCEPT ![id] = <<v, Len(sent[v])>>]
    /\ UNCHANGED <<lim, s, alloc_id, ev, checkctrl, st, at, netVars, told, sent, dropped, cut, ended>>

\* socket_server_send (high) and socket_server_send_lowpriority, up to the first
\* half of can_direct_write
Send(v, id, prio) ==
    LET p == <<v, Len(sent[v]) + 1>> IN
    /\ at[v] = Idle /\ MaySend(id) /\ Len(sent[v]) < lim.send[v]
    /\ sent' = [sent EXCEPT ![v] = Append(@, [id |-> id, prio |-> prio, open |-> told[id] = "open"])]
    /\ IF Gone(id)
         THEN dropped' = dropped \cup ToSet(Units(p)) /\ UNCHANGED at
         ELSE /\ at' = [at EXCEPT ![v] = [pc |-> IF prio = "high" /\ NothingAhead(id)
                                                 THEN "look" ELSE "ref",
                                          id |-> id, p |-> p]]
              /\ UNCHANGED dropped
    /\ UNCHANGED <<serverVars, netVars, told, cut, ended, closer>>

Go(v, pc) == at' = [at EXCEPT ![v].pc = pc]
Unlocked(i) == s' = [s EXCEPT ![i].lock = Nobody]

TryLock(v) ==                    \* can_direct_write, second half, and socket_trylock
    LET i == Hash(at[v].id) IN
    /\ at[v].pc = "look"
    /\ IF NothingComing(at[v].id) /\ s[i].lock = Nobody
         THEN s' = [s EXCEPT ![i].lock = v] /\ Go(v, "check")
         ELSE UNCHANGED s /\ Go(v, "ref")
    /\ UNCHANGED <<lim, alloc_id, pipe, ev, checkctrl, st, netVars, told, history>>

\* Mutant: no second look at what is ahead.
CheckBlind(v) ==
    /\ at[v].pc = "check"
    /\ UNCHANGED s /\ Go(v, "check2")
    /\ UNCHANGED <<lim, alloc_id, pipe, ev, checkctrl, st, netVars, told, history>>

Check(v) ==                      \* "double check", with the lock
    /\ at[v].pc = "check"
    /\ IF NothingAhead(at[v].id) THEN UNCHANGED s /\ Go(v, "check2")
       ELSE Unlocked(Hash(at[v].id)) /\ Go(v, "ref")
    /\ UNCHANGED <<lim, alloc_id, pipe, ev, checkctrl, st, netVars, told, history>>

GiveUp(v) ==                     \* the second half of the double check fails
    /\ at[v].pc = "check2" /\ ~NothingComing(at[v].id)
    /\ Unlocked(Hash(at[v].id)) /\ Go(v, "ref")
    /\ UNCHANGED <<lim, alloc_id, pipe, ev, checkctrl, st, netVars, told, history>>

\* The package is written at once; the rest is left in dw_buffer, with the
\* write event on.
DirectWrite(v) ==
    LET id == at[v].id
        i == Hash(id)
        q == Units(at[v].p)
        n == Takes(id, q)
    IN  /\ at[v].pc = "check2" /\ NothingComing(id)
        /\ Write(id, q, n)
        /\ s' = IF n = 2 THEN [s EXCEPT ![i].lock = Nobody]
                ELSE [s EXCEPT ![i].lock = Nobody, ![i].dw = SubSeq(q, n + 1, 2),
                               ![i].out = s[i].in]
        /\ at' = [at EXCEPT ![v] = Idle]
        /\ UNCHANGED <<lim, alloc_id, pipe, ev, checkctrl, st, told, history>>

\* Mutant: the request is not counted.
IncSendingRefNot(v) ==
    /\ at[v].pc = "ref"
    /\ Go(v, "push")
    /\ UNCHANGED <<serverVars, netVars, told, history>>

\* inc_sending_ref: "inc sending only matching the same socket id"; at the limit
\* of the count the service spins until the socket thread has taken one off.
MaxSending == 65535
IncSendingRef(v) ==
    LET id == at[v].id
        i == Hash(id)
        same == s[i].protocol = "TCP" /\ s[i].tag = id
    IN  /\ at[v].pc = "ref"
        /\ same => s[i].sending < MaxSending
        /\ s' = IF same THEN [s EXCEPT ![i].sending = @ + 1] ELSE s
        /\ Go(v, "push")
        /\ UNCHANGED <<lim, alloc_id, pipe, ev, checkctrl, st, netVars, told, history>>

SendRequest(v) ==                \* send_request, 'D' or 'P'
    LET r == at[v] IN
    /\ r.pc = "push"
    /\ pipe' = Append(pipe, [c |-> IF sent[v][r.p[2]].prio = "high" THEN "D" ELSE "P",
                             id |-> r.id, p |-> r.p])
    /\ at' = [at EXCEPT ![v] = Idle]
    /\ UNCHANGED <<lim, s, alloc_id, ev, checkctrl, st, netVars, told, history>>

-----------------------------------------------------------------------------
(* The socket thread: requests *)

Cmd(c) == st = Loop /\ checkctrl /\ pipe # <<>> /\ Head(pipe).c = c
Report(id, r) == told' = [told EXCEPT ![id] = r]
\* new_fd: a reserved slot becomes a socket; nothing may be left in its lists.
CheckWbList(id) == ListsEmpty(s[Hash(id)])
NewFd(id, type, in, out) ==
    /\ CheckWbList(id)
    /\ s' = [s EXCEPT ![Hash(id)] = [@ EXCEPT !.type = type, !.id = id, !.protocol = "TCP",
              !.tag = id, !.sending = 0, !.dw = <<>>, !.in = in, !.out = out]]

\* check_wb_list fails: a late package for the former id of the slot went into
\* the lists before reserve_id had written the new id.
AbortNewFd ==
    /\ \E c \in {"O", "L", "B"} : Cmd(c)
    /\ ~CheckWbList(Head(pipe).id)
    /\ st' = [pc |-> "aborted"]
    /\ UNCHANGED <<lim, s, alloc_id, pipe, ev, checkctrl, at, netVars, told, history>>

\* open_socket: it fails, is connected at once, or will be.
OpenSocket ==
    LET id == Head(pipe).id IN
    /\ Cmd("O")
    /\ pipe' = Tail(pipe)
    /\ \/ /\ s' = [s EXCEPT ![Hash(id)].type = "INVALID"]
          /\ Report(id, "end") /\ st' = [pc |-> "clear", id |-> id] /\ UNCHANGED peer
       \/ /\ NewFd(id, "CONNECTED", TRUE, FALSE)
          /\ Report(id, "open") /\ peer' = [peer EXCEPT ![id] = "up"] /\ UNCHANGED st
       \/ /\ NewFd(id, "CONNECTING", TRUE, TRUE)
          /\ peer' = [peer EXCEPT ![id] = "pending"] /\ UNCHANGED <<told, st>>
    /\ UNCHANGED <<lim, alloc_id, ev, checkctrl, at, room, inb, wire, history>>

ListenSocket ==                  \* listen_socket
    LET id == Head(pipe).id IN
    /\ Cmd("L")
    /\ pipe' = Tail(pipe)
    /\ NewFd(id, "PLISTEN", FALSE, FALSE)
    /\ UNCHANGED <<lim, alloc_id, ev, checkctrl, st, at, netVars, told, history>>

BindSocket ==                    \* bind_socket
    LET id == Head(pipe).id IN
    /\ Cmd("B")
    /\ pipe' = Tail(pipe)
    /\ NewFd(id, "BIND", TRUE, FALSE)
    /\ Report(id, "open") /\ peer' = [peer EXCEPT ![id] = "up"]
    /\ UNCHANGED <<lim, alloc_id, ev, checkctrl, st, at, room, inb, wire, history>>

\* bind_socket: epoll does not take the descriptor, new_fd frees the slot.
BindFails ==
    LET id == Head(pipe).id IN
    /\ Cmd("B")
    /\ pipe' = Tail(pipe)
    /\ s' = [s EXCEPT ![Hash(id)].type = "INVALID"]
    /\ Report(id, "end") /\ st' = [pc |-> "clear", id |-> id]
    /\ UNCHANGED <<lim, alloc_id, ev, checkctrl, at, netVars, history>>

\* start_socket: an id that is gone is an error; a socket that is closing will
\* be reported later.
StartSocket ==
    LET id == Head(pipe).id
        i == Hash(id)
    IN  /\ Cmd("S")
        /\ pipe' = Tail(pipe)
        /\ IF Gone(id)
             THEN Report(id, "end") /\ st' = [pc |-> "clear", id |-> id] /\ UNCHANGED s
           ELSE IF s[i].type \in {"PACCEPT", "PLISTEN"}
             THEN /\ s' = [s EXCEPT ![i].in = TRUE,
                             ![i].type = IF @ = "PACCEPT" THEN "CONNECTED" ELSE "LISTEN"]
                  /\ Report(id, IF s[i].type = "PACCEPT" THEN "open" ELSE "listening")
                  /\ UNCHANGED st
           ELSE /\ told' = IF s[i].type = "CONNECTED" THEN [told EXCEPT ![id] = "open"] ELSE told
                /\ UNCHANGED <<s, st>>
        /\ UNCHANGED <<lim, alloc_id, ev, checkctrl, at, netVars, history>>

\* Mutant: the write event is left as it is.
AppendBufferQuiet(x, c, p) ==
    IF ListsEmpty(x) /\ x.type = "CONNECTED" THEN [x EXCEPT !.high = Units(p)]
    ELSE IF c = "D" THEN [x EXCEPT !.high = @ \o Units(p)]
    ELSE [x EXCEPT !.low = @ \o Units(p)]

\* An empty socket takes the package into the high list, whatever its priority,
\* and the write event is turned on.
AppendBuffer(x, c, p) ==
    IF ListsEmpty(x) /\ x.type = "CONNECTED"
      THEN [x EXCEPT !.high = Units(p), !.out = x.in]
    ELSE IF c = "D" THEN [x EXCEPT !.high = @ \o Units(p)]
    ELSE [x EXCEPT !.low = @ \o Units(p)]

\* send_socket, and then dec_sending_ref, whose assertion is SendingCounted
SendSocket(c) ==
    LET m == Head(pipe)
        i == Hash(m.id)
        refused == Gone(m.id) \/ s[i].type \in {"HALFCLOSE", "PACCEPT", "PLISTEN", "LISTEN"}
        x == IF refused THEN s[i] ELSE AppendBuffer(s[i], c, m.p)
    IN  /\ Cmd(c)
        /\ pipe' = Tail(pipe)
        /\ dropped' = IF refused THEN dropped \cup ToSet(Units(m.p)) ELSE dropped
        /\ s' = [s EXCEPT ![i] = IF x.id = m.id /\ x.protocol = "TCP"
                                   THEN [x EXCEPT !.sending = @ - 1] ELSE x]
        /\ UNCHANGED <<lim, alloc_id, ev, checkctrl, st, at, netVars, told, sent, cut, ended, closer>>

\* force_close, up to the lock: the lists are freed and epoll forgets the socket.
\* how: everything was written, or the connection is cut; clear: a request did it.
BeginClose(i, how, clear) ==
    /\ s' = [s EXCEPT ![i].high = <<>>, ![i].low = <<>>, ![i].in = FALSE, ![i].out = FALSE]
    /\ st' = [pc |-> "closing", i |-> i, how |-> how, clear |-> clear]
    /\ dropped' = dropped \cup ToSet(s[i].high \o s[i].low)
    /\ cut' = [cut EXCEPT ![s[i].id] = Len(wire[s[i].id])]

\* start_socket: epoll does not take the descriptor.
StartFails ==
    LET i == Hash(Head(pipe).id) IN
    /\ Cmd("S") /\ ~Gone(Head(pipe).id) /\ s[i].type \in {"PACCEPT", "PLISTEN"}
    /\ pipe' = Tail(pipe)
    /\ BeginClose(i, "cut", TRUE)
    /\ UNCHANGED <<lim, alloc_id, ev, checkctrl, at, netVars, told, sent, ended, closer>>

\* Mutant: the rest of a direct write is forgotten.
EndCloseLeaks ==
    LET x == s[st.i] IN
    /\ st.pc = "closing" /\ x.lock \in {Nobody, Thread}
    /\ s' = [s EXCEPT ![st.i].type = "INVALID", ![st.i].dw = <<>>, ![st.i].lock = Nobody]
    /\ ended' = [ended EXCEPT ![x.id] = st.how]
    /\ Report(x.id, "end")
    /\ st' = IF st.clear THEN [pc |-> "clear", id |-> x.id] ELSE Loop
    /\ UNCHANGED <<lim, alloc_id, pipe, ev, checkctrl, at, netVars, sent, cut, closer, dropped>>

\* Mutant: the lock of a direct write is not waited for.
EndCloseUnlocked ==
    LET x == s[st.i] IN
    /\ st.pc = "closing"
    /\ s' = [s EXCEPT ![st.i].type = "INVALID", ![st.i].dw = <<>>, ![st.i].lock = Nobody]
    /\ dropped' = dropped \cup ToSet(x.dw)
    /\ ended' = [ended EXCEPT ![x.id] = st.how]
    /\ Report(x.id, "end")
    /\ st' = IF st.clear THEN [pc |-> "clear", id |-> x.id] ELSE Loop
    /\ UNCHANGED <<lim, alloc_id, pipe, ev, checkctrl, at, netVars, sent, cut, closer>>

\* force_close, with the lock
EndClose ==
    LET x == s[st.i] IN
    /\ st.pc = "closing" /\ x.lock \in {Nobody, Thread}
    /\ s' = [s EXCEPT ![st.i].type = "INVALID", ![st.i].dw = <<>>, ![st.i].lock = Nobody]
    /\ dropped' = dropped \cup ToSet(x.dw)
    /\ ended' = [ended EXCEPT ![x.id] = st.how]
    /\ Report(x.id, "end")
    /\ st' = IF st.clear THEN [pc |-> "clear", id |-> x.id] ELSE Loop
    /\ UNCHANGED <<lim, alloc_id, pipe, ev, checkctrl, at, netVars, sent, cut, closer>>

\* clear_closed_event
ClearClosedEvent ==
    /\ st.pc = "clear"
    /\ ev' = SelectSeq(ev, LAMBDA e : ~(e.i = Hash(st.id) /\ s[e.i].type = "INVALID" /\ s[e.i].id = st.id))
    /\ st' = Loop
    /\ UNCHANGED <<lim, s, alloc_id, pipe, checkctrl, at, netVars, told, history>>

\* close_socket: what is left is sent first, unless a direct write has the lock.
\* A slot that reserve_id has taken but not yet given its new id ends in an
\* assertion of force_close or new_fd, whatever is in its lists.
CloseSocket ==
    LET m == Head(pipe)
        i == Hash(m.id)
    IN  /\ Cmd("K")
        /\ pipe' = Tail(pipe)
        /\ IF Gone(m.id)
             THEN Report(m.id, "end") /\ st' = [pc |-> "clear", id |-> m.id] /\ UNCHANGED s
           ELSE IF s[i].type = "RESERVE"
             THEN st' = [pc |-> "aborted"] /\ UNCHANGED <<s, told>>
           ELSE IF NoMoreData(s[i]) \/ s[i].lock # Nobody
             THEN st' = [pc |-> "recheck", i |-> i, shutdown |-> m.shutdown] /\ UNCHANGED <<s, told>>
           ELSE /\ s' = [s EXCEPT ![i].lock = Thread]
                /\ st' = [pc |-> "send", i |-> i, shutdown |-> m.shutdown, clear |-> TRUE]
                /\ UNCHANGED told
        /\ UNCHANGED <<lim, alloc_id, ev, checkctrl, at, netVars, history>>

\* Mutant: a socket is closed although there is something left to send.
HalfCloseNot ==
    /\ st.pc = "recheck"
    /\ BeginClose(st.i, IF st.shutdown THEN "cut" ELSE "drained", TRUE)
    /\ UNCHANGED <<lim, alloc_id, pipe, ev, checkctrl, at, netVars, told, sent, ended, closer>>

\* ... then the socket is closed, or half closed while something is left.
HalfClose ==
    /\ st.pc = "recheck"
    /\ IF st.shutdown \/ NoMoreData(s[st.i])
         THEN BeginClose(st.i, IF st.shutdown THEN "cut" ELSE "drained", TRUE)
         ELSE /\ s' = [s EXCEPT ![st.i].type = "HALFCLOSE"]
              /\ st' = Loop
              /\ UNCHANGED <<dropped, cut>>
    /\ UNCHANGED <<lim, alloc_id, pipe, ev, checkctrl, at, netVars, told, sent, ended, closer>>

NoCmd ==                         \* has_cmd: the pipe is empty
    /\ st = Loop /\ checkctrl /\ pipe = <<>>
    /\ checkctrl' = FALSE
    /\ UNCHANGED <<lim, s, alloc_id, pipe, ev, st, at, netVars, told, history>>

\* send_buffer puts dw_buffer before the high list; send_buffer_ writes the high
\* list and then the low one, whose head is raised when a part of it went out.
\* With nothing left the write event goes off and a half-closed socket is closed.
SendBuffer ==
    LET i == st.i
        x == s[i]
        high == x.dw \o x.high
        all == high \o x.low
        n == Takes(x.id, all)
        rest == SubSeq(all, n + 1, Len(all))
        keep == Len(high) - n                    \* units of the high list still there
        raised == keep <= 0 /\ rest # <<>> /\ rest[1][2] = 2
        k == IF raised THEN 1 ELSE Max({keep, 0})
        left == [x EXCEPT !.dw = <<>>, !.high = SubSeq(rest, 1, k),
                          !.low = SubSeq(rest, k + 1, Len(rest)),
                          !.out = @ /\ rest # <<>>, !.lock = Nobody]
        error == peer[x.id] = "rst" /\ all # <<>>
    IN  /\ st.pc = "send"
        /\ IF error
             THEN /\ s' = [s EXCEPT ![i] = [x EXCEPT !.dw = <<>>, !.high = <<>>, !.low = <<>>,
                                                     !.in = FALSE, !.out = FALSE]]
                  /\ st' = [pc |-> "closing", i |-> i, how |-> "cut", clear |-> st.clear]
                  /\ dropped' = dropped \cup ToSet(all)
                  /\ cut' = [cut EXCEPT ![x.id] = Len(wire[x.id])]
                  /\ UNCHANGED netVars
             ELSE /\ Write(x.id, all, n)
                  /\ IF rest = <<>> /\ x.type = "HALFCLOSE"
                       THEN /\ s' = [s EXCEPT ![i] = [left EXCEPT !.in = FALSE, !.lock = Thread]]
                            /\ st' = [pc |-> "closing", i |-> i, how |-> "drained", clear |-> st.clear]
                            /\ cut' = [cut EXCEPT ![x.id] = Len(wire'[x.id])]
                       ELSE /\ s' = [s EXCEPT ![i] = left]
                            /\ st' = IF st.clear THEN [pc |-> "recheck", i |-> i, shutdown |-> st.shutdown]
                                     ELSE Loop
                            /\ UNCHANGED cut
                  /\ UNCHANGED dropped
        /\ UNCHANGED <<lim, alloc_id, pipe, ev, checkctrl, at, told, sent, ended, closer>>

-----------------------------------------------------------------------------
(* The socket thread: events *)

\* What sp_wait can say of slot i; err: an error without anything to read or write
EventOf(i, err) ==
    LET x == s[i] IN
    CASE ~x.in -> {}
      [] x.in /\ x.type = "CONNECTING" ->
            IF peer[x.id] = "pending" THEN {} ELSE {[i |-> i, r |-> TRUE, w |-> TRUE]}
      [] x.in /\ x.type = "LISTEN" ->
            IF inb[x.id] = 0 THEN {} ELSE {[i |-> i, r |-> TRUE, w |-> FALSE]}
      [] OTHER ->
            LET r == inb[x.id] > 0 \/ peer[x.id] \in {"fin", "rst"}
                w == x.out /\ peer[x.id] # "pending" /\ (room[x.id] > 0 \/ peer[x.id] = "rst")
            IN  IF err /\ peer[x.id] = "rst" THEN {[i |-> i, r |-> FALSE, w |-> FALSE]}
                ELSE IF r \/ w THEN {[i |-> i, r |-> r, w |-> w]} ELSE {}

PipeEvent == IF pipe = <<>> THEN {} ELSE {[i |-> -1, r |-> TRUE, w |-> FALSE]}

\* sp_wait; the first event is handled before the pipe is looked at.
Wait ==
    /\ st = Loop /\ ~checkctrl /\ ev = <<>>
    /\ \E err \in BOOLEAN :
          LET ready == PipeEvent \cup UNION {EventOf(i, err) : i \in Slot} IN
          /\ ready # {}
          /\ ev' \in SetToSeqs(ready)
    /\ checkctrl' = TRUE
    /\ st' = [pc |-> "first"]
    /\ UNCHANGED <<lim, s, alloc_id, pipe, at, netVars, told, history>>

\* The next event is about a socket of one of these types.
Event(types) ==
    /\ ev # <<>> /\ (st.pc = "first" \/ (st = Loop /\ ~checkctrl))
    /\ Head(ev).i \in Slot /\ s[Head(ev).i].type \in types
Streams == {"CONNECTED", "HALFCLOSE", "BIND", "PACCEPT", "PLISTEN"}
Handled == ev' = Tail(ev) /\ st' = Loop

\* A pipe event, or one of a socket that is gone: nothing to do.
SkipEvent ==
    /\ \/ Event({"INVALID"})
       \/ ev # <<>> /\ Head(ev).i = -1 /\ (st.pc = "first" \/ (st = Loop /\ ~checkctrl))
    /\ Handled
    /\ UNCHANGED <<lim, s, alloc_id, pipe, checkctrl, at, netVars, told, history>>

\* The slot of the event has been reserved for another socket in the meantime:
\* force_close's assertion about RESERVE fails, or the write has nothing to do.
StaleEvent ==
    /\ Event({"RESERVE"})
    /\ \/ st' = [pc |-> "aborted"] /\ ev' = Tail(ev)
       \/ ~Head(ev).r /\ Head(ev).w /\ Handled
    /\ UNCHANGED <<lim, s, alloc_id, pipe, checkctrl, at, netVars, told, history>>

\* report_connect.  The type, the test of what is left and the write event are
\* separate in the code; before its report no service works on the id (MaySend).
ReportConnect ==
    LET i == Head(ev).i
        x == s[i]
    IN  /\ Event({"CONNECTING"})
        /\ ev' = Tail(ev)
        /\ IF peer[x.id] = "rst"
             THEN BeginClose(i, "cut", FALSE) /\ UNCHANGED told
             ELSE /\ s' = [s EXCEPT ![i].type = "CONNECTED", ![i].out = ~NoMoreData(x)]
                  /\ Report(x.id, "open")
                  /\ st' = Loop
                  /\ UNCHANGED <<dropped, cut>>
        /\ UNCHANGED <<lim, alloc_id, pipe, checkctrl, at, netVars, sent, ended, closer>>

\* report_accept: a connection without a free slot (or an id within the bound)
\* is closed at once.
ReportAccept ==
    LET l == s[Head(ev).i].id IN
    /\ Event({"LISTEN"})
    /\ Handled
    /\ inb' = [inb EXCEPT ![l] = IF @ = 0 THEN 0 ELSE @ - 1]
    /\ IF inb[l] > 0 /\ CanReserve
         THEN /\ alloc_id' = NextId
              /\ NewFd(NextId, "PACCEPT", FALSE, FALSE)
              /\ peer' = [peer EXCEPT ![NextId] = "up"]
              /\ Report(NextId, "accept")
         ELSE UNCHANGED <<lim, alloc_id, s, peer, told>>
    /\ UNCHANGED <<lim, pipe, checkctrl, at, room, wire, history>>

\* forward_message_tcp: data, the end of the stream, an error, or nothing; the
\* write flag of the event is left for the next turn.
ReadEvent ==
    LET e == Head(ev)
        id == s[e.i].id
        error == peer[id] \in {"rst", "none"}
        eof == peer[id] = "fin" /\ inb[id] = 0
    IN  /\ Event(Streams) /\ e.r
        /\ IF error \/ eof
             THEN /\ BeginClose(e.i, "cut", FALSE)
                  /\ ev' = Tail(ev) /\ UNCHANGED inb
             ELSE /\ inb' = [inb EXCEPT ![id] = IF @ = 0 THEN 0 ELSE @ - 1]
                  /\ ev' = IF e.w THEN [ev EXCEPT ![1].r = FALSE] ELSE Tail(ev)
                  /\ st' = Loop
                  /\ UNCHANGED <<s, dropped, cut>>
        /\ UNCHANGED <<lim, alloc_id, pipe, checkctrl, at, peer, room, wire, told, sent, ended, closer>>

WriteEvent ==                    \* send_buffer, unless a direct write has the lock
    LET e == Head(ev) IN
    /\ Event(Streams) /\ ~e.r /\ e.w
    /\ ev' = Tail(ev)
    /\ IF s[e.i].lock = Nobody
         THEN /\ s' = [s EXCEPT ![e.i].lock = Thread]
              /\ st' = [pc |-> "send", i |-> e.i, shutdown |-> FALSE, clear |-> FALSE]
         ELSE UNCHANGED s /\ st' = Loop
    /\ UNCHANGED <<lim, alloc_id, pipe, checkctrl, at, netVars, told, history>>

ErrorEvent ==                    \* e->error
    LET e == Head(ev) IN
    /\ Event(Streams) /\ ~e.r /\ ~e.w
    /\ ev' = Tail(ev)
    /\ BeginClose(e.i, "cut", FALSE)
    /\ UNCHANGED <<lim, alloc_id, pipe, checkctrl, at, netVars, told, sent, ended, closer>>

-----------------------------------------------------------------------------
(* The other sides *)

Connect(id) ==                   \* a connection is made, or fails
    /\ peer[id] = "pending"
    /\ \E r \in {"up", "rst"} : (r = "up" \/ lim.fault) /\ peer' = [peer EXCEPT ![id] = r]
    /\ UNCHANGED <<serverVars, at, room, inb, wire, told, history>>

Net(id) == /\ \/ /\ lim.fault /\ peer[id] \in {"up", "fin"}     \* it is closed, or breaks
                 /\ \E r \in {"fin", "rst"} : peer' = [peer EXCEPT ![id] = r]
                 /\ UNCHANGED <<room, inb>>
              \/ /\ peer[id] = "up" \/ told[id] = "listening"     \* data, or a client
                 /\ inb[id] < lim.in
                 /\ inb' = [inb EXCEPT ![id] = @ + 1]
                 /\ UNCHANGED <<peer, room>>
           /\ ended[id] = "no"
           /\ UNCHANGED <<serverVars, at, wire, told, history>>

Drain(id) ==                     \* the peer reads
    /\ peer[id] \in {"up", "fin"} /\ ended[id] = "no"
    /\ \E r \in room[id] + 1..2 : room' = [room EXCEPT ![id] = r]
    /\ UNCHANGED <<serverVars, at, peer, inb, wire, told, history>>

-----------------------------------------------------------------------------
Call(v) ==
    \/ \E c \in lim.open : Reserve(v, c)
    \/ \E id \in Id : Start(v, id) \/ \E b \in lim.shut : Close(v, id, b)
    \/ \E id \in Id, prio \in lim.prio : Send(v, id, prio)
ServiceStep(v) ==
    \/ OpenRequest(v) \/ TryLock(v) \/ Check(v) \/ GiveUp(v) \/ DirectWrite(v)
    \/ IncSendingRef(v) \/ SendRequest(v)
ThreadStep ==
    \/ AbortNewFd \/ OpenSocket \/ ListenSocket \/ BindSocket \/ BindFails
    \/ StartSocket \/ StartFails \/ CloseSocket \/ HalfClose
    \/ \E c \in {"D", "P"} : SendSocket(c)
    \/ EndClose \/ ClearClosedEvent \/ SendBuffer \/ NoCmd \/ Wait \/ SkipEvent \/ StaleEvent
    \/ ReportConnect \/ ReportAccept \/ ReadEvent \/ WriteEvent \/ ErrorEvent
Alive == st # [pc |-> "aborted"]

Next ==
    \/ /\ Alive
       /\ \/ \E v \in Service : Call(v) \/ ServiceStep(v)
          \/ ThreadStep
    \/ \E id \in Id : Connect(id) \/ Net(id) \/ Drain(id)

Spec == Init /\ [][Next]_vars

\* Threads run on, a connection that is being made is made or fails, and peers go
\* on reading as long as they are connected.
FairSpec ==
    /\ Spec
    /\ \A v \in Service : WF_vars(Alive /\ ServiceStep(v))
    /\ WF_vars(Alive /\ ThreadStep)
    /\ \A id \in AnyId : WF_vars(id \in Id /\ Drain(id)) /\ WF_vars(id \in Id /\ Connect(id))

-----------------------------------------------------------------------------
(* Properties *)

\* What a peer receives, up to the moment its connection is taken down, is a
\* sequence of whole packages, and those that one service sent with the same
\* priority are in the order in which it sent them: direct writes do not
\* overtake requests nor fall between the parts of a package.
WireIntact ==
    \A id \in Id :
        LET w == IF cut[id] = 0 THEN wire[id] ELSE SubSeq(wire[id], 1, cut[id])
            prio(k) == sent[w[k][1][1]][w[k][1][2]].prio
        IN  /\ \A k \in DOMAIN w : w[k][2] = 2 => k > 1 /\ w[k - 1] = <<w[k][1], 1>>
            /\ \A k \in DOMAIN w : w[k][2] = 1 /\ k < Len(w) => w[k + 1] = <<w[k][1], 2>>
            /\ \A j, k \in DOMAIN w :
                  j < k /\ w[j][1][1] = w[k][1][1] /\ prio(j) = prio(k) => w[j][1][2] <= w[k][1][2]

\* Where unit u is: with the service, in the pipe, in a socket, written, freed.
Owners(u) ==
    {<<"service", v>> : v \in {v \in Service : "p" \in DOMAIN at[v] /\ at[v].p = u[1]}}
      \cup {<<"pipe", k>> : k \in {k \in DOMAIN pipe : pipe[k].c \in {"D", "P"} /\ pipe[k].p = u[1]}}
      \cup (UNION {{<<i, k>> : k \in {k \in DOMAIN (s[i].dw \o s[i].high \o s[i].low) :
                                        (s[i].dw \o s[i].high \o s[i].low)[k] = u}} : i \in Slot})
      \cup (UNION {{<<"wire", id, k>> : k \in {k \in DOMAIN wire[id] : wire[id][k] = u}} : id \in Id})
      \cup {<<"freed", x>> : x \in {u} \cap dropped}

\* Every part of a package a service gave away has one owner at any time: it is
\* neither lost nor freed or written twice.
BufferOwned ==
    \A v \in Service, h \in {1, 2} :
        \A k \in DOMAIN sent[v] : Cardinality(Owners(<<<<v, k>>, h>>)) = 1

\* assert((s->sending & 0xffff) != 0) in dec_sending_ref: the requests counted
\* in a slot are at least those in the pipe that will be taken off again.  It
\* needs MaySend: a package for an id whose connect request is still in the pipe
\* is not counted, and is taken off after new_fd has set the count to zero.
SendingCounted ==
    \A i \in Slot : s[i].protocol = "TCP" =>
        s[i].sending >= Cardinality({k \in DOMAIN pipe : pipe[k].c \in {"D", "P"} /\ pipe[k].id = s[i].id})

\* A graceful close loses nothing of what its caller sent before: when the
\* connection ends by it, all of that has been written.
CloseFlushes ==
    \A id \in Id : ended[id] = "drained" /\ closer[id] # <<>> =>
        \A k \in 1..closer[id][2] :
            LET m == sent[closer[id][1]][k] IN
            m.id = id /\ m.open => ToSet(Units(<<closer[id][1], k>>)) \subseteq ToSet(wire[id])

\* A connection that has ended stays ended: no service writes to its descriptor,
\* which is another connection's by then, and none is told that it is open.
EndIsFinal ==
    [][\A id \in Id : ended[id] # "no" => wire'[id] = wire[id] /\ told'[id] = "end"]_vars

\* Unwritten units of connection id; those given to the kernel by bind_socket are
\* left out: nobody turns on their write event.
Unwritten(id) ==
    LET x == s[Hash(id)] IN
    x.id = id /\ x.type \in {"CONNECTED", "HALFCLOSE"} /\ ~(ListsEmpty(x) /\ x.dw = <<>>)
Ended(id) == ended[id] # "no" \/ ~Alive

\* What waits in a socket does go out, or the connection ends, and it does end if
\* it is half closed with something left: the write event is never turned off, or
\* missed, while something is left by whichever thread.  It needs MaySend: a
\* direct write in the middle of report_connect would lose its write event.
Flushed ==
    \A id \in AnyId : id \in Id /\ Unwritten(id) ~>
        id \in Id /\ (Ended(id) \/ (~Unwritten(id) /\ s[Hash(id)].type # "HALFCLOSE"))
=============================================================================
