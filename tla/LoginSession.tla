---------------------------- MODULE LoginSession ----------------------------
(***************************************************************************)
(* How a player's session is made and taken down by three kinds of Lua     *)
(* service that call each other: the login master (login_server.lua,       *)
(* logind.lua), the gate (gated.lua, msg_server.lua) and the agents        *)
(* (msgagent.lua) that the gate keeps in a pool.                           *)
(*                                                                         *)
(* A service runs one coroutine at a time and switches only where it waits *)
(* for an answer, so one step is what a coroutine does between two waits.  *)
(* An agent runs its "lua" commands one after the other (skynet.queue, cs),*)
(* but the player's own user_logout comes in beside the queue.             *)
(***************************************************************************)
EXTENDS Integers, Sequences, FiniteSets

CONSTANTS
    Uid, Agent,                  \* players, agents
    NoAgent,
    Instances                    \* configurations of the game server, see below

ASSUME AgentAssumption == NoAgent \notin Agent /\ IsFiniteSet(Agent)
\* players: who logs in; pool: the agents made by init_handler; max_agent;
\* user_logout: do clients send it?  Bounds: sub on internal_id, crash on the
\* crashes of the game server.
ASSUME InstancesAssumption ==
    \A i \in Instances :
        /\ i.players \subseteq Uid /\ i.user_logout \in BOOLEAN
        /\ i.pool \in Seq(Agent)
        /\ \A j, k \in DOMAIN i.pool : i.pool[j] = i.pool[k] => j = k
        /\ i.max_agent \in Len(i.pool)..Cardinality(Agent)
        /\ i.sub \in Nat /\ i.crash \in Nat

VARIABLES
    inst,                        \* the configuration
    (* login master *)
    online,                      \* user_online[uid].subid, 0 if not there
    lpc, ksub,                   \* accept/login_handler for a uid; subid to kick
    chan,                        \* logout requests of the gate: one connection, in order
    (* gate *)
    users,                       \* users[uid]: the subid in its username and its agent
    internal_id, agent_pool, curr_agent,
    gpc, gname, gagent,          \* login_handler for a uid: point, its locals
    reply,                       \* what login_handler returned
    conn,                        \* connection of the player: its username's subid
    (* agents and the player's data *)
    session,                     \* UID, SUB_ID and gate of an agent
    cs,                          \* an agent's queue of commands, the head running
    job,                         \* commands on their way: see Task
    loaded,                      \* the player's data is in memory (dcmgr)
    granted,                     \* subid of the last "200" answer to the player
    crashes                      \* how often the game server has crashed

masterVars == <<online, lpc, ksub, chan>>
gateVars == <<users, internal_id, agent_pool, curr_agent, conn>>
loginVars == <<gpc, gname, gagent, reply>>
agentVars == <<session, cs, job, loaded>>
playerVars == <<inst, granted, crashes>>
vars == <<masterVars, gateVars, loginVars, agentVars, playerVars>>

NoUser == [sub |-> 0, agent |-> NoAgent]
NoUid == <<>>
NoSession == <<NoUid, 0>>
\* A command to an agent: on behalf of player t[1], of kind t[2].
Kind == {"login", "auth", "kick", "disc", "client"}
Task == Uid \X Kind
NoJob == [at |-> "none", agent |-> NoAgent, uid |-> NoUid, sub |-> 0, back |-> NoAgent]

Init ==
    /\ inst \in Instances
    /\ online = [u \in Uid |-> 0]
    /\ lpc = [u \in Uid |-> "idle"]
    /\ ksub = online
    /\ users = [u \in Uid |-> NoUser]
    /\ internal_id = 0
    /\ agent_pool = inst.pool
    /\ curr_agent = Len(inst.pool)
    /\ gpc = lpc
    /\ gname = online
    /\ gagent = [u \in Uid |-> NoAgent]
    /\ reply = online
    /\ conn = online
    /\ session = [a \in Agent |-> NoSession]
    /\ cs = [a \in Agent |-> <<>>]
    /\ job = [t \in Task |-> NoJob]
    /\ loaded = [u \in Uid |-> FALSE]
    /\ granted = online
    /\ chan = <<>>
    /\ crashes = 0

\* Where an agent is: in the pool (at which place), with a player, with a
\* login that is under way, or on its way back.
Places(a) ==
    {<<"pool", i>> : i \in {j \in DOMAIN agent_pool : agent_pool[j] = a}}
      \cup {<<"user", u>> : u \in {v \in Uid : users[v].agent = a}}
      \cup {<<"login", u>> : u \in {v \in Uid : gagent[v] = a}}
      \cup {<<"back", t>> : t \in {v \in Task : job[v].back = a}}

Idle(t) == job[t].at = "none"
\* skynet.call(a, "lua", ...): the command joins the agent's queue.
Enqueue(t, a, sub) ==
    /\ job' = [job EXCEPT ![t] = [NoJob EXCEPT !.at = "wait", !.agent = a, !.sub = sub]]
    /\ cs' = [cs EXCEPT ![a] = Append(@, t)]
\* Mutant: the queue is not moved on.
FinishKeepsQueue(t) ==
    /\ job' = [job EXCEPT ![t] = NoJob]
    /\ UNCHANGED cs
\* The command of task t is over; the next one of the queue may run.
Finish(t) ==
    /\ job' = [job EXCEPT ![t] = NoJob]
    /\ cs' = IF t[2] = "client" THEN cs ELSE [cs EXCEPT ![job[t].agent] = Tail(@)]
\* The gate answers the agent, which goes on to have the data of the player it
\* serves unloaded: the answer is ahead of a command the gate sends later.
Answer(t) ==
    job' = [job EXCEPT ![t] = [@ EXCEPT !.at = "unload", !.uid = session[job[t].agent][1],
                                        !.back = NoAgent]]
\* Mutant: commands run as they come, without the queue.
RunsUnqueued(t, at) == job[t].at = at
\* A command runs at the head of its agent's queue, user_logout beside it.
Runs(t, at) ==
    /\ job[t].at = at
    /\ t[2] # "client" => Head(cs[job[t].agent]) = t

-----------------------------------------------------------------------------
(* The login master *)

\* A player is authenticated (accept); user_login locks out a second attempt
\* of the same player.  login_handler kicks a session it knows of.
Accept(u) ==
    /\ u \in inst.players /\ lpc[u] = "idle"
    /\ internal_id + Cardinality({v \in Uid : lpc[v] \notin {"idle", "reply"}}) < inst.sub
    /\ lpc' = [lpc EXCEPT ![u] = IF online[u] = 0 THEN "login" ELSE "kick"]
    /\ ksub' = [ksub EXCEPT ![u] = online[u]]
    /\ UNCHANGED <<online, chan, gateVars, loginVars, agentVars, playerVars>>

\* "check again whether the user is online"
Recheck(u) ==
    /\ lpc[u] = "recheck"
    /\ lpc' = [lpc EXCEPT ![u] = IF online[u] # 0 THEN "idle" ELSE "login"]
    /\ UNCHANGED <<online, ksub, chan, gateVars, loginVars, agentVars, playerVars>>

\* Mutant: login_handler answers without recording the session.
LoginReplyUnrecorded(u) ==
    /\ lpc[u] = "reply"
    /\ lpc' = [lpc EXCEPT ![u] = "idle"]
    /\ granted' = [granted EXCEPT ![u] = reply[u]]
    /\ UNCHANGED <<online, ksub, chan, gateVars, loginVars, agentVars, inst, crashes>>

\* login_handler records the session, accept answers "200".
LoginReply(u) ==
    /\ lpc[u] = "reply"
    /\ lpc' = [lpc EXCEPT ![u] = "idle"]
    /\ online' = [online EXCEPT ![u] = reply[u]]
    /\ granted' = [granted EXCEPT ![u] = reply[u]]
    /\ UNCHANGED <<ksub, chan, gateVars, loginVars, agentVars, inst, crashes>>

-----------------------------------------------------------------------------
(* The gate *)

\* kick_handler: the agent is told to log out; a player the gate does not know
\* is logged out at the master; a wrong subid is an error, after which the
\* master forgets the session.
Kick(u) ==
    /\ lpc[u] = "kick"
    /\ \/ /\ users[u] = NoUser
          /\ lpc' = [lpc EXCEPT ![u] = "forget"]
          /\ chan' = Append(chan, <<u, "forget">>)
          /\ UNCHANGED <<online, job, cs>>
       \/ /\ users[u] # NoUser /\ users[u].sub = ksub[u]
          /\ lpc' = [lpc EXCEPT ![u] = "kicking"]
          /\ Enqueue(<<u, "kick">>, users[u].agent, 0)
          /\ UNCHANGED <<online, chan>>
       \/ /\ users[u] # NoUser /\ users[u].sub # ksub[u]
          /\ lpc' = [lpc EXCEPT ![u] = "recheck"]
          /\ online' = [online EXCEPT ![u] = 0]
          /\ UNCHANGED <<chan, job, cs>>
    /\ UNCHANGED <<ksub, gateVars, loginVars, session, loaded, playerVars>>

\* CMD.logout of the master, called by kick_handler
Forget(u) ==
    /\ lpc[u] = "forget" /\ chan # <<>> /\ Head(chan) = <<u, "forget">>
    /\ chan' = Tail(chan)
    /\ lpc' = [lpc EXCEPT ![u] = "recheck"]
    /\ online' = [online EXCEPT ![u] = 0]
    /\ UNCHANGED <<ksub, gateVars, loginVars, agentVars, playerVars>>

Kicked(u) ==
    /\ lpc[u] = "kicking"
    /\ Idle(<<u, "kick">>)
    /\ lpc' = [lpc EXCEPT ![u] = "recheck"]
    /\ UNCHANGED <<online, ksub, chan, gateVars, loginVars, agentVars, playerVars>>

\* login_handler: an agent from the pool is told at once, a new one has to be
\* started first.
Login(u) ==
    /\ lpc[u] = "login"
    /\ \/ /\ users[u] # NoUser   \* "already login"
          /\ lpc' = [lpc EXCEPT ![u] = "idle"]
          /\ UNCHANGED <<internal_id, agent_pool, gpc, gname, gagent, job, cs>>
       \/ /\ users[u] = NoUser
          /\ internal_id' = internal_id + 1
          /\ gname' = [gname EXCEPT ![u] = internal_id + 1]
          /\ \/ /\ agent_pool # <<>>
                /\ LET n == Len(agent_pool) IN
                   /\ agent_pool' = SubSeq(agent_pool, 1, n - 1)
                   /\ gagent' = [gagent EXCEPT ![u] = agent_pool[n]]
                   /\ Enqueue(<<u, "login">>, agent_pool[n], internal_id + 1)
                /\ gpc' = [gpc EXCEPT ![u] = "call"]
                /\ lpc' = [lpc EXCEPT ![u] = "logging"]
             \/ /\ agent_pool = <<>> /\ curr_agent < inst.max_agent
                /\ gpc' = [gpc EXCEPT ![u] = "new"]
                /\ lpc' = [lpc EXCEPT ![u] = "logging"]
                /\ UNCHANGED <<agent_pool, gagent, job, cs>>
             \/ /\ agent_pool = <<>> /\ curr_agent >= inst.max_agent    \* "too many agents"
                /\ lpc' = [lpc EXCEPT ![u] = "idle"]
                /\ UNCHANGED <<agent_pool, gpc, gagent, job, cs>>
    /\ UNCHANGED <<online, ksub, chan, users, curr_agent, conn, reply, session, loaded,
                   playerVars>>

\* skynet.newservice returns a new agent; internal_id may have moved on.
NewAgent(u) ==
    /\ gpc[u] = "new"
    /\ \E a \in {b \in Agent : Places(b) = {}} :
          /\ gagent' = [gagent EXCEPT ![u] = a]
          /\ Enqueue(<<u, "login">>, a, internal_id)
    /\ curr_agent' = curr_agent + 1
    /\ gpc' = [gpc EXCEPT ![u] = "call"]
    /\ UNCHANGED <<masterVars, users, internal_id, agent_pool, conn, gname, reply, session,
                   loaded, playerVars>>

\* The agent has answered: the session is entered, internal_id is returned.
LoginReturn(u) ==
    /\ gpc[u] = "call"
    /\ Idle(<<u, "login">>)
    /\ users' = [users EXCEPT ![u] = [sub |-> gname[u], agent |-> gagent[u]]]
    /\ reply' = [reply EXCEPT ![u] = internal_id]
    /\ gpc' = [gpc EXCEPT ![u] = "idle"]
    /\ gagent' = [gagent EXCEPT ![u] = NoAgent]
    /\ lpc' = [lpc EXCEPT ![u] = "reply"]
    /\ UNCHANGED <<online, ksub, chan, internal_id, agent_pool, curr_agent, conn, gname, agentVars,
                   playerVars>>

\* The player connects to the gate: do_auth finds the username.
Connect(u) ==
    /\ conn[u] = 0
    /\ granted[u] # 0 /\ users[u].sub = granted[u]
    /\ Idle(<<u, "auth">>)
    /\ conn' = [conn EXCEPT ![u] = granted[u]]
    /\ Enqueue(<<u, "auth">>, users[u].agent, 0)
    /\ UNCHANGED <<masterVars, users, internal_id, agent_pool, curr_agent, loginVars, session,
                   loaded, playerVars>>

\* handler.disconnect and disconnect_handler
Disconnect(u) ==
    /\ conn[u] # 0
    /\ Idle(<<u, "disc">>)
    /\ conn' = [conn EXCEPT ![u] = 0]
    /\ IF users[u].sub = conn[u] THEN Enqueue(<<u, "disc">>, users[u].agent, 0)
       ELSE UNCHANGED <<job, cs>>
    /\ UNCHANGED <<masterVars, users, internal_id, agent_pool, curr_agent, loginVars, session,
                   loaded, playerVars>>

\* request_handler brings the player's user_logout to the agent.
ClientLogout(u) ==
    /\ inst.user_logout
    /\ conn[u] # 0 /\ users[u].sub = conn[u]
    /\ Idle(<<u, "client">>)
    /\ job' = [job EXCEPT ![<<u, "client">>] =
                 [NoJob EXCEPT !.at = "offline", !.agent = users[u].agent]]
    /\ UNCHANGED <<masterVars, gateVars, loginVars, session, cs, loaded, playerVars>>

\* Mutant: the agent goes back to the pool whether or not there was a session.
GateLogoutTwice(t) ==
    LET u == job[t].uid IN
    /\ job[t].at = "gate"
    /\ users' = [users EXCEPT ![u] = NoUser]
    /\ conn' = [conn EXCEPT ![u] = 0]
    /\ job' = [job EXCEPT ![t].at = "notify", ![t].back = job[t].agent]
    /\ chan' = Append(chan, t)
    /\ UNCHANGED <<online, lpc, ksub, internal_id, agent_pool, curr_agent, loginVars, session, cs,
                   loaded, playerVars>>

\* logout_handler, called by an agent: nothing to do, a wrong subid (the error
\* ends the agent's command), or the session goes and the master is told.
GateLogout(t) ==
    LET u == job[t].uid IN
    /\ job[t].at = "gate"
    /\ IF users[u] = NoUser
         THEN /\ Answer(t)
              /\ UNCHANGED <<chan, users, conn, cs>>
         ELSE IF users[u].sub # job[t].sub
         THEN Finish(t) /\ UNCHANGED <<chan, users, conn>>
         ELSE /\ users' = [users EXCEPT ![u] = NoUser]
              /\ conn' = [conn EXCEPT ![u] = 0]
              /\ job' = [job EXCEPT ![t].at = "notify", ![t].back = users[u].agent]
              /\ chan' = Append(chan, t)
              /\ UNCHANGED cs
    /\ UNCHANGED <<online, lpc, ksub, internal_id, agent_pool, curr_agent, loginVars, session, loaded,
                   playerVars>>

\* CMD.logout of the master: whatever session it knows of is forgotten.
MasterLogout(t) ==
    /\ job[t].at = "notify" /\ Head(chan) = t
    /\ chan' = Tail(chan)
    /\ online' = [online EXCEPT ![job[t].uid] = 0]
    /\ job' = [job EXCEPT ![t].at = "pool"]
    /\ UNCHANGED <<lpc, ksub, gateVars, loginVars, session, cs, loaded, playerVars>>

\* logout_handler goes on: the agent is free again, before it is done.
PoolInsert(t) ==
    /\ job[t].at = "pool"
    /\ agent_pool' = Append(agent_pool, job[t].back)
    /\ Answer(t)
    /\ UNCHANGED <<masterVars, users, internal_id, curr_agent, conn, loginVars, session, cs,
                   loaded, playerVars>>

-----------------------------------------------------------------------------
(* An agent *)

RunLogin(t) ==                   \* CMD.login
    /\ t[2] = "login" /\ Runs(t, "wait")
    /\ session' = [session EXCEPT ![job[t].agent] = <<t[1], job[t].sub>>]
    /\ Finish(t)
    /\ UNCHANGED <<masterVars, gateVars, loginVars, loaded, playerVars>>

RunAuth(t) ==                    \* CMD.auth: the player's data is loaded
    /\ t[2] = "auth" /\ Runs(t, "wait")
    /\ loaded' = [loaded EXCEPT ![t[1]] = TRUE]
    /\ Finish(t)
    /\ UNCHANGED <<masterVars, gateVars, loginVars, session, playerVars>>

RunLogout(t) ==                  \* CMD.logout: logout() starts
    /\ t[2] \in {"kick", "disc"} /\ Runs(t, "wait")
    /\ job' = [job EXCEPT ![t].at = "offline"]
    /\ UNCHANGED <<masterVars, gateVars, loginVars, session, cs, loaded, playerVars>>

\* The services have been told that the player is offline: the gate is next,
\* with the session the agent has now.
CallGate(t) ==
    LET s == session[job[t].agent] IN
    /\ Runs(t, "offline")
    /\ job' = [job EXCEPT ![t] = IF s = NoSession THEN [@ EXCEPT !.at = "unload", !.uid = NoUid]
                                 ELSE [@ EXCEPT !.at = "gate", !.uid = s[1], !.sub = s[2]]]
    /\ UNCHANGED <<masterVars, gateVars, loginVars, session, cs, loaded, playerVars>>

Unload(t) ==                     \* dcmgr unloads the data
    /\ Runs(t, "unload")
    /\ loaded' = [u \in Uid |-> loaded[u] /\ u # job[t].uid]
    /\ job' = [job EXCEPT ![t].at = "clear"]
    /\ UNCHANGED <<masterVars, gateVars, loginVars, session, cs, playerVars>>

Clear(t) ==                      \* gate, UID, SUB_ID = nil
    /\ Runs(t, "clear")
    /\ session' = [session EXCEPT ![job[t].agent] = NoSession]
    /\ Finish(t)
    /\ UNCHANGED <<masterVars, gateVars, loginVars, loaded, playerVars>>

-----------------------------------------------------------------------------
\* The game server goes down and is started again.  Requests already sent may
\* still reach the master; the master's calls that wait for the gate fail: a
\* kick makes it forget the session, a login is refused.
Crash ==
    /\ crashes < inst.crash
    /\ crashes' = crashes + 1
    /\ \E n \in 0..Len(chan) :
          LET got == {IF chan[i][2] = "forget" THEN chan[i][1] ELSE job[chan[i]].uid : i \in 1..n}
          IN  online' = [u \in Uid |->
                           IF u \in got \/ lpc[u] \in {"kick", "kicking", "forget"} THEN 0
                           ELSE online[u]]
    /\ lpc' = [u \in Uid |-> CASE lpc[u] \in {"kick", "kicking", "forget"} -> "recheck"
                              [] lpc[u] \in {"login", "logging"} -> "idle"
                              [] OTHER -> lpc[u]]
    /\ chan' = <<>>
    /\ users' = [u \in Uid |-> NoUser]
    /\ internal_id' = 0
    /\ agent_pool' = inst.pool
    /\ curr_agent' = Len(inst.pool)
    /\ conn' = [u \in Uid |-> 0]
    /\ gpc' = [u \in Uid |-> "idle"]
    /\ gname' = conn'
    /\ gagent' = [u \in Uid |-> NoAgent]
    /\ session' = [a \in Agent |-> NoSession]
    /\ cs' = [a \in Agent |-> <<>>]
    /\ job' = [t \in Task |-> NoJob]
    /\ loaded' = [u \in Uid |-> FALSE]
    /\ granted' = conn'          \* the secrets of the sessions are gone
    /\ UNCHANGED <<inst, ksub, reply>>

-----------------------------------------------------------------------------
MasterStep(u) == Recheck(u) \/ LoginReply(u) \/ Forget(u) \/ Kicked(u)
GateStep(u) == Kick(u) \/ Login(u) \/ NewAgent(u) \/ LoginReturn(u)
PlayerStep(u) == Accept(u) \/ Connect(u) \/ Disconnect(u) \/ ClientLogout(u)
TaskStep(t) ==
    \/ RunLogin(t) \/ RunAuth(t) \/ RunLogout(t) \/ CallGate(t) \/ GateLogout(t)
    \/ MasterLogout(t) \/ PoolInsert(t) \/ Unload(t) \/ Clear(t)

Next ==
    \/ \E u \in Uid : MasterStep(u) \/ GateStep(u) \/ PlayerStep(u)
    \/ \E t \in Task : TaskStep(t)
    \/ Crash

Spec == Init /\ [][Next]_vars

\* Calls are answered; what players do is up to them.
FairSpec ==
    /\ Spec
    /\ \A u \in Uid : WF_vars(MasterStep(u)) /\ WF_vars(GateStep(u))
    /\ \A t \in Task : WF_vars(TaskStep(t))

-----------------------------------------------------------------------------
(* Properties *)

\* An agent is in one place: two players never share one, and none is in the
\* pool twice, however logins, kicks and logouts cross.
AgentExclusive == \A a \in Agent : Cardinality(Places(a)) <= 1

\* No login or logout of the player is under way.
Quiet(u) ==
    /\ lpc[u] = "idle"
    /\ \A t \in Task : ~Idle(t) => t[1] # u /\ job[t].uid # u

\* A player whose logins overlap with nobody else's is told his own subid (see
\* UniqueSubid), and without user_logout his agent does one thing at a time.
InOrder == (\E u \in Uid : inst.players = {u}) /\ ~inst.user_logout

\* When nothing is under way, the login master knows every session of the gate,
\* by its subid: or the player could be neither kicked nor let in again.
SessionKnown ==
    InOrder => \A u \in Uid : Quiet(u) /\ users[u] # NoUser => online[u] = users[u].sub

\* The gate is never asked to log in a player who is logged in ("login server
\* disallow multi login", gated.lua): the old session is gone by then, even
\* after a crash of the game server that the master has not heard of.
NeverAlreadyLogin == InOrder => \A u \in Uid : lpc[u] = "login" => users[u] = NoUser

\* "you should return unique subid" (gated.lua)
UniqueSubid == \A u, v \in Uid : u # v /\ granted[u] # 0 => granted[u] # granted[v]

\* "the agent can be used again" after a logout (msgagent.lua): the agent of a
\* player who is logged in serves this player.
AgentServes ==
    InOrder => \A u \in Uid :
        users[u] # NoUser /\ Quiet(u) => session[users[u].agent][1] = u

\* A player's data is "read into memory at login and cleared after he has left"
\* (main.lua): it is there while he is connected.
DataLoaded == \A u \in Uid : conn[u] # 0 /\ Quiet(u) => loaded[u]

\* A login comes to an end: no coroutine of the master, the gate and the
\* agents waits for ever for another.
LoginEnds == \A u \in Uid : lpc[u] # "idle" ~> lpc[u] = "idle"
=============================================================================
