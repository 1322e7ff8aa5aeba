------------------------- MODULE LoginSessionProofs -------------------------
(***************************************************************************)
(* Proofs about the sessions of players: an agent is in one place, for any *)
(* number of players and agents, any pool and any crashes; and for a       *)
(* player who does not log out himself, with nobody else logging in, the   *)
(* master, the gate and the agent agree on his session.                    *)
(***************************************************************************)
EXTENDS LoginSession, FiniteSetTheorems, TLAPS

MaybeAgent == Agent \cup {NoAgent}
JobPoint == {"none", "wait", "offline", "gate", "notify", "pool", "unload", "clear"}
Job == [at : JobPoint, agent : MaybeAgent, uid : Uid \cup {NoUid}, sub : Nat, back : MaybeAgent]

TypeOK ==
    /\ inst \in Instances
    /\ users \in [Uid -> {NoUser} \cup [sub : Nat, agent : Agent]]
    /\ internal_id \in Nat
    /\ agent_pool \in Seq(Agent)
    /\ gpc \in [Uid -> {"idle", "new", "call"}]
    /\ gname \in [Uid -> Nat]
    /\ gagent \in [Uid -> MaybeAgent]
    /\ session \in [Agent -> (Uid \X Nat) \cup {NoSession}]
    /\ job \in [Task -> Job]

\* What a coroutine has in hand wherever it uses it: the agent of a login, the
\* agent of a command, the player and the agent of a logout.
InHand ==
    /\ \A u \in Uid : gpc[u] = "call" => gagent[u] \in Agent
    /\ \A t \in Task : job[t].at # "none" => job[t].agent \in Agent
    /\ \A t \in Task : job[t].at = "gate" => job[t].uid \in Uid
    /\ \A t \in Task : job[t].at \in {"notify", "pool"} => job[t].back \in Agent

OnePlace == \A a \in Agent : \A x, y \in Places(a) : x = y

IInv == TypeOK /\ InHand /\ OnePlace

-----------------------------------------------------------------------------
(* Places *)

\* The agent a is in place <<k, p>>.
Lies(k, p, a) ==
    \/ k = "pool" /\ p \in DOMAIN agent_pool /\ agent_pool[p] = a
    \/ k = "user" /\ p \in Uid /\ users[p].agent = a
    \/ k = "login" /\ p \in Uid /\ gagent[p] = a
    \/ k = "back" /\ p \in Task /\ job[p].back = a
LiesOnce(a) == \A k, p, l, r : Lies(k, p, a) /\ Lies(l, r, a) => k = l /\ p = r
AllOnce == \A a \in Agent : LiesOnce(a)

LEMMA PlacesLies ==
  ASSUME NEW a
  PROVE  /\ \A k, p : <<k, p>> \in Places(a) <=> Lies(k, p, a)
         /\ \A x \in Places(a) : \E k, p : x = <<k, p>>
<1>1. \A p : <<"pool", p>> \in Places(a) <=> p \in DOMAIN agent_pool /\ agent_pool[p] = a
  BY DEF Places
<1>2. \A p : <<"user", p>> \in Places(a) <=> p \in Uid /\ users[p].agent = a
  BY DEF Places
<1>3. \A p : <<"login", p>> \in Places(a) <=> p \in Uid /\ gagent[p] = a
  BY DEF Places
<1>4. \A p : <<"back", p>> \in Places(a) <=> p \in Task /\ job[p].back = a
  BY DEF Places
<1>5. \A k, p : <<k, p>> \in Places(a) => k \in {"pool", "user", "login", "back"}
  BY DEF Places
<1>6. \A x \in Places(a) : \E k, p : x = <<k, p>>
  BY DEF Places
<1>. QED  BY <1>1, <1>2, <1>3, <1>4, <1>5, <1>6 DEF Lies

LEMMA OnePlaceLies == OnePlace <=> AllOnce
<1>1. ASSUME NEW a \in Agent, \A x, y \in Places(a) : x = y PROVE LiesOnce(a)
  <2>. SUFFICES ASSUME NEW k, NEW p, NEW l, NEW r, Lies(k, p, a), Lies(l, r, a) PROVE k = l /\ p = r
    BY DEF LiesOnce
  <2>1. <<k, p>> \in Places(a) /\ <<l, r>> \in Places(a)
    BY PlacesLies
  <2>. QED  BY <1>1, <2>1
<1>2. ASSUME NEW a \in Agent, LiesOnce(a), NEW x \in Places(a), NEW y \in Places(a) PROVE x = y
  <2>1. PICK k, p : x = <<k, p>>
    BY PlacesLies
  <2>2. PICK l, r : y = <<l, r>>
    BY PlacesLies
  <2>3. Lies(k, p, a) /\ Lies(l, r, a)
    BY <2>1, <2>2, PlacesLies
  <2>. QED  BY <1>2, <2>1, <2>2, <2>3 DEF LiesOnce
<1>. QED  BY <1>1, <1>2 DEF OnePlace, AllOnce

LEMMA AgentExclusiveInv == OnePlace => AgentExclusive
<1>. SUFFICES ASSUME OnePlace, NEW a \in Agent PROVE Cardinality(Places(a)) <= 1
  BY DEF AgentExclusive
<1>1. CASE Places(a) = {}
  <2>1. Cardinality(Places(a)) = 0
    BY <1>1, FS_EmptySet
  <2>. QED  BY <2>1
<1>2. CASE Places(a) # {}
  <2>1. PICK x : x \in Places(a)
    BY <1>2
  <2>2. Places(a) = {x}
    BY <2>1 DEF OnePlace
  <2>3. Cardinality(Places(a)) = 1
    BY <2>2, FS_Singleton
  <2>. QED  BY <2>3
<1>. QED  BY <1>1, <1>2

\* An agent that only leaves places, or comes to one from nowhere else, is in
\* one place.
LEMMA LeavesPlaces ==
  ASSUME NEW a, LiesOnce(a), \A k, p : Lies(k, p, a)' => Lies(k, p, a)
  PROVE  LiesOnce(a)'
BY DEF LiesOnce

LEMMA ComesTo ==
  ASSUME NEW a, NEW l, NEW r, \A k, p : Lies(k, p, a)' => k = l /\ p = r
  PROVE  LiesOnce(a)'
BY DEF LiesOnce

-----------------------------------------------------------------------------
(* Types *)

\* What a step does to the commands on their way: the others are left alone, and
\* what the command of t has in hand afterwards is what it uses.
JobOK(j) ==
    /\ j \in Job
    /\ j.at # "none" => j.agent \in Agent
    /\ j.at = "gate" => j.uid \in Uid
    /\ j.at \in {"notify", "pool"} => j.back \in Agent
OthersJob(t) == \A s \in Task \ {t} : job'[s] = job[s]
Jobs == \A t \in Task : JobOK(job[t])

LEMMA NoJobOK == JobOK(NoJob) /\ NoJob \in Job /\ NoJob.at = "none" /\ NoJob.back = NoAgent
BY DEF JobOK, NoJob, Job, JobPoint, MaybeAgent

LEMMA JobsHand == TypeOK /\ InHand => Jobs
BY DEF TypeOK, InHand, Jobs, JobOK

LEMMA Enqueued ==
  ASSUME job \in [Task -> Job], NEW t \in Task, NEW a \in Agent, NEW n \in Nat, Enqueue(t, a, n)
  PROVE  /\ job' \in [Task -> Job] /\ OthersJob(t) /\ JobOK(job'[t])
         /\ job'[t].back = NoAgent /\ job'[t].at = "wait"
<1>1. job' = [job EXCEPT ![t] = [NoJob EXCEPT !.at = "wait", !.agent = a, !.sub = n]]
  BY DEF Enqueue
<1>. DEFINE r == [NoJob EXCEPT !.at = "wait", !.agent = a, !.sub = n]
<1>2. r \in Job /\ r.at = "wait" /\ r.agent = a /\ r.back = NoAgent
  BY NoJobOK DEF Job, JobPoint, MaybeAgent
<1>. HIDE DEF r
<1>3. job'[t] = r /\ OthersJob(t)
  BY <1>1 DEF r, OthersJob
<1>4. job' \in [Task -> Job]
  BY <1>1, <1>2 DEF r
<1>. QED  BY <1>2, <1>3, <1>4 DEF JobOK

LEMMA Finished ==
  ASSUME job \in [Task -> Job], NEW t \in Task, Finish(t)
  PROVE  job' \in [Task -> Job] /\ OthersJob(t) /\ job'[t] = NoJob
<1>1. job' = [job EXCEPT ![t] = NoJob]
  BY DEF Finish
<1>. QED  BY <1>1, NoJobOK DEF OthersJob

LEMMA Answered ==
  ASSUME TypeOK, InHand, NEW t \in Task, job[t].at # "none", Answer(t)
  PROVE  job' \in [Task -> Job] /\ OthersJob(t) /\ JobOK(job'[t]) /\ job'[t].back = NoAgent
<1>1. job[t].agent \in Agent /\ job[t] \in Job /\ job \in [Task -> Job]
  BY DEF InHand, TypeOK
<1>2. session[job[t].agent][1] \in Uid \cup {NoUid}
  BY <1>1 DEF TypeOK, NoSession
<1>. PICK u \in Uid \cup {NoUid} : u = session[job[t].agent][1]
  BY <1>2
<1>3. job' = [job EXCEPT ![t] = [job[t] EXCEPT !.at = "unload", !.uid = u, !.back = NoAgent]]
  BY DEF Answer
<1>4. job'[t] = [job[t] EXCEPT !.at = "unload", !.uid = u, !.back = NoAgent] /\ OthersJob(t)
  BY <1>1, <1>3 DEF OthersJob
<1>5. job'[t] \in Job /\ job'[t].agent \in Agent /\ job'[t].at = "unload" /\ job'[t].back = NoAgent
  BY <1>1, <1>4 DEF Job, JobPoint, MaybeAgent
<1>6. job' \in [Task -> Job]
  BY <1>1, <1>3, <1>4, <1>5
<1>. QED  BY <1>4, <1>5, <1>6 DEF JobOK

\* The steps of a command, and what they do to the agent it sends back.
LEMMA TaskJob ==
  ASSUME TypeOK, InHand, NEW t \in Task, TaskStep(t)
  PROVE  /\ job' \in [Task -> Job] /\ OthersJob(t) /\ JobOK(job'[t])
         /\ \/ job'[t].back \in {NoAgent, job[t].back}
            \/ GateLogout(t) /\ users[job[t].uid] # NoUser /\ job'[t].back = users[job[t].uid].agent
<1>0. job \in [Task -> Job] /\ job[t] \in Job /\ JobOK(job[t])
  BY JobsHand DEF TypeOK, Jobs
<1>1. ASSUME NEW p \in JobPoint \ {"none", "gate", "notify"},
             job' = [job EXCEPT ![t].at = p], job[t].at # "none", p = "pool" => job[t].at = "notify"
      PROVE  job' \in [Task -> Job] /\ OthersJob(t) /\ JobOK(job'[t]) /\ job'[t].back = job[t].back
  <2>1. job'[t] = [job[t] EXCEPT !.at = p] /\ OthersJob(t)
    BY <1>0, <1>1 DEF OthersJob
  <2>2. job'[t] \in Job /\ job'[t].at = p /\ job'[t].agent = job[t].agent /\ job'[t].back = job[t].back
    BY <1>0, <2>1 DEF Job
  <2>3. job' \in [Task -> Job]
    BY <1>0, <1>1, <2>1, <2>2
  <2>. QED  BY <1>0, <1>1, <2>1, <2>2, <2>3 DEF JobOK
<1>2. CASE RunLogin(t) \/ RunAuth(t) \/ Clear(t)
  BY <1>0, <1>2, Finished, NoJobOK DEF RunLogin, RunAuth, Clear
<1>3. CASE RunLogout(t) \/ MasterLogout(t) \/ Unload(t)
  BY <1>1, <1>3 DEF RunLogout, MasterLogout, Unload, Runs, JobPoint
<1>4. CASE CallGate(t)
  <2>. PICK s \in (Uid \X Nat) \cup {NoSession} : s = session[job[t].agent]
    BY <1>0, <1>4 DEF CallGate, Runs, JobOK, TypeOK
  <2>1. CASE s = NoSession
    <3>1. job' = [job EXCEPT ![t] = [job[t] EXCEPT !.at = "unload", !.uid = NoUid]]
      BY <1>4, <2>1 DEF CallGate
    <3>2. job'[t] = [job[t] EXCEPT !.at = "unload", !.uid = NoUid] /\ OthersJob(t)
      BY <1>0, <3>1 DEF OthersJob
    <3>3. /\ job'[t] \in Job /\ job'[t].at = "unload"
          /\ job'[t].agent = job[t].agent /\ job'[t].back = job[t].back
      BY <1>0, <3>2 DEF Job, JobPoint
    <3>4. job' \in [Task -> Job]
      BY <1>0, <3>1, <3>2, <3>3
    <3>. QED  BY <1>0, <1>4, <3>2, <3>3, <3>4 DEF JobOK, CallGate, Runs
  <2>2. CASE s # NoSession
    <3>0. s[1] \in Uid /\ s[2] \in Nat
      BY <2>2
    <3>1. job' = [job EXCEPT ![t] = [job[t] EXCEPT !.at = "gate", !.uid = s[1], !.sub = s[2]]]
      BY <1>4, <2>2 DEF CallGate
    <3>2. job'[t] = [job[t] EXCEPT !.at = "gate", !.uid = s[1], !.sub = s[2]] /\ OthersJob(t)
      BY <1>0, <3>1 DEF OthersJob
    <3>3. /\ job'[t] \in Job /\ job'[t].at = "gate" /\ job'[t].uid = s[1]
          /\ job'[t].agent = job[t].agent /\ job'[t].back = job[t].back
      BY <1>0, <3>0, <3>2 DEF Job, JobPoint
    <3>4. job' \in [Task -> Job]
      BY <1>0, <3>1, <3>2, <3>3
    <3>. QED  BY <1>0, <1>4, <3>0, <3>2, <3>3, <3>4 DEF JobOK, CallGate, Runs
  <2>. QED  BY <2>1, <2>2
<1>5. CASE PoolInsert(t)
  BY <1>5, Answered DEF PoolInsert
<1>6. CASE GateLogout(t)
  <2>. PICK u \in Uid : u = job[t].uid
    BY <1>0, <1>6 DEF GateLogout, JobOK
  <2>1. CASE users[u] = NoUser
    BY <1>6, <2>1, Answered DEF GateLogout
  <2>2. CASE users[u] # NoUser /\ users[u].sub # job[t].sub
    BY <1>0, <1>6, <2>2, Finished, NoJobOK DEF GateLogout
  <2>3. CASE users[u] # NoUser /\ users[u].sub = job[t].sub
    <3>0. users[u].agent \in Agent
      BY <2>3 DEF TypeOK
    <3>1. job' = [job EXCEPT ![t].at = "notify", ![t].back = users[u].agent]
      BY <1>6, <2>3 DEF GateLogout
    <3>2. job'[t] = [job[t] EXCEPT !.at = "notify", !.back = users[u].agent] /\ OthersJob(t)
      BY <1>0, <3>1 DEF OthersJob
    <3>3. /\ job'[t] \in Job /\ job'[t].at = "notify" /\ job'[t].back = users[u].agent
          /\ job'[t].agent = job[t].agent
      BY <1>0, <3>0, <3>2 DEF Job, JobPoint, MaybeAgent
    <3>4. job' \in [Task -> Job]
      BY <1>0, <3>1, <3>2, <3>3
    <3>. QED  BY <1>0, <1>6, <2>3, <3>0, <3>2, <3>3, <3>4 DEF JobOK, GateLogout
  <2>. QED  BY <2>1, <2>2, <2>3
<1>. QED  BY <1>2, <1>3, <1>4, <1>5, <1>6 DEF TaskStep

LEMMA PoolEnd ==
  ASSUME TypeOK, agent_pool # <<>>
  PROVE  LET n == Len(agent_pool) IN
         /\ n \in DOMAIN agent_pool /\ agent_pool[n] \in Agent
         /\ SubSeq(agent_pool, 1, n - 1) \in Seq(Agent)
         /\ DOMAIN SubSeq(agent_pool, 1, n - 1) = DOMAIN agent_pool \ {n}
         /\ \A i \in DOMAIN agent_pool \ {n} : SubSeq(agent_pool, 1, n - 1)[i] = agent_pool[i]
<1>1. agent_pool \in Seq(Agent) /\ Len(agent_pool) \in Nat \ {0} /\ DOMAIN agent_pool = 1..Len(agent_pool)
  BY DEF TypeOK
<1>. QED  BY <1>1

\* A step for a player sends at most one command, and none that brings an agent
\* back.
LEMMA UserJob ==
  ASSUME TypeOK, InHand, NEW u \in Uid, MasterStep(u) \/ GateStep(u) \/ PlayerStep(u)
  PROVE  \/ job' = job
         \/ \E t \in Task : job' \in [Task -> Job] /\ OthersJob(t) /\ JobOK(job'[t]) /\ job'[t].back = NoAgent
<1>. USE DEF TypeOK
<1>0. /\ \A k \in Kind : <<u, k>> \in Task
      /\ users[u] # NoUser => users[u].agent \in Agent
      /\ users[u].sub # 0 => users[u] # NoUser
  BY DEF Task, NoUser
<1>1. ASSUME NEW k \in Kind, NEW a \in Agent, NEW n \in Nat, Enqueue(<<u, k>>, a, n)
      PROVE  \E t \in Task : job' \in [Task -> Job] /\ OthersJob(t) /\ JobOK(job'[t]) /\ job'[t].back = NoAgent
  BY <1>0, <1>1, Enqueued
<1>2. CASE Kick(u)
  BY <1>0, <1>1, <1>2 DEF Kick, Kind
<1>3. CASE Login(u)
  <2>1. CASE job' = job
    BY <2>1
  <2>2. CASE job' # job
    <3>1. agent_pool # <<>> /\ Enqueue(<<u, "login">>, agent_pool[Len(agent_pool)], internal_id + 1)
      BY <1>3, <2>2 DEF Login
    <3>2. agent_pool[Len(agent_pool)] \in Agent /\ internal_id + 1 \in Nat /\ "login" \in Kind
      BY <3>1, PoolEnd DEF Kind
    <3>. QED  BY <1>1, <3>1, <3>2
  <2>. QED  BY <2>1, <2>2
<1>4. CASE NewAgent(u)
  BY <1>1, <1>4 DEF NewAgent, Kind
<1>5. CASE Connect(u) \/ Disconnect(u)
  BY <1>0, <1>1, <1>5 DEF Connect, Disconnect, Kind
<1>6. CASE ClientLogout(u)
  <2>1. users[u].agent \in Agent
    BY <1>0, <1>6 DEF ClientLogout
  <2>. PICK t \in Task : t = <<u, "client">>
    BY <1>0 DEF Kind
  <2>. DEFINE r == [NoJob EXCEPT !.at = "offline", !.agent = users[u].agent]
  <2>2. r \in Job /\ r.at = "offline" /\ r.agent = users[u].agent /\ r.back = NoAgent
    BY <2>1, NoJobOK DEF Job, JobPoint, MaybeAgent
  <2>3. job' = [job EXCEPT ![t] = r]
    BY <1>6 DEF ClientLogout
  <2>. HIDE DEF r
  <2>4. job'[t] = r /\ OthersJob(t) /\ job' \in [Task -> Job]
    BY <2>2, <2>3 DEF OthersJob
  <2>. QED  BY <2>1, <2>2, <2>4 DEF JobOK
<1>. QED
  BY <1>2, <1>3, <1>4, <1>5, <1>6
  DEF MasterStep, GateStep, PlayerStep, Accept, Recheck, LoginReply, Forget, Kicked, LoginReturn, agentVars

LEMMA JobsNext ==
  ASSUME TypeOK, InHand, Next
  PROVE  job' \in [Task -> Job] /\ Jobs'
<1>0. job \in [Task -> Job] /\ Jobs
  BY JobsHand DEF TypeOK
<1>1. ASSUME NEW t \in Task, job' \in [Task -> Job], OthersJob(t), JobOK(job'[t])
      PROVE  job' \in [Task -> Job] /\ Jobs'
  BY <1>0, <1>1 DEF Jobs, OthersJob, JobOK
<1>2. CASE Crash
  <2>1. job' = [t \in Task |-> NoJob]
    BY <1>2 DEF Crash
  <2>. QED  BY <2>1, NoJobOK DEF Jobs, JobOK
<1>3. ASSUME NEW t \in Task, TaskStep(t) PROVE job' \in [Task -> Job] /\ Jobs'
  BY <1>1, <1>3, TaskJob
<1>4. ASSUME NEW u \in Uid, MasterStep(u) \/ GateStep(u) \/ PlayerStep(u) PROVE job' \in [Task -> Job] /\ Jobs'
  <2>1. CASE job' = job
    BY <1>0, <2>1 DEF Jobs, JobOK
  <2>. QED  BY <1>1, <1>4, <2>1, UserJob
<1>. QED  BY <1>2, <1>3, <1>4 DEF Next

LEMMA TypeNext ==
  ASSUME TypeOK, InHand, Next
  PROVE  TypeOK' /\ InHand'
<1>0. job' \in [Task -> Job] /\ Jobs'
  BY JobsNext
<1>. DEFINE Gate == /\ users' \in [Uid -> {NoUser} \cup [sub : Nat, agent : Agent]]
                    /\ internal_id' \in Nat
                    /\ agent_pool' \in Seq(Agent)
                    /\ gpc' \in [Uid -> {"idle", "new", "call"}]
                    /\ gname' \in [Uid -> Nat]
                    /\ gagent' \in [Uid -> MaybeAgent]
                    /\ \A u \in Uid : gpc'[u] = "call" => gagent'[u] \in Agent
            Sess == session' \in [Agent -> (Uid \X Nat) \cup {NoSession}] /\ inst' \in Instances
<1>. SUFFICES Gate /\ Sess
  BY <1>0 DEF TypeOK, InHand, Jobs, JobOK
<1>. USE DEF TypeOK, InHand, gateVars, loginVars, agentVars, playerVars, masterVars, MaybeAgent
<1>1. CASE Crash
  <2>1. inst.pool \in Seq(Agent)
    BY InstancesAssumption
  <2>2. 0 \in Nat /\ NoUser \in {NoUser} \cup [sub : Nat, agent : Agent]
    OBVIOUS
  <2>. QED  BY <1>1, <2>1, <2>2 DEF Crash
<1>2. ASSUME UNCHANGED <<users, internal_id, agent_pool, gpc, gname, gagent>> PROVE Gate
  BY <1>2
<1>3. ASSUME UNCHANGED <<session, inst>> PROVE Sess
  BY <1>3
<1>4. ASSUME NEW t \in Task, TaskStep(t) PROVE Gate /\ Sess
  <2>0. JobOK(job[t]) /\ t[1] \in Uid /\ job[t] \in Job
    BY JobsHand DEF Jobs, Task
  <2>1. CASE RunLogin(t)
    <3>1. <<t[1], job[t].sub>> \in Uid \X Nat /\ job[t].agent \in Agent
      BY <2>0, <2>1 DEF RunLogin, Runs, JobOK, Job
    <3>. QED  BY <1>2, <2>1, <3>1 DEF RunLogin
  <2>2. CASE Clear(t)
    BY <1>2, <2>2 DEF Clear
  <2>3. CASE PoolInsert(t)
    <3>1. job[t].back \in Agent
      BY <2>0, <2>3 DEF PoolInsert, JobOK
    <3>. QED  BY <1>3, <2>3, <3>1 DEF PoolInsert
  <2>4. CASE GateLogout(t)
    <3>1. users' = users \/ users' = [users EXCEPT ![job[t].uid] = NoUser]
      BY <2>4 DEF GateLogout
    <3>. QED  BY <1>3, <2>4, <3>1 DEF GateLogout
  <2>. QED
    BY <1>2, <1>3, <1>4, <2>1, <2>2, <2>3, <2>4
    DEF TaskStep, RunAuth, RunLogout, CallGate, MasterLogout, Unload
<1>5. ASSUME NEW u \in Uid, Login(u) PROVE Gate /\ Sess
  <2>1. internal_id + 1 \in Nat
    OBVIOUS
  <2>2. CASE agent_pool # <<>> /\ users[u] = NoUser
    <3>1. agent_pool[Len(agent_pool)] \in Agent /\ SubSeq(agent_pool, 1, Len(agent_pool) - 1) \in Seq(Agent)
      BY <2>2, PoolEnd
    <3>2. /\ agent_pool' = SubSeq(agent_pool, 1, Len(agent_pool) - 1)
          /\ gagent' = [gagent EXCEPT ![u] = agent_pool[Len(agent_pool)]]
          /\ internal_id' = internal_id + 1 /\ gname' = [gname EXCEPT ![u] = internal_id + 1]
          /\ gpc' = [gpc EXCEPT ![u] = "call"]
          /\ UNCHANGED <<users, session, inst>>
      BY <1>5, <2>2 DEF Login
    <3>. QED  BY <1>3, <2>1, <3>1, <3>2
  <2>3. CASE ~(agent_pool # <<>> /\ users[u] = NoUser)
    <3>1. UNCHANGED <<users, agent_pool, gagent>>
      BY <1>5, <2>3 DEF Login
    <3>2. internal_id' \in {internal_id, internal_id + 1}
      BY <1>5, <2>3 DEF Login
    <3>3. gname' = gname \/ gname' = [gname EXCEPT ![u] = internal_id + 1]
      BY <1>5, <2>3 DEF Login
    <3>4. gpc' = gpc \/ gpc' = [gpc EXCEPT ![u] = "new"]
      BY <1>5, <2>3 DEF Login
    <3>. QED  BY <1>3, <1>5, <2>1, <3>1, <3>2, <3>3, <3>4 DEF Login
  <2>. QED  BY <2>2, <2>3
<1>6. ASSUME NEW u \in Uid, NewAgent(u) PROVE Gate /\ Sess
  BY <1>3, <1>6 DEF NewAgent
<1>7. ASSUME NEW u \in Uid, LoginReturn(u) PROVE Gate /\ Sess
  <2>1. gagent[u] \in Agent /\ gname[u] \in Nat
    BY <1>7 DEF LoginReturn
  <2>. QED  BY <1>3, <1>7, <2>1 DEF LoginReturn
<1>. QED
  BY <1>1, <1>2, <1>3, <1>4, <1>5, <1>6, <1>7
  DEF Next, MasterStep, GateStep, PlayerStep, Accept, Recheck, LoginReply, Forget, Kicked, Kick, Connect,
     Disconnect, ClientLogout

-----------------------------------------------------------------------------
(* One place *)

BackShrinks == \A t \in Task : job'[t].back \in {job[t].back, NoAgent}

\* Agents at the gate stay where they are, those on their way back may vanish.
LEMMA StayPut ==
  ASSUME OnePlace, BackShrinks, UNCHANGED <<agent_pool, users, gagent>>
  PROVE  OnePlace'
<1>1. ASSUME NEW a \in Agent PROVE \A k, p : Lies(k, p, a)' => Lies(k, p, a)
  BY AgentAssumption DEF Lies, BackShrinks
<1>2. \A a \in Agent : LiesOnce(a)'
  BY <1>1, OnePlaceLies, LeavesPlaces DEF AllOnce
<1>3. OnePlace' <=> AllOnce'
  BY OnePlaceLies, PTL
<1>. QED  BY <1>2, <1>3 DEF AllOnce

LEMMA UserBack ==
  ASSUME TypeOK, InHand, NEW u \in Uid, MasterStep(u) \/ GateStep(u) \/ PlayerStep(u)
  PROVE  BackShrinks
BY UserJob DEF BackShrinks, OthersJob

LEMMA OnePlaceNext ==
  ASSUME TypeOK, InHand, OnePlace, Next
  PROVE  OnePlace'
<1>0. \A a \in Agent : LiesOnce(a)
  BY OnePlaceLies DEF AllOnce
<1>. SUFFICES ASSUME NEW a \in Agent, ~UNCHANGED <<agent_pool, users, gagent>> \/ ~BackShrinks
              PROVE  LiesOnce(a)'
  <2>1. OnePlace' <=> AllOnce'
    BY OnePlaceLies, PTL
  <2>. QED  BY <2>1, StayPut DEF AllOnce
<1>1. ASSUME \A k, p : Lies(k, p, a)' => Lies(k, p, a) PROVE LiesOnce(a)'
  BY <1>0, <1>1, LeavesPlaces
<1>2. ASSUME NEW k0, NEW p0, Lies(k0, p0, a), NEW k1, NEW p1,
             \A k, p : Lies(k, p, a)' => (Lies(k, p, a) /\ (k # k0 \/ p # p0)) \/ (k = k1 /\ p = p1)
      PROVE  LiesOnce(a)'
  <2>1. \A k, p : Lies(k, p, a) => k = k0 /\ p = p0
    BY <1>0, <1>2 DEF LiesOnce
  <2>2. \A k, p : Lies(k, p, a)' => k = k1 /\ p = p1
    BY <1>2, <2>1
  <2>. QED  BY <2>2, ComesTo
<1>3. CASE Crash
  <2>1. /\ agent_pool' = inst.pool /\ users' = [u \in Uid |-> NoUser]
        /\ gagent' = [u \in Uid |-> NoAgent] /\ job' = [t \in Task |-> NoJob]
    BY <1>3 DEF Crash
  <2>2. \A k, p : Lies(k, p, a)' => k = "pool" /\ p \in DOMAIN inst.pool /\ inst.pool[p] = a
    BY <2>1, AgentAssumption DEF Lies, NoUser, NoJob
  <2>3. inst \in Instances
    BY DEF TypeOK
  <2>. QED  BY <2>2, <2>3, InstancesAssumption DEF LiesOnce
<1>4. ASSUME NEW u \in Uid, Login(u) PROVE LiesOnce(a)'
  <2>0. UNCHANGED users /\ BackShrinks
    BY <1>4, UserBack DEF Login, GateStep
  <2>. DEFINE n == Len(agent_pool)
  <2>1. /\ agent_pool # <<>> /\ agent_pool' = SubSeq(agent_pool, 1, n - 1)
        /\ gagent' = [gagent EXCEPT ![u] = agent_pool[n]]
    BY <1>4, <2>0 DEF Login
  <2>2. n \in DOMAIN agent_pool /\ DOMAIN agent_pool' = DOMAIN agent_pool \ {n}
        /\ \A i \in DOMAIN agent_pool' : agent_pool'[i] = agent_pool[i]
    BY <2>1, PoolEnd
  <2>. HIDE DEF n
  <2>3. \A k, p : Lies(k, p, a)' => (Lies(k, p, a) /\ (k # "pool" \/ p # n)) \/ (k = "login" /\ p = u /\ a = agent_pool[n])
    BY <2>0, <2>1, <2>2, AgentAssumption DEF Lies, BackShrinks, TypeOK
  <2>4. CASE a = agent_pool[n]
    <3>1. Lies("pool", n, a)
      BY <2>2, <2>4 DEF Lies
    <3>. QED  BY <1>2, <2>3, <3>1
  <2>5. CASE a # agent_pool[n]
    BY <1>1, <2>3, <2>5
  <2>. QED  BY <2>4, <2>5
<1>5. ASSUME NEW u \in Uid, NewAgent(u) PROVE LiesOnce(a)'
  <2>0. UNCHANGED <<agent_pool, users>> /\ BackShrinks
    BY <1>5, UserBack DEF NewAgent, GateStep
  <2>. PICK b \in Agent : Places(b) = {} /\ gagent' = [gagent EXCEPT ![u] = b]
    BY <1>5 DEF NewAgent
  <2>1. \A k, p : ~Lies(k, p, b)
    BY PlacesLies
  <2>2. \A k, p : Lies(k, p, a)' => Lies(k, p, a) \/ (k = "login" /\ p = u /\ a = b)
    BY <2>0, AgentAssumption DEF Lies, BackShrinks, TypeOK
  <2>3. CASE a = b
    <3>1. \A k, p : Lies(k, p, a)' => k = "login" /\ p = u
      BY <2>1, <2>2, <2>3
    <3>. QED  BY <3>1, ComesTo
  <2>4. CASE a # b
    BY <1>1, <2>2, <2>4
  <2>. QED  BY <2>3, <2>4
<1>6. ASSUME NEW u \in Uid, LoginReturn(u) PROVE LiesOnce(a)'
  <2>0. UNCHANGED agent_pool /\ BackShrinks
    BY <1>6, UserBack DEF LoginReturn, GateStep
  <2>1. /\ users' = [users EXCEPT ![u] = [sub |-> gname[u], agent |-> gagent[u]]]
        /\ gagent' = [gagent EXCEPT ![u] = NoAgent]
    BY <1>6 DEF LoginReturn
  <2>2. \A k, p : Lies(k, p, a)' => (Lies(k, p, a) /\ (k # "login" \/ p # u)) \/ (k = "user" /\ p = u /\ a = gagent[u])
    BY <2>0, <2>1, AgentAssumption DEF Lies, BackShrinks, TypeOK
  <2>3. CASE a = gagent[u]
    <3>1. Lies("login", u, a)
      BY <2>3 DEF Lies
    <3>. QED  BY <1>2, <2>2, <3>1
  <2>4. CASE a # gagent[u]
    BY <1>1, <2>2, <2>4
  <2>. QED  BY <2>3, <2>4
<1>7. ASSUME NEW t \in Task, PoolInsert(t) PROVE LiesOnce(a)'
  <2>0. UNCHANGED <<users, gagent>> /\ job[t].at = "pool"
    BY <1>7 DEF PoolInsert, loginVars
  <2>1. OthersJob(t) /\ job'[t].back = NoAgent /\ job[t].back \in Agent
    BY <1>7, <2>0, Answered DEF PoolInsert, InHand
  <2>. DEFINE n == Len(agent_pool) + 1
  <2>2. /\ DOMAIN agent_pool' = DOMAIN agent_pool \cup {n} /\ n \notin DOMAIN agent_pool
        /\ agent_pool'[n] = job[t].back
        /\ \A i \in DOMAIN agent_pool : agent_pool'[i] = agent_pool[i]
    <3>1. agent_pool \in Seq(Agent) /\ agent_pool' = Append(agent_pool, job[t].back)
      BY <1>7 DEF PoolInsert, TypeOK
    <3>. QED  BY <2>1, <3>1
  <2>. HIDE DEF n
  <2>3. \A k, p : Lies(k, p, a)' => (Lies(k, p, a) /\ (k # "back" \/ p # t)) \/ (k = "pool" /\ p = n /\ a = job[t].back)
    BY <2>0, <2>1, <2>2, AgentAssumption DEF Lies, OthersJob
  <2>4. CASE a = job[t].back
    <3>1. Lies("back", t, a)
      BY <2>4 DEF Lies
    <3>. QED  BY <1>2, <2>3, <3>1
  <2>5. CASE a # job[t].back
    BY <1>1, <2>3, <2>5
  <2>. QED  BY <2>4, <2>5
<1>8. ASSUME NEW t \in Task, GateLogout(t) PROVE LiesOnce(a)'
  <2>0. UNCHANGED <<agent_pool, gagent>> /\ TaskStep(t)
    BY <1>8 DEF GateLogout, loginVars, TaskStep
  <2>. PICK u \in Uid : u = job[t].uid
    BY <1>8 DEF GateLogout, InHand
  <2>1. CASE users' = users
    <3>1. users[u] # NoUser => job'[t] = NoJob
      BY <1>8, <2>1, Finished DEF GateLogout, TypeOK, NoUser
    <3>2. BackShrinks
      BY <2>0, <3>1, TaskJob, NoJobOK DEF BackShrinks, OthersJob
    <3>. QED  BY <1>1, <2>0, <2>1, <3>2
  <2>2. CASE users' # users
    <3>0. /\ users' = [users EXCEPT ![u] = NoUser]
          /\ job' = [job EXCEPT ![t].at = "notify", ![t].back = users[u].agent]
      BY <1>8, <2>2 DEF GateLogout
    <3>1. users' = [users EXCEPT ![u] = NoUser] /\ job'[t].back = users[u].agent /\ OthersJob(t)
      BY <3>0 DEF TypeOK, Job, OthersJob
    <3>2. \A k, p : Lies(k, p, a)' => (Lies(k, p, a) /\ (k # "user" \/ p # u)) \/ (k = "back" /\ p = t /\ a = users[u].agent)
      BY <2>0, <3>1, AgentAssumption DEF Lies, OthersJob, TypeOK, NoUser
    <3>3. CASE a = users[u].agent
      <4>1. Lies("user", u, a)
        BY <3>3 DEF Lies
      <4>. QED  BY <1>2, <3>2, <4>1
    <3>4. CASE a # users[u].agent
      BY <1>1, <3>2, <3>4
    <3>. QED  BY <3>3, <3>4
  <2>. QED  BY <2>1, <2>2
<1>9. ASSUME NEW t \in Task, TaskStep(t) PROVE LiesOnce(a)'
  <2>1. CASE ~GateLogout(t) /\ ~PoolInsert(t)
    <3>1. BackShrinks
      BY <1>9, <2>1, TaskJob DEF BackShrinks, OthersJob
    <3>2. UNCHANGED <<agent_pool, users, gagent>>
      BY <1>9, <2>1 DEF TaskStep, RunLogin, RunAuth, RunLogout, CallGate, MasterLogout, Unload, Clear,
         gateVars, loginVars
    <3>. QED  BY <3>1, <3>2
  <2>. QED  BY <1>7, <1>8, <2>1
<1>10. ASSUME NEW u \in Uid, MasterStep(u) \/ GateStep(u) \/ PlayerStep(u) PROVE LiesOnce(a)'
  <2>1. CASE ~Login(u) /\ ~NewAgent(u) /\ ~LoginReturn(u)
    <3>1. UNCHANGED <<agent_pool, users, gagent>>
      BY <1>10, <2>1 DEF MasterStep, GateStep, PlayerStep, Accept, Recheck, LoginReply, Forget, Kicked,
         Kick, Connect, Disconnect, ClientLogout, gateVars, loginVars
    <3>. QED  BY <1>10, <3>1, UserBack
  <2>. QED  BY <1>4, <1>5, <1>6, <2>1
<1>. QED  BY <1>3, <1>9, <1>10 DEF Next

-----------------------------------------------------------------------------
LEMMA InitIInv == Init => IInv
<1>. SUFFICES ASSUME Init PROVE IInv
  OBVIOUS
<1>1. /\ inst.pool \in Seq(Agent)
      /\ \A i, j \in DOMAIN inst.pool : inst.pool[i] = inst.pool[j] => i = j
  BY InstancesAssumption DEF Init
<1>2. job = [t \in Task |-> NoJob] /\ users = [u \in Uid |-> NoUser] /\ gagent = [u \in Uid |-> NoAgent]
  BY DEF Init
<1>3. TypeOK
  BY <1>1, <1>2, NoJobOK DEF Init, TypeOK, MaybeAgent
<1>4. InHand
  BY <1>2, NoJobOK DEF Init, InHand, NoJob
<1>5. \A a \in Agent : \A k, p : Lies(k, p, a) => k = "pool" /\ p \in DOMAIN inst.pool /\ inst.pool[p] = a
  BY <1>2, AgentAssumption DEF Init, Lies, NoUser, NoJob
<1>6. OnePlace
  BY <1>1, <1>5, OnePlaceLies DEF AllOnce, LiesOnce
<1>. QED  BY <1>3, <1>4, <1>6 DEF IInv

LEMMA NextIInv == IInv /\ [Next]_vars => IInv'
<1>. SUFFICES ASSUME IInv, [Next]_vars PROVE IInv'
  OBVIOUS
<1>1. CASE Next
  BY <1>1, TypeNext, OnePlaceNext DEF IInv
<1>2. CASE UNCHANGED vars
  <2>. USE <1>2 DEF IInv, vars, gateVars, loginVars, agentVars, playerVars
  <2>1. TypeOK' /\ InHand'
    BY DEF TypeOK, InHand
  <2>2. OnePlace'
    BY DEF OnePlace, Places
  <2>. QED  BY <2>1, <2>2
<1>. QED  BY <1>1, <1>2

\* An agent is in one place: no two players share one, none is in the pool twice
\* or in the pool and with a player, for any number of players and agents, with
\* user_logout or without, and through every crash of the game server.
THEOREM AgentInOnePlace == Spec => []AgentExclusive
<1>1. IInv => AgentExclusive
  BY AgentExclusiveInv DEF IInv
<1>. QED  BY <1>1, InitIInv, NextIInv, PTL DEF Spec

-----------------------------------------------------------------------------
(* One player, without user_logout *)

LoginPoint == {"idle", "kick", "forget", "kicking", "recheck", "login", "logging", "reply"}
MasterTypes ==
    /\ lpc \in [Uid -> LoginPoint]
    /\ online \in [Uid -> Nat] /\ ksub \in [Uid -> Nat] /\ reply \in [Uid -> Nat]
    /\ cs \in [Agent -> Seq(Task)]

\* Nothing goes on for anybody else, and only logouts get beyond their start.
Alone(p) ==
    /\ \A u \in Uid \ {p} : lpc[u] = "idle" /\ gpc[u] = "idle" /\ users[u] = NoUser
    /\ \A t \in Task : ~Idle(t) => t[1] = p /\ t[2] # "client"
    /\ \A t \in Task : t[2] \in {"login", "auth"} => job[t].at \in {"none", "wait"}

\* The queue of an agent holds the commands sent to it, each once; one that has
\* started is at the head.
Queued ==
    /\ \A a \in Agent : \A k \in DOMAIN cs[a] : ~Idle(cs[a][k]) /\ job[cs[a][k]].agent = a
    /\ \A a \in Agent : \A k, l \in DOMAIN cs[a] : cs[a][k] = cs[a][l] => k = l
    /\ \A t \in Task : ~Idle(t) => \E k \in DOMAIN cs[job[t].agent] : cs[job[t].agent][k] = t
    /\ \A t \in Task : job[t].at \notin {"none", "wait"} => cs[job[t].agent][1] = t

\* The calls between the services: who waits for an answer.
Calls(p) ==
    /\ ~Idle(<<p, "kick">>) => lpc[p] = "kicking"
    /\ ~Idle(<<p, "login">>) => gpc[p] = "call"
    /\ gpc[p] # "idle" <=> lpc[p] = "logging"

\* A login at the gate: its command is the last one of its agent, and leaves the
\* agent with the session and nothing else to do.
LoginCall(p) ==
    /\ gpc[p] # "idle" => gname[p] = internal_id /\ internal_id # 0
    /\ gpc[p] = "call" =>
         LET q == cs[gagent[p]]
             l == job[<<p, "login">>]
         IN  \/ l.at = "wait" /\ l.agent = gagent[p] /\ l.sub = gname[p] /\ q[Len(q)] = <<p, "login">>
             \/ l.at = "none" /\ session[gagent[p]] = <<p, gname[p]>> /\ q = <<>>

Leaving == {"notify", "pool", "unload", "clear"}
Fits(t) == session[job[t].agent] = <<job[t].uid, job[t].sub>> /\ session[job[t].agent] # NoSession
\* The agent of a session serves the player; an agent that serves anybody is the
\* agent of the session, of the login under way, or is leaving.
Serves(p) ==
    /\ users[p] # NoUser =>
         /\ users[p].sub # 0 /\ session[users[p].agent] = <<p, users[p].sub>>
         /\ \A t \in Task : job[t].agent = users[p].agent => job[t].at \notin Leaving
    /\ \A t \in Task : job[t].at = "gate" => Fits(t)
    /\ \A a \in Agent : session[a] # NoSession =>
         \/ users[p] # NoUser /\ users[p].agent = a
         \/ gpc[p] = "call" /\ gagent[p] = a /\ Idle(<<p, "login">>)
         \/ cs[a] # <<>> /\ job[cs[a][1]].at \in Leaving

Notifies(t) == job[t].at = "notify"
\* What the master knows, and what the gate is about to tell it.
Knows(p) ==
    /\ users[p] # NoUser =>
         /\ \/ lpc[p] = "reply" /\ reply[p] = users[p].sub
            \/ lpc[p] \in {"idle", "kick", "kicking"} /\ online[p] = users[p].sub
         /\ lpc[p] = "kick" => ksub[p] = users[p].sub
         /\ lpc[p] = "kicking" =>
              ~Idle(<<p, "kick">>) /\ job[<<p, "kick">>].agent = users[p].agent
    /\ lpc[p] = "reply" => reply[p] # 0
    /\ \A t \in Task : Notifies(t) =>
         /\ users[p] = NoUser
         /\ lpc[p] \notin {"recheck", "login", "logging"}
         /\ lpc[p] = "idle" => online[p] # 0
         /\ lpc[p] = "kicking" /\ t # <<p, "kick">> =>
              job[<<p, "kick">>].at = "wait" /\ job[<<p, "kick">>].agent = job[t].agent

\* The connection from the gate to the master: a logout of an agent, and after it
\* one of kick_handler.
Channel(p) ==
    LET last == IF lpc[p] = "forget" THEN <<<<p, "forget">>>> ELSE <<>> IN
    \/ chan = last /\ \A t \in Task : ~Notifies(t)
    \/ \E t \in Task : /\ chan = <<t>> \o last /\ Notifies(t)
                       /\ \A s \in Task : Notifies(s) => s = t

SInv(p) == MasterTypes /\ Alone(p) /\ Queued /\ Calls(p) /\ LoginCall(p) /\ Serves(p) /\ Knows(p) /\ Channel(p)

-----------------------------------------------------------------------------
(* The queues *)

LEMMA QueuedEnqueue ==
  ASSUME job \in [Task -> Job], cs \in [Agent -> Seq(Task)], Queued,
         NEW t \in Task, NEW a \in Agent, NEW n \in Nat, Idle(t), Enqueue(t, a, n)
  PROVE  /\ Queued' /\ cs' \in [Agent -> Seq(Task)] /\ OthersJob(t)
         /\ job'[t].at = "wait" /\ job'[t].agent = a /\ job'[t].sub = n
         /\ \A b \in Agent : cs[b] # <<>> => cs'[b] # <<>> /\ cs'[b][1] = cs[b][1]
         /\ \A b \in Agent \ {a} : cs'[b] = cs[b]
         /\ cs'[a] # <<>> /\ cs'[a][Len(cs'[a])] = t
<1>1. OthersJob(t) /\ job'[t].at = "wait" /\ job'[t].agent = a /\ job'[t].sub = n
  <2>1. job' = [job EXCEPT ![t] = [NoJob EXCEPT !.at = "wait", !.agent = a, !.sub = n]]
    BY DEF Enqueue
  <2>. QED  BY <2>1 DEF OthersJob, NoJob
<1>2. cs' = [cs EXCEPT ![a] = Append(@, t)]
  BY DEF Enqueue
<1>3. /\ cs[a] \in Seq(Task) /\ cs'[a] = Append(cs[a], t) /\ \A b \in Agent \ {a} : cs'[b] = cs[b]
      /\ cs' \in [Agent -> Seq(Task)]
  BY <1>2
<1>. DEFINE m == Len(cs[a]) + 1
<1>4. /\ DOMAIN cs[a] = 1..Len(cs[a]) /\ DOMAIN cs'[a] = DOMAIN cs[a] \cup {m} /\ m \notin DOMAIN cs[a]
      /\ cs'[a][m] = t /\ \A k \in DOMAIN cs[a] : cs'[a][k] = cs[a][k]
      /\ Len(cs'[a]) = m /\ cs'[a] # <<>>
  BY <1>3
<1>5. cs[a] # <<>> => 1 \in DOMAIN cs[a]
  BY <1>3
<1>. HIDE DEF m
<1>6. \A b \in Agent : \A k \in DOMAIN cs[b] : cs[b][k] \in Task /\ cs[b][k] # t
  BY DEF Queued
<1>7. Queued'
  <2>1. \A b \in Agent : \A k \in DOMAIN cs'[b] : job'[cs'[b][k]].at # "none" /\ job'[cs'[b][k]].agent = b
    <3>. SUFFICES ASSUME NEW b \in Agent, NEW k \in DOMAIN cs'[b]
                  PROVE  job'[cs'[b][k]].at # "none" /\ job'[cs'[b][k]].agent = b
      OBVIOUS
    <3>1. CASE b = a /\ k = m
      BY <1>1, <1>4, <3>1
    <3>2. CASE ~(b = a /\ k = m)
      <4>1. k \in DOMAIN cs[b] /\ cs'[b][k] = cs[b][k]
        BY <1>3, <1>4, <3>2
      <4>. QED  BY <1>1, <1>6, <4>1 DEF Queued, Idle, OthersJob
    <3>. QED  BY <3>1, <3>2
  <2>2. \A b \in Agent : \A k, l \in DOMAIN cs'[b] : cs'[b][k] = cs'[b][l] => k = l
    <3>1. \A k, l \in DOMAIN cs'[a] : cs'[a][k] = cs'[a][l] => k = l
      BY <1>4, <1>6 DEF Queued
    <3>2. ASSUME NEW b \in Agent \ {a} PROVE \A k, l \in DOMAIN cs'[b] : cs'[b][k] = cs'[b][l] => k = l
      <4>1. cs'[b] = cs[b]
        BY <1>3
      <4>. QED  BY <4>1 DEF Queued
    <3>. QED  BY <3>1, <3>2
  <2>3. ASSUME NEW s \in Task, ~Idle(s)' PROVE \E k \in DOMAIN cs'[job'[s].agent] : cs'[job'[s].agent][k] = s
    <3>1. CASE s = t
      BY <1>1, <1>4, <3>1
    <3>2. CASE s # t
      <4>1. job'[s] = job[s] /\ ~Idle(s)
        BY <1>1, <2>3, <3>2 DEF OthersJob, Idle
      <4>2. PICK k \in DOMAIN cs[job[s].agent] : cs[job[s].agent][k] = s
        BY <4>1 DEF Queued
      <4>3. CASE job[s].agent = a
        BY <1>4, <4>1, <4>2, <4>3
      <4>4. CASE job[s].agent # a
        <5>1. cs'[job[s].agent] = cs[job[s].agent]
          BY <1>2, <4>4
        <5>. QED  BY <4>1, <4>2, <5>1
      <4>. QED  BY <4>3, <4>4
    <3>. QED  BY <3>1, <3>2
  <2>4. ASSUME NEW s \in Task, job'[s].at \notin {"none", "wait"} PROVE cs'[job'[s].agent][1] = s
    <3>1. s # t /\ job'[s] = job[s] /\ cs[job[s].agent][1] = s /\ ~Idle(s)
      BY <1>1, <2>4 DEF OthersJob, Queued, Idle
    <3>2. CASE job[s].agent = a
      <4>1. cs[a] # <<>>
        BY <3>1, <3>2 DEF Queued
      <4>. QED  BY <1>4, <1>5, <3>1, <3>2, <4>1
    <3>3. CASE job[s].agent # a
      <4>1. cs'[job[s].agent] = cs[job[s].agent]
        BY <1>2, <3>3
      <4>. QED  BY <3>1, <4>1
    <3>. QED  BY <3>2, <3>3
  <2>. QED  BY <2>1, <2>2, <2>3, <2>4 DEF Queued, Idle
<1>. QED  BY <1>1, <1>3, <1>4, <1>5, <1>7

\* The command t has left the head of the queue of a.
Gone(t, a) ==
    /\ Queued' /\ cs' \in [Agent -> Seq(Task)] /\ OthersJob(t) /\ job'[t] = NoJob
    /\ \A b \in Agent \ {a} : cs'[b] = cs[b]
    /\ cs[a] # <<>> /\ cs[a][1] = t /\ cs'[a] = Tail(cs[a])
    /\ \A s \in Task \ {t} : job[s].agent = a => job[s].at \in {"none", "wait"}

LEMMA QueuedFinish ==
  ASSUME job \in [Task -> Job], cs \in [Agent -> Seq(Task)], Queued,
         NEW t \in Task, NEW a \in Agent, ~Idle(t), job[t].agent = a, Head(cs[a]) = t,
         job' = [job EXCEPT ![t] = NoJob], cs' = [cs EXCEPT ![a] = Tail(@)]
  PROVE  Gone(t, a)
<1>1. /\ OthersJob(t) /\ job'[t] = NoJob /\ Idle(t)'
      /\ cs' = [cs EXCEPT ![a] = Tail(@)]
  BY NoJobOK DEF OthersJob, Idle
<1>2. PICK i \in DOMAIN cs[a] : cs[a][i] = t
  BY DEF Queued
<1>3. cs[a] \in Seq(Task) /\ cs[a] # <<>> /\ Len(cs[a]) \in Nat \ {0}
  BY <1>2
<1>4. /\ DOMAIN cs[a] = 1..Len(cs[a]) /\ cs[a][1] = t /\ cs'[a] = Tail(cs[a]) /\ 1 \in DOMAIN cs[a]
      /\ DOMAIN cs'[a] = 1..(Len(cs[a]) - 1) /\ cs'[a] \in Seq(Task)
      /\ \A k \in DOMAIN cs'[a] : k + 1 \in DOMAIN cs[a] /\ cs'[a][k] = cs[a][k + 1]
      /\ \A k \in DOMAIN cs[a] : k # 1 => k - 1 \in DOMAIN cs'[a] /\ cs'[a][k - 1] = cs[a][k]
  BY <1>1, <1>3
<1>5. cs' \in [Agent -> Seq(Task)] /\ \A b \in Agent \ {a} : cs'[b] = cs[b]
  BY <1>1, <1>4
<1>6. \A s \in Task \ {t} : job[s].agent = a => job[s].at \in {"none", "wait"}
  BY <1>4 DEF Queued
<1>7. \A b \in Agent : \A k \in DOMAIN cs'[b] : job'[cs'[b][k]].at # "none" /\ job'[cs'[b][k]].agent = b
  <2>. SUFFICES ASSUME NEW b \in Agent, NEW k \in DOMAIN cs'[b]
                PROVE  job'[cs'[b][k]].at # "none" /\ job'[cs'[b][k]].agent = b
    OBVIOUS
  <2>1. \E l \in DOMAIN cs[b] : cs'[b][k] = cs[b][l] /\ cs[b][l] \in Task \ {t}
    <3>1. CASE b = a
      <4>1. k + 1 # 1
        BY <1>4, <3>1
      <4>2. cs[a][k + 1] # t /\ cs[a][k + 1] \in Task
        BY <1>3, <1>4, <3>1, <4>1 DEF Queued
      <4>. QED  BY <1>4, <3>1, <4>2
    <3>2. CASE b # a
      <4>1. cs'[b] = cs[b] /\ cs[b][k] \in Task
        BY <1>5, <3>2
      <4>2. cs[b][k] # t
        BY <3>2, <4>1 DEF Queued
      <4>. QED  BY <4>1, <4>2
    <3>. QED  BY <3>1, <3>2
  <2>. QED  BY <1>1, <2>1 DEF Queued, OthersJob, Idle
<1>8. \A b \in Agent : \A k, l \in DOMAIN cs'[b] : cs'[b][k] = cs'[b][l] => k = l
  <2>1. \A k, l \in DOMAIN cs'[a] : cs'[a][k] = cs'[a][l] => k + 1 = l + 1
    <3>. TAKE k, l \in DOMAIN cs'[a]
    <3>. HAVE cs'[a][k] = cs'[a][l]
    <3>1. k + 1 \in DOMAIN cs[a] /\ l + 1 \in DOMAIN cs[a] /\ cs[a][k + 1] = cs[a][l + 1]
      BY <1>4
    <3>. QED  BY <3>1 DEF Queued
  <2>2. \A k, l \in DOMAIN cs'[a] : cs'[a][k] = cs'[a][l] => k = l
    BY <1>4, <2>1
  <2>. QED  BY <1>5, <2>2 DEF Queued
<1>9. ASSUME NEW s \in Task, ~Idle(s)'
      PROVE  /\ \E k \in DOMAIN cs'[job'[s].agent] : cs'[job'[s].agent][k] = s
             /\ job'[s].at # "wait" => cs'[job'[s].agent][1] = s
  <2>1. s # t /\ job'[s] = job[s] /\ ~Idle(s)
    BY <1>1, <1>9 DEF OthersJob, Idle
  <2>2. PICK k \in DOMAIN cs[job[s].agent] : cs[job[s].agent][k] = s
    BY <2>1 DEF Queued
  <2>3. CASE job[s].agent = a
    <3>1. k # 1 /\ job[s].at = "wait"
      BY <1>4, <1>6, <2>1, <2>2, <2>3 DEF Idle
    <3>2. k - 1 \in DOMAIN cs'[a] /\ cs'[a][k - 1] = s
      BY <1>4, <2>2, <2>3, <3>1
    <3>. QED  BY <2>1, <2>3, <3>1, <3>2
  <2>4. CASE job[s].agent # a
    <3>1. cs'[job[s].agent] = cs[job[s].agent]
      BY <1>1, <2>4
    <3>2. job[s].at # "wait" => cs[job[s].agent][1] = s
      BY <2>1 DEF Queued, Idle
    <3>. QED  BY <2>1, <2>2, <3>1, <3>2
  <2>. QED  BY <2>3, <2>4
<1>10. Queued'
  BY <1>7, <1>8, <1>9 DEF Queued, Idle
<1>. QED  BY <1>1, <1>3, <1>4, <1>5, <1>6, <1>10 DEF Gone

LEMMA QueuedMove ==
  ASSUME job \in [Task -> Job], cs \in [Agent -> Seq(Task)], Queued, cs' = cs,
         NEW t \in Task, NEW a \in Agent, ~Idle(t), ~Idle(t)', OthersJob(t),
         job[t].agent = a, job'[t].agent = a, Head(cs[a]) = t \/ job[t].at # "wait"
  PROVE  /\ Queued' /\ cs[a] # <<>> /\ cs[a][1] = t
         /\ \A s \in Task \ {t} : job[s].agent = a => job[s].at \in {"none", "wait"}
<1>1. PICK i \in DOMAIN cs[a] : cs[a][i] = t
  BY DEF Queued
<1>2. cs[a] \in Seq(Task) /\ cs[a] # <<>>
  BY <1>1
<1>3. cs[a][1] = t
  BY <1>2 DEF Queued, Idle
<1>4. \A s \in Task \ {t} : job[s].agent = a => job[s].at \in {"none", "wait"}
  BY <1>3 DEF Queued
<1>5. \A b \in Agent : \A k \in DOMAIN cs'[b] : job'[cs'[b][k]].at # "none" /\ job'[cs'[b][k]].agent = b
  <2>1. \A b \in Agent : \A k \in DOMAIN cs[b] : cs[b][k] \in Task
    OBVIOUS
  <2>. QED  BY <2>1 DEF Queued, OthersJob, Idle
<1>6. ASSUME NEW s \in Task, ~Idle(s)'
      PROVE  /\ \E k \in DOMAIN cs'[job'[s].agent] : cs'[job'[s].agent][k] = s
             /\ job'[s].at # "wait" => cs'[job'[s].agent][1] = s
  <2>1. CASE s = t
    BY <1>1, <1>3, <2>1
  <2>2. CASE s # t
    <3>1. job'[s] = job[s] /\ ~Idle(s)
      BY <1>6, <2>2 DEF OthersJob, Idle
    <3>. QED  BY <3>1 DEF Queued, Idle
  <2>. QED  BY <2>1, <2>2
<1>7. \A b \in Agent : \A k, l \in DOMAIN cs'[b] : cs'[b][k] = cs'[b][l] => k = l
  BY DEF Queued
<1>. QED  BY <1>2, <1>3, <1>4, <1>5, <1>6, <1>7 DEF Queued, Idle

-----------------------------------------------------------------------------
(* Steps of the one player and of the master *)

\* Whoever acts is the player.
LEMMA ActsAlone ==
  ASSUME NEW p \in Uid, Alone(p), NEW u \in Uid,
         lpc[u] # "idle" \/ gpc[u] # "idle" \/ users[u] # NoUser
  PROVE  u = p
BY DEF Alone

\* The master moves on, the gate and the agents stay.
LEMMA MasterMoves ==
  ASSUME NEW p \in Uid, SInv(p), NEW x \in LoginPoint \ {"logging"},
         lpc[p] # "logging", lpc' = [lpc EXCEPT ![p] = x],
         UNCHANGED <<gateVars, loginVars, agentVars>>,
         online' \in [Uid -> Nat], ksub' \in [Uid -> Nat],
         Idle(<<p, "kick">>) \/ x = "kicking"
  PROVE  MasterTypes' /\ Alone(p)' /\ Queued' /\ Calls(p)' /\ LoginCall(p)' /\ Serves(p)' /\ lpc'[p] = x
<1>. USE DEF SInv, gateVars, loginVars, agentVars, Idle
<1>1. lpc'[p] = x /\ \A u \in Uid \ {p} : lpc'[u] = lpc[u]
  BY DEF MasterTypes
<1>2. MasterTypes'
  BY DEF MasterTypes
<1>3. Alone(p)'
  BY <1>1 DEF Alone
<1>4. Queued' /\ LoginCall(p)' /\ Serves(p)'
  <2>1. Queued'
    BY DEF Queued
  <2>2. LoginCall(p)'
    BY DEF LoginCall
  <2>3. Serves(p)'
    BY DEF Serves, Fits
  <2>. QED  BY <2>1, <2>2, <2>3
<1>5. Calls(p)'
  BY <1>1 DEF Calls
<1>. QED  BY <1>1, <1>2, <1>3, <1>4, <1>5

LEMMA MasterKeeps ==
  ASSUME TypeOK, NEW p \in Uid, SInv(p), NEW u \in Uid, MasterStep(u)
  PROVE  SInv(p)'
<1>. USE DEF SInv
<1>1. u = p
  BY ActsAlone DEF MasterStep, Recheck, LoginReply, Forget, Kicked
<1>2. UNCHANGED <<gateVars, loginVars, agentVars>>
  BY DEF MasterStep, Recheck, LoginReply, Forget, Kicked
<1>3. \A t \in Task : (Notifies(t) <=> Notifies(t)')
  BY <1>2 DEF Notifies, agentVars
<1>4. <<p, "kick">> \in Task /\ <<p, "forget">> \notin Task
  BY DEF Task, Kind
<1>5. CASE Recheck(u)
  <2>. DEFINE x == IF online[p] # 0 THEN "idle" ELSE "login"
  <2>1. MasterTypes' /\ Alone(p)' /\ Queued' /\ Calls(p)' /\ LoginCall(p)' /\ Serves(p)' /\ lpc'[p] = x
    <3>1. lpc' = [lpc EXCEPT ![p] = x] /\ lpc[p] = "recheck" /\ UNCHANGED <<online, ksub>>
      BY <1>1, <1>5 DEF Recheck
    <3>2. x \in LoginPoint \ {"logging"} /\ Idle(<<p, "kick">>)
      BY <3>1 DEF LoginPoint, Calls
    <3>. HIDE DEF x
    <3>. QED  BY <1>2, <3>1, <3>2, MasterMoves DEF MasterTypes
  <2>2. users[p] = NoUser /\ \A t \in Task : ~Notifies(t)
    BY <1>1, <1>5 DEF Recheck, Knows
  <2>3. Knows(p)'
    BY <1>2, <1>3, <2>1, <2>2 DEF Knows, gateVars
  <2>4. Channel(p)'
    BY <1>1, <1>3, <1>5, <2>1, <2>2 DEF Channel, Recheck
  <2>. QED  BY <2>1, <2>3, <2>4
<1>6. CASE LoginReply(u)
  <2>0. lpc' = [lpc EXCEPT ![p] = "idle"] /\ lpc[p] = "reply" /\ UNCHANGED <<ksub, chan>>
        /\ online' = [online EXCEPT ![p] = reply[p]] /\ reply[p] \in Nat
    BY <1>1, <1>6 DEF LoginReply, MasterTypes
  <2>1. MasterTypes' /\ Alone(p)' /\ Queued' /\ Calls(p)' /\ LoginCall(p)' /\ Serves(p)' /\ lpc'[p] = "idle"
    <3>1. Idle(<<p, "kick">>) /\ online' \in [Uid -> Nat] /\ "idle" \in LoginPoint
      BY <2>0 DEF LoginPoint, Calls, MasterTypes
    <3>. QED  BY <1>2, <2>0, <3>1, MasterMoves DEF MasterTypes
  <2>2. online'[p] = reply[p]
    BY <2>0 DEF MasterTypes
  <2>3. Knows(p)'
    BY <1>2, <1>3, <2>0, <2>1, <2>2 DEF Knows, gateVars
  <2>4. Channel(p)'
    BY <1>3, <2>0, <2>1 DEF Channel
  <2>. QED  BY <2>1, <2>3, <2>4
<1>7. CASE Forget(u)
  <2>0. lpc' = [lpc EXCEPT ![p] = "recheck"] /\ lpc[p] = "forget" /\ UNCHANGED ksub
        /\ online' = [online EXCEPT ![p] = 0] /\ Head(chan) = <<p, "forget">> /\ chan' = Tail(chan)
    BY <1>1, <1>7 DEF Forget
  <2>1. MasterTypes' /\ Alone(p)' /\ Queued' /\ Calls(p)' /\ LoginCall(p)' /\ Serves(p)' /\ lpc'[p] = "recheck"
    <3>1. Idle(<<p, "kick">>) /\ online' \in [Uid -> Nat] /\ "recheck" \in LoginPoint
      BY <2>0 DEF LoginPoint, Calls, MasterTypes
    <3>. QED  BY <1>2, <2>0, <3>1, MasterMoves DEF MasterTypes
  <2>2. chan = <<<<p, "forget">>>> /\ \A t \in Task : ~Notifies(t)
    <3>1. ASSUME NEW t \in Task, chan = <<t>> \o <<<<p, "forget">>>> PROVE FALSE
      <4>1. Head(chan) = t
        BY <3>1
      <4>. QED  BY <1>4, <2>0, <4>1
    <3>. QED  BY <2>0, <3>1 DEF Channel
  <2>3. Knows(p)'
    BY <1>2, <1>3, <2>0, <2>1, <2>2 DEF Knows, gateVars
  <2>4. Channel(p)'
    <3>1. chan' = <<>>
      BY <2>0, <2>2
    <3>. QED  BY <1>3, <2>1, <2>2, <3>1 DEF Channel
  <2>. QED  BY <2>1, <2>3, <2>4
<1>8. CASE Kicked(u)
  <2>0. lpc' = [lpc EXCEPT ![p] = "recheck"] /\ lpc[p] = "kicking" /\ UNCHANGED <<ksub, online, chan>>
        /\ Idle(<<p, "kick">>)
    BY <1>1, <1>8 DEF Kicked
  <2>1. MasterTypes' /\ Alone(p)' /\ Queued' /\ Calls(p)' /\ LoginCall(p)' /\ Serves(p)' /\ lpc'[p] = "recheck"
    <3>1. online' \in [Uid -> Nat] /\ "recheck" \in LoginPoint
      BY <2>0 DEF LoginPoint, MasterTypes
    <3>. QED  BY <1>2, <2>0, <3>1, MasterMoves DEF MasterTypes
  <2>2. users[p] = NoUser /\ \A t \in Task : ~Notifies(t)
    BY <2>0 DEF Knows, Idle, Notifies
  <2>3. Knows(p)'
    BY <1>2, <1>3, <2>0, <2>1, <2>2 DEF Knows, gateVars
  <2>4. Channel(p)'
    BY <1>3, <2>0, <2>1, <2>2 DEF Channel
  <2>. QED  BY <2>1, <2>3, <2>4
<1>. QED  BY <1>5, <1>6, <1>7, <1>8 DEF MasterStep

LEMMA AcceptKeeps ==
  ASSUME TypeOK, NEW p \in Uid, SInv(p), inst.players = {p}, NEW u \in Uid, Accept(u)
  PROVE  SInv(p)'
<1>. USE DEF SInv
<1>. DEFINE x == IF online[p] = 0 THEN "login" ELSE "kick"
<1>0. /\ lpc[p] = "idle" /\ lpc' = [lpc EXCEPT ![p] = x] /\ UNCHANGED <<gateVars, loginVars, agentVars>>
      /\ UNCHANGED <<online, chan>> /\ ksub' = [ksub EXCEPT ![p] = online[p]]
  BY DEF Accept
<1>1. MasterTypes' /\ Alone(p)' /\ Queued' /\ Calls(p)' /\ LoginCall(p)' /\ Serves(p)' /\ lpc'[p] = x
  <2>1. x \in LoginPoint \ {"logging"} /\ Idle(<<p, "kick">>) /\ online' \in [Uid -> Nat] /\ ksub' \in [Uid -> Nat]
    BY <1>0 DEF LoginPoint, Calls, MasterTypes
  <2>. HIDE DEF x
  <2>. QED  BY <1>0, <2>1, MasterMoves
<1>2. \A t \in Task : (Notifies(t) <=> Notifies(t)')
  BY <1>0 DEF Notifies, agentVars
<1>3. ksub'[p] = online[p] /\ online[p] \in Nat
  BY <1>0 DEF MasterTypes
<1>4. users[p] # NoUser => online[p] = users[p].sub /\ users[p].sub # 0
  BY <1>0 DEF Knows, Serves
<1>5. Knows(p)'
  BY <1>0, <1>1, <1>2, <1>3, <1>4 DEF Knows, gateVars
<1>6. Channel(p)'
  <2>1. lpc'[p] # "forget"
    BY <1>1
  <2>. QED  BY <1>0, <1>2, <2>1 DEF Channel
<1>. QED  BY <1>1, <1>5, <1>6

-----------------------------------------------------------------------------
(* Steps of the gate *)

LEMMA MyTasks ==
  ASSUME NEW p \in Uid
  PROVE  /\ <<p, "kick">> \in Task /\ <<p, "login">> \in Task /\ <<p, "auth">> \in Task
         /\ <<p, "disc">> \in Task /\ <<p, "forget">> \notin Task
BY DEF Task, Kind

\* A command to the agent of a session joins the queue.
LEMMA SendKeeps ==
  ASSUME TypeOK, NEW p \in Uid, SInv(p), users[p] # NoUser, NEW k \in {"kick", "auth", "disc"},
         Idle(<<p, k>>), Enqueue(<<p, k>>, users[p].agent, 0),
         UNCHANGED <<users, gpc, session>>
  PROVE  /\ cs' \in [Agent -> Seq(Task)] /\ Queued' /\ Serves(p)'
         /\ \A t \in Task : ~Idle(t)' => t[1] = p /\ t[2] # "client"
         /\ \A t \in Task : t[2] \in {"login", "auth"} => job'[t].at \in {"none", "wait"}
         /\ \A t \in Task : (Notifies(t) <=> Notifies(t)')
         /\ OthersJob(<<p, k>>) /\ job'[<<p, k>>].at = "wait" /\ job'[<<p, k>>].agent = users[p].agent
         /\ gpc[p] = "idle"
<1>. USE DEF SInv
<1>. PICK t \in Task : t = <<p, k>>
  BY MyTasks
<1>. PICK a \in Agent : a = users[p].agent
  BY DEF TypeOK
<1>0. t[1] = p /\ t[2] = k /\ t[2] # "client" /\ t[2] # "login"
  OBVIOUS
<1>1. /\ Queued' /\ cs' \in [Agent -> Seq(Task)] /\ OthersJob(t)
      /\ job'[t].at = "wait" /\ job'[t].agent = a
      /\ \A b \in Agent : cs[b] # <<>> => cs'[b] # <<>> /\ cs'[b][1] = cs[b][1]
  <2>1. job \in [Task -> Job] /\ cs \in [Agent -> Seq(Task)] /\ Queued /\ 0 \in Nat
    BY DEF TypeOK, MasterTypes
  <2>. HIDE DEF SInv
  <2>. QED  BY <2>1, QueuedEnqueue
<1>2. \A s \in Task : ~Idle(s)' => s[1] = p /\ s[2] # "client"
  BY <1>0, <1>1 DEF Alone, Idle, OthersJob
<1>3. \A s \in Task : s[2] \in {"login", "auth"} => job'[s].at \in {"none", "wait"}
  BY <1>0, <1>1 DEF Alone, OthersJob
<1>4. \A s \in Task : (Notifies(s) <=> Notifies(s)')
  BY <1>1 DEF OthersJob, Notifies, Idle
<1>5. gpc[p] = "idle"
  BY DEF Knows, Calls
<1>6. \A b \in Agent : cs[b] # <<>> => cs[b][1] \in Task /\ cs[b][1] # t
  <2>. SUFFICES ASSUME NEW b \in Agent, cs[b] # <<>> PROVE cs[b][1] \in Task /\ cs[b][1] # t
    OBVIOUS
  <2>1. cs[b] \in Seq(Task)
    BY DEF MasterTypes
  <2>2. 1 \in DOMAIN cs[b] /\ cs[b][1] \in Task
    BY <2>1
  <2>. QED  BY <2>2 DEF Queued
<1>7. Serves(p)'
  <2>1. \A s \in Task : job'[s].agent = users[p].agent => job'[s].at \notin Leaving
    BY <1>1 DEF Serves, OthersJob, Leaving
  <2>2. ASSUME NEW s \in Task, job'[s].at = "gate" PROVE Fits(s)'
    <3>1. job'[s] = job[s] /\ Fits(s)
      BY <1>1, <2>2 DEF Serves, OthersJob
    <3>. QED  BY <3>1 DEF Fits
  <2>3. \A b \in Agent : session[b] # NoSession =>
          \/ users[p].agent = b
          \/ cs'[b] # <<>> /\ job'[cs'[b][1]].at \in Leaving
    <3>1. \A b \in Agent : cs[b] # <<>> => job'[cs'[b][1]] = job[cs[b][1]]
      BY <1>1, <1>6 DEF OthersJob
    <3>2. \A b \in Agent : session[b] # NoSession =>
            users[p].agent = b \/ (cs[b] # <<>> /\ job[cs[b][1]].at \in Leaving)
      BY <1>5 DEF Serves
    <3>. QED  BY <1>1, <3>1, <3>2
  <2>4. users[p].sub # 0 /\ session[users[p].agent] = <<p, users[p].sub>>
    BY DEF Serves
  <2>. QED  BY <2>1, <2>2, <2>3, <2>4 DEF Serves
<1>. QED  BY <1>1, <1>2, <1>3, <1>4, <1>5, <1>7

LEMMA KickKeeps ==
  ASSUME TypeOK, NEW p \in Uid, SInv(p), NEW u \in Uid, Kick(u)
  PROVE  SInv(p)'
<1>. USE DEF SInv
<1>0. u = p /\ lpc[p] = "kick" /\ UNCHANGED <<ksub, gateVars, loginVars, session, loaded>>
  BY ActsAlone DEF Kick
<1>1. CASE users[p] = NoUser
  <2>0. lpc' = [lpc EXCEPT ![p] = "forget"] /\ chan' = Append(chan, <<p, "forget">>) /\ UNCHANGED <<online, job, cs>>
    BY <1>0, <1>1 DEF Kick
  <2>1. MasterTypes' /\ Alone(p)' /\ Queued' /\ Calls(p)' /\ LoginCall(p)' /\ Serves(p)' /\ lpc'[p] = "forget"
    <3>1. Idle(<<p, "kick">>) /\ online' \in [Uid -> Nat] /\ ksub' \in [Uid -> Nat] /\ "forget" \in LoginPoint
      BY <1>0, <2>0 DEF LoginPoint, Calls, MasterTypes
    <3>. QED  BY <1>0, <2>0, <3>1, MasterMoves DEF agentVars
  <2>2. \A t \in Task : (Notifies(t) <=> Notifies(t)')
    BY <2>0 DEF Notifies
  <2>3. Knows(p)'
    BY <1>0, <1>1, <2>1, <2>2 DEF Knows, gateVars
  <2>4. Channel(p)'
    <3>1. chan = <<>> => chan' = <<<<p, "forget">>>>
      BY <2>0
    <3>2. \A t \in Task : chan = <<t>> => chan' = <<t>> \o <<<<p, "forget">>>>
      BY <2>0
    <3>3. \/ chan = <<>> /\ \A t \in Task : ~Notifies(t)
          \/ \E t \in Task : /\ chan = <<t>> /\ Notifies(t)
                             /\ \A s \in Task : Notifies(s) => s = t
      BY <1>0 DEF Channel
    <3>. QED  BY <2>1, <2>2, <3>1, <3>2, <3>3 DEF Channel
  <2>. QED  BY <2>1, <2>3, <2>4
<1>2. CASE users[p] # NoUser
  <2>0. users[p].sub = ksub[p]
    BY <1>0, <1>2 DEF Knows
  <2>1. lpc' = [lpc EXCEPT ![p] = "kicking"] /\ Enqueue(<<p, "kick">>, users[p].agent, 0) /\ UNCHANGED <<online, chan>>
    BY <1>0, <1>2, <2>0 DEF Kick
  <2>2. Idle(<<p, "kick">>)
    BY <1>0 DEF Calls
  <2>3. /\ cs' \in [Agent -> Seq(Task)] /\ Queued' /\ Serves(p)'
        /\ \A t \in Task : ~Idle(t)' => t[1] = p /\ t[2] # "client"
        /\ \A t \in Task : t[2] \in {"login", "auth"} => job'[t].at \in {"none", "wait"}
        /\ \A t \in Task : (Notifies(t) <=> Notifies(t)')
        /\ OthersJob(<<p, "kick">>) /\ job'[<<p, "kick">>].at = "wait"
        /\ job'[<<p, "kick">>].agent = users[p].agent
        /\ gpc[p] = "idle"
    BY <1>0, <1>2, <2>1, <2>2, SendKeeps DEF gateVars, loginVars
  <2>4. lpc'[p] = "kicking" /\ \A v \in Uid \ {p} : lpc'[v] = lpc[v]
    BY <2>1 DEF MasterTypes
  <2>5. MasterTypes'
    BY <1>0, <2>1, <2>3 DEF MasterTypes, LoginPoint, loginVars
  <2>6. Alone(p)'
    BY <1>0, <2>3, <2>4 DEF Alone, gateVars, loginVars
  <2>7. Calls(p)' /\ LoginCall(p)'
    <3>1. gpc'[p] = "idle" /\ Idle(<<p, "login">>)'
      BY <1>0, <2>3, MyTasks DEF Calls, loginVars, OthersJob, Idle
    <3>. QED  BY <2>4, <3>1 DEF Calls, LoginCall
  <2>8. Knows(p)'
    BY <1>0, <1>2, <2>1, <2>3, <2>4 DEF Knows, gateVars, Idle
  <2>9. Channel(p)'
    BY <1>0, <2>1, <2>3, <2>4 DEF Channel
  <2>. QED  BY <2>3, <2>5, <2>6, <2>7, <2>8, <2>9
<1>. QED  BY <1>1, <1>2

\* The player connects, and his connection goes.
LEMMA ConnKeeps ==
  ASSUME TypeOK, NEW p \in Uid, SInv(p), NEW u \in Uid, Connect(u) \/ Disconnect(u)
  PROVE  SInv(p)'
<1>. USE DEF SInv
<1>0. UNCHANGED <<masterVars, users, internal_id, loginVars, session>>
  BY DEF Connect, Disconnect
<1>1. CASE UNCHANGED <<job, cs>>
  <2>. USE <1>0, <1>1 DEF masterVars, loginVars
  <2>1. MasterTypes' /\ Alone(p)' /\ Calls(p)'
    BY DEF MasterTypes, Alone, Calls, Idle
  <2>2. Queued'
    BY DEF Queued, Idle
  <2>3. LoginCall(p)'
    BY DEF LoginCall
  <2>4. Serves(p)'
    BY DEF Serves, Fits, Idle
  <2>5. Knows(p)' /\ Channel(p)'
    BY DEF Knows, Channel, Notifies, Idle
  <2>. QED  BY <2>1, <2>2, <2>3, <2>4, <2>5
<1>2. CASE ~UNCHANGED <<job, cs>>
  <2>1. PICK k \in {"auth", "disc"} : Idle(<<u, k>>) /\ Enqueue(<<u, k>>, users[u].agent, 0) /\ users[u].sub # 0
    BY <1>2 DEF Connect, Disconnect
  <2>2. u = p /\ users[p] # NoUser
    BY <2>1, ActsAlone DEF NoUser
  <2>3. /\ cs' \in [Agent -> Seq(Task)] /\ Queued' /\ Serves(p)'
        /\ \A t \in Task : ~Idle(t)' => t[1] = p /\ t[2] # "client"
        /\ \A t \in Task : t[2] \in {"login", "auth"} => job'[t].at \in {"none", "wait"}
        /\ \A t \in Task : (Notifies(t) <=> Notifies(t)')
        /\ OthersJob(<<p, k>>)
        /\ gpc[p] = "idle"
    BY <1>0, <2>1, <2>2, SendKeeps DEF loginVars
  <2>4. job'[<<p, "kick">>] = job[<<p, "kick">>] /\ job'[<<p, "login">>] = job[<<p, "login">>]
    BY <2>3, MyTasks DEF OthersJob
  <2>5. MasterTypes' /\ Alone(p)'
    BY <1>0, <2>3 DEF MasterTypes, Alone, masterVars, loginVars
  <2>6. Calls(p)' /\ LoginCall(p)'
    BY <1>0, <2>3, <2>4 DEF Calls, LoginCall, Idle, masterVars, loginVars
  <2>7. Knows(p)'
    BY <1>0, <2>2, <2>3, <2>4 DEF Knows, Idle, masterVars, loginVars
  <2>8. Channel(p)'
    BY <1>0, <2>3 DEF Channel, masterVars
  <2>. QED  BY <2>3, <2>5, <2>6, <2>7, <2>8
<1>. QED  BY <1>1, <1>2

\* The command of a login joins the queue of its agent.
LEMMA SendLogin ==
  ASSUME TypeOK, NEW p \in Uid, SInv(p), users[p] = NoUser, gpc[p] # "call",
         NEW a \in Agent, Enqueue(<<p, "login">>, a, internal_id'),
         UNCHANGED <<users, session, online, ksub, reply, chan>>, lpc[p] \in {"login", "logging"},
         lpc' = [lpc EXCEPT ![p] = "logging"], gpc' = [gpc EXCEPT ![p] = "call"],
         gagent' = [gagent EXCEPT ![p] = a], gname'[p] = internal_id', internal_id' \in Nat \ {0}
  PROVE  SInv(p)'
<1>. USE DEF SInv
<1>. PICK t \in Task : t = <<p, "login">>
  BY MyTasks
<1>0. t[1] = p /\ t[2] = "login"
  OBVIOUS
<1>1. Idle(t)
  BY DEF Calls
<1>2. /\ Queued' /\ cs' \in [Agent -> Seq(Task)] /\ OthersJob(t)
      /\ job'[t].at = "wait" /\ job'[t].agent = a /\ job'[t].sub = internal_id'
      /\ \A b \in Agent : cs[b] # <<>> => cs'[b] # <<>> /\ cs'[b][1] = cs[b][1]
      /\ cs'[a][Len(cs'[a])] = t
  <2>1. job \in [Task -> Job] /\ cs \in [Agent -> Seq(Task)] /\ Queued
    BY DEF TypeOK, MasterTypes
  <2>. HIDE DEF SInv
  <2>. QED  BY <1>1, <2>1, QueuedEnqueue
<1>3. /\ lpc'[p] = "logging" /\ gpc'[p] = "call" /\ gagent'[p] = a
      /\ \A v \in Uid \ {p} : lpc'[v] = lpc[v] /\ gpc'[v] = gpc[v]
  BY DEF MasterTypes, TypeOK
<1>4. MasterTypes'
  BY <1>2 DEF MasterTypes, LoginPoint
<1>5. Alone(p)'
  <2>1. \A s \in Task : ~Idle(s)' => s[1] = p /\ s[2] # "client"
    BY <1>0, <1>2 DEF Alone, Idle, OthersJob
  <2>2. \A s \in Task : s[2] \in {"login", "auth"} => job'[s].at \in {"none", "wait"}
    BY <1>0, <1>2 DEF Alone, OthersJob
  <2>. QED  BY <1>3, <2>1, <2>2 DEF Alone
<1>6. Calls(p)'
  <2>1. job'[<<p, "kick">>] = job[<<p, "kick">>]
    BY <1>2, MyTasks DEF OthersJob
  <2>. QED  BY <1>3, <2>1 DEF Calls, Idle
<1>7. LoginCall(p)'
  BY <1>2, <1>3 DEF LoginCall
<1>8. \A b \in Agent : cs[b] # <<>> => job'[cs'[b][1]] = job[cs[b][1]]
  <2>. SUFFICES ASSUME NEW b \in Agent, cs[b] # <<>> PROVE job'[cs'[b][1]] = job[cs[b][1]]
    OBVIOUS
  <2>1. cs[b] \in Seq(Task)
    BY DEF MasterTypes
  <2>2. 1 \in DOMAIN cs[b] /\ cs[b][1] \in Task
    BY <2>1
  <2>3. cs[b][1] # t
    BY <1>1, <2>2 DEF Queued
  <2>. QED  BY <1>2, <2>2, <2>3 DEF OthersJob
<1>9. Serves(p)'
  <2>1. ASSUME NEW s \in Task, job'[s].at = "gate" PROVE Fits(s)'
    <3>1. job'[s] = job[s] /\ Fits(s)
      BY <1>2, <2>1 DEF Serves, OthersJob
    <3>. QED  BY <3>1 DEF Fits
  <2>2. \A b \in Agent : session[b] # NoSession => cs[b] # <<>> /\ job[cs[b][1]].at \in Leaving
    BY DEF Serves
  <2>3. \A b \in Agent : session[b] # NoSession => cs'[b] # <<>> /\ job'[cs'[b][1]].at \in Leaving
    BY <1>2, <1>8, <2>2
  <2>. QED  BY <2>1, <2>3 DEF Serves
<1>10. \A s \in Task : (Notifies(s) <=> Notifies(s)')
  BY <1>1, <1>2 DEF OthersJob, Notifies, Idle
<1>11. Knows(p)'
  BY <1>3, <1>10 DEF Knows
<1>12. Channel(p)'
  BY <1>3, <1>10 DEF Channel
<1>. QED  BY <1>2, <1>4, <1>5, <1>6, <1>7, <1>9, <1>11, <1>12

LEMMA LoginKeeps ==
  ASSUME TypeOK, NEW p \in Uid, SInv(p), NEW u \in Uid, Login(u) \/ NewAgent(u)
  PROVE  SInv(p)'
<1>. USE DEF SInv
<1>0. u = p
  BY ActsAlone DEF Login, NewAgent
<1>1. CASE NewAgent(u)
  <2>1. PICK a \in Agent : gagent' = [gagent EXCEPT ![p] = a] /\ Enqueue(<<p, "login">>, a, internal_id)
    BY <1>0, <1>1 DEF NewAgent
  <2>2. /\ gpc[p] = "new" /\ gpc' = [gpc EXCEPT ![p] = "call"]
        /\ UNCHANGED <<masterVars, users, internal_id, gname, reply, session>>
    BY <1>0, <1>1 DEF NewAgent
  <2>3. lpc[p] = "logging" /\ users[p] = NoUser /\ gname[p] = internal_id /\ internal_id \in Nat \ {0}
    BY <2>2 DEF Calls, Knows, LoginCall, TypeOK
  <2>4. lpc' = [lpc EXCEPT ![p] = "logging"]
    BY <2>2, <2>3 DEF masterVars, MasterTypes
  <2>. QED  BY <2>1, <2>2, <2>3, <2>4, SendLogin DEF masterVars
<1>2. CASE Login(u)
  <2>0. lpc[p] = "login" /\ users[p] = NoUser /\ gpc[p] = "idle" /\ \A t \in Task : ~Notifies(t)
    BY <1>0, <1>2 DEF Login, Knows, Calls, TypeOK
  <2>1. /\ internal_id' = internal_id + 1 /\ gname' = [gname EXCEPT ![p] = internal_id + 1]
        /\ UNCHANGED <<online, ksub, chan, users, reply, session>>
    BY <1>0, <1>2, <2>0 DEF Login
  <2>2. gname'[p] = internal_id' /\ internal_id' \in Nat \ {0}
    BY <2>1 DEF TypeOK
  <2>3. CASE agent_pool # <<>>
    <3>1. /\ gagent' = [gagent EXCEPT ![p] = agent_pool[Len(agent_pool)]]
          /\ Enqueue(<<p, "login">>, agent_pool[Len(agent_pool)], internal_id')
          /\ gpc' = [gpc EXCEPT ![p] = "call"] /\ lpc' = [lpc EXCEPT ![p] = "logging"]
      BY <1>0, <1>2, <2>0, <2>1, <2>3 DEF Login
    <3>2. agent_pool[Len(agent_pool)] \in Agent
      BY <2>3, PoolEnd
    <3>. QED  BY <2>0, <2>1, <2>2, <3>1, <3>2, SendLogin
  <2>4. CASE agent_pool = <<>>
    <3>1. PICK x \in {"new", "idle"} :
            /\ gpc' = [gpc EXCEPT ![p] = x] /\ UNCHANGED <<gagent, job, cs>>
            /\ lpc' = [lpc EXCEPT ![p] = IF x = "new" THEN "logging" ELSE "idle"]
      <4>1. gpc = [gpc EXCEPT ![p] = "idle"]
        BY <2>0 DEF TypeOK
      <4>. QED  BY <1>0, <1>2, <2>0, <2>4, <4>1 DEF Login
    <3>2. /\ gpc'[p] = x /\ lpc'[p] = (IF x = "new" THEN "logging" ELSE "idle")
          /\ \A v \in Uid \ {p} : lpc'[v] = lpc[v] /\ gpc'[v] = gpc[v]
      BY <3>1 DEF TypeOK, MasterTypes
    <3>3. MasterTypes'
      BY <2>1, <3>1 DEF MasterTypes, LoginPoint
    <3>4. Alone(p)'
      BY <2>1, <3>1, <3>2 DEF Alone, Idle
    <3>5. Queued'
      BY <3>1 DEF Queued, Idle
    <3>6. Calls(p)' /\ LoginCall(p)'
      BY <2>0, <2>2, <3>1, <3>2 DEF Calls, LoginCall, Idle
    <3>7. Serves(p)'
      <4>1. users'[p] = NoUser
        BY <2>0, <2>1
      <4>2. \A a \in Agent : session'[a] # NoSession => cs'[a] # <<>> /\ job'[cs'[a][1]].at \in Leaving
        BY <2>0, <2>1, <3>1 DEF Serves
      <4>3. \A t \in Task : job'[t].at = "gate" => Fits(t)'
        BY <2>1, <3>1 DEF Serves, Fits
      <4>. QED  BY <4>1, <4>2, <4>3 DEF Serves
    <3>8. \A t \in Task : ~Notifies(t)'
      BY <2>0, <3>1 DEF Notifies
    <3>9. Knows(p)' /\ Channel(p)'
      BY <2>0, <2>1, <3>2, <3>8 DEF Knows, Channel
    <3>. QED  BY <3>3, <3>4, <3>5, <3>6, <3>7, <3>9
  <2>. QED  BY <2>3, <2>4
<1>. QED  BY <1>1, <1>2

LEMMA LoginReturnKeeps ==
  ASSUME TypeOK, InHand, NEW p \in Uid, SInv(p), NEW u \in Uid, LoginReturn(u)
  PROVE  SInv(p)'
<1>. USE DEF SInv
<1>0. u = p /\ gpc[p] = "call" /\ Idle(<<p, "login">>) /\ UNCHANGED <<online, ksub, chan, internal_id, gname, session, cs, job>>
  BY ActsAlone DEF LoginReturn, agentVars
<1>1. /\ users' = [users EXCEPT ![p] = [sub |-> gname[p], agent |-> gagent[p]]]
      /\ reply' = [reply EXCEPT ![p] = internal_id] /\ gpc' = [gpc EXCEPT ![p] = "idle"]
      /\ lpc' = [lpc EXCEPT ![p] = "reply"]
  BY <1>0 DEF LoginReturn
<1>. PICK a \in Agent : a = gagent[p]
  BY <1>0 DEF InHand
<1>2. /\ lpc[p] = "logging" /\ users[p] = NoUser /\ gname[p] = internal_id /\ gname[p] # 0
      /\ session[a] = <<p, gname[p]>> /\ cs[a] = <<>> /\ \A t \in Task : ~Notifies(t)
  BY <1>0 DEF Calls, Knows, LoginCall, Idle
<1>3. /\ users'[p].sub = gname[p] /\ users'[p].agent = a /\ users'[p] # NoUser
      /\ reply'[p] = gname[p] /\ gpc'[p] = "idle" /\ lpc'[p] = "reply"
      /\ \A v \in Uid \ {p} : lpc'[v] = lpc[v] /\ gpc'[v] = gpc[v] /\ users'[v] = users[v]
  BY <1>1, <1>2 DEF TypeOK, MasterTypes, NoUser
<1>4. MasterTypes'
  BY <1>0, <1>1 DEF MasterTypes, LoginPoint, TypeOK
<1>5. Alone(p)'
  BY <1>0, <1>3 DEF Alone, Idle
<1>6. Queued'
  BY <1>0 DEF Queued, Idle
<1>7. Calls(p)' /\ LoginCall(p)'
  BY <1>0, <1>2, <1>3 DEF Calls, LoginCall, Idle
<1>8. \A t \in Task : job[t].agent = a => job[t].at = "none"
  <2>1. \A t \in Task : ~Idle(t) => DOMAIN cs[job[t].agent] # {}
    BY DEF Queued
  <2>2. DOMAIN cs[a] = {}
    BY <1>2
  <2>. QED  BY <2>1, <2>2 DEF Idle
<1>9. Serves(p)'
  <2>1. \A t \in Task : job'[t].agent = a => job'[t].at \notin Leaving
    BY <1>0, <1>8 DEF Leaving
  <2>2. \A t \in Task : job'[t].at = "gate" => Fits(t)'
    BY <1>0 DEF Serves, Fits
  <2>3. \A b \in Agent : session'[b] # NoSession => b = a \/ (cs'[b] # <<>> /\ job'[cs'[b][1]].at \in Leaving)
    BY <1>0, <1>2 DEF Serves
  <2>4. session'[a] = <<p, users'[p].sub>> /\ users'[p].sub # 0
    BY <1>0, <1>2, <1>3
  <2>. QED  BY <1>3, <2>1, <2>2, <2>3, <2>4 DEF Serves
<1>10. \A t \in Task : ~Notifies(t)'
  BY <1>0, <1>2 DEF Notifies
<1>11. Knows(p)'
  BY <1>2, <1>3, <1>10 DEF Knows
<1>12. Channel(p)'
  BY <1>0, <1>2, <1>3, <1>10 DEF Channel
<1>. QED  BY <1>4, <1>5, <1>6, <1>7, <1>9, <1>11, <1>12

-----------------------------------------------------------------------------
(* Steps of a command *)

\* A command at work moves on: the queues stay, and the login under way.
LEMMA TaskMoves ==
  ASSUME TypeOK, InHand, NEW p \in Uid, SInv(p), NEW t \in Task,
         t[2] \in {"kick", "disc"} \/ job[t].at # "wait", ~Idle(t), ~Idle(t)',
         Head(cs[job[t].agent]) = t \/ job[t].at # "wait",
         OthersJob(t), job'[t].agent = job[t].agent,
         UNCHANGED <<lpc, ksub, reply, gpc, gname, gagent, internal_id, session, cs>>,
         online' \in [Uid -> Nat], \A u \in Uid \ {p} : users'[u] = users[u]
  PROVE  /\ MasterTypes' /\ Alone(p)' /\ Queued' /\ Calls(p)' /\ LoginCall(p)'
         /\ job[t].agent \in Agent /\ cs[job[t].agent] # <<>> /\ cs[job[t].agent][1] = t
         /\ \A s \in Task \ {t} : job[s].agent = job[t].agent => job[s].at \in {"none", "wait"}
         /\ t # <<p, "login">>
<1>. USE DEF SInv
<1>. PICK a \in Agent : a = job[t].agent
  BY DEF InHand, Idle
<1>1. t[1] = p /\ t[2] \in {"kick", "disc"}
  BY DEF Alone, Idle, Task, Kind
<1>2. /\ Queued' /\ cs[a] # <<>> /\ cs[a][1] = t
      /\ \A s \in Task \ {t} : job[s].agent = a => job[s].at \in {"none", "wait"}
  BY QueuedMove DEF TypeOK, MasterTypes
<1>3. MasterTypes'
  BY DEF MasterTypes
<1>4. Alone(p)'
  <2>1. \A s \in Task : ~Idle(s)' => s[1] = p /\ s[2] # "client"
    BY <1>1 DEF Alone, Idle, OthersJob
  <2>2. \A s \in Task : s[2] \in {"login", "auth"} => job'[s].at \in {"none", "wait"}
    BY <1>1 DEF Alone, OthersJob
  <2>. QED  BY <2>1, <2>2 DEF Alone
<1>5. job'[<<p, "login">>] = job[<<p, "login">>] /\ t # <<p, "login">>
  <2>1. t # <<p, "login">>
    BY <1>1
  <2>. QED  BY <2>1, MyTasks DEF OthersJob
<1>6. Calls(p)'
  <2>1. ~Idle(<<p, "kick">>)' => ~Idle(<<p, "kick">>)
    BY MyTasks DEF OthersJob, Idle
  <2>. QED  BY <1>5, <2>1 DEF Calls, Idle
<1>7. LoginCall(p)'
  BY <1>5 DEF LoginCall
<1>. QED  BY <1>2, <1>3, <1>4, <1>5, <1>6, <1>7

\* A command other than a login is over: a login behind it comes forward.
LEMMA TaskEnds ==
  ASSUME TypeOK, InHand, NEW p \in Uid, SInv(p), NEW t \in Task, t[2] # "login", ~Idle(t),
         Head(cs[job[t].agent]) = t, Finish(t),
         UNCHANGED <<masterVars, reply, users, gpc, gname, gagent, internal_id>>,
         \A b \in Agent \ {job[t].agent} : session'[b] = session[b]
  PROVE  /\ MasterTypes' /\ Alone(p)' /\ Queued' /\ Calls(p)' /\ LoginCall(p)'
         /\ job[t].agent \in Agent /\ cs[job[t].agent] # <<>> /\ cs[job[t].agent][1] = t
         /\ \A s \in Task \ {t} : job[s].agent = job[t].agent => job[s].at \in {"none", "wait"}
         /\ OthersJob(t) /\ job'[t] = NoJob /\ \A b \in Agent \ {job[t].agent} : cs'[b] = cs[b]
         /\ gpc[p] = "call" /\ gagent[p] = job[t].agent => ~Idle(<<p, "login">>)
<1>. USE DEF SInv
<1>. PICK a \in Agent : a = job[t].agent
  BY DEF InHand, Idle
<1>1. t[1] = p /\ t[2] # "client"
  BY DEF Alone
<1>2. /\ Queued' /\ cs' \in [Agent -> Seq(Task)] /\ OthersJob(t) /\ job'[t] = NoJob
      /\ \A b \in Agent \ {a} : cs'[b] = cs[b]
      /\ cs[a] # <<>> /\ cs[a][1] = t /\ cs'[a] = Tail(cs[a])
      /\ \A s \in Task \ {t} : job[s].agent = a => job[s].at \in {"none", "wait"}
  <2>1. job \in [Task -> Job] /\ cs \in [Agent -> Seq(Task)] /\ Queued
        /\ job[t].agent = a /\ Head(cs[a]) = t
        /\ job' = [job EXCEPT ![t] = NoJob] /\ cs' = [cs EXCEPT ![a] = Tail(@)]
    BY <1>1 DEF TypeOK, MasterTypes, Finish
  <2>. HIDE DEF SInv
  <2>2. Gone(t, a)
    BY <2>1, QueuedFinish
  <2>. QED  BY <2>2 DEF Gone
<1>3. MasterTypes'
  BY <1>2 DEF MasterTypes, masterVars
<1>4. Alone(p)'
  <2>1. \A s \in Task : ~Idle(s)' => s[1] = p /\ s[2] # "client"
    BY <1>1, <1>2 DEF Alone, Idle, OthersJob
  <2>2. \A s \in Task : s[2] \in {"login", "auth"} => job'[s].at \in {"none", "wait"}
    BY <1>2, NoJobOK DEF Alone, OthersJob
  <2>. QED  BY <2>1, <2>2 DEF Alone, masterVars
<1>5. job'[<<p, "login">>] = job[<<p, "login">>] /\ t # <<p, "login">>
  <2>1. t # <<p, "login">>
    OBVIOUS
  <2>. QED  BY <1>2, <2>1, MyTasks DEF OthersJob
<1>6. Calls(p)'
  <2>1. ~Idle(<<p, "kick">>)' => ~Idle(<<p, "kick">>)
    BY <1>2, MyTasks, NoJobOK DEF OthersJob, Idle
  <2>. QED  BY <1>5, <2>1 DEF Calls, Idle, masterVars
<1>7. gpc[p] = "call" /\ gagent[p] = a => ~Idle(<<p, "login">>)
  BY <1>2 DEF LoginCall, Idle
<1>8. LoginCall(p)'
  <2>1. CASE gpc[p] = "call" /\ gagent[p] = a
    <3>1. job[<<p, "login">>].at = "wait" /\ job[<<p, "login">>].agent = a
          /\ job[<<p, "login">>].sub = gname[p] /\ cs[a][Len(cs[a])] = <<p, "login">>
      BY <1>2, <2>1 DEF LoginCall
    <3>2. cs[a] \in Seq(Task)
      BY DEF MasterTypes
    <3>3. Len(cs[a]) \in Nat /\ Len(cs[a]) # 1 /\ Len(cs[a]) # 0
      BY <1>2, <1>5, <3>1, <3>2
    <3>4. cs'[a][Len(cs'[a])] = <<p, "login">>
      BY <1>2, <3>1, <3>2, <3>3
    <3>. QED  BY <1>5, <2>1, <3>1, <3>4 DEF LoginCall
  <2>2. CASE gpc[p] = "call" /\ gagent[p] # a
    <3>1. gagent[p] \in Agent \ {a}
      BY <2>2 DEF InHand
    <3>2. cs'[gagent[p]] = cs[gagent[p]] /\ session'[gagent[p]] = session[gagent[p]]
      BY <1>2, <3>1
    <3>. QED  BY <1>5, <2>2, <3>2 DEF LoginCall
  <2>3. CASE gpc[p] # "call"
    BY <2>3 DEF LoginCall
  <2>. QED  BY <2>1, <2>2, <2>3
<1>. QED  BY <1>2, <1>3, <1>4, <1>6, <1>7, <1>8

\* The commands at the head of the other queues stay as they are.
LEMMA OtherHeads ==
  ASSUME NEW p \in Uid, SInv(p), NEW t \in Task, OthersJob(t), NEW b \in Agent,
         b # job[t].agent, cs'[b] = cs[b], cs[b] # <<>>
  PROVE  job'[cs'[b][1]] = job[cs[b][1]]
<1>1. cs[b] \in Seq(Task)
  BY DEF SInv, MasterTypes
<1>2. 1 \in DOMAIN cs[b] /\ cs[b][1] \in Task
  BY <1>1
<1>3. cs[b][1] # t
  BY <1>2 DEF SInv, Queued
<1>. QED  BY <1>2, <1>3 DEF OthersJob

\* CMD.login runs: nothing was behind it.
LEMMA RunLoginKeeps ==
  ASSUME TypeOK, InHand, NEW p \in Uid, SInv(p), NEW t \in Task, RunLogin(t)
  PROVE  SInv(p)'
<1>. USE DEF SInv
<1>0. /\ t[2] = "login" /\ job[t].at = "wait" /\ ~Idle(t) /\ Head(cs[job[t].agent]) = t /\ Finish(t)
      /\ session' = [session EXCEPT ![job[t].agent] = <<t[1], job[t].sub>>]
      /\ UNCHANGED <<masterVars, gateVars, loginVars>>
  BY DEF RunLogin, Runs, Idle
<1>. PICK a \in Agent : a = job[t].agent
  BY <1>0 DEF InHand
<1>1. t = <<p, "login">>
  BY <1>0 DEF Alone, Task
<1>2. /\ Queued' /\ cs' \in [Agent -> Seq(Task)] /\ OthersJob(t) /\ job'[t] = NoJob
      /\ \A b \in Agent \ {a} : cs'[b] = cs[b]
      /\ cs[a] # <<>> /\ cs[a][1] = t /\ cs'[a] = Tail(cs[a])
      /\ \A s \in Task \ {t} : job[s].agent = a => job[s].at \in {"none", "wait"}
  <2>1. job \in [Task -> Job] /\ cs \in [Agent -> Seq(Task)] /\ Queued
        /\ job[t].agent = a /\ Head(cs[a]) = t
        /\ job' = [job EXCEPT ![t] = NoJob] /\ cs' = [cs EXCEPT ![a] = Tail(@)]
    BY <1>0 DEF TypeOK, MasterTypes, Finish
  <2>. HIDE DEF SInv
  <2>2. Gone(t, a)
    BY <1>0, <2>1, QueuedFinish
  <2>. QED  BY <2>2 DEF Gone
<1>3. /\ gpc[p] = "call" /\ lpc[p] = "logging" /\ users[p] = NoUser /\ gagent[p] = a
      /\ job[t].sub = gname[p] /\ cs[a][Len(cs[a])] = t /\ internal_id # 0 /\ gname[p] = internal_id
  BY <1>0, <1>1 DEF Calls, LoginCall, Knows
<1>4. cs'[a] = <<>>
  <2>1. cs[a] \in Seq(Task)
    BY DEF MasterTypes
  <2>2. 1 \in DOMAIN cs[a] /\ Len(cs[a]) \in DOMAIN cs[a]
    BY <1>2, <2>1
  <2>3. Len(cs[a]) = 1
    BY <1>2, <1>3, <2>2 DEF Queued
  <2>4. cs'[a] \in Seq(Task) /\ Len(cs'[a]) = 0
    BY <1>2, <2>1, <2>3
  <2>. QED  BY <2>4
<1>5. session'[a] = <<p, gname[p]>> /\ \A b \in Agent \ {a} : session'[b] = session[b]
  <2>1. session' = [session EXCEPT ![a] = <<p, gname[p]>>]
    BY <1>0, <1>1, <1>3
  <2>. QED  BY <2>1 DEF TypeOK
<1>6. MasterTypes'
  BY <1>0, <1>2 DEF MasterTypes, masterVars, loginVars
<1>7. Alone(p)'
  <2>1. \A s \in Task : ~Idle(s)' => s[1] = p /\ s[2] # "client"
    BY <1>2, NoJobOK DEF Alone, Idle, OthersJob
  <2>2. \A s \in Task : s[2] \in {"login", "auth"} => job'[s].at \in {"none", "wait"}
    BY <1>2, NoJobOK DEF Alone, OthersJob
  <2>. QED  BY <1>0, <2>1, <2>2 DEF Alone, masterVars, gateVars, loginVars
<1>8. job'[<<p, "kick">>] = job[<<p, "kick">>] /\ Idle(<<p, "login">>)'
  BY <1>1, <1>2, MyTasks, NoJobOK DEF OthersJob, Idle
<1>9. Calls(p)' /\ LoginCall(p)'
  BY <1>0, <1>3, <1>4, <1>5, <1>8 DEF Calls, LoginCall, Idle, masterVars, gateVars, loginVars
<1>10. Serves(p)'
  <2>1. users'[p] = NoUser
    BY <1>0, <1>3 DEF gateVars
  <2>2. ASSUME NEW s \in Task, job'[s].at = "gate" PROVE Fits(s)'
    <3>1. s # t /\ job'[s] = job[s] /\ job[s].agent # a
      BY <1>2, <2>2, NoJobOK DEF OthersJob
    <3>2. job[s].agent \in Agent
      BY <2>2, <3>1 DEF InHand
    <3>3. Fits(s)
      BY <2>2, <3>1 DEF Serves
    <3>. QED  BY <1>5, <3>1, <3>2, <3>3 DEF Fits
  <2>3. ASSUME NEW b \in Agent, session'[b] # NoSession, b # a PROVE cs'[b] # <<>> /\ job'[cs'[b][1]].at \in Leaving
    <3>1. cs'[b] = cs[b] /\ cs[b] # <<>> /\ job[cs[b][1]].at \in Leaving
      BY <1>2, <1>3, <1>5, <2>3 DEF Serves
    <3>. QED  BY <1>2, <2>3, <3>1, OtherHeads
  <2>4. gpc'[p] = "call" /\ gagent'[p] = a
    BY <1>0, <1>3 DEF loginVars
  <2>. QED  BY <1>8, <2>1, <2>2, <2>3, <2>4 DEF Serves
<1>11. \A s \in Task : (Notifies(s) <=> Notifies(s)')
  BY <1>0, <1>2, NoJobOK DEF OthersJob, Notifies
<1>12. Knows(p)'
  BY <1>0, <1>3, <1>11 DEF Knows, masterVars, gateVars, loginVars
<1>13. Channel(p)'
  BY <1>0, <1>11 DEF Channel, masterVars
<1>. QED  BY <1>2, <1>6, <1>7, <1>9, <1>10, <1>12, <1>13

\* CMD.auth runs, or a logout is at its end.
LEMMA EndKeeps ==
  ASSUME TypeOK, InHand, NEW p \in Uid, SInv(p), NEW t \in Task, RunAuth(t) \/ Clear(t)
  PROVE  SInv(p)'
<1>. USE DEF SInv
<1>0. UNCHANGED <<masterVars, gateVars, loginVars>> /\ Finish(t) /\ ~Idle(t) /\ t[2] # "login"
  BY DEF RunAuth, Clear, Runs, Idle, Alone
<1>1. Head(cs[job[t].agent]) = t
  BY <1>0 DEF RunAuth, Clear, Runs, Alone
<1>. PICK a \in Agent : a = job[t].agent
  BY <1>0 DEF InHand, Idle
<1>2. \A b \in Agent \ {a} : session'[b] = session[b]
  BY DEF RunAuth, Clear, TypeOK
<1>3. /\ MasterTypes' /\ Alone(p)' /\ Queued' /\ Calls(p)' /\ LoginCall(p)'
      /\ cs[a] # <<>> /\ cs[a][1] = t
      /\ \A s \in Task \ {t} : job[s].agent = a => job[s].at \in {"none", "wait"}
      /\ OthersJob(t) /\ job'[t] = NoJob /\ \A b \in Agent \ {a} : cs'[b] = cs[b]
      /\ gpc[p] = "call" /\ gagent[p] = a => ~Idle(<<p, "login">>)
  BY <1>0, <1>1, <1>2, TaskEnds DEF gateVars, loginVars
<1>4. job'[<<p, "login">>] = job[<<p, "login">>] /\ UNCHANGED <<users, gpc, gagent>>
  <2>1. t # <<p, "login">>
    BY <1>0
  <2>. QED  BY <1>0, <1>3, <2>1, MyTasks DEF OthersJob, gateVars, loginVars
<1>5. CASE Clear(t)
  <2>0. job[t].at = "clear" /\ session'[a] = NoSession
    BY <1>5 DEF Clear, Runs, TypeOK
  <2>1. users[p] # NoUser => users[p].agent # a
    BY <2>0 DEF Serves, Leaving
  <2>2. Serves(p)'
    <3>1. users[p] # NoUser =>
            /\ users[p].sub # 0 /\ session'[users[p].agent] = <<p, users[p].sub>>
            /\ \A s \in Task : job'[s].agent = users[p].agent => job'[s].at \notin Leaving
      <4>1. users[p] # NoUser => users[p].agent \in Agent \ {a}
        BY <2>1 DEF TypeOK
      <4>. QED  BY <1>2, <1>3, <4>1, NoJobOK DEF Serves, OthersJob, Leaving
    <3>2. ASSUME NEW s \in Task, job'[s].at = "gate" PROVE Fits(s)'
      <4>1. s # t /\ job'[s] = job[s] /\ job[s].agent # a
        BY <1>3, <3>2, NoJobOK DEF OthersJob
      <4>2. job[s].agent \in Agent
        BY <3>2, <4>1 DEF InHand
      <4>3. Fits(s)
        BY <3>2, <4>1 DEF Serves
      <4>. QED  BY <1>2, <4>1, <4>2, <4>3 DEF Fits
    <3>3. ASSUME NEW b \in Agent, session'[b] # NoSession
          PROVE  \/ users[p] # NoUser /\ users[p].agent = b
                 \/ gpc[p] = "call" /\ gagent[p] = b /\ Idle(<<p, "login">>)
                 \/ cs'[b] # <<>> /\ job'[cs'[b][1]].at \in Leaving
      <4>1. b # a /\ cs'[b] = cs[b] /\ session[b] # NoSession
        BY <1>2, <1>3, <2>0, <3>3
      <4>2. cs[b] # <<>> => job'[cs'[b][1]] = job[cs[b][1]]
        BY <1>3, <4>1, OtherHeads
      <4>. QED  BY <4>1, <4>2 DEF Serves
    <3>. QED  BY <1>4, <3>1, <3>2, <3>3 DEF Serves, Idle
  <2>3. \A s \in Task : (Notifies(s) <=> Notifies(s)')
    BY <1>3, <2>0, NoJobOK DEF OthersJob, Notifies
  <2>4. Knows(p)'
    <3>1. CASE t = <<p, "kick">>
      <4>1. users[p] # NoUser => lpc[p] # "kicking"
        BY <2>1, <3>1 DEF Knows
      <4>2. lpc[p] = "kicking"
        BY <1>0, <3>1 DEF Calls
      <4>3. \A s \in Task : ~Notifies(s)
        BY <2>0, <3>1, <4>2 DEF Knows, Notifies
      <4>. QED  BY <1>0, <2>3, <4>1, <4>2, <4>3 DEF Knows, masterVars, gateVars, loginVars
    <3>2. CASE t # <<p, "kick">>
      <4>1. job'[<<p, "kick">>] = job[<<p, "kick">>]
        BY <1>3, <3>2, MyTasks DEF OthersJob
      <4>2. \A s \in Task : Notifies(s) => job'[s] = job[s]
        BY <1>3, <2>0 DEF OthersJob, Notifies
      <4>. QED  BY <1>0, <2>3, <4>1, <4>2 DEF Knows, Idle, masterVars, gateVars, loginVars
    <3>. QED  BY <3>1, <3>2
  <2>5. Channel(p)'
    BY <1>0, <2>3 DEF Channel, masterVars
  <2>. QED  BY <1>3, <2>2, <2>4, <2>5
<1>6. CASE RunAuth(t)
  <2>0. job[t].at = "wait" /\ session' = session /\ t # <<p, "kick">>
    BY <1>6 DEF RunAuth, Runs
  <2>1. job'[<<p, "kick">>] = job[<<p, "kick">>]
    BY <1>3, <2>0, MyTasks DEF OthersJob
  <2>2. Serves(p)'
    <3>1. users[p] # NoUser =>
            /\ users[p].sub # 0 /\ session'[users[p].agent] = <<p, users[p].sub>>
            /\ \A s \in Task : job'[s].agent = users[p].agent => job'[s].at \notin Leaving
      BY <1>3, <2>0, NoJobOK DEF Serves, OthersJob, Leaving
    <3>2. ASSUME NEW s \in Task, job'[s].at = "gate" PROVE Fits(s)'
      <4>1. job'[s] = job[s]
        BY <1>3, <3>2, NoJobOK DEF OthersJob
      <4>2. Fits(s)
        BY <3>2, <4>1 DEF Serves
      <4>. QED  BY <2>0, <4>1, <4>2 DEF Fits
    <3>3. ASSUME NEW b \in Agent, session'[b] # NoSession
          PROVE  \/ users[p] # NoUser /\ users[p].agent = b
                 \/ gpc[p] = "call" /\ gagent[p] = b /\ Idle(<<p, "login">>)
                 \/ cs'[b] # <<>> /\ job'[cs'[b][1]].at \in Leaving
      <4>1. CASE b = a
        BY <1>3, <2>0, <3>3, <4>1 DEF Serves, Leaving
      <4>2. CASE b # a
        <5>1. cs'[b] = cs[b] /\ session[b] # NoSession
          BY <1>3, <2>0, <3>3, <4>2
        <5>2. cs[b] # <<>> => job'[cs'[b][1]] = job[cs[b][1]]
          BY <1>3, <4>2, <5>1, OtherHeads
        <5>. QED  BY <5>1, <5>2 DEF Serves
      <4>. QED  BY <4>1, <4>2
    <3>. QED  BY <1>4, <3>1, <3>2, <3>3 DEF Serves, Idle
  <2>3. \A s \in Task : (Notifies(s) <=> Notifies(s)') /\ (Notifies(s) => job'[s] = job[s])
    BY <1>3, <2>0, NoJobOK DEF OthersJob, Notifies
  <2>4. Knows(p)'
    BY <1>0, <2>1, <2>3 DEF Knows, Idle, masterVars, gateVars, loginVars
  <2>5. Channel(p)'
    BY <1>0, <2>3 DEF Channel, masterVars
  <2>. QED  BY <1>3, <2>2, <2>4, <2>5
<1>. QED  BY <1>5, <1>6

\* A logout moves on between the agent and the gate, without a word to the master.
LEMMA MoveKeeps ==
  ASSUME TypeOK, InHand, NEW p \in Uid, SInv(p), NEW t \in Task,
         RunLogout(t) \/ CallGate(t) \/ PoolInsert(t) \/ Unload(t)
  PROVE  SInv(p)'
<1>. USE DEF SInv
<1>0. /\ UNCHANGED <<masterVars, users, internal_id, loginVars, session, cs>> /\ ~Idle(t)
      /\ job[t].at \in {"wait", "offline", "pool", "unload"}
  BY DEF RunLogout, CallGate, PoolInsert, Unload, Runs, Idle, gateVars
<1>. PICK a \in Agent : a = job[t].agent
  BY <1>0 DEF InHand, Idle
<1>1. t[2] # "client" /\ (job[t].at = "wait" => t[2] \in {"kick", "disc"} /\ Head(cs[a]) = t)
  BY <1>0 DEF RunLogout, CallGate, PoolInsert, Unload, Runs, Alone
<1>2. /\ OthersJob(t) /\ job'[t].agent = a
      /\ \/ job[t].at = "wait" /\ job'[t].at = "offline"
         \/ job[t].at = "offline" /\ job'[t].at = "gate" /\ Fits(t)'
         \/ job[t].at = "offline" /\ job'[t].at = "unload" /\ session[a] = NoSession
         \/ job[t].at \in Leaving \ {"notify"} /\ job'[t].at \in Leaving \ {"notify"}
  <2>0. job \in [Task -> Job] /\ job[t] \in Job
    BY DEF TypeOK
  <2>1. CASE RunLogout(t) \/ Unload(t)
    <3>1. \/ job' = [job EXCEPT ![t].at = "offline"] /\ job[t].at = "wait"
          \/ job' = [job EXCEPT ![t].at = "clear"] /\ job[t].at = "unload"
      BY <2>1 DEF RunLogout, Unload, Runs
    <3>. QED  BY <2>0, <3>1 DEF OthersJob, Job, Leaving
  <2>2. CASE PoolInsert(t)
    <3>1. PICK x : job' = [job EXCEPT ![t] = [job[t] EXCEPT !.at = "unload", !.uid = x, !.back = NoAgent]]
      BY <2>2 DEF PoolInsert, Answer
    <3>. QED  BY <2>0, <2>2, <3>1 DEF OthersJob, Job, Leaving, PoolInsert
  <2>3. CASE CallGate(t)
    <3>0. session[a] \in (Uid \X Nat) \cup {NoSession} /\ job[t].at = "offline"
      BY <2>3 DEF TypeOK, CallGate, Runs
    <3>1. CASE session[a] = NoSession
      <4>1. job' = [job EXCEPT ![t] = [job[t] EXCEPT !.at = "unload", !.uid = NoUid]]
        BY <2>3, <3>1 DEF CallGate
      <4>. QED  BY <2>0, <3>0, <3>1, <4>1 DEF OthersJob, Job
    <3>2. CASE session[a] # NoSession
      <4>1. job' = [job EXCEPT ![t] = [job[t] EXCEPT !.at = "gate", !.uid = session[a][1], !.sub = session[a][2]]]
        BY <2>3, <3>2 DEF CallGate
      <4>2. /\ OthersJob(t) /\ job'[t].agent = a /\ job'[t].at = "gate"
            /\ job'[t].uid = session[a][1] /\ job'[t].sub = session[a][2]
        BY <2>0, <4>1 DEF OthersJob, Job
      <4>3. session[a] = <<session[a][1], session[a][2]>>
        BY <3>0, <3>2
      <4>4. Fits(t)'
        BY <1>0, <3>2, <4>2, <4>3 DEF Fits
      <4>. QED  BY <3>0, <4>2, <4>4
    <3>. QED  BY <3>1, <3>2
  <2>. QED  BY <2>1, <2>2, <2>3
<1>3. ~Idle(t)'
  BY <1>2 DEF Idle, Leaving
<1>4. /\ MasterTypes' /\ Alone(p)' /\ Queued' /\ Calls(p)' /\ LoginCall(p)'
      /\ cs[a] # <<>> /\ cs[a][1] = t
      /\ \A s \in Task \ {t} : job[s].agent = a => job[s].at \in {"none", "wait"}
      /\ t # <<p, "login">>
  <2>1. online' \in [Uid -> Nat]
    BY <1>0 DEF MasterTypes, masterVars
  <2>. QED  BY <1>0, <1>1, <1>2, <1>3, <2>1, TaskMoves DEF masterVars, loginVars
<1>5. job'[<<p, "login">>] = job[<<p, "login">>]
  BY <1>2, <1>4, MyTasks DEF OthersJob
<1>6. Serves(p)'
  <2>1. users[p] # NoUser =>
          /\ users[p].sub # 0 /\ session[users[p].agent] = <<p, users[p].sub>>
          /\ \A s \in Task : job'[s].agent = users[p].agent => job'[s].at \notin Leaving
    <3>1. users[p] # NoUser => session[users[p].agent] # NoSession
      BY DEF Serves, NoSession
    <3>. QED  BY <1>2, <3>1 DEF Serves, OthersJob, Leaving
  <2>2. \A s \in Task : job'[s].at = "gate" => Fits(s)'
    BY <1>0, <1>2 DEF Serves, Fits, OthersJob, Leaving
  <2>3. ASSUME NEW b \in Agent, session[b] # NoSession
        PROVE  \/ users[p] # NoUser /\ users[p].agent = b
               \/ gpc[p] = "call" /\ gagent[p] = b /\ Idle(<<p, "login">>)
               \/ cs[b] # <<>> /\ job'[cs[b][1]].at \in Leaving
    <3>1. CASE b = a
      <4>1. job[t].at \in Leaving => job'[t].at \in Leaving
        BY <1>2 DEF Leaving
      <4>. QED  BY <1>4, <2>3, <3>1, <4>1 DEF Serves
    <3>2. CASE b # a
      <4>1. cs[b] # <<>> => job'[cs[b][1]] = job[cs[b][1]]
        BY <1>0, <1>2, <3>2, OtherHeads
      <4>. QED  BY <2>3, <4>1 DEF Serves
    <3>. QED  BY <3>1, <3>2
  <2>. QED  BY <1>0, <1>5, <2>1, <2>2, <2>3 DEF Serves, Idle, loginVars
<1>7. \A s \in Task : (Notifies(s) <=> Notifies(s)') /\ (Notifies(s) => job'[s] = job[s])
  BY <1>0, <1>2 DEF OthersJob, Notifies, Leaving
<1>8. Knows(p)'
  <2>1. /\ (~Idle(<<p, "kick">>) => ~Idle(<<p, "kick">>)')
        /\ job'[<<p, "kick">>].agent = job[<<p, "kick">>].agent
    BY <1>2, <1>3, MyTasks DEF OthersJob, Idle
  <2>2. ASSUME NEW s \in Task, Notifies(s), s # <<p, "kick">>, lpc[p] = "kicking"
        PROVE  job'[<<p, "kick">>].at = "wait"
    <3>1. job[<<p, "kick">>].at = "wait" /\ job[<<p, "kick">>].agent = job[s].agent
      BY <2>2 DEF Knows
    <3>2. CASE t = <<p, "kick">>
      BY <1>4, <2>2, <3>1, <3>2 DEF Notifies
    <3>3. CASE t # <<p, "kick">>
      BY <1>2, <3>1, <3>3, MyTasks DEF OthersJob
    <3>. QED  BY <3>2, <3>3
  <2>. QED  BY <1>0, <1>7, <2>1, <2>2 DEF Knows, masterVars, loginVars
<1>9. Channel(p)'
  BY <1>0, <1>7 DEF Channel, masterVars
<1>. QED  BY <1>4, <1>6, <1>8, <1>9

\* logout_handler: the agent that calls is the one of the session, and the subid
\* is the session's: the session goes.
LEMMA GateLogoutKeeps ==
  ASSUME TypeOK, InHand, NEW p \in Uid, SInv(p), NEW t \in Task, GateLogout(t)
  PROVE  SInv(p)'
<1>. USE DEF SInv
<1>0. job[t].at = "gate" /\ ~Idle(t) /\ UNCHANGED <<online, lpc, ksub, internal_id, loginVars, session>>
  BY DEF GateLogout, Idle
<1>. PICK a \in Agent : a = job[t].agent
  BY <1>0 DEF InHand
<1>1. cs[a] # <<>> /\ cs[a][1] = t
  <2>1. \E k \in DOMAIN cs[a] : cs[a][k] = t
    BY <1>0 DEF Queued
  <2>. QED  BY <1>0, <2>1 DEF Queued
<1>2. users[p] # NoUser /\ users[p].agent = a /\ job[t].uid = p /\ job[t].sub = users[p].sub
  <2>1. session[a] = <<job[t].uid, job[t].sub>> /\ session[a] # NoSession
    BY <1>0 DEF Serves, Fits
  <2>2. users[p] # NoUser /\ users[p].agent = a
    BY <1>0, <1>1, <2>1 DEF Serves, Leaving, LoginCall, Idle
  <2>. QED  BY <2>1, <2>2 DEF Serves
<1>3. /\ users' = [users EXCEPT ![p] = NoUser] /\ chan' = Append(chan, t)
      /\ job' = [job EXCEPT ![t].at = "notify", ![t].back = a] /\ UNCHANGED cs
  BY <1>2 DEF GateLogout
<1>4. users'[p] = NoUser /\ \A v \in Uid \ {p} : users'[v] = users[v]
  BY <1>3 DEF TypeOK
<1>5. OthersJob(t) /\ job'[t].at = "notify" /\ job'[t].agent = a
  BY <1>3 DEF TypeOK, Job, OthersJob
<1>6. /\ MasterTypes' /\ Alone(p)' /\ Queued' /\ Calls(p)' /\ LoginCall(p)'
      /\ \A s \in Task \ {t} : job[s].agent = a => job[s].at \in {"none", "wait"}
      /\ t # <<p, "login">>
  <2>1. online' \in [Uid -> Nat] /\ ~Idle(t)' /\ job[t].at # "wait"
    BY <1>0, <1>5 DEF MasterTypes, Idle
  <2>. QED  BY <1>0, <1>3, <1>4, <1>5, <2>1, TaskMoves DEF loginVars
<1>7. Serves(p)'
  <2>1. \A s \in Task : job'[s].at = "gate" => Fits(s)'
    BY <1>0, <1>5 DEF Serves, Fits, OthersJob
  <2>2. job'[<<p, "login">>] = job[<<p, "login">>]
    BY <1>5, <1>6, MyTasks DEF OthersJob
  <2>3. ASSUME NEW b \in Agent, session[b] # NoSession
        PROVE  \/ gpc[p] = "call" /\ gagent[p] = b /\ Idle(<<p, "login">>)
               \/ cs[b] # <<>> /\ job'[cs[b][1]].at \in Leaving
    <3>1. CASE b = a
      BY <1>1, <1>5, <3>1 DEF Leaving
    <3>2. CASE b # a
      <4>1. cs[b] # <<>> => job'[cs[b][1]] = job[cs[b][1]]
        BY <1>3, <1>5, <3>2, OtherHeads
      <4>. QED  BY <1>2, <2>3, <3>2, <4>1 DEF Serves
    <3>. QED  BY <3>1, <3>2
  <2>. QED  BY <1>0, <1>3, <1>4, <2>1, <2>2, <2>3 DEF Serves, Idle, loginVars
<1>8. \A s \in Task : ~Notifies(s) /\ (Notifies(s)' <=> s = t)
  BY <1>2, <1>5 DEF Knows, OthersJob, Notifies
<1>9. Knows(p)'
  <2>1. ASSUME lpc[p] = "kicking", t # <<p, "kick">>
        PROVE  job'[<<p, "kick">>].at = "wait" /\ job'[<<p, "kick">>].agent = a
    <3>1. ~Idle(<<p, "kick">>) /\ job[<<p, "kick">>].agent = a
      BY <1>2, <2>1 DEF Knows
    <3>. QED  BY <1>5, <1>6, <2>1, <3>1, MyTasks DEF OthersJob, Idle
  <2>2. lpc[p] \notin {"recheck", "login", "logging"} /\ (lpc[p] = "idle" => online[p] # 0)
    BY <1>2 DEF Knows, Serves
  <2>. QED  BY <1>0, <1>4, <1>5, <1>8, <2>1, <2>2 DEF Knows, loginVars
<1>10. Channel(p)'
  <2>1. lpc[p] # "forget" /\ chan = <<>>
    BY <1>2, <1>8 DEF Knows, Channel
  <2>2. chan' = <<t>>
    BY <1>3, <2>1
  <2>3. chan' = <<t>> \o <<>>
    BY <2>2
  <2>. QED  BY <1>0, <1>8, <2>1, <2>3 DEF Channel
<1>. QED  BY <1>6, <1>7, <1>9, <1>10

\* The master hears of a logout: of the only one there is.
LEMMA MasterLogoutKeeps ==
  ASSUME TypeOK, InHand, NEW p \in Uid, SInv(p), NEW t \in Task, MasterLogout(t)
  PROVE  SInv(p)'
<1>. USE DEF SInv
<1>0. /\ job[t].at = "notify" /\ ~Idle(t) /\ Notifies(t) /\ Head(chan) = t /\ chan' = Tail(chan)
      /\ UNCHANGED <<lpc, ksub, gateVars, loginVars, session, cs>>
      /\ online' = [online EXCEPT ![job[t].uid] = 0]
      /\ job' = [job EXCEPT ![t].at = "pool"]
  BY DEF MasterLogout, Idle, Notifies
<1>. PICK a \in Agent : a = job[t].agent
  BY <1>0 DEF InHand
<1>1. OthersJob(t) /\ job'[t].at = "pool" /\ job'[t].agent = a
  BY <1>0 DEF TypeOK, Job, OthersJob
<1>2. /\ MasterTypes' /\ Alone(p)' /\ Queued' /\ Calls(p)' /\ LoginCall(p)'
      /\ cs[a] # <<>> /\ cs[a][1] = t /\ t # <<p, "login">>
  <2>1. online' \in [Uid -> Nat] /\ ~Idle(t)' /\ job[t].at # "wait"
    BY <1>0, <1>1 DEF MasterTypes, Idle
  <2>. QED  BY <1>0, <1>1, <2>1, TaskMoves DEF loginVars, gateVars
<1>3. users[p] = NoUser
  BY <1>0 DEF Knows
<1>4. Serves(p)'
  <2>1. \A s \in Task : job'[s].at = "gate" => Fits(s)'
    BY <1>0, <1>1 DEF Serves, Fits, OthersJob
  <2>2. job'[<<p, "login">>] = job[<<p, "login">>]
    BY <1>1, <1>2, MyTasks DEF OthersJob
  <2>3. ASSUME NEW b \in Agent, session[b] # NoSession
        PROVE  \/ gpc[p] = "call" /\ gagent[p] = b /\ Idle(<<p, "login">>)
               \/ cs[b] # <<>> /\ job'[cs[b][1]].at \in Leaving
    <3>1. CASE b = a
      BY <1>1, <1>2, <3>1 DEF Leaving
    <3>2. CASE b # a
      <4>1. cs[b] # <<>> => job'[cs[b][1]] = job[cs[b][1]]
        BY <1>0, <1>1, <3>2, OtherHeads
      <4>. QED  BY <1>3, <2>3, <4>1 DEF Serves
    <3>. QED  BY <3>1, <3>2
  <2>. QED  BY <1>0, <1>3, <2>1, <2>2, <2>3 DEF Serves, Idle, loginVars, gateVars
<1>5. PICK last : /\ last = (IF lpc[p] = "forget" THEN <<<<p, "forget">>>> ELSE <<>>)
                  /\ chan = <<t>> \o last /\ \A s \in Task : Notifies(s) => s = t
  BY <1>0 DEF Channel
<1>6. \A s \in Task : ~Notifies(s)'
  BY <1>0, <1>1, <1>5 DEF OthersJob, Notifies
<1>7. Knows(p)'
  BY <1>0, <1>3, <1>6 DEF Knows, loginVars, gateVars
<1>8. Channel(p)'
  <2>1. chan' = last
    BY <1>0, <1>5
  <2>. QED  BY <1>0, <1>5, <1>6, <2>1 DEF Channel
<1>. QED  BY <1>2, <1>4, <1>7, <1>8

LEMMA CrashKeeps ==
  ASSUME TypeOK, NEW p \in Uid, SInv(p), Crash
  PROVE  SInv(p)'
<1>. USE DEF SInv
<1>1. /\ chan' = <<>> /\ users' = [u \in Uid |-> NoUser] /\ gpc' = [u \in Uid |-> "idle"]
      /\ session' = [a \in Agent |-> NoSession] /\ cs' = [a \in Agent |-> <<>>]
      /\ job' = [t \in Task |-> NoJob] /\ UNCHANGED <<ksub, reply>>
  BY DEF Crash
<1>2. lpc' = [u \in Uid |-> CASE lpc[u] \in {"kick", "kicking", "forget"} -> "recheck"
                              [] lpc[u] \in {"login", "logging"} -> "idle"
                              [] OTHER -> lpc[u]]
  BY DEF Crash
<1>3. \A u \in Uid : /\ lpc'[u] \in {"recheck", "idle", "reply"}
                     /\ (lpc'[u] = "reply" => lpc[u] = "reply") /\ (lpc[u] = "idle" => lpc'[u] = "idle")
  BY <1>2 DEF MasterTypes, LoginPoint
<1>4. online' \in [Uid -> Nat]
  <2>1. PICK got : online' = [u \in Uid |-> IF u \in got \/ lpc[u] \in {"kick", "kicking", "forget"} THEN 0
                                            ELSE online[u]]
    BY DEF Crash
  <2>. QED  BY <2>1 DEF MasterTypes
<1>5. MasterTypes'
  BY <1>1, <1>2, <1>3, <1>4 DEF MasterTypes, LoginPoint
<1>6. \A t \in Task : job'[t] = NoJob /\ job'[t].at = "none"
  BY <1>1, NoJobOK
<1>7. Alone(p)'
  BY <1>1, <1>3, <1>6 DEF Alone, Idle
<1>8. Queued'
  BY <1>1, <1>6 DEF Queued, Idle
<1>9. Calls(p)' /\ LoginCall(p)'
  BY <1>1, <1>3, <1>6, MyTasks DEF Calls, LoginCall, Idle
<1>10. Serves(p)'
  BY <1>1, <1>6 DEF Serves
<1>11. Knows(p)' /\ Channel(p)'
  BY <1>1, <1>3, <1>6 DEF Knows, Channel, Notifies
<1>. QED  BY <1>5, <1>7, <1>8, <1>9, <1>10, <1>11

-----------------------------------------------------------------------------
\* The game server of one player who does not log out himself.
OneOrder == InOrder => \A p \in Uid : inst.players = {p} => SInv(p)

LEMMA InitSInv == Init => OneOrder
<1>. SUFFICES ASSUME Init, NEW p \in Uid PROVE SInv(p)
  BY DEF OneOrder
<1>1. \A t \in Task : job[t] = NoJob /\ job[t].at = "none"
  BY NoJobOK DEF Init
<1>2. MasterTypes
  BY DEF Init, MasterTypes, LoginPoint
<1>3. Alone(p) /\ Queued
  BY <1>1 DEF Init, Alone, Queued, Idle
<1>4. Calls(p) /\ LoginCall(p) /\ Serves(p)
  BY <1>1, MyTasks DEF Init, Calls, LoginCall, Serves, Idle
<1>5. Knows(p) /\ Channel(p)
  BY <1>1 DEF Init, Knows, Channel, Notifies
<1>. QED  BY <1>2, <1>3, <1>4, <1>5 DEF SInv

LEMMA NextSInv == IInv /\ OneOrder /\ [Next]_vars => OneOrder'
<1>. SUFFICES ASSUME IInv, OneOrder, [Next]_vars PROVE OneOrder'
  OBVIOUS
<1>0. inst' = inst
  <2>1. ASSUME NEW u \in Uid, MasterStep(u) PROVE inst' = inst
    BY <2>1 DEF MasterStep, Recheck, LoginReply, Forget, Kicked, playerVars
  <2>2. ASSUME NEW u \in Uid, GateStep(u) PROVE inst' = inst
    BY <2>2 DEF GateStep, Kick, Login, NewAgent, LoginReturn, playerVars
  <2>3. ASSUME NEW u \in Uid, PlayerStep(u) PROVE inst' = inst
    BY <2>3 DEF PlayerStep, Accept, Connect, Disconnect, ClientLogout, playerVars
  <2>4. ASSUME NEW t \in Task, TaskStep(t) PROVE inst' = inst
    BY <2>4 DEF TaskStep, RunLogin, RunAuth, RunLogout, CallGate, GateLogout, MasterLogout, PoolInsert,
       Unload, Clear, playerVars
  <2>5. Crash => inst' = inst
    BY DEF Crash
  <2>. QED  BY <2>1, <2>2, <2>3, <2>4, <2>5 DEF Next, vars, playerVars
<1>. SUFFICES ASSUME NEW p \in Uid, inst.players = {p}, ~inst.user_logout, SInv(p)
              PROVE  SInv(p)'
  BY <1>0 DEF OneOrder, InOrder
<1>. USE DEF IInv
<1>1. ASSUME NEW u \in Uid, MasterStep(u) \/ GateStep(u) \/ PlayerStep(u) PROVE SInv(p)'
  <2>1. ~ClientLogout(u)
    BY DEF ClientLogout
  <2>2. CASE MasterStep(u)
    BY <2>2, MasterKeeps
  <2>3. CASE Kick(u)
    BY <2>3, KickKeeps
  <2>4. CASE Login(u) \/ NewAgent(u)
    BY <2>4, LoginKeeps
  <2>5. CASE LoginReturn(u)
    BY <2>5, LoginReturnKeeps
  <2>6. CASE Accept(u)
    BY <2>6, AcceptKeeps
  <2>7. CASE Connect(u) \/ Disconnect(u)
    BY <2>7, ConnKeeps
  <2>. QED  BY <1>1, <2>1, <2>2, <2>3, <2>4, <2>5, <2>6, <2>7 DEF GateStep, PlayerStep
<1>2. ASSUME NEW t \in Task, TaskStep(t) PROVE SInv(p)'
  <2>1. CASE RunLogin(t)
    BY <2>1, RunLoginKeeps
  <2>2. CASE RunAuth(t) \/ Clear(t)
    BY <2>2, EndKeeps
  <2>3. CASE RunLogout(t) \/ CallGate(t) \/ PoolInsert(t) \/ Unload(t)
    BY <2>3, MoveKeeps
  <2>4. CASE GateLogout(t)
    BY <2>4, GateLogoutKeeps
  <2>5. CASE MasterLogout(t)
    BY <2>5, MasterLogoutKeeps
  <2>. QED  BY <1>2, <2>1, <2>2, <2>3, <2>4, <2>5 DEF TaskStep
<1>3. CASE Crash
  BY <1>3, CrashKeeps
<1>4. CASE UNCHANGED vars
  <2>. USE <1>4 DEF SInv, vars, masterVars, gateVars, loginVars, agentVars
  <2>1. MasterTypes' /\ Alone(p)' /\ Calls(p)'
    BY DEF MasterTypes, Alone, Calls, Idle
  <2>2. Queued'
    BY DEF Queued, Idle
  <2>3. LoginCall(p)'
    BY DEF LoginCall
  <2>4. Serves(p)'
    BY DEF Serves, Fits, Idle
  <2>5. Knows(p)' /\ Channel(p)'
    BY DEF Knows, Channel, Notifies, Idle
  <2>. QED  BY <2>1, <2>2, <2>3, <2>4, <2>5
<1>. QED  BY <1>1, <1>2, <1>3, <1>4 DEF Next

\* The player of a configuration in order.
LEMMA ThePlayer ==
  ASSUME IInv, OneOrder, InOrder
  PROVE  \E p \in Uid : inst.players = {p} /\ SInv(p)
BY DEF OneOrder, InOrder

\* A player who logs in with nobody else about and leaves logging out to the game:
\* when nothing is under way for him, the login master knows his session by its
\* subid, for any pool and number of agents, through kicks, reconnections and
\* crashes of the game server at any moment.
THEOREM MasterKnowsSession == Spec => []SessionKnown
<1>1. ASSUME IInv, OneOrder PROVE SessionKnown
  <2>. SUFFICES ASSUME InOrder, NEW u \in Uid, Quiet(u), users[u] # NoUser PROVE online[u] = users[u].sub
    BY DEF SessionKnown
  <2>. PICK p \in Uid : SInv(p)
    BY <1>1, ThePlayer
  <2>1. u = p
    BY ActsAlone DEF SInv
  <2>. QED  BY <2>1 DEF SInv, Knows, Quiet
<1>. QED  BY <1>1, InitIInv, NextIInv, InitSInv, NextSInv, PTL DEF Spec

\* ... the gate is never asked to log him in while he is logged in;
THEOREM LoginFindsNobody == Spec => []NeverAlreadyLogin
<1>1. ASSUME IInv, OneOrder PROVE NeverAlreadyLogin
  <2>. SUFFICES ASSUME InOrder, NEW u \in Uid, lpc[u] = "login" PROVE users[u] = NoUser
    BY DEF NeverAlreadyLogin
  <2>. PICK p \in Uid : SInv(p)
    BY <1>1, ThePlayer
  <2>1. u = p
    BY ActsAlone DEF SInv
  <2>. QED  BY <2>1 DEF SInv, Knows
<1>. QED  BY <1>1, InitIInv, NextIInv, InitSInv, NextSInv, PTL DEF Spec

\* ... and the agent of his session serves him and not the session before.
THEOREM AgentServesPlayer == Spec => []AgentServes
<1>1. ASSUME IInv, OneOrder PROVE AgentServes
  <2>. SUFFICES ASSUME InOrder, NEW u \in Uid, users[u] # NoUser PROVE session[users[u].agent][1] = u
    BY DEF AgentServes
  <2>. PICK p \in Uid : SInv(p)
    BY <1>1, ThePlayer
  <2>1. u = p
    BY ActsAlone DEF SInv
  <2>2. session[users[u].agent] = <<u, users[u].sub>>
    BY <2>1 DEF SInv, Serves
  <2>. QED  BY <2>2
<1>. QED  BY <1>1, InitIInv, NextIInv, InitSInv, NextSInv, PTL DEF Spec

=============================================================================
