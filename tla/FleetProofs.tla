----------------------------- MODULE FleetProofs -----------------------------
(***************************************************************************)
(* Proofs about the dispatch core together with its worker agents, for any *)
(* number of agents, server threads, jobs and mishaps: the composition is  *)
(* the core of module Orchestrator with callers of a certain kind, no      *)
(* agent waits for a request the server no longer has, and as long as      *)
(* nothing has gone wrong whoever runs a job holds its lease.              *)
(***************************************************************************)
EXTENDS Fleet, OrchestratorProofs

-----------------------------------------------------------------------------
(* The invariant, in parts that name what they speak of. *)

\* There are no observers, nobody attests, and a heartbeat never names a job.
Plain(table, f) ==
  /\ \A w \in Workers : ~table[w].measureOnly
  /\ \A t \in Threads :
       /\ f[t].op # "derive"
       /\ f[t].op \in {"reap", "pick", "beat"} => ~f[t].measureOnly
       /\ f[t].op = "beat" => f[t].job = NoJob

\* An agent x that waits has a request of its own with the server; one that does not has none it
\* would take an answer from.
SoundAt(x, w, f) ==
  /\ x.phase \in {"idle", "running"} => x.via = NoThread
  /\ x.phase \in {"running", "reporting"} => x.job \in Jobs
  /\ x.phase = "polling" =>
       x.via \in Threads /\ f[x.via].op \in {"reap", "pick"} /\ f[x.via].w = w
  /\ x.phase = "reporting" => x.via \in Threads /\ f[x.via].op = "result" /\ f[x.via].w = w

Sound(a, f) == \A w \in Workers : SoundAt(a[w], w, f)

\* Whoever sent a poll or a report that is being served still waits for its answer.
NoOrphan(a, f) ==
  \A t \in Threads : /\ f[t].op # "drop"
                     /\ f[t].op \in {"reap", "pick", "result"} => a[f[t].w].via = t

\* A running job is leased to its worker for longer than it still takes.
Covered(a, table) ==
  \A w \in Workers : a[w].phase = "running" =>
    /\ table[a[w].job].state = "leased" /\ table[a[w].job].holder = w
    /\ table[a[w].job].left > a[w].left

JobsAreShort == \A j \in Jobs : JobTicks[j] < LeaseTicks

\* What holds of the agents besides the core's types.
AgentInv ==
  /\ agent \in [Workers -> AgentState]
  /\ faults \in 0..MaxFaults
  /\ Plain(workers, inflight)
  /\ Sound(agent, inflight)
  /\ faults = 0 => NoOrphan(agent, inflight) /\ (JobsAreShort => Covered(agent, jobs))

FInv == TypeOK /\ AgentInv

-----------------------------------------------------------------------------
(* Every step of the fleet is one of the core. *)

\* An agent registers with what its machine has, and no agent only measures.
LEMMA FleetConstants ==
  /\ Threads \subseteq Nat /\ NoThread \notin Threads /\ MaxFaults \in Nat
  /\ JobTicks \in [Jobs -> Nat] /\ NoJob \notin Jobs
  /\ \A w \in Workers : /\ Advertised[w] \in Capabilities /\ ~Advertised[w].measureOnly
                        /\ Advertised[w].ram \in RamLevels /\ Load[w] \in LoadLevels
BY FleetAssumption, ConstantsAssumption DEF Jobs, NoJob

\* What an agent, the server, a client or a mishap does, the core allows.
LEMMA FleetStepIsCore ==
  ASSUME FInv, [FleetNext]_fleetVars
  PROVE  [Next]_vars
<1>. USE FleetConstants
<1>1. ASSUME NEW t \in Threads, NEW w \in Workers, Register(t, w, Advertised[w])
      PROVE  Next
  BY <1>1 DEF Next, Registration
<1>2. ASSUME NEW t \in Threads, NEW w \in Workers,
             HeartbeatAuth(t, w, NoJob, Load[w], Advertised[w].ram)
      PROVE  Next
  BY <1>2 DEF Next, Beat
<1>3. ASSUME NEW t \in Threads, NEW w \in Workers, NEW j \in Jobs, NEW v \in Verdicts,
             ResultAuth(t, w, j, v)
      PROVE  Next
  BY <1>3 DEF Next, Report
<1>4. ASSUME NEW w \in Workers, AgentStep(w) PROVE Next \/ UNCHANGED vars
  <2>1. CASE Join(w)
    BY <1>1, <2>1 DEF Join
  <2>2. CASE AskApproval(w) \/ UsageBeat(w)
    BY <1>2, <2>2 DEF AskApproval, UsageBeat
  <2>3. CASE AskJob(w)
    BY <2>3 DEF AskJob, Next, Poll
  <2>4. CASE ReportJob(w)
    <3>1. agent[w].job \in Jobs
      BY <2>4 DEF ReportJob, FInv, AgentInv, Sound, SoundAt
    <3>2. PICK t \in Threads : ResultAuth(t, w, agent[w].job, "ok")
      BY <2>4 DEF ReportJob, Send
    <3>. QED  BY <1>3, <3>1, <3>2 DEF Verdicts
  <2>5. CASE ReportRefused(w) \/ BeatRefused(w)
    BY <2>5 DEF ReportRefused, BeatRefused
  <2>. QED  BY <1>4, <2>1, <2>2, <2>3, <2>4, <2>5 DEF AgentStep
<1>5. ASSUME NEW t \in Threads, Handle(t) PROVE Next
  <2>1. CASE PollReap(t) \/ PollEmpty(t) \/ \E j \in Jobs : Assign(t, j)
    BY <2>1 DEF Assign, Next, Poll
  <2>2. CASE (\E d \in 0..MaxDelay : Heartbeat(t, d))
    BY <2>2 DEF Next, Beat
  <2>3. CASE Settle(t)
    BY <2>3 DEF Settle, Next, Report
  <2>4. CASE DisconnectWorker(t)
    BY <2>4 DEF Next, Operator
  <2>. QED  BY <1>5, <2>1, <2>2, <2>3, <2>4 DEF Handle
<1>6. CASE Submission \/ Approval \/ FleetTick
  BY <1>6 DEF Submission, Approval, FleetTick, Next, Operator
<1>7. CASE Mishap
  <2>1. ASSUME NEW w \in Workers, JoinUnanswered(w) PROVE Next
    BY <1>1, <2>1 DEF JoinUnanswered
  <2>2. ASSUME NEW w \in Workers, YieldJob(w) PROVE Next
    <3>1. agent[w].job \in Jobs
      BY <2>2 DEF YieldJob, FInv, AgentInv, Sound, SoundAt
    <3>2. PICK t \in Threads : ResultAuth(t, w, agent[w].job, "returned")
      BY <2>2 DEF YieldJob, Send
    <3>. QED  BY <1>3, <3>1, <3>2 DEF Verdicts
  <2>3. ASSUME NEW w \in Workers, GiveUp(w) \/ AgentRestart(w) PROVE UNCHANGED vars
    BY <2>3 DEF GiveUp, AgentRestart
  <2>4. CASE Disconnection
    BY <2>4 DEF Disconnection, Next, Operator
  <2>5. CASE ServerRestart
    BY <2>5 DEF ServerRestart, Next
  <2>. QED  BY <1>7, <2>1, <2>2, <2>3, <2>4, <2>5 DEF Mishap
<1>8. CASE UNCHANGED fleetVars
  BY <1>8 DEF fleetVars, vars
<1>. QED  BY <1>4, <1>5, <1>6, <1>7, <1>8 DEF FleetNext

-----------------------------------------------------------------------------
(* Lemmas about one agent. *)

\* The ways an agent's record changes keep its shape.
LEMMA AgentUpdates ==
  ASSUME NEW x \in AgentState
  PROVE  /\ LoopAgain(x) \in AgentState /\ Unregistered(x) \in AgentState /\ Fresh \in AgentState
         /\ \A b \in BOOLEAN : [x EXCEPT !.registered = TRUE, !.approved = b] \in AgentState
         /\ \A b \in BOOLEAN : [x EXCEPT !.approved = b] \in AgentState
         /\ \A t \in Threads : [x EXCEPT !.phase = "polling", !.via = t] \in AgentState
         /\ \A t \in Threads : [x EXCEPT !.phase = "reporting", !.via = t] \in AgentState
         /\ \A j \in Jobs : StartJob(x, j) \in AgentState
         /\ x.phase = "running" /\ x.left > 0 => [x EXCEPT !.left = @ - 1] \in AgentState
<1>1. LoopAgain(x) \in AgentState /\ Unregistered(x) \in AgentState /\ Fresh \in AgentState
  BY DEF AgentState, LoopAgain, Unregistered, Fresh
<1>2. \A j \in Jobs : StartJob(x, j) \in AgentState
  BY FleetConstants DEF AgentState, StartJob
<1>3. x.phase = "running" /\ x.left > 0 => [x EXCEPT !.left = @ - 1] \in AgentState
  BY DEF AgentState
<1>. QED  BY <1>1, <1>2, <1>3 DEF AgentState

\* Back in its main loop an agent waits for nothing.
LEMMA LoopSound ==
  ASSUME NEW x \in AgentState, NEW w, NEW f
  PROVE  SoundAt(LoopAgain(x), w, f) /\ SoundAt(Fresh, w, f)
         /\ LoopAgain(x).phase = "idle" /\ LoopAgain(x).via = NoThread /\ Fresh.phase = "idle"
BY DEF SoundAt, LoopAgain, Fresh, AgentState

\* What is served by an idle thread is nobody's answer.
LEMMA ServeSound ==
  ASSUME NEW x, NEW w, NEW f, SoundAt(x, w, f), NEW t, f[t].op = "idle", NEW g,
         \A u \in Threads : u # t => g[u] = f[u]
  PROVE  SoundAt(x, w, g)
BY DEF SoundAt

\* Nor is the end of a request it does not wait for.
LEMMA ReplySound ==
  ASSUME NEW x, NEW w, NEW f, SoundAt(x, w, f), NEW t, x.via # t, NEW g,
         \A u \in Threads : u # t => g[u] = f[u]
  PROVE  SoundAt(x, w, g)
BY DEF SoundAt

\* An agent that waits for thread t: for a poll or a report, and of its own.
LEMMA WaitsFor ==
  ASSUME NEW x \in AgentState, NEW w, NEW f, SoundAt(x, w, f), x.via \in Threads
  PROVE  /\ Waiting(x) /\ f[x.via].w = w /\ f[x.via].op \in {"reap", "pick", "result"}
         /\ x.phase = "polling" => f[x.via].op \in {"reap", "pick"}
         /\ x.phase = "reporting" => f[x.via].op = "result"
BY FleetConstants DEF SoundAt, AgentState, Waiting

-----------------------------------------------------------------------------
(* What a step may leave alone. *)

\* Nothing that is said of the agents changes with a row that measures nothing, or with jobs that
\* are not leased.
LEMMA CoveredKept ==
  ASSUME NEW a, NEW table, Covered(a, table), NEW table2,
         \A w \in Workers : a[w].phase = "running" => table2[a[w].job] = table[a[w].job]
  PROVE  Covered(a, table2)
BY DEF Covered

\* Whoever starts no job is covered as before.
LEMMA CoveredAgents ==
  ASSUME NEW a, NEW table, Covered(a, table), NEW b,
         \A w \in Workers : b[w].phase = "running" =>
            a[w].phase = "running" /\ b[w].job = a[w].job /\ b[w].left = a[w].left
  PROVE  Covered(b, table)
BY DEF Covered

-----------------------------------------------------------------------------
(* Agents' requests. *)

\* The workers table after a registration or an approval has no observers.
LEMMA RegisterPlain ==
  ASSUME FInv, NEW t \in Threads, NEW w \in Workers, Register(t, w, Advertised[w])
  PROVE  Plain(workers', inflight') /\ inflight' = inflight /\ jobs' = jobs
         /\ workers'[w].approved \in BOOLEAN
<1>1. workers \in [Workers -> WorkerRow] /\ Plain(workers, inflight) /\ RequireApproval \in BOOLEAN
  BY ConstantsAssumption DEF FInv, TypeOK, AgentInv
<1>2. workers' = [workers EXCEPT ![w] = RegisterRow(w, Advertised[w])] /\ UNCHANGED <<jobs, inflight>>
  BY DEF Register
<1>3. /\ RegisterRow(w, Advertised[w]).measureOnly = Advertised[w].measureOnly
      /\ RegisterRow(w, Advertised[w]).approved \in BOOLEAN
  BY <1>1 DEF RegisterRow, WorkerRow
<1>. QED  BY <1>1, <1>2, <1>3, FleetConstants DEF Plain

\* An agent whose standing changed, but nothing of what it is doing.
LEMMA OnlyStanding ==
  ASSUME NEW a \in [Workers -> AgentState], NEW w \in Workers, NEW x \in AgentState,
         x.phase = a[w].phase, x.job = a[w].job, x.left = a[w].left, x.via = a[w].via,
         NEW b, b = [a EXCEPT ![w] = x]
  PROVE  /\ b \in [Workers -> AgentState]
         /\ \A f : Sound(a, f) => Sound(b, f)
         /\ \A f \in [Threads -> Request] : NoOrphan(a, f) => NoOrphan(b, f)
         /\ \A table : Covered(a, table) => Covered(b, table)
<1>1. b \in [Workers -> AgentState] /\ b[w] = x /\ \A v \in Workers : v # w => b[v] = a[v]
  OBVIOUS
<1>2. \A v \in Workers : /\ b[v].phase = a[v].phase /\ b[v].job = a[v].job
                         /\ b[v].left = a[v].left /\ b[v].via = a[v].via
  BY <1>1
<1>3. ASSUME NEW f, Sound(a, f) PROVE Sound(b, f)
  BY <1>2, <1>3 DEF Sound, SoundAt
<1>4. ASSUME NEW f \in [Threads -> Request], NoOrphan(a, f) PROVE NoOrphan(b, f)
  <2>1. \A t \in Threads : f[t].op \in {"reap", "pick", "result"} => f[t].w \in Workers
    BY RequestFields
  <2>. QED  BY <1>2, <1>4, <2>1 DEF NoOrphan
<1>5. ASSUME NEW table, Covered(a, table) PROVE Covered(b, table)
  BY <1>2, <1>5 DEF Covered
<1>. QED  BY <1>1, <1>3, <1>4, <1>5

\* An agent that went back to its main loop: the others do what they did.
LEMMA GoesIdle ==
  ASSUME NEW a \in [Workers -> AgentState], NEW w \in Workers, NEW x \in AgentState,
         x.phase = "idle", x.via = NoThread, NEW b, b = [a EXCEPT ![w] = x]
  PROVE  /\ b \in [Workers -> AgentState]
         /\ \A f : Sound(a, f) => Sound(b, f)
         /\ \A f : NoOrphan(a, f) /\ a[w].via \notin Threads => NoOrphan(b, f)
         /\ \A table : Covered(a, table) => Covered(b, table)
<1>1. b \in [Workers -> AgentState] /\ b[w] = x /\ \A v : v # w => b[v] = a[v]
  OBVIOUS
<1>2. ASSUME NEW f, Sound(a, f) PROVE Sound(b, f)
  BY <1>1, <1>2 DEF Sound, SoundAt
<1>3. ASSUME NEW f, NoOrphan(a, f), a[w].via \notin Threads PROVE NoOrphan(b, f)
  BY <1>1, <1>3 DEF NoOrphan
<1>4. ASSUME NEW table, Covered(a, table) PROVE Covered(b, table)
  BY <1>1, <1>4, CoveredAgents
<1>. QED  BY <1>1, <1>2, <1>3, <1>4

\* The invariant's parts, as the steps below use them.
LEMMA Parts ==
  ASSUME FInv
  PROVE  /\ agent \in [Workers -> AgentState] /\ workers \in [Workers -> WorkerRow]
         /\ jobs \in [Jobs -> JobRow] /\ inflight \in [Threads -> Request]
         /\ faults \in 0..MaxFaults /\ Plain(workers, inflight) /\ Sound(agent, inflight)
         /\ faults = 0 => NoOrphan(agent, inflight)
         /\ faults = 0 /\ JobsAreShort => Covered(agent, jobs)
BY DEF FInv, TypeOK, AgentInv

\* A counted mishap ends the time in which nothing has gone wrong.
LEMMA FaultCounts ==
  ASSUME FInv, Fault
  PROVE  faults' \in 0..MaxFaults /\ faults' # 0
BY FleetConstants, Parts DEF Fault

\* run_once registers.
LEMMA JoinStep ==
  ASSUME FInv, NEW w \in Workers, Join(w)
  PROVE  AgentInv'
<1>1. PICK t \in Threads : Register(t, w, Advertised[w])
  BY DEF Join
<1>2. Plain(workers', inflight') /\ inflight' = inflight /\ jobs' = jobs
      /\ workers'[w].approved \in BOOLEAN
  BY <1>1, RegisterPlain
<1>. DEFINE ok == workers'[w].approved
            x == [agent[w] EXCEPT !.registered = TRUE, !.approved = ok]
<1>3. agent' = [agent EXCEPT ![w] = x] /\ faults' = faults
  BY Parts DEF Join
<1>. HIDE DEF ok
<1>4. agent[w] \in AgentState /\ ok \in BOOLEAN
  BY <1>2, Parts DEF ok
<1>5. x \in AgentState
  BY <1>4, AgentUpdates
<1>6. x.phase = agent[w].phase /\ x.via = agent[w].via /\ x.job = agent[w].job
      /\ x.left = agent[w].left
  BY <1>4 DEF AgentState
<1>. HIDE DEF x
<1>7. /\ agent' \in [Workers -> AgentState]
      /\ \A f : Sound(agent, f) => Sound(agent', f)
      /\ \A f \in [Threads -> Request] : NoOrphan(agent, f) => NoOrphan(agent', f)
      /\ \A table : Covered(agent, table) => Covered(agent', table)
  BY <1>3, <1>5, <1>6, Parts, OnlyStanding
<1>. QED  BY <1>2, <1>3, <1>7, Parts DEF AgentInv

\* Its answer is lost: the agent is as it was.
LEMMA JoinUnansweredStep ==
  ASSUME FInv, NEW w \in Workers, JoinUnanswered(w)
  PROVE  AgentInv'
<1>1. PICK t \in Threads : Register(t, w, Advertised[w])
  BY DEF JoinUnanswered
<1>2. Plain(workers', inflight') /\ inflight' = inflight
  BY <1>1, RegisterPlain
<1>3. Fault /\ agent' = agent
  BY DEF JoinUnanswered
<1>. QED  BY <1>2, <1>3, Parts, FaultCounts DEF AgentInv

\* What Serve makes of the requests in flight.
LEMMA Served ==
  ASSUME FInv, NEW t \in Threads, NEW r, Serve(t, r)
  PROVE  /\ inflight[t].op = "idle" /\ inflight'[t] = r
         /\ \A u \in Threads : u # t => inflight'[u] = inflight[u]
BY Parts DEF Serve, Idle

\* A beat or a drop is nobody's answer.
LEMMA ServedBeside ==
  ASSUME FInv, NEW t \in Threads, NEW r, Serve(t, r), r.op \in {"beat", "drop"},
         r.op = "beat" => ~r.measureOnly /\ r.job = NoJob, workers' = workers
  PROVE  Plain(workers', inflight') /\ Sound(agent, inflight')
         /\ (NoOrphan(agent, inflight) /\ r.op = "beat" => NoOrphan(agent, inflight'))
<1>1. /\ inflight[t].op = "idle" /\ inflight'[t] = r
      /\ \A u \in Threads : u # t => inflight'[u] = inflight[u]
  BY Served
<1>2. Plain(workers', inflight')
  BY <1>1, Parts DEF Plain
<1>3. Sound(agent, inflight')
  BY <1>1, Parts DEF Sound, SoundAt
<1>4. NoOrphan(agent, inflight) /\ r.op = "beat" => NoOrphan(agent, inflight')
  BY <1>1 DEF NoOrphan
<1>. QED  BY <1>2, <1>3, <1>4

\* A heartbeat of an agent.
LEMMA BeatAsked ==
  ASSUME FInv, NEW t \in Threads, NEW w \in Workers,
         HeartbeatAuth(t, w, NoJob, Load[w], Advertised[w].ram)
  PROVE  /\ Plain(workers', inflight') /\ Sound(agent, inflight')
         /\ (NoOrphan(agent, inflight) => NoOrphan(agent, inflight'))
         /\ workers' = workers /\ jobs' = jobs /\ inflight' \in [Threads -> Request]
<1>. DEFINE r == [op |-> "beat", w |-> w, job |-> NoJob, load |-> Load[w],
                  ram |-> Advertised[w].ram, measureOnly |-> workers[w].measureOnly, age |-> 0]
<1>1. Serve(t, r) /\ workers' = workers /\ jobs' = jobs
  BY DEF HeartbeatAuth
<1>2. ~workers[w].measureOnly
  BY Parts DEF Plain
<1>3. r.op = "beat" /\ ~r.measureOnly /\ r.job = NoJob
  BY <1>2
<1>4. r \in Request
  <2>1. Load[w] \in LoadLevels /\ Advertised[w].ram \in RamLevels
    BY FleetConstants
  <2>2. LoadLevels \subseteq 0..100 /\ RamLevels \subseteq Nat /\ 0 \in 0..MaxDelay
    BY ConstantsAssumption
  <2>3. workers[w].measureOnly \in BOOLEAN
    BY Parts DEF WorkerRow
  <2>4. Load[w] \in 0..100 /\ Advertised[w].ram \in Nat
    BY <2>1, <2>2
  <2>. QED  BY <2>2, <2>3, <2>4 DEF Request
<1>. HIDE DEF r
<1>5. inflight' \in [Threads -> Request]
  BY <1>1, <1>4, Parts DEF Serve
<1>. QED  BY <1>1, <1>3, <1>5, ServedBeside

\* run_once asks whether it is approved by now.
LEMMA AskApprovalStep ==
  ASSUME FInv, NEW w \in Workers, AskApproval(w)
  PROVE  AgentInv'
<1>1. PICK t \in Threads : HeartbeatAuth(t, w, NoJob, Load[w], Advertised[w].ram)
  BY DEF AskApproval
<1>2. /\ Plain(workers', inflight') /\ Sound(agent, inflight')
      /\ (NoOrphan(agent, inflight) => NoOrphan(agent, inflight'))
      /\ workers' = workers /\ jobs' = jobs /\ inflight' \in [Threads -> Request]
  BY <1>1, BeatAsked
<1>. DEFINE ok == workers[w].approved
            x == [agent[w] EXCEPT !.approved = ok]
<1>3. agent' = [agent EXCEPT ![w] = x] /\ faults' = faults
  BY Parts DEF AskApproval
<1>. HIDE DEF ok
<1>4. agent[w] \in AgentState /\ ok \in BOOLEAN
  BY Parts DEF ok, WorkerRow
<1>5. x \in AgentState
  BY <1>4, AgentUpdates
<1>6. x.phase = agent[w].phase /\ x.via = agent[w].via /\ x.job = agent[w].job
      /\ x.left = agent[w].left
  BY <1>4 DEF AgentState
<1>. HIDE DEF x
<1>7. /\ agent' \in [Workers -> AgentState]
      /\ \A f : Sound(agent, f) => Sound(agent', f)
      /\ \A f \in [Threads -> Request] : NoOrphan(agent, f) => NoOrphan(agent', f)
      /\ \A table : Covered(agent, table) => Covered(agent', table)
  BY <1>3, <1>5, <1>6, Parts, OnlyStanding
<1>. QED  BY <1>2, <1>3, <1>7, Parts DEF AgentInv

\* The usage-heartbeat thread reports in.
LEMMA UsageBeatStep ==
  ASSUME FInv, NEW w \in Workers, UsageBeat(w)
  PROVE  AgentInv'
<1>1. PICK t \in Threads : HeartbeatAuth(t, w, NoJob, Load[w], Advertised[w].ram)
  BY DEF UsageBeat
<1>2. /\ Plain(workers', inflight') /\ Sound(agent, inflight')
      /\ (NoOrphan(agent, inflight) => NoOrphan(agent, inflight'))
      /\ workers' = workers /\ jobs' = jobs
  BY <1>1, BeatAsked
<1>3. agent' = agent /\ faults' = faults
  BY DEF UsageBeat
<1>. QED  BY <1>2, <1>3, Parts DEF AgentInv

\* Its refusal clears the registration.
LEMMA BeatRefusedStep ==
  ASSUME FInv, NEW w \in Workers, BeatRefused(w)
  PROVE  AgentInv'
<1>. DEFINE x == Unregistered(agent[w])
<1>1. agent' = [agent EXCEPT ![w] = x] /\ faults' = faults /\ UNCHANGED vars
  BY Parts DEF BeatRefused
<1>2. agent[w] \in AgentState
  BY Parts
<1>3. x \in AgentState /\ x.phase = agent[w].phase /\ x.via = agent[w].via
      /\ x.job = agent[w].job /\ x.left = agent[w].left
  BY <1>2, AgentUpdates DEF Unregistered, AgentState
<1>. HIDE DEF x
<1>4. /\ agent' \in [Workers -> AgentState]
      /\ \A f : Sound(agent, f) => Sound(agent', f)
      /\ \A f \in [Threads -> Request] : NoOrphan(agent, f) => NoOrphan(agent', f)
      /\ \A table : Covered(agent, table) => Covered(agent', table)
  BY <1>1, <1>3, Parts, OnlyStanding
<1>. QED  BY <1>1, <1>4, Parts DEF AgentInv, vars

\* An agent that sends a request of which it takes the answer, through an idle thread.
LEMMA AsksFor ==
  ASSUME FInv, NEW w \in Workers, agent[w].via \notin Threads,
         NEW t \in Threads, NEW r \in Request, Serve(t, r), workers' = workers, r.w = w,
         NEW x \in AgentState, x.via = t, agent' = [agent EXCEPT ![w] = x],
         \/ x.phase = "polling" /\ r.op = "reap" /\ ~r.measureOnly
         \/ x.phase = "reporting" /\ r.op = "result" /\ x.job \in Jobs
  PROVE  /\ agent' \in [Workers -> AgentState]
         /\ Plain(workers', inflight') /\ Sound(agent', inflight')
         /\ NoOrphan(agent, inflight) => NoOrphan(agent', inflight')
         /\ Covered(agent, jobs) => Covered(agent', jobs)
<1>1. /\ inflight[t].op = "idle" /\ inflight'[t] = r
      /\ \A u \in Threads : u # t => inflight'[u] = inflight[u]
  BY Served
<1>2. /\ agent' \in [Workers -> AgentState] /\ agent'[w] = x
      /\ \A v : v # w => agent'[v] = agent[v]
  BY Parts
<1>3. Plain(workers', inflight')
  BY <1>1, Parts DEF Plain
<1>4. Sound(agent', inflight')
  <2>1. SoundAt(x, w, inflight')
    BY <1>1 DEF SoundAt
  <2>2. ASSUME NEW v \in Workers, v # w PROVE SoundAt(agent'[v], v, inflight')
    <3>1. SoundAt(agent[v], v, inflight)
      BY Parts DEF Sound
    <3>. QED  BY <1>1, <1>2, <2>2, <3>1 DEF SoundAt
  <2>. QED  BY <1>2, <2>1, <2>2 DEF Sound
<1>5. ASSUME NoOrphan(agent, inflight) PROVE NoOrphan(agent', inflight')
  BY <1>1, <1>2, <1>5 DEF NoOrphan
<1>6. Covered(agent, jobs) => Covered(agent', jobs)
  BY <1>2 DEF Covered
<1>. QED  BY <1>2, <1>3, <1>4, <1>5, <1>6

\* An agent that neither polls nor reports waits for nobody.
LEMMA NotWaiting ==
  ASSUME FInv, NEW w \in Workers, agent[w].phase \in {"idle", "running"}
  PROVE  agent[w] \in AgentState /\ agent[w].via = NoThread /\ agent[w].via \notin Threads
         /\ (agent[w].phase = "running" => agent[w].job \in Jobs)
BY Parts, FleetConstants DEF Sound, SoundAt

\* poll_once.
LEMMA AskJobStep ==
  ASSUME FInv, NEW w \in Workers, AskJob(w)
  PROVE  AgentInv'
<1>1. PICK t \in Threads : /\ PollAuth(t, w)
                           /\ agent' = [agent EXCEPT ![w].phase = "polling", ![w].via = t]
  BY DEF AskJob
<1>. DEFINE r == [op |-> "reap", w |-> w, feats |-> workers[w].feats, ram |-> workers[w].ram,
                  measureOnly |-> workers[w].measureOnly]
            x == [agent[w] EXCEPT !.phase = "polling", !.via = t]
<1>2. Serve(t, r) /\ workers' = workers /\ jobs' = jobs /\ faults' = faults
  BY <1>1 DEF PollAuth, AskJob
<1>3. r \in Request /\ r.op = "reap" /\ r.w = w /\ ~r.measureOnly
  <2>1. workers[w] \in WorkerRow /\ ~workers[w].measureOnly
    BY Parts DEF Plain
  <2>. QED  BY <2>1 DEF Request, WorkerRow
<1>4. agent[w] \in AgentState /\ agent[w].via \notin Threads
  BY NotWaiting DEF AskJob, Idling
<1>5. agent' = [agent EXCEPT ![w] = x]
  BY <1>1, <1>4, Parts
<1>6. x \in AgentState /\ x.phase = "polling" /\ x.via = t
  BY <1>4, AgentUpdates DEF AgentState
<1>. HIDE DEF r, x
<1>7. /\ agent' \in [Workers -> AgentState]
      /\ Plain(workers', inflight') /\ Sound(agent', inflight')
      /\ NoOrphan(agent, inflight) => NoOrphan(agent', inflight')
      /\ Covered(agent, jobs) => Covered(agent', jobs)
  BY <1>2, <1>3, <1>4, <1>5, <1>6, AsksFor
<1>. QED  BY <1>2, <1>7, Parts DEF AgentInv

\* report_result, whatever the report says.
LEMMA SendStep ==
  ASSUME FInv, NEW w \in Workers, agent[w].phase = "running", NEW v \in Verdicts, Send(w, v)
  PROVE  /\ agent' \in [Workers -> AgentState]
         /\ Plain(workers', inflight') /\ Sound(agent', inflight')
         /\ NoOrphan(agent, inflight) => NoOrphan(agent', inflight')
         /\ Covered(agent, jobs) => Covered(agent', jobs')
<1>1. PICK t \in Threads : /\ ResultAuth(t, w, agent[w].job, v)
                           /\ agent' = [agent EXCEPT ![w].phase = "reporting", ![w].via = t]
  BY DEF Send
<1>2. agent[w] \in AgentState /\ agent[w].via \notin Threads /\ agent[w].job \in Jobs
  BY NotWaiting
<1>. DEFINE r == [op |-> "result", w |-> w, job |-> agent[w].job, verdict |-> v, age |-> 0]
            x == [agent[w] EXCEPT !.phase = "reporting", !.via = t]
<1>3. Serve(t, r) /\ workers' = workers /\ jobs' = jobs
  BY <1>1 DEF ResultAuth
<1>4. r \in Request /\ r.op = "result" /\ r.w = w
  <2>1. 0 \in 0..MaxDelay
    BY ConstantsAssumption
  <2>. QED  BY <1>2, <2>1 DEF Request
<1>5. agent' = [agent EXCEPT ![w] = x]
  BY <1>1, <1>2, Parts
<1>6. x \in AgentState /\ x.phase = "reporting" /\ x.via = t /\ x.job \in Jobs
  BY <1>2, AgentUpdates DEF AgentState
<1>. HIDE DEF r, x
<1>. QED  BY <1>2, <1>3, <1>4, <1>5, <1>6, AsksFor

\* A finished job is reported.
LEMMA ReportJobStep ==
  ASSUME FInv, NEW w \in Workers, ReportJob(w)
  PROVE  AgentInv'
<1>1. agent[w].phase = "running" /\ Send(w, "ok") /\ faults' = faults /\ "ok" \in Verdicts
  BY DEF ReportJob, Verdicts
<1>2. /\ agent' \in [Workers -> AgentState]
      /\ Plain(workers', inflight') /\ Sound(agent', inflight')
      /\ NoOrphan(agent, inflight) => NoOrphan(agent', inflight')
      /\ Covered(agent, jobs) => Covered(agent', jobs')
  BY <1>1, SendStep
<1>. QED  BY <1>1, <1>2, Parts DEF AgentInv

\* A job that was yielded, or failed.
LEMMA YieldJobStep ==
  ASSUME FInv, NEW w \in Workers, YieldJob(w)
  PROVE  AgentInv'
<1>1. agent[w].phase = "running" /\ Send(w, "returned") /\ Fault /\ "returned" \in Verdicts
  BY DEF YieldJob, Verdicts
<1>2. /\ agent' \in [Workers -> AgentState]
      /\ Plain(workers', inflight') /\ Sound(agent', inflight')
  BY <1>1, SendStep
<1>. QED  BY <1>1, <1>2, FaultCounts DEF AgentInv

\* report_result only logs a refusal.
LEMMA ReportRefusedStep ==
  ASSUME FInv, NEW w \in Workers, ReportRefused(w)
  PROVE  AgentInv'
<1>. DEFINE x == LoopAgain(agent[w])
<1>1. agent' = [agent EXCEPT ![w] = x] /\ faults' = faults /\ UNCHANGED vars
  BY Parts DEF ReportRefused
<1>2. agent[w] \in AgentState /\ agent[w].via \notin Threads
  BY NotWaiting DEF ReportRefused
<1>3. x \in AgentState /\ x.phase = "idle" /\ x.via = NoThread
  BY <1>2, AgentUpdates, LoopSound
<1>. HIDE DEF x
<1>4. /\ agent' \in [Workers -> AgentState]
      /\ \A f : Sound(agent, f) => Sound(agent', f)
      /\ \A f : NoOrphan(agent, f) /\ agent[w].via \notin Threads => NoOrphan(agent', f)
      /\ \A table : Covered(agent, table) => Covered(agent', table)
  BY <1>1, <1>3, Parts, GoesIdle
<1>. QED  BY <1>1, <1>2, <1>4, Parts DEF AgentInv, vars

\* An agent stops waiting, or is restarted: only it changes, and a mishap is counted.
LEMMA GoneStep ==
  ASSUME FInv, NEW w \in Workers, GiveUp(w) \/ AgentRestart(w)
  PROVE  AgentInv'
<1>1. PICK x : /\ x = LoopAgain(agent[w]) \/ x = Fresh
               /\ agent' = [agent EXCEPT ![w] = x] /\ Fault /\ UNCHANGED vars
  BY Parts DEF GiveUp, AgentRestart
<1>2. agent[w] \in AgentState
  BY Parts
<1>3. x \in AgentState /\ x.phase = "idle" /\ x.via = NoThread
  <2>1. CASE x = LoopAgain(agent[w])
    BY <1>2, <2>1, AgentUpdates, LoopSound
  <2>2. CASE x = Fresh
    BY <1>2, <2>2, AgentUpdates DEF Fresh
  <2>. QED  BY <1>1, <2>1, <2>2
<1>4. agent' \in [Workers -> AgentState] /\ \A f : Sound(agent, f) => Sound(agent', f)
  BY <1>1, <1>3, Parts, GoesIdle
<1>. QED  BY <1>1, <1>4, Parts, FaultCounts DEF AgentInv, vars

-----------------------------------------------------------------------------
(* The server's handlers. *)

\* What Reply makes of the requests in flight.
LEMMA Replied ==
  ASSUME FInv, NEW t \in Threads, Reply(t)
  PROVE  inflight'[t].op = "idle" /\ \A u \in Threads : u # t => inflight'[u] = inflight[u]
BY Parts DEF Reply, Idle

\* A reply leaves no observer behind, if the workers table has none.
LEMMA RepliedPlain ==
  ASSUME FInv, NEW t \in Threads, Reply(t), \A w \in Workers : ~workers'[w].measureOnly
  PROVE  Plain(workers', inflight')
BY Replied, Parts DEF Plain

\* An answer without a job: whoever waits for it is back in its main loop, the others go on.
LEMMA Answered ==
  ASSUME FInv, NEW t \in Threads, Reply(t), Answer(t)
  PROVE  /\ agent' \in [Workers -> AgentState] /\ Sound(agent', inflight')
         /\ NoOrphan(agent, inflight) => NoOrphan(agent', inflight')
         /\ \A w \in Workers : agent'[w].phase = "running" =>
              agent'[w] = agent[w] /\ agent[w].phase = "running"
<1>1. inflight'[t].op = "idle" /\ \A u \in Threads : u # t => inflight'[u] = inflight[u]
  BY Replied
<1>2. \A w \in Workers : agent'[w] = IF agent[w].via = t THEN LoopAgain(agent[w]) ELSE agent[w]
  BY DEF Answer
<1>3. \A w \in Workers : /\ LoopAgain(agent[w]) \in AgentState
                         /\ LoopAgain(agent[w]).phase = "idle"
                         /\ LoopAgain(agent[w]).via = NoThread
  BY Parts, AgentUpdates, LoopSound
<1>4. agent' \in [Workers -> AgentState]
  BY <1>3, Parts DEF Answer
<1>5. Sound(agent', inflight')
  <2>1. ASSUME NEW w \in Workers PROVE SoundAt(agent'[w], w, inflight')
    <3>1. SoundAt(agent[w], w, inflight)
      BY Parts DEF Sound
    <3>2. CASE agent[w].via = t
      BY <1>2, <1>3, <3>2 DEF SoundAt
    <3>3. CASE agent[w].via # t
      <4>1. agent'[w] = agent[w]
        BY <1>2, <3>3
      <4>. QED  BY <1>1, <3>1, <3>3, <4>1, ReplySound
    <3>. QED  BY <3>2, <3>3
  <2>. QED  BY <2>1 DEF Sound
<1>6. ASSUME NoOrphan(agent, inflight) PROVE NoOrphan(agent', inflight')
  <2>1. \A u \in Threads : inflight[u].op \in {"reap", "pick", "result"} =>
          inflight[u].w \in Workers /\ agent[inflight[u].w].via = u
    BY <1>6, Parts, RequestFields DEF NoOrphan
  <2>2. \A w \in Workers : agent[w].via # t => agent'[w] = agent[w]
    BY <1>2
  <2>3. \A u \in Threads : inflight[u].op # "drop"
    BY <1>6 DEF NoOrphan
  <2>. QED  BY <1>1, <2>1, <2>2, <2>3 DEF NoOrphan
<1>7. \A w \in Workers : agent'[w].phase = "running" =>
        agent'[w] = agent[w] /\ agent[w].phase = "running"
  BY <1>2, <1>3
<1>. QED  BY <1>4, <1>5, <1>6, <1>7

\* The reaper takes only leases that have run out, of which no running job has one.
LEMMA PollReapStep ==
  ASSUME FInv, NEW t \in Threads, PollReap(t), agent' = agent, faults' = faults
  PROVE  AgentInv'
<1>. DEFINE r == inflight[t]
<1>1. /\ r.op = "reap" /\ workers' = workers /\ jobs' = RequeueAll(Expired)
      /\ inflight' = [inflight EXCEPT ![t] = IF r.measureOnly THEN Idle ELSE [r EXCEPT !.op = "pick"]]
  BY DEF PollReap
<1>2. r \in Request /\ ~r.measureOnly
  BY <1>1, Parts DEF Plain
<1>. DEFINE q == [r EXCEPT !.op = "pick"]
<1>3. q.op = "pick" /\ q.w = r.w /\ q.measureOnly = r.measureOnly
  BY <1>1, <1>2 DEF Request
<1>. HIDE DEF q
<1>4. inflight'[t] = q /\ \A u \in Threads : u # t => inflight'[u] = inflight[u]
  BY <1>1, <1>2, Parts DEF q
<1>5. Plain(workers', inflight')
  BY <1>1, <1>2, <1>3, <1>4, Parts DEF Plain
<1>6. Sound(agent, inflight')
  BY <1>1, <1>3, <1>4, Parts DEF Sound, SoundAt
<1>7. NoOrphan(agent, inflight) => NoOrphan(agent, inflight')
  BY <1>1, <1>3, <1>4 DEF NoOrphan
<1>8. ASSUME Covered(agent, jobs) PROVE Covered(agent, jobs')
  <2>1. ASSUME NEW w \in Workers, agent[w].phase = "running"
        PROVE  jobs'[agent[w].job] = jobs[agent[w].job]
    <3>1. agent[w] \in AgentState /\ agent[w].job \in Jobs
      BY <2>1, NotWaiting
    <3>2. agent[w].left \in Nat /\ jobs[agent[w].job].left > agent[w].left
      BY <1>8, <2>1, <3>1 DEF Covered, AgentState
    <3>3. jobs[agent[w].job].left \in Int
      BY <3>1, Parts, ConstantsAssumption DEF JobRow
    <3>4. agent[w].job \notin Expired
      BY <3>2, <3>3 DEF Expired
    <3>. QED  BY <1>1, <3>1, <3>4 DEF RequeueAll
  <2>. QED  BY <1>8, <2>1, CoveredKept
<1>. QED  BY <1>5, <1>6, <1>7, <1>8, Parts DEF AgentInv

\* No work.
LEMMA PollEmptyStep ==
  ASSUME FInv, NEW t \in Threads, PollEmpty(t), Answer(t), faults' = faults
  PROVE  AgentInv'
<1>1. Reply(t) /\ workers' = workers /\ jobs' = jobs
  BY DEF PollEmpty
<1>2. Plain(workers', inflight')
  BY <1>1, RepliedPlain, Parts DEF Plain
<1>3. /\ agent' \in [Workers -> AgentState] /\ Sound(agent', inflight')
      /\ NoOrphan(agent, inflight) => NoOrphan(agent', inflight')
      /\ \A w \in Workers : agent'[w].phase = "running" =>
           agent'[w] = agent[w] /\ agent[w].phase = "running"
  BY <1>1, Answered
<1>4. Covered(agent, jobs) => Covered(agent', jobs')
  BY <1>1, <1>3 DEF Covered
<1>. QED  BY <1>2, <1>3, <1>4, Parts DEF AgentInv

\* A job starts at the agent that polled for it, which holds it for a whole lease.
LEMMA AssignStep ==
  ASSUME FInv, NEW t \in Threads, NEW j \in Jobs, Assign(t, j), faults' = faults
  PROVE  AgentInv'
<1>. DEFINE h == inflight[t].w
<1>1. /\ inflight[t].op = "pick" /\ Reply(t) /\ jobs[j].state = "queued"
      /\ jobs' = [jobs EXCEPT ![j].state = "leased", ![j].holder = h, ![j].left = LeaseTicks]
      /\ workers' = IF workers[h].here THEN [workers EXCEPT ![h].beat = 0] ELSE workers
      /\ \A w \in Workers : agent'[w] = IF agent[w].via = t THEN StartJob(agent[w], j) ELSE agent[w]
  BY DEF Assign, Lease, Assignable, PickJobFor, Eligible
<1>2. inflight'[t].op = "idle" /\ \A u \in Threads : u # t => inflight'[u] = inflight[u]
  BY <1>1, Replied
<1>3. h \in Workers
  BY <1>1, Parts, RequestFields
<1>4. Plain(workers', inflight')
  <2>1. \A w \in Workers : workers[w] \in WorkerRow /\ ~workers[w].measureOnly
    BY Parts DEF Plain
  <2>2. [workers[h] EXCEPT !.beat = 0].measureOnly = workers[h].measureOnly
    BY <1>3, <2>1 DEF WorkerRow
  <2>3. \A w \in Workers : ~workers'[w].measureOnly
    BY <1>1, <1>3, <2>1, <2>2, Parts
  <2>. QED  BY <1>1, <2>3, RepliedPlain
<1>5. ASSUME NEW w \in Workers
      PROVE  /\ StartJob(agent[w], j) \in AgentState /\ StartJob(agent[w], j).phase = "running"
             /\ StartJob(agent[w], j).job = j /\ StartJob(agent[w], j).left = JobTicks[j]
             /\ StartJob(agent[w], j).via = NoThread
  <2>1. agent[w] \in AgentState
    BY Parts
  <2>2. StartJob(agent[w], j) \in AgentState
    BY <2>1, AgentUpdates
  <2>. QED  BY <2>1, <2>2 DEF StartJob, AgentState
<1>6. agent' \in [Workers -> AgentState]
  BY <1>5, Parts DEF Assign
<1>7. Sound(agent', inflight')
  <2>1. ASSUME NEW w \in Workers PROVE SoundAt(agent'[w], w, inflight')
    <3>1. SoundAt(agent[w], w, inflight)
      BY Parts DEF Sound
    <3>2. CASE agent[w].via = t
      BY <1>1, <1>5, <3>2 DEF SoundAt
    <3>3. CASE agent[w].via # t
      <4>1. agent'[w] = agent[w]
        BY <1>1, <3>3
      <4>. QED  BY <1>2, <3>1, <3>3, <4>1, ReplySound
    <3>. QED  BY <3>2, <3>3
  <2>. QED  BY <2>1 DEF Sound
<1>8. ASSUME NoOrphan(agent, inflight) PROVE NoOrphan(agent', inflight')
  <2>1. \A u \in Threads : inflight[u].op \in {"reap", "pick", "result"} =>
          inflight[u].w \in Workers /\ agent[inflight[u].w].via = u
    BY <1>8, Parts, RequestFields DEF NoOrphan
  <2>2. \A w \in Workers : agent[w].via # t => agent'[w] = agent[w]
    BY <1>1
  <2>3. \A u \in Threads : inflight[u].op # "drop"
    BY <1>8 DEF NoOrphan
  <2>. QED  BY <1>2, <2>1, <2>2, <2>3 DEF NoOrphan
<1>9. ASSUME Covered(agent, jobs), JobsAreShort PROVE Covered(agent', jobs')
  <2>1. ASSUME NEW w \in Workers, agent'[w].phase = "running"
        PROVE  /\ jobs'[agent'[w].job].state = "leased" /\ jobs'[agent'[w].job].holder = w
               /\ jobs'[agent'[w].job].left > agent'[w].left
    <3>1. CASE agent[w].via = t
      <4>1. h = w
        BY <3>1, Parts, WaitsFor DEF Sound
      <4>2. agent'[w].job = j /\ agent'[w].left = JobTicks[j]
        BY <1>1, <1>5, <3>1
      <4>3. jobs'[j].state = "leased" /\ jobs'[j].holder = w /\ jobs'[j].left = LeaseTicks
        BY <1>1, <4>1, Parts DEF JobRow
      <4>4. JobTicks[j] < LeaseTicks /\ JobTicks[j] \in Nat /\ LeaseTicks \in Nat
        BY <1>9, FleetConstants, ConstantsAssumption DEF JobsAreShort
      <4>. QED  BY <4>2, <4>3, <4>4
    <3>2. CASE agent[w].via # t
      <4>1. agent'[w] = agent[w] /\ agent[w].phase = "running"
        BY <1>1, <2>1, <3>2
      <4>2. jobs[agent[w].job].state = "leased" /\ agent[w].job \in Jobs
        BY <1>9, <4>1, NotWaiting DEF Covered
      <4>3. jobs'[agent[w].job] = jobs[agent[w].job]
        BY <1>1, <4>2, Parts
      <4>. QED  BY <1>9, <4>1, <4>3 DEF Covered
    <3>. QED  BY <3>1, <3>2
  <2>. QED  BY <2>1 DEF Covered
<1>. QED  BY <1>4, <1>6, <1>7, <1>8, <1>9, Parts DEF AgentInv

\* A heartbeat names no job, so it changes the workers table alone.
LEMMA HeartbeatStep ==
  ASSUME FInv, NEW t \in Threads, NEW d \in 0..MaxDelay, Heartbeat(t, d),
         agent' = agent, faults' = faults
  PROVE  AgentInv'
<1>. DEFINE r == inflight[t]
<1>1. /\ r.op = "beat" /\ Reply(t)
      /\ workers' = IF workers[r.w].here THEN [workers EXCEPT ![r.w] = BeatRow(r, d)] ELSE workers
      /\ r.measureOnly \/ r.job = NoJob => jobs' = jobs
  BY DEF Heartbeat
<1>2. r.w \in Workers /\ r.job = NoJob
  BY <1>1, Parts, RequestFields DEF Plain
<1>3. inflight'[t].op = "idle" /\ \A u \in Threads : u # t => inflight'[u] = inflight[u]
  BY <1>1, Replied
<1>4. Plain(workers', inflight')
  <2>1. \A w \in Workers : workers[w] \in WorkerRow /\ ~workers[w].measureOnly
    BY Parts DEF Plain
  <2>2. BeatRow(r, d).measureOnly = workers[r.w].measureOnly
    BY <1>2, <2>1 DEF BeatRow, WorkerRow
  <2>3. \A w \in Workers : ~workers'[w].measureOnly
    BY <1>1, <1>2, <2>1, <2>2, Parts
  <2>. QED  BY <1>1, <2>3, RepliedPlain
<1>5. Sound(agent, inflight')
  BY <1>1, <1>3, Parts DEF Sound, SoundAt
<1>6. NoOrphan(agent, inflight) => NoOrphan(agent, inflight')
  BY <1>3 DEF NoOrphan
<1>. QED  BY <1>1, <1>2, <1>4, <1>5, <1>6, Parts DEF AgentInv

\* A report ends only the lease of its sender, which runs nothing while it waits for the answer.
LEMMA SettleStep ==
  ASSUME FInv, NEW t \in Threads, Settle(t), Answer(t), faults' = faults
  PROVE  AgentInv'
<1>. DEFINE r == inflight[t]
<1>1. /\ r.op = "result" /\ Reply(t) /\ workers' = workers
      /\ \A k \in Jobs : k # r.job => jobs'[k] = jobs[k]
      /\ jobs' = jobs \/ jobs[r.job].holder = r.w
  <2>1. CASE ResultNotLeased(t)
    BY <2>1 DEF ResultNotLeased, Reporting
  <2>2. ASSUME NEW d \in 0..MaxDelay, ResultTooLate(t, d) \/ ResultReturned(t, d)
        PROVE  /\ r.op = "result" /\ Reply(t) /\ workers' = workers
               /\ jobs' = RequeueAll({r.job}) /\ jobs[r.job].holder = r.w
    BY <2>2 DEF ResultTooLate, ResultReturned, Reporting, HoldsJob
  <2>3. ASSUME NEW k \in Jobs, k # r.job PROVE RequeueAll({r.job})[k] = jobs[k]
    BY <2>3 DEF RequeueAll
  <2>4. ASSUME NEW d \in 0..MaxDelay, ResultCompleted(t, d)
        PROVE  /\ r.op = "result" /\ Reply(t) /\ workers' = workers
               /\ \A k \in Jobs : k # r.job => jobs'[k] = jobs[k]
               /\ jobs[r.job].holder = r.w
    BY <2>4, Parts DEF ResultCompleted, Reporting, HoldsJob
  <2>. QED  BY <2>1, <2>2, <2>3, <2>4 DEF Settle
<1>2. Plain(workers', inflight')
  BY <1>1, RepliedPlain, Parts DEF Plain
<1>3. /\ agent' \in [Workers -> AgentState] /\ Sound(agent', inflight')
      /\ NoOrphan(agent, inflight) => NoOrphan(agent', inflight')
      /\ \A w \in Workers : agent'[w].phase = "running" =>
           agent'[w] = agent[w] /\ agent[w].phase = "running"
  BY <1>1, Answered
<1>4. ASSUME NoOrphan(agent, inflight), Covered(agent, jobs) PROVE Covered(agent', jobs')
  <2>1. r.w \in Workers /\ agent[r.w].via = t
    BY <1>1, <1>4, Parts, RequestFields DEF NoOrphan
  <2>2. agent[r.w].phase # "running"
    BY <2>1, NotWaiting
  <2>3. ASSUME NEW w \in Workers, agent'[w].phase = "running"
        PROVE  /\ agent'[w] = agent[w] /\ agent[w].phase = "running"
               /\ jobs'[agent[w].job] = jobs[agent[w].job]
    <3>1. agent'[w] = agent[w] /\ agent[w].phase = "running"
      BY <1>3, <2>3
    <3>2. agent[w].job \in Jobs /\ jobs[agent[w].job].holder = w
      BY <1>4, <3>1, NotWaiting DEF Covered
    <3>. QED  BY <1>1, <2>2, <3>1, <3>2
  <2>. QED  BY <1>4, <2>3 DEF Covered
<1>. QED  BY <1>2, <1>3, <1>4, Parts DEF AgentInv

\* Somebody asked for it: that was a mishap.
LEMMA DisconnectStep ==
  ASSUME FInv, NEW t \in Threads, DisconnectWorker(t), agent' = agent, faults' = faults
  PROVE  AgentInv'
<1>1. /\ inflight[t].op = "drop" /\ Reply(t)
      /\ workers' = [workers EXCEPT ![inflight[t].w] = NoRow]
  BY DEF DisconnectWorker
<1>2. \A w \in Workers : ~workers'[w].measureOnly
  BY <1>1, Parts DEF NoRow, Plain
<1>3. Plain(workers', inflight')
  BY <1>1, <1>2, RepliedPlain
<1>4. inflight'[t].op = "idle" /\ \A u \in Threads : u # t => inflight'[u] = inflight[u]
  BY <1>1, Replied
<1>5. Sound(agent, inflight')
  BY <1>1, <1>4, Parts DEF Sound, SoundAt
<1>6. faults # 0
  BY <1>1, Parts DEF NoOrphan
<1>. QED  BY <1>3, <1>5, <1>6, Parts DEF AgentInv

-----------------------------------------------------------------------------
(* Clients, the operator, time and faults. *)

\* Neither a new job nor an approval is about a job that runs.
LEMMA OutsideStep ==
  ASSUME FInv, Submission \/ Approval
  PROVE  AgentInv'
<1>1. CASE Submission
  <2>1. PICK j \in Jobs : SubmitJob(j)
    BY <1>1 DEF Submission
  <2>2. /\ jobs[j].state = "absent" /\ jobs' = [jobs EXCEPT ![j].state = "queued"]
        /\ workers' = workers /\ inflight' = inflight /\ agent' = agent /\ faults' = faults
    BY <1>1, <2>1 DEF Submission, SubmitJob, Submitted
  <2>3. ASSUME Covered(agent, jobs) PROVE Covered(agent, jobs')
    <3>1. \A w \in Workers : agent[w].phase = "running" => jobs'[agent[w].job] = jobs[agent[w].job]
      <4>1. \A w \in Workers : agent[w].phase = "running" =>
              agent[w].job \in Jobs /\ jobs[agent[w].job].state = "leased"
        BY <2>3, NotWaiting DEF Covered
      <4>. QED  BY <2>2, <4>1, Parts
    <3>. QED  BY <2>3, <3>1 DEF Covered
  <2>. QED  BY <2>2, <2>3, Parts DEF AgentInv
<1>2. CASE Approval
  <2>1. PICK w \in Workers : Approve(w)
    BY <1>2 DEF Approval
  <2>2. /\ workers' = [workers EXCEPT ![w].approved = TRUE] /\ jobs' = jobs
        /\ inflight' = inflight /\ agent' = agent /\ faults' = faults
    BY <1>2, <2>1 DEF Approval, Approve
  <2>3. \A v \in Workers : workers'[v].measureOnly = workers[v].measureOnly
    BY <2>2, Parts DEF WorkerRow
  <2>4. Plain(workers', inflight')
    BY <2>2, <2>3, Parts DEF Plain
  <2>. QED  BY <2>2, <2>4, Parts DEF AgentInv
<1>. QED  BY <1>1, <1>2

\* A disconnection is asked for.
LEMMA DisconnectionStep ==
  ASSUME FInv, Disconnection
  PROVE  AgentInv'
<1>1. PICK t \in Threads, w \in Workers : DisconnectAsked(t, w)
  BY DEF Disconnection
<1>. DEFINE r == [op |-> "drop", w |-> w]
<1>2. Serve(t, r) /\ workers' = workers /\ r.op = "drop"
  BY <1>1 DEF DisconnectAsked
<1>3. Fault /\ agent' = agent
  BY DEF Disconnection
<1>. HIDE DEF r
<1>4. Plain(workers', inflight') /\ Sound(agent, inflight')
  BY <1>2, ServedBeside
<1>. QED  BY <1>3, <1>4, Parts, FaultCounts DEF AgentInv

\* A tick of a running job is a tick of its lease.
LEMMA FleetTickStep ==
  ASSUME FInv, FleetTick
  PROVE  AgentInv'
<1>1. /\ \A w \in Workers : agent[w].phase = "running" => agent[w].left > 0
      /\ jobs' = [j \in Jobs |-> OlderJob(jobs[j])]
      /\ workers' = [w \in Workers |-> OlderWorker(workers[w])]
      /\ inflight' = [t \in Threads |-> OlderRequest(inflight[t])]
      /\ faults' = faults
  BY DEF FleetTick, Tick
<1>. DEFINE Run(x) == [x EXCEPT !.left = @ - 1]
<1>2. agent' = [w \in Workers |-> IF agent[w].phase = "running" THEN Run(agent[w]) ELSE agent[w]]
  BY DEF FleetTick
<1>3. ASSUME NEW w \in Workers, agent[w].phase = "running"
      PROVE  /\ Run(agent[w]) \in AgentState /\ Run(agent[w]).phase = "running"
             /\ Run(agent[w]).via = agent[w].via /\ Run(agent[w]).job = agent[w].job
             /\ Run(agent[w]).left = agent[w].left - 1
  <2>1. agent[w] \in AgentState /\ agent[w].left > 0
    BY <1>1, <1>3, Parts
  <2>. QED  BY <1>3, <2>1 DEF AgentState
<1>. HIDE DEF Run
<1>4. agent' \in [Workers -> AgentState]
  BY <1>2, <1>3, Parts
<1>5. \A w \in Workers : /\ agent'[w].phase = agent[w].phase /\ agent'[w].via = agent[w].via
                         /\ agent'[w].job = agent[w].job
  BY <1>2, <1>3
<1>6. \A t \in Threads : /\ inflight'[t].op = inflight[t].op
                         /\ inflight[t].op # "idle" => inflight'[t].w = inflight[t].w
                         /\ inflight[t].op \in {"reap", "pick", "beat"} =>
                              inflight'[t].measureOnly = inflight[t].measureOnly
                         /\ inflight[t].op = "beat" => inflight'[t].job = inflight[t].job
  <2>1. ASSUME NEW r \in Request
        PROVE  /\ OlderRequest(r).op = r.op
               /\ r.op # "idle" => OlderRequest(r).w = r.w
               /\ r.op \in {"reap", "pick", "beat"} => OlderRequest(r).measureOnly = r.measureOnly
               /\ r.op = "beat" => OlderRequest(r).job = r.job
    BY <2>1 DEF OlderRequest, Request
  <2>. QED  BY <1>1, <2>1, Parts
<1>7. Plain(workers', inflight')
  <2>1. \A w \in Workers : workers'[w].measureOnly = workers[w].measureOnly
    BY <1>1, Parts DEF OlderWorker, WorkerRow
  <2>. QED  BY <1>6, <2>1, Parts DEF Plain
<1>8. Sound(agent', inflight')
  BY <1>5, <1>6, Parts DEF Sound, SoundAt
<1>9. NoOrphan(agent, inflight) => NoOrphan(agent', inflight')
  <2>1. \A t \in Threads : inflight[t].op \in {"reap", "pick", "result"} => inflight[t].w \in Workers
    BY Parts, RequestFields
  <2>. QED  BY <1>5, <1>6, <2>1 DEF NoOrphan
<1>10. ASSUME Covered(agent, jobs) PROVE Covered(agent', jobs')
  <2>1. ASSUME NEW w \in Workers, agent[w].phase = "running"
        PROVE  /\ jobs'[agent[w].job].state = "leased" /\ jobs'[agent[w].job].holder = w
               /\ jobs'[agent[w].job].left > agent'[w].left
    <3>1. /\ agent[w].job \in Jobs /\ agent[w].left \in Nat /\ agent[w].left > 0
          /\ agent'[w].left = agent[w].left - 1
      BY <1>1, <1>2, <1>3, <2>1, NotWaiting DEF AgentState
    <3>2. /\ jobs[agent[w].job] \in JobRow /\ jobs[agent[w].job].state = "leased"
          /\ jobs[agent[w].job].holder = w /\ jobs[agent[w].job].left > agent[w].left
      BY <1>10, <2>1, <3>1, Parts DEF Covered
    <3>3. jobs[agent[w].job].left \in Int /\ MaxDelay \in Nat
      BY <3>2, ConstantsAssumption DEF JobRow
    <3>4. /\ OlderJob(jobs[agent[w].job]).state = "leased"
          /\ OlderJob(jobs[agent[w].job]).holder = w
          /\ OlderJob(jobs[agent[w].job]).left = jobs[agent[w].job].left - 1
      BY <3>1, <3>2, <3>3 DEF OlderJob, AtLeast, JobRow
    <3>. QED  BY <1>1, <3>1, <3>2, <3>3, <3>4
  <2>. QED  BY <1>5, <2>1 DEF Covered
<1>. QED  BY <1>1, <1>4, <1>7, <1>8, <1>9, <1>10, Parts DEF AgentInv

\* The server dies: whoever was waiting goes on without an answer.
LEMMA ServerRestartStep ==
  ASSUME FInv, ServerRestart
  PROVE  AgentInv'
<1>1. /\ \A t \in Threads : inflight'[t].op = "idle"
      /\ workers' = workers /\ Fault
      /\ \A w \in Workers :
           agent'[w] = IF Waiting(agent[w]) THEN LoopAgain(agent[w]) ELSE agent[w]
  BY DEF ServerRestart, Crash, Idle
<1>2. \A w \in Workers : /\ agent[w] \in AgentState /\ LoopAgain(agent[w]) \in AgentState
                         /\ LoopAgain(agent[w]).phase = "idle"
                         /\ LoopAgain(agent[w]).via = NoThread
  BY Parts, AgentUpdates, LoopSound
<1>3. agent' \in [Workers -> AgentState]
  BY <1>2, Parts DEF ServerRestart
<1>4. Plain(workers', inflight')
  BY <1>1, Parts DEF Plain
<1>5. Sound(agent', inflight')
  BY <1>1, <1>2, Parts DEF Sound, SoundAt, Waiting
<1>. QED  BY <1>1, <1>3, <1>4, <1>5, FaultCounts DEF AgentInv

-----------------------------------------------------------------------------
(* Theorems. *)

\* Every step keeps what holds of the agents.
LEMMA FleetStep ==
  ASSUME FInv, [FleetNext]_fleetVars
  PROVE  FInv'
<1>1. TypeOK'
  BY FleetStepIsCore, StepTypes DEF FInv
<1>2. AgentInv'
  <2>1. ASSUME NEW w \in Workers, AgentStep(w) PROVE AgentInv'
    BY <2>1, JoinStep, AskApprovalStep, AskJobStep, ReportJobStep, ReportRefusedStep,
       UsageBeatStep, BeatRefusedStep DEF AgentStep
  <2>2. ASSUME NEW t \in Threads, Handle(t) PROVE AgentInv'
    <3>1. CASE (PollReap(t) \/ DisconnectWorker(t)) /\ UNCHANGED <<agent, faults>>
      BY <3>1, PollReapStep, DisconnectStep
    <3>2. CASE (PollEmpty(t) \/ Settle(t)) /\ Answer(t) /\ UNCHANGED faults
      BY <3>2, PollEmptyStep, SettleStep
    <3>3. CASE (\E j \in Jobs : Assign(t, j)) /\ UNCHANGED faults
      BY <3>3, AssignStep
    <3>4. CASE (\E d \in 0..MaxDelay : Heartbeat(t, d)) /\ UNCHANGED <<agent, faults>>
      BY <3>4, HeartbeatStep
    <3>. QED  BY <2>2, <3>1, <3>2, <3>3, <3>4 DEF Handle
  <2>3. CASE Submission \/ Approval \/ FleetTick
    BY <2>3, OutsideStep, FleetTickStep
  <2>4. CASE Mishap
    BY <2>4, JoinUnansweredStep, YieldJobStep, GoneStep, DisconnectionStep, ServerRestartStep
    DEF Mishap
  <2>5. CASE UNCHANGED fleetVars
    BY <2>5, Parts DEF fleetVars, AgentInv
  <2>. QED  BY <2>1, <2>2, <2>3, <2>4, <2>5 DEF FleetNext
<1>. QED  BY <1>1, <1>2 DEF FInv

\* The agents start unregistered and the server with nothing.
LEMMA FleetStart ==
  ASSUME FleetInit
  PROVE  FInv
<1>1. TypeOK
  BY InitTypes DEF FleetInit
<1>2. /\ agent = [w \in Workers |-> Fresh] /\ faults = 0
      /\ workers = [w \in Workers |-> NoRow] /\ inflight = [t \in Threads |-> Idle]
  BY DEF FleetInit, Init
<1>3. Fresh \in AgentState /\ Fresh.phase = "idle" /\ Fresh.via = NoThread
  BY DEF AgentState, Fresh
<1>4. Plain(workers, inflight)
  BY <1>2 DEF Plain, NoRow, Idle
<1>5. Sound(agent, inflight) /\ NoOrphan(agent, inflight) /\ Covered(agent, jobs)
  BY <1>2, <1>3 DEF Sound, SoundAt, NoOrphan, Covered, Idle
<1>. QED  BY <1>1, <1>2, <1>3, <1>4, <1>5, FleetConstants DEF FInv, AgentInv

\* The invariant of the composition.
LEMMA FleetInvariant == FleetSpec => []FInv
  BY FleetStart, FleetStep, PTL DEF FleetSpec

\* The worker agents, their network and their mishaps use the server only as its callers may: the
\* composition is a behaviour of the core (WorkerAgent's requests against the handlers of app.py),
\* so what is proved of the core holds of it.
THEOREM FleetImplementsCore == FleetSpec => Spec
<1>1. FleetInit => Init
  BY DEF FleetInit
<1>. QED  BY <1>1, FleetInvariant, FleetStepIsCore, PTL DEF FleetSpec, Spec

\* The agents keep their shape, and one that waits for an answer waits for a request of its own
\* that the server still has (_request's one blocking call at a time).
THEOREM FleetTyped == FleetSpec => []FleetTypeOK
<1>1. FInv => FleetTypeOK
  BY DEF FInv, AgentInv, FleetTypeOK, Sound, SoundAt, Waiting
<1>. QED  BY <1>1, FleetInvariant, PTL

\* As long as nothing has gone wrong, whoever runs a job holds its lease for longer than the job
\* still has to run, if every job is shorter than a lease: heartbeats never renew one, so the
\* lease that came with the job has to last (_lease_deadline, the agent's heartbeats name no job).
THEOREM LeasesCoverRuns ==
  ASSUME \A j \in Jobs : JobTicks[j] < LeaseTicks
  PROVE  FleetSpec => []LeaseCoversRun
<1>1. FInv => LeaseCoversRun
  BY DEF FInv, AgentInv, JobsAreShort, LeaseCoversRun, Covered, HoldsJob
<1>. QED  BY <1>1, FleetInvariant, PTL

\* With the agents as its callers the core leases at most one job to a worker at a time, bills each
\* completed job once and to its holder, and implements the abstract work queue (SingleLease,
\* LedgerAgrees and CoreImplementsQueue of OrchestratorProofs).
THEOREM FleetKeepsCore ==
  FleetSpec => []OneLeasePerWorker /\ []LedgerMatchesJobs /\ ImplementsWorkQueue
BY FleetImplementsCore, SingleLease, LedgerAgrees, CoreImplementsQueue

=============================================================================
