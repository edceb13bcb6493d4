-------------------------------- MODULE Fleet --------------------------------
(***************************************************************************)
(* The dispatch core together with the worker agents that talk to it: the  *)
(* main loop of src/worker/__main__.py, WorkerAgent of src/worker/agent.py *)
(* and the usage-heartbeat thread, over a network that may lose an answer. *)
(*                                                                         *)
(* An agent makes one blocking request at a time from its main loop (via   *)
(* names the server thread that serves it); its heartbeats come from a     *)
(* second thread and never name a job.  When a request fails or times out  *)
(* the agent gives up on it, but the server may still serve it: the answer *)
(* then reaches nobody.  Nothing is ever retried except by polling again.  *)
(*                                                                         *)
(* Left out: measure-only observers, which never poll, and tiers.          *)
(* Mutant_ definitions are the ones after them with a plausible bug (see   *)
(* module Orchestrator).                                                   *)
(***************************************************************************)
EXTENDS Orchestrator

CONSTANTS
  Advertised,    \* [Workers -> Capabilities]: what detect_capability finds
  Load,          \* [Workers -> LoadLevels]: the utilisation its heartbeats report
  Admitting,     \* the workers whose gate.should_run() keeps admitting; the others' may or may not
  JobTicks,      \* [Jobs -> Nat]: how long a job runs
  MaxFaults,     \* bound: crashes, lost answers, yields and disconnections
  NoThread

ASSUME FleetAssumption ==
  /\ Threads \subseteq Nat /\ NoThread \notin Threads
  /\ Advertised \in [Workers -> Capabilities]
  /\ \A w \in Workers : ~Advertised[w].measureOnly /\ Advertised[w].ram \in RamLevels
  /\ Load \in [Workers -> LoadLevels]
  /\ Admitting \subseteq Workers
  /\ JobTicks \in [Jobs -> Nat] /\ MaxFaults \in Nat

VARIABLES
  agent,   \* what each agent process is doing
  faults   \* faults so far

fleetVars == <<workers, jobs, ledger, inflight, agent, faults>>

\* registered: it has a worker token.
AgentState ==
  [registered: BOOLEAN, approved: BOOLEAN, phase: {"idle", "polling", "running", "reporting"},
   job: Jobs \cup {NoJob}, left: Nat, via: Threads \cup {NoThread}]

Fresh ==
  [registered |-> FALSE, approved |-> FALSE, phase |-> "idle", job |-> NoJob, left |-> 0,
   via |-> NoThread]

FleetInit == Init /\ agent = [w \in Workers |-> Fresh] /\ faults = 0

-----------------------------------------------------------------------------
(* Requests of the agents. *)

\* Threads are interchangeable: a request gets the first idle one.
FreeThread(t) == inflight[t] = Idle /\ \A u \in Threads : inflight[u] = Idle => t <= u

Idling(w) == agent[w].phase = "idle"
Waiting(a) == a.phase \in {"polling", "reporting"}
LoopAgain(a) == [a EXCEPT !.phase = "idle", !.job = NoJob, !.left = 0, !.via = NoThread]
Unregistered(a) == [a EXCEPT !.registered = FALSE, !.approved = FALSE]   \* _clear_registration

Fault == faults < MaxFaults /\ faults' = faults + 1

\* run_once: an unregistered agent registers before it polls.
Join(w) ==
  /\ Idling(w) /\ ~agent[w].registered
  /\ \E t \in Threads : FreeThread(t) /\ Register(t, w, Advertised[w])
  /\ agent' = [agent EXCEPT ![w].registered = TRUE, ![w].approved = workers'[w].approved]
  /\ UNCHANGED faults

\* The answer is lost: the server has a new token for w, the agent has none.
JoinUnanswered(w) ==
  /\ Idling(w) /\ ~agent[w].registered
  /\ \E t \in Threads : FreeThread(t) /\ Register(t, w, Advertised[w])
  /\ Fault
  /\ UNCHANGED agent

\* run_once: one heartbeat asks whether the operator has approved meanwhile.
AskApproval(w) ==
  /\ Idling(w) /\ agent[w].registered /\ ~agent[w].approved
  /\ \E t \in Threads : FreeThread(t) /\ HeartbeatAuth(t, w, NoJob, Load[w], Advertised[w].ram)
  /\ agent' = [agent EXCEPT ![w].approved = workers[w].approved]
  /\ UNCHANGED faults

\* poll_once, when the gate admits; a refused poll (401) is taken for no work.
AskJob(w) ==
  /\ Idling(w) /\ agent[w].registered /\ agent[w].approved
  /\ \E t \in Threads :
       /\ FreeThread(t)
       /\ PollAuth(t, w)
       /\ agent' = [agent EXCEPT ![w].phase = "polling", ![w].via = t]
  /\ UNCHANGED faults

Send(w, verdict) ==
  \E t \in Threads :
    /\ FreeThread(t)
    /\ ResultAuth(t, w, agent[w].job, verdict)
    /\ agent' = [agent EXCEPT ![w].phase = "reporting", ![w].via = t]

\* report_result, when run_job has returned.
ReportJob(w) ==
  /\ agent[w].phase = "running" /\ agent[w].left = 0 /\ agent[w].registered
  /\ Send(w, "ok")
  /\ UNCHANGED faults

\* Its human came back, the run failed or _verify_assignment refused the job: the report says so.
YieldJob(w) ==
  /\ agent[w].phase = "running" /\ agent[w].registered
  /\ Send(w, "returned")
  /\ Fault

\* The report is refused (401 without a row or a token); report_result only logs that.
ReportRefused(w) ==
  /\ agent[w].phase = "running" /\ agent[w].left = 0
  /\ ~agent[w].registered \/ ~workers[w].here
  /\ agent' = [agent EXCEPT ![w] = LoopAgain(@)]
  /\ UNCHANGED <<vars, faults>>

\* The usage-heartbeat thread, at most once per tick, and never naming the job.
UsageBeat(w) ==
  /\ agent[w].registered
  /\ workers[w].beat > 0
  /\ \A u \in Threads : inflight[u].op = "beat" => inflight[u].w # w
  /\ \E t \in Threads : FreeThread(t) /\ HeartbeatAuth(t, w, NoJob, Load[w], Advertised[w].ram)
  /\ UNCHANGED <<agent, faults>>

\* The refused heartbeat is only logged.
Mutant_BeatRefused(w) ==
  /\ agent[w].registered /\ ~workers[w].here
  /\ UNCHANGED fleetVars

\* A heartbeat answered 401 clears the registration, whatever the main loop is doing.  Refusal
\* and clearing are one step: only where the main loop's AskApproval is refused at the same time
\* could it register in between, and be made to register once more.
BeatRefused(w) ==
  /\ agent[w].registered /\ ~workers[w].here
  /\ agent' = [agent EXCEPT ![w] = Unregistered(@)]
  /\ UNCHANGED <<vars, faults>>

-----------------------------------------------------------------------------
(* The server's handlers, with the answers they give. *)

Mutant_Answer(t) == UNCHANGED agent   \* an answer without a job (204) is not acted on

\* The answer of thread t brings whoever waits for it back to its main loop.
Answer(t) == agent' = [w \in Workers |-> IF agent[w].via = t THEN LoopAgain(agent[w]) ELSE agent[w]]

StartJob(a, j) == [a EXCEPT !.phase = "running", !.job = j, !.left = JobTicks[j], !.via = NoThread]

Assign(t, j) ==
  /\ Lease(t, j)
  /\ agent' = [w \in Workers |-> IF agent[w].via = t THEN StartJob(agent[w], j) ELSE agent[w]]

Settle(t) ==
  \/ ResultNotLeased(t)
  \/ \E d \in 0..MaxDelay : ResultTooLate(t, d) \/ ResultReturned(t, d) \/ ResultCompleted(t, d)

Handle(t) ==
  /\ \/ PollReap(t) /\ UNCHANGED agent
     \/ PollEmpty(t) /\ Answer(t)
     \/ \E j \in Jobs : Assign(t, j)
     \/ (\E d \in 0..MaxDelay : Heartbeat(t, d)) /\ UNCHANGED agent
     \/ Settle(t) /\ Answer(t)
     \/ DisconnectWorker(t) /\ UNCHANGED agent
  /\ UNCHANGED faults

-----------------------------------------------------------------------------
(* Clients, the operator, time and faults. *)

Submission == (\E j \in Jobs : SubmitJob(j)) /\ UNCHANGED <<agent, faults>>

Approval == (\E w \in Workers : Approve(w)) /\ UNCHANGED <<agent, faults>>

Disconnection ==
  /\ \E t \in Threads, w \in Workers : FreeThread(t) /\ DisconnectAsked(t, w)
  /\ Fault
  /\ UNCHANGED agent

\* A finished job is reported within the tick in which it finished.
FleetTick ==
  /\ \A w \in Workers : agent[w].phase = "running" => agent[w].left > 0
  /\ Tick
  /\ agent' = [w \in Workers |-> IF agent[w].phase = "running" THEN [agent[w] EXCEPT !.left = @ - 1]
                                 ELSE agent[w]]
  /\ UNCHANGED faults

\* httpx times out or the connection breaks; the server may be serving the request still.
GiveUp(w) ==
  /\ Waiting(agent[w])
  /\ Fault
  /\ agent' = [agent EXCEPT ![w] = LoopAgain(@)]
  /\ UNCHANGED vars

AgentRestart(w) ==
  /\ agent[w] # Fresh
  /\ Fault
  /\ agent' = [agent EXCEPT ![w] = Fresh]
  /\ UNCHANGED vars

ServerRestart ==
  /\ Crash
  /\ Fault
  /\ agent' = [w \in Workers |-> IF Waiting(agent[w]) THEN LoopAgain(agent[w]) ELSE agent[w]]

-----------------------------------------------------------------------------

AgentStep(w) ==
  \/ Join(w) \/ AskApproval(w) \/ AskJob(w) \/ ReportJob(w) \/ ReportRefused(w)
  \/ UsageBeat(w) \/ BeatRefused(w)

Mishap ==
  \/ \E w \in Workers : JoinUnanswered(w) \/ YieldJob(w) \/ GiveUp(w) \/ AgentRestart(w)
  \/ Disconnection
  \/ ServerRestart

FleetNext ==
  \/ \E w \in Workers : AgentStep(w)
  \/ \E t \in Threads : Handle(t)
  \/ Submission
  \/ Approval
  \/ FleetTick
  \/ Mishap

\* Every thread of an agent and of the server runs, the gates of Admitting let it ask for work,
\* time passes, and the operator admits the devices that wait for it.
Fairness ==
  /\ \A w \in Workers :
       /\ WF_fleetVars(Join(w)) /\ WF_fleetVars(AskApproval(w))
       /\ WF_fleetVars(ReportJob(w)) /\ WF_fleetVars(ReportRefused(w))
       /\ WF_fleetVars(UsageBeat(w)) /\ WF_fleetVars(BeatRefused(w))
  /\ \A w \in Admitting : WF_fleetVars(AskJob(w))
  /\ \A t \in Threads : WF_fleetVars(Handle(t))
  /\ WF_fleetVars(FleetTick)
  /\ \A w \in Workers : WF_fleetVars(Approve(w) /\ UNCHANGED <<agent, faults>>)

FleetSpec == FleetInit /\ [][FleetNext]_fleetVars /\ Fairness

-----------------------------------------------------------------------------
(* Properties. *)

\* The agents keep their shape, and one that waits for an answer waits for a request that the
\* server still has: no agent blocks for ever (_request's answers, one blocking call at a time).
FleetTypeOK ==
  /\ agent \in [Workers -> AgentState]
  /\ faults \in 0..MaxFaults
  /\ \A w \in Workers : Waiting(agent[w]) => inflight[agent[w].via].op # "idle"

\* As long as nothing has gone wrong, whoever runs a job holds its lease, for as long as the
\* job still has to run: no work is done twice or thrown away (jobs_next, reap_expired).
LeaseCoversRun ==
  faults = 0 =>
    \A w \in Workers : agent[w].phase = "running" =>
      HoldsJob(w, agent[w].job) /\ jobs[agent[w].job].left > agent[w].left

\* Every submitted job is completed in the end, whatever was lost, yielded or restarted on the
\* way, and even if a lighter device keeps reporting itself live without ever asking for work
\* (reap_expired, _defer_to_less_loaded, _clear_registration).
JobsComplete == \A j \in Jobs : Submitted(j) ~> jobs[j].state = "completed"

=============================================================================
