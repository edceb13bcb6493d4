---------------------------- MODULE Orchestrator ----------------------------
(***************************************************************************)
(* The job-dispatch core of the OneCompute orchestrator                    *)
(* (src/orchestrator/app.py, scheduler.py, submit.py, routing_policy.py):  *)
(* the workers, jobs and ledger tables, the leases on jobs, and the HTTP   *)
(* handlers that change them.                                              *)
(*                                                                         *)
(* Handlers are synchronous FastAPI functions, run by a pool of threads.   *)
(* Each authenticates the caller by reading its workers row, and only then *)
(* takes write_lock for its multi-statement section; what it read of the   *)
(* row (and, in /results and /heartbeat, the clock) is stale by then.  So  *)
(* a handler is two or three actions here, and the request in between is   *)
(* kept in inflight[t] for the pool thread t that serves it.               *)
(*                                                                         *)
(* The callers are unconstrained: a registered worker may send any request *)
(* with its current token at any time, in any number, about any job.       *)
(*                                                                         *)
(* Time is relative: a lease holds the ticks it still has, a job and a     *)
(* heartbeat their age.  Ages stop growing where no guard can tell them    *)
(* apart any more, so the state space is finite without bounding the clock.*)
(*                                                                         *)
(* Events for the activity feed (_emit), attempts and the idle flag are    *)
(* left out: no handler of this module reads them.                         *)
(*                                                                         *)
(* A definition whose name starts with Mutant_ is not part of the model:   *)
(* it is the definition after it with a plausible bug, and some property   *)
(* of OrchestratorProps fails when it takes that definition's place.       *)
(***************************************************************************)
EXTENDS Integers, Sequences, FiniteSets

CONSTANTS
  Workers,         \* worker ids that may register
  NoWorker,        \* SQL NULL in jobs.assigned_worker
  Threads,         \* threads of the server's pool
  NumJobs,         \* bound: jobs ever submitted
  Manifest,        \* what the i-th submitted job asks for: [1..NumJobs -> ManifestRow]
  Capabilities,    \* what a worker may register with, a subset of CapabilityRow
  Features,        \* "gpu" and the accelerators a manifest may require
  RamLevels,       \* free RAM a heartbeat may report
  LoadLevels,      \* utilisation a heartbeat may report, in percent
  AttestedTiers,   \* tiers a verified attestation may derive ({}: no authority)
  AdminTiers,      \* tiers the admin assigns
  RequireApproval, \* app created with require_approval
  LeaseTicks,      \* _lease_deadline: 20 s
  GraceTicks,      \* LOAD_PRIORITY_GRACE_S
  LiveTicks,       \* LIVE_PEER_WINDOW_S
  LoadMargin,      \* LOAD_PRIORITY_MARGIN
  MaxDelay         \* bound: ticks between a request's authentication and its write section

Jobs  == 1..NumJobs
NoJob == 0

\* TIERS and CLASSIFICATIONS by rank; the API and the admin's form accept no others.
Tiers           == 0..3
Untrusted       == 0
Classifications == 0..3

ManifestRow ==
  [feats: SUBSET Features, ram: Nat, class: Classifications,
   challenge: BOOLEAN, units: Nat \ {0}]

CapabilityRow == [feats: SUBSET Features, ram: Nat, measureOnly: BOOLEAN]

ASSUME ConstantsAssumption ==
  /\ NoWorker \notin Workers
  /\ NumJobs \in Nat
  /\ Manifest \in [Jobs -> ManifestRow]
  /\ Capabilities \subseteq CapabilityRow
  /\ RamLevels \subseteq Nat
  /\ LoadLevels \subseteq 0..100
  /\ AttestedTiers \subseteq Tiers /\ AdminTiers \subseteq Tiers
  /\ RequireApproval \in BOOLEAN
  /\ LeaseTicks \in Nat \ {0} /\ GraceTicks \in Nat /\ LiveTicks \in Nat
  /\ LoadMargin \in Nat /\ MaxDelay \in Nat

VARIABLES
  workers,   \* the workers table
  jobs,      \* the jobs table
  ledger,    \* the append-only ledger table
  inflight   \* what each pool thread is in the middle of

vars == <<workers, jobs, ledger, inflight>>

-----------------------------------------------------------------------------
(* Rows. *)

WorkerRow ==
  [here: BOOLEAN, approved: BOOLEAN, blacklisted: BOOLEAN, tier: Tiers, pinned: BOOLEAN,
   feats: SUBSET Features, measureOnly: BOOLEAN, ram: Nat, load: 0..100,
   beat: 0..(LiveTicks + 1)]

\* A worker without a row; the other fields are the schema's column defaults.
NoRow ==
  [here |-> FALSE, approved |-> FALSE, blacklisted |-> FALSE, tier |-> Untrusted,
   pinned |-> FALSE, feats |-> {}, measureOnly |-> FALSE, ram |-> 0, load |-> 0,
   beat |-> LiveTicks + 1]

\* left: ticks until lease_expires, negative once it has passed (0 when NULL).
JobRow ==
  [state: {"absent", "queued", "leased", "completed"}, holder: Workers \cup {NoWorker},
   left: (-(MaxDelay + 1))..LeaseTicks, age: 0..GraceTicks]

LedgerRow == [worker: Workers, job: Jobs, credits: Nat]

\* What a report comes to once its payload is checked; "returned" stands for the statuses
\* failed and yielded and for a completed one whose proof hash does not match.
Verdicts == {"ok", "wrong_answer", "too_large", "returned"}

Request ==
  [op: {"idle"}]
  \cup [op: {"reap", "pick"}, w: Workers, feats: SUBSET Features, ram: Nat, measureOnly: BOOLEAN]
  \cup [op: {"result"}, w: Workers, job: Jobs, verdict: Verdicts, age: 0..MaxDelay]
  \cup [op: {"beat"}, w: Workers, job: Jobs \cup {NoJob}, load: 0..100, ram: Nat,
        measureOnly: BOOLEAN, age: 0..MaxDelay]
  \cup [op: {"derive"}, w: Workers, tier: Tiers]
  \cup [op: {"drop"}, w: Workers]

Idle == [op |-> "idle"]

Init ==
  /\ workers = [w \in Workers |-> NoRow]
  /\ jobs = [j \in Jobs |-> [state |-> "absent", holder |-> NoWorker, left |-> 0, age |-> 0]]
  /\ ledger = << >>
  /\ inflight = [t \in Threads |-> Idle]

-----------------------------------------------------------------------------
(* What the handlers compute. *)

Submitted(j) == jobs[j].state # "absent"
Mutant_HoldsJob(w, j) == jobs[j].holder = w   \* state = 'leased' forgotten
HoldsJob(w, j) == jobs[j].state = "leased" /\ jobs[j].holder = w
Busy(w) == \E j \in Jobs : HoldsJob(w, j)

Mutant_Requeued(row) == [row EXCEPT !.state = "queued", !.left = 0]   \* keeps assigned_worker

\* The UPDATE that puts a job back in the queue, wherever it occurs.
Requeued(row) == [row EXCEPT !.state = "queued", !.holder = NoWorker, !.left = 0]
RequeueAll(S) == [j \in Jobs |-> IF j \in S THEN Requeued(jobs[j]) ELSE jobs[j]]

\* credits = units * (5 if the job's manifest needs a GPU, else 1).
Credits(j) == Manifest[j].units * (IF "gpu" \in Manifest[j].feats THEN 5 ELSE 1)

Mutant_MayRoute(class, tier) == tier + 1 >= class   \* off by one rank

\* routing_policy.may_route, where each classification requires the tier of its own rank.
MayRoute(class, tier) == tier >= class

\* pick_job_for reads the tier inside the write section; no row means the default.
TierOf(w) == IF workers[w].here THEN workers[w].tier ELSE Untrusted

\* scheduler.capability_match, on the capability and free RAM of the stale row.
CapabilityMatch(j, r) == Manifest[j].feats \subseteq r.feats /\ Manifest[j].ram <= r.ram

Eligible(r) ==
  {j \in Jobs : /\ jobs[j].state = "queued"
                /\ CapabilityMatch(j, r)
                /\ MayRoute(Manifest[j].class, TierOf(r.w))}

\* pick_job_for: oldest first (ids grow in order of submission).
PickJobFor(r) == {j \in Eligible(r) : \A k \in Eligible(r) : j <= k}

\* A lighter, live, free peer of w (_defer_to_less_loaded).
LighterPeer(w, p) ==
  /\ p # w
  /\ workers[p].here /\ workers[p].approved /\ ~workers[p].blacklisted
  /\ workers[p].beat <= LiveTicks
  /\ ~Busy(p)
  /\ workers[w].load - workers[p].load >= LoadMargin

DeferToLessLoaded(w, j) ==
  /\ jobs[j].age < GraceTicks
  /\ workers[w].here
  /\ \E p \in Workers : LighterPeer(w, p)

Mutant_LeaseLive(j, d) == TRUE   \* assigned_worker checked, lease_expires not

\* lease_expires > now, for a clock reading d ticks ago.
LeaseLive(j, d) == jobs[j].left + d > 0

Serve(t, request) == inflight[t] = Idle /\ inflight' = [inflight EXCEPT ![t] = request]
Reply(t) == inflight' = [inflight EXCEPT ![t] = Idle]

-----------------------------------------------------------------------------
(* POST /register: the upsert, which keeps approved, blacklisted, the tier *)
(* and the pin of a worker it already knows.  A verified attestation then  *)
(* derives a tier in a second write section.                               *)

RegisterRow(w, cap) ==
  [workers[w] EXCEPT
     !.here = TRUE, !.approved = @ \/ ~RequireApproval, !.beat = 0,
     !.measureOnly = cap.measureOnly,   \* which strips everything else it advertised
     !.feats = IF cap.measureOnly THEN {} ELSE cap.feats,
     !.ram = IF cap.measureOnly THEN 0 ELSE cap.ram]

Register(t, w, cap) ==
  /\ inflight[t] = Idle
  /\ workers' = [workers EXCEPT ![w] = RegisterRow(w, cap)]
  /\ UNCHANGED <<jobs, ledger, inflight>>

RegisterAttested(t, w, cap, tier) ==
  /\ ~cap.measureOnly
  /\ Serve(t, [op |-> "derive", w |-> w, tier |-> tier])
  /\ workers' = [workers EXCEPT ![w] = RegisterRow(w, cap)]
  /\ UNCHANGED <<jobs, ledger>>

\* tier_pinned ignored.
Mutant_DeriveTier(t) ==
  LET r == inflight[t] IN
  /\ r.op = "derive"
  /\ Reply(t)
  /\ workers' = IF workers[r.w].here THEN [workers EXCEPT ![r.w].tier = r.tier] ELSE workers
  /\ UNCHANGED <<jobs, ledger>>

DeriveTier(t) ==
  LET r == inflight[t] IN
  /\ r.op = "derive"
  /\ Reply(t)
  /\ workers' = IF workers[r.w].here /\ ~workers[r.w].pinned
                THEN [workers EXCEPT ![r.w].tier = r.tier]
                ELSE workers
  /\ UNCHANGED <<jobs, ledger>>

-----------------------------------------------------------------------------
(* The operator's actions: POST /workers/{id}/approve and .../tier, whose  *)
(* UPDATEs do nothing without a row, and DELETE /workers/{id}, which finds *)
(* the row first and requeues in its write section.                        *)

Approve(w) ==
  /\ workers[w].here
  /\ workers' = [workers EXCEPT ![w].approved = TRUE]
  /\ UNCHANGED <<jobs, ledger, inflight>>

SetTier(w, tier) ==
  /\ workers[w].here
  /\ workers' = [workers EXCEPT ![w].tier = tier, ![w].pinned = TRUE]
  /\ UNCHANGED <<jobs, ledger, inflight>>

DisconnectAsked(t, w) ==
  /\ workers[w].here
  /\ Serve(t, [op |-> "drop", w |-> w])
  /\ UNCHANGED <<workers, jobs, ledger>>

DisconnectWorker(t) ==
  LET w == inflight[t].w IN
  /\ inflight[t].op = "drop"
  /\ Reply(t)
  /\ jobs' = RequeueAll({j \in Jobs : HoldsJob(w, j)})
  /\ workers' = [workers EXCEPT ![w] = NoRow]
  /\ UNCHANGED ledger

-----------------------------------------------------------------------------
(* POST /jobs: submit_job. *)

SubmitJob(j) ==
  /\ ~Submitted(j)
  /\ \A k \in Jobs : k < j => Submitted(k)
  /\ jobs' = [jobs EXCEPT ![j].state = "queued"]
  /\ UNCHANGED <<workers, ledger, inflight>>

-----------------------------------------------------------------------------
(* GET /jobs/next: authenticate, reap, then pick and lease.  A blacklisted *)
(* or unapproved worker gets its 204 at the first step.                    *)

PollAuth(t, w) ==
  /\ workers[w].here /\ workers[w].approved /\ ~workers[w].blacklisted
  /\ Serve(t, [op |-> "reap", w |-> w, feats |-> workers[w].feats, ram |-> workers[w].ram,
               measureOnly |-> workers[w].measureOnly])
  /\ UNCHANGED <<workers, jobs, ledger>>

Mutant_Expired == {j \in Jobs : jobs[j].state = "leased" /\ jobs[j].left < LeaseTicks}   \* by age
Expired == {j \in Jobs : jobs[j].state = "leased" /\ jobs[j].left < 0}

PollReap(t) ==
  /\ inflight[t].op = "reap"
  /\ jobs' = RequeueAll(Expired)
  /\ inflight' = [inflight EXCEPT ![t] = IF @.measureOnly THEN Idle ELSE [@ EXCEPT !.op = "pick"]]
  /\ UNCHANGED <<workers, ledger>>

Mutant_Assignable(r, j) == j \in PickJobFor(r) /\ ~DeferToLessLoaded(r.w, j)   \* busy unchecked
Assignable(r, j) == ~Busy(r.w) /\ j \in PickJobFor(r) /\ ~DeferToLessLoaded(r.w, j)

PollEmpty(t) ==
  /\ inflight[t].op = "pick"
  /\ \A j \in Jobs : ~Assignable(inflight[t], j)
  /\ Reply(t)
  /\ UNCHANGED <<workers, jobs, ledger>>

Lease(t, j) ==
  LET w == inflight[t].w IN
  /\ inflight[t].op = "pick"
  /\ Assignable(inflight[t], j)
  /\ jobs' = [jobs EXCEPT ![j].state = "leased", ![j].holder = w, ![j].left = LeaseTicks]
  /\ workers' = IF workers[w].here THEN [workers EXCEPT ![w].beat = 0] ELSE workers
  /\ Reply(t)
  /\ UNCHANGED ledger

-----------------------------------------------------------------------------
(* POST /heartbeat.  The clock is read before the write section, so d      *)
(* ticks ago; an expired lease goes back to the queue, a live one is       *)
(* extended from the present.                                              *)

HeartbeatAuth(t, w, j, load, ram) ==
  /\ workers[w].here
  /\ Serve(t, [op |-> "beat", w |-> w, job |-> j, load |-> load, ram |-> ram,
               measureOnly |-> workers[w].measureOnly, age |-> 0])
  /\ UNCHANGED <<workers, jobs, ledger>>

BeatRow(r, d) ==
  [workers[r.w] EXCEPT !.load = IF r.measureOnly THEN 0 ELSE r.load,
                       !.ram  = IF r.measureOnly THEN 0 ELSE r.ram,
                       !.beat = IF d <= LiveTicks THEN d ELSE LiveTicks + 1]

Heartbeat(t, d) ==
  LET r == inflight[t] IN
  /\ r.op = "beat"
  /\ d \in 0..r.age
  /\ Reply(t)
  /\ workers' = IF workers[r.w].here THEN [workers EXCEPT ![r.w] = BeatRow(r, d)] ELSE workers
  /\ jobs' = IF r.measureOnly \/ r.job = NoJob THEN jobs
             ELSE IF ~HoldsJob(r.w, r.job) THEN jobs
             ELSE IF LeaseLive(r.job, d) THEN [jobs EXCEPT ![r.job].left = LeaseTicks]
             ELSE RequeueAll({r.job})
  /\ UNCHANGED ledger

-----------------------------------------------------------------------------
(* POST /results/{job_id}. *)

ResultAuth(t, w, j, verdict) ==
  /\ workers[w].here /\ ~workers[w].blacklisted
  /\ Submitted(j)
  /\ verdict = "wrong_answer" => Manifest[j].challenge
  /\ Serve(t, [op |-> "result", w |-> w, job |-> j, verdict |-> verdict, age |-> 0])
  /\ UNCHANGED <<workers, jobs, ledger>>

\* The write section is entered with a clock reading d ticks old.
Reporting(t, d) == inflight[t].op = "result" /\ d \in 0..inflight[t].age

ResultNotLeased(t) ==
  /\ Reporting(t, 0)
  /\ ~HoldsJob(inflight[t].w, inflight[t].job)
  /\ Reply(t)
  /\ UNCHANGED <<workers, jobs, ledger>>

ResultTooLate(t, d) ==
  LET r == inflight[t] IN
  /\ Reporting(t, d)
  /\ HoldsJob(r.w, r.job) /\ ~LeaseLive(r.job, d)
  /\ jobs' = RequeueAll({r.job})
  /\ Reply(t)
  /\ UNCHANGED <<workers, ledger>>

\* payload_too_large: the job stays leased.
ResultTooLarge(t, d) ==
  LET r == inflight[t] IN
  /\ Reporting(t, d) /\ r.verdict = "too_large"
  /\ HoldsJob(r.w, r.job) /\ LeaseLive(r.job, d)
  /\ Reply(t)
  /\ UNCHANGED <<workers, jobs, ledger>>

\* invalid_proof, failed and yielded: the job goes back to the queue.
ResultReturned(t, d) ==
  LET r == inflight[t] IN
  /\ Reporting(t, d) /\ r.verdict = "returned"
  /\ HoldsJob(r.w, r.job) /\ LeaseLive(r.job, d)
  /\ jobs' = RequeueAll({r.job})
  /\ Reply(t)
  /\ UNCHANGED <<workers, ledger>>

\* cheater_blacklisted: the UPDATE of workers does nothing without a row.
ResultCheat(t, d) ==
  LET r == inflight[t] IN
  /\ Reporting(t, d) /\ r.verdict = "wrong_answer"
  /\ HoldsJob(r.w, r.job) /\ LeaseLive(r.job, d)
  /\ workers' = IF workers[r.w].here
                THEN [workers EXCEPT ![r.w].blacklisted = TRUE]
                ELSE workers
  /\ jobs' = RequeueAll({r.job})
  /\ Reply(t)
  /\ UNCHANGED ledger

\* The ledger row takes the worker from the job's row after clearing it.
Mutant_ResultCompleted(t, d) ==
  LET r == inflight[t] IN
  /\ Reporting(t, d) /\ r.verdict = "ok"
  /\ HoldsJob(r.w, r.job) /\ LeaseLive(r.job, d)
  /\ jobs' = [jobs EXCEPT ![r.job].state = "completed", ![r.job].left = 0,
                          ![r.job].holder = NoWorker]
  /\ ledger' = Append(ledger, [worker |-> jobs'[r.job].holder, job |-> r.job,
                               credits |-> Credits(r.job)])
  /\ Reply(t)
  /\ UNCHANGED workers

ResultCompleted(t, d) ==
  LET r == inflight[t] IN
  /\ Reporting(t, d) /\ r.verdict = "ok"
  /\ HoldsJob(r.w, r.job) /\ LeaseLive(r.job, d)
  /\ jobs' = [jobs EXCEPT ![r.job].state = "completed", ![r.job].left = 0]
  /\ ledger' = Append(ledger, [worker |-> r.w, job |-> r.job, credits |-> Credits(r.job)])
  /\ Reply(t)
  /\ UNCHANGED workers

-----------------------------------------------------------------------------
(* Time passes, and the server process dies and restarts: the database     *)
(* file keeps what was committed, the requests in flight are gone.         *)

AtLeast(x, lowest) == IF x >= lowest THEN x ELSE lowest
AtMost(x, highest) == IF x <= highest THEN x ELSE highest

OlderJob(row) ==
  [row EXCEPT
     !.left = IF row.state = "leased" THEN AtLeast(@ - 1, -(MaxDelay + 1)) ELSE @,
     !.age  = IF row.state # "absent" THEN AtMost(@ + 1, GraceTicks) ELSE @]

OlderWorker(row) == [row EXCEPT !.beat = AtMost(@ + 1, LiveTicks + 1)]

OlderRequest(r) == IF r.op \in {"result", "beat"} THEN [r EXCEPT !.age = @ + 1] ELSE r

Tick ==
  /\ \A t \in Threads : inflight[t].op \in {"result", "beat"} => inflight[t].age < MaxDelay
  /\ jobs' = [j \in Jobs |-> OlderJob(jobs[j])]
  /\ workers' = [w \in Workers |-> OlderWorker(workers[w])]
  /\ inflight' = [t \in Threads |-> OlderRequest(inflight[t])]
  /\ UNCHANGED ledger

Crash ==
  /\ inflight' = [t \in Threads |-> Idle]
  /\ UNCHANGED <<workers, jobs, ledger>>

-----------------------------------------------------------------------------

Operator ==
  \/ \E w \in Workers : Approve(w)
  \/ \E w \in Workers, tier \in AdminTiers : SetTier(w, tier)
  \/ \E t \in Threads, w \in Workers : DisconnectAsked(t, w)
  \/ \E t \in Threads : DisconnectWorker(t)

Registration ==
  \/ \E t \in Threads, w \in Workers, cap \in Capabilities : Register(t, w, cap)
  \/ \E t \in Threads, w \in Workers, cap \in Capabilities, tier \in AttestedTiers :
       RegisterAttested(t, w, cap, tier)
  \/ \E t \in Threads : DeriveTier(t)

Poll ==
  \/ \E t \in Threads, w \in Workers : PollAuth(t, w)
  \/ \E t \in Threads : PollReap(t)
  \/ \E t \in Threads : PollEmpty(t)
  \/ \E t \in Threads, j \in Jobs : Lease(t, j)

Beat ==
  \/ \E t \in Threads, w \in Workers, j \in Jobs \cup {NoJob}, load \in LoadLevels,
        ram \in RamLevels : HeartbeatAuth(t, w, j, load, ram)
  \/ \E t \in Threads, d \in 0..MaxDelay : Heartbeat(t, d)

Report ==
  \/ \E t \in Threads, w \in Workers, j \in Jobs, v \in Verdicts : ResultAuth(t, w, j, v)
  \/ \E t \in Threads : ResultNotLeased(t)
  \/ \E t \in Threads, d \in 0..MaxDelay : ResultTooLate(t, d)
  \/ \E t \in Threads, d \in 0..MaxDelay : ResultTooLarge(t, d)
  \/ \E t \in Threads, d \in 0..MaxDelay : ResultReturned(t, d)
  \/ \E t \in Threads, d \in 0..MaxDelay : ResultCheat(t, d)
  \/ \E t \in Threads, d \in 0..MaxDelay : ResultCompleted(t, d)

Next ==
  \/ Operator
  \/ Registration
  \/ \E j \in Jobs : SubmitJob(j)
  \/ Poll
  \/ Beat
  \/ Report
  \/ Tick
  \/ Crash

Spec == Init /\ [][Next]_vars

=============================================================================
