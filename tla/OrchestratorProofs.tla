------------------------- MODULE OrchestratorProofs -------------------------
(* Theorems about module Orchestrator, for every value of its constants. *)
EXTENDS OrchestratorProps, TLAPS

\* What a thread's request says, by the handler it is in.
LEMMA RequestFields ==
  ASSUME NEW r \in Request
  PROVE  /\ r.op \in {"idle", "reap", "pick", "result", "beat", "derive", "drop"}
         /\ r.op # "idle" => r.w \in Workers
         /\ r.op \in {"reap", "pick"} =>
              /\ r.feats \in SUBSET Features /\ r.ram \in Nat /\ r.measureOnly \in BOOLEAN
              /\ [r EXCEPT !.op = "pick"] \in Request
         /\ r.op = "result" => r.job \in Jobs /\ r.verdict \in Verdicts /\ r.age \in 0..MaxDelay
         /\ r.op = "beat" => /\ r.job \in Jobs \cup {NoJob} /\ r.load \in 0..100
                             /\ r.ram \in Nat /\ r.measureOnly \in BOOLEAN /\ r.age \in 0..MaxDelay
         /\ r.op = "derive" => r.tier \in Tiers
  BY DEF Request

LEMMA IdleIsRequest == Idle \in Request
  BY DEF Request, Idle

\* Zero and a whole lease are times a lease may have left.
LEMMA LeaseRange ==
  /\ 0 \in (-(MaxDelay + 1))..LeaseTicks
  /\ LeaseTicks \in (-(MaxDelay + 1))..LeaseTicks
  BY ConstantsAssumption DEF ConstantsAssumption

LEMMA RequeuedType ==
  ASSUME NEW row \in JobRow
  PROVE  Requeued(row) \in JobRow
  BY LeaseRange DEF Requeued, JobRow

\* Requeueing keeps the jobs table well-typed.
LEMMA RequeueAllType ==
  ASSUME jobs \in [Jobs -> JobRow], NEW STATE S
  PROVE  RequeueAll(S) \in [Jobs -> JobRow]
  BY RequeuedType DEF RequeueAll

LEMMA ReplyType ==
  ASSUME TypeOK, NEW t \in Threads, Reply(t)
  PROVE  inflight' \in [Threads -> Request]
  BY IdleIsRequest DEF TypeOK, Reply

LEMMA ServeType ==
  ASSUME TypeOK, NEW t \in Threads, NEW r \in Request, Serve(t, r)
  PROVE  inflight' \in [Threads -> Request]
  BY DEF TypeOK, Serve

\* The column updates of the handlers keep a workers row well-typed.
LEMMA WorkerRowUpdates ==
  ASSUME NEW row \in WorkerRow
  PROVE  /\ [row EXCEPT !.approved = TRUE] \in WorkerRow
         /\ [row EXCEPT !.blacklisted = TRUE] \in WorkerRow
         /\ [row EXCEPT !.beat = 0] \in WorkerRow
         /\ \A tier \in Tiers : [row EXCEPT !.tier = tier] \in WorkerRow
         /\ \A tier \in Tiers : [row EXCEPT !.tier = tier, !.pinned = TRUE] \in WorkerRow
  <1>1. 0 \in 0..(LiveTicks + 1)
    BY ConstantsAssumption DEF ConstantsAssumption
  <1>2. QED
    BY <1>1 DEF WorkerRow

LEMMA RegisterType ==
  ASSUME TypeOK, NEW w \in Workers, NEW cap \in Capabilities
  PROVE  [workers EXCEPT ![w] = RegisterRow(w, cap)] \in [Workers -> WorkerRow]
  <1>1. workers[w] \in WorkerRow
    BY DEF TypeOK
  <1>2. cap.feats \in SUBSET Features /\ cap.ram \in Nat /\ cap.measureOnly \in BOOLEAN
    BY ConstantsAssumption DEF ConstantsAssumption, CapabilityRow
  <1>3. 0 \in 0..(LiveTicks + 1)
    BY ConstantsAssumption DEF ConstantsAssumption
  <1>4. RegisterRow(w, cap) \in WorkerRow
    BY <1>1, <1>2, <1>3, ConstantsAssumption DEF RegisterRow, WorkerRow, ConstantsAssumption
  <1>5. QED
    BY <1>4 DEF TypeOK

LEMMA RegisterStepType ==
  ASSUME TypeOK, Registration
  PROVE  TypeOK'
  <1>1. ASSUME NEW t \in Threads, NEW w \in Workers, NEW cap \in Capabilities,
               Register(t, w, cap)
        PROVE  TypeOK'
    BY <1>1, RegisterType DEF Register, TypeOK
  <1>2. ASSUME NEW t \in Threads, NEW w \in Workers, NEW cap \in Capabilities,
               NEW tier \in AttestedTiers, RegisterAttested(t, w, cap, tier)
        PROVE  TypeOK'
    <2>1. [op |-> "derive", w |-> w, tier |-> tier] \in Request
      BY ConstantsAssumption DEF ConstantsAssumption, Request
    <2>2. QED
      BY <1>2, <2>1, RegisterType, ServeType DEF RegisterAttested, TypeOK
  <1>3. ASSUME NEW t \in Threads, DeriveTier(t)
        PROVE  TypeOK'
    <2>1. inflight[t] \in Request /\ inflight[t].op = "derive"
      BY <1>3 DEF TypeOK, DeriveTier
    <2>2. inflight[t].w \in Workers /\ inflight[t].tier \in Tiers
      BY <2>1, RequestFields
    <2>3. [workers[inflight[t].w] EXCEPT !.tier = inflight[t].tier] \in WorkerRow
      BY <2>2, WorkerRowUpdates DEF TypeOK
    <2>4. workers' \in [Workers -> WorkerRow]
      BY <1>3, <2>2, <2>3 DEF TypeOK, DeriveTier
    <2>5. QED
      BY <1>3, <2>4, ReplyType DEF DeriveTier, TypeOK
  <1>4. QED
    BY <1>1, <1>2, <1>3 DEF Registration

LEMMA OperatorStepType ==
  ASSUME TypeOK, Operator
  PROVE  TypeOK'
  <1>1. ASSUME NEW w \in Workers, Approve(w)
        PROVE  TypeOK'
    <2>1. [workers[w] EXCEPT !.approved = TRUE] \in WorkerRow
      BY WorkerRowUpdates DEF TypeOK
    <2>2. QED
      BY <1>1, <2>1 DEF Approve, TypeOK
  <1>2. ASSUME NEW w \in Workers, NEW tier \in AdminTiers, SetTier(w, tier)
        PROVE  TypeOK'
    <2>1. [workers[w] EXCEPT !.tier = tier, !.pinned = TRUE] \in WorkerRow
      BY WorkerRowUpdates, ConstantsAssumption DEF ConstantsAssumption, TypeOK
    <2>2. QED
      BY <1>2, <2>1 DEF SetTier, TypeOK
  <1>3. ASSUME NEW t \in Threads, NEW w \in Workers, DisconnectAsked(t, w)
        PROVE  TypeOK'
    <2>1. [op |-> "drop", w |-> w] \in Request
      BY DEF Request
    <2>2. QED
      BY <1>3, <2>1, ServeType DEF DisconnectAsked, TypeOK
  <1>4. ASSUME NEW t \in Threads, DisconnectWorker(t)
        PROVE  TypeOK'
    <2>1. NoRow \in WorkerRow
      BY ConstantsAssumption DEF ConstantsAssumption, NoRow, WorkerRow, Tiers, Untrusted
    <2>2. jobs' \in [Jobs -> JobRow]
      BY <1>4, RequeueAllType DEF DisconnectWorker, TypeOK
    <2>3. QED
      BY <1>4, <2>1, <2>2, ReplyType DEF DisconnectWorker, TypeOK
  <1>5. QED
    BY <1>1, <1>2, <1>3, <1>4 DEF Operator

LEMMA SubmitType ==
  ASSUME TypeOK, NEW j \in Jobs, SubmitJob(j)
  PROVE  TypeOK'
  BY DEF TypeOK, SubmitJob, JobRow

LEMMA PollStepType ==
  ASSUME TypeOK, Poll
  PROVE  TypeOK'
  <1>1. ASSUME NEW t \in Threads, NEW w \in Workers, PollAuth(t, w)
        PROVE  TypeOK'
    <2>1. [op |-> "reap", w |-> w, feats |-> workers[w].feats, ram |-> workers[w].ram,
           measureOnly |-> workers[w].measureOnly] \in Request
      BY DEF TypeOK, WorkerRow, Request
    <2>2. QED
      BY <1>1, <2>1, ServeType DEF PollAuth, TypeOK
  <1>2. ASSUME NEW t \in Threads, PollReap(t)
        PROVE  TypeOK'
    <2>1. inflight[t] \in Request /\ inflight[t].op = "reap"
      BY <1>2 DEF TypeOK, PollReap
    <2>2. inflight' \in [Threads -> Request]
      BY <1>2, <2>1, RequestFields, IdleIsRequest DEF TypeOK, PollReap
    <2>3. jobs' \in [Jobs -> JobRow]
      BY <1>2, RequeueAllType DEF PollReap, TypeOK
    <2>4. QED
      BY <1>2, <2>2, <2>3 DEF PollReap, TypeOK
  <1>3. ASSUME NEW t \in Threads, PollEmpty(t)
        PROVE  TypeOK'
    BY <1>3, ReplyType DEF PollEmpty, TypeOK
  <1>4. ASSUME NEW t \in Threads, NEW j \in Jobs, Lease(t, j)
        PROVE  TypeOK'
    <2>1. inflight[t] \in Request /\ inflight[t].op = "pick"
      BY <1>4 DEF TypeOK, Lease
    <2>2. inflight[t].w \in Workers
      BY <2>1, RequestFields
    <2>3. jobs' \in [Jobs -> JobRow]
      <3>1. [jobs[j] EXCEPT !.state = "leased", !.holder = inflight[t].w, !.left = LeaseTicks]
              \in JobRow
        BY <2>2, LeaseRange DEF TypeOK, JobRow
      <3>2. jobs \in [Jobs -> JobRow]
        BY DEF TypeOK
      <3>3. jobs' = [jobs EXCEPT ![j] = [jobs[j] EXCEPT !.state = "leased",
                       !.holder = inflight[t].w, !.left = LeaseTicks]]
        BY <1>4, <3>2 DEF Lease
      <3>. HIDE DEF JobRow
      <3>. QED  BY <3>1, <3>2, <3>3
    <2>4. workers' \in [Workers -> WorkerRow]
      <3>1. [workers[inflight[t].w] EXCEPT !.beat = 0] \in WorkerRow
        BY <2>2, WorkerRowUpdates DEF TypeOK
      <3>2. QED
        BY <1>4, <2>2, <3>1 DEF Lease, TypeOK
    <2>5. QED
      BY <1>4, <2>3, <2>4, ReplyType DEF Lease, TypeOK
  <1>5. QED
    BY <1>1, <1>2, <1>3, <1>4 DEF Poll

LEMMA BeatStepType ==
  ASSUME TypeOK, Beat
  PROVE  TypeOK'
  <1>1. ASSUME NEW t \in Threads, NEW w \in Workers, NEW j \in Jobs \cup {NoJob},
               NEW load \in LoadLevels, NEW ram \in RamLevels, HeartbeatAuth(t, w, j, load, ram)
        PROVE  TypeOK'
    <2>1. workers[w].measureOnly \in BOOLEAN /\ load \in 0..100 /\ ram \in Nat /\ 0 \in 0..MaxDelay
      BY ConstantsAssumption DEF ConstantsAssumption, TypeOK, WorkerRow
    <2>2. [op |-> "beat", w |-> w, job |-> j, load |-> load, ram |-> ram,
           measureOnly |-> workers[w].measureOnly, age |-> 0] \in Request
      BY <2>1 DEF Request
    <2>3. QED
      BY <1>1, <2>2, ServeType DEF HeartbeatAuth, TypeOK
  <1>2. ASSUME NEW t \in Threads, NEW d \in 0..MaxDelay, Heartbeat(t, d)
        PROVE  TypeOK'
    <2> DEFINE r == inflight[t]
    <2>1. r \in Request /\ r.op = "beat"
      BY <1>2 DEF TypeOK, Heartbeat
    <2>2. /\ r.w \in Workers /\ r.job \in Jobs \cup {NoJob}
          /\ r.load \in 0..100 /\ r.ram \in Nat /\ r.measureOnly \in BOOLEAN
      BY <2>1, RequestFields
    <2>3. BeatRow(r, d) \in WorkerRow
      <3>1. workers[r.w] \in WorkerRow
        BY <2>2 DEF TypeOK
      <3>2. (IF d <= LiveTicks THEN d ELSE LiveTicks + 1) \in 0..(LiveTicks + 1)
        BY ConstantsAssumption DEF ConstantsAssumption
      <3>3. /\ (IF r.measureOnly THEN 0 ELSE r.load) \in 0..100
            /\ (IF r.measureOnly THEN 0 ELSE r.ram) \in Nat
        BY <2>2
      <3> HIDE DEF r
      <3>4. QED
        BY <3>1, <3>2, <3>3 DEF BeatRow, WorkerRow
    <2>4. workers' \in [Workers -> WorkerRow]
      BY <1>2, <2>2, <2>3 DEF Heartbeat, TypeOK
    <2>5. CASE jobs' = jobs
      BY <1>2, <2>4, <2>5, ReplyType DEF Heartbeat, TypeOK
    <2>6. CASE jobs' = [jobs EXCEPT ![r.job].left = LeaseTicks]
      <3>1. jobs' \in [Jobs -> JobRow]
        BY <2>6, LeaseRange DEF TypeOK, JobRow
      <3>2. QED
        BY <1>2, <2>4, <3>1, ReplyType DEF Heartbeat, TypeOK
    <2>7. CASE jobs' = RequeueAll({r.job})
      <3>1. jobs' \in [Jobs -> JobRow]
        BY <2>7, RequeueAllType DEF TypeOK
      <3>2. QED
        BY <1>2, <2>4, <3>1, ReplyType DEF Heartbeat, TypeOK
    <2>8. QED
      BY <1>2, <2>5, <2>6, <2>7 DEF Heartbeat
  <1>3. QED
    BY <1>1, <1>2 DEF Beat

\* The price of a job is a number, and its ledger row well-typed.
LEMMA PaidRowType ==
  ASSUME NEW w \in Workers, NEW j \in Jobs
  PROVE  [worker |-> w, job |-> j, credits |-> Credits(j)] \in LedgerRow
  <1>1. Manifest[j].units \in Nat
    BY ConstantsAssumption DEF ConstantsAssumption, ManifestRow
  <1>2. Credits(j) \in Nat
    BY <1>1 DEF Credits
  <1>3. QED
    BY <1>2 DEF LedgerRow

LEMMA ReportStepType ==
  ASSUME TypeOK, Report
  PROVE  TypeOK'
  <1>1. ASSUME NEW t \in Threads, NEW w \in Workers, NEW j \in Jobs, NEW v \in Verdicts,
               ResultAuth(t, w, j, v)
        PROVE  TypeOK'
    <2>1. 0 \in 0..MaxDelay
      BY ConstantsAssumption DEF ConstantsAssumption
    <2>2. [op |-> "result", w |-> w, job |-> j, verdict |-> v, age |-> 0] \in Request
      BY <2>1 DEF Request
    <2>3. QED
      BY <1>1, <2>2, ServeType DEF ResultAuth, TypeOK
  <1>2. ASSUME NEW t \in Threads, ResultNotLeased(t)
        PROVE  TypeOK'
    BY <1>2, ReplyType DEF ResultNotLeased, TypeOK
  <1>3. ASSUME NEW t \in Threads, NEW d \in 0..MaxDelay,
               ResultTooLate(t, d) \/ ResultReturned(t, d)
        PROVE  TypeOK'
    <2>1. jobs' \in [Jobs -> JobRow]
      BY <1>3, RequeueAllType DEF ResultTooLate, ResultReturned, TypeOK
    <2>2. QED
      BY <1>3, <2>1, ReplyType DEF ResultTooLate, ResultReturned, TypeOK
  <1>4. ASSUME NEW t \in Threads, NEW d \in 0..MaxDelay, ResultTooLarge(t, d)
        PROVE  TypeOK'
    BY <1>4, ReplyType DEF ResultTooLarge, TypeOK
  <1>5. ASSUME NEW t \in Threads, NEW d \in 0..MaxDelay, ResultCheat(t, d)
        PROVE  TypeOK'
    <2>1. inflight[t].w \in Workers
      BY <1>5, RequestFields DEF TypeOK, ResultCheat, Reporting
    <2>2. [workers[inflight[t].w] EXCEPT !.blacklisted = TRUE] \in WorkerRow
      BY <2>1, WorkerRowUpdates DEF TypeOK
    <2>3. workers' \in [Workers -> WorkerRow]
      BY <1>5, <2>1, <2>2 DEF ResultCheat, TypeOK
    <2>4. jobs' \in [Jobs -> JobRow]
      BY <1>5, RequeueAllType DEF ResultCheat, TypeOK
    <2>5. QED
      BY <1>5, <2>3, <2>4, ReplyType DEF ResultCheat, TypeOK
  <1>6. ASSUME NEW t \in Threads, NEW d \in 0..MaxDelay, ResultCompleted(t, d)
        PROVE  TypeOK'
    <2>1. inflight[t].w \in Workers /\ inflight[t].job \in Jobs
      BY <1>6, RequestFields DEF TypeOK, ResultCompleted, Reporting
    <2>2. ledger' \in Seq(LedgerRow)
      BY <1>6, <2>1, PaidRowType DEF ResultCompleted, TypeOK
    <2>3. jobs' \in [Jobs -> JobRow]
      BY <1>6, <2>1, LeaseRange DEF ResultCompleted, TypeOK, JobRow
    <2>4. QED
      BY <1>6, <2>2, <2>3, ReplyType DEF ResultCompleted, TypeOK
  <1>7. QED
    BY <1>1, <1>2, <1>3, <1>4, <1>5, <1>6 DEF Report

LEMMA TickType ==
  ASSUME TypeOK, Tick
  PROVE  TypeOK'
  <1>1. ASSUME NEW row \in JobRow
        PROVE  OlderJob(row) \in JobRow
    <2>1. AtLeast(row.left - 1, -(MaxDelay + 1)) \in (-(MaxDelay + 1))..LeaseTicks
      BY ConstantsAssumption DEF ConstantsAssumption, JobRow, AtLeast
    <2>2. AtMost(row.age + 1, GraceTicks) \in 0..GraceTicks
      BY ConstantsAssumption DEF ConstantsAssumption, JobRow, AtMost
    <2>3. QED
      BY <2>1, <2>2 DEF OlderJob, JobRow
  <1>2. ASSUME NEW row \in WorkerRow
        PROVE  OlderWorker(row) \in WorkerRow
    <2>1. AtMost(row.beat + 1, LiveTicks + 1) \in 0..(LiveTicks + 1)
      BY ConstantsAssumption DEF ConstantsAssumption, WorkerRow, AtMost
    <2>2. QED
      BY <2>1 DEF OlderWorker, WorkerRow
  <1>3. ASSUME NEW r \in Request, r.op \in {"result", "beat"} => r.age < MaxDelay
        PROVE  OlderRequest(r) \in Request
    <2>1. CASE r.op = "result"
      <3>1. r \in [op: {"result"}, w: Workers, job: Jobs, verdict: Verdicts, age: 0..MaxDelay]
        BY <2>1 DEF Request
      <3>2. r.age + 1 \in 0..MaxDelay
        BY <1>3, <2>1, <3>1, ConstantsAssumption DEF ConstantsAssumption
      <3>3. QED
        BY <2>1, <3>1, <3>2 DEF OlderRequest, Request
    <2>2. CASE r.op = "beat"
      <3>1. r \in [op: {"beat"}, w: Workers, job: Jobs \cup {NoJob}, load: 0..100, ram: Nat,
                   measureOnly: BOOLEAN, age: 0..MaxDelay]
        BY <2>2 DEF Request
      <3>2. r.age + 1 \in 0..MaxDelay
        BY <1>3, <2>2, <3>1, ConstantsAssumption DEF ConstantsAssumption
      <3>3. QED
        BY <2>2, <3>1, <3>2 DEF OlderRequest, Request
    <2>3. QED
      BY <2>1, <2>2 DEF OlderRequest
  <1>4. inflight' \in [Threads -> Request]
    BY <1>3 DEF Tick, TypeOK
  <1>5. QED
    BY <1>1, <1>2, <1>4 DEF Tick, TypeOK

\* The tables start well-typed.
LEMMA InitTypes == Init => TypeOK
  <1>1. NoRow \in WorkerRow
    BY ConstantsAssumption DEF ConstantsAssumption, NoRow, WorkerRow, Tiers, Untrusted
  <1>2. [state |-> "absent", holder |-> NoWorker, left |-> 0, age |-> 0] \in JobRow
    BY LeaseRange, ConstantsAssumption DEF ConstantsAssumption, JobRow
  <1>3. QED
    BY <1>1, <1>2, IdleIsRequest DEF Init, TypeOK

\* Every handler, the clock and a crash keep them so.
LEMMA StepTypes == TypeOK /\ [Next]_vars => TypeOK'
  <1> SUFFICES ASSUME TypeOK, [Next]_vars
               PROVE  TypeOK'
    OBVIOUS
  <1>1. CASE Crash
    BY <1>1, IdleIsRequest DEF Crash, TypeOK
  <1>2. CASE UNCHANGED vars
    BY <1>2 DEF vars, TypeOK
  <1>3. QED
    BY <1>1, <1>2, OperatorStepType, RegisterStepType, SubmitType, PollStepType, BeatStepType,
       ReportStepType, TickType DEF Next

\* Every reachable state is well-typed: the tables keep their columns' types.
THEOREM TypeCorrect == Spec => []TypeOK
  BY InitTypes, StepTypes, PTL DEF Spec

-----------------------------------------------------------------------------
(* Leases. *)

\* The jobs table after a step: a submission, a lease of an eligible job by the worker of a
\* poll, some leases returned, one completed by its holder and paid, one extended, or time.
JobsStep ==
  \/ jobs' = jobs /\ ledger' = ledger
  \/ \E j \in Jobs : SubmitJob(j)
  \/ \E t \in Threads, j \in Jobs : Lease(t, j)
  \/ /\ \E S \in SUBSET {j \in Jobs : jobs[j].state = "leased"} : jobs' = RequeueAll(S)
     /\ ledger' = ledger
  \/ \E t \in Threads, d \in 0..MaxDelay : ResultCompleted(t, d)
  \/ /\ \E j \in Jobs, d \in 0..MaxDelay :
           /\ jobs[j].state = "leased" /\ LeaseLive(j, d)
           /\ jobs' = [jobs EXCEPT ![j].left = LeaseTicks]
     /\ ledger' = ledger
  \/ jobs' = [j \in Jobs |-> OlderJob(jobs[j])] /\ ledger' = ledger

LEMMA NextJobsStep ==
  ASSUME TypeOK, [Next]_vars
  PROVE  JobsStep
  <1>1. CASE Operator
    <2>1. ASSUME NEW t \in Threads, DisconnectWorker(t)
          PROVE  JobsStep
      <3>1. {j \in Jobs : HoldsJob(inflight[t].w, j)}
              \in SUBSET {j \in Jobs : jobs[j].state = "leased"}
        BY DEF HoldsJob
      <3>2. QED
        BY <2>1, <3>1 DEF DisconnectWorker, JobsStep
    <2>2. QED
      BY <1>1, <2>1 DEF Operator, Approve, SetTier, DisconnectAsked, JobsStep
  <1>2. CASE Registration
    BY <1>2 DEF Registration, Register, RegisterAttested, DeriveTier, JobsStep
  <1>3. CASE Poll
    <2>1. ASSUME NEW t \in Threads, PollReap(t)
          PROVE  JobsStep
      <3>1. Expired \in SUBSET {j \in Jobs : jobs[j].state = "leased"}
        BY DEF Expired
      <3>2. QED
        BY <2>1, <3>1 DEF PollReap, JobsStep
    <2>2. QED
      BY <1>3, <2>1 DEF Poll, PollAuth, PollEmpty, JobsStep
  <1>4. CASE Beat
    <2>1. ASSUME NEW t \in Threads, NEW d \in 0..MaxDelay, Heartbeat(t, d)
          PROVE  JobsStep
      <3>1. inflight[t].job \in Jobs \cup {NoJob}
        BY <2>1, RequestFields DEF TypeOK, Heartbeat
      <3>2. CASE jobs' = jobs
        BY <2>1, <3>2 DEF Heartbeat, JobsStep
      <3>3. CASE jobs' # jobs
        <4>1. inflight[t].job \in Jobs /\ HoldsJob(inflight[t].w, inflight[t].job)
          BY <2>1, <3>1, <3>3 DEF Heartbeat
        <4>2. {inflight[t].job} \in SUBSET {j \in Jobs : jobs[j].state = "leased"}
          BY <4>1 DEF HoldsJob
        <4>3. QED
          BY <2>1, <3>3, <4>1, <4>2 DEF Heartbeat, JobsStep, HoldsJob
      <3>4. QED
        BY <3>2, <3>3
    <2>2. QED
      BY <1>4, <2>1 DEF Beat, HeartbeatAuth, JobsStep
  <1>5. CASE Report
    <2>1. ASSUME NEW t \in Threads, NEW d \in 0..MaxDelay,
                 ResultTooLate(t, d) \/ ResultReturned(t, d) \/ ResultCheat(t, d)
          PROVE  JobsStep
      <3>1. inflight[t].job \in Jobs
        BY <2>1, RequestFields DEF TypeOK, Reporting, ResultTooLate, ResultReturned, ResultCheat
      <3>2. {inflight[t].job} \in SUBSET {j \in Jobs : jobs[j].state = "leased"}
        BY <2>1, <3>1 DEF ResultTooLate, ResultReturned, ResultCheat, HoldsJob
      <3>3. QED
        BY <2>1, <3>2 DEF ResultTooLate, ResultReturned, ResultCheat, JobsStep
    <2>2. QED
      BY <1>5, <2>1 DEF Report, ResultAuth, ResultNotLeased, ResultTooLarge, JobsStep
  <1>6. QED
    BY <1>1, <1>2, <1>3, <1>4, <1>5 DEF Next, Tick, Crash, vars, JobsStep

\* What requeueing and the passage of time leave of a job.
LEMMA RequeueAllFields ==
  ASSUME jobs \in [Jobs -> JobRow], NEW STATE S, NEW j \in Jobs
  PROVE  /\ RequeueAll(S)[j].state = IF j \in S THEN "queued" ELSE jobs[j].state
         /\ RequeueAll(S)[j].holder = IF j \in S THEN NoWorker ELSE jobs[j].holder
  BY DEF RequeueAll, Requeued, JobRow

LEMMA OlderJobFields ==
  ASSUME NEW row \in JobRow
  PROVE  OlderJob(row).state = row.state /\ OlderJob(row).holder = row.holder
  BY DEF OlderJob, JobRow

\* No worker ever holds two leases, whatever polls are in flight (jobs_next checks "busy" and
\* leases in one write section).
THEOREM SingleLease == Spec => []OneLeasePerWorker
  <1>1. Init => OneLeasePerWorker
    BY DEF Init, OneLeasePerWorker, HoldsJob
  <1>2. TypeOK /\ OneLeasePerWorker /\ [Next]_vars => OneLeasePerWorker'
    <2> SUFFICES ASSUME TypeOK, OneLeasePerWorker, [Next]_vars,
                        NEW j \in Jobs, NEW k \in Jobs, NEW w \in Workers,
                        HoldsJob(w, j)', HoldsJob(w, k)'
                 PROVE  j = k
      BY DEF OneLeasePerWorker
    <2>1. JobsStep
      BY NextJobsStep
    <2>2. CASE HoldsJob(w, j) /\ HoldsJob(w, k)
      BY <2>2 DEF OneLeasePerWorker
    <2>3. ASSUME NEW i \in Jobs, HoldsJob(w, i)', ~HoldsJob(w, i)
          PROVE  \E t \in Threads : Lease(t, i) /\ inflight[t].w = w
      <3>1. CASE jobs' = jobs
        BY <2>3, <3>1 DEF HoldsJob
      <3>2. ASSUME NEW i2 \in Jobs, SubmitJob(i2)
            PROVE  FALSE
        BY <2>3, <3>2 DEF SubmitJob, HoldsJob, TypeOK, JobRow
      <3>3. ASSUME NEW t \in Threads, NEW i2 \in Jobs, Lease(t, i2)
            PROVE  Lease(t, i) /\ inflight[t].w = w
        BY <2>3, <3>3 DEF Lease, HoldsJob, TypeOK, JobRow
      <3>4. ASSUME NEW S \in SUBSET {i2 \in Jobs : jobs[i2].state = "leased"},
                   jobs' = RequeueAll(S)
            PROVE  FALSE
        BY <2>3, <3>4, RequeueAllFields DEF HoldsJob, TypeOK
      <3>5. ASSUME NEW t \in Threads, NEW d \in 0..MaxDelay, ResultCompleted(t, d)
            PROVE  FALSE
        BY <2>3, <3>5 DEF ResultCompleted, HoldsJob, TypeOK, JobRow
      <3>6. ASSUME NEW i2 \in Jobs, jobs' = [jobs EXCEPT ![i2].left = LeaseTicks]
            PROVE  FALSE
        BY <2>3, <3>6 DEF HoldsJob, TypeOK, JobRow
      <3>7. CASE jobs' = [i2 \in Jobs |-> OlderJob(jobs[i2])]
        BY <2>3, <3>7, OlderJobFields DEF HoldsJob, TypeOK
      <3>8. QED
        BY <2>1, <3>1, <3>2, <3>3, <3>4, <3>5, <3>6, <3>7 DEF JobsStep
    <2>4. ASSUME NEW i \in Jobs, NEW i2 \in Jobs, NEW t \in Threads, Lease(t, i),
                 inflight[t].w = w, HoldsJob(w, i2)'
          PROVE  i2 = i
      <3>1. ~Busy(w)
        BY <2>4 DEF Lease, Assignable
      <3>2. QED
        BY <2>4, <3>1 DEF Lease, Busy, HoldsJob, TypeOK, JobRow
    <2>5. QED
      BY <2>2, <2>3, <2>4
  <1>3. QED
    BY <1>1, <1>2, TypeCorrect, PTL DEF Spec

-----------------------------------------------------------------------------
(* The ledger. *)

\* A ledger row names a job.
LEMMA LedgerRows ==
  ASSUME ledger \in Seq(LedgerRow)
  PROVE  \A i \in DOMAIN ledger : ledger[i].job \in Jobs
  <1>1. ASSUME NEW i \in DOMAIN ledger
        PROVE  ledger[i] \in LedgerRow
    <2>1. i \in 1..Len(ledger)
      BY <1>1
    <2>2. QED
      BY <2>1
  <1>2. QED
    BY <1>1 DEF LedgerRow

\* A step that neither completes a job nor touches the ledger keeps the ledger in agreement
\* with the jobs table, if it keeps every job's being completed and its holder.
LEMMA LedgerKept ==
  ASSUME TypeOK, LedgerMatchesJobs, ledger' = ledger,
         \A j \in Jobs : jobs[j].state = "completed" <=> jobs'[j].state = "completed",
         \A j \in Jobs : jobs[j].state = "completed" => jobs'[j].holder = jobs[j].holder
  PROVE  LedgerMatchesJobs'
  <1>1. \A i \in DOMAIN ledger : ledger[i].job \in Jobs
    BY LedgerRows DEF TypeOK
  <1>2. QED
    BY <1>1 DEF LedgerMatchesJobs

LEMMA LedgerPaid ==
  ASSUME TypeOK, LedgerMatchesJobs, NEW t \in Threads, NEW d \in 0..MaxDelay,
         ResultCompleted(t, d)
  PROVE  LedgerMatchesJobs'
  <1> DEFINE w   == inflight[t].w
             job == inflight[t].job
             row == [worker |-> w, job |-> job, credits |-> Credits(job)]
  <1>1. w \in Workers /\ job \in Jobs
    BY RequestFields DEF TypeOK, ResultCompleted, Reporting
  <1>2. jobs[job].state = "leased" /\ jobs[job].holder = w
    BY DEF ResultCompleted, HoldsJob
  <1>3. /\ jobs'[job].state = "completed" /\ jobs'[job].holder = w
        /\ \A j \in Jobs : j # job => jobs'[j] = jobs[j]
    BY <1>1, <1>2 DEF ResultCompleted, TypeOK, JobRow
  <1>4. ledger' = Append(ledger, row)
    BY DEF ResultCompleted
  <1>5. ledger \in Seq(LedgerRow) /\ row \in LedgerRow
    BY <1>1, PaidRowType DEF TypeOK
  <1> HIDE DEF row
  <1>6. /\ Len(ledger) \in Nat /\ DOMAIN ledger = 1..Len(ledger)
        /\ DOMAIN ledger' = 1..(Len(ledger) + 1)
        /\ \A i \in 1..Len(ledger) : ledger'[i] = ledger[i]
        /\ ledger'[Len(ledger) + 1] = row
    BY <1>4, <1>5
  <1>7. \A i \in 1..Len(ledger) : ledger[i].job \in Jobs /\ ledger[i].job # job
    <2>1. \A i \in DOMAIN ledger : ledger[i].job \in Jobs
      BY <1>5, LedgerRows
    <2>2. \A i \in DOMAIN ledger : jobs[ledger[i].job].state = "completed"
      BY DEF LedgerMatchesJobs
    <2>3. QED
      BY <1>2, <1>6, <2>1, <2>2
  <1>8. row.worker = w /\ row.job = job /\ row.credits = Credits(job)
    BY DEF row
  <1>9. ASSUME NEW i \in DOMAIN ledger'
        PROVE  /\ jobs'[ledger'[i].job].state = "completed"
               /\ jobs'[ledger'[i].job].holder = ledger'[i].worker
               /\ ledger'[i].credits = Credits(ledger'[i].job)
    <2>1. CASE i \in 1..Len(ledger)
      BY <2>1, <1>3, <1>6, <1>7 DEF LedgerMatchesJobs, Credits
    <2>2. CASE i = Len(ledger) + 1
      BY <2>2, <1>3, <1>6, <1>8
    <2>3. QED
      BY <2>1, <2>2, <1>6
  <1>10. ASSUME NEW i \in DOMAIN ledger', NEW k \in DOMAIN ledger', ledger'[i].job = ledger'[k].job
         PROVE  i = k
    <2>1. CASE i \in 1..Len(ledger) /\ k \in 1..Len(ledger)
      BY <2>1, <1>6, <1>10 DEF LedgerMatchesJobs
    <2>2. QED
      BY <2>1, <1>6, <1>7, <1>8, <1>10
  <1>11. ASSUME NEW j \in Jobs, jobs'[j].state = "completed"
         PROVE  \E i \in DOMAIN ledger' : ledger'[i].job = j
    <2>1. CASE j = job
      BY <2>1, <1>6, <1>8
    <2>2. CASE j # job
      <3>1. PICK i \in 1..Len(ledger) : ledger[i].job = j
        BY <2>2, <1>3, <1>6, <1>11 DEF LedgerMatchesJobs
      <3>2. QED
        BY <3>1, <1>6
    <2>3. QED
      BY <2>1, <2>2
  <1>12. QED
    BY <1>9, <1>10, <1>11 DEF LedgerMatchesJobs, Credits

\* Every completed job was paid for exactly once, to the worker that completed it, at its
\* manifest's price (results).
THEOREM LedgerAgrees == Spec => []LedgerMatchesJobs
  <1>1. Init => LedgerMatchesJobs
    BY DEF Init, LedgerMatchesJobs
  <1>2. TypeOK /\ LedgerMatchesJobs /\ [Next]_vars => LedgerMatchesJobs'
    <2> SUFFICES ASSUME TypeOK, LedgerMatchesJobs, [Next]_vars
                 PROVE  LedgerMatchesJobs'
      OBVIOUS
    <2>1. JobsStep
      BY NextJobsStep
    <2>2. CASE jobs' = jobs /\ ledger' = ledger
      BY <2>2, LedgerKept
    <2>3. ASSUME NEW j \in Jobs, SubmitJob(j)
          PROVE  LedgerMatchesJobs'
      <3>1. /\ jobs[j].state = "absent" /\ jobs'[j].state = "queued"
            /\ \A k \in Jobs : k # j => jobs'[k] = jobs[k]
        BY <2>3 DEF SubmitJob, Submitted, TypeOK, JobRow
      <3>2. QED
        BY <2>3, <3>1, LedgerKept DEF SubmitJob
    <2>4. ASSUME NEW t \in Threads, NEW j \in Jobs, Lease(t, j)
          PROVE  LedgerMatchesJobs'
      <3>1. jobs[j].state = "queued"
        BY <2>4 DEF Lease, Assignable, PickJobFor, Eligible
      <3>2. /\ jobs'[j].state = "leased"
            /\ \A k \in Jobs : k # j => jobs'[k] = jobs[k]
        BY <2>4 DEF Lease, TypeOK, JobRow
      <3>3. QED
        BY <2>4, <3>1, <3>2, LedgerKept DEF Lease
    <2>5. ASSUME NEW S \in SUBSET {j \in Jobs : jobs[j].state = "leased"},
                 jobs' = RequeueAll(S), ledger' = ledger
          PROVE  LedgerMatchesJobs'
      BY <2>5, RequeueAllFields, LedgerKept DEF TypeOK
    <2>6. ASSUME NEW t \in Threads, NEW d \in 0..MaxDelay, ResultCompleted(t, d)
          PROVE  LedgerMatchesJobs'
      BY <2>6, LedgerPaid
    <2>7. ASSUME NEW j \in Jobs, jobs' = [jobs EXCEPT ![j].left = LeaseTicks], ledger' = ledger
          PROVE  LedgerMatchesJobs'
      <3>1. \A k \in Jobs : jobs'[k].state = jobs[k].state /\ jobs'[k].holder = jobs[k].holder
        BY <2>7 DEF TypeOK, JobRow
      <3>2. QED
        BY <2>7, <3>1, LedgerKept
    <2>8. CASE jobs' = [j \in Jobs |-> OlderJob(jobs[j])] /\ ledger' = ledger
      <3>1. \A k \in Jobs : jobs'[k].state = jobs[k].state /\ jobs'[k].holder = jobs[k].holder
        BY <2>8, OlderJobFields DEF TypeOK
      <3>2. QED
        BY <2>8, <3>1, LedgerKept
    <2>9. QED
      BY <2>1, <2>2, <2>3, <2>4, <2>5, <2>6, <2>7, <2>8 DEF JobsStep
  <1>3. QED
    BY <1>1, <1>2, TypeCorrect, PTL DEF Spec

-----------------------------------------------------------------------------
(* Refinement. *)

\* The dispatch core implements the abstract queue: one holder per job, one job per worker,
\* one payment per job, and nothing completed that is not held.
THEOREM CoreImplementsQueue == Spec => ImplementsWorkQueue
  <1> DEFINE state  == [j \in Jobs |-> jobs[j].state]
             holder == [j \in Jobs |-> jobs[j].holder]
  <1>1. Init => WQ!Init
    BY DEF Init, WQ!Init
  <1>2. TypeOK /\ [Next]_vars => [WQ!Next]_(WQ!queueVars)
    <2> SUFFICES ASSUME TypeOK, [Next]_vars
                 PROVE  WQ!Next \/ UNCHANGED <<state, holder, ledger>>
      BY DEF WQ!queueVars
    <2>1. JobsStep
      BY NextJobsStep
    <2>2. CASE jobs' = jobs /\ ledger' = ledger
      BY <2>2
    <2>3. ASSUME NEW j \in Jobs, SubmitJob(j)
          PROVE  WQ!Next
      <3>1. WQ!Submit(j)
        BY <2>3 DEF SubmitJob, Submitted, WQ!Submit, TypeOK, JobRow
      <3>2. QED
        BY <3>1 DEF WQ!Next
    <2>4. ASSUME NEW t \in Threads, NEW j \in Jobs, Lease(t, j)
          PROVE  WQ!Next
      <3>1. PICK w \in Workers : w = inflight[t].w
        BY <2>4, RequestFields DEF TypeOK, Lease
      <3>2. jobs[j].state = "queued" /\ ~Busy(w)
        BY <2>4, <3>1 DEF Lease, Assignable, PickJobFor, Eligible
      <3>3. state' = [state EXCEPT ![j] = "leased"] /\ holder' = [holder EXCEPT ![j] = w]
        BY <2>4, <3>1 DEF Lease, TypeOK, JobRow
      <3>4. WQ!Lease(j, w)
        BY <2>4, <3>2, <3>3 DEF Lease, Busy, HoldsJob, WQ!Lease
      <3>5. QED
        BY <3>4 DEF WQ!Next
    <2>5. ASSUME NEW S \in SUBSET {j \in Jobs : jobs[j].state = "leased"},
                 jobs' = RequeueAll(S), ledger' = ledger
          PROVE  WQ!Next
      <3>1. /\ state' = [j \in Jobs |-> IF j \in S THEN "queued" ELSE state[j]]
            /\ holder' = [j \in Jobs |-> IF j \in S THEN NoWorker ELSE holder[j]]
        BY <2>5, RequeueAllFields DEF TypeOK
      <3>2. WQ!Requeue(S)
        BY <2>5, <3>1 DEF WQ!Requeue
      <3>3. QED
        BY <3>2 DEF WQ!Next
    <2>6. ASSUME NEW t \in Threads, NEW d \in 0..MaxDelay, ResultCompleted(t, d)
          PROVE  WQ!Next
      <3>1. PICK j \in Jobs : j = inflight[t].job
        BY <2>6, RequestFields DEF TypeOK, ResultCompleted, Reporting
      <3>2. jobs[j].state = "leased" /\ jobs[j].holder = inflight[t].w
        BY <2>6, <3>1 DEF ResultCompleted, HoldsJob
      <3>3. state' = [state EXCEPT ![j] = "completed"] /\ holder' = holder
        BY <2>6, <3>1 DEF ResultCompleted, TypeOK, JobRow
      <3>4. WQ!Complete(j)
        BY <2>6, <3>1, <3>2, <3>3 DEF ResultCompleted, WQ!Complete
      <3>5. QED
        BY <3>4 DEF WQ!Next
    <2>7. ASSUME NEW j \in Jobs, jobs' = [jobs EXCEPT ![j].left = LeaseTicks], ledger' = ledger
          PROVE  UNCHANGED <<state, holder, ledger>>
      BY <2>7 DEF TypeOK, JobRow
    <2>8. CASE jobs' = [j \in Jobs |-> OlderJob(jobs[j])] /\ ledger' = ledger
      BY <2>8, OlderJobFields DEF TypeOK
    <2>9. QED
      BY <2>1, <2>2, <2>3, <2>4, <2>5, <2>6, <2>7, <2>8 DEF JobsStep
  <1>3. QED
    BY <1>1, <1>2, TypeCorrect, PTL DEF Spec, ImplementsWorkQueue, WQ!Spec

-----------------------------------------------------------------------------
(* What a step may never do. *)

\* Above "public", a job is only leased to a device whose row exists, at a tier cleared for it
\* at that moment; an unknown classification is leased to nobody (pick_job_for, may_route).
THEOREM ClearedLeases == Spec => LeaseIsCleared
  <1> DEFINE Cleared ==
        \A j \in Jobs, w \in Workers :
          ~HoldsJob(w, j) /\ HoldsJob(w, j)' =>
            \/ Manifest[j].class = 0
            \/ workers[w].here /\ workers[w].tier >= Manifest[j].class
  <1>1. TypeOK /\ [Next]_vars => [Cleared]_vars
    <2> SUFFICES ASSUME TypeOK, [Next]_vars, NEW j \in Jobs, NEW w \in Workers,
                        ~HoldsJob(w, j), HoldsJob(w, j)'
                 PROVE  \/ Manifest[j].class = 0
                        \/ workers[w].here /\ workers[w].tier >= Manifest[j].class
      OBVIOUS
    <2>1. JobsStep
      BY NextJobsStep
    <2>2. PICK t \in Threads, k \in Jobs : Lease(t, k)
      <3>1. ASSUME NEW S \in SUBSET {i \in Jobs : jobs[i].state = "leased"},
                   jobs' = RequeueAll(S)
            PROVE  FALSE
        BY <3>1, RequeueAllFields DEF HoldsJob, TypeOK
      <3>2. jobs' # [i \in Jobs |-> OlderJob(jobs[i])]
        BY OlderJobFields DEF HoldsJob, TypeOK
      <3>3. ASSUME NEW i \in Jobs, SubmitJob(i)
            PROVE  FALSE
        BY <3>3 DEF SubmitJob, HoldsJob, TypeOK, JobRow
      <3>4. ASSUME NEW t \in Threads, NEW d \in 0..MaxDelay, ResultCompleted(t, d)
            PROVE  FALSE
        BY <3>4 DEF ResultCompleted, HoldsJob, TypeOK, JobRow
      <3>5. ASSUME NEW i \in Jobs, jobs' = [jobs EXCEPT ![i].left = LeaseTicks]
            PROVE  FALSE
        BY <3>5 DEF HoldsJob, TypeOK, JobRow
      <3>6. jobs' # jobs
        BY DEF HoldsJob
      <3>7. QED
        BY <2>1, <3>1, <3>2, <3>3, <3>4, <3>5, <3>6 DEF JobsStep
    <2>3. k = j /\ inflight[t].w = w
      BY <2>2 DEF Lease, HoldsJob, TypeOK, JobRow
    <2>4. TierOf(w) >= Manifest[j].class
      BY <2>2, <2>3 DEF Lease, Assignable, PickJobFor, Eligible, MayRoute
    <2>5. Manifest[j].class \in Classifications
      BY ConstantsAssumption DEF ManifestRow
    <2>6. CASE workers[w].here
      BY <2>4, <2>6 DEF TierOf
    <2>7. CASE ~workers[w].here
      BY <2>4, <2>5, <2>7 DEF TierOf, Untrusted, Classifications
    <2>8. QED
      BY <2>6, <2>7
  <1>2. QED
    BY <1>1, TypeCorrect, PTL DEF Spec, LeaseIsCleared

\* Once an admin has set a worker's tier, only another POST /tier changes it while the worker
\* exists, an attestation derived from an older row included (register).
THEOREM PinStands == Spec => PinnedTierStands
  <1> DEFINE Stands ==
        \A w \in Workers :
          workers[w].pinned /\ workers'[w].here /\ workers'[w].tier # workers[w].tier
            => \E tier \in AdminTiers : SetTier(w, tier)
  <1>1. TypeOK /\ [Next]_vars => [Stands]_vars
    <2> SUFFICES ASSUME TypeOK, [Next]_vars, NEW w \in Workers, workers[w].pinned,
                        workers'[w].here, workers'[w].tier # workers[w].tier
                 PROVE  \E tier \in AdminTiers : SetTier(w, tier)
      OBVIOUS
    <2>1. CASE Operator
      <3>1. ASSUME NEW v \in Workers, NEW tier \in AdminTiers, SetTier(v, tier)
            PROVE  v = w
        BY <3>1 DEF SetTier, TypeOK, WorkerRow
      <3>2. ASSUME NEW v \in Workers, Approve(v)
            PROVE  FALSE
        BY <3>2 DEF Approve, TypeOK, WorkerRow
      <3>3. ASSUME NEW t \in Threads, DisconnectWorker(t)
            PROVE  FALSE
        BY <3>3 DEF DisconnectWorker, NoRow, TypeOK, WorkerRow
      <3>4. QED
        BY <2>1, <3>1, <3>2, <3>3 DEF Operator, DisconnectAsked
    <2>2. CASE Registration
      <3>1. ASSUME NEW v \in Workers, NEW cap \in Capabilities
            PROVE  RegisterRow(v, cap).tier = workers[v].tier
        BY DEF RegisterRow, TypeOK, WorkerRow
      <3>2. ASSUME NEW v \in Workers, NEW cap \in Capabilities,
                   workers' = [workers EXCEPT ![v] = RegisterRow(v, cap)]
            PROVE  FALSE
        BY <3>1, <3>2 DEF TypeOK
      <3>3. ASSUME NEW t \in Threads, DeriveTier(t)
            PROVE  FALSE
        BY <3>3 DEF DeriveTier, TypeOK, WorkerRow
      <3>4. QED
        BY <2>2, <3>2, <3>3 DEF Registration, Register, RegisterAttested
    <2>3. CASE Poll
      <3>1. ASSUME NEW t \in Threads, NEW j \in Jobs, Lease(t, j)
            PROVE  FALSE
        BY <3>1 DEF Lease, TypeOK, WorkerRow
      <3>2. QED
        BY <2>3, <3>1 DEF Poll, PollAuth, PollReap, PollEmpty
    <2>4. CASE Beat
      <3>1. ASSUME NEW t \in Threads, NEW d \in 0..MaxDelay
            PROVE  BeatRow(inflight[t], d).tier = workers[inflight[t].w].tier
                     \/ inflight[t].w \notin Workers
        BY DEF BeatRow, TypeOK, WorkerRow
      <3>2. ASSUME NEW t \in Threads, NEW d \in 0..MaxDelay, Heartbeat(t, d)
            PROVE  FALSE
        BY <3>1, <3>2 DEF Heartbeat, TypeOK
      <3>3. QED
        BY <2>4, <3>2 DEF Beat, HeartbeatAuth
    <2>5. CASE Report
      <3>1. ASSUME NEW t \in Threads, NEW d \in 0..MaxDelay, ResultCheat(t, d)
            PROVE  FALSE
        BY <3>1 DEF ResultCheat, TypeOK, WorkerRow
      <3>2. QED
        BY <2>5, <3>1 DEF Report, ResultAuth, ResultNotLeased, ResultTooLate, ResultTooLarge,
                          ResultReturned, ResultCompleted
    <2>6. CASE Tick
      <3>1. OlderWorker(workers[w]).tier = workers[w].tier
        BY DEF OlderWorker, TypeOK, WorkerRow
      <3>2. QED
        BY <2>6, <3>1 DEF Tick
    <2>7. QED
      BY <2>1, <2>2, <2>3, <2>4, <2>5, <2>6 DEF Next, SubmitJob, Crash, vars
  <1>2. QED
    BY <1>1, TypeCorrect, PTL DEF Spec, PinnedTierStands

\* A lease that ran out before any request in flight read its clock is never used again: the
\* job is not completed under it and it is not extended (results, heartbeat).
THEOREM DeadLeasesStayDead == Spec => ExpiredLeaseIsDead
  <1> DEFINE Dead ==
        \A j \in Jobs :
          jobs[j].state = "leased" /\ jobs[j].left + MaxDelay <= 0
            => \/ jobs'[j].state = "queued"
               \/ jobs'[j].state = "leased" /\ jobs'[j].left <= jobs[j].left
  <1>1. TypeOK /\ [Next]_vars => [Dead]_vars
    <2> SUFFICES ASSUME TypeOK, [Next]_vars, NEW j \in Jobs,
                        jobs[j].state = "leased", jobs[j].left + MaxDelay <= 0
                 PROVE  \/ jobs'[j].state = "queued"
                        \/ jobs'[j].state = "leased" /\ jobs'[j].left <= jobs[j].left
      OBVIOUS
    <2>1. JobsStep
      BY NextJobsStep
    <2>2. jobs[j] \in JobRow /\ jobs[j].left \in Int /\ MaxDelay \in Nat
      BY ConstantsAssumption DEF ConstantsAssumption, TypeOK, JobRow
    <2>3. \A d \in 0..MaxDelay : ~LeaseLive(j, d)
      BY <2>2 DEF LeaseLive
    <2>4. CASE jobs'[j] = jobs[j]
      BY <2>2, <2>4
    <2>5. ASSUME NEW k \in Jobs, SubmitJob(k)
          PROVE  jobs'[j] = jobs[j]
      BY <2>5 DEF SubmitJob, Submitted, TypeOK
    <2>6. ASSUME NEW t \in Threads, NEW k \in Jobs, Lease(t, k)
          PROVE  jobs'[j] = jobs[j]
      BY <2>6 DEF Lease, Assignable, PickJobFor, Eligible, TypeOK
    <2>7. ASSUME NEW S \in SUBSET {k \in Jobs : jobs[k].state = "leased"}, jobs' = RequeueAll(S)
          PROVE  jobs'[j].state = "queued" \/ jobs'[j] = jobs[j]
      BY <2>7 DEF RequeueAll, Requeued, TypeOK, JobRow
    <2>8. ASSUME NEW t \in Threads, NEW d \in 0..MaxDelay, ResultCompleted(t, d)
          PROVE  jobs'[j] = jobs[j]
      <3>1. d \in 0..MaxDelay /\ LeaseLive(inflight[t].job, d)
        BY <2>8 DEF ResultCompleted
      <3>2. inflight[t].job # j
        BY <2>3, <3>1
      <3>3. QED
        BY <2>8, <3>2 DEF ResultCompleted, TypeOK
    <2>9. ASSUME NEW k \in Jobs, NEW d \in 0..MaxDelay, LeaseLive(k, d),
                 jobs' = [jobs EXCEPT ![k].left = LeaseTicks]
          PROVE  jobs'[j] = jobs[j]
      BY <2>3, <2>9 DEF TypeOK
    <2>10. ASSUME jobs' = [k \in Jobs |-> OlderJob(jobs[k])]
           PROVE  jobs'[j].state = "leased" /\ jobs'[j].left <= jobs[j].left
      <3>1. jobs'[j] = OlderJob(jobs[j])
        BY <2>10
      <3>2. jobs[j].left >= -(MaxDelay + 1)
        BY <2>2 DEF JobRow
      <3>3. AtLeast(jobs[j].left - 1, -(MaxDelay + 1)) <= jobs[j].left
        BY <2>2, <3>2 DEF AtLeast
      <3>4. OlderJob(jobs[j]).left = AtLeast(jobs[j].left - 1, -(MaxDelay + 1))
        BY <2>2 DEF OlderJob, JobRow
      <3>5. QED
        BY <2>2, <3>1, <3>3, <3>4, OlderJobFields
    <2>11. QED
      BY <2>1, <2>4, <2>5, <2>6, <2>7, <2>8, <2>9, <2>10 DEF JobsStep
  <1>2. QED
    BY <1>1, TypeCorrect, PTL DEF Spec, ExpiredLeaseIsDead

=============================================================================
