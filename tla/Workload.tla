------------------------------- MODULE Workload -------------------------------
(***************************************************************************)
(* A workload from its launch to its summary: launch_workload splits it    *)
(* for the fleet of the moment and submits it tile by tile, workers run    *)
(* the tiles (JobKit) and report them, workload_detail merges what has     *)
(* completed (WorkloadKinds), and every handler logs what it did           *)
(* (AuditLog) in a section of its own, after it has committed it.          *)
(*                                                                         *)
(* Who may lease which job, for how long and for what credit is the        *)
(* subject of module Orchestrator; here any worker may lease any queued    *)
(* job and any lease may run out.  The orchestrator may crash between two  *)
(* of a handler's steps; jobs and events are on disk.                      *)
(***************************************************************************)
EXTENDS WorkloadKinds, AuditLog

CONSTANTS
  Workers,
  Requests,     \* the launches: [kind, explicit, tiles, factor, size, slice, base]
  Fleets,       \* what the workers table may hold when it is read: sequences of [class, load, ram]
  Bound         \* bounds of a launch: [leases, crashes, damages], how many there may be of each

\* A request the builders do not refuse: they ask for an item at least (a list of prompts may be
\* empty), and for a slice of one at least.  A default number of tiles is below the cap.  A
\* candidate's score is a number, and so is the one of an answer; a document yields lists.
RequestOK(r) ==
  /\ r.tiles \in Int /\ r.factor \in Int /\ (~r.explicit => r.tiles \in 1..MaxTiles)
  /\ r.kind \in Launchable \cup {"render"}
  /\ r.size \in Nat /\ (r.kind # "ai.batch_infer" => r.size > 0)
  /\ r.slice \in Nat \ {0}
  /\ r.base \in Int /\ (r.kind # "hashcrack" => r.base = 0)
  /\ r.kind = "optimize" => \A i \in 0..(r.size - 1) : Score[i] \in Int
  /\ r.kind = "ai.eval" => \A i \in 0..(r.size - 1) : Reply[i].score \in Int
  /\ r.kind = "ai.graph" => \A i \in 0..(r.size - 1) :
       /\ Doc[i].nodes \in Seq(ToSet(Doc[i].nodes)) /\ Doc[i].edges \in Seq(ToSet(Doc[i].edges))

\* A row as worker_weight takes it: a load of 0 to 100, and no less than no RAM.
RowOK(row) == row.class \in Int /\ row.load \in 0..100 /\ row.ram \in Nat \cup {UnknownRam}

\* A worker has a name; a fleet is a list of rows.
ASSUME WorkloadAssumption ==
  /\ MaxTiles \in Nat \ {0} /\ Nobody \notin Workers
  /\ \A r \in Requests : RequestOK(r)
  /\ \A fleet \in Fleets :
       Len(fleet) \in Nat /\ DOMAIN fleet = 1..Len(fleet) /\ \A i \in DOMAIN fleet : RowOK(fleet[i])

VARIABLES
  request,    \* the launch
  phase,      \* where its handler is
  n,          \* _resolve_tile_count
  weights,    \* _capability_tile_weights
  specs,      \* _build_workload_jobs, not yet submitted
  jobs,       \* the jobs table, in the order of submission
  running,    \* what each worker holds: no job, one whose assignment is on its way, one to run
  leases,     \* leases granted
  crashes

vars == <<request, phase, n, weights, specs, jobs, running, leases, crashes, log, damaged>>
launchVars == <<request, phase, n, weights, specs>>

Free == 0
Idle == [stage |-> "idle", job |-> Free]
NoResult == [result |-> "none"]

Queued(spec) == [spec |-> spec, state |-> "queued", worker |-> Nobody, result |-> NoResult]

LogOf(type, w, j) == Emit(Event(type, w, j))

Init ==
  /\ AuditInit
  /\ request \in Requests
  /\ phase = "called"
  /\ n = 0 /\ weights = NoWeights /\ specs = << >> /\ jobs = << >>
  /\ running = [w \in Workers |-> Idle]
  /\ leases = 0 /\ crashes = 0

-----------------------------------------------------------------------------
(* launch_workload: two reads of the fleet, then a commit and an event per tile. *)

CountTiles ==
  /\ phase = "called"
  /\ \E fleet \in Fleets : n' = ResolveTileCount(fleet, request)
  /\ phase' = "counted"
  /\ UNCHANGED <<request, weights, specs, jobs, running, leases, crashes, auditVars>>

\* The fleet may have changed since it was counted.
WeighTiles ==
  /\ phase = "counted"
  /\ \E fleet \in Fleets : weights' = TileWeights(fleet, n)
  /\ specs' = Build(request, n, weights')
  /\ phase' = "submitting"
  /\ UNCHANGED <<request, n, jobs, running, leases, crashes, auditVars>>

\* submit_job: committed, and there to be leased, before it is logged.
SubmitTile ==
  /\ phase = "submitting" /\ specs # << >>
  /\ jobs' = Append(jobs, Queued(Head(specs)))
  /\ specs' = Tail(specs)
  /\ phase' = "submitted"
  /\ UNCHANGED <<request, n, weights, running, leases, crashes, auditVars>>

LogSubmitted ==
  /\ phase = "submitted"
  /\ LogOf("submitted", Nobody, Len(jobs))
  /\ phase' = "submitting"
  /\ UNCHANGED <<request, n, weights, specs, jobs, running, leases, crashes>>

-----------------------------------------------------------------------------
(* Workers. *)

Leased(w, j) == jobs[j].state = "leased" /\ jobs[j].worker = w

\* GET /jobs/next: a worker that holds no lease is given a queued job.
Lease(w, j) ==
  /\ running[w] = Idle /\ leases < Bound[request].leases
  /\ jobs[j].state = "queued"
  /\ \A k \in DOMAIN jobs : ~Leased(w, k)
  /\ jobs' = [jobs EXCEPT ![j].state = "leased", ![j].worker = w]
  /\ running' = [running EXCEPT ![w] = [stage |-> "assigned", job |-> j]]
  /\ leases' = leases + 1
  /\ UNCHANGED <<launchVars, crashes, auditVars>>

\* The worker has its assignment before the log has it.
Mutant_LogAssigned(w) ==
  /\ running[w].stage = "assigned"
  /\ running' = [running EXCEPT ![w].stage = "running"]
  /\ UNCHANGED <<launchVars, jobs, leases, crashes, auditVars>>

\* The handler logs the assignment, then answers with it.
LogAssigned(w) ==
  /\ running[w].stage = "assigned"
  /\ LogOf("assigned", w, running[w].job)
  /\ running' = [running EXCEPT ![w].stage = "running"]
  /\ UNCHANGED <<launchVars, jobs, leases, crashes>>

\* reap_expired
Expire(j) ==
  /\ jobs[j].state = "leased"
  /\ jobs' = [jobs EXCEPT ![j].state = "queued", ![j].worker = Nobody]
  /\ UNCHANGED <<launchVars, running, leases, crashes, auditVars>>

\* assigned_worker is not reset.
Mutant_Requeued(j) == [jobs EXCEPT ![j].state = "queued"]

Requeued(j) == [jobs EXCEPT ![j].state = "queued", ![j].worker = Nobody]

Completed(j, result) == [jobs EXCEPT ![j].state = "completed", ![j].result = result]

\* A yielded run's output is kept for the job's.
Mutant_Settled(j, result) ==
  IF result.status \in {"completed", "yielded"} THEN Completed(j, result) ELSE Requeued(j)

\* What a result does to the jobs table: only a completed one leaves its output there.
Settled(j, result) ==
  IF result.status = "completed" THEN Completed(j, result) ELSE Requeued(j)

Reports(w, j) == running[w] = [stage |-> "running", job |-> j]

\* The event is written inside the handler's locked section, after the commit.
Mutant_Accept(w, j) ==
  /\ Reports(w, j) /\ Leased(w, j)
  /\ \E result \in Execute(jobs[j].spec.kind, jobs[j].spec.tile) : jobs' = Settled(j, result)
  /\ running' = [running EXCEPT ![w] = Idle]
  /\ UNCHANGED <<launchVars, leases, crashes, auditVars>>

\* POST /jobs/{id}/result of a lease that still stands.
Accept(w, j) ==
  /\ Reports(w, j) /\ Leased(w, j)
  /\ \E result \in Execute(jobs[j].spec.kind, jobs[j].spec.tile) :
       /\ jobs' = Settled(j, result)
       /\ LogOf(result.status, w, j)
  /\ running' = [running EXCEPT ![w] = Idle]
  /\ UNCHANGED <<launchVars, leases, crashes>>

\* A result that comes too late changes nothing and is not logged.
Discard(w, j) ==
  /\ Reports(w, j) /\ ~Leased(w, j)
  /\ running' = [running EXCEPT ![w] = Idle]
  /\ UNCHANGED <<launchVars, jobs, leases, crashes, auditVars>>

-----------------------------------------------------------------------------
(* Crashes, and hands on the database. *)

\* What the handlers had left to do is never done: a launch stops where it is, an assignment is
\* neither logged nor answered.
Cut(held) == [w \in Workers |-> IF held[w].stage = "assigned" THEN Idle ELSE held[w]]

LaunchCut == IF phase = "submitting" /\ specs = << >> THEN phase ELSE "lost"

Crash ==
  /\ crashes < Bound[request].crashes
  /\ crashes' = crashes + 1
  /\ phase' = LaunchCut
  /\ running' = Cut(running)
  /\ UNCHANGED <<request, n, weights, specs, jobs, leases, auditVars>>

\* A result is committed, and the crash comes before its event.
CrashInResult(w, j) ==
  /\ crashes < Bound[request].crashes
  /\ Reports(w, j) /\ Leased(w, j)
  /\ \E result \in Execute(jobs[j].spec.kind, jobs[j].spec.tile) : jobs' = Settled(j, result)
  /\ crashes' = crashes + 1
  /\ phase' = LaunchCut
  /\ running' = Cut([running EXCEPT ![w] = Idle])
  /\ UNCHANGED <<request, n, weights, specs, leases, auditVars>>

Tamper ==
  /\ Bound[request].damages > 0
  /\ Damage
  /\ UNCHANGED <<launchVars, jobs, running, leases, crashes>>

Next ==
  \/ CountTiles \/ WeighTiles \/ SubmitTile \/ LogSubmitted
  \/ \E w \in Workers : LogAssigned(w)
  \/ \E w \in Workers, j \in DOMAIN jobs :
       Lease(w, j) \/ Accept(w, j) \/ Discard(w, j) \/ CrashInResult(w, j)
  \/ \E j \in DOMAIN jobs : Expire(j)
  \/ Crash
  \/ Tamper

Spec == Init /\ [][Next]_vars

-----------------------------------------------------------------------------
(* workload_detail *)

Done == LET place == InOrder({i \in DOMAIN jobs : jobs[i].state = "completed"})
        IN [k \in DOMAIN place |-> jobs[place[k]]]
Outputs == [i \in DOMAIN Done |-> Done[i].result.output]
Summary == Aggregate(request.kind, Outputs)

-----------------------------------------------------------------------------
(* Properties. *)

Stages == {"idle", "assigned", "running"}

\* The handlers' variables and the jobs table hold what the code can put there.
WorkloadTypeOK ==
  /\ phase \in {"called", "counted", "submitting", "submitted", "lost"}
  /\ n \in 0..MaxTiles /\ Len(weights) \in {0, n}
  /\ \A i \in DOMAIN jobs :
       /\ jobs[i].state \in {"queued", "leased", "completed"}
       /\ jobs[i].worker \in Workers \cup {Nobody}
       /\ (jobs[i].state = "queued") <=> (jobs[i].worker = Nobody)
       /\ (jobs[i].state = "completed") <=> (jobs[i].result # NoResult)
  /\ running \in [Workers -> [stage : Stages, job : {Free} \cup DOMAIN jobs]]
  /\ AuditTypeOK

Specs == [i \in DOMAIN jobs |-> jobs[i].spec] \o specs
Built == phase \in {"submitting", "submitted"}
Items == IF request.kind = "data.transform" THEN n * request.size ELSE request.size

\* However the fleet changes between its two reads, and whatever the split, the jobs of a launch
\* cover what was asked for end to end, without a gap or an overlap, none of them empty, and each
\* is credited with exactly its items.  (Nothing is asked for with an empty list of prompts, and a
\* render job is the same work whichever it is.)
TilesCoverOnce ==
  Built =>
    /\ \A i \in DOMAIN Specs : Specs[i].units = Size(Specs[i].tile) /\ Specs[i].units > 0
    /\ IF request.kind = "render" THEN Len(Specs) = n
       ELSE IF Items = 0 THEN Specs = << >>
       ELSE /\ Specs # << >>
            /\ Specs[1].tile.from = request.base
            /\ Specs[Len(Specs)].tile.to = request.base + Items
            /\ \A i \in 1..(Len(Specs) - 1) : Specs[i].tile.to = Specs[i + 1].tile.from

\* "Distinct seeds per chunk so paths never repeat": no two chunks of a Monte-Carlo workload, of
\* one tile or of two, draw from the same random stream.
NoPathTwice ==
  Built /\ request.kind = "montecarlo" =>
    LET chunksOf(i) == Chunks("montecarlo", Specs[i].tile) IN
    \A i, k \in DOMAIN Specs : \A c \in DOMAIN chunksOf(i), d \in DOMAIN chunksOf(k) :
      <<i, c>> # <<k, d>> =>
        Stream(Specs[i].tile, chunksOf(i)[c]) # Stream(Specs[k].tile, chunksOf(k)[d])

\* A weighted split gives every machine its proportional share rounded up or down, and a better
\* machine never less than a worse one; weighted_partition leaves none without a unit when there
\* are enough, at the price of a single unit by which a better machine may fall behind a worse
\* (the first of the largest lends); and equal weights split evenly.
SharesFollowWeights ==
  LET sizes == WeightedSizes(request.size, weights)
      counts == WeightedPartition(request.size, weights)
      sum == Total(weights)
      near(size, w) == /\ size * sum < request.size * w + sum
                       /\ size * sum > request.size * w - sum
      equal == WeightedPartition(request.size, [i \in 1..n |-> 1])
  IN /\ weights # NoWeights =>
          /\ Total(sizes) = request.size /\ Total(counts) = request.size
          /\ \A i \in DOMAIN weights : near(sizes[i], weights[i])
          /\ \A i, j \in DOMAIN weights :
               weights[i] > weights[j] => sizes[i] >= sizes[j] /\ counts[i] >= counts[j] - 1
          /\ request.size >= n => \A i \in DOMAIN counts : counts[i] > 0
     /\ n > 0 => \A i \in 1..n :
          equal[i] = EvenStart(request.size, n, i + 1) - EvenStart(request.size, n, i)

\* Nothing is taken for a completed tile that was not worked through to its end, except where a
\* process pool lost a chunk (see CompletedTileIsWhole).
CompletedIsWhole ==
  \A j \in DOMAIN jobs : jobs[j].state = "completed" =>
    jobs[j].result.whole \/ UsesPool(jobs[j].spec.kind, jobs[j].spec.tile)

\* A completed tile is a whole one: _parallel_map "falls back to in-process sequential when ...
\* the pool can't start (restricted sandbox), so a tile always completes".
CompletedTileIsWhole ==
  \A j \in DOMAIN jobs : jobs[j].state = "completed" => jobs[j].result.whole

-----------------------------------------------------------------------------
(* The summary against the merge one machine would make of the items completed so far. *)

ItemsDone == UNION {Done[i].spec.tile.from..(Done[i].spec.tile.to - 1) : i \in DOMAIN Done}
Count == Cardinality(ItemsDone)
Sorted == InOrder(ItemsDone)

ReferenceOptimize ==
  /\ Summary.evaluated = Count
  /\ Summary.best = {i \in ItemsDone : \A k \in ItemsDone :
                       Score[k] < Score[i] \/ (Score[k] = Score[i] /\ i <= k)}

PathsUpTo(bin) == Total([b \in {b \in DOMAIN Summary.hist : b <= bin} |-> Summary.hist[b]])

\* Value-at-Risk: the losses below it are at most the tail, those up to it more.
ReferenceMontecarlo ==
  /\ Summary.paths = Count /\ Total(Summary.hist) = Count
  /\ \A level \in VarLevels :
       /\ PathsUpTo(Summary.var[level] - 1) * 100 <= Count * (100 - level)
       /\ PathsUpTo(Summary.var[level]) * 100 > Count * (100 - level)

ReferenceHashcrack ==
  /\ Summary.nonce \subseteq Hits \cap ItemsDone
  /\ Summary.nonce = {} => Hits \cap ItemsDone = {} /\ Summary.tried = Count
  /\ Summary.tried <= Count

ReferenceEval ==
  /\ Summary.overall.n = Count /\ Total(Summary.distribution) = Count
  /\ Summary.overall.sum = Total([score \in 0..10 |-> score * Summary.distribution[score]])
  /\ \A label \in DOMAIN Summary.leaderboard :
       Summary.leaderboard[label].n = Cardinality({i \in ItemsDone : Reply[i].label = label})
  /\ Total([label \in DOMAIN Summary.leaderboard |-> Summary.leaderboard[label].sum])
       = Summary.overall.sum

\* Some documents yielded nothing; the others' graph is complete and free of repetitions.
ReferenceGraph ==
  LET edges == ToSet(Summary.edges)
      ends == UNION {{edge.source, edge.target} : edge \in edges}
  IN /\ \E read \in SUBSET ItemsDone :
          /\ edges = UNION {ToSet(Doc[d].edges) : d \in read}
          /\ ToSet(Summary.nodes) = ends \cup UNION {ToSet(Doc[d].nodes) : d \in read}
     /\ IsInjective(Summary.nodes) /\ IsInjective(Summary.edges)

ReferenceRows(limit) == Summary = [count |-> Count, rows |-> SubSeq(Sorted, 1, Least(limit, Count))]

ReferenceImage ==
  \A y \in 0..(request.size - 1) :
    AssembleTiles(Outputs, request.size)[y] = IF y \in ItemsDone THEN y ELSE NoRow

\* However a workload was split, whichever tiles have completed, and in whatever order, its
\* summary is the one a single machine would have computed of the items done so far.
SummaryIsReference ==
  Done # << >> /\ (\A i \in DOMAIN Done : Done[i].result.whole) =>
    CASE request.kind = "optimize" -> ReferenceOptimize
      [] request.kind = "montecarlo" -> ReferenceMontecarlo
      [] request.kind = "hashcrack" -> ReferenceHashcrack
      [] request.kind = "ai.eval" -> ReferenceEval
      [] request.kind = "ai.graph" -> ReferenceGraph
      [] request.kind \in {"ai.infer", "ai.batch_infer"} -> ReferenceRows(InferLimit)
      [] request.kind = "ai.synth" -> ReferenceRows(SynthLimit)
      [] request.kind = "fractal" -> ReferenceImage
      [] OTHER -> Summary = NoSummary

-----------------------------------------------------------------------------
(* The log against the jobs table. *)

Logged(type, w, j) == {i \in DOMAIN log : log[i].event = Event(type, w, j)}

\* Although a handler logs after its commit, and in a section of its own, no worker is ever logged
\* as finishing (or giving up) a job it was not logged as being given before.
CompletedWasAssigned ==
  damaged = 0 => \A i \in DOMAIN log :
    log[i].event.type \in {"completed", "yielded", "failed"} =>
      \E k \in Logged("assigned", log[i].event.worker, log[i].event.job) : k < i

\* The log and the table tell one story: who completed a job is logged once and as the only one,
\* unless the orchestrator crashed between the commit and the event.
NothingUnlogged ==
  damaged = 0 =>
    /\ \A j \in DOMAIN jobs, w \in Workers :
         Logged("completed", w, j) # {} =>
           /\ jobs[j].state = "completed" /\ jobs[j].worker = w
           /\ Cardinality(Logged("completed", w, j)) = 1
    /\ crashes = 0 => \A j \in DOMAIN jobs :
         jobs[j].state = "completed" => Logged("completed", jobs[j].worker, j) # {}

=============================================================================
