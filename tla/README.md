# A TLA+ development of OneCompute

OneCompute turns idle office machines into a compute fleet: an orchestrator hands signed jobs to
worker agents, the agents run them in a sandbox while their employee does not need the machine,
and the orchestrator pays for the results. This directory models that program in TLA+, checks it
with TLC and proves the most important facts with TLAPS. Source paths below are relative to the
repository's root.

## 1. The system

| component | state | operations | talks to |
|---|---|---|---|
| Dispatch core: `src/orchestrator/{app,db,scheduler,submit,routing_policy}.py` | SQLite tables `workers`, `jobs`, `ledger`; one `write_lock` around multi-statement sections | register, approve, tier, disconnect, submit, poll (authenticate, reap, pick, lease), heartbeat, result | agents and operator over HTTP |
| Audit chain: `_emit`, `verify_audit_chain` in `app.py` | table `events`, hash-linked | append, verify | every handler, after its own commit |
| Worker agent: `src/worker/{agent,__main__}.py` | token, approval, current job; usage-heartbeat thread | register, wait for approval, poll, run, report, heartbeat | orchestrator; isolation; governor |
| Yield reflex: `agent.py` watcher threads, `governor.py`, `idle.py` | three events, one sample counter | start/stop watcher, sample, raise flag | main loop, the employee |
| Execution boundary: `src/isolation/*` | one client process, one container or Job Object per call | choose, start, poll, stop, judge, fall back | Docker, `wxc-exec`, OS |
| Job kinds: `src/jobkit/*` | none; a pool of processes for two kinds | execute a tile item by item, yield, fail | run inside a boundary |
| Profile store and measurement: `src/worker/{profiler,profile_lock,measurement_identity}.py`, `run_measure_loop` | profile file, lock file, identity file; table `worker_profiles` | sample, save, upload, ingest | orchestrator |
| Workload launch: `launch_workload`, `src/workloads/*` | none beyond jobs | count and weigh the fleet, split into tiles, submit tile by tile, merge | dispatch core |
| Rate limiter: `orchestrator/ratelimit.py` | a window and a count by client | check, sweep | every limited route |
| Analytics: `src/measurement/*`, `measurement` in `app.py`, `scripts/measure_report.py` | none | estimate headroom of a profile, of the fleet | stored summaries; profile files |
| Trust: `src/trust/*` | keys | sign, verify, attest, challenge | register, run_job, results |
| Dashboard, scripts | none | display | HTTP API |

What is hard about it, and so what the properties are for:

* Handlers are synchronous functions on a thread pool. Each reads the caller's row (and in two
  handlers the clock) *before* it takes `write_lock`, so every write section acts on stale data.
* Nothing is retried: lost answers, crashed agents and dead leases are repaired only by the next
  poll, by the reaper inside it, and by the heartbeat thread that notices a refused token.
* The usage heartbeats, the main loop and the yield watchers of an agent are threads that share
  flags without a lock.
* A job's code starts later than the client the worker holds, may outlive it, and may fail in ways
  that look like a failure of the sandbox.
* A workload exists only as its tiles: nothing records how many there should be, who was asked for them, or in what
  order they come back, and the summary is merged from whatever has completed.
* Every number the fleet's owner sees is computed twice, on the server from summaries that were sanitised on the way
  and offline from the profiles themselves.

`PROJECT.json` lists every component with its status, and every hazard at its line.

## 2. Modules and how they correspond to the code

**`Orchestrator`** is the dispatch core. A handler is one action per section between two points
where another thread may run: authentication (`PollAuth`, `HeartbeatAuth`, `ResultAuth`,
`DisconnectAsked`), then the write sections (`PollReap`, `Lease`/`PollEmpty`, `Heartbeat`, the
six `Result...` outcomes, `DisconnectWorker`, `DeriveTier`). What a handler carries across is the
record `inflight[t]` of the thread that serves it. Workers are unconstrained: any registered one may send any
request about any job at any time. Time is relative (ticks a lease has left, ages of jobs, heartbeats
and clock readings), saturating where no guard tells two values apart, so no clock is bounded.
`Crash` loses the requests in flight and keeps the tables, which are committed section by section.

**`WorkQueue`** is the abstract specification: jobs are queued, held by one worker that holds
nothing else, and paid once, to their holder. `OrchestratorProps` states the properties of the core and
the refinement (`ImplementsWorkQueue`); `MCOrchestrator` gives TLC its instances.

**`Fleet`** composes the core with the agents: the main loop's one blocking request at a time, the
usage-heartbeat thread, and a network that may lose an answer while the server still acts on the
request. It uses the core's actions as they are; its own state is what each agent is doing.
Left out here: tiers, and measure-only observers, which never poll.

**`YieldWatch`** is the yield reflex of one worker: the main loop around a job, the watcher threads, the events
`_job_running`, `_yield` and `_yield_watcher_stop`, and the governor's counter `_over`. The sensors and
thresholds are one flag, `high`. `Event.wait` is modelled by what it does: a set reaches every
thread that is waiting, even if it is cleared at once.

**`Isolation`** is `run_in_isolation`: the choice MXC, Docker, host, the polling loop with its
order of questions (client, yield flag, clock), the three ways to stop a run, and the judgement of what
became of it. The client process and the code inside the boundary are separate state. The
runtimes' probes are a free choice, because their cached answers may be out of date either way.
Three mishaps the code cannot notice are modelled and recorded in the history variable `mishap`.

**`Observer`** is measurement: any number of `--measure-only` launches on one machine, the three files they
share (identity, lock, profile), and the server's summaries. An observer is a record whose `at` is the place
its process has reached in `load_or_create_measurement_id`, `profile_lock`, `UsageProfiler.load` and
`run_measure_loop`. What a profile has learned is the set of samples that went into it, so "older" and
"lost" are set inclusion. The identity file is modelled with both of its ways of being published, the hard
link and the exclusive creation followed by a write that others may read half done. A `POST /profile` that has
authenticated is in `posts` and may be ingested late, or after its device was disconnected. Kills, failing file
operations, failing requests, damage to the profile and disconnections are counted in `faults`; `saved` and
`lateError` are history variables.

Definitions named `Mutant_...` are not part of a model: each is the definition after it with a plausible
bug, and shows that some property would notice.

**`Worker`** is one worker at work: `YieldWatch` around `Isolation`. `run_job` joins the two: it calls the boundary with
`should_yield`, which reads the watcher's event (`YieldFlag` declares it for both), and clears both events when the call has returned. Where
`YieldWatch` lets a job end when it likes and `Isolation` lets the flag go up when it likes, here neither is free.
`ReflexIsImplemented` says that the composition is still a `YieldWatch`, fairness included.

**`Partition`**, **`WorkloadKinds`**, **`JobKit`** are the pure parts of a workload: `even_ranges`, `weighted_ranges`,
`weighted_partition` and the two functions that ask the fleet how many tiles and how large; the builders and merges of
every kind; the executors. A tile is a range of items, and what is computed of an item is a constant of it. Shares and
weights are floats in the code and exact in the model. Two corners show in the model as in the code: `weighted_ranges` may leave a
machine of little weight without a tile, and in `weighted_partition` a share that lent its last spare item may end one item
behind a lighter one (4 items by weights 10, 9, 1 make 1, 2, 1).

**`AuditLog`** is the events table with its hash chain. A hash is the sequence of what went into it, so equal hashes
have equal inputs. Rows from before the chain's columns have no hash; a row may once be edited or deleted by hand.

**`Workload`** composes these four: `launch_workload` reads the fleet twice, submits tile by tile and logs each one after its
commit; workers lease, run and report tiles; `workload_detail` merges what has completed. Leasing is coarser than in
`Orchestrator`: any worker may lease any queued tile (weights decide how large a tile is, not who gets it), and any
lease may run out. `Crash` stops the handlers between two steps.

**`RateLimiter`** is `RateLimiter.check` with its fixed windows and its sweep, and what the middleware makes of it. The
middleware runs on the event loop, so a check is one step; a restart begins with no buckets.

**`Headroom`** and **`Measurement`** follow the numbers: `UsageProfiler.record` and `AvailabilityTracker.record` fold samples,
`report_profile` summarises, `ingest_profile` sanitises and stores behind the limiter, `measurement` decodes and averages;
`Report` is what `measure_report` says of the profiles the stored rows came from. Machines with the earlier observer send
bucket lists, and rows of the earlier release are lists. Percentages are integers in a unit so small that no division in
an instance has a remainder: agreement of the two readers is then equality.

## 3. Runs

| run | question | instance and why it is enough |
|---|---|---|
| `dispatch_leases` | leases exclusive, ledger and jobs agree, dead leases dead, refinement | 2 workers, 2 threads, 2 jobs (a challenge, a GPU job); a lease of 2 ticks and clock readings 1 tick old, so a lease may die while a request waits; two threads because every race in the code is between two sections; symmetric workers and threads |
| `dispatch_routing` | what a stale poll may lease, and admin against attestation | 1 worker polling twice at once, 2 jobs of different classification and needs, capabilities that change, tiers 0, 2, 3 |
| `disconnect_race` | *violation*: a poll under way leases to a worker that was just disconnected | as `dispatch_leases` |
| `fleet_recovery` | every job completed whatever single fault occurs; a running job is covered by its lease | 2 agents (one busy, one lighter and not admitting), 3 threads, 1 job, 1 fault of any kind; more faults repeat the same recoveries |
| `fleet_long_job` | *violation*: a job as long as its lease never completes | 1 job; no heartbeat ever names a job, so no lease is renewed |
| `worker` | one live watcher per job; sustained demand leaves no code of the job; nothing outlives its call; boundaries respected; answers final; calls return; the composition implements the reflex | 2 watcher slots, a threshold of 2 samples (the code's 3 repeats the second), all combinations of a call's arguments, jobs without end |
| `isolation_rerun` | *violation*: a job that raises in Docker is run again on the host | `Isolation` by itself, its yield flag free |
| `observer_profile` | racing, failing and killed observers lose no saved sample and share one identity; the server never knows more than the disk, and little less | 2 launches that race at every step; a save every 2 samples and an upload every 3, which do not divide one another; 5 samples, past the first late upload; 2 faults; one request at a time; symmetric observers and identities |
| `workloads` | tiles cover the request, seeds differ, shares follow weights, the summary is one machine's, the log tells what happened and its chain is exact | splits of up to 9 items into up to 6 tiles, and lists of 0, 2 and 5 prompts in slices, for 5 fleets that may change between the two reads, one of them with a machine at full load and one without memory (no leases); every kind with 2 tiles run to an end by 2 workers, 2 leases; a crash with 2 or 3 leases; one edit or deletion; a table with and without a row from before the chain. Ties in scores, two hits, a grade out of range and documents that repeat one another's edges are among the items |
| `tile_incomplete` | *violation*: a pool whose chunk raised completes its tile | as `workloads` |
| `measurement` | server and offline report agree, rows are stable, availability is honest, the limiter's bounds | 3 machines, one with a GPU, one with the earlier observer; a behaviour is either 3 samples and 3 uploads, or 6 ticks and 6 reads around one restart, or a little of both; gaps within, beyond the cadence and beyond what is believed, clocks set back; a limit of 2 in a window of 3 ticks, so that two windows and a burst fit |
| `headroom_gpu` | *violation*: the hour of a failed GPU sensor is uploaded as a spare GPU | as `measurement` |

Bounds are named where they are declared: `NumJobs`, `MaxDelay` (ticks between a request's
authentication and its write section), `MaxFaults`, `Watchers`, `MaxSamples`, `MaxPosts`, `MaxLegacy`, `Bound` of
`Workload` (leases, crashes, damages by launch), `Bounds` of `Measurement`, `MaxClock`, `MaxRestarts`. Deadlock is not
checked: workers may fall silent, and a system whose jobs are done may stop. The violations disagree with the
repository's own words; the findings of `PROJECT.json` quote them.

Three things the models show that no document of the repository contradicts: a job that always fails is put back at the
head of the queue for ever; a launch cut off half-way leaves tiles that look like a complete workload, since
its total is the number of its rows; and a table older than the chain is reported broken at its first row for ever.

## 4. Fairness

`Fleet`: every thread of an agent and of the server runs, time passes, and the operator approves the
devices that wait. Nothing is assumed of submissions, faults or the network; an agent whose
gate never admits (`Admitting`) need not ever poll. `Worker`: the main thread and the watcher threads run, and a
container that was asked for comes up or fails; a job need not end. `CallsReturn` assumes in addition that deadlines
pass (`DeadlinesPass`); `MachineGivenBack` does not, so that it is the reflex and not the deadline that frees the machine.
`YieldWatch` by itself assumes that the watcher threads run and that a job asked to yield looks at `should_yield()` again;
`ReflexIsImplemented` shows that the boundary does. All are
weak fairness of threads the operating system schedules, or of a clock. The dispatch core by itself has none: it only
answers. `Observer` has none either: `RollupKeepsUp` bounds how far a summary lags in samples, in every state.
`Workload` and `Measurement` state what holds at every moment, whether or not tiles are ever run or samples uploaded.

## 5. Proofs

All theorems hold for every value of the constants, under the named assumptions on them, which TLC evaluates in the
runs: `ConstantsAssumption`, `FleetAssumption`, `YieldAssumption`, `ObserverAssumption`, `LimiterAssumption`,
`AuditAssumption`, `WorkloadAssumption`, `PoolAssumption`, `KernelAssumption`, `RiskAssumption`, `HeadroomAssumption`,
`MeasurementAssumption`. Of the kernels they say only what the code's types do (`RequestOK`): scores and grades are
integers, a document yields lists, a histogram has a bin, a level is a percentage. Each safety theorem rests on an
inductive invariant, proved action by action; the type invariant of the module is a part of it.

* `OrchestratorProofs`. `SingleLease`: inductive with types, since `Lease` tests `Busy` in its own
  section. `LedgerAgrees`: the invariant must say that a ledger row's job is completed *and names
  the row's worker*, so that no later step can change either; it is inductive together with the uniqueness
  of rows. `CoreImplementsQueue`: initial states map to initial states, and
  each action to a step of `WorkQueue` or to a stutter; `SingleLease` gives `Lease` its guard.
  `ClearedLeases`, `PinStands`, `DeadLeasesStayDead` are action properties proved
  action by action from the type invariant; the last needs that no clock reading is older than `MaxDelay`.
* `FleetProofs`. `FleetImplementsCore`: every step of the composition is a step of the core or leaves it alone, so the
  theorems of the core hold of the fleet (`FleetKeepsCore`). An answer that reaches nobody needs care: what the agent
  no longer waits for is still in the server. `FInv` says who waits for which thread (`Sound`), and, until the first
  fault, that every request has its agent waiting (`NoOrphan`) and that a running job is leased for longer than it still
  takes (`Covered`). `LeasesCoverRuns` has a hypothesis, that every job is shorter than a lease; the run `fleet_long_job`
  shows what happens otherwise.
* `WorkerProofs`. Of the reflex: `OneWatcher` is not inductive, and `PhaseInv` adds at which places of the main loop a
  watcher may live at all and what the stop event holds there. `WatcherIsUnique` assumes that no sample takes longer than
  the join waits (`~SlowSamples`), which `OneWatcher` needs. Of the composition: every step of `Worker` is a step of
  both its parts (`WorkerStepIsReflex`, `WorkerStepIsBoundary`), so `WorkerTyped`, `WorkerIsWatched` and
  `WorkerKeepsBoundary` carry over what is proved of the parts. Two theorems need both: `IdleWorkerRunsNothing` (outside
  the call nothing of a job runs, mishaps aside) and `CallsAreWatched` (whoever is in a call has a live watcher);
  `CallInJob` ties the place of the loop to that of the call. Of the boundary: `JobsEndWithTheirCall` follows from
  `ClientInv`: without a mishap code lives only at the current boundary and under a live client, and the worker leaves
  the polling phases only when its client has ended. `AnswersAreFinal` follows from `ChoiceInv`: a boundary is only
  chosen while nothing is decided.
* `ObserverProofs`. `OneIdentity` needs `WriterInv`: at most one observer is between the exclusive creation of the
  identity file and its last write, and whether the file is complete follows from where that one
  is. It excepts an fsync error that comes after the newline could be read (`lateError`), which does break it.
  `NothingIsLost` needs `HolderInv`: whoever has loaded the profile holds the lock, and has in memory everything
  in the file. `SummaryIsDurable` needs `UploadInv`: what an observer uploads, and so what a request carries,
  was saved before. `RollupKeepsUp` needs `RollupInv`, which counts samples across both intervals: an upload is overdue
  by no more than the samples since the last save (`Lags`), whoever is about to upload has something new, after
  an upload the summary lacks at most the sample being taken (`AllButOne`), and who sent a request on its way still
  waits for it, or repeats it while it shuts down (`StillAt`). No relation between `SaveEvery` and `PostEvery` is assumed.
* `MeasurementProofs`, of the limiter: `TwiceTheLimitAtMost` needs that the windows in which a client's requests were let
  in begin at least `Window` apart, that each holds requests numbered up to its count, and that only the last one can
  still be in the buckets (the sweep forgets none that is open). A span of `Window` then meets at most two windows, and
  its requests inject into twice `Limit` places. `WaitingIsExact` needs that a promise made about a window still in the
  buckets lies between the window's end and a second past it, which the rounding of `RetryAfter` gives.
  Of measurement: every step is one of the limiter's or leaves it alone (`MeasuringIsLimited`), so the bounds hold of it
  too. `MeasurementInv` says of a machine that every hour's means are shares and below their peaks, that some hour has
  learned something once a sample was taken, and that its availability spans no more time than it lived; of a row, that ingesting it again
  would change nothing. `RowsAreStable` is then that sanitising twice is sanitising once (`MetricIsStable`,
  `AvailabilityIsStable`), for any row a machine can send.
  Of the two readers: `SourceInv` traces every row to the profile it was made from, and a summary is a record of shares
  (`SummaryOK`), which compacting and decoding leave as they are (`CompactSays`); leaving the counts of GPU samples out
  changes nothing but the GPU of a machine whose sensor failed (`StrippedSays`). So the two average the same numbers over the
  same machines. They round what is recoverable in different orders, once per machine or once for the fleet:
  `ReadersAgreeNearly` bounds the difference by one unit, for any units, and `ReadersAgree` is `RollupIsReport` wherever
  nothing is rounded (`NoRemainder`), as in every state of the run.
* `AuditProofs`, of `AuditSpec`: anybody may log anything, and one row may be damaged, at any time. `Linked`, the invariant, is
  stated of a log and a place of damage: before the place every link holds, at it one is broken. Appending keeps it,
  because the new row is chained to the last one even if that is damaged; an edit breaks the row's own hash
  (`HashFacts`: a hash tells its last input); a deletion breaks the next row's link (a hash is none of its prefixes). No
  event that is logged may have the type by which the model marks an edited row or a missing hash.
* `WorkloadProofs`. `WorkloadLogIsALog`: every step of a workload is a step of that abstract log, so its chain is
  verified exactly (`WorkloadChainIsExact`). `LogAgreesWithTable` and `FinishedAfterAssigned` need `Story`: as long as no row was
  damaged, what a worker runs was logged as assigned, a finish comes after its assignment, a logged completion is
  the only one of a job which the table completes for the same worker, and without a crash none is missing. The handlers
  log after their commit, so a lease of which nothing is logged yet has a stage of its own, and a report commits and
  logs in the same step unless it is cut off. `TilesCover`, `PathsDiffer` and `SharesFollow` need `Planned`: the split that
  a launch holds is one (as many weights as tiles, their sum positive), and the jobs submitted, with the ones left to submit,
  are the jobs that were built. What the builders make of any split is then shown kind by kind (`BuildFacts`), and
  that no two chunks of a workload share a random stream from `PoolAssumption`, that no tile has as many chunks as seeds
  are apart.
  `SummariesMerge`, that every summary is one machine's, needs `Executed` besides: a completed row holds what its executor
  came back with. It goes from the inside out. What the tiles done are, and the chunks of a pooled tile, takes the items
  done apart (`Dissected`), in ascending order (`Rising`); a fold from the left goes from place to place (`LeftFold`), so its
  value is found by induction over the places (`UpwardInduction`). Then kind by kind: the winner of the tiles' winners is
  the winner of all items, ties included (`WinnerMerges`, `BestOfTiles`); a search that found nothing has seen every
  nonce (`Searched`), also when a chunk stopped early; the histograms of chunks and tiles add up to the one of all paths
  (`Counted`), and the bin of a Value-at-Risk is where that one passes the tail (`ReturnBinFacts`); the rows joined are
  the items in order, a sorted list going on with the next tile's (`TilesGoOn`, `TilesJoin`), for a synthesis also after
  sorting by first index (`SynthMerges`); the points of all answers are the same sum by score, by label and one by one
  (`SumByClass`); and the ends of a graph's edges are among its nodes after every step (`Tied`), so that an edge left out
  as a repetition takes no node with it. For a pooled tile the summary is claimed only if all of its chunks ran
  (`whole`), which the finding of `tile_incomplete` says the code does not see to.
* `PartitionProofs`, for any total, any number of tiles and any weights. `EvenRangesCover` and `WeightedRangesCover`: the tiles
  cover their total end to end. `SharesAreFair`: a weighted share is within an item of the proportional one and follows
  the weights. `EqualSharesAreEven`: equal weights are the even split. `PartitionFacts`, of `weighted_partition` with its borrowing
  loop: every turn takes an item from the largest share and gives it to an empty one, so with enough items nobody is
  left without. Sums, and the loop, are folds over finite sets; what they are is shown by induction over the subsets of
  a set (`FiniteInduction`, from the well-foundedness of strict inclusion), where the property is given as the
  set of the subsets that have it, since no lemma can take it as an operator. Two general parts serve `SummariesMerge`:
  sequences that are joined (`Flattened`, `ListGoesOn`) and sums by class (`PartsAdd`, `SumByClass`).

Only model-checked is what needs fairness: `JobsComplete`, `CallsReturn`, `MachineGivenBack`, `ReflexIsImplemented` (its
part without fairness is the lemma `WorkerIsReflex`). Of the invariants, `RollupIsReport` is proved where nothing is
rounded, and up to one unit elsewhere; in the run nothing is rounded.

## 6. Plan

1. `Observer` against what the tests and the security document say of the erasure: a request that is ingested
   after `disconnect_worker` erased the summary. Job workers as a second kind of process, which save the
   profile on exit without the lock.
2. Proofs: that each action of `Worker` that ends a call leads back to the gate with the flag down; the lag of
   `RollupKeepsUp` after one fault; the summary of a tile whose pool lost a chunk.
3. Telemetry's restore at start, and the heartbeat fields it feeds.

## 7. Not modelled

Numerical kernels of the workloads and of `jobkit`, prompts and parsing (outside a model checker's reach: what is
computed of an item is a constant of it, an unusable reply is a garbled item); cryptography and file formats of
`src/trust` (their verdicts are inputs); the learned usage envelope and sensors (a sample is an element of a set); of the
analytics, idle times, minima, counts by class and the text of the reports; the probes of the container runtimes and the
policies they are given; float rounding, everywhere; bucket lists whose peaks lie below their means, which no observer
sends; the deletion of the log's last rows, which no chain can see; the moment between a heartbeat's refusal and the
clearing of the registration (`BeatRefused`); dashboard, demonstrations and packaging, which share no state with the rest beyond calls of the modelled handlers.
