----------------------------- MODULE Measurement -----------------------------
(***************************************************************************)
(* From the samples of the fleet's machines to the fleet's headroom:       *)
(* report_profile of worker/agent.py, ingest_profile and measurement of    *)
(* orchestrator/app.py behind the request limiter, and, for the same       *)
(* machines, the offline report of scripts/measure_report.py.  How an      *)
(* observer starts, saves and enrolls is Observer's; here every machine is *)
(* enrolled and has one observer.                                          *)
(*                                                                         *)
(* A machine of Legacy runs an observer of an earlier release, which sent  *)
(* its buckets; the orchestrator of that release stored such a list, and   *)
(* its rows are still in the table.                                        *)
(***************************************************************************)
EXTENDS Headroom, RateLimiter

CONSTANTS
  Devices, Legacy,  \* machines; those with the earlier observer
  Operator,         \* who reads GET /measurement
  HasGpu,           \* machines with a GPU
  Readings,         \* what the sensors may say: [cpu, gpu, ram, ac]
  Pauses,           \* between two samples: [gap, back], how long, and what the clock was set back
  StartTime,        \* wall clock at the first sample
  Lists,            \* bucket lists that an earlier observer may send
  MaxSpan,          \* 400 days, the longest span the server believes
  Bounds            \* bounds on the samples, the uploads let in, the reads, the clock
                    \* and the restarts of a behaviour: it keeps one of Bounds

ASSUME MeasurementAssumption ==
  /\ Legacy \subseteq Devices /\ HasGpu \subseteq Devices /\ Keys = Devices \cup {Operator}
  /\ Operator \notin Devices
  /\ {StartTime, MaxSpan} \subseteq Nat \ {0}
  /\ \A r \in Readings :   \* _percent
       {r.cpu, r.ram} \subseteq 0..Whole /\ {r.gpu, r.ac} \ {NoSample} \subseteq 0..Whole
  /\ Pauses \subseteq [gap: Nat, back: Nat]
  /\ IsFiniteSet(Devices)
  /\ \A list \in Lists :      \* a list of UsageBucket, peaks not below their means
       /\ DOMAIN list \subseteq Nat /\ IsFiniteSet(DOMAIN list)
       /\ \A i \in DOMAIN list :
            /\ list[i] \in [index: Int, n: Int, cpu: Int, cpuMax: Int, gpu: Int, gpuMax: Int,
                            ram: Int, ac: Int]
            /\ list[i].cpu <= list[i].cpuMax /\ list[i].gpu <= list[i].gpuMax
  /\ Bounds \subseteq [samples: Nat, uploads: Nat, reads: Nat,
                       clock: 0..MaxClock, restarts: 0..MaxRestarts]

VARIABLES
  local,     \* the UsageProfiler of every observer
  lived,     \* history: real time since a machine's first sample, and its part beyond the cadence
  stored,    \* worker_profiles
  source,    \* history: the profile that a machine's latest upload was made from
  bound, samples, uploads, reads   \* the bounds of this behaviour, and what they count

machines == <<local, lived, samples, bound>>
server   == <<stored, source, uploads, reads>>
vars     == <<machines, server, limiterVars>>

NoRow == [kind |-> "none"]

\* gpu_supported: what the agent's probe found
Supported(d) == IF d \in HasGpu THEN "yes" ELSE "no"

Profile(hourly, supported, availability) ==
  [buckets |-> hourly, gpuSupported |-> supported, availability |-> availability]
NoFile == Profile(<< >>, Unstated, NeverSampled)

\* A row of the table is a list, as the earlier release stored it, or compact.
ListRow(hourly) == [kind |-> "list", buckets |-> hourly]

-----------------------------------------------------------------------------
(* The wire and the table: _sanitize_profile_report, _decode_stored_profile. *)

SanitizeMetric(m) ==
  LET avg == Percent(m.avg)  low == Percent(m.low)  high == Percent(m.high) IN
  [avg |-> avg, peak |-> Larger(avg, Percent(m.peak)),
   low |-> Smaller(low, high), high |-> Larger(low, high)]

\* A record that claims a longer day than 24 hours is scaled down.
SanitizeAvailability(a) ==
  LET observed == Clip(a.observed, Day)  unavailable == Clip(a.unavailable, Day)
      sum == observed + unavailable
  IN IF a.span <= 0 THEN [span |-> 0, observed |-> 0, unavailable |-> 0]
     ELSE [span |-> Clip(a.span, MaxSpan),
           observed |-> IF sum > Day THEN (Day * observed) \div sum ELSE observed,
           unavailable |-> IF sum > Day THEN (Day * unavailable) \div sum ELSE unavailable]

Compact(summary) ==
  [kind |-> "compact", coverage |-> Clip(summary.coverage, Hours),
   cpu |-> SanitizeMetric(summary.cpu), gpu |-> SanitizeMetric(summary.gpu),
   gpuSampled |-> summary.gpuSampled, ram |-> Percent(summary.ram), ac |-> Percent(summary.ac),
   availability |-> SanitizeAvailability(summary.availability)]

\* _sanitize_profile_buckets: the first measured bucket of every hour, clipped.
SanitizeBuckets(list) ==
  LET good == {i \in DOMAIN list : list[i].n > 0 /\ list[i].index \in 0..(Hours - 1)} IN
  [h \in {list[i].index : i \in good} |->
     LET b == list[Min({i \in good : list[i].index = h})] IN
     [Bucket0 EXCEPT !.n = b.n, !.gpuN = NoCount,
                     !.cpu = Percent(b.cpu), !.cpuMax = Percent(b.cpuMax),
                     !.gpu = Percent(b.gpu), !.gpuMax = Percent(b.gpuMax),
                     !.ram = Percent(b.ram), !.ac = Percent(b.ac)]]

\* What a profile without availability and gpu_supported says: an earlier observer's file.
EarlierFile(hourly) == Profile(hourly, Unstated, NeverSampled)

\* _compact_from_legacy_buckets
CompactFromBuckets(hourly) == Compact(Summarize(EarlierFile(hourly)))

\* The GPU flag of the row is not read.
Mutant_Decode(row) ==
  IF row.kind = "list" THEN CompactFromBuckets(row.buckets)
  ELSE [Compact(row) EXCEPT !.gpuSampled = FALSE]

Decode(row) == IF row.kind = "list" THEN CompactFromBuckets(row.buckets) ELSE Compact(row)

-----------------------------------------------------------------------------
(* Actions. *)

Init ==
  /\ LimiterInit
  /\ local = [d \in Devices |-> Profile([h \in 0..(Hours - 1) |-> Bucket0], Supported(d), NeverSampled)]
  /\ lived = [d \in Devices |-> [time |-> 0, beyond |-> 0]]
  /\ \E rows \in [Legacy -> {<< >>} \cup {SanitizeBuckets(list) : list \in Lists}] :
       LET Had(d) == d \in Legacy /\ rows[d] # << >> IN
       /\ stored = [d \in Devices |-> IF Had(d) THEN ListRow(rows[d]) ELSE NoRow]
       /\ source = [d \in Devices |-> IF Had(d) THEN EarlierFile(rows[d]) ELSE NoFile]
  /\ bound \in Bounds /\ samples = 0 /\ uploads = 0 /\ reads = 0

\* One turn of run_measure_loop: the sensors are read, and the bucket of the hour and the
\* availability record take the sample.  The wall clock may have been set back in between.
Sample(d, reading, pause) ==
  LET last == local[d].availability.last
      gap  == pause.gap
      at   == IF last = 0 THEN StartTime ELSE last + gap - pause.back
      hour == BucketIndex(at)
  IN
  /\ d \notin Legacy /\ samples < bound.samples
  /\ IF last = 0 THEN pause = [gap |-> Interval, back |-> 0] ELSE at > 0
  /\ reading.gpu # NoSample => d \in HasGpu
  /\ local' = [local EXCEPT ![d].buckets[hour] = Fold(@, reading, at),
                            ![d].availability = RecordTime(@, at)]
  /\ lived' = IF last = 0 THEN lived
              ELSE [lived EXCEPT ![d].time = @ + gap, ![d].beyond = @ + gap - Smaller(gap, Interval)]
  /\ samples' = samples + 1
  /\ UNCHANGED <<server, limiterVars, bound>>

\* report_profile: the bucket list it summarises leaves gpu_n out.
Uploaded(d) ==
  [local[d] EXCEPT !.buckets = [h \in DOMAIN @ |-> [@[h] EXCEPT !.gpuN = NoCount]]]

\* ingest_profile
Store(d, row, from) ==
  /\ stored' = [stored EXCEPT ![d] = row]
  /\ source' = [source EXCEPT ![d] = from]
  /\ uploads' = uploads + 1
  /\ UNCHANGED reads

\* POST /profile, through the limiter; a refused machine keeps its profile for the next time.
Upload(d) ==
  /\ d \notin Legacy /\ uploads < bound.uploads /\ source[d] # local[d]
  /\ local[d].availability.last > 0
  /\ \/ Admit(d) /\ Store(d, Compact(Summarize(Uploaded(d))), local[d])
     \/ Refuse(d) /\ UNCHANGED server
  /\ UNCHANGED machines

\* The same from an earlier observer; an empty list is taken for a compact report of nothing.
UploadList(d, list) ==
  LET hourly == SanitizeBuckets(list) IN
  /\ d \in Legacy /\ uploads < bound.uploads
  /\ \/ Admit(d) /\ Store(d, CompactFromBuckets(hourly), EarlierFile(hourly))
     \/ Refuse(d) /\ UNCHANGED server
  /\ UNCHANGED machines

\* GET /measurement: what it answers is Measured.
Read ==
  /\ reads < bound.reads /\ reads' = reads + 1
  /\ Check(Operator)
  /\ UNCHANGED <<machines, stored, source, uploads>>

Time    == clock < bound.clock /\ Tick /\ UNCHANGED <<machines, server>>
Restart == restarts < bound.restarts /\ NewLimiter /\ UNCHANGED <<machines, server>>

Next ==
  \/ \E d \in Devices, reading \in Readings, pause \in Pauses : Sample(d, reading, pause)
  \/ \E d \in Devices : Upload(d)
  \/ \E d \in Devices, list \in Lists : UploadList(d, list)
  \/ Read \/ Time \/ Restart

Spec == Init /\ [][Next]_vars

-----------------------------------------------------------------------------
(* What the two readers of the measurements say. *)

Known == {d \in Devices : stored[d].kind # "none"}

\* Every row counts, the ones without a measured hour too.
Mutant_Contributing(rows) == DOMAIN rows
Contributing(rows) == {d \in DOMAIN rows : rows[d].coverage > 0}

TimedRows(rows) == {d \in Contributing(rows) : rows[d].availability.span > 0}

\* measurement, with _aggregate_compact_profiles: the mean of what the devices could give.
Measured ==
  LET rows    == [d \in Known |-> Decode(stored[d])]
      devices == Contributing(rows)
      gpus    == {d \in devices : rows[d].gpuSampled}
      timed   == TimedRows(rows)
      Across(name, S) ==
        [avg |-> Mean([d \in S |-> rows[d][name].avg], S),
         peak |-> IF S = {} THEN 0 ELSE Peak([d \in S |-> rows[d][name].peak], S),
         low |-> Mean([d \in S |-> rows[d][name].low], S),
         high |-> Mean([d \in S |-> rows[d][name].high], S)]
      Timed(field) == Mean([d \in timed |-> rows[d].availability[field]], timed)
  IN [devices |-> Cardinality(devices), coverage |-> SumFunction([d \in Known |-> rows[d].coverage]),
      cpu |-> Across("cpu", devices), gpu |-> Across("gpu", gpus), gpus |-> Cardinality(gpus),
      ram |-> Mean([d \in devices |-> rows[d].ram], devices),
      ac  |-> Mean([d \in devices |-> rows[d].ac], devices),
      availability |-> [f \in {"span", "observed", "unavailable"} |-> Timed(f)]]

\* measure_report over the profile files that the stored summaries were made from.
Report == Aggregate([d \in Known |-> Summarize(source[d])])

-----------------------------------------------------------------------------
(* Properties. *)

\* The rows are lists or compact, and a machine that has uploaded has a compact row.
MeasurementTypeOK ==
  /\ \A d \in Known : stored[d].kind \in {"list", "compact"}
  /\ \A d \in Known \ Legacy : stored[d].kind = "compact" /\ stored[d].coverage \in 1..Hours
  /\ \A d \in Devices, h \in 0..(Hours - 1) : LET b == local[d].buckets[h] IN
       /\ {b.cpu, b.cpuMax, b.gpu, b.gpuMax, b.ram, b.ac} \subseteq 0..Whole
       /\ b.cpu <= b.cpuMax /\ b.gpu <= b.gpuMax /\ {b.gpuN, b.acN} \subseteq 0..b.n
  /\ bound \in Bounds
  /\ samples \in 0..bound.samples /\ uploads \in 0..bound.uploads /\ reads \in 0..bound.reads

Same(a, b) == \A f \in {"avg", "peak", "low", "high"} : a[f] = b[f]

\* The GPU sensor answered at least once in every hour that was measured.
GpuAlwaysRead ==
  \A d \in (Known \cap HasGpu) \ Legacy :
     \A h \in Populated(source[d].buckets) : source[d].buckets[h].gpuN > 0

\* The dashboard and the report say the same of the GPUs of the same profiles.
GpuRollupIsReport ==
  LET m == Measured  r == Report IN m.gpus = r.gpus /\ Same(m.gpu, r.gpu)

\* headroom.py:3-5: the dashboard and the report say the same of the same profiles: devices,
\* coverage, CPU, RAM, AC power, the hours observed and unavailable in a day, and the GPUs, where
\* their sensors answered (see GpuRollupIsReport).
RollupIsReport ==
  LET m == Measured  r == Report IN
  /\ \A f \in {"devices", "coverage", "ram", "ac"} : m[f] = r[f]
  /\ Same(m.cpu, r.cpu)
  /\ \A f \in {"observed", "unavailable"} : m.availability[f] = r.availability[f]
  /\ GpuAlwaysRead => GpuRollupIsReport

\* What is read back from the table, after a restart or at every GET, is what was stored.
StoredIsStable == \A d \in Known : stored[d].kind = "compact" => Decode(stored[d]) = stored[d]

\* A machine is never said to have been measured, or away, for longer than it was, whatever sleeps,
\* month-long absences and clocks set back lie between its samples.
AvailabilityIsHonest ==
  \A d \in Devices : LET t == local[d].availability IN
     Span(t) <= lived[d].time /\ t.unavailable <= lived[d].beyond

=============================================================================
