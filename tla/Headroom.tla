------------------------------ MODULE Headroom ------------------------------
(***************************************************************************)
(* What a machine learns of its own use and what is estimated from it:     *)
(* record of worker/profiler.py, record of measurement/availability.py,    *)
(* and the headroom arithmetic of measurement/headroom.py that the report  *)
(* of scripts/measure_report.py and the workers' uploads both use.         *)
(*                                                                         *)
(* Percentages are integers, Whole of them being 100%, in a unit so small  *)
(* that no division below has a remainder.  Left out: the human's idle     *)
(* time, the CPU minimum and the RAM peak, which no estimate uses, and the *)
(* counts of gaps and samples.                                             *)
(***************************************************************************)
EXTENDS Integers, FiniteSets, Functions, FiniteSetsExt

CONSTANTS
  Whole,       \* 100%
  Hours,       \* BUCKETS: the hours of a week
  HourLength,  \* an hour, in ticks of the wall clock
  Interval,    \* the measurement interval
  HalfMinute,  \* 30 s
  Stale,       \* _STALE_DAYS
  MaxGap,      \* MAX_ACCOUNTED_GAP_SECONDS
  Day          \* 24 hours, in a unit of its own

ASSUME HeadroomAssumption ==
  /\ {Whole, Hours, HourLength, Interval, HalfMinute, Stale, MaxGap, Day} \subseteq Nat \ {0}
  /\ Whole % 20 = 0

Larger(a, b)  == IF a > b THEN a ELSE b
Smaller(a, b) == IF a < b THEN a ELSE b

\* max(0.0, min(maximum, x))
Clip(x, maximum) == Larger(0, Smaller(maximum, x))
Percent(x) == Clip(x, Whole)

-----------------------------------------------------------------------------
(* UsageProfiler.record *)

NoSample == -1    \* a sensor's None

Bucket0 == [n |-> 0, gpuN |-> 0, acN |-> 0, cpu |-> 0, cpuMax |-> 0, gpu |-> 0, gpuMax |-> 0,
            ram |-> 0, ac |-> 0, at |-> 0]

BucketIndex(at) == (at \div HourLength) % Hours

\* _ewma: a weight of 0.05 for the new sample
Ewma(prev, sample, n) == IF n = 0 THEN sample ELSE (19 * prev + sample) \div 20

Mutant_RollMax(prev, sample, mean, n) ==   \* relaxes without looking at the sample
  IF n = 0 THEN sample ELSE prev - (prev - mean) \div 50

\* _roll_max: a peak relaxes toward the mean by 0.02 of its distance.
RollMax(prev, sample, mean, n) ==
  IF n = 0 THEN sample ELSE Larger(prev - (prev - mean) \div 50, sample)

\* A bucket not written for a month starts afresh.
Aged(bucket, at) == IF bucket.n > 0 /\ at - bucket.at > Stale THEN Bucket0 ELSE bucket

\* The GPU and AC means leave out the samples that have no reading of them.
Fold(bucket, reading, at) ==
  LET b   == Aged(bucket, at)
      cpu == Ewma(b.cpu, reading.cpu, b.n)
      gpu == Ewma(b.gpu, reading.gpu, b.gpuN)
      sampled == reading.gpu # NoSample
      power   == reading.ac # NoSample
  IN [n |-> b.n + 1, gpuN |-> b.gpuN + (IF sampled THEN 1 ELSE 0),
      acN |-> b.acN + (IF power THEN 1 ELSE 0),
      cpu |-> cpu, cpuMax |-> RollMax(b.cpuMax, reading.cpu, cpu, b.n),
      gpu |-> IF sampled THEN gpu ELSE b.gpu,
      gpuMax |-> IF sampled THEN RollMax(b.gpuMax, reading.gpu, gpu, b.gpuN) ELSE b.gpuMax,
      ram |-> Ewma(b.ram, reading.ram, b.n),
      ac |-> IF power THEN Ewma(b.ac, reading.ac, b.acN) ELSE b.ac, at |-> at]

-----------------------------------------------------------------------------
(* AvailabilityTracker *)

NeverSampled == [last |-> 0, observed |-> 0, unavailable |-> 0]

GapThreshold == Larger(3 * Interval, Interval + HalfMinute)

\* No threshold and no cap: all of a gap is observed, and unavailable as well.
Mutant_RecordTime(t, at) ==
  LET elapsed == at - t.last IN
  IF t.last = 0 \/ elapsed < 0 \/ elapsed > MaxGap THEN [t EXCEPT !.last = at]
  ELSE IF elapsed > GapThreshold
       THEN [last |-> at, observed |-> t.observed + elapsed,
             unavailable |-> t.unavailable + elapsed - Interval]
       ELSE [t EXCEPT !.last = at, !.observed = @ + elapsed]

\* record: a clock set back, or ahead by more than a month, tells nothing of the machine; after a
\* gap only the interval is known to have been observed.
RecordTime(t, at) ==
  LET elapsed  == at - t.last
      observed == IF elapsed > GapThreshold THEN Smaller(elapsed, Interval) ELSE elapsed
  IN IF t.last = 0 \/ elapsed < 0 \/ elapsed > MaxGap THEN [t EXCEPT !.last = at]
     ELSE [last |-> at, observed |-> t.observed + observed,
           unavailable |-> t.unavailable + elapsed - observed]

Span(t) == t.observed + t.unavailable

\* summarize_availability
SummarizeAvailability(t) ==
  IF Span(t) = 0 THEN [span |-> 0, observed |-> 0, unavailable |-> 0]
  ELSE [span |-> Span(t), observed |-> (Day * t.observed) \div Span(t),
        unavailable |-> (Day * t.unavailable) \div Span(t)]

-----------------------------------------------------------------------------
(* summarize_profile and aggregate *)

\* fmean over the keys in S; every caller that has none reports 0.
Mean(f, S) == IF S = {} THEN 0 ELSE SumFunctionOnSet(f, S) \div Cardinality(S)
Peak(f, S) == Max({f[x] : x \in S})

Unstated == "unstated"   \* gpu_supported ("yes" or "no") of a profile that does not say
NoCount  == -1           \* gpu_n of a bucket that does not say

EmptyMetric == [avg |-> 0, peak |-> 0, spare |-> 0, low |-> 0, high |-> 0]

\* _recoverable: a fifth to two fifths of what is spare
Metric(avg, peak, spare) ==
  [avg |-> avg, peak |-> peak, spare |-> spare, low |-> spare \div 5, high |-> (2 * spare) \div 5]

Margin == Whole \div 4

\* normalize_buckets: the hours that were measured.
Populated(buckets) == {h \in DOMAIN buckets : buckets[h].n > 0}

HasGpuSample(b, supported, inferred) ==
  IF b.gpuN = NoCount THEN supported = "yes" \/ (supported = Unstated /\ inferred)
  ELSE b.gpuN > 0 /\ supported # "no"

\* profile: its buckets, gpu_supported, and its availability record.
Summarize(profile) ==
  LET b == profile.buckets
      hours == Populated(b)
      inferred == \E h \in hours : b[h].gpuN = NoCount /\ (b[h].gpu > 0 \/ b[h].gpuMax > 0)
      gpuHours == {h \in hours : HasGpuSample(b[h], profile.gpuSupported, inferred)}
      cpuSpare == [h \in hours |-> Larger(0, Whole - b[h].cpu - Margin)]
      gpuSpare == [h \in gpuHours |-> Larger(0, Whole - b[h].gpu)]
  IN [coverage |-> Cardinality(hours),
      cpu |-> IF hours = {} THEN EmptyMetric
              ELSE Metric(Mean([h \in hours |-> b[h].cpu], hours),
                          Peak([h \in hours |-> b[h].cpuMax], hours), Mean(cpuSpare, hours)),
      gpu |-> IF gpuHours = {} THEN EmptyMetric
              ELSE Metric(Mean([h \in gpuHours |-> b[h].gpu], gpuHours),
                          Peak([h \in gpuHours |-> b[h].gpuMax], gpuHours),
                          Mean(gpuSpare, gpuHours)),
      gpuSampled |-> gpuHours # {},
      ram |-> Mean([h \in hours |-> b[h].ram], hours),
      ac  |-> Mean([h \in hours |-> b[h].ac], hours),
      availability |-> SummarizeAvailability(profile.availability)]

\* The estimate over the devices of DOMAIN s that measured anything.
Aggregate(s) ==
  LET devices == {d \in DOMAIN s : s[d].coverage > 0}
      gpus    == {d \in devices : s[d].gpuSampled}
      timed   == {d \in devices : s[d].availability.span > 0}
      Over(name, S) ==
        IF S = {} THEN EmptyMetric
        ELSE Metric(Mean([d \in S |-> s[d][name].avg], S), Peak([d \in S |-> s[d][name].peak], S),
                    Mean([d \in S |-> s[d][name].spare], S))
      Timed(field) == Mean([d \in timed |-> s[d].availability[field]], timed)
  IN [devices |-> Cardinality(devices), coverage |-> SumFunction([d \in DOMAIN s |-> s[d].coverage]),
      cpu |-> Over("cpu", devices), gpu |-> Over("gpu", gpus), gpus |-> Cardinality(gpus),
      ram |-> Mean([d \in devices |-> s[d].ram], devices),
      ac  |-> Mean([d \in devices |-> s[d].ac], devices),
      availability |-> [f \in {"span", "observed", "unavailable"} |-> Timed(f)]]

=============================================================================
