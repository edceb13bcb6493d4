---------------------------- MODULE WorkloadKinds ----------------------------
(***************************************************************************)
(* The two ends of a workload: the builders of src/workloads/*.py that     *)
(* split it into jobs, and the aggregators that merge the jobs' outputs    *)
(* into the summary shown for it (with _build_workload_jobs and            *)
(* _aggregate_workload of orchestrator/app.py).                            *)
(*                                                                         *)
(* A request asks for size items (size items per job where a kind says     *)
(* so), from base on.  A mean is the pair of its sum and its count.        *)
(* Left out: charts and images, and the parameters every job of a workload *)
(* shares.  Outputs are merged in the order the jobs were submitted in.    *)
(***************************************************************************)
EXTENDS JobKit

CONSTANTS
  InferLimit,    \* 200: results kept in the summary of an inference
  SynthLimit,    \* 500: rows kept in the summary of a synthesis
  VarLevels      \* var_levels, in percent

ASSUME RiskAssumption == VarLevels \subseteq 1..100

-----------------------------------------------------------------------------
(* Builders. *)

JobOf(kind, from, to, seed) ==
  [kind |-> kind, tile |-> [from |-> from, to |-> to, seed |-> seed], units |-> to - from]

\* A job per tile that is not empty, seeded by its place.
TileJobs(kind, n, base, ranges) ==
  LET place == InOrder({i \in 1..n : ranges[i][1] < ranges[i][2]})
  IN [j \in DOMAIN place |->
        JobOf(kind, base + ranges[place[j]][1], base + ranges[place[j]][2], place[j])]

\* The kinds that split one range.
RangeJobs(kind, n, base, size, weights) ==
  TileJobs(kind, n, base,
           IF weights = NoWeights THEN EvenRanges(size, n) ELSE WeightedRanges(size, weights))

FractalJobs(n, height, weights) == RangeJobs("fractal", n, 0, height, weights)
OptimizeJobs(n, candidates, weights) == RangeJobs("optimize", n, 0, candidates, weights)
SynthJobs(n, rows, weights) == RangeJobs("ai.synth", n, 0, rows, weights)
InferJobs(n, prompts, weights) == RangeJobs("ai.infer", n, 0, prompts, weights)
EvalJobs(n, items, weights) == RangeJobs("ai.eval", n, 0, items, weights)
GraphJobs(n, docs, weights) == RangeJobs("ai.graph", n, 0, docs, weights)
MontecarloJobs(n, paths, weights) == RangeJobs("montecarlo", n, 0, paths, weights)
HashcrackJobs(n, base, keyspace, weights) == RangeJobs("hashcrack", n, base, keyspace, weights)

\* ai.batch_infer: slices of a fixed length, whatever the number of tiles.
PromptJobs(slice, prompts) ==
  [i \in 1..((prompts + slice - 1) \div slice) |->
     JobOf("ai.batch_infer", (i - 1) * slice, Least(i * slice, prompts), i)]

\* data.transform: as many jobs as tiles, of so many items each.
FanOut(n, items) == [i \in 1..n |-> JobOf("data.transform", (i - 1) * items, i * items, i)]

\* render, not launched but submitted job by job: every job repeats its iterations.
RenderJobs(n, iters) == [i \in 1..n |-> JobOf("render", 0, iters, i)]

\* _build_workload_jobs
Build(request, n, weights) ==
  LET size == request.size IN
  CASE request.kind = "fractal" -> FractalJobs(n, size, weights)
    [] request.kind = "optimize" -> OptimizeJobs(n, size, weights)
    [] request.kind = "ai.synth" -> SynthJobs(n, size, weights)
    [] request.kind = "ai.batch_infer" -> PromptJobs(request.slice, size)
    [] request.kind = "data.transform" -> FanOut(n, size)
    [] request.kind = "montecarlo" -> MontecarloJobs(n, size, weights)
    [] request.kind = "hashcrack" -> HashcrackJobs(n, request.base, size, weights)
    [] request.kind = "ai.infer" -> InferJobs(n, size, weights)
    [] request.kind = "ai.eval" -> EvalJobs(n, size, weights)
    [] request.kind = "ai.graph" -> GraphJobs(n, size, weights)
    [] request.kind = "render" -> RenderJobs(n, size)

-----------------------------------------------------------------------------
(* Aggregators. *)

Sum(field, outputs) == Total([i \in DOMAIN outputs |-> outputs[i][field]])

\* The bin of a Value-at-Risk: the first where the paths so far exceed the tail.  (The code asks
\* for at least 1.0 - level of them, a float a hair above the decimal fraction.)
ReturnBin(hist, paths, level) ==
  LET upTo(b) == Total([c \in 0..b |-> hist[c]])
      reached == {b \in DOMAIN hist : upTo(b) * 100 > paths * (100 - level)}
  IN IF reached = {} THEN NumBins - 1 ELSE CHOOSE b \in reached : \A c \in reached : b <= c

AggregateMontecarlo(outputs) ==
  LET parts == [i \in {i \in DOMAIN outputs : outputs[i].paths > 0} |-> outputs[i]]
      paths == Sum("paths", parts)
      hist == AddUp([i \in DOMAIN parts |-> parts[i].hist])
  IN IF DOMAIN parts = {} THEN [paths |-> 0]
     ELSE [paths |-> paths, hist |-> hist,
           var |-> [level \in VarLevels |-> ReturnBin(hist, paths, level)]]

AggregateHashcrack(outputs) ==
  [nonce |-> FirstFound([i \in DOMAIN outputs |-> outputs[i].nonce]),
   tried |-> Sum("tried", outputs),
   tiles |-> Len(outputs)]

\* A tie between tiles goes to whichever was merged last.
Mutant_BetterTile(best, item) ==
  IF item = {} THEN best
  ELSE IF best = {} \/ \E b \in best, i \in item : Score[i] >= Score[b] THEN item ELSE best

\* Between two tiles' winners a tie goes to the lower index.
BetterTile(best, item) ==
  IF item = {} THEN best
  ELSE IF \/ best = {}
          \/ \E b \in best, i \in item : Score[i] > Score[b] \/ (Score[i] = Score[b] /\ i < b)
  THEN item ELSE best

AggregateOptimize(outputs) ==
  [best |-> FoldLeft(LAMBDA best, out : BetterTile(best, out.best), {}, outputs),
   evaluated |-> Sum("evaluated", outputs)]

AllResults(outputs) == FlattenSeq([i \in DOMAIN outputs |-> outputs[i].results])

AggregateEval(outputs) ==
  LET rows == AllResults(outputs)
      score(i) == Clamp(rows[i].score)
      labelled(label) == {i \in DOMAIN rows : rows[i].label = label}
  IN [overall |-> [sum |-> Sum("score", rows), n |-> Len(rows)],
      distribution |-> [points \in 0..10 |-> Cardinality({i \in DOMAIN rows : score(i) = points})],
      leaderboard |-> [label \in {rows[i].label : i \in DOMAIN rows} |->
        [sum |-> Total([i \in labelled(label) |-> score(i)]), n |-> Cardinality(labelled(label))]]]

\* Every edge once, with its ends among the nodes.
AddEdge(graph, edge) ==
  IF Contains(graph.edges, edge) THEN graph
  ELSE [nodes |-> Fresh(<<edge.source, edge.target>>, graph.nodes),
        edges |-> Append(graph.edges, edge)]

AggregateGraph(outputs) ==
  FoldLeft(LAMBDA graph, out :
             FoldLeft(AddEdge, [graph EXCEPT !.nodes = Fresh(out.nodes, @)], out.edges),
           [nodes |-> << >>, edges |-> << >>], outputs)

FirstOf(limit, list) == [count |-> Len(list), rows |-> SubSeq(list, 1, Least(limit, Len(list)))]

\* The tiles in the order of their first indices, of equal ones as they came.
SynthOrder(outputs) ==
  LET before == [i \in DOMAIN outputs |->
        {j \in DOMAIN outputs : \/ outputs[j].start < outputs[i].start
                               \/ (outputs[j].start = outputs[i].start /\ j < i)}]
  IN [k \in DOMAIN outputs |-> CHOOSE i \in DOMAIN outputs : Cardinality(before[i]) = k - 1]

MergeSynth(outputs) ==
  FlattenSeq([k \in DOMAIN outputs |-> outputs[SynthOrder(outputs)[k]].rows])

NoRow == 0 - 1

\* The image: a row no tile brought stays blank, a row of two tiles is the later one's.
AssembleTiles(outputs, height) ==
  LET bringing(y) == {i \in DOMAIN outputs : /\ outputs[i].start <= y
                                             /\ y < outputs[i].start + Len(outputs[i].rows)}
      row(i, y) == outputs[i].rows[y - outputs[i].start + 1]
  IN [y \in 0..(height - 1) |-> IF bringing(y) = {} THEN NoRow ELSE row(Max(bringing(y)), y)]

NoSummary == [none |-> TRUE]   \* nothing completed, or a kind that is not merged here

Aggregate(kind, outputs) ==
  CASE outputs = << >> -> NoSummary
    [] kind = "montecarlo" -> AggregateMontecarlo(outputs)
    [] kind = "hashcrack" -> AggregateHashcrack(outputs)
    [] kind = "optimize" -> AggregateOptimize(outputs)
    [] kind = "ai.eval" -> AggregateEval(outputs)
    [] kind = "ai.graph" -> AggregateGraph(outputs)
    [] kind \in {"ai.infer", "ai.batch_infer"} -> FirstOf(InferLimit, AllResults(outputs))
    [] kind = "ai.synth" -> FirstOf(SynthLimit, MergeSynth(outputs))
    [] OTHER -> NoSummary

=============================================================================
