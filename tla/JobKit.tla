-------------------------------- MODULE JobKit --------------------------------
(***************************************************************************)
(* The job kinds: the executors of src/jobkit/execute.py that a worker     *)
(* runs on one tile, and what each may come back with.                     *)
(*                                                                         *)
(* A tile is a range of items: image rows, candidates, records, prompts,   *)
(* answers to grade, documents, nonces or random paths.  An executor works *)
(* through them one by one, asks should_yield before each, and may raise;  *)
(* the two pooled kinds cut their tile into chunks for a pool of processes *)
(* and take the results as they come.  What is computed of an item is a    *)
(* constant of it: a candidate's score, an answer's grade, and so on.      *)
(*                                                                         *)
(* Left out: the numerical kernels, prompts and parsing (an unusable reply *)
(* of a model is a garbled item), the clock, and the GPU's array module.   *)
(***************************************************************************)
EXTENDS Partition

CONSTANTS
  Score,       \* [item -> Int]: _optimize_score of a candidate's config
  Hits,        \* the nonces whose hash starts with the target
  Reply,       \* [item -> [label, score]]: the judge's reply for an answer
  Doc,         \* [item -> [nodes, edges]]: what is extracted from a document
  NumBins,     \* hist_bins
  Reachable,   \* the AI backends a worker can reach
  NoLLM,       \* ONECOMPUTE_NO_LLM
  Cores,       \* _core_count
  ChunkSize,   \* 2000 paths, 500000 nonces
  MaxChunks    \* 2048 or 4096

SeedStride == 1000003   \* from the streams of a seed to those of the next

\* No tile has so many chunks that its streams reach the next seed's.
ASSUME PoolAssumption ==
  /\ Cores \in Nat \ {0} /\ ChunkSize \in Nat \ {0} /\ MaxChunks \in Nat
  /\ Cores <= SeedStride /\ MaxChunks <= SeedStride

ASSUME KernelAssumption == Hits \subseteq Int /\ NumBins \in Nat \ {0}

Launchable ==
  {"fractal", "optimize", "ai.synth", "ai.batch_infer", "data.transform", "montecarlo",
   "hashcrack", "ai.infer", "ai.eval", "ai.graph"}
Pooled == {"montecarlo", "hashcrack"}
Modelled == {"ai.synth", "ai.batch_infer", "ai.infer", "ai.eval", "ai.graph"}   \* that ask a model

Size(tile) == tile.to - tile.from
FirstItems(tile, k) == [i \in 1..k |-> tile.from + i - 1]

-----------------------------------------------------------------------------
(* The AI backend. *)

\* _detect_ai_backend: the local model first, then the keys, or the disclosed fallback.
DetectBackend ==
  IF NoLLM THEN "fallback"
  ELSE IF "ollama" \in Reachable THEN "ollama"
  ELSE IF "openai" \in Reachable THEN "openai"
  ELSE IF "anthropic" \in Reachable THEN "anthropic"
  ELSE "fallback"

\* _ai_one: any real backend may fail a call, and nobody catches that; the fallback never fails.
CallsMayFail == DetectBackend # "fallback"

\* Which replies may be unusable: any of a model's, none of the fallback's.
Garblings(tile) == IF DetectBackend = "fallback" THEN {{}} ELSE SUBSET (tile.from..(tile.to - 1))

-----------------------------------------------------------------------------
(* The kinds that go through their items in order: their output for the items done. *)

\* The first of equal candidates is kept.
Better(best, item) == IF best = {} \/ \A b \in best : Score[item] > Score[b] THEN {item} ELSE best

\* best_index, as a set: nothing evaluated is the code's index -1.
Optimize(done) ==
  [best |-> FoldLeft(Better, {}, done), evaluated |-> Len(done)]

\* Rows of an image, numbered from row_start.
Fractal(tile, done) == [start |-> tile.from, rows |-> done]

\* Records from start_index on; an unusable reply is replaced by the stub of its own index.
Synth(tile, done) == [start |-> tile.from, rows |-> done]

\* One result per item: the transformed items, or the completions of the prompts.
Transform(done) == [results |-> done]
Infer(done) == [results |-> done]

\* Iterations of a kernel, whichever device they run on.
Render(done) == [iters |-> Len(done)]

Clamp(score) == IF score < 0 THEN 0 ELSE IF score > 10 THEN 10 ELSE score

\* _ai_eval_one: an unusable reply is a score of 0, any other is forced into 0..10.
Graded(item, garbled) ==
  [item |-> item, label |-> Reply[item].label,
   score |-> IF item \in garbled THEN 0 ELSE Clamp(Reply[item].score)]

Eval(done, garbled) == [results |-> [i \in DOMAIN done |-> Graded(done[i], garbled)]]

Fresh(names, seen) ==
  FoldLeft(LAMBDA list, name : IF Contains(list, name) THEN list ELSE Append(list, name), seen, names)

\* _ai_graph_one: an unusable reply extracts nothing.  Nodes appear once, edges as often as found.
Graph(done, garbled) ==
  FoldLeft(LAMBDA graph, item :
             IF item \in garbled THEN graph
             ELSE [nodes |-> Fresh(Doc[item].nodes, graph.nodes),
                   edges |-> graph.edges \o Doc[item].edges],
           [nodes |-> << >>, edges |-> << >>], done)

\* EXECUTORS
Output(kind, tile, done, garbled) ==
  CASE kind = "optimize" -> Optimize(done)
    [] kind = "fractal" -> Fractal(tile, done)
    [] kind = "ai.synth" -> Synth(tile, done)
    [] kind = "ai.eval" -> Eval(done, garbled)
    [] kind = "ai.graph" -> Graph(done, garbled)
    [] kind = "data.transform" -> Transform(done)
    [] kind = "render" -> Render(done)
    [] OTHER -> Infer(done)

-----------------------------------------------------------------------------
(* The pooled kinds. *)

\* Both cut a tile into more chunks than cores, so that should_yield is heard soon.
NumChunks(kind, size) ==
  LET many == IF kind = "montecarlo" THEN (size + ChunkSize - 1) \div ChunkSize
              ELSE size \div ChunkSize + 1
      few == IF many < MaxChunks THEN many ELSE MaxChunks
  IN IF Cores > few THEN Cores ELSE few

\* The non-empty chunks, in order; number is the c that goes into a Monte-Carlo seed.
Chunks(kind, tile) ==
  LET ranges == EvenRanges(Size(tile), NumChunks(kind, Size(tile))) IN
  [c \in {c \in DOMAIN ranges : ranges[c][1] < ranges[c][2]} |->
     [number |-> c - 1, from |-> tile.from + ranges[c][1], to |-> tile.from + ranges[c][2]]]

\* A chunk of paths draws from a random stream of its own; the stream numbers its paths.
Mutant_Stream(tile, chunk) == tile.seed + chunk.number

Stream(tile, chunk) == tile.seed * SeedStride + chunk.number

\* The bin of the return at the end of path k of a stream: any function of the two will do.
Bin(stream, k) == (stream + k * k) % NumBins

Histogram(tile, chunk) ==
  [b \in 0..(NumBins - 1) |->
     Cardinality({k \in 1..Size(chunk) : Bin(Stream(tile, chunk), k) = b})]

AddUp(hists) == [b \in 0..(NumBins - 1) |-> Total([i \in DOMAIN hists |-> hists[i][b]])]

\* parts: the chunks whose results came back, in that order.
Montecarlo(tile, parts) ==
  [paths |-> Total([i \in DOMAIN parts |-> Size(parts[i])]),
   hist |-> AddUp([i \in DOMAIN parts |-> Histogram(tile, parts[i])])]

\* _hash_chunk stops at its first hit.
FirstHit(chunk) == {n \in Hits : chunk.from <= n /\ n < chunk.to
                                  /\ \A m \in Hits : m < n => m < chunk.from}
Tried(chunk) == IF FirstHit(chunk) = {} THEN Size(chunk)
                ELSE (CHOOSE n \in FirstHit(chunk) : TRUE) - chunk.from + 1

\* The first of some finds that is one: a nonce is a set, empty if there is none.
FirstFound(nonces) ==
  LET found == {i \in DOMAIN nonces : nonces[i] # {}} IN
  IF found = {} THEN {} ELSE nonces[Min(found)]

\* The winner is the first hit that came back.
Hashcrack(parts) ==
  [nonce |-> FirstFound([i \in DOMAIN parts |-> FirstHit(parts[i])]),
   tried |-> Total([i \in DOMAIN parts |-> Tried(parts[i])])]

PooledOutput(kind, tile, parts) ==
  IF kind = "montecarlo" THEN Montecarlo(tile, parts) ELSE Hashcrack(parts)

\* The orders in which some of n chunks can come back: results arrive as processes finish, and
\* the exception of a chunk, or of the whole pool when a process dies, is passed over.
Arrivals(n) == {s \in UNION {[1..k -> 1..n] : k \in 0..n} : IsInjective(s)}

-----------------------------------------------------------------------------
(* execute *)

NoOutput == [none |-> TRUE]

\* What a run comes back with.  whole: every item of the tile was worked on.
Ran(status, output, whole) == [status |-> status, output |-> output, whole |-> whole]
Yielded == Ran("yielded", NoOutput, FALSE)   \* a partial output is not kept
Failed == Ran("failed", NoOutput, FALSE)

UsesPool(kind, tile) == Cores > 1 /\ Len(Chunks(kind, tile)) > 1

\* _parallel_map: in a pool lost results are only missing; in this process an exception is raised.
RunPooled(kind, tile) ==
  LET chunks == Chunks(kind, tile)
      orders == IF UsesPool(kind, tile) THEN Arrivals(Len(chunks)) ELSE {[i \in DOMAIN chunks |-> i]}
  IN {Yielded, Failed} \cup
     {Ran("completed", PooledOutput(kind, tile, [i \in DOMAIN o |-> chunks[o[i]]]),
          DOMAIN o = DOMAIN chunks) : o \in orders}

\* A call of a model's, or data.transform given an operation it does not know.
MayRaise(kind) == (kind \in Modelled /\ CallsMayFail) \/ kind = "data.transform"

RunInOrder(kind, tile) ==
  {Yielded} \cup (IF MayRaise(kind) THEN {Failed} ELSE {}) \cup
  {Ran("completed", Output(kind, tile, FirstItems(tile, Size(tile)), garbled), TRUE) :
     garbled \in IF kind \in Modelled THEN Garblings(tile) ELSE {{}}}

Execute(kind, tile) ==
  IF kind \in Pooled THEN RunPooled(kind, tile) ELSE RunInOrder(kind, tile)

=============================================================================
