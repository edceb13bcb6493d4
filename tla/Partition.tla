------------------------------ MODULE Partition ------------------------------
(***************************************************************************)
(* How a workload is cut into tiles: src/workloads/partition.py and the    *)
(* two functions of orchestrator/app.py that ask the fleet how many tiles  *)
(* and how large.  A tile is a half-open range of items <<from, to>>.      *)
(*                                                                         *)
(* Shares and weights are floats in the code and exact here: a weight is   *)
(* 16000 times the code's, and a share the pair of quotient and remainder  *)
(* of (total * weight) by the sum of the weights.  Calls the code answers  *)
(* with ValueError (no tile, no weight) are not made.                      *)
(***************************************************************************)
EXTENDS Integers, Sequences, FiniteSets, SequencesExt

CONSTANT MaxTiles   \* MAX_WORKLOAD_TILES

Least(a, b) == IF a <= b THEN a ELSE b
Greatest(a, b) == IF a >= b THEN a ELSE b
Total(sizes) == FoldFunction(LAMBDA a, b : a + b, 0, sizes)

\* Some numbers, in increasing order.
InOrder(numbers) ==
  [j \in 1..Cardinality(numbers) |->
     CHOOSE i \in numbers : Cardinality({k \in numbers : k < i}) = j - 1]

-----------------------------------------------------------------------------
(* Ranges. *)

\* The last tile is as short as the division leaves it.
Mutant_EvenStart(total, n, i) == (i - 1) * (total \div n)

\* Where tile i starts: the tiles before it have base items each, the first extra ones one more.
EvenStart(total, n, i) == (i - 1) * (total \div n) + Least(i - 1, total % n)

EvenRanges(total, n) == [i \in 1..n |-> <<EvenStart(total, n, i), EvenStart(total, n, i + 1)>>]

\* The leftover goes to the smallest remainders: the sort is not reversed.
Mutant_Before(total, weights, i) ==
  LET sum == Total(weights)
      remainder(j) == (total * weights[j]) % sum IN
  {j \in DOMAIN weights : \/ remainder(j) < remainder(i)
                          \/ remainder(j) = remainder(i) /\ j > i}

\* The tiles before i in the order that hands out the leftover items: a larger remainder of the
\* share first, of equal ones the earlier tile.
Before(total, weights, i) ==
  LET sum == Total(weights)
      remainder(j) == (total * weights[j]) % sum IN
  {j \in DOMAIN weights : \/ remainder(j) > remainder(i)
                          \/ remainder(j) = remainder(i) /\ j < i}

WeightedSizes(total, weights) ==
  LET sum == Total(weights)
      floor == [i \in DOMAIN weights |-> (total * weights[i]) \div sum]
      leftover == total - Total(floor)
  IN [i \in DOMAIN weights |->
        floor[i] + IF Cardinality(Before(total, weights, i)) < leftover THEN 1 ELSE 0]

WeightedRanges(total, weights) ==
  LET sizes == WeightedSizes(total, weights)
      start(i) == Total(SubSeq(sizes, 1, i - 1))
  IN [i \in DOMAIN weights |-> <<start(i), start(i) + sizes[i]>>]

\* One turn of weighted_partition's loop: the first empty share borrows from the first largest.
Borrow(counts) ==
  LET empty == {i \in DOMAIN counts : counts[i] = 0}
      donor == CHOOSE i \in DOMAIN counts :
                 \A j \in DOMAIN counts :
                   counts[j] < counts[i] \/ (counts[j] = counts[i] /\ i <= j)
      first == CHOOSE i \in empty : \A j \in empty : i <= j
  IN IF empty = {} \/ counts[donor] <= 1 THEN counts
     ELSE [counts EXCEPT ![donor] = @ - 1, ![first] = @ + 1]

\* Each turn fills a share, so as many turns as there are shares end the loop.
WeightedPartition(total, weights) ==
  LET sizes == WeightedSizes(total, weights) IN
  IF total < Len(weights) THEN sizes
  ELSE FoldSet(LAMBDA turn, counts : Borrow(counts), sizes, DOMAIN weights)

-----------------------------------------------------------------------------
(* Tiles from the fleet: a sequence of the rows of its approved workers, in order of their ids. *)

UnknownRam == 0 - 1   \* free_ram_gb IS NULL

\* worker_weight, times 16000: capability, tenths to all of it by load, half to all of it by RAM.
WorkerWeight(row) ==
  LET class == IF row.class <= 0 THEN 1 ELSE row.class
      ram == IF row.ram = UnknownRam THEN 8 ELSE Least(row.ram, 8)
  IN class * (1000 - 9 * row.load) * (8 + ram)

NoWeights == << >>   \* the uniform split

Heterogeneous(weights) == \E i, j \in DOMAIN weights : weights[i] # weights[j]

\* _capability_tile_weights: only one tile per worker is weighted, and only in a mixed fleet.
TileWeights(fleet, n) ==
  LET weights == [i \in DOMAIN fleet |-> WorkerWeight(fleet[i])] IN
  IF fleet # << >> /\ Len(fleet) = n /\ Heterogeneous(weights) THEN weights ELSE NoWeights

OversubscribedTiles(workers, factor) ==
  Greatest(1, Least(Greatest(workers, 1) * Greatest(factor, 1), Greatest(MaxTiles, 1)))

\* _resolve_tile_count: n_tiles as asked (capped), or factor tiles per worker, or the default.
ResolveTileCount(fleet, request) ==
  IF request.explicit THEN Greatest(1, Least(request.tiles, MaxTiles))
  ELSE IF request.factor > 1 THEN OversubscribedTiles(Len(fleet), request.factor)
  ELSE request.tiles

=============================================================================
