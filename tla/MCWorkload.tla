------------------------------ MODULE MCWorkload ------------------------------
(***************************************************************************)
(* Small instances of Workload: a launch of every kind, split for fleets   *)
(* of up to three machines, with up to two tiles run to an end.            *)
(***************************************************************************)
EXTENDS Workload

Launch(kind, explicit, tiles, factor, size) ==
  [kind |-> kind, explicit |-> explicit, tiles |-> tiles, factor |-> factor, size |-> size,
   slice |-> 2, base |-> IF kind = "hashcrack" THEN 1 ELSE 0]

\* Splits of every sort: as many tiles as asked, as machines, as items, and more.
Splits ==
  {Launch("fractal", TRUE, tiles, 1, size) : tiles \in 1..6, size \in 1..9}
  \cup {Launch("fractal", FALSE, 3, factor, size) : factor \in 1..3, size \in {4, 5, 7}}
  \cup {Launch("montecarlo", TRUE, tiles, 1, size) : tiles \in 2..4, size \in {3, 7}}
  \cup {Launch("ai.batch_infer", TRUE, 2, 1, size) : size \in {0, 2, 5}}

\* Two tiles of every kind are run.
Runs == {Launch(kind, TRUE, 2, 1, 3) : kind \in Launchable} \cup {Launch("render", TRUE, 2, 1, 2)}

\* The orchestrator crashes; somebody edits the log.
Crashing == {Launch("data.transform", TRUE, 2, 1, 1), Launch("ai.eval", TRUE, 1, 1, 1)}
Tampering == {Launch("optimize", TRUE, 2, 1, 2)}

MCRequests == Splits \cup Runs \cup Crashing \cup Tampering
MCBound == [r \in MCRequests |->
  [leases |-> IF r \in Splits \ Runs THEN 0 ELSE IF r.kind = "ai.eval" /\ r \in Crashing THEN 3 ELSE 2,
   crashes |-> IF r \in Crashing THEN 1 ELSE 0,
   damages |-> IF r \in Tampering THEN 1 ELSE 0]]

Symmetry == Permutations(Workers)

Machine(class, load, ram) == [class |-> class, load |-> load, ram |-> ram]
MCFleets ==
  {<< >>, <<Machine(1, 0, 8), Machine(1, 0, UnknownRam)>>,
   <<Machine(5, 0, 8), Machine(1, 50, 4)>>,
   <<Machine(1, 100, 0), Machine(5, 10, 8), Machine(0, 0, UnknownRam)>>,
   <<Machine(1, 0, 8), Machine(1, 10, 8), Machine(1, 100, 0)>>}

MCScore == [i \in 0..8 |-> IF i \in {1, 2} THEN 5 ELSE i % 3]
MCReply == [i \in 0..8 |-> [label |-> IF i = 1 THEN "b" ELSE "a", score |-> 7 * i - 3]]
Edge(a, b) == [source |-> a, relation |-> "related_to", target |-> b]
MCDoc == [i \in 0..8 |->
  CASE i = 0 -> [nodes |-> <<"x", "y">>, edges |-> <<Edge("x", "y")>>]
    [] i = 1 -> [nodes |-> <<"y">>, edges |-> <<Edge("x", "y"), Edge("y", "z")>>]
    [] OTHER -> [nodes |-> <<"w", "y">>, edges |-> <<Edge("y", "z")>>]]

=============================================================================
