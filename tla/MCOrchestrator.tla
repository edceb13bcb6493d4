--------------------------- MODULE MCOrchestrator ---------------------------
(* Instances of Orchestrator for TLC. *)
EXTENDS OrchestratorProps, TLC

CONSTANTS w1, w2, t1, t2

Symmetry == Permutations(Workers) \cup Permutations(Threads)

\* Two public jobs: a challenge for the CPU, then a dearer one for the GPU.
PlainManifest ==
  (1 :> [feats |-> {}, ram |-> 0, class |-> 0, challenge |-> TRUE, units |-> 1]) @@
  (2 :> [feats |-> {"gpu"}, ram |-> 0, class |-> 0, challenge |-> FALSE, units |-> 2])

PlainCapabilities == {[feats |-> {"gpu"}, ram |-> 1, measureOnly |-> FALSE]}

\* Restricted data for the GPU, then confidential data needing RAM: a poll that may not have
\* the older job may still get the younger.
RoutedManifest ==
  (1 :> [feats |-> {"gpu"}, ram |-> 0, class |-> 3, challenge |-> FALSE, units |-> 1]) @@
  (2 :> [feats |-> {}, ram |-> 1, class |-> 2, challenge |-> FALSE, units |-> 1])

RoutedCapabilities ==
  {[feats |-> {}, ram |-> 1, measureOnly |-> FALSE],
   [feats |-> {"gpu"}, ram |-> 0, measureOnly |-> TRUE],
   [feats |-> {"gpu"}, ram |-> 0, measureOnly |-> FALSE]}

=============================================================================
