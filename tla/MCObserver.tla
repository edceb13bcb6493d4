----------------------------- MODULE MCObserver -----------------------------
(* Instances of Observer for TLC. *)
EXTENDS Observer, TLC

\* Launches and identities are interchangeable.
Symmetry == Permutations(Observers) \cup Permutations(Ids)

=============================================================================
