------------------------------ MODULE YieldFlag ------------------------------
(***************************************************************************)
(* What the yield watchers of a worker and the execution boundary of its   *)
(* job share.                                                              *)
(***************************************************************************)
VARIABLE yielding   \* WorkerAgent._yield, which should_yield() reads

=============================================================================
