-------------------------- MODULE OrchestratorProps --------------------------
(* What must hold of module Orchestrator, and its refinement of WorkQueue. *)
EXTENDS Orchestrator

\* The tables keep their column types, and every thread serves a well-formed request.
TypeOK ==
  /\ workers \in [Workers -> WorkerRow]
  /\ jobs \in [Jobs -> JobRow]
  /\ ledger \in Seq(LedgerRow)
  /\ inflight \in [Threads -> Request]

\* However many polls of one worker are in flight, it never holds two leases (jobs_next).
OneLeasePerWorker ==
  \A j, k \in Jobs : \A w \in Workers : HoldsJob(w, j) /\ HoldsJob(w, k) => j = k

\* The ledger and the jobs table agree: every completed job was paid for exactly once, to the
\* worker it names, by its manifest's price, and nothing else was paid for (results).
LedgerMatchesJobs ==
  /\ \A i \in DOMAIN ledger :
       LET row == ledger[i] IN
       /\ jobs[row.job].state = "completed"
       /\ jobs[row.job].holder = row.worker
       /\ row.credits = Manifest[row.job].units * (IF "gpu" \in Manifest[row.job].feats THEN 5 ELSE 1)
  /\ \A i, k \in DOMAIN ledger : ledger[i].job = ledger[k].job => i = k
  /\ \A j \in Jobs : jobs[j].state = "completed" => \E i \in DOMAIN ledger : ledger[i].job = j

\* A lease that ran out before any request now in flight can have read its clock is dead:
\* no result completes the job and no heartbeat extends it, the job only goes back to the
\* queue (results and heartbeat compare lease_expires with a clock read before write_lock).
ExpiredLeaseIsDead ==
  [][\A j \in Jobs :
       jobs[j].state = "leased" /\ jobs[j].left + MaxDelay <= 0
         => \/ jobs'[j].state = "queued"
            \/ jobs'[j].state = "leased" /\ jobs'[j].left <= jobs[j].left]_vars

\* Data above "public" is only ever handed to a device whose row the server still has, at a
\* tier cleared for it at the moment of the lease, however old the poll is (pick_job_for).
LeaseIsCleared ==
  [][\A j \in Jobs, w \in Workers :
       ~HoldsJob(w, j) /\ HoldsJob(w, j)' =>
         \/ Manifest[j].class = 0
         \/ workers[w].here /\ workers[w].tier >= Manifest[j].class]_vars

\* A device that was disconnected holds no job: its work is requeued at once and not stuck
\* until a lease expires (the docstring of disconnect_worker).
DisconnectedHoldsNothing == \A w \in Workers : ~workers[w].here => ~Busy(w)

\* An admin's tier stands: once pinned, only another POST /tier changes it while the worker
\* exists; an attestation verified before the pin does not override it (register).
PinnedTierStands ==
  [][\A w \in Workers :
       workers[w].pinned /\ workers'[w].here /\ workers'[w].tier # workers[w].tier
         => \E tier \in AdminTiers : SetTier(w, tier)]_vars

\* The dispatch core implements the abstract queue.
WQ == INSTANCE WorkQueue WITH
        Pay <- Credits,
        state <- [j \in Jobs |-> jobs[j].state],
        holder <- [j \in Jobs |-> jobs[j].holder],
        paid <- ledger
ImplementsWorkQueue == WQ!Spec

=============================================================================
