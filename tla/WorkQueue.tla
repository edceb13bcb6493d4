------------------------------ MODULE WorkQueue ------------------------------
(***************************************************************************)
(* What the orchestrator promises its clients and workers, without time,   *)
(* requests, routing or registration: a queue of jobs, each held by one    *)
(* worker at a time, a worker holding one job at a time, and a ledger that *)
(* pays for a job once, to the worker that held it when it was completed.  *)
(* Module Orchestrator implements it.                                      *)
(***************************************************************************)
EXTENDS Sequences, Naturals

CONSTANTS Workers, NoWorker, Jobs, Pay(_)

VARIABLES
  state,    \* [Jobs -> {"absent", "queued", "leased", "completed"}]
  holder,   \* who holds the job, or completed it
  paid      \* the ledger

queueVars == <<state, holder, paid>>

Init ==
  /\ state = [j \in Jobs |-> "absent"]
  /\ holder = [j \in Jobs |-> NoWorker]
  /\ paid = << >>

Submit(j) ==
  /\ state[j] = "absent"
  /\ state' = [state EXCEPT ![j] = "queued"]
  /\ UNCHANGED <<holder, paid>>

Lease(j, w) ==
  /\ state[j] = "queued"
  /\ \A k \in Jobs : state[k] = "leased" => holder[k] # w
  /\ state' = [state EXCEPT ![j] = "leased"]
  /\ holder' = [holder EXCEPT ![j] = w]
  /\ UNCHANGED paid

\* Any leased jobs may go back: reaped, yielded, failed, refused or disconnected.
Requeue(S) ==
  /\ \A j \in S : state[j] = "leased"
  /\ state' = [j \in Jobs |-> IF j \in S THEN "queued" ELSE state[j]]
  /\ holder' = [j \in Jobs |-> IF j \in S THEN NoWorker ELSE holder[j]]
  /\ UNCHANGED paid

Complete(j) ==
  /\ state[j] = "leased"
  /\ state' = [state EXCEPT ![j] = "completed"]
  /\ paid' = Append(paid, [worker |-> holder[j], job |-> j, credits |-> Pay(j)])
  /\ UNCHANGED holder

Next ==
  \/ \E j \in Jobs : Submit(j)
  \/ \E j \in Jobs, w \in Workers : Lease(j, w)
  \/ \E S \in SUBSET Jobs : Requeue(S)
  \/ \E j \in Jobs : Complete(j)

Spec == Init /\ [][Next]_queueVars

=============================================================================
