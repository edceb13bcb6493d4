-------------------------------- MODULE Worker --------------------------------
(***************************************************************************)
(* A worker at work: the main loop and the yield watcher of YieldWatch     *)
(* around the execution boundary of Isolation.  What joins the two is      *)
(* WorkerAgent.run_job (src/worker/agent.py): it sets _job_running, calls  *)
(* run_in_isolation with should_yield, which reads the _yield event, and   *)
(* clears both events when the call has returned.  YieldWatch leaves open  *)
(* when a job ends, Isolation when the flag goes up; here neither is free. *)
(*                                                                         *)
(* Left out: the runner of a worker without isolation, which runs the job  *)
(* in the worker's own process.                                            *)
(***************************************************************************)
EXTENDS YieldWatch, Isolation

boxVars == <<job, step, at, tried, client, code, governed, output, outcome, late, result, mishap>>
loopVars == <<loop, jobRunning, stopping, watcher, over, high>>
workerVars == <<vars, boxVars>>

WorkerInit == Init /\ IsolationInit

-----------------------------------------------------------------------------
(* The main thread. *)

\* Everything before and after run_job's call.
AroundCall ==
  /\ \/ Admit \/ StopOldWatcher \/ StartWatcher \/ NoWork \/ StartJob
     \/ ClearRunning \/ StopWatcher \/ JoinWatcher
  /\ UNCHANGED boxVars

\* A job for the GPU, of an AI kind or with a Job Object for its sandbox goes to the host.
StartCall ==
  /\ loop = "run"
  /\ \E hostSide, allowUnsandboxed \in BOOLEAN : Call(hostSide, allowUnsandboxed)
  /\ UNCHANGED loopVars

InCall ==
  /\ loop = "run" /\ step # "returned"
  /\ CallStep
  /\ UNCHANGED loopVars

\* The call returned early and says so, or it returned or raised.
EndJob ==
  /\ step = "returned"
  /\ IF result = "yielded" THEN YieldJob ELSE FinishJob
  /\ UNCHANGED boxVars

Mutant_Leave ==
  /\ Goto("clear", "stop")
  /\ step' = "idle"
  /\ UNCHANGED <<jobRunning, stopping, watcher, over, high, yielding,
                 job, at, tried, client, code, governed, output, outcome, late, result, mishap>>

\* run_job's finally ends with the yield flag down.
Leave == ClearYield /\ Finish

MainThread == AroundCall \/ StartCall \/ InCall \/ EndJob \/ Leave

-----------------------------------------------------------------------------
(* The watcher threads, the boundaries, the clock and the employee. *)

Threads == \E k \in Watchers : Watch(k)

Surroundings ==
  \/ \E b \in Boundaries : CodeStarts(b)
  \/ StartFails \/ BoundaryDies \/ ConnectionLost
  \/ JobCompletes \/ JobRaises \/ DeadlinePasses

WorkerNext ==
  \/ MainThread
  \/ (Threads \/ DemandChanges) /\ UNCHANGED boxVars
  \/ Surroundings /\ UNCHANGED loopVars

\* The threads run, and a container that was asked for comes up or fails.
WorkerFairness ==
  /\ WF_workerVars(MainThread)
  /\ \A k \in Watchers : WF_workerVars(Watch(k) /\ UNCHANGED boxVars)
  /\ \A b \in Boundaries : WF_workerVars(CodeStarts(b) /\ UNCHANGED loopVars)

DeadlinesPass == WF_workerVars(DeadlinePasses /\ UNCHANGED loopVars)

WorkerSpec == WorkerInit /\ [][WorkerNext]_workerVars /\ WorkerFairness

-----------------------------------------------------------------------------
(* Properties. *)

\* Demand that stays up while a job runs ends with the job over and none of its code left in any
\* boundary, even if no deadline ever comes to help: three samples of the watcher, the flag, the
\* poll of should_yield and the removal of the container or the tree have to follow each other,
\* whatever else happens meanwhile (active_now, watch, run_job, _stop_container, _stop_mxc,
\* JobHandle.kill).
MachineGivenBack ==
  (loop = "run" /\ high) ~>
    (~high \/ mishap \/ (loop # "run" /\ \A b \in Boundaries : code[b] = "none"))

\* With the watcher's flag, too, every call returns, given only that deadlines pass.
CallsReturn == DeadlinesPass => EveryCallReturns

\* With this boundary in the place of its free choices the yield reflex does what YieldWatch says,
\* its fairness included: a job that is asked to give up ends, and the flag is down before the next
\* one may start (run_job, run_in_isolation).
ReflexIsImplemented == Spec

=============================================================================
