------------------------------ MODULE YieldWatch ------------------------------
(***************************************************************************)
(* How a worker gives the machine back: the main loop of WorkerAgent       *)
(* (run_guarded, run_once, run_job of src/worker/agent.py), the watcher    *)
(* threads it starts beside every job, the three events they share, and    *)
(* the sample counter of AdaptiveGovernor.active_now (governor.py).        *)
(*                                                                         *)
(* An Event.wait that is under way sees every set(), even one cleared at   *)
(* once; a watcher that is sampling sees only what the event holds when it *)
(* comes back to wait.  A watcher that outlives the join of one second is  *)
(* let go, and the next job clears the very event that told it to stop.    *)
(*                                                                         *)
(* Left out: what the job computes, and the thresholds: high says whether  *)
(* the employee's demand is over the yield line at the moment.  With the   *)
(* plain IdleGate in the governor's place one sample suffices.             *)
(***************************************************************************)
EXTENDS Naturals, FiniteSets, YieldFlag

CONSTANTS
  Watchers,      \* bound: watcher threads alive at once
  Sustained,     \* AdaptiveGovernor.sustained_samples: 3
  SlowSamples    \* whether active_now may take longer than the join waits

ASSUME YieldAssumption ==
  Sustained \in Nat \ {0} /\ SlowSamples \in BOOLEAN /\ IsFiniteSet(Watchers)

VARIABLES
  loop,         \* where the main loop is
  jobRunning,   \* event _job_running
  stopping,     \* event _yield_watcher_stop
  watcher,      \* where each watcher thread is
  over,         \* governor._over, which no job resets (capped at Sustained)
  high          \* the employee's demand is over the yield line

vars == <<loop, jobRunning, yielding, stopping, watcher, over, high>>

TypeOK ==
  /\ loop \in {"idle", "start", "spawn", "poll", "run", "ended", "clear", "stop", "join"}
  /\ jobRunning \in BOOLEAN /\ yielding \in BOOLEAN /\ stopping \in BOOLEAN /\ high \in BOOLEAN
  /\ watcher \in [Watchers -> {"none", "waiting", "sampling", "setting"}]
  /\ over \in 0..Sustained

Init ==
  /\ loop = "idle"
  /\ jobRunning = FALSE /\ yielding = FALSE /\ stopping = FALSE
  /\ watcher = [k \in Watchers |-> "none"]
  /\ over = 0 /\ high = FALSE

Goto(from, to) == loop = from /\ loop' = to

\* Event.set on the stop event: whoever waits on it leaves.
StopEvent ==
  /\ stopping' = TRUE
  /\ watcher' = [k \in Watchers |-> IF watcher[k] = "waiting" THEN "none" ELSE watcher[k]]

-----------------------------------------------------------------------------
(* The main loop. *)

\* run_guarded: should_run admits only below a line that lies under the yield line.
Admit ==
  /\ ~high
  /\ Goto("idle", "start")
  /\ UNCHANGED <<jobRunning, yielding, stopping, watcher, over, high>>

\* start_yield_watcher: stop_yield_watcher first, which has no thread to join any more.
StopOldWatcher ==
  /\ Goto("start", "spawn")
  /\ StopEvent
  /\ UNCHANGED <<jobRunning, yielding, over, high>>

\* The stop event is not cleared: the new thread finds it set and leaves at once.
Mutant_StartWatcher ==
  /\ Goto("spawn", "poll")
  /\ UNCHANGED <<jobRunning, yielding, stopping, watcher, over, high>>

\* The stop event is cleared and the new thread started.
StartWatcher ==
  /\ Goto("spawn", "poll")
  /\ stopping' = FALSE
  /\ \E k \in Watchers : watcher[k] = "none" /\ watcher' = [watcher EXCEPT ![k] = "waiting"]
  /\ UNCHANGED <<jobRunning, yielding, over, high>>

\* poll_once brings no job, or one that _verify_assignment refuses.
NoWork ==
  /\ Goto("poll", "stop")
  /\ UNCHANGED <<jobRunning, yielding, stopping, watcher, over, high>>

StartJob ==
  /\ Goto("poll", "run")
  /\ jobRunning' = TRUE
  /\ UNCHANGED <<yielding, stopping, watcher, over, high>>

FinishJob ==
  /\ Goto("run", "ended")
  /\ UNCHANGED <<jobRunning, yielding, stopping, watcher, over, high>>

\* The runner sees should_yield() between two chunks and gives up.
YieldJob ==
  /\ yielding
  /\ Goto("run", "ended")
  /\ UNCHANGED <<jobRunning, yielding, stopping, watcher, over, high>>

\* run_job's finally clears the two events one after the other.
ClearRunning ==
  /\ Goto("ended", "clear")
  /\ jobRunning' = FALSE
  /\ UNCHANGED <<yielding, stopping, watcher, over, high>>

ClearYield ==
  /\ Goto("clear", "stop")
  /\ yielding' = FALSE
  /\ UNCHANGED <<jobRunning, stopping, watcher, over, high>>

StopWatcher ==
  /\ Goto("stop", "join")
  /\ StopEvent
  /\ UNCHANGED <<jobRunning, yielding, over, high>>

Mutant_Joined == TRUE   \* stop_yield_watcher sets the event and does not wait

\* The join returns when the thread has ended, or after a second.
Joined == SlowSamples \/ \A k \in Watchers : watcher[k] = "none"

JoinWatcher ==
  /\ Joined
  /\ Goto("join", "idle")
  /\ UNCHANGED <<jobRunning, yielding, stopping, watcher, over, high>>

MainLoop ==
  \/ Admit \/ StopOldWatcher \/ StartWatcher \/ NoWork \/ StartJob \/ FinishJob \/ YieldJob
  \/ ClearRunning \/ ClearYield \/ StopWatcher \/ JoinWatcher

-----------------------------------------------------------------------------
(* A watcher thread. *)

\* Back at the head of its loop it waits, or leaves when the stop event is set.
LoopHead == IF stopping THEN "none" ELSE "waiting"

\* The counter saturates one sample late.
Mutant_AtMost(x, highest) == IF x <= highest THEN x ELSE highest + 1

\* The counter of the code grows on; from Sustained on it makes no difference.
AtMost(x, highest) == IF x <= highest THEN x ELSE highest

WakeUp(k) ==
  /\ watcher[k] = "waiting" /\ jobRunning
  /\ watcher' = [watcher EXCEPT ![k] = "sampling"]
  /\ UNCHANGED <<loop, jobRunning, yielding, stopping, over, high>>

\* active_now: one more sample over the line, or the count starts again.
Sample(k) ==
  /\ watcher[k] = "sampling"
  /\ over' = IF high THEN AtMost(over + 1, Sustained) ELSE 0
  /\ watcher' = [watcher EXCEPT ![k] = IF over' >= Sustained THEN "setting" ELSE LoopHead]
  /\ UNCHANGED <<loop, jobRunning, yielding, stopping, high>>

SetYield(k) ==
  /\ watcher[k] = "setting"
  /\ yielding' = TRUE
  /\ watcher' = [watcher EXCEPT ![k] = LoopHead]
  /\ UNCHANGED <<loop, jobRunning, stopping, over, high>>

Watch(k) == WakeUp(k) \/ Sample(k) \/ SetYield(k)

DemandChanges ==
  /\ high' = ~high
  /\ UNCHANGED <<loop, jobRunning, yielding, stopping, watcher, over>>

-----------------------------------------------------------------------------

Next == MainLoop \/ (\E k \in Watchers : Watch(k)) \/ DemandChanges

\* The threads run, and the runner looks at should_yield() again and again; a job need not end.
Fairness ==
  /\ \A k \in Watchers : WF_vars(Watch(k))
  /\ WF_vars(YieldJob)

Spec == Init /\ [][Next]_vars /\ Fairness

-----------------------------------------------------------------------------
(* Properties. *)

\* No two watchers live at once, and a job that runs is watched by a thread nobody has told to
\* stop: two would count every spike twice, none would never yield (start_yield_watcher,
\* stop_yield_watcher, run_guarded).
OneWatcher ==
  /\ \A j, k \in Watchers : watcher[j] # "none" /\ watcher[k] # "none" => j = k
  /\ loop = "run" => ~stopping /\ \E k \in Watchers : watcher[k] # "none"

=============================================================================
