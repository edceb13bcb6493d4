----------------------------- MODULE WorkerProofs -----------------------------
(***************************************************************************)
(* Proofs about the execution boundary of Isolation, about the yield       *)
(* reflex of YieldWatch, for any number of watcher slots and any           *)
(* threshold, and about the whole worker of module Worker: it is a yield   *)
(* reflex and an execution boundary at once, so everything proved of       *)
(* either holds of it, and of both together.                               *)
(*                                                                         *)
(* That nothing outlives a job is carried by an invariant on the client:   *)
(* as long as there was no mishap, only the boundary in use holds code,    *)
(* and none once its client has ended.  OneWatcher is not inductive: what  *)
(* makes it so is the phase of the main loop, which decides whether a      *)
(* watcher may live at all and what the stop event holds.                  *)
(***************************************************************************)
EXTENDS Worker, TLAPS

-----------------------------------------------------------------------------
(* The execution boundary. *)


\* Where the worker holds a client that may still run.
Attended == {"poll", "look", "stop", "reap"}

\* The job runs where the call is, and only under a client that lives.
ClientInv ==
  ~mishap =>
    /\ \A b \in Boundaries : code[b] # "none" => b = at /\ client = "running"
    /\ step \notin Attended => client # "running"
    /\ step \in Attended => (governed <=> at # "docker")
    /\ step = "reap" /\ outcome # "ok" => client # "running"

\* The boundaries a call has tried are ones its arguments allow, the one it is about to use too; a
\* new call has tried none.
TriedInv ==
  /\ BoundaryRespected
  /\ step = "idle" => tried = {}
  /\ step \in Attended \cup {"judge"} => at \in tried

\* Calls without the fairness of the worker and its surroundings, on which nothing here rests.
IsolationSafety == IsolationInit /\ [][IsolationNext]_isolationVars

-----------------------------------------------------------------------------

\* Killing the code of a run and removing a container keep the table of the code well-typed.
LEMMA KilledType ==
  ASSUME IsolationTypeOK
  PROVE  Killed \in [Boundaries -> {"none", "pending", "running"}]
BY DEF IsolationTypeOK, Killed

LEMMA RemovalKeepsType ==
  ASSUME IsolationTypeOK, RemoveContainer
  PROVE  code' \in [Boundaries -> {"none", "pending", "running"}]
<1>1. CASE code.docker = "running"
  <2>1. code' = [code EXCEPT !["docker"] = "none"]
    BY <1>1 DEF RemoveContainer
  <2>. QED  BY <2>1 DEF IsolationTypeOK
<1>2. CASE code.docker # "running"
  BY <1>2 DEF RemoveContainer, IsolationTypeOK
<1>. QED  BY <1>1, <1>2

\* Every step of the worker, its boundaries or the clock keeps the types.
LEMMA TypesKept == IsolationSafety => []IsolationTypeOK
<1>1. IsolationInit => IsolationTypeOK
  <2> SUFFICES ASSUME IsolationInit PROVE IsolationTypeOK
    OBVIOUS
  <2>1. job \in [hostSide: BOOLEAN, allowUnsandboxed: BOOLEAN]
    BY DEF IsolationInit
  <2>2. at \in Boundaries
    BY DEF IsolationInit, Boundaries
  <2>. QED  BY <2>1, <2>2 DEF IsolationInit, IsolationTypeOK
<1>2. IsolationTypeOK /\ [IsolationNext]_isolationVars => IsolationTypeOK'
  <2> SUFFICES ASSUME IsolationTypeOK, [IsolationNext]_isolationVars PROVE IsolationTypeOK'
    OBVIOUS
  <2> USE DEF IsolationTypeOK, callVars, runVars
  <2>1. ASSUME NEW h \in BOOLEAN, NEW u \in BOOLEAN, Call(h, u) PROVE IsolationTypeOK'
    <3>1. "mxc" \in Boundaries
      BY DEF Boundaries
    <3>2. job' \in [hostSide: BOOLEAN, allowUnsandboxed: BOOLEAN]
      BY <2>1 DEF Call
    <3>. QED  BY <2>1, <3>1, <3>2 DEF Call
  <2>2. CASE CallStep
    <3>1. at # "host" => NextBoundary[at] \in Boundaries
      BY DEF NextBoundary, Boundaries
    <3>2. CASE PassOver
      BY <3>1, <3>2 DEF PassOver
    <3>3. CASE Refuse
      BY <3>3 DEF Refuse
    <3>4. CASE Launch
      BY <3>4 DEF Launch
    <3>5. CASE SeesClient
      BY <3>5 DEF SeesClient
    <3>6. CASE Look
      BY <3>6 DEF Look, Verdict
    <3>7. CASE StopContainer \/ GiveUpContainer
      <4>1. RemoveContainer
        BY <3>7 DEF StopContainer, GiveUpContainer
      <4>2. code' \in [Boundaries -> {"none", "pending", "running"}]
        BY <4>1, RemovalKeepsType
      <4>3. CASE StopContainer
        <5>1. client' \in {client, "failed"} /\ step' \in {"stop", "reap"}
          BY <4>3 DEF StopContainer
        <5>2. UNCHANGED <<job, at, tried, outcome, result, mishap, governed, output, late, yielding>>
          BY <4>3 DEF StopContainer
        <5>. QED  BY <4>2, <5>1, <5>2
      <4>4. CASE GiveUpContainer
        <5>1. client' = "failed" /\ step' = "reap" /\ mishap' = TRUE
          BY <4>4 DEF GiveUpContainer
        <5>2. UNCHANGED <<job, at, tried, outcome, result, governed, output, late, yielding>>
          BY <4>4 DEF GiveUpContainer
        <5>. QED  BY <4>2, <5>1, <5>2
      <4>. QED  BY <3>7, <4>3, <4>4
    <3>8. CASE CloseJobObject
      <4>1. code' \in [Boundaries -> {"none", "pending", "running"}]
        BY <3>8, KilledType DEF CloseJobObject
      <4>. QED  BY <3>8, <4>1 DEF CloseJobObject
    <3>9. CASE Reap
      BY <3>9 DEF Reap
    <3>10. CASE FallBack
      BY <3>1, <3>10 DEF FallBack, InfraFailure
    <3>11. CASE Return
      BY <3>11, KilledType DEF Return
    <3>12. CASE Finish
      BY <3>12 DEF Finish, Boundaries
    <3>. QED
      BY <2>2, <3>2, <3>3, <3>4, <3>5, <3>6, <3>7, <3>8, <3>9, <3>10, <3>11, <3>12 DEF CallStep
  <2>3. ASSUME NEW b \in Boundaries, CodeStarts(b) PROVE IsolationTypeOK'
    BY <2>3 DEF CodeStarts
  <2>4. CASE StartFails \/ BoundaryDies \/ ConnectionLost \/ JobCompletes \/ JobRaises
    <3>1. CASE StartFails
      BY <3>1, KilledType DEF StartFails
    <3>4. CASE BoundaryDies
      BY <3>4, KilledType DEF BoundaryDies
    <3>5. CASE ConnectionLost
      BY <3>5 DEF ConnectionLost
    <3>2. CASE JobRaises
      BY <3>2, KilledType DEF JobRaises
    <3>3. CASE JobCompletes
      <4>1. output' \in BOOLEAN
        BY <3>3 DEF JobCompletes
      <4>. QED  BY <3>3, <4>1, KilledType DEF JobCompletes
    <3>. QED  BY <2>4, <3>1, <3>2, <3>3, <3>4, <3>5
  <2>5. CASE DeadlinePasses \/ EmployeeReturns \/ UNCHANGED isolationVars
    <3>1. CASE DeadlinePasses
      BY <3>1 DEF DeadlinePasses
    <3>2. CASE EmployeeReturns
      BY <3>2 DEF EmployeeReturns
    <3>3. CASE UNCHANGED isolationVars
      BY <3>3 DEF isolationVars
    <3>. QED  BY <2>5, <3>1, <3>2, <3>3
  <2>. QED  BY <2>1, <2>2, <2>3, <2>4, <2>5 DEF IsolationNext
<1>. QED  BY <1>1, <1>2, PTL DEF IsolationSafety

\* The call, the client and the code of the job keep their types.
THEOREM IsolationTypeCorrect == IsolationSpec => []IsolationTypeOK
BY TypesKept DEF IsolationSpec, IsolationSafety

-----------------------------------------------------------------------------

\* The worker gives a boundary up only when its client has ended, and kills the code before it
\* stops waiting for the client (_stop_container, _stop_mxc, close).
LEMMA WorkerKeepsClient ==
  ASSUME IsolationTypeOK, ClientInv, CallStep
  PROVE  ClientInv'
<1> USE DEF ClientInv, IsolationTypeOK, Boundaries, Attended, runVars
<1>1. CASE PassOver \/ Refuse
  BY <1>1 DEF PassOver, Refuse
<1>10. CASE Finish
  BY <1>10 DEF Finish
<1>2. CASE Launch
  BY <1>2 DEF Launch
<1>3. CASE SeesClient \/ Look
  BY <1>3 DEF SeesClient, Look, Verdict
<1>4. CASE StopContainer
  BY <1>4 DEF StopContainer, RemoveContainer
<1>5. CASE GiveUpContainer
  BY <1>5 DEF GiveUpContainer
<1>6. CASE CloseJobObject
  BY <1>6 DEF CloseJobObject, Killed
<1>7. CASE Reap
  BY <1>7 DEF Reap
<1>8. CASE FallBack
  BY <1>8 DEF FallBack
<1>9. CASE Return
  BY <1>9 DEF Return, Killed
<1>. QED  BY <1>1, <1>2, <1>3, <1>4, <1>5, <1>6, <1>7, <1>8, <1>9, <1>10 DEF CallStep

\* What happens around the worker ends code no later than its client, unless it is a mishap.
LEMMA SurroundingsKeepClient ==
  ASSUME IsolationTypeOK, ClientInv,
         \/ \E h, u \in BOOLEAN : Call(h, u)
         \/ \E b \in Boundaries : CodeStarts(b)
         \/ StartFails \/ BoundaryDies \/ ConnectionLost \/ JobCompletes \/ JobRaises
         \/ DeadlinePasses \/ EmployeeReturns \/ UNCHANGED isolationVars
  PROVE  ClientInv'
<1> USE DEF ClientInv, IsolationTypeOK, Boundaries, Attended, callVars, runVars
<1>1. CASE \E h, u \in BOOLEAN : Call(h, u)
  BY <1>1 DEF Call
<1>2. CASE \E b \in Boundaries : CodeStarts(b)
  BY <1>2 DEF CodeStarts
<1>3. CASE StartFails \/ BoundaryDies \/ JobCompletes \/ JobRaises
  BY <1>3 DEF StartFails, BoundaryDies, JobCompletes, JobRaises, Killed
<1>4. CASE ConnectionLost
  BY <1>4 DEF ConnectionLost
<1>5. CASE DeadlinePasses \/ EmployeeReturns \/ UNCHANGED isolationVars
  BY <1>5 DEF DeadlinePasses, EmployeeReturns, isolationVars
<1>. QED  BY <1>1, <1>2, <1>3, <1>4, <1>5

\* As long as there was no mishap the client of the boundary in use is the only one with code.
LEMMA CodeEndsWithCall == IsolationSafety => []NothingOutlivesJob
<1>1. IsolationInit => ClientInv
  BY DEF IsolationInit, ClientInv, Attended, Boundaries
<1>2. IsolationTypeOK /\ ClientInv /\ [IsolationNext]_isolationVars => ClientInv'
  BY WorkerKeepsClient, SurroundingsKeepClient DEF IsolationNext
<1>3. ClientInv => NothingOutlivesJob
  BY DEF ClientInv, NothingOutlivesJob, Attended
<1>. QED  BY <1>1, <1>2, <1>3, TypesKept, PTL DEF IsolationSafety

\* Without a mishap no code of a job survives the call, nor runs in two boundaries at once
\* (run_in_isolation, _stop_container, _stop_mxc, JobHandle.kill).
THEOREM JobsEndWithTheirCall == IsolationSpec => []NothingOutlivesJob
BY CodeEndsWithCall DEF IsolationSpec, IsolationSafety

-----------------------------------------------------------------------------

\* Every launch is one the arguments of the call allow, whatever was passed over before it.
LEMMA TriedKept ==
  ASSUME IsolationTypeOK, TriedInv, [IsolationNext]_isolationVars
  PROVE  TriedInv'
<1> USE DEF TriedInv, BoundaryRespected, IsolationTypeOK, Attended
<1>1. CASE \E h, u \in BOOLEAN : Call(h, u)
  BY <1>1 DEF Call
<1>2. CASE Launch
  BY <1>2 DEF Launch, Refused, Boundaries
<1>5. CASE Finish
  BY <1>5 DEF Finish
<1>3. CASE CallStep /\ ~Launch /\ ~Finish
  <2>1. UNCHANGED <<job, tried>>
    BY <1>3 DEF CallStep, PassOver, Refuse, SeesClient, Look, StopContainer, GiveUpContainer,
      CloseJobObject, Reap, FallBack, Return
  <2>2. step' \in Attended \cup {"judge"} => step \in Attended /\ at' = at
    BY <1>3 DEF CallStep, PassOver, Refuse, SeesClient, Look, StopContainer, GiveUpContainer,
      CloseJobObject, Reap, FallBack, Return
  <2>3. step' # "idle"
    BY <1>3 DEF CallStep, PassOver, Refuse, SeesClient, Look, StopContainer, GiveUpContainer,
      CloseJobObject, Reap, FallBack, Return
  <2>. QED  BY <2>1, <2>2, <2>3
<1>4. CASE \/ \E b \in Boundaries : CodeStarts(b)
           \/ StartFails \/ BoundaryDies \/ ConnectionLost \/ JobCompletes \/ JobRaises
           \/ DeadlinePasses \/ EmployeeReturns \/ UNCHANGED isolationVars
  <2>1. UNCHANGED <<job, tried, step, at>>
    BY <1>4 DEF CodeStarts, StartFails, BoundaryDies, ConnectionLost, JobCompletes, JobRaises,
      DeadlinePasses, EmployeeReturns, isolationVars, callVars
  <2>. QED  BY <2>1
<1>. QED  BY <1>1, <1>2, <1>3, <1>4, <1>5 DEF IsolationNext

\* What a call has tried, its arguments allow.
LEMMA BoundaryKept == IsolationSafety => []BoundaryRespected
<1>1. IsolationInit => TriedInv
  BY DEF IsolationInit, TriedInv, BoundaryRespected, Attended
<1>2. TriedInv => BoundaryRespected
  BY DEF TriedInv
<1>. QED  BY <1>1, <1>2, TriedKept, TypesKept, PTL DEF IsolationSafety

\* A job that must be isolated never reaches the host, one for the host no container
\* (run_in_isolation).
THEOREM BoundariesAreRespected == IsolationSpec => []BoundaryRespected
BY BoundaryKept DEF IsolationSpec, IsolationSafety

-----------------------------------------------------------------------------

\* A boundary is only chosen, and a call only begins, while nothing has been decided and no client
\* is left that could still answer.
ChoiceInv ==
  /\ step \in {"idle", "choose"} => outcome = "ok" /\ client # "running" /\ ~(client = "ok" /\ output)
  /\ step = "judge" /\ at # "host" => client # "running"

\* A fallback is the only way back to the choice, and it needs a broken boundary
\* (_run_docker, _run_mxc).
LEMMA ChoiceKept ==
  ASSUME IsolationTypeOK, ChoiceInv, [IsolationNext]_isolationVars
  PROVE  ChoiceInv'
<1> USE DEF ChoiceInv, IsolationTypeOK
<1>1. CASE \E h, u \in BOOLEAN : Call(h, u)
  BY <1>1 DEF Call
<1>2. CASE FallBack
  BY <1>2 DEF FallBack, InfraFailure, runVars
<1>3. CASE Reap
  BY <1>3 DEF Reap, runVars
<1>4. CASE CallStep /\ ~FallBack /\ ~Reap
  <2>1. CASE PassOver
    BY <2>1 DEF PassOver, runVars
  <2>2. CASE ~PassOver
    BY <1>4, <2>2 DEF CallStep, Refuse, Launch, SeesClient, Look, StopContainer, GiveUpContainer,
      CloseJobObject, Return, Finish
  <2>. QED  BY <2>1, <2>2
<1>5. CASE \/ \E b \in Boundaries : CodeStarts(b)
           \/ DeadlinePasses \/ EmployeeReturns \/ UNCHANGED isolationVars
  BY <1>5 DEF CodeStarts, DeadlinePasses, EmployeeReturns, isolationVars, callVars, runVars
<1>6. CASE StartFails \/ BoundaryDies \/ ConnectionLost \/ JobCompletes \/ JobRaises
  BY <1>6 DEF StartFails, BoundaryDies, ConnectionLost, JobCompletes, JobRaises, callVars
<1>. QED  BY <1>1, <1>2, <1>3, <1>4, <1>5, <1>6 DEF IsolationNext

\* Only a launch adds a boundary to those tried, and it comes before any answer.
LEMMA AnswerKept == IsolationSafety => AnswerIsFinal
<1>1. IsolationInit => ChoiceInv
  BY DEF IsolationInit, ChoiceInv
<1>2. ASSUME IsolationTypeOK, ChoiceInv, [IsolationNext]_isolationVars,
             outcome # "ok" \/ (client = "ok" /\ output)
      PROVE  tried' \subseteq tried
  <2>1. CASE \E h, u \in BOOLEAN : Call(h, u)
    BY <2>1 DEF Call
  <2>2. CASE Launch
    BY <1>2, <2>2 DEF Launch, ChoiceInv
  <2>3. CASE CallStep /\ ~Launch
    BY <2>3 DEF CallStep, PassOver, Refuse, SeesClient, Look, StopContainer, GiveUpContainer,
      CloseJobObject, Reap, FallBack, Return, Finish
  <2>4. CASE \/ \E b \in Boundaries : CodeStarts(b)
             \/ StartFails \/ BoundaryDies \/ ConnectionLost \/ JobCompletes \/ JobRaises
             \/ DeadlinePasses \/ EmployeeReturns \/ UNCHANGED isolationVars
    BY <2>4 DEF CodeStarts, StartFails, BoundaryDies, ConnectionLost, JobCompletes, JobRaises,
      DeadlinePasses, EmployeeReturns, isolationVars, callVars
  <2>. QED  BY <1>2, <2>1, <2>2, <2>3, <2>4 DEF IsolationNext
<1>3. IsolationTypeOK /\ ChoiceInv /\ [IsolationNext]_isolationVars
        => [outcome # "ok" \/ (client = "ok" /\ output) => tried' \subseteq tried]_isolationVars
  BY <1>2
<1>. QED
  BY <1>1, <1>3, ChoiceKept, TypesKept, PTL DEF IsolationSafety, AnswerIsFinal

\* A run that was preempted, timed out or answered is not followed by another of the same call
\* (_run_docker, _run_mxc).
THEOREM AnswersAreFinal == IsolationSpec => AnswerIsFinal
BY AnswerKept DEF IsolationSpec, IsolationSafety

-----------------------------------------------------------------------------
(* The yield reflex. *)

\* Where no watcher is left: the join of the last iteration has seen it end.
Unwatched == {"idle", "start", "spawn"}
\* Where the watcher started for this iteration is at work.
Watched == {"poll", "run", "ended", "clear", "stop"}

AtMostOne == \A j, k \in Watchers : watcher[j] # "none" /\ watcher[k] # "none" => j = k

PhaseInv ==
  /\ loop \in Unwatched => \A k \in Watchers : watcher[k] = "none"
  /\ loop \in Watched => ~stopping /\ \E k \in Watchers : watcher[k] # "none"
  /\ AtMostOne

\* The reflex without its fairness, on which nothing here rests.
YieldSafety == Init /\ [][Next]_vars

-----------------------------------------------------------------------------

\* Every step of the loop and of its watchers keeps the types.
LEMMA YieldTypesKept == YieldSafety => []TypeOK
<1>0. Sustained \in Nat /\ 0 \in 0..Sustained
  BY YieldAssumption, SMT DEF YieldAssumption
<1>1. Init => TypeOK
  BY <1>0 DEF Init, TypeOK
<1>2. TypeOK /\ [Next]_vars => TypeOK'
  <2> SUFFICES ASSUME TypeOK, [Next]_vars PROVE TypeOK'
    OBVIOUS
  <2> USE <1>0 DEF TypeOK
  <2>1. CASE MainLoop
    BY <2>1 DEF MainLoop, Admit, StopOldWatcher, StartWatcher, NoWork, StartJob, FinishJob,
      YieldJob, ClearRunning, ClearYield, StopWatcher, JoinWatcher, Goto, StopEvent
  <2>2. ASSUME NEW k \in Watchers, Watch(k) PROVE TypeOK'
    <3>1. LoopHead \in {"none", "waiting"}
      BY DEF LoopHead
    <3>2. AtMost(over + 1, Sustained) \in 0..Sustained
      BY DEF AtMost
    <3>3. CASE WakeUp(k)
      BY <3>3 DEF WakeUp
    <3>4. CASE Sample(k)
      <4>1. over' \in 0..Sustained
        BY <3>2, <3>4 DEF Sample
      <4>2. watcher' \in [Watchers -> {"none", "waiting", "sampling", "setting"}]
        BY <3>1, <3>4 DEF Sample
      <4>. QED  BY <3>4, <4>1, <4>2 DEF Sample
    <3>5. CASE SetYield(k)
      BY <3>1, <3>5 DEF SetYield
    <3>. QED  BY <2>2, <3>3, <3>4, <3>5 DEF Watch
  <2>3. CASE DemandChanges
    BY <2>3 DEF DemandChanges
  <2>4. CASE UNCHANGED vars
    BY <2>4 DEF vars
  <2>. QED  BY <2>1, <2>2, <2>3, <2>4 DEF Next
<1>. QED  BY <1>1, <1>2, PTL DEF YieldSafety

\* The events, the counters and the places of the threads keep their types (WorkerAgent,
\* AdaptiveGovernor).
THEOREM YieldTypeCorrect == Spec => []TypeOK
BY YieldTypesKept DEF Spec, YieldSafety

-----------------------------------------------------------------------------

\* The main loop starts a watcher only where none lives and leaves the join only when the thread
\* has ended, so the phases are kept (start_yield_watcher, stop_yield_watcher).
LEMMA MainLoopKeepsPhases ==
  ASSUME TypeOK, PhaseInv, ~SlowSamples, MainLoop
  PROVE  PhaseInv'
<1> USE DEF PhaseInv, AtMostOne, Unwatched, Watched, Goto, TypeOK
<1>1. CASE StartWatcher
  <2>1. PICK k \in Watchers : watcher' = [watcher EXCEPT ![k] = "waiting"]
    BY <1>1 DEF StartWatcher
  <2>2. \A j \in Watchers : watcher[j] = "none"
    BY <1>1 DEF StartWatcher
  <2>3. \A j \in Watchers : watcher'[j] # "none" <=> j = k
    BY <2>1, <2>2
  <2>. QED  BY <1>1, <2>3 DEF StartWatcher
<1>2. CASE StopOldWatcher \/ StopWatcher
  <2>1. \A j \in Watchers : watcher'[j] # "none" => watcher[j] # "none"
    BY <1>2 DEF StopOldWatcher, StopWatcher, StopEvent
  <2>2. loop' \in {"spawn", "join"} /\ (loop' = "spawn" => loop = "start")
    BY <1>2 DEF StopOldWatcher, StopWatcher
  <2>. QED  BY <2>1, <2>2
<1>3. CASE JoinWatcher
  BY <1>3 DEF JoinWatcher, Joined
<1>4. CASE Admit
  BY <1>4 DEF Admit
<1>5. CASE NoWork \/ StartJob \/ FinishJob \/ YieldJob \/ ClearRunning \/ ClearYield
  <2>1. loop \in Watched /\ loop' \in Watched /\ UNCHANGED <<watcher, stopping>>
    BY <1>5 DEF NoWork, StartJob, FinishJob, YieldJob, ClearRunning, ClearYield
  <2>. QED  BY <2>1
<1>. QED  BY <1>1, <1>2, <1>3, <1>4, <1>5 DEF MainLoop

\* A watcher leaves on its own only when it finds the stop event set, which the loop does in no
\* phase that needs it (watch).
LEMMA WatchersKeepPhases ==
  ASSUME TypeOK, PhaseInv, NEW k \in Watchers, Watch(k)
  PROVE  PhaseInv'
<1> USE DEF PhaseInv, AtMostOne, Unwatched, Watched, TypeOK
<1>1. UNCHANGED <<loop, stopping>> /\ watcher[k] # "none"
  BY DEF Watch, WakeUp, Sample, SetYield
<1>2. \A j \in Watchers : j # k => watcher'[j] = watcher[j]
  BY DEF Watch, WakeUp, Sample, SetYield
<1>3. ~stopping => watcher'[k] # "none"
  BY DEF Watch, WakeUp, Sample, SetYield, LoopHead
<1>. QED  BY <1>1, <1>2, <1>3

\* The phases decide who watches.
LEMMA WatcherKept == ~SlowSamples /\ YieldSafety => []OneWatcher
<1> SUFFICES ASSUME ~SlowSamples PROVE YieldSafety => []OneWatcher
  OBVIOUS
<1>1. Init => PhaseInv
  BY DEF Init, PhaseInv, AtMostOne, Unwatched, Watched
<1>2. TypeOK /\ PhaseInv /\ [Next]_vars => PhaseInv'
  <2> SUFFICES ASSUME TypeOK, PhaseInv, [Next]_vars PROVE PhaseInv'
    OBVIOUS
  <2>1. CASE MainLoop
    BY <2>1, MainLoopKeepsPhases
  <2>2. ASSUME NEW k \in Watchers, Watch(k) PROVE PhaseInv'
    BY <2>2, WatchersKeepPhases
  <2>3. CASE DemandChanges \/ UNCHANGED vars
    BY <2>3 DEF DemandChanges, vars, PhaseInv, AtMostOne
  <2>. QED  BY <2>1, <2>2, <2>3 DEF Next
<1>3. PhaseInv => OneWatcher
  BY DEF PhaseInv, AtMostOne, OneWatcher, Watched
<1>. QED  BY <1>1, <1>2, <1>3, YieldTypesKept, PTL DEF YieldSafety

\* While every join succeeds, a job that runs has one watcher, and only one, which nobody has told
\* to stop (start_yield_watcher, stop_yield_watcher, run_guarded).
THEOREM WatcherIsUnique == ~SlowSamples /\ Spec => []OneWatcher
BY WatcherKept DEF Spec, YieldSafety

-----------------------------------------------------------------------------
(* The worker: both at once. *)

\* A call of run_in_isolation is under way only while the loop is in run_job, and the loop goes on
\* only when it has returned.
CallInJob ==
  /\ loop \in {"ended", "clear"} => step = "returned"
  /\ loop \notin {"run", "ended", "clear"} => step = "idle"

\* What the worker does is a step of the yield reflex: its calls end when the flag is up, or by
\* themselves.
LEMMA WorkerStepIsReflex ==
  ASSUME [WorkerNext]_workerVars
  PROVE  [Next]_vars
<1>1. CASE MainThread
  <2>1. CASE AroundCall
    BY <2>1 DEF AroundCall, Next, MainLoop
  <2>2. CASE StartCall
    BY <2>2 DEF StartCall, Call, loopVars, vars
  <2>3. CASE InCall
    <3>1. UNCHANGED loopVars
      BY <2>3 DEF InCall
    <3>2. UNCHANGED yielding
      BY <2>3 DEF InCall, CallStep, PassOver, Refuse, Launch, SeesClient, Look, StopContainer,
        GiveUpContainer, CloseJobObject, Reap, FallBack, Return, Finish
    <3>. QED  BY <3>1, <3>2 DEF loopVars, vars
  <2>4. CASE EndJob
    BY <2>4 DEF EndJob, Next, MainLoop
  <2>5. CASE Leave
    BY <2>5 DEF Leave, Next, MainLoop
  <2>. QED  BY <1>1, <2>1, <2>2, <2>3, <2>4, <2>5 DEF MainThread
<1>2. CASE Threads \/ DemandChanges
  BY <1>2 DEF Threads, Next
<1>3. CASE Surroundings /\ UNCHANGED loopVars
  <2>1. UNCHANGED yielding
    BY <1>3 DEF Surroundings, CodeStarts, StartFails, BoundaryDies, ConnectionLost, JobCompletes,
      JobRaises, DeadlinePasses
  <2>. QED  BY <1>3, <2>1 DEF loopVars, vars
<1>4. CASE UNCHANGED workerVars
  BY <1>4 DEF workerVars, vars
<1>. QED  BY <1>1, <1>2, <1>3, <1>4 DEF WorkerNext

\* And a step of the execution boundary: a watcher that sets the flag is the employee who returns.
LEMMA WorkerStepIsBoundary ==
  ASSUME TypeOK, [WorkerNext]_workerVars
  PROVE  [IsolationNext]_isolationVars
<1>1. UNCHANGED boxVars /\ UNCHANGED yielding => UNCHANGED isolationVars
  BY DEF boxVars, isolationVars, callVars, runVars
<1>2. CASE MainThread
  <2>1. CASE AroundCall
    <3>1. UNCHANGED boxVars /\ UNCHANGED yielding
      BY <2>1 DEF AroundCall, Admit, StopOldWatcher, StartWatcher, NoWork, StartJob, ClearRunning,
        StopWatcher, JoinWatcher
    <3>. QED  BY <1>1, <3>1
  <2>2. CASE StartCall
    BY <2>2 DEF StartCall, IsolationNext
  <2>3. CASE InCall
    BY <2>3 DEF InCall, IsolationNext
  <2>4. CASE EndJob
    <3>1. UNCHANGED boxVars /\ UNCHANGED yielding
      BY <2>4 DEF EndJob, YieldJob, FinishJob
    <3>. QED  BY <1>1, <3>1
  <2>5. CASE Leave
    BY <2>5 DEF Leave, IsolationNext, CallStep
  <2>. QED  BY <1>2, <2>1, <2>2, <2>3, <2>4, <2>5 DEF MainThread
<1>3. CASE Threads /\ UNCHANGED boxVars
  <2>1. yielding' = yielding \/ yielding' = TRUE
    BY <1>3 DEF Threads, Watch, WakeUp, Sample, SetYield
  <2>2. UNCHANGED <<callVars, runVars>>
    BY <1>3 DEF boxVars, callVars, runVars
  <2>3. CASE yielding' # yielding
    BY <2>1, <2>2, <2>3 DEF EmployeeReturns, IsolationNext, TypeOK
  <2>4. CASE yielding' = yielding
    BY <2>2, <2>4 DEF isolationVars
  <2>. QED  BY <2>3, <2>4
<1>4. CASE DemandChanges /\ UNCHANGED boxVars
  BY <1>1, <1>4 DEF DemandChanges
<1>5. CASE Surroundings
  BY <1>5 DEF Surroundings, IsolationNext
<1>6. CASE UNCHANGED workerVars
  BY <1>1, <1>6 DEF workerVars, vars
<1>. QED  BY <1>2, <1>3, <1>4, <1>5, <1>6 DEF WorkerNext

\* The loop and the call move together.
LEMMA CallInJobKept ==
  ASSUME CallInJob, [WorkerNext]_workerVars
  PROVE  CallInJob'
<1>1. CASE AroundCall
  <2>1. step' = step
    BY <1>1 DEF AroundCall, boxVars
  <2>. QED
    BY <1>1, <2>1 DEF CallInJob, AroundCall, Goto, Admit, StopOldWatcher, StartWatcher, NoWork,
      StartJob, ClearRunning, StopWatcher, JoinWatcher
<1>2. CASE StartCall \/ InCall
  BY <1>2 DEF CallInJob, StartCall, InCall, loopVars
<1>3. CASE EndJob
  BY <1>3 DEF CallInJob, EndJob, YieldJob, FinishJob, Goto, boxVars
<1>4. CASE Leave
  BY <1>4 DEF CallInJob, Leave, ClearYield, Finish, Goto
<1>5. CASE (Threads \/ DemandChanges) /\ UNCHANGED boxVars
  BY <1>5 DEF CallInJob, Threads, Watch, WakeUp, Sample, SetYield, DemandChanges, boxVars
<1>6. CASE Surroundings /\ UNCHANGED loopVars
  BY <1>6 DEF CallInJob, Surroundings, CodeStarts, StartFails, BoundaryDies, ConnectionLost,
    JobCompletes, JobRaises, DeadlinePasses, loopVars, callVars
<1>7. CASE UNCHANGED workerVars
  BY <1>7 DEF CallInJob, workerVars, vars, boxVars
<1>. QED  BY <1>1, <1>2, <1>3, <1>4, <1>5, <1>6, <1>7 DEF WorkerNext, MainThread

\* The worker is a yield reflex (ReflexIsImplemented without its fairness) ...
LEMMA WorkerIsReflex == WorkerSpec => YieldSafety
<1>1. WorkerInit => Init
  BY DEF WorkerInit
<1>. QED  BY <1>1, WorkerStepIsReflex, PTL DEF WorkerSpec, YieldSafety

\* ... and an execution boundary.
LEMMA WorkerIsBoundary == WorkerSpec => IsolationSafety
<1>1. WorkerInit => IsolationInit
  BY DEF WorkerInit
<1>. QED
  BY <1>1, WorkerIsReflex, YieldTypesKept, WorkerStepIsBoundary, PTL DEF WorkerSpec, IsolationSafety

\* What the worker's threads do to each other's events and to the job keeps every type (agent.py,
\* governor.py, runner.py, mxc.py).
THEOREM WorkerTyped == WorkerSpec => []TypeOK /\ []IsolationTypeOK
BY WorkerIsReflex, WorkerIsBoundary, YieldTypesKept, TypesKept

\* With real calls in the place of free choices, as without, a job that runs is watched by one
\* thread that nobody has told to stop (start_yield_watcher, stop_yield_watcher, run_guarded).
THEOREM WorkerIsWatched == ~SlowSamples /\ WorkerSpec => []OneWatcher
BY WorkerIsReflex, WatcherKept

\* Whenever the yield flag goes up and whatever the boundaries do, no code of a job survives its
\* call, no job reaches a boundary its arguments exclude, and a preempted or answered run is the
\* last of its call (run_in_isolation, _run_docker, _run_mxc, JobHandle.kill).
THEOREM WorkerKeepsBoundary ==
  WorkerSpec => []NothingOutlivesJob /\ []BoundaryRespected /\ AnswerIsFinal
BY WorkerIsBoundary, CodeEndsWithCall, BoundaryKept, AnswerKept

\* Outside run_job's call no code of any job is left, unless one of the three mishaps has happened:
\* a worker that polls for work, or waits at its gate, has given the machine back (run_guarded,
\* run_once, run_job).
THEOREM IdleWorkerRunsNothing ==
  WorkerSpec => [](~mishap /\ loop # "run" => \A b \in Boundaries : code[b] = "none")
<1>1. WorkerInit => CallInJob
  BY DEF WorkerInit, Init, IsolationInit, CallInJob
<1>2. TypeOK /\ CallInJob /\ NothingOutlivesJob
        => (~mishap /\ loop # "run" => \A b \in Boundaries : code[b] = "none")
  BY DEF CallInJob, NothingOutlivesJob
<1>. QED  BY <1>1, <1>2, CallInJobKept, WorkerTyped, WorkerKeepsBoundary, PTL DEF WorkerSpec

\* While the joins succeed, every call that is under way is watched: whoever waits in it for the
\* yield flag has a live thread that can set it (run_job, watch).
THEOREM CallsAreWatched ==
  ~SlowSamples /\ WorkerSpec
    => [](step \notin {"idle", "returned"} => ~stopping /\ \E k \in Watchers : watcher[k] # "none")
<1>1. WorkerInit => CallInJob
  BY DEF WorkerInit, Init, IsolationInit, CallInJob
<1>2. CallInJob /\ OneWatcher
        => (step \notin {"idle", "returned"} => ~stopping /\ \E k \in Watchers : watcher[k] # "none")
  BY DEF CallInJob, OneWatcher
<1>. QED  BY <1>1, <1>2, CallInJobKept, WorkerIsWatched, PTL DEF WorkerSpec

=============================================================================
