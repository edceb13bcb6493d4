------------------------------- MODULE Isolation -------------------------------
(***************************************************************************)
(* One job inside its execution boundary: run_in_isolation and the three   *)
(* ways to run a job of src/isolation/runner.py and mxc.py, strongest      *)
(* first: an MXC container, a Docker container, a process on the host in a *)
(* Job Object.  A worker makes one call at a time, one after the other.    *)
(*                                                                         *)
(* What the worker holds is a client process (wxc-exec, the docker CLI, or *)
(* the job's own process); the job's code may start later than the client, *)
(* die before it, or outlive it.  Every 20 ms the worker looks at the      *)
(* client, at the yield flag and at the clock, in this order.              *)
(*                                                                         *)
(* The cached probes of MXC and the Docker daemon (30 s) are a free choice *)
(* here: what they found may have changed when the job is started.         *)
(*                                                                         *)
(* Three things go wrong that the worker does not notice (mishap): a       *)
(* container registers after _stop_container has given up on its client;   *)
(* assign_process fails, which is only swallowed; the docker CLI loses its *)
(* daemon while the container runs on.                                     *)
(*                                                                         *)
(* Left out: what a policy allows the job to touch, staging of files, and  *)
(* errors of the worker's own disk.  Mutant_ definitions are the ones      *)
(* after them with a plausible bug.                                        *)
(***************************************************************************)
EXTENDS YieldFlag

Boundaries == {"mxc", "docker", "host"}

VARIABLES
  job,        \* the arguments host_side and allow_unsandboxed
  step,       \* where the call is
  at,         \* the boundary it is trying
  tried,      \* history: the boundaries in which this call has launched the job
  client,     \* the process the worker holds
  code,       \* the job's code, by boundary
  governed,   \* the client is in a Job Object that kills it when closed
  output,     \* out.json exists where this boundary's run writes it
  outcome,    \* of the polling loop
  late,       \* this run's deadline has passed
  result,     \* what the call returns or raises
  mishap      \* history: one of the three mishaps has happened

callVars == <<job, step, at, tried, outcome, result, mishap>>
runVars  == <<client, code, governed, output, late>>
isolationVars == <<callVars, runVars, yielding>>

IsolationTypeOK ==
  /\ job \in [hostSide: BOOLEAN, allowUnsandboxed: BOOLEAN]
  /\ step \in {"idle", "choose", "poll", "look", "stop", "reap", "judge", "returned"}
  /\ at \in Boundaries /\ tried \subseteq Boundaries
  /\ client \in {"none", "running", "ok", "failed", "broken"}
  /\ code \in [Boundaries -> {"none", "pending", "running"}]
  /\ governed \in BOOLEAN /\ output \in BOOLEAN /\ late \in BOOLEAN /\ yielding \in BOOLEAN
  /\ mishap \in BOOLEAN
  /\ outcome \in {"ok", "yielded", "timeout"}
  /\ result \in {"none", "output", "yielded", "timeout", "failed", "refused"}

IsolationInit ==
  /\ job = [hostSide |-> FALSE, allowUnsandboxed |-> TRUE]
  /\ step = "idle" /\ at = "mxc" /\ tried = {}
  /\ client = "none" /\ code = [b \in Boundaries |-> "none"] /\ governed = FALSE
  /\ output = FALSE /\ outcome = "ok" /\ late = FALSE /\ yielding = FALSE /\ result = "none"
  /\ mishap = FALSE

-----------------------------------------------------------------------------
(* Choosing a boundary. *)

\* run_job calls run_in_isolation, in a fresh directory.  Code that an earlier call left running
\* is out of this one's reach.
Call(hostSide, allowUnsandboxed) ==
  /\ step = "idle"
  /\ job' = [hostSide |-> hostSide, allowUnsandboxed |-> allowUnsandboxed]
  /\ step' = "choose"
  /\ code' = [b \in Boundaries |-> "none"]
  /\ UNCHANGED <<at, tried, outcome, result, client, output, governed, late, yielding, mishap>>

\* Nothing comes after Docker.
Mutant_NextBoundary == [mxc |-> "docker", docker |-> "none"]

NextBoundary == [mxc |-> "docker", docker |-> "host"]

\* The probe finds no MXC, or no Docker daemon; or it does, and the container cannot be started
\* (_MxcInfraError of _popen_mxc, _DockerInfraError of _ensure_image).
PassOver ==
  /\ step = "choose" /\ at # "host"
  /\ at' = NextBoundary[at]
  /\ UNCHANGED <<job, step, tried, outcome, result, mishap, runVars, yielding>>

\* Only jobs that must run on the host are exempt, instead of none.
Mutant_Refused == ~job.allowUnsandboxed /\ ~job.hostSide

Refused == ~job.allowUnsandboxed

Refuse ==
  /\ step = "choose" /\ at = "host" /\ Refused
  /\ step' = "returned" /\ result' = "refused"
  /\ UNCHANGED <<job, at, tried, outcome, mishap, runVars, yielding>>

\* The host's process is the job itself; a container's code comes to life after its client.
Launch ==
  /\ step = "choose"
  /\ IF at = "host" THEN ~Refused ELSE ~job.hostSide
  /\ step' = "poll" /\ tried' = tried \cup {at}
  /\ client' = "running" /\ late' = FALSE /\ outcome' = "ok"
  /\ code' = [code EXCEPT ![at] = IF at = "host" THEN "running" ELSE "pending"]
  /\ governed' \in BOOLEAN /\ (governed' => at # "docker")
  /\ mishap' = (mishap \/ (at # "docker" /\ ~governed'))
  /\ output' = (output /\ at = "host")   \* Docker and the host share one out.json
  /\ UNCHANGED <<job, at, result, yielding>>

-----------------------------------------------------------------------------
(* The polling loop. *)

SeesClient ==
  /\ step = "poll"
  /\ step' = IF client = "running" THEN "look" ELSE "reap"
  /\ UNCHANGED <<job, at, tried, outcome, result, mishap, runVars, yielding>>

Mutant_Verdict == IF yielding THEN "yielded" ELSE "ok"   \* no deadline

\* should_yield() is asked first, then the clock.
Verdict == IF yielding THEN "yielded" ELSE IF late THEN "timeout" ELSE "ok"

Look ==
  /\ step = "look"
  /\ outcome' = Verdict
  /\ step' = IF Verdict = "ok" THEN "poll" ELSE "stop"
  /\ UNCHANGED <<job, at, tried, result, mishap, runVars, yielding>>

Killed == [code EXCEPT ![at] = "none"]

\* docker rm -f, which finds no container before it is registered.
RemoveContainer == code' = IF code.docker = "running" THEN [code EXCEPT !.docker = "none"] ELSE code

\* One docker rm -f and no second look at the client.
Mutant_StopContainer ==
  /\ step = "stop" /\ at = "docker"
  /\ RemoveContainer
  /\ client' = IF client = "running" THEN "broken" ELSE client
  /\ step' = "reap"
  /\ UNCHANGED <<job, at, tried, outcome, result, mishap, governed, output, late, yielding>>

\* _stop_container: docker rm -f again and again while the client lives, and once more after it.
StopContainer ==
  /\ step = "stop" /\ at = "docker"
  /\ RemoveContainer
  /\ client' = IF client = "running" /\ code.docker = "running" THEN "failed" ELSE client
  /\ step' = IF client = "running" THEN "stop" ELSE "reap"
  /\ UNCHANGED <<job, at, tried, outcome, result, mishap, governed, output, late, yielding>>

\* 15 s have passed: the client is killed, and with it the last who waits for the container.
GiveUpContainer ==
  /\ step = "stop" /\ at = "docker" /\ client = "running"
  /\ RemoveContainer
  /\ client' = "failed" /\ mishap' = TRUE
  /\ step' = "reap"
  /\ UNCHANGED <<job, at, tried, outcome, result, governed, output, late, yielding>>

\* Closing the Job Object kills the tree.  _stop_mxc also kills wxc-exec itself; JobHandle.kill
\* relies on the Job Object, waits a second and goes on.
CloseJobObject ==
  /\ step = "stop" /\ at # "docker"
  /\ code' \in {Killed, code} /\ (governed => code' = Killed) /\ (at = "host" /\ ~governed => code' = code)
  /\ client' = IF client = "running" /\ (governed \/ at = "mxc") THEN "failed" ELSE client
  /\ step' = "reap"
  /\ UNCHANGED <<job, at, tried, outcome, result, mishap, governed, output, late, yielding>>

\* communicate() returns once the client has ended; a preempted host job is not waited for.
Reap ==
  /\ step = "reap"
  /\ client # "running" \/ (at = "host" /\ outcome # "ok")
  /\ step' = "judge"
  /\ UNCHANGED <<job, at, tried, outcome, result, mishap, runVars, yielding>>

-----------------------------------------------------------------------------
(* What becomes of the run. *)

\* The container that was killed, left no output, looks like one that never ran.
Mutant_InfraFailure ==
  IF at = "docker" THEN client # "ok" /\ ~output ELSE at = "mxc" /\ client = "broken"

\* The boundary, not the job: MXC's messages may tell the two apart; for Docker a failed client without an output file is taken for one that never ran.
InfraFailure ==
  /\ outcome = "ok"
  /\ \/ at \in {"mxc", "docker"} /\ client = "broken"
     \/ at = "mxc" /\ client = "ok" /\ ~output
     \/ at = "docker" /\ client = "failed" /\ ~output

FallBack ==
  /\ step = "judge" /\ InfraFailure
  /\ step' = "choose" /\ at' = NextBoundary[at]
  /\ UNCHANGED <<job, tried, outcome, result, mishap, runVars, yielding>>

\* MXC ended early with a message that is neither a known one of its own nor a job's traceback.
UnknownFailure == outcome = "ok" /\ at = "mxc" /\ client = "broken"

Return ==
  /\ step = "judge" /\ (~InfraFailure \/ UnknownFailure)
  /\ step' = "returned"
  /\ result' = IF outcome # "ok" THEN outcome
               ELSE IF client = "ok" /\ output THEN "output" ELSE "failed"
  /\ code' = IF at = "host" /\ governed THEN Killed ELSE code   \* the finally closes the handle
  /\ UNCHANGED <<job, at, tried, outcome, mishap, client, governed, output, late, yielding>>

\* run_job's finally clears the yield flag; what the call knew of its run is gone with it.
Finish ==
  /\ step = "returned"
  /\ step' = "idle" /\ yielding' = FALSE
  /\ at' = "mxc" /\ tried' = {} /\ outcome' = "ok" /\ result' = "none"
  /\ client' = "none" /\ output' = FALSE /\ governed' = FALSE /\ late' = FALSE
  /\ UNCHANGED <<job, code, mishap>>

CallStep ==
  \/ PassOver \/ Refuse \/ Launch \/ SeesClient \/ Look \/ StopContainer \/ GiveUpContainer
  \/ CloseJobObject \/ Reap \/ FallBack \/ Return \/ Finish

-----------------------------------------------------------------------------
(* The boundaries, the job, the clock and the employee. *)

CodeStarts(b) ==
  /\ code[b] = "pending"
  /\ code' = [code EXCEPT ![b] = "running"]
  /\ UNCHANGED <<callVars, client, governed, output, late, yielding>>

\* The client ends before the job's code was ever started.
StartFails ==
  /\ client = "running" /\ code[at] = "pending"
  /\ client' = "broken" /\ code' = Killed
  /\ UNCHANGED <<callVars, governed, output, late, yielding>>

\* The runtime or the daemon dies and takes the job with it.
BoundaryDies ==
  /\ at # "host" /\ client = "running" /\ code[at] = "running"
  /\ client' = "broken" /\ code' = Killed
  /\ UNCHANGED <<callVars, governed, output, late, yielding>>

ConnectionLost ==
  /\ at = "docker" /\ client = "running" /\ code.docker = "running"
  /\ client' = "broken" /\ mishap' = TRUE
  /\ UNCHANGED <<job, step, at, tried, outcome, result, code, governed, output, late, yielding>>

\* jobkit writes out.json as its last act; what a container writes may not reach the host.
JobCompletes ==
  /\ client = "running" /\ code[at] = "running"
  /\ client' = "ok" /\ code' = Killed /\ output' \in {TRUE, at = "host"}
  /\ UNCHANGED <<callVars, governed, late, yielding>>

\* jobkit lets an exception of the job end it, before out.json is opened; memory running out
\* has the same effect.
JobRaises ==
  /\ client = "running" /\ code[at] = "running"
  /\ client' = "failed" /\ code' = Killed
  /\ UNCHANGED <<callVars, governed, output, late, yielding>>

DeadlinePasses ==
  /\ ~late /\ client = "running"
  /\ late' = TRUE
  /\ UNCHANGED <<callVars, client, code, governed, output, yielding>>

EmployeeReturns ==
  /\ ~yielding
  /\ yielding' = TRUE
  /\ UNCHANGED <<callVars, runVars>>

IsolationNext ==
  \/ \E h, u \in BOOLEAN : Call(h, u)
  \/ CallStep
  \/ \E b \in Boundaries : CodeStarts(b)
  \/ StartFails \/ BoundaryDies \/ ConnectionLost \/ JobCompletes \/ JobRaises
  \/ DeadlinePasses \/ EmployeeReturns

\* The worker runs, time passes, and a container that was asked for comes up or fails.
IsolationFairness ==
  /\ WF_isolationVars(CallStep)
  /\ WF_isolationVars(DeadlinePasses)
  /\ \A b \in Boundaries : WF_isolationVars(CodeStarts(b))

IsolationSpec == IsolationInit /\ [][IsolationNext]_isolationVars /\ IsolationFairness

-----------------------------------------------------------------------------
(* Properties. *)

\* Unless one of the mishaps has happened, the code of a job runs in one boundary at a time, and
\* none of it is left when the call has returned: not in a container that registered while it was
\* being killed, not in the boundary that was given up for the next (_stop_container, _stop_mxc,
\* JobHandle.kill).
NothingOutlivesJob ==
  ~mishap =>
    /\ \A b, c \in Boundaries : code[b] # "none" /\ code[c] # "none" => b = c
    /\ step \in {"idle", "returned"} => \A b \in Boundaries : code[b] = "none"

\* A job for the host is never put in a container, and one that must be isolated never runs on
\* the host, whatever fails on the way (run_in_isolation).
BoundaryRespected ==
  /\ job.hostSide => tried \subseteq {"host"}
  /\ ~job.allowUnsandboxed => "host" \notin tried

\* A run that was preempted, timed out or answered is final: it is not mistaken for a broken
\* boundary, and the job is not started again in the next one (_run_docker, _run_mxc).
AnswerIsFinal ==
  [][outcome # "ok" \/ (client = "ok" /\ output) => tried' \subseteq tried]_isolationVars

\* Every call returns, although the job may hang and the boundaries may break (the deadlines).
EveryCallReturns == step # "idle" ~> step = "idle"

\* A job whose own code failed is not run again on a weaker boundary (the docstrings of
\* run_in_isolation and _DockerInfraError).
FailureIsNotRerun == [][outcome = "ok" /\ client = "failed" => tried' \subseteq tried]_isolationVars

=============================================================================
