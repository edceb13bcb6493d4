------------------------------ MODULE Observer ------------------------------
(***************************************************************************)
(* The measurement observers of one machine (python -m worker              *)
(* --measure-only) and the server's summaries of what they measure:        *)
(* measurement_identity.py, profile_lock.py, profiler.py and               *)
(* run_measure_loop of worker/__main__.py; ingest_profile and              *)
(* disconnect_worker of orchestrator/app.py.                               *)
(*                                                                         *)
(* A scheduled task, a Startup entry and a foreground launch may start     *)
(* observers at the same time; all share an identity file and a profile    *)
(* file.  What a profile has learned is abstracted to the set of samples   *)
(* that went into it.  A file is replaced in one step (os.replace).        *)
(*                                                                         *)
(* An observer without a --url is one whose server never answers; one with *)
(* a --measurement-id starts at the lock.  Sensors that fail take no       *)
(* sample: no step here.                                                   *)
(***************************************************************************)
EXTENDS Integers, FiniteSets

CONSTANTS
  Observers,        \* launches that may exist at once
  Ids,              \* what uuid4 may return
  Nobody,           \* no observer
  NoId,             \* no identity
  MaxSamples,       \* bound: samples ever taken
  MaxPosts,         \* bound: POST /profile under way at once
  MaxFaults,        \* bound: faults, see Fault
  SaveEvery,        \* samples per local save: 60 s / interval
  PostEvery,        \* samples per upload: 300 s / interval
  RequireApproval   \* app created with require_approval

ASSUME ObserverAssumption ==
  /\ Nobody \notin Observers /\ NoId \notin Ids
  /\ MaxSamples \in Nat /\ MaxPosts \in Nat /\ MaxFaults \in Nat
  /\ SaveEvery \in Nat \ {0} /\ PostEvery \in Nat \ {0}
  /\ RequireApproval \in BOOLEAN

VARIABLES
  obs,      \* the observer processes
  idFile,   \* the observer-id file: whose identity, and whether its newline is there
  profile,  \* usage_profile.json
  kept,     \* samples in the usage_profile.corrupt-... files
  lock,     \* who holds the lock on usage_profile.json.lock
  taken,    \* number of samples taken on this machine
  rows,     \* workers: enrollment by identity
  central,  \* worker_profiles: the latest summary by identity ({}: no row)
  posts,    \* POST /profile requests past their authentication
  saved,    \* history: samples that were ever on the disk
  lateError,\* history: an identity was withdrawn after it could be read
  faults    \* number of faults so far

vars == <<obs, idFile, profile, kept, lock, taken, rows, central, posts, saved, lateError, faults>>

Samples == 1..MaxSamples
Early   == {"identity", "await", "create", "excl", "write", "sync", "lock"}
Loading == {"load", "blocked"}
Before  == {"probe", "join", "restore"}
Loop    == {"sample", "count", "save", "enroll", "post", "posted"}
Ending  == {"lastSave", "release"}
Measuring == Before \cup Loop \cup Ending   \* with a profile loaded
Holding   == Loading \cup Measuring          \* with the lock

Observer ==
  [at: {"off"} \cup Early \cup Holding, id: Ids \cup {NoId},
   mem: SUBSET Samples, samples: Nat, lastUpload: Nat,
   enrolled: {"no", "pending", "approved"}, closing: BOOLEAN]

Off == [at |-> "off", id |-> NoId, mem |-> {}, samples |-> 0, lastUpload |-> 0,
        enrolled |-> "no", closing |-> FALSE]

NoFile == [id |-> NoId, whole |-> FALSE]
Absent == [state |-> "absent", has |-> {}]

Init ==
  /\ obs = [o \in Observers |-> Off]
  /\ idFile = NoFile /\ profile = Absent /\ kept = {} /\ lock = Nobody /\ taken = 0
  /\ rows = [i \in Ids |-> "no"]
  /\ central = [i \in Ids |-> {}]
  /\ posts = {} /\ saved = {} /\ lateError = FALSE /\ faults = 0

disk   == <<profile, kept, saved>>
server == <<rows, central, posts>>

At(o, places) == obs[o].at \in places
Go(o, place)  == obs' = [obs EXCEPT ![o].at = place]
Exit(o)       == obs' = [obs EXCEPT ![o] = Off]

\* What may go wrong from outside: a process is killed or told to stop twice, an operation on a
\* file or a request fails, the profile is damaged, the device is disconnected.
Fault == faults < MaxFaults /\ faults' = faults + 1

-----------------------------------------------------------------------------
(* load_or_create_measurement_id.  Readers wait for the newline; in the    *)
(* end they see it or the launch fails.  Publishing is a hard link or,     *)
(* where links fail, an exclusive creation followed by the write.          *)

identity == <<disk, server, lock, taken>>

Launch(o) == At(o, {"off"}) /\ Go(o, "identity") /\ UNCHANGED <<identity, idFile, lateError, faults>>

Mutant_Complete == idFile # NoFile   \* whatever is in the file
Complete == idFile.whole

Adopt(o) ==
  /\ At(o, {"identity", "await"}) /\ Complete
  /\ obs' = [obs EXCEPT ![o].at = "lock", ![o].id = idFile.id]
  /\ UNCHANGED <<identity, idFile, lateError, faults>>

NoIdentityYet(o) ==
  /\ At(o, {"identity"}) /\ idFile = NoFile
  /\ Go(o, "create")
  /\ UNCHANGED <<identity, idFile, lateError, faults>>

\* Still incomplete after every attempt, or gone although it was there a moment ago.
IdentityRefused(o) ==
  /\ \/ At(o, {"identity", "await"}) /\ idFile # NoFile /\ ~idFile.whole
     \/ At(o, {"await"}) /\ idFile = NoFile
  /\ Exit(o)
  /\ UNCHANGED <<identity, idFile, lateError, faults>>

\* uuid4: an identity nothing knows of.
Fresh(i) ==
  /\ idFile.id # i /\ rows[i] = "no" /\ central[i] = {}
  /\ \A o \in Observers : obs[o].id # i
  /\ \A p \in posts : p.id # i

Link(o, i) ==
  /\ At(o, {"create"}) /\ idFile = NoFile /\ Fresh(i)
  /\ idFile' = [id |-> i, whole |-> TRUE]
  /\ obs' = [obs EXCEPT ![o].at = "lock", ![o].id = i]
  /\ UNCHANGED <<identity, lateError, faults>>

\* FileExistsError, or any other OSError.
LinkFails(o) ==
  /\ At(o, {"create"})
  /\ \/ idFile # NoFile /\ Go(o, "await")
     \/ Go(o, "excl")
  /\ UNCHANGED <<identity, idFile, lateError, faults>>

CreateExclusive(o, i) ==
  /\ At(o, {"excl"}) /\ idFile = NoFile /\ Fresh(i)
  /\ idFile' = [id |-> i, whole |-> FALSE]
  /\ Go(o, "write")
  /\ UNCHANGED <<identity, lateError, faults>>

CreateFails(o) ==
  /\ At(o, {"excl"}) /\ idFile # NoFile
  /\ Go(o, "await")
  /\ UNCHANGED <<identity, idFile, lateError, faults>>

WriteIdentity(o) ==
  /\ At(o, {"write"})
  /\ idFile' = [idFile EXCEPT !.whole = TRUE]
  /\ Go(o, "sync")
  /\ UNCHANGED <<identity, lateError, faults>>

SyncIdentity(o) ==
  /\ At(o, {"sync"})
  /\ obs' = [obs EXCEPT ![o].at = "lock", ![o].id = idFile.id]
  /\ UNCHANGED <<identity, idFile, lateError, faults>>

\* A failed write, flush or fsync unlinks the file, which others may have read by then.
WriteFails(o) ==
  /\ At(o, {"write", "sync"})
  /\ idFile' = NoFile
  /\ lateError' = (lateError \/ At(o, {"sync"}))
  /\ Fault
  /\ Exit(o)
  /\ UNCHANGED identity

Identify(o) ==
  \/ Launch(o) \/ Adopt(o) \/ NoIdentityYet(o) \/ IdentityRefused(o)
  \/ LinkFails(o) \/ CreateFails(o) \/ WriteIdentity(o) \/ SyncIdentity(o) \/ WriteFails(o)
  \/ \E i \in Ids : Link(o, i) \/ CreateExclusive(o, i)

-----------------------------------------------------------------------------
(* The lock, then UsageProfiler(path), then assert_writable.  A profile    *)
(* that cannot be read is moved aside; if even that fails, the launch ends *)
(* without touching it.                                                    *)

Mutant_LockIsFree(o) == TRUE   \* no lock
LockIsFree(o) == lock = Nobody

AcquireLock(o) ==
  /\ At(o, {"lock"})
  /\ \/ LockIsFree(o) /\ lock' = o /\ Go(o, "load")
     \/ ~LockIsFree(o) /\ UNCHANGED lock /\ Exit(o)
  /\ UNCHANGED <<idFile, disk, server, taken, lateError, faults>>

Load(o) ==
  /\ At(o, {"load"}) /\ profile.state # "unreadable"
  /\ obs' = [obs EXCEPT ![o].at = "probe", ![o].mem = profile.has]
  /\ UNCHANGED <<idFile, disk, lock, server, taken, lateError, faults>>

\* An unreadable profile, or a readable one whose reading failed.
Recover(o) ==
  /\ At(o, {"load"}) /\ profile.state # "absent"
  /\ kept' = kept \cup profile.has
  /\ profile' = Absent
  /\ Go(o, "probe")
  /\ IF profile.state = "good" THEN Fault ELSE UNCHANGED faults
  /\ UNCHANGED <<idFile, saved, lock, server, taken, lateError>>

RecoveryFails(o) ==
  /\ At(o, {"load"}) /\ profile.state # "absent"
  /\ Go(o, "blocked")
  /\ Fault
  /\ UNCHANGED <<idFile, disk, lock, server, taken, lateError>>

Probe(o) ==
  /\ At(o, {"probe"})
  /\ Go(o, "join")
  /\ UNCHANGED <<idFile, disk, lock, server, taken, lateError, faults>>

NotWritable(o) ==
  /\ \/ At(o, {"probe"}) /\ Fault
     \/ At(o, {"blocked"}) /\ UNCHANGED faults
  /\ lock' = Nobody
  /\ Exit(o)
  /\ UNCHANGED <<idFile, disk, server, taken, lateError>>

Start(o) ==
  AcquireLock(o) \/ Load(o) \/ Recover(o) \/ RecoveryFails(o) \/ Probe(o) \/ NotWritable(o)

-----------------------------------------------------------------------------
(* WorkerAgent.register and ensure_measurement_enrollment.                 *)

After(o) == IF obs[o].closing THEN "lastSave" ELSE "sample"

RowAfterRegister(i) ==
  IF rows[i] # "no" THEN rows[i] ELSE IF RequireApproval THEN "pending" ELSE "approved"

local == <<idFile, disk, lock, taken, lateError>>

\* main: one attempt before the loop.
Join(o) ==
  LET i == obs[o].id IN
  /\ At(o, {"join"})
  /\ rows' = [rows EXCEPT ![i] = RowAfterRegister(i)]
  /\ obs' = [obs EXCEPT ![o].at = "restore", ![o].enrolled = RowAfterRegister(i)]
  /\ UNCHANGED <<local, central, posts, faults>>

JoinFails(o) ==
  /\ At(o, {"join"})
  /\ Go(o, "restore")
  /\ UNCHANGED <<local, server, faults>>

Mutant_Due(o) ==   \* one sample late
  \/ obs[o].closing
  \/ obs[o].lastUpload = 0
  \/ obs[o].samples - obs[o].lastUpload > PostEvery
Due(o) ==
  \/ obs[o].closing
  \/ obs[o].lastUpload = 0
  \/ obs[o].samples - obs[o].lastUpload >= PostEvery

\* Register again if need be; otherwise a heartbeat tells of an approval or, with a 401, of a
\* row that is gone.
Enroll(o) ==
  LET i == obs[o].id
      status == CASE obs[o].enrolled = "no"       -> RowAfterRegister(i)
                  [] obs[o].enrolled = "pending"  -> rows[i]
                  [] obs[o].enrolled = "approved" -> "approved"
  IN
  /\ At(o, {"enroll"})
  /\ rows' = IF obs[o].enrolled = "no" THEN [rows EXCEPT ![i] = RowAfterRegister(i)] ELSE rows
  /\ obs' = [obs EXCEPT ![o].enrolled = status,
                        ![o].at = IF status = "approved" /\ Due(o) THEN "post" ELSE After(o)]
  /\ UNCHANGED <<local, central, posts, faults>>

EnrollFails(o) ==
  /\ At(o, {"enroll"}) /\ obs[o].enrolled # "approved"
  /\ Go(o, After(o))
  /\ Fault
  /\ UNCHANGED <<local, server>>

-----------------------------------------------------------------------------
(* run_measure_loop: sample, save, upload.                                 *)

Record(o) ==
  /\ At(o, {"sample"}) /\ taken < MaxSamples
  /\ taken' = taken + 1
  /\ obs' = [obs EXCEPT ![o].at = "count", ![o].mem = @ \cup {taken + 1}]
  /\ UNCHANGED <<idFile, disk, lock, server, lateError, faults>>

SaveDue(n) == n = 1 \/ n % SaveEvery = 0

Count(o) ==
  LET n == obs[o].samples + 1 IN
  /\ At(o, {"count"})
  /\ obs' = [obs EXCEPT ![o].samples = n, ![o].at = IF SaveDue(n) THEN "save" ELSE "sample"]
  /\ UNCHANGED <<local, server, faults>>

Saving == {"restore", "save", "lastSave"}

AfterSave(o) ==
  CASE At(o, {"restore"})  -> "sample"
    [] At(o, {"lastSave"}) -> "release"
    [] At(o, {"save"}) -> IF ~obs[o].closing THEN "enroll"
                          ELSE IF obs[o].samples > 0 /\ obs[o].lastUpload # obs[o].samples
                          THEN "enroll"
                          ELSE "lastSave"

\* UsageProfiler.save, in the loop, in its finally, and twice in main.
Save(o) ==
  /\ At(o, Saving)
  /\ profile' = [state |-> "good", has |-> obs[o].mem]
  /\ saved' = saved \cup obs[o].mem
  /\ Go(o, AfterSave(o))
  /\ UNCHANGED <<idFile, kept, lock, server, taken, lateError, faults>>

Mutant_AfterFailedSave(o) == AfterSave(o)   \* the result of _persist ignored
AfterFailedSave(o) ==
  CASE At(o, {"restore"})  -> "sample"
    [] At(o, {"lastSave"}) -> "release"
    [] At(o, {"save"})     -> After(o)

SaveFails(o) ==
  /\ At(o, Saving)
  /\ Go(o, AfterFailedSave(o))
  /\ Fault
  /\ UNCHANGED <<local, server>>

\* The profile already knows its availability: nothing to restore from telemetry.
NothingToRestore(o) ==
  /\ At(o, {"restore"})
  /\ Go(o, "sample")
  /\ UNCHANGED <<local, server, faults>>

\* report_profile; the server authenticates before it takes write_lock.
Post(o) ==
  /\ At(o, {"post"}) /\ rows[obs[o].id] = "approved" /\ Cardinality(posts) < MaxPosts
  /\ posts' = posts \cup {[from |-> o, id |-> obs[o].id, has |-> obs[o].mem]}
  /\ Go(o, "posted")
  /\ UNCHANGED <<local, rows, central, faults>>

\* 401 or 403: _clear_registration.
PostRefused(o) ==
  /\ At(o, {"post"}) /\ rows[obs[o].id] # "approved"
  /\ obs' = [obs EXCEPT ![o].enrolled = "no", ![o].at = After(o)]
  /\ UNCHANGED <<local, server, faults>>

\* The request never arrives, or its answer never does.
PostFails(o) ==
  /\ At(o, {"post", "posted"})
  /\ Go(o, After(o))
  /\ Fault
  /\ UNCHANGED <<local, server>>

Mutant_Answers(p) == TRUE   \* whoever sent it is still there
Answers(p) == At(p.from, {"posted"}) /\ obs[p.from].id = p.id /\ obs[p.from].mem = p.has

\* ingest_profile's write section.
Ingest(p) ==
  /\ posts' = posts \ {p}
  /\ central' = [central EXCEPT ![p.id] = p.has]
  /\ obs' = IF Answers(p)
            THEN [obs EXCEPT ![p.from].lastUpload = obs[p.from].samples,
                             ![p.from].at = After(p.from)]
            ELSE obs
  /\ UNCHANGED <<local, rows, faults>>

Measure(o) ==
  \/ Join(o) \/ JoinFails(o) \/ Enroll(o) \/ EnrollFails(o) \/ NothingToRestore(o)
  \/ Record(o) \/ Count(o) \/ Save(o) \/ SaveFails(o)
  \/ Post(o) \/ PostRefused(o) \/ PostFails(o)

-----------------------------------------------------------------------------
(* Ctrl-C (or the end of --once) in the loop leads to its finally; before  *)
(* the loop, or again in the finally, straight to that of main.  A killed  *)
(* process loses its lock to the operating system.                         *)

Interrupt(o) ==
  /\ At(o, Before \cup Loop)
  /\ IF At(o, Loop) /\ ~obs[o].closing
     THEN obs' = [obs EXCEPT ![o].closing = TRUE, ![o].at = "save"] /\ UNCHANGED faults
     ELSE Go(o, "lastSave") /\ Fault
  /\ UNCHANGED <<local, server>>

Release(o) ==
  /\ At(o, {"release"})
  /\ lock' = Nobody
  /\ Exit(o)
  /\ UNCHANGED <<idFile, disk, server, taken, lateError, faults>>

Kill(o) ==
  /\ ~At(o, {"off"})
  /\ lock' = IF lock = o THEN Nobody ELSE lock
  /\ Exit(o)
  /\ Fault
  /\ UNCHANGED <<idFile, disk, server, taken, lateError>>

Stop(o) == Interrupt(o) \/ Release(o) \/ Kill(o)

\* The profile's bytes are damaged from outside.
Damage ==
  /\ profile.state = "good"
  /\ profile' = [profile EXCEPT !.state = "unreadable"]
  /\ Fault
  /\ UNCHANGED <<obs, idFile, kept, lock, taken, server, saved, lateError>>

Approve(i) ==
  /\ rows[i] = "pending"
  /\ rows' = [rows EXCEPT ![i] = "approved"]
  /\ UNCHANGED <<obs, local, central, posts, faults>>

\* disconnect_worker deletes both rows in one write section.
Disconnect(i) ==
  /\ rows[i] # "no"
  /\ rows' = [rows EXCEPT ![i] = "no"]
  /\ central' = [central EXCEPT ![i] = {}]
  /\ Fault
  /\ UNCHANGED <<obs, local, posts>>

Next ==
  \/ \E o \in Observers : Identify(o) \/ Start(o) \/ Measure(o) \/ Stop(o)
  \/ \E p \in posts : Ingest(p)
  \/ Damage
  \/ \E i \in Ids : Approve(i) \/ Disconnect(i)

Spec == Init /\ [][Next]_vars

-----------------------------------------------------------------------------

\* Every file, process, row and request is well formed, and whoever is past the lock or waits for
\* it knows its identity (main establishes it first).
TypeOK ==
  /\ obs \in [Observers -> Observer]
  /\ \A o \in Observers : At(o, {"lock"} \cup Holding) => obs[o].id # NoId
  /\ idFile \in [id: Ids \cup {NoId}, whole: BOOLEAN]
  /\ profile \in [state: {"absent", "good", "unreadable"}, has: SUBSET Samples]
  /\ kept \subseteq Samples
  /\ lock \in Observers \cup {Nobody}
  /\ taken \in 0..MaxSamples
  /\ rows \in [Ids -> {"no", "pending", "approved"}]
  /\ central \in [Ids -> SUBSET Samples]
  /\ posts \subseteq [from: Observers, id: Ids, has: SUBSET Samples]
  /\ saved \subseteq Samples
  /\ lateError \in BOOLEAN /\ faults \in 0..MaxFaults

\* Whatever was measured and saved once stays on the machine, in the profile or in a file put
\* aside, however many launches race, fail, recover a profile or are killed (UsageProfiler,
\* ProfileLock, main).
NothingIsLost == saved \subseteq profile.has \cup kept

\* All observers of a machine go by the identity in its file, whoever wins the race to create
\* it, unless that file was withdrawn after others had read it (load_or_create_measurement_id).
OneIdentity ==
  ~lateError => \A o \in Observers : obs[o].id # NoId => idFile = [id |-> obs[o].id, whole |-> TRUE]

\* The server never knows of a sample that was not saved on the machine first
\* (run_measure_loop uploads only what it persisted).
SummaryIsDurable == \A i \in Ids : central[i] \subseteq saved

\* While nothing fails, the summary of an approved device lags by less than an upload and a save
\* interval, and a stop leaves out no sample but one that was being taken (run_measure_loop's
\* cadence and its finally).
RollupKeepsUp ==
  faults = 0 => \A o \in Observers :
    obs[o].enrolled = "approved" /\ obs[o].samples > 0 =>
      /\ At(o, {"sample"}) => obs[o].samples - obs[o].lastUpload < PostEvery + SaveEvery - 1
      /\ At(o, {"release"}) => Cardinality(obs[o].mem \ central[obs[o].id]) <= 1

=============================================================================
