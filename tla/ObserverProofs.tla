--------------------------- MODULE ObserverProofs ---------------------------
(* Proofs that observers race, fail and restart without losing samples or  *)
(* identity (module Observer).                                             *)
EXTENDS Observer, FiniteSetTheorems, TLAPS

\* Whoever is creating the identity file has it to itself, and it is not whole before its write.
WriterInv ==
  /\ \A o \in Observers : At(o, {"write", "sync"}) => idFile.id # NoId
  /\ \A o \in Observers : At(o, {"write"}) => ~idFile.whole
  /\ \A o \in Observers : At(o, {"sync"}) => idFile.whole
  /\ \A o, p \in Observers : At(o, {"write", "sync"}) /\ At(p, {"write", "sync"}) => o = p
  /\ idFile.whole => idFile.id # NoId
  /\ idFile.id = NoId => idFile = NoFile

\* Only the holder of the lock works on the profile, and what it has in memory covers the file.
HolderInv ==
  /\ \A o \in Observers : At(o, Holding) => lock = o
  /\ \A o \in Observers : At(o, Measuring) => profile.has \subseteq obs[o].mem

\* What is about to be uploaded, or is on its way, was saved.
UploadInv ==
  /\ \A o \in Observers : At(o, {"enroll", "post"}) => obs[o].mem \subseteq saved
  /\ \A p \in posts : p.has \subseteq saved

\* The two halves of TypeOK.
ProcessesOK ==
  /\ obs \in [Observers -> Observer]
  /\ \A o \in Observers : At(o, {"lock"} \cup Holding) => obs[o].id # NoId

FilesOK ==
  /\ idFile \in [id: Ids \cup {NoId}, whole: BOOLEAN]
  /\ profile \in [state: {"absent", "good", "unreadable"}, has: SUBSET Samples]
  /\ kept \subseteq Samples
  /\ lock \in Observers \cup {Nobody}
  /\ taken \in 0..MaxSamples
  /\ rows \in [Ids -> {"no", "pending", "approved"}]
  /\ central \in [Ids -> SUBSET Samples]
  /\ posts \subseteq [from: Observers, id: Ids, has: SUBSET Samples]
  /\ saved \subseteq Samples
  /\ lateError \in BOOLEAN /\ faults \in 0..MaxFaults

TypeInv == ProcessesOK /\ FilesOK /\ WriterInv

-----------------------------------------------------------------------------

\* A process that is given a well-formed state leaves all of them well formed.
LEMMA ProcessUpdate ==
  ASSUME ProcessesOK, NEW o \in Observers, NEW r \in Observer,
         r.at \in {"lock"} \cup Holding => r.id # NoId,
         obs' = [obs EXCEPT ![o] = r]
  PROVE  ProcessesOK'
<1>1. obs' \in [Observers -> Observer]
  BY DEF ProcessesOK
<1>2. \A p \in Observers : obs'[p] = IF p = o THEN r ELSE obs[p]
  BY DEF ProcessesOK
<1> QED BY <1>1, <1>2 DEF ProcessesOK, At

\* Changing some fields of a process, each within its type.
LEMMA FieldUpdates ==
  ASSUME NEW r \in Observer, NEW a \in {"off"} \cup Early \cup Holding,
         NEW i \in Ids \cup {NoId}, NEW m \in SUBSET Samples,
         NEW e \in {"no", "pending", "approved"}
  PROVE  /\ [r EXCEPT !.at = a] \in Observer
         /\ [r EXCEPT !.at = a, !.id = i] \in Observer
         /\ [r EXCEPT !.at = a, !.mem = m] \in Observer
         /\ [r EXCEPT !.at = a, !.enrolled = e] \in Observer
         /\ [r EXCEPT !.closing = TRUE, !.at = a] \in Observer
BY DEF Observer

LEMMA IdentifyProcesses ==
  ASSUME TypeInv, NEW o \in Observers, Identify(o) PROVE ProcessesOK'
<1> USE ObserverAssumption DEF TypeInv, ProcessesOK, FilesOK, WriterInv, Observer, Off, NoFile, At, Go, Exit, Saving, Early, Loading, Before, Loop, Ending, Measuring, Holding
<1>1. CASE Launch(o) BY <1>1 DEF Launch
<1>2. CASE Adopt(o)
  <2> DEFINE r == [obs[o] EXCEPT !.at = "lock", !.id = idFile.id]
  <2>1. obs' = [obs EXCEPT ![o] = r] BY <1>2 DEF Adopt
  <2>2. r \in Observer
    <3>1. obs[o] \in Observer BY DEF ProcessesOK
    <3>2. "lock" \in {"off"} \cup Early \cup Holding /\ idFile.id \in Ids \cup {NoId} BY <1>2 DEF FilesOK
    <3> HIDE DEF TypeInv, ProcessesOK, FilesOK, WriterInv, Observer, Early, Holding
    <3> QED BY <3>1, <3>2, FieldUpdates
  <2>3. r.at \in {"lock"} \cup Holding => r.id # NoId BY <1>2, <2>2 DEF Adopt, Complete
  <2> HIDE DEF r
  <2> QED BY <2>1, <2>2, <2>3, ProcessUpdate
<1>3. CASE NoIdentityYet(o) BY <1>3 DEF NoIdentityYet
<1>4. CASE IdentityRefused(o) BY <1>4 DEF IdentityRefused
<1>5. CASE LinkFails(o) BY <1>5 DEF LinkFails
<1>6. CASE CreateFails(o) BY <1>6 DEF CreateFails
<1>7. CASE WriteIdentity(o) BY <1>7 DEF WriteIdentity
<1>8. CASE SyncIdentity(o)
  <2> DEFINE r == [obs[o] EXCEPT !.at = "lock", !.id = idFile.id]
  <2>1. obs' = [obs EXCEPT ![o] = r] BY <1>8 DEF SyncIdentity
  <2>2. r \in Observer
    <3>1. obs[o] \in Observer BY DEF ProcessesOK
    <3>2. "lock" \in {"off"} \cup Early \cup Holding /\ idFile.id \in Ids \cup {NoId} BY <1>8 DEF FilesOK
    <3> HIDE DEF TypeInv, ProcessesOK, FilesOK, WriterInv, Observer, Early, Holding
    <3> QED BY <3>1, <3>2, FieldUpdates
  <2>3. r.at \in {"lock"} \cup Holding => r.id # NoId BY <1>8, <2>2 DEF SyncIdentity
  <2> HIDE DEF r
  <2> QED BY <2>1, <2>2, <2>3, ProcessUpdate
<1>9. CASE WriteFails(o) BY <1>9 DEF WriteFails
<1>10. ASSUME NEW i \in Ids, Link(o, i) PROVE ProcessesOK'
  <2> DEFINE r == [obs[o] EXCEPT !.at = "lock", !.id = i]
  <2>1. obs' = [obs EXCEPT ![o] = r] BY <1>10 DEF Link
  <2>2. r \in Observer
    <3>1. obs[o] \in Observer BY DEF ProcessesOK
    <3>2. "lock" \in {"off"} \cup Early \cup Holding /\ i \in Ids \cup {NoId} BY <1>10 DEF FilesOK
    <3> HIDE DEF TypeInv, ProcessesOK, FilesOK, WriterInv, Observer, Early, Holding
    <3> QED BY <3>1, <3>2, FieldUpdates
  <2>3. r.at \in {"lock"} \cup Holding => r.id # NoId BY <1>10, <2>2 DEF Link
  <2> HIDE DEF r
  <2> QED BY <2>1, <2>2, <2>3, ProcessUpdate
<1>11. ASSUME NEW i \in Ids, CreateExclusive(o, i) PROVE ProcessesOK' BY <1>11 DEF CreateExclusive
<1> QED BY <1>1, <1>2, <1>3, <1>4, <1>5, <1>6, <1>7, <1>8, <1>9, <1>10, <1>11 DEF Identify

\* The identity file is not disturbed by a process that goes to a place other than its writing.
LEMMA WriterUndisturbed ==
  ASSUME ProcessesOK, WriterInv, NEW o \in Observers, NEW a, a \notin {"write", "sync"},
         idFile' = idFile, obs' = [obs EXCEPT ![o].at = a]
  PROVE  WriterInv'
<1>1. \A p \in Observers : obs'[p].at = IF p = o THEN a ELSE obs[p].at
  BY DEF ProcessesOK, Observer
<1>2. \A p \in Observers, b \in {"write", "sync"} : obs'[p].at = b => obs[p].at = b
  BY <1>1
<1>. QED  BY <1>1, <1>2 DEF WriterInv, At

LEMMA IdentifyWriter ==
  ASSUME TypeInv, NEW o \in Observers, Identify(o) PROVE WriterInv'
<1> USE ObserverAssumption DEF TypeInv, ProcessesOK, FilesOK, WriterInv, Observer, Off, NoFile, At, Go, Exit, identity, local, disk, server, Before, Loop, Saving
<1>1. CASE Launch(o) BY <1>1 DEF Launch
<1>2. CASE Adopt(o) BY <1>2 DEF Adopt, Complete
<1>3. CASE NoIdentityYet(o) BY <1>3 DEF NoIdentityYet
<1>4. CASE IdentityRefused(o) BY <1>4 DEF IdentityRefused
<1>5. CASE LinkFails(o)
  <2>1. idFile' = idFile /\ \E a \in {"await", "excl"} : obs' = [obs EXCEPT ![o].at = a] BY <1>5 DEF LinkFails
  <2> HIDE DEF TypeInv, ProcessesOK, FilesOK, WriterInv, Observer
  <2>2. ProcessesOK /\ WriterInv BY DEF TypeInv
  <2> QED BY <2>1, <2>2, WriterUndisturbed
<1>6. CASE CreateFails(o) BY <1>6 DEF CreateFails
<1>7. CASE WriteIdentity(o) BY <1>7 DEF WriteIdentity
<1>8. CASE SyncIdentity(o) BY <1>8 DEF SyncIdentity
<1>9. CASE WriteFails(o) BY <1>9 DEF WriteFails
<1>10. ASSUME NEW i \in Ids, Link(o, i) PROVE WriterInv' BY <1>10 DEF Link
<1>11. ASSUME NEW i \in Ids, CreateExclusive(o, i) PROVE WriterInv' BY <1>11 DEF CreateExclusive
<1> QED BY <1>1, <1>2, <1>3, <1>4, <1>5, <1>6, <1>7, <1>8, <1>9, <1>10, <1>11 DEF Identify

LEMMA IdentifyFiles ==
  ASSUME TypeInv, NEW o \in Observers, Identify(o) PROVE FilesOK'
<1> USE ObserverAssumption DEF TypeInv, ProcessesOK, FilesOK, WriterInv, Observer, At, Go, Exit, identity, local, disk, server, NoFile, Absent, Fault, Samples, Early, Loading, Before, Loop, Ending, Measuring, Holding
<1>1. CASE Launch(o) BY <1>1 DEF Launch
<1>2. CASE Adopt(o) BY <1>2 DEF Adopt, Complete
<1>3. CASE NoIdentityYet(o) BY <1>3 DEF NoIdentityYet
<1>4. CASE IdentityRefused(o) BY <1>4 DEF IdentityRefused
<1>5. CASE LinkFails(o) BY <1>5 DEF LinkFails
<1>6. CASE CreateFails(o) BY <1>6 DEF CreateFails
<1>7. CASE WriteIdentity(o) BY <1>7 DEF WriteIdentity
<1>8. CASE SyncIdentity(o) BY <1>8 DEF SyncIdentity
<1>9. CASE WriteFails(o) BY <1>9 DEF WriteFails
<1>10. ASSUME NEW i \in Ids, Link(o, i) PROVE FilesOK' BY <1>10 DEF Link
<1>11. ASSUME NEW i \in Ids, CreateExclusive(o, i) PROVE FilesOK' BY <1>11 DEF CreateExclusive
<1> QED BY <1>1, <1>2, <1>3, <1>4, <1>5, <1>6, <1>7, <1>8, <1>9, <1>10, <1>11 DEF Identify

LEMMA StartProcesses ==
  ASSUME TypeInv, NEW o \in Observers, Start(o) PROVE ProcessesOK'
<1> USE ObserverAssumption DEF TypeInv, ProcessesOK, FilesOK, WriterInv, Observer, Off, NoFile, At, Go, Exit, Saving, Early, Loading, Before, Loop, Ending, Measuring, Holding
<1>1. CASE AcquireLock(o)
  <2>1. CASE Go(o, "load")
    <3> DEFINE r == [obs[o] EXCEPT !.at = "load"]
    <3>1. obs' = [obs EXCEPT ![o] = r] BY <2>1
    <3>2. r \in Observer /\ r.id # NoId BY <1>1 DEF AcquireLock
    <3> HIDE DEF r
    <3> QED BY <3>1, <3>2, ProcessUpdate
  <2>2. CASE Exit(o)
    <3>1. Off \in Observer /\ Off.at \notin {"lock"} \cup Holding OBVIOUS
    <3> QED BY <2>2, <3>1, ProcessUpdate
  <2> QED BY <1>1, <2>1, <2>2 DEF AcquireLock
<1>2. CASE Load(o)
  <2> DEFINE r == [obs[o] EXCEPT !.at = "probe", !.mem = profile.has]
  <2>1. obs' = [obs EXCEPT ![o] = r] BY <1>2 DEF Load
  <2>2. r \in Observer
    <3>1. obs[o] \in Observer BY DEF ProcessesOK
    <3>2. "probe" \in {"off"} \cup Early \cup Holding /\ profile.has \in SUBSET Samples BY <1>2 DEF FilesOK
    <3> HIDE DEF TypeInv, ProcessesOK, FilesOK, WriterInv, Observer, Early, Holding
    <3> QED BY <3>1, <3>2, FieldUpdates
  <2>3. r.at \in {"lock"} \cup Holding => r.id # NoId BY <1>2, <2>2 DEF Load
  <2> HIDE DEF r
  <2> QED BY <2>1, <2>2, <2>3, ProcessUpdate
<1>3. CASE Recover(o) BY <1>3 DEF Recover
<1>4. CASE RecoveryFails(o) BY <1>4 DEF RecoveryFails
<1>5. CASE Probe(o) BY <1>5 DEF Probe
<1>6. CASE NotWritable(o) BY <1>6 DEF NotWritable
<1> QED BY <1>1, <1>2, <1>3, <1>4, <1>5, <1>6 DEF Start

LEMMA StartWriter ==
  ASSUME TypeInv, NEW o \in Observers, Start(o) PROVE WriterInv'
<1> USE ObserverAssumption DEF TypeInv, ProcessesOK, FilesOK, WriterInv, Observer, Off, NoFile, At, Go, Exit, identity, local, disk, server, Before, Loop, Saving
<1>1. CASE AcquireLock(o) BY <1>1 DEF AcquireLock, LockIsFree
<1>2. CASE Load(o) BY <1>2 DEF Load
<1>3. CASE Recover(o) BY <1>3 DEF Recover
<1>4. CASE RecoveryFails(o) BY <1>4 DEF RecoveryFails
<1>5. CASE Probe(o) BY <1>5 DEF Probe
<1>6. CASE NotWritable(o) BY <1>6 DEF NotWritable
<1> QED BY <1>1, <1>2, <1>3, <1>4, <1>5, <1>6 DEF Start

LEMMA StartFiles ==
  ASSUME TypeInv, NEW o \in Observers, Start(o) PROVE FilesOK'
<1> USE ObserverAssumption DEF TypeInv, ProcessesOK, FilesOK, WriterInv, Observer, At, Go, Exit, identity, local, disk, server, NoFile, Absent, Fault, Samples, Early, Loading, Before, Loop, Ending, Measuring, Holding
<1>1. CASE AcquireLock(o) BY <1>1 DEF AcquireLock, LockIsFree
<1>2. CASE Load(o) BY <1>2 DEF Load
<1>3. CASE Recover(o) BY <1>3 DEF Recover
<1>4. CASE RecoveryFails(o) BY <1>4 DEF RecoveryFails
<1>5. CASE Probe(o) BY <1>5 DEF Probe
<1>6. CASE NotWritable(o) BY <1>6 DEF NotWritable
<1> QED BY <1>1, <1>2, <1>3, <1>4, <1>5, <1>6 DEF Start

LEMMA MeasureProcesses ==
  ASSUME TypeInv, NEW o \in Observers, Measure(o) PROVE ProcessesOK'
<1> USE ObserverAssumption DEF TypeInv, ProcessesOK, FilesOK, WriterInv, Observer, Off, NoFile, At, Go, Exit, Saving, Early, Loading, Before, Loop, Ending, Measuring, Holding
<1>1. CASE Join(o)
  <2> DEFINE r == [obs[o] EXCEPT !.at = "restore", !.enrolled = RowAfterRegister(obs[o].id)]
  <2>1. obs' = [obs EXCEPT ![o] = r] BY <1>1 DEF Join
  <2>2. r \in Observer
    <3>1. obs[o] \in Observer BY DEF ProcessesOK
    <3>2. "restore" \in {"off"} \cup Early \cup Holding
           /\ RowAfterRegister(obs[o].id) \in {"no", "pending", "approved"} BY <1>1 DEF Join, RowAfterRegister, FilesOK
    <3> HIDE DEF TypeInv, ProcessesOK, FilesOK, WriterInv, Observer, Early, Holding
    <3> QED BY <3>1, <3>2, FieldUpdates
  <2>3. r.at \in {"lock"} \cup Holding => r.id # NoId BY <1>1, <2>2 DEF Join, RowAfterRegister
  <2> HIDE DEF r
  <2> QED BY <2>1, <2>2, <2>3, ProcessUpdate
<1>2. CASE JoinFails(o) BY <1>2 DEF JoinFails
<1>3. CASE Enroll(o)
  <2>1. PICK a \in {"post", "lastSave", "sample"}, e \in {"no", "pending", "approved"} :
          obs' = [obs EXCEPT ![o] = [obs[o] EXCEPT !.at = a, !.enrolled = e]]
    <3>1. /\ After(o) \in {"lastSave", "sample"} /\ obs[o].id \in Ids
          /\ RowAfterRegister(obs[o].id) \in {"no", "pending", "approved"}
          /\ rows[obs[o].id] \in {"no", "pending", "approved"}
          /\ obs[o].enrolled \in {"no", "pending", "approved"}
      BY <1>3 DEF Enroll, RowAfterRegister, After
    <3>. QED  BY <1>3, <3>1 DEF Enroll
  <2> DEFINE r == [obs[o] EXCEPT !.at = a, !.enrolled = e]
  <2>2. r \in Observer
    <3>1. obs[o] \in Observer BY DEF ProcessesOK
    <3>2. a \in {"off"} \cup Early \cup Holding /\ e \in {"no", "pending", "approved"}
      BY <2>1
    <3>3. obs[o].id \in Ids \cup {NoId} BY <3>1
    <3> QED BY <3>1, <3>2, <3>3 DEF Observer
  <2>3. r.at \in {"lock"} \cup Holding => r.id # NoId BY <1>3, <2>2 DEF Enroll
  <2> HIDE DEF r
  <2>4. obs' = [obs EXCEPT ![o] = r] BY <2>1 DEF r
  <2> QED BY <2>2, <2>3, <2>4, ProcessUpdate
<1>4. CASE EnrollFails(o) BY <1>4 DEF EnrollFails, After
<1>5. CASE NothingToRestore(o) BY <1>5 DEF NothingToRestore
<1>6. CASE Record(o)
  <2> DEFINE r == [obs[o] EXCEPT !.at = "count", !.mem = @ \cup {taken + 1}]
  <2>1. obs' = [obs EXCEPT ![o] = r] BY <1>6 DEF Record
  <2>2. r \in Observer
    <3>1. obs[o] \in Observer BY DEF ProcessesOK
    <3>2. "count" \in {"off"} \cup Early \cup Holding
           /\ (obs[o].mem \cup {taken + 1}) \in SUBSET Samples BY <1>6, <3>1 DEF Record, FilesOK, Samples
    <3> HIDE DEF TypeInv, ProcessesOK, FilesOK, WriterInv, Observer, Early, Holding
    <3> QED BY <3>1, <3>2, FieldUpdates
  <2>3. r.at \in {"lock"} \cup Holding => r.id # NoId BY <1>6, <2>2 DEF Record, Samples
  <2> HIDE DEF r
  <2> QED BY <2>1, <2>2, <2>3, ProcessUpdate
<1>7. CASE Count(o) BY <1>7 DEF Count
<1>8. CASE Save(o) BY <1>8 DEF Save, AfterSave, After
<1>9. CASE SaveFails(o) BY <1>9 DEF SaveFails, AfterFailedSave, After
<1>10. CASE Post(o) BY <1>10 DEF Post
<1>11. CASE PostRefused(o) BY <1>11 DEF PostRefused, After
<1>12. CASE PostFails(o) BY <1>12 DEF PostFails, After
<1> QED BY <1>1, <1>2, <1>3, <1>4, <1>5, <1>6, <1>7, <1>8, <1>9, <1>10, <1>11, <1>12 DEF Measure

LEMMA MeasureWriter ==
  ASSUME TypeInv, NEW o \in Observers, Measure(o) PROVE WriterInv'
<1> USE ObserverAssumption DEF TypeInv, ProcessesOK, FilesOK, WriterInv, Observer, Off, NoFile, At, Go, Exit, identity, local, disk, server, Before, Loop, Saving
<1>1. CASE Join(o) BY <1>1 DEF Join, RowAfterRegister
<1>2. CASE JoinFails(o) BY <1>2 DEF JoinFails
<1>3. CASE Enroll(o) BY <1>3 DEF Enroll, RowAfterRegister, After
<1>4. CASE EnrollFails(o) BY <1>4 DEF EnrollFails, After
<1>5. CASE NothingToRestore(o) BY <1>5 DEF NothingToRestore
<1>6. CASE Record(o) BY <1>6 DEF Record
<1>7. CASE Count(o) BY <1>7 DEF Count
<1>8. CASE Save(o) BY <1>8 DEF Save, AfterSave, After
<1>9. CASE SaveFails(o) BY <1>9 DEF SaveFails, AfterFailedSave, After
<1>10. CASE Post(o) BY <1>10 DEF Post
<1>11. CASE PostRefused(o) BY <1>11 DEF PostRefused, After
<1>12. CASE PostFails(o) BY <1>12 DEF PostFails, After
<1> QED BY <1>1, <1>2, <1>3, <1>4, <1>5, <1>6, <1>7, <1>8, <1>9, <1>10, <1>11, <1>12 DEF Measure

LEMMA MeasureFiles ==
  ASSUME TypeInv, NEW o \in Observers, Measure(o) PROVE FilesOK'
<1> USE ObserverAssumption DEF TypeInv, ProcessesOK, FilesOK, WriterInv, Observer, At, Go, Exit, identity, local, disk, server, NoFile, Absent, Fault, Samples, Early, Loading, Before, Loop, Ending, Measuring, Holding
<1>1. CASE Join(o) BY <1>1 DEF Join, RowAfterRegister
<1>2. CASE JoinFails(o) BY <1>2 DEF JoinFails
<1>3. CASE Enroll(o) BY <1>3 DEF Enroll, RowAfterRegister, After
<1>4. CASE EnrollFails(o) BY <1>4 DEF EnrollFails, After
<1>5. CASE NothingToRestore(o) BY <1>5 DEF NothingToRestore
<1>6. CASE Record(o) BY <1>6 DEF Record
<1>7. CASE Count(o) BY <1>7 DEF Count
<1>8. CASE Save(o) BY <1>8 DEF Save, AfterSave, After
<1>9. CASE SaveFails(o) BY <1>9 DEF SaveFails, AfterFailedSave, After
<1>10. CASE Post(o) BY <1>10 DEF Post
<1>11. CASE PostRefused(o) BY <1>11 DEF PostRefused, After
<1>12. CASE PostFails(o) BY <1>12 DEF PostFails, After
<1> QED BY <1>1, <1>2, <1>3, <1>4, <1>5, <1>6, <1>7, <1>8, <1>9, <1>10, <1>11, <1>12 DEF Measure

LEMMA StopProcesses ==
  ASSUME TypeInv, NEW o \in Observers, Stop(o) PROVE ProcessesOK'
<1> USE ObserverAssumption DEF TypeInv, ProcessesOK, FilesOK, WriterInv, Observer, Off, NoFile, At, Go, Exit, Saving, Early, Loading, Before, Loop, Ending, Measuring, Holding
<1>1. CASE Interrupt(o)
  <2> DEFINE r == IF At(o, Loop) /\ ~obs[o].closing
                  THEN [obs[o] EXCEPT !.closing = TRUE, !.at = "save"]
                  ELSE [obs[o] EXCEPT !.at = "lastSave"]
  <2>1. obs' = [obs EXCEPT ![o] = r] BY <1>1 DEF Interrupt
  <2>2. r \in Observer
    <3>1. obs[o] \in Observer BY DEF ProcessesOK
    <3>2. "save" \in {"off"} \cup Early \cup Holding OBVIOUS
    <3>3. "lastSave" \in {"off"} \cup Early \cup Holding OBVIOUS
    <3>4. [obs[o] EXCEPT !.closing = TRUE, !.at = "save"] \in Observer
      BY <3>1, <3>2, FieldUpdates
    <3>5. [obs[o] EXCEPT !.at = "lastSave"] \in Observer
      BY <3>1, <3>3, FieldUpdates
    <3> QED BY <3>4, <3>5
  <2>3. r.id = obs[o].id /\ obs[o].id # NoId BY <1>1 DEF Interrupt
  <2> HIDE DEF r
  <2> QED BY <2>1, <2>2, <2>3, ProcessUpdate
<1>2. CASE Release(o) BY <1>2 DEF Release
<1>3. CASE Kill(o) BY <1>3 DEF Kill
<1> QED BY <1>1, <1>2, <1>3 DEF Stop

LEMMA StopWriter ==
  ASSUME TypeInv, NEW o \in Observers, Stop(o) PROVE WriterInv'
<1> USE ObserverAssumption DEF TypeInv, ProcessesOK, FilesOK, WriterInv, Observer, Off, NoFile, At, Go, Exit, identity, local, disk, server, Before, Loop, Saving
<1>1. CASE Interrupt(o) BY <1>1 DEF Interrupt
<1>2. CASE Release(o) BY <1>2 DEF Release
<1>3. CASE Kill(o) BY <1>3 DEF Kill
<1> QED BY <1>1, <1>2, <1>3 DEF Stop

LEMMA StopFiles ==
  ASSUME TypeInv, NEW o \in Observers, Stop(o) PROVE FilesOK'
<1> USE ObserverAssumption DEF TypeInv, ProcessesOK, FilesOK, WriterInv, Observer, At, Go, Exit, identity, local, disk, server, NoFile, Absent, Fault, Samples, Early, Loading, Before, Loop, Ending, Measuring, Holding
<1>1. CASE Interrupt(o) BY <1>1 DEF Interrupt
<1>2. CASE Release(o) BY <1>2 DEF Release
<1>3. CASE Kill(o) BY <1>3 DEF Kill
<1> QED BY <1>1, <1>2, <1>3 DEF Stop

-----------------------------------------------------------------------------

LEMMA IngestKeepsTypes ==
  ASSUME TypeInv, NEW p \in posts, Ingest(p) PROVE TypeInv'
<1> DEFINE o == p.from
<1> USE DEF TypeInv, Ingest, local, disk
<1>1. o \in Observers /\ p.id \in Ids /\ p.has \subseteq Samples
  BY DEF FilesOK
<1>2. CASE Answers(p)
  <2> DEFINE r == [obs[o] EXCEPT !.lastUpload = obs[o].samples, !.at = After(o)]
  <2>1. obs' = [obs EXCEPT ![o] = r] BY <1>2
  <2>2. r \in Observer
    <3>1. obs[o] \in Observer BY <1>1 DEF ProcessesOK
    <3>2. After(o) \in {"off"} \cup Early \cup Holding
      BY DEF After, Holding, Measuring, Loop, Ending
    <3> QED BY <3>1, <3>2 DEF Observer
  <2>3. r.id # NoId
    BY <1>1, <1>2 DEF Answers, At, Holding, Measuring, Loop, ProcessesOK, Observer
  <2>4. ProcessesOK'
    <3> HIDE DEF r
    <3> QED BY <1>1, <2>1, <2>2, <2>3, ProcessUpdate
  <2>5. WriterInv'
    BY <1>1, <1>2 DEF WriterInv, Answers, At, After, ProcessesOK
  <2> QED BY <1>1, <2>4, <2>5 DEF FilesOK
<1>3. CASE ~Answers(p)
  BY <1>1, <1>3 DEF ProcessesOK, FilesOK, WriterInv, At
<1> QED BY <1>2, <1>3

\* One observer at a time creates an identity.
LEMMA TypeInvariance == Spec => []TypeInv
<1>1. Init => TypeInv
  <2> SUFFICES ASSUME Init PROVE TypeInv OBVIOUS
  <2>1. ProcessesOK
    BY DEF Init, ProcessesOK, Observer, Off, At, Early, Loading, Before, Loop, Ending, Measuring,
       Holding
  <2>2. FilesOK
    <3>1. 0 \in 0..MaxSamples /\ 0 \in 0..MaxFaults
      BY ObserverAssumption
    <3>2. NoFile \in [id: Ids \cup {NoId}, whole: BOOLEAN]
      BY DEF NoFile
    <3>3. Absent \in [state: {"absent", "good", "unreadable"}, has: SUBSET Samples]
      BY DEF Absent
    <3> QED BY <3>1, <3>2, <3>3 DEF Init, FilesOK
  <2>3. WriterInv
    BY DEF Init, WriterInv, NoFile, Off, At
  <2> QED BY <2>1, <2>2, <2>3 DEF TypeInv
<1>2. TypeInv /\ [Next]_vars => TypeInv'
  <2> SUFFICES ASSUME TypeInv, [Next]_vars PROVE TypeInv' OBVIOUS
  <2>1. ASSUME NEW o \in Observers, Identify(o) PROVE TypeInv'
    BY <2>1, IdentifyProcesses, IdentifyWriter, IdentifyFiles DEF TypeInv
  <2>2. ASSUME NEW o \in Observers, Start(o) PROVE TypeInv'
    BY <2>2, StartProcesses, StartWriter, StartFiles DEF TypeInv
  <2>3. ASSUME NEW o \in Observers, Measure(o) PROVE TypeInv'
    BY <2>3, MeasureProcesses, MeasureWriter, MeasureFiles DEF TypeInv
  <2>4. ASSUME NEW o \in Observers, Stop(o) PROVE TypeInv'
    BY <2>4, StopProcesses, StopWriter, StopFiles DEF TypeInv
  <2>5. ASSUME NEW p \in posts, Ingest(p) PROVE TypeInv'
    BY <2>5, IngestKeepsTypes
  <2> USE DEF TypeInv, ProcessesOK, FilesOK, WriterInv, At, local, disk, server
  <2>6. CASE Damage
    BY <2>6, ObserverAssumption DEF Damage, Fault
  <2>7. ASSUME NEW i \in Ids, Approve(i) PROVE TypeInv'
    BY <2>7 DEF Approve
  <2>8. ASSUME NEW i \in Ids, Disconnect(i) PROVE TypeInv'
    BY <2>8, ObserverAssumption DEF Disconnect, Fault
  <2>9. CASE UNCHANGED vars
    BY <2>9 DEF vars
  <2> QED BY <2>1, <2>2, <2>3, <2>4, <2>5, <2>6, <2>7, <2>8, <2>9 DEF Next
<1> QED BY <1>1, <1>2, PTL DEF Spec

\* The observers, their files, the server's rows and the requests under way keep their types, and
\* nobody works without an identity.
THEOREM ObserverTypeCorrect == Spec => []TypeOK
<1>1. TypeInv => TypeOK
  BY DEF TypeInv, ProcessesOK, FilesOK, TypeOK
<1> QED BY <1>1, TypeInvariance, PTL

-----------------------------------------------------------------------------

\* A step of one process that leaves the files and the lock alone and does not forget.
LEMMA QuietStep ==
  ASSUME HolderInv, NothingIsLost, NEW o \in Observers,
         profile' = profile, kept' = kept, saved' = saved, lock' = lock,
         \A p \in Observers \ {o} : obs'[p] = obs[p],
         obs'[o].at \in Holding => obs[o].at \in Holding,
         obs'[o].at \in Measuring => obs[o].at \in Measuring /\ obs[o].mem \subseteq obs'[o].mem
  PROVE  HolderInv' /\ NothingIsLost'
BY DEF HolderInv, NothingIsLost, At

\* The holder of the lock writes back all it has read, and an unreadable profile is put aside
\* before a new one is begun.
LEMMA HolderInvariance == Spec => [](HolderInv /\ NothingIsLost)
<1> DEFINE Safe == HolderInv /\ NothingIsLost
<1>1. Init => Safe
  BY DEF Init, HolderInv, NothingIsLost, Off, Absent, At, Loading, Before, Loop, Ending,
     Measuring, Holding
<1>2. TypeInv /\ Safe /\ [Next]_vars => Safe'
  <2> SUFFICES ASSUME TypeInv, Safe, [Next]_vars PROVE Safe' OBVIOUS
  <2> obs \in [Observers -> Observer]
    BY DEF TypeInv, ProcessesOK
  <2> USE DEF HolderInv, NothingIsLost, At, Go, Exit, Off, local, disk, server, identity,
              Loading, Before, Loop, Ending, Measuring, Holding, After
  <2>1. ASSUME NEW o \in Observers, Identify(o) PROVE Safe'
      <3>1. profile' = profile /\ kept' = kept /\ saved' = saved /\ lock' = lock
        BY <2>1 DEF Identify, Launch, Adopt, NoIdentityYet, IdentityRefused, LinkFails, CreateFails,
         WriteIdentity, SyncIdentity, WriteFails, Link, CreateExclusive
      <3>2. \A p \in Observers \ {o} : obs'[p] = obs[p]
        BY <2>1 DEF Identify, Launch, Adopt, NoIdentityYet, IdentityRefused, LinkFails, CreateFails,
         WriteIdentity, SyncIdentity, WriteFails, Link, CreateExclusive
      <3>3. obs'[o].at \notin Holding
      <4>1. CASE Launch(o) BY <4>1 DEF Launch
      <4>2. CASE Adopt(o) BY <4>2 DEF Adopt
      <4>3. CASE NoIdentityYet(o) BY <4>3 DEF NoIdentityYet
      <4>4. CASE IdentityRefused(o) BY <4>4 DEF IdentityRefused
      <4>5. CASE LinkFails(o)
        <5>1. CASE Go(o, "await") BY <5>1
        <5>2. CASE Go(o, "excl") BY <5>2
        <5> QED BY <4>5, <5>1, <5>2 DEF LinkFails
      <4>6. CASE CreateFails(o) BY <4>6 DEF CreateFails
      <4>7. CASE WriteIdentity(o) BY <4>7 DEF WriteIdentity
      <4>8. CASE SyncIdentity(o) BY <4>8 DEF SyncIdentity
      <4>9. CASE WriteFails(o) BY <4>9 DEF WriteFails
      <4>10. ASSUME NEW i \in Ids, Link(o, i) PROVE obs'[o].at \notin Holding
        BY <4>10 DEF Link
      <4>11. ASSUME NEW i \in Ids, CreateExclusive(o, i) PROVE obs'[o].at \notin Holding
        BY <4>11 DEF CreateExclusive
      <4> QED BY <2>1, <4>1, <4>2, <4>3, <4>4, <4>5, <4>6, <4>7, <4>8, <4>9, <4>10, <4>11
        DEF Identify
    <3> QED BY <3>1, <3>2, <3>3, QuietStep
  <2>2. ASSUME NEW o \in Observers, Start(o) PROVE Safe'
    <3>1. CASE AcquireLock(o)
      <4>1. CASE lock = Nobody /\ lock' = o /\ Go(o, "load")
        <5>1. \A p \in Observers : obs[p].at \notin Holding
          BY <4>1, ObserverAssumption
        <5>2. profile' = profile /\ kept' = kept /\ saved' = saved
          BY <3>1 DEF AcquireLock
        <5>3. \A p \in Observers : p # o => obs'[p] = obs[p]
          BY <4>1
        <5>4. obs'[o].at \notin Measuring
          BY <4>1
        <5> QED BY <4>1, <5>1, <5>2, <5>3, <5>4
      <4>2. CASE lock' = lock /\ Exit(o)
        <5>1. profile' = profile /\ kept' = kept /\ saved' = saved
          BY <3>1 DEF AcquireLock
        <5>2. obs'[o].at \notin Holding /\ \A p \in Observers \ {o} : obs'[p] = obs[p]
          BY <4>2
        <5> QED BY <4>2, <5>1, <5>2, QuietStep
      <4> QED BY <3>1, <4>1, <4>2 DEF AcquireLock, LockIsFree
    <3>2. CASE Load(o) BY <3>2 DEF Load
    <3>3. CASE Recover(o) BY <3>3 DEF Recover, Absent
    <3>4. CASE RecoveryFails(o) BY <3>4 DEF RecoveryFails
    <3>5. CASE Probe(o) BY <3>5 DEF Probe
    <3>6. CASE NotWritable(o) BY <3>6 DEF NotWritable
    <3> QED BY <2>2, <3>1, <3>2, <3>3, <3>4, <3>5, <3>6 DEF Start
  <2>3. ASSUME NEW o \in Observers, Measure(o) PROVE Safe'
    <3>1. CASE Save(o) BY <3>1 DEF Save, Saving, AfterSave
    <3>2. CASE ~Save(o)
        <4>1. profile' = profile /\ kept' = kept /\ saved' = saved /\ lock' = lock
          BY <2>3, <3>2 DEF Measure, Record, Join, JoinFails, Enroll, EnrollFails, NothingToRestore, Count,
           SaveFails, Saving, AfterFailedSave, Post, PostRefused, PostFails
        <4>2. \A p \in Observers \ {o} : obs'[p] = obs[p]
          BY <2>3, <3>2 DEF Measure, Record, Join, JoinFails, Enroll, EnrollFails, NothingToRestore, Count,
           SaveFails, Saving, AfterFailedSave, Post, PostRefused, PostFails
        <4>3. obs'[o].at \in Holding => obs[o].at \in Holding
          BY <2>3, <3>2 DEF Measure, Record, Join, JoinFails, Enroll, EnrollFails, NothingToRestore, Count,
           SaveFails, Saving, AfterFailedSave, Post, PostRefused, PostFails
        <4>4. obs[o].at \in Measuring /\ obs[o].mem \subseteq obs'[o].mem
        <5>1. CASE Record(o) BY <5>1 DEF Record
        <5>2. CASE Enroll(o) BY <5>2 DEF Enroll
        <5>3. CASE Join(o) BY <5>3 DEF Join
        <5>4. CASE Count(o) BY <5>4 DEF Count
        <5>5. CASE SaveFails(o) BY <5>5 DEF SaveFails, Saving
        <5>6. CASE PostRefused(o) BY <5>6 DEF PostRefused
        <5>7. CASE JoinFails(o) BY <5>7 DEF JoinFails
        <5>8. CASE EnrollFails(o) BY <5>8 DEF EnrollFails
        <5>9. CASE NothingToRestore(o) BY <5>9 DEF NothingToRestore
        <5>10. CASE Post(o) BY <5>10 DEF Post
        <5>11. CASE PostFails(o) BY <5>11 DEF PostFails
        <5> QED BY <2>3, <3>2, <5>1, <5>2, <5>3, <5>4, <5>5, <5>6, <5>7, <5>8, <5>9,
           <5>10, <5>11 DEF Measure
      <4> QED BY <4>1, <4>2, <4>3, <4>4, QuietStep
    <3> QED BY <3>1, <3>2
  <2>4. ASSUME NEW o \in Observers, Stop(o) PROVE Safe'
    <3>1. CASE Interrupt(o)
      <4> DEFINE r == IF At(o, Loop) /\ ~obs[o].closing
                      THEN [obs[o] EXCEPT !.closing = TRUE, !.at = "save"]
                      ELSE [obs[o] EXCEPT !.at = "lastSave"]
      <4>1. profile' = profile /\ kept' = kept /\ saved' = saved /\ lock' = lock
        BY <3>1 DEF Interrupt
      <4>2. obs' = [obs EXCEPT ![o] = r]
        BY <3>1 DEF Interrupt
      <4>3. obs[o].at \in Measuring
        BY <3>1 DEF Interrupt
      <4>4. obs[o] \in Observer
        OBVIOUS
      <4>5. r.mem = obs[o].mem
        BY <4>4 DEF Observer
      <4> HIDE DEF r
      <4>6. obs'[o] = r /\ \A p \in Observers \ {o} : obs'[p] = obs[p]
        BY <4>2
      <4> QED BY <4>1, <4>3, <4>5, <4>6, QuietStep
    <3>2. CASE Release(o) BY <3>2 DEF Release
    <3>3. CASE Kill(o) BY <3>3 DEF Kill
    <3> QED BY <2>4, <3>1, <3>2, <3>3 DEF Stop
  <2>5. ASSUME NEW p \in posts, Ingest(p) PROVE Safe'
    <3>1. p.from \in Observers BY DEF TypeInv, FilesOK
    <3> QED BY <2>5, <3>1 DEF Ingest, Answers
  <2>6. CASE Damage BY <2>6 DEF Damage
  <2>7. ASSUME NEW i \in Ids, Approve(i) \/ Disconnect(i) PROVE Safe'
    BY <2>7 DEF Approve, Disconnect
  <2>8. CASE UNCHANGED vars BY <2>8 DEF vars
  <2> QED BY <2>1, <2>2, <2>3, <2>4, <2>5, <2>6, <2>7, <2>8 DEF Next
<1> QED BY <1>1, <1>2, TypeInvariance, PTL DEF Spec

\* Nothing that was ever saved is lost, however many launches race, fail or are killed.
THEOREM NothingSavedIsLost == Spec => []NothingIsLost
BY HolderInvariance, PTL

-----------------------------------------------------------------------------

\* Whoever wins the race to create it, all observers go by the identity in the file.
THEOREM ObserversShareTheIdentity == Spec => []OneIdentity
<1>1. Init => OneIdentity
  BY ObserverAssumption DEF Init, OneIdentity, Off, NoFile
<1>2. TypeInv /\ OneIdentity /\ [Next]_vars => OneIdentity'
  <2> SUFFICES ASSUME TypeInv, OneIdentity, [Next]_vars PROVE OneIdentity' OBVIOUS
  <2> USE ObserverAssumption DEF OneIdentity, WriterInv, TypeInv, ProcessesOK, FilesOK, At, Go, Exit, Off, NoFile, local, disk, server, identity
  <2>1. ASSUME NEW o \in Observers, Identify(o) PROVE OneIdentity'
    <3>1. CASE Launch(o) BY <3>1 DEF Launch
    <3>2. CASE Adopt(o) BY <3>2 DEF Adopt, Complete
    <3>3. CASE NoIdentityYet(o) BY <3>3 DEF NoIdentityYet
    <3>4. CASE IdentityRefused(o) BY <3>4 DEF IdentityRefused
    <3>5. CASE LinkFails(o)
      <4>1. CASE Go(o, "await") BY <3>5, <4>1 DEF LinkFails
      <4>2. CASE Go(o, "excl") BY <3>5, <4>2 DEF LinkFails
      <4> QED BY <3>5, <4>1, <4>2 DEF LinkFails
    <3>6. CASE CreateFails(o) BY <3>6 DEF CreateFails
    <3>7. CASE WriteIdentity(o) BY <3>7 DEF WriteIdentity
    <3>8. CASE SyncIdentity(o)
      <4>1. idFile = [id |-> idFile.id, whole |-> TRUE]
        BY <3>8 DEF SyncIdentity
      <4>2. obs'[o].id = idFile.id /\ \A p \in Observers \ {o} : obs'[p] = obs[p]
        BY <3>8 DEF SyncIdentity, Observer
      <4> QED BY <3>8, <4>1, <4>2 DEF SyncIdentity
    <3>9. CASE WriteFails(o) BY <3>9 DEF WriteFails
    <3>10. ASSUME NEW i \in Ids, Link(o, i) PROVE OneIdentity'
      <4>1. idFile' = [id |-> i, whole |-> TRUE] /\ lateError' = lateError
        BY <3>10 DEF Link
      <4>2. obs'[o].id = i /\ \A p \in Observers \ {o} : obs'[p] = obs[p]
        BY <3>10 DEF Link, Observer
      <4>3. ~lateError => \A p \in Observers : obs[p].id = NoId
        BY <3>10 DEF Link
      <4> QED BY <4>1, <4>2, <4>3
    <3>11. ASSUME NEW i \in Ids, CreateExclusive(o, i) PROVE OneIdentity' BY <3>11 DEF CreateExclusive
    <3> QED BY <2>1, <3>1, <3>2, <3>3, <3>4, <3>5, <3>6, <3>7, <3>8, <3>9, <3>10, <3>11 DEF Identify
  <2>2. ASSUME NEW o \in Observers, Start(o) PROVE OneIdentity'
    <3>1. CASE AcquireLock(o)
      <4>1. CASE Go(o, "load") BY <3>1, <4>1 DEF AcquireLock
      <4>2. CASE Exit(o) BY <3>1, <4>2 DEF AcquireLock
      <4> QED BY <3>1, <4>1, <4>2 DEF AcquireLock
    <3>2. CASE Load(o) BY <3>2 DEF Load
    <3>3. CASE Recover(o) BY <3>3 DEF Recover
    <3>4. CASE RecoveryFails(o) BY <3>4 DEF RecoveryFails
    <3>5. CASE Probe(o) BY <3>5 DEF Probe
    <3>6. CASE NotWritable(o) BY <3>6 DEF NotWritable
    <3> QED BY <2>2, <3>1, <3>2, <3>3, <3>4, <3>5, <3>6 DEF Start
  <2>3. ASSUME NEW o \in Observers, Measure(o) PROVE OneIdentity'
    <3>1. CASE Join(o) BY <3>1 DEF Join
    <3>2. CASE JoinFails(o) BY <3>2 DEF JoinFails
    <3>3. CASE Enroll(o) BY <3>3 DEF Enroll, RowAfterRegister, After
    <3>4. CASE EnrollFails(o) BY <3>4 DEF EnrollFails, After
    <3>5. CASE NothingToRestore(o) BY <3>5 DEF NothingToRestore
    <3>6. CASE Record(o) BY <3>6 DEF Record
    <3>7. CASE Count(o) BY <3>7 DEF Count
    <3>8. CASE Save(o) BY <3>8 DEF Save, AfterSave, After
    <3>9. CASE SaveFails(o) BY <3>9 DEF SaveFails, AfterFailedSave, After
    <3>10. CASE Post(o) BY <3>10 DEF Post
    <3>11. CASE PostRefused(o) BY <3>11 DEF PostRefused, After
    <3>12. CASE PostFails(o) BY <3>12 DEF PostFails, After
    <3> QED BY <2>3, <3>1, <3>2, <3>3, <3>4, <3>5, <3>6, <3>7, <3>8, <3>9, <3>10, <3>11, <3>12 DEF Measure
  <2>4. ASSUME NEW o \in Observers, Stop(o) PROVE OneIdentity'
    <3>1. CASE Interrupt(o)
      <4> DEFINE r == IF At(o, Loop) /\ ~obs[o].closing
                      THEN [obs[o] EXCEPT !.closing = TRUE, !.at = "save"]
                      ELSE [obs[o] EXCEPT !.at = "lastSave"]
      <4>1. obs' = [obs EXCEPT ![o] = r]
        BY <3>1 DEF Interrupt
      <4>2. r.id = obs[o].id /\ r.at \in {"save", "lastSave"}
        BY DEF Observer
      <4> HIDE DEF r
      <4>3. obs'[o] = r /\ \A p \in Observers \ {o} : obs'[p] = obs[p]
        BY <4>1
      <4>4. UNCHANGED <<idFile, lateError, posts, central, saved>>
        BY <3>1 DEF Interrupt
      <4> QED BY <4>2, <4>3, <4>4
    <3>2. CASE Release(o) BY <3>2 DEF Release
    <3>3. CASE Kill(o) BY <3>3 DEF Kill
    <3> QED BY <2>4, <3>1, <3>2, <3>3 DEF Stop
  <2>5. ASSUME NEW p \in posts, Ingest(p) PROVE OneIdentity'
    BY <2>5 DEF Ingest, Answers
  <2>6. CASE Damage BY <2>6 DEF Damage
  <2>7. ASSUME NEW i \in Ids, Approve(i) PROVE OneIdentity' BY <2>7 DEF Approve
  <2>8. ASSUME NEW i \in Ids, Disconnect(i) PROVE OneIdentity' BY <2>8 DEF Disconnect
  <2>9. CASE UNCHANGED vars BY <2>9 DEF vars
  <2> QED BY <2>1, <2>2, <2>3, <2>4, <2>5, <2>6, <2>7, <2>8, <2>9 DEF Next
<1> QED BY <1>1, <1>2, TypeInvariance, PTL DEF Spec

\* The server only ever learns what is safe on the machine's disk.
THEOREM SummariesAreDurable == Spec => []SummaryIsDurable
<1> DEFINE Durable == UploadInv /\ SummaryIsDurable
<1>1. Init => Durable
  BY ObserverAssumption DEF Init, UploadInv, SummaryIsDurable, Off, At
<1>2. TypeInv /\ Durable /\ [Next]_vars => Durable'
  <2> SUFFICES ASSUME TypeInv, Durable, [Next]_vars PROVE Durable' OBVIOUS
  <2> USE ObserverAssumption DEF UploadInv, SummaryIsDurable, TypeInv, ProcessesOK, FilesOK, At, Go, Exit, Off, NoFile, local, disk, server, identity
  <2>1. ASSUME NEW o \in Observers, Identify(o) PROVE Durable'
    <3>1. CASE Launch(o) BY <3>1 DEF Launch
    <3>2. CASE Adopt(o) BY <3>2 DEF Adopt, Complete
    <3>3. CASE NoIdentityYet(o) BY <3>3 DEF NoIdentityYet
    <3>4. CASE IdentityRefused(o) BY <3>4 DEF IdentityRefused
    <3>5. CASE LinkFails(o)
      <4>1. CASE Go(o, "await") BY <3>5, <4>1 DEF LinkFails
      <4>2. CASE Go(o, "excl") BY <3>5, <4>2 DEF LinkFails
      <4> QED BY <3>5, <4>1, <4>2 DEF LinkFails
    <3>6. CASE CreateFails(o) BY <3>6 DEF CreateFails
    <3>7. CASE WriteIdentity(o) BY <3>7 DEF WriteIdentity
    <3>8. CASE SyncIdentity(o) BY <3>8 DEF SyncIdentity
    <3>9. CASE WriteFails(o) BY <3>9 DEF WriteFails
    <3>10. ASSUME NEW i \in Ids, Link(o, i) PROVE Durable' BY <3>10 DEF Link
    <3>11. ASSUME NEW i \in Ids, CreateExclusive(o, i) PROVE Durable' BY <3>11 DEF CreateExclusive
    <3> QED BY <2>1, <3>1, <3>2, <3>3, <3>4, <3>5, <3>6, <3>7, <3>8, <3>9, <3>10, <3>11 DEF Identify
  <2>2. ASSUME NEW o \in Observers, Start(o) PROVE Durable'
    <3>1. CASE AcquireLock(o)
      <4>1. CASE Go(o, "load") BY <3>1, <4>1 DEF AcquireLock
      <4>2. CASE Exit(o) BY <3>1, <4>2 DEF AcquireLock
      <4> QED BY <3>1, <4>1, <4>2 DEF AcquireLock
    <3>2. CASE Load(o) BY <3>2 DEF Load
    <3>3. CASE Recover(o) BY <3>3 DEF Recover
    <3>4. CASE RecoveryFails(o) BY <3>4 DEF RecoveryFails
    <3>5. CASE Probe(o) BY <3>5 DEF Probe
    <3>6. CASE NotWritable(o) BY <3>6 DEF NotWritable
    <3> QED BY <2>2, <3>1, <3>2, <3>3, <3>4, <3>5, <3>6 DEF Start
  <2>3. ASSUME NEW o \in Observers, Measure(o) PROVE Durable'
    <3>1. CASE Join(o) BY <3>1 DEF Join
    <3>2. CASE JoinFails(o) BY <3>2 DEF JoinFails
    <3>3. CASE Enroll(o) BY <3>3 DEF Enroll, RowAfterRegister, After
    <3>4. CASE EnrollFails(o) BY <3>4 DEF EnrollFails, After
    <3>5. CASE NothingToRestore(o) BY <3>5 DEF NothingToRestore
    <3>6. CASE Record(o) BY <3>6 DEF Record
    <3>7. CASE Count(o) BY <3>7 DEF Count
    <3>8. CASE Save(o) BY <3>8 DEF Save, AfterSave, After
    <3>9. CASE SaveFails(o)
      <4>1. AfterFailedSave(o) \notin {"enroll", "post"}
        BY <3>9 DEF SaveFails, Saving, AfterFailedSave, After
      <4> QED BY <3>9, <4>1 DEF SaveFails
    <3>10. CASE Post(o) BY <3>10 DEF Post
    <3>11. CASE PostRefused(o) BY <3>11 DEF PostRefused, After
    <3>12. CASE PostFails(o) BY <3>12 DEF PostFails, After
    <3> QED BY <2>3, <3>1, <3>2, <3>3, <3>4, <3>5, <3>6, <3>7, <3>8, <3>9, <3>10, <3>11, <3>12 DEF Measure
  <2>4. ASSUME NEW o \in Observers, Stop(o) PROVE Durable'
    <3>1. CASE Interrupt(o)
      <4> DEFINE r == IF At(o, Loop) /\ ~obs[o].closing
                      THEN [obs[o] EXCEPT !.closing = TRUE, !.at = "save"]
                      ELSE [obs[o] EXCEPT !.at = "lastSave"]
      <4>1. obs' = [obs EXCEPT ![o] = r]
        BY <3>1 DEF Interrupt
      <4>2. r.id = obs[o].id /\ r.at \in {"save", "lastSave"}
        BY DEF Observer
      <4> HIDE DEF r
      <4>3. obs'[o] = r /\ \A p \in Observers \ {o} : obs'[p] = obs[p]
        BY <4>1
      <4>4. UNCHANGED <<idFile, lateError, posts, central, saved>>
        BY <3>1 DEF Interrupt
      <4> QED BY <4>2, <4>3, <4>4
    <3>2. CASE Release(o) BY <3>2 DEF Release
    <3>3. CASE Kill(o) BY <3>3 DEF Kill
    <3> QED BY <2>4, <3>1, <3>2, <3>3 DEF Stop
  <2>5. ASSUME NEW p \in posts, Ingest(p) PROVE Durable'
    BY <2>5 DEF Ingest, Answers
  <2>6. CASE Damage BY <2>6 DEF Damage
  <2>7. ASSUME NEW i \in Ids, Approve(i) PROVE Durable' BY <2>7 DEF Approve
  <2>8. ASSUME NEW i \in Ids, Disconnect(i) PROVE Durable' BY <2>8 DEF Disconnect
  <2>9. CASE UNCHANGED vars BY <2>9 DEF vars
  <2> QED BY <2>1, <2>2, <2>3, <2>4, <2>5, <2>6, <2>7, <2>8, <2>9 DEF Next
<1>3. Durable => SummaryIsDurable OBVIOUS
<1> QED BY <1>1, <1>2, <1>3, TypeInvariance, PTL DEF Spec

-----------------------------------------------------------------------------
(* The cadence of the uploads, while nothing fails. *)

\* Where an observer has no samples of its own yet.
Ahead == {"off"} \cup Early \cup Loading \cup {"probe", "join"}

\* An upload is overdue by no more than the samples since the last save.
Lags(r) == r.samples - r.lastUpload <= PostEvery - 1 + (r.samples % SaveEvery)

\* All but one sample of r are among those in has.
AllButOne(r, has) == \E x : r.mem \ has \subseteq {x}

\* An observer r whose summary is has and whose row says row uploads when it should.
OnTime(r, has, row) ==
  /\ r.at \in Ahead => r.enrolled = "no"
  /\ r.at \in Ahead \cup {"restore"} => r.samples = 0 /\ r.lastUpload = 0
  /\ r.at \in Ahead \cup {"restore", "sample", "count"} => ~r.closing
  /\ r.enrolled = "approved" => row = "approved"
  /\ r.lastUpload <= r.samples
  /\ r.at \in {"sample", "count"} /\ r.enrolled = "approved" /\ r.samples > 0 =>
       r.lastUpload > 0 /\ Lags(r)
  /\ r.at \in {"enroll", "post", "posted"} \/ (r.at = "save" /\ ~r.closing) =>
       r.lastUpload < r.samples
  /\ r.at \in {"post", "posted"} => r.enrolled = "approved"
  /\ r.lastUpload = r.samples /\ r.samples > 0 =>
       /\ r.at = "sample" => r.mem \subseteq has
       /\ r.at \in {"count", "save"} => AllButOne(r, has)
  /\ r.at \in {"lastSave", "release"} /\ r.enrolled = "approved" /\ r.samples > 0 =>
       AllButOne(r, has)

\* Whoever sent the upload p waits for it still, or is about to repeat it on its way out.
StillAt(p, r) ==
  /\ r.id = p.id /\ r.mem = p.has
  /\ \/ r.at = "posted"
     \/ /\ r.closing /\ r.enrolled = "approved" /\ r.lastUpload < r.samples
        /\ r.at \in {"save", "enroll", "post"}

RollupInv ==
  faults = 0 =>
    /\ \A o \in Observers : OnTime(obs[o], central[obs[o].id], rows[obs[o].id])
    /\ \A p \in posts : StillAt(p, obs[p.from])

\* A product grows by a factor at least when the other factor grows.
LEMMA Multiples ==
  ASSUME NEW s \in Nat \ {0}, NEW a \in Int, NEW b \in Int, a < b
  PROVE  s * a + s <= s * b
<1>1. b - a - 1 \in Nat
  BY SMT
<1>2. (b - a - 1) * s >= 0
  BY <1>1, SMT
<1>. QED  BY <1>2, SMT

\* Division with a remainder.
LEMMA Remainder ==
  ASSUME NEW s \in Nat \ {0}, NEW n \in Nat
  PROVE  n = s * (n \div s) + (n % s) /\ n % s \in 0..(s - 1) /\ n \div s \in Nat
BY SMT

\* Between two multiples of s the remainder counts.
LEMMA RemainderCounts ==
  ASSUME NEW s \in Nat \ {0}, NEW n \in Nat, (n + 1) % s # 0
  PROVE  (n + 1) % s = (n % s) + 1
<1>. DEFINE q == n \div s
           u == (n + 1) \div s
<1>1. n = s * q + (n % s) /\ n % s \in 0..(s - 1) /\ q \in Nat
  BY Remainder
<1>2. n + 1 \in Nat
  OBVIOUS
<1>3. n + 1 = s * u + ((n + 1) % s) /\ (n + 1) % s \in 0..(s - 1) /\ u \in Nat
  BY <1>2, Remainder
<1>. HIDE DEF q, u
<1>4. ~(q < u)
  BY <1>1, <1>3, Multiples
<1>5. ~(u < q)
  BY <1>1, <1>3, Multiples
<1>6. q = u
  BY <1>1, <1>3, <1>4, <1>5
<1>. QED  BY <1>1, <1>3, <1>6

\* A step of one process: the others are on time as before.
LEMMA OwnStep ==
  ASSUME TypeInv, RollupInv, faults = 0, NEW o \in Observers,
         \A q \in Observers \ {o} : obs'[q] = obs[q], central' = central,
         \A i \in Ids : rows[i] = "approved" => rows'[i] = "approved",
         OnTime(obs'[o], central[obs'[o].id], rows'[obs'[o].id]),
         \A p \in posts' : p \in posts \/ (p.from = o /\ StillAt(p, obs'[o])),
         \A p \in posts : p.from = o => StillAt(p, obs'[o])
  PROVE  RollupInv'
<1>1. ASSUME NEW q \in Observers, q # o
      PROVE  OnTime(obs'[q], central'[obs'[q].id], rows'[obs'[q].id])
  <2>1. obs'[q] = obs[q] /\ OnTime(obs[q], central[obs[q].id], rows[obs[q].id])
    BY <1>1 DEF RollupInv
  <2>2. obs[q] \in Observer /\ (obs[q].at \notin Ahead => obs[q].id \in Ids)
    BY DEF TypeInv, ProcessesOK, At, Observer, Ahead, Holding, Measuring, Loading, Early, Before
  <2>3. obs[q].enrolled = "approved" => rows'[obs[q].id] = "approved"
    BY <2>1, <2>2 DEF OnTime
  <2>. QED  BY <2>1, <2>3 DEF OnTime
<1>2. ASSUME NEW p \in posts' PROVE StillAt(p, obs'[p.from])
  <2>1. CASE p.from = o
    BY <1>2, <2>1
  <2>2. CASE p.from # o
    <3>1. p \in posts /\ p.from \in Observers
      BY <1>2, <2>2 DEF TypeInv, FilesOK
    <3>. QED  BY <2>2, <3>1 DEF RollupInv
  <2>. QED  BY <2>1, <2>2
<1>. QED  BY <1>1, <1>2 DEF RollupInv

\* Before its profile is loaded an observer has nothing to upload.
LEMMA AheadOnTime ==
  ASSUME TypeInv, RollupInv, faults = 0, NEW o \in Observers,
         Identify(o) \/ Start(o) \/ Release(o), faults' = 0
  PROVE  RollupInv'
<1> USE DEF Ahead, Early, Loading
<1>1. obs[o].at \in Ahead \cup {"release"} /\ OnTime(obs[o], central[obs[o].id], rows[obs[o].id])
  BY DEF Identify, Launch, Adopt, NoIdentityYet, IdentityRefused, LinkFails, CreateFails,
    WriteIdentity, SyncIdentity, WriteFails, Link, CreateExclusive, Start, AcquireLock, Load,
    Recover, RecoveryFails, Probe, NotWritable, Release, At, RollupInv
<1>2. central' = central /\ rows' = rows /\ posts' = posts
  BY DEF Identify, Launch, Adopt, NoIdentityYet, IdentityRefused, LinkFails, CreateFails,
    WriteIdentity, SyncIdentity, WriteFails, Link, CreateExclusive, Start, AcquireLock, Load,
    Recover, RecoveryFails, Probe, NotWritable, Release, identity, server
<1>7. \A q \in Observers \ {o} : obs'[q] = obs[q]
  BY DEF Identify, Launch, Adopt, NoIdentityYet, IdentityRefused, LinkFails, CreateFails,
    WriteIdentity, SyncIdentity, WriteFails, Link, CreateExclusive, Start, AcquireLock, Load,
    Recover, RecoveryFails, Probe, NotWritable, Release, Go, Exit, TypeInv, ProcessesOK
<1>3. /\ obs'[o].at \in Ahead /\ obs'[o].enrolled = "no" /\ ~obs'[o].closing
      /\ obs'[o].samples = 0 /\ obs'[o].lastUpload = 0
  <2> USE DEF TypeInv, ProcessesOK, Observer, Off, Go, Exit, At
  <2>1. obs[o] \in Observer
    OBVIOUS
  <2>2. obs[o].at \in Ahead => obs[o].enrolled = "no" /\ ~obs[o].closing
                               /\ obs[o].samples = 0 /\ obs[o].lastUpload = 0
    BY <1>1 DEF OnTime
  <2>3. CASE Exit(o)
    BY <2>3
  <2>4. CASE \/ Launch(o) \/ NoIdentityYet(o) \/ LinkFails(o) \/ CreateFails(o)
             \/ WriteIdentity(o) \/ AcquireLock(o) \/ Recover(o) \/ RecoveryFails(o) \/ Probe(o)
    <3>1. \/ Exit(o)
          \/ obs[o].at \in Ahead /\ \E a \in Ahead : Go(o, a)
      BY <2>4 DEF Launch, NoIdentityYet, LinkFails, CreateFails, WriteIdentity, AcquireLock,
        Recover, RecoveryFails, Probe
    <3>. QED  BY <2>2, <2>3, <3>1
  <2>5. CASE Adopt(o) \/ SyncIdentity(o)
    <3>1. obs[o].at \in Ahead /\ obs' = [obs EXCEPT ![o].at = "lock", ![o].id = idFile.id]
      BY <2>5 DEF Adopt, SyncIdentity
    <3>. QED  BY <2>2, <3>1
  <2>6. ASSUME NEW i \in Ids, Link(o, i) PROVE <1>3
    <3>1. obs[o].at \in Ahead /\ obs' = [obs EXCEPT ![o].at = "lock", ![o].id = i]
      BY <2>6 DEF Link
    <3>. QED  BY <2>2, <3>1
  <2>7. ASSUME NEW i \in Ids, CreateExclusive(o, i) PROVE <1>3
    <3>1. obs[o].at \in Ahead /\ Go(o, "write")
      BY <2>7 DEF CreateExclusive
    <3>. QED  BY <2>2, <3>1
  <2>8. CASE Load(o)
    <3>1. obs[o].at \in Ahead /\ obs' = [obs EXCEPT ![o].at = "probe", ![o].mem = profile.has]
      BY <2>8 DEF Load
    <3>. QED  BY <2>2, <3>1
  <2>9. CASE IdentityRefused(o) \/ WriteFails(o) \/ NotWritable(o) \/ Release(o)
    BY <2>3, <2>9 DEF IdentityRefused, WriteFails, NotWritable, Release
  <2>. QED  BY <2>4, <2>5, <2>6, <2>7, <2>8, <2>9 DEF Identify, Start
<1>4. \A p \in posts : p.from = o => ~StillAt(p, obs[o])
  BY <1>1 DEF OnTime, StillAt
<1>5. \A p \in posts : p.from # o
  BY <1>4 DEF RollupInv
<1>6. OnTime(obs'[o], central[obs'[o].id], rows'[obs'[o].id])
  BY <1>3 DEF OnTime
<1>. QED  BY <1>2, <1>5, <1>6, <1>7, OwnStep

\* What a step of the loop leaves of an observer that is on time.
LEMMA OwnFacts ==
  ASSUME TypeInv, RollupInv, faults = 0, NEW o \in Observers
  PROVE  /\ obs \in [Observers -> Observer] /\ obs[o] \in Observer
         /\ obs[o].samples \in Nat /\ obs[o].lastUpload \in Nat
         /\ obs[o].at \notin Ahead => obs[o].id \in Ids
         /\ OnTime(obs[o], central[obs[o].id], rows[obs[o].id])
         /\ \A p \in posts : p.from = o => StillAt(p, obs[o])
         /\ PostEvery \in Nat \ {0} /\ SaveEvery \in Nat \ {0}
         /\ obs[o].samples % SaveEvery \in 0..(SaveEvery - 1)
<1>1. obs \in [Observers -> Observer] /\ obs[o] \in Observer
  BY DEF TypeInv, ProcessesOK
<1>2. obs[o].samples \in Nat /\ obs[o].lastUpload \in Nat
  BY <1>1 DEF Observer
<1>3. PostEvery \in Nat \ {0} /\ SaveEvery \in Nat \ {0}
  BY ObserverAssumption
<1>4. obs[o].samples % SaveEvery \in 0..(SaveEvery - 1)
  BY <1>2, <1>3, Remainder
<1>5. obs[o].at \notin Ahead => obs[o].id \in Ids
  BY <1>1 DEF TypeInv, ProcessesOK, At, Observer, Ahead, Holding, Measuring, Loading, Early, Before
<1>6. /\ OnTime(obs[o], central[obs[o].id], rows[obs[o].id])
      /\ \A p \in posts : p.from = o => StillAt(p, obs[o])
  BY DEF RollupInv
<1>. QED  BY <1>1, <1>2, <1>3, <1>4, <1>5, <1>6

\* A sample is taken, and counted, and an upload follows within the cadence.
LEMMA SamplingOnTime ==
  ASSUME TypeInv, RollupInv, faults = 0, NEW o \in Observers,
         Record(o) \/ Count(o) \/ JoinFails(o) \/ NothingToRestore(o), faults' = 0
  PROVE  RollupInv'
<1>. DEFINE r == obs[o]
            c == central[r.id]
<1>1. /\ obs \in [Observers -> Observer] /\ r \in Observer
      /\ r.samples \in Nat /\ r.lastUpload \in Nat /\ OnTime(r, c, rows[r.id])
      /\ PostEvery \in Nat \ {0} /\ SaveEvery \in Nat \ {0}
      /\ r.samples % SaveEvery \in 0..(SaveEvery - 1)
  BY OwnFacts
<1>2. /\ central' = central /\ rows' = rows /\ posts' = posts
      /\ \A q \in Observers \ {o} : obs'[q] = obs[q]
  BY <1>1 DEF Record, Count, JoinFails, NothingToRestore, server, local, Go
<1>3. r.at \in {"sample", "count", "join", "restore"}
  BY DEF Record, Count, JoinFails, NothingToRestore, At
<1>4. \A p \in posts : p.from # o
  <2>1. \A p \in posts : p.from = o => ~StillAt(p, r)
    BY <1>3 DEF StillAt
  <2>. QED  BY <2>1, OwnFacts
<1>5. OnTime(obs'[o], c, rows[r.id]) /\ obs'[o].id = r.id
  <2>1. CASE JoinFails(o) \/ NothingToRestore(o)
    <3>1. /\ r.at \in {"join", "restore"} /\ obs'[o].at \in {"restore", "sample"}
          /\ obs'[o].samples = r.samples /\ obs'[o].lastUpload = r.lastUpload
          /\ obs'[o].enrolled = r.enrolled /\ obs'[o].closing = r.closing /\ obs'[o].id = r.id
      BY <1>1, <2>1 DEF JoinFails, NothingToRestore, Go, At, Observer
    <3>. QED  BY <1>1, <3>1 DEF OnTime, Ahead, Early, Loading
  <2>2. CASE Record(o)
    <3>1. /\ r.at = "sample" /\ obs'[o].at = "count" /\ obs'[o].mem = r.mem \cup {taken + 1}
          /\ obs'[o].samples = r.samples /\ obs'[o].lastUpload = r.lastUpload
          /\ obs'[o].enrolled = r.enrolled /\ obs'[o].closing = r.closing /\ obs'[o].id = r.id
      BY <1>1, <2>2 DEF Record, At, Observer
    <3>2. r.mem \subseteq c => AllButOne(obs'[o], c)
      BY <3>1 DEF AllButOne
    <3>. QED  BY <1>1, <3>1, <3>2 DEF OnTime, Ahead, Early, Loading, Lags
  <2>3. CASE Count(o)
    <3>. DEFINE n == r.samples + 1
    <3>1. /\ r.at = "count" /\ obs'[o].at = IF SaveDue(n) THEN "save" ELSE "sample"
          /\ obs'[o].samples = n /\ obs'[o].lastUpload = r.lastUpload
          /\ obs'[o].enrolled = r.enrolled /\ obs'[o].closing = r.closing /\ obs'[o].id = r.id
      BY <1>1, <2>3 DEF Count, At, Observer
    <3>2. ~r.closing /\ r.lastUpload < n
      BY <1>1, <3>1 DEF OnTime
    <3>3. ASSUME ~SaveDue(n), r.enrolled = "approved"
          PROVE  r.lastUpload > 0 /\ Lags(obs'[o])
      <4>1. r.samples > 0 /\ n % SaveEvery = (r.samples % SaveEvery) + 1
        BY <1>1, <3>3, RemainderCounts DEF SaveDue
      <4>2. r.lastUpload > 0 /\ Lags(r)
        BY <1>1, <3>1, <3>3, <4>1 DEF OnTime
      <4>. QED  BY <1>1, <3>1, <4>1, <4>2 DEF Lags
    <3>. HIDE DEF n
    <3>4. n \in Nat
      BY <1>1 DEF n
    <3>. QED  BY <1>1, <3>1, <3>2, <3>3, <3>4 DEF OnTime, Ahead, Early, Loading
  <2>. QED  BY <2>1, <2>2, <2>3
<1>. QED  BY <1>2, <1>4, <1>5, OwnStep

\* A registration never takes an approval back.
LEMMA RowsGrow ==
  ASSUME TypeInv, NEW i \in Ids, NEW j \in Ids, rows[j] = "approved"
  PROVE  [rows EXCEPT ![i] = RowAfterRegister(i)][j] = "approved"
BY DEF TypeInv, FilesOK, RowAfterRegister

\* The observer enrolls, before the loop or at one of its checkpoints: what it takes for its
\* status is what the server's row says, and an upload that is due follows at once.
LEMMA EnrollingOnTime ==
  ASSUME TypeInv, RollupInv, faults = 0, NEW o \in Observers, Join(o) \/ Enroll(o), faults' = 0
  PROVE  RollupInv'
<1>. DEFINE r == obs[o]
            c == central[r.id]
<1>1. /\ obs \in [Observers -> Observer] /\ r \in Observer
      /\ r.samples \in Nat /\ r.lastUpload \in Nat /\ OnTime(r, c, rows[r.id])
      /\ PostEvery \in Nat \ {0} /\ SaveEvery \in Nat \ {0}
      /\ r.samples % SaveEvery \in 0..(SaveEvery - 1)
      /\ \A p \in posts : p.from = o => StillAt(p, r)
  BY OwnFacts
<1>2. /\ central' = central /\ posts' = posts
      /\ \A q \in Observers \ {o} : obs'[q] = obs[q]
  BY <1>1 DEF Join, Enroll, local, Go
<1>3. r.id \in Ids /\ rows \in [Ids -> {"no", "pending", "approved"}]
      /\ r.enrolled \in {"no", "pending", "approved"}
  <2>1. r.at \in {"join", "enroll"}
    BY DEF Join, Enroll, At
  <2>2. r.id # NoId
    BY <2>1 DEF TypeInv, ProcessesOK, At, Holding, Measuring, Before, Loop
  <2>. QED  BY <1>1, <2>2 DEF Observer, TypeInv, FilesOK
<1>4. CASE Join(o)
  <2>1. /\ r.at = "join" /\ obs'[o].at = "restore" /\ obs'[o].enrolled = RowAfterRegister(r.id)
        /\ obs'[o].samples = r.samples /\ obs'[o].lastUpload = r.lastUpload
        /\ obs'[o].closing = r.closing /\ obs'[o].id = r.id
        /\ rows' = [rows EXCEPT ![r.id] = RowAfterRegister(r.id)]
    BY <1>1, <1>4 DEF Join, At, Observer
  <2>2. \A j \in Ids : rows[j] = "approved" => rows'[j] = "approved"
    BY <1>3, <2>1, RowsGrow
  <2>3. rows'[r.id] = RowAfterRegister(r.id)
    BY <1>3, <2>1
  <2>4. OnTime(obs'[o], c, rows'[r.id])
    <3>1. ~r.closing /\ r.samples = 0 /\ r.lastUpload = 0
      BY <1>1, <2>1 DEF OnTime, Ahead
    <3>2. /\ obs'[o].at = "restore" /\ obs'[o].enrolled = rows'[r.id] /\ ~obs'[o].closing
          /\ obs'[o].samples = 0 /\ obs'[o].lastUpload = 0
      BY <2>1, <2>3, <3>1
    <3>. QED  BY <3>2 DEF OnTime, Ahead, Early, Loading
  <2>5. \A p \in posts : p.from # o
    <3>1. ~r.closing
      BY <1>1, <2>1 DEF OnTime, Ahead
    <3>. QED  BY <1>1, <2>1, <3>1 DEF StillAt
  <2>. QED  BY <1>2, <2>1, <2>2, <2>4, <2>5, OwnStep
<1>5. CASE Enroll(o)
  <2>. DEFINE status == CASE r.enrolled = "no"       -> RowAfterRegister(r.id)
                          [] r.enrolled = "pending"  -> rows[r.id]
                          [] r.enrolled = "approved" -> "approved"
  <2>1. /\ r.at = "enroll" /\ obs'[o].enrolled = status
        /\ obs'[o].at = (IF status = "approved" /\ Due(o) THEN "post" ELSE After(o))
        /\ obs'[o].samples = r.samples /\ obs'[o].lastUpload = r.lastUpload
        /\ obs'[o].closing = r.closing /\ obs'[o].id = r.id /\ obs'[o].mem = r.mem
    BY <1>1, <1>5 DEF Enroll, At, Observer
  <2>2. rows' = IF r.enrolled = "no" THEN [rows EXCEPT ![r.id] = RowAfterRegister(r.id)] ELSE rows
    BY <1>5 DEF Enroll
  <2>3. \A j \in Ids : rows[j] = "approved" => rows'[j] = "approved"
    BY <1>3, <2>2, RowsGrow
  <2>4. status = "approved" => rows'[r.id] = "approved"
    <3>1. CASE r.enrolled = "no"
      BY <1>3, <2>2, <3>1
    <3>2. CASE r.enrolled = "pending"
      BY <1>3, <2>2, <3>2
    <3>3. CASE r.enrolled = "approved"
      BY <1>1, <2>2, <3>3 DEF OnTime
    <3>. QED  BY <1>3, <3>1, <3>2, <3>3
  <2>5. r.enrolled = "approved" => status = "approved"
    OBVIOUS
  <2>. HIDE DEF status
  <2>6. r.lastUpload < r.samples /\ r.closing \in BOOLEAN
    BY <1>1, <2>1 DEF OnTime, Observer
  <2>7. After(o) = IF r.closing THEN "lastSave" ELSE "sample"
    BY DEF After
  <2>8. ~Due(o) => ~r.closing /\ r.lastUpload > 0 /\ r.samples - r.lastUpload < PostEvery
    BY <1>1 DEF Due
  <2>9. OnTime(obs'[o], c, rows'[r.id])
    <3>1. CASE obs'[o].at = "post"
      BY <1>1, <2>1, <2>4, <2>6, <2>7, <3>1 DEF OnTime, Ahead, Early, Loading
    <3>2. CASE obs'[o].at = "lastSave"
      BY <1>1, <2>1, <2>4, <2>6, <2>7, <2>8, <3>2 DEF OnTime, Ahead, Early, Loading
    <3>3. CASE obs'[o].at = "sample"
      BY <1>1, <2>1, <2>4, <2>6, <2>7, <2>8, <3>3 DEF OnTime, Ahead, Early, Loading, Lags
    <3>. QED  BY <2>1, <2>7, <3>1, <3>2, <3>3
  <2>10. \A p \in posts : p.from = o => StillAt(p, obs'[o])
    <3>1. r.closing => Due(o)
      BY DEF Due
    <3>. QED  BY <1>1, <2>1, <2>5, <3>1 DEF StillAt
  <2>. QED  BY <1>2, <2>1, <2>3, <2>9, <2>10, OwnStep
<1>. QED  BY <1>4, <1>5

\* A save is followed by an enrollment, or by the end if everything counted was uploaded.
LEMMA SavingOnTime ==
  ASSUME TypeInv, RollupInv, faults = 0, NEW o \in Observers, Save(o), faults' = 0
  PROVE  RollupInv'
<1>. DEFINE r == obs[o]
            c == central[r.id]
<1>1. /\ obs \in [Observers -> Observer] /\ r \in Observer
      /\ r.samples \in Nat /\ r.lastUpload \in Nat /\ OnTime(r, c, rows[r.id])
      /\ \A p \in posts : p.from = o => StillAt(p, r)
  BY OwnFacts
<1>2. /\ central' = central /\ rows' = rows /\ posts' = posts
      /\ \A q \in Observers \ {o} : obs'[q] = obs[q]
  BY <1>1 DEF Save, server, Go
<1>3. /\ r.at \in {"restore", "save", "lastSave"} /\ obs'[o].at = AfterSave(o)
      /\ obs'[o].samples = r.samples /\ obs'[o].lastUpload = r.lastUpload
      /\ obs'[o].enrolled = r.enrolled /\ obs'[o].closing = r.closing /\ obs'[o].id = r.id
      /\ obs'[o].mem = r.mem
  BY <1>1 DEF Save, Go, At, Saving, Observer
<1>4. CASE r.at \in {"restore", "lastSave"}
  <2>1. AfterSave(o) = IF r.at = "restore" THEN "sample" ELSE "release"
    BY <1>4 DEF AfterSave, At
  <2>2. OnTime(obs'[o], c, rows[r.id])
    BY <1>1, <1>3, <1>4, <2>1 DEF OnTime, Ahead, Early, Loading, AllButOne
  <2>3. \A p \in posts : p.from # o
    BY <1>1, <1>4 DEF StillAt
  <2>. QED  BY <1>2, <1>3, <2>2, <2>3, OwnStep
<1>5. CASE r.at = "save"
  <2>1. AfterSave(o) = IF ~r.closing \/ (r.samples > 0 /\ r.lastUpload # r.samples)
                       THEN "enroll" ELSE "lastSave"
    BY <1>5 DEF AfterSave, At
  <2>2. OnTime(obs'[o], c, rows[r.id])
    BY <1>1, <1>3, <1>5, <2>1 DEF OnTime, Ahead, Early, Loading, AllButOne
  <2>3. \A p \in posts : p.from = o => StillAt(p, obs'[o])
    BY <1>1, <1>3, <1>5, <2>1 DEF StillAt
  <2>. QED  BY <1>2, <1>3, <2>2, <2>3, OwnStep
<1>. QED  BY <1>3, <1>4, <1>5

\* An upload that leaves is waited for.
LEMMA PostingOnTime ==
  ASSUME TypeInv, RollupInv, faults = 0, NEW o \in Observers, Post(o) \/ PostRefused(o), faults' = 0
  PROVE  RollupInv'
<1>. DEFINE r == obs[o]
            c == central[r.id]
            sent == [from |-> o, id |-> r.id, has |-> r.mem]
<1>1. /\ obs \in [Observers -> Observer] /\ r \in Observer
      /\ r.samples \in Nat /\ r.lastUpload \in Nat /\ OnTime(r, c, rows[r.id])
      /\ \A p \in posts : p.from = o => StillAt(p, r)
  BY OwnFacts
<1>2. r.at = "post"
  BY DEF Post, PostRefused, At
<1>3. r.enrolled = "approved" /\ rows[r.id] = "approved" /\ r.lastUpload < r.samples
  BY <1>1, <1>2 DEF OnTime
<1>4. Post(o)
  BY <1>3 DEF PostRefused
<1>5. /\ central' = central /\ rows' = rows /\ posts' = posts \cup {sent}
      /\ \A q \in Observers \ {o} : obs'[q] = obs[q]
      /\ obs'[o].at = "posted" /\ obs'[o].id = r.id /\ obs'[o].mem = r.mem
      /\ obs'[o].samples = r.samples /\ obs'[o].lastUpload = r.lastUpload
      /\ obs'[o].enrolled = r.enrolled /\ obs'[o].closing = r.closing
  BY <1>1, <1>4 DEF Post, local, Go, Observer
<1>6. OnTime(obs'[o], c, rows[r.id])
  BY <1>1, <1>3, <1>5 DEF OnTime, Ahead, Early, Loading
<1>7. StillAt(sent, obs'[o]) /\ sent.from = o
  BY <1>5 DEF StillAt
<1>8. \A p \in posts : p.from = o => StillAt(p, obs'[o])
  BY <1>1, <1>5 DEF StillAt
<1>. QED  BY <1>5, <1>6, <1>7, <1>8, OwnStep

\* A stop in the loop leads to one more save.
LEMMA StoppingOnTime ==
  ASSUME TypeInv, RollupInv, faults = 0, NEW o \in Observers, Interrupt(o), faults' = 0
  PROVE  RollupInv'
<1>. DEFINE r == obs[o]
            c == central[r.id]
<1>1. /\ obs \in [Observers -> Observer] /\ r \in Observer
      /\ r.samples \in Nat /\ r.lastUpload \in Nat /\ OnTime(r, c, rows[r.id])
      /\ \A p \in posts : p.from = o => StillAt(p, r)
  BY OwnFacts
<1>2. r.at \in Loop /\ ~r.closing /\ obs' = [obs EXCEPT ![o].closing = TRUE, ![o].at = "save"]
  <2>1. ~Fault
    BY DEF Fault
  <2>. QED  BY <2>1 DEF Interrupt, At
<1>3. /\ central' = central /\ rows' = rows /\ posts' = posts
      /\ \A q \in Observers \ {o} : obs'[q] = obs[q]
      /\ obs'[o].at = "save" /\ obs'[o].id = r.id /\ obs'[o].mem = r.mem
      /\ obs'[o].samples = r.samples /\ obs'[o].lastUpload = r.lastUpload
      /\ obs'[o].enrolled = r.enrolled /\ obs'[o].closing
  BY <1>1, <1>2 DEF Interrupt, server, Observer
<1>4. r.lastUpload = r.samples /\ r.samples > 0 => AllButOne(r, c)
  <2>1. r.at \in {"enroll", "post", "posted", "save"} => r.lastUpload < r.samples
    BY <1>1, <1>2 DEF OnTime
  <2>2. r.mem \subseteq c => AllButOne(r, c)
    BY DEF AllButOne
  <2>. QED  BY <1>1, <1>2, <2>1, <2>2 DEF OnTime, Loop
<1>5. OnTime(obs'[o], c, rows[r.id])
  <2>1. r.lastUpload <= r.samples /\ (r.enrolled = "approved" => rows[r.id] = "approved")
    BY <1>1 DEF OnTime
  <2>2. r.lastUpload = r.samples /\ r.samples > 0 => AllButOne(obs'[o], c)
    BY <1>3, <1>4 DEF AllButOne
  <2>. QED  BY <1>3, <2>1, <2>2 DEF OnTime, Ahead, Early, Loading
<1>6. \A p \in posts : p.from = o => StillAt(p, obs'[o])
  <2>1. r.at = "posted" => r.enrolled = "approved" /\ r.lastUpload < r.samples
    BY <1>1 DEF OnTime
  <2>. QED  BY <1>1, <1>2, <1>3, <2>1 DEF StillAt
<1>. QED  BY <1>3, <1>5, <1>6, OwnStep

\* While nothing fails, an upload that is written is the sender's latest, and the sender, who
\* holds the lock, is the only one of its identity with samples of its own.
LEMMA IngestingOnTime ==
  ASSUME TypeInv, HolderInv, RollupInv, faults = 0, NEW p \in posts, Ingest(p), faults' = 0
  PROVE  RollupInv'
<1>. DEFINE o == p.from
            r == obs[o]
<1>1. o \in Observers /\ p.id \in Ids /\ central \in [Ids -> SUBSET Samples]
  BY DEF TypeInv, FilesOK
<1>2. /\ obs \in [Observers -> Observer] /\ r \in Observer
      /\ r.samples \in Nat /\ r.lastUpload \in Nat /\ OnTime(r, central[r.id], rows[r.id])
      /\ PostEvery \in Nat \ {0} /\ SaveEvery \in Nat \ {0}
      /\ r.samples % SaveEvery \in 0..(SaveEvery - 1)
      /\ \A q \in posts : q.from = o => StillAt(q, r)
  BY <1>1, OwnFacts
<1>3. StillAt(p, r) /\ r.id = p.id /\ r.mem = p.has
  BY <1>2 DEF StillAt
<1>4. rows' = rows /\ posts' = posts \ {p} /\ central' = [central EXCEPT ![p.id] = p.has]
  BY DEF Ingest
<1>5. central'[p.id] = r.mem /\ \A i \in Ids \ {p.id} : central'[i] = central[i]
  BY <1>1, <1>3, <1>4
<1>6. /\ \A q \in Observers \ {o} : obs'[q] = obs[q]
      /\ obs'[o].id = r.id /\ obs'[o].mem = r.mem
  BY <1>1, <1>2 DEF Ingest, Observer
<1>7. AllButOne(obs'[o], central'[p.id]) /\ obs'[o].mem \subseteq central'[p.id]
  BY <1>5, <1>6 DEF AllButOne
<1>8. OnTime(obs'[o], central'[obs'[o].id], rows'[obs'[o].id])
  <2>1. CASE Answers(p)
    <3>1. r.at = "posted" /\ r.enrolled = "approved" /\ r.lastUpload < r.samples
          /\ rows[r.id] = "approved"
      BY <1>2, <2>1 DEF Answers, At, OnTime
    <3>2. /\ obs'[o].lastUpload = r.samples /\ obs'[o].samples = r.samples
          /\ obs'[o].enrolled = r.enrolled /\ obs'[o].closing = r.closing
          /\ obs'[o].at = IF r.closing THEN "lastSave" ELSE "sample"
      BY <1>1, <1>2, <2>1 DEF Ingest, After, Observer
    <3>3. Lags(obs'[o]) /\ r.samples > 0
      BY <1>2, <3>1, <3>2 DEF Lags
    <3>. QED  BY <1>2, <1>3, <1>4, <1>6, <1>7, <3>1, <3>2, <3>3
              DEF OnTime, Ahead, Early, Loading
  <2>2. CASE ~Answers(p)
    <3>1. obs'[o] = r
      BY <2>2 DEF Ingest
    <3>. QED  BY <1>2, <1>3, <1>4, <1>7, <3>1 DEF OnTime
  <2>. QED  BY <2>1, <2>2
<1>9. \A q \in posts' : q.from = o => StillAt(q, obs'[o])
  <2>1. CASE Answers(p)
    <3>1. r.at = "posted"
      BY <2>1 DEF Answers, At
    <3>2. ASSUME NEW q \in posts', q.from = o PROVE q = p
      <4>1. q \in posts /\ q.from = p.from /\ q.id = p.id /\ q.has = p.has
        BY <1>2, <1>3, <1>4, <3>2 DEF StillAt
      <4>2. p \in [from: Observers, id: Ids, has: SUBSET Samples]
            /\ q \in [from: Observers, id: Ids, has: SUBSET Samples]
        BY <4>1 DEF TypeInv, FilesOK
      <4>. QED  BY <4>1, <4>2
    <3>. QED  BY <1>4, <3>2
  <2>2. CASE ~Answers(p)
    <3>1. obs'[o] = r
      BY <2>2 DEF Ingest
    <3>. QED  BY <1>2, <1>4, <3>1
  <2>. QED  BY <2>1, <2>2
<1>10. r.at \in Holding
  BY <1>3 DEF StillAt, Holding, Measuring, Loop
<1>11. ASSUME NEW q \in Observers, q # o
       PROVE  /\ OnTime(obs'[q], central'[obs'[q].id], rows'[obs'[q].id])
              /\ \A x \in posts : x.from = q => StillAt(x, obs'[q])
  <2>1. /\ obs'[q] = obs[q] /\ obs[q] \in Observer /\ OnTime(obs[q], central[obs[q].id], rows[obs[q].id])
        /\ \A x \in posts : x.from = q => StillAt(x, obs[q])
    BY <1>6, <1>11, OwnFacts
  <2>2. obs[q].at \in Ahead
    <3>1. ~At(q, Holding)
      BY <1>1, <1>10, <1>11 DEF HolderInv, At
    <3>. QED  BY <2>1, <3>1 DEF At, Ahead, Observer
  <2>3. OnTime(obs[q], central'[obs[q].id], rows[obs[q].id])
    BY <2>1, <2>2 DEF OnTime, Ahead, Early, Loading
  <2>. QED  BY <1>4, <2>1, <2>3
<1>12. \A q \in Observers : OnTime(obs'[q], central'[obs'[q].id], rows'[obs'[q].id])
  BY <1>8, <1>11
<1>13. \A x \in posts' : StillAt(x, obs'[x.from])
  <2>1. \A x \in posts' : x \in posts /\ x.from \in Observers
    BY <1>4 DEF TypeInv, FilesOK
  <2>. QED  BY <1>9, <1>11, <2>1
<1>. QED  BY <1>12, <1>13 DEF RollupInv

\* An approval is the server's own step: nobody's summary or upload changes.
LEMMA ApprovingOnTime ==
  ASSUME TypeInv, RollupInv, faults = 0, NEW i \in Ids, Approve(i)
  PROVE  RollupInv'
<1>1. obs' = obs /\ central' = central /\ posts' = posts /\ rows' = [rows EXCEPT ![i] = "approved"]
  BY DEF Approve
<1>2. \A q \in Observers : OnTime(obs[q], central[obs[q].id], rows'[obs[q].id])
  <2>. SUFFICES ASSUME NEW q \in Observers
                PROVE  OnTime(obs[q], central[obs[q].id], rows'[obs[q].id])
    OBVIOUS
  <2>1. OnTime(obs[q], central[obs[q].id], rows[obs[q].id])
    BY DEF RollupInv
  <2>2. obs[q].at \in Ahead => obs[q].enrolled = "no"
    BY <2>1 DEF OnTime
  <2>3. obs[q].enrolled = "approved" => obs[q].id \in Ids
    BY <2>2, OwnFacts
  <2>4. obs[q].enrolled = "approved" => rows'[obs[q].id] = "approved"
    BY <1>1, <2>1, <2>3 DEF OnTime, TypeInv, FilesOK
  <2>. QED  BY <2>1, <2>4 DEF OnTime
<1>. QED  BY <1>1, <1>2 DEF RollupInv

\* No step takes a fault back, and only a fault fails.
LEMMA FaultsCount ==
  ASSUME TypeInv, NEW o \in Observers,
         \/ Identify(o) \/ Start(o) \/ Measure(o) \/ Stop(o)
         \/ (\E p \in posts : Ingest(p)) \/ Damage
         \/ \E i \in Ids : Approve(i) \/ Disconnect(i)
  PROVE  Fault \/ faults' = faults
<1>1. CASE Identify(o) \/ Start(o)
  BY <1>1 DEF Identify, Launch, Adopt, NoIdentityYet, IdentityRefused, LinkFails, CreateFails,
    WriteIdentity, SyncIdentity, WriteFails, Link, CreateExclusive, Start, AcquireLock, Load,
    Recover, RecoveryFails, Probe, NotWritable
<1>2. CASE Measure(o) \/ Stop(o)
  BY <1>2 DEF Measure, Join, JoinFails, Enroll, EnrollFails, NothingToRestore, Record, Count,
    Save, SaveFails, Post, PostRefused, PostFails, Stop, Interrupt, Release, Kill
<1>3. ASSUME NEW p \in posts, Ingest(p) PROVE faults' = faults
  BY <1>3 DEF Ingest
<1>4. ASSUME NEW i \in Ids, Approve(i) \/ Disconnect(i) PROVE Fault \/ faults' = faults
  BY <1>4 DEF Approve, Disconnect
<1>. QED  BY <1>1, <1>2, <1>3, <1>4 DEF Damage

\* The invariant is kept.
LEMMA RollupStep ==
  ASSUME TypeInv, HolderInv, RollupInv, [Next]_vars
  PROVE  RollupInv'
<1>. SUFFICES ASSUME faults' = 0 PROVE RollupInv'
  BY DEF RollupInv
<1>1. CASE UNCHANGED vars
  BY <1>1 DEF vars, RollupInv, OnTime, StillAt, AllButOne, Lags
<1>. SUFFICES ASSUME Next PROVE RollupInv'
  BY <1>1
<1>2. faults \in Nat /\ (Fault => faults' # 0)
  BY DEF TypeInv, FilesOK, Fault
<1>3. ASSUME NEW o \in Observers, Identify(o) \/ Start(o) \/ Measure(o) \/ Stop(o)
      PROVE  RollupInv'
  <2>1. faults = 0
    BY <1>2, <1>3, FaultsCount
  <2>2. CASE Identify(o) \/ Start(o) \/ Release(o)
    BY <2>1, <2>2, AheadOnTime
  <2>3. CASE Record(o) \/ Count(o) \/ JoinFails(o) \/ NothingToRestore(o)
    BY <2>1, <2>3, SamplingOnTime
  <2>4. CASE Join(o) \/ Enroll(o)
    BY <2>1, <2>4, EnrollingOnTime
  <2>5. CASE Save(o)
    BY <2>1, <2>5, SavingOnTime
  <2>6. CASE Post(o) \/ PostRefused(o)
    BY <2>1, <2>6, PostingOnTime
  <2>7. CASE Interrupt(o)
    BY <2>1, <2>7, StoppingOnTime
  <2>8. CASE EnrollFails(o) \/ SaveFails(o) \/ PostFails(o) \/ Kill(o)
    BY <1>2, <2>8 DEF EnrollFails, SaveFails, PostFails, Kill
  <2>. QED  BY <1>3, <2>2, <2>3, <2>4, <2>5, <2>6, <2>7, <2>8 DEF Measure, Stop
<1>4. ASSUME NEW p \in posts, Ingest(p) PROVE RollupInv'
  BY <1>4, IngestingOnTime DEF Ingest
<1>5. ASSUME NEW i \in Ids, Approve(i) PROVE RollupInv'
  BY <1>5, ApprovingOnTime DEF Approve
<1>6. ~Damage /\ \A i \in Ids : ~Disconnect(i)
  BY <1>2 DEF Damage, Disconnect
<1>. QED  BY <1>3, <1>4, <1>5, <1>6 DEF Next

\* While nothing fails, the server's summary lags by less than an upload and a save interval, and
\* a stop leaves out one sample at most (run_measure_loop, its finally and ingest_profile).
THEOREM RollupsKeepUp == Spec => []RollupKeepsUp
<1>1. Init => RollupInv
  BY DEF Init, RollupInv, OnTime, Off, Ahead, Early, Loading
<1>2. TypeInv /\ HolderInv /\ RollupInv /\ [Next]_vars => RollupInv'
  BY RollupStep
<1>3. TypeInv /\ RollupInv => RollupKeepsUp
  <2>. SUFFICES ASSUME TypeInv, RollupInv, faults = 0, NEW o \in Observers,
                       obs[o].enrolled = "approved", obs[o].samples > 0
                PROVE  /\ obs[o].at = "sample" =>
                            obs[o].samples - obs[o].lastUpload < PostEvery + SaveEvery - 1
                       /\ obs[o].at = "release" =>
                            Cardinality(obs[o].mem \ central[obs[o].id]) <= 1
    BY DEF RollupKeepsUp, At
  <2>1. /\ obs[o].samples \in Nat /\ obs[o].lastUpload \in Nat
        /\ OnTime(obs[o], central[obs[o].id], rows[obs[o].id])
        /\ PostEvery \in Nat \ {0} /\ SaveEvery \in Nat \ {0}
        /\ obs[o].samples % SaveEvery \in 0..(SaveEvery - 1)
    BY OwnFacts
  <2>2. CASE obs[o].at = "sample"
    <3>1. Lags(obs[o])
      BY <2>1, <2>2 DEF OnTime
    <3>. QED  BY <2>1, <2>2, <3>1 DEF Lags
  <2>3. CASE obs[o].at = "release"
    <3>1. PICK x : obs[o].mem \ central[obs[o].id] \subseteq {x}
      BY <2>1, <2>3 DEF OnTime, AllButOne
    <3>2. obs[o].mem \ central[obs[o].id] \in {{}, {x}}
      BY <3>1
    <3>3. Cardinality({}) = 0 /\ Cardinality({x}) = 1
      BY FS_EmptySet, FS_Singleton
    <3>. QED  BY <2>3, <3>2, <3>3
  <2>. QED  BY <2>2, <2>3
<1>. QED  BY <1>1, <1>2, <1>3, TypeInvariance, HolderInvariance, PTL DEF Spec
=============================================================================
