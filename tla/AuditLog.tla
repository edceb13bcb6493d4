------------------------------- MODULE AuditLog -------------------------------
(***************************************************************************)
(* The hash-chained activity log of orchestrator/app.py: _emit appends an  *)
(* event whose hash covers the event and the hash of the row before it,    *)
(* and verify_audit_chain walks the rows and names the first broken link.  *)
(*                                                                         *)
(* A hash is the sequence of what went into it, so that two hashes are     *)
(* equal exactly when their inputs are.  A row written before the chain    *)
(* columns were added to the table has neither hash (NULL).                *)
(***************************************************************************)
EXTENDS Integers, Sequences, SequencesExt

CONSTANT MaxLegacy   \* bound: rows the table held before it had the chain's columns

ASSUME AuditAssumption == MaxLegacy \in Nat

VARIABLES
  log,       \* the events table, by id
  damaged    \* history: the place where a row was altered or deleted behind _emit's back, or 0

auditVars == <<log, damaged>>

Event(type, worker, job) == [type |-> type, worker |-> worker, job |-> job]
Nobody == "-"

Genesis == << >>
NullHash == <<Event("null", Nobody, 0)>>
Hash(prev, event) == Append(prev, event)

Row(event, prev, hash) == [event |-> event, prev |-> prev, hash |-> hash]
LegacyRow == Row(Event("old", Nobody, 0), NullHash, NullHash)
IsLegacy(row) == row.hash = NullHash

-----------------------------------------------------------------------------
(* Actions. *)

AuditInit ==
  /\ \E n \in 0..MaxLegacy : log = [i \in 1..n |-> LegacyRow]
  /\ damaged = 0

\* ORDER BY id ASC: the first row instead of the last.
Mutant_TailHash == IF log = << >> \/ IsLegacy(log[1]) THEN Genesis ELSE log[1].hash

\* The hash the next row is chained to: the last row's, or the anchor where there is none.
TailHash == IF log = << >> \/ IsLegacy(log[Len(log)]) THEN Genesis ELSE log[Len(log)].hash

\* _emit: the tail is read and the row inserted inside write_lock.
Emit(event) ==
  /\ log' = Append(log, Row(event, TailHash, Hash(TailHash, event)))
  /\ UNCHANGED damaged

\* The table is edited by hand, once, in the rows the chain covers.
MayDamage(i) == damaged = 0 /\ ~IsLegacy(log[i])

Edit(i) ==
  /\ MayDamage(i)
  /\ log' = [log EXCEPT ![i].event.type = "edited"]
  /\ damaged' = i

\* A row with a row behind it: the chain cannot know of rows missing from its end.
DeleteRow(i) ==
  /\ MayDamage(i) /\ i < Len(log)
  /\ log' = RemoveAt(log, i)
  /\ damaged' = i

Damage == \E i \in DOMAIN log : Edit(i) \/ DeleteRow(i)

\* The log by itself, whoever emits whatever.
AuditNext(Types, Workers, Jobs) ==
  \/ \E t \in Types, w \in Workers, j \in Jobs : Emit(Event(t, w, j))
  \/ Damage

AuditSpec(Types, Workers, Jobs) == AuditInit /\ [][AuditNext(Types, Workers, Jobs)]_auditVars

-----------------------------------------------------------------------------
(* verify_audit_chain *)

Running(i) == IF i = 1 THEN Genesis ELSE log[i - 1].hash

Broken(i) == log[i].prev # Running(i) \/ log[i].hash # Hash(Running(i), log[i].event)

\* broken_at; 0 when the chain is whole.
BrokenAt ==
  LET broken == {i \in DOMAIN log : Broken(i)} IN
  IF broken = {} THEN 0 ELSE CHOOSE i \in broken : \A k \in broken : i <= k

-----------------------------------------------------------------------------
(* Properties. *)

\* The rows are what the columns can hold.
AuditTypeOK ==
  /\ \A i \in DOMAIN log : /\ DOMAIN log[i] = {"event", "prev", "hash"}
                           /\ DOMAIN log[i].event = {"type", "worker", "job"}
  /\ damaged \in 0..Len(log)

\* verify_audit_chain reports the row that was altered, or the row that followed a deleted one,
\* however many events were logged after; it finds nothing exactly when nothing was touched.  A
\* table that began before the chain is reported broken at its first row, for ever.
VerifyIsExact ==
  BrokenAt = IF log # << >> /\ IsLegacy(log[1]) THEN 1 ELSE damaged

=============================================================================
