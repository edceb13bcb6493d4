----------------------------- MODULE AuditProofs -----------------------------
(***************************************************************************)
(* Proof that verify_audit_chain is exact, for a log of any length and any *)
(* events, whenever in its life the log is altered.                        *)
(***************************************************************************)
EXTENDS AuditLog, TLAPS

-----------------------------------------------------------------------------
(* What a log may hold. *)

AnyEvent(Ty, Wo, Jo) ==
  [type : Ty \cup {"old", "null", "edited"}, worker : Wo \cup {Nobody}, job : Jo \cup {0}]

Rows(Ty, Wo, Jo) ==
  [event : AnyEvent(Ty, Wo, Jo), prev : Seq(AnyEvent(Ty, Wo, Jo)), hash : Seq(AnyEvent(Ty, Wo, Jo))]

\* Began before the chain.
Began(l) == l # << >> /\ IsLegacy(l[1])

\* Broken(i), of any log.
Prior(l, i) == IF i = 1 THEN Genesis ELSE l[i - 1].hash
Severed(l, i) == l[i].prev # Prior(l, i) \/ l[i].hash # Hash(Prior(l, i), l[i].event)

\* Of a table that began with the chain: up to the damage every link holds, at it one is broken.
Linked(l, d) ==
  /\ d \in 0..Len(l)
  /\ \A i \in DOMAIN l :
        /\ ~IsLegacy(l[i])
        /\ d = 0 => ~Severed(l, i) /\ l[i].event.type # "edited"
        /\ i < d => ~Severed(l, i)
        /\ i = d => Severed(l, i)

AuditInv(Ty, Wo, Jo) ==
  /\ log \in Seq(Rows(Ty, Wo, Jo)) /\ damaged \in Nat
  /\ Began(log) => log[1] = LegacyRow
  /\ ~Began(log) => Linked(log, damaged)

-----------------------------------------------------------------------------
(* Lemmas. *)

\* A hash tells its last input, and is none of its prefixes.
LEMMA HashFacts ==
  ASSUME NEW S, NEW p \in Seq(S), NEW a \in S, NEW b \in S
  PROVE  /\ Hash(p, a) \in Seq(S) /\ Hash(p, a) # p
         /\ Hash(p, a) = Hash(p, b) => a = b
  BY DEF Hash

\* RemoveAt closes the hole.
LEMMA RemoveAtFacts ==
  ASSUME NEW S, NEW s \in Seq(S), NEW i \in 1..(Len(s) - 1)
  PROVE  /\ RemoveAt(s, i) \in Seq(S) /\ Len(RemoveAt(s, i)) = Len(s) - 1
         /\ \A k \in 1..(Len(s) - 1) : RemoveAt(s, i)[k] = IF k < i THEN s[k] ELSE s[k + 1]
  BY DEF RemoveAt

\* broken_at is the first broken link.
LEMMA BrokenAtFacts ==
  ASSUME DOMAIN log \subseteq Nat
  PROVE  /\ (\A i \in DOMAIN log : ~Broken(i)) => BrokenAt = 0
         /\ \A d \in DOMAIN log :
               Broken(d) /\ (\A i \in DOMAIN log : i < d => ~Broken(i)) => BrokenAt = d
<1>. DEFINE broken == {i \in DOMAIN log : Broken(i)}
<1>1. (\A i \in DOMAIN log : ~Broken(i)) => BrokenAt = 0
  BY DEF BrokenAt
<1>2. ASSUME NEW d \in DOMAIN log, Broken(d), \A i \in DOMAIN log : i < d => ~Broken(i)
      PROVE  BrokenAt = d
  <2>1. broken # {} /\ BrokenAt = CHOOSE i \in broken : \A k \in broken : i <= k
    BY <1>2 DEF BrokenAt
  <2>2. d \in broken /\ broken \subseteq Nat
    BY <1>2
  <2>3. \A k \in broken : d <= k
    BY <1>2, <2>2
  <2>4. \A i \in broken : (\A k \in broken : i <= k) => i = d
    BY <2>2, <2>3
  <2>. HIDE DEF broken
  <2>. QED  BY <2>1, <2>2, <2>3, <2>4
<1>. QED  BY <1>1, <1>2

-----------------------------------------------------------------------------
(* The steps. *)

\* A row chained to the last one keeps every link.
LEMMA AppendLinked ==
  ASSUME NEW S, NEW l \in Seq(S), NEW d, Linked(l, d), NEW row \in S,
         row.prev = (IF l = << >> THEN Genesis ELSE l[Len(l)].hash),
         row.hash = Hash(row.prev, row.event), row.event.type # "edited", ~IsLegacy(row)
  PROVE  Linked(Append(l, row), d)
<1>. DEFINE m == Append(l, row)
            n == Len(l)
<1>1. n \in Nat /\ DOMAIN l = 1..n /\ (n = 0 <=> l = << >>)
  OBVIOUS
<1>2. Len(m) = n + 1 /\ DOMAIN m = 1..(n + 1) /\ m[n + 1] = row /\ \A i \in 1..n : m[i] = l[i]
  OBVIOUS
<1>. HIDE DEF m, n
<1>3. \A i \in 1..n : Prior(m, i) = Prior(l, i)
  BY <1>1, <1>2 DEF Prior
<1>4. \A i \in 1..n : Severed(m, i) = Severed(l, i)
  BY <1>2, <1>3 DEF Severed
<1>5. Prior(m, n + 1) = row.prev
  <2>1. CASE n = 0
    BY <1>1, <2>1 DEF Prior
  <2>2. CASE n # 0
    <3>1. n \in 1..n /\ n + 1 # 1 /\ (n + 1) - 1 = n
      BY <1>1, <2>2
    <3>. QED  BY <1>1, <1>2, <2>2, <3>1 DEF Prior, n
  <2>. QED  BY <2>1, <2>2
<1>6. ~Severed(m, n + 1)
  BY <1>2, <1>5 DEF Severed
<1>7. d \in 0..n
  BY DEF Linked, n
<1>8. ASSUME NEW i \in DOMAIN m
      PROVE  /\ ~IsLegacy(m[i])
             /\ d = 0 => ~Severed(m, i) /\ m[i].event.type # "edited"
             /\ i < d => ~Severed(m, i)
             /\ i = d => Severed(m, i)
  <2>1. CASE i = n + 1
    BY <1>1, <1>2, <1>6, <1>7, <2>1
  <2>2. CASE i # n + 1
    <3>1. i \in 1..n
      BY <1>1, <1>2, <2>2
    <3>. QED  BY <1>1, <1>2, <1>4, <3>1 DEF Linked
  <2>. QED  BY <2>1, <2>2
<1>. QED  BY <1>1, <1>2, <1>7, <1>8 DEF Linked, m

\* _emit keeps the invariant.
LEMMA EmitStep ==
  ASSUME NEW Ty, NEW Wo, NEW Jo, {"edited", "null"} \cap Ty = {}, AuditInv(Ty, Wo, Jo),
         NEW t \in Ty, NEW w \in Wo, NEW j \in Jo, Emit(Event(t, w, j))
  PROVE  AuditInv(Ty, Wo, Jo)'
<1>. DEFINE e == Event(t, w, j)
            row == Row(e, TailHash, Hash(TailHash, e))
            n == Len(log)
<1>1. e \in AnyEvent(Ty, Wo, Jo) /\ e.type # "edited" /\ e.type # "null"
  BY DEF Event, AnyEvent
<1>2. log \in Seq(Rows(Ty, Wo, Jo)) /\ damaged \in Nat /\ n \in Nat /\ DOMAIN log = 1..n
  BY DEF AuditInv
<1>3. TailHash \in Seq(AnyEvent(Ty, Wo, Jo))
  <2>1. CASE log = << >> \/ IsLegacy(log[Len(log)])
    BY <2>1 DEF TailHash, Genesis
  <2>2. CASE ~(log = << >> \/ IsLegacy(log[Len(log)]))
    <3>1. log[n] \in Rows(Ty, Wo, Jo)
      BY <1>2, <2>2
    <3>. QED  BY <2>2, <3>1 DEF TailHash, Rows
  <2>. QED  BY <2>1, <2>2
<1>4. row \in Rows(Ty, Wo, Jo) /\ Hash(TailHash, e) # NullHash
  <2>1. Hash(TailHash, e) \in Seq(AnyEvent(Ty, Wo, Jo))
    BY <1>1, <1>3, HashFacts
  <2>2. Hash(TailHash, e)[Len(TailHash) + 1] = e /\ Len(Hash(TailHash, e)) = Len(TailHash) + 1
    BY <1>1, <1>3 DEF Hash
  <2>3. NullHash[1].type = "null" /\ Len(NullHash) = 1
    BY DEF NullHash, Event
  <2>4. Hash(TailHash, e) # NullHash
    <3>1. SUFFICES ASSUME Hash(TailHash, e) = NullHash PROVE FALSE
      OBVIOUS
    <3>2. Len(TailHash) + 1 = 1
      BY <2>2, <2>3, <3>1
    <3>. QED  BY <1>1, <2>2, <2>3, <3>1, <3>2
  <2>. QED  BY <1>1, <1>3, <2>1, <2>4 DEF Row, Rows
<1>5. log' = Append(log, row) /\ damaged' = damaged
  BY DEF Emit
<1>6. row.event = e /\ row.prev = TailHash /\ row.hash = Hash(TailHash, e) /\ ~IsLegacy(row)
  BY <1>4 DEF Row, IsLegacy
<1>. HIDE DEF row
<1>7. log' \in Seq(Rows(Ty, Wo, Jo)) /\ log' # << >>
      /\ log'[1] = IF log = << >> THEN row ELSE log[1]
  <2>. HIDE DEF n
  <2>. QED  BY <1>2, <1>4, <1>5
<1>8. CASE Began(log)
  BY <1>2, <1>5, <1>7, <1>8 DEF AuditInv, Began
<1>9. CASE ~Began(log)
  <2>1. Linked(log, damaged)
    BY <1>9 DEF AuditInv
  <2>2. ~Began(log')
    BY <1>6, <1>7, <1>9 DEF Began
  <2>3. TailHash = IF log = << >> THEN Genesis ELSE log[Len(log)].hash
    <3>1. log # << >> => n \in DOMAIN log
      BY <1>2
    <3>. QED  BY <2>1, <3>1 DEF TailHash, Linked
  <2>4. Linked(log', damaged')
    <3>. HIDE DEF e, n
    <3>. QED  BY <1>1, <1>2, <1>4, <1>5, <1>6, <2>1, <2>3, AppendLinked
  <2>. QED  BY <1>2, <1>5, <1>7, <2>2, <2>4 DEF AuditInv
<1>. QED  BY <1>8, <1>9

\* A row whose fields are altered no longer has the hash of its fields.
LEMMA EditLinked ==
  ASSUME NEW Ty, NEW Wo, NEW Jo, NEW l \in Seq(Rows(Ty, Wo, Jo)), Linked(l, 0), NEW i \in DOMAIN l
  PROVE  Linked([l EXCEPT ![i].event.type = "edited"], i)
<1>. DEFINE m == [l EXCEPT ![i].event.type = "edited"]
            n == Len(l)
            f == [l[i].event EXCEPT !.type = "edited"]
<1>1. n \in Nat /\ DOMAIN l = 1..n /\ i \in 1..n
  OBVIOUS
<1>2. l[i] \in Rows(Ty, Wo, Jo)
  BY <1>1
<1>3. Len(m) = n /\ DOMAIN m = 1..n /\ \A k \in 1..n : k # i => m[k] = l[k]
  BY <1>1
<1>4. m[i].event = f /\ m[i].hash = l[i].hash /\ m[i].prev = l[i].prev
  BY <1>1, <1>2 DEF Rows
<1>5. l[i].event \in AnyEvent(Ty, Wo, Jo) /\ f \in AnyEvent(Ty, Wo, Jo) /\ f.type = "edited"
  BY <1>2 DEF Rows, AnyEvent
<1>6. l[i].event.type # "edited" /\ ~Severed(l, i)
  BY DEF Linked
<1>. HIDE DEF m, f, n
<1>7. \A k \in 1..n : k <= i => Prior(m, k) = Prior(l, k)
  BY <1>1, <1>3 DEF Prior
<1>8. \A k \in 1..n : k < i => ~Severed(m, k)
  <2>1. SUFFICES ASSUME NEW k \in 1..n, k < i PROVE ~Severed(m, k)
    OBVIOUS
  <2>2. k # i /\ k <= i /\ ~Severed(l, k)
    BY <1>1, <2>1 DEF Linked
  <2>. QED  BY <1>3, <1>7, <2>2 DEF Severed
<1>9. Severed(m, i)
  <2>1. Prior(l, i) \in Seq(AnyEvent(Ty, Wo, Jo))
    <3>1. CASE i = 1
      BY <3>1 DEF Prior, Genesis
    <3>2. CASE i # 1
      <4>1. l[i - 1] \in Rows(Ty, Wo, Jo)
        BY <1>1, <3>2
      <4>. QED  BY <3>2, <4>1 DEF Prior, Rows
    <3>. QED  BY <3>1, <3>2
  <2>2. l[i].hash = Hash(Prior(l, i), l[i].event)
    BY <1>6 DEF Severed
  <2>3. Hash(Prior(l, i), f) # Hash(Prior(l, i), l[i].event)
    BY <1>5, <1>6, <2>1, HashFacts
  <2>. QED  BY <1>1, <1>4, <1>7, <2>2, <2>3 DEF Severed
<1>10. \A k \in 1..n : ~IsLegacy(m[k])
  BY <1>1, <1>3, <1>4 DEF Linked, IsLegacy
<1>11. Linked(m, i)
  BY <1>1, <1>3, <1>8, <1>9, <1>10 DEF Linked
<1>. QED  BY <1>11 DEF m

\* The row after a deleted one names the hash of a row that is gone.
LEMMA DeleteLinked ==
  ASSUME NEW Ty, NEW Wo, NEW Jo, NEW l \in Seq(Rows(Ty, Wo, Jo)), Linked(l, 0),
         NEW i \in 1..(Len(l) - 1)
  PROVE  Linked(RemoveAt(l, i), i)
<1>. DEFINE m == RemoveAt(l, i)
            n == Len(l) - 1
<1>1. n \in Nat /\ DOMAIN l = 1..(n + 1) /\ i \in 1..n
  OBVIOUS
<1>2. /\ m \in Seq(Rows(Ty, Wo, Jo)) /\ Len(m) = n /\ DOMAIN m = 1..n
      /\ \A k \in 1..n : m[k] = IF k < i THEN l[k] ELSE l[k + 1]
  <2>1. /\ m \in Seq(Rows(Ty, Wo, Jo)) /\ Len(m) = n
        /\ \A k \in 1..n : m[k] = IF k < i THEN l[k] ELSE l[k + 1]
    <3>. HIDE DEF m
    <3>. QED  BY RemoveAtFacts DEF m
  <2>. HIDE DEF m, n
  <2>. QED  BY <2>1
<1>. HIDE DEF m, n
<1>3. \A k \in 1..n : k <= i => Prior(m, k) = Prior(l, k)
  BY <1>1, <1>2 DEF Prior
<1>4. \A k \in 1..n : k < i => ~Severed(m, k)
  <2>1. SUFFICES ASSUME NEW k \in 1..n, k < i PROVE ~Severed(m, k)
    OBVIOUS
  <2>2. k \in DOMAIN l /\ k <= i /\ m[k] = l[k]
    BY <1>1, <1>2, <2>1
  <2>. QED  BY <1>3, <2>2 DEF Linked, Severed
<1>5. Severed(m, i)
  <2>1. i \in DOMAIN l /\ i + 1 \in DOMAIN l /\ i + 1 # 1 /\ (i + 1) - 1 = i
    BY <1>1
  <2>2. ~Severed(l, i) /\ ~Severed(l, i + 1)
    BY <2>1 DEF Linked
  <2>3. l[i + 1].prev = l[i].hash
    BY <2>1, <2>2 DEF Severed, Prior
  <2>4. l[i].hash = Hash(Prior(l, i), l[i].event)
    BY <2>2 DEF Severed
  <2>5. l[i].event \in AnyEvent(Ty, Wo, Jo)
    <3>1. l[i] \in Rows(Ty, Wo, Jo)
      BY <2>1
    <3>. QED  BY <3>1 DEF Rows
  <2>6. Prior(l, i) \in Seq(AnyEvent(Ty, Wo, Jo))
    <3>1. CASE i = 1
      BY <3>1 DEF Prior, Genesis
    <3>2. CASE i # 1
      <4>1. l[i - 1] \in Rows(Ty, Wo, Jo)
        BY <1>1, <3>2
      <4>. QED  BY <3>2, <4>1 DEF Prior, Rows
    <3>. QED  BY <3>1, <3>2
  <2>7. Hash(Prior(l, i), l[i].event) # Prior(l, i)
    BY <2>5, <2>6, HashFacts
  <2>8. m[i] = l[i + 1]
    BY <1>1, <1>2
  <2>. QED  BY <1>1, <1>3, <2>3, <2>4, <2>7, <2>8 DEF Severed
<1>6. ASSUME NEW k \in 1..n
      PROVE  ~IsLegacy(m[k])
  <2>1. k \in DOMAIN l /\ k + 1 \in DOMAIN l
    BY <1>1
  <2>2. ~IsLegacy(l[k]) /\ ~IsLegacy(l[k + 1])
    BY <2>1 DEF Linked
  <2>3. m[k] = l[k] \/ m[k] = l[k + 1]
    BY <1>2
  <2>. QED  BY <2>2, <2>3
<1>. QED  BY <1>1, <1>2, <1>4, <1>5, <1>6 DEF Linked, m

\* Damage, where the chain covers the rows, leaves the rows before it.
LEMMA DamageStep ==
  ASSUME NEW Ty, NEW Wo, NEW Jo, AuditInv(Ty, Wo, Jo), Damage
  PROVE  AuditInv(Ty, Wo, Jo)'
<1>1. log \in Seq(Rows(Ty, Wo, Jo))
  BY DEF AuditInv
<1>2. PICK i \in DOMAIN log : Edit(i) \/ DeleteRow(i)
  BY DEF Damage
<1>3. damaged = 0 /\ ~IsLegacy(log[i]) /\ damaged' = i /\ i \in 1..Len(log) /\ Len(log) \in Nat
  BY <1>1, <1>2 DEF Edit, DeleteRow, MayDamage
<1>4. CASE Began(log)
  <2>1. log[1] = LegacyRow /\ IsLegacy(log[1]) /\ 1 < i
    BY <1>3, <1>4 DEF AuditInv, Began
  <2>2. log' \in Seq(Rows(Ty, Wo, Jo)) /\ log' # << >> /\ log'[1] = log[1]
    <3>1. CASE Edit(i)
      <4>1. log[i] \in Rows(Ty, Wo, Jo)
        BY <1>1, <1>3
      <4>2. [log[i] EXCEPT !.event.type = "edited"] \in Rows(Ty, Wo, Jo)
        BY <4>1 DEF Rows, AnyEvent
      <4>3. log' = [log EXCEPT ![i] = [log[i] EXCEPT !.event.type = "edited"]]
        BY <3>1 DEF Edit
      <4>. QED  BY <1>1, <1>3, <2>1, <4>2, <4>3
    <3>2. CASE DeleteRow(i)
      <4>1. i \in 1..(Len(log) - 1) /\ log' = RemoveAt(log, i) /\ 1 \in 1..(Len(log) - 1)
        BY <1>3, <2>1, <3>2 DEF DeleteRow
      <4>2. /\ log' \in Seq(Rows(Ty, Wo, Jo)) /\ Len(log') = Len(log) - 1
            /\ \A k \in 1..(Len(log) - 1) : log'[k] = IF k < i THEN log[k] ELSE log[k + 1]
        BY <1>1, <4>1, RemoveAtFacts
      <4>3. log' # << >>
        BY <1>3, <4>1, <4>2
      <4>. QED  BY <2>1, <4>1, <4>2, <4>3
    <3>. QED  BY <1>2, <3>1, <3>2
  <2>. QED  BY <1>3, <2>1, <2>2 DEF AuditInv, Began
<1>5. CASE ~Began(log)
  <2>1. Linked(log, 0)
    BY <1>3, <1>5 DEF AuditInv
  <2>2. log' \in Seq(Rows(Ty, Wo, Jo)) /\ Linked(log', i)
    <3>1. CASE Edit(i)
      <4>1. log[i] \in Rows(Ty, Wo, Jo)
        BY <1>1, <1>3
      <4>2. [log[i] EXCEPT !.event.type = "edited"] \in Rows(Ty, Wo, Jo)
        BY <4>1 DEF Rows, AnyEvent
      <4>3. log' = [log EXCEPT ![i].event.type = "edited"]
        BY <3>1 DEF Edit
      <4>4. log' = [log EXCEPT ![i] = [log[i] EXCEPT !.event.type = "edited"]]
        BY <4>3
      <4>5. log' \in Seq(Rows(Ty, Wo, Jo))
        BY <1>1, <1>3, <4>2, <4>4
      <4>. QED  BY <1>1, <1>2, <2>1, <4>3, <4>5, EditLinked
    <3>2. CASE DeleteRow(i)
      <4>1. i \in 1..(Len(log) - 1) /\ log' = RemoveAt(log, i)
        BY <1>3, <3>2 DEF DeleteRow
      <4>. QED  BY <1>1, <2>1, <4>1, RemoveAtFacts, DeleteLinked
    <3>. QED  BY <1>2, <3>1, <3>2
  <2>3. ~Began(log')
    <3>1. log' # << >> => 1 \in DOMAIN log'
      BY <2>2
    <3>. QED  BY <2>2, <3>1 DEF Began, Linked
  <2>. QED  BY <1>3, <2>2, <2>3 DEF AuditInv
<1>. QED  BY <1>4, <1>5

-----------------------------------------------------------------------------
(* The theorem. *)

\* A table starts empty or with rows from before the chain.
LEMMA AuditInvInit ==
  ASSUME NEW Ty, NEW Wo, NEW Jo, AuditInit
  PROVE  AuditInv(Ty, Wo, Jo)
<1>1. PICK n \in 0..MaxLegacy : log = [i \in 1..n |-> LegacyRow]
  BY DEF AuditInit
<1>2. n \in Nat /\ damaged = 0
  BY <1>1, AuditAssumption DEF AuditInit
<1>3. LegacyRow \in Rows(Ty, Wo, Jo) /\ IsLegacy(LegacyRow)
  BY DEF LegacyRow, Row, Rows, AnyEvent, Event, NullHash, IsLegacy
<1>4. log \in Seq(Rows(Ty, Wo, Jo)) /\ Len(log) = n /\ DOMAIN log = 1..n
  BY <1>1, <1>2, <1>3
<1>5. CASE n = 0
  <2>1. log = << >>
    BY <1>4, <1>5
  <2>2. Linked(log, damaged)
    BY <1>2, <1>4, <1>5 DEF Linked
  <2>. QED  BY <1>2, <1>4, <2>1, <2>2 DEF AuditInv, Began
<1>6. CASE n # 0
  <2>1. log[1] = LegacyRow /\ log # << >>
    BY <1>1, <1>2, <1>4, <1>6
  <2>. QED  BY <1>2, <1>3, <1>4, <2>1 DEF AuditInv, Began
<1>. QED  BY <1>5, <1>6

\* What the invariant says of verify_audit_chain.
LEMMA AuditInvExact ==
  ASSUME NEW Ty, NEW Wo, NEW Jo, AuditInv(Ty, Wo, Jo)
  PROVE  VerifyIsExact
<1>1. log \in Seq(Rows(Ty, Wo, Jo)) /\ DOMAIN log \subseteq Nat /\ DOMAIN log = 1..Len(log)
  BY DEF AuditInv
<1>2. \A i \in DOMAIN log : Severed(log, i) = Broken(i)
  BY DEF Severed, Prior, Broken, Running
<1>3. CASE Began(log)
  <2>1. log[1] = LegacyRow /\ 1 \in DOMAIN log
    BY <1>1, <1>3 DEF AuditInv, Began
  <2>2. LegacyRow.prev # Genesis
    BY DEF LegacyRow, Row, NullHash, Genesis
  <2>3. Broken(1)
    BY <2>1, <2>2 DEF Broken, Running
  <2>4. \A i \in DOMAIN log : ~(i < 1)
    BY <1>1
  <2>5. BrokenAt = 1
    BY <1>1, <2>1, <2>3, <2>4, BrokenAtFacts
  <2>. QED  BY <1>3, <2>5 DEF VerifyIsExact, Began
<1>4. CASE ~Began(log)
  <2>1. Linked(log, damaged)
    BY <1>4 DEF AuditInv
  <2>2. CASE damaged = 0
    BY <1>1, <1>2, <1>4, <2>1, <2>2, BrokenAtFacts DEF Linked, VerifyIsExact, Began
  <2>3. CASE damaged # 0
    <3>1. damaged \in DOMAIN log
      BY <1>1, <2>1, <2>3 DEF Linked
    <3>2. Broken(damaged) /\ \A i \in DOMAIN log : i < damaged => ~Broken(i)
      BY <1>2, <2>1, <3>1 DEF Linked
    <3>3. BrokenAt = damaged
      BY <1>1, <3>1, <3>2, BrokenAtFacts
    <3>. QED  BY <1>4, <3>3 DEF VerifyIsExact, Began
  <2>. QED  BY <2>2, <2>3
<1>. QED  BY <1>3, <1>4

\* Every step of a log on its own keeps the invariant.
LEMMA AuditStep ==
  ASSUME NEW Ty, NEW Wo, NEW Jo, {"edited", "null"} \cap Ty = {},
         AuditInv(Ty, Wo, Jo), [AuditNext(Ty, Wo, Jo)]_auditVars
  PROVE  AuditInv(Ty, Wo, Jo)'
<1>1. CASE \E t \in Ty, w \in Wo, j \in Jo : Emit(Event(t, w, j))
  BY <1>1, EmitStep
<1>2. CASE Damage
  BY <1>2, DamageStep
<1>3. CASE UNCHANGED auditVars
  BY <1>3 DEF AuditInv, auditVars
<1>. QED  BY <1>1, <1>2, <1>3 DEF AuditNext

\* The place of the damage is a place in the table, and stays one.
LEMMA DamagedStep ==
  ASSUME NEW Ty, NEW Wo, NEW Jo, AuditInv(Ty, Wo, Jo), damaged \in 0..Len(log),
         [AuditNext(Ty, Wo, Jo)]_auditVars
  PROVE  damaged' \in 0..Len(log')
<1>1. log \in Seq(Rows(Ty, Wo, Jo)) /\ Len(log) \in Nat /\ DOMAIN log = 1..Len(log)
  BY DEF AuditInv
<1>2. CASE \E t \in Ty, w \in Wo, j \in Jo : Emit(Event(t, w, j))
  <2>1. PICK e : Emit(e)
    BY <1>2
  <2>2. Len(Append(log, Row(e, TailHash, Hash(TailHash, e)))) = Len(log) + 1
    <3>. DEFINE row == Row(e, TailHash, Hash(TailHash, e))
    <3>. HIDE DEF row
    <3>1. log \in Seq(Rows(Ty, Wo, Jo) \cup {row})
      BY <1>1
    <3>2. Len(Append(log, row)) = Len(log) + 1
      BY <3>1
    <3>. QED  BY <3>2 DEF row
  <2>3. log' = Append(log, Row(e, TailHash, Hash(TailHash, e))) /\ damaged' = damaged
    BY <2>1 DEF Emit
  <2>4. Len(log') = Len(log) + 1
    BY <2>2, <2>3
  <2>. QED  BY <1>1, <2>3, <2>4
<1>3. CASE Damage
  <2>1. PICK i \in DOMAIN log : Edit(i) \/ DeleteRow(i)
    BY <1>3 DEF Damage
  <2>2. CASE Edit(i)
    <3>1. log' = [log EXCEPT ![i] = [log[i] EXCEPT !.event.type = "edited"]] /\ damaged' = i
      BY <2>2 DEF Edit
    <3>2. Len(log') = Len(log)
      BY <1>1, <3>1
    <3>. QED  BY <1>1, <3>1, <3>2
  <2>3. CASE DeleteRow(i)
    <3>1. i \in 1..(Len(log) - 1) /\ log' = RemoveAt(log, i) /\ damaged' = i
      BY <1>1, <2>3 DEF DeleteRow
    <3>2. Len(log') = Len(log) - 1
      BY <1>1, <3>1, RemoveAtFacts
    <3>. QED  BY <1>1, <3>1, <3>2
  <2>. QED  BY <2>1, <2>2, <2>3
<1>4. CASE UNCHANGED auditVars
  BY <1>4 DEF auditVars
<1>. QED  BY <1>2, <1>3, <1>4 DEF AuditNext

\* The rows of the invariant have the table's columns.
LEMMA AuditInvTypes ==
  ASSUME NEW Ty, NEW Wo, NEW Jo, AuditInv(Ty, Wo, Jo), damaged \in 0..Len(log)
  PROVE  AuditTypeOK
<1>1. ASSUME NEW i \in DOMAIN log
      PROVE  log[i] \in Rows(Ty, Wo, Jo)
  BY DEF AuditInv
<1>2. \A row \in Rows(Ty, Wo, Jo) :
         DOMAIN row = {"event", "prev", "hash"} /\ DOMAIN row.event = {"type", "worker", "job"}
  BY DEF Rows, AnyEvent
<1>. QED  BY <1>1, <1>2 DEF AuditTypeOK

\* Whatever is logged, by whoever, verify_audit_chain names the row that was altered, or that
\* followed a deleted one, and finds nothing when nothing was touched.
THEOREM ChainIsExact ==
  ASSUME NEW CONSTANT Ty, NEW CONSTANT Wo, NEW CONSTANT Jo, {"edited", "null"} \cap Ty = {}
  PROVE  AuditSpec(Ty, Wo, Jo) => []VerifyIsExact
<1>1. AuditInit => AuditInv(Ty, Wo, Jo)
  BY AuditInvInit
<1>2. AuditInv(Ty, Wo, Jo) /\ [AuditNext(Ty, Wo, Jo)]_auditVars => AuditInv(Ty, Wo, Jo)'
  BY AuditStep
<1>3. AuditInv(Ty, Wo, Jo) => VerifyIsExact
  BY AuditInvExact
<1>. QED  BY <1>1, <1>2, <1>3, PTL DEF AuditSpec

=============================================================================
