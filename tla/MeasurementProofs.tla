-------------------------- MODULE MeasurementProofs --------------------------
(***************************************************************************)
(* Proofs about the request limiter, for every limit, window, sweep period *)
(* and set of clients, and about the measurements that come in behind it,  *)
(* for any machines, readings, pauses and clocks set back.  The lemmas on  *)
(* sums are PartitionProofs's.                                             *)
(***************************************************************************)
EXTENDS Measurement, PartitionProofs

-----------------------------------------------------------------------------
(* The inductive invariant. *)

\* A request was let in while its window was open.
InItsWindow(k) == \A r \in admitted[k] : r.start <= r.at /\ r.at < r.start + Window

\* The bucket counts the requests of its window, and every other window was over when it began;
\* without a bucket every window is over.
Counted(k) ==
  \A r \in admitted[k] :
     IF k \in DOMAIN buckets
     THEN \/ r.start = buckets[k].start /\ r.nth <= buckets[k].count
          \/ r.start + Window <= buckets[k].start
     ELSE r.start + Window <= clock

\* Windows do not overlap, and no two requests have the same place in one.
Apart(k) ==
  \A r, s \in admitted[k] :
     /\ r.start < s.start => r.start + Window <= s.start
     /\ r.start = s.start /\ r.nth = s.nth => r = s

\* What a client was promised lies within the second after the end of its window.
Kept(k) ==
  k \in DOMAIN buckets /\ promised[k] # 0 =>
     /\ buckets[k].start + Window <= promised[k]
     /\ promised[k] <= buckets[k].start + Window + Second

LimiterInv ==
  /\ LimiterTypeOK
  /\ \A k \in Keys : InItsWindow(k) /\ Counted(k) /\ Apart(k) /\ Kept(k)

-----------------------------------------------------------------------------
(* Lemmas. *)

\* Division rounds down.
LEMMA DivisionBounds ==
  ASSUME NEW a \in Nat, NEW b \in Nat, b > 0
  PROVE  /\ a \div b \in Nat
         /\ (a \div b) * b <= a
         /\ a < (a \div b + 1) * b
  BY Z3

\* The buckets that _sweep leaves are buckets; those it drops are over.
LEMMA SweptFacts ==
  ASSUME NEW k \in Keys
  PROVE  /\ DOMAIN Swept \subseteq DOMAIN buckets
         /\ \A i \in DOMAIN Swept : Swept[i] = buckets[i]
         /\ \A i \in DOMAIN buckets : i \notin DOMAIN Swept => Over(buckets[i])
  BY DEF Swept

\* The window a request falls in is the key's own, when that is open; otherwise it begins now, and
\* every window before it is over.
LEMMA CurrentFacts ==
  ASSUME NEW k \in Keys, LimiterInv
  PROVE  \/ /\ k \in DOMAIN buckets /\ k \in DOMAIN Swept /\ Swept[k] = buckets[k]
            /\ Current(k) = buckets[k] /\ clock - buckets[k].start < Window
         \/ /\ Current(k) = [start |-> clock, count |-> 0]
            /\ \A r \in admitted[k] : r.start + Window <= clock
<1>. USE LimiterAssumption DEF LimiterAssumption
<1>1. /\ DOMAIN Swept \subseteq DOMAIN buckets
      /\ \A i \in DOMAIN Swept : Swept[i] = buckets[i]
      /\ \A i \in DOMAIN buckets : i \notin DOMAIN Swept => Over(buckets[i])
  BY SweptFacts
<1>2. CASE k \in DOMAIN Swept /\ ~Over(Swept[k])
  <2>1. k \in DOMAIN buckets /\ Swept[k] = buckets[k] /\ Current(k) = buckets[k]
    BY <1>1, <1>2 DEF Current
  <2>2. buckets[k].start \in Nat /\ clock \in Nat
    BY <2>1 DEF LimiterInv, LimiterTypeOK, Bucket
  <2>3. clock - buckets[k].start < Window
    BY <1>2, <2>1, <2>2 DEF Over
  <2>. QED  BY <1>2, <2>1, <2>3
<1>3. CASE ~(k \in DOMAIN Swept /\ ~Over(Swept[k]))
  <2>1. Current(k) = [start |-> clock, count |-> 0]
    BY <1>3 DEF Current
  <2>2. k \in DOMAIN buckets => clock - buckets[k].start >= Window
    BY <1>1, <1>3 DEF Over
  <2>3. ASSUME NEW r \in admitted[k] PROVE r.start + Window <= clock
    <3>1. r \in Request /\ clock \in Nat /\ (k \in DOMAIN buckets => buckets[k] \in Bucket)
      BY DEF LimiterInv, LimiterTypeOK
    <3>2. CASE k \in DOMAIN buckets
      <4>1. r.start = buckets[k].start \/ r.start + Window <= buckets[k].start
        BY <3>2 DEF LimiterInv, Counted
      <4>2. r.start \in Nat /\ buckets[k].start \in Nat
        BY <3>1, <3>2 DEF Request, Bucket
      <4>. QED  BY <2>2, <3>1, <3>2, <4>1, <4>2
    <3>3. CASE k \notin DOMAIN buckets
      BY <3>3 DEF LimiterInv, Counted
    <3>. QED  BY <3>2, <3>3
  <2>. QED  BY <2>1, <2>3
<1>. QED  BY <1>2, <1>3

\* Where a check ends that does not let its request in.
LEMMA SweepStep ==
  ASSUME LimiterInv, DOMAIN buckets' \subseteq DOMAIN buckets, NEW k \in Keys,
         \A i \in DOMAIN buckets' : buckets'[i] = buckets[i],
         \A i \in DOMAIN buckets : i \notin DOMAIN buckets' => Over(buckets[i]),
         admitted'[k] = admitted[k], clock' = clock
  PROVE  InItsWindow(k)' /\ Counted(k)' /\ Apart(k)'
<1>. USE LimiterAssumption DEF LimiterAssumption
<1>1. InItsWindow(k)' /\ Apart(k)'
  BY DEF LimiterInv, InItsWindow, Apart
<1>2. ASSUME NEW r \in admitted'[k], k \in DOMAIN buckets'
      PROVE  \/ r.start = buckets'[k].start /\ r.nth <= buckets'[k].count
             \/ r.start + Window <= buckets'[k].start
  BY <1>2 DEF LimiterInv, Counted
<1>3. ASSUME NEW r \in admitted'[k], k \notin DOMAIN buckets' PROVE r.start + Window <= clock'
  <2>1. r \in admitted[k] /\ r \in Request /\ clock \in Nat
    BY DEF LimiterInv, LimiterTypeOK
  <2>2. CASE k \in DOMAIN buckets
    <3>1. buckets[k] \in Bucket /\ Over(buckets[k])
      BY <1>3, <2>2 DEF LimiterInv, LimiterTypeOK
    <3>2. r.start = buckets[k].start \/ r.start + Window <= buckets[k].start
      BY <2>1, <2>2 DEF LimiterInv, Counted
    <3>3. r.start \in Nat /\ buckets[k].start \in Nat
      BY <2>1, <3>1 DEF Request, Bucket
    <3>. QED  BY <2>1, <3>1, <3>2, <3>3 DEF Over
  <2>3. CASE k \notin DOMAIN buckets
    BY <2>1, <2>3 DEF LimiterInv, Counted
  <2>. QED  BY <2>2, <2>3
<1>4. Counted(k)'
  BY <1>2, <1>3 DEF Counted
<1>. QED  BY <1>1, <1>4

-----------------------------------------------------------------------------
(* The steps. *)

\* Letting a request in keeps the invariant.
LEMMA AdmitStep ==
  ASSUME LimiterInv, NEW k \in Keys, Admit(k)
  PROVE  LimiterInv'
<1>. USE LimiterAssumption DEF LimiterAssumption
<1>. DEFINE w == Current(k)
            new == [start |-> w.start, nth |-> w.count + 1, at |-> clock]
<1>1. /\ DOMAIN Swept \subseteq DOMAIN buckets
      /\ \A i \in DOMAIN Swept : Swept[i] = buckets[i]
      /\ \A i \in DOMAIN buckets : i \notin DOMAIN Swept => Over(buckets[i])
  BY SweptFacts
<1>2. \/ /\ k \in DOMAIN buckets /\ k \in DOMAIN Swept /\ Swept[k] = buckets[k]
         /\ w = buckets[k] /\ clock - buckets[k].start < Window
      \/ /\ w = [start |-> clock, count |-> 0]
         /\ \A r \in admitted[k] : r.start + Window <= clock
  BY CurrentFacts
<1>3. /\ clock \in 0..MaxClock /\ DOMAIN buckets \subseteq Keys
      /\ \A i \in DOMAIN buckets : buckets[i] \in Bucket /\ buckets[i].start <= clock
      /\ DOMAIN admitted = Keys /\ \A i \in Keys : admitted[i] \subseteq Request
      /\ promised \in [Keys -> Nat] /\ ops \in 0..(SweepEvery - 1) /\ restarts \in 0..MaxRestarts
  BY DEF LimiterInv, LimiterTypeOK
<1>4. /\ w.start \in 0..MaxClock /\ w.count \in 0..(Limit - 1)
      /\ w.start <= clock /\ clock < w.start + Window
  <2>1. ~(w.count >= Limit)
    BY DEF Admit, Full
  <2>2. CASE w = [start |-> clock, count |-> 0]
    BY <1>3, <2>2
  <2>3. CASE w # [start |-> clock, count |-> 0]
    <3>1. k \in DOMAIN buckets /\ w = buckets[k] /\ clock - buckets[k].start < Window
      BY <1>2, <2>3
    <3>2. buckets[k] \in Bucket /\ buckets[k].start <= clock
      BY <1>3, <3>1
    <3>3. /\ w.start \in 0..MaxClock /\ w.count \in 1..Limit /\ w.start <= clock
          /\ clock - w.start < Window
      BY <3>1, <3>2 DEF Bucket
    <3>. HIDE DEF w
    <3>. QED  BY <1>3, <2>1, <3>3
  <2>. QED  BY <2>2, <2>3
<1>5. /\ DOMAIN buckets' = DOMAIN Swept \cup {k}
      /\ buckets'[k] = [start |-> w.start, count |-> w.count + 1]
      /\ \A i \in DOMAIN Swept : i # k => buckets'[i] = Swept[i]
  BY <1>4 DEF Admit
<1>6. /\ admitted'[k] = admitted[k] \cup {new}
      /\ \A i \in Keys : i # k => admitted'[i] = admitted[i]
      /\ DOMAIN admitted' = Keys
      /\ promised' = [promised EXCEPT ![k] = 0]
      /\ ops' = (ops + 1) % SweepEvery /\ clock' = clock /\ restarts' = restarts
  BY <1>3 DEF Admit
<1>7. new \in Request
  BY <1>3, <1>4 DEF Request
<1>. HIDE DEF w
<1>8. LimiterTypeOK'
  <2>1. DOMAIN buckets' \subseteq Keys
    BY <1>1, <1>3, <1>5
  <2>2. ASSUME NEW i \in DOMAIN buckets' PROVE buckets'[i] \in Bucket /\ buckets'[i].start <= clock'
    <3>1. CASE i = k
      BY <1>4, <1>5, <1>6, <3>1 DEF Bucket
    <3>2. CASE i # k
      BY <1>1, <1>3, <1>5, <1>6, <3>2
    <3>. QED  BY <3>1, <3>2
  <2>3. \A i \in Keys : admitted'[i] \subseteq Request
    BY <1>3, <1>6, <1>7
  <2>4. promised' \in [Keys -> Nat]
    BY <1>3, <1>6
  <2>5. ops' \in 0..(SweepEvery - 1)
    BY <1>3, <1>6
  <2>. QED  BY <1>3, <1>6, <2>1, <2>2, <2>3, <2>4, <2>5 DEF LimiterTypeOK
<1>9. ASSUME NEW r \in admitted[k]
      PROVE  \/ r.start = w.start /\ r.nth <= w.count
             \/ r.start + Window <= w.start
  BY <1>2 DEF LimiterInv, Counted
<1>10. InItsWindow(k)' /\ Counted(k)' /\ Apart(k)' /\ Kept(k)'
  <2>1. InItsWindow(k)'
    BY <1>4, <1>6 DEF LimiterInv, InItsWindow
  <2>2. Counted(k)'
    <3>1. ASSUME NEW r \in admitted'[k]
          PROVE  \/ r.start = w.start /\ r.nth <= w.count + 1
                 \/ r.start + Window <= w.start
      <4>1. CASE r = new
        BY <1>4, <4>1
      <4>2. CASE r \in admitted[k]
        <5>1. r \in Request
          BY <1>3, <4>2
        <5>. QED  BY <1>4, <1>9, <4>2, <5>1 DEF Request
      <4>. QED  BY <1>6, <4>1, <4>2
    <3>. QED  BY <1>5, <3>1 DEF Counted
  <2>3. Apart(k)'
    <3>1. ASSUME NEW r \in admitted[k]
          PROVE  /\ r.start < w.start => r.start + Window <= w.start
                 /\ ~(w.start < r.start)
                 /\ ~(r.start = w.start /\ r.nth = w.count + 1)
      <4>1. r \in Request
        BY <1>3
      <4>. QED  BY <1>4, <1>9, <4>1 DEF Request
    <3>2. ASSUME NEW r \in admitted'[k], NEW s \in admitted'[k]
          PROVE  /\ r.start < s.start => r.start + Window <= s.start
                 /\ r.start = s.start /\ r.nth = s.nth => r = s
      <4>1. CASE r \in admitted[k] /\ s \in admitted[k]
        BY <4>1 DEF LimiterInv, Apart
      <4>2. CASE r \in admitted[k] /\ s = new
        BY <3>1, <4>2
      <4>3. CASE r = new /\ s \in admitted[k]
        BY <3>1, <4>3
      <4>4. CASE r = new /\ s = new
        BY <1>4, <4>4
      <4>. QED  BY <1>6, <4>1, <4>2, <4>3, <4>4
    <3>. QED  BY <3>2 DEF Apart
  <2>4. Kept(k)'
    BY <1>3, <1>6 DEF Kept
  <2>. QED  BY <2>1, <2>2, <2>3, <2>4
<1>11. ASSUME NEW i \in Keys, i # k
       PROVE  InItsWindow(i)' /\ Counted(i)' /\ Apart(i)' /\ Kept(i)'
  <2>1. InItsWindow(i)' /\ Apart(i)'
    BY <1>6, <1>11 DEF LimiterInv, InItsWindow, Apart
  <2>2. i \in DOMAIN buckets' => i \in DOMAIN buckets /\ buckets'[i] = buckets[i]
    BY <1>1, <1>5, <1>11
  <2>3. Counted(i)'
    <3>1. ASSUME NEW r \in admitted'[i], i \notin DOMAIN buckets' PROVE r.start + Window <= clock'
      <4>1. r \in admitted[i] /\ r \in Request
        BY <1>3, <1>6, <1>11
      <4>2. CASE i \in DOMAIN buckets
        <5>1. buckets[i] \in Bucket /\ Over(buckets[i])
          BY <1>1, <1>3, <1>5, <1>11, <3>1, <4>2
        <5>2. r.start = buckets[i].start \/ r.start + Window <= buckets[i].start
          BY <4>1, <4>2 DEF LimiterInv, Counted
        <5>3. r.start \in Nat /\ buckets[i].start \in Nat
          BY <4>1, <5>1 DEF Request, Bucket
        <5>. QED  BY <1>3, <1>6, <5>1, <5>2, <5>3 DEF Over
      <4>3. CASE i \notin DOMAIN buckets
        BY <1>6, <4>1, <4>3 DEF LimiterInv, Counted
      <4>. QED  BY <4>2, <4>3
    <3>2. ASSUME NEW r \in admitted'[i], i \in DOMAIN buckets'
          PROVE  \/ r.start = buckets'[i].start /\ r.nth <= buckets'[i].count
                 \/ r.start + Window <= buckets'[i].start
      BY <1>6, <1>11, <2>2, <3>2 DEF LimiterInv, Counted
    <3>. QED  BY <3>1, <3>2 DEF Counted
  <2>4. Kept(i)'
    BY <1>3, <1>6, <1>11, <2>2 DEF LimiterInv, Kept
  <2>. QED  BY <2>1, <2>3, <2>4
<1>. QED  BY <1>8, <1>10, <1>11 DEF LimiterInv

\* Refusing one keeps it: the window stays, and the promise lies just past its end.
LEMMA RefuseStep ==
  ASSUME LimiterInv, NEW k \in Keys, Refuse(k)
  PROVE  LimiterInv'
<1>. USE LimiterAssumption DEF LimiterAssumption
<1>1. /\ DOMAIN Swept \subseteq DOMAIN buckets
      /\ \A i \in DOMAIN Swept : Swept[i] = buckets[i]
      /\ \A i \in DOMAIN buckets : i \notin DOMAIN Swept => Over(buckets[i])
  BY SweptFacts
<1>2. /\ clock \in 0..MaxClock /\ DOMAIN buckets \subseteq Keys
      /\ \A i \in DOMAIN buckets : buckets[i] \in Bucket /\ buckets[i].start <= clock
      /\ DOMAIN admitted = Keys /\ \A i \in Keys : admitted[i] \subseteq Request
      /\ promised \in [Keys -> Nat] /\ ops \in 0..(SweepEvery - 1) /\ restarts \in 0..MaxRestarts
  BY DEF LimiterInv, LimiterTypeOK
<1>3. /\ k \in DOMAIN buckets /\ Current(k) = buckets[k] /\ clock - buckets[k].start < Window
  <2>1. Current(k).count >= Limit
    BY DEF Refuse, Full
  <2>. QED  BY <2>1, CurrentFacts
<1>4. /\ buckets' = Swept /\ clock' = clock /\ admitted' = admitted /\ restarts' = restarts
      /\ promised' = [promised EXCEPT ![k] = clock + RetryAfter(k) * Second]
      /\ ops' = (ops + 1) % SweepEvery
  BY DEF Refuse
<1>5. /\ clock + RetryAfter(k) * Second \in Nat
      /\ buckets[k].start + Window <= clock + RetryAfter(k) * Second
      /\ clock + RetryAfter(k) * Second <= buckets[k].start + Window + Second
  <2>. DEFINE left == Window - (clock - buckets[k].start)
              q == left \div Second
  <2>1. buckets[k].start \in Nat /\ buckets[k].start <= clock /\ clock \in Nat
    BY <1>2, <1>3 DEF Bucket
  <2>2. left \in Nat /\ left > 0 /\ left + clock = buckets[k].start + Window
    BY <1>3, <2>1
  <2>. HIDE DEF left
  <2>3. q \in Nat /\ q * Second <= left /\ left < (q + 1) * Second
    BY <2>2, DivisionBounds
  <2>4. RetryAfter(k) = q + 1
    BY <1>3, <2>3 DEF RetryAfter, left
  <2>. HIDE DEF q
  <2>5. (q + 1) * Second = q * Second + Second /\ (q + 1) * Second \in Nat
    BY <2>3
  <2>. QED  BY <2>1, <2>2, <2>3, <2>4, <2>5
<1>6. LimiterTypeOK'
  <2>1. promised' \in [Keys -> Nat]
    BY <1>2, <1>4, <1>5
  <2>2. ops' \in 0..(SweepEvery - 1)
    BY <1>2, <1>4
  <2>3. \A i \in DOMAIN buckets' : buckets'[i] \in Bucket /\ buckets'[i].start <= clock'
    BY <1>1, <1>2, <1>4
  <2>. QED  BY <1>1, <1>2, <1>4, <2>1, <2>2, <2>3 DEF LimiterTypeOK
<1>7. ASSUME NEW i \in Keys PROVE InItsWindow(i)' /\ Counted(i)' /\ Apart(i)' /\ Kept(i)'
  <2>1. InItsWindow(i)' /\ Counted(i)' /\ Apart(i)'
    BY <1>1, <1>4, SweepStep
  <2>2. Kept(i)'
    <3>1. CASE i = k
      BY <1>1, <1>2, <1>4, <1>5, <3>1 DEF Kept
    <3>2. CASE i # k
      BY <1>1, <1>2, <1>4, <3>2 DEF LimiterInv, Kept
    <3>. QED  BY <3>1, <3>2
  <2>. QED  BY <2>1, <2>2
<1>. QED  BY <1>6, <1>7 DEF LimiterInv

\* LimiterInv is inductive.
LEMMA LimiterInvInductive ==
  /\ LimiterInit => LimiterInv
  /\ LimiterInv /\ [LimiterNext]_limiterVars => LimiterInv'
<1>. USE LimiterAssumption DEF LimiterAssumption
<1>1. LimiterInit => LimiterInv
  BY DEF LimiterInit, LimiterInv, LimiterTypeOK, InItsWindow, Counted, Apart, Kept
<1>2. ASSUME LimiterInv, [LimiterNext]_limiterVars PROVE LimiterInv'
  <2>1. CASE Tick
    <3>1. LimiterTypeOK'
      BY <1>2, <2>1 DEF Tick, LimiterInv, LimiterTypeOK, Bucket
    <3>2. ASSUME NEW k \in Keys PROVE InItsWindow(k)' /\ Counted(k)' /\ Apart(k)' /\ Kept(k)'
      <4>1. InItsWindow(k)' /\ Apart(k)' /\ Kept(k)'
        BY <1>2, <2>1 DEF Tick, LimiterInv, InItsWindow, Apart, Kept
      <4>2. ASSUME NEW r \in admitted[k], k \notin DOMAIN buckets PROVE r.start + Window <= clock + 1
        <5>1. r \in Request /\ clock \in Nat /\ r.start + Window <= clock
          BY <1>2, <4>2 DEF LimiterInv, LimiterTypeOK, Counted
        <5>. QED  BY <5>1 DEF Request
      <4>3. Counted(k)'
        BY <1>2, <2>1, <4>2 DEF Tick, LimiterInv, Counted
      <4>. QED  BY <4>1, <4>3
    <3>. QED  BY <3>1, <3>2 DEF LimiterInv
  <2>2. CASE NewLimiter
    BY <1>2, <2>2 DEF NewLimiter, LimiterInv, LimiterTypeOK, InItsWindow, Counted, Apart, Kept
  <2>3. ASSUME NEW k \in Keys, Check(k) PROVE LimiterInv'
    BY <1>2, <2>3, AdmitStep, RefuseStep DEF Check
  <2>4. CASE UNCHANGED limiterVars
    BY <1>2, <2>4 DEF limiterVars, LimiterInv, LimiterTypeOK, InItsWindow, Counted, Apart, Kept
  <2>. QED  BY <1>2, <2>1, <2>2, <2>3, <2>4 DEF LimiterNext
<1>. QED  BY <1>1, <1>2

-----------------------------------------------------------------------------
(* The theorems. *)

\* RateLimiter: the buckets, the counter and the requests let in are what they should be.
THEOREM LimiterTypeCorrect == LimiterSpec => []LimiterTypeOK
<1>1. LimiterInv => LimiterTypeOK
  BY DEF LimiterInv
<1>. QED  BY <1>1, LimiterInvInductive, PTL DEF LimiterSpec

\* RateLimiter.check: no span as long as a window sees more than twice the limit.  The requests of
\* a span began their windows before its first tick or after; on either side there is room for one
\* window only, and a window has Limit places.
THEOREM TwiceTheLimitAtMost == LimiterSpec => []AtMostTwice
<1>. USE LimiterAssumption DEF LimiterAssumption
<1>1. LimiterInv => AtMostTwice
  <2> SUFFICES ASSUME LimiterInv, NEW k \in Keys, NEW t \in 0..MaxClock
               PROVE  Cardinality(During(k, t)) <= 2 * Limit
    BY DEF AtMostTwice
  <2>. DEFINE side(r) == IF r.start <= t THEN 1 ELSE 2
              place == [r \in During(k, t) |-> <<side(r), r.nth>>]
              Places == (1..2) \X (1..Limit)
  <2>1. ASSUME NEW r \in During(k, t)
        PROVE  /\ r \in admitted[k] /\ r.start \in Nat /\ r.nth \in 1..Limit
               /\ t - Window < r.start /\ r.start < t + Window
    <3>1. r \in admitted[k] /\ r \in Request /\ r.at \in t..(t + Window - 1)
      BY DEF During, LimiterInv, LimiterTypeOK
    <3>2. r.start <= r.at /\ r.at < r.start + Window
      BY <3>1 DEF LimiterInv, InItsWindow
    <3>. QED  BY <3>1, <3>2 DEF Request
  <2>2. ASSUME NEW r \in During(k, t), NEW s \in During(k, t), side(r) = side(s)
        PROVE  r.start = s.start
    <3>1. /\ r.start < s.start => r.start + Window <= s.start
          /\ s.start < r.start => s.start + Window <= r.start
      BY <2>1 DEF LimiterInv, Apart
    <3>2. /\ t - Window < r.start /\ r.start < t + Window /\ r.start \in Nat
          /\ t - Window < s.start /\ s.start < t + Window /\ s.start \in Nat
      BY <2>1
    <3>3. CASE r.start <= t
      BY <2>2, <3>1, <3>2, <3>3
    <3>4. CASE ~(r.start <= t)
      BY <2>2, <3>1, <3>2, <3>4
    <3>. QED  BY <3>3, <3>4
  <2>3. place \in Injection(During(k, t), Places)
    <3>1. place \in [During(k, t) -> Places]
      BY <2>1
    <3>2. ASSUME NEW r \in During(k, t), NEW s \in During(k, t), place[r] = place[s]
          PROVE  r = s
      <4>1. side(r) = side(s) /\ r.nth = s.nth
        BY <3>2
      <4>2. r.start = s.start
        BY <2>2, <4>1
      <4>3. r \in admitted[k] /\ s \in admitted[k]
        BY <2>1
      <4>. QED  BY <4>1, <4>2, <4>3 DEF LimiterInv, Apart
    <3>. QED  BY <3>1, <3>2 DEF Injection, IsInjective
  <2>4. IsFiniteSet(Places) /\ Cardinality(Places) = 2 * Limit
    <3>. DEFINE Count(a, b) == IF a > b THEN 0 ELSE b - a + 1
    <3>0. \A a, b \in Int : IsFiniteSet(a..b) /\ Cardinality(a..b) = Count(a, b)
      BY FS_Interval
    <3>1. IsFiniteSet(1..2) /\ Cardinality(1..2) = 2
      <4>1. 1 \in Int /\ 2 \in Int /\ Count(1, 2) = 2
        OBVIOUS
      <4>. HIDE DEF Count
      <4>. QED  BY <3>0, <4>1
    <3>2. IsFiniteSet(1..Limit) /\ Cardinality(1..Limit) = Limit
      <4>1. 1 \in Int /\ Limit \in Int /\ Count(1, Limit) = Limit
        OBVIOUS
      <4>. HIDE DEF Count
      <4>. QED  BY <3>0, <4>1
    <3>. QED  BY <3>1, <3>2, FS_Product
  <2>. QED  BY <2>3, <2>4, FS_Injection
<1>. QED  BY <1>1, LimiterInvInductive, PTL DEF LimiterSpec

\* RateLimiter.check: a refused client that waits for Retry-After is let in, and it was not sent
\* away for more than a second past the end of its window.
THEOREM WaitingIsExact == LimiterSpec => []RetryAfterIsExact
<1>. USE LimiterAssumption DEF LimiterAssumption
<1>1. LimiterInv => RetryAfterIsExact
  <2> SUFFICES ASSUME LimiterInv, NEW k \in Keys, promised[k] # 0
               PROVE  /\ clock >= promised[k] => ~Full(k)
                      /\ k \in DOMAIN buckets => promised[k] <= buckets[k].start + Window + Second
    BY DEF RetryAfterIsExact
  <2>1. ASSUME clock >= promised[k], Full(k)
        PROVE  FALSE
    <3>1. k \in DOMAIN buckets /\ clock - buckets[k].start < Window
      BY <2>1, CurrentFacts DEF Full
    <3>2. buckets[k].start + Window <= promised[k]
      BY <3>1 DEF LimiterInv, Kept
    <3>3. buckets[k].start \in Nat /\ clock \in Nat /\ promised[k] \in Nat
      BY <3>1 DEF LimiterInv, LimiterTypeOK, Bucket
    <3>. QED  BY <2>1, <3>1, <3>2, <3>3
  <2>2. ASSUME k \in DOMAIN buckets
        PROVE  promised[k] <= buckets[k].start + Window + Second
    <3>1. buckets[k].start \in Nat /\ promised[k] \in Nat
      BY <2>2 DEF LimiterInv, LimiterTypeOK, Bucket
    <3>. QED  BY <2>2, <3>1 DEF LimiterInv, Kept
  <2>. QED  BY <2>1, <2>2
<1>. QED  BY <1>1, LimiterInvInductive, PTL DEF LimiterSpec

-----------------------------------------------------------------------------
(* What a machine learns of itself: Headroom. *)

\* What a bucket says is a share of the whole, no mean above its peak.
Learned(b) ==
  /\ b.n \in Nat /\ b.gpuN \in 0..b.n /\ b.acN \in 0..b.n /\ b.at \in Int
  /\ b.cpu \in 0..Whole /\ b.cpuMax \in 0..Whole /\ b.cpu <= b.cpuMax
  /\ b.gpu \in 0..Whole /\ b.gpuMax \in 0..Whole /\ b.gpu <= b.gpuMax
  /\ b.ram \in 0..Whole /\ b.ac \in 0..Whole

\* A mean and the peak that relaxes toward it stay shares, and the peak above the mean.
LEMMA MeanBelowPeak ==
  ASSUME NEW w \in Nat, NEW prev \in 0..w, NEW peak \in 0..w, prev <= peak,
         NEW sample \in 0..w, NEW n \in Nat
  PROVE  /\ Ewma(prev, sample, n) \in 0..w
         /\ RollMax(peak, sample, Ewma(prev, sample, n), n) \in 0..w
         /\ Ewma(prev, sample, n) <= RollMax(peak, sample, Ewma(prev, sample, n), n)
<1>. DEFINE mean == (19 * prev + sample) \div 20
            rest == (peak - mean) \div 50
<1>1. CASE n = 0
  BY <1>1 DEF Ewma, RollMax
<1>2. CASE n # 0
  <2>1. mean \in 0..w /\ (mean <= prev \/ mean <= sample)
    OBVIOUS
  <2>2. Ewma(prev, sample, n) = mean
    BY <1>2 DEF Ewma
  <2>. HIDE DEF mean
  <2>3. /\ rest \in Int
        /\ mean <= peak => 0 <= rest /\ mean <= peak - rest
        /\ peak < mean => rest <= 0 /\ peak - rest <= mean
    BY <2>1
  <2>4. RollMax(peak, sample, mean, n) = IF peak - rest > sample THEN peak - rest ELSE sample
    BY <1>2 DEF RollMax, Larger
  <2>. HIDE DEF rest
  <2>. QED  BY <2>1, <2>2, <2>3, <2>4
<1>. QED  BY <1>1, <1>2

\* UsageProfiler.record: a bucket that takes a sample has learned something.
LEMMA FoldLearns ==
  ASSUME NEW b, Learned(b), NEW at \in Int, NEW reading \in Readings
  PROVE  Learned(Fold(b, reading, at)) /\ Fold(b, reading, at).n > 0
<1>. DEFINE a == Aged(b, at)
            f == Fold(b, reading, at)
            cpu == Ewma(a.cpu, reading.cpu, a.n)
            gpu == Ewma(a.gpu, reading.gpu, a.gpuN)
<1>1. Whole \in Nat
  BY HeadroomAssumption
<1>2. /\ reading.cpu \in 0..Whole /\ reading.ram \in 0..Whole
      /\ reading.gpu # NoSample => reading.gpu \in 0..Whole
      /\ reading.ac # NoSample => reading.ac \in 0..Whole
  BY MeasurementAssumption
<1>3. Learned(a)
  BY <1>1 DEF Aged, Learned, Bucket0
<1>. HIDE DEF a
<1>4. cpu \in 0..Whole /\ RollMax(a.cpuMax, reading.cpu, cpu, a.n) \in 0..Whole
      /\ cpu <= RollMax(a.cpuMax, reading.cpu, cpu, a.n)
  BY <1>1, <1>2, <1>3, MeanBelowPeak DEF Learned
<1>5. reading.gpu # NoSample =>
        /\ gpu \in 0..Whole /\ RollMax(a.gpuMax, reading.gpu, gpu, a.gpuN) \in 0..Whole
        /\ gpu <= RollMax(a.gpuMax, reading.gpu, gpu, a.gpuN)
  <2>. SUFFICES ASSUME reading.gpu # NoSample
                PROVE  /\ gpu \in 0..Whole /\ RollMax(a.gpuMax, reading.gpu, gpu, a.gpuN) \in 0..Whole
                       /\ gpu <= RollMax(a.gpuMax, reading.gpu, gpu, a.gpuN)
    OBVIOUS
  <2>1. /\ reading.gpu \in 0..Whole /\ a.gpu \in 0..Whole /\ a.gpuMax \in 0..Whole
        /\ a.gpu <= a.gpuMax /\ a.gpuN \in Nat
    BY <1>2, <1>3 DEF Learned
  <2>. QED  BY <1>1, <2>1, MeanBelowPeak
<1>6. Ewma(a.ram, reading.ram, a.n) \in 0..Whole
  BY <1>1, <1>2, <1>3 DEF Learned, Ewma
<1>7. reading.ac # NoSample => Ewma(a.ac, reading.ac, a.acN) \in 0..Whole
  BY <1>1, <1>2, <1>3 DEF Learned, Ewma
<1>8. /\ f.n = a.n + 1 /\ f.at = at
      /\ f.gpuN = a.gpuN + (IF reading.gpu # NoSample THEN 1 ELSE 0)
      /\ f.acN = a.acN + (IF reading.ac # NoSample THEN 1 ELSE 0)
      /\ f.cpu = cpu /\ f.cpuMax = RollMax(a.cpuMax, reading.cpu, cpu, a.n)
      /\ f.gpu = (IF reading.gpu # NoSample THEN gpu ELSE a.gpu)
      /\ f.gpuMax = (IF reading.gpu # NoSample THEN RollMax(a.gpuMax, reading.gpu, gpu, a.gpuN)
                     ELSE a.gpuMax)
      /\ f.ram = Ewma(a.ram, reading.ram, a.n)
      /\ f.ac = (IF reading.ac # NoSample THEN Ewma(a.ac, reading.ac, a.acN) ELSE a.ac)
  BY DEF Fold, a
<1>. HIDE DEF f, cpu, gpu
<1>9. Learned(f) /\ f.n > 0
  BY <1>1, <1>3, <1>4, <1>5, <1>6, <1>7, <1>8 DEF Learned
<1>. QED  BY <1>9 DEF f

\* AvailabilityTracker.record adds no more to a record than the time that has passed, and no more
\* to its gaps than what lies beyond the cadence.
LEMMA RecordIsHonest ==
  ASSUME NEW t, t.last \in Nat, t.observed \in Nat, t.unavailable \in Nat,
         NEW gap \in Nat, NEW back \in Nat, t.last # 0, t.last + gap - back > 0
  PROVE  LET r == RecordTime(t, t.last + gap - back) IN
         /\ r.last \in Nat \ {0} /\ r.observed \in Nat /\ r.unavailable \in Nat
         /\ Span(r) <= Span(t) + gap
         /\ r.unavailable <= t.unavailable + gap - Smaller(gap, Interval)
<1>. DEFINE at == t.last + gap - back
            r == RecordTime(t, at)
            e == at - t.last
            o == IF e > GapThreshold THEN Smaller(e, Interval) ELSE e
<1>1. Interval \in Nat \ {0} /\ GapThreshold \in Nat /\ GapThreshold >= Interval
  BY HeadroomAssumption DEF GapThreshold, Larger
<1>2. at \in Nat \ {0} /\ e \in Int /\ e <= gap
  OBVIOUS
<1>3. \/ r.last = at /\ r.observed = t.observed /\ r.unavailable = t.unavailable
      \/ /\ e >= 0 /\ r.last = at /\ r.observed = t.observed + o
         /\ r.unavailable = t.unavailable + e - o
  BY <1>2 DEF RecordTime
<1>. HIDE DEF at, r, e
<1>4. e >= 0 => o \in 0..e /\ e - o <= gap - Smaller(gap, Interval)
  BY <1>1, <1>2 DEF Smaller
<1>5. Smaller(gap, Interval) \in 0..gap
  BY <1>1 DEF Smaller
<1>. HIDE DEF o
<1>6. r.last \in Nat \ {0} /\ r.observed \in Nat /\ r.unavailable \in Nat
      /\ r.observed + r.unavailable <= t.observed + t.unavailable + gap
      /\ r.unavailable <= t.unavailable + gap - Smaller(gap, Interval)
  BY <1>2, <1>3, <1>4, <1>5
<1>. QED  BY <1>6 DEF Span, r, at

-----------------------------------------------------------------------------
(* What is stored is what is read. *)

\* Clipping twice is clipping once.
LEMMA ClipIsStable ==
  ASSUME NEW x, NEW maximum \in Nat
  PROVE  Clip(Clip(x, maximum), maximum) = Clip(x, maximum)
BY DEF Clip, Larger, Smaller

\* _sanitize_profile_report finds nothing more to clip in a metric it made.
LEMMA MetricIsStable ==
  ASSUME NEW m
  PROVE  SanitizeMetric(SanitizeMetric(m)) = SanitizeMetric(m)
<1>. DEFINE avg == Percent(m.avg)
            peak == Percent(m.peak)
            low == Percent(m.low)
            high == Percent(m.high)
            s == SanitizeMetric(m)
<1>1. Whole \in Nat
  BY HeadroomAssumption
<1>2. Percent(avg) = avg /\ Percent(peak) = peak /\ Percent(low) = low /\ Percent(high) = high
  BY <1>1, ClipIsStable DEF Percent
<1>3. s = [avg |-> avg, peak |-> Larger(avg, peak),
           low |-> Smaller(low, high), high |-> Larger(low, high)]
  BY DEF SanitizeMetric
<1>. HIDE DEF avg, peak, low, high, s
<1>4. /\ s.avg = avg /\ s.peak = Larger(avg, peak)
      /\ s.low = Smaller(low, high) /\ s.high = Larger(low, high)
  BY <1>3
<1>5. Percent(s.avg) = avg /\ Larger(avg, Percent(s.peak)) = Larger(avg, peak)
  BY <1>2, <1>4 DEF Larger
<1>6. /\ Smaller(Percent(s.low), Percent(s.high)) = Smaller(low, high)
      /\ Larger(Percent(s.low), Percent(s.high)) = Larger(low, high)
  BY <1>2, <1>4 DEF Larger, Smaller
<1>. QED  BY <1>3, <1>5, <1>6 DEF SanitizeMetric, s

\* Two shares of a sum, taken of a day and rounded down, do not exceed the day.
LEMMA SharesOfADay ==
  ASSUME NEW day \in Nat, NEW a \in Nat, NEW b \in Nat, a + b > 0
  PROVE  /\ (day * a) \div (a + b) \in Nat /\ (day * b) \div (a + b) \in Nat
         /\ (day * a) \div (a + b) + (day * b) \div (a + b) <= day
<1>. DEFINE p == (day * a) \div (a + b)
            q == (day * b) \div (a + b)
            sum == a + b
<1>1. day * a \in Nat /\ day * b \in Nat /\ sum \in Nat /\ sum > 0
  OBVIOUS
<1>2. p \in Nat /\ p * sum <= day * a /\ q \in Nat /\ q * sum <= day * b
  BY <1>1, DivisionBounds
<1>3. day * a + day * b = day * sum
  OBVIOUS
<1>. HIDE DEF p, q, sum
<1>4. (p + q) * sum <= day * sum
  BY <1>1, <1>2, <1>3
<1>5. p + q <= day
  BY <1>1, <1>2, <1>4
<1>. QED  BY <1>2, <1>5 DEF p, q, sum

\* Nor does it find a longer day than 24 hours in what it scaled down.
LEMMA AvailabilityIsStable ==
  ASSUME NEW a, a.span \in Int, a.observed \in Int, a.unavailable \in Int
  PROVE  SanitizeAvailability(SanitizeAvailability(a)) = SanitizeAvailability(a)
<1>. DEFINE o == Clip(a.observed, Day)
            u == Clip(a.unavailable, Day)
            s == SanitizeAvailability(a)
            p == IF o + u > Day THEN (Day * o) \div (o + u) ELSE o
            q == IF o + u > Day THEN (Day * u) \div (o + u) ELSE u
<1>1. Day \in Nat \ {0} /\ MaxSpan \in Nat \ {0}
  BY HeadroomAssumption, MeasurementAssumption
<1>2. CASE a.span <= 0
  <2>1. s = [span |-> 0, observed |-> 0, unavailable |-> 0]
    BY <1>2 DEF SanitizeAvailability
  <2>. QED  BY <2>1 DEF SanitizeAvailability
<1>3. CASE ~(a.span <= 0)
  <2>1. o \in Nat /\ u \in Nat
    BY <1>1 DEF Clip, Larger, Smaller
  <2>2. s = [span |-> Clip(a.span, MaxSpan), observed |-> p, unavailable |-> q]
    BY <1>3 DEF SanitizeAvailability
  <2>3. Clip(a.span, MaxSpan) \in Nat /\ ~(Clip(a.span, MaxSpan) <= 0)
        /\ Clip(Clip(a.span, MaxSpan), MaxSpan) = Clip(a.span, MaxSpan)
    BY <1>1, <1>3, ClipIsStable DEF Clip, Larger, Smaller
  <2>. HIDE DEF o, u, s
  <2>4. p \in Nat /\ q \in Nat /\ p + q <= Day
    <3>1. CASE o + u > Day
      BY <1>1, <2>1, <3>1, SharesOfADay
    <3>2. CASE ~(o + u > Day)
      BY <1>1, <2>1, <3>2
    <3>. QED  BY <3>1, <3>2
  <2>. HIDE DEF p, q
  <2>5. Clip(p, Day) = p /\ Clip(q, Day) = q
    BY <1>1, <2>4 DEF Clip, Larger, Smaller
  <2>6. ~(p + q > Day)
    BY <1>1, <2>4
  <2>7. s.span = Clip(a.span, MaxSpan) /\ s.observed = p /\ s.unavailable = q
    BY <2>2
  <2>8. SanitizeAvailability(s) = [span |-> Clip(s.span, MaxSpan), observed |-> p, unavailable |-> q]
    BY <2>3, <2>5, <2>6, <2>7 DEF SanitizeAvailability
  <2>. QED  BY <2>2, <2>3, <2>7, <2>8 DEF s
<1>. QED  BY <1>2, <1>3

\* A compact row is read back as it was stored (ingest_profile, _decode_stored_profile).
LEMMA CompactIsStable ==
  ASSUME NEW s, s.availability.span \in Int, s.availability.observed \in Int,
         s.availability.unavailable \in Int
  PROVE  Compact(Compact(s)) = Compact(s)
<1>. DEFINE c == Compact(s)
<1>1. /\ c.coverage = Clip(s.coverage, Hours) /\ c.cpu = SanitizeMetric(s.cpu)
      /\ c.gpu = SanitizeMetric(s.gpu) /\ c.gpuSampled = s.gpuSampled
      /\ c.ram = Percent(s.ram) /\ c.ac = Percent(s.ac)
      /\ c.availability = SanitizeAvailability(s.availability)
  BY DEF Compact
<1>2. Clip(c.coverage, Hours) = Clip(s.coverage, Hours)
  BY <1>1, ClipIsStable, HeadroomAssumption
<1>3. Percent(c.ram) = Percent(s.ram) /\ Percent(c.ac) = Percent(s.ac)
  BY <1>1, ClipIsStable, HeadroomAssumption DEF Percent
<1>4. SanitizeMetric(c.cpu) = SanitizeMetric(s.cpu) /\ SanitizeMetric(c.gpu) = SanitizeMetric(s.gpu)
  BY <1>1, MetricIsStable
<1>5. SanitizeAvailability(c.availability) = SanitizeAvailability(s.availability)
  BY <1>1, AvailabilityIsStable
<1>. HIDE DEF c
<1>6. Compact(c) = Compact(s)
  BY <1>1, <1>2, <1>3, <1>4, <1>5 DEF Compact
<1>. QED  BY <1>6 DEF c

-----------------------------------------------------------------------------
(* The invariant. *)

HoursOfWeek == 0..(Hours - 1)

BucketRecord ==
  [n: Nat, gpuN: Nat, acN: Nat, cpu: 0..Whole, cpuMax: 0..Whole, gpu: 0..Whole, gpuMax: 0..Whole,
   ram: 0..Whole, ac: 0..Whole, at: Int]

MachineRecord ==
  [buckets: [HoursOfWeek -> BucketRecord], gpuSupported: {"yes", "no"},
   availability: [last: Nat, observed: Nat, unavailable: Nat]]

\* A machine m that has lived life: what it has learned is well formed, there is something of it
\* once it has taken a sample, and it counts no time that did not pass.
MachineInv(m, life) ==
  /\ m \in MachineRecord /\ life \in [time: Nat, beyond: Nat]
  /\ \A h \in HoursOfWeek : Learned(m.buckets[h])
  /\ m.availability.last # 0 => \E h \in HoursOfWeek : m.buckets[h].n > 0
  /\ Span(m.availability) <= life.time
  /\ m.availability.unavailable <= life.beyond

\* The row of machine d: compact rows need no clipping, and are all there is of today's observers.
RowInv(d, row) ==
  /\ row.kind \in {"none", "list", "compact"}
  /\ row.kind = "compact" => Compact(row) = row
  /\ row.kind # "none" /\ d \notin Legacy => row.kind = "compact" /\ row.coverage \in 1..Hours

CountsInv ==
  /\ bound \in Bounds
  /\ samples \in 0..bound.samples /\ uploads \in 0..bound.uploads /\ reads \in 0..bound.reads

MeasurementInv ==
  /\ DOMAIN local = Devices /\ DOMAIN lived = Devices /\ DOMAIN stored = Devices
  /\ \A d \in Devices : MachineInv(local[d], lived[d])
  /\ \A d \in Devices : RowInv(d, stored[d])
  /\ CountsInv

\* The clock's hour is an hour of the week.
LEMMA BucketIndexInWeek ==
  ASSUME NEW at \in Nat
  PROVE  BucketIndex(at) \in HoursOfWeek
<1>1. HourLength \in Nat /\ HourLength > 0 /\ Hours \in Nat /\ Hours > 0
  BY HeadroomAssumption
<1>2. at \div HourLength \in Nat
  BY <1>1, DivisionBounds
<1>. HIDE DEF BucketIndex
<1>3. \A k \in Nat : (k % Hours) \in 0..(Hours - 1)
  BY <1>1
<1>. QED  BY <1>2, <1>3 DEF BucketIndex, HoursOfWeek

\* Folding a sample in makes a bucket's record of a bucket's record.
LEMMA FoldIsRecord ==
  ASSUME NEW b \in BucketRecord, Learned(b), NEW at \in Int, NEW reading \in Readings
  PROVE  Learned(Fold(b, reading, at)) /\ Fold(b, reading, at).n > 0
         /\ Fold(b, reading, at) \in BucketRecord
<1>. DEFINE f == Fold(b, reading, at)
<1>1. Learned(f) /\ f.n > 0
  BY FoldLearns
<1>2. f = [n |-> f.n, gpuN |-> f.gpuN, acN |-> f.acN, cpu |-> f.cpu, cpuMax |-> f.cpuMax,
           gpu |-> f.gpu, gpuMax |-> f.gpuMax, ram |-> f.ram, ac |-> f.ac, at |-> f.at]
  BY DEF Fold
<1>. HIDE DEF f
<1>3. f \in BucketRecord
  BY <1>1, <1>2 DEF Learned, BucketRecord
<1>. QED  BY <1>1, <1>3 DEF f

\* A sample is learned and its time is counted (UsageProfiler.record, AvailabilityTracker.record).
LEMMA SampleStep ==
  ASSUME MeasurementInv, NEW d \in Devices, NEW reading \in Readings, NEW pause \in Pauses,
         Sample(d, reading, pause)
  PROVE  MeasurementInv'
<1>. DEFINE m == local[d]
            t == m.availability
            at == IF t.last = 0 THEN StartTime ELSE t.last + pause.gap - pause.back
            hour == BucketIndex(at)
            f == Fold(m.buckets[hour], reading, at)
            r == RecordTime(t, at)
<1>1. /\ m \in MachineRecord /\ lived[d] \in [time: Nat, beyond: Nat]
      /\ \A h \in HoursOfWeek : Learned(m.buckets[h])
      /\ Span(t) <= lived[d].time /\ t.unavailable <= lived[d].beyond
      /\ DOMAIN local = Devices /\ DOMAIN lived = Devices
  BY DEF MeasurementInv, MachineInv
<1>2. t \in [last: Nat, observed: Nat, unavailable: Nat]
  BY <1>1 DEF MachineRecord
<1>3. pause.gap \in Nat /\ pause.back \in Nat /\ StartTime \in Nat \ {0} /\ Interval \in Nat \ {0}
  BY MeasurementAssumption, HeadroomAssumption
<1>4. at \in Nat \ {0}
  <2>1. t.last = 0 \/ t.last + pause.gap - pause.back > 0
    BY DEF Sample
  <2>. QED  BY <1>2, <1>3, <2>1
<1>5. hour \in HoursOfWeek
  BY <1>4, BucketIndexInWeek
<1>6. Learned(f) /\ f.n > 0 /\ f \in BucketRecord
  <2>1. m.buckets[hour] \in BucketRecord /\ Learned(m.buckets[hour])
    BY <1>1, <1>5 DEF MachineRecord
  <2>. QED  BY <1>4, <2>1, FoldIsRecord
<1>7. /\ r \in [last: Nat, observed: Nat, unavailable: Nat]
      /\ Span(r) <= lived'[d].time /\ r.unavailable <= lived'[d].beyond
      /\ lived'[d] \in [time: Nat, beyond: Nat]
  <2>1. r = [last |-> r.last, observed |-> r.observed, unavailable |-> r.unavailable]
    BY <1>2 DEF RecordTime
  <2>2. CASE t.last = 0
    <3>1. lived' = lived
      BY <2>2 DEF Sample
    <3>2. r.last = at /\ r.observed = t.observed /\ r.unavailable = t.unavailable
      BY <1>2, <2>2 DEF RecordTime
    <3>. QED  BY <1>1, <1>2, <1>4, <2>1, <3>1, <3>2 DEF Span
  <2>3. CASE t.last # 0
    <3>1. lived' = [lived EXCEPT ![d].time = @ + pause.gap,
                                 ![d].beyond = @ + pause.gap - Smaller(pause.gap, Interval)]
      BY <2>3 DEF Sample
    <3>2. /\ lived'[d].time = lived[d].time + pause.gap
          /\ lived'[d].beyond = lived[d].beyond + pause.gap - Smaller(pause.gap, Interval)
          /\ lived'[d] = [time |-> lived'[d].time, beyond |-> lived'[d].beyond]
      BY <1>1, <3>1
    <3>3. Smaller(pause.gap, Interval) \in 0..pause.gap
      BY <1>3 DEF Smaller
    <3>4. at = t.last + pause.gap - pause.back /\ t.last + pause.gap - pause.back > 0
      BY <1>4, <2>3
    <3>5. /\ r.last \in Nat /\ r.observed \in Nat /\ r.unavailable \in Nat
          /\ Span(r) <= Span(t) + pause.gap
          /\ r.unavailable <= t.unavailable + pause.gap - Smaller(pause.gap, Interval)
      BY <1>2, <1>3, <2>3, <3>4, RecordIsHonest
    <3>. HIDE DEF r, at
    <3>6. Span(t) \in Nat /\ Span(r) \in Nat
      BY <1>2, <3>5 DEF Span
    <3>. QED  BY <1>1, <1>2, <1>3, <2>1, <3>2, <3>3, <3>5, <3>6
  <2>. QED  BY <2>2, <2>3
<1>8. local' = [local EXCEPT ![d].buckets[hour] = f, ![d].availability = r]
  BY DEF Sample
<1>9. /\ local'[d].buckets = [m.buckets EXCEPT ![hour] = f] /\ local'[d].availability = r
      /\ local'[d] = [buckets |-> [m.buckets EXCEPT ![hour] = f],
                      gpuSupported |-> m.gpuSupported, availability |-> r]
      /\ DOMAIN local' = Devices /\ \A e \in Devices \ {d} : local'[e] = local[e]
  <2>. HIDE DEF f, r, hour
  <2>. QED  BY <1>1, <1>8 DEF MachineRecord
<1>10. DOMAIN lived' = Devices /\ \A e \in Devices \ {d} : lived'[e] = lived[e]
  BY <1>1 DEF Sample
<1>. HIDE DEF f, r, hour, at
<1>11. MachineInv(local'[d], lived'[d])
  <2>1. local'[d] \in MachineRecord
    BY <1>1, <1>5, <1>6, <1>7, <1>9 DEF MachineRecord
  <2>2. \A h \in HoursOfWeek : Learned(local'[d].buckets[h])
    BY <1>1, <1>5, <1>6, <1>9 DEF MachineRecord
  <2>3. local'[d].buckets[hour].n > 0
    BY <1>1, <1>5, <1>6, <1>9 DEF MachineRecord
  <2>. QED  BY <1>5, <1>7, <1>9, <2>1, <2>2, <2>3 DEF MachineInv
<1>12. \A e \in Devices : MachineInv(local'[e], lived'[e])
  BY <1>9, <1>10, <1>11 DEF MeasurementInv
<1>13. CountsInv' /\ stored' = stored
  <2>1. samples < bound.samples /\ samples' = samples + 1 /\ bound' = bound
        /\ uploads' = uploads /\ reads' = reads /\ stored' = stored
    BY DEF Sample, server
  <2>2. bound.samples \in Nat
    BY MeasurementAssumption DEF MeasurementInv, CountsInv
  <2>. QED  BY <2>1, <2>2 DEF MeasurementInv, CountsInv
<1>. QED  BY <1>9, <1>10, <1>12, <1>13 DEF MeasurementInv

\* report_profile: a machine that has taken a sample uploads at least one hour, at most a week of
\* them, and an availability record of whole numbers.
LEMMA UploadedIsMeasured ==
  ASSUME NEW d \in Devices, NEW life, MachineInv(local[d], life), local[d].availability.last > 0
  PROVE  LET s == Summarize(Uploaded(d)) IN
         /\ s.coverage \in 1..Hours
         /\ {s.availability.span, s.availability.observed, s.availability.unavailable} \subseteq Int
<1>. DEFINE m == local[d]
            b == Uploaded(d).buckets
            s == Summarize(Uploaded(d))
            t == m.availability
<1>1. Hours \in Nat \ {0} /\ Day \in Nat
  BY HeadroomAssumption
<1>2. m \in MachineRecord /\ \E h \in HoursOfWeek : m.buckets[h].n > 0
  BY DEF MachineInv, MachineRecord
<1>3. Uploaded(d).availability = t
      /\ b = [h \in HoursOfWeek |-> [m.buckets[h] EXCEPT !.gpuN = NoCount]]
  BY <1>2 DEF Uploaded, MachineRecord
<1>4. s.coverage = Cardinality(Populated(b)) /\ s.availability = SummarizeAvailability(t)
  BY <1>3 DEF Summarize
<1>5. Populated(b) \subseteq HoursOfWeek /\ Populated(b) # {}
  BY <1>2, <1>3 DEF Populated, MachineRecord, BucketRecord
<1>6. Cardinality(Populated(b)) \in 1..Hours
  <2>1. IsFiniteSet(HoursOfWeek) /\ Cardinality(HoursOfWeek) = Hours
    <3>1. 0 \in Int /\ Hours - 1 \in Int /\ ~(0 > Hours - 1) /\ (Hours - 1) - 0 + 1 = Hours
      BY <1>1
    <3>. QED  BY <3>1, FS_Interval DEF HoursOfWeek
  <2>2. IsFiniteSet(Populated(b)) /\ Cardinality(Populated(b)) <= Hours
    BY <1>5, <2>1, FS_Subset
  <2>3. Cardinality(Populated(b)) \in Nat /\ Cardinality(Populated(b)) # 0
    BY <1>5, <2>2, FS_CardinalityType, FS_EmptySet
  <2>. QED  BY <1>1, <2>2, <2>3
<1>7. {s.availability.span, s.availability.observed, s.availability.unavailable} \subseteq Int
  <2>1. t.observed \in Nat /\ t.unavailable \in Nat
    BY <1>2 DEF MachineRecord
  <2>2. CASE Span(t) = 0
    BY <1>4, <2>2 DEF SummarizeAvailability
  <2>3. CASE Span(t) # 0
    <3>1. t.observed + t.unavailable > 0
      BY <2>1, <2>3 DEF Span
    <3>2. (Day * t.observed) \div Span(t) \in Nat /\ (Day * t.unavailable) \div Span(t) \in Nat
      BY <1>1, <2>1, <3>1, SharesOfADay DEF Span
    <3>3. Span(t) \in Nat
      BY <2>1 DEF Span
    <3>. QED  BY <1>4, <2>3, <3>2, <3>3 DEF SummarizeAvailability
  <2>. QED  BY <2>2, <2>3
<1>. QED  BY <1>4, <1>6, <1>7

\* What an upload makes of a row (ingest_profile, _sanitize_profile_report).
LEMMA CompactRow ==
  ASSUME NEW d \in Devices, NEW s, d \in Legacy \/ s.coverage \in 1..Hours,
         {s.availability.span, s.availability.observed, s.availability.unavailable} \subseteq Int
  PROVE  RowInv(d, Compact(s))
<1>1. Compact(Compact(s)) = Compact(s)
  BY CompactIsStable
<1>2. Compact(s).kind = "compact" /\ Compact(s).coverage = Clip(s.coverage, Hours)
  BY DEF Compact
<1>3. d \notin Legacy => Clip(s.coverage, Hours) \in 1..Hours
  BY HeadroomAssumption DEF Clip, Larger, Smaller
<1>. QED  BY <1>1, <1>2, <1>3 DEF RowInv

\* An upload, let in or refused, of either kind of observer (report_profile, ingest_profile).
LEMMA UploadStep ==
  ASSUME MeasurementInv, NEW d \in Devices,
         Upload(d) \/ \E list \in Lists : UploadList(d, list)
  PROVE  MeasurementInv'
<1>1. UNCHANGED machines /\ uploads < bound.uploads
  BY DEF Upload, UploadList
<1>2. bound.uploads \in Nat
  BY MeasurementAssumption DEF MeasurementInv, CountsInv
<1>3. CASE UNCHANGED server
  BY <1>1, <1>3 DEF MeasurementInv, CountsInv, machines, server
<1>4. ASSUME NEW s, NEW from, Store(d, Compact(s), from), d \in Legacy \/ s.coverage \in 1..Hours,
             {s.availability.span, s.availability.observed, s.availability.unavailable} \subseteq Int
      PROVE  MeasurementInv'
  <2>1. /\ stored' = [stored EXCEPT ![d] = Compact(s)] /\ uploads' = uploads + 1 /\ reads' = reads
    BY <1>4 DEF Store
  <2>2. RowInv(d, Compact(s))
    BY <1>4, CompactRow
  <2>3. DOMAIN stored = Devices /\ \A e \in Devices : RowInv(e, stored[e])
    BY DEF MeasurementInv
  <2>4. DOMAIN stored' = Devices /\ \A e \in Devices : RowInv(e, stored'[e])
    BY <2>1, <2>2, <2>3
  <2>5. CountsInv'
    BY <1>1, <1>2, <2>1 DEF MeasurementInv, CountsInv, machines
  <2>. QED  BY <1>1, <2>4, <2>5 DEF MeasurementInv, machines
<1>5. CASE Upload(d)
  <2>1. MachineInv(local[d], lived[d]) /\ local[d].availability.last > 0
    BY <1>5 DEF MeasurementInv, Upload
  <2>. DEFINE s == Summarize(Uploaded(d))
  <2>2. /\ s.coverage \in 1..Hours
        /\ {s.availability.span, s.availability.observed, s.availability.unavailable} \subseteq Int
    BY <2>1, UploadedIsMeasured
  <2>3. UNCHANGED server \/ Store(d, Compact(s), local[d])
    BY <1>5 DEF Upload
  <2>. HIDE DEF s
  <2>. QED  BY <1>3, <1>4, <2>2, <2>3
<1>6. ASSUME NEW list \in Lists, UploadList(d, list) PROVE MeasurementInv'
  <2>. DEFINE profile == EarlierFile(SanitizeBuckets(list))
              s == Summarize(profile)
  <2>1. d \in Legacy /\ (UNCHANGED server \/ Store(d, Compact(s), profile))
    BY <1>6 DEF UploadList, CompactFromBuckets
  <2>2. s.availability = SummarizeAvailability(NeverSampled)
    BY DEF Summarize, EarlierFile, Profile
  <2>3. SummarizeAvailability(NeverSampled) = [span |-> 0, observed |-> 0, unavailable |-> 0]
    BY DEF SummarizeAvailability, NeverSampled, Span
  <2>. HIDE DEF s, profile
  <2>. QED  BY <1>3, <1>4, <2>1, <2>2, <2>3
<1>. QED  BY <1>5, <1>6

\* MeasurementInv is inductive.
LEMMA MeasurementInvInductive ==
  /\ Init => MeasurementInv
  /\ MeasurementInv /\ [Next]_vars => MeasurementInv'
<1>1. ASSUME Init PROVE MeasurementInv
  <2>. USE HeadroomAssumption
  <2>1. \A d \in Devices :
          /\ local[d] = Profile([h \in HoursOfWeek |-> Bucket0], Supported(d), NeverSampled)
          /\ lived[d] = [time |-> 0, beyond |-> 0]
    BY <1>1 DEF Init, HoursOfWeek
  <2>2. Bucket0 \in BucketRecord /\ Learned(Bucket0)
    BY DEF Bucket0, BucketRecord, Learned
  <2>3. ASSUME NEW d \in Devices PROVE MachineInv(local[d], lived[d])
    <3>. DEFINE empty == [h \in HoursOfWeek |-> Bucket0]
    <3>1. local[d] = [buckets |-> empty, gpuSupported |-> Supported(d), availability |-> NeverSampled]
      BY <2>1 DEF Profile
    <3>2. empty \in [HoursOfWeek -> BucketRecord] /\ \A h \in HoursOfWeek : empty[h] = Bucket0
      BY <2>2
    <3>3. Supported(d) \in {"yes", "no"}
      BY DEF Supported
    <3>4. NeverSampled \in [last: Nat, observed: Nat, unavailable: Nat]
      BY DEF NeverSampled
    <3>. HIDE DEF empty
    <3>5. local[d] \in MachineRecord
      BY <3>1, <3>2, <3>3, <3>4 DEF MachineRecord
    <3>6. local[d].availability = NeverSampled
          /\ \A h \in HoursOfWeek : local[d].buckets[h] = Bucket0
      BY <3>1, <3>2
    <3>. QED  BY <2>1, <2>2, <3>5, <3>6 DEF MachineInv, NeverSampled, Span
  <2>4. ASSUME NEW d \in Devices PROVE RowInv(d, stored[d])
    <3>1. PICK rows \in [Legacy -> {<< >>} \cup {SanitizeBuckets(list) : list \in Lists}] :
            stored = [e \in Devices |-> IF e \in Legacy /\ rows[e] # << >> THEN ListRow(rows[e])
                                        ELSE NoRow]
      BY <1>1 DEF Init
    <3>2. stored[d] = NoRow \/ (d \in Legacy /\ stored[d] = ListRow(rows[d]))
      BY <3>1
    <3>. QED  BY <3>2 DEF RowInv, NoRow, ListRow
  <2>5. DOMAIN local = Devices /\ DOMAIN lived = Devices /\ DOMAIN stored = Devices
    BY <1>1 DEF Init
  <2>6. CountsInv
    <3>1. bound \in Bounds /\ samples = 0 /\ uploads = 0 /\ reads = 0
      BY <1>1 DEF Init
    <3>. QED  BY <3>1, MeasurementAssumption DEF CountsInv
  <2>. QED  BY <2>3, <2>4, <2>5, <2>6 DEF MeasurementInv
<1>2. ASSUME MeasurementInv, [Next]_vars PROVE MeasurementInv'
  <2>1. ASSUME NEW d \in Devices, NEW reading \in Readings, NEW pause \in Pauses,
               Sample(d, reading, pause)
        PROVE  MeasurementInv'
    BY <1>2, <2>1, SampleStep
  <2>2. ASSUME NEW d \in Devices, Upload(d) \/ \E list \in Lists : UploadList(d, list)
        PROVE  MeasurementInv'
    BY <1>2, <2>2, UploadStep
  <2>3. CASE Read
    <3>1. bound.reads \in Nat
      BY <1>2, MeasurementAssumption DEF MeasurementInv, CountsInv
    <3>. QED  BY <1>2, <2>3, <3>1 DEF Read, MeasurementInv, CountsInv, machines
  <2>4. CASE Time \/ Restart \/ UNCHANGED vars
    BY <1>2, <2>4 DEF Time, Restart, vars, MeasurementInv, CountsInv, machines, server
  <2>. QED  BY <1>2, <2>1, <2>2, <2>3, <2>4 DEF Next
<1>. QED  BY <1>1, <1>2

-----------------------------------------------------------------------------
(* Means and peaks. *)

\* SumFunctionOnSet over all of a function is its Total.
LEMMA SumIsTotal ==
  ASSUME NEW S, NEW f, DOMAIN f = S
  PROVE  SumFunctionOnSet(f, S) = Total(f)
BY DEF SumFunctionOnSet, Total, FoldFunction, FoldFunctionOnSet, MapThenFoldSet

\* As many times the same.
LEMMA SumOfSame ==
  ASSUME NEW S, IsFiniteSet(S), NEW c \in Int, NEW f, f = [x \in S |-> c]
  PROVE  Total(f) = c * Cardinality(S)
<1>1. PICK one : one = [x \in S |-> 1]
  OBVIOUS
<1>2. one \in [S -> {0, 1}] /\ one \in [S -> Int] /\ \A x \in S : one[x] = 1
  BY <1>1
<1>3. Total(one) = Cardinality(S)
  <2>1. Total(one) = Cardinality({x \in S : one[x] = 1})
    BY <1>2, SumCounts
  <2>2. {x \in S : one[x] = 1} = S
    BY <1>2
  <2>. QED  BY <2>1, <2>2
<1>4. f \in [S -> Int] /\ \A x \in S : f[x] = c * one[x]
  BY <1>2
<1>. QED  BY <1>2, <1>3, <1>4, SumScales

\* A mean lies between what it is a mean of.
LEMMA MeanBetween ==
  ASSUME NEW S, IsFiniteSet(S), S # {}, NEW f \in [S -> Int], NEW a \in Int, NEW c \in Int,
         \A x \in S : a <= f[x] /\ f[x] <= c
  PROVE  Mean(f, S) \in a..c
<1>1. PICK N \in Nat \ {0} : N = Cardinality(S)
  BY FS_CardinalityType, FS_EmptySet
<1>2. PICK least, most : least = [x \in S |-> a] /\ most = [x \in S |-> c]
  OBVIOUS
<1>3. Total(least) = a * N /\ Total(most) = c * N
  BY <1>1, <1>2, SumOfSame
<1>4. PICK T \in Int : T = Total(f)
  BY SumType
<1>5. a * N <= T /\ T <= c * N
  <2>1. least \in [S -> Int] /\ most \in [S -> Int]
    BY <1>2
  <2>2. \A x \in S : least[x] <= f[x] /\ f[x] <= most[x]
    BY <1>2
  <2>3. Total(least) <= Total(f) /\ Total(f) <= Total(most)
    BY <2>1, <2>2, SumOrders
  <2>. QED  BY <1>3, <1>4, <2>3
<1>6. T \div N \in a..c
  BY <1>1, <1>5
<1>7. Mean(f, S) = T \div N
  BY <1>1, <1>4, SumIsTotal DEF Mean
<1>. QED  BY <1>6, <1>7

\* A peak is one of the values, and none is above it.
LEMMA PeakFacts ==
  ASSUME NEW S, IsFiniteSet(S), S # {}, NEW f \in [S -> Int]
  PROVE  /\ \E x \in S : Peak(f, S) = f[x]
         /\ \A x \in S : f[x] <= Peak(f, S)
<1>1. PICK V : V = {f[x] : x \in S}
  OBVIOUS
<1>2. IsFiniteSet(V) /\ V # {} /\ \A v \in V : v \in Int
  <2>1. f \in Surjection(S, V)
    BY <1>1 DEF Surjection
  <2>2. IsFiniteSet(V)
    BY <2>1, FS_Surjection
  <2>. QED  BY <1>1, <2>2
<1>3. PICK same : same = [v \in V |-> v]
  OBVIOUS
<1>4. same \in [V -> Int] /\ Numbers(V)
  BY <1>2, <1>3 DEF Numbers
<1>5. PICK m \in V : \A v \in V : same[v] < same[m] \/ (same[v] = same[m] /\ m <= v)
  BY <1>2, <1>4, FirstLargest
<1>6. \A v \in V : m >= v
  BY <1>2, <1>3, <1>5
<1>7. Max(V) \in V /\ \A v \in V : Max(V) >= v
  BY <1>6 DEF Max
<1>8. Peak(f, S) = Max(V)
  BY <1>1 DEF Peak
<1>. QED  BY <1>1, <1>2, <1>7, <1>8

\* The first of some numbers.
LEMMA MinFacts ==
  ASSUME NEW S, IsFiniteSet(S), S # {}, \A x \in S : x \in Int
  PROVE  Min(S) \in S
<1>1. PICK v : v = [x \in S |-> 0 - x]
  OBVIOUS
<1>2. v \in [S -> Int] /\ Numbers(S)
  BY <1>1 DEF Numbers
<1>3. PICK m \in S : \A x \in S : v[x] < v[m] \/ (v[x] = v[m] /\ m <= x)
  BY <1>2, FirstLargest
<1>4. \A x \in S : m <= x
  BY <1>1, <1>3
<1>. QED  BY <1>4 DEF Min

-----------------------------------------------------------------------------
(* What a summary may be, and that a row of the table keeps it. *)

\* A profile as a machine or an earlier observer may have it.
BucketOK(b) ==
  /\ b.cpu \in 0..Whole /\ b.cpuMax \in b.cpu..Whole
  /\ b.gpu \in 0..Whole /\ b.gpuMax \in b.gpu..Whole
  /\ b.ram \in 0..Whole /\ b.ac \in 0..Whole
ProfileOK(p) ==
  /\ DOMAIN p.buckets \subseteq HoursOfWeek
  /\ \A h \in DOMAIN p.buckets : BucketOK(p.buckets[h])
  /\ p.availability.observed \in Nat /\ p.availability.unavailable \in Nat

\* Its summary: shares of the whole and of a day.
MetricOK(m) ==
  /\ m.avg \in 0..Whole /\ m.peak \in m.avg..Whole
  /\ m.low \in 0..Whole /\ m.high \in m.low..Whole
  /\ m.spare \in 0..Whole /\ m.low = m.spare \div 5 /\ m.high = (2 * m.spare) \div 5
DayOK(a) ==
  /\ a.span \in Nat /\ a.observed \in Nat /\ a.unavailable \in Nat
  /\ a.observed + a.unavailable <= Day
  /\ a.span = 0 => a.observed = 0 /\ a.unavailable = 0
SummaryOK(s) ==
  /\ s.coverage \in 0..Hours /\ MetricOK(s.cpu) /\ MetricOK(s.gpu)
  /\ s.ram \in 0..Whole /\ s.ac \in 0..Whole /\ DayOK(s.availability)

\* Nothing is a metric.
LEMMA EmptyMetricOK == MetricOK(EmptyMetric)
<1>1. Whole \in Nat
  BY HeadroomAssumption
<1>2. 0 \div 5 = 0 /\ (2 * 0) \div 5 = 0
  OBVIOUS
<1>. QED  BY <1>1, <1>2 DEF MetricOK, EmptyMetric

\* The means, the peak, and what is recoverable of what is spare, are shares.
LEMMA MetricIsOK ==
  ASSUME NEW S, IsFiniteSet(S), S # {}, NEW f \in [S -> 0..Whole], NEW top \in [S -> 0..Whole],
         NEW spare \in [S -> 0..Whole], \A x \in S : f[x] <= top[x]
  PROVE  MetricOK(Metric(Mean(f, S), Peak(top, S), Mean(spare, S)))
<1>1. Whole \in Nat /\ \A x \in S : f[x] \in 0..Whole /\ top[x] \in 0..Whole /\ spare[x] \in 0..Whole
  BY HeadroomAssumption
<1>2. f \in [S -> Int] /\ top \in [S -> Int] /\ spare \in [S -> Int]
  BY <1>1
<1>3. Peak(top, S) \in 0..Whole /\ \A x \in S : f[x] <= Peak(top, S)
  <2>1. /\ \E x \in S : Peak(top, S) = top[x]
        /\ \A x \in S : top[x] <= Peak(top, S)
    BY <1>2, PeakFacts
  <2>2. Peak(top, S) \in 0..Whole
    BY <1>1, <2>1
  <2>. QED  BY <1>1, <2>1, <2>2
<1>4. Mean(f, S) \in 0..Peak(top, S)
  <2>1. PICK peak \in Int : peak = Peak(top, S)
    BY <1>1, <1>3
  <2>2. 0 \in Int /\ \A x \in S : 0 <= f[x] /\ f[x] <= peak
    BY <1>1, <1>3, <2>1
  <2>3. Mean(f, S) \in 0..peak
    BY <1>2, <2>2, MeanBetween
  <2>. QED  BY <2>1, <2>3
<1>5. Mean(spare, S) \in 0..Whole
  BY <1>1, <1>2, MeanBetween
<1>6. PICK a, p, s \in Nat : a = Mean(f, S) /\ p = Peak(top, S) /\ s = Mean(spare, S)
  BY <1>1, <1>3, <1>4, <1>5
<1>7. a <= p /\ p <= Whole /\ s <= Whole
  BY <1>1, <1>3, <1>4, <1>5, <1>6
<1>8. MetricOK(Metric(a, p, s))
  <2>1. PICK low, high : low = s \div 5 /\ high = (2 * s) \div 5
    OBVIOUS
  <2>2. low \in 0..s /\ high \in low..s
    BY <2>1
  <2>. QED  BY <1>1, <1>7, <2>1, <2>2 DEF Metric, MetricOK
<1>. QED  BY <1>6, <1>8

\* A day is shared between what was observed and what was not.
LEMMA DayIsOK ==
  ASSUME NEW t, t.observed \in Nat, t.unavailable \in Nat
  PROVE  DayOK(SummarizeAvailability(t))
<1>1. Day \in Nat
  BY HeadroomAssumption
<1>2. CASE Span(t) = 0
  BY <1>1, <1>2 DEF SummarizeAvailability, DayOK
<1>3. CASE Span(t) # 0
  <2>1. PICK o, u \in Nat : o = t.observed /\ u = t.unavailable
    OBVIOUS
  <2>2. Span(t) = o + u /\ o + u > 0
    BY <1>3, <2>1 DEF Span
  <2>3. PICK p, q : p = (Day * o) \div (o + u) /\ q = (Day * u) \div (o + u)
    OBVIOUS
  <2>4. p \in Nat /\ q \in Nat /\ p + q <= Day
    BY <1>1, <2>2, <2>3, SharesOfADay
  <2>5. SummarizeAvailability(t) = [span |-> o + u, observed |-> p, unavailable |-> q]
    BY <1>3, <2>1, <2>2, <2>3 DEF SummarizeAvailability
  <2>. QED  BY <2>2, <2>4, <2>5 DEF DayOK
<1>. QED  BY <1>2, <1>3

\* The mean of shares is a share, of none it is none.
LEMMA ShareIsOK ==
  ASSUME NEW S, IsFiniteSet(S), NEW f \in [S -> 0..Whole]
  PROVE  Mean(f, S) \in 0..Whole
<1>1. Whole \in Nat
  BY HeadroomAssumption
<1>2. CASE S = {}
  BY <1>1, <1>2 DEF Mean
<1>3. CASE S # {}
  <2>1. f \in [S -> Int] /\ \A x \in S : 0 <= f[x] /\ f[x] <= Whole
    BY <1>1
  <2>. QED  BY <1>1, <1>3, <2>1, MeanBetween
<1>. QED  BY <1>2, <1>3

\* summarize_profile, from the hours that were measured and those with a GPU.
GpuHours(p) ==
  {h \in Populated(p.buckets) : HasGpuSample(p.buckets[h], p.gpuSupported,
     \E i \in Populated(p.buckets) :
       p.buckets[i].gpuN = NoCount /\ (p.buckets[i].gpu > 0 \/ p.buckets[i].gpuMax > 0))}

SummaryOf(b, hours, gpuHours, t) ==
  [coverage |-> Cardinality(hours),
   cpu |-> IF hours = {} THEN EmptyMetric
           ELSE Metric(Mean([h \in hours |-> b[h].cpu], hours),
                       Peak([h \in hours |-> b[h].cpuMax], hours),
                       Mean([h \in hours |-> Larger(0, Whole - b[h].cpu - Margin)], hours)),
   gpu |-> IF gpuHours = {} THEN EmptyMetric
           ELSE Metric(Mean([h \in gpuHours |-> b[h].gpu], gpuHours),
                       Peak([h \in gpuHours |-> b[h].gpuMax], gpuHours),
                       Mean([h \in gpuHours |-> Larger(0, Whole - b[h].gpu)], gpuHours)),
   gpuSampled |-> gpuHours # {},
   ram |-> Mean([h \in hours |-> b[h].ram], hours),
   ac  |-> Mean([h \in hours |-> b[h].ac], hours),
   availability |-> SummarizeAvailability(t)]

LEMMA SummarizeIs ==
  ASSUME NEW p
  PROVE  Summarize(p) = SummaryOf(p.buckets, Populated(p.buckets), GpuHours(p), p.availability)
BY DEF Summarize, SummaryOf, GpuHours

LEMMA SummaryIsOK ==
  ASSUME NEW p, ProfileOK(p)
  PROVE  SummaryOK(Summarize(p))
<1>1. Whole \in Nat /\ Hours \in Nat \ {0} /\ Margin \in 0..Whole
  BY HeadroomAssumption DEF Margin
<1>2. PICK b, hours : b = p.buckets /\ hours = Populated(b)
  OBVIOUS
<1>3. hours \subseteq HoursOfWeek /\ \A h \in hours : BucketOK(b[h])
  BY <1>2 DEF ProfileOK, Populated
<1>4. IsFiniteSet(hours) /\ Cardinality(hours) \in 0..Hours
  <2>1. IsFiniteSet(HoursOfWeek) /\ Cardinality(HoursOfWeek) = Hours
    <3>1. 0 \in Int /\ Hours - 1 \in Int /\ ~(0 > Hours - 1) /\ (Hours - 1) - 0 + 1 = Hours
      BY <1>1
    <3>. QED  BY <3>1, FS_Interval DEF HoursOfWeek
  <2>2. IsFiniteSet(hours) /\ Cardinality(hours) <= Hours
    BY <1>3, <2>1, FS_Subset
  <2>. QED  BY <1>1, <2>2, FS_CardinalityType
<1>5. PICK gpuHours : gpuHours = GpuHours(p)
  OBVIOUS
<1>6. gpuHours \subseteq hours /\ IsFiniteSet(gpuHours)
  BY <1>2, <1>4, <1>5, FS_Subset DEF GpuHours
<1>7. PICK cpuSpare, gpuSpare :
        /\ cpuSpare = [h \in hours |-> Larger(0, Whole - b[h].cpu - Margin)]
        /\ gpuSpare = [h \in gpuHours |-> Larger(0, Whole - b[h].gpu)]
  OBVIOUS
<1>8. Summarize(p) =
        [coverage |-> Cardinality(hours),
         cpu |-> IF hours = {} THEN EmptyMetric
                 ELSE Metric(Mean([h \in hours |-> b[h].cpu], hours),
                             Peak([h \in hours |-> b[h].cpuMax], hours), Mean(cpuSpare, hours)),
         gpu |-> IF gpuHours = {} THEN EmptyMetric
                 ELSE Metric(Mean([h \in gpuHours |-> b[h].gpu], gpuHours),
                             Peak([h \in gpuHours |-> b[h].gpuMax], gpuHours),
                             Mean(gpuSpare, gpuHours)),
         gpuSampled |-> gpuHours # {},
         ram |-> Mean([h \in hours |-> b[h].ram], hours),
         ac  |-> Mean([h \in hours |-> b[h].ac], hours),
         availability |-> SummarizeAvailability(p.availability)]
  BY <1>2, <1>5, <1>7, SummarizeIs DEF SummaryOf
<1>9. \A h \in hours : /\ b[h].cpu \in 0..Whole /\ b[h].cpuMax \in 0..Whole /\ b[h].cpu <= b[h].cpuMax
                       /\ b[h].gpu \in 0..Whole /\ b[h].gpuMax \in 0..Whole /\ b[h].gpu <= b[h].gpuMax
                       /\ b[h].ram \in 0..Whole /\ b[h].ac \in 0..Whole
  BY <1>1, <1>3 DEF BucketOK
<1>10. cpuSpare \in [hours -> 0..Whole] /\ gpuSpare \in [gpuHours -> 0..Whole]
  <2>1. \A h \in hours : Larger(0, Whole - b[h].cpu - Margin) \in 0..Whole
    BY <1>1, <1>9 DEF Larger
  <2>2. \A h \in gpuHours : Larger(0, Whole - b[h].gpu) \in 0..Whole
    BY <1>1, <1>6, <1>9 DEF Larger
  <2>. QED  BY <1>7, <2>1, <2>2
<1>11. MetricOK(Summarize(p).cpu)
  <2>1. CASE hours = {}
    BY <1>8, <2>1, EmptyMetricOK
  <2>2. CASE hours # {}
    <3>1. PICK f, top : f = [h \in hours |-> b[h].cpu] /\ top = [h \in hours |-> b[h].cpuMax]
      OBVIOUS
    <3>2. f \in [hours -> 0..Whole] /\ top \in [hours -> 0..Whole] /\ \A h \in hours : f[h] <= top[h]
      BY <1>9, <3>1
    <3>3. MetricOK(Metric(Mean(f, hours), Peak(top, hours), Mean(cpuSpare, hours)))
      BY <1>4, <1>10, <2>2, <3>2, MetricIsOK
    <3>. QED  BY <1>8, <2>2, <3>1, <3>3
  <2>. QED  BY <2>1, <2>2
<1>12. MetricOK(Summarize(p).gpu)
  <2>1. CASE gpuHours = {}
    BY <1>8, <2>1, EmptyMetricOK
  <2>2. CASE gpuHours # {}
    <3>1. PICK f, top : f = [h \in gpuHours |-> b[h].gpu] /\ top = [h \in gpuHours |-> b[h].gpuMax]
      OBVIOUS
    <3>2. /\ f \in [gpuHours -> 0..Whole] /\ top \in [gpuHours -> 0..Whole]
          /\ \A h \in gpuHours : f[h] <= top[h]
      BY <1>6, <1>9, <3>1
    <3>3. MetricOK(Metric(Mean(f, gpuHours), Peak(top, gpuHours), Mean(gpuSpare, gpuHours)))
      BY <1>6, <1>10, <2>2, <3>2, MetricIsOK
    <3>. QED  BY <1>8, <2>2, <3>1, <3>3
  <2>. QED  BY <2>1, <2>2
<1>13. Summarize(p).ram \in 0..Whole /\ Summarize(p).ac \in 0..Whole
  <2>1. PICK f, g : f = [h \in hours |-> b[h].ram] /\ g = [h \in hours |-> b[h].ac]
    OBVIOUS
  <2>2. f \in [hours -> 0..Whole] /\ g \in [hours -> 0..Whole]
    BY <1>9, <2>1
  <2>3. Mean(f, hours) \in 0..Whole /\ Mean(g, hours) \in 0..Whole
    BY <1>4, <2>2, ShareIsOK
  <2>. QED  BY <1>8, <2>1, <2>3
<1>14. DayOK(Summarize(p).availability)
  BY <1>8, DayIsOK DEF ProfileOK
<1>15. Summarize(p).coverage \in 0..Hours
  BY <1>4, <1>8
<1>. QED  BY <1>11, <1>12, <1>13, <1>14, <1>15 DEF SummaryOK

\* Sanitising leaves a share, and a metric of shares, as it is.
LEMMA ClipKeeps ==
  ASSUME NEW maximum \in Nat, NEW x \in 0..maximum
  PROVE  Clip(x, maximum) = x
BY DEF Clip, Larger, Smaller

LEMMA SanitizeKeepsMetric ==
  ASSUME NEW m, MetricOK(m)
  PROVE  Same(SanitizeMetric(m), m)
<1>1. Whole \in Nat
  BY HeadroomAssumption
<1>2. PICK a, p, l, h \in Nat : a = m.avg /\ p = m.peak /\ l = m.low /\ h = m.high
  BY <1>1 DEF MetricOK
<1>3. a <= p /\ p <= Whole /\ l <= h /\ h <= Whole
  BY <1>1, <1>2 DEF MetricOK
<1>4. Percent(a) = a /\ Percent(p) = p /\ Percent(l) = l /\ Percent(h) = h
  BY <1>1, <1>3, ClipKeeps DEF Percent
<1>5. SanitizeMetric(m) = [avg |-> a, peak |-> p, low |-> l, high |-> h]
  <2>1. Larger(a, p) = p /\ Smaller(l, h) = l /\ Larger(l, h) = h
    BY <1>3 DEF Larger, Smaller
  <2>. QED  BY <1>2, <1>4, <2>1 DEF SanitizeMetric
<1>. QED  BY <1>2, <1>5 DEF Same

\* What a row says of the machine it was made of.
Says(row, s) ==
  /\ row.coverage = s.coverage /\ Same(row.cpu, s.cpu) /\ row.ram = s.ram /\ row.ac = s.ac
  /\ row.availability.span > 0 <=> s.availability.span > 0
  /\ row.availability.observed = s.availability.observed
  /\ row.availability.unavailable = s.availability.unavailable

SaysGpu(row, s) == row.gpuSampled = s.gpuSampled /\ Same(row.gpu, s.gpu)

LEMMA CompactSays ==
  ASSUME NEW s, SummaryOK(s)
  PROVE  Says(Compact(s), s) /\ SaysGpu(Compact(s), s)
<1>1. Whole \in Nat /\ Hours \in Nat /\ Day \in Nat /\ MaxSpan \in Nat \ {0}
  BY HeadroomAssumption, MeasurementAssumption
<1>2. /\ Compact(s).coverage = s.coverage /\ Compact(s).ram = s.ram /\ Compact(s).ac = s.ac
      /\ Compact(s).gpuSampled = s.gpuSampled
  BY <1>1, ClipKeeps DEF Compact, SummaryOK, Percent
<1>3. Same(Compact(s).cpu, s.cpu) /\ Same(Compact(s).gpu, s.gpu)
  BY SanitizeKeepsMetric DEF Compact, SummaryOK
<1>4. PICK a : a = s.availability
  OBVIOUS
<1>5. PICK span, o, u \in Nat : span = a.span /\ o = a.observed /\ u = a.unavailable
  BY <1>4 DEF SummaryOK, DayOK
<1>6. o + u <= Day /\ (span = 0 => o = 0 /\ u = 0)
  BY <1>4, <1>5 DEF SummaryOK, DayOK
<1>7. PICK r : r = SanitizeAvailability(a)
  OBVIOUS
<1>8. (r.span > 0 <=> span > 0) /\ r.observed = o /\ r.unavailable = u
  <2>1. CASE span = 0
    BY <1>5, <1>6, <1>7, <2>1 DEF SanitizeAvailability
  <2>2. CASE span # 0
    <3>1. Clip(o, Day) = o /\ Clip(u, Day) = u /\ Clip(span, MaxSpan) > 0
      BY <1>1, <1>6, <2>2 DEF Clip, Larger, Smaller
    <3>2. ~ (o + u > Day) /\ ~ (a.span <= 0)
      BY <1>1, <1>5, <1>6, <2>2
    <3>3. r = [span |-> Clip(span, MaxSpan), observed |-> o, unavailable |-> u]
      BY <1>5, <1>7, <3>1, <3>2 DEF SanitizeAvailability
    <3>. QED  BY <2>2, <3>1, <3>3
  <2>. QED  BY <2>1, <2>2
<1>9. Compact(s).availability = r
  BY <1>4, <1>7 DEF Compact
<1>. QED  BY <1>2, <1>3, <1>4, <1>5, <1>8, <1>9 DEF Says, SaysGpu

-----------------------------------------------------------------------------
(* Where a row comes from. *)

\* What a machine uploads: its profile without the counts of GPU samples.
Stripped(p) ==
  [p EXCEPT !.buckets = [h \in DOMAIN @ |-> [@[h] EXCEPT !.gpuN = NoCount]]]

MachineOf(d, p) ==
  /\ p \in MachineRecord /\ p.gpuSupported = Supported(d)
  /\ \A h \in HoursOfWeek : Learned(p.buckets[h])

\* A row is what was made of the profile that it was made from.
Traced(d, row, from) ==
  row.kind # "none" =>
    IF d \in Legacy
    THEN \E list \in Lists :
           from = EarlierFile(SanitizeBuckets(list)) /\ Decode(row) = Compact(Summarize(from))
    ELSE MachineOf(d, from) /\ Decode(row) = Compact(Summarize(Stripped(from)))

SourceInv ==
  /\ DOMAIN source = Devices
  /\ \A d \in Devices : local[d].gpuSupported = Supported(d)
  /\ \A d \in Devices : Traced(d, stored[d], source[d])

\* An earlier observer's list makes a profile.
LEMMA EarlierIsOK ==
  ASSUME NEW list \in Lists
  PROVE  ProfileOK(EarlierFile(SanitizeBuckets(list)))
<1>1. /\ DOMAIN list \subseteq Nat /\ IsFiniteSet(DOMAIN list)
      /\ \A i \in DOMAIN list :
            /\ list[i] \in [index: Int, n: Int, cpu: Int, cpuMax: Int, gpu: Int, gpuMax: Int,
                            ram: Int, ac: Int]
            /\ list[i].cpu <= list[i].cpuMax /\ list[i].gpu <= list[i].gpuMax
  BY MeasurementAssumption
<1>2. Whole \in Nat
  BY HeadroomAssumption
<1>3. PICK good : good = {i \in DOMAIN list : list[i].n > 0 /\ list[i].index \in 0..(Hours - 1)}
  OBVIOUS
<1>4. PICK first : first = [h \in {list[i].index : i \in good} |-> list[Min({i \in good : list[i].index = h})]]
  OBVIOUS
<1>5. PICK hourly : hourly = SanitizeBuckets(list)
  OBVIOUS
<1>6. /\ DOMAIN hourly = {list[i].index : i \in good}
      /\ \A h \in DOMAIN hourly :
           hourly[h] = [Bucket0 EXCEPT !.n = first[h].n, !.gpuN = NoCount,
                          !.cpu = Percent(first[h].cpu), !.cpuMax = Percent(first[h].cpuMax),
                          !.gpu = Percent(first[h].gpu), !.gpuMax = Percent(first[h].gpuMax),
                          !.ram = Percent(first[h].ram), !.ac = Percent(first[h].ac)]
  BY <1>3, <1>4, <1>5 DEF SanitizeBuckets
<1>7. DOMAIN hourly \subseteq HoursOfWeek
  BY <1>3, <1>6 DEF HoursOfWeek
<1>8. ASSUME NEW h \in DOMAIN hourly PROVE BucketOK(hourly[h])
  <2>1. PICK same : same = {i \in good : list[i].index = h}
    OBVIOUS
  <2>2. same # {} /\ same \subseteq DOMAIN list /\ IsFiniteSet(same)
    BY <1>1, <1>3, <1>6, <2>1, FS_Subset
  <2>3. Min(same) \in DOMAIN list
    BY <1>1, <2>2, MinFacts
  <2>4. first[h] = list[Min(same)]
    BY <1>4, <1>6, <2>1
  <2>5. PICK b : b = first[h]
    OBVIOUS
  <2>6. /\ b.cpu \in Int /\ b.gpu \in Int /\ b.ram \in Int /\ b.ac \in Int
        /\ b.cpuMax \in Int /\ b.gpuMax \in Int /\ b.cpu <= b.cpuMax /\ b.gpu <= b.gpuMax
    BY <1>1, <2>3, <2>4, <2>5
  <2>7. /\ \A x \in Int : Percent(x) \in 0..Whole
        /\ \A x, y \in Int : x <= y => Percent(x) <= Percent(y)
    BY <1>2 DEF Percent, Clip, Larger, Smaller
  <2>8. PICK v : v = [Bucket0 EXCEPT !.n = b.n, !.gpuN = NoCount,
                          !.cpu = Percent(b.cpu), !.cpuMax = Percent(b.cpuMax),
                          !.gpu = Percent(b.gpu), !.gpuMax = Percent(b.gpuMax),
                          !.ram = Percent(b.ram), !.ac = Percent(b.ac)]
    OBVIOUS
  <2>9. hourly[h] = v
    BY <1>6, <2>5, <2>8
  <2>10. /\ hourly[h].cpu = Percent(b.cpu) /\ hourly[h].cpuMax = Percent(b.cpuMax)
        /\ hourly[h].gpu = Percent(b.gpu) /\ hourly[h].gpuMax = Percent(b.gpuMax)
        /\ hourly[h].ram = Percent(b.ram) /\ hourly[h].ac = Percent(b.ac)
    BY <2>8, <2>9 DEF Bucket0
  <2>11. PICK c, g, r, a \in 0..Whole :
          c = Percent(b.cpu) /\ g = Percent(b.gpu) /\ r = Percent(b.ram) /\ a = Percent(b.ac)
    BY <2>6, <2>7
  <2>12. PICK p, q \in 0..Whole : p = Percent(b.cpuMax) /\ q = Percent(b.gpuMax) /\ c <= p /\ g <= q
    BY <2>6, <2>7, <2>11
  <2>. QED  BY <1>2, <2>10, <2>11, <2>12 DEF BucketOK
<1>9. EarlierFile(hourly).buckets = hourly /\ EarlierFile(hourly).availability = NeverSampled
  BY DEF EarlierFile, Profile
<1>. QED  BY <1>5, <1>7, <1>8, <1>9 DEF ProfileOK, NeverSampled

\* A machine's profile is one, with and without the counts.
LEMMA StrippedIs ==
  ASSUME NEW p \in MachineRecord
  PROVE  /\ Stripped(p).gpuSupported = p.gpuSupported /\ Stripped(p).availability = p.availability
         /\ DOMAIN p.buckets = HoursOfWeek /\ DOMAIN Stripped(p).buckets = HoursOfWeek
         /\ \A h \in HoursOfWeek :
              Stripped(p).buckets[h] = [p.buckets[h] EXCEPT !.gpuN = NoCount]
BY DEF Stripped, MachineRecord

LEMMA StrippedBucket ==
  ASSUME NEW b \in BucketRecord, NEW c, c = [b EXCEPT !.gpuN = NoCount]
  PROVE  /\ c.n = b.n /\ c.cpu = b.cpu /\ c.cpuMax = b.cpuMax /\ c.gpu = b.gpu /\ c.gpuMax = b.gpuMax
         /\ c.ram = b.ram /\ c.ac = b.ac /\ c.gpuN = NoCount
BY DEF BucketRecord

LEMMA MachineIsOK ==
  ASSUME NEW d, NEW p, MachineOf(d, p)
  PROVE  ProfileOK(p) /\ ProfileOK(Stripped(p))
<1>1. Whole \in Nat /\ p \in MachineRecord
  BY HeadroomAssumption DEF MachineOf
<1>2. \A h \in HoursOfWeek : BucketOK(p.buckets[h])
  BY <1>1 DEF MachineOf, Learned, BucketOK
<1>3. p.availability.observed \in Nat /\ p.availability.unavailable \in Nat
  BY <1>1 DEF MachineRecord
<1>4. \A h \in HoursOfWeek : BucketOK(Stripped(p).buckets[h])
  <2>. SUFFICES ASSUME NEW h \in HoursOfWeek PROVE BucketOK(Stripped(p).buckets[h])
    OBVIOUS
  <2>1. p.buckets[h] \in BucketRecord
    BY <1>1 DEF MachineRecord
  <2>2. Stripped(p).buckets[h] = [p.buckets[h] EXCEPT !.gpuN = NoCount]
    BY <1>1, StrippedIs
  <2>. QED  BY <1>2, <2>1, <2>2, StrippedBucket DEF BucketOK
<1>. QED  BY <1>1, <1>2, <1>3, <1>4, StrippedIs DEF ProfileOK

\* Without the counts the summary is the same, but for the GPU of a machine whose sensor failed for
\* an hour.
LEMMA StrippedSays ==
  ASSUME NEW d, NEW p, MachineOf(d, p), NEW s, s = Summarize(p), NEW r, r = Summarize(Stripped(p))
  PROVE  /\ r.coverage = s.coverage /\ r.cpu = s.cpu /\ r.ram = s.ram /\ r.ac = s.ac
         /\ r.availability = s.availability
         /\ d \notin HasGpu \/ (\A h \in Populated(p.buckets) : p.buckets[h].gpuN > 0)
            => r.gpuSampled = s.gpuSampled /\ r.gpu = s.gpu
<1>1. p \in MachineRecord /\ p.gpuSupported = Supported(d)
  BY DEF MachineOf
<1>2. PICK q : q = Stripped(p)
  OBVIOUS
<1>3. PICK b, c : b = p.buckets /\ c = q.buckets
  OBVIOUS
<1>4. ASSUME NEW h \in HoursOfWeek
      PROVE  /\ c[h].n = b[h].n /\ c[h].cpu = b[h].cpu /\ c[h].cpuMax = b[h].cpuMax
             /\ c[h].gpu = b[h].gpu /\ c[h].gpuMax = b[h].gpuMax /\ c[h].ram = b[h].ram
             /\ c[h].ac = b[h].ac /\ c[h].gpuN = NoCount /\ b[h].gpuN \in Nat
  <2>1. b[h] \in BucketRecord
    BY <1>1, <1>3 DEF MachineRecord
  <2>2. c[h] = [b[h] EXCEPT !.gpuN = NoCount]
    BY <1>1, <1>2, <1>3, StrippedIs
  <2>3. b[h].gpuN \in Nat
    BY <2>1 DEF BucketRecord
  <2>. QED  BY <2>1, <2>2, <2>3, StrippedBucket
<1>5. DOMAIN b = HoursOfWeek /\ DOMAIN c = HoursOfWeek
      /\ q.gpuSupported = Supported(d) /\ q.availability = p.availability
  BY <1>1, <1>2, <1>3, StrippedIs
<1>6. PICK hours : hours = Populated(b)
  OBVIOUS
<1>7. Populated(c) = hours /\ hours \subseteq HoursOfWeek
  BY <1>4, <1>5, <1>6 DEF Populated
<1>8. s = SummaryOf(b, hours, GpuHours(p), p.availability)
  BY <1>3, <1>6, SummarizeIs
<1>9. r = SummaryOf(c, hours, GpuHours(q), p.availability)
  BY <1>2, <1>3, <1>5, <1>7, SummarizeIs
<1>10. /\ [h \in hours |-> c[h].cpu] = [h \in hours |-> b[h].cpu]
       /\ [h \in hours |-> c[h].cpuMax] = [h \in hours |-> b[h].cpuMax]
       /\ [h \in hours |-> Larger(0, Whole - c[h].cpu - Margin)]
            = [h \in hours |-> Larger(0, Whole - b[h].cpu - Margin)]
       /\ [h \in hours |-> c[h].ram] = [h \in hours |-> b[h].ram]
       /\ [h \in hours |-> c[h].ac] = [h \in hours |-> b[h].ac]
  BY <1>4, <1>7
<1>11. r.coverage = s.coverage /\ r.cpu = s.cpu /\ r.ram = s.ram /\ r.ac = s.ac
       /\ r.availability = s.availability
  <2>1. /\ r.coverage = Cardinality(hours) /\ s.coverage = Cardinality(hours)
        /\ r.availability = s.availability
    BY <1>8, <1>9 DEF SummaryOf
  <2>2. r.ram = s.ram /\ r.ac = s.ac
    <3>1. /\ r.ram = Mean([h \in hours |-> c[h].ram], hours)
          /\ r.ac = Mean([h \in hours |-> c[h].ac], hours)
      BY <1>9 DEF SummaryOf
    <3>2. /\ s.ram = Mean([h \in hours |-> b[h].ram], hours)
          /\ s.ac = Mean([h \in hours |-> b[h].ac], hours)
      BY <1>8 DEF SummaryOf
    <3>. QED  BY <1>10, <3>1, <3>2
  <2>3. r.cpu = s.cpu
    <3>1. r.cpu = IF hours = {} THEN EmptyMetric
                  ELSE Metric(Mean([h \in hours |-> c[h].cpu], hours),
                              Peak([h \in hours |-> c[h].cpuMax], hours),
                              Mean([h \in hours |-> Larger(0, Whole - c[h].cpu - Margin)], hours))
      BY <1>9 DEF SummaryOf
    <3>2. s.cpu = IF hours = {} THEN EmptyMetric
                  ELSE Metric(Mean([h \in hours |-> b[h].cpu], hours),
                              Peak([h \in hours |-> b[h].cpuMax], hours),
                              Mean([h \in hours |-> Larger(0, Whole - b[h].cpu - Margin)], hours))
      BY <1>8 DEF SummaryOf
    <3>. QED  BY <1>10, <3>1, <3>2
  <2>. QED  BY <2>1, <2>2, <2>3
<1>12. ASSUME GpuHours(q) = GpuHours(p) PROVE r.gpuSampled = s.gpuSampled /\ r.gpu = s.gpu
  <2>1. PICK G : G = GpuHours(p)
    OBVIOUS
  <2>2. G \subseteq HoursOfWeek
    BY <1>3, <1>6, <1>7, <2>1 DEF GpuHours
  <2>3. /\ [h \in G |-> c[h].gpu] = [h \in G |-> b[h].gpu]
        /\ [h \in G |-> c[h].gpuMax] = [h \in G |-> b[h].gpuMax]
        /\ [h \in G |-> Larger(0, Whole - c[h].gpu)] = [h \in G |-> Larger(0, Whole - b[h].gpu)]
    BY <1>4, <2>2
  <2>4. r.gpuSampled = (G # {}) /\ s.gpuSampled = (G # {})
    BY <1>8, <1>9, <1>12, <2>1 DEF SummaryOf
  <2>5. r.gpu = IF G = {} THEN EmptyMetric
                ELSE Metric(Mean([h \in G |-> c[h].gpu], G), Peak([h \in G |-> c[h].gpuMax], G),
                            Mean([h \in G |-> Larger(0, Whole - c[h].gpu)], G))
    BY <1>9, <1>12, <2>1 DEF SummaryOf
  <2>6. s.gpu = IF G = {} THEN EmptyMetric
                ELSE Metric(Mean([h \in G |-> b[h].gpu], G), Peak([h \in G |-> b[h].gpuMax], G),
                            Mean([h \in G |-> Larger(0, Whole - b[h].gpu)], G))
    BY <1>8, <2>1 DEF SummaryOf
  <2>. QED  BY <2>3, <2>4, <2>5, <2>6
<1>13. Supported(d) \in {"yes", "no"} /\ Unstated \notin {"yes", "no"} /\ NoCount \notin Nat
  BY DEF Supported, Unstated, NoCount
<1>14. GpuHours(q) = {h \in hours : Supported(d) = "yes"}
  <2>1. \A h \in hours : \A x : HasGpuSample(c[h], Supported(d), x) <=> Supported(d) = "yes"
    BY <1>4, <1>7, <1>13 DEF HasGpuSample
  <2>. QED  BY <1>3, <1>5, <1>7, <2>1 DEF GpuHours
<1>15. GpuHours(p) = {h \in hours : b[h].gpuN > 0 /\ Supported(d) # "no"}
  <2>1. \A h \in hours : \A x :
          HasGpuSample(b[h], Supported(d), x) <=> b[h].gpuN > 0 /\ Supported(d) # "no"
    BY <1>4, <1>7, <1>13 DEF HasGpuSample
  <2>. QED  BY <1>1, <1>3, <1>6, <2>1 DEF GpuHours
<1>16. d \notin HasGpu => GpuHours(q) = GpuHours(p)
  BY <1>14, <1>15 DEF Supported
<1>17. d \in HasGpu /\ (\A h \in hours : b[h].gpuN > 0) => GpuHours(q) = GpuHours(p)
  BY <1>14, <1>15 DEF Supported
<1>. QED  BY <1>3, <1>6, <1>11, <1>12, <1>16, <1>17

\* A row stored as it was made is read as it was made.
LEMMA ReadAsMade ==
  ASSUME NEW p, ProfileOK(p)
  PROVE  Decode(Compact(Summarize(p))) = Compact(Summarize(p))
<1>1. PICK s : s = Summarize(p)
  OBVIOUS
<1>2. SummaryOK(s)
  BY <1>1, SummaryIsOK
<1>3. s.availability.span \in Int /\ s.availability.observed \in Int /\ s.availability.unavailable \in Int
  BY <1>2 DEF SummaryOK, DayOK
<1>4. Compact(Compact(s)) = Compact(s)
  BY <1>3, CompactIsStable
<1>5. Compact(s).kind = "compact"
  BY DEF Compact
<1>. QED  BY <1>1, <1>4, <1>5 DEF Decode

\* An upload traces its row to the profile it was made from (report_profile, ingest_profile).
LEMMA UploadTraces ==
  ASSUME MeasurementInv, SourceInv, NEW d \in Devices,
         Upload(d) \/ \E list \in Lists : UploadList(d, list)
  PROVE  SourceInv'
<1>1. local' = local
  BY DEF Upload, UploadList, machines
<1>2. CASE UNCHANGED server
  BY <1>1, <1>2 DEF SourceInv, server
<1>3. ASSUME NEW row, NEW from, Store(d, row, from), Traced(d, row, from)
      PROVE  SourceInv'
  <2>1. stored' = [stored EXCEPT ![d] = row] /\ source' = [source EXCEPT ![d] = from]
    BY <1>3 DEF Store
  <2>2. DOMAIN stored = Devices /\ DOMAIN source = Devices
    BY DEF MeasurementInv, SourceInv
  <2>3. ASSUME NEW e \in Devices PROVE Traced(e, stored'[e], source'[e])
    <3>1. CASE e = d
      BY <1>3, <2>1, <2>2, <3>1
    <3>2. CASE e # d
      <4>1. stored'[e] = stored[e] /\ source'[e] = source[e]
        BY <2>1, <2>2, <3>2
      <4>. QED  BY <4>1 DEF SourceInv
    <3>. QED  BY <3>1, <3>2
  <2>4. DOMAIN source' = Devices
    BY <2>1, <2>2
  <2>. QED  BY <1>1, <2>3, <2>4 DEF SourceInv
<1>4. CASE Upload(d)
  <2>1. PICK m : m = local[d]
    OBVIOUS
  <2>2. Uploaded(d) = Stripped(m)
    BY <2>1 DEF Uploaded, Stripped
  <2>3. MachineOf(d, m)
    BY <2>1 DEF MeasurementInv, SourceInv, MachineInv, MachineOf
  <2>4. Decode(Compact(Summarize(Stripped(m)))) = Compact(Summarize(Stripped(m)))
    BY <2>3, MachineIsOK, ReadAsMade
  <2>5. d \notin Legacy /\ (UNCHANGED server \/ Store(d, Compact(Summarize(Stripped(m))), m))
    BY <1>4, <2>1, <2>2 DEF Upload
  <2>6. Traced(d, Compact(Summarize(Stripped(m))), m)
    BY <2>3, <2>4, <2>5 DEF Traced
  <2>. QED  BY <1>2, <1>3, <2>5, <2>6
<1>5. ASSUME NEW list \in Lists, UploadList(d, list) PROVE SourceInv'
  <2>1. PICK p : p = EarlierFile(SanitizeBuckets(list))
    OBVIOUS
  <2>2. Decode(Compact(Summarize(p))) = Compact(Summarize(p))
    BY <2>1, EarlierIsOK, ReadAsMade
  <2>3. d \in Legacy /\ (UNCHANGED server \/ Store(d, Compact(Summarize(p)), p))
    BY <1>5, <2>1 DEF UploadList, CompactFromBuckets
  <2>4. Traced(d, Compact(Summarize(p)), p)
    BY <2>1, <2>2, <2>3 DEF Traced
  <2>. QED  BY <1>2, <1>3, <2>3, <2>4
<1>. QED  BY <1>4, <1>5

\* A sample changes no row, and not whether a machine has a GPU.
LEMMA SampleTraces ==
  ASSUME MeasurementInv, SourceInv, NEW d \in Devices, NEW reading \in Readings,
         NEW pause \in Pauses, Sample(d, reading, pause)
  PROVE  SourceInv'
<1>1. stored' = stored /\ source' = source
  BY DEF Sample, server
<1>2. DOMAIN local = Devices /\ local[d] \in MachineRecord
  BY DEF MeasurementInv, MachineInv
<1>3. PICK hour, f, r : local' = [local EXCEPT ![d].buckets[hour] = f, ![d].availability = r]
  BY DEF Sample
<1>4. \A e \in Devices : local'[e].gpuSupported = local[e].gpuSupported
  BY <1>2, <1>3 DEF MachineRecord
<1>. QED  BY <1>1, <1>4 DEF SourceInv

\* SourceInv is inductive, given MeasurementInv.
LEMMA SourceInvInductive ==
  /\ Init => SourceInv
  /\ MeasurementInv /\ SourceInv /\ [Next]_vars => SourceInv'
<1>1. ASSUME Init PROVE SourceInv
  <2>1. \A d \in Devices : local[d].gpuSupported = Supported(d)
    BY <1>1 DEF Init, Profile
  <2>2. PICK rows \in [Legacy -> {<< >>} \cup {SanitizeBuckets(list) : list \in Lists}] :
          /\ stored = [d \in Devices |-> IF d \in Legacy /\ rows[d] # << >> THEN ListRow(rows[d])
                                         ELSE NoRow]
          /\ source = [d \in Devices |-> IF d \in Legacy /\ rows[d] # << >> THEN EarlierFile(rows[d])
                                         ELSE NoFile]
    BY <1>1 DEF Init
  <2>3. ASSUME NEW d \in Devices PROVE Traced(d, stored[d], source[d])
    <3>1. CASE d \in Legacy /\ rows[d] # << >>
      <4>1. PICK list \in Lists : rows[d] = SanitizeBuckets(list)
        BY <2>2, <3>1
      <4>2. stored[d] = ListRow(rows[d]) /\ source[d] = EarlierFile(rows[d])
        BY <2>2, <3>1
      <4>3. Decode(stored[d]) = Compact(Summarize(source[d]))
        BY <4>2 DEF Decode, ListRow, CompactFromBuckets
      <4>. QED  BY <3>1, <4>1, <4>2, <4>3 DEF Traced
    <3>2. CASE ~(d \in Legacy /\ rows[d] # << >>)
      <4>1. stored[d].kind = "none"
        BY <2>2, <3>2 DEF NoRow
      <4>. QED  BY <4>1 DEF Traced
    <3>. QED  BY <3>1, <3>2
  <2>4. DOMAIN source = Devices
    BY <2>2
  <2>. QED  BY <2>1, <2>3, <2>4 DEF SourceInv
<1>2. ASSUME MeasurementInv, SourceInv, [Next]_vars PROVE SourceInv'
  <2>1. CASE \E d \in Devices, reading \in Readings, pause \in Pauses : Sample(d, reading, pause)
    BY <1>2, <2>1, SampleTraces
  <2>2. ASSUME NEW d \in Devices, Upload(d) \/ \E list \in Lists : UploadList(d, list)
        PROVE  SourceInv'
    BY <1>2, <2>2, UploadTraces
  <2>3. CASE Read \/ Time \/ Restart \/ UNCHANGED vars
    BY <1>2, <2>3 DEF Read, Time, Restart, vars, SourceInv, machines, server
  <2>. QED  BY <1>2, <2>1, <2>2, <2>3 DEF Next
<1>. QED  BY <1>1, <1>2

\* What a row says is what the report would say of the profile it was made from; of the GPU, where
\* its sensor answered in every hour.
LEMMA RowsSay ==
  ASSUME SourceInv, NEW d \in Known
  PROVE  /\ SummaryOK(Summarize(source[d]))
         /\ Says(Decode(stored[d]), Summarize(source[d]))
         /\ GpuAlwaysRead => SaysGpu(Decode(stored[d]), Summarize(source[d]))
<1>1. d \in Devices /\ stored[d].kind # "none"
  BY DEF Known
<1>2. Traced(d, stored[d], source[d])
  BY <1>1 DEF SourceInv
<1>3. PICK p, s, row : p = source[d] /\ s = Summarize(p) /\ row = Decode(stored[d])
  OBVIOUS
<1>4. CASE d \in Legacy
  <2>1. ProfileOK(p) /\ row = Compact(s)
    BY <1>1, <1>2, <1>3, <1>4, EarlierIsOK DEF Traced
  <2>2. SummaryOK(s)
    BY <1>3, <2>1, SummaryIsOK
  <2>. QED  BY <1>3, <2>1, <2>2, CompactSays
<1>5. CASE d \notin Legacy
  <2>1. MachineOf(d, p) /\ row = Compact(Summarize(Stripped(p)))
    BY <1>1, <1>2, <1>3, <1>5 DEF Traced
  <2>2. PICK r : r = Summarize(Stripped(p))
    OBVIOUS
  <2>3. SummaryOK(s) /\ SummaryOK(r)
    BY <1>3, <2>1, <2>2, MachineIsOK, SummaryIsOK
  <2>4. Says(row, r) /\ SaysGpu(row, r)
    BY <2>1, <2>2, <2>3, CompactSays
  <2>5. /\ r.coverage = s.coverage /\ r.cpu = s.cpu /\ r.ram = s.ram /\ r.ac = s.ac
        /\ r.availability = s.availability
        /\ d \notin HasGpu \/ (\A h \in Populated(p.buckets) : p.buckets[h].gpuN > 0)
           => r.gpuSampled = s.gpuSampled /\ r.gpu = s.gpu
    BY <1>3, <2>1, <2>2, StrippedSays
  <2>6. Says(row, s)
    BY <2>4, <2>5 DEF Says
  <2>7. ASSUME GpuAlwaysRead PROVE SaysGpu(row, s)
    <3>1. d \notin HasGpu \/ (\A h \in Populated(p.buckets) : p.buckets[h].gpuN > 0)
      BY <1>3, <1>5, <2>7 DEF GpuAlwaysRead
    <3>. QED  BY <2>4, <2>5, <3>1 DEF SaysGpu
  <2>. QED  BY <1>3, <2>3, <2>6, <2>7
<1>. QED  BY <1>4, <1>5

-----------------------------------------------------------------------------
(* Dividing by the number of machines before or after taking a fifth. *)

LEMMA Cancels ==
  ASSUME NEW x \in Int, NEW y \in Int, NEW N \in Nat \ {0}, x * N < y * N
  PROVE  x < y
BY Z3

\* A fifth of a mean and the mean of fifths A, which leave at most four each.
LEMMA FifthsRound ==
  ASSUME NEW N \in Nat \ {0}, NEW F \in Nat, NEW A \in Nat, 5 * A <= F, F <= 5 * A + 4 * N
  PROVE  /\ (F \div N) \div 5 - A \div N \in 0..1
         /\ F = 5 * A => (F \div N) \div 5 = A \div N
<1>1. PICK q, a, k \in Nat : q = F \div N /\ a = A \div N /\ k = q \div 5
  <2>1. F \div N \in Nat /\ A \div N \in Nat
    BY DivisionBounds
  <2>2. (F \div N) \div 5 \in Nat
    BY <2>1
  <2>. QED  BY <2>1, <2>2
<1>2. q * N <= F /\ F < (q + 1) * N /\ a * N <= A /\ A < (a + 1) * N
  BY <1>1, DivisionBounds
<1>3. 5 * k <= q /\ q <= 5 * k + 4
  BY <1>1
<1>4. 5 * a < q + 1
  <2>1. (5 * a) * N < (q + 1) * N
    BY <1>2
  <2>. QED  BY <2>1, Cancels
<1>5. q < 5 * a + 9
  <2>1. q * N < (5 * a + 9) * N
    BY <1>2
  <2>. QED  BY <2>1, Cancels
<1>6. ASSUME F = 5 * A PROVE k < a + 1
  <2>1. (5 * k) * N <= q * N
    BY <1>3
  <2>2. k * N < (a + 1) * N
    BY <1>2, <1>6, <2>1
  <2>. QED  BY <2>2, Cancels
<1>7. k - a \in 0..1 /\ (F = 5 * A => k = a)
  BY <1>3, <1>4, <1>5, <1>6
<1>. QED  BY <1>1, <1>7

\* Two fifths of it.
LEMMA TwoFifthsRound ==
  ASSUME NEW N \in Nat \ {0}, NEW F \in Nat, NEW B \in Nat, 5 * B <= 2 * F, 2 * F <= 5 * B + 4 * N
  PROVE  /\ (2 * (F \div N)) \div 5 - B \div N \in -1..1
         /\ 2 * F = 5 * B /\ F % N = 0 => (2 * (F \div N)) \div 5 = B \div N
<1>1. PICK q, h, k \in Nat : q = F \div N /\ h = B \div N /\ k = (2 * q) \div 5
  <2>1. F \div N \in Nat /\ B \div N \in Nat
    BY DivisionBounds
  <2>2. (2 * (F \div N)) \div 5 \in Nat
    BY <2>1
  <2>. QED  BY <2>1, <2>2
<1>2. q * N <= F /\ F < (q + 1) * N /\ h * N <= B /\ B < (h + 1) * N
  BY <1>1, DivisionBounds
<1>3. 5 * k <= 2 * q /\ 2 * q <= 5 * k + 4
  BY <1>1
<1>4. 5 * h < 2 * q + 2
  <2>1. (5 * h) * N < (2 * q + 2) * N
    BY <1>2
  <2>. QED  BY <2>1, Cancels
<1>5. 2 * q < 5 * h + 9
  <2>1. (2 * q) * N < (5 * h + 9) * N
    BY <1>2
  <2>. QED  BY <2>1, Cancels
<1>6. ASSUME 2 * F = 5 * B, F % N = 0 PROVE 5 * h <= 2 * q /\ 2 * q < 5 * h + 5
  <2>1. F = q * N
    BY <1>1, <1>6
  <2>2. (5 * h) * N < (2 * q + 1) * N /\ (2 * q) * N < (5 * h + 5) * N
    BY <1>2, <1>6, <2>1
  <2>3. 5 * h < 2 * q + 1 /\ 2 * q < 5 * h + 5
    BY <2>2, Cancels
  <2>. QED  BY <2>3
<1>7. k - h \in -1..1 /\ (2 * F = 5 * B /\ F % N = 0 => k = h)
  BY <1>3, <1>4, <1>5, <1>6
<1>. QED  BY <1>1, <1>7

\* The sums of numbers and of their shares of c fifths.
LEMMA SharesSum ==
  ASSUME NEW S, IsFiniteSet(S), NEW f \in [S -> Nat], NEW c \in Nat,
         NEW g \in [S -> Nat], \A x \in S : g[x] = (c * f[x]) \div 5
  PROVE  /\ 5 * Total(g) <= c * Total(f)
         /\ c * Total(f) <= 5 * Total(g) + 4 * Cardinality(S)
         /\ (\A x \in S : f[x] % 5 = 0) => c * Total(f) = 5 * Total(g)
<1>1. f \in [S -> Int] /\ g \in [S -> Int] /\ \A x \in S : f[x] \in Nat /\ g[x] \in Nat
  OBVIOUS
<1>2. PICK low \in [S -> Int] : \A x \in S : low[x] = 5 * g[x]
  <2>1. [x \in S |-> 5 * g[x]] \in [S -> Int]
    BY <1>1
  <2>. QED  BY <2>1
<1>3. PICK all \in [S -> Int] : \A x \in S : all[x] = c * f[x]
  <2>1. [x \in S |-> c * f[x]] \in [S -> Int]
    BY <1>1
  <2>. QED  BY <2>1
<1>4. PICK four : four = [x \in S |-> 4]
  OBVIOUS
<1>5. four \in [S -> Int] /\ \A x \in S : four[x] = 4
  BY <1>4
<1>6. PICK most \in [S -> Int] : \A x \in S : most[x] = 5 * g[x] + four[x]
  <2>1. [x \in S |-> 5 * g[x] + four[x]] \in [S -> Int]
    BY <1>1, <1>5
  <2>. QED  BY <2>1
<1>7. Total(low) = 5 * Total(g)
  BY <1>1, <1>2, SumScales
<1>8. Total(all) = c * Total(f)
  BY <1>1, <1>3, SumScales
<1>9. Total(four) = 4 * Cardinality(S)
  BY <1>4, SumOfSame
<1>10. Total(most) = 5 * Total(g) + Total(four)
  <2>1. Mixed(most, 5, g, four, S)
    BY <1>6 DEF Mixed
  <2>. QED  BY <1>1, <1>5, <2>1, SumMixes
<1>11. ASSUME NEW x \in S
       PROVE  low[x] <= all[x] /\ all[x] <= most[x] /\ (f[x] % 5 = 0 => low[x] = all[x])
  <2>1. PICK a, b \in Nat : a = f[x] /\ b = g[x]
    BY <1>1
  <2>2. PICK e \in Nat : e = c * a
    OBVIOUS
  <2>3. b = e \div 5
    BY <2>1, <2>2
  <2>4. 5 * b <= e /\ e <= 5 * b + 4
    BY <2>2, <2>3
  <2>5. ASSUME a % 5 = 0 PROVE e = 5 * b
    <3>1. PICK i \in Nat : a = 5 * i
      BY <2>5
    <3>2. e = 5 * (c * i) /\ c * i \in Nat
      BY <2>2, <3>1
    <3>. QED  BY <2>3, <3>2
  <2>. QED  BY <1>2, <1>3, <1>5, <1>6, <2>1, <2>2, <2>4, <2>5
<1>12. Total(low) <= Total(all) /\ Total(all) <= Total(most)
  BY <1>11, SumOrders
<1>13. ASSUME \A x \in S : f[x] % 5 = 0 PROVE Total(all) = Total(low)
  <2>1. low = all
    BY <1>11, <1>13
  <2>. QED  BY <2>1
<1>. QED  BY <1>7, <1>8, <1>9, <1>10, <1>12, <1>13

\* Without remainders nothing is rounded.
Exact(f, S) ==
  /\ \A x \in S : f[x] % 5 = 0
  /\ SumFunctionOnSet(f, S) % Cardinality(S) = 0

LEMMA MeansOfShares ==
  ASSUME NEW S, IsFiniteSet(S), S # {}, NEW f \in [S -> Nat],
         NEW low \in [S -> Nat], \A x \in S : low[x] = f[x] \div 5,
         NEW high \in [S -> Nat], \A x \in S : high[x] = (2 * f[x]) \div 5
  PROVE  /\ Mean(f, S) \div 5 - Mean(low, S) \in 0..1
         /\ (2 * Mean(f, S)) \div 5 - Mean(high, S) \in -1..1
         /\ Exact(f, S) => /\ Mean(f, S) \div 5 = Mean(low, S)
                           /\ (2 * Mean(f, S)) \div 5 = Mean(high, S)
<1>1. PICK N \in Nat \ {0} : N = Cardinality(S)
  BY FS_CardinalityType, FS_EmptySet
<1>2. f \in [S -> Int] /\ low \in [S -> Int] /\ high \in [S -> Int]
      /\ \A x \in S : f[x] >= 0 /\ low[x] >= 0 /\ high[x] >= 0
  OBVIOUS
<1>3. Total(f) \in Int /\ Total(low) \in Int /\ Total(high) \in Int
  BY <1>2, SumType
<1>4. /\ 5 * Total(low) <= 1 * Total(f) /\ 1 * Total(f) <= 5 * Total(low) + 4 * N
      /\ (\A x \in S : f[x] % 5 = 0) => 1 * Total(f) = 5 * Total(low)
  <2>1. \A x \in S : low[x] = (1 * f[x]) \div 5
    BY <1>2
  <2>. QED  BY <1>1, <2>1, SharesSum
<1>5. /\ 5 * Total(high) <= 2 * Total(f) /\ 2 * Total(f) <= 5 * Total(high) + 4 * N
      /\ (\A x \in S : f[x] % 5 = 0) => 2 * Total(f) = 5 * Total(high)
  BY <1>1, SharesSum
<1>6. Total(f) >= 0 /\ Total(low) >= 0 /\ Total(high) >= 0
  <2>1. PICK none : none = [x \in S |-> 0]
    OBVIOUS
  <2>2. none \in [S -> Int] /\ \A x \in S : none[x] = 0
    BY <2>1
  <2>3. Total(none) = 0 * N
    BY <1>1, <2>1, SumOfSame
  <2>4. Total(none) <= Total(f) /\ Total(none) <= Total(low) /\ Total(none) <= Total(high)
    BY <1>2, <2>2, SumOrders
  <2>. QED  BY <1>3, <2>3, <2>4
<1>7. PICK F, A, B \in Nat : F = Total(f) /\ A = Total(low) /\ B = Total(high)
  BY <1>3, <1>6
<1>8. Mean(f, S) = F \div N /\ Mean(low, S) = A \div N /\ Mean(high, S) = B \div N
      /\ SumFunctionOnSet(f, S) = F
  <2>1. DOMAIN f = S /\ DOMAIN low = S /\ DOMAIN high = S
    OBVIOUS
  <2>. QED  BY <1>1, <1>7, <2>1, SumIsTotal DEF Mean
<1>9. 5 * A <= F /\ F <= 5 * A + 4 * N /\ 5 * B <= 2 * F /\ 2 * F <= 5 * B + 4 * N
  BY <1>4, <1>5, <1>7
<1>10. Exact(f, S) => F = 5 * A /\ 2 * F = 5 * B /\ F % N = 0
  BY <1>1, <1>4, <1>5, <1>7, <1>8 DEF Exact
<1>11. (F \div N) \div 5 - A \div N \in 0..1 /\ (F = 5 * A => (F \div N) \div 5 = A \div N)
  BY <1>9, FifthsRound
<1>12. /\ (2 * (F \div N)) \div 5 - B \div N \in -1..1
       /\ 2 * F = 5 * B /\ F % N = 0 => (2 * (F \div N)) \div 5 = B \div N
  BY <1>9, TwoFifthsRound
<1>. QED  BY <1>8, <1>10, <1>11, <1>12

-----------------------------------------------------------------------------
(* The dashboard's estimate is the report's. *)

\* Both, for one metric of the machines of S: from the rows, and from the summaries.
FromRows(rows, name, S) ==
  [avg |-> Mean([d \in S |-> rows[d][name].avg], S),
   peak |-> IF S = {} THEN 0 ELSE Peak([d \in S |-> rows[d][name].peak], S),
   low |-> Mean([d \in S |-> rows[d][name].low], S),
   high |-> Mean([d \in S |-> rows[d][name].high], S)]

FromSummaries(s, name, S) ==
  IF S = {} THEN EmptyMetric
  ELSE Metric(Mean([d \in S |-> s[d][name].avg], S), Peak([d \in S |-> s[d][name].peak], S),
              Mean([d \in S |-> s[d][name].spare], S))

\* They differ by no more than the rounding.
Near(m, e) ==
  /\ m.avg = e.avg /\ m.peak = e.peak
  /\ e.low - m.low \in 0..1 /\ e.high - m.high \in -1..1

Spare(s, name, S) == [d \in S |-> s[d][name].spare]

LEMMA MetricsAgree ==
  ASSUME NEW S, IsFiniteSet(S), NEW rows, NEW s, NEW name,
         \A d \in S : MetricOK(s[d][name]) /\ Same(rows[d][name], s[d][name])
  PROVE  /\ Near(FromRows(rows, name, S), FromSummaries(s, name, S))
         /\ S = {} \/ Exact(Spare(s, name, S), S)
            => Same(FromRows(rows, name, S), FromSummaries(s, name, S))
<1>1. PICK m, e : m = FromRows(rows, name, S) /\ e = FromSummaries(s, name, S)
  OBVIOUS
<1>2. CASE S = {}
  <2>1. m.avg = 0 /\ m.peak = 0 /\ m.low = 0 /\ m.high = 0
    BY <1>1, <1>2 DEF FromRows, Mean
  <2>2. e.avg = 0 /\ e.peak = 0 /\ e.low = 0 /\ e.high = 0
    BY <1>1, <1>2 DEF FromSummaries, EmptyMetric
  <2>. QED  BY <1>1, <2>1, <2>2 DEF Near, Same
<1>3. CASE S # {}
  <2>1. PICK avg, top, f, low, high :
          /\ avg = [d \in S |-> s[d][name].avg] /\ top = [d \in S |-> s[d][name].peak]
          /\ f = Spare(s, name, S)
          /\ low = [d \in S |-> s[d][name].low] /\ high = [d \in S |-> s[d][name].high]
    OBVIOUS
  <2>2. /\ [d \in S |-> rows[d][name].avg] = avg /\ [d \in S |-> rows[d][name].peak] = top
        /\ [d \in S |-> rows[d][name].low] = low /\ [d \in S |-> rows[d][name].high] = high
    BY <2>1 DEF Same
  <2>3. /\ m.avg = Mean(avg, S) /\ m.peak = Peak(top, S)
        /\ m.low = Mean(low, S) /\ m.high = Mean(high, S)
    BY <1>1, <1>3, <2>2 DEF FromRows
  <2>4. e = Metric(Mean(avg, S), Peak(top, S), Mean(f, S))
    BY <1>1, <1>3, <2>1 DEF FromSummaries, Spare
  <2>5. /\ e.avg = Mean(avg, S) /\ e.peak = Peak(top, S)
        /\ e.low = Mean(f, S) \div 5 /\ e.high = (2 * Mean(f, S)) \div 5
    BY <2>4 DEF Metric
  <2>6. Whole \in Nat
    BY HeadroomAssumption
  <2>7. ASSUME NEW d \in S
        PROVE  /\ f[d] \in Nat /\ low[d] \in Nat /\ high[d] \in Nat
               /\ low[d] = f[d] \div 5 /\ high[d] = (2 * f[d]) \div 5
    BY <2>1, <2>6 DEF MetricOK, Spare
  <2>8. f \in [S -> Nat] /\ low \in [S -> Nat] /\ high \in [S -> Nat]
    BY <2>1, <2>7 DEF Spare
  <2>9. /\ Mean(f, S) \div 5 - Mean(low, S) \in 0..1
        /\ (2 * Mean(f, S)) \div 5 - Mean(high, S) \in -1..1
        /\ Exact(f, S) => /\ Mean(f, S) \div 5 = Mean(low, S)
                          /\ (2 * Mean(f, S)) \div 5 = Mean(high, S)
    BY <1>3, <2>7, <2>8, MeansOfShares
  <2>10. Near(m, e)
    BY <2>3, <2>5, <2>9 DEF Near
  <2>11. Exact(f, S) => Same(m, e)
    BY <2>3, <2>5, <2>9 DEF Same
  <2>. QED  BY <1>1, <1>3, <2>1, <2>10, <2>11
<1>. QED  BY <1>2, <1>3

\* What the report is made of, and the machines that it counts.
Sums == [d \in Known |-> Summarize(source[d])]
Counting == {d \in Known : Sums[d].coverage > 0}
CountingGpus == {d \in Counting : Sums[d].gpuSampled}

LEMMA ReportIs ==
  LET timed == {d \in Counting : Sums[d].availability.span > 0} IN
  /\ Report.devices = Cardinality(Counting) /\ Report.gpus = Cardinality(CountingGpus)
  /\ Report.coverage = SumFunction([d \in Known |-> Sums[d].coverage])
  /\ Report.cpu = FromSummaries(Sums, "cpu", Counting)
  /\ Report.gpu = FromSummaries(Sums, "gpu", CountingGpus)
  /\ Report.ram = Mean([d \in Counting |-> Sums[d].ram], Counting)
  /\ Report.ac = Mean([d \in Counting |-> Sums[d].ac], Counting)
  /\ \A f \in {"span", "observed", "unavailable"} :
       Report.availability[f] = Mean([d \in timed |-> Sums[d].availability[f]], timed)
<1>1. PICK s : s = Sums
  OBVIOUS
<1>2. DOMAIN s = Known /\ Report = Aggregate(s)
  BY <1>1 DEF Sums, Report
<1>3. Counting = {d \in DOMAIN s : s[d].coverage > 0}
      /\ CountingGpus = {d \in Counting : s[d].gpuSampled}
  BY <1>1, <1>2 DEF Counting, CountingGpus
<1>. QED  BY <1>1, <1>2, <1>3 DEF Aggregate, FromSummaries

\* The dashboard's.
Rows == [d \in Known |-> Decode(stored[d])]
RowGpus == {d \in Contributing(Rows) : Rows[d].gpuSampled}

LEMMA MeasuredIs ==
  LET devices == Contributing(Rows)  timed == TimedRows(Rows) IN
  /\ Measured.devices = Cardinality(devices) /\ Measured.gpus = Cardinality(RowGpus)
  /\ Measured.coverage = SumFunction([d \in Known |-> Rows[d].coverage])
  /\ Measured.cpu = FromRows(Rows, "cpu", devices)
  /\ Measured.gpu = FromRows(Rows, "gpu", RowGpus)
  /\ Measured.ram = Mean([d \in devices |-> Rows[d].ram], devices)
  /\ Measured.ac = Mean([d \in devices |-> Rows[d].ac], devices)
  /\ \A f \in {"span", "observed", "unavailable"} :
       Measured.availability[f] = Mean([d \in timed |-> Rows[d].availability[f]], timed)
<1>1. PICK r : r = Rows
  OBVIOUS
<1>2. r = [d \in Known |-> Decode(stored[d])]
  BY <1>1 DEF Rows
<1>3. PICK devices, gpus, timed :
        devices = Contributing(r) /\ gpus = {d \in devices : r[d].gpuSampled} /\ timed = TimedRows(r)
  OBVIOUS
<1>4. /\ Measured.devices = Cardinality(devices) /\ Measured.gpus = Cardinality(gpus)
      /\ Measured.coverage = SumFunction([d \in Known |-> r[d].coverage])
      /\ Measured.ram = Mean([d \in devices |-> r[d].ram], devices)
      /\ Measured.ac = Mean([d \in devices |-> r[d].ac], devices)
  BY <1>2, <1>3 DEF Measured
<1>5. Measured.cpu = FromRows(r, "cpu", devices)
  BY <1>2, <1>3 DEF Measured, FromRows
<1>6. Measured.gpu = FromRows(r, "gpu", gpus)
  BY <1>2, <1>3 DEF Measured, FromRows
<1>7. \A f \in {"span", "observed", "unavailable"} :
        Measured.availability[f] = Mean([d \in timed |-> r[d].availability[f]], timed)
  BY <1>2, <1>3 DEF Measured
<1>. QED  BY <1>1, <1>3, <1>4, <1>5, <1>6, <1>7 DEF RowGpus
\* The rows and the summaries say the same.
LEMMA RowsAgree ==
  ASSUME SourceInv
  PROVE  /\ \A d \in Known : SummaryOK(Sums[d]) /\ Says(Rows[d], Sums[d])
         /\ GpuAlwaysRead => \A d \in Known : SaysGpu(Rows[d], Sums[d])
<1>1. \A d \in Known : Sums[d] = Summarize(source[d]) /\ Rows[d] = Decode(stored[d])
  BY DEF Sums, Rows
<1>. QED  BY <1>1, RowsSay

\* The two count the same machines and hours, and their means and peaks are the same; a fifth and
\* two fifths of what is spare may be rounded once or once per machine.
NearlyTheReport ==
  LET m == Measured  r == Report IN
  /\ \A f \in {"devices", "coverage", "ram", "ac"} : m[f] = r[f]
  /\ Near(m.cpu, r.cpu)
  /\ \A f \in {"observed", "unavailable"} : m.availability[f] = r.availability[f]
  /\ GpuAlwaysRead => m.gpus = r.gpus /\ Near(m.gpu, r.gpu)

\* Nothing spare is rounded.
NoRemainder ==
  /\ Counting = {} \/ Exact(Spare(Sums, "cpu", Counting), Counting)
  /\ CountingGpus = {} \/ Exact(Spare(Sums, "gpu", CountingGpus), CountingGpus)

LEMMA ReadersCompared ==
  ASSUME SourceInv, IsFiniteSet(Devices)
  PROVE  NearlyTheReport /\ (NoRemainder => RollupIsReport)
<1>1. \A d \in Known : SummaryOK(Sums[d]) /\ Says(Rows[d], Sums[d])
  BY RowsAgree
<1>2. IsFiniteSet(Counting) /\ IsFiniteSet(CountingGpus)
  <2>1. Counting \subseteq Devices /\ CountingGpus \subseteq Devices
    BY DEF Counting, CountingGpus, Known
  <2>. QED  BY <2>1, FS_Subset
<1>3. PICK r, s, m, e : r = Rows /\ s = Sums /\ m = Measured /\ e = Report
  OBVIOUS
<1>4. Contributing(r) = Counting
  BY <1>1, <1>3 DEF Contributing, Counting, Rows, Says
<1>5. PICK timed : timed = {d \in Counting : s[d].availability.span > 0}
  OBVIOUS
<1>6. TimedRows(r) = timed
  BY <1>1, <1>3, <1>4, <1>5 DEF TimedRows, Says, Counting
<1>7. \A d \in Counting : d \in Known
  BY DEF Counting
<1>8. /\ m.devices = e.devices /\ m.coverage = e.coverage
      /\ m.ram = e.ram /\ m.ac = e.ac
  <2>1. /\ [d \in Known |-> r[d].coverage] = [d \in Known |-> s[d].coverage]
        /\ [d \in Counting |-> r[d].ram] = [d \in Counting |-> s[d].ram]
        /\ [d \in Counting |-> r[d].ac] = [d \in Counting |-> s[d].ac]
    BY <1>1, <1>3, <1>7 DEF Says
  <2>2. /\ m.devices = Cardinality(Counting)
        /\ m.coverage = SumFunction([d \in Known |-> r[d].coverage])
        /\ m.ram = Mean([d \in Counting |-> r[d].ram], Counting)
        /\ m.ac = Mean([d \in Counting |-> r[d].ac], Counting)
    BY <1>3, <1>4, MeasuredIs
  <2>3. /\ e.devices = Cardinality(Counting)
        /\ e.coverage = SumFunction([d \in Known |-> s[d].coverage])
        /\ e.ram = Mean([d \in Counting |-> s[d].ram], Counting)
        /\ e.ac = Mean([d \in Counting |-> s[d].ac], Counting)
    BY <1>3, ReportIs
  <2>. QED  BY <2>1, <2>2, <2>3
<1>9. ASSUME NEW f \in {"observed", "unavailable"} PROVE m.availability[f] = e.availability[f]
  <2>1. \A d \in timed : r[d].availability[f] = s[d].availability[f]
    BY <1>1, <1>3, <1>5, <1>7 DEF Says
  <2>2. [d \in timed |-> r[d].availability[f]] = [d \in timed |-> s[d].availability[f]]
    BY <2>1
  <2>3. m.availability[f] = Mean([d \in timed |-> r[d].availability[f]], timed)
    BY <1>3, <1>6, MeasuredIs
  <2>4. e.availability[f] = Mean([d \in timed |-> s[d].availability[f]], timed)
    BY <1>3, <1>5, ReportIs
  <2>. QED  BY <2>2, <2>3, <2>4
<1>10. /\ Near(m.cpu, e.cpu)
       /\ Counting = {} \/ Exact(Spare(s, "cpu", Counting), Counting) => Same(m.cpu, e.cpu)
  <2>1. \A d \in Counting : MetricOK(s[d]["cpu"]) /\ Same(r[d]["cpu"], s[d]["cpu"])
    BY <1>1, <1>3, <1>7 DEF Says, SummaryOK
  <2>2. m.cpu = FromRows(r, "cpu", Counting) /\ e.cpu = FromSummaries(s, "cpu", Counting)
    BY <1>3, <1>4, MeasuredIs, ReportIs
  <2>. QED  BY <1>2, <2>1, <2>2, MetricsAgree
<1>11. ASSUME GpuAlwaysRead
       PROVE  /\ m.gpus = e.gpus /\ Near(m.gpu, e.gpu)
              /\ CountingGpus = {} \/ Exact(Spare(s, "gpu", CountingGpus), CountingGpus)
                 => Same(m.gpu, e.gpu)
  <2>1. \A d \in Known : SaysGpu(r[d], s[d])
    BY <1>3, <1>11, RowsAgree
  <2>2. RowGpus = CountingGpus
    BY <1>3, <1>4, <1>7, <2>1 DEF RowGpus, CountingGpus, SaysGpu
  <2>3. \A d \in CountingGpus : MetricOK(s[d]["gpu"]) /\ Same(r[d]["gpu"], s[d]["gpu"])
    BY <1>1, <1>3, <1>7, <2>1 DEF SaysGpu, SummaryOK, CountingGpus
  <2>4. /\ m.gpus = Cardinality(CountingGpus) /\ e.gpus = Cardinality(CountingGpus)
        /\ m.gpu = FromRows(r, "gpu", CountingGpus)
        /\ e.gpu = FromSummaries(s, "gpu", CountingGpus)
    BY <1>3, <2>2, MeasuredIs, ReportIs
  <2>. QED  BY <1>2, <2>3, <2>4, MetricsAgree
<1>12. NearlyTheReport
  BY <1>3, <1>8, <1>9, <1>10, <1>11 DEF NearlyTheReport
<1>13. ASSUME NoRemainder PROVE RollupIsReport
  <2>1. Same(m.cpu, e.cpu) /\ (GpuAlwaysRead => m.gpus = e.gpus /\ Same(m.gpu, e.gpu))
    BY <1>3, <1>10, <1>11, <1>13 DEF NoRemainder
  <2>2. GpuAlwaysRead => GpuRollupIsReport
    BY <1>3, <2>1 DEF GpuRollupIsReport
  <2>. QED  BY <1>3, <1>8, <1>9, <2>1, <2>2 DEF RollupIsReport
<1>. QED  BY <1>12, <1>13

-----------------------------------------------------------------------------
(* The theorems. *)

\* What a machine has learned are shares, no mean above its peak; the counts keep their bounds; and
\* a machine of today that has uploaded has a compact row of at least one hour (UsageProfiler.record,
\* ingest_profile).
THEOREM MeasurementTyped == Spec => []MeasurementTypeOK
<1>1. MeasurementInv => MeasurementTypeOK
  <2>. SUFFICES ASSUME MeasurementInv PROVE MeasurementTypeOK
    OBVIOUS
  <2>1. \A d \in Devices : RowInv(d, stored[d])
    BY DEF MeasurementInv
  <2>2. \A d \in Devices, h \in HoursOfWeek : Learned(local[d].buckets[h])
    BY DEF MeasurementInv, MachineInv
  <2>3. CountsInv
    BY DEF MeasurementInv
  <2>4. \A d \in Known : stored[d].kind \in {"list", "compact"}
    BY <2>1 DEF Known, RowInv
  <2>5. \A d \in Known \ Legacy : stored[d].kind = "compact" /\ stored[d].coverage \in 1..Hours
    BY <2>1 DEF Known, RowInv
  <2>. QED  BY <2>2, <2>3, <2>4, <2>5 DEF MeasurementTypeOK, CountsInv, Learned, HoursOfWeek
<1>. QED  BY <1>1, MeasurementInvInductive, PTL DEF Spec

\* A compact row is read as it was stored, by every GET and after every restart: sanitising it again
\* changes nothing (_decode_stored_profile).
THEOREM RowsAreStable == Spec => []StoredIsStable
<1>1. MeasurementInv => StoredIsStable
  BY DEF MeasurementInv, RowInv, StoredIsStable, Known, Decode
<1>. QED  BY <1>1, MeasurementInvInductive, PTL DEF Spec

\* However long a machine sleeps and however its clock is set back, its record never claims more time
\* than has passed since its first sample, nor a longer absence than what lay beyond the cadence
\* (AvailabilityTracker.record).
THEOREM RecordsAreHonest == Spec => []AvailabilityIsHonest
<1>1. MeasurementInv => AvailabilityIsHonest
  BY DEF MeasurementInv, MachineInv, AvailabilityIsHonest
<1>. QED  BY <1>1, MeasurementInvInductive, PTL DEF Spec

\* The uploads and the reads of the measurements ask the limiter as any client does, one check each.
THEOREM MeasuringIsLimited == Spec => LimiterSpec
<1>1. Init => LimiterInit
  BY DEF Init
<1>2. [Next]_vars => [LimiterNext]_limiterVars
  <2>. SUFFICES ASSUME [Next]_vars PROVE [LimiterNext]_limiterVars
    OBVIOUS
  <2>1. \A d \in Devices : d \in Keys
    BY MeasurementAssumption
  <2>2. Operator \in Keys
    BY MeasurementAssumption
  <2>3. ASSUME NEW d \in Devices, Upload(d) \/ \E list \in Lists : UploadList(d, list)
        PROVE  LimiterNext
    BY <2>1, <2>3 DEF Upload, UploadList, LimiterNext, Check
  <2>4. CASE \E d \in Devices, reading \in Readings, pause \in Pauses : Sample(d, reading, pause)
    BY <2>4 DEF Sample
  <2>5. CASE Read \/ Time \/ Restart
    BY <2>2, <2>5 DEF Read, Time, Restart, LimiterNext
  <2>6. CASE UNCHANGED vars
    BY <2>6 DEF vars
  <2>. QED  BY <2>3, <2>4, <2>5, <2>6 DEF Next
<1>. QED  BY <1>1, <1>2, PTL DEF Spec, LimiterSpec

\* So a machine's uploads come no faster than twice the limit, and one that is refused is let in when
\* it comes back as told (RateLimiter.check behind POST /profile and GET /measurement).
THEOREM MeasuringKeepsTheLimit ==
  Spec => []LimiterTypeOK /\ []AtMostTwice /\ []RetryAfterIsExact
BY MeasuringIsLimited, LimiterTypeCorrect, TwiceTheLimitAtMost, WaitingIsExact

\* headroom.py:3-5, whatever is rounded: the dashboard and the report count the same machines and
\* hours, and say the same means, peaks and hours a day; their estimates of what is recoverable are
\* at most one unit apart, of the GPUs where their sensors answered (_aggregate_compact_profiles and
\* aggregate).
THEOREM ReadersAgreeNearly == Spec => []NearlyTheReport
<1>1. SourceInv => NearlyTheReport
  BY ReadersCompared, MeasurementAssumption
<1>. QED  BY <1>1, MeasurementInvInductive, SourceInvInductive, PTL DEF Spec

\* Where a fifth of what is spare, and its mean, are whole, they say the same of the same profiles.
THEOREM ReadersAgree == Spec => [](NoRemainder => RollupIsReport)
<1>1. SourceInv => (NoRemainder => RollupIsReport)
  BY ReadersCompared, MeasurementAssumption
<1>. QED  BY <1>1, MeasurementInvInductive, SourceInvInductive, PTL DEF Spec
=============================================================================
