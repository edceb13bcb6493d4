---------------------------- MODULE WorkloadProofs ----------------------------
(***************************************************************************)
(* Proofs about a workload between its launch and its summary, for any     *)
(* requests, fleets and workers, any number of leases and crashes, and any *)
(* hand on the log: the log and the jobs table tell one story although     *)
(* every handler logs after its commit, and the log of a workload is a log *)
(* in the sense of module AuditLog.  And the jobs of a launch, whatever    *)
(* the fleet is when it is read, are what was asked for.                   *)
(***************************************************************************)
EXTENDS Workload, AuditProofs, PartitionProofs

-----------------------------------------------------------------------------
(* The invariant, in parts that name what they speak of. *)

EventTypes == {"submitted", "assigned", "completed", "yielded", "failed"}
Finishing == {"completed", "yielded", "failed"}
Loggers == Workers \cup {Nobody}

\* The launch's variables.
LaunchInv ==
  /\ request \in Requests
  /\ phase \in {"called", "counted", "submitting", "submitted", "lost"}
  /\ n \in 0..MaxTiles /\ Len(weights) \in {0, n}
  /\ phase = "called" => weights = NoWeights

\* A row of the jobs table; a completed one holds the output of a whole run, or of a pool's.
JobShape(job) ==
  /\ DOMAIN job = {"spec", "state", "worker", "result"}
  /\ job.state \in {"queued", "leased", "completed"}
  /\ job.worker \in Workers \cup {Nobody}
  /\ job.state = "queued" <=> job.worker = Nobody
  /\ job.state = "completed" <=> job.result # NoResult
  /\ job.state = "completed" => job.result.whole \/ UsesPool(job.spec.kind, job.spec.tile)

IsList(t) == \E S : t \in Seq(S)
TableInv(t) == IsList(t) /\ \A j \in DOMAIN t : JobShape(t[j])

HeldInv(r, t) == r \in [Workers -> [stage : Stages, job : {Free} \cup DOMAIN t]]

\* Log l has an event before place i.
Earlier(l, i, e) == \E k \in DOMAIN l : k < i /\ l[k].event = e
In(l, e) == \E k \in DOMAIN l : l[k].event = e

\* The story of log l, unless it was damaged, beside table t: what is run was logged as assigned,
\* what finished was assigned before, a completion is one of a job completed by that worker, and
\* there is no other of it; without a crash every completion is there.
Run(l, r) == \A w \in Workers : r[w].stage = "running" => In(l, Event("assigned", w, r[w].job))
Assigned(l) ==
  \A i \in DOMAIN l : l[i].event.type \in Finishing =>
    Earlier(l, i, Event("assigned", l[i].event.worker, l[i].event.job))
Told(l, t) ==
  \A i \in DOMAIN l : l[i].event.type = "completed" =>
    /\ l[i].event.job \in DOMAIN t
    /\ t[l[i].event.job].state = "completed" /\ t[l[i].event.job].worker = l[i].event.worker
    /\ \A k \in DOMAIN l : l[k].event = l[i].event => k = i
AllTold(l, t) ==
  \A j \in DOMAIN t : t[j].state = "completed" => In(l, Event("completed", t[j].worker, j))

Story(l, d, t, r, c) ==
  d = 0 => /\ Run(l, r)
           /\ Assigned(l)
           /\ Told(l, t)
           /\ c = 0 => AllTold(l, t)

\* What the handlers keep, and what the log keeps by itself.
Kept ==
  /\ LaunchInv
  /\ TableInv(jobs)
  /\ HeldInv(running, jobs)
  /\ crashes \in Nat
  /\ Story(log, damaged, jobs, running, crashes)

LogKept == AuditInv(EventTypes, Loggers, Nat) /\ damaged \in 0..Len(log)

IInv == Kept /\ LogKept

-----------------------------------------------------------------------------
(* Lemmas about the data. *)

\* Appending to a list.
LEMMA AppendFacts ==
  ASSUME NEW t, IsList(t), NEW x
  PROVE  /\ IsList(Append(t, x)) /\ Len(t) \in Nat /\ DOMAIN t = 1..Len(t)
         /\ Len(Append(t, x)) = Len(t) + 1 /\ DOMAIN Append(t, x) = 1..(Len(t) + 1)
         /\ Append(t, x)[Len(t) + 1] = x
         /\ \A i \in DOMAIN t : Append(t, x)[i] = t[i]
<1>1. PICK S : t \in Seq(S)
  BY DEF IsList
<1>2. t \in Seq(S \cup {x})
  BY <1>1
<1>3. Append(t, x) \in Seq(S \cup {x})
  BY <1>2
<1>. QED  BY <1>2, <1>3 DEF IsList

\* Replacing a row of a list.
LEMMA ReplaceFacts ==
  ASSUME NEW t, IsList(t), NEW j \in DOMAIN t, NEW x
  PROVE  /\ IsList([t EXCEPT ![j] = x]) /\ DOMAIN [t EXCEPT ![j] = x] = DOMAIN t
         /\ \A i \in DOMAIN t : [t EXCEPT ![j] = x][i] = IF i = j THEN x ELSE t[i]
<1>1. PICK S : t \in Seq(S)
  BY DEF IsList
<1>2. t \in Seq(S \cup {x})
  BY <1>1
<1>3. [t EXCEPT ![j] = x] \in Seq(S \cup {x})
  BY <1>2
<1>. QED  BY <1>2, <1>3 DEF IsList

\* An event tells what it was made of.
LEMMA EventFacts ==
  ASSUME NEW a, NEW b, NEW c
  PROVE  /\ Event(a, b, c).type = a /\ Event(a, b, c).worker = b /\ Event(a, b, c).job = c
         /\ \A x, y, z : Event(a, b, c) = Event(x, y, z) => a = x /\ b = y /\ c = z
  BY DEF Event

\* _resolve_tile_count is within the cap.
LEMMA ResolveFacts ==
  ASSUME NEW fleet \in Fleets, NEW r \in Requests
  PROVE  ResolveTileCount(fleet, r) \in 1..MaxTiles
<1>1. Len(fleet) \in Int /\ r.tiles \in Int /\ r.factor \in Int /\ MaxTiles \in Nat \ {0}
      /\ (~r.explicit => r.tiles \in 1..MaxTiles)
  BY WorkloadAssumption DEF RequestOK
<1>2. \A a, b \in Int : /\ Greatest(a, b) \in {a, b} /\ Greatest(a, b) >= a /\ Greatest(a, b) >= b
                        /\ Least(a, b) \in {a, b} /\ Least(a, b) <= a /\ Least(a, b) <= b
  BY DEF Greatest, Least
<1>3. OversubscribedTiles(Len(fleet), r.factor) \in 1..MaxTiles
  <2>. DEFINE p == Greatest(Len(fleet), 1) * Greatest(r.factor, 1)
              cap == Greatest(MaxTiles, 1)
  <2>1. p \in Int /\ cap = MaxTiles
    BY <1>1, <1>2
  <2>. HIDE DEF p
  <2>2. Greatest(1, Least(p, cap)) \in 1..MaxTiles
    BY <1>1, <2>1 DEF Greatest, Least
  <2>. QED  BY <2>2 DEF OversubscribedTiles, p
<1>4. Greatest(1, Least(r.tiles, MaxTiles)) \in 1..MaxTiles
  BY <1>1 DEF Greatest, Least
<1>. QED  BY <1>1, <1>3, <1>4 DEF ResolveTileCount

\* A run ends in one of three ways, and a completed one was whole unless it used a pool.
LEMMA ExecuteFacts ==
  ASSUME NEW kind, NEW tile, NEW result \in Execute(kind, tile)
  PROVE  /\ result.status \in Finishing /\ result # NoResult
         /\ result.status = "completed" => result.whole \/ UsesPool(kind, tile)
<1>1. /\ Yielded.status = "yielded" /\ Failed.status = "failed"
      /\ Yielded # NoResult /\ Failed # NoResult
  BY DEF Yielded, Failed, Ran, NoResult
<1>2. \A output, whole : /\ Ran("completed", output, whole).status = "completed"
                         /\ Ran("completed", output, whole).whole = whole
                         /\ Ran("completed", output, whole) # NoResult
  BY DEF Ran, NoResult
<1>3. CASE kind \in Pooled
  <2>1. result \in RunPooled(kind, tile)
    BY <1>3 DEF Execute
  <2>2. CASE result \in {Yielded, Failed}
    BY <1>1, <2>2 DEF Finishing
  <2>3. CASE result \notin {Yielded, Failed}
    <3>. DEFINE chunks == Chunks(kind, tile)
                orders == IF UsesPool(kind, tile) THEN Arrivals(Len(chunks))
                          ELSE {[i \in DOMAIN chunks |-> i]}
    <3>1. PICK o \in orders :
            result = Ran("completed", PooledOutput(kind, tile, [i \in DOMAIN o |-> chunks[o[i]]]),
                         DOMAIN o = DOMAIN chunks)
      BY <2>1, <2>3 DEF RunPooled
    <3>. HIDE DEF chunks
    <3>2. ~UsesPool(kind, tile) => DOMAIN o = DOMAIN chunks
      OBVIOUS
    <3>3. result.whole = (DOMAIN o = DOMAIN chunks) /\ result.status = "completed"
          /\ result # NoResult
      BY <1>2, <3>1
    <3>. QED  BY <3>2, <3>3 DEF Finishing
  <2>. QED  BY <2>2, <2>3
<1>4. CASE kind \notin Pooled
  <2>1. result \in RunInOrder(kind, tile)
    BY <1>4 DEF Execute
  <2>2. CASE result \in {Yielded, Failed}
    BY <1>1, <2>2 DEF Finishing
  <2>3. CASE result \notin {Yielded, Failed}
    <3>1. \E output : result = Ran("completed", output, TRUE)
      BY <2>1, <2>3 DEF RunInOrder
    <3>. QED  BY <1>2, <3>1 DEF Finishing
  <2>. QED  BY <2>2, <2>3
<1>. QED  BY <1>3, <1>4

-----------------------------------------------------------------------------
(* What the builders build. *)

\* Jobs with tiles of their own, none of them empty, each credited with its items.
Sound(b) ==
  /\ IsList(b)
  /\ \A i \in DOMAIN b :
       /\ b[i].tile.from \in Int /\ b[i].tile.to \in Int /\ b[i].tile.seed \in Int
       /\ b[i].units = Size(b[i].tile) /\ b[i].units > 0
  /\ \A i, k \in DOMAIN b : b[i].tile.seed = b[k].tile.seed => i = k

\* Jobs whose tiles lie end to end.
Covers(b, from, to) ==
  /\ b # << >> /\ b[1].tile.from = from /\ b[Len(b)].tile.to = to
  /\ \A i \in 1..(Len(b) - 1) : b[i].tile.to = b[i + 1].tile.from

\* A list of jobs, from what it is made of.
Parted(f, t, s, N) ==
  /\ f \in [1..N -> Int] /\ t \in [1..N -> Int] /\ s \in [1..N -> Int]
  /\ \A j \in 1..N : f[j] < t[j]
  /\ \A i, j \in 1..N : s[i] = s[j] => i = j

Made(b, f, t, N) ==
  /\ Sound(b) /\ Len(b) = N /\ DOMAIN b = 1..N
  /\ \A j \in 1..N : b[j].tile.from = f[j] /\ b[j].tile.to = t[j]

LEMMA JobList ==
  ASSUME NEW kind, NEW N \in Nat, NEW f, NEW t, NEW s, Parted(f, t, s, N),
         NEW b, b = [j \in 1..N |-> JobOf(kind, f[j], t[j], s[j])]
  PROVE  Made(b, f, t, N)
<1>0. /\ f \in [1..N -> Int] /\ t \in [1..N -> Int] /\ s \in [1..N -> Int]
      /\ \A j \in 1..N : f[j] < t[j]
      /\ \A i, j \in 1..N : s[i] = s[j] => i = j
  BY DEF Parted
<1>1. PICK S : S = {JobOf(kind, f[j], t[j], s[j]) : j \in 1..N}
  OBVIOUS
<1>2. b \in [1..N -> S]
  BY <1>1
<1>3. b \in Seq(S) /\ Len(b) = N /\ DOMAIN b = 1..N
  BY <1>2
<1>4. ASSUME NEW j \in 1..N
      PROVE  /\ b[j].tile.from = f[j] /\ b[j].tile.to = t[j] /\ b[j].tile.seed = s[j]
             /\ b[j].units = t[j] - f[j]
  BY DEF JobOf
<1>5. \A j \in 1..N : f[j] \in Int /\ t[j] \in Int /\ s[j] \in Int
  BY <1>0
<1>6. \A j \in 1..N : b[j].units = Size(b[j].tile) /\ b[j].units > 0
  BY <1>0, <1>4, <1>5 DEF Size
<1>7. \A i, j \in 1..N : b[i].tile.seed = b[j].tile.seed => i = j
  BY <1>0, <1>4
<1>8. \A j \in 1..N : b[j].tile.from \in Int /\ b[j].tile.to \in Int /\ b[j].tile.seed \in Int
  BY <1>4, <1>5
<1>9. IsList(b)
  BY <1>3 DEF IsList
<1>. QED  BY <1>3, <1>4, <1>6, <1>7, <1>8, <1>9 DEF Sound, Made

\* The kinds that split a range.
LEMMA RangeJobsFacts ==
  ASSUME NEW kind, NEW k \in Nat \ {0}, NEW base \in Int, NEW size \in Nat \ {0},
         NEW w, Splittable(w, k)
  PROVE  Sound(RangeJobs(kind, k, base, size, w)) /\ Covers(RangeJobs(kind, k, base, size, w), base, base + size)
<1>1. PICK ranges : ranges = IF w = NoWeights THEN EvenRanges(size, k) ELSE WeightedRanges(size, w)
  OBVIOUS
<1>2. PICK c : /\ Borders(c, k, size)
               /\ \A i \in 1..k : ranges[i][1] = c[i - 1] /\ ranges[i][2] = c[i]
  <2>1. Bordered(ranges, k, size)
    BY <1>1, SplitBorders
  <2>. QED  BY <2>1 DEF Bordered
<1>3. PICK kept : kept = {i \in 1..k : ranges[i][1] < ranges[i][2]}
  OBVIOUS
<1>4. kept = {i \in 1..k : c[i - 1] < c[i]}
  BY <1>2, <1>3
<1>5. PICK place, N : place = InOrder(kept) /\ N = Cardinality(kept)
  OBVIOUS
<1>6. /\ N \in Nat \ {0} /\ place \in [1..N -> 1..k]
      /\ \A i, j \in 1..N : place[i] = place[j] => i = j
      /\ \A j \in 1..N : c[place[j] - 1] < c[place[j]]
      /\ c[place[1] - 1] = 0 /\ c[place[N]] = size
      /\ \A j \in 1..(N - 1) : c[place[j]] = c[place[j + 1] - 1]
  <2>1. Borders(c, k, size)
    BY <1>2
  <2>2. Laid(place, N, c, k, size)
    BY <1>4, <1>5, <2>1, KeptTiles
  <2>. QED  BY <2>2 DEF Laid
<1>7. PICK b : b = [j \in 1..N |-> JobOf(kind, base + ranges[place[j]][1], base + ranges[place[j]][2], place[j])]
  OBVIOUS
<1>8. RangeJobs(kind, k, base, size, w) = b
  <2>1. RangeJobs(kind, k, base, size, w)
          = [j \in DOMAIN place |->
               JobOf(kind, base + ranges[place[j]][1], base + ranges[place[j]][2], place[j])]
    BY <1>1, <1>3, <1>5 DEF RangeJobs, TileJobs
  <2>. QED  BY <1>6, <1>7, <2>1
<1>9. PICK f, t, s : /\ f = [j \in 1..N |-> base + c[place[j] - 1]]
                     /\ t = [j \in 1..N |-> base + c[place[j]]]
                     /\ s = [j \in 1..N |-> place[j]]
  OBVIOUS
<1>10. \A i \in 0..k : c[i] \in Nat
  BY <1>2 DEF Borders
<1>11. \A j \in 1..N : /\ place[j] \in 1..k /\ place[j] \in Int
                       /\ c[place[j]] \in Nat /\ c[place[j] - 1] \in Nat
  <2>. SUFFICES ASSUME NEW j \in 1..N
                PROVE place[j] \in 1..k /\ place[j] \in Int /\ c[place[j]] \in Nat /\ c[place[j] - 1] \in Nat
    OBVIOUS
  <2>1. place[j] \in 1..k
    BY <1>6
  <2>2. place[j] \in 0..k /\ place[j] - 1 \in 0..k
    BY <2>1
  <2>. QED  BY <1>10, <2>1, <2>2
<1>12. f \in [1..N -> Int] /\ t \in [1..N -> Int] /\ s \in [1..N -> Int]
  BY <1>9, <1>11
<1>13. \A j \in 1..N : f[j] < t[j]
  <2>. SUFFICES ASSUME NEW j \in 1..N PROVE f[j] < t[j]
    OBVIOUS
  <2>1. PICK x, y \in Nat : x = c[place[j] - 1] /\ y = c[place[j]]
    BY <1>11
  <2>2. x < y
    BY <1>6, <2>1
  <2>. QED  BY <1>9, <2>1, <2>2
<1>14. \A i, j \in 1..N : s[i] = s[j] => i = j
  BY <1>6, <1>9
<1>15. b = [j \in 1..N |-> JobOf(kind, f[j], t[j], s[j])]
  BY <1>2, <1>7, <1>9, <1>11
<1>16. /\ Sound(b) /\ Len(b) = N /\ DOMAIN b = 1..N
       /\ \A j \in 1..N : b[j].tile.from = f[j] /\ b[j].tile.to = t[j]
  <2>1. N \in Nat
    BY <1>6
  <2>2. Parted(f, t, s, N)
    BY <1>12, <1>13, <1>14 DEF Parted
  <2>3. Made(b, f, t, N)
    BY <1>15, <2>1, <2>2, JobList
  <2>. QED  BY <2>3 DEF Made
<1>17. Covers(b, base, base + size)
  <2>1. 1 \in 1..N /\ N \in 1..N /\ \A j \in 1..(N - 1) : j \in 1..N /\ j + 1 \in 1..N
    BY <1>6
  <2>2. b[1].tile.from = base /\ b[N].tile.to = base + size
    BY <1>6, <1>9, <1>16, <2>1
  <2>3. ASSUME NEW j \in 1..(N - 1) PROVE b[j].tile.to = b[j + 1].tile.from
    <3>1. j \in 1..N /\ j + 1 \in 1..N
      BY <2>1
    <3>2. b[j].tile.to = t[j] /\ b[j + 1].tile.from = f[j + 1]
      BY <1>16, <3>1
    <3>3. t[j] = base + c[place[j]] /\ f[j + 1] = base + c[place[j + 1] - 1]
      BY <1>9, <3>1
    <3>4. c[place[j]] = c[place[j + 1] - 1]
      BY <1>6
    <3>. QED  BY <3>2, <3>3, <3>4
  <2>4. b # << >>
    BY <1>16, <2>1
  <2>. QED  BY <1>16, <2>2, <2>3, <2>4 DEF Covers
<1>. QED  BY <1>8, <1>16, <1>17

\* A list of prompts, in slices: as many as it takes, the last as short as the list leaves it.
LEMMA PromptJobsFacts ==
  ASSUME NEW slice \in Nat \ {0}, NEW prompts \in Nat
  PROVE  /\ Sound(PromptJobs(slice, prompts))
         /\ IF prompts = 0 THEN PromptJobs(slice, prompts) = << >>
            ELSE Covers(PromptJobs(slice, prompts), 0, prompts)
<1>1. PICK N : N = (prompts + slice - 1) \div slice
  OBVIOUS
<1>2. N \in Nat /\ N * slice >= prompts /\ N * slice <= prompts + slice - 1
  <2>1. PICK a \in Nat : a = prompts + slice - 1
    OBVIOUS
  <2>2. PICK q, x : /\ q = a \div slice /\ x = a % slice
                    /\ q \in Nat /\ x \in 0..(slice - 1) /\ a = slice * q + x
    <3>1. /\ a \div slice \in Nat /\ (a % slice) \in 0..(slice - 1)
          /\ a = slice * (a \div slice) + (a % slice)
      BY Division
    <3>. HIDE <1>1
    <3>. QED  BY <3>1, Zenon
  <2>3. N = q
    BY <1>1, <2>1, <2>2
  <2>4. PICK y \in Int : y = slice * q /\ y = q * slice
    BY <2>2
  <2>5. a = y + x /\ x <= slice - 1 /\ x >= 0
    BY <2>2, <2>4
  <2>. QED  BY <2>1, <2>2, <2>3, <2>4, <2>5
<1>3. PICK f, t, s : /\ f = [j \in 1..N |-> (j - 1) * slice]
                     /\ t = [j \in 1..N |-> Least(j * slice, prompts)]
                     /\ s = [j \in 1..N |-> j]
  OBVIOUS
<1>4. ASSUME NEW j \in 1..N
      PROVE  /\ (j - 1) * slice \in Nat /\ j * slice \in Nat /\ j * slice = (j - 1) * slice + slice
             /\ (j - 1) * slice < prompts
             /\ j < N => j * slice < prompts
             /\ j = N => j * slice >= prompts
  <2>1. PICK x, y \in Int : x = (j - 1) * slice /\ y = (N - 1) * slice
    BY <1>2
  <2>2. j * slice = x + slice /\ N * slice = y + slice
    BY <1>2, <2>1
  <2>3. x <= y /\ x >= 0 /\ (j < N => x + slice <= y)
    <3>1. x >= 0
      BY <2>1
    <3>2. x <= y
      BY <1>2, <2>1
    <3>3. ASSUME j < N PROVE x + slice <= y
      <4>1. j * slice <= (N - 1) * slice
        BY <1>2, <3>3
      <4>. QED  BY <2>1, <2>2, <4>1
    <3>. QED  BY <3>1, <3>2, <3>3
  <2>. QED  BY <1>2, <2>1, <2>2, <2>3
<1>5. ASSUME NEW j \in 1..N
      PROVE  /\ f[j] \in Int /\ t[j] \in Int /\ s[j] \in Int /\ f[j] < t[j]
             /\ j < N => t[j] = f[j + 1]
             /\ j = N => t[j] = prompts
  <2>1. PICK x, y \in Nat : x = (j - 1) * slice /\ y = j * slice
    BY <1>4
  <2>2. x < prompts /\ x < y /\ (j < N => y < prompts) /\ (j = N => y >= prompts)
    BY <1>4, <2>1
  <2>3. f[j] = x /\ t[j] = Least(y, prompts) /\ s[j] = j
    BY <1>3, <2>1
  <2>4. j < N => f[j + 1] = y
    BY <1>2, <1>3, <2>1
  <2>. QED  BY <2>1, <2>2, <2>3, <2>4 DEF Least
<1>6. Parted(f, t, s, N)
  <2>1. f \in [1..N -> Int] /\ t \in [1..N -> Int] /\ s \in [1..N -> Int]
    BY <1>3, <1>5
  <2>2. \A i, j \in 1..N : s[i] = s[j] => i = j
    BY <1>3
  <2>. QED  BY <1>5, <2>1, <2>2 DEF Parted
<1>7. PICK b : b = PromptJobs(slice, prompts)
  OBVIOUS
<1>8. b = [j \in 1..N |-> JobOf("ai.batch_infer", f[j], t[j], s[j])]
  BY <1>1, <1>3, <1>7 DEF PromptJobs
<1>9. Made(b, f, t, N)
  BY <1>2, <1>6, <1>8, JobList
<1>10. Sound(b) /\ Len(b) = N /\ \A j \in 1..N : b[j].tile.from = f[j] /\ b[j].tile.to = t[j]
  BY <1>9 DEF Made
<1>11. CASE prompts = 0
  <2>1. N = 0
    <3>. SUFFICES ASSUME N > 0 PROVE FALSE
      BY <1>2
    <3>1. N \in 1..N
      BY <1>2
    <3>2. (N - 1) * slice \in Nat /\ (N - 1) * slice < 0
      BY <1>4, <1>11, <3>1
    <3>. QED  BY <3>2
  <2>2. b = << >>
    BY <1>8, <2>1
  <2>. QED  BY <1>7, <1>10, <1>11, <2>2
<1>12. CASE prompts # 0
  <2>1. N # 0
    BY <1>2, <1>12
  <2>2. 1 \in 1..N /\ N \in 1..N /\ \A j \in 1..(N - 1) : j \in 1..N /\ j + 1 \in 1..N /\ j < N
    BY <1>2, <2>1
  <2>3. f[1] = 0 /\ t[N] = prompts
    BY <1>3, <1>5, <2>2
  <2>4. \A j \in 1..(N - 1) : t[j] = f[j + 1]
    BY <1>5, <2>2
  <2>5. b # << >>
    BY <1>8, <2>2
  <2>6. Covers(b, 0, prompts)
    BY <1>10, <2>2, <2>3, <2>4, <2>5 DEF Covers
  <2>. QED  BY <1>7, <1>10, <1>12, <2>6
<1>. QED  BY <1>11, <1>12

\* The same number of items for every job.
LEMMA FanOutFacts ==
  ASSUME NEW k \in Nat \ {0}, NEW items \in Nat \ {0}
  PROVE  Sound(FanOut(k, items)) /\ Covers(FanOut(k, items), 0, k * items)
<1>1. PICK f, t, s : /\ f = [j \in 1..k |-> (j - 1) * items]
                     /\ t = [j \in 1..k |-> j * items]
                     /\ s = [j \in 1..k |-> j]
  OBVIOUS
<1>2. ASSUME NEW j \in 1..k
      PROVE  /\ f[j] \in Int /\ t[j] \in Int /\ s[j] \in Int /\ f[j] < t[j]
             /\ j < k => t[j] = f[j + 1]
  <2>1. PICK x, y \in Int : x = (j - 1) * items /\ y = j * items
    OBVIOUS
  <2>2. y = x + items
    BY <2>1
  <2>3. f[j] = x /\ t[j] = y /\ s[j] = j
    BY <1>1, <2>1
  <2>4. j < k => f[j + 1] = y
    BY <1>1, <2>1
  <2>. QED  BY <2>2, <2>3, <2>4
<1>3. Parted(f, t, s, k)
  <2>1. f \in [1..k -> Int] /\ t \in [1..k -> Int] /\ s \in [1..k -> Int]
    BY <1>1, <1>2
  <2>2. \A i, j \in 1..k : s[i] = s[j] => i = j
    BY <1>1
  <2>. QED  BY <1>2, <2>1, <2>2 DEF Parted
<1>4. PICK b : b = FanOut(k, items)
  OBVIOUS
<1>5. b = [j \in 1..k |-> JobOf("data.transform", f[j], t[j], s[j])]
  BY <1>1, <1>4 DEF FanOut
<1>6. Made(b, f, t, k)
  BY <1>3, <1>5, JobList
<1>7. Sound(b) /\ Len(b) = k /\ \A j \in 1..k : b[j].tile.from = f[j] /\ b[j].tile.to = t[j]
  BY <1>6 DEF Made
<1>8. 1 \in 1..k /\ k \in 1..k /\ \A j \in 1..(k - 1) : j \in 1..k /\ j + 1 \in 1..k /\ j < k
  OBVIOUS
<1>9. f[1] = 0 /\ t[k] = k * items
  BY <1>1, <1>8
<1>10. \A j \in 1..(k - 1) : t[j] = f[j + 1]
  BY <1>2, <1>8
<1>11. b # << >>
  BY <1>5, <1>8
<1>12. Covers(b, 0, k * items)
  BY <1>7, <1>8, <1>9, <1>10, <1>11 DEF Covers
<1>. QED  BY <1>4, <1>7, <1>12

\* As many times the same work.
LEMMA RenderJobsFacts ==
  ASSUME NEW k \in Nat, NEW iters \in Nat \ {0}
  PROVE  Sound(RenderJobs(k, iters)) /\ Len(RenderJobs(k, iters)) = k
<1>1. PICK f, t, s : /\ f = [j \in 1..k |-> 0] /\ t = [j \in 1..k |-> iters]
                     /\ s = [j \in 1..k |-> j]
  OBVIOUS
<1>2. Parted(f, t, s, k)
  BY <1>1 DEF Parted
<1>3. PICK b : b = RenderJobs(k, iters)
  OBVIOUS
<1>4. b = [j \in 1..k |-> JobOf("render", f[j], t[j], s[j])]
  BY <1>1, <1>3 DEF RenderJobs
<1>5. Made(b, f, t, k)
  BY <1>2, <1>4, JobList
<1>. QED  BY <1>3, <1>5 DEF Made

\* What a request is for.
ItemsOf(r, k) == IF r.kind = "data.transform" THEN k * r.size ELSE r.size

\* _build_workload_jobs: whatever the kind, the jobs are sound, and together all that was asked for.
LEMMA BuildFacts ==
  ASSUME NEW r \in Requests, NEW k \in Nat \ {0}, NEW w, Splittable(w, k)
  PROVE  /\ Sound(Build(r, k, w))
         /\ IF r.kind = "render" THEN Len(Build(r, k, w)) = k
            ELSE IF ItemsOf(r, k) = 0 THEN Build(r, k, w) = << >>
            ELSE Covers(Build(r, k, w), r.base, r.base + ItemsOf(r, k))
<1>1. RequestOK(r)
  BY WorkloadAssumption
<1>2. /\ r.kind \in Launchable \cup {"render"} /\ r.base \in Int /\ r.slice \in Nat \ {0}
      /\ r.size \in Nat /\ (r.kind # "ai.batch_infer" => r.size \in Nat \ {0})
      /\ (r.kind # "hashcrack" => r.base = 0)
  BY <1>1 DEF RequestOK
<1>3. CASE r.kind = "ai.batch_infer"
  <2>1. Build(r, k, w) = PromptJobs(r.slice, r.size)
    BY <1>3 DEF Build
  <2>2. r.base = 0 /\ ItemsOf(r, k) = r.size /\ r.base + ItemsOf(r, k) = r.size /\ r.kind # "render"
    BY <1>2, <1>3 DEF ItemsOf
  <2>. QED  BY <1>2, <2>1, <2>2, PromptJobsFacts
<1>4. CASE r.kind = "data.transform"
  <2>1. Build(r, k, w) = FanOut(k, r.size)
    BY <1>4 DEF Build
  <2>2. k * r.size \in Nat \ {0} /\ r.size \in Nat \ {0}
    BY <1>2, <1>4
  <2>3. r.base = 0 /\ ItemsOf(r, k) = k * r.size /\ ItemsOf(r, k) # 0 /\ r.base + ItemsOf(r, k) = k * r.size
    BY <1>2, <1>4, <2>2 DEF ItemsOf
  <2>4. r.kind # "render"
    BY <1>4
  <2>. QED  BY <2>1, <2>2, <2>3, <2>4, FanOutFacts
<1>5. CASE r.kind = "render"
  <2>1. Build(r, k, w) = RenderJobs(k, r.size)
    BY <1>5 DEF Build
  <2>. QED  BY <1>2, <1>5, <2>1, RenderJobsFacts
<1>6. CASE r.kind \in Launchable \ {"ai.batch_infer", "data.transform"}
  <2>1. r.size \in Nat \ {0} /\ ItemsOf(r, k) = r.size /\ ItemsOf(r, k) # 0 /\ r.kind # "render"
    BY <1>2, <1>6 DEF ItemsOf, Launchable
  <2>2. Build(r, k, w) = RangeJobs(r.kind, k, r.base, r.size, w)
    BY <1>2, <1>6
       DEF Build, Launchable, FractalJobs, OptimizeJobs, SynthJobs, MontecarloJobs, HashcrackJobs,
           InferJobs, EvalJobs, GraphJobs
  <2>. QED  BY <1>2, <2>1, <2>2, RangeJobsFacts
<1>. QED  BY <1>2, <1>3, <1>4, <1>5, <1>6

-----------------------------------------------------------------------------
(* What the tiles are run with, and what they are weighted with. *)

\* The stride of the seeds, whatever its value.
LEMMA StrideFacts == SeedStride \in Nat \ {0}
BY SMT DEF SeedStride

\* Numbers in a positional system have one notation.
LEMMA Positions ==
  ASSUME NEW m \in Nat \ {0}, NEW s \in Int, NEW t \in Int,
         NEW x \in 0..(m - 1), NEW y \in 0..(m - 1), x # y \/ s # t
  PROVE  s * m + x # t * m + y
<1>1. CASE s = t
  BY <1>1
<1>2. CASE s < t
  <2>1. PICK p, q \in Int : p = s * m /\ q = t * m
    OBVIOUS
  <2>2. p + m <= q
    <3>1. (s + 1) * m = p + m /\ s + 1 <= t
      BY <1>2, <2>1
    <3>2. (s + 1) * m <= t * m
      BY <3>1
    <3>. QED  BY <2>1, <3>1, <3>2
  <2>. QED  BY <2>1, <2>2
<1>3. CASE t < s
  <2>1. PICK p, q \in Int : p = s * m /\ q = t * m
    OBVIOUS
  <2>2. q + m <= p
    <3>1. (t + 1) * m = q + m /\ t + 1 <= s
      BY <1>3, <2>1
    <3>2. (t + 1) * m <= s * m
      BY <3>1
    <3>. QED  BY <2>1, <3>1, <3>2
  <2>. QED  BY <2>1, <2>2
<1>. QED  BY <1>1, <1>2, <1>3

\* A tile has fewer chunks than what keeps the tiles' seeds apart.
LEMMA ChunkFacts ==
  ASSUME NEW tile, Size(tile) \in Nat, NEW c \in DOMAIN Chunks("montecarlo", tile)
  PROVE  Chunks("montecarlo", tile)[c].number = c - 1 /\ c \in 1..SeedStride
<1>1. PICK size \in Nat : size = Size(tile)
  OBVIOUS
<1>2. PICK m : m = NumChunks("montecarlo", size)
  OBVIOUS
<1>3. m \in Nat \ {0} /\ m <= SeedStride
  <2>1. /\ Cores \in Nat \ {0} /\ ChunkSize \in Nat \ {0} /\ MaxChunks \in Nat
        /\ Cores <= SeedStride /\ MaxChunks <= SeedStride /\ SeedStride \in Nat
    BY PoolAssumption, StrideFacts
  <2>2. PICK many : many = (size + ChunkSize - 1) \div ChunkSize
    OBVIOUS
  <2>3. many \in Nat
    BY <2>1, <2>2, Division
  <2>4. PICK few : few = IF many < MaxChunks THEN many ELSE MaxChunks
    OBVIOUS
  <2>5. few \in Nat /\ few <= SeedStride
    BY <2>1, <2>3, <2>4
  <2>6. m = IF Cores > few THEN Cores ELSE few
    BY <1>2, <2>2, <2>4 DEF NumChunks
  <2>. QED  BY <2>1, <2>5, <2>6
<1>4. PICK ranges : ranges = EvenRanges(size, m)
  OBVIOUS
<1>5. DOMAIN ranges = 1..m
  BY <1>4 DEF EvenRanges
<1>6. Chunks("montecarlo", tile)
        = [d \in {d \in DOMAIN ranges : ranges[d][1] < ranges[d][2]} |->
             [number |-> d - 1, from |-> tile.from + ranges[d][1], to |-> tile.from + ranges[d][2]]]
  BY <1>1, <1>2, <1>4 DEF Chunks
<1>7. c \in DOMAIN ranges /\ Chunks("montecarlo", tile)[c].number = c - 1
  BY <1>6
<1>8. c \in 1..m
  BY <1>5, <1>7
<1>9. PICK top \in Nat : top = SeedStride
  BY StrideFacts
<1>. QED  BY <1>3, <1>7, <1>8, <1>9

\* Seeds apart are streams apart.
LEMMA StreamFacts ==
  ASSUME NEW b, Sound(b), NEW i \in DOMAIN b, NEW k \in DOMAIN b,
         NEW c \in DOMAIN Chunks("montecarlo", b[i].tile),
         NEW d \in DOMAIN Chunks("montecarlo", b[k].tile), <<i, c>> # <<k, d>>
  PROVE  Stream(b[i].tile, Chunks("montecarlo", b[i].tile)[c])
           # Stream(b[k].tile, Chunks("montecarlo", b[k].tile)[d])
<1>1. \A m \in DOMAIN b : Size(b[m].tile) \in Nat /\ b[m].tile.seed \in Int
  BY DEF Sound, Size
<1>2. PICK s, t \in Int : s = b[i].tile.seed /\ t = b[k].tile.seed
  BY <1>1
<1>3. s = t => i = k
  BY <1>2 DEF Sound
<1>4. /\ c \in 1..SeedStride /\ Chunks("montecarlo", b[i].tile)[c].number = c - 1
      /\ d \in 1..SeedStride /\ Chunks("montecarlo", b[k].tile)[d].number = d - 1
  BY <1>1, ChunkFacts
<1>5. s * SeedStride + (c - 1) # t * SeedStride + (d - 1)
  <2>1. c # d \/ s # t
    BY <1>3
  <2>2. PICK m \in Nat \ {0} : m = SeedStride
    BY StrideFacts
  <2>3. c - 1 \in 0..(m - 1) /\ d - 1 \in 0..(m - 1)
    BY <1>4, <2>2
  <2>4. c # d => c - 1 # d - 1
    BY <1>4, <2>2
  <2>5. s * m + (c - 1) # t * m + (d - 1)
    BY <2>1, <2>3, <2>4, Positions
  <2>. QED  BY <2>2, <2>5
<1>. QED  BY <1>2, <1>4, <1>5 DEF Stream

\* A row's weight is positive.
LEMMA PositiveWeight ==
  ASSUME NEW row, RowOK(row)
  PROVE  WorkerWeight(row) \in Nat \ {0}
<1>1. row.class \in Int /\ row.load \in 0..100 /\ row.ram \in Nat \cup {UnknownRam}
  BY DEF RowOK
<1>2. \A a, b \in Nat \ {0} : a * b \in Nat \ {0}
  BY SMT
<1>3. PICK class, idle, ram \in Nat \ {0} :
        /\ class = IF row.class <= 0 THEN 1 ELSE row.class
        /\ idle = 1000 - 9 * row.load
        /\ ram = 8 + (IF row.ram = UnknownRam THEN 8 ELSE Least(row.ram, 8))
  <2>1. (IF row.class <= 0 THEN 1 ELSE row.class) \in Nat \ {0} /\ 1000 - 9 * row.load \in Nat \ {0}
    BY <1>1
  <2>2. 8 + (IF row.ram = UnknownRam THEN 8 ELSE Least(row.ram, 8)) \in Nat \ {0}
    BY <1>1 DEF Least, UnknownRam
  <2>. QED  BY <2>1, <2>2
<1>4. WorkerWeight(row) = class * idle * ram
  BY <1>3 DEF WorkerWeight
<1>. QED  BY <1>2, <1>4

\* _capability_tile_weights: one weight per tile, and a split by them, or none.
LEMMA WeightsFacts ==
  ASSUME NEW fleet \in Fleets, NEW k \in Nat
  PROVE  Len(TileWeights(fleet, k)) \in {0, k} /\ Splittable(TileWeights(fleet, k), k)
<1>1. Len(fleet) \in Nat /\ DOMAIN fleet = 1..Len(fleet) /\ \A i \in DOMAIN fleet : RowOK(fleet[i])
  BY WorkloadAssumption
<1>2. PICK w : w = [i \in DOMAIN fleet |-> WorkerWeight(fleet[i])]
  OBVIOUS
<1>3. TileWeights(fleet, k) \in {w, NoWeights}
  BY <1>2 DEF TileWeights
<1>4. CASE TileWeights(fleet, k) = NoWeights
  BY <1>4 DEF NoWeights, Splittable
<1>5. CASE TileWeights(fleet, k) # NoWeights
  <2>1. TileWeights(fleet, k) = w /\ fleet # << >> /\ Len(fleet) = k
    BY <1>2, <1>5 DEF TileWeights
  <2>2. w \in [1..k -> Nat \ {0}] /\ Len(w) = k
    <3>1. \A i \in 1..k : WorkerWeight(fleet[i]) \in Nat \ {0}
      BY <1>1, <2>1, PositiveWeight
    <3>2. w = [i \in 1..k |-> WorkerWeight(fleet[i])]
      BY <1>1, <1>2, <2>1
    <3>. QED  BY <3>1, <3>2
  <2>3. k # 0
    BY <1>5, <2>1, <2>2 DEF NoWeights
  <2>. QED  BY <2>1, <2>2, <2>3, PositiveWeights
<1>. QED  BY <1>4, <1>5

-----------------------------------------------------------------------------
(* Lemmas about the story. *)

\* The jobs table and the workers may change under a log, as long as completed jobs stay as they
\* are, none is added, and nobody runs what he was not logged as being given.
LEMMA StoryTable ==
  ASSUME NEW l, NEW d, NEW t, NEW r, NEW c, Story(l, d, t, r, c), NEW t2, NEW r2, NEW c2,
         \A j \in DOMAIN t : t[j].state = "completed" =>
            j \in DOMAIN t2 /\ t2[j].state = "completed" /\ t2[j].worker = t[j].worker,
         \A w \in Workers : r2[w].stage = "running" =>
            r2[w] = r[w] \/ In(l, Event("assigned", w, r2[w].job)),
         c2 = 0 => /\ c = 0
                   /\ \A j \in DOMAIN t2 : t2[j].state = "completed" =>
                        j \in DOMAIN t /\ t[j].state = "completed" /\ t2[j].worker = t[j].worker
  PROVE  Story(l, d, t2, r2, c2)
<1>. SUFFICES ASSUME d = 0 PROVE Run(l, r2) /\ Assigned(l) /\ Told(l, t2) /\ (c2 = 0 => AllTold(l, t2))
  BY DEF Story
<1>1. Run(l, r) /\ Assigned(l) /\ Told(l, t) /\ (c = 0 => AllTold(l, t))
  BY DEF Story
<1>2. Run(l, r2)
  BY <1>1 DEF Run
<1>3. Told(l, t2)
  BY <1>1 DEF Told
<1>4. c2 = 0 => AllTold(l, t2)
  BY <1>1 DEF AllTold
<1>. QED  BY <1>1, <1>2, <1>3, <1>4

\* An event at the end of the log.
LEMMA AppendedEvent ==
  ASSUME NEW l, IsList(l), NEW row
  PROVE  /\ \A e : In(l, e) => In(Append(l, row), e)
         /\ \A i \in DOMAIN l : \A e : Earlier(l, i, e) => Earlier(Append(l, row), i, e)
         /\ \A e : In(l, e) => Earlier(Append(l, row), Len(l) + 1, e)
         /\ In(Append(l, row), row.event)
<1>1. /\ Len(l) \in Nat /\ DOMAIN l = 1..Len(l) /\ DOMAIN Append(l, row) = 1..(Len(l) + 1)
      /\ Append(l, row)[Len(l) + 1] = row /\ \A i \in DOMAIN l : Append(l, row)[i] = l[i]
  BY AppendFacts
<1>. DEFINE m == Append(l, row)
            k == Len(l)
<1>. HIDE DEF m, k
<1>2. /\ k \in Nat /\ DOMAIN l = 1..k /\ DOMAIN m = 1..(k + 1) /\ m[k + 1] = row
      /\ \A i \in DOMAIN l : m[i] = l[i] /\ i \in DOMAIN m /\ i < k + 1
  BY <1>1 DEF m, k
<1>3. \A e : In(l, e) => In(m, e)
  BY <1>2 DEF In
<1>4. \A i \in DOMAIN l : \A e : Earlier(l, i, e) => Earlier(m, i, e)
  BY <1>2 DEF Earlier
<1>5. \A e : In(l, e) => Earlier(m, k + 1, e)
  BY <1>2 DEF In, Earlier
<1>6. In(m, row.event)
  BY <1>2 DEF In
<1>. QED  BY <1>3, <1>4, <1>5, <1>6 DEF m, k

\* An event that finishes nothing adds nothing that needs a reason.
LEMMA StoryEmit ==
  ASSUME NEW l, IsList(l), NEW d, NEW t, NEW r, NEW c, Story(l, d, t, r, c),
         NEW row, row.event.type \notin Finishing
  PROVE  Story(Append(l, row), d, t, r, c)
<1>. DEFINE m == Append(l, row)
            k == Len(l)
<1>. SUFFICES ASSUME d = 0 PROVE Run(m, r) /\ Assigned(m) /\ Told(m, t) /\ (c = 0 => AllTold(m, t))
  BY DEF Story
<1>1. Run(l, r) /\ Assigned(l) /\ Told(l, t) /\ (c = 0 => AllTold(l, t))
  BY DEF Story
<1>2. /\ \A e : In(l, e) => In(m, e)
      /\ \A i \in DOMAIN l : \A e : Earlier(l, i, e) => Earlier(m, i, e)
  BY AppendedEvent
<1>3. /\ k \in Nat /\ DOMAIN l = 1..k /\ DOMAIN m = 1..(k + 1) /\ m[k + 1] = row
      /\ \A i \in DOMAIN l : m[i] = l[i]
  BY AppendFacts
<1>. HIDE DEF m, k
<1>4. \A i \in DOMAIN m : m[i].event.type \in Finishing => i \in DOMAIN l
  BY <1>3
<1>5. Run(m, r)
  BY <1>1, <1>2 DEF Run
<1>6. Assigned(m)
  BY <1>1, <1>2, <1>3, <1>4 DEF Assigned
<1>7. Told(m, t)
  BY <1>1, <1>3, <1>4 DEF Told, Finishing
<1>8. c = 0 => AllTold(m, t)
  BY <1>1, <1>2 DEF AllTold
<1>. QED  BY <1>5, <1>6, <1>7, <1>8

\* A result is logged in the step that settles its job: the worker was assigned it, and nobody was
\* logged as completing it before.
LEMMA StoryFinish ==
  ASSUME NEW l, IsList(l), NEW d, NEW t, NEW r, NEW c, Story(l, d, t, r, c),
         NEW w \in Workers, NEW j \in DOMAIN t, t[j].state = "leased",
         r[w].stage = "running", r[w].job = j,
         NEW status \in Finishing, NEW row, row.event = Event(status, w, j),
         NEW t2, DOMAIN t2 = DOMAIN t, \A i \in DOMAIN t : i # j => t2[i] = t[i],
         t2[j].state = "completed" <=> status = "completed",
         status = "completed" => t2[j].worker = w,
         NEW r2, \A v \in Workers : r2[v].stage = "running" => r2[v] = r[v]
  PROVE  Story(Append(l, row), d, t2, r2, c)
<1>. DEFINE m == Append(l, row)
            k == Len(l)
<1>. SUFFICES ASSUME d = 0
              PROVE  Run(m, r2) /\ Assigned(m) /\ Told(m, t2) /\ (c = 0 => AllTold(m, t2))
  BY DEF Story
<1>1. Run(l, r) /\ Assigned(l) /\ Told(l, t) /\ (c = 0 => AllTold(l, t))
  BY DEF Story
<1>2. /\ \A e : In(l, e) => In(m, e)
      /\ \A i \in DOMAIN l : \A e : Earlier(l, i, e) => Earlier(m, i, e)
      /\ \A e : In(l, e) => Earlier(m, k + 1, e)
      /\ In(m, row.event)
  BY AppendedEvent
<1>3. /\ k \in Nat /\ DOMAIN l = 1..k /\ DOMAIN m = 1..(k + 1) /\ m[k + 1] = row
      /\ \A i \in DOMAIN l : m[i] = l[i]
  BY AppendFacts
<1>. HIDE DEF m, k
<1>4. row.event.type = status /\ row.event.worker = w /\ row.event.job = j
  BY EventFacts
<1>5. \A i \in DOMAIN m : i = k + 1 \/ (i \in DOMAIN l /\ m[i] = l[i])
  BY <1>3
<1>6. Run(m, r2)
  BY <1>1, <1>2 DEF Run
<1>7. Assigned(m)
  <2>1. In(l, Event("assigned", w, j))
    BY <1>1 DEF Run
  <2>2. Earlier(m, k + 1, Event("assigned", m[k + 1].event.worker, m[k + 1].event.job))
    BY <1>2, <1>3, <1>4, <2>1
  <2>. QED  BY <1>1, <1>2, <1>5, <2>2 DEF Assigned
<1>8. \A i \in DOMAIN l : l[i].event.type = "completed" => l[i].event.job # j
  BY <1>1 DEF Told
<1>9. Told(m, t2)
  <2>1. SUFFICES ASSUME NEW i \in DOMAIN m, m[i].event.type = "completed"
                 PROVE  /\ m[i].event.job \in DOMAIN t2
                        /\ t2[m[i].event.job].state = "completed"
                        /\ t2[m[i].event.job].worker = m[i].event.worker
                        /\ \A x \in DOMAIN m : m[x].event = m[i].event => x = i
    BY DEF Told
  <2>2. CASE i = k + 1
    BY <1>3, <1>4, <1>5, <1>8, <2>1, <2>2
  <2>3. CASE i # k + 1
    <3>1. i \in DOMAIN l /\ m[i] = l[i] /\ l[i].event.job # j
      BY <1>5, <1>8, <2>1, <2>3
    <3>. QED  BY <1>1, <1>3, <1>4, <1>5, <2>1, <3>1 DEF Told
  <2>. QED  BY <2>2, <2>3
<1>10. c = 0 => AllTold(m, t2)
  BY <1>1, <1>2, <1>4 DEF AllTold
<1>. QED  BY <1>6, <1>7, <1>9, <1>10

-----------------------------------------------------------------------------
(* The steps. *)

\* What _emit does to the log.
LEMMA LogOfFacts ==
  ASSUME LogKept, NEW type, NEW w, NEW j, LogOf(type, w, j)
  PROVE  /\ IsList(log) /\ damaged' = damaged
         /\ \E row : log' = Append(log, row) /\ row.event = Event(type, w, j)
<1>1. IsList(log)
  BY DEF LogKept, AuditInv, IsList
<1>2. log' = Append(log, Row(Event(type, w, j), TailHash, Hash(TailHash, Event(type, w, j))))
      /\ damaged' = damaged
  BY DEF LogOf, Emit
<1>3. \A e, a, b : Row(e, a, b).event = e
  BY DEF Row
<1>. QED  BY <1>1, <1>2, <1>3

\* A queued row for a new job.
LEMMA QueuedFacts ==
  ASSUME NEW spec
  PROVE  JobShape(Queued(spec)) /\ Queued(spec).state = "queued"
BY DEF JobShape, Queued, NoResult

\* The table once a worker has leased a job.
LeasedTo(job, w) == [job EXCEPT !.state = "leased", !.worker = w]
Assignment(j, w) == [jobs EXCEPT ![j] = LeasedTo(jobs[j], w)]

\* A queued job becomes a leased one.
LEMMA LeaseFacts ==
  ASSUME TableInv(jobs), NEW j \in DOMAIN jobs, jobs[j].state = "queued", NEW w \in Workers
  PROVE  /\ TableInv(Assignment(j, w)) /\ DOMAIN Assignment(j, w) = DOMAIN jobs
         /\ Assignment(j, w)[j].state = "leased" /\ Assignment(j, w)[j].spec = jobs[j].spec
         /\ \A i \in DOMAIN jobs : i # j => Assignment(j, w)[i] = jobs[i]
<1>. DEFINE job == LeasedTo(jobs[j], w)
            u == Assignment(j, w)
<1>1. IsList(u) /\ DOMAIN u = DOMAIN jobs
      /\ \A i \in DOMAIN jobs : u[i] = IF i = j THEN job ELSE jobs[i]
  <2>. HIDE DEF job
  <2>. QED  BY ReplaceFacts DEF TableInv, Assignment, job
<1>2. JobShape(jobs[j]) /\ w # Nobody
  BY WorkloadAssumption DEF TableInv
<1>3. JobShape(job) /\ job.state = "leased" /\ job.spec = jobs[j].spec
  BY <1>2 DEF JobShape, LeasedTo
<1>. HIDE DEF u, job
<1>4. TableInv(u)
  BY <1>1, <1>3 DEF TableInv
<1>. QED  BY <1>1, <1>3, <1>4 DEF u

\* A leased job goes back to the queue.
LEMMA RequeuedFacts ==
  ASSUME TableInv(jobs), NEW j \in DOMAIN jobs, jobs[j].state = "leased"
  PROVE  /\ TableInv(Requeued(j)) /\ DOMAIN Requeued(j) = DOMAIN jobs
         /\ \A i \in DOMAIN jobs : i # j => Requeued(j)[i] = jobs[i]
         /\ Requeued(j)[j].state = "queued" /\ Requeued(j)[j].spec = jobs[j].spec
<1>. DEFINE job == [jobs[j] EXCEPT !.state = "queued", !.worker = Nobody]
            u == [jobs EXCEPT ![j] = job]
<1>1. Requeued(j) = u
  BY DEF TableInv, IsList, Requeued
<1>2. IsList(u) /\ DOMAIN u = DOMAIN jobs
      /\ \A i \in DOMAIN jobs : u[i] = IF i = j THEN job ELSE jobs[i]
  <2>. HIDE DEF job
  <2>. QED  BY ReplaceFacts DEF TableInv
<1>3. JobShape(jobs[j])
  BY DEF TableInv
<1>4. JobShape(job) /\ job.state = "queued" /\ job.spec = jobs[j].spec
  BY <1>3 DEF JobShape
<1>. HIDE DEF u, job
<1>5. TableInv(u)
  BY <1>2, <1>4 DEF TableInv
<1>. QED  BY <1>1, <1>2, <1>4, <1>5

\* A result is kept if its run completed; else the job goes back to the queue.
LEMMA SettledFacts ==
  ASSUME TableInv(jobs), NEW w \in Workers, NEW j \in DOMAIN jobs, Leased(w, j),
         NEW result \in Execute(jobs[j].spec.kind, jobs[j].spec.tile)
  PROVE  /\ TableInv(Settled(j, result)) /\ DOMAIN Settled(j, result) = DOMAIN jobs
         /\ \A i \in DOMAIN jobs : i # j => Settled(j, result)[i] = jobs[i]
         /\ Settled(j, result)[j].state = "completed" <=> result.status = "completed"
         /\ result.status = "completed" => Settled(j, result)[j].worker = w
         /\ Settled(j, result)[j].spec = jobs[j].spec
<1>1. jobs[j].state = "leased" /\ jobs[j].worker = w /\ JobShape(jobs[j])
  BY DEF Leased, TableInv
<1>2. CASE result.status # "completed"
  <2>1. Settled(j, result) = Requeued(j)
    BY <1>2 DEF Settled
  <2>. QED  BY <1>1, <1>2, <2>1, RequeuedFacts
<1>3. CASE result.status = "completed"
  <2>. DEFINE job == [jobs[j] EXCEPT !.state = "completed", !.result = result]
              u == [jobs EXCEPT ![j] = job]
  <2>1. Settled(j, result) = u
    BY <1>3 DEF TableInv, IsList, Settled, Completed
  <2>2. IsList(u) /\ DOMAIN u = DOMAIN jobs
        /\ \A i \in DOMAIN jobs : u[i] = IF i = j THEN job ELSE jobs[i]
    <3>. HIDE DEF job
    <3>. QED  BY ReplaceFacts DEF TableInv
  <2>3. /\ job.spec = jobs[j].spec /\ job.state = "completed" /\ job.worker = w /\ job.result = result
        /\ DOMAIN job = {"spec", "state", "worker", "result"}
    BY <1>1 DEF JobShape
  <2>4. result # NoResult /\ (result.whole \/ UsesPool(job.spec.kind, job.spec.tile))
    BY <1>3, <2>3, ExecuteFacts
  <2>. HIDE DEF job
  <2>5. JobShape(job)
    BY <1>1, <2>3, <2>4 DEF JobShape
  <2>. HIDE DEF u
  <2>6. TableInv(u)
    BY <2>2, <2>5 DEF TableInv
  <2>. QED  BY <1>3, <2>1, <2>2, <2>3, <2>6
<1>. QED  BY <1>2, <1>3

\* A worker that is told to drop what it holds.
LEMMA HeldFacts ==
  ASSUME NEW r, NEW t, HeldInv(r, t), NEW w \in Workers
  PROVE  /\ HeldInv([r EXCEPT ![w] = Idle], t)
         /\ \A v \in Workers : [r EXCEPT ![w] = Idle][v].stage = "running" =>
               [r EXCEPT ![w] = Idle][v] = r[v]
BY DEF HeldInv, Idle, Stages, Free

\* A crash drops every assignment that was not answered.
LEMMA CutFacts ==
  ASSUME NEW r, NEW t, HeldInv(r, t)
  PROVE  /\ HeldInv(Cut(r), t)
         /\ \A v \in Workers : Cut(r)[v].stage = "running" => Cut(r)[v] = r[v]
BY DEF HeldInv, Cut, Idle, Stages, Free

-----------------------------------------------------------------------------
(* The actions. *)

\* The launch counts its tiles and weighs them.
LEMMA LaunchSteps ==
  ASSUME IInv, CountTiles \/ WeighTiles
  PROVE  Kept'
<1>1. LaunchInv /\ Kept
  BY DEF IInv, Kept
<1>2. UNCHANGED <<request, jobs, running, crashes, log, damaged>>
  BY DEF CountTiles, WeighTiles, auditVars
<1>3. LaunchInv'
  <2>1. CASE CountTiles
    <3>1. PICK fleet \in Fleets : n' = ResolveTileCount(fleet, request)
      BY <2>1 DEF CountTiles
    <3>2. n' \in 1..MaxTiles /\ MaxTiles \in Nat
      BY <1>1, <3>1, ResolveFacts, WorkloadAssumption DEF LaunchInv
    <3>3. weights' = << >> /\ Len(weights') = 0 /\ phase' = "counted"
      BY <1>1, <2>1 DEF CountTiles, LaunchInv, NoWeights
    <3>. QED  BY <1>1, <1>2, <3>2, <3>3 DEF LaunchInv
  <2>2. CASE WeighTiles
    <3>1. PICK fleet \in Fleets : weights' = TileWeights(fleet, n)
      BY <2>2 DEF WeighTiles
    <3>2. n \in Nat /\ n' = n /\ phase' = "submitting"
      BY <1>1, <2>2, WorkloadAssumption DEF LaunchInv, WeighTiles
    <3>3. Len(weights') \in {0, n}
      BY <3>1, <3>2, WeightsFacts
    <3>. QED  BY <1>1, <1>2, <3>2, <3>3 DEF LaunchInv
  <2>. QED  BY <2>1, <2>2
<1>. QED  BY <1>1, <1>2, <1>3 DEF Kept

\* A tile is submitted, and logged.
LEMMA SubmitStep ==
  ASSUME IInv, SubmitTile
  PROVE  Kept'
<1>. DEFINE t2 == Append(jobs, Queued(Head(specs)))
<1>1. LaunchInv /\ TableInv(jobs) /\ HeldInv(running, jobs) /\ crashes \in Nat
      /\ Story(log, damaged, jobs, running, crashes)
  BY DEF IInv, Kept
<1>2. /\ phase = "submitting" /\ jobs' = t2
      /\ UNCHANGED <<request, n, weights, running, crashes, log, damaged>>
  BY DEF SubmitTile, auditVars
<1>3. LaunchInv'
  BY <1>1, <1>2 DEF LaunchInv, SubmitTile
<1>4. /\ IsList(t2) /\ DOMAIN jobs \subseteq DOMAIN t2
      /\ \A i \in DOMAIN jobs : t2[i] = jobs[i]
      /\ \A i \in DOMAIN t2 : i \in DOMAIN jobs \/ t2[i] = Queued(Head(specs))
  <2>. DEFINE q == Queued(Head(specs))
  <2>. HIDE DEF q
  <2>1. IsList(jobs)
    BY <1>1 DEF TableInv
  <2>2. /\ IsList(Append(jobs, q)) /\ Len(jobs) \in Nat /\ DOMAIN jobs = 1..Len(jobs)
        /\ DOMAIN Append(jobs, q) = 1..(Len(jobs) + 1) /\ Append(jobs, q)[Len(jobs) + 1] = q
        /\ \A i \in DOMAIN jobs : Append(jobs, q)[i] = jobs[i]
    BY <2>1, AppendFacts
  <2>3. /\ DOMAIN jobs \subseteq DOMAIN Append(jobs, q)
        /\ \A i \in DOMAIN Append(jobs, q) : i \in DOMAIN jobs \/ Append(jobs, q)[i] = q
    BY <2>2
  <2>. QED  BY <2>2, <2>3 DEF q
<1>. HIDE DEF t2
<1>5. TableInv(t2)
  BY <1>1, <1>4, QueuedFacts DEF TableInv
<1>6. HeldInv(running, t2)
  BY <1>1, <1>4 DEF HeldInv
<1>7. Story(log, damaged, t2, running, crashes)
  <2>1. \A i \in DOMAIN t2 : t2[i].state = "completed" => i \in DOMAIN jobs /\ t2[i] = jobs[i]
    BY <1>4, QueuedFacts
  <2>. QED  BY <1>1, <1>4, <2>1, StoryTable
<1>. QED  BY <1>1, <1>2, <1>3, <1>5, <1>6, <1>7 DEF Kept

\* The submission is logged.
LEMMA LogSubmittedStep ==
  ASSUME IInv, LogSubmitted
  PROVE  Kept'
<1>1. LaunchInv /\ TableInv(jobs) /\ HeldInv(running, jobs) /\ crashes \in Nat /\ LogKept
      /\ Story(log, damaged, jobs, running, crashes)
  BY DEF IInv, Kept
<1>2. /\ UNCHANGED <<request, n, weights, jobs, running, crashes>> /\ phase' = "submitting"
      /\ phase = "submitted" /\ LogOf("submitted", Nobody, Len(jobs))
  BY DEF LogSubmitted
<1>3. LaunchInv'
  BY <1>1, <1>2 DEF LaunchInv
<1>4. PICK row : log' = Append(log, row) /\ row.event = Event("submitted", Nobody, Len(jobs))
  BY <1>1, <1>2, LogOfFacts
<1>5. IsList(log) /\ damaged' = damaged
  BY <1>1, <1>2, LogOfFacts
<1>6. row.event.type \notin Finishing
  BY <1>4, EventFacts DEF Finishing
<1>7. Story(log', damaged', jobs, running, crashes)
  BY <1>1, <1>4, <1>5, <1>6, StoryEmit
<1>. QED  BY <1>1, <1>2, <1>3, <1>7 DEF Kept

\* The assignment is logged, and only then answered.
LEMMA LogAssignedStep ==
  ASSUME IInv, NEW w \in Workers, LogAssigned(w)
  PROVE  Kept'
<1>. DEFINE r2 == [running EXCEPT ![w].stage = "running"]
            j == running[w].job
<1>1. LaunchInv /\ TableInv(jobs) /\ HeldInv(running, jobs) /\ crashes \in Nat /\ LogKept
      /\ Story(log, damaged, jobs, running, crashes)
  BY DEF IInv, Kept
<1>2. /\ UNCHANGED <<request, phase, n, weights, jobs, crashes>> /\ running' = r2
      /\ LogOf("assigned", w, j)
  BY DEF LogAssigned, launchVars
<1>3. LaunchInv'
  BY <1>1, <1>2 DEF LaunchInv
<1>4. /\ HeldInv(r2, jobs) /\ r2[w].job = j
      /\ \A v \in Workers : v # w => r2[v] = running[v]
  <2>1. running[w] \in [stage : Stages, job : {Free} \cup DOMAIN jobs]
    BY <1>1 DEF HeldInv
  <2>2. r2 = [running EXCEPT ![w] = [running[w] EXCEPT !.stage = "running"]]
    OBVIOUS
  <2>3. [running[w] EXCEPT !.stage = "running"] \in [stage : Stages, job : {Free} \cup DOMAIN jobs]
        /\ [running[w] EXCEPT !.stage = "running"].job = j
    BY <2>1 DEF Stages
  <2>. QED  BY <1>1, <2>2, <2>3 DEF HeldInv
<1>. HIDE DEF r2, j
<1>5. PICK row : log' = Append(log, row) /\ row.event = Event("assigned", w, j)
  BY <1>1, <1>2, LogOfFacts
<1>6. IsList(log) /\ damaged' = damaged
  BY <1>1, <1>2, LogOfFacts
<1>7. row.event.type \notin Finishing
  BY <1>5, EventFacts DEF Finishing
<1>8. Story(log', damaged', jobs, running, crashes)
  BY <1>1, <1>5, <1>6, <1>7, StoryEmit
<1>9. In(log', Event("assigned", w, j))
  BY <1>5, <1>6, AppendedEvent
<1>10. Story(log', damaged', jobs, r2, crashes)
  <2>1. \A v \in Workers : r2[v] = running[v] \/ In(log', Event("assigned", v, r2[v].job))
    BY <1>4, <1>9
  <2>. QED  BY <1>8, <2>1, StoryTable
<1>. QED  BY <1>1, <1>2, <1>3, <1>4, <1>10 DEF Kept

\* A worker leases a queued job.
LEMMA LeaseStep ==
  ASSUME IInv, NEW w \in Workers, NEW j \in DOMAIN jobs, Lease(w, j)
  PROVE  Kept'
<1>. DEFINE t2 == Assignment(j, w)
            r2 == [running EXCEPT ![w] = [stage |-> "assigned", job |-> j]]
<1>1. LaunchInv /\ TableInv(jobs) /\ HeldInv(running, jobs) /\ crashes \in Nat
      /\ Story(log, damaged, jobs, running, crashes)
  BY DEF IInv, Kept
<1>2. /\ UNCHANGED <<request, phase, n, weights, crashes, log, damaged>>
      /\ jobs' = t2 /\ running' = r2 /\ jobs[j].state = "queued"
  BY <1>1 DEF Lease, launchVars, auditVars, TableInv, IsList, Assignment, LeasedTo
<1>3. LaunchInv'
  BY <1>1, <1>2 DEF LaunchInv
<1>4. /\ TableInv(t2) /\ DOMAIN t2 = DOMAIN jobs /\ t2[j].state = "leased"
      /\ \A i \in DOMAIN jobs : i # j => t2[i] = jobs[i]
  BY <1>1, <1>2, LeaseFacts
<1>5. /\ HeldInv(r2, jobs)
      /\ \A v \in Workers : r2[v].stage = "running" => r2[v] = running[v]
  BY <1>1 DEF HeldInv, Stages
<1>. HIDE DEF t2, r2
<1>6. HeldInv(r2, t2)
  BY <1>4, <1>5 DEF HeldInv
<1>7. Story(log, damaged, t2, r2, crashes)
  <2>1. /\ \A i \in DOMAIN jobs : jobs[i].state = "completed" => t2[i] = jobs[i]
        /\ \A i \in DOMAIN t2 : t2[i].state = "completed" => t2[i] = jobs[i]
    BY <1>2, <1>4
  <2>. QED  BY <1>1, <1>4, <1>5, <2>1, StoryTable
<1>. QED  BY <1>1, <1>2, <1>3, <1>4, <1>6, <1>7 DEF Kept, t2

\* A lease runs out: the job is queued again, its worker goes on with it.
LEMMA ExpireStep ==
  ASSUME IInv, NEW j \in DOMAIN jobs, Expire(j)
  PROVE  Kept'
<1>1. LaunchInv /\ TableInv(jobs) /\ HeldInv(running, jobs) /\ crashes \in Nat
      /\ Story(log, damaged, jobs, running, crashes)
  BY DEF IInv, Kept
<1>2. /\ UNCHANGED <<request, phase, n, weights, running, crashes, log, damaged>>
      /\ jobs' = Requeued(j) /\ jobs[j].state = "leased"
  BY DEF Expire, Requeued, launchVars, auditVars
<1>3. LaunchInv'
  BY <1>1, <1>2 DEF LaunchInv
<1>. DEFINE t2 == Requeued(j)
<1>4. /\ TableInv(t2) /\ DOMAIN t2 = DOMAIN jobs /\ t2[j].state = "queued"
      /\ \A i \in DOMAIN jobs : i # j => t2[i] = jobs[i]
  BY <1>1, <1>2, RequeuedFacts
<1>. HIDE DEF t2
<1>5. HeldInv(running, t2)
  BY <1>1, <1>4 DEF HeldInv
<1>6. Story(log, damaged, t2, running, crashes)
  <2>1. /\ \A i \in DOMAIN jobs : jobs[i].state = "completed" => t2[i] = jobs[i]
        /\ \A i \in DOMAIN t2 : t2[i].state = "completed" => t2[i] = jobs[i]
    BY <1>2, <1>4
  <2>. QED  BY <1>1, <1>4, <2>1, StoryTable
<1>. QED  BY <1>1, <1>2, <1>3, <1>4, <1>5, <1>6 DEF Kept, t2

\* A result of a lease that stands settles its job and is logged.
LEMMA AcceptStep ==
  ASSUME IInv, NEW w \in Workers, NEW j \in DOMAIN jobs, Accept(w, j)
  PROVE  Kept'
<1>1. LaunchInv /\ TableInv(jobs) /\ HeldInv(running, jobs) /\ crashes \in Nat /\ LogKept
      /\ Story(log, damaged, jobs, running, crashes)
  BY DEF IInv, Kept
<1>2. PICK result \in Execute(jobs[j].spec.kind, jobs[j].spec.tile) :
        jobs' = Settled(j, result) /\ LogOf(result.status, w, j)
  BY DEF Accept
<1>. DEFINE t2 == Settled(j, result)
            r2 == [running EXCEPT ![w] = Idle]
<1>3. /\ UNCHANGED <<request, phase, n, weights, crashes>> /\ running' = r2 /\ Leased(w, j)
      /\ running[w].stage = "running" /\ running[w].job = j
  BY DEF Accept, Reports, launchVars
<1>4. LaunchInv'
  BY <1>1, <1>3 DEF LaunchInv
<1>5. /\ TableInv(t2) /\ DOMAIN t2 = DOMAIN jobs
      /\ \A i \in DOMAIN jobs : i # j => t2[i] = jobs[i]
      /\ t2[j].state = "completed" <=> result.status = "completed"
      /\ result.status = "completed" => t2[j].worker = w
  BY <1>1, <1>3, SettledFacts
<1>6. /\ HeldInv(r2, jobs)
      /\ \A v \in Workers : r2[v].stage = "running" => r2[v] = running[v]
  BY <1>1, HeldFacts
<1>7. PICK row : log' = Append(log, row) /\ row.event = Event(result.status, w, j)
  BY <1>1, <1>2, LogOfFacts
<1>8. IsList(log) /\ damaged' = damaged /\ result.status \in Finishing /\ jobs[j].state = "leased"
  BY <1>1, <1>2, <1>3, LogOfFacts, ExecuteFacts DEF Leased
<1>. HIDE DEF t2, r2
<1>9. HeldInv(r2, t2)
  BY <1>5, <1>6 DEF HeldInv
<1>10. Story(log', damaged', t2, r2, crashes)
  BY <1>1, <1>3, <1>5, <1>6, <1>7, <1>8, StoryFinish
<1>. QED  BY <1>1, <1>2, <1>3, <1>4, <1>5, <1>9, <1>10 DEF Kept, t2

\* A result that came too late.
LEMMA DiscardStep ==
  ASSUME IInv, NEW w \in Workers, NEW j \in DOMAIN jobs, Discard(w, j)
  PROVE  Kept'
<1>1. LaunchInv /\ TableInv(jobs) /\ HeldInv(running, jobs) /\ crashes \in Nat
      /\ Story(log, damaged, jobs, running, crashes)
  BY DEF IInv, Kept
<1>. DEFINE r2 == [running EXCEPT ![w] = Idle]
<1>2. UNCHANGED <<request, phase, n, weights, jobs, crashes, log, damaged>> /\ running' = r2
  BY DEF Discard, launchVars, auditVars
<1>3. LaunchInv'
  BY <1>1, <1>2 DEF LaunchInv
<1>4. /\ HeldInv(r2, jobs)
      /\ \A v \in Workers : r2[v].stage = "running" => r2[v] = running[v]
  BY <1>1, HeldFacts
<1>. HIDE DEF r2
<1>5. Story(log, damaged, jobs, r2, crashes)
  BY <1>1, <1>4, StoryTable
<1>. QED  BY <1>1, <1>2, <1>3, <1>4, <1>5 DEF Kept

\* The launch is cut off by a crash, or was done.
LEMMA LaunchCutFacts ==
  ASSUME LaunchInv, phase' = LaunchCut, UNCHANGED <<request, n, weights>>
  PROVE  LaunchInv'
BY DEF LaunchInv, LaunchCut

\* A crash between two steps.
LEMMA CrashStep ==
  ASSUME IInv, Crash
  PROVE  Kept'
<1>1. LaunchInv /\ TableInv(jobs) /\ HeldInv(running, jobs) /\ crashes \in Nat
      /\ Story(log, damaged, jobs, running, crashes)
  BY DEF IInv, Kept
<1>. DEFINE r2 == Cut(running)
<1>2. /\ UNCHANGED <<request, n, weights, jobs, log, damaged>> /\ running' = r2
      /\ phase' = LaunchCut /\ crashes' = crashes + 1
  BY DEF Crash, auditVars
<1>3. LaunchInv'
  BY <1>1, <1>2, LaunchCutFacts
<1>4. /\ HeldInv(r2, jobs)
      /\ \A v \in Workers : r2[v].stage = "running" => r2[v] = running[v]
  BY <1>1, CutFacts
<1>5. crashes' \in Nat /\ crashes' # 0
  BY <1>1, <1>2
<1>. HIDE DEF r2
<1>6. Story(log, damaged, jobs, r2, crashes')
  BY <1>1, <1>4, <1>5, StoryTable
<1>. QED  BY <1>1, <1>2, <1>3, <1>4, <1>5, <1>6 DEF Kept

\* A crash between a result's commit and its event.
LEMMA CrashInResultStep ==
  ASSUME IInv, NEW w \in Workers, NEW j \in DOMAIN jobs, CrashInResult(w, j)
  PROVE  Kept'
<1>1. LaunchInv /\ TableInv(jobs) /\ HeldInv(running, jobs) /\ crashes \in Nat
      /\ Story(log, damaged, jobs, running, crashes)
  BY DEF IInv, Kept
<1>2. PICK result \in Execute(jobs[j].spec.kind, jobs[j].spec.tile) : jobs' = Settled(j, result)
  BY DEF CrashInResult
<1>. DEFINE t2 == Settled(j, result)
            r1 == [running EXCEPT ![w] = Idle]
            r2 == Cut(r1)
<1>3. /\ UNCHANGED <<request, n, weights, log, damaged>> /\ running' = r2 /\ Leased(w, j)
      /\ phase' = LaunchCut /\ crashes' = crashes + 1
  BY DEF CrashInResult, auditVars
<1>4. LaunchInv'
  BY <1>1, <1>3, LaunchCutFacts
<1>5. /\ TableInv(t2) /\ DOMAIN t2 = DOMAIN jobs
      /\ \A i \in DOMAIN jobs : i # j => t2[i] = jobs[i]
  BY <1>1, <1>3, SettledFacts
<1>6. /\ HeldInv(r1, jobs)
      /\ \A v \in Workers : r1[v].stage = "running" => r1[v] = running[v]
  BY <1>1, HeldFacts
<1>7. /\ HeldInv(r2, jobs)
      /\ \A v \in Workers : r2[v].stage = "running" => r2[v] = running[v]
  <2>. HIDE DEF r1
  <2>1. /\ HeldInv(r2, jobs)
        /\ \A v \in Workers : r2[v].stage = "running" => r2[v] = r1[v]
    BY <1>6, CutFacts
  <2>. QED  BY <1>6, <2>1
<1>8. crashes' \in Nat /\ crashes' # 0 /\ jobs[j].state = "leased"
  BY <1>1, <1>3 DEF Leased
<1>. HIDE DEF t2, r1, r2
<1>9. HeldInv(r2, t2)
  BY <1>5, <1>7 DEF HeldInv
<1>10. Story(log, damaged, t2, r2, crashes')
  <2>1. \A i \in DOMAIN jobs : jobs[i].state = "completed" => t2[i] = jobs[i]
    BY <1>5, <1>8
  <2>. QED  BY <1>1, <1>5, <1>7, <1>8, <2>1, StoryTable
<1>. QED  BY <1>1, <1>2, <1>3, <1>4, <1>5, <1>8, <1>9, <1>10 DEF Kept, t2

\* A hand on the log: what it says need not hold any more.
LEMMA TamperStep ==
  ASSUME IInv, Tamper
  PROVE  Kept'
<1>1. UNCHANGED <<request, phase, n, weights, jobs, running, crashes>> /\ Damage
  BY DEF Tamper, launchVars
<1>2. DOMAIN log = 1..Len(log) /\ Len(log) \in Nat
  BY DEF IInv, LogKept, AuditInv
<1>3. damaged' # 0
  BY <1>1, <1>2 DEF Damage, Edit, DeleteRow
<1>4. Story(log, damaged, jobs, running, crashes)'
  BY <1>3 DEF Story
<1>. QED  BY <1>1, <1>4 DEF IInv, Kept, LaunchInv

-----------------------------------------------------------------------------
(* The log of a workload is a log. *)

\* Whatever a handler, a worker or a crash does, it does to the log what _emit does, or nothing.
LEMMA StepLogs ==
  ASSUME IInv, [Next]_vars
  PROVE  [AuditNext(EventTypes, Loggers, Nat)]_auditVars
<1>. DEFINE LogStep == \/ \E t \in EventTypes, w \in Loggers, j \in Nat : Emit(Event(t, w, j))
                       \/ Damage
                       \/ UNCHANGED auditVars
<1>1. IsList(jobs) /\ HeldInv(running, jobs)
  BY DEF IInv, Kept, TableInv
<1>2. Len(jobs) \in Nat /\ DOMAIN jobs = 1..Len(jobs)
  BY <1>1, AppendFacts
<1>3. LogSubmitted => LogStep
  BY <1>2 DEF LogSubmitted, LogOf, EventTypes, Loggers
<1>4. ASSUME NEW w \in Workers, LogAssigned(w) PROVE LogStep
  <2>1. running[w].job \in Nat
    BY <1>1, <1>2 DEF HeldInv, Free
  <2>. QED  BY <1>4, <2>1 DEF LogAssigned, LogOf, EventTypes, Loggers
<1>5. ASSUME NEW w \in Workers, NEW j \in DOMAIN jobs, Accept(w, j) PROVE LogStep
  <2>1. PICK result \in Execute(jobs[j].spec.kind, jobs[j].spec.tile) : LogOf(result.status, w, j)
    BY <1>5 DEF Accept
  <2>2. result.status \in EventTypes /\ j \in Nat /\ w \in Loggers
    BY <1>2, ExecuteFacts DEF Finishing, EventTypes, Loggers
  <2>. QED  BY <2>1, <2>2 DEF LogOf
<1>6. Tamper => LogStep
  BY DEF Tamper
<1>7. ASSUME NEW w \in Workers, NEW j \in DOMAIN jobs, Lease(w, j) \/ Discard(w, j)
      PROVE LogStep
  BY <1>7 DEF Lease, Discard
<1>8. ASSUME NEW w \in Workers, NEW j \in DOMAIN jobs, CrashInResult(w, j) PROVE LogStep
  BY <1>8 DEF CrashInResult
<1>9. ASSUME NEW j \in DOMAIN jobs, Expire(j) PROVE LogStep
  BY <1>9 DEF Expire
<1>10. CountTiles \/ WeighTiles \/ SubmitTile \/ Crash => LogStep
  BY DEF CountTiles, WeighTiles, SubmitTile, Crash
<1>11. UNCHANGED vars => LogStep
  BY DEF vars, auditVars
<1>12. LogStep
  <2>. HIDE DEF LogStep
  <2>. QED  BY <1>3, <1>4, <1>5, <1>6, <1>7, <1>8, <1>9, <1>10, <1>11 DEF Next
<1>. QED  BY <1>12 DEF AuditNext

\* A log starts without an event of a worker's.
LEMMA InitInv == Init => IInv
<1>. SUFFICES ASSUME Init PROVE IInv
  OBVIOUS
<1>1. AuditInit /\ jobs = << >> /\ running = [w \in Workers |-> Idle] /\ crashes = 0
      /\ request \in Requests /\ phase = "called" /\ n = 0 /\ weights = << >>
  BY DEF Init, NoWeights
<1>2. AuditInv(EventTypes, Loggers, Nat)
  BY <1>1, AuditInvInit
<1>3. damaged = 0 /\ Len(log) \in Nat
  BY <1>1, <1>2 DEF AuditInit, AuditInv
<1>4. LaunchInv
  BY <1>1, WorkloadAssumption DEF LaunchInv, NoWeights
<1>5. TableInv(jobs) /\ HeldInv(running, jobs)
  BY <1>1 DEF TableInv, IsList, HeldInv, Idle, Stages, Free
<1>6. \A i \in DOMAIN log : log[i].event.type = "old"
  BY <1>1 DEF AuditInit, LegacyRow, Row, Event
<1>7. Run(log, running) /\ Assigned(log) /\ Told(log, jobs) /\ AllTold(log, jobs)
  BY <1>1, <1>6 DEF Run, Assigned, Told, AllTold, Idle, Finishing
<1>. QED  BY <1>1, <1>2, <1>3, <1>4, <1>5, <1>7 DEF IInv, Kept, LogKept, Story

\* Every step keeps the invariant.
LEMMA StepInv == IInv /\ [Next]_vars => IInv'
<1>. SUFFICES ASSUME IInv, [Next]_vars PROVE IInv'
  OBVIOUS
<1>1. {"edited", "null"} \cap EventTypes = {}
  BY DEF EventTypes
<1>2. LogKept'
  BY <1>1, StepLogs, AuditStep, DamagedStep DEF IInv, LogKept
<1>3. UNCHANGED vars => Kept'
  BY DEF IInv, Kept, LaunchInv, TableInv, HeldInv, Story, vars
<1>4. Next => Kept'
  <2>. SUFFICES ASSUME Next PROVE Kept'
    OBVIOUS
  <2>1. CASE CountTiles \/ WeighTiles \/ SubmitTile \/ LogSubmitted \/ Crash \/ Tamper
    BY <2>1, LaunchSteps, SubmitStep, LogSubmittedStep, CrashStep, TamperStep
  <2>2. CASE \E w \in Workers : LogAssigned(w)
    BY <2>2, LogAssignedStep
  <2>3. CASE \E w \in Workers, j \in DOMAIN jobs :
               Lease(w, j) \/ Accept(w, j) \/ Discard(w, j) \/ CrashInResult(w, j)
    BY <2>3, LeaseStep, AcceptStep, DiscardStep, CrashInResultStep
  <2>4. CASE \E j \in DOMAIN jobs : Expire(j)
    BY <2>4, ExpireStep
  <2>. QED  BY <2>1, <2>2, <2>3, <2>4 DEF Next
<1>5. Kept'
  BY <1>3, <1>4 DEF IInv
<1>. QED  BY <1>2, <1>5 DEF IInv

\* The invariant holds throughout.
LEMMA Invariance == Spec => []IInv
BY InitInv, StepInv, PTL DEF Spec

-----------------------------------------------------------------------------
(* What is submitted is what was built. *)

\* What is left to submit, after the rows of table t, of the jobs b.
Remaining(t, rest, b) ==
  /\ IsList(rest) /\ IsList(b) /\ Len(t) + Len(rest) = Len(b)
  /\ \A i \in DOMAIN t : t[i].spec = b[i]
  /\ \A i \in DOMAIN rest : rest[i] = b[Len(t) + i]

\* The split is one, nothing is submitted before there is a tile, and what was and what is to be
\* submitted, or would have been but for a crash, are the jobs that were built.
Planned ==
  /\ Splittable(weights, n)
  /\ phase \in {"called", "counted"} => weights = NoWeights /\ jobs = << >>
  /\ phase \in {"counted", "submitting", "submitted"} => n # 0
  /\ Built \/ jobs # << >> => n # 0 /\ Remaining(jobs, specs, Build(request, n, weights))

\* The jobs submitted and those left are the jobs built.
LEMMA RemainingIsAll ==
  ASSUME NEW t, IsList(t), NEW rest, NEW b, Remaining(t, rest, b)
  PROVE  [i \in DOMAIN t |-> t[i].spec] \o rest = b
<1>1. IsList(rest) /\ IsList(b)
  BY DEF Remaining
<1>2. PICK p, q, m \in Nat : /\ p = Len(t) /\ q = Len(rest) /\ m = Len(b)
                             /\ DOMAIN t = 1..p /\ DOMAIN rest = 1..q /\ DOMAIN b = 1..m
  BY <1>1, AppendFacts
<1>3. /\ p + q = m /\ \A i \in 1..p : t[i].spec = b[i]
      /\ \A i \in 1..q : rest[i] = b[p + i]
  BY <1>2 DEF Remaining
<1>4. PICK done : done = [i \in 1..p |-> t[i].spec]
  OBVIOUS
<1>5. PICK S : b \in Seq(S) /\ rest \in Seq(S) /\ done \in Seq(S)
  <2>1. PICK B, R : b \in Seq(B) /\ rest \in Seq(R)
    BY <1>1 DEF IsList
  <2>2. PICK S : S = B \cup R \cup {t[i].spec : i \in 1..p}
    OBVIOUS
  <2>3. b \in Seq(S) /\ rest \in Seq(S)
    BY <2>1, <2>2
  <2>4. done \in [1..p -> S]
    BY <1>4, <2>2
  <2>5. done \in Seq(S)
    BY <2>4
  <2>. QED  BY <2>3, <2>5
<1>6. PICK all : all = done \o rest
  OBVIOUS
<1>7. Len(done) = p /\ DOMAIN done = 1..p
  BY <1>4
<1>8. /\ all \in Seq(S) /\ Len(all) = p + q
      /\ \A i \in 1..p : all[i] = done[i]
      /\ \A i \in (p + 1)..(p + q) : all[i] = rest[i - p]
  <2>1. /\ done \o rest \in Seq(S) /\ Len(done \o rest) = Len(done) + Len(rest)
        /\ \A i \in 1..(Len(done) + Len(rest)) :
             (done \o rest)[i] = IF i <= Len(done) THEN done[i] ELSE rest[i - Len(done)]
    BY <1>5
  <2>2. /\ all \in Seq(S) /\ Len(all) = p + q
        /\ \A i \in 1..(p + q) : all[i] = IF i <= p THEN done[i] ELSE rest[i - p]
    BY <1>2, <1>6, <1>7, <2>1
  <2>3. \A i \in 1..p : i \in 1..(p + q) /\ i <= p
    OBVIOUS
  <2>4. \A i \in (p + 1)..(p + q) : i \in 1..(p + q) /\ ~ (i <= p)
    OBVIOUS
  <2>. QED  BY <2>2, <2>3, <2>4
<1>9. ASSUME NEW i \in 1..m PROVE all[i] = b[i]
  <2>1. CASE i \in 1..p
    BY <1>3, <1>4, <1>8, <2>1
  <2>2. CASE i \notin 1..p
    <3>1. i \in (p + 1)..(p + q) /\ i - p \in 1..q /\ p + (i - p) = i
      BY <1>3, <2>2
    <3>2. all[i] = rest[i - p] /\ rest[i - p] = b[p + (i - p)]
      BY <1>3, <1>8, <3>1
    <3>. QED  BY <3>1, <3>2
  <2>. QED  BY <2>1, <2>2
<1>10. all = b
  <2>1. all \in [1..m -> S] /\ b \in [1..m -> S]
    <3>1. \A x \in Seq(S) : x \in [1..Len(x) -> S]
      OBVIOUS
    <3>2. all \in [1..Len(all) -> S] /\ b \in [1..Len(b) -> S]
      BY <1>5, <1>8, <3>1
    <3>. QED  BY <1>2, <1>3, <1>8, <3>2
  <2>. QED  BY <1>9, <2>1
<1>. QED  BY <1>2, <1>4, <1>6, <1>10

\* At first all are left.
LEMMA RemainingStarts ==
  ASSUME NEW b, IsList(b)
  PROVE  Remaining(<< >>, b, b)
<1>1. Len(b) \in Nat /\ DOMAIN b = 1..Len(b)
  BY AppendFacts
<1>2. Len(<< >>) = 0 /\ DOMAIN << >> = {}
  OBVIOUS
<1>. QED  BY <1>1, <1>2 DEF Remaining

\* The first of those left becomes the last of the table.
LEMMA RemainingShrinks ==
  ASSUME NEW t, IsList(t), NEW rest, rest # << >>, NEW b, Remaining(t, rest, b),
         NEW row, row.spec = Head(rest)
  PROVE  Remaining(Append(t, row), Tail(rest), b)
<1>1. IsList(rest) /\ IsList(b)
  BY DEF Remaining
<1>2. PICK p, q, m \in Nat : /\ p = Len(t) /\ q = Len(rest) /\ m = Len(b)
                             /\ DOMAIN t = 1..p /\ DOMAIN rest = 1..q /\ DOMAIN b = 1..m
  BY <1>1, AppendFacts
<1>3. PICK t2 : t2 = Append(t, row)
  OBVIOUS
<1>4. /\ Len(t2) = p + 1 /\ DOMAIN t2 = 1..(p + 1) /\ t2[p + 1] = row
      /\ \A i \in 1..p : t2[i] = t[i]
  BY <1>2, <1>3, AppendFacts
<1>5. PICK rest2 : rest2 = Tail(rest)
  OBVIOUS
<1>6. /\ q # 0 /\ IsList(rest2) /\ Len(rest2) = q - 1 /\ DOMAIN rest2 = 1..(q - 1)
      /\ Head(rest) = rest[1] /\ \A i \in 1..(q - 1) : rest2[i] = rest[i + 1]
  <2>1. PICK S : rest \in Seq(S)
    BY <1>1 DEF IsList
  <2>2. rest2 \in Seq(S)
    BY <1>5, <2>1
  <2>3. q # 0
    BY <1>2, <2>1
  <2>. QED  BY <1>2, <1>5, <2>1, <2>2, <2>3 DEF IsList
<1>7. /\ p + q = m /\ \A i \in 1..p : t[i].spec = b[i]
      /\ \A i \in 1..q : rest[i] = b[p + i]
  BY <1>2 DEF Remaining
<1>8. (p + 1) + (q - 1) = m
  BY <1>2, <1>7
<1>9. ASSUME NEW i \in 1..(p + 1) PROVE t2[i].spec = b[i]
  <2>1. CASE i = p + 1
    <3>1. rest[1] = b[p + 1]
      BY <1>2, <1>6, <1>7
    <3>. QED  BY <1>4, <1>6, <2>1, <3>1
  <2>2. CASE i # p + 1
    <3>1. i \in 1..p
      BY <2>2
    <3>. QED  BY <1>4, <1>7, <3>1
  <2>. QED  BY <2>1, <2>2
<1>10. ASSUME NEW i \in 1..(q - 1) PROVE rest2[i] = b[(p + 1) + i]
  <2>1. i + 1 \in 1..q /\ p + (i + 1) = (p + 1) + i
    BY <1>6
  <2>2. rest[i + 1] = b[p + (i + 1)]
    BY <1>7, <2>1
  <2>. QED  BY <1>6, <2>1, <2>2
<1>11. Remaining(t2, rest2, b)
  BY <1>1, <1>2, <1>4, <1>6, <1>8, <1>9, <1>10 DEF Remaining
<1>. QED  BY <1>3, <1>5, <1>11

\* Nothing else is said of the rows.
LEMMA RemainingStays ==
  ASSUME NEW t, IsList(t), NEW t2, IsList(t2), DOMAIN t2 = DOMAIN t,
         \A i \in DOMAIN t : t2[i].spec = t[i].spec, NEW rest, NEW b, Remaining(t, rest, b)
  PROVE  Remaining(t2, rest, b)
<1>1. Len(t2) = Len(t)
  <2>1. Len(t) \in Nat /\ Len(t2) \in Nat /\ 1..Len(t) = 1..Len(t2)
    BY AppendFacts
  <2>. QED  BY <2>1
<1>. QED  BY <1>1 DEF Remaining

\* The launch keeps its plan.
LEMMA InitPlanned == Init => Planned
BY DEF Init, Planned, Splittable, NoWeights, Built

LEMMA StepPlanned ==
  ASSUME IInv, Planned, [Next]_vars
  PROVE  Planned'
<1>1. LaunchInv /\ TableInv(jobs) /\ IsList(jobs) /\ n \in Nat /\ request \in Requests
  <2>1. MaxTiles \in Nat
    BY WorkloadAssumption
  <2>. QED  BY <2>1 DEF IInv, Kept, TableInv, LaunchInv
<1>2. CASE UNCHANGED vars
  BY <1>2 DEF Planned, vars, Built
<1>3. CASE CountTiles
  <2>1. PICK fleet \in Fleets : n' = ResolveTileCount(fleet, request)
    BY <1>3 DEF CountTiles
  <2>2. n' \in 1..MaxTiles /\ n' # 0
    BY <1>1, <2>1, ResolveFacts
  <2>3. /\ phase = "called" /\ phase' = "counted" /\ weights' = weights /\ jobs' = jobs
    BY <1>3 DEF CountTiles
  <2>. QED  BY <2>2, <2>3 DEF Planned, Splittable, Built
<1>4. CASE WeighTiles
  <2>1. PICK fleet \in Fleets : weights' = TileWeights(fleet, n)
    BY <1>4 DEF WeighTiles
  <2>2. /\ phase = "counted" /\ phase' = "submitting" /\ n' = n /\ jobs' = jobs /\ request' = request
        /\ specs' = Build(request, n, weights')
    BY <1>4 DEF WeighTiles
  <2>3. Splittable(weights', n) /\ n # 0 /\ jobs = << >>
    BY <1>1, <2>1, <2>2, WeightsFacts DEF Planned
  <2>4. PICK b : b = Build(request, n, weights')
    OBVIOUS
  <2>5. Sound(b)
    BY <1>1, <2>3, <2>4, BuildFacts
  <2>6. Remaining(<< >>, b, b)
    BY <2>5, RemainingStarts DEF Sound
  <2>. QED  BY <2>2, <2>3, <2>4, <2>6 DEF Planned, Built
<1>5. CASE SubmitTile
  <2>1. /\ phase = "submitting" /\ phase' = "submitted" /\ specs # << >>
        /\ jobs' = Append(jobs, Queued(Head(specs))) /\ specs' = Tail(specs)
        /\ UNCHANGED <<request, n, weights>>
    BY <1>5 DEF SubmitTile
  <2>2. PICK b : b = Build(request, n, weights)
    OBVIOUS
  <2>3. Remaining(jobs, specs, b)
    BY <2>1, <2>2 DEF Planned, Built
  <2>4. Queued(Head(specs)).spec = Head(specs)
    BY DEF Queued
  <2>5. Remaining(jobs', specs', b)
    BY <1>1, <2>1, <2>3, <2>4, RemainingShrinks
  <2>. QED  BY <2>1, <2>2, <2>5 DEF Planned, Built
<1>6. CASE LogSubmitted
  BY <1>6 DEF LogSubmitted, Planned, Built
<1>7. CASE \/ \E w \in Workers : LogAssigned(w)
           \/ \E w \in Workers, j \in DOMAIN jobs : Discard(w, j)
           \/ Tamper
  <2>1. UNCHANGED <<launchVars, jobs>>
    BY <1>7 DEF LogAssigned, Discard, Tamper
  <2>. QED  BY <2>1 DEF launchVars, Planned, Built
<1>8. ASSUME /\ IsList(jobs') /\ DOMAIN jobs' = DOMAIN jobs
             /\ \A i \in DOMAIN jobs : jobs'[i].spec = jobs[i].spec
             /\ UNCHANGED <<request, n, weights, specs>>
             /\ phase' = phase \/ (phase' = "lost")
      PROVE  Planned'
  <2>1. jobs = << >> => jobs' = << >>
    <3>. SUFFICES ASSUME jobs = << >> PROVE jobs' = << >>
      OBVIOUS
    <3>1. PICK S : jobs' \in Seq(S)
      BY <1>8 DEF IsList
    <3>2. DOMAIN jobs' = {}
      BY <1>8
    <3>. QED  BY <3>1, <3>2
  <2>2. Built' \/ jobs' # << >> => n # 0 /\ Remaining(jobs', specs', Build(request, n, weights))
    <3>1. Built' \/ jobs' # << >> => Built \/ jobs # << >>
      BY <1>8, <2>1 DEF Built
    <3>2. Built \/ jobs # << >> => n # 0 /\ Remaining(jobs', specs, Build(request, n, weights))
      BY <1>1, <1>8, RemainingStays DEF Planned
    <3>. QED  BY <1>8, <3>1, <3>2
  <2>. QED  BY <1>8, <2>1, <2>2 DEF Planned
<1>9. ASSUME NEW w \in Workers, NEW j \in DOMAIN jobs, Lease(w, j) PROVE Planned'
  <2>1. /\ jobs' = Assignment(j, w) /\ jobs[j].state = "queued" /\ UNCHANGED launchVars
    BY <1>1, <1>9 DEF Lease, TableInv, IsList, Assignment, LeasedTo
  <2>2. /\ TableInv(jobs') /\ DOMAIN jobs' = DOMAIN jobs
        /\ \A i \in DOMAIN jobs : jobs'[i].spec = jobs[i].spec
    BY <1>1, <2>1, LeaseFacts
  <2>. QED  BY <1>8, <2>1, <2>2 DEF launchVars, TableInv
<1>10. ASSUME NEW j \in DOMAIN jobs, Expire(j) PROVE Planned'
  <2>1. jobs' = Requeued(j) /\ jobs[j].state = "leased" /\ UNCHANGED launchVars
    BY <1>10 DEF Expire, Requeued
  <2>2. /\ TableInv(jobs') /\ DOMAIN jobs' = DOMAIN jobs
        /\ \A i \in DOMAIN jobs : jobs'[i].spec = jobs[i].spec
    BY <1>1, <2>1, RequeuedFacts
  <2>. QED  BY <1>8, <2>1, <2>2 DEF launchVars, TableInv
<1>11. ASSUME NEW w \in Workers, NEW j \in DOMAIN jobs, Accept(w, j) \/ CrashInResult(w, j)
       PROVE  Planned'
  <2>1. PICK result \in Execute(jobs[j].spec.kind, jobs[j].spec.tile) : jobs' = Settled(j, result)
    BY <1>11 DEF Accept, CrashInResult
  <2>2. Leased(w, j)
    BY <1>11 DEF Accept, CrashInResult
  <2>3. /\ TableInv(jobs') /\ DOMAIN jobs' = DOMAIN jobs
        /\ \A i \in DOMAIN jobs : jobs'[i].spec = jobs[i].spec
    BY <1>1, <2>1, <2>2, SettledFacts
  <2>4. UNCHANGED <<request, n, weights, specs>> /\ (phase' = phase \/ phase' = "lost")
    BY <1>11 DEF Accept, CrashInResult, launchVars, LaunchCut
  <2>. QED  BY <1>8, <2>3, <2>4 DEF TableInv
<1>12. CASE Crash
  <2>1. UNCHANGED <<request, n, weights, specs, jobs>> /\ (phase' = phase \/ phase' = "lost")
    BY <1>12 DEF Crash, LaunchCut
  <2>. QED  BY <1>1, <1>8, <2>1
<1>. QED
  <2>1. CASE Next
    <3>. HIDE <1>8
    <3>. QED  BY <1>3, <1>4, <1>5, <1>6, <1>7, <1>9, <1>10, <1>11, <1>12, <2>1 DEF Next
  <2>. QED  BY <1>2, <2>1

LEMMA PlannedInvariance == Spec => []Planned
<1>1. IInv /\ Planned /\ [Next]_vars => Planned'
  BY StepPlanned
<1>. QED  BY <1>1, InitPlanned, Invariance, PTL DEF Spec

\* The jobs submitted and the jobs left are those that were built.
LEMMA SpecsAreBuilt ==
  ASSUME IInv, Planned, Built
  PROVE  /\ request \in Requests /\ n \in Nat \ {0} /\ Splittable(weights, n)
         /\ Specs = Build(request, n, weights)
<1>1. request \in Requests /\ n \in Nat \ {0} /\ Splittable(weights, n) /\ IsList(jobs)
  <2>1. MaxTiles \in Nat
    BY WorkloadAssumption
  <2>. QED  BY <2>1 DEF IInv, Kept, TableInv, LaunchInv, Planned, Built
<1>2. PICK b : b = Build(request, n, weights)
  OBVIOUS
<1>3. Remaining(jobs, specs, b)
  BY <1>2 DEF Planned
<1>4. Specs = b
  BY <1>1, <1>3, RemainingIsAll DEF Specs
<1>. QED  BY <1>1, <1>2, <1>4

\* A weighted split, as the code promises it.
Fair(total, k, w, sizes, counts) ==
  /\ Total(sizes) = total /\ Total(counts) = total
  /\ \A i \in 1..k : /\ sizes[i] * Total(w) < total * w[i] + Total(w)
                     /\ sizes[i] * Total(w) > total * w[i] - Total(w)
  /\ \A i, j \in 1..k : w[i] > w[j] => sizes[i] >= sizes[j] /\ counts[i] >= counts[j] - 1
  /\ total >= k => \A i \in 1..k : counts[i] > 0

LEMMA SplitIsFair ==
  ASSUME NEW total \in Nat, NEW k \in Nat, NEW w \in [1..k -> Nat], Total(w) > 0
  PROVE  Fair(total, k, w, WeightedSizes(total, w), WeightedPartition(total, w))
<1>1. PICK sizes, counts : sizes = WeightedSizes(total, w) /\ counts = WeightedPartition(total, w)
  OBVIOUS
<1>2. /\ Total(sizes) = total
      /\ \A i \in 1..k : /\ sizes[i] * Total(w) < total * w[i] + Total(w)
                         /\ sizes[i] * Total(w) > total * w[i] - Total(w)
      /\ \A i, j \in 1..k : w[i] > w[j] => sizes[i] >= sizes[j]
  BY <1>1, SharesAreFair
<1>3. w \in Seq(Nat) /\ Len(w) = k
  OBVIOUS
<1>4. /\ Total(counts) = total
      /\ \A i, j \in 1..k : sizes[i] >= sizes[j] => counts[i] >= counts[j] - 1
      /\ total >= k => \A i \in 1..k : counts[i] > 0
  <2>1. PICK D : D = 1..Len(w)
    OBVIOUS
  <2>2. /\ counts \in [D -> Nat] /\ Total(counts) = total
        /\ \A i, j \in D : sizes[i] >= sizes[j] => counts[i] >= counts[j] - 1
        /\ total >= Len(w) => \A i \in D : counts[i] > 0
    BY <1>1, <1>3, <2>1, PartitionFacts
  <2>. QED  BY <1>3, <2>1, <2>2
<1>. QED  BY <1>1, <1>2, <1>4 DEF Fair

-----------------------------------------------------------------------------
(* What tiles and chunks take apart. *)

\* The items of a tile or a chunk.
Span(x) == x.from..(x.to - 1)

\* So many ranges, none of them empty, that take the items of S apart.
Dissected(parts, q, S) ==
  /\ q \in Nat /\ DOMAIN parts = 1..q
  /\ \A i \in 1..q : parts[i].from \in Int /\ parts[i].to \in Int /\ parts[i].from < parts[i].to
  /\ \A i, j \in 1..q : i # j => Span(parts[i]) \cap Span(parts[j]) = {}
  /\ UNION {Span(parts[i]) : i \in 1..q} = S

\* The sizes of the parts add up to the size of the whole.
LEMMA DissectedCount ==
  ASSUME NEW parts, NEW q, NEW S, Dissected(parts, q, S)
  PROVE  /\ IsFiniteSet(S) /\ Cardinality(S) \in Nat
         /\ [i \in 1..q |-> Size(parts[i])] \in [1..q -> Int]
         /\ Total([i \in 1..q |-> Size(parts[i])]) = Cardinality(S)
<1>1. PICK f : f = [i \in 1..q |-> Size(parts[i])]
  OBVIOUS
<1>2. PICK s : s = [i \in 1..q |-> Span(parts[i])]
  OBVIOUS
<1>3. q \in Nat /\ IsFiniteSet(1..q)
  BY UpTo DEF Dissected
<1>4. ASSUME NEW i \in 1..q
      PROVE f[i] \in Int /\ IsFiniteSet(s[i]) /\ f[i] = Cardinality(s[i])
  <2>1. PICK a, b \in Int : a = parts[i].from /\ b = parts[i].to /\ a < b
    BY DEF Dissected
  <2>2. s[i] = a..(b - 1) /\ f[i] = b - a
    BY <1>1, <1>2, <2>1 DEF Span, Size
  <2>3. PICK d \in Int : d = b - 1 /\ ~ (a > d) /\ d - a + 1 = b - a
    BY <2>1
  <2>4. IsFiniteSet(a..d) /\ Cardinality(a..d) = d - a + 1
    BY <2>3, FS_Interval
  <2>. QED  BY <2>2, <2>3, <2>4
<1>5. f \in [1..q -> Int]
  BY <1>1, <1>4
<1>6. Separate(s, 1..q)
  BY <1>2 DEF Separate, Dissected
<1>7. IsFiniteSet(UNION {s[i] : i \in 1..q}) /\ Total(f) = Cardinality(UNION {s[i] : i \in 1..q})
  BY <1>3, <1>4, <1>5, <1>6, SumOfSizes
<1>8. UNION {s[i] : i \in 1..q} = S
  BY <1>2 DEF Dissected
<1>9. Cardinality(S) \in Nat
  BY <1>7, <1>8, FS_CardinalityType
<1>. QED  BY <1>1, <1>5, <1>7, <1>8, <1>9

\* In whichever order they come.
LEMMA DissectedShuffled ==
  ASSUME NEW parts, NEW q, NEW S, Dissected(parts, q, S),
         NEW o \in [1..q -> 1..q], \A i, j \in 1..q : o[i] = o[j] => i = j,
         NEW all, DOMAIN all = 1..q, \A i \in 1..q : all[i] = parts[o[i]]
  PROVE  Dissected(all, q, S)
<1>2. q \in Nat /\ IsFiniteSet(1..q) /\ Cardinality(1..q) = q
  BY UpTo DEF Dissected
<1>3. \A j \in 1..q : \E i \in 1..q : o[i] = j
  <2>1. o \in Injection(1..q, 1..q)
    BY Fun_IsInj
  <2>2. o \in Surjection(1..q, 1..q)
    BY <1>2, <2>1, FS_Injection
  <2>. QED  BY <2>2 DEF Surjection
<1>4. \A i \in 1..q : o[i] \in 1..q /\ all[i] = parts[o[i]]
  OBVIOUS
<1>5. \A i \in 1..q : all[i].from \in Int /\ all[i].to \in Int /\ all[i].from < all[i].to
  BY <1>4 DEF Dissected
<1>6. ASSUME NEW i \in 1..q, NEW j \in 1..q, i # j PROVE Span(all[i]) \cap Span(all[j]) = {}
  <2>1. o[i] # o[j] /\ o[i] \in 1..q /\ o[j] \in 1..q
    BY <1>6
  <2>2. \A k, l \in 1..q : k # l => Span(parts[k]) \cap Span(parts[l]) = {}
    BY DEF Dissected
  <2>3. Span(parts[o[i]]) \cap Span(parts[o[j]]) = {}
    BY ONLY <2>1, <2>2
  <2>. QED  BY <1>4, <2>3
<1>7. UNION {Span(all[i]) : i \in 1..q} = UNION {Span(parts[i]) : i \in 1..q}
  BY <1>3, <1>4, SMTT(30)
<1>8. UNION {Span(all[i]) : i \in 1..q} = S
  BY <1>7 DEF Dissected
<1>. QED  BY <1>2, <1>5, <1>6, <1>8 DEF Dissected

\* A tile that is not empty has as many items as its size says.
LEMMA SpanSize ==
  ASSUME NEW x, x.from \in Int, x.to \in Int, x.from < x.to
  PROVE  /\ IsFiniteSet(Span(x)) /\ Cardinality(Span(x)) = Size(x) /\ Size(x) \in Nat \ {0}
         /\ Numbers(Span(x)) /\ Span(x) # {}
<1>1. PICK a, b \in Int : a = x.from /\ b = x.to /\ a < b
  OBVIOUS
<1>2. PICK d \in Int : d = b - 1 /\ ~ (a > d) /\ d - a + 1 = b - a
  BY <1>1
<1>3. IsFiniteSet(a..d) /\ Cardinality(a..d) = d - a + 1
  BY <1>2, FS_Interval
<1>4. Span(x) = a..d /\ Size(x) = b - a
  BY <1>1, <1>2 DEF Span, Size
<1>5. b - a \in Nat \ {0} /\ a \in a..d /\ \A i \in a..d : i \in Int
  BY <1>1, <1>2
<1>. QED  BY <1>2, <1>3, <1>4, <1>5 DEF Numbers

\* A tile is cut into one chunk at least.
LEMMA NumChunksFacts ==
  ASSUME NEW kind, NEW size \in Nat
  PROVE  NumChunks(kind, size) \in Nat \ {0}
<1>1. Cores \in Nat \ {0} /\ ChunkSize \in Nat \ {0} /\ MaxChunks \in Nat
  BY PoolAssumption
<1>2. PICK many : many = IF kind = "montecarlo" THEN (size + ChunkSize - 1) \div ChunkSize
                         ELSE size \div ChunkSize + 1
  OBVIOUS
<1>3. many \in Nat
  <2>1. PICK up \in Nat : up = size + ChunkSize - 1
    BY <1>1
  <2>2. up \div ChunkSize \in Nat /\ size \div ChunkSize \in Nat
    BY <1>1, Division
  <2>. QED  BY <1>2, <2>1, <2>2
<1>4. PICK few \in Nat : few = IF many < MaxChunks THEN many ELSE MaxChunks
  BY <1>1, <1>3
<1>5. NumChunks(kind, size) = IF Cores > few THEN Cores ELSE few
  BY <1>2, <1>4 DEF NumChunks
<1>. QED  BY <1>1, <1>4, <1>5

\* The chunks of a tile take it apart.
LEMMA ChunksDissect ==
  ASSUME NEW kind, NEW tile, tile.from \in Int, tile.to \in Int, tile.from <= tile.to
  PROVE  \E q \in Nat : Dissected(Chunks(kind, tile), q, Span(tile)) /\ Len(Chunks(kind, tile)) = q
<1>1. PICK a \in Int, size \in Nat : a = tile.from /\ size = Size(tile) /\ tile.to - 1 = a + size - 1
  BY DEF Size
<1>2. PICK m \in Nat \ {0} : m = NumChunks(kind, size)
  BY NumChunksFacts
<1>3. PICK ranges : ranges = EvenRanges(size, m)
  OBVIOUS
<1>4. PICK c : /\ Borders(c, m, size)
               /\ \A i \in 1..m : ranges[i][1] = c[i - 1] /\ ranges[i][2] = c[i]
  <2>1. Bordered(ranges, m, size)
    BY <1>3, EvenBorders
  <2>. QED  BY <2>1 DEF Bordered
<1>5. DOMAIN ranges = 1..m
  BY <1>3 DEF EvenRanges
<1>6. PICK kept : kept = {i \in 1..m : ranges[i][1] < ranges[i][2]}
  OBVIOUS
<1>7. PICK chunks : /\ chunks = Chunks(kind, tile)
                    /\ chunks = [i \in kept |-> [number |-> i - 1, from |-> a + ranges[i][1],
                                                 to |-> a + ranges[i][2]]]
  BY <1>1, <1>2, <1>3, <1>5, <1>6 DEF Chunks
<1>8. \A i \in 0..m : c[i] \in Nat
  BY <1>4 DEF Borders
<1>9. ASSUME NEW i \in 1..m, NEW j \in kept, i < j PROVE i \in kept
  <2>1. PICK size_i, size_j : size_i = ranges[i][2] - ranges[i][1] /\ size_j = ranges[j][2] - ranges[j][1]
    OBVIOUS
  <2>2. size_i \in {size_j, size_j + 1}
    <3>1. LET even == EvenRanges(size, m)
              count(k) == even[k][2] - even[k][1]
          IN \A k, l \in 1..m : k < l => count(k) \in {count(l), count(l) + 1}
      BY EvenRangesCover
    <3>. QED  BY <1>3, <1>6, <1>9, <2>1, <3>1
  <2>3. PICK x1, x2, y1, y2 \in Nat : /\ x1 = ranges[i][1] /\ x2 = ranges[i][2]
                                      /\ y1 = ranges[j][1] /\ y2 = ranges[j][2]
    <3>1. i - 1 \in 0..m /\ i \in 0..m /\ j \in 1..m /\ j - 1 \in 0..m /\ j \in 0..m
      BY <1>6
    <3>. QED  BY <1>4, <1>8, <3>1
  <2>4. y1 < y2
    BY <1>6, <2>3
  <2>5. x1 < x2
    BY <2>1, <2>2, <2>3, <2>4
  <2>. QED  BY <1>6, <2>3, <2>5
<1>10. PICK q \in Nat : kept = 1..q
  <2>1. CASE kept = {}
    <3>1. 1..0 = {}
      OBVIOUS
    <3>. QED  BY <2>1, <3>1
  <2>2. CASE kept # {}
    <3>1. IsFiniteSet(kept) /\ Numbers(kept)
      BY <1>6, UpTo, FS_Subset DEF Numbers
    <3>2. PICK top : top = Max(kept) /\ top \in kept /\ \A i \in kept : i <= top
      BY <2>2, <3>1, Extremes
    <3>3. top \in 1..m /\ \A i \in kept : i \in 1..m
      BY <1>6, <3>2
    <3>4. ASSUME NEW i \in 1..top PROVE i \in kept
      <4>1. i \in 1..m /\ (i = top \/ i < top)
        BY <3>3
      <4>. QED  BY <1>9, <3>2, <4>1
    <3>5. kept = 1..top
      <4>1. \A i \in kept : i \in 1..top
        BY <3>2, <3>3
      <4>. QED  BY <3>4, <4>1
    <3>. QED  BY <3>3, <3>5
  <2>. QED  BY <2>1, <2>2
<1>11. \A i \in 1..q : i \in 1..m /\ i \in 0..m /\ i - 1 \in 0..m
  BY <1>6, <1>10
<1>12. ASSUME NEW i \in 1..q
       PROVE  /\ chunks[i].from = a + c[i - 1] /\ chunks[i].to = a + c[i] /\ c[i - 1] < c[i]
              /\ chunks[i].from \in Int /\ chunks[i].to \in Int
              /\ c[i - 1] \in Nat /\ c[i] \in Nat
              /\ Span(chunks[i]) = (a + c[i - 1])..((a + c[i]) - 1)
  <2>1. i \in kept /\ i \in 1..m /\ i \in 0..m /\ i - 1 \in 0..m
    BY <1>10, <1>11
  <2>2. ranges[i][1] = c[i - 1] /\ ranges[i][2] = c[i] /\ ranges[i][1] < ranges[i][2]
    BY <1>4, <1>6, <2>1
  <2>3. chunks[i].from = a + ranges[i][1] /\ chunks[i].to = a + ranges[i][2]
    BY <1>7, <2>1
  <2>4. chunks[i].from = a + c[i - 1] /\ chunks[i].to = a + c[i]
    BY <2>2, <2>3
  <2>5. Span(chunks[i]) = (a + c[i - 1])..((a + c[i]) - 1)
    BY <2>4, Zenon DEF Span
  <2>6. c[i - 1] \in Nat /\ c[i] \in Nat
    BY <1>8, <2>1
  <2>. QED  BY <2>2, <2>4, <2>5, <2>6
<1>13. \A i \in 1..q : chunks[i].from < chunks[i].to
  <2>. SUFFICES ASSUME NEW i \in 1..q PROVE chunks[i].from < chunks[i].to
    OBVIOUS
  <2>1. PICK x, y \in Nat : x = c[i - 1] /\ y = c[i] /\ x < y
    BY <1>12
  <2>. QED  BY <1>12, <2>1
<1>14. /\ \A i, j \in 0..m : i <= j => c[i] <= c[j]
       /\ \A x \in 0..(size - 1) : \E i \in 1..m : c[i - 1] <= x /\ x < c[i]
  BY <1>4, BordersRise
<1>15. ASSUME NEW i \in 1..q, NEW j \in 1..q, i < j PROVE Span(chunks[i]) \cap Span(chunks[j]) = {}
  <2>1. i \in 0..m /\ j - 1 \in 0..m /\ i <= j - 1
    BY <1>11, <1>15
  <2>2. PICK x, y \in Nat : x = c[i] /\ y = c[j - 1] /\ x <= y
    BY <1>8, <1>14, <2>1
  <2>3. PICK u, v \in Nat : u = c[i - 1] /\ v = c[j]
    BY <1>12
  <2>4. Span(chunks[i]) = (a + u)..((a + x) - 1) /\ Span(chunks[j]) = (a + y)..((a + v) - 1)
    BY <1>12, <2>2, <2>3
  <2>5. ASSUME NEW e \in (a + u)..((a + x) - 1), e \in (a + y)..((a + v) - 1) PROVE FALSE
    BY <2>2, <2>5
  <2>. QED  BY <2>4, <2>5
<1>16. ASSUME NEW x \in Span(tile) PROVE \E i \in 1..q : x \in Span(chunks[i])
  <2>1. x \in Int /\ x - a \in 0..(size - 1)
    BY <1>1 DEF Span
  <2>2. PICK i \in 1..m : c[i - 1] <= x - a /\ x - a < c[i]
    BY <1>14, <2>1
  <2>3. i - 1 \in 0..m /\ i \in 0..m
    OBVIOUS
  <2>4. PICK u, v \in Nat : u = c[i - 1] /\ v = c[i] /\ u <= x - a /\ x - a < v
    BY <1>8, <2>2, <2>3
  <2>5. i \in 1..q
    <3>1. ranges[i][1] = u /\ ranges[i][2] = v /\ u < v
      BY <1>4, <2>1, <2>4
    <3>. QED  BY <1>6, <1>10, <3>1
  <2>6. x \in (a + u)..(a + v - 1)
    BY <2>1, <2>4
  <2>7. Span(chunks[i]) = (a + u)..(a + v - 1)
    BY <1>12, <2>4, <2>5
  <2>. QED  BY <2>5, <2>6, <2>7
<1>17. ASSUME NEW i \in 1..q, NEW x \in Span(chunks[i]) PROVE x \in Span(tile)
  <2>1. i \in 0..m /\ m \in 0..m /\ i <= m
    BY <1>11
  <2>2. c[m] = size
    BY <1>4 DEF Borders
  <2>3. PICK u, v \in Nat : u = c[i - 1] /\ v = c[i] /\ v <= size
    BY <1>12, <1>14, <2>1, <2>2
  <2>4. Span(chunks[i]) = (a + u)..((a + v) - 1)
    BY <1>12, <2>3
  <2>5. Span(tile) = a..(a + size - 1)
    BY <1>1 DEF Span
  <2>6. x \in (a + u)..((a + v) - 1)
    BY <1>17, <2>4
  <2>7. a \in Int /\ size \in Int
    BY <1>1
  <2>8. x \in a..(a + size - 1)
    BY ONLY <2>3, <2>6, <2>7
  <2>. QED  BY <2>5, <2>8
<1>18. UNION {Span(chunks[i]) : i \in 1..q} = Span(tile)
  BY <1>16, <1>17
<1>19. DOMAIN chunks = 1..q
  BY <1>7, <1>10
<1>20. \A i, j \in 1..q : i # j => Span(chunks[i]) \cap Span(chunks[j]) = {}
  <2>. SUFFICES ASSUME NEW i \in 1..q, NEW j \in 1..q, i # j
                PROVE  Span(chunks[i]) \cap Span(chunks[j]) = {}
    OBVIOUS
  <2>1. i < j \/ j < i
    OBVIOUS
  <2>. QED  BY <1>15, <2>1
<1>21. Dissected(chunks, q, Span(tile))
  BY <1>12, <1>13, <1>18, <1>19, <1>20 DEF Dissected
<1>22. Len(chunks) = q
  <2>1. PICK R : R = {chunks[i] : i \in 1..q}
    OBVIOUS
  <2>2. chunks \in [1..q -> R]
    BY <1>7, <1>10, <2>1
  <2>. QED  BY <2>2
<1>. QED  BY <1>7, <1>21, <1>22

-----------------------------------------------------------------------------
(* The best of candidates. *)

\* Candidates that are numbers and have a score.
Scored(S) == IsFiniteSet(S) /\ \A i \in S : i \in Int /\ Score[i] \in Int

\* The best of them, and of the best the first.
Winner(S) == {i \in S : \A k \in S : Score[k] < Score[i] \/ (Score[k] = Score[i] /\ i <= k)}

\* Some candidates have exactly one best.
LEMMA OneWinner ==
  ASSUME NEW S, Scored(S), S # {}
  PROVE  \E i \in S : Winner(S) = {i}
<1>1. \A i \in S : i \in Int /\ Score[i] \in Int
  BY DEF Scored
<1>2. PICK v : v = [i \in S |-> Score[i]]
  OBVIOUS
<1>3. v \in [S -> Int] /\ IsFiniteSet(S) /\ Numbers(S)
  BY <1>1, <1>2 DEF Scored, Numbers
<1>4. PICK i \in S : \A k \in S : v[k] < v[i] \/ (v[k] = v[i] /\ i <= k)
  BY <1>3, FirstLargest
<1>5. i \in Winner(S)
  BY <1>2, <1>4 DEF Winner
<1>6. ASSUME NEW j \in Winner(S) PROVE j = i
  <2>1. j \in S /\ (Score[i] < Score[j] \/ (Score[i] = Score[j] /\ j <= i))
    BY DEF Winner
  <2>2. Score[j] < Score[i] \/ (Score[j] = Score[i] /\ i <= j)
    BY <1>5, <2>1 DEF Winner
  <2>. QED  BY <1>1, <2>1, <2>2
<1>. QED  BY <1>5, <1>6

\* What a winner is, and that nothing else is one.
LEMMA WinnerIs ==
  ASSUME NEW S, Scored(S), NEW i \in S,
         \A k \in S : Score[k] < Score[i] \/ (Score[k] = Score[i] /\ i <= k)
  PROVE  Winner(S) = {i}
<1>1. i \in Winner(S)
  BY DEF Winner
<1>2. PICK j \in S : Winner(S) = {j}
  BY OneWinner
<1>. QED  BY <1>1, <1>2

\* A later candidate wins if its score is larger.
LEMMA WinnerAdds ==
  ASSUME NEW S, Scored(S), NEW x \in Int, Score[x] \in Int, \A k \in S : k < x
  PROVE  Scored(S \cup {x}) /\ Better(Winner(S), x) = Winner(S \cup {x})
<1>1. Scored(S \cup {x})
  BY FS_AddElement DEF Scored
<1>2. CASE S = {}
  <2>1. Winner(S) = {} /\ Winner(S \cup {x}) = {x}
    <3>1. Winner(S \cup {x}) = {x}
      BY <1>1, <1>2, WinnerIs
    <3>. QED  BY <1>2, <3>1 DEF Winner
  <2>. QED  BY <1>1, <2>1 DEF Better
<1>3. CASE S # {}
  <2>1. PICK i \in S : Winner(S) = {i}
    BY <1>3, OneWinner
  <2>2. \A k \in S : Score[k] < Score[i] \/ (Score[k] = Score[i] /\ i <= k)
    BY <2>1 DEF Winner
  <2>3. \A k \in S : k \in Int /\ Score[k] \in Int /\ k < x
    BY DEF Scored
  <2>4. CASE Score[x] > Score[i]
    <3>1. Better({i}, x) = {x}
      BY <2>4 DEF Better
    <3>2. \A k \in S \cup {x} : Score[k] < Score[x] \/ (Score[k] = Score[x] /\ x <= k)
      BY <2>2, <2>3, <2>4
    <3>3. Winner(S \cup {x}) = {x}
      BY <1>1, <3>2, WinnerIs
    <3>. QED  BY <1>1, <2>1, <3>1, <3>3
  <2>5. CASE ~ (Score[x] > Score[i])
    <3>1. Better({i}, x) = {i}
      BY <2>5 DEF Better
    <3>2. \A k \in S \cup {x} : Score[k] < Score[i] \/ (Score[k] = Score[i] /\ i <= k)
      BY <2>2, <2>3, <2>5
    <3>3. Winner(S \cup {x}) = {i}
      BY <1>1, <3>2, WinnerIs
    <3>. QED  BY <1>1, <2>1, <3>1, <3>3
  <2>. QED  BY <2>4, <2>5
<1>. QED  BY <1>2, <1>3

\* Two tiles' winners leave the winner of both, in whichever order they are merged.
LEMMA WinnerMerges ==
  ASSUME NEW S, Scored(S), NEW T, Scored(T), T # {}
  PROVE  Scored(S \cup T) /\ BetterTile(Winner(S), Winner(T)) = Winner(S \cup T)
<1>1. Scored(S \cup T)
  BY FS_Union DEF Scored
<1>2. PICK j \in T : Winner(T) = {j}
  BY OneWinner
<1>3. CASE S = {}
  <2>1. Winner(S) = {} /\ S \cup T = T
    BY <1>3 DEF Winner
  <2>. QED  BY <1>1, <1>2, <2>1 DEF BetterTile
<1>4. CASE S # {}
  <2>1. PICK i \in S : Winner(S) = {i}
    BY <1>4, OneWinner
  <2>2. /\ \A k \in S : Score[k] < Score[i] \/ (Score[k] = Score[i] /\ i <= k)
        /\ \A k \in T : Score[k] < Score[j] \/ (Score[k] = Score[j] /\ j <= k)
    BY <1>2, <2>1 DEF Winner
  <2>3. \A k \in S \cup T : k \in Int /\ Score[k] \in Int
    BY <1>1 DEF Scored
  <2>. DEFINE wins == Score[j] > Score[i] \/ (Score[j] = Score[i] /\ j < i)
  <2>4. BetterTile({i}, {j}) = IF wins THEN {j} ELSE {i}
    BY DEF BetterTile
  <2>5. CASE wins
    <3>1. \A k \in S \cup T : Score[k] < Score[j] \/ (Score[k] = Score[j] /\ j <= k)
      BY <2>2, <2>3, <2>5
    <3>2. Winner(S \cup T) = {j}
      BY <1>1, <3>1, WinnerIs
    <3>. QED  BY <1>1, <1>2, <2>1, <2>4, <2>5, <3>2
  <2>6. CASE ~wins
    <3>1. \A k \in S \cup T : Score[k] < Score[i] \/ (Score[k] = Score[i] /\ i <= k)
      BY <2>2, <2>3, <2>6
    <3>2. Winner(S \cup T) = {i}
      BY <1>1, <3>1, WinnerIs
    <3>. QED  BY <1>1, <1>2, <2>1, <2>4, <2>6, <3>2
  <2>. QED  BY <2>5, <2>6
<1>. QED  BY <1>3, <1>4

\* What the fold over a tile's candidates computes on the subsets of their places.
Folded(g, s) ==
  g = [T \in SUBSET DOMAIN s |->
         IF T = {} THEN {} ELSE LET x == Max(T) IN Better(g[T \ {x}], s[x])]

\* What the fold over the tiles' winners does.
TilesFolded(g, s) ==
  g = [T \in SUBSET DOMAIN s |->
         IF T = {} THEN {} ELSE LET x == Max(T) IN BetterTile(g[T \ {x}], s[x].best)]

\* The fold over candidates is the one so described.
LEMMA FoldIsFolded ==
  ASSUME NEW s
  PROVE  FoldLeft(Better, {}, s) = (CHOOSE g : Folded(g, s))[DOMAIN s]
BY DEF FoldLeft, MapThenFoldSet, Folded

\* And the one over tiles.
LEMMA FoldIsTilesFolded ==
  ASSUME NEW s
  PROVE  FoldLeft(LAMBDA best, out : BetterTile(best, out.best), {}, s)
           = (CHOOSE g : TilesFolded(g, s))[DOMAIN s]
BY DEF FoldLeft, MapThenFoldSet, TilesFolded

\* A fold over candidates exists.
LEMMA FoldedExists ==
  ASSUME NEW m \in Nat, NEW s \in [1..m -> Int]
  PROVE  \E g : Folded(g, s)
<1>. DEFINE V == SUBSET Int
            op == [p \in (1..m) \X V |-> Better(p[2], s[p[1]])]
<1>1. \A x \in 1..m, v \in V : Better(v, s[x]) \in V
  BY DEF Better
<1>2. op \in [(1..m) \X V -> V] /\ \A x \in 1..m, v \in V : op[<<x, v>>] = Better(v, s[x])
  BY <1>1
<1>3. {} \in V
  OBVIOUS
<1>. HIDE DEF V, op
<1>4. PICK g \in [SUBSET (1..m) -> V] :
        \A T \in SUBSET (1..m) : g[T] = IF T = {} THEN {} ELSE op[<<Max(T), g[T \ {Max(T)}]>>]
  <2>1. op \in [(1..m) \X V -> V]
    BY <1>2
  <2>2. \E g \in [SUBSET (1..m) -> V] : LeftFolding(g, m, {}, op)
    BY <1>3, <2>1, LeftFold
  <2>. QED  BY <2>2 DEF LeftFolding
<1>5. ASSUME NEW T \in SUBSET (1..m), T # {}
      PROVE  g[T] = LET x == Max(T) IN Better(g[T \ {x}], s[x])
  <2>1. IsFiniteSet(T) /\ Numbers(T)
    BY UpTo, FS_Subset DEF Numbers
  <2>2. Max(T) \in T
    BY <1>5, <2>1, Extremes
  <2>3. Max(T) \in 1..m /\ g[T \ {Max(T)}] \in V
    BY <2>2
  <2>. QED  BY <1>2, <1>4, <1>5, <2>3
<1>6. g[{}] = {}
  BY <1>4
<1>7. DOMAIN s = 1..m /\ g = [T \in SUBSET (1..m) |-> g[T]]
  OBVIOUS
<1>8. Folded(g, s)
  BY <1>5, <1>6, <1>7 DEF Folded
<1>. QED  BY <1>8

\* From the first candidate to the last, each is compared with the best so far.
LEMMA Candidates ==
  ASSUME NEW m \in Nat, NEW s \in [1..m -> Int]
  PROVE  \E h : /\ h[0] = {} /\ h[m] = FoldLeft(Better, {}, s)
                /\ \A j \in 1..m : h[j] = Better(h[j - 1], s[j])
<1>1. PICK g : Folded(g, s) /\ FoldLeft(Better, {}, s) = g[DOMAIN s]
  <2>1. PICK g : g = CHOOSE f : Folded(f, s)
    OBVIOUS
  <2>2. Folded(g, s)
    BY <2>1, FoldedExists
  <2>. QED  BY <2>1, <2>2, FoldIsFolded
<1>2. \A T \in SUBSET (1..m) :
        g[T] = IF T = {} THEN {} ELSE LET x == Max(T) IN Better(g[T \ {x}], s[x])
  BY <1>1 DEF Folded
<1>3. PICK h : h = [j \in 0..m |-> g[1..j]]
  OBVIOUS
<1>4. h[0] = {}
  <2>1. 1..0 = {} /\ 1..0 \in SUBSET (1..m) /\ 0 \in 0..m
    OBVIOUS
  <2>. QED  BY <1>2, <1>3, <2>1
<1>5. h[m] = FoldLeft(Better, {}, s)
  BY <1>1, <1>3
<1>6. ASSUME NEW j \in 1..m PROVE h[j] = Better(h[j - 1], s[j])
  <2>1. /\ 1..j \in SUBSET (1..m) /\ 1..j # {} /\ (1..j) \ {j} = 1..(j - 1)
        /\ j \in 0..m /\ j - 1 \in 0..m
    OBVIOUS
  <2>2. Max(1..j) = j
    BY MaxUpTo
  <2>3. g[1..j] = Better(g[1..(j - 1)], s[j])
    BY <1>2, <2>1, <2>2
  <2>. QED  BY <1>3, <2>1, <2>3
<1>. QED  BY <1>4, <1>5, <1>6

\* _optimize: the best candidate of a tile, of equal ones the first, and how many were evaluated.
LEMMA OptimizeFacts ==
  ASSUME NEW tile, tile.from \in Int, tile.to \in Int, tile.from <= tile.to,
         Scored(tile.from..(tile.to - 1))
  PROVE  Optimize(FirstItems(tile, Size(tile)))
           = [best |-> Winner(tile.from..(tile.to - 1)), evaluated |-> Size(tile)]
<1>1. PICK a \in Int, m \in Nat : a = tile.from /\ m = Size(tile) /\ tile.to - 1 = a + m - 1
  BY DEF Size
<1>2. PICK s : s = FirstItems(tile, Size(tile))
  OBVIOUS
<1>3. s \in [1..m -> Int] /\ \A j \in 1..m : s[j] = a + j - 1
  BY <1>1, <1>2 DEF FirstItems
<1>4. PICK h : /\ h[0] = {} /\ h[m] = FoldLeft(Better, {}, s)
               /\ \A j \in 1..m : h[j] = Better(h[j - 1], s[j])
  BY <1>3, Candidates
<1>5. \A k \in a..(a + m - 1) : Score[k] \in Int
  BY <1>1 DEF Scored
<1>. DEFINE So(j) == a..(a + j - 1)
            Q == {j \in 0..m : Scored(So(j)) /\ h[j] = Winner(So(j))}
<1>6. 0 \in Q
  <2>1. So(0) = {}
    OBVIOUS
  <2>2. Scored({}) /\ Winner({}) = {}
    BY FS_EmptySet DEF Scored, Winner
  <2>3. Scored(So(0)) /\ h[0] = Winner(So(0))
    BY <1>4, <2>1, <2>2, Zenon
  <2>. QED  BY <2>3
<1>7. ASSUME NEW j \in 0..(m - 1), j \in Q PROVE j + 1 \in Q
  <2>1. j + 1 \in 1..m /\ (j + 1) - 1 = j /\ s[j + 1] = a + j
    BY <1>3
  <2>2. So(j + 1) = So(j) \cup {a + j} /\ \A k \in So(j) : k < a + j
    OBVIOUS
  <2>3. a + j \in Int /\ Score[a + j] \in Int /\ Scored(So(j)) /\ h[j] = Winner(So(j))
    BY <1>5, <1>7
  <2>4. h[j + 1] = Better(h[j], a + j)
    BY <1>4, <2>1
  <2>. HIDE DEF So
  <2>5. Scored(So(j + 1)) /\ h[j + 1] = Winner(So(j + 1))
    BY <2>2, <2>3, <2>4, WinnerAdds
  <2>. QED  BY <2>1, <2>5
<1>8. m \in Q
  <2>. HIDE DEF Q
  <2>. QED  BY <1>6, <1>7, UpwardInduction
<1>9. FoldLeft(Better, {}, s) = Winner(tile.from..(tile.to - 1))
  BY <1>1, <1>4, <1>8
<1>10. Len(s) = m
  BY <1>3
<1>. QED  BY <1>1, <1>2, <1>9, <1>10 DEF Optimize

\* The same of the tiles.
LEMMA TilesFoldedExists ==
  ASSUME NEW m \in Nat, NEW s, DOMAIN s = 1..m, \A i \in 1..m : s[i].best \in SUBSET Int
  PROVE  \E g : TilesFolded(g, s)
<1>. DEFINE V == SUBSET Int
            op == [p \in (1..m) \X V |-> BetterTile(p[2], s[p[1]].best)]
<1>1. \A x \in 1..m, v \in V : BetterTile(v, s[x].best) \in V
  BY DEF BetterTile
<1>2. op \in [(1..m) \X V -> V] /\ \A x \in 1..m, v \in V : op[<<x, v>>] = BetterTile(v, s[x].best)
  BY <1>1
<1>3. {} \in V
  OBVIOUS
<1>. HIDE DEF V, op
<1>4. PICK g \in [SUBSET (1..m) -> V] :
        \A T \in SUBSET (1..m) : g[T] = IF T = {} THEN {} ELSE op[<<Max(T), g[T \ {Max(T)}]>>]
  <2>1. op \in [(1..m) \X V -> V]
    BY <1>2
  <2>2. \E g \in [SUBSET (1..m) -> V] : LeftFolding(g, m, {}, op)
    BY <1>3, <2>1, LeftFold
  <2>. QED  BY <2>2 DEF LeftFolding
<1>5. ASSUME NEW T \in SUBSET (1..m), T # {}
      PROVE  g[T] = LET x == Max(T) IN BetterTile(g[T \ {x}], s[x].best)
  <2>1. IsFiniteSet(T) /\ Numbers(T)
    BY UpTo, FS_Subset DEF Numbers
  <2>2. Max(T) \in T
    BY <1>5, <2>1, Extremes
  <2>3. Max(T) \in 1..m /\ g[T \ {Max(T)}] \in V
    BY <2>2
  <2>. QED  BY <1>2, <1>4, <1>5, <2>3
<1>6. g[{}] = {}
  BY <1>4
<1>7. DOMAIN s = 1..m /\ g = [T \in SUBSET (1..m) |-> g[T]]
  OBVIOUS
<1>8. TilesFolded(g, s)
  BY <1>5, <1>6, <1>7 DEF TilesFolded
<1>. QED  BY <1>8

\* The best of tiles, tile by tile.
LEMMA Tiles ==
  ASSUME NEW m \in Nat, NEW s, DOMAIN s = 1..m, \A i \in 1..m : s[i].best \in SUBSET Int
  PROVE  \E h : /\ h[0] = {}
                /\ h[m] = FoldLeft(LAMBDA best, out : BetterTile(best, out.best), {}, s)
                /\ \A j \in 1..m : h[j] = BetterTile(h[j - 1], s[j].best)
<1>1. PICK g : /\ TilesFolded(g, s)
               /\ FoldLeft(LAMBDA best, out : BetterTile(best, out.best), {}, s) = g[DOMAIN s]
  <2>1. PICK g : g = CHOOSE f : TilesFolded(f, s)
    OBVIOUS
  <2>2. TilesFolded(g, s)
    BY <2>1, TilesFoldedExists
  <2>. QED  BY <2>1, <2>2, FoldIsTilesFolded
<1>2. \A T \in SUBSET (1..m) :
        g[T] = IF T = {} THEN {} ELSE LET x == Max(T) IN BetterTile(g[T \ {x}], s[x].best)
  BY <1>1 DEF TilesFolded
<1>3. PICK h : h = [j \in 0..m |-> g[1..j]]
  OBVIOUS
<1>4. h[0] = {}
  <2>1. 1..0 = {} /\ 1..0 \in SUBSET (1..m) /\ 0 \in 0..m
    OBVIOUS
  <2>. QED  BY <1>2, <1>3, <2>1
<1>5. h[m] = FoldLeft(LAMBDA best, out : BetterTile(best, out.best), {}, s)
  <2>1. h[m] = g[DOMAIN s]
    BY <1>3
  <2>. QED  BY <1>1, <2>1, Zenon
<1>6. ASSUME NEW j \in 1..m PROVE h[j] = BetterTile(h[j - 1], s[j].best)
  <2>1. /\ 1..j \in SUBSET (1..m) /\ 1..j # {} /\ (1..j) \ {j} = 1..(j - 1)
        /\ j \in 0..m /\ j - 1 \in 0..m
    OBVIOUS
  <2>2. Max(1..j) = j
    BY MaxUpTo
  <2>3. g[1..j] = BetterTile(g[1..(j - 1)], s[j].best)
    BY <1>2, <2>1, <2>2
  <2>. QED  BY <1>3, <2>1, <2>3
<1>. QED  BY <1>4, <1>5, <1>6

\* Tiles' outputs s that name the best of their candidates S, of all in all.
Bests(s, m, S, all) ==
  /\ m \in Nat /\ DOMAIN s = 1..m
  /\ \A i \in 1..m : Scored(S[i]) /\ S[i] # {} /\ s[i].best = Winner(S[i])
  /\ all = UNION {S[i] : i \in 1..m}

\* aggregate_optimize: the winner of the tiles' winners is the winner of all of their candidates.
LEMMA BestOfTiles ==
  ASSUME NEW m, NEW s, NEW S, NEW all, Bests(s, m, S, all)
  PROVE  FoldLeft(LAMBDA best, out : BetterTile(best, out.best), {}, s) = Winner(all)
<1>0. /\ m \in Nat /\ DOMAIN s = 1..m
      /\ \A i \in 1..m : Scored(S[i]) /\ S[i] # {} /\ s[i].best = Winner(S[i])
      /\ all = UNION {S[i] : i \in 1..m}
  BY DEF Bests
<1>1. ASSUME NEW i \in 1..m PROVE s[i].best \in SUBSET Int
  BY <1>0 DEF Winner, Scored
<1>2. PICK h : /\ h[0] = {}
               /\ h[m] = FoldLeft(LAMBDA best, out : BetterTile(best, out.best), {}, s)
               /\ \A j \in 1..m : h[j] = BetterTile(h[j - 1], s[j].best)
  BY <1>0, <1>1, Tiles
<1>. DEFINE So(j) == UNION {S[i] : i \in 1..j}
            Q == {j \in 0..m : Scored(So(j)) /\ h[j] = Winner(So(j))}
<1>3. 0 \in Q
  <2>. m \in Nat
    BY <1>0
  <2>1. So(0) = {}
    OBVIOUS
  <2>2. Scored({}) /\ Winner({}) = {}
    BY FS_EmptySet DEF Scored, Winner
  <2>3. Scored(So(0)) /\ h[0] = Winner(So(0))
    BY <1>2, <2>1, <2>2, Zenon
  <2>. QED  BY <2>3
<1>4. ASSUME NEW j \in 0..(m - 1), j \in Q PROVE j + 1 \in Q
  <2>1. j + 1 \in 1..m /\ j + 1 \in 0..m /\ (j + 1) - 1 = j /\ 1..(j + 1) = (1..j) \cup {j + 1}
    BY <1>0
  <2>2. So(j + 1) = So(j) \cup S[j + 1]
    BY <2>1
  <2>3. Scored(So(j)) /\ h[j] = Winner(So(j))
    BY <1>4
  <2>4. Scored(S[j + 1]) /\ S[j + 1] # {} /\ s[j + 1].best = Winner(S[j + 1])
    BY <1>0, <2>1
  <2>5. h[j + 1] = BetterTile(h[j], Winner(S[j + 1]))
    BY <1>2, <2>1, <2>4
  <2>. HIDE DEF So
  <2>6. Scored(So(j + 1)) /\ h[j + 1] = Winner(So(j + 1))
    BY <2>2, <2>3, <2>4, <2>5, WinnerMerges
  <2>. QED  BY <2>1, <2>6
<1>5. m \in Q
  <2>. HIDE DEF Q
  <2>. QED  BY <1>0, <1>3, <1>4, UpwardInduction
<1>. QED  BY <1>0, <1>2, <1>5

-----------------------------------------------------------------------------
(* Searches. *)

\* What a search of S may come back with: a hit of S or, if there is none, having tried all.
Searched(nonce, tried, S) ==
  /\ nonce \subseteq Hits \cap S /\ tried \in Int /\ tried <= Cardinality(S)
  /\ nonce = {} => Hits \cap S = {} /\ tried = Cardinality(S)

\* _hash_chunk
LEMMA HashChunkFacts ==
  ASSUME Hits \subseteq Int, NEW x, x.from \in Int, x.to \in Int, x.from < x.to
  PROVE  Searched(FirstHit(x), Tried(x), Span(x))
<1>1. PICK a, b \in Int : a = x.from /\ b = x.to /\ a < b
  OBVIOUS
<1>2. PICK S : S = Hits \cap Span(x)
  OBVIOUS
<1>3. IsFiniteSet(Span(x)) /\ Cardinality(Span(x)) = b - a
  BY <1>1, SpanSize DEF Size
<1>4. IsFiniteSet(S) /\ Numbers(S)
  BY <1>2, <1>3, FS_Subset DEF Numbers
<1>5. \A h \in Hits : h \in S <=> a <= h /\ h < b
  BY <1>1, <1>2 DEF Span
<1>6. FirstHit(x) = {h \in Hits : a <= h /\ h < b /\ \A k \in Hits : k < h => k < a}
  BY <1>1 DEF FirstHit
<1>7. Size(x) = b - a
  BY <1>1 DEF Size
<1>8. CASE S = {}
  <2>1. FirstHit(x) = {}
    BY <1>5, <1>6, <1>8
  <2>2. Tried(x) = b - a
    BY <1>7, <2>1 DEF Tried
  <2>3. Tried(x) \in Int /\ Tried(x) <= Cardinality(Span(x)) /\ Tried(x) = Cardinality(Span(x))
    BY <1>1, <1>3, <2>2
  <2>4. Hits \cap Span(x) = {}
    BY <1>2, <1>8
  <2>. QED  BY <2>1, <2>3, <2>4 DEF Searched
<1>9. CASE S # {}
  <2>1. PICK h : h = Min(S) /\ h \in S /\ \A i \in S : h <= i
    BY <1>4, <1>9, Extremes
  <2>2. h \in Hits /\ h \in Int /\ a <= h /\ h < b
    BY <1>2, <1>5, <2>1
  <2>3. ASSUME NEW k \in Hits, k < h PROVE k < a
    BY <1>5, <2>1, <2>2, <2>3
  <2>4. h \in FirstHit(x)
    BY <1>6, <2>2, <2>3
  <2>5. ASSUME NEW g \in FirstHit(x) PROVE g = h
    <3>1. g \in Hits /\ g \in Int /\ a <= g /\ g < b /\ (h < g => h < a)
      BY <1>6, <2>2
    <3>2. h <= g
      BY <1>5, <2>1, <3>1
    <3>. QED  BY <2>2, <3>1, <3>2
  <2>6. FirstHit(x) = {h}
    BY <2>4, <2>5
  <2>7. Tried(x) = h - a + 1
    <3>1. (CHOOSE g \in FirstHit(x) : TRUE) = h
      BY <2>6
    <3>2. FirstHit(x) # {}
      BY <2>4
    <3>. QED  BY <1>1, <3>1, <3>2 DEF Tried
  <2>8. h - a + 1 \in Int /\ h - a + 1 <= b - a
    BY <1>1, <2>2
  <2>. QED  BY <1>2, <1>3, <2>1, <2>2, <2>6, <2>7, <2>8 DEF Searched
<1>. QED  BY <1>8, <1>9

\* Whichever comes first is one of them, and if nothing comes there was nothing.
LEMMA FirstFoundFacts ==
  ASSUME NEW m \in Nat, NEW nonces, DOMAIN nonces = 1..m
  PROVE  IF \A i \in 1..m : nonces[i] = {} THEN FirstFound(nonces) = {}
         ELSE \E i \in 1..m : FirstFound(nonces) = nonces[i] /\ nonces[i] # {}
<1>1. PICK found : found = {i \in DOMAIN nonces : nonces[i] # {}}
  OBVIOUS
<1>2. FirstFound(nonces) = IF found = {} THEN {} ELSE nonces[Min(found)]
  BY <1>1 DEF FirstFound
<1>3. CASE found = {}
  BY <1>1, <1>2, <1>3
<1>4. CASE found # {}
  <2>1. IsFiniteSet(found) /\ Numbers(found)
    BY <1>1, UpTo, FS_Subset DEF Numbers
  <2>2. Min(found) \in found
    BY <1>4, <2>1, Extremes
  <2>3. PICK i \in 1..m : i = Min(found) /\ nonces[i] # {}
    BY <1>1, <2>2
  <2>. QED  BY <1>2, <1>4, <2>3
<1>. QED  BY <1>3, <1>4

\* The searches of the parts are a search of the whole.
LEMMA SearchesMerge ==
  ASSUME NEW parts, NEW q, NEW S, Dissected(parts, q, S), NEW nonces, NEW tried,
         DOMAIN nonces = 1..q, tried = [i \in 1..q |-> tried[i]],
         \A i \in 1..q : Searched(nonces[i], tried[i], Span(parts[i]))
  PROVE  Searched(FirstFound(nonces), Total(tried), S)
<1>1. PICK sizes : sizes = [i \in 1..q |-> Size(parts[i])]
  OBVIOUS
<1>2. q \in Nat /\ IsFiniteSet(1..q) /\ sizes \in [1..q -> Int] /\ Total(sizes) = Cardinality(S)
      /\ Cardinality(S) \in Nat
  <2>1. q \in Nat
    BY DEF Dissected
  <2>2. /\ Cardinality(S) \in Nat
        /\ [i \in 1..q |-> Size(parts[i])] \in [1..q -> Int]
        /\ Total([i \in 1..q |-> Size(parts[i])]) = Cardinality(S)
    BY DissectedCount
  <2>. QED  BY <1>1, <2>1, <2>2, UpTo
<1>3. ASSUME NEW i \in 1..q
      PROVE  /\ Cardinality(Span(parts[i])) = sizes[i] /\ Span(parts[i]) \subseteq S
             /\ tried[i] \in Int /\ tried[i] <= sizes[i] /\ nonces[i] \subseteq Hits \cap Span(parts[i])
             /\ nonces[i] = {} => Hits \cap Span(parts[i]) = {} /\ tried[i] = sizes[i]
  <2>1. Cardinality(Span(parts[i])) = sizes[i]
    BY <1>1, SpanSize DEF Dissected
  <2>2. Searched(nonces[i], tried[i], Span(parts[i]))
    OBVIOUS
  <2>3. Span(parts[i]) \subseteq S
    BY DEF Dissected
  <2>. QED  BY <2>1, <2>2, <2>3 DEF Searched
<1>4. tried \in [1..q -> Int] /\ \A i \in 1..q : tried[i] <= sizes[i]
  BY <1>3
<1>5. Total(tried) \in Int /\ Total(tried) <= Total(sizes)
  BY <1>2, <1>4, SumType, SumOrders
<1>6. CASE \A i \in 1..q : nonces[i] = {}
  <2>1. FirstFound(nonces) = {}
    BY <1>2, <1>6, FirstFoundFacts
  <2>2. tried = sizes
    <3>1. \A i \in 1..q : tried[i] = sizes[i]
      BY <1>3, <1>6
    <3>. QED  BY <1>2, <1>4, <3>1
  <2>3. Hits \cap S = {}
    <3>1. \A i \in 1..q : Hits \cap Span(parts[i]) = {}
      BY <1>3, <1>6
    <3>2. UNION {Span(parts[i]) : i \in 1..q} = S
      BY DEF Dissected
    <3>. QED  BY <3>1, <3>2
  <2>. QED  BY <1>2, <1>5, <2>1, <2>2, <2>3 DEF Searched
<1>7. CASE ~ (\A i \in 1..q : nonces[i] = {})
  <2>1. PICK i \in 1..q : FirstFound(nonces) = nonces[i] /\ nonces[i] # {}
    BY <1>2, <1>7, FirstFoundFacts
  <2>2. nonces[i] \subseteq Hits \cap S
    BY <1>3
  <2>. QED  BY <1>2, <1>5, <2>1, <2>2 DEF Searched
<1>. QED  BY <1>6, <1>7

\* _hashcrack: so do the chunks of a tile.
LEMMA HashcrackFacts ==
  ASSUME Hits \subseteq Int, NEW parts, NEW q, NEW S, Dissected(parts, q, S)
  PROVE  Searched(Hashcrack(parts).nonce, Hashcrack(parts).tried, S)
<1>1. PICK nonces, tried : /\ nonces = [i \in 1..q |-> FirstHit(parts[i])]
                           /\ tried = [i \in 1..q |-> Tried(parts[i])]
  OBVIOUS
<1>2. ASSUME NEW i \in 1..q PROVE Searched(nonces[i], tried[i], Span(parts[i]))
  <2>1. parts[i].from \in Int /\ parts[i].to \in Int /\ parts[i].from < parts[i].to
    BY DEF Dissected
  <2>2. Searched(FirstHit(parts[i]), Tried(parts[i]), Span(parts[i]))
    BY <2>1, HashChunkFacts
  <2>. QED  BY <1>1, <2>2
<1>3. DOMAIN nonces = 1..q /\ tried = [i \in 1..q |-> tried[i]]
  BY <1>1
<1>4. Searched(FirstFound(nonces), Total(tried), S)
  BY <1>2, <1>3, SearchesMerge
<1>5. DOMAIN parts = 1..q
  BY DEF Dissected
<1>6. Hashcrack(parts).nonce = FirstFound(nonces) /\ Hashcrack(parts).tried = Total(tried)
  BY <1>1, <1>5 DEF Hashcrack
<1>. QED  BY <1>4, <1>6

\* aggregate_hashcrack: and the tiles of a launch.
LEMMA AggregateHashcrackFacts ==
  ASSUME NEW tiles, NEW q, NEW S, Dissected(tiles, q, S), NEW outs, DOMAIN outs = 1..q,
         \A i \in 1..q : Searched(outs[i].nonce, outs[i].tried, Span(tiles[i]))
  PROVE  Searched(AggregateHashcrack(outs).nonce, AggregateHashcrack(outs).tried, S)
<1>1. PICK nonces, tried : /\ nonces = [i \in 1..q |-> outs[i].nonce]
                           /\ tried = [i \in 1..q |-> outs[i].tried]
  OBVIOUS
<1>2. \A i \in 1..q : Searched(nonces[i], tried[i], Span(tiles[i]))
  BY <1>1
<1>3. DOMAIN nonces = 1..q /\ tried = [i \in 1..q |-> tried[i]]
  BY <1>1
<1>4. Searched(FirstFound(nonces), Total(tried), S)
  BY <1>2, <1>3, SearchesMerge
<1>5. AggregateHashcrack(outs).nonce = FirstFound(nonces)
  BY <1>1 DEF AggregateHashcrack
<1>6. AggregateHashcrack(outs).tried = Total(tried)
  BY <1>1 DEF AggregateHashcrack, Sum
<1>. QED  BY <1>4, <1>5, <1>6

-----------------------------------------------------------------------------
(* What is completed. *)

\* Every job of a launch is of its kind.
LEMMA BuildKinds ==
  ASSUME NEW r \in Requests, NEW k \in Nat, NEW w
  PROVE  \A i \in DOMAIN Build(r, k, w) : Build(r, k, w)[i].kind = r.kind
<1>1. RequestOK(r)
  BY WorkloadAssumption
<1>2. r.kind \in Launchable \cup {"render"}
  BY <1>1 DEF RequestOK
<1>3. CASE r.kind = "ai.batch_infer"
  <2>1. Build(r, k, w) = PromptJobs(r.slice, r.size)
    BY <1>3 DEF Build
  <2>. QED  BY <1>3, <2>1 DEF PromptJobs, JobOf
<1>4. CASE r.kind = "data.transform"
  <2>1. Build(r, k, w) = FanOut(k, r.size)
    BY <1>4 DEF Build
  <2>. QED  BY <1>4, <2>1 DEF FanOut, JobOf
<1>5. CASE r.kind = "render"
  <2>1. Build(r, k, w) = RenderJobs(k, r.size)
    BY <1>5 DEF Build
  <2>. QED  BY <1>5, <2>1 DEF RenderJobs, JobOf
<1>6. CASE r.kind \in Launchable \ {"ai.batch_infer", "data.transform"}
  <2>1. PICK base : Build(r, k, w) = RangeJobs(r.kind, k, base, r.size, w)
    BY <1>6
       DEF Build, Launchable, FractalJobs, OptimizeJobs, SynthJobs, MontecarloJobs, HashcrackJobs,
           InferJobs, EvalJobs, GraphJobs
  <2>2. PICK ranges : ranges = IF w = NoWeights THEN EvenRanges(r.size, k) ELSE WeightedRanges(r.size, w)
    OBVIOUS
  <2>3. PICK place : place = InOrder({i \in 1..k : ranges[i][1] < ranges[i][2]})
    OBVIOUS
  <2>4. RangeJobs(r.kind, k, base, r.size, w)
          = [j \in DOMAIN place |->
               JobOf(r.kind, base + ranges[place[j]][1], base + ranges[place[j]][2], place[j])]
    BY <2>2, <2>3 DEF RangeJobs, TileJobs
  <2>5. \A from, to, seed : JobOf(r.kind, from, to, seed).kind = r.kind
    BY DEF JobOf
  <2>. QED  BY <2>1, <2>4, <2>5
<1>. QED  BY <1>2, <1>3, <1>4, <1>5, <1>6

\* Tiles that lie end to end do not overlap, and none goes beyond the last.
LEMMA TilesApart ==
  ASSUME NEW b, Sound(b), NEW from, NEW to, Covers(b, from, to),
         NEW i \in DOMAIN b, NEW j \in DOMAIN b
  PROVE  /\ i < j => b[i].tile.to <= b[j].tile.from
         /\ from <= b[i].tile.from /\ b[i].tile.to <= to
<1>1. PICK N \in Nat : N = Len(b) /\ DOMAIN b = 1..N
  BY AppendFacts DEF Sound
<1>2. PICK f, t : f = [k \in 1..N |-> b[k].tile.from] /\ t = [k \in 1..N |-> b[k].tile.to]
  OBVIOUS
<1>3. \A k \in 1..N : f[k] \in Int /\ t[k] \in Int /\ f[k] < t[k]
  <2>. SUFFICES ASSUME NEW k \in 1..N PROVE f[k] \in Int /\ t[k] \in Int /\ f[k] < t[k]
    OBVIOUS
  <2>1. /\ b[k].tile.from \in Int /\ b[k].tile.to \in Int
        /\ b[k].units = Size(b[k].tile) /\ b[k].units > 0
    BY <1>1 DEF Sound
  <2>2. PICK x, y \in Int : x = b[k].tile.from /\ y = b[k].tile.to
    BY <2>1
  <2>3. y - x > 0
    BY <2>1, <2>2 DEF Size
  <2>. QED  BY <1>2, <2>2, <2>3
<1>4. \A k \in 1..(N - 1) : t[k] = f[k + 1]
  <2>. SUFFICES ASSUME NEW k \in 1..(N - 1) PROVE t[k] = f[k + 1]
    OBVIOUS
  <2>1. k \in 1..N /\ k + 1 \in 1..N /\ b[k].tile.to = b[k + 1].tile.from
    BY <1>1 DEF Covers
  <2>. QED  BY <1>2, <2>1
<1>5. ASSUME NEW k \in 1..N, NEW l \in 1..N, k < l PROVE t[k] <= f[l]
  <2>. DEFINE Q == {d \in 0..(l - k - 1) : t[k] <= f[k + 1 + d]}
  <2>1. 0 \in Q
    <3>1. k \in 1..(N - 1) /\ k + 1 + 0 = k + 1 /\ 0 \in 0..(l - k - 1)
      BY <1>5
    <3>2. t[k] = f[k + 1] /\ t[k] \in Int
      BY <1>3, <1>4, <3>1
    <3>3. t[k] <= f[k + 1 + 0]
      BY <3>1, <3>2
    <3>. QED  BY <3>1, <3>3
  <2>2. ASSUME NEW d \in 0..((l - k - 1) - 1), d \in Q PROVE d + 1 \in Q
    <3>1. PICK e : e = k + 1 + d /\ e \in 1..(N - 1) /\ e \in 1..N /\ e + 1 \in 1..N /\ k + 1 + (d + 1) = e + 1
      BY <1>5
    <3>2. t[k] \in Int /\ f[e] \in Int /\ t[e] \in Int /\ f[e] < t[e] /\ t[e] = f[e + 1]
      BY <1>3, <1>4, <3>1
    <3>3. t[k] <= f[e]
      BY <2>2, <3>1
    <3>4. t[k] <= f[e + 1]
      BY <3>2, <3>3
    <3>5. d + 1 \in 0..(l - k - 1)
      BY <1>5
    <3>. QED  BY <3>1, <3>4, <3>5
  <2>3. l - k - 1 \in Nat /\ k + 1 + (l - k - 1) = l
    BY <1>5
  <2>4. l - k - 1 \in Q
    <3>. HIDE DEF Q
    <3>. QED  BY <2>1, <2>2, <2>3, UpwardInduction
  <2>. QED  BY <2>3, <2>4
<1>6. i \in 1..N /\ j \in 1..N /\ 1 \in 1..N /\ N \in 1..N
  BY <1>1
<1>7. f[1] = from /\ t[N] = to
  BY <1>1, <1>2, <1>6 DEF Covers
<1>8. f[1] <= f[i] /\ t[i] <= t[N]
  <2>1. i = 1 \/ 1 < i
    BY <1>6
  <2>2. i = N \/ i < N
    BY <1>6
  <2>3. f[1] \in Int /\ t[1] \in Int /\ f[i] \in Int /\ t[i] \in Int /\ f[N] \in Int /\ t[N] \in Int
        /\ f[1] < t[1] /\ f[N] < t[N]
    BY <1>3, <1>6
  <2>4. 1 < i => t[1] <= f[i]
    BY <1>5, <1>6
  <2>5. i < N => t[i] <= f[N]
    BY <1>5, <1>6
  <2>. QED  BY <2>1, <2>2, <2>3, <2>4, <2>5
<1>9. i < j => t[i] <= f[j]
  BY <1>5, <1>6
<1>10. b[i].tile.from = f[i] /\ b[i].tile.to = t[i] /\ b[j].tile.from = f[j]
  BY <1>2, <1>6
<1>. QED  BY <1>7, <1>8, <1>9, <1>10

\* A completed job holds what its executor came back with.
Executed(t) ==
  \A j \in DOMAIN t : t[j].state = "completed" =>
    t[j].result \in Execute(t[j].spec.kind, t[j].spec.tile) /\ t[j].result.status = "completed"

\* At first nothing is completed.
LEMMA InitExecuted == Init => Executed(jobs)
BY DEF Init, Executed

\* Only a result that was reported is kept.
LEMMA StepExecuted ==
  ASSUME IInv, Executed(jobs), [Next]_vars
  PROVE  Executed(jobs')
<1>1. TableInv(jobs) /\ IsList(jobs)
  BY DEF IInv, Kept, TableInv
<1>2. CASE UNCHANGED jobs
  BY <1>2 DEF Executed
<1>3. CASE SubmitTile
  <2>1. PICK row : row = Queued(Head(specs)) /\ jobs' = Append(jobs, row) /\ row.state = "queued"
    BY <1>3 DEF SubmitTile, Queued
  <2>2. PICK p \in Nat : p = Len(jobs) /\ DOMAIN jobs = 1..p
    BY <1>1, AppendFacts
  <2>3. /\ DOMAIN jobs' = 1..(p + 1) /\ jobs'[p + 1] = row /\ \A i \in 1..p : jobs'[i] = jobs[i]
    BY <1>1, <2>1, <2>2, AppendFacts
  <2>4. \A i \in 1..(p + 1) : i = p + 1 \/ i \in 1..p
    OBVIOUS
  <2>. QED  BY <2>1, <2>2, <2>3, <2>4 DEF Executed
<1>4. ASSUME NEW w \in Workers, NEW j \in DOMAIN jobs, Lease(w, j) PROVE Executed(jobs')
  <2>1. jobs' = Assignment(j, w) /\ jobs[j].state = "queued"
    BY <1>1, <1>4 DEF Lease, IsList, Assignment, LeasedTo
  <2>2. /\ DOMAIN jobs' = DOMAIN jobs /\ jobs'[j].state = "leased"
        /\ \A i \in DOMAIN jobs : i # j => jobs'[i] = jobs[i]
    BY <1>1, <2>1, LeaseFacts
  <2>. QED  BY <2>2 DEF Executed
<1>5. ASSUME NEW j \in DOMAIN jobs, Expire(j) PROVE Executed(jobs')
  <2>1. jobs' = Requeued(j) /\ jobs[j].state = "leased"
    BY <1>5 DEF Expire, Requeued
  <2>2. /\ DOMAIN jobs' = DOMAIN jobs /\ jobs'[j].state = "queued"
        /\ \A i \in DOMAIN jobs : i # j => jobs'[i] = jobs[i]
    BY <1>1, <2>1, RequeuedFacts
  <2>. QED  BY <2>2 DEF Executed
<1>6. ASSUME NEW w \in Workers, NEW j \in DOMAIN jobs, Accept(w, j) \/ CrashInResult(w, j)
      PROVE  Executed(jobs')
  <2>1. PICK result \in Execute(jobs[j].spec.kind, jobs[j].spec.tile) : jobs' = Settled(j, result)
    BY <1>6 DEF Accept, CrashInResult
  <2>2. Leased(w, j)
    BY <1>6 DEF Accept, CrashInResult
  <2>3. /\ DOMAIN jobs' = DOMAIN jobs
        /\ \A i \in DOMAIN jobs : i # j => jobs'[i] = jobs[i]
        /\ jobs'[j].state = "completed" <=> result.status = "completed"
        /\ jobs'[j].spec = jobs[j].spec
    BY <1>1, <2>1, <2>2, SettledFacts
  <2>4. result.status = "completed" => jobs'[j].result = result
    <3>. SUFFICES ASSUME result.status = "completed" PROVE jobs'[j].result = result
      OBVIOUS
    <3>1. jobs' = [jobs EXCEPT ![j].state = "completed", ![j].result = result]
      BY <2>1 DEF Settled, Completed
    <3>2. JobShape(jobs[j]) /\ jobs \in [DOMAIN jobs -> {jobs[k] : k \in DOMAIN jobs}]
      BY <1>1 DEF TableInv, IsList
    <3>. QED  BY <3>1, <3>2 DEF JobShape
  <2>. QED  BY <2>3, <2>4 DEF Executed
<1>7. CASE CountTiles \/ WeighTiles \/ LogSubmitted \/ Crash \/ Tamper
           \/ (\E w \in Workers : LogAssigned(w)) \/ (\E w \in Workers, j \in DOMAIN jobs : Discard(w, j))
  <2>1. UNCHANGED jobs
    BY <1>7 DEF CountTiles, WeighTiles, LogSubmitted, Crash, Tamper, LogAssigned, Discard
  <2>. QED  BY <1>2, <2>1
<1>. QED
  <2>1. CASE Next
    BY <1>3, <1>4, <1>5, <1>6, <1>7, <2>1 DEF Next
  <2>2. CASE UNCHANGED vars
    BY <1>2, <2>2 DEF vars
  <2>. QED  BY <2>1, <2>2

\* So it is always.
LEMMA ExecutedInvariance == Spec => []Executed(jobs)
<1>1. IInv /\ Executed(jobs) /\ [Next]_vars => Executed(jobs)'
  BY StepExecuted DEF Executed
<1>. QED  BY <1>1, InitExecuted, Invariance, PTL DEF Spec

\* The completed rows of a launch: their tiles take what is done apart, are of what was asked for,
\* and were run to an end.
LEMMA DoneFacts ==
  ASSUME IInv, Planned, Executed(jobs), Done # << >>, request.kind # "render"
  PROVE  \E N \in Nat \ {0} :
           /\ DOMAIN Done = 1..N
           /\ Dissected([i \in 1..N |-> Done[i].spec.tile], N, ItemsDone)
           /\ \A i \in 1..N : Done[i].spec.tile.seed \in Int
           /\ \A i, j \in 1..N : i < j => Done[i].spec.tile.to <= Done[j].spec.tile.from
           /\ \A x \in ItemsDone : /\ x \in Int /\ request.base <= x
                                   /\ x < request.base + ItemsOf(request, n)
           /\ \A i \in 1..N : /\ Done[i].result \in Execute(request.kind, Done[i].spec.tile)
                              /\ Done[i].result.status = "completed"
<1>1. /\ IsList(jobs) /\ request \in Requests /\ n \in Nat /\ Splittable(weights, n)
  <2>1. MaxTiles \in Nat
    BY WorkloadAssumption
  <2>. QED  BY <2>1 DEF IInv, Kept, TableInv, LaunchInv, Planned
<1>2. PICK p \in Nat : p = Len(jobs) /\ DOMAIN jobs = 1..p
  BY <1>1, AppendFacts
<1>3. PICK kept : kept = {i \in 1..p : jobs[i].state = "completed"}
  OBVIOUS
<1>4. PICK place, N : place = InOrder(kept) /\ N = Cardinality(kept)
  OBVIOUS
<1>5. /\ N \in Nat /\ place \in [1..N -> kept]
      /\ \A i, j \in 1..N : i < j => place[i] < place[j]
  <2>1. IsFiniteSet(kept) /\ Numbers(kept)
    BY <1>3, UpTo, FS_Subset DEF Numbers
  <2>2. Listed(kept, place, N)
    BY <1>4, <2>1, KeptPlaces
  <2>. QED  BY <2>2 DEF Listed
<1>6. Done = [k \in 1..N |-> jobs[place[k]]]
  <2>1. Done = [k \in DOMAIN place |-> jobs[place[k]]]
    BY <1>2, <1>3, <1>4 DEF Done
  <2>. QED  BY <1>5, <2>1
<1>7. N # 0
  <2>. SUFFICES ASSUME N = 0 PROVE FALSE
    OBVIOUS
  <2>1. PICK R : R = {jobs[i] : i \in 1..p}
    OBVIOUS
  <2>2. Done \in [1..0 -> R]
    BY <1>6
  <2>3. Done \in Seq(R) /\ DOMAIN Done = {}
    BY <2>2
  <2>. QED  BY <2>3
<1>8. \A i \in 1..N : place[i] \in 1..p /\ jobs[place[i]].state = "completed" /\ Done[i] = jobs[place[i]]
  BY <1>3, <1>5, <1>6
<1>9. PICK b : b = Build(request, n, weights)
  OBVIOUS
<1>10. n # 0 /\ Remaining(jobs, specs, b)
  <2>1. 1 \in 1..N
    BY <1>5, <1>7
  <2>2. DOMAIN jobs # {}
    BY <1>2, <1>8, <2>1
  <2>3. jobs # << >>
    BY <2>2
  <2>. QED  BY <1>9, <2>3 DEF Planned
<1>11. PICK m \in Nat : m = Len(b) /\ DOMAIN b = 1..m /\ p <= m /\ \A i \in 1..p : jobs[i].spec = b[i]
  <2>1. IsList(b) /\ IsList(specs) /\ p + Len(specs) = Len(b)
        /\ \A i \in 1..p : jobs[i].spec = b[i]
    BY <1>2, <1>10 DEF Remaining
  <2>2. Len(b) \in Nat /\ DOMAIN b = 1..Len(b) /\ Len(specs) \in Nat
    BY <2>1, AppendFacts
  <2>. QED  BY <2>1, <2>2
<1>12. PICK t : t = [i \in 1..N |-> Done[i].spec.tile]
  OBVIOUS
<1>13. \A i \in 1..N : place[i] \in 1..m /\ Done[i].spec = b[place[i]] /\ t[i] = b[place[i]].tile
  BY <1>8, <1>11, <1>12
<1>14. Sound(b) /\ Covers(b, request.base, request.base + ItemsOf(request, n))
  <2>1. n \in Nat \ {0}
    BY <1>1, <1>10
  <2>2. /\ Sound(b)
        /\ IF request.kind = "render" THEN Len(b) = n
           ELSE IF ItemsOf(request, n) = 0 THEN b = << >>
           ELSE Covers(b, request.base, request.base + ItemsOf(request, n))
    BY <1>1, <1>9, <2>1, BuildFacts
  <2>3. b # << >>
    <3>1. 1 \in 1..N
      BY <1>5, <1>7
    <3>2. DOMAIN b # {}
      BY <1>11, <1>13, <3>1
    <3>. QED  BY <3>2
  <2>. QED  BY <2>2, <2>3
<1>15. ASSUME NEW i \in 1..N
       PROVE  /\ t[i].from \in Int /\ t[i].to \in Int /\ t[i].from < t[i].to /\ t[i].seed \in Int
              /\ request.base <= t[i].from /\ t[i].to <= request.base + ItemsOf(request, n)
  <2>1. /\ b[place[i]].tile.from \in Int /\ b[place[i]].tile.to \in Int
        /\ b[place[i]].units = Size(b[place[i]].tile) /\ b[place[i]].units > 0
    BY <1>11, <1>13, <1>14 DEF Sound
  <2>2. PICK x, y \in Int : x = t[i].from /\ y = t[i].to /\ y - x > 0
    BY <1>13, <2>1 DEF Size
  <2>3. x < y
    BY <2>2
  <2>4. /\ request.base <= b[place[i]].tile.from
        /\ b[place[i]].tile.to <= request.base + ItemsOf(request, n)
    BY <1>11, <1>13, <1>14, TilesApart
  <2>5. b[place[i]].tile.seed \in Int
    BY <1>11, <1>13, <1>14 DEF Sound
  <2>. QED  BY <1>13, <2>2, <2>3, <2>4, <2>5
<1>16. ASSUME NEW i \in 1..N, NEW j \in 1..N, i < j
       PROVE  t[i].to <= t[j].from /\ Span(t[i]) \cap Span(t[j]) = {}
  <2>1. place[i] < place[j]
    BY <1>5, <1>16
  <2>2. t[i].to <= t[j].from
    BY <1>11, <1>13, <1>14, <2>1, TilesApart
  <2>3. PICK u, v, x, y \in Int : u = t[i].from /\ v = t[i].to /\ x = t[j].from /\ y = t[j].to
    BY <1>15
  <2>4. Span(t[i]) = u..(v - 1) /\ Span(t[j]) = x..(y - 1) /\ v <= x
    BY <2>2, <2>3 DEF Span
  <2>5. ASSUME NEW e \in u..(v - 1), e \in x..(y - 1) PROVE FALSE
    BY <2>4, <2>5
  <2>. QED  BY <2>2, <2>4, <2>5
<1>17. \A i, j \in 1..N : i # j => Span(t[i]) \cap Span(t[j]) = {}
  <2>. SUFFICES ASSUME NEW i \in 1..N, NEW j \in 1..N, i # j PROVE Span(t[i]) \cap Span(t[j]) = {}
    OBVIOUS
  <2>1. i < j \/ j < i
    OBVIOUS
  <2>. QED  BY <1>16, <2>1
<1>18. DOMAIN Done = 1..N
  BY <1>6
<1>19. UNION {Span(t[i]) : i \in 1..N} = ItemsDone
  BY <1>12, <1>18 DEF ItemsDone, Span
<1>20. Dissected(t, N, ItemsDone)
  <2>1. DOMAIN t = 1..N
    BY <1>12
  <2>. QED  BY <1>5, <1>15, <1>17, <1>19, <2>1 DEF Dissected
<1>21. ASSUME NEW x \in ItemsDone
       PROVE  x \in Int /\ request.base <= x /\ x < request.base + ItemsOf(request, n)
  <2>1. PICK i \in 1..N : x \in Span(t[i])
    BY <1>19
  <2>2. PICK u, v \in Int : u = t[i].from /\ v = t[i].to
    BY <1>15
  <2>3. x \in u..(v - 1)
    BY <2>1, <2>2 DEF Span
  <2>4. request.base \in Int /\ ItemsOf(request, n) \in Int
    <3>1. RequestOK(request)
      BY <1>1, WorkloadAssumption
    <3>. QED  BY <1>1, <3>1 DEF RequestOK, ItemsOf
  <2>5. PICK lo, hi \in Int : lo = request.base /\ hi = request.base + ItemsOf(request, n)
    BY <2>4
  <2>6. lo <= u /\ v <= hi
    BY <1>15, <2>2, <2>5
  <2>. QED  BY <2>3, <2>5, <2>6
<1>22. ASSUME NEW i \in 1..N
       PROVE  /\ Done[i].result \in Execute(request.kind, Done[i].spec.tile)
              /\ Done[i].result.status = "completed"
  <2>1. /\ Done[i].result \in Execute(Done[i].spec.kind, Done[i].spec.tile)
        /\ Done[i].result.status = "completed"
    BY <1>2, <1>8 DEF Executed
  <2>2. Done[i].spec.kind = request.kind
    <3>1. b[place[i]].kind = request.kind
      BY <1>1, <1>9, <1>11, <1>13, BuildKinds
    <3>. QED  BY <1>13, <3>1
  <2>. QED  BY <2>1, <2>2
<1>23. ASSUME NEW i \in 1..N, NEW j \in 1..N, i < j
       PROVE  Done[i].spec.tile.to <= Done[j].spec.tile.from
  BY <1>12, <1>16, <1>23
<1>24. \A i \in 1..N : Done[i].spec.tile.seed \in Int
  BY <1>12, <1>15
<1>. QED  BY <1>5, <1>7, <1>12, <1>18, <1>20, <1>21, <1>22, <1>23, <1>24

\* The executors that ask no model leave their output for all items of the tile.
LEMMA InOrderOutput ==
  ASSUME NEW kind, kind \notin Pooled, kind \notin Modelled, NEW tile,
         NEW result \in Execute(kind, tile), result.status = "completed"
  PROVE  result.output = Output(kind, tile, FirstItems(tile, Size(tile)), {})
<1>1. result \in RunInOrder(kind, tile)
  BY DEF Execute
<1>2. result # Yielded /\ result # Failed
  BY DEF Yielded, Failed, Ran
<1>3. result = Ran("completed", Output(kind, tile, FirstItems(tile, Size(tile)), {}), TRUE)
  BY <1>1, <1>2 DEF RunInOrder
<1>. QED  BY <1>3 DEF Ran

\* A whole run, in a pool or not, put the results of all chunks of its tile together.
LEMMA PooledRun ==
  ASSUME NEW kind \in Pooled, NEW tile, tile.from \in Int, tile.to \in Int, tile.from <= tile.to,
         NEW result \in Execute(kind, tile), result.status = "completed", result.whole
  PROVE  \E q \in Nat : \E parts :
           /\ Dissected(parts, q, Span(tile)) /\ result.output = PooledOutput(kind, tile, parts)
           /\ \A i \in 1..q : \E c \in DOMAIN Chunks(kind, tile) : parts[i] = Chunks(kind, tile)[c]
<1>1. PICK chunks : chunks = Chunks(kind, tile)
  OBVIOUS
<1>2. PICK q \in Nat : Dissected(chunks, q, Span(tile)) /\ Len(chunks) = q
  BY <1>1, ChunksDissect
<1>3. DOMAIN chunks = 1..q
  BY <1>2 DEF Dissected
<1>4. PICK orders : orders = IF UsesPool(kind, tile) THEN Arrivals(q) ELSE {[i \in 1..q |-> i]}
  OBVIOUS
<1>5. result \in RunPooled(kind, tile)
  BY DEF Execute, Pooled
<1>6. result # Yielded /\ result # Failed
  BY DEF Yielded, Failed, Ran
<1>7. PICK o \in orders :
        result = Ran("completed", PooledOutput(kind, tile, [i \in DOMAIN o |-> chunks[o[i]]]),
                     DOMAIN o = 1..q)
  <2>1. RunPooled(kind, tile)
          = {Yielded, Failed} \cup
            {Ran("completed", PooledOutput(kind, tile, [i \in DOMAIN o |-> chunks[o[i]]]),
                 DOMAIN o = 1..q) : o \in orders}
    BY ONLY <1>1, <1>2, <1>3, <1>4 DEF RunPooled
  <2>2. result \in {Ran("completed", PooledOutput(kind, tile, [i \in DOMAIN o |-> chunks[o[i]]]),
                        DOMAIN o = 1..q) : o \in orders}
    BY <1>5, <1>6, <2>1
  <2>. QED  BY <2>2
<1>8. DOMAIN o = 1..q /\ result.output = PooledOutput(kind, tile, [i \in 1..q |-> chunks[o[i]]])
  <2>1. result.whole = (DOMAIN o = 1..q)
    BY <1>7 DEF Ran
  <2>2. DOMAIN o = 1..q
    BY <2>1
  <2>3. result.output = PooledOutput(kind, tile, [i \in DOMAIN o |-> chunks[o[i]]])
    BY <1>7 DEF Ran
  <2>. QED  BY <2>2, <2>3
<1>9. o \in [1..q -> 1..q] /\ \A i, j \in 1..q : o[i] = o[j] => i = j
  <2>1. CASE UsesPool(kind, tile)
    <3>1. o \in Arrivals(q)
      BY <1>4, <2>1
    <3>2. o \in UNION {[1..k -> 1..q] : k \in 0..q} /\ IsInjective(o)
      BY <3>1 DEF Arrivals
    <3>3. PICK k \in 0..q : o \in [1..k -> 1..q]
      BY <3>2
    <3>4. o \in [1..q -> 1..q]
      BY <1>8, <3>3
    <3>. QED  BY <1>8, <3>2, <3>4 DEF IsInjective
  <2>2. CASE ~ UsesPool(kind, tile)
    <3>1. o = [i \in 1..q |-> i]
      BY <1>4, <2>2
    <3>. QED  BY <3>1
  <2>. QED  BY <2>1, <2>2
<1>10. PICK parts : parts = [i \in 1..q |-> chunks[o[i]]]
  OBVIOUS
<1>11. Dissected(parts, q, Span(tile))
  <2>1. DOMAIN parts = 1..q /\ \A i \in 1..q : parts[i] = chunks[o[i]]
    BY <1>10
  <2>2. PICK S : S = Span(tile) /\ Dissected(chunks, q, S)
    BY <1>2
  <2>3. PICK f \in [1..q -> 1..q] : f = o /\ \A i, j \in 1..q : f[i] = f[j] => i = j
    BY <1>9
  <2>4. \A i \in 1..q : parts[i] = chunks[f[i]]
    BY <2>1, <2>3
  <2>5. DOMAIN parts = 1..q
    BY <2>1
  <2>6. Dissected(chunks, q, S)
    BY <2>2
  <2>7. \A i, j \in 1..q : f[i] = f[j] => i = j
    BY <2>3
  <2>8. Dissected(parts, q, S)
    BY ONLY <2>4, <2>5, <2>6, <2>7, DissectedShuffled, f \in [1..q -> 1..q], SMTT(30)
  <2>. QED  BY <2>2, <2>8
<1>12. ASSUME NEW i \in 1..q PROVE \E c \in DOMAIN Chunks(kind, tile) : parts[i] = Chunks(kind, tile)[c]
  BY <1>1, <1>3, <1>9, <1>10
<1>13. result.output = PooledOutput(kind, tile, parts)
  BY <1>8, <1>10
<1>. QED  BY <1>11, <1>12, <1>13

\* A whole search, in a pool or not, went through all nonces of its tile.
LEMMA HashcrackOutput ==
  ASSUME Hits \subseteq Int, NEW tile, tile.from \in Int, tile.to \in Int, tile.from <= tile.to,
         NEW result \in Execute("hashcrack", tile), result.status = "completed", result.whole
  PROVE  Searched(result.output.nonce, result.output.tried, Span(tile))
<1>1. PICK q \in Nat : \E parts :
         Dissected(parts, q, Span(tile)) /\ result.output = PooledOutput("hashcrack", tile, parts)
  BY PooledRun DEF Pooled
<1>2. PICK parts :
        Dissected(parts, q, Span(tile)) /\ result.output = PooledOutput("hashcrack", tile, parts)
  BY <1>1
<1>3. PICK S : S = Span(tile)
  OBVIOUS
<1>4. Searched(Hashcrack(parts).nonce, Hashcrack(parts).tried, S)
  BY <1>2, <1>3, HashcrackFacts
<1>. QED  BY <1>2, <1>3, <1>4 DEF PooledOutput

-----------------------------------------------------------------------------
(* Summaries: the best, the found, the image. *)

\* Tiles in the order of their items, and their seeds.
Rising(tiles, N) == /\ \A i \in 1..N : tiles[i].seed \in Int
                    /\ \A i, j \in 1..N : i < j => tiles[i].to <= tiles[j].from

\* What there is to merge: the outputs of the tiles, each on what it was asked for.
LEMMA ToMerge ==
  ASSUME IInv, Planned, Executed(jobs), Done # << >>, request.kind # "render"
  PROVE  \E N \in Nat \ {0} : \E tiles :
           /\ tiles = [i \in 1..N |-> Done[i].spec.tile]
           /\ Dissected(tiles, N, ItemsDone)
           /\ Rising(tiles, N)
           /\ DOMAIN Done = 1..N /\ DOMAIN Outputs = 1..N /\ Outputs # << >>
           /\ \A i \in 1..N : \E result \in Execute(request.kind, tiles[i]) :
                /\ result = Done[i].result /\ result.status = "completed"
                /\ Outputs[i] = result.output
<1>1. PICK N \in Nat \ {0} :
        /\ DOMAIN Done = 1..N
        /\ Dissected([i \in 1..N |-> Done[i].spec.tile], N, ItemsDone)
        /\ \A i \in 1..N : Done[i].spec.tile.seed \in Int
        /\ \A i, j \in 1..N : i < j => Done[i].spec.tile.to <= Done[j].spec.tile.from
        /\ \A i \in 1..N : /\ Done[i].result \in Execute(request.kind, Done[i].spec.tile)
                           /\ Done[i].result.status = "completed"
  BY DoneFacts
<1>2. PICK tiles : tiles = [i \in 1..N |-> Done[i].spec.tile]
  OBVIOUS
<1>3. Outputs = [i \in 1..N |-> Done[i].result.output]
  BY <1>1 DEF Outputs
<1>4. DOMAIN Outputs = 1..N /\ 1 \in DOMAIN Outputs
  BY <1>3
<1>5. Outputs # << >>
  BY <1>4
<1>6. ASSUME NEW i \in 1..N
      PROVE  \E result \in Execute(request.kind, tiles[i]) :
                /\ result = Done[i].result /\ result.status = "completed"
                /\ Outputs[i] = result.output
  <2>1. PICK r : r = Done[i].result
    OBVIOUS
  <2>2. tiles[i] = Done[i].spec.tile /\ Outputs[i] = r.output
    BY <1>2, <1>3, <2>1
  <2>. QED  BY <1>1, <2>1, <2>2
<1>7. Dissected(tiles, N, ItemsDone)
  BY <1>1, <1>2
<1>8. Rising(tiles, N)
  BY <1>1, <1>2 DEF Rising
<1>. QED  BY <1>1, <1>2, <1>4, <1>5, <1>6, <1>7, <1>8, SMTT(30)

\* The best candidate of all, and how many there were.
LEMMA OptimizeSummary ==
  ASSUME IInv, Planned, Executed(jobs), Done # << >>, request.kind = "optimize"
  PROVE  ReferenceOptimize
<1>1. PICK N, tiles :
        /\ N \in Nat \ {0} /\ Dissected(tiles, N, ItemsDone)
        /\ DOMAIN Outputs = 1..N /\ Outputs # << >>
        /\ \A i \in 1..N : \E result \in Execute("optimize", tiles[i]) :
             result.status = "completed" /\ Outputs[i] = result.output
  BY ToMerge
<1>2. PICK outs, S : outs = Outputs /\ S = ItemsDone
  OBVIOUS
<1>3. ASSUME NEW x \in S PROVE x \in Int /\ Score[x] \in Int
  <2>1. /\ x \in Int /\ request.base <= x /\ x < request.base + ItemsOf(request, n)
    BY <1>2, DoneFacts
  <2>2. RequestOK(request)
    BY WorkloadAssumption DEF IInv, Kept, LaunchInv
  <2>3. request.base = 0 /\ ItemsOf(request, n) = request.size /\ request.size \in Nat
    BY <2>2 DEF RequestOK, ItemsOf
  <2>4. x \in 0..(request.size - 1)
    BY <2>1, <2>3
  <2>. QED  BY <2>1, <2>2, <2>4 DEF RequestOK
<1>4. ASSUME NEW i \in 1..N
      PROVE  /\ tiles[i].from \in Int /\ tiles[i].to \in Int /\ tiles[i].from < tiles[i].to
             /\ tiles[i].from <= tiles[i].to /\ Span(tiles[i]) \subseteq S
  <2>1. /\ tiles[i].from \in Int /\ tiles[i].to \in Int /\ tiles[i].from < tiles[i].to
        /\ UNION {Span(tiles[j]) : j \in 1..N} = S
    BY <1>1, <1>2 DEF Dissected
  <2>2. PICK x, y \in Int : x = tiles[i].from /\ y = tiles[i].to /\ x < y
    BY <2>1
  <2>. QED  BY <2>1, <2>2
<1>5. ASSUME NEW i \in 1..N PROVE Scored(Span(tiles[i])) /\ Span(tiles[i]) # {}
  BY <1>3, <1>4, SpanSize DEF Scored
<1>6. ASSUME NEW i \in 1..N
      PROVE  outs[i].best = Winner(Span(tiles[i])) /\ outs[i].evaluated = Size(tiles[i])
  <2>1. PICK result \in Execute("optimize", tiles[i]) :
          result.status = "completed" /\ outs[i] = result.output
    BY <1>1, <1>2
  <2>2. result.output = Output("optimize", tiles[i], FirstItems(tiles[i], Size(tiles[i])), {})
    BY <2>1, InOrderOutput DEF Pooled, Modelled
  <2>3. outs[i] = Optimize(FirstItems(tiles[i], Size(tiles[i])))
    BY <2>1, <2>2 DEF Output
  <2>4. Scored(tiles[i].from..(tiles[i].to - 1))
    BY <1>5 DEF Span
  <2>5. Optimize(FirstItems(tiles[i], Size(tiles[i])))
           = [best |-> Winner(tiles[i].from..(tiles[i].to - 1)), evaluated |-> Size(tiles[i])]
    BY <1>4, <2>4, OptimizeFacts
  <2>. QED  BY <2>3, <2>5 DEF Span
<1>7. Summary = AggregateOptimize(outs)
  BY <1>1, <1>2 DEF Summary, Aggregate
<1>8. Summary.evaluated = Count
  <2>1. Sum("evaluated", outs) = Total([i \in 1..N |-> outs[i].evaluated])
    BY <1>1, <1>2 DEF Sum
  <2>2. \A i \in 1..N : outs[i].evaluated = Size(tiles[i])
    BY <1>6
  <2>4. [i \in 1..N |-> outs[i].evaluated] = [i \in 1..N |-> Size(tiles[i])]
    BY <2>2
  <2>3. Total([i \in 1..N |-> Size(tiles[i])]) = Cardinality(S)
    BY <1>1, <1>2, DissectedCount
  <2>. QED  BY <1>2, <1>7, <2>1, <2>3, <2>4 DEF AggregateOptimize, Count
<1>9. FoldLeft(LAMBDA best, out : BetterTile(best, out.best), {}, outs) = Winner(S)
  <2>1. PICK s : s = [i \in 1..N |-> Span(tiles[i])]
    OBVIOUS
  <2>2. ASSUME NEW i \in 1..N PROVE Scored(s[i]) /\ s[i] # {} /\ outs[i].best = Winner(s[i])
    <3>1. s[i] = Span(tiles[i])
      BY <2>1
    <3>. QED  BY <1>5, <1>6, <3>1
  <2>3. DOMAIN outs = 1..N
    BY <1>1, <1>2
  <2>4. S = UNION {s[i] : i \in 1..N}
    BY <1>1, <1>2, <2>1 DEF Dissected
  <2>5. Bests(outs, N, s, S)
    BY <1>1, <2>2, <2>3, <2>4 DEF Bests
  <2>. QED  BY <2>5, BestOfTiles
<1>10. Summary.best = Winner(S)
  BY <1>7, <1>9 DEF AggregateOptimize
<1>. QED  BY <1>2, <1>8, <1>10 DEF ReferenceOptimize, Winner

\* A hit among the nonces tried, unless there is none among all of them.
LEMMA HashcrackSummary ==
  ASSUME IInv, Planned, Executed(jobs), Done # << >>, request.kind = "hashcrack",
         \A i \in DOMAIN Done : Done[i].result.whole
  PROVE  ReferenceHashcrack
<1>1. PICK N, tiles :
        /\ N \in Nat \ {0} /\ Dissected(tiles, N, ItemsDone)
        /\ DOMAIN Done = 1..N /\ DOMAIN Outputs = 1..N /\ Outputs # << >>
        /\ \A i \in 1..N : \E result \in Execute("hashcrack", tiles[i]) :
             /\ result = Done[i].result /\ result.status = "completed"
             /\ Outputs[i] = result.output
  BY ToMerge
<1>2. PICK outs, S : outs = Outputs /\ S = ItemsDone
  OBVIOUS
<1>3. ASSUME NEW i \in 1..N PROVE Searched(outs[i].nonce, outs[i].tried, Span(tiles[i]))
  <2>1. PICK result \in Execute("hashcrack", tiles[i]) :
          result.whole /\ result.status = "completed" /\ outs[i] = result.output
    BY <1>1, <1>2
  <2>2. tiles[i].from \in Int /\ tiles[i].to \in Int /\ tiles[i].from < tiles[i].to
    BY <1>1 DEF Dissected
  <2>3. tiles[i].from <= tiles[i].to
    <3>1. PICK x, y \in Int : x = tiles[i].from /\ y = tiles[i].to /\ x < y
      BY <2>2
    <3>. QED  BY <3>1
  <2>4. Searched(result.output.nonce, result.output.tried, Span(tiles[i]))
    BY <2>1, <2>2, <2>3, KernelAssumption, HashcrackOutput
  <2>. QED  BY <2>1, <2>4
<1>4. Summary = AggregateHashcrack(outs)
  BY <1>1, <1>2 DEF Summary, Aggregate
<1>5. Searched(AggregateHashcrack(outs).nonce, AggregateHashcrack(outs).tried, S)
  BY <1>1, <1>2, <1>3, AggregateHashcrackFacts
<1>. QED  BY <1>2, <1>4, <1>5 DEF Searched, ReferenceHashcrack, Count

\* Every row done is there, in its place, and the others are blank.
LEMMA FractalSummary ==
  ASSUME IInv, Planned, Executed(jobs), Done # << >>, request.kind = "fractal"
  PROVE  ReferenceImage
<1>1. PICK N, tiles :
        /\ N \in Nat \ {0} /\ Dissected(tiles, N, ItemsDone)
        /\ DOMAIN Outputs = 1..N
        /\ \A i \in 1..N : \E result \in Execute("fractal", tiles[i]) :
             result.status = "completed" /\ Outputs[i] = result.output
  BY ToMerge
<1>2. PICK outs, S : outs = Outputs /\ S = ItemsDone
  OBVIOUS
<1>3. ASSUME NEW i \in 1..N
      PROVE  /\ tiles[i].from \in Int /\ tiles[i].to \in Int /\ tiles[i].from < tiles[i].to
             /\ Size(tiles[i]) \in Nat /\ Size(tiles[i]) = tiles[i].to - tiles[i].from
  <2>1. tiles[i].from \in Int /\ tiles[i].to \in Int /\ tiles[i].from < tiles[i].to
    BY <1>1 DEF Dissected
  <2>. QED  BY <2>1, SpanSize DEF Size
<1>4. ASSUME NEW i \in 1..N
      PROVE  outs[i].start = tiles[i].from /\ outs[i].rows = FirstItems(tiles[i], Size(tiles[i]))
  <2>1. PICK result \in Execute("fractal", tiles[i]) :
          result.status = "completed" /\ outs[i] = result.output
    BY <1>1, <1>2
  <2>2. result.output = Output("fractal", tiles[i], FirstItems(tiles[i], Size(tiles[i])), {})
    BY <2>1, InOrderOutput DEF Pooled, Modelled
  <2>. QED  BY <2>1, <2>2 DEF Output, Fractal
<1>5. ASSUME NEW i \in 1..N
      PROVE  /\ Len(outs[i].rows) = Size(tiles[i])
             /\ \A k \in 1..Size(tiles[i]) : outs[i].rows[k] = tiles[i].from + k - 1
  <2>1. PICK a \in Int, m \in Nat : a = tiles[i].from /\ m = Size(tiles[i])
    BY <1>3
  <2>2. outs[i].rows = [k \in 1..m |-> a + k - 1]
    BY <1>4, <2>1 DEF FirstItems
  <2>3. outs[i].rows \in Seq(Int) /\ Len(outs[i].rows) = m
    BY <2>1, <2>2
  <2>. QED  BY <2>1, <2>2, <2>3
<1>. SUFFICES ASSUME NEW y \in 0..(request.size - 1)
              PROVE  AssembleTiles(outs, request.size)[y] = IF y \in S THEN y ELSE NoRow
  BY <1>2 DEF ReferenceImage
<1>6. PICK bringing : bringing = {i \in 1..N : /\ outs[i].start <= y
                                               /\ y < outs[i].start + Len(outs[i].rows)}
  OBVIOUS
<1>7. y \in Int
  <2>1. request.size \in Nat
    BY WorkloadAssumption DEF IInv, Kept, LaunchInv, RequestOK
  <2>. QED  BY <2>1
<1>8. ASSUME NEW i \in 1..N PROVE i \in bringing <=> y \in Span(tiles[i])
  <2>1. PICK u, v \in Int : u = tiles[i].from /\ v = tiles[i].to /\ Size(tiles[i]) = v - u
    BY <1>3
  <2>2. outs[i].start = u /\ Len(outs[i].rows) = v - u
    BY <1>4, <1>5, <2>1
  <2>3. Span(tiles[i]) = u..(v - 1)
    BY <2>1 DEF Span
  <2>4. i \in bringing <=> u <= y /\ y < u + (v - u)
    BY <1>6, <2>2
  <2>5. y \in u..(v - 1) <=> u <= y /\ y < u + (v - u)
    BY ONLY <1>7, <2>1
  <2>. QED  BY <2>3, <2>4, <2>5
<1>9. UNION {Span(tiles[i]) : i \in 1..N} = S
  BY <1>1, <1>2 DEF Dissected
<1>10. bringing = {} <=> y \notin S
  BY <1>6, <1>8, <1>9
<1>11. ASSUME bringing # {}
       PROVE  outs[Max(bringing)].rows[y - outs[Max(bringing)].start + 1] = y
  <2>1. IsFiniteSet(bringing) /\ Numbers(bringing)
    BY <1>1, <1>6, UpTo, FS_Subset DEF Numbers
  <2>2. PICK i \in 1..N : i = Max(bringing) /\ i \in bringing
    BY <1>6, <1>11, <2>1, Extremes
  <2>3. PICK u, v \in Int : u = tiles[i].from /\ v = tiles[i].to /\ Size(tiles[i]) = v - u
    BY <1>3
  <2>4. y \in u..(v - 1)
    BY <1>8, <2>2, <2>3 DEF Span
  <2>5. y - u + 1 \in 1..(v - u) /\ u + (y - u + 1) - 1 = y
    <3>1. PICK d \in Int : d = y - u + 1
      BY <1>7
    <3>2. 1 <= d /\ d <= v - u /\ u + d - 1 = y
      BY <1>7, <2>4, <3>1
    <3>. QED  BY <3>1, <3>2
  <2>6. outs[i].start = u /\ outs[i].rows[y - u + 1] = u + (y - u + 1) - 1
    BY <1>4, <1>5, <2>3, <2>5
  <2>. QED  BY <2>2, <2>5, <2>6
<1>12. AssembleTiles(outs, request.size)[y]
         = IF bringing = {} THEN NoRow
           ELSE outs[Max(bringing)].rows[y - outs[Max(bringing)].start + 1]
  BY <1>1, <1>2, <1>6 DEF AssembleTiles
<1>. QED  BY <1>10, <1>11, <1>12

-----------------------------------------------------------------------------
(* Summaries: histograms. *)

Bins == 0..(NumBins - 1)

\* A histogram of so many paths.
Counted(hist, paths) == hist \in [Bins -> Int] /\ Total(hist) = paths

\* There are bins, and each is a number.
LEMMA BinFacts == IsFiniteSet(Bins) /\ Numbers(Bins) /\ NumBins - 1 \in Bins /\ NumBins \in Nat \ {0}
<1>1. PICK k \in Nat : k = NumBins - 1
  BY KernelAssumption
<1>2. IsFiniteSet(0..k)
  BY FS_Interval
<1>. QED  BY <1>1, <1>2, KernelAssumption DEF Bins, Numbers

\* Histograms add up to one of all of their paths.
LEMMA HistogramsAdd ==
  ASSUME NEW D, IsFiniteSet(D), NEW hists, DOMAIN hists = D, NEW sizes \in [D -> Int],
         \A i \in D : Counted(hists[i], sizes[i])
  PROVE  Counted(AddUp(hists), Total(sizes))
<1>1. PICK column : column = [b \in Bins |-> [i \in D |-> hists[i][b]]]
  OBVIOUS
<1>2. \A i \in D : hists[i] \in [Bins -> Int] /\ Total(hists[i]) = sizes[i]
  BY DEF Counted
<1>3. ASSUME NEW b \in Bins PROVE column[b] \in [D -> Int] /\ \A i \in D : column[b][i] = hists[i][b]
  BY <1>1, <1>2
<1>4. PICK sums : sums = [T \in SUBSET D |-> [b \in Bins |-> Part(column[b], T)]]
  OBVIOUS
<1>5. ASSUME NEW T \in SUBSET D
      PROVE  sums[T] \in [Bins -> Int] /\ \A b \in Bins : sums[T][b] = Part(column[b], T)
  <2>1. sums[T] = [b \in Bins |-> Part(column[b], T)]
    BY <1>4
  <2>2. ASSUME NEW b \in Bins PROVE Part(column[b], T) \in Int
    BY <1>3, PartFacts
  <2>. QED  BY <2>1, <2>2
<1>. DEFINE Q == {T \in SUBSET D : Total(sums[T]) = Part(sizes, T)}
<1>6. {} \in Q
  <2>1. ASSUME NEW b \in Bins PROVE sums[{}][b] = 0
    <3>1. Part(column[b], {}) = 0
      BY <1>3, PartFacts
    <3>. QED  BY <1>5, <3>1
  <2>2. sums[{}] \in [Bins -> Int] /\ IsFiniteSet(Bins)
    BY <1>5, BinFacts
  <2>3. PICK none : none = sums[{}]
    OBVIOUS
  <2>4. none \in [Bins -> {0, 1}] /\ {b \in Bins : none[b] = 1} = {}
    BY <2>1, <2>2, <2>3
  <2>5. Total(none) = 0
    BY <2>2, <2>4, SumCounts, FS_EmptySet
  <2>6. Part(sizes, {}) = 0
    BY PartFacts
  <2>. QED  BY <2>3, <2>5, <2>6
<1>7. ASSUME NEW T \in SUBSET D, T # {}, \A x \in T : T \ {x} \in Q PROVE T \in Q
  <2>1. PICK x \in T : x \in D
    BY <1>7
  <2>2. PICK U \in SUBSET D : U = T \ {x} /\ U \in Q
    BY <1>7, <2>1
  <2>3. PICK f, g, h : f = hists[x] /\ g = sums[U] /\ h = sums[T]
    OBVIOUS
  <2>4. f \in [Bins -> Int] /\ g \in [Bins -> Int] /\ h \in [Bins -> Int]
    BY <1>2, <1>5, <2>1, <2>3
  <2>5. ASSUME NEW b \in Bins PROVE h[b] = f[b] + g[b]
    <3>1. Part(column[b], T) = column[b][x] + Part(column[b], T \ {x})
      BY <1>3, PartRemoval
    <3>2. h[b] = Part(column[b], T) /\ g[b] = Part(column[b], U) /\ column[b][x] = f[b]
      BY <1>3, <1>5, <2>1, <2>3
    <3>. QED  BY <2>2, <3>1, <3>2
  <2>6. Added(h, f, g, Bins)
    BY <2>5 DEF Added
  <2>7. Total(h) = Total(f) + Total(g)
    BY <2>4, <2>6, BinFacts, SumAdds
  <2>8. Part(sizes, T) = sizes[x] + Part(sizes, U)
    BY <2>2, PartRemoval
  <2>9. Total(f) = sizes[x] /\ Total(g) = Part(sizes, U)
    BY <1>2, <2>1, <2>2, <2>3
  <2>. QED  BY <2>3, <2>7, <2>8, <2>9
<1>8. D \in Q
  <2>. HIDE DEF Q
  <2>. QED  BY <1>6, <1>7, FiniteInduction
<1>9. AddUp(hists) = sums[D]
  <2>1. ASSUME NEW b \in Bins PROVE Total([i \in D |-> hists[i][b]]) = sums[D][b]
    <3>1. column[b] = [i \in D |-> hists[i][b]]
      BY <1>1
    <3>2. Part(column[b], D) = Total(column[b])
      BY <1>3, PartOfAll
    <3>. QED  BY <1>5, <3>1, <3>2
  <2>2. AddUp(hists) = [b \in Bins |-> Total([i \in D |-> hists[i][b]])]
    BY DEF AddUp, Bins
  <2>. QED  BY <1>5, <2>1, <2>2
<1>10. Part(sizes, D) = Total(sizes)
  BY PartOfAll
<1>. QED  BY <1>5, <1>8, <1>9, <1>10 DEF Counted

\* Every path of a chunk ends in a bin of its histogram.
LEMMA ChunkHistogram ==
  ASSUME NEW tile, tile.seed \in Int, NEW chunk, chunk.number \in Int,
         chunk.from \in Int, chunk.to \in Int, chunk.from < chunk.to
  PROVE  Counted(Histogram(tile, chunk), Size(chunk))
<1>1. PICK m \in Nat : m = Size(chunk)
  BY SpanSize
<1>2. PICK s \in Int : s = Stream(tile, chunk)
  BY StrideFacts DEF Stream
<1>3. PICK hits : hits = [b \in Bins |-> {k \in 1..m : Bin(s, k) = b}]
  OBVIOUS
<1>4. PICK hist : hist = Histogram(tile, chunk)
  OBVIOUS
<1>5. IsFiniteSet(1..m) /\ Cardinality(1..m) = m
  BY UpTo
<1>6. ASSUME NEW b \in Bins
      PROVE IsFiniteSet(hits[b]) /\ Cardinality(hits[b]) \in Int /\ hist[b] = Cardinality(hits[b])
  <2>1. hits[b] = {k \in 1..m : Bin(s, k) = b}
    BY <1>3
  <2>2. IsFiniteSet(hits[b])
    BY <1>5, <2>1, FS_Subset
  <2>3. hist[b] = Cardinality({k \in 1..m : Bin(s, k) = b})
    BY <1>1, <1>2, <1>4 DEF Histogram, Bins
  <2>. QED  BY <2>1, <2>2, <2>3, FS_CardinalityType
<1>7. hist \in [Bins -> Int]
  <2>1. DOMAIN hist = Bins /\ hist = [b \in Bins |-> hist[b]]
    BY <1>4 DEF Histogram, Bins
  <2>. QED  BY <1>6, <2>1
<1>8. ASSUME NEW k \in 1..m PROVE Bin(s, k) \in Bins
  <2>1. PICK x \in Int : x = s + k * k
    BY <1>1, <1>2
  <2>2. NumBins \in Nat \ {0}
    BY BinFacts
  <2>3. x % NumBins \in Bins
    BY <2>1, <2>2 DEF Bins
  <2>. QED  BY <2>1, <2>3 DEF Bin
<1>9. UNION {hits[b] : b \in Bins} = 1..m
  <2>1. \A b \in Bins : \A k : k \in hits[b] <=> k \in 1..m /\ Bin(s, k) = b
    BY <1>3
  <2>2. ASSUME NEW k \in 1..m PROVE \E b \in Bins : k \in hits[b]
    BY <1>8, <2>1
  <2>. QED  BY <2>1, <2>2
<1>10. Separate(hits, Bins)
  BY <1>3 DEF Separate
<1>11. Total(hist) = Cardinality(UNION {hits[b] : b \in Bins})
  <2>1. PICK D : D = Bins /\ IsFiniteSet(D)
    BY BinFacts
  <2>2. \A b \in D : IsFiniteSet(hits[b])
    BY <1>6, <2>1
  <2>3. \A b \in D : hist[b] = Cardinality(hits[b])
    BY <1>6, <2>1
  <2>4. PICK f \in [D -> Int] : f = hist
    BY <1>7, <2>1
  <2>5. Separate(hits, D) /\ IsFiniteSet(D)
    BY <1>10, <2>1
  <2>6. \A b \in D : f[b] = Cardinality(hits[b])
    BY <2>3, <2>4
  <2>7. Total(f) = Cardinality(UNION {hits[b] : b \in D})
    BY ONLY <2>2, <2>5, <2>6, f \in [D -> Int], SumOfSizes
  <2>. QED  BY <2>1, <2>4, <2>7
<1>. QED  BY <1>1, <1>4, <1>5, <1>7, <1>9, <1>11 DEF Counted

\* And every path of a tile that was worked through.
LEMMA TileHistogram ==
  ASSUME NEW tile, tile.seed \in Int, tile.from \in Int, tile.to \in Int, tile.from < tile.to,
         NEW result \in Execute("montecarlo", tile), result.status = "completed", result.whole
  PROVE  /\ result.output.paths = Size(tile)
         /\ Counted(result.output.hist, result.output.paths)
<1>1. tile.from <= tile.to
  <2>1. PICK x, y \in Int : x = tile.from /\ y = tile.to /\ x < y
    OBVIOUS
  <2>. QED  BY <2>1
<1>2. PICK q \in Nat : \E parts :
        /\ Dissected(parts, q, Span(tile))
        /\ result.output = PooledOutput("montecarlo", tile, parts)
        /\ \A i \in 1..q : \E c \in DOMAIN Chunks("montecarlo", tile) :
             parts[i] = Chunks("montecarlo", tile)[c]
  BY <1>1, PooledRun DEF Pooled
<1>3. PICK parts :
        /\ Dissected(parts, q, Span(tile))
        /\ result.output = PooledOutput("montecarlo", tile, parts)
        /\ \A i \in 1..q : \E c \in DOMAIN Chunks("montecarlo", tile) :
             parts[i] = Chunks("montecarlo", tile)[c]
  BY <1>2
<1>4. ASSUME NEW i \in 1..q PROVE parts[i].number \in Int
  <2>1. PICK c \in DOMAIN Chunks("montecarlo", tile) : parts[i] = Chunks("montecarlo", tile)[c]
    BY <1>3
  <2>2. Size(tile) \in Nat
    BY SpanSize
  <2>3. /\ Chunks("montecarlo", tile)[c].number = c - 1
        /\ c \in 1..SeedStride
    BY <2>2, ChunkFacts
  <2>4. c \in Int
    BY <2>3, StrideFacts
  <2>. QED  BY <2>1, <2>3, <2>4
<1>5. PICK hists, sizes : /\ hists = [i \in 1..q |-> Histogram(tile, parts[i])]
                          /\ sizes = [i \in 1..q |-> Size(parts[i])]
  OBVIOUS
<1>6. ASSUME NEW i \in 1..q PROVE Counted(hists[i], sizes[i])
  <2>1. parts[i].from \in Int /\ parts[i].to \in Int /\ parts[i].from < parts[i].to
    BY <1>3 DEF Dissected
  <2>2. Counted(Histogram(tile, parts[i]), Size(parts[i]))
    BY <1>4, <2>1, ChunkHistogram
  <2>. QED  BY <1>5, <2>2
<1>7. sizes \in [1..q -> Int] /\ Total(sizes) = Cardinality(Span(tile))
  BY <1>3, <1>5, DissectedCount
<1>8. Counted(AddUp(hists), Total(sizes))
  <2>1. DOMAIN hists = 1..q /\ IsFiniteSet(1..q)
    BY <1>5, UpTo
  <2>. QED  BY <1>6, <1>7, <2>1, HistogramsAdd
<1>9. DOMAIN parts = 1..q
  BY <1>3 DEF Dissected
<1>10. result.output = [paths |-> Total(sizes), hist |-> AddUp(hists)]
  BY <1>3, <1>5, <1>9 DEF PooledOutput, Montecarlo
<1>11. Cardinality(Span(tile)) = Size(tile)
  BY SpanSize
<1>. QED  BY <1>7, <1>8, <1>10, <1>11

\* The paths up to a bin.
Below(hist, v) == Part(hist, {b \in Bins : b <= v})

\* The paths below the bin of a Value-at-Risk are at most the tail, those up to it more.
LEMMA ReturnBinFacts ==
  ASSUME NEW hist, NEW paths \in Nat \ {0}, Counted(hist, paths), NEW level \in 1..100,
         NEW v, v = ReturnBin(hist, paths, level)
  PROVE  /\ Below(hist, v) * 100 > paths * (100 - level)
         /\ Below(hist, v - 1) * 100 <= paths * (100 - level)
<1>1. hist \in [Bins -> Int] /\ Total(hist) = paths /\ DOMAIN hist = Bins
  BY DEF Counted
<1>2. PICK last \in Nat : last = NumBins - 1 /\ Bins = 0..last
  BY BinFacts DEF Bins
<1>3. PICK tail \in Nat : tail = paths * (100 - level) /\ paths * 100 > tail
  <2>1. PICK rest \in Nat : rest = 100 - level /\ rest < 100
    OBVIOUS
  <2>2. PICK few \in Int : few = paths * rest
    <3>1. paths * rest \in Int
      BY <2>1
    <3>. QED  BY <3>1
  <2>3. 0 <= few /\ paths * 100 > few
    <3>1. 100 - rest > 0
      BY <2>1
    <3>2. paths * (100 - rest) > 0
      BY <2>1, <3>1
    <3>3. paths * (100 - rest) = paths * 100 - paths * rest
      BY <2>1
    <3>4. paths * rest >= 0
      BY <2>1
    <3>. QED  BY <2>2, <3>2, <3>3, <3>4
  <2>. QED  BY <2>1, <2>2, <2>3
<1>4. PICK reached : reached = {b \in Bins : Part(hist, 0..b) * 100 > tail}
  OBVIOUS
<1>5. last \in reached
  <2>1. Part(hist, Bins) = paths
    BY <1>1, PartOfAll
  <2>. QED  BY <1>2, <1>3, <1>4, <2>1
<1>6. v = CHOOSE b \in reached : \A c \in reached : b <= c
  <2>1. \A b : Part(hist, 0..b) = Total([c \in 0..b |-> hist[c]])
    BY DEF Part
  <2>2. {b \in DOMAIN hist : Total([c \in 0..b |-> hist[c]]) * 100 > paths * (100 - level)} = reached
    BY <1>1, <1>3, <1>4, <2>1
  <2>. QED  BY <1>5, <2>2 DEF ReturnBin
<1>7. v \in reached /\ \A c \in reached : v <= c
  <2>1. IsFiniteSet(reached) /\ Numbers(reached) /\ reached # {}
    BY <1>2, <1>4, <1>5, BinFacts, FS_Subset DEF Numbers
  <2>2. \E b \in reached : \A c \in reached : b <= c
    <3>1. Min(reached) \in reached /\ \A c \in reached : Min(reached) <= c
      BY <2>1, Extremes
    <3>. QED  BY <3>1
  <2>. QED  BY <1>6, <2>2
<1>8. v \in 0..last /\ Part(hist, 0..v) * 100 > tail
  BY <1>2, <1>4, <1>7
<1>9. {b \in Bins : b <= v} = 0..v
  BY <1>2, <1>8
<1>10. Part(hist, {b \in Bins : b <= v - 1}) * 100 <= tail
  <2>1. CASE v = 0
    <3>1. {b \in Bins : b <= v - 1} = {}
      BY <1>2, <2>1
    <3>2. Part(hist, {}) = 0
      BY <1>1, BinFacts, PartFacts
    <3>. QED  BY <1>3, <3>1, <3>2
  <2>2. CASE v # 0
    <3>1. PICK u \in 0..last : u = v - 1 /\ ~ (v <= u)
      BY <1>8, <2>2
    <3>2. {b \in Bins : b <= v - 1} = 0..u
      BY <1>2, <3>1
    <3>3. u \notin reached
      BY <1>7, <3>1
    <3>4. ~ (Part(hist, 0..u) * 100 > tail)
      BY <1>2, <1>4, <3>1, <3>3
    <3>5. Part(hist, 0..u) \in Int
      <4>1. 0..u \in SUBSET Bins
        BY <1>2, <3>1
      <4>. QED  BY <1>1, <4>1, BinFacts, PartFacts
    <3>6. PICK some \in Int : some = Part(hist, 0..u)
      BY <3>5
    <3>7. some * 100 <= tail
      BY <1>3, <3>4, <3>6
    <3>. QED  BY <3>2, <3>6, <3>7
  <2>. QED  BY <2>1, <2>2
<1>. QED  BY <1>3, <1>8, <1>9, <1>10 DEF Below

\* aggregate_montecarlo: histograms of so many paths make one of all paths.
LEMMA AggregateMontecarloFacts ==
  ASSUME NEW q \in Nat \ {0}, NEW outs, DOMAIN outs = 1..q, NEW sizes \in [1..q -> Nat \ {0}],
         \A i \in 1..q : outs[i].paths = sizes[i],
         \A i \in 1..q : Counted(outs[i].hist, sizes[i])
  PROVE  /\ AggregateMontecarlo(outs).paths = Total(sizes)
         /\ Counted(AggregateMontecarlo(outs).hist, Total(sizes))
         /\ AggregateMontecarlo(outs).var
              = [level \in VarLevels |->
                   ReturnBin(AggregateMontecarlo(outs).hist, Total(sizes), level)]
<1>1. PICK parts : parts = [i \in {i \in DOMAIN outs : outs[i].paths > 0} |-> outs[i]]
  OBVIOUS
<1>2. {i \in DOMAIN outs : outs[i].paths > 0} = 1..q
  OBVIOUS
<1>3. DOMAIN parts = 1..q /\ \A i \in 1..q : parts[i] = outs[i]
  BY <1>1, <1>2
<1>4. PICK hists : hists = [i \in 1..q |-> outs[i].hist]
  OBVIOUS
<1>5. Sum("paths", parts) = Total(sizes)
  <2>1. [i \in DOMAIN parts |-> parts[i].paths] = sizes
    BY <1>3
  <2>. QED  BY <2>1 DEF Sum
<1>6. [i \in DOMAIN parts |-> parts[i].hist] = hists
  BY <1>3, <1>4
<1>7. Counted(AddUp(hists), Total(sizes))
  <2>1. DOMAIN hists = 1..q /\ IsFiniteSet(1..q) /\ \A i \in 1..q : Counted(hists[i], sizes[i])
    BY <1>4, UpTo
  <2>2. sizes \in [1..q -> Int]
    OBVIOUS
  <2>. QED  BY <2>1, <2>2, HistogramsAdd
<1>8. DOMAIN parts # {}
  <2>1. 1 \in 1..q
    OBVIOUS
  <2>. QED  BY <1>3, <2>1
<1>9. PICK total, hist : total = Total(sizes) /\ hist = AddUp(hists)
  OBVIOUS
<1>10. AggregateMontecarlo(outs)
         = [paths |-> total, hist |-> hist,
            var |-> [level \in VarLevels |-> ReturnBin(hist, total, level)]]
  BY <1>1, <1>5, <1>6, <1>8, <1>9 DEF AggregateMontecarlo
<1>11. /\ AggregateMontecarlo(outs).paths = total /\ AggregateMontecarlo(outs).hist = hist
       /\ AggregateMontecarlo(outs).var = [level \in VarLevels |-> ReturnBin(hist, total, level)]
  BY <1>10
<1>. QED  BY <1>7, <1>9, <1>11

\* Every path done is in the histogram, and a Value-at-Risk is the bin where its tail ends.
LEMMA MontecarloSummary ==
  ASSUME IInv, Planned, Executed(jobs), Done # << >>, request.kind = "montecarlo",
         \A i \in DOMAIN Done : Done[i].result.whole
  PROVE  ReferenceMontecarlo
<1>1. PICK N, tiles :
        /\ N \in Nat \ {0} /\ Dissected(tiles, N, ItemsDone) /\ Rising(tiles, N)
        /\ DOMAIN Done = 1..N /\ DOMAIN Outputs = 1..N /\ Outputs # << >>
        /\ \A i \in 1..N : \E result \in Execute("montecarlo", tiles[i]) :
             /\ result = Done[i].result /\ result.status = "completed"
             /\ Outputs[i] = result.output
  BY ToMerge
<1>2. PICK outs, S : outs = Outputs /\ S = ItemsDone
  OBVIOUS
<1>3. PICK sizes : sizes = [i \in 1..N |-> Size(tiles[i])]
  OBVIOUS
<1>4. ASSUME NEW i \in 1..N
      PROVE  /\ outs[i].paths = sizes[i] /\ Counted(outs[i].hist, sizes[i])
             /\ sizes[i] \in Nat \ {0}
  <2>1. PICK result \in Execute("montecarlo", tiles[i]) :
          result.whole /\ result.status = "completed" /\ outs[i] = result.output
    BY <1>1, <1>2
  <2>2. /\ tiles[i].from \in Int /\ tiles[i].to \in Int /\ tiles[i].from < tiles[i].to
        /\ tiles[i].seed \in Int
    BY <1>1 DEF Dissected, Rising
  <2>3. /\ result.output.paths = Size(tiles[i])
        /\ Counted(result.output.hist, result.output.paths)
    BY <2>1, <2>2, TileHistogram
  <2>4. Size(tiles[i]) \in Nat \ {0}
    BY <2>2, SpanSize
  <2>. QED  BY <1>3, <2>1, <2>3, <2>4
<1>5. sizes \in [1..N -> Nat \ {0}]
  BY <1>3, <1>4
<1>6. Total(sizes) = Cardinality(S)
  BY <1>1, <1>2, <1>3, DissectedCount
<1>7. Summary = AggregateMontecarlo(outs)
  BY <1>1, <1>2 DEF Summary, Aggregate
<1>8. PICK total, hist : total = Total(sizes) /\ hist = Summary.hist
  OBVIOUS
<1>9. /\ Summary.paths = total /\ Counted(hist, total)
      /\ Summary.var = [level \in VarLevels |-> ReturnBin(hist, total, level)]
  <2>1. DOMAIN outs = 1..N /\ N \in Nat \ {0}
    BY <1>1, <1>2
  <2>3. \A i \in 1..N : outs[i].paths = sizes[i]
    BY <1>4
  <2>4. \A i \in 1..N : Counted(outs[i].hist, sizes[i])
    BY <1>4
  <2>2. /\ AggregateMontecarlo(outs).paths = Total(sizes)
        /\ Counted(AggregateMontecarlo(outs).hist, Total(sizes))
        /\ AggregateMontecarlo(outs).var
             = [level \in VarLevels |->
                  ReturnBin(AggregateMontecarlo(outs).hist, Total(sizes), level)]
    BY ONLY <1>5, <2>1, <2>3, <2>4, AggregateMontecarloFacts
  <2>. QED  BY <1>7, <1>8, <2>2
<1>10. total \in Nat \ {0}
  <2>0. Dissected(tiles, N, S)
    BY <1>1, <1>2
  <2>3. IsFiniteSet(S) /\ Cardinality(S) \in Nat
    BY <2>0, DissectedCount
  <2>1. total \in Nat
    BY <1>6, <1>8, <2>3
  <2>2. total # 0
    <3>1. S # {} /\ IsFiniteSet(S)
      <4>1. /\ tiles[1].from \in Int /\ tiles[1].to \in Int /\ tiles[1].from < tiles[1].to
            /\ UNION {Span(tiles[i]) : i \in 1..N} = S
        BY <1>1, <1>2 DEF Dissected
      <4>2. Span(tiles[1]) # {}
        BY <4>1, SpanSize
      <4>3. 1 \in 1..N
        BY <1>1
      <4>. QED  BY <2>3, <4>1, <4>2, <4>3
    <3>. QED  BY <1>6, <1>8, <3>1, FS_EmptySet
  <2>. QED  BY <2>1, <2>2
<1>11. ASSUME NEW level \in VarLevels
       PROVE  /\ PathsUpTo(Summary.var[level] - 1) * 100 <= total * (100 - level)
              /\ PathsUpTo(Summary.var[level]) * 100 > total * (100 - level)
  <2>1. level \in 1..100
    BY RiskAssumption
  <2>2. PICK v : v = ReturnBin(hist, total, level)
    OBVIOUS
  <2>3. /\ Below(hist, v) * 100 > total * (100 - level)
        /\ Below(hist, v - 1) * 100 <= total * (100 - level)
    BY <1>9, <1>10, <2>1, <2>2, ReturnBinFacts, ZenonT(30)
  <2>4. Summary.var[level] = v
    BY <1>9, <2>2
  <2>5. DOMAIN hist = Bins
    BY <1>9 DEF Counted
  <2>6. \A bin : PathsUpTo(bin) = Below(hist, bin)
    BY <1>8, <2>5 DEF PathsUpTo, Below, Part
  <2>. QED  BY <2>3, <2>4, <2>6
<1>12. Count = total /\ Total(Summary.hist) = total /\ Summary.paths = total
  BY <1>2, <1>6, <1>8, <1>9 DEF Count, Counted
<1>. QED  BY <1>11, <1>12 DEF ReferenceMontecarlo

-----------------------------------------------------------------------------
(* Summaries: results in order. *)

\* The items of the first tiles.
Through(tiles, i) == UNION {Span(tiles[j]) : j \in 1..i}

\* What is made of some numbers, in their order.
Each(G, K) == [k \in 1..Cardinality(K) |-> G[InOrder(K)[k]]]

\* Tile after tile the list of items goes on.
LEMMA TilesGoOn ==
  ASSUME NEW tiles, NEW q, NEW S, Dissected(tiles, q, S), Rising(tiles, q), NEW i \in 1..q
  PROVE  /\ GoesOn(Through(tiles, i), Through(tiles, i - 1), tiles[i].from, Size(tiles[i]))
         /\ Size(tiles[i]) \in Nat
<1>1. PICK K, all : K = Through(tiles, i - 1) /\ all = Through(tiles, i)
  OBVIOUS
<1>2. /\ q \in Nat
      /\ \A j \in 1..q : tiles[j].from \in Int /\ tiles[j].to \in Int /\ tiles[j].from < tiles[j].to
  BY DEF Dissected
<1>3. PICK a, b \in Int : a = tiles[i].from /\ b = tiles[i].to /\ a < b
  BY <1>2
<1>4. PICK d \in Nat : d = Size(tiles[i]) /\ b = a + d /\ Span(tiles[i]) = a..(a + d - 1)
  <2>1. PICK d \in Nat : d = b - a /\ b = a + d /\ b - 1 = a + d - 1
    BY <1>3
  <2>. QED  BY <1>3, <2>1 DEF Size, Span
<1>5. ASSUME NEW x \in K PROVE x \in S /\ x \in Int /\ x < a
  <2>1. PICK j \in 1..(i - 1) : x \in Span(tiles[j])
    BY <1>1 DEF Through
  <2>2. j \in 1..q /\ j < i
    BY <1>2, <2>1
  <2>3. tiles[j].to <= a
    BY <1>3, <2>2 DEF Rising
  <2>4. PICK u, v \in Int : u = tiles[j].from /\ v = tiles[j].to
    BY <1>2, <2>2
  <2>5. x \in u..(v - 1) /\ v <= a
    BY <2>1, <2>3, <2>4 DEF Span
  <2>6. x \in S
    BY <2>1, <2>2 DEF Dissected
  <2>. QED  BY <1>3, <2>4, <2>5, <2>6
<1>6. all = K \cup (a..(a + d - 1))
  <2>1. 1..i = 1..(i - 1) \cup {i}
    BY <1>2
  <2>. QED  BY <1>1, <1>4, <2>1 DEF Through
<1>7. IsFiniteSet(K)
  <2>1. K \subseteq S
    BY <1>5
  <2>2. IsFiniteSet(S)
    BY DissectedCount
  <2>. QED  BY <2>1, <2>2, FS_Subset
<1>8. Numbers(K) /\ \A x \in K : x < a
  BY <1>5 DEF Numbers
<1>9. GoesOn(all, K, a, d)
  BY ONLY <1>3, <1>4, <1>6, <1>7, <1>8, ListGoesOn, a \in Int, d \in Nat
<1>. QED  BY <1>1, <1>3, <1>4, <1>9

\* What is made of each tile.
Pieces(seqs, tiles, q, G) ==
  /\ seqs = [i \in 1..q |-> seqs[i]]
  /\ \A i \in 1..q : seqs[i] = [k \in 1..Size(tiles[i]) |-> G[tiles[i].from + k - 1]]

\* Joined, the results of the tiles are those of all items in order.
LEMMA TilesJoin ==
  ASSUME NEW tiles, NEW q \in Nat \ {0}, NEW S, Dissected(tiles, q, S), Rising(tiles, q),
         NEW G, NEW seqs, Pieces(seqs, tiles, q, G)
  PROVE  FlattenSeq(seqs) = Each(G, S)
<1>. USE DEF Pieces
<1>1. PICK W : W = [i \in 1..q |-> Each(G, Through(tiles, i))]
  OBVIOUS
<1>2. PICK thru : thru = [i \in 0..q |-> Through(tiles, i)]
  OBVIOUS
<1>3. ASSUME NEW i \in 1..q, NEW j \in 0..q, j = i - 1
      PROVE  \E N, d \in Nat :
               /\ N = Cardinality(thru[j]) /\ d = Size(tiles[i]) /\ Cardinality(thru[i]) = N + d
               /\ \A k \in 1..N : InOrder(thru[i])[k] = InOrder(thru[j])[k]
               /\ \A k \in 1..d : InOrder(thru[i])[N + k] = tiles[i].from + k - 1
  <2>1. thru[j] = Through(tiles, i - 1) /\ thru[i] = Through(tiles, i)
    BY <1>2, <1>3
  <2>2. GoesOn(thru[i], thru[j], tiles[i].from, Size(tiles[i])) /\ Size(tiles[i]) \in Nat
    BY <2>1, TilesGoOn
  <2>. QED  BY <2>2 DEF GoesOn
<1>4. \A i \in 1..q : W[i] = [k \in 1..Cardinality(thru[i]) |-> G[InOrder(thru[i])[k]]]
  BY <1>1, <1>2 DEF Each
<1>5. W[1] = seqs[1]
  <2>1. 1 \in 1..q /\ 0 \in 0..q /\ 0 = 1 - 1
    OBVIOUS
  <2>2. PICK N, d \in Nat :
          /\ N = Cardinality(thru[0]) /\ d = Size(tiles[1]) /\ Cardinality(thru[1]) = N + d
          /\ \A k \in 1..d : InOrder(thru[1])[N + k] = tiles[1].from + k - 1
    BY <1>3, <2>1
  <2>3. N = 0
    <3>1. thru[0] = {}
      BY <1>2 DEF Through
    <3>. QED  BY <2>2, <3>1, FS_EmptySet
  <2>4. \A k \in 1..d : InOrder(thru[1])[k] = tiles[1].from + k - 1
    BY <2>2, <2>3
  <2>5. Cardinality(thru[1]) = d
    BY <2>2, <2>3
  <2>6. PICK u, v : u = W[1] /\ v = seqs[1]
    OBVIOUS
  <2>7. u = [k \in 1..d |-> G[InOrder(thru[1])[k]]]
    BY <1>4, <2>1, <2>5, <2>6
  <2>8. v = [k \in 1..d |-> G[tiles[1].from + k - 1]]
    BY <2>1, <2>2, <2>6
  <2>9. \A k \in 1..d : u[k] = v[k]
    BY <2>4, <2>7, <2>8
  <2>10. u = [k \in 1..d |-> u[k]] /\ v = [k \in 1..d |-> v[k]]
    BY <2>7, <2>8
  <2>11. u = v
    BY <2>9, <2>10
  <2>. QED  BY <2>6, <2>11
<1>6. ASSUME NEW i \in 1..q, i # 1 PROVE W[i] = W[i - 1] \o seqs[i]
  <2>0. PICK j \in 1..q : j = i - 1
    BY <1>6
  <2>1. PICK N, d \in Nat :
          /\ N = Cardinality(thru[j]) /\ d = Size(tiles[i]) /\ Cardinality(thru[i]) = N + d
          /\ \A k \in 1..N : InOrder(thru[i])[k] = InOrder(thru[j])[k]
          /\ \A k \in 1..d : InOrder(thru[i])[N + k] = tiles[i].from + k - 1
    <3>1. j \in 0..q
      OBVIOUS
    <3>. QED  BY <1>3, <2>0, <3>1
  <2>2. PICK u, v, w : u = W[j] /\ v = seqs[i] /\ w = W[i]
    OBVIOUS
  <2>3. w = [k \in 1..(N + d) |-> G[InOrder(thru[i])[k]]]
    BY <1>4, <2>1, <2>2
  <2>4. u = [k \in 1..N |-> G[InOrder(thru[j])[k]]]
    BY <1>4, <2>1, <2>2
  <2>5. v = [k \in 1..d |-> G[tiles[i].from + k - 1]]
    BY <2>1, <2>2
  <2>6. PICK R : R = {u[k] : k \in 1..N} \cup {v[k] : k \in 1..d}
    OBVIOUS
  <2>7. u \in Seq(R) /\ v \in Seq(R) /\ Len(u) = N /\ Len(v) = d
    <3>1. DOMAIN u = 1..N /\ u = [k \in 1..N |-> u[k]] /\ DOMAIN v = 1..d /\ v = [k \in 1..d |-> v[k]]
      BY <2>4, <2>5
    <3>2. (\A k \in 1..N : u[k] \in R) /\ (\A k \in 1..d : v[k] \in R)
      BY <2>6
    <3>3. u \in [1..N -> R] /\ v \in [1..d -> R]
      BY <3>1, <3>2
    <3>. QED  BY ONLY <3>3, N \in Nat, d \in Nat
  <2>8. u \o v = [k \in 1..(N + d) |-> IF k <= N THEN u[k] ELSE v[k - N]]
    <3>1. Follows(u \o v, u, v, N, d)
      BY ONLY <2>7, N \in Nat, d \in Nat, Concatenated
    <3>. QED  BY <3>1 DEF Follows
  <2>9. ASSUME NEW k \in 1..(N + d) PROVE w[k] = IF k <= N THEN u[k] ELSE v[k - N]
    <3>1. CASE k <= N
      <4>1. k \in 1..N
        BY <3>1
      <4>. QED  BY <2>1, <2>3, <2>4, <3>1, <4>1
    <3>2. CASE ~ (k <= N)
      <4>1. PICK e \in 1..d : e = k - N /\ k = N + e
        BY <3>2
      <4>2. w[k] = G[InOrder(thru[i])[N + e]]
        BY <2>3, <4>1
      <4>3. InOrder(thru[i])[N + e] = tiles[i].from + e - 1
        BY <2>1
      <4>4. v[e] = G[tiles[i].from + e - 1]
        BY <2>5
      <4>. QED  BY <3>2, <4>1, <4>2, <4>3, <4>4
    <3>. QED  BY <3>1, <3>2
  <2>10. w = u \o v
    <3>1. w = [k \in 1..(N + d) |-> w[k]]
      BY <2>3
    <3>. QED  BY <2>8, <2>9, <3>1
  <2>. QED  BY <2>0, <2>2, <2>10
<1>7. Len(seqs) = q
  <2>1. PICK R : R = {seqs[i] : i \in 1..q}
    OBVIOUS
  <2>2. seqs \in [1..q -> R]
    BY <2>1
  <2>. QED  BY <2>2
<1>8. W = [i \in 1..q |-> W[i]]
  BY <1>1
<1>9. FlattenSeq(seqs) = W[q]
  <2>1. \A i \in 1..q : i # 1 => W[i] = W[i - 1] \o seqs[i]
    BY <1>6
  <2>2. Grows(W, seqs, q)
    BY <1>5, <1>7, <1>8, <2>1 DEF Grows
  <2>. QED  BY <2>2, Flattened
<1>10. Through(tiles, q) = S
  BY DEF Through, Dissected
<1>11. W[q] = Each(G, S)
  <2>1. q \in 1..q
    OBVIOUS
  <2>. QED  BY <1>1, <1>10, <2>1
<1>. QED  BY <1>9, <1>11

\* The executors that ask a model leave their output for all items of the tile, too, with
\* whichever replies were of no use.
LEMMA ModelledOutput ==
  ASSUME NEW kind \in Modelled, NEW tile, NEW result \in Execute(kind, tile),
         result.status = "completed"
  PROVE  \E garbled : result.output = Output(kind, tile, FirstItems(tile, Size(tile)), garbled)
<1>1. result \in RunInOrder(kind, tile)
  BY DEF Execute, Modelled, Pooled
<1>2. result # Yielded /\ result # Failed
  BY DEF Yielded, Failed, Ran
<1>3. result \in {Ran("completed", Output(kind, tile, FirstItems(tile, Size(tile)), garbled), TRUE) :
                    garbled \in IF kind \in Modelled THEN Garblings(tile) ELSE {{}}}
  BY <1>1, <1>2 DEF RunInOrder
<1>4. PICK garbled \in IF kind \in Modelled THEN Garblings(tile) ELSE {{}} :
        result = Ran("completed", Output(kind, tile, FirstItems(tile, Size(tile)), garbled), TRUE)
  BY <1>3
<1>. QED  BY <1>4 DEF Ran

\* The items in order.
LEMMA ItemsInOrder ==
  ASSUME NEW tiles, NEW q \in Nat \ {0}, NEW S, Dissected(tiles, q, S), Rising(tiles, q),
         NEW seqs, seqs = [i \in 1..q |-> seqs[i]],
         \A i \in 1..q : seqs[i] = FirstItems(tiles[i], Size(tiles[i]))
  PROVE  FlattenSeq(seqs) = InOrder(S) /\ Len(InOrder(S)) = Cardinality(S)
<1>1. PICK G : G = [x \in Int |-> x]
  OBVIOUS
<1>2. Numbers(S) /\ IsFiniteSet(S)
  <2>1. IsFiniteSet(S)
    BY DissectedCount
  <2>2. ASSUME NEW x \in S PROVE x \in Int
    <3>1. PICK i \in 1..q : x \in Span(tiles[i])
      BY DEF Dissected
    <3>2. PICK u, v \in Int : u = tiles[i].from /\ v = tiles[i].to
      BY DEF Dissected
    <3>. QED  BY <3>1, <3>2 DEF Span
  <2>. QED  BY <2>1, <2>2 DEF Numbers
<1>3. PICK N \in Nat : N = Cardinality(S)
  BY DissectedCount
<1>4. InOrder(S) \in [1..N -> S]
  BY <1>2, <1>3, KeptPlaces DEF Listed
<1>5. \A k \in 1..N : InOrder(S)[k] \in Int
  BY <1>2, <1>4 DEF Numbers
<1>6. Each(G, S) = InOrder(S)
  <2>1. Each(G, S) = [k \in 1..N |-> G[InOrder(S)[k]]]
    BY <1>3 DEF Each
  <2>2. \A k \in 1..N : G[InOrder(S)[k]] = InOrder(S)[k]
    BY <1>1, <1>5
  <2>3. Each(G, S) = [k \in 1..N |-> InOrder(S)[k]]
    BY <2>1, <2>2
  <2>. QED  BY <1>4, <2>3
<1>7. ASSUME NEW i \in 1..q
      PROVE  seqs[i] = [k \in 1..Size(tiles[i]) |-> G[tiles[i].from + k - 1]]
  <2>1. PICK a \in Int, d \in Nat : a = tiles[i].from /\ d = Size(tiles[i])
    BY SpanSize DEF Dissected
  <2>2. \A k \in 1..d : G[a + k - 1] = a + k - 1
    BY <1>1, <2>1
  <2>3. [k \in 1..d |-> G[a + k - 1]] = [k \in 1..d |-> a + k - 1]
    BY <2>2
  <2>. QED  BY <2>1, <2>3 DEF FirstItems
<1>8. FlattenSeq(seqs) = Each(G, S)
  <2>1. \A i \in 1..q : seqs[i] = [k \in 1..Size(tiles[i]) |-> G[tiles[i].from + k - 1]]
    BY <1>7
  <2>2. Pieces(seqs, tiles, q, G)
    BY <2>1 DEF Pieces
  <2>. QED  BY <2>2, TilesJoin
<1>9. Len(InOrder(S)) = N
  <2>1. InOrder(S) \in Seq(S)
    BY <1>4
  <2>. QED  BY <1>4, <2>1
<1>. QED  BY <1>3, <1>6, <1>8, <1>9

\* The results of an inference are those of all prompts done, in order.
LEMMA InferSummary ==
  ASSUME IInv, Planned, Executed(jobs), Done # << >>, request.kind \in {"ai.infer", "ai.batch_infer"}
  PROVE  ReferenceRows(InferLimit)
<1>1. PICK N, tiles :
        /\ N \in Nat \ {0} /\ Dissected(tiles, N, ItemsDone) /\ Rising(tiles, N)
        /\ DOMAIN Outputs = 1..N /\ Outputs # << >>
        /\ \A i \in 1..N : \E result \in Execute(request.kind, tiles[i]) :
             result.status = "completed" /\ Outputs[i] = result.output
  BY ToMerge
<1>2. PICK outs, S : outs = Outputs /\ S = ItemsDone
  OBVIOUS
<1>3. ASSUME NEW i \in 1..N PROVE outs[i].results = FirstItems(tiles[i], Size(tiles[i]))
  <2>1. PICK result \in Execute(request.kind, tiles[i]) :
          result.status = "completed" /\ outs[i] = result.output
    BY <1>1, <1>2
  <2>2. request.kind \in Modelled
    BY DEF Modelled
  <2>3. PICK garbled :
          result.output = Output(request.kind, tiles[i], FirstItems(tiles[i], Size(tiles[i])), garbled)
    BY <2>1, <2>2, ModelledOutput
  <2>4. outs[i] = Infer(FirstItems(tiles[i], Size(tiles[i])))
    BY <2>1, <2>3 DEF Output
  <2>. QED  BY <2>4 DEF Infer
<1>4. PICK seqs : seqs = [i \in 1..N |-> outs[i].results]
  OBVIOUS
<1>5. FlattenSeq(seqs) = InOrder(S) /\ Len(InOrder(S)) = Cardinality(S)
  <2>1. seqs = [i \in 1..N |-> seqs[i]]
    BY <1>4
  <2>2. \A i \in 1..N : seqs[i] = FirstItems(tiles[i], Size(tiles[i]))
    BY <1>3, <1>4
  <2>3. N \in Nat \ {0} /\ Dissected(tiles, N, S) /\ Rising(tiles, N)
    BY <1>1, <1>2
  <2>. QED  BY ONLY <2>1, <2>2, <2>3, ItemsInOrder
<1>6. Summary = FirstOf(InferLimit, AllResults(outs))
  BY <1>1, <1>2 DEF Summary, Aggregate
<1>7. AllResults(outs) = FlattenSeq(seqs)
  BY <1>1, <1>2, <1>4 DEF AllResults
<1>8. Summary = FirstOf(InferLimit, Sorted)
  BY <1>2, <1>5, <1>6, <1>7 DEF Sorted
<1>9. Len(Sorted) = Count
  BY <1>2, <1>5 DEF Sorted, Count
<1>. QED  BY <1>8, <1>9 DEF FirstOf, ReferenceRows

\* Tiles whose items rise are merged as they come.
LEMMA SynthMerges ==
  ASSUME NEW tiles, NEW q \in Nat, NEW S, Dissected(tiles, q, S), Rising(tiles, q),
         NEW outs, DOMAIN outs = 1..q, \A i \in 1..q : outs[i].start = tiles[i].from
  PROVE  MergeSynth(outs) = FlattenSeq([i \in 1..q |-> outs[i].rows])
<1>1. PICK before :
        before = [i \in DOMAIN outs |->
                    {j \in DOMAIN outs : \/ outs[j].start < outs[i].start
                                        \/ (outs[j].start = outs[i].start /\ j < i)}]
  OBVIOUS
<1>2. ASSUME NEW i \in 1..q, NEW j \in 1..q, i < j PROVE outs[i].start < outs[j].start
  <2>1. PICK u, v, x \in Int : u = tiles[i].from /\ v = tiles[i].to /\ x = tiles[j].from /\ u < v
    BY DEF Dissected
  <2>2. v <= x
    BY <1>2, <2>1 DEF Rising
  <2>. QED  BY <2>1, <2>2
<1>3. \A i \in 1..q : outs[i].start \in Int
  BY DEF Dissected
<1>4. ASSUME NEW i \in 1..q PROVE before[i] = 1..(i - 1)
  <2>1. ASSUME NEW j \in 1..q PROVE j \in before[i] <=> j < i
    <3>1. j < i \/ j = i \/ i < j
      OBVIOUS
    <3>2. PICK x, y \in Int : x = outs[j].start /\ y = outs[i].start
      BY <1>3
    <3>3. CASE j < i
      BY <1>1, <1>2, <3>2, <3>3
    <3>4. CASE j = i
      BY <1>1, <3>2, <3>4
    <3>5. CASE i < j
      BY <1>1, <1>2, <3>2, <3>5
    <3>. QED  BY <3>1, <3>3, <3>4, <3>5
  <2>2. before[i] \subseteq 1..q
    BY <1>1
  <2>3. \A j : j \in 1..(i - 1) <=> j \in 1..q /\ j < i
    OBVIOUS
  <2>. QED  BY <2>1, <2>2, <2>3
<1>5. ASSUME NEW i \in 1..q PROVE Cardinality(before[i]) = i - 1
  <2>1. PICK m \in Nat : m = i - 1
    OBVIOUS
  <2>2. before[i] = 1..m /\ Cardinality(1..m) = m
    BY <1>4, <2>1, UpTo
  <2>. QED  BY <2>1, <2>2
<1>6. PICK ranked :
        ranked = [k \in DOMAIN outs |-> CHOOSE i \in DOMAIN outs : Cardinality(before[i]) = k - 1]
  OBVIOUS
<1>7. ASSUME NEW k \in 1..q PROVE ranked[k] = k
  <2>1. PICK c : c = CHOOSE i \in DOMAIN outs : Cardinality(before[i]) = k - 1
    OBVIOUS
  <2>2. c \in 1..q /\ Cardinality(before[c]) = k - 1
    BY <1>5, <2>1
  <2>3. c - 1 = k - 1
    BY <1>5, <2>2
  <2>. QED  BY <1>6, <2>1, <2>2, <2>3
<1>8. SynthOrder(outs) = ranked
  BY <1>1, <1>6 DEF SynthOrder
<1>9. \A k \in 1..q : outs[SynthOrder(outs)[k]].rows = outs[k].rows
  BY <1>7, <1>8
<1>. QED  BY <1>9 DEF MergeSynth

\* The rows of a synthesis are all that are done, in order.
LEMMA SynthSummary ==
  ASSUME IInv, Planned, Executed(jobs), Done # << >>, request.kind = "ai.synth"
  PROVE  ReferenceRows(SynthLimit)
<1>1. PICK N, tiles :
        /\ N \in Nat \ {0} /\ Dissected(tiles, N, ItemsDone) /\ Rising(tiles, N)
        /\ DOMAIN Outputs = 1..N /\ Outputs # << >>
        /\ \A i \in 1..N : \E result \in Execute("ai.synth", tiles[i]) :
             result.status = "completed" /\ Outputs[i] = result.output
  BY ToMerge
<1>2. PICK outs, S : outs = Outputs /\ S = ItemsDone
  OBVIOUS
<1>3. ASSUME NEW i \in 1..N
      PROVE  /\ outs[i].start = tiles[i].from
             /\ outs[i].rows = FirstItems(tiles[i], Size(tiles[i]))
  <2>1. PICK result \in Execute("ai.synth", tiles[i]) :
          result.status = "completed" /\ outs[i] = result.output
    BY <1>1, <1>2
  <2>2. "ai.synth" \in Modelled
    BY DEF Modelled
  <2>3. PICK garbled :
          result.output = Output("ai.synth", tiles[i], FirstItems(tiles[i], Size(tiles[i])), garbled)
    BY <2>1, <2>2, ModelledOutput
  <2>4. outs[i] = Synth(tiles[i], FirstItems(tiles[i], Size(tiles[i])))
    BY <2>1, <2>3 DEF Output
  <2>. QED  BY <2>4 DEF Synth
<1>4. PICK seqs : seqs = [i \in 1..N |-> outs[i].rows]
  OBVIOUS
<1>5. N \in Nat \ {0} /\ Dissected(tiles, N, S) /\ Rising(tiles, N)
  BY <1>1, <1>2
<1>6. FlattenSeq(seqs) = InOrder(S) /\ Len(InOrder(S)) = Cardinality(S)
  <2>1. seqs = [i \in 1..N |-> seqs[i]]
    BY <1>4
  <2>2. \A i \in 1..N : seqs[i] = FirstItems(tiles[i], Size(tiles[i]))
    BY <1>3, <1>4
  <2>. QED  BY ONLY <1>5, <2>1, <2>2, ItemsInOrder
<1>7. MergeSynth(outs) = FlattenSeq(seqs)
  <2>1. DOMAIN outs = 1..N /\ \A i \in 1..N : outs[i].start = tiles[i].from
    BY <1>1, <1>2, <1>3
  <2>2. MergeSynth(outs) = FlattenSeq([i \in 1..N |-> outs[i].rows])
    BY ONLY <1>5, <2>1, SynthMerges
  <2>. QED  BY <1>4, <2>2
<1>8. Summary = FirstOf(SynthLimit, MergeSynth(outs))
  BY <1>1, <1>2 DEF Summary, Aggregate
<1>9. Summary = FirstOf(SynthLimit, Sorted)
  BY <1>2, <1>6, <1>7, <1>8 DEF Sorted
<1>10. Len(Sorted) = Count
  BY <1>2, <1>6 DEF Sorted, Count
<1>. QED  BY <1>9, <1>10 DEF FirstOf, ReferenceRows

-----------------------------------------------------------------------------
(* Summaries: grades. *)

\* A score is a number of points.
Points == 0..10

\* _ai_eval_one: whatever the reply, the answer gets its label and so many points.
LEMMA GradedFacts ==
  ASSUME NEW x, NEW garbled, Reply[x].score \in Int
  PROVE  /\ Graded(x, garbled).label = Reply[x].label /\ Graded(x, garbled).score \in Points
         /\ Clamp(Graded(x, garbled).score) = Graded(x, garbled).score
<1>1. PICK s \in Int : s = Reply[x].score
  OBVIOUS
<1>2. PICK r : r = Graded(x, garbled)
  OBVIOUS
<1>3. r.label = Reply[x].label /\ r.score = IF x \in garbled THEN 0 ELSE Clamp(s)
  BY <1>1, <1>2 DEF Graded
<1>4. Clamp(s) \in Points
  BY <1>1 DEF Clamp, Points
<1>5. r.score \in Points
  BY <1>3, <1>4 DEF Points
<1>6. Clamp(r.score) = r.score
  BY <1>5 DEF Clamp, Points
<1>. QED  BY <1>2, <1>3, <1>5, <1>6

\* Rows of answers, each of the items S once: their labels, and points.
Answers(rows, S, m) ==
  /\ m \in Nat /\ Len(rows) = m /\ DOMAIN rows = 1..m
  /\ \A k \in 1..m : rows[k].score \in Points /\ Clamp(rows[k].score) = rows[k].score
  /\ \E p \in [1..m -> S] : /\ \A i, k \in 1..m : p[i] = p[k] => i = k
                            /\ \A x \in S : \E k \in 1..m : p[k] = x
                            /\ \A k \in 1..m : rows[k].label = Reply[p[k]].label

\* Where the rows of a label are, and those of so many points.
OfLabel(rows, label) == {k \in DOMAIN rows : rows[k].label = label}
OfPoints(rows, points) == {k \in DOMAIN rows : Clamp(rows[k].score) = points}

\* As many rows have a label as answers.
LEMMA LabelCount ==
  ASSUME NEW rows, NEW S, NEW m, Answers(rows, S, m), NEW label
  PROVE  Cardinality(OfLabel(rows, label)) = Cardinality({x \in S : Reply[x].label = label})
<1>1. PICK p \in [1..m -> S] : /\ \A i, k \in 1..m : p[i] = p[k] => i = k
                               /\ \A x \in S : \E k \in 1..m : p[k] = x
                               /\ \A k \in 1..m : rows[k].label = Reply[p[k]].label
  BY DEF Answers
<1>2. PICK A, B : A = OfLabel(rows, label) /\ B = {x \in S : Reply[x].label = label}
  OBVIOUS
<1>3. A \subseteq 1..m /\ \A k \in 1..m : k \in A <=> rows[k].label = label
  BY <1>2 DEF Answers, OfLabel
<1>4. PICK f : f = [k \in A |-> p[k]]
  OBVIOUS
<1>5. f \in [A -> B]
  BY <1>1, <1>2, <1>3, <1>4
<1>6. \A i, k \in A : f[i] = f[k] => i = k
  BY <1>1, <1>3, <1>4
<1>7. ASSUME NEW x \in B PROVE \E k \in A : f[k] = x
  <2>1. PICK k \in 1..m : p[k] = x
    BY <1>1, <1>2
  <2>2. k \in A
    BY <1>1, <1>2, <1>3, <2>1
  <2>. QED  BY <1>4, <2>1, <2>2
<1>8. IsFiniteSet(A)
  <2>1. IsFiniteSet(1..m)
    BY UpTo DEF Answers
  <2>. QED  BY <1>3, <2>1, FS_Subset
<1>9. Cardinality(B) = Cardinality(A)
  BY <1>5, <1>6, <1>7, <1>8, SameCount
<1>. QED  BY <1>2, <1>9

\* The points of the answers, how many answers got each number of points, these numbers of points
\* weighed, and the points by label.
Tallied(rows, m, points, dist, weighed, sums) ==
  /\ points = [k \in 1..m |-> rows[k].score]
  /\ dist = [s \in Points |-> Cardinality(OfPoints(rows, s))]
  /\ weighed = [s \in Points |-> s * dist[s]]
  /\ sums = [label \in {rows[k].label : k \in 1..m} |->
               Total([k \in OfLabel(rows, label) |-> Clamp(rows[k].score)])]

\* The points of all answers, added up by score and by label.
LEMMA PointsAddUp ==
  ASSUME NEW rows, NEW S, NEW m, Answers(rows, S, m),
         NEW points, NEW dist, NEW weighed, NEW sums, Tallied(rows, m, points, dist, weighed, sums)
  PROVE  Total(dist) = m /\ Total(points) = Total(weighed) /\ Total(sums) = Total(points)
<1>9. PICK labels : labels = {rows[k].label : k \in 1..m}
  OBVIOUS
<1>0. /\ points = [k \in 1..m |-> rows[k].score]
      /\ dist = [s \in Points |-> Cardinality(OfPoints(rows, s))]
      /\ weighed = [s \in Points |-> s * dist[s]]
      /\ sums = [label \in labels |->
                   Total([k \in OfLabel(rows, label) |-> Clamp(rows[k].score)])]
  BY <1>9 DEF Tallied
<1>1. /\ m \in Nat /\ DOMAIN rows = 1..m
      /\ \A k \in 1..m : rows[k].score \in Points /\ Clamp(rows[k].score) = rows[k].score
  BY DEF Answers
<1>2. PICK D : D = 1..m /\ IsFiniteSet(D) /\ Cardinality(D) = m
  BY <1>1, UpTo
<1>3. points \in [D -> Int] /\ points \in [D -> Points] /\ \A k \in D : points[k] = rows[k].score
  BY <1>0, <1>1, <1>2 DEF Points
<1>4. IsFiniteSet(Points) /\ \A s \in Points : s \in Int
  <2>1. PICK most \in Int : most = 10
    OBVIOUS
  <2>2. IsFiniteSet(0..most)
    BY FS_Interval
  <2>. QED  BY <2>1, <2>2 DEF Points
<1>5. PICK at : at = [s \in Points |-> OfPoints(rows, s)]
  OBVIOUS
<1>6. ASSUME NEW s \in Points
      PROVE  /\ at[s] = {k \in D : points[k] = s} /\ at[s] \in SUBSET D
             /\ IsFiniteSet(at[s]) /\ dist[s] = Cardinality(at[s]) /\ dist[s] \in Int
  <2>1. OfPoints(rows, s) = {k \in D : points[k] = s}
    BY <1>1, <1>2, <1>3 DEF OfPoints
  <2>2. IsFiniteSet(at[s])
    BY <1>2, <1>5, <2>1, FS_Subset
  <2>3. dist[s] = Cardinality(at[s])
    BY <1>0, <1>5
  <2>. QED  BY <1>5, <2>1, <2>2, <2>3, FS_CardinalityType
<1>7. dist \in [Points -> Int]
  BY <1>0, <1>6
<1>8. Total(dist) = m
  <2>1. Separate(at, Points)
    <3>1. \A s \in Points : \A k : k \in at[s] => points[k] = s
      BY <1>6
    <3>. QED  BY <3>1 DEF Separate
  <2>2. \A k \in D : \E s \in Points : k \in at[s]
    BY <1>3, <1>6
  <2>3. UNION {at[s] : s \in Points} = D
    BY <1>6, <2>2
  <2>4. \A s \in Points : IsFiniteSet(at[s])
    BY <1>6
  <2>5. \A s \in Points : dist[s] = Cardinality(at[s])
    BY <1>6
  <2>6. PICK C, f : C = Points /\ f = dist
    OBVIOUS
  <2>7. f \in [C -> Int] /\ IsFiniteSet(C) /\ Separate(at, C)
    BY <1>4, <1>7, <2>1, <2>6
  <2>8. \A s \in C : IsFiniteSet(at[s])
    BY <2>4, <2>6
  <2>9. \A s \in C : f[s] = Cardinality(at[s])
    BY <2>5, <2>6
  <2>10. Total(f) = Cardinality(UNION {at[s] : s \in C})
    BY ONLY <2>7, <2>8, <2>9, SumOfSizes
  <2>. QED  BY <1>2, <2>3, <2>6, <2>10
<1>10. Total(weighed) = Total(points)
  <2>1. weighed \in [Points -> Int]
    BY <1>0, <1>4, <1>6
  <2>2. ASSUME NEW s \in Points PROVE weighed[s] = Part(points, at[s])
    <3>1. PICK A \in SUBSET D : A = at[s] /\ A = {k \in D : points[k] = s} /\ dist[s] = Cardinality(A)
      BY <1>6
    <3>2. \A k \in A : points[k] = s
      BY <3>1
    <3>3. s \in Int /\ points \in [D -> Int] /\ IsFiniteSet(D)
      BY <1>2, <1>3, <1>4
    <3>4. Part(points, A) = s * Cardinality(A)
      BY ONLY <3>2, <3>3, A \in SUBSET D, ConstantSum
    <3>. QED  BY <1>0, <3>1, <3>4
  <2>3. Classed(at, points, D, Points)
    BY <1>3, <1>6 DEF Classed
  <2>4. points \in [D -> Int] /\ IsFiniteSet(D) /\ IsFiniteSet(Points)
    BY <1>2, <1>3, <1>4
  <2>5. \A s \in Points : weighed[s] = Part(points, at[s])
    BY <2>2
  <2>. QED  BY ONLY <2>1, <2>3, <2>4, <2>5, SumByClass
<1>11. PICK label : label = [k \in D |-> rows[k].label]
  OBVIOUS
<1>12. IsFiniteSet(labels) /\ label \in [D -> labels]
  <2>1. label \in [D -> labels] /\ \A x \in labels : \E k \in D : label[k] = x
    BY <1>2, <1>9, <1>11
  <2>2. label \in Surjection(D, labels)
    BY <2>1, Fun_IsSurj
  <2>. QED  BY <1>2, <2>1, <2>2, FS_Surjection
<1>13. PICK having : having = [l \in labels |-> OfLabel(rows, l)]
  OBVIOUS
<1>14. ASSUME NEW l \in labels
       PROVE  having[l] = {k \in D : label[k] = l} /\ having[l] \in SUBSET D
  <2>1. OfLabel(rows, l) = {k \in D : label[k] = l}
    BY <1>1, <1>2, <1>11 DEF OfLabel
  <2>. QED  BY <1>13, <2>1
<1>15. ASSUME NEW l \in labels
       PROVE  sums[l] = Part(points, having[l]) /\ Part(points, having[l]) \in Int
  <2>1. PICK A \in SUBSET D : A = having[l] /\ A = OfLabel(rows, l)
    BY <1>13, <1>14
  <2>2. \A k \in A : Clamp(rows[k].score) = points[k]
    BY <1>1, <1>2, <1>3
  <2>3. [k \in A |-> Clamp(rows[k].score)] = [k \in A |-> points[k]]
    BY <2>2
  <2>4. sums[l] = Total([k \in A |-> Clamp(rows[k].score)])
    BY <1>0, <2>1
  <2>5. sums[l] = Part(points, A)
    BY <2>3, <2>4 DEF Part
  <2>6. Part(points, A) \in Int
    BY <1>2, <1>3, PartFacts
  <2>. QED  BY <2>1, <2>5, <2>6
<1>16. Total(sums) = Total(points)
  <2>1. sums \in [labels -> Int]
    <3>1. \A l \in labels : sums[l] \in Int
      BY <1>15
    <3>2. sums = [l \in labels |-> sums[l]]
      BY <1>0
    <3>. QED  BY <3>1, <3>2
  <2>2. Classed(having, label, D, labels)
    BY <1>12, <1>14 DEF Classed
  <2>3. \A l \in labels : sums[l] = Part(points, having[l])
    BY <1>15
  <2>4. points \in [D -> Int] /\ IsFiniteSet(D) /\ IsFiniteSet(labels)
    BY <1>2, <1>3, <1>12
  <2>. QED  BY ONLY <2>1, <2>2, <2>3, <2>4, SumByClass
<1>. QED  BY <1>8, <1>10, <1>16

\* aggregate_eval: what it makes of the rows.
LEMMA AggregateEvalFacts ==
  ASSUME NEW outs, NEW rows, rows = AllResults(outs), NEW S, NEW m, Answers(rows, S, m),
         NEW summary, summary = AggregateEval(outs)
  PROVE  /\ summary.overall.n = m /\ Total(summary.distribution) = m
         /\ summary.overall.sum = Total([s \in Points |-> s * summary.distribution[s]])
         /\ \A label \in DOMAIN summary.leaderboard :
              summary.leaderboard[label].n = Cardinality({x \in S : Reply[x].label = label})
         /\ Total([label \in DOMAIN summary.leaderboard |-> summary.leaderboard[label].sum])
              = summary.overall.sum
<1>1. DOMAIN rows = 1..m /\ Len(rows) = m
  BY DEF Answers
<1>2. PICK points : points = [k \in 1..m |-> rows[k].score]
  OBVIOUS
<1>3. PICK dist : dist = [s \in Points |-> Cardinality(OfPoints(rows, s))]
  OBVIOUS
<1>4. PICK labels : labels = {rows[k].label : k \in 1..m}
  OBVIOUS
<1>5. PICK weighed, sums :
        /\ weighed = [s \in Points |-> s * dist[s]]
        /\ sums = [label \in labels |->
                     Total([k \in OfLabel(rows, label) |-> Clamp(rows[k].score)])]
  OBVIOUS
<1>6. PICK board : board = [label \in labels |->
                              [sum |-> Total([k \in OfLabel(rows, label) |-> Clamp(rows[k].score)]),
                               n |-> Cardinality(OfLabel(rows, label))]]
  OBVIOUS
<1>7. summary = [overall |-> [sum |-> Total(points), n |-> m], distribution |-> dist,
                 leaderboard |-> board]
  BY <1>1, <1>2, <1>3, <1>4, <1>6 DEF AggregateEval, Sum, OfPoints, OfLabel, Points
<1>8. /\ summary.overall.n = m /\ summary.overall.sum = Total(points)
      /\ summary.distribution = dist /\ summary.leaderboard = board
  BY <1>7
<1>9. /\ Total(dist) = m /\ Total(points) = Total(weighed) /\ Total(sums) = Total(points)
      /\ Total(weighed) = Total([s \in Points |-> s * dist[s]])
  <2>1. Tallied(rows, m, points, dist, weighed, sums)
    BY <1>2, <1>3, <1>4, <1>5 DEF Tallied
  <2>2. Total(dist) = m /\ Total(points) = Total(weighed) /\ Total(sums) = Total(points)
    BY ONLY <2>1, Answers(rows, S, m), PointsAddUp
  <2>3. Total(weighed) = Total([s \in Points |-> s * dist[s]])
    BY <1>5
  <2>. QED  BY <2>2, <2>3
<1>10. DOMAIN board = labels
  BY <1>6
<1>11. ASSUME NEW label \in labels
       PROVE  board[label].n = Cardinality({x \in S : Reply[x].label = label})
  <2>1. board[label].n = Cardinality(OfLabel(rows, label))
    BY <1>6
  <2>. QED  BY <2>1, LabelCount
<1>12. [label \in labels |-> board[label].sum] = sums
  BY <1>5, <1>6
<1>. QED  BY <1>8, <1>9, <1>10, <1>11, <1>12

\* Every answer done has its place in the distribution and on the leaderboard, with its points.
LEMMA EvalSummary ==
  ASSUME IInv, Planned, Executed(jobs), Done # << >>, request.kind = "ai.eval"
  PROVE  ReferenceEval
<1>1. PICK N, tiles :
        /\ N \in Nat \ {0} /\ Dissected(tiles, N, ItemsDone) /\ Rising(tiles, N)
        /\ DOMAIN Outputs = 1..N /\ Outputs # << >>
        /\ \A i \in 1..N : \E result \in Execute("ai.eval", tiles[i]) :
             result.status = "completed" /\ Outputs[i] = result.output
  BY ToMerge
<1>2. PICK outs, S : outs = Outputs /\ S = ItemsDone
  OBVIOUS
<1>3. ASSUME NEW x \in S PROVE x \in Int /\ Reply[x].score \in Int
  <2>1. /\ x \in Int /\ request.base <= x /\ x < request.base + ItemsOf(request, n)
    BY <1>2, DoneFacts
  <2>2. RequestOK(request)
    BY WorkloadAssumption DEF IInv, Kept, LaunchInv
  <2>3. request.base = 0 /\ ItemsOf(request, n) = request.size /\ request.size \in Nat
    BY <2>2 DEF RequestOK, ItemsOf
  <2>4. x \in 0..(request.size - 1)
    BY <2>1, <2>3
  <2>. QED  BY <2>1, <2>2, <2>4 DEF RequestOK
<1>4. N \in Nat \ {0} /\ Dissected(tiles, N, S) /\ Rising(tiles, N)
  BY <1>1, <1>2
<1>5. \A i \in 1..N : \E garbled :
        outs[i] = Eval(FirstItems(tiles[i], Size(tiles[i])), garbled)
  <2>. SUFFICES ASSUME NEW i \in 1..N
                PROVE  \E garbled : outs[i] = Eval(FirstItems(tiles[i], Size(tiles[i])), garbled)
    OBVIOUS
  <2>1. PICK result \in Execute("ai.eval", tiles[i]) :
          result.status = "completed" /\ outs[i] = result.output
    BY <1>1, <1>2
  <2>2. "ai.eval" \in Modelled
    BY DEF Modelled
  <2>3. PICK garbled :
          result.output = Output("ai.eval", tiles[i], FirstItems(tiles[i], Size(tiles[i])), garbled)
    BY <2>1, <2>2, ModelledOutput
  <2>4. outs[i] = Eval(FirstItems(tiles[i], Size(tiles[i])), garbled)
    BY <2>1, <2>3 DEF Output
  <2>. QED  BY <2>4
<1>6. PICK lost : lost = [i \in 1..N |-> CHOOSE garbled :
                             outs[i] = Eval(FirstItems(tiles[i], Size(tiles[i])), garbled)]
  OBVIOUS
<1>7. \A i \in 1..N : outs[i] = Eval(FirstItems(tiles[i], Size(tiles[i])), lost[i])
  BY <1>5, <1>6
<1>8. PICK in : in = [x \in S |-> CHOOSE i \in 1..N : x \in Span(tiles[i])]
  OBVIOUS
<1>9. ASSUME NEW i \in 1..N, NEW x \in Span(tiles[i]) PROVE x \in S /\ in[x] = i
  <2>1. x \in S
    BY <1>4 DEF Dissected
  <2>2. in[x] \in 1..N /\ x \in Span(tiles[in[x]])
    BY <1>8, <2>1
  <2>3. \A j, k \in 1..N : j # k => Span(tiles[j]) \cap Span(tiles[k]) = {}
    BY <1>4 DEF Dissected
  <2>. QED  BY <2>1, <2>2, <2>3
<1>10. PICK G : G = [x \in S |-> Graded(x, lost[in[x]])]
  OBVIOUS
<1>11. PICK seqs : seqs = [i \in 1..N |-> outs[i].results]
  OBVIOUS
<1>12. ASSUME NEW i \in 1..N
       PROVE  seqs[i] = [k \in 1..Size(tiles[i]) |-> G[tiles[i].from + k - 1]]
  <2>1. PICK a, b \in Int, d \in Nat :
          a = tiles[i].from /\ b = tiles[i].to /\ d = Size(tiles[i]) /\ b = a + d
    <3>1. tiles[i].from \in Int /\ tiles[i].to \in Int /\ tiles[i].from < tiles[i].to
      BY <1>4 DEF Dissected
    <3>2. PICK u, v \in Int : u = tiles[i].from /\ v = tiles[i].to /\ u < v
      BY <3>1
    <3>3. PICK e \in Nat : e = v - u /\ v = u + e
      BY <3>2
    <3>. QED  BY <3>2, <3>3 DEF Size
  <2>2. PICK done : done = [k \in 1..d |-> a + k - 1]
    OBVIOUS
  <2>3. FirstItems(tiles[i], Size(tiles[i])) = done
    BY <2>1, <2>2 DEF FirstItems
  <2>4. seqs[i] = [k \in 1..d |-> Graded(done[k], lost[i])]
    <3>1. DOMAIN done = 1..d
      BY <2>2
    <3>2. PICK garbled : garbled = lost[i]
      OBVIOUS
    <3>3. outs[i] = Eval(done, garbled)
      BY <1>7, <2>3, <3>2
    <3>4. Eval(done, garbled).results = [k \in DOMAIN done |-> Graded(done[k], garbled)]
      BY DEF Eval
    <3>5. seqs[i] = Eval(done, garbled).results
      BY <1>11, <3>3
    <3>. QED  BY <3>1, <3>2, <3>4, <3>5
  <2>5. ASSUME NEW k \in 1..d PROVE Graded(done[k], lost[i]) = G[a + k - 1]
    <3>1. PICK x \in Int : x = a + k - 1 /\ done[k] = x
      BY <2>1, <2>2
    <3>2. x \in Span(tiles[i])
      BY <2>1, <3>1 DEF Span
    <3>3. x \in S /\ in[x] = i
      BY <1>9, <3>2
    <3>. QED  BY <1>10, <3>1, <3>3
  <2>. QED  BY <2>1, <2>4, <2>5
<1>13. PICK rows : rows = AllResults(outs)
  OBVIOUS
<1>14. rows = Each(G, S)
  <2>1. Pieces(seqs, tiles, N, G)
    BY <1>11, <1>12 DEF Pieces
  <2>2. FlattenSeq(seqs) = Each(G, S)
    BY <1>4, <2>1, TilesJoin
  <2>. QED  BY <1>1, <1>2, <1>11, <1>13, <2>2 DEF AllResults
<1>15. PICK m \in Nat : m = Cardinality(S)
  BY <1>4, DissectedCount
<1>16. Answers(rows, S, m)
  <2>1. IsFiniteSet(S) /\ Numbers(S)
    BY <1>3, <1>4, DissectedCount DEF Numbers
  <2>2. PICK p : p = InOrder(S)
    OBVIOUS
  <2>3. Listed(S, p, m)
    BY <1>15, <2>1, <2>2, KeptPlaces
  <2>4. p \in [1..m -> S] /\ \A x \in S : \E k \in 1..m : p[k] = x
    BY <2>3 DEF Listed
  <2>5. ASSUME NEW i \in 1..m, NEW k \in 1..m, p[i] = p[k] PROVE i = k
    <3>1. i < k \/ i = k \/ k < i
      OBVIOUS
    <3>2. PICK y \in Int : y = p[i] /\ y = p[k]
      BY <1>3, <2>4, <2>5
    <3>3. ~ (y < y)
      OBVIOUS
    <3>. QED  BY <2>3, <3>1, <3>2, <3>3 DEF Listed
  <2>6. rows = [k \in 1..m |-> G[p[k]]]
    BY <1>14, <1>15, <2>2 DEF Each
  <2>7. ASSUME NEW k \in 1..m
        PROVE  /\ rows[k].label = Reply[p[k]].label /\ rows[k].score \in Points
               /\ Clamp(rows[k].score) = rows[k].score
    <3>1. PICK x \in S : x = p[k]
      BY <2>4
    <3>2. rows[k] = Graded(x, lost[in[x]])
      BY <1>10, <2>6, <3>1
    <3>3. Reply[x].score \in Int
      BY <1>3
    <3>. QED  BY <3>1, <3>2, <3>3, GradedFacts
  <2>8. Len(rows) = m /\ DOMAIN rows = 1..m
    <3>1. PICK R : R = {rows[k] : k \in 1..m}
      OBVIOUS
    <3>2. rows \in [1..m -> R]
      BY <2>6, <3>1
    <3>3. rows \in Seq(R)
      BY <3>2
    <3>. QED  BY <3>2, <3>3
  <2>. QED  BY <2>4, <2>5, <2>7, <2>8 DEF Answers
<1>17. PICK summary : summary = AggregateEval(outs) /\ summary = Summary
  BY <1>1, <1>2 DEF Summary, Aggregate
<1>18. /\ summary.overall.n = m /\ Total(summary.distribution) = m
       /\ summary.overall.sum = Total([s \in Points |-> s * summary.distribution[s]])
       /\ \A label \in DOMAIN summary.leaderboard :
            summary.leaderboard[label].n = Cardinality({x \in S : Reply[x].label = label})
       /\ Total([label \in DOMAIN summary.leaderboard |-> summary.leaderboard[label].sum])
            = summary.overall.sum
  BY ONLY <1>13, <1>16, <1>17, AggregateEvalFacts
<1>. QED  BY <1>2, <1>15, <1>17, <1>18 DEF ReferenceEval, Count, Points

-----------------------------------------------------------------------------
(* Summaries: graphs. *)

\* What is added at a step of the folds of ai.graph: a name, a document unless its reply is
\* garbled, an edge, the graph of a tile.
Adds(what, garbled, so, x) ==
  CASE what = "name" -> IF Contains(so, x) THEN so ELSE Append(so, x)
    [] what = "document" ->
         IF x \in garbled THEN so
         ELSE [nodes |-> Fresh(Doc[x].nodes, so.nodes), edges |-> so.edges \o Doc[x].edges]
    [] what = "edge" -> AddEdge(so, x)
    [] what = "tile" -> FoldLeft(AddEdge, [so EXCEPT !.nodes = Fresh(x.nodes, @)], x.edges)

\* What such a fold computes on the subsets of its places.
FoldAdds(g, what, garbled, base, s) ==
  g = [T \in SUBSET DOMAIN s |->
         IF T = {} THEN base ELSE LET i == Max(T) IN Adds(what, garbled, g[T \ {i}], s[i])]

\* There is such a fold.
LEMMA FoldAddsExists ==
  ASSUME NEW m \in Nat, NEW s, DOMAIN s = 1..m, NEW what, NEW garbled, NEW V, NEW base \in V,
         \A v \in V, i \in 1..m : Adds(what, garbled, v, s[i]) \in V
  PROVE  \E g : FoldAdds(g, what, garbled, base, s)
<1>. DEFINE op == [p \in (1..m) \X V |-> Adds(what, garbled, p[2], s[p[1]])]
<1>1. op \in [(1..m) \X V -> V] /\ \A i \in 1..m, v \in V : op[<<i, v>>] = Adds(what, garbled, v, s[i])
  OBVIOUS
<1>. HIDE DEF op
<1>2. PICK g \in [SUBSET (1..m) -> V] :
        \A T \in SUBSET (1..m) : g[T] = IF T = {} THEN base ELSE op[<<Max(T), g[T \ {Max(T)}]>>]
  <2>1. op \in [(1..m) \X V -> V]
    BY <1>1
  <2>2. \E g \in [SUBSET (1..m) -> V] : LeftFolding(g, m, base, op)
    BY <2>1, LeftFold
  <2>. QED  BY <2>2 DEF LeftFolding
<1>3. ASSUME NEW T \in SUBSET (1..m), T # {}
      PROVE  g[T] = LET i == Max(T) IN Adds(what, garbled, g[T \ {i}], s[i])
  <2>1. IsFiniteSet(T) /\ Numbers(T)
    BY UpTo, FS_Subset DEF Numbers
  <2>2. Max(T) \in T
    BY <1>3, <2>1, Extremes
  <2>3. Max(T) \in 1..m /\ g[T \ {Max(T)}] \in V
    BY <2>2
  <2>. QED  BY <1>1, <1>2, <1>3, <2>3
<1>4. g[{}] = base
  BY <1>2
<1>5. g = [T \in SUBSET (1..m) |-> g[T]]
  OBVIOUS
<1>6. FoldAdds(g, what, garbled, base, s)
  BY <1>3, <1>4, <1>5 DEF FoldAdds
<1>. QED  BY <1>6

\* What there is after each step: base first, value last.
Stepwise(h, m, what, garbled, base, s, value) ==
  /\ h[0] = base /\ h[m] = value
  /\ \A j \in 1..m : h[j] = Adds(what, garbled, h[j - 1], s[j])

\* Step by step.
LEMMA FoldAddsSteps ==
  ASSUME NEW m \in Nat, NEW s, DOMAIN s = 1..m, NEW what, NEW garbled, NEW base,
         NEW g, FoldAdds(g, what, garbled, base, s)
  PROVE  \E h : Stepwise(h, m, what, garbled, base, s, g[1..m])
<1>1. \A T \in SUBSET (1..m) :
        g[T] = IF T = {} THEN base ELSE LET i == Max(T) IN Adds(what, garbled, g[T \ {i}], s[i])
  BY DEF FoldAdds
<1>2. PICK h : h = [j \in 0..m |-> g[1..j]]
  OBVIOUS
<1>3. h[0] = base
  <2>1. 1..0 = {} /\ 1..0 \in SUBSET (1..m) /\ 0 \in 0..m
    OBVIOUS
  <2>. QED  BY <1>1, <1>2, <2>1
<1>4. h[m] = g[1..m]
  BY <1>2
<1>5. ASSUME NEW j \in 1..m PROVE h[j] = Adds(what, garbled, h[j - 1], s[j])
  <2>1. /\ 1..j \in SUBSET (1..m) /\ 1..j # {} /\ (1..j) \ {j} = 1..(j - 1)
        /\ j \in 0..m /\ j - 1 \in 0..m
    BY ONLY m \in Nat, j \in 1..m
  <2>2. Max(1..j) = j
    BY MaxUpTo
  <2>3. g[1..j] = Adds(what, garbled, g[1..(j - 1)], s[j])
    BY <1>1, <2>1, <2>2
  <2>. QED  BY <1>2, <2>1, <2>3
<1>. QED  BY <1>3, <1>4, <1>5 DEF Stepwise

\* Fresh folds over names.
NamesFolded(g, names, seen) ==
  g = [T \in SUBSET DOMAIN names |->
         IF T = {} THEN seen
         ELSE LET i == Max(T) IN
              IF Contains(g[T \ {i}], names[i]) THEN g[T \ {i}]
              ELSE Append(g[T \ {i}], names[i])]

LEMMA FreshIsFolded ==
  ASSUME NEW names, NEW seen
  PROVE  Fresh(names, seen) = (CHOOSE g : NamesFolded(g, names, seen))[DOMAIN names]
BY DEF Fresh, FoldLeft, MapThenFoldSet, NamesFolded

\* Fresh, name by name.
LEMMA FreshSteps ==
  ASSUME NEW U, NEW names \in Seq(U), NEW seen \in Seq(U), NEW m \in Nat, m = Len(names)
  PROVE  \E h : Stepwise(h, m, "name", {}, seen, names, Fresh(names, seen))
<1>1. DOMAIN names = 1..m
  OBVIOUS
<1>2. PICK V : V = Seq(U)
  OBVIOUS
<1>3. \A v \in V, i \in 1..m : Adds("name", {}, v, names[i]) \in V
  BY <1>1, <1>2 DEF Adds
<1>4. \A g : NamesFolded(g, names, seen) <=> FoldAdds(g, "name", {}, seen, names)
  BY DEF NamesFolded, FoldAdds, Adds
<1>5. PICK g : g = CHOOSE f : NamesFolded(f, names, seen)
  OBVIOUS
<1>6. FoldAdds(g, "name", {}, seen, names)
  <2>1. seen \in V
    BY <1>2
  <2>2. \E f : FoldAdds(f, "name", {}, seen, names)
    BY <1>1, <1>3, <2>1, FoldAddsExists
  <2>. QED  BY <1>4, <1>5, <2>2
<1>7. \E h : Stepwise(h, m, "name", {}, seen, names, g[1..m])
  BY <1>1, <1>6, FoldAddsSteps
<1>8. Fresh(names, seen) = g[1..m]
  BY <1>1, <1>5, FreshIsFolded
<1>. QED  BY <1>7, <1>8

\* Fresh: what is seen, and the names, no name twice.
LEMMA FreshFacts ==
  ASSUME NEW U, NEW names, NEW N, ListOf(names, U, N), NEW seen, NEW A, ListOf(seen, U, A)
  PROVE  /\ ListOf(Fresh(names, seen), U, A \cup N)
         /\ IsInjective(seen) => IsInjective(Fresh(names, seen))
<1>1. PICK m \in Nat : m = Len(names) /\ DOMAIN names = 1..m
  BY DEF ListOf
<1>2. PICK h : Stepwise(h, m, "name", {}, seen, names, Fresh(names, seen))
  <2>1. names \in Seq(U) /\ seen \in Seq(U)
    BY DEF ListOf
  <2>. QED  BY <1>1, <2>1, FreshSteps
<1>. DEFINE first(j) == {names[k] : k \in 1..j}
            Q == {j \in 0..m : /\ ListOf(h[j], U, A \cup first(j))
                               /\ IsInjective(seen) => IsInjective(h[j])}
<1>3. 0 \in Q
  <2>1. first(0) = {} /\ h[0] = seen
    BY <1>2 DEF Stepwise
  <2>2. A \cup first(0) = A
    BY <2>1
  <2>3. ListOf(h[0], U, A \cup first(0)) /\ (IsInjective(seen) => IsInjective(h[0]))
    BY ONLY <2>1, <2>2, ListOf(seen, U, A)
  <2>. QED  BY ONLY <2>3, m \in Nat
<1>4. ASSUME NEW j \in 0..(m - 1), j \in Q PROVE j + 1 \in Q
  <2>1. j + 1 \in 1..m /\ j + 1 \in 0..m /\ (j + 1) - 1 = j /\ 1..(j + 1) = (1..j) \cup {j + 1}
    OBVIOUS
  <2>2. PICK list, x : list = h[j] /\ x = names[j + 1]
    OBVIOUS
  <2>3. PICK B : B = A \cup first(j)
    OBVIOUS
  <2>4. first(j + 1) = first(j) \cup {x}
    BY <2>1, <2>2
  <2>5. ListOf(list, U, B) /\ (IsInjective(seen) => IsInjective(list))
    BY <1>4, <2>2, <2>3
  <2>6. x \in U
    BY <1>1, <2>1, <2>2 DEF ListOf
  <2>. HIDE DEF first
  <2>7. h[j + 1] = IF Contains(list, x) THEN list ELSE Append(list, x)
    BY <1>2, <2>1, <2>2 DEF Stepwise, Adds
  <2>8. /\ Contains(list, x) <=> x \in B
        /\ ListOf(Append(list, x), U, B \cup {x})
        /\ IsInjective(list) /\ x \notin B => IsInjective(Append(list, x))
    BY <2>5, <2>6, ListsAppend
  <2>9. A \cup first(j + 1) = B \cup {x}
    BY <2>3, <2>4
  <2>10. ListOf(h[j + 1], U, B \cup {x}) /\ (IsInjective(seen) => IsInjective(h[j + 1]))
    <3>1. CASE x \in B
      <4>1. B \cup {x} = B /\ h[j + 1] = list
        BY <2>7, <2>8, <3>1
      <4>. QED  BY <2>5, <4>1
    <3>2. CASE x \notin B
      BY <2>5, <2>7, <2>8, <3>2
    <3>. QED  BY <3>1, <3>2
  <2>. QED  BY <2>1, <2>9, <2>10
<1>5. m \in Q
  <2>. HIDE DEF Q
  <2>. QED  BY <1>3, <1>4, UpwardInduction
<1>6. first(m) = N
  BY <1>1 DEF ListOf, ToSet
<1>7. h[m] = Fresh(names, seen)
  BY <1>2 DEF Stepwise
<1>. QED  BY <1>5, <1>6, <1>7

\* A graph of nodes and edges from U, and which they are.
Draws(graph, U, nodes, edges) ==
  /\ graph = [nodes |-> graph.nodes, edges |-> graph.edges]
  /\ ListOf(graph.nodes, U, nodes) /\ ListOf(graph.edges, U, edges)

\* What a document has.
DocOK(d, U) == ListOf(Doc[d].nodes, U, ToSet(Doc[d].nodes)) /\ ListOf(Doc[d].edges, U, ToSet(Doc[d].edges))

NodesOf(read) == UNION {ToSet(Doc[d].nodes) : d \in read}
EdgesOf(read) == UNION {ToSet(Doc[d].edges) : d \in read}

\* One document, if its reply is of use.
LEMMA ReadOne ==
  ASSUME NEW U, NEW graph, NEW A, NEW E, Draws(graph, U, A, E), NEW x, DocOK(x, U), NEW garbled,
         NEW next, next = Adds("document", garbled, graph, x), NEW read, read = {x} \ garbled
  PROVE  Draws(next, U, A \cup NodesOf(read), E \cup EdgesOf(read))
<1>1. CASE x \in garbled
  <2>1. next = graph
    BY <1>1 DEF Adds
  <2>2. A \cup NodesOf(read) = A /\ E \cup EdgesOf(read) = E
    BY <1>1 DEF NodesOf, EdgesOf
  <2>. QED  BY <2>1, <2>2
<1>2. CASE x \notin garbled
  <2>1. next = [nodes |-> Fresh(Doc[x].nodes, graph.nodes), edges |-> graph.edges \o Doc[x].edges]
    BY <1>2 DEF Adds
  <2>2. PICK N, F : N = ToSet(Doc[x].nodes) /\ F = ToSet(Doc[x].edges)
    OBVIOUS
  <2>3. PICK names, seen, u, v :
          names = Doc[x].nodes /\ seen = graph.nodes /\ u = graph.edges /\ v = Doc[x].edges
    OBVIOUS
  <2>4. ListOf(names, U, N) /\ ListOf(v, U, F) /\ ListOf(seen, U, A) /\ ListOf(u, U, E)
    BY <2>2, <2>3 DEF DocOK, Draws
  <2>5. ListOf(Fresh(names, seen), U, A \cup N)
    BY ONLY <2>4, FreshFacts
  <2>6. ListOf(u \o v, U, E \cup F)
    BY ONLY <2>4, ListsJoin
  <2>7. next = [nodes |-> Fresh(names, seen), edges |-> u \o v]
    BY ONLY <2>1, <2>3
  <2>8. NodesOf(read) = N /\ EdgesOf(read) = F
    <3>1. read = {x}
      BY <1>2
    <3>. QED  BY <2>2, <3>1 DEF NodesOf, EdgesOf
  <2>. QED  BY ONLY <2>5, <2>6, <2>7, <2>8 DEF Draws
<1>. QED  BY <1>1, <1>2

\* Graph folds over documents.
DocumentsFolded(g, done, garbled) ==
  g = [T \in SUBSET DOMAIN done |->
         IF T = {} THEN [nodes |-> << >>, edges |-> << >>]
         ELSE LET i == Max(T) IN
              IF done[i] \in garbled THEN g[T \ {i}]
              ELSE [nodes |-> Fresh(Doc[done[i]].nodes, g[T \ {i}].nodes),
                    edges |-> g[T \ {i}].edges \o Doc[done[i]].edges]]

LEMMA GraphIsFolded ==
  ASSUME NEW done, NEW garbled
  PROVE  Graph(done, garbled) = (CHOOSE g : DocumentsFolded(g, done, garbled))[DOMAIN done]
BY DEF Graph, FoldLeft, MapThenFoldSet, DocumentsFolded

NoGraph == [nodes |-> << >>, edges |-> << >>]

\* Graph, document by document.
LEMMA GraphSteps ==
  ASSUME NEW U, NEW m \in Nat, NEW done, DOMAIN done = 1..m, \A k \in 1..m : DocOK(done[k], U),
         NEW garbled
  PROVE  \E h : Stepwise(h, m, "document", garbled, NoGraph, done, Graph(done, garbled))
<1>1. PICK V : V = [nodes : Seq(U), edges : Seq(U)]
  OBVIOUS
<1>2. ASSUME NEW v \in V, NEW i \in 1..m PROVE Adds("document", garbled, v, done[i]) \in V
  <2>1. PICK A, E : A = ToSet(v.nodes) /\ E = ToSet(v.edges)
    OBVIOUS
  <2>2. Draws(v, U, A, E)
    BY <1>1, <2>1 DEF Draws, ListOf
  <2>3. PICK next, x, read :
          next = Adds("document", garbled, v, x) /\ x = done[i] /\ read = {x} \ garbled
    OBVIOUS
  <2>4. DocOK(x, U)
    BY <2>3
  <2>5. Draws(next, U, A \cup NodesOf(read), E \cup EdgesOf(read))
    BY ONLY <2>2, <2>3, <2>4, ReadOne
  <2>6. next.nodes \in Seq(U) /\ next.edges \in Seq(U)
        /\ next = [nodes |-> next.nodes, edges |-> next.edges]
    BY ONLY <2>5 DEF Draws, ListOf
  <2>7. next \in [nodes : Seq(U), edges : Seq(U)]
    BY ONLY <2>6
  <2>. QED  BY <1>1, <2>3, <2>7
<1>3. \A g : DocumentsFolded(g, done, garbled) <=> FoldAdds(g, "document", garbled, NoGraph, done)
  BY DEF DocumentsFolded, FoldAdds, Adds, NoGraph
<1>4. PICK g : g = CHOOSE f : DocumentsFolded(f, done, garbled)
  OBVIOUS
<1>5. FoldAdds(g, "document", garbled, NoGraph, done)
  <2>1. NoGraph \in V
    BY <1>1 DEF NoGraph
  <2>2. \E f : FoldAdds(f, "document", garbled, NoGraph, done)
    BY <1>2, <2>1, FoldAddsExists
  <2>. QED  BY <1>3, <1>4, <2>2
<1>6. \E h : Stepwise(h, m, "document", garbled, NoGraph, done, g[1..m])
  BY <1>5, FoldAddsSteps
<1>7. Graph(done, garbled) = g[1..m]
  BY <1>4, GraphIsFolded
<1>. QED  BY <1>6, <1>7

\* _ai_graph: everything of the documents whose reply was of use.
LEMMA GraphFacts ==
  ASSUME NEW U, NEW m \in Nat, NEW done, DOMAIN done = 1..m, \A k \in 1..m : DocOK(done[k], U),
         NEW garbled, NEW read, read = {done[k] : k \in 1..m} \ garbled
  PROVE  Draws(Graph(done, garbled), U, NodesOf(read), EdgesOf(read))
<1>1. PICK h : Stepwise(h, m, "document", garbled, NoGraph, done, Graph(done, garbled))
  BY GraphSteps
<1>. DEFINE first(j) == {done[k] : k \in 1..j} \ garbled
            Q == {j \in 0..m : Draws(h[j], U, NodesOf(first(j)), EdgesOf(first(j)))}
<1>2. 0 \in Q
  <2>1. h[0] = NoGraph
    BY <1>1 DEF Stepwise
  <2>2. first(0) = {}
    OBVIOUS
  <2>3. NodesOf({}) = {} /\ EdgesOf({}) = {}
    BY DEF NodesOf, EdgesOf
  <2>4. Draws(NoGraph, U, {}, {})
    BY NothingListed DEF Draws, NoGraph
  <2>5. Draws(h[0], U, NodesOf(first(0)), EdgesOf(first(0)))
    BY ONLY <2>1, <2>2, <2>3, <2>4
  <2>. QED  BY ONLY <2>5, m \in Nat
<1>3. ASSUME NEW j \in 0..(m - 1), j \in Q PROVE j + 1 \in Q
  <2>1. j + 1 \in 1..m /\ j + 1 \in 0..m /\ (j + 1) - 1 = j /\ 1..(j + 1) = (1..j) \cup {j + 1}
    BY ONLY m \in Nat, j \in 0..(m - 1)
  <2>2. PICK graph, x, next, one :
          graph = h[j] /\ x = done[j + 1] /\ next = h[j + 1] /\ one = {x} \ garbled
    OBVIOUS
  <2>3. PICK A, E : A = NodesOf(first(j)) /\ E = EdgesOf(first(j))
    OBVIOUS
  <2>4. Draws(graph, U, A, E)
    BY <1>3, <2>2, <2>3
  <2>5. next = Adds("document", garbled, graph, x)
    BY <1>1, <2>1, <2>2 DEF Stepwise
  <2>6. DocOK(x, U)
    BY <2>1, <2>2
  <2>7. Draws(next, U, A \cup NodesOf(one), E \cup EdgesOf(one))
    BY ONLY <2>2, <2>4, <2>5, <2>6, ReadOne
  <2>8. first(j + 1) = first(j) \cup one
    BY <2>1, <2>2
  <2>9. NodesOf(first(j + 1)) = A \cup NodesOf(one) /\ EdgesOf(first(j + 1)) = E \cup EdgesOf(one)
    <3>. HIDE DEF first
    <3>. QED  BY <2>3, <2>8 DEF NodesOf, EdgesOf
  <2>10. Draws(h[j + 1], U, NodesOf(first(j + 1)), EdgesOf(first(j + 1)))
    BY ONLY <2>2, <2>7, <2>9
  <2>. QED  BY ONLY <2>1, <2>10
<1>4. m \in Q
  <2>. HIDE DEF Q
  <2>. QED  BY <1>2, <1>3, UpwardInduction
<1>5. first(m) = read
  OBVIOUS
<1>. QED  BY <1>1, <1>4, <1>5 DEF Stepwise

Ends(edges) == UNION {{edge.source, edge.target} : edge \in edges}

LEMMA EndsAdd ==
  ASSUME NEW E, NEW F
  PROVE  Ends(E \cup F) = Ends(E) \cup Ends(F)
BY DEF Ends

\* A graph of nodes A and edges E, with the ends of its edges.
Tied(graph, U, A, E) == Draws(graph, U, A, E) /\ Ends(E) \subseteq A

Distinct(graph) == IsInjective(graph.nodes) /\ IsInjective(graph.edges)

\* AddEdge: an edge there was is left out, with its ends, which there were.
LEMMA EdgeAdded ==
  ASSUME NEW U, NEW graph, NEW A, NEW E, Tied(graph, U, A, E), NEW x \in U, Ends({x}) \subseteq U,
         NEW next, next = AddEdge(graph, x)
  PROVE  /\ Tied(next, U, A \cup Ends({x}), E \cup {x})
         /\ Distinct(graph) => Distinct(next)
<1>1. PICK nodes, edges, names :
        nodes = graph.nodes /\ edges = graph.edges /\ names = <<x.source, x.target>>
  OBVIOUS
<1>2. ListOf(nodes, U, A) /\ ListOf(edges, U, E) /\ Ends(E) \subseteq A
  BY <1>1 DEF Tied, Draws
<1>3. /\ Contains(edges, x) <=> x \in E
      /\ ListOf(Append(edges, x), U, E \cup {x})
      /\ IsInjective(edges) /\ x \notin E => IsInjective(Append(edges, x))
  BY ONLY <1>2, x \in U, ListsAppend
<1>4. ListOf(names, U, Ends({x}))
  <2>1. x.source \in U /\ x.target \in U /\ Ends({x}) = {x.source, x.target}
    BY DEF Ends
  <2>. QED  BY <1>1, <2>1 DEF ListOf, ToSet
<1>5. /\ ListOf(Fresh(names, nodes), U, A \cup Ends({x}))
      /\ IsInjective(nodes) => IsInjective(Fresh(names, nodes))
  BY ONLY <1>2, <1>4, FreshFacts
<1>6. Ends(E \cup {x}) = Ends(E) \cup Ends({x})
  BY EndsAdd
<1>7. CASE x \in E
  <2>1. next = graph
    BY <1>1, <1>3, <1>7 DEF AddEdge
  <2>2. Ends({x}) \subseteq A
    BY <1>2, <1>7 DEF Ends
  <2>3. A \cup Ends({x}) = A /\ E \cup {x} = E
    BY <1>7, <2>2
  <2>. QED  BY <2>1, <2>3
<1>8. CASE x \notin E
  <2>1. next = [nodes |-> Fresh(names, nodes), edges |-> Append(edges, x)]
    BY <1>1, <1>3, <1>8 DEF AddEdge
  <2>2. /\ next.nodes = Fresh(names, nodes) /\ next.edges = Append(edges, x)
        /\ next = [nodes |-> next.nodes, edges |-> next.edges]
    BY ONLY <2>1
  <2>3. Draws(next, U, A \cup Ends({x}), E \cup {x})
    BY ONLY <1>3, <1>5, <2>2 DEF Draws
  <2>4. Ends(E \cup {x}) \subseteq A \cup Ends({x})
    BY ONLY <1>2, <1>6
  <2>5. Distinct(graph) => Distinct(next)
    BY ONLY <1>1, <1>3, <1>5, <1>8, <2>2 DEF Distinct
  <2>. QED  BY <2>3, <2>4, <2>5 DEF Tied
<1>. QED  BY <1>7, <1>8

\* The fold of AddEdge.
EdgesFolded(g, graph, edges) ==
  g = [T \in SUBSET DOMAIN edges |->
         IF T = {} THEN graph ELSE LET i == Max(T) IN AddEdge(g[T \ {i}], edges[i])]

LEMMA AddEdgeIsFolded ==
  ASSUME NEW graph, NEW edges
  PROVE  FoldLeft(AddEdge, graph, edges) = (CHOOSE g : EdgesFolded(g, graph, edges))[DOMAIN edges]
BY DEF FoldLeft, MapThenFoldSet, EdgesFolded

\* The graphs a fold of edges, or of tiles, goes through.
Graphs(U) == {graph \in [nodes : Seq(U), edges : Seq(U)] :
                Tied(graph, U, ToSet(graph.nodes), ToSet(graph.edges))}

LEMMA TiedGraphs ==
  ASSUME NEW U, NEW graph, NEW A, NEW E, Tied(graph, U, A, E)
  PROVE  graph \in Graphs(U)
<1>1. /\ graph.nodes \in Seq(U) /\ graph.edges \in Seq(U)
      /\ graph = [nodes |-> graph.nodes, edges |-> graph.edges]
      /\ A = ToSet(graph.nodes) /\ E = ToSet(graph.edges)
  BY DEF Tied, Draws, ListOf
<1>2. graph \in [nodes : Seq(U), edges : Seq(U)]
  BY ONLY <1>1
<1>3. Tied(graph, U, ToSet(graph.nodes), ToSet(graph.edges))
  BY <1>1
<1>. QED  BY ONLY <1>2, <1>3 DEF Graphs

\* Edge by edge.
LEMMA EdgeSteps ==
  ASSUME NEW U, NEW graph \in Graphs(U), NEW m \in Nat, NEW edges, DOMAIN edges = 1..m,
         \A k \in 1..m : edges[k] \in U /\ Ends({edges[k]}) \subseteq U
  PROVE  \E h : Stepwise(h, m, "edge", {}, graph, edges, FoldLeft(AddEdge, graph, edges))
<1>1. PICK V : V = Graphs(U)
  OBVIOUS
<1>2. ASSUME NEW v \in V, NEW i \in 1..m PROVE Adds("edge", {}, v, edges[i]) \in V
  <2>1. PICK A, E, next, x :
          A = ToSet(v.nodes) /\ E = ToSet(v.edges) /\ next = AddEdge(v, x) /\ x = edges[i]
    OBVIOUS
  <2>2. Tied(v, U, A, E)
    BY <1>1, <2>1 DEF Graphs
  <2>3. x \in U /\ Ends({x}) \subseteq U
    BY <2>1
  <2>4. Tied(next, U, A \cup Ends({x}), E \cup {x})
    BY ONLY <2>1, <2>2, <2>3, EdgeAdded
  <2>5. next \in V
    BY ONLY <1>1, <2>4, TiedGraphs
  <2>. QED  BY <2>1, <2>5 DEF Adds
<1>3. \A g : EdgesFolded(g, graph, edges) <=> FoldAdds(g, "edge", {}, graph, edges)
  BY DEF EdgesFolded, FoldAdds, Adds
<1>4. PICK g : g = CHOOSE f : EdgesFolded(f, graph, edges)
  OBVIOUS
<1>5. FoldAdds(g, "edge", {}, graph, edges)
  <2>1. graph \in V
    BY <1>1
  <2>2. \E f : FoldAdds(f, "edge", {}, graph, edges)
    BY <1>2, <2>1, FoldAddsExists
  <2>. QED  BY <1>3, <1>4, <2>2
<1>6. \E h : Stepwise(h, m, "edge", {}, graph, edges, g[1..m])
  BY <1>5, FoldAddsSteps
<1>7. FoldLeft(AddEdge, graph, edges) = g[1..m]
  BY <1>4, AddEdgeIsFolded
<1>. QED  BY <1>6, <1>7

\* All edges are added, with their ends.
LEMMA EdgesAdded ==
  ASSUME NEW U, NEW graph, NEW A, NEW E, Tied(graph, U, A, E),
         NEW edges, NEW F, ListOf(edges, U, F), Ends(F) \subseteq U,
         NEW next, next = FoldLeft(AddEdge, graph, edges)
  PROVE  /\ Tied(next, U, A \cup Ends(F), E \cup F)
         /\ Distinct(graph) => Distinct(next)
<1>1. PICK m \in Nat : m = Len(edges) /\ DOMAIN edges = 1..m
  BY DEF ListOf
<1>2. ASSUME NEW k \in 1..m PROVE edges[k] \in U /\ edges[k] \in F /\ Ends({edges[k]}) \subseteq U
  BY <1>1 DEF ListOf, ToSet, Ends
<1>3. PICK h : Stepwise(h, m, "edge", {}, graph, edges, next)
  <2>1. graph \in Graphs(U)
    BY TiedGraphs
  <2>. QED  BY <1>1, <1>2, <2>1, EdgeSteps
<1>. DEFINE first(j) == {edges[k] : k \in 1..j}
            Q == {j \in 0..m : /\ Tied(h[j], U, A \cup Ends(first(j)), E \cup first(j))
                               /\ Distinct(graph) => Distinct(h[j])}
<1>4. 0 \in Q
  <2>1. h[0] = graph
    BY <1>3 DEF Stepwise
  <2>2. first(0) = {}
    OBVIOUS
  <2>3. A \cup Ends({}) = A /\ E \cup {} = E
    BY DEF Ends
  <2>4. /\ Tied(h[0], U, A \cup Ends(first(0)), E \cup first(0))
        /\ Distinct(graph) => Distinct(h[0])
    BY ONLY <2>1, <2>2, <2>3, Tied(graph, U, A, E)
  <2>. QED  BY ONLY <2>4, m \in Nat
<1>5. ASSUME NEW j \in 0..(m - 1), j \in Q PROVE j + 1 \in Q
  <2>1. j + 1 \in 1..m /\ j + 1 \in 0..m /\ (j + 1) - 1 = j /\ 1..(j + 1) = (1..j) \cup {j + 1}
    BY ONLY m \in Nat, j \in 0..(m - 1)
  <2>2. PICK so, x, then : so = h[j] /\ x = edges[j + 1] /\ then = h[j + 1]
    OBVIOUS
  <2>3. PICK B, G : B = A \cup Ends(first(j)) /\ G = E \cup first(j)
    OBVIOUS
  <2>4. Tied(so, U, B, G) /\ (Distinct(graph) => Distinct(so))
    BY <1>5, <2>2, <2>3
  <2>5. then = AddEdge(so, x)
    BY <1>3, <2>1, <2>2 DEF Stepwise, Adds
  <2>6. x \in U /\ Ends({x}) \subseteq U
    BY <1>2, <2>1, <2>2
  <2>7. Tied(then, U, B \cup Ends({x}), G \cup {x}) /\ (Distinct(so) => Distinct(then))
    BY ONLY <2>4, <2>5, <2>6, EdgeAdded
  <2>8. first(j + 1) = first(j) \cup {x}
    BY <2>1, <2>2
  <2>9. A \cup Ends(first(j + 1)) = B \cup Ends({x}) /\ E \cup first(j + 1) = G \cup {x}
    <3>. HIDE DEF first
    <3>1. Ends(first(j) \cup {x}) = Ends(first(j)) \cup Ends({x})
      BY EndsAdd
    <3>. QED  BY ONLY <2>3, <2>8, <3>1
  <2>10. /\ Tied(h[j + 1], U, A \cup Ends(first(j + 1)), E \cup first(j + 1))
         /\ Distinct(graph) => Distinct(h[j + 1])
    BY ONLY <2>2, <2>4, <2>7, <2>9
  <2>. QED  BY ONLY <2>1, <2>10
<1>6. m \in Q
  <2>. HIDE DEF Q
  <2>. QED  BY <1>4, <1>5, UpwardInduction
<1>7. first(m) = F
  BY <1>1 DEF ListOf, ToSet
<1>8. h[m] = next
  BY <1>3 DEF Stepwise
<1>. QED  BY <1>6, <1>7, <1>8

\* A tile's graph: its nodes, and its edges with their ends.
LEMMA TileAdded ==
  ASSUME NEW U, NEW graph, NEW A, NEW E, Tied(graph, U, A, E),
         NEW out, NEW N, NEW F, Draws(out, U, N, F), Ends(F) \subseteq U,
         NEW next, next = Adds("tile", {}, graph, out)
  PROVE  /\ Tied(next, U, A \cup N \cup Ends(F), E \cup F)
         /\ Distinct(graph) => Distinct(next)
<1>1. PICK nodes, edges, names, list :
        nodes = graph.nodes /\ edges = graph.edges /\ names = out.nodes /\ list = out.edges
  OBVIOUS
<1>2. /\ ListOf(nodes, U, A) /\ ListOf(edges, U, E) /\ Ends(E) \subseteq A
      /\ graph = [nodes |-> nodes, edges |-> edges]
  BY <1>1 DEF Tied, Draws
<1>3. ListOf(names, U, N) /\ ListOf(list, U, F)
  BY <1>1 DEF Draws
<1>4. PICK mid : mid = [nodes |-> Fresh(names, nodes), edges |-> edges]
  OBVIOUS
<1>5. /\ ListOf(Fresh(names, nodes), U, A \cup N)
      /\ IsInjective(nodes) => IsInjective(Fresh(names, nodes))
  BY ONLY <1>2, <1>3, FreshFacts
<1>6. /\ mid.nodes = Fresh(names, nodes) /\ mid.edges = edges
      /\ mid = [nodes |-> mid.nodes, edges |-> mid.edges]
  BY ONLY <1>4
<1>7. Tied(mid, U, A \cup N, E)
  BY ONLY <1>2, <1>5, <1>6 DEF Tied, Draws
<1>8. Distinct(graph) => Distinct(mid)
  BY ONLY <1>1, <1>5, <1>6 DEF Distinct
<1>9. next = FoldLeft(AddEdge, mid, list)
  <2>1. [graph EXCEPT !.nodes = Fresh(out.nodes, @)] = mid
    BY ONLY <1>1, <1>2, <1>4
  <2>2. next = FoldLeft(AddEdge, [graph EXCEPT !.nodes = Fresh(out.nodes, @)], out.edges)
    BY DEF Adds
  <2>. QED  BY <1>1, <2>1, <2>2
<1>10. PICK B : B = A \cup N
  OBVIOUS
<1>11. Tied(next, U, B \cup Ends(F), E \cup F) /\ (Distinct(mid) => Distinct(next))
  <2>1. Tied(mid, U, B, E)
    BY <1>7, <1>10
  <2>. QED  BY ONLY <1>3, <1>9, <2>1, Ends(F) \subseteq U, EdgesAdded
<1>. QED  BY ONLY <1>8, <1>10, <1>11

\* aggregate_graph's fold over the tiles.
GraphsFolded(g, outputs) ==
  g = [T \in SUBSET DOMAIN outputs |->
         IF T = {} THEN [nodes |-> << >>, edges |-> << >>]
         ELSE LET i == Max(T) IN
              FoldLeft(AddEdge, [g[T \ {i}] EXCEPT !.nodes = Fresh(outputs[i].nodes, @)],
                       outputs[i].edges)]

LEMMA AggregateGraphIsFolded ==
  ASSUME NEW outputs
  PROVE  AggregateGraph(outputs) = (CHOOSE g : GraphsFolded(g, outputs))[DOMAIN outputs]
BY DEF AggregateGraph, FoldLeft, MapThenFoldSet, GraphsFolded

\* Graphs of tiles, and what they have.
Drawn(outputs, m, U, N, F) ==
  /\ m \in Nat /\ DOMAIN outputs = 1..m
  /\ \A i \in 1..m : Draws(outputs[i], U, N[i], F[i]) /\ Ends(F[i]) \subseteq U

\* Tile by tile.
LEMMA AggregateGraphSteps ==
  ASSUME NEW outputs, NEW m, NEW U, NEW N, NEW F, Drawn(outputs, m, U, N, F)
  PROVE  \E h : Stepwise(h, m, "tile", {}, NoGraph, outputs, AggregateGraph(outputs))
<1>0. /\ m \in Nat /\ DOMAIN outputs = 1..m
      /\ \A i \in 1..m : Draws(outputs[i], U, N[i], F[i]) /\ Ends(F[i]) \subseteq U
  BY DEF Drawn
<1>1. PICK V : V = Graphs(U)
  OBVIOUS
<1>2. ASSUME NEW v \in V, NEW i \in 1..m PROVE Adds("tile", {}, v, outputs[i]) \in V
  <2>1. PICK A, E, B, G, out, next :
          /\ A = ToSet(v.nodes) /\ E = ToSet(v.edges) /\ B = N[i] /\ G = F[i]
          /\ out = outputs[i] /\ next = Adds("tile", {}, v, out)
    OBVIOUS
  <2>2. Tied(v, U, A, E)
    BY <1>1, <2>1 DEF Graphs
  <2>3. Draws(out, U, B, G) /\ Ends(G) \subseteq U
    BY <1>0, <2>1
  <2>4. Tied(next, U, A \cup B \cup Ends(G), E \cup G)
    BY ONLY <2>1, <2>2, <2>3, TileAdded
  <2>5. next \in V
    BY ONLY <1>1, <2>4, TiedGraphs
  <2>. QED  BY <2>1, <2>5
<1>3. \A g : GraphsFolded(g, outputs) <=> FoldAdds(g, "tile", {}, NoGraph, outputs)
  BY DEF GraphsFolded, FoldAdds, Adds, NoGraph
<1>4. PICK g : g = CHOOSE f : GraphsFolded(f, outputs)
  OBVIOUS
<1>5. FoldAdds(g, "tile", {}, NoGraph, outputs)
  <2>1. NoGraph \in V
    <3>1. Tied(NoGraph, U, {}, {})
      BY NothingListed DEF Tied, Draws, NoGraph, Ends
    <3>. QED  BY <1>1, <3>1, TiedGraphs
  <2>2. \E f : FoldAdds(f, "tile", {}, NoGraph, outputs)
    BY <1>0, <1>2, <2>1, FoldAddsExists
  <2>. QED  BY <1>3, <1>4, <2>2
<1>6. \E h : Stepwise(h, m, "tile", {}, NoGraph, outputs, g[1..m])
  BY <1>0, <1>5, FoldAddsSteps
<1>7. AggregateGraph(outputs) = g[1..m]
  BY <1>0, <1>4, AggregateGraphIsFolded
<1>. QED  BY <1>6, <1>7

\* Everything of the tiles.
Gathered(all, N, m) == all = UNION {N[i] : i \in 1..m}

\* aggregate_graph: the tiles' nodes and edges, and the edges' ends, each once.
LEMMA GraphsMerge ==
  ASSUME NEW outputs, NEW m, NEW U, NEW N, NEW F, Drawn(outputs, m, U, N, F),
         NEW all, Gathered(all, N, m), NEW edges, Gathered(edges, F, m),
         NEW merged, merged = AggregateGraph(outputs)
  PROVE  Draws(merged, U, all \cup Ends(edges), edges) /\ Distinct(merged)
<1>0. /\ m \in Nat /\ DOMAIN outputs = 1..m
      /\ \A i \in 1..m : Draws(outputs[i], U, N[i], F[i]) /\ Ends(F[i]) \subseteq U
  BY DEF Drawn
<1>1. PICK h : Stepwise(h, m, "tile", {}, NoGraph, outputs, merged)
  BY AggregateGraphSteps
<1>. DEFINE Ns(j) == UNION {N[i] : i \in 1..j}
            Fs(j) == UNION {F[i] : i \in 1..j}
            Q == {j \in 0..m : Tied(h[j], U, Ns(j) \cup Ends(Fs(j)), Fs(j)) /\ Distinct(h[j])}
<1>2. 0 \in Q
  <2>1. h[0] = NoGraph
    BY <1>1 DEF Stepwise
  <2>2. Ns(0) = {} /\ Fs(0) = {}
    OBVIOUS
  <2>3. {} \cup Ends({}) = {}
    BY DEF Ends
  <2>4. Tied(NoGraph, U, {}, {}) /\ Distinct(NoGraph)
    BY NothingListed DEF Tied, Draws, NoGraph, Ends, Distinct
  <2>5. Tied(h[0], U, Ns(0) \cup Ends(Fs(0)), Fs(0)) /\ Distinct(h[0])
    BY ONLY <2>1, <2>2, <2>3, <2>4
  <2>. QED  BY ONLY <2>5, <1>0
<1>3. ASSUME NEW j \in 0..(m - 1), j \in Q PROVE j + 1 \in Q
  <2>1. j + 1 \in 1..m /\ j + 1 \in 0..m /\ (j + 1) - 1 = j /\ 1..(j + 1) = (1..j) \cup {j + 1}
    BY ONLY <1>0, j \in 0..(m - 1)
  <2>2. PICK so, out, then, C, G : /\ so = h[j] /\ out = outputs[j + 1] /\ then = h[j + 1]
                                   /\ C = N[j + 1] /\ G = F[j + 1]
    OBVIOUS
  <2>3. PICK A, E : A = Ns(j) \cup Ends(Fs(j)) /\ E = Fs(j)
    OBVIOUS
  <2>4. Tied(so, U, A, E) /\ Distinct(so)
    BY <1>3, <2>2, <2>3
  <2>5. then = Adds("tile", {}, so, out)
    BY <1>1, <2>1, <2>2 DEF Stepwise
  <2>6. Draws(out, U, C, G) /\ Ends(G) \subseteq U
    BY <1>0, <2>1, <2>2
  <2>7. Tied(then, U, A \cup C \cup Ends(G), E \cup G) /\ Distinct(then)
    BY ONLY <2>4, <2>5, <2>6, TileAdded
  <2>8. Ns(j + 1) = Ns(j) \cup C /\ Fs(j + 1) = E \cup G
    BY <2>1, <2>2, <2>3
  <2>9. Ns(j + 1) \cup Ends(Fs(j + 1)) = A \cup C \cup Ends(G)
    <3>. HIDE DEF Ns, Fs
    <3>1. Ends(E \cup G) = Ends(E) \cup Ends(G)
      BY EndsAdd
    <3>. QED  BY ONLY <2>3, <2>8, <3>1
  <2>10. Tied(h[j + 1], U, Ns(j + 1) \cup Ends(Fs(j + 1)), Fs(j + 1)) /\ Distinct(h[j + 1])
    BY ONLY <2>2, <2>7, <2>8, <2>9
  <2>. QED  BY ONLY <2>1, <2>10
<1>4. m \in Q
  <2>. HIDE DEF Q
  <2>. QED  BY <1>0, <1>2, <1>3, UpwardInduction
<1>5. Ns(m) = all /\ Fs(m) = edges
  BY DEF Gathered
<1>6. h[m] = merged
  BY <1>1 DEF Stepwise
<1>. QED  BY <1>4, <1>5, <1>6 DEF Tied

\* The graph has everything of the documents read, and all of it once.
LEMMA GraphSummary ==
  ASSUME IInv, Planned, Executed(jobs), Done # << >>, request.kind = "ai.graph"
  PROVE  ReferenceGraph
<1>1. PICK N, tiles :
        /\ N \in Nat \ {0} /\ Dissected(tiles, N, ItemsDone)
        /\ DOMAIN Outputs = 1..N /\ Outputs # << >>
        /\ \A i \in 1..N : \E result \in Execute("ai.graph", tiles[i]) :
             result.status = "completed" /\ Outputs[i] = result.output
  BY ToMerge
<1>2. PICK outs, S : outs = Outputs /\ S = ItemsDone
  OBVIOUS
<1>3. PICK U : U = NodesOf(S) \cup EdgesOf(S) \cup Ends(EdgesOf(S))
  OBVIOUS
<1>4. ASSUME NEW x \in S PROVE DocOK(x, U)
  <2>1. /\ x \in Int /\ request.base <= x /\ x < request.base + ItemsOf(request, n)
    BY <1>2, DoneFacts
  <2>2. RequestOK(request)
    BY WorkloadAssumption DEF IInv, Kept, LaunchInv
  <2>3. request.base = 0 /\ ItemsOf(request, n) = request.size /\ request.size \in Nat
    BY <2>2 DEF RequestOK, ItemsOf
  <2>4. x \in 0..(request.size - 1)
    BY <2>1, <2>3
  <2>5. PICK nodes, edges : nodes = Doc[x].nodes /\ edges = Doc[x].edges
    OBVIOUS
  <2>6. nodes \in Seq(ToSet(nodes)) /\ edges \in Seq(ToSet(edges))
    BY <2>2, <2>4, <2>5 DEF RequestOK
  <2>7. ToSet(nodes) \subseteq U /\ ToSet(edges) \subseteq U
    BY <1>3, <2>5 DEF NodesOf, EdgesOf
  <2>8. nodes \in Seq(U) /\ edges \in Seq(U)
    BY ONLY <2>6, <2>7
  <2>. QED  BY <2>5, <2>8 DEF DocOK, ListOf
<1>5. \A i \in 1..N : \E garbled :
        outs[i] = Graph(FirstItems(tiles[i], Size(tiles[i])), garbled)
  <2>. SUFFICES ASSUME NEW i \in 1..N
                PROVE  \E garbled : outs[i] = Graph(FirstItems(tiles[i], Size(tiles[i])), garbled)
    OBVIOUS
  <2>1. PICK result \in Execute("ai.graph", tiles[i]) :
          result.status = "completed" /\ outs[i] = result.output
    BY <1>1, <1>2
  <2>2. "ai.graph" \in Modelled
    BY DEF Modelled
  <2>3. PICK garbled :
          result.output = Output("ai.graph", tiles[i], FirstItems(tiles[i], Size(tiles[i])), garbled)
    BY <2>1, <2>2, ModelledOutput
  <2>4. outs[i] = Graph(FirstItems(tiles[i], Size(tiles[i])), garbled)
    BY <2>1, <2>3 DEF Output
  <2>. QED  BY <2>4
<1>6. PICK lost : lost = [i \in 1..N |-> CHOOSE garbled :
                             outs[i] = Graph(FirstItems(tiles[i], Size(tiles[i])), garbled)]
  OBVIOUS
<1>7. \A i \in 1..N : outs[i] = Graph(FirstItems(tiles[i], Size(tiles[i])), lost[i])
  BY <1>5, <1>6
<1>8. PICK read : read = [i \in 1..N |-> Span(tiles[i]) \ lost[i]]
  OBVIOUS
<1>9. ASSUME NEW i \in 1..N PROVE read[i] \subseteq S
  BY <1>1, <1>2, <1>8 DEF Dissected
<1>10. PICK Ns, Fs : Ns = [i \in 1..N |-> NodesOf(read[i])] /\ Fs = [i \in 1..N |-> EdgesOf(read[i])]
  OBVIOUS
<1>11. ASSUME NEW i \in 1..N PROVE Draws(outs[i], U, Ns[i], Fs[i])
  <2>1. PICK a, b \in Int, d \in Nat :
          a = tiles[i].from /\ b = tiles[i].to /\ d = Size(tiles[i]) /\ b = a + d
    <3>1. tiles[i].from \in Int /\ tiles[i].to \in Int /\ tiles[i].from < tiles[i].to
      BY <1>1 DEF Dissected
    <3>2. PICK u, v \in Int : u = tiles[i].from /\ v = tiles[i].to /\ u < v
      BY <3>1
    <3>3. PICK e \in Nat : e = v - u /\ v = u + e
      BY <3>2
    <3>. QED  BY <3>2, <3>3 DEF Size
  <2>2. PICK done, garbled : done = [k \in 1..d |-> a + k - 1] /\ garbled = lost[i]
    OBVIOUS
  <2>3. FirstItems(tiles[i], Size(tiles[i])) = done
    BY <2>1, <2>2 DEF FirstItems
  <2>4. outs[i] = Graph(done, garbled)
    BY <1>7, <2>2, <2>3
  <2>5. {done[k] : k \in 1..d} = Span(tiles[i])
    <3>1. ASSUME NEW k \in 1..d PROVE done[k] \in a..(b - 1)
      BY <2>1, <2>2
    <3>2. ASSUME NEW x \in a..(b - 1) PROVE \E k \in 1..d : done[k] = x
      <4>1. PICK k \in 1..d : k = x - a + 1 /\ a + k - 1 = x
        BY ONLY a \in Int, b \in Int, d \in Nat, <2>1, x \in a..(b - 1)
      <4>. QED  BY <2>2, <4>1
    <3>. QED  BY <2>1, <3>1, <3>2 DEF Span
  <2>6. Span(tiles[i]) \subseteq S
    BY <1>1, <1>2 DEF Dissected
  <2>7. DOMAIN done = 1..d /\ \A k \in 1..d : DocOK(done[k], U)
    BY <1>4, <2>2, <2>5, <2>6
  <2>8. PICK here : here = read[i] /\ here = {done[k] : k \in 1..d} \ garbled
    BY <1>8, <2>2, <2>5
  <2>9. Draws(Graph(done, garbled), U, NodesOf(here), EdgesOf(here))
    BY ONLY d \in Nat, <2>7, <2>8, GraphFacts
  <2>. QED  BY <1>10, <2>4, <2>8, <2>9
<1>12. ASSUME NEW i \in 1..N PROVE Ends(Fs[i]) \subseteq U
  <2>1. Fs[i] \subseteq EdgesOf(S)
    BY <1>9, <1>10 DEF EdgesOf
  <2>. QED  BY <1>3, <2>1 DEF Ends
<1>13. PICK done, nodes, edges, merged :
         /\ done = UNION {read[i] : i \in 1..N}
         /\ nodes = UNION {Ns[i] : i \in 1..N} /\ edges = UNION {Fs[i] : i \in 1..N}
         /\ merged = AggregateGraph(outs)
  OBVIOUS
<1>14. Drawn(outs, N, U, Ns, Fs)
  BY <1>1, <1>2, <1>11, <1>12 DEF Drawn
<1>15. Draws(merged, U, nodes \cup Ends(edges), edges) /\ Distinct(merged)
  <2>1. Gathered(nodes, Ns, N) /\ Gathered(edges, Fs, N) /\ merged = AggregateGraph(outs)
    BY <1>13 DEF Gathered
  <2>. QED  BY ONLY <1>14, <2>1, GraphsMerge
<1>16. done \in SUBSET S
  BY <1>9, <1>13
<1>17. nodes = NodesOf(done) /\ edges = EdgesOf(done)
  BY <1>10, <1>13 DEF NodesOf, EdgesOf
<1>18. merged = Summary
  BY <1>1, <1>2, <1>13 DEF Summary, Aggregate
<1>19. /\ ToSet(merged.edges) = edges /\ ToSet(merged.nodes) = nodes \cup Ends(edges)
       /\ IsInjective(merged.nodes) /\ IsInjective(merged.edges)
  BY ONLY <1>15 DEF Draws, Distinct, ListOf
<1>20. /\ ToSet(Summary.edges) = UNION {ToSet(Doc[d].edges) : d \in done}
       /\ ToSet(Summary.nodes) = Ends(ToSet(Summary.edges)) \cup UNION {ToSet(Doc[d].nodes) : d \in done}
       /\ IsInjective(Summary.nodes) /\ IsInjective(Summary.edges)
  BY ONLY <1>17, <1>18, <1>19 DEF NodesOf, EdgesOf
<1>. QED  BY <1>2, <1>16, <1>20 DEF ReferenceGraph, Ends

-----------------------------------------------------------------------------
(* The theorems. *)

\* What the handlers keep is what the columns and the handlers' variables can hold, the completed
\* rows being exactly those with a result and the queued ones exactly those without a worker.
THEOREM WorkloadTyped == Spec => []WorkloadTypeOK
<1>1. IInv => WorkloadTypeOK
  <2>. SUFFICES ASSUME IInv PROVE WorkloadTypeOK
    OBVIOUS
  <2>1. AuditTypeOK
    BY AuditInvTypes DEF IInv, LogKept
  <2>2. \A i \in DOMAIN jobs : JobShape(jobs[i])
    BY DEF IInv, Kept, TableInv
  <2>. QED  BY <2>1, <2>2 DEF WorkloadTypeOK, IInv, Kept, LaunchInv, JobShape, HeldInv
<1>. QED  BY <1>1, Invariance, PTL

\* Whatever crashes, expires or arrives late, only a run that came to its end is taken for a
\* completed tile, but where a pool of processes lost a chunk.
THEOREM OnlyWholeTilesComplete == Spec => []CompletedIsWhole
<1>1. IInv => CompletedIsWhole
  BY DEF IInv, Kept, TableInv, JobShape, CompletedIsWhole
<1>. QED  BY <1>1, Invariance, PTL

\* For any workers, leases and crashes: nobody is logged as finishing, or giving up, a job before
\* being logged as having been given it.
THEOREM FinishedAfterAssigned == Spec => []CompletedWasAssigned
<1>1. IInv => CompletedWasAssigned
  <2>. SUFFICES ASSUME IInv PROVE CompletedWasAssigned
    OBVIOUS
  <2>1. damaged = 0 => Assigned(log)
    BY DEF IInv, Kept, Story
  <2>. QED  BY <2>1 DEF Assigned, Earlier, CompletedWasAssigned, Logged, Finishing
<1>. QED  BY <1>1, Invariance, PTL

\* For any workers, leases and crashes: a completion is logged once, for the worker the table names
\* as the job's, and without a crash every completed job has its event.
THEOREM LogAgreesWithTable == Spec => []NothingUnlogged
<1>1. IInv => NothingUnlogged
  <2>. SUFFICES ASSUME IInv, damaged = 0 PROVE NothingUnlogged
    BY DEF NothingUnlogged
  <2>1. Told(log, jobs) /\ (crashes = 0 => AllTold(log, jobs))
    BY DEF IInv, Kept, Story
  <2>2. ASSUME NEW j \in DOMAIN jobs, NEW w \in Workers, Logged("completed", w, j) # {}
        PROVE  /\ jobs[j].state = "completed" /\ jobs[j].worker = w
               /\ Cardinality(Logged("completed", w, j)) = 1
    <3>1. PICK i \in DOMAIN log : log[i].event = Event("completed", w, j)
      BY <2>2 DEF Logged
    <3>2. log[i].event.type = "completed" /\ log[i].event.worker = w /\ log[i].event.job = j
      BY <3>1, EventFacts
    <3>3. \A k \in DOMAIN log : log[k].event = log[i].event => k = i
      BY <2>1, <3>2 DEF Told
    <3>4. Logged("completed", w, j) = {i}
      BY <3>1, <3>3 DEF Logged
    <3>. QED  BY <2>1, <3>2, <3>4, FS_Singleton DEF Told
  <2>3. crashes = 0 => \A j \in DOMAIN jobs :
          jobs[j].state = "completed" => Logged("completed", jobs[j].worker, j) # {}
    BY <2>1 DEF AllTold, In, Logged
  <2>. QED  BY <2>2, <2>3 DEF NothingUnlogged
<1>. QED  BY <1>1, Invariance, PTL

\* The handlers of a workload, their crashes, and the hands on their table implement the log of
\* module AuditLog: each step is one of its steps, or leaves the log alone.
THEOREM WorkloadLogIsALog == Spec => AuditSpec(EventTypes, Loggers, Nat)
<1>1. Init => AuditInit
  BY DEF Init
<1>2. IInv /\ [Next]_vars => [AuditNext(EventTypes, Loggers, Nat)]_auditVars
  BY StepLogs
<1>. QED  BY <1>1, <1>2, Invariance, PTL DEF Spec, AuditSpec

\* So its chain is verified exactly, whatever ran beside the handlers that wrote it.
THEOREM WorkloadChainIsExact == Spec => []VerifyIsExact
<1>1. {"edited", "null"} \cap EventTypes = {}
  BY DEF EventTypes
<1>2. AuditSpec(EventTypes, Loggers, Nat) => []VerifyIsExact
  BY <1>1, ChainIsExact
<1>. QED  BY <1>2, WorkloadLogIsALog, PTL

\* Whatever was asked for and whatever the fleet did between its two reads, the jobs of a launch
\* are together what was asked for: nothing twice, nothing left out, no empty tile.
THEOREM TilesCover == Spec => []TilesCoverOnce
<1>1. IInv /\ Planned => TilesCoverOnce
  <2>. SUFFICES ASSUME IInv, Planned, Built PROVE TilesCoverOnce
    BY DEF TilesCoverOnce
  <2>1. PICK b : b = Build(request, n, weights)
    OBVIOUS
  <2>2. Specs = b /\ request \in Requests /\ n \in Nat \ {0} /\ Splittable(weights, n)
    BY <2>1, SpecsAreBuilt
  <2>3. /\ Sound(b)
        /\ IF request.kind = "render" THEN Len(b) = n
           ELSE IF ItemsOf(request, n) = 0 THEN b = << >>
           ELSE Covers(b, request.base, request.base + ItemsOf(request, n))
    BY <2>1, <2>2, BuildFacts
  <2>4. Items = ItemsOf(request, n)
    BY DEF Items, ItemsOf
  <2>. HIDE <2>1
  <2>. QED  BY <2>2, <2>3, <2>4 DEF TilesCoverOnce, Sound, Covers
<1>. QED  BY <1>1, Invariance, PlannedInvariance, PTL

\* "Distinct seeds per chunk so paths never repeat", for any number of paths and of tiles.
THEOREM PathsDiffer == Spec => []NoPathTwice
<1>1. IInv /\ Planned => NoPathTwice
  <2>. SUFFICES ASSUME IInv, Planned, Built PROVE NoPathTwice
    BY DEF NoPathTwice
  <2>1. PICK b : b = Build(request, n, weights)
    OBVIOUS
  <2>2. Specs = b /\ Sound(b)
    BY <2>1, SpecsAreBuilt, BuildFacts
  <2>3. ASSUME NEW i \in DOMAIN b, NEW k \in DOMAIN b,
               NEW c \in DOMAIN Chunks("montecarlo", b[i].tile),
               NEW d \in DOMAIN Chunks("montecarlo", b[k].tile), <<i, c>> # <<k, d>>
        PROVE  Stream(b[i].tile, Chunks("montecarlo", b[i].tile)[c])
                 # Stream(b[k].tile, Chunks("montecarlo", b[k].tile)[d])
    BY <2>2, <2>3, StreamFacts
  <2>. HIDE <2>1
  <2>. QED  BY <2>2, <2>3 DEF NoPathTwice
<1>. QED  BY <1>1, Invariance, PlannedInvariance, PTL

\* For any weights, any number of machines and any size of a workload: the shares are proportional,
\* nothing is lost in rounding, and with enough items nobody is left without.
THEOREM SharesFollow == Spec => []SharesFollowWeights
<1>1. IInv /\ Planned => SharesFollowWeights
  <2>. SUFFICES ASSUME IInv, Planned PROVE SharesFollowWeights
    OBVIOUS
  <2>1. request \in Requests /\ n \in Nat /\ Splittable(weights, n)
    <3>1. MaxTiles \in Nat
      BY WorkloadAssumption
    <3>. QED  BY <3>1 DEF IInv, Kept, LaunchInv, Planned
  <2>2. PICK total \in Nat : total = request.size
    BY <2>1, WorkloadAssumption DEF RequestOK
  <2>3. PICK sizes, counts : /\ sizes = WeightedSizes(request.size, weights)
                             /\ counts = WeightedPartition(request.size, weights)
    OBVIOUS
  <2>4. weights # NoWeights =>
          weights \in [1..n -> Nat] /\ DOMAIN weights = 1..n /\ Fair(total, n, weights, sizes, counts)
    <3>. SUFFICES ASSUME weights # NoWeights
                  PROVE  /\ weights \in [1..n -> Nat] /\ DOMAIN weights = 1..n
                         /\ Fair(total, n, weights, sizes, counts)
      OBVIOUS
    <3>1. weights \in [1..n -> Nat] /\ Total(weights) > 0
      BY <2>1 DEF Splittable
    <3>. QED  BY <2>1, <2>2, <2>3, <3>1, SplitIsFair
  <2>5. weights # NoWeights => DOMAIN counts = 1..n
    <3>. SUFFICES ASSUME weights # NoWeights PROVE DOMAIN counts = 1..n
      OBVIOUS
    <3>1. weights \in [1..n -> Nat] /\ Total(weights) > 0
      BY <2>1 DEF Splittable
    <3>2. weights \in Seq(Nat) /\ Len(weights) = n
      BY <2>1, <3>1
    <3>3. PICK D : D = 1..Len(weights)
      OBVIOUS
    <3>4. counts \in [D -> Nat]
      BY <2>2, <2>3, <3>1, <3>2, <3>3, PartitionFacts
    <3>. QED  BY <3>2, <3>3, <3>4
  <2>6. PICK equal : equal = WeightedPartition(request.size, [i \in 1..n |-> 1])
    OBVIOUS
  <2>7. n > 0 => \A i \in 1..n :
          equal[i] = EvenStart(request.size, n, i + 1) - EvenStart(request.size, n, i)
    BY <2>1, <2>2, <2>6, EqualSharesAreEven
  <2>. HIDE <2>1
  <2>. QED  BY <2>2, <2>3, <2>4, <2>5, <2>6, <2>7 DEF SharesFollowWeights, Fair
<1>. QED  BY <1>1, Invariance, PlannedInvariance, PTL

\* However a launch was split, whichever of its jobs are done and whoever ran them, the summary is
\* the one a single machine would have computed of the items done: the image is the rows done, the
\* best configuration the best of those evaluated, a nonce one that was found, or there is none,
\* the histogram has every path and the Value-at-Risk its tail, the grades and the leaderboard have
\* every answer, rows and completions are in the order asked for, and the graph has all of the
\* documents read, once.
THEOREM SummariesMerge == Spec => []SummaryIsReference
<1>1. ASSUME IInv, Planned, Executed(jobs)
      PROVE  SummaryIsReference
  <2>. SUFFICES ASSUME Done # << >>, \A i \in DOMAIN Done : Done[i].result.whole
                PROVE  CASE request.kind = "optimize" -> ReferenceOptimize
                         [] request.kind = "montecarlo" -> ReferenceMontecarlo
                         [] request.kind = "hashcrack" -> ReferenceHashcrack
                         [] request.kind = "ai.eval" -> ReferenceEval
                         [] request.kind = "ai.graph" -> ReferenceGraph
                         [] request.kind \in {"ai.infer", "ai.batch_infer"} -> ReferenceRows(InferLimit)
                         [] request.kind = "ai.synth" -> ReferenceRows(SynthLimit)
                         [] request.kind = "fractal" -> ReferenceImage
                         [] OTHER -> Summary = NoSummary
    BY DEF SummaryIsReference
  <2>0. request.kind \in Launchable \cup {"render"}
    BY <1>1, WorkloadAssumption DEF IInv, Kept, LaunchInv, RequestOK
  <2>1. CASE request.kind = "optimize"
    BY <1>1, <2>1, OptimizeSummary
  <2>2. CASE request.kind = "hashcrack"
    BY <1>1, <2>2, HashcrackSummary
  <2>3. CASE request.kind = "fractal"
    BY <1>1, <2>3, FractalSummary
  <2>4. CASE request.kind = "montecarlo"
    BY <1>1, <2>4, MontecarloSummary
  <2>5. CASE request.kind = "ai.eval"
    BY <1>1, <2>5, EvalSummary
  <2>6. CASE request.kind = "ai.graph"
    BY <1>1, <2>6, GraphSummary
  <2>7. CASE request.kind \in {"ai.infer", "ai.batch_infer"}
    BY <1>1, <2>7, InferSummary
  <2>8. CASE request.kind = "ai.synth"
    BY <1>1, <2>8, SynthSummary
  <2>9. CASE request.kind \in {"data.transform", "render"}
    BY <2>9 DEF Summary, Aggregate
  <2>. QED  BY <2>0, <2>1, <2>2, <2>3, <2>4, <2>5, <2>6, <2>7, <2>8, <2>9 DEF Launchable
<1>. QED  BY <1>1, Invariance, PlannedInvariance, ExecutedInvariance, PTL

=============================================================================
