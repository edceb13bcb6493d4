----------------------------- MODULE RateLimiter -----------------------------
(***************************************************************************)
(* The request limiter of the control plane: orchestrator/ratelimit.py and *)
(* the middleware of orchestrator/app.py that asks it.  A client, known by *)
(* its bearer token or else by its address, opens a window with its first  *)
(* request and has Limit requests in it.  Every SweepEvery checks the      *)
(* windows that are over are forgotten.  The lock makes a check one step.  *)
(***************************************************************************)
EXTENDS Integers, FiniteSets

CONSTANTS
  Keys,        \* client_key: "tok:..." and "ip:..."
  Limit,       \* rate_limit_per_min
  Window,      \* window_s, in ticks of the clock
  Second,      \* ticks of the clock in a second
  SweepEvery,  \* _SWEEP_EVERY
  MaxClock,    \* bound: time.monotonic()
  MaxRestarts  \* bound: restarts of the orchestrator

ASSUME LimiterAssumption ==
  /\ Limit \in Nat \ {0} /\ Window \in Nat \ {0} /\ Second \in Nat \ {0}
  /\ SweepEvery \in Nat \ {0} /\ MaxClock \in Nat /\ MaxRestarts \in Nat

VARIABLES
  clock,     \* time.monotonic()
  buckets,   \* _buckets: the window of every key that has one
  ops,       \* _ops, modulo SweepEvery
  admitted,  \* history: the requests this process let through, by key
  promised,  \* history: when a refused client was told to come back; 0: was not, or was let in
  restarts

limiterVars == <<clock, buckets, ops, admitted, promised, restarts>>

Bucket  == [start : 0..MaxClock, count : 1..Limit]
Request == [start : 0..MaxClock, nth : 1..Limit, at : 0..MaxClock]

LimiterInit ==
  /\ clock = 0 /\ buckets = << >> /\ ops = 0
  /\ admitted = [k \in Keys |-> {}]
  /\ promised = [k \in Keys |-> 0]
  /\ restarts = 0

-----------------------------------------------------------------------------
(* RateLimiter.check *)

Over(bucket) == clock - bucket.start >= Window

Sweeps == (ops + 1) % SweepEvery = 0

\* _sweep: everything, not only what is over.
Mutant_Swept == IF Sweeps THEN << >> ELSE buckets

\* The buckets the check works on: after _sweep, when it is due.
Swept ==
  IF Sweeps THEN [k \in {i \in DOMAIN buckets : ~Over(buckets[i])} |-> buckets[k]] ELSE buckets

\* The window a request of key k falls in; one that is over starts afresh.
Current(k) ==
  IF k \in DOMAIN Swept /\ ~Over(Swept[k]) THEN Swept[k] ELSE [start |-> clock, count |-> 0]

Mutant_Full(k) == Current(k).count > Limit
Full(k) == Current(k).count >= Limit

\* int() without the + 1
Mutant_RetryAfter(k) ==
  LET left == Window - (clock - Current(k).start)
  IN  IF left \div Second > 1 THEN left \div Second ELSE 1

\* Whole seconds until the window is over.
RetryAfter(k) ==
  LET whole == (Window - (clock - Current(k).start)) \div Second + 1
  IN  IF whole > 1 THEN whole ELSE 1

Admit(k) ==
  LET window == Current(k) IN
  /\ ~Full(k)
  /\ buckets' = [i \in DOMAIN Swept \cup {k} |->
                   IF i = k THEN [start |-> window.start, count |-> window.count + 1] ELSE Swept[i]]
  /\ admitted' = [admitted EXCEPT ![k] =
                    @ \cup {[start |-> window.start, nth |-> window.count + 1, at |-> clock]}]
  /\ promised' = [promised EXCEPT ![k] = 0]
  /\ ops' = (ops + 1) % SweepEvery
  /\ UNCHANGED <<clock, restarts>>

\* 429, with Retry-After
Refuse(k) ==
  /\ Full(k)
  /\ buckets' = Swept
  /\ promised' = [promised EXCEPT ![k] = clock + RetryAfter(k) * Second]
  /\ ops' = (ops + 1) % SweepEvery
  /\ UNCHANGED <<clock, admitted, restarts>>

Check(k) == Admit(k) \/ Refuse(k)

-----------------------------------------------------------------------------
Tick ==
  /\ clock < MaxClock
  /\ clock' = clock + 1
  /\ UNCHANGED <<buckets, ops, admitted, promised, restarts>>

\* create_app: a new limiter, which knows nothing of the old one's requests.
NewLimiter ==
  /\ restarts < MaxRestarts
  /\ restarts' = restarts + 1
  /\ buckets' = << >> /\ ops' = 0
  /\ admitted' = [k \in Keys |-> {}]
  /\ promised' = [k \in Keys |-> 0]
  /\ UNCHANGED clock

LimiterNext == Tick \/ NewLimiter \/ \E k \in Keys : Check(k)

LimiterSpec == LimiterInit /\ [][LimiterNext]_limiterVars

-----------------------------------------------------------------------------
(* Properties. *)

\* Every bucket is a window that has begun and holds between one and Limit requests.
LimiterTypeOK ==
  /\ clock \in 0..MaxClock /\ ops \in 0..(SweepEvery - 1) /\ restarts \in 0..MaxRestarts
  /\ DOMAIN buckets \subseteq Keys
  /\ \A k \in DOMAIN buckets : buckets[k] \in Bucket /\ buckets[k].start <= clock
  /\ DOMAIN admitted = Keys /\ \A k \in Keys : admitted[k] \subseteq Request
  /\ promised \in [Keys -> Nat]

\* The requests of key k let through in the window's length from t on.
During(k, t) == {r \in admitted[k] : r.at \in t..(t + Window - 1)}

\* However a client times its requests, and whatever _sweep forgets, any span as long as a window
\* sees at most twice the limit: the two windows that a fixed-window counter lets a burst straddle.
AtMostTwice == \A k \in Keys, t \in 0..MaxClock : Cardinality(During(k, t)) <= 2 * Limit

\* A refused client that comes back when it was told to is let in, and it was not sent away for
\* longer than a second past the end of its window.
RetryAfterIsExact ==
  \A k \in Keys : promised[k] # 0 =>
    /\ clock >= promised[k] => ~Full(k)
    /\ k \in DOMAIN buckets => promised[k] <= buckets[k].start + Window + Second

=============================================================================
