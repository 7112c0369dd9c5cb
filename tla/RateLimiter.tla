---------------------------- MODULE RateLimiter ----------------------------
(***************************************************************************)
(* RateLimiterService: one token bucket for each API key, shared by the     *)
(* threads that serve requests.  check() reads the clock first and takes    *)
(* the lock after it, so the readings of two threads may reach the bucket   *)
(* in the wrong order: the elapsed time is then negative, tokens are taken  *)
(* back and last_refilled_at moves into the past.                           *)
(*                                                                          *)
(* The unit is what a bucket gains in one tick of the clock: a token is     *)
(* worth Cost ticks (Cost = 1 / refill_rate_per_second).  A reference       *)
(* window of time, WindowStart .. WindowEnd, is fixed but arbitrary.        *)
(***************************************************************************)
EXTENDS Integers

CONSTANTS Thread,      \* threads that serve requests
          Key,         \* API keys
          None,
          Cost,        \* ticks that pay for one request
          Full,        \* capacity of a bucket, in ticks
          MaxTime,     \* bound on the clock
          WindowStart, WindowEnd

ASSUME CostAssumption == Cost \in Nat \ {0} /\ Full \in Nat \ {0}
ASSUME MaxTimeAssumption == MaxTime \in Nat
ASSUME WindowAssumption == WindowStart \in Nat /\ WindowEnd \in Nat /\ WindowStart <= WindowEnd

VARIABLES clock,     \* time.monotonic
          bucket,    \* Key -> its bucket, None before its first request
          reading,   \* Thread -> the key and the time it brings to the lock
          spent      \* history: Key -> what it was granted on readings in the window

limiterVars == <<clock, bucket, reading, spent>>

Time == 0 .. MaxTime
Bucket == [tokens : Int, last_refilled_at : Time]
Reading == [key : Key, now : Time]
ASSUME NoneAssumption == None \notin Bucket /\ None \notin Reading

LimiterTypeOK ==
    /\ clock \in Time
    /\ bucket \in [Key -> Bucket \cup {None}]
    /\ reading \in [Thread -> Reading \cup {None}]
    /\ spent \in [Key -> Nat]

LimiterInit ==
    /\ clock = 0
    /\ bucket = [k \in Key |-> None]
    /\ reading = [t \in Thread |-> None]
    /\ spent = [k \in Key |-> 0]

Tick ==
    /\ clock < MaxTime
    /\ clock' = clock + 1
    /\ UNCHANGED <<bucket, reading, spent>>

\* now = self._clock(), outside the lock.
ReadClock(t, k) ==
    /\ reading[t] = None
    /\ reading' = [reading EXCEPT ![t] = [key |-> k, now |-> clock]]
    /\ UNCHANGED <<clock, bucket, spent>>

\* The bucket of a key is created full.
BucketOf(k, now) ==
    IF bucket[k] = None THEN [tokens |-> Full, last_refilled_at |-> now] ELSE bucket[k]

\* Mutant: negative elapsed time counts as none, but last_refilled_at still moves
\* back.
MutRefilled(b, now) ==
    LET gained == b.tokens + (IF now < b.last_refilled_at THEN 0 ELSE now - b.last_refilled_at)
    IN  IF gained <= Full THEN gained ELSE Full
Refilled(b, now) ==
    LET gained == b.tokens + (now - b.last_refilled_at)
    IN  IF gained <= Full THEN gained ELSE Full

InWindow(now) == WindowStart <= now /\ now <= WindowEnd

\* check(), under the lock: refill, then take a token or raise.
Allowed(t) ==
    LET k == reading[t].key
        now == reading[t].now
        level == Refilled(BucketOf(k, now), now)
    IN  /\ level >= Cost
        /\ bucket' = [bucket EXCEPT ![k] = [tokens |-> level - Cost,
                                            last_refilled_at |-> now]]
        /\ spent' = [spent EXCEPT ![k] = IF InWindow(now) THEN @ + Cost ELSE @]

Exceeded(t) ==
    LET k == reading[t].key
        now == reading[t].now
        level == Refilled(BucketOf(k, now), now)
    IN  /\ level < Cost
        /\ bucket' = [bucket EXCEPT ![k] = [tokens |-> level, last_refilled_at |-> now]]
        /\ spent' = spent

Check(t) ==
    /\ reading[t] # None
    /\ Allowed(t) \/ Exceeded(t)
    /\ reading' = [reading EXCEPT ![t] = None]
    /\ clock' = clock

LimiterNext == \/ Tick
               \/ \E t \in Thread : Check(t) \/ \E k \in Key : ReadClock(t, k)

LimiterSpec == LimiterInit /\ [][LimiterNext]_limiterVars
-----------------------------------------------------------------------------
\* In any window of time a key is granted at most a full bucket and what the
\* window itself refills, in whatever order the threads reach the lock.  Time is
\* the time a request read: what a late thread takes back is given again, never
\* twice.
WindowBound == \A k \in Key : spent[k] <= Full + (WindowEnd - WindowStart)
=============================================================================
