--------------------------- MODULE AnswerRateLimit ---------------------------
(***************************************************************************)
(* AnswerRateLimitMiddleware: the per-process limiter in front of the      *)
(* grounded-answer route.  The code between acquiring and releasing its    *)
(* asyncio lock never awaits, so a request is one step.                    *)
(*                                                                         *)
(* Time is counted in ticks, TicksPerSecond of them, so that the rounding  *)
(* of Retry-After to whole seconds shows.  Among clients whose last        *)
(* request is equally old any may be evicted; the code takes the one       *)
(* whose bucket was created first.                                         *)
(***************************************************************************)
EXTENDS Naturals, Sequences, FiniteSets

CONSTANTS
  Clients,          \* client hosts
  MaximumRequests,  \* admitted requests per client and window
  WindowSeconds,    \* length of the window
  MaximumBuckets,   \* clients remembered (_maximum_client_buckets)
  TicksPerSecond,   \* resolution of time.monotonic()
  MaxTime           \* bound on the clock

ASSUME LimiterAssumption ==
  /\ MaximumRequests \in Nat \ {0}
  /\ WindowSeconds \in Nat \ {0}
  /\ MaximumBuckets \in Nat \ {0}
  /\ TicksPerSecond \in Nat \ {0}
  /\ MaxTime \in Nat

Window == WindowSeconds * TicksPerSecond

VARIABLES
  now,      \* time.monotonic()
  buckets,  \* the admission times remembered of each client that has a bucket
  log,      \* every admission of each client since an eviction forgot it
  retryAt   \* when the last Retry-After of each client runs out (0: none owed)

vars == <<now, buckets, log, retryAt>>

Init ==
  /\ now = 0
  /\ buckets = [c \in {} |-> <<>>]
  /\ log = [c \in Clients |-> <<>>]
  /\ retryAt = [c \in Clients |-> 0]

Expired(t) == t + Window <= now
Last(q) == q[Len(q)]

(* Clients whose whole bucket has expired. *)
StaleByFirst == {c \in DOMAIN buckets : buckets[c] = <<>> \/ Expired(buckets[c][1])}  \* mutant of Stale
Stale == {c \in DOMAIN buckets : buckets[c] = <<>> \/ Expired(Last(buckets[c]))}

Oldest(clients) ==
  {c \in clients : \A d \in clients : Last(buckets[c]) <= Last(buckets[d])}

(* The buckets kept when a request of client arrives. *)
FullTooLate(clients) == Cardinality(clients) > MaximumBuckets    \* mutant of Full
Full(clients) == Cardinality(clients) >= MaximumBuckets

Keeps(client, kept) ==
  LET fresh == DOMAIN buckets \ Stale
  IN  IF client \in DOMAIN buckets \/ ~Full(DOMAIN buckets) THEN kept = DOMAIN buckets
      ELSE IF ~Full(fresh) THEN kept = fresh
      ELSE \E c \in Oldest(fresh) : kept = fresh \ {c}

(* The while loop pops the first n times of bucket q. *)
Pops(q, n) ==
  /\ \A i \in 1..n : Expired(q[i])
  /\ n < Len(q) => ~Expired(q[n + 1])

Rest(q, n) == SubSeq(q, n + 1, Len(q))

BucketOf(client, kept) == IF client \in kept THEN buckets[client] ELSE <<>>

RetryRoundedDown(first) ==    \* mutant of RetryAfter
  LET seconds == (first + Window - now) \div TicksPerSecond
  IN  IF seconds < 1 THEN 1 ELSE seconds
RetryAfter(first) ==
  LET seconds == (first + Window - now + TicksPerSecond - 1) \div TicksPerSecond
  IN  IF seconds < 1 THEN 1 ELSE seconds

Dispatch(client) ==
  \E kept \in SUBSET DOMAIN buckets :
    /\ Keeps(client, kept)
    /\ LET old == BucketOf(client, kept)
           store(q) == [c \in kept \union {client} |-> IF c = client THEN q ELSE buckets[c]]
           evicted == DOMAIN buckets \ (kept \union Stale)
           known == [c \in Clients |-> IF c \in evicted THEN <<>> ELSE log[c]]
       IN  \E n \in 0..Len(old) :
             /\ Pops(old, n)
             /\ LET bucket == Rest(old, n)
                IN  IF Len(bucket) >= MaximumRequests
                    THEN /\ buckets' = store(bucket)
                         /\ retryAt' = [retryAt EXCEPT
                              ![client] = now + RetryAfter(bucket[1]) * TicksPerSecond]
                         /\ log' = known
                    ELSE /\ buckets' = store(Append(bucket, now))
                         /\ log' = [known EXCEPT ![client] = Append(@, now)]
                         /\ retryAt' = [retryAt EXCEPT ![client] = 0]
    /\ UNCHANGED now

Tick ==
  /\ now < MaxTime
  /\ now' = now + 1
  /\ UNCHANGED <<buckets, log, retryAt>>

Next == Tick \/ \E client \in Clients : Dispatch(client)

Spec == Init /\ [][Next]_vars
-----------------------------------------------------------------------------
(* The type of every variable. *)
TypeOK ==
  /\ now \in Nat
  /\ DOMAIN buckets \subseteq Clients
  /\ buckets \in [DOMAIN buckets -> Seq(Nat)]
  /\ log \in [Clients -> Seq(Nat)]
  /\ retryAt \in [Clients -> Nat]

(* No client is admitted more than MaximumRequests times in any window of  *)
(* WindowSeconds, wherever the window starts: the admission MaximumRequests *)
(* after another comes a whole window later.  Dropping expired times and   *)
(* stale clients loses nothing; only evicting a live client at the bucket  *)
(* limit starts its count anew.                                            *)
WindowBound ==
  \A c \in Clients :
    \A i \in 1..Len(log[c]) :
      i + MaximumRequests <= Len(log[c]) =>
        log[c][i] + Window <= log[c][i + MaximumRequests]

(* The limiter's memory is bounded, and no bucket is ever empty: min() over *)
(* the last times of all buckets cannot raise inside the middleware.       *)
MemoryBounded ==
  /\ IsFiniteSet(DOMAIN buckets)
  /\ Cardinality(DOMAIN buckets) <= MaximumBuckets
  /\ \A c \in DOMAIN buckets : Len(buckets[c]) \in 1..MaximumRequests

(* "machine-readable retry contract": a refused client that waits for its  *)
(* Retry-After, rounded to seconds as it is, is admitted when it comes     *)
(* back, whoever else asked meanwhile.                                     *)
RetryAfterSuffices ==
  \A c \in DOMAIN buckets :
    0 < retryAt[c] /\ retryAt[c] <= now =>
      Len(buckets[c]) < MaximumRequests \/ Expired(buckets[c][1])
=============================================================================
