------------------------ MODULE AnswerRateLimitProofs ------------------------
(***************************************************************************)
(* Proofs about AnswerRateLimit for any clients, limits and clock.         *)
(*                                                                         *)
(* The argument: a bucket is the end of its client's log, and whatever of  *)
(* the log is not in it has expired (Remembers).  When an admission is     *)
(* appended, fewer than MaximumRequests times are left in the bucket, so   *)
(* the admission MaximumRequests before it is among those that expired.    *)
(***************************************************************************)
EXTENDS AnswerRateLimit, FiniteSetTheorems, TLAPS

Held(c) == IF c \in DOMAIN buckets THEN Len(buckets[c]) ELSE 0
Dropped(c) == Len(log[c]) - Held(c)

(* Admissions are logged in the order of the clock. *)
Ordered ==
  \A c \in Clients :
    \A i \in 1..Len(log[c]) :
      /\ log[c][i] <= now
      /\ \A j \in i..Len(log[c]) : log[c][i] <= log[c][j]

(* A bucket is the end of the log; the rest of the log has expired. *)
Remembers ==
  \A c \in Clients :
    /\ Held(c) <= Len(log[c])
    /\ \A i \in 1..Held(c) : buckets[c][i] = log[c][Dropped(c) + i]
    /\ \A i \in 1..Dropped(c) : Expired(log[c][i])

(* A promise covers the expiry of the oldest time of a full bucket. *)
Owes ==
  \A c \in DOMAIN buckets :
    0 < retryAt[c] =>
      Len(buckets[c]) < MaximumRequests \/ buckets[c][1] + Window <= retryAt[c]

LimiterInv ==
  TypeOK /\ Ordered /\ Remembers /\ WindowBound /\ MemoryBounded /\ Owes

(* Waiting the announced seconds reaches the expiry of the oldest time.    *)
LEMMA RetryCovers ==
  ASSUME TypeOK, NEW first \in Nat
  PROVE  /\ RetryAfter(first) \in Nat \ {0}
         /\ first + Window <= now + RetryAfter(first) * TicksPerSecond
<1> DEFINE left == first + Window - now
           seconds == (left + TicksPerSecond - 1) \div TicksPerSecond
<1>1. now \in Nat /\ Window \in Nat /\ TicksPerSecond \in Nat /\ TicksPerSecond > 0
  BY LimiterAssumption DEF TypeOK, Window
<1>2. left \in Int /\ left + TicksPerSecond - 1 \in Int
  BY <1>1
<1> HIDE DEF left
<1>3. seconds \in Int /\ left <= seconds * TicksPerSecond
  BY <1>1, <1>2, SMTT(30)
<1>4. RetryAfter(first) = IF seconds < 1 THEN 1 ELSE seconds
  BY DEF RetryAfter, left
<1> HIDE DEF seconds
<1>5. RetryAfter(first) \in Nat \ {0} /\ seconds <= RetryAfter(first)
  BY <1>3, <1>4
<1>6. seconds * TicksPerSecond <= RetryAfter(first) * TicksPerSecond
  BY <1>1, <1>3, <1>5, SMTT(30)
<1>7. left <= RetryAfter(first) * TicksPerSecond
  BY <1>1, <1>2, <1>3, <1>5, <1>6
<1> QED
  BY <1>1, <1>5, <1>7 DEF left

(* What making room keeps and gives up.                                    *)
LEMMA KeepsRoom ==
  ASSUME LimiterInv, NEW client \in Clients,
         NEW kept \in SUBSET DOMAIN buckets, Keeps(client, kept)
  PROVE  /\ client \in DOMAIN buckets => kept = DOMAIN buckets
         /\ Cardinality(kept \union {client}) <= MaximumBuckets
         /\ IsFiniteSet(kept \union {client})
<1> DEFINE fresh == DOMAIN buckets \ Stale
<1>1. IsFiniteSet(DOMAIN buckets) /\ Cardinality(DOMAIN buckets) \in Nat
      /\ Cardinality(DOMAIN buckets) <= MaximumBuckets /\ MaximumBuckets \in Nat \ {0}
  BY FS_CardinalityType, LimiterAssumption DEF LimiterInv, MemoryBounded
<1>2. IsFiniteSet(kept) /\ Cardinality(kept) \in Nat /\ IsFiniteSet(fresh)
      /\ Cardinality(fresh) \in Nat /\ Cardinality(fresh) <= Cardinality(DOMAIN buckets)
  BY <1>1, FS_Subset, FS_CardinalityType
<1>3. IsFiniteSet(kept \union {client})
      /\ Cardinality(kept \union {client}) =
           IF client \in kept THEN Cardinality(kept) ELSE Cardinality(kept) + 1
  BY <1>2, FS_AddElement
<1>4. CASE client \in DOMAIN buckets \/ ~Full(DOMAIN buckets)
  <2>1. kept = DOMAIN buckets
    BY <1>4 DEF Keeps
  <2> QED
    BY <1>1, <1>3, <1>4, <2>1 DEF Full
<1>5. CASE client \notin DOMAIN buckets /\ Full(DOMAIN buckets) /\ ~Full(fresh)
  <2>1. kept = fresh
    BY <1>5 DEF Keeps
  <2> QED
    BY <1>1, <1>2, <1>3, <1>5, <2>1 DEF Full
<1>6. CASE client \notin DOMAIN buckets /\ Full(DOMAIN buckets) /\ Full(fresh)
  <2>1. PICK c \in Oldest(fresh) : kept = fresh \ {c}
    BY <1>6 DEF Keeps
  <2>2. c \in fresh
    BY DEF Oldest
  <2>3. Cardinality(kept) = Cardinality(fresh) - 1
    BY <1>2, <2>1, <2>2, FS_RemoveElement
  <2> QED
    BY <1>1, <1>2, <1>3, <1>6, <2>3
<1> QED
  BY <1>4, <1>5, <1>6

(* The times of a bucket expire in order, so a stale client's log is       *)
(* expired as a whole.                                                     *)
LEMMA StaleLog ==
  ASSUME LimiterInv, NEW c \in Stale
  PROVE  c \in Clients /\ \A i \in 1..Len(log[c]) : Expired(log[c][i])
<1>1. c \in DOMAIN buckets /\ c \in Clients /\ buckets[c] \in Seq(Nat) /\ log[c] \in Seq(Nat)
  BY DEF Stale, LimiterInv, TypeOK
<1>2. Len(buckets[c]) \in Nat /\ Len(buckets[c]) >= 1 /\ Len(log[c]) \in Nat
  BY <1>1, LimiterAssumption DEF LimiterInv, MemoryBounded
<1>3. Held(c) = Len(buckets[c])
  BY <1>1 DEF Held
<1>4. /\ Held(c) <= Len(log[c])
      /\ \A i \in 1..Held(c) : buckets[c][i] = log[c][Dropped(c) + i]
  BY <1>1 DEF LimiterInv, Remembers
<1>5. Last(buckets[c]) = log[c][Len(log[c])]
  BY <1>2, <1>3, <1>4 DEF Last, Dropped
<1>6. Expired(Last(buckets[c]))
  BY <1>1, <1>2 DEF Stale
<1>7. \A i \in 1..Len(log[c]) : log[c][i] \in Nat /\ log[c][i] <= log[c][Len(log[c])]
  BY <1>1, <1>2 DEF LimiterInv, Ordered
<1>8. now \in Nat /\ Window \in Nat
  BY LimiterAssumption DEF LimiterInv, TypeOK, Window
<1>9. \A i \in 1..Len(log[c]) : Expired(log[c][i])
  <2> SUFFICES ASSUME NEW i \in 1..Len(log[c]) PROVE Expired(log[c][i])
    OBVIOUS
  <2>1. log[c][Len(log[c])] + Window <= now
    BY <1>5, <1>6 DEF Expired
  <2>2. log[c][i] \in Nat /\ log[c][i] <= log[c][Len(log[c])] /\ log[c][Len(log[c])] \in Nat
    BY <1>2, <1>7
  <2> QED
    BY <1>8, <2>1, <2>2 DEF Expired
<1> QED
  BY <1>1, <1>9

(* At the start nobody was admitted and nothing is remembered.             *)
LEMMA InitInv == Init => LimiterInv
<1> SUFFICES ASSUME Init PROVE LimiterInv
  OBVIOUS
<1>1. DOMAIN buckets = {}
  BY DEF Init
<1>2. \A c \in Clients : log[c] = <<>> /\ Len(log[c]) = 0 /\ Held(c) = 0 /\ Dropped(c) = 0
  BY <1>1 DEF Init, Held, Dropped
<1>3. TypeOK
  BY <1>1 DEF Init, TypeOK
<1>4. Ordered
  BY <1>2 DEF Ordered
<1>5. Remembers
  BY <1>2 DEF Remembers
<1>6. WindowBound
  BY <1>2 DEF WindowBound
<1>7. MemoryBounded
  BY <1>1, FS_EmptySet, LimiterAssumption DEF MemoryBounded
<1>8. Owes
  BY <1>1 DEF Owes
<1> QED
  BY <1>3, <1>4, <1>5, <1>6, <1>7, <1>8 DEF LimiterInv

(* The clock only moves on, which can expire times but revives none.       *)
LEMMA TickInv == LimiterInv /\ Tick => LimiterInv'
<1> SUFFICES ASSUME LimiterInv, Tick PROVE LimiterInv'
  OBVIOUS
<1>1. now \in Nat /\ now' = now + 1 /\ Window \in Nat
      /\ UNCHANGED <<buckets, log, retryAt>>
  BY LimiterAssumption DEF LimiterInv, TypeOK, Tick, Window
<1>2. \A t \in Nat : Expired(t) => t + Window <= now'
  BY <1>1 DEF Expired
<1>3. TypeOK'
  BY <1>1 DEF LimiterInv, TypeOK
<1>4. Ordered'
  <2> SUFFICES ASSUME NEW c \in Clients, NEW i \in 1..Len(log[c])
               PROVE  /\ log[c][i] <= now'
                      /\ \A j \in i..Len(log[c]) : log[c][i] <= log[c][j]
    BY <1>1 DEF Ordered
  <2>1. log[c] \in Seq(Nat) /\ log[c][i] \in Nat
    BY DEF LimiterInv, TypeOK
  <2> QED
    BY <1>1, <2>1 DEF LimiterInv, Ordered
<1>5. Remembers'
  <2> SUFFICES ASSUME NEW c \in Clients
               PROVE  /\ Held(c)' <= Len(log[c])'
                      /\ \A i \in 1..Held(c)' : (buckets[c][i] = log[c][Dropped(c) + i])'
                      /\ \A i \in 1..Dropped(c)' : Expired(log[c][i])'
    BY DEF Remembers
  <2>1. Held(c)' = Held(c) /\ Dropped(c)' = Dropped(c)
    BY <1>1 DEF Held, Dropped
  <2>2. /\ Held(c) <= Len(log[c])
        /\ \A i \in 1..Held(c) : buckets[c][i] = log[c][Dropped(c) + i]
        /\ \A i \in 1..Dropped(c) : Expired(log[c][i])
    BY DEF LimiterInv, Remembers
  <2>3. log[c] \in Seq(Nat) /\ Len(log[c]) \in Nat /\ Held(c) \in Nat
    BY DEF LimiterInv, TypeOK, Held
  <2>4. \A i \in 1..Dropped(c) : log[c][i] \in Nat
    BY <2>3 DEF Dropped
  <2>5. \A i \in 1..Dropped(c) : log[c][i] + Window <= now'
    BY <1>2, <2>2, <2>4
  <2> QED
    BY <1>1, <2>1, <2>2, <2>5 DEF Expired, Window
<1>6. WindowBound' /\ MemoryBounded' /\ Owes'
  BY <1>1 DEF LimiterInv, WindowBound, MemoryBounded, Owes, Window
<1> QED
  BY <1>3, <1>4, <1>5, <1>6 DEF LimiterInv

(* What remains of a sequence once its first n elements are popped.        *)
LEMMA RestOf ==
  ASSUME NEW q \in Seq(Nat), NEW n \in 0..Len(q)
  PROVE  /\ Rest(q, n) \in Seq(Nat)
         /\ Len(Rest(q, n)) \in Nat
         /\ Len(Rest(q, n)) = Len(q) - n
         /\ \A i \in 1..Len(Rest(q, n)) : Rest(q, n)[i] = q[n + i]
  BY DEF Rest

(* What is left of a bucket once the expired times are popped is still the *)
(* end of the log, and the rest of the log has expired.                    *)
LEMMA PoppedRemembers ==
  ASSUME LimiterInv, NEW client \in Clients,
         NEW kept \in SUBSET DOMAIN buckets, Keeps(client, kept),
         NEW n \in 0..Len(BucketOf(client, kept)), Pops(BucketOf(client, kept), n)
  PROVE  LET bucket == Rest(BucketOf(client, kept), n)
         IN  /\ bucket \in Seq(Nat)
             /\ Len(bucket) <= Len(log[client])
             /\ Len(bucket) <= MaximumRequests
             /\ \A i \in 1..Len(bucket) :
                  bucket[i] = log[client][Len(log[client]) - Len(bucket) + i]
             /\ \A i \in 1..(Len(log[client]) - Len(bucket)) : Expired(log[client][i])
<1> DEFINE L == Len(log[client])
           old == BucketOf(client, kept)
           bucket == Rest(old, n)
<1>1. log[client] \in Seq(Nat) /\ L \in Nat
  BY DEF LimiterInv, TypeOK
<1>2. old \in Seq(Nat) /\ Len(old) = Held(client) /\ Len(old) \in Nat
      /\ Len(old) <= MaximumRequests /\ MaximumRequests \in Nat
  <2>1. client \in DOMAIN buckets => client \in kept
    BY KeepsRoom
  <2> QED
    BY <2>1, LimiterAssumption DEF LimiterInv, TypeOK, Held, BucketOf, MemoryBounded
<1>3. /\ Len(old) <= L
      /\ \A i \in 1..Len(old) : old[i] = log[client][L - Len(old) + i]
      /\ \A i \in 1..(L - Len(old)) : Expired(log[client][i])
  <2>1. /\ Held(client) <= L
        /\ \A i \in 1..Held(client) : buckets[client][i] = log[client][Dropped(client) + i]
        /\ \A i \in 1..Dropped(client) : Expired(log[client][i])
    BY DEF LimiterInv, Remembers
  <2>2. Dropped(client) = L - Len(old)
    BY <1>2 DEF Dropped
  <2>3. \A i \in 1..Len(old) : old[i] = buckets[client][i]
    <3>1. client \notin kept => Len(old) = 0
      BY DEF BucketOf
    <3> QED
      BY <1>2, <3>1 DEF BucketOf
  <2> QED
    BY <1>2, <2>1, <2>2, <2>3
<1>4. /\ n \in Nat /\ n <= Len(old)
      /\ bucket \in Seq(Nat)
      /\ Len(bucket) \in Nat /\ Len(bucket) = Len(old) - n
      /\ \A i \in 1..Len(bucket) : bucket[i] = old[n + i]
  <2> HIDE DEF L, old
  <2>1. old \in Seq(Nat) /\ n \in 0..Len(old)
    BY <1>2 DEF old
  <2>2. /\ Rest(old, n) \in Seq(Nat)
        /\ Len(Rest(old, n)) \in Nat
        /\ Len(Rest(old, n)) = Len(old) - n
        /\ \A i \in 1..Len(Rest(old, n)) : Rest(old, n)[i] = old[n + i]
    BY <2>1, RestOf, Zenon
  <2>3. n \in Nat /\ n <= Len(old)
    BY <1>2, <2>1
  <2> QED
    BY <2>2, <2>3, Zenon
<1>counts. /\ L \in Nat /\ Len(old) \in Nat /\ n \in Nat /\ Len(bucket) \in Nat
          /\ n <= Len(old) /\ Len(old) <= L /\ Len(bucket) = Len(old) - n
  <2> HIDE DEF L, old, bucket
  <2> QED
    BY <1>1, <1>2, <1>3, <1>4, Zenon
<1>5. \A i \in 1..n : Expired(old[i])
  BY DEF Pops
<1> HIDE DEF L, old, bucket
<1>6. \A i \in 1..Len(bucket) : bucket[i] = log[client][L - Len(bucket) + i]
  <2> SUFFICES ASSUME NEW i \in 1..Len(bucket)
               PROVE  bucket[i] = log[client][L - Len(bucket) + i]
    OBVIOUS
  <2>1. n + i \in 1..Len(old) /\ L - Len(old) + (n + i) = L - Len(bucket) + i
    <3>1. \A j \in 1..Len(bucket) :
             n + j \in 1..Len(old) /\ L - Len(old) + (n + j) = L - Len(bucket) + j
      BY <1>counts
    <3> QED
      BY <3>1, Zenon
  <2>2. \A j \in 1..Len(old) : old[j] = log[client][L - Len(old) + j]
    BY <1>3
  <2>3. bucket[i] = old[n + i]
    BY <1>4
  <2> QED
    BY <2>1, <2>2, <2>3, Zenon
<1>7. \A i \in 1..(L - Len(bucket)) : Expired(log[client][i])
  <2> SUFFICES ASSUME NEW i \in 1..(L - Len(bucket))
               PROVE  Expired(log[client][i])
    OBVIOUS
  <2> DEFINE k == i - (L - Len(old))
  <2>1. \/ i \in 1..(L - Len(old))
        \/ k \in 1..n /\ k \in 1..Len(old) /\ L - Len(old) + k = i
    <3>1. \A j \in 1..(L - Len(bucket)) :
             \/ j \in 1..(L - Len(old))
             \/ /\ j - (L - Len(old)) \in 1..n /\ j - (L - Len(old)) \in 1..Len(old)
                /\ L - Len(old) + (j - (L - Len(old))) = j
      BY <1>counts
    <3> QED
      BY <3>1, Zenon DEF k
  <2> HIDE DEF k
  <2>2. CASE i \in 1..(L - Len(old))
    BY <1>3, <2>2
  <2>3. CASE k \in 1..n /\ k \in 1..Len(old) /\ L - Len(old) + k = i
    <3>1. Expired(old[k])
      BY <1>5, <2>3
    <3>2. old[k] = log[client][L - Len(old) + k]
      BY <1>3, <2>3
    <3> QED
      BY <2>3, <3>1, <3>2
  <2> QED
    BY <2>1, <2>2, <2>3
<1>8. Len(bucket) <= L /\ Len(bucket) <= MaximumRequests
  BY <1>1, <1>2, <1>3, <1>4
<1> QED
  BY <1>4, <1>6, <1>7, <1>8 DEF L, old, bucket

(* What a request leaves of every other client: its bucket and its log, or *)
(* an expired log without a bucket, or, for an evicted client, nothing.    *)
Untouched(c) ==
  \/ /\ c \in DOMAIN buckets /\ c \in DOMAIN buckets'
     /\ buckets'[c] = buckets[c] /\ log'[c] = log[c]
  \/ /\ c \notin DOMAIN buckets' /\ log'[c] = log[c]
     /\ \A i \in 1..Len(log[c]) : Expired(log[c][i])
  \/ /\ c \notin DOMAIN buckets' /\ log'[c] = <<>>

(* A refused request stores the popped bucket and owes a retry time.       *)
Refused(client, bucket) ==
  /\ Len(bucket) >= MaximumRequests
  /\ buckets'[client] = bucket
  /\ log'[client] = log[client]
  /\ retryAt'[client] = now + RetryAfter(bucket[1]) * TicksPerSecond

(* An admitted request is added to the popped bucket and to the log.       *)
Admitted(client, bucket) ==
  /\ Len(bucket) < MaximumRequests
  /\ buckets'[client] = Append(bucket, now)
  /\ log'[client] = Append(log[client], now)
  /\ retryAt'[client] = 0

(* What is left of a bucket: the end of the log, the rest being expired.   *)
LogEnd(client, bucket) ==
  /\ bucket \in Seq(Nat)
  /\ Len(bucket) <= Len(log[client])
  /\ Len(bucket) <= MaximumRequests
  /\ \A i \in 1..Len(bucket) :
       bucket[i] = log[client][Len(log[client]) - Len(bucket) + i]
  /\ \A i \in 1..(Len(log[client]) - Len(bucket)) : Expired(log[client][i])

(* The effect of a request, read off its action.                           *)
LEMMA DispatchEffect ==
  ASSUME LimiterInv, NEW client \in Clients, Dispatch(client)
  PROVE  /\ now' = now
         /\ client \in DOMAIN buckets' /\ DOMAIN buckets' \subseteq Clients
         /\ IsFiniteSet(DOMAIN buckets') /\ Cardinality(DOMAIN buckets') <= MaximumBuckets
         /\ buckets' = [c \in DOMAIN buckets' |-> buckets'[c]]
         /\ log' = [c \in Clients |-> log'[c]]
         /\ retryAt' = [c \in Clients |-> retryAt'[c]]
         /\ \A c \in Clients \ {client} : Untouched(c) /\ retryAt'[c] = retryAt[c]
         /\ \E bucket \in Seq(Nat) :
              LogEnd(client, bucket) /\ (Refused(client, bucket) \/ Admitted(client, bucket))
<1> DEFINE after(kept, q) ==
             [c \in kept \union {client} |-> IF c = client THEN q ELSE buckets[c]]
           known(kept) ==
             [c \in Clients |-> IF c \in DOMAIN buckets \ (kept \union Stale) THEN <<>> ELSE log[c]]
<1>1. PICK kept \in SUBSET DOMAIN buckets :
        /\ Keeps(client, kept)
        /\ \E n \in 0..Len(BucketOf(client, kept)) :
             /\ Pops(BucketOf(client, kept), n)
             /\ LET bucket == Rest(BucketOf(client, kept), n)
                IN  IF Len(bucket) >= MaximumRequests
                    THEN /\ buckets' = after(kept, bucket)
                         /\ retryAt' = [retryAt EXCEPT
                              ![client] = now + RetryAfter(bucket[1]) * TicksPerSecond]
                         /\ log' = known(kept)
                    ELSE /\ buckets' = after(kept, Append(bucket, now))
                         /\ log' = [known(kept) EXCEPT ![client] = Append(@, now)]
                         /\ retryAt' = [retryAt EXCEPT ![client] = 0]
        /\ now' = now
  BY DEF Dispatch
<1>2. PICK n \in 0..Len(BucketOf(client, kept)) :
        /\ Pops(BucketOf(client, kept), n)
        /\ LET bucket == Rest(BucketOf(client, kept), n)
           IN  IF Len(bucket) >= MaximumRequests
               THEN /\ buckets' = after(kept, bucket)
                    /\ retryAt' = [retryAt EXCEPT
                         ![client] = now + RetryAfter(bucket[1]) * TicksPerSecond]
                    /\ log' = known(kept)
               ELSE /\ buckets' = after(kept, Append(bucket, now))
                    /\ log' = [known(kept) EXCEPT ![client] = Append(@, now)]
                    /\ retryAt' = [retryAt EXCEPT ![client] = 0]
  BY <1>1
<1> DEFINE bucket == Rest(BucketOf(client, kept), n)
<1>3. LogEnd(client, bucket)
  BY <1>1, <1>2, PoppedRemembers DEF LogEnd
<1>4. /\ client \in DOMAIN buckets => kept = DOMAIN buckets
      /\ Cardinality(kept \union {client}) <= MaximumBuckets
      /\ IsFiniteSet(kept \union {client})
  BY <1>1, KeepsRoom
<1> HIDE DEF bucket
<1>5. /\ DOMAIN buckets \subseteq Clients /\ log \in [Clients -> Seq(Nat)]
      /\ retryAt \in [Clients -> Nat] /\ Len(bucket) \in Nat /\ MaximumRequests \in Nat
  BY <1>3, LimiterAssumption DEF LimiterInv, TypeOK, LogEnd
<1>6. PICK q, r, l :
        /\ buckets' = after(kept, q)
        /\ retryAt' = [retryAt EXCEPT ![client] = r]
        /\ log' = [known(kept) EXCEPT ![client] = l]
        /\ \/ /\ Len(bucket) >= MaximumRequests /\ q = bucket
              /\ r = now + RetryAfter(bucket[1]) * TicksPerSecond
              /\ l = known(kept)[client]
           \/ /\ Len(bucket) < MaximumRequests /\ q = Append(bucket, now)
              /\ r = 0 /\ l = Append(known(kept)[client], now)
  <2>1. CASE Len(bucket) >= MaximumRequests
    BY <1>2, <2>1 DEF bucket
  <2>2. CASE ~(Len(bucket) >= MaximumRequests)
    <3>1. /\ buckets' = after(kept, Append(bucket, now))
          /\ log' = [known(kept) EXCEPT ![client] = Append(@, now)]
          /\ retryAt' = [retryAt EXCEPT ![client] = 0]
      BY <1>2, <2>2 DEF bucket
    <3>2. Len(bucket) < MaximumRequests
      BY <1>5, <2>2
    <3> HIDE DEF after, known
    <3> QED
      BY <3>1, <3>2, Zenon
  <2> QED
    BY <2>1, <2>2
<1>7. known(kept)[client] = log[client]
  BY <1>4
<1>8. /\ DOMAIN buckets' = kept \union {client}
      /\ buckets' = [c \in DOMAIN buckets' |-> buckets'[c]]
      /\ buckets'[client] = q
      /\ \A c \in kept \ {client} : buckets'[c] = buckets[c]
  BY <1>6
<1>9. /\ log' = [c \in Clients |-> log'[c]]
      /\ retryAt' = [c \in Clients |-> retryAt'[c]]
      /\ log'[client] = l /\ retryAt'[client] = r
      /\ \A c \in Clients \ {client} :
           log'[c] = known(kept)[c] /\ retryAt'[c] = retryAt[c]
  BY <1>5, <1>6
<1>10. \A c \in Clients \ {client} : Untouched(c)
  <2> SUFFICES ASSUME NEW c \in Clients \ {client} PROVE Untouched(c)
    OBVIOUS
  <2>1. CASE c \in kept
    BY <1>8, <1>9, <2>1 DEF Untouched
  <2>2. CASE c \notin kept /\ c \in DOMAIN buckets \ Stale
    BY <1>8, <1>9, <2>2 DEF Untouched
  <2>3. CASE c \notin kept /\ c \in Stale
    <3>1. \A i \in 1..Len(log[c]) : Expired(log[c][i])
      BY <2>3, StaleLog
    <3> QED
      BY <1>8, <1>9, <2>3, <3>1 DEF Untouched
  <2>4. CASE c \notin DOMAIN buckets
    <3>1. Held(c) = 0 /\ \A i \in 1..Dropped(c) : Expired(log[c][i])
      BY <2>4 DEF LimiterInv, Remembers, Held
    <3>2. Dropped(c) = Len(log[c])
      BY <1>5, <3>1 DEF Dropped
    <3> QED
      BY <1>8, <1>9, <2>4, <3>1, <3>2 DEF Untouched
  <2> QED
    BY <2>1, <2>2, <2>3, <2>4
<1>11. Refused(client, bucket) \/ Admitted(client, bucket)
  BY <1>6, <1>7, <1>8, <1>9 DEF Refused, Admitted
<1>12. bucket \in Seq(Nat)
  BY <1>3 DEF LogEnd
<1> QED
  BY <1>1, <1>3, <1>4, <1>5, <1>8, <1>9, <1>10, <1>11, <1>12

(* Appending to a sequence of times. *)
LEMMA AppendTime ==
  ASSUME NEW q \in Seq(Nat), NEW t \in Nat
  PROVE  /\ Append(q, t) \in Seq(Nat)
         /\ Len(Append(q, t)) \in Nat /\ Len(Append(q, t)) = Len(q) + 1
         /\ \A i \in 1..Len(q) : Append(q, t)[i] = q[i]
         /\ Append(q, t)[Len(q) + 1] = t
  OBVIOUS

(* One request keeps the order of the logs, the tie between buckets and    *)
(* logs, the bound on any window, the bound on memory and what is owed.    *)
LEMMA DispatchInv ==
  ASSUME LimiterInv, NEW client \in Clients, Dispatch(client)
  PROVE  LimiterInv'
<1>1. PICK bucket \in Seq(Nat) :
        LogEnd(client, bucket) /\ (Refused(client, bucket) \/ Admitted(client, bucket))
  BY DispatchEffect
<1>2. /\ now' = now
      /\ client \in DOMAIN buckets' /\ DOMAIN buckets' \subseteq Clients
      /\ IsFiniteSet(DOMAIN buckets') /\ Cardinality(DOMAIN buckets') <= MaximumBuckets
      /\ buckets' = [c \in DOMAIN buckets' |-> buckets'[c]]
      /\ log' = [c \in Clients |-> log'[c]]
      /\ retryAt' = [c \in Clients |-> retryAt'[c]]
      /\ \A c \in Clients \ {client} : Untouched(c) /\ retryAt'[c] = retryAt[c]
  BY DispatchEffect
<1>3. /\ now \in Nat /\ Window \in Nat /\ MaximumRequests \in Nat /\ MaximumRequests > 0
      /\ \A c \in Clients : log[c] \in Seq(Nat) /\ Len(log[c]) \in Nat /\ retryAt[c] \in Nat
      /\ \A c \in DOMAIN buckets : buckets[c] \in Seq(Nat)
      /\ Len(bucket) \in Nat /\ TicksPerSecond \in Nat /\ Window' = Window
  BY LimiterAssumption DEF LimiterInv, TypeOK, Window
<1>4. /\ Len(bucket) <= Len(log[client]) /\ Len(bucket) <= MaximumRequests
      /\ \A i \in 1..Len(bucket) :
           bucket[i] = log[client][Len(log[client]) - Len(bucket) + i]
      /\ \A i \in 1..(Len(log[client]) - Len(bucket)) : Expired(log[client][i])
  BY <1>1 DEF LogEnd
<1>5. /\ now \in Nat
      /\ \A i \in 1..Len(log[client]) :
           /\ log[client][i] \in Nat /\ log[client][i] <= now
           /\ \A j \in i..Len(log[client]) : log[client][i] <= log[client][j]
      /\ \A i \in 1..Len(log[client]) :
           i + MaximumRequests <= Len(log[client]) =>
             log[client][i] + Window <= log[client][i + MaximumRequests]
  BY <1>3 DEF LimiterInv, Ordered, WindowBound
<1>append. /\ Append(bucket, now) \in Seq(Nat)
           /\ Len(Append(bucket, now)) = Len(bucket) + 1
           /\ \A i \in 1..Len(bucket) : Append(bucket, now)[i] = bucket[i]
           /\ Append(bucket, now)[Len(bucket) + 1] = now
           /\ Append(log[client], now) \in Seq(Nat)
           /\ Len(Append(log[client], now)) = Len(log[client]) + 1
           /\ \A i \in 1..Len(log[client]) : Append(log[client], now)[i] = log[client][i]
           /\ Append(log[client], now)[Len(log[client]) + 1] = now
  BY <1>3, AppendTime
<1>types. /\ now \in Nat /\ TicksPerSecond \in Nat /\ log[client] \in Seq(Nat)
          /\ Len(log[client]) \in Nat /\ Len(bucket) \in Nat
  BY <1>3
<1>lengths. Len(log[client]) \in Nat /\ Len(bucket) \in Nat
  BY <1>types
<1>6. TypeOK'
  <2>1. \A c \in DOMAIN buckets' : buckets'[c] \in Seq(Nat)
    <3>1. buckets'[client] \in Seq(Nat)
      BY <1>1, <1>append DEF Refused, Admitted
    <3> QED
      BY <1>2, <1>3, <3>1 DEF Untouched
  <2>2. \A c \in Clients : log'[c] \in Seq(Nat)
    <3>1. log'[client] \in Seq(Nat)
      <4>1. log'[client] = log[client] \/ log'[client] = Append(log[client], now)
        BY <1>1 DEF Refused, Admitted
      <4>2. log[client] \in Seq(Nat) /\ Append(log[client], now) \in Seq(Nat)
        BY <1>append, <1>types
      <4> QED
        BY <4>1, <4>2, Zenon
    <3>2. \A c \in Clients \ {client} : log'[c] \in Seq(Nat)
      <4> SUFFICES ASSUME NEW c \in Clients \ {client} PROVE log'[c] \in Seq(Nat)
        OBVIOUS
      <4>1. log'[c] = log[c] \/ log'[c] = <<>>
        BY <1>2 DEF Untouched
      <4>2. log[c] \in Seq(Nat) /\ <<>> \in Seq(Nat)
        BY <1>3
      <4> QED
        BY <4>1, <4>2
    <3> QED
      BY <3>1, <3>2
  <2>3. retryAt'[client] \in Nat
    <3>1. CASE Admitted(client, bucket)
      BY <3>1 DEF Admitted
    <3>2. CASE Refused(client, bucket)
      <4>1. bucket[1] \in Nat
        BY <1>3, <3>2 DEF Refused
      <4>2. RetryAfter(bucket[1]) \in Nat
        BY <4>1, RetryCovers DEF LimiterInv
      <4>3. now + RetryAfter(bucket[1]) * TicksPerSecond \in Nat
        <5> DEFINE seconds == RetryAfter(bucket[1])
        <5>1. seconds \in Nat
          BY <4>2
        <5> HIDE DEF seconds
        <5>2. now + seconds * TicksPerSecond \in Nat
          BY <1>types, <5>1
        <5> QED
          BY <5>2 DEF seconds
      <4> QED
        BY <3>2, <4>3 DEF Refused
    <3> QED
      BY <1>1, <3>1, <3>2
  <2>4. \A c \in Clients : retryAt'[c] \in Nat
    BY <1>2, <1>3, <2>3
  <2>5. log' \in [Clients -> Seq(Nat)] /\ retryAt' \in [Clients -> Nat]
    BY <1>2, <2>2, <2>4
  <2>6. buckets' \in [DOMAIN buckets' -> Seq(Nat)]
    BY <1>2, <2>1
  <2> QED
    BY <1>2, <1>3, <2>5, <2>6 DEF TypeOK
<1>7. Ordered'
  <2> SUFFICES ASSUME NEW c \in Clients, NEW i \in 1..Len(log'[c])
               PROVE  /\ log'[c][i] <= now
                      /\ \A j \in i..Len(log'[c]) : log'[c][i] <= log'[c][j]
    BY <1>2 DEF Ordered
  <2>1. CASE log'[c] = log[c]
    BY <2>1 DEF LimiterInv, Ordered
  <2>2. CASE log'[c] = <<>>
    BY <2>2
  <2>3. CASE c = client /\ Admitted(client, bucket)
    <3>1. /\ Len(log'[c]) = Len(log[client]) + 1
          /\ \A j \in 1..Len(log[client]) : log'[c][j] = log[client][j]
          /\ log'[c][Len(log[client]) + 1] = now
      BY <1>append, <2>3 DEF Admitted
    <3>2. \A j \in 1..Len(log[client]) : log'[c][j] \in Nat /\ log'[c][j] <= now
      BY <1>5, <3>1
    <3>3. ASSUME NEW j \in i..Len(log'[c]) PROVE log'[c][i] <= log'[c][j]
      <4>1. CASE j <= Len(log[client])
        <5>1. i \in 1..Len(log[client]) /\ j \in i..Len(log[client]) /\ j \in 1..Len(log[client])
          BY <1>types, <3>1, <4>1
        <5> QED
          BY <1>5, <3>1, <5>1
      <4>2. CASE j = Len(log[client]) + 1
        BY <1>types, <3>1, <3>2, <4>2
      <4> QED
        BY <1>types, <3>1, <4>1, <4>2
    <3>4. log'[c][i] <= now
      BY <1>types, <3>1, <3>2
    <3> QED
      BY <3>3, <3>4
  <2> QED
    BY <1>1, <1>2, <2>1, <2>2, <2>3 DEF Untouched, Refused
<1>8. Remembers'
  <2> SUFFICES ASSUME NEW c \in Clients
               PROVE  /\ Held(c)' <= Len(log'[c])
                      /\ \A i \in 1..Held(c)' : buckets'[c][i] = log'[c][Dropped(c)' + i]
                      /\ \A i \in 1..Dropped(c)' : Expired(log'[c][i])
    BY <1>2, <1>3 DEF Remembers, Expired
  <2>1. CASE c # client
    <3>1. Untouched(c)
      BY <1>2, <2>1
    <3>2. CASE c \in DOMAIN buckets /\ c \in DOMAIN buckets'
      <4>1. Held(c)' = Held(c) /\ Dropped(c)' = Dropped(c) /\ log'[c] = log[c]
            /\ buckets'[c] = buckets[c]
        BY <3>1, <3>2 DEF Untouched, Held, Dropped
      <4> QED
        BY <4>1 DEF LimiterInv, Remembers
    <3>3. CASE c \notin DOMAIN buckets'
      <4>1. Held(c)' = 0 /\ Dropped(c)' = Len(log'[c])
        <5>1. Len(log'[c]) \in Nat
          BY <1>3, <3>1 DEF Untouched
        <5> QED
          BY <3>3, <5>1 DEF Held, Dropped
      <4> QED
        BY <1>3, <3>1, <3>3, <4>1 DEF Untouched
    <3> QED
      BY <3>1, <3>2, <3>3 DEF Untouched
  <2>2. CASE c = client /\ Refused(client, bucket)
    <3>1. Held(c)' = Len(bucket) /\ Dropped(c)' = Len(log[client]) - Len(bucket)
      BY <1>2, <2>2 DEF Held, Dropped, Refused
    <3> QED
      BY <1>3, <1>4, <2>2, <3>1 DEF Refused
  <2>3. CASE c = client /\ Admitted(client, bucket)
    <3>1. /\ Len(buckets'[c]) = Len(bucket) + 1
          /\ \A i \in 1..Len(bucket) : buckets'[c][i] = bucket[i]
          /\ buckets'[c][Len(bucket) + 1] = now
          /\ Len(log'[c]) = Len(log[client]) + 1
          /\ \A i \in 1..Len(log[client]) : log'[c][i] = log[client][i]
          /\ log'[c][Len(log[client]) + 1] = now
      BY <1>append, <2>3 DEF Admitted
    <3>2. Held(c)' = Len(bucket) + 1 /\ Dropped(c)' = Len(log[client]) - Len(bucket)
      <4>1. Held(c)' = Len(bucket) + 1
        BY <1>2, <2>3, <3>1 DEF Held
      <4>2. Dropped(c)' = Len(log'[c]) - Held(c)'
        BY DEF Dropped
      <4> QED
        BY <1>3, <3>1, <4>1, <4>2
    <3>3. ASSUME NEW i \in 1..Held(c)'
          PROVE  buckets'[c][i] = log'[c][Dropped(c)' + i]
      <4>1. CASE i <= Len(bucket)
        <5>1. /\ i \in 1..Len(bucket)
              /\ Dropped(c)' + i \in 1..Len(log[client])
              /\ Len(log[client]) - Len(bucket) + i = Dropped(c)' + i
          BY <1>3, <1>4, <3>2, <4>1
        <5>2. buckets'[c][i] = bucket[i] /\ log'[c][Dropped(c)' + i] = log[client][Dropped(c)' + i]
          BY <3>1, <5>1
        <5> QED
          BY <1>4, <5>1, <5>2
      <4>2. CASE i = Len(bucket) + 1
        <5>1. Dropped(c)' + i = Len(log[client]) + 1
          <6>1. \A m, n \in Nat : (m - n) + (n + 1) = m + 1
            OBVIOUS
          <6> QED
            BY <1>lengths, <3>2, <4>2, <6>1, Zenon
        <5> QED
          BY <3>1, <4>2, <5>1
      <4> QED
        BY <1>3, <3>2, <4>1, <4>2
    <3>4. ASSUME NEW i \in 1..Dropped(c)'
          PROVE  Expired(log'[c][i])
      <4>1. i \in 1..Len(log[client]) /\ i \in 1..(Len(log[client]) - Len(bucket))
        BY <1>3, <1>4, <3>2
      <4>2. log'[client][i] = log[client][i]
        BY <2>3, <3>1, <4>1
      <4> QED
        BY <1>4, <2>3, <4>1, <4>2
    <3>5. Held(c)' <= Len(log'[c])
      <4>1. Len(bucket) + 1 <= Len(log[client]) + 1
        BY <1>lengths, <1>4
      <4> QED
        BY <3>1, <3>2, <4>1, Zenon
    <3> QED
      BY <3>3, <3>4, <3>5, Zenon
  <2> QED
    BY <1>1, <2>1, <2>2, <2>3
<1>9. WindowBound'
  <2> SUFFICES ASSUME NEW c \in Clients, NEW i \in 1..Len(log'[c]),
                      i + MaximumRequests <= Len(log'[c])
               PROVE  log'[c][i] + Window <= log'[c][i + MaximumRequests]
    BY <1>3 DEF WindowBound
  <2>1. CASE log'[c] = log[c]
    BY <2>1 DEF LimiterInv, WindowBound
  <2>2. CASE log'[c] = <<>>
    BY <2>2
  <2>3. CASE c = client /\ Admitted(client, bucket)
    <3>1. Len(log'[client]) = Len(log[client]) + 1
      BY <1>3, <2>3 DEF Admitted
    <3>2. i \in 1..Len(log[client]) /\ log'[client][i] = log[client][i]
      BY <1>3, <2>3, <3>1 DEF Admitted
    <3>3. CASE i + MaximumRequests <= Len(log[client])
      <4>1. log'[client][i + MaximumRequests] = log[client][i + MaximumRequests]
        <5>1. i + MaximumRequests \in 1..Len(log[client])
          BY <1>lengths, <3>2, <3>3, LimiterAssumption
        <5>2. log'[client] = Append(log[client], now)
          BY <2>3 DEF Admitted
        <5> QED
          BY <1>append, <5>1, <5>2
      <4> QED
        BY <1>5, <2>3, <3>2, <3>3, <4>1
    <3>4. CASE i + MaximumRequests = Len(log[client]) + 1
      <4>1. log'[client][i + MaximumRequests] = now
        BY <1>3, <2>3, <3>4 DEF Admitted
      <4>2. i \in 1..(Len(log[client]) - Len(bucket))
        <5>1. Len(bucket) < MaximumRequests
          BY <2>3 DEF Admitted
        <5>2. i \in Nat /\ 1 <= i
          BY <3>2
        <5>3. \A m, b, r, j \in Nat : b < r /\ j + r = m + 1 /\ 1 <= j => j \in 1..(m - b)
          OBVIOUS
        <5>4. MaximumRequests \in Nat
          BY LimiterAssumption
        <5> QED
          BY <1>lengths, <3>4, <5>1, <5>2, <5>3, <5>4, Zenon
      <4>3. Expired(log[client][i])
        BY <1>4, <4>2
      <4> QED
        BY <2>3, <3>2, <4>1, <4>3 DEF Expired
    <3>5. i + MaximumRequests <= Len(log[client]) \/ i + MaximumRequests = Len(log[client]) + 1
      <4>1. Len(log'[client]) = Len(log[client]) + 1
        BY <1>3, <2>3 DEF Admitted
      <4>2. i + MaximumRequests <= Len(log[client]) + 1
        BY <2>3, <4>1
      <4>3. i \in Nat /\ MaximumRequests \in Nat
        BY <3>2, LimiterAssumption
      <4>4. \A m, j, r \in Nat : j + r <= m + 1 => j + r <= m \/ j + r = m + 1
        OBVIOUS
      <4> QED
        BY <1>lengths, <4>2, <4>3, <4>4, Zenon
    <3> QED
      BY <2>3, <3>3, <3>4, <3>5, Zenon
  <2> QED
    BY <1>1, <1>2, <2>1, <2>2, <2>3 DEF Untouched, Refused
<1>10. MemoryBounded'
  <2>1. Len(buckets'[client]) \in 1..MaximumRequests
    BY <1>1, <1>3, <1>4 DEF Refused, Admitted
  <2>2. \A c \in DOMAIN buckets' : Len(buckets'[c]) \in 1..MaximumRequests
    BY <1>2, <2>1 DEF LimiterInv, MemoryBounded, Untouched
  <2> QED
    BY <1>2, <2>2 DEF MemoryBounded
<1>11. Owes'
  <2> SUFFICES ASSUME NEW c \in DOMAIN buckets', 0 < retryAt'[c]
               PROVE  Len(buckets'[c]) < MaximumRequests \/ buckets'[c][1] + Window <= retryAt'[c]
    BY <1>3 DEF Owes
  <2>1. CASE c # client
    <3>1. c \in DOMAIN buckets /\ buckets'[c] = buckets[c] /\ retryAt'[c] = retryAt[c]
      BY <1>2, <2>1 DEF Untouched
    <3> QED
      BY <3>1 DEF LimiterInv, Owes
  <2>2. CASE c = client /\ Admitted(client, bucket)
    BY <2>2 DEF Admitted
  <2>3. CASE c = client /\ Refused(client, bucket)
    <3>1. bucket[1] \in Nat
      BY <1>3, <2>3 DEF Refused
    <3>2. bucket[1] + Window <= now + RetryAfter(bucket[1]) * TicksPerSecond
      BY <3>1, RetryCovers DEF LimiterInv
    <3> QED
      BY <2>3, <3>2 DEF Refused
  <2> QED
    BY <1>1, <2>1, <2>2, <2>3
<1> QED
  BY <1>6, <1>7, <1>8, <1>9, <1>10, <1>11 DEF LimiterInv

(* A paid promise: what is owed at retryAt is expired once it has come.    *)
LEMMA OwedIsPaid == LimiterInv => RetryAfterSuffices
<1> SUFFICES ASSUME LimiterInv, NEW c \in DOMAIN buckets,
                    0 < retryAt[c], retryAt[c] <= now,
                    ~(Len(buckets[c]) < MaximumRequests)
             PROVE  Expired(buckets[c][1])
  BY DEF RetryAfterSuffices
<1>1. buckets[c][1] + Window <= retryAt[c]
  BY DEF LimiterInv, Owes
<1>2. buckets[c] \in Seq(Nat) /\ Len(buckets[c]) \in Nat /\ Len(buckets[c]) >= 1
      /\ retryAt[c] \in Nat /\ now \in Nat
  BY LimiterAssumption DEF LimiterInv, TypeOK, MemoryBounded
<1>3. buckets[c][1] \in Nat /\ Window \in Nat
  BY <1>2, LimiterAssumption DEF Window
<1> QED
  BY <1>1, <1>2, <1>3 DEF Expired

(* The inductive invariant of the limiter, for any clients and limits.     *)
THEOREM LimiterHolds == Spec => []LimiterInv
<1>1. LimiterInv /\ [Next]_vars => LimiterInv'
  <2> SUFFICES ASSUME LimiterInv, [Next]_vars PROVE LimiterInv'
    OBVIOUS
  <2>1. CASE Tick
    BY <2>1, TickInv
  <2>2. ASSUME NEW client \in Clients, Dispatch(client) PROVE LimiterInv'
    BY <2>2, DispatchInv
  <2>3. CASE UNCHANGED vars
    <3>1. /\ now' = now /\ buckets' = buckets /\ log' = log /\ retryAt' = retryAt
      BY <2>3 DEF vars
    <3>2. \A c : Held(c)' = Held(c) /\ Dropped(c)' = Dropped(c)
      BY <3>1 DEF Held, Dropped
    <3> QED
      BY <3>1, <3>2 DEF LimiterInv, TypeOK, Ordered, Remembers, WindowBound,
                        MemoryBounded, Owes, Expired, Window
  <2> QED
    BY <2>1, <2>2, <2>3 DEF Next
<1> QED
  BY <1>1, InitInv, PTL DEF Spec

(* Every variable keeps its type.                                          *)
THEOREM LimiterTypes == Spec => []TypeOK
<1>1. LimiterInv => TypeOK
  BY DEF LimiterInv
<1> QED
  BY <1>1, LimiterHolds, PTL

(* Any MaximumRequests + 1 admissions of a client that was not evicted     *)
(* take at least the window, wherever the window starts.                   *)
THEOREM WindowBounded == Spec => []WindowBound
<1>1. LimiterInv => WindowBound
  BY DEF LimiterInv
<1> QED
  BY <1>1, LimiterHolds, PTL

(* The limiter remembers at most MaximumBuckets clients and                *)
(* MaximumRequests times of each, and keeps no empty bucket.               *)
THEOREM MemoryStaysBounded == Spec => []MemoryBounded
<1>1. LimiterInv => MemoryBounded
  BY DEF LimiterInv
<1> QED
  BY <1>1, LimiterHolds, PTL

(* A refused client that waits for its Retry-After finds room.             *)
THEOREM RetryContract == Spec => []RetryAfterSuffices
<1> QED
  BY OwedIsPaid, LimiterHolds, PTL
=============================================================================
