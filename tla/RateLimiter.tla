----------------------------- MODULE RateLimiter -----------------------------
(***************************************************************************)
(* rate-limiter.ts: a bucket of tokens per key, created full by the first  *)
(* request, refilled when a request comes, by whole intervals, and emptied *)
(* by one token per admitted request.  The middleware runs before          *)
(* authentication (app.ts), so that the key is the client's address.  Each *)
(* request is one synchronous step.                                        *)
(***************************************************************************)
EXTENDS Integers

CONSTANTS Keys,
          MaxTokens,       \* MAX_TOKENS
          RefillRate,      \* REFILL_RATE, tokens per interval
          RefillInterval,  \* REFILL_INTERVAL, in ticks of the clock
          MaxTime          \* bound on the clock

ASSUME LimiterAssumption ==
  {MaxTokens, RefillRate, RefillInterval, MaxTime} \subseteq Nat \ {0}

VARIABLES
  now,         \* Date.now()
  known,       \* keys that have a bucket
  tokens, lastRefill,
  created,     \* when the bucket of a key was created,
  admitted,    \*   requests admitted since,
  refusedAt,   \*   first of its refusals in a row, or -1,
  triedAt      \*   and the latest of them

buckets == <<known, tokens, lastRefill>>
vars == <<now, buckets, created, admitted, refusedAt, triedAt>>

Init ==
  /\ now = 0 /\ known = {}
  /\ tokens = [k \in Keys |-> MaxTokens]
  /\ lastRefill = [k \in Keys |-> 0]
  /\ created = [k \in Keys |-> 0]
  /\ admitted = [k \in Keys |-> 0]
  /\ refusedAt = [k \in Keys |-> -1]
  /\ triedAt = [k \in Keys |-> -1]

Tick ==
  /\ now < MaxTime
  /\ now' = now + 1
  /\ UNCHANGED <<buckets, created, admitted, refusedAt, triedAt>>

Least(a, b) == IF a <= b THEN a ELSE b

Since(k) == IF k \in known THEN lastRefill[k] ELSE now

(* Bug: an interval that has begun counts. *)
TokensToAddCeil(k) ==
  ((now - Since(k) + RefillInterval - 1) \div RefillInterval) * RefillRate

TokensToAdd(k) == ((now - Since(k)) \div RefillInterval) * RefillRate

Refilled(k) == Least(MaxTokens, tokens[k] + TokensToAdd(k))

(* Bug: lastRefill moves at each request, with or without a token. *)
RefillTimeAlways(k) == now

RefillTime(k) == IF k \notin known \/ TokensToAdd(k) > 0 THEN now ELSE lastRefill[k]

GetBucket(k, left) ==
  /\ known' = known \cup {k}
  /\ tokens' = [tokens EXCEPT ![k] = left]
  /\ lastRefill' = [lastRefill EXCEPT ![k] = RefillTime(k)]
  /\ created' = IF k \in known THEN created ELSE [created EXCEPT ![k] = now]
  /\ UNCHANGED now

Admit(k) ==
  /\ Refilled(k) > 0
  /\ GetBucket(k, Refilled(k) - 1)
  /\ admitted' = [admitted EXCEPT ![k] = @ + 1]
  /\ refusedAt' = [refusedAt EXCEPT ![k] = -1]
  /\ triedAt' = [triedAt EXCEPT ![k] = -1]

(* 429 *)
Refuse(k) ==
  /\ Refilled(k) <= 0
  /\ GetBucket(k, Refilled(k))
  /\ refusedAt' = [refusedAt EXCEPT ![k] = IF @ = -1 THEN now ELSE @]
  /\ triedAt' = [triedAt EXCEPT ![k] = now]
  /\ UNCHANGED admitted

Next == Tick \/ \E k \in Keys : Admit(k) \/ Refuse(k)

Spec == Init /\ [][Next]_vars

-----------------------------------------------------------------------------
(* Every variable has its type, and the tokens stay within their bounds. *)
TypeOK ==
  /\ now \in 0 .. MaxTime
  /\ known \subseteq Keys
  /\ tokens \in [Keys -> 0 .. MaxTokens]
  /\ lastRefill \in [Keys -> 0 .. now]
  /\ created \in [Keys -> 0 .. now]
  /\ admitted \in [Keys -> Nat]
  /\ refusedAt \in [Keys -> -1 .. now]
  /\ triedAt \in [Keys -> -1 .. now]

(* The rate: since its bucket was created, a key was admitted MaxTokens      *)
(* times and RefillRate times per interval at most, whatever the pattern of  *)
(* its requests; the tokens left in the bucket count as well.                *)
RateRespected ==
  \A k \in known :
    RefillInterval * (admitted[k] + tokens[k] - MaxTokens)
      <= RefillRate * (lastRefill[k] - created[k])

(* The floor of the elapsed time loses up to an interval of refill, but a    *)
(* client is never refused for an interval on end, even if it goes on trying.*)
RefusedBriefly == \A k \in Keys : triedAt[k] - refusedAt[k] < RefillInterval
=============================================================================
