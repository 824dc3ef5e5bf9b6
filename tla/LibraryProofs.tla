---------------------------- MODULE LibraryProofs ----------------------------
(***************************************************************************)
(* Theorems about the code without concurrency, for every value of the     *)
(* constants: the bounds of the rate limiter for every number of keys, size*)
(* of bucket, rate and interval; the mapping engine for every record and   *)
(* configuration; the X12 generator and parser for every document.         *)
(***************************************************************************)
EXTENDS Library, FiniteSets, FiniteSetTheorems, SequenceTheorems, WellFoundedInduction, TLAPS

(***************************************************************************)
(* The rate limiter                                                        *)
(***************************************************************************)
(* A key that is not known has a full bucket and no past. *)
Fresh ==
  \A k \in Keys : k \notin known =>
    /\ tokens[k] = MaxTokens /\ lastRefill[k] = 0 /\ created[k] = 0
    /\ admitted[k] = 0 /\ refusedAt[k] = -1 /\ triedAt[k] = -1

(* While a key is refused its bucket is empty, was refilled before the first *)
(* refusal, and is due for a refill an interval after that.                  *)
Refusals ==
  \A k \in Keys :
    IF refusedAt[k] = -1 THEN triedAt[k] = -1
    ELSE /\ tokens[k] = 0
         /\ lastRefill[k] <= refusedAt[k]
         /\ triedAt[k] < lastRefill[k] + RefillInterval

Refills == \A k \in Keys : created[k] <= lastRefill[k]

LimiterInv == TypeOK /\ Fresh /\ Refusals /\ Refills /\ RateRespected

-----------------------------------------------------------------------------
(* Division: the quotient of a by b, rounded down. *)
LEMMA Quotient ==
  ASSUME NEW a \in Nat, NEW b \in Nat \ {0}
  PROVE  /\ a \div b \in Nat
         /\ b * (a \div b) <= a
         /\ a < b * (a \div b) + b
  BY SMTT(30)

(* What getBucket refills: nothing, and the bucket is younger than an        *)
(* interval, or some tokens, for which at least that much time has passed.   *)
LEMMA Refill ==
  ASSUME LimiterInv, NEW k \in Keys
  PROVE  /\ TokensToAdd(k) \in Nat
         /\ TokensToAdd(k) = 0 => now - Since(k) < RefillInterval
         /\ RefillInterval * TokensToAdd(k) <= RefillRate * (now - Since(k))
         /\ Since(k) \in 0 .. now
<1>1. Since(k) \in 0 .. now
  BY DEF Since, LimiterInv, TypeOK
<1>2. /\ RefillInterval \in Nat \ {0} /\ RefillRate \in Nat \ {0}
      /\ now \in Nat /\ now - Since(k) \in Nat
  BY <1>1, LimiterAssumption DEF LimiterInv, TypeOK
<1> DEFINE age == now - Since(k)
           q == age \div RefillInterval
<1>3. /\ q \in Nat /\ RefillInterval * q <= age
      /\ age < RefillInterval * q + RefillInterval
  BY <1>2, Quotient
<1>4. TokensToAdd(k) = q * RefillRate
  BY DEF TokensToAdd
<1> HIDE DEF q, age
<1>5. age \in Nat
  BY <1>2 DEF age
<1>6. q * RefillRate \in Nat /\ (q * RefillRate = 0 => q = 0)
  BY <1>2, <1>3
<1>7. RefillInterval * (q * RefillRate) <= RefillRate * age
  <2>1. RefillRate * (RefillInterval * q) <= RefillRate * age
    BY <1>2, <1>3, <1>5
  <2>2. RefillRate * (RefillInterval * q) = RefillInterval * (q * RefillRate)
    BY <1>2, <1>3
  <2> QED BY <2>1, <2>2
<1>8. q = 0 => age < RefillInterval
  BY <1>2, <1>3
<1> QED BY <1>1, <1>4, <1>6, <1>7, <1>8 DEF age

LEMMA LimiterInit == Init => LimiterInv
  BY LimiterAssumption DEF Init, LimiterInv, TypeOK, Fresh, Refusals, Refills, RateRespected

LEMMA TickStep == LimiterInv /\ Tick => LimiterInv'
  BY LimiterAssumption
  DEF Tick, buckets, LimiterInv, TypeOK, Fresh, Refusals, Refills, RateRespected

(* What the state of the bucket becomes when it had been refilled. *)
LEMMA RefillRespectsRate ==
  ASSUME LimiterInv, NEW k \in Keys
  PROVE  /\ Refilled(k) \in 0 .. MaxTokens
         /\ RefillTime(k) \in Since(k) .. now
         /\ k \in known =>
              RefillInterval * (admitted[k] + Refilled(k) - MaxTokens)
                <= RefillRate * (RefillTime(k) - created[k])
<1>1. /\ MaxTokens \in Nat \ {0} /\ RefillInterval \in Nat \ {0} /\ RefillRate \in Nat \ {0}
      /\ tokens[k] \in 0 .. MaxTokens /\ admitted[k] \in Nat
      /\ now \in Nat /\ lastRefill[k] \in 0 .. now /\ created[k] \in 0 .. now
  BY LimiterAssumption DEF LimiterInv, TypeOK
<1>2. /\ TokensToAdd(k) \in Nat /\ Since(k) \in 0 .. now
      /\ RefillInterval * TokensToAdd(k) <= RefillRate * (now - Since(k))
  BY Refill
<1>3. Refilled(k) \in 0 .. MaxTokens
  BY <1>1, <1>2 DEF Refilled, Least
<1>4. RefillTime(k) \in Since(k) .. now
  BY <1>1, <1>2 DEF RefillTime, Since
<1>5. ASSUME k \in known
      PROVE  RefillInterval * (admitted[k] + Refilled(k) - MaxTokens)
               <= RefillRate * (RefillTime(k) - created[k])
  <2> DEFINE more == TokensToAdd(k)
             had == admitted[k] + tokens[k] - MaxTokens
             has == admitted[k] + Refilled(k) - MaxTokens
             before == lastRefill[k] - created[k]
             since == now - lastRefill[k]
  <2>1. RefillInterval * had <= RefillRate * before
    BY <1>5 DEF LimiterInv, RateRespected
  <2>2. more \in Nat /\ RefillInterval * more <= RefillRate * since
    BY <1>2, <1>5 DEF Since
  <2>3. has \in Int /\ had \in Int /\ has <= had + more
    BY <1>1, <1>2, <1>3 DEF Refilled, Least
  <2>4. before \in Int /\ since \in Nat
    BY <1>1
  <2>5. RefillTime(k) - created[k] = IF more > 0 THEN before + since ELSE before
    BY <1>1, <1>5 DEF RefillTime
  <2> HIDE DEF more, had, has, before, since
  <2>6. RefillInterval * has <= RefillInterval * (had + more)
    BY <1>1, <2>2, <2>3
  <2>7. RefillInterval * (had + more) = RefillInterval * had + RefillInterval * more
    BY <1>1, <2>2, <2>3
  <2>8. RefillRate * (before + since) = RefillRate * before + RefillRate * since
    BY <1>1, <2>4
  <2>9. CASE more = 0
    <3>1. RefillInterval * has <= RefillInterval * had
      BY <2>9, <2>6, <2>3
    <3>2. RefillInterval * has <= RefillRate * before
      BY <3>1, <2>1, <2>3, <2>4, <1>1
    <3> QED BY <3>2, <2>5, <2>9 DEF has
  <2>10. CASE more > 0
    <3>1. RefillInterval * has <= RefillRate * (before + since)
      BY <2>1, <2>2, <2>3, <2>4, <2>6, <2>7, <2>8, <1>1
    <3> QED BY <3>1, <2>5, <2>10 DEF has
  <2> QED BY <2>9, <2>10, <2>2
<1> QED BY <1>3, <1>4, <1>5

(* The parts of the invariant that hold of a bucket after any request. *)
LEMMA RequestStep ==
  ASSUME LimiterInv, NEW k \in Keys, NEW left \in 0 .. MaxTokens, GetBucket(k, left),
         admitted' \in [Keys -> Nat],
         \A j \in Keys \ {k} : admitted'[j] = admitted[j],
         admitted'[k] + left = admitted[k] + Refilled(k),
         refusedAt' \in [Keys -> -1 .. now], triedAt' \in [Keys -> -1 .. now],
         \A j \in Keys \ {k} : refusedAt'[j] = refusedAt[j] /\ triedAt'[j] = triedAt[j],
         IF refusedAt'[k] = -1 THEN triedAt'[k] = -1
         ELSE /\ left = 0
              /\ RefillTime(k) <= refusedAt'[k]
              /\ triedAt'[k] < RefillTime(k) + RefillInterval
  PROVE  LimiterInv'
<1>1. /\ Refilled(k) \in 0 .. MaxTokens /\ RefillTime(k) \in Since(k) .. now
      /\ k \in known =>
           RefillInterval * (admitted[k] + Refilled(k) - MaxTokens)
             <= RefillRate * (RefillTime(k) - created[k])
  BY RefillRespectsRate
<1>2. Since(k) \in 0 .. now /\ now \in Nat
  BY Refill DEF LimiterInv, TypeOK
<1>3. TypeOK'
  <2>1. RefillTime(k) \in 0 .. now
    BY <1>1, <1>2
  <2>2. now' = now /\ lastRefill' \in [Keys -> 0 .. now] /\ created' \in [Keys -> 0 .. now]
    BY <1>2, <2>1 DEF LimiterInv, TypeOK, GetBucket
  <2>3. now \in 0 .. MaxTime /\ known' \subseteq Keys /\ tokens' \in [Keys -> 0 .. MaxTokens]
    BY DEF LimiterInv, TypeOK, GetBucket
  <2> QED BY <2>2, <2>3 DEF TypeOK
<1>4. Fresh'
  BY DEF LimiterInv, TypeOK, Fresh, GetBucket
<1>5. Refusals'
  BY DEF LimiterInv, TypeOK, Refusals, GetBucket
<1>6. Refills'
  BY <1>1, <1>2 DEF LimiterInv, TypeOK, Refills, Since, GetBucket, RefillTime
<1>7. RateRespected'
  <2>1. ASSUME NEW j \in known', j # k
        PROVE  RefillInterval * (admitted'[j] + tokens'[j] - MaxTokens)
                 <= RefillRate * (lastRefill'[j] - created'[j])
    BY <2>1 DEF LimiterInv, TypeOK, RateRespected, GetBucket
  <2>2. tokens'[k] = left /\ lastRefill'[k] = RefillTime(k)
    BY DEF LimiterInv, TypeOK, GetBucket
  <2>3. admitted'[k] + tokens'[k] - MaxTokens = admitted[k] + Refilled(k) - MaxTokens
    BY <2>2, <1>1, LimiterAssumption DEF LimiterInv, TypeOK
  <2>4. CASE k \in known
    <3>1. created'[k] = created[k]
      BY <2>4 DEF GetBucket
    <3> QED BY <1>1, <2>1, <2>2, <2>3, <2>4, <3>1 DEF RateRespected
  <2>5. CASE k \notin known
    <3>1. created'[k] = now /\ RefillTime(k) = now
      BY <2>5 DEF LimiterInv, TypeOK, GetBucket, RefillTime
    <3>2. admitted[k] = 0 /\ Refilled(k) - MaxTokens <= 0
      BY <1>1, <2>5, LimiterAssumption DEF LimiterInv, Fresh
    <3>3. RefillInterval * (Refilled(k) - MaxTokens) <= 0
      BY <3>2, <1>1, LimiterAssumption
    <3>4. RefillRate * (now - now) = 0 /\ admitted[k] + Refilled(k) - MaxTokens = Refilled(k) - MaxTokens
      BY <1>1, <1>2, <3>2, LimiterAssumption
    <3> QED BY <2>1, <2>2, <2>3, <3>1, <3>3, <3>4 DEF RateRespected
  <2> QED BY <2>4, <2>5
<1> QED BY <1>3, <1>4, <1>5, <1>6, <1>7 DEF LimiterInv

LEMMA AdmitStep == ASSUME LimiterInv, NEW k \in Keys, Admit(k) PROVE LimiterInv'
<1>1. Refilled(k) \in 1 .. MaxTokens /\ MaxTokens \in Nat
  BY RefillRespectsRate, LimiterAssumption DEF Admit
<1>2. /\ admitted' = [admitted EXCEPT ![k] = @ + 1] /\ refusedAt' = [refusedAt EXCEPT ![k] = -1]
      /\ triedAt' = [triedAt EXCEPT ![k] = -1] /\ GetBucket(k, Refilled(k) - 1)
  BY DEF Admit
<1>3. /\ now \in Nat /\ admitted \in [Keys -> Nat]
      /\ refusedAt \in [Keys -> -1 .. now] /\ triedAt \in [Keys -> -1 .. now]
  BY DEF LimiterInv, TypeOK
<1>4. Refilled(k) - 1 \in 0 .. MaxTokens
  BY <1>1
<1>5. /\ admitted' \in [Keys -> Nat] /\ admitted'[k] + (Refilled(k) - 1) = admitted[k] + Refilled(k)
      /\ \A j \in Keys \ {k} : admitted'[j] = admitted[j]
      /\ refusedAt' \in [Keys -> -1 .. now] /\ triedAt' \in [Keys -> -1 .. now]
      /\ \A j \in Keys \ {k} : refusedAt'[j] = refusedAt[j] /\ triedAt'[j] = triedAt[j]
      /\ refusedAt'[k] = -1 /\ triedAt'[k] = -1
  BY <1>1, <1>2, <1>3
<1> QED BY <1>2, <1>4, <1>5, RequestStep

(* A refusal adds no token, so that the bucket is younger than an interval.  *)
LEMMA RefuseStep == ASSUME LimiterInv, NEW k \in Keys, Refuse(k) PROVE LimiterInv'
<1>1. /\ MaxTokens \in Nat \ {0} /\ now \in Nat /\ tokens[k] \in 0 .. MaxTokens
      /\ refusedAt \in [Keys -> -1 .. now] /\ triedAt \in [Keys -> -1 .. now]
      /\ admitted \in [Keys -> Nat] /\ lastRefill[k] \in 0 .. now /\ RefillInterval \in Nat
  BY LimiterAssumption DEF LimiterInv, TypeOK
<1>2. /\ TokensToAdd(k) \in Nat /\ Since(k) \in 0 .. now
      /\ TokensToAdd(k) = 0 => now - Since(k) < RefillInterval
  BY Refill
<1>3. Refilled(k) = 0 /\ tokens[k] = 0 /\ TokensToAdd(k) = 0
  BY <1>1, <1>2, RefillRespectsRate DEF Refuse, Refilled, Least
<1>4. k \in known
  BY <1>1, <1>3 DEF LimiterInv, Fresh
<1>5. RefillTime(k) = lastRefill[k] /\ now < lastRefill[k] + RefillInterval
  BY <1>1, <1>2, <1>3, <1>4 DEF RefillTime, Since
<1>6. refusedAt[k] # -1 => lastRefill[k] <= refusedAt[k]
  BY DEF LimiterInv, Refusals
<1>7. /\ refusedAt'[k] = (IF refusedAt[k] = -1 THEN now ELSE refusedAt[k])
      /\ triedAt'[k] = now /\ admitted' = admitted /\ GetBucket(k, 0)
      /\ refusedAt' \in [Keys -> -1 .. now] /\ triedAt' \in [Keys -> -1 .. now]
      /\ \A j \in Keys \ {k} : refusedAt'[j] = refusedAt[j] /\ triedAt'[j] = triedAt[j]
  BY <1>1, <1>3 DEF Refuse
<1>8. /\ 0 \in 0 .. MaxTokens /\ refusedAt'[k] # -1
      /\ RefillTime(k) <= refusedAt'[k] /\ triedAt'[k] < RefillTime(k) + RefillInterval
  BY <1>1, <1>5, <1>6, <1>7
<1>9. admitted'[k] + 0 = admitted[k] + Refilled(k)
  BY <1>1, <1>3, <1>7
<1> QED BY <1>1, <1>7, <1>8, <1>9, RequestStep

LEMMA LimiterStep == LimiterInv /\ [Next]_vars => LimiterInv'
<1> SUFFICES ASSUME LimiterInv, [Next]_vars PROVE LimiterInv'
  OBVIOUS
<1>1. CASE Tick
  BY <1>1, TickStep
<1>2. ASSUME NEW k \in Keys, Admit(k) PROVE LimiterInv'
  BY <1>2, AdmitStep
<1>3. ASSUME NEW k \in Keys, Refuse(k) PROVE LimiterInv'
  BY <1>3, RefuseStep
<1>4. CASE UNCHANGED vars
  BY <1>4 DEF vars, buckets, LimiterInv, TypeOK, Fresh, Refusals, Refills, RateRespected
<1> QED BY <1>1, <1>2, <1>3, <1>4 DEF Next

LEMMA LimiterInvariant == Spec => []LimiterInv
<1> QED BY LimiterInit, LimiterStep, PTL DEF Spec

(* getBucket and the middleware keep the tokens within 0..MAX_TOKENS.        *)
THEOREM LimiterTypeCorrect == Spec => []TypeOK
<1>1. LimiterInv => TypeOK
  BY DEF LimiterInv
<1> QED BY <1>1, LimiterInvariant, PTL

(* No pattern of requests gets more than the bucket and the rate admit,      *)
(* although each refill moves lastRefill to the present.                     *)
THEOREM RateIsRespected == Spec => []RateRespected
<1>1. LimiterInv => RateRespected
  BY DEF LimiterInv
<1> QED BY <1>1, LimiterInvariant, PTL

(* A client that is refused is so for less than an interval, although the    *)
(* floor of the elapsed time discards part of it.                            *)
THEOREM RefusalsAreBrief == Spec => []RefusedBriefly
<1>1. LimiterInv => RefusedBriefly
  <2> SUFFICES ASSUME LimiterInv, NEW k \in Keys
               PROVE  triedAt[k] - refusedAt[k] < RefillInterval
    BY DEF RefusedBriefly
  <2>1. /\ now \in Nat /\ refusedAt[k] \in -1 .. now /\ triedAt[k] \in -1 .. now
        /\ lastRefill[k] \in 0 .. now /\ RefillInterval \in Nat \ {0}
    BY LimiterAssumption DEF LimiterInv, TypeOK
  <2> QED BY <2>1 DEF LimiterInv, Refusals
<1> QED BY <1>1, LimiterInvariant, PTL

(***************************************************************************)
(* Induction                                                               *)
(***************************************************************************)
LEMMA LeastElement ==
  ASSUME NEW T, T \subseteq Nat, T # {}
  PROVE  \E n \in T : \A m \in T : n <= m
<1> DEFINE Less == { ss \in Nat \X Nat : ss[1] < ss[2] }
<1>1. IsWellFoundedOn(Less, Nat)
  <2>1. OpToRel(<, Nat) = Less
    BY DEF OpToRel
  <2> QED BY <2>1, NatLessThanWellFounded
<1>2. PICK n \in T : \A m \in T : <<m, n>> \notin Less
  <2> HIDE DEF Less
  <2> QED BY <1>1, WFMin
<1>3. ASSUME NEW m \in T PROVE n <= m
  <2>1. m \in Nat /\ n \in Nat
    OBVIOUS
  <2>2. SUFFICES ASSUME m < n PROVE <<m, n>> \in Less
    BY <1>2, <2>1
  <2>3. <<m, n>> \in Nat \X Nat /\ <<m, n>>[1] = m /\ <<m, n>>[2] = n
    BY <2>1
  <2> QED BY <2>2, <2>3
<1> QED BY <1>3

(* Induction up to m, over a set in the place of a predicate. *)
LEMMA Induct ==
  ASSUME NEW S, NEW m \in Nat, 0 \in S, \A n \in 0 .. m - 1 : n \in S => n + 1 \in S
  PROVE  \A n \in 0 .. m : n \in S
<1> DEFINE T == { n \in 0 .. m : n \notin S }
<1>1. SUFFICES ASSUME T # {} PROVE FALSE
  OBVIOUS
<1>2. PICK n \in T : \A k \in T : n <= k
  <2>1. T \subseteq Nat
    OBVIOUS
  <2> HIDE DEF T
  <2> QED BY <1>1, <2>1, LeastElement
<1>3. n # 0 /\ n - 1 \in 0 .. m - 1
  BY <1>2
<1>4. n - 1 \notin T
  BY <1>2, <1>3
<1> QED
  BY <1>2, <1>3, <1>4

(***************************************************************************)
(* getNestedValue                                                          *)
(***************************************************************************)
Down(h, v, key) == IF v \in DOMAIN h /\ key \in DOMAIN h[v] THEN h[v][key] ELSE "undefined"

(* The values on the way down. *)
IsWalk(at, h, root, path) ==
  /\ at[0] = root
  /\ \A n \in 1 .. Len(path) : at[n] = Down(h, at[n - 1], path[n])
  /\ Map!Get(h, root, path) = at[Len(path)]

LEMMA GetIsDefined ==
  ASSUME NEW h, NEW root, NEW path \in Seq(STRING)
  PROVE  \E at : IsWalk(at, h, root, path)
<1> DEFINE Walk(at, k) == [n \in 0 .. k |-> IF n = 0 THEN root ELSE Down(h, at[n - 1], path[n])]
           S == { k \in Nat : \E at : at = Walk(at, k) }
<1>1. 0 \in S
  <2>1. [n \in 0 .. 0 |-> root] = Walk([n \in 0 .. 0 |-> root], 0)
    OBVIOUS
  <2> QED BY <2>1
<1>2. ASSUME NEW k \in 0 .. Len(path) - 1, k \in S PROVE k + 1 \in S
  <2>1. PICK f : f = Walk(f, k)
    BY <1>2
  <2> DEFINE g == [n \in 0 .. k + 1 |-> IF n = k + 1 THEN Down(h, f[k], path[k + 1]) ELSE f[n]]
  <2>2. g = Walk(g, k + 1)
    <3>1. \A n \in 0 .. k : f[n] = IF n = 0 THEN root ELSE Down(h, f[n - 1], path[n])
      BY <2>1
    <3>2. \A n \in 0 .. k : g[n] = f[n]
      OBVIOUS
    <3> QED BY <3>1, <3>2
  <2>3. k + 1 \in Nat
    OBVIOUS
  <2> HIDE DEF g, Walk
  <2> QED BY <2>2, <2>3
<1>3. Len(path) \in S
  <2> HIDE DEF S
  <2>1. Len(path) \in Nat
    OBVIOUS
  <2>2. \A n \in 0 .. Len(path) : n \in S
    BY <1>1, <1>2, <2>1, Induct
  <2> QED BY <2>1, <2>2
<1> DEFINE at == CHOOSE at : at = Walk(at, Len(path))
<1>4. at = Walk(at, Len(path))
  BY <1>3
<1>5. Map!Get(h, root, path) = at[Len(path)]
  BY DEF Map!Get, Map!IsObject, Down
<1>6. Len(path) \in Nat
  OBVIOUS
<1> HIDE DEF at
<1>7. at[0] = root /\ \A n \in 1 .. Len(path) : at[n] = Down(h, at[n - 1], path[n])
  BY <1>4, <1>6
<1> QED BY <1>5, <1>7 DEF IsWalk

(* Each part of a path leads one level down from what is above it.           *)
Stepwise(h, root, path) ==
  /\ Map!Get(h, root, Map!Upto(path, 0)) = root
  /\ \A n \in 1 .. Len(path) :
       Map!Get(h, root, Map!Upto(path, n)) = Down(h, Map!Get(h, root, Map!Upto(path, n - 1)), path[n])
  /\ Map!Upto(path, Len(path)) = path

LEMMA GetSteps ==
  ASSUME NEW h, NEW root, NEW path \in Seq(STRING)
  PROVE  Stepwise(h, root, path)
<1>0. \A n \in 0 .. Len(path) :
        /\ Map!Upto(path, n) \in Seq(STRING) /\ Len(Map!Upto(path, n)) = n
        /\ \A k \in 1 .. n : Map!Upto(path, n)[k] = path[k]
  BY DEF Map!Upto
<1>1. Map!Get(h, root, Map!Upto(path, 0)) = root
  <2>1. Map!Upto(path, 0) \in Seq(STRING) /\ Len(Map!Upto(path, 0)) = 0
    BY <1>0
  <2>2. PICK f : IsWalk(f, h, root, Map!Upto(path, 0))
    BY <2>1, GetIsDefined
  <2> QED BY <2>1, <2>2 DEF IsWalk
<1>2. ASSUME NEW n \in 1 .. Len(path)
      PROVE  Map!Get(h, root, Map!Upto(path, n)) = Down(h, Map!Get(h, root, Map!Upto(path, n - 1)), path[n])
  <2> DEFINE p == Map!Upto(path, n)
             q == Map!Upto(path, n - 1)
  <2>0. /\ p \in Seq(STRING) /\ Len(p) = n /\ \A k \in 1 .. n : p[k] = path[k]
        /\ q \in Seq(STRING) /\ Len(q) = n - 1 /\ \A k \in 1 .. n - 1 : q[k] = path[k]
    BY <1>0
  <2> HIDE DEF p, q
  <2>1. PICK f : IsWalk(f, h, root, p)
    BY <2>0, GetIsDefined
  <2>2. PICK g : IsWalk(g, h, root, q)
    BY <2>0, GetIsDefined
  <2> DEFINE S == { k \in 0 .. n - 1 : f[k] = g[k] }
  <2>3. 0 \in S
    BY <2>0, <2>1, <2>2 DEF IsWalk
  <2>4. ASSUME NEW k \in 0 .. (n - 1) - 1, k \in S PROVE k + 1 \in S
    <3>1. f[k + 1] = Down(h, f[k], p[k + 1]) /\ g[k + 1] = Down(h, g[k], q[k + 1])
      BY <2>0, <2>1, <2>2 DEF IsWalk
    <3> QED BY <3>1, <2>0, <2>4
  <2>5. n - 1 \in S
    <3> HIDE DEF S
    <3>1. n - 1 \in Nat
      OBVIOUS
    <3>2. \A k \in 0 .. n - 1 : k \in S
      BY <2>3, <2>4, <3>1, Induct
    <3> QED BY <3>1, <3>2
  <2>6. f[n] = Down(h, f[n - 1], p[n])
    BY <2>0, <2>1 DEF IsWalk
  <2> QED BY <2>0, <2>1, <2>2, <2>5, <2>6 DEF p, q, IsWalk
<1>3. Map!Upto(path, Len(path)) = path
  BY DEF Map!Upto
<1> QED BY <1>1, <1>2, <1>3 DEF Stepwise

(***************************************************************************)
(* The record                                                              *)
(***************************************************************************)
LEMMA FieldType ==
  ASSUME NEW f \in Map!Fields
  PROVE  /\ f.from \in Seq(STRING) /\ Len(f.from) \in Nat \ {0}
         /\ f.to \in Seq(STRING) /\ Len(f.to) \in Nat \ {0}
         /\ f.rule \in Map!Rules
         /\ f.need \in {"required", "optional", "default"}
BY DEF Map!Fields

(* Objects of the record lead to values of the record, and these are the     *)
(* same in a heap that keeps them.                                           *)
LEMMA RecordIsClosed ==
  ASSUME NEW h, NEW path \in Seq(STRING),
         DOMAIN Source \subseteq DOMAIN h, \A o \in DOMAIN Source : h[o] = Source[o],
         DOMAIN h \cap Map!Kinds = {}
  PROVE  /\ Map!Get(Source, "src", path) \in Map!Kinds \cup DOMAIN Source
         /\ Map!Get(h, "src", path) = Map!Get(Source, "src", path)
<1> DEFINE V(n) == Map!Get(Source, "src", Map!Upto(path, n))
           W(n) == Map!Get(h, "src", Map!Upto(path, n))
           S == { n \in 0 .. Len(path) : V(n) \in Map!Kinds \cup DOMAIN Source /\ W(n) = V(n) }
<1>0. Len(path) \in Nat
  OBVIOUS
<1>1. /\ V(0) = "src" /\ W(0) = "src"
      /\ \A n \in 1 .. Len(path) : V(n) = Down(Source, V(n - 1), path[n]) /\ W(n) = Down(h, W(n - 1), path[n])
      /\ V(Len(path)) = Map!Get(Source, "src", path) /\ W(Len(path)) = Map!Get(h, "src", path)
  <2>1. Stepwise(Source, "src", path) /\ Stepwise(h, "src", path)
    BY GetSteps
  <2> QED BY <2>1 DEF Stepwise
<1> HIDE DEF V, W
<1>2. 0 \in S
  BY <1>0, <1>1, SourceAssumption
<1>3. ASSUME NEW n \in 0 .. Len(path) - 1, n \in S PROVE n + 1 \in S
  <2>1. n + 1 \in 1 .. Len(path) /\ (n + 1) - 1 = n
    BY <1>0
  <2>2. V(n + 1) = Down(Source, V(n), path[n + 1]) /\ W(n + 1) = Down(h, V(n), path[n + 1])
    BY <1>1, <1>3, <2>1
  <2>3. CASE V(n) \in DOMAIN Source
    BY <2>1, <2>2, <2>3, SourceAssumption DEF Down, Map!Kinds
  <2>4. CASE V(n) \in Map!Kinds
    BY <2>1, <2>2, <2>4, SourceAssumption DEF Down, Map!Kinds
  <2> QED BY <1>3, <2>3, <2>4
<1>4. \A n \in 0 .. Len(path) : n \in S
  <2> HIDE DEF S
  <2> QED BY <1>0, <1>2, <1>3, Induct
<1> QED BY <1>0, <1>1, <1>4

(* What a field takes from the record. *)
Result(f) == Map!Transform(f.rule, Map!Value(Source, f))

LEMMA ResultType ==
  ASSUME NEW f \in Map!Fields, Map!Written(f)
  PROVE  \/ Result(f) \in Map!Kinds
         \/ /\ Result(f) \in DOMAIN Source
            /\ f.rule \in Map!Copying
            /\ Map!Get(Source, "src", f.from) \in DOMAIN Source
<1> DEFINE g == Map!Get(Source, "src", f.from)
<1>1. g \in Map!Kinds \cup DOMAIN Source
  <2>1. DOMAIN Source \cap Map!Kinds = {}
    BY SourceAssumption
  <2> QED BY <2>1, FieldType, RecordIsClosed
<1> HIDE DEF g
<1>2. Map!Value(Source, f) = g \/ Map!Value(Source, f) \in Map!Kinds
  BY DEF Map!Value, Map!Kinds, g
<1>3. CASE f.rule \in Map!Copying
  <2>1. Result(f) = Map!Value(Source, f)
    BY <1>3 DEF Result, Map!Transform, Map!Copying, Map!TextRules, Map!NumberRules
  <2> QED BY <1>1, <1>2, <1>3, <2>1 DEF g
<1>4. CASE f.rule \in Map!Rules \ Map!Copying
  <2>1. f.rule # "unknown"
    BY DEF Map!Written, Map!Throws
  <2>2. Result(f) \in {"string", "number", "NaN", "undefined"}
    BY <1>4, <2>1 DEF Result, Map!Transform, Map!Rules, Map!Copying, Map!TextRules, Map!NumberRules
  <2> QED BY <2>2 DEF Map!Kinds
<1> QED BY <1>3, <1>4, FieldType

(* A heap that keeps the record gives a field the same value. *)
LEMMA ValueKept ==
  ASSUME NEW h, NEW f \in Map!Fields,
         DOMAIN Source \subseteq DOMAIN h, \A o \in DOMAIN Source : h[o] = Source[o],
         DOMAIN h \cap Map!Kinds = {}
  PROVE  Map!Value(h, f) = Map!Value(Source, f)
BY FieldType, RecordIsClosed DEF Map!Value

(* Copying nothing below itself, a record that is kept has an end. *)
LEMMA RecordEnds ==
  ASSUME NEW h, DOMAIN Source \subseteq DOMAIN h, \A o \in DOMAIN Source : h[o] = Source[o],
         DOMAIN h \cap Map!Kinds = {}
  PROVE  ~Map!Endless(h)
<1> SUFFICES ASSUME NEW objects \in SUBSET DOMAIN h, "src" \in objects,
                    \A o \in objects : \E key \in DOMAIN h[o] : h[o][key] \in objects
             PROVE  FALSE
  BY DEF Map!Endless
<1> DEFINE mine == objects \cap DOMAIN Source
<1>1. mine \in SUBSET DOMAIN Source /\ "src" \in mine
  BY SourceAssumption
<1>2. \A o \in mine : \E key \in DOMAIN Source[o] : Source[o][key] \in mine
  <2> SUFFICES ASSUME NEW o \in mine PROVE \E key \in DOMAIN Source[o] : Source[o][key] \in mine
    OBVIOUS
  <2>1. PICK key \in DOMAIN h[o] : h[o][key] \in objects
    OBVIOUS
  <2>2. Source[o][key] \in Map!Kinds \cup DOMAIN Source
    BY <2>1, SourceAssumption
  <2> QED BY <2>1, <2>2
<1> QED BY <1>1, <1>2, SourceAssumption DEF Map!Endless

(***************************************************************************)
(* The heap: "res", what setNestedValue made, and the record               *)
(***************************************************************************)
(* Where an object that is made belongs in the result. *)
Name(c, o) ==
  IF o = "res" THEN <<>>
  ELSE LET x == CHOOSE x \in DOMAIN New : New[x] = o IN Map!Upto(c[x[1]].to, x[2])

(* A field among the first D copies an object to path. *)
CopyAt(c, D, path) ==
  \E j \in 1 .. D :
    /\ c[j].to = path /\ c[j].rule \in Map!Copying
    /\ Map!Get(Source, "src", c[j].from) \in DOMAIN Source

Ours(h) == DOMAIN h \ DOMAIN Source

(* What stands at a place in the result. *)
IsPlaced(c, h, D, path, w) ==
  \/ w \in Map!Kinds
  \/ w \in DOMAIN Source /\ CopyAt(c, D, path)
  \/ w \in Ours(h) \ {"res"} /\ Name(c, w) = path

(* After D fields, the objects that are made are a tree below "res". *)
HeapOK(c, h, D) ==
  /\ DOMAIN Source \subseteq DOMAIN h /\ \A o \in DOMAIN Source : h[o] = Source[o]
  /\ "res" \in DOMAIN h
  /\ \A o \in Ours(h) \ {"res"} :
       \E i \in 1 .. D : \E n \in 1 .. Len(c[i].to) - 1 : <<i, n>> \in DOMAIN New /\ o = New[<<i, n>>]
  /\ \A o \in Ours(h) : DOMAIN h[o] \subseteq STRING
  /\ \A o \in Ours(h) : \A key \in DOMAIN h[o] : IsPlaced(c, h, D, Append(Name(c, o), key), h[o][key])

ConfigOK(c) ==
  /\ c \in Seq(Map!Fields)
  /\ \A i \in 1 .. Len(c) : \A n \in 1 .. Len(c[i].to) - 1 : <<i, n>> \in DOMAIN New


(* No object is copied to a place above the target of the i-th field. *)
Free(c, D, path) == \A n \in 1 .. Len(path) - 1 : ~CopyAt(c, D, Map!Upto(path, n))

LEMMA PathFacts ==
  ASSUME NEW path \in Seq(STRING), NEW n \in 0 .. Len(path)
  PROVE  /\ Map!Upto(path, n) \in Seq(STRING)
         /\ Len(Map!Upto(path, n)) = n
         /\ \A k \in 1 .. n : Map!Upto(path, n)[k] = path[k]
         /\ n < Len(path) => /\ path[n + 1] \in STRING
                             /\ Append(Map!Upto(path, n), path[n + 1]) = Map!Upto(path, n + 1)
         /\ n = 0 => Map!Upto(path, n) = <<>>
BY DEF Map!Upto

LEMMA NameOfNew ==
  ASSUME NEW c, NEW x \in DOMAIN New
  PROVE  /\ New[x] \notin DOMAIN Source \cup Map!Kinds \cup {"res"}
         /\ Name(c, New[x]) = Map!Upto(c[x[1]].to, x[2])
<1>1. New[x] \notin DOMAIN Source \cup Map!Kinds \cup {"res"}
  BY NewAssumption
<1>2. (CHOOSE y \in DOMAIN New : New[y] = New[x]) = x
  BY NewAssumption
<1> QED BY <1>1, <1>2 DEF Name

LEMMA HeapApart ==
  ASSUME NEW c, NEW h, NEW D, HeapOK(c, h, D)
  PROVE  /\ DOMAIN h \cap Map!Kinds = {}
         /\ "res" \in Ours(h)
<1>1. "res" \notin DOMAIN Source /\ DOMAIN Source \cap Map!Kinds = {}
  BY SourceAssumption
<1>2. "res" \notin Map!Kinds
  BY DEF Map!Kinds
<1>3. ASSUME NEW o \in Ours(h) \ {"res"} PROVE o \notin Map!Kinds
  <2>1. \E x \in DOMAIN New : o = New[x]
    BY DEF HeapOK
  <2> QED BY <2>1, NewAssumption
<1> QED BY <1>1, <1>2, <1>3 DEF HeapOK, Ours

LEMMA GreatestElement ==
  ASSUME NEW m \in Nat, NEW T, T \subseteq 0 .. m, T # {}
  PROVE  Map!Max(T) \in T /\ \A n \in T : n <= Map!Max(T)
<1> DEFINE U == { k \in Nat : k <= m /\ m - k \in T }
<1>1. U \subseteq Nat /\ U # {}
  <2>1. PICK t : t \in T
    OBVIOUS
  <2>2. t \in 0 .. m /\ m - t \in Nat /\ m - (m - t) = t /\ m - t <= m
    BY <2>1
  <2> QED BY <2>1, <2>2
<1>2. PICK k \in U : \A j \in U : k <= j
  <2> HIDE DEF U
  <2> QED BY <1>1, LeastElement
<1>3. ASSUME NEW n \in T PROVE m - k >= n
  <2>1. n \in 0 .. m /\ m - n \in Nat /\ m - (m - n) = n /\ m - n <= m
    OBVIOUS
  <2>2. m - n \in U
    BY <2>1
  <2>3. k <= m - n /\ k \in Nat
    BY <1>2, <2>2
  <2> QED BY <2>1, <2>3
<1>4. m - k \in T
  BY <1>2
<1>5. \E x \in T : \A y \in T : x >= y
  BY <1>3, <1>4
<1>6. Map!Max(T) \in T /\ \A y \in T : Map!Max(T) >= y
  BY <1>5 DEF Map!Max
<1> QED BY <1>6

LEMMA DepthFacts ==
  ASSUME NEW h, NEW root \in DOMAIN h, NEW path \in Seq(STRING), Len(path) > 0,
         NEW d, d = Map!Depth(h, root, path)
  PROVE  /\ d \in 0 .. Len(path) - 1
         /\ Map!Get(h, root, Map!Upto(path, d)) \in DOMAIN h
         /\ \A n \in d + 1 .. Len(path) - 1 : Map!Get(h, root, Map!Upto(path, n)) \notin DOMAIN h
<1> DEFINE V(n) == Map!Get(h, root, Map!Upto(path, n))
           T == { n \in 0 .. Len(path) - 1 : V(n) \in DOMAIN h }
<1>1. V(0) = root
  <2>1. Stepwise(h, root, path)
    BY GetSteps
  <2> QED BY <2>1 DEF Stepwise
<1>2. Len(path) - 1 \in Nat
  OBVIOUS
<1>3. d = Map!Max(T)
  BY DEF Map!Depth, Map!IsObject
<1> HIDE DEF V
<1>4. T \subseteq 0 .. Len(path) - 1 /\ T # {}
  BY <1>1, <1>2
<1>5. d \in T /\ \A n \in T : n <= d
  <2> HIDE DEF T
  <2> QED BY <1>2, <1>3, <1>4, GreatestElement
<1>6. ASSUME NEW n \in d + 1 .. Len(path) - 1 PROVE V(n) \notin DOMAIN h
  BY <1>5
<1> QED BY <1>5, <1>6 DEF V

(* The way to a place is by objects that are named after it, when no object  *)
(* is copied to a place above it.                                            *)
LEMMA WayIsOurs ==
  ASSUME NEW c, NEW h, NEW D, HeapOK(c, h, D), NEW path \in Seq(STRING), NEW m \in 0 .. Len(path),
         \A n \in 1 .. m : ~CopyAt(c, D, Map!Upto(path, n))
  PROVE  \A n \in 0 .. m :
           \/ Map!Get(h, "res", Map!Upto(path, n)) \in Map!Kinds
           \/ /\ Map!Get(h, "res", Map!Upto(path, n)) \in Ours(h)
              /\ Name(c, Map!Get(h, "res", Map!Upto(path, n))) = Map!Upto(path, n)
<1> DEFINE V(n) == Map!Get(h, "res", Map!Upto(path, n))
           OK(n) == V(n) \in Map!Kinds \/ (V(n) \in Ours(h) /\ Name(c, V(n)) = Map!Upto(path, n))
           S == { n \in 0 .. m : OK(n) }
<1>1. V(0) = "res" /\ \A n \in 1 .. Len(path) : V(n) = Down(h, V(n - 1), path[n])
  <2>1. Stepwise(h, "res", path)
    BY GetSteps
  <2> QED BY <2>1 DEF Stepwise
<1>2. DOMAIN h \cap Map!Kinds = {} /\ "res" \in Ours(h)
  BY HeapApart
<1>3. m \in Nat
  OBVIOUS
<1> HIDE DEF V
<1>4. 0 \in S
  <2>1. Name(c, "res") = <<>> /\ Map!Upto(path, 0) = <<>>
    BY PathFacts DEF Name
  <2> QED BY <1>1, <1>2, <1>3, <2>1
<1>5. ASSUME NEW n \in 0 .. m - 1, n \in S PROVE n + 1 \in S
  <2>1. n + 1 \in 1 .. m /\ n + 1 \in 1 .. Len(path) /\ n \in 0 .. Len(path) /\ n < Len(path) /\ n + 1 - 1 = n
    OBVIOUS
  <2>2. V(n + 1) = Down(h, V(n), path[n + 1])
    BY <1>1, <2>1
  <2>3. CASE V(n) \in Ours(h) /\ Name(c, V(n)) = Map!Upto(path, n) /\ path[n + 1] \in DOMAIN h[V(n)]
    <3>1. V(n) \in DOMAIN h
      BY <2>3 DEF Ours
    <3>2. V(n + 1) = h[V(n)][path[n + 1]]
      BY <2>2, <2>3, <3>1 DEF Down
    <3>3. Append(Name(c, V(n)), path[n + 1]) = Map!Upto(path, n + 1)
      BY <2>1, <2>3, PathFacts
    <3>4. IsPlaced(c, h, D, Append(Name(c, V(n)), path[n + 1]), h[V(n)][path[n + 1]])
      BY <2>3 DEF HeapOK
    <3>5. IsPlaced(c, h, D, Map!Upto(path, n + 1), V(n + 1))
      BY <3>2, <3>3, <3>4
    <3>6. ~CopyAt(c, D, Map!Upto(path, n + 1))
      BY <2>1
    <3>7. OK(n + 1)
      BY <3>5, <3>6 DEF IsPlaced
    <3> QED BY <2>1, <3>7
  <2>4. CASE ~(V(n) \in DOMAIN h /\ path[n + 1] \in DOMAIN h[V(n)])
    <3>1. V(n + 1) = "undefined"
      BY <2>2, <2>4 DEF Down
    <3> QED BY <2>1, <3>1 DEF Map!Kinds
  <2>5. V(n) \in Map!Kinds => V(n) \notin DOMAIN h
    BY <1>2
  <2>6. V(n) \in Map!Kinds \/ (V(n) \in Ours(h) /\ Name(c, V(n)) = Map!Upto(path, n))
    BY <1>5
  <2> QED BY <2>3, <2>4, <2>5, <2>6
<1>6. \A n \in 0 .. m : n \in S
  <2> HIDE DEF S
  <2> QED BY <1>3, <1>4, <1>5, Induct
<1> QED BY <1>6 DEF V

(***************************************************************************)
(* setNestedValue                                                          *)
(***************************************************************************)
Put(i, path, v, n) == IF n = Len(path) THEN v ELSE New[<<i, n>>]

(* g is h with v at the target of the i-th field, at being the last object   *)
(* on the way that is there.                                                 *)
IsSet(c, h, g, i, v, d, at) ==
  LET path == c[i].to
  IN  /\ d \in 0 .. Len(path) - 1
      /\ at = Map!Get(h, "res", Map!Upto(path, d)) /\ at \in Ours(h) /\ Name(c, at) = Map!Upto(path, d)
      /\ \A n \in d + 1 .. Len(path) - 1 : Map!Get(h, "res", Map!Upto(path, n)) \notin DOMAIN h
      /\ DOMAIN g = DOMAIN h \cup { New[<<i, n>>] : n \in d + 1 .. Len(path) - 1 }
      /\ g[at] = Map!With(h[at], path[d + 1], Put(i, path, v, d + 1))
      /\ \A o \in DOMAIN h \ {at} : g[o] = h[o]
      /\ \A n \in d + 1 .. Len(path) - 1 :
           /\ New[<<i, n>>] \notin DOMAIN h /\ Name(c, New[<<i, n>>]) = Map!Upto(path, n)
           /\ g[New[<<i, n>>]] = Map!With(<<>>, path[n + 1], Put(i, path, v, n + 1))

LEMMA ConfigFacts ==
  ASSUME NEW c, ConfigOK(c), NEW i \in 1 .. Len(c)
  PROVE  /\ c[i] \in Map!Fields /\ c[i].to \in Seq(STRING) /\ Len(c[i].to) \in Nat \ {0}
         /\ \A n \in 1 .. Len(c[i].to) - 1 : <<i, n>> \in DOMAIN New
<1>1. c[i] \in Map!Fields
  BY DEF ConfigOK
<1> QED BY <1>1, FieldType DEF ConfigOK

LEMMA NewIsFresh ==
  ASSUME NEW c, NEW h, NEW i \in Nat, HeapOK(c, h, i - 1), NEW n, <<i, n>> \in DOMAIN New
  PROVE  New[<<i, n>>] \notin DOMAIN h
<1> SUFFICES ASSUME New[<<i, n>>] \in DOMAIN h PROVE FALSE
  OBVIOUS
<1>1. New[<<i, n>>] \notin DOMAIN Source \cup {"res"}
  BY NameOfNew
<1>2. PICK j, k : j \in 1 .. i - 1 /\ <<j, k>> \in DOMAIN New /\ New[<<i, n>>] = New[<<j, k>>]
  BY <1>1 DEF HeapOK, Ours
<1>3. <<i, n>> = <<j, k>>
  BY <1>2, NewAssumption
<1> QED BY <1>2, <1>3

LEMMA SetFacts ==
  ASSUME NEW c, ConfigOK(c), NEW i \in 1 .. Len(c), NEW h, HeapOK(c, h, i - 1),
         Free(c, i - 1, c[i].to), NEW v, NEW g, g = Map!Set(h, "res", i, c[i].to, v)
  PROVE  \E d, at : IsSet(c, h, g, i, v, d, at)
<1> DEFINE path == c[i].to
           d == Map!Depth(h, "res", path)
           at == Map!Get(h, "res", Map!Upto(path, d))
           made == d + 1 .. Len(path) - 1
<1>1. path \in Seq(STRING) /\ Len(path) \in Nat \ {0} /\ \A n \in 1 .. Len(path) - 1 : <<i, n>> \in DOMAIN New
  BY ConfigFacts
<1>2. DOMAIN h \cap Map!Kinds = {} /\ "res" \in Ours(h) /\ "res" \in DOMAIN h
  BY HeapApart DEF Ours
<1>3. /\ d \in 0 .. Len(path) - 1 /\ at \in DOMAIN h
      /\ \A n \in made : Map!Get(h, "res", Map!Upto(path, n)) \notin DOMAIN h
  <2> HIDE DEF path
  <2>1. Len(path) > 0
    BY <1>1
  <2> HIDE DEF d
  <2>2. d = Map!Depth(h, "res", path)
    BY DEF d
  <2> QED BY <1>1, <1>2, <2>1, <2>2, DepthFacts
<1>4. at \in Ours(h) /\ Name(c, at) = Map!Upto(path, d)
  <2>1. \A n \in 1 .. Len(path) - 1 : ~CopyAt(c, i - 1, Map!Upto(path, n))
    BY DEF Free
  <2>2. Len(path) - 1 \in 0 .. Len(path)
    BY <1>1
  <2> HIDE DEF path
  <2>3. \A n \in 0 .. Len(path) - 1 :
          \/ Map!Get(h, "res", Map!Upto(path, n)) \in Map!Kinds
          \/ /\ Map!Get(h, "res", Map!Upto(path, n)) \in Ours(h)
             /\ Name(c, Map!Get(h, "res", Map!Upto(path, n))) = Map!Upto(path, n)
    BY <1>1, <2>1, <2>2, WayIsOurs
  <2> HIDE DEF d
  <2> QED BY <1>2, <1>3, <2>3
<1>5. \A n \in made : New[<<i, n>>] \notin DOMAIN h /\ Name(c, New[<<i, n>>]) = Map!Upto(path, n)
  <2> SUFFICES ASSUME NEW n \in made
               PROVE  New[<<i, n>>] \notin DOMAIN h /\ Name(c, New[<<i, n>>]) = Map!Upto(path, n)
    OBVIOUS
  <2>1. <<i, n>> \in DOMAIN New /\ i \in Nat
    BY <1>1, <1>3
  <2>2. <<i, n>>[1] = i /\ <<i, n>>[2] = n
    OBVIOUS
  <2>3. New[<<i, n>>] \notin DOMAIN h
    BY <2>1, NewIsFresh
  <2>4. Name(c, New[<<i, n>>]) = Map!Upto(c[<<i, n>>[1]].to, <<i, n>>[2])
    BY <2>1, NameOfNew
  <2> QED BY <2>2, <2>3, <2>4
<1>6. g = [o \in DOMAIN h \cup { New[<<i, n>>] : n \in made } |->
             IF o = at THEN Map!With(h[o], path[d + 1], Put(i, path, v, d + 1))
             ELSE IF o \in DOMAIN h THEN h[o]
             ELSE LET n == CHOOSE n \in made : New[<<i, n>>] = o
                  IN  Map!With(<<>>, path[n + 1], Put(i, path, v, n + 1))]
  BY DEF Map!Set, Map!IsObject, Put
<1> HIDE DEF path, d, at
<1>7. DOMAIN g = DOMAIN h \cup { New[<<i, n>>] : n \in made }
  BY <1>6
<1>8. g[at] = Map!With(h[at], path[d + 1], Put(i, path, v, d + 1)) /\ \A o \in DOMAIN h \ {at} : g[o] = h[o]
  BY <1>3, <1>6
<1>9. ASSUME NEW n \in made
      PROVE  g[New[<<i, n>>]] = Map!With(<<>>, path[n + 1], Put(i, path, v, n + 1))
  <2>1. New[<<i, n>>] \notin DOMAIN h /\ New[<<i, n>>] # at
    BY <1>3, <1>5
  <2>2. \A k \in made : New[<<i, k>>] = New[<<i, n>>] => k = n
    <3> SUFFICES ASSUME NEW k \in made, New[<<i, k>>] = New[<<i, n>>] PROVE k = n
      OBVIOUS
    <3>1. <<i, k>> \in DOMAIN New /\ <<i, n>> \in DOMAIN New
      BY <1>1, <1>3
    <3>2. <<i, k>> = <<i, n>>
      BY <3>1, NewAssumption
    <3> QED BY <3>2
  <2>3. (CHOOSE k \in made : New[<<i, k>>] = New[<<i, n>>]) = n
    BY <2>2
  <2> QED BY <1>6, <2>1, <2>3, ZenonT(30)
<1>10. IsSet(c, h, g, i, v, d, at)
  <2> USE DEF path
  <2> QED BY <1>3, <1>4, <1>5, <1>7, <1>8, <1>9 DEF IsSet, at
<1> QED BY <1>10

LEMMA HeapSkipped ==
  ASSUME NEW c, NEW h, NEW i \in Nat \ {0}, HeapOK(c, h, i - 1)
  PROVE  HeapOK(c, h, i)
<1>1. 1 .. i - 1 \subseteq 1 .. i
  OBVIOUS
<1>2. ASSUME NEW p, NEW w, IsPlaced(c, h, i - 1, p, w) PROVE IsPlaced(c, h, i, p, w)
  BY <1>1, <1>2 DEF IsPlaced, CopyAt
<1>3. \A o \in Ours(h) \ {"res"} :
        \E j \in 1 .. i : \E n \in 1 .. Len(c[j].to) - 1 : <<j, n>> \in DOMAIN New /\ o = New[<<j, n>>]
  BY <1>1 DEF HeapOK
<1>4. \A o \in Ours(h) : \A key \in DOMAIN h[o] : IsPlaced(c, h, i, Append(Name(c, o), key), h[o][key])
  BY <1>2 DEF HeapOK
<1> QED BY <1>3, <1>4 DEF HeapOK

LEMMA HeapExtended ==
  ASSUME NEW c, ConfigOK(c), NEW i \in 1 .. Len(c), NEW h, HeapOK(c, h, i - 1),
         NEW v, v \in Map!Kinds \/ (v \in DOMAIN Source /\ CopyAt(c, i, c[i].to)),
         NEW g, NEW d, NEW at, IsSet(c, h, g, i, v, d, at)
  PROVE  HeapOK(c, g, i)
<1> DEFINE path == c[i].to
           made == d + 1 .. Len(path) - 1
<1>1. /\ path \in Seq(STRING) /\ Len(path) \in Nat \ {0} /\ i \in Nat \ {0}
      /\ \A n \in 1 .. Len(path) - 1 : <<i, n>> \in DOMAIN New
  BY ConfigFacts
<1>2. /\ d \in 0 .. Len(path) - 1 /\ at \in Ours(h) /\ Name(c, at) = Map!Upto(path, d)
      /\ DOMAIN g = DOMAIN h \cup { New[<<i, n>>] : n \in made }
      /\ g[at] = Map!With(h[at], path[d + 1], Put(i, path, v, d + 1))
      /\ \A o \in DOMAIN h \ {at} : g[o] = h[o]
      /\ \A n \in made :
           /\ New[<<i, n>>] \notin DOMAIN h /\ Name(c, New[<<i, n>>]) = Map!Upto(path, n)
           /\ g[New[<<i, n>>]] = Map!With(<<>>, path[n + 1], Put(i, path, v, n + 1))
  BY DEF IsSet
<1>3. \A n \in made : New[<<i, n>>] \notin DOMAIN Source \cup {"res"}
  <2> SUFFICES ASSUME NEW n \in made PROVE New[<<i, n>>] \notin DOMAIN Source \cup {"res"}
    OBVIOUS
  <2>1. <<i, n>> \in DOMAIN New
    BY <1>1, <1>2
  <2> QED BY <2>1, NameOfNew
<1>4. path = Map!Upto(path, Len(path))
  BY <1>1 DEF Map!Upto
<1>5. v \in Map!Kinds \/ (v \in DOMAIN Source /\ CopyAt(c, i, path))
  OBVIOUS
<1> HIDE DEF path
<1>6. Ours(g) = Ours(h) \cup { New[<<i, n>>] : n \in made }
  <2>1. { New[<<i, n>>] : n \in made } \cap DOMAIN Source = {}
    BY <1>3
  <2>2. DOMAIN g = DOMAIN h \cup { New[<<i, n>>] : n \in made }
    BY <1>2
  <2> QED BY <2>1, <2>2 DEF Ours
<1>7. 1 .. i - 1 \subseteq 1 .. i /\ i \in 1 .. i
  BY <1>1
<1>8. ASSUME NEW p, NEW w, IsPlaced(c, h, i - 1, p, w) PROVE IsPlaced(c, g, i, p, w)
  BY <1>6, <1>7, <1>8 DEF IsPlaced, CopyAt
<1>9. ASSUME NEW n \in d .. Len(path) - 1
      PROVE  /\ path[n + 1] \in STRING
             /\ IsPlaced(c, g, i, Append(Map!Upto(path, n), path[n + 1]), Put(i, path, v, n + 1))
  <2>1. n \in 0 .. Len(path) /\ n < Len(path)
    BY <1>1, <1>2
  <2>2. path[n + 1] \in STRING /\ Append(Map!Upto(path, n), path[n + 1]) = Map!Upto(path, n + 1)
    BY <1>1, <2>1, PathFacts
  <2>3. CASE n + 1 = Len(path)
    <3>1. Map!Upto(path, n + 1) = path /\ Put(i, path, v, n + 1) = v
      BY <1>4, <2>3 DEF Put
    <3> QED BY <1>5, <2>2, <3>1 DEF IsPlaced
  <2>4. CASE n + 1 # Len(path)
    <3>1. n + 1 \in made
      BY <1>1, <1>2, <2>4
    <3>2. Put(i, path, v, n + 1) = New[<<i, n + 1>>]
      BY <2>4 DEF Put
    <3>3. New[<<i, n + 1>>] \in Ours(g) \ {"res"} /\ Name(c, New[<<i, n + 1>>]) = Map!Upto(path, n + 1)
      BY <1>2, <1>3, <1>6, <3>1
    <3> QED BY <2>2, <3>2, <3>3 DEF IsPlaced
  <2> QED BY <2>3, <2>4
<1>10. /\ DOMAIN Source \subseteq DOMAIN g /\ \A o \in DOMAIN Source : g[o] = Source[o]
       /\ "res" \in DOMAIN g
  <2>1. at \notin DOMAIN Source
    BY <1>2 DEF Ours
  <2> QED BY <1>2, <2>1 DEF HeapOK
<1>11. \A o \in Ours(g) \ {"res"} :
         \E j \in 1 .. i : \E n \in 1 .. Len(c[j].to) - 1 : <<j, n>> \in DOMAIN New /\ o = New[<<j, n>>]
  <2> SUFFICES ASSUME NEW o \in Ours(g) \ {"res"}
               PROVE  \E j \in 1 .. i : \E n \in 1 .. Len(c[j].to) - 1 : <<j, n>> \in DOMAIN New /\ o = New[<<j, n>>]
    OBVIOUS
  <2>1. CASE o \in Ours(h)
    BY <1>7, <2>1 DEF HeapOK
  <2>2. CASE o \notin Ours(h)
    <3>1. PICK n \in made : o = New[<<i, n>>]
      BY <1>6, <2>2
    <3>2. n \in 1 .. Len(path) - 1
      BY <1>1, <1>2
    <3> QED BY <1>1, <1>7, <3>1, <3>2 DEF path
  <2> QED BY <2>1, <2>2
<1>12. \A o \in Ours(g) : /\ DOMAIN g[o] \subseteq STRING
                          /\ \A key \in DOMAIN g[o] : IsPlaced(c, g, i, Append(Name(c, o), key), g[o][key])
  <2> SUFFICES ASSUME NEW o \in Ours(g)
               PROVE  /\ DOMAIN g[o] \subseteq STRING
                      /\ \A key \in DOMAIN g[o] : IsPlaced(c, g, i, Append(Name(c, o), key), g[o][key])
    OBVIOUS
  <2>0. ASSUME NEW u \in Ours(h)
        PROVE  /\ u \in DOMAIN h /\ DOMAIN h[u] \subseteq STRING
               /\ \A key \in DOMAIN h[u] : IsPlaced(c, g, i, Append(Name(c, u), key), h[u][key])
    <3>1. DOMAIN h[u] \subseteq STRING /\ \A key \in DOMAIN h[u] : IsPlaced(c, h, i - 1, Append(Name(c, u), key), h[u][key])
      BY DEF HeapOK
    <3>2. u \in DOMAIN h
      BY DEF Ours
    <3> QED BY <1>8, <3>1, <3>2
  <2>1. CASE o = at
    <3>1. d \in d .. Len(path) - 1
      BY <1>1, <1>2
    <3>2. path[d + 1] \in STRING /\ IsPlaced(c, g, i, Append(Name(c, at), path[d + 1]), Put(i, path, v, d + 1))
      BY <1>2, <1>9, <3>1
    <3>3. /\ DOMAIN g[at] = DOMAIN h[at] \cup {path[d + 1]}
          /\ g[at][path[d + 1]] = Put(i, path, v, d + 1)
          /\ \A key \in DOMAIN h[at] \ {path[d + 1]} : g[at][key] = h[at][key]
      BY <1>2 DEF Map!With
    <3>4. DOMAIN h[at] \subseteq STRING /\ \A key \in DOMAIN h[at] : IsPlaced(c, g, i, Append(Name(c, at), key), h[at][key])
      BY <1>2, <2>0
    <3> QED BY <2>1, <3>2, <3>3, <3>4
  <2>2. CASE o \in Ours(h) \ {at}
    <3>1. g[o] = h[o]
      BY <1>2, <2>0, <2>2
    <3> QED BY <2>0, <2>2, <3>1
  <2>3. CASE o \notin Ours(h)
    <3>1. PICK n \in made : o = New[<<i, n>>]
      BY <1>6, <2>3
    <3>2. n \in d .. Len(path) - 1
      BY <1>1, <1>2
    <3>3. path[n + 1] \in STRING /\ IsPlaced(c, g, i, Append(Name(c, o), path[n + 1]), Put(i, path, v, n + 1))
      BY <1>2, <1>9, <3>1, <3>2
    <3>4. g[o] = Map!With(<<>>, path[n + 1], Put(i, path, v, n + 1))
      BY <1>2, <3>1
    <3>5. DOMAIN g[o] = {path[n + 1]} /\ g[o][path[n + 1]] = Put(i, path, v, n + 1)
      BY <3>4 DEF Map!With
    <3> QED BY <3>3, <3>5
  <2> QED BY <2>1, <2>2, <2>3
<1> QED BY <1>10, <1>11, <1>12 DEF HeapOK

LEMMA PrefixFacts ==
  ASSUME NEW p \in Seq(STRING), NEW q \in Seq(STRING)
  PROVE  Map!IsPrefix(p, q) <=> \E n \in 0 .. Len(q) : p = Map!Upto(q, n)
<1>1. SubSeq(p, 1, Len(p)) = p
  OBVIOUS
<1>2. \A n \in 0 .. Len(q) : Len(Map!Upto(q, n)) = n
  BY PathFacts
<1>3. Len(p) \in Nat /\ Len(q) \in Nat
  OBVIOUS
<1>4. ASSUME Map!IsPrefix(p, q) PROVE \E n \in 0 .. Len(q) : p = Map!Upto(q, n)
  <2>1. Len(p) \in 0 .. Len(q) /\ p = Map!Upto(q, Len(p))
    BY <1>1, <1>3, <1>4 DEF Map!IsPrefix, Map!Upto
  <2> QED BY <2>1
<1>5. ASSUME NEW n \in 0 .. Len(q), p = Map!Upto(q, n) PROVE Map!IsPrefix(p, q)
  <2>1. Len(p) = n
    BY <1>2, <1>5
  <2> QED BY <1>1, <1>5, <2>1 DEF Map!IsPrefix, Map!Upto
<1> QED BY <1>4, <1>5

(* The value is found at the target. *)
LEMMA GetSame ==
  ASSUME NEW c, ConfigOK(c), NEW i \in 1 .. Len(c), NEW h, HeapOK(c, h, i - 1), Free(c, i - 1, c[i].to),
         NEW v, NEW g, NEW d, NEW at, IsSet(c, h, g, i, v, d, at), HeapOK(c, g, i)
  PROVE  Map!Get(g, "res", c[i].to) = v
<1> DEFINE path == c[i].to
           made == d + 1 .. Len(path) - 1
           V(n) == Map!Get(h, "res", Map!Upto(path, n))
           W(n) == Map!Get(g, "res", Map!Upto(path, n))
           S == { n \in 0 .. Len(path) : W(n) = IF n <= d THEN V(n) ELSE Put(i, path, v, n) }
<1>1. path \in Seq(STRING) /\ Len(path) \in Nat \ {0}
  BY ConfigFacts
<1>2. /\ d \in 0 .. Len(path) - 1 /\ at = V(d) /\ at \in Ours(h) /\ Name(c, at) = Map!Upto(path, d)
      /\ DOMAIN g = DOMAIN h \cup { New[<<i, n>>] : n \in made }
      /\ g[at] = Map!With(h[at], path[d + 1], Put(i, path, v, d + 1))
      /\ \A o \in DOMAIN h \ {at} : g[o] = h[o]
      /\ \A n \in made : g[New[<<i, n>>]] = Map!With(<<>>, path[n + 1], Put(i, path, v, n + 1))
  BY DEF IsSet
<1>3. \A n \in 0 .. Len(path) - 1 : V(n) \in Map!Kinds \/ (V(n) \in Ours(h) /\ Name(c, V(n)) = Map!Upto(path, n))
  <2>1. \A n \in 1 .. Len(path) - 1 : ~CopyAt(c, i - 1, Map!Upto(path, n))
    BY DEF Free
  <2>2. Len(path) - 1 \in 0 .. Len(path)
    BY <1>1
  <2> HIDE DEF path
  <2> QED BY <1>1, <2>1, <2>2, WayIsOurs
<1>4. DOMAIN h \cap Map!Kinds = {} /\ DOMAIN g \cap Map!Kinds = {}
  BY HeapApart
<1> HIDE DEF path
<1>5. /\ V(0) = "res" /\ \A n \in 1 .. Len(path) : V(n) = Down(h, V(n - 1), path[n])
      /\ W(0) = "res" /\ \A n \in 1 .. Len(path) : W(n) = Down(g, W(n - 1), path[n])
      /\ W(Len(path)) = Map!Get(g, "res", path)
  <2>1. Stepwise(h, "res", path) /\ Stepwise(g, "res", path)
    BY <1>1, GetSteps
  <2> QED BY <2>1 DEF Stepwise
<1> HIDE DEF V, W
<1>6. 0 \in S
  BY <1>1, <1>2, <1>5
<1>7. ASSUME NEW n \in 0 .. Len(path) - 1, n \in S PROVE n + 1 \in S
  <2>1. n + 1 \in 1 .. Len(path) /\ n + 1 \in 0 .. Len(path) /\ n + 1 - 1 = n
    BY <1>1
  <2>2. V(n + 1) = Down(h, V(n), path[n + 1]) /\ W(n + 1) = Down(g, W(n), path[n + 1])
    BY <1>5, <2>1
  <2>3. CASE n < d
    <3>1. W(n) = V(n) /\ n + 1 <= d
      BY <1>2, <1>7, <2>3
    <3>2. V(n) # at
      <4>1. Len(Map!Upto(path, n)) = n /\ Len(Map!Upto(path, d)) = d
        BY <1>1, <1>2, PathFacts
      <4>2. at \notin Map!Kinds
        BY <1>2, <1>4 DEF Ours
      <4> QED BY <1>2, <1>3, <2>3, <4>1, <4>2
    <3>3. CASE V(n) \in Map!Kinds
      <4>1. V(n) \notin DOMAIN h /\ V(n) \notin DOMAIN g
        BY <1>4, <3>3
      <4>2. W(n + 1) = V(n + 1)
        BY <2>2, <3>1, <4>1 DEF Down
      <4> QED BY <2>1, <3>1, <4>2
    <3>4. CASE V(n) \in Ours(h)
      <4>1. V(n) \in DOMAIN h /\ V(n) \in DOMAIN g /\ g[V(n)] = h[V(n)]
        BY <1>2, <3>2, <3>4 DEF Ours
      <4>2. W(n + 1) = V(n + 1)
        BY <2>2, <3>1, <4>1 DEF Down
      <4> QED BY <2>1, <3>1, <4>2
    <3> QED BY <1>3, <3>3, <3>4
  <2>4. CASE n = d
    <3>1. W(n) = at /\ at \in DOMAIN g /\ ~(n + 1 <= d)
      BY <1>2, <1>7, <2>4 DEF Ours
    <3>2. path[n + 1] \in DOMAIN g[at] /\ g[at][path[n + 1]] = Put(i, path, v, n + 1)
      BY <1>2, <2>4 DEF Map!With
    <3>3. W(n + 1) = Put(i, path, v, n + 1)
      BY <2>2, <3>1, <3>2 DEF Down
    <3> QED BY <2>1, <3>1, <3>3
  <2>5. CASE n > d
    <3>1. n \in made /\ ~(n <= d) /\ ~(n + 1 <= d) /\ n # Len(path)
      BY <1>1, <1>2, <2>5
    <3>2. W(n) = New[<<i, n>>]
      BY <1>7, <3>1 DEF Put
    <3>3. New[<<i, n>>] \in DOMAIN g /\ g[New[<<i, n>>]] = Map!With(<<>>, path[n + 1], Put(i, path, v, n + 1))
      BY <1>2, <3>1
    <3>4. path[n + 1] \in DOMAIN g[New[<<i, n>>]] /\ g[New[<<i, n>>]][path[n + 1]] = Put(i, path, v, n + 1)
      BY <3>3 DEF Map!With
    <3>5. W(n + 1) = Put(i, path, v, n + 1)
      BY <2>2, <3>2, <3>3, <3>4 DEF Down
    <3> QED BY <2>1, <3>1, <3>5
  <2> QED BY <1>2, <2>3, <2>4, <2>5
<1>8. Len(path) \in S
  <2> HIDE DEF S
  <2>1. Len(path) \in Nat
    BY <1>1
  <2>2. \A n \in 0 .. Len(path) : n \in S
    BY <1>6, <1>7, <2>1, Induct
  <2> QED BY <2>1, <2>2
<1>9. ~(Len(path) <= d) /\ Put(i, path, v, Len(path)) = v
  BY <1>1, <1>2 DEF Put
<1>10. Map!Get(g, "res", path) = v
  BY <1>5, <1>8, <1>9
<1> QED BY <1>10 DEF path

(* A place that is neither above nor below the target has what it had.       *)
LEMMA GetOther ==
  ASSUME NEW c, ConfigOK(c), NEW i \in 1 .. Len(c), NEW h, HeapOK(c, h, i - 1),
         NEW v, NEW g, NEW d, NEW at, IsSet(c, h, g, i, v, d, at), HeapOK(c, g, i),
         NEW other \in Seq(STRING), Free(c, i - 1, other),
         ~Map!IsPrefix(c[i].to, other), ~Map!IsPrefix(other, c[i].to)
  PROVE  Map!Get(g, "res", other) = Map!Get(h, "res", other)
<1> DEFINE path == c[i].to
           made == d + 1 .. Len(path) - 1
           V(n) == Map!Get(h, "res", Map!Upto(other, n))
           W(n) == Map!Get(g, "res", Map!Upto(other, n))
           OK(n) == \/ W(n) = V(n)
                    \/ /\ n \in made /\ W(n) = New[<<i, n>>]
                       /\ Map!Upto(other, n) = Map!Upto(path, n) /\ V(n) \notin DOMAIN h
           S == { n \in 0 .. Len(other) : OK(n) }
<1>1. path \in Seq(STRING) /\ Len(path) \in Nat \ {0} /\ Len(other) \in Nat
  BY ConfigFacts
<1>2. /\ d \in 0 .. Len(path) - 1 /\ at \in Ours(h) /\ Name(c, at) = Map!Upto(path, d)
      /\ \A n \in made : Map!Get(h, "res", Map!Upto(path, n)) \notin DOMAIN h
      /\ DOMAIN g = DOMAIN h \cup { New[<<i, n>>] : n \in made }
      /\ g[at] = Map!With(h[at], path[d + 1], Put(i, path, v, d + 1))
      /\ \A o \in DOMAIN h \ {at} : g[o] = h[o]
      /\ \A n \in made : g[New[<<i, n>>]] = Map!With(<<>>, path[n + 1], Put(i, path, v, n + 1))
  BY DEF IsSet
<1>3. \A n \in 0 .. Len(other) - 1 : V(n) \in Map!Kinds \/ (V(n) \in Ours(h) /\ Name(c, V(n)) = Map!Upto(other, n))
  <2> SUFFICES ASSUME NEW n \in 0 .. Len(other) - 1
               PROVE  V(n) \in Map!Kinds \/ (V(n) \in Ours(h) /\ Name(c, V(n)) = Map!Upto(other, n))
    OBVIOUS
  <2>1. \A k \in 1 .. n : ~CopyAt(c, i - 1, Map!Upto(other, k))
    BY DEF Free
  <2>2. n \in 0 .. Len(other) /\ n \in 0 .. n
    BY <1>1
  <2> QED BY <1>1, <2>1, <2>2, WayIsOurs, SMTT(20)
<1>4. DOMAIN h \cap Map!Kinds = {} /\ DOMAIN g \cap Map!Kinds = {}
  BY HeapApart
<1>5. \A n \in 0 .. Len(other) : n <= Len(path) => /\ Map!Upto(other, n) = Map!Upto(path, n) => n < Len(path) /\ n < Len(other)
  <2> SUFFICES ASSUME NEW n \in 0 .. Len(other), n <= Len(path), Map!Upto(other, n) = Map!Upto(path, n)
               PROVE  n < Len(path) /\ n < Len(other)
    OBVIOUS
  <2>1. Map!Upto(path, Len(path)) = path /\ Map!Upto(other, Len(other)) = other
    BY <1>1 DEF Map!Upto
  <2>2. n \in 0 .. Len(path)
    BY <1>1
  <2>3. ~Map!IsPrefix(path, other) /\ ~Map!IsPrefix(other, path)
    OBVIOUS
  <2> HIDE DEF path
  <2>4. n # Len(path)
    BY <1>1, <2>1, <2>3, PrefixFacts
  <2>5. n # Len(other)
    BY <1>1, <2>1, <2>2, <2>3, PrefixFacts
  <2> QED BY <1>1, <2>2, <2>4, <2>5
<1> HIDE DEF path
<1>6. /\ V(0) = "res" /\ \A n \in 1 .. Len(other) : V(n) = Down(h, V(n - 1), other[n])
      /\ W(0) = "res" /\ \A n \in 1 .. Len(other) : W(n) = Down(g, W(n - 1), other[n])
      /\ V(Len(other)) = Map!Get(h, "res", other) /\ W(Len(other)) = Map!Get(g, "res", other)
  <2>1. Stepwise(h, "res", other) /\ Stepwise(g, "res", other)
    BY <1>1, GetSteps
  <2> QED BY <2>1 DEF Stepwise
<1>7. \A n \in 0 .. Len(path) - 1 : n \in 0 .. Len(other) - 1 =>
        (Map!Upto(other, n) = Map!Upto(path, n) /\ other[n + 1] = path[n + 1]
           => Map!Upto(other, n + 1) = Map!Upto(path, n + 1))
  <2> SUFFICES ASSUME NEW n \in 0 .. Len(path) - 1, n \in 0 .. Len(other) - 1,
                      Map!Upto(other, n) = Map!Upto(path, n), other[n + 1] = path[n + 1]
               PROVE  Map!Upto(other, n + 1) = Map!Upto(path, n + 1)
    OBVIOUS
  <2>1. n \in 0 .. Len(path) /\ n < Len(path) /\ n \in 0 .. Len(other) /\ n < Len(other)
    BY <1>1
  <2>2. Append(Map!Upto(other, n), other[n + 1]) = Map!Upto(other, n + 1)
    BY <2>1, PathFacts
  <2>3. Append(Map!Upto(path, n), path[n + 1]) = Map!Upto(path, n + 1)
    BY <1>1, <2>1, PathFacts
  <2> QED BY <2>2, <2>3
<1>8. \A n \in 0 .. Len(other) : V(n) = Map!Get(h, "res", Map!Upto(other, n))
  OBVIOUS
<1> HIDE DEF V, W
<1>9. 0 \in S
  BY <1>1, <1>6
<1>10. ASSUME NEW n \in 0 .. Len(other) - 1, n \in S PROVE n + 1 \in S
  <2>1. n + 1 \in 1 .. Len(other) /\ n + 1 \in 0 .. Len(other) /\ n \in 0 .. Len(other) /\ n + 1 - 1 = n
    BY <1>1
  <2>2. V(n + 1) = Down(h, V(n), other[n + 1]) /\ W(n + 1) = Down(g, W(n), other[n + 1])
    <3>1. V(n + 1) = Down(h, V(n + 1 - 1), other[n + 1])
      BY <1>6, <2>1
    <3>2. W(n + 1) = Down(g, W(n + 1 - 1), other[n + 1])
      BY <1>6, <2>1
    <3> QED BY <2>1, <3>1, <3>2
  <2> SUFFICES OK(n + 1)
    BY <2>1
  <2>3. CASE W(n) = V(n) /\ V(n) \in Map!Kinds
    <3>1. V(n) \notin DOMAIN h /\ V(n) \notin DOMAIN g
      BY <1>4, <2>3
    <3>2. W(n + 1) = V(n + 1)
      BY <2>2, <2>3, <3>1 DEF Down
    <3> QED BY <3>2
  <2>4. CASE W(n) = V(n) /\ V(n) \in Ours(h) /\ V(n) # at
    <3>1. V(n) \in DOMAIN h /\ V(n) \in DOMAIN g /\ g[V(n)] = h[V(n)]
      BY <1>2, <2>4 DEF Ours
    <3>2. W(n + 1) = V(n + 1)
      BY <2>2, <2>4, <3>1 DEF Down
    <3> QED BY <3>2
  <2>5. CASE W(n) = V(n) /\ V(n) = at
    <3>1. at \in DOMAIN h /\ at \in DOMAIN g /\ at \notin Map!Kinds
      BY <1>2, <1>4 DEF Ours
    <3>2. Map!Upto(other, n) = Map!Upto(path, d)
      BY <1>2, <1>3, <2>5, <3>1
    <3>3. n = d
      <4>1. Len(Map!Upto(other, n)) = n /\ Len(Map!Upto(path, d)) = d
        BY <1>1, <1>2, <2>1, PathFacts
      <4> QED BY <3>2, <4>1
    <3>4. /\ DOMAIN g[at] = DOMAIN h[at] \cup {path[d + 1]} /\ g[at][path[d + 1]] = Put(i, path, v, d + 1)
          /\ \A key \in DOMAIN h[at] \ {path[d + 1]} : g[at][key] = h[at][key]
      BY <1>2 DEF Map!With
    <3>5. CASE other[n + 1] # path[n + 1]
      <4>1. W(n + 1) = V(n + 1)
        BY <2>2, <2>5, <3>1, <3>3, <3>4, <3>5 DEF Down
      <4> QED BY <4>1
    <3>6. CASE other[n + 1] = path[n + 1]
      <4>1. Map!Upto(other, n + 1) = Map!Upto(path, n + 1)
        BY <1>2, <1>7, <3>2, <3>3, <3>6
      <4>2. n + 1 < Len(path)
        BY <1>1, <1>2, <1>5, <2>1, <3>3, <4>1
      <4>3. n + 1 \in made /\ n + 1 # Len(path)
        BY <1>1, <1>2, <2>1, <3>3, <4>2
      <4>4. W(n + 1) = New[<<i, n + 1>>]
        BY <2>2, <2>5, <3>1, <3>3, <3>4, <3>6, <4>3 DEF Down, Put
      <4>5. V(n + 1) \notin DOMAIN h
        BY <1>2, <1>8, <2>1, <4>1, <4>3
      <4> QED BY <4>1, <4>3, <4>4, <4>5
    <3> QED BY <3>5, <3>6
  <2>6. CASE /\ n \in made /\ W(n) = New[<<i, n>>]
             /\ Map!Upto(other, n) = Map!Upto(path, n) /\ V(n) \notin DOMAIN h
    <3>1. V(n + 1) = "undefined" /\ "undefined" \in Map!Kinds
      BY <2>2, <2>6 DEF Down, Map!Kinds
    <3>2. /\ W(n) \in DOMAIN g /\ DOMAIN g[W(n)] = {path[n + 1]}
          /\ g[W(n)][path[n + 1]] = Put(i, path, v, n + 1)
      <4>1. W(n) \in DOMAIN g /\ g[W(n)] = Map!With(<<>>, path[n + 1], Put(i, path, v, n + 1))
        BY <1>2, <2>6
      <4> QED BY <4>1 DEF Map!With
    <3>3. CASE other[n + 1] # path[n + 1]
      <4>1. W(n + 1) = "undefined"
        BY <2>2, <3>2, <3>3 DEF Down
      <4> QED BY <3>1, <4>1
    <3>4. CASE other[n + 1] = path[n + 1]
      <4>0. n \in 0 .. Len(path) - 1 /\ n + 1 <= Len(path)
        BY <1>1, <1>2, <2>6
      <4>1. Map!Upto(other, n + 1) = Map!Upto(path, n + 1)
        BY <1>7, <2>6, <3>4, <4>0
      <4>2. n + 1 < Len(path)
        BY <1>5, <2>1, <4>0, <4>1
      <4>3. n + 1 \in made /\ n + 1 # Len(path)
        BY <1>1, <1>2, <2>6, <4>2
      <4>4. W(n + 1) = New[<<i, n + 1>>]
        BY <2>2, <3>2, <3>4, <4>3 DEF Down, Put
      <4>5. V(n + 1) \notin DOMAIN h
        BY <1>4, <3>1
      <4> QED BY <4>1, <4>3, <4>4, <4>5
    <3> QED BY <3>3, <3>4
  <2> QED BY <1>3, <1>10, <2>3, <2>4, <2>5, <2>6
<1>11. Len(other) \in S
  <2> HIDE DEF S
  <2>1. \A n \in 0 .. Len(other) : n \in S
    BY <1>1, <1>9, <1>10, Induct
  <2> QED BY <1>1, <2>1
<1>12. Len(other) \in made => Len(other) <= Len(path)
  BY <1>1, <1>2
<1>13. W(Len(other)) = V(Len(other))
  BY <1>1, <1>5, <1>11, <1>12
<1> QED BY <1>6, <1>13

(* The result gets no property but the first part of the target.             *)
LEMMA ResKeys ==
  ASSUME NEW c, ConfigOK(c), NEW i \in 1 .. Len(c), NEW h, HeapOK(c, h, i - 1),
         NEW v, NEW g, NEW d, NEW at, IsSet(c, h, g, i, v, d, at)
  PROVE  \A key \in DOMAIN g["res"] : key \in DOMAIN h["res"] \/ key = c[i].to[1]
<1>1. c[i].to \in Seq(STRING)
  BY ConfigFacts
<1>2. /\ d \in 0 .. Len(c[i].to) - 1 /\ Name(c, at) = Map!Upto(c[i].to, d)
      /\ g[at] = Map!With(h[at], c[i].to[d + 1], Put(i, c[i].to, v, d + 1))
      /\ \A o \in DOMAIN h \ {at} : g[o] = h[o]
  BY DEF IsSet
<1>3. CASE at = "res"
  <2>1. Map!Upto(c[i].to, d) = <<>> /\ Len(<<>>) = 0
    BY <1>2, <1>3 DEF Name
  <2>2. Len(Map!Upto(c[i].to, d)) = d
    BY <1>1, <1>2, PathFacts
  <2>3. d + 1 = 1
    BY <1>2, <2>1, <2>2
  <2> QED BY <1>2, <1>3, <2>3 DEF Map!With
<1>4. CASE at # "res"
  BY <1>2, <1>4 DEF HeapOK
<1> QED BY <1>3, <1>4

(***************************************************************************)
(* The heuristic                                                           *)
(***************************************************************************)
IsScore(sc) == sc \in [Map!ToSet(SourceFields) \X Map!ToSet(TargetFields) -> Scores]

LEMMA ScoresAreInts ==
  ASSUME NEW sc, IsScore(sc), NEW p \in Map!Pairs
  PROVE  /\ sc[Map!Names(p)] \in Int
         /\ p[1] \in Nat /\ p[2] \in Nat /\ p = <<p[1], p[2]>>
         /\ p[1] \in 1 .. Len(SourceFields) /\ p[2] \in 1 .. Len(TargetFields)
         /\ Map!Names(p)[1] = SourceFields[p[1]] /\ Map!Names(p)[2] = TargetFields[p[2]]
         /\ SourceFields[p[1]] \in STRING /\ TargetFields[p[2]] \in STRING
<1>1. /\ p[1] \in 1 .. Len(SourceFields) /\ p[2] \in 1 .. Len(TargetFields)
      /\ p = <<p[1], p[2]>>
  BY DEF Map!Pairs
<1>2. SourceFields \in Seq(STRING) /\ TargetFields \in Seq(STRING) /\ Scores \subseteq Int
  BY FieldsAssumption
<1>3. SourceFields[p[1]] \in Map!ToSet(SourceFields) /\ TargetFields[p[2]] \in Map!ToSet(TargetFields)
  BY <1>1, <1>2 DEF Map!ToSet
<1>4. Map!Names(p) = <<SourceFields[p[1]], TargetFields[p[2]]>>
  BY DEF Map!Names
<1>5. sc[Map!Names(p)] \in Scores
  BY <1>3, <1>4 DEF IsScore
<1> QED BY <1>1, <1>2, <1>4, <1>5

LEMMA BetterIsOrder ==
  ASSUME NEW sc, IsScore(sc), NEW p \in Map!Pairs, NEW q \in Map!Pairs, NEW r \in Map!Pairs
  PROVE  /\ ~Map!Better(sc, p, p)
         /\ p # q => Map!Better(sc, p, q) \/ Map!Better(sc, q, p)
         /\ ~(Map!Better(sc, p, q) /\ Map!Better(sc, q, p))
         /\ Map!Better(sc, p, q) /\ Map!Better(sc, q, r) => Map!Better(sc, p, r)
<1>1. /\ sc[Map!Names(p)] \in Int /\ sc[Map!Names(q)] \in Int /\ sc[Map!Names(r)] \in Int
      /\ p[1] \in Nat /\ p[2] \in Nat /\ q[1] \in Nat /\ q[2] \in Nat /\ r[1] \in Nat /\ r[2] \in Nat
      /\ p = <<p[1], p[2]>> /\ q = <<q[1], q[2]>>
  BY ScoresAreInts
<1>2. p # q => p[1] # q[1] \/ p[2] # q[2]
  BY <1>1
<1> QED BY <1>1, <1>2 DEF Map!Better, Map!Pushed

LEMMA SameCardinality == \A S : Map!Cardinality(S) = Cardinality(S)
BY DEF Map!Cardinality, Cardinality

LEMMA SuggestionsAreFinite ==
  ASSUME NEW T \in SUBSET Map!Pairs
  PROVE  IsFiniteSet(T) /\ Cardinality(T) \in Nat
<1>1. Len(SourceFields) \in Int /\ Len(TargetFields) \in Int /\ 1 \in Int
  BY FieldsAssumption
<1>2. IsFiniteSet(1 .. Len(SourceFields)) /\ IsFiniteSet(1 .. Len(TargetFields))
  BY <1>1, FS_Interval
<1>3. IsFiniteSet(Map!Pairs)
  BY <1>2, FS_Product DEF Map!Pairs
<1>4. IsFiniteSet(T)
  BY <1>3, FS_Subset
<1> QED BY <1>4, FS_CardinalityType

Rank(sc, kept, p) == Map!Cardinality({ q \in kept : Map!Better(sc, q, p) })

(* Sorting gives each suggestion a place of its own. *)
LEMMA RankIsBijective ==
  ASSUME NEW sc, IsScore(sc), NEW kept \in SUBSET Map!Pairs
  PROVE  /\ \A p \in kept : Rank(sc, kept, p) + 1 \in 1 .. Map!Cardinality(kept)
         /\ \A p, q \in kept : Rank(sc, kept, p) = Rank(sc, kept, q) => p = q
         /\ \A k \in 1 .. Map!Cardinality(kept) : \E p \in kept : Rank(sc, kept, p) = k - 1
<1> DEFINE N == Cardinality(kept)
           above(p) == { q \in kept : Map!Better(sc, q, p) }
           rank == [p \in kept |-> Cardinality(above(p))]
<1>1. IsFiniteSet(kept) /\ N \in Nat
  BY SuggestionsAreFinite
<1>2. \A p \in kept : Rank(sc, kept, p) = rank[p]
  BY SameCardinality DEF Rank
<1>3. ASSUME NEW p \in kept PROVE rank[p] \in 0 .. N - 1
  <2>1. IsFiniteSet(kept \ {p}) /\ Cardinality(kept \ {p}) = N - 1
    BY <1>1, FS_RemoveElement
  <2>2. above(p) \in SUBSET (kept \ {p})
    BY BetterIsOrder
  <2>3. Cardinality(above(p)) <= N - 1
    BY <2>1, <2>2, FS_Subset
  <2>4. Cardinality(above(p)) \in Nat
    <3>1. above(p) \in SUBSET Map!Pairs
      OBVIOUS
    <3> HIDE DEF above
    <3> QED BY <3>1, SuggestionsAreFinite
  <2> QED BY <1>1, <2>3, <2>4
<1>4. ASSUME NEW p \in kept, NEW q \in kept, Map!Better(sc, p, q) PROVE rank[p] # rank[q]
  <2>1. above(p) \in SUBSET above(q)
    BY <1>4, BetterIsOrder
  <2>2. p \in above(q) /\ p \notin above(p)
    BY <1>4, BetterIsOrder
  <2>3. IsFiniteSet(above(q))
    <3>1. above(q) \in SUBSET Map!Pairs
      OBVIOUS
    <3> HIDE DEF above
    <3> QED BY <3>1, SuggestionsAreFinite
  <2>4. Cardinality(above(p)) # Cardinality(above(q))
    <3> HIDE DEF above
    <3> QED BY <2>1, <2>2, <2>3, FS_Subset
  <2> QED BY <2>4
<1>5. \A p, q \in kept : rank[p] = rank[q] => p = q
  <2> HIDE DEF rank
  <2> QED BY <1>4, BetterIsOrder
<1>6. rank \in [kept -> 0 .. N - 1]
  <2>1. DOMAIN rank = kept /\ rank = [p \in kept |-> rank[p]]
    OBVIOUS
  <2> HIDE DEF rank
  <2> QED BY <1>3, <2>1
<1>7. rank \in Injection(kept, 0 .. N - 1)
  <2> HIDE DEF rank
  <2> QED BY <1>5, <1>6 DEF Injection, IsInjective
<1>8. IsFiniteSet(0 .. N - 1) /\ Cardinality(0 .. N - 1) = N
  <2>1. 0 \in Int /\ N - 1 \in Int
    BY <1>1
  <2>2. IsFiniteSet(0 .. N - 1) /\ Cardinality(0 .. N - 1) = IF 0 > N - 1 THEN 0 ELSE N - 1 - 0 + 1
    BY <2>1, FS_Interval
  <2> QED BY <1>1, <2>2
<1>9. rank \in Surjection(kept, 0 .. N - 1)
  <2> HIDE DEF rank
  <2> QED BY <1>7, <1>8, FS_Injection
<1>10. \A k \in 0 .. N - 1 : \E p \in kept : rank[p] = k
  <2> HIDE DEF rank
  <2> QED BY <1>9 DEF Surjection
<1>11. Map!Cardinality(kept) = N
  BY SameCardinality
<1>12. \A k \in 1 .. N : k - 1 \in 0 .. N - 1
  BY <1>1
<1>13. \A p \in kept : rank[p] + 1 \in 1 .. N
  <2> HIDE DEF rank
  <2> QED BY <1>1, <1>3
<1> QED
  <2> HIDE DEF rank, N
  <2> QED BY <1>2, <1>5, <1>10, <1>11, <1>12, <1>13

Kept(sc) == { p \in Map!HeuristicMap(sc, 5) : sc[Map!Names(p)] >= 6 }

Suggested(f, p) ==
  /\ f.from = <<SourceFields[p[1]]>> /\ f.to = <<TargetFields[p[2]]>>
  /\ f.rule = "direct" /\ f.need \in {"required", "optional"}

(* Each suggestion that is kept becomes a field, and no target has two.      *)
LEMMA HeuristicConfig ==
  ASSUME NEW sc, IsScore(sc),
         NEW c, c = Map!SuggestionsToMappings(sc, Map!HeuristicMap(sc, 5), 6)
  PROVE  /\ ConfigOK(c)
         /\ \A k \in 1 .. Len(c) : \E p \in Kept(sc) : Suggested(c[k], p)
         /\ \A p \in Kept(sc) : \E k \in 1 .. Len(c) : Suggested(c[k], p)
         /\ \A k, l \in 1 .. Len(c) : c[k].to = c[l].to => k = l
<1> DEFINE kept == Kept(sc)
           N == Map!Cardinality(kept)
           R(k) == CHOOSE p \in kept : Rank(sc, kept, p) = k - 1
           F(k) == [from |-> <<Map!Names(R(k))[1]>>, to |-> <<Map!Names(R(k))[2]>>, rule |-> "direct",
                    need |-> IF sc[Map!Names(R(k))] >= 9 THEN "required" ELSE "optional"]
<1>1. c = [k \in 1 .. N |-> F(k)]
  BY DEF Map!SuggestionsToMappings, Map!Field, Kept, Rank
<1>2. kept \in SUBSET Map!Pairs
  BY DEF Kept, Map!HeuristicMap
<1>3. N \in Nat
  <2> HIDE DEF kept
  <2> QED BY <1>2, SuggestionsAreFinite, SameCardinality
<1> HIDE DEF kept
<1>4. /\ \A p \in kept : Rank(sc, kept, p) + 1 \in 1 .. N
      /\ \A p, q \in kept : Rank(sc, kept, p) = Rank(sc, kept, q) => p = q
      /\ \A k \in 1 .. N : \E p \in kept : Rank(sc, kept, p) = k - 1
  BY <1>2, RankIsBijective
<1> HIDE DEF N
<1>5. \A k \in 1 .. N : R(k) \in kept /\ Rank(sc, kept, R(k)) = k - 1
  BY <1>4
<1> HIDE DEF R
<1>6. \A k \in 1 .. N : /\ R(k) \in kept /\ Suggested(F(k), R(k)) /\ F(k) \in Map!Fields
                        /\ Len(F(k).to) = 1
  <2> SUFFICES ASSUME NEW k \in 1 .. N
               PROVE  /\ R(k) \in kept /\ Suggested(F(k), R(k)) /\ F(k) \in Map!Fields
                      /\ Len(F(k).to) = 1
    OBVIOUS
  <2>1. R(k) \in kept /\ R(k) \in Map!Pairs
    BY <1>2, <1>5
  <2>2. /\ Map!Names(R(k))[1] = SourceFields[R(k)[1]] /\ Map!Names(R(k))[2] = TargetFields[R(k)[2]]
        /\ SourceFields[R(k)[1]] \in STRING /\ TargetFields[R(k)[2]] \in STRING
    BY <2>1, ScoresAreInts
  <2>3. Suggested(F(k), R(k))
    BY <2>2 DEF Suggested
  <2>4. <<Map!Names(R(k))[1]>> \in Seq(STRING) \ {<<>>} /\ <<Map!Names(R(k))[2]>> \in Seq(STRING) \ {<<>>}
    BY <2>2
  <2>5. "direct" \in Map!Rules
    BY DEF Map!Rules, Map!Copying
  <2>6. F(k) \in Map!Fields
    BY <2>4, <2>5 DEF Map!Fields
  <2> QED BY <2>1, <2>3, <2>6
<1> HIDE DEF F
<1>7. Len(c) = N /\ c \in Seq(Map!Fields) /\ \A k \in 1 .. N : c[k] = F(k)
  BY <1>1, <1>3, <1>6
<1>8. ConfigOK(c)
  <2>1. \A k \in 1 .. Len(c) : Len(c[k].to) = 1
    BY <1>6, <1>7
  <2>2. ASSUME NEW k \in 1 .. Len(c), NEW n \in 1 .. Len(c[k].to) - 1 PROVE <<k, n>> \in DOMAIN New
    <3>1. n \in 1 .. 1 - 1
      BY <2>1
    <3> QED BY <3>1
  <2> QED BY <1>7, <2>2 DEF ConfigOK
<1>9. \A k \in 1 .. Len(c) : \E p \in kept : Suggested(c[k], p)
  BY <1>6, <1>7
<1>10. ASSUME NEW p \in kept PROVE \E k \in 1 .. Len(c) : Suggested(c[k], p)
  <2> DEFINE k == Rank(sc, kept, p) + 1
  <2>1. k \in 1 .. N /\ k - 1 = Rank(sc, kept, p)
    <3>1. k \in 1 .. N
      BY <1>4
    <3>2. ASSUME NEW r, r + 1 \in 1 .. N, r \in Int PROVE (r + 1) - 1 = r
      BY <3>2
    <3>3. Rank(sc, kept, p) \in Int
      <4>1. { q \in kept : Map!Better(sc, q, p) } \in SUBSET Map!Pairs
        BY <1>2
      <4> QED BY <4>1, SuggestionsAreFinite, SameCardinality DEF Rank
    <3> QED BY <3>1, <3>2, <3>3
  <2> HIDE DEF k
  <2>2. R(k) = p
    BY <1>4, <1>5, <2>1
  <2> QED BY <1>6, <1>7, <2>1, <2>2
<1>11. ASSUME NEW k \in 1 .. N, NEW l \in 1 .. N, c[k].to = c[l].to PROVE k = l
  <2>1. R(k) \in kept /\ R(l) \in kept /\ R(k) \in Map!Pairs /\ R(l) \in Map!Pairs
    BY <1>2, <1>5
  <2>2. <<TargetFields[R(k)[2]]>> = <<TargetFields[R(l)[2]]>>
    BY <1>6, <1>7, <1>11 DEF Suggested
  <2>3. Map!Names(R(k))[2] = Map!Names(R(l))[2]
    BY <2>1, <2>2, ScoresAreInts
  <2>4. ASSUME R(k) # R(l) PROVE FALSE
    <3>1. /\ \A p \in kept : p \in Map!HeuristicMap(sc, 5)
      BY DEF kept, Kept
    <3>2. Map!Better(sc, R(k), R(l)) /\ Map!Better(sc, R(l), R(k))
      BY <2>1, <2>3, <2>4, <3>1 DEF Map!HeuristicMap
    <3> QED BY <2>1, <3>2, BetterIsOrder
  <2>5. k - 1 = l - 1
    BY <1>5, <2>4
  <2> QED BY <2>5
<1> QED BY <1>7, <1>8, <1>9, <1>10, <1>11 DEF kept

(***************************************************************************)
(* A field                                                                 *)
(***************************************************************************)
LEMMA FieldApplied ==
  ASSUME NEW c, ConfigOK(c), NEW i \in 1 .. Len(c), NEW h, HeapOK(c, h, i - 1), Free(c, i - 1, c[i].to),
         Map!Written(c[i]), NEW g, g = Map!Set(h, "res", i, c[i].to, Result(c[i]))
  PROVE  /\ HeapOK(c, g, i)
         /\ Map!Get(g, "res", c[i].to) = Result(c[i])
         /\ \A other \in Seq(STRING) :
              Free(c, i - 1, other) /\ ~Map!IsPrefix(c[i].to, other) /\ ~Map!IsPrefix(other, c[i].to)
                => Map!Get(g, "res", other) = Map!Get(h, "res", other)
         /\ \A key \in DOMAIN g["res"] : key \in DOMAIN h["res"] \/ key = c[i].to[1]
<1> DEFINE v == Result(c[i])
<1>1. PICK d, at : IsSet(c, h, g, i, v, d, at)
  BY SetFacts
<1>2. v \in Map!Kinds \/ (v \in DOMAIN Source /\ CopyAt(c, i, c[i].to))
  <2>1. c[i] \in Map!Fields /\ i \in 1 .. i
    BY ConfigFacts
  <2> QED BY <2>1, ResultType DEF CopyAt
<1> HIDE DEF v
<1>3. HeapOK(c, g, i)
  BY <1>1, <1>2, HeapExtended
<1>4. Map!Get(g, "res", c[i].to) = v
  BY <1>1, <1>3, GetSame
<1>5. ASSUME NEW other \in Seq(STRING), Free(c, i - 1, other),
             ~Map!IsPrefix(c[i].to, other), ~Map!IsPrefix(other, c[i].to)
      PROVE  Map!Get(g, "res", other) = Map!Get(h, "res", other)
  BY <1>1, <1>3, <1>5, GetOther
<1>6. \A key \in DOMAIN g["res"] : key \in DOMAIN h["res"] \/ key = c[i].to[1]
  BY <1>1, ResKeys
<1> QED BY <1>3, <1>4, <1>5, <1>6 DEF v

(* Nothing is below a name that the root does not have. *)
LEMMA GetNothing ==
  ASSUME NEW h, NEW root, NEW path \in Seq(STRING), Len(path) \in Nat \ {0},
         DOMAIN h \cap Map!Kinds = {}, path[1] \notin DOMAIN h[root]
  PROVE  Map!Get(h, root, path) = "undefined"
<1> DEFINE V(n) == Map!Get(h, root, Map!Upto(path, n))
           S == { n \in 0 .. Len(path) - 1 : V(n + 1) = "undefined" }
<1>1. /\ V(0) = root /\ \A n \in 1 .. Len(path) : V(n) = Down(h, V(n - 1), path[n])
      /\ V(Len(path)) = Map!Get(h, root, path)
  <2>1. Stepwise(h, root, path)
    BY GetSteps
  <2> QED BY <2>1 DEF Stepwise
<1> HIDE DEF V
<1>2. "undefined" \notin DOMAIN h
  BY DEF Map!Kinds
<1>3. 0 \in S
  <2>1. V(1) = Down(h, V(1 - 1), path[1])
    BY <1>1
  <2>2. V(1) = "undefined"
    BY <1>1, <2>1 DEF Down
  <2> QED BY <2>2
<1>4. ASSUME NEW n \in 0 .. Len(path) - 1 - 1, n \in S PROVE n + 1 \in S
  <2>1. n + 1 + 1 \in 1 .. Len(path) /\ n + 1 + 1 - 1 = n + 1 /\ n + 1 \in 0 .. Len(path) - 1
    OBVIOUS
  <2>2. V(n + 1 + 1) = Down(h, V(n + 1 + 1 - 1), path[n + 1 + 1])
    BY <1>1, <2>1
  <2>3. V(n + 1 + 1) = "undefined"
    BY <1>2, <1>4, <2>1, <2>2 DEF Down
  <2> QED BY <2>1, <2>3
<1>5. Len(path) - 1 \in S
  <2> HIDE DEF S
  <2>1. Len(path) - 1 \in Nat
    OBVIOUS
  <2>2. \A n \in 0 .. Len(path) - 1 : n \in S
    BY <1>3, <1>4, <2>1, Induct
  <2> QED BY <2>1, <2>2
<1>6. Len(path) - 1 + 1 = Len(path)
  OBVIOUS
<1> QED BY <1>1, <1>5, <1>6

LEMMA FreeOfAliases ==
  ASSUME ConfigOK(config), ~Map!Aliases, NEW i \in 1 .. Len(config)
  PROVE  Free(config, i - 1, config[i].to)
<1> SUFFICES ASSUME NEW n \in 1 .. Len(config[i].to) - 1, CopyAt(config, i - 1, Map!Upto(config[i].to, n))
             PROVE  FALSE
  BY DEF Free
<1>1. PICK j \in 1 .. i - 1 : /\ config[j].to = Map!Upto(config[i].to, n) /\ config[j].rule \in Map!Copying
                              /\ Map!Get(Source, "src", config[j].from) \in DOMAIN Source
  BY DEF CopyAt
<1>2. /\ config[i].to \in Seq(STRING) /\ Len(config[i].to) \in Nat \ {0} /\ DOMAIN config = 1 .. Len(config)
      /\ j \in 1 .. Len(config) /\ i \in Nat /\ n \in 0 .. Len(config[i].to)
  <2>1. config[i].to \in Seq(STRING) /\ Len(config[i].to) \in Nat \ {0}
    BY ConfigFacts
  <2>2. DOMAIN config = 1 .. Len(config) /\ Len(config) \in Nat
    BY DEF ConfigOK
  <2> QED BY <2>1, <2>2
<1>3. config[j].to \in Seq(STRING)
  BY <1>2, ConfigFacts
<1>4. Len(config[j].to) = n
  BY <1>1, <1>2, PathFacts
<1>5. Map!IsPrefix(config[j].to, config[i].to) /\ config[j].to # config[i].to
  <2>1. Map!IsPrefix(config[j].to, config[i].to)
    BY <1>1, <1>2, <1>3, PrefixFacts
  <2>2. n # Len(config[i].to)
    BY <1>2
  <2> QED BY <1>4, <2>1, <2>2
<1> QED BY <1>1, <1>2, <1>5 DEF Map!Aliases, Map!IsStrictPrefix, Map!IsObject

LEMMA FreeOfClashes ==
  ASSUME ConfigOK(config), ~Map!Clashes, NEW i \in 1 .. Len(config), NEW D \in 0 .. Len(config)
  PROVE  Free(config, D, config[i].to)
<1> SUFFICES ASSUME NEW n \in 1 .. Len(config[i].to) - 1, CopyAt(config, D, Map!Upto(config[i].to, n))
             PROVE  FALSE
  BY DEF Free
<1>1. PICK j \in 1 .. D : config[j].to = Map!Upto(config[i].to, n)
  BY DEF CopyAt
<1>2. /\ config[i].to \in Seq(STRING) /\ Len(config[i].to) \in Nat \ {0} /\ DOMAIN config = 1 .. Len(config)
      /\ j \in 1 .. Len(config) /\ n \in 0 .. Len(config[i].to)
  BY ConfigFacts DEF ConfigOK
<1>3. config[j].to \in Seq(STRING)
  BY <1>2, ConfigFacts
<1>4. Len(config[j].to) = n
  BY <1>1, <1>2, PathFacts
<1>5. Map!IsPrefix(config[j].to, config[i].to) /\ j # i
  BY <1>1, <1>2, <1>3, <1>4, PrefixFacts
<1> QED BY <1>2, <1>5 DEF Map!Clashes

LEMMA AliasesClash == ConfigOK(config) /\ Map!Aliases => Map!Clashes
<1> SUFFICES ASSUME ConfigOK(config), Map!Aliases PROVE Map!Clashes
  OBVIOUS
<1>1. DOMAIN config = 1 .. Len(config)
  BY DEF ConfigOK
<1>2. PICK i, j \in DOMAIN config : i < j /\ Map!IsPrefix(config[i].to, config[j].to)
  BY DEF Map!Aliases, Map!IsStrictPrefix
<1>3. i # j
  BY <1>1, <1>2
<1> QED BY <1>2, <1>3 DEF Map!Clashes

(***************************************************************************)
(* The invariant of applyMapping                                           *)
(***************************************************************************)
MapType ==
  /\ ConfigOK(config) /\ done \in 0 .. Len(config)
  /\ outcome \in {"running", "returned", "thrown"}
  /\ outcome = "returned" => done = Len(config)

Chosen ==
  DOMAIN score # {} =>
    IsScore(score) /\ config = Map!SuggestionsToMappings(score, Map!HeuristicMap(score, 5), 6)

Fails(f) ==
  \/ Map!Value(Source, f) = "undefined" /\ f.need = "required"
  \/ Map!Value(Source, f) # "undefined" /\ Map!Throws(f.rule, Map!Value(Source, f))

(* When nothing is written below a copied object, the heap is the record and *)
(* a tree, and the errors are those of the fields that are passed.           *)
Unaliased ==
  ~Map!Aliases => /\ HeapOK(config, heap, done)
                  /\ errors = { config[i] : i \in { j \in 1 .. done : Fails(config[j]) } }
                  /\ outcome # "thrown"

(* When targets do not clash, each field that is passed has put its value.   *)
Unclashed ==
  ~Map!Clashes =>
    /\ \A i \in 1 .. Len(config) :
         Map!Get(heap, "res", config[i].to) =
           IF i <= done /\ Map!Written(config[i]) THEN Result(config[i]) ELSE "undefined"
    /\ \A key \in DOMAIN heap["res"] : \E i \in 1 .. done : Map!Written(config[i]) /\ config[i].to[1] = key

MapInv == MapType /\ Chosen /\ Unaliased /\ Unclashed

LEMMA MapStarts == Map!Init => MapInv
<1> SUFFICES ASSUME Map!Init PROVE MapInv
  OBVIOUS
<1>0. heap = Map!With(Source, "res", <<>>) /\ done = 0 /\ errors = {} /\ outcome = "running"
  BY DEF Map!Init
<1>1. ConfigOK(config) /\ Chosen
  <2>1. CASE score = <<>> /\ config \in Configs
    <3>1. config \in Seq(Map!Fields) /\ DOMAIN config = 1 .. Len(config)
      BY <2>1, FieldsAssumption
    <3>2. ASSUME NEW i \in 1 .. Len(config), NEW n \in 1 .. Len(config[i].to) - 1 PROVE <<i, n>> \in DOMAIN New
      BY <2>1, <3>1, NewAssumption
    <3> QED BY <2>1, <3>1, <3>2 DEF ConfigOK, Chosen
  <2>2. CASE IsScore(score) /\ config = Map!SuggestionsToMappings(score, Map!HeuristicMap(score, 5), 6)
    <3>1. ConfigOK(config)
      BY <2>2, HeuristicConfig
    <3> QED BY <2>2, <3>1 DEF Chosen
  <2> QED BY <2>1, <2>2 DEF Map!Init, IsScore
<1>2. MapType
  <2>1. Len(config) \in Nat
    BY <1>1 DEF ConfigOK
  <2> QED BY <1>0, <1>1, <2>1 DEF MapType
<1>3. /\ DOMAIN heap = DOMAIN Source \cup {"res"} /\ "res" \notin DOMAIN Source
      /\ \A o \in DOMAIN Source : heap[o] = Source[o]
      /\ heap["res"] = <<>> /\ DOMAIN heap["res"] = {}
  BY <1>0, SourceAssumption DEF Map!With
<1>4. HeapOK(config, heap, 0)
  BY <1>3 DEF HeapOK, Ours
<1>5. Unaliased
  BY <1>0, <1>4 DEF Unaliased
<1>6. Unclashed
  <2>1. ASSUME NEW i \in 1 .. Len(config) PROVE Map!Get(heap, "res", config[i].to) = "undefined"
    <3>1. config[i].to \in Seq(STRING) /\ Len(config[i].to) \in Nat \ {0}
      BY <1>1, ConfigFacts
    <3>2. DOMAIN heap \cap Map!Kinds = {}
      BY <1>4, HeapApart
    <3> QED BY <1>3, <3>1, <3>2, GetNothing
  <2>2. \A i \in 1 .. Len(config) : ~(i <= 0)
    OBVIOUS
  <2> QED BY <1>0, <1>3, <2>1, <2>2 DEF Unclashed
<1> QED BY <1>1, <1>2, <1>5, <1>6 DEF MapInv

(* The transforms' results and errors, as the loop takes them.               *)
LEMMA FieldPassed ==
  ASSUME MapInv, Map!Loop, ~Map!Aliases
  PROVE  LET i == done + 1
         IN  /\ i \in 1 .. Len(config) /\ HeapOK(config, heap, i - 1)
             /\ IF Map!Written(config[i])
                  THEN heap' = Map!Set(heap, "res", i, config[i].to, Result(config[i]))
                  ELSE heap' = heap
             /\ errors' = { config[k] : k \in { j \in 1 .. i : Fails(config[j]) } }
<1> DEFINE i == done + 1
           f == config[i]
           w == Map!Value(Source, f)
<1>1. i \in 1 .. Len(config) /\ i - 1 = done /\ ConfigOK(config) /\ done \in Nat
  BY DEF MapInv, MapType, Map!Loop, ConfigOK
<1>2. HeapOK(config, heap, i - 1) /\ errors = { config[k] : k \in { j \in 1 .. done : Fails(config[j]) } }
  BY <1>1 DEF MapInv, Unaliased
<1>3. Map!Value(heap, f) = w
  <2>1. f \in Map!Fields
    BY <1>1, ConfigFacts
  <2>2. DOMAIN heap \cap Map!Kinds = {}
    BY <1>2, HeapApart
  <2>3. DOMAIN Source \subseteq DOMAIN heap /\ \A o \in DOMAIN Source : heap[o] = Source[o]
    BY <1>2 DEF HeapOK
  <2> HIDE DEF f
  <2> QED BY <2>1, <2>2, <2>3, ValueKept
<1>4. \/ w = "undefined" /\ heap' = heap
         /\ errors' = IF f.need = "required" THEN errors \cup {f} ELSE errors
      \/ w # "undefined" /\ Map!Throws(f.rule, w) /\ errors' = errors \cup {f} /\ heap' = heap
      \/ w # "undefined" /\ ~Map!Throws(f.rule, w) /\ errors' = errors
         /\ heap' = Map!Set(heap, "res", i, f.to, Map!Transform(f.rule, w))
  <2>1. Map!ApplyField(i)
    BY DEF Map!Loop
  <2> QED BY <1>3, <2>1 DEF Map!ApplyField
<1>5. errors' = IF Fails(f) THEN errors \cup {f} ELSE errors
  BY <1>4 DEF Fails
<1>6. IF Map!Written(f) THEN heap' = Map!Set(heap, "res", i, f.to, Result(f)) ELSE heap' = heap
  BY <1>4 DEF Map!Written, Result
<1>7. \A j : j \in 1 .. i <=> j \in 1 .. done \/ j = i
  BY <1>1
<1>8. errors' = { config[k] : k \in { j \in 1 .. i : Fails(config[j]) } }
  <2> HIDE DEF i
  <2> QED BY <1>2, <1>5, <1>7
<1> QED BY <1>1, <1>2, <1>6, <1>8

LEMMA LoopKeeps ==
  ASSUME MapInv, Map!Loop
  PROVE  MapInv'
<1> DEFINE i == done + 1
           f == config[i]
<1>1. /\ config' = config /\ score' = score /\ done' = i /\ outcome' = outcome /\ outcome = "running"
      /\ i \in 1 .. Len(config) /\ i - 1 = done /\ ConfigOK(config) /\ done \in Nat /\ Len(config) \in Nat
  BY DEF MapInv, MapType, Map!Loop, ConfigOK
<1>2. MapType' /\ Chosen'
  <2>1. Chosen'
    BY <1>1 DEF MapInv, Chosen
  <2>2. ConfigOK(config)'
    BY <1>1 DEF ConfigOK
  <2>3. done' \in 0 .. Len(config') /\ outcome' = "running"
    BY <1>1
  <2>4. outcome' \in {"running", "returned", "thrown"} /\ outcome' # "returned"
    BY <2>3
  <2> QED BY <2>1, <2>2, <2>3, <2>4 DEF MapType
<1>3. ASSUME ~Map!Aliases
      PROVE  /\ HeapOK(config, heap, i - 1) /\ HeapOK(config, heap', i)
             /\ errors' = { config[k] : k \in { j \in 1 .. i : Fails(config[j]) } }
             /\ IF Map!Written(f) THEN heap' = Map!Set(heap, "res", i, f.to, Result(f)) ELSE heap' = heap
             /\ Free(config, i - 1, f.to)
  <2>1. /\ HeapOK(config, heap, i - 1)
        /\ IF Map!Written(f) THEN heap' = Map!Set(heap, "res", i, f.to, Result(f)) ELSE heap' = heap
        /\ errors' = { config[k] : k \in { j \in 1 .. i : Fails(config[j]) } }
    BY <1>3, FieldPassed
  <2>2. Free(config, i - 1, f.to)
    BY <1>1, <1>3, FreeOfAliases
  <2>3. CASE Map!Written(f)
    BY <1>1, <2>1, <2>2, <2>3, FieldApplied
  <2>4. CASE ~Map!Written(f)
    <3>1. i \in Nat \ {0}
      BY <1>1
    <3> HIDE DEF i
    <3>2. HeapOK(config, heap, i)
      BY <2>1, <3>1, HeapSkipped
    <3> QED BY <2>1, <2>2, <2>4, <3>2
  <2> QED BY <2>1, <2>2, <2>3, <2>4
<1> HIDE DEF f
<1>4. Unaliased'
  <2>1. Map!Aliases' = Map!Aliases
    BY <1>1 DEF Map!Aliases
  <2> QED BY <1>1, <1>3, <2>1 DEF Unaliased
<1>5. Unclashed'
  <2> SUFFICES ASSUME ~Map!Clashes
               PROVE  /\ \A k \in 1 .. Len(config) :
                           Map!Get(heap', "res", config[k].to) =
                             IF k <= i /\ Map!Written(config[k]) THEN Result(config[k]) ELSE "undefined"
                      /\ \A key \in DOMAIN heap'["res"] :
                           \E k \in 1 .. i : Map!Written(config[k]) /\ config[k].to[1] = key
    BY <1>1 DEF Unclashed, Map!Clashes, Map!Written, Result
  <2>1. ~Map!Aliases
    BY <1>1, AliasesClash
  <2>2. /\ \A k \in 1 .. Len(config) :
             Map!Get(heap, "res", config[k].to) =
               IF k <= done /\ Map!Written(config[k]) THEN Result(config[k]) ELSE "undefined"
        /\ \A key \in DOMAIN heap["res"] : \E k \in 1 .. done : Map!Written(config[k]) /\ config[k].to[1] = key
    BY DEF MapInv, Unclashed
  <2>3. \A k \in 1 .. Len(config) : k # i => (k <= i <=> k <= done)
    BY <1>1
  <2>4. i <= i /\ ~(i <= done) /\ i \in 1 .. i /\ 1 .. done \subseteq 1 .. i
    BY <1>1
  <2> HIDE DEF i
  <2>5. CASE ~Map!Written(f)
    <3>1. heap' = heap
      BY <1>3, <2>1, <2>5
    <3>2. ~Map!Written(config[i])
      BY <2>5 DEF f
    <3> QED BY <2>2, <2>3, <2>4, <3>1, <3>2
  <2>6. CASE Map!Written(f)
    <3>1. /\ Map!Get(heap', "res", f.to) = Result(f)
          /\ \A other \in Seq(STRING) :
               Free(config, i - 1, other) /\ ~Map!IsPrefix(f.to, other) /\ ~Map!IsPrefix(other, f.to)
                 => Map!Get(heap', "res", other) = Map!Get(heap, "res", other)
          /\ \A key \in DOMAIN heap'["res"] : key \in DOMAIN heap["res"] \/ key = f.to[1]
      <4>1. /\ HeapOK(config, heap, i - 1) /\ Free(config, i - 1, config[i].to) /\ Map!Written(config[i])
            /\ heap' = Map!Set(heap, "res", i, config[i].to, Result(config[i]))
        BY <1>3, <2>1, <2>6 DEF f
      <4> HIDE DEF f
      <4>2. /\ Map!Get(heap', "res", config[i].to) = Result(config[i])
            /\ \A other \in Seq(STRING) :
                 Free(config, i - 1, other) /\ ~Map!IsPrefix(config[i].to, other) /\ ~Map!IsPrefix(other, config[i].to)
                   => Map!Get(heap', "res", other) = Map!Get(heap, "res", other)
            /\ \A key \in DOMAIN heap'["res"] : key \in DOMAIN heap["res"] \/ key = config[i].to[1]
        BY <1>1, <4>1, FieldApplied
      <4> QED BY <4>2 DEF f
    <3>2. ASSUME NEW k \in 1 .. Len(config)
          PROVE  Map!Get(heap', "res", config[k].to) =
                   IF k <= i /\ Map!Written(config[k]) THEN Result(config[k]) ELSE "undefined"
      <4>1. CASE k = i
        BY <2>4, <2>6, <3>1, <4>1 DEF f
      <4>2. CASE k # i
        <5>1. config[k].to \in Seq(STRING) /\ DOMAIN config = 1 .. Len(config)
          BY <1>1, ConfigFacts DEF ConfigOK
        <5>2. i - 1 \in 0 .. Len(config)
          BY <1>1
        <5>3. Free(config, i - 1, config[k].to)
          BY <1>1, <5>2, FreeOfClashes
        <5>4. ~Map!IsPrefix(f.to, config[k].to) /\ ~Map!IsPrefix(config[k].to, f.to)
          BY <1>1, <4>2, <5>1 DEF Map!Clashes, f
        <5>5. Map!Get(heap', "res", config[k].to) = Map!Get(heap, "res", config[k].to)
          BY <3>1, <5>1, <5>3, <5>4
        <5> QED BY <2>2, <2>3, <4>2, <5>5
      <4> QED BY <4>1, <4>2
    <3>3. ASSUME NEW key \in DOMAIN heap'["res"]
          PROVE  \E k \in 1 .. i : Map!Written(config[k]) /\ config[k].to[1] = key
      <4>1. CASE key \in DOMAIN heap["res"]
        BY <2>2, <2>4, <4>1
      <4>2. CASE key = f.to[1]
        BY <2>4, <2>6, <4>2 DEF f
      <4> QED BY <3>1, <4>1, <4>2
    <3> QED BY <3>2, <3>3
  <2> QED BY <2>5, <2>6
<1> QED BY <1>2, <1>4, <1>5 DEF MapInv

LEMMA ReturnKeeps ==
  ASSUME MapInv, Map!Return
  PROVE  MapInv'
<1>1. /\ config' = config /\ score' = score /\ done' = done /\ heap' = heap /\ errors' = errors
      /\ done = Len(config) /\ outcome' = IF Map!Endless(heap) THEN "thrown" ELSE "returned"
  BY DEF Map!Return
<1>2. ASSUME ~Map!Aliases PROVE ~Map!Endless(heap)
  <2>1. HeapOK(config, heap, done)
    BY <1>2 DEF MapInv, Unaliased
  <2>2. DOMAIN heap \cap Map!Kinds = {}
    BY <2>1, HeapApart
  <2> QED BY <2>1, <2>2, RecordEnds DEF HeapOK
<1>3. MapType' /\ Chosen' /\ Unclashed'
  BY <1>1 DEF MapInv, MapType, Chosen, Unclashed, ConfigOK, Map!Clashes, Map!Written, Result
<1>4. Unaliased'
  <2>1. Map!Aliases' = Map!Aliases
    BY <1>1 DEF Map!Aliases
  <2> QED BY <1>1, <1>2, <2>1 DEF MapInv, Unaliased
<1> QED BY <1>3, <1>4 DEF MapInv

LEMMA MappingStep == MapInv /\ [Map!Next]_mapping => MapInv'
<1> SUFFICES ASSUME MapInv, [Map!Next]_mapping PROVE MapInv'
  OBVIOUS
<1>1. CASE Map!Loop
  BY <1>1, LoopKeeps
<1>2. CASE Map!Return
  BY <1>2, ReturnKeeps
<1>3. CASE UNCHANGED mapping
  BY <1>3 DEF mapping, MapInv, MapType, Chosen, Unaliased, Unclashed, ConfigOK, Map!Aliases, Map!Clashes, Map!Written, Result
<1> QED BY <1>1, <1>2, <1>3 DEF Map!Next

(* Side by side, the parts do what they do alone. *)
THEOREM PartsRunAlone == LibrarySpec => Spec /\ Map!Spec
<1>1. LibraryInit => Init /\ Map!Init
  BY DEF LibraryInit, NoMapping
<1>2. [LibraryNext]_<<part, vars, mapping, documents>> => [Next]_vars /\ [Map!Next]_mapping
  BY DEF LibraryNext
<1>3. mapping = Map!vars
  BY DEF mapping, Map!vars
<1>4. Spec <=> Init /\ [][Next]_vars
  BY DEF Spec
<1>5. [Map!Next]_mapping <=> [Map!Next]_(Map!vars)
  BY DEF mapping, Map!vars
<1> QED BY <1>1, <1>2, <1>5, PTL DEF LibrarySpec, Spec, Map!Spec

LEMMA MapInvariant == LibrarySpec => []MapInv
<1>1. LibraryInit => MapInv
  BY MapStarts DEF LibraryInit, NoMapping
<1>2. MapInv /\ [LibraryNext]_<<part, vars, mapping, documents>> => MapInv'
  <2>1. [LibraryNext]_<<part, vars, mapping, documents>> => [Map!Next]_mapping
    BY DEF LibraryNext
  <2> QED BY <2>1, MappingStep
<1> QED BY <1>1, <1>2, PTL DEF LibrarySpec

(* For every record and configuration, applyMapping writes to the record,    *)
(* and fails to return, only when a field writes below what another copied.  *)
THEOREM SourceIsKept == LibrarySpec => []SourceKept
<1>1. MapInv => SourceKept
  BY DEF MapInv, Unaliased, HeapOK, SourceKept, Map!SourceKept
<1> QED BY <1>1, MapInvariant, PTL

(* For every record and configuration whose targets do not clash,            *)
(* applyMapping gives each target its value and adds nothing of another name.*)
THEOREM MappingIsAsConfigured == LibrarySpec => []MappedAsConfigured
<1>1. MapInv => MappedAsConfigured
  <2> SUFFICES ASSUME MapInv, outcome = "returned", ~Map!Clashes
               PROVE  /\ \A i \in DOMAIN config :
                           Map!Get(heap, "res", config[i].to) =
                             IF Map!Written(config[i]) THEN Result(config[i]) ELSE "undefined"
                      /\ \A key \in DOMAIN heap["res"] :
                           \E i \in DOMAIN config : Map!Written(config[i]) /\ config[i].to[1] = key
                      /\ errors = {} <=>
                           \A i \in DOMAIN config :
                             \/ Map!Written(config[i])
                             \/ Map!Value(Source, config[i]) = "undefined" /\ config[i].need # "required"
    BY DEF MappedAsConfigured, Map!MappedAsConfigured, Result
  <2>1. ConfigOK(config) /\ DOMAIN config = 1 .. Len(config) /\ done = Len(config) /\ Len(config) \in Nat
    BY DEF MapInv, MapType, ConfigOK
  <2>2. ~Map!Aliases
    BY <2>1, AliasesClash
  <2>3. errors = { config[i] : i \in { j \in 1 .. done : Fails(config[j]) } }
    BY <2>2 DEF MapInv, Unaliased
  <2>4. /\ \A i \in 1 .. Len(config) :
             Map!Get(heap, "res", config[i].to) =
               IF i <= done /\ Map!Written(config[i]) THEN Result(config[i]) ELSE "undefined"
        /\ \A key \in DOMAIN heap["res"] : \E i \in 1 .. done : Map!Written(config[i]) /\ config[i].to[1] = key
    BY DEF MapInv, Unclashed
  <2>5. \A i \in 1 .. Len(config) : i <= done
    BY <2>1
  <2>6. \A i : ~Fails(config[i]) <=>
           \/ Map!Written(config[i])
           \/ Map!Value(Source, config[i]) = "undefined" /\ config[i].need # "required"
    BY DEF Fails, Map!Written
  <2>7. errors = {} <=> \A i \in DOMAIN config : ~Fails(config[i])
    BY <2>1, <2>3
  <2> QED BY <2>1, <2>4, <2>5, <2>6, <2>7
<1> QED BY <1>1, MapInvariant, PTL

(* The pair that wins a target. *)
LEMMA BestPair ==
  ASSUME NEW sc, IsScore(sc), NEW t \in Map!ToSet(TargetFields), SourceFields # <<>>,
         NEW best, best = CHOOSE i \in DOMAIN SourceFields : \A j \in DOMAIN SourceFields :
                            \/ sc[<<SourceFields[j], t>>] < sc[<<SourceFields[i], t>>]
                            \/ sc[<<SourceFields[j], t>>] = sc[<<SourceFields[i], t>>] /\ i <= j
  PROVE  \E p \in Map!Pairs :
           /\ p[1] = best /\ Map!Names(p) = <<SourceFields[best], t>>
           /\ \A q \in Map!Pairs \ {p} : Map!Names(q)[2] = t => Map!Better(sc, p, q)
<1> DEFINE K == { p \in Map!Pairs : Map!Names(p)[2] = t }
           like(i) == sc[<<SourceFields[i], t>>]
           IsBest(i) == \A j \in DOMAIN SourceFields : like(j) < like(i) \/ (like(j) = like(i) /\ i <= j)
<1>1. /\ SourceFields \in Seq(STRING) /\ TargetFields \in Seq(STRING)
      /\ DOMAIN SourceFields = 1 .. Len(SourceFields) /\ DOMAIN TargetFields = 1 .. Len(TargetFields)
      /\ Len(SourceFields) \in Nat \ {0}
  BY FieldsAssumption
<1>2. PICK m \in 1 .. Len(TargetFields) : TargetFields[m] = t
  BY <1>1 DEF Map!ToSet
<1>3. <<1, m>> \in K
  BY <1>1, <1>2 DEF Map!Pairs, Map!Names
<1>4. K \in SUBSET Map!Pairs
  OBVIOUS
<1> HIDE DEF K
<1>5. PICK p \in K : Rank(sc, K, p) = 0
  <2>1. /\ \A p \in K : Rank(sc, K, p) + 1 \in 1 .. Map!Cardinality(K)
        /\ \A k \in 1 .. Map!Cardinality(K) : \E p \in K : Rank(sc, K, p) = k - 1
    BY <1>4, RankIsBijective
  <2>2. Map!Cardinality(K) \in Nat
    BY <1>4, SuggestionsAreFinite, SameCardinality
  <2>3. 1 \in 1 .. Map!Cardinality(K)
    BY <1>3, <2>1, <2>2
  <2> QED BY <2>1, <2>3
<1>6. \A q \in K : ~Map!Better(sc, q, p)
  <2>1. { q \in K : Map!Better(sc, q, p) } \in SUBSET Map!Pairs
    BY <1>4
  <2>2. Cardinality({ q \in K : Map!Better(sc, q, p) }) = 0
    BY <1>5, SameCardinality DEF Rank
  <2>3. { q \in K : Map!Better(sc, q, p) } = {}
    BY <2>1, <2>2, SuggestionsAreFinite, FS_EmptySet
  <2> QED BY <2>3
<1>7. \A q \in K \ {p} : Map!Better(sc, p, q)
  BY <1>4, <1>6, BetterIsOrder
<1>8. /\ p \in Map!Pairs /\ p[1] \in 1 .. Len(SourceFields) /\ p[2] \in 1 .. Len(TargetFields)
      /\ Map!Names(p) = <<SourceFields[p[1]], t>> /\ TargetFields[p[2]] = t
  <2>1. p \in Map!Pairs /\ Map!Names(p)[2] = t
    BY <1>5 DEF K
  <2> QED BY <2>1, ScoresAreInts DEF Map!Names
<1>9. ASSUME NEW j \in DOMAIN SourceFields
      PROVE  like(j) \in Int /\ (like(j) < like(p[1]) \/ (like(j) = like(p[1]) /\ p[1] <= j))
  <2> DEFINE q == <<j, p[2]>>
  <2>1. q \in Map!Pairs /\ q[1] = j /\ q[2] = p[2] /\ Map!Names(q) = <<SourceFields[j], t>>
    BY <1>1, <1>8 DEF Map!Pairs, Map!Names
  <2>2. q \in K
    BY <2>1 DEF K
  <2>3. sc[Map!Names(q)] \in Int /\ sc[Map!Names(p)] \in Int /\ p[1] \in Nat /\ j \in Nat
    BY <1>1, <1>8, <2>1, ScoresAreInts
  <2>4. sc[Map!Names(q)] = like(j) /\ sc[Map!Names(p)] = like(p[1])
    BY <1>8, <2>1
  <2> HIDE DEF q, like
  <2>5. CASE q = p
    BY <2>1, <2>3, <2>4, <2>5
  <2>6. CASE q # p
    <3>1. Map!Better(sc, p, q)
      BY <1>7, <2>2, <2>6
    <3> QED BY <2>1, <2>3, <2>4, <3>1 DEF Map!Better, Map!Pushed
  <2> QED BY <2>5, <2>6
<1>10. best = CHOOSE i \in DOMAIN SourceFields : IsBest(i)
  OBVIOUS
<1> HIDE DEF like
<1>11. p[1] \in DOMAIN SourceFields /\ IsBest(p[1])
  BY <1>1, <1>8, <1>9
<1>12. best \in DOMAIN SourceFields /\ IsBest(best)
  <2> HIDE DEF IsBest
  <2> QED BY <1>10, <1>11
<1>13. best = p[1]
  <2>0. DOMAIN SourceFields \subseteq Nat
    BY <1>1
  <2>1. best \in Nat /\ p[1] \in Nat
    BY <1>11, <1>12, <2>0
  <2>2. like(best) \in Int /\ like(p[1]) \in Int
    BY <1>9, <1>11, <1>12
  <2>3. like(p[1]) < like(best) \/ (like(p[1]) = like(best) /\ best <= p[1])
    BY <1>11, <1>12
  <2>4. like(best) < like(p[1]) \/ (like(best) = like(p[1]) /\ p[1] <= best)
    BY <1>11, <1>12
  <2> QED BY <2>1, <2>2, <2>3, <2>4
<1> QED BY <1>7, <1>8, <1>13 DEF K

LEMMA HeuristicsDoNotClash == MapInv /\ DOMAIN score # {} => ~Map!Clashes
<1> SUFFICES ASSUME MapInv, DOMAIN score # {}, Map!Clashes PROVE FALSE
  OBVIOUS
<1>1. /\ IsScore(score) /\ config = Map!SuggestionsToMappings(score, Map!HeuristicMap(score, 5), 6)
      /\ ConfigOK(config) /\ DOMAIN config = 1 .. Len(config)
  BY DEF MapInv, MapType, Chosen, ConfigOK
<1>2. PICK i, j \in 1 .. Len(config) : i # j /\ Map!IsPrefix(config[i].to, config[j].to)
  BY <1>1 DEF Map!Clashes
<1>3. \A k \in 1 .. Len(config) : Len(config[k].to) = 1 /\ config[k].to \in Seq(STRING)
  <2> SUFFICES ASSUME NEW k \in 1 .. Len(config)
               PROVE  Len(config[k].to) = 1 /\ config[k].to \in Seq(STRING)
    OBVIOUS
  <2>1. \A l \in 1 .. Len(config) : \E p \in Kept(score) : Suggested(config[l], p)
    BY <1>1, HeuristicConfig
  <2>2. PICK p \in Kept(score) : Suggested(config[k], p)
    BY <2>1
  <2>3. config[k].to = <<TargetFields[p[2]]>>
    BY <2>2 DEF Suggested
  <2>4. config[k].to \in Seq(STRING)
    BY <1>1, ConfigFacts
  <2> QED BY <2>3, <2>4
<1>4. config[i].to = config[j].to
  <2>1. /\ config[i].to \in Seq(STRING) /\ config[j].to \in Seq(STRING)
        /\ Len(config[i].to) = 1 /\ Len(config[j].to) = 1
    BY <1>3
  <2>2. PICK n \in 0 .. Len(config[j].to) : config[i].to = Map!Upto(config[j].to, n)
    BY <1>2, <2>1, PrefixFacts
  <2>3. n = 1
    BY <2>1, <2>2, PathFacts
  <2>4. Map!Upto(config[j].to, Len(config[j].to)) = config[j].to
    BY <2>1 DEF Map!Upto
  <2> QED BY <2>1, <2>2, <2>3, <2>4
<1>5. i = j
  BY <1>1, <1>4, HeuristicConfig
<1> QED BY <1>2, <1>5

(* For all similarities, a target gets the value of the source that is most  *)
(* like it, if that is like enough.                                          *)
THEOREM BestSourcesWin == LibrarySpec => []BestSourceWins
<1>1. MapInv => BestSourceWins
  <2> DEFINE Chief(t) == CHOOSE i \in DOMAIN SourceFields : \A j \in DOMAIN SourceFields :
                           \/ score[<<SourceFields[j], t>>] < score[<<SourceFields[i], t>>]
                           \/ score[<<SourceFields[j], t>>] = score[<<SourceFields[i], t>>] /\ i <= j
             Source1(t) == Map!Get(Source, "src", <<SourceFields[Chief(t)]>>)
  <2> SUFFICES ASSUME MapInv, outcome = "returned", DOMAIN score # {}, NEW t \in Map!ToSet(TargetFields)
               PROVE  Map!Get(heap, "res", <<t>>) =
                        IF score[<<SourceFields[Chief(t)], t>>] < 6 \/ Source1(t) = "null"
                          THEN "undefined" ELSE Source1(t)
    BY DEF BestSourceWins, Map!BestSourceWins
  <2>1. /\ IsScore(score) /\ config = Map!SuggestionsToMappings(score, Map!HeuristicMap(score, 5), 6)
        /\ ConfigOK(config) /\ done = Len(config) /\ Len(config) \in Nat
    BY DEF MapInv, MapType, Chosen, ConfigOK
  <2>2. SourceFields # <<>>
    <3>1. Map!ToSet(SourceFields) # {}
      BY <2>1 DEF IsScore
    <3> QED BY <3>1 DEF Map!ToSet
  <2>3. PICK p \in Map!Pairs :
          /\ p[1] = Chief(t) /\ Map!Names(p) = <<SourceFields[Chief(t)], t>>
          /\ \A q \in Map!Pairs \ {p} : Map!Names(q)[2] = t => Map!Better(score, p, q)
    <3> DEFINE best == Chief(t)
    <3>1. best = CHOOSE i \in DOMAIN SourceFields : \A j \in DOMAIN SourceFields :
                   \/ score[<<SourceFields[j], t>>] < score[<<SourceFields[i], t>>]
                   \/ score[<<SourceFields[j], t>>] = score[<<SourceFields[i], t>>] /\ i <= j
      OBVIOUS
    <3> HIDE DEF best
    <3>2. \E p \in Map!Pairs :
            /\ p[1] = best /\ Map!Names(p) = <<SourceFields[best], t>>
            /\ \A q \in Map!Pairs \ {p} : Map!Names(q)[2] = t => Map!Better(score, p, q)
      BY <2>1, <2>2, <3>1, BestPair
    <3> QED BY <3>2 DEF best
  <2> DEFINE v == Map!Get(Source, "src", <<SourceFields[p[1]]>>)
             s == score[Map!Names(p)]
  <2>4. /\ s \in Int /\ TargetFields[p[2]] = t /\ t \in STRING
        /\ s = score[<<SourceFields[Chief(t)], t>>] /\ v = Source1(t)
    <3> HIDE DEF Chief
    <3>1. /\ score[Map!Names(p)] \in Int /\ Map!Names(p)[2] = TargetFields[p[2]]
          /\ TargetFields[p[2]] \in STRING
      BY <2>1, ScoresAreInts
    <3>2. Map!Names(p)[2] = t
      BY <2>3
    <3> QED BY <2>3, <3>1, <3>2
  <2>5. ~Map!Clashes
    BY <2>1, HeuristicsDoNotClash
  <2>6. /\ \A i \in 1 .. Len(config) :
             Map!Get(heap, "res", config[i].to) =
               IF i <= done /\ Map!Written(config[i]) THEN Result(config[i]) ELSE "undefined"
        /\ \A key \in DOMAIN heap["res"] : \E i \in 1 .. done : Map!Written(config[i]) /\ config[i].to[1] = key
    BY <2>5 DEF MapInv, Unclashed
  <2> HIDE DEF v, s, Chief, Source1
  <2>7. CASE s >= 6
    <3>1. p \in Kept(score)
      BY <2>3, <2>4, <2>7 DEF Kept, Map!HeuristicMap, s
    <3>2. PICK k \in 1 .. Len(config) : Suggested(config[k], p)
      BY <2>1, <3>1, HeuristicConfig
    <3>3. /\ config[k].to = <<t>> /\ config[k].from = <<SourceFields[p[1]]>>
          /\ config[k].rule = "direct" /\ config[k].need \in {"required", "optional"} /\ k <= done
      BY <2>1, <2>4, <3>2 DEF Suggested
    <3>4. Map!Value(Source, config[k]) = IF v \in {"undefined", "null"} THEN "undefined" ELSE v
      BY <3>3 DEF Map!Value, v
    <3>5. \A x : ~Map!Throws("direct", x) /\ Map!Transform("direct", x) = x
      BY DEF Map!Throws, Map!Transform, Map!Copying, Map!TextRules, Map!NumberRules
    <3>6. Map!Written(config[k]) <=> v \notin {"undefined", "null"}
      BY <3>3, <3>4, <3>5 DEF Map!Written
    <3>7. v \notin {"undefined", "null"} => Result(config[k]) = v
      BY <3>3, <3>4, <3>5 DEF Result
    <3>8. Map!Get(heap, "res", <<t>>) = IF v = "null" THEN "undefined" ELSE v
      BY <2>6, <3>3, <3>6, <3>7
    <3> QED BY <2>4, <2>7, <3>8
  <2>8. CASE s < 6
    <3>1. ASSUME NEW i \in 1 .. Len(config) PROVE config[i].to[1] # t
      <4> SUFFICES ASSUME config[i].to[1] = t PROVE FALSE
        OBVIOUS
      <4>1. PICK q \in Kept(score) : Suggested(config[i], q)
        BY <2>1, HeuristicConfig
      <4>2. q \in Map!Pairs /\ score[Map!Names(q)] >= 6 /\ TargetFields[q[2]] = t
        BY <4>1 DEF Kept, Map!HeuristicMap, Suggested
      <4>3. Map!Names(q)[2] = t /\ score[Map!Names(q)] \in Int
        BY <2>1, <4>2, ScoresAreInts
      <4>4. CASE q = p
        BY <2>4, <2>8, <4>2, <4>4 DEF s
      <4>5. CASE q # p
        <5>1. Map!Better(score, p, q)
          BY <2>3, <4>2, <4>3, <4>5
        <5>2. s >= score[Map!Names(q)]
          BY <2>4, <4>3, <5>1 DEF Map!Better, s
        <5> QED BY <2>4, <2>8, <4>2, <4>3, <5>2
      <4> QED BY <4>4, <4>5
    <3>2. t \notin DOMAIN heap["res"]
      BY <2>1, <2>6, <3>1
    <3>3. <<t>> \in Seq(STRING) /\ Len(<<t>>) \in Nat \ {0} /\ <<t>>[1] = t
      BY <2>4
    <3>4. DOMAIN heap \cap Map!Kinds = {}
      <4>1. ~Map!Aliases
        BY <2>1, <2>5, AliasesClash
      <4>2. HeapOK(config, heap, done)
        BY <4>1 DEF MapInv, Unaliased
      <4> QED BY <4>2, HeapApart
    <3>5. Map!Get(heap, "res", <<t>>) = "undefined"
      BY <3>2, <3>3, <3>4, GetNothing
    <3> QED BY <2>4, <2>8, <3>5
  <2> QED BY <2>4, <2>7, <2>8
<1> QED BY <1>1, MapInvariant, PTL
(***************************************************************************)
(* Folds                                                                   *)
(***************************************************************************)
LEMMA SeqInduct ==
  ASSUME NEW C, NEW S, <<>> \in S,
         \A s \in Seq(C), x \in C : s \in S => Append(s, x) \in S
  PROVE  \A s \in Seq(C) : s \in S
<1> DEFINE T == { n \in Nat : \A s \in Seq(C) : Len(s) = n => s \in S }
<1>1. 0 \in T
  BY EmptySeq
<1>2. ASSUME NEW n \in Nat, n \in T PROVE n + 1 \in T
  <2>1. ASSUME NEW s \in Seq(C), Len(s) = n + 1 PROVE s \in S
    <3>1. PICK r \in Seq(C), x \in C : s = Append(r, x)
      BY <2>1, SequenceEmptyOrAppend, EmptySeq
    <3>2. Len(r) = n
      BY <2>1, <3>1, AppendProperties, LenProperties
    <3> QED BY <1>2, <3>1, <3>2
  <2> QED BY <2>1
<1>3. ASSUME NEW s \in Seq(C) PROVE s \in S
  <2>1. Len(s) \in Nat
    BY LenProperties
  <2>2. \A n \in 0 .. Len(s) - 1 : n \in T => n + 1 \in T
    BY <1>2, <2>1
  <2>3. Len(s) \in T
    <3> HIDE DEF T
    <3>1. \A n \in 0 .. Len(s) : n \in T
      BY <1>1, <2>1, <2>2, Induct
    <3> QED BY <2>1, <3>1
  <2> QED BY <2>3
<1> QED BY <1>3

(* The states of a fold of f along seq, from base. *)
IsRun(at, f, base, seq) ==
  /\ at[0] = base
  /\ \A n \in 1 .. Len(seq) : at[n] = f[<<at[n - 1], seq[n]>>]

LEMMA RunExists ==
  ASSUME NEW A, NEW B, NEW f \in [A \X B -> A], NEW base \in A, NEW seq \in Seq(B)
  PROVE  \E at \in [0 .. Len(seq) -> A] : IsRun(at, f, base, seq)
<1> DEFINE S == { k \in 0 .. Len(seq) :
                   \E at \in [0 .. k -> A] : at[0] = base /\ \A n \in 1 .. k : at[n] = f[<<at[n - 1], seq[n]>>] }
<1>1. 0 \in S
  <2> DEFINE at == [n \in 0 .. 0 |-> base]
  <2>1. at \in [0 .. 0 -> A] /\ at[0] = base /\ \A n \in 1 .. 0 : at[n] = f[<<at[n - 1], seq[n]>>]
    OBVIOUS
  <2>2. 0 \in 0 .. Len(seq)
    BY LenProperties
  <2> HIDE DEF at
  <2> QED BY <2>1, <2>2
<1>2. ASSUME NEW k \in 0 .. Len(seq) - 1, k \in S PROVE k + 1 \in S
  <2>1. PICK at \in [0 .. k -> A] : at[0] = base /\ \A n \in 1 .. k : at[n] = f[<<at[n - 1], seq[n]>>]
    BY <1>2
  <2>2. k \in Nat /\ k + 1 \in 0 .. Len(seq) /\ seq[k + 1] \in B
    BY LenProperties, ElementOfSeq
  <2> DEFINE bt == [n \in 0 .. k + 1 |-> IF n = k + 1 THEN f[<<at[k], seq[k + 1]>>] ELSE at[n]]
  <2>3. bt \in [0 .. k + 1 -> A]
    <3>1. at[k] \in A
      BY <2>2
    <3>2. f[<<at[k], seq[k + 1]>>] \in A
      BY <2>2, <3>1
    <3> QED BY <2>2, <3>2
  <2>4. bt[0] = base
    BY <2>1, <2>2
  <2>5. ASSUME NEW n \in 1 .. k + 1 PROVE bt[n] = f[<<bt[n - 1], seq[n]>>]
    <3>1. CASE n = k + 1
      <4>1. bt[n] = f[<<at[k], seq[n]>>] /\ bt[n - 1] = at[k]
        BY <2>2, <3>1
      <4> QED BY <4>1
    <3>2. CASE n # k + 1
      <4>1. bt[n] = at[n] /\ bt[n - 1] = at[n - 1] /\ n \in 1 .. k
        BY <2>2, <3>2
      <4> QED BY <2>1, <4>1
    <3> QED BY <3>1, <3>2
  <2> HIDE DEF bt
  <2> QED BY <2>2, <2>3, <2>4, <2>5
<1>3. Len(seq) \in S
  <2>1. Len(seq) \in Nat
    BY LenProperties
  <2> HIDE DEF S
  <2>2. \A n \in 0 .. Len(seq) : n \in S
    BY <1>1, <1>2, <2>1, Induct
  <2> QED BY <2>1, <2>2
<1> QED BY <1>3 DEF IsRun

LEMMA RunsAgree ==
  ASSUME NEW at, NEW bt, NEW f, NEW base, NEW s, NEW t, NEW m \in Nat,
         Len(s) \in Nat, Len(t) \in Nat, m <= Len(s), m <= Len(t),
         \A n \in 1 .. m : s[n] = t[n],
         IsRun(at, f, base, s), IsRun(bt, f, base, t)
  PROVE  at[m] = bt[m]
<1> DEFINE S == { n \in 0 .. m : at[n] = bt[n] }
<1>1. 0 \in S
  BY DEF IsRun
<1>2. ASSUME NEW n \in 0 .. m - 1, n \in S PROVE n + 1 \in S
  <2>1. n + 1 \in 1 .. Len(s) /\ n + 1 \in 1 .. Len(t) /\ n + 1 \in 1 .. m /\ (n + 1) - 1 = n
    OBVIOUS
  <2>2. at[n + 1] = f[<<at[n], s[n + 1]>>] /\ bt[n + 1] = f[<<bt[n], t[n + 1]>>]
    BY <2>1 DEF IsRun
  <2> QED BY <1>2, <2>1, <2>2
<1> HIDE DEF S
<1>3. \A n \in 0 .. m : n \in S
  BY <1>1, <1>2, Induct
<1> QED BY <1>3 DEF S

(* What a fold makes of a sequence, and of one that is longer by an element. *)
IsLonger(longer, seq, x) ==
  /\ Len(seq) \in Nat /\ Len(longer) = Len(seq) + 1
  /\ \A n \in 1 .. Len(seq) : seq[n] = longer[n]
  /\ longer[Len(seq) + 1] = x

LEMMA AppendIsLonger ==
  ASSUME NEW C, NEW seq \in Seq(C), NEW x \in C
  PROVE  IsLonger(Append(seq, x), seq, x)
BY AppendProperties, LenProperties DEF IsLonger

LEMMA RunAppend ==
  ASSUME NEW f, NEW base, NEW seq, NEW x, NEW longer, NEW at, NEW bt,
         IsLonger(longer, seq, x), IsRun(at, f, base, seq), IsRun(bt, f, base, longer)
  PROVE  bt[Len(longer)] = f[<<at[Len(seq)], x>>]
<1>1. /\ Len(seq) \in Nat /\ Len(longer) = Len(seq) + 1
      /\ \A n \in 1 .. Len(seq) : seq[n] = longer[n]
      /\ longer[Len(seq) + 1] = x
  BY DEF IsLonger
<1>2. /\ Len(longer) \in Nat /\ Len(seq) <= Len(longer) /\ Len(seq) <= Len(seq)
      /\ Len(seq) + 1 \in 1 .. Len(longer) /\ (Len(seq) + 1) - 1 = Len(seq)
  BY <1>1
<1>3. at[Len(seq)] = bt[Len(seq)]
  BY <1>1, <1>2, RunsAgree
<1>4. bt[Len(seq) + 1] = f[<<bt[(Len(seq) + 1) - 1], longer[Len(seq) + 1]>>]
  BY <1>2 DEF IsRun
<1> QED BY <1>1, <1>2, <1>3, <1>4

(***************************************************************************)
(* Flatten                                                                 *)
(***************************************************************************)
Joins(C) == [p \in Seq(C) \X Seq(C) |-> p[1] \o p[2]]

LEMMA JoinsType ==
  ASSUME NEW C
  PROVE  /\ Joins(C) \in [Seq(C) \X Seq(C) -> Seq(C)] /\ <<>> \in Seq(C)
         /\ \A s, t \in Seq(C) : Joins(C)[<<s, t>>] = s \o t
<1>1. \A s, t \in Seq(C) : s \o t \in Seq(C)
  BY ConcatProperties
<1> QED BY <1>1, EmptySeq DEF Joins

LEMMA FlattenRun ==
  ASSUME NEW C, NEW seqs \in Seq(Seq(C))
  PROVE  \E at \in [0 .. Len(seqs) -> Seq(C)] :
           IsRun(at, Joins(C), <<>>, seqs) /\ X!Flatten(seqs) = at[Len(seqs)]
<1> DEFINE Walk(at) == [n \in 0 .. Len(seqs) |-> IF n = 0 THEN <<>> ELSE at[n - 1] \o seqs[n]]
           at == CHOOSE at : at = Walk(at)
<1>1. X!Flatten(seqs) = at[Len(seqs)]
  BY DEF X!Flatten, X!Fold
<1>2. \E bt : bt = Walk(bt)
  <2>1. PICK bt \in [0 .. Len(seqs) -> Seq(C)] : IsRun(bt, Joins(C), <<>>, seqs)
    <3>1. Joins(C) \in [Seq(C) \X Seq(C) -> Seq(C)] /\ <<>> \in Seq(C)
      BY JoinsType
    <3> QED BY <3>1, RunExists
  <2>2. Len(seqs) \in Nat /\ \A n \in 1 .. Len(seqs) : seqs[n] \in Seq(C)
    BY LenProperties, ElementOfSeq
  <2>3. ASSUME NEW n \in 1 .. Len(seqs) PROVE bt[n] = bt[n - 1] \o seqs[n]
    <3>1. n - 1 \in 0 .. Len(seqs)
      BY <2>2
    <3>2. bt[n - 1] \in Seq(C) /\ seqs[n] \in Seq(C)
      BY <2>1, <2>2, <3>1
    <3>3. bt[n] = Joins(C)[<<bt[n - 1], seqs[n]>>]
      BY <2>1 DEF IsRun
    <3> QED BY <3>2, <3>3, JoinsType
  <2>4. ASSUME NEW n \in 0 .. Len(seqs) PROVE bt[n] = IF n = 0 THEN <<>> ELSE bt[n - 1] \o seqs[n]
    <3>1. CASE n = 0
      BY <2>1, <3>1 DEF IsRun
    <3>2. CASE n # 0
      <4>1. n \in 1 .. Len(seqs)
        BY <3>2
      <4> QED BY <2>3, <3>2, <4>1
    <3> QED BY <3>1, <3>2
  <2>5. bt = Walk(bt)
    BY <2>4
  <2> QED BY <2>5
<1>3. at = Walk(at)
  BY <1>2
<1> HIDE DEF at
<1>4. Len(seqs) \in Nat /\ \A n \in 1 .. Len(seqs) : seqs[n] \in Seq(C)
  BY LenProperties, ElementOfSeq
<1>5. at[0] = <<>> /\ \A n \in 1 .. Len(seqs) : at[n] = at[n - 1] \o seqs[n]
  <2>1. \A n \in 0 .. Len(seqs) : at[n] = IF n = 0 THEN <<>> ELSE at[n - 1] \o seqs[n]
    BY <1>3
  <2>2. 0 \in 0 .. Len(seqs) /\ \A n \in 1 .. Len(seqs) : n \in 0 .. Len(seqs) /\ n # 0
    BY <1>4
  <2> HIDE DEF Walk
  <2> QED BY <2>1, <2>2
<1>6. \A n \in 0 .. Len(seqs) : at[n] \in Seq(C)
  <2> DEFINE S == { n \in 0 .. Len(seqs) : at[n] \in Seq(C) }
  <2>1. 0 \in S
    <3>1. 0 \in 0 .. Len(seqs) /\ <<>> \in Seq(C)
      BY <1>4, EmptySeq
    <3> QED BY <1>5, <3>1
  <2>2. ASSUME NEW n \in 0 .. Len(seqs) - 1, n \in S PROVE n + 1 \in S
    <3>1. n + 1 \in 1 .. Len(seqs) /\ (n + 1) - 1 = n
      BY <1>4
    <3>2. at[n + 1] = at[n] \o seqs[n + 1] /\ seqs[n + 1] \in Seq(C)
      BY <1>4, <1>5, <3>1
    <3>3. at[n + 1] \in Seq(C)
      BY <2>2, <3>2, ConcatProperties
    <3> QED BY <3>1, <3>3
  <2> HIDE DEF S
  <2>3. \A n \in 0 .. Len(seqs) : n \in S
    BY <1>4, <2>1, <2>2, Induct
  <2> QED BY <2>3 DEF S
<1>7. at \in [0 .. Len(seqs) -> Seq(C)]
  BY <1>3, <1>6
<1>8. ASSUME NEW n \in 1 .. Len(seqs) PROVE at[n] = Joins(C)[<<at[n - 1], seqs[n]>>]
  <2>1. n - 1 \in 0 .. Len(seqs)
    BY <1>4
  <2>2. at[n - 1] \in Seq(C) /\ seqs[n] \in Seq(C) /\ at[n] = at[n - 1] \o seqs[n]
    BY <1>4, <1>5, <1>6, <2>1
  <2> QED BY <2>2, JoinsType
<1> QED BY <1>1, <1>5, <1>7, <1>8 DEF IsRun

LEMMA FlattenFacts ==
  ASSUME NEW C, NEW seqs \in Seq(Seq(C)), NEW t \in Seq(C)
  PROVE  /\ X!Flatten(<<>>) = <<>>
         /\ X!Flatten(seqs) \in Seq(C)
         /\ X!Flatten(Append(seqs, t)) = X!Flatten(seqs) \o t
<1>1. PICK at \in [0 .. Len(seqs) -> Seq(C)] :
        IsRun(at, Joins(C), <<>>, seqs) /\ X!Flatten(seqs) = at[Len(seqs)]
  BY FlattenRun
<1>2. Append(seqs, t) \in Seq(Seq(C)) /\ <<>> \in Seq(Seq(C)) /\ Len(<<>>) = 0 /\ Len(seqs) \in Nat
  BY AppendProperties, EmptySeq, LenProperties
<1> DEFINE longer == Append(seqs, t)
<1>8. IsLonger(longer, seqs, t)
  BY AppendIsLonger
<1>3. PICK bt \in [0 .. Len(longer) -> Seq(C)] :
        IsRun(bt, Joins(C), <<>>, longer) /\ X!Flatten(longer) = bt[Len(longer)]
  BY <1>2, FlattenRun
<1> HIDE DEF longer
<1>4. PICK ct \in [0 .. Len(<<>>) -> Seq(C)] :
        IsRun(ct, Joins(C), <<>>, <<>>) /\ X!Flatten(<<>>) = ct[Len(<<>>)]
  BY <1>2, FlattenRun
<1>5. X!Flatten(<<>>) = <<>>
  <2>1. ct[0] = <<>>
    BY <1>4 DEF IsRun
  <2> QED BY <1>2, <1>4, <2>1
<1>6. X!Flatten(seqs) \in Seq(C)
  <2>1. Len(seqs) \in 0 .. Len(seqs)
    BY <1>2
  <2> QED BY <1>1, <2>1
<1>7. X!Flatten(longer) = Joins(C)[<<X!Flatten(seqs), t>>]
  <2>1. bt[Len(longer)] = Joins(C)[<<at[Len(seqs)], t>>]
    <3>1. ASSUME NEW base, NEW f, IsRun(at, f, base, seqs), IsRun(bt, f, base, longer)
          PROVE  bt[Len(longer)] = f[<<at[Len(seqs)], t>>]
      BY <1>8, <3>1, RunAppend
    <3> QED BY <1>1, <1>3, <3>1
  <2> QED BY <1>1, <1>3, <2>1
<1> QED BY <1>5, <1>6, <1>7, JoinsType DEF longer

LEMMA FlattenType ==
  ASSUME NEW C, NEW seqs \in Seq(Seq(C))
  PROVE  X!Flatten(seqs) \in Seq(C)
<1>1. <<>> \in Seq(C)
  BY EmptySeq
<1> QED BY <1>1, FlattenFacts

LEMMA FlattenAppend ==
  ASSUME NEW C, NEW seqs \in Seq(Seq(C)), NEW t \in Seq(C)
  PROVE  X!Flatten(Append(seqs, t)) = X!Flatten(seqs) \o t
BY FlattenFacts

LEMMA ConcatAppend ==
  ASSUME NEW C, NEW s \in Seq(C), NEW t \in Seq(C), NEW x \in C
  PROVE  s \o Append(t, x) = Append(s \o t, x)
<1>1. <<x>> \in Seq(C) /\ s \o t \in Seq(C)
  BY ConcatProperties
<1>2. Append(t, x) = t \o <<x>> /\ Append(s \o t, x) = (s \o t) \o <<x>>
  BY <1>1, AppendIsConcat
<1>3. (s \o t) \o <<x>> = s \o (t \o <<x>>)
  BY <1>1, ConcatAssociative
<1> QED BY <1>2, <1>3

LEMMA FlattenConcat ==
  ASSUME NEW C, NEW s \in Seq(Seq(C)), NEW t \in Seq(Seq(C))
  PROVE  X!Flatten(s \o t) = X!Flatten(s) \o X!Flatten(t)
<1> DEFINE S == { r \in Seq(Seq(C)) : X!Flatten(s \o r) = X!Flatten(s) \o X!Flatten(r) }
<1>1. <<>> \in S
  <2>1. s \o <<>> = s /\ <<>> \in Seq(Seq(C)) /\ <<>> \in Seq(C)
    BY ConcatEmptySeq, EmptySeq
  <2>2. X!Flatten(s) \in Seq(C) /\ X!Flatten(<<>>) = <<>>
    BY <2>1, FlattenFacts
  <2>3. X!Flatten(s) \o <<>> = X!Flatten(s)
    BY <2>2, ConcatEmptySeq
  <2> QED BY <2>1, <2>2, <2>3
<1>2. ASSUME NEW r \in Seq(Seq(C)), NEW x \in Seq(C), r \in S PROVE Append(r, x) \in S
  <2>1. s \o Append(r, x) = Append(s \o r, x) /\ s \o r \in Seq(Seq(C)) /\ Append(r, x) \in Seq(Seq(C))
    BY ConcatAppend, ConcatProperties, AppendProperties
  <2>2. /\ X!Flatten(Append(s \o r, x)) = X!Flatten(s \o r) \o x
        /\ X!Flatten(Append(r, x)) = X!Flatten(r) \o x
        /\ X!Flatten(s) \in Seq(C) /\ X!Flatten(r) \in Seq(C)
    BY <2>1, FlattenFacts
  <2>3. (X!Flatten(s) \o X!Flatten(r)) \o x = X!Flatten(s) \o (X!Flatten(r) \o x)
    <3>1. \A a, b \in Seq(C) : (a \o b) \o x = a \o (b \o x)
      BY ConcatAssociative, SMTT(20)
    <3> QED BY <2>2, <3>1
  <2>4. X!Flatten(s \o r) = X!Flatten(s) \o X!Flatten(r)
    BY <1>2
  <2> QED BY <2>1, <2>2, <2>3, <2>4
<1> HIDE DEF S
<1>3. t \in S
  BY <1>1, <1>2, SeqInduct
<1> QED BY <1>3 DEF S

(* f of every element of a sequence. *)
Mapped(f, s) == [i \in DOMAIN s |-> f[s[i]]]

IsMapped(m, f, s) == Len(m) = Len(s) /\ \A i \in 1 .. Len(s) : m[i] = f[s[i]]

LEMMA MappedType ==
  ASSUME NEW D, NEW R, NEW f \in [D -> R], NEW s \in Seq(D)
  PROVE  Mapped(f, s) \in Seq(R)
<1>1. Len(s) \in Nat /\ DOMAIN s = 1 .. Len(s) /\ \A i \in 1 .. Len(s) : f[s[i]] \in R
  BY LenProperties, ElementOfSeq
<1>2. Mapped(f, s) = [i \in 1 .. Len(s) |-> f[s[i]]]
  BY <1>1 DEF Mapped
<1> QED BY <1>1, <1>2

LEMMA MappedFacts ==
  ASSUME NEW f, NEW D, NEW s \in Seq(D)
  PROVE  IsMapped(Mapped(f, s), f, s)
<1>1. Len(s) \in Nat /\ DOMAIN s = 1 .. Len(s)
  BY LenProperties
<1>2. Mapped(f, s) = [i \in 1 .. Len(s) |-> f[s[i]]]
  BY <1>1 DEF Mapped
<1> QED BY <1>1, <1>2 DEF IsMapped

LEMMA MappedAppend ==
  ASSUME NEW D, NEW R, NEW f \in [D -> R], NEW s \in Seq(D), NEW x \in D
  PROVE  Mapped(f, Append(s, x)) = Append(Mapped(f, s), f[x])
<1>1. /\ Append(s, x) \in Seq(D) /\ Len(Append(s, x)) = Len(s) + 1 /\ Len(s) \in Nat
      /\ \A i \in 1 .. Len(s) : Append(s, x)[i] = s[i]
      /\ Append(s, x)[Len(s) + 1] = x
  BY AppendProperties, LenProperties
<1>2. /\ Mapped(f, Append(s, x)) \in Seq(R) /\ Len(Mapped(f, Append(s, x))) = Len(s) + 1
      /\ \A i \in 1 .. Len(s) + 1 : Mapped(f, Append(s, x))[i] = f[Append(s, x)[i]]
  <2>1. Mapped(f, Append(s, x)) \in Seq(R)
    BY <1>1, MappedType
  <2>2. IsMapped(Mapped(f, Append(s, x)), f, Append(s, x))
    BY <1>1, MappedFacts
  <2> QED BY <1>1, <2>1, <2>2 DEF IsMapped
<1>3. /\ Mapped(f, s) \in Seq(R) /\ Len(Mapped(f, s)) = Len(s)
      /\ \A i \in 1 .. Len(s) : Mapped(f, s)[i] = f[s[i]]
  <2>1. Mapped(f, s) \in Seq(R) /\ IsMapped(Mapped(f, s), f, s)
    BY MappedType, MappedFacts
  <2> QED BY <2>1 DEF IsMapped
<1>4. f[x] \in R
  OBVIOUS
<1>5. /\ Append(Mapped(f, s), f[x]) \in Seq(R) /\ Len(Append(Mapped(f, s), f[x])) = Len(s) + 1
      /\ \A i \in 1 .. Len(s) : Append(Mapped(f, s), f[x])[i] = f[s[i]]
      /\ Append(Mapped(f, s), f[x])[Len(s) + 1] = f[x]
  BY <1>3, <1>4, AppendProperties
<1>6. ASSUME NEW i \in 1 .. Len(s) + 1
      PROVE  Mapped(f, Append(s, x))[i] = Append(Mapped(f, s), f[x])[i]
  <2>1. CASE i = Len(s) + 1
    BY <1>1, <1>2, <1>5, <2>1
  <2>2. CASE i # Len(s) + 1
    <3>1. i \in 1 .. Len(s)
      BY <1>1, <2>2
    <3> QED BY <1>1, <1>2, <1>5, <3>1
  <2> QED BY <2>1, <2>2
<1> QED BY <1>2, <1>5, <1>6, SeqEqual

Adds == [p \in Nat \X Nat |-> p[1] + p[2]]

LEMMA AddsType ==
  Adds \in [Nat \X Nat -> Nat] /\ \A m, n \in Nat : Adds[<<m, n>>] = m + n
BY DEF Adds

LEMMA TotalRun ==
  ASSUME NEW ns \in Seq(Nat)
  PROVE  \E at \in [0 .. Len(ns) -> Nat] :
           IsRun(at, Adds, 0, ns) /\ X!Total(ns) = at[Len(ns)]
<1> DEFINE Walk(at) == [n \in 0 .. Len(ns) |-> IF n = 0 THEN 0 ELSE at[n - 1] + ns[n]]
           at == CHOOSE at : at = Walk(at)
<1>1. X!Total(ns) = at[Len(ns)]
  BY DEF X!Total, X!Fold
<1>2. Len(ns) \in Nat /\ \A n \in 1 .. Len(ns) : ns[n] \in Nat
  BY LenProperties, ElementOfSeq
<1>3. \E bt : bt = Walk(bt)
  <2>1. PICK bt \in [0 .. Len(ns) -> Nat] : IsRun(bt, Adds, 0, ns)
    BY AddsType, RunExists
  <2>2. ASSUME NEW n \in 0 .. Len(ns) PROVE bt[n] = IF n = 0 THEN 0 ELSE bt[n - 1] + ns[n]
    <3>1. CASE n = 0
      BY <2>1, <3>1 DEF IsRun
    <3>2. CASE n # 0
      <4>1. n \in 1 .. Len(ns) /\ n - 1 \in 0 .. Len(ns)
        BY <3>2
      <4>2. bt[n - 1] \in Nat /\ ns[n] \in Nat
        BY <1>2, <4>1
      <4>3. bt[n] = Adds[<<bt[n - 1], ns[n]>>]
        BY <2>1, <4>1 DEF IsRun
      <4> QED BY <3>2, <4>2, <4>3, AddsType
    <3> QED BY <3>1, <3>2
  <2>3. bt = Walk(bt)
    BY <2>2
  <2> QED BY <2>3
<1>4. at = Walk(at)
  BY <1>3
<1> HIDE DEF at
<1>5. at[0] = 0 /\ \A n \in 1 .. Len(ns) : at[n] = at[n - 1] + ns[n]
  <2>1. \A n \in 0 .. Len(ns) : at[n] = IF n = 0 THEN 0 ELSE at[n - 1] + ns[n]
    BY <1>4
  <2>2. 0 \in 0 .. Len(ns) /\ \A n \in 1 .. Len(ns) : n \in 0 .. Len(ns) /\ n # 0
    BY <1>2
  <2> HIDE DEF Walk
  <2> QED BY <2>1, <2>2
<1>6. \A n \in 0 .. Len(ns) : at[n] \in Nat
  <2> DEFINE S == { n \in 0 .. Len(ns) : at[n] \in Nat }
  <2>1. 0 \in S
    BY <1>2, <1>5
  <2>2. ASSUME NEW n \in 0 .. Len(ns) - 1, n \in S PROVE n + 1 \in S
    <3>1. n + 1 \in 1 .. Len(ns) /\ (n + 1) - 1 = n
      BY <1>2
    <3>2. at[n + 1] = at[n] + ns[n + 1] /\ ns[n + 1] \in Nat
      BY <1>2, <1>5, <3>1
    <3> QED BY <2>2, <3>1, <3>2
  <2> HIDE DEF S
  <2>3. \A n \in 0 .. Len(ns) : n \in S
    BY <1>2, <2>1, <2>2, Induct
  <2> QED BY <2>3 DEF S
<1>7. at \in [0 .. Len(ns) -> Nat]
  BY <1>4, <1>6
<1>8. ASSUME NEW n \in 1 .. Len(ns) PROVE at[n] = Adds[<<at[n - 1], ns[n]>>]
  <2>1. n - 1 \in 0 .. Len(ns)
    BY <1>2
  <2>2. at[n - 1] \in Nat /\ ns[n] \in Nat /\ at[n] = at[n - 1] + ns[n]
    BY <1>2, <1>5, <1>6, <2>1
  <2> QED BY <2>2, AddsType
<1> QED BY <1>1, <1>5, <1>7, <1>8 DEF IsRun

LEMMA TotalFacts ==
  ASSUME NEW ns \in Seq(Nat), NEW m \in Nat
  PROVE  /\ X!Total(<<>>) = 0
         /\ X!Total(ns) \in Nat
         /\ X!Total(Append(ns, m)) = X!Total(ns) + m
<1> DEFINE longer == Append(ns, m)
<1>1. PICK at \in [0 .. Len(ns) -> Nat] : IsRun(at, Adds, 0, ns) /\ X!Total(ns) = at[Len(ns)]
  BY TotalRun
<1>2. longer \in Seq(Nat) /\ <<>> \in Seq(Nat) /\ Len(<<>>) = 0 /\ Len(ns) \in Nat
  BY AppendProperties, EmptySeq, LenProperties
<1>3. IsLonger(longer, ns, m)
  BY AppendIsLonger
<1>4. PICK bt \in [0 .. Len(longer) -> Nat] :
        IsRun(bt, Adds, 0, longer) /\ X!Total(longer) = bt[Len(longer)]
  BY <1>2, TotalRun
<1> HIDE DEF longer
<1>5. PICK ct \in [0 .. Len(<<>>) -> Nat] : IsRun(ct, Adds, 0, <<>>) /\ X!Total(<<>>) = ct[Len(<<>>)]
  BY <1>2, TotalRun
<1>6. X!Total(<<>>) = 0
  <2>1. ct[0] = 0
    BY <1>5 DEF IsRun
  <2> QED BY <1>2, <1>5, <2>1
<1>7. X!Total(ns) \in Nat
  <2>1. Len(ns) \in 0 .. Len(ns)
    BY <1>2
  <2> QED BY <1>1, <2>1
<1>8. X!Total(longer) = Adds[<<X!Total(ns), m>>]
  <2>1. bt[Len(longer)] = Adds[<<at[Len(ns)], m>>]
    <3>1. ASSUME NEW base, NEW f, IsRun(at, f, base, ns), IsRun(bt, f, base, longer)
          PROVE  bt[Len(longer)] = f[<<at[Len(ns)], m>>]
      BY <1>3, <3>1, RunAppend
    <3> QED BY <1>1, <1>4, <3>1
  <2> QED BY <1>1, <1>4, <2>1
<1> QED BY <1>6, <1>7, <1>8, AddsType DEF longer

Picked(S, seq) == X!Flatten([i \in DOMAIN seq |-> IF seq[i] \in S THEN <<seq[i]>> ELSE <<>>])

LEMMA NothingToFold ==
  X!Flatten(<<>>) = <<>> /\ X!Total(<<>>) = 0 /\ \A S : Picked(S, <<>>) = <<>>
<1>1. <<>> \in Seq(Seq({})) /\ <<>> \in Seq({}) /\ <<>> \in Seq(Nat) /\ 0 \in Nat
  BY EmptySeq
<1>2. X!Flatten(<<>>) = <<>> /\ X!Total(<<>>) = 0
  BY <1>1, FlattenFacts, TotalFacts
<1>3. \A S : [i \in DOMAIN <<>> |-> IF <<>>[i] \in S THEN <<<<>>[i]>> ELSE <<>>] = <<>>
  OBVIOUS
<1> QED BY <1>2, <1>3 DEF Picked

LEMMA FlattenLength ==
  ASSUME NEW C, NEW seqs \in Seq(Seq(C))
  PROVE  Len(X!Flatten(seqs)) = X!Total([i \in DOMAIN seqs |-> Len(seqs[i])])
<1> DEFINE f == [s \in Seq(C) |-> Len(s)]
           S == { r \in Seq(Seq(C)) : Len(X!Flatten(r)) = X!Total(Mapped(f, r)) }
<1>1. f \in [Seq(C) -> Nat] /\ \A s \in Seq(C) : f[s] = Len(s)
  BY LenProperties
<1>2. \A r \in Seq(Seq(C)) : Mapped(f, r) = [i \in DOMAIN r |-> Len(r[i])]
  <2>1. ASSUME NEW r \in Seq(Seq(C)), NEW i \in DOMAIN r PROVE f[r[i]] = Len(r[i])
    <3>1. r[i] \in Seq(C)
      BY LenProperties, ElementOfSeq
    <3> QED BY <1>1, <3>1
  <2> HIDE DEF f
  <2> QED BY <2>1 DEF Mapped
<1> HIDE DEF f
<1>3. <<>> \in S
  <2>1. <<>> \in Seq(Seq(C)) /\ Len(<<>>) = 0
    BY EmptySeq
  <2>2. Mapped(f, <<>>) = <<>>
    BY DEF Mapped
  <2> QED BY <2>1, <2>2, NothingToFold
<1>4. ASSUME NEW r \in Seq(Seq(C)), NEW x \in Seq(C), r \in S PROVE Append(r, x) \in S
  <2>1. /\ Mapped(f, r) \in Seq(Nat) /\ Mapped(f, Append(r, x)) = Append(Mapped(f, r), Len(x))
        /\ Len(x) \in Nat
    <3>1. Mapped(f, r) \in Seq(Nat)
      BY <1>1, MappedType
    <3>2. Mapped(f, Append(r, x)) = Append(Mapped(f, r), f[x])
      BY <1>1, MappedAppend
    <3> QED BY <1>1, <3>1, <3>2
  <2>2. X!Total(Append(Mapped(f, r), Len(x))) = X!Total(Mapped(f, r)) + Len(x)
    BY <2>1, TotalFacts
  <2>3. X!Flatten(Append(r, x)) = X!Flatten(r) \o x /\ X!Flatten(r) \in Seq(C)
    BY FlattenFacts
  <2>4. Len(X!Flatten(r) \o x) = Len(X!Flatten(r)) + Len(x)
    BY <2>3, ConcatProperties
  <2>5. Append(r, x) \in Seq(Seq(C))
    BY AppendProperties
  <2>6. Len(X!Flatten(r)) = X!Total(Mapped(f, r))
    BY <1>4
  <2> QED BY <2>1, <2>2, <2>3, <2>4, <2>5, <2>6
<1>5. seqs \in S
  <2> HIDE DEF S
  <2> QED BY <1>3, <1>4, SeqInduct
<1> QED BY <1>2, <1>5

LEMMA TotalOfEqual ==
  ASSUME NEW m \in Nat, NEW ns \in Seq({m})
  PROVE  X!Total(ns) = m * Len(ns)
<1> DEFINE S == { r \in Seq({m}) : X!Total(r) = m * Len(r) }
<1>1. <<>> \in S
  <2>1. <<>> \in Seq({m}) /\ Len(<<>>) = 0 /\ m * 0 = 0
    BY EmptySeq
  <2> QED BY <2>1, NothingToFold
<1>2. ASSUME NEW r \in Seq({m}), NEW x \in {m}, r \in S PROVE Append(r, x) \in S
  <2>1. r \in Seq(Nat)
    BY SeqMonotonic
  <2>2. X!Total(Append(r, m)) = X!Total(r) + m
    BY <2>1, TotalFacts
  <2>3. Append(r, m) \in Seq({m}) /\ Len(Append(r, m)) = Len(r) + 1 /\ Len(r) \in Nat
    BY AppendProperties, LenProperties
  <2>4. m * (Len(r) + 1) = m * Len(r) + m
    BY <2>3
  <2>5. X!Total(r) = m * Len(r) /\ x = m
    BY <1>2
  <2> QED BY <2>2, <2>3, <2>4, <2>5
<1> HIDE DEF S
<1>3. ns \in S
  BY <1>1, <1>2, SeqInduct
<1> QED BY <1>3 DEF S

(***************************************************************************)
(* Select                                                                  *)
(***************************************************************************)
IsPicking(f, D, S, E) ==
  /\ f \in [D -> Seq(E)]
  /\ \A y \in D : f[y] = IF y \in S THEN <<y>> ELSE <<>>
  /\ \A seq \in Seq(D) : Picked(S, seq) = X!Flatten(Mapped(f, seq))

LEMMA PickedIsFlat ==
  ASSUME NEW D, NEW S
  PROVE  \E f : IsPicking(f, D, S, D \cap S)
<1> DEFINE f == [y \in D |-> IF y \in S THEN <<y>> ELSE <<>>]
<1>1. f \in [D -> Seq(D \cap S)]
  <2>1. \A y \in D \cap S : <<y>> \in Seq(D \cap S)
    OBVIOUS
  <2>2. <<>> \in Seq(D \cap S)
    BY EmptySeq
  <2> QED BY <2>1, <2>2
<1>2. ASSUME NEW r \in Seq(D) PROVE Picked(S, r) = X!Flatten(Mapped(f, r))
  <2>1. \A i \in DOMAIN r : r[i] \in D
    BY LenProperties, ElementOfSeq
  <2>2. [i \in DOMAIN r |-> IF r[i] \in S THEN <<r[i]>> ELSE <<>>] = Mapped(f, r)
    BY <2>1 DEF Mapped
  <2> QED BY <2>2 DEF Picked
<1>3. \A y \in D : f[y] = IF y \in S THEN <<y>> ELSE <<>>
  OBVIOUS
<1> HIDE DEF f
<1> QED BY <1>1, <1>2, <1>3 DEF IsPicking

LEMMA PickedType ==
  ASSUME NEW D, NEW S, NEW seq \in Seq(D)
  PROVE  Picked(S, seq) \in Seq(D \cap S)
<1> DEFINE E == D \cap S
<1>4. PICK f : IsPicking(f, D, S, E)
  BY PickedIsFlat
<1> HIDE DEF E
<1>1. f \in [D -> Seq(E)] /\ \A r \in Seq(D) : Picked(S, r) = X!Flatten(Mapped(f, r))
  BY <1>4 DEF IsPicking
<1>2. Mapped(f, seq) \in Seq(Seq(E))
  BY <1>1, MappedType
<1>3. X!Flatten(Mapped(f, seq)) \in Seq(E)
  BY <1>2, FlattenType
<1> QED BY <1>1, <1>3 DEF E

LEMMA PickedAppend ==
  ASSUME NEW D, NEW S, NEW seq \in Seq(D), NEW x \in D
  PROVE  /\ x \in S => Picked(S, Append(seq, x)) = Append(Picked(S, seq), x)
         /\ x \notin S => Picked(S, Append(seq, x)) = Picked(S, seq)
<1> DEFINE E == D \cap S
<1>10. PICK f : IsPicking(f, D, S, E)
  BY PickedIsFlat
<1> HIDE DEF E
<1>1. /\ f \in [D -> Seq(E)]
      /\ \A y \in D : f[y] = IF y \in S THEN <<y>> ELSE <<>>
      /\ \A r \in Seq(D) : Picked(S, r) = X!Flatten(Mapped(f, r))
  BY <1>10 DEF IsPicking
<1>2. Append(seq, x) \in Seq(D) /\ f[x] \in Seq(E)
  BY <1>1, AppendProperties
<1>3. Mapped(f, seq) \in Seq(Seq(E))
  BY <1>1, MappedType
<1>4. Mapped(f, Append(seq, x)) = Append(Mapped(f, seq), f[x])
  <2>1. \A R : f \in [D -> R] => Mapped(f, Append(seq, x)) = Append(Mapped(f, seq), f[x])
    BY MappedAppend
  <2> QED BY <1>1, <2>1
<1>5. X!Flatten(Append(Mapped(f, seq), f[x])) = X!Flatten(Mapped(f, seq)) \o f[x]
  BY <1>2, <1>3, FlattenAppend
<1>6. Picked(S, Append(seq, x)) = Picked(S, seq) \o f[x]
  BY <1>1, <1>2, <1>4, <1>5
<1>7. Picked(S, seq) \in Seq(E)
  BY PickedType DEF E
<1>8. CASE x \in S
  <2>1. x \in E /\ f[x] = <<x>>
    BY <1>1, <1>8 DEF E
  <2>2. Picked(S, seq) \o <<x>> = Append(Picked(S, seq), x)
    BY <1>7, <2>1, AppendIsConcat
  <2> QED BY <1>6, <1>8, <2>1, <2>2
<1>9. CASE x \notin S
  <2>1. f[x] = <<>>
    BY <1>1, <1>9
  <2>2. Picked(S, seq) \o <<>> = Picked(S, seq)
    BY <1>7, ConcatEmptySeq
  <2> QED BY <1>6, <1>9, <2>1, <2>2
<1> QED BY <1>8, <1>9

LEMMA PickedConcat ==
  ASSUME NEW D, NEW S, NEW s \in Seq(D), NEW t \in Seq(D)
  PROVE  Picked(S, s \o t) = Picked(S, s) \o Picked(S, t)
<1> DEFINE P == { r \in Seq(D) : Picked(S, s \o r) = Picked(S, s) \o Picked(S, r) }
<1>1. \A r \in Seq(D) : Picked(S, r) \in Seq(D \cap S)
  BY PickedType
<1>2. <<>> \in P
  <2>1. s \o <<>> = s /\ <<>> \in Seq(D)
    BY EmptySeq, ConcatEmptySeq
  <2>2. Picked(S, s) \o <<>> = Picked(S, s)
    BY <1>1, ConcatEmptySeq
  <2> QED BY <2>1, <2>2, NothingToFold
<1>3. ASSUME NEW r \in Seq(D), NEW x \in D, r \in P PROVE Append(r, x) \in P
  <2>1. s \o Append(r, x) = Append(s \o r, x) /\ s \o r \in Seq(D) /\ Append(r, x) \in Seq(D)
    BY ConcatAppend, ConcatProperties, AppendProperties
  <2>2. /\ x \in S => Picked(S, Append(s \o r, x)) = Append(Picked(S, s \o r), x)
        /\ x \notin S => Picked(S, Append(s \o r, x)) = Picked(S, s \o r)
    <3>1. \A q \in Seq(D) : /\ x \in S => Picked(S, Append(q, x)) = Append(Picked(S, q), x)
                            /\ x \notin S => Picked(S, Append(q, x)) = Picked(S, q)
      BY PickedAppend
    <3> QED BY <2>1, <3>1
  <2>6. /\ x \in S => Picked(S, Append(r, x)) = Append(Picked(S, r), x)
        /\ x \notin S => Picked(S, Append(r, x)) = Picked(S, r)
    BY PickedAppend
  <2>3. Picked(S, s) \in Seq(D \cap S) /\ Picked(S, r) \in Seq(D \cap S)
    BY <1>1
  <2>4. x \in S => Picked(S, s) \o Append(Picked(S, r), x) = Append(Picked(S, s) \o Picked(S, r), x)
    BY <2>3, ConcatAppend
  <2>5. Picked(S, s \o r) = Picked(S, s) \o Picked(S, r)
    BY <1>3
  <2> QED BY <2>1, <2>2, <2>6, <2>4, <2>5
<1> HIDE DEF P
<1>4. t \in P
  BY <1>2, <1>3, SeqInduct
<1> QED BY <1>4 DEF P

LEMMA PickedAll ==
  ASSUME NEW S, NEW s \in Seq(S)
  PROVE  Picked(S, s) = s
<1> DEFINE P == { r \in Seq(S) : Picked(S, r) = r }
<1>1. <<>> \in P
  BY NothingToFold, EmptySeq
<1>2. ASSUME NEW r \in Seq(S), NEW x \in S, r \in P PROVE Append(r, x) \in P
  <2>1. Picked(S, Append(r, x)) = Append(Picked(S, r), x)
    BY PickedAppend
  <2> QED BY <1>2, <2>1, AppendProperties
<1> HIDE DEF P
<1>3. s \in P
  BY <1>1, <1>2, SeqInduct
<1> QED BY <1>3 DEF P

LEMMA SeqOfElements ==
  ASSUME NEW C, NEW q \in Seq(C), NEW E, \A i \in 1 .. Len(q) : q[i] \in E
  PROVE  q \in Seq(E)
<1>1. Len(q) \in Int /\ 1 \in Int
  BY LenProperties
<1>2. SubSeq(q, 1, Len(q)) \in Seq(E)
  BY <1>1, SubSeqProperties
<1> QED BY <1>2, SubSeqFull

LEMMA PrefixType ==
  ASSUME NEW D, NEW s \in Seq(D), NEW k \in 0 .. Len(s)
  PROVE  SubSeq(s, 1, k) \in Seq(D)
<1>1. k \in Int /\ 1 \in Int /\ \A i \in 1 .. k : s[i] \in D
  BY LenProperties, ElementOfSeq
<1> QED BY <1>1, SubSeqProperties

LEMMA SubSeqPrefix ==
  ASSUME NEW D, NEW s \in Seq(D), NEW k \in 0 .. Len(s)
  PROVE  Len(SubSeq(s, 1, k)) = k /\ \A i \in 1 .. k : SubSeq(s, 1, k)[i] = s[i]
<1>1. k \in Nat /\ 1 \in Int /\ \A i \in 1 .. k : s[i] \in D
  BY LenProperties, ElementOfSeq
<1> DEFINE p == SubSeq(s, 1, k)
<1>2. /\ p \in Seq(D) /\ Len(p) = IF 1 <= k THEN k - 1 + 1 ELSE 0
      /\ \A i \in 1 .. k - 1 + 1 : p[i] = s[1 + i - 1]
  BY <1>1, SubSeqProperties
<1> HIDE DEF p
<1>3. Len(p) = k /\ \A i \in 1 .. k : p[i] = s[i]
  BY <1>1, <1>2
<1> QED BY <1>3 DEF p

(***************************************************************************)
(* Split                                                                   *)
(***************************************************************************)
Cuts(s, sep, n) == { i \in 1 .. n : s[i] = sep }

Latest(cuts) == CHOOSE x \in cuts : \A y \in cuts : x >= y

LEMMA LatestExists ==
  ASSUME NEW n \in Nat, NEW cuts \in SUBSET (1 .. n), cuts # {}
  PROVE  Latest(cuts) \in cuts /\ \A y \in cuts : Latest(cuts) >= y
<1> DEFINE S == { k \in Nat : \A y \in cuts : y <= k }
<1>1. n \in S
  OBVIOUS
<1>2. PICK k \in S : \A j \in S : k <= j
  <2>1. S \subseteq Nat /\ S # {}
    BY <1>1
  <2> HIDE DEF S
  <2> QED BY <2>1, LeastElement
<1>3. k \in cuts
  <2>1. SUFFICES ASSUME k \notin cuts PROVE FALSE
    OBVIOUS
  <2>2. k # 0
    <3>1. PICK y \in cuts : TRUE
      OBVIOUS
    <3> QED BY <1>2, <3>1
  <2>3. k - 1 \in S
    BY <1>2, <2>1, <2>2
  <2> QED BY <1>2, <2>2, <2>3
<1>4. \E x \in cuts : \A y \in cuts : x >= y
  BY <1>2, <1>3
<1> QED BY <1>4 DEF Latest

(* The parts of s, of which the last ends at n. *)
IsSplit(parts, s, sep) ==
  \A n \in 0 .. Len(s) :
    parts[n] = IF Cuts(s, sep, n) = {} THEN <<SubSeq(s, 1, n)>>
               ELSE Append(parts[Latest(Cuts(s, sep, n)) - 1], SubSeq(s, Latest(Cuts(s, sep, n)) + 1, n))

LEMMA SplitIsDefined ==
  ASSUME NEW s, Len(s) \in Nat, NEW sep
  PROVE  \E parts : IsSplit(parts, s, sep) /\ X!Split(s, sep) = parts[Len(s)]
<1> DEFINE cut(n) == Latest(Cuts(s, sep, n))
           Walk(parts, m) == [n \in 0 .. m |->
             IF Cuts(s, sep, n) = {} THEN <<SubSeq(s, 1, n)>>
             ELSE Append(parts[cut(n) - 1], SubSeq(s, cut(n) + 1, n))]
           S == { k \in Nat : \E f : f = Walk(f, k) }
<1>1. \A n \in Nat : Cuts(s, sep, n) # {} => cut(n) - 1 \in 0 .. n - 1
  <2>1. ASSUME NEW n \in Nat, Cuts(s, sep, n) # {} PROVE cut(n) - 1 \in 0 .. n - 1
    <3>1. Cuts(s, sep, n) \in SUBSET (1 .. n)
      BY DEF Cuts
    <3>2. cut(n) \in Cuts(s, sep, n)
      BY <2>1, <3>1, LatestExists
    <3>3. cut(n) \in 1 .. n
      BY <3>1, <3>2
    <3> QED BY <3>3
  <2> QED BY <2>1
<1> HIDE DEF cut
<1>2. 0 \in S
  <2> DEFINE f == [n \in 0 .. 0 |-> <<SubSeq(s, 1, n)>>]
  <2>1. f = Walk(f, 0)
    BY DEF Cuts
  <2> HIDE DEF f, Walk
  <2> QED BY <2>1
<1>3. ASSUME NEW k \in 0 .. Len(s) - 1, k \in S PROVE k + 1 \in S
  <2>1. PICK f : f = Walk(f, k)
    BY <1>3
  <2>2. k \in Nat /\ k + 1 \in Nat
    OBVIOUS
  <2> DEFINE Next1 == IF Cuts(s, sep, k + 1) = {} THEN <<SubSeq(s, 1, k + 1)>>
                      ELSE Append(f[cut(k + 1) - 1], SubSeq(s, cut(k + 1) + 1, k + 1))
             g == [n \in 0 .. k + 1 |-> IF n = k + 1 THEN Next1 ELSE f[n]]
  <2>3. ASSUME NEW n \in 0 .. k + 1
        PROVE  g[n] = IF Cuts(s, sep, n) = {} THEN <<SubSeq(s, 1, n)>>
                      ELSE Append(g[cut(n) - 1], SubSeq(s, cut(n) + 1, n))
    <3>1. Cuts(s, sep, n) # {} => cut(n) - 1 \in 0 .. k
      BY <1>1
    <3>2. \A m \in 0 .. k : g[m] = f[m]
      OBVIOUS
    <3>3. CASE n = k + 1
      <4>1. g[n] = Next1
        BY <3>3
      <4> HIDE DEF g
      <4> QED BY <3>1, <3>2, <3>3, <4>1
    <3>4. CASE n # k + 1
      <4>1. n \in 0 .. k
        BY <3>4
      <4>2. f[n] = IF Cuts(s, sep, n) = {} THEN <<SubSeq(s, 1, n)>>
                   ELSE Append(f[cut(n) - 1], SubSeq(s, cut(n) + 1, n))
        BY <2>1, <4>1
      <4> HIDE DEF g
      <4> QED BY <3>1, <3>2, <4>1, <4>2
    <3> QED BY <3>3, <3>4
  <2>4. g = Walk(g, k + 1)
    BY <2>3
  <2> HIDE DEF g, Walk
  <2> QED BY <2>2, <2>4
<1>4. Len(s) \in S
  <2> HIDE DEF S
  <2>1. \A n \in 0 .. Len(s) : n \in S
    BY <1>2, <1>3, Induct
  <2> QED BY <2>1
<1> DEFINE parts == CHOOSE parts : parts = Walk(parts, Len(s))
<1>5. parts = Walk(parts, Len(s))
  BY <1>4
<1>6. X!Split(s, sep) = parts[Len(s)]
  BY DEF X!Split, X!Max, cut, Latest, Cuts
<1> HIDE DEF parts
<1>7. \A n \in 0 .. Len(s) : parts[n] = IF Cuts(s, sep, n) = {} THEN <<SubSeq(s, 1, n)>>
                             ELSE Append(parts[cut(n) - 1], SubSeq(s, cut(n) + 1, n))
  BY <1>5
<1> QED BY <1>6, <1>7 DEF IsSplit, cut

LEMMA SplitWhole ==
  ASSUME NEW C, NEW s \in Seq(C), NEW sep, \A i \in 1 .. Len(s) : s[i] # sep
  PROVE  X!Split(s, sep) = <<s>>
<1>1. Len(s) \in Nat /\ SubSeq(s, 1, Len(s)) = s
  BY LenProperties, SubSeqFull
<1>2. PICK parts : IsSplit(parts, s, sep) /\ X!Split(s, sep) = parts[Len(s)]
  BY <1>1, SplitIsDefined
<1>3. Cuts(s, sep, Len(s)) = {}
  BY DEF Cuts
<1>4. Len(s) \in 0 .. Len(s)
  BY <1>1
<1>5. parts[Len(s)] = <<SubSeq(s, 1, Len(s))>>
  BY <1>2, <1>3, <1>4 DEF IsSplit
<1> QED BY <1>1, <1>2, <1>5

(* The parts of a sequence up to n are those of one that begins like it. *)
LEMMA SplitsAgree ==
  ASSUME NEW C, NEW s \in Seq(C), NEW t \in Seq(C), NEW sep, NEW m \in Nat,
         m <= Len(s), m <= Len(t), \A i \in 1 .. m : s[i] = t[i],
         NEW p, IsSplit(p, s, sep), NEW q, IsSplit(q, t, sep)
  PROVE  p[m] = q[m]
<1> DEFINE S == { n \in 0 .. m : \A k \in 0 .. n : p[k] = q[k] }
<1>1. Len(s) \in Nat /\ Len(t) \in Nat
  BY LenProperties
<1>2. ASSUME NEW n \in 0 .. m, \A k \in 0 .. n - 1 : p[k] = q[k] PROVE p[n] = q[n]
  <2>1. n \in 0 .. Len(s) /\ n \in 0 .. Len(t)
    BY <1>1
  <2>2. Cuts(s, sep, n) = Cuts(t, sep, n)
    BY DEF Cuts
  <2>3. CASE Cuts(s, sep, n) = {}
    <3>1. SubSeq(s, 1, n) = SubSeq(t, 1, n)
      <4>1. \A i \in 1 .. n : s[i] \in C /\ t[i] \in C /\ s[i] = t[i]
        BY <2>1, ElementOfSeq
      <4>2. /\ SubSeq(s, 1, n) \in Seq(C) /\ Len(SubSeq(s, 1, n)) = n
            /\ \A i \in 1 .. n : SubSeq(s, 1, n)[i] = s[i]
        BY <2>1, <4>1
      <4>3. /\ SubSeq(t, 1, n) \in Seq(C) /\ Len(SubSeq(t, 1, n)) = n
            /\ \A i \in 1 .. n : SubSeq(t, 1, n)[i] = t[i]
        BY <2>1, <4>1
      <4> QED BY <4>1, <4>2, <4>3, SeqEqual
    <3>2. p[n] = <<SubSeq(s, 1, n)>>
      BY <2>1, <2>3 DEF IsSplit
    <3>3. q[n] = <<SubSeq(t, 1, n)>>
      BY <2>1, <2>2, <2>3 DEF IsSplit
    <3> QED BY <3>1, <3>2, <3>3
  <2>4. CASE Cuts(s, sep, n) # {}
    <3> DEFINE c == Latest(Cuts(s, sep, n))
    <3>1. c \in 1 .. n
      <4>1. Cuts(s, sep, n) \in SUBSET (1 .. n) /\ n \in Nat
        BY DEF Cuts
      <4>2. c \in Cuts(s, sep, n)
        BY <2>4, <4>1, LatestExists
      <4> QED BY <4>1, <4>2
    <3>2. p[n] = Append(p[c - 1], SubSeq(s, c + 1, n))
      BY <2>1, <2>4 DEF IsSplit
    <3>3. q[n] = Append(q[c - 1], SubSeq(t, c + 1, n))
      BY <2>1, <2>2, <2>4 DEF IsSplit
    <3> HIDE DEF c
    <3>4. p[c - 1] = q[c - 1]
      BY <1>2, <3>1
    <3>5. SubSeq(s, c + 1, n) = SubSeq(t, c + 1, n)
      <4>1. \A i \in c + 1 .. n : s[i] \in C /\ t[i] \in C /\ s[i] = t[i]
        BY <2>1, <3>1, ElementOfSeq
      <4>2. c + 1 \in Int /\ n \in Int
        BY <3>1
      <4>3. /\ SubSeq(s, c + 1, n) \in Seq(C)
            /\ Len(SubSeq(s, c + 1, n)) = IF c + 1 <= n THEN n - (c + 1) + 1 ELSE 0
            /\ \A i \in 1 .. n - (c + 1) + 1 : SubSeq(s, c + 1, n)[i] = s[c + 1 + i - 1]
        BY <4>1, <4>2, SubSeqProperties
      <4>4. /\ SubSeq(t, c + 1, n) \in Seq(C)
            /\ Len(SubSeq(t, c + 1, n)) = IF c + 1 <= n THEN n - (c + 1) + 1 ELSE 0
            /\ \A i \in 1 .. n - (c + 1) + 1 : SubSeq(t, c + 1, n)[i] = t[c + 1 + i - 1]
        BY <4>1, <4>2, SubSeqProperties
      <4>5. ASSUME NEW i \in 1 .. Len(SubSeq(s, c + 1, n))
            PROVE  SubSeq(s, c + 1, n)[i] = SubSeq(t, c + 1, n)[i]
        <5>1. i \in 1 .. n - (c + 1) + 1 /\ c + 1 + i - 1 \in c + 1 .. n
          BY <4>2, <4>3
        <5> QED BY <4>1, <4>3, <4>4, <5>1
      <4> QED BY <4>3, <4>4, <4>5, SeqEqual
    <3> QED BY <3>2, <3>3, <3>4, <3>5
  <2> QED BY <2>3, <2>4
<1>3. 0 \in S
  <2>1. p[0] = q[0]
    <3>1. \A k \in 0 .. 0 - 1 : p[k] = q[k]
      OBVIOUS
    <3>2. 0 \in 0 .. m
      OBVIOUS
    <3> QED BY <1>2, <3>1, <3>2
  <2> QED BY <2>1
<1>4. ASSUME NEW n \in 0 .. m - 1, n \in S PROVE n + 1 \in S
  <2>1. n + 1 \in 0 .. m /\ (n + 1) - 1 = n
    OBVIOUS
  <2>2. \A k \in 0 .. (n + 1) - 1 : p[k] = q[k]
    BY <1>4, <2>1
  <2>3. p[n + 1] = q[n + 1]
    BY <1>2, <2>1, <2>2
  <2>4. \A k \in 0 .. n + 1 : k \in 0 .. (n + 1) - 1 \/ k = n + 1
    BY <2>1
  <2> QED BY <2>1, <2>2, <2>3, <2>4
<1>5. m \in S
  <2> HIDE DEF S
  <2>1. \A n \in 0 .. m : n \in S
    BY <1>3, <1>4, Induct
  <2> QED BY <2>1
<1> QED BY <1>5

(* A separator, and what follows it up to the end. *)
LEMMA SplitLast ==
  ASSUME NEW C, NEW t \in Seq(C), NEW sep \in C, NEW u \in Seq(C), \A i \in 1 .. Len(u) : u[i] # sep
  PROVE  X!Split((t \o <<sep>>) \o u, sep) = Append(X!Split(t, sep), u)
<1> DEFINE s == (t \o <<sep>>) \o u
           m == Len(t)
<1>1. m \in Nat /\ Len(u) \in Nat
  BY LenProperties
<1>2. /\ t \o <<sep>> \in Seq(C) /\ Len(t \o <<sep>>) = m + 1
      /\ \A i \in 1 .. m : (t \o <<sep>>)[i] = t[i]
      /\ (t \o <<sep>>)[m + 1] = sep
  <2>1. t \o <<sep>> = Append(t, sep)
    BY AppendIsConcat
  <2> QED BY <2>1, AppendProperties
<1>3. /\ s \in Seq(C) /\ Len(s) = m + 1 + Len(u)
      /\ \A i \in 1 .. m : s[i] = t[i]
      /\ s[m + 1] = sep
      /\ \A i \in 1 .. Len(u) : s[m + 1 + i] = u[i]
  <2> DEFINE w == t \o <<sep>>
  <2>1. w \in Seq(C) /\ Len(w) = m + 1 /\ (\A i \in 1 .. m : w[i] = t[i]) /\ w[m + 1] = sep
    BY <1>2
  <2> HIDE DEF w
  <2>2. /\ w \o u \in Seq(C) /\ Len(w \o u) = Len(w) + Len(u)
        /\ \A i \in 1 .. Len(w) + Len(u) : (w \o u)[i] = IF i <= Len(w) THEN w[i] ELSE u[i - Len(w)]
    BY <2>1, ConcatProperties
  <2>3. \A i \in 1 .. m + 1 : (w \o u)[i] = w[i]
    BY <1>1, <2>1, <2>2
  <2>4. \A i \in 1 .. Len(u) : (w \o u)[m + 1 + i] = u[i]
    BY <1>1, <2>1, <2>2
  <2>5. w \o u = s
    BY DEF w
  <2>6. m + 1 \in 1 .. m + 1 /\ \A i \in 1 .. m : i \in 1 .. m + 1
    BY <1>1
  <2> HIDE DEF s, m
  <2> QED BY <2>1, <2>2, <2>3, <2>4, <2>5, <2>6
<1>10. Len(s) \in Nat
  BY <1>1, <1>3
<1> HIDE DEF s
<1>4. PICK p : IsSplit(p, s, sep) /\ X!Split(s, sep) = p[Len(s)]
  BY <1>10, SplitIsDefined
<1>5. PICK q : IsSplit(q, t, sep) /\ X!Split(t, sep) = q[m]
  BY <1>1, SplitIsDefined
<1>6. Latest(Cuts(s, sep, Len(s))) = m + 1 /\ Cuts(s, sep, Len(s)) # {}
  <2> DEFINE cuts == Cuts(s, sep, Len(s))
  <2>1. m + 1 \in cuts
    BY <1>1, <1>3 DEF Cuts
  <2>2. ASSUME NEW i \in cuts, i > m + 1 PROVE FALSE
    <3>1. i \in 1 .. Len(s) /\ s[i] = sep
      BY DEF Cuts
    <3>2. i - (m + 1) \in 1 .. Len(u) /\ m + 1 + (i - (m + 1)) = i
      BY <1>1, <1>3, <2>2, <3>1
    <3>3. s[i] = u[i - (m + 1)]
      BY <1>3, <3>2
    <3> QED BY <3>1, <3>2, <3>3
  <2>3. Len(s) \in Nat /\ cuts \in SUBSET (1 .. Len(s))
    BY <1>1, <1>3 DEF Cuts
  <2> HIDE DEF cuts
  <2>4. Latest(cuts) \in cuts /\ \A y \in cuts : Latest(cuts) >= y
    BY <2>1, <2>3, LatestExists
  <2>5. Latest(cuts) >= m + 1 /\ Latest(cuts) <= m + 1
    <3>1. Latest(cuts) \in 1 .. Len(s)
      BY <2>3, <2>4
    <3> QED BY <1>1, <2>1, <2>2, <2>3, <2>4, <3>1
  <2>6. Latest(cuts) \in Int
    <3>1. Latest(cuts) \in 1 .. Len(s)
      BY <2>3, <2>4
    <3> QED BY <2>3, <3>1
  <2> QED BY <1>1, <2>1, <2>5, <2>6 DEF cuts
<1>7. p[Len(s)] = Append(p[m], SubSeq(s, m + 1 + 1, Len(s)))
  <2>1. Len(s) \in 0 .. Len(s) /\ (m + 1) - 1 = m
    BY <1>1, <1>3
  <2>2. p[Len(s)] = Append(p[(m + 1) - 1], SubSeq(s, (m + 1) + 1, Len(s)))
    BY <1>4, <1>6, <2>1 DEF IsSplit
  <2> QED BY <2>1, <2>2
<1>8. p[m] = q[m]
  <2>1. s \in Seq(C) /\ m \in Nat /\ m <= Len(s) /\ m <= Len(t) /\ \A i \in 1 .. m : s[i] = t[i]
    BY <1>1, <1>3
  <2>2. IsSplit(p, s, sep) /\ IsSplit(q, t, sep)
    BY <1>4, <1>5
  <2> HIDE DEF m
  <2> QED BY <2>1, <2>2, SplitsAgree
<1>9. SubSeq(s, m + 1 + 1, Len(s)) = u
  <2>1. \A i \in m + 1 + 1 .. Len(s) : s[i] \in C
    BY <1>1, <1>3, ElementOfSeq
  <2>2. m + 1 + 1 \in Int /\ Len(s) \in Int
    BY <1>1, <1>3
  <2>3. /\ SubSeq(s, m + 1 + 1, Len(s)) \in Seq(C)
        /\ Len(SubSeq(s, m + 1 + 1, Len(s))) = IF m + 1 + 1 <= Len(s) THEN Len(s) - (m + 1 + 1) + 1 ELSE 0
        /\ \A i \in 1 .. Len(s) - (m + 1 + 1) + 1 :
             SubSeq(s, m + 1 + 1, Len(s))[i] = s[m + 1 + 1 + i - 1]
    BY <2>1, <2>2, SubSeqProperties
  <2>4. Len(SubSeq(s, m + 1 + 1, Len(s))) = Len(u) /\ Len(s) - (m + 1 + 1) + 1 = Len(u)
    BY <1>1, <1>3, <2>3
  <2>5. \A i \in 1 .. Len(u) : m + 1 + 1 + i - 1 = m + 1 + i
    BY <1>1
  <2>6. \A i \in 1 .. Len(u) : SubSeq(s, m + 1 + 1, Len(s))[i] = u[i]
    BY <1>3, <2>3, <2>4, <2>5
  <2> QED BY <2>3, <2>4, <2>6, SeqEqual
<1> QED BY <1>4, <1>5, <1>7, <1>8, <1>9 DEF s

(* No part holds the separator, and there is one at least. *)
LEMMA SplitType ==
  ASSUME NEW C, NEW s \in Seq(C), NEW sep
  PROVE  X!Split(s, sep) \in Seq(Seq(C \ {sep})) /\ X!Split(s, sep) # <<>>
<1> DEFINE E == Seq(C \ {sep})
           S == { n \in 0 .. Len(s) : TRUE }
<1>1. Len(s) \in Nat
  BY LenProperties
<1>2. PICK p : IsSplit(p, s, sep) /\ X!Split(s, sep) = p[Len(s)]
  BY <1>1, SplitIsDefined
<1>3. ASSUME NEW a \in Nat, NEW b \in 0 .. Len(s), \A i \in a + 1 .. b : s[i] # sep
      PROVE  SubSeq(s, a + 1, b) \in E
  <2>1. \A i \in a + 1 .. b : s[i] \in C \ {sep}
    BY <1>1, <1>3, ElementOfSeq
  <2>2. a + 1 \in Int /\ b \in Int
    BY <1>1
  <2> QED BY <2>1, <2>2, SubSeqProperties
<1> DEFINE T == { n \in 0 .. Len(s) : \A k \in 0 .. n : p[k] \in Seq(E) /\ p[k] # <<>> }
<1>4. ASSUME NEW n \in 0 .. Len(s), \A k \in 0 .. n - 1 : p[k] \in Seq(E)
      PROVE  p[n] \in Seq(E) /\ p[n] # <<>>
  <2>1. CASE Cuts(s, sep, n) = {}
    <3>1. p[n] = <<SubSeq(s, 1, n)>>
      BY <1>2, <2>1 DEF IsSplit
    <3>2. SubSeq(s, 0 + 1, n) \in E
      <4>1. \A i \in 0 + 1 .. n : s[i] # sep
        BY <2>1 DEF Cuts
      <4> HIDE DEF E
      <4> QED BY <1>3, <4>1
    <3> HIDE DEF E
    <3> QED BY <3>1, <3>2
  <2>2. CASE Cuts(s, sep, n) # {}
    <3> DEFINE c == Latest(Cuts(s, sep, n))
    <3>1. c \in 1 .. n /\ \A y \in Cuts(s, sep, n) : c >= y
      <4>1. Cuts(s, sep, n) \in SUBSET (1 .. n) /\ n \in Nat
        BY <1>1 DEF Cuts
      <4>2. c \in Cuts(s, sep, n) /\ \A y \in Cuts(s, sep, n) : c >= y
        BY <2>2, <4>1, LatestExists
      <4> HIDE DEF c
      <4> QED BY <4>1, <4>2
    <3>2. p[n] = Append(p[c - 1], SubSeq(s, c + 1, n))
      BY <1>2, <2>2 DEF IsSplit
    <3> HIDE DEF c
    <3>3. SubSeq(s, c + 1, n) \in E
      <4>1. \A i \in c + 1 .. n : s[i] # sep
        BY <3>1 DEF Cuts
      <4>2. c \in Nat
        BY <3>1
      <4> HIDE DEF E
      <4> QED BY <1>3, <4>1, <4>2
    <3>4. p[c - 1] \in Seq(E)
      BY <1>4, <3>1
    <3> HIDE DEF E
    <3> QED BY <3>2, <3>3, <3>4, AppendProperties
  <2> QED BY <2>1, <2>2
<1> HIDE DEF E
<1>5. 0 \in T
  <2>1. 0 \in 0 .. Len(s) /\ \A k \in 0 .. 0 - 1 : p[k] \in Seq(E)
    BY <1>1
  <2>2. p[0] \in Seq(E) /\ p[0] # <<>>
    BY <1>4, <2>1
  <2> QED BY <2>1, <2>2
<1>6. ASSUME NEW n \in 0 .. Len(s) - 1, n \in T PROVE n + 1 \in T
  <2>1. n + 1 \in 0 .. Len(s) /\ (n + 1) - 1 = n
    BY <1>1
  <2>2. \A k \in 0 .. (n + 1) - 1 : p[k] \in Seq(E)
    BY <1>6, <2>1
  <2>3. p[n + 1] \in Seq(E) /\ p[n + 1] # <<>>
    BY <1>4, <2>1, <2>2
  <2>4. \A k \in 0 .. n + 1 : k \in 0 .. n \/ k = n + 1
    BY <2>1
  <2> QED BY <1>6, <2>1, <2>3, <2>4
<1>7. Len(s) \in T
  <2> HIDE DEF T
  <2>1. \A n \in 0 .. Len(s) : n \in T
    BY <1>1, <1>5, <1>6, Induct
  <2> QED BY <1>1, <2>1
<1> QED BY <1>1, <1>2, <1>7 DEF E

(***************************************************************************)
(* The spaces that the parser takes away                                   *)
(***************************************************************************)
LEMMA InkFacts ==
  ASSUME NEW C, NEW s \in Seq(C)
  PROVE  /\ X!Ink(s) = { i \in 1 .. Len(s) : s[i] # "space" }
         /\ \A hi \in X!Ink(s) : (\A i \in X!Ink(s) : i <= hi) => X!Max(X!Ink(s)) = hi
         /\ \A lo \in X!Ink(s) : (\A i \in X!Ink(s) : lo <= i) => X!Min(X!Ink(s)) = lo
         /\ X!Ink(s) # {} => X!Max(X!Ink(s)) \in X!Ink(s) /\ \A i \in X!Ink(s) : i <= X!Max(X!Ink(s))
<1>1. Len(s) \in Nat /\ DOMAIN s = 1 .. Len(s)
  BY LenProperties
<1>2. X!Ink(s) = { i \in 1 .. Len(s) : s[i] # "space" }
  BY <1>1 DEF X!Ink
<1> DEFINE ink == X!Ink(s)
<1>3. ink \in SUBSET (1 .. Len(s)) /\ \A i \in ink : i \in Int
  BY <1>1, <1>2
<1> HIDE DEF ink
<1>4. X!Max(ink) = CHOOSE x \in ink : \A y \in ink : x >= y
  BY DEF X!Max
<1>5. X!Min(ink) = CHOOSE x \in ink : \A y \in ink : x <= y
  BY DEF X!Min
<1>6. ASSUME NEW hi \in ink, \A i \in ink : i <= hi PROVE X!Max(ink) = hi
  <2>1. \A y \in ink : hi >= y
    BY <1>3, <1>6
  <2>2. X!Max(ink) \in ink /\ \A y \in ink : X!Max(ink) >= y
    BY <1>4, <2>1
  <2>3. X!Max(ink) <= hi /\ X!Max(ink) >= hi
    BY <1>6, <2>2
  <2>4. X!Max(ink) \in Int /\ hi \in Int
    BY <1>3, <2>2
  <2> HIDE DEF ink
  <2> QED BY <2>3, <2>4
<1>7. ASSUME NEW lo \in ink, \A i \in ink : lo <= i PROVE X!Min(ink) = lo
  <2>1. X!Min(ink) \in ink /\ \A y \in ink : X!Min(ink) <= y
    BY <1>5, <1>7
  <2>2. lo <= X!Min(ink) /\ X!Min(ink) <= lo
    BY <1>7, <2>1
  <2>3. X!Min(ink) \in Int /\ lo \in Int
    BY <1>3, <2>1
  <2> QED BY <2>2, <2>3
<1>8. ASSUME ink # {} PROVE X!Max(ink) \in ink /\ \A i \in ink : i <= X!Max(ink)
  <2>1. Latest(ink) \in ink /\ \A y \in ink : Latest(ink) >= y
    BY <1>1, <1>3, <1>8, LatestExists
  <2>2. \A i \in ink : i <= Latest(ink)
    BY <1>3, <2>1
  <2> QED BY <1>6, <2>1, <2>2
<1> QED BY <1>2, <1>6, <1>7, <1>8 DEF ink

(* What is left between the first and the last character that is no space. *)
LEMMA TrimIs ==
  ASSUME NEW C, NEW s \in Seq(C), NEW lo \in 1 .. Len(s), NEW hi \in 1 .. Len(s), s[lo] # "space", s[hi] # "space",
         \A i \in 1 .. Len(s) : i < lo \/ hi < i => s[i] = "space"
  PROVE  X!Trim(s) = SubSeq(s, lo, hi)
<1>1. X!Ink(s) = { i \in 1 .. Len(s) : s[i] # "space" } /\ Len(s) \in Nat
  BY InkFacts, LenProperties
<1>2. lo \in X!Ink(s) /\ hi \in X!Ink(s) /\ \A i \in X!Ink(s) : lo <= i /\ i <= hi
  BY <1>1
<1>3. X!Max(X!Ink(s)) = hi /\ X!Min(X!Ink(s)) = lo
  BY <1>2, InkFacts
<1> QED BY <1>2, <1>3 DEF X!Trim

LEMMA TrimOfSpaces ==
  ASSUME NEW C, NEW s \in Seq(C), \A i \in 1 .. Len(s) : s[i] = "space"
  PROVE  X!Trim(s) = <<>>
<1>1. X!Ink(s) = {}
  BY InkFacts
<1> QED BY <1>1 DEF X!Trim

LEMMA TrimType ==
  ASSUME NEW C, NEW s \in Seq(C)
  PROVE  X!Trim(s) \in Seq(C)
<1>1. Len(s) \in Nat /\ \A i \in 1 .. Len(s) : s[i] \in C
  BY LenProperties, ElementOfSeq
<1>2. CASE X!Ink(s) = {}
  BY <1>2, EmptySeq DEF X!Trim
<1>3. CASE X!Ink(s) # {}
  <2> DEFINE lo == X!Min(X!Ink(s))
             hi == X!Max(X!Ink(s))
  <2>1. X!Ink(s) \in SUBSET (1 .. Len(s)) /\ X!Ink(s) \in SUBSET Nat
    BY <1>1, InkFacts
  <2>2. hi \in 1 .. Len(s)
    BY <1>3, <2>1, InkFacts
  <2>3. lo \in 1 .. Len(s)
    <3>1. PICK k \in X!Ink(s) : \A i \in X!Ink(s) : k <= i
      BY <1>3, <2>1, LeastElement
    <3>2. lo = k
      BY <3>1, InkFacts
    <3> QED BY <2>1, <3>1, <3>2
  <2>4. X!Trim(s) = SubSeq(s, lo, hi)
    BY <1>3 DEF X!Trim
  <2> HIDE DEF lo, hi
  <2>5. \A i \in lo .. hi : s[i] \in C
    BY <1>1, <2>2, <2>3
  <2>6. lo \in Int /\ hi \in Int
    BY <2>2, <2>3
  <2> QED BY <2>4, <2>5, <2>6, SubSeqProperties
<1> QED BY <1>2, <1>3

(* k characters are left of s, and spaces are cut off. *)
EndsAt(s, k) ==
  /\ k \in 0 .. Len(s) /\ X!TrimEnd(s) = SubSeq(s, 1, k) /\ (k = 0 \/ s[k] # "space")
  /\ \A i \in k + 1 .. Len(s) : s[i] = "space"

LEMMA TrimEndIs ==
  ASSUME NEW C, NEW s \in Seq(C)
  PROVE  /\ \E k : EndsAt(s, k)
         /\ X!TrimEnd(s) \in Seq(C)
         /\ (\A i \in 1 .. Len(s) : s[i] # "space") => X!TrimEnd(s) = s
<1>1. Len(s) \in Nat /\ SubSeq(s, 1, Len(s)) = s
  BY LenProperties, SubSeqFull
<1>2. X!Ink(s) = { i \in 1 .. Len(s) : s[i] # "space" }
  BY InkFacts
<1>3. \E k : EndsAt(s, k)
  <2>1. CASE X!Ink(s) = {}
    <3>1. X!TrimEnd(s) = <<>>
      BY <2>1 DEF X!TrimEnd
    <3>2. SubSeq(s, 1, 0) = <<>>
      <4>1. SubSeq(s, 1, 0) \in Seq(C) /\ Len(SubSeq(s, 1, 0)) = 0
        <5>1. 0 \in 0 .. Len(s)
          BY <1>1
        <5> QED BY <5>1, PrefixType, SubSeqPrefix
      <4> QED BY <4>1, EmptySeq
    <3>3. \A i \in 0 + 1 .. Len(s) : s[i] = "space"
      BY <1>2, <2>1
    <3>4. EndsAt(s, 0)
      BY <1>1, <3>1, <3>2, <3>3 DEF EndsAt
    <3> QED BY <3>4
  <2>2. CASE X!Ink(s) # {}
    <3> DEFINE k == X!Max(X!Ink(s))
    <3>1. k \in X!Ink(s) /\ \A i \in X!Ink(s) : i <= k
      BY <2>2, InkFacts
    <3>2. X!TrimEnd(s) = SubSeq(s, 1, k)
      BY <2>2 DEF X!TrimEnd
    <3> HIDE DEF k
    <3>3. k \in 1 .. Len(s) /\ s[k] # "space"
      BY <1>2, <3>1
    <3>4. \A i \in k + 1 .. Len(s) : s[i] = "space"
      BY <1>1, <1>2, <3>1, <3>3
    <3>5. EndsAt(s, k)
      BY <1>1, <3>2, <3>3, <3>4 DEF EndsAt
    <3> QED BY <3>5
  <2> QED BY <2>1, <2>2
<1>4. PICK k : EndsAt(s, k)
  BY <1>3
<1>5. X!TrimEnd(s) \in Seq(C)
  BY <1>4, PrefixType DEF EndsAt
<1>6. ASSUME \A i \in 1 .. Len(s) : s[i] # "space" PROVE X!TrimEnd(s) = s
  <2>1. k = Len(s)
    <3>1. k \in 0 .. Len(s) /\ \A i \in k + 1 .. Len(s) : s[i] = "space"
      BY <1>4 DEF EndsAt
    <3>2. \A i \in k + 1 .. Len(s) : FALSE
      <4>1. \A i \in k + 1 .. Len(s) : i \in 1 .. Len(s)
        BY <1>1, <3>1
      <4>2. \A i \in k + 1 .. Len(s) : s[i] = "space" /\ s[i] # "space"
        BY <1>6, <3>1, <4>1
      <4> QED BY <4>2
    <3>3. ~(Len(s) \in k + 1 .. Len(s))
      BY <3>2
    <3>4. k \in 0 .. Len(s)
      BY <3>1
    <3>5. \A n \in Nat : k \in 0 .. n /\ ~(n \in k + 1 .. n) => k = n
      OBVIOUS
    <3> QED BY <1>1, <3>3, <3>4, <3>5, Zenon
  <2> QED BY <1>1, <1>4, <2>1 DEF EndsAt
<1> QED BY <1>3, <1>5, <1>6

LEMMA TrimLastFacts ==
  ASSUME NEW C, NEW seg \in Seq(Seq(C))
  PROVE  /\ X!TrimLast(seg) \in Seq(Seq(C)) /\ Len(X!TrimLast(seg)) = Len(seg)
         /\ \A j \in 1 .. Len(seg) :
              X!TrimLast(seg)[j] = IF j = Len(seg) THEN X!TrimEnd(seg[j]) ELSE seg[j]
<1>1. Len(seg) \in Nat /\ DOMAIN seg = 1 .. Len(seg) /\ \A j \in 1 .. Len(seg) : seg[j] \in Seq(C)
  BY LenProperties, ElementOfSeq
<1>2. \A j \in 1 .. Len(seg) : X!TrimEnd(seg[j]) \in Seq(C)
  BY <1>1, TrimEndIs
<1> QED BY <1>1, <1>2 DEF X!TrimLast

LEMMA TrimOfWord ==
  ASSUME NEW id, id # "space"
  PROVE  X!TrimEnd(<<id>>) = <<id>>
<1>1. <<id>> \in Seq({id}) /\ \A i \in 1 .. Len(<<id>>) : <<id>>[i] # "space"
  OBVIOUS
<1> QED BY <1>1, TrimEndIs

(* The name of a segment stays, and its number of elements. *)
LEMMA NameStays ==
  ASSUME NEW C, NEW seg \in Seq(Seq(C)), seg # <<>>, NEW id, id # "space", seg[1] = <<id>>
  PROVE  X!TrimLast(seg) # <<>> /\ X!TrimLast(seg)[1] = <<id>>
<1>1. Len(seg) \in Nat /\ Len(seg) # 0
  BY LenProperties, EmptySeq
<1>2. 1 \in 1 .. Len(seg)
  BY <1>1
<1>3. X!TrimLast(seg)[1] = <<id>>
  BY <1>2, TrimLastFacts, TrimOfWord
<1>4. X!TrimLast(seg) # <<>>
  <2>1. Len(X!TrimLast(seg)) = Len(seg)
    BY TrimLastFacts
  <2> QED BY <1>1, <2>1
<1> QED BY <1>3, <1>4

LEMMA ReceivedFacts ==
  ASSUME NEW C, NEW segs \in Seq(Seq(Seq(C)))
  PROVE  /\ X!Received(segs) \in Seq(Seq(Seq(C))) /\ Len(X!Received(segs)) = Len(segs)
         /\ DOMAIN X!Received(segs) = 1 .. Len(segs)
         /\ \A i \in 1 .. Len(segs) : X!Received(segs)[i] = X!TrimLast(segs[i])
<1>1. Len(segs) \in Nat /\ DOMAIN segs = 1 .. Len(segs) /\ \A i \in 1 .. Len(segs) : segs[i] \in Seq(Seq(C))
  BY LenProperties, ElementOfSeq
<1>2. \A i \in 1 .. Len(segs) : X!TrimLast(segs[i]) \in Seq(Seq(C))
  BY <1>1, TrimLastFacts
<1> QED BY <1>1, <1>2 DEF X!Received

(***************************************************************************)
(* Text and ParseX12                                                       *)
(***************************************************************************)
Joined(e, j) == (IF j = 1 THEN <<>> ELSE <<"*">>) \o e

LEMMA JoinedType ==
  ASSUME NEW C, "*" \in C, NEW e \in Seq(C), NEW j
  PROVE  Joined(e, j) \in Seq(C)
<1>1. <<>> \in Seq(C) /\ <<"*">> \in Seq(C)
  BY EmptySeq
<1>2. (IF j = 1 THEN <<>> ELSE <<"*">>) \in Seq(C)
  BY <1>1
<1> QED BY <1>2, ConcatProperties DEF Joined

JoinedSeq(seg) == [j \in 1 .. Len(seg) |-> Joined(seg[j], j)]

LEMMA LineIsFlat ==
  ASSUME NEW C, "*" \in C, NEW seg \in Seq(Seq(C))
  PROVE  X!Line(seg) = X!Flatten(JoinedSeq(seg)) /\ JoinedSeq(seg) \in Seq(Seq(C))
<1>1. Len(seg) \in Nat /\ DOMAIN seg = 1 .. Len(seg) /\ \A j \in 1 .. Len(seg) : seg[j] \in Seq(C)
  BY LenProperties, ElementOfSeq
<1>2. \A j \in 1 .. Len(seg) : Joined(seg[j], j) \in Seq(C)
  BY <1>1, JoinedType
<1> QED BY <1>1, <1>2 DEF X!Line, JoinedSeq, Joined

LEMMA LineType ==
  ASSUME NEW C, "*" \in C, NEW seg \in Seq(Seq(C))
  PROVE  X!Line(seg) \in Seq(C)
BY LineIsFlat, FlattenType

LEMMA LineOfNothing == X!Line(<<>>) = <<>>
<1>1. [j \in DOMAIN <<>> |-> (IF j = 1 THEN <<>> ELSE <<"*">>) \o <<>>[j]] = <<>>
  OBVIOUS
<1> QED BY <1>1, NothingToFold DEF X!Line

LEMMA LineAppend ==
  ASSUME NEW C, "*" \in C, NEW seg \in Seq(Seq(C)), NEW e \in Seq(C)
  PROVE  X!Line(Append(seg, e)) = IF seg = <<>> THEN e ELSE (X!Line(seg) \o <<"*">>) \o e
<1> DEFINE m == Len(seg) + 1
<1>1. /\ Append(seg, e) \in Seq(Seq(C)) /\ Len(Append(seg, e)) = m /\ Len(seg) \in Nat
      /\ \A j \in 1 .. Len(seg) : Append(seg, e)[j] = seg[j]
      /\ Append(seg, e)[m] = e
  BY AppendProperties, LenProperties
<1>2. JoinedSeq(Append(seg, e)) = Append(JoinedSeq(seg), Joined(e, m))
  <2>1. JoinedSeq(seg) \in Seq(Seq(C)) /\ JoinedSeq(Append(seg, e)) \in Seq(Seq(C)) /\ Joined(e, m) \in Seq(C)
    BY <1>1, LineIsFlat, JoinedType
  <2>2. Len(JoinedSeq(seg)) = Len(seg) /\ \A j \in 1 .. Len(seg) : JoinedSeq(seg)[j] = Joined(seg[j], j)
    BY <1>1 DEF JoinedSeq
  <2>3. /\ Len(JoinedSeq(Append(seg, e))) = m
        /\ \A j \in 1 .. m : JoinedSeq(Append(seg, e))[j] = Joined(Append(seg, e)[j], j)
    BY <1>1 DEF JoinedSeq
  <2>4. /\ Append(JoinedSeq(seg), Joined(e, m)) \in Seq(Seq(C))
        /\ Len(Append(JoinedSeq(seg), Joined(e, m))) = m
        /\ \A j \in 1 .. Len(seg) : Append(JoinedSeq(seg), Joined(e, m))[j] = Joined(seg[j], j)
        /\ Append(JoinedSeq(seg), Joined(e, m))[m] = Joined(e, m)
    BY <2>1, <2>2, AppendProperties
  <2>5. ASSUME NEW j \in 1 .. m
        PROVE  JoinedSeq(Append(seg, e))[j] = Append(JoinedSeq(seg), Joined(e, m))[j]
    <3>1. j \in 1 .. Len(seg) \/ j = m
      BY <1>1
    <3> HIDE DEF m
    <3> QED BY <1>1, <2>3, <2>4, <3>1
  <2> QED BY <2>1, <2>3, <2>4, <2>5, SeqEqual
<1>3. JoinedSeq(seg) \in Seq(Seq(C)) /\ Joined(e, m) \in Seq(C)
  BY LineIsFlat, JoinedType
<1>4. X!Flatten(Append(JoinedSeq(seg), Joined(e, m))) = X!Flatten(JoinedSeq(seg)) \o Joined(e, m)
  BY <1>3, FlattenAppend
<1>5. X!Line(Append(seg, e)) = X!Line(seg) \o Joined(e, m)
  <2>1. X!Line(Append(seg, e)) = X!Flatten(JoinedSeq(Append(seg, e)))
    BY <1>1, LineIsFlat
  <2>2. X!Line(seg) = X!Flatten(JoinedSeq(seg))
    BY LineIsFlat
  <2> QED BY <1>2, <1>4, <2>1, <2>2
<1>6. CASE seg = <<>>
  <2>1. Joined(e, m) = e
    <3>1. m = 1
      BY <1>6, EmptySeq
    <3> QED BY <3>1, ConcatEmptySeq DEF Joined
  <2>2. X!Line(seg) \o e = e
    BY <1>6, LineOfNothing, ConcatEmptySeq
  <2> QED BY <1>5, <1>6, <2>1, <2>2
<1>7. CASE seg # <<>>
  <2>1. m # 1
    BY <1>1, <1>7, EmptySeq
  <2>2. Joined(e, m) = <<"*">> \o e
    BY <2>1 DEF Joined
  <2>3. X!Line(seg) \in Seq(C) /\ <<"*">> \in Seq(C)
    BY LineType
  <2>4. X!Line(seg) \o (<<"*">> \o e) = (X!Line(seg) \o <<"*">>) \o e
    BY <2>3, ConcatAssociative
  <2> QED BY <1>5, <1>7, <2>2, <2>4
<1> QED BY <1>6, <1>7

LEMMA ConcatAt ==
  ASSUME NEW C, NEW a \in Seq(C), NEW b \in Seq(C), NEW m, m = Len(a), NEW n, n = Len(b)
  PROVE  /\ a \o b \in Seq(C) /\ m \in Nat /\ n \in Nat /\ Len(a \o b) = m + n
         /\ \A i \in 1 .. m : (a \o b)[i] = a[i]
         /\ \A j \in 1 .. n : (a \o b)[m + j] = b[j]
<1> DEFINE u == a \o b
<1>1. /\ u \in Seq(C) /\ Len(u) = Len(a) + Len(b)
      /\ \A i \in 1 .. Len(a) + Len(b) : u[i] = IF i <= Len(a) THEN a[i] ELSE b[i - Len(a)]
  BY ConcatProperties
<1>2. m \in Nat /\ n \in Nat
  BY LenProperties
<1> HIDE DEF u
<1>3. \A i \in 1 .. m + n : u[i] = IF i <= m THEN a[i] ELSE b[i - m]
  BY <1>1
<1>4. \A i \in 1 .. m : u[i] = a[i]
  BY <1>2, <1>3
<1>5. \A j \in 1 .. n : m + j \in 1 .. m + n /\ ~(m + j <= m) /\ (m + j) - m = j
  BY <1>2
<1>6. \A j \in 1 .. n : u[m + j] = b[j]
  BY <1>3, <1>5
<1> QED BY <1>1, <1>2, <1>4, <1>6 DEF u

LEMMA LineStarts ==
  ASSUME NEW C, "*" \in C, NEW seg \in Seq(Seq(C)), seg # <<>>, NEW id, seg[1] = <<id>>
  PROVE  X!Line(seg) \in Seq(C) /\ Len(X!Line(seg)) \in Nat \ {0} /\ X!Line(seg)[1] = id
<1> DEFINE Starts(l) == Len(l) \in Nat \ {0} /\ l[1] = id
           S == { g \in Seq(Seq(C)) : g # <<>> /\ g[1] = <<id>> => Starts(X!Line(g)) }
<1>1. <<>> \in S
  BY EmptySeq
<1>2. ASSUME NEW g \in Seq(Seq(C)), NEW e \in Seq(C), g \in S PROVE Append(g, e) \in S
  <2> DEFINE a == Append(g, e)
             l == X!Line(g)
             h == l \o <<"*">>
             w == h \o e
  <2>1. /\ a \in Seq(Seq(C)) /\ Len(g) \in Nat /\ a[Len(g) + 1] = e
        /\ \A i \in 1 .. Len(g) : a[i] = g[i]
    BY AppendProperties, LenProperties
  <2>2. X!Line(a) = IF g = <<>> THEN e ELSE w
    BY LineAppend
  <2>3. l \in Seq(C) /\ <<"*">> \in Seq(C) /\ Len(<<"*">>) = 1
    BY LineType
  <2>4. g # <<>> /\ g[1] = <<id>> => Starts(l)
    BY <1>2
  <2> HIDE DEF a, l
  <2>5. CASE g = <<>>
    <3>1. a[1] = e /\ X!Line(a) = e
      <4>1. Len(g) + 1 = 1
        BY <2>5
      <4> QED BY <2>1, <2>2, <2>5, <4>1
    <3>2. a[1] = <<id>> => Starts(X!Line(a))
      BY <3>1
    <3> HIDE DEF Starts
    <3> QED BY <2>1, <3>2 DEF a
  <2>6. CASE g # <<>>
    <3>1. a[1] = g[1]
      <4>1. Len(g) # 0
        BY <2>6, EmptySeq
      <4>2. 1 \in 1 .. Len(g)
        BY <2>1, <4>1
      <4> QED BY <2>1, <4>2
    <3>2. h \in Seq(C) /\ Len(l) \in Nat /\ Len(h) = Len(l) + 1 /\ \A i \in 1 .. Len(l) : h[i] = l[i]
      BY <2>3, ConcatAt
    <3> HIDE DEF h
    <3>3. Len(h) \in Nat /\ Len(e) \in Nat /\ Len(w) = Len(h) + Len(e) /\ \A i \in 1 .. Len(h) : w[i] = h[i]
      <4>1. h \in Seq(C)
        BY <3>2
      <4> QED BY <4>1, ConcatAt
    <3> HIDE DEF w
    <3>4. Starts(l) => Starts(w)
      BY <3>2, <3>3, SMTT(30)
    <3> HIDE DEF Starts
    <3> QED BY <2>1, <2>2, <2>4, <2>6, <3>1, <3>4 DEF a
  <2> QED BY <2>5, <2>6
<1>3. seg \in S
  <2> HIDE DEF S
  <2> QED BY <1>1, <1>2, SeqInduct
<1> QED BY <1>3, LineType

(* z spaces, the m characters of u, which begin and end with ink, and t spaces. *)
Around(w, u, z, m, t) ==
  /\ z \in Nat /\ m \in Nat \ {0} /\ t \in Nat
  /\ Len(w) = z + m + t /\ Len(u) = m /\ u[1] # "space" /\ u[m] # "space"
  /\ \A i \in 1 .. z : w[i] = "space"
  /\ \A i \in 1 .. m : w[z + i] = u[i]
  /\ \A i \in 1 .. t : w[z + m + i] = "space"

(* What spaces surround is left. *)
LEMMA TrimAround ==
  ASSUME NEW C, NEW w \in Seq(C), NEW u \in Seq(C), NEW z, NEW m, NEW t, Around(w, u, z, m, t)
  PROVE  X!Trim(w) = u
<1> USE DEF Around
<1> DEFINE lo == z + 1
           hi == z + m
           p == SubSeq(w, lo, hi)
<1>1. /\ lo \in 1 .. Len(w) /\ hi \in 1 .. Len(w) /\ lo \in Int /\ hi \in Int /\ lo <= hi
      /\ 1 \in 1 .. m /\ m \in 1 .. m /\ hi - lo + 1 = m /\ \A i \in 1 .. m : lo + i - 1 = z + i
  OBVIOUS
<1>2. w[lo] # "space" /\ w[hi] # "space"
  BY <1>1
<1>3. ASSUME NEW i \in 1 .. Len(w), i < lo \/ hi < i PROVE w[i] = "space"
  <2>1. i \in 1 .. z \/ (i - hi \in 1 .. t /\ i = z + m + (i - hi))
    BY <1>3
  <2> QED BY <2>1
<1>4. \A i \in lo .. hi : w[i] \in C
  <2>1. \A i \in lo .. hi : i \in 1 .. Len(w)
    OBVIOUS
  <2> QED BY <2>1, ElementOfSeq
<1> HIDE DEF lo, hi
<1>5. X!Trim(w) = p
  BY <1>1, <1>2, <1>3, TrimIs
<1>6. p \in Seq(C) /\ Len(p) = (IF lo <= hi THEN hi - lo + 1 ELSE 0) /\ \A i \in 1 .. hi - lo + 1 : p[i] = w[lo + i - 1]
  BY <1>1, <1>4, SubSeqProperties
<1> HIDE DEF p
<1>7. Len(p) = m /\ \A i \in 1 .. m : p[i] = w[lo + i - 1]
  BY <1>1, <1>6
<1>8. \A i \in 1 .. m : p[i] = w[z + i]
  BY <1>1, <1>7
<1>9. p = u
  BY <1>6, <1>7, <1>8, SeqEqual
<1> QED BY <1>5, <1>9

LEMMA TrimLastAppend ==
  ASSUME NEW C, NEW g \in Seq(Seq(C)), NEW e \in Seq(C)
  PROVE  X!TrimLast(Append(g, e)) = Append(g, X!TrimEnd(e))
<1> DEFINE f == X!TrimEnd(e)
           s == Append(g, e)
           t == X!TrimLast(s)
           a == Append(g, f)
           n == Len(g)
<1>1. f \in Seq(C) /\ n \in Nat
  BY TrimEndIs, LenProperties
<1>2. s \in Seq(Seq(C)) /\ Len(s) = n + 1 /\ s[n + 1] = e /\ \A i \in 1 .. n : s[i] = g[i]
  BY AppendProperties
<1> HIDE DEF f, s
<1>3. a \in Seq(Seq(C)) /\ Len(a) = n + 1 /\ a[n + 1] = f /\ \A i \in 1 .. n : a[i] = g[i]
  BY <1>1, AppendProperties
<1>4. /\ t \in Seq(Seq(C)) /\ Len(t) = Len(s)
      /\ \A j \in 1 .. Len(s) : t[j] = IF j = Len(s) THEN X!TrimEnd(s[j]) ELSE s[j]
  BY <1>2, TrimLastFacts
<1> HIDE DEF t, a, n
<1>5. Len(t) = n + 1 /\ t[n + 1] = f /\ \A j \in 1 .. n : t[j] = g[j]
  <2>1. n + 1 \in 1 .. n + 1 /\ \A j \in 1 .. n : j \in 1 .. n + 1 /\ j # n + 1
    BY <1>1
  <2> QED BY <1>2, <1>4, <2>1 DEF f
<1>6. \A j \in 1 .. n + 1 : j \in 1 .. n \/ j = n + 1
  BY <1>1
<1>7. \A j \in 1 .. n + 1 : t[j] = a[j]
  BY <1>3, <1>5, <1>6
<1>8. t \in Seq(Seq(C)) /\ a \in Seq(Seq(C)) /\ Len(t) = n + 1 /\ Len(a) = n + 1
  BY <1>3, <1>4, <1>5
<1>9. t = a
  BY ONLY <1>7, <1>8, SeqEqual
<1> QED BY <1>9 DEF t, a, s, f

(* A newline before the segment, and spaces at its end, are taken away. *)
LEMMA TrimOfLine ==
  ASSUME NEW C, "*" \in C, NEW seg \in Seq(Seq(C)), seg # <<>>, NEW id, id # "space", seg[1] = <<id>>,
         NEW lead \in Seq(C), \A i \in 1 .. Len(lead) : lead[i] = "space"
  PROVE  X!Trim(lead \o X!Line(seg)) = X!Line(X!TrimLast(seg))
<1>1. PICK g \in Seq(Seq(C)), e \in Seq(C) : seg = Append(g, e)
  BY SequenceEmptyOrAppend
<1>2. PICK z : z = Len(lead)
  OBVIOUS
<1>3. PICK q : q = Len(e)
  OBVIOUS
<1>4. z \in Nat /\ q \in Nat /\ \A i \in 1 .. z : lead[i] = "space"
  BY <1>2, <1>3, LenProperties
<1>5. X!TrimLast(seg) = Append(g, X!TrimEnd(e))
  BY <1>1, TrimLastAppend
<1>6. g # <<>> => g[1] = <<id>>
  <2>1. g # <<>> => 1 \in 1 .. Len(g)
    BY EmptySeq, LenProperties
  <2>2. \A i \in 1 .. Len(g) : Append(g, e)[i] = g[i]
    BY AppendProperties
  <2> QED BY <1>1, <2>1, <2>2
<1>7. CASE g = <<>>
  <2>1. e = <<id>>
    BY <1>1, <1>7
  <2>2. q = 1 /\ e[1] = id
    BY <1>3, <2>1
  <2>3. X!TrimEnd(e) = e
    BY <2>1, TrimOfWord
  <2>4. X!Line(seg) = e /\ X!Line(X!TrimLast(seg)) = e
    BY <1>1, <1>5, <1>7, <2>3, LineAppend
  <2> DEFINE w == lead \o e
  <2>5. /\ w \in Seq(C) /\ Len(w) = z + q /\ \A i \in 1 .. z : w[i] = lead[i]
        /\ \A j \in 1 .. q : w[z + j] = e[j]
    BY <1>2, <1>3, ConcatAt
  <2> HIDE DEF w
  <2>6. Len(w) = z + 1 /\ \A j \in 1 .. 1 : w[z + j] = e[j]
    BY <2>2, <2>5
  <2>7. z + 1 = z + 1 + 0 /\ 0 \in Nat /\ 1 \in Nat \ {0} /\ \A i \in 1 .. 0 : FALSE
    BY <1>4
  <2>8. X!Trim(w) = e
    <3>1. \A i \in 1 .. z : w[i] = "space"
      BY <1>4, <2>5
    <3>2. Len(e) = 1 /\ e[1] # "space"
      BY <1>3, <2>2
    <3>3. Len(w) = z + 1 + 0 /\ \A i \in 1 .. 0 : w[z + 1 + i] = "space"
      BY <2>6, <2>7
    <3>4. w \in Seq(C)
      BY <2>5
    <3>5. Around(w, e, z, 1, 0)
      BY <1>4, <2>6, <2>7, <3>1, <3>2, <3>3 DEF Around
    <3> QED BY <3>4, <3>5, TrimAround
  <2> QED BY <2>4, <2>8 DEF w
<1>8. CASE g # <<>>
  <2> DEFINE l == X!Line(g)
             h == l \o <<"*">>
             v == h \o e
             f == X!TrimEnd(e)
             u == h \o f
             w == lead \o v
  <2>1. l \in Seq(C) /\ Len(l) \in Nat \ {0} /\ l[1] = id
    BY <1>6, <1>8, LineStarts
  <2>2. X!Line(seg) = v /\ X!Line(X!TrimLast(seg)) = u
    <3>1. f \in Seq(C)
      BY TrimEndIs
    <3>2. X!Line(Append(g, f)) = u
      BY <1>8, <3>1, LineAppend
    <3>3. X!Line(Append(g, e)) = v
      BY <1>8, LineAppend
    <3> QED BY <1>1, <1>5, <3>2, <3>3
  <2>3. PICK k : EndsAt(e, k)
    BY TrimEndIs
  <2>4. k \in 0 .. q /\ k \in Nat /\ q - k \in Nat /\ f = SubSeq(e, 1, k) /\ (k = 0 \/ e[k] # "space")
        /\ \A i \in k + 1 .. q : e[i] = "space"
    BY <1>3, <1>4, <2>3 DEF EndsAt
  <2>5. f \in Seq(C) /\ Len(f) = k /\ \A i \in 1 .. k : f[i] = e[i]
    BY <1>3, <2>4, PrefixType, SubSeqPrefix
  <2> HIDE DEF l, f
  <2>6. PICK n : n = Len(l) + 1
    OBVIOUS
  <2>7. h \in Seq(C) /\ Len(h) = n /\ n \in Nat \ {0} /\ h[1] = id /\ h[n] = "*"
    <3>1. <<"*">> \in Seq(C) /\ Len(<<"*">>) = 1 /\ <<"*">>[1] = "*" /\ 1 \in 1 .. 1
      OBVIOUS
    <3>2. /\ h \in Seq(C) /\ Len(h) = Len(l) + 1 /\ \A i \in 1 .. Len(l) : h[i] = l[i]
          /\ \A j \in 1 .. 1 : h[Len(l) + j] = <<"*">>[j]
      BY <2>1, <3>1, ConcatAt
    <3> HIDE DEF h
    <3>3. 1 \in 1 .. Len(l)
      BY <2>1
    <3> QED BY <2>1, <2>6, <3>1, <3>2, <3>3
  <2> HIDE DEF h
  <2>8. v \in Seq(C) /\ Len(v) = n + q /\ (\A i \in 1 .. n : v[i] = h[i]) /\ \A j \in 1 .. q : v[n + j] = e[j]
    <3>1. h \in Seq(C) /\ n = Len(h)
      BY <2>7
    <3> QED BY <1>3, <3>1, ConcatAt
  <2>9. u \in Seq(C) /\ Len(u) = n + k /\ (\A i \in 1 .. n : u[i] = h[i]) /\ \A j \in 1 .. k : u[n + j] = f[j]
    <3>1. h \in Seq(C) /\ n = Len(h) /\ f \in Seq(C) /\ k = Len(f)
      BY <2>5, <2>7
    <3> QED BY <3>1, ConcatAt
  <2> HIDE DEF v, u
  <2>10. w \in Seq(C) /\ Len(w) = z + (n + q) /\ (\A i \in 1 .. z : w[i] = lead[i]) /\ \A j \in 1 .. n + q : w[z + j] = v[j]
    BY <1>2, <2>8, ConcatAt
  <2> HIDE DEF w
  <2>11. PICK m : m = n + k
    OBVIOUS
  <2>12. m \in Nat \ {0} /\ Len(u) = m /\ Len(w) = z + m + (q - k)
    BY <1>4, <2>4, <2>7, <2>9, <2>10, <2>11
  <2>13. u[1] # "space" /\ u[m] # "space"
    <3>1. u[1] # "space"
      BY <2>7, <2>9
    <3>2. CASE k = 0
      <4>1. m = n /\ n \in 1 .. n /\ "*" # "space"
        BY <2>7, <2>11, <3>2
      <4> QED BY <2>7, <2>9, <3>1, <4>1
    <3>3. CASE k # 0
      <4>1. k \in 1 .. k
        BY <2>4, <3>3
      <4> QED BY <2>4, <2>5, <2>9, <2>11, <3>1, <3>3, <4>1
    <3> QED BY <3>2, <3>3
  <2>14. \A i \in 1 .. m : w[z + i] = u[i]
    <3>1. \A i \in 1 .. m : i \in 1 .. n + q
      <4>1. k <= q /\ k \in Int /\ q \in Int /\ n \in Int /\ m = n + k
        BY <1>4, <2>4, <2>7, <2>11
      <4> QED BY <4>1
    <3>2. \A i \in 1 .. m : w[z + i] = v[i]
      BY <2>10, <3>1
    <3>3. ASSUME NEW i \in 1 .. m PROVE v[i] = u[i]
      <4>1. i \in 1 .. n \/ \E j \in 1 .. k : i = n + j
        <5>1. i \in 1 .. n \/ (i - n \in 1 .. k /\ i = n + (i - n))
          BY <2>4, <2>7, <2>11
        <5> QED BY <5>1
      <4>2. \A j \in 1 .. k : j \in 1 .. q
        BY <1>4, <2>4
      <4>3. CASE i \in 1 .. n
        BY <2>8, <2>9, <4>3
      <4>4. CASE \E j \in 1 .. k : i = n + j
        <5>1. PICK j \in 1 .. k : i = n + j
          BY <4>4
        <5> QED BY <2>5, <2>8, <2>9, <4>2, <5>1
      <4> QED BY <4>1, <4>3, <4>4
    <3> QED BY <3>2, <3>3
  <2>15. ASSUME NEW i \in 1 .. q - k PROVE w[z + m + i] = "space"
    <3>1. k + i \in 1 .. q /\ k + i \in k + 1 .. q /\ z + m + i = z + (n + (k + i)) /\ n + (k + i) \in 1 .. n + q
      BY <1>4, <2>4, <2>7, <2>11
    <3>2. w[z + (n + (k + i))] = v[n + (k + i)]
      BY <2>10, <3>1
    <3>3. v[n + (k + i)] = e[k + i]
      BY <2>8, <3>1
    <3> QED BY <2>4, <3>1, <3>2, <3>3
  <2>16. \A i \in 1 .. z : w[i] = "space"
    BY <1>4, <2>10
  <2>17. PICK t : t = q - k
    OBVIOUS
  <2>18. X!Trim(w) = u
    <3>1. t \in Nat /\ Len(w) = z + m + t /\ \A i \in 1 .. t : w[z + m + i] = "space"
      BY <2>4, <2>12, <2>15, <2>17
    <3>2. z \in Nat /\ m \in Nat \ {0} /\ Len(u) = m
      BY <1>4, <2>12
    <3>3. w \in Seq(C) /\ u \in Seq(C)
      BY <2>9, <2>10
    <3>4. Around(w, u, z, m, t)
      BY <2>13, <2>14, <2>16, <3>1, <3>2 DEF Around
    <3> QED BY <3>3, <3>4, TrimAround
  <2> QED BY <2>2, <2>18 DEF w
<1> QED BY <1>7, <1>8

LEMMA LineSplit ==
  ASSUME NEW C, "*" \in C, NEW seg \in Seq(Seq(C \ {"*"})), seg # <<>>
  PROVE  X!Split(X!Line(seg), "*") = seg
<1> DEFINE D == C \ {"*"}
           S == { g \in Seq(Seq(D)) : g # <<>> => X!Split(X!Line(g), "*") = g }
<1>1. <<>> \in S
  BY EmptySeq
<1>2. ASSUME NEW g \in Seq(Seq(D)), NEW e \in Seq(D), g \in S PROVE Append(g, e) \in S
  <2>1. e \in Seq(C) /\ \A i \in 1 .. Len(e) : e[i] # "*"
    BY SeqMonotonic, ElementOfSeq
  <2>2. g \in Seq(Seq(C))
    <3>1. Seq(D) \subseteq Seq(C)
      BY SeqMonotonic
    <3> HIDE DEF D
    <3> QED BY <3>1, SeqMonotonic
  <2>3. Append(g, e) \in Seq(Seq(D))
    BY AppendProperties
  <2>4. X!Line(Append(g, e)) = IF g = <<>> THEN e ELSE (X!Line(g) \o <<"*">>) \o e
    BY <2>1, <2>2, LineAppend
  <2>5. CASE g = <<>>
    <3>1. X!Split(e, "*") = <<e>>
      BY <2>1, SplitWhole
    <3>2. Append(<<>>, e) = <<e>>
      OBVIOUS
    <3> QED BY <2>3, <2>4, <2>5, <3>1, <3>2
  <2>6. CASE g # <<>>
    <3>1. X!Line(g) \in Seq(C)
      BY <2>2, LineType
    <3>2. X!Split((X!Line(g) \o <<"*">>) \o e, "*") = Append(X!Split(X!Line(g), "*"), e)
      BY <2>1, <3>1, SplitLast
    <3>3. X!Split(X!Line(g), "*") = g
      BY <1>2, <2>6
    <3> QED BY <2>3, <2>4, <2>6, <3>2, <3>3
  <2> QED BY <2>5, <2>6
<1>3. seg \in S
  <2> HIDE DEF S
  <2> QED BY <1>1, <1>2, SeqInduct
<1> QED BY <1>3

LEMMA LineIsSome ==
  ASSUME NEW C, "*" \in C, NEW seg \in Seq(Seq(C)), seg # <<>>, seg[1] # <<>>
  PROVE  X!Line(seg) # <<>>
<1>1. PICK g \in Seq(Seq(C)), e \in Seq(C) : seg = Append(g, e)
  BY SequenceEmptyOrAppend
<1>2. X!Line(seg) = IF g = <<>> THEN e ELSE (X!Line(g) \o <<"*">>) \o e
  BY <1>1, LineAppend
<1>3. CASE g = <<>>
  <2>1. Append(<<>>, e)[1] = e
    OBVIOUS
  <2> QED BY <1>1, <1>2, <1>3, <2>1
<1>4. CASE g # <<>>
  <2>1. X!Line(g) \in Seq(C)
    BY LineType
  <2>2. X!Line(g) \o <<"*">> = Append(X!Line(g), "*")
    BY <2>1, AppendIsConcat
  <2>3. X!Line(g) \o <<"*">> \in Seq(C) /\ X!Line(g) \o <<"*">> # <<>>
    BY <2>1, <2>2, AppendProperties
  <2>4. (X!Line(g) \o <<"*">>) \o e # <<>>
    BY <2>3, ConcatEqualIffEmpty
  <2> QED BY <1>2, <1>4, <2>4
<1> QED BY <1>3, <1>4

-----------------------------------------------------------------------------
Lines(C) == [seg \in Seq(Seq(C)) |-> X!Line(seg)]

LEMMA LinesType ==
  ASSUME NEW C, "*" \in C
  PROVE  Lines(C) \in [Seq(Seq(C)) -> Seq(C)]
BY LineType DEF Lines

(* A segment's line, behind a newline unless it is the first. *)
Led(seg, i) == (IF i = 1 THEN <<>> ELSE <<"space">>) \o X!Line(seg)
LedSeq(segs) == [i \in 1 .. Len(segs) |-> Led(segs[i], i)]

Closing(C) == [l \in Seq(C) |-> l \o <<"~">>]

LEMMA LedType ==
  ASSUME NEW C, "*" \in C, "space" \in C, NEW seg \in Seq(Seq(C)), NEW i
  PROVE  Led(seg, i) \in Seq(C)
<1>1. (IF i = 1 THEN <<>> ELSE <<"space">>) \in Seq(C)
  BY EmptySeq
<1> QED BY <1>1, LineType, ConcatProperties DEF Led

LEMMA LedSeqType ==
  ASSUME NEW C, "*" \in C, "space" \in C, NEW segs \in Seq(Seq(Seq(C)))
  PROVE  LedSeq(segs) \in Seq(Seq(C)) /\ Len(LedSeq(segs)) = Len(segs) /\ \A i \in 1 .. Len(segs) : LedSeq(segs)[i] = Led(segs[i], i)
<1>1. Len(segs) \in Nat /\ \A i \in 1 .. Len(segs) : segs[i] \in Seq(Seq(C))
  BY LenProperties, ElementOfSeq
<1>2. \A i \in 1 .. Len(segs) : Led(segs[i], i) \in Seq(C)
  BY <1>1, LedType
<1> QED BY <1>1, <1>2 DEF LedSeq

LEMMA LedSeqAppend ==
  ASSUME NEW C, "*" \in C, "space" \in C, NEW segs \in Seq(Seq(Seq(C))), NEW seg \in Seq(Seq(C))
  PROVE  LedSeq(Append(segs, seg)) = Append(LedSeq(segs), Led(seg, Len(segs) + 1))
<1> DEFINE a == Append(segs, seg)
           l == Led(seg, Len(segs) + 1)
           p == LedSeq(a)
           q == LedSeq(segs)
           r == Append(q, l)
<1>1. PICK n : n = Len(segs)
  OBVIOUS
<1>2. a \in Seq(Seq(Seq(C))) /\ Len(a) = n + 1 /\ n \in Nat /\ a[n + 1] = seg /\ \A i \in 1 .. n : a[i] = segs[i]
  BY <1>1, AppendProperties, LenProperties
<1> HIDE DEF a
<1>3. p \in Seq(Seq(C)) /\ Len(p) = n + 1 /\ \A i \in 1 .. n + 1 : p[i] = Led(a[i], i)
  BY <1>2, LedSeqType
<1>4. q \in Seq(Seq(C)) /\ Len(q) = n /\ \A i \in 1 .. n : q[i] = Led(segs[i], i)
  BY <1>1, LedSeqType
<1>5. l \in Seq(C) /\ l = Led(seg, n + 1)
  BY <1>1, LedType
<1> HIDE DEF p, q, l
<1>6. r \in Seq(Seq(C)) /\ Len(r) = n + 1 /\ r[n + 1] = l /\ \A i \in 1 .. n : r[i] = q[i]
  <2>1. r \in Seq(Seq(C)) /\ Len(r) = Len(q) + 1 /\ r[Len(q) + 1] = l /\ \A i \in 1 .. Len(q) : r[i] = q[i]
    BY <1>4, <1>5, AppendProperties
  <2> HIDE DEF r
  <2> QED BY <1>4, <2>1
<1> HIDE DEF r
<1>7. ASSUME NEW i \in 1 .. n + 1 PROVE p[i] = r[i]
  <2>1. i \in 1 .. n \/ i = n + 1
    BY <1>2
  <2> QED BY <1>2, <1>3, <1>4, <1>5, <1>6, <2>1
<1>8. p = r
  BY <1>3, <1>6, <1>7, SeqEqual
<1> QED BY <1>8 DEF p, q, r, l, a

LEMMA ClosingType ==
  ASSUME NEW C, "~" \in C
  PROVE  Closing(C) \in [Seq(C) -> Seq(C)]
<1>1. <<"~">> \in Seq(C)
  OBVIOUS
<1>2. \A l \in Seq(C) : l \o <<"~">> \in Seq(C)
  BY <1>1, ConcatProperties
<1> QED BY <1>2 DEF Closing

LEMMA TextIsFlat ==
  ASSUME NEW C, "*" \in C, "space" \in C, NEW segs \in Seq(Seq(Seq(C)))
  PROVE  X!Text(segs) = X!Flatten(Mapped(Closing(C), LedSeq(segs)))
<1>1. Len(segs) \in Nat /\ DOMAIN segs = 1 .. Len(segs) /\ \A i \in 1 .. Len(segs) : segs[i] \in Seq(Seq(C))
  BY LenProperties, ElementOfSeq
<1>2. \A i \in 1 .. Len(segs) : Led(segs[i], i) \in Seq(C)
  BY <1>1, LedType
<1>3. DOMAIN LedSeq(segs) = 1 .. Len(segs)
  BY DEF LedSeq
<1>4. [i \in DOMAIN segs |-> ((IF i = 1 THEN <<>> ELSE <<"space">>) \o X!Line(segs[i])) \o <<"~">>]
      = [i \in 1 .. Len(segs) |-> Led(segs[i], i) \o <<"~">>]
  BY <1>1 DEF Led
<1>5. [i \in 1 .. Len(segs) |-> Led(segs[i], i) \o <<"~">>] = Mapped(Closing(C), LedSeq(segs))
  <2>1. \A i \in 1 .. Len(segs) : Closing(C)[LedSeq(segs)[i]] = Led(segs[i], i) \o <<"~">>
    BY <1>2 DEF Closing, LedSeq
  <2> QED BY <1>3, <2>1 DEF Mapped
<1> QED BY <1>4, <1>5 DEF X!Text

LEMMA TextType ==
  ASSUME NEW C, "*" \in C, "~" \in C, "space" \in C, NEW segs \in Seq(Seq(Seq(C)))
  PROVE  X!Text(segs) \in Seq(C)
<1>1. Mapped(Closing(C), LedSeq(segs)) \in Seq(Seq(C))
  BY ClosingType, LedSeqType, MappedType
<1> QED BY <1>1, TextIsFlat, FlattenType

LEMMA TextAppend ==
  ASSUME NEW C, "*" \in C, "~" \in C, "space" \in C, NEW segs \in Seq(Seq(Seq(C))), NEW seg \in Seq(Seq(C))
  PROVE  X!Text(Append(segs, seg)) = (X!Text(segs) \o Led(seg, Len(segs) + 1)) \o <<"~">>
<1> DEFINE f == Closing(C)
           q == LedSeq(segs)
           l == Led(seg, Len(segs) + 1)
<1>1. Append(segs, seg) \in Seq(Seq(Seq(C)))
  BY AppendProperties
<1>2. q \in Seq(Seq(C)) /\ l \in Seq(C) /\ f \in [Seq(C) -> Seq(C)] /\ LedSeq(Append(segs, seg)) = Append(q, l)
  BY LedSeqType, LedType, ClosingType, LedSeqAppend
<1>3. f[l] = l \o <<"~">>
  BY <1>2 DEF Closing
<1>4. X!Text(Append(segs, seg)) = X!Flatten(Mapped(f, LedSeq(Append(segs, seg)))) /\ X!Text(segs) = X!Flatten(Mapped(f, q))
  BY <1>1, TextIsFlat
<1>5. X!Text(segs) \in Seq(C) /\ <<"~">> \in Seq(C)
  BY TextType
<1> HIDE DEF f, q, l
<1>6. Mapped(f, Append(q, l)) = Append(Mapped(f, q), f[l])
  BY <1>2, MappedAppend
<1>7. Mapped(f, q) \in Seq(Seq(C)) /\ f[l] \in Seq(C)
  BY <1>2, MappedType
<1>8. X!Flatten(Append(Mapped(f, q), f[l])) = X!Flatten(Mapped(f, q)) \o f[l]
  BY <1>7, FlattenAppend
<1>9. X!Text(Append(segs, seg)) = X!Text(segs) \o (l \o <<"~">>)
  BY <1>2, <1>3, <1>4, <1>6, <1>8
<1>10. X!Text(segs) \o (l \o <<"~">>) = (X!Text(segs) \o l) \o <<"~">>
  BY <1>2, <1>5, ConcatAssociative
<1> QED BY <1>9, <1>10 DEF l

LEMMA TextSplit ==
  ASSUME NEW C, "*" \in C, "~" \in C, "space" \in C, NEW segs \in Seq(Seq(Seq(C \ {"~"})))
  PROVE  X!Split(X!Text(segs), "~") = Append(LedSeq(segs), <<>>)
<1> DEFINE D == C \ {"~"}
           S == { g \in Seq(Seq(Seq(D))) : \A u \in Seq(D) :
                    X!Split(X!Text(g) \o u, "~") = Append(LedSeq(g), u) }
<1>1. Seq(D) \subseteq Seq(C) /\ Seq(Seq(D)) \subseteq Seq(Seq(C)) /\ Seq(Seq(Seq(D))) \subseteq Seq(Seq(Seq(C)))
  <2>1. Seq(D) \subseteq Seq(C)
    BY SeqMonotonic
  <2> HIDE DEF D
  <2>2. Seq(Seq(D)) \subseteq Seq(Seq(C))
    BY <2>1, SeqMonotonic
  <2>3. Seq(Seq(Seq(D))) \subseteq Seq(Seq(Seq(C)))
    BY <2>2, SeqMonotonic
  <2> QED BY <2>1, <2>2, <2>3
<1>2. \A u \in Seq(D) : \A i \in 1 .. Len(u) : u[i] # "~"
  BY ElementOfSeq
<1>3. "*" \in D /\ "space" \in D
  OBVIOUS
<1> HIDE DEF D
<1>4. <<>> \in S
  <2>1. ASSUME NEW u \in Seq(D)
        PROVE  X!Split(X!Text(<<>>) \o u, "~") = Append(LedSeq(<<>>), u)
    <3>1. X!Text(<<>>) = <<>>
      <4>1. [i \in DOMAIN <<>> |-> ((IF i = 1 THEN <<>> ELSE <<"space">>) \o X!Line(<<>>[i])) \o <<"~">>] = <<>>
        OBVIOUS
      <4> QED BY <4>1, NothingToFold DEF X!Text
    <3>2. LedSeq(<<>>) = <<>>
      BY DEF LedSeq
    <3>3. <<>> \o u = u /\ Append(<<>>, u) = <<u>>
      BY ConcatEmptySeq
    <3>4. X!Split(u, "~") = <<u>>
      BY <1>1, <1>2, SplitWhole
    <3> QED BY <3>1, <3>2, <3>3, <3>4
  <2> QED BY <2>1, EmptySeq
<1>5. ASSUME NEW g \in Seq(Seq(Seq(D))), NEW seg \in Seq(Seq(D)), g \in S PROVE Append(g, seg) \in S
  <2>1. Append(g, seg) \in Seq(Seq(Seq(D)))
    BY AppendProperties
  <2>2. g \in Seq(Seq(Seq(C))) /\ seg \in Seq(Seq(C))
    BY <1>1
  <2> DEFINE l == Led(seg, Len(g) + 1)
  <2>3. X!Text(Append(g, seg)) = (X!Text(g) \o l) \o <<"~">>
    BY <2>2, TextAppend
  <2>4. l \in Seq(D) /\ l \in Seq(C) /\ X!Text(g) \in Seq(C)
    BY <1>3, <2>2, LedType, TextType
  <2>6. LedSeq(Append(g, seg)) = Append(LedSeq(g), l)
    BY <2>2, LedSeqAppend
  <2> HIDE DEF l
  <2>5. X!Split(X!Text(g) \o l, "~") = Append(LedSeq(g), l)
    BY <1>5, <2>4
  <2>7. ASSUME NEW u \in Seq(D)
        PROVE  X!Split(X!Text(Append(g, seg)) \o u, "~") = Append(LedSeq(Append(g, seg)), u)
    <3> DEFINE t == X!Text(g) \o l
    <3>1. t \in Seq(C)
      BY <2>4, ConcatProperties
    <3>2. u \in Seq(C) /\ \A i \in 1 .. Len(u) : u[i] # "~"
      BY <1>1, <1>2
    <3>3. X!Text(Append(g, seg)) = t \o <<"~">> /\ X!Split(t, "~") = Append(LedSeq(g), l)
      BY <2>3, <2>5
    <3> HIDE DEF t
    <3>4. X!Split((t \o <<"~">>) \o u, "~") = Append(X!Split(t, "~"), u)
      BY <3>1, <3>2, SplitLast
    <3> QED BY <2>6, <3>3, <3>4
  <2> QED BY <2>1, <2>7
<1>6. segs \in S
  <2> HIDE DEF S
  <2>1. segs \in Seq(Seq(Seq(D)))
    BY DEF D
  <2> QED BY <1>4, <1>5, <2>1, SeqInduct
<1>7. <<>> \in Seq(D)
  BY EmptySeq
<1>8. X!Text(segs) \o <<>> = X!Text(segs)
  <2>1. segs \in Seq(Seq(Seq(C)))
    BY <1>1, <1>6
  <2> QED BY <2>1, TextType, ConcatEmptySeq
<1>9. X!Split(X!Text(segs) \o <<>>, "~") = Append(LedSeq(segs), <<>>)
  BY <1>6, <1>7
<1> QED BY <1>8, <1>9

-----------------------------------------------------------------------------
Filled(C) == Seq(C) \ {<<>>}

(* The parts without the spaces around them. *)
Bared(parts) == [i \in DOMAIN parts |-> X!Trim(parts[i])]

LEMMA BaredType ==
  ASSUME NEW C, NEW parts \in Seq(Seq(C))
  PROVE  Bared(parts) \in Seq(Seq(C)) /\ Len(Bared(parts)) = Len(parts)
         /\ \A i \in 1 .. Len(parts) : Bared(parts)[i] = X!Trim(parts[i])
<1>1. Len(parts) \in Nat /\ DOMAIN parts = 1 .. Len(parts) /\ \A i \in 1 .. Len(parts) : parts[i] \in Seq(C)
  BY LenProperties, ElementOfSeq
<1>2. \A i \in 1 .. Len(parts) : X!Trim(parts[i]) \in Seq(C)
  BY <1>1, TrimType
<1> QED BY <1>1, <1>2 DEF Bared

LEMMA ParseIsPicked ==
  ASSUME NEW C, NEW text \in Seq(C), NEW lines, lines = Picked(Filled(C), Bared(X!Split(text, "~")))
  PROVE  X!ParseX12(text) = [i \in DOMAIN lines |-> X!Split(lines[i], "*")]
<1> DEFINE parts == X!Split(text, "~")
           bared == Bared(parts)
<1>1. parts \in Seq(Seq(C))
  <2>1. parts \in Seq(Seq(C \ {"~"}))
    BY SplitType
  <2>2. Seq(C \ {"~"}) \subseteq Seq(C)
    BY SeqMonotonic
  <2> HIDE DEF parts
  <2> QED BY <2>1, <2>2, SeqMonotonic
<1>2. bared \in Seq(Seq(C))
  <2> HIDE DEF parts
  <2> QED BY <1>1, BaredType
<1>3. bared = [i \in DOMAIN parts |-> X!Trim(parts[i])]
  BY DEF Bared
<1> HIDE DEF bared
<1>4. \A i \in DOMAIN bared : bared[i] # <<>> <=> bared[i] \in Filled(C)
  BY <1>2, LenProperties, ElementOfSeq DEF Filled
<1>5. [i \in DOMAIN bared |-> IF bared[i] # <<>> THEN <<bared[i]>> ELSE <<>>]
      = [i \in DOMAIN bared |-> IF bared[i] \in Filled(C) THEN <<bared[i]>> ELSE <<>>]
  BY <1>4
<1>6. X!Select(LAMBDA l : l # <<>>, bared) = lines
  BY <1>5 DEF Picked, bared, X!Select, X!FlatMap
<1> HIDE DEF parts
<1>7. X!ParseX12(text)
      = LET ls == X!Select(LAMBDA l : l # <<>>, [i \in DOMAIN parts |-> X!Trim(parts[i])])
        IN  [i \in DOMAIN ls |-> X!Split(ls[i], "*")]
  BY DEF X!ParseX12, parts
<1> QED BY <1>3, <1>6, <1>7

(* The lines of a text, behind their newlines and with their spaces, are bared. *)
LEMMA BaredLines ==
  ASSUME NEW C, "*" \in C, "space" \in C, NEW segs \in Seq(Seq(Seq(C))), NEW r, r = X!Received(segs),
         \A i \in 1 .. Len(segs) : segs[i] # <<>> /\ \E id : id # "space" /\ segs[i][1] = <<id>>
  PROVE  Bared(Append(LedSeq(segs), <<>>)) = Append(Mapped(Lines(C), r), <<>>)
<1> DEFINE q == LedSeq(segs)
           a == Append(q, <<>>)
           b == Bared(a)
           m == Mapped(Lines(C), r)
           c == Append(m, <<>>)
<1>1. PICK n : n = Len(segs)
  OBVIOUS
<1>2. n \in Nat /\ \A i \in 1 .. n : segs[i] \in Seq(Seq(C))
  BY <1>1, LenProperties, ElementOfSeq
<1>3. q \in Seq(Seq(C)) /\ Len(q) = n /\ \A i \in 1 .. n : q[i] = Led(segs[i], i)
  BY <1>1, LedSeqType
<1>4. r \in Seq(Seq(Seq(C))) /\ Len(r) = n /\ \A i \in 1 .. n : r[i] = X!TrimLast(segs[i]) /\ r[i] \in Seq(Seq(C))
  BY <1>1, ReceivedFacts, ElementOfSeq
<1>5. m \in Seq(Seq(C)) /\ Len(m) = n /\ \A i \in 1 .. n : m[i] = X!Line(r[i])
  <2>1. m \in Seq(Seq(C))
    BY <1>4, LinesType, MappedType
  <2>2. IsMapped(m, Lines(C), r)
    BY <1>4, MappedFacts
  <2>3. \A i \in 1 .. n : Lines(C)[r[i]] = X!Line(r[i])
    BY <1>4 DEF Lines
  <2> HIDE DEF m
  <2> QED BY <1>4, <2>1, <2>2, <2>3 DEF IsMapped
<1>6. <<>> \in Seq(C)
  BY EmptySeq
<1> HIDE DEF q, m
<1>7. a \in Seq(Seq(C)) /\ Len(a) = n + 1 /\ a[n + 1] = <<>> /\ \A i \in 1 .. n : a[i] = q[i]
  BY <1>3, <1>6, AppendProperties
<1>8. c \in Seq(Seq(C)) /\ Len(c) = n + 1 /\ c[n + 1] = <<>> /\ \A i \in 1 .. n : c[i] = m[i]
  BY <1>5, <1>6, AppendProperties
<1> HIDE DEF a, c
<1>9. b \in Seq(Seq(C)) /\ Len(b) = n + 1 /\ \A i \in 1 .. n + 1 : b[i] = X!Trim(a[i])
  BY <1>7, BaredType
<1> HIDE DEF b
<1>10. ASSUME NEW i \in 1 .. n PROVE X!Trim(Led(segs[i], i)) = X!Line(r[i])
  <2>1. PICK id : id # "space" /\ segs[i][1] = <<id>> /\ segs[i] # <<>>
    BY <1>1
  <2> DEFINE lead == IF i = 1 THEN <<>> ELSE <<"space">>
  <2>2. lead \in Seq(C) /\ \A j \in 1 .. Len(lead) : lead[j] = "space"
    BY EmptySeq
  <2>3. Led(segs[i], i) = lead \o X!Line(segs[i])
    BY DEF Led
  <2> HIDE DEF lead
  <2>4. X!Trim(lead \o X!Line(segs[i])) = X!Line(X!TrimLast(segs[i]))
    BY <1>2, <2>1, <2>2, TrimOfLine
  <2> QED BY <1>4, <2>3, <2>4
<1>11. X!Trim(<<>>) = <<>>
  <2>1. \A i \in 1 .. Len(<<>>) : <<>>[i] = "space"
    OBVIOUS
  <2> QED BY <1>6, <2>1, TrimOfSpaces
<1>12. ASSUME NEW i \in 1 .. n + 1 PROVE b[i] = c[i]
  <2>1. i \in 1 .. n \/ i = n + 1
    BY <1>2
  <2> QED BY <1>3, <1>5, <1>7, <1>8, <1>9, <1>10, <1>11, <2>1
<1>13. b = c
  <2>1. Len(b) = Len(c) /\ \A i \in 1 .. Len(b) : b[i] = c[i]
    BY <1>8, <1>9, <1>12
  <2> QED BY <1>8, <1>9, <2>1, SeqEqual
<1> QED BY <1>13 DEF a, b, c, q, m

LEMMA ReceivedClean ==
  ASSUME NEW C, NEW E, E \subseteq C, "space" \in E, NEW segs \in Seq(Seq(Seq(C)))
  PROVE  segs \in Seq(Seq(Seq(E))) <=> X!Received(segs) \in Seq(Seq(Seq(E)))
<1> DEFINE r == X!Received(segs)
<1>1. segs \in Seq(Seq(Seq(E))) => r \in Seq(Seq(Seq(E)))
  BY ReceivedFacts
<1>2. PICK n : n = Len(segs)
  OBVIOUS
<1>3. n \in Nat /\ \A i \in 1 .. n : segs[i] \in Seq(Seq(C))
  BY <1>2, LenProperties, ElementOfSeq
<1>4. Len(r) = n /\ \A i \in 1 .. n : r[i] = X!TrimLast(segs[i])
  BY <1>2, ReceivedFacts
<1> HIDE DEF r
<1>5. ASSUME r \in Seq(Seq(Seq(E))) PROVE segs \in Seq(Seq(Seq(E)))
  <2>1. ASSUME NEW i \in 1 .. n PROVE segs[i] \in Seq(Seq(E))
    <3> DEFINE g == segs[i]
               t == X!TrimLast(g)
    <3>1. g \in Seq(Seq(C)) /\ t \in Seq(Seq(E))
      BY <1>3, <1>4, <1>5, ElementOfSeq
    <3>2. Len(t) = Len(g) /\ \A k \in 1 .. Len(g) : t[k] = IF k = Len(g) THEN X!TrimEnd(g[k]) ELSE g[k]
      BY <3>1, TrimLastFacts
    <3> HIDE DEF g, t
    <3>3. \A k \in 1 .. Len(g) : g[k] \in Seq(C) /\ t[k] \in Seq(E)
      BY <3>1, <3>2, ElementOfSeq
    <3>4. ASSUME NEW e \in Seq(C), X!TrimEnd(e) \in Seq(E) PROVE e \in Seq(E)
      <4>1. PICK k : EndsAt(e, k)
        BY TrimEndIs
      <4>2. k \in 0 .. Len(e) /\ X!TrimEnd(e) = SubSeq(e, 1, k) /\ \A x \in k + 1 .. Len(e) : e[x] = "space"
        BY <4>1 DEF EndsAt
      <4>3. Len(SubSeq(e, 1, k)) = k /\ \A x \in 1 .. k : SubSeq(e, 1, k)[x] = e[x]
        BY <4>2, SubSeqPrefix
      <4> DEFINE f == X!TrimEnd(e)
      <4>4. f \in Seq(E) /\ Len(f) = k /\ \A x \in 1 .. k : f[x] = e[x]
        BY <3>4, <4>2, <4>3
      <4> HIDE DEF f
      <4>5. \A x \in 1 .. k : f[x] \in E
        BY <4>4, ElementOfSeq
      <4>6. \A x \in 1 .. Len(e) : x \in 1 .. k \/ x \in k + 1 .. Len(e)
        BY <4>2, LenProperties
      <4>7. \A x \in 1 .. Len(e) : e[x] \in E
        BY <4>2, <4>4, <4>5, <4>6
      <4> QED BY <4>7, SeqOfElements
    <3>5. \A k \in 1 .. Len(g) : g[k] \in Seq(E)
      BY <3>2, <3>3, <3>4
    <3>6. g \in Seq(Seq(E))
      BY <3>1, <3>5, SeqOfElements
    <3> QED BY <3>6 DEF g
  <2> QED BY <1>2, <2>1, SeqOfElements
<1> QED BY <1>1, <1>5 DEF r

(* The parser returns the segments of a text whose elements hold no separator, *)
(* without the spaces at their ends.                                           *)
LEMMA ParseOfText ==
  ASSUME NEW C, "*" \in C, "~" \in C, "space" \in C, NEW segs \in Seq(Seq(Seq(C \ {"*", "~"}))),
         \A i \in 1 .. Len(segs) : segs[i] # <<>> /\ \E id : id # "space" /\ segs[i][1] = <<id>>
  PROVE  X!ParseX12(X!Text(segs)) = X!Received(segs)
<1> DEFINE E == C \ {"*", "~"}
<1>1. /\ E \subseteq C /\ E \subseteq C \ {"~"} /\ E \subseteq C \ {"*"} /\ "space" \in E
  OBVIOUS
<1>2. ASSUME NEW F, E \subseteq F PROVE /\ Seq(E) \subseteq Seq(F) /\ Seq(Seq(E)) \subseteq Seq(Seq(F))
                                        /\ Seq(Seq(Seq(E))) \subseteq Seq(Seq(Seq(F)))
  <2> HIDE DEF E
  <2>1. Seq(E) \subseteq Seq(F)
    BY <1>2, SeqMonotonic
  <2>2. Seq(Seq(E)) \subseteq Seq(Seq(F))
    BY <2>1, SeqMonotonic
  <2>3. Seq(Seq(Seq(E))) \subseteq Seq(Seq(Seq(F)))
    BY <2>2, SeqMonotonic
  <2> QED BY <2>1, <2>2, <2>3
<1>3. segs \in Seq(Seq(Seq(E)))
  OBVIOUS
<1> HIDE DEF E
<1>4. /\ segs \in Seq(Seq(Seq(C))) /\ segs \in Seq(Seq(Seq(C \ {"~"})))
      /\ Seq(Seq(E)) \subseteq Seq(Seq(C)) /\ Seq(Seq(E)) \subseteq Seq(Seq(C \ {"*"}))
  BY <1>1, <1>2, <1>3
<1> DEFINE r == X!Received(segs)
           m == Mapped(Lines(C), r)
<1>5. PICK n : n = Len(segs)
  OBVIOUS
<1>6. n \in Nat /\ \A i \in 1 .. n : segs[i] \in Seq(Seq(E))
  BY <1>3, <1>5, LenProperties, ElementOfSeq
<1>7. r \in Seq(Seq(Seq(E))) /\ r \in Seq(Seq(Seq(C))) /\ Len(r) = n /\ \A i \in 1 .. n : r[i] = X!TrimLast(segs[i])
  BY <1>3, <1>4, <1>5, ReceivedFacts
<1>8. \A i \in 1 .. n : r[i] \in Seq(Seq(E)) /\ r[i] # <<>> /\ r[i][1] # <<>>
  <2>1. ASSUME NEW i \in 1 .. n PROVE r[i] # <<>> /\ r[i][1] # <<>>
    <3>1. PICK id : id # "space" /\ segs[i][1] = <<id>> /\ segs[i] # <<>>
      BY <1>5
    <3>2. X!TrimLast(segs[i]) # <<>> /\ X!TrimLast(segs[i])[1] = <<id>>
      BY <1>6, <3>1, NameStays
    <3>3. \A x : <<x>> # <<>>
      OBVIOUS
    <3>4. r[i] = X!TrimLast(segs[i])
      BY <1>7
    <3> QED BY <3>2, <3>3, <3>4
  <2>2. \A i \in 1 .. n : r[i] \in Seq(Seq(E))
    BY <1>7, ElementOfSeq
  <2> QED BY <2>1, <2>2
<1>9. X!Split(X!Text(segs), "~") = Append(LedSeq(segs), <<>>) /\ X!Text(segs) \in Seq(C)
  BY <1>4, TextSplit, TextType
<1>10. Bared(X!Split(X!Text(segs), "~")) = Append(m, <<>>)
  BY <1>4, <1>9, BaredLines
<1> HIDE DEF r
<1>11. m \in Seq(Seq(C)) /\ Len(m) = n /\ \A i \in 1 .. n : m[i] = X!Line(r[i])
  <2>1. m \in Seq(Seq(C))
    BY <1>7, LinesType, MappedType
  <2>2. IsMapped(m, Lines(C), r)
    BY <1>7, MappedFacts
  <2>3. \A i \in 1 .. n : Lines(C)[r[i]] = X!Line(r[i])
    BY <1>4, <1>8 DEF Lines
  <2> HIDE DEF m
  <2> QED BY <1>7, <2>1, <2>2, <2>3 DEF IsMapped
<1> HIDE DEF m
<1>12. m \in Seq(Filled(C))
  <2>1. ASSUME NEW i \in 1 .. Len(m) PROVE m[i] \in Filled(C)
    <3>1. X!Line(r[i]) # <<>>
      BY <1>4, <1>8, <1>11, LineIsSome
    <3>2. m[i] \in Seq(C)
      BY <1>11, ElementOfSeq
    <3> QED BY <1>11, <3>1, <3>2 DEF Filled
  <2> QED BY <1>11, <2>1, SeqOfElements
<1>13. Picked(Filled(C), Append(m, <<>>)) = m
  <2>1. <<>> \in Seq(C) /\ <<>> \notin Filled(C)
    BY EmptySeq DEF Filled
  <2>2. Picked(Filled(C), Append(m, <<>>)) = Picked(Filled(C), m)
    <3>1. \A l \in Seq(C) : l \notin Filled(C) => Picked(Filled(C), Append(m, l)) = Picked(Filled(C), m)
      BY <1>11, PickedAppend
    <3> QED BY <2>1, <3>1
  <2> QED BY <1>12, <2>2, PickedAll
<1>14. X!ParseX12(X!Text(segs)) = [i \in DOMAIN m |-> X!Split(m[i], "*")]
  <2>1. m = Picked(Filled(C), Bared(X!Split(X!Text(segs), "~")))
    BY <1>10, <1>13
  <2> QED BY <1>9, <2>1, ParseIsPicked
<1>15. ASSUME NEW i \in 1 .. n PROVE X!Split(m[i], "*") = r[i]
  <2>1. r[i] \in Seq(Seq(C \ {"*"})) /\ r[i] # <<>>
    BY <1>4, <1>8
  <2>2. X!Split(X!Line(r[i]), "*") = r[i]
    BY <2>1, LineSplit
  <2> QED BY <1>11, <2>2
<1>16. DOMAIN m = 1 .. n /\ r = [i \in 1 .. n |-> r[i]]
  BY <1>7, <1>11, LenProperties
<1> QED BY <1>14, <1>15, <1>16 DEF r

LEMMA ParseType ==
  ASSUME NEW C, NEW text \in Seq(C)
  PROVE  X!ParseX12(text) \in Seq(Seq(Seq(C \ {"*", "~"})))
<1> DEFINE parts == X!Split(text, "~")
           D == C \ {"~"}
           bared == Bared(parts)
           lines == Picked(Filled(C), bared)
<1>1. parts \in Seq(Seq(D))
  BY SplitType
<1>7. bared \in Seq(Seq(D))
  <2> HIDE DEF parts, D
  <2> QED BY <1>1, BaredType
<1> HIDE DEF bared
<1>2. lines \in Seq(Seq(D) \cap Filled(C))
  <2> HIDE DEF D
  <2> QED BY <1>7, PickedType
<1>3. X!ParseX12(text) = [i \in DOMAIN lines |-> X!Split(lines[i], "*")]
  <2>1. lines = Picked(Filled(C), Bared(X!Split(text, "~")))
    BY DEF parts, bared
  <2> HIDE DEF lines, parts
  <2> QED BY <2>1, ParseIsPicked
<1> HIDE DEF lines
<1>4. Len(lines) \in Nat /\ DOMAIN lines = 1 .. Len(lines) /\ \A i \in 1 .. Len(lines) : lines[i] \in Seq(D)
  <2> HIDE DEF D
  <2> QED BY <1>2, LenProperties, ElementOfSeq
<1>5. D \ {"*"} = C \ {"*", "~"}
  OBVIOUS
<1>6. \A i \in 1 .. Len(lines) : X!Split(lines[i], "*") \in Seq(Seq(D \ {"*"}))
  <2> HIDE DEF D
  <2> QED BY <1>4, SplitType
<1> HIDE DEF D
<1> QED BY <1>3, <1>4, <1>5, <1>6

(***************************************************************************)
(* The documents                                                           *)
(***************************************************************************)
(* The words of the generator, which are strings. *)
Words ==
  {"*", "~", "space", "0", "1", "2", "7", "00", "ZZ", "fixed", "U", "00401", "T", ":", "X", "004010",
   "850", "855", "856", "810", "PO", "PR", "SH", "IN", "AC", "EA", "BM", "GM", "F", "S", "P", "I", "VP",
   "line", "shipment", "invoice", "ISA", "GS", "ST", "SE", "GE", "IEA",
   "BEG", "CUR", "PER", "DTM", "N1", "N3", "N4", "CTT", "AMT",
   "BAK", "PO1", "ACK", "BSN", "HL", "TD5", "REF", "MAN", "SN1", "LIN", "BIG", "IT1", "PID", "TDS"}

Chars == STRING \cup Words \cup { X!Decimal(n)[1] : n \in Nat }

LEMMA CharsFacts ==
  /\ "*" \in Chars /\ "~" \in Chars /\ "0" \in Chars /\ "space" \in Chars
  /\ Seq(STRING) \subseteq Seq(Chars)
  /\ <<>> \in Seq(Chars)
  /\ \A w \in Words : <<w>> \in Seq(Chars)
  /\ \A n \in Nat : X!Decimal(n) \in Seq(Chars)
<1>1. STRING \subseteq Chars /\ Words \subseteq Chars
  BY DEF Chars
<1>2. Seq(STRING) \subseteq Seq(Chars)
  BY <1>1, SeqMonotonic
<1>3. \A c \in Chars : <<c>> \in Seq(Chars)
  OBVIOUS
<1>4. ASSUME NEW n \in Nat PROVE X!Decimal(n) \in Seq(Chars)
  <2>1. X!Decimal(n)[1] \in Chars
    BY DEF Chars
  <2>2. X!Decimal(n) = <<X!Decimal(n)[1]>>
    BY DEF X!Decimal
  <2> QED BY <1>3, <2>1, <2>2
<1>5. "*" \in Words /\ "~" \in Words /\ "0" \in Words /\ "space" \in Words
  BY DEF Words
<1> QED BY <1>1, <1>2, <1>3, <1>4, <1>5, EmptySeq

Outer == {"ISA", "GS", "ST", "SE", "GE", "IEA"}
Inner == {"BAK", "PO1", "ACK", "BSN", "HL", "TD5", "REF", "MAN", "SN1", "LIN", "BIG", "IT1", "PID", "TDS"}
         \cup X!OrderIds

(* The segments whose names are in names. *)
Segs(names) == { g \in Seq(Seq(Chars)) : g # <<>> /\ \E id \in names : g[1] = <<id>> }

IsData(d) ==
  /\ d.sender \in Seq(Chars) /\ d.receiver \in Seq(Chars)
  /\ d.control \in Seq(Chars) /\ d.number \in Seq(Chars)
  /\ d.type \in {"850", "855", "856", "810"}

LEMMA PadType ==
  ASSUME NEW C, "space" \in C, NEW id \in Seq(C), NEW len \in Nat
  PROVE  /\ X!Pad(id, len) \in Seq(C) /\ Len(X!Pad(id, len)) = len
         /\ \A i \in 1 .. len : X!Pad(id, len)[i] = IF i <= Len(id) THEN id[i] ELSE "space"
<1>1. Len(id) \in Nat
  BY LenProperties
<1>2. ASSUME NEW i \in 1 .. len PROVE (IF i <= Len(id) THEN id[i] ELSE "space") \in C
  <2>1. i <= Len(id) => i \in 1 .. Len(id)
    BY <1>1
  <2> QED BY <2>1, ElementOfSeq
<1> QED BY <1>2 DEF X!Pad

(* Nothing but spaces is taken from the ends. *)
LEMMA TrimOfNone ==
  ASSUME NEW C, NEW s \in Seq(C), s # <<>>, X!Trim(s) = s
  PROVE  Len(s) \in Nat \ {0} /\ s[1] # "space" /\ s[Len(s)] # "space"
<1> DEFINE ink == X!Ink(s)
<1>1. Len(s) \in Nat \ {0} /\ ink = { i \in 1 .. Len(s) : s[i] # "space" } /\ \A i \in 1 .. Len(s) : s[i] \in C
  BY LenProperties, EmptySeq, ElementOfSeq, InkFacts
<1>2. ink # {}
  BY DEF X!Trim
<1>3. PICK lo \in ink : \A i \in ink : lo <= i
  <2>1. ink \subseteq Nat
    BY <1>1
  <2> HIDE DEF ink
  <2> QED BY <1>2, <2>1, LeastElement
<1>4. PICK hi \in ink : hi = X!Max(ink)
  BY <1>2, InkFacts
<1>5. s = SubSeq(s, lo, hi)
  <2>1. X!Min(ink) = lo
    BY <1>3, InkFacts
  <2> QED BY <1>2, <1>4, <2>1 DEF X!Trim
<1> HIDE DEF ink
<1>6. lo \in 1 .. Len(s) /\ hi \in 1 .. Len(s) /\ lo <= hi /\ s[lo] # "space" /\ s[hi] # "space"
  BY <1>1, <1>3, <1>4
<1>7. Len(SubSeq(s, lo, hi)) = hi - lo + 1
  <2>1. lo \in Int /\ hi \in Int /\ \A i \in lo .. hi : s[i] \in C
    BY <1>1, <1>6
  <2>2. Len(SubSeq(s, lo, hi)) = IF lo <= hi THEN hi - lo + 1 ELSE 0
    BY <2>1, SubSeqProperties
  <2> QED BY <1>6, <2>2
<1>8. PICK n \in Nat : n = Len(s)
  BY <1>1
<1>9. n = hi - lo + 1
  BY <1>5, <1>7, <1>8
<1>10. lo \in 1 .. n /\ hi \in 1 .. n
  BY <1>6, <1>8
<1>11. lo = 1 /\ hi = n
  BY <1>8, <1>9, <1>10
<1> QED BY <1>1, <1>6, <1>8, <1>11

LEMMA TrimOfPad ==
  ASSUME NEW C, NEW id \in Seq(C), NEW w \in Seq(C), NEW m \in Nat \ {0}, Len(id) = m, m <= Len(w),
         id[1] # "space", id[m] # "space",
         \A i \in 1 .. Len(w) : w[i] = IF i <= m THEN id[i] ELSE "space"
  PROVE  X!Trim(w) = id
<1>1. PICK len \in Nat : len = Len(w)
  BY LenProperties
<1>2. 1 \in 1 .. Len(w) /\ m \in 1 .. Len(w) /\ m \in 0 .. Len(w) /\ w[1] # "space" /\ w[m] # "space"
  BY <1>1
<1>3. \A i \in 1 .. Len(w) : i < 1 \/ m < i => w[i] = "space"
  BY <1>1
<1>4. X!Trim(w) = SubSeq(w, 1, m)
  BY <1>2, <1>3, TrimIs
<1> DEFINE p == SubSeq(w, 1, m)
<1>5. p \in Seq(C) /\ Len(p) = m /\ \A i \in 1 .. m : p[i] = w[i]
  BY <1>2, PrefixType, SubSeqPrefix
<1> HIDE DEF p
<1>6. \A i \in 1 .. m : p[i] = id[i]
  <2>1. \A i \in 1 .. m : i \in 1 .. Len(w) /\ i <= m
    BY <1>1
  <2> QED BY <1>5, <2>1
<1>7. p = id
  BY <1>5, <1>6, SeqEqual
<1> QED BY <1>4, <1>7 DEF p

LEMMA PadTrims ==
  ASSUME NEW C, "space" \in C, NEW id \in Seq(C), NEW len \in Nat, Len(id) <= len, X!Trim(id) = id
  PROVE  X!Trim(X!Pad(id, len)) = id
<1> DEFINE w == X!Pad(id, len)
<1>1. w \in Seq(C) /\ Len(w) = len /\ \A i \in 1 .. len : w[i] = IF i <= Len(id) THEN id[i] ELSE "space"
  BY PadType
<1>2. PICK m \in Nat : m = Len(id)
  BY LenProperties
<1> HIDE DEF w
<1>3. CASE id = <<>>
  <2>1. m = 0
    BY <1>2, <1>3
  <2>2. \A i \in 1 .. Len(w) : w[i] = "space"
    BY <1>1, <1>2, <2>1
  <2> QED BY <1>1, <1>3, <2>2, TrimOfSpaces DEF w
<1>4. CASE id # <<>>
  <2>1. m \in Nat \ {0} /\ id[1] # "space" /\ id[m] # "space"
    BY <1>2, <1>4, TrimOfNone
  <2>2. m <= Len(w) /\ \A i \in 1 .. Len(w) : w[i] = IF i <= m THEN id[i] ELSE "space"
    BY <1>1, <1>2
  <2>3. X!Trim(w) = id
    BY <1>1, <1>2, <2>1, <2>2, TrimOfPad
  <2> QED BY <2>3 DEF w
<1> QED BY <1>3, <1>4

LEMMA PadNumType ==
  ASSUME NEW C, "0" \in C, NEW val \in Seq(C), NEW n \in Nat
  PROVE  /\ X!PadNum(val, n) \in Seq(C) /\ Len(X!PadNum(val, n)) = n
         /\ Len(val) <= n => \A i \in 1 .. Len(val) : X!PadNum(val, n)[n - Len(val) + i] = val[i]
         /\ X!NoSpace(val) => \A i \in 1 .. n : X!PadNum(val, n)[i] # "space"
<1> DEFINE zeros == IF Len(val) < n THEN n - Len(val) ELSE 0
<1>1. Len(val) \in Nat
  BY LenProperties
<1>2. zeros \in Nat /\ n - zeros <= Len(val) /\ (Len(val) <= n => zeros = n - Len(val))
  BY <1>1
<1>3. X!PadNum(val, n) = [i \in 1 .. n |-> IF i <= zeros THEN "0" ELSE val[i - zeros]]
  BY DEF X!PadNum
<1> HIDE DEF zeros
<1>4. ASSUME NEW i \in 1 .. n PROVE (IF i <= zeros THEN "0" ELSE val[i - zeros]) \in C
  <2>1. CASE i <= zeros
    BY <2>1
  <2>2. CASE ~(i <= zeros)
    <3>1. i - zeros \in 1 .. Len(val)
      BY <1>1, <1>2, <2>2
    <3> QED BY <2>2, <3>1, ElementOfSeq
  <2> QED BY <2>1, <2>2
<1>5. X!PadNum(val, n) \in Seq(C) /\ Len(X!PadNum(val, n)) = n
  BY <1>3, <1>4
<1>6. ASSUME Len(val) <= n, NEW i \in 1 .. Len(val) PROVE X!PadNum(val, n)[n - Len(val) + i] = val[i]
  <2> DEFINE k == n - Len(val) + i
  <2>1. k \in 1 .. n /\ ~(k <= zeros) /\ k - zeros = i
    BY <1>1, <1>2, <1>6
  <2> HIDE DEF k
  <2>2. X!PadNum(val, n)[k] = val[k - zeros]
    BY <1>3, <2>1
  <2> QED BY <2>1, <2>2 DEF k
<1>7. ASSUME X!NoSpace(val), NEW i \in 1 .. n PROVE X!PadNum(val, n)[i] # "space"
  <2>1. \A j \in 1 .. Len(val) : val[j] # "space"
    <3>1. DOMAIN val = 1 .. Len(val)
      BY LenProperties
    <3> QED BY <1>7, <3>1 DEF X!NoSpace, X!ToSet
  <2>2. ~(i <= zeros) => i - zeros \in 1 .. Len(val)
    BY <1>1, <1>2
  <2>3. X!PadNum(val, n)[i] = IF i <= zeros THEN "0" ELSE val[i - zeros]
    BY <1>3
  <2>4. "0" # "space"
    OBVIOUS
  <2> QED BY <2>1, <2>2, <2>3, <2>4
<1> QED BY <1>5, <1>6, <1>7

(* A number without spaces is not trimmed. *)
LEMMA PadNumStays ==
  ASSUME NEW C, "0" \in C, NEW val \in Seq(C), NEW n \in Nat \ {0}, X!NoSpace(val)
  PROVE  X!TrimEnd(X!PadNum(val, n)) = X!PadNum(val, n) /\ X!Trim(X!PadNum(val, n)) = X!PadNum(val, n)
<1> DEFINE w == X!PadNum(val, n)
<1>1. w \in Seq(C) /\ Len(w) = n /\ \A i \in 1 .. n : w[i] # "space"
  BY PadNumType
<1> HIDE DEF w
<1>2. X!TrimEnd(w) = w
  BY <1>1, TrimEndIs
<1>3. X!Trim(w) = SubSeq(w, 1, n)
  <2>1. 1 \in 1 .. Len(w) /\ n \in 1 .. Len(w) /\ w[1] # "space" /\ w[n] # "space"
    BY <1>1
  <2>2. \A i \in 1 .. Len(w) : ~(i < 1 \/ n < i)
    BY <1>1
  <2> QED BY <1>1, <2>1, <2>2, TrimIs
<1>4. SubSeq(w, 1, n) = w
  BY <1>1, SubSeqFull
<1> QED BY <1>2, <1>3, <1>4 DEF w

ISA(d) ==
  <<<<"ISA">>, <<"00">>, X!Pad(<<>>, 10), <<"00">>, X!Pad(<<>>, 10),
    <<"ZZ">>, X!Pad(d.sender, 15), <<"ZZ">>, X!Pad(d.receiver, 15), <<"fixed">>, <<"fixed">>, <<"U">>, <<"00401">>, X!PadNum(d.control, 9), <<"0">>, <<"T">>, <<":">>>>
GS(d) ==
  <<<<"GS">>, <<X!FunctionalCode[d.type]>>, d.sender, d.receiver, <<"fixed">>, <<"fixed">>,
    d.control, <<"X">>, <<"004010">>>>
ST(d) == <<<<"ST">>, <<d.type>>, X!PadNum(d.control, 4)>>
SE(d, n) == <<<<"SE">>, X!Decimal(n), X!PadNum(d.control, 4)>>
GE(d) == <<<<"GE">>, <<"1">>, d.control>>
IEA(d) == <<<<"IEA">>, <<"1">>, X!PadNum(d.control, 9)>>

LEMMA OuterTypes ==
  ASSUME NEW d, IsData(d), NEW n \in Nat
  PROVE  /\ ISA(d) \in Segs({"ISA"}) /\ GS(d) \in Segs({"GS"}) /\ ST(d) \in Segs({"ST"})
         /\ SE(d, n) \in Segs({"SE"}) /\ GE(d) \in Segs({"GE"}) /\ IEA(d) \in Segs({"IEA"})
<1> DEFINE E == Seq(Chars)
<1>1. <<>> \in E /\ \A w \in Words : <<w>> \in E
  BY CharsFacts
<1>2. /\ X!Pad(d.sender, 15) \in E /\ X!Pad(d.receiver, 15) \in E /\ X!Pad(<<>>, 10) \in E
      /\ X!PadNum(d.control, 9) \in E /\ X!PadNum(d.control, 4) \in E
  BY CharsFacts, PadType, PadNumType DEF IsData
<1>3. d.sender \in E /\ d.receiver \in E /\ d.control \in E /\ X!Decimal(n) \in E
  BY CharsFacts DEF IsData
<1>4. <<d.type>> \in E /\ <<X!FunctionalCode[d.type]>> \in E
  <2>1. d.type \in Words /\ X!FunctionalCode[d.type] \in Words
    BY DEF IsData, X!FunctionalCode, Words
  <2> QED BY <1>1, <2>1
<1> HIDE DEF E
<1>5. /\ <<"ISA">> \in E /\ <<"00">> \in E /\ <<"ZZ">> \in E /\ <<"fixed">> \in E /\ <<"U">> \in E
      /\ <<"00401">> \in E /\ <<"0">> \in E /\ <<"T">> \in E /\ <<":">> \in E
      /\ <<"GS">> \in E /\ <<"X">> \in E /\ <<"004010">> \in E /\ <<"ST">> \in E /\ <<"SE">> \in E
      /\ <<"GE">> \in E /\ <<"1">> \in E /\ <<"IEA">> \in E
  BY <1>1 DEF Words
<1>6. ISA(d) \in Seq(E) /\ ISA(d) # <<>> /\ ISA(d)[1] = <<"ISA">>
  BY <1>1, <1>2, <1>5 DEF ISA
<1>7. GS(d) \in Seq(E) /\ GS(d) # <<>> /\ GS(d)[1] = <<"GS">>
  BY <1>3, <1>4, <1>5 DEF GS
<1>8. ST(d) \in Seq(E) /\ ST(d) # <<>> /\ ST(d)[1] = <<"ST">>
  BY <1>2, <1>4, <1>5 DEF ST
<1>9. SE(d, n) \in Seq(E) /\ SE(d, n) # <<>> /\ SE(d, n)[1] = <<"SE">>
  BY <1>2, <1>3, <1>5 DEF SE
<1>10. GE(d) \in Seq(E) /\ GE(d) # <<>> /\ GE(d)[1] = <<"GE">>
  BY <1>3, <1>5 DEF GE
<1>11. IEA(d) \in Seq(E) /\ IEA(d) # <<>> /\ IEA(d)[1] = <<"IEA">>
  BY <1>2, <1>5 DEF IEA
<1> QED BY <1>6, <1>7, <1>8, <1>9, <1>10, <1>11 DEF Segs, E

LEMMA SegsMonotonic ==
  ASSUME NEW I, NEW J, I \subseteq J
  PROVE  Segs(I) \subseteq Segs(J) /\ Seq(Segs(I)) \subseteq Seq(Segs(J))
<1>1. Segs(I) \subseteq Segs(J)
  BY DEF Segs
<1> QED BY <1>1, SeqMonotonic

Header(d) == <<ISA(d), GS(d), ST(d)>>
Trailer(d, n) == <<SE(d, n), GE(d), IEA(d)>>

(* A document of n segments from ST to SE. *)
IsEnveloped(s, d, body, n) ==
  /\ Len(s) = Len(body) + 6
  /\ s[1] = ISA(d) /\ s[2] = GS(d) /\ s[3] = ST(d)
  /\ \A i \in 1 .. Len(body) : s[3 + i] = body[i]
  /\ s[Len(body) + 4] = SE(d, n) /\ s[Len(body) + 5] = GE(d) /\ s[Len(body) + 6] = IEA(d)

LEMMA HeaderAndTrailer ==
  ASSUME NEW d, IsData(d), NEW n \in Nat
  PROVE  /\ Header(d) \in Seq(Segs(Outer)) /\ Len(Header(d)) = 3
         /\ Trailer(d, n) \in Seq(Segs(Outer)) /\ Len(Trailer(d, n)) = 3
         /\ Header(d)[1] = ISA(d) /\ Header(d)[2] = GS(d) /\ Header(d)[3] = ST(d)
         /\ Trailer(d, n)[1] = SE(d, n) /\ Trailer(d, n)[2] = GE(d) /\ Trailer(d, n)[3] = IEA(d)
<1>1. /\ ISA(d) \in Segs(Outer) /\ GS(d) \in Segs(Outer) /\ ST(d) \in Segs(Outer)
      /\ SE(d, n) \in Segs(Outer) /\ GE(d) \in Segs(Outer) /\ IEA(d) \in Segs(Outer)
  <2>1. \A id \in Outer : Segs({id}) \subseteq Segs(Outer)
    BY SegsMonotonic
  <2> QED BY <2>1, OuterTypes DEF Outer
<1> QED BY <1>1 DEF Header, Trailer

LEMMA LastThree ==
  ASSUME NEW v, NEW w, NEW b, NEW m \in Nat,
         \A i \in 1 .. m + 6 : v[i] = IF i <= 3 + m THEN w[i] ELSE b[i - (3 + m)]
  PROVE  v[m + 4] = b[1] /\ v[m + 5] = b[2] /\ v[m + 6] = b[3]
<1>1. m + 4 \in 1 .. m + 6 /\ ~(m + 4 <= 3 + m) /\ m + 4 - (3 + m) = 1
  OBVIOUS
<1>2. m + 5 \in 1 .. m + 6 /\ ~(m + 5 <= 3 + m) /\ m + 5 - (3 + m) = 2
  OBVIOUS
<1>3. m + 6 \in 1 .. m + 6 /\ ~(m + 6 <= 3 + m) /\ m + 6 - (3 + m) = 3
  OBVIOUS
<1> QED BY <1>1, <1>2, <1>3

LEMMA EnvelopeShape ==
  ASSUME NEW d, IsData(d), NEW n \in Nat, NEW I, NEW body \in Seq(Segs(I))
  PROVE  /\ X!Envelope(d, body, n) = (Header(d) \o body) \o Trailer(d, n)
         /\ X!Envelope(d, body, n) \in Seq(Segs(I \cup Outer))
         /\ IsEnveloped(X!Envelope(d, body, n), d, body, n)
<1> DEFINE S == Segs(I \cup Outer)
           f == Header(d)
           b == Trailer(d, n)
           s == (f \o body) \o b
           m == Len(body)
<1>1. X!Envelope(d, body, n) = s
  BY DEF X!Envelope, Header, Trailer, ISA, GS, ST, SE, GE, IEA
<1>2. f \in Seq(S) /\ b \in Seq(S) /\ body \in Seq(S)
  BY HeaderAndTrailer, SegsMonotonic
<1>3. /\ Len(f) = 3 /\ f[1] = ISA(d) /\ f[2] = GS(d) /\ f[3] = ST(d)
      /\ Len(b) = 3 /\ b[1] = SE(d, n) /\ b[2] = GE(d) /\ b[3] = IEA(d)
      /\ m \in Nat
  BY HeaderAndTrailer, LenProperties
<1> HIDE DEF f, b, S
<1> DEFINE w == f \o body
<1>4. /\ w \in Seq(S) /\ Len(w) = 3 + m
      /\ \A i \in 1 .. 3 + m : w[i] = IF i <= 3 THEN f[i] ELSE body[i - 3]
  <2>1. /\ w \in Seq(S) /\ Len(w) = Len(f) + Len(body)
        /\ \A i \in 1 .. Len(f) + Len(body) : w[i] = IF i <= Len(f) THEN f[i] ELSE body[i - Len(f)]
    BY <1>2, ConcatProperties
  <2> HIDE DEF w
  <2> QED BY <1>3, <2>1
<1> HIDE DEF w, m
<1>12. m \in Nat
  BY <1>3
<1>5. /\ w \o b \in Seq(S) /\ Len(w \o b) = 3 + m + 3
      /\ \A i \in 1 .. 3 + m + 3 : (w \o b)[i] = IF i <= 3 + m THEN w[i] ELSE b[i - (3 + m)]
  <2> DEFINE v == w \o b
  <2>1. /\ v \in Seq(S) /\ Len(v) = Len(w) + Len(b)
        /\ \A i \in 1 .. Len(w) + Len(b) : v[i] = IF i <= Len(w) THEN w[i] ELSE b[i - Len(w)]
    BY <1>2, <1>4, ConcatProperties
  <2> HIDE DEF v
  <2>2. Len(w) = 3 + m /\ Len(b) = 3
    BY <1>3, <1>4
  <2>3. /\ v \in Seq(S) /\ Len(v) = 3 + m + 3
        /\ \A i \in 1 .. 3 + m + 3 : v[i] = IF i <= 3 + m THEN w[i] ELSE b[i - (3 + m)]
    BY <2>1, <2>2
  <2> QED BY <2>3 DEF v
<1> DEFINE v == w \o b
<1>6. v = s
  BY DEF w
<1>7. /\ v \in Seq(S) /\ Len(v) = m + 6
      /\ \A i \in 1 .. m + 6 : v[i] = IF i <= 3 + m THEN w[i] ELSE b[i - (3 + m)]
  BY <1>3, <1>5
<1> HIDE DEF v, s
<1>8. v[1] = f[1] /\ v[2] = f[2] /\ v[3] = f[3]
  <2>1. ASSUME NEW k \in 1 .. 3 PROVE v[k] = f[k]
    <3>1. k \in 1 .. m + 6 /\ k <= 3 + m /\ k \in 1 .. 3 + m /\ k <= 3
      BY <1>3
    <3> QED BY <1>4, <1>7, <3>1
  <2> QED BY <2>1
<1>9. ASSUME NEW i \in 1 .. m PROVE v[3 + i] = body[i]
  <2>1. 3 + i \in 1 .. m + 6 /\ 3 + i <= 3 + m /\ 3 + i \in 1 .. 3 + m /\ ~(3 + i <= 3) /\ 3 + i - 3 = i
    BY <1>3
  <2>2. v[3 + i] = w[3 + i]
    BY <1>7, <2>1
  <2> QED BY <1>4, <2>1, <2>2
<1>10. v[m + 4] = b[1] /\ v[m + 5] = b[2] /\ v[m + 6] = b[3]
  BY <1>7, <1>12, LastThree
<1>11. IsEnveloped(v, d, body, n)
  BY <1>3, <1>7, <1>8, <1>9, <1>10 DEF IsEnveloped, m
<1> QED BY <1>1, <1>6, <1>7, <1>11 DEF S, s, f, b

Rows == [a : Seq(Chars), b : Seq(Chars)]

OrderSegs == { g \in Segs(X!OrderIds) : X!IsOrderSegment(g) }

IsDocument(d) ==
  /\ IsData(d)
  /\ d.type \in {"855", "810"} => d.items \in Seq(Rows)
  /\ d.type = "856" => d.items \in Seq(Seq(Seq(Chars)))
  /\ d.type = "850" => d.items \in Seq(OrderSegs)

LEMMA DocsAreDocuments == \A d \in Docs : IsDocument(d)
<1> DEFINE S == Seq(STRING)
           E == Seq(Chars)
<1>1. S \subseteq E /\ Seq(S) \subseteq Seq(E) /\ Seq(Seq(S)) \subseteq Seq(Seq(E))
  <2>1. S \subseteq E
    BY CharsFacts
  <2> QED BY <2>1, SeqMonotonic
<1>2. TAKE d \in Docs
<1> HIDE DEF S, E
<1>3. /\ d.number \in E /\ d.control \in E /\ d.sender \in E /\ d.receiver \in E
      /\ \/ d.type \in {"855", "810"} /\ d.items \in Seq([a : S, b : S])
         \/ d.type = "856" /\ d.items \in Seq(Seq(S))
         \/ d.type = "850" /\ d.items \in Seq(Seq(S)) /\ \A i \in DOMAIN d.items : X!IsOrderSegment(d.items[i])
  <2>1. /\ {d.number, d.control, d.sender, d.receiver} \subseteq S
        /\ \/ d.type \in {"855", "810"} /\ d.items \in Seq([a : S, b : S])
           \/ d.type = "856" /\ d.items \in Seq(Seq(S))
           \/ d.type = "850" /\ d.items \in Seq(Seq(S)) /\ \A i \in DOMAIN d.items : X!IsOrderSegment(d.items[i])
    BY DocumentsAssumption DEF S
  <2> QED BY <1>1, <2>1
<1>4. IsData(d)
  BY <1>3 DEF IsData, E
<1>5. CASE d.type \in {"855", "810"} /\ d.items \in Seq([a : S, b : S])
  <2>1. [a : S, b : S] \subseteq Rows
    BY <1>1 DEF Rows, E
  <2>2. d.items \in Seq(Rows)
    BY <1>5, <2>1, SeqMonotonic
  <2> QED BY <1>4, <1>5, <2>2 DEF IsDocument
<1>6. CASE d.type = "856" /\ d.items \in Seq(Seq(S))
  BY <1>1, <1>4, <1>6 DEF IsDocument, E
<1>7. CASE d.type = "850" /\ d.items \in Seq(Seq(S)) /\ \A i \in DOMAIN d.items : X!IsOrderSegment(d.items[i])
  <2>1. d.items \in Seq(Seq(E))
    BY <1>1, <1>7
  <2>2. DOMAIN d.items = 1 .. Len(d.items) /\ \A i \in 1 .. Len(d.items) : d.items[i] \in Seq(E)
    BY <2>1, LenProperties, ElementOfSeq
  <2>3. \A g \in Seq(E) : X!IsOrderSegment(g) => g \in OrderSegs
    BY DEF OrderSegs, Segs, X!IsOrderSegment, E
  <2>4. \A i \in 1 .. Len(d.items) : d.items[i] \in OrderSegs
    BY <1>7, <2>2, <2>3
  <2>5. d.items \in Seq(OrderSegs)
    BY <2>1, <2>4, SeqOfElements
  <2> QED BY <1>4, <1>7, <2>5 DEF IsDocument
<1> QED BY <1>3, <1>5, <1>6, <1>7

(* The segments of the generator, of which the last two name their number of elements. *)
Quiet == Inner \ {"HL"}

LEMMA SegTypes ==
  ASSUME NEW a \in Seq(Chars), NEW b \in Seq(Chars)
  PROVE  /\ <<<<"BAK">>, <<"00">>, <<"AC">>, a, <<"fixed">>>> \in Segs(Quiet)
         /\ <<<<"PO1">>, <<"line">>, a, <<"EA">>, <<>>, <<>>, <<>>, <<>>>> \in Segs(Quiet)
         /\ <<<<"ACK">>, b, a, <<"EA">>>> \in Segs(Quiet)
         /\ <<<<"MAN">>, <<"GM">>, <<"fixed">>>> \in Segs(Quiet)
         /\ <<<<"SN1">>, <<>>, <<"fixed">>, <<"EA">>>> \in Segs(Quiet)
         /\ <<<<"LIN">>, <<>>, <<"VP">>, a>> \in Segs(Quiet)
         /\ <<<<"BSN">>, <<"00">>, <<"shipment">>, <<"fixed">>, <<"fixed">>>> \in Segs(Quiet)
         /\ <<<<"TD5">>, <<>>, <<"2">>, <<>>, <<>>, <<>>>> \in Segs(Quiet)
         /\ <<<<"REF">>, <<"BM">>, a>> \in Segs(Quiet)
         /\ <<<<"IT1">>, <<"line">>, <<"fixed">>, <<"EA">>, a>> \in Segs(Quiet)
         /\ <<<<"PID">>, <<"F">>, <<>>, <<>>, <<>>, b>> \in Segs(Quiet)
         /\ <<<<"BIG">>, <<"fixed">>, <<"invoice">>, <<>>, a>> \in Segs(Quiet)
         /\ <<<<"TDS">>, <<"fixed">>>> \in Segs(Quiet)
<1> DEFINE E == Seq(Chars)
<1>1. <<>> \in E /\ \A w \in Words : <<w>> \in E
  BY CharsFacts
<1>2. a \in E /\ b \in E
  OBVIOUS
<1> HIDE DEF E
<1>3. /\ <<"BAK">> \in E /\ <<"PO1">> \in E /\ <<"ACK">> \in E /\ <<"MAN">> \in E /\ <<"SN1">> \in E /\ <<"LIN">> \in E
      /\ <<"BSN">> \in E /\ <<"TD5">> \in E /\ <<"REF">> \in E /\ <<"IT1">> \in E /\ <<"PID">> \in E /\ <<"BIG">> \in E
      /\ <<"TDS">> \in E
  BY <1>1 DEF Words
<1>4. /\ <<"00">> \in E /\ <<"AC">> \in E /\ <<"fixed">> \in E /\ <<"line">> \in E /\ <<"EA">> \in E /\ <<"GM">> \in E
      /\ <<"VP">> \in E /\ <<"shipment">> \in E /\ <<"2">> \in E /\ <<"BM">> \in E /\ <<"F">> \in E /\ <<"invoice">> \in E
  BY <1>1 DEF Words
<1>5. \A id \in Quiet : \A g \in Seq(E) : g # <<>> /\ g[1] = <<id>> => g \in Segs(Quiet)
  BY DEF Segs, E
<1>6. /\ "BAK" \in Quiet /\ "PO1" \in Quiet /\ "ACK" \in Quiet /\ "MAN" \in Quiet /\ "SN1" \in Quiet /\ "LIN" \in Quiet
      /\ "BSN" \in Quiet /\ "TD5" \in Quiet /\ "REF" \in Quiet /\ "IT1" \in Quiet /\ "PID" \in Quiet /\ "BIG" \in Quiet
      /\ "TDS" \in Quiet
  BY DEF Quiet, Inner
<1> HIDE DEF Quiet
<1>11. <<<<"BAK">>, <<"00">>, <<"AC">>, a, <<"fixed">>>> \in Segs(Quiet)
  <2>1. <<<<"BAK">>, <<"00">>, <<"AC">>, a, <<"fixed">>>> \in Seq(E)
    BY <1>1, <1>2, <1>3, <1>4
  <2>2. <<<<"BAK">>, <<"00">>, <<"AC">>, a, <<"fixed">>>> # <<>> /\ <<<<"BAK">>, <<"00">>, <<"AC">>, a, <<"fixed">>>>[1] = <<"BAK">>
    OBVIOUS
  <2> QED BY <1>5, <1>6, <2>1, <2>2
<1>12. <<<<"PO1">>, <<"line">>, a, <<"EA">>, <<>>, <<>>, <<>>, <<>>>> \in Segs(Quiet)
  <2>1. <<<<"PO1">>, <<"line">>, a, <<"EA">>, <<>>, <<>>, <<>>, <<>>>> \in Seq(E)
    BY <1>1, <1>2, <1>3, <1>4
  <2>2. <<<<"PO1">>, <<"line">>, a, <<"EA">>, <<>>, <<>>, <<>>, <<>>>> # <<>> /\ <<<<"PO1">>, <<"line">>, a, <<"EA">>, <<>>, <<>>, <<>>, <<>>>>[1] = <<"PO1">>
    OBVIOUS
  <2> QED BY <1>5, <1>6, <2>1, <2>2
<1>13. <<<<"ACK">>, b, a, <<"EA">>>> \in Segs(Quiet)
  <2>1. <<<<"ACK">>, b, a, <<"EA">>>> \in Seq(E)
    BY <1>1, <1>2, <1>3, <1>4
  <2>2. <<<<"ACK">>, b, a, <<"EA">>>> # <<>> /\ <<<<"ACK">>, b, a, <<"EA">>>>[1] = <<"ACK">>
    OBVIOUS
  <2> QED BY <1>5, <1>6, <2>1, <2>2
<1>14. <<<<"MAN">>, <<"GM">>, <<"fixed">>>> \in Segs(Quiet)
  <2>1. <<<<"MAN">>, <<"GM">>, <<"fixed">>>> \in Seq(E)
    BY <1>1, <1>2, <1>3, <1>4
  <2>2. <<<<"MAN">>, <<"GM">>, <<"fixed">>>> # <<>> /\ <<<<"MAN">>, <<"GM">>, <<"fixed">>>>[1] = <<"MAN">>
    OBVIOUS
  <2> QED BY <1>5, <1>6, <2>1, <2>2
<1>15. <<<<"SN1">>, <<>>, <<"fixed">>, <<"EA">>>> \in Segs(Quiet)
  <2>1. <<<<"SN1">>, <<>>, <<"fixed">>, <<"EA">>>> \in Seq(E)
    BY <1>1, <1>2, <1>3, <1>4
  <2>2. <<<<"SN1">>, <<>>, <<"fixed">>, <<"EA">>>> # <<>> /\ <<<<"SN1">>, <<>>, <<"fixed">>, <<"EA">>>>[1] = <<"SN1">>
    OBVIOUS
  <2> QED BY <1>5, <1>6, <2>1, <2>2
<1>16. <<<<"LIN">>, <<>>, <<"VP">>, a>> \in Segs(Quiet)
  <2>1. <<<<"LIN">>, <<>>, <<"VP">>, a>> \in Seq(E)
    BY <1>1, <1>2, <1>3, <1>4
  <2>2. <<<<"LIN">>, <<>>, <<"VP">>, a>> # <<>> /\ <<<<"LIN">>, <<>>, <<"VP">>, a>>[1] = <<"LIN">>
    OBVIOUS
  <2> QED BY <1>5, <1>6, <2>1, <2>2
<1>17. <<<<"BSN">>, <<"00">>, <<"shipment">>, <<"fixed">>, <<"fixed">>>> \in Segs(Quiet)
  <2>1. <<<<"BSN">>, <<"00">>, <<"shipment">>, <<"fixed">>, <<"fixed">>>> \in Seq(E)
    BY <1>1, <1>2, <1>3, <1>4
  <2>2. <<<<"BSN">>, <<"00">>, <<"shipment">>, <<"fixed">>, <<"fixed">>>> # <<>> /\ <<<<"BSN">>, <<"00">>, <<"shipment">>, <<"fixed">>, <<"fixed">>>>[1] = <<"BSN">>
    OBVIOUS
  <2> QED BY <1>5, <1>6, <2>1, <2>2
<1>18. <<<<"TD5">>, <<>>, <<"2">>, <<>>, <<>>, <<>>>> \in Segs(Quiet)
  <2>1. <<<<"TD5">>, <<>>, <<"2">>, <<>>, <<>>, <<>>>> \in Seq(E)
    BY <1>1, <1>2, <1>3, <1>4
  <2>2. <<<<"TD5">>, <<>>, <<"2">>, <<>>, <<>>, <<>>>> # <<>> /\ <<<<"TD5">>, <<>>, <<"2">>, <<>>, <<>>, <<>>>>[1] = <<"TD5">>
    OBVIOUS
  <2> QED BY <1>5, <1>6, <2>1, <2>2
<1>19. <<<<"REF">>, <<"BM">>, a>> \in Segs(Quiet)
  <2>1. <<<<"REF">>, <<"BM">>, a>> \in Seq(E)
    BY <1>1, <1>2, <1>3, <1>4
  <2>2. <<<<"REF">>, <<"BM">>, a>> # <<>> /\ <<<<"REF">>, <<"BM">>, a>>[1] = <<"REF">>
    OBVIOUS
  <2> QED BY <1>5, <1>6, <2>1, <2>2
<1>20. <<<<"IT1">>, <<"line">>, <<"fixed">>, <<"EA">>, a>> \in Segs(Quiet)
  <2>1. <<<<"IT1">>, <<"line">>, <<"fixed">>, <<"EA">>, a>> \in Seq(E)
    BY <1>1, <1>2, <1>3, <1>4
  <2>2. <<<<"IT1">>, <<"line">>, <<"fixed">>, <<"EA">>, a>> # <<>> /\ <<<<"IT1">>, <<"line">>, <<"fixed">>, <<"EA">>, a>>[1] = <<"IT1">>
    OBVIOUS
  <2> QED BY <1>5, <1>6, <2>1, <2>2
<1>21. <<<<"PID">>, <<"F">>, <<>>, <<>>, <<>>, b>> \in Segs(Quiet)
  <2>1. <<<<"PID">>, <<"F">>, <<>>, <<>>, <<>>, b>> \in Seq(E)
    BY <1>1, <1>2, <1>3, <1>4
  <2>2. <<<<"PID">>, <<"F">>, <<>>, <<>>, <<>>, b>> # <<>> /\ <<<<"PID">>, <<"F">>, <<>>, <<>>, <<>>, b>>[1] = <<"PID">>
    OBVIOUS
  <2> QED BY <1>5, <1>6, <2>1, <2>2
<1>22. <<<<"BIG">>, <<"fixed">>, <<"invoice">>, <<>>, a>> \in Segs(Quiet)
  <2>1. <<<<"BIG">>, <<"fixed">>, <<"invoice">>, <<>>, a>> \in Seq(E)
    BY <1>1, <1>2, <1>3, <1>4
  <2>2. <<<<"BIG">>, <<"fixed">>, <<"invoice">>, <<>>, a>> # <<>> /\ <<<<"BIG">>, <<"fixed">>, <<"invoice">>, <<>>, a>>[1] = <<"BIG">>
    OBVIOUS
  <2> QED BY <1>5, <1>6, <2>1, <2>2
<1>23. <<<<"TDS">>, <<"fixed">>>> \in Segs(Quiet)
  <2>1. <<<<"TDS">>, <<"fixed">>>> \in Seq(E)
    BY <1>1, <1>2, <1>3, <1>4
  <2>2. <<<<"TDS">>, <<"fixed">>>> # <<>> /\ <<<<"TDS">>, <<"fixed">>>>[1] = <<"TDS">>
    OBVIOUS
  <2> QED BY <1>5, <1>6, <2>1, <2>2
<1> QED BY <1>11, <1>12, <1>13, <1>14, <1>15, <1>16, <1>17, <1>18, <1>19, <1>20, <1>21, <1>22, <1>23

LEMMA HlType ==
  ASSUME NEW n \in Nat, NEW parent \in Seq(Chars), NEW level \in Words
  PROVE  X!Hl(n, parent, level) \in Segs({"HL"})
<1> DEFINE E == Seq(Chars)
<1>1. X!Decimal(n) \in E /\ <<level>> \in E /\ <<"HL">> \in E /\ parent \in E
  <2>1. "HL" \in Words
    BY DEF Words
  <2> QED BY <2>1, CharsFacts
<1> HIDE DEF E
<1>2. X!Hl(n, parent, level) \in Seq(E) /\ X!Hl(n, parent, level) # <<>> /\ X!Hl(n, parent, level)[1] = <<"HL">>
  BY <1>1 DEF X!Hl
<1> QED BY <1>2 DEF Segs, E

(* A sequence of rows, each of which makes some segments. *)
LEMMA FlatRows ==
  ASSUME NEW C, NEW seqs \in Seq(Seq(C)), NEW lens, lens = [i \in DOMAIN seqs |-> Len(seqs[i])]
  PROVE  X!Flatten(seqs) \in Seq(C) /\ Len(X!Flatten(seqs)) = X!Total(lens) /\ X!Total(lens) \in Nat
<1>1. X!Flatten(seqs) \in Seq(C)
  BY FlattenType
<1>2. Len(X!Flatten(seqs)) = X!Total(lens)
  BY FlattenLength
<1> HIDE DEF X!Flatten, X!Total
<1>3. Len(X!Flatten(seqs)) \in Nat
  BY <1>1, LenProperties
<1> QED BY <1>1, <1>2, <1>3

LEMMA OneMore ==
  ASSUME NEW C, NEW x \in C, NEW s \in Seq(C)
  PROVE  <<x>> \o s \in Seq(C) /\ Len(<<x>> \o s) = 1 + Len(s)
<1>1. <<x>> \in Seq(C) /\ Len(<<x>>) = 1
  OBVIOUS
<1> QED BY <1>1, ConcatProperties

Row855(item) ==
  << <<<<"PO1">>, <<"line">>, item.a, <<"EA">>, <<>>, <<>>, <<>>, <<>>>>,
     <<<<"ACK">>, item.b, item.a, <<"EA">>>> >>

Body855(d) ==
  << <<<<"BAK">>, <<"00">>, <<"AC">>, d.number, <<"fixed">>>> >>
  \o X!Flatten([i \in DOMAIN d.items |-> Row855(d.items[i])])

LEMMA Shape855 ==
  ASSUME NEW d, IsDocument(d), d.type = "855"
  PROVE  /\ Body855(d) \in Seq(Segs(Quiet))
         /\ X!Document(d) = X!Envelope(d, Body855(d), 2 + Len(Body855(d)))
<1> DEFINE C == Segs(Quiet)
           seqs == [i \in DOMAIN d.items |-> Row855(d.items[i])]
           n == Len(d.items)
           f == X!Flatten(seqs)
           bak == <<<<"BAK">>, <<"00">>, <<"AC">>, d.number, <<"fixed">>>>
<1>1. n \in Nat /\ DOMAIN d.items = 1 .. n /\ \A i \in 1 .. n : d.items[i] \in Rows
  BY LenProperties, ElementOfSeq DEF IsDocument
<1>2. \A r \in Rows : Row855(r) \in Seq(C) /\ Len(Row855(r)) = 2
  <2>1. ASSUME NEW r \in Rows PROVE Row855(r) \in Seq(C) /\ Len(Row855(r)) = 2
    <3>1. r.a \in Seq(Chars) /\ r.b \in Seq(Chars)
      BY DEF Rows
    <3>2. /\ <<<<"PO1">>, <<"line">>, r.a, <<"EA">>, <<>>, <<>>, <<>>, <<>>>> \in C
          /\ <<<<"ACK">>, r.b, r.a, <<"EA">>>> \in C
      BY <3>1, SegTypes
    <3> HIDE DEF C
    <3> QED BY <3>2 DEF Row855
  <2> QED BY <2>1
<1>3. bak \in C
  <2>1. d.number \in Seq(Chars)
    BY DEF IsDocument, IsData
  <2> QED BY <2>1, SegTypes
<1>4. X!Document(d) = X!Envelope(d, Body855(d), 3 + 2 * n)
  BY DEF X!Document, X!Generate855, X!FlatMap, Body855, Row855
<1>5. Body855(d) = <<bak>> \o f
  BY DEF Body855
<1> HIDE DEF C, bak, n
<1>6. seqs \in Seq(Seq(C)) /\ DOMAIN seqs = 1 .. n /\ \A i \in 1 .. n : Len(seqs[i]) = 2
  BY <1>1, <1>2
<1> HIDE DEF seqs
<1>7. f \in Seq(C) /\ Len(f) = 2 * n
  <2> DEFINE lens == [i \in DOMAIN seqs |-> Len(seqs[i])]
  <2>1. f \in Seq(C) /\ Len(f) = X!Total(lens)
    BY <1>6, FlatRows
  <2>2. lens \in Seq({2}) /\ Len(lens) = n
    BY <1>1, <1>6
  <2> HIDE DEF lens, f
  <2>3. X!Total(lens) = 2 * n
    BY <2>2, TotalOfEqual
  <2> QED BY <2>1, <2>3
<1> HIDE DEF f
<1>8. Body855(d) \in Seq(C) /\ Len(Body855(d)) = 1 + 2 * n
  BY <1>3, <1>5, <1>7, OneMore
<1>9. 2 + Len(Body855(d)) = 3 + 2 * n
  BY <1>1, <1>8
<1> QED BY <1>4, <1>8, <1>9 DEF C

Row810(item) ==
  << <<<<"IT1">>, <<"line">>, <<"fixed">>, <<"EA">>, item.a>> >>
  \o IF item.b = <<>> THEN <<>> ELSE << <<<<"PID">>, <<"F">>, <<>>, <<>>, <<>>, item.b>> >>

Body810(d) ==
  << <<<<"BIG">>, <<"fixed">>, <<"invoice">>, <<>>, d.number>> >>
  \o X!Flatten([i \in DOMAIN d.items |-> Row810(d.items[i])])
  \o << <<<<"TDS">>, <<"fixed">>>> >>

LEMMA Row810Facts ==
  ASSUME NEW r \in Rows
  PROVE  Row810(r) \in Seq(Segs(Quiet)) /\ Len(Row810(r)) = X!ItemSegments(r)
<1> DEFINE C == Segs(Quiet)
           it == <<<<"IT1">>, <<"line">>, <<"fixed">>, <<"EA">>, r.a>>
           pid == <<<<"PID">>, <<"F">>, <<>>, <<>>, <<>>, r.b>>
           rest == IF r.b = <<>> THEN <<>> ELSE <<pid>>
<1>1. r.a \in Seq(Chars) /\ r.b \in Seq(Chars)
  BY DEF Rows
<1>2. it \in C /\ pid \in C
  BY <1>1, SegTypes
<1>3. Row810(r) = <<it>> \o rest
  BY DEF Row810
<1> HIDE DEF C, it, pid
<1>4. rest \in Seq(C) /\ Len(rest) = IF r.b = <<>> THEN 0 ELSE 1
  BY <1>2, EmptySeq
<1>5. X!ItemSegments(r) = IF r.b = <<>> THEN 1 ELSE 2
  BY DEF X!ItemSegments
<1> HIDE DEF rest
<1>6. Row810(r) \in Seq(C) /\ Len(Row810(r)) = 1 + Len(rest)
  BY <1>2, <1>3, <1>4, OneMore
<1> QED BY <1>4, <1>5, <1>6 DEF C

LEMMA OneLast ==
  ASSUME NEW C, NEW x \in C, NEW s \in Seq(C)
  PROVE  s \o <<x>> \in Seq(C) /\ Len(s \o <<x>>) = Len(s) + 1
<1>1. <<x>> \in Seq(C) /\ Len(<<x>>) = 1
  OBVIOUS
<1> QED BY <1>1, ConcatProperties

LEMMA Shape810 ==
  ASSUME NEW d, IsDocument(d), d.type = "810"
  PROVE  /\ Body810(d) \in Seq(Segs(Quiet))
         /\ X!Document(d) = X!Envelope(d, Body810(d), 2 + Len(Body810(d)))
<1> DEFINE C == Segs(Quiet)
           seqs == [i \in DOMAIN d.items |-> Row810(d.items[i])]
           n == Len(d.items)
           f == X!Flatten(seqs)
           sum == X!Sum(X!ItemSegments, d.items)
           big == <<<<"BIG">>, <<"fixed">>, <<"invoice">>, <<>>, d.number>>
           tds == <<<<"TDS">>, <<"fixed">>>>
<1>1. n \in Nat /\ DOMAIN d.items = 1 .. n /\ \A i \in 1 .. n : d.items[i] \in Rows
  BY LenProperties, ElementOfSeq DEF IsDocument
<1>2. \A r \in Rows : Row810(r) \in Seq(C) /\ Len(Row810(r)) = X!ItemSegments(r)
  BY Row810Facts
<1>3. big \in C /\ tds \in C
  <2>1. d.number \in Seq(Chars)
    BY DEF IsDocument, IsData
  <2> QED BY <2>1, SegTypes
<1>4. X!Document(d) = X!Envelope(d, Body810(d), 3 + sum + 1)
  BY DEF X!Document, X!Generate810, X!FlatMap, Body810, Row810
<1>5. Body810(d) = (<<big>> \o f) \o <<tds>>
  BY DEF Body810
<1>6. sum = X!Total([i \in DOMAIN d.items |-> X!ItemSegments(d.items[i])])
  BY DEF X!Sum
<1> HIDE DEF C, big, tds, n, sum
<1>7. seqs \in Seq(Seq(C)) /\ DOMAIN seqs = 1 .. n /\ \A i \in 1 .. n : Len(seqs[i]) = X!ItemSegments(d.items[i])
  BY <1>1, <1>2
<1> HIDE DEF seqs
<1>8. f \in Seq(C) /\ Len(f) = sum /\ sum \in Nat
  <2> DEFINE lens == [i \in DOMAIN seqs |-> Len(seqs[i])]
  <2>1. f \in Seq(C) /\ Len(f) = X!Total(lens) /\ X!Total(lens) \in Nat
    BY <1>7, FlatRows
  <2>2. lens = [i \in DOMAIN d.items |-> X!ItemSegments(d.items[i])]
    BY <1>1, <1>7
  <2> HIDE DEF lens, f
  <2> QED BY <1>6, <2>1, <2>2
<1> HIDE DEF f
<1>9. <<big>> \o f \in Seq(C) /\ Len(<<big>> \o f) = 1 + sum
  BY <1>3, <1>8, OneMore
<1> DEFINE g == <<big>> \o f
<1>10. g \in Seq(C) /\ Len(g) = 1 + sum /\ Body810(d) = g \o <<tds>>
  BY <1>5, <1>9
<1> HIDE DEF g
<1>11. Body810(d) \in Seq(C) /\ Len(Body810(d)) = 1 + sum + 1
  BY <1>3, <1>10, OneLast
<1>12. 2 + Len(Body810(d)) = 3 + sum + 1
  BY <1>8, <1>11
<1> QED BY <1>4, <1>11, <1>12 DEF C

(***************************************************************************)
(* The HLs of a shipment                                                   *)
(***************************************************************************)
Hls(s) == Picked(Segs({"HL"}), s)

(* h continues n HLs that are numbered from 1. *)
Follows(h, n) ==
  \A i \in 1 .. Len(h) :
    /\ Len(h[i]) = 4 /\ h[i][2] = X!Decimal(n + i)
    /\ n + i > 1 => \E j \in 1 .. n + i - 1 : h[i][3] = X!Decimal(j)

LEMMA FollowsConcat ==
  ASSUME NEW C, NEW s \in Seq(C), NEW t \in Seq(C), NEW n \in Nat, Follows(s, n), Follows(t, n + Len(s))
  PROVE  Follows(s \o t, n) /\ Len(s \o t) = Len(s) + Len(t)
<1> DEFINE u == s \o t
<1>1. /\ Len(s) \in Nat /\ Len(t) \in Nat /\ Len(u) = Len(s) + Len(t)
      /\ \A i \in 1 .. Len(s) + Len(t) : u[i] = IF i <= Len(s) THEN s[i] ELSE t[i - Len(s)]
  BY ConcatProperties, LenProperties
<1> HIDE DEF u
<1>2. ASSUME NEW i \in 1 .. Len(u)
      PROVE  /\ Len(u[i]) = 4 /\ u[i][2] = X!Decimal(n + i)
             /\ n + i > 1 => \E j \in 1 .. n + i - 1 : u[i][3] = X!Decimal(j)
  <2>1. CASE i <= Len(s)
    <3>1. i \in 1 .. Len(s) /\ u[i] = s[i]
      BY <1>1, <2>1
    <3> QED BY <3>1 DEF Follows
  <2>2. CASE ~(i <= Len(s))
    <3>1. i - Len(s) \in 1 .. Len(t) /\ u[i] = t[i - Len(s)] /\ (n + Len(s)) + (i - Len(s)) = n + i
      BY <1>1, <2>2
    <3>2. /\ Len(t[i - Len(s)]) = 4 /\ t[i - Len(s)][2] = X!Decimal((n + Len(s)) + (i - Len(s)))
          /\ (n + Len(s)) + (i - Len(s)) > 1 =>
               \E j \in 1 .. (n + Len(s)) + (i - Len(s)) - 1 : t[i - Len(s)][3] = X!Decimal(j)
      BY <3>1 DEF Follows
    <3> QED BY <3>1, <3>2
  <2> QED BY <2>1, <2>2
<1>3. Follows(u, n)
  BY <1>2 DEF Follows
<1> QED BY <1>1, <1>3 DEF u

LEMMA PrefixStep ==
  ASSUME NEW D, NEW s \in Seq(D), NEW k \in 0 .. Len(s), k < Len(s)
  PROVE  SubSeq(s, 1, k + 1) = Append(SubSeq(s, 1, k), s[k + 1]) /\ s[k + 1] \in D
<1> DEFINE p == SubSeq(s, 1, k)
           q == SubSeq(s, 1, k + 1)
<1>1. Len(s) \in Nat /\ k \in Nat /\ k + 1 \in 0 .. Len(s) /\ k + 1 \in 1 .. Len(s)
  BY LenProperties
<1>2. p \in Seq(D) /\ q \in Seq(D)
  BY <1>1, PrefixType
<1>3. /\ Len(p) = k /\ \A i \in 1 .. k : p[i] = s[i]
      /\ Len(q) = k + 1 /\ \A i \in 1 .. k + 1 : q[i] = s[i]
  BY <1>1, SubSeqPrefix
<1>4. s[k + 1] \in D
  BY <1>1, ElementOfSeq
<1> HIDE DEF p, q
<1> DEFINE r == Append(p, s[k + 1])
<1>5. /\ r \in Seq(D) /\ Len(r) = Len(p) + 1 /\ \A i \in 1 .. Len(p) : r[i] = p[i]
      /\ r[Len(p) + 1] = s[k + 1]
  BY <1>2, <1>4, AppendProperties
<1> HIDE DEF r
<1>6. \A i \in 1 .. k + 1 : r[i] = q[i]
  BY <1>1, <1>3, <1>5
<1>7. r = q
  BY <1>2, <1>3, <1>5, <1>6, SeqEqual
<1> QED BY <1>4, <1>7 DEF r, p, q

LEMMA HlsType ==
  ASSUME NEW C, NEW s \in Seq(C)
  PROVE  Hls(s) \in Seq(C \cap Segs({"HL"}))
BY PickedType DEF Hls

LEMMA HlsConcat ==
  ASSUME NEW C, NEW s \in Seq(C), NEW t \in Seq(C)
  PROVE  Hls(s \o t) = Hls(s) \o Hls(t)
BY PickedConcat DEF Hls

(* Sequences that follow one another, joined. *)
LEMMA FlattenFollows ==
  ASSUME NEW C, NEW seqs \in Seq(Seq(C)), NEW n \in Nat,
         NEW counts \in Seq(Nat), Len(counts) = Len(seqs),
         \A i \in 1 .. Len(seqs) : /\ Len(Hls(seqs[i])) = counts[i]
                                   /\ Follows(Hls(seqs[i]), n + X!Total(SubSeq(counts, 1, i - 1)))
  PROVE  Follows(Hls(X!Flatten(seqs)), n) /\ Len(Hls(X!Flatten(seqs))) = X!Total(counts)
<1> DEFINE E == C \cap Segs({"HL"})
           m == Len(seqs)
           sum(k) == X!Total(SubSeq(counts, 1, k))
           h(k) == Hls(X!Flatten(SubSeq(seqs, 1, k)))
           S == { k \in 0 .. m : h(k) \in Seq(E) /\ Follows(h(k), n) /\ Len(h(k)) = sum(k) }
<1>1. m \in Nat /\ \A i \in 1 .. m : seqs[i] \in Seq(C)
  BY LenProperties, ElementOfSeq
<1>2. \A k \in 0 .. m : SubSeq(counts, 1, k) \in Seq(Nat)
  BY PrefixType
<1>3. \A k \in 0 .. m : sum(k) \in Nat
  BY <1>2, TotalFacts
<1>4. 0 \in S
  <2>1. SubSeq(seqs, 1, 0) = <<>> /\ SubSeq(counts, 1, 0) = <<>>
    BY SubSeqEmpty
  <2>2. h(0) = <<>> /\ sum(0) = 0
    BY <2>1, NothingToFold DEF Hls
  <2>3. Follows(<<>>, n) /\ <<>> \in Seq(E) /\ Len(<<>>) = 0
    BY EmptySeq DEF Follows
  <2>4. 0 \in 0 .. m
    BY <1>1
  <2> HIDE DEF h, sum, E, m
  <2> QED BY <2>2, <2>3, <2>4
<1>5. ASSUME NEW k \in 0 .. m - 1, k \in S PROVE k + 1 \in S
  <2> DEFINE p == SubSeq(seqs, 1, k)
             x == seqs[k + 1]
  <2>1. k \in 0 .. m /\ k < m /\ k + 1 \in 1 .. m /\ k + 1 \in 0 .. m /\ (k + 1) - 1 = k
    BY <1>1
  <2>2. SubSeq(seqs, 1, k + 1) = Append(p, x) /\ x \in Seq(C)
    BY <2>1, PrefixStep
  <2>11. p \in Seq(Seq(C))
    BY <2>1, PrefixType
  <2>3. SubSeq(counts, 1, k + 1) = Append(SubSeq(counts, 1, k), counts[k + 1]) /\ counts[k + 1] \in Nat
    BY <2>1, PrefixStep
  <2> HIDE DEF p, x, E
  <2>4. X!Flatten(Append(p, x)) = X!Flatten(p) \o x /\ X!Flatten(p) \in Seq(C)
    BY <2>2, <2>11, FlattenAppend, FlattenType
  <2>5. Hls(X!Flatten(p) \o x) = Hls(X!Flatten(p)) \o Hls(x)
    BY <2>2, <2>4, HlsConcat
  <2>12. Hls(x) \in Seq(E)
    BY <2>2, HlsType DEF E
  <2>6. h(k + 1) = h(k) \o Hls(x)
    BY <2>2, <2>4, <2>5 DEF p
  <2>7. sum(k + 1) = sum(k) + counts[k + 1]
    BY <1>2, <2>1, <2>3, TotalFacts
  <2>8. Len(Hls(x)) = counts[k + 1] /\ Follows(Hls(x), n + sum(k))
    BY <2>1 DEF x
  <2>9. h(k) \in Seq(E) /\ Follows(h(k), n) /\ Len(h(k)) = sum(k)
    BY <1>5
  <2> HIDE DEF h, sum
  <2> DEFINE a == h(k)
             b == Hls(x)
  <2>13. a \in Seq(E) /\ b \in Seq(E) /\ Follows(a, n) /\ Follows(b, n + Len(a)) /\ Len(b) = counts[k + 1]
    BY <2>8, <2>9, <2>12
  <2> HIDE DEF a, b
  <2>10. Follows(a \o b, n) /\ Len(a \o b) = Len(a) + Len(b)
    BY <2>13, FollowsConcat
  <2>14. a \o b \in Seq(E)
    BY <2>13, ConcatProperties
  <2>15. Follows(h(k + 1), n) /\ Len(h(k + 1)) = sum(k + 1) /\ h(k + 1) \in Seq(E)
    BY <2>6, <2>7, <2>9, <2>10, <2>13, <2>14 DEF a, b
  <2> QED BY <2>1, <2>15
<1>6. m \in S
  <2> HIDE DEF S
  <2>1. \A k \in 0 .. m : k \in S
    BY <1>1, <1>4, <1>5, Induct
  <2> QED BY <1>1, <2>1
<1>7. SubSeq(seqs, 1, m) = seqs /\ SubSeq(counts, 1, m) = counts
  BY SubSeqFull
<1> QED BY <1>6, <1>7

PackItem(n, i, sku) ==
  << X!Hl(n + i, X!Decimal(n + i - 1), "I"), <<<<"SN1">>, <<>>, <<"fixed">>, <<"EA">>>>, <<<<"LIN">>, <<>>, <<"VP">>, sku>> >>

LEMMA PickedSegs ==
  ASSUME NEW s \in Seq(Segs(Quiet))
  PROVE  Hls(s) = <<>>
<1>1. Segs(Quiet) \cap Segs({"HL"}) = {}
  BY DEF Segs, Quiet, Inner
<1>2. Hls(s) \in Seq(Segs(Quiet) \cap Segs({"HL"}))
  BY PickedType DEF Hls
<1> QED BY <1>1, <1>2, EmptySeq, SequenceEmptyOrAppend

(* s has len segments, and count HLs that continue n. *)
IsPart(s, len, count, n) ==
  /\ s \in Seq(Segs(Inner)) /\ Len(s) = len
  /\ Len(Hls(s)) = count /\ Follows(Hls(s), n)

(* An HL before segments that are none. *)
LEMMA HlFirst ==
  ASSUME NEW n \in Nat \ {0}, NEW parent \in Seq(Chars), NEW level \in Words, NEW rest \in Seq(Segs(Quiet)),
         n > 1 => \E j \in 1 .. n - 1 : parent = X!Decimal(j),
         NEW s, s = <<X!Hl(n, parent, level)>> \o rest
  PROVE  IsPart(s, 1 + Len(rest), 1, n - 1)
<1> DEFINE hl == X!Hl(n, parent, level)
           C == Segs(Inner)
<1>1. hl \in Segs({"HL"}) /\ hl \in C
  <2>1. n \in Nat /\ {"HL"} \subseteq Inner
    BY DEF Inner
  <2> QED BY <2>1, HlType, SegsMonotonic
<1>2. rest \in Seq(C)
  <2>1. Quiet \subseteq Inner
    BY DEF Quiet
  <2> QED BY <2>1, SegsMonotonic
<1>3. s = <<hl>> \o rest
  OBVIOUS
<1>4. Len(hl) = 4 /\ hl[2] = X!Decimal(n) /\ hl[3] = parent
  BY DEF X!Hl
<1>5. Hls(rest) = <<>>
  BY PickedSegs
<1> HIDE DEF hl, C
<1>6. s \in Seq(C) /\ Len(s) = 1 + Len(rest)
  BY <1>1, <1>2, <1>3, OneMore
<1>7. Hls(s) = <<hl>>
  <2>1. <<hl>> \in Seq(C) /\ <<hl>> \in Seq(Segs({"HL"}))
    BY <1>1
  <2> DEFINE one == <<hl>>
  <2>4. one \in Seq(Segs({"HL"}))
    BY <2>1
  <2> HIDE DEF one
  <2>5. Hls(one) = one
    BY <2>4, PickedAll DEF Hls
  <2>2. Hls(<<hl>>) = <<hl>>
    BY <2>5 DEF one
  <2>3. Hls(<<hl>> \o rest) = Hls(<<hl>>) \o Hls(rest)
    BY <1>2, <2>1, HlsConcat
  <2> QED BY <1>3, <1>5, <2>1, <2>2, <2>3, ConcatEmptySeq
<1>8. Follows(<<hl>>, n - 1)
  BY <1>4 DEF Follows
<1> QED BY <1>6, <1>7, <1>8 DEF C, IsPart

LEMMA Tuples ==
  ASSUME NEW a, NEW b, NEW c
  PROVE  <<a>> \o <<b>> = <<a, b>> /\ <<a>> \o <<b, c>> = <<a, b, c>>
<1> DEFINE C == {a, b, c}
           one == <<a>>
           two == <<b, c>>
           last == <<b>>
<1>1. one \in Seq(C) /\ two \in Seq(C) /\ last \in Seq(C) /\ <<a, b>> \in Seq(C) /\ <<a, b, c>> \in Seq(C)
  OBVIOUS
<1>2. Len(one) = 1 /\ Len(two) = 2 /\ Len(last) = 1 /\ one[1] = a /\ two[1] = b /\ two[2] = c /\ last[1] = b
  OBVIOUS
<1> HIDE DEF one, two, last, C
<1>3. /\ one \o two \in Seq(C) /\ Len(one \o two) = Len(one) + Len(two)
      /\ \A i \in 1 .. Len(one) + Len(two) : (one \o two)[i] = IF i <= Len(one) THEN one[i] ELSE two[i - Len(one)]
  BY <1>1, ConcatProperties
<1>4. /\ one \o last \in Seq(C) /\ Len(one \o last) = Len(one) + Len(last)
      /\ \A i \in 1 .. Len(one) + Len(last) : (one \o last)[i] = IF i <= Len(one) THEN one[i] ELSE last[i - Len(one)]
  BY <1>1, ConcatProperties
<1> DEFINE v == one \o two
           w == one \o last
<1>5. v \in Seq(C) /\ Len(v) = 3 /\ v[1] = a /\ v[2] = b /\ v[3] = c
  <2>1. v \in Seq(C) /\ Len(v) = 3 /\ \A i \in 1 .. 3 : v[i] = IF i <= 1 THEN one[i] ELSE two[i - 1]
    BY <1>2, <1>3
  <2> HIDE DEF v
  <2> QED BY <1>2, <2>1
<1>6. w \in Seq(C) /\ Len(w) = 2 /\ w[1] = a /\ w[2] = b
  <2>1. w \in Seq(C) /\ Len(w) = 2 /\ \A i \in 1 .. 2 : w[i] = IF i <= 1 THEN one[i] ELSE last[i - 1]
    BY <1>2, <1>4
  <2> HIDE DEF w
  <2> QED BY <1>2, <2>1
<1> HIDE DEF v, w
<1>7. v = <<a, b, c>>
  BY <1>1, <1>5, SeqEqual
<1>8. w = <<a, b>>
  BY <1>1, <1>6, SeqEqual
<1> QED BY <1>7, <1>8 DEF v, w, one, two, last

LEMMA Quadruple ==
  ASSUME NEW a, NEW b, NEW c, NEW e
  PROVE  <<a>> \o <<b, c, e>> = <<a, b, c, e>>
<1> DEFINE C == {a, b, c, e}
           one == <<a>>
           more == <<b, c, e>>
           v == one \o more
<1>1. one \in Seq(C) /\ more \in Seq(C) /\ <<a, b, c, e>> \in Seq(C)
  OBVIOUS
<1>2. Len(one) = 1 /\ Len(more) = 3 /\ one[1] = a /\ more[1] = b /\ more[2] = c /\ more[3] = e
  OBVIOUS
<1> HIDE DEF one, more, C
<1>3. /\ v \in Seq(C) /\ Len(v) = Len(one) + Len(more)
      /\ \A i \in 1 .. Len(one) + Len(more) : v[i] = IF i <= Len(one) THEN one[i] ELSE more[i - Len(one)]
  BY <1>1, ConcatProperties
<1> HIDE DEF v
<1>4. v \in Seq(C) /\ Len(v) = 4 /\ \A i \in 1 .. 4 : v[i] = IF i <= 1 THEN one[i] ELSE more[i - 1]
  BY <1>2, <1>3
<1>5. v[1] = a /\ v[2] = b /\ v[3] = c /\ v[4] = e
  BY <1>2, <1>4
<1>6. v = <<a, b, c, e>>
  BY <1>1, <1>4, <1>5, SeqEqual
<1> QED BY <1>6 DEF v, one, more

LEMMA PartConcat ==
  ASSUME NEW s, NEW t, NEW l \in Nat, NEW k \in Nat, NEW c \in Nat, NEW e \in Nat, NEW n \in Nat,
         IsPart(s, l, c, n), IsPart(t, k, e, n + c)
  PROVE  IsPart(s \o t, l + k, c + e, n)
<1> DEFINE C == Segs(Inner)
           D == C \cap Segs({"HL"})
<1>1. s \in Seq(C) /\ t \in Seq(C) /\ Len(s) = l /\ Len(t) = k
  BY DEF IsPart
<1> HIDE DEF C
<1>2. s \o t \in Seq(C) /\ Len(s \o t) = l + k
  BY <1>1, ConcatProperties
<1>3. Hls(s) \in Seq(D) /\ Hls(t) \in Seq(D)
  BY <1>1, HlsType
<1>4. Hls(s \o t) = Hls(s) \o Hls(t)
  BY <1>1, HlsConcat
<1>5. Len(Hls(s)) = c /\ Len(Hls(t)) = e /\ Follows(Hls(s), n) /\ Follows(Hls(t), n + c)
  BY DEF IsPart
<1> DEFINE a == Hls(s)
           b == Hls(t)
<1>6. a \in Seq(D) /\ b \in Seq(D) /\ Follows(a, n) /\ Follows(b, n + Len(a)) /\ Len(a) = c /\ Len(b) = e
  BY <1>3, <1>5
<1> HIDE DEF a, b, D
<1>7. Follows(a \o b, n) /\ Len(a \o b) = c + e
  BY <1>6, FollowsConcat
<1> QED BY <1>2, <1>4, <1>7 DEF IsPart, a, b, C

LEMMA PackItemFacts ==
  ASSUME NEW n \in Nat \ {0}, NEW i \in Nat \ {0}, NEW sku \in Seq(Chars)
  PROVE  IsPart(PackItem(n, i, sku), 3, 1, n + (i - 1))
<1> DEFINE rest == << <<<<"SN1">>, <<>>, <<"fixed">>, <<"EA">>>>, <<<<"LIN">>, <<>>, <<"VP">>, sku>> >>
           k == n + i
           parent == X!Decimal(n + i - 1)
           s == PackItem(n, i, sku)
<1>1. rest \in Seq(Segs(Quiet)) /\ Len(rest) = 2
  <2> DEFINE C == Segs(Quiet)
  <2>1. <<<<"SN1">>, <<>>, <<"fixed">>, <<"EA">>>> \in C /\ <<<<"LIN">>, <<>>, <<"VP">>, sku>> \in C
    BY SegTypes
  <2> HIDE DEF C
  <2>2. rest \in Seq(C) /\ Len(rest) = 2
    BY <2>1
  <2> QED BY <2>2 DEF C
<1>2. k \in Nat \ {0} /\ k - 1 \in 1 .. k - 1 /\ k - 1 = n + (i - 1) /\ n + i - 1 \in Nat /\ n + i - 1 = k - 1
  OBVIOUS
<1>3. s = <<X!Hl(k, parent, "I")>> \o rest
  BY Tuples DEF PackItem
<1>4. parent \in Seq(Chars) /\ "I" \in Words
  BY <1>2, CharsFacts DEF Words
<1>5. k > 1 => \E j \in 1 .. k - 1 : parent = X!Decimal(j)
  BY <1>2
<1> HIDE DEF rest, k, parent, s
<1>6. IsPart(s, 1 + Len(rest), 1, k - 1)
  BY <1>1, <1>2, <1>3, <1>4, <1>5, HlFirst
<1> QED BY <1>1, <1>2, <1>6 DEF s

(* A pack continues the HLs before it. *)
LEMMA PackFacts ==
  ASSUME NEW n \in Nat \ {0}, NEW skus \in Seq(Seq(Chars))
  PROVE  IsPart(X!Pack(skus, n), 2 + 3 * Len(skus), 1 + Len(skus), n - 1)
<1> DEFINE C == Segs(Inner)
           m == Len(skus)
           seqs == [i \in DOMAIN skus |-> PackItem(n, i, skus[i])]
           man == << <<<<"MAN">>, <<"GM">>, <<"fixed">>>> >>
           head == <<X!Hl(n, X!Decimal(1), "P")>> \o man
           f == X!Flatten(seqs)
           counts == [i \in 1 .. m |-> 1]
<1>1. m \in Nat /\ DOMAIN skus = 1 .. m /\ \A i \in 1 .. m : skus[i] \in Seq(Chars)
  BY LenProperties, ElementOfSeq
<1>2. X!Pack(skus, n) = head \o f
  <2>1. head = << X!Hl(n, X!Decimal(1), "P"), <<<<"MAN">>, <<"GM">>, <<"fixed">>>> >>
    BY Tuples
  <2> QED BY <2>1 DEF X!Pack, PackItem
<1>3. head \in Seq(C) /\ Len(head) = 2 /\ Len(Hls(head)) = 1 /\ Follows(Hls(head), n - 1)
  <2>1. man \in Seq(Segs(Quiet)) /\ Len(man) = 1
    <3> DEFINE D == Segs(Quiet)
    <3>1. <<<<"MAN">>, <<"GM">>, <<"fixed">>>> \in D
      BY CharsFacts, SegTypes
    <3> HIDE DEF D
    <3>2. man \in Seq(D) /\ Len(man) = 1
      BY <3>1
    <3> QED BY <3>2 DEF D
  <2> DEFINE parent == X!Decimal(1)
  <2>2. parent \in Seq(Chars) /\ "P" \in Words /\ (n > 1 => \E j \in 1 .. n - 1 : parent = X!Decimal(j))
    <3>1. "P" \in Words /\ 1 \in Nat /\ (n > 1 => 1 \in 1 .. n - 1)
      BY DEF Words
    <3> QED BY <3>1, CharsFacts
  <2>3. head = <<X!Hl(n, parent, "P")>> \o man
    OBVIOUS
  <2> HIDE DEF man, head, parent
  <2>4. IsPart(head, 1 + Len(man), 1, n - 1)
    BY <2>1, <2>2, <2>3, HlFirst
  <2> HIDE DEF C
  <2> QED BY <2>1, <2>4 DEF IsPart, C
<1> HIDE DEF head, man
<1>4. \A i \in 1 .. m : /\ PackItem(n, i, skus[i]) \in Seq(C) /\ Len(PackItem(n, i, skus[i])) = 3
                        /\ Len(Hls(PackItem(n, i, skus[i]))) = 1 /\ Follows(Hls(PackItem(n, i, skus[i])), n + (i - 1))
  <2>1. \A i \in 1 .. m : IsPart(PackItem(n, i, skus[i]), 3, 1, n + (i - 1))
    <3>1. \A i \in 1 .. m : i \in Nat \ {0}
      BY <1>1
    <3> QED BY <1>1, <3>1, PackItemFacts
  <2> QED BY <2>1 DEF IsPart
<1> HIDE DEF C, m
<1>5. seqs \in Seq(Seq(C)) /\ Len(seqs) = m /\ DOMAIN seqs = 1 .. m
  BY <1>1, <1>4
<1>6. \A i \in 1 .. m : Len(seqs[i]) = 3 /\ Len(Hls(seqs[i])) = 1 /\ Follows(Hls(seqs[i]), n + (i - 1))
  BY <1>1, <1>4
<1> HIDE DEF seqs
<1>7. f \in Seq(C) /\ Len(f) = 3 * m
  <2> DEFINE lens == [i \in DOMAIN seqs |-> Len(seqs[i])]
  <2>1. f \in Seq(C) /\ Len(f) = X!Total(lens)
    BY <1>5, FlatRows
  <2>2. lens \in Seq({3}) /\ Len(lens) = m
    BY <1>1, <1>5, <1>6
  <2> HIDE DEF lens, f
  <2>3. X!Total(lens) = 3 * m
    BY <2>2, TotalOfEqual
  <2> QED BY <2>1, <2>3
<1>8. counts \in Seq({1}) /\ Len(counts) = m /\ \A i \in 1 .. m : counts[i] = 1
  BY <1>1
<1> HIDE DEF counts
<1>9. counts \in Seq(Nat) /\ X!Total(counts) = m
  <2>1. {1} \subseteq Nat
    OBVIOUS
  <2>2. X!Total(counts) = 1 * Len(counts)
    BY <1>8, TotalOfEqual
  <2> QED BY <1>1, <1>8, <2>1, <2>2, SeqMonotonic
<1>10. \A i \in 1 .. m : X!Total(SubSeq(counts, 1, i - 1)) = i - 1
  <2>1. ASSUME NEW i \in 1 .. m PROVE X!Total(SubSeq(counts, 1, i - 1)) = i - 1
    <3>1. i - 1 \in 0 .. Len(counts)
      BY <1>1, <1>8
    <3>2. SubSeq(counts, 1, i - 1) \in Seq({1})
      BY <1>8, <3>1, PrefixType
    <3>3. Len(SubSeq(counts, 1, i - 1)) = i - 1
      BY <1>8, <3>1, SubSeqPrefix
    <3> DEFINE p == SubSeq(counts, 1, i - 1)
    <3>4. p \in Seq({1}) /\ Len(p) = i - 1
      BY <3>2, <3>3
    <3> HIDE DEF p
    <3>5. X!Total(p) = 1 * Len(p)
      BY <3>4, TotalOfEqual
    <3> QED BY <1>1, <3>4, <3>5 DEF p
  <2> QED BY <2>1
<1>11. Follows(Hls(f), n) /\ Len(Hls(f)) = m
  <2>1. \A i \in 1 .. Len(seqs) : /\ Len(Hls(seqs[i])) = counts[i]
                                  /\ Follows(Hls(seqs[i]), n + X!Total(SubSeq(counts, 1, i - 1)))
    BY <1>5, <1>6, <1>8, <1>10
  <2>2. n \in Nat /\ Len(counts) = Len(seqs)
    BY <1>5, <1>8
  <2>3. Follows(Hls(X!Flatten(seqs)), n) /\ Len(Hls(X!Flatten(seqs))) = X!Total(counts)
    BY <1>5, <1>9, <2>1, <2>2, FlattenFollows
  <2> QED BY <1>9, <2>3
<1> HIDE DEF f
<1>12. IsPart(head, 2, 1, n - 1) /\ IsPart(f, 3 * m, m, (n - 1) + 1)
  <2>1. (n - 1) + 1 = n
    OBVIOUS
  <2> QED BY <1>3, <1>7, <1>11, <2>1 DEF IsPart, C
<1>13. IsPart(head \o f, 2 + 3 * m, 1 + m, n - 1)
  BY <1>1, <1>12, PartConcat
<1> QED BY <1>2, <1>13 DEF m

Body856(d) ==
  << <<<<"BSN">>, <<"00">>, <<"shipment">>, <<"fixed">>, <<"fixed">>>>,
     X!Hl(1, <<>>, "S"),
     <<<<"TD5">>, <<>>, <<"2">>, <<>>, <<>>, <<>>>>,
     <<<<"REF">>, <<"BM">>, d.number>> >>
  \o X!Flatten([i \in DOMAIN d.items |-> X!Pack(d.items[i], X!HlCount(d.items, i))])

LEMMA HeadOfShipment ==
  ASSUME NEW number \in Seq(Chars), NEW s,
         s = << <<<<"BSN">>, <<"00">>, <<"shipment">>, <<"fixed">>, <<"fixed">>>>,
                X!Hl(1, <<>>, "S"),
                <<<<"TD5">>, <<>>, <<"2">>, <<>>, <<>>, <<>>>>,
                <<<<"REF">>, <<"BM">>, number>> >>
  PROVE  IsPart(s, 4, 1, 0)
<1> DEFINE C == Segs(Quiet)
           bsn == <<<<"BSN">>, <<"00">>, <<"shipment">>, <<"fixed">>, <<"fixed">>>>
           hl == X!Hl(1, <<>>, "S")
           td5 == <<<<"TD5">>, <<>>, <<"2">>, <<>>, <<>>, <<>>>>
           ref == <<<<"REF">>, <<"BM">>, number>>
           rest == <<td5, ref>>
           tail == <<hl>> \o rest
           front == <<bsn>>
<1>1. bsn \in C /\ td5 \in C /\ ref \in C
  BY SegTypes
<1>2. s = <<bsn, hl, td5, ref>>
  OBVIOUS
<1> HIDE DEF bsn, td5, ref, C
<1>3. rest \in Seq(C) /\ Len(rest) = 2 /\ front \in Seq(C) /\ Len(front) = 1
  BY <1>1
<1>4. IsPart(tail, 3, 1, 0)
  <2> DEFINE parent == <<>>
  <2>1. parent \in Seq(Chars) /\ "S" \in Words /\ 1 \in Nat \ {0} /\ ~(1 > 1) /\ 1 - 1 = 0 /\ 1 + 2 = 3
    BY CharsFacts DEF Words
  <2>2. tail = <<X!Hl(1, parent, "S")>> \o rest
    OBVIOUS
  <2>3. rest \in Seq(Segs(Quiet))
    BY <1>3 DEF C
  <2> HIDE DEF parent, tail, rest
  <2>4. IsPart(tail, 1 + Len(rest), 1, 1 - 1)
    BY <2>1, <2>2, <2>3, HlFirst
  <2> QED BY <1>3, <2>1, <2>4
<1>5. tail = <<hl, td5, ref>>
  BY Tuples
<1> HIDE DEF tail, rest, hl
<1>6. IsPart(front, 1, 0, 0)
  <2>1. front \in Seq(Segs(Quiet)) /\ Quiet \subseteq Inner
    BY <1>3 DEF C, Quiet
  <2> HIDE DEF front
  <2>2. front \in Seq(Segs(Inner))
    BY <2>1, SegsMonotonic
  <2>3. Hls(front) = <<>>
    BY <2>1, PickedSegs
  <2>4. Len(<<>>) = 0 /\ Follows(<<>>, 0)
    BY DEF Follows
  <2> QED BY <1>3, <2>2, <2>3, <2>4 DEF IsPart
<1>7. s = front \o tail
  <2>1. front \o <<hl, td5, ref>> = <<bsn, hl, td5, ref>>
    BY Quadruple
  <2> QED BY <1>2, <1>5, <2>1
<1> HIDE DEF front
<1>8. IsPart(front \o tail, 1 + 3, 0 + 1, 0)
  <2>1. 0 + 0 = 0
    OBVIOUS
  <2> QED BY <1>4, <1>6, <2>1, PartConcat
<1>9. 1 + 3 = 4 /\ 0 + 1 = 1
  OBVIOUS
<1> QED BY <1>7, <1>8, <1>9

LEMMA Shape856 ==
  ASSUME NEW d, IsDocument(d), d.type = "856"
  PROVE  /\ Body856(d) \in Seq(Segs(Inner)) /\ Follows(Hls(Body856(d)), 0)
         /\ X!Document(d) = X!Envelope(d, Body856(d), 2 + Len(Body856(d)))
<1> DEFINE C == Segs(Inner)
           items == d.items
           m == Len(items)
           counts == [i \in 1 .. m |-> 1 + Len(items[i])]
           seqs == [i \in DOMAIN items |-> X!Pack(items[i], X!HlCount(items, i))]
           sum == X!Sum(LAMBDA skus : 2 + 3 * Len(skus), items)
           f == X!Flatten(seqs)
           head == << <<<<"BSN">>, <<"00">>, <<"shipment">>, <<"fixed">>, <<"fixed">>>>,
                      X!Hl(1, <<>>, "S"),
                      <<<<"TD5">>, <<>>, <<"2">>, <<>>, <<>>, <<>>>>,
                      <<<<"REF">>, <<"BM">>, d.number>> >>
<1>1. items \in Seq(Seq(Seq(Chars))) /\ d.number \in Seq(Chars)
  BY DEF IsDocument, IsData
<1>2. X!Document(d) = X!Envelope(d, Body856(d), 3 + 3 + sum)
  BY DEF X!Document, X!Generate856, Body856
<1>3. Body856(d) = head \o f
  BY DEF Body856
<1>4. IsPart(head, 4, 1, 0)
  BY <1>1, HeadOfShipment
<1>5. sum = X!Total([i \in DOMAIN items |-> 2 + 3 * Len(items[i])])
  BY DEF X!Sum
<1>6. \A i : X!HlCount(items, i) =
               2 + X!Total([j \in DOMAIN SubSeq(items, 1, i - 1) |-> 1 + Len(SubSeq(items, 1, i - 1)[j])])
  BY DEF X!HlCount, X!Sum
<1> HIDE DEF head, sum, items
<1>7. m \in Nat /\ DOMAIN items = 1 .. m /\ \A i \in 1 .. m : items[i] \in Seq(Seq(Chars)) /\ Len(items[i]) \in Nat
  BY <1>1, LenProperties, ElementOfSeq
<1> HIDE DEF m
<1>8. counts \in Seq(Nat) /\ Len(counts) = m /\ \A i \in 1 .. m : counts[i] = 1 + Len(items[i])
  BY <1>7
<1> HIDE DEF counts
<1>9. \A i \in 1 .. m : X!HlCount(items, i) = 2 + X!Total(SubSeq(counts, 1, i - 1)) /\ X!Total(SubSeq(counts, 1, i - 1)) \in Nat
  <2>1. ASSUME NEW i \in 1 .. m
        PROVE  X!HlCount(items, i) = 2 + X!Total(SubSeq(counts, 1, i - 1)) /\ X!Total(SubSeq(counts, 1, i - 1)) \in Nat
    <3> DEFINE p == SubSeq(items, 1, i - 1)
               q == SubSeq(counts, 1, i - 1)
    <3>1. i - 1 \in Nat /\ i - 1 \in 0 .. Len(items) /\ i - 1 \in 0 .. Len(counts) /\ \A j \in 1 .. i - 1 : j \in 1 .. m
      BY <1>7, <1>8 DEF m
    <3>2. p \in Seq(Seq(Seq(Chars))) /\ q \in Seq(Nat)
      BY <1>1, <1>8, <3>1, PrefixType
    <3>3. Len(p) = i - 1 /\ \A j \in 1 .. i - 1 : p[j] = items[j]
      BY <1>1, <3>1, SubSeqPrefix
    <3>4. Len(q) = i - 1 /\ \A j \in 1 .. i - 1 : q[j] = counts[j]
      BY <1>8, <3>1, SubSeqPrefix
    <3>5. X!HlCount(items, i) = 2 + X!Total([j \in DOMAIN p |-> 1 + Len(p[j])])
      BY <1>6
    <3> HIDE DEF p, q
    <3>6. DOMAIN p = 1 .. i - 1 /\ q = [j \in 1 .. i - 1 |-> q[j]]
      BY <3>2, <3>3, <3>4, LenProperties
    <3>7. [j \in DOMAIN p |-> 1 + Len(p[j])] = q
      BY <1>8, <3>1, <3>3, <3>4, <3>6
    <3>8. X!Total(q) \in Nat
      BY <3>2, TotalFacts
    <3> QED BY <3>5, <3>7, <3>8 DEF q
  <2> QED BY <2>1
<1>10. \A i \in 1 .. m : IsPart(seqs[i], 2 + 3 * Len(items[i]), counts[i], 1 + X!Total(SubSeq(counts, 1, i - 1)))
  <2>1. ASSUME NEW i \in 1 .. m
        PROVE  IsPart(seqs[i], 2 + 3 * Len(items[i]), counts[i], 1 + X!Total(SubSeq(counts, 1, i - 1)))
    <3> DEFINE n == X!HlCount(items, i)
               t == X!Total(SubSeq(counts, 1, i - 1))
    <3>1. n = 2 + t /\ t \in Nat
      BY <1>9
    <3>2. seqs[i] = X!Pack(items[i], n)
      BY <1>7
    <3> HIDE DEF n, t, seqs
    <3>3. n \in Nat \ {0} /\ n - 1 = 1 + t /\ items[i] \in Seq(Seq(Chars))
      BY <1>7, <3>1
    <3>4. IsPart(X!Pack(items[i], n), 2 + 3 * Len(items[i]), 1 + Len(items[i]), n - 1)
      BY <3>3, PackFacts
    <3> QED BY <1>8, <3>2, <3>3, <3>4 DEF t
  <2> QED BY <2>1
<1>11. seqs \in Seq(Seq(C)) /\ Len(seqs) = m /\ DOMAIN seqs = 1 .. m
  <2>1. \A i \in 1 .. m : seqs[i] \in Seq(C)
    BY <1>10 DEF IsPart
  <2>2. seqs = [i \in 1 .. m |-> seqs[i]]
    BY <1>7
  <2> HIDE DEF C
  <2> QED BY <1>7, <2>1, <2>2
<1> HIDE DEF seqs
<1>12. f \in Seq(C) /\ Len(f) = sum /\ sum \in Nat
  <2> DEFINE lens == [i \in DOMAIN seqs |-> Len(seqs[i])]
  <2>1. f \in Seq(C) /\ Len(f) = X!Total(lens) /\ X!Total(lens) \in Nat
    <3> HIDE DEF C
    <3> QED BY <1>11, FlatRows
  <2>2. \A i \in 1 .. m : Len(seqs[i]) = 2 + 3 * Len(items[i])
    BY <1>10 DEF IsPart
  <2>3. lens = [i \in DOMAIN items |-> 2 + 3 * Len(items[i])]
    BY <1>7, <1>11, <2>2
  <2> HIDE DEF lens, f
  <2> QED BY <1>5, <2>1, <2>3
<1>13. Follows(Hls(f), 1) /\ Len(Hls(f)) = X!Total(counts) /\ X!Total(counts) \in Nat
  <2>1. \A i \in 1 .. Len(seqs) : /\ Len(Hls(seqs[i])) = counts[i]
                                  /\ Follows(Hls(seqs[i]), 1 + X!Total(SubSeq(counts, 1, i - 1)))
    BY <1>10, <1>11 DEF IsPart
  <2>2. 1 \in Nat /\ Len(counts) = Len(seqs)
    BY <1>8, <1>11
  <2>3. Follows(Hls(X!Flatten(seqs)), 1) /\ Len(Hls(X!Flatten(seqs))) = X!Total(counts)
    BY <1>8, <1>11, <2>1, <2>2, FlattenFollows
  <2> QED BY <1>8, <2>3, TotalFacts
<1> HIDE DEF f
<1>14. IsPart(f, sum, X!Total(counts), 0 + 1)
  <2>1. 0 + 1 = 1
    OBVIOUS
  <2> QED BY <1>12, <1>13, <2>1 DEF IsPart
<1>15. IsPart(head \o f, 4 + sum, 1 + X!Total(counts), 0)
  BY <1>4, <1>12, <1>13, <1>14, PartConcat
<1>16. Body856(d) \in Seq(C) /\ Len(Body856(d)) = 4 + sum /\ Follows(Hls(Body856(d)), 0)
  BY <1>3, <1>15 DEF IsPart
<1>17. 2 + Len(Body856(d)) = 3 + 3 + sum
  BY <1>12, <1>16
<1> QED BY <1>2, <1>16, <1>17

(***************************************************************************)
(* What comes back                                                         *)
(***************************************************************************)
IsBody(d, body) ==
  /\ body \in Seq(Segs(Inner)) /\ Follows(Hls(body), 0)
  /\ X!Document(d) = X!Envelope(d, body, 2 + Len(body))
  /\ d.type = "850" => body = d.items /\ d.items \in Seq(OrderSegs)

LEMMA QuietBody ==
  ASSUME NEW body \in Seq(Segs(Quiet))
  PROVE  body \in Seq(Segs(Inner)) /\ Follows(Hls(body), 0)
<1>1. body \in Seq(Segs(Inner))
  <2>1. Quiet \subseteq Inner
    BY DEF Quiet
  <2> QED BY <2>1, SegsMonotonic
<1>2. Hls(body) = <<>>
  BY PickedSegs
<1>3. Follows(<<>>, 0)
  BY DEF Follows
<1> QED BY <1>1, <1>2, <1>3

LEMMA DocumentShape ==
  ASSUME NEW d, IsDocument(d)
  PROVE  \E body : IsBody(d, body)
<1>1. CASE d.type = "855"
  <2>1. "855" # "850"
    OBVIOUS
  <2>2. IsBody(d, Body855(d))
    BY <1>1, <2>1, Shape855, QuietBody DEF IsBody
  <2> QED BY <2>2
<1>2. CASE d.type = "810"
  <2>1. "810" # "850"
    OBVIOUS
  <2>2. IsBody(d, Body810(d))
    BY <1>2, <2>1, Shape810, QuietBody DEF IsBody
  <2> QED BY <2>2
<1>3. CASE d.type = "856"
  <2>1. "856" # "850"
    OBVIOUS
  <2>2. IsBody(d, Body856(d))
    BY <1>3, <2>1, Shape856 DEF IsBody
  <2> QED BY <2>2
<1>4. CASE d.type = "850"
  <2>1. d.items \in Seq(OrderSegs)
    BY <1>4 DEF IsDocument
  <2>2. OrderSegs \subseteq Segs(Quiet)
    <3>1. X!OrderIds \subseteq Quiet
      BY DEF Quiet, Inner, X!OrderIds
    <3> QED BY <3>1, SegsMonotonic DEF OrderSegs
  <2>3. d.items \in Seq(Segs(Quiet))
    BY <2>1, <2>2, SeqMonotonic
  <2>4. X!Document(d) = X!Envelope(d, d.items, 2 + Len(d.items))
    BY <1>4 DEF X!Document
  <2>5. IsBody(d, d.items)
    BY <2>1, <2>3, <2>4, QuietBody DEF IsBody
  <2> QED BY <2>5
<1> QED BY <1>1, <1>2, <1>3, <1>4 DEF IsDocument, IsData

LEMMA CleanFacts ==
  ASSUME NEW C, NEW s \in Seq(Seq(Seq(C)))
  PROVE  X!Clean(s) <=> s \in Seq(Seq(Seq(C \ {"*", "~"})))
<1> DEFINE E == C \ {"*", "~"}
<1>1. /\ Len(s) \in Nat /\ DOMAIN s = 1 .. Len(s)
      /\ \A i \in 1 .. Len(s) : s[i] \in Seq(Seq(C))
  BY LenProperties, ElementOfSeq
<1>2. \A i \in 1 .. Len(s) : /\ Len(s[i]) \in Nat /\ DOMAIN s[i] = 1 .. Len(s[i])
                             /\ \A e \in 1 .. Len(s[i]) : s[i][e] \in Seq(C)
  BY <1>1, LenProperties, ElementOfSeq
<1>3. \A q \in Seq(C) : {"*", "~"} \cap X!ToSet(q) = {} <=> q \in Seq(E)
  <2>1. ASSUME NEW q \in Seq(C) PROVE {"*", "~"} \cap X!ToSet(q) = {} <=> q \in Seq(E)
    <3>1. Len(q) \in Nat /\ DOMAIN q = 1 .. Len(q) /\ \A i \in 1 .. Len(q) : q[i] \in C
      BY LenProperties, ElementOfSeq
    <3>2. ASSUME {"*", "~"} \cap X!ToSet(q) = {} PROVE q \in Seq(E)
      <4>1. \A i \in 1 .. Len(q) : q[i] \in E
        BY <3>1, <3>2 DEF X!ToSet
      <4> HIDE DEF E
      <4> QED BY <4>1, SeqOfElements
    <3>3. ASSUME q \in Seq(E) PROVE {"*", "~"} \cap X!ToSet(q) = {}
      <4>1. \A i \in 1 .. Len(q) : q[i] \in E
        BY <3>3, ElementOfSeq
      <4> QED BY <3>1, <4>1 DEF X!ToSet
    <3> QED BY <3>2, <3>3
  <2> QED BY <2>1
<1> HIDE DEF E
<1>4. ASSUME X!Clean(s) PROVE s \in Seq(Seq(Seq(E)))
  <2>1. ASSUME NEW i \in 1 .. Len(s) PROVE s[i] \in Seq(Seq(E))
    <3>1. \A e \in 1 .. Len(s[i]) : s[i][e] \in Seq(E)
      BY <1>1, <1>2, <1>3, <1>4 DEF X!Clean
    <3> QED BY <1>1, <3>1, SeqOfElements
  <2> QED BY <2>1, SeqOfElements
<1>5. ASSUME s \in Seq(Seq(Seq(E))) PROVE X!Clean(s)
  <2>1. \A i \in 1 .. Len(s) : s[i] \in Seq(Seq(E))
    BY <1>5, ElementOfSeq
  <2>2. \A i \in 1 .. Len(s) : \A e \in 1 .. Len(s[i]) : s[i][e] \in Seq(E)
    BY <2>1, ElementOfSeq
  <2> QED BY <1>1, <1>2, <1>3, <2>2 DEF X!Clean
<1> QED BY <1>4, <1>5 DEF E

(* Segments keep their names. *)
LEMMA TrimLastSegs ==
  ASSUME NEW I, "space" \notin I, NEW g \in Segs(I)
  PROVE  X!TrimLast(g) \in Segs(I) /\ X!TrimLast(g)[1] = g[1]
<1>1. g \in Seq(Seq(Chars)) /\ g # <<>>
  BY DEF Segs
<1>2. PICK id \in I : g[1] = <<id>>
  BY DEF Segs
<1>3. id # "space"
  OBVIOUS
<1>4. X!TrimLast(g) # <<>> /\ X!TrimLast(g)[1] = <<id>>
  BY <1>1, <1>2, <1>3, NameStays
<1>5. X!TrimLast(g) \in Seq(Seq(Chars))
  BY <1>1, TrimLastFacts
<1> QED BY <1>2, <1>4, <1>5 DEF Segs

LEMMA ReceivedSegs ==
  ASSUME NEW I, "space" \notin I, NEW s \in Seq(Segs(I))
  PROVE  /\ s \in Seq(Seq(Seq(Chars)))
         /\ X!Received(s) \in Seq(Segs(I)) /\ Len(X!Received(s)) = Len(s) /\ DOMAIN X!Received(s) = DOMAIN s
         /\ \A i \in 1 .. Len(s) : X!Received(s)[i] = X!TrimLast(s[i]) /\ X!Received(s)[i][1] = s[i][1]
         /\ \A id : X!Where(X!Received(s), id) = X!Where(s, id)
<1> DEFINE r == X!Received(s)
<1>1. s \in Seq(Seq(Seq(Chars)))
  <2>1. Segs(I) \subseteq Seq(Seq(Chars))
    BY DEF Segs
  <2> QED BY <2>1, SeqMonotonic
<1>2. /\ r \in Seq(Seq(Seq(Chars))) /\ Len(r) = Len(s) /\ DOMAIN r = DOMAIN s
      /\ \A i \in 1 .. Len(s) : r[i] = X!TrimLast(s[i])
  BY <1>1, ReceivedFacts, LenProperties
<1>3. DOMAIN s = 1 .. Len(s)
  BY LenProperties
<1> HIDE DEF r
<1>4. \A i \in 1 .. Len(s) : r[i] \in Segs(I) /\ r[i][1] = s[i][1]
  <2>1. \A i \in 1 .. Len(s) : s[i] \in Segs(I)
    BY ElementOfSeq
  <2> QED BY <1>2, <2>1, TrimLastSegs
<1>5. r \in Seq(Segs(I))
  BY <1>2, <1>4, SeqOfElements
<1>6. \A id : X!Where(r, id) = X!Where(s, id)
  BY <1>2, <1>3, <1>4 DEF X!Where
<1> QED BY <1>1, <1>2, <1>4, <1>5, <1>6 DEF r

LEMMA ReceivedAppend ==
  ASSUME NEW I, "space" \notin I, NEW s \in Seq(Segs(I)), NEW g \in Segs(I)
  PROVE  X!Received(Append(s, g)) = Append(X!Received(s), X!TrimLast(g))
<1> DEFINE u == Append(s, g)
           v == X!Received(u)
           w == Append(X!Received(s), X!TrimLast(g))
<1>1. PICK n \in Nat : n = Len(s)
  BY LenProperties
<1>2. u \in Seq(Segs(I)) /\ Len(u) = n + 1 /\ u[n + 1] = g /\ \A i \in 1 .. n : u[i] = s[i]
  BY <1>1, AppendProperties
<1> HIDE DEF u
<1>3. v \in Seq(Segs(I)) /\ Len(v) = n + 1 /\ \A i \in 1 .. n + 1 : v[i] = X!TrimLast(u[i])
  BY <1>2, ReceivedSegs
<1>4. X!Received(s) \in Seq(Segs(I)) /\ Len(X!Received(s)) = n /\ \A i \in 1 .. n : X!Received(s)[i] = X!TrimLast(s[i])
  BY <1>1, ReceivedSegs
<1>5. /\ w \in Seq(Segs(I)) /\ Len(w) = n + 1 /\ w[n + 1] = X!TrimLast(g)
      /\ \A i \in 1 .. n : w[i] = X!TrimLast(s[i])
  <2>1. X!TrimLast(g) \in Segs(I)
    BY TrimLastSegs
  <2> QED BY <1>4, <2>1, AppendProperties
<1> HIDE DEF v, w
<1>6. \A i \in 1 .. n + 1 : i \in 1 .. n \/ i = n + 1
  OBVIOUS
<1>7. \A i \in 1 .. n + 1 : v[i] = w[i]
  BY <1>2, <1>3, <1>5, <1>6
<1>8. v = w
  BY <1>3, <1>5, <1>7, SeqEqual
<1> QED BY <1>8 DEF v, w, u

(* The HLs of what comes back are those that were sent. *)
LEMMA HlsReceived ==
  ASSUME NEW I, "space" \notin I, NEW s \in Seq(Segs(I))
  PROVE  Hls(X!Received(s)) = X!Received(Hls(s))
<1> DEFINE C == Segs(I)
           D == C \cap Segs({"HL"})
           P == { q \in Seq(C) : Hls(X!Received(q)) = X!Received(Hls(q)) }
<1>1. <<>> \in P
  <2>1. Hls(<<>>) = <<>>
    BY NothingToFold DEF Hls
  <2>2. X!Received(<<>>) = <<>>
    <3>1. <<>> \in Seq(C) /\ Len(<<>>) = 0
      BY EmptySeq
    <3> HIDE DEF C
    <3>2. X!Received(<<>>) \in Seq(C) /\ Len(X!Received(<<>>)) = Len(<<>>)
      BY <3>1, ReceivedSegs DEF C
    <3> QED BY <3>1, <3>2, EmptySeq
  <2>3. <<>> \in Seq(C)
    BY EmptySeq
  <2> QED BY <2>1, <2>2, <2>3
<1>2. ASSUME NEW q \in Seq(C), NEW g \in C, q \in P PROVE Append(q, g) \in P
  <2> DEFINE r == X!Received(q)
             t == X!TrimLast(g)
  <2>1. X!Received(Append(q, g)) = Append(r, t) /\ r \in Seq(C) /\ t \in C /\ t[1] = g[1]
    BY ReceivedAppend, ReceivedSegs, TrimLastSegs
  <2>2. t \in Segs({"HL"}) <=> g \in Segs({"HL"})
    BY <2>1 DEF Segs
  <2>3. Append(q, g) \in Seq(C) /\ Hls(r) = X!Received(Hls(q))
    BY <1>2, AppendProperties
  <2>4. Hls(q) \in Seq(D)
    BY HlsType
  <2> HIDE DEF C, D, r, t
  <2>5. CASE g \in Segs({"HL"})
    <3>1. Hls(Append(q, g)) = Append(Hls(q), g) /\ Hls(Append(r, t)) = Append(Hls(r), t)
      BY <2>1, <2>2, <2>5, PickedAppend DEF Hls
    <3>2. X!Received(Append(Hls(q), g)) = Append(X!Received(Hls(q)), t)
      <4>1. Hls(q) \in Seq(Segs(I)) /\ g \in Segs(I)
        <5>1. D \subseteq Segs(I)
          BY DEF C, D
        <5> QED BY <2>4, <5>1, SeqMonotonic DEF C
      <4> DEFINE h == Hls(q)
      <4> HIDE DEF h
      <4>2. h \in Seq(Segs(I))
        BY <4>1 DEF h
      <4>3. X!Received(Append(h, g)) = Append(X!Received(h), X!TrimLast(g))
        BY <4>1, <4>2, ReceivedAppend
      <4> QED BY <4>3 DEF h, t
    <3> QED BY <2>1, <2>3, <3>1, <3>2
  <2>6. CASE g \notin Segs({"HL"})
    <3>1. Hls(Append(q, g)) = Hls(q) /\ Hls(Append(r, t)) = Hls(r)
      BY <2>1, <2>2, <2>6, PickedAppend DEF Hls
    <3> QED BY <2>1, <2>3, <3>1
  <2> QED BY <2>5, <2>6
<1> HIDE DEF P, C
<1>3. s \in P
  <2>1. s \in Seq(C)
    BY DEF C
  <2> QED BY <1>1, <1>2, <2>1, SeqInduct
<1> QED BY <1>3 DEF P

LEMMA NoSpaceNamed == "space" \notin Inner \cup Outer
BY DEF Inner, Outer, X!OrderIds

(* A document comes back, with all but the spaces at the end of its lines,   *)
(* if and only if no field holds a separator.                                *)
LEMMA ComesBack ==
  ASSUME NEW I, "space" \notin I, NEW s \in Seq(Segs(I))
  PROVE  X!Clean(s) <=> X!ParseX12(X!Text(s)) = X!Received(s)
<1> DEFINE C == Chars
           E == C \ {"*", "~"}
           p == X!ParseX12(X!Text(s))
<1>1. s \in Seq(Seq(Seq(C)))
  BY ReceivedSegs
<1>2. \A i \in 1 .. Len(s) : s[i] # <<>> /\ \E id : id # "space" /\ s[i][1] = <<id>>
  <2>1. \A i \in 1 .. Len(s) : s[i] \in Segs(I)
    BY ElementOfSeq
  <2> QED BY <2>1 DEF Segs
<1>3. "*" \in C /\ "~" \in C /\ "space" \in C
  BY CharsFacts
<1>6. E \subseteq C /\ "space" \in E
  BY <1>3
<1> HIDE DEF C
<1>4. ASSUME X!Clean(s) PROVE p = X!Received(s)
  <2>1. s \in Seq(Seq(Seq(E)))
    BY <1>1, <1>4, CleanFacts
  <2> QED BY <1>2, <1>3, <2>1, ParseOfText
<1>5. ASSUME p = X!Received(s) PROVE X!Clean(s)
  <2>1. X!Text(s) \in Seq(C)
    BY <1>1, <1>3, TextType
  <2>2. p \in Seq(Seq(Seq(E)))
    BY <2>1, ParseType
  <2> HIDE DEF p, E
  <2>3. X!Received(s) \in Seq(Seq(Seq(E)))
    BY <1>5, <2>2
  <2>4. s \in Seq(Seq(Seq(E)))
    BY <1>1, <1>6, <2>3, ReceivedClean
  <2> QED BY <1>1, <2>4, CleanFacts DEF E
<1> QED BY <1>4, <1>5

(* Where the segments of an envelope are. *)
LEMMA OuterAt ==
  ASSUME NEW d, IsData(d), NEW n \in Nat, NEW body \in Seq(Segs(Inner)), NEW s, DOMAIN s = 1 .. Len(s),
         IsEnveloped(s, d, body, n)
  PROVE  /\ X!Where(s, "ISA") = {1} /\ X!Where(s, "GS") = {2} /\ X!Where(s, "ST") = {3}
         /\ X!Where(s, "SE") = {Len(body) + 4} /\ X!Where(s, "GE") = {Len(body) + 5}
         /\ X!Where(s, "IEA") = {Len(body) + 6}
<1> DEFINE m == Len(body)
<1>1. m \in Nat /\ DOMAIN s = 1 .. m + 6
  BY LenProperties DEF IsEnveloped
<1>2. /\ s[1][1] = <<"ISA">> /\ s[2][1] = <<"GS">> /\ s[3][1] = <<"ST">>
      /\ s[m + 4][1] = <<"SE">> /\ s[m + 5][1] = <<"GE">> /\ s[m + 6][1] = <<"IEA">>
  BY DEF IsEnveloped, ISA, GS, ST, SE, GE, IEA
<1>3. \A j \in 1 .. m : \E id \in Inner : s[3 + j][1] = <<id>>
  <2>1. \A j \in 1 .. m : body[j] \in Segs(Inner) /\ s[3 + j] = body[j]
    BY ElementOfSeq DEF IsEnveloped
  <2>2. \A j \in 1 .. m : \E id \in Inner : body[j][1] = <<id>>
    BY <2>1 DEF Segs
  <2> QED BY <2>1, <2>2
<1> HIDE DEF m
<1>4. \A i \in 1 .. m + 6 : i \in {1, 2, 3, m + 4, m + 5, m + 6} \/ \E j \in 1 .. m : i = 3 + j
  <2>1. ASSUME NEW i \in 1 .. m + 6, i \notin {1, 2, 3, m + 4, m + 5, m + 6} PROVE \E j \in 1 .. m : i = 3 + j
    <3>1. i - 3 \in 1 .. m /\ i = 3 + (i - 3)
      BY <1>1, <2>1
    <3> QED BY <3>1
  <2> QED BY <2>1
<1>5. ASSUME NEW i \in 1 .. m + 6
      PROVE  /\ s[i][1] = <<"ISA">> => i = 1
             /\ s[i][1] = <<"GS">> => i = 2
             /\ s[i][1] = <<"ST">> => i = 3
             /\ s[i][1] = <<"SE">> => i = m + 4
             /\ s[i][1] = <<"GE">> => i = m + 5
             /\ s[i][1] = <<"IEA">> => i = m + 6
  <2>1. ASSUME NEW j \in 1 .. m, i = 3 + j
        PROVE  s[i][1] \notin {<<"ISA">>, <<"GS">>, <<"ST">>, <<"SE">>, <<"GE">>, <<"IEA">>}
    <3>1. PICK id \in Inner : s[i][1] = <<id>>
      BY <1>3, <2>1
    <3>2. id \notin {"ISA", "GS", "ST", "SE", "GE", "IEA"}
      BY <3>1 DEF Inner, X!OrderIds
    <3>3. \A x, y : <<x>> = <<y>> => x = y
      OBVIOUS
    <3> QED BY <3>1, <3>2, <3>3
  <2>2. \A x, y : <<x>> = <<y>> => x = y
    OBVIOUS
  <2>3. CASE i \in {1, 2, 3, m + 4, m + 5, m + 6}
    <3>1. \/ i = 1 /\ s[i][1] = <<"ISA">>
          \/ i = 2 /\ s[i][1] = <<"GS">>
          \/ i = 3 /\ s[i][1] = <<"ST">>
          \/ i = m + 4 /\ s[i][1] = <<"SE">>
          \/ i = m + 5 /\ s[i][1] = <<"GE">>
          \/ i = m + 6 /\ s[i][1] = <<"IEA">>
      BY <1>2, <2>3
    <3> QED BY <2>2, <3>1
  <2> QED BY <1>4, <2>1, <2>3
<1>6. 1 \in 1 .. m + 6 /\ 2 \in 1 .. m + 6 /\ 3 \in 1 .. m + 6 /\ m + 4 \in 1 .. m + 6 /\ m + 5 \in 1 .. m + 6 /\ m + 6 \in 1 .. m + 6
  BY <1>1
<1>7. \A id : X!Where(s, id) = { i \in 1 .. m + 6 : s[i][1] = <<id>> }
  BY <1>1 DEF X!Where
<1>8. X!Where(s, "ISA") = {1}
  <2>1. \A i \in 1 .. m + 6 : s[i][1] = <<"ISA">> => i = 1
    BY <1>5
  <2>2. s[1][1] = <<"ISA">>
    BY <1>2
  <2>3. X!Where(s, "ISA") = { i \in 1 .. m + 6 : s[i][1] = <<"ISA">> }
    BY <1>7
  <2> QED BY <1>6, <2>1, <2>2, <2>3
<1>9. X!Where(s, "GS") = {2}
  <2>1. \A i \in 1 .. m + 6 : s[i][1] = <<"GS">> => i = 2
    BY <1>5
  <2>2. s[2][1] = <<"GS">>
    BY <1>2
  <2>3. X!Where(s, "GS") = { i \in 1 .. m + 6 : s[i][1] = <<"GS">> }
    BY <1>7
  <2> QED BY <1>6, <2>1, <2>2, <2>3
<1>10. X!Where(s, "ST") = {3}
  <2>1. \A i \in 1 .. m + 6 : s[i][1] = <<"ST">> => i = 3
    BY <1>5
  <2>2. s[3][1] = <<"ST">>
    BY <1>2
  <2>3. X!Where(s, "ST") = { i \in 1 .. m + 6 : s[i][1] = <<"ST">> }
    BY <1>7
  <2> QED BY <1>6, <2>1, <2>2, <2>3
<1>11. X!Where(s, "SE") = {m + 4}
  <2>1. \A i \in 1 .. m + 6 : s[i][1] = <<"SE">> => i = m + 4
    BY <1>5
  <2>2. s[m + 4][1] = <<"SE">>
    BY <1>2
  <2>3. X!Where(s, "SE") = { i \in 1 .. m + 6 : s[i][1] = <<"SE">> }
    BY <1>7
  <2> QED BY <1>6, <2>1, <2>2, <2>3
<1>12. X!Where(s, "GE") = {m + 5}
  <2>1. \A i \in 1 .. m + 6 : s[i][1] = <<"GE">> => i = m + 5
    BY <1>5
  <2>2. s[m + 5][1] = <<"GE">>
    BY <1>2
  <2>3. X!Where(s, "GE") = { i \in 1 .. m + 6 : s[i][1] = <<"GE">> }
    BY <1>7
  <2> QED BY <1>6, <2>1, <2>2, <2>3
<1>13. X!Where(s, "IEA") = {m + 6}
  <2>1. \A i \in 1 .. m + 6 : s[i][1] = <<"IEA">> => i = m + 6
    BY <1>5
  <2>2. s[m + 6][1] = <<"IEA">>
    BY <1>2
  <2>3. X!Where(s, "IEA") = { i \in 1 .. m + 6 : s[i][1] = <<"IEA">> }
    BY <1>7
  <2> QED BY <1>6, <2>1, <2>2, <2>3
<1> QED BY <1>8, <1>9, <1>10, <1>11, <1>12, <1>13 DEF m

LEMMA LastIs ==
  ASSUME NEW s, NEW id, NEW k \in Int, X!Where(s, id) = {k}
  PROVE  X!The(s, id) = k /\ \A i : X!LastOf(s, id, i) = X!El(s[k], i)
<1>1. X!Max({k}) = k
  BY DEF X!Max
<1>2. X!The(s, id) = k
  BY DEF X!The
<1>3. {k} # {}
  OBVIOUS
<1> QED BY <1>1, <1>2, <1>3 DEF X!LastOf

(* What is known of an exchanged document. *)
Exchanged(d, s, p, body) ==
  /\ IsData(d) /\ IsBody(d, body) /\ p = X!ParseX12(X!Text(s))
  /\ s = X!Envelope(d, body, 2 + Len(body)) /\ s = (Header(d) \o body) \o Trailer(d, 2 + Len(body))
  /\ s \in Seq(Segs(Inner \cup Outer)) /\ DOMAIN s = 1 .. Len(s) /\ Len(body) \in Nat
  /\ IsEnveloped(s, d, body, 2 + Len(body))

X12Inv ==
  /\ part = "x12" => IsDocument(doc)
  /\ sent # <<>> => part = "x12" /\ sent = X!Document(doc) /\ parsed = X!ParseX12(X!Text(sent))

LEMMA ExchangedFacts ==
  ASSUME X12Inv, sent # <<>>
  PROVE  \E body : Exchanged(doc, sent, parsed, body)
<1>1. IsDocument(doc) /\ IsData(doc) /\ sent = X!Document(doc) /\ parsed = X!ParseX12(X!Text(sent))
  BY DEF X12Inv, IsDocument
<1>2. PICK body : IsBody(doc, body)
  BY <1>1, DocumentShape
<1>3. Len(body) \in Nat /\ 2 + Len(body) \in Nat /\ body \in Seq(Segs(Inner))
  BY <1>2, LenProperties DEF IsBody
<1> DEFINE n == 2 + Len(body)
           s == X!Envelope(doc, body, n)
<1>4. sent = s
  BY <1>1, <1>2 DEF IsBody
<1>5. n \in Nat
  BY <1>3
<1> HIDE DEF n
<1>6. s = (Header(doc) \o body) \o Trailer(doc, n) /\ IsEnveloped(s, doc, body, n)
  BY <1>1, <1>3, <1>5, EnvelopeShape
<1>7. s \in Seq(Segs(Inner \cup Outer))
  BY <1>1, <1>3, <1>5, EnvelopeShape
<1> HIDE DEF s
<1>8. DOMAIN s = 1 .. Len(s)
  BY <1>7, LenProperties
<1> QED BY <1>1, <1>2, <1>3, <1>4, <1>6, <1>7, <1>8 DEF Exchanged, n, s

LEMMA EndingIsSuffix ==
  ASSUME NEW C, NEW s \in Seq(C), NEW t \in Seq(C), Len(s) <= Len(t),
         \A i \in 1 .. Len(s) : t[Len(t) - Len(s) + i] = s[i]
  PROVE  X!IsSuffix(s, t)
<1> DEFINE k == Len(s)
           m == Len(t)
           r == X!Reverse(s)
           q == X!Reverse(t)
<1>1. k \in Nat /\ m \in Nat /\ k <= m
  BY LenProperties
<1>2. \A i \in 1 .. k : (k - i) + 1 \in 1 .. k /\ s[(k - i) + 1] \in C
  <2>1. \A i \in 1 .. k : (k - i) + 1 \in 1 .. k
    BY <1>1
  <2> QED BY <2>1, ElementOfSeq
<1>3. \A i \in 1 .. m : (m - i) + 1 \in 1 .. m /\ t[(m - i) + 1] \in C
  <2>1. \A i \in 1 .. m : (m - i) + 1 \in 1 .. m
    BY <1>1
  <2> QED BY <2>1, ElementOfSeq
<1>4. r = [i \in 1 .. k |-> s[(k - i) + 1]] /\ q = [i \in 1 .. m |-> t[(m - i) + 1]]
  BY DEF X!Reverse
<1>10. \A i \in 1 .. k : t[m - k + i] = s[i]
  OBVIOUS
<1> HIDE DEF k, m, r, q
<1>5. r \in Seq(C) /\ q \in Seq(C) /\ Len(r) = k /\ Len(q) = m
  BY <1>1, <1>2, <1>3, <1>4
<1>6. \A i \in 1 .. k : r[i] = q[i]
  <2>1. ASSUME NEW i \in 1 .. k PROVE r[i] = q[i]
    <3>1. i \in 1 .. m /\ (k - i) + 1 \in 1 .. k /\ (m - i) + 1 = m - k + ((k - i) + 1)
      BY <1>1
    <3> QED BY <1>4, <1>10, <3>1
  <2> QED BY <2>1
<1>7. SubSeq(r, 1, k) = r
  BY <1>5, SubSeqFull
<1>8. SubSeq(q, 1, k) = r
  <2>1. k \in 0 .. Len(q)
    BY <1>1, <1>5
  <2>2. SubSeq(q, 1, k) \in Seq(C)
    BY <1>5, <2>1, PrefixType
  <2>3. Len(SubSeq(q, 1, k)) = k /\ \A i \in 1 .. k : SubSeq(q, 1, k)[i] = q[i]
    BY <1>5, <2>1, SubSeqPrefix
  <2> DEFINE p == SubSeq(q, 1, k)
  <2> HIDE DEF p
  <2>4. p \in Seq(C) /\ Len(p) = k /\ \A i \in 1 .. k : p[i] = q[i]
    BY <2>2, <2>3 DEF p
  <2>5. p = r
    BY <1>5, <1>6, <2>4, SeqEqual
  <2> QED BY <2>5 DEF p
<1>9. X!IsPrefix(r, q)
  BY <1>1, <1>5, <1>7, <1>8 DEF X!IsPrefix
<1> QED BY <1>9 DEF X!IsSuffix, r, q

LEMMA SelectsHls ==
  ASSUME NEW I, NEW s \in Seq(Segs(I))
  PROVE  X!Select(LAMBDA seg : seg[1] = <<"HL">>, s) = Hls(s)
<1>1. \A i \in DOMAIN s : s[i][1] = <<"HL">> <=> s[i] \in Segs({"HL"})
  <2>1. \A i \in DOMAIN s : s[i] \in Segs(I)
    BY ElementOfSeq, LenProperties
  <2> QED BY <2>1 DEF Segs
<1>2. [i \in DOMAIN s |-> IF s[i][1] = <<"HL">> THEN <<s[i]>> ELSE <<>>]
      = [i \in DOMAIN s |-> IF s[i] \in Segs({"HL"}) THEN <<s[i]>> ELSE <<>>]
  BY <1>1
<1> QED BY <1>2 DEF X!Select, X!FlatMap, Hls, Picked

LEMMA HlsOfEnvelope ==
  ASSUME NEW d, NEW s, NEW p, NEW body, Exchanged(d, s, p, body)
  PROVE  Hls(s) = Hls(body)
<1> DEFINE S == Segs(Inner \cup Outer)
           f == Header(d)
           b == Trailer(d, 2 + Len(body))
<1>1. /\ s \in Seq(S) /\ DOMAIN s = 1 .. Len(s) /\ s = (f \o body) \o b /\ body \in Seq(Segs(Inner))
      /\ IsData(d) /\ 2 + Len(body) \in Nat
  <2>1. /\ s \in Seq(S) /\ DOMAIN s = 1 .. Len(s) /\ s = (f \o body) \o b /\ IsBody(d, body)
        /\ IsData(d) /\ Len(body) \in Nat
    BY DEF Exchanged
  <2>2. body \in Seq(Segs(Inner))
    BY <2>1 DEF IsBody
  <2>3. 2 + Len(body) \in Nat
    BY <2>1
  <2> QED BY <2>1, <2>2, <2>3
<1>4. f \in Seq(Segs(Outer)) /\ b \in Seq(Segs(Outer))
  BY <1>1, HeaderAndTrailer
<1>5. \A q \in Seq(Segs(Outer)) : Hls(q) = <<>>
  <2>1. Segs(Outer) \cap Segs({"HL"}) = {}
    BY DEF Segs, Outer
  <2>2. \A q \in Seq(Segs(Outer)) : Hls(q) \in Seq(Segs(Outer) \cap Segs({"HL"}))
    BY HlsType
  <2> QED BY <2>1, <2>2, EmptySeq, SequenceEmptyOrAppend
<1>6. f \in Seq(S) /\ b \in Seq(S) /\ body \in Seq(S)
  <2>1. Inner \subseteq Inner \cup Outer /\ Outer \subseteq Inner \cup Outer
    OBVIOUS
  <2> QED BY <1>1, <1>4, <2>1, SegsMonotonic
<1> DEFINE h == Hls(body)
<1>7. h \in Seq(S \cap Segs({"HL"}))
  BY <1>6, HlsType
<1> HIDE DEF S, f, b, h
<1>8. f \o body \in Seq(S)
  BY <1>6, ConcatProperties
<1>9. Hls(f \o body) = Hls(f) \o h
  BY <1>6, HlsConcat DEF h
<1>10. Hls((f \o body) \o b) = Hls(f \o body) \o Hls(b)
  BY <1>6, <1>8, HlsConcat
<1>11. Hls(f) = <<>> /\ Hls(b) = <<>>
  BY <1>4, <1>5
<1>12. <<>> \o h = h /\ h \o <<>> = h
  BY <1>7, ConcatEmptySeq
<1>13. Hls(s) = h
  BY <1>1, <1>9, <1>10, <1>11, <1>12
<1> QED BY <1>13 DEF h

LEMMA Numbering ==
  ASSUME NEW d, NEW s, NEW p, NEW body, Exchanged(d, s, p, body)
  PROVE  LET hls == X!Select(LAMBDA seg : seg[1] = <<"HL">>, X!Received(s))
         IN  \A i \in DOMAIN hls :
               /\ hls[i][2] = X!Decimal(i)
               /\ i > 1 => \E j \in 1 .. i - 1 : hls[i][3] = X!Decimal(j)
<1> DEFINE h == Hls(body)
           r == X!Received(h)
           I == Inner \cup Outer
<1>1. X!Select(LAMBDA seg : seg[1] = <<"HL">>, X!Received(s)) = r
  <2>1. s \in Seq(Segs(I)) /\ "space" \notin I
    BY NoSpaceNamed DEF Exchanged
  <2>2. Hls(s) = h
    BY HlsOfEnvelope
  <2> HIDE DEF I
  <2>3. X!Received(s) \in Seq(Segs(I)) /\ Hls(X!Received(s)) = X!Received(Hls(s))
    BY <2>1, ReceivedSegs, HlsReceived
  <2>4. \A q \in Seq(Segs(I)) : X!Select(LAMBDA seg : seg[1] = <<"HL">>, q) = Hls(q)
    BY SelectsHls
  <2> QED BY <2>2, <2>3, <2>4
<1>2. Follows(h, 0) /\ body \in Seq(Segs(Inner))
  BY DEF Exchanged, IsBody
<1>3. h \in Seq(Segs({"HL"}))
  <2>1. h \in Seq(Segs(Inner) \cap Segs({"HL"}))
    BY <1>2, HlsType
  <2>2. Segs(Inner) \cap Segs({"HL"}) \subseteq Segs({"HL"})
    OBVIOUS
  <2> QED BY <2>1, <2>2, SeqMonotonic
<1> HIDE DEF h
<1>4. /\ DOMAIN h = 1 .. Len(h) /\ Len(h) \in Nat /\ DOMAIN r = DOMAIN h
      /\ \A i \in 1 .. Len(h) : r[i] = X!TrimLast(h[i]) /\ h[i] \in Seq(Seq(Chars))
  <2>1. "space" \notin {"HL"}
    OBVIOUS
  <2>2. h \in Seq(Seq(Seq(Chars)))
    BY <1>3, <2>1, ReceivedSegs
  <2>3. \A i \in 1 .. Len(h) : h[i] \in Seq(Seq(Chars))
    BY <2>2, ElementOfSeq
  <2> QED BY <1>3, <2>1, <2>3, ReceivedSegs, LenProperties
<1> HIDE DEF r
<1>5. ASSUME NEW i \in 1 .. Len(h)
      PROVE  /\ r[i][2] = X!Decimal(i)
             /\ i > 1 => \E j \in 1 .. i - 1 : r[i][3] = X!Decimal(j)
  <2>1. 0 + i = i /\ 0 + i - 1 = i - 1
    BY <1>4
  <2>2. /\ Len(h[i]) = 4 /\ h[i][2] = X!Decimal(i)
        /\ i > 1 => \E j \in 1 .. i - 1 : h[i][3] = X!Decimal(j)
    BY <1>2, <2>1 DEF Follows
  <2>3. r[i][2] = h[i][2] /\ r[i][3] = h[i][3]
    <3>1. /\ \A j \in 1 .. Len(h[i]) : r[i][j] = IF j = Len(h[i]) THEN X!TrimEnd(h[i][j]) ELSE h[i][j]
          /\ Len(h[i]) = 4
      <4>1. PICK g \in Seq(Seq(Chars)) : g = h[i] /\ r[i] = X!TrimLast(g)
        BY <1>4
      <4>2. \A j \in 1 .. Len(g) : X!TrimLast(g)[j] = IF j = Len(g) THEN X!TrimEnd(g[j]) ELSE g[j]
        BY TrimLastFacts
      <4> QED BY <2>2, <4>1, <4>2
    <3>2. 2 \in 1 .. 4 /\ 3 \in 1 .. 4 /\ 2 # 4 /\ 3 # 4
      OBVIOUS
    <3> QED BY <3>1, <3>2
  <2> QED BY <2>2, <2>3
<1> QED BY <1>1, <1>4, <1>5

LEMMA OuterOf ==
  ASSUME NEW d, NEW s, NEW p, NEW body, Exchanged(d, s, p, body), NEW m, m = Len(body), NEW r, r = X!Received(s)
  PROVE  /\ X!The(r, "ISA") = 1 /\ X!The(r, "GS") = 2 /\ X!The(r, "ST") = 3
         /\ X!The(r, "SE") = m + 4 /\ X!The(r, "GE") = m + 5 /\ X!The(r, "IEA") = m + 6
         /\ \A i : /\ X!LastOf(r, "ISA", i) = X!El(X!TrimLast(ISA(d)), i)
                   /\ X!LastOf(r, "ST", i) = X!El(X!TrimLast(ST(d)), i)
         /\ r[1] = X!TrimLast(ISA(d)) /\ r[2] = X!TrimLast(GS(d)) /\ r[3] = X!TrimLast(ST(d))
         /\ r[m + 4] = X!TrimLast(SE(d, 2 + m)) /\ r[m + 5] = X!TrimLast(GE(d)) /\ r[m + 6] = X!TrimLast(IEA(d))
<1>1. /\ IsData(d) /\ m \in Nat /\ 2 + m \in Nat /\ DOMAIN s = 1 .. Len(s)
      /\ IsEnveloped(s, d, body, 2 + m) /\ s \in Seq(Segs(Inner \cup Outer))
  BY DEF Exchanged
<1>2. body \in Seq(Segs(Inner))
  <2>1. IsBody(d, body)
    BY DEF Exchanged
  <2> QED BY <2>1 DEF IsBody
<1>13. /\ \A i \in 1 .. Len(s) : r[i] = X!TrimLast(s[i])
       /\ \A id : X!Where(r, id) = X!Where(s, id)
  BY <1>1, NoSpaceNamed, ReceivedSegs
<1>3. /\ X!Where(r, "ISA") = {1} /\ X!Where(r, "GS") = {2} /\ X!Where(r, "ST") = {3}
      /\ X!Where(r, "SE") = {m + 4} /\ X!Where(r, "GE") = {m + 5} /\ X!Where(r, "IEA") = {m + 6}
  BY <1>1, <1>2, <1>13, OuterAt
<1>4. /\ r[1] = X!TrimLast(ISA(d)) /\ r[2] = X!TrimLast(GS(d)) /\ r[3] = X!TrimLast(ST(d))
      /\ r[m + 4] = X!TrimLast(SE(d, 2 + m)) /\ r[m + 5] = X!TrimLast(GE(d)) /\ r[m + 6] = X!TrimLast(IEA(d))
  <2>1. /\ s[1] = ISA(d) /\ s[2] = GS(d) /\ s[3] = ST(d) /\ Len(s) = m + 6
        /\ s[m + 4] = SE(d, 2 + m) /\ s[m + 5] = GE(d) /\ s[m + 6] = IEA(d)
    BY <1>1 DEF IsEnveloped
  <2>2. \A i \in {1, 2, 3, m + 4, m + 5, m + 6} : i \in 1 .. m + 6
    BY <1>1
  <2>3. \A i \in {1, 2, 3, m + 4, m + 5, m + 6} : r[i] = X!TrimLast(s[i])
    BY <1>13, <2>1, <2>2
  <2> QED BY <2>1, <2>3
<1>5. 1 \in Int /\ 2 \in Int /\ 3 \in Int /\ m + 4 \in Int /\ m + 5 \in Int /\ m + 6 \in Int
  BY <1>1
<1>12. \A id : \A k \in Int : X!Where(r, id) = {k} => X!The(r, id) = k
  BY LastIs
<1>14. \A id : \A k \in Int : X!Where(r, id) = {k} => \A i : X!LastOf(r, id, i) = X!El(r[k], i)
  BY LastIs
<1>6. X!The(r, "ISA") = 1 /\ \A i : X!LastOf(r, "ISA", i) = X!El(r[1], i)
  BY <1>3, <1>5, <1>12, <1>14
<1>7. X!The(r, "ST") = 3 /\ \A i : X!LastOf(r, "ST", i) = X!El(r[3], i)
  BY <1>3, <1>5, <1>12, <1>14
<1>8. X!The(r, "GS") = 2
  BY <1>3, <1>5, <1>12
<1>9. X!The(r, "SE") = m + 4
  BY <1>3, <1>5, <1>12
<1>10. X!The(r, "GE") = m + 5
  BY <1>3, <1>5, <1>12
<1>11. X!The(r, "IEA") = m + 6
  BY <1>3, <1>5, <1>12
<1> QED BY <1>4, <1>6, <1>7, <1>8, <1>9, <1>10, <1>11

(* The elements of the envelope that are received. *)
LEMMA TrimmedOuter ==
  ASSUME NEW d, IsData(d), NEW n \in Nat
  PROVE  /\ Len(X!TrimLast(ISA(d))) = 17 /\ X!TrimLast(ISA(d))[7] = X!Pad(d.sender, 15)
         /\ X!TrimLast(ISA(d))[14] = X!PadNum(d.control, 9) /\ X!TrimLast(GS(d))[7] = d.control
         /\ Len(X!TrimLast(ST(d))) = 3 /\ X!TrimLast(ST(d))[2] = <<d.type>>
         /\ X!TrimLast(ST(d))[3] = X!TrimEnd(X!PadNum(d.control, 4))
         /\ X!TrimLast(SE(d, n))[2] = X!Decimal(n)
         /\ X!TrimLast(SE(d, n))[3] = X!TrimEnd(X!PadNum(d.control, 4))
         /\ X!TrimLast(GE(d))[3] = X!TrimEnd(d.control)
         /\ X!TrimLast(IEA(d))[3] = X!TrimEnd(X!PadNum(d.control, 9))
<1>1. /\ ISA(d) \in Seq(Seq(Chars)) /\ GS(d) \in Seq(Seq(Chars)) /\ ST(d) \in Seq(Seq(Chars))
      /\ SE(d, n) \in Seq(Seq(Chars)) /\ GE(d) \in Seq(Seq(Chars)) /\ IEA(d) \in Seq(Seq(Chars))
  BY OuterTypes DEF Segs
<1>2. \A g \in Seq(Seq(Chars)) :
        /\ Len(X!TrimLast(g)) = Len(g)
        /\ \A j \in 1 .. Len(g) : X!TrimLast(g)[j] = IF j = Len(g) THEN X!TrimEnd(g[j]) ELSE g[j]
  BY TrimLastFacts
<1>3. Len(ISA(d)) = 17 /\ ISA(d)[7] = X!Pad(d.sender, 15) /\ ISA(d)[14] = X!PadNum(d.control, 9)
  BY DEF ISA
<1>4. Len(GS(d)) = 9 /\ GS(d)[7] = d.control
  BY DEF GS
<1>5. Len(ST(d)) = 3 /\ ST(d)[2] = <<d.type>> /\ ST(d)[3] = X!PadNum(d.control, 4)
  BY DEF ST
<1>6. Len(SE(d, n)) = 3 /\ SE(d, n)[2] = X!Decimal(n) /\ SE(d, n)[3] = X!PadNum(d.control, 4)
  BY DEF SE
<1>7. Len(GE(d)) = 3 /\ GE(d)[3] = d.control
  BY DEF GE
<1>8. Len(IEA(d)) = 3 /\ IEA(d)[3] = X!PadNum(d.control, 9)
  BY DEF IEA
<1>9. /\ 7 \in 1 .. 17 /\ 14 \in 1 .. 17 /\ 7 # 17 /\ 14 # 17 /\ 7 \in 1 .. 9 /\ 7 # 9
      /\ 2 \in 1 .. 3 /\ 3 \in 1 .. 3 /\ 2 # 3
  OBVIOUS
<1>10. Len(X!TrimLast(ISA(d))) = 17 /\ X!TrimLast(ISA(d))[7] = ISA(d)[7] /\ X!TrimLast(ISA(d))[14] = ISA(d)[14]
  <2>1. \A g \in Seq(Seq(Chars)) : Len(g) = 17 =>
          Len(X!TrimLast(g)) = 17 /\ X!TrimLast(g)[7] = g[7] /\ X!TrimLast(g)[14] = g[14]
    BY <1>2, <1>9
  <2> QED BY <1>1, <1>3, <2>1
<1>11. X!TrimLast(GS(d))[7] = GS(d)[7]
  BY <1>1, <1>2, <1>4, <1>9
<1>12. /\ Len(X!TrimLast(ST(d))) = 3 /\ X!TrimLast(ST(d))[2] = ST(d)[2]
       /\ X!TrimLast(ST(d))[3] = X!TrimEnd(ST(d)[3])
  BY <1>1, <1>2, <1>5, <1>9
<1>13. X!TrimLast(SE(d, n))[2] = SE(d, n)[2] /\ X!TrimLast(SE(d, n))[3] = X!TrimEnd(SE(d, n)[3])
  BY <1>1, <1>2, <1>6, <1>9
<1>14. X!TrimLast(GE(d))[3] = X!TrimEnd(GE(d)[3])
  BY <1>1, <1>2, <1>7, <1>9
<1>15. X!TrimLast(IEA(d))[3] = X!TrimEnd(IEA(d)[3])
  BY <1>1, <1>2, <1>8, <1>9
<1>16. X!TrimEnd(ST(d)[3]) = X!TrimEnd(X!PadNum(d.control, 4)) /\ X!TrimEnd(SE(d, n)[3]) = X!TrimEnd(X!PadNum(d.control, 4))
  BY <1>5, <1>6
<1>17. X!TrimEnd(GE(d)[3]) = X!TrimEnd(d.control) /\ X!TrimEnd(IEA(d)[3]) = X!TrimEnd(X!PadNum(d.control, 9))
  BY <1>7, <1>8
<1> QED BY <1>3, <1>4, <1>5, <1>6, <1>10, <1>11, <1>12, <1>13, <1>14, <1>15, <1>16, <1>17

LEMMA CleanComesBack ==
  ASSUME NEW d, NEW s, NEW p, NEW body, Exchanged(d, s, p, body)
  PROVE  X!Clean(s) <=> p = X!Received(s)
<1>1. s \in Seq(Segs(Inner \cup Outer)) /\ p = X!ParseX12(X!Text(s))
  BY DEF Exchanged
<1> QED BY <1>1, NoSpaceNamed, ComesBack

LEMMA BackWhole == X12Inv => ParsesBack
<1> SUFFICES ASSUME X12Inv, sent # <<>>
             PROVE  /\ X!Clean(sent) <=> parsed = X!Received(sent)
                    /\ X!Clean(sent) =>
                         /\ X!DocumentType(parsed) = <<doc.type>>
                         /\ Len(doc.sender) <= 15 /\ X!Trim(doc.sender) = doc.sender =>
                              X!SenderId(parsed) = doc.sender
                         /\ Len(doc.control) <= 9 /\ X!NoSpace(doc.control) =>
                              X!IsSuffix(doc.control, X!ControlNumber(parsed))
  BY DEF ParsesBack, X!ParsesBack
<1>1. PICK body : Exchanged(doc, sent, parsed, body)
  BY ExchangedFacts
<1>2. X!Clean(sent) <=> parsed = X!Received(sent)
  BY <1>1, CleanComesBack
<1> DEFINE r == X!Received(sent)
<1>4. IsData(doc)
  BY <1>1 DEF Exchanged
<1>5. doc.sender \in Seq(Chars) /\ doc.control \in Seq(Chars) /\ "space" \in Chars /\ "0" \in Chars
  BY <1>4, CharsFacts DEF IsData
<1>3. \A i : /\ X!LastOf(r, "ISA", i) = X!El(X!TrimLast(ISA(doc)), i)
             /\ X!LastOf(r, "ST", i) = X!El(X!TrimLast(ST(doc)), i)
  <2>1. PICK m : m = Len(body)
    OBVIOUS
  <2> QED BY <1>1, <2>1, OuterOf
<1>9. /\ X!LastOf(r, "ST", 1) = <<doc.type>> /\ X!LastOf(r, "ISA", 6) = X!Pad(doc.sender, 15)
      /\ X!LastOf(r, "ISA", 13) = X!PadNum(doc.control, 9)
  <2>1. /\ Len(X!TrimLast(ISA(doc))) = 17 /\ X!TrimLast(ISA(doc))[7] = X!Pad(doc.sender, 15)
        /\ X!TrimLast(ISA(doc))[14] = X!PadNum(doc.control, 9)
        /\ Len(X!TrimLast(ST(doc))) = 3 /\ X!TrimLast(ST(doc))[2] = <<doc.type>>
    BY <1>4, TrimmedOuter
  <2>2. 6 + 1 = 7 /\ 13 + 1 = 14 /\ 7 <= 17 /\ 14 <= 17 /\ 1 + 1 = 2 /\ 2 <= 3
    OBVIOUS
  <2>3. X!El(X!TrimLast(ISA(doc)), 6) = X!Pad(doc.sender, 15) /\ X!El(X!TrimLast(ISA(doc)), 13) = X!PadNum(doc.control, 9)
    BY <2>1, <2>2 DEF X!El
  <2>4. X!El(X!TrimLast(ST(doc)), 1) = <<doc.type>>
    BY <2>1, <2>2 DEF X!El
  <2> QED BY <1>3, <2>3, <2>4
<1> HIDE DEF r
<1>6. X!DocumentType(r) = <<doc.type>>
  BY <1>9 DEF X!DocumentType
<1>7. Len(doc.sender) <= 15 /\ X!Trim(doc.sender) = doc.sender => X!SenderId(r) = doc.sender
  <2>1. X!SenderId(r) = X!Trim(X!Pad(doc.sender, 15))
    BY <1>9 DEF X!SenderId
  <2>2. 15 \in Nat
    OBVIOUS
  <2> QED BY <1>5, <2>1, <2>2, PadTrims
<1>8. ASSUME Len(doc.control) <= 9, X!NoSpace(doc.control) PROVE X!IsSuffix(doc.control, X!ControlNumber(r))
  <2> DEFINE t == X!PadNum(doc.control, 9)
  <2>5. 9 \in Nat /\ 9 \in Nat \ {0}
    OBVIOUS
  <2>1. X!ControlNumber(r) = t
    <3>1. X!Trim(t) = t
      BY <1>5, <1>8, <2>5, PadNumStays
    <3> QED BY <1>9, <3>1 DEF X!ControlNumber
  <2>2. /\ t \in Seq(Chars) /\ Len(t) = 9
        /\ \A i \in 1 .. Len(doc.control) : t[9 - Len(doc.control) + i] = doc.control[i]
    BY <1>5, <1>8, <2>5, PadNumType
  <2> HIDE DEF t
  <2>3. \A i \in 1 .. Len(doc.control) : t[Len(t) - Len(doc.control) + i] = doc.control[i]
    BY <2>2
  <2>4. X!IsSuffix(doc.control, t)
    BY <1>5, <1>8, <2>2, <2>3, EndingIsSuffix
  <2> QED BY <2>1, <2>4
<1> QED BY <1>2, <1>6, <1>7, <1>8 DEF r

LEMMA Agrees == X12Inv => EnvelopeAgrees
<1> DEFINE hls == X!Select(LAMBDA seg : seg[1] = <<"HL">>, parsed)
           at(id) == parsed[X!The(parsed, id)]
<1> SUFFICES ASSUME X12Inv, sent # <<>>, X!Clean(sent), X!NoSpace(doc.control)
             PROVE  /\ at("SE")[2] = X!Decimal(X!The(parsed, "SE") - X!The(parsed, "ST") + 1)
                    /\ at("ST")[3] = at("SE")[3]
                    /\ at("GS")[7] = at("GE")[3]
                    /\ at("ISA")[14] = at("IEA")[3]
                    /\ \A i \in DOMAIN hls :
                         /\ hls[i][2] = X!Decimal(i)
                         /\ i > 1 => \E j \in 1 .. i - 1 : hls[i][3] = X!Decimal(j)
  BY DEF EnvelopeAgrees, X!EnvelopeAgrees
<1>1. PICK body : Exchanged(doc, sent, parsed, body)
  BY ExchangedFacts
<1>2. parsed = X!Received(sent)
  BY <1>1, CleanComesBack
<1>3. \A i \in DOMAIN hls : /\ hls[i][2] = X!Decimal(i)
                            /\ i > 1 => \E j \in 1 .. i - 1 : hls[i][3] = X!Decimal(j)
  BY <1>1, <1>2, Numbering
<1>4. Len(body) \in Nat /\ IsData(doc)
  BY <1>1 DEF Exchanged
<1>5. PICK m \in Nat : m = Len(body)
  BY <1>4
<1>6. 2 + m \in Nat /\ m + 4 - 3 + 1 = 2 + m
  OBVIOUS
<1> HIDE DEF hls
<1>7. /\ X!The(parsed, "ISA") = 1 /\ X!The(parsed, "GS") = 2 /\ X!The(parsed, "ST") = 3
      /\ X!The(parsed, "SE") = m + 4 /\ X!The(parsed, "GE") = m + 5 /\ X!The(parsed, "IEA") = m + 6
      /\ parsed[1] = X!TrimLast(ISA(doc)) /\ parsed[2] = X!TrimLast(GS(doc)) /\ parsed[3] = X!TrimLast(ST(doc))
      /\ parsed[m + 4] = X!TrimLast(SE(doc, 2 + m)) /\ parsed[m + 5] = X!TrimLast(GE(doc))
      /\ parsed[m + 6] = X!TrimLast(IEA(doc))
  BY <1>1, <1>2, <1>5, OuterOf
<1>8. /\ at("ISA") = X!TrimLast(ISA(doc)) /\ at("GS") = X!TrimLast(GS(doc)) /\ at("ST") = X!TrimLast(ST(doc))
      /\ at("SE") = X!TrimLast(SE(doc, 2 + m)) /\ at("GE") = X!TrimLast(GE(doc)) /\ at("IEA") = X!TrimLast(IEA(doc))
  BY <1>7
<1> HIDE DEF at
<1>9. doc.control \in Seq(Chars) /\ "0" \in Chars
  BY <1>4, CharsFacts DEF IsData
<1>10. X!TrimEnd(X!PadNum(doc.control, 9)) = X!PadNum(doc.control, 9) /\ X!TrimEnd(doc.control) = doc.control
  <2>1. \A i \in 1 .. Len(doc.control) : doc.control[i] # "space"
    <3>1. DOMAIN doc.control = 1 .. Len(doc.control)
      BY <1>9, LenProperties
    <3> QED BY <3>1 DEF X!NoSpace, X!ToSet
  <2>2. 9 \in Nat \ {0}
    OBVIOUS
  <2> QED BY <1>9, <2>1, <2>2, PadNumStays, TrimEndIs
<1>11. at("ST")[3] = at("SE")[3] /\ at("SE")[2] = X!Decimal(2 + m)
  <2>1. /\ X!TrimLast(ST(doc))[3] = X!TrimEnd(X!PadNum(doc.control, 4))
        /\ X!TrimLast(SE(doc, 2 + m))[3] = X!TrimEnd(X!PadNum(doc.control, 4))
        /\ X!TrimLast(SE(doc, 2 + m))[2] = X!Decimal(2 + m)
    BY <1>4, <1>6, TrimmedOuter
  <2> QED BY <1>8, <2>1
<1>12. at("GS")[7] = at("GE")[3] /\ at("ISA")[14] = at("IEA")[3]
  <2>1. /\ X!TrimLast(GS(doc))[7] = doc.control /\ X!TrimLast(GE(doc))[3] = X!TrimEnd(doc.control)
        /\ X!TrimLast(ISA(doc))[14] = X!PadNum(doc.control, 9)
        /\ X!TrimLast(IEA(doc))[3] = X!TrimEnd(X!PadNum(doc.control, 9))
    BY <1>4, <1>6, TrimmedOuter
  <2> QED BY <1>8, <1>10, <2>1
<1>13. X!The(parsed, "SE") - X!The(parsed, "ST") + 1 = 2 + m
  BY <1>6, <1>7
<1> QED BY <1>3, <1>11, <1>12, <1>13

LEMMA X12Invariant == LibrarySpec => []X12Inv
<1>1. LibraryInit => X12Inv
  <2>1. X!Init => IsDocument(doc) /\ sent = <<>>
    BY DocsAreDocuments DEF X!Init
  <2>2. "limiter" # "x12" /\ "mapping" # "x12"
    OBVIOUS
  <2> QED BY <2>1, <2>2 DEF LibraryInit, NoDocument, X12Inv
<1>2. X12Inv /\ [LibraryNext]_<<part, vars, mapping, documents>> => X12Inv'
  <2> SUFFICES ASSUME X12Inv, [LibraryNext]_<<part, vars, mapping, documents>> PROVE X12Inv'
    OBVIOUS
  <2>1. CASE UNCHANGED <<part, documents>>
    BY <2>1 DEF X12Inv, documents
  <2>2. CASE part = "x12" /\ part' = part /\ X!Exchange
    <3>1. doc' = doc /\ sent' = X!Document(doc) /\ parsed' = X!ParseX12(X!Text(sent'))
      BY <2>2 DEF X!Exchange
    <3>2. IsDocument(doc)
      BY <2>2 DEF X12Inv
    <3> QED BY <2>2, <3>1, <3>2 DEF X12Inv
  <2> QED BY <2>1, <2>2 DEF LibraryNext, documents
<1> QED BY <1>1, <1>2, PTL DEF LibrarySpec

(* For all data the parser reads back what the generator writes, but the     *)
(* spaces at the end of a segment's last field, if and only if no field      *)
(* holds a separator; then the type, a sender without spaces around it and   *)
(* the control number come back too.                                         *)
THEOREM DocumentsParseBack == LibrarySpec => []ParsesBack
BY X12Invariant, BackWhole, PTL

(* In every document without separators in its fields and spaces in its      *)
(* control number, whatever its number of lines, packs and items, the counts *)
(* and the numbers that are received agree.                                  *)
THEOREM EnvelopesAgree == LibrarySpec => []EnvelopeAgrees
BY X12Invariant, Agrees, PTL

(***************************************************************************)
(* The items of an order                                                   *)
(***************************************************************************)
Elements == Seq(Chars) \cup {X!None}
ItemFields == {"line_number", "quantity", "unit_price", "buyer_sku", "description"}
ItemRecords == UNION { [F -> Elements] : F \in SUBSET ItemFields }
Extracts == [items : Seq(ItemRecords), current : ItemRecords]

Started(seg) ==
  [line_number |-> X!El(seg, 1), quantity |-> X!El(seg, 2), unit_price |-> X!El(seg, 4),
   buyer_sku |-> IF X!El(seg, 7) # X!None THEN X!El(seg, 7) ELSE X!El(seg, 5)]

(* What extractPOData does with a segment. *)
Taken(acc, seg) ==
  CASE seg[1] = <<"PO1">> -> [items |-> X!PushItem(acc.items, acc.current), current |-> Started(seg)]
    [] seg[1] = <<"PID">> -> [items |-> acc.items, current |-> X!WithDescription(acc.current, X!El(seg, 5))]
    [] OTHER -> acc

Nothing == [items |-> <<>>, current |-> <<>>]

LEMMA RecordIsFunction ==
  ASSUME NEW item \in ItemRecords, NEW text \in Elements
  PROVE  /\ X!WithDescription(item, text) \in ItemRecords
         /\ DOMAIN X!WithDescription(item, text) = {"description"} \cup DOMAIN item
         /\ X!WithDescription(item, text)["description"] = text
         /\ \A key \in DOMAIN item : key # "description" => X!WithDescription(item, text)[key] = item[key]
<1>1. PICK F \in SUBSET ItemFields : item \in [F -> Elements]
  BY DEF ItemRecords
<1>2. {"description"} \cup F \in SUBSET ItemFields
  BY <1>1 DEF ItemFields
<1>3. X!WithDescription(item, text) \in [{"description"} \cup F -> Elements]
  BY <1>1 DEF X!WithDescription
<1>4. X!WithDescription(item, text) \in ItemRecords
  BY <1>2, <1>3 DEF ItemRecords
<1> QED BY <1>4 DEF X!WithDescription

LEMMA ElType ==
  ASSUME NEW seg \in Seq(Seq(Chars)), NEW i \in Nat
  PROVE  X!El(seg, i) \in Elements
<1>1. Len(seg) \in Nat
  BY LenProperties
<1>2. CASE i + 1 <= Len(seg)
  <2>1. i + 1 \in 1 .. Len(seg)
    BY <1>1, <1>2
  <2>2. seg[i + 1] \in Seq(Chars)
    BY <2>1, ElementOfSeq
  <2> QED BY <1>2, <2>2 DEF X!El, Elements
<1>3. CASE ~(i + 1 <= Len(seg))
  BY <1>3 DEF X!El, Elements
<1> QED BY <1>2, <1>3

LEMMA StartedType ==
  ASSUME NEW seg \in Seq(Seq(Chars))
  PROVE  /\ Started(seg) \in ItemRecords /\ DOMAIN Started(seg) # {}
         /\ "line_number" \in DOMAIN Started(seg) /\ "description" \notin DOMAIN Started(seg)
         /\ Started(seg).line_number = X!El(seg, 1)
<1> DEFINE F == {"line_number", "quantity", "unit_price", "buyer_sku"}
<1>1. X!El(seg, 1) \in Elements /\ X!El(seg, 2) \in Elements /\ X!El(seg, 4) \in Elements
      /\ X!El(seg, 7) \in Elements /\ X!El(seg, 5) \in Elements
  BY ElType
<1>2. DOMAIN Started(seg) = F
  BY DEF Started
<1>3. Started(seg) \in [F -> Elements]
  <2>1. \A key \in F : Started(seg)[key] \in Elements
    BY <1>1 DEF Started
  <2>2. Started(seg) = [key \in F |-> Started(seg)[key]]
    BY DEF Started
  <2> QED BY <2>1, <2>2
<1>4. F \in SUBSET ItemFields
  BY DEF ItemFields
<1>5. Started(seg) \in ItemRecords
  BY <1>3, <1>4 DEF ItemRecords
<1>6. "line_number" \in F /\ "description" \notin F
  OBVIOUS
<1>7. Started(seg).line_number = X!El(seg, 1)
  BY DEF Started
<1> QED BY <1>2, <1>5, <1>6, <1>7

LEMMA TakenType ==
  ASSUME NEW acc \in Extracts, NEW seg \in Seq(Seq(Chars))
  PROVE  Taken(acc, seg) \in Extracts
<1>1. acc.items \in Seq(ItemRecords) /\ acc.current \in ItemRecords
  BY DEF Extracts
<1>2. X!PushItem(acc.items, acc.current) \in Seq(ItemRecords)
  BY <1>1, AppendProperties DEF X!PushItem
<1>3. Started(seg) \in ItemRecords
  BY StartedType
<1>4. X!WithDescription(acc.current, X!El(seg, 5)) \in ItemRecords
  BY <1>1, ElType, RecordIsFunction
<1> HIDE DEF ItemRecords
<1> QED BY <1>1, <1>2, <1>3, <1>4 DEF Taken, Extracts

LEMMA NothingType == Nothing \in Extracts /\ DOMAIN Nothing.current = {}
<1>1. <<>> \in [{} -> Elements] /\ DOMAIN <<>> = {}
  OBVIOUS
<1>2. {} \in SUBSET ItemFields
  OBVIOUS
<1>3. <<>> \in ItemRecords
  BY <1>1, <1>2 DEF ItemRecords
<1> HIDE DEF ItemRecords
<1>4. <<>> \in Seq(ItemRecords)
  BY EmptySeq
<1> QED BY <1>1, <1>3, <1>4 DEF Nothing, Extracts

LEMMA TakenIs ==
  ASSUME NEW acc \in Extracts, NEW seg
  PROVE  Taken(acc, seg) =
           CASE seg[1] = <<"PO1">> ->
                  [items |-> X!PushItem(acc.items, acc.current),
                   current |-> [line_number |-> X!El(seg, 1), quantity |-> X!El(seg, 2), unit_price |-> X!El(seg, 4),
                                buyer_sku |-> IF X!El(seg, 7) # X!None THEN X!El(seg, 7) ELSE X!El(seg, 5)]]
             [] seg[1] = <<"PID">> -> [acc EXCEPT !.current = X!WithDescription(@, X!El(seg, 5))]
             [] OTHER -> acc
<1>1. [acc EXCEPT !.current = X!WithDescription(@, X!El(seg, 5))]
      = [items |-> acc.items, current |-> X!WithDescription(acc.current, X!El(seg, 5))]
  BY DEF Extracts
<1> QED BY <1>1 DEF Taken, Started

Takes == [p \in Extracts \X Seq(Seq(Chars)) |-> Taken(p[1], p[2])]

LEMMA TakesType ==
  /\ Takes \in [Extracts \X Seq(Seq(Chars)) -> Extracts] /\ Nothing \in Extracts
  /\ \A acc \in Extracts, seg \in Seq(Seq(Chars)) : Takes[<<acc, seg>>] = Taken(acc, seg)
BY TakenType, NothingType DEF Takes

LEMMA ExtractRun ==
  ASSUME NEW segs \in Seq(Seq(Seq(Chars)))
  PROVE  \E at \in [0 .. Len(segs) -> Extracts] :
           IsRun(at, Takes, Nothing, segs) /\ X!ExtractItems(segs) = X!PushLast(at[Len(segs)])
<1> DEFINE S == Seq(Seq(Chars))
           Walk(at) == [n \in 0 .. Len(segs) |-> IF n = 0 THEN Nothing ELSE
             CASE segs[n][1] = <<"PO1">> ->
                    [items |-> X!PushItem(at[n - 1].items, at[n - 1].current),
                     current |-> [line_number |-> X!El(segs[n], 1), quantity |-> X!El(segs[n], 2), unit_price |-> X!El(segs[n], 4),
                                  buyer_sku |-> IF X!El(segs[n], 7) # X!None THEN X!El(segs[n], 7) ELSE X!El(segs[n], 5)]]
               [] segs[n][1] = <<"PID">> -> [at[n - 1] EXCEPT !.current = X!WithDescription(@, X!El(segs[n], 5))]
               [] OTHER -> at[n - 1]]
           Short(at) == [n \in 0 .. Len(segs) |-> IF n = 0 THEN Nothing ELSE Taken(at[n - 1], segs[n])]
           at == CHOOSE at : at = Walk(at)
<1>1. X!ExtractItems(segs) = X!PushLast(at[Len(segs)])
  BY DEF X!ExtractItems, X!Fold, Nothing
<1>2. Len(segs) \in Nat /\ \A n \in 1 .. Len(segs) : segs[n] \in S
  BY LenProperties, ElementOfSeq
<1>3. ASSUME NEW bt, \A n \in 0 .. Len(segs) : bt[n] \in Extracts
      PROVE  Walk(bt) = Short(bt)
  <2>1. ASSUME NEW n \in 0 .. Len(segs), n # 0 PROVE Walk(bt)[n] = Taken(bt[n - 1], segs[n])
    <3>1. n - 1 \in 0 .. Len(segs) /\ bt[n - 1] \in Extracts
      BY <1>2, <1>3, <2>1
    <3> DEFINE acc == bt[n - 1]
               seg == segs[n]
    <3>2. Walk(bt)[n] =
           CASE seg[1] = <<"PO1">> ->
                  [items |-> X!PushItem(acc.items, acc.current),
                   current |-> [line_number |-> X!El(seg, 1), quantity |-> X!El(seg, 2), unit_price |-> X!El(seg, 4),
                                buyer_sku |-> IF X!El(seg, 7) # X!None THEN X!El(seg, 7) ELSE X!El(seg, 5)]]
             [] seg[1] = <<"PID">> -> [acc EXCEPT !.current = X!WithDescription(@, X!El(seg, 5))]
             [] OTHER -> acc
      BY <2>1
    <3>3. acc \in Extracts
      BY <3>1
    <3> HIDE DEF acc, seg, Walk
    <3>4. Walk(bt)[n] = Taken(acc, seg)
      BY <3>2, <3>3, TakenIs
    <3> QED BY <3>4 DEF acc, seg
  <2>2. \A n \in 0 .. Len(segs) : Walk(bt)[n] = Short(bt)[n]
    <3>1. ASSUME NEW n \in 0 .. Len(segs) PROVE Walk(bt)[n] = Short(bt)[n]
      <4>1. CASE n = 0
        BY <4>1
      <4>2. CASE n # 0
        <5>1. Walk(bt)[n] = Taken(bt[n - 1], segs[n])
          BY <2>1, <4>2
        <5> HIDE DEF Walk
        <5> QED BY <4>2, <5>1
      <4> QED BY <4>1, <4>2
    <3> QED BY <3>1
  <2>3. Walk(bt) = [n \in 0 .. Len(segs) |-> Walk(bt)[n]] /\ Short(bt) = [n \in 0 .. Len(segs) |-> Short(bt)[n]]
    OBVIOUS
  <2> HIDE DEF Walk, Short
  <2> QED BY <2>2, <2>3
<1>4. \E bt : bt = Walk(bt)
  <2>1. PICK bt \in [0 .. Len(segs) -> Extracts] : IsRun(bt, Takes, Nothing, segs)
    BY TakesType, RunExists
  <2>2. ASSUME NEW n \in 0 .. Len(segs) PROVE bt[n] = IF n = 0 THEN Nothing ELSE Taken(bt[n - 1], segs[n])
    <3>1. CASE n = 0
      BY <2>1, <3>1 DEF IsRun
    <3>2. CASE n # 0
      <4>1. n \in 1 .. Len(segs) /\ n - 1 \in 0 .. Len(segs)
        BY <3>2
      <4>2. bt[n - 1] \in Extracts /\ segs[n] \in S
        BY <1>2, <4>1
      <4>3. bt[n] = Takes[<<bt[n - 1], segs[n]>>]
        BY <2>1, <4>1 DEF IsRun
      <4> QED BY <3>2, <4>2, <4>3, TakesType
    <3> QED BY <3>1, <3>2
  <2>3. bt = Short(bt)
    BY <2>2
  <2>4. Walk(bt) = Short(bt)
    <3>1. \A n \in 0 .. Len(segs) : bt[n] \in Extracts
      OBVIOUS
    <3> HIDE DEF Walk, Short
    <3> QED BY <1>3, <3>1
  <2> HIDE DEF Walk, Short
  <2> QED BY <2>3, <2>4
<1>5. at = Walk(at)
  <2> HIDE DEF Walk
  <2> QED BY <1>4
<1> HIDE DEF at
<1>6. \A n \in 0 .. Len(segs) : at[n] \in Extracts
  <2> DEFINE T == { n \in 0 .. Len(segs) : at[n] \in Extracts }
  <2>1. 0 \in T
    <3>1. 0 \in 0 .. Len(segs)
      BY <1>2
    <3>2. Walk(at)[0] = Nothing
      BY <3>1
    <3> HIDE DEF Walk
    <3> QED BY <1>5, <3>1, <3>2, NothingType
  <2>2. ASSUME NEW n \in 0 .. Len(segs) - 1, n \in T PROVE n + 1 \in T
    <3> DEFINE acc == at[n]
               seg == segs[n + 1]
    <3>1. n + 1 \in 1 .. Len(segs) /\ n + 1 \in 0 .. Len(segs) /\ (n + 1) - 1 = n /\ n + 1 # 0
      BY <1>2
    <3>2. acc \in Extracts /\ seg \in S
      BY <1>2, <2>2, <3>1
    <3>3. Walk(at)[n + 1] =
           CASE seg[1] = <<"PO1">> ->
                  [items |-> X!PushItem(acc.items, acc.current),
                   current |-> [line_number |-> X!El(seg, 1), quantity |-> X!El(seg, 2), unit_price |-> X!El(seg, 4),
                                buyer_sku |-> IF X!El(seg, 7) # X!None THEN X!El(seg, 7) ELSE X!El(seg, 5)]]
             [] seg[1] = <<"PID">> -> [acc EXCEPT !.current = X!WithDescription(@, X!El(seg, 5))]
             [] OTHER -> acc
      BY <3>1
    <3> HIDE DEF acc, seg, Walk
    <3>4. Walk(at)[n + 1] = Taken(acc, seg)
      BY <3>2, <3>3, TakenIs
    <3>5. at[n + 1] \in Extracts
      BY <1>5, <3>2, <3>4, TakenType
    <3> QED BY <3>1, <3>5
  <2> HIDE DEF T
  <2>3. \A n \in 0 .. Len(segs) : n \in T
    BY <1>2, <2>1, <2>2, Induct
  <2> QED BY <2>3 DEF T
<1>7. at = Short(at)
  <2> HIDE DEF Walk, Short
  <2> QED BY <1>3, <1>5, <1>6
<1>8. at \in [0 .. Len(segs) -> Extracts]
  BY <1>6, <1>7
<1>9. IsRun(at, Takes, Nothing, segs)
  <2>1. at[0] = Nothing
    BY <1>2, <1>7
  <2>2. ASSUME NEW n \in 1 .. Len(segs) PROVE at[n] = Takes[<<at[n - 1], segs[n]>>]
    <3>1. n \in 0 .. Len(segs) /\ n # 0 /\ n - 1 \in 0 .. Len(segs)
      BY <1>2
    <3>2. Short(at)[n] = Taken(at[n - 1], segs[n])
      BY <3>1
    <3> HIDE DEF Short
    <3>3. at[n] = Taken(at[n - 1], segs[n])
      BY <1>7, <3>2
    <3> QED BY <1>2, <1>6, <3>1, <3>3, TakesType
  <2> QED BY <2>1, <2>2 DEF IsRun
<1> QED BY <1>1, <1>8, <1>9

(* The PO1 segments among the first k of body, and their number. *)
POs(body, k) == { i \in 1 .. k : body[i][1] = <<"PO1">> }
Count(body, k) == X!Cardinality(POs(body, k))

(* The PO1 that a PID at i follows. *)
OwnerOf(body, i) ==
  { p \in POs(body, Len(body)) : p <= i /\ \A q \in POs(body, Len(body)) : q <= i => q <= p }

Own(body, owner, k) == { i \in 1 .. k : body[i][1] = <<"PID">> /\ OwnerOf(body, i) = owner }

Phantom(body, k) == IF Own(body, {}, k) = {} THEN 0 ELSE 1

Describes(body, item, own) ==
  IF own = {} THEN "description" \notin DOMAIN item
  ELSE item.description = body[CHOOSE i \in own : \A j \in own : j <= i][6]

(* What the parser has made of the first k segments of body. *)
ItemsOK(body, k, acc) ==
  LET made == X!PushLast(acc)
      item(p) == made[Phantom(body, k) + Count(body, p)]
  IN  /\ acc \in Extracts
      /\ DOMAIN acc.current = {} <=> POs(body, k) = {} /\ Own(body, {}, k) = {}
      /\ DOMAIN acc.current = {} => acc.items = <<>>
      /\ Len(made) = Phantom(body, k) + Count(body, k)
      /\ Phantom(body, k) = 1 => Describes(body, made[1], Own(body, {}, k))
      /\ \A p \in POs(body, k) :
           /\ "line_number" \in DOMAIN item(p) /\ item(p).line_number = body[p][2]
           /\ Describes(body, item(p), Own(body, {p}, k))

LEMMA SameNumber == \A S : X!Cardinality(S) = Cardinality(S)
BY DEF X!Cardinality, Cardinality

LEMMA POsAreFinite ==
  ASSUME NEW body, NEW k \in Nat
  PROVE  IsFiniteSet(POs(body, k)) /\ Count(body, k) \in Nat /\ Count(body, k) = Cardinality(POs(body, k))
<1>1. 1 \in Int /\ k \in Int
  OBVIOUS
<1>2. IsFiniteSet(1 .. k)
  BY <1>1, FS_Interval
<1>3. POs(body, k) \in SUBSET (1 .. k)
  BY DEF POs
<1>4. IsFiniteSet(POs(body, k))
  BY <1>2, <1>3, FS_Subset
<1>5. Count(body, k) = Cardinality(POs(body, k))
  BY SameNumber DEF Count
<1>6. Cardinality(POs(body, k)) \in Nat
  BY <1>4, FS_CardinalityType
<1> QED BY <1>4, <1>5, <1>6

LEMMA CountStarts ==
  ASSUME NEW body
  PROVE  POs(body, 0) = {} /\ Count(body, 0) = 0
<1>1. POs(body, 0) = {}
  BY DEF POs
<1>2. 0 \in Nat
  OBVIOUS
<1> QED BY <1>1, <1>2, POsAreFinite, FS_EmptySet

LEMMA CountStep ==
  ASSUME NEW body, NEW k \in Nat
  PROVE  /\ body[k + 1][1] = <<"PO1">> =>
              POs(body, k + 1) = POs(body, k) \cup {k + 1} /\ Count(body, k + 1) = Count(body, k) + 1
         /\ body[k + 1][1] # <<"PO1">> => POs(body, k + 1) = POs(body, k) /\ Count(body, k + 1) = Count(body, k)
<1>1. \A i : i \in 1 .. k + 1 <=> i \in 1 .. k \/ i = k + 1
  OBVIOUS
<1>2. k + 1 \notin POs(body, k) /\ k + 1 \in Nat
  BY DEF POs
<1>3. ASSUME body[k + 1][1] = <<"PO1">>
      PROVE  POs(body, k + 1) = POs(body, k) \cup {k + 1} /\ Count(body, k + 1) = Count(body, k) + 1
  <2>1. POs(body, k + 1) = POs(body, k) \cup {k + 1}
    BY <1>1, <1>3 DEF POs
  <2>2. Cardinality(POs(body, k) \cup {k + 1}) = Cardinality(POs(body, k)) + 1
    BY <1>2, POsAreFinite, FS_AddElement
  <2> QED BY <1>2, <2>1, <2>2, POsAreFinite
<1>4. ASSUME body[k + 1][1] # <<"PO1">>
      PROVE  POs(body, k + 1) = POs(body, k) /\ Count(body, k + 1) = Count(body, k)
  <2>1. POs(body, k + 1) = POs(body, k)
    BY <1>1, <1>4 DEF POs
  <2> QED BY <2>1 DEF Count
<1> QED BY <1>3, <1>4

LEMMA CountIsRank ==
  ASSUME NEW body, NEW k \in Nat, NEW p \in POs(body, k)
  PROVE  /\ Count(body, p) \in 1 .. Count(body, k)
         /\ (\A q \in POs(body, k) : q <= p) => Count(body, p) = Count(body, k)
         /\ \A q \in POs(body, k) : p < q => Count(body, p) < Count(body, q)
<1>1. p \in 1 .. k /\ p \in Nat /\ p \in POs(body, p) /\ body[p][1] = <<"PO1">>
  BY DEF POs
<1>2. ASSUME NEW i \in Nat, NEW j \in Nat, i <= j PROVE Count(body, i) <= Count(body, j)
  <2>1. POs(body, i) \in SUBSET POs(body, j)
    BY <1>2 DEF POs
  <2> QED BY <2>1, POsAreFinite, FS_Subset
<1>3. Count(body, p) # 0
  <2>1. POs(body, p) # {}
    BY <1>1
  <2> QED BY <1>1, <2>1, POsAreFinite, FS_EmptySet
<1>4. Count(body, p) \in Nat /\ Count(body, k) \in Nat
  BY <1>1, POsAreFinite
<1>5. Count(body, p) \in 1 .. Count(body, k)
  BY <1>1, <1>2, <1>3, <1>4
<1>6. ASSUME \A q \in POs(body, k) : q <= p PROVE Count(body, p) = Count(body, k)
  <2>1. POs(body, p) = POs(body, k)
    BY <1>1, <1>6 DEF POs
  <2> QED BY <2>1 DEF Count
<1>7. ASSUME NEW q \in POs(body, k), p < q PROVE Count(body, p) < Count(body, q)
  <2>1. q - 1 \in Nat /\ p <= q - 1 /\ (q - 1) + 1 = q /\ body[q][1] = <<"PO1">>
    BY <1>1, <1>7 DEF POs
  <2> DEFINE r == q - 1
  <2>2. r \in Nat /\ p <= r /\ r + 1 = q
    BY <2>1
  <2> HIDE DEF r
  <2>3. Count(body, r + 1) = Count(body, r) + 1
    BY <2>1, <2>2, CountStep
  <2>4. Count(body, p) <= Count(body, r) /\ Count(body, r) \in Nat
    BY <1>1, <1>2, <2>2, POsAreFinite
  <2> QED BY <1>4, <2>2, <2>3, <2>4
<1> QED BY <1>5, <1>6, <1>7

LEMMA LastPO ==
  ASSUME NEW body, NEW k \in Nat, POs(body, k) # {}
  PROVE  \E p \in POs(body, k) : \A q \in POs(body, k) : q <= p
<1> DEFINE W == { k - p : p \in POs(body, k) }
<1>1. W # {} /\ W \subseteq Nat
  BY DEF POs
<1> HIDE DEF W
<1>2. PICK w \in W : \A v \in W : w <= v
  BY <1>1, LeastElement
<1>3. PICK p \in POs(body, k) : w = k - p
  BY <1>2 DEF W
<1>4. \A q \in POs(body, k) : k - p <= k - q
  BY <1>2, <1>3 DEF W
<1>5. \A q \in POs(body, k) : q \in Nat
  BY DEF POs
<1> QED BY <1>3, <1>4, <1>5

LEMMA OwnerFacts ==
  ASSUME NEW body, Len(body) \in Nat, NEW k \in Nat, k + 1 <= Len(body), body[k + 1][1] # <<"PO1">>
  PROVE  /\ POs(body, k) = {} => OwnerOf(body, k + 1) = {}
         /\ \A p \in POs(body, k) : (\A q \in POs(body, k) : q <= p) => OwnerOf(body, k + 1) = {p}
<1> DEFINE A == POs(body, Len(body))
           B == POs(body, k)
<1>1. \A q : q \in B <=> q \in A /\ q <= k + 1
  <2>1. \A q : q \in 1 .. k <=> q \in 1 .. Len(body) /\ q <= k + 1 /\ q # k + 1
    OBVIOUS
  <2> QED BY <2>1 DEF POs
<1>2. \A q \in A : q \in Nat
  BY DEF POs
<1>3. OwnerOf(body, k + 1) = { p \in A : p <= k + 1 /\ \A q \in A : q <= k + 1 => q <= p }
  BY DEF OwnerOf
<1> HIDE DEF A, B
<1>4. OwnerOf(body, k + 1) = { p \in B : \A q \in B : q <= p }
  BY <1>1, <1>3
<1>5. ASSUME NEW p \in B, \A q \in B : q <= p PROVE OwnerOf(body, k + 1) = {p}
  <2>1. \A r \in B : (\A q \in B : q <= r) => r = p
    <3>1. \A r \in B : r \in Nat /\ p \in Nat
      BY <1>1, <1>2
    <3> QED BY <1>5, <3>1
  <2> QED BY <1>4, <1>5, <2>1
<1> QED BY <1>4, <1>5 DEF B

LEMMA OwnStep ==
  ASSUME NEW body, NEW owner, NEW k \in Nat
  PROVE  /\ body[k + 1][1] = <<"PID">> /\ OwnerOf(body, k + 1) = owner =>
              Own(body, owner, k + 1) = Own(body, owner, k) \cup {k + 1}
         /\ ~(body[k + 1][1] = <<"PID">> /\ OwnerOf(body, k + 1) = owner) =>
              Own(body, owner, k + 1) = Own(body, owner, k)
<1>1. \A i : i \in 1 .. k + 1 <=> i \in 1 .. k \/ i = k + 1
  OBVIOUS
<1> QED BY <1>1 DEF Own

LEMMA OwnStarts ==
  ASSUME NEW body, NEW k \in Nat
  PROVE  Own(body, {k + 1}, k) = {} /\ \A owner : Own(body, owner, 0) = {} /\ Own(body, owner, k) \subseteq 1 .. k
<1>1. \A i \in 1 .. k : OwnerOf(body, i) # {k + 1}
  <2>1. \A i \in 1 .. k : \A p \in OwnerOf(body, i) : p <= i
    BY DEF OwnerOf
  <2>2. \A i \in 1 .. k : ~(k + 1 <= i)
    OBVIOUS
  <2> QED BY <2>1, <2>2
<1> QED BY <1>1 DEF Own

LEMMA DescribesLast ==
  ASSUME NEW body, NEW k \in Nat, NEW own \in SUBSET (1 .. k), NEW item, item.description = body[k + 1][6]
  PROVE  Describes(body, item, own \cup {k + 1})
<1> DEFINE S == own \cup {k + 1}
<1>1. k + 1 \in S /\ \A j \in S : j <= k + 1
  OBVIOUS
<1>2. \A i \in S : i \in Nat /\ (k + 1 <= i => i = k + 1)
  OBVIOUS
<1> HIDE DEF S
<1>3. (CHOOSE i \in S : \A j \in S : j <= i) = k + 1
  <2> DEFINE c == CHOOSE i \in S : \A j \in S : j <= i
  <2>1. c \in S /\ \A j \in S : j <= c
    BY <1>1
  <2> HIDE DEF c
  <2>2. c = k + 1
    BY <1>1, <1>2, <2>1
  <2> QED BY <2>2 DEF c
<1>4. S # {}
  BY <1>1
<1> QED BY <1>3, <1>4 DEF Describes, S

LEMMA PushLastFacts ==
  ASSUME NEW acc \in Extracts
  PROVE  /\ acc.items \in Seq(ItemRecords) /\ acc.current \in ItemRecords /\ Len(acc.items) \in Nat
         /\ X!PushLast(acc) \in Seq(ItemRecords) /\ Len(X!PushLast(acc)) \in Nat
         /\ DOMAIN acc.current = {} => X!PushLast(acc) = acc.items
         /\ DOMAIN acc.current # {} =>
              /\ X!PushLast(acc) = Append(acc.items, acc.current)
              /\ Len(X!PushLast(acc)) = Len(acc.items) + 1
<1>1. acc.items \in Seq(ItemRecords) /\ acc.current \in ItemRecords
  BY DEF Extracts
<1> HIDE DEF ItemRecords
<1>2. Append(acc.items, acc.current) \in Seq(ItemRecords) /\ Len(Append(acc.items, acc.current)) = Len(acc.items) + 1
  BY <1>1, AppendProperties
<1>3. Len(acc.items) \in Nat
  BY <1>1, LenProperties
<1> QED BY <1>1, <1>2, <1>3 DEF X!PushLast, X!PushItem

LEMMA AppendAt ==
  ASSUME NEW C, NEW s \in Seq(C), NEW x
  PROVE  /\ \A i \in 1 .. Len(s) : Append(s, x)[i] = s[i]
         /\ Append(s, x)[Len(s) + 1] = x /\ Len(Append(s, x)) = Len(s) + 1
<1>1. Len(s) \in Nat
  BY LenProperties
<1> QED BY <1>1

LEMMA OrderSegAt ==
  ASSUME NEW seg \in OrderSegs
  PROVE  /\ seg \in Seq(Seq(Chars))
         /\ seg[1] = <<"PO1">> => X!El(seg, 1) = seg[2]
         /\ seg[1] = <<"PID">> => X!El(seg, 5) = seg[6]
         /\ seg[1] = <<"PO1">> => seg[1] # <<"PID">>
<1>1. \A x, y : <<x>> = <<y>> => x = y
  OBVIOUS
<1>2. "PO1" # "PID"
  OBVIOUS
<1>3. seg \in Segs(X!OrderIds) /\ X!IsOrderSegment(seg)
  BY DEF OrderSegs
<1>9. Len(seg) \in Nat
  BY <1>3, LenProperties DEF Segs
<1>4. seg[1] = <<"PO1">> => 1 + 1 <= Len(seg) /\ 1 + 1 = 2
  BY <1>3, <1>9 DEF X!IsOrderSegment
<1>5. seg[1] = <<"PID">> => 5 + 1 <= Len(seg) /\ 5 + 1 = 6
  BY <1>3, <1>9 DEF X!IsOrderSegment
<1>6. seg[1] = <<"PO1">> => X!El(seg, 1) = seg[2]
  BY <1>4 DEF X!El
<1>7. seg[1] = <<"PID">> => X!El(seg, 5) = seg[6]
  BY <1>5 DEF X!El
<1>8. seg \in Seq(Seq(Chars))
  BY <1>3 DEF Segs
<1> QED BY <1>1, <1>2, <1>6, <1>7, <1>8

(* The step of the parser at each kind of segment of an order. *)
LEMMA TakeOther ==
  ASSUME NEW body, NEW k \in Nat, NEW acc, ItemsOK(body, k, acc),
         body[k + 1][1] # <<"PO1">>, body[k + 1][1] # <<"PID">>
  PROVE  ItemsOK(body, k + 1, acc)
<1>1. POs(body, k + 1) = POs(body, k) /\ Count(body, k + 1) = Count(body, k)
  BY CountStep
<1>2. \A owner : Own(body, owner, k + 1) = Own(body, owner, k)
  BY OwnStep
<1>3. Phantom(body, k + 1) = Phantom(body, k)
  BY <1>2 DEF Phantom
<1> QED BY <1>1, <1>2, <1>3 DEF ItemsOK

LEMMA TakePO1 ==
  ASSUME NEW body, NEW k \in Nat, NEW acc, ItemsOK(body, k, acc), NEW seg \in OrderSegs, seg = body[k + 1],
         seg[1] = <<"PO1">>
  PROVE  ItemsOK(body, k + 1, Taken(acc, seg))
<1> DEFINE made == X!PushLast(acc)
           new == Taken(acc, seg)
           f == Phantom(body, k)
           n == Count(body, k)
           item == Started(seg)
<1>1. /\ acc \in Extracts /\ Len(made) = f + n
      /\ f = 1 => Describes(body, made[1], Own(body, {}, k))
      /\ \A p \in POs(body, k) :
           /\ "line_number" \in DOMAIN made[f + Count(body, p)] /\ made[f + Count(body, p)].line_number = body[p][2]
           /\ Describes(body, made[f + Count(body, p)], Own(body, {p}, k))
  BY DEF ItemsOK
<1>2. /\ seg \in Seq(Seq(Chars)) /\ X!El(seg, 1) = seg[2] /\ seg[1] # <<"PID">>
  BY OrderSegAt
<1>3. /\ item \in ItemRecords /\ DOMAIN item # {} /\ "line_number" \in DOMAIN item /\ "description" \notin DOMAIN item
      /\ item.line_number = seg[2]
  BY <1>2, StartedType
<1>4. new \in Extracts
  BY <1>1, <1>2, TakenType
<1>5. new.items = made /\ new.current = item
  BY DEF Taken, X!PushLast
<1>6. X!PushLast(new) = Append(made, item)
  BY <1>3, <1>5 DEF X!PushLast, X!PushItem
<1>7. POs(body, k + 1) = POs(body, k) \cup {k + 1} /\ Count(body, k + 1) = n + 1
  BY CountStep
<1>8. \A owner : Own(body, owner, k + 1) = Own(body, owner, k)
  BY <1>2, OwnStep
<1>9. Phantom(body, k + 1) = f /\ f \in {0, 1} /\ n \in Nat
  BY <1>8, POsAreFinite DEF Phantom
<1>10. Own(body, {k + 1}, k) = {}
  BY OwnStarts
<1>11. made \in Seq(ItemRecords)
  BY <1>1, PushLastFacts
<1>12. \A p \in POs(body, k) : Count(body, p) \in 1 .. n
  BY CountIsRank
<1> HIDE DEF made, new, f, n, item, ItemRecords
<1>13. /\ \A i \in 1 .. f + n : Append(made, item)[i] = made[i]
       /\ Append(made, item)[f + n + 1] = item /\ Len(Append(made, item)) = f + n + 1
  BY <1>1, <1>11, AppendAt
<1> DEFINE after == Append(made, item)
<1> HIDE DEF after
<1>14. X!PushLast(new) = after /\ Len(after) = f + (n + 1) /\ (\A i \in 1 .. f + n : after[i] = made[i]) /\ after[f + (n + 1)] = item
  BY <1>6, <1>9, <1>13 DEF after
<1>15. f = 1 => after[1] = made[1]
  BY <1>9, <1>14
<1>16. ASSUME NEW p \in POs(body, k + 1)
       PROVE  /\ "line_number" \in DOMAIN after[f + Count(body, p)] /\ after[f + Count(body, p)].line_number = body[p][2]
              /\ Describes(body, after[f + Count(body, p)], Own(body, {p}, k + 1))
  <2>1. CASE p \in POs(body, k)
    <3>1. f + Count(body, p) \in 1 .. f + n
      BY <1>9, <1>12, <2>1
    <3>2. after[f + Count(body, p)] = made[f + Count(body, p)]
      BY <1>14, <3>1
    <3> QED BY <1>1, <1>8, <2>1, <3>2
  <2>2. CASE p = k + 1
    <3>1. after[f + Count(body, p)] = item
      BY <1>7, <1>14, <2>2
    <3>2. Describes(body, item, {})
      BY <1>3 DEF Describes
    <3>3. body[p] = seg /\ Own(body, {p}, k + 1) = {}
      BY <1>8, <1>10, <2>2
    <3> QED BY <1>3, <3>1, <3>2, <3>3
  <2> QED BY <1>7, <2>1, <2>2
<1>17. DOMAIN new.current # {} /\ POs(body, k + 1) # {}
  BY <1>3, <1>5, <1>7
<1>18. f = 1 => Describes(body, after[1], Own(body, {}, k + 1))
  BY <1>1, <1>8, <1>15
<1>19. ItemsOK(body, k + 1, new)
  BY <1>4, <1>7, <1>9, <1>14, <1>16, <1>17, <1>18 DEF ItemsOK
<1> QED BY <1>19 DEF new

(* What a PID does to the item at hand. *)
LEMMA TakePID ==
  ASSUME NEW acc \in Extracts, NEW seg \in OrderSegs, seg[1] = <<"PID">>,
         NEW item, item = X!WithDescription(acc.current, X!El(seg, 5))
  PROVE  /\ Taken(acc, seg) \in Extracts /\ item \in ItemRecords /\ DOMAIN item # {} /\ item.description = seg[6]
         /\ Taken(acc, seg).items = acc.items /\ Taken(acc, seg).current = item
         /\ X!PushLast(Taken(acc, seg)) = Append(acc.items, item)
         /\ "line_number" \in DOMAIN acc.current =>
              "line_number" \in DOMAIN item /\ item.line_number = acc.current.line_number
<1> DEFINE new == Taken(acc, seg)
<1>1. seg \in Seq(Seq(Chars)) /\ X!El(seg, 5) = seg[6] /\ seg[1] # <<"PO1">>
  BY OrderSegAt
<1>2. acc.current \in ItemRecords /\ X!El(seg, 5) \in Elements
  <2>1. 5 \in Nat
    OBVIOUS
  <2> QED BY <1>1, <2>1, ElType DEF Extracts
<1>3. /\ item \in ItemRecords /\ DOMAIN item = {"description"} \cup DOMAIN acc.current
      /\ item["description"] = X!El(seg, 5)
      /\ \A key \in DOMAIN acc.current : key # "description" => item[key] = acc.current[key]
  BY <1>2, RecordIsFunction
<1>4. new \in Extracts
  BY <1>1, TakenType
<1>5. new.items = acc.items /\ new.current = item
  BY <1>1 DEF Taken
<1>6. X!PushLast(new) = Append(acc.items, item)
  BY <1>3, <1>5 DEF X!PushLast, X!PushItem
<1>7. "line_number" # "description"
  OBVIOUS
<1> QED BY <1>1, <1>3, <1>4, <1>5, <1>6, <1>7

LEMMA TakeFirstPID ==
  ASSUME NEW body, Len(body) \in Nat, NEW k \in Nat, k + 1 <= Len(body), NEW acc, ItemsOK(body, k, acc),
         NEW seg \in OrderSegs, seg = body[k + 1], seg[1] = <<"PID">>, POs(body, k) = {}
  PROVE  ItemsOK(body, k + 1, Taken(acc, seg))
<1> DEFINE new == Taken(acc, seg)
           item == X!WithDescription(acc.current, X!El(seg, 5))
           own == Own(body, {}, k)
<1>1. /\ acc \in Extracts /\ Len(X!PushLast(acc)) = Phantom(body, k) + Count(body, k)
      /\ DOMAIN acc.current = {} => acc.items = <<>>
  BY DEF ItemsOK
<1>2. seg[1] # <<"PO1">>
  BY OrderSegAt
<1>3. OwnerOf(body, k + 1) = {} /\ POs(body, k + 1) = {} /\ Count(body, k + 1) = Count(body, k)
  BY <1>2, OwnerFacts, CountStep
<1>4. Own(body, {}, k + 1) = own \cup {k + 1} /\ own \subseteq 1 .. k
  <2>1. \A owner : body[k + 1][1] = <<"PID">> /\ OwnerOf(body, k + 1) = owner =>
          Own(body, owner, k + 1) = Own(body, owner, k) \cup {k + 1}
    BY OwnStep
  <2>2. own \subseteq 1 .. k
    BY OwnStarts
  <2> QED BY <1>3, <2>1, <2>2
<1>5. Count(body, k) = 0
  BY POsAreFinite, FS_EmptySet
<1>6. acc.items = <<>>
  <2>1. CASE DOMAIN acc.current = {}
    BY <1>1, <2>1
  <2>2. CASE DOMAIN acc.current # {}
    <3>1. Phantom(body, k) \in {0, 1}
      BY DEF Phantom
    <3>2. acc.items \in Seq(ItemRecords) /\ Len(acc.items) \in Nat /\ Len(X!PushLast(acc)) = Len(acc.items) + 1
      BY <1>1, <2>2, PushLastFacts
    <3>3. Len(acc.items) = 0
      BY <1>1, <1>5, <3>1, <3>2
    <3> HIDE DEF ItemRecords
    <3> QED BY <3>2, <3>3, EmptySeq
  <2> QED BY <2>1, <2>2
<1>7. /\ new \in Extracts /\ DOMAIN new.current # {} /\ item.description = seg[6]
      /\ X!PushLast(new) = Append(acc.items, item)
  BY <1>1, TakePID
<1>8. Phantom(body, k + 1) = 1
  BY <1>4 DEF Phantom
<1> HIDE DEF item, new, own
<1>9. X!PushLast(new) = <<item>> /\ Len(X!PushLast(new)) = 1 /\ X!PushLast(new)[1] = item
  BY <1>6, <1>7
<1>10. Describes(body, item, own \cup {k + 1})
  BY <1>4, <1>7, DescribesLast
<1>11. Own(body, {}, k + 1) # {}
  BY <1>4
<1> DEFINE after == X!PushLast(new)
<1> HIDE DEF after
<1>12. Len(after) = 1 + 0 /\ Describes(body, after[1], Own(body, {}, k + 1))
  <2>1. Len(after) = 1 /\ after[1] = item
    BY <1>9 DEF after
  <2>2. Describes(body, after[1], own \cup {k + 1})
    BY <1>10, <2>1
  <2>3. Own(body, {}, k + 1) = own \cup {k + 1}
    BY <1>4
  <2>4. Describes(body, after[1], Own(body, {}, k + 1))
    BY <2>2, <2>3
  <2>5. Len(after) = 1 + 0
    BY <2>1
  <2> QED BY <2>4, <2>5
<1>13. ItemsOK(body, k + 1, new)
  BY <1>3, <1>5, <1>7, <1>8, <1>11, <1>12 DEF ItemsOK, after
<1> QED BY <1>13 DEF new

LEMMA TakeNextPID ==
  ASSUME NEW body, Len(body) \in Nat, NEW k \in Nat, k + 1 <= Len(body), NEW acc, ItemsOK(body, k, acc),
         NEW seg \in OrderSegs, seg = body[k + 1], seg[1] = <<"PID">>, POs(body, k) # {}
  PROVE  ItemsOK(body, k + 1, Taken(acc, seg))
<1> DEFINE made == X!PushLast(acc)
           new == Taken(acc, seg)
           after == X!PushLast(new)
           item == X!WithDescription(acc.current, X!El(seg, 5))
           f == Phantom(body, k)
           n == Count(body, k)
<1>1. /\ acc \in Extracts /\ Len(made) = f + n /\ DOMAIN acc.current # {}
      /\ f = 1 => Describes(body, made[1], Own(body, {}, k))
      /\ \A p \in POs(body, k) :
           /\ "line_number" \in DOMAIN made[f + Count(body, p)] /\ made[f + Count(body, p)].line_number = body[p][2]
           /\ Describes(body, made[f + Count(body, p)], Own(body, {p}, k))
  BY DEF ItemsOK
<1>2. PICK last \in POs(body, k) : \A q \in POs(body, k) : q <= last
  BY LastPO
<1>3. seg[1] # <<"PO1">>
  BY OrderSegAt
<1>4. OwnerOf(body, k + 1) = {last} /\ POs(body, k + 1) = POs(body, k) /\ Count(body, k + 1) = n
  BY <1>2, <1>3, OwnerFacts, CountStep
<1>5. /\ \A owner : owner # {last} => Own(body, owner, k + 1) = Own(body, owner, k)
      /\ Own(body, {last}, k + 1) = Own(body, {last}, k) \cup {k + 1}
  <2>1. \A owner :
          /\ body[k + 1][1] = <<"PID">> /\ OwnerOf(body, k + 1) = owner =>
               Own(body, owner, k + 1) = Own(body, owner, k) \cup {k + 1}
          /\ ~(body[k + 1][1] = <<"PID">> /\ OwnerOf(body, k + 1) = owner) =>
               Own(body, owner, k + 1) = Own(body, owner, k)
    BY OwnStep
  <2> QED BY <1>4, <2>1
<1>6. Phantom(body, k + 1) = f /\ f \in {0, 1}
  <2>1. {last} # {}
    OBVIOUS
  <2> QED BY <1>5, <2>1 DEF Phantom
<1>7. /\ made = Append(acc.items, acc.current) /\ Len(made) = Len(acc.items) + 1 /\ Len(acc.items) \in Nat
      /\ acc.items \in Seq(ItemRecords)
  BY <1>1, PushLastFacts
<1>8. /\ new \in Extracts /\ DOMAIN new.current # {} /\ item.description = seg[6] /\ after = Append(acc.items, item)
      /\ "line_number" \in DOMAIN acc.current =>
           "line_number" \in DOMAIN item /\ item.line_number = acc.current.line_number
  <2>1. \A i : i = X!WithDescription(acc.current, X!El(seg, 5)) =>
          /\ Taken(acc, seg) \in Extracts /\ DOMAIN i # {} /\ i.description = seg[6]
          /\ Taken(acc, seg).current = i /\ X!PushLast(Taken(acc, seg)) = Append(acc.items, i)
          /\ "line_number" \in DOMAIN acc.current =>
               "line_number" \in DOMAIN i /\ i.line_number = acc.current.line_number
    BY <1>1, TakePID
  <2>2. item = X!WithDescription(acc.current, X!El(seg, 5))
    OBVIOUS
  <2> HIDE DEF item
  <2> QED BY <2>1, <2>2
<1>9. n \in Nat /\ Count(body, last) = n /\ \A p \in POs(body, k) : Count(body, p) \in 1 .. n
  BY <1>2, POsAreFinite, CountIsRank
<1>10. \A p \in POs(body, k) : p # last => Count(body, p) < n
  <2>1. \A p \in POs(body, k) : p \in Nat
    BY DEF POs
  <2>2. ASSUME NEW p \in POs(body, k), p # last PROVE Count(body, p) < n
    <3>1. p < last
      BY <1>2, <2>1, <2>2
    <3>2. Count(body, p) < Count(body, last)
      BY <1>2, <3>1, CountIsRank
    <3> QED BY <1>9, <3>2
  <2> QED BY <2>2
<1>11. Own(body, {last}, k) \subseteq 1 .. k
  BY OwnStarts
<1> HIDE DEF made, new, after, item, f, n, ItemRecords
<1>12. /\ Len(after) = Len(made) /\ after[Len(made)] = item /\ made[Len(made)] = acc.current
       /\ \A i \in 1 .. Len(made) - 1 : after[i] = made[i]
  <2>1. /\ \A i \in 1 .. Len(acc.items) : made[i] = acc.items[i]
        /\ made[Len(acc.items) + 1] = acc.current
    BY <1>7, AppendAt
  <2>2. /\ \A i \in 1 .. Len(acc.items) : after[i] = acc.items[i]
        /\ after[Len(acc.items) + 1] = item /\ Len(after) = Len(acc.items) + 1
    BY <1>7, <1>8, AppendAt
  <2>3. Len(made) - 1 = Len(acc.items)
    BY <1>7
  <2> QED BY <1>7, <2>1, <2>2, <2>3
<1>13. \A p \in POs(body, k) : p # last => after[f + Count(body, p)] = made[f + Count(body, p)]
  <2>1. \A p \in POs(body, k) : p # last => f + Count(body, p) \in 1 .. (f + n) - 1
    BY <1>6, <1>9, <1>10
  <2> QED BY <1>1, <1>12, <2>1
<1>14. f = 1 => after[1] = made[1]
  <2>1. n >= 1
    BY <1>2, <1>9
  <2>2. f = 1 => 1 \in 1 .. (f + n) - 1
    BY <1>9, <2>1
  <2> QED BY <1>1, <1>12, <2>2
<1>15. after[f + n] = item /\ made[f + n] = acc.current
  BY <1>1, <1>12
<1>16. ASSUME NEW p \in POs(body, k)
       PROVE  /\ "line_number" \in DOMAIN after[f + Count(body, p)] /\ after[f + Count(body, p)].line_number = body[p][2]
              /\ Describes(body, after[f + Count(body, p)], Own(body, {p}, k + 1))
  <2>1. CASE p # last
    <3>1. {p} # {last}
      BY <2>1
    <3> QED BY <1>1, <1>5, <1>13, <2>1, <3>1
  <2>2. CASE p = last
    <3>1. "line_number" \in DOMAIN acc.current /\ acc.current.line_number = body[last][2]
      BY <1>1, <1>2, <1>9, <1>15
    <3>2. "line_number" \in DOMAIN item /\ item.line_number = body[last][2]
      BY <1>8, <3>1
    <3>3. Describes(body, item, Own(body, {last}, k) \cup {k + 1})
      BY <1>8, <1>11, DescribesLast
    <3>4. after[f + Count(body, p)] = item
      BY <1>9, <1>15, <2>2
    <3> QED BY <1>5, <2>2, <3>2, <3>3, <3>4
  <2> QED BY <2>1, <2>2
<1>17. f = 1 => Describes(body, after[1], Own(body, {}, k + 1))
  <2>1. {} # {last}
    OBVIOUS
  <2> QED BY <1>1, <1>5, <1>14, <2>1
<1>18. X!PushLast(new) = after /\ Len(after) = f + n
  BY <1>1, <1>12 DEF after
<1>19. ItemsOK(body, k + 1, new)
  BY <1>4, <1>6, <1>8, <1>16, <1>17, <1>18 DEF ItemsOK
<1> QED BY <1>19 DEF new

LEMMA TakeStep ==
  ASSUME NEW body \in Seq(OrderSegs), NEW k \in Nat, k + 1 <= Len(body), NEW acc, ItemsOK(body, k, acc)
  PROVE  ItemsOK(body, k + 1, Taken(acc, body[k + 1]))
<1> DEFINE seg == body[k + 1]
<1>1. Len(body) \in Nat
  BY LenProperties
<1>2. seg \in OrderSegs
  <2>1. k + 1 \in 1 .. Len(body)
    BY <1>1
  <2> HIDE DEF OrderSegs
  <2> QED BY <2>1, ElementOfSeq
<1>3. CASE seg[1] = <<"PO1">>
  BY <1>2, <1>3, TakePO1
<1>4. CASE seg[1] = <<"PID">>
  BY <1>1, <1>2, <1>4, TakeFirstPID, TakeNextPID
<1>5. CASE seg[1] # <<"PO1">> /\ seg[1] # <<"PID">>
  BY <1>5, TakeOther DEF Taken
<1> QED BY <1>3, <1>4, <1>5

LEMMA NothingTaken == \A body : ItemsOK(body, 0, Nothing)
<1>1. TAKE body
<1>2. 0 \in Nat
  OBVIOUS
<1>3. POs(body, 0) = {} /\ Count(body, 0) = 0 /\ Own(body, {}, 0) = {}
  BY <1>2, CountStarts, OwnStarts
<1>4. Nothing \in Extracts /\ DOMAIN Nothing.current = {} /\ Nothing.items = <<>>
  BY NothingType DEF Nothing
<1>5. X!PushLast(Nothing) = <<>> /\ Len(<<>>) = 0 /\ Phantom(body, 0) = 0
  BY <1>3, <1>4 DEF X!PushLast, X!PushItem, Phantom
<1> QED BY <1>3, <1>4, <1>5 DEF ItemsOK

LEMMA OrderReceived ==
  ASSUME NEW s \in Seq(OrderSegs)
  PROVE  /\ X!Received(s) \in Seq(OrderSegs) /\ Len(X!Received(s)) = Len(s)
         /\ \A i \in 1 .. Len(s) : X!Received(s)[i] = X!TrimLast(s[i])
<1>1. s \in Seq(Segs(X!OrderIds)) /\ "space" \notin X!OrderIds
  <2>1. OrderSegs \subseteq Segs(X!OrderIds)
    BY DEF OrderSegs
  <2> QED BY <2>1, SeqMonotonic DEF X!OrderIds
<1>2. /\ X!Received(s) \in Seq(Segs(X!OrderIds)) /\ Len(X!Received(s)) = Len(s)
      /\ \A i \in 1 .. Len(s) : X!Received(s)[i] = X!TrimLast(s[i])
  BY <1>1, ReceivedSegs
<1>3. ASSUME NEW g \in OrderSegs PROVE X!TrimLast(g) \in OrderSegs
  <2>1. g \in Segs(X!OrderIds) /\ X!IsOrderSegment(g) /\ g \in Seq(Seq(Chars))
    BY DEF OrderSegs, Segs
  <2>2. X!TrimLast(g) \in Segs(X!OrderIds) /\ X!TrimLast(g)[1] = g[1]
    BY <1>1, <2>1, TrimLastSegs
  <2>3. Len(X!TrimLast(g)) = Len(g)
    BY <2>1, TrimLastFacts
  <2>4. X!TrimLast(g) # <<>> /\ \E id \in X!OrderIds : X!TrimLast(g)[1] = <<id>>
    BY <2>2 DEF Segs
  <2>5. X!IsOrderSegment(X!TrimLast(g))
    BY <2>1, <2>2, <2>3, <2>4 DEF X!IsOrderSegment
  <2> QED BY <2>2, <2>5 DEF OrderSegs
<1>4. \A i \in 1 .. Len(s) : X!Received(s)[i] \in OrderSegs
  <2> HIDE DEF OrderSegs
  <2>1. \A i \in 1 .. Len(s) : s[i] \in OrderSegs
    BY ElementOfSeq
  <2> QED BY <1>2, <1>3, <2>1
<1> HIDE DEF OrderSegs
<1>5. X!Received(s) \in Seq(OrderSegs)
  BY <1>2, <1>4, SeqOfElements
<1> QED BY <1>2, <1>5

LEMMA ItemsOfEnvelope ==
  ASSUME NEW d, NEW whole, NEW p, NEW inner, Exchanged(d, whole, p, inner), d.type = "850",
         NEW s, s = X!Received(whole), NEW body, body = X!Received(d.items)
  PROVE  /\ body \in Seq(OrderSegs)
         /\ \E acc : ItemsOK(body, Len(body), acc) /\ X!ExtractItems(s) = X!PushLast(acc)
<1> DEFINE m == Len(body)
<1>20. /\ inner = d.items /\ inner \in Seq(OrderSegs) /\ IsEnveloped(whole, d, inner, 2 + Len(inner))
       /\ whole \in Seq(Segs(Inner \cup Outer)) /\ Len(whole) = Len(inner) + 6
  BY DEF Exchanged, IsBody, IsEnveloped
<1>1. /\ body \in Seq(OrderSegs) /\ m \in Nat /\ m = Len(inner)
      /\ \A i \in 1 .. m : body[i] = X!TrimLast(inner[i])
  BY <1>20, OrderReceived, LenProperties
<1>21. /\ s \in Seq(Segs(Inner \cup Outer)) /\ Len(s) = m + 6
       /\ \A i \in 1 .. m + 6 : s[i] = X!TrimLast(whole[i]) /\ s[i][1] = whole[i][1]
  <2>1. /\ X!Received(whole) \in Seq(Segs(Inner \cup Outer)) /\ Len(X!Received(whole)) = Len(whole)
        /\ \A i \in 1 .. Len(whole) : X!Received(whole)[i] = X!TrimLast(whole[i]) /\ X!Received(whole)[i][1] = whole[i][1]
    BY <1>20, NoSpaceNamed, ReceivedSegs
  <2>2. Len(whole) = m + 6
    BY <1>1, <1>20
  <2> QED BY <2>1, <2>2
<1>2. s \in Seq(Seq(Seq(Chars)))
  <2>1. Segs(Inner \cup Outer) \subseteq Seq(Seq(Chars))
    BY DEF Segs
  <2> QED BY <1>21, <2>1, SeqMonotonic
<1>3. PICK at \in [0 .. Len(s) -> Extracts] :
        IsRun(at, Takes, Nothing, s) /\ X!ExtractItems(s) = X!PushLast(at[Len(s)])
  BY <1>2, ExtractRun
<1>4. /\ s[1][1] = <<"ISA">> /\ s[2][1] = <<"GS">> /\ s[3][1] = <<"ST">>
      /\ s[m + 4][1] = <<"SE">> /\ s[m + 5][1] = <<"GE">> /\ s[m + 6][1] = <<"IEA">>
      /\ \A j \in 1 .. m : s[3 + j] = body[j]
  <2>1. /\ whole[1] = ISA(d) /\ whole[2] = GS(d) /\ whole[3] = ST(d)
        /\ whole[m + 4] = SE(d, 2 + m) /\ whole[m + 5] = GE(d) /\ whole[m + 6] = IEA(d)
        /\ \A j \in 1 .. m : whole[3 + j] = inner[j]
    BY <1>1, <1>20 DEF IsEnveloped
  <2>2. /\ ISA(d)[1] = <<"ISA">> /\ GS(d)[1] = <<"GS">> /\ ST(d)[1] = <<"ST">>
        /\ SE(d, 2 + m)[1] = <<"SE">> /\ GE(d)[1] = <<"GE">> /\ IEA(d)[1] = <<"IEA">>
    BY DEF ISA, GS, ST, SE, GE, IEA
  <2>3. \A i \in {1, 2, 3, m + 4, m + 5, m + 6} : i \in 1 .. m + 6
    BY <1>1
  <2>4. \A i \in {1, 2, 3, m + 4, m + 5, m + 6} : s[i][1] = whole[i][1]
    BY <1>21, <2>3
  <2>5. \A j \in 1 .. m : 3 + j \in 1 .. m + 6
    BY <1>1
  <2> QED BY <1>1, <1>21, <2>1, <2>2, <2>4, <2>5
<1>5. \A i \in {1, 2, 3, m + 4, m + 5, m + 6} : s[i][1] # <<"PO1">> /\ s[i][1] # <<"PID">>
  <2>1. \A x, y : <<x>> = <<y>> => x = y
    OBVIOUS
  <2>2. \A i \in {1, 2, 3, m + 4, m + 5, m + 6} : \E id \in Outer : s[i][1] = <<id>>
    <3>1. {"ISA", "GS", "ST", "SE", "GE", "IEA"} \subseteq Outer
      BY DEF Outer
    <3> QED BY <1>4, <3>1
  <2>3. "PO1" \notin Outer /\ "PID" \notin Outer
    BY DEF Outer
  <2> QED BY <2>1, <2>2, <2>3
<1> HIDE DEF m
<1>6. \A i \in 1 .. m + 6 : at[i - 1] \in Extracts /\ at[i] = Taken(at[i - 1], s[i])
  <2>1. \A i \in 1 .. m + 6 : i - 1 \in 0 .. m + 6 /\ s[i] \in Seq(Seq(Chars))
    BY <1>1, <1>2, <1>21, ElementOfSeq
  <2>2. \A i \in 1 .. m + 6 : at[i] = Takes[<<at[i - 1], s[i]>>]
    BY <1>21, <1>3 DEF IsRun
  <2>3. \A i \in 1 .. m + 6 : at[i - 1] \in Extracts
    BY <1>21, <1>3, <2>1
  <2> QED BY <2>1, <2>2, <2>3, TakesType
<1>7. \A i \in {1, 2, 3, m + 4, m + 5, m + 6} : at[i] = at[i - 1]
  <2>1. \A i \in {1, 2, 3, m + 4, m + 5, m + 6} : i \in 1 .. m + 6
    BY <1>1
  <2> QED BY <1>5, <1>6, <2>1 DEF Taken
<1>8. at[3] = Nothing
  <2>1. at[0] = Nothing
    BY <1>3 DEF IsRun
  <2>2. at[1] = at[0] /\ at[2] = at[1] /\ at[3] = at[2]
    BY <1>7
  <2> QED BY <2>1, <2>2
<1>9. at[m + 6] = at[m + 3]
  <2>1. (m + 4) - 1 = m + 3 /\ (m + 5) - 1 = m + 4 /\ (m + 6) - 1 = m + 5
    BY <1>1
  <2>2. at[m + 4] = at[m + 3] /\ at[m + 5] = at[m + 4] /\ at[m + 6] = at[m + 5]
    BY <1>7, <2>1
  <2> QED BY <2>2
<1> DEFINE T == { k \in 0 .. m : ItemsOK(body, k, at[3 + k]) }
<1>10. 0 \in T
  BY <1>1, <1>8, NothingTaken
<1>11. ASSUME NEW k \in 0 .. m - 1, k \in T PROVE k + 1 \in T
  <2>1. /\ k \in Nat /\ k + 1 \in 1 .. m /\ k + 1 \in 0 .. m /\ k + 1 <= Len(body)
        /\ 3 + (k + 1) \in 1 .. m + 6 /\ (3 + (k + 1)) - 1 = 3 + k
    BY <1>1 DEF m
  <2>2. at[3 + (k + 1)] = Taken(at[3 + k], body[k + 1])
    BY <1>4, <1>6, <2>1
  <2>3. ItemsOK(body, k + 1, Taken(at[3 + k], body[k + 1]))
    BY <1>1, <1>11, <2>1, TakeStep
  <2> QED BY <2>1, <2>2, <2>3
<1> HIDE DEF T
<1>12. m \in T
  <2>1. \A k \in 0 .. m : k \in T
    BY <1>1, <1>10, <1>11, Induct
  <2> QED BY <1>1, <2>1
<1>13. ItemsOK(body, m, at[m + 6]) /\ X!ExtractItems(s) = X!PushLast(at[m + 6])
  <2>1. 3 + m = m + 3
    BY <1>1
  <2> QED BY <1>21, <1>3, <1>9, <1>12, <2>1 DEF T
<1> QED BY <1>1, <1>13 DEF m

LEMMA ItemsFollow == X12Inv => ItemsOfOrder
<1> DEFINE body == X!Received(doc.items)
           m == Len(body)
           po1s == X!Where(body, "PO1")
           Owner(i) == { p \in po1s : p <= i /\ \A q \in po1s : q <= i => q <= p }
           pids(p) == { i \in X!Where(body, "PID") : Owner(i) = p }
           items == X!ExtractItems(parsed)
           phantom == IF pids({}) = {} THEN 0 ELSE 1
<1> SUFFICES ASSUME X12Inv, sent # <<>>, X!Clean(sent), doc.type = "850"
             PROVE  /\ Len(items) = phantom + X!Cardinality(po1s)
                    /\ phantom = 1 => Describes(body, items[1], pids({}))
                    /\ \A p \in po1s :
                         LET item == items[phantom + X!Cardinality({ q \in po1s : q <= p })]
                         IN  item.line_number = body[p][2] /\ Describes(body, item, pids({p}))
  BY DEF ItemsOfOrder, X!ItemsOfOrder, Describes
<1>1. PICK b : Exchanged(doc, sent, parsed, b)
  BY ExchangedFacts
<1>2. parsed = X!Received(sent)
  BY <1>1, CleanComesBack
<1>3. body \in Seq(OrderSegs) /\ \E acc : ItemsOK(body, Len(body), acc) /\ X!ExtractItems(parsed) = X!PushLast(acc)
  <2> HIDE DEF body
  <2>1. body = X!Received(doc.items)
    BY DEF body
  <2> QED BY <1>1, <1>2, <2>1, ItemsOfEnvelope
<1> HIDE DEF body
<1>4. PICK acc : ItemsOK(body, m, acc) /\ items = X!PushLast(acc)
  BY <1>3
<1>5. m \in Nat /\ DOMAIN body = 1 .. m
  BY <1>3, LenProperties
<1>6. po1s = POs(body, m) /\ X!Where(body, "PID") = { i \in 1 .. m : body[i][1] = <<"PID">> }
  BY <1>5 DEF POs, X!Where
<1>7. \A i : Owner(i) = OwnerOf(body, i)
  BY <1>6 DEF OwnerOf
<1> HIDE DEF Owner
<1>8. \A p : pids(p) = Own(body, p, m)
  BY <1>6, <1>7 DEF Own
<1> HIDE DEF pids
<1>9. phantom = Phantom(body, m)
  BY <1>8 DEF Phantom
<1>10. \A p \in po1s : { q \in po1s : q <= p } = POs(body, p)
  <2>1. ASSUME NEW p \in po1s PROVE { q \in po1s : q <= p } = POs(body, p)
    <3>1. p \in 1 .. m
      BY <1>6, <2>1 DEF POs
    <3>2. \A q : q \in 1 .. p <=> q \in 1 .. m /\ q <= p
      BY <1>5, <3>1
    <3> QED BY <1>6, <3>2 DEF POs
  <2> QED BY <2>1
<1>11. X!Cardinality(po1s) = Count(body, m) /\ \A p \in po1s : X!Cardinality({ q \in po1s : q <= p }) = Count(body, p)
  BY <1>6, <1>10 DEF Count
<1> HIDE DEF phantom, items, m, po1s
<1>12. /\ Len(items) = phantom + Count(body, m)
       /\ phantom = 1 => Describes(body, items[1], Own(body, {}, m))
       /\ \A p \in po1s : /\ items[phantom + Count(body, p)].line_number = body[p][2]
                          /\ Describes(body, items[phantom + Count(body, p)], Own(body, {p}, m))
  BY <1>4, <1>6, <1>9 DEF ItemsOK
<1> QED BY <1>8, <1>11, <1>12

(* In every order without separators in its fields, whatever segments it has *)
(* between its envelope, each PO1 makes one item, in the order of the PO1s,  *)
(* with its line number and the last description that follows it.            *)
THEOREM ItemsKeepOrder == LibrarySpec => []ItemsOfOrder
BY X12Invariant, ItemsFollow, PTL
=============================================================================
