----------------------------- MODULE BridgeProofs -----------------------------
(***************************************************************************)
(* The bridge loses and doubles no order that is not accounted for, for    *)
(* any orders, batches, bounds and faults.  Counting the copies of an order*)
(* in a sequence comes first.                                              *)
(***************************************************************************)
EXTENDS Bridge, FiniteSetTheorems, SequenceTheorems, TLAPS

Positions(s, o) == { i \in DOMAIN s : s[i].order = o }

LEMMA CountTo == ASSUME NEW k \in Nat PROVE IsFiniteSet(1 .. k) /\ Cardinality(1 .. k) = k
<1>1. CASE k = 0
  BY <1>1, FS_Interval
<1>2. CASE k > 0
  BY <1>2, FS_Interval
<1> QED BY <1>1, <1>2

LEMMA CountType ==
  ASSUME NEW s \in Seq(Messages), NEW o
  PROVE  /\ IsFiniteSet(Positions(s, o)) /\ Count(s, o) = Cardinality(Positions(s, o))
         /\ Count(s, o) \in Nat
<1>1. Positions(s, o) \subseteq 1 .. Len(s) /\ Len(s) \in Nat
  BY LenProperties DEF Positions
<1>2. IsFiniteSet(Positions(s, o))
  BY <1>1, CountTo, FS_Subset
<1> QED BY <1>2, FS_CardinalityType DEF Count, Positions

LEMMA CountEmpty == \A o : Count(<<>>, o) = 0
<1> TAKE o
<1>1. { i \in DOMAIN <<>> : <<>>[i].order = o } = {}
  OBVIOUS
<1> QED BY <1>1, FS_EmptySet DEF Count

LEMMA CountAppend ==
  ASSUME NEW s \in Seq(Messages), NEW m \in Messages, NEW o
  PROVE  Count(Append(s, m), o) = Count(s, o) + IF m.order = o THEN 1 ELSE 0
<1> DEFINE t == Append(s, m)
<1>1. /\ t \in Seq(Messages) /\ DOMAIN t = 1 .. Len(s) + 1 /\ DOMAIN s = 1 .. Len(s)
      /\ Len(s) \in Nat
      /\ \A i \in 1 .. Len(s) : t[i] = s[i]
      /\ t[Len(s) + 1] = m
  BY AppendProperties, LenProperties
<1> HIDE DEF t
<1>2. Positions(t, o) = IF m.order = o THEN Positions(s, o) \cup {Len(s) + 1} ELSE Positions(s, o)
  BY <1>1 DEF Positions
<1>3. Len(s) + 1 \notin Positions(s, o)
  BY <1>1 DEF Positions
<1>4. IsFiniteSet(Positions(s, o)) /\ Count(s, o) = Cardinality(Positions(s, o)) /\ Count(s, o) \in Nat
  BY CountType
<1>5. Count(t, o) = Cardinality(Positions(t, o))
  BY <1>1, CountType
<1>6. Cardinality(Positions(s, o) \cup {Len(s) + 1}) = Cardinality(Positions(s, o)) + 1
  BY <1>3, <1>4, FS_AddElement
<1>7. Count(t, o) = Count(s, o) + IF m.order = o THEN 1 ELSE 0
  BY <1>2, <1>4, <1>5, <1>6
<1> QED BY <1>7 DEF t

(* Cutting a sequence in two loses nothing.                                  *)
LEMMA CountSplit ==
  ASSUME NEW s \in Seq(Messages), NEW k \in 0 .. Len(s), NEW o
  PROVE  /\ SubSeq(s, 1, k) \in Seq(Messages)
         /\ SubSeq(s, k + 1, Len(s)) \in Seq(Messages)
         /\ Count(s, o) = Count(SubSeq(s, 1, k), o) + Count(SubSeq(s, k + 1, Len(s)), o)
<1> DEFINE a == SubSeq(s, 1, k)
           b == SubSeq(s, k + 1, Len(s))
           A == Positions(a, o)
           B == { i \in k + 1 .. Len(s) : s[i].order = o }
<1>1. Len(s) \in Nat /\ k \in Nat /\ k <= Len(s) /\ DOMAIN s = 1 .. Len(s)
      /\ \A i \in 1 .. Len(s) : s[i] \in Messages
  BY LenProperties
<1>2. /\ a \in Seq(Messages) /\ Len(a) = k /\ \A i \in 1 .. k : a[i] = s[i]
  <2>1. \A i \in 1 .. k : s[i] \in Messages
    BY <1>1
  <2>2. /\ a \in Seq(Messages) /\ Len(a) = (IF 1 <= k THEN k - 1 + 1 ELSE 0)
        /\ \A i \in 1 .. k - 1 + 1 : a[i] = s[1 + i - 1]
    BY <1>1, <2>1, SubSeqProperties
  <2> HIDE DEF a
  <2> QED BY <1>1, <2>2
<1>3. /\ b \in Seq(Messages) /\ Len(b) = Len(s) - k
      /\ \A i \in 1 .. Len(s) - k : b[i] = s[k + i]
  <2>1. \A i \in k + 1 .. Len(s) : s[i] \in Messages
    BY <1>1
  <2>2. /\ b \in Seq(Messages)
        /\ Len(b) = (IF k + 1 <= Len(s) THEN Len(s) - (k + 1) + 1 ELSE 0)
        /\ \A i \in 1 .. Len(s) - (k + 1) + 1 : b[i] = s[k + 1 + i - 1]
    <3>1. k + 1 \in Int /\ Len(s) \in Int
      BY <1>1
    <3> QED BY <2>1, <3>1, SubSeqProperties
  <2> HIDE DEF b
  <2>3. Len(b) = Len(s) - k
    <3>0. k + 1 <= Len(s) \/ k = Len(s)
      <4>1. Len(s) \in Int /\ k \in Int /\ k <= Len(s)
        BY <1>1
      <4> QED BY <4>1
    <3>1. CASE k + 1 <= Len(s)
      <4>1. Len(b) = Len(s) - (k + 1) + 1
        BY <2>2, <3>1
      <4> QED BY <1>1, <4>1
    <3>2. CASE k = Len(s)
      <4>1. Len(b) = 0
        BY <1>1, <2>2, <3>2
      <4> QED BY <1>1, <3>2, <4>1
    <3> QED BY <3>0, <3>1, <3>2
  <2>4. ASSUME NEW i \in 1 .. Len(s) - k PROVE b[i] = s[k + i]
    <3>1. i \in 1 .. Len(s) - (k + 1) + 1 /\ k + 1 + i - 1 = k + i
      BY <1>1
    <3> QED BY <2>2, <3>1
  <2> QED BY <2>2, <2>3, <2>4
<1> HIDE DEF a, b
<1>4. Positions(s, o) = A \cup B /\ A \cap B = {}
  <2>1. DOMAIN a = 1 .. k
    BY <1>2, LenProperties
  <2> QED BY <1>1, <1>2, <2>1 DEF Positions
<1>5. IsFiniteSet(B) /\ Cardinality(B) = Count(b, o)
  <2> DEFINE f == [i \in Positions(b, o) |-> k + i]
  <2>1. DOMAIN b = 1 .. Len(s) - k
    BY <1>3, LenProperties
  <2>2. f \in [Positions(b, o) -> B]
    BY <1>1, <1>3, <2>1 DEF Positions
  <2>3. \A i, j \in Positions(b, o) : f[i] = f[j] => i = j
    BY <1>1, <2>1 DEF Positions
  <2>4. ASSUME NEW n \in B PROVE \E i \in Positions(b, o) : f[i] = n
    <3>1. n - k \in 1 .. Len(s) - k /\ b[n - k] = s[n]
      BY <1>1, <1>3
    <3>2. n - k \in Positions(b, o)
      BY <2>1, <3>1 DEF Positions
    <3> QED BY <1>1, <3>2
  <2>5. f \in Bijection(Positions(b, o), B)
    BY <2>2, <2>3, <2>4 DEF Bijection, Injection, Surjection, IsInjective
  <2>6. ExistsBijection(Positions(b, o), B)
    BY <2>5 DEF ExistsBijection
  <2>7. IsFiniteSet(Positions(b, o)) /\ Count(b, o) = Cardinality(Positions(b, o))
    BY <1>3, CountType
  <2> HIDE DEF B
  <2> QED BY <2>6, <2>7, FS_Bijection
<1>6. IsFiniteSet(A) /\ Cardinality(A) = Count(a, o) /\ Count(a, o) \in Nat /\ Count(b, o) \in Nat
  BY <1>2, <1>3, CountType
<1>7. Cardinality(A \cup B) = Cardinality(A) + Cardinality(B)
  <2>1. Cardinality(A \cup B) = Cardinality(A) + Cardinality(B) - Cardinality(A \cap B)
    BY <1>5, <1>6, FS_Union
  <2>2. Cardinality(A \cap B) = 0
    BY <1>4, FS_EmptySet
  <2> HIDE DEF A, B
  <2> QED BY <1>5, <1>6, <2>1, <2>2
<1>8. Count(s, o) = Cardinality(A \cup B)
  BY <1>4, CountType
<1>9. Count(s, o) = Count(a, o) + Count(b, o)
  BY <1>5, <1>6, <1>7, <1>8
<1> QED BY <1>2, <1>3, <1>9 DEF a, b

LEMMA CountTail ==
  ASSUME NEW s \in Seq(Messages), s # <<>>, NEW o
  PROVE  /\ Head(s) \in Messages /\ Tail(s) \in Seq(Messages)
         /\ Count(s, o) = Count(Tail(s), o) + IF Head(s).order = o THEN 1 ELSE 0
<1>1. Len(s) \in Nat /\ Len(s) > 0 /\ s[1] = Head(s)
  BY EmptySeq, LenProperties
<1>2. Head(s) \in Messages /\ Tail(s) \in Seq(Messages) /\ Tail(s) = SubSeq(s, 2, Len(s))
  BY HeadTailProperties, <1>1
<1> DEFINE a == SubSeq(s, 1, 1)
<1>3. Count(s, o) = Count(a, o) + Count(Tail(s), o) /\ a \in Seq(Messages)
  <2>1. 1 \in 0 .. Len(s)
    BY <1>1
  <2>2. /\ SubSeq(s, 1, 1) \in Seq(Messages)
        /\ Count(s, o) = Count(SubSeq(s, 1, 1), o) + Count(SubSeq(s, 1 + 1, Len(s)), o)
    BY <2>1, CountSplit
  <2>3. 1 + 1 = 2
    OBVIOUS
  <2>4. Count(SubSeq(s, 1 + 1, Len(s)), o) = Count(Tail(s), o)
    BY <1>2, <2>3
  <2> QED BY <2>2, <2>4
<1>4. DOMAIN a = 1 .. 1 /\ a[1] = Head(s)
  BY <1>1
<1> HIDE DEF a
<1>5. Positions(a, o) = IF Head(s).order = o THEN {1} ELSE {}
  BY <1>4 DEF Positions
<1>6. Count(a, o) = Cardinality(Positions(a, o)) /\ Count(a, o) \in Nat
  BY <1>3, CountType
<1>7. Count(a, o) = IF Head(s).order = o THEN 1 ELSE 0
  BY <1>5, <1>6, FS_EmptySet, FS_Singleton
<1>8. Count(Tail(s), o) \in Nat
  BY <1>2, CountType
<1> QED BY <1>2, <1>3, <1>6, <1>7, <1>8

(***************************************************************************)
(* A filtered sequence                                                     *)
(***************************************************************************)
(* The places of the positions I are 1 to their number, in their order.      *)
LEMMA PlacesAreBijective ==
  ASSUME NEW I, IsFiniteSet(I), I \subseteq Nat
  PROVE  /\ \A i \in I : Place(i, I) \in 1 .. Cardinality(I)
         /\ \A i, j \in I : Place(i, I) = Place(j, I) => i = j
         /\ \A p \in 1 .. Cardinality(I) : \E i \in I : Place(i, I) = p
<1> DEFINE UpTo(i) == { k \in I : k <= i }
           C == Cardinality(I)
<1>1. C \in Nat
  BY FS_CardinalityType
<1>2. \A i \in I : /\ IsFiniteSet(UpTo(i)) /\ Cardinality(UpTo(i)) \in Nat
                   /\ Cardinality(UpTo(i)) <= C
  BY FS_Subset, FS_CardinalityType
<1>3. ASSUME NEW i \in I PROVE Place(i, I) \in 1 .. C
  <2>1. i \in UpTo(i)
    OBVIOUS
  <2>2. Cardinality(UpTo(i)) # 0
    <3>1. Cardinality(UpTo(i)) = 0 <=> UpTo(i) = {}
      BY <1>2, FS_EmptySet
    <3> QED BY <2>1, <3>1
  <2>3. Place(i, I) = Cardinality(UpTo(i))
    BY DEF Place
  <2> HIDE DEF UpTo, C
  <2> QED BY <1>1, <1>2, <2>2, <2>3
<1>4. ASSUME NEW i \in I, NEW j \in I, i < j PROVE Place(i, I) < Place(j, I)
  <2>1. UpTo(i) \subseteq UpTo(j) /\ UpTo(i) # UpTo(j)
    <3>1. j \in UpTo(j) /\ j \notin UpTo(i)
      BY <1>4
    <3>2. \A k \in I : k <= i => k <= j
      <4>1. i \in Int /\ j \in Int /\ \A k \in I : k \in Int
        OBVIOUS
      <4> QED BY <1>4, <4>1
    <3>3. UpTo(i) \subseteq UpTo(j)
      BY <3>2
    <3> QED BY <3>1, <3>3
  <2>2. /\ Cardinality(UpTo(i)) <= Cardinality(UpTo(j))
        /\ Cardinality(UpTo(i)) # Cardinality(UpTo(j))
    BY <1>2, <2>1, FS_Subset
  <2>3. Place(i, I) = Cardinality(UpTo(i)) /\ Place(j, I) = Cardinality(UpTo(j))
    BY DEF Place
  <2> HIDE DEF UpTo
  <2> QED BY <1>2, <2>2, <2>3
<1>5. ASSUME NEW i \in I, NEW j \in I, Place(i, I) = Place(j, I) PROVE i = j
  <2>1. i \in Nat /\ j \in Nat /\ Place(i, I) \in Int /\ Place(j, I) \in Int
    BY <1>1, <1>3
  <2>2. ~(i < j) /\ ~(j < i)
    BY <1>4, <1>5, <2>1
  <2> QED BY <2>1, <2>2
<1> DEFINE f == [i \in I |-> Place(i, I)]
<1>6. f \in Injection(I, 1 .. C)
  BY <1>3, <1>5 DEF Injection, IsInjective
<1>7. f \in Surjection(I, 1 .. C)
  BY <1>1, <1>6, CountTo, FS_Injection
<1>8. \A p \in 1 .. C : \E i \in I : Place(i, I) = p
  BY <1>7 DEF Surjection
<1> QED BY <1>3, <1>5, <1>8

(* A filtered sequence holds what is at its positions, each once.            *)
LEMMA CountFiltered ==
  ASSUME NEW s \in Seq(Messages), NEW I \in SUBSET DOMAIN s, NEW o
  PROVE  /\ Filtered(s, I) \in Seq(Messages)
         /\ Count(Filtered(s, I), o) = Cardinality({ i \in I : s[i].order = o })
<1> DEFINE t == Filtered(s, I)
           C == Cardinality(I)
           At(p) == CHOOSE i \in I : Place(i, I) = p
           F == { i \in I : s[i].order = o }
<1>1. IsFiniteSet(I) /\ I \subseteq Nat /\ C \in Nat
  <2>1. DOMAIN s = 1 .. Len(s) /\ Len(s) \in Nat
    BY LenProperties
  <2>2. IsFiniteSet(1 .. Len(s)) /\ I \subseteq 1 .. Len(s)
    BY <2>1, CountTo
  <2> QED BY <2>2, FS_Subset, FS_CardinalityType
<1>2. /\ \A i \in I : Place(i, I) \in 1 .. C
      /\ \A i, j \in I : Place(i, I) = Place(j, I) => i = j
      /\ \A p \in 1 .. C : \E i \in I : Place(i, I) = p
  BY <1>1, PlacesAreBijective
<1> HIDE DEF C
<1>3. /\ \A p \in 1 .. C : At(p) \in I /\ Place(At(p), I) = p
      /\ \A i \in I : At(Place(i, I)) = i
  BY <1>2
<1>4. t = [p \in 1 .. C |-> s[At(p)]]
  BY DEF Filtered, C
<1> HIDE DEF t, At
<1>5. t \in [1 .. C -> Messages]
  BY <1>3, <1>4, LenProperties
<1>6. t \in Seq(Messages)
  BY <1>1, <1>5
<1>7. DOMAIN t = 1 .. C /\ \A p \in 1 .. C : t[p] = s[At(p)]
  BY <1>4
<1> DEFINE g == [p \in Positions(t, o) |-> At(p)]
<1>8. g \in [Positions(t, o) -> F]
  BY <1>3, <1>7 DEF Positions
<1>9. \A p, q \in Positions(t, o) : g[p] = g[q] => p = q
  BY <1>3, <1>7 DEF Positions
<1>10. ASSUME NEW i \in F PROVE \E p \in Positions(t, o) : g[p] = i
  <2>1. Place(i, I) \in 1 .. C /\ At(Place(i, I)) = i
    BY <1>2, <1>3
  <2>2. Place(i, I) \in Positions(t, o)
    BY <1>7, <2>1 DEF Positions
  <2> QED BY <2>1, <2>2
<1>11. g \in Bijection(Positions(t, o), F)
  BY <1>8, <1>9, <1>10 DEF Bijection, Injection, Surjection, IsInjective
<1>12. ExistsBijection(Positions(t, o), F)
  BY <1>11 DEF ExistsBijection
<1>13. IsFiniteSet(Positions(t, o)) /\ Count(t, o) = Cardinality(Positions(t, o))
  BY <1>6, CountType
<1>14. Cardinality(F) = Count(t, o)
  <2> HIDE DEF F
  <2> QED BY <1>12, <1>13, FS_Bijection
<1> QED BY <1>6, <1>14 DEF t

(* Filtering by a condition and by its negation loses nothing.               *)
LEMMA CountPartition ==
  ASSUME NEW s \in Seq(Messages), NEW I \in SUBSET DOMAIN s, NEW o
  PROVE  Count(s, o) = Count(Filtered(s, DOMAIN s \ I), o) + Count(Filtered(s, I), o)
<1> DEFINE A == { i \in DOMAIN s \ I : s[i].order = o }
           B == { i \in I : s[i].order = o }
<1>1. Count(Filtered(s, DOMAIN s \ I), o) = Cardinality(A) /\ Count(Filtered(s, I), o) = Cardinality(B)
  BY CountFiltered
<1>2. A \cup B = Positions(s, o) /\ A \cap B = {}
  BY DEF Positions
<1>3. IsFiniteSet(Positions(s, o)) /\ Count(s, o) = Cardinality(Positions(s, o))
  BY CountType
<1> HIDE DEF A, B
<1>4. IsFiniteSet(A) /\ IsFiniteSet(B) /\ Cardinality(A) \in Nat /\ Cardinality(B) \in Nat
  BY <1>2, <1>3, FS_Subset, FS_CardinalityType
<1>5. Cardinality(A \cup B) = Cardinality(A) + Cardinality(B) - Cardinality(A \cap B)
  BY <1>4, FS_Union
<1>6. Cardinality(A \cap B) = 0
  BY <1>2, FS_EmptySet
<1>7. Count(s, o) = Cardinality(A \cup B)
  BY <1>2, <1>3
<1>8. Count(s, o) = Cardinality(A) + Cardinality(B)
  BY <1>4, <1>5, <1>6, <1>7
<1> QED BY <1>1, <1>8

(***************************************************************************)
(* The accounts                                                            *)
(***************************************************************************)
BridgeType ==
  /\ hand \subseteq Orders
  /\ batch \in Seq(Messages) /\ queue \in Seq(Messages)
  /\ fetched \in [Orders -> Nat] /\ stored \in [Orders -> Nat]
  /\ unsure \in [Orders -> Nat] /\ gone \in [Orders -> Nat]

(* A poll sends or drains, and what it works on is gone when it ends: else   *)
(* the next poll would overwrite it.                                         *)
OnePollAtATime ==
  /\ phase # "sending" => hand = {}
  /\ phase # "draining" => batch = <<>>
  /\ phase = "down" => queue = <<>>

BridgeInv == BridgeType /\ OnePollAtATime /\ Conservation

LEMMA CopiesAreCounted ==
  ASSUME BridgeInv, NEW o \in Orders
  PROVE  /\ Copies(o) = (IF o \in hand THEN 1 ELSE 0) + Count(batch, o) + Count(queue, o)
         /\ Count(batch, o) \in Nat /\ Count(queue, o) \in Nat
         /\ fetched[o] \in Nat /\ stored[o] \in Nat /\ unsure[o] \in Nat /\ gone[o] \in Nat
         /\ fetched[o] + unsure[o] = stored[o] + Copies(o) + gone[o]
<1>1. batch \in Seq(Messages) /\ queue \in Seq(Messages)
  BY DEF BridgeInv, BridgeType
<1>2. Count(batch, o) \in Nat /\ Count(queue, o) \in Nat
  BY <1>1, CountType
<1> QED BY <1>2 DEF Copies, BridgeInv, BridgeType, Conservation

LEMMA BridgeInit == Init => BridgeInv
<1> SUFFICES ASSUME Init PROVE BridgeInv
  OBVIOUS
<1>1. /\ phase = "down" /\ hand = {} /\ batch = <<>> /\ queue = <<>>
      /\ fetched = Zero /\ stored = Zero /\ unsure = Zero /\ gone = Zero
  BY DEF Init
<1>2. BridgeType /\ OnePollAtATime
  BY <1>1 DEF BridgeType, OnePollAtATime, Zero
<1>3. Conservation
  BY <1>1, CountEmpty DEF Conservation, Copies, Zero
<1> QED BY <1>2, <1>3 DEF BridgeInv

LEMMA FetchStep == ASSUME BridgeInv, NEW S \in SUBSET Orders, Fetch(S) PROVE BridgeInv'
<1>1. /\ phase = "waiting" /\ phase' = "sending" /\ hand' = S
      /\ fetched' = [o \in Orders |-> IF o \in S THEN fetched[o] + 1 ELSE fetched[o]]
      /\ UNCHANGED <<batch, queue, stored, unsure, gone>>
  BY DEF Fetch
<1>2. BridgeType' /\ OnePollAtATime'
  BY <1>1 DEF BridgeInv, BridgeType, OnePollAtATime
<1>3. Conservation'
  <2> SUFFICES ASSUME NEW o \in Orders
               PROVE  fetched'[o] + unsure'[o] = stored'[o] + Copies(o)' + gone'[o]
    BY DEF Conservation
  <2>1. o \notin hand
    BY <1>1 DEF BridgeInv, OnePollAtATime
  <2>2. Copies(o)' = (IF o \in S THEN 1 ELSE 0) + Count(batch, o) + Count(queue, o)
    BY <1>1 DEF Copies
  <2>3. fetched'[o] = IF o \in S THEN fetched[o] + 1 ELSE fetched[o]
    BY <1>1
  <2> QED BY <1>1, <2>1, <2>2, <2>3, CopiesAreCounted
<1> QED BY <1>2, <1>3 DEF BridgeInv

LEMMA DequeueStep == ASSUME BridgeInv, Dequeue PROVE BridgeInv'
<1> DEFINE k == Least(BatchSize, Len(queue))
<1>1. /\ phase = "waiting" /\ phase' = "draining"
      /\ batch' = SubSeq(queue, 1, k) /\ queue' = SubSeq(queue, BatchSize + 1, Len(queue))
      /\ UNCHANGED <<hand, fetched, stored, unsure, gone>>
  BY DEF Dequeue, Rest, history
<1>2. /\ queue \in Seq(Messages) /\ batch = <<>> /\ hand = {}
      /\ Len(queue) \in Nat /\ BatchSize \in Nat
  BY <1>1, LenProperties, SizesAssumption DEF BridgeInv, BridgeType, OnePollAtATime
<1>3. k \in 0 .. Len(queue)
  BY <1>2 DEF Least
<1>4. queue' = SubSeq(queue, k + 1, Len(queue))
  <2>1. CASE BatchSize <= Len(queue)
    BY <1>1, <2>1 DEF Least
  <2>2. CASE ~(BatchSize <= Len(queue))
    <3>1. k = Len(queue)
      BY <2>2 DEF Least
    <3>2. Len(queue) < BatchSize + 1 /\ Len(queue) < k + 1
      BY <1>2, <2>2, <3>1
    <3>3. SubSeq(queue, BatchSize + 1, Len(queue)) = <<>> /\ SubSeq(queue, k + 1, Len(queue)) = <<>>
      <4> HIDE DEF k
      <4> QED BY <1>2, <1>3, <3>2, SubSeqEmpty
    <3> QED BY <1>1, <3>3
  <2> QED BY <2>1, <2>2
<1> HIDE DEF k
<1>5. /\ batch' \in Seq(Messages) /\ queue' \in Seq(Messages)
      /\ \A o : Count(queue, o) = Count(batch', o) + Count(queue', o)
  BY <1>1, <1>2, <1>3, <1>4, CountSplit
<1>6. BridgeType' /\ OnePollAtATime'
  BY <1>1, <1>2, <1>5 DEF BridgeInv, BridgeType, OnePollAtATime
<1>7. Conservation'
  <2> SUFFICES ASSUME NEW o \in Orders
               PROVE  fetched'[o] + unsure'[o] = stored'[o] + Copies(o)' + gone'[o]
    BY DEF Conservation
  <2>1. Copies(o)' = (IF o \in hand THEN 1 ELSE 0) + Count(batch', o) + Count(queue', o)
    BY <1>1 DEF Copies
  <2>2. Count(batch', o) \in Nat /\ Count(queue', o) \in Nat
    BY <1>5, CountType
  <2>3. Count(batch, o) = 0
    BY <1>2, CountEmpty
  <2>4. Copies(o)' = Copies(o)
    BY <1>5, <2>1, <2>2, <2>3, CopiesAreCounted
  <2> QED BY <1>1, <2>4, CopiesAreCounted
<1> QED BY <1>6, <1>7 DEF BridgeInv

(* A post: the order that leaves the hand or the batch is stored, or is put  *)
(* into the queue, or both, and then the bridge is unsure.                   *)
LEMMA PostStep ==
  ASSUME BridgeInv, NEW o \in Orders, NEW m \in Messages, m.order = o,
         hand' \subseteq Orders, batch' \in Seq(Messages), OnePollAtATime',
         \A p \in Orders :
           (IF p \in hand THEN 1 ELSE 0) + Count(batch, p) =
             (IF p \in hand' THEN 1 ELSE 0) + Count(batch', p) + (IF p = o THEN 1 ELSE 0),
         (Answered(o) /\ UNCHANGED queue) \/ (Failed(o) /\ queue' = Append(queue, m)),
         UNCHANGED <<fetched, gone>>
  PROVE  BridgeInv'
<1>1. BridgeType
  BY DEF BridgeInv
<1>2. \/ stored' = [stored EXCEPT ![o] = @ + 1] /\ unsure' = unsure /\ queue' = queue
      \/ stored' = stored /\ unsure' = unsure /\ queue' = Append(queue, m)
      \/ /\ stored' = [stored EXCEPT ![o] = @ + 1] /\ unsure' = [unsure EXCEPT ![o] = @ + 1]
         /\ queue' = Append(queue, m)
  BY DEF Answered, Failed, Store
<1>3. queue' \in Seq(Messages)
  <2>1. queue' = queue \/ queue' = Append(queue, m)
    BY <1>2
  <2>2. queue \in Seq(Messages) /\ Append(queue, m) \in Seq(Messages)
    BY <1>1, AppendProperties DEF BridgeType
  <2> QED BY <2>1, <2>2
<1>4. BridgeType'
  <2>1. stored \in [Orders -> Nat] /\ unsure \in [Orders -> Nat]
    BY <1>1 DEF BridgeType
  <2>2. /\ stored' = stored \/ stored' = [stored EXCEPT ![o] = @ + 1]
        /\ unsure' = unsure \/ unsure' = [unsure EXCEPT ![o] = @ + 1]
    BY <1>2
  <2>3. stored' \in [Orders -> Nat] /\ unsure' \in [Orders -> Nat]
    <3>1. /\ [stored EXCEPT ![o] = @ + 1] \in [Orders -> Nat]
          /\ [unsure EXCEPT ![o] = @ + 1] \in [Orders -> Nat]
      BY <2>1
    <3> QED BY <2>1, <2>2, <3>1
  <2> QED BY <1>1, <1>3, <2>3 DEF BridgeType
<1>5. Conservation'
  <2> SUFFICES ASSUME NEW p \in Orders
               PROVE  fetched'[p] + unsure'[p] = stored'[p] + Copies(p)' + gone'[p]
    BY DEF Conservation
  <2> DEFINE one == IF p = o THEN 1 ELSE 0
  <2>1. one \in {0, 1}
    OBVIOUS
  <2>2. Count(Append(queue, m), p) = Count(queue, p) + one
    BY <1>1, CountAppend DEF BridgeType
  <2>3. /\ Copies(p)' = (IF p \in hand' THEN 1 ELSE 0) + Count(batch', p) + Count(queue', p)
        /\ Count(batch', p) \in Nat /\ Count(queue', p) \in Nat
    BY <1>3, CountType DEF Copies
  <2>4. \/ stored'[p] = stored[p] + one /\ unsure'[p] = unsure[p] /\ Count(queue', p) = Count(queue, p)
        \/ stored'[p] = stored[p] /\ unsure'[p] = unsure[p] /\ Count(queue', p) = Count(queue, p) + one
        \/ /\ stored'[p] = stored[p] + one /\ unsure'[p] = unsure[p] + one
           /\ Count(queue', p) = Count(queue, p) + one
    <3>1. /\ stored \in [Orders -> Nat] /\ unsure \in [Orders -> Nat]
      BY <1>1 DEF BridgeType
    <3>2. /\ [stored EXCEPT ![o] = @ + 1][p] = stored[p] + one
          /\ [unsure EXCEPT ![o] = @ + 1][p] = unsure[p] + one
      BY <3>1
    <3> HIDE DEF one
    <3> QED BY <1>2, <2>2, <3>2
  <2>5. (IF p \in hand THEN 1 ELSE 0) + Count(batch, p) =
          (IF p \in hand' THEN 1 ELSE 0) + Count(batch', p) + one
    OBVIOUS
  <2>6. fetched'[p] = fetched[p] /\ gone'[p] = gone[p]
    OBVIOUS
  <2> HIDE DEF one
  <2> DEFINE h == IF p \in hand THEN 1 ELSE 0
             g == IF p \in hand' THEN 1 ELSE 0
  <2>7. h \in Nat /\ g \in Nat
    OBVIOUS
  <2> HIDE DEF h, g
  <2>8. /\ Copies(p) = h + Count(batch, p) + Count(queue, p)
        /\ Count(batch, p) \in Nat /\ Count(queue, p) \in Nat
        /\ fetched[p] \in Nat /\ stored[p] \in Nat /\ unsure[p] \in Nat /\ gone[p] \in Nat
        /\ fetched[p] + unsure[p] = stored[p] + Copies(p) + gone[p]
    BY CopiesAreCounted DEF h
  <2>9. Copies(p)' = g + Count(batch', p) + Count(queue', p) /\ h + Count(batch, p) = g + Count(batch', p) + one
    BY <2>3, <2>5 DEF h, g
  <2> DEFINE b == Count(batch, p)
             c == Count(batch', p)
             q == Count(queue, p)
             r == Count(queue', p)
  <2>10. /\ {h, g, b, c, q, r, one, fetched[p], stored[p], unsure[p], gone[p]} \subseteq Nat
         /\ fetched[p] + unsure[p] = stored[p] + (h + b + q) + gone[p]
         /\ h + b = g + c + one
    BY <2>1, <2>3, <2>7, <2>8, <2>9
  <2>11. /\ Copies(p)' = g + c + r
         /\ \/ stored'[p] = stored[p] + one /\ unsure'[p] = unsure[p] /\ r = q
            \/ stored'[p] = stored[p] /\ unsure'[p] = unsure[p] /\ r = q + one
            \/ stored'[p] = stored[p] + one /\ unsure'[p] = unsure[p] + one /\ r = q + one
    BY <2>4, <2>9
  <2> HIDE DEF b, c, q, r
  <2>12. fetched[p] + unsure'[p] = stored'[p] + (g + c + r) + gone[p]
    <3>1. /\ h \in Nat /\ g \in Nat /\ b \in Nat /\ c \in Nat /\ q \in Nat /\ one \in Nat
          /\ fetched[p] \in Nat /\ stored[p] \in Nat /\ unsure[p] \in Nat /\ gone[p] \in Nat
      BY <2>10
    <3>2. /\ fetched[p] + unsure[p] = stored[p] + (h + b + q) + gone[p]
          /\ h + b = g + c + one
      BY <2>10
    <3>3. CASE stored'[p] = stored[p] + one /\ unsure'[p] = unsure[p] /\ r = q
      <4>1. stored'[p] + (g + c + r) + gone[p] = stored[p] + ((g + c + one) + q) + gone[p]
        BY <3>1, <3>3
      <4> QED BY <3>2, <3>3, <4>1
    <3>4. CASE stored'[p] = stored[p] /\ unsure'[p] = unsure[p] /\ r = q + one
      BY <3>1, <3>2, <3>4
    <3>5. CASE stored'[p] = stored[p] + one /\ unsure'[p] = unsure[p] + one /\ r = q + one
      <4>1. stored'[p] + (g + c + r) + gone[p] = stored[p] + ((g + c + one) + q) + gone[p] + one
        BY <3>1, <3>5
      <4>2. stored[p] + ((g + c + one) + q) + gone[p] + one = fetched[p] + unsure[p] + one
        BY <3>2
      <4>3. fetched[p] + unsure'[p] = fetched[p] + unsure[p] + one
        BY <3>1, <3>5
      <4> QED BY <4>1, <4>2, <4>3
    <3> QED BY <2>11, <3>3, <3>4, <3>5
  <2> QED BY <2>6, <2>11, <2>12
<1> QED BY <1>4, <1>5 DEF BridgeInv

LEMMA SendStep == ASSUME BridgeInv, NEW o \in Orders, SendOne(o) PROVE BridgeInv'
<1> DEFINE m == [order |-> o, attempts |-> 0]
<1>1. /\ phase = "sending" /\ phase' = phase /\ o \in hand /\ hand' = hand \ {o} /\ batch' = batch
      /\ (Answered(o) /\ UNCHANGED queue) \/ (Failed(o) /\ queue' = Append(queue, m))
      /\ UNCHANGED <<fetched, gone>>
  BY DEF SendOne, Enqueue
<1>2. m \in Messages /\ m.order = o
  BY SizesAssumption DEF Messages
<1> HIDE DEF m
<1>3. hand' \subseteq Orders /\ batch' \in Seq(Messages) /\ OnePollAtATime'
  BY <1>1 DEF BridgeInv, BridgeType, OnePollAtATime
<1>4. \A p \in Orders :
        (IF p \in hand THEN 1 ELSE 0) + Count(batch, p) =
          (IF p \in hand' THEN 1 ELSE 0) + Count(batch', p) + (IF p = o THEN 1 ELSE 0)
  <2> SUFFICES ASSUME NEW p \in Orders
               PROVE (IF p \in hand THEN 1 ELSE 0) + Count(batch, p) =
                       (IF p \in hand' THEN 1 ELSE 0) + Count(batch', p) + (IF p = o THEN 1 ELSE 0)
    OBVIOUS
  <2>1. Count(batch', p) = Count(batch, p) /\ Count(batch, p) \in Nat
    BY <1>1, CopiesAreCounted
  <2> QED BY <1>1, <2>1
<1> QED BY <1>1, <1>2, <1>3, <1>4, PostStep

LEMMA DrainStep == ASSUME BridgeInv, DrainOne PROVE BridgeInv'
<1> DEFINE msg == Head(batch)
           m == [msg EXCEPT !.attempts = Least(@ + 1, MaxAttempts)]
<1>1. /\ phase = "draining" /\ phase' = phase /\ batch # <<>> /\ batch' = Tail(batch) /\ hand' = hand
      /\ \/ Answered(msg.order) /\ UNCHANGED queue
         \/ Failed(msg.order) /\ queue' = Append(queue, m)
      /\ UNCHANGED <<fetched, gone>>
  BY DEF DrainOne, Requeue
<1>2. batch \in Seq(Messages) /\ hand = {}
  BY <1>1 DEF BridgeInv, BridgeType, OnePollAtATime
<1>3. /\ msg \in Messages /\ batch' \in Seq(Messages)
      /\ \A p : Count(batch, p) = Count(batch', p) + IF msg.order = p THEN 1 ELSE 0
  BY <1>1, <1>2, CountTail
<1> HIDE DEF msg
<1>4. m \in Messages /\ m.order = msg.order /\ msg.order \in Orders
  BY <1>3, SizesAssumption DEF Messages, Least
<1> HIDE DEF m
<1>5. hand' \subseteq Orders /\ OnePollAtATime'
  BY <1>1, <1>2 DEF OnePollAtATime
<1>6. \A p \in Orders :
        (IF p \in hand THEN 1 ELSE 0) + Count(batch, p) =
          (IF p \in hand' THEN 1 ELSE 0) + Count(batch', p) + (IF p = msg.order THEN 1 ELSE 0)
  <2> SUFFICES ASSUME NEW p \in Orders
               PROVE (IF p \in hand THEN 1 ELSE 0) + Count(batch, p) =
                       (IF p \in hand' THEN 1 ELSE 0) + Count(batch', p) + (IF p = msg.order THEN 1 ELSE 0)
    OBVIOUS
  <2>1. Count(batch', p) \in Nat
    BY <1>3, CountType
  <2> QED BY <1>1, <1>2, <1>3, <2>1
<1> DEFINE o == msg.order
<1>7. o \in Orders /\ m.order = o
  BY <1>4
<1>8. (Answered(o) /\ UNCHANGED queue) \/ (Failed(o) /\ queue' = Append(queue, m))
  BY <1>1
<1>9. \A p \in Orders :
        (IF p \in hand THEN 1 ELSE 0) + Count(batch, p) =
          (IF p \in hand' THEN 1 ELSE 0) + Count(batch', p) + (IF p = o THEN 1 ELSE 0)
  BY <1>6
<1> HIDE DEF o
<1> QED BY <1>1, <1>3, <1>4, <1>5, <1>7, <1>8, <1>9, PostStep

(* Dead letters leave the queue and go to whoever asked for them.            *)
LEMMA DeadLettersStep == ASSUME BridgeInv, DeadLetters PROVE BridgeInv'
<1>1. /\ queue' = Filtered(queue, DOMAIN queue \ Dead)
      /\ gone' = [o \in Orders |-> gone[o] + Count(Filtered(queue, Dead), o)]
      /\ phase = "waiting"
      /\ UNCHANGED <<phase, hand, batch, fetched, stored, unsure>>
  BY DEF DeadLetters
<1>2. queue \in Seq(Messages) /\ Dead \in SUBSET DOMAIN queue /\ DOMAIN queue \ Dead \in SUBSET DOMAIN queue
  BY DEF BridgeInv, BridgeType, Dead
<1>3. /\ queue' \in Seq(Messages) /\ Filtered(queue, Dead) \in Seq(Messages)
      /\ \A o : /\ Count(queue', o) \in Nat /\ Count(Filtered(queue, Dead), o) \in Nat
                /\ Count(queue, o) = Count(queue', o) + Count(Filtered(queue, Dead), o)
  <2>1. queue' \in Seq(Messages) /\ Filtered(queue, Dead) \in Seq(Messages)
    BY <1>1, <1>2, CountFiltered
  <2> QED BY <1>1, <1>2, <2>1, CountPartition, CountType
<1>4. BridgeType' /\ OnePollAtATime'
  BY <1>1, <1>3 DEF BridgeInv, BridgeType, OnePollAtATime
<1>5. Conservation'
  <2> SUFFICES ASSUME NEW o \in Orders
               PROVE  fetched'[o] + unsure'[o] = stored'[o] + Copies(o)' + gone'[o]
    BY DEF Conservation
  <2>1. Copies(o)' = (IF o \in hand THEN 1 ELSE 0) + Count(batch, o) + Count(queue', o)
    BY <1>1 DEF Copies
  <2>2. gone'[o] = gone[o] + Count(Filtered(queue, Dead), o)
    BY <1>1
  <2> DEFINE h == IF o \in hand THEN 1 ELSE 0
             d == Count(Filtered(queue, Dead), o)
  <2>3. /\ fetched[o] + unsure[o] = stored[o] + (h + Count(batch, o) + Count(queue, o)) + gone[o]
        /\ {fetched[o], unsure[o], stored[o], gone[o], h, d,
             Count(batch, o), Count(queue, o), Count(queue', o)} \subseteq Nat
        /\ Count(queue, o) = Count(queue', o) + d
    BY <1>3, CopiesAreCounted
  <2>4. Copies(o)' = h + Count(batch, o) + Count(queue', o) /\ gone'[o] = gone[o] + d
    BY <2>1, <2>2
  <2> HIDE DEF h, d
  <2>5. fetched[o] + unsure[o] = stored[o] + (h + Count(batch, o) + Count(queue', o)) + (gone[o] + d)
    BY <2>3
  <2> QED BY <1>1, <2>4, <2>5
<1> QED BY <1>4, <1>5 DEF BridgeInv

LEMMA ExitStep == ASSUME BridgeInv, Exit PROVE BridgeInv'
<1>1. /\ phase' = "down" /\ hand' = {} /\ batch' = <<>> /\ queue' = <<>>
      /\ gone' = [o \in Orders |-> gone[o] + Copies(o)]
      /\ UNCHANGED <<fetched, stored, unsure>>
  BY DEF Exit
<1>2. \A o \in Orders : Copies(o) \in Nat
  BY CopiesAreCounted
<1>3. BridgeType' /\ OnePollAtATime'
  BY <1>1, <1>2 DEF BridgeInv, BridgeType, OnePollAtATime
<1>4. Conservation'
  <2> SUFFICES ASSUME NEW o \in Orders
               PROVE  fetched'[o] + unsure'[o] = stored'[o] + Copies(o)' + gone'[o]
    BY DEF Conservation
  <2>1. Copies(o)' = 0
    BY <1>1, CountEmpty DEF Copies
  <2> QED BY <1>1, <1>2, <2>1, CopiesAreCounted
<1> QED BY <1>3, <1>4 DEF BridgeInv

LEMMA BridgeStep == BridgeInv /\ [Next]_vars => BridgeInv'
<1> SUFFICES ASSUME BridgeInv, [Next]_vars PROVE BridgeInv'
  OBVIOUS
<1>1. ASSUME NEW S \in SUBSET Orders, Fetch(S) PROVE BridgeInv'
  BY <1>1, FetchStep
<1>2. CASE Dequeue
  BY <1>2, DequeueStep
<1>3. ASSUME NEW o \in Orders, SendOne(o) PROVE BridgeInv'
  BY <1>3, SendStep
<1>4. CASE DrainOne
  BY <1>4, DrainStep
<1>5. CASE DeadLetters
  BY <1>5, DeadLettersStep
<1>6. CASE Exit
  BY <1>6, ExitStep
<1>7. CASE Start \/ FetchFails \/ EndPoll \/ UNCHANGED vars
  <2>1. UNCHANGED <<hand, batch, queue, fetched, stored, unsure, gone>>
    BY <1>7 DEF Start, FetchFails, EndPoll, vars, memory, history
  <2>2. phase' = phase \/ (phase' = "waiting" /\ hand = {} /\ batch = <<>>)
    BY <1>7 DEF Start, FetchFails, EndPoll, vars, memory, BridgeInv, OnePollAtATime
  <2>3. BridgeType' /\ OnePollAtATime'
    BY <2>1, <2>2 DEF BridgeInv, BridgeType, OnePollAtATime
  <2>4. Conservation'
    BY <2>1 DEF BridgeInv, Conservation, Copies
  <2> QED BY <2>3, <2>4 DEF BridgeInv
<1> QED BY <1>1, <1>2, <1>3, <1>4, <1>5, <1>6, <1>7 DEF Next, Poll, Post

LEMMA BridgeInvariant == Spec => []BridgeInv
BY BridgeInit, BridgeStep, PTL DEF Spec

(* The accounts balance for any orders, sizes of batches and queues, lost    *)
(* answers, dead letters and exits.                                          *)
THEOREM OrdersAreConserved == Spec => []Conservation
<1>1. BridgeInv => Conservation
  BY DEF BridgeInv
<1> QED BY <1>1, BridgeInvariant, PTL

(* The API has an order more often than the ERP gave it only when answers    *)
(* were lost after it was stored.                                            *)
THEOREM DuplicatesAreLostAnswers ==
  Spec => [](\A o \in Orders : stored[o] <= fetched[o] + unsure[o])
<1>1. BridgeInv => \A o \in Orders : stored[o] <= fetched[o] + unsure[o]
  <2> SUFFICES ASSUME BridgeInv, NEW o \in Orders PROVE stored[o] <= fetched[o] + unsure[o]
    OBVIOUS
  <2>1. Copies(o) \in Nat
    BY CopiesAreCounted
  <2> QED BY <2>1, CopiesAreCounted
<1> QED BY <1>1, BridgeInvariant, PTL
=============================================================================
