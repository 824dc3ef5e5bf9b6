-------------------------- MODULE OutboxPollerProofs --------------------------
(***************************************************************************)
(* What polls do to events for any number of events, polls, processes and  *)
(* faults: none is processed without effect, and each fault costs an event *)
(* one redelivery at most.                                                 *)
(***************************************************************************)
EXTENDS OutboxPoller, FiniteSetTheorems, WellFoundedInduction, TLAPS

(* A row has one lock, and no poll has the lock of a processed row.          *)
Exclusive ==
  /\ \A p \in Polls : held[p] \cap processed = {}
  /\ \A p, q \in Polls : p # q => held[p] \cap held[q] = {}

(* The handler has been called on an event of p, and took effect.            *)
HasMarked(p, e) == e \in marks[p] \/ (pc[p] = "mark" /\ e = Current(p))

Effects ==
  /\ ProcessedTookEffect
  /\ \A p \in Polls, e \in Events : HasMarked(p, e) => dispatched[e] > 0

(* An event took effect in a transaction that has committed or still can.    *)
Done(e) == e \in processed \/ \E p \in Polls : tx[p] = "open" /\ HasMarked(p, e)

(* The transaction of a poll is gone and the poll goes on. *)
Dead(p) == tx[p] \in {"aborted", "lost"}

(* The polls without a transaction that will call the handler on e again.    *)
Doomed(e) == { p \in Polls : Dead(p) /\ e \in batch[p] /\ ~HasMarked(p, e) }

Owed(e) == IF Done(e) THEN 1 ELSE 0

(* Every effect of an event is that of its live transaction, or is paid for  *)
(* by a fault; so is every effect that doomed polls will still have.         *)
Budget == \A e \in Events : dispatched[e] + Cardinality(Doomed(e)) <= faults + Owed(e)

PollInv == TypeOK /\ Exclusive /\ Effects /\ Budget

-----------------------------------------------------------------------------
LEMMA OldestIsIn ==
  ASSUME NEW S \in SUBSET Nat, S # {}
  PROVE  Oldest(S) \in S
<1> DEFINE below == { 0 .. e : e \in S }
<1>1. IsWellFoundedOn(StrictSubsetOrdering(Nat), FiniteSubsetsOf(Nat))
  BY FS_StrictSubsetOrderingWellFounded
<1>2. below \subseteq FiniteSubsetsOf(Nat) /\ below # {}
  <2>1. \A e \in S : e \in Int /\ 0 \in Int /\ 0 .. e \in SUBSET Nat
    OBVIOUS
  <2>2. \A e \in S : IsFiniteSet(0 .. e)
    BY <2>1, FS_Interval
  <2> QED BY <2>1, <2>2 DEF FiniteSubsetsOf
<1>3. \E x \in below : \A y \in below : ~(<<y, x>> \in StrictSubsetOrdering(Nat))
  <2> HIDE DEF below
  <2> QED BY <1>1, <1>2, WFMin
<1>4. PICK e \in S : \A f \in S : ~(<<0 .. f, 0 .. e>> \in StrictSubsetOrdering(Nat))
  BY <1>3
<1>5. \A f \in S : e <= f
  <2> SUFFICES ASSUME NEW f \in S, f < e PROVE FALSE
    OBVIOUS
  <2>1. 0 .. f \in SUBSET Nat /\ 0 .. e \in SUBSET Nat /\ 0 .. f \subseteq 0 .. e
    OBVIOUS
  <2>2. e \in 0 .. e /\ e \notin 0 .. f
    OBVIOUS
  <2> QED BY <1>4, <2>1, <2>2 DEF StrictSubsetOrdering
<1> QED BY <1>5 DEF Oldest

LEMMA CurrentIsInBatch ==
  ASSUME TypeOK, NEW p \in Polls, batch[p] # {}
  PROVE  Current(p) \in batch[p]
<1>1. batch[p] \in SUBSET Nat
  BY EventsAssumption DEF TypeOK
<1> QED BY <1>1, OldestIsIn DEF Current

LEMMA DoomedFinite ==
  ASSUME NEW e
  PROVE  IsFiniteSet(Doomed(e)) /\ Cardinality(Doomed(e)) \in Nat
<1>1. Doomed(e) \in SUBSET Polls
  BY DEF Doomed, Dead
<1> QED BY <1>1, ProcessesAssumption, FS_Subset, FS_CardinalityType

(* A step that leaves no new doomed poll and pays for what it takes from     *)
(* Done keeps the budget.                                                    *)
LEMMA BudgetKept ==
  ASSUME PollInv, NEW e \in Events,
         dispatched'[e] \in Nat, faults' \in Nat,
         Doomed(e)' \subseteq Doomed(e),
         dispatched'[e] + faults + Owed(e) <= dispatched[e] + faults' + Owed(e)'
  PROVE  dispatched'[e] + Cardinality(Doomed(e)') <= faults' + Owed(e)'
<1>1. IsFiniteSet(Doomed(e)) /\ Cardinality(Doomed(e)) \in Nat
  BY DoomedFinite
<1>2. /\ Cardinality(Doomed(e)') \in Nat /\ Cardinality(Doomed(e)') <= Cardinality(Doomed(e))
  BY <1>1, FS_Subset, FS_CardinalityType
<1>3. dispatched[e] + Cardinality(Doomed(e)) <= faults + Owed(e)
  BY DEF PollInv, Budget
<1>4. /\ dispatched[e] \in Nat /\ faults \in Nat /\ Owed(e) \in Nat /\ Owed(e)' \in Nat
  BY DEF PollInv, TypeOK, Owed
<1> QED BY <1>1, <1>2, <1>3, <1>4

LEMMA PollInit == Init => PollInv
<1> SUFFICES ASSUME Init PROVE PollInv
  OBVIOUS
<1>1. TypeOK /\ Exclusive /\ Effects
  BY MaxFaultsAssumption DEF Init, TypeOK, Exclusive, Effects, ProcessedTookEffect, HasMarked
<1>2. \A e \in Events : Doomed(e) = {} /\ Owed(e) \in Nat
  BY DEF Init, Doomed, Dead, Owed
<1>3. Budget
  BY <1>2, FS_EmptySet DEF Init, Budget
<1> QED BY <1>1, <1>3 DEF PollInv

-----------------------------------------------------------------------------
(* Steps of the services and of the timers leave polls alone.                *)
LEMMA OutsideStep ==
  ASSUME PollInv, TypeOK',
         UNCHANGED <<processed, dispatched, poll, faults>>
  PROVE  PollInv'
<1>1. (Exclusive /\ Effects)'
  BY DEF PollInv, Exclusive, Effects, ProcessedTookEffect, HasMarked, Current, poll
<1>2. \A e \in Events : Doomed(e)' = Doomed(e) /\ Owed(e)' = Owed(e)
  BY DEF Doomed, Dead, Owed, Done, HasMarked, Current, poll
<1>3. Budget'
  BY <1>2 DEF PollInv, Budget
<1> QED BY <1>1, <1>3 DEF PollInv

LEMMA InsertStep == ASSUME PollInv, NEW e \in Events, Insert(e) PROVE PollInv'
<1>1. TypeOK'
  BY DEF PollInv, TypeOK, Insert, poll
<1> QED BY <1>1, OutsideStep DEF Insert

LEMMA StartStopStep == ASSUME PollInv, NEW P \in Processes, StartStop(P) PROVE PollInv'
<1>1. TypeOK'
  BY DEF PollInv, TypeOK, StartStop, poll
<1> QED BY <1>1, OutsideStep DEF StartStop

(* SKIP LOCKED: the rows of a new poll are nobody else's and not processed.  *)
LEMMA TickStep == ASSUME PollInv, NEW p \in Polls, Tick(p) PROVE PollInv'
<1> DEFINE rows == First(Limit, Available)
<1>1. /\ rows \subseteq inserted \ processed
      /\ \A q \in Polls : rows \cap held[q] = {}
  BY DEF First, Available, Locked
<1>2. /\ pc[p] = "idle" /\ pc' = [pc EXCEPT ![p] = "loop"]
      /\ batch' = [batch EXCEPT ![p] = rows] /\ held' = [held EXCEPT ![p] = rows]
      /\ tx' = [tx EXCEPT ![p] = "open"]
      /\ UNCHANGED <<inserted, processed, dispatched, timer, marks, faults>>
  BY DEF Tick
<1> HIDE DEF rows
<1>3. tx[p] = "none" /\ marks[p] = {}
  BY <1>2 DEF PollInv, TypeOK
<1>4. TypeOK'
  BY <1>1, <1>2, <1>3 DEF PollInv, TypeOK
<1>5. Exclusive'
  BY <1>1, <1>2 DEF PollInv, TypeOK, Exclusive
<1>6. \A q \in Polls, e \in Events :
        /\ HasMarked(q, e)' => HasMarked(q, e)
        /\ q # p => (HasMarked(q, e)' <=> HasMarked(q, e)) /\ tx'[q] = tx[q] /\ batch'[q] = batch[q]
        /\ ~HasMarked(p, e)
  BY <1>2, <1>3 DEF PollInv, TypeOK, HasMarked, Current
<1>7. Effects'
  BY <1>2, <1>6 DEF PollInv, Effects, ProcessedTookEffect
<1>8. ASSUME NEW e \in Events
      PROVE  Doomed(e)' = Doomed(e) /\ Owed(e)' = Owed(e)
  BY <1>2, <1>3, <1>6 DEF PollInv, TypeOK, Doomed, Dead, Owed, Done
<1>9. Budget'
  BY <1>2, <1>8 DEF PollInv, Budget
<1> QED BY <1>4, <1>5, <1>7, <1>9 DEF PollInv

(* While a poll calls the handler on an event of its open transaction, the   *)
(* event is not done: nobody else can have it.                               *)
LEMMA OpenIsNotDone ==
  ASSUME PollInv, NEW p \in Polls, tx[p] = "open", pc[p] = "loop",
         NEW e \in batch[p]
  PROVE  ~Done(e)
<1>1. e \in held[p] /\ e \notin marks[p] /\ e \notin processed
  BY DEF PollInv, TypeOK, Exclusive
<1>2. ASSUME NEW q \in Polls, tx[q] = "open", HasMarked(q, e)
      PROVE  FALSE
  <2>1. e \in held[q]
    <3>1. CASE e \in marks[q]
      BY <1>2, <3>1 DEF PollInv, TypeOK
    <3>2. CASE pc[q] = "mark" /\ e = Current(q)
      <4>1. batch[q] # {}
        BY <3>2 DEF PollInv, TypeOK
      <4> QED BY <1>2, <3>2, <4>1, CurrentIsInBatch DEF PollInv, TypeOK
    <3> QED BY <1>2, <3>1, <3>2 DEF HasMarked
  <2>2. q = p
    BY <1>1, <2>1 DEF PollInv, Exclusive
  <2> QED BY <1>1, <1>2, <2>2 DEF HasMarked
<1> QED BY <1>1, <1>2 DEF Done

LEMMA DispatchStep == ASSUME PollInv, NEW p \in Polls, Dispatch(p) PROVE PollInv'
<1> DEFINE c == Current(p)
<1>1. /\ pc[p] = "loop" /\ batch[p] # {} /\ pc' = [pc EXCEPT ![p] = "mark"]
      /\ dispatched' = [dispatched EXCEPT ![c] = @ + 1]
      /\ UNCHANGED <<inserted, processed, timer, batch, held, marks, tx, faults>>
  BY DEF Dispatch, Handling, Count
<1>2. c \in batch[p] /\ c \in Events
  BY <1>1, CurrentIsInBatch DEF PollInv, TypeOK
<1>3. \A q \in Polls : Current(q)' = Current(q)
  BY <1>1 DEF Current
<1>4. /\ dispatched \in [Events -> Nat] /\ dispatched' \in [Events -> Nat]
      /\ dispatched'[c] = dispatched[c] + 1
      /\ \A e \in Events \ {c} : dispatched'[e] = dispatched[e]
  BY <1>1, <1>2 DEF PollInv, TypeOK
<1>5. TypeOK'
  BY <1>1, <1>4 DEF PollInv, TypeOK
<1>6. Exclusive'
  BY <1>1 DEF PollInv, Exclusive
<1>7. \A q \in Polls, e \in Events :
        HasMarked(q, e)' <=> HasMarked(q, e) \/ (q = p /\ e = c)
  BY <1>1, <1>3 DEF PollInv, TypeOK, HasMarked
<1> HIDE DEF c
<1>8. \A e \in Events : dispatched'[e] >= dispatched[e]
  BY <1>4
<1>9. Effects'
  <2>1. ProcessedTookEffect'
    BY <1>1, <1>4, <1>8 DEF PollInv, TypeOK, Effects, ProcessedTookEffect
  <2>2. ASSUME NEW q \in Polls, NEW e \in Events, HasMarked(q, e)'
        PROVE  dispatched'[e] > 0
    BY <1>2, <1>4, <1>7, <1>8, <2>2 DEF PollInv, Effects
  <2> QED BY <2>1, <2>2 DEF Effects
<1>10. ASSUME NEW e \in Events
       PROVE  dispatched'[e] + Cardinality(Doomed(e)') <= faults' + Owed(e)'
  <2>1. /\ faults \in Nat /\ faults' = faults /\ dispatched[e] \in Nat /\ dispatched'[e] \in Nat
        /\ Owed(e) \in {0, 1} /\ Owed(e)' \in {0, 1}
    BY <1>1, <1>4 DEF PollInv, TypeOK, Owed
  <2>2. Doomed(e)' \subseteq Doomed(e)
    BY <1>1, <1>7 DEF Doomed, Dead
  <2>3. CASE e # c
    <3>1. Owed(e)' = Owed(e)
      BY <1>1, <1>7, <2>3 DEF Owed, Done
    <3> QED BY <1>4, <2>1, <2>2, <2>3, <3>1, BudgetKept
  <2>4. CASE e = c /\ tx[p] = "open"
    <3>1. Owed(e) = 0 /\ Owed(e)' = 1
      BY <1>1, <1>2, <1>7, <2>4, OpenIsNotDone DEF Owed, Done
    <3> QED BY <1>4, <2>1, <2>2, <2>4, <3>1, BudgetKept
  <2>5. CASE e = c /\ tx[p] # "open"
    <3>1. Owed(e)' = Owed(e)
      BY <1>1, <1>7, <2>5 DEF Owed, Done
    <3>2. Dead(p)
      BY <1>1, <2>5 DEF PollInv, TypeOK, Dead
    <3>3. p \in Doomed(e)
      BY <1>1, <1>2, <2>5, <3>2 DEF PollInv, TypeOK, Doomed, Dead, HasMarked
    <3>4. Doomed(e)' = Doomed(e) \ {p}
      BY <1>1, <1>7, <2>5 DEF Doomed, Dead
    <3>5. /\ Cardinality(Doomed(e)') = Cardinality(Doomed(e)) - 1
          /\ Cardinality(Doomed(e)) \in Nat
      BY <3>3, <3>4, DoomedFinite, FS_RemoveElement
    <3>6. dispatched[e] + Cardinality(Doomed(e)) <= faults + Owed(e)
      BY DEF PollInv, Budget
    <3> QED BY <1>4, <2>1, <2>5, <3>1, <3>5, <3>6
  <2> QED BY <2>3, <2>4, <2>5
<1>11. Budget'
  BY <1>10 DEF Budget
<1> QED BY <1>5, <1>6, <1>9, <1>11 DEF PollInv

(* An event whose handler rejects, now or by a fault, is skipped.            *)
LEMMA SkipStep ==
  ASSUME PollInv, NEW p \in Polls, Handling(p), NextEvent(p),
         faults' \in 0 .. MaxFaults,
         dispatched' \in [Events -> Nat],
         \A e \in Events : /\ dispatched'[e] >= dispatched[e]
                           /\ dispatched'[e] - dispatched[e] <= faults' - faults,
         UNCHANGED <<inserted, processed, timer, pc, held, marks, tx>>
  PROVE  PollInv'
<1> DEFINE c == Current(p)
<1>1. pc[p] = "loop" /\ batch[p] # {} /\ batch' = [batch EXCEPT ![p] = @ \ {c}]
  BY DEF Handling, NextEvent
<1>2. c \in batch[p]
  BY <1>1, CurrentIsInBatch DEF PollInv
<1> HIDE DEF c
<1>3. TypeOK'
  <2>1. batch' \in [Polls -> SUBSET inserted]
    BY <1>1 DEF PollInv, TypeOK
  <2>2. \A q \in Polls : batch'[q] \subseteq batch[q] /\ (q # p => batch'[q] = batch[q])
    BY <1>1 DEF PollInv, TypeOK
  <2> QED BY <1>1, <2>1, <2>2 DEF PollInv, TypeOK
<1>4. Exclusive'
  BY DEF PollInv, Exclusive
<1>5. \A q \in Polls, e \in Events : HasMarked(q, e)' <=> HasMarked(q, e)
  BY <1>1 DEF PollInv, TypeOK, HasMarked, Current
<1>6. Effects'
  <2>1. \A e \in Events : dispatched[e] \in Nat /\ dispatched'[e] \in Nat
    BY DEF PollInv, TypeOK
  <2> QED BY <1>5, <2>1 DEF PollInv, TypeOK, Effects, ProcessedTookEffect
<1>7. ASSUME NEW e \in Events
      PROVE  dispatched'[e] + Cardinality(Doomed(e)') <= faults' + Owed(e)'
  <2>1. Doomed(e)' \subseteq Doomed(e)
    BY <1>1, <1>5 DEF PollInv, TypeOK, Doomed, Dead
  <2>2. Owed(e)' = Owed(e) /\ Owed(e) \in {0, 1}
    BY <1>5 DEF Owed, Done
  <2>3. /\ faults \in Nat /\ faults' \in Nat /\ dispatched[e] \in Nat /\ dispatched'[e] \in Nat
    BY DEF PollInv, TypeOK
  <2>4. dispatched'[e] + faults + Owed(e) <= dispatched[e] + faults' + Owed(e)'
    BY <2>2, <2>3
  <2> QED BY <2>1, <2>3, <2>4, BudgetKept
<1>8. Budget'
  BY <1>7 DEF Budget
<1> QED BY <1>3, <1>4, <1>6, <1>8 DEF PollInv

LEMMA RejectStep == ASSUME PollInv, NEW p \in Polls, Reject(p) PROVE PollInv'
<1>1. /\ faults' = faults /\ faults \in 0 .. MaxFaults
      /\ dispatched' = dispatched /\ dispatched \in [Events -> Nat]
  BY DEF Reject, PollInv, TypeOK
<1>2. \A e \in Events : /\ dispatched'[e] >= dispatched[e]
                        /\ dispatched'[e] - dispatched[e] <= faults' - faults
  BY <1>1
<1> QED BY <1>1, <1>2, SkipStep DEF Reject

LEMMA HandlerFaultStep == ASSUME PollInv, NEW p \in Polls, HandlerFault(p) PROVE PollInv'
<1>1. /\ faults \in 0 .. MaxFaults /\ faults < MaxFaults /\ faults' = faults + 1
      /\ dispatched \in [Events -> Nat] /\ MaxFaults \in Nat
  BY MaxFaultsAssumption DEF HandlerFault, Fault, PollInv, TypeOK
<1>2. Count(Current(p)) \/ dispatched' = dispatched
  BY DEF HandlerFault
<1>3. /\ dispatched' \in [Events -> Nat]
      /\ \A e \in Events : dispatched'[e] \in {dispatched[e], dispatched[e] + 1}
  BY <1>1, <1>2 DEF Count
<1>4. \A e \in Events : /\ dispatched'[e] >= dispatched[e]
                        /\ dispatched'[e] - dispatched[e] <= faults' - faults
  BY <1>1, <1>3
<1> QED BY <1>1, <1>3, <1>4, SkipStep DEF HandlerFault

LEMMA MarkStep == ASSUME PollInv, NEW p \in Polls, Mark(p) PROVE PollInv'
<1> DEFINE c == Current(p)
<1>1. /\ pc[p] = "mark" /\ pc' = [pc EXCEPT ![p] = "loop"]
      /\ marks' = IF tx[p] = "open" THEN [marks EXCEPT ![p] = @ \cup {c}] ELSE marks
      /\ batch' = [batch EXCEPT ![p] = @ \ {c}]
      /\ UNCHANGED <<inserted, processed, dispatched, timer, held, tx, faults>>
  BY DEF Mark, NextEvent
<1>2. c \in batch[p]
  BY <1>1, CurrentIsInBatch DEF PollInv, TypeOK
<1>3. HasMarked(p, c)
  BY <1>1 DEF HasMarked
<1>4. /\ \A q \in Polls \ {p} : /\ batch'[q] = batch[q] /\ marks'[q] = marks[q] /\ pc'[q] = pc[q]
                                /\ Current(q)' = Current(q)
      /\ batch'[p] = batch[p] \ {c} /\ pc'[p] = "loop"
      /\ marks'[p] = IF tx[p] = "open" THEN marks[p] \cup {c} ELSE marks[p]
  BY <1>1 DEF PollInv, TypeOK, Current
<1>5. /\ \A q \in Polls \ {p}, e \in Events : HasMarked(q, e)' <=> HasMarked(q, e)
      /\ \A e \in Events : HasMarked(p, e)' <=> HasMarked(p, e) /\ (e # c \/ tx[p] = "open")
  <2>1. \A q \in Polls \ {p}, e \in Events : HasMarked(q, e)' <=> HasMarked(q, e)
    BY <1>4 DEF HasMarked
  <2>2. \A e \in Events : HasMarked(p, e) <=> e \in marks[p] \/ e = c
    BY <1>1 DEF HasMarked
  <2>3. \A e \in Events : HasMarked(p, e)' <=> e \in marks'[p]
    BY <1>4 DEF HasMarked
  <2>4. tx[p] # "open" => marks[p] = {}
    BY DEF PollInv, TypeOK
  <2> QED BY <1>4, <2>1, <2>2, <2>3, <2>4
<1> HIDE DEF c
<1>6. TypeOK'
  <2>1. /\ batch' \in [Polls -> SUBSET inserted] /\ marks' \in [Polls -> SUBSET inserted]
        /\ pc' \in [Polls -> {"idle", "loop", "mark"}]
    BY <1>1, <1>2 DEF PollInv, TypeOK
  <2>2. ASSUME NEW q \in Polls
        PROVE  /\ tx'[q] = "open" => batch'[q] \subseteq held'[q] /\ marks'[q] \subseteq held'[q] \ batch'[q]
               /\ tx'[q] # "open" => held'[q] = {} /\ marks'[q] = {}
               /\ pc'[q] = "idle" <=> tx'[q] = "none"
               /\ pc'[q] = "idle" => batch'[q] = {}
               /\ pc'[q] = "mark" => batch'[q] # {}
    <3>1. CASE q = p
      BY <1>1, <1>2, <1>4, <3>1 DEF PollInv, TypeOK
    <3>2. CASE q # p
      BY <1>1, <1>4, <3>2 DEF PollInv, TypeOK
    <3> QED BY <3>1, <3>2
  <2> QED BY <1>1, <2>1, <2>2 DEF PollInv, TypeOK
<1>7. (Exclusive /\ Effects)'
  BY <1>1, <1>5 DEF PollInv, Exclusive, Effects, ProcessedTookEffect
<1>8. ASSUME NEW e \in Events
      PROVE  Doomed(e)' \subseteq Doomed(e) /\ Owed(e)' = Owed(e)
  <2>1. Doomed(e)' \subseteq Doomed(e)
    BY <1>1, <1>4, <1>5 DEF Doomed, Dead
  <2>2. Done(e)' <=> Done(e)
    BY <1>1, <1>5 DEF Done
  <2> QED BY <2>1, <2>2 DEF Owed
<1>9. Budget'
  <2>1. ASSUME NEW e \in Events
        PROVE  dispatched'[e] + Cardinality(Doomed(e)') <= faults' + Owed(e)'
    <3>1. /\ faults \in Nat /\ dispatched[e] \in Nat /\ Owed(e) \in {0, 1}
          /\ faults' = faults /\ dispatched'[e] = dispatched[e]
      BY <1>1 DEF PollInv, TypeOK, Owed
    <3> QED BY <1>8, <3>1, BudgetKept
  <2> QED BY <2>1 DEF Budget
<1> QED BY <1>6, <1>7, <1>9 DEF PollInv

(* COMMIT processes what the poll marked; a doomed one has no marks.         *)
LEMMA CommitStep == ASSUME PollInv, NEW p \in Polls, Commit(p) PROVE PollInv'
<1>1. /\ pc[p] = "loop" /\ batch[p] = {} /\ processed' = processed \cup marks[p]
      /\ pc' = [pc EXCEPT ![p] = "idle"] /\ held' = [held EXCEPT ![p] = {}]
      /\ marks' = [marks EXCEPT ![p] = {}] /\ tx' = [tx EXCEPT ![p] = "none"]
      /\ UNCHANGED <<inserted, dispatched, timer, batch, faults>>
  BY DEF Commit
<1>2. /\ marks[p] \subseteq held[p] /\ marks[p] \subseteq inserted
      /\ tx[p] # "open" => marks[p] = {}
  BY DEF PollInv, TypeOK
<1>3. TypeOK'
  BY <1>1, <1>2 DEF PollInv, TypeOK
<1>4. Exclusive'
  BY <1>1, <1>2 DEF PollInv, TypeOK, Exclusive
<1>5. /\ \A q \in Polls \ {p}, e \in Events : HasMarked(q, e)' <=> HasMarked(q, e)
      /\ \A e \in Events : ~HasMarked(p, e)'
      /\ \A e \in Events : HasMarked(p, e) <=> e \in marks[p]
  BY <1>1 DEF PollInv, TypeOK, HasMarked, Current
<1>6. Effects'
  <2>1. \A e \in marks[p] : e \in Events /\ dispatched[e] > 0
    BY <1>2, <1>5 DEF PollInv, TypeOK, Effects
  <2> QED BY <1>1, <1>5, <2>1 DEF PollInv, Effects, ProcessedTookEffect
<1>7. ASSUME NEW e \in Events
      PROVE  Doomed(e)' \subseteq Doomed(e) /\ Owed(e)' = Owed(e)
  <2>1. \A q \in Polls \ {p} : tx'[q] = tx[q]
    BY <1>1 DEF PollInv, TypeOK
  <2>2. tx'[p] = "none"
    BY <1>1 DEF PollInv, TypeOK
  <2>3. Doomed(e)' \subseteq Doomed(e)
    BY <1>1, <1>5, <2>1, <2>2 DEF Doomed, Dead
  <2>4. Done(e)' <=> Done(e)
    <3>1. \A q \in Polls : tx'[q] = "open" /\ HasMarked(q, e)' <=> q # p /\ tx[q] = "open" /\ HasMarked(q, e)
      BY <1>5, <2>1, <2>2
    <3>2. e \in processed' <=> e \in processed \/ (tx[p] = "open" /\ HasMarked(p, e))
      BY <1>1, <1>2, <1>5
    <3> QED BY <3>1, <3>2 DEF Done
  <2> QED BY <2>3, <2>4 DEF Owed
<1>8. Budget'
  <2>1. ASSUME NEW e \in Events
        PROVE  dispatched'[e] + Cardinality(Doomed(e)') <= faults' + Owed(e)'
    <3>1. /\ faults \in Nat /\ dispatched[e] \in Nat /\ Owed(e) \in {0, 1}
          /\ faults' = faults /\ dispatched'[e] = dispatched[e]
      BY <1>1 DEF PollInv, TypeOK, Owed
    <3> QED BY <1>7, <3>1, BudgetKept
  <2> QED BY <2>1 DEF Budget
<1> QED BY <1>3, <1>4, <1>6, <1>8 DEF PollInv

(* A poll that loses its transaction was the one that had done an event, or  *)
(* becomes one that will do it again: the fault pays for one of the two.     *)
LEMMA TransactionGone ==
  ASSUME PollInv, TypeOK', NEW p \in Polls,
         tx[p] = "open", Dead(p)', held'[p] = {}, batch'[p] \subseteq batch[p],
         faults' = faults + 1,
         UNCHANGED <<processed, dispatched>>,
         \A q \in Polls \ {p} : /\ tx'[q] = tx[q] /\ batch'[q] = batch[q] /\ held'[q] = held[q]
                               /\ \A e \in Events : HasMarked(q, e)' <=> HasMarked(q, e),
         \A q \in Polls, e \in Events : HasMarked(q, e)' => HasMarked(q, e),
         \A e \in Events : HasMarked(p, e) => e \notin batch'[p] \/ HasMarked(p, e)'
  PROVE  PollInv'
<1>1. Exclusive'
  BY DEF PollInv, Exclusive
<1>2. Effects'
  <2>2. ProcessedTookEffect'
    BY DEF PollInv, Effects, ProcessedTookEffect
  <2>3. \A q \in Polls, e \in Events : HasMarked(q, e)' => dispatched'[e] > 0
    BY DEF PollInv, Effects
  <2> QED BY <2>2, <2>3 DEF Effects
<1>3. tx'[p] # "open"
  BY DEF Dead
<1>4. ASSUME NEW e \in Events
      PROVE  dispatched'[e] + Cardinality(Doomed(e)') <= faults' + Owed(e)'
  <2>1. /\ faults \in Nat /\ faults' \in Nat /\ dispatched[e] \in Nat /\ dispatched'[e] = dispatched[e]
        /\ Owed(e) \in {0, 1} /\ Owed(e)' \in {0, 1}
    BY DEF PollInv, TypeOK, Owed
  <2>2. CASE HasMarked(p, e)
    <3>1. Doomed(e)' \subseteq Doomed(e)
      BY <2>2 DEF Doomed, Dead
    <3> QED BY <2>1, <3>1, BudgetKept
  <2>3. CASE ~HasMarked(p, e)
    <3>1. Owed(e)' = Owed(e)
      <4>1. \A q \in Polls : (tx[q] = "open" /\ HasMarked(q, e))' <=> tx[q] = "open" /\ HasMarked(q, e)
        BY <1>3, <2>3
      <4>2. Done(e)' <=> Done(e)
        BY <4>1 DEF Done
      <4> QED BY <4>2 DEF Owed
    <3>2. Doomed(e)' \in SUBSET (Doomed(e) \cup {p})
      BY DEF Doomed, Dead
    <3>3. IsFiniteSet(Doomed(e)) /\ Cardinality(Doomed(e)) \in Nat
      BY DoomedFinite
    <3>4. /\ IsFiniteSet(Doomed(e) \cup {p})
          /\ Cardinality(Doomed(e) \cup {p}) <= Cardinality(Doomed(e)) + 1
          /\ Cardinality(Doomed(e) \cup {p}) \in Nat
      <4>1. /\ IsFiniteSet(Doomed(e) \cup {p})
            /\ \/ Cardinality(Doomed(e) \cup {p}) = Cardinality(Doomed(e))
               \/ Cardinality(Doomed(e) \cup {p}) = Cardinality(Doomed(e)) + 1
        <5> DEFINE D == Doomed(e)
        <5>1. IsFiniteSet(D)
          BY <3>3
        <5> HIDE DEF D
        <5>2. /\ IsFiniteSet(D \cup {p})
              /\ \/ Cardinality(D \cup {p}) = Cardinality(D)
                 \/ Cardinality(D \cup {p}) = Cardinality(D) + 1
          BY <5>1, FS_AddElement
        <5> QED BY <5>2 DEF D
      <4> QED BY <3>3, <4>1
    <3>5. /\ Cardinality(Doomed(e)') <= Cardinality(Doomed(e) \cup {p})
          /\ Cardinality(Doomed(e)') \in Nat
      BY <3>2, <3>4, FS_Subset, FS_CardinalityType
    <3>6. dispatched[e] + Cardinality(Doomed(e)) <= faults + Owed(e)
      BY DEF PollInv, Budget
    <3> QED BY <2>1, <3>1, <3>3, <3>4, <3>5, <3>6
  <2> QED BY <2>2, <2>3
<1>5. Budget'
  BY <1>4 DEF Budget
<1> QED BY <1>1, <1>2, <1>5 DEF PollInv

LEMMA LoseTransactionStep == ASSUME PollInv, NEW p \in Polls, LoseTransaction(p) PROVE PollInv'
<1>1. /\ tx[p] = "open" /\ faults < MaxFaults /\ faults' = faults + 1
      /\ tx' = [tx EXCEPT ![p] = "lost"] /\ held' = [held EXCEPT ![p] = {}]
      /\ marks' = [marks EXCEPT ![p] = {}]
      /\ UNCHANGED <<inserted, processed, dispatched, timer, pc, batch>>
  BY DEF LoseTransaction, Fault
<1>2. TypeOK'
  BY <1>1, MaxFaultsAssumption DEF PollInv, TypeOK
<1>3. /\ \A q \in Polls, e \in Events : HasMarked(q, e)' => HasMarked(q, e)
      /\ \A q \in Polls \ {p}, e \in Events : HasMarked(q, e)' <=> HasMarked(q, e)
      /\ \A e \in Events : HasMarked(p, e)' <=> pc[p] = "mark" /\ e = Current(p)
  BY <1>1 DEF PollInv, TypeOK, HasMarked, Current
<1>4. \A e \in Events : HasMarked(p, e) => e \notin batch'[p] \/ HasMarked(p, e)'
  <2>1. \A e \in marks[p] : e \notin batch'[p]
    BY <1>1 DEF PollInv, TypeOK
  <2> QED BY <1>3, <2>1 DEF HasMarked
<1>5. /\ Dead(p)' /\ held'[p] = {} /\ batch'[p] \subseteq batch[p]
      /\ \A q \in Polls \ {p} : tx'[q] = tx[q] /\ batch'[q] = batch[q] /\ held'[q] = held[q]
  BY <1>1 DEF PollInv, TypeOK, Dead
<1> QED BY <1>1, <1>2, <1>3, <1>4, <1>5, TransactionGone

LEMMA MarkFailsStep == ASSUME PollInv, NEW p \in Polls, MarkFails(p) PROVE PollInv'
<1> DEFINE c == Current(p)
<1>1. /\ pc[p] = "mark" /\ tx[p] = "open" /\ faults < MaxFaults /\ faults' = faults + 1
      /\ tx' = [tx EXCEPT ![p] = "aborted"] /\ held' = [held EXCEPT ![p] = {}]
      /\ marks' = [marks EXCEPT ![p] = {}] /\ pc' = [pc EXCEPT ![p] = "loop"]
      /\ batch' = [batch EXCEPT ![p] = @ \ {c}]
      /\ UNCHANGED <<inserted, processed, dispatched, timer>>
  BY DEF MarkFails, Fault, NextEvent
<1>2. \A q \in Polls \ {p} : Current(q)' = Current(q)
  BY <1>1 DEF PollInv, TypeOK, Current
<1>3. /\ \A q \in Polls, e \in Events : HasMarked(q, e)' => HasMarked(q, e)
      /\ \A q \in Polls \ {p}, e \in Events : HasMarked(q, e)' <=> HasMarked(q, e)
      /\ \A e \in Events : ~HasMarked(p, e)'
      /\ \A e \in Events : HasMarked(p, e) <=> e \in marks[p] \/ e = c
  BY <1>1, <1>2 DEF PollInv, TypeOK, HasMarked
<1> HIDE DEF c
<1>4. TypeOK'
  <2>1. batch' \in [Polls -> SUBSET inserted]
    BY <1>1 DEF PollInv, TypeOK
  <2>2. \A q \in Polls : q # p => batch'[q] = batch[q]
    BY <1>1 DEF PollInv, TypeOK
  <2> QED BY <1>1, <2>1, <2>2, MaxFaultsAssumption DEF PollInv, TypeOK
<1>5. \A e \in Events : HasMarked(p, e) => e \notin batch'[p] \/ HasMarked(p, e)'
  <2>1. \A e \in marks[p] : e \notin batch'[p]
    BY <1>1 DEF PollInv, TypeOK
  <2>2. c \notin batch'[p]
    BY <1>1 DEF PollInv, TypeOK
  <2> QED BY <1>3, <2>1, <2>2
<1>6. /\ Dead(p)' /\ held'[p] = {} /\ batch'[p] \subseteq batch[p]
      /\ \A q \in Polls \ {p} : tx'[q] = tx[q] /\ batch'[q] = batch[q] /\ held'[q] = held[q]
  BY <1>1 DEF PollInv, TypeOK, Dead
<1> QED BY <1>1, <1>3, <1>4, <1>5, <1>6, TransactionGone

(* The end of a process takes its polls with it, doomed ones included.       *)
LEMMA CrashStep == ASSUME PollInv, NEW P \in Processes, Crash(P) PROVE PollInv'
<1>1. /\ faults < MaxFaults /\ faults' = faults + 1 /\ timer' = [timer EXCEPT ![P] = FALSE]
      /\ pc' = [p \in Polls |-> IF p \in P THEN "idle" ELSE pc[p]]
      /\ batch' = [p \in Polls |-> IF p \in P THEN {} ELSE batch[p]]
      /\ held' = [p \in Polls |-> IF p \in P THEN {} ELSE held[p]]
      /\ marks' = [p \in Polls |-> IF p \in P THEN {} ELSE marks[p]]
      /\ tx' = [p \in Polls |-> IF p \in P THEN "none" ELSE tx[p]]
      /\ UNCHANGED <<inserted, processed, dispatched>>
  BY DEF Crash, Fault
<1>2. TypeOK'
  <2>1. ASSUME NEW p \in Polls
        PROVE  /\ tx'[p] = "open" => batch'[p] \subseteq held'[p] /\ marks'[p] \subseteq held'[p] \ batch'[p]
               /\ tx'[p] # "open" => held'[p] = {} /\ marks'[p] = {}
               /\ pc'[p] = "idle" <=> tx'[p] = "none"
               /\ pc'[p] = "idle" => batch'[p] = {}
               /\ pc'[p] = "mark" => batch'[p] # {}
    BY <1>1 DEF PollInv, TypeOK
  <2>2. faults' \in 0 .. MaxFaults /\ timer' \in [Processes -> BOOLEAN]
    BY <1>1, MaxFaultsAssumption DEF PollInv, TypeOK
  <2>3. /\ pc' \in [Polls -> {"idle", "loop", "mark"}] /\ tx' \in [Polls -> {"none", "open", "aborted", "lost"}]
        /\ batch' \in [Polls -> SUBSET inserted] /\ held' \in [Polls -> SUBSET inserted]
        /\ marks' \in [Polls -> SUBSET inserted]
    BY <1>1 DEF PollInv, TypeOK
  <2> QED BY <1>1, <2>1, <2>2, <2>3 DEF PollInv, TypeOK
<1>3. Exclusive'
  BY <1>1 DEF PollInv, Exclusive
<1>4. \A q \in Polls, e \in Events : HasMarked(q, e)' <=> q \notin P /\ HasMarked(q, e)
  BY <1>1 DEF HasMarked, Current
<1>5. Effects'
  BY <1>1, <1>4 DEF PollInv, Effects, ProcessedTookEffect
<1>6. ASSUME NEW e \in Events
      PROVE  dispatched'[e] + Cardinality(Doomed(e)') <= faults' + Owed(e)'
  <2>1. /\ faults \in Nat /\ faults' \in Nat /\ dispatched[e] \in Nat /\ dispatched'[e] = dispatched[e]
        /\ faults' = faults + 1 /\ Owed(e) \in {0, 1} /\ Owed(e)' \in {0, 1}
    BY <1>1 DEF PollInv, TypeOK, Owed
  <2>2. Doomed(e)' \subseteq Doomed(e)
    BY <1>1, <1>4 DEF Doomed, Dead
  <2> QED BY <2>1, <2>2, BudgetKept
<1>7. Budget'
  BY <1>6 DEF Budget
<1> QED BY <1>2, <1>3, <1>5, <1>7 DEF PollInv

LEMMA PollStep == PollInv /\ [Next]_vars => PollInv'
<1> SUFFICES ASSUME PollInv, [Next]_vars PROVE PollInv'
  OBVIOUS
<1>1. ASSUME NEW e \in Events, Insert(e) PROVE PollInv'
  BY <1>1, InsertStep
<1>2. ASSUME NEW P \in Processes, StartStop(P) \/ Crash(P) PROVE PollInv'
  BY <1>2, StartStopStep, CrashStep
<1>3. ASSUME NEW p \in Polls, Tick(p) PROVE PollInv'
  BY <1>3, TickStep
<1>4. ASSUME NEW p \in Polls, Step(p) PROVE PollInv'
  BY <1>4, DispatchStep, RejectStep, MarkStep, CommitStep DEF Step
<1>5. ASSUME NEW p \in Polls, HandlerFault(p) \/ MarkFails(p) \/ LoseTransaction(p) PROVE PollInv'
  BY <1>5, HandlerFaultStep, MarkFailsStep, LoseTransactionStep
<1>6. CASE UNCHANGED vars
  <2>1. TypeOK'
    BY <1>6 DEF PollInv, TypeOK, vars, poll
  <2> QED BY <1>6, <2>1, OutsideStep DEF vars
<1> QED BY <1>1, <1>2, <1>3, <1>4, <1>5, <1>6 DEF Next

LEMMA PollInvariant == Spec => []PollInv
<1> QED BY PollInit, PollStep, PTL DEF Spec

(* A poll holds the locks of its own SELECT, and none without a transaction. *)
THEOREM PollsTypeCorrect == Spec => []TypeOK
<1>1. PollInv => TypeOK
  BY DEF PollInv
<1> QED BY <1>1, PollInvariant, PTL

(* No event is lost by pollOutbox: none is processed that took no effect.    *)
THEOREM NoEventIsLost == Spec => []ProcessedTookEffect
<1>1. PollInv => ProcessedTookEffect
  BY DEF PollInv, Effects
<1> QED BY <1>1, PollInvariant, PTL

(* Redeliveries of an event are no more than the faults: those of its polls, *)
(* of their transactions and of their processes.                             *)
THEOREM RedeliveriesArePaidFor == Spec => []RedeliveryNeedsFault
<1>1. PollInv => RedeliveryNeedsFault
  <2> SUFFICES ASSUME PollInv, NEW e \in Events PROVE dispatched[e] <= 1 + faults
    BY DEF RedeliveryNeedsFault
  <2>1. dispatched[e] + Cardinality(Doomed(e)) <= faults + Owed(e)
    BY DEF PollInv, Budget
  <2>2. /\ dispatched[e] \in Nat /\ faults \in Nat /\ Owed(e) \in {0, 1}
        /\ Cardinality(Doomed(e)) \in Nat
    BY DoomedFinite DEF PollInv, TypeOK, Owed
  <2> QED BY <2>1, <2>2
<1> QED BY <1>1, PollInvariant, PTL
=============================================================================
