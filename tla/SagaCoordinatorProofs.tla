------------------------ MODULE SagaCoordinatorProofs ------------------------
(***************************************************************************)
(* The saga coordinator, for any number of sagas, workers and overlapping  *)
(* polls, any LIMIT and any number of faults.                              *)
(***************************************************************************)
EXTENDS SagaCoordinator, TLAPS

(* Escalations that are written, or found and yet to be written, and sagas   *)
(* that are past their deadline, all name a deadline that was missed.        *)
Missed ==
  /\ EscalatedMissed
  /\ \A p \in Polls : found[p] \subseteq missed
  /\ \A s \in Sagas : overdue[s] => <<s, step[s]>> \in missed

(* A worker in time has the lock of its saga, which has not expired.         *)
InTime ==
  \A w \in Workers : owns[w] # NoSaga /\ w \notin late
                       => lockedBy[owns[w]] = w /\ ~expired[owns[w]]

SagaInv == TypeOK /\ Missed /\ InTime

LEMMA InitStep == Init => SagaInv
<1> SUFFICES ASSUME Init PROVE SagaInv
  OBVIOUS
<1>1. TypeOK
  <2>1. step \in [Sagas -> Steps]
    BY InitialAssumption DEF Init
  <2>2. faults \in 0 .. MaxFaults /\ moves \in 0 .. MaxMoves
    BY BoundsAssumption DEF Init
  <2>3. {overdue, expired} \subseteq [Sagas -> BOOLEAN] /\ timer \in BOOLEAN
    BY DEF Init
  <2>4. /\ lockedBy \in [Sagas -> Workers \cup {NoWorker}]
        /\ owns \in [Workers -> Sagas \cup {NoSaga}]
        /\ pc \in [Polls -> {"idle", "open"}]
        /\ found \in [Polls -> SUBSET (Sagas \X Steps)]
    BY DEF Init
  <2> QED BY <2>1, <2>2, <2>3, <2>4 DEF Init, TypeOK
<1>2. Missed
  BY DEF Init, Missed, EscalatedMissed
<1>3. InTime
  BY DEF Init, InTime
<1> QED BY <1>1, <1>2, <1>3 DEF SagaInv

LEMMA StartStopStep == ASSUME SagaInv, StartStop PROVE SagaInv'
BY DEF StartStop, rows, workers, SagaInv, TypeOK, Missed, EscalatedMissed, InTime

(* What a poll finds is past its deadline, at the step it was found in.      *)
LEMMA DetectStep == ASSUME SagaInv, NEW p \in Polls, DetectSlaBreaches(p) PROVE SagaInv'
<1>1. PICK S \in SUBSET Breached :
        /\ found' = [found EXCEPT ![p] = { <<s, step[s]>> : s \in S }]
        /\ pc[p] = "idle" /\ pc' = [pc EXCEPT ![p] = "open"]
        /\ UNCHANGED <<rows, timer, escalated, workers, missed, faults, moves>>
  BY DEF DetectSlaBreaches, Selections
<1>2. /\ { <<s, step[s]>> : s \in S } \subseteq Sagas \X Steps
      /\ { <<s, step[s]>> : s \in S } \subseteq missed
  BY DEF Breached, SagaInv, TypeOK, Missed
<1>3. TypeOK'
  BY <1>1, <1>2 DEF rows, workers, SagaInv, TypeOK
<1>4. Missed'
  BY <1>1, <1>2 DEF rows, workers, SagaInv, TypeOK, Missed, EscalatedMissed
<1>5. InTime'
  BY <1>1 DEF rows, workers, SagaInv, InTime
<1> QED BY <1>3, <1>4, <1>5 DEF SagaInv

LEMMA LogStep == ASSUME SagaInv, NEW p \in Polls, LogEscalation(p) PROVE SagaInv'
<1>1. PICK row \in found[p] :
        /\ found' = [found EXCEPT ![p] = @ \ {row}]
        /\ escalated' = escalated \cup {row}
        /\ UNCHANGED <<rows, timer, pc, workers, missed, faults, moves>>
  BY DEF LogEscalation
<1>2. TypeOK'
  BY <1>1 DEF rows, workers, SagaInv, TypeOK
<1>3. Missed'
  BY <1>1 DEF rows, workers, SagaInv, TypeOK, Missed, EscalatedMissed
<1>4. InTime'
  BY <1>1 DEF rows, workers, SagaInv, InTime
<1> QED BY <1>2, <1>3, <1>4 DEF SagaInv

(* The locks that are taken have expired, so that no worker in time has one. *)
LEMMA RecoverStep == ASSUME SagaInv, NEW p \in Polls, RecoverStaleLocks(p) PROVE SagaInv'
<1>1. /\ found[p] = {} /\ pc' = [pc EXCEPT ![p] = "idle"]
      /\ lockedBy' = [s \in Sagas |-> IF s \in Stale THEN NoWorker ELSE lockedBy[s]]
      /\ expired' = [s \in Sagas |-> expired[s] /\ s \notin Stale]
      /\ UNCHANGED <<step, overdue, timer, found, escalated, owns, late, missed, faults, moves>>
  BY DEF RecoverStaleLocks, workers
<1>2. TypeOK'
  <2>1. \A s \in Sagas : lockedBy'[s] = NoWorker => ~expired'[s]
    BY <1>1 DEF SagaInv, TypeOK
  <2>2. lockedBy' \in [Sagas -> Workers \cup {NoWorker}] /\ expired' \in [Sagas -> BOOLEAN]
    BY <1>1 DEF SagaInv, TypeOK
  <2> QED BY <1>1, <2>1, <2>2 DEF SagaInv, TypeOK
<1>3. Missed'
  BY <1>1 DEF SagaInv, Missed, EscalatedMissed
<1>4. InTime'
  <2> SUFFICES ASSUME NEW w \in Workers, owns[w] # NoSaga, w \notin late
               PROVE  lockedBy'[owns[w]] = w /\ ~expired'[owns[w]]
    BY <1>1 DEF InTime
  <2>1. lockedBy[owns[w]] = w /\ ~expired[owns[w]] /\ owns[w] \in Sagas
    BY DEF SagaInv, InTime, TypeOK
  <2>2. owns[w] \notin Stale
    BY <2>1 DEF Stale
  <2> QED BY <1>1, <2>1, <2>2
<1> QED BY <1>2, <1>3, <1>4 DEF SagaInv

LEMMA PollFailsStep == ASSUME SagaInv, NEW p \in Polls, PollFails(p) PROVE SagaInv'
BY BoundsAssumption DEF PollFails, Fault, rows, workers, SagaInv, TypeOK, Missed, EscalatedMissed, InTime

LEMMA MissDeadlineStep == ASSUME SagaInv, NEW s \in Sagas, MissDeadline(s) PROVE SagaInv'
<1>1. /\ overdue' = [overdue EXCEPT ![s] = TRUE] /\ missed' = missed \cup {<<s, step[s]>>}
      /\ UNCHANGED <<step, lockedBy, expired, timer, pc, found, escalated, owns, late, faults, moves>>
  BY DEF MissDeadline, polls, workers
<1>2. TypeOK'
  BY <1>1 DEF SagaInv, TypeOK
<1>3. Missed'
  BY <1>1 DEF SagaInv, TypeOK, Missed, EscalatedMissed
<1>4. InTime'
  BY <1>1 DEF SagaInv, InTime
<1> QED BY <1>2, <1>3, <1>4 DEF SagaInv

(* The worker whose lock expires under its hands is late from then on.       *)
LEMMA LockExpiresStep == ASSUME SagaInv, NEW s \in Sagas, LockExpires(s) PROVE SagaInv'
<1>1. /\ lockedBy[s] # NoWorker
      /\ expired' = [expired EXCEPT ![s] = TRUE]
      /\ late' = late \cup { w \in Workers : lockedBy[s] = w /\ owns[w] = s }
      /\ UNCHANGED <<step, overdue, lockedBy, timer, pc, found, escalated, owns, missed, faults, moves>>
  BY DEF LockExpires, polls
<1>2. TypeOK'
  BY <1>1 DEF SagaInv, TypeOK
<1>3. Missed'
  BY <1>1 DEF SagaInv, Missed, EscalatedMissed
<1>4. InTime'
  <2> SUFFICES ASSUME NEW w \in Workers, owns[w] # NoSaga, w \notin late'
               PROVE  lockedBy[owns[w]] = w /\ ~expired'[owns[w]]
    BY <1>1 DEF InTime
  <2>1. lockedBy[owns[w]] = w /\ ~expired[owns[w]] /\ owns[w] \in Sagas
    BY <1>1 DEF SagaInv, InTime, TypeOK
  <2>2. owns[w] # s
    BY <1>1, <2>1
  <2> QED BY <1>1, <2>1, <2>2 DEF SagaInv, TypeOK
<1> QED BY <1>2, <1>3, <1>4 DEF SagaInv

(* A lock that is free has no worker in time behind it.                      *)
LEMMA ClaimStep == ASSUME SagaInv, NEW w \in Workers, NEW s \in Sagas, Claim(w, s) PROVE SagaInv'
<1>1. /\ owns[w] = NoSaga /\ lockedBy[s] = NoWorker
      /\ owns' = [owns EXCEPT ![w] = s] /\ lockedBy' = [lockedBy EXCEPT ![s] = w]
      /\ UNCHANGED <<step, overdue, expired, timer, pc, found, escalated, late, missed, faults, moves>>
  BY DEF Claim, polls
<1>2. TypeOK'
  BY <1>1 DEF SagaInv, TypeOK
<1>3. Missed'
  BY <1>1 DEF SagaInv, Missed, EscalatedMissed
<1>4. InTime'
  <2> SUFFICES ASSUME NEW v \in Workers, owns'[v] # NoSaga, v \notin late
               PROVE  lockedBy'[owns'[v]] = v /\ ~expired[owns'[v]]
    BY <1>1 DEF InTime
  <2>1. CASE v = w
    BY <1>1, <2>1 DEF SagaInv, TypeOK
  <2>2. CASE v # w
    <3>1. owns'[v] = owns[v] /\ owns[v] \in Sagas
      BY <1>1, <2>2 DEF SagaInv, TypeOK
    <3>2. lockedBy[owns[v]] = v /\ ~expired[owns[v]]
      BY <3>1 DEF SagaInv, InTime
    <3> QED BY <1>1, <3>1, <3>2, NoneAssumption DEF SagaInv, TypeOK
  <2> QED BY <2>1, <2>2
<1> QED BY <1>2, <1>3, <1>4 DEF SagaInv

(* A step that keeps its deadline is missed as soon as it is reached, if the *)
(* deadline has passed.                                                      *)
LEMMA MoveStep ==
  ASSUME SagaInv, NEW s \in Sagas, NEW to \in Steps, NEW due \in BOOLEAN, MoveTo(s, to, due),
         UNCHANGED <<timer, pc, found, escalated, faults>>
  PROVE  /\ step' \in [Sagas -> Steps] /\ overdue' \in [Sagas -> BOOLEAN]
         /\ missed' \subseteq Sagas \X Steps /\ moves' \in 0 .. MaxMoves
         /\ Missed'
<1>1. /\ moves < MaxMoves /\ moves' = moves + 1
      /\ step' = [step EXCEPT ![s] = to] /\ overdue' = [overdue EXCEPT ![s] = due]
      /\ missed' = IF due THEN missed \cup {<<s, to>>} ELSE missed
  BY DEF MoveTo
<1>2. /\ step' \in [Sagas -> Steps] /\ overdue' \in [Sagas -> BOOLEAN]
      /\ missed' \subseteq Sagas \X Steps
  BY <1>1 DEF SagaInv, TypeOK
<1>3. moves' \in 0 .. MaxMoves
  BY <1>1, BoundsAssumption DEF SagaInv, TypeOK
<1>4. missed \subseteq missed'
  BY <1>1
<1>5. \A t \in Sagas : overdue'[t] => <<t, step'[t]>> \in missed'
  BY <1>1 DEF SagaInv, TypeOK, Missed
<1> QED BY <1>2, <1>3, <1>4, <1>5 DEF SagaInv, Missed, EscalatedMissed

(* A worker that is done leaves its saga to the others, in both outcomes.    *)
LEMMA AdvanceStep == ASSUME SagaInv, NEW w \in Workers, Advance(w) PROVE SagaInv'
<1> DEFINE s == owns[w]
<1>1. /\ s \in Sagas
      /\ owns' = [owns EXCEPT ![w] = NoSaga] /\ late' = late \ {w}
      /\ UNCHANGED <<timer, pc, found, escalated, faults>>
  BY DEF Advance, polls, SagaInv, TypeOK
<1>2. CASE /\ lockedBy[s] = w
           /\ lockedBy' = [lockedBy EXCEPT ![s] = NoWorker]
           /\ expired' = [expired EXCEPT ![s] = FALSE]
           /\ \E to \in Steps, due \in {FALSE, overdue[s]} :
                /\ WorkerTransition(step[s], to)
                /\ due => to \notin Terminal
                /\ MoveTo(s, to, due)
  <2>1. PICK to \in Steps, due \in {FALSE, overdue[s]} : MoveTo(s, to, due)
    BY <1>2
  <2> due \in BOOLEAN
    <3>1. overdue \in [Sagas -> BOOLEAN]
      BY DEF SagaInv, TypeOK
    <3>2. overdue[s] \in BOOLEAN
      BY <1>1, <3>1
    <3> QED BY <2>1, <3>2, Zenon
  <2>2. /\ step' \in [Sagas -> Steps] /\ overdue' \in [Sagas -> BOOLEAN]
        /\ missed' \subseteq Sagas \X Steps /\ moves' \in 0 .. MaxMoves
        /\ Missed'
    BY <1>1, <2>1, MoveStep
  <2>3. TypeOK'
    <3>1. expired' \in [Sagas -> BOOLEAN]
      BY <1>1, <1>2 DEF SagaInv, TypeOK
    <3>2. lockedBy' \in [Sagas -> Workers \cup {NoWorker}]
      BY <1>1, <1>2 DEF SagaInv, TypeOK
    <3>3. owns' \in [Workers -> Sagas \cup {NoSaga}] /\ late' \subseteq Workers
      BY <1>1 DEF SagaInv, TypeOK
    <3>4. \A t \in Sagas : lockedBy'[t] = NoWorker => ~expired'[t]
      BY <1>1, <1>2 DEF SagaInv, TypeOK
    <3> QED BY <1>1, <2>2, <3>1, <3>2, <3>3, <3>4 DEF SagaInv, TypeOK
  <2>4. InTime'
    <3> SUFFICES ASSUME NEW v \in Workers, owns'[v] # NoSaga, v \notin late'
                 PROVE  lockedBy'[owns'[v]] = v /\ ~expired'[owns'[v]]
      BY DEF InTime
    <3>1. v # w /\ owns'[v] = owns[v] /\ owns[v] \in Sagas /\ v \notin late
      BY <1>1 DEF SagaInv, TypeOK
    <3>2. lockedBy[owns[v]] = v /\ ~expired[owns[v]]
      BY <1>1, <3>1 DEF SagaInv, InTime
    <3> QED BY <1>2, <3>1, <3>2 DEF SagaInv, TypeOK
  <2> QED BY <2>2, <2>3, <2>4 DEF SagaInv
<1>3. CASE UNCHANGED <<rows, missed, moves>>
  <2>1. TypeOK'
    BY <1>1, <1>3 DEF rows, SagaInv, TypeOK
  <2>2. Missed'
    BY <1>1, <1>3 DEF rows, SagaInv, Missed, EscalatedMissed
  <2>3. InTime'
    BY <1>1, <1>3 DEF rows, SagaInv, TypeOK, InTime
  <2> QED BY <2>1, <2>2, <2>3 DEF SagaInv
<1> QED BY <1>2, <1>3 DEF Advance

(* The services move a saga and leave its lock and its worker alone.         *)
LEMMA ServiceStep ==
  ASSUME SagaInv, NEW s \in Sagas, Confirm(s) \/ Ship(s) \/ Invoice(s)
  PROVE  SagaInv'
<1>1. PICK to \in Steps, due \in BOOLEAN : MoveTo(s, to, due)
  <2>1. overdue[s] \in BOOLEAN
    BY DEF SagaInv, TypeOK
  <2>2. {"PO_CONFIRMED", "SHIP_READY", "INVOICE_READY"} \subseteq Steps
    BY DEF Steps, AckSteps, AsnSteps, InvoiceSteps
  <2> QED BY <2>1, <2>2 DEF Confirm, Ship, Invoice
<1>2. UNCHANGED <<lockedBy, expired, timer, pc, found, escalated, owns, late, faults>>
  BY DEF Confirm, Ship, Invoice, Locks, polls, workers
<1>3. /\ step' \in [Sagas -> Steps] /\ overdue' \in [Sagas -> BOOLEAN]
      /\ missed' \subseteq Sagas \X Steps /\ moves' \in 0 .. MaxMoves
      /\ Missed'
  BY <1>1, <1>2, MoveStep
<1>4. TypeOK'
  BY <1>2, <1>3 DEF SagaInv, TypeOK
<1>5. InTime'
  BY <1>2 DEF SagaInv, InTime
<1> QED BY <1>3, <1>4, <1>5 DEF SagaInv

LEMMA WorkerDiesStep == ASSUME SagaInv, NEW w \in Workers, WorkerDies(w) PROVE SagaInv'
<1>1. /\ owns' = [owns EXCEPT ![w] = NoSaga] /\ late' = late \ {w}
      /\ faults < MaxFaults /\ faults' = faults + 1
      /\ UNCHANGED <<step, overdue, lockedBy, expired, timer, pc, found, escalated, missed, moves>>
  BY DEF WorkerDies, Fault, rows, polls
<1>2. TypeOK'
  BY <1>1, BoundsAssumption DEF SagaInv, TypeOK
<1>3. Missed'
  BY <1>1 DEF SagaInv, Missed, EscalatedMissed
<1>4. InTime'
  BY <1>1 DEF SagaInv, TypeOK, InTime
<1> QED BY <1>2, <1>3, <1>4 DEF SagaInv

(* SagaInv is an invariant: what a poll has selected had missed its deadline,*)
(* and a worker in time still holds the lock it took.                        *)
THEOREM SagaInductive == Spec => []SagaInv
<1>1. SagaInv /\ [Next]_vars => SagaInv'
  <2> SUFFICES ASSUME SagaInv, [Next]_vars PROVE SagaInv'
    OBVIOUS
  <2>1. CASE UNCHANGED vars
    BY <2>1 DEF vars, rows, polls, workers, SagaInv, TypeOK, Missed, EscalatedMissed, InTime
  <2>2. CASE Next
    BY <2>2, StartStopStep, DetectStep, LogStep, RecoverStep, PollFailsStep, MissDeadlineStep,
       LockExpiresStep, ClaimStep, AdvanceStep, WorkerDiesStep, ServiceStep DEF Next, Step
  <2> QED BY <2>1, <2>2
<1> QED BY <1>1, InitStep, PTL DEF Spec

(* Every variable of the coordinator keeps its type: an idle poll has no     *)
(* rows left, and a free lock is never an expired one.                       *)
THEOREM CoordinatorTypeCorrect == Spec => []TypeOK
<1>1. SagaInv => TypeOK
  BY DEF SagaInv
<1> QED BY <1>1, SagaInductive, PTL

(* An escalation names a step whose deadline has passed, however far the     *)
(* saga has moved on between the SELECT of a poll and its INSERT.            *)
THEOREM EscalationsAreDue == Spec => []EscalatedMissed
<1>1. SagaInv => EscalatedMissed
  BY DEF SagaInv, Missed
<1> QED BY <1>1, SagaInductive, PTL

(* Two workers have the same saga only when one of them has outlived its     *)
(* lock: recoverStaleLocks takes no lock from a worker in time.              *)
THEOREM OwnersAreLate == Spec => []OneOwnerUnlessLate
<1>1. SagaInv => OneOwnerUnlessLate
  BY DEF SagaInv, InTime, OneOwnerUnlessLate
<1> QED BY <1>1, SagaInductive, PTL
=============================================================================
