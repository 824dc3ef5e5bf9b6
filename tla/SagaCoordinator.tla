--------------------------- MODULE SagaCoordinator ---------------------------
(***************************************************************************)
(* saga-coordinator.ts: each poll reads the sagas that have missed their   *)
(* deadline, writes an escalation for each, and then frees the locks that  *)
(* have expired; every statement is its own transaction, polls overlap,    *)
(* and an error ends the poll where it is.  Between two statements the     *)
(* services move sagas without a look at their locks.  The workers that    *)
(* lock and advance sagas are not in the repository: a worker locks a free *)
(* saga, works, and advances it if the lock is still its own.              *)
(***************************************************************************)
EXTENDS SagaSteps, FiniteSets

CONSTANTS Sagas, Workers, Polls,
          InitialSteps,  \* where the sagas of an instance start
          Limit,         \* LIMIT of the SELECT
          NoWorker,      \* locked_by IS NULL
          NoSaga,
          MaxFaults,     \* bound on failed polls and workers
          MaxMoves       \* bound on the changes of current_step

ASSUME InitialAssumption == InitialSteps \subseteq Steps
ASSUME NoneAssumption == NoWorker \notin Workers /\ NoSaga \notin Sagas
ASSUME BoundsAssumption == Limit \in Nat \ {0} /\ MaxFaults \in Nat /\ MaxMoves \in Nat

VARIABLES
  step, overdue,      \* current_step and step_deadline < NOW()
  lockedBy, expired,  \* locked_by and lock_expires < NOW()
  escalated,          \* saga and step of the rows of escalation_log
  missed,             \* saga and step of the deadlines that passed
  timer,              \* the coordinator is started
  pc, found,          \* of each poll: "idle" or "open", rows yet to insert
  owns,               \* the saga each worker believes to have locked
  late,               \* workers whose lock expired while they worked
  faults, moves

rows == <<step, overdue, lockedBy, expired>>
polls == <<timer, pc, found, escalated>>
workers == <<owns, late>>
vars == <<rows, polls, workers, missed, faults, moves>>

Init ==
  /\ step \in [Sagas -> InitialSteps]
  /\ overdue = [s \in Sagas |-> FALSE]
  /\ lockedBy = [s \in Sagas |-> NoWorker]
  /\ expired = [s \in Sagas |-> FALSE]
  /\ escalated = {} /\ missed = {}
  /\ timer = FALSE
  /\ pc = [p \in Polls |-> "idle"]
  /\ found = [p \in Polls |-> {}]
  /\ owns = [w \in Workers |-> NoSaga]
  /\ late = {}
  /\ faults = 0 /\ moves = 0

Fault == faults < MaxFaults /\ faults' = faults + 1

(* startSagaCoordinator and stopSagaCoordinator. *)
StartStop ==
  /\ timer' = ~timer
  /\ UNCHANGED <<rows, pc, found, escalated, workers, missed, faults, moves>>

(***************************************************************************)
(* pollSagas                                                               *)
(***************************************************************************)
Breached ==
  { s \in Sagas : /\ step[s] \notin Terminal
                  /\ overdue[s]
                  /\ lockedBy[s] = NoWorker \/ expired[s] }

(* What a SELECT with LIMIT and without ORDER BY may return. *)
Selections ==
  { S \in SUBSET Breached :
      \/ S = Breached /\ Cardinality(S) <= Limit
      \/ Cardinality(S) = Limit }

DetectSlaBreaches(p) ==
  /\ timer /\ pc[p] = "idle"
  /\ pc' = [pc EXCEPT ![p] = "open"]
  /\ \E S \in Selections : found' = [found EXCEPT ![p] = { <<s, step[s]>> : s \in S }]
  /\ UNCHANGED <<rows, timer, escalated, workers, missed, faults, moves>>

(* Bug: a unique key on the saga, so that ON CONFLICT DO NOTHING drops its    *)
(* later steps.                                                              *)
LogOncePerSaga(p) ==
  \E row \in found[p] :
    /\ found' = [found EXCEPT ![p] = @ \ {row}]
    /\ escalated' = IF \E old \in escalated : old[1] = row[1] THEN escalated
                    ELSE escalated \cup {row}
    /\ UNCHANGED <<rows, timer, pc, workers, missed, faults, moves>>

(* The step in an escalation is the one that the SELECT returned. *)
LogEscalation(p) ==
  \E row \in found[p] :
    /\ found' = [found EXCEPT ![p] = @ \ {row}]
    /\ escalated' = escalated \cup {row}
    /\ UNCHANGED <<rows, timer, pc, workers, missed, faults, moves>>

(* Bug: locked_by is tested and lock_expires is not. *)
StaleAll == { s \in Sagas : lockedBy[s] # NoWorker }

(* Bug: only the locks of sagas past their deadline. *)
StaleBreached == { s \in Breached : lockedBy[s] # NoWorker /\ expired[s] }

Stale == { s \in Sagas : lockedBy[s] # NoWorker /\ expired[s] }

RecoverStaleLocks(p) ==
  /\ pc[p] = "open" /\ found[p] = {}
  /\ pc' = [pc EXCEPT ![p] = "idle"]
  /\ lockedBy' = [s \in Sagas |-> IF s \in Stale THEN NoWorker ELSE lockedBy[s]]
  /\ expired' = [s \in Sagas |-> expired[s] /\ s \notin Stale]
  /\ UNCHANGED <<step, overdue, timer, found, escalated, workers, missed, faults, moves>>

(* A statement fails, or the process ends: the rest of the poll is skipped,  *)
(* the recovery of locks with it.                                            *)
PollFails(p) ==
  /\ pc[p] = "open"
  /\ Fault
  /\ pc' = [pc EXCEPT ![p] = "idle"]
  /\ found' = [found EXCEPT ![p] = {}]
  /\ UNCHANGED <<rows, timer, escalated, workers, missed, moves>>

(***************************************************************************)
(* Time and the workers                                                    *)
(***************************************************************************)
MissDeadline(s) ==
  /\ ~overdue[s] /\ step[s] \notin Terminal
  /\ overdue' = [overdue EXCEPT ![s] = TRUE]
  /\ missed' = missed \cup {<<s, step[s]>>}
  /\ UNCHANGED <<step, lockedBy, expired, polls, workers, faults, moves>>

LockExpires(s) ==
  /\ lockedBy[s] # NoWorker /\ ~expired[s]
  /\ expired' = [expired EXCEPT ![s] = TRUE]
  /\ late' = late \cup { w \in Workers : lockedBy[s] = w /\ owns[w] = s }
  /\ UNCHANGED <<step, overdue, lockedBy, polls, owns, missed, faults, moves>>

Claim(w, s) ==
  /\ owns[w] = NoSaga /\ lockedBy[s] = NoWorker /\ step[s] \notin Terminal
  /\ owns' = [owns EXCEPT ![w] = s]
  /\ lockedBy' = [lockedBy EXCEPT ![s] = w]
  /\ UNCHANGED <<step, overdue, expired, polls, late, missed, faults, moves>>

(* UPDATE order_sagas SET current_step = to, with a new deadline or the old. *)
MoveTo(s, to, due) ==
  /\ moves < MaxMoves
  /\ moves' = moves + 1
  /\ step' = [step EXCEPT ![s] = to]
  /\ overdue' = [overdue EXCEPT ![s] = due]
  /\ missed' = IF due THEN missed \cup {<<s, to>>} ELSE missed

(* UPDATE ... WHERE locked_by = w, unless the lock was taken away. *)
Advance(w) ==
  LET s == owns[w] IN
  /\ s # NoSaga
  /\ owns' = [owns EXCEPT ![w] = NoSaga]
  /\ late' = late \ {w}
  /\ \/ /\ lockedBy[s] = w
        /\ lockedBy' = [lockedBy EXCEPT ![s] = NoWorker]
        /\ expired' = [expired EXCEPT ![s] = FALSE]
        /\ \E to \in Steps, due \in {FALSE, overdue[s]} :
             /\ WorkerTransition(step[s], to)
             /\ due => to \notin Terminal
             /\ MoveTo(s, to, due)
     \/ lockedBy[s] # w /\ UNCHANGED <<rows, missed, moves>>
  /\ UNCHANGED <<polls, faults>>

WorkerDies(w) ==
  /\ owns[w] # NoSaga
  /\ Fault
  /\ owns' = [owns EXCEPT ![w] = NoSaga]
  /\ late' = late \ {w}
  /\ UNCHANGED <<rows, polls, missed, moves>>

(***************************************************************************)
(* The services, whose UPDATEs leave the lock alone                        *)
(***************************************************************************)
Locks == <<lockedBy, expired>>

(* confirmOrder, from any step: two calls for an order may overlap. *)
Confirm(s) ==
  /\ MoveTo(s, "PO_CONFIRMED", FALSE)
  /\ UNCHANGED <<Locks, polls, workers, faults>>

(* createShipment and createInvoice keep the deadline of the step before. *)
Ship(s) ==
  /\ step[s] \in {"PO_CONFIRMED", "ACK_DELIVERED"}
  /\ MoveTo(s, "SHIP_READY", overdue[s])
  /\ UNCHANGED <<Locks, polls, workers, faults>>

Invoice(s) ==
  /\ step[s] \in {"ASN_DELIVERED", "SHIP_READY"}
  /\ MoveTo(s, "INVOICE_READY", overdue[s])
  /\ UNCHANGED <<Locks, polls, workers, faults>>

Step(p) == LogEscalation(p) \/ RecoverStaleLocks(p)

Next ==
  \/ StartStop
  \/ \E p \in Polls : DetectSlaBreaches(p) \/ Step(p) \/ PollFails(p)
  \/ \E s \in Sagas :
       \/ Confirm(s) \/ Ship(s) \/ Invoice(s)
       \/ MissDeadline(s) \/ LockExpires(s) \/ \E w \in Workers : Claim(w, s)
  \/ \E w \in Workers : Advance(w) \/ WorkerDies(w)

Spec == Init /\ [][Next]_vars

(* setInterval fires, an open poll runs on, and time passes. *)
FairSpec ==
  /\ Spec
  /\ \A p \in Polls : WF_vars(DetectSlaBreaches(p)) /\ WF_vars(Step(p))
  /\ \A s \in Sagas : WF_vars(LockExpires(s))

-----------------------------------------------------------------------------
(* Every variable has its type. *)
TypeOK ==
  /\ step \in [Sagas -> Steps]
  /\ {overdue, expired} \subseteq [Sagas -> BOOLEAN]
  /\ lockedBy \in [Sagas -> Workers \cup {NoWorker}]
  /\ escalated \subseteq Sagas \X Steps /\ missed \subseteq Sagas \X Steps
  /\ timer \in BOOLEAN
  /\ pc \in [Polls -> {"idle", "open"}]
  /\ found \in [Polls -> SUBSET (Sagas \X Steps)]
  /\ owns \in [Workers -> Sagas \cup {NoSaga}]
  /\ late \subseteq Workers
  /\ faults \in 0 .. MaxFaults /\ moves \in 0 .. MaxMoves
  /\ \A p \in Polls : pc[p] = "idle" => found[p] = {}
  /\ \A s \in Sagas : lockedBy[s] = NoWorker => ~expired[s]

(* An escalation names a step whose deadline has passed, although the saga   *)
(* may have moved on between the SELECT and the INSERT.                      *)
EscalatedMissed == escalated \subseteq missed

(* Two workers have the same saga only when one of them has outlived its     *)
(* lock: the recovery takes no lock from a worker that is in time.           *)
OneOwnerUnlessLate ==
  \A v, w \in Workers :
    v # w /\ owns[v] = owns[w] /\ owns[v] # NoSaga => v \in late \/ w \in late

(* While the coordinator runs, a saga does not stay in breach without an     *)
(* escalation of the step it is in, although it may have been escalated for  *)
(* an earlier one and moved on between the SELECT and the INSERT, provided   *)
(* that no more than Limit sagas can be in breach: the SELECT has no ORDER   *)
(* BY, and escalated sagas stay among its candidates.                        *)
BreachEscalated ==
  <>[]timer => \A s \in Sagas :
    []<>(s \notin Breached \/ <<s, step[s]>> \in escalated)

(* While it runs, the lock of a worker that died is given back. *)
StaleLockFreed ==
  <>[]timer => \A s \in Sagas, w \in Workers :
    (lockedBy[s] = w /\ owns[w] # s) ~> (lockedBy[s] # w \/ owns[w] = s)
=============================================================================
