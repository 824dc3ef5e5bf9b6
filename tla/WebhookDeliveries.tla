-------------------------- MODULE WebhookDeliveries --------------------------
(***************************************************************************)
(* webhook-service.ts: deliveries are enqueued as rows; a processor locks  *)
(* the oldest pending ones with FOR UPDATE SKIP LOCKED, marks each and     *)
(* commits.  After a failed UPDATE the UPDATE of the catch block is sent   *)
(* to a transaction that PostgreSQL has aborted, fails too, and the outer  *)
(* catch rolls the whole batch back: a failure leaves no trace.            *)
(***************************************************************************)
EXTENDS Integers, FiniteSets

CONSTANTS Deliveries,   \* rows, numbered by created_at
          Processors,   \* calls of processWebhookDeliveries at a time
          Limit,        \* LIMIT of the SELECT
          MaxAttempts,  \* attempts < 5 in the SELECT
          MaxFaults     \* bound on failed statements and crashes

ASSUME DeliveriesAssumption == Deliveries \subseteq Nat
ASSUME BoundsAssumption == {Limit, MaxAttempts, MaxFaults} \subseteq Nat \ {0}

VARIABLES
  enqueued, delivered,  \* rows of webhook_deliveries and those delivered
  attempts,             \* their committed attempts
  pc,                   \* of each processor: "idle" or "open"
  batch, held, marks,   \* rows to mark, locked, and marked in its transaction
  faults

tx == <<pc, batch, held, marks>>
vars == <<enqueued, delivered, attempts, tx, faults>>

Init ==
  /\ enqueued = {} /\ delivered = {}
  /\ attempts = [d \in Deliveries |-> 0]
  /\ pc = [p \in Processors |-> "idle"]
  /\ batch = [p \in Processors |-> {}]
  /\ held = [p \in Processors |-> {}]
  /\ marks = [p \in Processors |-> {}]
  /\ faults = 0

EnqueueDelivery(d) ==
  /\ d \notin enqueued
  /\ enqueued' = enqueued \cup {d}
  /\ UNCHANGED <<delivered, attempts, tx, faults>>

Pending == { d \in enqueued \ delivered : attempts[d] < MaxAttempts }

(* Bug: FOR UPDATE is missing. *)
CandidatesUnlocked == Pending

Candidates == Pending \ UNION { held[p] : p \in Processors }

First(n, S) == { d \in S : Cardinality({ e \in S : e < d }) < n }

(* BEGIN and SELECT; with no row the COMMIT follows at once. *)
Select(p) ==
  /\ pc[p] = "idle" /\ Candidates # {}
  /\ pc' = [pc EXCEPT ![p] = "open"]
  /\ batch' = [batch EXCEPT ![p] = First(Limit, Candidates)]
  /\ held' = [held EXCEPT ![p] = First(Limit, Candidates)]
  /\ UNCHANGED <<enqueued, delivered, attempts, marks, faults>>

(* UPDATE ... status = 'delivered', attempts = attempts + 1. *)
Mark(p) ==
  \E d \in batch[p] :
    /\ \A e \in batch[p] : d <= e
    /\ batch' = [batch EXCEPT ![p] = @ \ {d}]
    /\ marks' = [marks EXCEPT ![p] = @ \cup {d}]
    /\ UNCHANGED <<enqueued, delivered, attempts, pc, held, faults>>

Close(p) ==
  /\ pc' = [pc EXCEPT ![p] = "idle"]
  /\ batch' = [batch EXCEPT ![p] = {}]
  /\ held' = [held EXCEPT ![p] = {}]
  /\ marks' = [marks EXCEPT ![p] = {}]

Fault == faults < MaxFaults /\ faults' = faults + 1

(* COMMIT; whether or not its answer comes, what it marked is delivered. *)
Commit(p) ==
  /\ pc[p] = "open" /\ batch[p] = {}
  /\ delivered' = delivered \cup marks[p]
  /\ attempts' = [d \in Deliveries |-> IF d \in marks[p] THEN attempts[d] + 1 ELSE attempts[d]]
  /\ Close(p)
  /\ UNCHANGED <<enqueued, faults>>

(* Bug: the catch block does not roll back and keeps the client. *)
RollbackMissing(p) ==
  /\ pc[p] = "open"
  /\ Fault
  /\ pc' = [pc EXCEPT ![p] = "idle"]
  /\ batch' = [batch EXCEPT ![p] = {}]
  /\ UNCHANGED <<enqueued, delivered, attempts, held, marks>>

(* Any statement fails, or the process ends: ROLLBACK, 0 is returned. *)
Rollback(p) ==
  /\ pc[p] = "open"
  /\ Fault
  /\ Close(p)
  /\ UNCHANGED <<enqueued, delivered, attempts>>

Step(p) == Select(p) \/ Mark(p) \/ Commit(p)

Next ==
  \/ \E d \in Deliveries : EnqueueDelivery(d)
  \/ \E p \in Processors : Step(p) \/ Rollback(p)

Spec == Init /\ [][Next]_vars

(* Whoever calls processWebhookDeliveries calls it again and again. *)
Fairness == \A p \in Processors : WF_vars(Step(p))

FairSpec == Spec /\ Fairness

-----------------------------------------------------------------------------
(* Every variable has its type; no row is locked by two processors.          *)
TypeOK ==
  /\ delivered \subseteq enqueued /\ enqueued \subseteq Deliveries
  /\ attempts \in [Deliveries -> 0 .. MaxAttempts]
  /\ pc \in [Processors -> {"idle", "open"}]
  /\ batch \in [Processors -> SUBSET enqueued]
  /\ held \in [Processors -> SUBSET enqueued]
  /\ marks \in [Processors -> SUBSET enqueued]
  /\ faults \in 0 .. MaxFaults
  /\ \A p \in Processors :
       /\ batch[p] \cup marks[p] = held[p] /\ batch[p] \cap marks[p] = {}
       /\ pc[p] = "idle" => held[p] = {}
  /\ \A p, q \in Processors : p # q => held[p] \cap held[q] = {}

(* Every delivery is sent exactly once: its attempts are 1 when it is        *)
(* delivered and 0 before, whatever failed and however processors overlap.   *)
(* So the bound of five attempts is never met.                               *)
SentOnce == \A d \in Deliveries : attempts[d] = IF d \in delivered THEN 1 ELSE 0

(* Every enqueued delivery is delivered once failures end. *)
EveryDeliverySent == \A d \in Deliveries : d \in enqueued ~> d \in delivered
=============================================================================
