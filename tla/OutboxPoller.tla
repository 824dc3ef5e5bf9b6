----------------------------- MODULE OutboxPoller -----------------------------
(***************************************************************************)
(* pollOutbox: each tick of the timer opens a transaction, takes the       *)
(* oldest unprocessed events with FOR UPDATE SKIP LOCKED, calls the        *)
(* handler on each and marks it, and commits at the end.  setInterval does *)
(* not wait for a poll to end and several processes may poll, so polls     *)
(* overlap.  PostgreSQL drops a transaction, with its row locks, as soon   *)
(* as one of its statements fails or its connection is lost; the loop only *)
(* logs the rejected UPDATE and goes on calling the handler.               *)
(***************************************************************************)
EXTENDS Integers, FiniteSets

CONSTANTS Events,     \* rows of outbox, numbered by created_at
          Poison,     \* events that the handler rejects each time
          Polls,      \* calls of pollOutbox that may be open at a time
          Processes,  \* the polls of each API process, a set of sets
          Limit,      \* LIMIT of the SELECT
          MaxFaults   \* bound on the faults of a behaviour

ASSUME EventsAssumption == Events \subseteq Nat /\ Poison \subseteq Events
ASSUME ProcessesAssumption == IsFiniteSet(Polls) /\ Processes \subseteq SUBSET Polls
ASSUME LimitAssumption == Limit \in Nat \ {0}
ASSUME MaxFaultsAssumption == MaxFaults \in Nat

VARIABLES
  inserted,    \* events whose INSERT is committed
  processed,   \* events with a committed processed_at
  dispatched,  \* how often the handler took effect for each event
  timer,       \* the processes whose poller is started
  pc,          \* "idle", "loop" or "mark"
  batch,       \* events that a poll has yet to handle
  held,        \* events whose rows a poll's open transaction has locked
  marks,       \* events that a poll's open transaction has marked
  tx,          \* "none", "open", or "aborted" or "lost" without the poll knowing
  faults       \* statements, connections, handler calls and processes failed

poll == <<pc, batch, held, marks, tx>>
vars == <<inserted, processed, dispatched, timer, poll, faults>>

Init ==
  /\ inserted = {} /\ processed = {}
  /\ dispatched = [e \in Events |-> 0]
  /\ timer = [P \in Processes |-> FALSE]
  /\ pc = [p \in Polls |-> "idle"]
  /\ batch = [p \in Polls |-> {}]
  /\ held = [p \in Polls |-> {}]
  /\ marks = [p \in Polls |-> {}]
  /\ tx = [p \in Polls |-> "none"]
  /\ faults = 0

(* The transactions of the services: created_at is when a transaction began,  *)
(* so that events may be committed in another order than they are numbered.   *)
Insert(e) ==
  /\ e \notin inserted
  /\ inserted' = inserted \cup {e}
  /\ UNCHANGED <<processed, dispatched, timer, poll, faults>>

(* Stopping clears the timer and leaves open polls alone. *)
StartStop(P) ==
  /\ timer' = [timer EXCEPT ![P] = ~timer[P]]
  /\ UNCHANGED <<inserted, processed, dispatched, poll, faults>>

Fault ==
  /\ faults < MaxFaults
  /\ faults' = faults + 1

(***************************************************************************)
(* BEGIN and SELECT.  A row that another poll has processed meanwhile is   *)
(* tested again once its lock is free, so that only the committed state    *)
(* when the locks are taken matters.  No row: COMMIT at once.              *)
(***************************************************************************)
Locked == UNION { held[p] : p \in Polls }

(* Bug: the SELECT does not lock. *)
AvailableLocked == inserted \ processed

Available == inserted \ (processed \cup Locked)

Oldest(S) == CHOOSE e \in S : \A f \in S : e <= f

First(n, S) == { e \in S : Cardinality({ f \in S : f < e }) < n }

Tick(p) ==
  /\ \E P \in Processes : p \in P /\ timer[P]
  /\ pc[p] = "idle"
  /\ Available # {}
  /\ pc' = [pc EXCEPT ![p] = "loop"]
  /\ batch' = [batch EXCEPT ![p] = First(Limit, Available)]
  /\ held' = [held EXCEPT ![p] = First(Limit, Available)]
  /\ tx' = [tx EXCEPT ![p] = "open"]
  /\ UNCHANGED <<inserted, processed, dispatched, timer, marks, faults>>

(***************************************************************************)
(* The handler resolves and the UPDATE is next, or it rejects and the      *)
(* event stays unprocessed: a poison event each time, another event only   *)
(* by a fault, with or without effect.                                     *)
(***************************************************************************)
Current(p) == Oldest(batch[p])

Handling(p) == pc[p] = "loop" /\ batch[p] # {}

Count(e) == dispatched' = [dispatched EXCEPT ![e] = @ + 1]

NextEvent(p) == batch' = [batch EXCEPT ![p] = @ \ {Current(p)}]

Dispatch(p) ==
  /\ Handling(p)
  /\ Current(p) \notin Poison
  /\ Count(Current(p))
  /\ pc' = [pc EXCEPT ![p] = "mark"]
  /\ UNCHANGED <<inserted, processed, timer, batch, held, marks, tx, faults>>

(* Bug: no try/catch per event, one rejection rolls the whole poll back. *)
RejectEndsPoll(p) ==
  /\ Handling(p)
  /\ Current(p) \in Poison
  /\ pc' = [pc EXCEPT ![p] = "idle"]
  /\ batch' = [batch EXCEPT ![p] = {}]
  /\ held' = [held EXCEPT ![p] = {}]
  /\ marks' = [marks EXCEPT ![p] = {}]
  /\ tx' = [tx EXCEPT ![p] = "none"]
  /\ UNCHANGED <<inserted, processed, dispatched, timer, faults>>

Reject(p) ==
  /\ Handling(p)
  /\ Current(p) \in Poison
  /\ NextEvent(p)
  /\ UNCHANGED <<inserted, processed, dispatched, timer, pc, held, marks, tx, faults>>

HandlerFault(p) ==
  /\ Handling(p)
  /\ Current(p) \notin Poison
  /\ Fault
  /\ Count(Current(p)) \/ UNCHANGED dispatched
  /\ NextEvent(p)
  /\ UNCHANGED <<inserted, processed, timer, pc, held, marks, tx>>

(* UPDATE outbox SET processed_at, rejected if the transaction is gone. *)
Mark(p) ==
  /\ pc[p] = "mark"
  /\ marks' = IF tx[p] = "open" THEN [marks EXCEPT ![p] = @ \cup {Current(p)}] ELSE marks
  /\ NextEvent(p)
  /\ pc' = [pc EXCEPT ![p] = "loop"]
  /\ UNCHANGED <<inserted, processed, dispatched, timer, held, tx, faults>>

(* The UPDATE itself fails: the server aborts the transaction, whose marks    *)
(* and locks are gone, and the catch goes on with the next event.             *)
MarkFails(p) ==
  /\ pc[p] = "mark" /\ tx[p] = "open"
  /\ Fault
  /\ tx' = [tx EXCEPT ![p] = "aborted"]
  /\ held' = [held EXCEPT ![p] = {}]
  /\ marks' = [marks EXCEPT ![p] = {}]
  /\ NextEvent(p)
  /\ pc' = [pc EXCEPT ![p] = "loop"]
  /\ UNCHANGED <<inserted, processed, dispatched, timer>>

(* Bug: an event counts as processed whether its handler resolved or not. *)
CommitAll(p) ==
  /\ pc[p] = "loop" /\ batch[p] = {}
  /\ processed' = processed \cup held[p]
  /\ pc' = [pc EXCEPT ![p] = "idle"]
  /\ held' = [held EXCEPT ![p] = {}]
  /\ marks' = [marks EXCEPT ![p] = {}]
  /\ tx' = [tx EXCEPT ![p] = "none"]
  /\ UNCHANGED <<inserted, dispatched, timer, batch, faults>>

(* COMMIT, a ROLLBACK if the transaction is aborted or lost, and release. *)
Commit(p) ==
  /\ pc[p] = "loop" /\ batch[p] = {}
  /\ processed' = processed \cup marks[p]
  /\ pc' = [pc EXCEPT ![p] = "idle"]
  /\ held' = [held EXCEPT ![p] = {}]
  /\ marks' = [marks EXCEPT ![p] = {}]
  /\ tx' = [tx EXCEPT ![p] = "none"]
  /\ UNCHANGED <<inserted, dispatched, timer, batch, faults>>

(* The connection is lost: marks and locks are gone, and the poll learns of   *)
(* it only from the statements that are rejected.                             *)
LoseTransaction(p) ==
  /\ tx[p] = "open"
  /\ Fault
  /\ tx' = [tx EXCEPT ![p] = "lost"]
  /\ held' = [held EXCEPT ![p] = {}]
  /\ marks' = [marks EXCEPT ![p] = {}]
  /\ UNCHANGED <<inserted, processed, dispatched, timer, pc, batch>>

(* A process ends with all its polls; StartStop is its restart. *)
Crash(P) ==
  LET cleared(f, value) == [p \in Polls |-> IF p \in P THEN value ELSE f[p]]
  IN  /\ \E p \in P : pc[p] # "idle"
      /\ Fault
      /\ timer' = [timer EXCEPT ![P] = FALSE]
      /\ pc' = cleared(pc, "idle")
      /\ batch' = cleared(batch, {})
      /\ held' = cleared(held, {})
      /\ marks' = cleared(marks, {})
      /\ tx' = cleared(tx, "none")
      /\ UNCHANGED <<inserted, processed, dispatched>>

Step(p) == Dispatch(p) \/ Reject(p) \/ Mark(p) \/ Commit(p)

Next ==
  \/ \E e \in Events : Insert(e)
  \/ \E P \in Processes : StartStop(P) \/ Crash(P)
  \/ \E p \in Polls : Tick(p) \/ Step(p) \/ HandlerFault(p) \/ MarkFails(p) \/ LoseTransaction(p)

Spec == Init /\ [][Next]_vars

(* The event loop runs an open poll on, and setInterval fires as long as it  *)
(* is not cleared.                                                           *)
Fairness == \A p \in Polls : WF_vars(Step(p)) /\ WF_vars(Tick(p))

FairSpec == Spec /\ Fairness

-----------------------------------------------------------------------------
(* Every variable has its type; a poll that is idle holds nothing and its    *)
(* locks are on rows of its own SELECT.                                      *)
TypeOK ==
  /\ inserted \subseteq Events
  /\ processed \subseteq inserted
  /\ dispatched \in [Events -> Nat]
  /\ timer \in [Processes -> BOOLEAN]
  /\ pc \in [Polls -> {"idle", "loop", "mark"}]
  /\ batch \in [Polls -> SUBSET inserted]
  /\ held \in [Polls -> SUBSET inserted]
  /\ marks \in [Polls -> SUBSET inserted]
  /\ tx \in [Polls -> {"none", "open", "aborted", "lost"}]
  /\ faults \in 0 .. MaxFaults
  /\ \A p \in Polls :
       /\ tx[p] = "open" => batch[p] \subseteq held[p] /\ marks[p] \subseteq held[p] \ batch[p]
       /\ tx[p] # "open" => held[p] = {} /\ marks[p] = {}
       /\ pc[p] = "idle" <=> tx[p] = "none"
       /\ pc[p] = "idle" => batch[p] = {}
       /\ pc[p] = "mark" => batch[p] # {}

(* No event is lost: whatever fails, and in whatever order polls mark and    *)
(* commit, an event that no later poll will select took effect at least once.*)
ProcessedTookEffect == \A e \in processed : dispatched[e] > 0

(* One fault costs one redelivery of an event at most, however many events   *)
(* its poll had and however many polls overlap; without a fault each event   *)
(* takes effect once.  A poll that goes on with its batch without a          *)
(* transaction, while another has the same rows, is within that bound.       *)
RedeliveryNeedsFault == \A e \in Events : dispatched[e] <= 1 + faults

(* An event that the handler accepts is processed in the end, although       *)
(* poison events come first in each poll: fewer than Limit of them cannot    *)
(* fill the SELECT.                                                          *)
HealthyProcessed ==
  (\E P \in Processes : P # {} /\ <>[](timer[P]))
    => \A e \in Events \ Poison : e \in inserted ~> e \in processed
=============================================================================
