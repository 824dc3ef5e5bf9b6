----------------------------- MODULE OrderService -----------------------------
(***************************************************************************)
(* The write operations of the order services (createOrder, confirmOrder,  *)
(* updateOrder, createShipment, createInvoice, revertOrder) as concurrent  *)
(* requests, each one a PostgreSQL transaction at READ COMMITTED:          *)
(*   - a SELECT sees what is committed when it runs and locks nothing;     *)
(*   - an UPDATE waits for the row's lock, sees the row as committed when  *)
(*     it gets it and keeps the lock to the end of the transaction;        *)
(*   - nothing a transaction wrote is seen before its COMMIT, and an error *)
(*     at any point (a statement, the connection, the process) undoes it.  *)
(* The variables orders .. audit are the committed rows.  What an open     *)
(* transaction has written is determined by its call, the phase it is in   *)
(* and the locks it holds.                                                 *)
(***************************************************************************)
EXTENDS Sequences, SagaSteps

CONSTANTS OrderIds,    \* primary keys of canonical_orders
          Requests,    \* API calls; each is made at most once
          NoRequest,   \* owner of a free row lock
          Operations,  \* the operations that clients call
          NewStatuses  \* the values of status that clients PATCH

ASSUME NoRequestAssumption == NoRequest \notin Requests

Absent == "ABSENT"

Statuses == {"DRAFT", "CONFIRMED", "PROCESSING", "SHIPPED", "INVOICED",
             "COMPLETED", "CANCELLED"}

ASSUME OperationsAssumption ==
  Operations \subseteq {"create", "confirm", "update", "ship", "invoice", "revert"}

ASSUME NewStatusesAssumption == NewStatuses \subseteq Statuses

VARIABLES
  orders,     \* [OrderIds -> Statuses or Absent]: canonical_orders.status
  sagas,      \* [OrderIds -> Steps or Absent]: order_sagas.current_step
  outbox,     \* rows of outbox: [type, order, by]
  shipments,  \* rows of canonical_shipments: [order, by]
  invoices,   \* rows of canonical_invoices: [order, by]
  audit,      \* rows of audit_log in commit order
  pc,         \* phase of each request
  call,       \* operation, order and argument of each request
  seen,       \* status that the request's SELECT returned
  from,       \* index of the audit row that a revert restores
  orderLock,  \* the request whose open transaction wrote the order's row
  sagaLock    \* the request whose open transaction wrote the saga's row

rows  == <<orders, sagas, outbox, shipments, invoices, audit>>
locks == <<orderLock, sagaLock>>
vars  == <<rows, pc, call, seen, from, locks>>

(***************************************************************************)
(* Calls.  arg is the status a PATCH carries ("keep": other fields only,   *)
(* "empty": no field at all), and for a revert whether options.force is    *)
(* set.                                                                    *)
(***************************************************************************)
Args(op) == IF op = "update" THEN NewStatuses \cup {"keep", "empty"}
            ELSE IF op = "revert" THEN {"force", "checked"}
            ELSE {"none"}

AllArgs == Statuses \cup {"keep", "empty", "force", "checked", "none"}

NoCall == [op |-> "none", order |-> "none", arg |-> "none"]

Phases == {"idle", "impact", "find", "order", "saga", "commit", "done"}

Live(r) == pc[r] \notin {"idle", "done"}

Target(r) == call[r].order

Goto(r, phase) == pc' = [pc EXCEPT ![r] = phase]

Init ==
  /\ orders = [o \in OrderIds |-> Absent]
  /\ sagas = [o \in OrderIds |-> Absent]
  /\ outbox = {} /\ shipments = {} /\ invoices = {} /\ audit = <<>>
  /\ pc = [r \in Requests |-> "idle"]
  /\ call = [r \in Requests |-> NoCall]
  /\ seen = [r \in Requests |-> Absent]
  /\ from = [r \in Requests |-> 0]
  /\ orderLock = [o \in OrderIds |-> NoRequest]
  /\ sagaLock = [o \in OrderIds |-> NoRequest]

(***************************************************************************)
(* The end of a request, whatever its outcome: its transaction releases    *)
(* its locks and its local variables are gone.                             *)
(***************************************************************************)
(* Bug: an error path that ends without ROLLBACK. *)
ReleaseOnCommitOnly(r, lock) ==
  IF pc[r] = "commit" THEN [o \in OrderIds |-> IF lock[o] = r THEN NoRequest ELSE lock[o]]
                      ELSE lock

Release(r, lock) == [o \in OrderIds |-> IF lock[o] = r THEN NoRequest ELSE lock[o]]

Finish(r) ==
  /\ Goto(r, "done")
  /\ call' = [call EXCEPT ![r] = NoCall]
  /\ seen' = [seen EXCEPT ![r] = Absent]
  /\ from' = [from EXCEPT ![r] = 0]
  /\ orderLock' = Release(r, orderLock)
  /\ sagaLock' = Release(r, sagaLock)

(***************************************************************************)
(* A call arrives.  createOrder has nothing to read and nothing to wait    *)
(* for: its four INSERTs are of rows no one else can see, with a fresh     *)
(* uuid, so that only its COMMIT is left.  revertOrder analyses the impact *)
(* first unless it is forced.                                              *)
(***************************************************************************)
Fresh(o) ==
  /\ orders[o] = Absent
  /\ \A q \in Requests : Live(q) => ~(call[q].op = "create" /\ Target(q) = o)

FirstPhase(op, arg) == IF op = "create" THEN "commit"
                       ELSE IF op = "revert" /\ arg = "checked" THEN "impact"
                       ELSE "find"

Begin(r, op, o, arg) ==
  /\ pc[r] = "idle"
  /\ op = "create" => Fresh(o)
  /\ call' = [call EXCEPT ![r] = [op |-> op, order |-> o, arg |-> arg]]
  /\ Goto(r, FirstPhase(op, arg))
  /\ UNCHANGED <<rows, seen, from, locks>>

(***************************************************************************)
(* analyzeOrderImpact, on a connection of its own before the revert's      *)
(* transaction: one direct impact refuses the revert.  Its two SELECTs are *)
(* one step: rows are never deleted, so an invoice or a shipment that      *)
(* arrives between the two is as good as one that arrives after both.      *)
(***************************************************************************)
DirectImpacts(o) == { d \in shipments \cup invoices : d.order = o }

AnalyzeImpact(r) ==
  /\ pc[r] = "impact"
  /\ \/ /\ DirectImpacts(Target(r)) # {}
        /\ Finish(r)
     \/ /\ DirectImpacts(Target(r)) = {}
        /\ Goto(r, "find")
        /\ UNCHANGED <<call, seen, from, locks>>
  /\ UNCHANGED rows

(***************************************************************************)
(* The SELECT that each operation starts with, and its early returns: no   *)
(* such order (404), not a DRAFT (400), nothing to update.                 *)
(***************************************************************************)
Refused(op, arg, status) ==
  \/ status = Absent
  \/ op = "confirm" /\ status # "DRAFT"
  \/ op = "update" /\ arg = "empty"

FindOrder(r) ==
  /\ pc[r] = "find"
  /\ call[r].op # "revert"
  /\ \/ /\ Refused(call[r].op, call[r].arg, orders[Target(r)])
        /\ Finish(r)
     \/ /\ ~Refused(call[r].op, call[r].arg, orders[Target(r)])
        /\ seen' = [seen EXCEPT ![r] = orders[Target(r)]]
        /\ Goto(r, IF call[r].op \in {"ship", "invoice"} THEN "saga" ELSE "order")
        /\ UNCHANGED <<call, from, locks>>
  /\ UNCHANGED rows

(* The audit rows a revert can restore: options.targetAuditId names any of   *)
(* them, the default is one of them.  None of them: 404.                     *)
Restorable(o) ==
  { i \in DOMAIN audit : audit[i].order = o /\ audit[i].old # Absent }

FindAudit(r) ==
  /\ pc[r] = "find"
  /\ call[r].op = "revert"
  /\ \/ /\ Restorable(Target(r)) = {}
        /\ Finish(r)
     \/ \E i \in Restorable(Target(r)) :
          /\ from' = [from EXCEPT ![r] = i]
          /\ Goto(r, "order")
          /\ UNCHANGED <<call, seen, locks>>
  /\ UNCHANGED rows

(***************************************************************************)
(* UPDATE canonical_orders ... WHERE id: nothing but the id is tested.     *)
(***************************************************************************)
UpdateOrderRow(r) ==
  /\ pc[r] = "order"
  /\ orderLock[Target(r)] = NoRequest
  /\ orderLock' = [orderLock EXCEPT ![Target(r)] = r]
  /\ Goto(r, IF call[r].op = "confirm" THEN "saga" ELSE "commit")
  /\ UNCHANGED <<rows, call, seen, from, sagaLock>>

(***************************************************************************)
(* UPDATE order_sagas ... WHERE order_id AND current_step IN (...).  A row *)
(* that fails the test is neither locked nor waited for, even when another *)
(* transaction is writing the step that would pass it.                     *)
(***************************************************************************)
(* Bug: createShipment advances the saga of an unconfirmed order too. *)
AwaitsNoConfirmation(op) ==
  IF op = "confirm" THEN Steps
  ELSE IF op = "ship" THEN {"PO_RECEIVED", "PO_CONFIRMED", "ACK_DELIVERED"}
  ELSE {"ASN_DELIVERED", "SHIP_READY"}

(* Bug: a second shipment restarts the shipping part of the saga. *)
AwaitsAnythingConfirmed(op) ==
  IF op = "confirm" THEN Steps
  ELSE IF op = "ship" THEN AckSteps \cup AsnSteps
  ELSE {"ASN_DELIVERED", "SHIP_READY"}

Awaits(op) == IF op = "confirm" THEN Steps
              ELSE IF op = "ship" THEN {"PO_CONFIRMED", "ACK_DELIVERED"}
              ELSE {"ASN_DELIVERED", "SHIP_READY"}    \* "invoice"

(* Bug: the row is written without waiting for its lock. *)
UpdateSagaRowUnlocked(r) ==
  /\ pc[r] = "saga"
  /\ sagaLock' = IF sagas[Target(r)] \in Awaits(call[r].op)
                   THEN [sagaLock EXCEPT ![Target(r)] = r] ELSE sagaLock
  /\ Goto(r, "commit")
  /\ UNCHANGED <<rows, call, seen, from, orderLock>>

UpdateSagaRow(r) ==
  /\ pc[r] = "saga"
  /\ \/ /\ sagas[Target(r)] \in Awaits(call[r].op)
        /\ sagaLock[Target(r)] = NoRequest
        /\ sagaLock' = [sagaLock EXCEPT ![Target(r)] = r]
     \/ /\ sagas[Target(r)] \notin Awaits(call[r].op)
        /\ UNCHANGED sagaLock
  /\ Goto(r, "commit")
  /\ UNCHANGED <<rows, call, seen, from, orderLock>>

(***************************************************************************)
(* COMMIT: what the transaction wrote becomes visible and its locks are    *)
(* released.                                                               *)
(***************************************************************************)
Committing(r, op) ==
  /\ pc[r] = "commit"
  /\ call[r].op = op
  /\ Finish(r)

Emit(r, type) == outbox' = outbox \cup { [type |-> type, order |-> Target(r), by |-> r] }

SetStatus(r, status) == orders' = [orders EXCEPT ![Target(r)] = status]

(* The step is written only when the UPDATE found its row. *)
SetStep(r, step) ==
  sagas' = IF sagaLock[Target(r)] = r THEN [sagas EXCEPT ![Target(r)] = step]
                                      ELSE sagas

Audit(r, action, old, new) ==
  audit' = Append(audit, [action |-> action, order |-> Target(r), by |-> r,
                          old |-> old, new |-> new, from |-> from[r]])

CommitCreate(r) ==
  /\ Committing(r, "create")
  /\ SetStatus(r, "DRAFT")
  /\ Emit(r, "INBOUND_PO_RECEIVED")
  /\ sagas' = [sagas EXCEPT ![Target(r)] = "PO_RECEIVED"]
  /\ Audit(r, "CREATE", Absent, "DRAFT")
  /\ UNCHANGED <<shipments, invoices>>

CommitConfirm(r) ==
  /\ Committing(r, "confirm")
  /\ SetStatus(r, "CONFIRMED")
  /\ Emit(r, "ORDER_CONFIRMED")
  /\ SetStep(r, "PO_CONFIRMED")
  /\ Audit(r, "CONFIRM", seen[r], "CONFIRMED")
  /\ UNCHANGED <<shipments, invoices>>

(* Bug: new_record is the row that was read with the PATCH applied to it,    *)
(* not the row that the UPDATE returned.                                     *)
CommitUpdateAuditsReadRow(r) ==
  LET status(old) == IF call[r].arg = "keep" THEN old ELSE call[r].arg
  IN  /\ Committing(r, "update")
      /\ SetStatus(r, status(orders[Target(r)]))
      /\ Audit(r, "UPDATE", seen[r], status(seen[r]))
      /\ UNCHANGED <<sagas, outbox, shipments, invoices>>

CommitUpdate(r) ==
  LET status == IF call[r].arg = "keep" THEN orders[Target(r)] ELSE call[r].arg
  IN  /\ Committing(r, "update")
      /\ SetStatus(r, status)
      /\ Audit(r, "UPDATE", seen[r], status)
      /\ UNCHANGED <<sagas, outbox, shipments, invoices>>

CommitShip(r) ==
  /\ Committing(r, "ship")
  /\ shipments' = shipments \cup { [order |-> Target(r), by |-> r] }
  /\ Emit(r, "SHIPMENT_CREATED")
  /\ SetStep(r, "SHIP_READY")
  /\ Audit(r, "SHIP", Absent, Absent)
  /\ UNCHANGED <<orders, invoices>>

CommitInvoice(r) ==
  /\ Committing(r, "invoice")
  /\ invoices' = invoices \cup { [order |-> Target(r), by |-> r] }
  /\ Emit(r, "INVOICE_CREATED")
  /\ SetStep(r, "INVOICE_READY")
  /\ Audit(r, "INVOICE", Absent, Absent)
  /\ UNCHANGED <<orders, shipments>>

CommitRevert(r) ==
  /\ Committing(r, "revert")
  /\ SetStatus(r, audit[from[r]].old)
  /\ Audit(r, "REVERT", Absent, Absent)
  /\ UNCHANGED <<sagas, outbox, shipments, invoices>>

(***************************************************************************)
(* An error anywhere before the COMMIT: ROLLBACK, and the error goes to    *)
(* the client.  A crash of the process ends every open transaction so.     *)
(***************************************************************************)
(* Bug: the shipment is inserted outside the transaction. *)
RollbackKeepsShipment(r) ==
  /\ Live(r)
  /\ Finish(r)
  /\ shipments' = IF call[r].op = "ship" /\ pc[r] \in {"saga", "commit"}
                    THEN shipments \cup { [order |-> Target(r), by |-> r] } ELSE shipments
  /\ UNCHANGED <<orders, sagas, outbox, invoices, audit>>

Rollback(r) ==
  /\ Live(r)
  /\ Finish(r)
  /\ UNCHANGED rows

(***************************************************************************)
(* The workers that send a document to the buyer and record how far it     *)
(* got are not part of the repository: they are taken to follow            *)
(* SAGA_TRANSITIONS and to write the row under its lock.                   *)
(***************************************************************************)
Work(o) ==
  /\ sagaLock[o] = NoRequest
  /\ \E s \in Steps : /\ WorkerTransition(sagas[o], s)
                      /\ sagas' = [sagas EXCEPT ![o] = s]
  /\ UNCHANGED <<orders, outbox, shipments, invoices, audit, pc, call, seen, from, locks>>

Commit(r) ==
  \/ CommitCreate(r) \/ CommitConfirm(r) \/ CommitUpdate(r)
  \/ CommitShip(r) \/ CommitInvoice(r) \/ CommitRevert(r)

Advance(r) ==
  \/ AnalyzeImpact(r) \/ FindOrder(r) \/ FindAudit(r)
  \/ UpdateOrderRow(r) \/ UpdateSagaRow(r) \/ Commit(r)

Next ==
  \/ \E r \in Requests :
       \/ \E op \in Operations, o \in OrderIds : \E arg \in Args(op) : Begin(r, op, o, arg)
       \/ Advance(r)
       \/ Rollback(r)
  \/ \E o \in OrderIds : Work(o)

Spec == Init /\ [][Next]_vars

(***************************************************************************)
(* Node's event loop and PostgreSQL run every open request on until it is  *)
(* answered.  Nobody owes a call, a worker's step or an error.             *)
(***************************************************************************)
Fairness == \A r \in Requests : WF_vars(Advance(r))

FairSpec == Spec /\ Fairness

-----------------------------------------------------------------------------
(***************************************************************************)
(* Properties.                                                             *)
(***************************************************************************)

AuditRows ==
  [action : {"CREATE", "CONFIRM", "UPDATE", "SHIP", "INVOICE", "REVERT"},
   order : OrderIds, by : Requests, old : Statuses \cup {Absent},
   new : Statuses \cup {Absent}, from : Nat]

Marks == [order : OrderIds, by : Requests]

EventTypes == {"INBOUND_PO_RECEIVED", "ORDER_CONFIRMED", "SHIPMENT_CREATED",
               "INVOICE_CREATED"}

(* Every variable has its type, and an open request knows its call. *)
TypeOK ==
  /\ orders \in [OrderIds -> Statuses \cup {Absent}]
  /\ sagas \in [OrderIds -> Steps \cup {Absent}]
  /\ outbox \subseteq [type : EventTypes, order : OrderIds, by : Requests]
  /\ shipments \subseteq Marks
  /\ invoices \subseteq Marks
  /\ audit \in Seq(AuditRows)
  /\ pc \in [Requests -> Phases]
  /\ call \in [Requests -> [op : Operations \cup {"none"},
                            order : OrderIds \cup {"none"}, arg : AllArgs]]
  /\ \A r \in Requests : Live(r) => /\ call[r].op \in Operations
                                    /\ call[r].order \in OrderIds
                                    /\ call[r].arg \in Args(call[r].op)
  /\ seen \in [Requests -> Statuses \cup {Absent}]
  /\ from \in [Requests -> Nat]
  /\ orderLock \in [OrderIds -> Requests \cup {NoRequest}]
  /\ sagaLock \in [OrderIds -> Requests \cup {NoRequest}]

HasEvent(type, o) == \E e \in outbox : e.type = type /\ e.order = o

HasRow(table, o) == \E d \in table : d.order = o

(* A saga is never ahead of the documents: past PO_RECEIVED the order's      *)
(* confirmation was emitted, at SHIP_READY and later a shipment exists, at   *)
(* INVOICE_READY and later an invoice.  However requests that read stale     *)
(* state interleave, whatever fails, the workers downstream never find a     *)
(* step whose document is missing.                                           *)
SagaEvidence ==
  \A o \in OrderIds :
    /\ sagas[o] \in AckSteps \cup AsnSteps \cup InvoiceSteps => HasEvent("ORDER_CONFIRMED", o)
    /\ sagas[o] \in AsnSteps \cup InvoiceSteps               => HasRow(shipments, o)
    /\ sagas[o] \in InvoiceSteps                             => HasRow(invoices, o)

EventsOf(type) ==
  { [order |-> e.order, by |-> e.by] : e \in { x \in outbox : x.type = type } }

(* Whatever fails and wherever: an order exists with its saga and its        *)
(* INBOUND_PO_RECEIVED event or not at all, and shipments and invoices have  *)
(* exactly one event each, none of them of an order that does not exist.     *)
OutboxComplete ==
  /\ EventsOf("SHIPMENT_CREATED") = shipments
  /\ EventsOf("INVOICE_CREATED") = invoices
  /\ \A o \in OrderIds :
       /\ orders[o] # Absent <=> sagas[o] # Absent
       /\ orders[o] # Absent <=> HasEvent("INBOUND_PO_RECEIVED", o)
  /\ \A e \in outbox : orders[e.order] # Absent
  /\ \A e, f \in outbox : e.by = f.by \/ e.order # f.order \/ e.type # "INBOUND_PO_RECEIVED"
                                       \/ f.type # "INBOUND_PO_RECEIVED"

(* The status an audit row stands for: a REVERT names the row it restored. *)
StatusAfter(i) ==
  IF audit[i].action = "REVERT" THEN audit[audit[i].from].old ELSE audit[i].new

StatusRows(o) == { i \in DOMAIN audit : audit[i].order = o /\ StatusAfter(i) # Absent }

(* The audit log read in commit order ends at the status the order has, so   *)
(* that no committed change of status is unaudited or audited wrongly.       *)
AuditReplays ==
  \A o \in OrderIds :
    IF StatusRows(o) = {} THEN orders[o] = Absent
    ELSE \E i \in StatusRows(o) : /\ \A j \in StatusRows(o) : j <= i
                                  /\ orders[o] = StatusAfter(i)

(* Only a confirmation can move a saga back; a shipment, an invoice or a     *)
(* worker, however stale what it read, moves it forward or not at all.       *)
SagaForward ==
  [][\A o \in OrderIds :
       sagas[o] \in Steps /\ sagas'[o] # sagas[o]
         => \/ Rank[sagas[o]] < Rank[sagas'[o]]
            \/ \E r \in Requests : CommitConfirm(r) /\ Target(r) = o]_vars

(* The transactions, seen by what they commit, are the one-step operations   *)
(* of OrderLedger: all of an operation's writes or none, at most once per    *)
(* request, and a revert to a status the order once had.                     *)
trail == [i \in DOMAIN audit |-> [by |-> audit[i].by, order |-> audit[i].order,
                                  status |-> StatusAfter(i)]]

Ledger == INSTANCE OrderLedger
            WITH orders <- orders, sagas <- sagas, outbox <- outbox,
                 shipments <- shipments, invoices <- invoices, trail <- trail

LedgerSpec == Ledger!Spec

(* Every request is answered: the order in which transactions take the locks *)
(* of the order and of the saga leaves no two of them waiting for each other *)
(* and no lock behind.                                                       *)
EveryRequestAnswered == \A r \in Requests : Live(r) ~> pc[r] = "done"

=============================================================================
