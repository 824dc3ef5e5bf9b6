----------------------------- MODULE OrderLedger -----------------------------
(***************************************************************************)
(* What the order services promise, with no transactions, locks or         *)
(* failures: every operation happens in one step, at most once per         *)
(* request, and leaves the domain row, the saga, the outbox and the trail  *)
(* of statuses in agreement ("4 writes in 1 transaction").                 *)
(* OrderService is shown to implement this.                                *)
(***************************************************************************)
EXTENDS Sequences, SagaSteps

CONSTANTS OrderIds,   \* primary keys of canonical_orders
          Requests    \* API calls

VARIABLES orders,     \* status of each order, or Absent
          sagas,      \* current step of each order's saga, or Absent
          outbox,     \* events: [type, order, by]
          shipments,  \* shipments: [order, by]
          invoices,   \* invoices: [order, by]
          trail       \* [by, order, status]: what each request did, in order; status
                      \* is the one it set, or Absent

ledger == <<orders, sagas, outbox, shipments, invoices, trail>>

Absent == "ABSENT"

Statuses == {"DRAFT", "CONFIRMED", "PROCESSING", "SHIPPED", "INVOICED",
             "COMPLETED", "CANCELLED"}

Init ==
  /\ orders = [o \in OrderIds |-> Absent]
  /\ sagas = [o \in OrderIds |-> Absent]
  /\ outbox = {} /\ shipments = {} /\ invoices = {}
  /\ trail = <<>>

(* r leaves its one mark: an entry of the trail, with the new status if the   *)
(* operation sets one, and an event if the operation has one.                *)
Record(r, o, events, status) ==
  /\ \A i \in DOMAIN trail : trail[i].by # r
  /\ outbox' = outbox \cup { [type |-> e, order |-> o, by |-> r] : e \in events }
  /\ trail' = Append(trail, [by |-> r, order |-> o, status |-> status])
  /\ orders' = IF status = Absent THEN orders ELSE [orders EXCEPT ![o] = status]

Create(r, o) ==
  /\ orders[o] = Absent
  /\ Record(r, o, {"INBOUND_PO_RECEIVED"}, "DRAFT")
  /\ sagas' = [sagas EXCEPT ![o] = "PO_RECEIVED"]
  /\ UNCHANGED <<shipments, invoices>>

Confirm(r, o) ==
  /\ orders[o] # Absent
  /\ Record(r, o, {"ORDER_CONFIRMED"}, "CONFIRMED")
  /\ sagas' = [sagas EXCEPT ![o] = "PO_CONFIRMED"]
  /\ UNCHANGED <<shipments, invoices>>

Update(r, o) ==
  /\ orders[o] # Absent
  /\ \E s \in Statuses : Record(r, o, {}, s)
  /\ UNCHANGED <<sagas, shipments, invoices>>

(* A shipment or an invoice moves the saga only from the steps that wait for *)
(* it, and may miss a step that another request is writing meanwhile.        *)
Ship(r, o) ==
  /\ orders[o] # Absent
  /\ Record(r, o, {"SHIPMENT_CREATED"}, Absent)
  /\ shipments' = shipments \cup { [order |-> o, by |-> r] }
  /\ \/ UNCHANGED sagas
     \/ /\ sagas[o] \in {"PO_CONFIRMED", "ACK_DELIVERED"}
        /\ sagas' = [sagas EXCEPT ![o] = "SHIP_READY"]
  /\ UNCHANGED invoices

Invoice(r, o) ==
  /\ orders[o] # Absent
  /\ Record(r, o, {"INVOICE_CREATED"}, Absent)
  /\ invoices' = invoices \cup { [order |-> o, by |-> r] }
  /\ \/ UNCHANGED sagas
     \/ /\ sagas[o] \in {"ASN_DELIVERED", "SHIP_READY"}
        /\ sagas' = [sagas EXCEPT ![o] = "INVOICE_READY"]
  /\ UNCHANGED shipments

(* A revert brings back a status that the order really had. *)
Revert(r, o) ==
  /\ orders[o] # Absent
  /\ \E i \in DOMAIN trail : /\ trail[i].order = o
                             /\ trail[i].status # Absent
                             /\ Record(r, o, {}, trail[i].status)
  /\ UNCHANGED <<sagas, shipments, invoices>>

Work(o) ==
  /\ \E s \in Steps : /\ WorkerTransition(sagas[o], s)
                      /\ sagas' = [sagas EXCEPT ![o] = s]
  /\ UNCHANGED <<orders, outbox, shipments, invoices, trail>>

Next ==
  \E o \in OrderIds :
    \/ Work(o)
    \/ \E r \in Requests : \/ Create(r, o) \/ Confirm(r, o) \/ Update(r, o)
                           \/ Ship(r, o) \/ Invoice(r, o) \/ Revert(r, o)

Spec == Init /\ [][Next]_ledger
=============================================================================
