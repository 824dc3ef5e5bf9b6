------------------------------ MODULE SagaSteps ------------------------------
(***************************************************************************)
(* The fifteen saga steps and the table of valid transitions of            *)
(* saga-coordinator.ts, shared by every module that reads or writes        *)
(* order_sagas.current_step.                                               *)
(***************************************************************************)
EXTENDS Integers

(* Steps reached once the order was confirmed and nothing was shipped. *)
AckSteps == {"PO_CONFIRMED", "ACK_QUEUED", "ACK_SENT", "ACK_DELIVERED"}

(* Steps reached once a shipment exists and nothing was invoiced. *)
AsnSteps == {"SHIP_READY", "ASN_QUEUED", "ASN_SENT", "ASN_DELIVERED"}

(* Steps reached once an invoice exists. *)
InvoiceSteps == {"INVOICE_READY", "INVOICE_QUEUED", "INVOICE_SENT",
                 "INVOICE_DELIVERED", "COMPLETED"}

Steps == {"PO_RECEIVED", "FAILED"} \cup AckSteps \cup AsnSteps \cup InvoiceSteps

Terminal == {"COMPLETED", "FAILED"}

(* SAGA_TRANSITIONS without its FAILED column. *)
Successor ==
  { <<"PO_RECEIVED", "PO_CONFIRMED">>,    <<"PO_CONFIRMED", "ACK_QUEUED">>,
    <<"ACK_QUEUED", "ACK_SENT">>,         <<"ACK_SENT", "ACK_DELIVERED">>,
    <<"ACK_DELIVERED", "SHIP_READY">>,    <<"SHIP_READY", "ASN_QUEUED">>,
    <<"ASN_QUEUED", "ASN_SENT">>,         <<"ASN_SENT", "ASN_DELIVERED">>,
    <<"ASN_DELIVERED", "INVOICE_READY">>, <<"INVOICE_READY", "INVOICE_QUEUED">>,
    <<"INVOICE_QUEUED", "INVOICE_SENT">>, <<"INVOICE_SENT", "INVOICE_DELIVERED">>,
    <<"INVOICE_DELIVERED", "COMPLETED">> }

IsValidTransition(from, to) ==
  \/ <<from, to>> \in Successor
  \/ from \in Steps \ Terminal /\ to = "FAILED"

(* Position of a step on the line, for "forward" and "backward". *)
Rank == [PO_RECEIVED |-> 1, PO_CONFIRMED |-> 2, ACK_QUEUED |-> 3,
         ACK_SENT |-> 4, ACK_DELIVERED |-> 5, SHIP_READY |-> 6,
         ASN_QUEUED |-> 7, ASN_SENT |-> 8, ASN_DELIVERED |-> 9,
         INVOICE_READY |-> 10, INVOICE_QUEUED |-> 11, INVOICE_SENT |-> 12,
         INVOICE_DELIVERED |-> 13, COMPLETED |-> 14, FAILED |-> 15]

(* The external workers that carry a document to the buyer own the steps    *)
(* between the three that the services write.                               *)
WorkerTransition(from, to) ==
  /\ IsValidTransition(from, to)
  /\ to \notin {"PO_CONFIRMED", "SHIP_READY", "INVOICE_READY"}
=============================================================================
