-------------------------- MODULE OrderServiceClaims --------------------------
(***************************************************************************)
(* What a message of order-service.ts says of a confirmation and the code, *)
(* run concurrently, does not do: refuted by a run.                        *)
(***************************************************************************)
EXTENDS OrderService, FiniteSets

(* "Cannot confirm order in <status> status" (order-service.ts:154): an      *)
(* order that was confirmed, and whose status nothing else changed, is not   *)
(* confirmed again.  Two confirmOrder calls can both read DRAFT.             *)
ConfirmedOnce ==
  \A o \in OrderIds :
    Cardinality({ e \in outbox : e.order = o /\ e.type = "ORDER_CONFIRMED" }) <= 1
=============================================================================
