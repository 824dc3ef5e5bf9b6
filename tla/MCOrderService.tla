---------------------------- MODULE MCOrderService ----------------------------
(* OrderService on a few orders and requests.  Both sets are symmetric in   *)
(* the specification and in every safety property.                          *)
EXTENDS OrderServiceInvariant, TLC

Symmetry == Permutations(Requests) \cup Permutations(OrderIds)
=============================================================================
