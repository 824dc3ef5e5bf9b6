------------------------------- MODULE MCRetries -------------------------------
(***************************************************************************)
(* A small instance of Retries: for the cache of answers an order, its     *)
(* retry, and two orders with keys of their own.                           *)
(***************************************************************************)
EXTENDS Retries

CONSTANTS create, retry, second, third, A, k1, k2, k3

FourRequests == {create, retry, second, third}

RoutesOf == [r \in FourRequests |-> {"create"}]

TenantOf == [r \in FourRequests |-> A]

HeaderOf == [r \in FourRequests |-> IF r = second THEN k2 ELSE IF r = third THEN k3 ELSE k1]
=============================================================================
