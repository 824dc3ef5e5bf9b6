---------------------------- MODULE MCRequestPath ----------------------------
(***************************************************************************)
(* An instance of RequestPath: a create, its retry, and one request of     *)
(* another tenant and of any kind, whose answer, if it is a create, takes  *)
(* the place of theirs in the cache.                                       *)
(***************************************************************************)
EXTENDS RequestPath

CONSTANTS create, retry, other, A, B, k1, k2

ThreeRequests == {create, retry, other}

RoutesOf == [r \in ThreeRequests |-> IF r = other THEN Kinds ELSE {"create"}]

TenantOf == [r \in ThreeRequests |-> IF r = other THEN B ELSE A]

HeaderOf == [r \in ThreeRequests |-> IF r = other THEN k2 ELSE k1]
=============================================================================
