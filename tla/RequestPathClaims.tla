--------------------------- MODULE RequestPathClaims ---------------------------
(***************************************************************************)
(* What a comment of transaction.ts says of reads and the code does not    *)
(* do: refuted by a run.                                                   *)
(***************************************************************************)
EXTENDS MCRequestPath

(* "Execute a read-only query with tenant context (no transaction)."         *)
(* (transaction.ts:79): the SELECTs of a read run with the tenant of their   *)
(* request.  set_config(..., true) without a transaction ends with its own   *)
(* statement (tenant-context.ts:22), and they run with none.                 *)
ReadsHaveTenant ==
  \A x \in saw : kind[x[1]] = "read" => x[2] = Tenant[x[1]]
=============================================================================
