-------------------------- MODULE OutboxPollerClaims --------------------------
(***************************************************************************)
(* What a comment of outbox-poller.ts says of concurrent polls and the     *)
(* code does not do: refuted by a run.                                     *)
(***************************************************************************)
EXTENDS MCOutboxPoller

(* "Lock and fetch unprocessed events (FOR UPDATE SKIP LOCKED for            *)
(* concurrency)" (outbox-poller.ts:45): two polls whose connections are up   *)
(* never call the handler on the same event at the same time.  An UPDATE     *)
(* that fails aborts the transaction and so gives the locks away, and the    *)
(* catch of that event goes on with the rest of the batch.                   *)
HandledByOnePoll ==
  \A p, q \in Polls :
    p # q /\ "lost" \notin {tx[p], tx[q]} /\ Handling(p) /\ Handling(q)
      => Current(p) # Current(q)
=============================================================================
