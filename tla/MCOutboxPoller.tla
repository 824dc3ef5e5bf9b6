---------------------------- MODULE MCOutboxPoller ----------------------------
(***************************************************************************)
(* Instances of OutboxPoller.  The polls belong to one process: a crash    *)
(* then ends them all by a single fault, and a poll that ends while others *)
(* go on, as in another process, is one that lost its transaction.         *)
(***************************************************************************)
EXTENDS OutboxPoller

OneProcess == { Polls }
=============================================================================
