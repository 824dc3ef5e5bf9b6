-------------------------------- MODULE Retries --------------------------------
(***************************************************************************)
(* Three parts that try again what was done or refused before: the bridge  *)
(* with its queue, the resync routes, and clients that repeat a create     *)
(* under its X-Idempotency-Key.  They share nothing: a behaviour exercises *)
(* one of them, as in Services.                                            *)
(***************************************************************************)
EXTENDS Bridge

CONSTANTS Ids, Connections, Calls, NoRequest, Targets, MaxHistory,     \* of Resync
          Requests, Conns, None, Routes, Tenant, Header, CacheSize,    \* of RequestPath
          MaxKeyFaults

ASSUME NoRequestAssumption == NoRequest \notin Calls
ASSUME MaxHistoryAssumption == MaxHistory \in Nat

VARIABLE part  \* what a behaviour exercises

VARIABLES status, conn, record, at, call, seen, lock
VARIABLES kind, pc, todo, outcome, answer, holder, inTx, setting, cache, open, log,
          lastId, drawn, saw, answered, others, repeats, failures

R == INSTANCE Resync WITH Requests <- Calls, history <- record, pc <- at
K == INSTANCE RequestPath WITH MaxFaults <- MaxKeyFaults, faults <- failures

resync == <<status, conn, record, at, call, seen, lock>>
keys == <<kind, pc, todo, outcome, answer, holder, inTx, setting, cache, open, log,
          lastId, drawn, saw, answered, others, repeats, failures>>

Parts == {"bridge", "resync", "keys"}

RetriesInit == part \in Parts /\ Init /\ R!Init /\ K!Init

RetriesNext ==
  /\ UNCHANGED part
  /\ \/ part = "bridge" /\ Next /\ UNCHANGED <<resync, keys>>
     \/ part = "resync" /\ R!Next /\ UNCHANGED <<vars, keys>>
     \/ part = "keys" /\ K!Next /\ UNCHANGED <<vars, resync>>

RetriesSpec ==
  /\ RetriesInit /\ [][RetriesNext]_<<part, vars, resync, keys>>
  /\ Fairness /\ R!Fairness

(* HistoryChain of Resync. *)
HistoryChain == R!HistoryChain

(* NoStatusSkipped of Resync. *)
NoStatusSkipped == R!NoStatusSkipped

(* EveryCallAnswered of Resync. *)
EveryCallAnswered == R!EveryCallAnswered

(* KeyRunsOnce of RequestPath. *)
KeyRunsOnce == K!KeyRunsOnce
=============================================================================
