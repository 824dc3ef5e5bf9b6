---------------------------- MODULE Notifications ----------------------------
(***************************************************************************)
(* notification-service.ts: the notifications of a tenant are inserted in  *)
(* transactions of their own and broadcast to its listeners after the      *)
(* COMMIT.                                                                 *)
(***************************************************************************)
EXTENDS Integers, FiniteSets

CONSTANTS Rows,       \* notifications
          Listeners   \* callbacks given to subscribe

VARIABLES
  open,       \* rows inserted by a transaction that is not committed
  committed,  \* rows of notifications
  unsent,     \* rows committed and not yet broadcast
  listening,  \* the Set of the tenant in the map of listeners
  heard,      \* rows given to each listener
  since       \* rows of which a listener missed no broadcast: committed later

bus == <<unsent, listening, heard, since>>
vars == <<open, committed, bus>>

Init ==
  /\ open = {} /\ committed = {}
  /\ unsent = {} /\ listening = {}
  /\ heard = [l \in Listeners |-> {}]
  /\ since = [l \in Listeners |-> {}]

(***************************************************************************)
(* createNotification                                                      *)
(***************************************************************************)
Insert(n) ==
  /\ n \notin open \cup committed
  /\ open' = open \cup {n}
  /\ UNCHANGED <<committed, bus>>

(* COMMIT, and the promise resolves; or ROLLBACK, and it rejects. *)
CommitOrFail(n) ==
  /\ n \in open
  /\ open' = open \ {n}
  /\ \/ /\ committed' = committed \cup {n}
        /\ unsent' = unsent \cup {n}
        /\ since' = [l \in Listeners |-> IF l \in listening THEN since[l] \cup {n} ELSE since[l]]
     \/ UNCHANGED <<committed, unsent, since>>
  /\ UNCHANGED <<listening, heard>>

(* Bug: an exception of one listener ends the loop. *)
BroadcastSome(n) ==
  /\ n \in unsent
  /\ unsent' = unsent \ {n}
  /\ \E T \in SUBSET listening :
       heard' = [l \in Listeners |-> IF l \in T THEN heard[l] \cup {n} ELSE heard[l]]
  /\ UNCHANGED <<open, committed, listening, since>>

(* Exceptions of listeners are caught one by one. *)
Broadcast(n) ==
  /\ n \in unsent
  /\ unsent' = unsent \ {n}
  /\ heard' = [l \in Listeners |-> IF l \in listening THEN heard[l] \cup {n} ELSE heard[l]]
  /\ UNCHANGED <<open, committed, listening, since>>

Subscribe(l) ==
  /\ l \notin listening
  /\ listening' = listening \cup {l}
  /\ UNCHANGED <<open, committed, unsent, heard, since>>

Unsubscribe(l) ==
  /\ l \in listening
  /\ listening' = listening \ {l}
  /\ since' = [since EXCEPT ![l] = {}]
  /\ UNCHANGED <<open, committed, unsent, heard>>

(* The process ends: open transactions, the listeners and what they were to  *)
(* hear are gone.                                                            *)
Restart ==
  /\ open' = {} /\ unsent' = {} /\ listening' = {}
  /\ since' = [l \in Listeners |-> {}]
  /\ UNCHANGED <<committed, heard>>

Next ==
  \/ \E n \in Rows : Insert(n) \/ CommitOrFail(n) \/ Broadcast(n)
  \/ \E l \in Listeners : Subscribe(l) \/ Unsubscribe(l)
  \/ Restart

Spec == Init /\ [][Next]_vars

-----------------------------------------------------------------------------
(* Every variable has its type. *)
TypeOK ==
  /\ {open, committed} \subseteq SUBSET Rows /\ open \cap committed = {}
  /\ unsent \subseteq committed
  /\ listening \subseteq Listeners
  /\ {heard, since} \subseteq [Listeners -> SUBSET Rows]

(* A listener that was subscribed when a notification was committed, and     *)
(* still is, hears it: it is heard, or its broadcast is still to come.  Nobody *)
(* hears of one that the database does not have.                             *)
HeardByAll ==
  /\ \A l \in listening : since[l] \subseteq heard[l] \cup unsent
  /\ \A l \in Listeners : heard[l] \subseteq committed
=============================================================================
