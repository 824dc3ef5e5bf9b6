-------------------------------- MODULE Resync --------------------------------
(***************************************************************************)
(* The routes of resync.ts as concurrent transactions at READ COMMITTED:   *)
(* POST / looks for an active request of the connection and inserts one;   *)
(* POST /:id/transition reads the status, checks it against the table of   *)
(* transitions and writes the new one WHERE id.  Neither locks the row it  *)
(* read.  record_history_trigger keeps what each write replaced.           *)
(***************************************************************************)
EXTENDS Sequences, Naturals

CONSTANTS Ids,          \* primary keys of resync_requests
          Connections,  \* connections that are resynchronised
          Requests,     \* connections of the pool, each serves a call at a time
          NoRequest,    \* owner of a free row lock
          Targets,      \* the values of target_status that clients send
          MaxHistory    \* bound: no call begins once history has that many rows

Absent == "ABSENT"

Statuses == {"REQUESTED", "VALIDATED", "APPROVED", "REJECTED", "DENIED", "QUEUED",
             "IN_PROGRESS", "COMPLETED", "PARTIAL_FAIL", "REQUIRES_REVIEW"}

(* VALID_TRANSITIONS. *)
Allowed(status) ==
  IF status = "REQUESTED" THEN {"VALIDATED", "REJECTED"}
  ELSE IF status = "VALIDATED" THEN {"APPROVED", "DENIED"}
  ELSE IF status = "APPROVED" THEN {"QUEUED"}
  ELSE IF status = "QUEUED" THEN {"IN_PROGRESS"}
  ELSE IF status = "IN_PROGRESS" THEN {"COMPLETED", "PARTIAL_FAIL", "REQUIRES_REVIEW"}
  ELSE {}

VARIABLES
  status,   \* [Ids -> Statuses or Absent]: resync_requests.status
  conn,     \* [Ids -> Connections or Absent]: resync_requests.connection_id
  history,  \* rows of record_history: [id, old, new, by]
  pc,       \* phase of each request
  call,     \* its operation, row and argument (a connection or a status)
  seen,     \* status that its SELECT returned
  lock      \* the request whose open transaction wrote the row

rows == <<status, conn, history>>
vars == <<rows, pc, call, seen, lock>>

NoCall == [op |-> "none", id |-> "none", arg |-> "none"]

Live(r) == pc[r] # "idle"

Goto(r, phase) == pc' = [pc EXCEPT ![r] = phase]

Init ==
  /\ status = [i \in Ids |-> Absent]
  /\ conn = [i \in Ids |-> Absent]
  /\ history = <<>>
  /\ pc = [r \in Requests |-> "idle"]
  /\ call = [r \in Requests |-> NoCall]
  /\ seen = [r \in Requests |-> Absent]
  /\ lock = [i \in Ids |-> NoRequest]

Release(r) == [i \in Ids |-> IF lock[i] = r THEN NoRequest ELSE lock[i]]

Finish(r) ==
  /\ Goto(r, "idle")
  /\ call' = [call EXCEPT ![r] = NoCall]
  /\ seen' = [seen EXCEPT ![r] = Absent]
  /\ lock' = Release(r)

(* uuid_generate_v4 gives each row an id of its own. *)
Fresh(i) ==
  /\ status[i] = Absent
  /\ \A q \in Requests : Live(q) => ~(call[q].op = "create" /\ call[q].id = i)

Begin(r, op, i, arg) ==
  /\ pc[r] = "idle"
  /\ Len(history) < MaxHistory
  /\ op = "create" => Fresh(i)
  /\ call' = [call EXCEPT ![r] = [op |-> op, id |-> i, arg |-> arg]]
  /\ Goto(r, "find")
  /\ UNCHANGED <<rows, seen, lock>>

(***************************************************************************)
(* POST /: a request that is neither completed nor turned down is active.  *)
(***************************************************************************)
Active(c) ==
  { i \in Ids : conn[i] = c /\ status[i] \notin {Absent, "COMPLETED", "REJECTED", "DENIED"} }

FindActive(r) ==
  /\ pc[r] = "find" /\ call[r].op = "create"
  /\ \/ /\ Active(call[r].arg) # {}                                  \* 409
        /\ Finish(r)
     \/ /\ Active(call[r].arg) = {}
        /\ Goto(r, "commit")
        /\ UNCHANGED <<call, seen, lock>>
  /\ UNCHANGED rows

Record(i, old, new, r) ==
  history' = Append(history, [id |-> i, old |-> old, new |-> new, by |-> r])

CommitCreate(r) ==
  /\ pc[r] = "commit" /\ call[r].op = "create"
  /\ status' = [status EXCEPT ![call[r].id] = "REQUESTED"]
  /\ conn' = [conn EXCEPT ![call[r].id] = call[r].arg]
  /\ Record(call[r].id, Absent, "REQUESTED", r)
  /\ Finish(r)

(***************************************************************************)
(* POST /:id/transition.                                                   *)
(***************************************************************************)
(* Bug: only an unknown id is refused. *)
RefusedUnknownOnly(r) == status[call[r].id] = Absent

Refused(r) ==
  \/ status[call[r].id] = Absent                                     \* 404
  \/ call[r].arg \notin Allowed(status[call[r].id])                  \* 400

FindStatus(r) ==
  /\ pc[r] = "find" /\ call[r].op = "transition"
  /\ \/ /\ Refused(r)
        /\ Finish(r)
     \/ /\ ~Refused(r)
        /\ seen' = [seen EXCEPT ![r] = status[call[r].id]]
        /\ Goto(r, "update")
        /\ UNCHANGED <<call, lock>>
  /\ UNCHANGED rows

UpdateStatus(r) ==
  /\ pc[r] = "update"
  /\ lock[call[r].id] = NoRequest
  /\ lock' = [lock EXCEPT ![call[r].id] = r]
  /\ Goto(r, "commit")
  /\ UNCHANGED <<rows, call, seen>>

(* Bug: the history has the row that was read, not the row replaced. *)
CommitTransitionHistoryOfRead(r) ==
  /\ pc[r] = "commit" /\ call[r].op = "transition"
  /\ status' = [status EXCEPT ![call[r].id] = call[r].arg]
  /\ Record(call[r].id, seen[r], call[r].arg, r)
  /\ Finish(r)
  /\ UNCHANGED conn

CommitTransition(r) ==
  /\ pc[r] = "commit" /\ call[r].op = "transition"
  /\ status' = [status EXCEPT ![call[r].id] = call[r].arg]
  /\ Record(call[r].id, status[call[r].id], call[r].arg, r)
  /\ Finish(r)
  /\ UNCHANGED conn

(* Bug: the client goes back to the pool without ROLLBACK. *)
RollbackKeepsLock(r) ==
  /\ Live(r)
  /\ Goto(r, "idle")
  /\ call' = [call EXCEPT ![r] = NoCall]
  /\ seen' = [seen EXCEPT ![r] = Absent]
  /\ UNCHANGED <<rows, lock>>

(* An error before the COMMIT, or the end of the process. *)
Rollback(r) ==
  /\ Live(r)
  /\ Finish(r)
  /\ UNCHANGED rows

Advance(r) ==
  \/ FindActive(r) \/ CommitCreate(r)
  \/ FindStatus(r) \/ UpdateStatus(r) \/ CommitTransition(r)

Next ==
  \E r \in Requests :
    \/ \E i \in Ids :
         \/ \E c \in Connections : Begin(r, "create", i, c)
         \/ \E target \in Targets : Begin(r, "transition", i, target)
    \/ Advance(r)
    \/ Rollback(r)

Spec == Init /\ [][Next]_vars

(* Open calls run on, and PostgreSQL serves the waiters of a row lock in     *)
(* turn: others that take the lock and roll back do not starve one.          *)
Fairness == \A r \in Requests : WF_vars(Advance(r)) /\ SF_vars(UpdateStatus(r))

FairSpec == Spec /\ Fairness

-----------------------------------------------------------------------------
HistoryRows == [id : Ids, old : Statuses \cup {Absent}, new : Statuses, by : Requests]

(* Every variable has its type; a row lock belongs to a transition that      *)
(* waits for its COMMIT.                                                     *)
TypeOK ==
  /\ status \in [Ids -> Statuses \cup {Absent}]
  /\ conn \in [Ids -> Connections \cup {Absent}]
  /\ history \in Seq(HistoryRows)
  /\ pc \in [Requests -> {"idle", "find", "update", "commit"}]
  /\ call \in [Requests -> [op : {"create", "transition", "none"}, id : Ids \cup {"none"},
                            arg : Connections \cup Targets \cup {"none"}]]
  /\ seen \in [Requests -> Statuses \cup {Absent}]
  /\ lock \in [Ids -> Requests \cup {NoRequest}]
  /\ \A i \in Ids : lock[i] # NoRequest =>
       pc[lock[i]] = "commit" /\ call[lock[i]].op = "transition" /\ call[lock[i]].id = i

RowsOf(i) == { k \in DOMAIN history : history[k].id = i }

(* The history of a request is a chain from its creation to the status it    *)
(* has: each row replaced what the row before it wrote, although the         *)
(* transitions were checked against older reads.                             *)
HistoryChain ==
  \A i \in Ids :
    /\ RowsOf(i) = {} => status[i] = Absent
    /\ \A k \in RowsOf(i) :
         /\ (\A j \in RowsOf(i) : k <= j) => history[k].old = Absent
         /\ (\A j \in RowsOf(i) : j <= k) => history[k].new = status[i]
         /\ \A j \in RowsOf(i) :
              j < k /\ (\A l \in RowsOf(i) : l <= j \/ k <= l)
                => history[k].old = history[j].new

(* However stale the read a transition was checked against, no status is     *)
(* skipped: a request that is in progress was approved and queued, and a     *)
(* completed one was in progress.                                            *)
NoStatusSkipped ==
  \A k \in DOMAIN history :
    history[k].new # "REQUESTED" =>
      \E j \in 1 .. k - 1 : /\ history[j].id = history[k].id
                            /\ history[k].new \in Allowed(history[j].new)

(* Every call is answered: none waits for a row lock for ever. *)
EveryCallAnswered == \A r \in Requests : Live(r) ~> ~Live(r)
=============================================================================
