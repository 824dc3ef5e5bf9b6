----------------------------- MODULE RequestPath -----------------------------
(***************************************************************************)
(* The way of a request through the API process: the synchronous           *)
(* middleware, the wait for a pooled connection, the statements that the   *)
(* transaction helpers send around a handler, the release, and the answer, *)
(* which the idempotency middleware keeps for retries.  Writes leave a row *)
(* in audit_log: its id is drawn from a sequence before its trigger chains *)
(* it to the newest row that is committed.                                 *)
(***************************************************************************)
EXTENDS Integers, Sequences, FiniteSets

CONSTANTS Requests, Conns, None,
          Routes,     \* the kinds each request may be of
          Tenant,     \* of each request: factory_id of its token
          Header,     \* of each request: X-Idempotency-Key or None
          CacheSize,  \* answers kept, 10000 in the code
          MaxFaults   \* bound on failed statements, lost connections, restarts

Writes == {"create", "write"}
Kinds == Writes \cup {"read", "system", "login"}

ASSUME RequestsAssumption ==
  /\ None \notin Requests
  /\ \A r \in Requests : Routes[r] \subseteq Kinds /\ Tenant[r] # None
ASSUME BoundsAssumption == CacheSize \in Nat \ {0} /\ MaxFaults \in Nat

VARIABLES
  kind,      \* of each request: create, write, read, system or login
  pc,        \* "new", "queued" for a connection, "running" or "answered"
  todo,      \* statements that a running request has yet to send
  outcome,   \* "ok", or "error" once something failed
  answer,    \* what was answered: whose run, and its outcome
  holder,    \* of each connection: the request that has it, or None
  inTx,      \* of each connection: a transaction is open
  setting,   \* of each connection: app.current_tenant, None when empty
  cache,     \* processedKeys, in the order of insertion
  open, log, \* rows of audit_log, not yet and already committed
  lastId,    \* the sequence of audit_log.id
  drawn,     \* of each request: the id its open transaction has drawn, or 0
  saw,       \* request and setting of every handler that ran
  answered,  \* keys for which this process has given an answer
  others,    \* of each of them: the other keys answered since its first answer
  repeats,   \* requests that came after their key's answer and were in time
  faults

history == <<answered, others, repeats>>
process == <<kind, pc, todo, outcome, answer, cache, history>>
audit == <<open, log, lastId, drawn>>
database == <<holder, inTx, setting, audit, saw>>
vars == <<process, database, faults>>

Keys == { Header[r] : r \in Requests } \ {None}

Init ==
  /\ kind \in { f \in [Requests -> Kinds] : \A r \in Requests : f[r] \in Routes[r] }
  /\ pc = [r \in Requests |-> "new"]
  /\ todo = [r \in Requests |-> <<>>]
  /\ outcome = [r \in Requests |-> "ok"]
  /\ answer = [r \in Requests |-> None]
  /\ holder = [c \in Conns |-> None]
  /\ inTx = [c \in Conns |-> FALSE]
  /\ setting = [c \in Conns |-> None]
  /\ open = {} /\ log = {} /\ lastId = 0
  /\ drawn = [r \in Requests |-> 0]
  /\ saw = {} /\ cache = <<>>
  /\ answered = {} /\ others = [k \in Keys |-> {}] /\ repeats = {}
  /\ faults = 0

Fault == faults < MaxFaults /\ faults' = faults + 1

Committed == { e.by : e \in log }

(***************************************************************************)
(* Middleware, in one synchronous step                                     *)
(***************************************************************************)
(* Only POST /orders has the middleware. *)
Key(r) == IF kind[r] = "create" THEN Header[r] ELSE None

Cached(k) == { i \in DOMAIN cache : cache[i].key = k }

Answer(r, a) ==
  /\ pc' = [pc EXCEPT ![r] = "answered"]
  /\ answer' = [answer EXCEPT ![r] = a]

(***************************************************************************)
(* What a client may expect of its key: a request with the key that has    *)
(* been answered by this process repeats it, as long as fewer other keys   *)
(* than the cache can hold have been answered since.                       *)
(***************************************************************************)
Arrive(r) ==
  repeats' = IF Key(r) \in answered /\ Cardinality(others[Key(r)]) < CacheSize
             THEN repeats \cup {r} ELSE repeats

NoteAnswer(r) ==
  IF Key(r) = None THEN UNCHANGED <<answered, others>>
  ELSE /\ answered' = answered \cup {Key(r)}
       /\ others' = [k \in Keys |-> IF k \in answered \ {Key(r)} THEN others[k] \cup {Key(r)}
                                  ELSE others[k]]

(* rateLimiter, authenticate, authorize, tenantContext: 429, 401 or 403. *)
Refuse(r) ==
  /\ pc[r] = "new"
  /\ Answer(r, [by |-> None, outcome |-> "error"])
  /\ UNCHANGED <<kind, todo, outcome, cache, history, database, faults>>

(* idempotency finds the key. *)
Replay(r) ==
  /\ pc[r] = "new" /\ Key(r) # None
  /\ \E i \in Cached(Key(r)) : Answer(r, [by |-> cache[i].by, outcome |-> cache[i].outcome])
  /\ Arrive(r)
  /\ UNCHANGED <<kind, todo, outcome, cache, answered, others, database, faults>>

(* The cache with the answer for the key of r: Map.set keeps the place of a *)
(* key that is there.                                                       *)
WithKey(r, result) ==
  LET entry == [key |-> Key(r), by |-> r, outcome |-> result]
  IN  IF Cached(Key(r)) = {} THEN Append(cache, entry)
      ELSE [i \in DOMAIN cache |-> IF cache[i].key = Key(r) THEN entry ELSE cache[i]]

(* Bug: a full cache counts as one that is too large. *)
StoreKeyFull(r, result) ==
  cache' = IF Key(r) = None THEN cache
           ELSE IF Len(WithKey(r, result)) >= CacheSize THEN Tail(WithKey(r, result))
           ELSE WithKey(r, result)

(* The patched res.json: the oldest key goes when the map is too large. *)
StoreKey(r, result) ==
  cache' = IF Key(r) = None THEN cache
           ELSE IF Len(WithKey(r, result)) > CacheSize THEN Tail(WithKey(r, result))
           ELSE WithKey(r, result)

(* validate: 400 after idempotency, so that the answer is kept for the key.  *)
Invalid(r) ==
  /\ pc[r] = "new" /\ Cached(Key(r)) = {}
  /\ Answer(r, [by |-> r, outcome |-> "error"])
  /\ StoreKey(r, "error")
  /\ Arrive(r) /\ NoteAnswer(r)
  /\ UNCHANGED <<kind, todo, outcome, database, faults>>

Accept(r) ==
  /\ pc[r] = "new" /\ Cached(Key(r)) = {}
  /\ pc' = [pc EXCEPT ![r] = "queued"]
  /\ Arrive(r)
  /\ UNCHANGED <<kind, todo, outcome, answer, cache, answered, others, database, faults>>

(***************************************************************************)
(* The pool and the statements of withTenantTransaction, withTenantClient, *)
(* withTransaction and the login route.  WORK is the handler.  That of a   *)
(* write inserts into audit_log: DRAW is the default of the id and WORK    *)
(* the trigger with the row.                                               *)
(***************************************************************************)
(* Bug: the tenant is set before BEGIN, as the comment on the helper has it. *)
TenantTransactionSetFirst == <<"SET", "BEGIN", "DRAW", "WORK", "COMMIT", "CLEAR">>

TenantTransaction == <<"BEGIN", "SET", "DRAW", "WORK", "COMMIT", "CLEAR">>
TenantClient == <<"SET", "WORK", "CLEAR">>
Transaction == <<"BEGIN", "WORK", "COMMIT">>
Login == <<"BEGIN", "SET_LOCAL">>

Program == [create |-> TenantTransaction, write |-> TenantTransaction,
            read |-> TenantClient, system |-> Transaction, login |-> Login]

(* Bug: the catch of login does not roll back. *)
CleanupLogin ==
  [create |-> <<"ROLLBACK", "CLEAR">>, write |-> <<"ROLLBACK", "CLEAR">>,
   read |-> <<"CLEAR">>, system |-> <<"ROLLBACK">>, login |-> <<>>]

(* What catch and finally send after an error. *)
Cleanup ==
  [create |-> <<"ROLLBACK", "CLEAR">>, write |-> <<"ROLLBACK", "CLEAR">>,
   read |-> <<"CLEAR">>, system |-> <<"ROLLBACK">>, login |-> <<"ROLLBACK">>]

Connect(r) ==
  /\ pc[r] = "queued"
  /\ \E c \in Conns : holder[c] = None /\ holder' = [holder EXCEPT ![c] = r]
  /\ pc' = [pc EXCEPT ![r] = "running"]
  /\ todo' = [todo EXCEPT ![r] = Program[kind[r]]]
  /\ UNCHANGED <<kind, outcome, answer, cache, history, inTx, setting, audit, saw, faults>>

(* connectionTimeoutMillis; login answers without the factory's name. *)
ConnectTimeout(r) ==
  LET result == IF kind[r] = "login" THEN "ok" ELSE "error" IN
  /\ pc[r] = "queued" /\ \A c \in Conns : holder[c] # None
  /\ Answer(r, [by |-> r, outcome |-> result])
  /\ StoreKey(r, result) /\ NoteAnswer(r)
  /\ UNCHANGED <<kind, todo, outcome, repeats, database, faults>>

(* set_config(..., true) lasts until the transaction ends, which without one *)
(* is at the end of the statement itself.                                    *)
SetConfig(r, c) ==
  setting' = IF inTx[c] THEN [setting EXCEPT ![c] = Tenant[r]] ELSE setting

(* Bug: the trigger's SELECT has lost its DESC. *)
NewestFirst == IF log = {} THEN 0 ELSE CHOOSE i \in { e.id : e \in log } : \A e \in log : i <= e.id

(* SELECT ... ORDER BY id DESC LIMIT 1, which sees committed rows. *)
Newest == IF log = {} THEN 0 ELSE CHOOSE i \in { e.id : e \in log } : \A e \in log : i >= e.id

(* nextval of the id's default, which no rollback takes back. *)
Draw(r) ==
  /\ lastId' = lastId + 1
  /\ drawn' = [drawn EXCEPT ![r] = lastId + 1]

(* A row notes the ids that other open transactions had drawn. *)
Work(r, c) ==
  /\ saw' = saw \cup {<<r, setting[c]>>}
  /\ open' = IF kind[r] \notin Writes THEN open
             ELSE open \cup {[by |-> r, id |-> drawn[r], prev |-> Newest,
                              during |-> { drawn[q] : q \in Requests \ {r} } \ {0}]}

Mine(r) == { e \in open : e.by = r }

EndTx(r, c) ==
  /\ inTx' = [inTx EXCEPT ![c] = FALSE]
  /\ setting' = [setting EXCEPT ![c] = None]
  /\ open' = open \ Mine(r)
  /\ drawn' = [drawn EXCEPT ![r] = 0]

(* PostgreSQL accepts no parameter in SET LOCAL: that statement only fails.  *)
(* CLEAR empties a setting that has ended with its transaction.              *)
Statement(r) ==
  /\ todo[r] # <<>>
  /\ todo' = [todo EXCEPT ![r] = Tail(todo[r])]
  /\ \E c \in Conns :
       /\ holder[c] = r
       /\ \/ Head(todo[r]) = "BEGIN" /\ inTx' = [inTx EXCEPT ![c] = TRUE]
             /\ UNCHANGED <<setting, audit, saw>>
          \/ Head(todo[r]) = "SET" /\ SetConfig(r, c)
             /\ UNCHANGED <<inTx, audit, saw>>
          \/ Head(todo[r]) = "DRAW" /\ Draw(r)
             /\ UNCHANGED <<inTx, setting, open, log, saw>>
          \/ Head(todo[r]) = "WORK" /\ Work(r, c)
             /\ UNCHANGED <<inTx, setting, log, lastId, drawn>>
          \/ Head(todo[r]) = "COMMIT" /\ EndTx(r, c) /\ log' = log \cup Mine(r)
             /\ UNCHANGED <<lastId, saw>>
          \/ Head(todo[r]) = "ROLLBACK" /\ EndTx(r, c) /\ UNCHANGED <<log, lastId, saw>>
          \/ Head(todo[r]) = "CLEAR"
             /\ UNCHANGED <<inTx, setting, audit, saw>>
  /\ UNCHANGED <<kind, pc, outcome, answer, cache, history, holder, faults>>

(* Bug: the catch of withTransaction does not throw the error again. *)
MarkFailedSilently(r) == UNCHANGED outcome

(* login catches what its query throws, the others pass it on. *)
MarkFailed(r) ==
  outcome' = IF kind[r] = "login" THEN outcome ELSE [outcome EXCEPT ![r] = "error"]

(* The SET LOCAL of login fails, or any other statement: database error,     *)
(* statement_timeout or an exception of the handler.                         *)
Fails(r) ==
  /\ todo[r] # <<>> /\ Head(todo[r]) \notin {"ROLLBACK", "CLEAR"}
  /\ IF Head(todo[r]) = "SET_LOCAL" THEN UNCHANGED faults ELSE Fault
  /\ todo' = [todo EXCEPT ![r] = Cleanup[kind[r]]]
  /\ MarkFailed(r)
  /\ UNCHANGED <<kind, pc, answer, cache, history, database>>

(* The connection is lost, perhaps after the COMMIT: every later statement   *)
(* fails, and the pool replaces the connection when it is released.  A CLEAR *)
(* that fails is ignored.                                                    *)
Lose(r) ==
  /\ todo[r] # <<>>
  /\ Fault
  /\ todo' = [todo EXCEPT ![r] = <<>>]
  /\ IF Head(todo[r]) = "CLEAR" THEN UNCHANGED outcome ELSE MarkFailed(r)
  /\ \E c \in Conns : holder[c] = r /\ EndTx(r, c)
  /\ log' \in IF Head(todo[r]) = "COMMIT" THEN {log, log \cup Mine(r)} ELSE {log}
  /\ UNCHANGED <<kind, pc, answer, cache, history, holder, lastId, saw>>

(* Bug: nothing releases the client. *)
AnswerWithoutRelease(r) ==
  /\ pc[r] = "running" /\ todo[r] = <<>>
  /\ Answer(r, [by |-> r, outcome |-> outcome[r]])
  /\ StoreKey(r, outcome[r]) /\ NoteAnswer(r)
  /\ UNCHANGED <<kind, todo, outcome, repeats, database, faults>>

(* finally releases, the promise settles, the route or errorHandler answers. *)
ReleaseAndAnswer(r) ==
  /\ pc[r] = "running" /\ todo[r] = <<>>
  /\ holder' = [c \in Conns |-> IF holder[c] = r THEN None ELSE holder[c]]
  /\ Answer(r, [by |-> r, outcome |-> outcome[r]])
  /\ StoreKey(r, outcome[r]) /\ NoteAnswer(r)
  /\ UNCHANGED <<kind, todo, outcome, repeats, inTx, setting, audit, saw, faults>>

(* The process ends and starts again: the keys are forgotten, open           *)
(* transactions are rolled back, and their clients get an error.             *)
Restart ==
  LET cut == { r \in Requests : pc[r] \in {"queued", "running"} } IN
  /\ Fault
  /\ cache' = <<>> /\ answered' = {} /\ others' = [k \in Keys |-> {}]
  /\ pc' = [r \in Requests |-> IF r \in cut THEN "answered" ELSE pc[r]]
  /\ answer' = [r \in Requests |-> IF r \in cut THEN [by |-> r, outcome |-> "error"] ELSE answer[r]]
  /\ todo' = [r \in Requests |-> <<>>]
  /\ holder' = [c \in Conns |-> None]
  /\ inTx' = [c \in Conns |-> FALSE]
  /\ setting' = [c \in Conns |-> None]
  /\ open' = {} /\ drawn' = [r \in Requests |-> 0]
  /\ UNCHANGED <<kind, outcome, repeats, log, lastId, saw>>

Step(r) == Connect(r) \/ Statement(r) \/ ReleaseAndAnswer(r)
           \/ (Fails(r) /\ Head(todo[r]) = "SET_LOCAL")

Next ==
  \/ \E r \in Requests :
       \/ Refuse(r) \/ Replay(r) \/ Invalid(r) \/ Accept(r)
       \/ ConnectTimeout(r) \/ Step(r) \/ Fails(r) \/ Lose(r)
  \/ Restart

Spec == Init /\ [][Next]_vars

(* The pool serves its queue and the event loop runs requests on.            *)
FairSpec == Spec /\ \A r \in Requests : WF_vars(Step(r))

-----------------------------------------------------------------------------
Statements == {"BEGIN", "SET", "SET_LOCAL", "DRAW", "WORK", "COMMIT", "ROLLBACK", "CLEAR"}

Entries == [key : { Header[r] : r \in Requests }, by : Requests, outcome : {"ok", "error"}]

Answers == [by : Requests \cup {None}, outcome : {"ok", "error"}]

Rows == [by : Requests, id : Nat, prev : Nat, during : SUBSET Nat]

(* Every variable has its type; a request has a connection of its own, and   *)
(* only while it runs; the cache is never too large and has a key once.      *)
TypeOK ==
  /\ kind \in [Requests -> Kinds]
  /\ pc \in [Requests -> {"new", "queued", "running", "answered"}]
  /\ todo \in [Requests -> Seq(Statements)]
  /\ outcome \in [Requests -> {"ok", "error"}]
  /\ answer \in [Requests -> Answers \cup {None}]
  /\ holder \in [Conns -> Requests \cup {None}]
  /\ inTx \in [Conns -> BOOLEAN]
  /\ setting \in [Conns -> { Tenant[r] : r \in Requests } \cup {None}]
  /\ cache \in Seq(Entries) /\ Len(cache) <= CacheSize
  /\ \A i, j \in DOMAIN cache : cache[i].key = cache[j].key => i = j
  /\ {open, log} \subseteq SUBSET Rows /\ lastId \in Nat
  /\ saw \subseteq Requests \X ({ Tenant[r] : r \in Requests } \cup {None})
  /\ drawn \in [Requests -> 0 .. lastId]
  /\ answered \subseteq Keys /\ others \in [Keys -> SUBSET Keys] /\ repeats \subseteq Requests
  /\ faults \in 0 .. MaxFaults
  /\ \A e \in open \cup log : e.id <= lastId
  /\ \A r \in Requests : todo[r] # <<>> => pc[r] = "running"
  /\ \A c \in Conns : holder[c] # None => pc[holder[c]] = "running"
  /\ \A c, d \in Conns : holder[c] = holder[d] /\ holder[c] # None => c = d

(* What is written is written with the tenant of its own request, and no     *)
(* handler sees the tenant of another, however connections are passed on: a  *)
(* read sees its own or none, and a system transaction none.                 *)
OwnTenant ==
  \A x \in saw : x[2] \in CASE kind[x[1]] \in Writes -> {Tenant[x[1]]}
                         [] kind[x[1]] = "read" -> {Tenant[x[1]], None}
                         [] OTHER -> {None}

(* A connection goes back to the pool without a transaction and without a    *)
(* tenant, on every path of every helper.                                    *)
PoolIsClean == \A c \in Conns : holder[c] = None => ~inTx[c] /\ setting[c] = None

(* A request that repeats an answered key is answered from the cache and     *)
(* never runs, whatever was stored, replaced and evicted in between, unless  *)
(* as many other keys as the cache holds were answered since.                *)
KeyRunsOnce == repeats \cap Committed = {}

(* A client that is told of success, now or on a retry, has its row.         *)
SuccessIsCommitted ==
  \A r \in Requests :
    pc[r] = "answered" /\ kind[r] \in Writes /\ answer[r].outcome = "ok"
      => answer[r].by \in Committed

(* One of two rows was inserted while the other's id was drawn and its       *)
(* transaction open.                                                         *)
Overlapped(d, e) == d.id \in e.during \/ e.id \in d.during

(* The chain of audit_log forks only where writers overlapped: two rows have *)
(* the same predecessor only if they overlapped each other, or one of them   *)
(* the predecessor, which has committed first although its id is higher.     *)
ForksOnlyWhenOverlapping ==
  \A d, e \in log :
    d # e /\ d.prev = e.prev =>
      \/ Overlapped(d, e)
      \/ \E p \in log : p.id = d.prev /\ (Overlapped(p, d) \/ Overlapped(p, e))

(* Every accepted request is answered, however few connections there are.    *)
EveryRequestAnswered == \A r \in Requests : pc[r] = "queued" ~> pc[r] = "answered"
=============================================================================
