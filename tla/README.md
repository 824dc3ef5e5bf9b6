# A TLA+ development for FactoryConnect

FactoryConnect is middleware between the ERPs of factories and the EDI systems
of their buyers. An Express API keeps orders, shipments and invoices in
PostgreSQL, each write together with an outbox event, a saga step and an audit
row; pollers hand the events on and watch the sagas; an on-premises bridge
polls an ERP and posts what it finds to the API; a portal shows the lists. The
modules here model the parts in which the order of steps, a boundary or an
alias matters, translated from the code. TLC checks them on small instances and
TLAPS proves what is named below for all instances. Paths are relative to the
repository.

## Inventory

| Component | State | Operations | What is hard | What makes it correct |
|---|---|---|---|---|
| Order lifecycle: `apps/api/src/services/{order,shipment,invoice,revert}-service.ts`, `impact-analyzer.ts` | `canonical_orders.status`, `order_sagas.current_step`, shipments, invoices, `outbox`, `audit_log` | createOrder, confirmOrder, updateOrder, createShipment, createInvoice, revertOrder, analyzeOrderImpact | reads without locks followed by writes, errors and crashes between statements, two connections in a revert | all writes of an operation or none; the saga never ahead of its documents; the audit log explains the status; nobody waits for ever |
| Request path: `packages/database/src/{transaction,tenant-context,pool}.ts`, `apps/api/src/{app.ts,middleware}`, login, audit trigger | connections and their settings, `processedKeys`, chain of `audit_log` | the three helpers, the login's statements, idempotency, refusals, answers | the scope of `set_config`, release on every path, retries while the first call runs, concurrent triggers | a write runs for its own tenant; connections come back clean; a key that was answered runs no more; success means a row |
| Outbox poller: `apps/api/src/services/outbox-poller.ts` | timer, open polls, row locks, `processed_at` | pollOutbox, start, stop | overlapping polls, effects before the mark is committed, dead transactions | no event lost; redelivery only by a fault; no starvation |
| Saga coordinator: `apps/api/src/services/saga-coordinator.ts` | deadlines, worker locks, `escalation_log` | detectSlaBreaches, recoverStaleLocks, start, stop | slow and dead workers look alike, repeated polls | breaches are escalated; one owner per saga; dead workers' locks are freed |
| Resync routes: `apps/api/src/routes/resync.ts` | `resync_requests`, `record_history` | create, transition, list | check-then-write without a lock | no status skipped; the history is a chain |
| Bridge: `apps/bridge/src` | queue in memory, timer, interval | poll, sendOrders, drainQueue, enqueue, dequeue, requeueWithError, getDeadLetters | lost answers, refused messages, the end of a process | accounts balance; the queue drains; idle bridges back off |
| Webhooks: `apps/api/src/services/webhook-service.ts` | `webhook_deliveries` | enqueueDelivery, processWebhookDeliveries | a statement after a failed one, SKIP LOCKED | marked once; delivered in the end |
| Notifications: `apps/api/src/services/notification-service.ts` | rows, listeners | create, subscribe, unsubscribe, list, mark as read | broadcast after COMMIT, listeners that come and go | whoever listens hears what is committed |
| Lists: `packages/database/src/query.ts`, the list queries and routes | pages | paginatedQuery | a query per page under inserts and updates | a walk misses no row |
| Feature gate: `apps/api/src/middleware/feature-gate.ts`, `routes/admin.ts` | flag, preference | isFeatureEnabled, toggle | two statements | a decision some instant justifies |
| Validation engine: `apps/api/src/services/validation-engine.ts` | none | validateOrder, validateOrderForDispatch | three statements without a transaction, NaN | a verdict on the order as it was |
| Rate limiter: `apps/api/src/middleware/rate-limiter.ts` | token buckets | getBucket, rateLimiter | floors, refill times | the rate is kept; refusals are short |
| X12: `packages/shared/src/edi/x12-{generator,parser}.ts` | none | generate 855, 856, 810; parse; extractPOData | padding, separators, counters kept by hand | parse undoes generate but for spaces at the end of a segment; counts agree |
| Mapping: `packages/shared/src/mapping/{engine,transform,ai-mapper}.ts` | objects by reference | applyMapping, heuristicMap, suggestionsToMappings | aliases, missing values, competing suggestions | the source is kept; the result is as configured |
| Portal: `apps/portal/src` | token, user, query cache of each tab | load, login, logout, ask, receive | answers in flight over a change of user, tabs sharing a token | no data of another user |
| JSON and cXML adapters, ERP adapters, observability, remaining routes | little or none | formatting, CRUD | nothing concurrent | see "Not modelled" |

The routes call the services, which run each operation in
`withTenantTransaction`; services and pollers share nothing but the database:
the outbox rows that a service commits are what `pollOutbox` finds, and
`order_sagas.current_step` is written by the services and read by the
coordinator. The bridge reaches the API by HTTP only, and the portal too.
`apps/api/src/index.ts` starts neither poller nor coordinator, and several
functions (`setOutboxHandler`, `revertOrder`, `processWebhookDeliveries`,
`requireFeature`, the validation engine) have no caller in the repository; they
are modelled as the exported operations they are.

## Modules

| Module | Contents |
|---|---|
| `SagaSteps` | the fifteen steps, the table of `saga-coordinator.ts`, the transitions left to external workers |
| `OrderService` | the six write operations as concurrent transactions |
| `OrderLedger` | what those operations promise: each one step, all or nothing, once |
| `OrderServiceInvariant`, `OrderServiceProofs` | the inductive invariant and its theorems |
| `OrderServiceClaims`, `RequestPathClaims` | statements of the repository that the code refutes |
| `RequestPath`, `RequestPathProofs` | middleware, pool, transaction helpers, answers, audit chain |
| `OutboxPoller`, `OutboxPollerProofs`, `OutboxPollerClaims` | `pollOutbox` and its timer, theorems, a refuted statement |
| `SagaCoordinator`, `SagaCoordinatorProofs` | `pollSagas` with workers that lock, advance and die, and services that move sagas |
| `Resync`, `ResyncProofs` | the routes of resync.ts |
| `Bridge`, `BridgeProofs` | the agent, its queue and its timer |
| `Retries` | Bridge, Resync and the idempotency keys of RequestPath side by side |
| `WebhookDeliveries`, `Notifications` | the two services |
| `Lists`, `FeatureGate`, `Validation`, `Portal` | pages, flags, validation, browser tabs |
| `Services`, `ServicesProofs` | these six side by side, and the theorems about each |
| `RateLimiter`, `X12`, `Mapping` | token buckets over time, documents, mappings |
| `Library`, `LibraryProofs` | these three side by side, and their theorems |
| `MCOrderService`, `MCOutboxPoller`, `MCRequestPath`, `MCRetries`, `MCServices`, `MCLibrary` | instances for TLC |

Operators preceded by a comment that begins with "Bug:" are mutations: each
replaces one definition by what a plausible mistake in the code would make of
it, and one property fails with it. They are not part of any specification.

`Services`, `Retries` and `Library` put parts that share nothing side by side: a
behaviour chooses one of them and the others keep their initial state, so that
one run explores all of them, each alone, instead of a product of what cannot
interact.

### OrderService and OrderLedger

`orders`, `sagas`, `outbox`, `shipments`, `invoices` and `audit` are the
committed rows. Every request is a small process: `pc` is the statement it
sends next, `call` its operation and argument, `seen` and `from` what its SELECT
returned, and `orderLock` and `sagaLock` are the rows its open transaction has
written. What a transaction has written and not committed is determined by
these, so that uncommitted rows need no variables of their own: a `Commit...`
action publishes them in one step and `Rollback` drops them.

| Code | Actions |
|---|---|
| createOrder | Begin, CommitCreate (INSERTs of rows nobody else can see) |
| confirmOrder | Begin, FindOrder, UpdateOrderRow, UpdateSagaRow, CommitConfirm |
| updateOrder | Begin, FindOrder, UpdateOrderRow, CommitUpdate |
| createShipment, createInvoice | Begin, FindOrder, UpdateSagaRow, CommitShip / CommitInvoice |
| revertOrder | Begin, AnalyzeImpact unless forced, FindAudit, UpdateOrderRow, CommitRevert |
| errors, statement timeout, lost connection, crash | Rollback, at any point; a crash is a Rollback of every open request |

PostgreSQL at READ COMMITTED is modelled by three rules: a SELECT sees what is
committed when it runs and locks nothing; an UPDATE waits for the row's lock
and then sees the committed row; locks are kept to the end. The UPDATE of a
saga with a condition on `current_step` neither waits for nor sees the
uncommitted step of a concurrent transaction when the committed one fails the
test, which is how a shipment can be recorded and not move the saga.

OrderLedger is the abstract specification: each accepted operation is one
atomic step on the same committed rows, its guard is what it must have found at
some earlier instant, and each request takes effect at most once. `LedgerSpec`
states that OrderService implements it, under the identity on the rows.

### RequestPath

The synchronous middleware is one step with four outcomes: `Refuse` (rate
limiter, token, role, tenant), `Replay` (the key is in the cache),
`Invalid` (the schema, after the idempotency middleware), `Accept`. An accepted
request waits for a connection (`Connect`, `ConnectTimeout`) and then sends the
statements of its helper, one action `Statement` for the head of `todo`:

| Code | `todo` |
|---|---|
| withTenantTransaction (creates and other writes) | BEGIN, SET, DRAW, WORK, COMMIT, CLEAR |
| withTenantClient (reads) | SET, WORK, CLEAR |
| withTransaction | BEGIN, WORK, COMMIT |
| `POST /auth/login` | BEGIN, SET_LOCAL, which PostgreSQL always rejects |
| an error in any of them (`Fails`) | what its `catch` and `finally` still send: `Cleanup` |

`SetConfig` with `is_local = true` lasts as long as the transaction; without
one it lasts for its own SELECT. So a read runs without a tenant, which
`transaction.ts` says it does not (`ReadsHaveTenant`, refuted); `OwnTenant`
says what does hold, of writes and of what is left on a connection.

The INSERT of an audit row is two steps. PostgreSQL evaluates the default of
the BIGSERIAL id before it runs the BEFORE INSERT trigger: DRAW takes the next
number of the sequence, which no ROLLBACK gives back, and WORK is the trigger
with its SELECT, whose result is the row's `prev`, the newest committed row.
Between the two others draw, chain and commit, so that a row may be chained to
one with a higher id and two rows may share a predecessor that committed late.
`during` is what a row notes of the ids then drawn by open transactions.

`Lose`, a lost connection, ends the transaction, perhaps after its COMMIT; one
that is noticed at CLEAR does the request no harm. `ReleaseAndAnswer` returns
the connection, answers and stores the answer under its key, also when it is an
error. `Restart` ends every request and the cache.

What a client may expect of its key is said without the cache: `answered` are
the keys this process has answered, `others` the keys that were answered since,
and `repeats` the requests that came after their key's answer while fewer than
`CacheSize` others had been (`Arrive`, `NoteAnswer`). `KeyRunsOnce` says that
none of them ever runs, which depends on how `StoreKey` replaces, keeps the
order of and evicts entries. Two requests with one key do both run when the
second comes before the first is answered.

### OutboxPoller

A poll is a process with its `batch`, the rows it `held`, the events it has
marked and the state of its transaction. The handler takes effect (`Dispatch`)
before the mark, which is visible at `Commit` only. `MarkFails` is an UPDATE
that fails: the server aborts the transaction (`tx = "aborted"`), marks and
locks are gone, and the `catch`, which only logs, goes on with the next event.
`LoseTransaction` is a lost connection (`tx = "lost"`), of which the poll learns
by statements that are rejected. Either way the loop goes on calling the handler
and the COMMIT keeps nothing. `Crash` ends all polls of a process. Events are
numbered by `created_at`, the start of the inserting transaction, and are
committed in any order.

### SagaCoordinator

Each statement of `pollSagas` is a transaction of its own:
`DetectSlaBreaches` selects, `LogEscalation` inserts one row at a time with the
step that the SELECT returned, `RecoverStaleLocks` frees expired locks, and
`PollFails` skips the rest. Polls overlap. Time is `MissDeadline` and
`LockExpires`. Between two statements a saga moves: by the UPDATEs of the
services (`Confirm`, `Ship`, `Invoice`), which look at no lock and of which the
last two keep the deadline of the step before, so that a saga in breach is at
once in breach of its next step; and by the workers (`Claim`, `Advance`,
`WorkerDies`), which are not in the repository and are modelled from what the
columns and the comments promise. `MaxMoves` bounds the changes of
`current_step`.

### Resync

As OrderService, with one row lock per request and `history`, the rows that
`record_history_trigger` writes: their `old` is the row that was replaced when
the lock was held, not the row the route had read.

### Bridge

`Fetch` is a poll that found orders and `Dequeue` one that found none and takes
a batch out of the queue; `SendOne` and `DrainOne` post one order, `EndPoll`
adjusts the interval and sets the timer. A post is answered, refused (`Poison`),
fails before the API has the order or after it (`Failed`). `DeadLetters` is
`getDeadLetters`, which removes what it returns: both filters are given by the
positions they keep. `Exit` loses the memory.
Shipments go the same way as orders.

### Webhooks, notifications, lists, gate, validation, portal

- WebhookDeliveries: `Select` (BEGIN, SELECT ... FOR UPDATE SKIP LOCKED), `Mark`
  per row, `Commit`, `Rollback`. After a failed UPDATE the `catch` sends another
  one to an aborted transaction, which throws to the outer `catch`: the batch is
  rolled back and `attempts` never exceeds 1.
- Notifications: `Insert`, `CommitOrFail`, and `Broadcast` after the COMMIT;
  `Subscribe`, `Unsubscribe`, `Restart`.
- Lists: the column an UPDATE changes under a filter and the sort order of each
  list; a walk is one `GetPage` per page between `Insert`, `SetStatus` and
  `MarkAsRead`. Ties are sorted anew by each query. `Total` is taken from the
  first row of a page, so it is 0 on a page past the last.
- FeatureGate: `ReadFlag`, `ReadPreference`, `Toggle`.
- Validation: `FindOrder`, `FindItems`, `FindConnection` with `Create` and
  `SetActive` between them; amounts may be NaN.
- Portal: the token of localStorage is shared by all tabs; `user`, the query in
  flight and the cache are each tab's own.

### RateLimiter, X12, Mapping

The limiter has a clock; `Admit` and `Refuse` are the middleware with
`getBucket`.

X12 generates a document, joins it with `*`, `~` and newlines, and parses the
text: a string is a sequence of characters or words, elements that are the same
in every document are the word "fixed", and "space" stands for each character
that `trim()` takes away. `parseX12` trims every segment and drops the empty
ones: the newlines go, and with them the spaces at the end of a segment's last
field, such as the description of a PID or the sku of a LIN. `Received` is what
is left of a document, and `ParsesBack` says that exactly this comes back when
no field holds a separator. The data of the documents are the constant
`Docs`; an 850, which a partner sends, is its body. The loops of the generator and of
`extractPOData` are folds (`Fold`, `Flatten`), `Split` cuts a text at its last
separator and goes on with what is before it, `Line` joins the elements of a
segment.

Mapping keeps a heap of objects by reference, because direct copies put the
source's own objects into the result; a value is one of the kinds that the
transforms tell apart. What `setNestedValue` makes for the i-th field at the n-th
part of its path is the object `New[i, n]`. `getLeafPaths` goes down for ever
(`Endless`) when objects that are reached from the root lead to each other.
`similarity` is an arbitrary score per pair, and `HeuristicMap` gives what the
sorted loop leaves: of the candidates for a target the one that is sorted first.

## Runs

| Run | Instance | Properties |
|---|---|---|
| `orders_all` | 2 orders, 4 requests, all operations, PATCH of DRAFT or CANCELLED | `OutboxComplete`: rows and events are committed together; `AuditReplays`: the audit log in commit order ends at the order's status; `Inv`, the invariant of the proofs, with `TypeOK` |
| `orders_live` | 1 order, 4 requests (create, confirm, ship, invoice, revert), external workers | `SagaEvidence`; `SagaForward`: only a confirmation moves a saga back; `LedgerSpec`: refinement; `EveryRequestAnswered`: no deadlock on the two row locks, none left behind |
| `requests` | a create, its retry and a request of another tenant and of any kind, 2 connections, a cache of 1 key, 1 fault | `OwnTenant`, `PoolIsClean`, `SuccessIsCommitted`, `ForksOnlyWhenOverlapping`, `EveryRequestAnswered` |
| `poller` | 3 polls of a process, 3 events of which 1 poison, LIMIT 2, 2 faults | `ProcessedTookEffect`, `RedeliveryNeedsFault`, `HealthyProcessed` |
| `sagas` | 1 saga at SHIP_READY, 2 moves, 2 workers, 2 polls, LIMIT 1, 1 fault | `OneOwnerUnlessLate`, `BreachEscalated`, `StaleLockFreed` |
| `retries` | bridge: 2 orders of which 1 is always refused, batches of 1, 2 fetches of each, 3 faults; resync: 2 rows, 1 connection, 2 calls at a time, 4 history rows; keys: 4 creates with 3 keys, 1 connection, a cache of 2 keys, 1 fault | `Conservation`, `QueueDrains`, `BacksOff`, `HistoryChain`, `NoStatusSkipped`, `EveryCallAnswered`, `KeyRunsOnce` |
| `services` | webhooks: 3 rows, 2 processors, LIMIT 2, 2 faults; notifications: 3 rows, 2 listeners; lists: 3 rows in pages of 2; gate: 2 checks; validation: 1 order; portal: 2 tabs, 2 users | `SentOnce`, `EveryDeliverySent`, `HeardByAll`, `WalkComplete`, `DecidedAtAnInstant`, `VerdictSound`, `OwnDataShown` |
| `library` | limiter: 2 keys, 3 tokens, rate 2 per 2 ticks, 6 ticks; mapping: all configurations of two fields, three for copies, all scores of 2 x 2 names; X12: up to 2 items, packs of up to 2, orders of up to 4 segments, values with separators and spaces, numbers of 1 to 10 digits, identifiers of 0 to 16 characters | `RateRespected`, `RefusedBriefly`, `SourceKept`, `MappedAsConfigured`, `BestSourceWins`, `ParsesBack`, `EnvelopeAgrees`, `ItemsOfOrder` |
| `claim_confirm` | 1 order, 3 requests | refutes `ConfirmedOnce`: two confirmations both read DRAFT |
| `claim_tenant` | as `requests`, no fault | refutes `ReadsHaveTenant`: the SELECT of a read runs without a tenant |
| `claim_concurrent` | 2 polls, 2 events, 1 fault | refutes `HandledByOnePoll`: after an UPDATE that failed, a poll handles the rest of a batch that another has locked |
| `claim_hierarchy` | as `library` | refutes `ItemsInPacks`: the items of a pack in an 856 hang below one another |

Bounds. In OrderService two transactions and a third that one of them read from
are enough for every stale read, since each reads once before it writes; four
requests give a create and three rivals. Orders interact only through requests:
two check the frame conditions, and one is enough for the rest. `orders_live`
leaves out PATCH, which locks one row only and so adds nothing to the order of
locks; its safety is `orders_all`'s. In `requests` a cache of one key lets the
other tenant's answer evict the key between a create and its retry, and two
connections for three requests make one wait; overlapping is by pairs, and the
third request gives a pair of rows its predecessor. Among the keys of `retries` a
cache of two of the three makes the order of eviction matter; one connection is
enough, since requests that wait overlap all the same. In `sagas` a saga that
starts at SHIP_READY can be moved to an INVOICE step, to another and to
PO_CONFIRMED, in breach or not, between any two statements of a poll: two moves
let it leave the step a poll has found and the one it moves to. Workers compete
for one saga; a LIMIT of one never cuts, since what it would starve is listed
below. The LIMIT of the outbox polls is 2, with three rows, so that it cuts. Two
faults let an aborted or lost transaction meet a crash; that all polls are of one
process makes a crash end all of them by a single fault, the hardest case of
`RedeliveryNeedsFault`. Three faults of the bridge
are a lost answer, a failed post and an exit. Two fetches of an order let the
queue hold it while it is sent anew. Three rows and pages of two give a full, a
partial and an empty page. The clock of `library` runs for three intervals,
with a bucket that is filled by two. Where theorems exist (below), the bounds
matter for the liveness properties only. `MaxHistory`, `MaxFetches`, `MaxTime`,
`MaxMoves` and `MaxFaults` stop new calls, fetches, ticks, changes of steps and
failures, not what is open.
Deadlock is not checked: each model stops when its bounded calls have been
answered; that nothing stops earlier is what the liveness properties say.
Symmetry over requests and orders is used in `orders_all`, which has no
liveness property.

### Fairness

- Open requests, polls, processors and posts run on (`WF` of their steps): the
  event loop and PostgreSQL schedule them without anybody's help.
- `setInterval` fires as long as the timer is set (`WF` of `Tick`, of
  `DetectSlaBreaches`); `HealthyProcessed`, `BreachEscalated` and
  `StaleLockFreed` are about behaviours in which the timer stays set. The
  bridge's timer fires (`WF` of `Poll`).
- Time passes: a lock that stays taken expires.
- In Resync, where rows are written again and again, `SF` of `UpdateStatus`
  states that PostgreSQL serves the waiters of a row lock in turn. In
  OrderService each request is made once, so that `WF` is enough. `Step` of a
  request in RequestPath includes the wait for a connection; it too is weak,
  because requests come once and connections that are released stay available.
- Whoever calls `processWebhookDeliveries` calls it again.
- Nobody is obliged to call the API, insert an event, advance a saga, fail,
  log in, list or restart.

`QueueDrains` and `BacksOff` need the ERP to fall silent, which `MaxFetches`
makes it do: the bridge drains its queue only in polls that fetched nothing, so
that a busy ERP starves it.

## Proofs

Each component's theorems are in its `...Proofs` module; each rests on one
inductive invariant: `Init => Inv`, one lemma per action (or per conjunct), and
a temporal step. The parameters are arbitrary; the only assumptions are the
`ASSUME`s of the modules.

| Module | Theorems | The invariant and why |
|---|---|---|
| `OrderServiceProofs` | `TypeCorrect`, `SagaEvidenceHolds`, `SagaForwardHolds`, `Inductive` (`IInv`), `LedgerInvariant` (`Inv`), `OutboxIsComplete`, `AuditIsReplayable`, `LedgerImplemented` | When a shipment commits, the step it tested was read a statement earlier. `StepHeld`: the holder of a saga's lock is about to commit and the step is still one it awaits; `CreateFresh`: nobody else creates the order a createOrder is about to create; `OrderFound` and `SagaPerOrder`: found rows stay; `PhaseOK`: which operation is in which phase. `CommitEffect` collects what every COMMIT does. `LInv`, on top of it, is what the audit log and the ledger need: an audit row names its request once (`AuditOnce`); the row a revert restores is older than the revert (`RestoresEarlier`); what an audit row has as old was a status the order had (`OldWasHad`), although it was read before the lock; a confirm at its COMMIT holds the saga it will move (`ConfirmHoldsSaga`). The refinement then has one lemma per committed operation: the abstract guard holds of an earlier instant, the abstract effect is the COMMIT, every other statement stutters |
| `RequestPathProofs` | `RequestPathTypeCorrect`, `PoolStaysClean`, `TenantsAreApart`, `KeysRunOnce`, `ForksOverlap`, `SuccessHasRow` | Four layers. `ConnInv`: the statements a request has yet to send determine the state of its connection (`Phases`). `KeyInv`: an answered key is in the cache, behind it only keys of `others` (`Due`): a key that is replaced keeps its place, an entry leaves only when it is the oldest of more than `CacheSize`, and then as many different keys came behind it (`EvictOldest`, by counting). So a repeated key is found and its request never runs (`Repeated`). `ChainInv`, with `WriterAt`, which says that a row is open only between its WORK and the end of its transaction: ids are drawn once; a row names a committed one; a row notes the ids below its own that are not yet committed (`Noted`), since ids are drawn in order and the trigger runs after; and so of two rows with one predecessor the later saw the earlier open, or their predecessor had noted one of them. `PromiseInv`: a successful outcome past the COMMIT, an answer and a cache entry each have a committed row |
| `OutboxPollerProofs` | `PollsTypeCorrect`, `NoEventIsLost`, `RedeliveriesArePaidFor` | `Exclusive`: row locks are disjoint and none is on a processed row; `Effects`: what is marked took effect; `Budget`: the effects of an event and the polls without a transaction that will still handle it are at most the faults, and one if its transaction is alive or committed |
| `SagaCoordinatorProofs` | `CoordinatorTypeCorrect`, `EscalationsAreDue`, `OwnersAreLate` | `Missed`: what polls have found missed its deadline; `InTime`: a worker that is not late has its lock, unexpired |
| `ResyncProofs` | `ResyncTypeCorrect`, `TableIsKept`, `HistoryIsAChain` | `StatusRecorded`: each status has a history row; `Checked`: a transition that was checked against a stale status leads from one the request had. `CreateFresh` and `RowKept`: a row is inserted once, by the only open create of its id, and a request with a history is there; so the first row of a history is that of its creation. The chain is stated by the positions of a request's rows (`RowsOf`), not by a filtered sequence |
| `LibraryProofs`, limiter | `LimiterTypeCorrect`, `RateIsRespected`, `RefusalsAreBrief` | `Fresh`, `Refills`, `Refusals`: while a key is refused its bucket is empty and due within an interval. One lemma gives what is used of `\div` |
| mapping | `SourceIsKept`, `MappingIsAsConfigured`, `BestSourcesWin` | `MapInv`. What the result holds after some fields says nothing of what the next one does to it, unless it is known how its objects hang together: `HeapOK` says that, when nothing is written below a copied object, the record is as it was and the objects that were made are a tree in which each is named by its field and depth (`Name`), so that two paths meet only where one is above the other. Then a write at a target leaves every place alone that is neither above nor below it, and `Unclashed` follows: the fields that are passed have put their values, the others nothing. The record is finite downwards, so that `getLeafPaths` returns (`Unaliased`). For the heuristic, the rank of a suggestion in the sorted list is a bijection, since a set of places as large as the list is all of it |
| X12 | `DocumentsParseBack`, `EnvelopesAgree`, `ItemsKeepOrder` | `X12Inv`: a document that was sent is the generator's, and what came back is the parser's reading of it. The parser undoes the generator: splitting what was joined gives the parts when none holds the separator (`ParseOfText`), trimming a part takes away the newline before a segment and the spaces at its end and no more, because its first field is a name without any (`TrimOfLine`), and what the parser returns never holds a separator (`ParseType`), so that a field with one is always lost. `Shape855`, `Shape810` and `Shape856` show that the counters kept by hand are the number of segments, by the lengths of the flattened rows; `Follows`, that segments continue the numbering of the HLs from a given one, is kept by concatenation, so that packs of any number of items are numbered without a gap. `ItemsOK` is what `extractPOData` has made of the first segments of an order, kept by each further one |
| `BridgeProofs` | `OrdersAreConserved`, `DuplicatesAreLostAnswers` | `OnePollAtATime`: a batch is out only while a poll drains and orders are in hand only while one sends. What is hard is the counting: a filter by positions is a bijection onto what it keeps (`PlacesAreBijective`), so that the messages of an order among the dead and among the rest add up (`CountPartition`), as they do in a batch and the rest of the queue (`CountSplit`) |
| `ServicesProofs`, webhooks | `DeliveriesTypeCorrect`, `DeliveriesSentOnce` | `HeldPending`: a locked row is not yet delivered |
| notifications | `NotificationsTypeCorrect`, `ListenersHearAll` | `OnlyListenersAreOwed`: a subscription starts with nothing owed |
| lists | `WalksAreComplete` | `UnseenAhead`: what the client wants and has not seen ranks behind the pages it has taken. `Rank` counts the listed rows sorted before a row; without ties it is the row's position, an INSERT or an UPDATE that takes no row out of the list only raises it, and a page takes the ranks it spans. The last page, by the total of a page, leaves nothing behind |
| gate, validation, portal | `ChecksDecideAtAnInstant`, `VerdictsAreSound`, `TabsShowOwnData` | `GateInv`: who reads the preference saw the flag on; `ValidationInv`: what each statement found is still so, since orders lose neither fields nor items; `SessionInv`: an unmixed tab's open query went out with its own user's token |
| `ServicesProofs`, all | `ServicesSafe` | every behaviour of the side-by-side specification is one of each part (`ServicesAreParts`) |

The assumptions about constants are what the code guarantees: pages have at
least one row and keys and amounts are ordered (`ListsAssumption`,
`ValidationAssumption`), no token is issued to nobody (`PortalAssumption`), the
record that is mapped is a tree, as JSON.parse makes it (`SourceAssumption`), paths
have a part (`FieldsAssumption`), new objects are new (`NewAssumption`), the
fields of a document are strings of any characters and length
(`DocumentsAssumption`), and those that each module states of its bounds. One is
about a partner and not the code: an 850 holds no HL between its envelope, a PO1 has
a line number and a PID a description.

What a path, a fold or a split computes for inputs of any length is proved by
induction over sets of numbers: a set that has 0 and with each number the next
has all of them, since there is no least number outside of it (`Induct`, from the
well-foundedness of the naturals; `LeastElement`). The library's own induction
theorems take an operator as a parameter, which the provers cannot
instantiate. A recursive function is first shown to exist, as a run of its steps
along the sequence (`RunExists`, `ExtractRun`), and then followed.

Every invariant that a run checks is stated by a theorem; what `retries` checks
of the instances of Resync and RequestPath is proved in the modules of those.
Only model-checked are the liveness properties: liveness under fairness and
ENABLED are out of the prover's reach. The instances of TLC also show what no
theorem does, that each case of the invariants happens: every property fails
with a mutation of the code that it is about.

## Assumptions

- The database accepts the statements of the services. The migrations of the
  repository lack some of their columns and enum values
  (`order_sagas.connection_id`, `audit_log.tenant_id`, `audit_action` 'REVERT',
  `resync_requests.resync_type`, `escalation_log.trigger_type`,
  `calendar_entries.description` and `suppress_alerts`, without which
  `POST /calendar` fails each time). Any statement may still fail in the models.
- Reads run without a tenant (run `claim_tenant`). Lists and Validation assume
  that they see the rows all the same, that is a role that bypasses row level
  security; so does FeatureGate, whose queries go to the pool without a tenant
  although `factory_preferences` has a policy (`003_feature_system.sql:36-38`).
  Under a role that the policy binds, no preference would ever be found.
- Fields other than status and step, packs and deadlines are abstracted in
  OrderService. A duplicate `idempotency_key` of the table is one of the errors
  of `Rollback`; it is not the key of the header, which RequestPath models.
- `revertOrder` restores any audit row of the order that has an old record:
  this covers both the given `targetAuditId` and the latest row. The two SELECTs
  of the impact analysis are one step: rows are never deleted.
- The client's side of a COMMIT whose answer is lost is an error answer.
- TOTAL_CONSISTENCY compares floating-point sums exactly; the model compares
  integers, of which a sum is exact.

## What the code does that no run is spent on

- `createShipment` moves PO_CONFIRMED to SHIP_READY, which the table of
  `saga-coordinator.ts` does not have; a saga whose shipment overlapped its
  confirmation may never reach SHIP_READY, which `SagaEvidence`, a bound from
  above, allows; a PATCH or a revert sets CONFIRMED without
  an event.
- A second confirmation that read DRAFT takes a shipped order's saga back to
  PO_CONFIRMED (the exception of `SagaForward`).
- Two concurrent transitions of a resync request are both checked against the
  status they read, so that one may take a REJECTED request on to VALIDATED.
- Two overlapping requests with one idempotency key both run, against the first
  comment of `idempotency.ts`.
- A row of `audit_log` is not always chained to the one before it by id, which
  the query of `docs/FC_Architecture_Decisions_History.md:226` joins: a
  verification with it would report rows that nobody touched.
- A shipment may be committed between the impact analysis of a revert and its
  transaction, which then orphans it.
- Two concurrent `POST /resync` of a connection both insert; a resync in
  PARTIAL_FAIL or REQUIRES_REVIEW has no way out and blocks the connection.
- LIMIT or more events that the handler always rejects starve the others (the
  assumption of `HealthyProcessed`), and LIMIT 50 without ORDER BY may starve
  breaches (that of `BreachEscalated`). An escalation is inserted at each poll
  as long as the breach lasts: ON CONFLICT DO NOTHING has no constraint to meet.
- Error answers are kept and replayed for an idempotency key. The limiter runs
  before authentication, so that all its keys are addresses.
- `connections.status` is never written; a queue deeper than 1000 hides an
  unhealthy bridge, `cloudConnected` is set once and MAX_RETRY_ATTEMPTS is unused.
  A second `start` after a `stop` of the adaptive poller while a poll is open
  leaves two chains of timers, but nothing restarts it.
- A filtered list skips rows when others leave it during a walk, and calendar
  entries of one day may move between pages; `z.coerce.boolean` reads "false" as
  true.
- Control numbers of more than 9 digits are cut at their end and may collide.
  `buyer_sku` is the seventh element whatever its qualifier. A PID before the
  first PO1 gives an item of its own.
- A mapping target below a copied object writes into the source and may make it
  cyclic, so that `getLeafPaths` throws outside of its `try`; an index of `split`
  out of range and a text in arithmetic give undefined and NaN with success.
- A portal tab keeps its user when another tab logs in as somebody else, and a
  401 ends no session.

## Not modelled

- JSON and cXML adapters: one output field per input field, without state; a
  model would repeat the code line by line.
- ERP adapters: stubs; what they return is Bridge's choice of orders. The
  bridge's health report reads the queue's length and decides nothing.
- Observability (logging, redaction) and the look of the portal's pages: no
  property depends on them.
- Schemas beyond their enumerations, tokens, passwords and roles: declarations
  and library calls, whose outcome is a choice in RequestPath.
- Single-statement writes of connections, calendar entries and impersonation,
  export and import. The analytics route sends several statements at once on one
  client, each with a snapshot of its own, and reports sums of the two instants.
- The chain of AI providers in `ai-mapper.ts` and the text similarity of names.
- The rules of shipments and invoices in the validation engine, two field tests
  without a caller.
