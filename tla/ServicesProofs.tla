---------------------------- MODULE ServicesProofs ----------------------------
(***************************************************************************)
(* The services that share nothing, each for every value of its constants. *)
(***************************************************************************)
EXTENDS Services, FiniteSetTheorems, TLAPS

(***************************************************************************)
(* Webhook deliveries                                                      *)
(***************************************************************************)
(* What a processor has locked is not delivered: others can not mark it.     *)
HeldPending == \A p \in Processors : held[p] \cap delivered = {}

DeliveryInv == TypeOK /\ HeldPending /\ SentOnce

-----------------------------------------------------------------------------
LEMMA DeliveryInit == Init => DeliveryInv
  BY BoundsAssumption DEF Init, DeliveryInv, TypeOK, HeldPending, SentOnce

LEMMA EnqueueStep ==
  ASSUME DeliveryInv, NEW d \in Deliveries, EnqueueDelivery(d)
  PROVE  DeliveryInv'
<1>1. TypeOK'
  BY DEF DeliveryInv, TypeOK, EnqueueDelivery, tx
<1>2. (HeldPending /\ SentOnce)'
  BY DEF DeliveryInv, HeldPending, SentOnce, EnqueueDelivery, tx
<1> QED BY <1>1, <1>2 DEF DeliveryInv

(* SKIP LOCKED: what is selected is pending and nobody else's.               *)
LEMMA SelectStep ==
  ASSUME DeliveryInv, NEW p \in Processors, Select(p)
  PROVE  DeliveryInv'
<1> DEFINE rows == First(Limit, Candidates)
<1>1. /\ rows \subseteq enqueued \ delivered
      /\ \A q \in Processors : rows \cap held[q] = {}
  BY DEF First, Candidates, Pending
<1>2. /\ batch' = [batch EXCEPT ![p] = rows] /\ held' = [held EXCEPT ![p] = rows]
      /\ pc' = [pc EXCEPT ![p] = "open"] /\ pc[p] = "idle"
      /\ UNCHANGED <<enqueued, delivered, attempts, marks, faults>>
  BY DEF Select
<1> HIDE DEF rows
<1>3. held[p] = {} /\ marks[p] = {}
  BY <1>2 DEF DeliveryInv, TypeOK
<1>4. TypeOK'
  <2>1. /\ batch' \in [Processors -> SUBSET enqueued] /\ held' \in [Processors -> SUBSET enqueued]
        /\ pc' \in [Processors -> {"idle", "open"}]
    BY <1>1, <1>2 DEF DeliveryInv, TypeOK
  <2>2. \A q \in Processors :
          /\ batch'[q] \cup marks'[q] = held'[q] /\ batch'[q] \cap marks'[q] = {}
          /\ pc'[q] = "idle" => held'[q] = {}
    BY <1>1, <1>2, <1>3 DEF DeliveryInv, TypeOK
  <2>3. \A q, r \in Processors : q # r => held'[q] \cap held'[r] = {}
    BY <1>1, <1>2 DEF DeliveryInv, TypeOK
  <2> QED BY <1>2, <2>1, <2>2, <2>3 DEF DeliveryInv, TypeOK
<1>5. (HeldPending /\ SentOnce)'
  BY <1>1, <1>2 DEF DeliveryInv, TypeOK, HeldPending, SentOnce
<1> QED BY <1>4, <1>5 DEF DeliveryInv

LEMMA MarkStep ==
  ASSUME DeliveryInv, NEW p \in Processors, Mark(p)
  PROVE  DeliveryInv'
<1> PICK d \in batch[p] :
      /\ batch' = [batch EXCEPT ![p] = @ \ {d}]
      /\ marks' = [marks EXCEPT ![p] = @ \cup {d}]
      /\ UNCHANGED <<enqueued, delivered, attempts, pc, held, faults>>
  BY DEF Mark
<1>1. TypeOK'
  <2>1. batch' \in [Processors -> SUBSET enqueued] /\ marks' \in [Processors -> SUBSET enqueued]
    BY DEF DeliveryInv, TypeOK
  <2>2. \A q \in Processors : batch'[q] \cup marks'[q] = held'[q] /\ batch'[q] \cap marks'[q] = {}
    BY DEF DeliveryInv, TypeOK
  <2> QED BY <2>1, <2>2 DEF DeliveryInv, TypeOK
<1>2. (HeldPending /\ SentOnce)'
  BY DEF DeliveryInv, HeldPending, SentOnce
<1> QED BY <1>1, <1>2 DEF DeliveryInv

(* COMMIT adds one attempt to rows that had none; ROLLBACK adds nothing.     *)
LEMMA CloseStep ==
  ASSUME DeliveryInv, NEW p \in Processors, Close(p), enqueued' = enqueued,
         faults' \in 0 .. MaxFaults,
         \/ /\ delivered' = delivered \cup marks[p]
            /\ attempts' = [d \in Deliveries |->
                              IF d \in marks[p] THEN attempts[d] + 1 ELSE attempts[d]]
         \/ delivered' = delivered /\ attempts' = attempts
  PROVE  DeliveryInv'
<1>1. /\ pc' = [pc EXCEPT ![p] = "idle"] /\ batch' = [batch EXCEPT ![p] = {}]
      /\ held' = [held EXCEPT ![p] = {}] /\ marks' = [marks EXCEPT ![p] = {}]
  BY DEF Close
<1>2. marks[p] \subseteq held[p] /\ marks[p] \cap delivered = {} /\ marks[p] \subseteq enqueued
  BY DEF DeliveryInv, TypeOK, HeldPending
<1>3. SentOnce'
  <2> SUFFICES ASSUME NEW d \in Deliveries
               PROVE  attempts'[d] = IF d \in delivered' THEN 1 ELSE 0
    BY DEF SentOnce
  <2>1. attempts[d] = IF d \in delivered THEN 1 ELSE 0
    BY DEF DeliveryInv, SentOnce
  <2>2. CASE delivered' = delivered /\ attempts' = attempts
    BY <2>1, <2>2
  <2>3. CASE /\ delivered' = delivered \cup marks[p]
             /\ attempts' = [e \in Deliveries |->
                               IF e \in marks[p] THEN attempts[e] + 1 ELSE attempts[e]]
    <3>1. CASE d \in marks[p]
      BY <1>2, <2>1, <2>3, <3>1
    <3>2. CASE d \notin marks[p]
      BY <2>1, <2>3, <3>2
    <3> QED BY <3>1, <3>2
  <2> QED BY <2>2, <2>3
<1>4. HeldPending'
  <2> SUFFICES ASSUME NEW q \in Processors PROVE held'[q] \cap delivered' = {}
    BY DEF HeldPending
  <2>1. CASE q = p
    BY <1>1, <2>1 DEF DeliveryInv, TypeOK
  <2>2. CASE q # p
    <3>1. held'[q] = held[q] /\ held[q] \cap marks[p] = {} /\ held[q] \cap delivered = {}
      BY <1>1, <1>2, <2>2 DEF DeliveryInv, TypeOK, HeldPending
    <3> QED BY <3>1
  <2> QED BY <2>1, <2>2
<1>5. TypeOK'
  <2>1. delivered' \subseteq enqueued' /\ enqueued' \subseteq Deliveries
    BY <1>2 DEF DeliveryInv, TypeOK
  <2>2. attempts' \in [Deliveries -> 0 .. MaxAttempts]
    <3>1. \A d \in Deliveries : attempts'[d] \in 0 .. MaxAttempts
      BY <1>3, BoundsAssumption DEF SentOnce
    <3>2. attempts' = [d \in Deliveries |-> attempts'[d]]
      BY DEF DeliveryInv, TypeOK
    <3> QED BY <3>1, <3>2
  <2>3. /\ pc' \in [Processors -> {"idle", "open"}]
        /\ {batch', held', marks'} \subseteq [Processors -> SUBSET enqueued']
    BY <1>1 DEF DeliveryInv, TypeOK
  <2>4. \A q \in Processors :
          /\ batch'[q] \cup marks'[q] = held'[q] /\ batch'[q] \cap marks'[q] = {}
          /\ pc'[q] = "idle" => held'[q] = {}
    BY <1>1 DEF DeliveryInv, TypeOK
  <2>5. \A q, r \in Processors : q # r => held'[q] \cap held'[r] = {}
    BY <1>1 DEF DeliveryInv, TypeOK
  <2> QED BY <2>1, <2>2, <2>3, <2>4, <2>5 DEF TypeOK
<1> QED BY <1>3, <1>4, <1>5 DEF DeliveryInv

LEMMA DeliveryStep == DeliveryInv /\ [Next]_vars => DeliveryInv'
<1> SUFFICES ASSUME DeliveryInv, [Next]_vars PROVE DeliveryInv'
  OBVIOUS
<1>1. ASSUME NEW d \in Deliveries, EnqueueDelivery(d) PROVE DeliveryInv'
  BY <1>1, EnqueueStep
<1>2. ASSUME NEW p \in Processors, Select(p) PROVE DeliveryInv'
  BY <1>2, SelectStep
<1>3. ASSUME NEW p \in Processors, Mark(p) PROVE DeliveryInv'
  BY <1>3, MarkStep
<1>4. ASSUME NEW p \in Processors, Commit(p) PROVE DeliveryInv'
  <2>1. faults' \in 0 .. MaxFaults
    BY <1>4 DEF Commit, DeliveryInv, TypeOK
  <2> QED BY <1>4, <2>1, CloseStep DEF Commit
<1>5. ASSUME NEW p \in Processors, Rollback(p) PROVE DeliveryInv'
  <2>1. faults' \in 0 .. MaxFaults
    BY <1>5, BoundsAssumption DEF Rollback, Fault, DeliveryInv, TypeOK
  <2> QED BY <1>5, <2>1, CloseStep DEF Rollback
<1>6. CASE UNCHANGED vars
  BY <1>6 DEF vars, tx, DeliveryInv, TypeOK, HeldPending, SentOnce
<1> QED BY <1>1, <1>2, <1>3, <1>4, <1>5, <1>6 DEF Next, Step

LEMMA DeliveryInvariant == Spec => []DeliveryInv
<1> QED BY DeliveryInit, DeliveryStep, PTL DEF Spec

(* No row of webhook_deliveries is locked by two processors.                 *)
THEOREM DeliveriesTypeCorrect == Spec => []TypeOK
<1>1. DeliveryInv => TypeOK
  BY DEF DeliveryInv
<1> QED BY <1>1, DeliveryInvariant, PTL

(* Failures and overlapping processors never send a delivery twice.          *)
THEOREM DeliveriesSentOnce == Spec => []SentOnce
<1>1. DeliveryInv => SentOnce
  BY DEF DeliveryInv
<1> QED BY <1>1, DeliveryInvariant, PTL

(***************************************************************************)
(* Notifications                                                           *)
(***************************************************************************)
(* A listener that is not subscribed is owed nothing. *)
OnlyListenersAreOwed == \A l \in Listeners \ listening : since[l] = {}

BusInv == N!TypeOK /\ OnlyListenersAreOwed /\ N!HeardByAll

LEMMA BusInit == N!Init => BusInv
BY DEF N!Init, BusInv, N!TypeOK, OnlyListenersAreOwed, N!HeardByAll

LEMMA NotifyStep == ASSUME BusInv, NEW n \in Rows, N!Insert(n) PROVE BusInv'
BY DEF N!Insert, N!bus, BusInv, N!TypeOK, OnlyListenersAreOwed, N!HeardByAll

(* A COMMIT puts its row among the unsent, for all who are then owed it.     *)
LEMMA CommitNotificationStep == ASSUME BusInv, NEW n \in Rows, N!CommitOrFail(n) PROVE BusInv'
<1>1. /\ n \in open /\ open' = open \ {n}
      /\ UNCHANGED <<listening, heard>>
  BY DEF N!CommitOrFail
<1>2. CASE UNCHANGED <<committed, unsent, since>>
  BY <1>1, <1>2 DEF BusInv, N!TypeOK, OnlyListenersAreOwed, N!HeardByAll
<1>3. CASE /\ committed' = committed \cup {n} /\ unsent' = unsent \cup {n}
           /\ since' = [l \in Listeners |-> IF l \in listening THEN since[l] \cup {n} ELSE since[l]]
  <2>1. N!TypeOK'
    BY <1>1, <1>3 DEF BusInv, N!TypeOK
  <2>2. OnlyListenersAreOwed'
    BY <1>1, <1>3 DEF BusInv, OnlyListenersAreOwed
  <2>3. N!HeardByAll'
    BY <1>1, <1>3 DEF BusInv, N!TypeOK, N!HeardByAll
  <2> QED BY <2>1, <2>2, <2>3 DEF BusInv
<1> QED BY <1>2, <1>3 DEF N!CommitOrFail

(* A broadcast reaches everybody who was owed the row.                       *)
LEMMA BroadcastStep == ASSUME BusInv, NEW n \in Rows, N!Broadcast(n) PROVE BusInv'
<1>1. N!TypeOK'
  BY DEF N!Broadcast, BusInv, N!TypeOK
<1>2. OnlyListenersAreOwed'
  BY DEF N!Broadcast, BusInv, OnlyListenersAreOwed
<1>3. N!HeardByAll'
  BY DEF N!Broadcast, BusInv, N!TypeOK, N!HeardByAll
<1> QED BY <1>1, <1>2, <1>3 DEF BusInv

LEMMA SubscribeStep == ASSUME BusInv, NEW l \in Listeners, N!Subscribe(l) PROVE BusInv'
BY DEF N!Subscribe, BusInv, N!TypeOK, OnlyListenersAreOwed, N!HeardByAll

LEMMA UnsubscribeStep == ASSUME BusInv, NEW l \in Listeners, N!Unsubscribe(l) PROVE BusInv'
BY DEF N!Unsubscribe, BusInv, N!TypeOK, OnlyListenersAreOwed, N!HeardByAll

LEMMA RestartStep == ASSUME BusInv, N!Restart PROVE BusInv'
BY DEF N!Restart, BusInv, N!TypeOK, OnlyListenersAreOwed, N!HeardByAll

(* BusInv is an invariant: whoever is not subscribed is owed nothing, so that*)
(* a subscription starts with what is committed after it.                    *)
THEOREM BusInductive == N!Spec => []BusInv
<1>1. BusInv /\ [N!Next]_(N!vars) => BusInv'
  <2> SUFFICES ASSUME BusInv, [N!Next]_(N!vars) PROVE BusInv'
    OBVIOUS
  <2>1. CASE UNCHANGED N!vars
    BY <2>1 DEF N!vars, N!bus, BusInv, N!TypeOK, OnlyListenersAreOwed, N!HeardByAll
  <2>2. CASE N!Next
    BY <2>2, NotifyStep, CommitNotificationStep, BroadcastStep, SubscribeStep, UnsubscribeStep, RestartStep DEF N!Next
  <2> QED BY <2>1, <2>2
<1> QED BY <1>1, BusInit, PTL DEF N!Spec

(* Every variable of the notification service keeps its type: a row is never *)
(* open and committed at once, and only a committed row waits for broadcast. *)
THEOREM NotificationsTypeCorrect == N!Spec => []N!TypeOK
<1>1. BusInv => N!TypeOK
  BY DEF BusInv
<1> QED BY <1>1, BusInductive, PTL

(* A listener that was subscribed at the COMMIT of a notification, and still *)
(* is, hears it, whichever transactions fail and whoever else comes and      *)
(* goes; nobody hears of a notification that was rolled back.                *)
THEOREM ListenersHearAll == N!Spec => []HeardByAll
<1>1. BusInv => HeardByAll
  BY DEF BusInv, HeardByAll
<1> QED BY <1>1, BusInductive, PTL

(***************************************************************************)
(* The feature gate                                                        *)
(***************************************************************************)
(* Whoever reads the preference saw the flag on, and at that instant the     *)
(* check would have answered what the preference says.                       *)
GateInv ==
  /\ check \in [Checks -> {"idle", "reading", "done"}]
  /\ allowed \in [Checks -> BOOLEAN]
  /\ possible \in [Checks -> SUBSET BOOLEAN]
  /\ \A c \in Checks : check[c] = "reading" => (preference # "off") \in possible[c]
  /\ DecidedAtAnInstant

LEMMA GateStep == GateInv /\ [G!Next]_(G!vars) => GateInv'
<1> SUFFICES ASSUME GateInv, [G!Next]_(G!vars) PROVE GateInv'
  OBVIOUS
<1> USE DEF GateInv, DecidedAtAnInstant, G!DecidedAtAnInstant
<1>1. ASSUME NEW c \in Checks, G!ReadFlag(c) PROVE GateInv'
  <2>1. CASE flag = "on"
    BY <1>1, <2>1 DEF G!ReadFlag, G!Enabled, G!Decide
  <2>2. CASE flag # "on"
    BY <1>1, <2>2 DEF G!ReadFlag, G!Enabled, G!Decide
  <2> QED BY <2>1, <2>2
<1>2. ASSUME NEW c \in Checks, G!ReadPreference(c) PROVE GateInv'
  BY <1>2 DEF G!ReadPreference, G!Decide
<1>3. ASSUME NEW value \in {"on", "off"}, G!Toggle(value) PROVE GateInv'
  BY <1>3 DEF G!Toggle, G!Enabled
<1>4. CASE UNCHANGED G!vars
  BY <1>4 DEF G!vars
<1> QED BY <1>1, <1>2, <1>3, <1>4 DEF G!Next

(* The two reads of a check decide as one would have at some instant of it,  *)
(* for any number of checks and however often the flag is toggled.           *)
THEOREM ChecksDecideAtAnInstant == G!Spec => []DecidedAtAnInstant
<1>1. G!Init => GateInv
  BY DEF G!Init, GateInv, DecidedAtAnInstant, G!DecidedAtAnInstant
<1>2. GateInv => DecidedAtAnInstant
  BY DEF GateInv
<1> QED BY <1>1, <1>2, GateStep, PTL DEF G!Spec

(***************************************************************************)
(* Validation                                                              *)
(***************************************************************************)
Rules == {"EXISTS", "REQUIRED", "POSITIVE_NUMBER", "HAS_LINE_ITEMS"}

OrderErrors == V!Required(order) \cup V!PositiveNumber(order)

VerdictType ==
  /\ stored \in BOOLEAN /\ items \in BOOLEAN /\ active \in BOOLEAN
  /\ order \in V!Orders
  /\ step \in {"idle", "items", "connection", "done"}
  /\ verdict \in [valid : BOOLEAN, errors : SUBSET Rules,
                  warnings : SUBSET {"TOTAL_CONSISTENCY", "ACTIVE_CONNECTION"}]

(* The errors are those that the reads so far can tell of; an order that was *)
(* found stays; and the connection's status has been noted.                  *)
ErrorsSoFar ==
  /\ step = "items" => verdict.errors = OrderErrors
  /\ step = "connection" =>
       verdict.errors = OrderErrors \cup IF items THEN {} ELSE {"HAS_LINE_ITEMS"}
  /\ step \in {"items", "connection"} =>
       /\ verdict.valid <=> verdict.errors = {}
       /\ "ACTIVE_CONNECTION" \notin verdict.warnings
  /\ step # "idle" => stored \/ "EXISTS" \in verdict.errors
  /\ step \in {"items", "connection"} => stored
  /\ step # "idle" => active \in was

ValidationInv == VerdictType /\ ErrorsSoFar /\ VerdictSound

(* An order can be sent when no rule finds an error.                         *)
LEMMA NoErrorIsDispatchable ==
  ASSUME order \in V!Orders
  PROVE  /\ V!Dispatchable <=> stored /\ items /\ OrderErrors = {}
         /\ OrderErrors \subseteq {"REQUIRED", "POSITIVE_NUMBER"}
<1> DEFINE amounts == {order.subtotal, order.tax_amount, order.total_amount}
<1>1. amounts \subseteq Amounts \cup {NaN}
  BY DEF V!Orders
<1>2. \A x \in Amounts \cup {NaN} :
        (IF V!IsNumber(x) THEN x >= 0 ELSE FALSE) <=> ~(IF V!IsNumber(x) THEN x < 0 ELSE TRUE)
  <2> TAKE x \in Amounts \cup {NaN}
  <2>1. CASE x = NaN
    BY <2>1 DEF V!IsNumber
  <2>2. CASE x # NaN
    <3>1. x \in Int
      BY <2>2, ValidationAssumption
    <3> QED BY <2>2, <3>1 DEF V!IsNumber
  <2> QED BY <2>1, <2>2
<1>3. /\ V!Required(order) = {} <=> order.empty = {}
      /\ V!Required(order) \subseteq {"REQUIRED"}
  BY DEF V!Required
<1>4. /\ V!PositiveNumber(order) = {} <=>
           \A x \in amounts : ~(IF V!IsNumber(x) THEN x < 0 ELSE TRUE)
      /\ V!PositiveNumber(order) \subseteq {"POSITIVE_NUMBER"}
  BY DEF V!PositiveNumber
<1>5. V!Dispatchable <=>
        /\ stored /\ items /\ order.empty = {}
        /\ \A x \in amounts : IF V!IsNumber(x) THEN x >= 0 ELSE FALSE
  BY DEF V!Dispatchable
<1> HIDE DEF amounts
<1>6. V!Dispatchable <=> stored /\ items /\ V!Required(order) = {} /\ V!PositiveNumber(order) = {}
  BY <1>1, <1>2, <1>3, <1>4, <1>5
<1> QED BY <1>3, <1>4, <1>6 DEF OrderErrors

LEMMA ValidationInit == V!Init => ValidationInv
BY DEF V!Init, ValidationInv, VerdictType, ErrorsSoFar, VerdictSound, V!VerdictSound

(* The three reads, in their order: what they find is what they report.      *)
LEMMA FindOrderStep == ASSUME ValidationInv, V!FindOrder PROVE ValidationInv'
<1>1. /\ step = "idle" /\ was' = {active}
      /\ UNCHANGED <<stored, order, items, active>>
  BY DEF V!FindOrder
<1>2. CASE ~stored
  <2>1. step' = "done" /\ verdict' = [valid |-> FALSE, errors |-> {"EXISTS"}, warnings |-> {}]
    BY <1>2 DEF V!FindOrder
  <2> QED BY <1>1, <1>2, <2>1 DEF ValidationInv, VerdictType, ErrorsSoFar, Rules, VerdictSound, V!VerdictSound
<1>3. CASE stored
  <2>1. /\ step' = "items"
        /\ verdict' = [valid |-> OrderErrors = {}, errors |-> OrderErrors,
                       warnings |-> V!TotalConsistency(order)]
    BY <1>3 DEF V!FindOrder, V!ValidateOrder, OrderErrors
  <2>2. OrderErrors \subseteq {"REQUIRED", "POSITIVE_NUMBER"}
    BY NoErrorIsDispatchable DEF ValidationInv, VerdictType
  <2>3. V!TotalConsistency(order) \subseteq {"TOTAL_CONSISTENCY"}
    BY DEF V!TotalConsistency
  <2>4. OrderErrors' = OrderErrors
    BY <1>1 DEF OrderErrors
  <2>5. VerdictType'
    BY <1>1, <2>1, <2>2, <2>3 DEF ValidationInv, VerdictType, Rules
  <2>6. ErrorsSoFar'
    BY <1>1, <1>3, <2>1, <2>3, <2>4 DEF ErrorsSoFar
  <2>7. VerdictSound'
    BY <2>1 DEF VerdictSound, V!VerdictSound
  <2> QED BY <2>5, <2>6, <2>7 DEF ValidationInv
<1> QED BY <1>2, <1>3

LEMMA FindItemsStep == ASSUME ValidationInv, V!FindItems PROVE ValidationInv'
<1>1. /\ step = "items" /\ step' = "connection"
      /\ UNCHANGED <<stored, order, items, active, was>>
      /\ verdict' = IF items THEN verdict
                    ELSE [verdict EXCEPT !.valid = FALSE, !.errors = @ \cup {"HAS_LINE_ITEMS"}]
  BY DEF V!FindItems
<1>2. OrderErrors' = OrderErrors
  BY <1>1 DEF OrderErrors
<1>3. VerdictType'
  BY <1>1 DEF ValidationInv, VerdictType, Rules
<1>4. ErrorsSoFar'
  BY <1>1, <1>2 DEF ValidationInv, VerdictType, ErrorsSoFar
<1>5. VerdictSound'
  BY <1>1 DEF VerdictSound, V!VerdictSound
<1> QED BY <1>3, <1>4, <1>5 DEF ValidationInv

LEMMA FindConnectionStep == ASSUME ValidationInv, V!FindConnection PROVE ValidationInv'
<1>1. /\ step = "connection" /\ step' = "done"
      /\ UNCHANGED <<stored, order, items, active, was>>
      /\ verdict' = IF active THEN verdict
                    ELSE [verdict EXCEPT !.warnings = @ \cup {"ACTIVE_CONNECTION"}]
  BY DEF V!FindConnection
<1>2. VerdictType'
  BY <1>1 DEF ValidationInv, VerdictType
<1>3. ErrorsSoFar'
  BY <1>1 DEF ValidationInv, ErrorsSoFar
<1>4. /\ verdict'.valid = verdict.valid /\ verdict'.errors = verdict.errors
      /\ "ACTIVE_CONNECTION" \in verdict'.warnings <=> ~active
  BY <1>1 DEF ValidationInv, VerdictType, ErrorsSoFar
<1>5. /\ verdict.valid <=> V!Dispatchable
      /\ "EXISTS" \notin verdict.errors
  BY <1>1, NoErrorIsDispatchable DEF ValidationInv, VerdictType, ErrorsSoFar
<1>6. V!Dispatchable' <=> V!Dispatchable
  BY <1>1 DEF V!Dispatchable
<1>7. ("ACTIVE_CONNECTION" \notin verdict'.warnings) \in was'
  BY <1>1, <1>4 DEF ValidationInv, VerdictType, ErrorsSoFar
<1>8. VerdictSound'
  BY <1>1, <1>4, <1>5, <1>6, <1>7 DEF ValidationInv, ErrorsSoFar, VerdictSound, V!VerdictSound
<1> QED BY <1>2, <1>3, <1>8 DEF ValidationInv

LEMMA ValidationStep == ValidationInv /\ [V!Next]_(V!vars) => ValidationInv'
<1> SUFFICES ASSUME ValidationInv, [V!Next]_(V!vars) PROVE ValidationInv'
  OBVIOUS
<1>1. CASE V!Create
  <2>1. ~stored /\ stored' = TRUE /\ UNCHANGED <<order, items, active, step, verdict, was>>
    BY <1>1 DEF V!Create
  <2>2. step # "idle" => "EXISTS" \in verdict.errors /\ step = "done"
    BY <2>1 DEF ValidationInv, VerdictType, ErrorsSoFar
  <2>3. VerdictType' /\ ErrorsSoFar'
    BY <2>1, <2>2 DEF ValidationInv, VerdictType, ErrorsSoFar
  <2>4. VerdictSound'
    BY <2>1, <2>2 DEF ValidationInv, VerdictType, VerdictSound, V!VerdictSound, V!Dispatchable
  <2> QED BY <2>3, <2>4 DEF ValidationInv
<1>2. CASE V!SetActive
  <2>1. /\ active' \in BOOLEAN /\ UNCHANGED <<stored, order, items, step, verdict>>
        /\ step # "idle" => was' = was \cup {active'}
    BY <1>2 DEF V!SetActive
  <2>2. VerdictType'
    BY <2>1 DEF ValidationInv, VerdictType
  <2>3. ErrorsSoFar'
    BY <2>1 DEF ValidationInv, VerdictType, ErrorsSoFar, OrderErrors
  <2>4. VerdictSound'
    BY <2>1 DEF ValidationInv, VerdictSound, V!VerdictSound, V!Dispatchable
  <2> QED BY <2>2, <2>3, <2>4 DEF ValidationInv
<1>3. CASE V!FindOrder
  BY <1>3, FindOrderStep
<1>4. CASE V!FindItems
  BY <1>4, FindItemsStep
<1>5. CASE V!FindConnection
  BY <1>5, FindConnectionStep
<1>6. CASE UNCHANGED V!vars
  <2>1. UNCHANGED <<stored, order, items, active, step, verdict, was>>
    BY <1>6 DEF V!vars
  <2>2. VerdictType' /\ ErrorsSoFar'
    BY <2>1 DEF ValidationInv, VerdictType, ErrorsSoFar, OrderErrors
  <2>3. VerdictSound'
    BY <2>1 DEF ValidationInv, VerdictSound, V!VerdictSound, V!Dispatchable
  <2> QED BY <2>2, <2>3 DEF ValidationInv
<1> QED BY <1>1, <1>2, <1>3, <1>4, <1>5, <1>6 DEF V!Next

(* The verdict of three reads without a transaction is that of the order as  *)
(* it is, for any columns and amounts.                                       *)
THEOREM VerdictsAreSound == V!Spec => []VerdictSound
<1>1. ValidationInv => VerdictSound
  BY DEF ValidationInv
<1> QED BY <1>1, ValidationInit, ValidationStep, PTL DEF V!Spec

(***************************************************************************)
(* The portal                                                              *)
(***************************************************************************)
(* Queries go out with the user's own token in every tab that is not mixed.  *)
SessionInv ==
  /\ user \in [Tabs -> Users \cup {None}]
  /\ loggingIn \in [Tabs -> Users \cup {None}]
  /\ asking \in [Tabs -> Users \cup {None}]
  /\ cache \in [Tabs -> SUBSET Users]
  /\ mixed \subseteq Tabs
  /\ token \in Users \cup {None}
  /\ \A t \in Tabs : user[t] = None => cache[t] = {} /\ asking[t] = None /\ t \notin mixed
  /\ \A t \in Tabs : loggingIn[t] # None => user[t] = None
  /\ \A t \in Tabs \ mixed : asking[t] \in {None, user[t]}
  /\ OwnDataShown

LEMMA SessionStep == SessionInv /\ [P!Next]_(P!vars) => SessionInv'
<1> SUFFICES ASSUME SessionInv, [P!Next]_(P!vars) PROVE SessionInv'
  OBVIOUS
<1> USE PortalAssumption DEF SessionInv, OwnDataShown, P!OwnDataShown
<1>1. ASSUME NEW t \in Tabs, P!Load(t) PROVE SessionInv'
  BY <1>1 DEF P!Load
<1>2. ASSUME NEW t \in Tabs, NEW u \in Users, P!Submit(t, u) PROVE SessionInv'
  BY <1>2 DEF P!Submit
<1>3. ASSUME NEW t \in Tabs, P!Login(t) PROVE SessionInv'
  BY <1>3 DEF P!Login
<1>4. ASSUME NEW t \in Tabs, P!Logout(t) PROVE SessionInv'
  BY <1>4 DEF P!Logout
<1>5. ASSUME NEW t \in Tabs, P!Ask(t) PROVE SessionInv'
  BY <1>5 DEF P!Ask
<1>6. ASSUME NEW t \in Tabs, P!Receive(t) PROVE SessionInv'
  BY <1>6 DEF P!Receive
<1>7. ASSUME NEW u \in Users, P!Expire(u) PROVE SessionInv'
  BY <1>7 DEF P!Expire
<1>8. CASE UNCHANGED P!vars
  BY <1>8 DEF P!vars
<1> QED BY <1>1, <1>2, <1>3, <1>4, <1>5, <1>6, <1>7, <1>8 DEF P!Next

(* A tab shows its user's data alone, for any number of tabs and users,      *)
(* unless another tab of the browser has logged in as somebody else.         *)
THEOREM TabsShowOwnData == P!Spec => []OwnDataShown
<1>1. P!Init => SessionInv
  BY PortalAssumption DEF P!Init, SessionInv, OwnDataShown, P!OwnDataShown
<1>2. SessionInv => OwnDataShown
  BY DEF SessionInv
<1> QED BY <1>1, <1>2, SessionStep, PTL DEF P!Spec

(***************************************************************************)
(* Paged lists                                                             *)
(***************************************************************************)
(* How many listed rows are sorted before a row.                             *)
Rank(n) == Cardinality({ m \in L!Matching : L!Before(m, n) })

(* The rows a walk has still to see lie on pages that it has still to get.   *)
UnseenAhead ==
  page > 0 /\ ~left /\ ~L!Tied =>
    /\ want \subseteq L!Matching
    /\ \A n \in want \ seen : Rank(n) >= (page - 1) * PageSize

WalkInv ==
  /\ key \in [Rows -> Keys]
  /\ present \subseteq Rows /\ IsFiniteSet(present)
  /\ page \in Nat
  /\ filter \in BOOLEAN /\ left \in BOOLEAN
  /\ UnseenAhead
  /\ WalkComplete

(***************************************************************************)
(* One page                                                                *)
(***************************************************************************)
LEMMA CardinalityOfLists == \A S : L!Cardinality(S) = Cardinality(S)
BY DEF L!Cardinality, Cardinality

LEMMA CountTo == ASSUME NEW k \in Nat PROVE IsFiniteSet(1 .. k) /\ Cardinality(1 .. k) = k
<1>1. CASE k = 0
  BY <1>1, FS_Interval
<1>2. CASE k > 0
  BY <1>2, FS_Interval
<1> QED BY <1>1, <1>2

(* Rows without ties are ordered.                                            *)
LEMMA BeforeIsTotal ==
  ASSUME WalkInv, NEW m \in present, NEW n \in present
  PROVE  /\ ~L!Before(m, m)
         /\ ~L!Tied /\ m # n /\ ~L!Before(n, m) => L!Before(m, n)
<1>1. key[m] \in Int /\ key[n] \in Int
  BY ListsAssumption DEF WalkInv
<1>2. ~L!Tied /\ m # n => key[m] # key[n]
  BY DEF L!Tied
<1>3. ~(key[m] < key[m]) /\ (key[m] # key[n] => key[m] < key[n] \/ key[n] < key[m])
  BY <1>1
<1>4. CASE list.sort = "by entry_date"
  <2>1. \A a, b : L!Before(a, b) <=> key[a] < key[b]
    BY <1>4 DEF L!Before
  <2> QED BY <1>2, <1>3, <2>1
<1>5. CASE list.sort # "by entry_date"
  <2>1. \A a, b : L!Before(a, b) <=> key[a] > key[b]
    BY <1>5 DEF L!Before
  <2>2. key[m] > key[n] <=> key[n] < key[m]
    BY <1>1
  <2>3. key[n] > key[m] <=> key[m] < key[n]
    BY <1>1
  <2>4. ~(key[m] > key[m])
    BY <1>1
  <2> QED BY <1>2, <1>3, <2>1, <2>2, <2>3, <2>4
<1> QED BY <1>4, <1>5

(* A query's answer holds each matching row once, in an order of ORDER BY.   *)
LEMMA SortingOfMatching ==
  ASSUME WalkInv, NEW s \in L!Sortings
  PROVE  LET M == L!Matching
             C == Cardinality(M)
         IN  /\ IsFiniteSet(M) /\ C \in Nat /\ M \subseteq present
             /\ s \in [1 .. C -> M]
             /\ s \in Injection(1 .. C, M) /\ s \in Surjection(1 .. C, M)
             /\ \A a, b \in 1 .. C : a < b => ~L!Before(s[b], s[a])
<1> DEFINE M == L!Matching
           C == Cardinality(M)
<1>1. M \subseteq present
  BY DEF L!Matching, L!Listed
<1>2. IsFiniteSet(M) /\ C \in Nat
  BY <1>1, FS_Subset, FS_CardinalityType DEF WalkInv
<1>3. s \in L!SetToSeqs(M) /\ \A a, b \in DOMAIN s : a < b => ~L!Before(s[b], s[a])
  BY DEF L!Sortings
<1>4. s \in [1 .. C -> M] /\ \A a, b \in 1 .. C : a # b => s[a] # s[b]
  BY <1>3, CardinalityOfLists DEF L!SetToSeqs
<1>5. s \in Injection(1 .. C, M)
  BY <1>4 DEF Injection, IsInjective
<1>6. s \in Surjection(1 .. C, M)
  BY <1>2, <1>5, CountTo, FS_Injection
<1> QED BY <1>1, <1>2, <1>3, <1>4, <1>5, <1>6

(* Without ties a row is preceded by as many rows as its place says.         *)
LEMMA RankIsPlace ==
  ASSUME WalkInv, ~L!Tied, NEW s \in L!Sortings, NEW i \in DOMAIN s
  PROVE  /\ s \in [1 .. Cardinality(L!Matching) -> L!Matching]
         /\ Cardinality(L!Matching) \in Nat
         /\ Rank(s[i]) = i - 1
<1> DEFINE M == L!Matching
           C == Cardinality(M)
           B == { m \in M : L!Before(m, s[i]) }
<1>2. /\ M \subseteq present /\ C \in Nat
      /\ s \in [1 .. C -> M]
      /\ s \in Injection(1 .. C, M) /\ s \in Surjection(1 .. C, M)
      /\ \A a, b \in 1 .. C : a < b => ~L!Before(s[b], s[a])
  BY SortingOfMatching
<1>3. \A a, b \in 1 .. C : a # b => s[a] # s[b]
  BY <1>2 DEF Injection, IsInjective
<1>5. \A a, b \in 1 .. C : a < b => L!Before(s[a], s[b])
  <2> SUFFICES ASSUME NEW a \in 1 .. C, NEW b \in 1 .. C, a < b PROVE L!Before(s[a], s[b])
    OBVIOUS
  <2>1. s[a] \in present /\ s[b] \in present /\ s[a] # s[b]
    BY <1>2, <1>3
  <2> QED BY <1>2, <2>1, BeforeIsTotal
<1>6. i \in 1 .. C
  BY <1>2
<1>7. B = { s[a] : a \in 1 .. i - 1 }
  <2>1. ASSUME NEW a \in 1 .. i - 1 PROVE s[a] \in B
    BY <1>2, <1>5, <1>6
  <2>2. ASSUME NEW m \in B PROVE \E a \in 1 .. i - 1 : m = s[a]
    <3>1. PICK a \in 1 .. C : m = s[a]
      BY <1>2 DEF Surjection
    <3>2. ~(i < a) /\ L!Before(s[a], s[i])
      BY <1>2, <1>6, <3>1
    <3>3. a # i
      BY <1>2, <1>6, <3>2, BeforeIsTotal
    <3> QED BY <1>2, <1>6, <3>1, <3>2, <3>3
  <2> QED BY <2>1, <2>2
<1>8. Cardinality(B) = i - 1
  <2> DEFINE f == [a \in 1 .. i - 1 |-> s[a]]
  <2>1. f \in Bijection(1 .. i - 1, B)
    BY <1>2, <1>3, <1>6, <1>7 DEF Bijection, Injection, Surjection, IsInjective
  <2>2. i - 1 \in Nat
    BY <1>2, <1>6
  <2>3. IsFiniteSet(1 .. i - 1) /\ Cardinality(1 .. i - 1) = i - 1
    BY <2>2, CountTo
  <2>4. ExistsBijection(1 .. i - 1, B)
    BY <2>1 DEF ExistsBijection
  <2> QED BY <2>3, <2>4, FS_Bijection
<1> QED BY <1>2, <1>8 DEF Rank

LEMMA CeilingOfMore ==
  ASSUME NEW c \in Nat, NEW k \in Nat, NEW p \in Nat \ {0}, c > k * p
  PROVE  (c + p - 1) \div p > k
<1> DEFINE q == (c + p - 1) \div p
           r == (c + p - 1) % p
<1>1. c + p - 1 \in Nat
  OBVIOUS
<1>2. q \in Nat /\ r \in 0 .. p - 1 /\ c + p - 1 = p * q + r
  BY <1>1
<1> HIDE DEF q, r
<1>3. SUFFICES ASSUME q <= k PROVE FALSE
  BY <1>2 DEF q
<1>4. p * q <= p * k
  BY <1>2, <1>3
<1> QED BY <1>2, <1>4

(* A page takes the rows at its places; what a walk has not seen lies behind *)
(* them, and the answer says that there is more.                             *)
LEMMA PageStep == ASSUME WalkInv, L!GetPage PROVE WalkInv'
<1> PICK s \in L!Sortings :
      LET rows == L!Slice(s, page) IN
      /\ seen' = seen \cup rows
      /\ page' = IF page < L!TotalPages(rows) THEN page + 1 ELSE 0
  BY DEF L!GetPage
<1> DEFINE rows == L!Slice(s, page)
           M == L!Matching
           C == Cardinality(M)
<1>1. /\ page > 0 /\ UNCHANGED <<list, key, present, fits, filter, want, left>>
      /\ seen' = seen \cup rows
      /\ page' = IF page < L!TotalPages(rows) THEN page + 1 ELSE 0
  BY DEF L!GetPage
<1>2. page \in Nat \ {0} /\ PageSize \in Nat \ {0}
  BY <1>1, ListsAssumption DEF WalkInv
<1>3. page' \in Nat
  BY <1>1, <1>2
<1>4. /\ M' = M /\ (L!Tied <=> L!Tied')
      /\ \A n : Rank(n)' = Rank(n)
  BY <1>1 DEF L!Matching, L!Listed, L!Tied, Rank, L!Before
<1>5. ASSUME ~left, ~L!Tied, NEW n \in want \ seen'
      PROVE  /\ Rank(n) >= page * PageSize
             /\ page < L!TotalPages(rows)
  <2>1. n \in M /\ n \in want \ seen /\ n \notin rows /\ Rank(n) >= (page - 1) * PageSize
    BY <1>1, <1>5 DEF WalkInv, UnseenAhead
  <2>2. C \in Nat
    BY SortingOfMatching
  <2>3. PICK i \in 1 .. C : n = s[i] /\ DOMAIN s = 1 .. C /\ Rank(n) = i - 1
    <3>1. s \in [1 .. C -> M] /\ s \in Surjection(1 .. C, M)
      BY SortingOfMatching
    <3>2. PICK i \in 1 .. C : n = s[i]
      BY <2>1, <3>1 DEF Surjection
    <3> QED BY <1>5, <3>1, <3>2, RankIsPlace
  <2>4. i > page * PageSize
    <3>1. ~((page - 1) * PageSize < i /\ i <= page * PageSize)
      BY <2>1, <2>3 DEF L!Slice
    <3>2. (page - 1) * PageSize < i
      BY <1>2, <2>1, <2>3
    <3> QED BY <1>2, <2>3, <3>1, <3>2
  <2>5. rows # {}
    <3> DEFINE j == page * PageSize
    <3>1. j \in Nat /\ (page - 1) * PageSize < j
      BY <1>2
    <3>2. j \in 1 .. C
      BY <1>2, <2>2, <2>3, <2>4, <3>1
    <3>3. s[j] \in rows
      BY <2>3, <3>1, <3>2 DEF L!Slice
    <3> QED BY <3>3
  <2> HIDE DEF rows
  <2>6. L!TotalPages(rows) = (C + PageSize - 1) \div PageSize
    BY <2>5, CardinalityOfLists DEF L!TotalPages, L!Total
  <2>7. C > page * PageSize
    BY <1>2, <2>2, <2>3, <2>4
  <2>8. (C + PageSize - 1) \div PageSize > page
    BY <1>2, <2>2, <2>7, CeilingOfMore
  <2> HIDE DEF C, M
  <2> QED BY <1>2, <2>2, <2>3, <2>4, <2>6, <2>8
<1> HIDE DEF rows, M, C
<1>6. UnseenAhead'
  <2> SUFFICES ASSUME page' > 0, ~left', ~L!Tied'
               PROVE  /\ want' \subseteq M'
                      /\ \A n \in want' \ seen' : Rank(n)' >= (page' - 1) * PageSize
    BY DEF UnseenAhead, M
  <2>1. page' = page + 1
    BY <1>1
  <2>2. want \subseteq M
    BY <1>1, <1>4 DEF WalkInv, UnseenAhead, M
  <2> QED BY <1>1, <1>2, <1>4, <1>5, <2>1, <2>2
<1>7. WalkComplete'
  BY <1>1, <1>2, <1>4, <1>5 DEF WalkComplete, L!WalkComplete
<1> QED BY <1>1, <1>3, <1>6, <1>7 DEF WalkInv

(***************************************************************************)
(* What happens between two pages                                          *)
(***************************************************************************)
(* While the list only grows, rows only move to later places.                *)
LEMMA GrowStep ==
  ASSUME WalkInv, UNCHANGED <<list, key, page, filter, want, seen>>,
         present \subseteq present', present' \subseteq Rows, IsFiniteSet(present'),
         left' \in BOOLEAN, ~left' => ~left,
         page > 0 /\ ~left' => L!Matching \subseteq L!Matching'
  PROVE  WalkInv'
<1>1. ~L!Tied' => ~L!Tied
  BY DEF L!Tied
<1>2. ASSUME page > 0, ~left', ~L!Tied'
      PROVE  /\ want \subseteq L!Matching'
             /\ \A n \in want \ seen : Rank(n)' >= (page - 1) * PageSize
  <2>1. want \subseteq L!Matching /\ \A n \in want \ seen : Rank(n) >= (page - 1) * PageSize
    BY <1>1, <1>2 DEF WalkInv, UnseenAhead
  <2>2. ASSUME NEW n \in want \ seen PROVE Rank(n)' >= (page - 1) * PageSize
    <3> DEFINE B == { m \in L!Matching : L!Before(m, n) }
    <3>1. B' = { m \in L!Matching' : L!Before(m, n) }
      BY DEF L!Before
    <3>2. B \subseteq B'
      BY <1>2, <3>1
    <3>3. IsFiniteSet(B) /\ IsFiniteSet(B')
      <4>1. B \subseteq present
        BY DEF L!Matching, L!Listed
      <4>2. B' \subseteq present'
        BY <3>1 DEF L!Matching, L!Listed
      <4> QED BY <4>1, <4>2, FS_Subset DEF WalkInv
    <3>4. Cardinality(B') >= Cardinality(B) /\ Cardinality(B') \in Nat /\ Cardinality(B) \in Nat
      BY <3>2, <3>3, FS_Subset, FS_CardinalityType
    <3>5. Rank(n) = Cardinality(B) /\ Rank(n)' = Cardinality(B')
      BY DEF Rank
    <3>6. (page - 1) * PageSize \in Int
      BY ListsAssumption DEF WalkInv
    <3> HIDE DEF B
    <3> QED BY <2>1, <3>4, <3>5, <3>6
  <2> QED BY <1>2, <2>1, <2>2
<1>3. UnseenAhead'
  BY <1>2 DEF UnseenAhead
<1>4. WalkComplete'
  BY <1>1 DEF WalkInv, WalkComplete, L!WalkComplete
<1> QED BY <1>3, <1>4 DEF WalkInv

LEMMA LeaveStep == ASSUME WalkInv, NEW S, L!Leave(S) PROVE WalkInv'
<1>1. /\ fits' = fits \ S
      /\ left' = (left \/ (page > 0 /\ filter /\ S \cap fits # {}))
      /\ UNCHANGED <<list, key, present, page, filter, want, seen>>
  BY DEF L!Leave, L!walk
<1>2. left' \in BOOLEAN /\ (~left' => ~left)
  BY <1>1
<1>3. page > 0 /\ ~left' => L!Matching \subseteq L!Matching'
  BY <1>1 DEF L!Matching, L!Listed
<1> QED BY <1>1, <1>2, <1>3, GrowStep DEF WalkInv

LEMMA InsertStep == ASSUME WalkInv, NEW n \in Rows, L!Insert(n) PROVE WalkInv'
<1>1. /\ present' = present \cup {n} /\ fits \subseteq fits'
      /\ UNCHANGED <<list, key, page, filter, want, seen, left>>
  BY DEF L!Insert, L!walk
<1>2. IsFiniteSet(present')
  BY <1>1, FS_AddElement DEF WalkInv
<1>3. L!Matching \subseteq L!Matching'
  BY <1>1 DEF L!Matching, L!Listed
<1> QED BY <1>1, <1>2, <1>3, GrowStep DEF WalkInv

LEMMA SetStatusStep == ASSUME WalkInv, NEW n \in present, L!SetStatus(n) PROVE WalkInv'
<1>1. CASE L!Leave({n})
  BY <1>1, LeaveStep
<1>2. CASE fits' = fits \cup {n} /\ UNCHANGED <<list, key, present, L!walk, left>>
  <2>1. UNCHANGED <<list, key, present, page, filter, want, seen, left>>
    BY <1>2 DEF L!walk
  <2>2. L!Matching \subseteq L!Matching'
    BY <1>2, <2>1 DEF L!Matching, L!Listed
  <2> QED BY <2>1, <2>2, GrowStep DEF WalkInv
<1> QED BY <1>1, <1>2 DEF L!SetStatus

LEMMA StartWalkStep == ASSUME WalkInv, L!StartWalk PROVE WalkInv'
<1>1. /\ page' = 1 /\ filter' \in BOOLEAN /\ want' = L!Listed(filter') /\ seen' = {} /\ left' = FALSE
      /\ UNCHANGED <<list, key, present, fits>>
  BY DEF L!StartWalk
<1>2. want' = L!Matching'
  BY <1>1 DEF L!Matching, L!Listed
<1>3. \A n : Rank(n)' >= 0
  <2> TAKE n
  <2> DEFINE B == { m \in L!Matching' : L!Before(m, n)' }
  <2>1. B \subseteq present'
    BY DEF L!Matching, L!Listed
  <2>2. IsFiniteSet(present')
    BY <1>1 DEF WalkInv
  <2>3. Cardinality(B) \in Nat
    BY <2>1, <2>2, FS_Subset, FS_CardinalityType
  <2> QED BY <2>3 DEF Rank
<1>4. UnseenAhead'
  BY <1>1, <1>2, <1>3, ListsAssumption DEF UnseenAhead
<1>5. WalkComplete'
  BY <1>1 DEF WalkComplete, L!WalkComplete
<1> QED BY <1>1, <1>4, <1>5 DEF WalkInv

LEMMA WalkStep == WalkInv /\ [L!Next]_(L!vars) => WalkInv'
<1> SUFFICES ASSUME WalkInv, [L!Next]_(L!vars) PROVE WalkInv'
  OBVIOUS
<1>1. ASSUME NEW n \in Rows, L!Insert(n) PROVE WalkInv'
  BY <1>1, InsertStep
<1>2. ASSUME NEW S \in SUBSET present, L!MarkAsRead(S) PROVE WalkInv'
  BY <1>2, LeaveStep DEF L!MarkAsRead
<1>3. ASSUME NEW n \in present, L!SetStatus(n) PROVE WalkInv'
  BY <1>3, SetStatusStep
<1>4. CASE L!StartWalk
  BY <1>4, StartWalkStep
<1>5. CASE L!GetPage
  BY <1>5, PageStep
<1>6. CASE UNCHANGED L!vars
  <2>1. UNCHANGED <<list, key, present, fits, page, filter, want, seen, left>>
    BY <1>6 DEF L!vars, L!walk
  <2>2. L!Matching \subseteq L!Matching'
    BY <2>1 DEF L!Matching, L!Listed
  <2> QED BY <2>1, <2>2, GrowStep DEF WalkInv
<1> QED BY <1>1, <1>2, <1>3, <1>4, <1>5, <1>6 DEF L!Next

(* A client that walks through the pages has seen, when it stops, every row  *)
(* that was listed when it began, for any number of rows, any size of a page *)
(* and any inserts and updates in between: unless a row left the filter or   *)
(* two rows tie in the order.                                                *)
THEOREM WalksAreComplete == L!Spec => []WalkComplete
<1>1. L!Init => WalkInv
  <2> SUFFICES ASSUME L!Init PROVE WalkInv
    OBVIOUS
  <2>1. /\ key \in [Rows -> Keys] /\ present = {} /\ page = 0
        /\ filter = FALSE /\ left = FALSE /\ want = {} /\ seen = {}
    BY DEF L!Init
  <2> QED BY <2>1, FS_EmptySet DEF WalkInv, UnseenAhead, WalkComplete, L!WalkComplete
<1>2. WalkInv => WalkComplete
  BY DEF WalkInv
<1> QED BY <1>1, <1>2, WalkStep, PTL DEF L!Spec

(***************************************************************************)
(* All of them                                                             *)
(***************************************************************************)
(* Each behaviour of the run is a behaviour of every service by itself.      *)
LEMMA ServicesAreParts ==
  ServicesSpec => Spec /\ N!Spec /\ L!Spec /\ G!Spec /\ V!Spec /\ P!Spec
<1>1. ServicesInit => Init /\ N!Init /\ L!Init /\ G!Init /\ V!Init /\ P!Init
  BY DEF ServicesInit
<1>2. [ServicesNext]_services =>
        /\ [Next]_vars /\ [N!Next]_(N!vars) /\ [L!Next]_(L!vars)
        /\ [G!Next]_(G!vars) /\ [V!Next]_(V!vars) /\ [P!Next]_(P!vars)
  BY DEF ServicesNext, services, vars, tx, notifications, lists, gate, validation, portal,
         N!vars, N!bus, L!vars, L!walk, G!vars, V!vars, P!vars
<1> QED BY <1>1, <1>2, PTL DEF ServicesSpec, Spec, N!Spec, L!Spec, G!Spec, V!Spec, P!Spec

(* Every safety invariant of the run, for every value of the constants.      *)
THEOREM ServicesSafe ==
  ServicesSpec => [](/\ SentOnce /\ HeardByAll /\ WalkComplete
                     /\ DecidedAtAnInstant /\ VerdictSound /\ OwnDataShown)
BY ServicesAreParts, DeliveriesSentOnce, ListenersHearAll, WalksAreComplete,
   ChecksDecideAtAnInstant, VerdictsAreSound, TabsShowOwnData, PTL
=============================================================================
