-------------------------------- MODULE Bridge --------------------------------
(***************************************************************************)
(* The bridge agent: each poll fetches orders from the ERP and posts them  *)
(* one by one, or, when the ERP has none, takes a batch from the queue of  *)
(* what could not be posted and tries it again.  The queue is in memory.   *)
(* A post may fail after the API has stored the order (a lost answer), and *)
(* the process may end at any point.  Shipments are posted and queued by   *)
(* the same code as orders.                                                *)
(***************************************************************************)
EXTENDS Integers, Sequences, FiniteSets

CONSTANTS Orders,       \* what the ERP may have
          Poison,       \* orders that the API refuses each time
          BatchSize,    \* parameter of drainQueue
          MaxAttempts,  \* parameter of getDeadLetters; attempts saturates there
          MinInterval, MaxInterval, InitialInterval,
          MaxFetches,   \* bound on how often the ERP gives an order
          MaxFaults     \* bound on failures and ends of the process

ASSUME PoisonAssumption == Poison \subseteq Orders
ASSUME SizesAssumption ==
  {BatchSize, MaxAttempts, MaxFetches, MaxFaults} \subseteq Nat \ {0}
ASSUME IntervalAssumption ==
  /\ {MinInterval, MaxInterval, InitialInterval} \subseteq Nat
  /\ 2 <= MinInterval /\ MinInterval <= InitialInterval /\ InitialInterval <= MaxInterval

VARIABLES
  phase,     \* "down", "waiting" for the timer, "sending" or "draining"
  hand,      \* fetched orders that sendOrders has yet to post
  batch,     \* dequeued messages that drainQueue has yet to post
  queue,     \* the local queue
  progress,  \* the poll has posted something
  interval,  \* currentIntervalMs
  fetched,   \* how often each order came from the ERP,
  stored,    \*   was stored by the API,
  unsure,    \*   was stored although its post failed,
  gone,      \*   and was dropped by an exit or given out as a dead letter
  faults

memory == <<phase, hand, batch, queue, progress, interval>>
history == <<fetched, stored, unsure, gone, faults>>
vars == <<memory, history>>

Messages == [order : Orders, attempts : 0 .. MaxAttempts]

Zero == [o \in Orders |-> 0]

Init ==
  /\ phase = "down" /\ hand = {} /\ batch = <<>> /\ queue = <<>>
  /\ progress = FALSE /\ interval = InitialInterval
  /\ fetched = Zero /\ stored = Zero /\ unsure = Zero /\ gone = Zero
  /\ faults = 0

Fault == faults < MaxFaults /\ faults' = faults + 1

(* main: connect and start the poller. *)
Start ==
  /\ phase = "down"
  /\ phase' = "waiting"
  /\ interval' = InitialInterval
  /\ UNCHANGED <<hand, batch, queue, progress, history>>

(***************************************************************************)
(* AdaptivePoller: one timer; the next poll is scheduled when the last one *)
(* has ended, sooner if it posted something, later if not or if it threw.  *)
(***************************************************************************)
Least(a, b) == IF a <= b THEN a ELSE b
Greatest(a, b) == IF a >= b THEN a ELSE b

Adjusted(sent) ==
  IF sent THEN Greatest(MinInterval, interval \div 2)
          ELSE Least(MaxInterval, (interval * 3) \div 2)

(* fetchOrders has orders. *)
Fetch(S) ==
  /\ phase = "waiting"
  /\ S # {} /\ \A o \in S : fetched[o] < MaxFetches
  /\ phase' = "sending"
  /\ hand' = S
  /\ progress' = FALSE
  /\ fetched' = [o \in Orders |-> IF o \in S THEN fetched[o] + 1 ELSE fetched[o]]
  /\ UNCHANGED <<batch, queue, interval, stored, unsure, gone, faults>>

FetchFails ==
  /\ phase = "waiting"
  /\ Fault
  /\ interval' = Adjusted(FALSE)
  /\ UNCHANGED <<phase, hand, batch, queue, progress,
                 fetched, stored, unsure, gone>>

Rest == SubSeq(queue, BatchSize + 1, Len(queue))

(* fetchOrders has none: drainQueue takes its batch out of the queue. *)
Dequeue ==
  /\ phase = "waiting"
  /\ phase' = "draining"
  /\ batch' = SubSeq(queue, 1, Least(BatchSize, Len(queue)))
  /\ queue' = Rest
  /\ progress' = FALSE
  /\ UNCHANGED <<hand, interval, history>>

(***************************************************************************)
(* A post: 2xx; or it throws, because the API refuses, or does not answer, *)
(* or stored the order and its answer is lost.                             *)
(***************************************************************************)
Store(o) == stored' = [stored EXCEPT ![o] = @ + 1]

Answered(o) ==
  /\ o \notin Poison
  /\ Store(o)
  /\ UNCHANGED <<unsure, faults>>

Failed(o) ==
  \/ o \in Poison /\ UNCHANGED <<stored, unsure, faults>>
  \/ o \notin Poison /\ Fault /\ UNCHANGED <<stored, unsure>>
  \/ /\ o \notin Poison /\ Fault
     /\ Store(o)
     /\ unsure' = [unsure EXCEPT ![o] = @ + 1]

Enqueue(o) == queue' = Append(queue, [order |-> o, attempts |-> 0])

(* Bug: a failed message goes back to where it came from, the front. *)
RequeueFront(msg) ==
  queue' = <<[msg EXCEPT !.attempts = Least(@ + 1, MaxAttempts)]>> \o queue

Requeue(msg) ==
  queue' = Append(queue, [msg EXCEPT !.attempts = Least(@ + 1, MaxAttempts)])

SendOne(o) ==
  /\ phase = "sending" /\ o \in hand
  /\ hand' = hand \ {o}
  /\ \/ Answered(o) /\ progress' = TRUE /\ UNCHANGED queue
     \/ Failed(o) /\ Enqueue(o) /\ UNCHANGED progress
  /\ UNCHANGED <<phase, batch, interval, fetched, gone>>

(* Bug: sent counts the messages that were tried, as queued would. *)
DrainOneCountsTried ==
  /\ phase = "draining" /\ batch # <<>>
  /\ batch' = Tail(batch)
  /\ progress' = TRUE
  /\ \/ Answered(Head(batch).order) /\ UNCHANGED queue
     \/ Failed(Head(batch).order) /\ Requeue(Head(batch))
  /\ UNCHANGED <<phase, hand, interval, fetched, gone>>

(* Bug: every message is put back, also one that was stored. *)
DrainOneKeeps ==
  /\ phase = "draining" /\ batch # <<>>
  /\ batch' = Tail(batch)
  /\ \/ Answered(Head(batch).order) /\ progress' = TRUE /\ Requeue(Head(batch))
     \/ Failed(Head(batch).order) /\ Requeue(Head(batch)) /\ UNCHANGED progress
  /\ UNCHANGED <<phase, hand, interval, fetched, gone>>

DrainOne ==
  /\ phase = "draining" /\ batch # <<>>
  /\ batch' = Tail(batch)
  /\ \/ Answered(Head(batch).order) /\ progress' = TRUE /\ UNCHANGED queue
     \/ Failed(Head(batch).order) /\ Requeue(Head(batch)) /\ UNCHANGED progress
  /\ UNCHANGED <<phase, hand, interval, fetched, gone>>

(* The poll function resolves: adjustInterval, scheduleNext. *)
EndPoll ==
  /\ phase \in {"sending", "draining"} /\ hand = {} /\ batch = <<>>
  /\ phase' = "waiting"
  /\ interval' = Adjusted(progress)
  /\ UNCHANGED <<hand, batch, queue, progress, history>>

Holds(s, o) == \E i \in DOMAIN s : s[i].order = o

Count(s, o) == Cardinality({ i \in DOMAIN s : s[i].order = o })

(* Orders and messages that the process holds, and how many for one order. *)
Held == hand \cup { o \in Orders : Holds(batch, o) \/ Holds(queue, o) }

Copies(o) == (IF o \in hand THEN 1 ELSE 0) + Count(batch, o) + Count(queue, o)

(* The array that filter leaves of s: what is at the positions I, in order.  *)
Place(i, I) == Cardinality({ k \in I : k <= i })

Filtered(s, I) == [j \in 1 .. Cardinality(I) |-> s[CHOOSE i \in I : Place(i, I) = j]]

Dead == { i \in DOMAIN queue : queue[i].attempts >= MaxAttempts }

(* getDeadLetters removes the messages it returns. *)
DeadLetters ==
  /\ phase = "waiting" /\ Dead # {}
  /\ queue' = Filtered(queue, DOMAIN queue \ Dead)
  /\ gone' = [o \in Orders |-> gone[o] + Count(Filtered(queue, Dead), o)]
  /\ UNCHANGED <<phase, hand, batch, progress, interval,
                 fetched, stored, unsure, faults>>

(* SIGTERM, a fatal error or a crash: the memory is lost. *)
Exit ==
  /\ phase # "down"
  /\ Fault
  /\ phase' = "down"
  /\ gone' = [o \in Orders |-> gone[o] + Copies(o)]
  /\ hand' = {} /\ batch' = <<>> /\ queue' = <<>>
  /\ UNCHANGED <<progress, interval, fetched, stored, unsure>>

Poll == (\E S \in SUBSET Orders : Fetch(S)) \/ Dequeue
Post == (\E o \in Orders : SendOne(o)) \/ DrainOne \/ EndPoll

Next == Start \/ Poll \/ FetchFails \/ Post \/ DeadLetters \/ Exit

Spec == Init /\ [][Next]_vars

(* The event loop runs an open poll on and fires the timer. *)
Fairness == WF_vars(Poll) /\ WF_vars(Post)

FairSpec == Spec /\ Fairness

-----------------------------------------------------------------------------
(* The accounts balance: each time an order was fetched, or was stored       *)
(* without the bridge knowing, shows up as one stored copy, one copy in      *)
(* memory or one that is gone.  So the API stores an order twice only for a  *)
(* lost answer.                                                              *)
Conservation ==
  \A o \in Orders : fetched[o] + unsure[o] = stored[o] + Copies(o) + gone[o]

(* When the ERP falls silent and failures end, the queue is emptied of all   *)
(* that the API accepts: refused messages go to its tail and do not block it.*)
QueueDrains == \A o \in Orders \ Poison : o \in Held ~> o \notin Held

(* A bridge that has nothing left to post polls at the longest interval,     *)
(* however often it tries the messages that are refused.                     *)
BacksOff == <>[](phase = "down" \/ interval = MaxInterval)
=============================================================================
