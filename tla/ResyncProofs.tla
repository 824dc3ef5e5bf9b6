----------------------------- MODULE ResyncProofs -----------------------------
(***************************************************************************)
(* The routes of resync.ts, for any number of requests, connections and    *)
(* calls: the table of transitions is kept although each transition is     *)
(* checked against a status that may be stale when it is written.          *)
(***************************************************************************)
EXTENDS Resync, TLAPS

(* What a call in progress is about, and which phases it may be in. *)
CallOK ==
  \A r \in Requests : Live(r) =>
    /\ call[r].op \in {"create", "transition"} /\ call[r].id \in Ids
    /\ call[r].op = "create" => call[r].arg \in Connections /\ pc[r] # "update"

(* A row of the history says that request i had this status. *)
Was(i, s) == \E j \in DOMAIN history : history[j].id = i /\ history[j].new = s

(* A status is that of a row of the history, and stays one. *)
StatusRecorded == \A i \in Ids : status[i] # Absent => Was(i, status[i])

(* A transition that has been checked leaves a status that the request had.  *)
Checked ==
  \A r \in Requests :
    call[r].op = "transition" /\ pc[r] \in {"update", "commit"}
      => call[r].arg \in Allowed(seen[r]) /\ Was(call[r].id, seen[r])

ResyncInv == TypeOK /\ CallOK /\ StatusRecorded /\ Checked /\ NoStatusSkipped

LEMMA AllowedStatuses == \A s : Allowed(s) \subseteq Statuses
BY DEF Allowed, Statuses

LEMMA InitStep == Init => ResyncInv
BY DEF Init, ResyncInv, TypeOK, CallOK, StatusRecorded, Checked, NoStatusSkipped, NoCall,
   Live, Was, Absent

(* A call that ends leaves the calls and the row locks of the others alone.  *)
LEMMA FinishKeeps ==
  ASSUME ResyncInv, NEW r \in Requests, Finish(r)
  PROVE  /\ pc' \in [Requests -> {"idle", "find", "update", "commit"}]
         /\ call' \in [Requests -> [op : {"create", "transition", "none"}, id : Ids \cup {"none"},
                                    arg : Connections \cup Targets \cup {"none"}]]
         /\ seen' \in [Requests -> Statuses \cup {Absent}]
         /\ lock' \in [Ids -> Requests \cup {NoRequest}]
         /\ pc'[r] = "idle"
         /\ \A q \in Requests \ {r} : pc'[q] = pc[q] /\ call'[q] = call[q] /\ seen'[q] = seen[q]
         /\ \A i \in Ids : lock'[i] # NoRequest =>
              pc'[lock'[i]] = "commit" /\ call'[lock'[i]].op = "transition" /\ call'[lock'[i]].id = i
         /\ CallOK'
<1>1. /\ pc' = [pc EXCEPT ![r] = "idle"] /\ call' = [call EXCEPT ![r] = NoCall]
      /\ seen' = [seen EXCEPT ![r] = Absent]
      /\ lock' = [i \in Ids |-> IF lock[i] = r THEN NoRequest ELSE lock[i]]
  BY DEF Finish, Goto, Release
<1>2. /\ pc'[r] = "idle"
      /\ \A q \in Requests \ {r} : pc'[q] = pc[q] /\ call'[q] = call[q] /\ seen'[q] = seen[q]
  BY <1>1 DEF ResyncInv, TypeOK
<1>3. \A i \in Ids : lock'[i] # NoRequest =>
        pc'[lock'[i]] = "commit" /\ call'[lock'[i]].op = "transition" /\ call'[lock'[i]].id = i
  BY <1>1, <1>2 DEF ResyncInv, TypeOK
<1>4. CallOK'
  BY <1>2 DEF ResyncInv, CallOK, Live
<1> QED BY <1>1, <1>2, <1>3, <1>4 DEF ResyncInv, TypeOK, NoCall

(* A call that ends without a write.                                         *)
LEMMA FinishStep == ASSUME ResyncInv, NEW r \in Requests, Finish(r), UNCHANGED rows PROVE ResyncInv'
<1>1. TypeOK' /\ CallOK'
  BY FinishKeeps DEF rows, ResyncInv, TypeOK
<1>2. StatusRecorded' /\ NoStatusSkipped'
  BY DEF rows, ResyncInv, StatusRecorded, NoStatusSkipped, Was
<1>3. Checked'
  BY FinishKeeps DEF rows, ResyncInv, Checked, Was
<1> QED BY <1>1, <1>2, <1>3 DEF ResyncInv

(* A call that ends with a COMMIT: request i has got a status that some row  *)
(* of the history allows, or the first one.                                  *)
LEMMA CommitStep ==
  ASSUME ResyncInv, NEW r \in Requests, NEW i \in Ids, NEW s \in Statuses, Finish(r),
         status' = [status EXCEPT ![i] = s],
         conn' \in [Ids -> Connections \cup {Absent}],
         NEW old \in Statuses \cup {Absent}, Record(i, old, s, r),
         s = "REQUESTED" \/ \E from : s \in Allowed(from) /\ Was(i, from)
  PROVE  ResyncInv'
<1> DEFINE h == [id |-> i, old |-> old, new |-> s, by |-> r]
<1>1. h \in HistoryRows /\ history' = Append(history, h) /\ history \in Seq(HistoryRows)
  BY DEF HistoryRows, Record, ResyncInv, TypeOK
<1>2. history' \in Seq(HistoryRows)
  BY <1>1
<1>3. /\ Len(history) \in Nat /\ Len(history') = Len(history) + 1
      /\ DOMAIN history = 1 .. Len(history) /\ DOMAIN history' = 1 .. Len(history) + 1
      /\ \A k \in DOMAIN history : history'[k] = history[k]
      /\ history'[Len(history) + 1] = h
  BY <1>1
<1>4. \A t, j : Was(j, t) => Was(j, t)'
  BY <1>3 DEF Was
<1>5. Was(i, s)'
  BY <1>3 DEF Was
<1>6. TypeOK'
  <2>1. status' \in [Ids -> Statuses \cup {Absent}]
    BY DEF ResyncInv, TypeOK
  <2> QED BY <1>2, <2>1, FinishKeeps DEF TypeOK
<1>7. CallOK'
  BY FinishKeeps
<1>8. StatusRecorded'
  BY <1>4, <1>5 DEF ResyncInv, TypeOK, StatusRecorded
<1>9. Checked'
  BY <1>4, FinishKeeps DEF ResyncInv, Checked
<1>10. NoStatusSkipped'
  <2> SUFFICES ASSUME NEW k \in DOMAIN history', history'[k].new # "REQUESTED"
               PROVE  \E j \in 1 .. k - 1 : /\ history'[j].id = history'[k].id
                                            /\ history'[k].new \in Allowed(history'[j].new)
    BY DEF NoStatusSkipped
  <2>1. CASE k \in DOMAIN history
    <3>1. PICK j \in 1 .. k - 1 : history[j].id = history[k].id /\ history[k].new \in Allowed(history[j].new)
      BY <1>3, <2>1 DEF ResyncInv, NoStatusSkipped
    <3>2. j \in DOMAIN history
      BY <1>3, <2>1
    <3> QED BY <1>3, <2>1, <3>1, <3>2
  <2>2. CASE k = Len(history) + 1
    <3>1. PICK from : s \in Allowed(from) /\ Was(i, from)
      BY <1>3, <2>2
    <3>2. PICK j \in DOMAIN history : history[j].id = i /\ history[j].new = from
      BY <3>1 DEF Was
    <3> QED BY <1>3, <2>2, <3>1, <3>2
  <2> QED BY <1>3, <2>1, <2>2
<1> QED BY <1>6, <1>7, <1>8, <1>9, <1>10 DEF ResyncInv

LEMMA CommitCreateStep == ASSUME ResyncInv, NEW r \in Requests, CommitCreate(r) PROVE ResyncInv'
<1>1. /\ call[r].id \in Ids /\ call[r].arg \in Connections
  BY DEF CommitCreate, ResyncInv, CallOK, Live
<1>2. conn' \in [Ids -> Connections \cup {Absent}]
  BY <1>1 DEF CommitCreate, ResyncInv, TypeOK
<1>3. "REQUESTED" \in Statuses
  BY DEF Statuses
<1> QED BY <1>1, <1>2, <1>3, CommitStep DEF CommitCreate

LEMMA CommitTransitionStep == ASSUME ResyncInv, NEW r \in Requests, CommitTransition(r) PROVE ResyncInv'
<1>1. /\ call[r].id \in Ids /\ call[r].arg \in Allowed(seen[r]) /\ Was(call[r].id, seen[r])
  BY DEF CommitTransition, ResyncInv, CallOK, Live, Checked
<1>2. call[r].arg \in Statuses /\ status[call[r].id] \in Statuses \cup {Absent}
  BY <1>1, AllowedStatuses DEF ResyncInv, TypeOK
<1>3. conn' \in [Ids -> Connections \cup {Absent}]
  BY DEF CommitTransition, ResyncInv, TypeOK
<1> QED BY <1>1, <1>2, <1>3, CommitStep DEF CommitTransition

LEMMA BeginStep ==
  ASSUME ResyncInv, NEW r \in Requests, NEW i \in Ids, NEW op \in {"create", "transition"},
         NEW arg \in Connections \cup Targets, Begin(r, op, i, arg),
         op = "create" => arg \in Connections
  PROVE  ResyncInv'
<1>1. /\ pc[r] = "idle" /\ pc' = [pc EXCEPT ![r] = "find"]
      /\ call' = [call EXCEPT ![r] = [op |-> op, id |-> i, arg |-> arg]]
      /\ UNCHANGED <<status, conn, history, seen, lock>>
  BY DEF Begin, Goto, rows
<1>2. TypeOK'
  BY <1>1 DEF ResyncInv, TypeOK
<1>3. CallOK'
  BY <1>1 DEF ResyncInv, TypeOK, CallOK, Live
<1>4. StatusRecorded' /\ NoStatusSkipped'
  BY <1>1 DEF ResyncInv, StatusRecorded, NoStatusSkipped, Was
<1>5. Checked'
  BY <1>1 DEF ResyncInv, TypeOK, Checked, Was
<1> QED BY <1>2, <1>3, <1>4, <1>5 DEF ResyncInv

LEMMA FindActiveStep == ASSUME ResyncInv, NEW r \in Requests, FindActive(r) PROVE ResyncInv'
<1>1. CASE Finish(r)
  BY <1>1, FinishStep DEF FindActive
<1>2. CASE Goto(r, "commit") /\ UNCHANGED <<call, seen, lock>>
  <2>1. /\ pc[r] = "find" /\ call[r].op = "create" /\ pc' = [pc EXCEPT ![r] = "commit"]
        /\ UNCHANGED <<status, conn, history, call, seen, lock>>
    BY <1>2 DEF FindActive, Goto, rows
  <2>2. TypeOK'
    BY <2>1 DEF ResyncInv, TypeOK
  <2>3. CallOK'
    BY <2>1 DEF ResyncInv, TypeOK, CallOK, Live
  <2>4. StatusRecorded' /\ NoStatusSkipped'
    BY <2>1 DEF ResyncInv, StatusRecorded, NoStatusSkipped, Was
  <2>5. Checked'
    BY <2>1 DEF ResyncInv, TypeOK, Checked, Was
  <2> QED BY <2>2, <2>3, <2>4, <2>5 DEF ResyncInv
<1> QED BY <1>1, <1>2 DEF FindActive

(* The status that is read is recorded, and the target is among its successors. *)
LEMMA FindStatusStep == ASSUME ResyncInv, NEW r \in Requests, FindStatus(r) PROVE ResyncInv'
<1>1. CASE Finish(r)
  BY <1>1, FinishStep DEF FindStatus
<1>2. CASE /\ ~Refused(r) /\ seen' = [seen EXCEPT ![r] = status[call[r].id]]
           /\ Goto(r, "update") /\ UNCHANGED <<call, lock>>
  <2>1. /\ pc[r] = "find" /\ call[r].op = "transition" /\ pc' = [pc EXCEPT ![r] = "update"]
        /\ seen' = [seen EXCEPT ![r] = status[call[r].id]]
        /\ UNCHANGED <<status, conn, history, call, lock>>
    BY <1>2 DEF FindStatus, Goto, rows
  <2>2. /\ call[r].id \in Ids /\ status[call[r].id] # Absent
        /\ call[r].arg \in Allowed(status[call[r].id])
    BY <1>2, <2>1 DEF Refused, ResyncInv, CallOK, Live
  <2>3. TypeOK'
    BY <2>1, <2>2 DEF ResyncInv, TypeOK
  <2>4. CallOK'
    BY <2>1 DEF ResyncInv, TypeOK, CallOK, Live
  <2>5. StatusRecorded' /\ NoStatusSkipped'
    BY <2>1 DEF ResyncInv, StatusRecorded, NoStatusSkipped, Was
  <2>6. Checked'
    <3>1. Was(call[r].id, status[call[r].id])
      BY <2>2 DEF ResyncInv, StatusRecorded
    <3> QED BY <2>1, <2>2, <3>1 DEF ResyncInv, TypeOK, Checked, Was
  <2> QED BY <2>3, <2>4, <2>5, <2>6 DEF ResyncInv
<1> QED BY <1>1, <1>2 DEF FindStatus

LEMMA UpdateStatusStep == ASSUME ResyncInv, NEW r \in Requests, UpdateStatus(r) PROVE ResyncInv'
<1>1. /\ pc[r] = "update" /\ pc' = [pc EXCEPT ![r] = "commit"]
      /\ lock[call[r].id] = NoRequest /\ lock' = [lock EXCEPT ![call[r].id] = r]
      /\ UNCHANGED <<status, conn, history, call, seen>>
  BY DEF UpdateStatus, Goto, rows
<1>2. call[r].op = "transition" /\ call[r].id \in Ids
  BY <1>1 DEF ResyncInv, CallOK, Live
<1>3. TypeOK'
  BY <1>1, <1>2 DEF ResyncInv, TypeOK
<1>4. CallOK'
  BY <1>1, <1>2 DEF ResyncInv, TypeOK, CallOK, Live
<1>5. StatusRecorded' /\ NoStatusSkipped'
  BY <1>1 DEF ResyncInv, StatusRecorded, NoStatusSkipped, Was
<1>6. Checked'
  BY <1>1, <1>2 DEF ResyncInv, TypeOK, Checked, Was
<1> QED BY <1>3, <1>4, <1>5, <1>6 DEF ResyncInv

(* ResyncInv is an invariant: a transition that has read a status holds one  *)
(* that the request had, and the target it goes to is allowed after it.      *)
THEOREM ResyncInductive == Spec => []ResyncInv
<1>1. ResyncInv /\ [Next]_vars => ResyncInv'
  <2> SUFFICES ASSUME ResyncInv, [Next]_vars PROVE ResyncInv'
    OBVIOUS
  <2>1. CASE UNCHANGED vars
    BY <2>1 DEF vars, rows, ResyncInv, TypeOK, CallOK, StatusRecorded, Checked, NoStatusSkipped,
       Live, Was
  <2>2. CASE Next
    <3>1. PICK r \in Requests :
            \/ \E i \in Ids :
                 \/ \E c \in Connections : Begin(r, "create", i, c)
                 \/ \E target \in Targets : Begin(r, "transition", i, target)
            \/ Advance(r)
            \/ Rollback(r)
      BY <2>2 DEF Next
    <3>2. CASE Advance(r)
      BY <3>2, FindActiveStep, CommitCreateStep, FindStatusStep, UpdateStatusStep,
         CommitTransitionStep DEF Advance
    <3>3. CASE Rollback(r)
      BY <3>3, FinishStep DEF Rollback
    <3>4. ASSUME NEW i \in Ids, NEW c \in Connections, Begin(r, "create", i, c)
          PROVE  ResyncInv'
      BY <3>4, BeginStep, Zenon
    <3>5. ASSUME NEW i \in Ids, NEW target \in Targets, Begin(r, "transition", i, target)
          PROVE  ResyncInv'
      <4>1. target \in Connections \cup Targets /\ ("transition" = "create" => target \in Connections)
        OBVIOUS
      <4> QED BY <3>5, <4>1, BeginStep, Zenon
    <3> QED BY <3>1, <3>2, <3>3, <3>4, <3>5
  <2> QED BY <2>1, <2>2
<1> QED BY <1>1, InitStep, PTL DEF Spec

(* Every variable of the routes keeps its type, and a row lock belongs to a  *)
(* transition that is about to commit.                                       *)
THEOREM ResyncTypeCorrect == Spec => []TypeOK
<1>1. ResyncInv => TypeOK
  BY DEF ResyncInv
<1> QED BY <1>1, ResyncInductive, PTL

(* No status is skipped: every row of the history has a status that the      *)
(* table allows after one its request had before, however stale the read.    *)
THEOREM TableIsKept == Spec => []NoStatusSkipped
<1>1. ResyncInv => NoStatusSkipped
  BY DEF ResyncInv
<1> QED BY <1>1, ResyncInductive, PTL

-----------------------------------------------------------------------------
(***************************************************************************)
(* The history as a chain, on top of ResyncInv.                            *)
(***************************************************************************)
(* A uuid is chosen by one create only, and no row has it yet. *)
CreateFresh ==
  \A r \in Requests :
    Live(r) /\ call[r].op = "create" =>
      /\ status[call[r].id] = Absent
      /\ \A q \in Requests :
           Live(q) /\ call[q].op = "create" /\ call[q].id = call[r].id => q = r

(* A request with a history is there. *)
RowKept == \A k \in DOMAIN history : status[history[k].id] # Absent

ChainInv == CreateFresh /\ RowKept /\ HistoryChain

(* The tables change at the COMMIT of a create or of a transition only.      *)
LEMMA RowsStep ==
  ASSUME [Next]_vars
  PROVE  UNCHANGED rows \/ \E r \in Requests : CommitCreate(r) \/ CommitTransition(r)
BY DEF Next, Advance, Begin, FindActive, FindStatus, UpdateStatus, Rollback, vars

(* What a COMMIT does: it replaces the status that the row has then. *)
LEMMA CommitEffect ==
  ASSUME ResyncInv, ChainInv, NEW r \in Requests, CommitCreate(r) \/ CommitTransition(r)
  PROVE  /\ Finish(r) /\ Live(r) /\ call[r].id \in Ids
         /\ \E s \in Statuses : /\ status' = [status EXCEPT ![call[r].id] = s]
                                /\ Record(call[r].id, status[call[r].id], s, r)
<1>1. call[r].id \in Ids /\ Live(r)
  BY DEF CommitCreate, CommitTransition, ResyncInv, CallOK, Live
<1>2. CASE CommitCreate(r)
  <2>1. status[call[r].id] = Absent
    BY <1>1, <1>2 DEF CommitCreate, ChainInv, CreateFresh
  <2>2. "REQUESTED" \in Statuses
    BY DEF Statuses
  <2> QED BY <1>1, <1>2, <2>1, <2>2 DEF CommitCreate
<1>3. CASE CommitTransition(r)
  <2>1. call[r].arg \in Statuses
    BY <1>3, AllowedStatuses DEF CommitTransition, ResyncInv, Checked
  <2> QED BY <1>1, <1>3, <2>1 DEF CommitTransition
<1> QED BY <1>2, <1>3

(* The row that a COMMIT appends. *)
LEMMA RecordEffect ==
  ASSUME ResyncInv, NEW i \in Ids, NEW old \in Statuses \cup {Absent}, NEW s \in Statuses,
         NEW r \in Requests, Record(i, old, s, r), NEW n, n = Len(history) + 1
  PROVE  /\ n \in Nat \ {0} /\ DOMAIN history = 1 .. n - 1 /\ DOMAIN history' = 1 .. n
         /\ \A k \in DOMAIN history : history'[k] = history[k]
         /\ history'[n].id = i /\ history'[n].old = old /\ history'[n].new = s
<1> DEFINE h == [id |-> i, old |-> old, new |-> s, by |-> r]
<1>1. h \in HistoryRows /\ history' = Append(history, h) /\ history \in Seq(HistoryRows)
  BY DEF HistoryRows, Record, ResyncInv, TypeOK
<1>2. h.id = i /\ h.old = old /\ h.new = s
  OBVIOUS
<1> HIDE DEF h
<1>3. /\ Len(history) \in Nat /\ DOMAIN history = 1 .. Len(history)
      /\ DOMAIN history' = 1 .. Len(history) + 1
      /\ \A k \in DOMAIN history : history'[k] = history[k]
      /\ history'[Len(history) + 1] = h
  BY <1>1
<1> QED BY <1>2, <1>3

LEMMA CreateFreshStep ==
  ASSUME ResyncInv, ChainInv, [Next]_vars
  PROVE  CreateFresh'
<1>1. ASSUME NEW r \in Requests, NEW i \in Ids, NEW op, NEW arg, Begin(r, op, i, arg)
      PROVE  CreateFresh'
  <2>1. /\ ~Live(r) /\ UNCHANGED status
        /\ \A q \in Requests \ {r} : pc'[q] = pc[q] /\ call'[q] = call[q]
        /\ call'[r].op = op /\ call'[r].id = i
        /\ op = "create" => Fresh(i)
    BY <1>1 DEF Begin, Goto, Live, rows, ResyncInv, TypeOK
  <2> QED BY <2>1 DEF ChainInv, CreateFresh, Fresh, Live
<1>2. ASSUME NEW r \in Requests, UNCHANGED status, Live(r), Advance(r) \/ Rollback(r),
             \A q \in Requests \ {r} : pc'[q] = pc[q] /\ call'[q] = call[q],
             ~Live(r)' \/ call'[r] = call[r]
      PROVE  CreateFresh'
  BY <1>2 DEF ChainInv, CreateFresh, Live
<1>3. ASSUME NEW r \in Requests, CommitCreate(r) \/ CommitTransition(r)
      PROVE  CreateFresh'
  <2>1. /\ Live(r) /\ ~Live(r)'
        /\ \A q \in Requests \ {r} : pc'[q] = pc[q] /\ call'[q] = call[q]
    BY <1>3, CommitEffect, FinishKeeps DEF Live
  <2>2. \A i \in Ids : i # call[r].id => status'[i] = status[i]
    BY <1>3, CommitEffect DEF ResyncInv, TypeOK
  <2>3. ASSUME NEW q \in Requests \ {r}, Live(q), call[q].op = "create"
        PROVE  call[q].id \in Ids /\ call[q].id # call[r].id
    <3>1. call[q].id \in Ids /\ status[call[q].id] = Absent
      BY <2>3 DEF ResyncInv, CallOK, ChainInv, CreateFresh
    <3>2. CASE call[r].op = "create"
      BY <2>1, <2>3, <3>1, <3>2 DEF ChainInv, CreateFresh
    <3>3. CASE call[r].op # "create"
      <4>1. Was(call[r].id, seen[r])
        BY <1>3, <3>3 DEF CommitCreate, CommitTransition, ResyncInv, Checked
      <4> QED BY <3>1, <4>1 DEF Was, ChainInv, RowKept
    <3> QED BY <3>2, <3>3
  <2> QED BY <2>1, <2>2, <2>3 DEF ChainInv, CreateFresh, Live
<1>4. ASSUME NEW r \in Requests, FindActive(r) \/ FindStatus(r) \/ UpdateStatus(r) \/ Rollback(r)
      PROVE  CreateFresh'
  <2>1. UNCHANGED status /\ Live(r) /\ (Finish(r) \/ (UNCHANGED call /\ \E phase : Goto(r, phase)))
    BY <1>4 DEF FindActive, FindStatus, UpdateStatus, Rollback, rows, Live
  <2>2. CASE Finish(r)
    BY <1>2, <1>4, <2>1, <2>2, FinishKeeps DEF Advance, Live
  <2>3. CASE UNCHANGED call /\ \E phase : Goto(r, phase)
    <3>1. \A q \in Requests \ {r} : pc'[q] = pc[q] /\ call'[q] = call[q]
      BY <2>3 DEF Goto, ResyncInv, TypeOK
    <3> QED BY <1>2, <1>4, <2>1, <2>3, <3>1 DEF Advance
  <2> QED BY <2>1, <2>2, <2>3
<1>5. CASE UNCHANGED vars
  BY <1>5 DEF vars, rows, ChainInv, CreateFresh, Live
<1> QED BY <1>1, <1>3, <1>4, <1>5 DEF Next, Advance

(* Each row replaces the status that the one before it wrote. *)
LEMMA ChainStep ==
  ASSUME ResyncInv, ChainInv, [Next]_vars
  PROVE  RowKept' /\ HistoryChain'
<1>1. CASE UNCHANGED rows
  BY <1>1 DEF rows, ChainInv, RowKept, HistoryChain, RowsOf
<1>2. ASSUME NEW r \in Requests, CommitCreate(r) \/ CommitTransition(r)
      PROVE  RowKept' /\ HistoryChain'
  <2>1. PICK t \in Ids : t = call[r].id
    BY <1>2, CommitEffect
  <2>2. PICK s \in Statuses : /\ status' = [status EXCEPT ![t] = s]
                              /\ Record(t, status[t], s, r)
    BY <1>2, <2>1, CommitEffect
  <2>3. status \in [Ids -> Statuses \cup {Absent}] /\ s # Absent
    BY DEF ResyncInv, TypeOK, Statuses, Absent
  <2>4. status'[t] = s /\ \A i \in Ids \ {t} : status'[i] = status[i]
    BY <2>2, <2>3
  <2>5. PICK n : n = Len(history) + 1
    OBVIOUS
  <2>6. /\ n \in Nat \ {0} /\ DOMAIN history = 1 .. n - 1 /\ DOMAIN history' = 1 .. n
        /\ \A k \in DOMAIN history : history'[k] = history[k]
        /\ history'[n].id = t /\ history'[n].old = status[t] /\ history'[n].new = s
    BY <2>2, <2>3, <2>5, RecordEffect
  <2>7. \A k \in DOMAIN history : history[k].id \in Ids
    <3>1. \A k \in DOMAIN history : history[k] \in HistoryRows
      BY DEF ResyncInv, TypeOK
    <3> QED BY <3>1 DEF HistoryRows
  <2>8. RowKept'
    BY <2>3, <2>4, <2>6, <2>7 DEF ChainInv, RowKept
  <2>9. /\ \A i \in Ids \ {t} : RowsOf(i)' = RowsOf(i)
        /\ RowsOf(t)' = RowsOf(t) \cup {n}
        /\ \A i : RowsOf(i) \subseteq 1 .. n - 1
    BY <2>6 DEF RowsOf
  <2>10. ASSUME NEW i \in Ids
         PROVE  /\ RowsOf(i)' = {} => status'[i] = Absent
                /\ \A k \in RowsOf(i)' :
                     /\ (\A j \in RowsOf(i)' : k <= j) => history'[k].old = Absent
                     /\ (\A j \in RowsOf(i)' : j <= k) => history'[k].new = status'[i]
                     /\ \A j \in RowsOf(i)' :
                          j < k /\ (\A l \in RowsOf(i)' : l <= j \/ k <= l)
                            => history'[k].old = history'[j].new
    <3>1. /\ RowsOf(i) = {} => status[i] = Absent
          /\ \A k \in RowsOf(i) :
               /\ (\A j \in RowsOf(i) : k <= j) => history[k].old = Absent
               /\ (\A j \in RowsOf(i) : j <= k) => history[k].new = status[i]
               /\ \A j \in RowsOf(i) :
                    j < k /\ (\A l \in RowsOf(i) : l <= j \/ k <= l)
                      => history[k].old = history[j].new
      BY DEF ChainInv, HistoryChain
    <3>2. \A k \in RowsOf(i) : k \in 1 .. n - 1 /\ history'[k] = history[k]
      BY <2>6, <2>9
    <3>3. CASE i # t
      BY <2>4, <2>9, <3>1, <3>2, <3>3
    <3>4. CASE i = t
      <4>1. RowsOf(i)' = RowsOf(i) \cup {n} /\ n \notin RowsOf(i)
        BY <2>6, <2>9, <3>4
      <4>2. (\A j \in RowsOf(i)' : n <= j) => history'[n].old = Absent
        <5>1. (\A j \in RowsOf(i)' : n <= j) => RowsOf(i) = {}
          BY <2>6, <3>2, <4>1
        <5> QED BY <2>6, <3>1, <3>4, <5>1
      <4>3. \A j \in RowsOf(i)' :
              j < n /\ (\A l \in RowsOf(i)' : l <= j \/ n <= l)
                => history'[n].old = history'[j].new
        BY <2>6, <3>1, <3>2, <3>4, <4>1
      <4>4. \A k \in RowsOf(i) :
              /\ (\A j \in RowsOf(i)' : k <= j) => history'[k].old = Absent
              /\ (\A j \in RowsOf(i)' : j <= k) => history'[k].new = status'[i]
              /\ \A j \in RowsOf(i)' :
                   j < k /\ (\A l \in RowsOf(i)' : l <= j \/ k <= l)
                     => history'[k].old = history'[j].new
        BY <2>6, <3>1, <3>2, <4>1
      <4> QED BY <2>4, <2>6, <3>4, <4>1, <4>2, <4>3, <4>4
    <3> QED BY <3>3, <3>4
  <2> QED BY <2>8, <2>10 DEF HistoryChain
<1> QED BY <1>1, <1>2, RowsStep

(* The history of every request is a chain from its creation to the status   *)
(* it has, however the transitions interleave and whatever they had read.    *)
THEOREM HistoryIsAChain == Spec => []HistoryChain
<1>1. Init => ChainInv
  <2> SUFFICES ASSUME Init PROVE ChainInv
    OBVIOUS
  <2>1. history = <<>> /\ DOMAIN history = {}
    BY DEF Init
  <2> QED BY <2>1 DEF Init, ChainInv, CreateFresh, RowKept, HistoryChain, RowsOf, Live
<1>2. ResyncInv /\ ChainInv /\ [Next]_vars => ChainInv'
  BY CreateFreshStep, ChainStep DEF ChainInv
<1>3. ChainInv => HistoryChain
  BY DEF ChainInv
<1> QED BY <1>1, <1>2, <1>3, ResyncInductive, PTL DEF Spec
=============================================================================
