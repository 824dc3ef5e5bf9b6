-------------------------- MODULE OrderServiceProofs --------------------------
(***************************************************************************)
(* TLAPS proofs about OrderService, for every set of orders, requests,     *)
(* operations and statuses: IInv is inductive, hence TypeOK and            *)
(* SagaEvidence are invariants.                                            *)
(***************************************************************************)
EXTENDS OrderServiceInvariant, SequenceTheorems, TLAPS

(* What the end of a request does to the per-request state and to the locks. *)
LEMMA FinishTypes ==
  ASSUME TypeOK, NEW r \in Requests, Finish(r)
  PROVE  /\ pc' \in [Requests -> Phases]
         /\ call' \in [Requests -> [op : Operations \cup {"none"},
                                    order : OrderIds \cup {"none"}, arg : AllArgs]]
         /\ seen' \in [Requests -> Statuses \cup {Absent}]
         /\ from' \in [Requests -> Nat]
         /\ orderLock' \in [OrderIds -> Requests \cup {NoRequest}]
         /\ sagaLock' \in [OrderIds -> Requests \cup {NoRequest}]
         /\ \A q \in Requests : Live(q)' => /\ call'[q].op \in Operations
                                            /\ call'[q].order \in OrderIds
                                            /\ call'[q].arg \in Args(call'[q].op)
  BY DEF TypeOK, Finish, Goto, Release, NoCall, AllArgs, Phases, Live

LEMMA LiveCall ==
  ASSUME TypeOK, NEW r \in Requests, Live(r)
  PROVE  /\ Target(r) \in OrderIds
         /\ call[r].op \in Operations
         /\ call[r].arg \in Args(call[r].op)
  BY DEF TypeOK, Target

LEMMA ArgsTyped == \A op \in Operations : Args(op) \subseteq AllArgs
  BY NewStatusesAssumption, OperationsAssumption DEF Args, AllArgs

LEMMA InitIInv == Init => IInv
  <1> SUFFICES ASSUME Init PROVE IInv
    OBVIOUS
  <1>1. TypeOK
    BY DEF Init, TypeOK, NoCall, AllArgs, Phases, Live
  <1>2. SagaEvidence
    BY DEF Init, SagaEvidence, AckSteps, AsnSteps, InvoiceSteps, Absent
  <1>3. PhaseOK /\ SagaPerOrder /\ OrderFound /\ CreateFresh /\ StepHeld
    BY DEF Init, PhaseOK, SagaPerOrder, OrderFound, CreateFresh, StepHeld, Live
  <1> QED
    BY <1>1, <1>2, <1>3 DEF IInv

-----------------------------------------------------------------------------
(* The audit row that a COMMIT appends. *)
LEMMA AuditTypes ==
  ASSUME TypeOK, NEW r \in Requests, Live(r),
         NEW action \in {"CREATE", "CONFIRM", "UPDATE", "SHIP", "INVOICE", "REVERT"},
         NEW old \in Statuses \cup {Absent}, NEW new \in Statuses \cup {Absent},
         Audit(r, action, old, new)
  PROVE  /\ audit' \in Seq(AuditRows)
         /\ DOMAIN audit \subseteq DOMAIN audit'
         /\ \A i \in DOMAIN audit : audit'[i] = audit[i]
         /\ \A i \in DOMAIN audit' :
              \/ i \in DOMAIN audit
              \/ audit'[i].old = old /\ audit'[i].order = Target(r)
  <1> DEFINE row == [action |-> action, order |-> Target(r), by |-> r,
                     old |-> old, new |-> new, from |-> from[r]]
  <1>1. row \in AuditRows
    BY LiveCall DEF AuditRows, TypeOK
  <1>2. audit \in Seq(AuditRows) /\ audit' = Append(audit, row)
    BY DEF TypeOK, Audit
  <1> HIDE DEF row
  <1>3. /\ audit' \in Seq(AuditRows)
        /\ Len(audit') = Len(audit) + 1
        /\ \A i \in 1 .. Len(audit) : audit'[i] = audit[i]
        /\ audit'[Len(audit) + 1] = row
    BY <1>1, <1>2
  <1>4. DOMAIN audit = 1 .. Len(audit) /\ DOMAIN audit' = 1 .. Len(audit') /\ Len(audit) \in Nat
    BY <1>2, <1>3
  <1>5. row.old = old /\ row.order = Target(r)
    BY DEF row
  <1> QED
    BY <1>3, <1>4, <1>5

(* Nothing but the per-request state and the locks changes. *)
LEMMA RowsUnchangedTypes ==
  ASSUME TypeOK, UNCHANGED rows
  PROVE  /\ orders' \in [OrderIds -> Statuses \cup {Absent}]
         /\ sagas' \in [OrderIds -> Steps \cup {Absent}]
         /\ outbox' \subseteq [type : EventTypes, order : OrderIds, by : Requests]
         /\ shipments' \subseteq Marks
         /\ invoices' \subseteq Marks
         /\ audit' \in Seq(AuditRows)
  BY DEF TypeOK, rows

LEMMA CommitTypes ==
  ASSUME TypeOK, PhaseOK, NEW r \in Requests, Commit(r)
  PROVE  TypeOK'
  <1>1. Live(r) /\ Finish(r)
    BY DEF Commit, CommitCreate, CommitConfirm, CommitUpdate, CommitShip, CommitInvoice,
           CommitRevert, Committing, Live
  <1>2. Target(r) \in OrderIds /\ [order |-> Target(r), by |-> r] \in Marks
    BY <1>1, LiveCall DEF Marks
  <1>3. \A type \in EventTypes :
          [type |-> type, order |-> Target(r), by |-> r]
            \in [type : EventTypes, order : OrderIds, by : Requests]
    BY <1>2
  <1>4. seen[r] \in Statuses \cup {Absent} /\ orders[Target(r)] \in Statuses \cup {Absent}
    BY <1>2 DEF TypeOK
  <1>5. CASE CommitCreate(r)
    <2>1. audit' \in Seq(AuditRows)
      BY <1>1, <1>5, AuditTypes, "DRAFT" \in Statuses DEF CommitCreate, Statuses
    <2>2. outbox' \subseteq [type : EventTypes, order : OrderIds, by : Requests]
      BY <1>3, <1>5 DEF CommitCreate, Emit, EventTypes, TypeOK
    <2> QED
      BY <1>1, <1>2, <1>5, <2>1, <2>2, FinishTypes
      DEF CommitCreate, SetStatus, TypeOK, Statuses, Steps
  <1>6. CASE CommitConfirm(r)
    <2>1. audit' \in Seq(AuditRows)
      BY <1>1, <1>4, <1>6, AuditTypes DEF CommitConfirm, Statuses
    <2>2. outbox' \subseteq [type : EventTypes, order : OrderIds, by : Requests]
      BY <1>3, <1>6 DEF CommitConfirm, Emit, EventTypes, TypeOK
    <2> QED
      BY <1>1, <1>2, <1>6, <2>1, <2>2, FinishTypes
      DEF CommitConfirm, SetStatus, SetStep, TypeOK, Statuses, Steps, AckSteps
  <1>7. CASE CommitUpdate(r)
    <2> DEFINE status == IF call[r].arg = "keep" THEN orders[Target(r)] ELSE call[r].arg
    <2>1. status \in Statuses \cup {Absent}
      BY <1>1, <1>4, <1>7, LiveCall, NewStatusesAssumption
      DEF CommitUpdate, Committing, PhaseOK, Args
    <2>2. Audit(r, "UPDATE", seen[r], status) /\ SetStatus(r, status)
      BY <1>7 DEF CommitUpdate
    <2> HIDE DEF status
    <2>3. audit' \in Seq(AuditRows)
      BY <1>1, <1>4, <2>1, <2>2, AuditTypes
    <2> QED
      BY <1>1, <1>2, <1>7, <2>1, <2>2, <2>3, FinishTypes DEF CommitUpdate, SetStatus, TypeOK
  <1>8. CASE CommitShip(r)
    <2>1. audit' \in Seq(AuditRows)
      BY <1>1, <1>8, AuditTypes DEF CommitShip
    <2>2. outbox' \subseteq [type : EventTypes, order : OrderIds, by : Requests]
      BY <1>3, <1>8 DEF CommitShip, Emit, EventTypes, TypeOK
    <2> QED
      BY <1>1, <1>2, <1>8, <2>1, <2>2, FinishTypes
      DEF CommitShip, SetStep, TypeOK, Steps, AsnSteps
  <1>9. CASE CommitInvoice(r)
    <2>1. audit' \in Seq(AuditRows)
      BY <1>1, <1>9, AuditTypes DEF CommitInvoice
    <2>2. outbox' \subseteq [type : EventTypes, order : OrderIds, by : Requests]
      BY <1>3, <1>9 DEF CommitInvoice, Emit, EventTypes, TypeOK
    <2> QED
      BY <1>1, <1>2, <1>9, <2>1, <2>2, FinishTypes
      DEF CommitInvoice, SetStep, TypeOK, Steps, InvoiceSteps
  <1>10. CASE CommitRevert(r)
    <2>1. audit[from[r]] \in AuditRows
      BY <1>10 DEF CommitRevert, Committing, PhaseOK, TypeOK
    <2>2. audit[from[r]].old \in Statuses \cup {Absent}
      BY <2>1 DEF AuditRows
    <2>3. audit' \in Seq(AuditRows)
      BY <1>1, <1>10, AuditTypes DEF CommitRevert
    <2> QED
      BY <1>1, <1>2, <1>10, <2>2, <2>3, FinishTypes DEF CommitRevert, SetStatus, TypeOK
  <1> QED
    BY <1>5, <1>6, <1>7, <1>8, <1>9, <1>10 DEF Commit

LEMMA TypeStep ==
  ASSUME TypeOK, PhaseOK, [Next]_vars
  PROVE  TypeOK'
  <1>1. ASSUME NEW r \in Requests, NEW op \in Operations, NEW o \in OrderIds,
               NEW arg \in Args(op), Begin(r, op, o, arg)
        PROVE  TypeOK'
    <2>1. [op |-> op, order |-> o, arg |-> arg]
            \in [op : Operations \cup {"none"}, order : OrderIds \cup {"none"}, arg : AllArgs]
      BY ArgsTyped
    <2>2. pc' \in [Requests -> Phases]
      BY <1>1 DEF Begin, Goto, FirstPhase, Phases, TypeOK
    <2> QED
      BY <1>1, <2>1, <2>2, RowsUnchangedTypes DEF Begin, TypeOK, Live, Goto, FirstPhase, locks
  <1>2. ASSUME NEW r \in Requests, AnalyzeImpact(r)
        PROVE  TypeOK'
    BY <1>2, FinishTypes, RowsUnchangedTypes
    DEF AnalyzeImpact, Goto, TypeOK, Live, Phases, locks
  <1>3. ASSUME NEW r \in Requests, FindOrder(r)
        PROVE  TypeOK'
    <2>1. orders[Target(r)] \in Statuses \cup {Absent}
      BY <1>3, LiveCall DEF FindOrder, Live, TypeOK
    <2> QED
      BY <1>3, <2>1, FinishTypes, RowsUnchangedTypes
      DEF FindOrder, Goto, TypeOK, Live, Phases, locks
  <1>4. ASSUME NEW r \in Requests, FindAudit(r)
        PROVE  TypeOK'
    <2>1. \A i \in Restorable(Target(r)) : i \in Nat
      BY DEF Restorable, TypeOK
    <2> QED
      BY <1>4, <2>1, FinishTypes, RowsUnchangedTypes
      DEF FindAudit, Goto, TypeOK, Live, Phases, locks
  <1>5. ASSUME NEW r \in Requests, UpdateOrderRow(r)
        PROVE  TypeOK'
    BY <1>5, RowsUnchangedTypes DEF UpdateOrderRow, Goto, TypeOK, Live, Phases
  <1>6. ASSUME NEW r \in Requests, UpdateSagaRow(r)
        PROVE  TypeOK'
    <2>1. sagaLock' \in [OrderIds -> Requests \cup {NoRequest}]
      BY <1>6 DEF UpdateSagaRow, TypeOK
    <2>2. UNCHANGED <<rows, call, seen, from, orderLock>> /\ pc[r] = "saga" /\ Goto(r, "commit")
      BY <1>6 DEF UpdateSagaRow
    <2> QED
      BY <2>1, <2>2, RowsUnchangedTypes DEF Goto, TypeOK, Live, Phases
  <1>7. ASSUME NEW r \in Requests, Rollback(r)
        PROVE  TypeOK'
    BY <1>7, FinishTypes, RowsUnchangedTypes DEF Rollback, TypeOK
  <1>8. ASSUME NEW o \in OrderIds, Work(o)
        PROVE  TypeOK'
    BY <1>8 DEF Work, TypeOK, Live, locks
  <1>9. CASE UNCHANGED vars
    BY <1>9 DEF vars, rows, locks, TypeOK, Live
  <1> QED
    BY <1>1, <1>2, <1>3, <1>4, <1>5, <1>6, <1>7, <1>8, <1>9, CommitTypes DEF Next, Advance

-----------------------------------------------------------------------------
(* The end of r touches no other request and frees r's locks. *)
LEMMA FinishEffect ==
  ASSUME TypeOK, NEW r \in Requests, Finish(r)
  PROVE  /\ pc'[r] = "done"
         /\ \A q \in Requests \ {r} : /\ pc'[q] = pc[q]
                                      /\ call'[q] = call[q]
                                      /\ from'[q] = from[q]
                                      /\ seen'[q] = seen[q]
         /\ seen'[r] = Absent
         /\ \A o \in OrderIds :
              IF sagaLock[o] = r THEN sagaLock'[o] = NoRequest
                                 ELSE sagaLock'[o] = sagaLock[o]
  BY DEF TypeOK, Finish, Goto, Release

(* What a COMMIT does to the rows, whichever operation it ends. *)
LEMMA CommitEffect ==
  ASSUME IInv, NEW r \in Requests, Commit(r)
  PROVE  /\ pc[r] = "commit"
         /\ Finish(r)
         /\ Target(r) \in OrderIds
         /\ \A o \in OrderIds \ {Target(r)} : orders'[o] = orders[o] /\ sagas'[o] = sagas[o]
         /\ orders'[Target(r)] # Absent /\ sagas'[Target(r)] # Absent
         /\ call[r].op # "create" /\ sagaLock[Target(r)] # r => sagas' = sagas
         /\ DOMAIN audit \subseteq DOMAIN audit'
         /\ \A i \in DOMAIN audit : audit'[i] = audit[i]
         /\ \A i \in DOMAIN audit' : i \in DOMAIN audit \/ audit'[i].order = Target(r)
  <1>1. Live(r) /\ pc[r] = "commit" /\ Finish(r)
    BY DEF Commit, CommitCreate, CommitConfirm, CommitUpdate, CommitShip, CommitInvoice,
           CommitRevert, Committing, Live
  <1>2. Target(r) \in OrderIds
    BY <1>1, LiveCall DEF IInv
  <1>3. /\ DOMAIN audit \subseteq DOMAIN audit'
        /\ \A i \in DOMAIN audit : audit'[i] = audit[i]
        /\ \A i \in DOMAIN audit' : i \in DOMAIN audit \/ audit'[i].order = Target(r)
    <2>1. ASSUME NEW row, audit' = Append(audit, row), row.order = Target(r)
          PROVE  /\ DOMAIN audit \subseteq DOMAIN audit'
                 /\ \A i \in DOMAIN audit : audit'[i] = audit[i]
                 /\ \A i \in DOMAIN audit' : i \in DOMAIN audit \/ audit'[i].order = Target(r)
      BY <2>1 DEF IInv, TypeOK
    <2> QED
      BY <2>1 DEF Commit, CommitCreate, CommitConfirm, CommitUpdate, CommitShip, CommitInvoice,
                  CommitRevert, Audit
  <1>4. \A o \in OrderIds \ {Target(r)} : orders'[o] = orders[o] /\ sagas'[o] = sagas[o]
    BY <1>2 DEF Commit, CommitCreate, CommitConfirm, CommitUpdate, CommitShip, CommitInvoice,
                CommitRevert, SetStatus, SetStep, IInv, TypeOK
  <1>5. call[r].op # "create" /\ sagaLock[Target(r)] # r => sagas' = sagas
    BY DEF Commit, CommitCreate, CommitConfirm, CommitUpdate, CommitShip, CommitInvoice,
           CommitRevert, Committing, SetStep
  <1>6. call[r].op # "create" => orders[Target(r)] # Absent /\ sagas[Target(r)] # Absent
    BY <1>1, <1>2 DEF IInv, OrderFound, SagaPerOrder
  <1>7. orders'[Target(r)] # Absent
    <2>1. CASE CommitUpdate(r)
      BY <1>1, <1>2, <1>6, <2>1, LiveCall, NewStatusesAssumption
      DEF CommitUpdate, Committing, SetStatus, IInv, TypeOK, PhaseOK, Args, Statuses, Absent
    <2>2. CASE CommitRevert(r)
      BY <1>1, <1>2, <2>2 DEF CommitRevert, Committing, SetStatus, IInv, TypeOK, PhaseOK
    <2>3. CASE CommitShip(r) \/ CommitInvoice(r)
      BY <1>6, <2>3 DEF CommitShip, CommitInvoice, Committing
    <2>4. CASE CommitCreate(r) \/ CommitConfirm(r)
      BY <1>2, <2>4 DEF CommitCreate, CommitConfirm, SetStatus, IInv, TypeOK, Absent
    <2> QED
      BY <2>1, <2>2, <2>3, <2>4 DEF Commit
  <1>8. sagas'[Target(r)] # Absent
    BY <1>2, <1>6 DEF Commit, CommitCreate, CommitConfirm, CommitUpdate, CommitShip,
       CommitInvoice, CommitRevert, Committing, SetStep, IInv, TypeOK, Absent
  <1> QED
    BY <1>1, <1>2, <1>3, <1>4, <1>5, <1>7, <1>8

(* Every other step of a request leaves the rows alone. *)
LEMMA PhaseStep ==
  ASSUME IInv, [Next]_vars
  PROVE  PhaseOK'
  <1>1. ASSUME NEW r \in Requests, NEW op \in Operations, NEW o \in OrderIds,
               NEW arg \in Args(op), Begin(r, op, o, arg)
        PROVE  PhaseOK'
    BY <1>1 DEF Begin, Goto, FirstPhase, IInv, TypeOK, PhaseOK, rows
  <1>2. ASSUME NEW r \in Requests, AnalyzeImpact(r)
        PROVE  PhaseOK'
    <2>1. CASE Finish(r)
      BY <1>2, <2>1, FinishEffect DEF AnalyzeImpact, IInv, PhaseOK, rows
    <2>2. CASE Goto(r, "find") /\ UNCHANGED <<call, seen, from, locks>>
      BY <1>2, <2>2 DEF AnalyzeImpact, Goto, IInv, TypeOK, PhaseOK, rows
    <2> QED
      BY <1>2, <2>1, <2>2 DEF AnalyzeImpact
  <1>3. ASSUME NEW r \in Requests, FindOrder(r)
        PROVE  PhaseOK'
    <2>1. CASE Finish(r)
      BY <1>3, <2>1, FinishEffect DEF FindOrder, IInv, PhaseOK, rows
    <2>2. CASE ~Finish(r)
      <3>1. /\ ~Refused(call[r].op, call[r].arg, orders[Target(r)])
            /\ Goto(r, IF call[r].op \in {"ship", "invoice"} THEN "saga" ELSE "order")
            /\ UNCHANGED <<rows, call, from>>
        BY <1>3, <2>2 DEF FindOrder
      <3>2. call[r].op \in {"confirm", "update", "ship", "invoice"}
        BY <1>3, LiveCall, OperationsAssumption DEF FindOrder, Live, IInv, PhaseOK
      <3> QED
        BY <3>1, <3>2 DEF Refused, Goto, IInv, TypeOK, PhaseOK, rows
    <2> QED
      BY <2>1, <2>2
  <1>4. ASSUME NEW r \in Requests, FindAudit(r)
        PROVE  PhaseOK'
    BY <1>4, FinishEffect DEF FindAudit, Restorable, Goto, IInv, TypeOK, PhaseOK, rows
  <1>5. ASSUME NEW r \in Requests, UpdateOrderRow(r)
        PROVE  PhaseOK'
    BY <1>5 DEF UpdateOrderRow, Goto, IInv, TypeOK, PhaseOK, rows
  <1>6. ASSUME NEW r \in Requests, UpdateSagaRow(r)
        PROVE  PhaseOK'
    <2>1. UNCHANGED <<rows, call, seen, from, orderLock>> /\ pc[r] = "saga" /\ Goto(r, "commit")
      BY <1>6 DEF UpdateSagaRow
    <2> QED
      BY <2>1 DEF Goto, IInv, TypeOK, PhaseOK, rows
  <1>7. ASSUME NEW r \in Requests, Commit(r)
        PROVE  PhaseOK'
    BY <1>7, CommitEffect, FinishEffect DEF IInv, PhaseOK
  <1>8. ASSUME NEW r \in Requests, Rollback(r)
        PROVE  PhaseOK'
    BY <1>8, FinishEffect DEF Rollback, IInv, PhaseOK, rows
  <1>9. ASSUME NEW o \in OrderIds, Work(o)
        PROVE  PhaseOK'
    BY <1>9 DEF Work, IInv, PhaseOK
  <1>10. CASE UNCHANGED vars
    BY <1>10 DEF vars, rows, IInv, PhaseOK
  <1> QED
    BY <1>1, <1>2, <1>3, <1>4, <1>5, <1>6, <1>7, <1>8, <1>9, <1>10 DEF Next, Advance

(* A step that is neither a COMMIT nor a worker's leaves the rows alone. *)
LEMMA RowsStep ==
  ASSUME [Next]_vars
  PROVE  \/ UNCHANGED rows
         \/ \E r \in Requests : Commit(r)
         \/ \E o \in OrderIds : Work(o)
  BY DEF Next, Advance, Begin, AnalyzeImpact, FindOrder, FindAudit, UpdateOrderRow,
         UpdateSagaRow, Rollback, vars

(* "No row" is not a step, and a worker finds and leaves one. *)
LEMMA AbsentIsNoStep ==
  /\ Absent \notin Steps
  /\ \A s, t : WorkerTransition(s, t) => s \in Steps
  <1>1. Absent \notin Steps
    BY DEF Absent, Steps, AckSteps, AsnSteps, InvoiceSteps
  <1>2. ASSUME NEW s, NEW t, <<s, t>> \in Successor
        PROVE  s \in Steps
    BY <1>2 DEF Successor, Steps, AckSteps, AsnSteps, InvoiceSteps
  <1> QED
    BY <1>1, <1>2 DEF WorkerTransition, IsValidTransition

LEMMA SagaPerOrderStep ==
  ASSUME IInv, [Next]_vars
  PROVE  SagaPerOrder'
  <1>1. CASE UNCHANGED rows
    BY <1>1 DEF rows, IInv, SagaPerOrder
  <1>2. ASSUME NEW r \in Requests, Commit(r)
        PROVE  SagaPerOrder'
    BY <1>2, CommitEffect DEF IInv, SagaPerOrder
  <1>3. ASSUME NEW o \in OrderIds, Work(o)
        PROVE  SagaPerOrder'
    <2>1. PICK step \in Steps : /\ WorkerTransition(sagas[o], step)
                                /\ sagas' = [sagas EXCEPT ![o] = step]
      BY <1>3 DEF Work
    <2>2. sagas[o] # Absent /\ step # Absent
      BY <2>1, AbsentIsNoStep
    <2>3. UNCHANGED orders
      BY <1>3 DEF Work
    <2> QED
      BY <2>1, <2>2, <2>3 DEF IInv, SagaPerOrder, TypeOK
  <1> QED
    BY <1>1, <1>2, <1>3, RowsStep

LEMMA OrderFoundStep ==
  ASSUME IInv, [Next]_vars
  PROVE  OrderFound'
  <1>1. ASSUME NEW r \in Requests, NEW op \in Operations, NEW o \in OrderIds,
               NEW arg \in Args(op), Begin(r, op, o, arg)
        PROVE  OrderFound'
    BY <1>1 DEF Begin, Goto, FirstPhase, IInv, TypeOK, OrderFound, rows, Target
  <1>2. ASSUME NEW r \in Requests, Finish(r), UNCHANGED rows
        PROVE  OrderFound'
    BY <1>2, FinishEffect DEF IInv, OrderFound, rows, Target
  <1>3. ASSUME NEW r \in Requests, AnalyzeImpact(r), ~Finish(r)
        PROVE  OrderFound'
    BY <1>3 DEF AnalyzeImpact, Goto, IInv, TypeOK, OrderFound, rows, Target
  <1>4. ASSUME NEW r \in Requests, FindOrder(r), ~Finish(r)
        PROVE  OrderFound'
    <2>1. /\ orders[Target(r)] # Absent
          /\ \E phase : Goto(r, phase)
          /\ UNCHANGED <<rows, call>>
      BY <1>4 DEF FindOrder, Refused
    <2> QED
      BY <2>1 DEF Goto, IInv, TypeOK, OrderFound, rows, Target
  <1>5. ASSUME NEW r \in Requests, FindAudit(r), ~Finish(r)
        PROVE  OrderFound'
    <2>1. PICK i \in Restorable(Target(r)) : Goto(r, "order") /\ UNCHANGED <<rows, call>>
      BY <1>5 DEF FindAudit
    <2>2. orders[Target(r)] # Absent
      BY <2>1 DEF Restorable, IInv, OrderFound
    <2> QED
      BY <2>1, <2>2 DEF Goto, IInv, TypeOK, OrderFound, rows, Target
  <1>6. ASSUME NEW r \in Requests, UpdateOrderRow(r) \/ UpdateSagaRow(r)
        PROVE  OrderFound'
    <2>1. /\ pc[r] \in {"order", "saga"}
          /\ \E phase : Goto(r, phase)
          /\ UNCHANGED <<rows, call>>
      BY <1>6 DEF UpdateOrderRow, UpdateSagaRow
    <2> QED
      BY <2>1 DEF Goto, IInv, TypeOK, OrderFound, rows, Target
  <1>7. ASSUME NEW r \in Requests, Commit(r)
        PROVE  OrderFound'
    <2>1. \A q \in Requests \ {r} :
            Target(q)' = Target(q) /\ pc'[q] = pc[q] /\ call'[q] = call[q]
      BY <1>7, CommitEffect, FinishEffect DEF IInv, Target
    <2>2. \A o : orders[o] # Absent /\ o \in OrderIds => orders'[o] # Absent
      BY <1>7, CommitEffect
    <2>3. \A q \in Requests : Live(q) => Target(q) \in OrderIds
      BY LiveCall DEF IInv
    <2>4. \A i \in DOMAIN audit : audit[i].order \in OrderIds
      <3>1. \A i \in DOMAIN audit : audit[i] \in AuditRows
        BY DEF IInv, TypeOK
      <3> QED
        BY <3>1 DEF AuditRows
    <2>5. pc'[r] = "done"
      BY <1>7, CommitEffect, FinishEffect DEF IInv
    <2>6. \A i \in DOMAIN audit' : audit'[i].old # Absent => orders'[audit'[i].order] # Absent
      BY <1>7, <2>2, <2>4, CommitEffect DEF IInv, OrderFound
    <2> QED
      BY <2>1, <2>2, <2>3, <2>5, <2>6 DEF IInv, OrderFound, Live
  <1>8. ASSUME NEW o \in OrderIds, Work(o)
        PROVE  OrderFound'
    BY <1>8 DEF Work, IInv, OrderFound, Target
  <1>9. CASE UNCHANGED vars
    BY <1>9 DEF vars, rows, IInv, OrderFound, Target
  <1>10. \A r \in Requests : Rollback(r) => Finish(r) /\ UNCHANGED rows
    BY DEF Rollback
  <1>11. \A r \in Requests : AnalyzeImpact(r) \/ FindOrder(r) \/ FindAudit(r) => UNCHANGED rows
    BY DEF AnalyzeImpact, FindOrder, FindAudit
  <1> QED
    BY <1>1, <1>2, <1>3, <1>4, <1>5, <1>6, <1>7, <1>8, <1>9, <1>10, <1>11 DEF Next, Advance

LEMMA CreateFreshStep ==
  ASSUME IInv, [Next]_vars
  PROVE  CreateFresh'
  <1>1. ASSUME NEW r \in Requests, NEW op \in Operations, NEW o \in OrderIds,
               NEW arg \in Args(op), Begin(r, op, o, arg)
        PROVE  CreateFresh'
    <2>1. \A q \in Requests \ {r} : /\ Live(q)' = Live(q)
                                    /\ call'[q] = call[q]
                                    /\ Target(q)' = Target(q)
      BY <1>1 DEF Begin, Goto, Live, Target, IInv, TypeOK
    <2>2. call'[r].op = op /\ Target(r)' = o
      BY <1>1 DEF Begin, Target, IInv, TypeOK
    <2>3. UNCHANGED orders /\ (op = "create" => Fresh(o))
      BY <1>1 DEF Begin, rows
    <2>4. ASSUME NEW p \in Requests, Live(p)', call'[p].op = "create"
          PROVE  orders'[Target(p)'] = Absent
      BY <2>1, <2>2, <2>3, <2>4 DEF Fresh, IInv, CreateFresh
    <2>5. ASSUME NEW p \in Requests, NEW q \in Requests, Live(p)', Live(q)',
                 call'[p].op = "create", call'[q].op = "create", Target(p)' = Target(q)'
          PROVE  p = q
      <3>1. CASE p # r /\ q # r
        BY <2>1, <2>5, <3>1 DEF IInv, CreateFresh
      <3>2. CASE p = r \/ q = r
        BY <2>1, <2>2, <2>3, <2>5, <3>2 DEF Fresh
      <3> QED
        BY <3>1, <3>2
    <2> QED
      BY <2>4, <2>5 DEF CreateFresh
  <1>2. ASSUME NEW r \in Requests, Finish(r), \A q \in Requests \ {r} :
                 Live(q) /\ call[q].op = "create" => orders'[Target(q)] = orders[Target(q)]
        PROVE  CreateFresh'
    BY <1>2, FinishEffect DEF IInv, CreateFresh, Live, Target
  <1>3. ASSUME NEW r \in Requests, Live(r), UNCHANGED <<orders, call>>, NEW phase, Goto(r, phase)
        PROVE  CreateFresh'
    BY <1>3 DEF Goto, IInv, TypeOK, CreateFresh, Live, Target
  <1>4. ASSUME NEW r \in Requests, Commit(r)
        PROVE  CreateFresh'
    <2>1. Finish(r) /\ Live(r) /\ Target(r) \in OrderIds
      BY <1>4, CommitEffect DEF Live
    <2>2. ASSUME NEW q \in Requests \ {r}, Live(q), call[q].op = "create"
          PROVE  orders'[Target(q)] = orders[Target(q)]
      <3>1. Target(q) \in OrderIds
        BY <2>2, LiveCall DEF IInv
      <3>2. CASE Target(q) # Target(r)
        BY <1>4, <3>1, <3>2, CommitEffect
      <3>3. CASE Target(q) = Target(r)
        <4>1. call[r].op = "create"
          BY <1>4, <2>2, <3>3, CommitEffect DEF IInv, CreateFresh, OrderFound
        <4> QED
          BY <2>1, <2>2, <3>3, <4>1 DEF IInv, CreateFresh
      <3> QED
        BY <3>2, <3>3
    <2> QED
      BY <1>2, <2>1, <2>2
  <1>5. ASSUME NEW o \in OrderIds, Work(o)
        PROVE  CreateFresh'
    BY <1>5 DEF Work, IInv, CreateFresh, Live, Target
  <1>6. CASE UNCHANGED vars
    BY <1>6 DEF vars, rows, IInv, CreateFresh, Live, Target
  <1>7. ASSUME NEW r \in Requests,
               \/ AnalyzeImpact(r) \/ FindOrder(r) \/ FindAudit(r) \/ UpdateOrderRow(r)
               \/ UpdateSagaRow(r) \/ Rollback(r)
        PROVE  CreateFresh'
    <2>1. UNCHANGED orders
      BY <1>7 DEF AnalyzeImpact, FindOrder, FindAudit, UpdateOrderRow, UpdateSagaRow, Rollback, rows
    <2>2. CASE Finish(r)
      BY <1>2, <2>1, <2>2
    <2>3. CASE ~Finish(r)
      <3>1. Live(r) /\ UNCHANGED call /\ \E phase : Goto(r, phase)
        BY <1>7, <2>3 DEF AnalyzeImpact, FindOrder, FindAudit, UpdateOrderRow, UpdateSagaRow,
                          Rollback, Live
      <3> QED
        BY <1>3, <2>1, <3>1
    <2> QED
      BY <2>2, <2>3
  <1> QED
    BY <1>1, <1>4, <1>5, <1>6, <1>7 DEF Next, Advance

(* The holder of a saga's lock commits the step it tested. *)
LEMMA StepHeldStep ==
  ASSUME IInv, [Next]_vars
  PROVE  StepHeld'
  <1>1. ASSUME NEW r \in Requests, pc[r] # "commit", UNCHANGED <<rows, sagaLock>>,
               \A q \in Requests \ {r} : pc'[q] = pc[q] /\ call'[q] = call[q]
        PROVE  StepHeld'
    BY <1>1 DEF IInv, TypeOK, StepHeld, Target, rows
  <1>2. ASSUME NEW r \in Requests, Finish(r), UNCHANGED rows
        PROVE  StepHeld'
    BY <1>2, FinishEffect DEF IInv, TypeOK, StepHeld, Target, rows
  <1>3. ASSUME NEW r \in Requests, UpdateSagaRow(r)
        PROVE  StepHeld'
    <2>1. /\ UNCHANGED <<rows, call>> /\ pc[r] = "saga" /\ pc' = [pc EXCEPT ![r] = "commit"]
          /\ Target(r) \in OrderIds /\ call[r].op \in {"confirm", "ship", "invoice"}
      BY <1>3, LiveCall DEF UpdateSagaRow, Goto, Live, IInv, PhaseOK
    <2>2. CASE UNCHANGED sagaLock
      BY <2>1, <2>2 DEF IInv, TypeOK, StepHeld, Target, rows
    <2>3. CASE /\ sagas[Target(r)] \in Awaits(call[r].op)
               /\ sagaLock' = [sagaLock EXCEPT ![Target(r)] = r]
      BY <2>1, <2>3 DEF IInv, TypeOK, StepHeld, Target, rows
    <2> QED
      BY <1>3, <2>2, <2>3 DEF UpdateSagaRow
  <1>4. ASSUME NEW r \in Requests, Commit(r)
        PROVE  StepHeld'
    <2> SUFFICES ASSUME NEW o \in OrderIds, sagaLock'[o] # NoRequest
                 PROVE  /\ pc'[sagaLock'[o]] = "commit"
                        /\ call'[sagaLock'[o]].order = o
                        /\ call'[sagaLock'[o]].op \in {"confirm", "ship", "invoice"}
                        /\ sagas'[o] \in Awaits(call'[sagaLock'[o]].op)
      BY DEF StepHeld, Target, Awaits
    <2>1. PICK q \in Requests \ {r} : sagaLock[o] = q /\ sagaLock'[o] = q
      BY <1>4, CommitEffect, FinishEffect DEF IInv, TypeOK
    <2>2. /\ pc[q] = "commit" /\ Target(q) = o /\ call[q].op \in {"confirm", "ship", "invoice"}
          /\ sagas[o] \in Awaits(call[q].op)
      BY <2>1 DEF IInv, StepHeld
    <2>3. pc'[q] = pc[q] /\ call'[q] = call[q]
      BY <1>4, <2>1, CommitEffect, FinishEffect DEF IInv
    <2>4. sagas'[o] = sagas[o]
      <3>1. CASE Target(r) # o
        BY <1>4, <3>1, CommitEffect
      <3>2. CASE Target(r) = o
        <4>1. orders[o] # Absent
          BY <2>1, <2>2 DEF IInv, OrderFound
        <4>2. call[r].op # "create"
          BY <1>4, <3>2, <4>1, CommitEffect DEF IInv, CreateFresh, Live
        <4> QED
          BY <1>4, <2>1, <3>2, <4>2, CommitEffect
      <3> QED
        BY <3>1, <3>2
    <2> QED
      BY <2>1, <2>2, <2>3, <2>4 DEF Target
  <1>5. ASSUME NEW o \in OrderIds, Work(o)
        PROVE  StepHeld'
    BY <1>5 DEF Work, IInv, TypeOK, StepHeld, Target, locks
  <1>6. CASE UNCHANGED vars
    BY <1>6 DEF vars, rows, locks, IInv, StepHeld, Target
  <1>7. ASSUME NEW r \in Requests, NEW op \in Operations, NEW o \in OrderIds,
               NEW arg \in Args(op), Begin(r, op, o, arg)
        PROVE  StepHeld'
    <2>1. /\ pc[r] # "commit" /\ UNCHANGED <<rows, sagaLock>>
          /\ \A q \in Requests \ {r} : pc'[q] = pc[q] /\ call'[q] = call[q]
      BY <1>7 DEF Begin, Goto, locks, IInv, TypeOK
    <2> QED
      BY <1>1, <2>1
  <1>8. ASSUME NEW r \in Requests,
               \/ AnalyzeImpact(r) \/ FindOrder(r) \/ FindAudit(r) \/ UpdateOrderRow(r)
               \/ Rollback(r)
        PROVE  StepHeld'
    <2>1. UNCHANGED rows
      BY <1>8 DEF AnalyzeImpact, FindOrder, FindAudit, UpdateOrderRow, Rollback
    <2>2. CASE ~Finish(r)
      <3>1. /\ pc[r] # "commit" /\ UNCHANGED <<rows, sagaLock>>
            /\ \A q \in Requests \ {r} : pc'[q] = pc[q] /\ call'[q] = call[q]
        BY <1>8, <2>1, <2>2 DEF AnalyzeImpact, FindOrder, FindAudit, UpdateOrderRow, Rollback,
                                Goto, locks, IInv, TypeOK
      <3> QED
        BY <1>1, <3>1
    <2> QED
      BY <1>2, <2>1, <2>2
  <1> QED
    BY <1>3, <1>4, <1>5, <1>6, <1>7, <1>8 DEF Next, Advance

-----------------------------------------------------------------------------
(* Evidence already there stays, and each operation that raises the step     *)
(* adds the document that the new step speaks of.                            *)
LEMMA SagaEvidenceStep ==
  ASSUME IInv, [Next]_vars
  PROVE  SagaEvidence'
  <1>1. CASE UNCHANGED rows
    BY <1>1 DEF rows, IInv, SagaEvidence, HasEvent, HasRow
  <1>2. ASSUME NEW r \in Requests, Commit(r)
        PROVE  SagaEvidence'
    <2>1. PICK t \in OrderIds : /\ t = call[r].order
                                /\ \A o \in OrderIds \ {t} : sagas'[o] = sagas[o]
      BY <1>2, CommitEffect DEF Target
    <2>2. /\ \A o, type : HasEvent(type, o) => HasEvent(type, o)'
          /\ \A o : HasRow(shipments, o) => HasRow(shipments, o)'
          /\ \A o : HasRow(invoices, o) => HasRow(invoices, o)'
      BY <1>2 DEF Commit, CommitCreate, CommitConfirm, CommitUpdate, CommitShip, CommitInvoice,
                  CommitRevert, Emit, HasEvent, HasRow
    <2>3. ASSUME /\ sagas'[t] \in AckSteps \cup AsnSteps \cup InvoiceSteps
                      => HasEvent("ORDER_CONFIRMED", t)'
                 /\ sagas'[t] \in AsnSteps \cup InvoiceSteps => HasRow(shipments, t)'
                 /\ sagas'[t] \in InvoiceSteps => HasRow(invoices, t)'
          PROVE  SagaEvidence'
      BY <2>1, <2>2, <2>3 DEF IInv, SagaEvidence
    <2>4. /\ sagas[t] \in AckSteps \cup AsnSteps \cup InvoiceSteps
               => HasEvent("ORDER_CONFIRMED", t)'
          /\ sagas[t] \in AsnSteps \cup InvoiceSteps => HasRow(shipments, t)'
          /\ sagas[t] \in InvoiceSteps => HasRow(invoices, t)'
      BY <2>1, <2>2 DEF IInv, SagaEvidence
    <2>5. CASE sagas'[t] = sagas[t]
      BY <2>3, <2>4, <2>5
    <2>6. CASE CommitCreate(r)
      <3>1. sagas'[t] = "PO_RECEIVED"
        BY <2>1, <2>6 DEF CommitCreate, IInv, TypeOK, Target
      <3> QED
        BY <2>3, <3>1 DEF AckSteps, AsnSteps, InvoiceSteps
    <2>7. CASE CommitConfirm(r) /\ sagas'[t] # sagas[t]
      <3>1. HasEvent("ORDER_CONFIRMED", t)'
        <4> DEFINE e == [type |-> "ORDER_CONFIRMED", order |-> t, by |-> r]
        <4>1. e \in outbox' /\ e.type = "ORDER_CONFIRMED" /\ e.order = t
          BY <2>1, <2>7 DEF CommitConfirm, Emit, Target
        <4> QED
          BY <4>1 DEF HasEvent
      <3>2. sagas'[t] = "PO_CONFIRMED"
        BY <2>1, <2>7 DEF CommitConfirm, SetStep, IInv, TypeOK, Target
      <3> QED
        BY <2>3, <3>1, <3>2 DEF AsnSteps, InvoiceSteps
    <2>8. CASE CommitShip(r) /\ sagas'[t] # sagas[t]
      <3>1. sagaLock[t] = r /\ sagas'[t] = "SHIP_READY" /\ call[r].op = "ship"
        BY <2>1, <2>8 DEF CommitShip, Committing, SetStep, IInv, TypeOK, Target
      <3>2. sagas[t] \in {"PO_CONFIRMED", "ACK_DELIVERED"}
        BY <2>1, <3>1, NoRequestAssumption DEF IInv, StepHeld, Awaits
      <3>3. HasRow(shipments, t)'
        <4> DEFINE d == [order |-> t, by |-> r]
        <4>1. d \in shipments' /\ d.order = t
          BY <2>1, <2>8 DEF CommitShip, Target
        <4> QED
          BY <4>1 DEF HasRow
      <3> QED
        BY <2>3, <2>4, <3>1, <3>2, <3>3 DEF AckSteps, AsnSteps, InvoiceSteps
    <2>9. CASE CommitInvoice(r) /\ sagas'[t] # sagas[t]
      <3>1. sagaLock[t] = r /\ sagas'[t] = "INVOICE_READY" /\ call[r].op = "invoice"
        BY <2>1, <2>9 DEF CommitInvoice, Committing, SetStep, IInv, TypeOK, Target
      <3>2. sagas[t] \in {"ASN_DELIVERED", "SHIP_READY"}
        BY <2>1, <3>1, NoRequestAssumption DEF IInv, StepHeld, Awaits
      <3>3. HasRow(invoices, t)'
        <4> DEFINE d == [order |-> t, by |-> r]
        <4>1. d \in invoices' /\ d.order = t
          BY <2>1, <2>9 DEF CommitInvoice, Target
        <4> QED
          BY <4>1 DEF HasRow
      <3> QED
        BY <2>3, <2>4, <3>1, <3>2, <3>3 DEF AckSteps, AsnSteps, InvoiceSteps
    <2> QED
      BY <1>2, <2>5, <2>6, <2>7, <2>8, <2>9 DEF Commit, CommitUpdate, CommitRevert
  <1>3. ASSUME NEW o \in OrderIds, Work(o)
        PROVE  SagaEvidence'
    <2>1. PICK step \in Steps : /\ WorkerTransition(sagas[o], step)
                                /\ sagas' = [sagas EXCEPT ![o] = step]
      BY <1>3 DEF Work
    <2>2. /\ step \in AckSteps => sagas[o] \in AckSteps
          /\ step \in AsnSteps => sagas[o] \in AsnSteps
          /\ step \in InvoiceSteps => sagas[o] \in InvoiceSteps
      BY <2>1 DEF WorkerTransition, IsValidTransition, Successor, AckSteps, AsnSteps, InvoiceSteps
    <2>3. UNCHANGED <<outbox, shipments, invoices>>
      BY <1>3 DEF Work
    <2> QED
      BY <2>1, <2>2, <2>3 DEF IInv, TypeOK, SagaEvidence, HasEvent, HasRow
  <1> QED
    BY <1>1, <1>2, <1>3, RowsStep

(* IInv is an invariant of every instance of OrderService. *)
THEOREM Inductive == Spec => []IInv
  <1>1. IInv /\ [Next]_vars => IInv'
    BY TypeStep, PhaseStep, SagaPerOrderStep, OrderFoundStep, CreateFreshStep, StepHeldStep,
       SagaEvidenceStep DEF IInv
  <1> QED
    BY <1>1, InitIInv, PTL DEF Spec

(* TypeOK, for any number of orders and requests. *)
THEOREM TypeCorrect == Spec => []TypeOK
  <1>1. IInv => TypeOK
    BY DEF IInv
  <1> QED
    BY <1>1, Inductive, PTL

(* For any number of orders, concurrent requests and failures, a saga is     *)
(* never ahead of the documents it stands for.                               *)
THEOREM SagaEvidenceHolds == Spec => []SagaEvidence
  <1>1. IInv => SagaEvidence
    BY DEF IInv
  <1> QED
    BY <1>1, Inductive, PTL

-----------------------------------------------------------------------------
(* Every transition of a worker goes up the line of steps. *)
LEMMA WorkerGoesUp ==
  ASSUME NEW a, NEW b, WorkerTransition(a, b)
  PROVE  Rank[a] < Rank[b]
  <1>1. CASE <<a, b>> \in Successor
    BY <1>1 DEF Successor, Rank
  <1>2. CASE a \in Steps \ Terminal /\ b = "FAILED"
    BY <1>2 DEF Steps, Terminal, AckSteps, AsnSteps, InvoiceSteps, Rank
  <1> QED
    BY <1>1, <1>2 DEF WorkerTransition, IsValidTransition

(* A COMMIT other than a confirmation's leaves a saga or moves it up. *)
LEMMA CommitGoesUp ==
  ASSUME IInv, NEW r \in Requests, Commit(r), NEW o \in OrderIds,
         sagas[o] \in Steps, sagas'[o] # sagas[o], ~(CommitConfirm(r) /\ Target(r) = o)
  PROVE  Rank[sagas[o]] < Rank[sagas'[o]]
  <1>1. Target(r) = o /\ pc[r] = "commit"
    BY CommitEffect
  <1>2. ~CommitCreate(r)
    <2>1. orders[o] # Absent
      BY DEF IInv, SagaPerOrder, Steps, AckSteps, AsnSteps, InvoiceSteps, Absent
    <2> QED
      BY <1>1, <2>1 DEF CommitCreate, Committing, IInv, CreateFresh, Live
  <1>3. CASE CommitShip(r)
    <2>1. sagaLock[o] = r /\ sagas'[o] = "SHIP_READY" /\ call[r].op = "ship"
      BY <1>1, <1>3 DEF CommitShip, Committing, SetStep, IInv, TypeOK
    <2>2. sagas[o] \in {"PO_CONFIRMED", "ACK_DELIVERED"}
      BY <2>1, NoRequestAssumption DEF IInv, StepHeld, Awaits
    <2> QED
      BY <2>1, <2>2 DEF Rank
  <1>4. CASE CommitInvoice(r)
    <2>1. sagaLock[o] = r /\ sagas'[o] = "INVOICE_READY" /\ call[r].op = "invoice"
      BY <1>1, <1>4 DEF CommitInvoice, Committing, SetStep, IInv, TypeOK
    <2>2. sagas[o] \in {"ASN_DELIVERED", "SHIP_READY"}
      BY <2>1, NoRequestAssumption DEF IInv, StepHeld, Awaits
    <2> QED
      BY <2>1, <2>2 DEF Rank
  <1> QED
    BY <1>1, <1>2, <1>3, <1>4 DEF Commit, CommitUpdate, CommitRevert

(* Only a confirmation moves a saga back, for any number of orders and       *)
(* requests: shipments and invoices act on the step they tested.             *)
THEOREM SagaForwardHolds == Spec => SagaForward
  <1> DEFINE Up == \A o \in OrderIds :
                     sagas[o] \in Steps /\ sagas'[o] # sagas[o]
                       => \/ Rank[sagas[o]] < Rank[sagas'[o]]
                          \/ \E r \in Requests : CommitConfirm(r) /\ Target(r) = o
  <1>1. IInv /\ [Next]_vars => [Up]_vars
    <2> SUFFICES ASSUME IInv, [Next]_vars, NEW o \in OrderIds,
                        sagas[o] \in Steps, sagas'[o] # sagas[o]
                 PROVE  \/ Rank[sagas[o]] < Rank[sagas'[o]]
                        \/ \E r \in Requests : CommitConfirm(r) /\ Target(r) = o
      OBVIOUS
    <2>1. CASE UNCHANGED rows
      BY <2>1 DEF rows
    <2>2. ASSUME NEW r \in Requests, Commit(r)
          PROVE  \/ Rank[sagas[o]] < Rank[sagas'[o]]
                 \/ CommitConfirm(r) /\ Target(r) = o
      BY <2>2, CommitGoesUp
    <2>3. ASSUME NEW w \in OrderIds, Work(w)
          PROVE  Rank[sagas[o]] < Rank[sagas'[o]]
      <3>1. PICK step \in Steps : /\ WorkerTransition(sagas[w], step)
                                  /\ sagas' = [sagas EXCEPT ![w] = step]
        BY <2>3 DEF Work
      <3>2. w = o /\ sagas'[o] = step
        BY <3>1 DEF IInv, TypeOK
      <3> QED
        BY <3>1, <3>2, WorkerGoesUp
    <2> QED
      BY <2>1, <2>2, <2>3, RowsStep
  <1> QED
    BY <1>1, Inductive, PTL DEF Spec, SagaForward

-----------------------------------------------------------------------------
(***************************************************************************)
(* LInv: the audit log and the events say what happened.                   *)
(***************************************************************************)
(* The audit log only grows. *)
LEMMA AuditAppended ==
  ASSUME TypeOK, NEW r \in Requests, NEW action, NEW old, NEW new,
         Audit(r, action, old, new), NEW n, n = Len(audit) + 1
  PROVE  /\ n \in Nat \ {0} /\ DOMAIN audit = 1 .. n - 1 /\ DOMAIN audit' = 1 .. n
         /\ \A i \in DOMAIN audit : audit'[i] = audit[i]
         /\ audit'[n] = [action |-> action, order |-> Target(r), by |-> r,
                         old |-> old, new |-> new, from |-> from[r]]
  <1> DEFINE row == [action |-> action, order |-> Target(r), by |-> r,
                     old |-> old, new |-> new, from |-> from[r]]
  <1>1. audit \in Seq(AuditRows) /\ audit' = Append(audit, row)
    BY DEF TypeOK, Audit
  <1> HIDE DEF row
  <1>2. Len(audit) \in Nat /\ DOMAIN audit = 1 .. Len(audit)
    BY <1>1
  <1>3. /\ DOMAIN audit' = 1 .. Len(audit) + 1
        /\ \A i \in 1 .. Len(audit) : audit'[i] = audit[i]
        /\ audit'[Len(audit) + 1] = row
    BY <1>1, <1>2
  <1> QED
    BY <1>2, <1>3 DEF row

(* What a COMMIT appends, and the status that it sets. *)
LEMMA CommitRow ==
  ASSUME IInv, RestoresEarlier, NEW r \in Requests, Commit(r), NEW n, n = Len(audit) + 1
  PROVE  /\ n \in Nat \ {0} /\ DOMAIN audit = 1 .. n - 1 /\ DOMAIN audit' = 1 .. n
         /\ \A i \in DOMAIN audit : audit'[i] = audit[i] /\ StatusAfter(i)' = StatusAfter(i)
         /\ audit'[n].order = Target(r) /\ audit'[n].by = r
         /\ audit'[n].old \in {Absent, seen[r]}
         /\ audit'[n].action = "REVERT" => /\ call[r].op = "revert"
                                           /\ audit'[n].from = from[r]
         /\ StatusAfter(n)' \in Statuses \cup {Absent}
         /\ call[r].op = "create" => StatusAfter(n)' = "DRAFT"
         /\ call[r].op = "confirm" => StatusAfter(n)' = "CONFIRMED"
         /\ call[r].op = "update" => StatusAfter(n)' \in Statuses
         /\ call[r].op \in {"ship", "invoice"} => StatusAfter(n)' = Absent
         /\ call[r].op = "revert" => StatusAfter(n)' = audit[from[r]].old
         /\ IF StatusAfter(n)' = Absent THEN orders' = orders
                                         ELSE SetStatus(r, StatusAfter(n)')
  <1>0. pc[r] = "commit" /\ Live(r) /\ Target(r) \in OrderIds
    BY CommitEffect DEF Live
  <1> DEFINE Grown == /\ n \in Nat \ {0} /\ DOMAIN audit = 1 .. n - 1 /\ DOMAIN audit' = 1 .. n
                      /\ \A i \in DOMAIN audit : audit'[i] = audit[i]
             Row(action, old, new) ==
               audit'[n] = [action |-> action, order |-> Target(r), by |-> r,
                            old |-> old, new |-> new, from |-> from[r]]
  <1>1. ASSUME Grown
        PROVE  \A i \in DOMAIN audit : StatusAfter(i)' = StatusAfter(i)
    <2> SUFFICES ASSUME NEW i \in DOMAIN audit
                 PROVE  StatusAfter(i)' = StatusAfter(i)
      OBVIOUS
    <2>1. audit'[i] = audit[i]
      BY <1>1
    <2>2. CASE audit[i].action = "REVERT"
      <3>1. audit[i].from \in DOMAIN audit
        BY <1>1, <2>2 DEF RestoresEarlier
      <3>2. audit'[audit[i].from] = audit[audit[i].from]
        BY <1>1, <3>1
      <3> QED
        BY <2>1, <2>2, <3>2 DEF StatusAfter
    <2> QED
      BY <2>1, <2>2 DEF StatusAfter
  <1>2. ASSUME NEW action, NEW old, NEW new, Row(action, old, new), action # "REVERT"
        PROVE  StatusAfter(n)' = new
    BY <1>2 DEF StatusAfter
  <1>3. CASE CommitCreate(r)
    <2>1. Audit(r, "CREATE", Absent, "DRAFT") /\ SetStatus(r, "DRAFT") /\ call[r].op = "create"
      BY <1>3 DEF CommitCreate, Committing
    <2>2. Grown /\ Row("CREATE", Absent, "DRAFT")
      BY <2>1, AuditAppended DEF IInv
    <2>3. StatusAfter(n)' = "DRAFT"
      BY <1>2, <2>2
    <2>4. "DRAFT" \in Statuses /\ Absent # "DRAFT"
      BY DEF Statuses, Absent
    <2> QED
      BY <1>1, <2>1, <2>2, <2>3, <2>4
  <1>4. CASE CommitConfirm(r)
    <2>1. Audit(r, "CONFIRM", seen[r], "CONFIRMED") /\ SetStatus(r, "CONFIRMED")
          /\ call[r].op = "confirm"
      BY <1>4 DEF CommitConfirm, Committing
    <2>2. Grown /\ Row("CONFIRM", seen[r], "CONFIRMED")
      BY <2>1, AuditAppended DEF IInv
    <2>3. StatusAfter(n)' = "CONFIRMED"
      BY <1>2, <2>2
    <2>4. "CONFIRMED" \in Statuses /\ Absent # "CONFIRMED"
      BY DEF Statuses, Absent
    <2> QED
      BY <1>1, <2>1, <2>2, <2>3, <2>4
  <1>5. CASE CommitUpdate(r)
    <2> DEFINE status == IF call[r].arg = "keep" THEN orders[Target(r)] ELSE call[r].arg
    <2>1. Audit(r, "UPDATE", seen[r], status) /\ SetStatus(r, status) /\ call[r].op = "update"
      BY <1>5 DEF CommitUpdate, Committing
    <2>2. status \in Statuses
      <3>1. orders[Target(r)] \in Statuses
        BY <1>0, <2>1 DEF IInv, TypeOK, OrderFound
      <3>2. call[r].arg # "keep" => call[r].arg \in Statuses
        BY <1>0, <2>1, LiveCall, NewStatusesAssumption DEF IInv, PhaseOK, Args
      <3> QED
        BY <3>1, <3>2
    <2> HIDE DEF status
    <2>3. Grown /\ Row("UPDATE", seen[r], status)
      BY <2>1, AuditAppended DEF IInv
    <2>4. StatusAfter(n)' = status
      BY <1>2, <2>3
    <2>5. Absent \notin Statuses
      BY DEF Statuses, Absent
    <2> QED
      BY <1>1, <2>1, <2>2, <2>3, <2>4, <2>5
  <1>6. CASE CommitShip(r) \/ CommitInvoice(r)
    <2>1. PICK action \in {"SHIP", "INVOICE"} : Audit(r, action, Absent, Absent)
      BY <1>6 DEF CommitShip, CommitInvoice
    <2>2. orders' = orders /\ call[r].op \in {"ship", "invoice"}
      BY <1>6 DEF CommitShip, CommitInvoice, Committing
    <2>3. Grown /\ Row(action, Absent, Absent)
      BY <2>1, AuditAppended DEF IInv
    <2>4. StatusAfter(n)' = Absent
      BY <1>2, <2>3
    <2> QED
      BY <1>1, <2>1, <2>2, <2>3, <2>4
  <1>7. CASE CommitRevert(r)
    <2>1. Audit(r, "REVERT", Absent, Absent) /\ SetStatus(r, audit[from[r]].old)
          /\ call[r].op = "revert"
      BY <1>7 DEF CommitRevert, Committing
    <2>2. Grown /\ Row("REVERT", Absent, Absent)
      BY <2>1, AuditAppended DEF IInv
    <2>3. from[r] \in DOMAIN audit /\ audit[from[r]].old # Absent
      BY <1>0, <2>1 DEF IInv, PhaseOK
    <2>4. audit[from[r]] \in AuditRows
      BY <2>3 DEF IInv, TypeOK
    <2>5. audit[from[r]].old \in Statuses
      BY <2>3, <2>4 DEF AuditRows
    <2>6. StatusAfter(n)' = audit[from[r]].old
      BY <2>2, <2>3 DEF StatusAfter
    <2> QED
      BY <1>1, <2>1, <2>2, <2>3, <2>5, <2>6
  <1> QED
    BY <1>3, <1>4, <1>5, <1>6, <1>7 DEF Commit

LEMMA AuditRow ==
  ASSUME TypeOK, NEW i \in DOMAIN audit
  PROVE  /\ i \in Nat /\ audit[i].by \in Requests /\ audit[i].order \in OrderIds
         /\ audit[i].old \in Statuses \cup {Absent} /\ audit[i].new \in Statuses \cup {Absent}
         /\ audit[i].from \in Nat
  <1>1. audit[i] \in AuditRows /\ i \in Nat
    BY DEF TypeOK
  <1> QED
    BY <1>1 DEF AuditRows

(* A request that has ended stays ended, and open requests keep their call. *)
LEMMA DoneStays ==
  ASSUME IInv, [Next]_vars, NEW q \in Requests, pc[q] = "done"
  PROVE  pc'[q] = "done"
  <1>1. ASSUME NEW r \in Requests, Live(r), Finish(r)
        PROVE  pc'[q] = "done"
    BY <1>1, FinishEffect DEF IInv
  <1>2. ASSUME NEW r \in Requests, pc[r] # "done", NEW phase, Goto(r, phase)
        PROVE  pc'[q] = "done"
    BY <1>2 DEF Goto, IInv, TypeOK
  <1>3. ASSUME NEW r \in Requests, Advance(r) \/ Rollback(r)
        PROVE  pc'[q] = "done"
    <2>1. Live(r) /\ pc[r] # "done" /\ (Finish(r) \/ \E phase : Goto(r, phase))
      BY <1>3, CommitEffect
      DEF Advance, AnalyzeImpact, FindOrder, FindAudit, UpdateOrderRow, UpdateSagaRow, Rollback,
          Live
    <2> QED
      BY <1>1, <1>2, <2>1
  <1>4. ASSUME NEW r \in Requests, NEW op, NEW o, NEW arg, Begin(r, op, o, arg)
        PROVE  pc'[q] = "done"
    <2>1. pc[r] # "done" /\ Goto(r, FirstPhase(op, arg))
      BY <1>4 DEF Begin
    <2> QED
      BY <1>2, <2>1
  <1>5. ASSUME NEW o \in OrderIds, Work(o)
        PROVE  pc'[q] = "done"
    BY <1>5 DEF Work
  <1>6. CASE UNCHANGED vars
    BY <1>6 DEF vars
  <1> QED
    BY <1>3, <1>4, <1>5, <1>6 DEF Next

(* A status that the order had, it had. *)
LEMMA HadStays ==
  ASSUME IInv, RestoresEarlier, [Next]_vars, NEW o, NEW s, Had(o, s)
  PROVE  Had(o, s)'
  <1>1. CASE audit' = audit
    BY <1>1 DEF Had, StatusRows, StatusAfter
  <1>2. ASSUME NEW r \in Requests, Commit(r)
        PROVE  Had(o, s)'
    <2>1. PICK i \in StatusRows(o) : StatusAfter(i) = s
      BY DEF Had
    <2>2. i \in DOMAIN audit /\ audit[i].order = o /\ s # Absent
      BY <2>1 DEF StatusRows
    <2>3. PICK n : n = Len(audit) + 1
      OBVIOUS
    <2>4. i \in DOMAIN audit' /\ audit'[i] = audit[i] /\ StatusAfter(i)' = StatusAfter(i)
      BY <1>2, <2>2, <2>3, CommitRow
    <2>5. i \in StatusRows(o)'
      BY <2>1, <2>2, <2>4 DEF StatusRows
    <2> QED
      BY <2>1, <2>4, <2>5 DEF Had
  <1>3. CASE \E w \in OrderIds : Work(w)
    BY <1>1, <1>3 DEF Work
  <1> QED
    BY <1>1, <1>2, <1>3, RowsStep DEF rows

LEMMA AuditOnceStep ==
  ASSUME IInv, LInv, [Next]_vars
  PROVE  AuditOnce'
  <1>1. CASE audit' = audit
    <2>1. \A i \in DOMAIN audit : audit[i].by \in Requests
      BY AuditRow DEF IInv
    <2> QED
      BY <1>1, <2>1, DoneStays DEF LInv, AuditOnce
  <1>2. ASSUME NEW r \in Requests, Commit(r)
        PROVE  AuditOnce'
    <2> SUFFICES ASSUME NEW i \in DOMAIN audit'
                 PROVE  pc'[audit'[i].by] = "done"
      BY DEF AuditOnce
    <2>1. PICK n : n = Len(audit) + 1
      OBVIOUS
    <2>2. /\ DOMAIN audit = 1 .. n - 1 /\ DOMAIN audit' = 1 .. n /\ n \in Nat
          /\ \A j \in DOMAIN audit : audit'[j] = audit[j]
          /\ audit'[n].by = r
      BY <1>2, <2>1, CommitRow DEF LInv
    <2>3. CASE i = n
      BY <1>2, <2>2, <2>3, CommitEffect, FinishEffect DEF IInv
    <2>4. CASE i \in DOMAIN audit
      <3>1. audit[i].by \in Requests
        BY <2>4, AuditRow DEF IInv
      <3>2. pc[audit[i].by] = "done"
        BY <2>4 DEF LInv, AuditOnce
      <3>3. pc'[audit[i].by] = "done"
        BY <3>1, <3>2, DoneStays
      <3> QED
        BY <2>2, <2>4, <3>3
    <2> QED
      BY <2>2, <2>3, <2>4
  <1>3. CASE \E w \in OrderIds : Work(w)
    BY <1>1, <1>3 DEF Work
  <1> QED
    BY <1>1, <1>2, <1>3, RowsStep DEF rows

(* What a step can do to the variables of one request q. *)
LEMMA RequestStep ==
  ASSUME IInv, [Next]_vars, NEW q \in Requests
  PROVE  \/ /\ pc'[q] = pc[q] /\ call'[q] = call[q]
            /\ seen'[q] = seen[q] /\ from'[q] = from[q]
         \/ pc'[q] = "done" /\ seen'[q] = Absent
         \/ /\ pc[q] = "idle" /\ seen'[q] = seen[q]
            /\ pc'[q] \in {"order", "commit"} => call'[q].op # "revert"
         \/ /\ Live(q) /\ Live(q)' /\ call'[q] = call[q]
            /\ \/ seen'[q] = seen[q]
               \/ seen'[q] = orders[Target(q)] /\ seen'[q] # Absent
            /\ pc'[q] \in {"order", "commit"} /\ call[q].op = "revert"
                 => \/ pc[q] = "order" /\ from'[q] = from[q]
                    \/ from'[q] \in Restorable(Target(q))
  <1> DEFINE Same == /\ pc'[q] = pc[q] /\ call'[q] = call[q]
                     /\ seen'[q] = seen[q] /\ from'[q] = from[q]
             Opened == /\ pc[q] = "idle" /\ seen'[q] = seen[q]
                       /\ pc'[q] \in {"order", "commit"} => call'[q].op # "revert"
             Moved == /\ Live(q) /\ Live(q)' /\ call'[q] = call[q]
                      /\ \/ seen'[q] = seen[q]
                         \/ seen'[q] = orders[Target(q)] /\ seen'[q] # Absent
                      /\ pc'[q] \in {"order", "commit"} /\ call[q].op = "revert"
                           => \/ pc[q] = "order" /\ from'[q] = from[q]
                              \/ from'[q] \in Restorable(Target(q))
  <1>1. DOMAIN pc = Requests /\ DOMAIN call = Requests /\ DOMAIN seen = Requests
        /\ DOMAIN from = Requests
    BY DEF IInv, TypeOK
  <1>2. ASSUME NEW r \in Requests, Finish(r)
        PROVE  Same \/ (pc'[q] = "done" /\ seen'[q] = Absent)
    BY <1>2, FinishEffect DEF IInv
  <1>3. ASSUME NEW r \in Requests, Commit(r) \/ Rollback(r)
        PROVE  Finish(r)
    BY <1>3, CommitEffect DEF Rollback
  <1>4. ASSUME NEW r \in Requests, NEW op \in Operations, NEW o \in OrderIds,
               NEW arg \in Args(op), Begin(r, op, o, arg)
        PROVE  Same \/ Opened
    <2>1. CASE r = q
      BY <1>1, <1>4, <2>1 DEF Begin, Goto, FirstPhase
    <2>2. CASE r # q
      BY <1>1, <1>4, <2>2 DEF Begin, Goto
    <2> QED
      BY <2>1, <2>2
  <1>5. ASSUME NEW r \in Requests \ {q}, Advance(r), ~Finish(r)
        PROVE  Same
    BY <1>1, <1>3, <1>5
    DEF Advance, AnalyzeImpact, FindOrder, FindAudit, UpdateOrderRow, UpdateSagaRow, Goto
  <1>6. ASSUME AnalyzeImpact(q), ~Finish(q)
        PROVE  Moved
    BY <1>1, <1>6 DEF AnalyzeImpact, Goto, Live
  <1>7. ASSUME FindOrder(q), ~Finish(q)
        PROVE  Moved
    BY <1>1, <1>7 DEF FindOrder, Refused, Goto, Live
  <1>8. ASSUME FindAudit(q), ~Finish(q)
        PROVE  Moved
    BY <1>1, <1>8 DEF FindAudit, Goto, Live
  <1>9. ASSUME UpdateOrderRow(q)
        PROVE  Moved
    BY <1>1, <1>9 DEF UpdateOrderRow, Goto, Live
  <1>10. ASSUME UpdateSagaRow(q)
         PROVE  Moved
    <2>1. UNCHANGED <<call, seen, from>> /\ pc[q] = "saga" /\ Goto(q, "commit")
      BY <1>10 DEF UpdateSagaRow
    <2>2. call[q].op # "revert"
      BY <2>1 DEF IInv, PhaseOK
    <2> QED
      BY <1>1, <2>1, <2>2 DEF Goto, Live
  <1>11. CASE UNCHANGED vars \/ \E o \in OrderIds : Work(o)
    BY <1>11 DEF vars, Work
  <1>12. ASSUME NEW r \in Requests, Advance(r) \/ Rollback(r)
         PROVE  Same \/ (pc'[q] = "done" /\ seen'[q] = Absent) \/ Moved
    <2>1. CASE Finish(r)
      BY <1>2, <2>1
    <2>2. CASE ~Finish(r)
      <3>1. Advance(r) /\ ~Commit(r)
        BY <1>3, <1>12, <2>2
      <3>2. CASE r = q
        BY <1>6, <1>7, <1>8, <1>9, <1>10, <2>2, <3>1, <3>2 DEF Advance
      <3>3. CASE r # q
        BY <1>5, <2>2, <3>1, <3>3
      <3> QED
        BY <3>2, <3>3
    <2> QED
      BY <2>1, <2>2
  <1> QED
    BY <1>4, <1>11, <1>12 DEF Next

LEMMA RestoresEarlierStep ==
  ASSUME IInv, LInv, [Next]_vars
  PROVE  RestoresEarlier'
  <1>1. \A i \in DOMAIN audit : i \in DOMAIN audit' /\ audit'[i] = audit[i]
    <2>1. CASE audit' = audit
      BY <2>1
    <2>2. ASSUME NEW r \in Requests, Commit(r)
          PROVE  \A i \in DOMAIN audit : i \in DOMAIN audit' /\ audit'[i] = audit[i]
      BY <2>2, CommitEffect
    <2> QED
      BY <2>1, <2>2, RowsStep DEF rows, Work
  <1>2. ASSUME NEW q \in Requests, pc'[q] \in {"order", "commit"}, call'[q].op = "revert"
        PROVE  audit'[from'[q]].order = call'[q].order
    <2>1. ASSUME NEW i \in DOMAIN audit, audit[i].order = Target(q), i = from'[q],
                 call'[q] = call[q]
          PROVE  audit'[from'[q]].order = call'[q].order
      BY <1>1, <2>1 DEF Target
    <2>2. CASE from'[q] = from[q] /\ call'[q] = call[q] /\ pc[q] \in {"order", "commit"}
      <3>1. from[q] \in DOMAIN audit
        BY <1>2, <2>2 DEF IInv, PhaseOK
      <3>2. audit[from[q]].order = Target(q)
        BY <1>2, <2>2 DEF LInv, RestoresEarlier
      <3> QED
        BY <2>1, <2>2, <3>1, <3>2
    <2>3. CASE from'[q] \in Restorable(Target(q)) /\ call'[q] = call[q]
      BY <2>1, <2>3 DEF Restorable
    <2> QED
      BY <1>2, <2>2, <2>3, RequestStep
  <1>3. ASSUME NEW i \in DOMAIN audit', audit'[i].action = "REVERT"
        PROVE  /\ audit'[i].from \in 1 .. i - 1
               /\ audit'[audit'[i].from].order = audit'[i].order
               /\ audit'[audit'[i].from].old # Absent
    <2>1. CASE i \in DOMAIN audit
      <3>1. /\ audit[i].from \in 1 .. i - 1
            /\ audit[audit[i].from].order = audit[i].order
            /\ audit[audit[i].from].old # Absent
        BY <1>1, <1>3, <2>1 DEF LInv, RestoresEarlier
      <3>2. audit[i].from \in DOMAIN audit
        BY <2>1, <3>1 DEF IInv, TypeOK
      <3> QED
        BY <1>1, <2>1, <3>1, <3>2
    <2>2. CASE i \notin DOMAIN audit
      <3>1. PICK r \in Requests : Commit(r)
        BY <2>2, RowsStep DEF rows, Work
      <3>2. PICK n : n = Len(audit) + 1
        OBVIOUS
      <3>3. /\ n \in Nat /\ DOMAIN audit = 1 .. n - 1 /\ DOMAIN audit' = 1 .. n
            /\ audit'[n].order = Target(r)
            /\ audit'[n].action = "REVERT" => call[r].op = "revert" /\ audit'[n].from = from[r]
        BY <3>1, <3>2, CommitRow DEF LInv
      <3>4. i = n
        BY <2>2, <3>3
      <3>5. from[r] \in 1 .. n - 1 /\ audit[from[r]].old # Absent
        BY <1>3, <3>1, <3>3, <3>4, CommitEffect DEF IInv, PhaseOK
      <3>6. audit[from[r]].order = Target(r)
        BY <1>3, <3>1, <3>3, <3>4, CommitEffect DEF LInv, RestoresEarlier
      <3> QED
        BY <1>1, <1>3, <3>3, <3>4, <3>5, <3>6
    <2> QED
      BY <2>1, <2>2
  <1> QED
    BY <1>2, <1>3 DEF RestoresEarlier, Target

LEMMA OldWasHadStep ==
  ASSUME IInv, LInv, [Next]_vars
  PROVE  OldWasHad'
  <1>0. RestoresEarlier /\ OldWasHad /\ AuditReplays
    BY DEF LInv
  <1>1. ASSUME NEW q \in Requests, seen'[q] # Absent
        PROVE  Live(q)' /\ Had(Target(q), seen[q])'
    <2>1. ASSUME Live(q), seen'[q] = orders[Target(q)]
          PROVE  Had(Target(q), seen'[q])
      <3>1. Target(q) \in OrderIds
        BY <2>1, LiveCall DEF IInv
      <3>2. PICK i \in StatusRows(Target(q)) : orders[Target(q)] = StatusAfter(i)
        BY <1>0, <1>1, <2>1, <3>1 DEF AuditReplays
      <3> QED
        BY <2>1, <3>2 DEF Had
    <2>2. seen[q] # Absent => Live(q) /\ Had(Target(q), seen[q])
      BY <1>0 DEF OldWasHad
    <2>3. Live(q) /\ Live(q)' /\ call'[q] = call[q] /\ Had(Target(q), seen'[q])
      BY <1>1, <2>1, <2>2, RequestStep DEF Live
    <2>4. PICK s, o : s = seen'[q] /\ o = Target(q)
      OBVIOUS
    <2>5. Had(o, s)'
      BY <1>0, <2>3, <2>4, HadStays
    <2> QED
      BY <2>3, <2>4, <2>5 DEF Had, StatusRows, Target
  <1>2. ASSUME NEW i \in DOMAIN audit', audit'[i].old # Absent
        PROVE  Had(audit[i].order, audit[i].old)'
    <2>1. PICK s, o : s = audit'[i].old /\ o = audit'[i].order
      OBVIOUS
    <2>2. Had(o, s)
      <3>1. CASE i \in DOMAIN audit /\ audit'[i] = audit[i]
        BY <1>0, <1>2, <2>1, <3>1 DEF OldWasHad
      <3>2. ASSUME NEW r \in Requests, Commit(r), i \notin DOMAIN audit
            PROVE  Had(o, s)
        <4>1. PICK n : n = Len(audit) + 1
          OBVIOUS
        <4>2. i = n /\ audit'[i].order = Target(r) /\ audit'[i].old \in {Absent, seen[r]}
          BY <1>0, <3>2, <4>1, CommitRow
        <4> QED
          BY <1>0, <1>2, <2>1, <4>2 DEF OldWasHad
      <3>3. CASE audit' = audit
        BY <3>1, <3>3
      <3> QED
        BY <3>1, <3>2, <3>3, RowsStep, CommitEffect DEF rows, Work
    <2>3. Had(o, s)'
      BY <1>0, <2>2, HadStays
    <2> QED
      BY <2>1, <2>3 DEF Had, StatusRows
  <1> QED
    BY <1>1, <1>2 DEF OldWasHad, Target

LEMMA ConfirmHoldsSagaStep ==
  ASSUME IInv, LInv, [Next]_vars
  PROVE  ConfirmHoldsSaga'
  <1> SUFFICES ASSUME NEW q \in Requests, pc'[q] = "commit", call'[q].op = "confirm"
               PROVE  sagaLock'[call'[q].order] = q
    BY DEF ConfirmHoldsSaga, Target
  <1>1. ASSUME UpdateSagaRow(q)
        PROVE  sagaLock'[call'[q].order] = q
    <2>1. pc[q] = "saga" /\ call'[q] = call[q] /\ Target(q) \in OrderIds
      BY <1>1, LiveCall DEF UpdateSagaRow, Live, IInv
    <2>2. sagas[Target(q)] \in Awaits(call[q].op)
      <3>1. orders[Target(q)] # Absent
        BY <2>1 DEF IInv, OrderFound
      <3>2. sagas[Target(q)] \in Steps
        BY <2>1, <3>1 DEF IInv, TypeOK, SagaPerOrder
      <3> QED
        BY <2>1, <3>2 DEF Awaits
    <2>3. sagaLock' = [sagaLock EXCEPT ![Target(q)] = q]
      BY <1>1, <2>2 DEF UpdateSagaRow
    <2>4. DOMAIN sagaLock = OrderIds
      BY DEF IInv, TypeOK
    <2> QED
      BY <2>1, <2>3, <2>4 DEF Target
  <1>2. CASE pc[q] = "commit" /\ call'[q] = call[q]
    <2>1. sagaLock[Target(q)] = q /\ Target(q) \in OrderIds
      BY <1>2, LiveCall DEF LInv, ConfirmHoldsSaga, IInv, Live
    <2>2. ASSUME NEW r \in Requests, Finish(r)
          PROVE  sagaLock'[Target(q)] = q
      <3>1. r # q
        BY <2>2, FinishEffect DEF IInv
      <3> QED
        BY <2>1, <2>2, <3>1, FinishEffect DEF IInv
    <2>3. ASSUME NEW r \in Requests, UpdateSagaRow(r)
          PROVE  sagaLock'[Target(q)] = q
      BY <2>1, <2>3, NoRequestAssumption DEF UpdateSagaRow, IInv, TypeOK
    <2>4. \/ sagaLock' = sagaLock
          \/ \E r \in Requests : Finish(r) \/ UpdateSagaRow(r)
      BY CommitEffect DEF Next, Advance, Begin, AnalyzeImpact, FindOrder, FindAudit,
         UpdateOrderRow, Rollback, Work, vars, locks
    <2> QED
      BY <1>2, <2>1, <2>2, <2>3, <2>4 DEF Target
  <1>3. UpdateSagaRow(q) \/ (pc[q] = "commit" /\ call'[q] = call[q])
    <2>1. DOMAIN pc = Requests /\ DOMAIN call = Requests
      BY DEF IInv, TypeOK
    <2>2. ASSUME NEW r \in Requests, Finish(r)
          PROVE  pc[q] = "commit" /\ call'[q] = call[q]
      BY <2>2, FinishEffect DEF IInv
    <2>3. ASSUME NEW r \in Requests, NEW op, NEW o, NEW arg, Begin(r, op, o, arg)
          PROVE  pc[q] = "commit" /\ call'[q] = call[q]
      BY <2>1, <2>3 DEF Begin, Goto, FirstPhase
    <2>4. ASSUME NEW r \in Requests, Advance(r), ~Finish(r), ~(r = q /\ UpdateSagaRow(q))
          PROVE  pc[q] = "commit" /\ call'[q] = call[q]
      <3>1. UNCHANGED call /\ \E phase : Goto(r, phase)
        BY <2>4, CommitEffect DEF Advance, AnalyzeImpact, FindOrder, FindAudit, UpdateOrderRow,
                                  UpdateSagaRow
      <3>2. CASE r # q
        BY <2>1, <3>1, <3>2 DEF Goto
      <3>3. CASE r = q
        BY <2>1, <2>4, <3>1, <3>3, CommitEffect
        DEF Advance, AnalyzeImpact, FindOrder, FindAudit, UpdateOrderRow, Goto
      <3> QED
        BY <3>2, <3>3
    <2>5. CASE UNCHANGED vars \/ \E o \in OrderIds : Work(o)
      BY <2>5 DEF vars, Work
    <2> QED
      BY <2>2, <2>3, <2>4, <2>5 DEF Next, Rollback
  <1> QED
    BY <1>1, <1>2, <1>3

LEMMA AuditReplaysStep ==
  ASSUME IInv, LInv, [Next]_vars
  PROVE  AuditReplays'
  <1>0. RestoresEarlier /\ AuditReplays
    BY DEF LInv
  <1>1. CASE UNCHANGED <<orders, audit>>
    BY <1>0, <1>1 DEF AuditReplays, StatusRows, StatusAfter
  <1>2. ASSUME NEW r \in Requests, Commit(r)
        PROVE  AuditReplays'
    <2> SUFFICES ASSUME NEW o \in OrderIds
                 PROVE  IF StatusRows(o)' = {} THEN orders'[o] = Absent
                        ELSE \E i \in StatusRows(o)' :
                               /\ \A j \in StatusRows(o)' : j <= i
                               /\ orders'[o] = StatusAfter(i)'
      BY DEF AuditReplays
    <2>1. PICK n : n = Len(audit) + 1
      OBVIOUS
    <2>2. /\ n \in Nat \ {0} /\ DOMAIN audit = 1 .. n - 1 /\ DOMAIN audit' = 1 .. n
          /\ \A i \in DOMAIN audit : audit'[i] = audit[i] /\ StatusAfter(i)' = StatusAfter(i)
          /\ audit'[n].order = Target(r)
          /\ IF StatusAfter(n)' = Absent THEN orders' = orders ELSE SetStatus(r, StatusAfter(n)')
      BY <1>0, <1>2, <2>1, CommitRow
    <2>3. CASE o = Target(r) /\ StatusAfter(n)' # Absent
      <3>1. n \in StatusRows(o)' /\ \A j \in StatusRows(o)' : j <= n
        BY <2>2, <2>3 DEF StatusRows
      <3>2. orders'[o] = StatusAfter(n)'
        BY <2>2, <2>3 DEF SetStatus, IInv, TypeOK
      <3> QED
        BY <3>1, <3>2
    <2>4. CASE o # Target(r) \/ StatusAfter(n)' = Absent
      <3>1. StatusRows(o)' = StatusRows(o)
        BY <2>2, <2>4 DEF StatusRows
      <3>2. orders'[o] = orders[o]
        BY <2>2, <2>4 DEF SetStatus, IInv, TypeOK
      <3>3. \A i \in StatusRows(o) : StatusAfter(i)' = StatusAfter(i)
        BY <2>2 DEF StatusRows
      <3> QED
        BY <1>0, <3>1, <3>2, <3>3 DEF AuditReplays
    <2> QED
      BY <2>3, <2>4
  <1> QED
    BY <1>1, <1>2, RowsStep DEF rows, Work

(* An order that exists stays. *)
LEMMA OrderStays ==
  ASSUME IInv, [Next]_vars, NEW o \in OrderIds, orders[o] # Absent
  PROVE  orders'[o] # Absent
  BY RowsStep, CommitEffect DEF rows, Work

(* The events of one type, when a COMMIT emits one. *)
LEMMA EventsOfEmitted ==
  ASSUME NEW r, NEW type, Emit(r, type)
  PROVE  /\ EventsOf(type)' = EventsOf(type) \cup { [order |-> Target(r), by |-> r] }
         /\ \A other : other # type => EventsOf(other)' = EventsOf(other)
  <1> DEFINE e == [type |-> type, order |-> Target(r), by |-> r]
  <1>1. outbox' = outbox \cup {e}
    BY DEF Emit
  <1>2. e.type = type /\ [order |-> e.order, by |-> e.by] = [order |-> Target(r), by |-> r]
    OBVIOUS
  <1> HIDE DEF e
  <1> QED
    BY <1>1, <1>2 DEF EventsOf

LEMMA OutboxCompleteStep ==
  ASSUME IInv, LInv, [Next]_vars
  PROVE  OutboxComplete'
  <1> DEFINE Inbound(e) == e.type = "INBOUND_PO_RECEIVED"
  <1>0. OutboxComplete
    BY DEF LInv
  <1>1. \A o \in OrderIds : orders'[o] # Absent <=> sagas'[o] # Absent
    BY SagaPerOrderStep DEF SagaPerOrder
  <1>2. CASE UNCHANGED <<orders, outbox, shipments, invoices>>
    <2>1. EventsOf("SHIPMENT_CREATED")' = EventsOf("SHIPMENT_CREATED")
          /\ EventsOf("INVOICE_CREATED")' = EventsOf("INVOICE_CREATED")
      BY <1>2 DEF EventsOf
    <2> QED
      BY <1>0, <1>1, <1>2, <2>1 DEF OutboxComplete, HasEvent
  <1>3. ASSUME NEW r \in Requests, Commit(r)
        PROVE  OutboxComplete'
    <2> DEFINE t == Target(r)
    <2>1. t \in OrderIds /\ orders'[t] # Absent
          /\ \A o \in OrderIds \ {t} : orders'[o] = orders[o]
      BY <1>3, CommitEffect
    <2>2. CommitCreate(r) => orders[t] = Absent
      BY DEF CommitCreate, Committing, IInv, CreateFresh, Live
    <2>3. ~CommitCreate(r) => orders[t] # Absent
      BY <1>3 DEF Commit, CommitConfirm, CommitUpdate, CommitShip, CommitInvoice, CommitRevert,
                  Committing, IInv, OrderFound
    <2>4. EventsOf("SHIPMENT_CREATED")' = shipments' /\ EventsOf("INVOICE_CREATED")' = invoices'
      <3>1. CASE CommitCreate(r)
        BY <1>0, <3>1, EventsOfEmitted DEF CommitCreate, OutboxComplete
      <3>2. CASE CommitConfirm(r)
        BY <1>0, <3>2, EventsOfEmitted DEF CommitConfirm, OutboxComplete
      <3>3. CASE CommitShip(r)
        BY <1>0, <3>3, EventsOfEmitted DEF CommitShip, OutboxComplete
      <3>4. CASE CommitInvoice(r)
        BY <1>0, <3>4, EventsOfEmitted DEF CommitInvoice, OutboxComplete
      <3>5. CASE CommitUpdate(r) \/ CommitRevert(r)
        BY <1>0, <3>5 DEF CommitUpdate, CommitRevert, OutboxComplete, EventsOf
      <3> QED
        BY <1>3, <3>1, <3>2, <3>3, <3>4, <3>5 DEF Commit
    <2>5. \A e \in outbox' : e \in outbox \/ /\ e.order = t /\ e.by = r
                                             /\ Inbound(e) => CommitCreate(r)
      <3>1. ASSUME NEW type, Emit(r, type), type = "INBOUND_PO_RECEIVED" => CommitCreate(r)
            PROVE  \A e \in outbox' : e \in outbox \/ /\ e.order = t /\ e.by = r
                                                      /\ Inbound(e) => CommitCreate(r)
        BY <3>1 DEF Emit
      <3>2. CASE outbox' = outbox
        BY <3>2
      <3> QED
        BY <1>3, <3>1, <3>2 DEF Commit, CommitCreate, CommitConfirm, CommitUpdate, CommitShip,
                                CommitInvoice, CommitRevert
    <2>6. outbox \subseteq outbox'
      BY <1>3 DEF Commit, CommitCreate, CommitConfirm, CommitUpdate, CommitShip, CommitInvoice,
                  CommitRevert, Emit
    <2>7. CommitCreate(r) => \E e \in outbox' : Inbound(e) /\ e.order = t
      <3> DEFINE e == [type |-> "INBOUND_PO_RECEIVED", order |-> t, by |-> r]
      <3>1. CommitCreate(r) => e \in outbox'
        BY DEF CommitCreate, Emit
      <3>2. Inbound(e) /\ e.order = t
        OBVIOUS
      <3> QED
        BY <3>1, <3>2
    <2>8. \A e \in outbox : e.order \in OrderIds /\ orders[e.order] # Absent
      BY <1>0 DEF OutboxComplete, IInv, TypeOK
    <2>9. \A e \in outbox' : orders'[e.order] # Absent
      BY <2>1, <2>5, <2>8
    <2>10. \A e, f \in outbox' :
             e.by = f.by \/ e.order # f.order \/ ~Inbound(e) \/ ~Inbound(f)
      <3>1. \A e, f \in outbox :
              e.by = f.by \/ e.order # f.order \/ ~Inbound(e) \/ ~Inbound(f)
        BY <1>0 DEF OutboxComplete
      <3> QED
        BY <2>2, <2>5, <2>8, <3>1
    <2>11. \A o \in OrderIds :
             orders'[o] # Absent <=> \E e \in outbox' : Inbound(e) /\ e.order = o
      <3>1. \A o \in OrderIds :
              orders[o] # Absent <=> \E e \in outbox : Inbound(e) /\ e.order = o
        BY <1>0 DEF OutboxComplete, HasEvent
      <3> QED
        BY <2>1, <2>3, <2>6, <2>7, <2>9, <3>1
    <2> QED
      BY <1>1, <2>4, <2>9, <2>10, <2>11 DEF OutboxComplete, HasEvent
  <1>4. CASE \E w \in OrderIds : Work(w)
    BY <1>2, <1>4 DEF Work
  <1> QED
    BY <1>2, <1>3, <1>4, RowsStep DEF rows

LEMMA InitLInv == Init => LInv
  <1> SUFFICES ASSUME Init PROVE LInv
    OBVIOUS
  <1>1. audit = <<>> /\ DOMAIN audit = {}
    BY DEF Init
  <1>2. AuditOnce /\ RestoresEarlier /\ OldWasHad /\ ConfirmHoldsSaga
    BY <1>1 DEF Init, AuditOnce, RestoresEarlier, OldWasHad, ConfirmHoldsSaga
  <1>3. AuditReplays
    BY <1>1 DEF Init, AuditReplays, StatusRows
  <1>4. OutboxComplete
    BY DEF Init, OutboxComplete, EventsOf, HasEvent
  <1> QED
    BY <1>2, <1>3, <1>4 DEF LInv

(* Both invariants hold in every instance of OrderService. *)
THEOREM LedgerInvariant == Spec => []Inv
  <1>1. IInv /\ LInv /\ [Next]_vars => LInv'
    BY AuditOnceStep, RestoresEarlierStep, OldWasHadStep, ConfirmHoldsSagaStep, AuditReplaysStep,
       OutboxCompleteStep DEF LInv
  <1> QED
    BY <1>1, InitLInv, Inductive, PTL DEF Spec, Inv

(* Whatever fails and wherever, an order, its saga and its event come        *)
(* together, and every shipment and invoice has exactly one event.           *)
THEOREM OutboxIsComplete == Spec => []OutboxComplete
  <1>1. Inv => OutboxComplete
    BY DEF Inv, LInv
  <1> QED
    BY <1>1, LedgerInvariant, PTL

(* However many requests interleave, the audit log in commit order ends at   *)
(* the status that the order has.                                            *)
THEOREM AuditIsReplayable == Spec => []AuditReplays
  <1>1. Inv => AuditReplays
    BY DEF Inv, LInv
  <1> QED
    BY <1>1, LedgerInvariant, PTL

-----------------------------------------------------------------------------
(***************************************************************************)
(* OrderService implements OrderLedger: every step of a transaction is one *)
(* operation of the ledger or no step of it.                               *)
(***************************************************************************)
(* The trail grows by what the COMMIT did. *)
LEMMA TrailGrows ==
  ASSUME IInv, LInv, NEW r \in Requests, Commit(r), NEW n, n = Len(audit) + 1
  PROVE  /\ trail' = Append(trail, [by |-> r, order |-> Target(r), status |-> StatusAfter(n)'])
         /\ \A i \in DOMAIN trail : trail[i].by # r
  <1> DEFINE e == [by |-> r, order |-> Target(r), status |-> StatusAfter(n)']
             Entry(i) == [by |-> audit[i].by, order |-> audit[i].order,
                          status |-> StatusAfter(i)]
             Entries == [by : Requests, order : OrderIds, status : Statuses \cup {Absent}]
  <1>1. /\ n \in Nat \ {0} /\ DOMAIN audit = 1 .. n - 1 /\ DOMAIN audit' = 1 .. n
        /\ \A i \in DOMAIN audit : audit'[i] = audit[i] /\ StatusAfter(i)' = StatusAfter(i)
        /\ audit'[n].order = Target(r) /\ audit'[n].by = r
        /\ StatusAfter(n)' \in Statuses \cup {Absent}
    BY CommitRow DEF LInv
  <1>2. \A i \in DOMAIN audit : StatusAfter(i) \in Statuses \cup {Absent}
    <2> SUFFICES ASSUME NEW i \in DOMAIN audit
                 PROVE  StatusAfter(i) \in Statuses \cup {Absent}
      OBVIOUS
    <2>1. CASE audit[i].action = "REVERT"
      <3>1. audit[i].from \in DOMAIN audit
        BY <1>1, <2>1 DEF LInv, RestoresEarlier
      <3> QED
        BY <2>1, <3>1, AuditRow DEF StatusAfter, IInv
    <2>2. CASE audit[i].action # "REVERT"
      BY <2>2, AuditRow DEF StatusAfter, IInv
    <2> QED
      BY <2>1, <2>2
  <1>3. Target(r) \in OrderIds /\ pc[r] = "commit"
    BY CommitEffect
  <1>4. trail = [i \in 1 .. n - 1 |-> Entry(i)]
    BY <1>1 DEF trail
  <1>5. \A i \in 1 .. n - 1 : Entry(i) \in Entries
    BY <1>1, <1>2, AuditRow DEF IInv
  <1>6. trail \in Seq(Entries) /\ Len(trail) = n - 1
    BY <1>1, <1>4, <1>5
  <1>7. e \in Entries
    BY <1>1, <1>3
  <1>8. /\ Append(trail, e) \in Seq(Entries) /\ Len(Append(trail, e)) = n
        /\ \A i \in 1 .. n - 1 : Append(trail, e)[i] = trail[i]
        /\ Append(trail, e)[n] = e
    BY <1>1, <1>6, <1>7, AppendProperties
  <1>9. /\ trail' \in [1 .. n -> Entries]
        /\ \A i \in 1 .. n - 1 : trail'[i] = trail[i]
        /\ trail'[n] = e
    <2> DEFINE New(i) == [by |-> audit'[i].by, order |-> audit'[i].order,
                          status |-> StatusAfter(i)']
    <2>1. trail' = [i \in 1 .. n |-> New(i)]
      BY <1>1 DEF trail
    <2>2. \A i \in 1 .. n - 1 : New(i) = Entry(i)
      BY <1>1
    <2>3. New(n) = e
      BY <1>1
    <2>4. \A i \in 1 .. n - 1 : trail[i] = Entry(i)
      BY <1>4
    <2> HIDE DEF New, Entry, e, Entries
    <2> QED
      BY <1>1, <1>5, <1>7, <2>1, <2>2, <2>3, <2>4
  <1> HIDE DEF e, Entries
  <1>10. trail' = Append(trail, e)
    <2>1. trail' \in Seq(Entries) /\ Len(trail') = n
      BY <1>1, <1>9
    <2>2. \A i \in 1 .. n : trail'[i] = Append(trail, e)[i]
      BY <1>1, <1>8, <1>9
    <2> QED
      BY <1>8, <2>1, <2>2, SeqEqual
  <1>11. \A i \in DOMAIN trail : trail[i].by # r
    BY <1>1, <1>3, <1>4 DEF LInv, AuditOnce
  <1> QED
    BY <1>10, <1>11 DEF e

(* A status that an order had is in its trail. *)
LEMMA HadInTrail ==
  ASSUME NEW o, NEW s, Had(o, s)
  PROVE  \E i \in DOMAIN trail : trail[i].order = o /\ trail[i].status = s
  BY DEF Had, StatusRows, trail

(* What a COMMIT records. *)
LEMMA CommitRecords ==
  ASSUME IInv, LInv, NEW r \in Requests, Commit(r), NEW n, n = Len(audit) + 1,
         NEW s, s = StatusAfter(n)', NEW t, t = Target(r), NEW events,
         outbox' = outbox \cup { [type |-> e, order |-> t, by |-> r] : e \in events }
  PROVE  Ledger!Record(r, t, events, s)
  <1>1. /\ trail' = Append(trail, [by |-> r, order |-> t, status |-> s])
        /\ \A i \in DOMAIN trail : trail[i].by # r
    BY TrailGrows
  <1>2. IF s = Absent THEN orders' = orders ELSE SetStatus(r, s)
    BY CommitRow DEF LInv
  <1> QED
    BY <1>1, <1>2 DEF Ledger!Record, Ledger!Absent, Absent, SetStatus

LEMMA EmitsOne ==
  ASSUME NEW r, NEW type, Emit(r, type)
  PROVE  outbox' = outbox \cup { [type |-> e, order |-> Target(r), by |-> r] : e \in {type} }
  BY DEF Emit

(* Every COMMIT is one operation of the ledger. *)
LEMMA CommitRefines ==
  ASSUME IInv, LInv, NEW r \in Requests, Commit(r)
  PROVE  Ledger!Next
  <1>0. PICK t : t = Target(r)
    OBVIOUS
  <1>1. PICK n, s : n = Len(audit) + 1 /\ s = StatusAfter(n)'
    OBVIOUS
  <1>2. pc[r] = "commit" /\ t \in OrderIds
    BY <1>0, CommitEffect
  <1>3. call[r].op # "create" => orders[t] # Ledger!Absent
    BY <1>0, <1>2 DEF IInv, OrderFound, Ledger!Absent, Absent
  <1>4. /\ call[r].op = "create" => s = "DRAFT"
        /\ call[r].op = "confirm" => s = "CONFIRMED"
        /\ call[r].op = "update" => s \in Statuses
        /\ call[r].op \in {"ship", "invoice"} => s = Absent
        /\ call[r].op = "revert" => s = audit[from[r]].old
    BY <1>1, CommitRow DEF LInv
  <1>5. \A w \in OrderIds :
          \/ Ledger!Create(r, w) \/ Ledger!Confirm(r, w) \/ Ledger!Update(r, w)
          \/ Ledger!Ship(r, w) \/ Ledger!Invoice(r, w) \/ Ledger!Revert(r, w)
          => Ledger!Next
    BY DEF Ledger!Next
  <1>6. sagas \in [OrderIds -> Steps \cup {Absent}]
    BY DEF IInv, TypeOK
  <1>7. sagaLock[t] = r => sagas[t] \in Awaits(call[r].op)
    BY <1>0, <1>2, NoRequestAssumption DEF IInv, StepHeld
  <1>8. \A events : outbox' = outbox \cup { [type |-> e, order |-> t, by |-> r] : e \in events }
                      => Ledger!Record(r, t, events, s)
    BY <1>0, <1>1, CommitRecords
  <1>9. \A type : Emit(r, type) => Ledger!Record(r, t, {type}, s)
    BY <1>0, <1>8, EmitsOne
  <1>10. outbox' = outbox => Ledger!Record(r, t, {}, s)
    BY <1>8
  <1>11. CASE CommitCreate(r)
    <2>1. orders[t] = Ledger!Absent
      BY <1>0, <1>2, <1>11 DEF CommitCreate, Committing, IInv, CreateFresh, Live, Ledger!Absent, Absent
    <2> QED
      BY <1>0, <1>2, <1>4, <1>5, <1>9, <1>11, <2>1 DEF CommitCreate, Committing, Ledger!Create
  <1>12. CASE CommitConfirm(r)
    <2>1. call[r].op = "confirm" /\ SetStep(r, "PO_CONFIRMED") /\ Emit(r, "ORDER_CONFIRMED")
          /\ UNCHANGED <<shipments, invoices>>
      BY <1>12 DEF CommitConfirm, Committing
    <2>2. sagaLock[t] = r
      BY <1>0, <1>2, <2>1 DEF LInv, ConfirmHoldsSaga
    <2> QED
      BY <1>0, <1>2, <1>3, <1>4, <1>5, <1>9, <2>1, <2>2 DEF SetStep, Ledger!Confirm
  <1>13. CASE CommitUpdate(r)
    <2>1. call[r].op = "update" /\ UNCHANGED <<sagas, outbox, shipments, invoices>>
      BY <1>13 DEF CommitUpdate, Committing
    <2> QED
      BY <1>0, <1>2, <1>3, <1>4, <1>5, <1>10, <2>1 DEF Ledger!Update, Ledger!Statuses, Statuses
  <1>14. CASE CommitShip(r)
    <2>1. call[r].op = "ship" /\ SetStep(r, "SHIP_READY") /\ Emit(r, "SHIPMENT_CREATED")
          /\ shipments' = shipments \cup { [order |-> t, by |-> r] } /\ UNCHANGED invoices
      BY <1>0, <1>14 DEF CommitShip, Committing
    <2>2. \/ UNCHANGED sagas
          \/ /\ sagas[t] \in {"PO_CONFIRMED", "ACK_DELIVERED"}
             /\ sagas' = [sagas EXCEPT ![t] = "SHIP_READY"]
      BY <1>0, <1>7, <2>1 DEF SetStep, Awaits
    <2>3. Ledger!Record(r, t, {"SHIPMENT_CREATED"}, Ledger!Absent)
      BY <1>4, <1>9, <2>1 DEF Ledger!Absent, Absent
    <2> QED
      BY <1>0, <1>2, <1>3, <1>5, <2>1, <2>2, <2>3 DEF Ledger!Ship
  <1>15. CASE CommitInvoice(r)
    <2>1. call[r].op = "invoice" /\ SetStep(r, "INVOICE_READY") /\ Emit(r, "INVOICE_CREATED")
          /\ invoices' = invoices \cup { [order |-> t, by |-> r] } /\ UNCHANGED shipments
      BY <1>0, <1>15 DEF CommitInvoice, Committing
    <2>2. \/ UNCHANGED sagas
          \/ /\ sagas[t] \in {"ASN_DELIVERED", "SHIP_READY"}
             /\ sagas' = [sagas EXCEPT ![t] = "INVOICE_READY"]
      BY <1>0, <1>7, <2>1 DEF SetStep, Awaits
    <2>3. Ledger!Record(r, t, {"INVOICE_CREATED"}, Ledger!Absent)
      BY <1>4, <1>9, <2>1 DEF Ledger!Absent, Absent
    <2> QED
      BY <1>0, <1>2, <1>3, <1>5, <2>1, <2>2, <2>3 DEF Ledger!Invoice
  <1>16. CASE CommitRevert(r)
    <2>1. call[r].op = "revert" /\ UNCHANGED <<sagas, outbox, shipments, invoices>>
      BY <1>16 DEF CommitRevert, Committing
    <2>2. from[r] \in DOMAIN audit /\ audit[from[r]].old # Absent /\ audit[from[r]].order = t
      BY <1>0, <1>2, <2>1 DEF IInv, PhaseOK, LInv, RestoresEarlier
    <2>3. Had(t, s)
      BY <1>4, <2>1, <2>2 DEF LInv, OldWasHad
    <2>4. PICK i \in DOMAIN trail : trail[i].order = t /\ trail[i].status = s
      BY <2>3, HadInTrail
    <2>5. s # Ledger!Absent
      BY <1>4, <2>1, <2>2 DEF Ledger!Absent, Absent
    <2> QED
      BY <1>0, <1>2, <1>3, <1>5, <1>10, <2>1, <2>4, <2>5 DEF Ledger!Revert
  <1> QED
    BY <1>11, <1>12, <1>13, <1>14, <1>15, <1>16 DEF Commit

LEMMA WorkRefines ==
  ASSUME NEW o \in OrderIds, Work(o)
  PROVE  Ledger!Next
  <1>1. \A a, b : WorkerTransition(a, b) => Ledger!WorkerTransition(a, b)
    BY DEF WorkerTransition, IsValidTransition, Successor, Terminal, Steps, AckSteps, AsnSteps,
           InvoiceSteps, Ledger!WorkerTransition, Ledger!IsValidTransition, Ledger!Successor,
           Ledger!Terminal, Ledger!Steps, Ledger!AckSteps, Ledger!AsnSteps, Ledger!InvoiceSteps
  <1>2. \E s \in Steps : /\ Ledger!WorkerTransition(sagas[o], s)
                         /\ sagas' = [sagas EXCEPT ![o] = s]
    BY <1>1 DEF Work
  <1>3. Steps = Ledger!Steps
    BY DEF Steps, AckSteps, AsnSteps, InvoiceSteps,
           Ledger!Steps, Ledger!AckSteps, Ledger!AsnSteps, Ledger!InvoiceSteps
  <1>4. UNCHANGED <<orders, outbox, shipments, invoices, trail>>
    BY DEF Work, trail, StatusAfter
  <1>5. Ledger!Work(o)
    BY <1>2, <1>3, <1>4 DEF Ledger!Work
  <1> QED
    BY <1>5 DEF Ledger!Next

LEMMA InitRefines ==
  ASSUME Init
  PROVE  Ledger!Init
  <1>1. audit = <<>> /\ DOMAIN audit = {}
    BY DEF Init
  <1>2. trail = <<>>
    BY <1>1 DEF trail
  <1>3. /\ orders = [o \in OrderIds |-> Absent]
        /\ sagas = [o \in OrderIds |-> Absent]
        /\ outbox = {} /\ shipments = {} /\ invoices = {}
    BY DEF Init
  <1> QED
    BY <1>2, <1>3 DEF Ledger!Init, Ledger!Absent, Absent

(* The refinement, for any number of orders, requests and failures: seen by  *)
(* what they commit, transactions that read stale rows, wait for locks and   *)
(* roll back are the one-step operations of OrderLedger.                     *)
THEOREM LedgerImplemented == Spec => LedgerSpec
  <1>1. Init => Ledger!Init
    BY InitRefines
  <1>2. Inv /\ [Next]_vars => [Ledger!Next]_(Ledger!ledger)
    <2> SUFFICES ASSUME IInv, LInv, [Next]_vars
                 PROVE  Ledger!Next \/ UNCHANGED Ledger!ledger
      BY DEF Inv
    <2>1. CASE UNCHANGED rows
      BY <2>1 DEF rows, trail, StatusAfter, Ledger!ledger
    <2> QED
      BY <2>1, RowsStep, CommitRefines, WorkRefines
  <1> QED
    BY <1>1, <1>2, LedgerInvariant, PTL DEF Spec, LedgerSpec, Ledger!Spec
=============================================================================
