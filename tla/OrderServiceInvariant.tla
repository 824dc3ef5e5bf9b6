------------------------ MODULE OrderServiceInvariant ------------------------
(***************************************************************************)
(* Why SagaEvidence holds: an inductive invariant of OrderService.  A      *)
(* request acts at its COMMIT on what it found one or two statements       *)
(* before; the conjuncts say what of it is still true by then.             *)
(***************************************************************************)
EXTENDS OrderService

(* Which operation can be in which phase, with what it found. *)
PhaseOK ==
  \A r \in Requests :
    /\ pc[r] = "impact" => call[r].op = "revert"
    /\ pc[r] = "find" => call[r].op # "create"
    /\ pc[r] = "order" => call[r].op \in {"confirm", "update", "revert"}
    /\ pc[r] = "saga" => call[r].op \in {"confirm", "ship", "invoice"}
    /\ pc[r] \in {"order", "commit"} /\ call[r].op = "update" => call[r].arg # "empty"
    /\ pc[r] \in {"order", "commit"} /\ call[r].op = "revert"
         => from[r] \in DOMAIN audit /\ audit[from[r]].old # Absent

(* An order and its saga appear together. *)
SagaPerOrder == \A o \in OrderIds : orders[o] = Absent <=> sagas[o] = Absent

(* Rows are not deleted: what was found is still there. *)
OrderFound ==
  /\ \A r \in Requests :
       /\ pc[r] \in {"order", "saga"} => orders[Target(r)] # Absent
       /\ pc[r] = "commit" /\ call[r].op # "create" => orders[Target(r)] # Absent
  /\ \A i \in DOMAIN audit : audit[i].old # Absent => orders[audit[i].order] # Absent

(* A uuid is chosen by one createOrder only. *)
CreateFresh ==
  \A r \in Requests :
    Live(r) /\ call[r].op = "create" =>
      /\ orders[Target(r)] = Absent
      /\ \A q \in Requests : Live(q) /\ call[q].op = "create" /\ Target(q) = Target(r) => q = r

(* The step that a waiting COMMIT tested is still the step of the saga,      *)
(* because its lock is held.                                                 *)
StepHeld ==
  \A o \in OrderIds :
    LET r == sagaLock[o]
    IN  r # NoRequest =>
          /\ pc[r] = "commit"
          /\ Target(r) = o
          /\ call[r].op \in {"confirm", "ship", "invoice"}
          /\ sagas[o] \in Awaits(call[r].op)

IInv == /\ TypeOK
        /\ PhaseOK
        /\ SagaPerOrder
        /\ OrderFound
        /\ CreateFresh
        /\ StepHeld
        /\ SagaEvidence

(***************************************************************************)
(* Why the audit log replays and the ledger is implemented: LInv, on top   *)
(* of IInv.                                                                *)
(***************************************************************************)
(* The order had this status: some audit row stands for it. *)
Had(o, status) == \E i \in StatusRows(o) : StatusAfter(i) = status

(* A request leaves at most one audit row, when it ends. *)
AuditOnce == \A i \in DOMAIN audit : pc[audit[i].by] = "done"

(* What a row or an open revert restores was there before, of the same order. *)
RestoresEarlier ==
  /\ \A i \in DOMAIN audit :
       audit[i].action = "REVERT" => /\ audit[i].from \in 1 .. i - 1
                                     /\ audit[audit[i].from].order = audit[i].order
                                     /\ audit[audit[i].from].old # Absent
  /\ \A r \in Requests :
       pc[r] \in {"order", "commit"} /\ call[r].op = "revert"
         => audit[from[r]].order = Target(r)

(* A status that was read, and so one that a row calls old, was the order's. *)
OldWasHad ==
  /\ \A r \in Requests : seen[r] # Absent => Live(r) /\ Had(Target(r), seen[r])
  /\ \A i \in DOMAIN audit : audit[i].old # Absent => Had(audit[i].order, audit[i].old)

(* A confirmation always finds its saga, whatever its step, and locks it. *)
ConfirmHoldsSaga ==
  \A r \in Requests :
    pc[r] = "commit" /\ call[r].op = "confirm" => sagaLock[Target(r)] = r

LInv == /\ AuditOnce
        /\ RestoresEarlier
        /\ OldWasHad
        /\ ConfirmHoldsSaga
        /\ AuditReplays
        /\ OutboxComplete

Inv == IInv /\ LInv
=============================================================================
