------------------------------ MODULE Validation ------------------------------
(***************************************************************************)
(* validation-engine.ts: rules that look for issues in an order, and       *)
(* validateOrderForDispatch, which reads the order, its line items and its *)
(* connection in three statements without a transaction.  An order is      *)
(* described by what the rules tell apart: required columns that are an    *)
(* empty text, since none is NULL, and amounts, whose columns admit        *)
(* negative numbers and NaN.                                               *)
(***************************************************************************)
EXTENDS Integers

CONSTANTS Empty,    \* required columns that may be empty
          Amounts,  \* numbers that an amount may be,
          NaN       \*   and what is no number

VARIABLES
  stored,   \* the order's row and its line items are committed
  order, items, \* what they are: columns, and whether there is a line item
  active,   \* status of the connection is "active"
  pc,       \* "idle", "items", "connection" or "done"
  verdict,  \* valid, errors and warnings, as names of rules
  was       \* values of active since validation began

vars == <<stored, order, items, active, pc, verdict, was>>

Orders == [empty : SUBSET Empty, subtotal : Amounts \cup {NaN},
           tax_amount : Amounts \cup {NaN}, total_amount : Amounts \cup {NaN}]

IsNumber(x) == x # NaN

-----------------------------------------------------------------------------
Required(o) == IF o.empty # {} THEN {"REQUIRED"} ELSE {}

PositiveNumber(o) ==
  IF \E x \in {o.subtotal, o.tax_amount, o.total_amount} : IF IsNumber(x) THEN x < 0 ELSE TRUE
  THEN {"POSITIVE_NUMBER"} ELSE {}

(* A comparison with NaN is false, and its negation true. *)
TotalConsistency(o) ==
  LET equal == IF IsNumber(o.subtotal) /\ IsNumber(o.tax_amount)
               THEN o.subtotal + o.tax_amount = o.total_amount ELSE FALSE
  IN  IF ~IsNumber(o.total_amount) THEN {}
      ELSE IF o.total_amount > 0 /\ ~equal THEN {"TOTAL_CONSISTENCY"} ELSE {}

(* runRules: only errors make a document invalid. *)
ValidateOrder(o) ==
  LET errors == Required(o) \cup PositiveNumber(o)
  IN  [valid |-> errors = {}, errors |-> errors, warnings |-> TotalConsistency(o)]

-----------------------------------------------------------------------------
Init ==
  /\ stored \in BOOLEAN /\ active \in BOOLEAN
  /\ order \in Orders /\ items \in BOOLEAN
  /\ pc = "idle" /\ was = {}
  /\ verdict = [valid |-> FALSE, errors |-> {}, warnings |-> {}]

(* A transaction commits the order with its line items. *)
Create == ~stored /\ stored' = TRUE /\ UNCHANGED <<order, items, active, pc, verdict, was>>

SetActive ==
  /\ active' = ~active
  /\ was' = IF pc = "idle" THEN was ELSE was \cup {active'}
  /\ UNCHANGED <<stored, order, items, pc, verdict>>

FindOrder ==
  /\ pc = "idle"
  /\ was' = {active}
  /\ IF stored THEN pc' = "items" /\ verdict' = ValidateOrder(order)
     ELSE pc' = "done" /\ verdict' = [valid |-> FALSE, errors |-> {"EXISTS"}, warnings |-> {}]
  /\ UNCHANGED <<stored, order, items, active>>

(* Bug: the error is added to a result that stays valid. *)
FindItemsStaysValid ==
  /\ pc = "items"
  /\ pc' = "connection"
  /\ verdict' = IF items THEN verdict ELSE [verdict EXCEPT !.errors = @ \cup {"HAS_LINE_ITEMS"}]
  /\ UNCHANGED <<stored, order, items, active, was>>

FindItems ==
  /\ pc = "items"
  /\ pc' = "connection"
  /\ verdict' = IF items THEN verdict
                ELSE [verdict EXCEPT !.valid = FALSE, !.errors = @ \cup {"HAS_LINE_ITEMS"}]
  /\ UNCHANGED <<stored, order, items, active, was>>

FindConnection ==
  /\ pc = "connection"
  /\ pc' = "done"
  /\ verdict' = IF active THEN verdict
                ELSE [verdict EXCEPT !.warnings = @ \cup {"ACTIVE_CONNECTION"}]
  /\ UNCHANGED <<stored, order, items, active, was>>

Next == Create \/ SetActive \/ FindOrder \/ FindItems \/ FindConnection

Spec == Init /\ [][Next]_vars

-----------------------------------------------------------------------------
Dispatchable ==
  /\ stored /\ items /\ order.empty = {}
  /\ \A x \in {order.subtotal, order.tax_amount, order.total_amount} :
       IF IsNumber(x) THEN x >= 0 ELSE FALSE

(* A verdict of three reads is that of the order as it is, which no UPDATE   *)
(* changes in what the rules look at: valid exactly when it has no error and *)
(* when the order can be sent.  Only "not found" may be outdated by then.    *)
(* The warning about the connection is of some instant of the validation.    *)
VerdictSound ==
  pc = "done" =>
    /\ verdict.valid <=> verdict.errors = {}
    /\ verdict.valid <=> Dispatchable /\ "EXISTS" \notin verdict.errors
    /\ "EXISTS" \in verdict.errors \/ ("ACTIVE_CONNECTION" \notin verdict.warnings) \in was
=============================================================================
