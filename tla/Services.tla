------------------------------- MODULE Services -------------------------------
(***************************************************************************)
(* The parts that share nothing with each other or with the rest: webhooks,*)
(* notifications, the lists, the feature gate, the validation of orders    *)
(* and the portal's session.  Each behaviour exercises one of them, so that*)
(* one run explores them all, each alone, instead of the product of what   *)
(* cannot interact.                                                        *)
(***************************************************************************)
EXTENDS WebhookDeliveries

CONSTANTS Rows, Listeners,         \* of Notifications,
          Keys, PageSize,          \* of Lists, whose rows are Rows, too,
          Checks,                  \* of FeatureGate,
          Empty, Amounts, NaN,     \* of Validation
          Tabs, Users, None        \* and of Portal

(* created_at, entry_date and amounts are ordered: integers stand for them. *)
(* PaginationSchema makes pages of one row at least, and no token is issued *)
(* to nobody.                                                               *)
ASSUME ListsAssumption == Keys \subseteq Int /\ PageSize \in Nat \ {0}
ASSUME ValidationAssumption == Amounts \subseteq Int
ASSUME PortalAssumption == None \notin Users

VARIABLE part  \* what a behaviour exercises

VARIABLES open, committed, unsent, listening, heard, since
VARIABLES list, key, present, fits, page, filter, want, seen, left
VARIABLES flag, preference, check, allowed, possible
VARIABLES stored, order, items, active, step, verdict, was
VARIABLES token, expired, user, loggingIn, asking, cache, mixed

N == INSTANCE Notifications
L == INSTANCE Lists
G == INSTANCE FeatureGate WITH pc <- check
V == INSTANCE Validation WITH pc <- step
P == INSTANCE Portal

notifications == <<open, committed, unsent, listening, heard, since>>
lists == <<list, key, present, fits, page, filter, want, seen, left>>
gate == <<flag, preference, check, allowed, possible>>
validation == <<stored, order, items, active, step, verdict, was>>
portal == <<token, expired, user, loggingIn, asking, cache, mixed>>

Parts == {"webhooks", "notifications", "lists", "gate", "validation", "portal"}

(* What a behaviour does not exercise starts in one state. *)
AnyOrder == CHOOSE o \in V!Orders : TRUE
AnyKeys == CHOOSE k \in [Rows -> Keys] : \A m, n \in Rows : m # n => k[m] # k[n]

ServicesInit ==
  /\ part \in Parts
  /\ Init /\ N!Init
  /\ IF part = "lists" THEN L!Init
     ELSE L!Init /\ list = L!ListOrders /\ key = AnyKeys
  /\ IF part = "gate" THEN G!Init ELSE G!Init /\ flag = "off" /\ preference = "off"
  /\ IF part = "validation" THEN V!Init
     ELSE V!Init /\ ~stored /\ order = AnyOrder /\ ~items /\ ~active
  /\ IF part = "portal" THEN P!Init ELSE P!Init /\ token = None /\ expired = {}

ServicesNext ==
  /\ UNCHANGED part
  /\ \/ part = "webhooks" /\ Next
        /\ UNCHANGED <<notifications, lists, gate, validation, portal>>
     \/ part = "notifications" /\ N!Next
        /\ UNCHANGED <<vars, lists, gate, validation, portal>>
     \/ part = "lists" /\ L!Next
        /\ UNCHANGED <<vars, notifications, gate, validation, portal>>
     \/ part = "gate" /\ G!Next
        /\ UNCHANGED <<vars, notifications, lists, validation, portal>>
     \/ part = "validation" /\ V!Next
        /\ UNCHANGED <<vars, notifications, lists, gate, portal>>
     \/ part = "portal" /\ P!Next
        /\ UNCHANGED <<vars, notifications, lists, gate, validation>>

services == <<part, vars, notifications, lists, gate, validation, portal>>

ServicesSpec == ServicesInit /\ [][ServicesNext]_services /\ Fairness

(* HeardByAll of Notifications. *)
HeardByAll == N!HeardByAll

(* WalkComplete of Lists. *)
WalkComplete == L!WalkComplete

(* DecidedAtAnInstant of FeatureGate. *)
DecidedAtAnInstant == G!DecidedAtAnInstant

(* VerdictSound of Validation. *)
VerdictSound == V!VerdictSound

(* OwnDataShown of Portal. *)
OwnDataShown == P!OwnDataShown
=============================================================================
