-------------------------------- MODULE Portal --------------------------------
(***************************************************************************)
(* The session of the portal: a token in localStorage, which all tabs of a *)
(* browser share; and in each tab the user, taken from the token when the  *)
(* tab is loaded or its user logs in, and the answers that TanStack Query  *)
(* keeps.  Each request has the token that is in localStorage when it is   *)
(* sent.  A refused request is an error on the page and ends no session.   *)
(***************************************************************************)
EXTENDS FiniteSets

CONSTANTS Tabs, Users, None

VARIABLES
  token,     \* localStorage fc_token: the user it was issued to, or None
  expired,   \* tokens of these users are refused
  user,      \* of each tab: state of App, or None at the login page
  loggingIn, \* of each tab: the user whose login it waits for, or None
  asking,    \* of each tab: the token of a query that is not answered, or None
  cache,     \* of each tab: whose data it holds, a set
  mixed      \* tabs whose requests went out with the token of another tab

vars == <<token, expired, user, loggingIn, asking, cache, mixed>>

Init ==
  /\ token \in Users \cup {None} /\ expired \in SUBSET Users
  /\ user = [t \in Tabs |-> token]
  /\ loggingIn = [t \in Tabs |-> None]
  /\ asking = [t \in Tabs |-> None]
  /\ cache = [t \in Tabs |-> {}]
  /\ mixed = {}

(* A tab is loaded: useState reads the token, and does not look at its exp. *)
Load(t) ==
  /\ user' = [user EXCEPT ![t] = token]
  /\ loggingIn' = [loggingIn EXCEPT ![t] = None]
  /\ asking' = [asking EXCEPT ![t] = None]
  /\ cache' = [cache EXCEPT ![t] = {}]
  /\ mixed' = mixed \ {t}
  /\ UNCHANGED <<token, expired>>

(* handleSubmit of the login page, *)
Submit(t, u) ==
  /\ user[t] = None /\ loggingIn[t] = None
  /\ loggingIn' = [loggingIn EXCEPT ![t] = u]
  /\ UNCHANGED <<token, expired, user, asking, cache, mixed>>

(* and its answer: the new token, or an error. *)
Login(t) ==
  /\ loggingIn[t] # None
  /\ loggingIn' = [loggingIn EXCEPT ![t] = None]
  /\ \/ /\ token' = loggingIn[t]
        /\ user' = [user EXCEPT ![t] = loggingIn[t]]
        /\ expired' = expired \ {loggingIn[t]}
     \/ UNCHANGED <<token, user, expired>>
  /\ UNCHANGED <<asking, cache, mixed>>

(* Bug: the cache survives a logout. *)
LogoutKeepsCache(t) ==
  /\ user[t] # None
  /\ token' = None
  /\ user' = [user EXCEPT ![t] = None]
  /\ asking' = [asking EXCEPT ![t] = None]
  /\ mixed' = mixed \ {t}
  /\ UNCHANGED <<expired, loggingIn, cache>>

(* queryClient.clear drops the answers and the queries that wait for one. *)
Logout(t) ==
  /\ user[t] # None
  /\ token' = None
  /\ user' = [user EXCEPT ![t] = None]
  /\ asking' = [asking EXCEPT ![t] = None]
  /\ cache' = [cache EXCEPT ![t] = {}]
  /\ mixed' = mixed \ {t}
  /\ UNCHANGED <<expired, loggingIn>>

(* A page is shown, paged or refreshed: apiFetch.  Without a token the API   *)
(* refuses.                                                                  *)
Ask(t) ==
  /\ user[t] # None /\ asking[t] = None /\ token # None
  /\ asking' = [asking EXCEPT ![t] = token]
  /\ mixed' = IF token = user[t] THEN mixed ELSE mixed \cup {t}
  /\ UNCHANGED <<token, expired, user, loggingIn, cache>>

Receive(t) ==
  /\ asking[t] # None
  /\ asking' = [asking EXCEPT ![t] = None]
  /\ cache' = IF asking[t] \in expired THEN cache
              ELSE [cache EXCEPT ![t] = @ \cup {asking[t]}]
  /\ UNCHANGED <<token, expired, user, loggingIn, mixed>>

Expire(u) ==
  /\ u \notin expired
  /\ expired' = expired \cup {u}
  /\ UNCHANGED <<token, user, loggingIn, asking, cache, mixed>>

Next ==
  \/ \E t \in Tabs : Load(t) \/ (\E u \in Users : Submit(t, u)) \/ Login(t) \/ Logout(t)
                     \/ Ask(t) \/ Receive(t)
  \/ \E u \in Users : Expire(u)

Spec == Init /\ [][Next]_vars

-----------------------------------------------------------------------------
(* A tab shows its user's data alone, and none at the login page, unless     *)
(* another tab logged in as somebody else in between: then this one goes on  *)
(* under its user's name and asks with the other's token.                    *)
OwnDataShown ==
  \A t \in Tabs \ mixed : cache[t] \subseteq {user[t]} \ {None}
=============================================================================
