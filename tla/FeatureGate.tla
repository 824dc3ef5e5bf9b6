----------------------------- MODULE FeatureGate -----------------------------
(***************************************************************************)
(* isFeatureEnabled reads the platform's flag and then the factory's       *)
(* preference, in two statements, while administrators toggle the flag     *)
(* (PUT /admin/feature-flags/:flag).  Nothing in the repository writes     *)
(* factory_preferences, whose row is fixed during a behaviour.             *)
(***************************************************************************)
EXTENDS FiniteSets

CONSTANTS Checks  \* requests that pass the gate

Settings == {"absent", "on", "off"}

VARIABLES
  flag,        \* row of feature_flags
  preference,  \* row of factory_preferences
  pc,          \* of each check: "idle", "reading" the preference or "done"
  allowed,     \* what isFeatureEnabled returned
  possible     \* what it would have returned at some instant since it began

vars == <<flag, preference, pc, allowed, possible>>

Init ==
  /\ flag \in Settings /\ preference \in Settings
  /\ pc = [c \in Checks |-> "idle"]
  /\ allowed = [c \in Checks |-> FALSE]
  /\ possible = [c \in Checks |-> {}]

(* Platform flag first, a preference can only opt out. *)
Enabled(f, p) == f = "on" /\ p # "off"

Decide(c, result) ==
  /\ pc' = [pc EXCEPT ![c] = "done"]
  /\ allowed' = [allowed EXCEPT ![c] = result]

(* Bug: an unknown flag leaves the decision to the preference. *)
ReadFlagUnknownPasses(c) ==
  /\ pc[c] = "idle"
  /\ possible' = [possible EXCEPT ![c] = {Enabled(flag, preference)}]
  /\ \/ flag = "off" /\ Decide(c, FALSE)
     \/ flag # "off" /\ pc' = [pc EXCEPT ![c] = "reading"] /\ UNCHANGED allowed
  /\ UNCHANGED <<flag, preference>>

ReadFlag(c) ==
  /\ pc[c] = "idle"
  /\ possible' = [possible EXCEPT ![c] = {Enabled(flag, preference)}]
  /\ \/ flag # "on" /\ Decide(c, FALSE)
     \/ flag = "on" /\ pc' = [pc EXCEPT ![c] = "reading"] /\ UNCHANGED allowed
  /\ UNCHANGED <<flag, preference>>

ReadPreference(c) ==
  /\ pc[c] = "reading"
  /\ Decide(c, preference # "off")
  /\ UNCHANGED <<flag, preference, possible>>

(* 404 when there is no such flag. *)
Toggle(value) ==
  /\ flag # "absent"
  /\ flag' = value
  /\ possible' = [c \in Checks |->
       IF pc[c] = "reading" THEN possible[c] \cup {Enabled(value, preference)} ELSE possible[c]]
  /\ UNCHANGED <<preference, pc, allowed>>

Next ==
  \/ \E c \in Checks : ReadFlag(c) \/ ReadPreference(c)
  \/ \E value \in {"on", "off"} : Toggle(value)

Spec == Init /\ [][Next]_vars

-----------------------------------------------------------------------------
(* The two reads decide as one would have at some instant of the check,      *)
(* however often the flag is toggled between them.                           *)
DecidedAtAnInstant == \A c \in Checks : pc[c] = "done" => allowed[c] \in possible[c]
=============================================================================
