-------------------------- MODULE RequestPathProofs --------------------------
(***************************************************************************)
(* The way of a request, for any number of requests, tenants, connections  *)
(* and faults and any size of the cache.  Four inductive invariants, each  *)
(* on top of the first: connections, keys, the chain of audit_log, and     *)
(* what a client is told.                                                  *)
(***************************************************************************)
EXTENDS RequestPath, SequenceTheorems, FiniteSetTheorems, WellFoundedInduction, TLAPS

Clean(c) == ~inTx[c] /\ setting[c] = None

(* The state of the connection of r, by the statements r has yet to send.    *)
Phase(r, c) ==
  \/ todo[r] \in {<<>>, <<"CLEAR">>, Program[kind[r]]} /\ Clean(c)
  \/ kind[r] = "read" /\ todo[r] = <<"WORK", "CLEAR">> /\ Clean(c)
  \/ /\ kind[r] \in Writes /\ inTx[c]
     /\ \/ todo[r] = <<"SET", "DRAW", "WORK", "COMMIT", "CLEAR">> /\ setting[c] = None
        \/ /\ todo[r] \in {<<"DRAW", "WORK", "COMMIT", "CLEAR">>, <<"WORK", "COMMIT", "CLEAR">>,
                           <<"COMMIT", "CLEAR">>}
           /\ setting[c] = Tenant[r]
  \/ /\ kind[r] = "system" /\ inTx[c] /\ setting[c] = None
     /\ todo[r] \in {<<"WORK", "COMMIT">>, <<"COMMIT">>}
  \/ kind[r] = "login" /\ inTx[c] /\ setting[c] = None /\ todo[r] = <<"SET_LOCAL">>
  \/ kind[r] # "read" /\ todo[r] = Cleanup[kind[r]]

Phases == \A r \in Requests, c \in Conns : holder[c] = r => Phase(r, c)

(* Writes are the only handlers that see a tenant at all.                    *)
SeesOwn == \A x \in saw : x[2] = IF kind[x[1]] \in Writes THEN Tenant[x[1]] ELSE None

ConnInv == TypeOK /\ Phases /\ PoolIsClean /\ SeesOwn

-----------------------------------------------------------------------------
(* The programs of the helpers, and what they leave after each statement.    *)
LEMMA Programs ==
  /\ \A k \in Writes : Program[k] = TenantTransaction /\ Cleanup[k] = <<"ROLLBACK", "CLEAR">>
  /\ Program["read"] = TenantClient /\ Cleanup["read"] = <<"CLEAR">>
  /\ Program["system"] = Transaction /\ Cleanup["system"] = <<"ROLLBACK">>
  /\ Program["login"] = Login /\ Cleanup["login"] = <<"ROLLBACK">>
BY DEF Program, Cleanup, Writes

LEMMA ProgramTypes ==
  ASSUME NEW k \in Kinds
  PROVE  Program[k] \in Seq(Statements) /\ Cleanup[k] \in Seq(Statements)
<1>1. /\ TenantTransaction \in Seq(Statements) /\ TenantClient \in Seq(Statements)
      /\ Transaction \in Seq(Statements) /\ Login \in Seq(Statements)
  BY DEF TenantTransaction, TenantClient, Transaction, Login, Statements
<1>2. /\ <<"ROLLBACK", "CLEAR">> \in Seq(Statements) /\ <<"CLEAR">> \in Seq(Statements)
      /\ <<"ROLLBACK">> \in Seq(Statements)
  BY DEF Statements
<1> QED BY <1>1, <1>2, Programs DEF Kinds

(* What a statement does to the transaction and the setting of c.            *)
Effect(r, c, tx, tenant) ==
  \/ Head(todo[r]) = "BEGIN" /\ tx = TRUE /\ tenant = setting[c]
  \/ Head(todo[r]) = "SET" /\ tx = inTx[c] /\ tenant = IF inTx[c] THEN Tenant[r] ELSE setting[c]
  \/ Head(todo[r]) \in {"DRAW", "WORK", "CLEAR"} /\ tx = inTx[c] /\ tenant = setting[c]
  \/ Head(todo[r]) \in {"COMMIT", "ROLLBACK"} /\ tx = FALSE /\ tenant = None

(* The phases that a statement can lead to. *)
After(r, rest, tx, tenant) ==
  \/ rest \in {<<>>, <<"CLEAR">>} /\ ~tx /\ tenant = None
  \/ kind[r] = "read" /\ rest = <<"WORK", "CLEAR">> /\ ~tx /\ tenant = None
  \/ /\ kind[r] \in Writes /\ tx
     /\ \/ rest = <<"SET", "DRAW", "WORK", "COMMIT", "CLEAR">> /\ tenant = None
        \/ /\ rest \in {<<"DRAW", "WORK", "COMMIT", "CLEAR">>, <<"WORK", "COMMIT", "CLEAR">>,
                        <<"COMMIT", "CLEAR">>}
           /\ tenant = Tenant[r]
  \/ kind[r] = "system" /\ tx /\ tenant = None /\ rest \in {<<"WORK", "COMMIT">>, <<"COMMIT">>}
  \/ kind[r] = "login" /\ tx /\ tenant = None /\ rest = <<"SET_LOCAL">>

(* One statement of a connection in a known phase leads to a known phase.    *)
LEMMA PhaseStep ==
  ASSUME NEW r \in Requests, NEW c \in Conns, TypeOK, Phase(r, c), todo[r] # <<>>,
         NEW rest, rest = Tail(todo[r]), NEW tx \in BOOLEAN, NEW tenant, Effect(r, c, tx, tenant)
  PROVE  After(r, rest, tx, tenant)
<1> USE DEF Effect, After
<1>1. kind[r] \in Kinds
  BY DEF TypeOK
<1>2. inTx[c] \in BOOLEAN
  BY DEF TypeOK
<1>3. CASE todo[r] = <<"CLEAR">> /\ Clean(c)
  <2>1. Head(todo[r]) = "CLEAR" /\ rest = <<>>
    BY <1>3
  <2> QED BY <1>2, <1>3, <2>1 DEF Clean
<1>4. CASE todo[r] = Program[kind[r]] /\ Clean(c)
  <2>1. CASE kind[r] \in Writes
    <3>1. Head(todo[r]) = "BEGIN" /\ rest = <<"SET", "DRAW", "WORK", "COMMIT", "CLEAR">>
      <4>1. todo[r] = <<"BEGIN", "SET", "DRAW", "WORK", "COMMIT", "CLEAR">>
        BY <1>4, <2>1, Programs DEF TenantTransaction
      <4> QED BY <4>1
    <3> QED BY <1>2, <1>4, <2>1, <3>1 DEF Clean
  <2>2. CASE kind[r] = "read"
    <3>1. Head(todo[r]) = "SET" /\ rest = <<"WORK", "CLEAR">>
      <4>1. todo[r] = <<"SET", "WORK", "CLEAR">>
        BY <1>4, <2>2, Programs DEF TenantClient
      <4> QED BY <4>1
    <3> QED BY <1>2, <1>4, <2>2, <3>1 DEF Clean
  <2>3. CASE kind[r] = "system"
    <3>1. Head(todo[r]) = "BEGIN" /\ rest = <<"WORK", "COMMIT">>
      <4>1. todo[r] = <<"BEGIN", "WORK", "COMMIT">>
        BY <1>4, <2>3, Programs DEF Transaction
      <4> QED BY <4>1
    <3> QED BY <1>2, <1>4, <2>3, <3>1 DEF Clean
  <2>4. CASE kind[r] = "login"
    <3>1. Head(todo[r]) = "BEGIN" /\ rest = <<"SET_LOCAL">>
      <4>1. todo[r] = <<"BEGIN", "SET_LOCAL">>
        BY <1>4, <2>4, Programs DEF Login
      <4> QED BY <4>1
    <3> QED BY <1>2, <1>4, <2>4, <3>1 DEF Clean
  <2> QED BY <1>1, <2>1, <2>2, <2>3, <2>4 DEF Kinds
<1>5. CASE kind[r] = "read" /\ todo[r] = <<"WORK", "CLEAR">> /\ Clean(c)
  <2>1. Head(todo[r]) = "WORK" /\ rest = <<"CLEAR">>
    BY <1>5
  <2> QED BY <1>2, <1>5, <2>1 DEF Clean
<1>6. CASE kind[r] \in Writes /\ inTx[c] /\ todo[r] = <<"SET", "DRAW", "WORK", "COMMIT", "CLEAR">>
  <2>1. Head(todo[r]) = "SET" /\ rest = <<"DRAW", "WORK", "COMMIT", "CLEAR">>
    BY <1>6
  <2> QED BY <1>2, <1>6, <2>1
<1>7. CASE /\ kind[r] \in Writes /\ inTx[c] /\ todo[r] = <<"DRAW", "WORK", "COMMIT", "CLEAR">>
            /\ setting[c] = Tenant[r]
  <2>1. Head(todo[r]) = "DRAW" /\ rest = <<"WORK", "COMMIT", "CLEAR">>
    BY <1>7
  <2> QED BY <1>2, <1>7, <2>1
<1>8. CASE kind[r] \in Writes /\ inTx[c] /\ todo[r] = <<"WORK", "COMMIT", "CLEAR">> /\ setting[c] = Tenant[r]
  <2>1. Head(todo[r]) = "WORK" /\ rest = <<"COMMIT", "CLEAR">>
    BY <1>8
  <2> QED BY <1>2, <1>8, <2>1
<1>9. CASE todo[r] = <<"COMMIT", "CLEAR">>
  <2>1. Head(todo[r]) = "COMMIT" /\ rest = <<"CLEAR">>
    BY <1>9
  <2> QED BY <2>1
<1>10. CASE kind[r] = "system" /\ inTx[c] /\ setting[c] = None /\ todo[r] = <<"WORK", "COMMIT">>
  <2>1. Head(todo[r]) = "WORK" /\ rest = <<"COMMIT">>
    BY <1>10
  <2> QED BY <1>2, <1>10, <2>1
<1>11. CASE todo[r] = <<"COMMIT">> \/ todo[r] = <<"ROLLBACK">>
  <2>1. Head(todo[r]) \in {"COMMIT", "ROLLBACK"} /\ rest = <<>>
    <3>1. todo[r] = <<"COMMIT">> => Head(todo[r]) = "COMMIT" /\ rest = <<>>
      OBVIOUS
    <3>2. todo[r] = <<"ROLLBACK">> => Head(todo[r]) = "ROLLBACK" /\ rest = <<>>
      OBVIOUS
    <3> QED BY <1>11, <3>1, <3>2
  <2> QED BY <2>1
<1>12. CASE todo[r] = <<"ROLLBACK", "CLEAR">>
  <2>1. Head(todo[r]) = "ROLLBACK" /\ rest = <<"CLEAR">>
    BY <1>12
  <2> QED BY <2>1
<1>13. CASE todo[r] = <<"SET_LOCAL">>
  <2>1. Head(todo[r]) = "SET_LOCAL"
    BY <1>13
  <2> QED BY <2>1
<1>14. kind[r] # "read" /\ todo[r] = Cleanup[kind[r]] => todo[r] \in {<<"ROLLBACK">>, <<"ROLLBACK", "CLEAR">>}
  BY <1>1, Programs DEF Kinds
<1> QED BY <1>3, <1>4, <1>5, <1>6, <1>8, <1>9, <1>10, <1>11, <1>12, <1>13, <1>14, <1>7 DEF Phase
-----------------------------------------------------------------------------
KeysDiffer(c) == \A i, j \in DOMAIN c : c[i].key = c[j].key => i = j

(* d has the entries of c, or some of them, and x. *)
Gained(c, x, d) == \A i \in DOMAIN d : d[i] = x \/ \E j \in DOMAIN c : d[i] = c[j]

LEMMA AppendEntry ==
  ASSUME NEW c \in Seq(Entries), NEW x \in Entries, KeysDiffer(c),
         \A i \in DOMAIN c : c[i].key # x.key
  PROVE  /\ Append(c, x) \in Seq(Entries) /\ KeysDiffer(Append(c, x)) /\ Gained(c, x, Append(c, x))
         /\ Len(Append(c, x)) = Len(c) + 1
<1> DEFINE d == Append(c, x)
<1>1. /\ d \in Seq(Entries) /\ Len(d) = Len(c) + 1 /\ Len(c) \in Nat
      /\ DOMAIN c = 1 .. Len(c) /\ DOMAIN d = 1 .. Len(c) + 1
      /\ \A i \in 1 .. Len(c) : d[i] = c[i]
      /\ d[Len(c) + 1] = x
  OBVIOUS
<1> HIDE DEF d
<1>2. \A i \in DOMAIN d : i \in DOMAIN c \/ i = Len(c) + 1
  BY <1>1
<1>3. KeysDiffer(d)
  BY <1>1, <1>2 DEF KeysDiffer
<1>4. Gained(c, x, d)
  BY <1>1, <1>2 DEF Gained
<1> QED BY <1>1, <1>3, <1>4 DEF d

LEMMA ReplaceEntry ==
  ASSUME NEW c \in Seq(Entries), NEW x \in Entries, KeysDiffer(c),
         NEW d, d = [i \in DOMAIN c |-> IF c[i].key = x.key THEN x ELSE c[i]]
  PROVE  d \in Seq(Entries) /\ KeysDiffer(d) /\ Gained(c, x, d) /\ Len(d) = Len(c)
<1>1. DOMAIN c = 1 .. Len(c) /\ Len(c) \in Nat /\ \A i \in DOMAIN c : c[i] \in Entries
  OBVIOUS
<1>2. d \in [1 .. Len(c) -> Entries]
  BY <1>1
<1>3. d \in Seq(Entries) /\ Len(d) = Len(c) /\ DOMAIN d = DOMAIN c
  BY <1>1, <1>2, SeqDef
<1>4. \A i \in DOMAIN c : d[i].key = c[i].key /\ d[i] \in {x, c[i]}
  BY <1>1
<1>5. KeysDiffer(d) /\ Gained(c, x, d)
  BY <1>3, <1>4 DEF KeysDiffer, Gained
<1> QED BY <1>3, <1>5

LEMMA DropOldest ==
  ASSUME NEW c, NEW x, NEW d \in Seq(Entries), d # <<>>, KeysDiffer(d), Gained(c, x, d)
  PROVE  /\ Tail(d) \in Seq(Entries) /\ KeysDiffer(Tail(d)) /\ Gained(c, x, Tail(d))
         /\ Len(Tail(d)) = Len(d) - 1
<1> DEFINE t == Tail(d)
<1>1. /\ t \in Seq(Entries) /\ Len(t) = Len(d) - 1 /\ Len(d) \in Nat
      /\ DOMAIN t = 1 .. Len(d) - 1 /\ DOMAIN d = 1 .. Len(d)
      /\ \A i \in 1 .. Len(d) - 1 : t[i] = d[i + 1]
  OBVIOUS
<1> HIDE DEF t
<1>2. \A i \in DOMAIN t : i + 1 \in DOMAIN d /\ t[i] = d[i + 1] /\ i \in Nat
  BY <1>1
<1>3. KeysDiffer(t)
  <2> SUFFICES ASSUME NEW i \in DOMAIN t, NEW j \in DOMAIN t, t[i].key = t[j].key PROVE i = j
    BY DEF KeysDiffer
  <2>1. i + 1 = j + 1
    BY <1>2 DEF KeysDiffer
  <2> QED BY <1>2, <2>1
<1>4. Gained(c, x, t)
  BY <1>2 DEF Gained
<1> QED BY <1>1, <1>3, <1>4 DEF t

(* Answering: the cache stays small and without duplicates, and only gets    *)
(* the answer of this request.                                               *)
Kept(r, result) == [key |-> Key(r), by |-> r, outcome |-> result]

CacheOK == cache \in Seq(Entries) /\ Len(cache) <= CacheSize /\ KeysDiffer(cache)

LEMMA StoreKeyFacts ==
  ASSUME TypeOK, NEW r \in Requests, NEW result \in {"ok", "error"}, StoreKey(r, result)
  PROVE  CacheOK' /\ (cache' = cache \/ (Key(r) # None /\ Gained(cache, Kept(r, result), cache')))
<1>1. CacheOK /\ CacheSize \in Nat \ {0}
  BY BoundsAssumption DEF TypeOK, CacheOK, KeysDiffer
<1>2. CASE Key(r) = None
  <2>1. cache' = cache
    BY <1>2 DEF StoreKey
  <2>2. CacheOK'
    BY <1>1, <2>1 DEF CacheOK, KeysDiffer
  <2> QED BY <2>1, <2>2
<1>3. CASE Key(r) # None
  <2>1. Kept(r, result) \in Entries /\ Kept(r, result).key = Key(r)
    BY <1>3 DEF Key, Entries, Kept
  <2>2. PICK d : /\ d = IF Cached(Key(r)) = {} THEN Append(cache, Kept(r, result))
                        ELSE [i \in DOMAIN cache |-> IF cache[i].key = Key(r) THEN Kept(r, result)
                                                     ELSE cache[i]]
                 /\ cache' = IF Len(d) > CacheSize THEN Tail(d) ELSE d
    BY <1>3 DEF StoreKey, WithKey, Kept
  <2>3. /\ d \in Seq(Entries) /\ KeysDiffer(d) /\ Gained(cache, Kept(r, result), d)
        /\ Len(d) \in Nat /\ Len(d) <= CacheSize + 1
    <3>1. CASE Cached(Key(r)) = {}
      <4>1. \A i \in DOMAIN cache : cache[i].key # Key(r)
        BY <3>1 DEF Cached
      <4> QED BY <1>1, <2>1, <2>2, <3>1, <4>1, AppendEntry DEF CacheOK
    <3>2. CASE Cached(Key(r)) # {}
      <4>1. d = [i \in DOMAIN cache |-> IF cache[i].key = Kept(r, result).key THEN Kept(r, result)
                                       ELSE cache[i]]
        BY <2>1, <2>2, <3>2
      <4>2. Len(cache) \in Nat /\ Len(cache) <= CacheSize
        BY <1>1 DEF CacheOK
      <4>3. cache \in Seq(Entries) /\ KeysDiffer(cache)
        BY <1>1 DEF CacheOK
      <4>4. d \in Seq(Entries) /\ KeysDiffer(d) /\ Gained(cache, Kept(r, result), d) /\ Len(d) = Len(cache)
        BY <2>1, <4>1, <4>3, ReplaceEntry, Zenon
      <4> QED BY <1>1, <4>2, <4>4
    <3> QED BY <3>1, <3>2
  <2>4. CASE Len(d) > CacheSize
    <3>1. d # <<>>
      BY <1>1, <2>4
    <3>2. cache' = Tail(d)
      BY <2>2, <2>4
    <3>3. /\ Tail(d) \in Seq(Entries) /\ KeysDiffer(Tail(d)) /\ Gained(cache, Kept(r, result), Tail(d))
          /\ Len(Tail(d)) = Len(d) - 1
      BY <2>3, <3>1, DropOldest
    <3>4. CacheOK'
      BY <1>1, <2>3, <3>2, <3>3 DEF CacheOK
    <3> QED BY <1>3, <3>2, <3>3, <3>4
  <2>5. CASE ~(Len(d) > CacheSize)
    BY <1>1, <1>3, <2>2, <2>3, <2>5 DEF CacheOK
  <2> QED BY <2>4, <2>5
<1> QED BY <1>2, <1>3

HistoryOK == answered \subseteq Keys /\ others \in [Keys -> SUBSET Keys] /\ repeats \subseteq Requests

(* What is noted of an answer and of an arrival has its type.                *)
LEMMA NoteTypes ==
  ASSUME TypeOK, NEW r \in Requests, NoteAnswer(r)
  PROVE  answered' \subseteq Keys /\ others' \in [Keys -> SUBSET Keys]
<1>1. Key(r) # None => Key(r) \in Keys
  BY DEF Key, Keys
<1>2. CASE Key(r) = None
  BY <1>2 DEF NoteAnswer, TypeOK
<1>3. CASE Key(r) # None
  <2> DEFINE k == Key(r)
  <2>1. k \in Keys
    BY <1>1, <1>3
  <2> HIDE DEF k
  <2>2. /\ answered' = answered \cup {k}
        /\ others' = [x \in Keys |-> IF x \in answered \ {k} THEN others[x] \cup {k} ELSE others[x]]
    BY <1>3 DEF NoteAnswer, k
  <2>3. answered \subseteq Keys /\ others \in [Keys -> SUBSET Keys]
    BY DEF TypeOK
  <2> QED BY <2>1, <2>2, <2>3
<1> QED BY <1>2, <1>3

LEMMA ArriveTypes ==
  ASSUME TypeOK, NEW r \in Requests, Arrive(r)
  PROVE  repeats' \subseteq Requests
BY DEF Arrive, TypeOK

(* Steps that leave the connections and the statements alone. *)
LEMMA QuietFrame ==
  ASSUME ConnInv, UNCHANGED <<kind, todo, holder, inTx, setting, saw>>
  PROVE  Phases' /\ PoolIsClean' /\ SeesOwn'
BY DEF ConnInv, Phases, Phase, Clean, PoolIsClean, SeesOwn

(* An answer to a request that has no connection. *)
LEMMA AnswerStep ==
  ASSUME ConnInv, NEW r \in Requests, NEW a \in Answers, pc[r] # "running", Answer(r, a),
         CacheOK', HistoryOK',
         UNCHANGED <<kind, todo, outcome, database, faults>>
  PROVE  ConnInv'
<1>1. /\ pc' = [pc EXCEPT ![r] = "answered"] /\ answer' = [answer EXCEPT ![r] = a]
      /\ UNCHANGED <<kind, todo, outcome, holder, inTx, setting, open, log, lastId, drawn, saw, faults>>
  BY DEF Answer, database, audit
<1>2. TypeOK'
  BY <1>1 DEF ConnInv, TypeOK, CacheOK, KeysDiffer, HistoryOK
<1> QED BY <1>1, <1>2, QuietFrame DEF ConnInv
LEMMA RefuseStep == ASSUME ConnInv, NEW r \in Requests, Refuse(r) PROVE ConnInv'
<1>1. CacheOK' /\ HistoryOK'
  BY DEF Refuse, ConnInv, TypeOK, CacheOK, KeysDiffer, HistoryOK, history
<1>2. [by |-> None, outcome |-> "error"] \in Answers
  BY DEF Answers
<1> QED BY <1>1, <1>2, AnswerStep DEF Refuse

LEMMA ReplayStep == ASSUME ConnInv, NEW r \in Requests, Replay(r) PROVE ConnInv'
<1>1. PICK i \in Cached(Key(r)) : Answer(r, [by |-> cache[i].by, outcome |-> cache[i].outcome])
  BY DEF Replay
<1>2. cache[i] \in Entries
  BY DEF Cached, ConnInv, TypeOK
<1>3. CacheOK' /\ HistoryOK'
  BY ArriveTypes DEF Replay, ConnInv, TypeOK, CacheOK, KeysDiffer, HistoryOK
<1>4. [by |-> cache[i].by, outcome |-> cache[i].outcome] \in Answers
  BY <1>2 DEF Answers, Entries
<1> QED BY <1>1, <1>3, <1>4, AnswerStep DEF Replay

LEMMA InvalidStep == ASSUME ConnInv, NEW r \in Requests, Invalid(r) PROVE ConnInv'
<1>1. CacheOK' /\ HistoryOK'
  BY StoreKeyFacts, NoteTypes, ArriveTypes DEF Invalid, ConnInv, HistoryOK
<1>2. [by |-> r, outcome |-> "error"] \in Answers
  BY DEF Answers
<1> QED BY <1>1, <1>2, AnswerStep DEF Invalid

LEMMA ConnectTimeoutStep == ASSUME ConnInv, NEW r \in Requests, ConnectTimeout(r) PROVE ConnInv'
<1>1. PICK result \in {"ok", "error"} : Answer(r, [by |-> r, outcome |-> result]) /\ StoreKey(r, result)
  BY DEF ConnectTimeout
<1>2. CacheOK' /\ HistoryOK'
  <2>1. CacheOK'
    BY <1>1, StoreKeyFacts DEF ConnInv
  <2>2. HistoryOK'
    BY NoteTypes DEF ConnectTimeout, ConnInv, TypeOK, HistoryOK
  <2> QED BY <2>1, <2>2
<1>3. [by |-> r, outcome |-> result] \in Answers
  BY DEF Answers
<1> QED BY <1>1, <1>2, <1>3, AnswerStep DEF ConnectTimeout

LEMMA AcceptStep == ASSUME ConnInv, NEW r \in Requests, Accept(r) PROVE ConnInv'
<1>1. /\ pc[r] = "new" /\ pc' = [pc EXCEPT ![r] = "queued"] /\ repeats' \subseteq Requests
      /\ UNCHANGED <<kind, todo, outcome, answer, cache, answered, others, faults>>
      /\ UNCHANGED <<holder, inTx, setting, open, log, lastId, drawn, saw>>
  BY ArriveTypes DEF Accept, database, audit, ConnInv
<1>2. TypeOK'
  BY <1>1 DEF ConnInv, TypeOK
<1> QED BY <1>1, <1>2, QuietFrame DEF ConnInv

(* The pool gives away clean connections, and each to one request.           *)
LEMMA ConnectStep == ASSUME ConnInv, NEW r \in Requests, Connect(r) PROVE ConnInv'
<1>1. PICK c \in Conns : holder[c] = None /\ holder' = [holder EXCEPT ![c] = r]
  BY DEF Connect
<1>2. /\ pc[r] = "queued" /\ pc' = [pc EXCEPT ![r] = "running"]
      /\ todo' = [todo EXCEPT ![r] = Program[kind[r]]]
      /\ UNCHANGED <<kind, outcome, answer, cache, answered, others, repeats, faults>>
      /\ UNCHANGED <<inTx, setting, open, log, lastId, drawn, saw>>
  BY DEF Connect, history, audit
<1>3. TypeOK'
  <2>1. todo' \in [Requests -> Seq(Statements)]
    BY <1>2, ProgramTypes DEF ConnInv, TypeOK
  <2>2. \A d \in Conns : holder[d] # r
    BY <1>2, RequestsAssumption DEF ConnInv, TypeOK
  <2>3. /\ holder' \in [Conns -> Requests \cup {None}]
        /\ \A d \in Conns : holder'[d] # None => pc'[holder'[d]] = "running"
        /\ \A d, e \in Conns : holder'[d] = holder'[e] /\ holder'[d] # None => d = e
    BY <1>1, <1>2, <2>2 DEF ConnInv, TypeOK
  <2>4. \A q \in Requests : todo'[q] # <<>> => pc'[q] = "running"
    BY <1>2 DEF ConnInv, TypeOK
  <2> QED BY <1>2, <2>1, <2>3, <2>4 DEF ConnInv, TypeOK
<1>4. Phases'
  <2> SUFFICES ASSUME NEW q \in Requests, NEW d \in Conns, holder'[d] = q PROVE Phase(q, d)'
    BY DEF Phases
  <2>1. CASE d = c
    <3>1. q = r /\ todo'[r] = Program[kind'[r]] /\ Clean(d)'
      BY <1>1, <1>2, <2>1 DEF ConnInv, TypeOK, PoolIsClean, Clean
    <3> QED BY <3>1 DEF Phase
  <2>2. CASE d # c
    <3>1. holder[d] = q /\ q # r
      BY <1>1, <1>2, <2>2, RequestsAssumption DEF ConnInv, TypeOK
    <3>2. todo'[q] = todo[q] /\ Phase(q, d)
      BY <1>2, <3>1 DEF ConnInv, TypeOK, Phases
    <3> QED BY <1>2, <3>1, <3>2 DEF Phase, Clean
  <2> QED BY <2>1, <2>2
<1>5. PoolIsClean' /\ SeesOwn'
  BY <1>1, <1>2, RequestsAssumption DEF ConnInv, TypeOK, PoolIsClean, SeesOwn
<1> QED BY <1>3, <1>4, <1>5 DEF ConnInv
-----------------------------------------------------------------------------
LEMMA LargestExists ==
  ASSUME NEW n \in Nat, NEW S \in SUBSET Nat, S # {}, \A i \in S : i <= n
  PROVE  \E i \in S : \A j \in S : i >= j
<1> DEFINE above == { i .. n : i \in S }
<1>1. IsWellFoundedOn(StrictSubsetOrdering(Nat), FiniteSubsetsOf(Nat))
  BY FS_StrictSubsetOrderingWellFounded
<1>2. above \subseteq FiniteSubsetsOf(Nat) /\ above # {}
  <2>1. \A i \in S : i \in Int /\ n \in Int /\ i .. n \in SUBSET Nat
    OBVIOUS
  <2>2. \A i \in S : IsFiniteSet(i .. n)
    BY <2>1, FS_Interval
  <2> QED BY <2>1, <2>2 DEF FiniteSubsetsOf
<1>3. \E x \in above : \A y \in above : ~(<<y, x>> \in StrictSubsetOrdering(Nat))
  <2> HIDE DEF above
  <2> QED BY <1>1, <1>2, WFMin
<1>4. PICK i \in S : \A j \in S : ~(<<j .. n, i .. n>> \in StrictSubsetOrdering(Nat))
  BY <1>3
<1>5. \A j \in S : i >= j
  <2> SUFFICES ASSUME NEW j \in S, j > i PROVE FALSE
    OBVIOUS
  <2>1. j .. n \in SUBSET Nat /\ i .. n \in SUBSET Nat /\ j .. n \subseteq i .. n
    OBVIOUS
  <2>2. i \in i .. n /\ i \notin j .. n
    OBVIOUS
  <2> QED BY <1>4, <2>1, <2>2 DEF StrictSubsetOrdering
<1> QED BY <1>5

(* The predecessor of a new row is as late as any row that is committed.     *)
LEMMA NewestIsLatest ==
  ASSUME TypeOK
  PROVE  Newest \in 0 .. lastId /\ \A e \in log : e.id <= Newest
<1>1. lastId \in Nat /\ \A e \in log : e.id \in Nat /\ e.id <= lastId
  BY DEF TypeOK, Rows
<1>2. CASE log = {}
  BY <1>1, <1>2 DEF Newest
<1>3. CASE log # {}
  <2> DEFINE ids == { e.id : e \in log }
  <2>1. \E i \in ids : \A j \in ids : i >= j
    <3>1. ids \in SUBSET Nat /\ ids # {} /\ \A i \in ids : i <= lastId
      BY <1>1, <1>3
    <3> HIDE DEF ids
    <3> QED BY <1>1, <3>1, LargestExists
  <2>2. Newest = CHOOSE i \in ids : \A e \in log : i >= e.id
    BY <1>3 DEF Newest
  <2>3. Newest \in ids /\ \A e \in log : Newest >= e.id
    BY <2>1, <2>2
  <2> QED BY <1>1, <2>3
<1> QED BY <1>2, <1>3

(* What a handler sees on its connection. *)
LEMMA WorkPhase ==
  ASSUME TypeOK, NEW r \in Requests, NEW c \in Conns, Phase(r, c), todo[r] # <<>>, Head(todo[r]) = "WORK"
  PROVE  setting[c] = IF kind[r] \in Writes THEN Tenant[r] ELSE None
<1>1. kind[r] \in Kinds
  BY DEF TypeOK
<1>2. todo[r] # <<"CLEAR">>
  OBVIOUS
<1>3. todo[r] # Program[kind[r]]
  <2>1. Head(TenantTransaction) = "BEGIN" /\ Head(Transaction) = "BEGIN"
    BY DEF TenantTransaction, Transaction
  <2>2. Head(Login) = "BEGIN" /\ Head(TenantClient) = "SET"
    BY DEF Login, TenantClient
  <2> QED BY <1>1, <2>1, <2>2, Programs DEF Kinds
<1>4. /\ todo[r] # <<"SET", "DRAW", "WORK", "COMMIT", "CLEAR">>
      /\ todo[r] # <<"DRAW", "WORK", "COMMIT", "CLEAR">> /\ todo[r] # <<"SET_LOCAL">>
  OBVIOUS
<1>5. todo[r] # Cleanup[kind[r]]
  <2>1. todo[r] # <<"ROLLBACK", "CLEAR">> /\ todo[r] # <<"ROLLBACK">>
    OBVIOUS
  <2> QED BY <1>1, <1>2, <2>1, Programs DEF Kinds
<1> QED BY <1>2, <1>3, <1>4, <1>5 DEF Phase, Clean, Writes

(* Nothing of the connection is open when there is nothing left to send.     *)
LEMMA DonePhase ==
  ASSUME TypeOK, NEW r \in Requests, NEW c \in Conns, Phase(r, c), todo[r] = <<>>
  PROVE  Clean(c)
<1>1. kind[r] \in Kinds
  BY DEF TypeOK
<1>2. Cleanup[kind[r]] # <<>>
  BY <1>1, Programs DEF Kinds
<1> QED BY <1>2 DEF Phase
-----------------------------------------------------------------------------
(* A step of one request on its connection c, which is in a known phase      *)
(* after it: the connections of the others and the pool are as before.       *)
LEMMA OwnConnection ==
  ASSUME ConnInv, NEW r \in Requests, NEW c \in Conns, holder[c] = r, Phase(r, c)',
         UNCHANGED <<kind, holder>>,
         \A q \in Requests \ {r} : todo'[q] = todo[q],
         \A d \in Conns \ {c} : inTx'[d] = inTx[d] /\ setting'[d] = setting[d]
  PROVE  Phases' /\ PoolIsClean'
<1>1. Phases'
  <2> SUFFICES ASSUME NEW q \in Requests, NEW d \in Conns, holder[d] = q PROVE Phase(q, d)'
    BY DEF Phases
  <2>1. CASE d = c
    BY <2>1
  <2>2. CASE d # c
    <3>1. q # r /\ Phase(q, d)
      BY <2>2, RequestsAssumption DEF ConnInv, TypeOK, Phases
    <3> QED BY <2>2, <3>1 DEF Phase, Clean
  <2> QED BY <2>1, <2>2
<1>2. PoolIsClean'
  BY RequestsAssumption DEF ConnInv, PoolIsClean
<1> QED BY <1>1, <1>2

LEMMA StatementStep == ASSUME ConnInv, NEW r \in Requests, Statement(r) PROVE ConnInv'
<1>1. /\ todo[r] # <<>> /\ todo' = [todo EXCEPT ![r] = Tail(todo[r])]
      /\ UNCHANGED <<kind, pc, outcome, answer, cache, answered, others, repeats, holder, faults>>
  BY DEF Statement, history
<1>2. PICK c \in Conns :
        /\ holder[c] = r
        /\ \/ Head(todo[r]) = "BEGIN" /\ inTx' = [inTx EXCEPT ![c] = TRUE]
              /\ UNCHANGED <<setting, open, log, lastId, drawn, saw>>
           \/ Head(todo[r]) = "SET" /\ SetConfig(r, c)
              /\ UNCHANGED <<inTx, open, log, lastId, drawn, saw>>
           \/ Head(todo[r]) = "DRAW" /\ Draw(r) /\ UNCHANGED <<inTx, setting, open, log, saw>>
           \/ Head(todo[r]) = "WORK" /\ Work(r, c) /\ UNCHANGED <<inTx, setting, log, lastId, drawn>>
           \/ Head(todo[r]) = "COMMIT" /\ EndTx(r, c) /\ log' = log \cup Mine(r)
              /\ UNCHANGED <<lastId, saw>>
           \/ Head(todo[r]) = "ROLLBACK" /\ EndTx(r, c) /\ UNCHANGED <<log, lastId, saw>>
           \/ Head(todo[r]) = "CLEAR"
              /\ UNCHANGED <<inTx, setting, open, log, lastId, drawn, saw>>
  BY DEF Statement, audit
<1>3. Phase(r, c) /\ pc[r] = "running"
  BY <1>1, <1>2 DEF ConnInv, Phases, TypeOK
<1>4. /\ inTx' \in [Conns -> BOOLEAN]
      /\ setting' \in [Conns -> { Tenant[q] : q \in Requests } \cup {None}]
      /\ \A d \in Conns \ {c} : inTx'[d] = inTx[d] /\ setting'[d] = setting[d]
      /\ \/ Head(todo[r]) = "BEGIN" /\ inTx'[c] = TRUE /\ setting'[c] = setting[c]
         \/ /\ Head(todo[r]) = "SET" /\ inTx'[c] = inTx[c]
            /\ setting'[c] = IF inTx[c] THEN Tenant[r] ELSE setting[c]
         \/ Head(todo[r]) \in {"DRAW", "WORK", "CLEAR"} /\ inTx'[c] = inTx[c] /\ setting'[c] = setting[c]
         \/ Head(todo[r]) \in {"COMMIT", "ROLLBACK"} /\ inTx'[c] = FALSE /\ setting'[c] = None
  <2>1. CASE Head(todo[r]) \in {"BEGIN", "DRAW", "WORK", "CLEAR"}
    BY <1>2, <2>1 DEF ConnInv, TypeOK
  <2>2. CASE Head(todo[r]) = "SET"
    <3>1. inTx' = inTx /\ setting' = IF inTx[c] THEN [setting EXCEPT ![c] = Tenant[r]] ELSE setting
      BY <1>2, <2>2 DEF SetConfig
    <3> QED BY <2>2, <3>1 DEF ConnInv, TypeOK
  <2>3. CASE Head(todo[r]) \in {"COMMIT", "ROLLBACK"}
    BY <1>2, <2>3 DEF ConnInv, TypeOK, EndTx
  <2> QED BY <1>2, <2>1, <2>2, <2>3
<1>5. todo'[r] = Tail(todo[r]) /\ \A q \in Requests \ {r} : todo'[q] = todo[q]
  BY <1>1 DEF ConnInv, TypeOK
<1>6. Phase(r, c)'
  <2>1. inTx'[c] \in BOOLEAN /\ kind'[r] = kind[r]
    BY <1>1, <1>4
  <2>2. Effect(r, c, inTx'[c], setting'[c])
    BY <1>4 DEF Effect
  <2>3. After(r, todo'[r], inTx'[c], setting'[c])
    BY <1>1, <1>3, <1>5, <2>1, <2>2, PhaseStep DEF ConnInv
  <2> QED BY <2>1, <2>3 DEF After, Phase, Clean
<1>7. Phases' /\ PoolIsClean'
  BY <1>1, <1>2, <1>4, <1>5, <1>6, OwnConnection
<1>8. SeesOwn'
  <2>1. CASE Head(todo[r]) = "WORK"
    <3>1. saw' = saw \cup {<<r, setting[c]>>}
      BY <1>2, <2>1 DEF Work
    <3>2. setting[c] = IF kind[r] \in Writes THEN Tenant[r] ELSE None
      BY <1>1, <1>3, <2>1, WorkPhase DEF ConnInv
    <3> QED BY <1>1, <3>1, <3>2 DEF ConnInv, SeesOwn
  <2>2. CASE Head(todo[r]) # "WORK"
    BY <1>1, <1>2, <2>2 DEF ConnInv, SeesOwn
  <2> QED BY <2>1, <2>2
<1>9. /\ {open', log'} \subseteq SUBSET Rows /\ lastId' \in Nat /\ drawn' \in [Requests -> 0 .. lastId']
      /\ saw' \subseteq Requests \X ({ Tenant[q] : q \in Requests } \cup {None})
      /\ \A e \in open' \cup log' : e.id <= lastId'
  <2>1. CASE Head(todo[r]) = "WORK"
    <3>1. saw' = saw \cup {<<r, setting[c]>>} /\ UNCHANGED <<log, lastId, drawn>>
      BY <1>2, <2>1 DEF Work
    <3>2. saw' \subseteq Requests \X ({ Tenant[q] : q \in Requests } \cup {None})
      <4>1. setting[c] \in { Tenant[q] : q \in Requests } \cup {None}
        BY DEF ConnInv, TypeOK
      <4> QED BY <3>1, <4>1 DEF ConnInv, TypeOK
    <3>3. CASE kind[r] \in Writes
      <4> DEFINE row == [by |-> r, id |-> drawn[r], prev |-> Newest,
                         during |-> { drawn[q] : q \in Requests \ {r} } \ {0}]
      <4>1. open' = open \cup {row}
        BY <1>2, <2>1, <3>3 DEF Work
      <4>2. Newest \in Nat /\ lastId \in Nat
        BY NewestIsLatest DEF ConnInv, TypeOK
      <4>3. \A q \in Requests : drawn[q] \in Nat /\ drawn[q] <= lastId
        BY <4>2 DEF ConnInv, TypeOK
      <4>4. row \in Rows
        BY <4>2, <4>3 DEF Rows
      <4>5. row.id <= lastId
        BY <4>3
      <4> HIDE DEF row
      <4> QED BY <3>1, <3>2, <4>1, <4>2, <4>4, <4>5 DEF ConnInv, TypeOK
    <3>4. CASE kind[r] \notin Writes
      BY <1>2, <2>1, <3>1, <3>2, <3>4 DEF Work, ConnInv, TypeOK
    <3> QED BY <3>3, <3>4
  <2>2. CASE Head(todo[r]) \in {"COMMIT", "ROLLBACK"}
    <3>1. /\ open' = open \ Mine(r) /\ log' \in {log, log \cup Mine(r)} /\ UNCHANGED <<lastId, saw>>
          /\ drawn' = [drawn EXCEPT ![r] = 0]
      BY <1>2, <2>2 DEF EndTx
    <3> QED BY <3>1 DEF Mine, ConnInv, TypeOK
  <2>3. CASE Head(todo[r]) = "DRAW"
    <3>1. /\ lastId' = lastId + 1 /\ drawn' = [drawn EXCEPT ![r] = lastId + 1]
          /\ UNCHANGED <<open, log, saw>>
      BY <1>2, <2>3 DEF Draw
    <3>2. /\ lastId \in Nat /\ drawn \in [Requests -> 0 .. lastId]
          /\ \A e \in open \cup log : e.id \in Nat /\ e.id <= lastId
      BY DEF Rows, ConnInv, TypeOK
    <3>3. drawn' \in [Requests -> 0 .. lastId']
      <4>1. 0 .. lastId \subseteq 0 .. lastId + 1 /\ lastId + 1 \in 0 .. lastId + 1
        BY <3>2
      <4> QED BY <3>1, <3>2, <4>1
    <3> QED BY <3>1, <3>2, <3>3 DEF ConnInv, TypeOK
  <2>4. CASE Head(todo[r]) \notin {"DRAW", "WORK", "COMMIT", "ROLLBACK"}
    BY <1>2, <2>4 DEF ConnInv, TypeOK
  <2> QED BY <2>1, <2>2, <2>3, <2>4
<1>10. TypeOK'
  <2>1. todo' \in [Requests -> Seq(Statements)]
    BY <1>1 DEF ConnInv, TypeOK
  <2>2. \A q \in Requests : todo'[q] # <<>> => pc'[q] = "running"
    BY <1>1, <1>3, <1>5 DEF ConnInv, TypeOK
  <2> QED BY <1>1, <1>4, <1>9, <2>1, <2>2 DEF ConnInv, TypeOK
<1> QED BY <1>7, <1>8, <1>10 DEF ConnInv
LEMMA FailsStep == ASSUME ConnInv, NEW r \in Requests, Fails(r) PROVE ConnInv'
<1>1. /\ todo[r] # <<>> /\ todo' = [todo EXCEPT ![r] = Cleanup[kind[r]]]
      /\ outcome' \in {outcome, [outcome EXCEPT ![r] = "error"]}
      /\ UNCHANGED <<kind, pc, answer, cache, answered, others, repeats>>
      /\ UNCHANGED <<holder, inTx, setting, open, log, lastId, drawn, saw>>
  BY DEF Fails, MarkFailed, database, history, audit
<1>2. faults' \in 0 .. MaxFaults
  BY BoundsAssumption DEF Fails, Fault, ConnInv, TypeOK
<1>3. TypeOK'
  <2>1. todo' \in [Requests -> Seq(Statements)]
    BY <1>1, ProgramTypes DEF ConnInv, TypeOK
  <2>2. \A q \in Requests : todo'[q] # <<>> => pc'[q] = "running"
    BY <1>1 DEF ConnInv, TypeOK
  <2>3. outcome' \in [Requests -> {"ok", "error"}]
    BY <1>1 DEF ConnInv, TypeOK
  <2> QED BY <1>1, <1>2, <2>1, <2>2, <2>3 DEF ConnInv, TypeOK
<1>4. Phases'
  <2> SUFFICES ASSUME NEW q \in Requests, NEW c \in Conns, holder[c] = q PROVE Phase(q, c)'
    BY <1>1 DEF Phases
  <2>1. Phase(q, c)
    BY DEF ConnInv, Phases
  <2>2. CASE q # r
    <3>1. todo'[q] = todo[q]
      BY <1>1, <2>2 DEF ConnInv, TypeOK
    <3> QED BY <1>1, <2>1, <3>1 DEF Phase, Clean
  <2>3. CASE q = r
    <3>1. todo'[r] = Cleanup[kind[r]]
      BY <1>1 DEF ConnInv, TypeOK
    <3>2. CASE kind[r] # "read"
      BY <1>1, <2>3, <3>1, <3>2 DEF Phase
    <3>3. CASE kind[r] = "read"
      <4>1. Clean(c)
        BY <2>1, <2>3, <3>3 DEF Phase, Writes
      <4> QED BY <1>1, <2>3, <3>1, <3>3, <4>1, Programs DEF Phase, Clean
    <3> QED BY <3>2, <3>3
  <2> QED BY <2>2, <2>3
<1>5. PoolIsClean' /\ SeesOwn'
  BY <1>1 DEF ConnInv, PoolIsClean, SeesOwn
<1> QED BY <1>3, <1>4, <1>5 DEF ConnInv

(* A lost connection is replaced, and whoever has it has nothing to send.    *)
LEMMA LoseStep == ASSUME ConnInv, NEW r \in Requests, Lose(r) PROVE ConnInv'
<1>1. PICK c \in Conns : holder[c] = r /\ EndTx(r, c)
  BY DEF Lose
<1>2. /\ todo[r] # <<>> /\ todo' = [todo EXCEPT ![r] = <<>>]
      /\ outcome' \in {outcome, [outcome EXCEPT ![r] = "error"]}
      /\ log' \in {log, log \cup Mine(r)}
      /\ UNCHANGED <<kind, pc, answer, cache, answered, others, repeats, holder, lastId, saw>>
  BY DEF Lose, MarkFailed, history
<1>3. /\ inTx' = [inTx EXCEPT ![c] = FALSE] /\ setting' = [setting EXCEPT ![c] = None]
      /\ open' = open \ Mine(r) /\ drawn' = [drawn EXCEPT ![r] = 0]
  BY <1>1 DEF EndTx
<1>4. TypeOK'
  <2>1. faults' \in 0 .. MaxFaults
    BY BoundsAssumption DEF Lose, Fault, ConnInv, TypeOK
  <2>2. todo' \in [Requests -> Seq(Statements)] /\ outcome' \in [Requests -> {"ok", "error"}]
    <3>1. <<>> \in Seq(Statements)
      OBVIOUS
    <3>2. todo' \in [Requests -> Seq(Statements)]
      BY <1>2, <3>1 DEF ConnInv, TypeOK
    <3> QED BY <1>2, <3>2 DEF ConnInv, TypeOK
  <2>3. \A q \in Requests : todo'[q] # <<>> => pc'[q] = "running"
    BY <1>2 DEF ConnInv, TypeOK
  <2>4. open' \subseteq open /\ log' \subseteq open \cup log
    BY <1>2, <1>3 DEF Mine
  <2>5. /\ {open', log'} \subseteq SUBSET Rows
        /\ \A e \in open' \cup log' : e.id <= lastId
    BY <2>4 DEF ConnInv, TypeOK
  <2>6. /\ inTx' \in [Conns -> BOOLEAN]
        /\ setting' \in [Conns -> { Tenant[q] : q \in Requests } \cup {None}]
        /\ drawn' \in [Requests -> 0 .. lastId]
    BY <1>3 DEF ConnInv, TypeOK
  <2> QED BY <1>2, <2>1, <2>2, <2>3, <2>5, <2>6 DEF ConnInv, TypeOK
<1>5. Phase(r, c)'
  BY <1>2, <1>3 DEF ConnInv, TypeOK, Phase, Clean
<1>6. /\ \A q \in Requests \ {r} : todo'[q] = todo[q]
      /\ \A d \in Conns \ {c} : inTx'[d] = inTx[d] /\ setting'[d] = setting[d]
  BY <1>2, <1>3 DEF ConnInv, TypeOK
<1>7. Phases' /\ PoolIsClean'
  BY <1>1, <1>2, <1>5, <1>6, OwnConnection
<1>8. SeesOwn'
  BY <1>2 DEF ConnInv, SeesOwn
<1> QED BY <1>4, <1>7, <1>8 DEF ConnInv

(* A connection goes back when there is nothing left to send on it.          *)
LEMMA ReleaseStep == ASSUME ConnInv, NEW r \in Requests, ReleaseAndAnswer(r) PROVE ConnInv'
<1>1. /\ pc[r] = "running" /\ todo[r] = <<>>
      /\ holder' = [c \in Conns |-> IF holder[c] = r THEN None ELSE holder[c]]
      /\ pc' = [pc EXCEPT ![r] = "answered"]
      /\ answer' = [answer EXCEPT ![r] = [by |-> r, outcome |-> outcome[r]]]
      /\ UNCHANGED <<kind, todo, outcome, repeats, inTx, setting, open, log, lastId, drawn, saw, faults>>
  BY DEF ReleaseAndAnswer, Answer, audit
<1>2. outcome[r] \in {"ok", "error"}
  BY DEF ConnInv, TypeOK
<1>3. CacheOK' /\ HistoryOK'
  <2>1. CacheOK'
    BY <1>2, StoreKeyFacts DEF ReleaseAndAnswer, ConnInv
  <2>2. HistoryOK'
    BY NoteTypes DEF ReleaseAndAnswer, ConnInv, TypeOK, HistoryOK
  <2> QED BY <2>1, <2>2
<1>4. TypeOK'
  <2>1. answer' \in [Requests -> Answers \cup {None}]
    BY <1>1, <1>2 DEF ConnInv, TypeOK, Answers
  <2>2. /\ holder' \in [Conns -> Requests \cup {None}]
        /\ \A d \in Conns : holder'[d] # None => holder'[d] = holder[d] /\ holder[d] # r
    BY <1>1 DEF ConnInv, TypeOK
  <2>3. /\ \A d \in Conns : holder'[d] # None => pc'[holder'[d]] = "running"
        /\ \A d, e \in Conns : holder'[d] = holder'[e] /\ holder'[d] # None => d = e
    BY <1>1, <2>2 DEF ConnInv, TypeOK
  <2>4. \A q \in Requests : todo'[q] # <<>> => pc'[q] = "running"
    BY <1>1 DEF ConnInv, TypeOK
  <2>5. /\ pc' \in [Requests -> {"new", "queued", "running", "answered"}]
        /\ cache' \in Seq(Entries) /\ Len(cache') <= CacheSize
        /\ \A i, j \in DOMAIN cache' : cache'[i].key = cache'[j].key => i = j
        /\ answered' \subseteq Keys /\ others' \in [Keys -> SUBSET Keys]
    BY <1>1, <1>3 DEF ConnInv, TypeOK, CacheOK, KeysDiffer, HistoryOK
  <2> QED BY <1>1, <2>1, <2>2, <2>3, <2>4, <2>5 DEF ConnInv, TypeOK
<1>5. Phases'
  <2> SUFFICES ASSUME NEW q \in Requests, NEW c \in Conns, holder'[c] = q PROVE Phase(q, c)'
    BY DEF Phases
  <2>1. holder[c] = q
    BY <1>1, RequestsAssumption
  <2> QED BY <1>1, <2>1 DEF ConnInv, Phases, Phase, Clean
<1>6. PoolIsClean'
  <2>1. \A c \in Conns : holder[c] = r => Clean(c)
    BY <1>1, DonePhase DEF ConnInv, Phases
  <2> QED BY <1>1, <2>1 DEF ConnInv, PoolIsClean, Clean
<1>7. SeesOwn'
  BY <1>1 DEF ConnInv, SeesOwn
<1> QED BY <1>4, <1>5, <1>6, <1>7 DEF ConnInv

LEMMA RestartStep == ASSUME ConnInv, Restart PROVE ConnInv'
<1> DEFINE cut == { r \in Requests : pc[r] \in {"queued", "running"} }
<1>1. /\ cache' = <<>>
      /\ pc' = [r \in Requests |-> IF r \in cut THEN "answered" ELSE pc[r]]
      /\ answer' = [r \in Requests |-> IF r \in cut THEN [by |-> r, outcome |-> "error"] ELSE answer[r]]
      /\ todo' = [r \in Requests |-> <<>>]
      /\ holder' = [c \in Conns |-> None] /\ inTx' = [c \in Conns |-> FALSE]
      /\ setting' = [c \in Conns |-> None] /\ open' = {} /\ drawn' = [r \in Requests |-> 0]
      /\ answered' = {} /\ others' = [k \in Keys |-> {}]
      /\ UNCHANGED <<kind, outcome, repeats, log, lastId, saw>>
  BY DEF Restart
<1>2. TypeOK'
  <2>1. faults' \in 0 .. MaxFaults
    BY BoundsAssumption DEF Restart, Fault, ConnInv, TypeOK
  <2>2. /\ pc' \in [Requests -> {"new", "queued", "running", "answered"}]
        /\ answer' \in [Requests -> Answers \cup {None}]
    BY <1>1 DEF ConnInv, TypeOK, Answers
  <2>3. /\ cache' \in Seq(Entries) /\ Len(cache') <= CacheSize /\ DOMAIN cache' = {}
    BY <1>1, BoundsAssumption
  <2>4. /\ todo' \in [Requests -> Seq(Statements)] /\ inTx' \in [Conns -> BOOLEAN]
        /\ \A q \in Requests : todo'[q] = <<>>
    BY <1>1
  <2>5. drawn' \in [Requests -> 0 .. lastId] /\ others' \in [Keys -> SUBSET Keys]
    BY <1>1 DEF ConnInv, TypeOK
  <2> QED BY <1>1, <2>1, <2>2, <2>3, <2>4, <2>5 DEF ConnInv, TypeOK
<1>3. Phases'
  BY <1>1, RequestsAssumption DEF Phases
<1>4. PoolIsClean' /\ SeesOwn'
  BY <1>1 DEF ConnInv, PoolIsClean, SeesOwn
<1> QED BY <1>2, <1>3, <1>4 DEF ConnInv

LEMMA InitStep == Init => ConnInv
<1> SUFFICES ASSUME Init PROVE ConnInv
  OBVIOUS
<1>1. TypeOK
  <2>1. faults \in 0 .. MaxFaults /\ Len(cache) <= CacheSize /\ cache \in Seq(Entries) /\ DOMAIN cache = {}
    BY BoundsAssumption DEF Init
  <2>2. todo \in [Requests -> Seq(Statements)] /\ \A q \in Requests : todo[q] = <<>>
    BY DEF Init
  <2> QED BY <2>1, <2>2 DEF Init, TypeOK
<1>2. Phases /\ PoolIsClean /\ SeesOwn
  BY RequestsAssumption DEF Init, Phases, PoolIsClean, SeesOwn
<1> QED BY <1>1, <1>2 DEF ConnInv

(* ConnInv is an invariant: each open connection is at a place of its        *)
(* helper's program with the transaction and the tenant that belong there.   *)
THEOREM ConnInductive == Spec => []ConnInv
<1>1. ConnInv /\ [Next]_vars => ConnInv'
  <2> SUFFICES ASSUME ConnInv, [Next]_vars PROVE ConnInv'
    OBVIOUS
  <2>1. CASE UNCHANGED vars
    <3>1. TypeOK'
      BY <2>1 DEF vars, process, history, database, audit, ConnInv, TypeOK
    <3> QED BY <2>1, <3>1, QuietFrame DEF vars, process, database, ConnInv
  <2>2. CASE Next
    BY <2>2, RefuseStep, ReplayStep, InvalidStep, AcceptStep, ConnectStep, ConnectTimeoutStep,
       StatementStep, FailsStep, LoseStep, ReleaseStep, RestartStep DEF Next, Step
  <2> QED BY <2>1, <2>2
<1> QED BY <1>1, InitStep, PTL DEF Spec

(* Every variable of the request path keeps its type: a connection has one   *)
(* request, which runs, and the cache is within its size and without         *)
(* duplicate keys.                                                           *)
THEOREM RequestPathTypeCorrect == Spec => []TypeOK
<1>1. ConnInv => TypeOK
  BY DEF ConnInv
<1> QED BY <1>1, ConnInductive, PTL

(* Whatever fails in a helper of transaction.ts or in login, a connection    *)
(* goes back to the pool without a transaction and without a tenant.         *)
THEOREM PoolStaysClean == Spec => []PoolIsClean
<1>1. ConnInv => PoolIsClean
  BY DEF ConnInv
<1> QED BY <1>1, ConnInductive, PTL

(* A handler that writes sees the tenant of its own request, and no handler  *)
(* sees that of another, however connections are passed on.                  *)
THEOREM TenantsAreApart == Spec => []OwnTenant
<1>1. ConnInv => OwnTenant
  <2> SUFFICES ASSUME ConnInv, NEW x \in saw
               PROVE  x[2] \in CASE kind[x[1]] \in Writes -> {Tenant[x[1]]}
                                 [] kind[x[1]] = "read" -> {Tenant[x[1]], None}
                                 [] OTHER -> {None}
    BY DEF OwnTenant
  <2>1. x[2] = IF kind[x[1]] \in Writes THEN Tenant[x[1]] ELSE None
    BY DEF ConnInv, SeesOwn
  <2>2. "read" \notin Writes
    BY DEF Writes
  <2>3. CASE kind[x[1]] \in Writes
    BY <2>1, <2>2, <2>3
  <2>4. CASE kind[x[1]] \notin Writes
    BY <2>1, <2>4
  <2> QED BY <2>3, <2>4
<1> QED BY <1>1, ConnInductive, PTL
-----------------------------------------------------------------------------
(* Keys: an answered key is in the cache, with only keys of others behind    *)
(* it, until as many others as the cache holds have been answered.           *)
Holds(c, k, O) ==
  \E i \in DOMAIN c : c[i].key = k /\ \A j \in DOMAIN c : j > i => c[j].key \in O

Due ==
  /\ \A i \in DOMAIN cache : cache[i].key \in answered
  /\ \A k \in Keys : IsFiniteSet(others[k])
  /\ \A k \in answered : Cardinality(others[k]) < CacheSize => Holds(cache, k, others[k])

(* A request that repeats an answered key has been answered without a run.   *)
Repeated ==
  /\ \A r \in repeats : pc[r] = "answered" /\ r \notin Committed
  /\ \A r \in Committed : pc[r] # "new"

KeyInv == Due /\ Repeated

(* The entry that leaves a cache that is too large is either not that of k,  *)
(* or more keys than the cache holds came behind it.                         *)
LEMMA EvictOldest ==
  ASSUME NEW d \in Seq(Entries), KeysDiffer(d), Len(d) > CacheSize, CacheSize \in Nat \ {0},
         NEW k, NEW O, IsFiniteSet(O), Cardinality(O) < CacheSize, Holds(d, k, O)
  PROVE  Holds(Tail(d), k, O)
<1> DEFINE t == Tail(d)
<1>1. /\ Len(d) \in Nat /\ DOMAIN d = 1 .. Len(d) /\ DOMAIN t = 1 .. Len(d) - 1
      /\ \A i \in 1 .. Len(d) - 1 : t[i] = d[i + 1]
  OBVIOUS
<1> HIDE DEF t
<1>2. PICK i \in DOMAIN d : d[i].key = k /\ \A j \in DOMAIN d : j > i => d[j].key \in O
  BY DEF Holds
<1>3. i # 1
  <2> SUFFICES ASSUME i = 1 PROVE FALSE
    OBVIOUS
  <2> DEFINE S == 2 .. Len(d)
             f == [j \in S |-> d[j].key]
  <2>1. IsFiniteSet(S) /\ Cardinality(S) = Len(d) - 1
    <3>1. 2 \in Int /\ Len(d) \in Int /\ Len(d) >= 2
      BY <1>1
    <3> QED BY <3>1, FS_Interval
  <2>2. S \subseteq DOMAIN d /\ \A j \in S : j > 1
    BY <1>1
  <2>3. f \in [S -> O]
    BY <1>2, <2>2
  <2>4. Cardinality(O) \in Nat /\ Cardinality(O) < Cardinality(S)
    BY <1>1, <2>1, FS_CardinalityType
  <2>5. \E x, y \in S : x # y /\ f[x] = f[y]
    <3> HIDE DEF S, f
    <3> QED BY <2>1, <2>3, <2>4, FS_PigeonHole
  <2> QED BY <2>2, <2>5 DEF KeysDiffer
<1>4. i - 1 \in DOMAIN t /\ t[i - 1].key = k
  BY <1>1, <1>2, <1>3
<1>5. \A j \in DOMAIN t : j > i - 1 => t[j].key \in O
  <2> SUFFICES ASSUME NEW j \in DOMAIN t, j > i - 1 PROVE t[j].key \in O
    OBVIOUS
  <2>1. j + 1 \in DOMAIN d /\ j + 1 > i /\ t[j] = d[j + 1]
    BY <1>1, <1>2
  <2> QED BY <1>2, <2>1
<1>6. Holds(t, k, O)
  BY <1>4, <1>5 DEF Holds
<1> QED BY <1>6 DEF t

(* An answer adds its key to the others of every key answered before.        *)
LEMMA NoteFacts ==
  ASSUME TypeOK, KeyInv, NEW r \in Requests, NoteAnswer(r), Key(r) # None
  PROVE  /\ Key(r) \in Keys /\ answered' = answered \cup {Key(r)}
         /\ \A k \in Keys : /\ IsFiniteSet(others'[k]) /\ others[k] \subseteq others'[k]
                            /\ Cardinality(others'[k]) < CacheSize => Cardinality(others[k]) < CacheSize
                            /\ k \in answered \ {Key(r)} => Key(r) \in others'[k]
<1> DEFINE x == Key(r)
<1>1. x \in Keys
  BY DEF Key, Keys
<1>2. answered' = answered \cup {x}
  BY DEF NoteAnswer
<1> HIDE DEF x
<1>3. others' = [k \in Keys |-> IF k \in answered \ {x} THEN others[k] \cup {x} ELSE others[k]]
  BY DEF NoteAnswer, x
<1>4. ASSUME NEW k \in Keys
      PROVE  /\ IsFiniteSet(others'[k]) /\ others[k] \subseteq others'[k]
             /\ Cardinality(others'[k]) < CacheSize => Cardinality(others[k]) < CacheSize
             /\ k \in answered \ {x} => x \in others'[k]
  <2>1. IsFiniteSet(others[k])
    BY DEF KeyInv, Due
  <2>2. others'[k] = IF k \in answered \ {x} THEN others[k] \cup {x} ELSE others[k]
    BY <1>3
  <2>3. IsFiniteSet(others'[k])
    BY <2>1, <2>2, FS_AddElement
  <2>4. others[k] \subseteq others'[k]
    BY <2>2
  <2>5. Cardinality(others[k]) \in Nat /\ Cardinality(others'[k]) \in Nat
    BY <2>1, <2>3, FS_CardinalityType
  <2>6. Cardinality(others[k]) <= Cardinality(others'[k])
    BY <2>3, <2>4, FS_Subset
  <2>7. CacheSize \in Nat
    BY BoundsAssumption
  <2> QED BY <2>2, <2>3, <2>4, <2>5, <2>6, <2>7
<1> QED BY <1>1, <1>2, <1>4 DEF x

(* Storing and noting an answer keeps every answered key that is due.        *)
LEMMA StoreHolds ==
  ASSUME ConnInv, KeyInv, NEW r \in Requests, NEW result \in {"ok", "error"},
         StoreKey(r, result), NoteAnswer(r)
  PROVE  Due'
<1>1. CASE Key(r) = None
  <2>1. UNCHANGED <<cache, answered, others>>
    BY <1>1 DEF StoreKey, NoteAnswer
  <2> QED BY <2>1 DEF KeyInv, Due, Holds
<1>2. CASE Key(r) # None
  <2> DEFINE x == Key(r)
             d == WithKey(r, result)
  <2>1. /\ x \in Keys /\ answered' = answered \cup {x} /\ answered \subseteq Keys
        /\ \A k \in Keys : /\ IsFiniteSet(others'[k]) /\ others[k] \subseteq others'[k]
                           /\ Cardinality(others'[k]) < CacheSize => Cardinality(others[k]) < CacheSize
                           /\ k \in answered \ {x} => x \in others'[k]
    BY <1>2, NoteFacts DEF ConnInv, TypeOK
  <2>2. cache' = IF Len(d) > CacheSize THEN Tail(d) ELSE d
    BY <1>2 DEF StoreKey
  <2>3. /\ cache \in Seq(Entries) /\ KeysDiffer(cache)
        /\ Kept(r, result) \in Entries /\ Kept(r, result).key = x
    BY <1>2 DEF ConnInv, TypeOK, KeysDiffer, Key, Entries, Kept
  <2>4. /\ d \in Seq(Entries) /\ KeysDiffer(d)
        /\ \A i \in DOMAIN d : d[i].key \in answered'
        /\ \A k \in answered' : Cardinality(others'[k]) < CacheSize => Holds(d, k, others'[k])
    <3>1. CASE Cached(x) = {}
      <4>1. d = Append(cache, Kept(r, result))
        BY <3>1 DEF WithKey, Kept
      <4>2. \A i \in DOMAIN cache : cache[i].key # x
        BY <3>1 DEF Cached
      <4> HIDE DEF x, d
      <4>3. d \in Seq(Entries) /\ KeysDiffer(d)
        BY <2>3, <4>1, <4>2, AppendEntry
      <4>4. /\ DOMAIN cache = 1 .. Len(cache) /\ Len(cache) \in Nat /\ DOMAIN d = 1 .. Len(cache) + 1
            /\ \A i \in 1 .. Len(cache) : d[i] = cache[i]
            /\ d[Len(cache) + 1].key = x
        BY <2>3, <4>1
      <4>5. \A i \in DOMAIN d : d[i].key \in answered'
        BY <2>1, <4>4 DEF KeyInv, Due
      <4>6. Holds(d, x, others'[x])
        BY <4>4 DEF Holds
      <4>7. ASSUME NEW k \in answered, k # x, Cardinality(others'[k]) < CacheSize
            PROVE  Holds(d, k, others'[k])
        <5>1. PICK i \in DOMAIN cache : cache[i].key = k /\ \A j \in DOMAIN cache : j > i => cache[j].key \in others[k]
          BY <2>1, <4>7 DEF KeyInv, Due, Holds
        <5>2. others[k] \subseteq others'[k] /\ x \in others'[k]
          BY <2>1, <4>7
        <5>3. i \in DOMAIN d /\ d[i].key = k
          BY <4>4, <5>1
        <5>4. ASSUME NEW j \in DOMAIN d, j > i PROVE d[j].key \in others'[k]
          BY <4>4, <5>1, <5>2, <5>4
        <5> QED BY <5>3, <5>4 DEF Holds
      <4> QED BY <2>1, <4>3, <4>5, <4>6, <4>7
    <3>2. CASE Cached(x) # {}
      <4>1. d = [i \in DOMAIN cache |-> IF cache[i].key = Kept(r, result).key THEN Kept(r, result)
                                       ELSE cache[i]]
        BY <2>3, <3>2 DEF WithKey, Kept
      <4>2. x \in answered
        BY <3>2 DEF Cached, KeyInv, Due
      <4> HIDE DEF x, d
      <4>3. d \in Seq(Entries) /\ KeysDiffer(d)
        BY <2>3, <4>1, ReplaceEntry, Zenon
      <4>4. DOMAIN d = DOMAIN cache /\ \A i \in DOMAIN d : d[i].key = cache[i].key
        BY <4>1
      <4>5. \A i \in DOMAIN d : d[i].key \in answered'
        BY <2>1, <4>4 DEF KeyInv, Due
      <4>6. ASSUME NEW k \in answered', Cardinality(others'[k]) < CacheSize
            PROVE  Holds(d, k, others'[k])
        <5>1. k \in answered /\ k \in Keys
          BY <2>1, <4>2
        <5>2. Holds(cache, k, others[k]) /\ others[k] \subseteq others'[k]
          BY <2>1, <4>6, <5>1 DEF KeyInv, Due
        <5> QED BY <4>4, <5>2 DEF Holds
      <4> QED BY <4>3, <4>5, <4>6
    <3> QED BY <3>1, <3>2
  <2>5. CacheSize \in Nat \ {0} /\ Len(d) \in Nat
    BY <2>4, BoundsAssumption
  <2> HIDE DEF x, d
  <2>6. CASE Len(d) > CacheSize
    <3>1. cache' = Tail(d)
      BY <2>2, <2>6
    <3>2. \A i \in DOMAIN cache' : \E j \in DOMAIN d : cache'[i] = d[j]
      <4>1. d # <<>>
        BY <2>5, <2>6
      <4>2. DOMAIN Tail(d) = 1 .. Len(d) - 1 /\ DOMAIN d = 1 .. Len(d)
        BY <2>4, <4>1
      <4>3. \A i \in 1 .. Len(d) - 1 : Tail(d)[i] = d[i + 1]
        BY <2>4, <4>1
      <4> QED BY <2>5, <3>1, <4>2, <4>3
    <3>3. \A i \in DOMAIN cache' : cache'[i].key \in answered'
      BY <2>4, <3>2
    <3>4. ASSUME NEW k \in answered', Cardinality(others'[k]) < CacheSize
          PROVE  Holds(cache', k, others'[k])
      <4>1. k \in Keys /\ IsFiniteSet(others'[k]) /\ Holds(d, k, others'[k])
        BY <2>1, <2>4, <3>4
      <4> QED BY <2>4, <2>5, <2>6, <3>1, <3>4, <4>1, EvictOldest
    <3> QED BY <2>1, <3>3, <3>4 DEF Due
  <2>7. CASE ~(Len(d) > CacheSize)
    BY <2>1, <2>2, <2>4, <2>7 DEF Due
  <2> QED BY <2>6, <2>7
<1> QED BY <1>1, <1>2

(* What steps do to the rows of audit_log. *)
QuietRows == UNCHANGED audit

DrawRow(r) ==
  /\ lastId' = lastId + 1 /\ drawn' = [drawn EXCEPT ![r] = lastId + 1]
  /\ UNCHANGED <<open, log>>

NewRow(r) == [by |-> r, id |-> drawn[r], prev |-> Newest,
              during |-> { drawn[q] : q \in Requests \ {r} } \ {0}]

WriteRow(r) == open' = open \cup {NewRow(r)} /\ UNCHANGED <<log, lastId, drawn>>

EndRows(r) ==
  /\ open' = open \ Mine(r) /\ log' \in {log, log \cup Mine(r)} /\ lastId' = lastId
  /\ drawn' = [drawn EXCEPT ![r] = 0]

LEMMA StatementRows ==
  ASSUME ConnInv, NEW r \in Requests, Statement(r)
  PROVE  \E c \in Conns :
           /\ holder[c] = r /\ pc[r] = "running" /\ Phase(r, c)
           /\ \/ Head(todo[r]) \in {"BEGIN", "SET", "CLEAR"} /\ QuietRows
              \/ Head(todo[r]) = "DRAW" /\ DrawRow(r)
              \/ Head(todo[r]) = "WORK" /\ kind[r] \notin Writes /\ QuietRows
              \/ Head(todo[r]) = "WORK" /\ kind[r] \in Writes /\ WriteRow(r)
              \/ Head(todo[r]) = "COMMIT" /\ EndRows(r) /\ log' = log \cup Mine(r)
              \/ Head(todo[r]) = "ROLLBACK" /\ EndRows(r) /\ log' = log
<1>1. PICK c \in Conns :
        /\ holder[c] = r
        /\ \/ Head(todo[r]) = "BEGIN" /\ QuietRows
           \/ Head(todo[r]) = "SET" /\ QuietRows
           \/ Head(todo[r]) = "DRAW" /\ Draw(r) /\ UNCHANGED <<open, log>>
           \/ Head(todo[r]) = "WORK" /\ Work(r, c) /\ UNCHANGED <<log, lastId, drawn>>
           \/ Head(todo[r]) = "COMMIT" /\ EndTx(r, c) /\ log' = log \cup Mine(r) /\ lastId' = lastId
           \/ Head(todo[r]) = "ROLLBACK" /\ EndTx(r, c) /\ log' = log /\ lastId' = lastId
           \/ Head(todo[r]) = "CLEAR" /\ QuietRows
  BY DEF Statement, QuietRows
<1>2. pc[r] = "running" /\ Phase(r, c)
  BY <1>1 DEF Statement, ConnInv, TypeOK, Phases
<1>3. CASE Head(todo[r]) \in {"BEGIN", "SET", "CLEAR"}
  BY <1>1, <1>2, <1>3
<1>4. CASE Head(todo[r]) = "DRAW"
  BY <1>1, <1>2, <1>4 DEF Draw, DrawRow
<1>5. CASE Head(todo[r]) = "WORK"
  BY <1>1, <1>2, <1>5 DEF QuietRows, audit, WriteRow, NewRow, Work
<1>6. CASE Head(todo[r]) \in {"COMMIT", "ROLLBACK"}
  BY <1>1, <1>2, <1>6 DEF EndRows, EndTx
<1> QED BY <1>1, <1>3, <1>4, <1>5, <1>6

LEMMA LoseRows ==
  ASSUME ConnInv, NEW r \in Requests, Lose(r)
  PROVE  pc[r] = "running" /\ EndRows(r)
BY DEF Lose, EndTx, EndRows, ConnInv, TypeOK

(* The rows that a COMMIT publishes are those of a request that runs.        *)
LEMMA EndCommitted ==
  ASSUME NEW r \in Requests, EndRows(r)
  PROVE  \A q \in Committed' : q \in Committed \/ q = r
BY DEF EndRows, Committed, Mine

(* Steps that leave the cache alone. *)
LEMMA DueFrame == ASSUME KeyInv, UNCHANGED <<cache, answered, others>> PROVE Due'
BY DEF KeyInv, Due, Holds

(* Steps with which no new request comes. *)
LEMMA RepeatedFrame ==
  ASSUME ConnInv, KeyInv, repeats' = repeats,
         \A q \in Requests : /\ pc[q] = "answered" => pc'[q] = "answered"
                             /\ pc[q] # "new" => pc'[q] # "new",
         \A q \in Committed' : q \in Requests /\ (q \in Committed \/ pc[q] = "running")
  PROVE  Repeated'
<1>1. repeats \subseteq Requests
  BY DEF ConnInv, TypeOK
<1> QED BY <1>1 DEF KeyInv, Repeated

(* A request whose key is not in the cache does not repeat a key that is due.*)
LEMMA ArriveFresh ==
  ASSUME KeyInv, NEW r \in Requests, Arrive(r), Cached(Key(r)) = {}
  PROVE  repeats' = repeats
<1>1. Key(r) \in answered /\ Cardinality(others[Key(r)]) < CacheSize => Cached(Key(r)) # {}
  BY DEF KeyInv, Due, Holds, Cached
<1> QED BY <1>1 DEF Arrive

LEMMA KeyStep == ASSUME ConnInv, KeyInv, [Next]_vars PROVE KeyInv'
<1>1. Committed \subseteq Requests
  BY DEF Committed, ConnInv, TypeOK, Rows
<1>2. CASE UNCHANGED vars
  <2>1. UNCHANGED <<cache, answered, others, repeats, pc, log>>
    BY <1>2 DEF vars, process, history, database, audit
  <2> QED BY <1>1, <2>1, DueFrame, RepeatedFrame DEF KeyInv, Committed
<1>3. ASSUME NEW r \in Requests, Refuse(r) PROVE KeyInv'
  <2>1. /\ pc' = [pc EXCEPT ![r] = "answered"]
        /\ UNCHANGED <<cache, answered, others, repeats, log>>
    BY <1>3 DEF Refuse, Answer, history, database, audit
  <2> QED BY <1>1, <2>1, DueFrame, RepeatedFrame DEF KeyInv, Committed, ConnInv, TypeOK
<1>4. ASSUME NEW r \in Requests, Replay(r) PROVE KeyInv'
  <2>1. /\ pc[r] = "new" /\ pc' = [pc EXCEPT ![r] = "answered"] /\ repeats' \subseteq repeats \cup {r}
        /\ UNCHANGED <<cache, answered, others, log>>
    BY <1>4 DEF Replay, Answer, Arrive, database, audit
  <2>2. Due'
    BY <2>1, DueFrame
  <2>3. Committed' = Committed /\ r \notin Committed
    BY <2>1 DEF Committed, KeyInv, Repeated
  <2>4. Repeated'
    BY <1>1, <2>1, <2>3 DEF KeyInv, Repeated, ConnInv, TypeOK
  <2> QED BY <2>2, <2>4 DEF KeyInv
<1>5. ASSUME NEW r \in Requests, Invalid(r) PROVE KeyInv'
  <2>1. /\ pc' = [pc EXCEPT ![r] = "answered"] /\ log' = log
        /\ Cached(Key(r)) = {} /\ Arrive(r) /\ StoreKey(r, "error") /\ NoteAnswer(r)
    BY <1>5 DEF Invalid, Answer, database, audit
  <2>2. Due' /\ repeats' = repeats
    BY <2>1, StoreHolds, ArriveFresh
  <2> QED BY <1>1, <2>1, <2>2, RepeatedFrame DEF KeyInv, Committed, ConnInv, TypeOK
<1>6. ASSUME NEW r \in Requests, Accept(r) PROVE KeyInv'
  <2>1. /\ pc[r] = "new" /\ pc' = [pc EXCEPT ![r] = "queued"] /\ Cached(Key(r)) = {} /\ Arrive(r)
        /\ UNCHANGED <<cache, answered, others, log>>
    BY <1>6 DEF Accept, database, audit
  <2>2. repeats' = repeats
    BY <2>1, ArriveFresh
  <2>3. Due'
    BY <2>1, DueFrame
  <2> QED BY <1>1, <2>1, <2>2, <2>3, RepeatedFrame DEF KeyInv, Committed, ConnInv, TypeOK
<1>7. ASSUME NEW r \in Requests, ConnectTimeout(r) PROVE KeyInv'
  <2>1. PICK result \in {"ok", "error"} : StoreKey(r, result)
    BY <1>7 DEF ConnectTimeout
  <2>2. pc' = [pc EXCEPT ![r] = "answered"] /\ NoteAnswer(r) /\ repeats' = repeats /\ log' = log
    BY <1>7 DEF ConnectTimeout, Answer, database, audit
  <2>3. Due'
    BY <2>1, <2>2, StoreHolds
  <2> QED BY <1>1, <2>2, <2>3, RepeatedFrame DEF KeyInv, Committed, ConnInv, TypeOK
<1>8. ASSUME NEW r \in Requests, Connect(r) PROVE KeyInv'
  <2>1. /\ pc[r] = "queued" /\ pc' = [pc EXCEPT ![r] = "running"]
        /\ UNCHANGED <<cache, answered, others, repeats, log>>
    BY <1>8 DEF Connect, history, audit
  <2> QED BY <1>1, <2>1, DueFrame, RepeatedFrame DEF KeyInv, Committed, ConnInv, TypeOK
<1>9. ASSUME NEW r \in Requests, Statement(r) PROVE KeyInv'
  <2>1. UNCHANGED <<pc, cache, answered, others, repeats>>
    BY <1>9 DEF Statement, history
  <2>2. pc[r] = "running" /\ (UNCHANGED log \/ EndRows(r))
    BY <1>9, StatementRows DEF QuietRows, audit, DrawRow, WriteRow
  <2>3. \A q \in Committed' : q \in Requests /\ (q \in Committed \/ pc[q] = "running")
    BY <1>1, <2>2, EndCommitted DEF Committed
  <2> QED BY <2>1, <2>3, DueFrame, RepeatedFrame DEF KeyInv
<1>10. ASSUME NEW r \in Requests, Fails(r) PROVE KeyInv'
  <2>1. UNCHANGED <<pc, cache, answered, others, repeats, log>>
    BY <1>10 DEF Fails, history, database, audit
  <2> QED BY <1>1, <2>1, DueFrame, RepeatedFrame DEF KeyInv, Committed
<1>11. ASSUME NEW r \in Requests, Lose(r) PROVE KeyInv'
  <2>1. UNCHANGED <<pc, cache, answered, others, repeats>>
    BY <1>11 DEF Lose, history
  <2>2. \A q \in Committed' : q \in Requests /\ (q \in Committed \/ pc[q] = "running")
    BY <1>1, <1>11, LoseRows, EndCommitted
  <2> QED BY <2>1, <2>2, DueFrame, RepeatedFrame DEF KeyInv
<1>12. ASSUME NEW r \in Requests, ReleaseAndAnswer(r) PROVE KeyInv'
  <2>1. /\ pc' = [pc EXCEPT ![r] = "answered"] /\ repeats' = repeats /\ log' = log
        /\ StoreKey(r, outcome[r]) /\ NoteAnswer(r)
    BY <1>12 DEF ReleaseAndAnswer, Answer, audit
  <2>2. outcome[r] \in {"ok", "error"}
    BY DEF ConnInv, TypeOK
  <2>3. Due'
    BY <2>1, <2>2, StoreHolds
  <2> QED BY <1>1, <2>1, <2>3, RepeatedFrame DEF KeyInv, Committed, ConnInv, TypeOK
<1>13. CASE Restart
  <2>1. /\ pc' = [r \in Requests |-> IF pc[r] \in {"queued", "running"} THEN "answered" ELSE pc[r]]
        /\ cache' = <<>> /\ answered' = {} /\ others' = [k \in Keys |-> {}]
        /\ UNCHANGED <<repeats, log>>
    BY <1>13 DEF Restart
  <2>2. IsFiniteSet({}) /\ DOMAIN cache' = {}
    BY <2>1, FS_EmptySet
  <2>3. Due'
    BY <2>1, <2>2 DEF Due
  <2> QED BY <1>1, <2>1, <2>3, RepeatedFrame DEF KeyInv, Committed
<1> QED BY <1>2, <1>3, <1>4, <1>5, <1>6, <1>7, <1>8, <1>9, <1>10, <1>11, <1>12, <1>13 DEF Next, Step

(* A request that repeats an answered key never runs, for any size of the    *)
(* cache and any number of requests: no order in which answers are stored,   *)
(* replaced and evicted lets a key go before as many others as the cache     *)
(* holds have been answered since.                                           *)
THEOREM KeysRunOnce == Spec => []KeyRunsOnce
<1>1. KeyInv => KeyRunsOnce
  BY DEF KeyInv, Repeated, KeyRunsOnce
<1>2. Init => KeyInv
  <2>1. IsFiniteSet({})
    BY FS_EmptySet
  <2> QED BY <2>1 DEF Init, KeyInv, Due, Repeated, Committed
<1> QED BY <1>1, <1>2, KeyStep, ConnInductive, PTL DEF Spec
-----------------------------------------------------------------------------
(* A writer has a row only between its WORK and the end of its transaction,  *)
(* and an id before.                                                         *)
WriterAt ==
  /\ \A e \in open : /\ kind[e.by] \in Writes
                     /\ todo[e.by] \in {<<"COMMIT", "CLEAR">>, <<"ROLLBACK", "CLEAR">>}
  /\ \A r \in Requests : todo[r] = <<"WORK", "COMMIT", "CLEAR">> => drawn[r] # 0

(* Each id is drawn once, and an open row has the id of its writer.          *)
Ids ==
  /\ \A p, q \in Requests : p # q /\ drawn[p] # 0 => drawn[p] # drawn[q]
  /\ \A e \in open : drawn[e.by] = e.id /\ e.id # 0
  /\ \A e \in log : e.id # 0 /\ \A q \in Requests : drawn[q] # e.id

(* A row names a committed one, or none, and never itself.                   *)
Chained ==
  \A d \in open \cup log : d.prev # d.id /\ (d.prev = 0 \/ \E p \in log : p.id = d.prev)

(* A row notes the ids below its own that are not committed yet, those of    *)
(* the rows that will name it included.                                      *)
Noted ==
  /\ \A p \in open \cup log, q \in Requests : drawn[q] # 0 /\ drawn[q] < p.id => drawn[q] \in p.during
  /\ \A d \in open \cup log, p \in log : p.id = d.prev /\ d.id < p.id => d.id \in p.during

(* What ForksOnlyWhenOverlapping says, of open rows too.                     *)
Forks ==
  \A d, e \in open \cup log :
    d # e /\ d.prev = e.prev =>
      \/ Overlapped(d, e)
      \/ \E p \in log : p.id = d.prev /\ (Overlapped(p, d) \/ Overlapped(p, e))

ChainInv == Ids /\ Chained /\ Noted /\ Forks

LEMMA RowTypes ==
  ASSUME ConnInv
  PROVE  /\ lastId \in Nat
         /\ \A q \in Requests : drawn[q] \in Nat /\ drawn[q] <= lastId
         /\ \A d \in open \cup log : /\ d.by \in Requests /\ d.id \in Nat /\ d.id <= lastId
                                     /\ d.prev \in Nat
BY DEF ConnInv, TypeOK, Rows

(* A new id is above every other. *)
LEMMA DrawChain ==
  ASSUME ConnInv, ChainInv, NEW r \in Requests, DrawRow(r), \A e \in open : e.by # r
  PROVE  ChainInv'
<1>1. /\ lastId \in Nat
      /\ \A q \in Requests : drawn[q] \in Nat /\ drawn[q] <= lastId
      /\ \A d \in open \cup log : d.by \in Requests /\ d.id \in Nat /\ d.id <= lastId
  BY RowTypes
<1>2. /\ open' = open /\ log' = log
      /\ drawn'[r] = lastId + 1 /\ \A q \in Requests \ {r} : drawn'[q] = drawn[q]
  BY DEF DrawRow, ConnInv, TypeOK
<1>3. Ids'
  <2>1. \A p, q \in Requests : p # q /\ drawn'[p] # 0 => drawn'[p] # drawn'[q]
    <3> SUFFICES ASSUME NEW p \in Requests, NEW q \in Requests, p # q, drawn'[p] # 0
                 PROVE  drawn'[p] # drawn'[q]
      OBVIOUS
    <3>1. p # r /\ q # r => drawn'[p] # drawn'[q]
      BY <1>2 DEF ChainInv, Ids
    <3>2. p = r \/ q = r => drawn'[p] # drawn'[q]
      BY <1>1, <1>2
    <3> QED BY <3>1, <3>2
  <2>2. \A e \in open : drawn'[e.by] = e.id /\ e.id # 0
    BY <1>1, <1>2 DEF ChainInv, Ids
  <2>3. \A e \in log : e.id # 0 /\ \A q \in Requests : drawn'[q] # e.id
    BY <1>1, <1>2 DEF ChainInv, Ids
  <2> QED BY <1>2, <2>1, <2>2, <2>3 DEF Ids
<1>4. Chained' /\ Forks'
  BY <1>2 DEF ChainInv, Chained, Forks, Overlapped
<1>5. Noted'
  <2>1. \A p \in open \cup log, q \in Requests :
          drawn'[q] # 0 /\ drawn'[q] < p.id => drawn'[q] \in p.during
    BY <1>1, <1>2 DEF ChainInv, Noted
  <2>2. \A d \in open \cup log, p \in log : p.id = d.prev /\ d.id < p.id => d.id \in p.during
    BY DEF ChainInv, Noted
  <2> QED BY <1>2, <2>1, <2>2 DEF Noted
<1> QED BY <1>3, <1>4, <1>5 DEF ChainInv

(* The end of a transaction publishes its row or drops it: the row is        *)
(* nobody's predecessor yet.                                                 *)
LEMMA EndChain ==
  ASSUME ConnInv, ChainInv, NEW r \in Requests, EndRows(r)
  PROVE  ChainInv'
<1>1. /\ \A q \in Requests : drawn[q] \in Nat
      /\ \A d \in open \cup log : d.by \in Requests /\ d.id \in Nat
  BY RowTypes
<1>2. /\ \A e \in open' : e \in open /\ e.by # r
      /\ \A e \in log' : e \in log \/ (e \in open /\ e.by = r)
      /\ log \subseteq log' /\ open' \cup log' \subseteq open \cup log
  BY DEF EndRows, Mine
<1>3. drawn'[r] = 0 /\ \A q \in Requests \ {r} : drawn'[q] = drawn[q]
  BY DEF EndRows, ConnInv, TypeOK
<1>4. Ids'
  <2>1. \A p, q \in Requests : p # q /\ drawn'[p] # 0 => drawn'[p] # drawn'[q]
    BY <1>3 DEF ChainInv, Ids
  <2>2. \A e \in open' : drawn'[e.by] = e.id /\ e.id # 0
    BY <1>1, <1>2, <1>3 DEF ChainInv, Ids
  <2>3. ASSUME NEW e \in log' PROVE e.id # 0 /\ \A q \in Requests : drawn'[q] # e.id
    <3>1. CASE e \in log
      BY <1>3, <3>1 DEF ChainInv, Ids
    <3>2. CASE e \in open /\ e.by = r
      BY <1>3, <3>2 DEF ChainInv, Ids
    <3> QED BY <1>2, <3>1, <3>2
  <2> QED BY <2>1, <2>2, <2>3 DEF Ids
<1>5. Chained'
  BY <1>2 DEF ChainInv, Chained
<1>6. \A d \in open \cup log, p \in log' : p.id = d.prev => p \in log
  <2> SUFFICES ASSUME NEW d \in open \cup log, NEW p \in open, p.id = d.prev PROVE FALSE
    BY <1>2
  <2>1. p.id # 0 /\ drawn[p.by] = p.id /\ p.by \in Requests
    BY <1>1 DEF ChainInv, Ids
  <2>2. PICK m \in log : m.id = d.prev
    BY <2>1 DEF ChainInv, Chained
  <2> QED BY <2>1, <2>2 DEF ChainInv, Ids
<1>7. Noted'
  <2>1. \A p \in open \cup log, q \in Requests :
          drawn'[q] # 0 /\ drawn'[q] < p.id => drawn'[q] \in p.during
    BY <1>3 DEF ChainInv, Noted
  <2>2. \A d \in open \cup log, p \in log' : p.id = d.prev /\ d.id < p.id => d.id \in p.during
    BY <1>6 DEF ChainInv, Noted
  <2> QED BY <1>2, <2>1, <2>2 DEF Noted
<1>8. Forks'
  BY <1>2 DEF ChainInv, Forks, Overlapped
<1> QED BY <1>4, <1>5, <1>7, <1>8 DEF ChainInv

(* A new row names the newest committed one.  Whoever named it before is     *)
(* still open, or committed with a lower id after it and overlapped it.      *)
LEMMA WriteChain ==
  ASSUME ConnInv, ChainInv, NEW r \in Requests, WriteRow(r), drawn[r] # 0, \A e \in open : e.by # r
  PROVE  ChainInv'
<1> DEFINE row == NewRow(r)
           N == Newest
<1>1. /\ lastId \in Nat
      /\ \A q \in Requests : drawn[q] \in Nat /\ drawn[q] <= lastId
      /\ \A d \in open \cup log : d.by \in Requests /\ d.id \in Nat /\ d.prev \in Nat
  BY RowTypes
<1>2. /\ row.by = r /\ row.id = drawn[r] /\ row.prev = N
      /\ \A q \in Requests \ {r} : drawn[q] # 0 => drawn[q] \in row.during
  BY DEF NewRow
<1>3. open' = open \cup {row} /\ log' = log /\ drawn' = drawn
  BY DEF WriteRow
<1>4. N \in Nat /\ (\A e \in log : e.id <= N) /\ (N = 0 \/ \E p \in log : p.id = N)
  <2>1. N \in 0 .. lastId /\ \A e \in log : e.id <= N
    BY NewestIsLatest DEF ConnInv
  <2>2. CASE log = {}
    BY <2>1, <2>2 DEF Newest
  <2>3. CASE log # {}
    <3> DEFINE ids == { e.id : e \in log }
    <3>1. \E i \in ids : \A j \in ids : i >= j
      <4>1. ids \in SUBSET Nat /\ ids # {} /\ \A i \in ids : i <= lastId
        BY <2>3 DEF ConnInv, TypeOK, Rows
      <4> HIDE DEF ids
      <4> QED BY <1>1, <4>1, LargestExists
    <3>2. N = CHOOSE i \in ids : \A e \in log : i >= e.id
      BY <2>3 DEF Newest
    <3>3. N \in ids
      BY <3>1, <3>2
    <3> QED BY <1>1, <2>1, <3>3
  <2> QED BY <1>1, <2>1, <2>2, <2>3
<1> HIDE DEF row, N
<1>5. Ids'
  BY <1>2, <1>3 DEF ChainInv, Ids
<1>6. row.prev # row.id
  BY <1>2, <1>4 DEF ChainInv, Ids
<1>7. Chained'
  BY <1>2, <1>3, <1>4, <1>6 DEF ChainInv, Chained
<1>8. Noted'
  <2>1. \A q \in Requests : drawn[q] # 0 /\ drawn[q] < row.id => drawn[q] \in row.during
    BY <1>1, <1>2
  <2>2. \A p \in log : p.id = row.prev /\ row.id < p.id => row.id \in p.during
    BY <1>2 DEF ChainInv, Noted
  <2> QED BY <1>3, <2>1, <2>2 DEF ChainInv, Noted
<1>9. ASSUME NEW d \in open \cup log, d.prev = N
      PROVE  Overlapped(d, row) \/ \E p \in log : p.id = N /\ Overlapped(p, d)
  <2>1. CASE d \in open
    <3>1. d.id = drawn[d.by] /\ d.id # 0 /\ d.by \in Requests \ {r}
      BY <1>1, <2>1 DEF ChainInv, Ids
    <3> QED BY <1>2, <3>1 DEF Overlapped
  <2>2. CASE d \in log
    <3>1. d.id <= N /\ d.id # 0 /\ d.id # N
      BY <1>4, <1>9, <2>2 DEF ChainInv, Ids, Chained
    <3>2. PICK p \in log : p.id = N
      BY <1>1, <1>4, <3>1
    <3>3. d.id \in p.during
      BY <1>1, <1>4, <1>9, <3>1, <3>2 DEF ChainInv, Noted
    <3> QED BY <3>2, <3>3 DEF Overlapped
  <2> QED BY <2>1, <2>2
<1>10. Forks'
  <2> SUFFICES ASSUME NEW d \in open' \cup log', NEW e \in open' \cup log', d # e, d.prev = e.prev
               PROVE  \/ Overlapped(d, e)
                      \/ \E p \in log : p.id = d.prev /\ (Overlapped(p, d) \/ Overlapped(p, e))
    BY <1>3 DEF Forks, Overlapped
  <2>1. CASE d # row /\ e # row
    BY <1>3, <2>1 DEF ChainInv, Forks
  <2>2. CASE e = row
    <3>1. d \in open \cup log /\ d.prev = N
      BY <1>2, <1>3, <2>2
    <3> QED BY <1>9, <2>2, <3>1
  <2>3. CASE d = row
    <3>1. e \in open \cup log /\ e.prev = N
      BY <1>2, <1>3, <2>3
    <3>2. Overlapped(e, row) => Overlapped(row, e)
      BY DEF Overlapped
    <3> QED BY <1>2, <1>9, <2>3, <3>1, <3>2
  <2> QED BY <2>1, <2>2, <2>3
<1> QED BY <1>5, <1>7, <1>8, <1>10 DEF ChainInv

(* DRAW comes before a writer's WORK, and its COMMIT after.                  *)
LEMMA WriterPhase ==
  ASSUME TypeOK, NEW r \in Requests, NEW c \in Conns, Phase(r, c), todo[r] # <<>>
  PROVE  /\ Tail(todo[r]) = <<"WORK", "COMMIT", "CLEAR">> => Head(todo[r]) = "DRAW"
         /\ kind[r] \in Writes /\ Head(todo[r]) = "WORK" =>
              todo[r] = <<"WORK", "COMMIT", "CLEAR">> /\ Tail(todo[r]) = <<"COMMIT", "CLEAR">>
<1> DEFINE Fits(s) == /\ Tail(s) = <<"WORK", "COMMIT", "CLEAR">> => Head(s) = "DRAW"
                      /\ Head(s) # "WORK"
<1>1. kind[r] \in Kinds
  BY DEF TypeOK
<1>2. Fits(TenantTransaction) /\ Fits(TenantClient) /\ Fits(Transaction) /\ Fits(Login)
  BY DEF TenantTransaction, TenantClient, Transaction, Login
<1>3. /\ Fits(<<"CLEAR">>) /\ Fits(<<"SET_LOCAL">>) /\ Fits(<<"COMMIT">>)
      /\ Fits(<<"ROLLBACK">>) /\ Fits(<<"ROLLBACK", "CLEAR">>) /\ Fits(<<"COMMIT", "CLEAR">>)
      /\ Fits(<<"SET", "DRAW", "WORK", "COMMIT", "CLEAR">>)
      /\ Fits(<<"DRAW", "WORK", "COMMIT", "CLEAR">>)
  OBVIOUS
<1>4. Fits(Program[kind[r]]) /\ Fits(Cleanup[kind[r]])
  BY <1>1, <1>2, <1>3, Programs DEF Kinds
<1> HIDE DEF Fits
<1>5. \/ Fits(todo[r])
      \/ kind[r] = "read" /\ todo[r] = <<"WORK", "CLEAR">>
      \/ kind[r] = "system" /\ todo[r] = <<"WORK", "COMMIT">>
      \/ kind[r] \in Writes /\ todo[r] = <<"WORK", "COMMIT", "CLEAR">>
  BY <1>3, <1>4 DEF Phase
<1>6. CASE Fits(todo[r])
  BY <1>6 DEF Fits
<1>7. CASE kind[r] = "read" /\ todo[r] = <<"WORK", "CLEAR">>
  <2>1. Tail(todo[r]) = <<"CLEAR">>
    BY <1>7
  <2> QED BY <1>7, <2>1 DEF Writes
<1>8. CASE kind[r] = "system" /\ todo[r] = <<"WORK", "COMMIT">>
  <2>1. Tail(todo[r]) = <<"COMMIT">>
    BY <1>8
  <2> QED BY <1>8, <2>1 DEF Writes
<1>9. CASE kind[r] \in Writes /\ todo[r] = <<"WORK", "COMMIT", "CLEAR">>
  <2>1. Tail(todo[r]) = <<"COMMIT", "CLEAR">>
    BY <1>9
  <2> QED BY <1>9, <2>1
<1> QED BY <1>5, <1>6, <1>7, <1>8, <1>9

(* Whoever sends another statement than COMMIT or ROLLBACK has no row open.  *)
LEMMA Rowless ==
  ASSUME WriterAt, NEW r, todo[r] = <<>> \/ Head(todo[r]) \notin {"COMMIT", "ROLLBACK"}
  PROVE  \A e \in open : e.by # r
<1> SUFFICES ASSUME NEW e \in open, e.by = r PROVE FALSE
  OBVIOUS
<1>1. todo[r] \in {<<"COMMIT", "CLEAR">>, <<"ROLLBACK", "CLEAR">>}
  BY DEF WriterAt
<1>2. CASE todo[r] = <<"COMMIT", "CLEAR">>
  BY <1>2
<1>3. CASE todo[r] = <<"ROLLBACK", "CLEAR">>
  BY <1>3
<1> QED BY <1>1, <1>2, <1>3

(* A step of one request. *)
LEMMA WriterFrame ==
  ASSUME ConnInv, WriterAt, NEW r \in Requests, kind' = kind,
         \A q \in Requests \ {r} : todo'[q] = todo[q] /\ drawn'[q] = drawn[q],
         \A e \in open' : e \in open \/ e.by = r,
         (\E e \in open' : e.by = r) =>
           kind[r] \in Writes /\ todo'[r] \in {<<"COMMIT", "CLEAR">>, <<"ROLLBACK", "CLEAR">>},
         todo'[r] = <<"WORK", "COMMIT", "CLEAR">> => drawn'[r] # 0
  PROVE  WriterAt'
<1>1. \A e \in open : e.by \in Requests
  BY RowTypes
<1> QED BY <1>1 DEF WriterAt

LEMMA WriterStep == ASSUME ConnInv, WriterAt, [Next]_vars PROVE WriterAt'
<1>1. CASE UNCHANGED <<kind, todo, open, drawn>>
  BY <1>1 DEF WriterAt
<1>2. UNCHANGED vars => UNCHANGED <<kind, todo, open, drawn>>
  BY DEF vars, process, database, audit
<1>3. ASSUME NEW r \in Requests,
             Refuse(r) \/ Replay(r) \/ Invalid(r) \/ Accept(r) \/ ConnectTimeout(r)
      PROVE  UNCHANGED <<kind, todo, open, drawn>>
  BY <1>3 DEF Refuse, Replay, Invalid, Accept, ConnectTimeout, database, audit
<1>4. ASSUME NEW r \in Requests, ReleaseAndAnswer(r) PROVE UNCHANGED <<kind, todo, open, drawn>>
  BY <1>4 DEF ReleaseAndAnswer, audit
<1>5. ASSUME NEW r \in Requests, Connect(r) PROVE WriterAt'
  <2>1. /\ pc[r] = "queued" /\ todo' = [todo EXCEPT ![r] = Program[kind[r]]]
        /\ UNCHANGED <<kind, open, drawn>>
    BY <1>5 DEF Connect, audit
  <2>2. todo[r] = <<>>
    BY <2>1 DEF ConnInv, TypeOK
  <2>3. \A e \in open : e.by # r
    BY <2>2, Rowless
  <2>4. Program[kind[r]] # <<"WORK", "COMMIT", "CLEAR">>
    <3>1. /\ TenantTransaction # <<"WORK", "COMMIT", "CLEAR">> /\ TenantClient # <<"WORK", "COMMIT", "CLEAR">>
          /\ Transaction # <<"WORK", "COMMIT", "CLEAR">> /\ Login # <<"WORK", "COMMIT", "CLEAR">>
      BY DEF TenantTransaction, TenantClient, Transaction, Login
    <3>2. kind[r] \in Kinds
      BY DEF ConnInv, TypeOK
    <3> QED BY <3>1, <3>2, Programs DEF Kinds
  <2>5. todo'[r] = Program[kind[r]] /\ \A q \in Requests \ {r} : todo'[q] = todo[q]
    BY <2>1 DEF ConnInv, TypeOK
  <2> QED BY <2>1, <2>3, <2>4, <2>5, WriterFrame
<1>6. ASSUME NEW r \in Requests, Statement(r) PROVE WriterAt'
  <2>1. /\ todo[r] # <<>> /\ kind' = kind
        /\ todo'[r] = Tail(todo[r]) /\ \A q \in Requests \ {r} : todo'[q] = todo[q]
    BY <1>6 DEF Statement, ConnInv, TypeOK
  <2>2. PICK c \in Conns :
           /\ Phase(r, c)
           /\ \/ Head(todo[r]) \in {"BEGIN", "SET", "CLEAR"} /\ QuietRows
              \/ Head(todo[r]) = "DRAW" /\ DrawRow(r)
              \/ Head(todo[r]) = "WORK" /\ kind[r] \notin Writes /\ QuietRows
              \/ Head(todo[r]) = "WORK" /\ kind[r] \in Writes /\ WriteRow(r)
              \/ Head(todo[r]) = "COMMIT" /\ EndRows(r)
              \/ Head(todo[r]) = "ROLLBACK" /\ EndRows(r)
    BY <1>6, StatementRows
  <2>3. /\ todo'[r] = <<"WORK", "COMMIT", "CLEAR">> => Head(todo[r]) = "DRAW"
        /\ kind[r] \in Writes /\ Head(todo[r]) = "WORK" => todo'[r] = <<"COMMIT", "CLEAR">>
    BY <2>1, <2>2, WriterPhase DEF ConnInv
  <2>4. CASE QuietRows /\ Head(todo[r]) \in {"BEGIN", "SET", "CLEAR", "WORK"}
    <3>1. UNCHANGED <<open, drawn>> /\ \A e \in open : e.by # r
      BY <2>4, Rowless DEF QuietRows, audit
    <3> QED BY <2>1, <2>3, <2>4, <3>1, WriterFrame
  <2>5. CASE Head(todo[r]) = "DRAW" /\ DrawRow(r)
    <3>1. open' = open /\ \A e \in open : e.by # r
      BY <2>5, Rowless DEF DrawRow
    <3>2. drawn'[r] = lastId + 1 /\ lastId \in Nat /\ \A q \in Requests \ {r} : drawn'[q] = drawn[q]
      BY <2>5 DEF DrawRow, ConnInv, TypeOK
    <3>3. drawn'[r] # 0
      BY <3>2
    <3> QED BY <2>1, <3>1, <3>2, <3>3, WriterFrame
  <2>6. CASE Head(todo[r]) = "WORK" /\ kind[r] \in Writes /\ WriteRow(r)
    <3>1. drawn' = drawn /\ \A e \in open' : e \in open \/ e.by = r
      BY <2>6 DEF WriteRow, NewRow
    <3> QED BY <2>1, <2>3, <2>6, <3>1, WriterFrame
  <2>7. CASE Head(todo[r]) \in {"COMMIT", "ROLLBACK"} /\ EndRows(r)
    <3>1. /\ \A e \in open' : e \in open /\ e.by # r
          /\ \A q \in Requests \ {r} : drawn'[q] = drawn[q]
      BY <2>7 DEF EndRows, Mine, ConnInv, TypeOK
    <3> QED BY <2>1, <2>3, <2>7, <3>1, WriterFrame
  <2> QED BY <2>2, <2>4, <2>5, <2>6, <2>7
<1>7. ASSUME NEW r \in Requests, Fails(r) PROVE WriterAt'
  <2>1. /\ UNCHANGED <<kind, open, drawn>>
        /\ todo'[r] = Cleanup[kind[r]] /\ \A q \in Requests \ {r} : todo'[q] = todo[q]
    BY <1>7 DEF Fails, database, audit, ConnInv, TypeOK
  <2>2. Cleanup[kind[r]] # <<"WORK", "COMMIT", "CLEAR">>
    <3>1. /\ <<"ROLLBACK", "CLEAR">> # <<"WORK", "COMMIT", "CLEAR">>
          /\ <<"CLEAR">> # <<"WORK", "COMMIT", "CLEAR">> /\ <<"ROLLBACK">> # <<"WORK", "COMMIT", "CLEAR">>
      OBVIOUS
    <3>2. kind[r] \in Kinds
      BY DEF ConnInv, TypeOK
    <3> QED BY <3>1, <3>2, Programs DEF Kinds
  <2>3. \A e \in open : e.by = r => kind[r] \in Writes /\ Cleanup[kind[r]] = <<"ROLLBACK", "CLEAR">>
    BY Programs DEF WriterAt
  <2> QED BY <2>1, <2>2, <2>3, WriterFrame
<1>8. ASSUME NEW r \in Requests, Lose(r) PROVE WriterAt'
  <2>1. kind' = kind /\ todo'[r] = <<>> /\ \A q \in Requests \ {r} : todo'[q] = todo[q]
    BY <1>8 DEF Lose, ConnInv, TypeOK
  <2>2. /\ \A e \in open' : e \in open /\ e.by # r
        /\ \A q \in Requests \ {r} : drawn'[q] = drawn[q]
    BY <1>8, LoseRows DEF EndRows, Mine, ConnInv, TypeOK
  <2> QED BY <2>1, <2>2, WriterFrame
<1>9. CASE Restart
  <2>1. open' = {} /\ \A r \in Requests : todo'[r] = <<>>
    BY <1>9 DEF Restart
  <2> QED BY <2>1 DEF WriterAt
<1> QED BY <1>1, <1>2, <1>3, <1>4, <1>5, <1>6, <1>7, <1>8, <1>9 DEF Next, Step

LEMMA ChainStep == ASSUME ConnInv, WriterAt, ChainInv, [Next]_vars PROVE ChainInv'
<1>1. CASE QuietRows
  <2>1. UNCHANGED <<open, log, drawn>>
    BY <1>1 DEF QuietRows, audit
  <2> QED BY <2>1 DEF ChainInv, Ids, Chained, Noted, Forks, Overlapped
<1>2. UNCHANGED vars => QuietRows
  BY DEF vars, database, QuietRows
<1>3. ASSUME NEW r \in Requests,
             \/ Refuse(r) \/ Replay(r) \/ Invalid(r) \/ Accept(r) \/ ConnectTimeout(r) \/ Fails(r)
             \/ Connect(r) \/ ReleaseAndAnswer(r)
      PROVE  QuietRows
  BY <1>3 DEF Refuse, Replay, Invalid, Accept, ConnectTimeout, Fails, Connect, ReleaseAndAnswer,
              database, QuietRows
<1>4. ASSUME NEW r \in Requests, Statement(r) PROVE ChainInv'
  <2>1. PICK c \in Conns :
           /\ Phase(r, c)
           /\ \/ QuietRows
              \/ Head(todo[r]) = "DRAW" /\ DrawRow(r)
              \/ Head(todo[r]) = "WORK" /\ kind[r] \in Writes /\ WriteRow(r)
              \/ EndRows(r)
    BY <1>4, StatementRows
  <2>2. Head(todo[r]) \in {"DRAW", "WORK"} => \A e \in open : e.by # r
    BY Rowless
  <2>3. Head(todo[r]) = "WORK" /\ kind[r] \in Writes => drawn[r] # 0
    BY <1>4, <2>1, WriterPhase DEF Statement, ConnInv, WriterAt
  <2> QED BY <1>1, <2>1, <2>2, <2>3, DrawChain, WriteChain, EndChain
<1>5. ASSUME NEW r \in Requests, Lose(r) PROVE ChainInv'
  BY <1>5, LoseRows, EndChain
<1>6. CASE Restart
  <2>1. open' = {} /\ log' = log /\ \A r \in Requests : drawn'[r] = 0
    BY <1>6 DEF Restart
  <2> QED BY <2>1 DEF ChainInv, Ids, Chained, Noted, Forks, Overlapped
<1> QED BY <1>1, <1>2, <1>3, <1>4, <1>5, <1>6 DEF Next, Step

(* The chain of audit_log forks only where writers overlapped, for any       *)
(* number of writers: between the id that a row draws and the predecessor it *)
(* finds, others may commit, and what they have drawn is noted.              *)
THEOREM ForksOverlap == Spec => []ForksOnlyWhenOverlapping
<1>1. ChainInv => ForksOnlyWhenOverlapping
  BY DEF ChainInv, Forks, ForksOnlyWhenOverlapping
<1>2. Init => WriterAt /\ ChainInv
  <2> SUFFICES ASSUME Init PROVE WriterAt /\ ChainInv
    OBVIOUS
  <2>1. open = {} /\ log = {} /\ \A r \in Requests : drawn[r] = 0 /\ todo[r] = <<>>
    BY DEF Init
  <2> QED BY <2>1 DEF WriterAt, ChainInv, Ids, Chained, Noted, Forks
<1> QED BY <1>1, <1>2, WriterStep, ChainStep, ConnInductive, PTL DEF Spec
-----------------------------------------------------------------------------
(* Promises: a write that is still "ok" has its row, once it has worked, and *)
(* has it committed, once it has sent COMMIT.                                *)
Early(r) ==
  todo[r] \in {TenantTransaction, <<"SET", "DRAW", "WORK", "COMMIT", "CLEAR">>,
              <<"DRAW", "WORK", "COMMIT", "CLEAR">>, <<"WORK", "COMMIT", "CLEAR">>}

OnItsWay(r) ==
  \/ Early(r)
  \/ todo[r] = <<"COMMIT", "CLEAR">> /\ Mine(r) # {}
  \/ todo[r] \in {<<"CLEAR">>, <<>>} /\ r \in Committed

PromiseInv ==
  /\ \A r \in Requests : pc[r] = "running" /\ kind[r] \in Writes /\ outcome[r] = "ok" => OnItsWay(r)
  /\ \A i \in DOMAIN cache : cache[i].outcome = "ok" => cache[i].by \in Committed
  /\ SuccessIsCommitted

(* Others are on their way as before when their rows are left alone. *)
LEMMA OthersOnTheirWay ==
  ASSUME ConnInv, PromiseInv, NEW r \in Requests, UNCHANGED <<kind, cache, answer>>,
         QuietRows \/ DrawRow(r) \/ WriteRow(r) \/ EndRows(r),
         \A q \in Requests \ {r} : todo'[q] = todo[q] /\ outcome'[q] = outcome[q] /\ pc'[q] = pc[q],
         pc'[r] # "answered",
         pc'[r] = "running" /\ kind[r] \in Writes /\ outcome'[r] = "ok" => OnItsWay(r)'
  PROVE  PromiseInv'
<1>1. Committed \subseteq Committed'
  BY DEF QuietRows, audit, DrawRow, WriteRow, EndRows, Committed
<1>2. \A q \in Requests \ {r} : Mine(q) \subseteq Mine(q)'
  BY DEF QuietRows, audit, DrawRow, WriteRow, EndRows, Mine
<1>3. ASSUME NEW q \in Requests, pc'[q] = "running", kind'[q] \in Writes, outcome'[q] = "ok"
      PROVE  OnItsWay(q)'
  <2>1. CASE q = r
    BY <1>3, <2>1
  <2>2. CASE q # r
    <3>1. OnItsWay(q)
      BY <1>3, <2>2 DEF PromiseInv
    <3> QED BY <1>1, <1>2, <2>2, <3>1 DEF OnItsWay, Early
  <2> QED BY <2>1, <2>2
<1>4. \A i \in DOMAIN cache' : cache'[i].outcome = "ok" => cache'[i].by \in Committed'
  BY <1>1 DEF PromiseInv
<1>5. SuccessIsCommitted'
  BY <1>1 DEF PromiseInv, SuccessIsCommitted
<1> QED BY <1>3, <1>4, <1>5 DEF PromiseInv

LEMMA StatementPromise == ASSUME ConnInv, PromiseInv, NEW r \in Requests, Statement(r) PROVE PromiseInv'
<1>1. /\ todo[r] # <<>> /\ todo' = [todo EXCEPT ![r] = Tail(todo[r])]
      /\ UNCHANGED <<kind, pc, outcome, answer, cache>>
  BY DEF Statement
<1>2. PICK c \in Conns :
         /\ holder[c] = r /\ pc[r] = "running" /\ Phase(r, c)
         /\ \/ Head(todo[r]) \in {"BEGIN", "SET", "CLEAR"} /\ QuietRows
            \/ Head(todo[r]) = "DRAW" /\ DrawRow(r)
            \/ Head(todo[r]) = "WORK" /\ kind[r] \notin Writes /\ QuietRows
            \/ Head(todo[r]) = "WORK" /\ kind[r] \in Writes /\ WriteRow(r)
            \/ Head(todo[r]) = "COMMIT" /\ EndRows(r) /\ log' = log \cup Mine(r)
            \/ Head(todo[r]) = "ROLLBACK" /\ EndRows(r) /\ log' = log
  BY StatementRows
<1>3. todo'[r] = Tail(todo[r]) /\ \A q \in Requests \ {r} : todo'[q] = todo[q]
  BY <1>1 DEF ConnInv, TypeOK
<1>4. ASSUME kind[r] \in Writes, outcome[r] = "ok" PROVE OnItsWay(r)'
  <2>1. OnItsWay(r)
    BY <1>2, <1>4 DEF PromiseInv
  <2>2. CASE todo[r] = TenantTransaction
    <3>1. todo'[r] = <<"SET", "DRAW", "WORK", "COMMIT", "CLEAR">>
      BY <1>3, <2>2 DEF TenantTransaction
    <3> QED BY <3>1 DEF OnItsWay, Early
  <2>3. CASE todo[r] = <<"SET", "DRAW", "WORK", "COMMIT", "CLEAR">>
    <3>1. todo'[r] = <<"DRAW", "WORK", "COMMIT", "CLEAR">>
      BY <1>3, <2>3
    <3> QED BY <3>1 DEF OnItsWay, Early
  <2>4. CASE todo[r] = <<"DRAW", "WORK", "COMMIT", "CLEAR">>
    <3>1. todo'[r] = <<"WORK", "COMMIT", "CLEAR">>
      BY <1>3, <2>4
    <3> QED BY <3>1 DEF OnItsWay, Early
  <2>5. CASE todo[r] = <<"WORK", "COMMIT", "CLEAR">>
    <3>1. todo'[r] = <<"COMMIT", "CLEAR">> /\ Head(todo[r]) = "WORK"
      BY <1>3, <2>5
    <3>2. WriteRow(r)
      BY <1>2, <1>4, <3>1
    <3>3. NewRow(r).by = r /\ NewRow(r) \in open'
      BY <3>2 DEF WriteRow, NewRow
    <3>4. Mine(r)' # {}
      BY <3>3 DEF Mine
    <3> QED BY <3>1, <3>4 DEF OnItsWay
  <2>6. CASE todo[r] = <<"COMMIT", "CLEAR">> /\ Mine(r) # {}
    <3>1. todo'[r] = <<"CLEAR">> /\ Head(todo[r]) = "COMMIT"
      BY <1>3, <2>6
    <3>2. r \in Committed'
      BY <1>2, <2>6, <3>1 DEF Committed, Mine
    <3> QED BY <3>1, <3>2 DEF OnItsWay
  <2>7. CASE todo[r] = <<"CLEAR">> /\ r \in Committed
    <3>1. todo'[r] = <<>> /\ Head(todo[r]) = "CLEAR"
      BY <1>3, <2>7
    <3>2. r \in Committed'
      BY <1>2, <2>7, <3>1 DEF Committed, QuietRows, audit
    <3> QED BY <3>1, <3>2 DEF OnItsWay
  <2> QED BY <1>1, <2>1, <2>2, <2>3, <2>5, <2>6, <2>7, <2>4 DEF OnItsWay, Early
<1> QED BY <1>1, <1>2, <1>3, <1>4, OthersOnTheirWay
(* An answer says "ok" to a writer, or leaves it in the cache, only with the *)
(* row of whoever ran.                                                       *)
LEMMA AnswerPromise ==
  ASSUME ConnInv, PromiseInv, NEW r \in Requests, NEW a, Answer(r, a),
         UNCHANGED <<kind, todo, outcome, open, log>>,
         kind[r] \in Writes /\ a.outcome = "ok" => a.by \in Committed,
         \A i \in DOMAIN cache' : cache'[i].outcome = "ok" => cache'[i].by \in Committed
  PROVE  PromiseInv'
<1>1. /\ pc'[r] = "answered" /\ answer'[r] = a
      /\ \A q \in Requests \ {r} : pc'[q] = pc[q] /\ answer'[q] = answer[q]
  BY DEF Answer, ConnInv, TypeOK
<1>2. Committed' = Committed /\ \A q \in Requests : OnItsWay(q)' <=> OnItsWay(q)
  BY DEF Committed, OnItsWay, Early, Mine
<1>3. \A q \in Requests : pc'[q] = "running" /\ kind'[q] \in Writes /\ outcome'[q] = "ok" => OnItsWay(q)'
  BY <1>1, <1>2 DEF PromiseInv
<1>4. SuccessIsCommitted'
  BY <1>1, <1>2 DEF PromiseInv, SuccessIsCommitted
<1> QED BY <1>2, <1>3, <1>4 DEF PromiseInv

(* What storing an answer leaves in the cache. *)
LEMMA StorePromise ==
  ASSUME ConnInv, PromiseInv, NEW r \in Requests, NEW result \in {"ok", "error"}, StoreKey(r, result),
         kind[r] \in Writes /\ result = "ok" => r \in Committed
  PROVE  \A i \in DOMAIN cache' : cache'[i].outcome = "ok" => cache'[i].by \in Committed
<1>1. CASE cache' = cache
  BY <1>1 DEF PromiseInv
<1>2. CASE Key(r) # None /\ Gained(cache, Kept(r, result), cache')
  <2>1. kind[r] \in Writes
    BY <1>2 DEF Key, Writes
  <2>2. Kept(r, result).by = r /\ Kept(r, result).outcome = result
    BY DEF Kept
  <2> QED BY <1>2, <2>1, <2>2 DEF Gained, PromiseInv
<1> QED BY <1>1, <1>2, StoreKeyFacts DEF ConnInv

(* A write that has nothing left to send and is "ok" has its row committed.  *)
LEMMA DonePromise ==
  ASSUME PromiseInv, NEW r \in Requests, pc[r] = "running", todo[r] = <<>>,
         kind[r] \in Writes, outcome[r] = "ok"
  PROVE  r \in Committed
<1>1. OnItsWay(r)
  BY DEF PromiseInv
<1> QED BY <1>1 DEF OnItsWay, Early, TenantTransaction

LEMMA PromiseStep == ASSUME ConnInv, PromiseInv, [Next]_vars PROVE PromiseInv'
<1>1. CASE UNCHANGED vars
  BY <1>1 DEF vars, process, database, audit, PromiseInv, OnItsWay, Early, Mine, Committed, SuccessIsCommitted
<1>2. ASSUME NEW r \in Requests, Refuse(r) PROVE PromiseInv'
  <2>1. UNCHANGED <<kind, todo, outcome, cache, open, log>>
    BY <1>2 DEF Refuse, database, audit
  <2>2. Answer(r, [by |-> None, outcome |-> "error"])
    BY <1>2 DEF Refuse
  <2>3. \A i \in DOMAIN cache' : cache'[i].outcome = "ok" => cache'[i].by \in Committed
    BY <2>1 DEF PromiseInv
  <2> QED BY <2>1, <2>2, <2>3, AnswerPromise
<1>3. ASSUME NEW r \in Requests, Replay(r) PROVE PromiseInv'
  <2>1. PICK i \in Cached(Key(r)) : Answer(r, [by |-> cache[i].by, outcome |-> cache[i].outcome])
    BY <1>3 DEF Replay
  <2>2. UNCHANGED <<kind, todo, outcome, cache, open, log>>
    BY <1>3 DEF Replay, database, audit
  <2>3. cache[i].outcome = "ok" => cache[i].by \in Committed
    BY DEF Cached, PromiseInv
  <2>4. \A j \in DOMAIN cache' : cache'[j].outcome = "ok" => cache'[j].by \in Committed
    BY <2>2 DEF PromiseInv
  <2> QED BY <2>1, <2>2, <2>3, <2>4, AnswerPromise
<1>4. ASSUME NEW r \in Requests, Invalid(r) PROVE PromiseInv'
  <2>1. /\ UNCHANGED <<kind, todo, outcome, open, log>> /\ StoreKey(r, "error")
        /\ Answer(r, [by |-> r, outcome |-> "error"])
    BY <1>4 DEF Invalid, database, audit
  <2>2. \A i \in DOMAIN cache' : cache'[i].outcome = "ok" => cache'[i].by \in Committed
    BY <2>1, StorePromise
  <2> QED BY <2>1, <2>2, AnswerPromise
<1>5. ASSUME NEW r \in Requests, ConnectTimeout(r) PROVE PromiseInv'
  <2>1. PICK result \in {"ok", "error"} :
          /\ StoreKey(r, result) /\ Answer(r, [by |-> r, outcome |-> result])
          /\ result = "ok" => kind[r] = "login"
    BY <1>5 DEF ConnectTimeout
  <2>2. UNCHANGED <<kind, todo, outcome, open, log>>
    BY <1>5 DEF ConnectTimeout, database, audit
  <2>3. ~(kind[r] \in Writes /\ result = "ok")
    BY <2>1 DEF Writes
  <2>4. \A i \in DOMAIN cache' : cache'[i].outcome = "ok" => cache'[i].by \in Committed
    BY <2>1, <2>3, StorePromise
  <2> QED BY <2>1, <2>2, <2>3, <2>4, AnswerPromise
<1>6. ASSUME NEW r \in Requests, Accept(r) PROVE PromiseInv'
  <2>1. /\ pc' = [pc EXCEPT ![r] = "queued"] /\ QuietRows
        /\ UNCHANGED <<kind, todo, outcome, answer, cache>>
    BY <1>6 DEF Accept, QuietRows, database
  <2> QED BY <2>1, OthersOnTheirWay DEF ConnInv, TypeOK
<1>7. ASSUME NEW r \in Requests, Connect(r) PROVE PromiseInv'
  <2>1. /\ pc' = [pc EXCEPT ![r] = "running"] /\ QuietRows
        /\ todo' = [todo EXCEPT ![r] = Program[kind[r]]]
        /\ UNCHANGED <<kind, outcome, answer, cache>>
    BY <1>7 DEF Connect, QuietRows
  <2>2. kind[r] \in Writes => OnItsWay(r)'
    BY <2>1, Programs DEF OnItsWay, Early, ConnInv, TypeOK
  <2> QED BY <2>1, <2>2, OthersOnTheirWay DEF ConnInv, TypeOK
<1>8. ASSUME NEW r \in Requests, Statement(r) PROVE PromiseInv'
  BY <1>8, StatementPromise
<1>9. ASSUME NEW r \in Requests, Fails(r) \/ Lose(r), todo[r] # <<"CLEAR">> PROVE PromiseInv'
  <2>1. /\ pc[r] = "running"
        /\ todo' \in {[todo EXCEPT ![r] = Cleanup[kind[r]]], [todo EXCEPT ![r] = <<>>]}
        /\ UNCHANGED <<kind, pc, answer, cache>>
    BY <1>9 DEF Fails, Lose, ConnInv, TypeOK
  <2>2. QuietRows \/ EndRows(r)
    BY <1>9, LoseRows DEF Fails, QuietRows, database
  <2>3. MarkFailed(r) \/ (outcome' = outcome /\ todo[r] # <<>> /\ Head(todo[r]) = "CLEAR")
    BY <1>9 DEF Fails, Lose
  <2>4. kind[r] \in Writes /\ outcome[r] = "ok" => Head(todo[r]) # "CLEAR" \/ todo[r] = <<>>
    <3> SUFFICES ASSUME kind[r] \in Writes, outcome[r] = "ok" PROVE Head(todo[r]) # "CLEAR" \/ todo[r] = <<>>
      OBVIOUS
    <3>1. OnItsWay(r)
      BY <2>1 DEF PromiseInv
    <3>2. Head(TenantTransaction) # "CLEAR"
      BY DEF TenantTransaction
    <3> QED BY <1>9, <3>1, <3>2 DEF OnItsWay, Early
  <2>5. kind[r] \in Writes => outcome'[r] = "error"
    BY <2>3, <2>4 DEF MarkFailed, Writes, ConnInv, TypeOK
  <2>6. \A q \in Requests \ {r} : todo'[q] = todo[q] /\ outcome'[q] = outcome[q]
    BY <2>1, <2>3 DEF MarkFailed, ConnInv, TypeOK
  <2> QED BY <2>1, <2>2, <2>5, <2>6, OthersOnTheirWay
<1>10. ASSUME NEW r \in Requests, Lose(r), todo[r] = <<"CLEAR">> PROVE PromiseInv'
  <2>1. /\ pc[r] = "running" /\ todo'[r] = <<>> /\ EndRows(r)
        /\ \A q \in Requests \ {r} : todo'[q] = todo[q]
        /\ UNCHANGED <<kind, pc, answer, cache>>
    BY <1>10, LoseRows DEF Lose, ConnInv, TypeOK
  <2>2. outcome' = outcome
    BY <1>10 DEF Lose
  <2>3. kind[r] \in Writes /\ outcome[r] = "ok" => r \in Committed
    <3>1. ~Early(r) /\ todo[r] # <<"COMMIT", "CLEAR">>
      <4>1. /\ <<"CLEAR">> # TenantTransaction
            /\ <<"CLEAR">> # <<"SET", "DRAW", "WORK", "COMMIT", "CLEAR">>
            /\ <<"CLEAR">> # <<"DRAW", "WORK", "COMMIT", "CLEAR">>
            /\ <<"CLEAR">> # <<"WORK", "COMMIT", "CLEAR">> /\ <<"CLEAR">> # <<"COMMIT", "CLEAR">>
        BY DEF TenantTransaction
      <4> QED BY <1>10, <4>1 DEF Early
    <3> QED BY <2>1, <3>1 DEF PromiseInv, OnItsWay
  <2>4. Committed \subseteq Committed'
    BY <2>1 DEF EndRows, Committed
  <2> QED BY <2>1, <2>2, <2>3, <2>4, OthersOnTheirWay DEF OnItsWay
<1>11. ASSUME NEW r \in Requests, Fails(r) PROVE todo[r] # <<"CLEAR">>
  BY <1>11 DEF Fails
<1>12. ASSUME NEW r \in Requests, ReleaseAndAnswer(r) PROVE PromiseInv'
  <2>1. /\ pc[r] = "running" /\ todo[r] = <<>> /\ StoreKey(r, outcome[r])
        /\ Answer(r, [by |-> r, outcome |-> outcome[r]])
        /\ UNCHANGED <<kind, todo, outcome, open, log>>
    BY <1>12 DEF ReleaseAndAnswer, audit
  <2>2. kind[r] \in Writes /\ outcome[r] = "ok" => r \in Committed
    BY <2>1, DonePromise
  <2>3. outcome[r] \in {"ok", "error"}
    BY DEF ConnInv, TypeOK
  <2>4. \A i \in DOMAIN cache' : cache'[i].outcome = "ok" => cache'[i].by \in Committed
    BY <2>1, <2>2, <2>3, StorePromise
  <2> QED BY <2>1, <2>2, <2>4, AnswerPromise
<1>13. CASE Restart
  <2>1. /\ cache' = <<>> /\ UNCHANGED <<kind, outcome, log>>
        /\ \A r \in Requests : pc'[r] # "running"
        /\ \A r \in Requests : pc'[r] = "answered" =>
             \/ answer'[r] = [by |-> r, outcome |-> "error"]
             \/ pc[r] = "answered" /\ answer'[r] = answer[r]
    BY <1>13 DEF Restart, ConnInv, TypeOK
  <2>2. Committed' = Committed /\ DOMAIN cache' = {}
    BY <2>1 DEF Committed
  <2>3. SuccessIsCommitted'
    <3> SUFFICES ASSUME NEW r \in Requests, pc'[r] = "answered", kind'[r] \in Writes, answer'[r].outcome = "ok"
                 PROVE  answer'[r].by \in Committed'
      BY DEF SuccessIsCommitted
    <3>1. answer'[r] # [by |-> r, outcome |-> "error"]
      OBVIOUS
    <3>2. pc[r] = "answered" /\ answer'[r] = answer[r] /\ kind[r] \in Writes
      BY <2>1, <3>1
    <3> QED BY <2>2, <3>2 DEF PromiseInv, SuccessIsCommitted
  <2> QED BY <2>1, <2>2, <2>3 DEF PromiseInv
<1> QED BY <1>1, <1>2, <1>3, <1>4, <1>5, <1>6, <1>7, <1>8, <1>9, <1>12, <1>13, <1>10, <1>11 DEF Next, Step

(* A client that is told of success, by its own request or by the replay of  *)
(* another, has a committed row, whatever was lost on the way.               *)
THEOREM SuccessHasRow == Spec => []SuccessIsCommitted
<1>1. PromiseInv => SuccessIsCommitted
  BY DEF PromiseInv
<1>2. Init => PromiseInv
  BY DEF Init, PromiseInv, SuccessIsCommitted
<1> QED BY <1>1, <1>2, PromiseStep, ConnInductive, PTL DEF Spec
=============================================================================
