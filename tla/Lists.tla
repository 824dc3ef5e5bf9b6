-------------------------------- MODULE Lists --------------------------------
(***************************************************************************)
(* The lists of the API.  Each is a SELECT with a filter and an ORDER BY   *)
(* that paginatedQuery cuts into pages with LIMIT and OFFSET, one query    *)
(* per page, while rows are inserted and updated.                          *)
(***************************************************************************)
EXTENDS Integers, FiniteSets, SequencesExt

CONSTANTS Rows,     \* rows of a table
          Keys,     \* values of the column of ORDER BY
          PageSize

VARIABLES
  list,     \* the list that is walked
  key,      \* created_at or entry_date of each row
  present,  \* rows that are committed
  fits,     \* rows whose column has the value that a filter asks for
  page,     \* the page that a client asks for next, 0 when it does not walk
  filter,   \* its walk has a filter on a column that is updated
  want,     \* rows listed when its walk began,
  seen,     \*   those it has got,
  left      \*   and whether a row left the list since

walk == <<page, filter, want, seen>>
vars == <<list, key, present, fits, walk, left>>

(***************************************************************************)
(* The lists: the column that an UPDATE changes under a filter, and the    *)
(* order.  Filters on columns that no UPDATE changes are left out.         *)
(***************************************************************************)
ListOrders == [column |-> "status", sort |-> "newest first"]
ListNotifications == [column |-> "is_read", sort |-> "newest first"]
ListShipments == [column |-> "none", sort |-> "newest first"]
ListInvoices == [column |-> "none", sort |-> "newest first"]
ListConnections == [column |-> "none", sort |-> "newest first"]
ListResyncs == [column |-> "none", sort |-> "newest first"]
ListFactories == [column |-> "none", sort |-> "newest first"]
ListCalendar == [column |-> "none", sort |-> "by entry_date"]

AllLists == {ListOrders, ListNotifications, ListShipments, ListInvoices,
             ListConnections, ListResyncs, ListFactories, ListCalendar}

(* created_at tells rows apart; several entries may have one entry_date. *)
Init ==
  /\ list \in AllLists
  /\ key \in [Rows -> Keys]
  /\ list.sort = "newest first" => \A m, n \in Rows : m # n => key[m] # key[n]
  /\ present = {} /\ fits = {}
  /\ page = 0 /\ filter = FALSE /\ want = {} /\ seen = {} /\ left = FALSE

Listed(filtered) == IF filtered THEN present \cap fits ELSE present

Matching == Listed(filter)

(* A notification is unread; an order may have the status asked for. *)
Insert(n) ==
  /\ n \notin present
  /\ present' = present \cup {n}
  /\ fits' \in IF list.column = "status" THEN {fits, fits \cup {n}} ELSE {fits \cup {n}}
  /\ UNCHANGED <<list, key, walk, left>>

Leave(S) ==
  /\ fits' = fits \ S
  /\ left' = (left \/ (page > 0 /\ filter /\ S \cap fits # {}))
  /\ UNCHANGED <<list, key, present, walk>>

MarkAsRead(S) == S # {} /\ list.column = "is_read" /\ Leave(S)

SetStatus(n) ==
  /\ list.column = "status"
  /\ \/ Leave({n})
     \/ fits' = fits \cup {n} /\ UNCHANGED <<list, key, present, walk, left>>

(***************************************************************************)
(* paginatedQuery                                                          *)
(***************************************************************************)
Before(m, n) == IF list.sort = "by entry_date" THEN key[m] < key[n] ELSE key[m] > key[n]

(* PostgreSQL sorts rows with equal keys in any way, at each query anew. *)
Sortings ==
  { s \in SetToSeqs(Matching) : \A i, j \in DOMAIN s : i < j => ~Before(s[j], s[i]) }

Slice(s, k) ==
  { s[i] : i \in { j \in DOMAIN s : (k - 1) * PageSize < j /\ j <= k * PageSize } }

(* _total_count of the first row of the page. *)
Total(rows) == IF rows = {} THEN 0 ELSE Cardinality(Matching)

(* Bug: the division is floored. *)
TotalPagesFloor(rows) == Total(rows) \div PageSize

TotalPages(rows) == (Total(rows) + PageSize - 1) \div PageSize

StartWalk ==
  /\ page = 0
  /\ page' = 1
  /\ filter' \in IF list.column = "none" THEN {FALSE} ELSE BOOLEAN
  /\ want' = Listed(filter')
  /\ seen' = {} /\ left' = FALSE
  /\ UNCHANGED <<list, key, present, fits>>

(* A client goes on while the answer says that there is another page. *)
GetPage ==
  /\ page > 0
  /\ \E s \in Sortings :
       LET rows == Slice(s, page) IN
       /\ seen' = seen \cup rows
       /\ page' = IF page < TotalPages(rows) THEN page + 1 ELSE 0
  /\ UNCHANGED <<list, key, present, fits, filter, want, left>>

Next ==
  \/ \E n \in Rows : Insert(n)
  \/ \E S \in SUBSET present : MarkAsRead(S)
  \/ \E n \in present : SetStatus(n)
  \/ StartWalk \/ GetPage

Spec == Init /\ [][Next]_vars

-----------------------------------------------------------------------------
Tied == \E m, n \in present : m # n /\ key[m] = key[n]

(* A client that walks through the pages has seen, when it stops, every row  *)
(* that was listed when it began: rows that are committed meanwhile, wherever*)
(* they are sorted, move others to later pages only.  Two things break it: a *)
(* row that leaves a filtered list moves others to pages the client has      *)
(* passed, and calendar entries of one day are cut as each query sorts them. *)
WalkComplete == page = 0 /\ ~left /\ ~Tied => want \subseteq seen
=============================================================================
