---------------------------- MODULE QueueListing ----------------------------
(***************************************************************************)
(* GET /api/queue (src/app/queueService.ts): which cases a query selects,  *)
(* in which order, and which of them are on the page it asks for.  The two *)
(* statements of listQueue run in one synchronous call on one table.       *)
(*                                                                         *)
(* A case is the number of its shipment_id in text order.  A row is what   *)
(* the query looks at: status, priority (0 for LOW to 3), queued, the      *)
(* types of the open exceptions, when the oldest of them was opened, and   *)
(* updated_at.  Text the answer carries along is left out.                 *)
(***************************************************************************)
EXTENDS Integers, FiniteSets, Sequences

CONSTANTS
  Cases,        \* cases, by the order of their shipment ids
  None,         \* NULL
  DefaultSize,  \* page_size when the query has none: 25
  MaxSize       \* the largest page_size accepted: 100

ASSUME CasesAssumption == Cases \subseteq Nat /\ IsFiniteSet(Cases)
ASSUME NoneAssumption  == None \notin Int
ASSUME SizesAssumption == DefaultSize \in 1..MaxSize /\ MaxSize \in Nat

(* The statuses in text order. *)
StatusOrder == <<"AWAITING_INFORMATION", "CLEARED", "ESCALATED", "IN_REVIEW", "NEW",
                 "ON_HOLD", "PENDING_APPROVAL">>

Statuses       == {StatusOrder[i] : i \in 1..7}
Priorities     == 0..3
ExceptionTypes == {"MISSING_REQUIRED_DOCUMENT", "INVALID_HTS_CODE",
                   "CONFLICTING_COUNTRY_OF_ORIGIN"}
SortFields     == {"priority", "age", "updated_at", "shipment_id", "status"}
Directions     == {"asc", "desc"}
Terms          == [field : SortFields, dir : Directions]

Rows == [status : Statuses, priority : Priorities, queued : BOOLEAN,
         types : SUBSET ExceptionTypes, oldest : Nat \cup {None}, updated : Nat]

DefaultSort ==
  << [field |-> "priority", dir |-> "desc"], [field |-> "age", dir |-> "desc"] >>

(***************************************************************************)
(* parseQueueQuery: an unknown value is an error, never a filter dropped.  *)
(***************************************************************************)
Accepts(q) ==
  /\ q.status \subseteq Statuses
  /\ q.type \subseteq ExceptionTypes
  /\ q.priority \subseteq Priorities
  /\ q.sort \in Seq(Terms)
  /\ q.page \in Nat \ {0}
  /\ q.size \in 1..MaxSize

(***************************************************************************)
(* The WHERE clause.  The clean filter never hides a cleared case that the *)
(* caller asked to see, although its queued flag is 0.                     *)
(***************************************************************************)
Selects(q, row) ==
  /\ q.clean \/ row.queued \/ (q.cleared /\ row.status = "CLEARED")
  /\ q.cleared \/ row.status # "CLEARED"
  /\ q.status = {} \/ row.status \in q.status
  /\ q.priority = {} \/ row.priority \in q.priority
  /\ q.type = {} \/ q.type \cap row.types # {}

Selected(q, table) == {c \in Cases : Selects(q, table[c])}

(***************************************************************************)
(* The ORDER BY clause.  SQLite sorts NULL before every value.             *)
(***************************************************************************)
SortKey(field, c, row) ==
  CASE field = "priority"    -> row.priority
    [] field = "age"         -> IF row.oldest = None THEN -1 ELSE row.oldest
    [] field = "updated_at"  -> row.updated
    [] field = "shipment_id" -> c
    [] field = "status"      -> CHOOSE i \in 1..7 : StatusOrder[i] = row.status

(* A faulty Ascending: age is not turned around. *)
AscendingAge(term) == term.dir = "asc"

(* The older, the smaller the date: age is sorted the other way round. *)
Ascending(term) == (term.field = "age") # (term.dir = "asc")

Differs(term, table, c, d) ==
  SortKey(term.field, c, table[c]) # SortKey(term.field, d, table[d])

Before(term, table, c, d) ==
  IF Ascending(term)
  THEN SortKey(term.field, c, table[c]) < SortKey(term.field, d, table[d])
  ELSE SortKey(term.field, c, table[c]) > SortKey(term.field, d, table[d])

(* The first term that tells two cases apart decides, then shipment_id.    *)
Precedes(sort, table, c, d) ==
  \/ \E i \in DOMAIN sort :
       /\ Before(sort[i], table, c, d)
       /\ \A j \in 1..(i - 1) : ~Differs(sort[j], table, c, d)
  \/ (\A i \in DOMAIN sort : ~Differs(sort[i], table, c, d)) /\ c < d

(* The place of a selected case in the listing, from 1. *)
Position(q, table, c) ==
  1 + Cardinality({d \in Selected(q, table) : Precedes(q.sort, table, d, c)})

(***************************************************************************)
(* LIMIT and OFFSET, and the page block of the answer.                     *)
(***************************************************************************)
Offset(q) == (q.page - 1) * q.size

(* A faulty OnPage: the first row of the next page is on this one, too. *)
OnPageInclusive(q, table) ==
  {c \in Selected(q, table) :
     Position(q, table, c) > Offset(q) /\ Position(q, table, c) <= Offset(q) + q.size + 1}

OnPage(q, table) ==
  {c \in Selected(q, table) :
     Position(q, table, c) > Offset(q) /\ Position(q, table, c) <= Offset(q) + q.size}

Total(q, table) == Cardinality(Selected(q, table))

(* Math.max(1, Math.ceil(total / page_size)) *)
TotalPages(q, table) ==
  IF Total(q, table) = 0 THEN 1 ELSE (Total(q, table) + q.size - 1) \div q.size

Filters(q) == [status |-> q.status, type |-> q.type, priority |-> q.priority,
               clean |-> q.clean, cleared |-> q.cleared]

(* The cases of the page in order, as projectRow reads them. *)
Listing(q, table) ==
  LET shown == OnPage(q, table)
      place == [c \in shown |-> Position(q, table, c)]
  IN  [i \in 1..Cardinality(shown) |->
         LET c == CHOOSE x \in shown : place[x] = Offset(q) + i IN
         [case |-> c, row |-> table[c]]]

listQueue(q, table) ==
  [data |-> Listing(q, table), page |-> q.page, pages |-> TotalPages(q, table),
   total |-> Total(q, table), filters |-> Filters(q)]
=============================================================================
