---------------------------- MODULE QueueScreen ----------------------------
(***************************************************************************)
(* The queue screen (src/client/screens/queue) beside the table it lists.  *)
(* The query lives in the URL; every click writes a new URL, useQueue      *)
(* keeps the answer to each query under the query itself, and the screen   *)
(* shows what is kept for the query of the present URL.  Meanwhile         *)
(* decisions and evaluations change the table.                             *)
(***************************************************************************)
EXTENDS QueueListing

CONSTANTS
  Tables,     \* tables the screen may find
  Writes,     \* rows a decision or an evaluation may leave
  Bookmarks,  \* URLs that are opened from outside
  Controls,   \* what the user may choose: statuses, types, priorities, sort terms
  MaxClicks,  \* bound on clicks and bookmarks
  MaxWrites   \* bound on writes to the table

ASSUME ControlsAssumption ==
  /\ Controls.statuses \subseteq Statuses
  /\ Controls.types \subseteq ExceptionTypes
  /\ Controls.priorities \subseteq Priorities
  /\ Controls.terms \subseteq Terms
ASSUME TablesAssumption == Tables \subseteq [Cases -> Rows] /\ Writes \subseteq Rows

(* The queued flag is written as "some exception is open", and the oldest  *)
(* is the least opened_at of the open ones: a queued row has an oldest one *)
(* (ProjectionAgrees of CaseWorkflow).                                     *)
Dated(row) == row.queued => row.oldest # None
ASSUME DatedAssumption ==
  /\ \A t \in Tables, c \in Cases : Dated(t[c])
  /\ \A row \in Writes : Dated(row)

VARIABLES
  table,  \* case -> row
  url,    \* the search parameters; page, size and sort may be absent
  kept,   \* query -> what the query cache holds for it
  asked,  \* queries in flight
  clicks, writes

vars == <<table, url, kept, asked, clicks, writes>>

NoFilter == [status |-> {}, type |-> {}, priority |-> {}, clean |-> FALSE, cleared |-> FALSE,
             sort |-> None, page |-> None, size |-> None]

ASSUME BookmarksAssumption == \A u \in Bookmarks : DOMAIN u = DOMAIN NoFilter

(* readQuery: what the URL does not say has its default. *)
Default(value, default) == IF value = None THEN default ELSE value

readQuery(u) ==
  [u EXCEPT !.sort = Default(@, DefaultSort),
            !.page = Default(@, 1),
            !.size = Default(@, DefaultSize)]

Query == readQuery(url)

(* A faulty Key: the filters are not part of it. *)
KeyUnfiltered(q) == [sort |-> q.sort, page |-> q.page, size |-> q.size]

(* qk.queue: the whole query is the key. *)
Key(q) == q

HasAnyFilter(q) ==
  q.status # {} \/ q.type # {} \/ q.priority # {} \/ q.clean \/ q.cleared

Shown == Key(Query) \in DOMAIN kept
Answer == kept[Key(Query)]
Listed == Shown /\ Answer.kind = "listed"

Init ==
  /\ table \in Tables
  /\ url \in Bookmarks
  /\ kept = [k \in {} |-> None]
  /\ asked = {Query}
  /\ clicks = 0 /\ writes = 0

(* A faulty Visit: nothing is asked while an earlier query is in flight. *)
VisitBusy(u) ==
  /\ clicks < MaxClicks /\ clicks' = clicks + 1
  /\ url' = u
  /\ asked' = IF asked = {} THEN {readQuery(u)} ELSE asked
  /\ UNCHANGED <<table, kept, writes>>

(* A query is fetched when nothing is kept for it, and when what is kept   *)
(* is older than staleTime; asking again what is in flight does nothing.   *)
Visit(u) ==
  /\ clicks < MaxClicks /\ clicks' = clicks + 1
  /\ url' = u
  /\ \/ asked' = asked \cup {readQuery(u)}
     \/ Key(readQuery(u)) \in DOMAIN kept /\ UNCHANGED asked
  /\ UNCHANGED <<table, kept, writes>>

(* update: whatever was changed, "page" is deleted. *)
Update(u) == Visit([u EXCEPT !.page = None])

(***************************************************************************)
(* The controls.                                                           *)
(***************************************************************************)
Toggled(S, v) == IF v \in S THEN S \ {v} ELSE S \cup {v}

ToggleStatus(v)        == Update([url EXCEPT !.status = Toggled(@, v)])
ToggleExceptionType(v) == Update([url EXCEPT !.type = Toggled(@, v)])
TogglePriority(v)      == Update([url EXCEPT !.priority = Toggled(@, v)])
ToggleIncludeClean     == Update([url EXCEPT !.clean = ~@])
ToggleIncludeCleared   == Update([url EXCEPT !.cleared = ~@])

(* One term takes the place of the whole sort. *)
SetSort(term) == Update([url EXCEPT !.sort = <<term>>])

ClearAll == HasAnyFilter(Query) /\ Visit(NoFilter)

(* The chips are the server's reading of the filters; removing one is the  *)
(* toggle of its value, on the URL.                                        *)
RemoveChip ==
  /\ Listed
  /\ \/ \E v \in Answer.filters.status   : ToggleStatus(v)
     \/ \E v \in Answer.filters.type     : ToggleExceptionType(v)
     \/ \E v \in Answer.filters.priority : TogglePriority(v)
     \/ Answer.filters.clean   /\ ToggleIncludeClean
     \/ Answer.filters.cleared /\ ToggleIncludeCleared

(* The pager is drawn below a table that is not empty. *)
Pager == Listed /\ Answer.data # << >>

Previous ==
  /\ Pager /\ Answer.page > 1
  /\ Update([url EXCEPT !.page = Answer.page - 1])

Next_ ==
  /\ Pager /\ Answer.page < Answer.pages
  /\ Update([url EXCEPT !.page = Answer.page + 1])

(* A shared or remembered URL is opened. *)
Open == \E u \in Bookmarks : Visit(u)

(***************************************************************************)
(* The query cache and the table.                                          *)
(***************************************************************************)
Keep(q, answer) ==
  /\ asked' = asked \ {q}
  /\ kept' = [k \in DOMAIN kept \cup {Key(q)} |-> IF k = Key(q) THEN answer ELSE kept[k]]
  /\ UNCHANGED <<table, url, clicks, writes>>

Respond(q) ==
  /\ q \in asked /\ Accepts(q)
  /\ LET a == listQueue(q, table) IN
     Keep(q, [kind |-> "listed", data |-> a.data, page |-> a.page, pages |-> a.pages,
              total |-> a.total, filters |-> a.filters])

(* 422 INVALID_QUERY_PARAM: an error panel, never unfiltered data. *)
Reject(q) ==
  /\ q \in asked /\ ~Accepts(q)
  /\ Keep(q, [kind |-> "error"])

(* Neither the request nor its one retry gets an answer. *)
Lose(q) ==
  /\ q \in asked
  /\ Keep(q, [kind |-> "error"])

(* Focus of the window, or Retry on the error panel. *)
Refetch ==
  /\ clicks < MaxClicks /\ clicks' = clicks + 1
  /\ Query \notin asked
  /\ asked' = asked \cup {Query}
  /\ UNCHANGED <<table, url, kept, writes>>

Write(c, row) ==
  /\ writes < MaxWrites /\ writes' = writes + 1
  /\ table[c] # row
  /\ table' = [table EXCEPT ![c] = row]
  /\ UNCHANGED <<url, kept, asked, clicks>>

Click ==
  \/ \E v \in Controls.statuses : ToggleStatus(v)
  \/ \E v \in Controls.types : ToggleExceptionType(v)
  \/ \E v \in Controls.priorities : TogglePriority(v)
  \/ ToggleIncludeClean \/ ToggleIncludeCleared
  \/ \E term \in Controls.terms : SetSort(term)
  \/ ClearAll \/ RemoveChip \/ Previous \/ Next_ \/ Open

Next ==
  \/ Click \/ Refetch
  \/ \E q \in asked : Respond(q) \/ Reject(q) \/ Lose(q)
  \/ \E c \in Cases, row \in Writes : Write(c, row)

(* Every fetch ends, with an answer or an error; nobody has to click. *)
Settled == \E q \in asked : asked' = asked \ {q}

Spec == Init /\ [][Next]_vars /\ WF_asked(Settled)

(***************************************************************************)
(* Properties.                                                             *)
(***************************************************************************)
(* The pages of a listing of an unchanging table hold every selected case  *)
(* on exactly one page: none is skipped or shown twice between two pages,  *)
(* whatever the sort and its ties (LIMIT and OFFSET over ORDER BY).        *)
PagesPartition ==
  Accepts(Query) =>
    LET last  == TotalPages(Query, table)
        shown == [k \in 1..(last + 1) |-> OnPage([Query EXCEPT !.page = k], table)]
    IN  \A c \in Selected(Query, table) :
          \E p \in 1..last : {k \in DOMAIN shown : c \in shown[k]} = {p}

(* In the default sort of the work list, without clean and cleared cases,  *)
(* a case above another is more urgent, or as urgent and open as long: the *)
(* screen never hides an older case of the same priority below a newer.    *)
OldestFirst ==
  Listed /\ Query.sort = DefaultSort /\ ~Query.clean /\ ~Query.cleared =>
    \A i, j \in DOMAIN Answer.data : i < j =>
      LET a == Answer.data[i].row  b == Answer.data[j].row IN
      \/ a.priority > b.priority
      \/ a.priority = b.priority /\ a.oldest # None /\ a.oldest <= b.oldest

(* The rows on the screen are those the URL asks for, and the chips say    *)
(* so: no answer to an earlier query is shown under the filters of this    *)
(* one, however clicks and answers overtake each other, and a page beyond  *)
(* the last is empty.                                                      *)
ShownAsAsked ==
  Listed =>
    /\ Answer.filters = Filters(Query) /\ Answer.page = Query.page
    /\ Answer.page <= Answer.pages \/ Answer.data = << >>
    /\ \A i \in DOMAIN Answer.data : Selects(Query, Answer.data[i].row)

(* Unless the user moves on, the screen comes to show an answer or an      *)
(* error: a query is always in flight while nothing is shown.              *)
AlwaysAnswers == ~Shown ~> Shown

(* "this queue paginates by relative step": a click on Next asks for the   *)
(* page after the one shown.                                               *)
NextAdvances == [][Next_ => url'.page = Answer.page + 1]_vars
=============================================================================
