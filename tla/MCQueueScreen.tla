---------------------------- MODULE MCQueueScreen ----------------------------
(***************************************************************************)
(* Instances of QueueScreen for TLC: four cases, two to a page, with ties  *)
(* in priority and age; each control offers one or two of its values, and  *)
(* the sort two of its terms.                                               *)
(***************************************************************************)
EXTENDS QueueScreen

Flagged(status, priority, type, oldest) ==
  [status |-> status, priority |-> priority, queued |-> TRUE, types |-> {type},
   oldest |-> oldest, updated |-> 1]

Clean == [status |-> "NEW", priority |-> 0, queued |-> FALSE, types |-> {},
          oldest |-> None, updated |-> 1]

Cleared == [Clean EXCEPT !.status = "CLEARED", !.priority = 3, !.updated = 2]

Old    == Flagged("NEW", 3, "INVALID_HTS_CODE", 1)
Recent == Flagged("IN_REVIEW", 3, "MISSING_REQUIRED_DOCUMENT", 2)
Minor  == Flagged("NEW", 1, "INVALID_HTS_CODE", 1)

MCTables == {[c \in Cases |-> CASE c = 1 -> Recent [] c = 2 -> Minor [] c = 3 -> Old [] OTHER -> t] :
               t \in {Old, Clean, Cleared}}

MCControls ==
  [statuses |-> {"NEW", "CLEARED"}, types |-> {"INVALID_HTS_CODE"}, priorities |-> {3},
   terms |-> {[field |-> "age", dir |-> "desc"], [field |-> "status", dir |-> "asc"]}]

MCWrites == {Recent, Cleared}

(* The address of the screen, the second page with the cleared cases, and a *)
(* status that does not exist.                                             *)
MCBookmarks ==
  {NoFilter,
   [NoFilter EXCEPT !.page = 2, !.cleared = TRUE],
   [NoFilter EXCEPT !.status = {"BOGUS"}]}
=============================================================================
