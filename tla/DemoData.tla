------------------------------ MODULE DemoData ------------------------------
(***************************************************************************)
(* What the boot promises of the demo data: nobody ever reads part of it.  *)
(* The cases are absent, then all there at once; afterwards they change by *)
(* decisions, one case each, and as a whole when the data is loaded anew.  *)
(***************************************************************************)
CONSTANTS Entries, Closed  \* entries, and those cleared from the start

VARIABLE cases  \* the cases rows by entry; empty before the first seed

Rows == [status : {"seeded", "worked", "cleared"}, acted : BOOLEAN, queued : BOOLEAN]

DataInit == DOMAIN cases = {}

(* A whole data set takes the place of whatever was there. *)
Load ==
  /\ cases' \in [Entries -> Rows]
  /\ \A e \in Entries : cases'[e].status = IF e \in Closed THEN "cleared" ELSE "seeded"

(* A decision is on one case that is not cleared. *)
Decision ==
  \E e \in Entries :
    /\ cases \in [Entries -> Rows]
    /\ cases[e].status # "cleared"
    /\ \E row \in Rows :
         /\ row.status # "seeded" /\ row.acted
         /\ cases' = [cases EXCEPT ![e] = row]

DataNext == Load \/ Decision
DataSpec == DataInit /\ [][DataNext]_cases
=============================================================================
