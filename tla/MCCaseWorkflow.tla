--------------------------- MODULE MCCaseWorkflow ---------------------------
(***************************************************************************)
(* Instances of CaseWorkflow for TLC.  Each cfg picks the sets that its    *)
(* question needs; the functions over them are defined here.               *)
(***************************************************************************)
EXTENDS CaseWorkflow

(* "invoice", as a caller may spell INVOICE. *)
MCNormal == [r \in RawTypes |-> IF r = "invoice" THEN "INVOICE" ELSE r]

(* A rule reports the missing document it is named after; other rules are  *)
(* about data.                                                             *)
MCMissingOf == [r \in Rules |-> {r} \cap DocTypes]

(* The missing document is HIGH, so that value and age reach the ceiling;  *)
(* the other rules are LOW.                                                *)
MCSeverityOf == [r \in Rules |-> IF r \in DocTypes THEN 2 ELSE Low]

(* Two reads of SystemClock may fall in one millisecond.                   *)
MonotoneClock == {0, 1}
=============================================================================
