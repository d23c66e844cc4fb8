----------------------------- MODULE MCSeedBoot -----------------------------
(***************************************************************************)
(* Instances of SeedBoot for TLC.  The releases of the passing run:        *)
(*   first   the repository as it is, with one migration;                  *)
(*   second  a later one with a second migration and other fixtures;       *)
(*   edited  the first with its migration edited after it was applied;     *)
(*   broken  code that needs the second migration, whose file is missing,  *)
(*           whose rules miss what the fixtures expect, and whose default  *)
(*           actor is unknown.                                             *)
(***************************************************************************)
EXTENDS SeedBoot

CONSTANTS e1, e2

MCFiles ==
  [r \in Releases |->
     CASE r = "second" -> [v \in {1, 2} |-> "a"]
       [] r = "edited" -> [v \in {1} |-> "b"]
       [] OTHER        -> [v \in {1} |-> "a"]]

MCNeeds == [r \in Releases |-> IF r \in {"second", "broken"} THEN {1, 2} ELSE {1}]

MCFlagged == [r \in Releases |-> {e1}]

MCDetected == [r \in Releases |-> IF r = "broken" THEN {} ELSE {e1}]
=============================================================================
