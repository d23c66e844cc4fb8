------------------------------ MODULE Priority ------------------------------
(***************************************************************************)
(* derivePriority (src/domain/priority.ts): the priority of a case from    *)
(* its open exceptions.  The ladder LOW, MEDIUM, HIGH, CRITICAL is the     *)
(* interval Low..Critical; the basis entries that explain the result are   *)
(* wording and are left out.                                               *)
(***************************************************************************)
EXTENDS Naturals

Low      == 0
Critical == 3
Ladder   == Low..Critical

MultiplicityThreshold == 3

(* A faulty Escalate, without the ceiling. *)
EscalateUnbounded(priority, applies) == IF applies THEN priority + 1 ELSE priority

(* One rung up, absorbed by the CRITICAL ceiling, when the factor applies. *)
Escalate(priority, applies) ==
  IF applies /\ priority < Critical THEN priority + 1 ELSE priority

(* A faulty DerivePriority, which starts from the lowest severity. *)
DerivePriorityFromLowest(severities, highValue, count, aged) ==
  IF severities = {} THEN Low
  ELSE LET base == CHOOSE s \in severities : \A t \in severities : s <= t
       IN Escalate(Escalate(Escalate(base, highValue), count >= MultiplicityThreshold), aged)

(***************************************************************************)
(* severities: the mapped severities of the open exceptions; highValue:    *)
(* the shipment is worth at least 50,000; count: how many are open; aged:  *)
(* the oldest was opened strictly more than seven days before now.         *)
(***************************************************************************)
DerivePriority(severities, highValue, count, aged) ==
  IF severities = {} THEN Low
  ELSE LET base     == CHOOSE s \in severities : \A t \in severities : t <= s
           byValue  == Escalate(base, highValue)
           byNumber == Escalate(byValue, count >= MultiplicityThreshold)
       IN Escalate(byNumber, aged)
=============================================================================
