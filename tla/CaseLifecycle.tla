---------------------------- MODULE CaseLifecycle ----------------------------
(***************************************************************************)
(* What the case workflow promises, without its tables: a case has a       *)
(* status, findings that wait for a decision, findings a decision settled, *)
(* and a log.  Decisions move the status and are logged; clearing settles  *)
(* every waiting finding at once and is the last decision; evaluations     *)
(* replace the waiting findings by new ones and decide nothing.            *)
(***************************************************************************)
EXTENDS Sequences

CONSTANT Cases

VARIABLES status, waiting, settled, log

lifecycle == <<status, waiting, settled, log>>

(* Where a decision leads. *)
Outcome ==
  [REQUEST_INFORMATION        |-> "AWAITING_INFORMATION",
   SEND_FOR_SPECIALIST_REVIEW |-> "IN_REVIEW",
   PLACE_ON_HOLD              |-> "ON_HOLD",
   ESCALATE_TO_SUPERVISOR     |-> "ESCALATED"]

Logged(c, action, after) ==
  log' = [log EXCEPT ![c] =
            Append(@, [action |-> action, before |-> status[c], after |-> after])]

(* No decision is a no-op: only a further request may keep the status. *)
Decide(c, action) ==
  /\ status[c] # "CLEARED"
  /\ status[c] # Outcome[action] \/ action = "REQUEST_INFORMATION"
  /\ status' = [status EXCEPT ![c] = Outcome[action]]
  /\ Logged(c, action, Outcome[action])
  /\ UNCHANGED <<waiting, settled>>

Settle(c) ==
  /\ status[c] # "CLEARED"
  /\ status' = [status EXCEPT ![c] = "CLEARED"]
  /\ settled' = [settled EXCEPT ![c] = @ \cup waiting[c]]
  /\ waiting' = [waiting EXCEPT ![c] = {}]
  /\ Logged(c, "CLEAR_EXCEPTION", "CLEARED")

(* The new findings were never waiting or settled before. *)
Reevaluate(c) ==
  /\ waiting' = [waiting EXCEPT ![c] = waiting'[c]]
  /\ waiting'[c] \cap (waiting[c] \cup settled[c]) = {}
  /\ UNCHANGED <<status, settled, log>>

Init ==
  /\ settled = [c \in Cases |-> {}]
  /\ log = [c \in Cases |-> <<>>]

Next ==
  \E c \in Cases :
    \/ \E action \in DOMAIN Outcome : Decide(c, action)
    \/ Settle(c)
    \/ Reevaluate(c)

Spec == Init /\ [][Next]_lifecycle
=============================================================================
